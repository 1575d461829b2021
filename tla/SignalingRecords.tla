-------------------------- MODULE SignalingRecords --------------------------
(***************************************************************************)
(* What the signaling service promises: one record of each kind, to which  *)
(* requests are applied one at a time, each to the record as the one       *)
(* before left it, whatever number of processes serve them.                *)
(***************************************************************************)
EXTENDS SignalingRules, FiniteSets

CONSTANTS Roster  \* the requests there can be, but for their time

VARIABLES
    records,  \* the session and the control session
    told,     \* the answers whose guest was told that the answer was accepted
    now

Init ==
    /\ records = [k \in RecordKeys |-> None]
    /\ told = {}
    /\ now = 0

\* A new link, or the registration of a control session.
Create(k, at) ==
    /\ records[k] = None /\ at \in 0 .. now
    /\ \/ /\ k = "session"
          /\ \E offer \in Offers :
                records' = [records EXCEPT ![k] = CreatedSession(offer, at)]
          /\ told' = {}
       \/ /\ k = "control"
          /\ records' = [records EXCEPT ![k] = RegisteredControl(at)]
          /\ told' = told
    /\ UNCHANGED now

\* A request that came in before the record expired is applied to it.
Apply(q) ==
    LET k == RecordOf(q)
    IN  /\ q.op \in SessionOps \cup ControlOps /\ q.at \in 0 .. now
        /\ records[k] # None /\ ~Expired(records[k], q.at) /\ Permits(records[k], q)
        /\ records' = [records EXCEPT ![k] = Outcome(records[k], q)]
        /\ told' = IF q.op = "submit" THEN told \cup {q.value} ELSE told
        /\ UNCHANGED now

\* The store forgets a record that has expired.
Evict(k) ==
    /\ records[k] # None /\ Expired(records[k], now)
    /\ records' = [records EXCEPT ![k] = None]
    /\ UNCHANGED <<told, now>>

Tick == now' = now + 1 /\ UNCHANGED <<records, told>>

At(q, at) == [op |-> q.op, role |-> q.role, from |-> q.from, value |-> q.value, at |-> at]

Next ==
    \/ Tick
    \/ \E k \in RecordKeys : Evict(k) \/ \E at \in 0 .. now : Create(k, at)
    \/ \E q \in Roster, at \in 0 .. now : Apply(At(q, at))

Spec == Init /\ [][Next]_<<records, told, now>>
=============================================================================
