--------------------------- MODULE SignalingRules ---------------------------
(***************************************************************************)
(* What the signaling service does to one record, given one request: the   *)
(* offer/answer session of a direct-match link, and the reconnect control  *)
(* session with its two role claims and its one attempt.  Pure rules; who  *)
(* applies them, when, and to which copy of a record is left to others.    *)
(*                                                                         *)
(* A browser tab is an instance: it holds the secret of one role, and its  *)
(* instanceId is its own name.  What is left out of the records: ids,      *)
(* secrets, the times of creation, heartbeat and finalization, the role    *)
(* that finalized.                                                         *)
(***************************************************************************)
EXTENDS Integers

CONSTANTS
    Hosts,    \* the instances that hold the host's secret
    Guests,   \* the instances that hold the guest's secret
    Offers,   \* SDP offers
    Answers,  \* SDP answers
    Ttl,      \* sessionTtlSeconds
    None      \* null

ASSUME RulesAssumption ==
    /\ Hosts \cap Guests = {}
    /\ None \notin Hosts \cup Guests \cup Offers \cup Answers
    /\ Ttl \in Nat \ {0}

Instances == Hosts \cup Guests
Roles == {"host", "guest"}
RoleOf(i) == IF i \in Hosts THEN "host" ELSE "guest"
Outcomes == {"reconnected", "aborted"}

Sessions ==
    [state : {"open", "answered", "finalized"}, offer : Offers,
     answer : Answers \cup {None}, expiresAt : Nat]

Attempts ==
    [status : {"idle", "offer-ready", "answer-ready", "finalized"},
     offer : Offers \cup {None}, answer : Answers \cup {None},
     outcome : Outcomes \cup {None}]

Controls ==
    [state : {"open", "finalized"}, claim : [Roles -> Instances \cup {None}],
     attempt : Attempts, expiresAt : Nat]

Expired(record, at) == record.expiresAt <= at
-----------------------------------------------------------------------------
(***************************************************************************)
(* The offer/answer session.                                               *)
(***************************************************************************)
CreatedSession(offer, at) ==
    [state |-> "open", offer |-> offer, answer |-> None, expiresAt |-> at + Ttl]

\* Wrong variant of TakesAnswer: a later answer replaces the first.
TakesAnyAnswer(s) == s.state # "finalized"

TakesAnswer(s) == s.answer = None /\ s.state = "open"
WithAnswer(s, answer) == [s EXCEPT !.answer = answer, !.state = "answered"]

FinalizedSession(s) == [s EXCEPT !.state = "finalized"]
-----------------------------------------------------------------------------
(***************************************************************************)
(* The reconnect control session.                                          *)
(***************************************************************************)
WithAttempt(c, state, attempt) == [c EXCEPT !.state = state, !.attempt = attempt]

IdleAttempt == [status |-> "idle", offer |-> None, answer |-> None, outcome |-> None]

RegisteredControl(at) ==
    [state |-> "open", claim |-> [role \in Roles |-> None],
     attempt |-> IdleAttempt, expiresAt |-> at + Ttl]

\* assertReconnectRoleAccess.
HasRole(c, role, i) == RoleOf(i) = role /\ c.claim[role] = i

WasAborted(attempt) == attempt.status = "finalized" /\ attempt.outcome = "aborted"

\* Wrong variant of Reconciled: an attempt outlives the instance it was with.
Unreconciled(c, role) == c

\* withReconnectAttemptReconciledForRoleReplacement: what the new instance of
\* a role cannot take up is dropped: a host's offer, a guest's answer.
Reconciled(c, role) ==
    LET attempt == c.attempt
        stale == \/ WasAborted(attempt)
                 \/ role = "host" /\ attempt.status \in {"offer-ready", "answer-ready"}
    IN  IF stale THEN WithAttempt(c, "open", IdleAttempt)
        ELSE IF role = "guest" /\ attempt.status = "answer-ready"
             THEN WithAttempt(c, "open",
                              [attempt EXCEPT !.status = "offer-ready", !.answer = None])
             ELSE c

\* claimReconnectRole: the newcomer wins.
Claimed(c, role, i) ==
    LET claimed == [c EXCEPT !.claim[role] = i]
    IN  IF c.claim[role] \in {None, i} THEN claimed ELSE Reconciled(claimed, role)

WithOffer(c, offer) ==
    WithAttempt(c, "open", [IdleAttempt EXCEPT !.status = "offer-ready", !.offer = offer])

AwaitsAnswer(c) == c.attempt.offer # None /\ c.attempt.status = "offer-ready"
WithReconnectAnswer(c, answer) ==
    WithAttempt(c, c.state, [c.attempt EXCEPT !.status = "answer-ready", !.answer = answer])

Finalized(c, outcome) ==
    WithAttempt(c, "finalized",
                [c.attempt EXCEPT !.status = "finalized", !.outcome = outcome])

\* withRefreshedReconnectControlSessionExpiry.
Refreshed(c, at) == [c EXCEPT !.expiresAt = at + Ttl]
-----------------------------------------------------------------------------
(***************************************************************************)
(* A request names what it asks for, the role it asks it for, the instance *)
(* it is from, and what it carries; "at" is the time it came in.           *)
(***************************************************************************)
SessionOps == {"submit", "finalize-session"}
ControlOps == {"claim", "heartbeat", "offer", "answer", "finalize"}

RecordKeys == {"session", "control"}
RecordOf(q) == IF q.op \in SessionOps THEN "session" ELSE "control"

\* Neither forbidden nor in conflict with what the record says.
Permits(record, q) ==
    CASE q.op = "submit"           -> TakesAnswer(record)
      [] q.op = "finalize-session" -> RoleOf(q.from) = "host" /\ record.answer # None
      [] q.op = "claim"     -> RoleOf(q.from) = q.role
      [] q.op = "heartbeat" -> HasRole(record, q.role, q.from)
      [] q.op = "offer"     -> HasRole(record, "host", q.from)
      [] q.op = "answer"    -> HasRole(record, "guest", q.from) /\ AwaitsAnswer(record)
      [] q.op = "finalize"  -> HasRole(record, q.role, q.from) /\ record.attempt.status # "idle"

Updated(record, q) ==
    CASE q.op = "submit"           -> WithAnswer(record, q.value)
      [] q.op = "finalize-session" -> FinalizedSession(record)
      [] q.op = "claim"     -> Claimed(record, q.role, q.from)
      [] q.op = "heartbeat" -> record
      [] q.op = "offer"     -> WithOffer(record, q.value)
      [] q.op = "answer"    -> WithReconnectAnswer(record, q.value)
      [] q.op = "finalize"  -> Finalized(record, q.value)

\* Wrong variant of NothingToDo: the last outcome of an attempt counts.
FinalizesAgain(record, q) == q.op = "finalize-session" /\ record.state = "finalized"

\* The request is answered from the record as it is; nothing is saved.
NothingToDo(record, q) ==
    \/ q.op = "finalize-session" /\ record.state = "finalized"
    \/ q.op = "finalize" /\ record.attempt.status = "finalized"

\* The record a permitted request leaves; using a control session extends it.
Outcome(record, q) ==
    IF NothingToDo(record, q) THEN record
    ELSE IF q.op \in SessionOps THEN Updated(record, q)
    ELSE Refreshed(Updated(record, q), q.at)
=============================================================================
