------------------------------ MODULE Signaling ------------------------------
(***************************************************************************)
(* The signaling service as it runs: several processes over one Redis      *)
(* store.  A process serialises the requests for a record with a           *)
(* KeyedSerialTaskRunner of its own; between processes only the            *)
(* compare-and-swap of a save protects a record.  A request reads the      *)
(* record, decides on that copy, and saves, all awaited; if the save finds *)
(* the record changed it reads again.  The time a request came in is taken *)
(* before it queues, and is not taken again.                               *)
(*                                                                         *)
(* The runner is modelled by its promises: a task awaits the tail it found *)
(* for its key (awaits), and leaves its own for the next one (tail).       *)
(*                                                                         *)
(* Requests that only read a record are left out: they change nothing.     *)
(***************************************************************************)
EXTENDS SignalingRules, FiniteSets

CONSTANTS
    Processes,  \* the processes of the service
    Tasks,      \* as many requests as may be in flight at a time
    Roster,     \* the requests there can be, but for their time
    MaxNow      \* bound on the clock

ASSUME SignalingAssumption == None \notin Tasks \cup Processes

\* What the routes let through; an offer or an answer of a reconnection is named
\* after the instance it is from.
ASSUME RosterAssumption ==
    \A q \in Roster :
        /\ q.op \in {"create", "register"} \cup SessionOps \cup ControlOps
        /\ q.role \in Roles /\ q.from \in Instances
        /\ q.op \in {"create", "offer"} => q.value \in Offers
        /\ q.op \in {"submit", "answer"} => q.value \in Answers
        /\ q.op \in {"offer", "answer"} => q.value = q.from
        /\ q.op = "finalize" => q.value \in Outcomes

LockKeys == RecordKeys \cup {"creation"}

VARIABLES
    store,  \* the records in Redis
    told,   \* the answers whose guest was told that the answer was accepted
    now,    \* Date.now()
    tasks,  \* the requests in flight
    tail    \* tailByKey of every process

vars == <<store, told, now, tasks, tail>>

NoTask == [step |-> "free", process |-> None, awaits |-> None, request |-> None, copy |-> None]

IsCreation(q) == q.op \in {"create", "register"}
KeyFor(q) ==
    CASE q.op = "create"   -> "creation"
      [] q.op = "register" -> "control"
      [] OTHER -> RecordOf(q)

At(q, at) == [op |-> q.op, role |-> q.role, from |-> q.from, value |-> q.value, at |-> at]
-----------------------------------------------------------------------------
\* A request comes in at a process and queues for its key.
Receive(t, p, q) ==
    /\ tasks[t] = NoTask
    /\ tasks' = [tasks EXCEPT ![t] =
                    [step |-> "run", process |-> p, awaits |-> tail[p][KeyFor(q)],
                     request |-> At(q, now), copy |-> None]]
    /\ tail' = [tail EXCEPT ![p][KeyFor(q)] = t]
    /\ UNCHANGED <<store, told, now>>

\* Wrong variant of Tails: the tail is deleted whoever left it.
TailsDropped(t) ==
    [tail EXCEPT ![tasks[t].process][KeyFor(tasks[t].request)] = None]

\* A wrong variant of Tails: the last tail of a key is never deleted.
TailsKept(t) == tail

\* The tail is deleted only if no later task has replaced it.
Tails(t) ==
    [p \in Processes |-> [k \in LockKeys |-> IF tail[p][k] = t THEN None ELSE tail[p][k]]]

\* The task returns or throws: whoever awaits its promise goes on.
Finish(t) ==
    /\ tasks' = [u \in Tasks |->
                    IF u = t THEN NoTask
                    ELSE IF tasks[u].awaits = t THEN [tasks[u] EXCEPT !.awaits = None]
                    ELSE tasks[u]]
    /\ tail' = Tails(t)

\* The tail the task awaits is resolved, or there was none: it is inside.
Inside(t) == tasks[t] # NoTask /\ tasks[t].awaits = None

\* createSession and registerReconnectControlSession: one command of the store,
\* that does nothing if there is a record.  A session id that is taken is drawn
\* again; what is stored under other ids is not modelled.
Create(t) ==
    LET q == tasks[t].request
        k == IF q.op = "create" THEN "session" ELSE "control"
    IN  /\ Inside(t) /\ IsCreation(q)
        /\ \/ store[k] # None /\ UNCHANGED <<store, told>>
           \/ /\ store[k] = None /\ q.op = "create"
              /\ store' = [store EXCEPT ![k] = CreatedSession(q.value, q.at)]
              /\ told' = {}
           \/ /\ store[k] = None /\ q.op = "register"
              /\ store' = [store EXCEPT ![k] = RegisteredControl(q.at)]
              /\ UNCHANGED told
        /\ Finish(t)
        /\ UNCHANGED now

\* getSessionOrThrow and its sibling.
Stored(q) == store[RecordOf(q)]

\* The head of the loop: the record is read and the request decided on it.  A
\* request that fails, or has nothing to save, ends here.
Read(t) ==
    LET q == tasks[t].request
        record == Stored(q)
        toSave == /\ record # None /\ ~Expired(record, q.at)
                  /\ Permits(record, q) /\ ~NothingToDo(record, q)
    IN  /\ Inside(t) /\ tasks[t].step = "run" /\ ~IsCreation(q)
        /\ \/ /\ toSave
              /\ tasks' = [tasks EXCEPT ![t].step = "save", ![t].copy = record]
              /\ UNCHANGED tail
           \/ ~toSave /\ Finish(t)
        /\ UNCHANGED <<store, told, now>>

\* Wrong variant of Unchanged: the record is saved over whatever is stored.
UnchangedOrNot(t) == Stored(tasks[t].request) # None

\* compareAndSwap: the stored text is still the text of the copy.
Unchanged(t) == Stored(tasks[t].request) = tasks[t].copy

\* saveIfUnchanged and its sibling; a save that fails goes back to the read.
Save(t) ==
    LET q == tasks[t].request
        k == RecordOf(q)
    IN  /\ tasks[t].step = "save"
        /\ \/ /\ Unchanged(t)
              /\ store' = [store EXCEPT ![k] = Outcome(tasks[t].copy, q)]
              /\ told' = IF q.op = "submit" THEN told \cup {q.value} ELSE told
              /\ Finish(t)
           \/ /\ ~Unchanged(t)
              /\ tasks' = [tasks EXCEPT ![t].step = "run", ![t].copy = None]
              /\ UNCHANGED <<store, told, tail>>
        /\ UNCHANGED now

\* The TTL of a Redis key, with its grace, has passed.
Evict(k) ==
    /\ store[k] # None /\ Expired(store[k], now)
    /\ store' = [store EXCEPT ![k] = None]
    /\ UNCHANGED <<told, now, tasks, tail>>

Tick ==
    /\ now < MaxNow
    /\ now' = now + 1
    /\ UNCHANGED <<store, told, tasks, tail>>
-----------------------------------------------------------------------------
Init ==
    /\ store = [k \in RecordKeys |-> None]
    /\ told = {}
    /\ now = 0
    /\ tasks = [t \in Tasks |-> NoTask]
    /\ tail = [p \in Processes |-> [k \in LockKeys |-> None]]

Serve(t) == Create(t) \/ Read(t) \/ Save(t)

Next ==
    \/ \E t \in Tasks :
        Serve(t) \/ \E p \in Processes, q \in Roster : Receive(t, p, q)
    \/ \E k \in RecordKeys : Evict(k)
    \/ Tick

Spec == Init /\ [][Next]_vars
-----------------------------------------------------------------------------
QueuesAt(t, p, k) ==
    /\ t \in Tasks /\ tasks[t] # NoTask
    /\ tasks[t].process = p /\ KeyFor(tasks[t].request) = k

\* The values every variable may take; tailByKey holds, and tasks wait for,
\* only tasks in flight for the same key of the same process.
TypeOK ==
    /\ store["session"] \in Sessions \cup {None}
    /\ store["control"] \in Controls \cup {None}
    /\ told \subseteq Answers
    /\ now \in Nat
    /\ tail \in [Processes -> [LockKeys -> Tasks \cup {None}]]
    /\ \A p \in Processes, k \in LockKeys : tail[p][k] # None => QueuesAt(tail[p][k], p, k)
    /\ \A t \in Tasks : tasks[t] # NoTask =>
          /\ tasks[t].step \in {"run", "save"}
          /\ tasks[t].process \in Processes
          /\ tasks[t].awaits # None =>
                QueuesAt(tasks[t].awaits, tasks[t].process, KeyFor(tasks[t].request))
          /\ tasks[t].request.at \in 0 .. now

\* KeyedSerialTaskRunner: in one process one task at a time is inside for a
\* key, though tails are deleted while others wait.
OneAtATime ==
    \A t, u \in Tasks :
        /\ t # u /\ Inside(t) /\ Inside(u)
        /\ tasks[t].process = tasks[u].process
        => KeyFor(tasks[t].request) # KeyFor(tasks[u].request)

\* "That direct-match link already has a guest answer": of all the guests that
\* answer a link, at different processes at the same time, one is told that its
\* answer was accepted, and the host can read no other answer.
OneAnswerAccepted ==
    /\ Cardinality(told) <= 1
    /\ store["session"] # None => told = {store["session"].answer} \ {None}

\* What an instance left in an open attempt does not outlive its claim: the
\* offer is of the instance that has the host's role, the answer of the one that
\* has the guest's.  Offers and answers are named after their instances.
AttemptIsOfClaimants ==
    LET c == store["control"]
    IN  c # None =>
          /\ c.attempt.status \in {"offer-ready", "answer-ready"} =>
                c.attempt.offer = c.claim["host"]
          /\ c.attempt.status = "answer-ready" => c.attempt.answer = c.claim["guest"]

\* The outcome of an attempt is decided once: a finalized attempt keeps its
\* outcome until the host offers anew, an aborted one is dropped with its
\* instance, or the record expires.
FirstOutcomeStays ==
    [][LET c == store["control"]
           d == store'["control"]
       IN  c # None /\ d # None /\ c.attempt.status = "finalized" =>
              \/ d.attempt = c.attempt
              \/ d.attempt.status = "offer-ready" /\ d.attempt.offer = d.claim["host"]
              \/ d.attempt.status = "idle" /\ WasAborted(c.attempt)]_vars

\* However many processes there are, and however their reads and saves
\* interleave, each request is applied to the record the one before it left.
Served == INSTANCE SignalingRecords WITH records <- store
AppliedOneAtATime == Served!Spec
=============================================================================
