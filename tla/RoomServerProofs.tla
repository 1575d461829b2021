------------------------- MODULE RoomServerProofs -------------------------
(***************************************************************************)
(* The room server keeps its invariants for any number of rooms, players,  *)
(* sockets and handlers.                                                   *)
(*                                                                         *)
(* TypeInv has the types, what a handler knows at each of its steps, and   *)
(* that a key is held by the one handler that is inside a step of it.      *)
(* RoomInv adds what the checks of the code are there for; it rests on     *)
(* CopiesOK: what a handler read under a lock is still so when it writes.  *)
(***************************************************************************)
EXTENDS RoomServer, FiniteSetTheorems, SequenceTheorems, TLAPS

\* The fields of a handler; what it has read is a room, a set of rooms or None.
TaskShaped(task) ==
    /\ task = [step |-> task.step, of |-> task.of, socket |-> task.socket,
               player |-> task.player, room |-> task.room, held |-> task.held,
               copy |-> task.copy, heir |-> task.heir, replaced |-> task.replaced]
    /\ task.socket \in Sockets \cup {None} /\ task.player \in Players \cup {None}
    /\ task.room \in Rooms \cup {None} /\ task.held \in BOOLEAN
    /\ task.heir \in Players \cup {None} /\ task.replaced \in Sockets \cup {None}

Seated(seats, r) == r \in Rooms /\ \E p \in Players : seats[p] = r

\* What a handler has of its socket, player and room at a step.
Knows(seats, of, step, socket, player, room) ==
    /\ step \notin {"free", "create"} => Seated(seats, room)
    /\ step \notin {"free", "check", "delete"} /\ of # "close" => socket \in Sockets
    /\ of = "close" => step \in {"touch", "disconnect"}
    /\ step \in {"session", "start", "attach", "touch", "connect", "disconnect", "play"} =>
          player \in Players
    /\ player # None => seats[player] \in Rooms

TaskOK(seats, task) ==
    /\ TaskShaped(task)
    /\ task.held => task.step \in Split
    /\ Knows(seats, task.of, task.step, task.socket, task.player, task.room)

TasksOK ==
    /\ tasks = [t \in AllTasks |-> tasks[t]]
    /\ \A t \in AllTasks : TaskOK(seat, tasks[t])

Holds(task, k) == task.held /\ KeyOf(task) = k

\* A key is held by the one task that is inside a step of it.
LockOK ==
    /\ lock \in [Keys -> AllTasks \cup {None}]
    /\ \A t \in AllTasks, k \in Keys :
          lock[k] = t <=> tasks[t].held /\ KeyOf(tasks[t]) = k

StoreOK ==
    /\ rooms \in [Rooms -> RoomRecords \cup {None}]
    /\ matches \in [Rooms -> (SUBSET Players) \cup {None}]
    /\ seat \in [Players -> Rooms \cup {None}]
    /\ sessions \subseteq Players /\ known \subseteq Players
    /\ \A p \in sessions : seat[p] \in Rooms
    /\ \A r \in Existing : Seated(seat, r)

RegistryOK ==
    /\ socketOf \in [Players -> Sockets \cup {None}]
    /\ sessionOf \in [Sockets -> Players \cup {None}]
    /\ link \in [Sockets -> {"open", "closing", "closed"}]
    /\ \A s \in Sockets : sessionOf[s] # None => seat[sessionOf[s]] \in Rooms
    /\ \A r \in timers : Seated(seat, r)
    /\ RegistryAgrees

TypeInv == TasksOK /\ LockOK /\ StoreOK /\ RegistryOK
-----------------------------------------------------------------------------
\* The room as a handler read it is the room that is stored, but for the time
\* of its last activity.
Same(copy, stored_) ==
    /\ copy = None <=> stored_ = None
    /\ copy # None => /\ copy \in RoomRecords
                      /\ copy.players = stored_.players /\ copy.invite = stored_.invite

CopiesOK ==
    \A t \in AllTasks : tasks[t].held =>
        /\ tasks[t].step = "touch" => Same(tasks[t].copy, rooms[tasks[t].room])
        /\ tasks[t].step = "create" =>
              Existing \subseteq tasks[t].copy /\ IsFiniteSet(tasks[t].copy)

RoomInv == CopiesOK /\ OneGuestPerInvite /\ IsFiniteSet(Existing) /\ RoomCap

Inv == TypeInv /\ RoomInv
-----------------------------------------------------------------------------
(***************************************************************************)
(* The tasks and the locks.                                                *)
(***************************************************************************)
SeatsGrow == \A p \in Players : seat[p] \in Rooms => seat'[p] = seat[p]

\* A room somebody has a seat in keeps it.
LEMMA SeatedStays ==
    ASSUME SeatsGrow, NEW r, Seated(seat, r)
    PROVE  Seated(seat', r)
  BY DEF SeatsGrow, Seated

\* What holds of a handler goes on to hold as seats are given.
LEMMA TaskStaysOK ==
    ASSUME SeatsGrow, NEW task, TaskOK(seat, task)
    PROVE  TaskOK(seat', task)
  <1>1. task.player # None => task.player \in Players
    BY DEF TaskOK, TaskShaped
  <1>2. task.step \notin {"free", "create"} => Seated(seat', task.room)
    BY SeatedStays DEF TaskOK, Knows
  <1> QED
    BY <1>1, <1>2 DEF TaskOK, Knows, SeatsGrow

\* A step that changes one task, and the locks as this task's field says.
LEMMA OneTaskChanges ==
    ASSUME TasksOK, LockOK, SeatsGrow, NEW t \in AllTasks, NEW task,
           TaskOK(seat', task), tasks' = [tasks EXCEPT ![t] = task],
           lock' \in [Keys -> AllTasks \cup {None}],
           \A k \in Keys : lock'[k] = t <=> Holds(task, k),
           \A u \in AllTasks \ {t}, k \in Keys : lock'[k] = u <=> lock[k] = u
    PROVE  TasksOK' /\ LockOK'
  <1>1. tasks'[t] = task /\ \A u \in AllTasks \ {t} : tasks'[u] = tasks[u]
    BY DEF TasksOK
  <1>2. tasks' = [u \in AllTasks |-> tasks'[u]]
    BY DEF TasksOK
  <1>3. \A u \in AllTasks : TaskOK(seat', tasks'[u])
    BY <1>1, TaskStaysOK DEF TasksOK
  <1>4. TasksOK'
    BY <1>2, <1>3 DEF TasksOK
  <1>5. ASSUME NEW u \in AllTasks, NEW k \in Keys
        PROVE  lock'[k] = u <=> tasks'[u].held /\ KeyOf(tasks'[u]) = k
    <2>1. CASE u = t
      BY <2>1, <1>1 DEF Holds
    <2>2. CASE u # t
      <3>1. lock'[k] = u <=> lock[k] = u
        BY <2>2
      <3>2. lock[k] = u <=> tasks[u].held /\ KeyOf(tasks[u]) = k
        BY DEF LockOK
      <3> QED
        BY <2>2, <3>1, <3>2, <1>1
    <2> QED
      BY <2>1, <2>2
  <1>6. LockOK'
    <2>1. \A u \in AllTasks, k \in Keys : (lock[k] = u)' <=> (tasks[u].held /\ KeyOf(tasks[u]) = k)'
      BY <1>5 DEF KeyOf
    <2> QED
      BY <2>1 DEF LockOK
  <1> QED
    BY <1>4, <1>6

\* The end of a locked step lets go of the keys of that task, and no others.
LEMMA BecomeKeeps ==
    ASSUME TasksOK, LockOK, SeatsGrow, NEW t \in AllTasks, NEW task,
           TaskOK(seat', [task EXCEPT !.held = FALSE]),
           [task EXCEPT !.held = FALSE].held = FALSE,
           Become(t, task)
    PROVE  TasksOK' /\ LockOK'
  <1> DEFINE next == [task EXCEPT !.held = FALSE]
  <1>1. t # None
    BY ServerAssumption DEF AllTasks
  <1>2. tasks' = [tasks EXCEPT ![t] = next]
        /\ lock' = [k \in Keys |-> IF lock[k] = t THEN None ELSE lock[k]]
    BY DEF Become, LetGo
  <1>3. lock' \in [Keys -> AllTasks \cup {None}]
    BY <1>2 DEF LockOK
  <1>4. \A k \in Keys : lock'[k] # t
    BY <1>1, <1>2
  <1>5. \A u \in AllTasks \ {t}, k \in Keys : lock'[k] = u <=> lock[k] = u
    <2>1. None \notin AllTasks
      BY ServerAssumption DEF AllTasks
    <2> QED
      BY <1>2, <2>1
  <1> HIDE DEF next
  <1>6. next.held = FALSE /\ TaskOK(seat', next)
    BY DEF next
  <1>7. \A k \in Keys : lock'[k] = t <=> Holds(next, k)
    BY <1>4, <1>6 DEF Holds
  <1> QED
    BY <1>2, <1>3, <1>4, <1>5, <1>6, <1>7, OneTaskChanges

\* A handler starts in a free task without a key.
LEMMA StartKeeps ==
    ASSUME TasksOK, LockOK, SeatsGrow, NEW t \in AllTasks, NEW task,
           TaskOK(seat', task), task.held = FALSE, Start(t, task), UNCHANGED lock
    PROVE  TasksOK' /\ LockOK'
  <1>1. tasks[t].held = FALSE
    BY DEF Start, NoTask, Handler
  <1>2. \A k \in Keys : lock[k] # t
    BY <1>1 DEF LockOK
  <1>3. lock' \in [Keys -> AllTasks \cup {None}]
    BY DEF LockOK
  <1>4. tasks' = [tasks EXCEPT ![t] = task]
    BY DEF Start
  <1>5. \A k \in Keys : lock'[k] = t <=> Holds(task, k)
    BY <1>2 DEF Holds
  <1> QED
    BY <1>2, <1>3, <1>4, <1>5, OneTaskChanges

\* A task that goes on keeps its fields but for the step and what it has read.
LEMMA GotoFields ==
    ASSUME NEW task, TaskShaped(task), NEW step
    PROVE  [[task EXCEPT !.step = step, !.copy = None] EXCEPT !.held = FALSE] =
              [step |-> step, of |-> task.of, socket |-> task.socket,
               player |-> task.player, room |-> task.room, held |-> FALSE,
               copy |-> None, heir |-> task.heir, replaced |-> task.replaced]
  <1> DEFINE stepped == [task EXCEPT !.step = step]
             dropped == [stepped EXCEPT !.copy = None]
  <1>1. stepped = [step |-> step, of |-> task.of, socket |-> task.socket,
                   player |-> task.player, room |-> task.room, held |-> task.held,
                   copy |-> task.copy, heir |-> task.heir, replaced |-> task.replaced]
    BY DEF TaskShaped
  <1>2. dropped = [step |-> step, of |-> task.of, socket |-> task.socket,
                   player |-> task.player, room |-> task.room, held |-> task.held,
                   copy |-> None, heir |-> task.heir, replaced |-> task.replaced]
    <2> HIDE DEF stepped
    <2> QED
      BY <1>1
  <1>3. [dropped EXCEPT !.held = FALSE] =
            [step |-> step, of |-> task.of, socket |-> task.socket,
             player |-> task.player, room |-> task.room, held |-> FALSE,
             copy |-> None, heir |-> task.heir, replaced |-> task.replaced]
    <2> HIDE DEF dropped
    <2>1. \A v : [dropped EXCEPT !.held = v] =
                   [step |-> step, of |-> task.of, socket |-> task.socket,
                    player |-> task.player, room |-> task.room, held |-> v,
                    copy |-> None, heir |-> task.heir, replaced |-> task.replaced]
      BY <1>2
    <2> QED
      BY <2>1
  <1>4. dropped = [task EXCEPT !.step = step, !.copy = None]
    OBVIOUS
  <1> QED
    BY <1>3, <1>4

\* A task that enters a split step takes the key and what it reads.
LEMMA EnterFields ==
    ASSUME NEW task, TaskShaped(task), NEW c
    PROVE  [[task EXCEPT !.held = TRUE] EXCEPT !.copy = c] =
              [step |-> task.step, of |-> task.of, socket |-> task.socket,
               player |-> task.player, room |-> task.room, held |-> TRUE,
               copy |-> c, heir |-> task.heir, replaced |-> task.replaced]
  <1> DEFINE inside(v) == [task EXCEPT !.held = v]
  <1>1. \A v : inside(v) =
          [step |-> task.step, of |-> task.of, socket |-> task.socket,
           player |-> task.player, room |-> task.room, held |-> v,
           copy |-> task.copy, heir |-> task.heir, replaced |-> task.replaced]
    BY DEF TaskShaped
  <1> HIDE DEF inside
  <1>2. \A v : [inside(v) EXCEPT !.copy = c] =
          [step |-> task.step, of |-> task.of, socket |-> task.socket,
           player |-> task.player, room |-> task.room, held |-> v,
           copy |-> c, heir |-> task.heir, replaced |-> task.replaced]
    <2> TAKE v
    <2> DEFINE there == inside(v)
    <2>1. there = [step |-> task.step, of |-> task.of, socket |-> task.socket,
                   player |-> task.player, room |-> task.room, held |-> v,
                   copy |-> task.copy, heir |-> task.heir, replaced |-> task.replaced]
      BY <1>1
    <2> HIDE DEF there
    <2>2. [there EXCEPT !.copy = c] =
              [step |-> task.step, of |-> task.of, socket |-> task.socket,
               player |-> task.player, room |-> task.room, held |-> v,
               copy |-> c, heir |-> task.heir, replaced |-> task.replaced]
      BY <2>1
    <2> QED
      BY <2>2 DEF there
  <1>3. [inside(TRUE) EXCEPT !.copy = c] =
          [step |-> task.step, of |-> task.of, socket |-> task.socket,
           player |-> task.player, room |-> task.room, held |-> TRUE,
           copy |-> c, heir |-> task.heir, replaced |-> task.replaced]
    BY <1>2
  <1> QED
    BY <1>3 DEF inside

\* A new handler is as it should be if it knows what its step needs.
LEMMA HandlerOK ==
    ASSUME NEW seats, NEW of, NEW step, NEW s \in Sockets \cup {None},
           NEW p \in Players \cup {None}, NEW r \in Rooms \cup {None},
           Knows(seats, of, step, s, p, r)
    PROVE  TaskOK(seats, Handler(of, step, s, p, r)) /\ Handler(of, step, s, p, r).held = FALSE
  <1> DEFINE h == Handler(of, step, s, p, r)
  <1>1. /\ h = [step |-> step, of |-> of, socket |-> s, player |-> p, room |-> r,
                 held |-> FALSE, copy |-> None, heir |-> None, replaced |-> None]
    BY DEF Handler
  <1> HIDE DEF h
  <1>2. /\ h.step = step /\ h.of = of /\ h.socket = s /\ h.player = p /\ h.room = r
        /\ h.held = FALSE /\ h.copy = None /\ h.heir = None /\ h.replaced = None
    BY <1>1
  <1>3. TaskShaped(h)
    BY <1>1, <1>2 DEF TaskShaped
  <1>4. TaskOK(seats, h)
    BY <1>2, <1>3 DEF TaskOK
  <1> QED
    BY <1>2, <1>4 DEF h

\* A new handler holds no key.
LEMMA HandlerLetsGo ==
    ASSUME NEW of, NEW step, NEW s, NEW p, NEW r
    PROVE  [Handler(of, step, s, p, r) EXCEPT !.held = FALSE] = Handler(of, step, s, p, r)
  <1>1. \A v : [Handler(of, step, s, p, r) EXCEPT !.held = v] =
                 [step |-> step, of |-> of, socket |-> s, player |-> p, room |-> r,
                  held |-> v, copy |-> None, heir |-> None, replaced |-> None]
    BY DEF Handler
  <1> QED
    BY <1>1 DEF Handler

\* A handler that first disconnects the player it displaced, as in Attach.
Displacing(of, s, p, r, heir, replaced) ==
    [Handler(of, "touch", s, p, r) EXCEPT !.heir = heir, !.replaced = replaced]

\* What it keeps for the reply it owes.
LEMMA HeirFields ==
    ASSUME NEW of, NEW s, NEW p, NEW r, NEW heir, NEW replaced
    PROVE  [Displacing(of, s, p, r, heir, replaced) EXCEPT !.held = FALSE] =
              [step |-> "touch", of |-> of, socket |-> s, player |-> p, room |-> r,
               held |-> FALSE, copy |-> None, heir |-> heir, replaced |-> replaced]
  <1> DEFINE first(v) == [step |-> "touch", of |-> of, socket |-> s, player |-> p, room |-> r,
                          held |-> v, copy |-> None, heir |-> None, replaced |-> None]
  <1>1. \A v : [[[first(v) EXCEPT !.heir = heir] EXCEPT !.replaced = replaced] EXCEPT !.held = v] =
              [step |-> "touch", of |-> of, socket |-> s, player |-> p, room |-> r,
               held |-> v, copy |-> None, heir |-> heir, replaced |-> replaced]
    <2> TAKE v
    <2> DEFINE second == [first(v) EXCEPT !.heir = heir]
               third == [second EXCEPT !.replaced = replaced]
    <2>1. second = [step |-> "touch", of |-> of, socket |-> s, player |-> p, room |-> r,
                    held |-> v, copy |-> None, heir |-> heir, replaced |-> None]
      OBVIOUS
    <2> HIDE DEF second
    <2>2. third = [step |-> "touch", of |-> of, socket |-> s, player |-> p, room |-> r,
                   held |-> v, copy |-> None, heir |-> heir, replaced |-> replaced]
      BY <2>1
    <2> HIDE DEF third
    <2>3. [third EXCEPT !.held = v] =
              [step |-> "touch", of |-> of, socket |-> s, player |-> p, room |-> r,
               held |-> v, copy |-> None, heir |-> heir, replaced |-> replaced]
      BY <2>2
    <2> QED
      BY <2>3 DEF second, third
  <1> HIDE DEF first
  <1>2. [[[first(FALSE) EXCEPT !.heir = heir] EXCEPT !.replaced = replaced] EXCEPT !.held = FALSE] =
              [step |-> "touch", of |-> of, socket |-> s, player |-> p, room |-> r,
               held |-> FALSE, copy |-> None, heir |-> heir, replaced |-> replaced]
    BY <1>1
  <1> QED
    BY <1>2 DEF first, Handler, Displacing

\* The free task, as any handler's end leaves it.
LEMMA NoTaskOK ==
    ASSUME NEW seats
    PROVE  TaskOK(seats, NoTask) /\ [NoTask EXCEPT !.held = FALSE] = NoTask
           /\ NoTask.held = FALSE
  <1>1. Knows(seats, "none", "free", None, None, None)
    BY DEF Knows
  <1>2. TaskOK(seats, NoTask) /\ NoTask.held = FALSE
    BY <1>1, HandlerOK DEF NoTask
  <1>3. [NoTask EXCEPT !.held = FALSE] = NoTask
    BY HandlerLetsGo DEF NoTask
  <1> QED
    BY <1>2, <1>3

\* The handler goes on as another one.
LEMMA BecomeHandlerKeeps ==
    ASSUME TasksOK, LockOK, SeatsGrow, NEW t \in AllTasks,
           NEW of, NEW step, NEW s \in Sockets \cup {None},
           NEW p \in Players \cup {None}, NEW r \in Rooms \cup {None},
           Knows(seat', of, step, s, p, r), Become(t, Handler(of, step, s, p, r))
    PROVE  TasksOK' /\ LockOK'
  <1> DEFINE h == Handler(of, step, s, p, r)
  <1>1. TaskOK(seat', h) /\ h.held = FALSE
    BY HandlerOK
  <1>2. [h EXCEPT !.held = FALSE] = h
    BY HandlerLetsGo
  <1>3. Become(t, h)
    OBVIOUS
  <1> HIDE DEF h
  <1> QED
    BY <1>1, <1>2, <1>3, BecomeKeeps

\* A handler starts with what it is told.
LEMMA StartHandlerKeeps ==
    ASSUME TasksOK, LockOK, SeatsGrow, NEW t \in AllTasks,
           NEW of, NEW step, NEW s \in Sockets \cup {None},
           NEW p \in Players \cup {None}, NEW r \in Rooms \cup {None},
           Knows(seat', of, step, s, p, r), Start(t, Handler(of, step, s, p, r)),
           UNCHANGED lock
    PROVE  TasksOK' /\ LockOK'
  <1> DEFINE h == Handler(of, step, s, p, r)
  <1>1. TaskOK(seat', h) /\ h.held = FALSE
    BY HandlerOK
  <1>2. Start(t, h)
    OBVIOUS
  <1> HIDE DEF h
  <1> QED
    BY <1>1, <1>2, StartKeeps

\* The end of a handler frees its task.
LEMMA EndKeeps ==
    ASSUME TasksOK, LockOK, SeatsGrow, NEW t \in AllTasks, End(t)
    PROVE  TasksOK' /\ LockOK' /\ tasks'[t] = NoTask
  <1>1. Become(t, NoTask)
    BY DEF End
  <1>2. TasksOK' /\ LockOK'
    BY <1>1, NoTaskOK, BecomeKeeps
  <1>3. tasks'[t] = [NoTask EXCEPT !.held = FALSE]
    BY <1>1 DEF Become, TasksOK
  <1> QED
    BY <1>2, <1>3, NoTaskOK

\* The handler goes on: it keeps its fields and drops what it has read.
LEMMA GotoKeeps ==
    ASSUME TasksOK, LockOK, SeatsGrow, NEW t \in AllTasks, NEW step, Goto(t, step),
           Knows(seat', tasks[t].of, step, tasks[t].socket, tasks[t].player, tasks[t].room)
    PROVE  TasksOK' /\ LockOK'
  <1> DEFINE task == tasks[t]
             next == [task EXCEPT !.step = step, !.copy = None]
             here == [next EXCEPT !.held = FALSE]
  <1>1. TaskShaped(task)
    BY DEF TasksOK, TaskOK
  <1>2. Become(t, next)
    BY DEF Goto
  <1>3. here = [step |-> step, of |-> task.of, socket |-> task.socket,
                player |-> task.player, room |-> task.room, held |-> FALSE,
                copy |-> None, heir |-> task.heir, replaced |-> task.replaced]
    BY <1>1, GotoFields
  <1> HIDE DEF here
  <1>4. /\ here.step = step /\ here.of = task.of /\ here.socket = task.socket
        /\ here.player = task.player /\ here.room = task.room /\ here.held = FALSE
        /\ here.copy = None /\ here.heir = task.heir /\ here.replaced = task.replaced
    BY <1>3
  <1>5. TaskShaped(here)
    BY <1>1, <1>3, <1>4 DEF TaskShaped
  <1>6. TaskOK(seat', here)
    BY <1>4, <1>5 DEF TaskOK
  <1> QED
    BY <1>2, <1>4, <1>6, BecomeKeeps DEF here
-----------------------------------------------------------------------------
(***************************************************************************)
(* TypeInv is inductive: what starts a handler.                            *)
(***************************************************************************)
LEMMA SameSeats == UNCHANGED seat => SeatsGrow
  BY DEF SeatsGrow

\* A handler of a message is one of the tasks.
LEMMA TasksAreTasks == Tasks \subseteq AllTasks
  BY DEF AllTasks

\* A step that leaves the stores alone.
LEMMA StoreStays == StoreOK /\ UNCHANGED store => StoreOK'
  BY DEF StoreOK, store, Existing, Exists

\* A step that leaves the registry and the timers alone.
LEMMA RegistryStays ==
    RegistryOK /\ UNCHANGED <<registry, timers>> /\ SeatsGrow => RegistryOK'
  <1> SUFFICES ASSUME RegistryOK, UNCHANGED <<registry, timers>>, SeatsGrow
               PROVE  RegistryOK'
    OBVIOUS
  <1>1. \A s \in Sockets : sessionOf'[s] # None => seat'[sessionOf'[s]] \in Rooms
    BY DEF RegistryOK, registry, SeatsGrow
  <1>2. \A r \in timers' : Seated(seat', r)
    BY SeatedStays DEF RegistryOK
  <1>3. RegistryAgrees'
    BY DEF RegistryOK, registry, RegistryAgrees
  <1> QED
    BY <1>1, <1>2, <1>3 DEF RegistryOK, registry

\* The session to retire was issued for a room.
LEMMA ReceiveCreateType ==
    ASSUME TypeInv, NEW t \in Tasks, NEW s \in Sockets, ReceiveCreate(t, s)
    PROVE  TypeInv'
  <1>1. UNCHANGED <<store, registry, timers, lock>> /\ UNCHANGED seat /\ SeatsGrow
    BY SameSeats DEF ReceiveCreate, store
  <1>2. TasksOK /\ LockOK /\ StoreOK /\ RegistryOK /\ t \in AllTasks
    BY TasksAreTasks DEF TypeInv
  <1>3. TasksOK' /\ LockOK'
    <2> DEFINE previous == sessionOf[s]
    <2>1. CASE previous # None /\ Start(t, Handler("create", "retire", s, previous, seat[previous]))
      <3>1. previous \in Players /\ seat[previous] \in Rooms
        BY <1>2, <2>1 DEF RegistryOK
      <3>2. Knows(seat', "create", "retire", s, previous, seat[previous])
        BY <1>1, <3>1 DEF Knows, Seated
      <3> QED
        BY <1>1, <1>2, <2>1, <3>1, <3>2, StartHandlerKeeps
    <2>2. CASE Start(t, Handler("create", "create", s, None, None))
      <3>1. Knows(seat', "create", "create", s, None, None)
        BY DEF Knows
      <3> QED
        BY <1>1, <1>2, <2>2, <3>1, StartHandlerKeeps
    <2> QED
      BY <2>1, <2>2 DEF ReceiveCreate
  <1> QED
    BY <1>1, <1>2, <1>3, StoreStays, RegistryStays DEF TypeInv

\* A room with an open invite has a host.
LEMMA ReceiveJoinType ==
    ASSUME TypeInv, NEW t \in Tasks, NEW s \in Sockets, NEW r \in Rooms, ReceiveJoin(t, s, r)
    PROVE  TypeInv'
  <1>1. UNCHANGED <<store, registry, timers, lock>> /\ UNCHANGED seat /\ SeatsGrow
    BY SameSeats DEF ReceiveJoin, store
  <1>2. TasksOK /\ LockOK /\ StoreOK /\ RegistryOK /\ t \in AllTasks
    BY TasksAreTasks DEF TypeInv
  <1>3. Knows(seat', "join", "join", s, None, r)
    BY <1>1 DEF ReceiveJoin, Issued, Knows, Seated
  <1>4. TasksOK' /\ LockOK'
    BY <1>1, <1>2, <1>3, StartHandlerKeeps DEF ReceiveJoin
  <1> QED
    BY <1>1, <1>2, <1>4, StoreStays, RegistryStays DEF TypeInv

\* A stored session was issued for a room.
LEMMA ReceiveWithTokenType ==
    ASSUME TypeInv, NEW t \in Tasks, NEW s \in Sockets, NEW p \in Players, NEW kind,
           ReceiveWithToken(t, s, p, kind)
    PROVE  TypeInv'
  <1>1. UNCHANGED <<store, registry, timers, lock>> /\ UNCHANGED seat /\ SeatsGrow
    BY SameSeats DEF ReceiveWithToken, store
  <1>2. TasksOK /\ LockOK /\ StoreOK /\ RegistryOK /\ t \in AllTasks
    BY TasksAreTasks DEF TypeInv
  <1>3. seat[p] \in Rooms
    BY <1>2 DEF ReceiveWithToken, StoreOK
  <1>4. PICK step \in {"touch", "cancel", "play"} :
            /\ Start(t, Handler(kind, step, s, p, seat[p]))
            /\ kind \in {"reconnect", "cancel", "play"}
    BY DEF ReceiveWithToken
  <1>5. Knows(seat', kind, step, s, p, seat[p])
    BY <1>1, <1>3, <1>4 DEF Knows, Seated
  <1>6. TasksOK' /\ LockOK'
    BY <1>1, <1>2, <1>3, <1>4, <1>5, StartHandlerKeeps
  <1> QED
    BY <1>1, <1>2, <1>6, StoreStays, RegistryStays DEF TypeInv

\* So was the session a socket was attached to.
LEMMA ReceivePongType ==
    ASSUME TypeInv, NEW t \in Tasks, NEW s \in Sockets, ReceivePong(t, s)
    PROVE  TypeInv'
  <1> DEFINE p == sessionOf[s]
  <1>1. UNCHANGED <<registry, timers, lock>> /\ UNCHANGED seat /\ SeatsGrow
    BY SameSeats DEF ReceivePong
  <1>2. TasksOK /\ LockOK /\ StoreOK /\ RegistryOK /\ t \in AllTasks
    BY TasksAreTasks DEF TypeInv
  <1>3. p \in Players /\ seat[p] \in Rooms
    BY <1>2 DEF ReceivePong, RegistryOK
  <1>4. Knows(seat', "pong", "touch", s, p, seat[p])
    BY <1>1, <1>3 DEF Knows, Seated
  <1>5. TasksOK' /\ LockOK'
    BY <1>1, <1>2, <1>3, <1>4, StartHandlerKeeps DEF ReceivePong
  <1>6. StoreOK'
    BY <1>2, <1>3 DEF ReceivePong, StoreOK, Existing, Exists
  <1> QED
    BY <1>1, <1>2, <1>5, <1>6, RegistryStays DEF TypeInv

\* A close takes one entry out of the registry.
LEMMA CloseEventType ==
    ASSUME TypeInv, NEW t \in Tasks, NEW s \in Sockets, CloseEvent(t, s)
    PROVE  TypeInv'
  <1> DEFINE p == sessionOf[s]
  <1>1. UNCHANGED <<store, sessionOf, lock>> /\ UNCHANGED seat /\ SeatsGrow
    BY SameSeats DEF CloseEvent, store
  <1>2. TasksOK /\ LockOK /\ StoreOK /\ RegistryOK /\ t \in AllTasks
    BY TasksAreTasks DEF TypeInv
  <1>3. p # None => p \in Players /\ seat[p] \in Rooms
    BY <1>2 DEF RegistryOK
  <1>4. TasksOK' /\ LockOK'
    <2>1. CASE UNCHANGED tasks
      BY <2>1, <1>1, <1>2 DEF TasksOK, LockOK, KeyOf
    <2>2. CASE p # None /\ Start(t, Handler("close", "touch", None, p, seat[p]))
      <3>1. Knows(seat', "close", "touch", None, p, seat[p])
        BY <1>1, <1>3, <2>2 DEF Knows, Seated
      <3> QED
        BY <1>1, <1>2, <1>3, <2>2, <3>1, StartHandlerKeeps
    <2> QED
      BY <2>1, <2>2 DEF CloseEvent
  <1>5. \A r \in timers' : Seated(seat', r)
    <2>1. timers' = timers \/ (p # None /\ timers' = timers \cup {seat[p]})
      BY DEF CloseEvent
    <2> QED
      BY <2>1, <1>1, <1>2, <1>3 DEF RegistryOK, Seated
  <1>6. /\ link' \in [Sockets -> {"open", "closing", "closed"}]
        /\ socketOf' \in [Players -> Sockets \cup {None}]
        /\ \A q \in Players : socketOf'[q] # None => socketOf'[q] = socketOf[q]
    BY <1>2, <1>3 DEF CloseEvent, RegistryOK
  <1>7. RegistryOK'
    BY <1>1, <1>2, <1>5, <1>6 DEF RegistryOK, RegistryAgrees
  <1> QED
    BY <1>1, <1>2, <1>4, <1>7, StoreStays DEF TypeInv

\* A timer is armed for a room somebody had a seat in.
LEMMA TimerFiresType ==
    ASSUME TypeInv, NEW t \in Tasks, NEW r \in Rooms, TimerFires(t, r)
    PROVE  TypeInv'
  <1>1. UNCHANGED <<store, registry, lock>> /\ UNCHANGED seat /\ SeatsGrow
    BY SameSeats DEF TimerFires, store
  <1>2. TasksOK /\ LockOK /\ StoreOK /\ RegistryOK /\ t \in AllTasks
    BY TasksAreTasks DEF TypeInv
  <1>3. Seated(seat', r)
    BY <1>1, <1>2 DEF TimerFires, RegistryOK
  <1>4. TasksOK' /\ LockOK'
    <2>1. CASE UNCHANGED tasks
      BY <2>1, <1>1, <1>2 DEF TasksOK, LockOK, KeyOf
    <2>2. CASE Start(t, Handler("abandoned", "check", None, None, r))
      <3>1. Knows(seat', "abandoned", "check", None, None, r)
        BY <1>3 DEF Knows
      <3> QED
        BY <1>1, <1>2, <2>2, <3>1, StartHandlerKeeps
    <2> QED
      BY <2>1, <2>2 DEF TimerFires
  <1>5. RegistryOK'
    BY <1>1, <1>2 DEF RegistryOK, registry, RegistryAgrees, TimerFires, Seated
  <1> QED
    BY <1>1, <1>2, <1>4, <1>5, StoreStays DEF TypeInv

\* A socket that closes keeps its session.
LEMMA HangupType ==
    ASSUME TypeInv, NEW s \in Sockets, Hangup(s)
    PROVE  TypeInv'
  <1>1. UNCHANGED store /\ UNCHANGED seat
    BY DEF Hangup, store
  <1>2. TasksOK' /\ LockOK'
    BY <1>1 DEF TypeInv, TasksOK, LockOK, KeyOf, Hangup
  <1>3. RegistryOK'
    BY <1>1 DEF TypeInv, RegistryOK, RegistryAgrees, Hangup, Seated
  <1> QED
    BY <1>1, <1>2, <1>3, StoreStays DEF TypeInv

\* A record of a room is one whatever its last activity.
LEMMA ActivityKeepsRecord ==
    ASSUME NEW record \in RoomRecords, NEW b \in BOOLEAN
    PROVE  /\ [record EXCEPT !.inactive = b] \in RoomRecords
           /\ [record EXCEPT !.inactive = b].players = record.players
           /\ [record EXCEPT !.inactive = b].invite = record.invite
  BY DEF RoomRecords

\* Time passes: the record stays one.
LEMMA BecomeInactiveType ==
    ASSUME TypeInv, NEW r \in Rooms, BecomeInactive(r)
    PROVE  TypeInv'
  <1>1. UNCHANGED <<registry, timers>> /\ UNCHANGED seat /\ SeatsGrow
    BY SameSeats DEF BecomeInactive
  <1>2. TasksOK' /\ LockOK'
    BY <1>1 DEF TypeInv, TasksOK, LockOK, KeyOf, BecomeInactive
  <1>3. rooms[r] \in RoomRecords
    BY DEF BecomeInactive, Exists, TypeInv, StoreOK
  <1>4. [rooms[r] EXCEPT !.inactive = TRUE] \in RoomRecords
    BY <1>3, ActivityKeepsRecord
  <1>5. StoreOK'
    BY <1>4 DEF TypeInv, StoreOK, BecomeInactive, Existing, Exists
  <1> QED
    BY <1>1, <1>2, <1>5, RegistryStays DEF TypeInv

\* The sweep looks at rooms that exist.
LEMMA SweepType ==
    ASSUME TypeInv, NEW r \in Rooms, Sweep(r)
    PROVE  TypeInv'
  <1>1. UNCHANGED <<store, registry, timers, lock>> /\ UNCHANGED seat /\ SeatsGrow
    BY SameSeats DEF Sweep, store
  <1>2. TasksOK /\ LockOK /\ StoreOK /\ RegistryOK /\ Sweeper \in AllTasks
    BY DEF TypeInv, AllTasks
  <1>3. Knows(seat', "sweep", "check", None, None, r)
    BY <1>1, <1>2 DEF Knows, StoreOK, Existing, Sweep
  <1>4. TasksOK' /\ LockOK'
    BY <1>1, <1>2, <1>3, StartHandlerKeeps DEF Sweep
  <1> QED
    BY <1>1, <1>2, <1>4, StoreStays, RegistryStays DEF TypeInv
-----------------------------------------------------------------------------
(***************************************************************************)
(* TypeInv is inductive: the steps of a handler.                           *)
(***************************************************************************)
\* What TypeInv says of the handler that takes a step.
LEMMA StepFacts ==
    ASSUME TypeInv, NEW t \in AllTasks
    PROVE  /\ TasksOK /\ LockOK /\ StoreOK /\ RegistryOK
           /\ TaskOK(seat, tasks[t]) /\ TaskShaped(tasks[t])
           /\ Knows(seat, tasks[t].of, tasks[t].step, tasks[t].socket,
                    tasks[t].player, tasks[t].room)
  BY DEF TypeInv, TasksOK, TaskOK

\* The key that was free gets its holder.
LEMMA EnterType ==
    ASSUME TypeInv, NEW t \in AllTasks, Enter(t)
    PROVE  TypeInv'
  <1> DEFINE task == tasks[t]
             held == [task EXCEPT !.held = TRUE]
             copy == ReadBy(task)
             next == [held EXCEPT !.copy = copy]
  <1>1. UNCHANGED <<store, registry, timers>> /\ UNCHANGED seat /\ SeatsGrow
    BY SameSeats DEF Enter, store
  <1>2. /\ TasksOK /\ LockOK /\ StoreOK /\ RegistryOK
        /\ TaskOK(seat, task) /\ TaskShaped(task)
    BY StepFacts
  <1>3. next = [step |-> task.step, of |-> task.of, socket |-> task.socket,
                player |-> task.player, room |-> task.room, held |-> TRUE,
                copy |-> copy, heir |-> task.heir, replaced |-> task.replaced]
    <2> HIDE DEF copy
    <2> QED
      BY <1>2, EnterFields
  <1>4. tasks' = [tasks EXCEPT ![t] = next]
    BY DEF Enter
  <1> HIDE DEF next
  <1>5. /\ next.step = task.step /\ next.of = task.of /\ next.socket = task.socket
        /\ next.player = task.player /\ next.room = task.room /\ next.held = TRUE
        /\ next.copy = copy /\ next.heir = task.heir /\ next.replaced = task.replaced
    BY <1>3
  <1>6. TaskOK(seat', next)
    <2>1. TaskShaped(next)
      BY <1>2, <1>3, <1>5 DEF TaskShaped
    <2> QED
      BY <1>1, <1>2, <1>5, <2>1 DEF TaskOK, Enter
  <1>7. KeyOf(next) = KeyOf(task) /\ KeyOf(task) \in Keys
    BY <1>2, <1>5 DEF KeyOf, Keys, TaskOK, Knows, Seated, Enter, Split
  <1>8. lock[KeyOf(task)] = None /\ lock' = [lock EXCEPT ![KeyOf(task)] = t]
        /\ task.held = FALSE
    BY <1>2 DEF Enter, TaskShaped
  <1>9. lock' \in [Keys -> AllTasks \cup {None}]
    BY <1>2, <1>8 DEF LockOK
  <1>10. \A k \in Keys : lock[k] # t
    BY <1>2, <1>8 DEF LockOK
  <1>11. \A k \in Keys : lock'[k] = t <=> Holds(next, k)
    BY <1>2, <1>5, <1>7, <1>8, <1>10 DEF LockOK, Holds
  <1>12. \A u \in AllTasks \ {t}, k \in Keys : lock'[k] = u <=> lock[k] = u
    <2>1. None \notin AllTasks
      BY ServerAssumption DEF AllTasks
    <2> QED
      BY <1>2, <1>7, <1>8, <2>1 DEF LockOK
  <1>13. TasksOK' /\ LockOK'
    <2>1. TasksOK /\ LockOK /\ SeatsGrow
      BY <1>1, <1>2
    <2> QED
      BY <2>1, <1>4, <1>6, <1>9, <1>11, <1>12, OneTaskChanges
  <1> QED
    BY <1>1, <1>2, <1>13, StoreStays, RegistryStays DEF TypeInv

\* The session stored is of a player with a seat.
LEMMA CreateSessionType ==
    ASSUME TypeInv, NEW t \in AllTasks, CreateSession(t)
    PROVE  TypeInv'
  <1>1. UNCHANGED <<rooms, matches, known, registry, timers>> /\ UNCHANGED seat /\ SeatsGrow
    BY SameSeats DEF CreateSession
  <1>2. /\ TasksOK /\ LockOK /\ StoreOK /\ RegistryOK /\ TaskShaped(tasks[t])
        /\ Knows(seat, tasks[t].of, "session", tasks[t].socket, tasks[t].player, tasks[t].room)
    BY StepFacts DEF CreateSession, At
  <1>3. TasksOK' /\ LockOK'
    <2>1. PICK step \in {"start", "attach"} : Goto(t, step)
      BY DEF CreateSession
    <2>2. Knows(seat', tasks[t].of, step, tasks[t].socket, tasks[t].player, tasks[t].room)
      BY <1>1, <1>2 DEF Knows
    <2> QED
      BY <1>1, <1>2, <2>1, <2>2, GotoKeeps
  <1>4. tasks[t].player \in Players /\ seat[tasks[t].player] \in Rooms
    <2>1. tasks[t].player \in Players
      BY <1>2 DEF Knows
    <2> QED
      BY <1>2, <2>1, ServerAssumption DEF Knows
  <1>5. StoreOK'
    BY <1>1, <1>2, <1>4 DEF StoreOK, Existing, Exists, CreateSession
  <1> QED
    BY <1>1, <1>2, <1>3, <1>5, RegistryStays DEF TypeInv

\* A locked step that fails changes nothing but the task.
LEMMA ThrowType ==
    ASSUME TypeInv, NEW t \in AllTasks, Throw(t)
    PROVE  TypeInv'
  <1>1. UNCHANGED <<store, registry, timers>> /\ UNCHANGED seat /\ SeatsGrow
    BY SameSeats DEF Throw, store
  <1>2. TasksOK' /\ LockOK'
    BY <1>1, EndKeeps DEF Throw, TypeInv
  <1> QED
    BY <1>1, <1>2, StoreStays, RegistryStays DEF TypeInv

\* The reply with the token.
LEMMA ReplyKeeps ==
    ASSUME TasksOK, LockOK, SeatsGrow, RegistryOK, known \subseteq Players,
           NEW t \in AllTasks, NEW p \in Players, NEW s, NEW replaced, Reply(t, p, s, replaced)
    PROVE  /\ TasksOK' /\ LockOK'
           /\ link' \in [Sockets -> {"open", "closing", "closed"}]
           /\ known' \subseteq Players
  <1>1. TasksOK' /\ LockOK'
    BY EndKeeps DEF Reply
  <1>2. link' \in [Sockets -> {"open", "closing", "closed"}]
    BY DEF Reply, RegistryOK
  <1>3. known' \subseteq Players
    BY DEF Reply
  <1> QED
    BY <1>1, <1>2, <1>3

\* The attached socket speaks for its new player and for no other.
LEMMA AttachType ==
    ASSUME TypeInv, NEW t \in AllTasks, Attach(t)
    PROVE  TypeInv'
  <1> DEFINE p == tasks[t].player
             s == tasks[t].socket
             displaced == IF sessionOf[s] = p THEN None ELSE sessionOf[s]
             replaced  == IF socketOf[p] = s THEN None ELSE socketOf[p]
             next == Displacing(tasks[t].of, s, displaced, seat[displaced], p, replaced)
  <1>1. UNCHANGED <<rooms, matches, seat, sessions, timers>> /\ SeatsGrow
    BY SameSeats DEF Attach
  <1>2. /\ TasksOK /\ LockOK /\ StoreOK /\ RegistryOK /\ TaskShaped(tasks[t])
        /\ Knows(seat, tasks[t].of, "attach", s, p, tasks[t].room)
    BY StepFacts DEF Attach, At
  <1>3. p \in Players /\ s \in Sockets /\ tasks[t].of # "close"
    BY <1>2 DEF Knows
  <1>4. seat[p] \in Rooms
    BY <1>2, <1>3, ServerAssumption DEF Knows
  <1>5. sessionOf[s] # None => sessionOf[s] \in Players /\ seat[sessionOf[s]] \in Rooms
    BY <1>2, <1>3 DEF RegistryOK
  <1>6. socketOf[p] \in Sockets \cup {None}
    BY <1>2, <1>3 DEF RegistryOK
  <1>7. socketOf' = Rebound(p, s) /\ sessionOf' = [sessionOf EXCEPT ![s] = p]
    BY DEF Attach
  <1>8. /\ socketOf' \in [Players -> Sockets \cup {None}]
        /\ sessionOf' \in [Sockets -> Players \cup {None}]
    BY <1>2, <1>3, <1>7 DEF RegistryOK, Rebound
  <1>9. RegistryAgrees'
    <2> SUFFICES ASSUME NEW q \in Players, socketOf'[q] # None
                 PROVE  sessionOf'[socketOf'[q]] = q
      BY DEF RegistryAgrees
    <2>1. CASE q = p
      BY <1>2, <1>3, <1>7, <2>1 DEF RegistryOK, Rebound
    <2>2. CASE q # p
      <3>1. socketOf'[q] = socketOf[q] /\ ~(q = sessionOf[s] /\ socketOf[q] = s)
        BY <1>7, <2>2 DEF Rebound, IsCurrent
      <3>2. sessionOf[socketOf[q]] = q /\ socketOf[q] \in Sockets
        BY <1>2, <3>1 DEF RegistryOK, RegistryAgrees
      <3> QED
        BY <1>2, <1>7, <3>1, <3>2 DEF RegistryOK
    <2> QED
      BY <2>1, <2>2
  <1>10. \A z \in Sockets : sessionOf'[z] # None => seat'[sessionOf'[z]] \in Rooms
    BY <1>1, <1>2, <1>3, <1>4, <1>7 DEF RegistryOK
  <1>11. /\ TasksOK' /\ LockOK' /\ known' \subseteq Players
         /\ link' \in [Sockets -> {"open", "closing", "closed"}]
    <2>1. CASE displaced # None /\ Become(t, next) /\ UNCHANGED <<link, known>>
      <3> DEFINE here == [next EXCEPT !.held = FALSE]
      <3>1. displaced = sessionOf[s] /\ displaced \in Players /\ seat[displaced] \in Rooms
        BY <1>5, <2>1
      <3>2. replaced \in Sockets \cup {None}
        BY <1>6
      <3> HIDE DEF displaced, replaced
      <3>3. here = [step |-> "touch", of |-> tasks[t].of, socket |-> s, player |-> displaced,
                    room |-> seat[displaced], held |-> FALSE, copy |-> None, heir |-> p,
                    replaced |-> replaced]
        BY HeirFields
      <3> HIDE DEF here
      <3>4. /\ here.step = "touch" /\ here.of = tasks[t].of /\ here.socket = s
            /\ here.player = displaced /\ here.room = seat[displaced]
            /\ here.held = FALSE /\ here.copy = None /\ here.heir = p
            /\ here.replaced = replaced
        BY <3>3
      <3>5. TaskShaped(here)
        BY <1>3, <3>1, <3>2, <3>3, <3>4 DEF TaskShaped
      <3>6. Knows(seat', here.of, here.step, here.socket, here.player, here.room)
        BY <1>1, <1>3, <3>1, <3>4 DEF Knows, Seated
      <3>7. TaskOK(seat', here)
        BY <3>4, <3>5, <3>6 DEF TaskOK
      <3>8. TasksOK' /\ LockOK'
        BY <1>1, <1>2, <2>1, <3>4, <3>7, BecomeKeeps DEF here
      <3> QED
        BY <1>2, <2>1, <3>8 DEF StoreOK, RegistryOK
    <2>2. CASE Reply(t, p, s, replaced)
      <3>1. known \subseteq Players
        BY <1>2 DEF StoreOK
      <3> HIDE DEF p, s, replaced
      <3> QED
        BY <1>1, <1>2, <1>3, <2>2, <3>1, ReplyKeeps
    <2> QED
      BY <2>1, <2>2 DEF Attach, Displacing
  <1>12. StoreOK'
    BY <1>1, <1>2, <1>11 DEF StoreOK, Existing, Exists
  <1>13. RegistryOK'
    BY <1>1, <1>2, <1>8, <1>9, <1>10, <1>11 DEF RegistryOK
  <1> QED
    BY <1>11, <1>12, <1>13 DEF TypeInv

\* One entry less in the registry.
LEMMA DetachCancelledType ==
    ASSUME TypeInv, NEW t \in AllTasks, DetachCancelled(t)
    PROVE  TypeInv'
  <1> DEFINE p == sessionOf[tasks[t].socket]
  <1>1. UNCHANGED <<store, sessionOf, link, timers>> /\ UNCHANGED seat /\ SeatsGrow
    BY SameSeats DEF DetachCancelled, store
  <1>2. /\ TasksOK /\ LockOK /\ StoreOK /\ RegistryOK
        /\ Knows(seat, tasks[t].of, "detach", tasks[t].socket, tasks[t].player, tasks[t].room)
    BY StepFacts DEF DetachCancelled, At
  <1>3. TasksOK' /\ LockOK'
    BY <1>1, <1>2, EndKeeps DEF DetachCancelled
  <1>4. tasks[t].socket \in Sockets
    BY <1>2 DEF Knows
  <1>5. /\ socketOf' \in [Players -> Sockets \cup {None}]
        /\ \A q \in Players : socketOf'[q] # None => socketOf'[q] = socketOf[q]
    BY <1>2, <1>4 DEF DetachCancelled, RegistryOK
  <1>6. RegistryOK'
    BY <1>1, <1>2, <1>5 DEF RegistryOK, RegistryAgrees, Seated
  <1> QED
    BY <1>1, <1>2, <1>3, <1>6, StoreStays DEF TypeInv

\* The records that are saved with a new player.
LEMMA RecordOK ==
    ASSUME NEW players \in Seq(Players), NEW b \in BOOLEAN, NEW c \in BOOLEAN
    PROVE  [players |-> players, invite |-> b, inactive |-> c] \in RoomRecords
  BY DEF RoomRecords

\* A player id is issued for a room.
LEMMA SeatGiven ==
    ASSUME StoreOK, NEW p \in Players, NEW r \in Rooms, seat[p] = None,
           seat' = [seat EXCEPT ![p] = r]
    PROVE  /\ SeatsGrow /\ Seated(seat', r)
           /\ seat' \in [Players -> Rooms \cup {None}] /\ seat'[p] = r
           /\ \A q \in Players : seat[q] \in Rooms => seat'[q] \in Rooms
  BY ServerAssumption DEF StoreOK, SeatsGrow, Seated

\* A record with the new player is saved in the room, and the handler goes on
\* to store the session.
LEMMA SeatTakenType ==
    ASSUME TypeInv, NEW t \in AllTasks, NEW r \in Rooms, NEW p \in Players,
           NEW record \in RoomRecords, NEW of, of # "close", tasks[t].socket \in Sockets,
           seat[p] = None, seat' = [seat EXCEPT ![p] = r], rooms' = [rooms EXCEPT ![r] = record],
           Become(t, Handler(of, "session", tasks[t].socket, p, r)),
           UNCHANGED <<matches, sessions, known, registry, timers>>
    PROVE  TypeInv'
  <1>1. TasksOK /\ LockOK /\ StoreOK /\ RegistryOK
    BY DEF TypeInv
  <1>2. /\ SeatsGrow /\ Seated(seat', r)
        /\ seat' \in [Players -> Rooms \cup {None}] /\ seat'[p] = r
        /\ \A q \in Players : seat[q] \in Rooms => seat'[q] \in Rooms
    BY <1>1, SeatGiven
  <1>3. Knows(seat', of, "session", tasks[t].socket, p, r)
    BY <1>2 DEF Knows
  <1>4. TasksOK' /\ LockOK'
    BY <1>1, <1>2, <1>3, BecomeHandlerKeeps
  <1>5. \A z \in Existing' : Seated(seat', z)
    <2> SUFFICES ASSUME NEW z \in Existing'
                 PROVE  Seated(seat', z)
      OBVIOUS
    <2>1. CASE z = r
      BY <1>2, <2>1
    <2>2. CASE z # r
      <3>1. z \in Existing
        BY <1>1, <2>2 DEF Existing, Exists, StoreOK
      <3> QED
        BY <1>1, <1>2, <3>1, SeatedStays DEF StoreOK
    <2> QED
      BY <2>1, <2>2
  <1>6. StoreOK'
    BY <1>1, <1>2, <1>5 DEF StoreOK
  <1> QED
    BY <1>1, <1>2, <1>4, <1>6, RegistryStays DEF TypeInv

\* A room with its host.
LEMMA CreateRoomType ==
    ASSUME TypeInv, NEW t \in AllTasks, CreateRoom(t)
    PROVE  TypeInv'
  <1>1. CASE Throw(t)
    BY <1>1, ThrowType
  <1>2. CASE ~Throw(t)
    <2>1. Knows(seat, tasks[t].of, "create", tasks[t].socket, tasks[t].player, tasks[t].room)
      BY StepFacts DEF CreateRoom, At
    <2>2. tasks[t].socket \in Sockets
      BY <2>1 DEF Knows
    <2>3. PICK r \in Rooms, p \in Players :
              /\ seat[p] = None
              /\ rooms' = [rooms EXCEPT ![r] =
                              [players |-> <<p>>, invite |-> TRUE, inactive |-> FALSE]]
              /\ seat' = [seat EXCEPT ![p] = r]
              /\ Become(t, Handler("create", "session", tasks[t].socket, p, r))
              /\ UNCHANGED <<matches, sessions, known, registry, timers>>
      BY <1>2 DEF CreateRoom
    <2> DEFINE record == [players |-> <<p>>, invite |-> TRUE, inactive |-> FALSE]
    <2>4. record \in RoomRecords
      <3>1. <<p>> \in Seq(Players)
        OBVIOUS
      <3> QED
        BY <3>1, RecordOK
    <2>5. rooms' = [rooms EXCEPT ![r] = record]
      BY <2>3
    <2> HIDE DEF record
    <2> QED
      BY <2>2, <2>3, <2>4, <2>5, SeatTakenType
  <1> QED
    BY <1>1, <1>2

\* A room with its guest.
LEMMA JoinRoomType ==
    ASSUME TypeInv, NEW t \in AllTasks, JoinRoom(t)
    PROVE  TypeInv'
  <1> DEFINE r == tasks[t].room
  <1>1. CASE Throw(t)
    BY <1>1, ThrowType
  <1>2. CASE ~Throw(t)
    <2>1. Knows(seat, tasks[t].of, "join", tasks[t].socket, tasks[t].player, r) /\ StoreOK
      BY StepFacts DEF JoinRoom, Locked
    <2>2. tasks[t].socket \in Sockets /\ r \in Rooms
      BY <2>1 DEF Knows, Seated
    <2>3. /\ SeatOpen(rooms[r])
          /\ \E p \in Players :
              /\ seat[p] = None
              /\ rooms' = [rooms EXCEPT ![r] =
                              [players |-> Append(rooms[r].players, p),
                               invite |-> FALSE, inactive |-> FALSE]]
              /\ seat' = [seat EXCEPT ![p] = r]
              /\ Become(t, Handler("join", "session", tasks[t].socket, p, r))
              /\ UNCHANGED <<matches, sessions, known, registry, timers>>
      BY <1>2 DEF JoinRoom, stored
    <2>4. PICK p \in Players :
              /\ seat[p] = None
              /\ rooms' = [rooms EXCEPT ![r] =
                              [players |-> Append(rooms[r].players, p),
                               invite |-> FALSE, inactive |-> FALSE]]
              /\ seat' = [seat EXCEPT ![p] = r]
              /\ Become(t, Handler("join", "session", tasks[t].socket, p, r))
              /\ UNCHANGED <<matches, sessions, known, registry, timers>>
      BY <2>3
    <2> DEFINE record == [players |-> Append(rooms[r].players, p),
                          invite |-> FALSE, inactive |-> FALSE]
    <2>5. record \in RoomRecords
      <3>1. rooms[r].players \in Seq(Players)
        BY <2>1, <2>2, <2>3 DEF StoreOK, SeatOpen, RoomRecords
      <3>2. Append(rooms[r].players, p) \in Seq(Players)
        BY <3>1
      <3> QED
        BY <3>2, RecordOK
    <2>6. rooms' = [rooms EXCEPT ![r] = record]
      BY <2>4
    <2> HIDE DEF record, r
    <2>7. Become(t, Handler("join", "session", tasks[t].socket, p, r))
      BY <2>4
    <2> QED
      BY <2>2, <2>4, <2>5, <2>6, <2>7, SeatTakenType
  <1> QED
    BY <1>1, <1>2

\* What a deletion leaves.
LEMMA DeletionKeepsStore ==
    ASSUME StoreOK, NEW r \in Rooms, DeleteRoomState(r)
    PROVE  StoreOK' /\ UNCHANGED seat
  <1>1. \A z \in Rooms : rooms'[z] # None => rooms[z] # None
    BY DEF StoreOK, DeleteRoomState
  <1>2. Existing' \subseteq Existing
    BY <1>1 DEF Existing, Exists
  <1>3. UNCHANGED <<seat, known>> /\ sessions' \subseteq sessions
    BY DEF DeleteRoomState
  <1>4. /\ rooms' \in [Rooms -> RoomRecords \cup {None}]
        /\ matches' \in [Rooms -> (SUBSET Players) \cup {None}]
    BY DEF DeleteRoomState, StoreOK
  <1> QED
    BY <1>2, <1>3, <1>4 DEF StoreOK

\* A waiting room is deleted, or not.
LEMMA CancelWaitingRoomType ==
    ASSUME TypeInv, NEW t \in AllTasks, CancelWaitingRoom(t)
    PROVE  TypeInv'
  <1> DEFINE task == tasks[t]
  <1>1. UNCHANGED <<registry, timers>>
    BY DEF CancelWaitingRoom
  <1>2. /\ TasksOK /\ LockOK /\ StoreOK /\ RegistryOK /\ task.step \in {"retire", "cancel"}
        /\ Knows(seat, task.of, task.step, task.socket, task.player, task.room)
    BY StepFacts DEF CancelWaitingRoom, Locked
  <1>3. StoreOK' /\ UNCHANGED seat
    <2>1. task.room \in Rooms
      BY <1>2 DEF Knows, Seated
    <2>2. DeleteRoomState(task.room) \/ (UNCHANGED store /\ UNCHANGED seat)
      BY DEF CancelWaitingRoom, store
    <2> QED
      BY <1>2, <2>1, <2>2, StoreStays, DeletionKeepsStore
  <1>4. SeatsGrow
    BY <1>3, SameSeats
  <1>5. Goto(t, "create") \/ Goto(t, "detach") \/ End(t)
    BY <1>2 DEF CancelWaitingRoom
  <1>6. TasksOK' /\ LockOK'
    <2>1. Knows(seat', task.of, "create", task.socket, task.player, task.room)
      BY <1>2, <1>3 DEF Knows
    <2>2. Knows(seat', task.of, "detach", task.socket, task.player, task.room)
      BY <1>2, <1>3 DEF Knows
    <2> QED
      BY <1>2, <1>4, <1>5, <2>1, <2>2, GotoKeeps, EndKeeps
  <1> QED
    BY <1>1, <1>2, <1>3, <1>4, <1>6, RegistryStays DEF TypeInv

\* Everybody who was issued for the room is in its match.
LEMMA StartMatchType ==
    ASSUME TypeInv, NEW t \in AllTasks, StartMatch(t)
    PROVE  TypeInv'
  <1>1. UNCHANGED <<rooms, sessions, known, registry, timers>> /\ UNCHANGED seat /\ SeatsGrow
    BY SameSeats DEF StartMatch
  <1>2. /\ TasksOK /\ LockOK /\ StoreOK /\ RegistryOK
        /\ Knows(seat, tasks[t].of, "start", tasks[t].socket, tasks[t].player, tasks[t].room)
    BY StepFacts DEF StartMatch, Locked
  <1>3. TasksOK' /\ LockOK'
    <2>1. Knows(seat', tasks[t].of, "attach", tasks[t].socket, tasks[t].player, tasks[t].room)
      BY <1>1, <1>2 DEF Knows
    <2> QED
      BY <1>1, <1>2, <2>1, GotoKeeps DEF StartMatch
  <1>4. NewMatch(tasks[t].room) \in SUBSET Players
    BY DEF NewMatch, Issued
  <1>5. StoreOK'
    BY <1>1, <1>2, <1>4 DEF StoreOK, StartMatch, Existing, Exists
  <1> QED
    BY <1>1, <1>2, <1>3, <1>5, RegistryStays DEF TypeInv

\* The match is saved, or the next one is.
LEMMA PlayType ==
    ASSUME TypeInv, NEW t \in AllTasks, Play(t)
    PROVE  TypeInv'
  <1> DEFINE r == tasks[t].room
  <1>1. CASE Throw(t)
    BY <1>1, ThrowType
  <1>2. CASE /\ matches' = matches \/ matches' = [matches EXCEPT ![r] = NewMatch(r)]
             /\ Goto(t, "touch")
             /\ UNCHANGED <<rooms, sessions, known, registry, timers>> /\ UNCHANGED seat
    <2>1. SeatsGrow
      BY <1>2, SameSeats
    <2>2. /\ TasksOK /\ LockOK /\ StoreOK /\ RegistryOK /\ TaskShaped(tasks[t])
          /\ Knows(seat, tasks[t].of, "play", tasks[t].socket, tasks[t].player, r)
      BY StepFacts DEF Play, Locked
    <2>3. NewMatch(r) \in SUBSET Players
      BY DEF NewMatch, Issued
    <2>4. StoreOK'
      BY <1>2, <2>2, <2>3 DEF StoreOK, Existing, Exists
    <2>5. Knows(seat', tasks[t].of, "touch", tasks[t].socket, tasks[t].player, r)
      BY <1>2, <2>2 DEF Knows
    <2>6. TasksOK' /\ LockOK'
      BY <1>2, <2>1, <2>2, <2>5, GotoKeeps
    <2> QED
      BY <1>2, <2>1, <2>2, <2>4, <2>6, RegistryStays DEF TypeInv
  <1> QED
    BY <1>1, <1>2 DEF Play

\* One player more is shown as connected.
LEMMA ConnectType ==
    ASSUME TypeInv, NEW t \in AllTasks, Connect(t)
    PROVE  TypeInv'
  <1> DEFINE r == tasks[t].room
             p == tasks[t].player
  <1>1. CASE Throw(t)
    BY <1>1, ThrowType
  <1>2. CASE ~Throw(t)
    <2>1. /\ TasksOK /\ LockOK /\ StoreOK /\ RegistryOK /\ TaskShaped(tasks[t])
          /\ Knows(seat, tasks[t].of, "connect", tasks[t].socket, p, r)
      BY StepFacts DEF Connect, Locked
    <2>2. /\ matches' = IF matches[r] = None THEN matches ELSE [matches EXCEPT ![r] = @ \cup {p}]
          /\ Goto(t, "attach")
          /\ UNCHANGED <<rooms, seat, sessions, known, registry, timers>>
      BY <1>2 DEF Connect
    <2>3. SeatsGrow
      BY <2>2, SameSeats
    <2>4. Knows(seat', tasks[t].of, "attach", tasks[t].socket, p, r)
      BY <2>1, <2>2 DEF Knows
    <2>5. TasksOK' /\ LockOK'
      BY <2>1, <2>2, <2>3, <2>4, GotoKeeps
    <2>6. p \in Players /\ r \in Rooms
      BY <2>1 DEF Knows, Seated
    <2>7. matches' \in [Rooms -> (SUBSET Players) \cup {None}]
      BY <2>1, <2>2, <2>6 DEF StoreOK
    <2>8. StoreOK'
      BY <2>1, <2>2, <2>7 DEF StoreOK, Existing, Exists
    <2> QED
      BY <2>1, <2>2, <2>3, <2>5, <2>8, RegistryStays DEF TypeInv
  <1> QED
    BY <1>1, <1>2

\* One less, and a timer or the reply that is owed.
LEMMA DisconnectType ==
    ASSUME TypeInv, NEW t \in AllTasks, Disconnect(t)
    PROVE  TypeInv'
  <1> DEFINE task == tasks[t]
             r == task.room
             p == task.player
  <1>1. CASE Throw(t)
    BY <1>1, ThrowType
  <1>2. CASE ~Throw(t)
    <2>1. /\ TasksOK /\ LockOK /\ StoreOK /\ RegistryOK /\ TaskShaped(task)
          /\ Knows(seat, task.of, "disconnect", task.socket, p, r)
      BY StepFacts DEF Disconnect, Locked
    <2>2. /\ matches' = IF matches[r] = None THEN matches ELSE [matches EXCEPT ![r] = @ \ {p}]
          /\ UNCHANGED <<rooms, seat, sessions, socketOf, sessionOf>>
          /\ \/ timers' = timers \cup {r} /\ End(t) /\ UNCHANGED <<known, link>>
             \/ /\ task.heir # None /\ UNCHANGED timers
                /\ Reply(t, task.heir, task.socket, task.replaced)
      BY <1>2 DEF Disconnect
    <2>3. SeatsGrow
      BY <2>2, SameSeats
    <2>4. r \in Rooms /\ Seated(seat', r)
      BY <2>1, <2>2 DEF Knows, Seated
    <2>5. matches' \in [Rooms -> (SUBSET Players) \cup {None}]
      BY <2>1, <2>2, <2>4 DEF StoreOK
    <2>6. /\ TasksOK' /\ LockOK' /\ known' \subseteq Players
          /\ link' \in [Sockets -> {"open", "closing", "closed"}]
      <3>1. CASE End(t) /\ UNCHANGED <<known, link>>
        BY <2>1, <2>3, <3>1, EndKeeps DEF StoreOK, RegistryOK
      <3>2. CASE task.heir # None /\ Reply(t, task.heir, task.socket, task.replaced)
        <4>1. task.heir \in Players /\ known \subseteq Players
          BY <2>1, <3>2 DEF TaskShaped, StoreOK
        <4> HIDE DEF task
        <4> QED
          BY <2>1, <2>3, <3>2, <4>1, ReplyKeeps
      <3> QED
        BY <2>2, <3>1, <3>2
    <2>7. StoreOK'
      BY <2>1, <2>2, <2>5, <2>6 DEF StoreOK, Existing, Exists
    <2>8. \A z \in timers' : Seated(seat', z)
      BY <2>1, <2>2, <2>3, <2>4, SeatedStays DEF RegistryOK
    <2>9. RegistryOK'
      BY <2>1, <2>2, <2>6, <2>8 DEF RegistryOK, RegistryAgrees
    <2> QED
      BY <2>6, <2>7, <2>9 DEF TypeInv
  <1> QED
    BY <1>1, <1>2

\* The deletion of a cleanup.
LEMMA DeleteRoomType ==
    ASSUME TypeInv, NEW t \in AllTasks, DeleteRoom(t)
    PROVE  TypeInv'
  <1>1. /\ TasksOK /\ LockOK /\ StoreOK /\ RegistryOK
        /\ Knows(seat, tasks[t].of, "delete", tasks[t].socket, tasks[t].player, tasks[t].room)
    BY StepFacts DEF DeleteRoom, At
  <1>2. tasks[t].room \in Rooms
    BY <1>1 DEF Knows, Seated
  <1>3. DeleteRoomState(tasks[t].room) /\ End(t) /\ UNCHANGED <<registry, timers>>
    BY DEF DeleteRoom
  <1>4. StoreOK' /\ UNCHANGED seat
    BY <1>1, <1>2, <1>3, DeletionKeepsStore
  <1>5. SeatsGrow
    BY <1>4, SameSeats
  <1>6. TasksOK' /\ LockOK'
    BY <1>1, <1>3, <1>5, EndKeeps
  <1> QED
    BY <1>1, <1>3, <1>4, <1>5, <1>6, RegistryStays DEF TypeInv

\* The check before it keeps the key.
LEMMA CheckRoomType ==
    ASSUME TypeInv, NEW t \in AllTasks, CheckRoom(t)
    PROVE  TypeInv'
  <1> DEFINE task == tasks[t]
             next == [task EXCEPT !.step = "delete"]
  <1>1. CASE Throw(t)
    BY <1>1, ThrowType
  <1>2. CASE ~Throw(t)
    <2>1. /\ TasksOK /\ LockOK /\ StoreOK /\ RegistryOK /\ TaskShaped(task)
          /\ Knows(seat, task.of, "check", task.socket, task.player, task.room)
      BY StepFacts DEF CheckRoom, At
    <2>2. /\ tasks' = [tasks EXCEPT ![t].step = "delete"]
          /\ UNCHANGED <<store, registry, timers, lock>>
      BY <1>2 DEF CheckRoom
    <2>3. UNCHANGED seat /\ SeatsGrow
      BY <2>2, SameSeats DEF store
    <2>4. tasks' = [tasks EXCEPT ![t] = next]
      BY <2>2
    <2>5. next = [step |-> "delete", of |-> task.of, socket |-> task.socket,
                  player |-> task.player, room |-> task.room, held |-> task.held,
                  copy |-> task.copy, heir |-> task.heir, replaced |-> task.replaced]
      <3> HIDE DEF task
      <3> QED
        BY <2>1 DEF TaskShaped
    <2> HIDE DEF next
    <2>6. /\ next.step = "delete" /\ next.of = task.of /\ next.socket = task.socket
          /\ next.player = task.player /\ next.room = task.room /\ next.held = task.held
          /\ next.copy = task.copy /\ next.heir = task.heir /\ next.replaced = task.replaced
      BY <2>5
    <2>7. TaskShaped(next)
      BY <2>1, <2>5, <2>6 DEF TaskShaped
    <2>8. Knows(seat', next.of, next.step, next.socket, next.player, next.room)
      BY <2>1, <2>3, <2>6 DEF Knows
    <2>9. TaskOK(seat', next)
      BY <2>6, <2>7, <2>8 DEF TaskOK, Split
    <2>10. task.step = "check"
      BY DEF CheckRoom, At
    <2>11. \A k \in Keys : lock'[k] = t <=> Holds(next, k)
      <3>1. KeyOf(next) = KeyOf(task)
        BY <2>6, <2>10 DEF KeyOf
      <3>2. \A k \in Keys : lock[k] = t <=> task.held /\ KeyOf(task) = k
        BY <2>1 DEF LockOK
      <3> QED
        BY <2>2, <2>6, <3>1, <3>2 DEF Holds
    <2>12. lock' \in [Keys -> AllTasks \cup {None}]
      BY <2>1, <2>2 DEF LockOK
    <2>13. \A u \in AllTasks \ {t}, k \in Keys : lock'[k] = u <=> lock[k] = u
      BY <2>2
    <2>14. TasksOK' /\ LockOK'
      BY <2>1, <2>3, <2>4, <2>9, <2>11, <2>12, <2>13, OneTaskChanges
    <2> QED
      BY <2>1, <2>2, <2>3, <2>14, StoreStays, RegistryStays DEF TypeInv
  <1> QED
    BY <1>1, <1>2

\* The record written back is a record because it is the one that is stored.
LEMMA TouchRoomType ==
    ASSUME TypeInv, CopiesOK, NEW t \in AllTasks, TouchRoom(t)
    PROVE  TypeInv'
  <1> DEFINE task == tasks[t]
             record == [task.copy EXCEPT !.inactive = FALSE]
  <1>1. CASE Throw(t)
    BY <1>1, ThrowType
  <1>2. CASE ~Throw(t)
    <2>1. /\ TasksOK /\ LockOK /\ StoreOK /\ RegistryOK /\ TaskShaped(task)
          /\ Knows(seat, task.of, "touch", task.socket, task.player, task.room)
          /\ task.step = "touch" /\ task.held
      BY StepFacts DEF TouchRoom, At, Split
    <2>2. /\ task.copy # None
          /\ rooms' = [rooms EXCEPT ![task.room] = record]
          /\ \/ (task.of = "close" \/ task.heir # None) /\ Goto(t, "disconnect")
             \/ task.of = "reconnect" /\ Goto(t, "connect")
             \/ End(t)
          /\ UNCHANGED <<matches, seat, sessions, known, registry, timers>>
      BY <1>2 DEF TouchRoom
    <2>3. SeatsGrow
      BY <2>2, SameSeats
    <2>4. TasksOK' /\ LockOK'
      <3>1. task.of = "reconnect" =>
              Knows(seat', task.of, "connect", task.socket, task.player, task.room)
        BY <2>1, <2>2 DEF Knows
      <3>2. Knows(seat', task.of, "disconnect", task.socket, task.player, task.room)
        BY <2>1, <2>2 DEF Knows
      <3> QED
        BY <2>1, <2>2, <2>3, <3>1, <3>2, GotoKeeps, EndKeeps
    <2>5. task.room \in Rooms /\ Same(task.copy, rooms[task.room])
      BY <2>1 DEF Knows, Seated, CopiesOK
    <2>6. record \in RoomRecords
      BY <2>2, <2>5, ActivityKeepsRecord DEF Same
    <2> HIDE DEF record
    <2>7. \A z \in Existing' : Seated(seat', z)
      BY <2>1, <2>2, <2>5 DEF Knows, Existing, Exists, StoreOK
    <2>8. StoreOK'
      BY <2>1, <2>2, <2>5, <2>6, <2>7 DEF StoreOK
    <2> QED
      BY <2>1, <2>2, <2>3, <2>4, <2>8, RegistryStays DEF TypeInv
  <1> QED
    BY <1>1, <1>2

\* TypeInv holds at the start,
LEMMA InitType == Init => TypeInv
  <1> SUFFICES ASSUME Init
               PROVE  TypeInv
    OBVIOUS
  <1>1. \A t \in AllTasks : tasks[t] = NoTask
    BY DEF Init
  <1>2. TasksOK
    BY <1>1, NoTaskOK DEF Init, TasksOK
  <1>3. LockOK
    <2>1. None \notin AllTasks
      BY ServerAssumption DEF AllTasks
    <2>2. \A t \in AllTasks : tasks[t].held = FALSE
      BY <1>1, NoTaskOK
    <2> QED
      BY <2>1, <2>2 DEF Init, LockOK
  <1>4. StoreOK
    BY DEF Init, StoreOK, Existing, Exists
  <1>5. RegistryOK
    BY DEF Init, RegistryOK, RegistryAgrees
  <1> QED
    BY <1>2, <1>3, <1>4, <1>5 DEF TypeInv

\* through every step, given what the handlers have read,
LEMMA NextType ==
    ASSUME TypeInv, CopiesOK, Next
    PROVE  TypeInv'
  <1>1. ASSUME NEW t \in AllTasks, Step(t)
        PROVE  TypeInv'
    BY <1>1, EnterType, CreateSessionType, AttachType, DetachCancelledType, CreateRoomType,
       CancelWaitingRoomType, JoinRoomType, StartMatchType, TouchRoomType, ConnectType,
       DisconnectType, CheckRoomType, DeleteRoomType, PlayType DEF Step
  <1>2. ASSUME NEW t \in Tasks, Receive(t)
        PROVE  TypeInv'
    BY <1>2, ReceiveCreateType, ReceiveJoinType, ReceiveWithTokenType, ReceivePongType DEF Receive
  <1> QED
    BY <1>1, <1>2, CloseEventType, TimerFiresType, HangupType, BecomeInactiveType, SweepType
    DEF Next

\* and when nothing happens.
LEMMA StutterType == TypeInv /\ UNCHANGED vars => TypeInv'
  <1> SUFFICES ASSUME TypeInv, UNCHANGED vars
               PROVE  TypeInv'
    OBVIOUS
  <1>1. UNCHANGED <<store, registry, timers, lock, tasks>> /\ UNCHANGED seat
    BY DEF vars, store
  <1>2. TasksOK' /\ LockOK'
    BY <1>1 DEF TypeInv, TasksOK, LockOK, KeyOf
  <1> QED
    BY <1>1, <1>2, SameSeats, StoreStays, RegistryStays DEF TypeInv
-----------------------------------------------------------------------------
(***************************************************************************)
(* RoomInv is inductive.                                                   *)
(***************************************************************************)
\* The step leaves a room as it is, but for its last activity.
RoomKept(r) == Same(rooms[r], rooms'[r])

\* No handler enters a step that touches or creates a room.
NoneEnters ==
    \A u \in AllTasks :
        tasks'[u].held /\ tasks'[u].step \in {"touch", "create"} => tasks'[u] = tasks[u]

\* Two steps that leave a room as it is.
LEMMA SameTwice ==
    ASSUME NEW a, NEW b, NEW c, Same(a, b), Same(b, c)
    PROVE  Same(a, c)
  BY DEF Same

\* A room nobody writes is kept.
LEMMA RoomUnchanged ==
    ASSUME StoreOK, NEW r \in Rooms, rooms'[r] = rooms[r]
    PROVE  RoomKept(r)
  BY DEF RoomKept, Same, StoreOK

\* What a handler inside a step has read is still so, when the others write no
\* room it touches, and create none while it creates one.
LEMMA CopiesStay ==
    ASSUME TypeInv, CopiesOK, NoneEnters,
           \A u \in AllTasks : tasks[u].held /\ tasks'[u] = tasks[u] =>
               /\ tasks[u].step = "touch" => RoomKept(tasks[u].room)
               /\ tasks[u].step = "create" => Existing' \subseteq Existing
    PROVE  CopiesOK'
  <1> SUFFICES ASSUME NEW u \in AllTasks, tasks'[u].held
               PROVE  /\ tasks'[u].step = "touch" => Same(tasks'[u].copy, rooms'[tasks'[u].room])
                      /\ tasks'[u].step = "create" =>
                            Existing' \subseteq tasks'[u].copy /\ IsFiniteSet(tasks'[u].copy)
    BY DEF CopiesOK
  <1>1. CASE tasks'[u].step = "touch"
    <2>1. tasks'[u] = tasks[u] /\ RoomKept(tasks[u].room)
      BY <1>1 DEF NoneEnters
    <2>2. Same(tasks[u].copy, rooms[tasks[u].room])
      BY <1>1, <2>1 DEF CopiesOK
    <2>3. Same(tasks[u].copy, rooms'[tasks[u].room])
      BY <2>1, <2>2, SameTwice DEF RoomKept
    <2> QED
      BY <1>1, <2>1, <2>3
  <1>2. CASE tasks'[u].step = "create"
    <2>1. tasks'[u] = tasks[u] /\ Existing' \subseteq Existing
      BY <1>2 DEF NoneEnters
    <2>2. Existing \subseteq tasks[u].copy /\ IsFiniteSet(tasks[u].copy)
      BY <1>2, <2>1 DEF CopiesOK
    <2> QED
      BY <1>2, <2>1, <2>2
  <1> QED
    BY <1>1, <1>2

\* OneGuestPerInvite, of one room.
OneGuest(record, issued) ==
    /\ Len(record.players) \in 1 .. 2
    /\ record.invite <=> Len(record.players) = 1
    /\ Members(record) = issued
    /\ Cardinality(Members(record)) = Len(record.players)

\* The property and its instances.
LEMMA OneGuestEach ==
    OneGuestPerInvite <=> \A r \in Existing : OneGuest(rooms[r], Issued(r))
  BY DEF OneGuestPerInvite, OneGuest

\* A room that is kept keeps its seats.
LEMMA OneGuestStays ==
    ASSUME TypeInv, NEW r \in Existing, OneGuest(rooms[r], Issued(r)), RoomKept(r),
           Issued(r)' = Issued(r)
    PROVE  OneGuest(rooms'[r], Issued(r)')
  <1>1. rooms[r] # None
    BY DEF Existing, Exists
  <1>2. rooms'[r].players = rooms[r].players /\ rooms'[r].invite = rooms[r].invite
    BY <1>1 DEF RoomKept, Same
  <1> QED
    BY <1>2 DEF OneGuest, Members

\* Fewer rooms are within the cap.
LEMMA FewerRooms ==
    ASSUME IsFiniteSet(Existing), RoomCap, Existing' \subseteq Existing
    PROVE  IsFiniteSet(Existing') /\ RoomCap'
  <1>1. /\ IsFiniteSet(Existing') /\ Cardinality(Existing') <= Cardinality(Existing)
        /\ Cardinality(Existing) \in Nat /\ Cardinality(Existing') \in Nat
    BY FS_Subset, FS_CardinalityType
  <1> QED
    BY <1>1, ServerAssumption DEF RoomCap

\* A step that keeps every room keeps RoomInv.
LEMMA RoomsKeptInv ==
    ASSUME Inv, NoneEnters, \A r \in Rooms : RoomKept(r), UNCHANGED seat
    PROVE  RoomInv'
  <1>1. Existing' = Existing
    BY DEF RoomKept, Same, Existing, Exists
  <1>2. \A r \in Rooms : Issued(r)' = Issued(r)
    BY DEF Issued
  <1>3. \A r \in Existing : OneGuest(rooms'[r], Issued(r)')
    BY <1>2, OneGuestEach, OneGuestStays DEF Inv, RoomInv, Existing
  <1>4. OneGuestPerInvite'
    BY <1>1, <1>3 DEF OneGuestPerInvite, OneGuest
  <1>5. CopiesOK'
    <2>1. \A u \in AllTasks : tasks[u].held /\ tasks[u].step = "touch" => tasks[u].room \in Rooms
      BY DEF Inv, TypeInv, TasksOK, TaskOK, Knows, Seated
    <2> QED
      BY <1>1, <2>1, CopiesStay DEF Inv, RoomInv
  <1> QED
    BY <1>1, <1>4, <1>5, FewerRooms DEF Inv, RoomInv

\* A task that has no key is not inside a step.
LEMMA NoKeyNoEntry ==
    ASSUME TypeInv', NEW t \in AllTasks, \A k \in Keys : lock'[k] # t,
           \A u \in AllTasks \ {t} : tasks'[u] = tasks[u]
    PROVE  NoneEnters
  <1>1. ~tasks'[t].held
    <2> SUFFICES ASSUME tasks'[t].held
                 PROVE  FALSE
      OBVIOUS
    <2>1. TaskOK(seat', tasks'[t])
      BY DEF TypeInv, TasksOK
    <2>2. tasks'[t].step \in Split /\ (tasks'[t].step # "create" => tasks'[t].room \in Rooms)
      BY <2>1 DEF TaskOK, Knows, Seated, Split
    <2>3. KeyOf(tasks'[t]) \in Keys
      BY <2>2 DEF KeyOf, Keys
    <2>4. \A k \in Keys : lock'[k] = t <=> tasks'[t].held /\ KeyOf(tasks'[t]) = k
      BY DEF TypeInv, LockOK, KeyOf
    <2> QED
      BY <2>3, <2>4
  <1> QED
    BY <1>1 DEF NoneEnters

\* A step that ends lets go of its key,
LEMMA BecomeEntersNone ==
    ASSUME TypeInv, TypeInv', NEW t \in AllTasks, NEW task, Become(t, task)
    PROVE  NoneEnters
  <1>1. \A k \in Keys : lock'[k] # t
    BY ServerAssumption DEF Become, LetGo, AllTasks
  <1>2. \A u \in AllTasks \ {t} : tasks'[u] = tasks[u]
    BY DEF Become, TypeInv, TasksOK
  <1> QED
    BY <1>1, <1>2, NoKeyNoEntry

\* a handler that starts has none,
LEMMA StartEntersNone ==
    ASSUME TypeInv, TypeInv', NEW t \in AllTasks, NEW task, Start(t, task), UNCHANGED lock
    PROVE  NoneEnters
  <1>1. tasks[t].held = FALSE
    BY NoTaskOK DEF Start
  <1>2. \A k \in Keys : lock'[k] # t
    BY <1>1 DEF TypeInv, LockOK
  <1>3. \A u \in AllTasks \ {t} : tasks'[u] = tasks[u]
    BY DEF Start, TypeInv, TasksOK
  <1> QED
    BY <1>2, <1>3, NoKeyNoEntry

\* and a task that does nothing enters nothing.
LEMMA IdleEntersNone == UNCHANGED tasks => NoneEnters
  BY DEF NoneEnters

\* The steps that write no room and give no seat.
LEMMA OtherStepsInv ==
    ASSUME Inv, TypeInv', NoneEnters, UNCHANGED <<rooms, seat>>
    PROVE  RoomInv'
  BY RoomUnchanged, RoomsKeptInv DEF Inv, TypeInv

\* A step that fails writes no room.
LEMMA ThrowInv ==
    ASSUME Inv, TypeInv', NEW t \in AllTasks, Throw(t)
    PROVE  RoomInv'
  BY BecomeEntersNone, OtherStepsInv DEF Throw, End, store, Inv

\* Time passes: only the activity changes.
LEMMA BecomeInactiveKeeps ==
    ASSUME Inv, NEW r \in Rooms, BecomeInactive(r), NEW z \in Rooms
    PROVE  RoomKept(z)
  <1>1. rooms[r] \in RoomRecords /\ StoreOK
    BY DEF BecomeInactive, Exists, Inv, TypeInv, StoreOK
  <1>2. CASE z = r
    <2>1. rooms'[r] = [rooms[r] EXCEPT !.inactive = TRUE]
      BY <1>1 DEF BecomeInactive, StoreOK
    <2> QED
      BY <1>1, <1>2, <2>1, ActivityKeepsRecord, ServerAssumption DEF RoomKept, Same
  <1>3. CASE z # r
    BY <1>1, <1>3, RoomUnchanged DEF BecomeInactive, StoreOK
  <1> QED
    BY <1>2, <1>3

\* So RoomInv is kept.
LEMMA BecomeInactiveInv ==
    ASSUME Inv, NEW r \in Rooms, BecomeInactive(r)
    PROVE  RoomInv'
  BY BecomeInactiveKeeps, IdleEntersNone, RoomsKeptInv DEF BecomeInactive

\* The record written back is the one that is stored, with its activity.
LEMMA TouchRoomKeeps ==
    ASSUME Inv, NEW t \in AllTasks, TouchRoom(t), NEW z \in Rooms
    PROVE  RoomKept(z)
  <1> DEFINE task == tasks[t]
             record == [task.copy EXCEPT !.inactive = FALSE]
  <1>1. StoreOK /\ task.room \in Rooms /\ Same(task.copy, rooms[task.room])
    BY StepFacts DEF Inv, RoomInv, CopiesOK, TouchRoom, At, Split, Knows, Seated
  <1>2. CASE Throw(t)
    BY <1>1, <1>2, RoomUnchanged DEF Throw, store
  <1>3. CASE ~Throw(t)
    <2>1. task.copy # None /\ rooms' = [rooms EXCEPT ![task.room] = record]
      BY <1>3 DEF TouchRoom
    <2>2. /\ record \in RoomRecords /\ record.players = task.copy.players
          /\ record.invite = task.copy.invite
      BY <1>1, <2>1, ActivityKeepsRecord DEF Same
    <2>3. rooms'[task.room] = record
      BY <1>1, <2>1 DEF StoreOK
    <2> HIDE DEF record
    <2>4. RoomKept(task.room)
      BY <1>1, <2>1, <2>2, <2>3, ServerAssumption DEF RoomKept, Same, StoreOK
    <2>5. CASE z # task.room
      BY <1>1, <2>1, <2>5, RoomUnchanged DEF StoreOK
    <2> QED
      BY <2>4, <2>5
  <1> QED
    BY <1>2, <1>3

\* So RoomInv is kept.
LEMMA TouchRoomInv ==
    ASSUME Inv, TypeInv', NEW t \in AllTasks, TouchRoom(t)
    PROVE  RoomInv'
  <1>1. PICK task : Become(t, task)
    BY DEF TouchRoom, Throw, Goto, End
  <1>2. UNCHANGED seat
    BY DEF TouchRoom, Throw, store
  <1> QED
    BY <1>1, <1>2, BecomeEntersNone, TouchRoomKeeps, RoomsKeptInv DEF Inv

\* A room is deleted: nobody else is inside a step of it.
LEMMA DeletionInv ==
    ASSUME Inv, TypeInv', NEW t \in AllTasks, NEW r \in Rooms, DeleteRoomState(r),
           lock[r] \in {None, t}, NEW task, Become(t, task)
    PROVE  RoomInv'
  <1>1. TypeInv /\ StoreOK /\ LockOK /\ TasksOK /\ None \notin AllTasks
    BY ServerAssumption DEF Inv, TypeInv, AllTasks
  <1>2. /\ rooms' = [rooms EXCEPT ![r] = None] /\ UNCHANGED seat
    BY DEF DeleteRoomState
  <1>3. \A z \in Rooms \ {r} : rooms'[z] = rooms[z]
    BY <1>1, <1>2 DEF StoreOK
  <1>4. Existing' = Existing \ {r}
    BY <1>1, <1>2, <1>3 DEF Existing, Exists, StoreOK
  <1>5. \A z \in Rooms \ {r} : RoomKept(z)
    BY <1>1, <1>3, RoomUnchanged
  <1>6. NoneEnters
    BY <1>1, BecomeEntersNone
  <1>7. \A k \in Keys : lock'[k] # t
    BY <1>1 DEF Become, LetGo
  <1>8. CopiesOK'
    <2>1. ASSUME NEW u \in AllTasks, tasks[u].held, tasks'[u] = tasks[u], tasks[u].step = "touch"
          PROVE  RoomKept(tasks[u].room)
      <3>1. tasks[u].room \in Rooms
        BY <1>1, <2>1 DEF TasksOK, TaskOK, Knows, Seated
      <3>2. lock[tasks[u].room] = u
        BY <1>1, <2>1, <3>1 DEF LockOK, KeyOf, Keys
      <3>3. lock'[tasks[u].room] = u
        <4>1. KeyOf(tasks'[u]) = tasks[u].room
          BY <2>1 DEF KeyOf
        <4>2. \A k \in Keys : lock'[k] = u <=> tasks'[u].held /\ KeyOf(tasks'[u]) = k
          BY DEF TypeInv, LockOK, KeyOf
        <4> QED
          BY <2>1, <3>1, <4>1, <4>2 DEF Keys
      <3>4. u # t
        BY <1>7, <3>1, <3>3 DEF Keys
      <3>5. tasks[u].room # r
        BY <1>1, <3>2, <3>4
      <3> QED
        BY <1>5, <3>1, <3>5
    <2> QED
      BY <1>1, <1>4, <1>6, <2>1, CopiesStay DEF Inv, RoomInv
  <1>9. OneGuestPerInvite'
    <2>1. \A z \in Rooms : Issued(z)' = Issued(z)
      BY <1>2 DEF Issued
    <2>2. \A z \in Existing' : OneGuest(rooms'[z], Issued(z)')
      BY <1>1, <1>4, <1>5, <2>1, OneGuestEach, OneGuestStays DEF Inv, RoomInv, Existing
    <2> QED
      BY <2>2 DEF OneGuestPerInvite, OneGuest
  <1> QED
    BY <1>4, <1>8, <1>9, FewerRooms DEF Inv, RoomInv

\* A cleanup holds the key of the room from the check to the deletion.
LEMMA DeleteRoomInv ==
    ASSUME Inv, TypeInv', NEW t \in AllTasks, DeleteRoom(t)
    PROVE  RoomInv'
  <1>1. tasks[t].step = "delete" /\ tasks[t].held /\ TypeInv
    BY DEF DeleteRoom, At, Split, Inv
  <1>2. tasks[t].room \in Rooms
    BY <1>1, StepFacts DEF Knows, Seated
  <1>3. lock[tasks[t].room] = t
    BY <1>1, <1>2 DEF TypeInv, LockOK, KeyOf, Keys
  <1> QED
    BY <1>2, <1>3, DeletionInv DEF DeleteRoom, End

\* A cancellation deletes a room whose key is free.
LEMMA CancelWaitingRoomInv ==
    ASSUME Inv, TypeInv', NEW t \in AllTasks, CancelWaitingRoom(t)
    PROVE  RoomInv'
  <1>1. TypeInv /\ tasks[t].step \in {"retire", "cancel"} /\ lock[tasks[t].room] = None
    BY DEF CancelWaitingRoom, Locked, Inv
  <1>2. tasks[t].room \in Rooms
    BY <1>1, StepFacts DEF Knows, Seated
  <1>3. PICK task : Become(t, task)
    BY <1>1 DEF CancelWaitingRoom, Goto, End
  <1>4. CASE DeleteRoomState(tasks[t].room)
    BY <1>1, <1>2, <1>3, <1>4, DeletionInv
  <1>5. CASE UNCHANGED store
    BY <1>1, <1>3, <1>5, BecomeEntersNone, OtherStepsInv DEF store
  <1> QED
    BY <1>4, <1>5 DEF CancelWaitingRoom

\* The count of the rooms is still right when the room is saved.
LEMMA CreateRoomInv ==
    ASSUME Inv, TypeInv', NEW t \in AllTasks, CreateRoom(t)
    PROVE  RoomInv'
  <1>1. CASE Throw(t)
    BY <1>1, ThrowInv
  <1>2. CASE ~Throw(t)
    <2>1. /\ TypeInv /\ TasksOK /\ LockOK /\ StoreOK
          /\ tasks[t].step = "create" /\ tasks[t].held
      BY DEF Inv, TypeInv, CreateRoom, At, Split
    <2>2. /\ Existing \subseteq tasks[t].copy /\ IsFiniteSet(tasks[t].copy)
          /\ Cardinality(tasks[t].copy) < MaxRooms
      BY <1>2, <2>1 DEF Inv, RoomInv, CopiesOK, CreateRoom
    <2>3. PICK r \in Rooms, p \in Players :
              /\ Issued(r) = {} /\ seat[p] = None
              /\ rooms' = [rooms EXCEPT ![r] =
                              [players |-> <<p>>, invite |-> TRUE, inactive |-> FALSE]]
              /\ seat' = [seat EXCEPT ![p] = r]
              /\ Become(t, Handler("create", "session", tasks[t].socket, p, r))
      BY <1>2 DEF CreateRoom
    <2> DEFINE record == [players |-> <<p>>, invite |-> TRUE, inactive |-> FALSE]
    <2>4. rooms' = [rooms EXCEPT ![r] = record]
      BY <2>3
    <2>5. record.players = <<p>> /\ record.invite = TRUE
      OBVIOUS
    <2>6. record # None
      <3>1. <<p>> \in Seq(Players)
        OBVIOUS
      <3> QED
        BY <3>1, RecordOK, ServerAssumption
    <2> HIDE DEF record
    <2>7. \A z \in Rooms \ {r} : rooms'[z] = rooms[z]
      BY <2>1, <2>4 DEF StoreOK
    <2>8. rooms'[r] = record
      BY <2>1, <2>4 DEF StoreOK
    <2>9. Existing' = Existing \cup {r}
      BY <2>6, <2>7, <2>8 DEF Existing, Exists
    <2>10. CopiesOK'
      <3>1. NoneEnters
        BY <2>1, <2>3, BecomeEntersNone
      <3>2. ASSUME NEW u \in AllTasks, tasks[u].held, tasks[u].step = "touch"
            PROVE  RoomKept(tasks[u].room)
        <4>1. Seated(seat, tasks[u].room)
          BY <2>1, <3>2 DEF TasksOK, TaskOK, Knows
        <4>2. tasks[u].room \in Rooms \ {r}
          BY <2>3, <4>1 DEF Seated, Issued
        <4> QED
          BY <2>1, <2>7, <4>2, RoomUnchanged
      <3>3. ASSUME NEW u \in AllTasks, tasks[u].held, tasks[u].step = "create", tasks'[u] = tasks[u]
            PROVE  FALSE
        <4>1. lock[Creation] = u /\ lock[Creation] = t
          BY <2>1, <3>3 DEF LockOK, KeyOf, Keys
        <4>2. lock'[Creation] # t
          BY <2>3, ServerAssumption DEF Become, LetGo, Keys, AllTasks
        <4>3. lock'[Creation] = t <=> tasks'[t].held /\ KeyOf(tasks'[t]) = Creation
          BY DEF TypeInv, LockOK, KeyOf, Keys
        <4>4. KeyOf(tasks'[t]) = Creation
          BY <3>3, <4>1 DEF KeyOf
        <4> QED
          BY <3>3, <4>1, <4>2, <4>3, <4>4
      <3> QED
        BY <2>1, <3>1, <3>2, <3>3, CopiesStay DEF Inv, RoomInv
    <2>11. OneGuestPerInvite'
      <3>1. /\ Issued(r)' = {p}
            /\ \A z \in Rooms \ {r} : Issued(z)' = Issued(z)
        BY <2>1, <2>3, ServerAssumption DEF StoreOK, Issued
      <3>2. OneGuest(rooms'[r], Issued(r)')
        <4>1. Members(record) = {p} /\ Len(record.players) = 1
          BY <2>5 DEF Members
        <4>2. Cardinality({p}) = 1
          BY FS_Singleton
        <4> QED
          BY <2>5, <2>8, <3>1, <4>1, <4>2 DEF OneGuest
      <3>3. \A z \in Existing \ {r} : OneGuest(rooms'[z], Issued(z)')
        BY <2>1, <2>7, <3>1, RoomUnchanged, OneGuestEach, OneGuestStays DEF Inv, RoomInv, Existing
      <3> QED
        BY <2>9, <3>2, <3>3 DEF OneGuestPerInvite, OneGuest
    <2>12. IsFiniteSet(Existing') /\ RoomCap'
      <3>1. /\ IsFiniteSet(Existing) /\ Cardinality(Existing) <= Cardinality(tasks[t].copy)
            /\ Cardinality(Existing) \in Nat /\ Cardinality(tasks[t].copy) \in Nat
        BY <2>2, FS_Subset, FS_CardinalityType
      <3>2. /\ IsFiniteSet(Existing \cup {r})
            /\ Cardinality(Existing \cup {r}) <= Cardinality(Existing) + 1
        <4>1. /\ IsFiniteSet(Existing \cup {r})
              /\ Cardinality(Existing \cup {r}) =
                    IF r \in Existing THEN Cardinality(Existing) ELSE Cardinality(Existing) + 1
          BY <3>1, FS_AddElement
        <4> QED
          BY <3>1, <4>1
      <3>3. Cardinality(Existing \cup {r}) \in Nat
        BY <3>2, FS_CardinalityType
      <3>4. Cardinality(Existing \cup {r}) <= MaxRooms
        BY <2>2, <3>1, <3>2, <3>3, ServerAssumption
      <3> QED
        BY <2>9, <3>2, <3>4 DEF RoomCap
    <2> QED
      BY <2>10, <2>11, <2>12 DEF RoomInv
  <1> QED
    BY <1>1, <1>2

\* The players of a room that a guest joins.
LEMMA SecondPlayer ==
    ASSUME NEW players \in Seq(Players), Len(players) = 1, NEW p \in Players
    PROVE  /\ Append(players, p) \in Seq(Players) /\ Len(Append(players, p)) = 2
           /\ Append(players, p)[1] = players[1] /\ Append(players, p)[2] = p
  <1> DEFINE more == Append(players, p)
  <1>1. more \in Seq(Players)
    OBVIOUS
  <1>2. Len(more) = 2
    OBVIOUS
  <1>3. ASSUME NEW i \in 1 .. Len(players)
        PROVE  more[i] = players[i]
    OBVIOUS
  <1>4. more[Len(players) + 1] = p
    BY AppendProperties, Zenon
  <1> HIDE DEF more
  <1>5. more[1] = players[1] /\ more[2] = p
    BY <1>3, <1>4
  <1> QED
    BY <1>1, <1>2, <1>5 DEF more

\* The guest takes the one free seat.
LEMMA JoinRoomInv ==
    ASSUME Inv, TypeInv', NEW t \in AllTasks, JoinRoom(t)
    PROVE  RoomInv'
  <1>0. PICK r : r = tasks[t].room
    OBVIOUS
  <1>1. CASE Throw(t)
    BY <1>1, ThrowInv
  <1>2. CASE ~Throw(t)
    <2>1. /\ TypeInv /\ TasksOK /\ LockOK /\ StoreOK
          /\ tasks[t].step = "join" /\ lock[r] = None
      BY <1>0 DEF Inv, TypeInv, JoinRoom, Locked
    <2>2. r \in Rooms
      BY <1>0, <2>1, StepFacts DEF Knows, Seated
    <2>3. /\ SeatOpen(rooms[r])
          /\ \E p \in Players :
              /\ seat[p] = None
              /\ rooms' = [rooms EXCEPT ![r] =
                              [players |-> Append(rooms[r].players, p),
                               invite |-> FALSE, inactive |-> FALSE]]
              /\ seat' = [seat EXCEPT ![p] = r]
              /\ Become(t, Handler("join", "session", tasks[t].socket, p, r))
      BY <1>0, <1>2 DEF JoinRoom, stored
    <2>4. PICK p \in Players :
              /\ seat[p] = None
              /\ rooms' = [rooms EXCEPT ![r] =
                              [players |-> Append(rooms[r].players, p),
                               invite |-> FALSE, inactive |-> FALSE]]
              /\ seat' = [seat EXCEPT ![p] = r]
              /\ Become(t, Handler("join", "session", tasks[t].socket, p, r))
      BY <2>3
    <2>5. /\ r \in Existing /\ rooms[r] \in RoomRecords
          /\ rooms[r].players \in Seq(Players) /\ Len(rooms[r].players) < 2
      BY <2>1, <2>2, <2>3 DEF StoreOK, SeatOpen, RoomRecords, Existing, Exists
    <2> DEFINE record == [players |-> Append(rooms[r].players, p),
                          invite |-> FALSE, inactive |-> FALSE]
    <2>6. rooms' = [rooms EXCEPT ![r] = record]
      BY <2>4
    <2>7. record.players = Append(rooms[r].players, p) /\ record.invite = FALSE
      OBVIOUS
    <2>8. record # None
      <3>1. Append(rooms[r].players, p) \in Seq(Players)
        BY <2>5
      <3> QED
        BY <3>1, RecordOK, ServerAssumption
    <2> HIDE DEF record
    <2>9. \A z \in Rooms \ {r} : rooms'[z] = rooms[z]
      BY <2>1, <2>6 DEF StoreOK
    <2>10. rooms'[r] = record
      BY <2>1, <2>2, <2>6 DEF StoreOK
    <2>11. Existing' = Existing
      BY <2>2, <2>5, <2>8, <2>9, <2>10 DEF Existing, Exists
    <2>12. CopiesOK'
      <3>1. NoneEnters
        BY <2>1, <2>4, BecomeEntersNone
      <3>2. ASSUME NEW u \in AllTasks, tasks[u].held, tasks[u].step = "touch"
            PROVE  RoomKept(tasks[u].room)
        <4>1. tasks[u].room \in Rooms
          BY <2>1, <3>2 DEF TasksOK, TaskOK, Knows, Seated
        <4>2. lock[tasks[u].room] = u /\ u # None
          BY <2>1, <3>2, <4>1, ServerAssumption DEF LockOK, KeyOf, Keys, AllTasks
        <4>3. tasks[u].room # r
          BY <2>1, <4>2
        <4> QED
          BY <2>1, <2>9, <4>1, <4>3, RoomUnchanged
      <3> QED
        BY <2>1, <2>11, <3>1, <3>2, CopiesStay DEF Inv, RoomInv
    <2>13. OneGuestPerInvite'
      <3>1. /\ Issued(r)' = Issued(r) \cup {p} /\ p \notin Issued(r)
            /\ \A z \in Rooms \ {r} : Issued(z)' = Issued(z)
        BY <2>1, <2>2, <2>4, ServerAssumption DEF StoreOK, Issued
      <3>2. OneGuest(rooms[r], Issued(r))
        BY <2>5, OneGuestEach DEF Inv, RoomInv
      <3>3. OneGuest(rooms'[r], Issued(r)')
        <4> DEFINE players == rooms[r].players
        <4>1. players \in Seq(Players) /\ Len(players) = 1
          <5>1. players \in Seq(Players) /\ Len(players) < 2
            BY <2>5
          <5>2. Len(players) \in 1 .. 2
            BY <3>2 DEF OneGuest
          <5> HIDE DEF players
          <5>3. Len(players) = 1
            <6>1. \A n \in 1 .. 2 : n < 2 => n = 1
              OBVIOUS
            <6> QED
              BY <5>1, <5>2, <6>1
          <5> QED
            BY <5>1, <5>3
        <4>2. PICK q \in Players : players = <<q>>
          <5> HIDE DEF players
          <5>1. players[1] \in Players /\ players = <<players[1]>>
            BY <4>1
          <5> QED
            BY <5>1
        <4>3. Issued(r) = {q} /\ p # q
          BY <3>1, <3>2, <4>2 DEF OneGuest, Members
        <4>4. /\ record.players \in Seq(Players) /\ Len(record.players) = 2
              /\ record.players[1] = q /\ record.players[2] = p
          <5> HIDE DEF players
          <5>1. players[1] = q
            BY <4>2
          <5>2. record.players = Append(players, p)
            BY <2>7 DEF players
          <5> QED
            BY <4>1, <5>1, <5>2, SecondPlayer
        <4>5. Members(record) = {q, p}
          <5>1. DOMAIN record.players = {1, 2}
            BY <4>4
          <5> QED
            BY <4>4, <5>1 DEF Members
        <4>6. Cardinality({q, p}) = 2
          <5>1. IsFiniteSet({q}) /\ Cardinality({q}) = 1 /\ p \notin {q}
            BY <4>3, FS_Singleton
          <5>2. Cardinality({q} \cup {p}) = 2
            BY <5>1, FS_AddElement
          <5>3. {q} \cup {p} = {q, p}
            OBVIOUS
          <5> QED
            BY <5>2, <5>3
        <4> QED
          <5>1. Members(record) = Issued(r)' /\ Cardinality(Members(record)) = Len(record.players)
            BY <3>1, <4>3, <4>4, <4>5, <4>6
          <5>2. Len(record.players) \in 1 .. 2 /\ (record.invite <=> Len(record.players) = 1)
            BY <2>7, <4>4
          <5> QED
            BY <2>10, <5>1, <5>2 DEF OneGuest
      <3>4. \A z \in Existing \ {r} : OneGuest(rooms'[z], Issued(z)')
        BY <2>1, <2>9, <3>1, RoomUnchanged, OneGuestEach, OneGuestStays DEF Inv, RoomInv, Existing
      <3> QED
        BY <2>11, <3>3, <3>4 DEF OneGuestPerInvite, OneGuest
    <2> QED
      BY <2>11, <2>12, <2>13, FewerRooms DEF Inv, RoomInv
  <1> QED
    BY <1>1, <1>2

\* What a handler reads as it enters a step is so.
LEMMA EnterInv ==
    ASSUME Inv, TypeInv', NEW t \in AllTasks, Enter(t)
    PROVE  RoomInv'
  <1> DEFINE next == [[tasks[t] EXCEPT !.held = TRUE] EXCEPT !.copy = ReadBy(tasks[t])]
  <1>1. /\ TypeInv /\ TasksOK /\ StoreOK /\ CopiesOK /\ TaskShaped(tasks[t])
        /\ Knows(seat, tasks[t].of, tasks[t].step, tasks[t].socket, tasks[t].player, tasks[t].room)
    BY StepFacts DEF Inv, RoomInv
  <1>2. UNCHANGED <<rooms, seat>> /\ UNCHANGED store /\ tasks' = [tasks EXCEPT ![t] = next]
    BY DEF Enter, store
  <1>3. next = [step |-> tasks[t].step, of |-> tasks[t].of, socket |-> tasks[t].socket,
                player |-> tasks[t].player, room |-> tasks[t].room, held |-> TRUE,
                copy |-> ReadBy(tasks[t]), heir |-> tasks[t].heir,
                replaced |-> tasks[t].replaced]
    BY <1>1, EnterFields
  <1> HIDE DEF next
  <1>4. /\ next.step = tasks[t].step /\ next.room = tasks[t].room
        /\ next.copy = ReadBy(tasks[t])
    BY <1>3
  <1>5. tasks'[t] = next /\ \A u \in AllTasks \ {t} : tasks'[u] = tasks[u]
    BY <1>1, <1>2 DEF TasksOK
  <1>6. Existing' = Existing
    BY <1>2 DEF Existing, Exists
  <1>7. CopiesOK'
    <2> SUFFICES ASSUME NEW u \in AllTasks, tasks'[u].held
                 PROVE  /\ tasks'[u].step = "touch" => Same(tasks'[u].copy, rooms'[tasks'[u].room])
                        /\ tasks'[u].step = "create" =>
                              Existing' \subseteq tasks'[u].copy /\ IsFiniteSet(tasks'[u].copy)
      BY DEF CopiesOK
    <2>1. CASE u # t
      BY <1>1, <1>2, <1>5, <1>6, <2>1 DEF CopiesOK
    <2>2. CASE u = t /\ tasks[t].step = "touch"
      <3>1. tasks[t].room \in Rooms /\ next.copy = rooms[tasks[t].room]
        BY <1>1, <1>4, <2>2 DEF ReadBy, Knows, Seated
      <3>2. Same(rooms[tasks[t].room], rooms[tasks[t].room])
        BY <1>1, <3>1 DEF Same, StoreOK
      <3> QED
        BY <1>2, <1>4, <1>5, <2>2, <3>1, <3>2
    <2>3. CASE u = t /\ tasks[t].step = "create"
      BY <1>4, <1>5, <1>6, <2>3 DEF ReadBy, Inv, RoomInv
    <2>4. CASE u = t /\ tasks[t].step \notin {"touch", "create"}
      BY <1>4, <1>5, <2>4
    <2> QED
      BY <2>1, <2>2, <2>3, <2>4
  <1>8. OneGuestPerInvite'
    BY <1>2 DEF OneGuestPerInvite, Existing, Exists, Members, Issued, Inv, RoomInv
  <1> QED
    BY <1>6, <1>7, <1>8, FewerRooms DEF Inv, RoomInv

\* The check of a cleanup writes no room.
LEMMA CheckRoomInv ==
    ASSUME Inv, TypeInv', NEW t \in AllTasks, CheckRoom(t)
    PROVE  RoomInv'
  <1>1. CASE Throw(t)
    BY <1>1, ThrowInv
  <1>2. CASE ~Throw(t)
    <2>1. tasks' = [tasks EXCEPT ![t].step = "delete"] /\ UNCHANGED <<rooms, seat>>
      BY <1>2 DEF CheckRoom, store
    <2>2. TasksOK /\ TaskShaped(tasks[t])
      BY StepFacts DEF Inv
    <2> DEFINE next == [tasks[t] EXCEPT !.step = "delete"]
    <2>3. next.step = "delete"
      BY <2>2 DEF TaskShaped
    <2>4. tasks'[t] = next /\ \A u \in AllTasks \ {t} : tasks'[u] = tasks[u]
      BY <2>1, <2>2 DEF TasksOK
    <2> HIDE DEF next
    <2>5. NoneEnters
      BY <2>3, <2>4 DEF NoneEnters
    <2> QED
      BY <2>1, <2>5, OtherStepsInv
  <1> QED
    BY <1>1, <1>2

\* The steps of a handler about sessions, sockets and matches.
LEMMA QuietStepInv ==
    ASSUME Inv, TypeInv', NEW t \in AllTasks,
           \/ CreateSession(t) \/ Attach(t) \/ DetachCancelled(t) \/ StartMatch(t)
           \/ Connect(t) \/ Disconnect(t) \/ Play(t)
    PROVE  RoomInv'
  <1>1. PICK task : Become(t, task)
    BY DEF CreateSession, Attach, DetachCancelled, StartMatch, Connect, Disconnect, Play,
           Throw, End, Goto, Reply
  <1>2. UNCHANGED <<rooms, seat>>
    BY DEF CreateSession, Attach, DetachCancelled, StartMatch, Connect, Disconnect, Play,
           Throw, store
  <1> QED
    BY <1>1, <1>2, BecomeEntersNone, OtherStepsInv DEF Inv

\* What starts a handler reads rooms and writes none.
LEMMA StartInv ==
    ASSUME Inv, TypeInv', NEW t \in Tasks,
           \/ Receive(t) \/ \E s \in Sockets : CloseEvent(t, s)
           \/ \E r \in Rooms : TimerFires(t, r)
    PROVE  RoomInv'
  <1>1. UNCHANGED <<rooms, seat, lock>>
    BY DEF Receive, ReceiveCreate, ReceiveJoin, ReceiveWithToken, ReceivePong, CloseEvent,
           TimerFires, store
  <1>2. UNCHANGED tasks \/ \E task : Start(t, task)
    BY DEF Receive, ReceiveCreate, ReceiveJoin, ReceiveWithToken, ReceivePong, CloseEvent,
           TimerFires
  <1> QED
    BY <1>1, <1>2, TasksAreTasks, StartEntersNone, IdleEntersNone, OtherStepsInv DEF Inv

\* Every step keeps Inv;
LEMMA NextInv ==
    ASSUME Inv, Next
    PROVE  Inv'
  <1>1. TypeInv'
    BY NextType DEF Inv, RoomInv
  <1>2. ASSUME NEW t \in AllTasks, Step(t)
        PROVE  RoomInv'
    BY <1>1, <1>2, EnterInv, QuietStepInv, CreateRoomInv, CancelWaitingRoomInv, JoinRoomInv,
       TouchRoomInv, CheckRoomInv, DeleteRoomInv DEF Step
  <1>3. ASSUME NEW s \in Sockets, Hangup(s)
        PROVE  RoomInv'
    BY <1>1, <1>3, IdleEntersNone, OtherStepsInv DEF Hangup, store
  <1>4. ASSUME NEW r \in Rooms, Sweep(r)
        PROVE  RoomInv'
    <2>1. UNCHANGED <<rooms, seat, lock>> /\ \E task : Start(Sweeper, task)
      BY <1>4 DEF Sweep, store
    <2> QED
      BY <1>1, <2>1, StartEntersNone, OtherStepsInv DEF Inv, AllTasks
  <1>5. RoomInv'
    BY <1>1, <1>2, <1>3, <1>4, StartInv, BecomeInactiveInv DEF Next
  <1> QED
    BY <1>1, <1>5 DEF Inv

\* it holds at the start;
LEMMA InitInv == Init => Inv
  <1> SUFFICES ASSUME Init
               PROVE  Inv
    OBVIOUS
  <1>1. TypeInv
    BY InitType
  <1>2. Existing = {}
    BY DEF Init, Existing, Exists
  <1>3. CopiesOK
    BY NoTaskOK DEF Init, CopiesOK
  <1>4. OneGuestPerInvite
    BY <1>2 DEF OneGuestPerInvite
  <1>5. IsFiniteSet(Existing) /\ RoomCap
    BY <1>2, FS_EmptySet, ServerAssumption DEF RoomCap
  <1> QED
    BY <1>1, <1>3, <1>4, <1>5 DEF Inv, RoomInv

\* and it stays when nothing happens.
LEMMA StutterInv == Inv /\ UNCHANGED vars => Inv'
  <1> SUFFICES ASSUME Inv, UNCHANGED vars
               PROVE  Inv'
    OBVIOUS
  <1>1. TypeInv'
    BY StutterType DEF Inv
  <1>2. UNCHANGED <<rooms, seat>> /\ UNCHANGED tasks
    BY DEF vars, store
  <1> QED
    BY <1>1, <1>2, IdleEntersNone, OtherStepsInv DEF Inv

\* The invariants hold in every state of the server.
THEOREM InvHolds == Spec => []Inv
  <1>1. Inv /\ [Next]_vars => Inv'
    BY NextInv, StutterInv
  <1> QED
    BY <1>1, InitInv, PTL DEF Spec
-----------------------------------------------------------------------------
(***************************************************************************)
(* The properties of RoomServer.                                           *)
(***************************************************************************)
\* The types of the room server, and the holders of the locks.
THEOREM TypeCorrect == Spec => []TypeOK
  <1>1. Inv => TypeOK
    <2> SUFFICES ASSUME Inv
                 PROVE  TypeOK
      OBVIOUS
    <2>1. TasksOK /\ LockOK /\ StoreOK /\ RegistryOK
      BY DEF Inv, TypeInv
    <2>2. /\ \A r \in Rooms : Exists(r) => rooms[r] \in RoomRecords
          /\ \A r \in Rooms : matches[r] # None => matches[r] \subseteq Players
      BY <2>1 DEF StoreOK, Exists
    <2>3. timers \subseteq Rooms
      BY <2>1 DEF RegistryOK, Seated
    <2>4. DOMAIN tasks = AllTasks
      BY <2>1 DEF TasksOK
    <2> QED
      BY <2>1, <2>2, <2>3, <2>4 DEF TypeOK, LockOK, StoreOK, RegistryOK
  <1> QED
    BY <1>1, InvHolds, PTL

\* A socket speaks for at most one player: socketsByPlayerId and
\* sessionsBySocket agree for any number of sockets and handlers.
THEOREM RegistryIsOneToOne == Spec => []RegistryAgrees
  <1>1. Inv => RegistryAgrees
    BY DEF Inv, TypeInv, RegistryOK
  <1> QED
    BY <1>1, InvHolds, PTL

\* joinRoomByInviteToken seats one guest, however many joins are in flight.
THEOREM InvitesSeatOneGuest == Spec => []OneGuestPerInvite
  <1>1. Inv => OneGuestPerInvite
    BY DEF Inv, RoomInv
  <1> QED
    BY <1>1, InvHolds, PTL

\* createRoom keeps the cap on rooms, however many are created at the same time.
THEOREM RoomsWithinCap == Spec => []RoomCap
  <1>1. Inv => RoomCap
    BY DEF Inv, RoomInv
  <1> QED
    BY <1>1, InvHolds, PTL

\* What a step writes in the rooms: nothing but the activity; a deletion, by a
\* cleanup or of a waiting room; a room nobody had a seat in; or one player more.
LEMMA WrittenRooms ==
    ASSUME Inv, Next
    PROVE  \/ \A r \in Rooms : RoomKept(r)
           \/ \E r \in Rooms :
                 /\ \A z \in Rooms \ {r} : rooms'[z] = rooms[z]
                 /\ \/ /\ rooms'[r] = None
                       /\ \/ \E t \in AllTasks : At(t, "delete") /\ tasks[t].room = r
                          \/ \E host : Waiting(rooms[r], host, r)
                    \/ Issued(r) = {}
                    \/ /\ rooms[r] # None /\ rooms'[r] # None
                       /\ \E p \in Players :
                             rooms'[r].players = Append(rooms[r].players, p)
  <1> DEFINE Kept == \A r \in Rooms : RoomKept(r)
             Deleted(r) == \/ \E t \in AllTasks : At(t, "delete") /\ tasks[t].room = r
                           \/ \E host : Waiting(rooms[r], host, r)
             Joined(r) == /\ rooms[r] # None /\ rooms'[r] # None
                          /\ \E p \in Players : rooms'[r].players = Append(rooms[r].players, p)
             Written(r) == \/ rooms'[r] = None /\ Deleted(r)
                           \/ Issued(r) = {}
                           \/ Joined(r)
             OneWritten == \E r \in Rooms :
                              (\A z \in Rooms \ {r} : rooms'[z] = rooms[z]) /\ Written(r)
  <1> SUFFICES Kept \/ OneWritten
    OBVIOUS
  <1>1. TypeInv /\ StoreOK
    BY DEF Inv, TypeInv
  <1>2. UNCHANGED rooms => Kept
    BY <1>1, RoomUnchanged
  <1>3. ASSUME NEW t \in AllTasks, Step(t)
        PROVE  Kept \/ OneWritten
    <2>1. ASSUME NEW r \in Rooms, rooms' = [rooms EXCEPT ![r] = None], Deleted(r)
          PROVE  OneWritten
      BY <1>1, <2>1 DEF StoreOK
    <2>2. CASE DeleteRoom(t)
      <3>1. PICK r \in Rooms : r = tasks[t].room
        BY <1>1, <2>2, StepFacts DEF DeleteRoom, At, Knows, Seated
      <3>2. rooms' = [rooms EXCEPT ![r] = None] /\ Deleted(r)
        BY <2>2, <3>1 DEF DeleteRoom, DeleteRoomState
      <3> QED
        BY <2>1, <3>2
    <2>3. CASE CancelWaitingRoom(t)
      <3>1. CASE UNCHANGED store
        BY <1>2, <3>1 DEF store
      <3>2. CASE ~UNCHANGED store
        <4>1. PICK r \in Rooms : r = tasks[t].room
          BY <1>1, <2>3, StepFacts DEF CancelWaitingRoom, Locked, Knows, Seated
        <4>2. DeleteRoomState(r) /\ Waiting(rooms[r], tasks[t].player, r)
          BY <2>3, <3>2, <4>1 DEF CancelWaitingRoom, stored
        <4> QED
          BY <2>1, <4>2 DEF DeleteRoomState
      <3> QED
        BY <3>1, <3>2
    <2>4. CASE CreateRoom(t)
      <3>1. CASE Throw(t)
        BY <1>2, <3>1 DEF Throw, store
      <3>2. CASE ~Throw(t)
        <4>1. PICK r \in Rooms, p \in Players :
                  /\ Issued(r) = {}
                  /\ rooms' = [rooms EXCEPT ![r] =
                                  [players |-> <<p>>, invite |-> TRUE, inactive |-> FALSE]]
          BY <2>4, <3>2 DEF CreateRoom
        <4> QED
          BY <1>1, <4>1 DEF StoreOK
      <3> QED
        BY <3>1, <3>2
    <2>5. CASE JoinRoom(t)
      <3>1. CASE Throw(t)
        BY <1>2, <3>1 DEF Throw, store
      <3>2. CASE ~Throw(t)
        <4>1. PICK r \in Rooms : r = tasks[t].room
          BY <1>1, <2>5, StepFacts DEF JoinRoom, Locked, Knows, Seated
        <4>2. PICK p \in Players :
                  /\ rooms[r] # None
                  /\ rooms' = [rooms EXCEPT ![r] =
                                  [players |-> Append(rooms[r].players, p),
                                   invite |-> FALSE, inactive |-> FALSE]]
          BY <2>5, <3>2, <4>1 DEF JoinRoom, stored, SeatOpen
        <4>3. rooms'[r].players = Append(rooms[r].players, p) /\ rooms'[r] # None
          <5> DEFINE record == [players |-> Append(rooms[r].players, p),
                                invite |-> FALSE, inactive |-> FALSE]
          <5>1. rooms'[r] = record
            BY <1>1, <4>2 DEF StoreOK
          <5>2. rooms[r].players \in Seq(Players)
            BY <1>1, <4>2 DEF StoreOK, RoomRecords
          <5>3. Append(rooms[r].players, p) \in Seq(Players)
            BY <5>2
          <5>4. record # None
            BY <5>3, RecordOK, ServerAssumption
          <5> QED
            BY <5>1, <5>4
        <4> QED
          BY <1>1, <4>2, <4>3 DEF StoreOK
      <3> QED
        BY <3>1, <3>2
    <2>6. CASE TouchRoom(t)
      BY <2>6, TouchRoomKeeps
    <2>7. CASE ~(DeleteRoom(t) \/ CancelWaitingRoom(t) \/ CreateRoom(t) \/ JoinRoom(t) \/ TouchRoom(t))
      <3>1. UNCHANGED rooms
        BY <1>3, <2>7 DEF Step, Enter, CreateSession, Attach, DetachCancelled, StartMatch,
                          Connect, Disconnect, CheckRoom, Play, Throw, store
      <3> QED
        BY <1>2, <3>1
    <2> QED
      BY <2>2, <2>3, <2>4, <2>5, <2>6, <2>7
  <1>4. ASSUME NEW r \in Rooms, BecomeInactive(r)
        PROVE  Kept
    BY <1>4, BecomeInactiveKeeps
  <1>5. CASE UNCHANGED rooms
    BY <1>2, <1>5
  <1>6. CASE ~UNCHANGED rooms
    <2>1. \A t \in Tasks : ~Receive(t)
      BY <1>6 DEF Receive, ReceiveCreate, ReceiveJoin, ReceiveWithToken, ReceivePong, store
    <2>2. /\ \A t \in Tasks, s \in Sockets : ~CloseEvent(t, s)
          /\ \A t \in Tasks, r \in Rooms : ~TimerFires(t, r)
          /\ (\A s \in Sockets : ~Hangup(s)) /\ (\A r \in Rooms : ~Sweep(r))
      BY <1>6 DEF CloseEvent, TimerFires, Hangup, Sweep, store
    <2> QED
      BY <1>3, <1>4, <2>1, <2>2 DEF Next
  <1> QED
    BY <1>5, <1>6

\* A room that is deleted stays deleted, and no player is lost from a room,
\* whatever the handlers in flight have read of it.
THEOREM RoomsOnlyGrowHolds == Spec => RoomsOnlyGrow
  <1> DEFINE Grows(r) ==
          /\ Issued(r) # {} /\ ~Exists(r) => ~Exists(r)'
          /\ Exists(r) /\ Exists(r)' => Members(rooms[r]) \subseteq Members(rooms'[r])
  <1>1. ASSUME Inv, [Next]_vars, NEW r \in Rooms
        PROVE  Grows(r)
    <2>1. TypeInv /\ StoreOK
      BY <1>1 DEF Inv, TypeInv
    <2>2. CASE RoomKept(r)
      BY <2>2 DEF RoomKept, Same, Exists, Members
    <2>3. CASE UNCHANGED vars
      BY <2>1, <2>2, <2>3, RoomUnchanged DEF vars, store
    <2>4. CASE rooms'[r] = None /\ rooms[r] # None
      BY <2>4 DEF Exists
    <2>5. CASE Issued(r) = {}
      <3>1. rooms[r] = None
        BY <2>1, <2>5 DEF StoreOK, Existing, Exists, Seated, Issued
      <3> QED
        BY <2>5, <3>1 DEF Exists
    <2>6. CASE rooms[r] # None /\ \E p \in Players : rooms'[r].players = Append(rooms[r].players, p)
      <3>1. rooms[r].players \in Seq(Players)
        BY <2>1, <2>6 DEF StoreOK, RoomRecords
      <3>2. Members(rooms[r]) \subseteq Members(rooms'[r])
        <4> DEFINE players == rooms[r].players
        <4>1. PICK p \in Players : rooms'[r].players = Append(players, p)
          BY <2>6
        <4> HIDE DEF players
        <4>2. ASSUME NEW i \in DOMAIN players
              PROVE  i \in DOMAIN Append(players, p) /\ Append(players, p)[i] = players[i]
          BY <3>1 DEF players
        <4> QED
          BY <4>1, <4>2 DEF Members, players
      <3> QED
        BY <2>6, <3>2 DEF Exists
    <2>7. CASE Next
      BY <1>1, <2>1, <2>2, <2>4, <2>5, <2>6, <2>7, WrittenRooms, RoomUnchanged DEF Waiting
    <2> QED
      BY <1>1, <2>3, <2>7
  <1>2. Inv /\ [Next]_vars => [\A r \in Rooms : Grows(r)]_vars
    BY <1>1
  <1> QED
    BY <1>2, InvHolds, PTL DEF Spec, RoomsOnlyGrow

\* cancelEligibleWaitingRoom deletes no room a guest has joined.
THEOREM CancelSparesGamesHolds == Spec => CancelSparesGames
  <1> DEFINE Spared(r) ==
          Exists(r) /\ Cardinality(Issued(r)) = 2 /\ ~Exists(r)' =>
              \E t \in AllTasks : At(t, "delete") /\ tasks[t].room = r
  <1>1. ASSUME Inv, Next, NEW r \in Rooms
        PROVE  Spared(r)
    <2> SUFFICES ASSUME Exists(r), Cardinality(Issued(r)) = 2, ~Exists(r)'
                 PROVE  \E t \in AllTasks : At(t, "delete") /\ tasks[t].room = r
      OBVIOUS
    <2>1. rooms[r] # None /\ rooms'[r] = None /\ r \in Existing
      BY DEF Exists, Existing
    <2>2. ~RoomKept(r) /\ rooms'[r] # rooms[r]
      BY <2>1 DEF RoomKept, Same
    <2>3. OneGuest(rooms[r], Issued(r))
      BY <1>1, <2>1, OneGuestEach DEF Inv, RoomInv
    <2>4. ~\E host : Waiting(rooms[r], host, r)
      <3> SUFFICES ASSUME NEW host, rooms[r].players = <<host>>
                   PROVE  FALSE
        BY DEF Waiting
      <3>1. Len(rooms[r].players) = 1
        OBVIOUS
      <3> QED
        BY <2>3, <3>1 DEF OneGuest
    <2>5. Issued(r) # {}
      BY FS_EmptySet
    <2> QED
      BY <1>1, <2>1, <2>2, <2>4, <2>5, WrittenRooms
  <1>2. Inv /\ [Next]_vars => [\A r \in Rooms : Spared(r)]_vars
    BY <1>1
  <1> QED
    BY <1>2, InvHolds, PTL DEF Spec, CancelSparesGames
=============================================================================
