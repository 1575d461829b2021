----------------------------- MODULE RoomServer -----------------------------
(***************************************************************************)
(* The hosted server around the match: rooms and their invites, sessions,  *)
(* the registry of sockets, the lock per room, and what deletes a room.    *)
(*                                                                         *)
(* The router starts a handler for every message and does not wait for it; *)
(* with the Redis backend every await of a handler lets the others run.  A *)
(* handler is a task here, and a step of a task is what runs between two   *)
(* awaits that matter.  A step under a room's lock is one action, as only  *)
(* holders of the lock write the room and its match; the steps that other  *)
(* code could come between, the lock or not (a check before a deletion, a  *)
(* count before a save, a record written back), take the lock and read in  *)
(* Enter, and write and let go in the next action.  Calls that only read   *)
(* or only send are left out, and so is what the stores do on their own    *)
(* (the TTL of the Redis keys).  Match has the rules of a match; here it   *)
(* is the set of its players shown as connected.                           *)
(***************************************************************************)
EXTENDS Integers, FiniteSets, Sequences

CONSTANTS
    Rooms,      \* the room codes createRoomCode may draw
    Players,    \* the player ids createId may draw; a session token is its player
    Sockets,    \* the connections there will ever be
    Tasks,      \* as many handlers as may be in flight at a time
    Sweeper,    \* the task of the inactive room sweep
    Creation,   \* ROOM_CREATION_LOCK_KEY
    None,       \* undefined, null
    MaxRooms,   \* MAX_CONCURRENT_ROOMS
    Events      \* what happens to the server: kinds of message, and the rest

\* RoomRecord, as far as control depends on it.
RoomRecords == [players : Seq(Players), invite : BOOLEAN, inactive : BOOLEAN]

ASSUME ServerAssumption ==
    /\ MaxRooms \in Nat
    /\ Sweeper \notin Tasks
    /\ Creation \notin Rooms
    /\ None \notin Rooms \cup Players \cup Sockets \cup Tasks \cup {Sweeper, Creation}
    /\ None \notin RoomRecords

AllTasks == Tasks \cup {Sweeper}
Keys == Rooms \cup {Creation}

VARIABLES
    rooms,      \* the room records: players, open invite, past the inactivity TTL
    matches,    \* the match of a room: its players with connected = true
    seat,       \* the room a player id was issued for
    sessions,   \* the players whose session record is stored
    known,      \* the players whose token a client was told
    socketOf,   \* socketsByPlayerId
    sessionOf,  \* sessionsBySocket
    link,       \* readyState of every socket
    timers,     \* cleanupTimers: the rooms with an abandoned-room timer
    lock,       \* the task inside KeyedSerialTaskRunner.run, for every key
    tasks       \* the handlers in flight

store == <<rooms, matches, seat, sessions, known>>
registry == <<socketOf, sessionOf, link>>
vars == <<store, registry, timers, lock, tasks>>
-----------------------------------------------------------------------------
\* A handler about to take its first step, with what its later steps use.
Handler(kind, step, s, p, r) ==
    [step |-> step, of |-> kind, socket |-> s, player |-> p, room |-> r,
     held |-> FALSE, copy |-> None, heir |-> None, replaced |-> None]

NoTask == Handler("none", "free", None, None, None)

Exists(r) == rooms[r] # None
Members(room) == {room.players[i] : i \in DOMAIN room.players}
Existing == {r \in Rooms : Exists(r)}
Issued(r) == {p \in Players : seat[p] = r}

\* isCurrentSocket and getSocketForPlayer.
IsCurrent(p, s) == socketOf[p] = s
HasOpenSocket(p) == socketOf[p] # None /\ link[socketOf[p]] = "open"

\* Wrong variant of NobodyConnected: a socket counts whatever its readyState.
NobodyRegistered(room) == \A p \in Members(room) : socketOf[p] = None

NobodyConnected(room) == \A p \in Members(room) : ~HasOpenSocket(p)
-----------------------------------------------------------------------------
(***************************************************************************)
(* The steps of a handler.                                                 *)
(***************************************************************************)
\* The steps whose read and write are separate actions here: their keys, and
\* what they read.
Split == {"create", "touch", "check", "delete"}
KeyOf(task) == IF task.step = "create" THEN Creation ELSE task.room
ReadBy(task) == IF task.step = "create" THEN Existing ELSE rooms[task.room]

\* Wrong variant of Enter: activity is touched without the lock.
EnterOrTouchUnlocked(t) ==
    /\ tasks[t].step \in Split /\ ~tasks[t].held
    /\ tasks[t].step # "touch" => lock[KeyOf(tasks[t])] = None
    /\ lock' = IF tasks[t].step = "touch" THEN lock ELSE [lock EXCEPT ![KeyOf(tasks[t])] = t]
    /\ tasks' = [tasks EXCEPT ![t].held = TRUE, ![t].copy = ReadBy(tasks[t])]
    /\ UNCHANGED <<store, registry, timers>>

\* Wrong variant of Enter: the creation of rooms has no lock of its own.
EnterOrCreateUnlocked(t) ==
    /\ tasks[t].step \in Split /\ ~tasks[t].held
    /\ tasks[t].step # "create" => lock[KeyOf(tasks[t])] = None
    /\ lock' = IF tasks[t].step = "create" THEN lock ELSE [lock EXCEPT ![KeyOf(tasks[t])] = t]
    /\ tasks' = [tasks EXCEPT ![t].held = TRUE, ![t].copy = ReadBy(tasks[t])]
    /\ UNCHANGED <<store, registry, timers>>

\* KeyedSerialTaskRunner.run starts the locked step, which reads.  A run of a key that
\* the caller holds goes on at once: it is part of the step that holds the key.
Enter(t) ==
    /\ tasks[t].step \in Split /\ ~tasks[t].held
    /\ lock[KeyOf(tasks[t])] = None
    /\ lock' = [lock EXCEPT ![KeyOf(tasks[t])] = t]
    /\ tasks' = [tasks EXCEPT ![t].held = TRUE, ![t].copy = ReadBy(tasks[t])]
    /\ UNCHANGED <<store, registry, timers>>

\* The task is inside a split step, or at a step without a lock.
At(t, step) == tasks[t].step = step /\ (step \in Split => tasks[t].held)

\* The task runs a whole step under its room's lock.
Locked(t, step) == tasks[t].step = step /\ lock[tasks[t].room] = None
stored(t) == rooms[tasks[t].room]

\* Wrong variant of LetGo: a step that throws keeps the lock.
LetGoUnlessThrown(t, done) ==
    lock' = IF done = NoTask /\ tasks[t].copy = None THEN lock
            ELSE [k \in Keys |-> IF lock[k] = t THEN None ELSE lock[k]]

\* The end of a locked step, by return or by throw.
LetGo(t, done) == lock' = [k \in Keys |-> IF lock[k] = t THEN None ELSE lock[k]]

\* The step ends and the handler goes on with the next one, or ends too.
Become(t, task) ==
    /\ tasks' = [tasks EXCEPT ![t] = [task EXCEPT !.held = FALSE]]
    /\ LetGo(t, task)

Goto(t, step) == Become(t, [tasks[t] EXCEPT !.step = step, !.copy = None])
End(t) == Become(t, NoTask)
-----------------------------------------------------------------------------
(***************************************************************************)
(* What starts a handler: a message on an open socket, a pong, the close   *)
(* event of a socket, a timer, the interval of the sweep.                  *)
(***************************************************************************)
Start(t, handler) == tasks[t] = NoTask /\ tasks' = [tasks EXCEPT ![t] = handler]

\* handleRoomCreate: the session attached to the socket, if it still owns the
\* socket, has its waiting room retired first.
ReceiveCreate(t, s) ==
    /\ "create" \in Events /\ link[s] = "open"
    /\ LET previous == sessionOf[s]
       IN  IF previous # None /\ IsCurrent(previous, s)
           THEN Start(t, Handler("create", "retire", s, previous, seat[previous]))
           ELSE Start(t, Handler("create", "create", s, None, None))
    /\ UNCHANGED <<store, registry, timers, lock>>

\* handleRoomJoin: the room of an invite is looked up outside the lock.
ReceiveJoin(t, s, r) ==
    /\ "join" \in Events /\ link[s] = "open"
    /\ Exists(r) /\ rooms[r].invite /\ Issued(r) \cap known # {}
    /\ Start(t, Handler("join", "join", s, None, r))
    /\ UNCHANGED <<store, registry, timers, lock>>

\* requireSession finds the token and stores the session again.  All but
\* player:reconnect also ask whether the socket owns the player.
ReceiveWithToken(t, s, p, kind) ==
    /\ kind \in Events /\ link[s] = "open"
    /\ p \in known \cap sessions
    /\ \/ kind = "reconnect" /\ Start(t, Handler(kind, "touch", s, p, seat[p]))
       \/ /\ IsCurrent(p, s)
          /\ \/ kind = "cancel" /\ Start(t, Handler(kind, "cancel", s, p, seat[p]))
             \/ kind = "play" /\ Start(t, Handler(kind, "play", s, p, seat[p]))
    /\ UNCHANGED <<store, registry, timers, lock>>

\* refreshSessionOnPong stores the session last attached to the socket without
\* a look: another socket may own the player, or the room be gone.
ReceivePong(t, s) ==
    /\ "pong" \in Events /\ link[s] = "open" /\ sessionOf[s] # None
    /\ sessions' = sessions \cup {sessionOf[s]}
    /\ Start(t, Handler("pong", "touch", s, sessionOf[s], seat[sessionOf[s]]))
    /\ UNCHANGED <<rooms, matches, seat, known, registry, timers, lock>>

\* The client, or the network, ends a connection.
Hangup(s) ==
    /\ "hangup" \in Events
    /\ link[s] = "open"
    /\ link' = [link EXCEPT ![s] = "closing"]
    /\ UNCHANGED <<store, socketOf, sessionOf, timers, lock, tasks>>

\* handleClose: only the socket that owns the player disconnects the player.
\* disconnectPlayer finds no room if it is deleted already.
CloseEvent(t, s) ==
    /\ link[s] = "closing"
    /\ link' = [link EXCEPT ![s] = "closed"]
    /\ LET p == sessionOf[s]
       IN  IF p # None /\ IsCurrent(p, s)
           THEN /\ socketOf' = [socketOf EXCEPT ![p] = None]
                /\ IF Exists(seat[p])
                   THEN /\ Start(t, Handler("close", "touch", None, p, seat[p]))
                        /\ UNCHANGED timers
                   ELSE /\ timers' = timers \cup {seat[p]}
                        /\ UNCHANGED tasks
           ELSE UNCHANGED <<socketOf, timers, tasks>>
    /\ UNCHANGED <<store, sessionOf, lock>>

\* The timer of scheduleAbandonedRoomCleanup fires.
TimerFires(t, r) ==
    /\ r \in timers
    /\ timers' = timers \ {r}
    /\ IF Exists(r) THEN Start(t, Handler("abandoned", "check", None, None, r))
       ELSE UNCHANGED tasks
    /\ UNCHANGED <<store, registry, lock>>

\* Time passes: no activity in the room for the whole TTL.
BecomeInactive(r) ==
    /\ "inactivity" \in Events
    /\ Exists(r) /\ ~rooms[r].inactive
    /\ rooms' = [rooms EXCEPT ![r].inactive = TRUE]
    /\ UNCHANGED <<matches, seat, sessions, known, registry, timers, lock, tasks>>

\* cleanupInactiveRooms picks a room of its snapshot that is past the cutoff.
Sweep(r) ==
    /\ Exists(r) /\ rooms[r].inactive
    /\ Start(Sweeper, Handler("sweep", "check", None, None, r))
    /\ UNCHANGED <<store, registry, timers, lock>>
-----------------------------------------------------------------------------
(***************************************************************************)
(* Sessions and the registry.                                              *)
(***************************************************************************)
\* createSession, after the room is saved and the lock released.
CreateSession(t) ==
    /\ At(t, "session")
    /\ sessions' = sessions \cup {tasks[t].player}
    /\ Goto(t, IF tasks[t].of = "join" THEN "start" ELSE "attach")
    /\ UNCHANGED <<rooms, matches, seat, known, registry, timers>>

\* The end of attachSessionSocket, and the reply with the token: a socket the
\* player had before is closed.
Reply(t, p, s, replaced) ==
    /\ link' = IF replaced # None /\ link[replaced] = "open"
               THEN [link EXCEPT ![replaced] = "closing"] ELSE link
    /\ known' = IF link[s] = "open" THEN known \cup {p} ELSE known
    /\ End(t)

\* Wrong variant of Rebound: the player displaced from the socket stays on it.
ReboundBeside(p, s) == [socketOf EXCEPT ![p] = s]

\* socketsByPlayerId after attach.
Rebound(p, s) ==
    [q \in Players |->
        IF q = p THEN s
        ELSE IF q = sessionOf[s] /\ IsCurrent(q, s) THEN None
        ELSE socketOf[q]]

\* attachSessionSocket.  A socket that spoke for another player displaces that
\* player, who is disconnected by this same handler before it goes on.
Attach(t) ==
    LET p == tasks[t].player
        s == tasks[t].socket
        displaced == IF sessionOf[s] = p THEN None ELSE sessionOf[s]
        replaced  == IF socketOf[p] = s THEN None ELSE socketOf[p]
    IN  /\ At(t, "attach")
        /\ socketOf' = Rebound(p, s)
        /\ sessionOf' = [sessionOf EXCEPT ![s] = p]
        /\ IF displaced # None /\ Exists(seat[displaced])
           THEN /\ Become(t, [Handler(tasks[t].of, "touch", s, displaced, seat[displaced])
                                 EXCEPT !.heir = p, !.replaced = replaced])
                /\ UNCHANGED <<link, known>>
           ELSE Reply(t, p, s, replaced)
        /\ UNCHANGED <<rooms, matches, seat, sessions, timers>>

\* detachIfCurrent after room:cancel: whichever player the socket has by then.
DetachCancelled(t) ==
    LET p == sessionOf[tasks[t].socket]
    IN  /\ At(t, "detach")
        /\ socketOf' = IF p # None /\ IsCurrent(p, tasks[t].socket)
                       THEN [socketOf EXCEPT ![p] = None] ELSE socketOf
        /\ End(t)
        /\ UNCHANGED <<store, sessionOf, link, timers>>
-----------------------------------------------------------------------------
(***************************************************************************)
(* The steps under a room's lock.                                          *)
(***************************************************************************)
\* createMatchState: connected: true for both players.
NewMatch(r) == Issued(r)

\* A locked step that fails: the room, or what it needs of it, is not there.
Throw(t) == End(t) /\ UNCHANGED <<store, registry, timers>>

DeleteRoomState(r) ==
    /\ rooms' = [rooms EXCEPT ![r] = None]
    /\ matches' = [matches EXCEPT ![r] = None]
    /\ sessions' = sessions \ Issued(r)
    /\ UNCHANGED <<seat, known>>

\* createRoom, under the lock for creation.  The ids left bound the rooms there
\* will ever be; when they are spent the handler fails as it does at capacity.
CreateRoom(t) ==
    /\ At(t, "create")
    /\ \/ /\ Cardinality(tasks[t].copy) < MaxRooms
          /\ \E r \in Rooms, p \in Players :
                /\ Issued(r) = {} /\ seat[p] = None
                /\ rooms' = [rooms EXCEPT ![r] =
                                [players |-> <<p>>, invite |-> TRUE, inactive |-> FALSE]]
                /\ seat' = [seat EXCEPT ![p] = r]
                /\ Become(t, Handler("create", "session", tasks[t].socket, p, r))
                /\ UNCHANGED <<matches, sessions, known, registry, timers>>
       \/ /\ \/ Cardinality(tasks[t].copy) >= MaxRooms
             \/ {r \in Rooms : Issued(r) = {}} = {} \/ Issued(None) = {}
          /\ Throw(t)

\* Wrong variant of Waiting: a room is waiting while it has no match.
WaitingUnmatched(record, host, r) == record # None /\ matches[r] = None

\* What cancelEligibleWaitingRoom asks for.
Waiting(record, host, r) ==
    record # None /\ record.players = <<host>> /\ matches[r] = None

\* cancelEligibleWaitingRoom, for room:cancel and before room:create.
CancelWaitingRoom(t) ==
    LET task == tasks[t]
        eligible == Waiting(stored(t), task.player, task.room)
    IN  /\ Locked(t, "retire") \/ Locked(t, "cancel")
        /\ IF eligible THEN DeleteRoomState(task.room) ELSE UNCHANGED store
        /\ CASE task.step = "retire" -> Goto(t, "create")
             [] task.step = "cancel" /\ eligible  -> Goto(t, "detach")
             [] task.step = "cancel" /\ ~eligible -> End(t)
        /\ UNCHANGED <<registry, timers>>

\* Wrong variant of SeatOpen: the lookup of the invite is trusted.
SeatLookedUp(record) == record # None

SeatOpen(record) == record # None /\ Len(record.players) < 2 /\ record.invite

\* joinRoomByInviteToken, once it has the lock.  It fails, too, when the ids of
\* the model are spent.
JoinRoom(t) ==
    LET r == tasks[t].room
    IN  /\ Locked(t, "join")
        /\ \/ /\ SeatOpen(stored(t))
              /\ \E p \in Players :
                    /\ seat[p] = None
                    /\ rooms' = [rooms EXCEPT ![r] =
                                    [players |-> Append(stored(t).players, p),
                                     invite |-> FALSE, inactive |-> FALSE]]
                    /\ seat' = [seat EXCEPT ![p] = r]
                    /\ Become(t, Handler("join", "session", tasks[t].socket, p, r))
                    /\ UNCHANGED <<matches, sessions, known, registry, timers>>
           \/ /\ ~SeatOpen(stored(t)) \/ Issued(None) = {}
              /\ Throw(t)

\* startMatchForRoom, with the room as the join returned it: nothing asks
\* whether that room is still stored.
StartMatch(t) ==
    /\ Locked(t, "start")
    /\ matches' = [matches EXCEPT ![tasks[t].room] = NewMatch(tasks[t].room)]
    /\ Goto(t, "attach")
    /\ UNCHANGED <<rooms, seat, sessions, known, registry, timers>>

\* touchRoomActivity, in the middle or at the end of several handlers.
TouchRoom(t) ==
    LET task == tasks[t]
    IN  /\ At(t, "touch")
        /\ \/ task.copy = None /\ Throw(t)
           \/ /\ task.copy # None
              /\ rooms' = [rooms EXCEPT ![task.room] = [task.copy EXCEPT !.inactive = FALSE]]
              /\ CASE task.of = "close" \/ task.heir # None -> Goto(t, "disconnect")
                   [] task.of = "reconnect" /\ task.heir = None
                      /\ task.player \in Members(task.copy) -> Goto(t, "connect")
                   [] OTHER -> End(t)
              /\ UNCHANGED <<matches, seat, sessions, known, registry, timers>>

\* setConnectionState of a player who reconnects, if there is a match.
Connect(t) ==
    LET task == tasks[t]
    IN  /\ Locked(t, "connect")
        /\ \/ stored(t) = None /\ Throw(t)
           \/ /\ stored(t) # None
              /\ matches' = IF matches[task.room] = None THEN matches
                            ELSE [matches EXCEPT ![task.room] = @ \cup {task.player}]
              /\ Goto(t, "attach")
              /\ UNCHANGED <<rooms, seat, sessions, known, registry, timers>>

\* The end of disconnectPlayer.  After a close the cleanup of the room is
\* scheduled; after a displacement the handler that displaced goes on.
Disconnect(t) ==
    LET task == tasks[t]
    IN  /\ Locked(t, "disconnect")
        /\ \/ stored(t) = None /\ Throw(t)
           \/ /\ stored(t) # None
              /\ matches' = IF matches[task.room] = None THEN matches
                            ELSE [matches EXCEPT ![task.room] = @ \ {task.player}]
              /\ \/ /\ task.of = "close"
                    /\ timers' = timers \cup {task.room}
                    /\ End(t)
                    /\ UNCHANGED <<known, link>>
                 \/ /\ task.heir # None
                    /\ Reply(t, task.heir, task.socket, task.replaced)
                    /\ UNCHANGED timers
              /\ UNCHANGED <<rooms, seat, sessions, socketOf, sessionOf>>

\* deleteRoomIfAbandoned and cleanupInactiveRooms, up to the deletion.
CheckRoom(t) ==
    LET task == tasks[t]
        clean == /\ task.copy # None /\ (task.of = "sweep" => task.copy.inactive)
                 /\ NobodyConnected(task.copy)
    IN  /\ At(t, "check")
        /\ \/ ~clean /\ Throw(t)
           \/ /\ clean
              /\ tasks' = [tasks EXCEPT ![t].step = "delete"]
              /\ UNCHANGED <<store, registry, timers, lock>>

\* deleteRoomState, awaited: sockets may have been attached since the check.
DeleteRoom(t) ==
    /\ At(t, "delete")
    /\ DeleteRoomState(tasks[t].room)
    /\ End(t)
    /\ UNCHANGED <<registry, timers>>

\* applyAction, resign, requestRematch and cancelRematch: the match is saved
\* with the flags it had, unless a vote is the second and starts the next one.
Play(t) ==
    LET r == tasks[t].room
    IN  /\ Locked(t, "play")
        /\ \/ /\ stored(t) # None /\ matches[r] # None
              /\ \/ UNCHANGED matches
                 \/ matches' = [matches EXCEPT ![r] = NewMatch(r)]
              /\ Goto(t, "touch")
              /\ UNCHANGED <<rooms, seat, sessions, known, registry, timers>>
           \/ ~(stored(t) # None /\ matches[r] # None) /\ Throw(t)
-----------------------------------------------------------------------------
Init ==
    /\ rooms = [r \in Rooms |-> None]
    /\ matches = [r \in Rooms |-> None]
    /\ seat = [p \in Players |-> None]
    /\ sessions = {}
    /\ known = {}
    /\ socketOf = [p \in Players |-> None]
    /\ sessionOf = [s \in Sockets |-> None]
    /\ link = [s \in Sockets |-> "open"]
    /\ timers = {}
    /\ lock = [k \in Keys |-> None]
    /\ tasks = [t \in AllTasks |-> NoTask]

Receive(t) ==
    \E s \in Sockets :
        \/ ReceiveCreate(t, s)
        \/ \E r \in Rooms : ReceiveJoin(t, s, r)
        \/ \E p \in Players, kind \in Events : ReceiveWithToken(t, s, p, kind)
        \/ ReceivePong(t, s)

Step(t) ==
    \/ Enter(t)
    \/ CreateSession(t) \/ Attach(t) \/ DetachCancelled(t)
    \/ CreateRoom(t) \/ CancelWaitingRoom(t) \/ JoinRoom(t) \/ StartMatch(t)
    \/ TouchRoom(t) \/ Connect(t) \/ Disconnect(t)
    \/ CheckRoom(t) \/ DeleteRoom(t) \/ Play(t)

Next ==
    \/ \E t \in AllTasks : Step(t)
    \/ \E t \in Tasks :
        \/ Receive(t)
        \/ \E s \in Sockets : CloseEvent(t, s)
        \/ \E r \in Rooms : TimerFires(t, r)
    \/ \E s \in Sockets : Hangup(s)
    \/ \E r \in Rooms : BecomeInactive(r) \/ Sweep(r)

Spec == Init /\ [][Next]_vars

\* The event loop runs every task that can run, the stores answer, and a lock
\* is granted in the order it was asked for (hence strong fairness); a socket
\* that is closing closes, time passes, and the sweep has an interval.
Fairness ==
    /\ \A t \in AllTasks : SF_vars(Step(t))
    /\ \A s \in Sockets : WF_vars(\E t \in Tasks : CloseEvent(t, s))
    /\ \A r \in Rooms : WF_vars(BecomeInactive(r)) /\ WF_vars(Sweep(r))

FairSpec == Spec /\ Fairness
-----------------------------------------------------------------------------
\* The values every variable may take; a lock has the holder that the tasks say.
TypeOK ==
    /\ \A r \in Rooms : Exists(r) => rooms[r] \in RoomRecords
    /\ \A r \in Rooms : matches[r] # None =>
          matches[r] \subseteq Players
    /\ seat \in [Players -> Rooms \cup {None}]
    /\ sessions \subseteq Players /\ known \subseteq Players
    /\ socketOf \in [Players -> Sockets \cup {None}]
    /\ sessionOf \in [Sockets -> Players \cup {None}]
    /\ link \in [Sockets -> {"open", "closing", "closed"}]
    /\ timers \subseteq Rooms
    /\ lock \in [Keys -> AllTasks \cup {None}]
    /\ DOMAIN tasks = AllTasks
    /\ \A t \in AllTasks, k \in Keys :
          lock[k] = t <=> tasks[t].held /\ KeyOf(tasks[t]) = k

\* One guest takes the one free seat, however the joins interleave: a room has
\* one player and an open invite, or two and none, and whoever was ever given a
\* seat in it, and so a session for it, is one of them.
OneGuestPerInvite ==
    \A r \in Existing :
        LET members == Members(rooms[r])
        IN  /\ Len(rooms[r].players) \in 1 .. 2
            /\ rooms[r].invite <=> Len(rooms[r].players) = 1
            /\ members = Issued(r)
            /\ Cardinality(members) = Len(rooms[r].players)

\* A socket speaks for at most one player: the two maps of the registry agree,
\* through displacement, replacement, cancellation and close.
RegistryAgrees ==
    \A p \in Players : socketOf[p] # None => sessionOf[socketOf[p]] = p

\* "At most four rooms can exist at once": also when rooms are created at the
\* same time.
RoomCap == Cardinality(Existing) <= MaxRooms

\* A room that is deleted stays deleted, and no player is lost from a room: a
\* handler that read the room before never writes it back after.
RoomsOnlyGrow ==
    [][\A r \in Rooms :
          /\ Issued(r) # {} /\ ~Exists(r) => ~Exists(r)'
          /\ Exists(r) /\ Exists(r)' => Members(rooms[r]) \subseteq Members(rooms'[r])]_vars

\* Once a guest has taken the second seat, only the two cleanups delete the room.
CancelSparesGames ==
    [][\A r \in Rooms :
          Exists(r) /\ Cardinality(Issued(r)) = 2 /\ ~Exists(r)' =>
              \E t \in AllTasks : At(t, "delete") /\ tasks[t].room = r]_vars

\* No handler waits for ever: whatever a step throws, the next waiter gets the
\* lock, and no handler waits for a key while it holds another.
HandlersEnd == \A t \in AllTasks : tasks[t] # NoTask ~> tasks[t] = NoTask

\* A room without connected players is deleted or has a player come back.
EmptyRoomsGo ==
    \A r \in Rooms :
        (Exists(r) /\ \A p \in Issued(r) : ~HasOpenSocket(p))
            ~> (~Exists(r) \/ \E p \in Issued(r) : HasOpenSocket(p))
-----------------------------------------------------------------------------
AtRest == \A t \in AllTasks : tasks[t] = NoTask

\* docs/p2p-architecture.md: a player whose socket drops is marked offline in
\* the match state.  Once every handler has ended, a player the match shows as
\* connected has a socket.
DroppedPlayersAreOffline ==
    AtRest =>
        \A r \in Existing : matches[r] # None =>
            \A p \in matches[r] : socketOf[p] # None

\* docs/render-demo.md: the server allows 30 seconds for a reload before it
\* removes a room.  So the cleanup does not delete a room while the server is
\* still handling the close of one of its sockets.
ReloadHasGrace ==
    \A t, u \in Tasks :
        tasks[t].of = "abandoned" /\ tasks[t].step = "delete" =>
            ~(tasks[u].of = "close" /\ tasks[u].room = tasks[t].room)
=============================================================================
