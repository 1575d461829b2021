\* Rooms are created, joined, played, refreshed by pongs, cancelled and left, two at a
\* time, with space for one room: a second one waits for the first to go.  Returns of
\* players are in the run of the liveness.
SPECIFICATION Spec
CONSTANTS
    Rooms = {r1, r2}
    Players = {p1, p2, p3}
    Sockets = {s1, s2}
    Tasks = {t1, t2}
    Sweeper = sweeper
    Creation = creation
    None = none
    MaxRooms = 1
    Events = {"create", "join", "cancel", "hangup", "play", "pong"}
SYMMETRY Symmetry
INVARIANTS
    TypeOK
    OneGuestPerInvite
    RegistryAgrees
    RoomCap
PROPERTIES
    CancelSparesGames
    RoomsOnlyGrow
\* The ids and the sockets run out.
CHECK_DEADLOCK FALSE
