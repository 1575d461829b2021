\* What the documents say of a dropped player, one handler after the other.
SPECIFICATION Spec
CONSTANTS
    Rooms = {r1}
    Players = {p1, p2}
    Sockets = {s1, s2}
    Tasks = {t1}
    Sweeper = sweeper
    Creation = creation
    None = none
    MaxRooms = 1
    Events = {"create", "join", "hangup"}
SYMMETRY Symmetry
INVARIANTS
    DroppedPlayersAreOffline
CHECK_DEADLOCK FALSE
