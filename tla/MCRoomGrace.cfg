\* What the documents say of the time a reload has.
SPECIFICATION Spec
CONSTANTS
    Rooms = {r1}
    Players = {p1, p2}
    Sockets = {s1, s2}
    Tasks = {t1, t2}
    Sweeper = sweeper
    Creation = creation
    None = none
    MaxRooms = 1
    Events = {"create", "join", "reconnect", "hangup"}
SYMMETRY Symmetry
INVARIANTS
    ReloadHasGrace
CHECK_DEADLOCK FALSE
