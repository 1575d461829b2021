\* One player's room, left and returned to: handlers end, and the room left empty goes.
\* No symmetry, which is unsound for liveness.
SPECIFICATION FairSpec
CONSTANTS
    Rooms = {r1}
    Players = {p1}
    Sockets = {s1, s2}
    Tasks = {t1, t2}
    Sweeper = sweeper
    Creation = creation
    None = none
    MaxRooms = 1
    Events = {"create", "reconnect", "hangup", "inactivity"}
PROPERTIES
    HandlersEnd
    EmptyRoomsGo
\* The sockets close.
CHECK_DEADLOCK FALSE
