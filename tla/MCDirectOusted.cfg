\* After a break and a refresh, the host votes twice while the channel breaks again.
SPECIFICATION Spec
CONSTANTS
    x = x
    y = y
    None = None
    a = a
    b = b
    o = o
    h = h
    Hosts = {h}
    Guests = {a, b}
    Offers = {o}
    Answers = {a, b}
    Ttl = 1
    Texts = {x, y}
    TooLong = {y}
    HistoryLimit = 1
    MaxLinks = 2
    MaxMoves = 1
    MaxRounds = 2
    MaxChat = 2
    MaxWire = 4
INVARIANT HostKeepsItsRoom
SYMMETRY McGuestsAlike
CHECK_DEADLOCK FALSE
CONSTRAINTS McFewMessages McTextOrMatch
