\* Two guests at one link, then a short match with breaks and reloads.  A host's page
\* that is out of its own room (MCDirectOusted.cfg) is not followed any further.
SPECIFICATION Spec
CONSTANTS
    x = x
    y = y
    None = None
    a = a
    b = b
    o = o
    h = h
    Hosts = {h}
    Guests = {a, b}
    Offers = {o}
    Answers = {a, b}
    Ttl = 1
    Texts = {x, y}
    TooLong = {y}
    HistoryLimit = 1
    MaxLinks = 3
    MaxMoves = 1
    MaxRounds = 2
    MaxChat = 2
    MaxWire = 4
INVARIANTS TypeOK GuestConverges HostNeverBehindGuest NothingBlocksForEver HostSeesItsMatch OneGuestPerLink
SYMMETRY McGuestsAlike
CHECK_DEADLOCK FALSE
CONSTRAINTS McFewMessages McTextOrMatch HostKeepsItsRoom
