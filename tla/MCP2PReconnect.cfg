\* Two host tabs and a guest reconnect over a channel and requests that fail.
SPECIFICATION Spec
CONSTANTS
    h1 = h1
    h2 = h2
    h3 = h3
    h4 = h4
    g1 = g1
    g2 = g2
    MaxCalls = 2
    MaxPeers = 4
    a = a
    b = b
    c = c
    None = None
    Hosts = {h1, h2, h3}
    Guests = {g1, g2}
    Offers = {h1, h2, h3}
    Answers = {g1, g2}
    Ttl = 1
    HostTabs = {a, b}
    GuestTabs = {c}
    FirstHost = h1
    FirstGuest = g1
    FirstTab <- McFirstTab
INVARIANTS TypeOK BoundThroughActivePeer ReconnectedByConnectedHost GuestWaitersEnd
PROPERTIES RecordSurvivesDisplacement
CHECK_DEADLOCK FALSE
CONSTRAINTS McFewCalls McFewPeers
