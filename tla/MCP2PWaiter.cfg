\* What a comment says of the waiters of a runtime that is torn down.
SPECIFICATION Spec
CONSTANTS
    h1 = h1
    h2 = h2
    h3 = h3
    h4 = h4
    g1 = g1
    g2 = g2
    MaxCalls = 2
    MaxPeers = 5
    a = a
    b = b
    c = c
    None = None
    Hosts = {h1, h2, h3, h4}
    Guests = {g1}
    Offers = {h1, h2, h3, h4}
    Answers = {g1}
    Ttl = 1
    HostTabs = {a, b}
    GuestTabs = {c}
    FirstHost = h1
    FirstGuest = g1
    FirstTab <- McFirstTab
INVARIANTS NoWaiterOutlivesItsRuntime
CHECK_DEADLOCK FALSE
CONSTRAINT McFewCalls
