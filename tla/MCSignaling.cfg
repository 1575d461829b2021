\* Two processes, two requests at a time, for one of the two records.
SPECIFICATION Spec
CONSTANTS
    h1 = h1
    h2 = h2
    g1 = g1
    g2 = g2
    None = None
    Hosts <- McHosts
    Guests <- McGuests
    Offers <- McHosts
    Answers <- McGuests
    Roster <- McRoster
    Processes = {p1, p2}
    Tasks = {t1, t2}
    Ttl = 1
    MaxNow = 1
INVARIANTS TypeOK OneAtATime OneAnswerAccepted AttemptIsOfClaimants
PROPERTIES FirstOutcomeStays AppliedOneAtATime
CHECK_DEADLOCK FALSE
SYMMETRY McSymmetry
CONSTRAINT McOneRecord
