SPECIFICATION FairSpec
CONSTANTS
    c1 = c1
    c2 = c2
    c3 = c3
    d1 = d1
    d2 = d2
    o1 = o1
    o2 = o2
    None = None
    Calls = {c1, c2, c3}
    Drones = {d1, d2}
    Requests <- MCRequests
    AGREGATOR_OFFER_RETRIES = 2
INVARIANTS
    PolicyBehindAnswer
    TerminateComplete
    AssignedOncePerRegistration
PROPERTY
    OffersGoOut
CHECK_DEADLOCK FALSE
