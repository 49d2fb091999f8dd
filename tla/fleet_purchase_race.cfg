SPECIFICATION Spec
CONSTANTS
    Threads = {t1, t2}
    OneBuyer = FALSE
    MaxUAS = 2
    DefaultFleet = {1}
    Missions = {m1}
    OperatorLike = {}
    Senders = {system}
    UpdateRequests = {}
    MaxBuys = 2
    None = None
CHECK_DEADLOCK FALSE
INVARIANTS UniquePurchaseIds
