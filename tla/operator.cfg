SPECIFICATION MCSpec
CONSTANTS
    Threads = {t1, t2}
    OneBuyer = TRUE
    MaxUAS = 1
    DefaultFleet = {1}
    Missions = {m1, operator_1}
    OperatorLike = {operator_1}
    Senders = {operator_1, system}
    UpdateRequests <- MCUpdates
    MaxBuys = 1
    None = None
    Clients = {s1}
    Limits <- MCLimits
    Window = 2
    Retention = 2
    MaxTime = 3
    MaxRequests = 3
    Buyers = {b1, b2, b3}
    Stock = 2
    Quantities = {2}
    MaxLoads = 2
    Drones = {d1, d2}
    Flights = {f1, f2}
    Uploads = {u1, u2}
CHECK_DEADLOCK FALSE
SYMMETRY Symmetry
INVARIANTS
    OneHolder
    OfferedIsFree
    CacheFollowsCore
    GrantsWithinLimit
    StockHonoured
    CheckedBeforeUse
PROPERTY StaleOnlyIfWithdrawn
