SPECIFICATION FairSpec
CONSTANTS
    c1 = c1
    c2 = c2
    c3 = c3
    Calls = {c1, c2, c3}
    Inbound = {c1, c2}
    Workers = 1
    ReplyViaPool = TRUE
    MaxCopies = 1
CHECK_DEADLOCK FALSE
INVARIANT NoLeakedEntry
PROPERTIES NoPrematureDiscard RpcFairSpec
