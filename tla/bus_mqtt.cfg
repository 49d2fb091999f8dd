SPECIFICATION Spec
CONSTANTS
    c1 = c1
    c2 = c2
    c3 = c3
    Calls = {c1, c2, c3}
    Inbound = {c1, c2}
    Workers = 2
    ReplyViaPool = FALSE
    MaxCopies = 2
CHECK_DEADLOCK FALSE
SYMMETRY Symmetry
INVARIANT LeaksOnlyUnsent
PROPERTY RpcSpec
