SPECIFICATION Spec
CONSTANTS
    c1 = c1
    c2 = c2
    c3 = c3
    d1 = d1
    d2 = d2
    o1 = o1
    o2 = o2
    None = None
    Calls = {c1}
    Drones = {d1, d2}
    Requests <- MCPurchase
    AGREGATOR_OFFER_RETRIES = 1
INVARIANTS
    InsuredHasPolicy
CHECK_DEADLOCK FALSE
