SPECIFICATION Spec
CONSTANTS
    Position <- MCPosition
    Distance <- MCDistance
    LegLength <- MCLegLength
    Collinear <- MCCollinear
    NoFlyZones <- MCNoFlyZones
    MissionIds = {m1, m2}
    Routes <- AllRoutes
    Landings <- OneLanding
    Takeoffs <- MCTakeoffs
    Templates = {t1}
    MaxConcurrent = 2
    Optimization = TRUE
    None = None
    MaxCreates = 2
    MaxHistory = 1
    MaxUses = 1
CHECK_DEADLOCK FALSE
INVARIANTS NoActiveConflict RegisteredIsActive FlownIsSafe
PROPERTY ApprovalCoversPlan
