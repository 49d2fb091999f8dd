SPECIFICATION Spec
CONSTANTS
    u1 = u1
    u2 = u2
    Users = {u1, u2}
    None = None
    PolicyAdmin = "admin_console"
    Managers = {"admin_console", "api_gateway"}
    Rules <- MCRules
    Modes = {"bus", "sqlite", "monolith"}
    Requests = {r1, r2}
    Calls <- MCCalls
CHECK_DEADLOCK FALSE
SYMMETRY Symmetry
INVARIANTS AnswerTruthful AdminRemains
PROPERTIES AdminOnly
