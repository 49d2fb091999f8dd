SPECIFICATION MCSpec
CONSTANTS
    None = None
    Missions <- MCMissions
    Orders = {o1}
    ProposalIds = {p1, p2}
    Validity = 1
    MaxTime = 2
    Messages = {m1, m2}
    Other = m2
    BatchSize = 2
    Topics = {reply, t1, t2}
    Reply = reply
    Requests = {r1, r2}
    First = r1
    MaxRestarts = 1
    Methods = {"CreateOrder", "ReadOrder"}
    Imeis = {i1, i2}
    MaxPrice = 999999
    MaxLaunches = 2
CHECK_DEADLOCK FALSE
INVARIANTS
    AnsweredOnce
    NothingUnchecked
    EventsKept
    SubscribedIsServed
    ResubscribedOnConnect
    SuccessIsCommitted
    SoldWithMargin
    SuggestedIsAccepted
    FlownAsAgreed
    AcceptedIsDone
PROPERTIES
    HandledForGood
    RequestsHandled
    EveryoneStops
