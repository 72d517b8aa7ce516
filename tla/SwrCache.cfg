SPECIFICATION FairSpec
CONSTANTS
    Requests = {r1, r2}
    MaxGen = 1
    MaxPolls = 1
    ThreadMayPanic = TRUE
    ComputeMayFail = TRUE
INVARIANTS
    SingleFlight
    MarkEffective
PROPERTIES
    ViewSpec
    RequestsEnd
    GuardReleased
    MarkEventuallyShown
