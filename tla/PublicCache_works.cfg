\* Two replicas with failures and restarts: what is stale has an excuse, and not for ever.
CONSTANTS
    r1 = r1
    r2 = r2
    r3 = r3
    r4 = r4
    a = a
    b = b
    Content <- MCContent
    Keys <- MCKeys
    NoKey = NoKey
    None = None
    NotFound = NotFound
    Shared = Shared
    Requests <- MCThreeRequests
    Jobs <- AllJobs
    Replicas <- MCTwo
    Faults = TRUE
CHECK_DEADLOCK FALSE
SPECIFICATION FairSpec
INVARIANTS
    StaleHasExcuse
PROPERTIES
    EventuallyFresh
    EveryReadAnswered
