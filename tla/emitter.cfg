SPECIFICATION FairSpec
CONSTANTS
    e1 = e1
    e2 = e2
    e3 = e3
    e4 = e4
    None = None
    Events <- FourEvents
    QueueCap = 2
    LogInterval = 2
    MaxTime = 5
INVARIANTS
    Conservation
    NoLossBelowCapacity
    FailuresAccounted
    LogRateLimited
PROPERTIES
    ImplementsFeed
    QueueDrains
