SPECIFICATION MCFairSpec
CONSTANTS
    e1 = e1
    e2 = e2
    e3 = e3
    garbled = garbled
    forged = forged
    f1 = f1
    b1 = b1
    b2 = b2
    None = None
    Closer = Closer
    Events <- FiveEvents
    Request <- FiveRequests
    Buckets <- TwoBuckets
    Times <- SmallTimes
    QueueCap = 2
    Flushers = {f1}
    MayClose = TRUE
    MaxCrashes = 1
INVARIANTS
    StoredInOrder
    AcceptedIsAccountedFor
    RollupsMatchEvents
    LastIngestIsStored
    FlushLeavesNothingBehind
PROPERTIES
    ImplementsFeed
    AcceptedIsSettled
    FlushReturns
