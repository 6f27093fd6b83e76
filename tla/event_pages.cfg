SPECIFICATION MCSpec
CONSTANTS
    NEvents = 3
    ReceivedAt <- Stamps
    Rejected = {1, 3}
    MaxBatch = 2
    MaxClock = 1
    MaxFaults = 1
    DayHours = 1
    DefaultDays = 1
    DayForms = {0, 2}
    MaxChanges = 1
    DurationRange = 4
    Unset = Unset
    Tabs = {t1}
    Matching = {1, 3}
    ListLimit = 2
    StreamLimit = 1
    Visits = {v1}
    WindowHours = {2}
    RecentLimit = 1
INVARIANTS
    PageIsInOrder
    OnlyReusedIdsAreSkipped
    OverviewAgrees
PROPERTIES
    RetentionIsKeptInRange
    ExpiredArePruned
    StreamCatchesUp
CHECK_DEADLOCK FALSE
