SPECIFICATION Spec
CONSTANTS
    NEvents = 3
    ReceivedAt <- Stamps
    Rejected = {1, 3}
    MaxBatch = 2
    MaxClock = 1
    MaxFaults = 1
    DayHours = 1
    DefaultDays = 1
    DayForms = {3}
    MaxChanges = 1
    DurationRange = 4
    Unset = Unset
    Tabs = {t1}
    Matching = {1, 3}
    ListLimit = 2
    StreamLimit = 1
    Visits = {v1}
    WindowHours = {2}
    RecentLimit = 1
PROPERTY RetentionIsKept
CHECK_DEADLOCK FALSE
