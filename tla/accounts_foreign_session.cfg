\* Three requests that begin and end sessions.
SPECIFICATION Spec
CONSTANTS
    r1 = r1
    r2 = r2
    r3 = r3
    adminTab = adminTab
    memberTab = memberTab
    ann = ann
    bob = bob
    old = old
    fresh = fresh
    None = None
    Requests <- ThreeRequests
    Seeds <- MCSeeds
    Emails <- MCEmails
    Passwords <- MCPasswords
    Forms <- SessionForms
    Databases <- RunningDatabase
    AllowSignup = TRUE
    IdleTimeout = 1
    AbsoluteTimeout = 1
    TouchThrottle = 0
    ResetTTL = 0
    MaxClock = 0
    MaxResets = 0
    MaxFaults = 0
    MaxCrashes = 0
SYMMETRY Symmetry
CHECK_DEADLOCK FALSE
INVARIANTS
    RevokesOwnSessions
