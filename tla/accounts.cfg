\* Two requests of every kind, and three that begin and end sessions.
SPECIFICATION MCSpec
CONSTANTS
    r1 = r1
    r2 = r2
    r3 = r3
    adminTab = adminTab
    memberTab = memberTab
    ann = ann
    bob = bob
    old = old
    fresh = fresh
    None = None
    Requests <- ThreeRequests
    Seeds <- MCSeeds
    Emails <- MCEmails
    Passwords <- MCPasswords
    Forms <- AllForms
    Databases <- AllDatabases
    AllowSignup = TRUE
    IdleTimeout = 1
    AbsoluteTimeout = 1
    TouchThrottle = 0
    ResetTTL = 0
    MaxClock = 2
    MaxResets = 2
    MaxFaults = 1
    MaxCrashes = 1
SYMMETRY Symmetry
CHECK_DEADLOCK FALSE
INVARIANTS
    InstanceHasAdmin
    EntryIsJustified
    SpentTokensAreRefused
    EffectsAreAuthorised
    SessionsEndForGood
