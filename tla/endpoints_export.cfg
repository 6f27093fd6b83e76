SPECIFICATION MCSpec
CONSTANTS
    r1 = r1
    r2 = r2
    r3 = r3
    a1 = a1
    a2 = a2
    a3 = a3
    a4 = a4
    Requests <- ThreeRequests
    Texts <- MCTexts
    Forms <- PathForms
    Slashed <- MCSlashed
    Patterns <- MCPatterns
    SeedFile <- MCSeedFile
    Ids <- SmallIds
    MaxSeeds = 0
    MaxFailures = 1
    NoRow = NoRow
    Attempts <- FourAttempts
    MaxHits = 2
    HitWindow = 2
    LastTick = 4
INVARIANTS
    ExportBoots
CHECK_DEADLOCK FALSE
