SPECIFICATION Spec
CONSTANTS
    r1 = r1
    r2 = r2
    Runs <- MCRuns
    Day = 2
    DaysBack = 2
    CacheDays = 2
    SettleDays = 1
    MaxGap = 2
    MaxDelay = 1
    MaxClock = 9
    MaxStarts = 3
SYMMETRY Interchangeable
INVARIANTS
    TypeOK
    CacheIsFinal
    

    
CHECK_DEADLOCK FALSE
