SPECIFICATION FairSpec
CONSTANTS
    a = a
    b = b
    c = c
    other = other
    none = none
    Articles <- MCArticles
    NoCount = none
    MaxRuns = 2
    Latest <- MCLatest
    Num <- MCNum
    Listings <- MCListings
    PerPage = 2
    MaxPages = 4
    LogEvery = 2
    CacheDays = 1
    NoPage = NoPage
    Order <- MCOrder
    PmcIds <- MCPmcIds
    Cited <- MCCited
    MaxPerPage = 2
INVARIANTS
    TypeOK
    CrossrefSums
    CitedAreCurrent
    LockIsFree
    NothingStoredEarly
    PassedAreCounted
PROPERTY
    ImportEndsOrHangs
CHECK_DEADLOCK FALSE
