SPECIFICATION QueryFairSpec
CONSTANTS
    GA3 = GA3
    GA4 = GA4
    PageSize = 2
    NumAttempts = 5
    MaxTotal = 5
INVARIANTS
    QueryTypeOK
    PagesJoin
    AllFetched
    Ga3BackOffRetries
PROPERTY
    QueryEnds
