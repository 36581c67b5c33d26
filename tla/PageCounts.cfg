SPECIFICATION FairSpec
CONSTANTS
    x = x
    y = y
    p = p
    unknown = unknown
    NoPage = unknown
    NoDate = NoDate
    Inception = 0
    PageTypes <- MCPageTypes
    History <- MCHistory
    Paths = {x, y}
    Pages = {p}
    PageOf <- MCPageOf
    Ga4Switch = 1
    RowLimit = 1
    SettleDays = 1
    MaxViews = 2
    LastDay = 3
INVARIANTS
    TypeOK
    SettledIsExact
    EachDayOnce
    OthersAreTried
PROPERTY
    RunEnds
