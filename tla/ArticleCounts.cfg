SPECIFICATION Spec
CONSTANTS
    old = old
    new = new
    long = long
    none = none
    Months <- MCMonths
    VIEWS_INCEPTION = 2
    DOWNLOADS_INCEPTION = 5
    SITE_SWITCH = 8
    VERSIONLESS_URLS = 11
    SITE_SWITCH_v2 = 13
    RDS_ADDITION = 17
    URL_PARAMS = 21
    RPP_ADDITION = 23
    GA4_SWITCH = 26
    GA4_DOWNLOADS_SWITCH = 29
    ViewPaths <- MCViewPaths
    DownloadPaths <- MCDownloadPaths
    Rank <- MCRank
    Counts = {1}
    MaxRows = 3
    MaxQueries = 2
INVARIANTS
    TypeOK
    ListedIsStored
    OneSpellingCounts
    ErasFollow
CHECK_DEADLOCK FALSE
