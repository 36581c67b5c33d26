SPECIFICATION Spec
CONSTANTS
    c1 = c1
    m1 = m1
    a1 = a1
    a2 = a2
    none = none
    Rows <- MCRows
    v1 = v1
    v2 = v2
    Values = {v1, v2}
    NoValue = NoValue
    SourceOrder <- MCOrder
    CitationSources <- MCCitationSources
    CrossrefKey = "crossref"
    SourceOf <- MCSourceOf
    ArticleOf <- MCArticleOf
    NoOption = none
    BatchSize = 2
    Hour = 2
    Second = 2
    DEBUG = FALSE
    MaxClock = 4
INVARIANTS
    TypeOK
    ChangesAreTold
    OwedIsOld
    NoStaleAlarm
SYMMETRY MCValues
