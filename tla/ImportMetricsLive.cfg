SPECIFICATION FairSpec
CONSTANTS
    c1 = c1
    m1 = m1
    a1 = a1
    a2 = a2
    v1 = v1
    v2 = v2
    none = none
    Rows <- MCRows
    Values = {v1}
    NoValue = NoValue
    SourceOrder <- MCOrder3
    CitationSources <- MCCitationSources
    CrossrefKey = "crossref"
    SourceOf <- MCSourceOf
    ArticleOf <- MCArticleOf
    NoOption = none
    BatchSize = 1
    Hour = 1
    Second = 1
    DEBUG = TRUE
    MaxClock = 1
PROPERTY
    RunStops
