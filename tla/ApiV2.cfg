SPECIFICATION FairSpec
CONSTANTS
    i1 = i1
    a1 = a1
    a2 = a2
    a3 = a3
    d1 = d1
    d2 = d2
    d3 = d3
    e1 = e1
    f1 = f1
    m1 = m1
    m2 = m2
    m3 = m3
    Importers = {i1}
    Articles = {a1, a2, a3}
    Rows = {d1, d2, d3, e1, f1}
    ArticleOf <- MCArticleOf
    Report <- MCReport
    Exists = "exists"
    NoValue = "none"
    Months = {m1, m2, m3}
    MonthOf <- MCMonthOf
    Rank <- MCRank
    Workers = {w1, w2}
    PerPage = 1
    TTL = 2
    NoKey = "nothing"
ACTION_CONSTRAINT OnlyListed
INVARIANTS
    TypeOK
    WalkMissesNothing
PROPERTIES
    WalkEnds
    StalenessIsBounded
