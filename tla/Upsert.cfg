SPECIFICATION FairSpec
CONSTANTS
    p = p
    q = q
    s = s
    a = a
    b = b
    ra = ra
    rb = rb
    rc = rc
    v = v
    w = w
    Importers = {p, q, s}
    Batching = {p, q}
    Articles = {a, b}
    Rows = {ra, rb, rc}
    ArticleOf <- MCArticleOf
    Job <- MCJob
    Report <- MCReport
    Exists = Exists
    NoValue = NoValue
    NoKey = NoKey
    BatchSize = 2
INVARIANTS
    TypeOK
    DoneIsStored
    SomebodySucceeds
PROPERTIES
    LeavesItsReport
    StoreSpec
    ImportsEnd
