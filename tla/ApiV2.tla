-------------------------------- MODULE ApiV2 --------------------------------
(***************************************************************************)
(* The pages of version 2 of the API (article_metrics/api_v2_views.py,     *)
(* api_v2_logic.py, metrics/views.py): a client that asks for one page     *)
(* after the other, at the workers that happen to answer, while imports    *)
(* publish rows in the tables (MetricsStore).                              *)
(*                                                                         *)
(* The daily rows of an article or a page, and its months, are a count of  *)
(* the query and then a slice of it, two statements.  The summary of all   *)
(* articles is one statement whose result each worker keeps for a while.   *)
(***************************************************************************)
EXTENDS Integers, FiniteSets

CONSTANTS
    Importers, Articles, Rows, ArticleOf, Report, Exists, NoValue,
                 \* those of MetricsStore; pages are articles here
    Months,      \* months
    MonthOf,     \* Rows -> the month of its date
    Rank,        \* where an article, row or month comes: by id, by date
    Workers,     \* processes that answer, each with its cache
    PerPage,     \* ?per-page
    TTL,         \* ticks for which a result is kept (120 seconds)
    NoKey        \* nothing cached, no article

Wants == {"days", "months", "summary"}

Orders == {"ASC", "DESC"}

\* The arguments that cached results are found by; "version" stands for an
\* article and a version, of citations_by_version.
Cacheable == Orders \cup {"version"}

Items == Articles \cup Rows \cup Months

ASSUME StoreAssumption ==
    /\ Articles \cap Rows = {}
    /\ ArticleOf \in [Rows -> Articles]
    /\ MonthOf \in [Rows -> Months]
    /\ Exists # NoValue
    /\ \A i \in Importers : \A r \in Rows : Report[i][r] # NoValue
ASSUME PageAssumption ==
    /\ IsFiniteSet(Items)
    /\ Rank \in [Items -> Nat]
    /\ \A x, y \in Items : Rank[x] = Rank[y] => x = y
    /\ PerPage \in Nat \ {0}
    /\ TTL \in Nat \ {0}
    /\ NoKey \notin Cacheable \cup Articles

VARIABLES
    store,    \* the tables
    cache,    \* worker -> what it keeps: the key, the rows, the ticks left
    marks,    \* n -> what the summary listed at the nth last tick (history)
    want,     \* what the client lists: days, months or the summary
    article,  \* of which article
    order,    \* in which direction
    stage,    \* where it is
    page,     \* pages it has got
    total,    \* results there are, by the answer or the count
    cut,      \* what the last page was cut from
    start,    \* what the first page was cut from
    got,      \* everything it was given
    asked     \* the workers that answered it

client == <<want, article, order>>
walk == <<stage, page, total, cut, start, got, asked>>
vars == <<store, cache, marks, client, walk>>

Store == INSTANCE MetricsStore WITH store <- store

Days(a) == {r \in Rows : ArticleOf[r] = a /\ store[r] # NoValue}

\* SUMMARY_SQL_ALL joins the articles with their daily metrics: an article
\* that has none is not listed.
Summaries == {a \in Articles : store[a] # NoValue /\ Days(a) # {}}

Query ==
    IF want = "summary" THEN Summaries
    ELSE IF want = "days" THEN Days(article)
    ELSE {MonthOf[r] : r \in Days(article)}

UpTo(x) ==
    {y \in Items : IF order = "ASC" THEN Rank[y] <= Rank[x]
                                    ELSE Rank[y] >= Rank[x]}

\* How many results come up to x, itself included.
Place(x, S) == Cardinality(S \cap UpTo(x))

\* Mutant of Slice: pages are counted from one, slices as well.
SliceFromOne(S, n) ==
    {x \in S : n * PerPage < Place(x, S) /\ Place(x, S) <= (n + 1) * PerPage}

\* Page n of S: q[start:end] with start = (page - 1) * per_page.
Slice(S, n) ==
    {x \in S : /\ (n - 1) * PerPage < Place(x, S)
               /\ Place(x, S) <= n * PerPage}

Empty == [key |-> NoKey, rows |-> {}, left |-> 0]

Init ==
    /\ store = [k \in Store!Keys |-> NoValue]
    /\ cache = [w \in Workers |-> Empty]
    /\ marks = [n \in 1..TTL |-> {}]
    /\ want \in Wants
    /\ article \in IF want = "summary" THEN {NoKey} ELSE Articles
    /\ order \in Orders
    /\ stage = "ready"
    /\ page = 0
    /\ total = 0
    /\ cut = {}
    /\ start = {}
    /\ got = {}
    /\ asked = {}

\* An import publishes rows.
Publish ==
    /\ Store!Next
    /\ UNCHANGED <<cache, marks, client, walk>>

\* Mutant of Tick: what has expired is still found.
TickKeeps ==
    /\ marks' = [n \in 1..TTL |-> IF n = 1 THEN Summaries ELSE marks[n - 1]]
    /\ cache' = [w \in Workers |->
           IF cache[w].left = 0 THEN cache[w]
           ELSE [cache[w] EXCEPT !.left = @ - 1]]
    /\ UNCHANGED <<store, client, walk>>

\* Time passes, and what is cached expires.
Tick ==
    /\ marks' = [n \in 1..TTL |-> IF n = 1 THEN Summaries ELSE marks[n - 1]]
    /\ cache' = [w \in Workers |->
           IF cache[w].left <= 1 THEN Empty
           ELSE [cache[w] EXCEPT !.left = @ - 1]]
    /\ UNCHANGED <<store, client, walk>>

\* What a worker answers with: what it keeps of that order, or a query.
Kept(w, o) == IF cache[w].key = o THEN cache[w].rows ELSE Summaries

\* Mutant of Keep: a result that is asked for again is kept for longer.
KeepRenews(w, k, rows) ==
    cache' = [cache EXCEPT ![w] = [key |-> k, rows |-> rows, left |-> TTL]]

\* There is one entry, for all orders and for citations_by_version: a result
\* that is not in it takes its place.
Keep(w, k, rows) ==
    cache' = IF cache[w].key = k THEN cache
             ELSE [cache EXCEPT ![w] = [key |-> k, rows |-> rows, left |-> TTL]]

\* Somebody else asks for a summary, or for the citations of a version.
OtherSummary(w, o) ==
    /\ Keep(w, o, Kept(w, o))
    /\ UNCHANGED <<store, marks, client, walk>>

OtherVersion(w) ==
    /\ Keep(w, "version", {})
    /\ UNCHANGED <<store, marks, client, walk>>

\* The client is given the next page of S, of t results in all, and goes on
\* until there are no more pages.
Given(S, t) ==
    /\ page' = page + 1
    /\ total' = t
    /\ cut' = S
    /\ start' = IF page = 0 THEN S ELSE start
    /\ got' = got \cup Slice(S, page + 1)
    /\ stage' = IF page' * PerPage >= total' THEN "done" ELSE "ready"

\* summary: the total and the slice are of the same rows.
Summary(w) ==
    /\ want = "summary"
    /\ stage = "ready"
    /\ Given(Kept(w, order), Cardinality(Kept(w, order)))
    /\ Keep(w, order, Kept(w, order))
    /\ asked' = asked \cup {w}
    /\ UNCHANGED <<store, marks, client>>

\* Mutant of LookUp: a listing that has grown since the last page is refused.
LookUpRefuses ==
    /\ want # "summary"
    /\ stage = "ready"
    /\ page = 0 \/ Cardinality(Query) = total
    /\ IF store[article] = NoValue
       THEN /\ stage' = "not found"
            /\ UNCHANGED total
       ELSE /\ stage' = "counted"
            /\ total' = Cardinality(Query)
    /\ UNCHANGED <<store, cache, marks, client, page, cut, start, got, asked>>

\* get_object_or_404, the sum (which is not modelled) and q.count().
LookUp ==
    /\ want # "summary"
    /\ stage = "ready"
    /\ IF store[article] = NoValue
       THEN /\ stage' = "not found"
            /\ UNCHANGED total
       ELSE /\ stage' = "counted"
            /\ total' = Cardinality(Query)
    /\ UNCHANGED <<store, cache, marks, client, page, cut, start, got, asked>>

\* The slice is fetched when the answer is put together.
Fetch ==
    /\ stage = "counted"
    /\ Given(Query, total)
    /\ UNCHANGED <<store, cache, marks, client, asked>>

Step ==
    \/ \E w \in Workers : Summary(w)
    \/ LookUp
    \/ Fetch

Next ==
    \/ Step
    \/ Publish
    \/ Tick
    \/ \E w \in Workers : \E o \in Orders : OtherSummary(w, o)
    \/ \E w \in Workers : OtherVersion(w)

Spec == Init /\ [][Next]_vars

\* The client goes on asking, and is answered.
FairSpec == Spec /\ WF_vars(Step)

-----------------------------------------------------------------------------

Values ==
    {Exists, NoValue} \cup {Report[i][r] : i \in Importers, r \in Rows}

Entries ==
    [key : {NoKey}, rows : {{}}, left : {0}]
        \cup [key : Cacheable, rows : SUBSET Articles, left : 1..TTL]

\* Types of every variable.
TypeOK ==
    /\ store \in [Store!Keys -> Values]
    /\ cache \in [Workers -> Entries]
    /\ marks \in [1..TTL -> SUBSET Articles]
    /\ want \in Wants
    /\ article \in Articles \cup {NoKey}
    /\ order \in Orders
    /\ stage \in {"ready", "counted", "done", "not found"}
    /\ page \in 0..Cardinality(Items) + 1
    /\ total \in 0..Cardinality(Items)
    /\ cut \subseteq Items
    /\ start \subseteq Items
    /\ got \subseteq Items
    /\ asked \subseteq Workers

\* The parts of the inductive invariant.  The history never goes back.
MarksInv ==
    \A m, n \in 1..TTL :
        /\ marks[n] \subseteq Summaries
        /\ m <= n => marks[n] \subseteq marks[m]

\* A cached summary lists what there was when it was put there.
KeptInv ==
    \A w \in Workers :
        cache[w].key \in Orders =>
            /\ cache[w].rows \subseteq Summaries
            /\ marks[TTL - cache[w].left + 1] \subseteq cache[w].rows

\* A worker never answers with less than it has answered with.
CutInv ==
    /\ cut \subseteq Query
    /\ want = "summary" => total = Cardinality(cut)
    /\ want = "summary" /\ asked = {} => cut = {}
    /\ want = "summary" => \A w \in Workers :
          asked = {w} /\ cache[w].key \in Orders => cut \subseteq cache[w].rows

OneWorker == want = "summary" => asked = {} \/ \E w \in Workers : asked = {w}

\* What the client has not been given yet comes behind the pages it has got.
RestInv ==
    OneWorker =>
        /\ start \subseteq cut
        /\ \A x \in start \ got : page * PerPage < Place(x, cut)

\* There are no more pages than results, but for the first.
StageInv ==
    /\ stage = "done" => total <= page * PerPage
    /\ stage \in {"ready", "counted"} =>
          page = 0 \/ page < Cardinality(Items)
    /\ stage = "counted" => want # "summary"

\* A client that has walked to the last page has been given everything that
\* was listed when it began, however many rows were published meanwhile and
\* wherever they came: rows move back, so that some are repeated
\* (api_v2_logic.py:43-48, 169-172).  There are two exceptions at the workers:
\* a row that appears between the count and the slice of the last page moves
\* another past the end; and a summary whose pages came from several workers,
\* the cache of one of which was behind.  A third is outside the model: pages
\* that a cache on the way to the client answers with, as the headers of
\* core/middleware.py:12-17 allow, may be of different age.
WalkMissesNothing ==
    /\ stage = "done"
    /\ want # "summary" => total = Cardinality(cut)
    /\ want = "summary" => \E w \in Workers : asked = {w}
    => start \subseteq got

\* Together they are preserved by every step.
IInv ==
    /\ TypeOK
    /\ MarksInv
    /\ KeptInv
    /\ CutInv
    /\ RestInv
    /\ StageInv

\* A client that goes on asking gets to the last page, or is told that there
\* is no such article, although what it lists may grow as it goes.
WalkEnds == <>(stage \in {"done", "not found"})

\* The summary that a worker answers with is never further behind than the
\* time that it keeps one, whatever it was asked by others
\* (api_v2_logic.py:153-162).  What a client sees may be older by what caches
\* on the way may keep an answer for (core/middleware.py:12-17: five minutes,
\* as long again while they ask anew, a day while there are errors).
Listing ==
    INSTANCE BoundedStaleness WITH
        Items <- Articles,
        Window <- TTL,
        listed <- Summaries,
        marks <- marks,
        answer <- IF want = "summary" THEN cut ELSE {}

StalenessIsBounded == Listing!Spec
=============================================================================
