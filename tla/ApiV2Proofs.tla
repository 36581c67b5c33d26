----------------------------- MODULE ApiV2Proofs -----------------------------
(***************************************************************************)
(* Proofs about ApiV2 for any tables, any number of workers, any size of   *)
(* page and any lifetime of a cached summary.                              *)
(***************************************************************************)
EXTENDS ApiV2, FiniteSetTheorems, TLAPS

\* The numbers.
LEMMA Numbers ==
    ASSUME TypeOK
    PROVE  /\ Cardinality(Items) \in Nat
           /\ page \in Nat
           /\ total \in Nat
           /\ total <= Cardinality(Items)
           /\ PerPage \in Nat \ {0}
           /\ page * PerPage \in Nat
           /\ (page + 1) * PerPage = page * PerPage + PerPage
  <1>1. Cardinality(Items) \in Nat /\ PerPage \in Nat \ {0}
    BY PageAssumption, FS_CardinalityType
  <1>2. page \in Nat /\ total \in Nat /\ total <= Cardinality(Items)
    <2>1. page \in 0..(Cardinality(Items) + 1) /\ total \in 0..Cardinality(Items)
      BY Zenon DEF TypeOK
    <2> QED
      BY <1>1, <2>1
  <1>3. \A n, m \in Nat : n * m \in Nat /\ (n + 1) * m = n * m + m
    OBVIOUS
  <1> QED
    BY <1>1, <1>2, <1>3

\* What is listed can be listed.
LEMMA ListedItems ==
    ASSUME TypeOK
    PROVE  /\ Summaries \subseteq Articles
           /\ Query \subseteq Items
           /\ want = "summary" => Query = Summaries
           /\ Articles \subseteq Items
  <1>1. Days(article) \subseteq Rows /\ Summaries \subseteq Articles
    BY DEF Days, Summaries
  <1>2. {MonthOf[r] : r \in Days(article)} \subseteq Months
    BY <1>1, StoreAssumption
  <1> QED
    BY <1>1, <1>2 DEF Query, Items

\* Nothing that is published disappears.
LEMMA StoreGrows ==
    ASSUME TypeOK, Store!Next
    PROVE  /\ store' \in [Store!Keys -> Values]
           /\ \A k \in Store!Keys : store[k] # NoValue => store'[k] # NoValue
  <1>1. PICK i \in Importers, W \in SUBSET Store!Keys : Store!Publish(i, W)
    BY DEF Store!Next
  <1>2. \A k \in Store!Keys :
            Store!Reported(i, k) \in Values /\ Store!Reported(i, k) # NoValue
    BY StoreAssumption DEF Store!Reported, Store!Keys, Values
  <1> QED
    BY <1>1, <1>2 DEF Store!Publish, TypeOK

\* So what is listed only grows.
LEMMA ListingGrows ==
    ASSUME TypeOK, UNCHANGED <<want, article>>,
           UNCHANGED store \/ Store!Next
    PROVE  Summaries \subseteq Summaries' /\ Query \subseteq Query'
  <1>1. \A k \in Store!Keys : store[k] # NoValue => store'[k] # NoValue
    BY StoreGrows
  <1>2. Articles \subseteq Store!Keys /\ Rows \subseteq Store!Keys
    BY DEF Store!Keys
  <1>3. Summaries \subseteq Summaries'
    BY <1>1, <1>2 DEF Summaries, Days
  <1>4. Query \subseteq Query'
    BY <1>1, <1>2, <1>3, Zenon DEF Query, Days
  <1> QED
    BY <1>3, <1>4

(***************************************************************************)
(* Places and pages.                                                       *)
(***************************************************************************)

\* A result's place is counted, and is at most the number of results.
LEMMA PlaceType ==
    ASSUME NEW S \in SUBSET Items, NEW x
    PROVE  /\ IsFiniteSet(S)
           /\ Cardinality(S) \in Nat
           /\ Cardinality(S) <= Cardinality(Items)
           /\ Place(x, S) \in Nat
           /\ Place(x, S) <= Cardinality(S)
           /\ x \in S => Place(x, S) > 0
  <1>1. IsFiniteSet(S) /\ Cardinality(S) <= Cardinality(Items)
    BY PageAssumption, FS_Subset
  <1>2. Cardinality(S) \in Nat
    BY <1>1, FS_CardinalityType
  <1>3. IsFiniteSet(S \cap UpTo(x)) /\ Place(x, S) <= Cardinality(S)
    BY <1>1, FS_Intersection DEF Place
  <1>4. Place(x, S) \in Nat
    BY <1>3, FS_CardinalityType DEF Place
  <1>5. ASSUME x \in S PROVE Place(x, S) > 0
    <2>1. x \in S \cap UpTo(x)
      BY <1>5, PageAssumption DEF UpTo
    <2>2. Place(x, S) # 0
      BY <1>3, <2>1, FS_EmptySet DEF Place
    <2> QED
      BY <1>4, <2>2
  <1> QED
    BY <1>1, <1>2, <1>3, <1>4, <1>5

\* Rows that are published only move the others back.
LEMMA PlaceGrows ==
    ASSUME NEW S \in SUBSET Items, NEW T \in SUBSET S, NEW x
    PROVE  Place(x, T) <= Place(x, S)
  <1>1. IsFiniteSet(S \cap UpTo(x))
    BY PlaceType, FS_Intersection
  <1>2. T \cap UpTo(x) \subseteq S \cap UpTo(x)
    OBVIOUS
  <1> QED
    BY <1>1, <1>2, FS_Subset DEF Place

\* The places are those of the client's order, which does not change.
LEMMA PlaceStays ==
    ASSUME UNCHANGED order, NEW x
    PROVE  Cardinality(cut' \cap UpTo(x)) = Cardinality(cut' \cap UpTo(x)')
  BY DEF UpTo

\* If the client is given a page of no less than it was given pages of
\* before, what it has not been given comes behind that page.
LEMMA NextPage ==
    ASSUME TypeOK, UNCHANGED order, NEW S \in SUBSET Items, NEW t, Given(S, t),
           page = 0 \/ cut \subseteq S,
           page = 0 \/ start \subseteq cut,
           \A x \in start \ got : page * PerPage < Place(x, cut)
    PROVE  /\ start' \subseteq cut'
           /\ \A x \in start' \ got' : page' * PerPage < Place(x, cut)'
  <1>1. start' \subseteq S /\ cut' = S /\ page' = page + 1
    BY DEF Given
  <1>2. page \in Nat /\ PerPage \in Nat \ {0} /\ page * PerPage \in Nat
    BY Numbers
  <1>3. ASSUME NEW x \in start' \ got'
        PROVE  page' * PerPage < Place(x, cut)'
    <2>1. x \in S /\ x \notin Slice(S, page + 1)
      BY <1>1, <1>3 DEF Given
    <2>2. ~(/\ page * PerPage < Place(x, S)
            /\ Place(x, S) <= (page + 1) * PerPage)
      BY <1>2, <2>1 DEF Slice
    <2>3. page * PerPage < Place(x, S)
      <3>1. CASE page = 0
        BY <3>1, <2>1, <1>2, PlaceType
      <3>2. CASE page # 0
        <4>1. x \in start \ got
          BY <3>2 DEF Given
        <4>2. page * PerPage < Place(x, cut) /\ Place(x, cut) <= Place(x, S)
          BY <3>2, <4>1, PlaceGrows
        <4>3. Place(x, cut) \in Nat /\ Place(x, S) \in Nat
          BY PlaceType DEF TypeOK
        <4> QED
          BY <4>2, <4>3, <1>2
      <3> QED
        BY <3>1, <3>2
    <2>4. (page + 1) * PerPage < Place(x, S)
      <3>1. Place(x, S) \in Nat /\ (page + 1) * PerPage \in Nat
        BY PlaceType, <1>2
      <3> QED
        BY <2>2, <2>3, <3>1
    <2> QED
      BY <2>4, <1>1, PlaceStays DEF Place
  <1> QED
    BY <1>1, <1>3

\* What a page does to the client's types, and to where it goes on.
LEMMA GivenType ==
    ASSUME TypeOK, StageInv, stage \in {"ready", "counted"},
           NEW S \in SUBSET Items, NEW t \in 0..Cardinality(Items), Given(S, t)
    PROVE  /\ page' \in 0..Cardinality(Items) + 1
           /\ total' \in 0..Cardinality(Items)
           /\ cut' \subseteq Items
           /\ start' \subseteq Items
           /\ got' \subseteq Items
           /\ stage' \in {"ready", "done"}
           /\ stage' = "done" => total' <= page' * PerPage
           /\ stage' = "ready" => page' < Cardinality(Items)
  <1> DEFINE N == Cardinality(Items)
  <1>1. /\ N \in Nat /\ page \in Nat /\ t \in Nat /\ t <= N
        /\ PerPage \in Nat \ {0}
        /\ page' = page + 1 /\ total' = t
        /\ stage' = IF page' * PerPage >= total' THEN "done" ELSE "ready"
    BY Numbers DEF Given
  <1>2. page = 0 \/ page < N
    BY DEF StageInv
  <1>3. page' \in 0..N + 1 /\ total' \in 0..N
    <2> HIDE DEF N
    <2> QED
      BY <1>1, <1>2
  <1>4. cut' \subseteq Items /\ start' \subseteq Items /\ got' \subseteq Items
    BY DEF Given, Slice, TypeOK
  <1>5. page' * PerPage \in Nat /\ page' <= page' * PerPage
    <2>1. \A n \in Nat, m \in Nat \ {0} : n * m \in Nat /\ n <= n * m
      OBVIOUS
    <2> QED
      BY <1>1, <2>1
  <1>6. stage' = "ready" => page' * PerPage < t
    BY <1>1, <1>5
  <1>7. stage' = "ready" => page' < N
    <2> HIDE DEF N
    <2> QED
      BY <1>1, <1>5, <1>6
  <1>8. /\ stage' \in {"ready", "done"}
        /\ stage' = "done" => total' <= page' * PerPage
    BY <1>1, <1>5
  <1> QED
    BY <1>3, <1>4, <1>7, <1>8

(***************************************************************************)
(* The cache.                                                              *)
(***************************************************************************)

\* What a worker answers with was there, and nothing was there TTL ticks ago
\* that is missing.
LEMMA KeptListed ==
    ASSUME TypeOK, MarksInv, KeptInv, NEW w \in Workers, NEW o \in Orders
    PROVE  /\ Kept(w, o) \subseteq Summaries
           /\ marks[TTL] \subseteq Kept(w, o)
           /\ Kept(w, o) \subseteq Articles
           /\ Kept(w, o) \subseteq Items
  <1>1. TTL \in 1..TTL /\ 1 \in 1..TTL
    BY PageAssumption
  <1>2. CASE cache[w].key = o
    <2>1. cache[w].left \in 1..TTL
      BY <1>2, PageAssumption DEF TypeOK, Entries, Cacheable
    <2>2. TTL - cache[w].left + 1 \in 1..TTL /\ TTL - cache[w].left + 1 <= TTL
      BY <2>1, PageAssumption
    <2>3. marks[TTL] \subseteq marks[TTL - cache[w].left + 1]
      BY <1>1, <2>2 DEF MarksInv
    <2>4. /\ cache[w].rows \subseteq Summaries
          /\ marks[TTL - cache[w].left + 1] \subseteq cache[w].rows
      BY <1>2 DEF KeptInv
    <2> QED
      BY <1>2, <2>3, <2>4, ListedItems DEF Kept
  <1>3. CASE cache[w].key # o
    BY <1>1, <1>3, ListedItems DEF Kept, MarksInv
  <1> QED
    BY <1>2, <1>3

\* An entry is replaced by a whole entry.
LEMMA KeepType ==
    ASSUME TypeOK, NEW w \in Workers, NEW k \in Cacheable,
           NEW rows \in SUBSET Articles, Keep(w, k, rows)
    PROVE  /\ cache' \in [Workers -> Entries]
           /\ \A v \in Workers : v # w => cache'[v] = cache[v]
           /\ cache[w].key = k => cache'[w] = cache[w]
           /\ cache[w].key # k =>
                 cache'[w] = [key |-> k, rows |-> rows, left |-> TTL]
  <1>1. [key |-> k, rows |-> rows, left |-> TTL] \in Entries
    BY PageAssumption DEF Entries
  <1> QED
    BY <1>1 DEF Keep, TypeOK

\* Keeping a query of the summary, or something else, is in order.
LEMMA KeepKept ==
    ASSUME TypeOK, MarksInv, KeptInv, UNCHANGED <<store, marks>>,
           NEW w \in Workers, NEW k \in Cacheable, NEW rows \in SUBSET Articles,
           k \in Orders => rows = Kept(w, k), Keep(w, k, rows)
    PROVE  KeptInv'
  <1>1. Summaries' = Summaries
    BY DEF Summaries, Days
  <1> SUFFICES ASSUME NEW v \in Workers, cache'[v].key \in Orders
               PROVE  /\ cache'[v].rows \subseteq Summaries
                      /\ marks[TTL - cache'[v].left + 1] \subseteq cache'[v].rows
    BY <1>1 DEF KeptInv
  <1>2. CASE cache'[v] = cache[v]
    BY <1>2 DEF KeptInv
  <1>3. CASE cache'[v] # cache[v]
    <2>1. v = w /\ cache[w].key # k
      BY <1>3, KeepType
    <2>2. cache'[v] = [key |-> k, rows |-> rows, left |-> TTL]
      BY <2>1, KeepType
    <2>3. rows = Summaries
      BY <2>1, <2>2 DEF Kept
    <2>4. TTL - cache'[v].left + 1 = 1 /\ 1 \in 1..TTL
      BY <2>2, PageAssumption
    <2>5. marks[1] \subseteq Summaries
      BY <2>4 DEF MarksInv
    <2> QED
      BY <2>2, <2>3, <2>4, <2>5
  <1> QED
    BY <1>2, <1>3

(***************************************************************************)
(* Every action preserves the invariant.                                   *)
(***************************************************************************)

\* What is read of the walk is the same if the walk is.
LEMMA WalkStays ==
    ASSUME UNCHANGED <<client, walk>>
    PROVE  /\ StageInv => StageInv'
           /\ RestInv => RestInv'
  <1>1. UNCHANGED <<want, article, order>>
        /\ UNCHANGED <<stage, page, total, cut, start, got, asked>>
    BY DEF client, walk
  <1>2. StageInv => StageInv'
    BY <1>1 DEF StageInv
  <1>3. RestInv => RestInv'
    BY <1>1 DEF RestInv, OneWorker, Place, UpTo
  <1> QED
    BY <1>2, <1>3

LEMMA PublishStep ==
    ASSUME IInv, Publish
    PROVE  IInv'
  <1>1. /\ Store!Next /\ UNCHANGED <<cache, marks, client, walk>>
        /\ UNCHANGED <<want, article, order>>
        /\ UNCHANGED <<stage, page, total, cut, start, got, asked>>
    BY DEF Publish, client, walk
  <1>2. Summaries \subseteq Summaries' /\ Query \subseteq Query'
    BY <1>1, ListingGrows DEF IInv
  <1>3. TypeOK'
    BY <1>1, StoreGrows DEF IInv, TypeOK
  <1>4. MarksInv'
    BY <1>1, <1>2 DEF IInv, MarksInv
  <1>5. KeptInv'
    BY <1>1, <1>2 DEF IInv, KeptInv
  <1>6. CutInv'
    BY <1>1, <1>2 DEF IInv, CutInv
  <1> QED
    BY <1>1, <1>3, <1>4, <1>5, <1>6, WalkStays DEF IInv

LEMMA TickStep ==
    ASSUME IInv, Tick
    PROVE  IInv'
  <1>1. /\ UNCHANGED <<store, client, walk>>
        /\ UNCHANGED <<want, article, order>>
        /\ UNCHANGED <<stage, page, total, cut, start, got, asked>>
    BY DEF Tick, client, walk
  <1>2. Summaries' = Summaries /\ Query' = Query
    BY <1>1 DEF Summaries, Days, Query
  <1>3. TTL \in Nat \ {0}
    BY PageAssumption
  <1>4. ASSUME NEW n \in 1..TTL
        PROVE  marks'[n] = IF n = 1 THEN Summaries ELSE marks[n - 1]
    BY <1>4 DEF Tick
  <1>5. ASSUME NEW n \in 1..TTL, n # 1
        PROVE  n - 1 \in 1..TTL
    BY <1>3, <1>5
  <1>6. ASSUME NEW w \in Workers
        PROVE  /\ cache'[w] \in Entries
               /\ cache'[w].key \in Orders =>
                     /\ cache[w].key = cache'[w].key
                     /\ cache[w].rows = cache'[w].rows
                     /\ cache[w].left \in 2..TTL
                     /\ cache'[w].left = cache[w].left - 1
    <2>1. cache'[w] = IF cache[w].left <= 1 THEN Empty
                      ELSE [cache[w] EXCEPT !.left = @ - 1]
      BY DEF Tick
    <2>2. cache[w] \in Entries
      BY DEF IInv, TypeOK
    <2>3. CASE cache[w].left <= 1
      BY <2>1, <2>3, PageAssumption DEF Empty, Entries, Cacheable
    <2>4. CASE ~(cache[w].left <= 1)
      BY <2>1, <2>2, <2>4, <1>3 DEF Entries
    <2> QED
      BY <2>3, <2>4
  <1>7. TypeOK'
    <2>1. cache' \in [Workers -> Entries]
      BY <1>6 DEF Tick
    <2>2. marks' \in [1..TTL -> SUBSET Articles]
      BY <1>4, <1>5, ListedItems DEF Tick, IInv, TypeOK
    <2> QED
      BY <1>1, <2>1, <2>2 DEF IInv, TypeOK
  <1>8. MarksInv'
    <2> SUFFICES ASSUME NEW m \in 1..TTL, NEW n \in 1..TTL
                 PROVE  /\ marks'[n] \subseteq Summaries
                        /\ m <= n => marks'[n] \subseteq marks'[m]
      BY <1>2 DEF MarksInv
    <2>1. marks'[n] \subseteq Summaries
      BY <1>4, <1>5 DEF IInv, MarksInv
    <2>2. ASSUME m <= n, m # 1
          PROVE  marks'[n] \subseteq marks'[m]
      <3>1. n # 1 /\ m - 1 \in 1..TTL /\ n - 1 \in 1..TTL /\ m - 1 <= n - 1
        BY <2>2, <1>3
      <3> QED
        BY <3>1, <2>2, <1>4 DEF IInv, MarksInv
    <2> QED
      BY <1>4, <2>1, <2>2
  <1>9. KeptInv'
    <2> SUFFICES ASSUME NEW w \in Workers, cache'[w].key \in Orders
                 PROVE  /\ cache'[w].rows \subseteq Summaries
                        /\ marks'[TTL - cache'[w].left + 1]
                               \subseteq cache'[w].rows
      BY <1>2 DEF KeptInv
    <2> DEFINE n == TTL - cache'[w].left + 1
    <2>1. /\ cache[w].left \in 2..TTL /\ cache'[w].left = cache[w].left - 1
          /\ cache[w].rows = cache'[w].rows /\ cache[w].key \in Orders
      BY <1>6
    <2>2. n \in 1..TTL /\ n # 1 /\ n - 1 = TTL - cache[w].left + 1
      BY <2>1, <1>3
    <2>3. marks'[n] = marks[n - 1]
      BY <2>2, <1>4
    <2> QED
      BY <2>1, <2>2, <2>3 DEF IInv, KeptInv
  <1>10. CutInv'
    BY <1>1, <1>2, <1>6 DEF IInv, CutInv
  <1> QED
    BY <1>1, <1>7, <1>8, <1>9, <1>10, WalkStays DEF IInv

\* A request of somebody else only puts rows that are there in the cache.
LEMMA OtherStep ==
    ASSUME IInv, UNCHANGED <<store, marks, client, walk>>,
           NEW w \in Workers, NEW k \in Cacheable, NEW rows \in SUBSET Articles,
           k \in Orders => rows = Kept(w, k), Keep(w, k, rows)
    PROVE  IInv'
  <1>1. /\ UNCHANGED <<want, article, order>>
        /\ UNCHANGED <<stage, page, total, cut, start, got, asked>>
    BY DEF client, walk
  <1>2. Summaries' = Summaries /\ Query' = Query
    BY <1>1 DEF Summaries, Days, Query
  <1>3. TypeOK'
    BY <1>1, KeepType DEF IInv, TypeOK
  <1>4. MarksInv' /\ KeptInv'
    BY <1>2, KeepKept DEF IInv, MarksInv
  <1>5. CutInv'
    <2>1. ASSUME want = "summary", NEW v \in Workers, asked = {v},
                 cache'[v].key \in Orders
          PROVE  cut \subseteq cache'[v].rows
      <3>1. CASE cache'[v] = cache[v]
        BY <2>1, <3>1 DEF IInv, CutInv
      <3>2. CASE cache'[v] # cache[v]
        <4>1. v = w /\ cache[w].key # k
          BY <3>2, KeepType DEF IInv
        <4>2. cache'[v].rows = rows /\ cache'[v].key = k
          <5>1. cache'[v] = [key |-> k, rows |-> rows, left |-> TTL]
            BY <4>1, KeepType DEF IInv
          <5> QED
            BY <5>1
        <4>3. rows = Summaries
          BY <2>1, <4>1, <4>2 DEF Kept
        <4> QED
          BY <2>1, <4>2, <4>3, ListedItems DEF IInv, CutInv
      <3> QED
        BY <3>1, <3>2
    <2> QED
      BY <1>1, <1>2, <2>1 DEF IInv, CutInv
  <1> QED
    BY <1>3, <1>4, <1>5, WalkStays DEF IInv

\* The client is given a page of what a worker keeps or queries.
LEMMA SummaryStep ==
    ASSUME IInv, NEW w \in Workers, Summary(w)
    PROVE  IInv'
  <1> DEFINE S == Kept(w, order)
  <1>1. /\ want = "summary" /\ stage = "ready"
        /\ Given(S, Cardinality(S)) /\ Keep(w, order, S)
        /\ asked' = asked \cup {w}
        /\ UNCHANGED <<store, marks, want, article, order>>
    BY DEF Summary, client
  <1>2. order \in Orders /\ order \in Cacheable
    BY DEF IInv, TypeOK, Cacheable
  <1>3. /\ S \subseteq Summaries /\ S \in SUBSET Articles
        /\ S \in SUBSET Items
    BY <1>2, KeptListed DEF IInv
  <1>4. Cardinality(S) \in 0..Cardinality(Items)
    BY <1>3, PlaceType, Numbers DEF IInv
  <1>5. Summaries' = Summaries /\ Query' = Query
    BY <1>1 DEF Summaries, Days, Query
  <1>6. /\ page' \in 0..Cardinality(Items) + 1
        /\ total' \in 0..Cardinality(Items)
        /\ cut' \subseteq Items
        /\ start' \subseteq Items
        /\ got' \subseteq Items
        /\ stage' \in {"ready", "done"}
        /\ stage' = "done" => total' <= page' * PerPage
        /\ stage' = "ready" => page' < Cardinality(Items)
    <2> HIDE DEF S
    <2> QED
      BY <1>1, <1>3, <1>4, GivenType DEF IInv
  <1>7. cut' = S /\ total' = Cardinality(S)
    BY <1>1 DEF Given
  <1>8. /\ cache' \in [Workers -> Entries]
        /\ \A v \in Workers : v # w => cache'[v] = cache[v]
        /\ cache'[w].key = order /\ cache'[w].rows = S
    <2>1. /\ cache' \in [Workers -> Entries]
          /\ \A v \in Workers : v # w => cache'[v] = cache[v]
          /\ cache[w].key = order => cache'[w] = cache[w]
          /\ cache[w].key # order =>
                cache'[w] = [key |-> order, rows |-> S, left |-> TTL]
      <3> HIDE DEF S
      <3> QED
        BY <1>1, <1>2, <1>3, KeepType DEF IInv
    <2> QED
      BY <2>1 DEF Kept
  <1>9. TypeOK'
    <2>1. asked' \subseteq Workers
      BY <1>1 DEF IInv, TypeOK
    <2> QED
      BY <1>1, <1>6, <1>8, <2>1 DEF IInv, TypeOK
  <1>10. MarksInv' /\ KeptInv'
    <2> HIDE DEF S
    <2>1. KeptInv'
      BY <1>1, <1>2, <1>3, KeepKept DEF IInv, S
    <2> QED
      BY <1>1, <1>5, <2>1 DEF IInv, MarksInv
  <1>11. CutInv'
    <2>1. cut' \subseteq Query'
      BY <1>1, <1>3, <1>5, <1>7 DEF Query
    <2>2. \A v \in Workers : asked' = {v} => v = w
      BY <1>1
    <2> QED
      BY <1>1, <1>7, <1>8, <2>1, <2>2 DEF CutInv
  <1>12. RestInv'
    <2> SUFFICES ASSUME OneWorker'
                 PROVE  /\ start' \subseteq cut'
                        /\ \A x \in start' \ got' :
                               page' * PerPage < Place(x, cut)'
      BY DEF RestInv
    <2>1. asked \subseteq {w}
      BY <1>1 DEF OneWorker
    <2>2. OneWorker
      BY <2>1 DEF OneWorker
    <2>3. cut \subseteq S
      <3>1. CASE asked = {}
        BY <1>1, <3>1 DEF IInv, CutInv
      <3>2. CASE asked = {w}
        BY <1>1, <1>2, <3>2, ListedItems DEF IInv, CutInv, Kept
      <3> QED
        BY <2>1, <3>1, <3>2
    <2>4. start \subseteq cut /\ \A x \in start \ got : page * PerPage < Place(x, cut)
      BY <2>2 DEF IInv, RestInv
    <2> HIDE DEF S
    <2> QED
      BY <1>1, <1>3, <2>3, <2>4, NextPage DEF IInv
  <1>13. StageInv'
    BY <1>1, <1>6 DEF StageInv
  <1> QED
    BY <1>9, <1>10, <1>11, <1>12, <1>13 DEF IInv

LEMMA LookUpStep ==
    ASSUME IInv, LookUp
    PROVE  IInv'
  <1>1. /\ want # "summary" /\ stage = "ready"
        /\ UNCHANGED <<store, cache, marks, want, article, order>>
        /\ UNCHANGED <<page, cut, start, got, asked>>
        /\ \/ stage' = "not found" /\ total' = total
           \/ stage' = "counted" /\ total' = Cardinality(Query)
    BY DEF LookUp, client
  <1>2. Cardinality(Query) \in 0..Cardinality(Items)
    BY PlaceType, Numbers, ListedItems DEF IInv
  <1>3. Summaries' = Summaries /\ Query' = Query
    BY <1>1 DEF Summaries, Days, Query
  <1>4. TypeOK'
    BY <1>1, <1>2 DEF IInv, TypeOK
  <1>5. MarksInv' /\ KeptInv' /\ CutInv'
    BY <1>1, <1>3 DEF IInv, MarksInv, KeptInv, CutInv
  <1>6. RestInv'
    BY <1>1 DEF IInv, RestInv, OneWorker, Place, UpTo
  <1>7. StageInv'
    BY <1>1 DEF IInv, StageInv
  <1> QED
    BY <1>4, <1>5, <1>6, <1>7 DEF IInv

LEMMA FetchStep ==
    ASSUME IInv, Fetch
    PROVE  IInv'
  <1>1. /\ want # "summary" /\ stage = "counted"
        /\ Given(Query, total)
        /\ UNCHANGED <<store, cache, marks, want, article, order, asked>>
    BY DEF Fetch, client, IInv, StageInv
  <1>2. Query \in SUBSET Items /\ total \in 0..Cardinality(Items)
    BY ListedItems, Numbers DEF IInv
  <1>3. Summaries' = Summaries /\ Query' = Query /\ cut' = Query
    BY <1>1 DEF Summaries, Days, Query, Given
  <1>4. /\ page' \in 0..Cardinality(Items) + 1
        /\ total' \in 0..Cardinality(Items)
        /\ cut' \subseteq Items
        /\ start' \subseteq Items
        /\ got' \subseteq Items
        /\ stage' \in {"ready", "done"}
        /\ stage' = "done" => total' <= page' * PerPage
        /\ stage' = "ready" => page' < Cardinality(Items)
    BY <1>1, <1>2, GivenType DEF IInv
  <1>5. TypeOK'
    BY <1>1, <1>4 DEF IInv, TypeOK
  <1>6. MarksInv' /\ KeptInv' /\ CutInv'
    BY <1>1, <1>3 DEF IInv, MarksInv, KeptInv, CutInv
  <1>7. RestInv'
    <2>1. OneWorker
      BY <1>1 DEF OneWorker
    <2>2. /\ start \subseteq cut /\ cut \subseteq Query
          /\ \A x \in start \ got : page * PerPage < Place(x, cut)
      BY <2>1 DEF IInv, RestInv, CutInv
    <2>3. /\ start' \subseteq cut'
          /\ \A x \in start' \ got' : page' * PerPage < Place(x, cut)'
      BY <1>1, <1>2, <2>2, NextPage DEF IInv
    <2> QED
      BY <2>3 DEF RestInv
  <1>8. StageInv'
    BY <1>1, <1>4 DEF StageInv
  <1> QED
    BY <1>5, <1>6, <1>7, <1>8 DEF IInv

LEMMA InitStep == Init => IInv
  <1> SUFFICES ASSUME Init PROVE IInv
    OBVIOUS
  <1>1. TTL \in Nat \ {0} /\ Cardinality(Items) \in Nat
    BY PageAssumption, FS_CardinalityType
  <1>2. Summaries = {}
    BY DEF Init, Summaries, Store!Keys
  <1>3. TypeOK
    <2>1. page \in 0..Cardinality(Items) + 1 /\ total \in 0..Cardinality(Items)
      BY <1>1 DEF Init
    <2>2. Empty \in Entries
      BY DEF Empty, Entries
    <2> QED
      BY <2>1, <2>2 DEF Init, TypeOK, Values
  <1>4. MarksInv /\ KeptInv /\ RestInv /\ StageInv
    BY <1>2, PageAssumption
       DEF Init, MarksInv, KeptInv, RestInv, StageInv, Empty, Cacheable
  <1>5. CutInv
    BY FS_EmptySet DEF Init, CutInv
  <1> QED
    BY <1>3, <1>4, <1>5 DEF IInv

LEMMA NextStep == IInv /\ [Next]_vars => IInv'
  <1> SUFFICES ASSUME IInv, [Next]_vars PROVE IInv'
    OBVIOUS
  <1>1. ASSUME NEW w \in Workers, NEW o \in Orders, OtherSummary(w, o)
        PROVE  IInv'
    <2>1. Kept(w, o) \in SUBSET Articles /\ o \in Cacheable
      BY KeptListed DEF IInv, Cacheable
    <2> QED
      BY <1>1, <2>1, OtherStep DEF OtherSummary
  <1>2. ASSUME NEW w \in Workers, OtherVersion(w)
        PROVE  IInv'
    <2>1. "version" \in Cacheable /\ "version" \notin Orders
      BY DEF Cacheable, Orders
    <2> QED
      BY <1>2, <2>1, OtherStep DEF OtherVersion
  <1>3. CASE UNCHANGED vars
    <2>1. /\ UNCHANGED <<store, cache, marks, want, article, order>>
          /\ UNCHANGED <<stage, page, total, cut, start, got, asked>>
      BY <1>3 DEF vars, client, walk
    <2>2. Summaries' = Summaries /\ Query' = Query
      BY <2>1 DEF Summaries, Days, Query
    <2>3. RestInv' /\ StageInv'
      BY <2>1, WalkStays DEF IInv, client, walk
    <2> QED
      BY <2>1, <2>2, <2>3 DEF IInv, TypeOK, MarksInv, KeptInv, CutInv
  <1> QED
    BY <1>1, <1>2, <1>3, PublishStep, TickStep, SummaryStep, LookUpStep,
       FetchStep DEF Next, Step

\* The inductive invariant holds.
THEOREM ApiInvariance == Spec => []IInv
  BY InitStep, NextStep, PTL DEF Spec

\* Every variable keeps its type: a walk takes at most one page per thing that
\* can be listed.
THEOREM ApiTypes == Spec => []TypeOK
  <1>1. IInv => TypeOK
    BY DEF IInv
  <1> QED
    BY <1>1, ApiInvariance, PTL

\* A client that walks the pages to the last is given everything that was
\* listed when it began (WalkMissesNothing), for any listing and any pages.
THEOREM WalksMissNothing == Spec => []WalkMissesNothing
  <1>1. ASSUME IInv PROVE WalkMissesNothing
    <2> SUFFICES ASSUME stage = "done",
                        want # "summary" => total = Cardinality(cut),
                        want = "summary" => \E w \in Workers : asked = {w},
                        NEW x \in start, x \notin got
                 PROVE  FALSE
      BY DEF WalkMissesNothing
    <2>1. total = Cardinality(cut)
      BY <1>1 DEF IInv, CutInv
    <2>2. page * PerPage < Place(x, cut)
      BY <1>1 DEF IInv, RestInv, OneWorker
    <2>3. total <= page * PerPage
      BY <1>1 DEF IInv, StageInv
    <2>4. /\ Place(x, cut) <= Cardinality(cut)
          /\ Place(x, cut) \in Nat /\ Cardinality(cut) \in Nat
      BY <1>1, PlaceType DEF IInv, TypeOK
    <2>5. page * PerPage \in Nat
      BY <1>1, Numbers DEF IInv
    <2> QED
      BY <2>1, <2>2, <2>3, <2>4, <2>5
  <1> QED
    BY <1>1, ApiInvariance, PTL

\* The summaries that the API answers with implement BoundedStaleness: an
\* answer is behind by at most the time a worker keeps it (StalenessIsBounded).
THEOREM SummariesAreBounded == Spec => StalenessIsBounded
  <1> DEFINE answer == IF want = "summary" THEN cut ELSE {}
  <1>1. Init => Listing!Init
    <2> SUFFICES ASSUME Init PROVE Listing!Init
      OBVIOUS
    <2>1. Summaries = {}
      BY DEF Init, Summaries, Store!Keys
    <2> QED
      BY <2>1 DEF Init, Listing!Init
  <1>2. IInv /\ [Next]_vars => [Listing!Next]_<<Summaries, marks, answer>>
    <2> SUFFICES ASSUME IInv, [Next]_vars
                 PROVE  [Listing!Next]_<<Summaries, marks, answer>>
      OBVIOUS
    <2>1. CASE Publish
      <3>1. /\ Store!Next
            /\ UNCHANGED <<marks, want, article, cut>>
        BY <2>1 DEF Publish, client, walk
      <3>2. Summaries \subseteq Summaries'
        BY <3>1, ListingGrows DEF IInv
      <3>3. Summaries' \in SUBSET Articles
        BY DEF Summaries
      <3>4. Summaries' = Summaries \cup Summaries'
        BY <3>2
      <3>5. Listing!Grow
        BY <3>1, <3>3, <3>4 DEF Listing!Grow
      <3> QED
        BY <3>5 DEF Listing!Next
    <2>2. CASE Tick
      <3>1. UNCHANGED <<store, want, cut>>
        BY <2>2 DEF Tick, client, walk
      <3>2. Summaries' = Summaries
        BY <3>1 DEF Summaries, Days
      <3>3. Listing!Tick
        BY <2>2, <3>1, <3>2 DEF Tick, Listing!Tick
      <3> QED
        BY <3>3 DEF Listing!Next
    <2>3. ASSUME NEW w \in Workers, Summary(w)
          PROVE  Listing!Next
      <3>1. /\ want = "summary" /\ cut' = Kept(w, order)
            /\ UNCHANGED <<store, marks, want>>
        BY <2>3 DEF Summary, Given, client
      <3>2. Summaries' = Summaries
        BY <3>1 DEF Summaries, Days
      <3>3. order \in Orders
        BY DEF IInv, TypeOK
      <3>4. marks[TTL] \subseteq cut' /\ cut' \subseteq Summaries
        BY <3>1, <3>3, KeptListed DEF IInv
      <3>5. Listing!Answer
        BY <3>1, <3>2, <3>4 DEF Listing!Answer
      <3> QED
        BY <3>5 DEF Listing!Next
    <2>4. ASSUME LookUp \/ Fetch
          PROVE  UNCHANGED <<Summaries, marks, answer>>
      <3>1. want # "summary" /\ UNCHANGED <<store, marks, want>>
        BY <2>4 DEF LookUp, Fetch, client, IInv, StageInv
      <3> QED
        BY <3>1 DEF Summaries, Days
    <2>5. ASSUME \/ \E w \in Workers : \E o \in Orders : OtherSummary(w, o)
                 \/ \E w \in Workers : OtherVersion(w)
                 \/ UNCHANGED vars
          PROVE  UNCHANGED <<Summaries, marks, answer>>
      <3>1. UNCHANGED <<store, marks, want, cut>>
        BY <2>5 DEF OtherSummary, OtherVersion, vars, client, walk
      <3> QED
        BY <3>1 DEF Summaries, Days
    <2> QED
      BY <2>1, <2>2, <2>3, <2>4, <2>5 DEF Next, Step
  <1> QED
    BY <1>1, <1>2, ApiInvariance, PTL
       DEF Spec, StalenessIsBounded, Listing!Spec
=============================================================================
