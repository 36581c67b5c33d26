--------------------------- MODULE CitationsProofs ---------------------------
(***************************************************************************)
(* Proofs about Citations for any articles, any listings of Scopus and any *)
(* size and number of pages.                                               *)
(***************************************************************************)
EXTENDS Citations, SequenceTheorems, Sums, TLAPS

(***************************************************************************)
(* Crossref and Scopus store nothing early, and the rate limiter's lock is *)
(* free when it is asked for.                                              *)
(***************************************************************************)

\* The steps of one source leave the variables of the others alone.
LEMMA OneSource ==
    ASSUME [Next]_vars
    PROVE  \/ UNCHANGED <<importVars, crossrefVars, scopusVars, pubmedVars>>
           \/ source = "crossref" /\ CrossrefNext /\ UNCHANGED <<scopusVars, pubmedVars>>
           \/ source = "scopus" /\ ScopusNext /\ UNCHANGED <<crossrefVars, pubmedVars>>
           \/ source = "pubmed" /\ PubMedNext /\ UNCHANGED <<crossrefVars, scopusVars>>
  BY DEF Next, vars, Step, Wait, Other, CrossrefNext, ScopusNext, PubMedNext

\* No import changes the source.
LEMMA SameSource ==
    ASSUME [Next]_vars
    PROVE  source' = source
  <1>1. CASE CrossrefNext
    BY <1>1 DEF CrossrefNext, CrossrefStep, BeginCrossref, TakeArticle, FetchCount,
       AskLax, AllCounted, StoreCount, CrossrefEnds, CrossrefFails, SkipArticle,
       VersionIsBad, AfterVersion, KeepCount, Begin, Goto, GiveUp, Insert, importVars
  <1>2. CASE ScopusNext
    BY <1>2 DEF ScopusNext, ScopusStep, BeginScopus, FirstPage, NextPage, AllFound,
       StorePage, ScopusEnds, ScopusFails, Tomorrow, PageFound, SkipPage,
       HttpErrorEnds, Begin, Goto, GiveUp, Insert, importVars
  <1>3. CASE PubMedNext
    BY <1>3 DEF PubMedNext, PubMedStep, BeginPubMed, KnownId, LookUpId, Take,
       FetchLinks, ReadLinks, PageRead, PubMedEnds, PubMedFails, LoadCsv,
       Begin, Goto, GiveUp, Insert, importVars
  <1> QED
    BY <1>1, <1>2, <1>3, OneSource DEF importVars

\* The stages of the imports that fetch everything first.
StageInv ==
    /\ source = "crossref" =>
          stage \in {"next", "fetch", "versions", "store"} \cup Stopped
    /\ source = "scopus" => stage \in {"first", "search", "store"} \cup Stopped

EarlyInv == StageInv /\ NothingStoredEarly /\ LockIsFree

LEMMA EarlyStep ==
    ASSUME EarlyInv, [Next]_vars
    PROVE  EarlyInv'
  <1> USE DEF EarlyInv
  <1>1. CASE UNCHANGED <<importVars, crossrefVars, scopusVars, pubmedVars>>
    BY <1>1 DEF importVars, scopusVars, StageInv, NothingStoredEarly, LockIsFree
  <1>2. CASE source = "crossref" /\ CrossrefNext /\ UNCHANGED <<scopusVars, pubmedVars>>
    <2>1. source' = "crossref" /\ stage \in {"next", "fetch", "versions", "store"} \cup Stopped
      BY <1>2, SameSource DEF StageInv
    <2>2. StageInv' /\ NothingStoredEarly'
      <3>1. CASE BeginCrossref
        BY <3>1, <2>1 DEF BeginCrossref, Begin, StageInv, NothingStoredEarly, Stopped
      <3>2. CASE CrossrefFails
        BY <3>2, <2>1, <1>2 DEF CrossrefFails, GiveUp, Goto, StageInv, NothingStoredEarly, Stopped
      <3>3. CASE AskLax
        BY <3>3, <2>1, <1>2 DEF AskLax, AfterVersion, KeepCount, Goto, StageInv,
           NothingStoredEarly, Stopped
      <3>4. CASE FetchCount
        BY <3>4, <2>1, <1>2 DEF FetchCount, SkipArticle, AfterVersion, KeepCount, Goto, StageInv,
           NothingStoredEarly, Stopped
      <3>5. CASE VersionIsBad \/ AllCounted \/ CrossrefEnds
        BY <3>5, <2>1, <1>2 DEF VersionIsBad, AllCounted, CrossrefEnds, Goto, StageInv,
           NothingStoredEarly, Stopped
      <3>6. ASSUME NEW a \in Articles, TakeArticle(a) \/ StoreCount(a)
            PROVE  StageInv' /\ NothingStoredEarly'
        BY <3>6, <2>1, <1>2 DEF TakeArticle, StoreCount, Goto, StageInv,
           NothingStoredEarly, Stopped
      <3> QED
        BY <1>2, <3>1, <3>2, <3>3, <3>4, <3>5, <3>6 DEF CrossrefNext, CrossrefStep
    <2>3. LockIsFree'
      <3>1. stage' \notin {"first", "search"}
        BY <2>1, <2>2 DEF StageInv, Stopped
      <3> QED
        BY <3>1 DEF LockIsFree
    <2> QED
      BY <2>2, <2>3
  <1>3. CASE source = "scopus" /\ ScopusNext /\ UNCHANGED <<crossrefVars, pubmedVars>>
    <2>1. source' = "scopus" /\ stage \in {"first", "search", "store"} \cup Stopped
      BY <1>3, SameSource DEF StageInv
    <2>2. CASE BeginScopus
      BY <2>1, <2>2 DEF BeginScopus, Begin, StageInv, NothingStoredEarly, LockIsFree, Stopped
    <2>3. CASE FirstPage
      <3>1. /\ stage' \in {"search", "failed"} /\ UNCHANGED <<citation, before>>
            /\ stage = "first"
            /\ stage' = "search" => held' = FALSE
        BY <2>3 DEF FirstPage, FetchPage, Goto
      <3> QED
        BY <2>1, <3>1, <1>3 DEF StageInv, NothingStoredEarly, LockIsFree, Stopped
    <2>4. CASE NextPage
      <3>1. /\ stage' \in {"search", "store", "failed"} /\ UNCHANGED <<citation, before>>
            /\ stage = "search" /\ stage' = "search" => held' = FALSE
        BY <2>4 DEF NextPage, FetchPage, PageFound, SkipPage, HttpErrorEnds, Goto
      <3>2. stage = "search"
        BY <2>4 DEF NextPage
      <3> QED
        BY <2>1, <3>1, <3>2, <1>3 DEF StageInv, NothingStoredEarly, LockIsFree, Stopped
    <2>5. CASE AllFound
      BY <2>1, <2>5 DEF AllFound, Goto, StageInv, NothingStoredEarly, LockIsFree, Stopped
    <2>6. CASE StorePage
      <3>1. stage = "store" /\ stage' = "store"
        BY <2>6 DEF StorePage, importVars
      <3> QED
        BY <2>1, <3>1 DEF StageInv, NothingStoredEarly, LockIsFree, Stopped
    <2>7. CASE ScopusEnds \/ ScopusFails
      BY <2>1, <2>7, <1>3 DEF ScopusEnds, ScopusFails, GiveUp, Goto, StageInv,
         NothingStoredEarly, LockIsFree, Stopped, scopusVars
    <2>8. CASE Tomorrow
      BY <2>1, <2>8 DEF Tomorrow, StageInv, NothingStoredEarly, LockIsFree, Stopped
    <2> QED
      BY <1>3, <2>2, <2>3, <2>4, <2>5, <2>6, <2>7, <2>8 DEF ScopusNext, ScopusStep
  <1>4. CASE source = "pubmed" /\ PubMedNext /\ UNCHANGED <<crossrefVars, scopusVars>>
    <2>1. source' = "pubmed"
      BY <1>4, SameSource
    <2>2. stage' \notin {"first", "search"} \/ UNCHANGED <<stage, held>>
      BY <1>4 DEF PubMedNext, PubMedStep, BeginPubMed, KnownId, LookUpId, Take,
         FetchLinks, ReadLinks, PageRead, PubMedEnds, PubMedFails, LoadCsv,
         Begin, Goto, GiveUp, Insert, importVars, scopusVars
    <2> QED
      BY <2>1, <2>2 DEF StageInv, NothingStoredEarly, LockIsFree
  <1> QED
    BY <1>1, <1>2, <1>3, <1>4, OneSource

LEMMA EarlyInvariance == Spec => []EarlyInv
  <1>1. Init => EarlyInv
    BY DEF Init, ImportInit, EarlyInv, StageInv, NothingStoredEarly, LockIsFree, Stopped
  <1> QED
    BY <1>1, EarlyStep, PTL DEF Spec

\* An import of Crossref's or Scopus' citations that fails while it fetches
\* has changed nothing, even if results were fetched before
\* (NothingStoredEarly).
THEOREM NothingIsStoredEarly == Spec => []NothingStoredEarly
  <1>1. EarlyInv => NothingStoredEarly
    BY DEF EarlyInv
  <1> QED
    BY <1>1, EarlyInvariance, PTL

\* No page of Scopus' waits for a lock that an exception left taken
\* (LockIsFree).
THEOREM LockIsAlwaysFree == Spec => []LockIsFree
  <1>1. EarlyInv => LockIsFree
    BY DEF EarlyInv
  <1> QED
    BY <1>1, EarlyInvariance, PTL

(***************************************************************************)
(* The numbers that Scopus' import leaves behind are current.              *)
(***************************************************************************)

\* The results on the page that begins at offset o.
LEMMA PageEntries ==
    ASSUME NEW L \in Listings, NEW o \in Offsets
    PROVE  /\ Len(L) \in Nat
           /\ PageOf(L, o).total = Len(L)
           /\ Len(PageOf(L, o).entries) \in Nat
           /\ \A k \in 1..Len(PageOf(L, o).entries) :
                 /\ o + k \in 1..Len(L) /\ k <= PerPage
                 /\ PageOf(L, o).entries[k] = L[o + k]
           /\ \A i \in 1..Len(L) : o < i /\ i <= o + PerPage =>
                 i - o \in 1..Len(PageOf(L, o).entries)
  <1> DEFINE m == Min2(o + PerPage, Len(L))
             E == SubSeq(L, o + 1, m)
  <1>1. /\ L \in Seq({L[i] : i \in 1..Len(L)}) /\ Len(L) \in Nat
        /\ o \in Nat /\ PerPage \in Nat \ {0}
    BY ListingAssumption, ScopusAssumption, LenProperties DEF Offsets
  <1>2. m \in Nat /\ m <= Len(L) /\ m <= o + PerPage
        /\ (m = Len(L) \/ m = o + PerPage)
    BY <1>1 DEF Min2
  <1> HIDE DEF m
  <1>3. \A i \in o + 1..m : L[i] \in {L[j] : j \in 1..Len(L)}
    BY <1>1, <1>2
  <1>4. /\ Len(E) = IF o + 1 <= m THEN m - (o + 1) + 1 ELSE 0
        /\ \A k \in 1..m - (o + 1) + 1 : E[k] = L[o + 1 + k - 1]
    <2> HIDE DEF E
    <2>1. o + 1 \in Int /\ m \in Int
      BY <1>1, <1>2
    <2> QED
      BY <1>3, <2>1, SubSeqProperties DEF E
  <1> HIDE DEF E
  <1>5. Len(E) \in Nat /\ \A k \in 1..Len(E) :
            o + k \in 1..Len(L) /\ k <= PerPage /\ E[k] = L[o + k]
    BY <1>1, <1>2, <1>4
  <1>6. \A i \in 1..Len(L) : o < i /\ i <= o + PerPage => i - o \in 1..Len(E)
    BY <1>1, <1>2, <1>4
  <1> QED
    BY <1>1, <1>5, <1>6 DEF PageOf, E, m

\* If the page that begins at offset p begins with a number of zero, every
\* article that is cited is listed before it.
LEMMA CitedEndsBefore ==
    ASSUME PagesInv, NEW p \in Offsets, CitedEnd(PageAt(p)),
           NEW i \in 1..Len(listing), listing[i].num \notin {0, NoCount}
    PROVE  i <= p
  <1> DEFINE P == PageAt(p)
             n == Len(P.entries)
  <1>1. /\ listing \in Listings /\ p \in Nat /\ PerPage \in Nat \ {0}
        /\ Len(listing) \in Nat
    BY ScopusAssumption, PageEntries DEF PagesInv, Offsets
  <1>2. /\ n \in Nat
        /\ \A j \in 1..n : /\ p + j \in 1..Len(listing) /\ j <= PerPage
                           /\ P.entries[j] = listing[p + j]
        /\ \A j \in 1..Len(listing) : p < j /\ j <= p + PerPage => j - p \in 1..n
    BY <1>1, PageEntries DEF PageAt
  <1>3. PICK k \in 1..n : /\ P.entries[k].num = 0
                          /\ P.entries[k].num # NoCount
                          /\ \A j \in 1..n : P.entries[j].num # NoCount => k <= j
    BY DEF CitedEnd, Numbered
  <1> HIDE DEF n, P
  <1>4. /\ p + k \in 1..Len(listing) /\ k <= PerPage /\ k \in Nat
        /\ listing[p + k].num = 0 /\ listing[p + k].num # NoCount
    BY <1>2, <1>3
  <1>5. CASE p + k < i
    <2>1. listing[i].num <= listing[p + k].num
      BY <1>1, <1>4, <1>5, ListingAssumption
    <2>2. listing[i].num \in Nat
      BY <1>1, ListingAssumption
    <2> QED
      BY <1>4, <2>1, <2>2
  <1>6. CASE p < i /\ i < p + k
    <2>1. i \in Nat /\ i - p \in 1..n /\ i - p < k /\ p + (i - p) = i
      BY <1>1, <1>2, <1>4, <1>6
    <2>2. P.entries[i - p] = listing[i]
      BY <1>2, <2>1
    <2> QED
      BY <1>3, <2>1, <2>2
  <1>7. i # p + k
    BY <1>4
  <1> QED
    BY <1>1, <1>4, <1>5, <1>6, <1>7

\* A page that is fetched is one of some listing, and of the current one if
\* that is as old as what is cached.
LEMMA FetchedPage ==
    ASSUME PagesInv, CacheInv, page \in Offsets, NEW outcome, NEW p,
           FetchPage(outcome, p)
    PROVE  /\ listing' = listing /\ steady' = steady
           /\ DOMAIN cache' = Offsets
           /\ \A o \in Offsets : cache'[o] = NoPage \/ \E L \in Listings : cache'[o] = PageOf(L, o)
           /\ left' \in [Offsets -> 0..CacheDays]
           /\ CacheInv'
           /\ outcome = "content" =>
                 /\ \E L \in Listings : p = PageOf(L, page)
                 /\ steady = CacheDays => p = PageAt(page)
  <1>1. listing' = listing /\ steady' = steady /\ listing \in Listings
    BY DEF FetchPage, PagesInv
  <1>2. CacheDays \in Nat /\ steady \in 0..CacheDays /\ left \in [Offsets -> 0..CacheDays]
    BY ScopusAssumption DEF PagesInv
  <1>3. \A o \in Offsets : PageAt(o) = PageOf(listing, o) /\ PageAt(o)' = PageAt(o)
    BY <1>1 DEF PageAt
  <1>4. CASE /\ cache[page] # NoPage /\ outcome = "content"
             /\ p = cache[page] /\ UNCHANGED <<cache, left>>
    <2>1. CacheInv'
      BY <1>1, <1>3, <1>4 DEF CacheInv
    <2>2. steady = CacheDays => steady + left[page] >= CacheDays
      BY <1>2
    <2> QED
      BY <1>1, <1>4, <2>1, <2>2 DEF PagesInv, CacheInv
  <1>5. CASE /\ p = PageAt(page) /\ outcome = "content"
             /\ cache' = [cache EXCEPT ![page] = p]
             /\ left' = [left EXCEPT ![page] = CacheDays]
    <2>1. left' \in [Offsets -> 0..CacheDays]
      BY <1>2, <1>5
    <2>2. DOMAIN cache' = Offsets
      BY <1>5 DEF PagesInv
    <2>3. \A o \in Offsets : cache'[o] = IF o = page THEN PageAt(page) ELSE cache[o]
      BY <1>5 DEF PagesInv
    <2>4. \A o \in Offsets : o # page => left'[o] = left[o]
      BY <1>2, <1>5
    <2>5. CacheInv'
      BY <1>1, <1>3, <2>3, <2>4 DEF CacheInv
    <2> QED
      BY <1>1, <1>3, <1>5, <2>1, <2>2, <2>3, <2>5 DEF PagesInv
  <1>6. CASE outcome # "content" /\ UNCHANGED <<cache, left>>
    <2>1. CacheInv'
      BY <1>1, <1>3, <1>6 DEF CacheInv
    <2> QED
      BY <1>1, <1>6, <2>1 DEF PagesInv
  <1> QED
    BY <1>4, <1>5, <1>6 DEF FetchPage, Fetched

\* The part of the invariant that is about the cache alone.
LEMMA CacheStays ==
    ASSUME PagesInv, CacheInv, UNCHANGED <<listing, steady, cache, left>>,
           page' \in 0..MaxPages, end' \in 0..MaxPages, DOMAIN results' = Offsets
    PROVE  PagesInv' /\ CacheInv'
  BY DEF PagesInv, CacheInv, PageAt

\* Outside the search and the storing the rest holds of itself.
LEMMA NotSearching ==
    ASSUME stage \notin {"first", "search", "store", "done"}
    PROVE  FirstInv /\ SearchInv /\ EndInv /\ StoreInv /\ CitedAreCurrent
  BY DEF FirstInv, SearchInv, EndInv, StoreInv, CitedAreCurrent

LEMMA FirstPageStep ==
    ASSUME ScopusInv, source = "scopus", FirstPage
    PROVE  ScopusInv'
  <1>1. PICK outcome \in Outcomes({}), p \in {PageAt(0), cache[0]} :
            /\ FetchPage(outcome, p)
            /\ IF outcome = "content"
               THEN /\ results' = [results EXCEPT ![0] = p]
                    /\ end' = Min2(p.total, MaxPages)
                    /\ page' = 1
                    /\ Goto("search")
                    /\ UNCHANGED skipped
               ELSE Goto("failed") /\ UNCHANGED searchVars
    BY DEF FirstPage
  <1>2. source' = "scopus" /\ page = 0 /\ page \in Offsets /\ results = NoPages
    BY <1>1, ScopusAssumption DEF Goto, ScopusInv, FirstInv, FirstPage, Offsets
  <1>3. /\ listing' = listing /\ steady' = steady
        /\ DOMAIN cache' = Offsets
        /\ \A o \in Offsets : cache'[o] = NoPage \/ \E L \in Listings : cache'[o] = PageOf(L, o)
        /\ left' \in [Offsets -> 0..CacheDays]
        /\ CacheInv'
        /\ outcome = "content" =>
              /\ \E L \in Listings : p = PageOf(L, page)
              /\ steady = CacheDays => p = PageAt(page)
    BY <1>1, <1>2, FetchedPage DEF ScopusInv
  <1>4. CASE outcome # "content"
    <2>1. stage' = "failed" /\ UNCHANGED <<page, end, results>>
      BY <1>1, <1>4 DEF Goto, searchVars
    <2>2. FirstInv' /\ SearchInv' /\ EndInv' /\ StoreInv' /\ CitedAreCurrent'
      BY <2>1 DEF FirstInv, SearchInv, EndInv, StoreInv, CitedAreCurrent
    <2>3. PagesInv'
      BY <1>3, <2>1 DEF ScopusInv, PagesInv
    <2> QED
      BY <1>3, <2>2, <2>3 DEF ScopusInv
  <1>5. CASE outcome = "content"
    <2>1. /\ results' = [results EXCEPT ![0] = p] /\ page' = 1
          /\ end' = Min2(p.total, MaxPages) /\ stage' = "search"
      BY <1>1, <1>5 DEF Goto
    <2>2. p.total \in Nat
      BY <1>2, <1>3, <1>5, PageEntries
    <2>3. PagesInv'
      <3>1. end' \in 0..MaxPages /\ page' \in 0..MaxPages
        BY <2>1, <2>2, ScopusAssumption DEF Min2
      <3>2. DOMAIN results' = Offsets
        BY <2>1 DEF ScopusInv, PagesInv
      <3> QED
        BY <1>3, <3>1, <3>2 DEF ScopusInv, PagesInv
    <2>4. Steady' => steady = CacheDays /\ p = PageAt(0) /\ p.total = Len(listing)
      <3>1. p = PageAt(0) => p.total = Len(listing)
        BY DEF PageAt, PageOf
      <3> QED
        BY <1>2, <1>3, <1>5, <3>1 DEF Steady
    <2>5. \A o \in Offsets : results'[o] = IF o = 0 THEN p ELSE NoPage
      BY <1>2, <2>1 DEF NoPages
    <2>6. \A o \in Offsets : PageAt(o)' = PageAt(o) /\ PageAt(o) # NoPage
      BY <1>3, ScopusAssumption DEF PageAt, ScopusInv, PagesInv
    <2>7. SearchInv'
      <3>1. \A o \in Offsets : o < 1 => o = 0
        BY DEF Offsets
      <3> QED
        BY <2>1, <2>4, <2>5, <2>6, <3>1 DEF SearchInv
    <2>8. EndInv'
      BY <1>3, <2>1, <2>4 DEF EndInv
    <2>9. FirstInv' /\ StoreInv' /\ CitedAreCurrent'
      BY <2>1 DEF FirstInv, StoreInv, CitedAreCurrent
    <2> QED
      BY <1>3, <2>3, <2>7, <2>8, <2>9 DEF ScopusInv
  <1> QED
    BY <1>4, <1>5

\* The pages that show a result are offsets before it.
LEMMA PagesBefore ==
    ASSUME PagesInv, NEW i \in 1..Len(listing), NEW o \in PagesWith(i)
    PROVE  /\ o \in Offsets /\ o < i /\ i <= o + PerPage
           /\ o < Min2(Len(listing), MaxPages)
  <1>1. Len(listing) \in Nat /\ MaxPages \in Nat \ {0}
    BY ListingAssumption, ScopusAssumption, LenProperties DEF PagesInv
  <1>2. Min2(Len(listing), MaxPages) \in Nat /\ Min2(Len(listing), MaxPages) <= MaxPages
    BY <1>1 DEF Min2
  <1>3. o \in 0..Min2(Len(listing), MaxPages) - 1 /\ o < i /\ i <= o + PerPage
    BY DEF PagesWith
  <1> QED
    BY <1>1, <1>2, <1>3 DEF Offsets

\* When the search ends, what it has not found was skipped.
LEMMA SearchEnds ==
    ASSUME ScopusInv, source = "scopus", stage = "search",
           UNCHANGED <<source, listing, steady>>, stage' = "store", page' = 0,
           DOMAIN results' = Offsets,
           \A o \in Offsets : results'[o] = results[o] \/ o = page,
           Steady => results'[page] \in {NoPage, PageAt(page)} \/ page \notin Offsets,
           skipped \subseteq skipped',
           \A i \in 1..Len(listing) : \A o \in PagesWith(i) :
               Steady /\ listing[i].num \notin {0, NoCount} /\ ~(o < page)
                   => o \in skipped'
    PROVE  FirstInv' /\ SearchInv' /\ EndInv' /\ StoreInv' /\ CitedAreCurrent'
  <1>1. \A o \in Offsets : PageAt(o)' = PageAt(o)
    BY DEF PageAt
  <1>2. Steady' = Steady /\ \A i : PagesWith(i)' = PagesWith(i)
    BY DEF Steady, PagesWith
  <1>3. page \in Nat
    BY ScopusAssumption DEF ScopusInv, PagesInv
  <1>4. SearchInv'
    BY <1>1, <1>2 DEF ScopusInv, SearchInv
  <1>5. ASSUME Steady, NEW i \in 1..Len(listing), listing[i].num \notin {0, NoCount}
        PROVE  \/ PagesWith(i) \subseteq skipped'
               \/ \E o \in PagesWith(i) : results'[o] # NoPage
    <2> SUFFICES ASSUME NEW o \in PagesWith(i), o \notin skipped'
                 PROVE  results'[o] # NoPage
      OBVIOUS
    <2>1. o \in Offsets /\ o < page
      BY <1>5, PagesBefore DEF ScopusInv
    <2>2. results[o] # NoPage
      BY <1>5, <2>1 DEF ScopusInv, SearchInv
    <2>3. o # page
      BY <2>1, <1>3
    <2> QED
      BY <2>1, <2>2, <2>3
  <1>6. \A i \in 1..Len(listing) : \A o \in PagesWith(i) : ~(o < 0)
    BY PagesBefore DEF ScopusInv, Offsets
  <1>7. StoreInv'
    BY <1>2, <1>5, <1>6 DEF StoreInv, Cites
  <1> QED
    BY <1>4, <1>7 DEF FirstInv, EndInv, CitedAreCurrent

LEMMA NextPageStep ==
    ASSUME ScopusInv, source = "scopus", NextPage
    PROVE  ScopusInv'
  <1>1. PICK outcome \in Outcomes({}), p \in {PageAt(page), cache[page]} :
            /\ FetchPage(outcome, p)
            /\ \/ /\ outcome = "content"
                  /\ PageFound(p)
               \/ /\ outcome = "RetryError"
                  /\ SkipPage
               \/ /\ outcome = "HTTPError"
                  /\ HttpErrorEnds
               \/ /\ outcome = "ConnectionError"
                  /\ Goto("failed")
                  /\ UNCHANGED <<page, results, skipped>>
    BY DEF NextPage
  <1>2. /\ stage = "search" /\ page < end /\ end' = end
        /\ end \in 0..MaxPages /\ page \in 0..MaxPages /\ MaxPages \in Nat \ {0}
        /\ DOMAIN results = Offsets
    BY ScopusAssumption DEF NextPage, ScopusInv, PagesInv
  <1>3. page \in Offsets /\ page \in Nat /\ page + 1 \in 0..MaxPages /\ 0 \in 0..MaxPages
    BY <1>2 DEF Offsets
  <1>4. source' = "scopus"
    BY <1>1 DEF PageFound, SkipPage, HttpErrorEnds, Goto
  <1>5. /\ listing' = listing /\ steady' = steady
        /\ DOMAIN cache' = Offsets
        /\ \A o \in Offsets : cache'[o] = NoPage \/ \E L \in Listings : cache'[o] = PageOf(L, o)
        /\ left' \in [Offsets -> 0..CacheDays]
        /\ CacheInv'
        /\ outcome = "content" =>
              /\ \E L \in Listings : p = PageOf(L, page)
              /\ steady = CacheDays => p = PageAt(page)
    BY <1>1, <1>3, FetchedPage DEF ScopusInv
  <1>6. /\ page' \in {0, page, page + 1}
        /\ results' = results \/ results' = [results EXCEPT ![page] = p]
    BY <1>1 DEF PageFound, SkipPage, HttpErrorEnds
  <1>7. PagesInv'
    <2>1. page' \in 0..MaxPages /\ end' \in 0..MaxPages
      BY <1>2, <1>3, <1>6
    <2>2. DOMAIN results' = Offsets
      BY <1>2, <1>6
    <2> QED
      BY <1>5, <2>1, <2>2 DEF ScopusInv, PagesInv
  <1>8. \A o \in Offsets : /\ PageAt(o)' = PageAt(o) /\ PageAt(o) # NoPage
    BY <1>5, ScopusAssumption DEF PageAt, ScopusInv, PagesInv
  <1>9. Steady' = Steady
    BY <1>4, <1>5 DEF Steady, NextPage
  \* On to the next page, whether this one was found or skipped.
  <1>10. ASSUME stage' = "search", page' = page + 1, skipped \subseteq skipped',
                \/ results' = [results EXCEPT ![page] = p] /\ outcome = "content"
                \/ results' = results /\ page \in skipped'
         PROVE  ScopusInv'
    <2>1. ASSUME Steady, NEW o \in Offsets
          PROVE  /\ results'[o] \in {NoPage, PageAt(o)}
                 /\ o < page + 1 => results'[o] # NoPage \/ o \in skipped'
      <3>1. /\ results[o] \in {NoPage, PageAt(o)}
            /\ o < page => results[o] # NoPage \/ o \in skipped
        BY <1>2, <2>1 DEF ScopusInv, SearchInv
      <3>2. o \in Nat /\ (o < page + 1 => o < page \/ o = page)
        BY <1>3 DEF Offsets
      <3>3. outcome = "content" => p = PageAt(page) /\ p # NoPage
        BY <1>3, <1>5, <1>8, <2>1 DEF Steady
      <3> QED
        BY <1>2, <1>3, <1>10, <3>1, <3>2, <3>3
    <2>2. SearchInv'
      BY <1>8, <1>9, <1>10, <2>1 DEF SearchInv
    <2>3. EndInv'
      BY <1>2, <1>5, <1>9, <1>10 DEF EndInv, ScopusInv
    <2>4. FirstInv' /\ StoreInv' /\ CitedAreCurrent'
      BY <1>10 DEF FirstInv, StoreInv, CitedAreCurrent
    <2> QED
      BY <1>5, <1>7, <2>2, <2>3, <2>4 DEF ScopusInv
  <1>11. CASE stage' = "failed"
    <2>1. FirstInv' /\ SearchInv' /\ EndInv' /\ StoreInv' /\ CitedAreCurrent'
      BY <1>11 DEF FirstInv, SearchInv, EndInv, StoreInv, CitedAreCurrent
    <2> QED
      BY <1>5, <1>7, <2>1 DEF ScopusInv
  <1>12. CASE outcome = "content" /\ PageFound(p) /\ CitedEnd(p)
    <2>1. /\ stage' = "store" /\ page' = 0 /\ skipped' = skipped
          /\ results' = [results EXCEPT ![page] = p]
      BY <1>12 DEF PageFound, Goto
    <2>2. Steady => p = PageAt(page)
      BY <1>5, <1>12 DEF Steady
    <2>3. DOMAIN results' = Offsets /\ results'[page] = p
          /\ \A o \in Offsets : results'[o] = results[o] \/ o = page
      BY <1>2, <1>3, <2>1
    <2>4. ASSUME NEW i \in 1..Len(listing), NEW o \in PagesWith(i),
                 Steady, listing[i].num \notin {0, NoCount}, ~(o < page)
          PROVE  FALSE
      <3>1. i <= page
        BY <1>3, <1>12, <2>2, <2>4, CitedEndsBefore DEF ScopusInv
      <3>2. o \in Offsets /\ o < i
        BY PagesBefore DEF ScopusInv
      <3> QED
        BY <1>3, <2>4, <3>1, <3>2 DEF Offsets
    <2>5. FirstInv' /\ SearchInv' /\ EndInv' /\ StoreInv' /\ CitedAreCurrent'
      BY <1>2, <1>4, <1>5, <2>1, <2>2, <2>3, <2>4, SearchEnds
    <2> QED
      BY <1>5, <1>7, <2>5 DEF ScopusInv
  <1>13. CASE HttpErrorEnds
    <2>1. /\ stage' = "store" /\ page' = 0 /\ results' = results
          /\ skipped' = skipped \cup page..end - 1
      BY <1>13 DEF HttpErrorEnds, Goto
    <2>2. Steady => results'[page] \in {NoPage, PageAt(page)}
      BY <1>2, <1>3, <2>1 DEF ScopusInv, SearchInv
    <2>3. ASSUME NEW i \in 1..Len(listing), NEW o \in PagesWith(i),
                 Steady, ~(o < page)
          PROVE  o \in skipped'
      <3>1. o \in Offsets /\ o < end
        BY <1>2, <2>3, PagesBefore DEF ScopusInv, EndInv
      <3>2. o \in page..end - 1
        BY <1>2, <1>3, <2>3, <3>1 DEF Offsets
      <3> QED
        BY <2>1, <3>2
    <2>4. FirstInv' /\ SearchInv' /\ EndInv' /\ StoreInv' /\ CitedAreCurrent'
      BY <1>2, <1>4, <1>5, <2>1, <2>2, <2>3, SearchEnds
    <2> QED
      BY <1>5, <1>7, <2>4 DEF ScopusInv
  <1> QED
    BY <1>1, <1>10, <1>11, <1>12, <1>13 DEF PageFound, SkipPage, HttpErrorEnds, Goto

LEMMA AllFoundStep ==
    ASSUME ScopusInv, source = "scopus", AllFound
    PROVE  ScopusInv'
  <1>1. /\ stage = "search" /\ page >= end /\ stage' = "store" /\ page' = 0
        /\ UNCHANGED <<source, listing, steady, cache, left, end, results, skipped>>
    BY DEF AllFound, Goto
  <1>2. page \in Nat /\ end \in Nat /\ MaxPages \in Nat
    BY ScopusAssumption DEF ScopusInv, PagesInv
  <1>3. PagesInv' /\ CacheInv'
    BY <1>1, <1>2, CacheStays DEF ScopusInv, PagesInv
  <1>4. DOMAIN results' = Offsets
    BY <1>1 DEF ScopusInv, PagesInv
  <1>5. Steady => results'[page] \in {NoPage, PageAt(page)} \/ page \notin Offsets
    BY <1>1 DEF ScopusInv, SearchInv
  <1>6. ASSUME NEW i \in 1..Len(listing), NEW o \in PagesWith(i), Steady
        PROVE  o < page
    <2>1. o \in Offsets /\ o < end
      BY <1>1, <1>6, PagesBefore DEF ScopusInv, EndInv
    <2> QED
      BY <1>1, <1>2, <2>1 DEF Offsets
  <1>7. FirstInv' /\ SearchInv' /\ EndInv' /\ StoreInv' /\ CitedAreCurrent'
    BY <1>1, <1>4, <1>5, <1>6, SearchEnds
  <1> QED
    BY <1>3, <1>7 DEF ScopusInv

\* The numbers of a page of the listing: an article's is the one it is listed
\* with, and there is one for every article that is.
LEMMA NumbersOfPage ==
    ASSUME PagesInv, NEW o \in Offsets, NEW i \in 1..Len(listing), Cites(i)
    PROVE  LET N == NumbersOf(PageAt(o))
           IN  /\ listing[i].art \in DOMAIN N =>
                     N[listing[i].art] = listing[i].num
               /\ o < i /\ i <= o + PerPage => listing[i].art \in DOMAIN N
  <1> DEFINE P == PageAt(o)
             N == NumbersOf(P)
             a == listing[i].art
             n == Len(P.entries)
  <1>1. listing \in Listings /\ Len(listing) \in Nat /\ o \in Nat
    BY ListingAssumption, LenProperties DEF PagesInv, Offsets
  <1>2. /\ n \in Nat
        /\ \A k \in 1..n : /\ o + k \in 1..Len(listing)
                           /\ P.entries[k] = listing[o + k]
        /\ o < i /\ i <= o + PerPage => i - o \in 1..n
    BY <1>1, PageEntries DEF PageAt
  <1>3. Good(P) = {k \in 1..n : P.entries[k].num # NoCount /\ P.entries[k].art \in Articles}
    BY DEF Good, Numbered
  <1>4. /\ DOMAIN N = {P.entries[k].art : k \in Good(P)}
        /\ a \in DOMAIN N =>
              N[a] = P.entries[CHOOSE k \in Good(P) : P.entries[k].art = a].num
    BY DEF NumbersOf
  <1> HIDE DEF n, N, P
  <1>5. \A k \in Good(P) : P.entries[k].art = a => o + k = i
    <2> SUFFICES ASSUME NEW k \in Good(P), P.entries[k].art = a PROVE o + k = i
      OBVIOUS
    <2>1. k \in 1..n /\ o + k \in 1..Len(listing) /\ listing[o + k].art = a
      BY <1>2, <1>3
    <2>2. i \in 1..Len(listing) /\ a \in Articles
      BY DEF Cites
    <2>3. ~(o + k < i) /\ ~(i < o + k)
      BY <1>1, <2>1, <2>2, ListingAssumption
    <2> QED
      BY <1>1, <1>2, <2>1, <2>2, <2>3
  <1>6. ASSUME a \in DOMAIN N PROVE N[a] = listing[i].num
    <2> DEFINE c == CHOOSE k \in Good(P) : P.entries[k].art = a
    <2>1. c \in Good(P) /\ P.entries[c].art = a
      BY <1>4, <1>6
    <2>2. o + c = i /\ c \in 1..n
      BY <1>3, <1>5, <2>1
    <2>3. P.entries[c] = listing[i]
      BY <1>2, <2>2
    <2> QED
      BY <1>4, <1>6, <2>3
  <1>7. ASSUME o < i, i <= o + PerPage PROVE a \in DOMAIN N
    <2>1. i - o \in 1..n /\ o + (i - o) = i
      BY <1>1, <1>2, <1>7
    <2>2. P.entries[i - o] = listing[i]
      BY <1>2, <2>1
    <2>3. i - o \in Good(P)
      BY <1>3, <2>1, <2>2 DEF Cites
    <2> QED
      BY <1>4, <2>2, <2>3
  <1> QED
    BY <1>6, <1>7 DEF N, P

LEMMA StorePageStep ==
    ASSUME ScopusInv, source = "scopus", StorePage
    PROVE  ScopusInv'
  <1>1. /\ stage = "store" /\ stage' = "store" /\ source' = source
        /\ page < MaxPages /\ page' = page + 1
        /\ UNCHANGED <<listing, steady, cache, left, end, results, skipped>>
    BY DEF StorePage, importVars, Insert
  <1>2. page \in Offsets /\ page \in Nat /\ page' \in 0..MaxPages
    BY <1>1, ScopusAssumption DEF ScopusInv, PagesInv, Offsets
  <1>3. PagesInv' /\ CacheInv'
    BY <1>1, <1>2, CacheStays DEF ScopusInv, PagesInv
  <1>4. SearchInv'
    BY <1>1 DEF ScopusInv, SearchInv, Steady, PageAt
  <1>5. StoreInv'
    <2> SUFFICES ASSUME Steady, NEW i \in 1..Len(listing), NEW o \in PagesWith(i),
                        Cites(i), o < page + 1, results[o] # NoPage
                 PROVE  citation'[listing[i].art] = listing[i].num
      BY <1>1 DEF ScopusInv, StoreInv, Steady, PagesWith, Cites
    <2> DEFINE a == listing[i].art
               N == NumbersOf(PageAt(page))
    <2>1. a \in Articles
      BY DEF Cites
    <2>2. o \in Offsets /\ o < i /\ i <= o + PerPage /\ (o < page \/ o = page)
      BY <1>2, PagesBefore DEF ScopusInv, Offsets
    <2>3. o < page => citation[a] = listing[i].num
      BY <1>1 DEF ScopusInv, StoreInv
    <2>4. CASE results[page] = NoPage
      <3>1. citation' = citation
        BY <2>4 DEF StorePage, importVars
      <3> QED
        BY <2>2, <2>3, <2>4, <3>1
    <2>5. CASE results[page] # NoPage
      <3>1. results[page] = PageAt(page)
        BY <1>1, <1>2, <2>5 DEF ScopusInv, SearchInv
      <3>2. citation' = [x \in Articles |-> IF x \in DOMAIN N THEN N[x] ELSE citation[x]]
        BY <2>5, <3>1 DEF StorePage, Insert
      <3>3. /\ a \in DOMAIN N => N[a] = listing[i].num
            /\ o = page => a \in DOMAIN N
        BY <1>2, <2>2, NumbersOfPage DEF ScopusInv
      <3> HIDE DEF N
      <3> QED
        BY <2>1, <2>2, <2>3, <3>2, <3>3
    <2> QED
      BY <2>4, <2>5
  <1>6. FirstInv' /\ EndInv' /\ CitedAreCurrent'
    BY <1>1 DEF FirstInv, EndInv, CitedAreCurrent
  <1> QED
    BY <1>3, <1>4, <1>5, <1>6 DEF ScopusInv

LEMMA ScopusEndsStep ==
    ASSUME ScopusInv, source = "scopus", ScopusEnds
    PROVE  ScopusInv'
  <1>1. /\ stage = "store" /\ page = MaxPages /\ stage' = "done"
        /\ UNCHANGED <<source, citation, listing, steady, cache, left, page, end,
                       results, skipped>>
    BY DEF ScopusEnds, Goto, scopusVars, searchVars
  <1>2. PagesInv' /\ CacheInv'
    BY <1>1, CacheStays DEF ScopusInv, PagesInv
  <1>3. CitedAreCurrent'
    <2> SUFFICES ASSUME Steady, NEW i \in 1..Len(listing), listing[i].art \in Articles,
                        listing[i].num \notin {0, NoCount}, ~(PagesWith(i) \subseteq skipped)
                 PROVE  citation[listing[i].art] = listing[i].num
      BY <1>1 DEF CitedAreCurrent, Steady, PagesWith
    <2>1. PICK o \in PagesWith(i) : results[o] # NoPage
      BY <1>1 DEF ScopusInv, StoreInv
    <2>2. o \in Offsets /\ o < page
      BY <1>1, PagesBefore, ScopusAssumption DEF ScopusInv, Offsets
    <2> QED
      BY <1>1, <2>1, <2>2 DEF ScopusInv, StoreInv, Cites
  <1>4. FirstInv' /\ SearchInv' /\ EndInv' /\ StoreInv'
    BY <1>1 DEF FirstInv, SearchInv, EndInv, StoreInv
  <1> QED
    BY <1>2, <1>3, <1>4 DEF ScopusInv

\* A day passes: a page that was as new as a listing that has changed since is
\* older than it, or has expired.
LEMMA TomorrowStep ==
    ASSUME ScopusInv, Tomorrow
    PROVE  ScopusInv'
  <1>1. /\ CacheDays \in Nat /\ steady \in 0..CacheDays /\ listing' \in Listings
        /\ left \in [Offsets -> 0..CacheDays]
        /\ UNCHANGED <<page, end, results>> /\ stage' = "idle"
    BY ScopusAssumption DEF ScopusInv, PagesInv, Tomorrow, searchVars
  <1>2. /\ steady' \in 0..CacheDays
        /\ listing' # listing => steady' = 0
        /\ listing' = listing => steady' = steady + 1 \/ steady = CacheDays
    BY <1>1 DEF Tomorrow, Min2
  <1>3. \A o \in Offsets :
            /\ cache'[o] = IF left[o] = 0 THEN NoPage ELSE cache[o]
            /\ left'[o] = IF left[o] = 0 THEN 0 ELSE left[o] - 1
            /\ left'[o] \in 0..CacheDays
    BY <1>1 DEF Tomorrow
  <1>4. PagesInv'
    <2>1. left' \in [Offsets -> 0..CacheDays] /\ DOMAIN cache' = Offsets
      BY <1>3 DEF Tomorrow
    <2> QED
      BY <1>1, <1>2, <1>3, <2>1 DEF ScopusInv, PagesInv
  <1>5. CacheInv'
    <2> SUFFICES ASSUME NEW o \in Offsets, cache'[o] # NoPage,
                        steady' + left'[o] >= CacheDays
                 PROVE  cache'[o] = PageOf(listing', o)
      BY DEF CacheInv, PageAt
    <2>1. /\ left[o] \in 1..CacheDays /\ left'[o] = left[o] - 1
          /\ cache'[o] = cache[o] /\ cache[o] # NoPage
      BY <1>1, <1>3
    <2>2. listing' = listing
      BY <1>1, <1>2, <2>1
    <2>3. steady + left[o] >= CacheDays
      BY <1>1, <1>2, <2>1, <2>2
    <2> QED
      BY <2>1, <2>2, <2>3 DEF ScopusInv, CacheInv, PageAt
  <1>6. FirstInv' /\ SearchInv' /\ EndInv' /\ StoreInv' /\ CitedAreCurrent'
    BY <1>1 DEF FirstInv, SearchInv, EndInv, StoreInv, CitedAreCurrent
  <1> QED
    BY <1>4, <1>5, <1>6 DEF ScopusInv

LEMMA BeginScopusStep ==
    ASSUME ScopusInv, BeginScopus
    PROVE  ScopusInv'
  <1>1. /\ stage' = "first" /\ page' = 0 /\ end' = 0 /\ results' = NoPages
        /\ UNCHANGED <<listing, steady, cache, left>>
    BY DEF BeginScopus, Begin
  <1>2. 0 \in 0..MaxPages /\ DOMAIN NoPages = Offsets
    BY ScopusAssumption DEF NoPages
  <1>3. PagesInv' /\ CacheInv'
    BY <1>1, <1>2, CacheStays DEF ScopusInv
  <1>4. FirstInv' /\ SearchInv' /\ EndInv' /\ StoreInv' /\ CitedAreCurrent'
    BY <1>1 DEF FirstInv, SearchInv, EndInv, StoreInv, CitedAreCurrent
  <1> QED
    BY <1>3, <1>4 DEF ScopusInv

\* The steps of the other sources, and failures, leave Scopus' state alone.
LEMMA NotScopusStep ==
    ASSUME ScopusInv, UNCHANGED scopusVars, source' = source,
           \/ source # "scopus"
           \/ stage' \in {"failed", "broken"}
           \/ UNCHANGED <<stage, citation>>
    PROVE  ScopusInv'
  <1>1. UNCHANGED <<listing, steady, cache, left, page, end, results, skipped>>
    BY DEF scopusVars, searchVars
  <1>2. PagesInv' /\ CacheInv'
    BY <1>1, CacheStays DEF ScopusInv, PagesInv
  <1>3. CASE source # "scopus" \/ stage' \in {"failed", "broken"}
    BY <1>2, <1>3 DEF ScopusInv, FirstInv, SearchInv, EndInv, StoreInv,
       CitedAreCurrent, Steady
  <1>4. CASE UNCHANGED <<stage, citation>>
    BY <1>1, <1>2, <1>4 DEF ScopusInv, FirstInv, SearchInv, EndInv, StoreInv,
       CitedAreCurrent, Steady, PageAt, PagesWith, Cites
  <1> QED
    BY <1>3, <1>4

LEMMA ScopusInvariance == Spec => []ScopusInv
  <1>1. Init => ScopusInv
    <2> SUFFICES ASSUME Init PROVE ScopusInv
      OBVIOUS
    <2>1. PagesInv
      BY ScopusAssumption DEF Init, ScopusInit, PagesInv, NoPages
    <2>2. CacheInv
      BY DEF Init, ScopusInit, CacheInv, NoPages
    <2> QED
      BY <2>1, <2>2
         DEF Init, ImportInit, ScopusInv, FirstInv, SearchInv, EndInv,
             StoreInv, CitedAreCurrent
  <1>2. ScopusInv /\ [Next]_vars => ScopusInv'
    <2> SUFFICES ASSUME ScopusInv, [Next]_vars PROVE ScopusInv'
      OBVIOUS
    <2>1. CASE UNCHANGED <<importVars, crossrefVars, scopusVars, pubmedVars>>
      BY <2>1, NotScopusStep DEF importVars
    <2>2. CASE source # "scopus" /\ UNCHANGED scopusVars
      BY <2>2, SameSource, NotScopusStep
    <2>3. CASE source = "scopus" /\ ScopusNext
      <3>1. ASSUME ScopusFails PROVE ScopusInv'
        <4>1. stage' \in {"failed", "broken"} /\ UNCHANGED scopusVars
          BY <3>1 DEF ScopusFails, GiveUp, Goto
        <4> QED
          BY <4>1, SameSource, NotScopusStep
      <3> QED
        BY <2>3, <3>1, BeginScopusStep, FirstPageStep, NextPageStep, AllFoundStep,
           StorePageStep, ScopusEndsStep, TomorrowStep DEF ScopusNext, ScopusStep
    <2> QED
      BY <2>1, <2>2, <2>3, OneSource
  <1> QED
    BY <1>1, <1>2, PTL DEF Spec

\* An import of Scopus' citations that ends leaves the current number of every
\* cited article that the search reaches, but for skipped pages, whatever was
\* cached and wherever the search stopped (CitedAreCurrent).
THEOREM CitedAreAlwaysCurrent == Spec => []CitedAreCurrent
  <1>1. ScopusInv => CitedAreCurrent
    BY DEF ScopusInv
  <1> QED
    BY <1>1, ScopusInvariance, PTL

(***************************************************************************)
(* No article falls through PubMed Central's pages.                        *)
(***************************************************************************)

\* The article that is taken is on the page.
LEMMA TakeStep ==
    ASSUME PubMedInv, source = "pubmed", stage = "resolve", ~PageIsFull, Take,
           pmcid \subseteq pmcid', Order[at + 1] \in PmcIds => Order[at + 1] \in pmcid'
    PROVE  PubMedInv'
  <1>1. /\ at \in 0..Len(Order) /\ batch \in Seq(Articles) /\ Len(Order) \in Nat
        /\ Len(batch) \in Nat
    BY PubMedAssumption, LenProperties DEF PubMedInv
  <1>2. at + 1 \in 1..Len(Order) /\ Order[at + 1] \in Articles
    BY <1>1, PubMedAssumption, ElementOfSeq DEF PageIsFull
  <1>3. /\ at' = at + 1 /\ batch' = Append(batch, Order[at + 1])
        /\ stage' = "resolve" /\ UNCHANGED <<source, citation, linksets, missed>>
    BY DEF Take, Goto
  <1>4. /\ batch' \in Seq(Articles) /\ Len(batch') = Len(batch) + 1
        /\ \A n \in 1..Len(batch) : batch'[n] = batch[n]
        /\ batch'[Len(batch) + 1] = Order[at + 1]
    BY <1>1, <1>2, <1>3, AppendProperties
  <1>5. InSeq(batch') = InSeq(batch) \cup {Order[at + 1]}
    BY <1>1, <1>4 DEF InSeq
  <1>6. PassedAreCounted'
    <2> SUFFICES ASSUME NEW n \in 1..at + 1
                 PROVE  \/ Order[n] \in InSeq(batch') \cup linksets \cup missed
                        \/ Order[n] \notin PmcIds
                        \/ citation[Order[n]] = Cited[Order[n]]
      BY <1>3 DEF PassedAreCounted
    <2>1. CASE n \in 1..at
      BY <1>5, <2>1 DEF PubMedInv, PassedAreCounted
    <2>2. CASE n = at + 1
      BY <1>5, <2>2
    <2> QED
      BY <1>1, <2>1, <2>2
  <1>7. InSeq(batch') \cap PmcIds \subseteq pmcid'
    BY <1>5 DEF PubMedInv
  <1>8. at' \in 0..Len(Order)
    BY <1>1, <1>2, <1>3
  <1> QED
    BY <1>3, <1>4, <1>6, <1>7, <1>8 DEF PubMedInv, InSeq

LEMMA FetchLinksStep ==
    ASSUME PubMedInv, source = "pubmed", FetchLinks
    PROVE  PubMedInv'
  <1>1. /\ stage = "resolve" /\ UNCHANGED <<source, citation, at, pmcid>>
        /\ linksets = {}
    BY DEF FetchLinks, Goto, PubMedInv
  <1>2. /\ <<>> \in Seq(Articles) /\ InSeq(<<>>) = {}
        /\ \A s \in Seq(Articles) : InSeq(s) \subseteq Articles
    BY ElementOfSeq DEF InSeq
  <1>3. CASE /\ stage' = "read" /\ linksets' = Asked /\ batch' = <<>>
             /\ missed' = missed
    BY <1>1, <1>2, <1>3 DEF PubMedInv, PassedAreCounted, Asked, InSeq
  <1>4. CASE /\ stage' = "resolve" /\ linksets' = linksets /\ batch' = <<>>
             /\ missed' = missed \cup InSeq(batch)
    BY <1>1, <1>2, <1>4 DEF PubMedInv, PassedAreCounted, InSeq
  <1>5. CASE stage' = "failed" /\ UNCHANGED <<batch, linksets, missed>>
    BY <1>1, <1>5 DEF PubMedInv, PassedAreCounted, InSeq
  <1> QED
    BY <1>3, <1>4, <1>5 DEF FetchLinks, Goto

LEMMA ReadLinksStep ==
    ASSUME PubMedInv, source = "pubmed", ReadLinks
    PROVE  PubMedInv'
  <1>1. PICK a \in linksets :
            /\ linksets' = linksets \ {a}
            /\ \/ /\ Insert([x \in {a} |-> Cited[x]])
                  /\ UNCHANGED missed
               \/ /\ missed' = missed \cup {a}
                  /\ UNCHANGED <<source, citation, before, runs>>
    BY DEF ReadLinks
  <1>2. /\ stage = "read" /\ UNCHANGED <<source, stage, at, batch, pmcid>>
    BY <1>1 DEF ReadLinks, Insert
  <1>3. a \in Articles /\ linksets \subseteq Articles /\ DOMAIN citation = Articles
    BY DEF PubMedInv
  <1>4. \/ /\ missed' = missed /\ DOMAIN citation' = Articles
           /\ \A x \in Articles :
                 citation'[x] = IF x = a THEN Cited[x] ELSE citation[x]
        \/ missed' = missed \cup {a} /\ citation' = citation
    BY <1>1, <1>3 DEF Insert
  <1>5. PassedAreCounted'
    <2> SUFFICES ASSUME NEW n \in 1..at
                 PROVE  \/ Order[n] \in InSeq(batch) \cup linksets' \cup missed'
                        \/ Order[n] \notin PmcIds
                        \/ citation'[Order[n]] = Cited[Order[n]]
      BY <1>2 DEF PassedAreCounted, InSeq
    <2>1. \/ Order[n] \in InSeq(batch) \cup linksets \cup missed
          \/ Order[n] \notin PmcIds
          \/ citation[Order[n]] = Cited[Order[n]]
      BY <1>2 DEF PubMedInv, PassedAreCounted
    <2>2. Order[n] \in PmcIds => Order[n] \in Articles
      BY PubMedAssumption
    <2> QED
      BY <1>1, <1>4, <2>1, <2>2
  <1>6. DOMAIN citation' = Articles
    BY <1>3, <1>4
  <1> QED
    BY <1>1, <1>2, <1>5, <1>6 DEF PubMedInv, InSeq

LEMMA PubMedInvariance == Spec => []PubMedInv
  <1>1. Init => PubMedInv
    BY PubMedAssumption, LenProperties
       DEF Init, ImportInit, PubMedInit, PubMedInv, PassedAreCounted, InSeq
  <1>2. PubMedInv /\ [Next]_vars => PubMedInv'
    <2> SUFFICES ASSUME PubMedInv, [Next]_vars PROVE PubMedInv'
      OBVIOUS
    <2>1. CASE UNCHANGED <<importVars, crossrefVars, scopusVars, pubmedVars>>
      BY <2>1 DEF importVars, pubmedVars, PubMedInv, PassedAreCounted, InSeq
    <2>2. CASE source # "pubmed"
      BY <2>2, SameSource DEF PubMedInv, PassedAreCounted
    <2>3. CASE source = "pubmed" /\ PubMedNext
      <3>1. CASE BeginPubMed
        <4>1. /\ at' = 0 /\ batch' = <<>> /\ linksets' = {}
              /\ UNCHANGED <<source, citation>>
          BY <3>1 DEF BeginPubMed, Begin
        <4> QED
          BY <2>3, <4>1, PubMedAssumption, LenProperties
             DEF PubMedInv, PassedAreCounted, InSeq
      <3>2. CASE KnownId \/ LookUpId
        BY <2>3, <3>2, TakeStep DEF KnownId, LookUpId
      <3>3. CASE PageRead \/ PubMedEnds \/ PubMedFails
        BY <2>3, <3>3 DEF PageRead, PubMedEnds, PubMedFails, GiveUp, Goto,
           pubmedVars, PubMedInv, PassedAreCounted, InSeq, Stopped
      <3>4. CASE LoadCsv
        BY <2>3, <3>4 DEF LoadCsv, importVars, PubMedInv, PassedAreCounted, InSeq
      <3> QED
        BY <2>3, <3>1, <3>2, <3>3, <3>4, FetchLinksStep, ReadLinksStep
           DEF PubMedNext, PubMedStep
    <2> QED
      BY <2>1, <2>2, <2>3, OneSource
  <1> QED
    BY <1>1, <1>2, PTL DEF Spec

\* However an import of PubMed Central's citations ends, no article that it
\* is through with lacks its number (PassedAreCounted).
THEOREM PassedAreAlwaysCounted == Spec => []PassedAreCounted
  <1>1. PubMedInv => PassedAreCounted
    BY DEF PubMedInv
  <1> QED
    BY <1>1, PubMedInvariance, PTL

(***************************************************************************)
(* What Crossref's import adds up.                                         *)
(***************************************************************************)

\* Sums over sets of versions.
LEMMA VersionSums ==
    ASSUME NEW a \in Articles, NEW v \in 1..Latest[a],
           NEW L, L \subseteq 1..v - 1
    PROVE  /\ VersionSum(a, {}) = 0
           /\ VersionSum(a, 1..v - 1 \ L) \in Nat
           /\ VersionSum(a, 1..v \ (L \cup {v})) = VersionSum(a, 1..v - 1 \ L)
           /\ VersionSum(a, 1..v \ L)
                 = VersionSum(a, 1..v - 1 \ L) + Num[a][v]
  <1>1. \A S : VersionSum(a, S) = SumFunctionOnSet(Num[a], S)
    BY DEF VersionSum, SumFunctionOnSet, MapThenSumSet, FoldFunctionOnSet
  <1>2. /\ v \in Nat /\ Latest[a] \in Nat
        /\ \A w \in 0..Latest[a] : Num[a][w] \in Nat
    BY CrossrefAssumption
  <1> DEFINE S == 1..v - 1 \ L
  <1>3. /\ 1..v - 1 \ L = S
        /\ 1..v \ (L \cup {v}) = S /\ 1..v \ L = S \cup {v} /\ v \notin S
        /\ \A w \in S \cup {v} : w \in 0..Latest[a]
    BY <1>2
  <1>4. IsFiniteSet(1..v - 1)
    BY <1>2, FS_Interval
  <1>5. IsFiniteSet(S)
    BY <1>4, FS_Subset
  <1> HIDE DEF S
  <1>6. \A w \in S \cup {v} : Num[a][w] \in Nat
    BY <1>2, <1>3
  <1>7. /\ SumFunctionOnSet(Num[a], S \cup {v})
              = Num[a][v] + SumFunctionOnSet(Num[a], S)
        /\ SumFunctionOnSet(Num[a], S) \in Nat
    BY <1>3, <1>5, <1>6, SumMore, SumLess
  <1>8. SumFunctionOnSet(Num[a], {}) = 0
    BY SumOfNone
  <1>9. Num[a][v] \in Nat
    BY <1>6
  <1>10. /\ VersionSum(a, 1..v - 1 \ L) = SumFunctionOnSet(Num[a], S)
         /\ VersionSum(a, 1..v \ (L \cup {v})) = SumFunctionOnSet(Num[a], S)
         /\ VersionSum(a, 1..v \ L) = SumFunctionOnSet(Num[a], S \cup {v})
    BY <1>1, <1>3, Zenon
  <1>11. VersionSum(a, {}) = 0
    BY <1>1, <1>8
  <1> QED
    BY <1>7, <1>9, <1>10, <1>11

LEMMA NoVersions ==
    ASSUME NEW a \in Articles
    PROVE  VersionSum(a, {}) = 0
  <1>1. VersionSum(a, {}) = SumFunctionOnSet(Num[a], {})
    BY DEF VersionSum, SumFunctionOnSet, MapThenSumSet, FoldFunctionOnSet
  <1> QED
    BY <1>1, SumOfNone

\* A version has been dealt with: its number is added, or it is left out.
LEMMA AfterVersionStep ==
    ASSUME CrossrefInv, source = "crossref", NEW upto, NEW s, NEW v,
           v = version, stage \in {"fetch", "versions"},
           AfterVersion(v, upto, s), doi' = doi, todo' = todo,
           upto \in {0, Latest[doi]}, v > 0 => upto = Latest[doi],
           v <= upto, ~IsLast(v, upto) => lost' \subseteq 1..v,
           lost' \subseteq 1..Latest[doi],
           s \in Nat \cup {NoCount},
           s # NoCount /\ ~IsLast(v, upto) =>
              s = Num[doi][0] + VersionSum(doi, 1..v \ lost'),
           s # NoCount /\ IsLast(v, upto) =>
              s = Num[doi][0] + VersionSum(doi, 1..Latest[doi] \ lost')
    PROVE  CrossrefInv'
  <1>1. /\ doi \in Articles /\ version \in Nat /\ Latest[doi] \in Nat
        /\ counts \in [Articles -> Nat \cup {NoCount}]
        /\ todo \subseteq Articles /\ upto \in Nat /\ v \in 0..Latest[doi]
        /\ NoCount \notin Nat
    BY CrossrefAssumption, ImportAssumption DEF CrossrefInv, CrossrefTypeOK
  <1>2. sum' = s /\ latest' = upto
    BY DEF AfterVersion
  <1>3. CASE ~IsLast(v, upto)
    <2>1. /\ v < upto /\ upto = Latest[doi] /\ version' = v + 1 /\ stage' = "fetch"
          /\ UNCHANGED <<counts, lacks, source, citation>>
      BY <1>1, <1>3 DEF AfterVersion, IsLast, Goto
    <2>2. CrossrefTypeOK'
      BY <1>1, <1>2, <2>1 DEF CrossrefInv, CrossrefTypeOK
    <2>3. version' - 1 = v /\ version' > 0
      BY <1>1, <2>1
    <2>4. SumInv'
      BY <1>2, <1>3, <2>1, <2>3 DEF SumInv
    <2> QED
      BY <2>1, <2>2, <2>4 DEF CrossrefInv, ResultsInv, CrossrefSums
  <1>4. CASE IsLast(v, upto) /\ s = NoCount
    <2>1. /\ stage' = "failed"
          /\ UNCHANGED <<version, counts, lacks, source, citation>>
      BY <1>4 DEF AfterVersion, Goto
    <2>2. CrossrefTypeOK'
      BY <1>1, <1>2, <2>1 DEF CrossrefInv, CrossrefTypeOK
    <2>3. SumInv'
      BY <2>1 DEF SumInv
    <2> QED
      BY <2>1, <2>2, <2>3 DEF CrossrefInv, ResultsInv, CrossrefSums
  <1>5. CASE IsLast(v, upto) /\ s # NoCount
    <2>1. /\ stage' = "next" /\ version' = version
          /\ counts' = [counts EXCEPT ![doi] = s]
          /\ lacks' = [lacks EXCEPT !.counts[doi] = lost']
          /\ UNCHANGED <<source, citation>>
      BY <1>5 DEF AfterVersion, KeepCount, Goto
    <2>2. CrossrefTypeOK'
      BY <1>1, <1>2, <1>5, <2>1 DEF CrossrefInv, CrossrefTypeOK
    <2>3. SumInv'
      BY <2>1 DEF SumInv
    <2>4. /\ lacks'.counts = [lacks.counts EXCEPT ![doi] = lost']
          /\ lacks'.rows = lacks.rows
          /\ lacks' \in [counts : [Articles -> SUBSET Nat],
                          rows : [Articles -> SUBSET Nat]]
      BY <1>1, <2>1 DEF CrossrefInv, ResultsInv
    <2>5. s = SumWithout(doi, lost')
      BY <1>5 DEF SumWithout
    <2>6. ResultsInv'
      <3> SUFFICES ASSUME NEW a \in Articles, counts'[a] # NoCount
                   PROVE  counts'[a] = SumWithout(a, lacks'.counts[a])
        BY <2>4 DEF ResultsInv
      <3>1. CASE a = doi
        <4>1. lacks'.counts[a] = lost' /\ counts'[a] = s
          BY <1>1, <2>1, <2>4, <3>1 DEF CrossrefInv, ResultsInv
        <4> QED
          BY <2>5, <3>1, <4>1
      <3>2. CASE a # doi
        <4>1. lacks'.counts[a] = lacks.counts[a] /\ counts'[a] = counts[a]
          BY <1>1, <2>1, <2>4, <3>2 DEF CrossrefInv, ResultsInv
        <4> QED
          BY <3>2, <4>1 DEF CrossrefInv, ResultsInv
      <3> QED
        BY <3>1, <3>2
    <2>7. CrossrefSums'
      BY <2>1, <2>4 DEF CrossrefInv, CrossrefSums
    <2> QED
      BY <2>2, <2>3, <2>6, <2>7 DEF CrossrefInv
  <1> QED
    BY <1>3, <1>4, <1>5

\* The answer for a version, and its sum.
LEMMA FetchCountStep ==
    ASSUME CrossrefInv, source = "crossref", FetchCount
    PROVE  CrossrefInv'
  <1>1. /\ stage = "fetch" /\ doi \in Articles /\ version \in 0..Latest[doi]
        /\ version \in Nat /\ Latest[doi] \in Nat
        /\ lost \subseteq 1..Latest[doi] /\ sum \in Nat \cup {NoCount}
        /\ Num[doi][0] \in Nat /\ NoCount \notin Nat
        /\ counts \in [Articles -> Nat \cup {NoCount}] /\ todo \subseteq Articles
        /\ latest \in {0, Latest[doi]}
    BY CrossrefAssumption, ImportAssumption
       DEF FetchCount, CrossrefInv, CrossrefTypeOK
  <1>2. CASE SkipArticle
    <2>1. stage' = "next" /\ UNCHANGED <<source, citation, crossrefVars>>
      BY <1>2 DEF SkipArticle, Goto, sumVars, crossrefVars
    <2> QED
      BY <2>1 DEF CrossrefInv, CrossrefTypeOK, SumInv, ResultsInv, CrossrefSums,
                  crossrefVars, sumVars
  <1>3. CASE /\ version = 0 /\ sum' \in {Num[doi][0], NoCount}
             /\ Goto("versions")
             /\ UNCHANGED <<todo, doi, version, latest, lost, counts, lacks>>
    <2>1. lost = {}
      BY <1>1, <1>3 DEF CrossrefInv, SumInv
    <2>2. CrossrefTypeOK'
      BY <1>1, <1>3 DEF CrossrefTypeOK
    <2>3. SumInv'
      BY <1>3, <2>1 DEF SumInv, Goto
    <2> QED
      BY <1>3, <2>2, <2>3 DEF CrossrefInv, ResultsInv, CrossrefSums, Goto
  <1>4. ASSUME version > 0, NEW s, AfterVersion(version, latest, s),
               UNCHANGED <<todo, doi>>,
               \/ s = sum /\ lost' = lost \cup {version}
               \/ s = Plus(sum, Num[doi][version]) /\ lost' = lost
        PROVE  CrossrefInv'
    <2>1. /\ latest = Latest[doi] /\ lost \subseteq 1..version - 1
          /\ version \in 1..Latest[doi]
          /\ sum # NoCount =>
                sum = Num[doi][0] + VersionSum(doi, 1..version - 1 \ lost)
      BY <1>1, <1>4 DEF CrossrefInv, SumInv
    <2> DEFINE rest == VersionSum(doi, 1..version - 1 \ lost)
    <2>2. /\ rest \in Nat
          /\ VersionSum(doi, 1..version \ (lost \cup {version})) = rest
          /\ VersionSum(doi, 1..version \ lost) = rest + Num[doi][version]
      BY <1>1, <2>1, VersionSums
    <2> HIDE DEF rest
    <2>3. Num[doi][version] \in Nat
      BY <1>1, CrossrefAssumption
    <2>4. /\ s \in Nat \cup {NoCount}
          /\ s # NoCount => s = Num[doi][0] + VersionSum(doi, 1..version \ lost')
      <3>1. sum # NoCount => sum = Num[doi][0] + rest
        BY <2>1 DEF rest
      <3>2. CASE s = sum /\ lost' = lost \cup {version}
        BY <1>1, <2>2, <3>1, <3>2
      <3>3. CASE s = Plus(sum, Num[doi][version]) /\ lost' = lost
        BY <1>1, <2>2, <2>3, <3>1, <3>3 DEF Plus
      <3> QED
        BY <1>4, <3>2, <3>3
    <2>5. lost' \subseteq 1..version /\ lost' \subseteq 1..Latest[doi]
      <3>1. /\ 1..version - 1 \subseteq 1..version /\ version \in 1..version
            /\ 1..version \subseteq 1..Latest[doi]
        BY <1>1, <2>1
      <3>2. lost' = lost \/ lost' = lost \cup {version}
        BY <1>4
      <3> QED
        BY <2>1, <3>1, <3>2
    <2>6. IsLast(version, latest) => version = Latest[doi]
      BY <1>1, <2>1 DEF IsLast
    <2> QED
      BY <1>1, <1>4, <2>1, <2>4, <2>5, <2>6, AfterVersionStep
  <1>5. \/ SkipArticle
        \/ /\ version = 0 /\ sum' \in {Num[doi][0], NoCount}
           /\ Goto("versions")
           /\ UNCHANGED <<todo, doi, version, latest, lost, counts, lacks>>
        \/ /\ version > 0 /\ UNCHANGED <<todo, doi>>
           /\ \/ /\ AfterVersion(version, latest, sum)
                 /\ lost' = lost \cup {version}
              \/ /\ AfterVersion(version, latest, Plus(sum, Num[doi][version]))
                 /\ lost' = lost
    BY DEF FetchCount
  <1> QED
    BY <1>2, <1>3, <1>4, <1>5

\* The versions that Lax tells, all or none of them.
LEMMA AskLaxStep ==
    ASSUME CrossrefInv, source = "crossref", AskLax
    PROVE  CrossrefInv'
  <1>1. /\ stage = "versions" /\ doi \in Articles /\ version = 0
        /\ Latest[doi] \in Nat /\ lost = {} /\ sum \in {Num[doi][0], NoCount}
        /\ Num[doi][0] \in Nat /\ UNCHANGED <<todo, doi>>
    BY CrossrefAssumption DEF AskLax, CrossrefInv, CrossrefTypeOK, SumInv
  <1>2. PICK upto \in {Latest[doi], 0} :
            /\ lost' = 1..Latest[doi] \ 1..upto
            /\ AfterVersion(0, upto, sum)
    BY DEF AskLax
  <1>3. VersionSum(doi, {}) = 0
    BY <1>1, NoVersions
  <1>4. CASE IsLast(0, upto)
    <2>1. 1..Latest[doi] \ lost' = {}
      BY <1>1, <1>2, <1>4 DEF IsLast
    <2>2. sum # NoCount => sum = Num[doi][0] + VersionSum(doi, 1..Latest[doi] \ lost')
      BY <1>1, <1>3, <2>1
    <2>3. lost' \subseteq 1..Latest[doi] /\ sum \in Nat \cup {NoCount} /\ 0 <= upto
      BY <1>1, <1>2
    <2>4. AfterVersion(0, upto, sum) /\ upto \in {0, Latest[doi]}
      BY <1>2
    <2>5. /\ ~IsLast(0, upto) => lost' \subseteq 1..0
          /\ sum # NoCount /\ ~IsLast(0, upto) =>
                sum = Num[doi][0] + VersionSum(doi, 1..0 \ lost')
          /\ sum # NoCount /\ IsLast(0, upto) =>
                sum = Num[doi][0] + VersionSum(doi, 1..Latest[doi] \ lost')
      BY <1>4, <2>2
    <2> QED
      BY <1>1, <1>4, <2>3, <2>4, <2>5, AfterVersionStep, SMTT(60)
  <1>5. CASE ~IsLast(0, upto)
    <2>1. lost' = {} /\ upto = Latest[doi]
      BY <1>1, <1>2, <1>5 DEF IsLast
    <2>2. 1..0 \ lost' = {}
      OBVIOUS
    <2>3. sum # NoCount => sum = Num[doi][0] + VersionSum(doi, 1..0 \ lost')
      BY <1>1, <1>3, <2>2
    <2> QED
      BY <1>1, <1>2, <1>5, <2>1, <2>3, AfterVersionStep
  <1> QED
    BY <1>4, <1>5

\* A result that is stored.
LEMMA StoreCountStep ==
    ASSUME CrossrefInv, NEW a \in Articles, StoreCount(a)
    PROVE  CrossrefInv'
  <1>1. /\ stage = "store" /\ stage' = "store" /\ UNCHANGED <<source, todo, sumVars>>
        /\ counts[a] # NoCount
        /\ counts' = [counts EXCEPT ![a] = NoCount]
        /\ lacks' = [lacks EXCEPT !.rows[a] = lacks.counts[a]]
        /\ \A b \in Articles :
              citation'[b] = IF b = a THEN counts[a] ELSE citation[b]
    BY DEF StoreCount, Insert
  <1>2. /\ counts \in [Articles -> Nat \cup {NoCount}]
        /\ lacks \in [counts : [Articles -> SUBSET Nat],
                       rows : [Articles -> SUBSET Nat]]
    BY DEF CrossrefInv, CrossrefTypeOK, ResultsInv
  <1>3. /\ lacks'.counts = lacks.counts
        /\ lacks'.rows = [lacks.rows EXCEPT ![a] = lacks.counts[a]]
        /\ lacks' \in [counts : [Articles -> SUBSET Nat],
                        rows : [Articles -> SUBSET Nat]]
    BY <1>1, <1>2
  <1>4. CrossrefTypeOK' /\ SumInv'
    BY <1>1, <1>2 DEF CrossrefInv, CrossrefTypeOK, SumInv, sumVars
  <1>5. ResultsInv'
    <2> SUFFICES ASSUME NEW b \in Articles, counts'[b] # NoCount
                 PROVE  counts'[b] = SumWithout(b, lacks'.counts[b])
      BY <1>3 DEF ResultsInv
    <2>1. counts'[b] = counts[b]
      BY <1>1, <1>2
    <2> QED
      BY <1>3, <2>1 DEF CrossrefInv, ResultsInv
  <1>6. CrossrefSums'
    <2> SUFFICES ASSUME source = "crossref", NEW b \in Articles,
                        citation'[b] # NoCount
                 PROVE  citation'[b] = SumWithout(b, lacks'.rows[b])
      BY <1>1 DEF CrossrefSums
    <2>1. CASE b = a
      <3>1. lacks'.rows[b] = lacks.counts[a] /\ citation'[b] = counts[a]
        BY <1>1, <1>2, <1>3, <2>1
      <3> QED
        BY <1>1, <2>1, <3>1 DEF CrossrefInv, ResultsInv
    <2>2. CASE b # a
      <3>1. lacks'.rows[b] = lacks.rows[b] /\ citation'[b] = citation[b]
        BY <1>1, <1>2, <1>3, <2>2
      <3> QED
        BY <2>2, <3>1 DEF CrossrefInv, CrossrefSums
    <2> QED
      BY <2>1, <2>2
  <1> QED
    BY <1>4, <1>5, <1>6 DEF CrossrefInv

LEMMA CrossrefInvariance == Spec => []CrossrefInv
  <1>1. Init => CrossrefInv
    <2> SUFFICES ASSUME Init PROVE CrossrefInv
      OBVIOUS
    <2>1. /\ doi \in Articles /\ Latest[doi] \in Nat
      BY ImportAssumption, CrossrefAssumption DEF Init, CrossrefInit
    <2>2. /\ todo = {} /\ version = 0 /\ latest = 0 /\ sum = 0 /\ lost = {}
          /\ counts = [a \in Articles |-> NoCount] /\ stage = "idle"
          /\ citation = [a \in Articles |-> NoCount]
          /\ lacks = [counts |-> [a \in Articles |-> {}],
                      rows |-> [a \in Articles |-> {}]]
      BY DEF Init, CrossrefInit, ImportInit, None
    <2>3. lacks \in [counts : [Articles -> SUBSET Nat],
                     rows : [Articles -> SUBSET Nat]]
      BY <2>2
    <2> QED
      BY <2>1, <2>2, <2>3
         DEF CrossrefInv, CrossrefTypeOK, SumInv, ResultsInv, CrossrefSums
  <1>2. CrossrefInv /\ [Next]_vars => CrossrefInv'
    <2> SUFFICES ASSUME CrossrefInv, [Next]_vars PROVE CrossrefInv'
      OBVIOUS
    <2> USE DEF CrossrefInv
    <2>1. CASE UNCHANGED crossrefVars /\ (source # "crossref" \/ UNCHANGED importVars)
      BY <2>1, SameSource DEF crossrefVars, sumVars, importVars, CrossrefTypeOK,
         SumInv, ResultsInv, CrossrefSums
    <2>2. ASSUME source = "crossref", UNCHANGED crossrefVars,
                 UNCHANGED <<source, citation>>,
                 stage' \notin {"fetch", "versions"}
          PROVE  CrossrefInv'
      BY <2>2 DEF crossrefVars, sumVars, CrossrefTypeOK, SumInv, ResultsInv,
         CrossrefSums
    <2>3. CASE source = "crossref" /\ CrossrefNext
      <3>1. CASE BeginCrossref
        <4>1. /\ stage' = "next" /\ todo' = Articles
              /\ counts' = [a \in Articles |-> NoCount]
              /\ UNCHANGED <<source, citation, sumVars, lacks>>
          BY <3>1 DEF BeginCrossref, Begin, None
        <4> QED
          BY <4>1 DEF sumVars, CrossrefTypeOK, SumInv, ResultsInv, CrossrefSums
      <3>2. ASSUME NEW a \in Articles, TakeArticle(a) PROVE CrossrefInv'
        <4>1. Latest[a] \in Nat
          BY CrossrefAssumption
        <4> QED
          BY <3>2, <4>1 DEF TakeArticle, Goto, CrossrefTypeOK, SumInv, ResultsInv,
             CrossrefSums
      <3>3. CASE AllCounted \/ VersionIsBad \/ CrossrefEnds
        BY <2>2, <2>3, <3>3 DEF AllCounted, VersionIsBad, CrossrefEnds, Goto
      <3>4. CASE CrossrefFails
        BY <2>2, <2>3, <3>4 DEF CrossrefFails, GiveUp, Goto
      <3> QED
        BY <2>3, <3>1, <3>2, <3>3, <3>4, FetchCountStep, AskLaxStep,
           StoreCountStep DEF CrossrefNext, CrossrefStep
    <2> QED
      BY <2>1, <2>3, OneSource
  <1> QED
    BY <1>1, <1>2, PTL DEF Spec

\* The number that is stored for an article is the sum of what Crossref has
\* answered for its umbrella doi and for all its versions, but for those that
\* Crossref does not know and those that Lax did not tell (CrossrefSums).
THEOREM SumsAreWhole == Spec => []CrossrefSums
  <1>1. CrossrefInv => CrossrefSums
    BY DEF CrossrefInv
  <1> QED
    BY <1>1, CrossrefInvariance, PTL

(***************************************************************************)
(* The types of all variables.                                             *)
(***************************************************************************)

\* A page at hand is one of some listing.
LEMMA FoundStep ==
    ASSUME ScopusInv, FoundInv, [Next]_vars
    PROVE  FoundInv'
  <1>1. CASE UNCHANGED results
    BY <1>1 DEF FoundInv
  <1>2. ASSUME NEW o \in Offsets, NEW L \in Listings,
               results' = [results EXCEPT ![o] = PageOf(L, o)]
        PROVE  FoundInv'
    BY <1>2 DEF FoundInv, ScopusInv, PagesInv
  <1>3. CASE BeginScopus
    BY <1>3 DEF BeginScopus, FoundInv, NoPages
  <1>4. CASE source = "scopus" /\ FirstPage
    <2>1. /\ page = 0 /\ 0 \in Offsets
      BY <1>4, ScopusAssumption DEF FirstPage, ScopusInv, FirstInv, Offsets
    <2>2. PICK outcome, p :
              /\ FetchPage(outcome, p)
              /\ IF outcome = "content" THEN results' = [results EXCEPT ![0] = p]
                 ELSE UNCHANGED results
      BY <1>4 DEF FirstPage, searchVars
    <2>3. outcome = "content" => \E L \in Listings : p = PageOf(L, 0)
      BY <2>1, <2>2, FetchedPage DEF ScopusInv
    <2> QED
      BY <1>1, <1>2, <2>1, <2>2, <2>3
  <1>5. CASE NextPage
    <2>1. page \in Offsets
      BY <1>5, ScopusAssumption DEF NextPage, ScopusInv, PagesInv, Offsets
    <2>2. PICK outcome, p :
              /\ FetchPage(outcome, p)
              /\ \/ /\ outcome = "content"
                    /\ results' = [results EXCEPT ![page] = p]
                 \/ UNCHANGED results
      BY <1>5 DEF NextPage, PageFound, SkipPage, HttpErrorEnds
    <2>3. outcome = "content" => \E L \in Listings : p = PageOf(L, page)
      BY <2>1, <2>2, FetchedPage DEF ScopusInv
    <2> QED
      BY <1>1, <1>2, <2>1, <2>2, <2>3
  <1>6. CASE AllFound \/ StorePage \/ ScopusEnds \/ ScopusFails \/ Tomorrow
    BY <1>1, <1>6 DEF AllFound, StorePage, ScopusEnds, ScopusFails, Tomorrow,
       scopusVars, searchVars
  <1>7. CASE UNCHANGED scopusVars
    BY <1>1, <1>7 DEF scopusVars, searchVars
  <1> QED
    BY <1>3, <1>4, <1>5, <1>6, <1>7, OneSource DEF ScopusNext, ScopusStep

\* What a page stores are numbers.
LEMMA StoredNumbers ==
    ASSUME NEW L \in Listings, NEW o \in Offsets,
           NEW a \in DOMAIN NumbersOf(PageOf(L, o))
    PROVE  NumbersOf(PageOf(L, o))[a] \in Nat
  <1> DEFINE P == PageOf(L, o)
             i == CHOOSE k \in Good(P) : P.entries[k].art = a
             n == Len(P.entries)
  <1>1. NumbersOf(P)[a] = P.entries[i].num
    BY DEF NumbersOf
  <1>2. \E k \in Good(P) : P.entries[k].art = a
    BY DEF NumbersOf
  <1>3. i \in Good(P)
    BY <1>2
  <1>4. /\ \A k \in 1..n : /\ o + k \in 1..Len(L)
                           /\ P.entries[k] = L[o + k]
    BY PageEntries
  <1>5. \A k \in Good(P) : k \in 1..n /\ P.entries[k].num # NoCount
    BY DEF Good, Numbered
  <1> HIDE DEF P, i, n
  <1>6. /\ o + i \in 1..Len(L) /\ P.entries[i].num = L[o + i].num
        /\ P.entries[i].num # NoCount
    BY <1>3, <1>4, <1>5
  <1>7. L[o + i].num \in Nat \cup {NoCount}
    BY <1>6, ListingAssumption
  <1> QED
    BY <1>1, <1>6, <1>7 DEF P

\* Scopus' part ...
LEMMA ScopusTypes ==
    ASSUME TypeOK, ScopusInv, ScopusInv', [Next]_vars
    PROVE  ScopusTypeOK'
  <1>1. /\ listing' \in Listings /\ steady' \in 0..CacheDays
        /\ left' \in [Offsets -> 0..CacheDays]
        /\ page' \in 0..MaxPages /\ end' \in 0..MaxPages
    BY DEF ScopusInv, PagesInv
  <1>2. /\ held \in BOOLEAN /\ skipped \subseteq Offsets
        /\ page \in 0..MaxPages /\ end \in 0..MaxPages /\ MaxPages \in Nat
    BY ScopusAssumption DEF TypeOK, ScopusTypeOK
  <1>3. CASE UNCHANGED <<held, skipped>>
    BY <1>1, <1>2, <1>3 DEF ScopusTypeOK
  <1>4. CASE BeginScopus
    BY <1>1, <1>2, <1>4 DEF BeginScopus, ScopusTypeOK
  <1>5. CASE FirstPage
    <2>1. held' \in BOOLEAN /\ skipped' = skipped
      BY <1>5 DEF FirstPage, FetchPage, searchVars
    <2> QED
      BY <1>1, <1>2, <2>1 DEF ScopusTypeOK
  <1>6. CASE NextPage
    <2>1. /\ held' \in BOOLEAN /\ page < end
          /\ \/ skipped' = skipped
             \/ skipped' = skipped \cup {page}
             \/ skipped' = skipped \cup page..end - 1
      BY <1>6 DEF NextPage, FetchPage, PageFound, SkipPage, HttpErrorEnds
    <2>2. page \in Offsets /\ page..end - 1 \subseteq Offsets
      BY <1>2, <2>1 DEF Offsets
    <2>3. skipped' \subseteq Offsets
      BY <1>2, <2>1, <2>2
    <2> QED
      BY <1>1, <2>1, <2>3 DEF ScopusTypeOK
  <1>7. CASE AllFound \/ StorePage \/ ScopusEnds \/ ScopusFails \/ Tomorrow
    BY <1>3, <1>7 DEF AllFound, StorePage, ScopusEnds, ScopusFails, Tomorrow,
       scopusVars, searchVars
  <1>8. CASE UNCHANGED scopusVars
    BY <1>3, <1>8 DEF scopusVars, searchVars
  <1> QED
    BY <1>4, <1>5, <1>6, <1>7, <1>8, OneSource DEF ScopusNext, ScopusStep

\* ... and PubMed Central's.
LEMMA PubMedTypes ==
    ASSUME TypeOK, [Next]_vars
    PROVE  PubMedTypeOK'
  <1>1. /\ at \in 0..Len(Order) /\ batch \in Seq(Articles) /\ Len(Order) \in Nat
        /\ linksets \subseteq PmcIds /\ pmcid \subseteq PmcIds
        /\ Order \in Seq(Articles) /\ PmcIds \subseteq Articles
    BY PubMedAssumption, LenProperties DEF TypeOK, PubMedTypeOK
  <1>2. /\ <<>> \in Seq(Articles) /\ 0 \in 0..Len(Order)
        /\ {} \subseteq PmcIds
    BY <1>1
  <1>3. CASE BeginPubMed
    BY <1>1, <1>2, <1>3 DEF BeginPubMed, PubMedTypeOK
  <1>4. ASSUME ~PageIsFull, Take, pmcid' \subseteq PmcIds
        PROVE  PubMedTypeOK'
    <2>1. at + 1 \in 1..Len(Order)
      BY <1>1, <1>4 DEF PageIsFull
    <2>2. Order[at + 1] \in Articles
      BY <1>1, <2>1, ElementOfSeq
    <2>3. Append(batch, Order[at + 1]) \in Seq(Articles)
      BY <1>1, <2>2, AppendProperties
    <2> QED
      BY <1>1, <1>4, <2>1, <2>3 DEF Take, PubMedTypeOK
  <1>5. CASE KnownId \/ LookUpId
    <2>1. ~PageIsFull /\ Take /\ pmcid' \subseteq PmcIds
      BY <1>1, <1>5 DEF KnownId, LookUpId
    <2> QED
      BY <1>4, <2>1
  <1>6. CASE FetchLinks
    <2>1. /\ linksets' \in {linksets, Asked} /\ batch' \in {batch, <<>>}
          /\ UNCHANGED <<at, pmcid>>
      BY <1>6 DEF FetchLinks
    <2> QED
      BY <1>1, <1>2, <2>1 DEF Asked, PubMedTypeOK
  <1>7. CASE ReadLinks
    <2>1. linksets' \subseteq linksets /\ UNCHANGED <<at, batch, pmcid>>
      BY <1>7 DEF ReadLinks
    <2> QED
      BY <1>1, <2>1 DEF PubMedTypeOK
  <1>8. CASE LoadCsv
    BY <1>1, <1>8 DEF LoadCsv, PubMedTypeOK
  <1>9. CASE UNCHANGED pubmedVars
    BY <1>1, <1>9 DEF pubmedVars, PubMedTypeOK
  <1> QED
    BY <1>3, <1>5, <1>6, <1>7, <1>8, <1>9, OneSource
       DEF PubMedNext, PubMedStep, PageRead, PubMedEnds, PubMedFails

\* What is stored of a source is a number, whatever the source answered.
LEMMA CitationTypes ==
    ASSUME TypeOK, CrossrefInv, ScopusInv, FoundInv, [Next]_vars
    PROVE  /\ citation' \in [Articles -> Nat \cup {NoCount}]
           /\ runs' \in 0..MaxRuns
  <1>1. /\ citation \in [Articles -> Nat \cup {NoCount}] /\ runs \in 0..MaxRuns
        /\ MaxRuns \in Nat
    BY ImportAssumption DEF TypeOK
  <1>2. CASE UNCHANGED <<citation, runs>>
    BY <1>1, <1>2
  <1>3. ASSUME NEW s, NEW first, Begin(s, first)
        PROVE  /\ citation' \in [Articles -> Nat \cup {NoCount}]
               /\ runs' \in 0..MaxRuns
    BY <1>1, <1>3 DEF Begin
  <1>4. ASSUME NEW numbers, Insert(numbers),
               \A a \in DOMAIN numbers : numbers[a] \in Nat
        PROVE  /\ citation' \in [Articles -> Nat \cup {NoCount}]
               /\ runs' \in 0..MaxRuns
    BY <1>1, <1>4 DEF Insert
  <1>5. ASSUME NEW a \in Articles, StoreCount(a)
        PROVE  /\ citation' \in [Articles -> Nat \cup {NoCount}]
               /\ runs' \in 0..MaxRuns
    <2>1. counts[a] \in Nat
      BY <1>5 DEF StoreCount, CrossrefInv, CrossrefTypeOK
    <2> DEFINE numbers == [b \in {a} |-> counts[a]]
    <2>2. Insert(numbers)
      BY <1>5 DEF StoreCount
    <2>3. \A b \in DOMAIN numbers : numbers[b] \in Nat
      BY <2>1
    <2> HIDE DEF numbers
    <2> QED
      BY <1>4, <2>2, <2>3
  <1>6. CASE StorePage
    <2>1. page \in Offsets
      BY <1>6, ScopusAssumption DEF StorePage, ScopusInv, PagesInv, Offsets
    <2>2. CASE results[page] # NoPage
      <3>1. PICK L \in Listings : results[page] = PageOf(L, page)
        BY <2>1, <2>2 DEF FoundInv
      <3>2. Insert(NumbersOf(PageOf(L, page)))
        BY <1>6, <2>2, <3>1 DEF StorePage
      <3> QED
        BY <1>4, <2>1, <3>2, StoredNumbers
    <2> QED
      BY <1>2, <1>6, <2>2 DEF StorePage, importVars
  <1>7. CASE ReadLinks
    <2>1. PICK a \in linksets : \/ Insert([x \in {a} |-> Cited[x]])
                               \/ UNCHANGED <<citation, runs>>
      BY <1>7 DEF ReadLinks
    <2>2. Cited[a] \in Nat
      BY PubMedAssumption DEF TypeOK, PubMedTypeOK
    <2> DEFINE numbers == [x \in {a} |-> Cited[x]]
    <2>3. \A b \in DOMAIN numbers : numbers[b] \in Nat
      BY <2>2
    <2>4. Insert(numbers) \/ UNCHANGED <<citation, runs>>
      BY <2>1
    <2> HIDE DEF numbers
    <2> QED
      BY <1>2, <1>4, <2>3, <2>4
  <1>8. ASSUME CrossrefNext
        PROVE  /\ citation' \in [Articles -> Nat \cup {NoCount}]
               /\ runs' \in 0..MaxRuns
    <2>1. \/ UNCHANGED <<citation, runs>>
          \/ \E a \in Articles : StoreCount(a)
          \/ Begin("crossref", "next")
      BY <1>8 DEF CrossrefNext, CrossrefStep, BeginCrossref, TakeArticle,
         FetchCount, AskLax, AllCounted, CrossrefEnds, CrossrefFails,
         SkipArticle, VersionIsBad, AfterVersion, KeepCount, Goto, GiveUp
    <2> QED
      BY <1>2, <1>3, <1>5, <2>1
  <1>9. ASSUME ScopusNext
        PROVE  /\ citation' \in [Articles -> Nat \cup {NoCount}]
               /\ runs' \in 0..MaxRuns
    <2>1. \/ UNCHANGED <<citation, runs>>
          \/ StorePage
          \/ Begin("scopus", "first")
      BY <1>9 DEF ScopusNext, ScopusStep, BeginScopus, FirstPage, NextPage,
         AllFound, ScopusEnds, ScopusFails, Tomorrow, PageFound, SkipPage,
         HttpErrorEnds, Goto, GiveUp
    <2> QED
      BY <1>2, <1>3, <1>6, <2>1
  <1>10. ASSUME PubMedNext
         PROVE  /\ citation' \in [Articles -> Nat \cup {NoCount}]
                /\ runs' \in 0..MaxRuns
    <2>1. \/ UNCHANGED <<citation, runs>>
          \/ ReadLinks
          \/ Begin("pubmed", "resolve")
      BY <1>10 DEF PubMedNext, PubMedStep, BeginPubMed, KnownId, LookUpId, Take,
         FetchLinks, PageRead, PubMedEnds, PubMedFails, LoadCsv, Goto, GiveUp,
         importVars
    <2> QED
      BY <1>2, <1>3, <1>7, <2>1
  <1> QED
    BY <1>2, <1>8, <1>9, <1>10, OneSource DEF importVars

LEMMA TypesStep ==
    ASSUME TypeOK, FoundInv, ScopusInv, ScopusInv', CrossrefInv, CrossrefInv',
           [Next]_vars
    PROVE  TypeOK' /\ FoundInv'
  <1>1. source' \in Sources /\ CrossrefTypeOK'
    BY SameSource DEF TypeOK, CrossrefInv
  <1> QED
    BY <1>1, CitationTypes, ScopusTypes, PubMedTypes, FoundStep DEF TypeOK

\* Every variable of the imports of citations keeps its type; in particular
\* only numbers are stored: no row has the missing number of an entry.
THEOREM CitationTypesKept == Spec => []TypeOK
  <1>1. Init => TypeOK /\ FoundInv
    <2> SUFFICES ASSUME Init
                 PROVE  TypeOK /\ FoundInv
      OBVIOUS
    <2>0. CrossrefTypeOK
      <3>1. /\ doi \in Articles /\ Latest[doi] \in Nat
        BY ImportAssumption, CrossrefAssumption DEF Init, CrossrefInit
      <3>2. /\ todo = {} /\ version = 0 /\ latest = 0 /\ sum = 0 /\ lost = {}
            /\ counts = [a \in Articles |-> NoCount]
        BY DEF Init, CrossrefInit, None
      <3> QED
        BY <3>1, <3>2 DEF CrossrefTypeOK
    <2>1. /\ CacheDays \in Nat /\ MaxPages \in Nat /\ MaxRuns \in Nat
          /\ Len(Order) \in Nat
      BY ScopusAssumption, PubMedAssumption, ImportAssumption, LenProperties
    <2>2. ScopusTypeOK /\ FoundInv
      <3>1. /\ listing \in Listings /\ steady = CacheDays
            /\ left = [o \in Offsets |-> 0] /\ held = FALSE /\ page = 0
            /\ end = 0 /\ results = NoPages /\ skipped = {}
        BY DEF Init, ScopusInit
      <3>2. left \in [Offsets -> 0..CacheDays] /\ steady \in 0..CacheDays
            /\ page \in 0..MaxPages /\ end \in 0..MaxPages
        BY <2>1, <3>1
      <3>3. ScopusTypeOK
        BY <3>1, <3>2, Zenon DEF ScopusTypeOK
      <3> QED
        BY <3>1, <3>3 DEF FoundInv, NoPages
    <2>3. PubMedTypeOK
      BY <2>1 DEF Init, PubMedInit, PubMedTypeOK
    <2> QED
      BY <2>0, <2>1, <2>2, <2>3 DEF Init, ImportInit, TypeOK
  <1>2. TypeOK /\ FoundInv /\ ScopusInv /\ ScopusInv' /\ CrossrefInv
           /\ CrossrefInv' /\ [Next]_vars => TypeOK' /\ FoundInv'
    BY TypesStep
  <1> QED
    BY <1>1, <1>2, ScopusInvariance, CrossrefInvariance, PTL DEF Spec

=============================================================================
