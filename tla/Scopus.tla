-------------------------------- MODULE Scopus --------------------------------
(***************************************************************************)
(* import_scopus_citations (article_metrics/logic.py) and                  *)
(* article_metrics/scopus/citations.py, with the requests cache and the    *)
(* rate limiter (article_metrics/utils.py) its requests pass through.      *)
(*                                                                         *)
(* Scopus lists the journal's articles by descending number of citations.  *)
(* `start` is the offset of the first result of a page, and the search     *)
(* counts it up by one: a page has all but one of the results of the page  *)
(* before it.  Everything is fetched and parsed before anything is stored. *)
(***************************************************************************)
EXTENDS CitationImport

CONSTANTS
    Listings,   \* what Scopus may list: sequences of [art, num]
    PerPage,    \* 25
    MaxPages,   \* 5000
    LogEvery,   \* 10
    CacheDays,  \* settings.CACHE_EXPIRY
    NoPage

Offsets == 0..MaxPages - 1

PageOf(L, start) ==
    [total   |-> Len(L),
     entries |-> SubSeq(L, start + 1, Min2(start + PerPage, Len(L)))]

ASSUME ScopusAssumption ==
    /\ PerPage \in Nat \ {0}
    /\ MaxPages \in Nat \ {0}
    /\ CacheDays \in Nat
    /\ \A L \in Listings : \A o \in Offsets : PageOf(L, o) # NoPage

\* An article is listed once, and the numbers descend.
ASSUME ListingAssumption ==
    \A L \in Listings :
        /\ L \in Seq({L[i] : i \in 1..Len(L)})
        /\ \A i \in 1..Len(L) : L[i].num \in Nat \cup {NoCount}
        /\ \A i, j \in 1..Len(L) : i < j =>
              /\ L[i].art = L[j].art => L[i].art \notin Articles
              /\ NoCount \notin {L[i].num, L[j].num} => L[j].num <= L[i].num

VARIABLES
    listing,    \* what Scopus lists now
    steady,     \* history: days since that changed, or CacheDays if more
    cache,      \* offset -> the page cached, NoPage if there is none
    left,       \* offset -> days until the cached page expires
    held,       \* the lock of the rate limiter
    page,       \* offset of the next page to be fetched, or to be stored
    end,        \* where the search is to stop
    results,    \* offset -> the page that was fetched
    skipped     \* history: offsets of pages that were skipped

searchVars == <<page, end, results, skipped>>
scopusVars == <<listing, steady, cache, left, held, searchVars>>

PageAt(start) == PageOf(listing, start)

NoPages == [o \in Offsets |-> NoPage]

ScopusInit ==
    /\ listing \in Listings
    /\ steady = CacheDays
    /\ cache = NoPages
    /\ left = [o \in Offsets |-> 0]
    /\ held = FALSE
    /\ page = 0
    /\ end = 0
    /\ results = NoPages
    /\ skipped = {}

BeginScopus ==
    /\ Begin("scopus", "first")
    /\ held' = FALSE
    /\ page' = 0
    /\ end' = 0
    /\ results' = NoPages
    /\ skipped' = {}
    /\ UNCHANGED <<listing, steady, cache, left>>

\* Mutant of Fetched: what is cached is used for ever.
FetchedForEver(outcome, p) ==
    IF cache[page] # NoPage
    THEN /\ outcome = "content"
         /\ p = cache[page]
         /\ UNCHANGED <<cache, left>>
    ELSE /\ outcome \in Outcomes({})
         /\ p = PageAt(page)
         /\ cache' = IF outcome = "content" THEN [cache EXCEPT ![page] = p] ELSE cache
         /\ left' = IF outcome = "content" THEN [left EXCEPT ![page] = 9] ELSE left

\* requests_get with the caching session: a page that is cached and has not
\* expired (in the course of its last day it does) is no request.
Fetched(outcome, p) ==
    \/ /\ cache[page] # NoPage
       /\ outcome = "content"
       /\ p = cache[page]
       /\ UNCHANGED <<cache, left>>
    \/ /\ cache[page] = NoPage \/ left[page] = 0
       /\ outcome \in Outcomes({})
       /\ p = PageAt(page)
       /\ IF outcome = "content"
          THEN /\ cache' = [cache EXCEPT ![page] = p]
               /\ left' = [left EXCEPT ![page] = CacheDays]
          ELSE UNCHANGED <<cache, left>>

\* fetch_page as limited by simple_rate_limiter: the lock is taken for the call
\* and kept if the call raises.  A RetryError is no page.
FetchPage(outcome, p) ==
    /\ ~held
    /\ Fetched(outcome, p)
    /\ held' = (outcome \notin {"content", "RetryError"})
    /\ UNCHANGED <<listing, steady>>

FirstPage ==
    /\ stage = "first"
    /\ \E outcome \in Outcomes({}), p \in {PageAt(0), cache[0]} :
          /\ FetchPage(outcome, p)
          /\ IF outcome = "content"
             THEN /\ results' = [results EXCEPT ![0] = p]
                  /\ end' = Min2(p.total, MaxPages)
                  /\ page' = 1
                  /\ Goto("search")
                  /\ UNCHANGED skipped
             ELSE Goto("failed") /\ UNCHANGED searchVars

Numbered(p) == {i \in 1..Len(p.entries) : p.entries[i].num # NoCount}

\* The first number of the page is a zero.
CitedEnd(p) ==
    \E i \in Numbered(p) :
        p.entries[i].num = 0 /\ \A j \in Numbered(p) : i <= j

\* A page that has been fetched: it may be the last that is needed, and every
\* so often its first number is logged (entry[...] of None is a TypeError).
PageFound(p) ==
    /\ results' = [results EXCEPT ![page] = p]
    /\ \/ /\ CitedEnd(p)
          /\ page' = 0
          /\ Goto("store")
       \/ /\ ~CitedEnd(p)
          /\ Numbered(p) = {} /\ page % LogEvery = 0
          /\ page' = page
          /\ Goto("failed")
       \/ /\ ~CitedEnd(p)
          /\ Numbered(p) # {} \/ page % LogEvery # 0
          /\ page' = page + 1
          /\ Goto("search")
    /\ UNCHANGED skipped

\* Mutant of SkipPage: once more from the second page.
StartAgain ==
    /\ page' = 1
    /\ skipped' = skipped \cup {page}
    /\ Goto("search")
    /\ UNCHANGED results

\* A page that could not be had is passed over.
SkipPage ==
    /\ page' = page + 1
    /\ skipped' = skipped \cup {page}
    /\ Goto("search")
    /\ UNCHANGED results

\* HTTPError becomes GeneratorExit: what has been found is all there is.
HttpErrorEnds ==
    /\ page' = 0
    /\ skipped' = skipped \cup page..end - 1
    /\ Goto("store")
    /\ UNCHANGED results

NextPage ==
    /\ stage = "search"
    /\ page < end
    /\ UNCHANGED end
    /\ \E outcome \in Outcomes({}), p \in {PageAt(page), cache[page]} :
          /\ FetchPage(outcome, p)
          /\ \/ /\ outcome = "content"
                /\ PageFound(p)
             \/ /\ outcome = "RetryError"
                /\ SkipPage
             \/ /\ outcome = "HTTPError"
                /\ HttpErrorEnds
             \/ /\ outcome = "ConnectionError"
                /\ Goto("failed")
                /\ UNCHANGED <<page, results, skipped>>

AllFound ==
    /\ stage = "search"
    /\ page >= end
    /\ page' = 0
    /\ Goto("store")
    /\ UNCHANGED <<listing, steady, cache, left, held, end, results, skipped>>

\* The good entries of a page: parse_entry, splitfilter.
Good(p) == {i \in Numbered(p) : p.entries[i].art \in Articles}

NumbersOf(p) ==
    [a \in {p.entries[i].art : i \in Good(p)} |->
        p.entries[CHOOSE i \in Good(p) : p.entries[i].art = a].num]

StorePage ==
    /\ stage = "store"
    /\ page < MaxPages
    /\ IF results[page] = NoPage
       THEN UNCHANGED importVars
       ELSE Insert(NumbersOf(results[page])) /\ UNCHANGED stage
    /\ page' = page + 1
    /\ UNCHANGED <<listing, steady, cache, left, held, end, results, skipped>>

ScopusEnds ==
    /\ stage = "store"
    /\ page = MaxPages
    /\ Goto("done")
    /\ UNCHANGED scopusVars

ScopusFails == GiveUp /\ UNCHANGED scopusVars

\* A day between two runs: pages grow older or expire, and Scopus' numbers
\* may change, and with them the order.
Tomorrow ==
    /\ stage \in Stopped
    /\ runs < MaxRuns
    /\ source = "scopus"
    /\ listing' \in Listings
    /\ steady' = IF listing' # listing THEN 0
                 ELSE Min2(steady + 1, CacheDays)
    /\ cache' = [o \in Offsets |-> IF left[o] = 0 THEN NoPage ELSE cache[o]]
    /\ left' = [o \in Offsets |-> IF left[o] = 0 THEN 0 ELSE left[o] - 1]
    /\ stage' = "idle"
    /\ UNCHANGED <<source, citation, before, runs, held, searchVars>>

ScopusStep ==
    FirstPage \/ NextPage \/ AllFound \/ StorePage \/ ScopusEnds

ScopusNext == BeginScopus \/ ScopusStep \/ ScopusFails \/ Tomorrow

ScopusSpec ==
    ImportInit /\ ScopusInit /\ [][ScopusNext]_<<importVars, scopusVars>>

ScopusTypeOK ==
    /\ listing \in Listings
    /\ steady \in 0..CacheDays
    /\ left \in [Offsets -> 0..CacheDays]
    /\ held \in BOOLEAN
    /\ page \in 0..MaxPages
    /\ end \in 0..MaxPages
    /\ skipped \subseteq Offsets

\* The pages that show entry i of the listing and may be asked for.
PagesWith(i) ==
    {o \in 0..Min2(Len(listing), MaxPages) - 1 : o < i /\ i <= o + PerPage}

\* The parts of the inductive invariant.  A page is one of some listing.
PagesInv ==
    /\ listing \in Listings
    /\ steady \in 0..CacheDays
    /\ DOMAIN cache = Offsets
    /\ \A o \in Offsets : cache[o] = NoPage \/ \E L \in Listings : cache[o] = PageOf(L, o)
    /\ left \in [Offsets -> 0..CacheDays]
    /\ page \in 0..MaxPages
    /\ end \in 0..MaxPages
    /\ DOMAIN results = Offsets

\* So are the pages at hand.
FoundInv ==
    \A o \in Offsets :
        results[o] = NoPage \/ \E L \in Listings : results[o] = PageOf(L, o)

\* A cached page is what Scopus lists now, if that is as old as the page.
CacheInv ==
    \A o \in Offsets :
        cache[o] # NoPage /\ steady + left[o] >= CacheDays => cache[o] = PageAt(o)

FirstInv ==
    source = "scopus" /\ stage = "first" => page = 0 /\ results = NoPages

Steady == source = "scopus" /\ steady = CacheDays

\* So are the pages that have been fetched, all but those skipped.
SearchInv ==
    Steady /\ stage \in {"search", "store"} =>
        \A o \in Offsets :
            /\ results[o] \in {NoPage, PageAt(o)}
            /\ stage = "search" /\ o < page => results[o] # NoPage \/ o \in skipped
EndInv ==
    Steady /\ stage = "search" => end = Min2(Len(listing), MaxPages)

Cites(i) ==
    i \in 1..Len(listing) /\ listing[i].art \in Articles /\ listing[i].num # NoCount

\* Once the search is over nothing is missing, and what has been gone through
\* since is stored.
StoreInv ==
    Steady /\ stage = "store" =>
        /\ \A i \in 1..Len(listing) : listing[i].num \notin {0, NoCount} =>
              \/ PagesWith(i) \subseteq skipped
              \/ \E o \in PagesWith(i) : results[o] # NoPage
        /\ \A i \in 1..Len(listing) : \A o \in PagesWith(i) :
              Cites(i) /\ o < page /\ results[o] # NoPage
                  => citation[listing[i].art] = listing[i].num

\* No call of fetch_page waits for the lock that an earlier one has kept
\* (utils.py:366-376): whatever raises there ends the search.
LockIsFree == stage \in {"first", "search"} => ~held

\* An import that ends has stored the current number of every article with
\* citations that the search can reach, if Scopus' numbers have not changed
\* for as long as pages are cached, unless all the pages that show it were
\* skipped: the pages overlap, and the early end misses none
\* (scopus/citations.py:62-87).
CitedAreCurrent ==
    source = "scopus" /\ stage = "done" /\ steady = CacheDays =>
        \A i \in 1..Len(listing) :
            /\ listing[i].art \in Articles
            /\ listing[i].num \notin {0, NoCount}
            /\ ~(PagesWith(i) \subseteq skipped)
            => citation[listing[i].art] = listing[i].num

\* Together they are preserved by every step.
ScopusInv ==
    /\ PagesInv
    /\ CacheInv
    /\ FirstInv
    /\ SearchInv
    /\ EndInv
    /\ StoreInv
    /\ CitedAreCurrent
=============================================================================
