------------------------------- MODULE Crossref -------------------------------
(***************************************************************************)
(* import_crossref_citations (article_metrics/logic.py) and                *)
(* article_metrics/crossref/citations.py: for each article the citations   *)
(* of its umbrella doi and of each of its versions are fetched and added   *)
(* up; nothing is stored before the last article is done.                  *)
(***************************************************************************)
EXTENDS CitationImport, FiniteSetsExt

CONSTANTS
    Latest,   \* Articles -> the number of its latest version, from Lax
    Num       \* Articles -> 0..Latest -> citations of the umbrella doi (0)
              \* and of each version

ASSUME CrossrefAssumption ==
    \A a \in Articles : /\ Latest[a] \in Nat
                        /\ \A v \in 0..Latest[a] : Num[a][v] \in Nat

VARIABLES
    todo,     \* articles not taken yet
    doi,      \* the article at hand
    version,  \* the version to be asked for, 0 for the umbrella doi
    latest,   \* the latest version, as far as known
    sum,      \* what has been added up; NoCount if the umbrella's answer was
              \* unreadable
    counts,   \* the results: a number for each article that has one
    lost,     \* history: versions of the article at hand left out of the sum
    lacks     \* history: versions left out of the numbers, and of the rows

sumVars == <<doi, version, latest, sum, lost>>
crossrefVars == <<todo, doi, version, latest, sum, counts, lost, lacks>>

None == [a \in Articles |-> NoCount]

CrossrefInit ==
    /\ todo = {}
    /\ doi = CHOOSE a \in Articles : TRUE
    /\ version = 0
    /\ latest = 0
    /\ sum = 0
    /\ counts = None
    /\ lost = {}
    /\ lacks = [counts |-> [a \in Articles |-> {}],
                rows   |-> [a \in Articles |-> {}]]

\* Article.objects.all()
BeginCrossref ==
    /\ Begin("crossref", "next")
    /\ todo' = Articles
    /\ counts' = None
    /\ UNCHANGED <<sumVars, lacks>>

TakeArticle(a) ==
    /\ stage = "next"
    /\ a \in todo
    /\ todo' = todo \ {a}
    /\ doi' = a
    /\ version' = 0
    /\ sum' = 0
    /\ latest' = 0
    /\ lost' = {}
    /\ Goto("fetch")
    /\ UNCHANGED <<counts, lacks>>

\* Mutant of KeepCount: the row is stored as it is counted.
StoreCountNow(s) ==
    /\ Insert([a \in {doi} |-> s])
    /\ stage' = "next"
    /\ UNCHANGED <<counts, lacks>>

\* The result of the article at hand.
KeepCount(s) ==
    /\ counts' = [counts EXCEPT ![doi] = s]
    /\ lacks' = [lacks EXCEPT !.counts[doi] = lost']
    /\ Goto("next")

\* Mutant of IsLast: one version too many.
IsPastLast(v, upto) == v > upto

IsLast(v, upto) == v >= upto

\* After version v, with s added up: the next version, or the end of the
\* article, which fails if there is no number to add to (KeyError).
AfterVersion(v, upto, s) ==
    /\ sum' = s
    /\ latest' = upto
    /\ \/ /\ ~IsLast(v, upto)
          /\ version' = v + 1
          /\ Goto("fetch")
          /\ UNCHANGED <<counts, lacks>>
       \/ /\ IsLast(v, upto)
          /\ s = NoCount
          /\ Goto("failed")
          /\ UNCHANGED <<version, counts, lacks>>
       \/ /\ IsLast(v, upto)
          /\ s # NoCount
          /\ KeepCount(s)
          /\ UNCHANGED version

Plus(s, n) == IF s = NoCount THEN NoCount ELSE s + n

\* Mutant of SkipArticle: the versions that could be counted have to do.
KeepWhatThereIs ==
    /\ counts' = [counts EXCEPT ![doi] = sum]
    /\ Goto("next")
    /\ UNCHANGED <<todo, sumVars, lacks>>

\* count_for_doi gives up on the article: nothing is stored for it.
SkipArticle ==
    /\ Goto("next")
    /\ UNCHANGED <<todo, sumVars, counts, lacks>>

\* parse(fetch(doi), doi), of the umbrella doi or of a version: 401 and 404 are
\* no results, any other failure gives up the article.
FetchCount ==
    /\ stage = "fetch"
    /\ \E outcome \in Outcomes({401, 404}) :
          \/ /\ outcome \notin {"content", "none"}
             /\ SkipArticle
          \/ /\ outcome = "none"
             /\ version = 0
             /\ SkipArticle
          \/ /\ outcome = "none"
             /\ version > 0
             /\ lost' = lost \cup {version}
             /\ AfterVersion(version, latest, sum)
             /\ UNCHANGED <<todo, doi>>
          \/ /\ outcome = "content"
             /\ version > 0
             /\ UNCHANGED <<todo, doi, lost>>
             /\ AfterVersion(version, latest, Plus(sum, Num[doi][version]))
          \/ /\ outcome = "content"
             /\ version = 0
             /\ sum' \in {Num[doi][0], NoCount}
             /\ Goto("versions")
             /\ UNCHANGED <<todo, doi, version, latest, lost, counts, lacks>>

\* An unreadable answer is {'bad': ...}: a version has no 'num' to add.
VersionIsBad ==
    /\ stage = "fetch"
    /\ version > 0
    /\ Goto("failed")
    /\ UNCHANGED crossrefVars

\* get_article_versions: if Lax fails there are no versions.  The request has
\* no timeout.
AskLax ==
    /\ stage = "versions"
    /\ \E upto \in {Latest[doi], 0} :
          /\ lost' = 1..Latest[doi] \ 1..upto
          /\ AfterVersion(0, upto, sum)
    /\ UNCHANGED <<todo, doi>>

\* lfilter(None, results) has its last element.
AllCounted ==
    /\ stage = "next"
    /\ todo = {}
    /\ Goto("store")
    /\ UNCHANGED crossrefVars

StoreCount(a) ==
    /\ stage = "store"
    /\ counts[a] # NoCount
    /\ Insert([b \in {a} |-> counts[a]])
    /\ counts' = [counts EXCEPT ![a] = NoCount]
    /\ lacks' = [lacks EXCEPT !.rows[a] = lacks.counts[a]]
    /\ UNCHANGED <<stage, todo, sumVars>>

CrossrefEnds ==
    /\ stage = "store"
    /\ counts = None
    /\ Goto("done")
    /\ UNCHANGED crossrefVars

CrossrefFails == GiveUp /\ UNCHANGED crossrefVars

CrossrefStep ==
    \/ \E a \in Articles : TakeArticle(a) \/ StoreCount(a)
    \/ FetchCount
    \/ VersionIsBad
    \/ AllCounted
    \/ CrossrefEnds

CrossrefNext == BeginCrossref \/ CrossrefStep \/ AskLax \/ CrossrefFails

CrossrefSpec ==
    ImportInit /\ CrossrefInit /\ [][CrossrefNext]_<<importVars, crossrefVars>>

CrossrefTypeOK ==
    /\ todo \subseteq Articles
    /\ doi \in Articles
    /\ version \in 0..Latest[doi]
    /\ latest \in {0, Latest[doi]}
    /\ sum \in Nat \cup {NoCount}
    /\ counts \in [Articles -> Nat \cup {NoCount}]
    /\ lost \subseteq 1..Latest[doi]

VersionSum(a, versions) == MapThenSumSet(LAMBDA v : Num[a][v], versions)

\* Num[a] of the umbrella doi and of the versions not in left.
SumWithout(a, left) == Num[a][0] + VersionSum(a, 1..Latest[a] \ left)

\* The number of an article is that of its umbrella doi and all its versions,
\* as they were answered, but for the versions that Crossref does not know
\* (401, 404) and for those of an article whose versions Lax did not tell
\* (crossref/citations.py:57-74): any other failure leaves the row as it was.
CrossrefSums ==
    source = "crossref" => \A a \in Articles :
        citation[a] # NoCount => citation[a] = SumWithout(a, lacks.rows[a])

\* With these it is inductive.  The sum of the versions before the one to be
\* asked for, all of which Lax has told ...
SumInv ==
    source = "crossref" =>
        /\ stage = "fetch" /\ version = 0 =>
              sum = 0 /\ latest = 0 /\ lost = {}
        /\ stage = "versions" =>
              version = 0 /\ lost = {} /\ sum \in {Num[doi][0], NoCount}
        /\ stage = "fetch" /\ version > 0 =>
              /\ latest = Latest[doi]
              /\ lost \subseteq 1..version - 1
              /\ sum # NoCount =>
                    sum = Num[doi][0] + VersionSum(doi, 1..version - 1 \ lost)

\* ... and the results that are kept for the end.
ResultsInv ==
    /\ lacks \in [counts : [Articles -> SUBSET Nat],
                  rows   : [Articles -> SUBSET Nat]]
    /\ \A a \in Articles :
          counts[a] # NoCount => counts[a] = SumWithout(a, lacks.counts[a])

CrossrefInv == CrossrefTypeOK /\ SumInv /\ ResultsInv /\ CrossrefSums
=============================================================================
