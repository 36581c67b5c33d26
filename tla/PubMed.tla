-------------------------------- MODULE PubMed --------------------------------
(***************************************************************************)
(* import_pmc_citations (article_metrics/logic.py) and                     *)
(* article_metrics/pm/citations.py: generators that are consumed one row   *)
(* at a time.  The PMC id of each article is looked up, and saved, as it   *)
(* is needed; when a page of ids is full its citations are fetched, and    *)
(* each is stored as it is read, before the next article is looked at.     *)
(***************************************************************************)
EXTENDS CitationImport

CONSTANTS
    Order,      \* the articles in the order of the table
    PmcIds,     \* articles that have an id
    Cited,      \* article -> its citations in PMC
    MaxPerPage  \* MAX_PER_PAGE

ASSUME PubMedAssumption ==
    /\ Order \in Seq(Articles)
    /\ PmcIds \subseteq Articles
    /\ \A a \in PmcIds : Cited[a] \in Nat

VARIABLES
    at,         \* articles taken from the iterator
    batch,      \* the page: those taken since the last one was fetched
    linksets,   \* those whose results are left to be read
    pmcid,      \* articles whose id is in the table
    missed      \* history: articles whose page was skipped, or whose result was
                \* of 'PMC0'

pubmedVars == <<at, batch, linksets, pmcid, missed>>

PubMedInit ==
    /\ at = 0
    /\ batch = <<>>
    /\ linksets = {}
    /\ pmcid = {}
    /\ missed = {}

BeginPubMed ==
    /\ Begin("pubmed", "resolve")
    /\ at' = 0
    /\ batch' = <<>>
    /\ linksets' = {}
    /\ missed' = {}
    /\ UNCHANGED pmcid

\* The page is taken from the iterator while it is short and articles are left.
PageIsFull == Len(batch) = MaxPerPage \/ at = Len(Order)

\* Mutant of Take: a generator is sliced from where a list would be.
TakeFromOffset ==
    LET n == at + 1 + IF batch = <<>> THEN at ELSE 0
    IN  /\ at' = Min2(n, Len(Order))
        /\ batch' = IF n > Len(Order) THEN batch ELSE Append(batch, Order[n])
        /\ Goto("resolve")
        /\ UNCHANGED <<linksets, missed>>

Take ==
    /\ at' = at + 1
    /\ batch' = Append(batch, Order[at + 1])
    /\ Goto("resolve")
    /\ UNCHANGED <<linksets, missed>>

\* resolve_pmcid of an article whose id is known.
KnownId ==
    /\ stage = "resolve"
    /\ ~PageIsFull
    /\ Order[at + 1] \in pmcid
    /\ Take
    /\ UNCHANGED pmcid

\* _fetch_pmids and the update of the article, one request with neither a
\* timeout nor retries: the id is found and saved, or there is none.
LookUpId ==
    /\ stage = "resolve"
    /\ ~PageIsFull
    /\ Order[at + 1] \notin pmcid
    /\ Take
    /\ pmcid' = pmcid \cup ({Order[at + 1]} \cap PmcIds)

InSeq(s) == {s[n] : n \in 1..Len(s)}

\* The articles of the page that have an id to ask for.
Asked == InSeq(batch) \cap pmcid

\* fetch: a RetryError skips the page, unless an id is None, which the join of
\* the ids for the warning raises on; other exceptions end the import.
FetchLinks ==
    /\ stage = "resolve"
    /\ PageIsFull
    /\ batch # <<>>
    /\ \E outcome \in Outcomes({}) :
          \/ /\ outcome = "content"
             /\ linksets' = Asked
             /\ batch' = <<>>
             /\ Goto("read")
             /\ UNCHANGED missed
          \/ /\ outcome = "RetryError"
             /\ InSeq(batch) \subseteq pmcid
             /\ missed' = missed \cup InSeq(batch)
             /\ batch' = <<>>
             /\ Goto("resolve")
             /\ UNCHANGED linksets
          \/ /\ \/ outcome \in {"HTTPError", "ConnectionError"}
                \/ outcome = "RetryError" /\ ~(InSeq(batch) \subseteq pmcid)
             /\ Goto("failed")
             /\ UNCHANGED <<batch, linksets, missed>>
    /\ UNCHANGED <<at, pmcid>>

\* parse_result, good_row and insert_citation of one result: results of 'PMC0'
\* are dropped, and an unreadable one has no 'pmcid' (KeyError).
ReadLinks ==
    /\ stage = "read"
    /\ \E a \in linksets :
          /\ linksets' = linksets \ {a}
          /\ \/ /\ Insert([x \in {a} |-> Cited[x]])
                /\ UNCHANGED missed
             \/ /\ missed' = missed \cup {a}
                /\ UNCHANGED <<source, citation, before, runs>>
    /\ UNCHANGED <<stage, at, batch, pmcid>>

PageRead ==
    /\ stage = "read"
    /\ linksets = {}
    /\ Goto("resolve")
    /\ UNCHANGED pubmedVars

PubMedEnds ==
    /\ stage = "resolve"
    /\ at = Len(Order)
    /\ batch = <<>>
    /\ Goto("done")
    /\ UNCHANGED pubmedVars

\* An exception of any step: an id that cannot be resolved (an error of the
\* service, an id that another article has), an unreadable result.
PubMedFails == GiveUp /\ UNCHANGED pubmedVars

\* load_csv: ids for any of the articles, by hand and in a transaction.
LoadCsv ==
    /\ source = "pubmed"
    /\ stage = "idle"
    /\ \E ids \in SUBSET PmcIds : pmcid' = pmcid \cup ids
    /\ UNCHANGED <<importVars, at, batch, linksets, missed>>

PubMedStep ==
    KnownId \/ FetchLinks \/ ReadLinks \/ PageRead \/ PubMedEnds

PubMedNext == BeginPubMed \/ PubMedStep \/ LookUpId \/ PubMedFails \/ LoadCsv

PubMedSpec ==
    ImportInit /\ PubMedInit /\ [][PubMedNext]_<<importVars, pubmedVars>>

PubMedTypeOK ==
    /\ at \in 0..Len(Order)
    /\ batch \in Seq(Articles)
    /\ linksets \subseteq PmcIds
    /\ pmcid \subseteq PmcIds

\* However an import ends, every article with an id that it has taken and is
\* through with has its current number, but for those of skipped pages and of
\* results of 'PMC0': no article falls between two pages, and none is lost
\* because a later one fails (pm/citations.py:127-187, utils.py:50-69).  The
\* current number is the one that answers give: those of the requests cache are
\* up to two days old (settings.py:75).
PassedAreCounted ==
    source = "pubmed" /\ stage # "idle" =>
        \A n \in 1..at :
            \/ Order[n] \in InSeq(batch) \cup linksets \cup missed
            \/ Order[n] \notin PmcIds
            \/ citation[Order[n]] = Cited[Order[n]]

\* With this it is inductive: the page in hand has ids, where there are any.
PubMedInv ==
    /\ source = "pubmed" =>
          /\ at \in 0..Len(Order)
          /\ batch \in Seq(Articles)
          /\ linksets \subseteq Articles
          /\ DOMAIN citation = Articles
          /\ InSeq(batch) \cap PmcIds \subseteq pmcid
          /\ stage = "resolve" => linksets = {}
    /\ PassedAreCounted
=============================================================================
