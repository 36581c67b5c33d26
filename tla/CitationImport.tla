---------------------------- MODULE CitationImport ----------------------------
(***************************************************************************)
(* What the imports of citations from Crossref, Scopus and PubMed Central  *)
(* (article_metrics/logic.py) have in common: the rows of Citation of one  *)
(* source, and the requests they make (article_metrics/handler.py).        *)
(***************************************************************************)
EXTENDS Integers, Sequences, FiniteSets

CONSTANTS
    Articles,
    NoCount,   \* the number of a row, or an entry, that there is none of
    MaxRuns    \* bound: runs of import_metrics

ASSUME ImportAssumption ==
    /\ Articles # {}
    /\ NoCount \notin Nat
    /\ MaxRuns \in Nat

VARIABLES
    source,    \* the source of the runs (import_metrics --source)
    stage,     \* where the import is
    citation,  \* the numbers of the source's rows of Citation
    before,    \* history: those numbers when the run began
    runs       \* runs that have begun

Min2(a, b) == IF a < b THEN a ELSE b

importVars == <<source, stage, citation, before, runs>>

Sources == {"crossref", "scopus", "pubmed"}

\* "failed": the import raised before it began to store what it has fetched;
\* "broken": while it stored it.
Stopped == {"idle", "done", "failed", "broken"}

\* The status of a response, after the retries; 0 if there is none.
Retried == {413, 429, 500, 502, 503, 504}
Statuses == {0, 200, 400, 401, 404} \cup Retried

\* What http_get_using_session makes of the last status, given those the
\* caller asks to ignore or to log only: anything but "content" and "none" is
\* an exception.  A retried status that stays the same is a RetryError.
Outcome(status, ignored) ==
    CASE status = 200          -> "content"
      [] status = 0            -> "ConnectionError"
      [] status \in Retried    -> "RetryError"
      [] status \in ignored    -> "none"
      [] OTHER                 -> "HTTPError"

Outcomes(ignored) == {Outcome(s, ignored) : s \in Statuses}

ImportInit ==
    /\ source \in Sources
    /\ stage = "idle"
    /\ citation = [a \in Articles |-> NoCount]
    /\ before = citation
    /\ runs = 0

\* import_metrics calls the source, in a process of its own.
Begin(s, first) ==
    /\ source = s
    /\ stage \in Stopped
    /\ runs < MaxRuns
    /\ runs' = runs + 1
    /\ stage' = first
    /\ before' = citation
    /\ UNCHANGED <<source, citation>>

\* The step of an import that stores nothing.
Goto(s) ==
    /\ stage' = s
    /\ UNCHANGED <<source, citation, before, runs>>

\* Anything raises (ctrl-c, an error of the database): import_metrics goes on
\* without the source.
GiveUp ==
    /\ stage \notin Stopped
    /\ Goto(IF stage = "store" THEN "broken" ELSE "failed")

\* insert_citation: a row is created or its number replaced.
Insert(numbers) ==
    /\ citation' = [a \in Articles |->
           IF a \in DOMAIN numbers THEN numbers[a] ELSE citation[a]]
    /\ UNCHANGED <<source, before, runs>>
=============================================================================
