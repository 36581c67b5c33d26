------------------------------- MODULE Citations -------------------------------
(***************************************************************************)
(* The three imports of citations, one of them chosen with --source.  They *)
(* share the table Citation, in which each has rows of its own, and no     *)
(* other state, so that one is followed at a time; ImportMetrics runs them *)
(* after one another.                                                      *)
(***************************************************************************)
EXTENDS Crossref, Scopus, PubMed

vars == <<importVars, crossrefVars, scopusVars, pubmedVars>>

Init == ImportInit /\ CrossrefInit /\ ScopusInit /\ PubMedInit

\* A step of the chosen source, which takes a bounded time: the requests of
\* http_get_using_session have timeouts, and so have their retries.
Step ==
    \/ source = "crossref" /\ CrossrefStep /\ UNCHANGED <<scopusVars, pubmedVars>>
    \/ source = "scopus" /\ ScopusStep /\ UNCHANGED <<crossrefVars, pubmedVars>>
    \/ source = "pubmed" /\ PubMedStep /\ UNCHANGED <<crossrefVars, scopusVars>>

\* The requests without a timeout.
Wait ==
    \/ source = "crossref" /\ AskLax /\ UNCHANGED <<scopusVars, pubmedVars>>
    \/ source = "pubmed" /\ LookUpId /\ UNCHANGED <<crossrefVars, scopusVars>>

\* A run that begins or is given up, a day that passes, ids loaded by hand.
Other ==
    \/ /\ source = "crossref"
       /\ BeginCrossref \/ CrossrefFails
       /\ UNCHANGED <<scopusVars, pubmedVars>>
    \/ /\ source = "scopus"
       /\ BeginScopus \/ ScopusFails \/ Tomorrow
       /\ UNCHANGED <<crossrefVars, pubmedVars>>
    \/ /\ source = "pubmed"
       /\ BeginPubMed \/ PubMedFails \/ LoadCsv
       /\ UNCHANGED <<crossrefVars, scopusVars>>

Next == Step \/ Wait \/ Other

Spec == Init /\ [][Next]_vars

\* The process is scheduled, and a service answers, refuses, or times out.
\* Nothing of the kind holds for Lax and the PMC id converter.
FairSpec == Spec /\ WF_vars(Step)

-----------------------------------------------------------------------------

\* Types of every variable.
TypeOK ==
    /\ source \in Sources
    /\ citation \in [Articles -> Nat \cup {NoCount}]
    /\ runs \in 0..MaxRuns
    /\ CrossrefTypeOK
    /\ ScopusTypeOK
    /\ PubMedTypeOK

\* Crossref and Scopus store nothing until everything has been fetched and
\* parsed (logic.py:162, 174): an import that fails before has changed nothing.
NothingStoredEarly ==
    source # "pubmed" /\ stage \in {"next", "fetch", "versions", "first", "search", "failed"}
        => citation = before

\* Every import ends, unless it waits for ever for Lax or for the id converter,
\* which are asked without a timeout (utils.py:83, pm/citations.py:33).
ImportEndsOrHangs ==
    []<>(stage \in Stopped) \/ <>[](stage \in {"versions", "resolve"})
=============================================================================
