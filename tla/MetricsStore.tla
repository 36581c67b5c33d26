---------------------------- MODULE MetricsStore ----------------------------
(***************************************************************************)
(* What the tables of articles, metrics and citations promise to their     *)
(* readers, whoever imports into them and however the imports interleave:  *)
(* an import publishes a set of rows at once, each with the value that the *)
(* import reports; an article is created once and for all; a row is never  *)
(* there without its article; and nothing ever disappears.                 *)
(***************************************************************************)
CONSTANTS
    Importers,   \* processes that import
    Articles,    \* unique keys of articles
    Rows,        \* unique keys of metrics and citations
    ArticleOf,   \* Rows -> the article it belongs to
    Report,      \* Importers -> Rows -> what it reports
    Exists,      \* the value of an article that exists
    NoValue      \* the value of a key that does not

VARIABLE store

Keys == Articles \cup Rows

\* What importer i stores under key k.
Reported(i, k) == IF k \in Articles THEN Exists ELSE Report[i][k]

Init == store = [k \in Keys |-> NoValue]

\* Importer i publishes the keys of W at once.
Publish(i, W) ==
    /\ W # {}
    /\ \A a \in W \cap Articles : store[a] = NoValue
    /\ \A r \in W \cap Rows :
          ArticleOf[r] \in W \/ store[ArticleOf[r]] # NoValue
    /\ store' = [k \in Keys |-> IF k \in W THEN Reported(i, k) ELSE store[k]]

Next == \E i \in Importers : \E W \in SUBSET Keys : Publish(i, W)

Spec == Init /\ [][Next]_store
=============================================================================
