------------------------------ MODULE MCUpsert ------------------------------
(***************************************************************************)
(* Instances of Upsert for TLC.                                            *)
(***************************************************************************)
EXTENDS Upsert, TLC

CONSTANTS p, q, s, a, b, ra, rb, rc, v, w

\* Rows of which two share an article.
MCArticleOf == (ra :> a) @@ (rb :> b) @@ (rc :> a)

\* A long run, another run in transactions, and an autocommitted import of one
\* row: each row is imported twice.
MCJob == (p :> {ra, rb, rc}) @@ (q :> {ra, rb}) @@ (s :> {rc})

\* The others see a different count for some of the rows.
MCReport == [i \in Importers |-> [r \in {ra, rb, rc} |->
                 IF i = p \/ r = ra THEN v ELSE w]]
=============================================================================
