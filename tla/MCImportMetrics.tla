-------------------------- MODULE MCImportMetrics --------------------------
(***************************************************************************)
(* Instances of ImportMetrics for TLC: one citation source and one source  *)
(* of metrics (plus one whose rows are never notified), a row each, and   *)
(* an hour of a few ticks so that an import can take less than, exactly    *)
(* and more than an hour.                                                  *)
(***************************************************************************)
EXTENDS ImportMetrics

CONSTANTS c1, m1, a1, a2, v1, v2, none

MCValues == Permutations({v1, v2})

MCOrder == <<"ga-daily", "crossref">>

MCOrder3 == <<"non-article-metrics", "ga-daily", "crossref">>

MCCitationSources == {"crossref"}

MCRows == {c1, m1}

MCSourceOf == [r \in MCRows |-> IF r = c1 THEN "crossref" ELSE "ga-daily"]

MCArticleOf == [r \in MCRows |-> a1]

=============================================================================
