------------------------------ MODULE MCGaDaily ------------------------------
(* The daily import for TLC: two runs, which are interchangeable.           *)
EXTENDS GaDaily, TLC

CONSTANTS r1, r2

MCRuns == {r1, r2}

Interchangeable == Permutations(MCRuns)
=============================================================================
