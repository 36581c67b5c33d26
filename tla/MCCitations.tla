------------------------------ MODULE MCCitations ------------------------------
(***************************************************************************)
(* An instance of Citations for TLC.                                       *)
(***************************************************************************)
EXTENDS Citations, TLC

CONSTANTS a, b, c, other, none

MCArticles == {a, b, c}

\* An article of two versions, one of one, and one that Lax knows none of.
MCLatest == (a :> 2) @@ (b :> 1) @@ (c :> 0)
MCNum == [x \in MCArticles |-> [v \in 0..MCLatest[x] |-> IF x = a THEN 2 ^ v ELSE 1]]

E(x, n) == [art |-> x, num |-> n]

\* Scopus' listings: the order turned round, an article that gets its first
\* citation, an entry without a number and one of no article, more
\* entries than pages, and none.
MCListings == {
    <<E(a, 2), E(b, 1), E(c, 0)>>,
    <<E(b, 3), E(a, 2), E(c, 1)>>,
    <<E(c, none), E(b, 1), E(other, 1), E(a, 0)>>,
    <<E(a, 2), E(other, 2), E(b, 1), E(c, 1), E(other, 0)>>,
    <<E(a, 2), E(b, 1), E(c, none), E(other, none)>>,
    <<>>}

MCOrder == <<c, b, a>>
MCPmcIds == {a, b, c} \ {b}
MCCited == (a :> 1) @@ (b :> 1) @@ (c :> 2)
=============================================================================
