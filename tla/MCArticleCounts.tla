-------------------------- MODULE MCArticleCounts --------------------------
(***************************************************************************)
(* An instance of ArticleCounts for TLC: months of three days, one or none *)
(* of which has a switch, where it was within its month; an article of     *)
(* every era, with an id of four digits, written in five as well, one with *)
(* an id of six digits, and an id that is too long.                        *)
(***************************************************************************)
EXTENDS ArticleCounts

CONSTANTS old, new, long, none

MCMonths == [i \in 1..10 |-> [from |-> 3 * i - 2, to |-> 3 * i]]

Path(route, art, digits, tail) ==
    [route |-> route, art |-> art, digits |-> digits, tail |-> tail]

\* In Google's order.
MCOrder == <<
    Path("(other)", none, 0, NoTail),
    Path("label", new, 6, NoTail),
    Path("label", old, 5, NoTail),
    Path("articles", old, 5, NoTail),
    Path("articles", old, 5, "/executable"),
    Path("articles", old, 4, NoTail),
    Path("articles", old, 4, "?utm_campaign"),
    Path("articles", new, 6, NoTail),
    Path("articles", long, 9, NoTail),
    Path("content", old, 5, NoTail),
    Path("content", old, 5, ".abstract"),
    Path("content", old, 5, "/abstract-2"),
    Path("content", old, 5, "v1"),
    Path("content", old, 5, "v1/abstract"),
    Path("content", old, 5, "v2"),
    Path("dated", old, 5, NoTail),
    Path("early", old, 5, NoTail),
    Path("elife", old, 5, ".full"),
    Path("reviewed-preprints", new, 6, NoTail),
    Path("reviewed-preprints", old, 5, NoTail)>>

MCPaths == {MCOrder[i] : i \in DOMAIN MCOrder}

MCViewPaths == {p \in MCPaths : p.route # "label"}

MCDownloadPaths ==
    {p \in MCPaths : p.route \in {"label", "(other)", "articles",
                                  "reviewed-preprints"} /\ p.tail = NoTail}

MCRank == [p \in MCPaths |-> CHOOSE i \in DOMAIN MCOrder : MCOrder[i] = p]
=============================================================================
