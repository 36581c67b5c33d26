------------------------------- MODULE MCApiV2 -------------------------------
(* Three articles, one with a row on three days of as many months, so that *)
(* whatever is listed can grow behind a client that has got a first page   *)
(* and goes on.  Ranks are such that a new item can come first, between    *)
(* the others or last.                                                     *)
EXTENDS ApiV2, TLC

CONSTANTS i1, a1, a2, a3, d1, d2, d3, e1, f1, m1, m2, m3

MCArticleOf == (d1 :> a1) @@ (d2 :> a1) @@ (d3 :> a1) @@ (e1 :> a2)
                  @@ (f1 :> a3)
MCMonthOf == (d1 :> m1) @@ (d2 :> m2) @@ (d3 :> m3) @@ (e1 :> m1)
                @@ (f1 :> m1)
MCReport == [i \in {i1} |-> [r \in {d1, d2, d3, e1, f1} |-> Exists]]
MCRank == (a1 :> 1) @@ (a2 :> 2) @@ (a3 :> 3) @@ (d1 :> 4) @@ (d2 :> 5)
             @@ (d3 :> 6) @@ (e1 :> 7) @@ (f1 :> 8) @@ (m1 :> 9) @@ (m2 :> 10)
             @@ (m3 :> 11)

(* What the client cannot tell apart is left out: other articles and their *)
(* rows; if it lists the summary, all rows of an article but one, which is *)
(* enough to be listed, and summaries in the other order, which take the   *)
(* entry of a cache as the citations of a version do; if not, the caches   *)
(* and their time, which nothing but the summary looks at.                 *)
Listed ==
    IF want = "summary" THEN Articles \cup {d1, e1, f1}
    ELSE {article} \cup {r \in Rows : ArticleOf[r] = article}

OnlyListed ==
    /\ \A k \in Store!Keys \ Listed : store'[k] = store[k]
    /\ IF want = "summary"
       THEN \A w \in Workers : cache'[w].key \in {order, "version", NoKey}
       ELSE UNCHANGED <<cache, marks>>
=============================================================================
