---------------------------- MODULE MCPageCounts ----------------------------
(***************************************************************************)
(* An instance of PageCounts for TLC: a type of pages with a frame of each *)
(* era, in the older of which two paths are one page, and a type with a    *)
(* GA4 frame only, whose responses may be cut.                             *)
(***************************************************************************)
EXTENDS PageCounts, TLC

CONSTANTS x, y, p, unknown

Frame(id, starts, ends) == [id |-> id, starts |-> starts, ends |-> ends]

MCPageTypes == <<"blog-article", "digest">>

MCHistory ==
    ("blog-article" :> {Frame(2, 1, NoDate), Frame(1, NoDate, 0)}) @@
    ("digest" :> {Frame(1, 1, NoDate)})

MCPageOf ==
    ("blog-article" :> (1 :> (x :> p @@ y :> p)
                        @@ 2 :> (x :> p @@ y :> unknown))) @@
    ("digest" :> (1 :> (x :> p)))
=============================================================================
