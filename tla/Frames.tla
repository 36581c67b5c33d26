-------------------------------- MODULE Frames --------------------------------
(***************************************************************************)
(* The history of a type of pages: frames, periods in which its paths were *)
(* built in one way (metrics/history.py), and the days of each frame that  *)
(* are asked for when a range of dates is (metrics/logic.py, ga3.py,       *)
(* ga4.py).  Dates are numbers of days.                                    *)
(***************************************************************************)
EXTENDS Integers

CONSTANTS
    NoDate,      \* a date that was not given
    Inception    \* settings.INCEPTION

\* frames_wrangler: history begins at the inception and ends today.
FillEmpties(f, today) ==
    [f EXCEPT !.starts = IF @ = NoDate THEN Inception ELSE @,
              !.ends = IF @ = NoDate THEN today ELSE @]

Oldest(F) == CHOOSE f \in F : \A g \in F : f.starts <= g.starts

Newest(F) == CHOOSE f \in F : \A g \in F : g.starts <= f.starts

\* Mutant of Interesting: every frame is of interest.
InterestingAlways(f, start, end) == TRUE

\* "do the start or end dates cross the frame boundary?"
Interesting(f, start, end) ==
    /\ ~(f.starts < start /\ f.ends < start)
    /\ ~(f.ends > end /\ f.starts > end)

\* Mutant of Capped: the range as it was given.
Uncapped(f, start, end) == [start_date |-> start, end_date |-> end]

\* The dates of the query for a frame: the range, capped to its boundaries.
Capped(f, start, end) ==
    [start_date |-> IF start < f.starts THEN f.starts ELSE start,
     end_date |-> IF end > f.ends THEN f.ends ELSE end]

DaysOf(query) == query.start_date..query.end_date

\* build_ga_query: the frames of interest, each with its query.
FrameQueries(F, start, end) ==
    {[frame |-> f, query |-> Capped(f, start, end)] :
        f \in {g \in F : Interesting(g, start, end)}}
=============================================================================
