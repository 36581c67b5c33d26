-------------------------- MODULE BoundedStaleness --------------------------
(***************************************************************************)
(* What the list of article summaries promises to its clients: an answer   *)
(* lists nothing that is not there, and everything that was there Window   *)
(* ticks ago.                                                              *)
(***************************************************************************)
EXTENDS Integers

CONSTANTS
    Items,    \* what can be listed
    Window    \* how many ticks an answer may be behind

VARIABLES
    listed,   \* what is there
    marks,    \* n in 1..Window -> what was there at the nth last tick
    answer    \* what the last answer was taken from

Init ==
    /\ listed = {}
    /\ marks = [n \in 1..Window |-> {}]
    /\ answer = {}

Grow ==
    /\ \E more \in SUBSET Items : listed' = listed \cup more
    /\ UNCHANGED <<marks, answer>>

Tick ==
    /\ marks' = [n \in 1..Window |-> IF n = 1 THEN listed ELSE marks[n - 1]]
    /\ UNCHANGED <<listed, answer>>

Answer ==
    /\ marks[Window] \subseteq answer'
    /\ answer' \subseteq listed
    /\ UNCHANGED <<listed, marks>>

Next == Grow \/ Tick \/ Answer

Spec == Init /\ [][Next]_<<listed, marks, answer>>
=============================================================================
