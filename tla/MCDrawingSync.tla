--------------------------- MODULE MCDrawingSync ---------------------------
(***************************************************************************)
(* Instances of DrawingSync for TLC.                                       *)
(***************************************************************************)
EXTENDS DrawingSync, TLC

CONSTANTS A, B, a1, a2, b1, w1, w2

MCHomeOf == [d \in Drawings |-> IF d = b1 THEN B ELSE A]

MCIds == 1..3

\* No hitch; a hasty user and loads that are slow or fail; a patient user and
\* requests of every kind that are slow, overlap or fail.
MCWorlds == {{}, {"hasty", "slow", "loadfails"},
             {"slow", "overlap", "loadfails", "savefails"}}

\* Loads that fail, and nothing else.
MCLoadFails == {{"loadfails"}}

MCSymmetry == Permutations({a1, a2}) \cup Permutations({w1, w2})
=============================================================================
