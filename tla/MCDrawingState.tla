---------------------------- MODULE MCDrawingState ----------------------------
(* DrawingState on small instances.                                         *)
EXTENDS DrawingState, TLC

\* Jobs and ids are interchangeable, and so are reviews and entries.
Alike ==
    Permutations(Jobs) \cup Permutations(Ids) \cup Permutations(Reviews) \cup Permutations(Entries)

==============================================================================
