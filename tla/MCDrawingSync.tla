---------------------------- MODULE MCDrawingSync -----------------------------
(* DrawingSync on small instances.                                          *)
EXTENDS DrawingSync, TLC

Alike ==
    Permutations(Batches) \cup Permutations(Handles) \cup Permutations(Drawings)
        \cup Permutations(Baselines)

==============================================================================
