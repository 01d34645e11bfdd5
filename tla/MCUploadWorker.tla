--------------------------- MODULE MCUploadWorker ----------------------------
(***************************************************************************)
(* UploadWorker for TLC: two batches, one or two refreshes of the context, *)
(* two drains under way; batches may be put back any number of times.      *)
(***************************************************************************)
EXTENDS UploadWorker, TLC

\* Commands and drawings are alike; sessions and drains too.
Alike ==
    Permutations(Batches) \cup Permutations(Drawings)
        \cup Permutations(Baselines) \cup Permutations(Drainers)

==============================================================================
