------------------------------ MODULE BatchPipe ------------------------------
(***************************************************************************)
(* What the plugin's background upload promises to the rest of the plugin: *)
(* a flushed dirty batch waits in a pool, one batch at a time is worked    *)
(* on, and a batch leaves the pool for good in one of the named ways.      *)
(* UploadWorker, the semaphore-and-queue program of                        *)
(* DrawingRevisionTracker.cs, is shown to implement this module.           *)
(***************************************************************************)
EXTENDS FiniteSets

CONSTANTS
    Batches,    \* every dirty batch flushed in a behaviour
    NoBatch     \* the value of active when nothing is being worked on

VARIABLES
    pending,    \* submitted, not being worked on
    active,     \* the batch being worked on, or NoBatch
    fate        \* how each batch stands

pipeVars == <<pending, active, fate>>

\* The ways a batch leaves the pipe: its delta was committed, a full resync
\* was run for it, the answer was WAIT, a newer baseline superseded it.
Endings == {"committed", "resynced", "waited"}
Fates == {"new", "live", "superseded"} \cup Endings

PipeTypeOK ==
    /\ pending \in SUBSET Batches
    /\ active \in Batches \cup {NoBatch}
    /\ fate \in [Batches -> Fates]

Init ==
    /\ pending = {}
    /\ active = NoBatch
    /\ fate = [b \in Batches |-> "new"]

Submit(b) ==
    /\ fate[b] = "new"
    /\ pending' = pending \cup {b}
    /\ fate' = [fate EXCEPT ![b] = "live"]
    /\ UNCHANGED active

Take(b) ==
    /\ active = NoBatch
    /\ b \in pending
    /\ pending' = pending \ {b}
    /\ active' = b
    /\ UNCHANGED fate

Finish(ending) ==
    /\ active # NoBatch
    /\ active' = NoBatch
    /\ fate' = [fate EXCEPT ![active] = ending]
    /\ UNCHANGED pending

PutBack ==
    /\ active # NoBatch
    /\ active' = NoBatch
    /\ pending' = pending \cup {active}
    /\ UNCHANGED fate

\* Only waiting batches are superseded, and only between two batches.
Supersede(old) ==
    /\ active = NoBatch
    /\ old \subseteq pending
    /\ pending' = pending \ old
    /\ fate' = [b \in Batches |-> IF b \in old THEN "superseded" ELSE fate[b]]
    /\ UNCHANGED active

Next ==
    \/ \E b \in Batches : Submit(b) \/ Take(b)
    \/ \E ending \in Endings : Finish(ending)
    \/ PutBack
    \/ \E old \in SUBSET pending : Supersede(old)

Spec == Init /\ [][Next]_pipeVars

==============================================================================
