SPECIFICATION Spec
CONSTANTS
    Batches = {b1, b2}
    Drainers = {k1, k2}
    Baselines = {s1, s2}
    Drawings = {d1, d2}
    NoBatch = NoBatch
    NoContext = NoContext
    Reliable = FALSE
INVARIANT TypeOK
INVARIANT OneWorker
INVARIANT HeldOnce
PROPERTY ImplementsBatchPipe
CHECK_DEADLOCK FALSE
SYMMETRY Alike
