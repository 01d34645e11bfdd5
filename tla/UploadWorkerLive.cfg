SPECIFICATION FairSpec
CONSTANTS
    Batches = {b1, b2}
    Drainers = {k1, k2}
    Baselines = {s1}
    Drawings = {d1}
    NoBatch = NoBatch
    NoContext = NoContext
    Reliable = FALSE
PROPERTY BaselineRuns
PROPERTY InTimeIsServed
CHECK_DEADLOCK FALSE
