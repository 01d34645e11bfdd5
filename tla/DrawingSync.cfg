SPECIFICATION Spec
CONSTANTS
    Batches = {b1, b2}
    NoBatch = NoBatch
    Baselines = {s1}
    Analyses = {a1}
    Drawings = {d1, d2}
    Handles = {h1,h2}
    None = None
    MaxEdits = 2
    MaxSwitches = 1
SYMMETRY Alike
INVARIANTS TypeOK
PROPERTIES EditsStayCovered CopyGoesForward
CHECK_DEADLOCK FALSE
