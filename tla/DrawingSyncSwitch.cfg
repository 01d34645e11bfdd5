SPECIFICATION Spec
CONSTANTS
    Batches = {b1}
    NoBatch = NoBatch
    Baselines = {s1}
    Analyses = {}
    Drawings = {d1,d2}
    Handles = {h1}
    None = None
    MaxEdits = 2
    MaxSwitches = 1
SYMMETRY Alike
INVARIANTS SwitchIsSafe
CHECK_DEADLOCK FALSE
