SPECIFICATION Spec
CONSTANTS
    Jobs = {j1}
    Analyses = {}
    Reviews = {r1}
    Ids = {i1, i2, i3, i4}
    Entries = {e1}
    DirtyLimit = 2
    DeltaLimit = 2
    Expiring = {}
    LargeDeltas = TRUE
    None = None
SYMMETRY Alike
PROPERTIES CommittedStays
