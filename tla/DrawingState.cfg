SPECIFICATION Spec
CONSTANTS
    Jobs = {j1}
    Analyses = {a1}
    Reviews = {r1, r2}
    Ids = {i1, i2, i3, i4}
    Entries = {e1}
    DirtyLimit = 2
    DeltaLimit = 2
    Expiring = {"deltaPaths", "deltaCount", "pending"}
    LargeDeltas = TRUE
    None = None
SYMMETRY Alike
INVARIANTS TypeOK NoHiddenDelta
PROPERTIES ReviewIsWhole
