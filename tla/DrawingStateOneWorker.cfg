SPECIFICATION FairSpec
CONSTANTS
    Jobs = {j1}
    Analyses = {}
    Reviews = {r1}
    Ids = {i1, i2, i3}
    Entries = {e1, e2}
    DirtyLimit = 2
    DeltaLimit = 2
    Expiring = {"lock", "dirty", "figures", "snapshot"}
    LargeDeltas = FALSE
    None = None
INVARIANTS RecordIsExact
PROPERTIES DeferralEnds
