SPECIFICATION Spec
CONSTANTS
    f1 = f1
    f2 = f2
    MaxReviews = 1
    Findings = {f1, f2}
    Bulk = {}
    MaxEvents = 2
INVARIANTS RowsTellTheDrawing
CHECK_DEADLOCK FALSE
