SPECIFICATION FairSpec
CONSTANTS
    f1 = f1
    MaxReviews = 2
    Findings = {f1}
    Bulk = {}
    MaxEvents = 2
INVARIANTS TypeOK AppliedOnce
PROPERTIES WaivedStaysOff ClosedStaysClosed ConfirmedEnds SpinnerEndsAlone
CHECK_DEADLOCK FALSE
