\* Two sends, one fault and one lost request; then one review of what is stored, or one message.
\* Or one conversation, with one lapse.
CONSTANTS
    l1 = l1 l2 = l2 l3 = l3 v = v w = w note = note
    Lines = {l1, l2, l3}
    Blocks = {v, w}
    Note = note
    None = None NoGroup = NoGroup
    Parts <- MCParts
    Plans <- MCPlans
    Answers <- MCAnswers
    OtherPlans <- MCOtherPlans
    Requests <- MCRequests
    Scripts <- MCScripts
    MaxRecent = 1 MaxAdded = 2 MaxLapses = 1
    Tries = 3 MaxFaults = 1 MaxSlips = 1 MaxBroken = 1
SPECIFICATION Spec
INVARIANTS TypeOK StoredIsWhole RunsAreComponents ReviewHasGround
    SureGetsFix OnlyMeantChanges MemoryIsWhole DialogHasGround
PROPERTIES StoredGoesForward AnalysisEnds
CHECK_DEADLOCK FALSE
