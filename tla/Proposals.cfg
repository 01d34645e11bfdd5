SPECIFICATION FairSpec
CONSTANTS
    Threads = {t1}
    Work <- MCWork
    p1 = p1
    p2 = p2
    Pids = {p1}
    Size = 2
    MaxPending = 1
    None = None
    MaxFaults = 1
    MaxExtras = 1
INVARIANTS TypeOK Attended ResultOnce AnswerIsWhole
PROPERTIES AnswersDecide EveryTaskRuns RejectedGoes
CHECK_DEADLOCK FALSE
