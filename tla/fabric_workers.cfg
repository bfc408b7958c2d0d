SPECIFICATION FairSpec
CONSTANTS
    Clients = {c1}
    Workers = {w1, w2}
    Drainers = {}
    TaskId = {t1, t2}
    Priority = {0, 1, 2, 3, 4}
    NoEntry = NoEntry
    SubmitPrio = {0, 4}
    SubmitRetries = {2}
    MayResubmit = TRUE
    MayCancel = FALSE
    MayStop = FALSE
    MaxCalls = 2
INVARIANTS RunningIsAttended NoTaskLost
PROPERTY TasksFinish
CHECK_DEADLOCK FALSE
