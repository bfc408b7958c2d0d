SPECIFICATION Spec
CONSTANTS
    Clients = {c1}
    Workers = {w1}
    Drainers = {}
    TaskId = {t1}
    Priority = {0, 1, 2, 3, 4}
    NoEntry = NoEntry
    SubmitPrio = {2}
    SubmitRetries = {2}
    MayResubmit = FALSE
    MayCancel = FALSE
    MayStop = FALSE
    MaxCalls = 1
INVARIANT FailedIsRetried
