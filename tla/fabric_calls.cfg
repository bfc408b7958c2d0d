SPECIFICATION Spec
CONSTANTS
    Clients = {c1}
    Workers = {w1}
    Drainers = {w1}
    TaskId = {t1, t2}
    Priority = {0, 1, 2, 3, 4}
    NoEntry = NoEntry
    SubmitPrio = {0, 4}
    SubmitRetries = {2}
    MayResubmit = TRUE
    MayCancel = TRUE
    MayStop = TRUE
    MaxCalls = 3
SYMMETRY FabricSymmetry
INVARIANT OutcomeMatchesState
CHECK_DEADLOCK FALSE
