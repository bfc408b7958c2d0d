SPECIFICATION Spec
CONSTANTS
    TaskId = {t1, t2, t3}
    Priority = {0, 2}
    NoEntry = NoEntry
    Cancellable = {t1, t2, t3}
    MaxEnqueues = 4
INVARIANT CancelRemovesTheTask
CHECK_DEADLOCK FALSE
