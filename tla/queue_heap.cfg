SPECIFICATION Spec
CONSTANTS
    TaskId = {t1, t2, t3, t4}
    Priority = {0, 2, 4}
    NoEntry = NoEntry
    Cancellable = {t1, t2, t3, t4}
    MaxEnqueues = 5
SYMMETRY TaskSymmetry
INVARIANT HeapOrdered
PROPERTIES CancelExactWhenIndexed ImplementsQueue
CHECK_DEADLOCK FALSE
