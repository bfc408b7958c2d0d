SPECIFICATION FairSpec
CONSTANTS
    Workers = {w1, w2}
    Collectors = {c1, c2}
    Loop = c1
    Count = 2
    MaxFaults = 3
    MaxTasks = 3
INVARIANTS WorkedOnce NoResultDropped
PROPERTY TasksAnswered
CHECK_DEADLOCK FALSE
