SPECIFICATION Spec
CONSTANTS
    Aggregate = {a1}
    Seeded = {a1}
    Writers = {w1, w2}
    PerMs = 1
    MayFail = FALSE
    MaxEvents = 3
    Agents = {g1}
    MayErr = FALSE
    MaxRestarts = 0
INVARIANT VersionsUnique
CHECK_DEADLOCK FALSE
