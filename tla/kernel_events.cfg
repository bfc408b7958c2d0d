SPECIFICATION FairSpec
CONSTANTS
    Aggregate = {a1}
    Seeded = {a1}
    Writers = {w1, w2}
    PerMs = 2
    MayFail = TRUE
    MaxEvents = 4
    Agents = {g1, g2}
    MayErr = TRUE
    MaxRestarts = 1
INVARIANT OnceInOrder
PROPERTY EventsDispatched
CHECK_DEADLOCK FALSE
