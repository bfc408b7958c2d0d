SPECIFICATION Spec
CONSTANTS
    Aggregate = {a1, a2}
    Type = {entity, session}
    Writers = {w1, w2}
    Savers = {s1, s2}
    MaxClears = 1
    MaxEvents = 2
    Nothing = Nothing
SYMMETRY StoreSymmetry
INVARIANTS VersionsContiguous EventsIndexed RecoveryIsExact
PROPERTY ImplementsStreams
CHECK_DEADLOCK FALSE
