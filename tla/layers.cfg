SPECIFICATION Spec
CONSTANTS
    Nothing = Nothing
    WmKey = {k1, k2, k3}
    WmCapacity = 2
    MaxCount = 2
    StmId = {1, 2, 3, 4}
    StmCapacity = 2
    LtmId = {1, 2}
    MaxLtmEvents = 6
    FactId = {f1, f2}
    main = main
    sub = sub
    ProcName = {main, sub}
    ProcName0 = main
    MaxSteps <- MCMaxSteps
    MaxNesting = 4
    Subject = {k1, k2}
    Content = {x, y}
    Alias = {a1, a2}
    Identity = {i1, i2}
    MaxRecords = 3
    NodeId = {"n1"}
    EdgeId = {"e1"}
    Ends <- MCEnds
    Kind = {"host", "user"}
    Carried <- MCCarried
    Span <- MCSpan
    Second = 2
    Interval <- MCInterval
    Times = {1, 2, 3}
    MaxSnapshots = 2
    FarFuture = 100
    Document <- MCDocument
    Query <- MCQuery
    Limit = {1, 2, 9}
    MaxDocuments = 3
    Unlimited = 99
    ValidId = {"e", "s"}
    Event <- MCEvent
    MaxLog = 3
    Other <- MCOther
    MaxGarbled = 1
    MaxReplays = 1
    Data = {"d"}
    LivePath <- MCLivePath
    Asker = {a1}
    Questions <- MCQuestions
    Item <- MCItem
    Linked <- MCLinked
    Happening <- MCHappening
    OwnConfidence = {50, 85}
    MaxWrites = 3
    MaxFailures = 1
    MaxQuestions = 1
    Sources <- MCSources
    RegisterCount = 6
    StackDepth = 3
    MaxCycles = 16
    ReadLimit <- MCReadLimit
    MaxFacts = 2
INVARIANTS LayersAreSound OutcomeAccountsForSteps ChainsAreWhole HistoryIsCoherent AlgebraIsSound ReplayRebuilds DecisionsAreBacked CompiledKeepsMeaning
CHECK_DEADLOCK FALSE
