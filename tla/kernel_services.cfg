SPECIFICATION FairSpec
CONSTANTS
    Nothing = Nothing
    Job = {j1, j2, j3}
    Endpoint = {e1, e2}
    Sender = {s1, s2}
    Topic = {t1, t2}
    Subscriber = {u1, u2}
    MaxMessages = 2
    Object = {o1, o2, o3}
    LinkId = {l1, l2}
    Key = {k1, k2}
    Value = {v1, v2}
    p1 = p1
    p2 = p2
    p3 = p3
    i1 = i1
    i2 = i2
    d1 = d1
    d2 = d2
    n1 = n1
    x = x
    y = y
    m1 = m1
    m2 = m2
    Plugin = {p1, p2, p3}
    PluginId = {i1, i2}
    DescriptorId <- MCDescriptorId
    Driver = {d1, d2}
    DriverName = {n1}
    NameOf <- MCNameOf
    Ability = {x, y}
    Offers <- MCOffers
    Caller = {c1, c2}
    MaxBytes = 6
    Registrations <- MCRegistrations
    DriverNames = {"http"}
    Provides <- MCProvides
    MaxTicks = 2
    MaxFound = 1
    MaxLost = 1
    ObjectIds = {1, 2}
    LinkIds = {3, 4}
    ObjectKinds = {"k"}
    Contents = {"c1", "c2"}
    Aggregates = {"a", "b"}
    TypeOfAggregate <- MCTypeOfAggregate
    Versions = {1, 2}
    Paths <- MCPaths
    StoreCalls = {1, 2}
    Registered <- MCRegistered
    Threads = {b1}
    Cve = {a1, a2}
    Severe = {a1}
    Alerts = 1
    MaxPolls = 2
    MaxDepth = 2
    MaxUrls = 2
    AllowedHosts = {"h"}
    FollowExternal = FALSE
    SkippedSegments = {"c.pdf"}
    SubdomainOf <- MCSubdomainOf
    Seeds <- MCSeeds
    Pages <- MCPages
    Workers = {w1, w2}
    QueueCapacity = 2
    Request = {"r1", "r2"}
    Url = {"u"}
    UrlOf <- MCUrlOf
    StreamTopic = {"alerts", "metrics"}
    StreamSubscriber = {m1, m2}
    TopicOf <- MCTopicOf
    Capacity = 2
    ChannelSize = 1
    BatchSize = 2
    MaxPublished = 4
    Node = {0, 1, 2}
    ClusterNode = {"w", "v"}
    HbSecs = 5
    MaxDelay = 4
    Weight = {1, 3}
    MaxLines = 3
    NumWorkers = 3
    Cost = {1, 3}
    MaxJobs = 4
    MaxAttempts = 3
    MaxPlanned = 3
    MaxLinks = 4
    Item = {1, 2, 3}
    MaxItems = 5
    Datum = {"p", "q", "r"}
    BytesOf <- MCBytesOf
    BitsOf <- MCBitsOf
    RankOf <- MCRankOf
    MaxLeaves = 5
    MapKey = {1, 2, 3}
    MapValue = {"x", "y"}
    MaxKeys = 4
    MaxMemtable = 1
    Threshold = 4
    Word <- MCWord
    Text <- MCText
    Term = {"a", "b"}
    DocId = {"d", "e"}
    DocText <- MCDocText
    MaxWords = 3
    MaxDocs = 2
    Vocabulary = {"p", "q", "r"}
    Digest <- MCDigest
    DigestBits <- MCDigestBits
    Bands = 2
    Largest = 99
    MaxSets = 3
INVARIANTS AcceptedOnceInOrder DeliveredInOrder LookupsHold AgentsAccountForObjects StoredDataIsWhole ReportsAccounted CrawlIsBounded SessionsAreBacked SchedulesAreSound StructuresAnswerTruly LibraryIsExact StaysAlive GoneIsNoticed
PROPERTIES SchedulerHonest JobsSettle
CHECK_DEADLOCK FALSE
