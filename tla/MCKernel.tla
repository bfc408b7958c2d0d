------------------------------ MODULE MCKernel ------------------------------
(* The kernel's services, managers, stores and agents, the algorithms its  *)
(* processors run and what runs beside it, side by side.  Each is built    *)
(* for itself and none calls another: a behaviour exercises one.           *)
EXTENDS KernelServices, KernelRegistries, BuiltinAgents, PersistentStores,
        Monitoring, Crawler, CollectApi, EventBuses, ClusterMembership, TLC,
        GraphAlgorithms, TaskScheduling, StorageStructures, TextStructures, SimilarityMeasures

VARIABLE part  \* what the behaviour exercises
CONSTANTS p1, p2, p3, i1, i2, d1, d2, n1, x, y, m1, m2

MCDescriptorId == (p1 :> i1) @@ (p2 :> i1) @@ (p3 :> i2)
MCNameOf == (d1 :> n1) @@ (d2 :> n1)
MCOffers == (d1 :> {x}) @@ (d2 :> {y})

MCProvides == "http" :> 2
MCRegistrations == {{"architecture"}, {"research", "malware"}, {"documentation", "forensics"},
                    {"monitoring"}}

MCPaths == {<<"d">>, <<"d", "f">>, <<"d", "g">>, <<"d", "f", "g">>}
MCTypeOfAggregate == [a \in {"a", "b"} |-> "T"]

MCRegistered == {<<"cve", "threat">>, <<"package", "api">>, <<"onion", "repository">>, <<"organization">>}

On(host, path) == <<"https:", "", host>> \o path
MCSeeds == {On("h", <<"">>), On("h", <<"d", "">>)}
Element(tag, form, ups, path) == [tag |-> tag, href |-> [form |-> form, ups |-> ups, path |-> path]]
MCPages ==
    {<<Element("img", "root", 0, <<"c.pdf">>), Element("a", "relative", 0, <<"p">>)>>,
     <<Element("a", "absolute", 0, On("s", <<"q">>)), Element("form", "absolute", 0, On("o", <<"q">>))>>,
     <<Element("a", "relative", 2, <<"p">>), Element("a", "fragment", 0, <<>>)>>}
MCSubdomainOf == "s" :> "h"

MCUrlOf == [r \in {"r1", "r2"} |-> "u"]
MCTopicOf == (m1 :> "alerts") @@ (m2 :> "metrics")

-----------------------------------------------------------------------------
(* The algorithm library, which processors/src/algorithm_engine.rs runs,   *)
(* on small inputs.                                                        *)
MCBytesOf == ("p" :> <<"p">>) @@ ("q" :> <<"q">>) @@ ("r" :> <<HashBytes(<<"p">>), HashBytes(<<"q">>)>>)
MCBitsOf == ("p" :> {0, 2}) @@ ("q" :> {1, 2}) @@ ("r" :> {0, 1})
MCRankOf == ("p" :> <<0, 1>>) @@ ("q" :> <<0, 2>>) @@ ("r" :> <<1, 1>>)
MCDigest == ("p" :> <<1, 5, 9>>) @@ ("q" :> <<2, 4, 9>>) @@ ("r" :> <<1, 6, 3>>)
MCDigestBits == ("p" :> <<1, 0, 1>>) @@ ("q" :> <<0, 0, 1>>) @@ ("r" :> <<1, 1, 0>>)
Strings(lengths) == UNION {[1..n -> {97, 98}] : n \in lengths}
MCWord == Strings(1..3) \cup {<<195, 168>>, <<195, 169>>, <<97, 195, 168>>, <<97, 195, 169>>}
MCText == Strings(0..4)
MCDocText == {<<"a", "b", "a">>, <<"b">>, <<>>}

-----------------------------------------------------------------------------
algorithmVars == <<graphVars, scheduleVars, storageVars, textVars, similarityVars>>
AlgorithmParts == {"graph", "heap", "pool", "plan", "merkle", "sketch", "tree", "lsm",
                   "words", "corpus", "postings", "similarity"}
AlgorithmsInit == GraphInit /\ ScheduleInit /\ StorageInit /\ TextInit /\ SimilarityInit

Exercises(p, others) == part = p /\ UNCHANGED <<part, others>>
Schedule(p) == Exercises(p, <<graphVars, storageVars, textVars, similarityVars>>)
Structure(p) == Exercises(p, <<graphVars, scheduleVars, textVars, similarityVars>>)
Index(p) == Exercises(p, <<graphVars, scheduleVars, storageVars, similarityVars>>)
AlgorithmsNext ==
    \/ Exercises("graph", <<scheduleVars, storageVars, textVars, similarityVars>>) /\ GraphNext
    \/ Schedule("heap") /\ HeapNext
    \/ Schedule("pool") /\ PoolNext
    \/ Schedule("plan") /\ PlanNext
    \/ Structure("merkle") /\ MerkleNext
    \/ Structure("sketch") /\ SketchNext
    \/ Structure("tree") /\ TreeNext
    \/ Structure("lsm") /\ LsmNext
    \/ Index("words") /\ WordsNext
    \/ Index("corpus") /\ CorpusNext
    \/ Index("postings") /\ PostingsNext
    \/ Exercises("similarity", <<graphVars, scheduleVars, storageVars, textVars>>) /\ SimilarityNext

(* What needs no history: the algorithms on graphs agree with one another  *)
(* and with the reference (graphs.rs), the indexes of texts find what is   *)
(* in them (searching.rs), with the exceptions named there, and the        *)
(* measures of likeness treat two things alike whichever way round they    *)
(* are given (similarity.rs).                                              *)
LibraryIsExact ==
    /\ part = "graph" => GraphAnswersAgree
    /\ part \in {"words", "corpus", "postings"} => LookupsAreExact
    /\ part = "similarity" => MeasuresAgree

-----------------------------------------------------------------------------
besidesVars == <<agentVars, storesVars, monitoringVars, crawlerVars, collectVars, busVars,
                 membershipVars>>
vars == <<servicesVars, registriesVars, besidesVars, algorithmVars, part>>

Parts == {"scheduler", "ipc", "events", "objects", "maps", "plugins", "drivers", "memory",
          "agents", "pg_objects", "pg_snapshots", "storage", "monitoring", "crawler", "collect",
          "broadcast", "stream", "membership"} \cup AlgorithmParts

Init ==
    /\ part \in Parts
    /\ ServicesInit /\ RegistriesInit
    /\ AgentsInit /\ StoresInit /\ MonitoringInit /\ CrawlerInit /\ CollectInit /\ BusesInit
    /\ MembershipInit
    /\ AlgorithmsInit
    /\ part # "storage" => inDirectory
    /\ part # "agents" => registered = {"architecture"}
    /\ part # "monitoring" => watchers = <<"organization">>

Service(p, others) == Exercises(p, <<others, registriesVars, besidesVars, algorithmVars>>)
Registry(p, others) == Exercises(p, <<others, servicesVars, besidesVars, algorithmVars>>)
Beside(p, others) ==
    Exercises(p, <<others, servicesVars, registriesVars, algorithmVars, membershipVars>>)
Next ==
    \/ Service("scheduler", <<ipcVars, eventVars, drawn>>) /\ SchedulerNext
    \/ Service("ipc", <<schedulerVars, eventVars>>) /\ IpcNext
    \/ Service("events", <<schedulerVars, ipcVars>>) /\ EventManagerNext
    \/ Registry("objects", <<mapVars, pluginVars, driverVars, memoryVars>>) /\ ObjectNext
    \/ Registry("maps", <<objectVars, pluginVars, driverVars, memoryVars>>) /\ MapNext
    \/ Registry("plugins", <<objectVars, mapVars, driverVars, memoryVars>>) /\ PluginNext
    \/ Registry("drivers", <<objectVars, mapVars, pluginVars, memoryVars>>) /\ DriverNext
    \/ Registry("memory", <<objectVars, mapVars, pluginVars, driverVars>>) /\ MemoryNext
    \/ Beside("agents", <<storesVars, monitoringVars, crawlerVars, collectVars, busVars>>) /\ AgentsNext
    \/ /\ Beside(part, <<agentVars, monitoringVars, crawlerVars, collectVars, busVars>>)
       /\ \/ part = "pg_objects" /\ PgObjectNext /\ UNCHANGED <<pgSnaps, saves, fileVars>>
          \/ part = "pg_snapshots" /\ PgSnapshotNext /\ UNCHANGED <<pgObjects, pgLinks, givenIds, fileVars>>
          \/ /\ part = "storage" /\ StorageFileNext
             /\ UNCHANGED <<pgObjects, pgLinks, givenIds, pgSnaps, saves, inDirectory>>
    \/ Beside("monitoring", <<agentVars, storesVars, crawlerVars, collectVars, busVars>>) /\ MonitoringNext
    \/ Beside("crawler", <<agentVars, storesVars, monitoringVars, collectVars, busVars>>) /\ CrawlerNext
    \/ Beside("collect", <<agentVars, storesVars, monitoringVars, crawlerVars, busVars>>) /\ CollectNext
    \/ Beside("broadcast", <<agentVars, storesVars, monitoringVars, crawlerVars, collectVars, streamVars>>)
       /\ BroadcastNext
    \/ Beside("stream", <<agentVars, storesVars, monitoringVars, crawlerVars, collectVars, broadcastVars>>)
       /\ StreamNext
    \/ /\ Exercises("membership", <<servicesVars, registriesVars, algorithmVars, agentVars, storesVars,
                                    monitoringVars, crawlerVars, collectVars, busVars>>)
       /\ MembershipNext
    \/ AlgorithmsNext /\ UNCHANGED <<servicesVars, registriesVars, besidesVars>>

(* A job's own thread is scheduled by the operating system.                *)
FairSpec == Init /\ [][Next]_vars
            /\ \A j \in Job : WF_vars(Wake(j) /\ Next) /\ WF_vars((TaskReturns(j) \/ TaskPanics(j)) /\ Next)
=============================================================================
