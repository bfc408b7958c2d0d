---------------------------- MODULE KernelProofs ----------------------------
(***************************************************************************)
(* What holds of the kernel's services, managers, buses, stores and agents,*)
(* of the collection API, of the crawler and of the library's storage      *)
(* structures for any number of threads, jobs, endpoints, subscribers,     *)
(* requests, drivers, pages, paths, leaves and keys, and whatever the      *)
(* bounds of the runs are.                                                 *)
(***************************************************************************)
EXTENDS KernelServices, EventBuses, KernelRegistries, CollectApi, Crawler,
        PersistentStores, Monitoring, BuiltinAgents, StorageStructures, FiniteSetTheorems,
        SequenceTheorems, WellFoundedInduction, TLAPS

-----------------------------------------------------------------------------
(* The scheduler: a job that counts as running has a thread in its task,   *)
(* or one that panicked in it.                                             *)
RunningAttended == \A j \in Job : jobs[j] = "Running" => thread[j] \in {"body", "panicked"}

SchedulerInv ==
    /\ jobs \in [Job -> JobStatus]
    /\ thread \in [Job -> {"none", "asleep", "body", "ended", "panicked"}]
    /\ RunningAttended

LEMMA SchedulerInductive == SchedulerInv /\ [ServicesNext]_servicesVars => SchedulerInv'
<1> SUFFICES ASSUME SchedulerInv, [ServicesNext]_servicesVars PROVE SchedulerInv'
    OBVIOUS
<1>1. CASE UNCHANGED schedulerVars
    BY <1>1 DEF SchedulerInv, RunningAttended, schedulerVars
<1>2. CASE SchedulerNext
    <2>1. PICK j \in Job : \/ Spawn(j) \/ ScheduleAfter(j) \/ Wake(j)
                           \/ TaskReturns(j) \/ TaskPanics(j) \/ CancelJob(j)
        BY <1>2 DEF SchedulerNext
    <2> USE DEF SchedulerInv, RunningAttended, JobStatus
    <2>2. CASE Spawn(j)          BY <2>2 DEF Spawn
    <2>3. CASE ScheduleAfter(j)  BY <2>3 DEF ScheduleAfter
    <2>4. CASE Wake(j)           BY <2>4 DEF Wake
    <2>5. CASE TaskReturns(j)    BY <2>5 DEF TaskReturns
    <2>6. CASE TaskPanics(j)     BY <2>6 DEF TaskPanics
    <2>7. CASE CancelJob(j)      BY <2>7 DEF CancelJob
    <2> QED BY <2>1, <2>2, <2>3, <2>4, <2>5, <2>6, <2>7
<1> QED BY <1>1, <1>2 DEF ServicesNext, servicesVars, schedulerVars

LEMMA SchedulerInvariant == ServicesSpec => []SchedulerInv
<1>1. ServicesInit => SchedulerInv
    BY DEF ServicesInit, SchedulerInv, RunningAttended, JobStatus
<1> QED BY <1>1, SchedulerInductive, PTL DEF ServicesSpec

(* A cancelled job stays cancelled and does not start after its delay, and *)
(* one that counts as running has a thread (scheduler.rs, cancel against   *)
(* the thread's last set_status).                                          *)
THEOREM ServicesSchedulerHonest == ServicesSpec => SchedulerHonest
<1> DEFINE Honest ==
        /\ \A j \in Job : jobs[j] = "Cancelled" =>
              jobs'[j] = "Cancelled" /\ (thread[j] = "asleep" => thread'[j] # "body")
        /\ \A j \in RunningCount' : thread'[j] \in {"body", "panicked"}
<1>1. SchedulerInv /\ SchedulerInv' /\ [ServicesNext]_servicesVars => [Honest]_servicesVars
    <2> SUFFICES ASSUME SchedulerInv, SchedulerInv', ServicesNext PROVE Honest
        OBVIOUS
    <2>1. \A j \in RunningCount' : thread'[j] \in {"body", "panicked"}
        BY DEF SchedulerInv, RunningAttended, RunningCount
    <2>2. ASSUME NEW k \in Job, jobs[k] = "Cancelled"
          PROVE jobs'[k] = "Cancelled" /\ (thread[k] = "asleep" => thread'[k] # "body")
        <3>1. CASE UNCHANGED schedulerVars
            BY <2>2, <3>1 DEF schedulerVars
        <3>2. CASE SchedulerNext
            <4>1. PICK j \in Job : \/ Spawn(j) \/ ScheduleAfter(j) \/ Wake(j)
                                   \/ TaskReturns(j) \/ TaskPanics(j) \/ CancelJob(j)
                BY <3>2 DEF SchedulerNext
            <4> QED BY <2>2, <4>1 DEF Spawn, ScheduleAfter, Wake, TaskReturns, TaskPanics,
                                      CancelJob, SchedulerInv
        <3> QED BY <3>1, <3>2 DEF ServicesNext
    <2> QED BY <2>1, <2>2
<1>2. ServicesSpec => [][Honest]_servicesVars
    BY <1>1, SchedulerInvariant, PTL DEF ServicesSpec
<1> QED BY <1>2 DEF SchedulerHonest

-----------------------------------------------------------------------------
(* The message passing between endpoints.                                  *)
IpcInv ==
    /\ sending \in [Sender -> Endpoint \cup {Nothing}]
    /\ mailboxes \in [Endpoint -> Seq(Sender)]
    /\ accepted \in [Endpoint -> Seq(Sender)] /\ received \in [Endpoint -> Seq(Sender)]
    /\ AcceptedOnceInOrder

LEMMA ConcatOfAppend ==
    ASSUME NEW S, NEW s \in Seq(S), NEW t \in Seq(S), NEW x \in S
    PROVE  s \o Append(t, x) = Append(s \o t, x)
OBVIOUS

LEMMA IpcInductive == IpcInv /\ [ServicesNext]_servicesVars => IpcInv'
<1> SUFFICES ASSUME IpcInv, [ServicesNext]_servicesVars PROVE IpcInv'
    OBVIOUS
<1> USE DEF IpcInv, AcceptedOnceInOrder
<1>1. CASE UNCHANGED <<sending, mailboxes, accepted, received>>
    BY <1>1
<1>2. ASSUME NEW e \in Endpoint, Receive(e) PROVE IpcInv'
    <2>1. mailboxes' = [mailboxes EXCEPT ![e] = <<>>]
          /\ received' = [received EXCEPT ![e] = received[e] \o mailboxes[e]]
          /\ UNCHANGED <<sending, accepted>>
        BY <1>2 DEF Receive
    <2>2. received[e] \o mailboxes[e] \in Seq(Sender) /\ <<>> \in Seq(Sender)
          /\ (received[e] \o mailboxes[e]) \o <<>> = received[e] \o mailboxes[e]
        OBVIOUS
    <2>3. \A f \in Endpoint : received'[f] \o mailboxes'[f] = received[f] \o mailboxes[f]
        BY <2>1, <2>2
    <2>4. received' \in [Endpoint -> Seq(Sender)] /\ mailboxes' \in [Endpoint -> Seq(Sender)]
        BY <2>1, <2>2
    <2> QED BY <2>1, <2>3, <2>4
<1>3. ASSUME NEW s \in Sender, SendPush(s) PROVE IpcInv'
    <2>1. PICK e \in Endpoint : e = sending[s]
        BY <1>3 DEF SendPush
    <2>2. /\ mailboxes' = [mailboxes EXCEPT ![e] = Append(mailboxes[e], s)]
          /\ accepted' = [accepted EXCEPT ![e] = Append(accepted[e], s)]
          /\ sending' = [sending EXCEPT ![s] = Nothing] /\ UNCHANGED received
        BY <1>3, <2>1 DEF SendPush
    <2>3. Append(mailboxes[e], s) \in Seq(Sender) /\ Append(accepted[e], s) \in Seq(Sender)
        OBVIOUS
    <2>4. received[e] \o Append(mailboxes[e], s) = Append(received[e] \o mailboxes[e], s)
        BY ConcatOfAppend
    <2>5. \A f \in Endpoint : received'[f] \o mailboxes'[f] = accepted'[f]
        BY <2>2, <2>4
    <2>6. mailboxes' \in [Endpoint -> Seq(Sender)] /\ accepted' \in [Endpoint -> Seq(Sender)]
          /\ sending' \in [Sender -> Endpoint \cup {Nothing}]
        BY <2>2, <2>3
    <2> QED BY <2>2, <2>5, <2>6
<1>4. ASSUME NEW s \in Sender, NEW e \in Endpoint, SendLookup(s, e) PROVE IpcInv'
    BY <1>4 DEF SendLookup
<1>5. ASSUME NEW e \in Endpoint, RegisterEndpoint(e) \/ UnregisterEndpoint(e) PROVE IpcInv'
    BY <1>5 DEF RegisterEndpoint, UnregisterEndpoint
<1>6. CASE IpcNext
    BY <1>2, <1>3, <1>4, <1>5, <1>6 DEF IpcNext
<1> QED BY <1>1, <1>6 DEF ServicesNext, servicesVars, ipcVars

(* What an endpoint received and what waits for it is what send accepted,  *)
(* once and in order (ipc.rs, send's two locks against unregister and      *)
(* receive).                                                               *)
THEOREM ServicesAcceptedOnceInOrder == ServicesSpec => []AcceptedOnceInOrder
<1>1. ServicesInit => IpcInv
    <2> SUFFICES ASSUME ServicesInit PROVE IpcInv
        OBVIOUS
    <2>1. <<>> \in Seq(Sender) /\ <<>> \o <<>> = <<>>
        OBVIOUS
    <2> QED BY <2>1 DEF ServicesInit, IpcInv, AcceptedOnceInOrder
<1>2. IpcInv => AcceptedOnceInOrder
    BY DEF IpcInv
<1> QED BY <1>1, <1>2, IpcInductive, PTL DEF ServicesSpec

-----------------------------------------------------------------------------
(* The registry of drivers.                                                *)
LEMMA DriversInductive == ExecutedIsOffered /\ [RegistriesNext]_registriesVars => ExecutedIsOffered'
<1> SUFFICES ASSUME ExecutedIsOffered, [RegistriesNext]_registriesVars PROVE ExecutedIsOffered'
    OBVIOUS
<1>1. CASE UNCHANGED executed
    BY <1>1 DEF ExecutedIsOffered
<1>2. ASSUME NEW c \in Caller, NEW ability \in Ability, ExecuteRun(c, ability) PROVE ExecutedIsOffered'
    <2>1. executed' \subseteq executed \cup
             (IF ability \in Offers[executing[c]] THEN {<<executing[c], ability>>} ELSE {})
        BY <1>2 DEF ExecuteRun, Runs
    <2> QED BY <2>1 DEF ExecutedIsOffered
<1>3. CASE DriverNext
    BY <1>1, <1>2, <1>3 DEF DriverNext, RegisterDriver, RegisterProcessor, UnregisterDriver,
                            UnregisterProcessor, ExecuteGet
<1> QED BY <1>1, <1>3 DEF RegistriesNext, registriesVars, driverVars

(* The allocator: a total that the peak has not reached is known to a      *)
(* thread that is between its fetch_add and its fetch_max.                 *)
StillToMax == \E c \in Caller : allocating[c][1] = "added" \/ allocating[c] = <<"loaded", allocated>>

PeakInv ==
    /\ allocated \in Nat /\ peak \in 0..allocated
    /\ allocating \in [Caller -> {"idle", "added", "loaded"} \X (0..allocated)]
    /\ peak < allocated => StillToMax

LEMMA PeakInductive == PeakInv /\ [RegistriesNext]_registriesVars => PeakInv'
<1> SUFFICES ASSUME PeakInv, [RegistriesNext]_registriesVars PROVE PeakInv'
    OBVIOUS
<1> USE DEF PeakInv, StillToMax
<1>1. CASE UNCHANGED <<allocated, peak, allocating>>
    BY <1>1
<1>2. ASSUME NEW c \in Caller, NEW size \in 0..2, AllocateAdd(c, size) PROVE PeakInv'
    <2>1. Counted(size) \in Nat \ {0}
        BY DEF Counted
    <2>2. /\ allocated' = allocated + Counted(size) /\ peak' = peak
          /\ allocating' = [allocating EXCEPT ![c] = <<"added", 0>>]
        BY <1>2 DEF AllocateAdd
    <2>3. allocated' \in Nat /\ allocated < allocated' /\ peak' \in 0..allocated'
        BY <2>1, <2>2
    <2>4. {"idle", "added", "loaded"} \X (0..allocated) \subseteq {"idle", "added", "loaded"} \X (0..allocated')
        BY <2>3
    <2>5. allocating' \in [Caller -> {"idle", "added", "loaded"} \X (0..allocated')]
        BY <2>2, <2>3, <2>4
    <2>6. allocating'[c][1] = "added"
        BY <2>2
    <2> QED BY <2>3, <2>5, <2>6
<1>3. ASSUME NEW c \in Caller, AllocateLoad(c) PROVE PeakInv'
    BY <1>3 DEF AllocateLoad
<1>4. ASSUME NEW c \in Caller, AllocatePeak(c) PROVE PeakInv'
    <2>1. /\ allocating[c][1] = "loaded" /\ allocating[c][2] \in 0..allocated
          /\ allocating[c] = <<"loaded", allocating[c][2]>>
          /\ allocating' = [allocating EXCEPT ![c] = <<"idle", 0>>] /\ allocated' = allocated
          /\ peak' = IF allocating[c][2] > peak THEN allocating[c][2] ELSE peak
        BY <1>4 DEF AllocatePeak
    <2>2. peak' \in 0..allocated' /\ peak <= peak'
        BY <2>1
    <2>3. allocating' \in [Caller -> {"idle", "added", "loaded"} \X (0..allocated')]
        BY <2>1
    <2>4. peak' < allocated' => StillToMax'
        <3> SUFFICES ASSUME peak' < allocated' PROVE StillToMax'
            OBVIOUS
        <3>1. allocating[c][2] # allocated /\ peak < allocated
            BY <2>1, <2>2
        <3>2. PICK d \in Caller : allocating[d][1] = "added" \/ allocating[d] = <<"loaded", allocated>>
            BY <3>1
        <3>3. d # c
            BY <2>1, <3>1, <3>2
        <3>4. allocating'[d] = allocating[d] /\ allocated' = allocated
            BY <2>1, <3>3
        <3> QED BY <3>2, <3>4
    <2> QED BY <2>1, <2>2, <2>3, <2>4
<1>5. CASE MemoryNext
    BY <1>1, <1>2, <1>3, <1>4, <1>5 DEF MemoryNext, TrackDeallocation
<1> QED BY <1>1, <1>5 DEF RegistriesNext, registriesVars, memoryVars

(* A driver executes what it offers, whoever is registered under its name  *)
(* meanwhile (driver.rs, execute), and the peak of the allocator is its    *)
(* total once no allocate is under way (memory.rs, fetch_max).             *)
THEOREM RegistriesLookupsHold == RegistriesSpec => []LookupsHold
<1>1. RegistriesInit => ExecutedIsOffered /\ PeakInv
    BY DEF RegistriesInit, ExecutedIsOffered, PeakInv, StillToMax
<1>2. PeakInv => PeakIsTotal
    <2> SUFFICES ASSUME PeakInv PROVE PeakIsTotal
        OBVIOUS
    <2>1. ASSUME \A c \in Caller : allocating[c][1] = "idle" PROVE ~ StillToMax
        BY <2>1 DEF StillToMax
    <2> QED BY <2>1 DEF PeakInv, PeakIsTotal
<1> QED BY <1>1, <1>2, DriversInductive, PeakInductive, PTL DEF RegistriesSpec, LookupsHold

-----------------------------------------------------------------------------
(* The collection API.  What the statements behind a request's handler     *)
(* have left in the tables, statement by statement.                        *)
LeftBehind(r) ==
    /\ handler[r] \in {"new", "service", "session"} => session[r] = Nothing
    /\ handler[r] \in {"session", "download", "store", "artifact", "event", "complete"}
          => UrlOf[r] \in services
    /\ handler[r] \in {"download", "store", "artifact", "event", "complete"} => session[r] = "running"
    /\ handler[r] \in {"artifact", "event", "complete"} => r \in blobs
    /\ handler[r] \in {"event", "complete"} => r \in artifacts
    /\ handler[r] = "complete" => r \in completedEvents
    /\ handler[r] \in {"new", "service", "session", "download", "store", "artifact", "event"}
          => r \notin completedEvents
    /\ handler[r] \in {"new", "service", "session", "download", "store", "artifact", "event", "complete"}
          => answered[r] = Nothing /\ r \notin failing

(* A failure that still has to be written belongs to a handler that has    *)
(* answered and will not write any more.                                   *)
ToBeMarked(r) ==
    r \in failing => /\ handler[r] = "done" /\ session[r] = "running" /\ r \notin completedEvents
                     /\ answered[r] \in {"BadRequest", "Internal"}

Backed(r) ==
    /\ session[r] # Nothing => UrlOf[r] \in services
    /\ r \in artifacts => r \in blobs /\ session[r] # Nothing
    /\ session[r] = "completed" => r \in artifacts /\ r \in completedEvents
    /\ session[r] = "failed" => r \notin completedEvents /\ answered[r] \in {"BadRequest", "Internal"}
    /\ answered[r] = "Ok" => session[r] = "completed"
    /\ session[r] = "running" /\ handler[r] = "done" => r \in failing \cup unmarked \cup artifacts \cup unknown

CollectInv ==
    /\ handler \in [Request -> Statements \cup {"new", "done", "dropped"}]
    /\ session \in [Request -> {Nothing, "running", "completed", "failed"}]
    /\ answered \in [Request -> {Nothing, "Ok", "BadRequest", "Internal"}]
    /\ \A r \in Request : LeftBehind(r) /\ ToBeMarked(r) /\ Backed(r)

LEMMA StatementsAre ==
    /\ Statements = {"service", "session", "download", "store", "artifact", "event", "complete"}
    /\ After["service"] = "session" /\ After["session"] = "download" /\ After["download"] = "store"
    /\ After["store"] = "artifact" /\ After["artifact"] = "event" /\ After["event"] = "complete"
    /\ After["complete"] = "done"
BY DEF Statements, After

(* What a set of statements leaves, for each request.                      *)
EffectOn(took, marked, r) ==
    /\ UrlOf[r] \in services => UrlOf[r] \in services'
    /\ r \in took /\ handler[r] = "service" => UrlOf[r] \in services'
    /\ session'[r] = IF r \in took /\ handler[r] = "session" THEN "running"
                     ELSE IF r \in took /\ handler[r] = "complete" THEN "completed"
                     ELSE IF r \in marked THEN "failed" ELSE session[r]
    /\ r \in blobs' <=> r \in blobs \/ (r \in took /\ handler[r] = "store")
    /\ r \in artifacts' <=> r \in artifacts \/ (r \in took /\ handler[r] = "artifact")
    /\ r \in completedEvents' <=> r \in completedEvents \/ (r \in took /\ handler[r] = "event")

LEMMA EffectOfStatements ==
    ASSUME CollectInv, NEW took \in SUBSET Request, NEW marked \in SUBSET Request, Effect(took, marked)
    PROVE  /\ session' \in [Request -> {Nothing, "running", "completed", "failed"}]
           /\ \A r \in Request : EffectOn(took, marked, r)
BY DEF Effect, EffectOn, HandlersAt, CollectInv

LEMMA CollectInductive == CollectInv /\ [CollectNext]_collectVars => CollectInv'
<1> SUFFICES ASSUME CollectInv, [CollectNext]_collectVars PROVE CollectInv'
    OBVIOUS
<1> USE CollectAssumption
<1>1. CASE UNCHANGED collectVars
    BY <1>1 DEF collectVars, CollectInv, LeftBehind, ToBeMarked, Backed
<1>2. CASE ServiceCrashes
    <2> DEFINE running == {r \in Request : handler[r] \in Statements}
    <2>1. /\ handler' = [r \in Request |-> IF r \in running THEN "dropped" ELSE handler[r]]
          /\ failing' = {} /\ UNCHANGED <<answered, unknown>>
        BY <1>2 DEF ServiceCrashes
    <2>2. PICK took \in SUBSET running, marked \in SUBSET failing :
              Effect(took, marked) /\ unmarked' = unmarked \cup (failing \ marked)
        BY <1>2 DEF ServiceCrashes
    <2> DEFINE failed == marked \cap Request
    <2>3. took \in SUBSET Request /\ failed \in SUBSET Request /\ Effect(took, failed)
        BY <2>2 DEF Effect, CollectInv
    <2>0. /\ session' \in [Request -> {Nothing, "running", "completed", "failed"}]
          /\ \A q \in Request : EffectOn(took, failed, q)
        BY <2>3, EffectOfStatements
    <2>4. /\ handler' \in [Request -> Statements \cup {"new", "done", "dropped"}]
          /\ \A r \in Request : handler'[r] = IF handler[r] \in Statements THEN "dropped" ELSE handler[r]
        BY <2>1 DEF CollectInv
    <2>5. \A r \in took : handler[r] \in Statements
        BY <2>2
    <2>6. failed \subseteq failing /\ \A r \in Request : r \in failing => r \in unmarked' \/ r \in failed
        BY <2>2
    <2> HIDE DEF running, failed
    <2>7. ASSUME NEW r \in Request PROVE LeftBehind(r)' /\ ToBeMarked(r)' /\ Backed(r)'
        <3>1. CASE handler[r] \in Statements
            <4>1. handler'[r] = "dropped" /\ r \notin failing /\ r \notin failed
                BY <2>4, <2>6, <3>1, StatementsAre DEF CollectInv, ToBeMarked
            <4> QED BY <2>1, <2>0, <3>1, <4>1, StatementsAre
                    DEF EffectOn, CollectInv, LeftBehind, ToBeMarked, Backed
        <3>2. CASE handler[r] \notin Statements
            <4>1. handler'[r] = handler[r] /\ r \notin took
                BY <2>4, <2>5, <3>2
            <4> QED BY <2>1, <2>2, <2>0, <2>6, <3>2, <4>1, StatementsAre
                    DEF EffectOn, CollectInv, LeftBehind, ToBeMarked, Backed
        <3> QED BY <3>1, <3>2
    <2> QED BY <2>1, <2>0, <2>4, <2>7 DEF CollectInv
<1>3. ASSUME NEW r \in Request, Arrive(r) PROVE CollectInv'
    BY <1>3, StatementsAre DEF Arrive, CollectInv, LeftBehind, ToBeMarked, Backed
<1>4. ASSUME NEW r \in Request, NEW took \in SUBSET {r}, ClientGone(r, took) PROVE CollectInv'
    <2>1. took \in SUBSET Request /\ {} \in SUBSET Request /\ Effect(took, {})
        BY <1>4 DEF ClientGone
    <2>0. /\ session' \in [Request -> {Nothing, "running", "completed", "failed"}]
          /\ \A q \in Request : EffectOn(took, {}, q)
        BY <2>1, EffectOfStatements
    <2>2. /\ handler' = [handler EXCEPT ![r] = "dropped"] /\ handler[r] \in Statements
          /\ UNCHANGED <<failing, answered, unmarked, unknown>>
        BY <1>4 DEF ClientGone
    <2>3. ASSUME NEW q \in Request PROVE LeftBehind(q)' /\ ToBeMarked(q)' /\ Backed(q)'
        <3>1. CASE q = r
            BY <2>0, <2>2, <3>1, StatementsAre
               DEF EffectOn, CollectInv, LeftBehind, ToBeMarked, Backed
        <3>2. CASE q # r
            <4>1. q \notin took /\ handler'[q] = handler[q]
                BY <2>2, <3>2 DEF CollectInv
            <4> QED BY <2>0, <2>2, <4>1 DEF EffectOn, CollectInv, LeftBehind, ToBeMarked, Backed
        <3> QED BY <3>1, <3>2
    <2> QED BY <2>0, <2>2, <2>3 DEF CollectInv
<1>5. ASSUME NEW r \in Request, NEW ok \in BOOLEAN, FailSession(r, ok) PROVE CollectInv'
    <2> DEFINE marked == IF ok THEN {r} ELSE {}
    <2>1. {} \in SUBSET Request /\ marked \in SUBSET Request /\ Effect({}, marked)
        BY <1>5 DEF FailSession
    <2>0. /\ session' \in [Request -> {Nothing, "running", "completed", "failed"}]
          /\ \A q \in Request : EffectOn({}, marked, q)
        BY <2>1, EffectOfStatements
    <2>2. /\ r \in failing /\ failing' = failing \ {r} /\ UNCHANGED <<handler, answered, unknown>>
          /\ unmarked' = IF ok THEN unmarked ELSE unmarked \cup {r}
          /\ \A q \in Request : q \in marked <=> ok /\ q = r
        BY <1>5 DEF FailSession
    <2> HIDE DEF marked
    <2>3. ASSUME NEW q \in Request PROVE LeftBehind(q)' /\ ToBeMarked(q)' /\ Backed(q)'
        BY <2>0, <2>2, StatementsAre DEF EffectOn, CollectInv, LeftBehind, ToBeMarked, Backed
    <2> QED BY <2>0, <2>2, <2>3 DEF CollectInv
<1>6. ASSUME NEW r \in Request, NEW took \in SUBSET {r}, CollectFails(r, took) PROVE CollectInv'
    <2>1. took \in SUBSET Request /\ {} \in SUBSET Request /\ Effect(took, {})
        BY <1>6 DEF CollectFails
    <2>0. /\ session' \in [Request -> {Nothing, "running", "completed", "failed"}]
          /\ \A q \in Request : EffectOn(took, {}, q)
        BY <2>1, EffectOfStatements
    <2>2. /\ handler' = [handler EXCEPT ![r] = "done"] /\ handler[r] \in Statements
          /\ failing' = IF handler[r] \in FailSessionAfter THEN failing \cup {r} ELSE failing
          /\ unknown \subseteq unknown' /\ (r \in took /\ handler[r] = "session" => r \in unknown')
          /\ answered' = [answered EXCEPT ![r] = IF handler[r] = "download" THEN "BadRequest" ELSE "Internal"]
          /\ unmarked' = unmarked
        BY <1>6 DEF CollectFails, HandlersAt
    <2>3. ASSUME NEW q \in Request PROVE LeftBehind(q)' /\ ToBeMarked(q)' /\ Backed(q)'
        <3>1. CASE q = r
            <4>1. handler'[r] = "done" /\ answered'[r] \in {"BadRequest", "Internal"} /\ answered'[r] # "Ok"
                BY <2>2 DEF CollectInv
            <4>2. r \in failing' <=> handler[r] \in {"download", "store", "artifact"}
                BY <2>2, StatementsAre DEF CollectInv, LeftBehind, FailSessionAfter
            <4> QED BY <2>0, <2>2, <3>1, <4>1, <4>2, StatementsAre
                    DEF EffectOn, CollectInv, LeftBehind, ToBeMarked, Backed
        <3>2. CASE q # r
            <4>1. /\ q \notin took /\ handler'[q] = handler[q] /\ answered'[q] = answered[q]
                  /\ q \in failing' <=> q \in failing
                BY <2>2, <3>2 DEF CollectInv
            <4> QED BY <2>0, <2>2, <4>1 DEF EffectOn, CollectInv, LeftBehind, ToBeMarked, Backed
        <3> QED BY <3>1, <3>2
    <2> QED BY <2>0, <2>2, <2>3 DEF CollectInv
<1>7. ASSUME NEW r \in Request, CollectStep(r) PROVE CollectInv'
    <2>1. {r} \in SUBSET Request /\ {} \in SUBSET Request /\ Effect({r}, {})
        BY <1>7 DEF CollectStep
    <2>0. /\ session' \in [Request -> {Nothing, "running", "completed", "failed"}]
          /\ \A q \in Request : EffectOn({r}, {}, q)
        BY <2>1, EffectOfStatements
    <2>2. ASSUME NEW q \in Request PROVE LeftBehind(q)' /\ ToBeMarked(q)' /\ Backed(q)'
        <3>1. CASE q = r
            BY <1>7, <2>0, <3>1, StatementsAre
               DEF EffectOn, CollectStep, CollectInv, LeftBehind, ToBeMarked, Backed
        <3>2. CASE q # r
            <4>1. q \notin {r}
                BY <3>2
            <4> QED BY <1>7, <2>0, <3>2, <4>1, StatementsAre
                    DEF EffectOn, CollectStep, CollectInv, LeftBehind, ToBeMarked, Backed
        <3> QED BY <3>1, <3>2
    <2>3. /\ handler' \in [Request -> Statements \cup {"new", "done", "dropped"}]
          /\ answered' \in [Request -> {Nothing, "Ok", "BadRequest", "Internal"}]
        BY <1>7, StatementsAre DEF CollectStep, CollectInv
    <2> QED BY <2>0, <2>2, <2>3 DEF CollectInv
<1> QED BY <1>1, <1>2, <1>3, <1>4, <1>5, <1>6, <1>7 DEF CollectNext

(* A completed session has its rows and bytes, a failed one was never      *)
(* announced, and a session stays running only for a failure of the last   *)
(* two statements, an INSERT of the session that failed after it took      *)
(* effect, a mark that was lost, or a handler that was cut off             *)
(* (services/api lib.rs, collect_handler and fail_session).                *)
THEOREM CollectSessionsAreBacked == CollectSpec => []SessionsAreBacked
<1>1. CollectInit => CollectInv
    BY CollectAssumption, StatementsAre DEF CollectInit, CollectInv, LeftBehind, ToBeMarked, Backed
<1>2. CollectInv => SessionsAreBacked
    BY CollectAssumption DEF CollectInv, Backed, SessionsAreBacked, Listed
<1> QED BY <1>1, <1>2, CollectInductive, PTL DEF CollectSpec

-----------------------------------------------------------------------------
(* The event buses.  g is what a subscriber was given, or is about to be   *)
(* given, of the topic it asked for.                                       *)
Increasing(g) == \A i, j \in DOMAIN g : i < j => g[i] < g[j]

(* The broadcast channel, up to the position p; k is what was skipped.     *)
Broadcasted(g, k, p, pub, topic) ==
    /\ g \in Seq(Nat) /\ Increasing(g)
    /\ \A i \in DOMAIN g : g[i] \in 1..(p - 1) /\ pub[g[i]] = topic
    /\ k \subseteq 1..(p - 1)
    /\ \A i \in DOMAIN g : g[i] \notin k
    /\ g # <<>> => \A n \in 1..(p - 1) : pub[n] = topic /\ g[1] < n =>
                       n \in k \/ \E i \in DOMAIN g : g[i] = n

(* The stream, up to the id last.                                          *)
Streamed(g, last, pub, topic) ==
    /\ g \in Seq(Nat) /\ Increasing(g)
    /\ \A i \in DOMAIN g : g[i] \in 1..last /\ pub[g[i]] = topic
    /\ \A n \in 1..last : pub[n] = topic => \E i \in DOMAIN g : g[i] = n

(* What follows all of an ascending sequence keeps it ascending.           *)
LEMMA AppendAscends ==
    ASSUME NEW g \in Seq(Nat), Increasing(g), NEW n \in Nat, \A i \in DOMAIN g : g[i] < n
    PROVE  /\ Append(g, n) \in Seq(Nat) /\ Increasing(Append(g, n)) /\ Append(g, n) # <<>>
           /\ DOMAIN Append(g, n) = DOMAIN g \cup {Len(g) + 1} /\ Append(g, n)[Len(g) + 1] = n
           /\ \A i \in DOMAIN g : Append(g, n)[i] = g[i]
           /\ g # <<>> => 1 \in DOMAIN g
<1>1. /\ Append(g, n) \in Seq(Nat) /\ Len(Append(g, n)) = Len(g) + 1 /\ Len(g) \in Nat
      /\ Append(g, n)[Len(g) + 1] = n /\ Append(g, n) # <<>>
      /\ \A i \in 1..Len(g) : Append(g, n)[i] = g[i]
      /\ DOMAIN g = 1..Len(g) /\ DOMAIN Append(g, n) = 1..(Len(g) + 1)
    BY AppendProperties, LenProperties
<1>2. \A i \in 1..Len(g) : g[i] \in Nat
    BY <1>1
<1>3. Increasing(Append(g, n))
    <2> SUFFICES ASSUME NEW i \in 1..(Len(g) + 1), NEW j \in 1..(Len(g) + 1), i < j
                 PROVE  Append(g, n)[i] < Append(g, n)[j]
        BY <1>1 DEF Increasing
    <2>1. CASE j = Len(g) + 1
        BY <1>1, <2>1
    <2>2. CASE j # Len(g) + 1
        BY <1>1, <2>2 DEF Increasing
    <2> QED BY <2>1, <2>2
<1>4. g # <<>> => 1 \in DOMAIN g
    BY <1>1, EmptySeq
<1> QED BY <1>1, <1>3, <1>4

LEMMA BroadcastedGives ==
    ASSUME NEW g, NEW k, NEW p \in Nat \ {0}, NEW pub, NEW topic, Broadcasted(g, k, p, pub, topic)
    PROVE  Broadcasted(IF pub[p] = topic THEN Append(g, p) ELSE g, k, p + 1, pub, topic)
<1>1. 1..p = 1..(p - 1) \cup {p}
    OBVIOUS
<1>2. CASE pub[p] = topic
    <2>1. /\ g \in Seq(Nat) /\ Increasing(g) /\ p \in Nat /\ \A i \in DOMAIN g : g[i] < p
        BY DEF Broadcasted
    <2> DEFINE h == Append(g, p)
    <2>2. /\ h \in Seq(Nat) /\ Increasing(h) /\ h # <<>>
          /\ DOMAIN h = DOMAIN g \cup {Len(g) + 1} /\ h[Len(g) + 1] = p
          /\ \A i \in DOMAIN g : h[i] = g[i]
          /\ g # <<>> => 1 \in DOMAIN g
        BY <2>1, AppendAscends
    <2>3. \A i \in DOMAIN h : h[i] \in 1..p /\ pub[h[i]] = topic /\ h[i] \notin k
        BY <1>1, <1>2, <2>2 DEF Broadcasted
    <2>4. ASSUME NEW n \in 1..p, pub[n] = topic, h[1] < n
          PROVE  n \in k \/ \E i \in DOMAIN h : h[i] = n
        <3>1. CASE n = p
            BY <2>2, <3>1
        <3>2. CASE n # p /\ g # <<>>
            <4>1. h[1] = g[1] /\ n \in 1..(p - 1)
                BY <1>1, <2>2, <3>2
            <4>2. n \in k \/ \E i \in DOMAIN g : g[i] = n
                BY <2>4, <3>2, <4>1 DEF Broadcasted
            <4> QED BY <2>2, <4>2
        <3>3. CASE n # p /\ g = <<>>
            <4>1. Len(g) = 0
                BY <3>3
            <4> QED BY <2>2, <2>4, <3>3, <4>1
        <3> QED BY <3>1, <3>2, <3>3
    <2>5. k \subseteq 1..p
        BY <1>1 DEF Broadcasted
    <2> HIDE DEF h
    <2>6. Broadcasted(h, k, p + 1, pub, topic)
        BY <2>2, <2>3, <2>4, <2>5 DEF Broadcasted
    <2> QED BY <1>2, <2>6 DEF h
<1>3. CASE pub[p] # topic
    BY <1>1, <1>3 DEF Broadcasted
<1> QED BY <1>2, <1>3

LEMMA BroadcastedSkips ==
    ASSUME NEW g, NEW k, NEW p \in Nat \ {0}, NEW q \in Nat, p <= q, NEW pub, NEW topic,
           Broadcasted(g, k, p, pub, topic)
    PROVE  Broadcasted(g, k \cup p..(q - 1), q, pub, topic)
<1>1. 1..(q - 1) = 1..(p - 1) \cup p..(q - 1)
    OBVIOUS
<1> QED BY <1>1 DEF Broadcasted

LEMMA StreamedGives ==
    ASSUME NEW g, NEW last \in Nat, NEW pub, NEW topic, Streamed(g, last, pub, topic)
    PROVE  Streamed(IF pub[last + 1] = topic THEN Append(g, last + 1) ELSE g, last + 1, pub, topic)
<1>1. 1..(last + 1) = 1..last \cup {last + 1}
    OBVIOUS
<1>2. CASE pub[last + 1] = topic
    <2>1. /\ g \in Seq(Nat) /\ Increasing(g) /\ last + 1 \in Nat
          /\ \A i \in DOMAIN g : g[i] < last + 1
        BY DEF Streamed
    <2> DEFINE h == Append(g, last + 1)
    <2>2. /\ h \in Seq(Nat) /\ Increasing(h)
          /\ DOMAIN h = DOMAIN g \cup {Len(g) + 1} /\ h[Len(g) + 1] = last + 1
          /\ \A i \in DOMAIN g : h[i] = g[i]
        BY <2>1, AppendAscends
    <2> HIDE DEF h
    <2>3. Streamed(h, last + 1, pub, topic)
        BY <1>1, <1>2, <2>2 DEF Streamed
    <2> QED BY <1>2, <2>3 DEF h
<1>3. CASE pub[last + 1] # topic
    BY <1>1, <1>3 DEF Streamed
<1> QED BY <1>2, <1>3

(* What is published stays what it was.                                    *)
LEMMA PublishKeeps ==
    ASSUME published \in Seq(StreamTopic), NEW t \in StreamTopic, BusPublish(t)
    PROVE  /\ published' \in Seq(StreamTopic) /\ Len(published') = Len(published) + 1
           /\ Len(published) \in Nat /\ DOMAIN published = 1..Len(published)
           /\ \A n \in 1..Len(published) : published'[n] = published[n]
BY DEF BusPublish

BroadcastInv ==
    /\ published \in Seq(StreamTopic)
    /\ position \in [StreamSubscriber -> Nat]
    /\ handed \in [StreamSubscriber -> Seq(Nat)]
    /\ skipped \in [StreamSubscriber -> SUBSET Nat]
    /\ lastId = [s \in StreamSubscriber |-> 0] /\ channel = [s \in StreamSubscriber |-> <<>>]
    /\ \A s \in StreamSubscriber :
          /\ position[s] <= Len(published) + 1
          /\ Broadcasted(handed[s], skipped[s], position[s], published, TopicOf[s])

LEMMA BroadcastInductive == BroadcastInv /\ [BroadcastNext]_busVars => BroadcastInv'
<1> SUFFICES ASSUME BroadcastInv, [BroadcastNext]_busVars PROVE BroadcastInv'
    OBVIOUS
<1> USE BusesAssumption
<1>a. Len(published) \in Nat /\ DOMAIN published = 1..Len(published)
    BY DEF BroadcastInv
<1>1. CASE UNCHANGED busVars
    BY <1>1 DEF busVars, broadcastVars, streamVars, BroadcastInv
<1>2. ASSUME NEW t \in StreamTopic, BusPublish(t) PROVE BroadcastInv'
    <2>1. /\ published' \in Seq(StreamTopic) /\ Len(published') = Len(published) + 1
          /\ \A n \in 1..Len(published) : published'[n] = published[n]
        BY <1>2, PublishKeeps DEF BroadcastInv
    <2>2. UNCHANGED <<position, skipped, lastId, channel, handed>>
        BY <1>2 DEF BusPublish, broadcastVars, streamVars
    <2>3. ASSUME NEW s \in StreamSubscriber
          PROVE  Broadcasted(handed[s], skipped[s], position[s], published', TopicOf[s])
        <3>1. 1..(position[s] - 1) \subseteq 1..Len(published)
            BY <1>a DEF BroadcastInv
        <3> QED BY <2>1, <3>1 DEF Broadcasted, BroadcastInv
    <2> QED BY <1>a, <2>1, <2>2, <2>3 DEF BroadcastInv
<1>3. ASSUME NEW s \in StreamSubscriber, BroadcastSubscribe(s) PROVE BroadcastInv'
    <2>1. /\ position[s] = 0 /\ position' = [position EXCEPT ![s] = Len(published) + 1]
          /\ UNCHANGED <<published, skipped, handed, lastId, channel>>
        BY <1>3 DEF BroadcastSubscribe, NotSubscribed, streamVars
    <2>2. handed[s] = <<>> /\ skipped[s] = {}
        <3>1. /\ handed[s] \in Seq(Nat) /\ \A i \in DOMAIN handed[s] : handed[s][i] \in 1..(0 - 1)
              /\ skipped[s] \subseteq 1..(0 - 1)
            BY <2>1 DEF BroadcastInv, Broadcasted
        <3>2. 1..(0 - 1) = {}
            OBVIOUS
        <3>3. DOMAIN handed[s] = {}
            BY <3>1, <3>2
        <3>4. DOMAIN handed[s] = 1..Len(handed[s]) /\ Len(handed[s]) \in Nat
            BY <3>1, LenProperties
        <3>5. Len(handed[s]) = 0
            <4>1. 1 \notin 1..Len(handed[s])
                BY <3>3, <3>4
            <4> QED BY <3>4, <4>1
        <3> QED BY <3>1, <3>2, <3>5, EmptySeq
    <2>3. Broadcasted(<<>>, {}, Len(published) + 1, published, TopicOf[s])
        BY DEF Broadcasted, Increasing
    <2>4. ASSUME NEW u \in StreamSubscriber
          PROVE  /\ position'[u] <= Len(published) + 1
                 /\ Broadcasted(handed[u], skipped[u], position'[u], published, TopicOf[u])
        <3>1. CASE u = s
            <4>1. position'[u] = Len(published) + 1
                BY <2>1, <3>1 DEF BroadcastInv
            <4>2. handed[u] = <<>> /\ skipped[u] = {} /\ TopicOf[u] = TopicOf[s]
                BY <2>2, <3>1
            <4>3. Broadcasted(handed[u], skipped[u], position'[u], published, TopicOf[u])
                BY <2>3, <4>1, <4>2, Zenon
            <4>4. position'[u] <= Len(published) + 1
                BY <1>a, <4>1
            <4> QED BY <4>3, <4>4
        <3>2. CASE u # s
            <4>1. position'[u] = position[u]
                BY <2>1, <3>2 DEF BroadcastInv
            <4> QED BY <4>1 DEF BroadcastInv
        <3> QED BY <3>1, <3>2
    <2>5. position' \in [StreamSubscriber -> Nat]
        BY <1>a, <2>1 DEF BroadcastInv
    <2> QED BY <2>1, <2>4, <2>5 DEF BroadcastInv
<1>4. ASSUME NEW s \in StreamSubscriber, BroadcastReceive(s) PROVE BroadcastInv'
    <2> DEFINE p == position[s]
    <2>1. /\ p \in Nat \ {0} /\ p <= Len(published)
          /\ UNCHANGED <<published, lastId, channel>>
        BY <1>4 DEF BroadcastReceive, NotSubscribed, streamVars, BroadcastInv
    <2>2. Oldest \in 1..(Len(published) + 1)
        BY <1>a DEF Oldest
    <2>3. CASE p < Oldest
        <3>1. /\ skipped' = [skipped EXCEPT ![s] = skipped[s] \cup p..(Oldest - 1)]
              /\ position' = [position EXCEPT ![s] = Oldest] /\ handed' = handed
            BY <1>4, <2>3 DEF BroadcastReceive
        <3>2. Broadcasted(handed[s], skipped[s] \cup p..(Oldest - 1), Oldest, published, TopicOf[s])
            <4>1. Broadcasted(handed[s], skipped[s], p, published, TopicOf[s])
                BY DEF BroadcastInv
            <4>2. Oldest \in Nat /\ p <= Oldest
                BY <2>1, <2>2, <2>3
            <4> HIDE DEF p
            <4> QED BY <2>1, <4>1, <4>2, BroadcastedSkips
        <3>3. (p..(Oldest - 1)) \subseteq Nat
            BY <2>1, <2>2
        <3>4. Oldest <= Len(published) + 1 /\ Oldest \in Nat
            BY <1>a, <2>2
        <3> HIDE DEF p
        <3> QED BY <2>1, <3>1, <3>2, <3>3, <3>4 DEF BroadcastInv
    <2>4. CASE ~(p < Oldest)
        <3> DEFINE g == IF published[p] = TopicOf[s] THEN Append(handed[s], p) ELSE handed[s]
        <3>1. /\ handed' = [handed EXCEPT ![s] = g]
              /\ position' = [position EXCEPT ![s] = p + 1] /\ skipped' = skipped
            BY <1>4, <2>4 DEF BroadcastReceive, Give, BroadcastInv
        <3>2. Broadcasted(g, skipped[s], p + 1, published, TopicOf[s])
            <4>1. Broadcasted(handed[s], skipped[s], p, published, TopicOf[s])
                BY DEF BroadcastInv
            <4> HIDE DEF p
            <4> QED BY <2>1, <4>1, BroadcastedGives
        <3>3. g \in Seq(Nat)
            BY <3>2 DEF Broadcasted
        <3>4. p + 1 \in Nat /\ p + 1 <= Len(published) + 1
            BY <1>a, <2>1
        <3> HIDE DEF p, g
        <3> QED BY <2>1, <3>1, <3>2, <3>3, <3>4 DEF BroadcastInv
    <2> QED BY <2>3, <2>4
<1> QED BY <1>1, <1>2, <1>3, <1>4 DEF BroadcastNext

(* An in-memory subscriber gets its topic's envelopes in order, each once, *)
(* and none is missing that was not reported as lag (bus.rs, the broadcast *)
(* channel).                                                               *)
THEOREM BroadcastDeliveredInOrder == BroadcastSpec => []DeliveredInOrder
<1>1. BusesInit => BroadcastInv
    <2> SUFFICES ASSUME BusesInit PROVE BroadcastInv
        OBVIOUS
    <2>1. <<>> \in Seq(StreamTopic) /\ <<>> \in Seq(Nat) /\ Len(<<>>) = 0
        OBVIOUS
    <2>2. \A s \in StreamSubscriber : Broadcasted(<<>>, {}, 0, <<>>, TopicOf[s])
        BY DEF Broadcasted, Increasing
    <2> QED BY <2>1, <2>2 DEF BusesInit, BroadcastInv, NotSubscribed
<1>2. BroadcastInv => DeliveredInOrder
    <2> SUFFICES ASSUME BroadcastInv, NEW s \in StreamSubscriber
                 PROVE  /\ \A i, j \in DOMAIN handed[s] : i < j => handed[s][i] < handed[s][j]
                        /\ \A i \in DOMAIN handed[s] : published[handed[s][i]] = TopicOf[s]
                        /\ \A n \in DOMAIN published : published[n] = TopicOf[s] =>
                              /\ n <= lastId[s] => n \in Range(handed[s] \o channel[s])
                              /\ handed[s] # <<>> /\ handed[s][1] < n /\ n < position[s]
                                    => n \in Range(handed[s]) \cup skipped[s]
                        /\ skipped[s] \cap Range(handed[s]) = {}
        BY DEF DeliveredInOrder
    <2>1. /\ Broadcasted(handed[s], skipped[s], position[s], published, TopicOf[s])
          /\ lastId[s] = 0 /\ position[s] \in Nat
          /\ DOMAIN published = 1..Len(published) /\ Len(published) \in Nat
        BY DEF BroadcastInv
    <2>2. ASSUME NEW n \in DOMAIN published, published[n] = TopicOf[s]
          PROVE  /\ ~(n <= lastId[s])
                 /\ handed[s] # <<>> /\ handed[s][1] < n /\ n < position[s]
                       => n \in Range(handed[s]) \cup skipped[s]
        BY <2>1, <2>2 DEF Broadcasted, Range
    <2>3. skipped[s] \cap Range(handed[s]) = {}
        BY <2>1 DEF Broadcasted, Range
    <2>4. \A i, j \in DOMAIN handed[s] : i < j => handed[s][i] < handed[s][j]
        BY <2>1 DEF Broadcasted, Increasing
    <2>5. \A i \in DOMAIN handed[s] : published[handed[s][i]] = TopicOf[s]
        BY <2>1 DEF Broadcasted
    <2> QED BY <2>2, <2>3, <2>4, <2>5
<1> QED BY <1>1, <1>2, BroadcastInductive, PTL DEF BroadcastSpec

(* The reader of the stream: its batch follows last_id without a gap.      *)
InBatch(b, last, length) ==
    /\ b \in Seq(Nat) /\ last + Len(b) <= length
    /\ \A n \in 1..Len(b) : b[n] = last + n

StreamInv ==
    /\ published \in Seq(StreamTopic)
    /\ position = [s \in StreamSubscriber |-> 0] /\ skipped = [s \in StreamSubscriber |-> {}]
    /\ lastId \in [StreamSubscriber -> Nat] /\ batch \in [StreamSubscriber -> Seq(Nat)]
    /\ channel \in [StreamSubscriber -> Seq(Nat)] /\ handed \in [StreamSubscriber -> Seq(Nat)]
    /\ \A s \in StreamSubscriber :
          /\ InBatch(batch[s], lastId[s], Len(published))
          /\ Streamed(handed[s] \o channel[s], lastId[s], published, TopicOf[s])

(* Taking the first of one sequence to the end of another.                 *)
LEMMA MoveHead ==
    ASSUME NEW g \in Seq(Nat), NEW c \in Seq(Nat), c # <<>>
    PROVE  /\ Append(g, Head(c)) \in Seq(Nat) /\ Tail(c) \in Seq(Nat)
           /\ Append(g, Head(c)) \o Tail(c) = g \o c
<1> DEFINE h == Append(g, Head(c))
<1>1. /\ Head(c) \in Nat /\ Tail(c) \in Seq(Nat) /\ Len(c) \in Nat \ {0} /\ Head(c) = c[1]
      /\ Len(Tail(c)) = Len(c) - 1 /\ \A i \in 1..Len(Tail(c)) : Tail(c)[i] = c[i + 1]
    BY EmptySeq, HeadTailProperties
<1>2. /\ h \in Seq(Nat) /\ Len(g) \in Nat /\ Len(h) = Len(g) + 1 /\ h[Len(g) + 1] = c[1]
      /\ \A i \in 1..Len(g) : h[i] = g[i]
    BY <1>1, AppendProperties, LenProperties
<1> HIDE DEF h
<1>3. /\ g \o c \in Seq(Nat) /\ Len(g \o c) = Len(g) + Len(c)
      /\ \A i \in 1..(Len(g) + Len(c)) : (g \o c)[i] = IF i <= Len(g) THEN g[i] ELSE c[i - Len(g)]
    BY ConcatProperties
<1>4. /\ h \o Tail(c) \in Seq(Nat) /\ Len(h \o Tail(c)) = Len(h) + Len(Tail(c))
      /\ \A i \in 1..(Len(h) + Len(Tail(c))) :
            (h \o Tail(c))[i] = IF i <= Len(h) THEN h[i] ELSE Tail(c)[i - Len(h)]
    BY <1>1, <1>2, ConcatProperties
<1>5. Len(h \o Tail(c)) = Len(g \o c)
    BY <1>1, <1>2, <1>3, <1>4
<1>6. ASSUME NEW i \in 1..Len(h \o Tail(c)) PROVE (h \o Tail(c))[i] = (g \o c)[i]
    <2>1. i \in 1..(Len(g) + Len(c)) /\ i \in 1..(Len(h) + Len(Tail(c))) /\ i \in Nat
        BY <1>1, <1>2, <1>4
    <2>2. CASE i <= Len(g)
        BY <1>1, <1>2, <1>3, <1>4, <2>1, <2>2
    <2>3. CASE i = Len(g) + 1
        BY <1>1, <1>2, <1>3, <1>4, <2>1, <2>3
    <2>4. CASE i > Len(g) + 1
        <3>1. i - Len(h) \in 1..Len(Tail(c)) /\ (i - Len(h)) + 1 = i - Len(g) /\ ~(i <= Len(h))
            BY <1>1, <1>2, <2>1, <2>4
        <3> QED BY <1>1, <1>2, <1>3, <1>4, <2>1, <2>4, <3>1
    <2> QED BY <1>2, <2>1, <2>2, <2>3, <2>4
<1>7. h \o Tail(c) = g \o c
    BY <1>3, <1>4, <1>5, <1>6, SeqEqual
<1> QED BY <1>1, <1>2, <1>7 DEF h

LEMMA FirstPart ==
    ASSUME NEW g \in Seq(Nat), NEW c \in Seq(Nat)
    PROVE  \A i \in DOMAIN g : i \in DOMAIN (g \o c) /\ (g \o c)[i] = g[i]
<1>1. DOMAIN g = 1..Len(g) /\ Len(g) \in Nat /\ Len(c) \in Nat
    BY LenProperties
<1>2. /\ g \o c \in Seq(Nat) /\ Len(g \o c) = Len(g) + Len(c)
      /\ \A i \in 1..(Len(g) + Len(c)) : (g \o c)[i] = IF i <= Len(g) THEN g[i] ELSE c[i - Len(g)]
    BY ConcatProperties
<1>3. DOMAIN (g \o c) = 1..(Len(g) + Len(c))
    BY <1>2, LenProperties
<1> QED BY <1>1, <1>2, <1>3

LEMMA TakeFromBatch ==
    ASSUME NEW b, NEW last \in Nat, NEW length \in Nat, InBatch(b, last, length), b # <<>>
    PROVE  /\ Head(b) = last + 1 /\ last + 1 <= length
           /\ InBatch(Tail(b), last + 1, length)
<1>1. b \in Seq(Nat) /\ Len(b) \in Nat \ {0} /\ Head(b) = b[1]
    BY DEF InBatch
<1>2. /\ Tail(b) \in Seq(Nat) /\ Len(Tail(b)) = Len(b) - 1
      /\ \A n \in 1..Len(Tail(b)) : Tail(b)[n] = b[n + 1]
    BY <1>1
<1>3. Head(b) = last + 1 /\ last + 1 <= length
    BY <1>1 DEF InBatch
<1>4. ASSUME NEW n \in 1..Len(Tail(b)) PROVE Tail(b)[n] = (last + 1) + n
    BY <1>1, <1>2, <1>4 DEF InBatch
<1> QED BY <1>1, <1>2, <1>3, <1>4 DEF InBatch

LEMMA StreamInductive == StreamInv /\ [StreamNext]_busVars => StreamInv'
<1> SUFFICES ASSUME StreamInv, [StreamNext]_busVars PROVE StreamInv'
    OBVIOUS
<1> USE BusesAssumption
<1>a. Len(published) \in Nat /\ DOMAIN published = 1..Len(published)
    BY DEF StreamInv
<1>1. CASE UNCHANGED busVars
    BY <1>1 DEF busVars, broadcastVars, streamVars, StreamInv
<1>2. ASSUME NEW t \in StreamTopic, BusPublish(t) PROVE StreamInv'
    <2>1. /\ published' \in Seq(StreamTopic) /\ Len(published') = Len(published) + 1
          /\ \A n \in 1..Len(published) : published'[n] = published[n]
        BY <1>2, PublishKeeps DEF StreamInv
    <2>2. UNCHANGED <<position, skipped, lastId, batch, channel, handed>>
        BY <1>2 DEF BusPublish, broadcastVars, streamVars
    <2>3. ASSUME NEW s \in StreamSubscriber
          PROVE  /\ InBatch(batch[s], lastId[s], Len(published'))
                 /\ Streamed(handed[s] \o channel[s], lastId[s], published', TopicOf[s])
        <3>1. InBatch(batch[s], lastId[s], Len(published))
              /\ Streamed(handed[s] \o channel[s], lastId[s], published, TopicOf[s])
              /\ lastId[s] \in Nat
            BY DEF StreamInv
        <3>2. Len(batch[s]) \in Nat /\ lastId[s] <= Len(published)
            BY <1>a, <3>1 DEF InBatch
        <3>3. 1..lastId[s] \subseteq 1..Len(published)
            BY <1>a, <3>1, <3>2
        <3>4. InBatch(batch[s], lastId[s], Len(published'))
            BY <1>a, <2>1, <3>1, <3>2 DEF InBatch
        <3>5. Streamed(handed[s] \o channel[s], lastId[s], published', TopicOf[s])
            BY <2>1, <3>1, <3>3 DEF Streamed
        <3> QED BY <3>4, <3>5
    <2> QED BY <2>1, <2>2, <2>3 DEF StreamInv
<1>3. ASSUME NEW s \in StreamSubscriber, StreamSubscribe(s) \/ StreamFails(s) PROVE StreamInv'
    BY <1>3 DEF StreamSubscribe, StreamFails, broadcastVars, StreamInv
<1>4. ASSUME NEW s \in StreamSubscriber, StreamRead(s) PROVE StreamInv'
    <2> DEFINE upTo == IF lastId[s] + BatchSize < Len(published) THEN lastId[s] + BatchSize
                       ELSE Len(published)
               size == Len(SubSeq(published, lastId[s] + 1, upTo))
               b == [n \in 1..size |-> lastId[s] + n]
    <2>1. /\ batch' = [batch EXCEPT ![s] = b] /\ lastId[s] < Len(published) /\ lastId[s] \in Nat
          /\ UNCHANGED <<published, position, skipped, lastId, channel, handed>>
        BY <1>4 DEF StreamRead, broadcastVars, StreamInv
    <2>2. upTo \in 1..Len(published) /\ lastId[s] < upTo
        BY <1>a, <2>1
    <2>3. size = upTo - lastId[s]
        <3>1. published \in Seq(StreamTopic) /\ lastId[s] + 1 \in 1..(Len(published) + 1)
            BY <1>a, <2>1 DEF StreamInv
        <3> HIDE DEF upTo
        <3> QED BY <1>a, <2>1, <2>2, <3>1
    <2>4. size \in Nat /\ lastId[s] + size <= Len(published)
        <3>1. upTo \in Nat /\ upTo <= Len(published)
            BY <1>a, <2>2
        <3> HIDE DEF upTo, size
        <3> QED BY <1>a, <2>1, <2>2, <2>3, <3>1
    <2> HIDE DEF size
    <2>5. b \in Seq(Nat) /\ Len(b) = size /\ \A n \in 1..size : b[n] = lastId[s] + n
        BY <2>1, <2>4
    <2> HIDE DEF b
    <2>6. InBatch(b, lastId[s], Len(published))
        BY <2>4, <2>5 DEF InBatch
    <2> QED BY <2>1, <2>5, <2>6 DEF StreamInv
<1>5. ASSUME NEW s \in StreamSubscriber, StreamForward(s) PROVE StreamInv'
    <2> DEFINE g == handed[s] \o channel[s]
               n == lastId[s] + 1
               c == IF published[n] = TopicOf[s] THEN Append(channel[s], n) ELSE channel[s]
    <2>0. channel[s] \in Seq(Nat) /\ handed[s] \in Seq(Nat)
        BY DEF StreamInv
    <2>1. batch[s] # <<>> /\ InBatch(batch[s], lastId[s], Len(published)) /\ lastId[s] \in Nat
        BY <1>5 DEF StreamForward, StreamInv
    <2>2. Head(batch[s]) = n /\ n <= Len(published) /\ InBatch(Tail(batch[s]), n, Len(published))
        BY <1>a, <2>1, TakeFromBatch
    <2>3. /\ lastId' = [lastId EXCEPT ![s] = n] /\ batch' = [batch EXCEPT ![s] = Tail(batch[s])]
          /\ channel' = [channel EXCEPT ![s] = c]
          /\ UNCHANGED <<published, position, skipped, handed>>
        BY <1>5, <2>2 DEF StreamForward, broadcastVars, StreamInv
    <2>4. /\ c \in Seq(Nat)
          /\ handed[s] \o c = IF published[n] = TopicOf[s] THEN Append(g, n) ELSE g
        <3>1. n \in Nat
            BY <2>1
        <3> HIDE DEF n
        <3>2. handed[s] \o Append(channel[s], n) = Append(handed[s] \o channel[s], n)
            <4>1. ASSUME NEW h \in Seq(Nat), NEW d \in Seq(Nat), NEW m \in Nat
                  PROVE  h \o Append(d, m) = Append(h \o d, m)
                OBVIOUS
            <4> HIDE DEF c
            <4> QED BY <2>0, <3>1, <4>1, Zenon
        <3>3. Append(channel[s], n) \in Seq(Nat)
            BY <2>0, <3>1, AppendProperties
        <3> QED BY <2>0, <3>2, <3>3
    <2>5. Streamed(handed[s] \o c, n, published, TopicOf[s])
        <3>1. Streamed(IF published[lastId[s] + 1] = TopicOf[s] THEN Append(g, lastId[s] + 1) ELSE g,
                       lastId[s] + 1, published, TopicOf[s])
            <4>1. lastId[s] \in Nat /\ Streamed(g, lastId[s], published, TopicOf[s])
                BY DEF StreamInv
            <4> HIDE DEF g
            <4> QED BY <4>1, StreamedGives
        <3> QED BY <2>4, <3>1
    <2>6. n \in Nat /\ Tail(batch[s]) \in Seq(Nat)
        BY <2>1, <2>2 DEF InBatch
    <2> HIDE DEF c, n, g
    <2> QED BY <2>2, <2>3, <2>4, <2>5, <2>6 DEF StreamInv
<1>6. ASSUME NEW s \in StreamSubscriber, StreamReceive(s) PROVE StreamInv'
    <2> DEFINE g == Append(handed[s], Head(channel[s]))
               c == Tail(channel[s])
    <2>1. /\ handed' = [handed EXCEPT ![s] = g] /\ channel' = [channel EXCEPT ![s] = c]
          /\ UNCHANGED <<published, position, skipped, lastId, batch>>
        BY <1>6 DEF StreamReceive, broadcastVars, StreamInv
    <2>2. g \in Seq(Nat) /\ c \in Seq(Nat) /\ g \o c = handed[s] \o channel[s]
        <3>1. handed[s] \in Seq(Nat) /\ channel[s] \in Seq(Nat) /\ channel[s] # <<>>
            BY <1>6 DEF StreamReceive, StreamInv
        <3> QED BY <3>1, MoveHead
    <2> HIDE DEF g, c
    <2> QED BY <2>1, <2>2 DEF StreamInv
<1> QED BY <1>1, <1>2, <1>3, <1>4, <1>5, <1>6 DEF StreamNext

(* A reader of the Redis stream gives its subscriber each envelope of the  *)
(* topic up to the last id it read, once and in order, whatever room the   *)
(* channel has (redis_bus.rs, the task of subscribe).                      *)
THEOREM StreamDeliveredInOrder == StreamSpec => []DeliveredInOrder
<1>1. BusesInit => StreamInv
    <2> SUFFICES ASSUME BusesInit PROVE StreamInv
        OBVIOUS
    <2>1. <<>> \in Seq(StreamTopic) /\ <<>> \in Seq(Nat) /\ Len(<<>>) = 0 /\ <<>> \o <<>> = <<>>
        OBVIOUS
    <2>2. \A s \in StreamSubscriber : InBatch(<<>>, 0, 0) /\ Streamed(<<>>, 0, <<>>, TopicOf[s])
        BY <2>1 DEF InBatch, Streamed, Increasing
    <2> QED BY <2>1, <2>2 DEF BusesInit, StreamInv, NotSubscribed
<1>2. StreamInv => DeliveredInOrder
    <2> SUFFICES ASSUME StreamInv, NEW s \in StreamSubscriber
                 PROVE  /\ \A i, j \in DOMAIN handed[s] : i < j => handed[s][i] < handed[s][j]
                        /\ \A i \in DOMAIN handed[s] : published[handed[s][i]] = TopicOf[s]
                        /\ \A n \in DOMAIN published : published[n] = TopicOf[s] =>
                              /\ n <= lastId[s] => n \in Range(handed[s] \o channel[s])
                              /\ handed[s] # <<>> /\ handed[s][1] < n /\ n < position[s]
                                    => n \in Range(handed[s]) \cup skipped[s]
                        /\ skipped[s] \cap Range(handed[s]) = {}
        BY DEF DeliveredInOrder
    <2> DEFINE g == handed[s] \o channel[s]
    <2>0. handed[s] \in Seq(Nat) /\ channel[s] \in Seq(Nat)
        BY DEF StreamInv
    <2>1. /\ Streamed(g, lastId[s], published, TopicOf[s])
          /\ lastId[s] \in Nat /\ position[s] = 0 /\ skipped[s] = {}
          /\ DOMAIN published = 1..Len(published) /\ Len(published) \in Nat
        BY DEF StreamInv
    <2>2. \A i \in DOMAIN handed[s] : i \in DOMAIN g /\ g[i] = handed[s][i]
        BY <2>0, FirstPart
    <2> HIDE DEF g
    <2>3. \A i, j \in DOMAIN handed[s] : i < j => handed[s][i] < handed[s][j]
        BY <2>1, <2>2 DEF Streamed, Increasing
    <2>4. \A i \in DOMAIN handed[s] : published[handed[s][i]] = TopicOf[s]
        BY <2>1, <2>2 DEF Streamed
    <2>5. ASSUME NEW n \in DOMAIN published, published[n] = TopicOf[s], n <= lastId[s]
          PROVE  n \in Range(g)
        <3>1. n \in 1..lastId[s]
            BY <2>1, <2>5
        <3>2. \E i \in DOMAIN g : g[i] = n
            BY <2>1, <2>5, <3>1 DEF Streamed
        <3> QED BY <3>2 DEF Range
    <2>6. \A n \in DOMAIN published : ~(n < position[s])
        BY <2>1
    <2> QED BY <2>1, <2>3, <2>4, <2>5, <2>6 DEF g
<1> QED BY <1>1, <1>2, StreamInductive, PTL DEF StreamSpec

-----------------------------------------------------------------------------
(* The crawler.  Its links and tasks are sequences of records of which     *)
(* the set of URLs is not known.                                           *)
IsSeq(s) == \E S : s \in Seq(S)

LEMMA SeqFacts ==
    ASSUME NEW s, IsSeq(s)
    PROVE  /\ Len(s) \in Nat /\ DOMAIN s = 1..Len(s)
           /\ s = <<>> <=> Len(s) = 0
<1>1. PICK S : s \in Seq(S)
    BY DEF IsSeq
<1> QED BY <1>1, LenProperties, EmptySeq

LEMMA TailFacts ==
    ASSUME NEW s, IsSeq(s), s # <<>>
    PROVE  /\ IsSeq(Tail(s)) /\ Head(s) = s[1] /\ 1 \in DOMAIN s
           /\ \A n \in DOMAIN Tail(s) : n + 1 \in DOMAIN s /\ Tail(s)[n] = s[n + 1]
<1>1. PICK S : s \in Seq(S)
    BY DEF IsSeq
<1>2. /\ Tail(s) \in Seq(S) /\ Len(Tail(s)) = Len(s) - 1 /\ Len(s) \in Nat \ {0}
      /\ \A n \in 1..Len(Tail(s)) : Tail(s)[n] = s[n + 1]
    BY <1>1, HeadTailProperties, EmptySeq
<1>3. DOMAIN Tail(s) = 1..(Len(s) - 1) /\ DOMAIN s = 1..Len(s)
    BY <1>1, <1>2, LenProperties
<1>4. IsSeq(Tail(s))
    BY <1>2 DEF IsSeq
<1> QED BY <1>1, <1>2, <1>3, <1>4

LEMMA AppendFacts ==
    ASSUME NEW s, IsSeq(s), NEW e
    PROVE  /\ IsSeq(Append(s, e)) /\ Append(s, e)[Len(s) + 1] = e
           /\ DOMAIN Append(s, e) = DOMAIN s \cup {Len(s) + 1} /\ Len(s) + 1 \notin DOMAIN s
           /\ \A n \in DOMAIN s : Append(s, e)[n] = s[n]
<1>1. PICK S : s \in Seq(S)
    BY DEF IsSeq
<1>2. s \in Seq(S \cup {e}) /\ e \in S \cup {e}
    BY <1>1, SeqMonotonic
<1> DEFINE T == S \cup {e}
<1> HIDE DEF T
<1>3. s \in Seq(T) /\ e \in T
    BY <1>2 DEF T
<1>4. /\ Append(s, e) \in Seq(T) /\ Len(Append(s, e)) = Len(s) + 1 /\ Append(s, e)[Len(s) + 1] = e
      /\ \A n \in 1..Len(s) : Append(s, e)[n] = s[n]
    BY <1>3, AppendProperties
<1>5. /\ DOMAIN s = 1..Len(s) /\ Len(s) \in Nat /\ DOMAIN Append(s, e) = 1..(Len(s) + 1)
    BY <1>3, <1>4, LenProperties
<1>6. IsSeq(Append(s, e))
    BY <1>4 DEF IsSeq
<1>7. 1..(Len(s) + 1) = 1..Len(s) \cup {Len(s) + 1} /\ Len(s) + 1 \notin 1..Len(s)
    BY <1>5
<1> QED BY <1>4, <1>5, <1>6, <1>7

LEMMA ConcatFacts ==
    ASSUME NEW s, IsSeq(s), NEW t, IsSeq(t)
    PROVE  /\ IsSeq(s \o t)
           /\ \A n \in DOMAIN (s \o t) : (\E m \in DOMAIN s : (s \o t)[n] = s[m])
                                         \/ \E m \in DOMAIN t : (s \o t)[n] = t[m]
<1>1. PICK S : s \in Seq(S)
    BY DEF IsSeq
<1>2. PICK T : t \in Seq(T)
    BY DEF IsSeq
<1> DEFINE U == S \cup T
<1>3. s \in Seq(U) /\ t \in Seq(U)
    BY <1>1, <1>2, SeqMonotonic
<1> HIDE DEF U
<1>4. /\ s \o t \in Seq(U) /\ Len(s \o t) = Len(s) + Len(t)
      /\ \A n \in 1..(Len(s) + Len(t)) : (s \o t)[n] = IF n <= Len(s) THEN s[n] ELSE t[n - Len(s)]
    BY <1>3, ConcatProperties
<1>5. /\ Len(s) \in Nat /\ Len(t) \in Nat /\ DOMAIN s = 1..Len(s) /\ DOMAIN t = 1..Len(t)
      /\ DOMAIN (s \o t) = 1..(Len(s) + Len(t))
    BY <1>3, <1>4, LenProperties
<1>6. IsSeq(s \o t)
    BY <1>4 DEF IsSeq
<1>7. ASSUME NEW n \in DOMAIN (s \o t)
      PROVE  (\E m \in DOMAIN s : (s \o t)[n] = s[m]) \/ \E m \in DOMAIN t : (s \o t)[n] = t[m]
    <2>1. CASE n <= Len(s)
        BY <1>4, <1>5, <2>1
    <2>2. CASE ~(n <= Len(s))
        <3>1. n - Len(s) \in DOMAIN t
            BY <1>5, <2>2
        <3> QED BY <1>4, <1>5, <2>2, <3>1
    <2> QED BY <2>1, <2>2
<1> QED BY <1>6, <1>7

AtDepth(hrefs, d) == IsSeq(hrefs) /\ \A n \in DOMAIN hrefs : hrefs[n].depth = d

LEMMA ConcatAtDepth ==
    ASSUME NEW d, NEW s, NEW t, AtDepth(s, d), AtDepth(t, d)
    PROVE  AtDepth(s \o t, d)
BY ConcatFacts DEF AtDepth

(* The links of a page are one level deeper than the page.                 *)
LEMMA LinksAreDeeper ==
    ASSUME NEW base, NEW depth \in Nat, NEW page \in Pages, NEW copies
    PROVE  LET hrefs == ExtractLinks(base, depth, page, copies)
           IN  IsSeq(hrefs) /\ \A n \in DOMAIN hrefs : hrefs[n].depth = depth + 1
<1> DEFINE found == {i \in DOMAIN page : page[i].tag \in Range(Tags)}
           once == ExtractFromHtml(base, depth, page)
<1>1. Cardinality(found) \in Nat
    <2>1. IsFiniteSet(DOMAIN page)
        BY CrawlerAssumption
    <2>2. found \subseteq DOMAIN page
        OBVIOUS
    <2> HIDE DEF found
    <2> QED BY <2>1, <2>2, FS_Subset, FS_CardinalityType
<1>2. PICK E : once = [n \in 1..Cardinality(found) |-> ExtractAttr(base, depth, E[n])]
    <2> DEFINE TagOf(i) == CHOOSE t \in DOMAIN Tags : Tags[t] = page[i].tag
               Before(i) == {j \in found : TagOf(j) < TagOf(i) \/ (TagOf(j) = TagOf(i) /\ j < i)}
               Found(n) == page[CHOOSE i \in found : Cardinality(Before(i)) = n - 1]
    <2>1. once = [n \in 1..Cardinality(found) |-> ExtractAttr(base, depth, Found(n))]
        BY DEF ExtractFromHtml
    <2> DEFINE F == [n \in 1..Cardinality(found) |-> Found(n)]
    <2>2. \A n \in 1..Cardinality(found) : F[n] = Found(n)
        OBVIOUS
    <2> HIDE DEF Found, F, once
    <2>3. once = [n \in 1..Cardinality(found) |-> ExtractAttr(base, depth, F[n])]
        BY <2>1, <2>2
    <2> QED BY <2>3
<1> HIDE DEF found, once
<1>3. IsSeq(once) /\ \A n \in DOMAIN once : once[n].depth = depth + 1
    <2> DEFINE S == {ExtractAttr(base, depth, E[n]) : n \in 1..Cardinality(found)}
    <2>1. once \in [1..Cardinality(found) -> S]
        BY <1>2
    <2> HIDE DEF S
    <2>2. once \in Seq(S)
        BY <1>1, <2>1
    <2>3. \A n \in DOMAIN once : once[n].depth = depth + 1
        BY <1>2 DEF ExtractAttr
    <2> QED BY <2>2, <2>3 DEF IsSeq
<1>4. IsSeq(<<>>) /\ DOMAIN <<>> = {}
    <2>1. <<>> \in Seq({})
        OBVIOUS
    <2> QED BY <2>1 DEF IsSeq
<1> DEFINE second == IF copies > 1 THEN once ELSE <<>>
           third == IF copies > 2 THEN once ELSE <<>>
           deeper == depth + 1
<1>5. AtDepth(once, deeper) /\ AtDepth(second, deeper) /\ AtDepth(third, deeper)
    BY <1>3, <1>4 DEF AtDepth
<1> HIDE DEF second, third, deeper
<1>6. AtDepth(once \o second, deeper)
    BY <1>5, ConcatAtDepth
<1>7. AtDepth((once \o second) \o third, deeper)
    BY <1>5, <1>6, ConcatAtDepth
<1> QED BY <1>7 DEF ExtractLinks, AtDepth, deeper, once, second, third

LinksInDepth(hrefs) == IsSeq(hrefs) /\ \A n \in DOMAIN hrefs : hrefs[n].depth \in 1..MaxDepth

Marked(url) == \E s \in seen : s.url = url
Submits(w, url) == caller[w].at = "submit" /\ Head(caller[w].links).url = url

(* One URL: a worker that submits it has marked it, is alone in doing so   *)
(* and finds it not submitted in this session.                             *)
OncePerSession(url) ==
    /\ Times(url) \in Nat /\ Times(url) <= 1 + resets
    /\ ~ Marked(url) => Times(url) <= resets
    /\ \A w \in Workers : Submits(w, url) => Marked(url) /\ Times(url) <= resets /\ DomainAllowed(url)
    /\ \A v, w \in Workers : Submits(v, url) /\ Submits(w, url) => v = w
    /\ Marked(url) => Times(url) > 0 \/ url \in refused \/ \E w \in Workers : Submits(w, url)

TaskInBounds(task) ==
    /\ task.depth \in 1..MaxDepth /\ DomainAllowed(task.url)
    /\ (task.depth = 1) <=> (task.priority = "High")

CrawlInv ==
    /\ resets \in {0, 1}
    /\ IsSeq(submitted) /\ \A n \in DOMAIN submitted : TaskInBounds(submitted[n])
    /\ caller = [w \in Workers |-> caller[w]]
    /\ \A w \in Workers : /\ LinksInDepth(caller[w].links)
                          /\ caller[w].at = "submit" => caller[w].links # <<>>
    /\ \A url : OncePerSession(url)

(* The positions at which a URL was submitted.                             *)
LEMMA TimesFacts ==
    ASSUME IsSeq(submitted), NEW task, submitted' = Append(submitted, task), NEW url
    PROVE  Times(url)' = IF task.url = url THEN Times(url) + 1 ELSE Times(url)
<1> DEFINE at == {n \in DOMAIN submitted : submitted[n].url = url}
           atNext == {n \in DOMAIN submitted' : submitted'[n].url = url}
<1>1. IsFiniteSet(at)
    <2>1. IsFiniteSet(DOMAIN submitted)
        BY SeqFacts, FS_Interval
    <2> QED BY <2>1, FS_Subset
<1>2. /\ submitted'[Len(submitted) + 1] = task
      /\ DOMAIN submitted' = DOMAIN submitted \cup {Len(submitted) + 1}
      /\ Len(submitted) + 1 \notin DOMAIN submitted
      /\ \A n \in DOMAIN submitted : submitted'[n] = submitted[n]
    BY AppendFacts
<1>3. CASE task.url = url
    <2>1. atNext = at \cup {Len(submitted) + 1} /\ Len(submitted) + 1 \notin at
        BY <1>2, <1>3
    <2> HIDE DEF at, atNext
    <2>2. Cardinality(atNext) = Cardinality(at) + 1
        BY <1>1, <2>1, FS_AddElement
    <2> QED BY <1>3, <2>2 DEF Times, at, atNext
<1>4. CASE task.url # url
    <2>1. atNext = at
        BY <1>2, <1>4
    <2> QED BY <1>4, <2>1 DEF Times
<1> QED BY <1>3, <1>4

LEMMA CrawlStarts == CrawlerInit => CrawlInv
<1> SUFFICES ASSUME CrawlerInit PROVE CrawlInv
    OBVIOUS
<1>1. IsSeq(<<>>) /\ DOMAIN <<>> = {}
    <2>1. <<>> \in Seq({})
        OBVIOUS
    <2> QED BY <2>1 DEF IsSeq
<1>2. \A url : Times(url) = 0
    <2> TAKE url
    <2>1. {n \in DOMAIN submitted : submitted[n].url = url} = {}
        BY <1>1 DEF CrawlerInit
    <2> QED BY <2>1, FS_EmptySet DEF Times
<1>3. \A w \in Workers : caller[w] = NoCall
    BY DEF CrawlerInit
<1> QED BY <1>1, <1>2, <1>3 DEF CrawlerInit, CrawlInv, NoCall, LinksInDepth, OncePerSession,
                                Marked, Submits

LEMMA CrawlInductive == CrawlInv /\ [CrawlerNext]_crawlerVars => CrawlInv'
<1> SUFFICES ASSUME CrawlInv, [CrawlerNext]_crawlerVars PROVE CrawlInv'
    OBVIOUS
<1>1. CASE UNCHANGED crawlerVars
    <2>1. UNCHANGED <<seen, submitted, refused, collected, caller, resets>>
        BY <1>1 DEF crawlerVars
    <2>2. ASSUME NEW url PROVE OncePerSession(url)'
        <3>1. /\ Times(url)' = Times(url) /\ (Marked(url)' <=> Marked(url))
              /\ \A w \in Workers : Submits(w, url)' <=> Submits(w, url)
            BY <2>1 DEF Times, Marked, Submits
        <3> QED BY <2>1, <3>1 DEF OncePerSession, CrawlInv
    <2> QED BY <2>1, <2>2 DEF CrawlInv
<1>2. CASE ResetSeen
    <2>1. /\ resets = 0 /\ resets' = 1 /\ seen' = {} /\ refused' = {}
          /\ UNCHANGED <<submitted, caller>> /\ \A w \in Workers : caller[w] = NoCall
        BY <1>2 DEF ResetSeen
    <2>2. ASSUME NEW url PROVE OncePerSession(url)'
        <3>0. OncePerSession(url)
            BY DEF CrawlInv
        <3>1. Times(url)' = Times(url) /\ Times(url) \in Nat /\ Times(url) <= 1
            <4>1. Times(url)' = Times(url)
                BY <2>1 DEF Times
            <4> QED BY <2>1, <3>0, <4>1 DEF OncePerSession
        <3>2. ~ Marked(url)' /\ \A w \in Workers : ~ Submits(w, url)'
            BY <2>1 DEF Marked, Submits, NoCall
        <3> QED BY <2>1, <3>1, <3>2 DEF OncePerSession
    <2> QED BY <2>1, <2>2 DEF CrawlInv
<1>3. ASSUME NEW w \in Workers, NEW url, NEW depth \in 0..MaxDepth, NEW page \in Pages, NEW copies,
             ProcessResult(w, url, depth, page, copies)
      PROVE  CrawlInv'
    <2> DEFINE hrefs == ExtractLinks(url, depth, page, copies)
    <2>1. /\ depth < MaxDepth /\ caller[w] = NoCall
          /\ caller' = [caller EXCEPT ![w] = [at |-> "filter", links |-> hrefs, count |-> 0]]
          /\ UNCHANGED <<seen, submitted, refused, resets>>
        BY <1>3 DEF ProcessResult
    <2>2. LinksInDepth(hrefs)
        <3>1. IsSeq(hrefs) /\ \A n \in DOMAIN hrefs : hrefs[n].depth = depth + 1
            BY LinksAreDeeper, CrawlerAssumption
        <3>2. depth + 1 \in 1..MaxDepth
            BY <2>1, CrawlerAssumption
        <3> QED BY <3>1, <3>2 DEF LinksInDepth
    <2> HIDE DEF hrefs
    <2>3. /\ \A v \in Workers \ {w} : caller'[v] = caller[v]
          /\ caller'[w] = [at |-> "filter", links |-> hrefs, count |-> 0]
          /\ caller' = [v \in Workers |-> caller'[v]]
        BY <2>1 DEF CrawlInv
    <2>4. ASSUME NEW u PROVE OncePerSession(u)'
        <3>1. \A v \in Workers : Submits(v, u)' <=> Submits(v, u)
            BY <2>1, <2>3 DEF Submits, NoCall
        <3>2. Times(u)' = Times(u) /\ (Marked(u)' <=> Marked(u))
            BY <2>1 DEF Times, Marked
        <3> QED BY <2>1, <3>1, <3>2 DEF OncePerSession, CrawlInv
    <2> QED BY <2>1, <2>2, <2>3, <2>4 DEF CrawlInv
<1>4. ASSUME NEW w \in Workers, FilterLink(w) PROVE CrawlInv'
    <2> DEFINE link == Head(caller[w].links)
    <2>1. /\ caller[w].at = "filter" /\ caller[w].links # <<>> /\ LinksInDepth(caller[w].links)
          /\ UNCHANGED <<submitted, refused, collected, resets>>
        BY <1>4 DEF FilterLink, CrawlInv
    <2>2. LinksInDepth(Tail(caller[w].links))
        BY <2>1, TailFacts DEF LinksInDepth
    <2>3. CASE caller' = NextLink(w, 0) /\ seen' = seen
        <3>1. /\ \A v \in Workers \ {w} : caller'[v] = caller[v]
              /\ caller'[w].at = "filter" /\ caller'[w].links = Tail(caller[w].links)
              /\ caller' = [v \in Workers |-> caller'[v]]
            BY <2>3 DEF CrawlInv, NextLink
        <3>2. ASSUME NEW u PROVE OncePerSession(u)'
            <4>1. \A v \in Workers : Submits(v, u)' <=> Submits(v, u)
                BY <2>1, <3>1 DEF Submits
            <4>2. Times(u)' = Times(u) /\ (Marked(u)' <=> Marked(u))
                BY <2>1, <2>3 DEF Times, Marked
            <4> QED BY <2>1, <4>1, <4>2 DEF OncePerSession, CrawlInv
        <3> QED BY <2>1, <2>2, <3>1, <3>2 DEF CrawlInv
    <2>4. CASE /\ ShouldCrawl(link.url) /\ ~ Marked(link.url) /\ seen' = seen \cup {link}
               /\ caller' = [caller EXCEPT ![w] = [at |-> "submit", links |-> caller[w].links,
                                                   count |-> caller[w].count]]
        <3>1. /\ \A v \in Workers \ {w} : caller'[v] = caller[v]
              /\ caller'[w].at = "submit" /\ caller'[w].links = caller[w].links
              /\ caller' = [v \in Workers |-> caller'[v]]
            BY <2>4 DEF CrawlInv
        <3>2. ASSUME NEW u PROVE OncePerSession(u)'
            <4>1. Times(u)' = Times(u) /\ OncePerSession(u) /\ OncePerSession(link.url)
                BY <2>1 DEF Times, CrawlInv
            <4>2. CASE u = link.url
                <5>1. Marked(u)' /\ ~ Marked(u) /\ DomainAllowed(u)
                    BY <2>4, <4>2 DEF Marked, ShouldCrawl
                <5>2. \A v \in Workers : Submits(v, u)' <=> v = w
                    BY <3>1, <4>1, <4>2, <5>1 DEF OncePerSession, Submits
                <5> QED BY <2>1, <4>1, <5>1, <5>2 DEF OncePerSession
            <4>3. CASE u # link.url
                <5>1. Marked(u)' <=> Marked(u)
                    BY <2>4, <4>3 DEF Marked
                <5>2. \A v \in Workers : Submits(v, u)' <=> Submits(v, u)
                    BY <2>1, <3>1, <4>3 DEF Submits
                <5> QED BY <2>1, <4>1, <5>1, <5>2 DEF OncePerSession
            <4> QED BY <4>2, <4>3
        <3> QED BY <2>1, <3>1, <3>2 DEF CrawlInv
    <2> QED BY <1>4, <2>3, <2>4 DEF FilterLink, Marked
<1>5. ASSUME NEW w \in Workers, SubmitLink(w) PROVE CrawlInv'
    <2> DEFINE link == Head(caller[w].links)
               task == [url |-> link.url, depth |-> link.depth, priority |-> AdaptivePriority(link.depth)]
    <2>1. /\ caller[w].at = "submit" /\ caller[w].links # <<>> /\ LinksInDepth(caller[w].links)
          /\ Submits(w, link.url) /\ UNCHANGED <<seen, collected, resets>>
        BY <1>5 DEF SubmitLink, CrawlInv, Submits
    <2>2. LinksInDepth(Tail(caller[w].links)) /\ link.depth \in 1..MaxDepth
        BY <2>1, TailFacts DEF LinksInDepth
    <2>3. OncePerSession(link.url)
        BY DEF CrawlInv
    <2>4. TaskInBounds(task)
        BY <2>1, <2>2, <2>3 DEF TaskInBounds, OncePerSession, AdaptivePriority
    <2>5. /\ \E more \in {0, 1} : caller' = NextLink(w, more)
          /\ \/ submitted' = Append(submitted, task) /\ refused' = refused
             \/ submitted' = submitted /\ refused' = refused \cup {link.url}
        BY <1>5 DEF SubmitLink
    <2>6. /\ \A v \in Workers \ {w} : caller'[v] = caller[v]
          /\ caller'[w].at = "filter" /\ caller'[w].links = Tail(caller[w].links)
          /\ caller' = [v \in Workers |-> caller'[v]]
        <3>1. PICK more \in {0, 1} : caller' = NextLink(w, more)
            BY <2>5
        <3> DEFINE next == [at |-> "filter", links |-> Tail(caller[w].links),
                            count |-> caller[w].count + more]
        <3>2. caller' = [caller EXCEPT ![w] = next]
            BY <3>1 DEF NextLink
        <3>3. next.at = "filter" /\ next.links = Tail(caller[w].links)
            OBVIOUS
        <3> HIDE DEF next
        <3> QED BY <3>2, <3>3 DEF CrawlInv
    <2>7. \A u : \A v \in Workers : Submits(v, u)' <=> v # w /\ Submits(v, u)
        BY <2>6 DEF Submits
    <2>8. \A u : Marked(u)' <=> Marked(u)
        BY <2>1 DEF Marked
    <2>9. ASSUME NEW u PROVE OncePerSession(u)'
        <3>1. OncePerSession(u)
            BY DEF CrawlInv
        <3>2. CASE submitted' = Append(submitted, task) /\ refused' = refused
            <4>1. Times(u)' = IF link.url = u THEN Times(u) + 1 ELSE Times(u)
                BY <3>2, TimesFacts DEF CrawlInv
            <4>2. CASE u = link.url
                <5>1. Times(u) <= resets /\ Marked(u) /\ \A v \in Workers : ~ Submits(v, u)'
                    BY <2>1, <2>3, <2>7, <4>2 DEF OncePerSession
                <5> HIDE DEF link
                <5> QED BY <2>1, <2>8, <3>1, <4>1, <4>2, <5>1 DEF OncePerSession, CrawlInv
            <4>3. CASE u # link.url
                <5>1. ~ Submits(w, u)
                    BY <4>3 DEF Submits
                <5>2. Times(u)' = Times(u)
                    BY <4>1, <4>3
                <5> HIDE DEF link
                <5> QED BY <2>1, <2>7, <2>8, <3>1, <3>2, <5>1, <5>2 DEF OncePerSession
            <4> QED BY <4>2, <4>3
        <3>3. CASE submitted' = submitted /\ refused' = refused \cup {link.url}
            <4>1. Times(u)' = Times(u)
                BY <3>3 DEF Times
            <4>2. Submits(w, u) => u \in refused'
                BY <3>3 DEF Submits
            <4> QED BY <2>1, <2>7, <2>8, <3>1, <3>3, <4>1, <4>2 DEF OncePerSession
        <3> QED BY <2>5, <3>2, <3>3
    <2>10. IsSeq(submitted') /\ \A n \in DOMAIN submitted' : TaskInBounds(submitted'[n])
        <3>1. CASE submitted' = Append(submitted, task)
            <4> HIDE DEF task
            <4> QED BY <2>4, <3>1, AppendFacts DEF CrawlInv
        <3>2. CASE submitted' = submitted
            BY <3>2 DEF CrawlInv
        <3> QED BY <2>5, <3>1, <3>2
    <2> QED BY <2>1, <2>2, <2>6, <2>9, <2>10 DEF CrawlInv, TaskInBounds
<1>6. ASSUME NEW w \in Workers, ProcessReturns(w) PROVE CrawlInv'
    <2>1. /\ caller[w].at = "filter" /\ caller' = [caller EXCEPT ![w] = NoCall]
          /\ UNCHANGED <<seen, submitted, refused, resets>>
        BY <1>6 DEF ProcessReturns
    <2>2. /\ \A v \in Workers \ {w} : caller'[v] = caller[v] /\ caller'[w] = NoCall
          /\ caller' = [v \in Workers |-> caller'[v]]
        BY <2>1 DEF CrawlInv
    <2>3. LinksInDepth(<<>>)
        <3>1. <<>> \in Seq({}) /\ DOMAIN <<>> = {}
            OBVIOUS
        <3> QED BY <3>1 DEF LinksInDepth, IsSeq
    <2>4. ASSUME NEW u PROVE OncePerSession(u)'
        <3>1. \A v \in Workers : Submits(v, u)' <=> Submits(v, u)
            BY <2>1, <2>2 DEF Submits, NoCall
        <3>2. Times(u)' = Times(u) /\ (Marked(u)' <=> Marked(u))
            BY <2>1 DEF Times, Marked
        <3> QED BY <2>1, <3>1, <3>2 DEF OncePerSession, CrawlInv
    <2> QED BY <2>1, <2>2, <2>3, <2>4 DEF CrawlInv, NoCall
<1>7. ASSUME NEW w \in Workers, ProcessSeed(w) \/ ProcessTask(w) PROVE CrawlInv'
    <2>1. CASE ProcessSeed(w)
        <3>1. PICK url \in Seeds, page \in Pages, copies \in 1..2 : ProcessResult(w, url, 0, page, copies)
            BY <2>1 DEF ProcessSeed
        <3>2. 0 \in 0..MaxDepth
            BY CrawlerAssumption
        <3> QED BY <1>3, <3>1, <3>2
    <2>2. CASE ProcessTask(w)
        <3>1. PICK n \in DOMAIN submitted, page \in Pages :
                  ProcessResult(w, submitted[n].url, submitted[n].depth, page, 1)
            BY <2>2 DEF ProcessTask
        <3>2. submitted[n].depth \in 0..MaxDepth
            BY CrawlerAssumption DEF CrawlInv, TaskInBounds
        <3> QED BY <1>3, <3>1, <3>2
    <2> QED BY <1>7, <2>1, <2>2
<1> QED BY <1>1, <1>2, <1>4, <1>5, <1>6, <1>7 DEF CrawlerNext

(* Each URL is submitted once per session, in depth and to no host but an  *)
(* allowed one, and none that was marked is forgotten, for any number of   *)
(* workers and any pages (crawler.rs, process_result).                     *)
THEOREM CrawlerIsBounded == CrawlerSpec => []CrawlIsBounded
<1>1. CrawlInv => CrawlIsBounded
    <2> SUFFICES ASSUME CrawlInv PROVE CrawlIsBounded
        OBVIOUS
    <2>1. \A url : OncePerSession(url)
        BY DEF CrawlInv
    <2>2. \A url : Submitting(url) <=> \E w \in Workers : Submits(w, url)
        BY DEF Submitting, Submits
    <2>3. \A s \in seen : Times(s.url) > 0 \/ Submitting(s.url) \/ s.url \in refused
        BY <2>1, <2>2 DEF OncePerSession, Marked
    <2> QED BY <2>1, <2>3 DEF CrawlInv, CrawlIsBounded, TaskInBounds, OncePerSession
<1> QED BY <1>1, CrawlStarts, CrawlInductive, PTL DEF CrawlerSpec

-----------------------------------------------------------------------------
(* The persistent stores.  The tables: what the foreign keys and the       *)
(* upsert keep.                                                            *)
RowsInv ==
    /\ \A l \in DOMAIN pgLinks : pgLinks[l][1] \in DOMAIN pgObjects /\ pgLinks[l][2] \in DOMAIN pgObjects
    /\ DOMAIN pgObjects \cup DOMAIN pgLinks \subseteq givenIds

SnapshotsInv ==
    /\ saves = [a \in Aggregates |-> saves[a]]
    /\ \A a \in Aggregates : PgLoadSnapshot(a) \in saves[a]
    /\ \A a \in DOMAIN pgSnaps : pgSnaps[a].version \in Nat

LEMMA RowsInductive == RowsInv /\ [PersistentNext]_storesVars => RowsInv'
<1> SUFFICES ASSUME RowsInv, [PersistentNext]_storesVars PROVE RowsInv'
    OBVIOUS
<1>1. CASE UNCHANGED <<pgObjects, pgLinks, givenIds>>
    BY <1>1 DEF RowsInv
<1>2. ASSUME NEW id, NEW kind, NEW data, NEW how, PgCreateObject(id, kind, data, how)
      PROVE  RowsInv'
    <2>1. DOMAIN pgObjects' \in {DOMAIN pgObjects, DOMAIN pgObjects \cup {id}}
        BY <1>2 DEF PgCreateObject, WithKey
    <2> QED BY <1>2, <2>1 DEF PgCreateObject, RowsInv
<1>3. ASSUME NEW id, NEW data, NEW how, PgUpdateObject(id, data, how) PROVE RowsInv'
    <2>1. DOMAIN pgObjects' = DOMAIN pgObjects
        BY <1>3 DEF PgUpdateObject
    <2> QED BY <1>3, <2>1 DEF PgUpdateObject, RowsInv
<1>4. ASSUME NEW id, NEW how, PgDeleteRequest(id, how) PROVE RowsInv'
    <2>1. CASE TookEffect(how)
        <3>1. /\ DOMAIN pgObjects' = DOMAIN pgObjects \ {id}
              /\ DOMAIN pgLinks' = DOMAIN pgLinks \ PgLinksAt({id})
              /\ \A l \in DOMAIN pgLinks' : pgLinks'[l] = pgLinks[l]
            <4>1. /\ pgObjects' = WithoutKeys(pgObjects, {id})
                  /\ pgLinks' = WithoutKeys(pgLinks, PgLinksAt({id}))
                BY <1>4, <2>1 DEF PgDeleteRequest, PgDeleteObject
            <4> QED BY <4>1 DEF WithoutKeys, Restrict
        <3>2. \A l \in DOMAIN pgLinks' : pgLinks[l][1] # id /\ pgLinks[l][2] # id
            BY <3>1 DEF PgLinksAt
        <3>3. givenIds' = givenIds
            BY <1>4 DEF PgDeleteRequest
        <3> QED BY <3>1, <3>2, <3>3 DEF RowsInv
    <2>2. CASE ~ TookEffect(how)
        BY <1>1, <1>4, <2>2 DEF PgDeleteRequest, PgDeleteObject
    <2> QED BY <2>1, <2>2
<1>5. ASSUME NEW l, NEW source, NEW target, NEW how, PgLinkObjects(l, source, target, how)
      PROVE  RowsInv'
    <2>1. givenIds' = givenIds \cup {l} /\ pgObjects' = pgObjects
        BY <1>5 DEF PgLinkObjects
    <2>2. CASE TookEffect(how) /\ {source, target} \subseteq DOMAIN pgObjects
        <3>1. /\ DOMAIN pgLinks' = DOMAIN pgLinks \cup {l} /\ pgLinks'[l] = <<source, target>>
              /\ \A j \in DOMAIN pgLinks : j # l => pgLinks'[j] = pgLinks[j]
            <4>1. pgLinks' = WithKey(pgLinks, l, <<source, target>>)
                BY <1>5, <2>2 DEF PgLinkObjects
            <4> QED BY <4>1 DEF WithKey
        <3> QED BY <2>1, <2>2, <3>1 DEF RowsInv
    <2>3. CASE ~(TookEffect(how) /\ {source, target} \subseteq DOMAIN pgObjects)
        BY <1>5, <2>1, <2>3 DEF PgLinkObjects, RowsInv
    <2> QED BY <2>2, <2>3
<1>6. ASSUME NEW l, NEW how, PgUnlinkObjects(l, how) PROVE RowsInv'
    <2>1. /\ DOMAIN pgLinks' \subseteq DOMAIN pgLinks
          /\ \A j \in DOMAIN pgLinks' : pgLinks'[j] = pgLinks[j]
        <3>1. pgLinks' = WithoutKeys(pgLinks, {l}) \/ pgLinks' = pgLinks
            BY <1>6 DEF PgUnlinkObjects
        <3> QED BY <3>1 DEF WithoutKeys, Restrict
    <2> QED BY <1>6, <2>1 DEF PgUnlinkObjects, RowsInv
<1>7. ASSUME NEW id, NEW ok \in BOOLEAN, PgGetObject(id, ok) PROVE RowsInv'
    BY <1>1, <1>7 DEF PgGetObject
<1>8. CASE PgObjectNext
    BY <1>2, <1>3, <1>4, <1>5, <1>6, <1>7, <1>8 DEF PgObjectNext
<1> QED BY <1>1, <1>8 DEF PersistentNext, storesVars

LEMMA SnapshotsInductive == SnapshotsInv /\ [PersistentNext]_storesVars => SnapshotsInv'
<1> SUFFICES ASSUME SnapshotsInv, [PersistentNext]_storesVars PROVE SnapshotsInv'
    OBVIOUS
<1>1. CASE UNCHANGED <<pgSnaps, saves>>
    BY <1>1 DEF SnapshotsInv, PgLoadSnapshot
<1>2. ASSUME NEW a \in Aggregates, NEW how, PgDeleteSnapshot(a, how) PROVE SnapshotsInv'
    <2>1. /\ saves' = [saves EXCEPT ![a] = saves'[a]] /\ Nothing \in saves'[a]
          /\ ~ Answered(how) => saves[a] \subseteq saves'[a]
        BY <1>2 DEF PgDeleteSnapshot, SnapshotsInv
    <2>2. CASE TookEffect(how)
        <3>1. pgSnaps' = WithoutKeys(pgSnaps, {a})
            BY <1>2, <2>2 DEF PgDeleteSnapshot
        <3>2. DOMAIN pgSnaps' = DOMAIN pgSnaps \ {a} /\ \A b \in DOMAIN pgSnaps' : pgSnaps'[b] = pgSnaps[b]
            BY <3>1 DEF WithoutKeys, Restrict
        <3>3. \A b \in Aggregates \ {a} : saves'[b] = saves[b]
            BY <2>1 DEF SnapshotsInv
        <3> QED BY <2>1, <3>2, <3>3 DEF SnapshotsInv, PgLoadSnapshot
    <2>3. CASE ~ TookEffect(how)
        <3>1. pgSnaps' = pgSnaps /\ ~ Answered(how)
            BY <1>2, <2>3 DEF PgDeleteSnapshot, TookEffect, Answered
        <3>2. \A b \in Aggregates : saves[b] \subseteq saves'[b]
            BY <2>1, <3>1 DEF SnapshotsInv
        <3> QED BY <2>1, <3>1, <3>2 DEF SnapshotsInv, PgLoadSnapshot
    <2> QED BY <2>2, <2>3
<1>3. ASSUME NEW a \in Aggregates, NEW how, NEW v \in Versions, NEW s \in Contents,
             PgSaveSnapshot(a, v, s, how)
      PROVE  SnapshotsInv'
    <2> DEFINE row == [version |-> v, state |-> s]
    <2>1. /\ saves' = [saves EXCEPT ![a] = saves'[a]] /\ row \in saves'[a]
          /\ ~ Answered(how) => saves[a] \subseteq saves'[a]
        BY <1>3 DEF PgSaveSnapshot, SnapshotsInv
    <2>2. row.version \in Nat
        BY StoresAssumption
    <2>3. TookEffect(how) => pgSnaps' = WithKey(pgSnaps, a, row)
        BY <1>3 DEF PgSaveSnapshot
    <2> HIDE DEF row
    <2>4. CASE TookEffect(how)
        <3>1. /\ DOMAIN pgSnaps' = DOMAIN pgSnaps \cup {a} /\ pgSnaps'[a] = row
              /\ \A b \in DOMAIN pgSnaps : b # a => pgSnaps'[b] = pgSnaps[b]
            BY <2>3, <2>4 DEF WithKey
        <3>2. \A b \in Aggregates \ {a} : saves'[b] = saves[b]
            BY <2>1 DEF SnapshotsInv
        <3> QED BY <2>1, <2>2, <3>1, <3>2 DEF SnapshotsInv, PgLoadSnapshot
    <2>5. CASE ~ TookEffect(how)
        <3>1. pgSnaps' = pgSnaps /\ ~ Answered(how)
            BY <1>3, <2>5 DEF PgSaveSnapshot, TookEffect, Answered
        <3>2. \A b \in Aggregates : saves[b] \subseteq saves'[b]
            BY <2>1, <3>1 DEF SnapshotsInv
        <3> QED BY <2>1, <3>1, <3>2 DEF SnapshotsInv, PgLoadSnapshot
    <2> QED BY <2>4, <2>5
<1>4. CASE PgSnapshotNext
    BY <1>2, <1>3, <1>4 DEF PgSnapshotNext
<1> QED BY <1>1, <1>4 DEF PersistentNext, storesVars

(* The files under the data directory: a path is never both a file and a   *)
(* directory, and every path leads there through directories.              *)
StoredPath == Seq(STRING) \ {<<>>}

FilesInv ==
    /\ directories \subseteq StoredPath /\ DOMAIN files \subseteq StoredPath
    /\ directories \cap DOMAIN files = {}
    /\ inDirectory \in BOOLEAN /\ (~ inDirectory => directories = {})
    /\ inDirectory => \A p \in DOMAIN files \cup directories : Parents(p) \subseteq directories

(* A file being written is there, and nothing is said of what it will hold *)
(* by the writes before; a write alone on its file stays so until another  *)
(* begins.                                                                 *)
WritesInv ==
    /\ ~ inDirectory => DOMAIN kept = {} /\ DOMAIN writing = {}
    /\ \A q \in DOMAIN writing : \E path, c, a : a \in BOOLEAN /\ writing[q] = [path |-> path, contents |-> c, alone |-> a]
    /\ \A p \in DOMAIN kept : p \in DOMAIN files /\ files[p] = kept[p]
    /\ \A q \in DOMAIN writing : writing[q].path # <<>> =>
         /\ writing[q].path \in DOMAIN files /\ writing[q].path \notin DOMAIN kept
         /\ writing[q].alone => \A r \in DOMAIN writing : writing[r].path = writing[q].path => r = q

LEMMA ParentsFacts ==
    ASSUME NEW p \in StoredPath
    PROVE  /\ Parents(p) \subseteq StoredPath
           /\ \A q \in Parents(p) : Parents(q) \subseteq Parents(p)
           /\ Front(p) = <<>> \/ Front(p) \in Parents(p)
<1>1. p \in Seq(STRING) /\ Len(p) \in Nat \ {0} /\ \A n \in 1..Len(p) : p[n] \in STRING
    BY EmptySeq, ElementOfSeq DEF StoredPath
<1>2. ASSUME NEW m \in 1..(Len(p) - 1)
      PROVE  /\ SubSeq(p, 1, m) \in StoredPath /\ Len(SubSeq(p, 1, m)) = m
             /\ \A n \in 1..m : SubSeq(p, 1, m)[n] = p[n]
    <2>1. m \in Nat /\ 1 <= m /\ \A n \in 1..m : p[n] \in STRING
        BY <1>1
    <2>2. /\ SubSeq(p, 1, m) \in Seq(STRING) /\ Len(SubSeq(p, 1, m)) = m
          /\ \A n \in 1..m : SubSeq(p, 1, m)[n] = p[n]
        BY <2>1, SubSeqProperties
    <2>3. SubSeq(p, 1, m) # <<>>
        BY <2>1, <2>2, EmptySeq
    <2> QED BY <2>2, <2>3 DEF StoredPath
<1>3. Parents(p) \subseteq StoredPath
    BY <1>2 DEF Parents
<1>4. ASSUME NEW q \in Parents(p), NEW r \in Parents(q) PROVE r \in Parents(p)
    <2>1. PICK m \in 1..(Len(p) - 1) : q = SubSeq(p, 1, m)
        BY DEF Parents
    <2>2. /\ q \in Seq(STRING) /\ Len(q) = m /\ \A n \in 1..m : q[n] = p[n] /\ p[n] \in STRING
        BY <1>1, <1>2, <2>1 DEF StoredPath
    <2>3. PICK k \in 1..(m - 1) : r = SubSeq(q, 1, k)
        BY <2>2 DEF Parents
    <2>4. k \in 1..(Len(p) - 1) /\ k \in 1..m /\ k \in Nat /\ m \in Nat
        BY <1>1
    <2>5. /\ SubSeq(q, 1, k) \in Seq(STRING) /\ Len(SubSeq(q, 1, k)) = k
          /\ \A n \in 1..k : SubSeq(q, 1, k)[n] = p[n]
        <3>1. \A n \in 1..k : n \in 1..m
            BY <2>4
        <3>2. /\ SubSeq(q, 1, k) \in Seq(STRING) /\ Len(SubSeq(q, 1, k)) = k
              /\ \A n \in 1..k : SubSeq(q, 1, k)[n] = q[n]
            BY <2>2, <2>4, <3>1, SubSeqProperties
        <3> QED BY <2>2, <3>1, <3>2
    <2>6. /\ SubSeq(p, 1, k) \in Seq(STRING) /\ Len(SubSeq(p, 1, k)) = k
          /\ \A n \in 1..k : SubSeq(p, 1, k)[n] = p[n]
        BY <1>2, <2>4 DEF StoredPath
    <2>7. SubSeq(q, 1, k) = SubSeq(p, 1, k)
        BY <2>5, <2>6, SeqEqual
    <2> QED BY <2>3, <2>4, <2>7 DEF Parents
<1>5. Front(p) = <<>> \/ Front(p) \in Parents(p)
    <2>1. CASE Len(p) = 1
        <3>1. SubSeq(p, 1, 0) = <<>>
            BY SubSeqEmpty
        <3> QED BY <2>1, <3>1 DEF Front
    <2>2. CASE Len(p) # 1
        <3> DEFINE l == Len(p)
        <3>1. l \in Nat \ {0} /\ l # 1
            BY <1>1, <2>2
        <3> HIDE DEF l
        <3>2. l - 1 \in 1..(l - 1)
            BY <3>1
        <3>3. Len(p) - 1 \in 1..(Len(p) - 1)
            BY <3>2 DEF l
        <3> QED BY <3>3 DEF Front, Parents
    <2> QED BY <2>1, <2>2
<1> QED BY <1>3, <1>4, <1>5

LEMMA FilesInductive == FilesInv /\ WritesInv /\ [PersistentNext]_storesVars => FilesInv'
<1> SUFFICES ASSUME FilesInv, WritesInv, [PersistentNext]_storesVars PROVE FilesInv'
    OBVIOUS
<1>0. inDirectory' = inDirectory
    BY DEF PersistentNext, storesVars, fileVars
<1>1. CASE UNCHANGED <<files, directories>>
    BY <1>0, <1>1 DEF FilesInv
<1>2. ASSUME NEW p \in Paths, NEW c, inDirectory,
             directories' = directories \cup MakeDirectories(p),
             \/ files' = files
             \/ /\ p \notin directories' /\ Parents(p) \subseteq directories'
                /\ files' = WithKey(files, p, c)
      PROVE  FilesInv'
    <2>1. p \in StoredPath
        BY StoresAssumption DEF StoredPath
    <2> DEFINE made == MakeDirectories(p)
    <2>2. /\ made \subseteq Parents(p) /\ made \cap DOMAIN files = {}
          /\ \A q \in made : Parents(q) \subseteq made
        BY <2>1, ParentsFacts DEF MakeDirectories
    <2>3. made \subseteq StoredPath
        BY <2>1, <2>2, ParentsFacts
    <2>4. directories' = directories \cup made
        BY <1>2
    <2> HIDE DEF made
    <2>5. CASE files' = files
        BY <1>0, <1>2, <2>2, <2>3, <2>4, <2>5 DEF FilesInv
    <2>6. CASE /\ p \notin directories' /\ Parents(p) \subseteq directories'
               /\ files' = WithKey(files, p, c)
        <3>1. DOMAIN files' = DOMAIN files \cup {p}
            BY <2>6 DEF WithKey
        <3> QED BY <1>0, <1>2, <2>1, <2>2, <2>3, <2>4, <2>6, <3>1 DEF FilesInv
    <2> QED BY <1>2, <2>5, <2>6
<1>3. ASSUME NEW q, NEW p \in Paths, NEW c, NEW ok, StoreBegins(q, p, c, ok) PROVE FilesInv'
    <2>1. /\ inDirectory /\ directories' = directories \cup MakeDirectories(p)
          /\ \/ files' = files
             \/ /\ p \notin directories' /\ Parents(p) \subseteq directories'
                /\ files' = WithKey(files, p, "torn")
        BY <1>3 DEF StoreBegins
    <2> QED BY <1>2, <2>1
<1>4. ASSUME NEW p \in Paths, NEW c, NEW ok, StorePut(p, c, ok) PROVE FilesInv'
    <2>1. /\ p \in StoredPath /\ ~ inDirectory /\ directories' = directories
          /\ DOMAIN files' \in {DOMAIN files, DOMAIN files \cup {p}}
        BY <1>4, StoresAssumption DEF StorePut, StoredPath, WithKey
    <2> QED BY <1>0, <2>1 DEF FilesInv
<1>5. ASSUME NEW p \in Paths, NEW ok, DeleteData(p, ok) PROVE FilesInv'
    <2>1. directories' = directories /\ DOMAIN files' \subseteq DOMAIN files
        BY <1>5 DEF DeleteData, WithoutKeys, Restrict
    <2> QED BY <1>0, <2>1 DEF FilesInv
<1>6. ASSUME NEW q \in DOMAIN writing, NEW ok, StoreEnds(q, ok) PROVE FilesInv'
    <2>1. directories' = directories
        BY <1>6 DEF StoreEnds
    <2>2. DOMAIN files' = DOMAIN files
        <3>1. CASE writing[q].path = <<>>
            BY <1>6, <3>1 DEF StoreEnds
        <3>2. CASE writing[q].path # <<>>
            <4>1. PICK c : files' = WithKey(files, writing[q].path, c)
                BY <1>6, <3>2 DEF StoreEnds
            <4> QED BY <1>6, <3>2, <4>1 DEF WithKey, WritesInv
        <3> QED BY <3>1, <3>2
    <2> QED BY <1>0, <2>1, <2>2 DEF FilesInv
<1>7. ASSUME NEW p, NEW ok, LoadData(p, ok) PROVE FilesInv'
    BY <1>1, <1>7 DEF LoadData
<1>8. CASE StorageFileNext
    BY <1>3, <1>4, <1>5, <1>6, <1>7, <1>8 DEF StorageFileNext
<1> QED BY <1>1, <1>8 DEF PersistentNext, storesVars, fileVars

LEMMA WritesInductive ==
    FilesInv /\ WritesInv /\ [PersistentNext]_storesVars => WritesInv'
<1> SUFFICES ASSUME FilesInv, WritesInv, [PersistentNext]_storesVars PROVE WritesInv'
    OBVIOUS
<1>0. inDirectory' = inDirectory
    BY DEF PersistentNext, storesVars, fileVars
<1>1. CASE UNCHANGED <<files, writing, kept>>
    BY <1>0, <1>1 DEF WritesInv
<1>2. ASSUME NEW q, NEW p \in Paths, NEW c, NEW ok, StoreBegins(q, p, c, ok) PROVE WritesInv'
    <2>1. CASE UNCHANGED <<files, writing, kept>>
        BY <1>1, <2>1
    <2>2. CASE ~ UNCHANGED <<files, writing, kept>>
        <3> DEFINE new == [path |-> p, contents |-> c, alone |-> ~ IsWritten(p)]
        <3>1. /\ files' = WithKey(files, p, "torn") /\ kept' = WithoutKeys(kept, {p})
              /\ writing' = WithKey([r \in DOMAIN writing |->
                     [writing[r] EXCEPT !.alone = @ /\ writing[r].path # p]], q, new)
              /\ q \notin DOMAIN writing /\ inDirectory
            BY <1>2, <2>2 DEF StoreBegins
        <3>2. /\ new.path = p /\ new.alone \in BOOLEAN
              /\ new = [path |-> p, contents |-> c, alone |-> new.alone]
            OBVIOUS
        <3>0. new.alone => \A r \in DOMAIN writing : writing[r].path # p
            <4>1. CASE IsWritten(p)
                <5>1. new.alone = FALSE
                    BY <4>1
                <5> QED BY <5>1
            <4>2. CASE ~ IsWritten(p)
                BY <4>2 DEF IsWritten
            <4> QED BY <4>1, <4>2
        <3> HIDE DEF new
        <3>3. /\ DOMAIN files' = DOMAIN files \cup {p}
              /\ \A d \in DOMAIN files : d # p => files'[d] = files[d]
            BY <3>1 DEF WithKey
        <3>4. DOMAIN kept' = DOMAIN kept \ {p} /\ \A d \in DOMAIN kept' : kept'[d] = kept[d]
            BY <3>1 DEF WithoutKeys, Restrict
        <3>5. /\ DOMAIN writing' = DOMAIN writing \cup {q} /\ writing'[q] = new
              /\ \A r \in DOMAIN writing :
                   writing'[r] = [writing[r] EXCEPT !.alone = @ /\ writing[r].path # p]
            BY <3>1 DEF WithKey
        <3>6. ASSUME NEW r \in DOMAIN writing
              PROVE  /\ writing'[r].path = writing[r].path
                     /\ writing'[r].alone => writing[r].alone /\ writing[r].path # p
                     /\ \E path, d, a : a \in BOOLEAN /\ writing'[r] = [path |-> path, contents |-> d, alone |-> a]
            <4>1. PICK path, d, a : a \in BOOLEAN /\ writing[r] = [path |-> path, contents |-> d, alone |-> a]
                BY DEF WritesInv
            <4>2. writing'[r] = [path |-> path, contents |-> d, alone |-> a /\ writing[r].path # p]
                BY <3>5, <4>1
            <4>3. (a /\ writing[r].path # p) \in BOOLEAN
                OBVIOUS
            <4>4. writing'[r].path = writing[r].path /\ (writing'[r].alone => writing[r].alone /\ writing[r].path # p)
                <5>1. CASE a /\ writing[r].path # p
                    BY <4>1, <4>2, <5>1
                <5>2. CASE ~ (a /\ writing[r].path # p)
                    <6>1. (a /\ writing[r].path # p) = FALSE
                        BY <5>2
                    <6>2. writing'[r] = [path |-> path, contents |-> d, alone |-> FALSE]
                        BY <4>2, <6>1
                    <6> QED BY <4>1, <6>2
                <5> QED BY <5>1, <5>2
            <4>5. \E path1, d1, a1 : a1 \in BOOLEAN /\ writing'[r] = [path |-> path1, contents |-> d1, alone |-> a1]
                BY <4>2, <4>3
            <4> QED BY <4>4, <4>5
        <3>7. \A d \in DOMAIN kept' : d \in DOMAIN files' /\ files'[d] = kept'[d]
            BY <3>3, <3>4 DEF WritesInv
        <3>8. ASSUME NEW r \in DOMAIN writing', writing'[r].path # <<>>
              PROVE  /\ writing'[r].path \in DOMAIN files' /\ writing'[r].path \notin DOMAIN kept'
                     /\ writing'[r].alone =>
                          \A o \in DOMAIN writing' : writing'[o].path = writing'[r].path => o = r
            <4>1. CASE r = q
                BY <3>2, <3>3, <3>4, <3>5, <3>6, <3>0, <4>1
            <4>2. CASE r # q
                BY <3>2, <3>3, <3>4, <3>5, <3>6, <3>8, <4>2 DEF WritesInv
            <4> QED BY <4>1, <4>2
        <3>9. ASSUME NEW r \in DOMAIN writing'
              PROVE  \E path, d, a : a \in BOOLEAN /\ writing'[r] = [path |-> path, contents |-> d, alone |-> a]
            <4>1. CASE r = q
                <5>1. writing'[r] = [path |-> p, contents |-> c, alone |-> new.alone]
                    BY <3>2, <3>5, <4>1
                <5>2. new.alone \in BOOLEAN
                    BY <3>2
                <5> QED BY <5>1, <5>2
            <4>2. CASE r # q
                <5>1. r \in DOMAIN writing
                    BY <3>5, <4>2
                <5> QED BY <3>6, <5>1
            <4> QED BY <4>1, <4>2
        <3>10. inDirectory'
            BY <1>0, <3>1
        <3> QED BY <3>7, <3>8, <3>9, <3>10 DEF WritesInv
    <2> QED BY <2>1, <2>2
<1>3. ASSUME NEW q \in DOMAIN writing, NEW ok, StoreEnds(q, ok) PROVE WritesInv'
    <2> DEFINE p == writing[q].path
    <2>1. /\ DOMAIN writing' = DOMAIN writing \ {q}
          /\ \A r \in DOMAIN writing' : writing'[r] = writing[r]
        BY <1>3 DEF StoreEnds, WithoutKeys, Restrict
    <2>2. CASE p = <<>>
        <3>1. UNCHANGED <<files, kept>>
            BY <1>3, <2>2 DEF StoreEnds
        <3> QED BY <1>0, <2>1, <3>1 DEF WritesInv
    <2>3. CASE p # <<>>
        <3>1. PICK c : /\ files' = WithKey(files, p, c)
                       /\ \/ kept' = kept
                          \/ writing[q].alone /\ c = writing[q].contents /\ kept' = WithKey(kept, p, c)
            BY <1>3, <2>3 DEF StoreEnds
        <3>2. p \in DOMAIN files /\ p \notin DOMAIN kept
            BY <2>3 DEF WritesInv
        <3>3. /\ DOMAIN files' = DOMAIN files /\ files'[p] = c
              /\ \A d \in DOMAIN files : d # p => files'[d] = files[d]
            BY <3>1, <3>2 DEF WithKey
        <3>4. CASE kept' = kept
            BY <1>0, <2>1, <3>2, <3>3, <3>4 DEF WritesInv
        <3>5. CASE writing[q].alone /\ kept' = WithKey(kept, p, c)
            <4>1. /\ DOMAIN kept' = DOMAIN kept \cup {p} /\ kept'[p] = c
                  /\ \A d \in DOMAIN kept : d # p => kept'[d] = kept[d]
                BY <3>5 DEF WithKey
            <4>2. \A r \in DOMAIN writing : r # q => writing[r].path # p
                BY <2>3, <3>5 DEF WritesInv
            <4>3. inDirectory
                BY DEF WritesInv
            <4> QED BY <1>0, <2>1, <3>2, <3>3, <4>1, <4>2, <4>3 DEF WritesInv
        <3> QED BY <3>1, <3>4, <3>5
    <2> QED BY <2>2, <2>3
<1>4. ASSUME NEW p, NEW c, NEW ok, StorePut(p, c, ok), ~ inDirectory PROVE WritesInv'
    BY <1>0, <1>4 DEF StorePut, WritesInv
<1>5. ASSUME NEW p, NEW ok, DeleteData(p, ok) PROVE WritesInv'
    <2>1. CASE UNCHANGED <<files, writing, kept>>
        BY <1>1, <2>1
    <2>2. CASE ~ UNCHANGED <<files, writing, kept>>
        <3>1. /\ files' = WithoutKeys(files, {p}) /\ kept' = WithoutKeys(kept, {p})
              /\ writing' = [r \in DOMAIN writing |->
                               [writing[r] EXCEPT !.path = IF @ = p THEN <<>> ELSE @]]
            BY <1>5, <2>2 DEF DeleteData
        <3>2. /\ DOMAIN files' = DOMAIN files \ {p} /\ \A d \in DOMAIN files' : files'[d] = files[d]
              /\ DOMAIN kept' = DOMAIN kept \ {p} /\ \A d \in DOMAIN kept' : kept'[d] = kept[d]
            BY <3>1 DEF WithoutKeys, Restrict
        <3>3. DOMAIN writing' = DOMAIN writing
            BY <3>1
        <3>4. ASSUME NEW r \in DOMAIN writing
              PROVE  /\ writing'[r].path # <<>> =>
                          writing'[r].path = writing[r].path /\ writing[r].path # p
                     /\ writing'[r].alone = writing[r].alone
                     /\ \E path, d, a : a \in BOOLEAN /\ writing'[r] = [path |-> path, contents |-> d, alone |-> a]
            <4>1. PICK path, d, a : a \in BOOLEAN /\ writing[r] = [path |-> path, contents |-> d, alone |-> a]
                BY DEF WritesInv
            <4>2. writing'[r] = [path |-> IF path = p THEN <<>> ELSE path, contents |-> d, alone |-> a]
                BY <3>1, <4>1
            <4>3. /\ writing'[r].path # <<>> => writing'[r].path = writing[r].path /\ writing[r].path # p
                  /\ writing'[r].alone = writing[r].alone
                BY <4>1, <4>2
            <4>4. \E path1, d1, a1 : a1 \in BOOLEAN /\ writing'[r] = [path |-> path1, contents |-> d1, alone |-> a1]
                BY <4>1, <4>2
            <4> QED BY <4>3, <4>4
        <3>5. ASSUME NEW r \in DOMAIN writing', writing'[r].path # <<>>
              PROVE  /\ writing'[r].path \in DOMAIN files' /\ writing'[r].path \notin DOMAIN kept'
                     /\ writing'[r].alone =>
                          \A o \in DOMAIN writing' : writing'[o].path = writing'[r].path => o = r
            BY <3>2, <3>3, <3>4, <3>5 DEF WritesInv
        <3>6. \A d \in DOMAIN kept' : d \in DOMAIN files' /\ files'[d] = kept'[d]
            BY <3>2 DEF WritesInv
        <3> QED BY <1>0, <3>2, <3>3, <3>4, <3>5, <3>6 DEF WritesInv
    <2> QED BY <2>1, <2>2
<1>6. ASSUME NEW p, NEW ok, LoadData(p, ok) PROVE WritesInv'
    BY <1>1, <1>6 DEF LoadData
<1>7. CASE StorageFileNext
    BY <1>2, <1>3, <1>4, <1>5, <1>6, <1>7 DEF StorageFileNext, StorePut
<1> QED BY <1>1, <1>7 DEF PersistentNext, storesVars, fileVars

(* Links have both their objects, a snapshot is one its callers must       *)
(* reckon with, a file whose last write was whole and alone holds it, files*)
(* and directories do not mix and every stored key is listed, whichever    *)
(* statement or file operation fails, before or after it took effect, and  *)
(* however the writes overlap (persistent.rs and 0002_kernel.sql).         *)
THEOREM StoresDataIsWhole == StoresSpec => []StoredDataIsWhole
<1>1. StoresInit => RowsInv /\ SnapshotsInv /\ FilesInv /\ WritesInv
    <2>1. DOMAIN <<>> = {}
        OBVIOUS
    <2> QED BY <2>1 DEF StoresInit, RowsInv, SnapshotsInv, PgLoadSnapshot, FilesInv, WritesInv
<1>2. RowsInv /\ SnapshotsInv /\ FilesInv /\ WritesInv => StoredDataIsWhole
    <2> SUFFICES ASSUME RowsInv, SnapshotsInv, FilesInv, WritesInv PROVE StoredDataIsWhole
        OBVIOUS
    <2>1. /\ \A l \in DOMAIN pgLinks : {pgLinks[l][1], pgLinks[l][2]} \subseteq DOMAIN pgObjects
          /\ DOMAIN pgObjects \cup DOMAIN pgLinks \subseteq givenIds
        BY DEF RowsInv
    <2>2. \A a \in Aggregates : PgLoadSnapshot(a) \in saves[a]
        BY DEF SnapshotsInv
    <2>3. ASSUME NEW a \in DOMAIN pgSnaps, NEW s \in PgLoadLatest(TypeOfAggregate[a])
          PROVE  s.version >= pgSnaps[a].version
        <3>1. PICK b \in DOMAIN pgSnaps : s = pgSnaps[b] /\ pgSnaps[a].version <= pgSnaps[b].version
            BY DEF PgLoadLatest
        <3> QED BY <3>1 DEF SnapshotsInv
    <2>4. ASSUME inDirectory, NEW p \in DOMAIN files \cup directories
          PROVE  Parents(p) \subseteq directories /\ p \in ListData(Front(p))
        <3>1. p \in StoredPath /\ Parents(p) \subseteq directories
            BY <2>4 DEF FilesInv
        <3>2. Front(p) = <<>> \/ Front(p) \in directories
            BY <3>1, ParentsFacts
        <3> QED BY <2>4, <3>1, <3>2 DEF ListData
    <2>5. PgObjectKindsListed(TRUE) \subseteq {""}
        BY DEF PgObjectKindsListed, PgFindByKind
    <2>6. directories \cap DOMAIN files = {}
        BY DEF FilesInv
    <2>7. \A p \in DOMAIN kept : p \in DOMAIN files /\ files[p] = kept[p]
        BY DEF WritesInv
    <2> QED BY <2>1, <2>2, <2>3, <2>4, <2>5, <2>6, <2>7 DEF StoredDataIsWhole
<1> QED BY <1>1, <1>2, RowsInductive, SnapshotsInductive, FilesInductive, WritesInductive, PTL DEF StoresSpec

-----------------------------------------------------------------------------
(* Monitoring.  How often a change is in a list.                           *)
Occurs(s, c) == {n \in DOMAIN s : s[n] = c}
Occurrences(s, c) == Cardinality(Occurs(s, c))

LEMMA OccurrencesAreNat ==
    ASSUME NEW s, IsSeq(s), NEW c
    PROVE  IsFiniteSet(Occurs(s, c)) /\ Occurrences(s, c) \in Nat
<1>1. Occurs(s, c) \subseteq 1..Len(s) /\ Len(s) \in Nat
    BY SeqFacts DEF Occurs
<1>2. IsFiniteSet(1..Len(s))
    BY <1>1, FS_Interval
<1> QED BY <1>1, <1>2, FS_Subset, FS_CardinalityType DEF Occurrences

LEMMA NoOccurrence ==
    ASSUME NEW s, NEW c, \A n \in DOMAIN s : s[n] # c
    PROVE  Occurrences(s, c) = 0
<1>1. Occurs(s, c) = {}
    BY DEF Occurs
<1> QED BY <1>1, FS_EmptySet DEF Occurrences

LEMMA CountOfOne ==
    ASSUME NEW s, NEW c, NEW k \in DOMAIN s, s[k] = c, \A n \in DOMAIN s : s[n] = c => n = k
    PROVE  Occurrences(s, c) = 1
<1>1. Occurs(s, c) = {k}
    BY DEF Occurs
<1> QED BY <1>1, FS_Singleton DEF Occurrences

LEMMA CountOfSingle ==
    ASSUME NEW x, NEW c
    PROVE  IsSeq(<<x>>) /\ Occurrences(<<x>>, c) = IF x = c THEN 1 ELSE 0
<1>1. <<x>> \in Seq({x}) /\ DOMAIN <<x>> = {1} /\ <<x>>[1] = x
    OBVIOUS
<1>2. IsSeq(<<x>>)
    BY <1>1 DEF IsSeq
<1>3. CASE x = c
    BY <1>1, <1>2, <1>3, CountOfOne
<1>4. CASE x # c
    BY <1>1, <1>2, <1>4, NoOccurrence
<1> QED BY <1>3, <1>4

LEMMA CountOfTail ==
    ASSUME NEW s, IsSeq(s), s # <<>>, NEW c
    PROVE  IsSeq(Tail(s)) /\ Occurrences(s, c) = Occurrences(Tail(s), c) + Occurrences(<<Head(s)>>, c)
<1> DEFINE t == Tail(s)
           later == {n \in Occurs(s, c) : n # 1}
           shift == [n \in Occurs(t, c) |-> n + 1]
<1>1. PICK S : s \in Seq(S)
    BY DEF IsSeq
<1>2. /\ t \in Seq(S) /\ Len(t) = Len(s) - 1 /\ Len(s) \in Nat \ {0} /\ Head(s) = s[1]
      /\ \A n \in 1..Len(t) : t[n] = s[n + 1]
    BY <1>1, HeadTailProperties, EmptySeq
<1>3. DOMAIN t = 1..(Len(s) - 1) /\ DOMAIN s = 1..Len(s)
    BY <1>1, <1>2, LenProperties
<1> HIDE DEF t
<1>4. /\ \A n \in Occurs(t, c) : n \in Nat /\ n + 1 \in later
      /\ \A n \in later : n - 1 \in Occurs(t, c) /\ (n - 1) + 1 = n
    <2>1. ASSUME NEW n \in Occurs(t, c) PROVE n \in Nat /\ n + 1 \in later
        <3>1. n \in 1..(Len(s) - 1) /\ t[n] = c
            BY <1>3 DEF Occurs
        <3>2. n + 1 \in 1..Len(s) /\ n + 1 # 1 /\ n \in Nat
            BY <1>2, <3>1
        <3> QED BY <1>2, <1>3, <3>1, <3>2 DEF Occurs
    <2>2. ASSUME NEW n \in later PROVE n - 1 \in Occurs(t, c) /\ (n - 1) + 1 = n
        <3>1. n \in 1..Len(s) /\ s[n] = c /\ n # 1
            BY <1>3 DEF Occurs
        <3>2. n - 1 \in 1..(Len(s) - 1) /\ (n - 1) + 1 = n
            BY <1>2, <3>1
        <3> QED BY <1>2, <1>3, <3>1, <3>2 DEF Occurs
    <2> QED BY <2>1, <2>2
<1>5. shift \in Bijection(Occurs(t, c), later)
    <2>1. shift \in [Occurs(t, c) -> later]
        BY <1>4
    <2>2. \A m, n \in Occurs(t, c) : shift[m] = shift[n] => m = n
        BY <1>4
    <2>3. \A n \in later : \E m \in Occurs(t, c) : shift[m] = n
        BY <1>4
    <2> DEFINE here == Occurs(t, c)
    <2> HIDE DEF shift, later, here
    <2>4. shift \in Injection(here, later)
        BY <2>1, <2>2 DEF Injection, IsInjective, here
    <2>5. shift \in Surjection(here, later)
        BY <2>1, <2>3 DEF Surjection, here
    <2> QED BY <2>4, <2>5 DEF Bijection, here
<1>6. IsSeq(t)
    BY <1>2 DEF IsSeq
<1>7. IsFiniteSet(Occurs(t, c)) /\ Occurrences(t, c) \in Nat
    BY <1>6, OccurrencesAreNat
<1>8. IsFiniteSet(later) /\ Cardinality(later) = Occurrences(t, c)
    BY <1>5, <1>7, FS_Bijection DEF Occurrences, ExistsBijection
<1>9. Occurrences(<<Head(s)>>, c) = IF s[1] = c THEN 1 ELSE 0
    BY <1>2, CountOfSingle
<1>10. CASE s[1] = c
    <2>1. Occurs(s, c) = later \cup {1} /\ 1 \notin later
        BY <1>2, <1>3, <1>10 DEF Occurs
    <2> HIDE DEF later
    <2>2. Cardinality(Occurs(s, c)) = Cardinality(later) + 1
        BY <1>8, <2>1, FS_AddElement
    <2> QED BY <1>6, <1>8, <1>9, <1>10, <2>2 DEF Occurrences, t
<1>11. CASE s[1] # c
    <2>1. Occurs(s, c) = later
        BY <1>11 DEF Occurs
    <2> HIDE DEF later
    <2> QED BY <1>6, <1>7, <1>8, <1>9, <1>11, <2>1 DEF Occurrences, t
<1> QED BY <1>10, <1>11

(* What is put behind a list and is another change does not count.         *)
LEMMA CountOfConcat ==
    ASSUME NEW s, IsSeq(s), NEW t, IsSeq(t), NEW c, \A n \in DOMAIN t : t[n] # c
    PROVE  IsSeq(s \o t) /\ Occurrences(s \o t, c) = Occurrences(s, c)
<1>1. PICK S : s \in Seq(S)
    BY DEF IsSeq
<1>2. PICK T : t \in Seq(T)
    BY DEF IsSeq
<1> DEFINE U == S \cup T
<1>3. s \in Seq(U) /\ t \in Seq(U)
    BY <1>1, <1>2, SeqMonotonic
<1> HIDE DEF U
<1>4. /\ s \o t \in Seq(U) /\ Len(s \o t) = Len(s) + Len(t)
      /\ \A n \in 1..(Len(s) + Len(t)) : (s \o t)[n] = IF n <= Len(s) THEN s[n] ELSE t[n - Len(s)]
    BY <1>3, ConcatProperties
<1>5. /\ Len(s) \in Nat /\ Len(t) \in Nat /\ DOMAIN s = 1..Len(s) /\ DOMAIN t = 1..Len(t)
      /\ DOMAIN (s \o t) = 1..(Len(s) + Len(t))
    BY <1>3, <1>4, LenProperties
<1>6. ASSUME NEW n \in DOMAIN s PROVE n \in DOMAIN (s \o t) /\ (s \o t)[n] = s[n]
    BY <1>4, <1>5
<1>7. ASSUME NEW n \in DOMAIN (s \o t), n \notin DOMAIN s PROVE (s \o t)[n] # c
    <2>1. ~ (n <= Len(s)) /\ n \in 1..(Len(s) + Len(t)) /\ n - Len(s) \in DOMAIN t
        BY <1>5, <1>7
    <2> QED BY <1>4, <2>1
<1>8. Occurs(s \o t, c) = Occurs(s, c)
    BY <1>6, <1>7 DEF Occurs
<1>9. IsSeq(s \o t)
    BY <1>4 DEF IsSeq
<1> QED BY <1>8, <1>9 DEF Occurrences

LEMMA CountOfAppend ==
    ASSUME NEW s, IsSeq(s), NEW x, NEW c, x # c
    PROVE  IsSeq(Append(s, x)) /\ Occurrences(Append(s, x), c) = Occurrences(s, c)
<1>1. Occurs(Append(s, x), c) = Occurs(s, c)
    BY AppendFacts DEF Occurs
<1> QED BY <1>1, AppendFacts DEF Occurrences

(* An announcement: one for each of a list without repetition.             *)
Distinct(s) == \A m, n \in DOMAIN s : s[m] = s[n] => m = n

LEMMA CountOfAnnouncement ==
    ASSUME NEW type, NEW s, IsSeq(s), Distinct(s), NEW t, NEW x
    PROVE  /\ IsSeq(Announce(type, s))
           /\ Occurrences(Announce(type, s), Change(t, x)) =
                 IF t = type /\ \E n \in DOMAIN s : s[n] = x THEN 1 ELSE 0
<1> DEFINE a == Announce(type, s)
           S == {Change(type, s[n]) : n \in DOMAIN s}
<1>1. DOMAIN s = 1..Len(s) /\ Len(s) \in Nat
    BY SeqFacts
<1>2. DOMAIN a = DOMAIN s /\ \A n \in DOMAIN s : a[n] = Change(type, s[n])
    BY DEF Announce
<1>3. a \in [1..Len(s) -> S]
    BY <1>1 DEF Announce
<1> HIDE DEF a, S
<1>4. a \in Seq(S)
    BY <1>1, <1>3
<1>5. IsSeq(a)
    BY <1>4 DEF IsSeq
<1>6. \A y : Change(type, y) = Change(t, x) <=> type = t /\ y = x
    BY DEF Change
<1>7. CASE t = type /\ \E n \in DOMAIN s : s[n] = x
    <2>1. PICK k \in DOMAIN s : s[k] = x
        BY <1>7
    <2>2. \A n \in DOMAIN a : a[n] = Change(t, x) => n = k
        BY <1>2, <1>6, <2>1 DEF Distinct
    <2>3. k \in DOMAIN a /\ a[k] = Change(t, x)
        BY <1>2, <1>7, <2>1
    <2> QED BY <1>5, <1>7, <2>2, <2>3, CountOfOne DEF a
<1>8. CASE ~ (t = type /\ \E n \in DOMAIN s : s[n] = x)
    <2>1. \A n \in DOMAIN a : a[n] # Change(t, x)
        BY <1>2, <1>6, <1>8
    <2> QED BY <1>5, <1>8, <2>1, NoOccurrence DEF a
<1> QED BY <1>7, <1>8

(* What waits: one pair for each place of a change in a poller's list.     *)
Places(p, s, c) == {<<p, n>> : n \in Occurs(s, c)}
Held(pl, c) == UNION {Places(p, pl[p].changes, c) : p \in Pollers}

LEMMA PlacesAreCounted ==
    ASSUME NEW p, NEW s, IsSeq(s), NEW c
    PROVE  IsFiniteSet(Places(p, s, c)) /\ Cardinality(Places(p, s, c)) = Occurrences(s, c)
<1> DEFINE here == Occurs(s, c)
           there == Places(p, s, c)
           f == [n \in here |-> <<p, n>>]
<1>1. f \in [here -> there] /\ \A w \in there : \E n \in here : f[n] = w
    BY DEF Places
<1>2. \A m, n \in here : f[m] = f[n] => m = n
    OBVIOUS
<1> HIDE DEF f, here, there
<1>3. f \in Injection(here, there)
    BY <1>1, <1>2 DEF Injection, IsInjective
<1>4. f \in Surjection(here, there)
    BY <1>1 DEF Surjection
<1>5. ExistsBijection(here, there)
    BY <1>3, <1>4 DEF ExistsBijection, Bijection
<1>6. IsFiniteSet(here)
    BY OccurrencesAreNat DEF here
<1> QED BY <1>5, <1>6, FS_Bijection DEF here, there, Occurrences

LEMMA DisjointSum ==
    ASSUME NEW S, NEW T, IsFiniteSet(S), IsFiniteSet(T), S \cap T = {}
    PROVE  Cardinality(S \cup T) = Cardinality(S) + Cardinality(T)
<1>1. Cardinality(S \cup T) = Cardinality(S) + Cardinality(T) - Cardinality(S \cap T)
    BY FS_Union
<1>2. Cardinality(S \cap T) = 0
    BY FS_EmptySet
<1>3. Cardinality(S) \in Nat /\ Cardinality(T) \in Nat
    BY FS_CardinalityType
<1> QED BY <1>1, <1>2, <1>3

(* One poller's list is replaced.                                          *)
LEMMA ListReplaced ==
    ASSUME NEW pl, NEW q, NEW p \in Pollers, NEW c, IsFiniteSet(Held(pl, c)),
           \A r \in Pollers \ {p} : q[r] = pl[r],
           IsSeq(pl[p].changes), IsSeq(q[p].changes)
    PROVE  /\ IsFiniteSet(Held(q, c))
           /\ Cardinality(Held(pl, c)) \in Nat /\ Cardinality(Held(q, c)) \in Nat
           /\ Cardinality(Held(q, c)) + Occurrences(pl[p].changes, c) = Cardinality(Held(pl, c)) + Occurrences(q[p].changes, c)
<1> DEFINE old == Places(p, pl[p].changes, c)
           new == Places(p, q[p].changes, c)
           rest == UNION {Places(r, pl[r].changes, c) : r \in Pollers \ {p}}
<1>1. Held(pl, c) = rest \cup old
    BY DEF Held
<1>2. rest = UNION {Places(r, q[r].changes, c) : r \in Pollers \ {p}}
    OBVIOUS
<1>3. Held(q, c) = rest \cup new
    BY <1>2 DEF Held
<1>4. rest \cap old = {} /\ rest \cap new = {}
    BY DEF Places
<1>5. /\ IsFiniteSet(old) /\ Cardinality(old) = Occurrences(pl[p].changes, c)
      /\ IsFiniteSet(new) /\ Cardinality(new) = Occurrences(q[p].changes, c)
    BY PlacesAreCounted
<1>6. Occurrences(pl[p].changes, c) \in Nat /\ Occurrences(q[p].changes, c) \in Nat
    BY OccurrencesAreNat
<1> HIDE DEF old, new, rest
<1>7. IsFiniteSet(rest) /\ Cardinality(rest) \in Nat
    BY <1>1, FS_Subset, FS_CardinalityType
<1>8. IsFiniteSet(Held(q, c))
    BY <1>3, <1>5, <1>7, FS_Union
<1>9. Cardinality(Held(pl, c)) = Cardinality(rest) + Cardinality(old)
    BY <1>1, <1>4, <1>5, <1>7, DisjointSum
<1>10. Cardinality(Held(q, c)) = Cardinality(rest) + Cardinality(new)
    BY <1>3, <1>4, <1>5, <1>7, DisjointSum
<1> QED BY <1>5, <1>6, <1>7, <1>8, <1>9, <1>10

-----------------------------------------------------------------------------
(* A feed's new advisories: each once, and those that were not known.      *)
LEMMA LookedUp ==
    ASSUME NEW s, IsSeq(s), Distinct(s), NEW x
    PROVE  /\ IsSeq(WithNew(s, x)) /\ Distinct(WithNew(s, x))
           /\ \A y : (\E n \in DOMAIN WithNew(s, x) : WithNew(s, x)[n] = y) <=>
                     (\E n \in DOMAIN s : s[n] = y) \/ (y = x /\ x \notin known)
<1>1. CASE x \in known \cup Range(s)
    <2>1. x \in known \/ \E n \in DOMAIN s : s[n] = x
        BY <1>1 DEF Range
    <2> QED BY <1>1, <2>1 DEF WithNew
<1>2. CASE x \notin known \cup Range(s)
    <2>1. x \notin known /\ \A n \in DOMAIN s : s[n] # x
        BY <1>2 DEF Range
    <2>2. /\ IsSeq(Append(s, x)) /\ Append(s, x)[Len(s) + 1] = x
          /\ DOMAIN Append(s, x) = DOMAIN s \cup {Len(s) + 1} /\ Len(s) + 1 \notin DOMAIN s
          /\ \A n \in DOMAIN s : Append(s, x)[n] = s[n]
        BY AppendFacts
    <2>3. WithNew(s, x) = Append(s, x)
        BY <1>2 DEF WithNew
    <2>4. Distinct(Append(s, x))
        BY <2>1, <2>2 DEF Distinct
    <2> QED BY <2>1, <2>2, <2>3, <2>4
<1> QED BY <1>1, <1>2

LEMMA LeastOf ==
    ASSUME NEW T \in SUBSET Nat, T # {}
    PROVE  \E x \in T : \A y \in T : x <= y
<1> DEFINE R == {p \in Nat \X Nat : p[1] < p[2]}
<1>1. IsWellFoundedOn(R, Nat)
    BY NatLessThanWellFounded DEF OpToRel
<1>2. \A x, y \in Nat : y < x => <<y, x>> \in R
    OBVIOUS
<1> HIDE DEF R
<1>3. PICK x \in T : \A y \in T : ~ (<<y, x>> \in R)
    BY <1>1, WFMin
<1>4. \A y \in T : ~ (y < x)
    BY <1>2, <1>3, Zenon
<1> QED BY <1>4

(* The loop over a list has one course, as far as it is followed.          *)
Course(f, n, list) == f = [m \in 0..n |-> IF m = 0 THEN <<>> ELSE WithNew(f[m - 1], list[m])]

LEMMA CourseExists ==
    ASSUME NEW list, NEW len \in Nat
    PROVE  \E f : Course(f, len, list)
<1> DEFINE none == {n \in Nat : ~ \E f : Course(f, n, list)}
<1>1. ASSUME none # {} PROVE FALSE
    <2>1. PICK n \in none : \A m \in none : n <= m
        BY <1>1, LeastOf
    <2>2. n # 0
        <3>1. Course([m \in 0..0 |-> <<>>], 0, list)
            BY DEF Course
        <3> QED BY <2>1, <3>1
    <2>3. n - 1 \in Nat /\ ~ (n <= n - 1)
        BY <2>1, <2>2
    <2>4. PICK f : Course(f, n - 1, list)
        BY <2>1, <2>3
    <2> DEFINE g == [m \in 0..n |-> IF m = n THEN WithNew(f[n - 1], list[n]) ELSE f[m]]
    <2>5. ASSUME NEW m \in 0..n PROVE g[m] = IF m = 0 THEN <<>> ELSE WithNew(g[m - 1], list[m])
        <3>1. CASE m = n
            <4>1. m # 0 /\ m - 1 \in 0..n /\ m - 1 # n
                BY <2>1, <2>2, <3>1
            <4> QED BY <3>1, <4>1
        <3>2. CASE m # n
            <4>1. m \in 0..(n - 1) /\ (m # 0 => m - 1 \in 0..n /\ m - 1 # n)
                BY <2>1, <3>2
            <4>2. f[m] = IF m = 0 THEN <<>> ELSE WithNew(f[m - 1], list[m])
                BY <2>4, <4>1, Zenon DEF Course
            <4> QED BY <3>2, <4>1, <4>2
        <3> QED BY <3>1, <3>2
    <2>6. Course(g, n, list)
        BY <2>5, Zenon DEF Course
    <2> QED BY <2>1, <2>6
<1> QED BY <1>1

LEMMA NewOnesFacts ==
    ASSUME NEW list, IsSeq(list)
    PROVE  /\ IsSeq(NewOnes(list)) /\ Distinct(NewOnes(list))
           /\ \A y : (\E n \in DOMAIN NewOnes(list) : NewOnes(list)[n] = y) <=>
                     y \notin known /\ \E n \in DOMAIN list : list[n] = y
<1> DEFINE len == Len(list)
           new == CHOOSE f : Course(f, len, list)
           Good(m) == /\ IsSeq(new[m]) /\ Distinct(new[m])
                      /\ \A y : (\E n \in DOMAIN new[m] : new[m][n] = y) <=>
                                y \notin known /\ \E n \in 1..m : list[n] = y
<1>1. len \in Nat /\ DOMAIN list = 1..len
    BY SeqFacts
<1>2. NewOnes(list) = new[len]
    BY DEF NewOnes, Course
<1> HIDE DEF len
<1>3. Course(new, len, list)
    BY <1>1, CourseExists
<1> HIDE DEF new
<1>4. \A m \in 0..len : new[m] = IF m = 0 THEN <<>> ELSE WithNew(new[m - 1], list[m])
    BY <1>3, Zenon DEF Course
<1>5. Good(0)
    <2>1. new[0] = <<>>
        BY <1>1, <1>4
    <2>2. IsSeq(<<>>) /\ DOMAIN <<>> = {}
        <3>1. <<>> \in Seq({})
            OBVIOUS
        <3> QED BY <3>1 DEF IsSeq
    <2> QED BY <2>1, <2>2 DEF Distinct
<1>6. ASSUME NEW m \in 1..len, Good(m - 1) PROVE Good(m)
    <2>1. new[m] = WithNew(new[m - 1], list[m])
        BY <1>1, <1>4
    <2>2. \A n : n \in 1..m <=> n \in 1..(m - 1) \/ n = m
        BY <1>1
    <2> DEFINE before == new[m - 1]
    <2> HIDE DEF before
    <2>3. new[m] = WithNew(before, list[m])
        BY <2>1 DEF before
    <2>4. IsSeq(before) /\ Distinct(before)
        BY <1>6 DEF before
    <2> DEFINE x == list[m]
    <2> HIDE DEF x
    <2>4a. /\ IsSeq(WithNew(before, x)) /\ Distinct(WithNew(before, x))
          /\ \A y : (\E n \in DOMAIN WithNew(before, x) : WithNew(before, x)[n] = y) <=>
                    (\E n \in DOMAIN before : before[n] = y) \/ (y = x /\ x \notin known)
        BY <2>4, LookedUp
    <2>5. /\ IsSeq(new[m]) /\ Distinct(new[m])
          /\ \A y : (\E n \in DOMAIN new[m] : new[m][n] = y) <=>
                    (\E n \in DOMAIN before : before[n] = y) \/ (y = list[m] /\ list[m] \notin known)
        <3>1. new[m] = WithNew(before, x)
            BY <2>3 DEF x
        <3> QED BY <2>4a, <3>1, Zenon DEF x
    <2>6. ASSUME NEW y
          PROVE  (\E n \in DOMAIN before : before[n] = y) <=> y \notin known /\ \E n \in 1..(m - 1) : list[n] = y
        BY <1>6 DEF before
    <2>7. ASSUME NEW y
          PROVE  (\E n \in 1..m : list[n] = y) <=> (\E n \in 1..(m - 1) : list[n] = y) \/ y = list[m]
        BY <2>2
    <2>8. ASSUME NEW y
          PROVE  (\E n \in DOMAIN new[m] : new[m][n] = y) <=> y \notin known /\ \E n \in 1..m : list[n] = y
        BY <2>5, <2>6, <2>7
    <2> QED BY <2>5, <2>8
<1> DEFINE bad == {m \in 0..len : ~ Good(m)}
<1>7. ASSUME bad # {} PROVE FALSE
    <2>1. bad \in SUBSET Nat /\ \A m \in bad : m \in 0..len /\ ~ Good(m)
        OBVIOUS
    <2>2. \A m \in 0..len : m \notin bad => Good(m)
        OBVIOUS
    <2> HIDE DEF bad, Good
    <2>3. PICK m \in bad : \A k \in bad : m <= k
        BY <1>7, <2>1, LeastOf
    <2>4. m # 0
        BY <1>5, <2>1, <2>3
    <2>5. m \in 1..len /\ m - 1 \in 0..len /\ ~ (m <= m - 1)
        BY <1>1, <2>1, <2>3, <2>4
    <2> QED BY <1>6, <2>1, <2>2, <2>3, <2>5
<1>8. Good(len)
    <2>1. len \in 0..len
        BY <1>1
    <2> HIDE DEF Good
    <2> QED BY <1>7, <2>1
<1> QED BY <1>1, <1>2, <1>8

LEMMA OnceEach ==
    ASSUME NEW S, IsFiniteSet(S), NEW s \in SetToSeqs(S)
    PROVE  IsSeq(s) /\ Distinct(s) /\ \A x : (\E n \in DOMAIN s : s[n] = x) <=> x \in S
<1> DEFINE k == Cardinality(S)
           D == 1..k
<1>1. k \in Nat
    BY FS_CardinalityType
<1>2. s \in [D -> S] /\ \A i, j \in D : i # j => s[i] # s[j]
    BY DEF SetToSeqs
<1>3. IsFiniteSet(D) /\ Cardinality(D) = k
    BY <1>1, FS_Interval
<1>4. s \in Seq(S)
    BY <1>1, <1>2
<1> HIDE DEF D
<1>5. s \in Injection(D, S)
    BY <1>2 DEF Injection, IsInjective
<1>6. s \in Surjection(D, S)
    BY <1>3, <1>5, FS_Injection
<1>7. \A x : (\E n \in DOMAIN s : s[n] = x) <=> x \in S
    BY <1>2, <1>6 DEF Surjection
<1> QED BY <1>2, <1>4, <1>7 DEF IsSeq, Distinct

LEMMA FiniteRange ==
    ASSUME NEW s, IsSeq(s)
    PROVE  IsFiniteSet(Range(s)) /\ \A x : x \in Range(s) <=> \E n \in DOMAIN s : s[n] = x
<1>1. \A x : x \in Range(s) <=> \E n \in DOMAIN s : s[n] = x
    BY DEF Range
<1>2. s \in [DOMAIN s -> Range(s)]
    <2>1. PICK S : s \in Seq(S)
        BY DEF IsSeq
    <2>2. s \in [1..Len(s) -> S] /\ DOMAIN s = 1..Len(s)
        BY <2>1, LenProperties
    <2> QED BY <1>1, <2>2
<1>3. IsFiniteSet(DOMAIN s)
    BY SeqFacts, FS_Interval
<1> DEFINE D == DOMAIN s
           R == Range(s)
<1> HIDE DEF D, R
<1>4. s \in Surjection(D, R)
    BY <1>1, <1>2 DEF Surjection, D, R
<1> QED BY <1>1, <1>3, <1>4, FS_Surjection DEF D, R

(* What the pollers hold, and the counters.                                *)
HoldsList(r) ==
    /\ IsSeq(r.changes)
    /\ r.at = "emitting" => r.changes # <<>>
    /\ r.at # "emitting" => r.changes = <<>>
PollersHold ==
    /\ poller = [p \in Pollers |-> poller[p]]
    /\ \A p \in Pollers : HoldsList(poller[p])
    /\ \A c \in Changes : IsFiniteSet(Held(poller, c))
CountersHold ==
    /\ emitted \in [Changes -> Nat] /\ lost \in [Changes -> Nat]
    /\ moves \in [Comparing -> Nat] /\ IsFiniteSet(known)
MonitoringInv == PollersHold /\ CountersHold /\ ReportsAccounted

LEMMA NothingCounts ==
    ASSUME NEW c
    PROVE  IsSeq(<<>>) /\ Occurrences(<<>>, c) = 0
<1>1. <<>> \in Seq({}) /\ DOMAIN <<>> = {}
    OBVIOUS
<1> QED BY <1>1, NoOccurrence DEF IsSeq

LEMMA WaitingIsHeld ==
    ASSUME NEW c
    PROVE  Waiting(c) = Cardinality(Held(poller, c))
BY DEF Waiting, Held, Places, Occurs

(* A poller's list is replaced: the others' are what they were.            *)
LEMMA PollerReplaced ==
    ASSUME PollersHold, NEW p \in Pollers, NEW r, HoldsList(r), poller' = [poller EXCEPT ![p] = r]
    PROVE  /\ PollersHold'
           /\ \A c \in Changes : /\ Waiting(c) \in Nat /\ Waiting(c)' \in Nat
                                 /\ Occurrences(r.changes, c) \in Nat /\ Occurrences(poller[p].changes, c) \in Nat
                                 /\ Waiting(c)' + Occurrences(poller[p].changes, c) = Waiting(c) + Occurrences(r.changes, c)
<1>1. /\ poller' = [q \in Pollers |-> IF q = p THEN r ELSE poller[q]]
      /\ poller'[p] = r /\ \A q \in Pollers \ {p} : poller'[q] = poller[q]
    BY DEF PollersHold
<1>2. PICK next : next = poller'
    OBVIOUS
<1>3. IsSeq(poller[p].changes) /\ IsSeq(r.changes)
    BY DEF PollersHold, HoldsList
<1>4. ASSUME NEW c \in Changes
      PROVE  /\ IsFiniteSet(Held(next, c))
             /\ Cardinality(Held(poller, c)) \in Nat /\ Cardinality(Held(next, c)) \in Nat
             /\ Cardinality(Held(next, c)) + Occurrences(poller[p].changes, c) = Cardinality(Held(poller, c)) + Occurrences(r.changes, c)
    <2>1. next[p] = r /\ \A q \in Pollers \ {p} : next[q] = poller[q]
        BY <1>1, <1>2
    <2>2. IsFiniteSet(Held(poller, c))
        BY DEF PollersHold
    <2>3. IsSeq(next[p].changes)
        BY <1>3, <2>1
    <2>4. PICK now : now = poller
        OBVIOUS
    <2>5. /\ IsFiniteSet(Held(now, c)) /\ \A q \in Pollers \ {p} : next[q] = now[q]
          /\ IsSeq(now[p].changes)
        BY <1>3, <2>1, <2>2, <2>4
    <2>6. /\ IsFiniteSet(Held(next, c))
          /\ Cardinality(Held(now, c)) \in Nat /\ Cardinality(Held(next, c)) \in Nat
          /\ Cardinality(Held(next, c)) + Occurrences(now[p].changes, c) = Cardinality(Held(now, c)) + Occurrences(next[p].changes, c)
        BY <2>3, <2>5, ListReplaced
    <2> QED BY <2>1, <2>4, <2>6
<1>5. PollersHold'
    <2>1. poller' = [q \in Pollers |-> poller'[q]]
        BY <1>1
    <2>2. \A q \in Pollers : HoldsList(poller[q])'
        BY <1>1 DEF PollersHold, HoldsList
    <2>3. \A c \in Changes : IsFiniteSet(Held(poller', c))
        BY <1>2, <1>4
    <2> QED BY <2>1, <2>2, <2>3 DEF PollersHold
<1>6. ASSUME NEW c \in Changes
      PROVE  Waiting(c) = Cardinality(Held(poller, c)) /\ Waiting(c)' = Cardinality(Held(next, c))
    <2>1. Waiting(c)' = Cardinality(Held(poller', c))
        BY DEF Waiting, Held, Places, Occurs
    <2> QED BY <1>2, <2>1, WaitingIsHeld
<1>7. ASSUME NEW c \in Changes PROVE Occurrences(r.changes, c) \in Nat /\ Occurrences(poller[p].changes, c) \in Nat
    BY <1>3, OccurrencesAreNat
<1> QED BY <1>4, <1>5, <1>6, <1>7

LEMMA TheseAreChanges ==
    /\ \A w \in Comparing : Change("moved", w) \in Changes
    /\ \A c \in Cve : Change("new_advisory", c) \in Changes /\ Change("high_severity_cve", c) \in Changes
BY DEF Change, Changes, Comparing, Kinds

(* No list is touched: nothing is reported.                                *)
LEMMA NothingReported ==
    ASSUME MonitoringInv, PollersHold', UNCHANGED <<emitted, lost, moves, known, threats>>,
           \A c \in Changes : Waiting(c)' = Waiting(c)
    PROVE  MonitoringInv'
<1>1. CountersHold'
    BY DEF MonitoringInv, CountersHold
<1>2. \A c \in Changes : Reports(c)' = Reports(c)
    BY DEF Reports
<1>3. ReportsAccounted'
    <2>1. ASSUME NEW w \in Comparing PROVE Reports(Change("moved", w))' = moves'[w]
        BY <1>2, TheseAreChanges DEF MonitoringInv, ReportsAccounted
    <2>2. ASSUME NEW c \in Cve
          PROVE  /\ Reports(Change("new_advisory", c))' = (IF c \in known' THEN 1 ELSE 0)
                 /\ Reports(Change("high_severity_cve", c))' = (IF c \in threats' THEN 1 ELSE 0)
        BY <1>2, TheseAreChanges DEF MonitoringInv, ReportsAccounted
    <2> QED BY <2>1, <2>2 DEF MonitoringInv, ReportsAccounted
<1> QED BY <1>1, <1>3 DEF MonitoringInv

(* A poller turns to another list of watchers.                             *)
LEMMA TurnKeeps ==
    ASSUME MonitoringInv, NEW p \in Pollers, NEW r, r.at # "emitting", r.changes = <<>>,
           poller[p].at # "emitting", poller' = [poller EXCEPT ![p] = r],
           UNCHANGED <<emitted, lost, moves, known, threats>>
    PROVE  MonitoringInv'
<1>1. HoldsList(r)
    BY NothingCounts DEF HoldsList
<1>2. poller[p].changes = <<>>
    BY DEF MonitoringInv, PollersHold, HoldsList
<1>3. PollersHold' /\ \A c \in Changes : Waiting(c)' = Waiting(c)
    <2>1. PollersHold' /\ \A c \in Changes : /\ Waiting(c) \in Nat /\ Waiting(c)' \in Nat
                                 /\ Occurrences(r.changes, c) \in Nat /\ Occurrences(poller[p].changes, c) \in Nat
                                 /\ Waiting(c)' + Occurrences(poller[p].changes, c) = Waiting(c) + Occurrences(r.changes, c)
        BY <1>1, PollerReplaced DEF MonitoringInv
    <2>2. \A c \in Changes : Occurrences(r.changes, c) = Occurrences(poller[p].changes, c)
        BY <1>2
    <2> QED BY <2>1, <2>2
<1> QED BY <1>3, NothingReported

(* The watchers' changes, ch, are taken out of the lock.                   *)
LEMMA PollKeeps ==
    ASSUME MonitoringInv, NEW p \in Pollers, NEW w, NEW ch, IsSeq(ch),
           poller[p].at = "listed", Took(p, w, ch),
           moves' \in [Comparing -> Nat], IsFiniteSet(known'),
           \A v \in Comparing : moves'[v] = moves[v] + Occurrences(ch, Change("moved", v)),
           \A c \in Cve : (IF c \in known' THEN 1 ELSE 0)
                          = (IF c \in known THEN 1 ELSE 0) + Occurrences(ch, Change("new_advisory", c)),
           \A c \in Cve : (IF c \in threats' THEN 1 ELSE 0)
                          = (IF c \in threats THEN 1 ELSE 0) + Occurrences(ch, Change("high_severity_cve", c)),
           threats' \subseteq known' \cap Severe
    PROVE  MonitoringInv'
<1>1. PICK r : r = [at |-> IF ch = <<>> THEN "listed" ELSE "emitting", todo |-> Tail(poller[p].todo), changes |-> ch]
    OBVIOUS
<1>2. r.changes = ch /\ r.at = (IF ch = <<>> THEN "listed" ELSE "emitting")
    BY <1>1
<1>3. HoldsList(r)
    BY <1>2 DEF HoldsList
<1>4. poller' = [poller EXCEPT ![p] = r]
    BY <1>1 DEF Took, MonitoringInv, PollersHold
<1>5. /\ PollersHold'
      /\ \A c \in Changes : /\ Waiting(c) \in Nat /\ Waiting(c)' \in Nat
                            /\ Occurrences(r.changes, c) \in Nat /\ Occurrences(poller[p].changes, c) \in Nat
                            /\ Waiting(c)' + Occurrences(poller[p].changes, c) = Waiting(c) + Occurrences(r.changes, c)
    BY <1>3, <1>4, PollerReplaced DEF MonitoringInv
<1>6. poller[p].changes = <<>>
    BY DEF MonitoringInv, PollersHold, HoldsList
<1>7. emitted' = emitted /\ lost' = lost
    BY DEF Took
<1>8. ASSUME NEW c \in Changes PROVE Reports(c) \in Nat /\ Occurrences(ch, c) \in Nat /\ Reports(c)' = Reports(c) + Occurrences(ch, c)
    <2>1. Occurrences(poller[p].changes, c) = 0
        BY <1>6, NothingCounts
    <2>2. Waiting(c) \in Nat /\ Waiting(c)' \in Nat /\ Occurrences(ch, c) \in Nat
        BY <1>2, <1>5
    <2>3. Waiting(c)' = Waiting(c) + Occurrences(ch, c)
        BY <1>2, <1>5, <2>1, <2>2
    <2>4. emitted[c] \in Nat /\ lost[c] \in Nat
        BY DEF MonitoringInv, CountersHold
    <2>5. Reports(c) = emitted[c] + lost[c] + Waiting(c) /\ Reports(c)' = emitted[c] + lost[c] + Waiting(c)'
        BY <1>7 DEF Reports
    <2> HIDE DEF Waiting, Reports, Occurrences
    <2> QED BY <2>2, <2>3, <2>4, <2>5
<1>9. CountersHold'
    BY <1>7 DEF MonitoringInv, CountersHold
<1>10. ReportsAccounted'
    <2>1. ASSUME NEW v \in Comparing PROVE Reports(Change("moved", v))' = moves'[v]
        <3>1. Change("moved", v) \in Changes
            BY TheseAreChanges
        <3>2. Reports(Change("moved", v)) = moves[v]
            BY DEF MonitoringInv, ReportsAccounted
        <3> QED BY <1>8, <3>1, <3>2
    <2>2. ASSUME NEW c \in Cve PROVE Reports(Change("new_advisory", c))' = (IF c \in known' THEN 1 ELSE 0)
        <3>1. Change("new_advisory", c) \in Changes
            BY TheseAreChanges
        <3>2. Reports(Change("new_advisory", c)) = (IF c \in known THEN 1 ELSE 0)
            BY DEF MonitoringInv, ReportsAccounted
        <3> QED BY <1>8, <3>1, <3>2
    <2>3. ASSUME NEW c \in Cve PROVE Reports(Change("high_severity_cve", c))' = (IF c \in threats' THEN 1 ELSE 0)
        <3>1. Change("high_severity_cve", c) \in Changes
            BY TheseAreChanges
        <3>2. Reports(Change("high_severity_cve", c)) = (IF c \in threats THEN 1 ELSE 0)
            BY DEF MonitoringInv, ReportsAccounted
        <3> QED BY <1>8, <3>1, <3>2
    <2> QED BY <2>1, <2>2, <2>3 DEF ReportsAccounted
<1> QED BY <1>5, <1>9, <1>10 DEF MonitoringInv

(* One change, of the watcher w and none of an advisory.                   *)
LEMMA OneChange ==
    ASSUME NEW type, type \notin {"new_advisory", "high_severity_cve"}, NEW w
    PROVE  /\ IsSeq(<<Change(type, w)>>)
           /\ \A v : Occurrences(<<Change(type, w)>>, Change("moved", v)) = IF type = "moved" /\ v = w THEN 1 ELSE 0
           /\ \A c : /\ Occurrences(<<Change(type, w)>>, Change("new_advisory", c)) = 0
                     /\ Occurrences(<<Change(type, w)>>, Change("high_severity_cve", c)) = 0
<1> DEFINE x == Change(type, w)
<1>1. /\ \A v : x = Change("moved", v) <=> type = "moved" /\ v = w
      /\ \A c : x # Change("new_advisory", c) /\ x # Change("high_severity_cve", c)
    BY DEF Change
<1> HIDE DEF x
<1>2. IsSeq(<<x>>) /\ \A y : Occurrences(<<x>>, y) = IF x = y THEN 1 ELSE 0
    BY CountOfSingle
<1>3. \A v : Occurrences(<<x>>, Change("moved", v)) = IF type = "moved" /\ v = w THEN 1 ELSE 0
    BY <1>1, <1>2
<1>4. \A c : Occurrences(<<x>>, Change("new_advisory", c)) = 0 /\ Occurrences(<<x>>, Change("high_severity_cve", c)) = 0
    BY <1>1, <1>2
<1> QED BY <1>2, <1>3, <1>4 DEF x

(* A poll that reports one change which is no movement, and records none.  *)
LEMMA PlainPollKeeps ==
    ASSUME MonitoringInv, NEW p \in Pollers, NEW w, NEW type, NEW about,
           type \notin {"moved", "new_advisory", "high_severity_cve"},
           poller[p].at = "listed", Took(p, w, <<Change(type, about)>>),
           UNCHANGED <<moves, known, threats>>
    PROVE  MonitoringInv'
<1> DEFINE ch == <<Change(type, about)>>
<1>1. /\ IsSeq(ch) /\ \A v : Occurrences(ch, Change("moved", v)) = 0
      /\ \A c : Occurrences(ch, Change("new_advisory", c)) = 0 /\ Occurrences(ch, Change("high_severity_cve", c)) = 0
    BY OneChange
<1>2. /\ moves \in [Comparing -> Nat] /\ IsFiniteSet(known) /\ threats \subseteq known \cap Severe
    BY DEF MonitoringInv, CountersHold, ReportsAccounted
<1>3. Took(p, w, ch)
    OBVIOUS
<1> HIDE DEF ch
<1>4. \A v \in Comparing : moves'[v] = moves[v] + Occurrences(ch, Change("moved", v))
    BY <1>1, <1>2
<1>5. /\ \A c \in Cve : (IF c \in known' THEN 1 ELSE 0) = (IF c \in known THEN 1 ELSE 0) + Occurrences(ch, Change("new_advisory", c))
      /\ \A c \in Cve : (IF c \in threats' THEN 1 ELSE 0) = (IF c \in threats THEN 1 ELSE 0) + Occurrences(ch, Change("high_severity_cve", c))
    BY <1>1
<1> QED BY <1>1, <1>2, <1>3, <1>4, <1>5, PollKeeps

LEMMA ComparingKeeps ==
    ASSUME MonitoringInv, NEW p \in Pollers, NEW w \in Comparing, NEW reply,
           poller[p].at = "listed", PollComparing(p, w, reply)
    PROVE  MonitoringInv'
<1>1. PICK type : type = Verdict(w, reply)
    OBVIOUS
<1>2. type \in {"poll_failed", "initial", "no_change", "moved"}
    BY <1>1 DEF Verdict
<1>3. /\ Took(p, w, <<Change(type, w)>>)
      /\ moves' = [moves EXCEPT ![w] = @ + (IF type = "moved" THEN 1 ELSE 0)]
      /\ known' = known /\ threats' = threats
    BY <1>1 DEF PollComparing
<1>4. moves \in [Comparing -> Nat] /\ IsFiniteSet(known) /\ threats \subseteq known \cap Severe
    BY DEF MonitoringInv, CountersHold, ReportsAccounted
<1> DEFINE ch == <<Change(type, w)>>
<1>5. /\ IsSeq(ch) /\ \A v : Occurrences(ch, Change("moved", v)) = IF type = "moved" /\ v = w THEN 1 ELSE 0
      /\ \A c : Occurrences(ch, Change("new_advisory", c)) = 0 /\ Occurrences(ch, Change("high_severity_cve", c)) = 0
    BY <1>2, OneChange
<1>6. Took(p, w, ch)
    BY <1>3
<1> HIDE DEF ch
<1>7. moves' \in [Comparing -> Nat]
    BY <1>3, <1>4
<1>8. \A v \in Comparing : moves'[v] = moves[v] + Occurrences(ch, Change("moved", v))
    BY <1>3, <1>4, <1>5
<1>9. /\ \A c \in Cve : (IF c \in known' THEN 1 ELSE 0) = (IF c \in known THEN 1 ELSE 0) + Occurrences(ch, Change("new_advisory", c))
      /\ \A c \in Cve : (IF c \in threats' THEN 1 ELSE 0) = (IF c \in threats THEN 1 ELSE 0) + Occurrences(ch, Change("high_severity_cve", c))
    BY <1>3, <1>5
<1> QED BY <1>3, <1>4, <1>5, <1>6, <1>7, <1>8, <1>9, PollKeeps

LEMMA FeedKeeps ==
    ASSUME MonitoringInv, NEW p \in Pollers, NEW n \in Nat, NEW reply \in [1..n -> Cve],
           poller[p].at = "listed",
           Took(p, "cve", Append(Announce("new_advisory", NewOnes(reply)), Change("feed_polled", "cve"))),
           known' = known \cup Range(reply), UNCHANGED <<threats, moves>>
    PROVE  MonitoringInv'
<1>1. PICK new : new = NewOnes(reply)
    OBVIOUS
<1>2. reply \in Seq(Cve)
    OBVIOUS
<1>3. IsSeq(reply)
    BY <1>2 DEF IsSeq
<1>4. IsFiniteSet(Range(reply)) /\ \A x : x \in Range(reply) <=> \E m \in DOMAIN reply : reply[m] = x
    BY <1>3, FiniteRange
<1>5. /\ IsSeq(new) /\ Distinct(new)
      /\ \A y : (\E m \in DOMAIN new : new[m] = y) <=> y \notin known /\ \E m \in DOMAIN reply : reply[m] = y
    <2>1. /\ IsSeq(NewOnes(reply)) /\ Distinct(NewOnes(reply))
          /\ \A y : (\E m \in DOMAIN NewOnes(reply) : NewOnes(reply)[m] = y) <=>
                    y \notin known /\ \E m \in DOMAIN reply : reply[m] = y
        BY <1>3, NewOnesFacts
    <2> QED BY <1>1, <2>1
<1> DEFINE said == Announce("new_advisory", new)
           ch == Append(said, Change("feed_polled", "cve"))
<1>6. /\ IsSeq(said)
      /\ \A t, x : Occurrences(said, Change(t, x)) = IF t = "new_advisory" /\ \E m \in DOMAIN new : new[m] = x THEN 1 ELSE 0
    BY <1>5, CountOfAnnouncement
<1>7. \A t, x : t # "feed_polled" => Change("feed_polled", "cve") # Change(t, x)
    BY DEF Change
<1> HIDE DEF said
<1>8. IsSeq(ch)
    BY <1>6, CountOfAppend, <1>7
<1>9. ASSUME NEW t \in {"moved", "new_advisory", "high_severity_cve"}, NEW x
      PROVE  Occurrences(ch, Change(t, x)) = IF t = "new_advisory" /\ \E m \in DOMAIN new : new[m] = x THEN 1 ELSE 0
    <2>1. Change("feed_polled", "cve") # Change(t, x)
        BY <1>7
    <2>2. Occurrences(ch, Change(t, x)) = Occurrences(said, Change(t, x))
        BY <1>6, <2>1, CountOfAppend
    <2> QED BY <1>6, <2>2
<1>10. Took(p, "cve", ch)
    BY <1>1 DEF said
<1> HIDE DEF ch
<1>11. moves \in [Comparing -> Nat] /\ IsFiniteSet(known) /\ threats \subseteq known \cap Severe
    BY DEF MonitoringInv, CountersHold, ReportsAccounted
<1>12. IsFiniteSet(known') /\ threats' \subseteq known' \cap Severe
    BY <1>4, <1>11, FS_Union
<1>13. \A v \in Comparing : moves'[v] = moves[v] + Occurrences(ch, Change("moved", v))
    BY <1>9, <1>11
<1>14. ASSUME NEW c \in Cve
       PROVE  (IF c \in known' THEN 1 ELSE 0) = (IF c \in known THEN 1 ELSE 0) + Occurrences(ch, Change("new_advisory", c))
    <2>1. Occurrences(ch, Change("new_advisory", c)) = IF \E m \in DOMAIN new : new[m] = c THEN 1 ELSE 0
        BY <1>9
    <2>2. (\E m \in DOMAIN new : new[m] = c) <=> c \notin known /\ c \in Range(reply)
        BY <1>4, <1>5
    <2> QED BY <2>1, <2>2
<1>15. \A c \in Cve : (IF c \in threats' THEN 1 ELSE 0) = (IF c \in threats THEN 1 ELSE 0) + Occurrences(ch, Change("high_severity_cve", c))
    BY <1>9
<1> QED BY <1>8, <1>10, <1>11, <1>12, <1>13, <1>14, <1>15, PollKeeps

LEMMA ThreatsKeep ==
    ASSUME MonitoringInv, NEW p \in Pollers, poller[p].at = "listed", PollThreats(p)
    PROVE  MonitoringInv'
<1> DEFINE fresh == (known \cap Severe) \ threats
           failed == IF \E w \in Kinds : emitted[Change("poll_failed", w)] > 0
                     THEN <<Change("multiple_unreachable", "threat")>> ELSE <<>>
           alerts == [n \in 1..Alerts |-> Change("system_alert", "threat")]
<1>1. PICK severe \in SetToSeqs(fresh) : Took(p, "threat", Announce("high_severity_cve", severe) \o failed \o alerts)
    BY DEF PollThreats
<1>2. /\ threats' = threats \cup (known \cap Severe) /\ known' = known /\ moves' = moves
      /\ moves \in [Comparing -> Nat] /\ IsFiniteSet(known) /\ threats \subseteq known \cap Severe
    BY DEF PollThreats, MonitoringInv, CountersHold, ReportsAccounted
<1>3. IsFiniteSet(fresh)
    BY <1>2, FS_Subset
<1>4. \A c : c \in fresh <=> c \in known \cap Severe /\ c \notin threats
    OBVIOUS
<1> DEFINE said == Announce("high_severity_cve", severe)
           ch == said \o failed \o alerts
<1>5. PICK few : few = failed
    OBVIOUS
<1>6. /\ IsSeq(few)
      /\ \A n \in DOMAIN few : few[n] = Change("multiple_unreachable", "threat")
    <2>1. IsSeq(<<Change("multiple_unreachable", "threat")>>) /\ IsSeq(<<>>) /\ DOMAIN <<>> = {}
        BY CountOfSingle, NothingCounts
    <2>2. \A n \in DOMAIN <<Change("multiple_unreachable", "threat")>> :
             <<Change("multiple_unreachable", "threat")>>[n] = Change("multiple_unreachable", "threat")
        OBVIOUS
    <2> QED BY <1>5, <2>1, <2>2
<1>7. /\ IsSeq(alerts)
      /\ \A n \in DOMAIN alerts : alerts[n] = Change("system_alert", "threat")
    <2>1. alerts \in Seq({Change("system_alert", "threat")})
        BY MonitoringAssumption
    <2> QED BY <2>1 DEF IsSeq
<1> HIDE DEF fresh, alerts
<1>8. IsSeq(severe) /\ Distinct(severe) /\ \A x : (\E n \in DOMAIN severe : severe[n] = x) <=> x \in fresh
    <2>1. PICK S : S = fresh
        OBVIOUS
    <2>2. IsFiniteSet(S) /\ severe \in SetToSeqs(S)
        BY <1>3, <2>1
    <2>3. IsSeq(severe) /\ Distinct(severe) /\ \A x : (\E n \in DOMAIN severe : severe[n] = x) <=> x \in S
        BY <2>2, OnceEach
    <2> QED BY <2>1, <2>3
<1>9. /\ IsSeq(said)
      /\ \A t, x : Occurrences(said, Change(t, x)) = IF t = "high_severity_cve" /\ \E n \in DOMAIN severe : severe[n] = x THEN 1 ELSE 0
    BY <1>8, CountOfAnnouncement
<1>10. \A t, x : t \in {"moved", "new_advisory", "high_severity_cve"} =>
          Change("multiple_unreachable", "threat") # Change(t, x) /\ Change("system_alert", "threat") # Change(t, x)
    BY DEF Change
<1> DEFINE list == (said \o few) \o alerts
<1> HIDE DEF said
<1>11. ASSUME NEW t \in {"moved", "new_advisory", "high_severity_cve"}, NEW x
       PROVE  /\ IsSeq(list)
              /\ Occurrences(list, Change(t, x)) = IF t = "high_severity_cve" /\ x \in fresh THEN 1 ELSE 0
    <2>1. \A n \in DOMAIN few : few[n] # Change(t, x)
        BY <1>6, <1>10
    <2>2. \A n \in DOMAIN alerts : alerts[n] # Change(t, x)
        BY <1>7, <1>10
    <2>3. IsSeq(said \o few) /\ Occurrences(said \o few, Change(t, x)) = Occurrences(said, Change(t, x))
        BY <1>6, <1>9, <2>1, CountOfConcat
    <2> DEFINE both == said \o few
    <2> HIDE DEF both
    <2>4. IsSeq(both \o alerts) /\ Occurrences(both \o alerts, Change(t, x)) = Occurrences(both, Change(t, x))
        BY <1>7, <2>2, <2>3, CountOfConcat DEF both
    <2> QED BY <1>8, <1>9, <2>3, <2>4 DEF both
<1>12. Took(p, "threat", list)
    BY <1>1, <1>5 DEF said, alerts, fresh
<1>13. IsSeq(list)
    BY <1>11
<1> HIDE DEF list
<1>14. \A v \in Comparing : moves'[v] = moves[v] + Occurrences(list, Change("moved", v))
    BY <1>2, <1>11
<1>15. \A c \in Cve : (IF c \in known' THEN 1 ELSE 0) = (IF c \in known THEN 1 ELSE 0) + Occurrences(list, Change("new_advisory", c))
    BY <1>2, <1>11
<1>16. \A c \in Cve : (IF c \in threats' THEN 1 ELSE 0) = (IF c \in threats THEN 1 ELSE 0) + Occurrences(list, Change("high_severity_cve", c))
    BY <1>2, <1>4, <1>11
<1>17. moves' \in [Comparing -> Nat] /\ IsFiniteSet(known') /\ threats' \subseteq known' \cap Severe
    BY <1>2
<1>18. PICK l : l = list
    OBVIOUS
<1>19. /\ IsSeq(l) /\ Took(p, "threat", l)
       /\ \A v \in Comparing : moves'[v] = moves[v] + Occurrences(l, Change("moved", v))
       /\ \A c \in Cve : (IF c \in known' THEN 1 ELSE 0) = (IF c \in known THEN 1 ELSE 0) + Occurrences(l, Change("new_advisory", c))
       /\ \A c \in Cve : (IF c \in threats' THEN 1 ELSE 0) = (IF c \in threats THEN 1 ELSE 0) + Occurrences(l, Change("high_severity_cve", c))
    BY <1>12, <1>13, <1>14, <1>15, <1>16, <1>18
<1> QED BY <1>17, <1>19, PollKeeps

LEMMA PollNextKeeps ==
    ASSUME MonitoringInv, NEW p \in Pollers, PollNext(p)
    PROVE  MonitoringInv'
<1>1. poller[p].at = "listed"
    BY DEF PollNext
<1>2. PICK w : w = Head(poller[p].todo)
    OBVIOUS
<1>3. CASE \E reply \in Status \cup {Nothing} : PollPackage(p, reply) \/ PollApi(p, reply) \/ PollOnion(p, reply)
    <2>1. PICK reply : PollComparing(p, "package", reply) \/ PollComparing(p, "api", reply) \/ PollComparing(p, "onion", reply)
        BY <1>3 DEF PollPackage, PollApi, PollOnion
    <2> QED BY <1>1, <2>1, ComparingKeeps DEF Comparing
<1>4. CASE \E reply \in Status \cup {Nothing} : PollRepository(p, reply)
    <2>1. PICK reply : PollRepository(p, reply)
        BY <1>4
    <2>2. PICK type : type = CASE reply = Nothing -> "poll_failed" [] reply = "v1" -> "reachable" [] OTHER -> "unreachable"
        OBVIOUS
    <2>3. type \notin {"moved", "new_advisory", "high_severity_cve"}
        BY <2>2
    <2>4. Took(p, "repository", <<Change(type, "repository")>>) /\ UNCHANGED <<moves, known, threats>>
        BY <2>1, <2>2 DEF PollRepository
    <2> QED BY <1>1, <2>3, <2>4, PlainPollKeeps
<1>5. CASE \E counts \in Status : PollOrganization(p, counts)
    <2>1. PICK type \in {"initial", "no_change", "updated"} : Took(p, "organization", <<Change(type, "organization")>>)
        BY <1>5 DEF PollOrganization
    <2>2. UNCHANGED <<moves, known, threats>> /\ type \notin {"moved", "new_advisory", "high_severity_cve"}
        BY <1>5, <2>1 DEF PollOrganization
    <2> QED BY <1>1, <2>1, <2>2, PlainPollKeeps
<1>0. \A a \in Feeds : \E n \in 0..2 : a \in [1..n -> Cve]
    BY Zenon DEF Feeds
<1>6. CASE \E reply \in Feeds \cup {Nothing} : PollFeed(p, reply)
    <2>1. PICK reply \in Feeds \cup {Nothing} : PollFeed(p, reply)
        BY <1>6
    <2>2. CASE reply = Nothing
        <3>1. Took(p, "cve", <<Change("feed_failed", "cve")>>) /\ UNCHANGED <<moves, known, threats>>
            BY <2>1, <2>2 DEF PollFeed
        <3> QED BY <1>1, <3>1, PlainPollKeeps
    <2>3. CASE reply # Nothing
        <3>1. PICK n \in 0..2 : reply \in [1..n -> Cve]
            BY <1>0, <2>1, <2>3
        <3>2. /\ Took(p, "cve", Append(Announce("new_advisory", NewOnes(reply)), Change("feed_polled", "cve")))
              /\ known' = known \cup Range(reply) /\ UNCHANGED <<threats, moves>> /\ n \in Nat
            BY <2>1, <2>3 DEF PollFeed
        <3> QED BY <1>1, <3>1, <3>2, FeedKeeps
    <2> QED BY <2>2, <2>3
<1>7. CASE PollThreats(p)
    BY <1>1, <1>7, ThreatsKeep
<1> QED BY <1>3, <1>4, <1>5, <1>6, <1>7 DEF PollNext

(* What a list loses is stored or lost.                                    *)
LEMMA CountingFacts ==
    ASSUME NEW count \in [Changes -> Nat], NEW s, IsSeq(s)
    PROVE  /\ CountedChanges(count, s) \in [Changes -> Nat]
           /\ \A c \in Changes : CountedChanges(count, s)[c] = count[c] + Occurrences(s, c)
<1>1. CountedChanges(count, s) = [c \in Changes |-> count[c] + Occurrences(s, c)]
    BY DEF CountedChanges, Occurrences, Occurs
<1>2. \A c \in Changes : count[c] + Occurrences(s, c) \in Nat
    BY OccurrencesAreNat
<1> QED BY <1>1, <1>2

LEMMA ListShrinks ==
    ASSUME MonitoringInv, NEW p \in Pollers, poller[p].at = "emitting", NEW r, HoldsList(r),
           poller' = [poller EXCEPT ![p] = r], NEW out, IsSeq(out),
           \A c \in Changes : Occurrences(poller[p].changes, c) = Occurrences(r.changes, c) + Occurrences(out, c),
           \/ emitted' = CountedChanges(emitted, out) /\ lost' = lost
           \/ lost' = CountedChanges(lost, out) /\ emitted' = emitted,
           UNCHANGED <<moves, known, threats>>
    PROVE  MonitoringInv'
<1>1. /\ PollersHold'
      /\ \A c \in Changes : /\ Waiting(c) \in Nat /\ Waiting(c)' \in Nat
                            /\ Occurrences(r.changes, c) \in Nat /\ Occurrences(poller[p].changes, c) \in Nat
                            /\ Waiting(c)' + Occurrences(poller[p].changes, c) = Waiting(c) + Occurrences(r.changes, c)
    BY PollerReplaced DEF MonitoringInv
<1>2. emitted \in [Changes -> Nat] /\ lost \in [Changes -> Nat]
    BY DEF MonitoringInv, CountersHold
<1>3. /\ emitted' \in [Changes -> Nat] /\ lost' \in [Changes -> Nat]
      /\ \A c \in Changes : emitted'[c] + lost'[c] = emitted[c] + lost[c] + Occurrences(out, c)
    <2>1. \A c \in Changes : Occurrences(out, c) \in Nat /\ emitted[c] \in Nat /\ lost[c] \in Nat
        BY <1>2, OccurrencesAreNat
    <2>2. /\ CountedChanges(emitted, out) \in [Changes -> Nat]
          /\ \A c \in Changes : CountedChanges(emitted, out)[c] = emitted[c] + Occurrences(out, c)
        BY <1>2, CountingFacts
    <2>3. /\ CountedChanges(lost, out) \in [Changes -> Nat]
          /\ \A c \in Changes : CountedChanges(lost, out)[c] = lost[c] + Occurrences(out, c)
        BY <1>2, CountingFacts
    <2>4. CASE emitted' = CountedChanges(emitted, out) /\ lost' = lost
        BY <1>2, <2>1, <2>2, <2>4
    <2>5. CASE lost' = CountedChanges(lost, out) /\ emitted' = emitted
        BY <1>2, <2>1, <2>3, <2>5
    <2> QED BY <2>4, <2>5
<1>4. ASSUME NEW c \in Changes PROVE Reports(c)' = Reports(c)
    <2>1. Reports(c) = emitted[c] + lost[c] + Waiting(c) /\ Reports(c)' = emitted'[c] + lost'[c] + Waiting(c)'
        BY DEF Reports
    <2>2. /\ emitted[c] \in Nat /\ lost[c] \in Nat /\ emitted'[c] \in Nat /\ lost'[c] \in Nat
          /\ Occurrences(out, c) \in Nat /\ Occurrences(r.changes, c) \in Nat
        BY <1>1, <1>2, <1>3, OccurrencesAreNat
    <2>3. Waiting(c)' + Occurrences(out, c) = Waiting(c) /\ Waiting(c) \in Nat /\ Waiting(c)' \in Nat
        BY <1>1, <2>2
    <2>4. emitted'[c] + lost'[c] = emitted[c] + lost[c] + Occurrences(out, c)
        BY <1>3
    <2> HIDE DEF Waiting, Reports, Occurrences
    <2> QED BY <2>1, <2>2, <2>3, <2>4
<1>5. CountersHold'
    BY <1>3 DEF MonitoringInv, CountersHold
<1>6. ReportsAccounted'
    <2>1. ASSUME NEW w \in Comparing PROVE Reports(Change("moved", w))' = moves'[w]
        BY <1>4, TheseAreChanges DEF MonitoringInv, ReportsAccounted
    <2>2. ASSUME NEW c \in Cve
          PROVE  /\ Reports(Change("new_advisory", c))' = (IF c \in known' THEN 1 ELSE 0)
                 /\ Reports(Change("high_severity_cve", c))' = (IF c \in threats' THEN 1 ELSE 0)
        BY <1>4, TheseAreChanges DEF MonitoringInv, ReportsAccounted
    <2> QED BY <2>1, <2>2 DEF MonitoringInv, ReportsAccounted
<1> QED BY <1>1, <1>5, <1>6 DEF MonitoringInv

LEMMA EmitKeeps ==
    ASSUME MonitoringInv, NEW p \in Pollers, Emit(p) \/ EmitFails(p)
    PROVE  MonitoringInv'
<1> DEFINE s == poller[p].changes
<1>1. poller[p].at = "emitting" /\ IsSeq(s) /\ s # <<>> /\ UNCHANGED <<moves, known, threats>>
    BY DEF Emit, EmitFails, MonitoringInv, PollersHold, HoldsList
<1> HIDE DEF s
<1>2. PICK r : r = [at |-> IF Tail(s) = <<>> THEN "listed" ELSE "emitting", todo |-> poller[p].todo, changes |-> Tail(s)]
    OBVIOUS
<1>3. r.changes = Tail(s) /\ r.at = (IF Tail(s) = <<>> THEN "listed" ELSE "emitting")
    BY <1>2
<1>4. ASSUME NEW c PROVE IsSeq(Tail(s)) /\ Occurrences(s, c) = Occurrences(Tail(s), c) + Occurrences(<<Head(s)>>, c)
    <2>1. PICK x : x = s
        OBVIOUS
    <2>2. IsSeq(Tail(x)) /\ Occurrences(x, c) = Occurrences(Tail(x), c) + Occurrences(<<Head(x)>>, c)
        BY <1>1, <2>1, CountOfTail
    <2> QED BY <2>1, <2>2
<1>5. HoldsList(r)
    BY <1>3, <1>4 DEF HoldsList
<1>6. AfterEmit(p) = [poller EXCEPT ![p] = r]
    BY <1>2 DEF AfterEmit, s, MonitoringInv, PollersHold
<1>7. PICK out : out = <<Head(s)>>
    OBVIOUS
<1>8. IsSeq(out)
    BY <1>7, CountOfSingle
<1>9. \A c \in Changes : Occurrences(poller[p].changes, c) = Occurrences(r.changes, c) + Occurrences(out, c)
    BY <1>3, <1>4, <1>7 DEF s
<1>10. CASE Emit(p)
    <2>1. emitted' = CountedChanges(emitted, out) /\ lost' = lost /\ poller' = [poller EXCEPT ![p] = r]
        BY <1>6, <1>7, <1>10 DEF Emit, s
    <2> QED BY <1>1, <1>5, <1>8, <1>9, <2>1, ListShrinks
<1>11. CASE EmitFails(p) /\ p \in Threads
    <2>1. lost' = CountedChanges(lost, out) /\ emitted' = emitted /\ poller' = [poller EXCEPT ![p] = r]
        BY <1>6, <1>7, <1>11 DEF EmitFails, s
    <2> QED BY <1>1, <1>5, <1>8, <1>9, <2>1, ListShrinks
<1>12. CASE EmitFails(p) /\ p \notin Threads
    <2>1. PICK idle : idle = Idle
        OBVIOUS
    <2>2. idle.at = "idle" /\ idle.changes = <<>>
        BY <2>1 DEF Idle
    <2>3. HoldsList(idle)
        BY <2>2, NothingCounts DEF HoldsList
    <2>4. PICK all : all = s
        OBVIOUS
    <2>5. lost' = CountedChanges(lost, all) /\ emitted' = emitted /\ poller' = [poller EXCEPT ![p] = idle]
        BY <1>12, <2>1, <2>4 DEF EmitFails, s
    <2>6. IsSeq(all)
        BY <1>1, <2>4
    <2>7. \A c \in Changes : Occurrences(poller[p].changes, c) = Occurrences(idle.changes, c) + Occurrences(all, c)
        <3>1. \A c : Occurrences(idle.changes, c) = 0 /\ Occurrences(all, c) \in Nat
            BY <2>2, <2>6, NothingCounts, OccurrencesAreNat
        <3> QED BY <2>4, <3>1 DEF s
    <2> QED BY <1>1, <2>3, <2>5, <2>6, <2>7, ListShrinks
<1> QED BY <1>10, <1>11, <1>12

(* MonitoringInit, MonitoringNext: the reports are accounted for whatever  *)
(* the pollers, the threads started and stopped, the answers and the       *)
(* events refused.                                                         *)
THEOREM EveryReportIsAccounted == MonitoringSpec => []ReportsAccounted
<1>1. MonitoringInit => MonitoringInv
    <2> SUFFICES ASSUME MonitoringInit PROVE MonitoringInv
        OBVIOUS
    <2>1. /\ emitted = [c \in Changes |-> 0] /\ lost = [c \in Changes |-> 0] /\ moves = [w \in Comparing |-> 0]
          /\ known = {} /\ threats = {}
        BY DEF MonitoringInit
    <2>2. poller = [p \in Pollers |-> poller[p]] /\ \A p \in Pollers : poller[p] \in {Idle, Ended}
        BY DEF MonitoringInit
    <2>3. \A p \in Pollers : poller[p].at # "emitting" /\ poller[p].changes = <<>>
        BY <2>2 DEF Idle, Ended
    <2>4. \A p \in Pollers : HoldsList(poller[p])
        BY <2>3, NothingCounts DEF HoldsList
    <2>5. \A c : Held(poller, c) = {}
        <3>1. DOMAIN <<>> = {}
            OBVIOUS
        <3>2. \A c : \A p \in Pollers : Places(p, poller[p].changes, c) = {}
            BY <2>3, <3>1 DEF Places, Occurs
        <3> QED BY <3>2 DEF Held
    <2>6. PollersHold
        BY <2>2, <2>4, <2>5, FS_EmptySet DEF PollersHold
    <2>7. CountersHold
        BY <2>1, FS_EmptySet DEF CountersHold
    <2>8. \A c \in Changes : Reports(c) = 0
        <3>1. \A c : Waiting(c) = 0
            BY <2>5, FS_EmptySet, WaitingIsHeld
        <3>2. \A c \in Changes : emitted[c] = 0 /\ lost[c] = 0
            BY <2>1
        <3> QED BY <3>1, <3>2 DEF Reports
    <2>9. ReportsAccounted
        BY <2>1, <2>8, TheseAreChanges DEF ReportsAccounted
    <2> QED BY <2>6, <2>7, <2>9 DEF MonitoringInv
<1>2. MonitoringInv /\ [MonitoringNext]_monitoringVars => MonitoringInv'
    <2> SUFFICES ASSUME MonitoringInv, [MonitoringNext]_monitoringVars PROVE MonitoringInv'
        OBVIOUS
    <2>1. ASSUME poller' = poller, UNCHANGED <<emitted, lost, moves, known, threats>> PROVE MonitoringInv'
        <3>1. PollersHold'
            BY <2>1 DEF MonitoringInv, PollersHold
        <3>2. \A c \in Changes : Waiting(c)' = Waiting(c)
            BY <2>1 DEF Waiting
        <3> QED BY <2>1, <3>1, <3>2, NothingReported
    <2>2. CASE UNCHANGED monitoringVars
        BY <2>1, <2>2 DEF monitoringVars
    <2>3. CASE \E w \in Kinds : Elapse(w)
        BY <2>1, <2>3 DEF Elapse
    <2>4. CASE StopBackground
        BY <2>1, <2>4 DEF StopBackground
    <2>5. ASSUME NEW p \in Pollers, StartBackground(p) PROVE MonitoringInv'
        <3>1. PICK r : r = Idle
            OBVIOUS
        <3>2. r.at # "emitting" /\ r.changes = <<>> /\ Ended.at # "emitting"
            BY <3>1 DEF Idle, Ended
        <3>3. poller[p].at # "emitting" /\ poller' = [poller EXCEPT ![p] = r]
              /\ UNCHANGED <<emitted, lost, moves, known, threats>>
            BY <2>5, <3>1, <3>2 DEF StartBackground
        <3> QED BY <3>2, <3>3, TurnKeeps
    <2>6. ASSUME NEW p \in Pollers, ListDue(p) PROVE MonitoringInv'
        <3>1. PICK r : r = IF p \in Threads /\ ~ active THEN Ended
                           ELSE [at |-> "listed", todo |-> SelectSeq(watchers, LAMBDA w : w \in due), changes |-> <<>>]
            OBVIOUS
        <3>2. r.at # "emitting" /\ r.changes = <<>>
            BY <3>1 DEF Ended, Idle
        <3>3. poller[p].at # "emitting" /\ poller' = [poller EXCEPT ![p] = r]
              /\ UNCHANGED <<emitted, lost, moves, known, threats>>
            BY <2>6, <3>1 DEF ListDue
        <3> QED BY <3>2, <3>3, TurnKeeps
    <2>7. ASSUME NEW p \in Pollers, ListDone(p) PROVE MonitoringInv'
        <3>1. PICK r : r = Idle
            OBVIOUS
        <3>2. r.at # "emitting" /\ r.changes = <<>>
            BY <3>1 DEF Idle
        <3>3. poller[p].at # "emitting" /\ poller' = [poller EXCEPT ![p] = r]
              /\ UNCHANGED <<emitted, lost, moves, known, threats>>
            BY <2>7, <3>1 DEF ListDone
        <3> QED BY <3>2, <3>3, TurnKeeps
    <2>8. ASSUME NEW p \in Pollers, PollNext(p) \/ Emit(p) \/ EmitFails(p) PROVE MonitoringInv'
        BY <2>8, PollNextKeeps, EmitKeeps
    <2> QED BY <2>2, <2>3, <2>4, <2>5, <2>6, <2>7, <2>8 DEF MonitoringNext
<1>3. MonitoringInv => ReportsAccounted
    BY DEF MonitoringInv
<1> QED BY <1>1, <1>2, <1>3, PTL DEF MonitoringSpec

-----------------------------------------------------------------------------
(* The agents of the repository.  How often a call is in what a thread     *)
(* still does.                                                             *)
Hit(y, x) == IF y = x THEN 1 ELSE 0

LEMMA HowOftenIsCount ==
    ASSUME NEW s, NEW x
    PROVE  HowOften(s, x) = Occurrences(s, x)
BY DEF HowOften, Occurrences, Occurs

LEMMA HowOftenFacts ==
    ASSUME NEW s, IsSeq(s), NEW x
    PROVE  /\ HowOften(s, x) \in Nat
           /\ HowOften(<<>>, x) = 0
           /\ s # <<>> => /\ IsSeq(Tail(s))
                          /\ HowOften(s, x) = HowOften(Tail(s), x) + Hit(Head(s), x)
<1>1. HowOften(s, x) \in Nat
    BY OccurrencesAreNat, HowOftenIsCount
<1>2. HowOften(<<>>, x) = 0
    <2>1. Occurrences(<<>>, x) = 0
        BY NoOccurrence
    <2> QED BY <2>1, HowOftenIsCount
<1>3. CASE s # <<>>
    <2>1. IsSeq(Tail(s)) /\ Occurrences(s, x) = Occurrences(Tail(s), x) + Occurrences(<<Head(s)>>, x)
        BY <1>3, CountOfTail
    <2>2. Occurrences(<<Head(s)>>, x) = Hit(Head(s), x)
        BY CountOfSingle DEF Hit
    <2> QED BY <1>1, <1>2, <2>1, <2>2, HowOftenIsCount
<1> QED BY <1>1, <1>2, <1>3

LEMMA HowOftenByPlace ==
    ASSUME NEW S, NEW x
    PROVE  \A s \in Seq(S) :
              /\ Len(s) = 1 => HowOften(s, x) = Hit(s[1], x)
              /\ Len(s) = 2 => HowOften(s, x) = Hit(s[1], x) + Hit(s[2], x)
              /\ Len(s) = 3 => HowOften(s, x) = Hit(s[1], x) + Hit(s[2], x) + Hit(s[3], x)
              /\ Len(s) = 4 => HowOften(s, x)
                 = Hit(s[1], x) + Hit(s[2], x) + Hit(s[3], x) + Hit(s[4], x)
              /\ Len(s) = 5 => HowOften(s, x)
                 = Hit(s[1], x) + Hit(s[2], x) + Hit(s[3], x) + Hit(s[4], x)
                                                + Hit(s[5], x)
<1>1. ASSUME NEW s \in Seq(S), NEW n \in Nat, Len(s) = n + 1
      PROVE  /\ Tail(s) \in Seq(S) /\ Len(Tail(s)) = n /\ \A i \in 1..n : Tail(s)[i] = s[i + 1]
             /\ HowOften(s, x) = HowOften(Tail(s), x) + Hit(s[1], x)
    <2>1. IsSeq(s) /\ s # <<>> /\ Head(s) = s[1]
        BY <1>1, EmptySeq, HeadTailProperties DEF IsSeq
    <2>2. Tail(s) \in Seq(S) /\ Len(Tail(s)) = n /\ \A i \in 1..n : Tail(s)[i] = s[i + 1]
        BY <1>1, <2>1, HeadTailProperties
    <2> QED BY <2>1, <2>2, HowOftenFacts
<1>2. \A s \in Seq(S) : Len(s) = 0 => HowOften(s, x) = 0
    BY EmptySeq, HowOftenFacts DEF IsSeq
<1>3. \A i : Hit(i, x) \in Nat
    BY DEF Hit
<1>4. ASSUME NEW s \in Seq(S), Len(s) = 1
      PROVE  HowOften(s, x) = Hit(s[1], x)
    <2>1. Tail(s) \in Seq(S) /\ Len(Tail(s)) = 0
          /\ HowOften(s, x) = HowOften(Tail(s), x) + Hit(s[1], x)
        <3>1. Len(s) = 0 + 1 /\ 0 \in Nat
            BY <1>4
        <3> QED BY <1>1, <3>1
    <2>2. HowOften(Tail(s), x) = 0
        BY <1>2, <2>1
    <2> QED BY <1>3, <2>1, <2>2
<1>5. ASSUME NEW s \in Seq(S), Len(s) = 2
      PROVE  HowOften(s, x) = Hit(s[1], x) + Hit(s[2], x)
    <2>1. /\ Tail(s) \in Seq(S) /\ Len(Tail(s)) = 1 /\ Tail(s)[1] = s[2]
          /\ HowOften(s, x) = HowOften(Tail(s), x) + Hit(s[1], x)
        BY <1>1, <1>5
    <2>2. HowOften(Tail(s), x) = Hit(s[2], x)
        BY <1>4, <2>1
    <2> QED BY <1>3, <2>1, <2>2
<1>6. ASSUME NEW s \in Seq(S), Len(s) = 3
      PROVE  HowOften(s, x) = Hit(s[1], x) + Hit(s[2], x) + Hit(s[3], x)
    <2>1. /\ Tail(s) \in Seq(S) /\ Len(Tail(s)) = 2 /\ Tail(s)[1] = s[2] /\ Tail(s)[2] = s[3]
          /\ HowOften(s, x) = HowOften(Tail(s), x) + Hit(s[1], x)
        BY <1>1, <1>6
    <2>2. HowOften(Tail(s), x) = Hit(s[2], x) + Hit(s[3], x)
        BY <1>5, <2>1
    <2> QED BY <1>3, <2>1, <2>2
<1>7. ASSUME NEW s \in Seq(S), Len(s) = 4
      PROVE  HowOften(s, x) = Hit(s[1], x) + Hit(s[2], x) + Hit(s[3], x) + Hit(s[4], x)
    <2>1. /\ Tail(s) \in Seq(S) /\ Len(Tail(s)) = 3 /\ \A i \in 1..3 : Tail(s)[i] = s[i + 1]
          /\ HowOften(s, x) = HowOften(Tail(s), x) + Hit(s[1], x)
        <3>1. Len(s) = 3 + 1 /\ 3 \in Nat
            BY <1>7
        <3> QED BY <1>1, <3>1
    <2>2. HowOften(Tail(s), x) = Hit(s[2], x) + Hit(s[3], x) + Hit(s[4], x)
        <3>1. HowOften(Tail(s), x) = Hit(Tail(s)[1], x) + Hit(Tail(s)[2], x) + Hit(Tail(s)[3], x)
            BY <1>6, <2>1
        <3>2. Tail(s)[1] = s[2] /\ Tail(s)[2] = s[3] /\ Tail(s)[3] = s[4]
            BY <2>1
        <3> QED BY <3>1, <3>2
    <2> QED BY <1>3, <2>1, <2>2
<1>8. ASSUME NEW s \in Seq(S), Len(s) = 5
      PROVE  HowOften(s, x)
           = Hit(s[1], x) + Hit(s[2], x) + Hit(s[3], x) + Hit(s[4], x) + Hit(s[5], x)
    <2>1. /\ Tail(s) \in Seq(S) /\ Len(Tail(s)) = 4 /\ \A i \in 1..4 : Tail(s)[i] = s[i + 1]
          /\ HowOften(s, x) = HowOften(Tail(s), x) + Hit(s[1], x)
        <3>1. Len(s) = 4 + 1 /\ 4 \in Nat
            BY <1>8
        <3> QED BY <1>1, <3>1
    <2>2. HowOften(Tail(s), x) = Hit(s[2], x) + Hit(s[3], x) + Hit(s[4], x) + Hit(s[5], x)
        <3>1. HowOften(Tail(s), x)
              = Hit(Tail(s)[1], x) + Hit(Tail(s)[2], x) + Hit(Tail(s)[3], x) + Hit(Tail(s)[4], x)
            BY <1>7, <2>1
        <3> DEFINE t == Tail(s)
        <3>2. \A i \in 1..4 : t[i] = s[i + 1]
            BY <2>1
        <3> HIDE DEF t
        <3>3. t[1] = s[2]
            BY <3>2
        <3>4. t[2] = s[3]
            BY <3>2
        <3>5. t[3] = s[4]
            BY <3>2
        <3>6. t[4] = s[5]
            BY <3>2
        <3>7. HowOften(t, x) = Hit(t[1], x) + Hit(t[2], x) + Hit(t[3], x) + Hit(t[4], x)
            BY <3>1 DEF t
        <3>8. HowOften(t, x) = Hit(s[2], x) + Hit(s[3], x) + Hit(s[4], x) + Hit(s[5], x)
            BY <3>3, <3>4, <3>5, <3>6, <3>7
        <3> QED BY <3>8 DEF t
    <2> QED BY <1>3, <2>1, <2>2
<1> QED BY <1>4, <1>5, <1>6, <1>7, <1>8

LEMMA HowOftenAppended ==
    ASSUME NEW S, NEW s \in Seq(S), NEW y \in S, NEW x
    PROVE  /\ Append(s, y) \in Seq(S) /\ HowOften(Append(s, y), x) = HowOften(s, x) + Hit(y, x)
           /\ HowOften(s, x) \in Nat
<1>1. IsSeq(s) /\ Len(s) \in Nat
    BY LenProperties DEF IsSeq
<1>2. /\ Append(s, y) \in Seq(S) /\ Append(s, y)[Len(s) + 1] = y
      /\ DOMAIN Append(s, y) = DOMAIN s \cup {Len(s) + 1} /\ Len(s) + 1 \notin DOMAIN s
      /\ \A n \in DOMAIN s : Append(s, y)[n] = s[n]
    BY <1>1, AppendFacts, AppendProperties
<1>3. IsFiniteSet(Occurs(s, x)) /\ Occurrences(s, x) \in Nat
    BY <1>1, OccurrencesAreNat
<1>4. Occurs(Append(s, y), x) = IF y = x THEN Occurs(s, x) \cup {Len(s) + 1} ELSE Occurs(s, x)
    BY <1>2 DEF Occurs
<1>5. Len(s) + 1 \notin Occurs(s, x)
    BY <1>2 DEF Occurs
<1>6. Occurrences(Append(s, y), x) = Occurrences(s, x) + Hit(y, x)
    <2>1. Cardinality(Occurs(s, x) \cup {Len(s) + 1}) = Cardinality(Occurs(s, x)) + 1
        BY <1>3, <1>5, FS_AddElement
    <2> QED BY <1>3, <1>4, <2>1 DEF Occurrences, Hit
<1> QED BY <1>2, <1>3, <1>6, HowOftenIsCount

(* The calls of the agents, and what a thread may still have to do.        *)
KindsByCall == {"research_capability_map", "research_note", "malware_capability_status",
                "malware_analysis", "health_snapshot", "documentation", "forensics_event_record"}
Health == Publishing("system.health")
Alert == Publishing("system.alert")
TraceLinks == <<"trace", "architecture_component">>
OtherCalls == {Health, Alert, TraceLinks, <<"trace", "research_note">>,
               <<"trace", "malware_analysis">>, <<"timeline", "Artifact">>,
               <<"summary", "architecture_component">>}
AgentCalls == {Create(k) : k \in KindsByCall} \cup {Counting(c) : c \in Counters} \cup OtherCalls
WorkStates == [drivers : SUBSET DriverNames, caps : Nat, bare : BOOLEAN, linking : BOOLEAN,
               steps : Seq(AgentCalls)]

TickCounts(s, a) ==
    /\ HowOften(s, Counting("queries")) = Hit(a, "research")
    /\ HowOften(s, Create("research_capability_map")) = Hit(a, "research")
    /\ HowOften(s, Create("malware_capability_status")) = Hit(a, "malware")
    /\ HowOften(s, Counting("analyses")) = Hit(a, "malware")
    /\ HowOften(s, Counting("ticks")) = Hit(a, "monitoring")
    /\ HowOften(s, Create("health_snapshot")) = Hit(a, "monitoring")
    /\ HowOften(s, Health) = Hit(a, "monitoring")
    /\ HowOften(s, Alert) = HowOften(s, Counting("alerts"))
    /\ HowOften(s, Create("documentation")) = 3 * Hit(a, "documentation")
    /\ HowOften(s, Counting("mapped")) = Hit(a, "architecture")
    /\ HowOften(s, Counting("timelines")) = Hit(a, "forensics")
    /\ HowOften(s, TraceLinks) = Hit(a, "forensics")
    /\ HowOften(s, Create("malware_analysis")) = 0
    /\ HowOften(s, Create("research_note")) = 0
    /\ HowOften(s, Create("forensics_event_record")) = 0
    /\ HowOften(s, Counting("events")) = 0

LEMMA TickCallsCounted ==
    ASSUME NEW a \in AllAgents, NEW alarm \in BOOLEAN
    PROVE  TickCounts(TickProgram(a, alarm), a) /\ TickProgram(a, alarm) \in Seq(AgentCalls)
<1> DEFINE s == TickProgram(a, alarm)
<1>1. ASSUME NEW k, NEW l
      PROVE  /\ Hit(Create(k), Create(l)) = Hit(k, l) /\ Hit(Counting(k), Counting(l)) = Hit(k, l)
             /\ Hit(Create(k), Counting(l)) = 0 /\ Hit(Counting(k), Create(l)) = 0
             /\ Hit(Create(k), Health) = 0 /\ Hit(Counting(k), Health) = 0
             /\ Hit(Create(k), Alert) = 0 /\ Hit(Counting(k), Alert) = 0
             /\ Hit(Create(k), TraceLinks) = 0 /\ Hit(Counting(k), TraceLinks) = 0
             /\ \A y \in OtherCalls : Hit(y, Create(k)) = 0 /\ Hit(y, Counting(k)) = 0
    BY DEF Hit, Create, Counting, Health, Alert, Publishing, TraceLinks, OtherCalls
<1>2. CASE a = "research"
    <2> DEFINE u == Create("research_capability_map")
           v == Counting("queries")
    <2>1. s = <<u, v>>
        BY <1>2 DEF ResearchTick, TickProgram
    <2>2. u \in AgentCalls /\ v \in AgentCalls
        BY DEF AgentCalls, KindsByCall, Counters, OtherCalls
    <2> HIDE DEF s, u, v
    <2>3. s \in Seq(AgentCalls) /\ Len(s) = 2
          /\ s[1] = u /\ s[2] = v
        BY <2>1, <2>2
    <2>4. \A x : HowOften(s, x) = Hit(u, x) + Hit(v, x)
        BY <2>3, HowOftenByPlace
    <2>5. TickCounts(s, a)
        BY <1>1, <1>2, <2>4 DEF TickCounts, Hit, u, v
    <2> QED BY <2>3, <2>5 DEF s
<1>3. CASE a = "architecture"
    <2> DEFINE u == <<"summary", "architecture_component">>
           v == Counting("mapped")
    <2>1. s = <<u, v>>
        BY <1>3 DEF ArchitectureTick, TickProgram
    <2>2. u \in AgentCalls /\ v \in AgentCalls
        BY DEF AgentCalls, KindsByCall, Counters, OtherCalls
    <2> HIDE DEF s, u, v
    <2>3. s \in Seq(AgentCalls) /\ Len(s) = 2
          /\ s[1] = u /\ s[2] = v
        BY <2>1, <2>2
    <2>4. \A x : HowOften(s, x) = Hit(u, x) + Hit(v, x)
        BY <2>3, HowOftenByPlace
    <2>5. TickCounts(s, a)
        BY <1>1, <1>3, <2>4 DEF TickCounts, Hit, u, v, OtherCalls, Health, Alert, Publishing, TraceLinks
    <2> QED BY <2>3, <2>5 DEF s
<1>4. CASE a = "malware"
    <2> DEFINE u == Create("malware_capability_status")
           v == Counting("analyses")
    <2>1. s = <<u, v>>
        BY <1>4 DEF MalwareTick, TickProgram
    <2>2. u \in AgentCalls /\ v \in AgentCalls
        BY DEF AgentCalls, KindsByCall, Counters, OtherCalls
    <2> HIDE DEF s, u, v
    <2>3. s \in Seq(AgentCalls) /\ Len(s) = 2
          /\ s[1] = u /\ s[2] = v
        BY <2>1, <2>2
    <2>4. \A x : HowOften(s, x) = Hit(u, x) + Hit(v, x)
        BY <2>3, HowOftenByPlace
    <2>5. TickCounts(s, a)
        BY <1>1, <1>4, <2>4 DEF TickCounts, Hit, u, v
    <2> QED BY <2>3, <2>5 DEF s
<1>5. CASE a = "monitoring" /\ alarm
    <2> DEFINE u == Health
           v == Create("health_snapshot")
           w == Alert
           y == Counting("alerts")
           z == Counting("ticks")
    <2>1. s = <<u, v, w, y, z>>
        BY <1>5 DEF MonitoringTick, Health, Alert, TickProgram
    <2>2. u \in AgentCalls /\ v \in AgentCalls /\ w \in AgentCalls /\ y \in AgentCalls
          /\ z \in AgentCalls
        BY DEF AgentCalls, KindsByCall, Counters, OtherCalls
    <2> HIDE DEF s, u, v, w, y, z
    <2>3. s \in Seq(AgentCalls) /\ Len(s) = 5
          /\ s[1] = u /\ s[2] = v /\ s[3] = w /\ s[4] = y /\ s[5] = z
        BY <2>1, <2>2
    <2>4. \A x : HowOften(s, x) = Hit(u, x) + Hit(v, x) + Hit(w, x) + Hit(y, x) + Hit(z, x)
        BY <2>3, HowOftenByPlace
    <2>5. TickCounts(s, a)
        BY <1>1, <1>5, <2>4 DEF TickCounts, Hit, u, v, w, y, z, OtherCalls, Health, Alert, Publishing,
           TraceLinks
    <2> QED BY <2>3, <2>5 DEF s
<1>8. CASE a = "monitoring" /\ ~alarm
    <2> DEFINE u == Health
           v == Create("health_snapshot")
           w == Counting("ticks")
    <2>1. s = <<u, v, w>>
        BY <1>8 DEF MonitoringTick, Health, TickProgram
    <2>2. u \in AgentCalls /\ v \in AgentCalls /\ w \in AgentCalls
        BY DEF AgentCalls, KindsByCall, Counters, OtherCalls
    <2> HIDE DEF s, u, v, w
    <2>3. s \in Seq(AgentCalls) /\ Len(s) = 3
          /\ s[1] = u /\ s[2] = v /\ s[3] = w
        BY <2>1, <2>2
    <2>4. \A x : HowOften(s, x) = Hit(u, x) + Hit(v, x) + Hit(w, x)
        BY <2>3, HowOftenByPlace
    <2>5. TickCounts(s, a)
        BY <1>1, <1>8, <2>4 DEF TickCounts, Hit, u, v, w, OtherCalls, Health, Alert, Publishing,
           TraceLinks
    <2> QED BY <2>3, <2>5 DEF s
<1>6. CASE a = "documentation"
    <2> DEFINE u == Create("documentation")
           v == Create("documentation")
           w == Create("documentation")
    <2>1. s = <<u, v, w>>
        BY <1>6 DEF DocumentationTick, TickProgram
    <2>2. u \in AgentCalls /\ v \in AgentCalls /\ w \in AgentCalls
        BY DEF AgentCalls, KindsByCall, Counters, OtherCalls
    <2> HIDE DEF s, u, v, w
    <2>3. s \in Seq(AgentCalls) /\ Len(s) = 3
          /\ s[1] = u /\ s[2] = v /\ s[3] = w
        BY <2>1, <2>2
    <2>4. \A x : HowOften(s, x) = Hit(u, x) + Hit(v, x) + Hit(w, x)
        BY <2>3, HowOftenByPlace
    <2>5. TickCounts(s, a)
        BY <1>1, <1>6, <2>4 DEF TickCounts, Hit, u, v, w
    <2> QED BY <2>3, <2>5 DEF s
<1>7. CASE a = "forensics"
    <2> DEFINE u == <<"timeline", "Artifact">>
           v == TraceLinks
           w == <<"trace", "research_note">>
           y == <<"trace", "malware_analysis">>
           z == Counting("timelines")
    <2>1. s = <<u, v, w, y, z>>
        BY <1>7 DEF ForensicsTick, TraceLinks, TickProgram
    <2>2. u \in AgentCalls /\ v \in AgentCalls /\ w \in AgentCalls /\ y \in AgentCalls
          /\ z \in AgentCalls
        BY DEF AgentCalls, KindsByCall, Counters, OtherCalls
    <2> HIDE DEF s, u, v, w, y, z
    <2>3. s \in Seq(AgentCalls) /\ Len(s) = 5
          /\ s[1] = u /\ s[2] = v /\ s[3] = w /\ s[4] = y /\ s[5] = z
        BY <2>1, <2>2
    <2>4. \A x : HowOften(s, x) = Hit(u, x) + Hit(v, x) + Hit(w, x) + Hit(y, x) + Hit(z, x)
        BY <2>3, HowOftenByPlace
    <2>5. TickCounts(s, a)
        BY <1>1, <1>7, <2>4 DEF TickCounts, Hit, u, v, w, y, z, OtherCalls, Health, Alert, Publishing, TraceLinks
    <2> QED BY <2>3, <2>5 DEF s
<1> QED BY <1>2, <1>3, <1>4, <1>5, <1>6, <1>7, <1>8 DEF AllAgents

EventCounts(s, a, artifact) ==
    /\ HowOften(s, Create("malware_analysis")) = IF a = "malware" /\ artifact THEN 1 ELSE 0
    /\ HowOften(s, Counting("analyses")) = IF a = "malware" /\ artifact THEN 1 ELSE 0
    /\ HowOften(s, Create("research_note")) = IF a = "research" /\ artifact THEN 1 ELSE 0
    /\ HowOften(s, Create("forensics_event_record")) = Hit(a, "forensics")
    /\ HowOften(s, Counting("events")) = Hit(a, "forensics")
    /\ HowOften(s, Counting("queries")) = 0
    /\ HowOften(s, Create("research_capability_map")) = 0
    /\ HowOften(s, Create("malware_capability_status")) = 0
    /\ HowOften(s, Counting("ticks")) = 0
    /\ HowOften(s, Create("health_snapshot")) = 0
    /\ HowOften(s, Health) = 0
    /\ HowOften(s, Alert) = 0 /\ HowOften(s, Counting("alerts")) = 0
    /\ HowOften(s, Create("documentation")) = 0
    /\ HowOften(s, Counting("mapped")) = 0
    /\ HowOften(s, Counting("timelines")) = 0
    /\ HowOften(s, TraceLinks) = 0

LEMMA EventCallsCounted ==
    ASSUME NEW a \in AllAgents, NEW artifact \in BOOLEAN
    PROVE  EventCounts(EventProgram(a, artifact), a, artifact)
           /\ EventProgram(a, artifact) \in Seq(AgentCalls)
<1> DEFINE s == EventProgram(a, artifact)
<1>1. ASSUME NEW k, NEW l
      PROVE  /\ Hit(Create(k), Create(l)) = Hit(k, l) /\ Hit(Counting(k), Counting(l)) = Hit(k, l)
             /\ Hit(Create(k), Counting(l)) = 0 /\ Hit(Counting(k), Create(l)) = 0
             /\ Hit(Create(k), Health) = 0 /\ Hit(Counting(k), Health) = 0
             /\ Hit(Create(k), Alert) = 0 /\ Hit(Counting(k), Alert) = 0
             /\ Hit(Create(k), TraceLinks) = 0 /\ Hit(Counting(k), TraceLinks) = 0
    BY DEF Hit, Create, Counting, Health, Alert, Publishing, TraceLinks
<1>2. CASE a = "research" /\ artifact
    <2> DEFINE u == Create("research_note")
    <2>1. s = <<u>>
        BY <1>2 DEF EventProgram, ResearchEvent
    <2>2. u \in AgentCalls
        BY DEF AgentCalls, KindsByCall
    <2> HIDE DEF s, u
    <2>3. s \in Seq(AgentCalls) /\ Len(s) = 1 /\ s[1] = u
        BY <2>1, <2>2
    <2>4. \A x : HowOften(s, x) = Hit(u, x)
        BY <2>3, HowOftenByPlace
    <2>5. EventCounts(s, a, artifact)
        BY <1>1, <1>2, <2>4 DEF EventCounts, Hit, u
    <2> QED BY <2>3, <2>5 DEF s
<1>3. CASE a = "malware" /\ artifact
    <2> DEFINE u == Create("malware_analysis")
               v == Counting("analyses")
    <2>1. s = <<u, v>>
        BY <1>3 DEF EventProgram, MalwareEvent
    <2>2. u \in AgentCalls /\ v \in AgentCalls
        BY DEF AgentCalls, KindsByCall, Counters
    <2> HIDE DEF s, u, v
    <2>3. s \in Seq(AgentCalls) /\ Len(s) = 2 /\ s[1] = u /\ s[2] = v
        BY <2>1, <2>2
    <2>4. \A x : HowOften(s, x) = Hit(u, x) + Hit(v, x)
        BY <2>3, HowOftenByPlace
    <2>5. EventCounts(s, a, artifact)
        BY <1>1, <1>3, <2>4 DEF EventCounts, Hit, u, v
    <2> QED BY <2>3, <2>5 DEF s
<1>4. CASE a = "forensics"
    <2> DEFINE u == Create("forensics_event_record")
               v == Counting("events")
    <2>1. s = <<u, v>>
        BY <1>4 DEF EventProgram, ForensicsEvent
    <2>2. u \in AgentCalls /\ v \in AgentCalls
        BY DEF AgentCalls, KindsByCall, Counters
    <2> HIDE DEF s, u, v
    <2>3. s \in Seq(AgentCalls) /\ Len(s) = 2 /\ s[1] = u /\ s[2] = v
        BY <2>1, <2>2
    <2>4. \A x : HowOften(s, x) = Hit(u, x) + Hit(v, x)
        BY <2>3, HowOftenByPlace
    <2>5. EventCounts(s, a, artifact)
        BY <1>1, <1>4, <2>4 DEF EventCounts, Hit, u, v
    <2> QED BY <2>3, <2>5 DEF s
<1>5. CASE ~ (a = "research" /\ artifact) /\ ~ (a = "malware" /\ artifact) /\ a # "forensics"
    <2>1. s = <<>>
        BY <1>5 DEF EventProgram, ResearchEvent, MalwareEvent
    <2> HIDE DEF s
    <2>2. s \in Seq(AgentCalls)
        BY <2>1
    <2>3. \A x : HowOften(s, x) = 0
        BY <2>1, <2>2, HowOftenFacts DEF IsSeq
    <2>4. EventCounts(s, a, artifact)
        BY <1>5, <2>3 DEF EventCounts, Hit
    <2> QED BY <2>2, <2>4 DEF s
<1> QED BY <1>2, <1>3, <1>4, <1>5

(* The drivers still to be mapped, and what they provide.                  *)
LEMMA CatalogueFacts ==
    ASSUME NEW D \in SUBSET DriverNames
    PROVE  /\ IsFiniteSet(D) /\ Cardinality(D) \in Nat
           /\ IsFiniteSet(Catalogue(D)) /\ Cardinality(Catalogue(D)) \in Nat
<1>1. IsFiniteSet(D)
    BY AgentsAssumption, FS_Subset
<1> DEFINE F == [d \in D |-> {d} \X (1..Provides[d])]
           parts == {F[d] : d \in D}
<1>2. IsFiniteSet(parts)
    <2>1. F \in Surjection(D, parts)
        BY DEF Surjection
    <2> QED BY <1>1, <2>1, FS_Surjection
<1>3. ASSUME NEW T \in parts PROVE IsFiniteSet(T)
    <2>1. PICK d \in D : T = {d} \X (1..Provides[d])
        OBVIOUS
    <2>2. Provides[d] \in Nat
        BY AgentsAssumption
    <2> DEFINE n == Provides[d]
    <2> HIDE DEF n
    <2>3. IsFiniteSet(1..n)
        BY <2>2, FS_Interval DEF n
    <2>4. IsFiniteSet({d})
        BY FS_Singleton
    <2> QED BY <2>1, <2>3, <2>4, FS_Product DEF n
<1>4. IsFiniteSet(UNION parts)
    BY <1>2, <1>3, FS_UNION
<1>5. Catalogue(D) = UNION parts
    BY DEF Catalogue
<1>6. IsFiniteSet(Catalogue(D))
    BY <1>4, <1>5
<1> QED BY <1>1, <1>6, FS_CardinalityType

LEMMA CatalogueShrinks ==
    ASSUME NEW D \in SUBSET DriverNames, NEW d \in D
    PROVE  /\ Cardinality(D) = Cardinality(D \ {d}) + 1
           /\ Cardinality(Catalogue(D)) = Cardinality(Catalogue(D \ {d})) + Provides[d]
<1> DEFINE E == D \ {d}
           own == {d} \X (1..Provides[d])
<1>1. E \in SUBSET DriverNames /\ Provides[d] \in Nat /\ Provides[d] = Provides[d]
    BY AgentsAssumption
<1>2. Cardinality(D) = Cardinality(E) + 1
    BY CatalogueFacts, FS_RemoveElement
<1>3. IsFiniteSet(own) /\ Cardinality(own) = Provides[d]
    <2>1. IsFiniteSet({d}) /\ Cardinality({d}) = 1
        BY FS_Singleton
    <2>2. IsFiniteSet(1..Provides[d]) /\ Cardinality(1..Provides[d]) = Provides[d]
        BY <1>1, FS_Interval
    <2>3. IsFiniteSet(own) /\ Cardinality(own) = 1 * Provides[d]
        BY <2>1, <2>2, FS_Product
    <2> QED BY <1>1, <2>3
<1>4. Catalogue(D) = Catalogue(E) \cup own
    BY DEF Catalogue
<1>5. Catalogue(E) \cap own = {}
    BY DEF Catalogue
<1>6. IsFiniteSet(Catalogue(E)) /\ Cardinality(Catalogue(E)) \in Nat
    BY <1>1, CatalogueFacts
<1> HIDE DEF E, own
<1>7. Cardinality(Catalogue(E) \cap own) = 0
    BY <1>5, FS_EmptySet
<1>8. Cardinality(Catalogue(E) \cup own) = Cardinality(Catalogue(E)) + Cardinality(own) - 0
    BY <1>3, <1>6, <1>7, FS_Union
<1>9. Cardinality(Catalogue(D)) = Cardinality(Catalogue(E)) + Provides[d]
    BY <1>1, <1>3, <1>4, <1>6, <1>8
<1> QED BY <1>2, <1>9 DEF E

-----------------------------------------------------------------------------
(* What a thread still does changes by what one step takes from it.        *)
AgentTypes ==
    /\ registered \in SUBSET AllAgents /\ linked \in Nat
    /\ kinds \in [ObjectKindsMade -> Nat]
    /\ present \in [ObjectKindsMade -> Nat] /\ absent \in [ObjectKindsMade -> Nat]
    /\ topics \in [{"system.health", "system.alert"} -> Nat]
    /\ tally \in [Counters -> Nat] /\ ticks \in [AllAgents -> Nat]
    /\ appended \in Seq(BOOLEAN) /\ dispatched \in Seq(BOOLEAN)
    /\ loop \in [job : {"idle", "tick", "dispatch"}, agents : SUBSET AllAgents]
    /\ work \in [AgentThreads -> WorkStates]

FirstLink(w) == IF w.linking /\ w.bare THEN 1 ELSE 0
FirstLinks == FirstLink(work["loop"]) + FirstLink(work["caller"])

LEMMA WorkStateFacts ==
    ASSUME NEW w \in WorkStates
    PROVE  /\ \A x : HowOften(w.steps, x) \in Nat
           /\ Cardinality(w.drivers) \in Nat /\ Providing(w) \in Nat /\ FirstLink(w) \in Nat
<1>1. w.steps \in Seq(AgentCalls) /\ w.drivers \in SUBSET DriverNames /\ w.caps \in Nat
    BY DEF WorkStates
<1>2. IsSeq(w.steps)
    BY <1>1 DEF IsSeq
<1>3. Cardinality(w.drivers) \in Nat /\ Cardinality(Catalogue(w.drivers)) \in Nat
    BY <1>1, CatalogueFacts
<1>4. Providing(w) \in Nat
    BY <1>1, <1>3 DEF Providing
<1> QED BY <1>2, <1>3, <1>4, HowOftenFacts DEF FirstLink

LEMMA WorkGoesOn ==
    ASSUME AgentTypes, NEW t \in AgentThreads, NEW w \in WorkStates, GoesOn(t, w)
    PROVE  /\ work' \in [AgentThreads -> WorkStates]
           /\ \A x : /\ Left(x) \in Nat /\ HowOften(work[t].steps, x) \in Nat
              /\ HowOften(w.steps, x) \in Nat
                     /\ Left(x)' = Left(x) - HowOften(work[t].steps, x) + HowOften(w.steps, x)
           /\ ToMap \in Nat /\ ToProvide \in Nat /\ FirstLinks \in Nat
           /\ ToMap' = ToMap - Cardinality(work[t].drivers) + Cardinality(w.drivers)
           /\ ToProvide' = ToProvide - Providing(work[t]) + Providing(w)
           /\ FirstLinks' = FirstLinks - FirstLink(work[t]) + FirstLink(w)
<1>1. work' = [work EXCEPT ![t] = w] /\ work \in [AgentThreads -> WorkStates]
    BY DEF GoesOn, AgentTypes
<1>2. PICK u \in AgentThreads : u # t /\ AgentThreads = {t, u} /\ {t, u} = {"loop", "caller"}
    BY DEF AgentThreads
<1>3. work'[t] = w /\ work'[u] = work[u] /\ work[t] \in WorkStates /\ work[u] \in WorkStates
    BY <1>1, <1>2
<1>4. work' \in [AgentThreads -> WorkStates]
    BY <1>1
<1>5. ASSUME NEW x
      PROVE  /\ HowOften(work[t].steps, x) \in Nat /\ HowOften(w.steps, x) \in Nat
             /\ HowOften(work[u].steps, x) \in Nat
             /\ Left(x) = HowOften(work[t].steps, x) + HowOften(work[u].steps, x)
             /\ Left(x)' = HowOften(w.steps, x) + HowOften(work[u].steps, x)
    BY <1>2, <1>3, WorkStateFacts DEF Left
<1>6. /\ Cardinality(work[t].drivers) \in Nat /\ Cardinality(work[u].drivers) \in Nat
      /\ Cardinality(w.drivers) \in Nat
      /\ Providing(work[t]) \in Nat /\ Providing(work[u]) \in Nat /\ Providing(w) \in Nat
      /\ FirstLink(work[t]) \in Nat /\ FirstLink(work[u]) \in Nat /\ FirstLink(w) \in Nat
    BY <1>3, WorkStateFacts
<1>7. /\ ToMap = Cardinality(work[t].drivers) + Cardinality(work[u].drivers)
      /\ ToMap' = Cardinality(w.drivers) + Cardinality(work[u].drivers)
    BY <1>2, <1>3, <1>6 DEF ToMap
<1>8. /\ FirstLinks = FirstLink(work[t]) + FirstLink(work[u])
      /\ FirstLinks' = FirstLink(w) + FirstLink(work[u])
    BY <1>2, <1>3, <1>6 DEF FirstLinks
<1>9. /\ ToProvide = Providing(work[t]) + Providing(work[u])
      /\ ToProvide' = Providing(w) + Providing(work[u])
    BY <1>2, <1>3, <1>6 DEF ToProvide
<1> QED BY <1>4, <1>5, <1>6, <1>7, <1>8, <1>9

(* An object made counts, whether it is in the store or not.               *)
LEMMA MadeCounts ==
    ASSUME AgentTypes, NEW k \in ObjectKindsMade, NEW n \in Nat, Made(k, n)
    PROVE  /\ kinds' = [kinds EXCEPT ![k] = kinds[k] + n]
           /\ kinds' \in [ObjectKindsMade -> Nat]
           /\ present' \in [ObjectKindsMade -> Nat] /\ absent' \in [ObjectKindsMade -> Nat]
<1>1. PICK f \in 0..n : /\ present' = [present EXCEPT ![k] = present[k] + (n - f)]
                        /\ absent' = [absent EXCEPT ![k] = absent[k] + f]
    BY DEF Made
<1>2. n - f \in Nat /\ f \in Nat
    BY <1>1
<1>3. present \in [ObjectKindsMade -> Nat] /\ absent \in [ObjectKindsMade -> Nat]
    BY DEF AgentTypes
<1>4. present' \in [ObjectKindsMade -> Nat] /\ absent' \in [ObjectKindsMade -> Nat]
    BY <1>1, <1>2, <1>3
<1>5. kinds' = [l \in ObjectKindsMade |-> present'[l] + absent'[l]]
    BY DEF kinds
<1>6. kinds = [l \in ObjectKindsMade |-> present[l] + absent[l]]
    BY DEF kinds
<1>7. \A l \in ObjectKindsMade :
         present'[l] + absent'[l] = IF l = k THEN present[l] + absent[l] + n ELSE present[l] + absent[l]
    BY <1>1, <1>2, <1>3
<1>8. kinds' = [l \in ObjectKindsMade |-> IF l = k THEN present[l] + absent[l] + n ELSE present[l] + absent[l]]
    BY <1>5, <1>7
<1>9. kinds' = [kinds EXCEPT ![k] = kinds[k] + n]
    BY <1>6, <1>8
<1>10. kinds' \in [ObjectKindsMade -> Nat]
    BY <1>3, <1>8
<1> QED BY <1>4, <1>9, <1>10

LEMMA MadeKept == UNCHANGED madeVars => UNCHANGED <<kinds, present, absent>>
BY DEF madeVars, kinds

(* A call does what it says, and leaves the rest.                          *)
CallEffects(c, found) ==
    /\ \A k \in KindsByCall : kinds'[k] = kinds[k] + Hit(c, Create(k))
    /\ \A n \in Counters : tally'[n] = tally[n] + Hit(c, Counting(n))
    /\ topics'["system.health"] = topics["system.health"] + Hit(c, Health)
    /\ topics'["system.alert"] = topics["system.alert"] + Hit(c, Alert)
    /\ kinds'["architecture_component"] = kinds["architecture_component"]
    /\ kinds'["architecture_capability"] = kinds["architecture_capability"]
    /\ kinds'["forensics_relationship_trace"] = kinds["forensics_relationship_trace"] + found
    /\ IF c = TraceLinks THEN found <= linked ELSE found = 0
    /\ linked' = linked
StoresTyped ==
    /\ kinds \in [ObjectKindsMade -> Nat] /\ present \in [ObjectKindsMade -> Nat]
    /\ absent \in [ObjectKindsMade -> Nat] /\ tally \in [Counters -> Nat] /\ linked \in Nat
    /\ topics \in [{"system.health", "system.alert"} -> Nat]

LEMMA CallDoes ==
    ASSUME AgentTypes, NEW c \in AgentCalls, Call(c)
    PROVE  (\E found \in Nat : CallEffects(c, found)) /\ StoresTyped'
<1>0. \A k \in ObjectKindsMade : \A n \in Nat : Made(k, n) =>
         /\ kinds' = [kinds EXCEPT ![k] = kinds[k] + n]
         /\ kinds' \in [ObjectKindsMade -> Nat]
         /\ present' \in [ObjectKindsMade -> Nat] /\ absent' \in [ObjectKindsMade -> Nat]
    BY MadeCounts
<1>5. StoresTyped /\ linked \in Nat
    BY DEF AgentTypes, StoresTyped
<1>1. /\ KindsByCall \subseteq ObjectKindsMade
      /\ {"architecture_component", "architecture_capability", "forensics_relationship_trace",
          "architecture_data_summary", "forensics_timeline"} \subseteq ObjectKindsMade \ KindsByCall
    BY DEF KindsByCall, ObjectKindsMade, Counters
<1>2. CASE \E k \in KindsByCall : c = Create(k)
    <2>1. PICK k \in KindsByCall : c = Create(k)
        BY <1>2
    <2>a. Made(k, 1) /\ UNCHANGED <<linked, topics, tally>>
        BY <2>1 DEF Call, Create
    <2>2. kinds' = [kinds EXCEPT ![k] = kinds[k] + 1] /\ UNCHANGED <<linked, topics, tally>>
        BY <1>1, <1>0, <2>a
    <2>3. StoresTyped'
        BY <1>1, <2>a, <1>0, <1>5 DEF StoresTyped
    <2>4. /\ \A l \in KindsByCall : Hit(c, Create(l)) = Hit(k, l)
          /\ \A n \in Counters : Hit(c, Counting(n)) = 0
          /\ Hit(c, Health) = 0 /\ Hit(c, Alert) = 0 /\ c # TraceLinks
        BY <2>1 DEF Hit, Create, Counting, Health, Alert, Publishing, TraceLinks
    <2>5. \A l \in KindsByCall : kinds'[l] = kinds[l] + Hit(k, l)
        BY <1>1, <1>5, <2>2 DEF Hit, StoresTyped
    <2>6. CallEffects(c, 0)
        BY <1>1, <1>5, <2>2, <2>4, <2>5 DEF CallEffects, StoresTyped
    <2> QED BY <2>3, <2>6
<1>3. CASE \E n \in Counters : c = Counting(n)
    <2>1. PICK n \in Counters : c = Counting(n)
        BY <1>3
    <2>2. /\ tally' = [tally EXCEPT ![n] = tally[n] + 1]
          /\ UNCHANGED <<kinds, present, absent, linked, topics>>
        BY <2>1, MadeKept DEF Call, Counting, Tallied
    <2>3. StoresTyped'
        BY <1>1, <1>5, <2>2 DEF StoresTyped
    <2>4. /\ \A l \in KindsByCall : Hit(c, Create(l)) = 0
          /\ \A m \in Counters : Hit(c, Counting(m)) = Hit(n, m)
          /\ Hit(c, Health) = 0 /\ Hit(c, Alert) = 0 /\ c # TraceLinks
        BY <2>1 DEF Hit, Create, Counting, Health, Alert, Publishing, TraceLinks
    <2>5. \A m \in Counters : tally'[m] = tally[m] + Hit(n, m)
        BY <1>1, <1>5, <2>2 DEF Hit, StoresTyped
    <2>6. CallEffects(c, 0)
        BY <1>1, <1>5, <2>2, <2>4, <2>5 DEF CallEffects, StoresTyped
    <2> QED BY <2>3, <2>6
<1>4. CASE c \in OtherCalls
    <2>1. /\ \A l \in KindsByCall : Hit(c, Create(l)) = 0
          /\ \A m \in Counters : Hit(c, Counting(m)) = 0
        BY <1>4 DEF Hit, Create, Counting, OtherCalls, Health, Alert, Publishing, TraceLinks
    <2>2. CASE c = Health
        <3>1. /\ topics' = [topics EXCEPT !["system.health"] = topics["system.health"] + 1]
              /\ UNCHANGED <<kinds, present, absent, linked, tally>>
            BY <2>2, MadeKept DEF Call, Health, Publishing
        <3>2. Hit(c, Health) = 1 /\ Hit(c, Alert) = 0 /\ c # TraceLinks
            BY <2>2 DEF Hit, Health, Alert, Publishing, TraceLinks
        <3>3. StoresTyped'
            BY <1>5, <3>1 DEF StoresTyped
        <3>4. CallEffects(c, 0)
            BY <1>1, <1>5, <2>1, <3>1, <3>2 DEF CallEffects, StoresTyped
        <3> QED BY <3>3, <3>4
    <2>3. CASE c = Alert
        <3>1. /\ topics' = [topics EXCEPT !["system.alert"] = topics["system.alert"] + 1]
              /\ UNCHANGED <<kinds, present, absent, linked, tally>>
            BY <2>3, MadeKept DEF Call, Alert, Publishing
        <3>2. Hit(c, Health) = 0 /\ Hit(c, Alert) = 1 /\ c # TraceLinks
            BY <2>3 DEF Hit, Health, Alert, Publishing, TraceLinks
        <3>3. StoresTyped'
            BY <1>5, <3>1 DEF StoresTyped
        <3>4. CallEffects(c, 0)
            BY <1>1, <1>5, <2>1, <3>1, <3>2 DEF CallEffects, StoresTyped
        <3> QED BY <3>3, <3>4
    <2>4. CASE c \in OtherCalls \ {Health, Alert}
        <3>1. PICK k \in {"forensics_relationship_trace", "architecture_data_summary", "forensics_timeline"},
                   n \in Nat : /\ Made(k, n) /\ UNCHANGED <<linked, topics, tally>>
                               /\ IF k = "forensics_relationship_trace"
                                  THEN IF c = TraceLinks THEN n <= linked ELSE n = 0
                                  ELSE c # TraceLinks
            <4>1. CASE c = TraceLinks
                <5>1. PICK n \in 0..linked : Made("forensics_relationship_trace", n)
                      /\ UNCHANGED <<linked, topics, tally>>
                    BY <4>1 DEF Call, TraceLinks
                <5>2. n \in Nat /\ n <= linked
                    BY <1>5, <5>1
                <5> QED BY <4>1, <5>1, <5>2
            <4>2. CASE c \in {<<"trace", "research_note">>, <<"trace", "malware_analysis">>}
                <5>1. PICK n \in 0..0 : Made("forensics_relationship_trace", n)
                      /\ UNCHANGED <<linked, topics, tally>> /\ c # TraceLinks
                    BY <4>2 DEF Call, TraceLinks
                <5> QED BY <4>2, <5>1
            <4>3. CASE c = <<"timeline", "Artifact">>
                <5>1. PICK n \in {0, 1} : Made("forensics_timeline", n)
                      /\ UNCHANGED <<linked, topics, tally>> /\ c # TraceLinks
                    BY <4>3 DEF Call, TraceLinks
                <5> QED BY <4>3, <5>1
            <4>4. CASE c = <<"summary", "architecture_component">>
                <5>1. PICK n \in {0, 1} : Made("architecture_data_summary", n)
                      /\ UNCHANGED <<linked, topics, tally>> /\ c # TraceLinks
                    BY <4>4 DEF Call, TraceLinks
                <5> QED BY <4>4, <5>1
            <4> QED BY <2>4, <4>1, <4>2, <4>3, <4>4 DEF OtherCalls
        <3>2. Hit(c, Health) = 0 /\ Hit(c, Alert) = 0
            BY <2>4 DEF Hit
        <3>m. /\ k \in ObjectKindsMade /\ kinds' = [kinds EXCEPT ![k] = kinds[k] + n]
              /\ kinds' \in [ObjectKindsMade -> Nat]
              /\ present' \in [ObjectKindsMade -> Nat] /\ absent' \in [ObjectKindsMade -> Nat]
            BY <1>0, <1>1, <3>1
        <3>3. StoresTyped'
            BY <1>5, <3>1, <3>m DEF StoresTyped
        <3>4. \A l \in ObjectKindsMade \ {k} : kinds'[l] = kinds[l]
            BY <1>5, <3>m DEF StoresTyped
        <3>5. kinds'[k] = kinds[k] + n
            BY <1>1, <1>5, <3>m DEF StoresTyped
        <3>6. CASE k = "forensics_relationship_trace"
            <4>1. CallEffects(c, n)
                BY <1>1, <1>5, <2>1, <3>1, <3>2, <3>4, <3>5, <3>6 DEF CallEffects, StoresTyped
            <4> QED BY <3>3, <4>1
        <3>7. CASE k # "forensics_relationship_trace"
            <4>1. kinds'["forensics_relationship_trace"] = kinds["forensics_relationship_trace"] + 0
                BY <1>1, <1>5, <3>4, <3>7 DEF StoresTyped
            <4>2. CallEffects(c, 0)
                BY <1>1, <1>5, <2>1, <3>1, <3>2, <3>4, <3>7, <4>1 DEF CallEffects, StoresTyped
            <4> QED BY <3>3, <4>2
        <3> QED BY <3>6, <3>7
    <2> QED BY <1>4, <2>2, <2>3, <2>4
<1> QED BY <1>2, <1>3, <1>4 DEF AgentCalls

-----------------------------------------------------------------------------
(* The accounts of the agents: the sums that no call changes, and by which *)
(* the beginning of an agent's work does.                                  *)
TracesDone == CountedOrLater("timelines") - Left(TraceLinks)
TracesBounded ==
    /\ TracesDone \in Nat
    /\ kinds["forensics_relationship_trace"] <= TracesDone * linked
LinksFollow == linked + FirstLinks <= kinds["architecture_capability"]

SameAccounts ==
    /\ \A k \in KindsByCall : NowOrLater(k)' = NowOrLater(k)
    /\ \A n \in Counters : CountedOrLater(n)' = CountedOrLater(n)
    /\ PublishedOrLater("system.health")' = PublishedOrLater("system.health")
    /\ PublishedOrLater("system.alert")' = PublishedOrLater("system.alert")
    /\ (kinds["architecture_component"] + ToMap)' = kinds["architecture_component"] + ToMap
    /\ (kinds["architecture_capability"] + ToProvide)'
       = kinds["architecture_capability"] + ToProvide

LEMMA CallKeepsAccounts ==
    ASSUME AgentTypes, TracesBounded, LinksFollow, NEW t \in AgentThreads, CallNext(t)
    PROVE  /\ SameAccounts /\ StoresTyped' /\ work' \in [AgentThreads -> WorkStates]
           /\ TracesBounded' /\ LinksFollow'
<1> DEFINE w == work[t]
           c == Head(w.steps)
           v == Calls(Tail(w.steps))
<1>1. w \in WorkStates
    BY DEF AgentTypes
<1>2. w.steps \in Seq(AgentCalls) /\ w.steps # <<>> /\ ~w.linking /\ w.caps = 0 /\ w.drivers = {}
    BY <1>1 DEF CallNext, WorkStates
<1>3. c \in AgentCalls /\ Tail(w.steps) \in Seq(AgentCalls)
    BY <1>2
<1>4. /\ v \in WorkStates /\ v.steps = Tail(w.steps) /\ ~v.linking /\ v.caps = 0 /\ v.drivers = {}
    BY <1>3 DEF Calls, Work, WorkStates
<1>5. Call(c) /\ GoesOn(t, v)
    BY DEF CallNext
<1>6. PICK found \in Nat : CallEffects(c, found) /\ StoresTyped'
    BY <1>3, <1>5, CallDoes
<1>7. \A x : HowOften(w.steps, x) = HowOften(v.steps, x) + Hit(c, x)
    BY <1>2, <1>4, HowOftenFacts DEF IsSeq
<1>8. Providing(w) = Providing(v) /\ FirstLink(w) = FirstLink(v) /\ w.drivers = v.drivers
    BY <1>2, <1>4 DEF Providing, FirstLink
<1> HIDE DEF v, w, c
<1>9. /\ work' \in [AgentThreads -> WorkStates]
      /\ \A x : /\ Left(x) \in Nat /\ HowOften(w.steps, x) \in Nat /\ HowOften(v.steps, x) \in Nat
                /\ Left(x)' = Left(x) - HowOften(w.steps, x) + HowOften(v.steps, x)
      /\ ToMap \in Nat /\ ToProvide \in Nat /\ FirstLinks \in Nat
      /\ ToMap' = ToMap - Cardinality(w.drivers) + Cardinality(v.drivers)
      /\ ToProvide' = ToProvide - Providing(w) + Providing(v)
      /\ FirstLinks' = FirstLinks - FirstLink(w) + FirstLink(v)
    BY <1>4, <1>5, WorkGoesOn DEF w
<1>10. \A x : Left(x)' = Left(x) - Hit(c, x) /\ Hit(c, x) \in Nat /\ Left(x) \in Nat
    <2>1. \A x : Hit(c, x) \in Nat
        BY DEF Hit
    <2> QED BY <1>7, <1>9, <2>1
<1>11. /\ Cardinality(w.drivers) \in Nat /\ Providing(w) \in Nat /\ FirstLink(w) \in Nat
    BY <1>1, WorkStateFacts
<1>12. ToMap' = ToMap /\ ToProvide' = ToProvide /\ FirstLinks' = FirstLinks
    BY <1>8, <1>9, <1>11
<1>13. ASSUME NEW k \in KindsByCall PROVE NowOrLater(k)' = NowOrLater(k)
    <2>1. kinds'[k] = kinds[k] + Hit(c, Create(k)) /\ kinds[k] \in Nat
        BY <1>6 DEF CallEffects, AgentTypes, KindsByCall, ObjectKindsMade
    <2>2. Left(Create(k))' = Left(Create(k)) - Hit(c, Create(k)) /\ Hit(c, Create(k)) \in Nat
          /\ Left(Create(k)) \in Nat
        BY <1>10
    <2> QED BY <2>1, <2>2 DEF NowOrLater
<1>14. ASSUME NEW n \in Counters PROVE CountedOrLater(n)' = CountedOrLater(n)
            /\ CountedOrLater(n) \in Nat
    <2>1. tally'[n] = tally[n] + Hit(c, Counting(n)) /\ tally[n] \in Nat
        BY <1>6 DEF CallEffects, AgentTypes, Counters
    <2>2. Left(Counting(n))' = Left(Counting(n)) - Hit(c, Counting(n))
          /\ Hit(c, Counting(n)) \in Nat
          /\ Left(Counting(n)) \in Nat
        BY <1>10
    <2> QED BY <2>1, <2>2 DEF CountedOrLater
<1>15. ASSUME NEW topic \in {"system.health", "system.alert"}
       PROVE  PublishedOrLater(topic)' = PublishedOrLater(topic)
    <2> DEFINE p == Publishing(topic)
    <2>1. topics'[topic] = topics[topic] + Hit(c, p) /\ topics[topic] \in Nat
        BY <1>6 DEF CallEffects, AgentTypes, Health, Alert
    <2> HIDE DEF p
    <2>2. Left(p)' = Left(p) - Hit(c, p) /\ Hit(c, p) \in Nat /\ Left(p) \in Nat
        BY <1>10
    <2>3. (topics[topic] + Left(p))' = topics[topic] + Left(p)
        BY <2>1, <2>2 DEF p
    <2> QED BY <2>3 DEF PublishedOrLater, p
<1>16. SameAccounts
    BY <1>6, <1>12, <1>13, <1>14, <1>15 DEF SameAccounts, CallEffects
<1>17. LinksFollow'
    BY <1>6, <1>12 DEF CallEffects, LinksFollow
<1>18. TracesBounded'
    <2> DEFINE n == TracesDone
               h == Hit(c, TraceLinks)
               r == kinds["forensics_relationship_trace"]
    <2>1. CountedOrLater("timelines")' = CountedOrLater("timelines")
          /\ CountedOrLater("timelines") \in Nat
        BY <1>14 DEF Counters
    <2>2. Left(TraceLinks)' = Left(TraceLinks) - h /\ h \in Nat /\ Left(TraceLinks) \in Nat
        BY <1>10
    <2>3. TracesDone' = n + h /\ n \in Nat
        BY <2>1, <2>2 DEF TracesDone, TracesBounded
    <2>4. r' = r + found /\ linked' = linked
          /\ (IF c = TraceLinks THEN found <= linked ELSE found = 0)
          /\ r \in Nat /\ linked \in Nat /\ r <= n * linked
        BY <1>6 DEF CallEffects, AgentTypes, ObjectKindsMade, TracesBounded
    <2>5. h = IF c = TraceLinks THEN 1 ELSE 0
        BY DEF Hit
    <2> HIDE DEF n, h
    <2>6. (n + 1) * linked = n * linked + linked /\ n * linked \in Nat
        BY <2>3, <2>4
    <2>7. n + 0 = n
        BY <2>3
    <2> QED BY <2>3, <2>4, <2>5, <2>6, <2>7 DEF TracesBounded
<1> QED BY <1>6, <1>9, <1>16, <1>17, <1>18

LEMMA MappingKeepsAccounts ==
    ASSUME AgentTypes, TracesBounded, LinksFollow, NEW t \in AgentThreads,
           MapDriver(t) \/ MapCapability(t) \/ LinkCapability(t)
    PROVE  /\ SameAccounts /\ StoresTyped' /\ work' \in [AgentThreads -> WorkStates]
           /\ TracesBounded' /\ LinksFollow'
<1> DEFINE w == work[t]
           component == "architecture_component"
           capability == "architecture_capability"
           KindsGrow(n, m) ==
              /\ kinds' \in [ObjectKindsMade -> Nat] /\ present' \in [ObjectKindsMade -> Nat]
              /\ absent' \in [ObjectKindsMade -> Nat]
              /\ \A k \in ObjectKindsMade \ {component, capability} : kinds'[k] = kinds[k]
              /\ kinds'[component] = kinds[component] + n
                 /\ kinds'[capability] = kinds[capability] + m
<1>0. /\ component \in ObjectKindsMade \ KindsByCall /\ capability \in ObjectKindsMade \ KindsByCall
      /\ component # capability /\ KindsByCall \subseteq ObjectKindsMade
      /\ "forensics_relationship_trace" \in ObjectKindsMade \ {component, capability}
      /\ kinds \in [ObjectKindsMade -> Nat] /\ linked \in Nat
    BY DEF ObjectKindsMade, KindsByCall, AgentTypes
<1>1. w \in WorkStates
    BY DEF AgentTypes
<1>2. /\ w.steps \in Seq(AgentCalls) /\ w.linking \in BOOLEAN /\ w.caps \in Nat /\ w.bare \in BOOLEAN
      /\ w.drivers \in SUBSET DriverNames
    BY <1>1 DEF WorkStates
<1>3. PICK v \in WorkStates, n \in {0, 1}, m \in {0, 1}, l \in {0, 1} :
         /\ GoesOn(t, v) /\ v.steps = w.steps /\ UNCHANGED <<topics, tally>>
         /\ KindsGrow(n, m)
         /\ linked' = linked + l
         /\ Cardinality(w.drivers) = Cardinality(v.drivers) + n
         /\ Providing(w) = Providing(v) + m
         /\ FirstLink(v) + l <= FirstLink(w) + m
    <2>1. CASE MapDriver(t)
        <3>1. PICK d \in w.drivers : GoesOn(t, Work(w.drivers \ {d}, Provides[d], TRUE, FALSE, w.steps))
            BY <2>1 DEF MapDriver
        <3> DEFINE v == Work(w.drivers \ {d}, Provides[d], TRUE, FALSE, w.steps)
        <3>2. d \in DriverNames /\ Provides[d] \in Nat
            BY <1>2, AgentsAssumption
        <3>3. v \in WorkStates /\ v.steps = w.steps /\ v.drivers = w.drivers \ {d}
              /\ v.caps = Provides[d]
              /\ v.linking = FALSE
            BY <1>2, <3>2 DEF Work, WorkStates
        <3>0. Made(component, 1)
            BY <2>1 DEF MapDriver
        <3>4. kinds' = [kinds EXCEPT ![component] = kinds[component] + 1]
              /\ UNCHANGED <<linked, topics, tally>>
              /\ w.caps = 0 /\ ~w.linking
            BY <1>0, <2>1, <3>0, MadeCounts DEF MapDriver
        <3>5. Cardinality(w.drivers) = Cardinality(w.drivers \ {d}) + 1
              /\ Cardinality(Catalogue(w.drivers))
                 = Cardinality(Catalogue(w.drivers \ {d})) + Provides[d]
            BY <1>2, CatalogueShrinks
        <3>6. Cardinality(Catalogue(w.drivers \ {d})) \in Nat
              /\ Cardinality(Catalogue(w.drivers)) \in Nat
            BY <1>2, CatalogueFacts
        <3> HIDE DEF v, w
        <3>7. Providing(w) = Providing(v) + 0
            BY <3>2, <3>3, <3>4, <3>5, <3>6 DEF Providing
        <3>8. FirstLink(v) + 0 <= FirstLink(w) + 0
            BY <3>3, <3>4 DEF FirstLink
        <3>9. KindsGrow(1, 0)
            BY <1>0, <3>4, <3>0, MadeCounts
        <3>10. linked' = linked + 0
            BY <3>4 DEF AgentTypes
        <3>11. GoesOn(t, v)
            BY <3>1 DEF v
        <3> QED BY <3>3, <3>4, <3>5, <3>7, <3>8, <3>9, <3>10, <3>11
    <2>2. CASE MapCapability(t)
        <3> DEFINE v == Work(w.drivers, w.caps - 1, w.bare, TRUE, w.steps)
        <3>0. Made(capability, 1)
            BY <2>2 DEF MapCapability
        <3>1. GoesOn(t, v) /\ w.caps > 0 /\ ~w.linking /\ UNCHANGED <<linked, topics, tally>>
              /\ kinds' = [kinds EXCEPT ![capability] = kinds[capability] + 1]
            BY <1>0, <2>2, <3>0, MadeCounts DEF MapCapability
        <3>2. w.caps - 1 \in Nat
            BY <1>2, <3>1
        <3>3. v \in WorkStates /\ v.steps = w.steps /\ v.drivers = w.drivers /\ v.caps = w.caps - 1
            BY <1>2, <3>2 DEF Work, WorkStates
        <3>4. Cardinality(w.drivers) \in Nat /\ Cardinality(Catalogue(w.drivers)) \in Nat
            BY <1>2, CatalogueFacts
        <3> HIDE DEF v, w
        <3>5. Cardinality(w.drivers) = Cardinality(v.drivers) + 0
            BY <3>3, <3>4
        <3>6. Providing(w) = Providing(v) + 1
            BY <1>2, <3>3, <3>4 DEF Providing
        <3>7. FirstLink(v) + 0 <= FirstLink(w) + 1
            BY <3>1 DEF FirstLink
        <3>8. KindsGrow(0, 1)
            BY <1>0, <3>1, <3>0, MadeCounts
        <3>9. linked' = linked + 0
            BY <3>1 DEF AgentTypes
        <3> QED BY <3>1, <3>3, <3>5, <3>6, <3>7, <3>8, <3>9
    <2>3. CASE LinkCapability(t)
        <3>0. PICK bare \in BOOLEAN :
                 /\ linked' = linked + (IF w.bare /\ ~bare THEN 1 ELSE 0)
                 /\ GoesOn(t, Work(w.drivers, w.caps, w.bare /\ bare, FALSE, w.steps))
            BY <2>3 DEF LinkCapability
        <3> DEFINE v == Work(w.drivers, w.caps, w.bare /\ bare, FALSE, w.steps)
        <3>1. GoesOn(t, v) /\ w.linking /\ UNCHANGED <<kinds, present, absent, topics, tally>>
              /\ linked' = linked + (IF w.bare /\ ~bare THEN 1 ELSE 0)
            BY <2>3, <3>0, MadeKept DEF LinkCapability
        <3>2. v \in WorkStates /\ v.steps = w.steps /\ v.drivers = w.drivers /\ v.caps = w.caps
              /\ ~v.linking
            BY <1>2 DEF Work, WorkStates
        <3>3. Cardinality(w.drivers) \in Nat /\ Cardinality(Catalogue(w.drivers)) \in Nat
            BY <1>2, CatalogueFacts
        <3> HIDE DEF v, w
        <3>4. Cardinality(w.drivers) = Cardinality(v.drivers) + 0
            BY <3>2, <3>3
        <3>5. Providing(w) = Providing(v) + 0
            BY <1>2, <3>2, <3>3 DEF Providing
        <3>6. FirstLink(v) + (IF w.bare /\ ~bare THEN 1 ELSE 0) <= FirstLink(w) + 0
            BY <3>1, <3>2 DEF FirstLink
        <3>7. KindsGrow(0, 0)
            BY <1>0, <3>1 DEF AgentTypes
        <3> QED BY <3>1, <3>2, <3>4, <3>5, <3>6, <3>7
    <2> QED BY <2>1, <2>2, <2>3
<1> HIDE DEF w
<1>4. /\ work' \in [AgentThreads -> WorkStates]
      /\ \A x : /\ Left(x) \in Nat /\ HowOften(w.steps, x) \in Nat
                /\ Left(x)' = Left(x) - HowOften(w.steps, x) + HowOften(v.steps, x)
      /\ ToMap \in Nat /\ ToProvide \in Nat /\ FirstLinks \in Nat
      /\ ToMap' = ToMap - Cardinality(w.drivers) + Cardinality(v.drivers)
      /\ ToProvide' = ToProvide - Providing(w) + Providing(v)
      /\ FirstLinks' = FirstLinks - FirstLink(w) + FirstLink(v)
    BY <1>3, WorkGoesOn DEF w
<1>5. \A x : Left(x)' = Left(x)
    BY <1>3, <1>4
<1>6. /\ Cardinality(v.drivers) \in Nat /\ Providing(v) \in Nat /\ FirstLink(v) \in Nat
      /\ Cardinality(w.drivers) \in Nat /\ Providing(w) \in Nat /\ FirstLink(w) \in Nat
    BY <1>1, WorkStateFacts
<1>7. ToMap' = ToMap - n /\ ToProvide' = ToProvide - m
    BY <1>3, <1>4, <1>6
<1>8. FirstLinks' + l <= FirstLinks + m /\ FirstLinks' \in Int
    BY <1>3, <1>4, <1>6
<1> HIDE DEF component, capability
<1>11. KindsGrow(n, m)
    BY <1>3
<1>12. linked' = linked + l /\ linked' \in Nat
    BY <1>3, <1>0
<1>13. StoresTyped'
    BY <1>3, <1>11, <1>12 DEF StoresTyped, AgentTypes
<1>14. \A k \in KindsByCall : NowOrLater(k)' = NowOrLater(k)
    BY <1>5, <1>0, <1>11 DEF NowOrLater
<1>15. \A c \in Counters : CountedOrLater(c)' = CountedOrLater(c)
    BY <1>3, <1>5 DEF CountedOrLater
<1>16. \A topic : PublishedOrLater(topic)' = PublishedOrLater(topic)
    BY <1>3, <1>5 DEF PublishedOrLater
<1>17. kinds[component] \in Nat /\ kinds[capability] \in Nat
    BY <1>0, <1>0
<1>18. (kinds[component] + ToMap)' = kinds[component] + ToMap
       /\ (kinds[capability] + ToProvide)' = kinds[capability] + ToProvide
    BY <1>3, <1>4, <1>7, <1>11, <1>17 DEF component, capability
<1>19. SameAccounts
    BY <1>14, <1>15, <1>16, <1>18 DEF SameAccounts, component, capability
<1>20. LinksFollow'
    <2>1. linked + FirstLinks <= kinds[capability]
        BY DEF LinksFollow, capability
    <2>2. linked' + FirstLinks' <= kinds'[capability]
        BY <1>3, <1>4, <1>8, <1>0, <1>11, <1>12, <1>17, <2>1
    <2> QED BY <2>2 DEF LinksFollow, capability
<1>21. TracesBounded'
    <2> DEFINE done == TracesDone
               r == kinds["forensics_relationship_trace"]
    <2>1. done' = done /\ r' = r /\ r \in Nat
        BY <1>3, <1>5, <1>0, <1>11 DEF TracesDone, CountedOrLater
    <2>2. done \in Nat /\ r <= done * linked
        BY DEF TracesBounded
    <2> HIDE DEF done
    <2>3. done * linked' = done * linked + done * l /\ done * l \in Nat /\ done * linked \in Nat
        BY <1>3, <1>0, <1>12, <2>2
    <2>4. r <= done * linked'
        BY <2>1, <2>2, <2>3
    <2> QED BY <2>1, <2>2, <2>4 DEF TracesBounded, done
<1> QED BY <1>4, <1>13, <1>19, <1>20, <1>21

Accounts == TicksLeaveObjects /\ DriversAreMapped /\ EventsLeaveObjects
NothingToldMeanwhile ==
    /\ UNCHANGED dispatched
    /\ Untold("malware")' = Untold("malware") /\ Untold("research")' = Untold("research")
    /\ Unrecorded("forensics")' = Unrecorded("forensics")

LEMMA SameAccountsHold ==
    ASSUME Accounts, AgentTypes, StoresTyped', SameAccounts, UNCHANGED ticks, NothingToldMeanwhile
    PROVE  Accounts'
<1>1. Artifacts' = Artifacts
    BY DEF Artifacts, NothingToldMeanwhile
<1>2. /\ {"research_capability_map", "research_note", "malware_capability_status", "malware_analysis",
          "health_snapshot", "documentation", "forensics_event_record"} \subseteq KindsByCall
      /\ {"queries", "mapped", "analyses", "ticks", "alerts", "timelines", "events"} \subseteq Counters
    BY DEF KindsByCall, Counters
<1>3. \A k \in KindsByCall : NowOrLater(k)' = NowOrLater(k)
    BY DEF SameAccounts
<1>4. \A n \in Counters : CountedOrLater(n)' = CountedOrLater(n)
    BY DEF SameAccounts
<1>5. TicksLeaveObjects'
    <2>1. /\ PublishedOrLater("system.health")' = PublishedOrLater("system.health")
          /\ PublishedOrLater("system.alert")' = PublishedOrLater("system.alert")
        BY DEF SameAccounts
    <2> QED BY <1>2, <1>3, <1>4, <2>1 DEF Accounts, TicksLeaveObjects
<1>6. DriversAreMapped'
    BY <1>2, <1>4 DEF Accounts, DriversAreMapped, SameAccounts
<1>7. EventsLeaveObjects'
    BY <1>1, <1>2, <1>3, <1>4 DEF Accounts, EventsLeaveObjects, NothingToldMeanwhile
<1> QED BY <1>5, <1>6, <1>7 DEF Accounts

LEMMA NoWorkFacts ==
    /\ NoWork \in WorkStates
    /\ Cardinality(NoWork.drivers) = 0 /\ Providing(NoWork) = 0 /\ FirstLink(NoWork) = 0
    /\ \A x : HowOften(NoWork.steps, x) = 0
<1>1. NoWork.steps = <<>> /\ NoWork.drivers = {} /\ NoWork.caps = 0 /\ ~NoWork.linking
    BY DEF NoWork, Calls, Work
<1>2. /\ Cardinality(NoWork.drivers) = 0 /\ Providing(NoWork) = 0 /\ FirstLink(NoWork) = 0
      /\ \A x : HowOften(NoWork.steps, x) = 0
    <2>1. Catalogue(NoWork.drivers) = {}
        BY <1>1 DEF Catalogue
    <2>2. \A x : HowOften(<<>>, x) = 0
        <3>1. IsSeq(<<>>)
            BY EmptySeq DEF IsSeq
        <3> QED BY <3>1, HowOftenFacts
    <2>3. Cardinality(NoWork.drivers) = 0 /\ Cardinality(Catalogue(NoWork.drivers)) = 0
        BY <1>1, <2>1, FS_EmptySet
    <2>4. Providing(NoWork) = 0
        BY <1>1, <2>3 DEF Providing
    <2>5. FirstLink(NoWork) = 0
        BY <1>1 DEF FirstLink
    <2> QED BY <1>1, <2>2, <2>3, <2>4, <2>5
<1>3. NoWork \in WorkStates
    <2>1. <<>> \in Seq(AgentCalls)
        BY EmptySeq
    <2> QED BY <2>1 DEF NoWork, Calls, Work, WorkStates
<1> QED BY <1>2, <1>3

(* An agent that begins to work does so on a thread that has none.         *)
LEMMA WorkBegins ==
    ASSUME AgentTypes, LinksFollow, NEW t \in AgentThreads, work[t] = NoWork,
           NEW w \in WorkStates, GoesOn(t, w), ~w.linking, w.caps = 0,
           UNCHANGED <<kinds, linked, topics, tally>>
    PROVE  /\ work' \in [AgentThreads -> WorkStates]
           /\ \A x : Left(x) \in Nat /\ HowOften(w.steps, x) \in Nat
                     /\ Left(x)' = Left(x) + HowOften(w.steps, x)
           /\ ToMap \in Nat /\ ToProvide \in Nat
           /\ ToMap' = ToMap + Cardinality(w.drivers)
           /\ ToProvide' = ToProvide + Cardinality(Catalogue(w.drivers))
           /\ LinksFollow'
<1>2. /\ Cardinality(NoWork.drivers) = 0 /\ Providing(NoWork) = 0 /\ FirstLink(NoWork) = 0
      /\ \A x : HowOften(NoWork.steps, x) = 0
    BY NoWorkFacts
<1>3. /\ work' \in [AgentThreads -> WorkStates]
      /\ \A x : /\ Left(x) \in Nat /\ HowOften(w.steps, x) \in Nat
                /\ Left(x)' = Left(x) - HowOften(NoWork.steps, x) + HowOften(w.steps, x)
      /\ ToMap \in Nat /\ ToProvide \in Nat /\ FirstLinks \in Nat
      /\ ToMap' = ToMap - Cardinality(NoWork.drivers) + Cardinality(w.drivers)
      /\ ToProvide' = ToProvide - Providing(NoWork) + Providing(w)
      /\ FirstLinks' = FirstLinks - FirstLink(NoWork) + FirstLink(w)
    BY WorkGoesOn
<1>4. Cardinality(w.drivers) \in Nat /\ Providing(w) \in Nat
    BY WorkStateFacts
<1>5. w.drivers \in SUBSET DriverNames
    BY DEF WorkStates
<1>6. Providing(w) = Cardinality(Catalogue(w.drivers))
    BY <1>5, CatalogueFacts DEF Providing
<1>7. FirstLinks' = FirstLinks
    BY <1>2, <1>3 DEF FirstLink
<1>8. \A x : Left(x)' = Left(x) + HowOften(w.steps, x)
    BY <1>2, <1>3
<1> QED BY <1>2, <1>3, <1>4, <1>6, <1>7, <1>8 DEF LinksFollow

LEMMA TickWorkFacts ==
    ASSUME NEW a \in AllAgents, NEW alarm \in BOOLEAN
    PROVE  /\ TickWork(a, alarm) \in WorkStates
           /\ TickWork(a, alarm).steps = TickProgram(a, alarm)
           /\ ~TickWork(a, alarm).linking /\ TickWork(a, alarm).caps = 0
           /\ TickWork(a, alarm).drivers = IF a = "architecture" THEN DriverNames ELSE {}
<1>1. TickProgram(a, alarm) \in Seq(AgentCalls)
    BY TickCallsCounted
<1> QED BY <1>1 DEF TickWork, Work, WorkStates

LEMMA TickBegins ==
    ASSUME AgentTypes, Accounts, TracesBounded, LinksFollow, NEW t \in AgentThreads,
           work[t] = NoWork, NEW a \in AllAgents, NEW alarm \in BOOLEAN,
           GoesOn(t, TickWork(a, alarm)),
           ticks' = [ticks EXCEPT ![a] = @ + 1],
           UNCHANGED <<kinds, linked, topics, tally>>, NothingToldMeanwhile
    PROVE  /\ work' \in [AgentThreads -> WorkStates] /\ ticks' \in [AllAgents -> Nat]
           /\ Accounts' /\ TracesBounded' /\ LinksFollow'
<1> DEFINE s == TickProgram(a, alarm)
<1>1. /\ work' \in [AgentThreads -> WorkStates] /\ LinksFollow'
      /\ \A x : Left(x) \in Nat /\ HowOften(s, x) \in Nat /\ Left(x)' = Left(x) + HowOften(s, x)
      /\ ToMap \in Nat /\ ToProvide \in Nat
      /\ ToMap' = ToMap + Cardinality(TickWork(a, alarm).drivers)
      /\ ToProvide' = ToProvide + Cardinality(Catalogue(TickWork(a, alarm).drivers))
    BY TickWorkFacts, WorkBegins
<1>2. TickCounts(s, a)
    BY TickCallsCounted
<1> HIDE DEF s
<1>3. /\ ticks' \in [AllAgents -> Nat]
      /\ \A b \in AllAgents : ticks'[b] = ticks[b] + Hit(a, b) /\ ticks[b] \in Nat
         /\ Hit(a, b) \in Nat
    BY DEF AgentTypes, Hit
<1>4. Artifacts' = Artifacts
    BY DEF Artifacts, NothingToldMeanwhile
<1>5. ASSUME NEW k \in ObjectKindsMade
      PROVE  NowOrLater(k)' = NowOrLater(k) + HowOften(s, Create(k)) /\ NowOrLater(k) \in Nat
    BY <1>1 DEF NowOrLater, AgentTypes
<1>6. ASSUME NEW n \in Counters
      PROVE  CountedOrLater(n)' = CountedOrLater(n) + HowOften(s, Counting(n))
           /\ CountedOrLater(n) \in Nat
    BY <1>1 DEF CountedOrLater, AgentTypes
<1>12. ASSUME NEW topic \in {"system.health", "system.alert"}
       PROVE  PublishedOrLater(topic)' = PublishedOrLater(topic) + HowOften(s, Publishing(topic))
            /\ PublishedOrLater(topic) \in Nat
    BY <1>1 DEF PublishedOrLater, AgentTypes
<1>7. /\ {"research", "architecture", "malware", "monitoring", "documentation", "forensics"} \subseteq AllAgents
      /\ {"research_capability_map", "research_note", "malware_capability_status", "malware_analysis",
          "health_snapshot", "documentation", "forensics_event_record"} \subseteq ObjectKindsMade
      /\ {"queries", "mapped", "analyses", "ticks", "alerts", "timelines", "events"} \subseteq Counters
    BY DEF AllAgents, ObjectKindsMade, Counters
<1>8. TicksLeaveObjects'
    <2>1. CountedOrLater("queries")' = ticks'["research"]
          /\ NowOrLater("research_capability_map")' = ticks'["research"]
        BY <1>2, <1>3, <1>5, <1>6, <1>7 DEF TickCounts, Accounts, TicksLeaveObjects
    <2>2. NowOrLater("malware_capability_status")' = ticks'["malware"]
        BY <1>2, <1>3, <1>5, <1>7 DEF TickCounts, Accounts, TicksLeaveObjects
    <2>3. CountedOrLater("ticks")' = ticks'["monitoring"]
          /\ NowOrLater("health_snapshot")' = ticks'["monitoring"]
        BY <1>2, <1>3, <1>5, <1>6, <1>7 DEF TickCounts, Accounts, TicksLeaveObjects
    <2>4. PublishedOrLater("system.health")' = ticks'["monitoring"]
        <3>1. HowOften(s, Publishing("system.health")) = Hit(a, "monitoring")
            BY <1>2 DEF TickCounts, Health
        <3> QED BY <1>3, <1>7, <1>12, <3>1 DEF Accounts, TicksLeaveObjects
    <2>5. PublishedOrLater("system.alert")' = CountedOrLater("alerts")'
        <3>1. HowOften(s, Publishing("system.alert")) = HowOften(s, Counting("alerts"))
            BY <1>2 DEF TickCounts, Alert
        <3> QED BY <1>6, <1>7, <1>12, <3>1 DEF Accounts, TicksLeaveObjects
    <2>6. NowOrLater("documentation")' = 3 * ticks'["documentation"]
        BY <1>2, <1>3, <1>5, <1>7 DEF TickCounts, Accounts, TicksLeaveObjects
    <2> QED BY <2>1, <2>2, <2>3, <2>4, <2>5, <2>6 DEF TicksLeaveObjects
<1>9. DriversAreMapped'
    <2> DEFINE n == ticks["architecture"]
               all == Cardinality(DriverNames)
               provided == Cardinality(Catalogue(DriverNames))
               made == kinds["architecture_component"]
               offered == kinds["architecture_capability"]
    <2>1. CountedOrLater("mapped")' = n'
        BY <1>2, <1>3, <1>6, <1>7 DEF TickCounts, Accounts, DriversAreMapped
    <2>2. all \in Nat /\ provided \in Nat /\ made \in Nat /\ offered \in Nat /\ n \in Nat
        BY CatalogueFacts, <1>3, <1>7 DEF AgentTypes, ObjectKindsMade
    <2>3. made + ToMap = n * all /\ offered + ToProvide = n * provided
        BY DEF Accounts, DriversAreMapped
    <2>4. made' = made /\ offered' = offered
        OBVIOUS
    <2>5. CASE a = "architecture"
        <3>1. ToMap' = ToMap + all /\ ToProvide' = ToProvide + provided /\ n' = n + 1
            BY <1>1, <1>3, <1>7, <2>5, TickWorkFacts DEF Hit
        <3> HIDE DEF n, all, provided, made, offered
        <3>2. (n + 1) * all = n * all + all /\ (n + 1) * provided = n * provided + provided
            BY <2>2
        <3>3. made' + ToMap' = n' * all /\ offered' + ToProvide' = n' * provided
            BY <1>1, <2>2, <2>3, <2>4, <3>1, <3>2
        <3> QED BY <2>1, <3>3 DEF DriversAreMapped, n, all, provided, made, offered
    <2>6. CASE a # "architecture"
        <3>1. TickWork(a, alarm).drivers = {} /\ Catalogue({}) = {}
            BY <2>6, TickWorkFacts DEF Catalogue
        <3>2. ToMap' = ToMap + 0 /\ ToProvide' = ToProvide + 0
            BY <1>1, <3>1, FS_EmptySet
        <3>3. n' = n
            BY <1>3, <1>7, <2>2, <2>6 DEF Hit
        <3> QED BY <1>1, <2>1, <2>3, <2>4, <3>2, <3>3 DEF DriversAreMapped
    <2> QED BY <2>5, <2>6
<1>10. EventsLeaveObjects'
    <2>1. /\ NowOrLater("malware_analysis")' = NowOrLater("malware_analysis")
          /\ NowOrLater("research_note")' = NowOrLater("research_note")
          /\ NowOrLater("forensics_event_record")' = NowOrLater("forensics_event_record")
          /\ CountedOrLater("events")' = CountedOrLater("events")
        BY <1>2, <1>5, <1>6, <1>7 DEF TickCounts
    <2>2. /\ CountedOrLater("analyses")' = CountedOrLater("analyses") + Hit(a, "malware")
          /\ ticks'["malware"] = ticks["malware"] + Hit(a, "malware") /\ ticks["malware"] \in Nat
          /\ Hit(a, "malware") \in Nat /\ CountedOrLater("analyses") \in Nat
        BY <1>2, <1>3, <1>6, <1>7 DEF TickCounts
    <2>3. Artifacts \in Nat /\ Untold("malware") \in Nat
        <3>1. Artifacts \in Nat
            BY HowOftenFacts DEF Artifacts, AgentTypes, IsSeq
        <3> QED BY <3>1 DEF Untold
    <2> QED BY <1>4, <2>1, <2>2, <2>3 DEF Accounts, EventsLeaveObjects, NothingToldMeanwhile
<1>11. TracesBounded'
    <2>1. /\ CountedOrLater("timelines")' = CountedOrLater("timelines") + Hit(a, "forensics")
          /\ CountedOrLater("timelines") \in Nat
        BY <1>2, <1>6, <1>7 DEF TickCounts
    <2>2. Left(TraceLinks)' = Left(TraceLinks) + Hit(a, "forensics") /\ Left(TraceLinks) \in Nat
        BY <1>1, <1>2 DEF TickCounts
    <2>3. TracesDone' = TracesDone
        BY <1>3, <1>7, <2>1, <2>2 DEF TracesDone
    <2> QED BY <2>3 DEF TracesBounded
<1> QED BY <1>1, <1>3, <1>8, <1>9, <1>10, <1>11 DEF Accounts

(* What the loop is at: agents that are registered, and an event it took.  *)
LoopHolds ==
    /\ loop.agents \subseteq registered
    /\ loop.job = "idle" => loop.agents = {}
    /\ loop.job = "dispatch" => dispatched # <<>>

LEMMA EventBegins ==
    ASSUME AgentTypes, LoopHolds, Accounts, TracesBounded, LinksFollow,
           work["loop"] = NoWork, loop.job = "dispatch", NEW a \in loop.agents,
           GoesOn("loop", Calls(EventProgram(a, Last(dispatched)))),
           loop' = Loop("dispatch", loop.agents \ {a}),
           UNCHANGED <<registered, kinds, linked, topics, tally, dispatched, ticks>>
    PROVE  /\ work' \in [AgentThreads -> WorkStates]
           /\ Accounts' /\ TracesBounded' /\ LinksFollow'
<1> DEFINE last == Last(dispatched)
           s == EventProgram(a, last)
           w == Calls(s)
<1>1. a \in AllAgents /\ a \in registered
    BY DEF LoopHolds, AgentTypes
<1>2. last \in BOOLEAN
    <2>1. dispatched \in Seq(BOOLEAN) /\ dispatched # <<>>
        BY DEF LoopHolds, AgentTypes
    <2> QED BY <2>1 DEF Last
<1>3. EventCounts(s, a, last) /\ s \in Seq(AgentCalls)
    BY <1>1, <1>2, EventCallsCounted
<1> HIDE DEF s
<1>4. w \in WorkStates /\ w.steps = s /\ ~w.linking /\ w.caps = 0 /\ w.drivers = {}
    BY <1>3 DEF Calls, Work, WorkStates
<1>5. GoesOn("loop", w) /\ "loop" \in AgentThreads
    BY DEF s, AgentThreads
<1> HIDE DEF w, last
<1>6. /\ work' \in [AgentThreads -> WorkStates] /\ LinksFollow'
      /\ \A x : Left(x) \in Nat /\ HowOften(w.steps, x) \in Nat
         /\ Left(x)' = Left(x) + HowOften(w.steps, x)
      /\ ToMap \in Nat /\ ToProvide \in Nat
      /\ ToMap' = ToMap + Cardinality(w.drivers)
      /\ ToProvide' = ToProvide + Cardinality(Catalogue(w.drivers))
    BY <1>4, <1>5, WorkBegins
<1>7. \A x : Left(x) \in Nat /\ HowOften(s, x) \in Nat /\ Left(x)' = Left(x) + HowOften(s, x)
    BY <1>4, <1>6
<1>8. ToMap' = ToMap /\ ToProvide' = ToProvide
    <2>1. Cardinality({}) = 0 /\ Cardinality(Catalogue({})) = 0
        <3>1. Catalogue({}) = {}
            BY DEF Catalogue
        <3> QED BY <3>1, FS_EmptySet
    <2> QED BY <1>4, <1>6, <2>1
<1>9. ASSUME NEW k \in ObjectKindsMade
      PROVE  NowOrLater(k)' = NowOrLater(k) + HowOften(s, Create(k)) /\ NowOrLater(k) \in Nat
    BY <1>7 DEF NowOrLater, AgentTypes
<1>10. ASSUME NEW n \in Counters
       PROVE  CountedOrLater(n)' = CountedOrLater(n) + HowOften(s, Counting(n))
            /\ CountedOrLater(n) \in Nat
    BY <1>7 DEF CountedOrLater, AgentTypes
<1>11. /\ {"research_capability_map", "research_note", "malware_capability_status", "malware_analysis",
           "health_snapshot", "documentation", "forensics_event_record"} \subseteq ObjectKindsMade
       /\ {"queries", "mapped", "analyses", "ticks", "alerts", "timelines", "events"} \subseteq Counters
    BY DEF ObjectKindsMade, Counters
<1>12. Artifacts' = Artifacts /\ Artifacts \in Nat
    <2>1. Artifacts \in Nat
        BY HowOftenFacts DEF Artifacts, AgentTypes, IsSeq
    <2> QED BY <2>1 DEF Artifacts
<1>13. TicksLeaveObjects'
    <2>1. /\ CountedOrLater("queries")' = CountedOrLater("queries")
          /\ NowOrLater("research_capability_map")' = NowOrLater("research_capability_map")
          /\ NowOrLater("malware_capability_status")' = NowOrLater("malware_capability_status")
        BY <1>3, <1>9, <1>10, <1>11 DEF EventCounts
    <2>2. /\ CountedOrLater("ticks")' = CountedOrLater("ticks")
          /\ NowOrLater("health_snapshot")' = NowOrLater("health_snapshot")
          /\ NowOrLater("documentation")' = NowOrLater("documentation")
          /\ CountedOrLater("alerts")' = CountedOrLater("alerts")
        BY <1>3, <1>9, <1>10, <1>11 DEF EventCounts
    <2>3. /\ PublishedOrLater("system.health")' = PublishedOrLater("system.health")
          /\ PublishedOrLater("system.alert")' = PublishedOrLater("system.alert")
        <3>1. Left(Health)' = Left(Health) /\ Left(Alert)' = Left(Alert)
            BY <1>3, <1>7 DEF EventCounts
        <3> QED BY <3>1 DEF Health, Alert, PublishedOrLater
    <2> QED BY <2>1, <2>2, <2>3 DEF Accounts, TicksLeaveObjects
<1>14. DriversAreMapped'
    <2>1. CountedOrLater("mapped")' = CountedOrLater("mapped")
        BY <1>3, <1>10, <1>11 DEF EventCounts
    <2> QED BY <1>8, <2>1 DEF Accounts, DriversAreMapped
<1>15. EventsLeaveObjects'
    <2> DEFINE told(b) == IF a = b /\ last THEN 1 ELSE 0
    <2>1. /\ loop'.job = "dispatch" /\ loop'.agents = loop.agents \ {a}
          /\ \A b : ToTell(b)' <=> b \in loop.agents /\ b # a
          /\ \A b : ToTell(b) <=> b \in loop.agents
        BY DEF Loop, ToTell
    <2>2. ASSUME NEW b
          PROVE  /\ Untold(b) = Untold(b)' + told(b) /\ Untold(b)' \in Nat
                 /\ Unrecorded(b) = Unrecorded(b)' + Hit(a, b) /\ Unrecorded(b)' \in Nat
        <3>1. Len(dispatched) \in Nat
            BY LenProperties DEF AgentTypes
        <3>2. CASE b = a
            BY <1>1, <1>12, <2>1, <3>1, <3>2 DEF Untold, Unrecorded, Hit, last
        <3>3. CASE b # a
            <4>1. told(b) = 0 /\ Hit(a, b) = 0 /\ (ToTell(b)' <=> ToTell(b))
                BY <2>1, <3>3 DEF Hit
            <4>2. Untold(b)' = Untold(b) /\ Untold(b) \in Nat
                BY <1>12, <4>1 DEF Untold
            <4>3. Unrecorded(b)' = Unrecorded(b) /\ Unrecorded(b) \in Nat
                BY <3>1, <4>1 DEF Unrecorded
            <4> QED BY <4>1, <4>2, <4>3
        <3> QED BY <3>2, <3>3
    <2>3. /\ NowOrLater("malware_analysis")' = NowOrLater("malware_analysis") + told("malware")
          /\ CountedOrLater("analyses")' = CountedOrLater("analyses") + told("malware")
          /\ NowOrLater("research_note")' = NowOrLater("research_note") + told("research")
          /\ NowOrLater("malware_analysis") \in Nat /\ CountedOrLater("analyses") \in Nat
          /\ NowOrLater("research_note") \in Nat
        BY <1>3, <1>9, <1>10, <1>11 DEF EventCounts
    <2>4. /\ NowOrLater("forensics_event_record")'
             = NowOrLater("forensics_event_record") + Hit(a, "forensics")
          /\ CountedOrLater("events")' = CountedOrLater("events") + Hit(a, "forensics")
          /\ NowOrLater("forensics_event_record") \in Nat /\ CountedOrLater("events") \in Nat
        BY <1>3, <1>9, <1>10, <1>11 DEF EventCounts
    <2>5. /\ Untold("malware") = Untold("malware")' + told("malware") /\ Untold("malware")' \in Nat
          /\ Untold("research") = Untold("research")' + told("research")
             /\ Untold("research")' \in Nat
          /\ Unrecorded("forensics") = Unrecorded("forensics")' + Hit(a, "forensics")
          /\ Unrecorded("forensics")' \in Nat
        BY <2>2
    <2>6. told("malware") \in Nat /\ told("research") \in Nat /\ Hit(a, "forensics") \in Nat
          /\ ticks["malware"] \in Nat
        BY DEF Hit, AgentTypes, AllAgents
    <2> HIDE DEF told
    <2>7. /\ NowOrLater("malware_analysis") + Untold("malware") = Artifacts
          /\ NowOrLater("research_note") + Untold("research") = Artifacts
          /\ CountedOrLater("analyses") = ticks["malware"] + Artifacts - Untold("malware")
        BY DEF Accounts, EventsLeaveObjects
    <2>8. /\ NowOrLater("malware_analysis")' + Untold("malware")' = Artifacts
          /\ NowOrLater("research_note")' + Untold("research")' = Artifacts
          /\ CountedOrLater("analyses")' = ticks["malware"] + Artifacts - Untold("malware")'
        <3>1. \A m, n, u, k \in Nat : m + (u + n) = k => (m + n) + u = k
            OBVIOUS
        <3>2. \A m, n, u, k, j \in Nat : m = j + k - (u + n) => m + n = j + k - u
            OBVIOUS
        <3> QED BY <1>12, <2>3, <2>5, <2>6, <2>7, <3>1, <3>2
    <2>9. /\ NowOrLater("forensics_event_record")' + Unrecorded("forensics")' = Len(dispatched)
          /\ CountedOrLater("events")' = NowOrLater("forensics_event_record")'
        BY <2>4, <2>5, <2>6 DEF Accounts, EventsLeaveObjects
    <2> QED BY <1>12, <2>8, <2>9 DEF EventsLeaveObjects
<1>16. TracesBounded'
    <2>1. CountedOrLater("timelines")' = CountedOrLater("timelines")
        BY <1>3, <1>10, <1>11 DEF EventCounts
    <2>2. Left(TraceLinks)' = Left(TraceLinks)
        BY <1>3, <1>7 DEF EventCounts
    <2> QED BY <2>1, <2>2 DEF TracesBounded, TracesDone
<1> QED BY <1>6, <1>13, <1>14, <1>15, <1>16 DEF Accounts

LEMMA AccountTypes ==
    ASSUME AgentTypes
    PROVE  /\ \A x : Left(x) \in Nat
           /\ FirstLinks \in Nat
           /\ \A k \in ObjectKindsMade : kinds[k] \in Nat /\ NowOrLater(k) \in Nat
           /\ \A n \in Counters : CountedOrLater(n) \in Nat
<1>1. work["loop"] \in WorkStates /\ work["caller"] \in WorkStates
    BY DEF AgentTypes, AgentThreads
<1>2. ASSUME NEW x PROVE Left(x) \in Nat
    <2>1. HowOften(work["loop"].steps, x) \in Nat /\ HowOften(work["caller"].steps, x) \in Nat
        BY <1>1, WorkStateFacts
    <2> QED BY <2>1 DEF Left
<1>3. FirstLinks \in Nat
    <2>1. FirstLink(work["loop"]) \in Nat /\ FirstLink(work["caller"]) \in Nat
        BY <1>1, WorkStateFacts
    <2> QED BY <2>1 DEF FirstLinks
<1>4. \A k \in ObjectKindsMade : kinds[k] \in Nat
    BY DEF AgentTypes
<1>5. \A k \in ObjectKindsMade : NowOrLater(k) \in Nat
    BY <1>2, <1>4 DEF NowOrLater
<1>6. \A n \in Counters : CountedOrLater(n) \in Nat
    <2>1. \A n \in Counters : tally[n] \in Nat
        BY DEF AgentTypes
    <2> QED BY <1>2, <2>1 DEF CountedOrLater
<1> QED BY <1>2, <1>3, <1>4, <1>5, <1>6

LEMMA DispatchTells ==
    ASSUME AgentTypes, LoopHolds, Accounts, LoopDispatch, UNCHANGED registered
    PROVE  dispatched' \in Seq(BOOLEAN) /\ appended' \in Seq(BOOLEAN) /\ LoopHolds' /\ Accounts'
<1> DEFINE e == Head(appended)
           met == Hit(e, TRUE)
<1>1. /\ loop.job = "idle" /\ loop'.job = "dispatch" /\ loop'.agents = registered
      /\ dispatched' = Append(dispatched, e) /\ appended' = Tail(appended)
      /\ UNCHANGED <<kinds, linked, topics, tally, work, ticks>>
    BY MadeKept DEF LoopDispatch, Idling, Loop
<1>2. e \in BOOLEAN /\ appended' \in Seq(BOOLEAN)
    BY <1>1 DEF LoopDispatch, AgentTypes
<1>3. /\ HowOften(dispatched', TRUE) = HowOften(dispatched, TRUE) + met
      /\ dispatched' \in Seq(BOOLEAN) /\ HowOften(dispatched, TRUE) \in Nat
    <2> DEFINE S == BOOLEAN
               x == TRUE
    <2>1. dispatched \in Seq(S) /\ e \in S /\ dispatched' = Append(dispatched, e) /\ met = Hit(e, x)
        BY <1>1, <1>2 DEF AgentTypes
    <2> HIDE DEF S, x, e, met
    <2>2. /\ Append(dispatched, e) \in Seq(S) /\ HowOften(dispatched, x) \in Nat
          /\ HowOften(Append(dispatched, e), x) = HowOften(dispatched, x) + Hit(e, x)
        BY <2>1, HowOftenAppended
    <2>3. HowOften(dispatched', x) = HowOften(dispatched, x) + met /\ dispatched' \in Seq(S)
        BY <2>1, <2>2
    <2> QED BY <2>2, <2>3 DEF S, x
<1>4. Artifacts' = Artifacts + met /\ Artifacts \in Nat /\ met \in Nat
    BY <1>3 DEF Artifacts, Hit
<1>5. /\ Len(dispatched') = Len(dispatched) + 1 /\ Len(dispatched) \in Nat
      /\ Last(dispatched') = e /\ dispatched' # <<>>
    BY <1>1, <1>2, AppendProperties, LenProperties, EmptySeq DEF AgentTypes, Last
<1>6. met = IF e THEN 1 ELSE 0
    BY <1>2 DEF Hit
<1> HIDE DEF e, met
<1>7. ASSUME NEW a
      PROVE  /\ Untold(a)' = Untold(a) + met /\ Untold(a) \in Nat
             /\ Unrecorded(a)' = Unrecorded(a) + 1 /\ Unrecorded(a) \in Nat
    <2>1. ~ ToTell(a) /\ (ToTell(a)' <=> a \in registered)
        BY <1>1 DEF ToTell
    <2>2. CASE a \notin registered
        BY <1>4, <1>5, <2>2 DEF Untold, Unrecorded
    <2>3. CASE a \in registered
        <3>1. Untold(a) = 0 /\ Unrecorded(a) = 0 /\ Unrecorded(a)' = 1
            BY <2>1, <2>3 DEF Untold, Unrecorded
        <3>2. Untold(a)' = met
            BY <1>5, <1>6, <2>1, <2>3 DEF Untold
        <3> QED BY <1>4, <3>1, <3>2
    <2> QED BY <2>2, <2>3
<1>8. TicksLeaveObjects' /\ DriversAreMapped'
    <2>1. \A x : Left(x)' = Left(x)
        BY <1>1 DEF Left
    <2>2. /\ \A k : NowOrLater(k)' = NowOrLater(k)
          /\ \A n : CountedOrLater(n)' = CountedOrLater(n)
          /\ \A p : PublishedOrLater(p)' = PublishedOrLater(p)
        BY <1>1, <2>1 DEF NowOrLater, CountedOrLater, PublishedOrLater
    <2>3. ToMap' = ToMap /\ ToProvide' = ToProvide
        BY <1>1 DEF ToMap, ToProvide
    <2> QED BY <1>1, <2>1, <2>2, <2>3 DEF Accounts, TicksLeaveObjects, DriversAreMapped
<1>9. EventsLeaveObjects'
    <2>1. /\ NowOrLater("malware_analysis")' = NowOrLater("malware_analysis")
          /\ NowOrLater("research_note")' = NowOrLater("research_note")
          /\ NowOrLater("forensics_event_record")' = NowOrLater("forensics_event_record")
          /\ CountedOrLater("analyses")' = CountedOrLater("analyses")
          /\ CountedOrLater("events")' = CountedOrLater("events")
        BY <1>1 DEF NowOrLater, CountedOrLater, Left
    <2>2. /\ NowOrLater("malware_analysis") \in Nat /\ NowOrLater("research_note") \in Nat
          /\ NowOrLater("forensics_event_record") \in Nat /\ ticks["malware"] \in Nat
        <3>1. ticks["malware"] \in Nat
            BY DEF AgentTypes, AllAgents
        <3> QED BY <3>1, AccountTypes DEF ObjectKindsMade
    <2>3. /\ NowOrLater("malware_analysis") + Untold("malware") = Artifacts
          /\ NowOrLater("research_note") + Untold("research") = Artifacts
          /\ CountedOrLater("analyses") = ticks["malware"] + Artifacts - Untold("malware")
          /\ NowOrLater("forensics_event_record") + Unrecorded("forensics") = Len(dispatched)
          /\ CountedOrLater("events") = NowOrLater("forensics_event_record")
        BY DEF Accounts, EventsLeaveObjects
    <2>4. /\ Untold("malware")' = Untold("malware") + met /\ Untold("malware") \in Nat
          /\ Untold("research")' = Untold("research") + met /\ Untold("research") \in Nat
          /\ Unrecorded("forensics")' = Unrecorded("forensics") + 1
             /\ Unrecorded("forensics") \in Nat
        BY <1>7
    <2>5. /\ NowOrLater("malware_analysis") + Untold("malware")' = Artifacts'
          /\ NowOrLater("research_note") + Untold("research")' = Artifacts'
          /\ CountedOrLater("analyses") = ticks["malware"] + Artifacts' - Untold("malware")'
        <3>1. \A m, n, u \in Nat : m + (u + n) = (m + u) + n
            OBVIOUS
        <3>2. \A k, n, u, j \in Nat : j + (k + n) - (u + n) = j + k - u
            OBVIOUS
        <3>3. /\ NowOrLater("malware_analysis") + (Untold("malware") + met) = Artifacts + met
              /\ NowOrLater("research_note") + (Untold("research") + met) = Artifacts + met
            <4>1. NowOrLater("malware_analysis") + (Untold("malware") + met)
                     = (NowOrLater("malware_analysis") + Untold("malware")) + met
                BY <1>4, <2>2, <2>4, <3>1
            <4>2. NowOrLater("research_note") + (Untold("research") + met)
                     = (NowOrLater("research_note") + Untold("research")) + met
                BY <1>4, <2>2, <2>4, <3>1
            <4> QED BY <2>3, <4>1, <4>2
        <3>4. ticks["malware"] + (Artifacts + met) - (Untold("malware") + met)
                 = ticks["malware"] + Artifacts - Untold("malware")
            BY <1>4, <2>2, <2>4, <3>2
        <3> QED BY <1>4, <2>3, <2>4, <3>3, <3>4
    <2>6. NowOrLater("forensics_event_record") + Unrecorded("forensics")' = Len(dispatched')
        BY <1>5, <2>2, <2>3, <2>4
    <2>7. ticks' = ticks
        BY <1>1
    <2> QED BY <2>1, <2>3, <2>5, <2>6, <2>7 DEF EventsLeaveObjects
<1>10. LoopHolds'
    BY <1>1, <1>5 DEF LoopHolds
<1> QED BY <1>2, <1>3, <1>8, <1>9, <1>10 DEF Accounts

LEMMA LoopOnly ==
    ASSUME AgentTypes, Accounts, TracesBounded, LinksFollow, NothingToldMeanwhile,
           UNCHANGED <<kinds, linked, topics, tally, work, ticks>>,
           present' \in [ObjectKindsMade -> Nat], absent' \in [ObjectKindsMade -> Nat]
    PROVE  Accounts' /\ TracesBounded' /\ LinksFollow'
<1>1. \A x : Left(x)' = Left(x)
    BY DEF Left
<1>2. /\ \A k : NowOrLater(k)' = NowOrLater(k)
      /\ \A n : CountedOrLater(n)' = CountedOrLater(n)
      /\ \A p : PublishedOrLater(p)' = PublishedOrLater(p)
    BY <1>1 DEF NowOrLater, CountedOrLater, PublishedOrLater
<1>3. ToMap' = ToMap /\ ToProvide' = ToProvide /\ FirstLinks' = FirstLinks
    BY DEF ToMap, ToProvide, FirstLinks
<1>4. SameAccounts /\ StoresTyped'
    BY <1>1, <1>2, <1>3 DEF SameAccounts, StoresTyped, AgentTypes
<1>5. Accounts'
    BY <1>4, SameAccountsHold
<1>6. TracesBounded' /\ LinksFollow'
    BY <1>1, <1>2, <1>3 DEF TracesBounded, TracesDone, LinksFollow
<1> QED BY <1>5, <1>6

AgentsInv == AgentTypes /\ LoopHolds /\ Accounts /\ TracesBounded /\ LinksFollow

LEMMA AgentsInductive == AgentsInv /\ [AgentsNext]_agentVars => AgentsInv'
<1> SUFFICES ASSUME AgentsInv, [AgentsNext]_agentVars PROVE AgentsInv'
    OBVIOUS
<1> USE DEF AgentsInv
<1>0. \A agents \in SUBSET AllAgents : \A job \in {"idle", "tick", "dispatch"} :
         /\ Loop(job, agents) \in [job : {"idle", "tick", "dispatch"}, agents : SUBSET AllAgents]
         /\ Loop(job, agents).job = job /\ Loop(job, agents).agents = agents
    BY DEF Loop
<1>1. CASE UNCHANGED agentVars
    <2>1. NothingToldMeanwhile
        BY <1>1 DEF NothingToldMeanwhile, agentVars, Untold, Unrecorded, ToTell, Artifacts
    <2>2. Accounts' /\ TracesBounded' /\ LinksFollow'
        BY <1>1, <2>1, MadeKept, LoopOnly DEF agentVars, AgentTypes
    <2> QED BY <1>1, <2>2, MadeKept DEF agentVars, AgentTypes, LoopHolds
<1>2. ASSUME UNCHANGED <<registered, dispatched, loop>> PROVE NothingToldMeanwhile
    BY <1>2 DEF NothingToldMeanwhile, Untold, Unrecorded, ToTell, Artifacts
<1>3. ASSUME UNCHANGED <<registered, dispatched>>, \A a : ~ ToTell(a), \A a : ~ ToTell(a)'
      PROVE  NothingToldMeanwhile
    BY <1>3 DEF NothingToldMeanwhile, Untold, Unrecorded, Artifacts
<1>4. CASE UNCHANGED registered /\ LoopTick
    <2>1. /\ loop.job = "idle" /\ loop'.job = "tick" /\ loop'.agents = registered
          /\ loop' \in [job : {"idle", "tick", "dispatch"}, agents : SUBSET AllAgents]
          /\ UNCHANGED <<kinds, present, absent, linked, topics, tally, appended, dispatched, work, ticks>>
        BY <1>0, <1>4, MadeKept DEF LoopTick, Idling, Loop, AgentTypes
    <2>2. NothingToldMeanwhile
        BY <1>3, <1>4, <2>1 DEF ToTell
    <2>3. Accounts' /\ TracesBounded' /\ LinksFollow'
        BY <2>1, <2>2, LoopOnly DEF AgentTypes
    <2>4. LoopHolds'
        BY <1>4, <2>1 DEF LoopHolds
    <2> QED BY <1>4, <2>1, <2>3, <2>4 DEF AgentTypes
<1>5. CASE UNCHANGED registered /\ LoopDone
    <2>1. /\ loop.agents = {} /\ loop'.job = "idle" /\ loop'.agents = {}
          /\ loop' \in [job : {"idle", "tick", "dispatch"}, agents : SUBSET AllAgents]
          /\ UNCHANGED <<kinds, present, absent, linked, topics, tally, appended, dispatched, work, ticks>>
        BY <1>0, <1>5, MadeKept DEF LoopDone, Idling, Loop
    <2>2. NothingToldMeanwhile
        BY <1>3, <1>5, <2>1 DEF ToTell
    <2>3. Accounts' /\ TracesBounded' /\ LinksFollow'
        BY <2>1, <2>2, LoopOnly DEF AgentTypes
    <2>4. LoopHolds'
        BY <1>5, <2>1 DEF LoopHolds
    <2> QED BY <1>5, <2>1, <2>3, <2>4 DEF AgentTypes
<1>6. CASE UNCHANGED registered /\ LoopDispatch
    <2>1. dispatched' \in Seq(BOOLEAN) /\ appended' \in Seq(BOOLEAN) /\ LoopHolds' /\ Accounts'
        BY <1>6, DispatchTells
    <2>2. loop' \in [job : {"idle", "tick", "dispatch"}, agents : SUBSET AllAgents]
        BY <1>0, <1>6 DEF LoopDispatch, AgentTypes
    <2>3. UNCHANGED <<kinds, present, absent, linked, topics, tally, work, ticks>>
        BY <1>6, MadeKept DEF LoopDispatch
    <2>4. TracesBounded' /\ LinksFollow'
        BY <2>3 DEF TracesBounded, TracesDone, CountedOrLater, Left, LinksFollow, FirstLinks
    <2> QED BY <1>6, <2>1, <2>2, <2>3, <2>4 DEF AgentTypes
<1>7. CASE UNCHANGED registered /\ LoopAgent
    <2>1. PICK a \in loop.agents, alarm \in BOOLEAN :
             /\ loop' = Loop(loop.job, loop.agents \ {a})
             /\ GoesOn("loop", IF loop.job = "tick" THEN TickWork(a, alarm)
                               ELSE Calls(EventProgram(a, Last(dispatched))))
             /\ ticks' = IF loop.job = "tick" THEN [ticks EXCEPT ![a] = @ + 1] ELSE ticks
        BY <1>7 DEF LoopAgent
    <2>2. /\ work["loop"] = NoWork /\ loop.job # "idle" /\ "loop" \in AgentThreads
          /\ UNCHANGED <<kinds, present, absent, linked, topics, tally, appended, dispatched>>
        BY <1>7, MadeKept DEF LoopAgent, AgentThreads
    <2>3. a \in AllAgents /\ loop.job \in {"tick", "dispatch"} /\ loop.agents \in SUBSET AllAgents
        BY <2>2 DEF AgentTypes
    <2>4. /\ loop' \in [job : {"idle", "tick", "dispatch"}, agents : SUBSET AllAgents]
          /\ loop'.job = loop.job /\ loop'.agents = loop.agents \ {a}
        BY <1>0, <2>1, <2>3
    <2>5. LoopHolds'
        BY <1>7, <2>2, <2>3, <2>4 DEF LoopHolds
    <2>6. CASE loop.job = "tick"
        <3>1. NothingToldMeanwhile
            BY <1>3, <1>7, <2>2, <2>4, <2>6 DEF ToTell
        <3>2. /\ work' \in [AgentThreads -> WorkStates] /\ ticks' \in [AllAgents -> Nat]
              /\ Accounts' /\ TracesBounded' /\ LinksFollow'
            BY <2>1, <2>2, <2>3, <2>6, <3>1, TickBegins
        <3> QED BY <1>7, <2>2, <2>4, <2>5, <3>2 DEF AgentTypes
    <2>7. CASE loop.job = "dispatch"
        <3>1. /\ work' \in [AgentThreads -> WorkStates]
              /\ Accounts' /\ TracesBounded' /\ LinksFollow'
            BY <1>7, <2>1, <2>2, <2>7, EventBegins
        <3>2. ticks' = ticks
            BY <2>1, <2>7
        <3> QED BY <1>7, <2>2, <2>4, <2>5, <3>1, <3>2 DEF AgentTypes
    <2> QED BY <2>3, <2>6, <2>7
<1>8. CASE UNCHANGED registered /\ TickAgent
    <2>1. PICK a \in registered, alarm \in BOOLEAN :
             GoesOn("caller", TickWork(a, alarm)) /\ ticks' = [ticks EXCEPT ![a] = @ + 1]
        BY <1>8 DEF TickAgent
    <2>2. /\ work["caller"] = NoWork /\ "caller" \in AgentThreads /\ a \in AllAgents
          /\ UNCHANGED <<kinds, present, absent, linked, topics, tally, appended, dispatched, loop>>
        BY <1>8, MadeKept DEF TickAgent, AgentThreads, AgentTypes
    <2>3. NothingToldMeanwhile
        BY <1>2, <1>8, <2>2
    <2>4. /\ work' \in [AgentThreads -> WorkStates] /\ ticks' \in [AllAgents -> Nat]
          /\ Accounts' /\ TracesBounded' /\ LinksFollow'
        BY <2>1, <2>2, <2>3, TickBegins
    <2> QED BY <1>8, <2>2, <2>4 DEF AgentTypes, LoopHolds
<1>9. CASE UNCHANGED registered /\ EventAppended
    <2>1. PICK artifact \in BOOLEAN : appended' = Append(appended, artifact)
        BY <1>9 DEF EventAppended
    <2>2. UNCHANGED <<kinds, present, absent, linked, topics, tally, dispatched, loop, work, ticks>>
        BY <1>9, MadeKept DEF EventAppended
    <2>3. NothingToldMeanwhile
        BY <1>2, <1>9, <2>2
    <2>4. Accounts' /\ TracesBounded' /\ LinksFollow'
        BY <2>2, <2>3, LoopOnly DEF AgentTypes
    <2>5. appended' \in Seq(BOOLEAN)
        BY <2>1 DEF AgentTypes
    <2> QED BY <1>9, <2>2, <2>4, <2>5 DEF AgentTypes, LoopHolds
<1>10. ASSUME NEW t \in AgentThreads, UNCHANGED registered, ThreadStep(t) PROVE AgentsInv'
    <2>1. UNCHANGED <<appended, dispatched, loop, ticks>>
        BY <1>10 DEF ThreadStep
    <2>2. NothingToldMeanwhile
        BY <1>2, <1>10, <2>1
    <2>3. /\ SameAccounts /\ StoresTyped' /\ work' \in [AgentThreads -> WorkStates]
          /\ TracesBounded' /\ LinksFollow'
        BY <1>10, CallKeepsAccounts, MappingKeepsAccounts DEF ThreadStep
    <2>4. Accounts'
        BY <2>1, <2>2, <2>3, SameAccountsHold
    <2> QED BY <1>10, <2>1, <2>3, <2>4 DEF AgentTypes, LoopHolds, StoresTyped
<1>11. CASE UNCHANGED registered /\ DeleteMade
    <2>1. PICK k \in ObjectKindsMade : /\ present[k] > 0
                                       /\ present' = [present EXCEPT ![k] = present[k] - 1]
                                       /\ absent' = [absent EXCEPT ![k] = absent[k] + 1]
        BY <1>11 DEF DeleteMade
    <2>2. UNCHANGED <<linked, topics, tally, appended, dispatched, loop, work, ticks>>
        BY <1>11 DEF DeleteMade
    <2>3. present \in [ObjectKindsMade -> Nat] /\ absent \in [ObjectKindsMade -> Nat]
        BY DEF AgentTypes
    <2>4. present' \in [ObjectKindsMade -> Nat] /\ absent' \in [ObjectKindsMade -> Nat]
        BY <2>1, <2>3
    <2>5. \A l \in ObjectKindsMade : present'[l] + absent'[l] = present[l] + absent[l]
        BY <2>1, <2>3
    <2>6. kinds' = kinds
        BY <2>5 DEF kinds
    <2>7. NothingToldMeanwhile
        BY <1>2, <1>11, <2>2
    <2>8. Accounts' /\ TracesBounded' /\ LinksFollow'
        BY <2>2, <2>4, <2>6, <2>7, LoopOnly
    <2> QED BY <1>11, <2>2, <2>4, <2>6, <2>8 DEF AgentTypes, LoopHolds
<1> QED BY <1>1, <1>4, <1>5, <1>6, <1>7, <1>8, <1>9, <1>10, <1>11 DEF AgentsNext

LEMMA NoneMade == AgentsInit => kinds = [k \in ObjectKindsMade |-> 0]
<1> SUFFICES ASSUME AgentsInit PROVE kinds = [k \in ObjectKindsMade |-> 0]
    OBVIOUS
<1>1. \A k \in ObjectKindsMade : present[k] + absent[k] = 0
    BY DEF AgentsInit
<1> QED BY <1>1 DEF kinds

LEMMA AgentsStart == AgentsInit => AgentsInv
<1> SUFFICES ASSUME AgentsInit PROVE AgentsInv
    OBVIOUS
<1>1. NoWork \in WorkStates
    BY NoWorkFacts
<1>2. /\ work = [t \in AgentThreads |-> NoWork] /\ loop.job = "idle" /\ loop.agents = {}
      /\ loop \in [job : {"idle", "tick", "dispatch"}, agents : SUBSET AllAgents]
    BY DEF AgentsInit, Idling, Loop
<1>3. AgentTypes
    <2>1. registered \in SUBSET AllAgents
        BY AgentsAssumption DEF AgentsInit
    <2>2. appended \in Seq(BOOLEAN) /\ dispatched \in Seq(BOOLEAN)
        BY EmptySeq DEF AgentsInit
    <2>3. kinds = [k \in ObjectKindsMade |-> 0]
        BY NoneMade
    <2> QED BY <1>1, <1>2, <2>1, <2>2, <2>3 DEF AgentsInit, AgentTypes
<1>4. work["loop"] = NoWork /\ work["caller"] = NoWork
    BY <1>2 DEF AgentThreads
<1>5. \A x : HowOften(<<>>, x) = 0
    <2>1. IsSeq(<<>>)
        BY EmptySeq DEF IsSeq
    <2> QED BY <2>1, HowOftenFacts
<1>6. \A x : Left(x) = 0
    BY <1>4, NoWorkFacts DEF Left
<1>7. ToMap = 0 /\ ToProvide = 0 /\ FirstLinks = 0
    BY <1>4, NoWorkFacts DEF ToMap, ToProvide, FirstLinks
<1>8. /\ \A k \in ObjectKindsMade : NowOrLater(k) = 0
      /\ \A n \in Counters : CountedOrLater(n) = 0
      /\ \A p \in {"system.health", "system.alert"} : PublishedOrLater(p) = 0
    BY <1>6, NoneMade DEF NowOrLater, CountedOrLater, PublishedOrLater, AgentsInit
<1>9. Artifacts = 0 /\ Len(dispatched) = 0 /\ \A a : ~ ToTell(a)
    BY <1>2, <1>5 DEF Artifacts, AgentsInit, ToTell
<1>10. \A a : Untold(a) = 0 /\ Unrecorded(a) = 0
    BY <1>9 DEF Untold, Unrecorded
<1>11. \A a \in AllAgents : ticks[a] = 0
    BY DEF AgentsInit
<1>12. TicksLeaveObjects
    BY <1>6, <1>8, <1>11 DEF TicksLeaveObjects, AllAgents, ObjectKindsMade, Counters, AgentsInit
<1>13. DriversAreMapped
    <2>1. Cardinality(DriverNames) \in Nat /\ Cardinality(Catalogue(DriverNames)) \in Nat
        BY CatalogueFacts
    <2> QED BY <1>7, <1>8, <1>11, <2>1, NoneMade DEF DriversAreMapped, AllAgents, ObjectKindsMade, Counters, AgentsInit
<1>14. EventsLeaveObjects
    BY <1>8, <1>9, <1>10, <1>11 DEF EventsLeaveObjects, AllAgents, ObjectKindsMade, Counters
<1>15. LinksFollow /\ TracesBounded
    BY <1>6, <1>7, <1>8, NoneMade DEF LinksFollow, TracesBounded, TracesDone, ObjectKindsMade, Counters, AgentsInit
<1>16. LoopHolds
    BY <1>2 DEF LoopHolds
<1> QED BY <1>3, <1>12, <1>13, <1>14, <1>15, <1>16 DEF AgentsInv, Accounts

(* However the loop's ticks, the events it dispatches, the ticks of the    *)
(* callers, failing INSERTs and the deletions of clients interleave, an    *)
(* agent's counter and messages are those of its ticks, and its objects in *)
(* the store are those its calls made less the ones missing.  Each tick    *)
(* maps every driver and capability once, and there are no more components *)
(* with a link than capabilities, nor traces than ticks of the forensics   *)
(* agent times components with a link (agents/src/lib.rs).                 *)
THEOREM AgentsDoAccount == AgentsSpec => []AgentsAccountForObjects
<1>1. AgentsInv => AgentsAccountForObjects
    <2> SUFFICES ASSUME AgentsInv PROVE AgentsAccountForObjects
        OBVIOUS
    <2>1. linked <= kinds["architecture_capability"]
        <3>1. FirstLinks \in Nat /\ linked \in Nat /\ kinds["architecture_capability"] \in Nat
            BY AccountTypes DEF AgentsInv, AgentTypes, ObjectKindsMade
        <3> QED BY <3>1 DEF AgentsInv, LinksFollow
    <2>2. kinds["forensics_relationship_trace"] <= CountedOrLater("timelines") * linked
        <3> DEFINE later == CountedOrLater("timelines")
                   left == Left(TraceLinks)
                   r == kinds["forensics_relationship_trace"]
        <3>1. AgentTypes /\ linked \in Nat
            BY DEF AgentsInv, AgentTypes
        <3>2. later \in Nat /\ left \in Nat /\ r \in Nat /\ linked \in Nat
            BY <3>1, AccountTypes DEF Counters, ObjectKindsMade
        <3>3. later - left \in Nat /\ r <= (later - left) * linked
            BY DEF AgentsInv, TracesBounded, TracesDone
        <3> HIDE DEF later, left, r
        <3>4. (later - left) * linked = later * linked - left * linked
              /\ left * linked \in Nat /\ later * linked \in Nat
            BY <3>2
        <3>5. r <= later * linked
            BY <3>2, <3>3, <3>4
        <3> QED BY <3>5 DEF later, r
    <2> QED BY <2>1, <2>2 DEF AgentsInv, Accounts, AgentsAccountForObjects, TracesFollowLinks
<1> QED BY <1>1, AgentsStart, AgentsInductive, PTL DEF AgentsSpec
-----------------------------------------------------------------------------
(* The LSM tree.  A table is a map from some of the keys.                  *)
LsmTable == UNION {[D -> MapValue] : D \in SUBSET MapKey}

(* What a read of k finds: the memtable's value, or that of the newest     *)
(* table that has k.                                                       *)
NewestOf(tables, k, v) ==
    \E i \in 1..Len(tables) : /\ k \in DOMAIN tables[i] /\ v = tables[i][k]
                              /\ \A j \in (i + 1)..Len(tables) : k \notin DOMAIN tables[j]
Reads(l, k, v) == IF k \in DOMAIN l.mem THEN v = l.mem[k] ELSE NewestOf(l.tables, k, v)

TablesType(tables) ==
    /\ tables \in Seq(LsmTable)
    /\ \A i \in 1..Len(tables) : IsFiniteSet(DOMAIN tables[i])
LsmType(l) ==
    /\ l = [mem |-> l.mem, tables |-> l.tables]
    /\ l.mem \in LsmTable /\ IsFiniteSet(DOMAIN l.mem)
    /\ TablesType(l.tables)

(* Of the places that have something, one is the last and one the first.   *)
LEMMA LastPlace ==
    ASSUME NEW n \in Nat, NEW T \in SUBSET (1..n), T # {}
    PROVE  \E x \in T : \A y \in T : x >= y
<1> DEFINE U == {n - x : x \in T}
<1>1. U \in SUBSET Nat /\ U # {}
    <2>1. \A x \in T : n - x \in Nat
        OBVIOUS
    <2> QED BY <2>1
<1>2. PICK u \in U : \A w \in U : u <= w
    BY <1>1, LeastOf
<1>3. PICK x \in T : u = n - x
    OBVIOUS
<1>4. \A y \in T : x >= y
    <2> TAKE y \in T
    <2>1. n - y \in U /\ x \in Int /\ y \in Int
        OBVIOUS
    <2> QED BY <1>2, <1>3, <2>1
<1> QED BY <1>4

LEMMA LastIsMax ==
    ASSUME NEW n \in Nat, NEW T \in SUBSET (1..n), T # {}
    PROVE  Max(T) \in T /\ \A y \in T : Max(T) >= y
BY LastPlace DEF Max

LEMMA FirstIsMin ==
    ASSUME NEW T \in SUBSET Nat, T # {}
    PROVE  Min(T) \in T /\ \A y \in T : Min(T) <= y
BY LeastOf DEF Min

LEMMA NewestFirstFacts ==
    ASSUME NEW l, l.mem \in LsmTable, l.tables \in Seq(LsmTable)
    PROVE  /\ DOMAIN NewestFirst(l) = 1..(Len(l.tables) + 1)
           /\ NewestFirst(l)[1] = l.mem
           /\ \A i \in 2..(Len(l.tables) + 1) : NewestFirst(l)[i] = l.tables[Len(l.tables) - i + 2]
<1> DEFINE n == Len(l.tables)
           back == [i \in 1..n |-> l.tables[(n - i) + 1]]
<1>1. n \in Nat /\ l.tables \in [1..n -> LsmTable]
    BY LenProperties
<1>2. back \in [1..n -> LsmTable]
    BY <1>1
<1>3. back \in Seq(LsmTable) /\ Len(back) = n
    BY <1>1, <1>2
<1>4. <<l.mem>> \in Seq(LsmTable) /\ Len(<<l.mem>>) = 1
    OBVIOUS
<1>5. NewestFirst(l) = <<l.mem>> \o back
    BY DEF NewestFirst, Reverse
<1> HIDE DEF back
<1>6. /\ NewestFirst(l) \in Seq(LsmTable) /\ Len(NewestFirst(l)) = n + 1
      /\ \A i \in 1..(n + 1) : NewestFirst(l)[i] = IF i <= 1 THEN <<l.mem>>[i] ELSE back[i - 1]
    BY <1>1, <1>3, <1>4, <1>5, ConcatProperties
<1>7. DOMAIN NewestFirst(l) = 1..(n + 1)
    BY <1>6, LenProperties
<1>8. NewestFirst(l)[1] = l.mem
    BY <1>1, <1>6
<1>9. ASSUME NEW i \in 2..(n + 1) PROVE NewestFirst(l)[i] = l.tables[n - i + 2]
    <2>1. NewestFirst(l)[i] = back[i - 1] /\ i - 1 \in 1..n /\ (n - (i - 1)) + 1 = n - i + 2
        BY <1>1, <1>6
    <2> QED BY <2>1 DEF back
<1> QED BY <1>7, <1>8, <1>9

(* A read finds the newest value, and nothing only if no table has one.    *)
LEMMA ReadFindsNewest ==
    ASSUME NEW l, LsmType(l), NEW k
    PROVE  /\ Holding(NewestFirst(l), k) = {} <=> k \notin DOMAIN l.mem /\ Holding(l.tables, k) = {}
           /\ k \in KeysIn(NewestFirst(l)) <=> Holding(NewestFirst(l), k) # {}
           /\ Holding(NewestFirst(l), k) # {} => Reads(l, k, FirstHeld(NewestFirst(l), k))
<1> DEFINE n == Len(l.tables)
           s == NewestFirst(l)
           H == Holding(s, k)
<1>1. l.mem \in LsmTable /\ l.tables \in Seq(LsmTable)
    BY DEF LsmType, TablesType
<1>2. /\ DOMAIN s = 1..(n + 1) /\ s[1] = l.mem
      /\ \A i \in 2..(n + 1) : s[i] = l.tables[n - i + 2]
    BY <1>1, NewestFirstFacts
<1>3. n \in Nat /\ DOMAIN l.tables = 1..n
    BY <1>1, LenProperties
<1>4. H = {i \in 1..(n + 1) : k \in DOMAIN s[i]}
    BY <1>2 DEF Holding
<1>5. \A i \in 1..n : n - i + 2 \in 2..(n + 1) /\ s[n - i + 2] = l.tables[i]
    <2> TAKE i \in 1..n
    <2>1. n - i + 2 \in 2..(n + 1) /\ n - (n - i + 2) + 2 = i
        BY <1>3
    <2> QED BY <1>2, <2>1
<1> HIDE DEF s
<1>6. H = {} <=> k \notin DOMAIN l.mem /\ Holding(l.tables, k) = {}
    <2>1. ASSUME H = {} PROVE k \notin DOMAIN l.mem /\ Holding(l.tables, k) = {}
        <3>1. 1 \in 1..(n + 1)
            BY <1>3
        <3>2. k \notin DOMAIN l.mem
            BY <1>2, <1>4, <2>1, <3>1
        <3>3. \A i \in 1..n : k \notin DOMAIN l.tables[i]
            <4> TAKE i \in 1..n
            <4>1. n - i + 2 \in 1..(n + 1)
                BY <1>3
            <4> QED BY <1>4, <1>5, <2>1, <4>1
        <3> QED BY <1>3, <3>2, <3>3 DEF Holding
    <2>2. ASSUME k \notin DOMAIN l.mem, Holding(l.tables, k) = {} PROVE H = {}
        <3>1. \A i \in 1..n : k \notin DOMAIN l.tables[i]
            BY <1>3, <2>2 DEF Holding
        <3>2. ASSUME NEW i \in 1..(n + 1) PROVE k \notin DOMAIN s[i]
            <4>1. CASE i = 1
                BY <1>2, <2>2, <4>1
            <4>2. CASE i # 1
                <5>1. i \in 2..(n + 1) /\ n - i + 2 \in 1..n
                    BY <1>3, <4>2
                <5> QED BY <1>2, <3>1, <5>1
            <4> QED BY <4>1, <4>2
        <3> QED BY <1>4, <3>2
    <2> QED BY <2>1, <2>2
<1>7. k \in KeysIn(s) <=> H # {}
    BY <1>2, <1>4 DEF KeysIn
<1>8. ASSUME H # {} PROVE Reads(l, k, FirstHeld(s, k))
    <2> DEFINE m == Min(H)
    <2>1. H \in SUBSET Nat
        BY <1>3, <1>4
    <2>2. m \in H /\ \A y \in H : m <= y
        BY <1>8, <2>1, FirstIsMin
    <2>3. FirstHeld(s, k) = s[m][k]
        BY DEF FirstHeld
    <2>4. m \in 1..(n + 1) /\ k \in DOMAIN s[m]
        BY <1>4, <2>2
    <2> HIDE DEF m
    <2>5. CASE m = 1
        BY <1>2, <2>3, <2>4, <2>5 DEF Reads
    <2>6. CASE m # 1
        <3>1. k \notin DOMAIN l.mem
            <4>1. 1 \notin H
                BY <2>2, <2>4, <2>6
            <4>2. 1 \in 1..(n + 1)
                BY <1>3
            <4> QED BY <1>2, <1>4, <4>1, <4>2
        <3> DEFINE i == n - m + 2
        <3>2. i \in 1..n /\ m \in 2..(n + 1)
            BY <1>3, <2>4, <2>6
        <3>3. s[m] = l.tables[i]
            BY <1>2, <3>2
        <3>4. ASSUME NEW j \in (i + 1)..n PROVE k \notin DOMAIN l.tables[j]
            <4>1. j \in 1..n /\ n - j + 2 < m /\ n - j + 2 \in 1..(n + 1)
                BY <1>3, <3>2
            <4>2. n - j + 2 \notin H
                BY <2>2, <2>4, <4>1
            <4> QED BY <1>4, <1>5, <4>1, <4>2
        <3> HIDE DEF i
        <3> QED BY <2>3, <2>4, <3>1, <3>2, <3>3, <3>4 DEF Reads, NewestOf
    <2> QED BY <2>5, <2>6
<1> QED BY <1>6, <1>7, <1>8 DEF s

(* There is one newest value.                                              *)
LEMMA NewestIsOne ==
    ASSUME NEW tables, Len(tables) \in Nat, NEW k, NEW v, NEW w, NewestOf(tables, k, v), NewestOf(tables, k, w)
    PROVE  v = w
<1>1. PICK i \in 1..Len(tables) : /\ k \in DOMAIN tables[i] /\ v = tables[i][k]
                                  /\ \A j \in (i + 1)..Len(tables) : k \notin DOMAIN tables[j]
    BY DEF NewestOf
<1>2. PICK j \in 1..Len(tables) : /\ k \in DOMAIN tables[j] /\ w = tables[j][k]
                                  /\ \A h \in (j + 1)..Len(tables) : k \notin DOMAIN tables[h]
    BY DEF NewestOf
<1>3. ~ (i < j) /\ ~ (j < i)
    BY <1>1, <1>2
<1> QED BY <1>1, <1>2, <1>3

(* Compaction keeps the newest value of each key.                          *)
LEMMA MergedIsNewest ==
    ASSUME NEW tables, TablesType(tables)
    PROVE  /\ MergedTables(tables) \in LsmTable
           /\ DOMAIN MergedTables(tables) = KeysIn(tables)
           /\ IsFiniteSet(KeysIn(tables))
           /\ \A k \in KeysIn(tables) : NewestOf(tables, k, MergedTables(tables)[k])
           /\ \A k, v : NewestOf(tables, k, v) => k \in KeysIn(tables)
<1> DEFINE n == Len(tables)
<1>1. n \in Nat /\ tables \in [1..n -> LsmTable] /\ DOMAIN tables = 1..n
    BY LenProperties DEF TablesType
<1>2. DOMAIN MergedTables(tables) = KeysIn(tables)
    BY DEF MergedTables
<1>3. ASSUME NEW k \in KeysIn(tables)
      PROVE  /\ NewestOf(tables, k, MergedTables(tables)[k])
             /\ MergedTables(tables)[k] \in MapValue /\ k \in MapKey
    <2> DEFINE H == Holding(tables, k)
               m == Max(H)
    <2>1. H \in SUBSET (1..n) /\ H # {}
        BY <1>1 DEF KeysIn, Holding
    <2>2. m \in H /\ \A y \in H : m >= y
        BY <1>1, <2>1, LastIsMax
    <2>3. MergedTables(tables)[k] = tables[m][k]
        BY DEF MergedTables
    <2>4. m \in 1..n /\ k \in DOMAIN tables[m]
        BY <1>1, <2>2 DEF Holding
    <2> HIDE DEF m
    <2>5. ASSUME NEW j \in (m + 1)..n PROVE k \notin DOMAIN tables[j]
        <3>1. j \in 1..n /\ j > m
            BY <1>1, <2>4
        <3>2. j \notin H
            BY <2>2, <2>4, <3>1
        <3> QED BY <1>1, <3>1, <3>2 DEF Holding
    <2>6. tables[m] \in LsmTable
        BY <1>1, <2>4
    <2>7. tables[m][k] \in MapValue /\ k \in MapKey
        BY <2>4, <2>6 DEF LsmTable
    <2> QED BY <2>3, <2>4, <2>5, <2>7 DEF NewestOf
<1>4. MergedTables(tables) \in LsmTable
    <2>1. KeysIn(tables) \in SUBSET MapKey
        BY <1>3
    <2>2. MergedTables(tables) \in [KeysIn(tables) -> MapValue]
        BY <1>3 DEF MergedTables
    <2> QED BY <2>1, <2>2 DEF LsmTable
<1>5. IsFiniteSet(KeysIn(tables))
    <2> DEFINE domains == {DOMAIN tables[i] : i \in DOMAIN tables}
    <2>1. IsFiniteSet(1..n)
        BY <1>1, FS_Interval
    <2>2. [i \in 1..n |-> DOMAIN tables[i]] \in Surjection(1..n, domains)
        BY <1>1 DEF Surjection
    <2>3. IsFiniteSet(domains)
        BY <2>1, <2>2, FS_Surjection
    <2>4. \A D \in domains : IsFiniteSet(D)
        BY <1>1 DEF TablesType
    <2> HIDE DEF domains
    <2>5. IsFiniteSet(UNION domains)
        BY <2>3, <2>4, FS_UNION
    <2> QED BY <2>5 DEF KeysIn, domains
<1>6. ASSUME NEW k, NEW v, NewestOf(tables, k, v) PROVE k \in KeysIn(tables)
    BY <1>1, <1>6 DEF NewestOf, KeysIn
<1> QED BY <1>2, <1>3, <1>4, <1>5, <1>6

(* The chunks hold each entry once.                                        *)
LEMMA ChunksPartition ==
    ASSUME NEW f \in LsmTable, IsFiniteSet(DOMAIN f)
    PROVE  /\ TablesType(Chunked(f))
           /\ KeysIn(Chunked(f)) = DOMAIN f
           /\ \A k \in DOMAIN f : NewestOf(Chunked(f), k, f[k])
<1> DEFINE n == Cardinality(DOMAIN f)
           c == (n + MaxMemtable - 1) \div MaxMemtable
           place(k) == Cardinality({j \in DOMAIN f : j < k})
           part(i) == {k \in DOMAIN f : place(k) \div MaxMemtable = i - 1}
           t == Chunked(f)
<1>1. MaxMemtable \in Nat /\ MaxMemtable > 0 /\ n \in Nat
    BY StorageAssumption, FS_CardinalityType
<1>2. c \in Nat
    BY <1>1
<1>3. t = [i \in 1..c |-> [k \in part(i) |-> f[k]]]
    BY DEF Chunked, Restrict
<1>4. \A i \in 1..c : [k \in part(i) |-> f[k]] \in LsmTable /\ IsFiniteSet(part(i))
    <2> TAKE i \in 1..c
    <2>1. part(i) \subseteq DOMAIN f
        OBVIOUS
    <2> HIDE DEF part
    <2>2. PICK D \in SUBSET MapKey : f \in [D -> MapValue]
        BY DEF LsmTable
    <2>3. part(i) \in SUBSET MapKey /\ [k \in part(i) |-> f[k]] \in [part(i) -> MapValue]
        BY <2>1, <2>2
    <2>4. IsFiniteSet(part(i))
        BY <2>1, FS_Subset
    <2> QED BY <2>3, <2>4 DEF LsmTable
<1>5. ASSUME NEW k \in DOMAIN f
      PROVE  /\ place(k) \in Nat
             /\ place(k) \div MaxMemtable + 1 \in 1..c
    <2> DEFINE S == {j \in DOMAIN f : j < k}
    <2>1. DOMAIN f \subseteq Int
        BY StorageAssumption DEF LsmTable
    <2>2. S \subseteq DOMAIN f \ {k}
        BY <2>1
    <2> HIDE DEF S
    <2>3. IsFiniteSet(DOMAIN f \ {k}) /\ Cardinality(DOMAIN f \ {k}) = n - 1
        BY FS_RemoveElement
    <2>4. IsFiniteSet(S) /\ Cardinality(S) <= n - 1
        BY <2>2, <2>3, FS_Subset
    <2>5. Cardinality(S) \in Nat
        BY <2>4, FS_CardinalityType
    <2>6. place(k) = Cardinality(S)
        BY DEF S
    <2>7. ASSUME NEW p \in Nat, NEW m \in Nat, NEW N \in Nat, m > 0, p <= N - 1
          PROVE  p \div m + 1 \in 1..((N + m - 1) \div m)
        <3>1. p \div m <= (N - 1) \div m
            BY <2>7
        <3>2. (N + m - 1) \div m = (N - 1) \div m + 1
            BY <2>7
        <3>3. p \div m \in Nat
            BY <2>7
        <3> QED BY <2>7, <3>1, <3>2, <3>3
    <2> HIDE DEF place, n
    <2> QED BY <1>1, <2>4, <2>5, <2>6, <2>7 DEF n
<1> HIDE DEF c, place
<1>6. t \in [1..c -> LsmTable] /\ Len(t) = c /\ DOMAIN t = 1..c /\ \A i \in 1..c : DOMAIN t[i] = part(i)
    <2> HIDE DEF part
    <2>1. t \in [1..c -> LsmTable] /\ DOMAIN t = 1..c
        BY <1>3, <1>4
    <2> QED BY <1>2, <1>3, <2>1
<1>7. TablesType(t)
    <2> HIDE DEF t, part
    <2>1. t \in Seq(LsmTable)
        BY <1>2, <1>6
    <2> QED BY <1>4, <1>6, <2>1 DEF TablesType
<1>8. ASSUME NEW k \in DOMAIN f PROVE NewestOf(t, k, f[k]) /\ k \in KeysIn(t)
    <2> DEFINE i == place(k) \div MaxMemtable + 1
    <2>1. i \in 1..c /\ place(k) \div MaxMemtable = i - 1
        BY <1>1, <1>5
    <2>2. k \in part(i) /\ \A j \in 1..c : j # i => k \notin part(j)
        BY <1>2, <2>1
    <2> HIDE DEF i, part
    <2>3. t[i][k] = f[k]
        BY <1>3, <2>1, <2>2
    <2>4. \A j \in (i + 1)..c : j \in 1..c /\ j # i
        BY <1>2, <2>1
    <2> HIDE DEF t
    <2>5. NewestOf(t, k, f[k])
        BY <1>6, <2>1, <2>2, <2>3, <2>4 DEF NewestOf
    <2> QED BY <1>6, <2>1, <2>2, <2>5 DEF KeysIn
<1>9. KeysIn(t) \subseteq DOMAIN f
    <2>1. \A i \in 1..c : part(i) \subseteq DOMAIN f
        OBVIOUS
    <2> HIDE DEF t, part
    <2> QED BY <1>6, <2>1 DEF KeysIn
<1> HIDE DEF t
<1> QED BY <1>7, <1>8, <1>9 DEF t

LEMMA CompactKeeps ==
    ASSUME NEW tables, TablesType(tables)
    PROVE  /\ TablesType(Compact(tables))
           /\ KeysIn(Compact(tables)) = KeysIn(tables)
           /\ \A k, v : NewestOf(tables, k, v) => NewestOf(Compact(tables), k, v)
<1> DEFINE f == MergedTables(tables)
<1>1. /\ f \in LsmTable /\ DOMAIN f = KeysIn(tables) /\ IsFiniteSet(DOMAIN f)
      /\ \A k \in DOMAIN f : NewestOf(tables, k, f[k])
      /\ \A k, v : NewestOf(tables, k, v) => k \in DOMAIN f
    BY MergedIsNewest
<1>2. Len(tables) \in Nat
    BY LenProperties DEF TablesType
<1>3. \A k, v : NewestOf(tables, k, v) => k \in DOMAIN f /\ v = f[k]
    <2> HIDE DEF f
    <2> QED BY <1>1, <1>2, NewestIsOne
<1> HIDE DEF f
<1>4. CASE Compact(tables) = Chunked(f)
    BY <1>1, <1>3, <1>4, ChunksPartition
<1>5. CASE Compact(tables) = <<f>>
    <2>1. <<f>> \in Seq(LsmTable) /\ Len(<<f>>) = 1 /\ <<f>>[1] = f /\ DOMAIN <<f>> = {1} /\ 1..1 = {1}
        BY <1>1
    <2>2. TablesType(<<f>>)
        BY <1>1, <2>1 DEF TablesType
    <2>3. KeysIn(<<f>>) = DOMAIN f
        BY <2>1 DEF KeysIn
    <2>4. \A k \in DOMAIN f : NewestOf(<<f>>, k, f[k])
        BY <2>1 DEF NewestOf
    <2> QED BY <1>1, <1>3, <1>5, <2>2, <2>3, <2>4
<1>6. Compact(tables) = Chunked(f) \/ Compact(tables) = <<f>>
    BY DEF Compact, f
<1> QED BY <1>4, <1>5, <1>6

(* The tree l holds what was written, w.                                   *)
TreeHolds(l, w) ==
    /\ LsmType(l) /\ w \in LsmTable
    /\ DOMAIN w = DOMAIN l.mem \cup KeysIn(l.tables)
    /\ \A k \in DOMAIN w : Reads(l, k, w[k])

LEMMA FlushKeeps ==
    ASSUME NEW l, NEW w, TreeHolds(l, w)
    PROVE  TreeHolds(Flushed(l), w) /\ DOMAIN Flushed(l).mem = {}
<1> DEFINE tables == Append(l.tables, l.mem)
           n == Len(l.tables)
<1>1. /\ l.tables \in Seq(LsmTable) /\ l.mem \in LsmTable /\ n \in Nat /\ DOMAIN l.tables = 1..n
      /\ \A i \in 1..n : IsFiniteSet(DOMAIN l.tables[i])
      /\ IsFiniteSet(DOMAIN l.mem)
    BY LenProperties DEF TreeHolds, LsmType, TablesType
<1>2. CASE DOMAIN l.mem = {}
    BY <1>2 DEF Flushed, TreeHolds
<1>3. CASE DOMAIN l.mem # {}
    <2>1. /\ tables \in Seq(LsmTable) /\ Len(tables) = n + 1
          /\ \A i \in 1..n : tables[i] = l.tables[i]
          /\ tables[n + 1] = l.mem
        BY <1>1
    <2>2. DOMAIN tables = 1..(n + 1) /\ 1..(n + 1) = (1..n) \cup {n + 1}
        BY <1>1, <2>1, LenProperties
    <2> HIDE DEF tables
    <2>3. TablesType(tables)
        BY <1>1, <2>1, <2>2 DEF TablesType
    <2>4. KeysIn(tables) = DOMAIN w
        BY <1>1, <2>1, <2>2 DEF KeysIn, TreeHolds
    <2>5. ASSUME NEW k \in DOMAIN w PROVE NewestOf(tables, k, w[k])
        <3>1. Reads(l, k, w[k])
            BY DEF TreeHolds
        <3>2. CASE k \in DOMAIN l.mem
            <4>1. w[k] = tables[n + 1][k] /\ n + 1 \in 1..(n + 1) /\ k \in DOMAIN tables[n + 1]
                BY <1>1, <2>1, <3>1, <3>2 DEF Reads
            <4>2. (n + 1 + 1)..Len(tables) = {}
                BY <1>1, <2>1
            <4> QED BY <2>1, <4>1, <4>2 DEF NewestOf
        <3>3. CASE k \notin DOMAIN l.mem
            <4>1. PICK i \in 1..n : /\ k \in DOMAIN l.tables[i] /\ w[k] = l.tables[i][k]
                                    /\ \A j \in (i + 1)..n : k \notin DOMAIN l.tables[j]
                BY <3>1, <3>3 DEF Reads, NewestOf
            <4>2. \A j \in (i + 1)..(n + 1) : k \notin DOMAIN tables[j]
                <5> TAKE j \in (i + 1)..(n + 1)
                <5>1. CASE j = n + 1
                    BY <2>1, <3>3, <5>1
                <5>2. CASE j # n + 1
                    <6>1. j \in (i + 1)..n /\ j \in 1..n
                        BY <1>1, <5>2
                    <6> QED BY <2>1, <4>1, <6>1
                <5> QED BY <5>1, <5>2
            <4>3. i \in 1..(n + 1)
                BY <1>1
            <4> QED BY <2>1, <4>1, <4>2, <4>3 DEF NewestOf
        <3> QED BY <3>2, <3>3
    <2>6. ASSUME NEW t, TablesType(t), KeysIn(t) = DOMAIN w, \A k \in DOMAIN w : NewestOf(t, k, w[k])
          PROVE  TreeHolds([mem |-> <<>>, tables |-> t], w)
        <3> DEFINE e == [mem |-> <<>>, tables |-> t]
        <3>1. e = [mem |-> e.mem, tables |-> e.tables] /\ e.mem = <<>> /\ e.tables = t
            OBVIOUS
        <3>2. DOMAIN <<>> = {} /\ <<>> \in LsmTable /\ IsFiniteSet({})
            <4>1. <<>> \in [{} -> MapValue] /\ {} \in SUBSET MapKey
                OBVIOUS
            <4> QED BY <4>1, FS_EmptySet DEF LsmTable
        <3> HIDE DEF e
        <3>3. LsmType(e)
            BY <2>6, <3>1, <3>2 DEF LsmType
        <3>4. \A k \in DOMAIN w : Reads(e, k, w[k])
            BY <2>6, <3>1, <3>2 DEF Reads
        <3>5. TreeHolds(e, w)
            BY <2>6, <3>1, <3>2, <3>3, <3>4 DEF TreeHolds
        <3> QED BY <3>5 DEF e
    <2>7. Flushed(l) = [mem |-> <<>>, tables |-> IF Len(tables) >= Threshold THEN Compact(tables) ELSE tables]
        BY <1>3 DEF Flushed, tables
    <2>8. TreeHolds([mem |-> <<>>, tables |-> tables], w)
        BY <2>3, <2>4, <2>5, <2>6
    <2>9. TreeHolds([mem |-> <<>>, tables |-> Compact(tables)], w)
        BY <2>3, <2>4, <2>5, <2>6, CompactKeeps
    <2> QED BY <2>7, <2>8, <2>9
<1> QED BY <1>2, <1>3

LEMMA PutKeeps ==
    ASSUME NEW l, NEW w, TreeHolds(l, w), NEW k \in MapKey, NEW v \in MapValue,
           NEW put, put = [x \in {k} |-> v],
           NEW e, e = [l EXCEPT !.mem = NewerWins(@, put)]
    PROVE  TreeHolds(e, NewerWins(w, put))
<1> DEFINE m == NewerWins(l.mem, put)
           u == NewerWins(w, put)
<1>1. \A f \in LsmTable : /\ NewerWins(f, put) \in LsmTable /\ DOMAIN NewerWins(f, put) = DOMAIN f \cup {k}
                           /\ \A y \in DOMAIN f \cup {k} : NewerWins(f, put)[y] = IF y = k THEN v ELSE f[y]
    <2> TAKE f \in LsmTable
    <2>1. PICK D \in SUBSET MapKey : f \in [D -> MapValue]
        BY DEF LsmTable
    <2>2. DOMAIN put = {k} /\ put[k] = v
        OBVIOUS
    <2>3. NewerWins(f, put) = [y \in D \cup {k} |-> IF y = k THEN v ELSE f[y]]
        BY <2>1, <2>2 DEF NewerWins
    <2>4. NewerWins(f, put) \in [D \cup {k} -> MapValue]
        BY <2>1, <2>3
    <2>5. D \cup {k} \in SUBSET MapKey
        OBVIOUS
    <2> QED BY <2>1, <2>3, <2>4, <2>5 DEF LsmTable
<1>2. l = [mem |-> l.mem, tables |-> l.tables] /\ l.mem \in LsmTable /\ w \in LsmTable
    BY DEF TreeHolds, LsmType
<1> HIDE DEF m
<1>3. e = [mem |-> m, tables |-> l.tables]
    BY <1>2 DEF m
<1>4. e.mem = m /\ e.tables = l.tables /\ e = [mem |-> e.mem, tables |-> e.tables]
    <2> DEFINE r == [mem |-> m, tables |-> l.tables]
    <2>1. r.mem = m /\ r.tables = l.tables /\ r = [mem |-> r.mem, tables |-> r.tables]
        OBVIOUS
    <2>2. e = r
        BY <1>3
    <2> HIDE DEF r
    <2> QED BY <2>1, <2>2
<1> HIDE DEF u
<1>5. m \in LsmTable /\ DOMAIN m = DOMAIN l.mem \cup {k} /\ u \in LsmTable /\ DOMAIN u = DOMAIN w \cup {k}
    BY <1>1, <1>2 DEF m, u
<1>6. IsFiniteSet(DOMAIN m)
    BY <1>5, FS_AddElement DEF TreeHolds, LsmType
<1>7. LsmType(e)
    BY <1>4, <1>5, <1>6 DEF TreeHolds, LsmType
<1>8. ASSUME NEW y \in DOMAIN u PROVE Reads(e, y, u[y])
    <2>1. CASE y = k
        BY <1>1, <1>2, <1>4, <1>5, <2>1 DEF Reads, m, u
    <2>2. CASE y # k
        <3>1. y \in DOMAIN w /\ u[y] = w[y] /\ (y \in DOMAIN m <=> y \in DOMAIN l.mem)
            BY <1>1, <1>2, <1>5, <2>2 DEF u
        <3>2. y \in DOMAIN l.mem => m[y] = l.mem[y]
            BY <1>1, <1>2, <2>2 DEF m
        <3>3. Reads(l, y, w[y])
            BY <3>1 DEF TreeHolds
        <3> QED BY <1>4, <3>1, <3>2, <3>3 DEF Reads
    <2> QED BY <2>1, <2>2
<1>9. TreeHolds(e, u)
    BY <1>4, <1>5, <1>7, <1>8 DEF TreeHolds
<1> QED BY <1>9 DEF u

LsmInv == TreeHolds(lsm, written) /\ Cardinality(DOMAIN lsm.mem) < MaxMemtable

LEMMA LsmInductive == LsmInv /\ [MerkleNext \/ SketchNext \/ TreeNext \/ LsmNext]_storageVars => LsmInv'
<1> SUFFICES ASSUME LsmInv, [MerkleNext \/ SketchNext \/ TreeNext \/ LsmNext]_storageVars PROVE LsmInv'
    OBVIOUS
<1>1. CASE UNCHANGED <<lsm, written>>
    BY <1>1 DEF LsmInv
<1>2. MaxMemtable \in Nat /\ MaxMemtable > 0 /\ Cardinality({}) = 0
    BY StorageAssumption, FS_EmptySet
<1>3. CASE Flush
    BY <1>2, <1>3, FlushKeeps DEF Flush, LsmInv
<1>4. CASE LsmInsert
    <2>1. PICK k \in MapKey, v \in MapValue :
             LET put == [lsm EXCEPT !.mem = NewerWins(@, [x \in {k} |-> v])]
             IN /\ lsm' = IF Cardinality(DOMAIN put.mem) >= MaxMemtable THEN Flushed(put) ELSE put
                /\ written' = NewerWins(written, [x \in {k} |-> v])
        BY <1>4 DEF LsmInsert
    <2> DEFINE put == [lsm EXCEPT !.mem = NewerWins(@, [x \in {k} |-> v])]
    <2>2. TreeHolds(put, written')
        <3> DEFINE one == [x \in {k} |-> v]
        <3>1. TreeHolds(lsm, written) /\ written' = NewerWins(written, one)
            BY <2>1 DEF LsmInv
        <3>2. put = [lsm EXCEPT !.mem = NewerWins(@, one)] /\ one = [x \in {k} |-> v]
            OBVIOUS
        <3> HIDE DEF put, one
        <3> QED BY <3>1, <3>2, PutKeeps
    <2>3. lsm' = IF Cardinality(DOMAIN put.mem) >= MaxMemtable THEN Flushed(put) ELSE put
        BY <2>1
    <2> HIDE DEF put
    <2>4. CASE Cardinality(DOMAIN put.mem) >= MaxMemtable
        BY <1>2, <2>2, <2>3, <2>4, FlushKeeps DEF LsmInv
    <2>5. CASE ~ (Cardinality(DOMAIN put.mem) >= MaxMemtable)
        <3>1. Cardinality(DOMAIN put.mem) \in Nat
            BY <2>2, FS_CardinalityType DEF TreeHolds, LsmType
        <3>2. Cardinality(DOMAIN put.mem) < MaxMemtable
            BY <1>2, <2>5, <3>1
        <3> QED BY <2>2, <2>3, <2>5, <3>2 DEF LsmInv
    <2> QED BY <2>4, <2>5
<1>5. CASE MerkleNext \/ SketchNext \/ TreeNext \/ UNCHANGED storageVars
    BY <1>1, <1>5 DEF MerkleNext, SketchNext, TreeNext, storageVars
<1> QED BY <1>3, <1>4, <1>5 DEF LsmNext

LEMMA LsmStarts == StorageInit => LsmInv
<1> SUFFICES ASSUME StorageInit PROVE LsmInv
    OBVIOUS
<1>1. lsm = [mem |-> <<>>, tables |-> <<>>] /\ written = <<>>
    BY DEF StorageInit
<1>2. DOMAIN <<>> = {} /\ <<>> \in LsmTable /\ IsFiniteSet({}) /\ Cardinality({}) = 0
    <2>1. <<>> \in [{} -> MapValue] /\ {} \in SUBSET MapKey
        OBVIOUS
    <2> QED BY <2>1, FS_EmptySet DEF LsmTable
<1>3. KeysIn(<<>>) = {}
    BY DEF KeysIn
<1>4. TablesType(<<>>)
    BY DEF TablesType
<1>5. LsmType(lsm)
    BY <1>1, <1>2, <1>4 DEF LsmType
<1> QED BY <1>1, <1>2, <1>3, <1>5, StorageAssumption DEF LsmInv, TreeHolds

LEMMA LsmReads == LsmInv => LastWriteIsRead
<1> SUFFICES ASSUME LsmInv PROVE LastWriteIsRead
    OBVIOUS
<1> DEFINE s == NewestFirst(lsm)
<1>1. /\ LsmType(lsm) /\ Len(lsm.tables) \in Nat /\ DOMAIN lsm.tables = 1..Len(lsm.tables)
      /\ DOMAIN written = DOMAIN lsm.mem \cup KeysIn(lsm.tables)
      /\ \A k \in DOMAIN written : Reads(lsm, k, written[k])
    BY LenProperties DEF LsmInv, TreeHolds, LsmType, TablesType
<1>2. ASSUME NEW k
      PROVE  /\ Holding(s, k) = {} <=> k \notin DOMAIN written
             /\ k \in KeysIn(s) <=> k \in DOMAIN written
             /\ k \in DOMAIN written => FirstHeld(s, k) = written[k]
    <2>1. /\ Holding(s, k) = {} <=> k \notin DOMAIN lsm.mem /\ Holding(lsm.tables, k) = {}
          /\ k \in KeysIn(s) <=> Holding(s, k) # {}
          /\ Holding(s, k) # {} => Reads(lsm, k, FirstHeld(s, k))
        BY <1>1, ReadFindsNewest
    <2>2. Holding(lsm.tables, k) = {} <=> k \notin KeysIn(lsm.tables)
        BY DEF Holding, KeysIn
    <2> HIDE DEF s
    <2>3. Holding(s, k) = {} <=> k \notin DOMAIN written
        BY <1>1, <2>1, <2>2
    <2>4. ASSUME k \in DOMAIN written PROVE FirstHeld(s, k) = written[k]
        <3>1. Reads(lsm, k, FirstHeld(s, k)) /\ Reads(lsm, k, written[k])
            BY <1>1, <2>1, <2>3, <2>4
        <3> QED BY <1>1, <3>1, NewestIsOne DEF Reads
    <2> QED BY <2>1, <2>3, <2>4
<1> HIDE DEF s
<1>3. \A k \in MapKey : LsmGet(lsm, k) = IF k \in DOMAIN written THEN written[k] ELSE Nothing
    BY <1>2 DEF LsmGet, s
<1>4. ASSUME NEW from \in MapKey, NEW to \in MapKey
      PROVE  LsmScan(lsm, from, to) = Restrict(written, DOMAIN written \cap (from..to))
    <2>1. KeysIn(s) \cap (from..to) = DOMAIN written \cap (from..to)
        BY <1>2
    <2>2. LsmScan(lsm, from, to) = [k \in DOMAIN written \cap (from..to) |-> FirstHeld(s, k)]
        BY <2>1 DEF LsmScan, s
    <2> QED BY <1>2, <2>2 DEF Restrict
<1> QED BY <1>3, <1>4 DEF LastWriteIsRead, LsmInv
-----------------------------------------------------------------------------
(* The filter and the counters.                                            *)
Ranks(S, r) == {0} \cup {Rank(d) : d \in {x \in S : Register(x) = r}}
GreatestRank(n, S, r) == n \in Ranks(S, r) /\ \A m \in Ranks(S, r) : m <= n
CounterType(c) ==
    /\ c = [regs |-> c.regs, seen |-> c.seen]
    /\ c.seen \in SUBSET Datum
    /\ c.regs = [r \in Registers |-> c.regs[r]]
    /\ \A r \in Registers : GreatestRank(c.regs[r], c.seen, r)
SketchInv ==
    /\ bloom = [bits |-> bloom.bits, held |-> bloom.held]
    /\ \A d \in bloom.held : BitsOf[d] \subseteq bloom.bits
    /\ counters = [c \in 1..2 |-> counters[c]]
    /\ \A c \in 1..2 : CounterType(counters[c])

LEMMA GreaterOfTwo ==
    ASSUME NEW a \in Nat, NEW b \in Nat
    PROVE  Max({a, b}) = IF a >= b THEN a ELSE b
<1>1. CASE a >= b
    <2>1. a \in {a, b} /\ \A y \in {a, b} : a >= y
        BY <1>1
    <2>2. \A x \in {a, b} : (\A y \in {a, b} : x >= y) => x = a
        BY <1>1
    <2> QED BY <1>1, <2>1, <2>2 DEF Max
<1>2. CASE ~ (a >= b)
    <2>1. b \in {a, b} /\ \A y \in {a, b} : b >= y
        BY <1>2
    <2>2. \A x \in {a, b} : (\A y \in {a, b} : x >= y) => x = b
        BY <1>2
    <2> QED BY <1>2, <2>1, <2>2 DEF Max
<1> QED BY <1>1, <1>2

LEMMA RanksAreNat ==
    ASSUME NEW S \in SUBSET Datum, NEW r
    PROVE  Ranks(S, r) \subseteq Nat
<1>1. \A d \in Datum : Rank(d) \in Nat
    BY StorageAssumption DEF Rank
<1> QED BY <1>1 DEF Ranks

(* The greatest rank of two sets of data is the greater of theirs.         *)
LEMMA GreatestOfBoth ==
    ASSUME NEW S \in SUBSET Datum, NEW T \in SUBSET Datum, NEW r, NEW n, NEW m,
           GreatestRank(n, S, r), GreatestRank(m, T, r)
    PROVE  GreatestRank(Max({n, m}), S \cup T, r)
<1>1. Ranks(S, r) \subseteq Nat /\ Ranks(T, r) \subseteq Nat
    BY RanksAreNat
<1>2. Ranks(S \cup T, r) = Ranks(S, r) \cup Ranks(T, r)
    BY DEF Ranks
<1>3. n \in Nat /\ m \in Nat
    BY <1>1 DEF GreatestRank
<1>4. Max({n, m}) = IF n >= m THEN n ELSE m
    BY <1>3, GreaterOfTwo
<1>5. \A k \in Ranks(S, r) : k \in Nat /\ k <= n
    BY <1>1 DEF GreatestRank
<1>6. \A k \in Ranks(T, r) : k \in Nat /\ k <= m
    BY <1>1 DEF GreatestRank
<1>7. n \in Ranks(S, r) /\ m \in Ranks(T, r)
    BY DEF GreatestRank
<1>8. CASE n >= m
    BY <1>2, <1>3, <1>4, <1>5, <1>6, <1>7, <1>8 DEF GreatestRank
<1>9. CASE ~ (n >= m)
    BY <1>2, <1>3, <1>4, <1>5, <1>6, <1>7, <1>9 DEF GreatestRank
<1> QED BY <1>8, <1>9

LEMMA InsertKeepsRegisters ==
    ASSUME NEW c, CounterType(c), NEW d \in Datum
    PROVE  CounterType([regs |-> HllInsert(c.regs, d), seen |-> c.seen \cup {d}])
<1> DEFINE e == [regs |-> HllInsert(c.regs, d), seen |-> c.seen \cup {d}]
<1>1. e.regs = HllInsert(c.regs, d) /\ e.seen = c.seen \cup {d} /\ e = [regs |-> e.regs, seen |-> e.seen]
    OBVIOUS
<1> HIDE DEF e
<1>2. Register(d) \in Registers /\ Rank(d) \in Nat
    BY StorageAssumption DEF Registers, Rank
<1>3. HllInsert(c.regs, d) = [r \in Registers |-> IF r = Register(d) THEN Max({c.regs[r], Rank(d)}) ELSE c.regs[r]]
    BY <1>2 DEF HllInsert, CounterType
<1>4. ASSUME NEW r \in Registers PROVE GreatestRank(e.regs[r], e.seen, r)
    <2>1. GreatestRank(c.regs[r], c.seen, r)
        BY DEF CounterType
    <2>2. CASE r = Register(d)
        <3>1. GreatestRank(Rank(d), {d}, r)
            BY <1>2, <2>2 DEF GreatestRank, Ranks
        <3>2. e.regs[r] = Max({c.regs[r], Rank(d)})
            BY <1>1, <1>3, <2>2
        <3> QED BY <1>1, <2>1, <3>1, <3>2, GreatestOfBoth DEF CounterType
    <2>3. CASE r # Register(d)
        <3>1. e.regs[r] = c.regs[r]
            BY <1>1, <1>3, <2>3
        <3>2. Ranks(e.seen, r) = Ranks(c.seen, r)
            BY <1>1, <2>3 DEF Ranks
        <3> QED BY <2>1, <3>1, <3>2 DEF GreatestRank
    <2> QED BY <2>2, <2>3
<1>5. e.regs = [r \in Registers |-> e.regs[r]]
    BY <1>1, <1>3
<1>6. CounterType(e)
    BY <1>1, <1>4, <1>5 DEF CounterType
<1> QED BY <1>6 DEF e

LEMMA MergeKeepsRegisters ==
    ASSUME NEW c, NEW o, CounterType(c), CounterType(o)
    PROVE  CounterType([regs |-> HllMerge(c.regs, o.regs), seen |-> c.seen \cup o.seen])
<1> DEFINE e == [regs |-> HllMerge(c.regs, o.regs), seen |-> c.seen \cup o.seen]
<1>1. e.regs = HllMerge(c.regs, o.regs) /\ e.seen = c.seen \cup o.seen /\ e = [regs |-> e.regs, seen |-> e.seen]
    OBVIOUS
<1> HIDE DEF e
<1>2. DOMAIN c.regs = Registers
    BY DEF CounterType
<1>3. e.regs = [r \in Registers |-> Max({c.regs[r], o.regs[r]})]
    BY <1>1, <1>2 DEF HllMerge
<1>4. \A r \in Registers : GreatestRank(e.regs[r], e.seen, r)
    <2> TAKE r \in Registers
    <2>1. GreatestRank(c.regs[r], c.seen, r) /\ GreatestRank(o.regs[r], o.seen, r)
        BY DEF CounterType
    <2>2. c.seen \in SUBSET Datum /\ o.seen \in SUBSET Datum
        BY DEF CounterType
    <2>3. e.regs[r] = Max({c.regs[r], o.regs[r]})
        BY <1>3
    <2>4. GreatestRank(Max({c.regs[r], o.regs[r]}), c.seen \cup o.seen, r)
        BY <2>1, <2>2, GreatestOfBoth
    <2> QED BY <1>1, <2>3, <2>4
<1>5. CounterType(e)
    BY <1>1, <1>3, <1>4 DEF CounterType
<1> QED BY <1>5 DEF e

LEMMA SketchInductive == SketchInv /\ [MerkleNext \/ SketchNext \/ TreeNext \/ LsmNext]_storageVars => SketchInv'
<1> SUFFICES ASSUME SketchInv, [MerkleNext \/ SketchNext \/ TreeNext \/ LsmNext]_storageVars PROVE SketchInv'
    OBVIOUS
<1>1. CASE UNCHANGED <<bloom, counters>>
    BY <1>1 DEF SketchInv
<1>2. CASE BloomInsert /\ UNCHANGED counters
    BY <1>2 DEF BloomInsert, SketchInv
<1>3. CASE BloomClear /\ UNCHANGED counters
    BY <1>3 DEF BloomClear, SketchInv
<1>4. ASSUME NEW c \in 1..2, NEW e, CounterType(e), counters' = [counters EXCEPT ![c] = e], UNCHANGED bloom
      PROVE  SketchInv'
    BY <1>4 DEF SketchInv
<1>5. CASE Count /\ UNCHANGED bloom
    <2>1. DOMAIN counters = 1..2 /\ \A c \in 1..2 : CounterType(counters[c])
        BY DEF SketchInv
    <2>2. PICK c \in 1..2, d \in Datum :
             counters' = [counters EXCEPT ![c] = [regs |-> HllInsert(@.regs, d), seen |-> @.seen \cup {d}]]
        BY <1>5, <2>1 DEF Count
    <2> DEFINE e == [regs |-> HllInsert(counters[c].regs, d), seen |-> counters[c].seen \cup {d}]
    <2>3. CounterType(e)
        BY <2>1, InsertKeepsRegisters
    <2>4. counters' = [counters EXCEPT ![c] = e]
        BY <2>2
    <2> HIDE DEF e
    <2> QED BY <1>4, <1>5, <2>3, <2>4
<1>6. CASE Merge /\ UNCHANGED bloom
    <2>1. DOMAIN counters = 1..2 /\ \A c \in 1..2 : CounterType(counters[c])
        BY DEF SketchInv
    <2>2. PICK c \in 1..2, o \in 1..2 :
             counters' = [counters EXCEPT ![c] = [regs |-> HllMerge(@.regs, counters[o].regs),
                                                  seen |-> @.seen \cup counters[o].seen]]
        BY <1>6, <2>1 DEF Merge
    <2> DEFINE e == [regs |-> HllMerge(counters[c].regs, counters[o].regs),
                     seen |-> counters[c].seen \cup counters[o].seen]
    <2>3. CounterType(e)
        BY <2>1, MergeKeepsRegisters
    <2>4. counters' = [counters EXCEPT ![c] = e]
        BY <2>2
    <2> HIDE DEF e
    <2> QED BY <1>4, <1>6, <2>3, <2>4
<1>7. CASE SketchNext
    BY <1>2, <1>3, <1>5, <1>6, <1>7 DEF SketchNext
<1>8. CASE MerkleNext \/ TreeNext \/ LsmNext \/ UNCHANGED storageVars
    BY <1>1, <1>8 DEF MerkleNext, TreeNext, LsmNext, storageVars
<1> QED BY <1>7, <1>8

LEMMA SketchesStart == StorageInit => SketchInv
<1> SUFFICES ASSUME StorageInit PROVE SketchInv
    OBVIOUS
<1>1. bloom = [bits |-> {}, held |-> {}]
    BY DEF StorageInit
<1> DEFINE e == [regs |-> [r \in Registers |-> 0], seen |-> {}]
<1>2. counters = [c \in 1..2 |-> e]
    BY DEF StorageInit
<1>3. e.regs = [r \in Registers |-> 0] /\ e.seen = {} /\ e = [regs |-> e.regs, seen |-> e.seen]
    OBVIOUS
<1> HIDE DEF e
<1>4. \A r : Ranks(e.seen, r) = {0}
    BY <1>3 DEF Ranks
<1>5. CounterType(e)
    BY <1>3, <1>4 DEF CounterType, GreatestRank
<1>6. \A c \in 1..2 : counters[c] = e
    BY <1>2
<1> QED BY <1>1, <1>2, <1>5, <1>6 DEF SketchInv

LEMMA SketchesDoCover == SketchInv => SketchesCover
<1> SUFFICES ASSUME SketchInv PROVE SketchesCover
    OBVIOUS
<1>1. \A d \in bloom.held : BloomContains(bloom, d)
    BY DEF SketchInv, BloomContains
<1>2. ASSUME NEW c \in DOMAIN counters, NEW r \in Registers
      PROVE  counters[c].regs[r] = Max(Ranks(counters[c].seen, r))
    <2> DEFINE n == counters[c].regs[r]
               R == Ranks(counters[c].seen, r)
    <2>1. CounterType(counters[c])
        BY DEF SketchInv
    <2>2. GreatestRank(n, counters[c].seen, r) /\ R \subseteq Nat
        BY <2>1, RanksAreNat DEF CounterType
    <2>3. n \in R /\ n \in Nat /\ \A m \in R : m \in Nat /\ n >= m
        BY <2>2 DEF GreatestRank
    <2> HIDE DEF n, R
    <2>4. \A x \in R : (\A m \in R : x >= m) => x = n
        BY <2>3
    <2>5. Max(R) = n
        BY <2>3, <2>4 DEF Max
    <2> QED BY <2>5 DEF n, R
<1> QED BY <1>1, <1>2 DEF SketchesCover, Ranks
-----------------------------------------------------------------------------
(* The sorted vector.                                                      *)
Entries == MapKey \X MapValue
VectorInv == sorted \in Seq(Entries) /\ Ascending(sorted)

LEMMA EntryFacts ==
    ASSUME NEW t \in Seq(Entries)
    PROVE  /\ Len(t) \in Nat /\ DOMAIN t = 1..Len(t) /\ DOMAIN TreeKeys(t) = 1..Len(t)
           /\ \A i \in 1..Len(t) : /\ t[i] \in Entries /\ t[i][1] \in MapKey /\ t[i][1] \in Int
                                   /\ TreeKeys(t)[i] = t[i][1] /\ t[i] = <<t[i][1], t[i][2]>>
<1>1. Len(t) \in Nat /\ DOMAIN t = 1..Len(t) /\ t \in [1..Len(t) -> Entries]
    BY LenProperties
<1>2. \A i \in 1..Len(t) : t[i] \in MapKey \X MapValue
    BY <1>1 DEF Entries
<1>3. \A i \in 1..Len(t) : t[i][1] \in MapKey /\ t[i] = <<t[i][1], t[i][2]>>
    BY <1>2
<1> QED BY <1>1, <1>2, <1>3, StorageAssumption DEF TreeKeys, Entries

(* In a sorted vector the entries with smaller keys come first.            *)
LEMMA SmallerComeFirst ==
    ASSUME NEW t \in Seq(Entries), Ascending(t), NEW k \in MapKey
    PROVE  LET below == Cardinality({i \in DOMAIN TreeKeys(t) : TreeKeys(t)[i] < k})
           IN  below \in 0..Len(t) /\ \A i \in 1..Len(t) : t[i][1] < k <=> i <= below
<1> DEFINE n == Len(t)
           B == {i \in DOMAIN TreeKeys(t) : TreeKeys(t)[i] < k}
           T == {i \in 1..n : ~ (t[i][1] < k)}
<1>1. /\ n \in Nat /\ DOMAIN t = 1..n /\ DOMAIN TreeKeys(t) = 1..n /\ k \in Int
      /\ \A i \in 1..n : t[i][1] \in Int /\ TreeKeys(t)[i] = t[i][1]
    BY EntryFacts, StorageAssumption
<1>2. \E m \in 0..n : \A i \in 1..n : t[i][1] < k <=> i <= m
    <2>1. CASE T = {}
        <3>1. \A i \in 1..n : t[i][1] < k /\ i <= n
            BY <1>1, <2>1
        <3>2. n \in 0..n
            BY <1>1
        <3> QED BY <3>1, <3>2
    <2>2. CASE T # {}
        <3>1. T \in SUBSET Nat
            BY <1>1
        <3>2. PICK x \in T : \A y \in T : x <= y
            BY <2>2, <3>1, LeastOf
        <3>3. x \in 1..n /\ ~ (t[x][1] < k)
            OBVIOUS
        <3>4. ASSUME NEW i \in 1..n PROVE t[i][1] < k <=> i <= x - 1
            <4>1. CASE i < x
                <5>1. i \notin T
                    BY <1>1, <3>2, <3>3, <4>1
                <5> QED BY <1>1, <3>3, <4>1, <5>1
            <4>2. CASE ~ (i < x)
                <5>1. t[x][1] <= t[i][1]
                    BY <1>1, <3>3, <4>2 DEF Ascending
                <5> QED BY <1>1, <3>3, <4>2, <5>1
            <4> QED BY <4>1, <4>2
        <3>5. x - 1 \in 0..n
            BY <1>1, <3>3
        <3> QED BY <3>4, <3>5
    <2> QED BY <2>1, <2>2
<1>3. PICK m \in 0..n : \A i \in 1..n : t[i][1] < k <=> i <= m
    BY <1>2
<1>4. B = 1..m
    <2>1. \A i \in 1..m : i \in 1..n /\ i <= m
        BY <1>1, <1>3
    <2>2. B = {i \in 1..n : i <= m}
        BY <1>1, <1>3
    <2> QED BY <1>1, <2>1, <2>2
<1>5. Cardinality(B) = m
    <2>1. 1 \in Int /\ m \in Int
        OBVIOUS
    <2>2. Cardinality(1..m) = IF 1 > m THEN 0 ELSE m - 1 + 1
        BY <2>1, FS_Interval
    <2>3. Cardinality(1..m) = m
        BY <1>1, <1>3, <2>2
    <2> HIDE DEF B
    <2> QED BY <1>4, <2>3
<1> QED BY <1>3, <1>5

(* Where a search ends: at an entry of the key, or before the larger ones. *)
LEMMA SearchEnds ==
    ASSUME NEW t \in Seq(Entries), Ascending(t), NEW k \in MapKey, NEW p \in BinarySearch(TreeKeys(t), k)
    PROVE  /\ p = [found |-> p.found, at |-> p.at]
           /\ p.found => p.at + 1 \in 1..Len(t) /\ p.at \in Nat /\ t[p.at + 1][1] = k
           /\ ~ p.found => /\ p.at \in 0..Len(t)
                           /\ \A i \in 1..Len(t) : (t[i][1] < k <=> i <= p.at) /\ t[i][1] # k
           /\ p.found \in BOOLEAN
<1> DEFINE keys == TreeKeys(t)
           n == Len(t)
           below == Cardinality({i \in DOMAIN keys : keys[i] < k})
<1>1. /\ n \in Nat /\ DOMAIN keys = 1..n /\ \A i \in 1..n : keys[i] = t[i][1] /\ t[i][1] \in Int
    BY EntryFacts
<1>2. below \in 0..n /\ \A i \in 1..n : t[i][1] < k <=> i <= below
    BY SmallerComeFirst
<1> HIDE DEF below
<1>3. CASE \E i \in DOMAIN keys : keys[i] = k
    <2>1. BinarySearch(keys, k) = {[found |-> TRUE, at |-> i - 1] : i \in {j \in DOMAIN keys : keys[j] = k}}
        BY <1>3 DEF BinarySearch
    <2>2. PICK i \in 1..n : keys[i] = k /\ p = [found |-> TRUE, at |-> i - 1]
        BY <1>1, <2>1
    <2>3. p.found = TRUE /\ p.at = i - 1 /\ i - 1 + 1 = i /\ i - 1 \in Nat
        BY <1>1, <2>2
    <2> QED BY <1>1, <2>2, <2>3
<1>4. CASE ~ \E i \in DOMAIN keys : keys[i] = k
    <2>1. BinarySearch(keys, k) = {[found |-> FALSE, at |-> below]}
        BY <1>4 DEF BinarySearch, below
    <2>2. p = [found |-> FALSE, at |-> below]
        BY <2>1
    <2>3. p.found = FALSE /\ p.at = below
        BY <2>2
    <2> QED BY <1>1, <1>2, <1>4, <2>2, <2>3
<1> QED BY <1>3, <1>4

Inserted(u, t, q, e, S) ==
    /\ u \in Seq(S) /\ Len(u) = Len(t) + 1
    /\ \A i \in 1..(Len(t) + 1) :
         /\ i < q => u[i] = t[i]
         /\ i = q => u[i] = e
         /\ i > q => u[i] = t[i - 1]

LEMMA InsertAtFacts ==
    ASSUME NEW S, NEW t \in Seq(S), NEW q \in 1..(Len(t) + 1), NEW e \in S
    PROVE  Inserted(InsertAt(t, q, e), t, q, e, S)
<1> DEFINE n == Len(t)
           front == SubSeq(t, 1, q - 1)
           back == SubSeq(t, q, n)
           mid == front \o <<e>>
<1>1. n \in Nat /\ t \in [1..n -> S]
    BY LenProperties
<1>2. front \in Seq(S) /\ Len(front) = q - 1 /\ \A i \in 1..(q - 1) : front[i] = t[i]
    <2>1. \A i \in 1..(q - 1) : t[i] \in S
        BY <1>1
    <2>2. /\ front \in Seq(S) /\ Len(front) = (IF 1 <= q - 1 THEN q - 1 - 1 + 1 ELSE 0)
          /\ \A i \in 1..(q - 1 - 1 + 1) : front[i] = t[1 + i - 1]
        BY <1>1, <2>1, SubSeqProperties
    <2>3. q - 1 - 1 + 1 = q - 1 /\ \A i \in 1..(q - 1) : 1 + i - 1 = i
        BY <1>1
    <2>4. Len(front) = q - 1
        BY <1>1, <2>2
    <2> HIDE DEF front
    <2> QED BY <2>2, <2>3, <2>4
<1>3. back \in Seq(S) /\ Len(back) = n - q + 1 /\ \A i \in 1..(n - q + 1) : back[i] = t[q + i - 1]
    <2>1. \A i \in q..n : t[i] \in S
        BY <1>1
    <2>2. back \in Seq(S) /\ Len(back) = (IF q <= n THEN n - q + 1 ELSE 0) /\ \A i \in 1..(n - q + 1) : back[i] = t[q + i - 1]
        BY <1>1, <2>1, SubSeqProperties
    <2> HIDE DEF back
    <2> QED BY <1>1, <2>2
<1>4. <<e>> \in Seq(S) /\ Len(<<e>>) = 1 /\ <<e>>[1] = e
    OBVIOUS
<1> HIDE DEF front, back
<1>5. mid \in Seq(S) /\ Len(mid) = q /\ \A i \in 1..q : mid[i] = IF i <= q - 1 THEN front[i] ELSE <<e>>[i - (q - 1)]
    BY <1>1, <1>2, <1>4, ConcatProperties
<1>30. InsertAt(t, q, e) = mid \o back
    BY DEF InsertAt, front, back
<1> HIDE DEF mid
<1>6. \A i \in 1..q : mid[i] = IF i < q THEN t[i] ELSE e
    <2> TAKE i \in 1..q
    <2>0. q \in Int /\ i \in Int /\ i <= q
        OBVIOUS
    <2>1. CASE i < q
        BY <1>1, <1>2, <1>5, <2>1
    <2>2. CASE i = q
        <3>1. i - (q - 1) = 1 /\ ~ (i <= q - 1)
            BY <1>1, <2>2
        <3>2. mid[i] = <<e>>[i - (q - 1)]
            BY <1>5, <3>1
        <3> QED BY <1>4, <2>0, <2>2, <3>1, <3>2
    <2> QED BY <2>0, <2>1, <2>2
<1>8. /\ mid \o back \in Seq(S) /\ Len(mid \o back) = q + (n - q + 1)
      /\ \A i \in 1..(q + (n - q + 1)) : (mid \o back)[i] = IF i <= q THEN mid[i] ELSE back[i - q]
    <2>1. Len(mid) = q /\ Len(back) = n - q + 1 /\ mid \in Seq(S) /\ back \in Seq(S)
        BY <1>3, <1>5
    <2>2. /\ mid \o back \in Seq(S) /\ Len(mid \o back) = Len(mid) + Len(back)
          /\ \A i \in 1..(Len(mid) + Len(back)) : (mid \o back)[i] = IF i <= Len(mid) THEN mid[i] ELSE back[i - Len(mid)]
        BY <2>1, ConcatProperties
    <2> QED BY <2>1, <2>2
<1>9. q + (n - q + 1) = n + 1
    BY <1>1
<1>10. ASSUME NEW i \in 1..(n + 1)
       PROVE  (mid \o back)[i] = IF i < q THEN t[i] ELSE IF i = q THEN e ELSE t[i - 1]
    <2>1. CASE i <= q
        <3>1. i \in 1..q
            BY <1>1, <2>1
        <3> QED BY <1>1, <1>6, <1>8, <1>9, <2>1, <3>1
    <2>2. CASE ~ (i <= q)
        <3>1. i - q \in 1..(n - q + 1) /\ q + (i - q) - 1 = i - 1 /\ ~ (i < q) /\ i # q
            BY <1>1, <2>2
        <3> QED BY <1>3, <1>8, <1>9, <2>2, <3>1
    <2> QED BY <2>1, <2>2
<1> DEFINE u == InsertAt(t, q, e)
<1>11. u = mid \o back
    BY <1>30
<1> HIDE DEF u
<1>12. u \in Seq(S) /\ Len(u) = n + 1
    BY <1>8, <1>9, <1>11
<1>13. \A i \in 1..(n + 1) :
         /\ i < q => u[i] = t[i]
         /\ i = q => u[i] = e
         /\ i > q => u[i] = t[i - 1]
    <2> TAKE i \in 1..(n + 1)
    <2>1. q \in Int /\ i \in Int
        BY <1>1
    <2>2. (i = q => ~ (i < q)) /\ (i > q => ~ (i < q) /\ i # q)
        BY <2>1
    <2>3. u[i] = IF i < q THEN t[i] ELSE IF i = q THEN e ELSE t[i - 1]
        BY <1>10, <1>11
    <2> QED BY <2>2, <2>3, Zenon
<1>14. Inserted(u, t, q, e, S)
    BY <1>12, <1>13 DEF Inserted
<1> QED BY <1>14 DEF u

LEMMA VectorInductive == VectorInv /\ [MerkleNext \/ SketchNext \/ TreeNext \/ LsmNext]_storageVars => VectorInv'
<1> SUFFICES ASSUME VectorInv, [MerkleNext \/ SketchNext \/ TreeNext \/ LsmNext]_storageVars PROVE VectorInv'
    OBVIOUS
<1>1. CASE UNCHANGED sorted
    BY <1>1 DEF VectorInv
<1>2. CASE TreeInsert
    <2> DEFINE n == Len(sorted)
    <2>0. PICK k \in MapKey, v \in MapValue : \E p \in BinarySearch(TreeKeys(sorted), k) :
             sorted' = InsertAt(sorted, p.at + 1, <<k, v>>)
        BY <1>2 DEF TreeInsert
    <2>1. PICK p \in BinarySearch(TreeKeys(sorted), k) : sorted' = InsertAt(sorted, p.at + 1, <<k, v>>)
        BY <2>0
    <2>2. /\ n \in Nat /\ k \in Int /\ sorted \in Seq(Entries) /\ Ascending(sorted) /\ DOMAIN sorted = 1..n
          /\ \A i \in 1..n : sorted[i][1] \in Int
        BY EntryFacts, StorageAssumption DEF VectorInv
    <2> DEFINE q == p.at + 1
               e == <<k, v>>
    <2>3. /\ q \in 1..(n + 1)
          /\ \A i \in 1..n : (i < q => sorted[i][1] <= k) /\ (i >= q => k <= sorted[i][1])
        <3>1. /\ p.found => p.at + 1 \in 1..n /\ p.at \in Nat /\ sorted[p.at + 1][1] = k
              /\ ~ p.found => p.at \in 0..n /\ \A i \in 1..n : (sorted[i][1] < k <=> i <= p.at) /\ sorted[i][1] # k
            BY <2>2, SearchEnds
        <3>2. CASE p.found
            <4>1. \A i, j \in 1..n : i < j => sorted[i][1] <= sorted[j][1]
                BY <2>2 DEF Ascending
            <4> QED BY <2>2, <3>1, <3>2, <4>1
        <3>3. CASE ~ p.found
            BY <2>2, <3>1, <3>3
        <3> QED BY <3>2, <3>3
    <2>4. e \in Entries /\ e[1] = k
        BY DEF Entries
    <2> HIDE DEF q, e
    <2>5. /\ sorted' \in Seq(Entries) /\ Len(sorted') = n + 1
          /\ \A i \in 1..(n + 1) : /\ i < q => sorted'[i] = sorted[i]
                                   /\ i = q => sorted'[i] = e
                                   /\ i > q => sorted'[i] = sorted[i - 1]
        <3>1. sorted' = InsertAt(sorted, q, e)
            BY <2>1 DEF q, e
        <3>2. q \in 1..(Len(sorted) + 1) /\ sorted \in Seq(Entries) /\ e \in Entries
            BY <2>2, <2>3, <2>4
        <3>3. Inserted(InsertAt(sorted, q, e), sorted, q, e, Entries)
            BY <3>2, InsertAtFacts
        <3>4. Inserted(sorted', sorted, q, e, Entries)
            BY <3>1, <3>3
        <3> QED BY <3>4 DEF Inserted
    <2>6. DOMAIN sorted' = 1..(n + 1)
        BY <2>5, LenProperties
    <2>7. ASSUME NEW i \in 1..(n + 1), NEW j \in 1..(n + 1), i < j PROVE sorted'[i][1] <= sorted'[j][1]
        <3>1. \A a, b \in 1..n : a < b => sorted[a][1] <= sorted[b][1]
            BY <2>2 DEF Ascending
        <3>2. CASE j < q
            <4>1. i \in 1..n /\ j \in 1..n /\ i < q
                BY <2>2, <2>3, <2>7, <3>2
            <4> QED BY <2>2, <2>5, <2>7, <3>1, <3>2, <4>1
        <3>3. CASE j = q
            <4>1. i \in 1..n /\ i < q /\ ~ (j < q)
                BY <2>2, <2>3, <2>7, <3>3
            <4> QED BY <2>3, <2>4, <2>5, <3>3, <4>1
        <3>4. CASE j > q
            <4>1. j - 1 \in 1..n /\ j - 1 >= q /\ j > q
                BY <2>2, <2>3, <3>4
            <4>2. sorted'[j] = sorted[j - 1] /\ k <= sorted[j - 1][1]
                BY <2>3, <2>5, <4>1
            <4>3. CASE i < q
                <5>1. i \in 1..n /\ i < j - 1 /\ sorted'[i] = sorted[i]
                    BY <2>2, <2>3, <2>5, <4>1, <4>3
                <5> QED BY <3>1, <4>1, <4>2, <5>1
            <4>4. CASE i = q
                <5>1. sorted'[i] = e
                    BY <2>5, <4>4
                <5> QED BY <2>4, <4>2, <5>1
            <4>5. CASE i > q
                <5>1. i - 1 \in 1..n /\ i - 1 < j - 1 /\ i > q
                    BY <2>2, <2>3, <2>7, <4>5
                <5>2. sorted'[i] = sorted[i - 1]
                    BY <2>5, <5>1
                <5> QED BY <3>1, <4>1, <4>2, <5>1, <5>2
            <4> QED BY <2>2, <2>3, <4>3, <4>4, <4>5
        <3> QED BY <2>2, <2>3, <3>2, <3>3, <3>4
    <2> QED BY <2>5, <2>6, <2>7 DEF VectorInv, Ascending
<1>3. CASE MerkleNext \/ SketchNext \/ LsmNext \/ UNCHANGED storageVars
    BY <1>1, <1>3 DEF MerkleNext, SketchNext, LsmNext, storageVars
<1> QED BY <1>2, <1>3 DEF TreeNext

(* A scan is the part of the vector from its start to its end.             *)
LEMMA ScanIsPart ==
    ASSUME NEW t \in Seq(Entries), Ascending(t), IsInjective(TreeKeys(t)), t # <<>>,
           NEW from \in MapKey, NEW to \in MapKey, from <= to, NEW scan \in RangeScan(t, from, to)
    PROVE  \/ (\A i \in 1..Len(t) : t[i][1] > to) /\ scan = SubSeq(t, 1, 1)
           \/ /\ \E i \in 1..Len(t) : ~ (t[i][1] > to)
              /\ \E q \in 1..(Len(t) + 1), e \in 1..Len(t) :
                    /\ scan = SubSeq(t, q, e)
                    /\ \A i \in 1..Len(t) : i \in q..e <=> from <= t[i][1] /\ t[i][1] <= to
<1> DEFINE n == Len(t)
<1>1. /\ n \in Nat /\ n > 0 /\ DOMAIN t = 1..n /\ DOMAIN TreeKeys(t) = 1..n /\ from \in Int /\ to \in Int
      /\ \A i \in 1..n : t[i][1] \in Int /\ TreeKeys(t)[i] = t[i][1]
    BY EntryFacts, EmptySeq, StorageAssumption
<1>2. \A i, j \in 1..n : i < j => t[i][1] < t[j][1]
    <2> TAKE i, j \in 1..n
    <2> HAVE i < j
    <2>1. t[i][1] <= t[j][1]
        BY <1>1 DEF Ascending
    <2>2. t[i][1] # t[j][1]
        <3>1. TreeKeys(t)[i] = TreeKeys(t)[j] => i = j
            BY <1>1 DEF IsInjective
        <3> QED BY <1>1, <3>1
    <2> QED BY <1>1, <2>1, <2>2
<1>3. PICK s \in BinarySearch(TreeKeys(t), from), last \in ScanEnds(t, to) : scan = SubSeq(t, s.at + 1, last + 1)
    BY DEF RangeScan
<1>4. PICK p \in BinarySearch(TreeKeys(t), to) :
         last = LET e == IF p.found THEN p.at ELSE Saturating(p.at - 1)
                IN IF e > Saturating(Len(t) - 1) THEN Saturating(Len(t) - 1) ELSE e
    BY <1>3 DEF ScanEnds
<1> DEFINE e0 == IF p.found THEN p.at ELSE Saturating(p.at - 1)
<1>20. last = IF e0 > Saturating(n - 1) THEN Saturating(n - 1) ELSE e0
    BY <1>4
<1>21. Saturating(n - 1) = n - 1 /\ Saturating(0 - 1) = 0 /\ \A m \in 1..n : Saturating(m - 1) = m - 1
    BY <1>1 DEF Saturating
<1>5. /\ s.found => s.at + 1 \in 1..n /\ s.at \in Nat /\ t[s.at + 1][1] = from
      /\ ~ s.found => s.at \in 0..n /\ \A i \in 1..n : (t[i][1] < from <=> i <= s.at) /\ t[i][1] # from
    BY SearchEnds
<1>6. /\ p.found => p.at + 1 \in 1..n /\ p.at \in Nat /\ t[p.at + 1][1] = to
      /\ ~ p.found => p.at \in 0..n /\ \A i \in 1..n : (t[i][1] < to <=> i <= p.at) /\ t[i][1] # to
    BY SearchEnds
<1>7. s.at + 1 \in 1..(n + 1) /\ s.at \in Nat /\ \A i \in 1..n : i >= s.at + 1 <=> from <= t[i][1]
    <2>1. CASE s.found
        <3>1. s.at + 1 \in 1..n /\ t[s.at + 1][1] = from
            BY <1>5, <2>1
        <3>2. ASSUME NEW i \in 1..n PROVE i >= s.at + 1 <=> from <= t[i][1]
            <4>1. CASE i < s.at + 1
                BY <1>1, <1>2, <1>5, <2>1, <3>1, <4>1
            <4>2. CASE i = s.at + 1
                BY <1>1, <1>5, <2>1, <3>1, <4>2
            <4>3. CASE i > s.at + 1
                BY <1>1, <1>2, <1>5, <2>1, <3>1, <4>3
            <4> QED BY <1>5, <2>1, <4>1, <4>2, <4>3
        <3> QED BY <1>1, <1>5, <2>1, <3>1, <3>2
    <2>2. CASE ~ s.found
        BY <1>1, <1>5, <2>2
    <2> QED BY <2>1, <2>2
<1>8. CASE \A i \in 1..n : t[i][1] > to
    <2>1. ~ p.found
        BY <1>1, <1>6, <1>8
    <2>2. p.at = 0
        <3>1. p.at \in 0..n /\ (p.at > 0 => t[1][1] < to)
            BY <1>1, <1>6, <2>1
        <3>2. t[1][1] > to /\ t[1][1] \in Int
            BY <1>1, <1>8
        <3> QED BY <1>1, <3>1, <3>2
    <2>3. last = 0
        <3>1. e0 = 0
            BY <1>21, <2>1, <2>2
        <3> HIDE DEF e0
        <3> QED BY <1>1, <1>20, <1>21, <3>1
    <2>4. s.at = 0
        <3>1. from <= t[1][1]
            BY <1>1, <1>8
        <3>2. 1 >= s.at + 1
            BY <1>1, <1>7, <3>1
        <3> QED BY <1>7, <3>2
    <2> QED BY <1>3, <1>8, <2>3, <2>4
<1>9. CASE \E i \in 1..n : ~ (t[i][1] > to)
    <2>1. last + 1 \in 1..n /\ \A i \in 1..n : i <= last + 1 <=> t[i][1] <= to
        <3>1. CASE p.found
            <4>1. last = p.at
                <5>1. e0 = p.at /\ p.at + 1 \in 1..n /\ p.at \in Nat
                    BY <1>6, <3>1
                <5> HIDE DEF e0
                <5> QED BY <1>1, <1>20, <1>21, <5>1
            <4>2. ASSUME NEW i \in 1..n PROVE i <= p.at + 1 <=> t[i][1] <= to
                <5>1. CASE i < p.at + 1
                    BY <1>1, <1>2, <1>6, <3>1, <5>1
                <5>2. CASE i = p.at + 1
                    BY <1>1, <1>6, <3>1, <5>2
                <5>3. CASE i > p.at + 1
                    BY <1>1, <1>2, <1>6, <3>1, <5>3
                <5> QED BY <1>6, <3>1, <5>1, <5>2, <5>3
            <4> QED BY <1>6, <3>1, <4>1, <4>2
        <3>2. CASE ~ p.found
            <4>1. p.at \in 0..n /\ \A i \in 1..n : (t[i][1] < to <=> i <= p.at) /\ t[i][1] # to
                BY <1>6, <3>2
            <4>2. PICK i \in 1..n : ~ (t[i][1] > to)
                BY <1>9
            <4>3. t[i][1] < to
                BY <1>1, <4>1, <4>2
            <4>4. p.at >= 1
                BY <1>1, <4>1, <4>2, <4>3
            <4>5. last = p.at - 1
                <5>1. e0 = p.at - 1 /\ p.at \in 1..n
                    BY <1>1, <1>21, <3>2, <4>1, <4>4
                <5> HIDE DEF e0
                <5> QED BY <1>1, <1>20, <1>21, <5>1
            <4> QED BY <1>1, <4>1, <4>4, <4>5
        <3> QED BY <3>1, <3>2
    <2>2. \A i \in 1..n : i \in (s.at + 1)..(last + 1) <=> from <= t[i][1] /\ t[i][1] <= to
        BY <1>1, <1>7, <2>1
    <2> QED BY <1>3, <1>7, <1>9, <2>1, <2>2
<1> QED BY <1>8, <1>9

LEMMA VectorAnswers == VectorInv => VectorIsSorted
<1> SUFFICES ASSUME VectorInv PROVE VectorIsSorted
    OBVIOUS
<1> DEFINE n == Len(sorted)
<1>1. /\ n \in Nat /\ DOMAIN sorted = 1..n /\ DOMAIN TreeKeys(sorted) = 1..n
      /\ sorted \in Seq(Entries) /\ Ascending(sorted)
      /\ \A i \in 1..n : /\ sorted[i] \in Entries /\ sorted[i][1] \in Int /\ TreeKeys(sorted)[i] = sorted[i][1]
                         /\ sorted[i] = <<sorted[i][1], sorted[i][2]>>
    BY EntryFacts DEF VectorInv
<1>2. ASSUME NEW k \in MapKey, NEW v \in TreeSearch(sorted, k), v # Nothing PROVE <<k, v>> \in Range(sorted)
    <2>1. PICK p \in BinarySearch(TreeKeys(sorted), k) : v = IF p.found THEN sorted[p.at + 1][2] ELSE Nothing
        BY DEF TreeSearch
    <2>2. p.found /\ v = sorted[p.at + 1][2]
        BY <1>2, <2>1
    <2>3. p.at + 1 \in 1..n /\ sorted[p.at + 1][1] = k
        BY <1>1, <2>2, SearchEnds
    <2>4. sorted[p.at + 1] = <<k, v>>
        BY <1>1, <2>2, <2>3
    <2> QED BY <1>1, <2>3, <2>4 DEF Range
<1>3. ASSUME sorted # <<>>, IsInjective(TreeKeys(sorted)), NEW from \in MapKey, NEW to \in MapKey, from <= to,
             NEW scan \in RangeScan(sorted, from, to)
      PROVE  IF \A e \in Range(sorted) : e[1] > to THEN scan = <<Head(sorted)>>
             ELSE /\ Range(scan) = {e \in Range(sorted) : from <= e[1] /\ e[1] <= to}
                  /\ Ascending(scan) /\ IsInjective(scan)
    <2>1. (\A e \in Range(sorted) : e[1] > to) <=> \A i \in 1..n : sorted[i][1] > to
        BY <1>1 DEF Range
    <2>2. CASE (\A i \in 1..n : sorted[i][1] > to) /\ scan = SubSeq(sorted, 1, 1)
        <3>1. n > 0
            BY <1>1, <1>3, EmptySeq
        <3>2. \A i \in 1..1 : sorted[i] \in Entries
            BY <1>1, <3>1
        <3>3. scan \in Seq(Entries) /\ Len(scan) = 1 /\ scan[1] = sorted[1]
            <4>1. /\ SubSeq(sorted, 1, 1) \in Seq(Entries) /\ Len(SubSeq(sorted, 1, 1)) = (IF 1 <= 1 THEN 1 - 1 + 1 ELSE 0)
                  /\ \A i \in 1..(1 - 1 + 1) : SubSeq(sorted, 1, 1)[i] = sorted[1 + i - 1]
                BY <3>2, SubSeqProperties
            <4> QED BY <2>2, <4>1
        <3>4. Head(sorted) = sorted[1]
            BY <1>1
        <3>5. scan = <<Head(sorted)>>
            <4>1. <<sorted[1]>> \in Seq(Entries) /\ Len(<<sorted[1]>>) = 1 /\ <<sorted[1]>>[1] = sorted[1]
                BY <3>2
            <4> HIDE DEF n
            <4> QED BY <3>3, <3>4, <4>1, SeqEqual
        <3> QED BY <2>1, <2>2, <3>5
    <2>3. ASSUME NEW q \in 1..(n + 1), NEW e \in 1..n, \E i \in 1..n : ~ (sorted[i][1] > to),
                 scan = SubSeq(sorted, q, e),
                 \A i \in 1..n : i \in q..e <=> from <= sorted[i][1] /\ sorted[i][1] <= to
          PROVE  /\ Range(scan) = {x \in Range(sorted) : from <= x[1] /\ x[1] <= to}
                 /\ Ascending(scan) /\ IsInjective(scan)
        <3>1. \A i \in q..e : i \in 1..n /\ sorted[i] \in Entries
            BY <1>1
        <3>2. /\ scan \in Seq(Entries) /\ Len(scan) = (IF q <= e THEN e - q + 1 ELSE 0)
              /\ \A i \in 1..(e - q + 1) : scan[i] = sorted[q + i - 1]
            BY <1>1, <2>3, <3>1, SubSeqProperties
        <3>3. DOMAIN scan = 1..(e - q + 1)
            <4>1. DOMAIN scan = 1..Len(scan)
                BY <3>2, LenProperties
            <4> QED BY <1>1, <3>2, <4>1
        <3>4. \A i \in 1..(e - q + 1) : q + i - 1 \in q..e /\ q + i - 1 \in 1..n
            BY <1>1
        <3>5. \A i \in q..e : i - q + 1 \in 1..(e - q + 1) /\ q + (i - q + 1) - 1 = i
            BY <1>1
        <3>6. Range(scan) = {sorted[i] : i \in q..e}
            <4>1. ASSUME NEW i \in q..e PROVE sorted[i] \in Range(scan)
                <5>1. scan[i - q + 1] = sorted[i] /\ i - q + 1 \in DOMAIN scan
                    BY <3>2, <3>3, <3>5
                <5> QED BY <5>1 DEF Range
            <4>2. ASSUME NEW x \in Range(scan) PROVE x \in {sorted[i] : i \in q..e}
                <5>1. PICK i \in DOMAIN scan : x = scan[i]
                    BY DEF Range
                <5>2. x = sorted[q + i - 1] /\ q + i - 1 \in q..e
                    BY <3>2, <3>3, <3>4, <5>1
                <5> QED BY <5>2
            <4> QED BY <4>1, <4>2
        <3>7. Range(scan) = {x \in Range(sorted) : from <= x[1] /\ x[1] <= to}
            <4>1. \A i \in q..e : i \in 1..n /\ from <= sorted[i][1] /\ sorted[i][1] <= to
                BY <2>3, <3>1
            <4> QED BY <1>1, <2>3, <3>6, <4>1 DEF Range
        <3>8. Ascending(scan)
            <4> SUFFICES ASSUME NEW i \in DOMAIN scan, NEW j \in DOMAIN scan, i < j
                         PROVE  scan[i][1] <= scan[j][1]
                BY DEF Ascending
            <4>1. scan[i] = sorted[q + i - 1] /\ scan[j] = sorted[q + j - 1]
                BY <3>2, <3>3
            <4>2. q + i - 1 \in 1..n /\ q + j - 1 \in 1..n /\ q + i - 1 < q + j - 1
                BY <1>1, <3>3, <3>4
            <4> QED BY <1>1, <4>1, <4>2 DEF Ascending
        <3>9. IsInjective(scan)
            <4> SUFFICES ASSUME NEW i \in DOMAIN scan, NEW j \in DOMAIN scan, scan[i] = scan[j] PROVE i = j
                BY DEF IsInjective
            <4>1. scan[i] = sorted[q + i - 1] /\ scan[j] = sorted[q + j - 1]
                BY <3>2, <3>3
            <4>2. q + i - 1 \in 1..n /\ q + j - 1 \in 1..n
                BY <1>1, <3>3, <3>4
            <4>3. TreeKeys(sorted)[q + i - 1] = TreeKeys(sorted)[q + j - 1]
                BY <1>1, <4>1, <4>2
            <4>4. q + i - 1 = q + j - 1
                BY <1>1, <1>3, <4>2, <4>3 DEF IsInjective
            <4>5. i \in Int /\ j \in Int /\ q \in Int
                BY <3>3
            <4> QED BY <4>4, <4>5
        <3> QED BY <3>7, <3>8, <3>9
    <2>4. \/ (\A i \in 1..n : sorted[i][1] > to) /\ scan = SubSeq(sorted, 1, 1)
          \/ /\ \E i \in 1..n : ~ (sorted[i][1] > to)
             /\ \E q \in 1..(n + 1), e \in 1..n :
                   /\ scan = SubSeq(sorted, q, e)
                   /\ \A i \in 1..n : i \in q..e <=> from <= sorted[i][1] /\ sorted[i][1] <= to
        <3>1. /\ sorted \in Seq(Entries) /\ Ascending(sorted) /\ IsInjective(TreeKeys(sorted)) /\ sorted # <<>>
              /\ from <= to
            BY <1>1, <1>3
        <3> HIDE DEF n
        <3>2. \A u \in Seq(Entries) : Ascending(u) /\ IsInjective(TreeKeys(u)) /\ u # <<>> =>
                 \A z \in RangeScan(u, from, to) :
                    \/ (\A i \in 1..Len(u) : u[i][1] > to) /\ z = SubSeq(u, 1, 1)
                    \/ /\ \E i \in 1..Len(u) : ~ (u[i][1] > to)
                       /\ \E q \in 1..(Len(u) + 1), e \in 1..Len(u) :
                             /\ z = SubSeq(u, q, e)
                             /\ \A i \in 1..Len(u) : i \in q..e <=> from <= u[i][1] /\ u[i][1] <= to
            BY <3>1, ScanIsPart
        <3> QED BY <1>3, <3>1, <3>2 DEF n
    <2> QED BY <2>1, <2>2, <2>3, <2>4
<1> QED BY <1>1, <1>2, <1>3 DEF VectorIsSorted
-----------------------------------------------------------------------------
(* The Merkle tree.  A hash is carried up the tree by HashUp while the     *)
(* proof was collected on the same way: at each level the hash is that of  *)
(* the node above the leaf exactly when the datum is that of the leaf.     *)
HashCourse(f, n, d, proof) == f = [m \in 0..n |-> IF m = 0 THEN LeafHash(d) ELSE Joined(f[m - 1], proof[m])]

LEMMA HashCourseExists ==
    ASSUME NEW d, NEW proof, NEW len \in Nat
    PROVE  \E f : HashCourse(f, len, d, proof)
<1> DEFINE none == {n \in Nat : ~ \E f : HashCourse(f, n, d, proof)}
<1>1. ASSUME none # {} PROVE FALSE
    <2>1. PICK n \in none : \A m \in none : n <= m
        BY <1>1, LeastOf
    <2>2. n # 0
        <3>1. HashCourse([m \in 0..0 |-> LeafHash(d)], 0, d, proof)
            BY DEF HashCourse
        <3> QED BY <2>1, <3>1
    <2>3. n - 1 \in Nat /\ ~ (n <= n - 1)
        BY <2>1, <2>2
    <2>4. PICK f : HashCourse(f, n - 1, d, proof)
        BY <2>1, <2>3
    <2> DEFINE g == [m \in 0..n |-> IF m = n THEN Joined(f[n - 1], proof[n]) ELSE f[m]]
    <2>5. ASSUME NEW m \in 0..n PROVE g[m] = IF m = 0 THEN LeafHash(d) ELSE Joined(g[m - 1], proof[m])
        <3>1. CASE m = n
            <4>1. m # 0 /\ m - 1 \in 0..n /\ m - 1 # n
                BY <2>1, <2>2, <3>1
            <4> QED BY <3>1, <4>1
        <3>2. CASE m # n
            <4>1. m \in 0..(n - 1) /\ (m # 0 => m - 1 \in 0..n /\ m - 1 # n)
                BY <2>1, <3>2
            <4>2. f[m] = IF m = 0 THEN LeafHash(d) ELSE Joined(f[m - 1], proof[m])
                BY <2>4, <4>1, Zenon DEF HashCourse
            <4> QED BY <3>2, <4>1, <4>2
        <3> QED BY <3>1, <3>2
    <2>6. HashCourse(g, n, d, proof)
        BY <2>5, Zenon DEF HashCourse
    <2> QED BY <2>1, <2>6
<1> QED BY <1>1

LEMMA HashIsCourse ==
    ASSUME NEW d, NEW proof, NEW len \in Nat, Len(proof) = len
    PROVE  \E f : /\ HashUp(d, proof) = f[len]
                  /\ \A m \in 0..len : /\ m = 0 => f[m] = LeafHash(d)
                                       /\ m # 0 => f[m] = Joined(f[m - 1], proof[m])
<1> DEFINE f == CHOOSE h : HashCourse(h, len, d, proof)
<1>1. HashUp(d, proof) = f[len]
    BY DEF HashUp, HashCourse
<1>2. HashCourse(f, len, d, proof)
    BY HashCourseExists
<1> HIDE DEF f
<1>3. \A m \in 0..len : f[m] = IF m = 0 THEN LeafHash(d) ELSE Joined(f[m - 1], proof[m])
    BY <1>2, Zenon DEF HashCourse
<1>4. \A m \in 0..len : /\ m = 0 => f[m] = LeafHash(d)
                        /\ m # 0 => f[m] = Joined(f[m - 1], proof[m])
    BY <1>3, Zenon
<1> QED BY <1>1, <1>4

LEMMA NothingToHash ==
    ASSUME NEW d
    PROVE  HashUp(d, <<>>) = LeafHash(d)
<1>1. Len(<<>>) = 0 /\ 0 \in Nat
    BY EmptySeq
<1>2. PICK f : HashUp(d, <<>>) = f[0] /\ \A m \in 0..0 : m = 0 => f[m] = LeafHash(d)
    BY <1>1, HashIsCourse
<1> QED BY <1>2

LEMMA OneMoreHash ==
    ASSUME NEW d, NEW proof, IsSeq(proof), NEW e
    PROVE  HashUp(d, Append(proof, e)) = Joined(HashUp(d, proof), e)
<1> DEFINE len == Len(proof)
           more == Append(proof, e)
<1>1. len \in Nat /\ DOMAIN proof = 1..len /\ more[len + 1] = e /\ \A n \in 1..len : more[n] = proof[n]
    BY SeqFacts, AppendFacts
<1>2. Len(more) = len + 1
    BY DEF IsSeq
<1> HIDE DEF len, more
<1>3. PICK f : /\ HashUp(d, proof) = f[len]
               /\ \A m \in 0..len : /\ m = 0 => f[m] = LeafHash(d)
                                    /\ m # 0 => f[m] = Joined(f[m - 1], proof[m])
    BY <1>1, HashIsCourse DEF len
<1>4. PICK g : /\ HashUp(d, more) = g[len + 1]
               /\ \A m \in 0..(len + 1) : /\ m = 0 => g[m] = LeafHash(d)
                                          /\ m # 0 => g[m] = Joined(g[m - 1], more[m])
    <2>1. PICK n \in Nat : n = len + 1
        BY <1>1
    <2>2. \E g : /\ HashUp(d, more) = g[n]
                 /\ \A m \in 0..n : /\ m = 0 => g[m] = LeafHash(d)
                                    /\ m # 0 => g[m] = Joined(g[m - 1], more[m])
        BY <1>2, <2>1, HashIsCourse
    <2> QED BY <2>1, <2>2
<1> DEFINE bad == {m \in 0..len : f[m] # g[m]}
<1>5. ASSUME bad # {} PROVE FALSE
    <2>1. bad \in SUBSET Nat
        OBVIOUS
    <2>2. PICK m \in bad : \A k \in bad : m <= k
        BY <1>5, <2>1, LeastOf
    <2>3. m \in 0..len /\ m \in 0..(len + 1) /\ f[m] # g[m]
        BY <1>1, <2>2
    <2>4. m # 0
        BY <1>3, <1>4, <2>3
    <2>5. m - 1 \in 0..len /\ m \in 1..len /\ ~ (m <= m - 1)
        BY <1>1, <2>3, <2>4
    <2>6. f[m - 1] = g[m - 1]
        BY <2>2, <2>5
    <2>7. f[m] = Joined(f[m - 1], proof[m]) /\ g[m] = Joined(g[m - 1], more[m]) /\ more[m] = proof[m]
        BY <1>1, <1>3, <1>4, <2>3, <2>4, <2>5
    <2> QED BY <2>3, <2>6, <2>7
<1>6. f[len] = g[len]
    BY <1>1, <1>5
<1>7. g[len + 1] = Joined(g[len], more[len + 1])
    <2>1. len + 1 \in 0..(len + 1) /\ len + 1 # 0 /\ (len + 1) - 1 = len
        BY <1>1
    <2> QED BY <1>4, <2>1
<1> QED BY <1>1, <1>3, <1>4, <1>6, <1>7 DEF more
(* The level above holds, over each node, the node made of it and its      *)
(* sibling, or the node itself when it is the odd one.                     *)
LEMMA AboveFacts ==
    ASSUME NEW level, IsSeq(level), level # <<>>
    PROVE  /\ IsSeq(Above(level)) /\ Len(Above(level)) = (Len(level) + 1) \div 2
           /\ \A x \in 0..(Len(level) - 1) :
                /\ x % 2 = 0 /\ x + 1 < Len(level) => Above(level)[x \div 2 + 1] = NodeHash(level[x + 1], level[x + 2])
                /\ x % 2 = 0 /\ ~ (x + 1 < Len(level)) => Above(level)[x \div 2 + 1] = level[x + 1]
                /\ x % 2 # 0 => Above(level)[x \div 2 + 1] = NodeHash(level[x], level[x + 1])
<1> DEFINE len == Len(level)
           half == (len + 1) \div 2
           up == Above(level)
           R == {up[i] : i \in 1..half}
<1>1. len \in Nat /\ len # 0
    BY SeqFacts
<1>2. half \in Nat /\ (\A i \in Nat : i \in 1..half <=> i # 0 /\ 2 * i <= len + 1)
    BY <1>1
<1>3. up = [i \in 1..half |-> IF 2 * i <= len THEN NodeHash(level[2 * i - 1], level[2 * i]) ELSE level[2 * i - 1]]
    BY DEF Above
<1> HIDE DEF len, half, up
<1>4. up \in [1..half -> R]
    BY <1>3
<1> HIDE DEF R
<1>5. up \in Seq(R) /\ Len(up) = half
    <2>1. up \in Seq(R)
        BY <1>2, <1>4, SeqDef
    <2>2. DOMAIN up = 1..half /\ DOMAIN up = 1..Len(up) /\ Len(up) \in Nat
        BY <1>4, <2>1, LenProperties
    <2> QED BY <1>2, <2>1, <2>2
<1>6. ASSUME NEW x \in 0..(len - 1)
      PROVE  /\ x % 2 = 0 /\ x + 1 < len => up[x \div 2 + 1] = NodeHash(level[x + 1], level[x + 2])
             /\ x % 2 = 0 /\ ~ (x + 1 < len) => up[x \div 2 + 1] = level[x + 1]
             /\ x % 2 # 0 => up[x \div 2 + 1] = NodeHash(level[x], level[x + 1])
    <2> DEFINE i == x \div 2 + 1
    <2>1. CASE x % 2 = 0
        <3>1. i \in Nat /\ 2 * i = x + 2 /\ 2 * i - 1 = x + 1 /\ i # 0 /\ 2 * i <= len + 1
            BY <1>1, <2>1
        <3>2. i \in 1..half
            BY <1>2, <3>1
        <3> HIDE DEF i
        <3>3. /\ x + 1 < len => 2 * i <= len
              /\ ~ (x + 1 < len) => ~ (2 * i <= len)
            BY <1>1, <3>1
        <3>4. up[i] = IF 2 * i <= len THEN NodeHash(level[x + 1], level[x + 2]) ELSE level[x + 1]
            BY <1>3, <3>1, <3>2
        <3> QED BY <2>1, <3>3, <3>4 DEF i
    <2>2. CASE x % 2 # 0
        <3>1. i \in Nat /\ 2 * i = x + 1 /\ 2 * i - 1 = x /\ i # 0 /\ 2 * i <= len
            BY <1>1, <2>2
        <3>2. i \in 1..half
            BY <1>1, <1>2, <3>1
        <3> HIDE DEF i
        <3>3. up[i] = NodeHash(level[x], level[x + 1])
            BY <1>3, <3>1, <3>2
        <3> QED BY <2>2, <3>3 DEF i
    <2> QED BY <2>1, <2>2
<1>7. IsSeq(up)
    BY <1>5 DEF IsSeq
<1> QED BY <1>5, <1>6, <1>7 DEF len, half, up

(* One step up: the hash is that of the node above as it was that of the   *)
(* node below.                                                             *)
LEMMA StepUpKeeps ==
    ASSUME NEW level, IsSeq(level), NEW way, NEW d, NEW same \in BOOLEAN,
           way.idx \in 0..(Len(level) - 1), IsSeq(way.proof),
           (HashUp(d, way.proof) = level[way.idx + 1]) <=> same
    PROVE  /\ StepUp(way, level).idx \in 0..(Len(Above(level)) - 1)
           /\ IsSeq(StepUp(way, level).proof)
           /\ (HashUp(d, StepUp(way, level).proof) = Above(level)[StepUp(way, level).idx + 1]) <=> same
<1> DEFINE len == Len(level)
           x == way.idx
           p == way.proof
           up == Above(level)
           next == StepUp(way, level)
<1>1. len \in Nat /\ x \in 0..(len - 1) /\ level # <<>>
    BY SeqFacts
<1>2. /\ next.idx = x \div 2
      /\ Sibling(x) < len => next.proof = Append(p, <<level[Sibling(x) + 1], x % 2 = 0>>)
      /\ ~ (Sibling(x) < len) => next.proof = p
    BY DEF StepUp
<1>3. /\ IsSeq(up) /\ Len(up) = (len + 1) \div 2
      /\ x % 2 = 0 /\ x + 1 < len => up[x \div 2 + 1] = NodeHash(level[x + 1], level[x + 2])
      /\ x % 2 = 0 /\ ~ (x + 1 < len) => up[x \div 2 + 1] = level[x + 1]
      /\ x % 2 # 0 => up[x \div 2 + 1] = NodeHash(level[x], level[x + 1])
    <2> HIDE DEF x, up
    <2>1. /\ IsSeq(up) /\ Len(up) = (len + 1) \div 2
          /\ \A y \in 0..(len - 1) :
                /\ y % 2 = 0 /\ y + 1 < len => up[y \div 2 + 1] = NodeHash(level[y + 1], level[y + 2])
                /\ y % 2 = 0 /\ ~ (y + 1 < len) => up[y \div 2 + 1] = level[y + 1]
                /\ y % 2 # 0 => up[y \div 2 + 1] = NodeHash(level[y], level[y + 1])
        BY <1>1, AboveFacts DEF up
    <2> QED BY <1>1, <2>1
<1>4. IsSeq(p) /\ ((HashUp(d, p) = level[x + 1]) <=> same)
    OBVIOUS
<1> HIDE DEF len, x, p, up, next
<1>5. next.idx \in 0..(Len(up) - 1)
    BY <1>1, <1>2, <1>3
<1>6. ASSUME x % 2 = 0 /\ x + 1 < len
      PROVE  IsSeq(next.proof) /\ ((HashUp(d, next.proof) = up[next.idx + 1]) <=> same)
    <2>1. Sibling(x) = x + 1 /\ Sibling(x) + 1 = x + 2
        BY <1>1, <1>6 DEF Sibling
    <2>2. PICK e : e = <<level[x + 2], TRUE>>
        OBVIOUS
    <2>3. next.proof = Append(p, e)
        BY <1>2, <1>6, <2>1, <2>2
    <2>4. HashUp(d, next.proof) = Joined(HashUp(d, p), e) /\ IsSeq(next.proof)
        BY <1>4, <2>3, OneMoreHash, AppendFacts
    <2>5. Joined(HashUp(d, p), e) = NodeHash(HashUp(d, p), level[x + 2])
        BY <2>2 DEF Joined
    <2>6. (NodeHash(HashUp(d, p), level[x + 2]) = NodeHash(level[x + 1], level[x + 2])) <=> HashUp(d, p) = level[x + 1]
        BY DEF NodeHash, HashBytes
    <2> QED BY <1>2, <1>3, <1>4, <1>6, <2>4, <2>5, <2>6
<1>7. ASSUME x % 2 = 0 /\ ~ (x + 1 < len)
      PROVE  IsSeq(next.proof) /\ ((HashUp(d, next.proof) = up[next.idx + 1]) <=> same)
    <2>1. Sibling(x) = x + 1
        BY <1>1, <1>7 DEF Sibling
    <2> QED BY <1>2, <1>3, <1>4, <1>7, <2>1
<1>8. ASSUME x % 2 # 0
      PROVE  IsSeq(next.proof) /\ ((HashUp(d, next.proof) = up[next.idx + 1]) <=> same)
    <2>1. Sibling(x) = x - 1 /\ Sibling(x) + 1 = x /\ Sibling(x) < len
        BY <1>1, <1>8 DEF Sibling
    <2>2. PICK e : e = <<level[x], FALSE>>
        OBVIOUS
    <2>3. next.proof = Append(p, e)
        BY <1>2, <1>8, <2>1, <2>2
    <2>4. HashUp(d, next.proof) = Joined(HashUp(d, p), e) /\ IsSeq(next.proof)
        BY <1>4, <2>3, OneMoreHash, AppendFacts
    <2>5. Joined(HashUp(d, p), e) = NodeHash(level[x], HashUp(d, p))
        BY <2>2 DEF Joined
    <2>6. (NodeHash(level[x], HashUp(d, p)) = NodeHash(level[x], level[x + 1])) <=> HashUp(d, p) = level[x + 1]
        BY DEF NodeHash, HashBytes
    <2> QED BY <1>2, <1>3, <1>4, <1>8, <2>4, <2>5, <2>6
<1>9. IsSeq(next.proof) /\ ((HashUp(d, next.proof) = up[next.idx + 1]) <=> same)
    BY <1>6, <1>7, <1>8
<1> QED BY <1>5, <1>9 DEF up, next
(* The way up through the levels has one course too.                       *)
WayCourse(f, n, levels, idx) ==
  f = [m \in 0..n |-> IF m = 0 THEN [idx |-> idx, proof |-> <<>>] ELSE StepUp(f[m - 1], levels[m])]

LEMMA WayCourseExists ==
    ASSUME NEW levels, NEW idx, NEW len \in Nat
    PROVE  \E f : WayCourse(f, len, levels, idx)
<1> DEFINE none == {n \in Nat : ~ \E f : WayCourse(f, n, levels, idx)}
           start == [idx |-> idx, proof |-> <<>>]
<1>1. ASSUME none # {} PROVE FALSE
    <2>1. PICK n \in none : \A m \in none : n <= m
        BY <1>1, LeastOf
    <2>2. n # 0
        <3>1. WayCourse([m \in 0..0 |-> start], 0, levels, idx)
            BY DEF WayCourse
        <3> QED BY <2>1, <3>1
    <2>3. n - 1 \in Nat /\ ~ (n <= n - 1)
        BY <2>1, <2>2
    <2>4. PICK f : WayCourse(f, n - 1, levels, idx)
        BY <2>1, <2>3
    <2> DEFINE g == [m \in 0..n |-> IF m = n THEN StepUp(f[n - 1], levels[n]) ELSE f[m]]
    <2>5. ASSUME NEW m \in 0..n PROVE g[m] = IF m = 0 THEN start ELSE StepUp(g[m - 1], levels[m])
        <3> HIDE DEF start
        <3>1. CASE m = n
            <4>1. m # 0 /\ m - 1 \in 0..n /\ m - 1 # n
                BY <2>1, <2>2, <3>1
            <4> QED BY <3>1, <4>1
        <3>2. CASE m # n
            <4>1. m \in 0..(n - 1) /\ (m # 0 => m - 1 \in 0..n /\ m - 1 # n)
                BY <2>1, <3>2
            <4>2. f[m] = IF m = 0 THEN start ELSE StepUp(f[m - 1], levels[m])
                BY <2>4, <4>1, Zenon DEF WayCourse, start
            <4> QED BY <3>2, <4>1, <4>2
        <3> QED BY <3>1, <3>2
    <2>6. WayCourse(g, n, levels, idx)
        BY <2>5, Zenon DEF WayCourse
    <2> QED BY <2>1, <2>6
<1> QED BY <1>1

WayUp(way, levels, idx, top) ==
    /\ ProofFrom(levels, idx) = way[top].proof
    /\ way[0].idx = idx /\ way[0].proof = <<>>
    /\ \A m \in 1..top : way[m] = StepUp(way[m - 1], levels[m])

LEMMA WayIsCourse ==
    ASSUME NEW levels, NEW idx, NEW top \in Nat, Len(levels) = top + 1
    PROVE  \E way : WayUp(way, levels, idx, top)
<1> DEFINE way == CHOOSE h : WayCourse(h, top, levels, idx)
<1>1. ProofFrom(levels, idx) = way[top].proof
    <2>1. Len(levels) - 1 = top
        OBVIOUS
    <2> QED BY <2>1 DEF ProofFrom, WayCourse
<1>2. WayCourse(way, top, levels, idx)
    BY WayCourseExists
<1> HIDE DEF way
<1>3. \A m \in 0..top : way[m] = IF m = 0 THEN [idx |-> idx, proof |-> <<>>] ELSE StepUp(way[m - 1], levels[m])
    BY <1>2, Zenon DEF WayCourse
<1>4. way[0] = [idx |-> idx, proof |-> <<>>]
    BY <1>3
<1>5. ASSUME NEW m \in 1..top PROVE way[m] = StepUp(way[m - 1], levels[m])
    <2>1. m \in 0..top /\ m # 0
        OBVIOUS
    <2> QED BY <1>3, <2>1, Zenon
<1> QED BY <1>1, <1>4, <1>5 DEF WayUp

LEMMA ProofReachesRoot ==
    ASSUME NEW levels, NEW top \in Nat, Len(levels) = top + 1,
           \A n \in 1..(top + 1) : IsSeq(levels[n]),
           \A n \in 1..top : levels[n + 1] = Above(levels[n]),
           Len(levels[top + 1]) = 1,
           NEW idx \in 0..(Len(levels[1]) - 1), NEW d
    PROVE  (HashUp(d, ProofFrom(levels, idx)) = levels[top + 1][1]) <=> levels[1][idx + 1] = LeafHash(d)
<1> DEFINE same == levels[1][idx + 1] = LeafHash(d)
<1>0. PICK way : WayUp(way, levels, idx, top)
    BY WayIsCourse, Zenon
<1>1. /\ ProofFrom(levels, idx) = way[top].proof
      /\ way[0].idx = idx /\ way[0].proof = <<>>
      /\ \A m \in 1..top : way[m] = StepUp(way[m - 1], levels[m])
    BY <1>0, Zenon DEF WayUp
<1> DEFINE Good(m) == /\ way[m].idx \in 0..(Len(levels[m + 1]) - 1)
                      /\ IsSeq(way[m].proof)
                      /\ (HashUp(d, way[m].proof) = levels[m + 1][way[m].idx + 1]) <=> same
<1>2. same \in BOOLEAN
    OBVIOUS
<1>3. Good(0)
    <2>1. IsSeq(<<>>)
        <3>1. <<>> \in Seq({})
            OBVIOUS
        <3> QED BY <3>1 DEF IsSeq
    <2>2. 0 + 1 = 1
        OBVIOUS
    <2>3. HashUp(d, way[0].proof) = LeafHash(d)
        BY <1>1, NothingToHash
    <2> QED BY <1>1, <2>1, <2>2, <2>3
<1> HIDE DEF same
<1>4. ASSUME NEW m \in 1..top, Good(m - 1) PROVE Good(m)
    <2>1. m \in 1..(top + 1) /\ (m - 1) + 1 = m
        OBVIOUS
    <2>2. way[m] = StepUp(way[m - 1], levels[m]) /\ levels[m + 1] = Above(levels[m]) /\ IsSeq(levels[m])
        BY <1>1, <2>1
    <2> DEFINE before == way[m - 1]
               level == levels[m]
    <2>3. /\ before.idx \in 0..(Len(level) - 1) /\ IsSeq(before.proof)
          /\ (HashUp(d, before.proof) = level[before.idx + 1]) <=> same
        BY <1>4, <2>1
    <2> HIDE DEF before, level
    <2>4. IsSeq(level)
        BY <2>2 DEF level
    <2>5. /\ StepUp(before, level).idx \in 0..(Len(Above(level)) - 1)
          /\ IsSeq(StepUp(before, level).proof)
          /\ (HashUp(d, StepUp(before, level).proof) = Above(level)[StepUp(before, level).idx + 1]) <=> same
        BY <1>2, <2>3, <2>4, StepUpKeeps
    <2> QED BY <2>2, <2>5 DEF before, level
<1> DEFINE bad == {m \in 0..top : ~ Good(m)}
<1>5. ASSUME bad # {} PROVE FALSE
    <2>1. bad \in SUBSET Nat /\ \A m \in bad : m \in 0..top /\ ~ Good(m)
        OBVIOUS
    <2>2. \A m \in 0..top : m \notin bad => Good(m)
        OBVIOUS
    <2> HIDE DEF bad, Good
    <2>3. PICK m \in bad : \A k \in bad : m <= k
        BY <1>5, <2>1, LeastOf
    <2>4. m # 0
        BY <1>3, <2>1, <2>3
    <2>5. m \in 1..top /\ m - 1 \in 0..top /\ ~ (m <= m - 1)
        BY <2>1, <2>3, <2>4
    <2> QED BY <1>4, <2>1, <2>2, <2>3, <2>5
<1>6. Good(top)
    <2>1. top \in 0..top
        OBVIOUS
    <2> HIDE DEF Good
    <2> QED BY <1>5, <2>1
<1>7. way[top].idx = 0
    BY <1>6
<1>8. (HashUp(d, way[top].proof) = levels[top + 1][1]) <=> same
    BY <1>6, <1>7
<1> QED BY <1>1, <1>8 DEF same
(* Each level is made from the one below it, until one node is left.       *)
RowCourse(f, n, level) == f = [m \in 0..n |-> IF m = 0 THEN level ELSE Above(f[m - 1])]

LEMMA RowCourseExists ==
    ASSUME NEW level, NEW len \in Nat
    PROVE  \E f : RowCourse(f, len, level)
<1> DEFINE none == {n \in Nat : ~ \E f : RowCourse(f, n, level)}
<1>1. ASSUME none # {} PROVE FALSE
    <2>1. PICK n \in none : \A m \in none : n <= m
        BY <1>1, LeastOf
    <2>2. n # 0
        <3>1. RowCourse([m \in 0..0 |-> level], 0, level)
            BY DEF RowCourse
        <3> QED BY <2>1, <3>1
    <2>3. n - 1 \in Nat /\ ~ (n <= n - 1)
        BY <2>1, <2>2
    <2>4. PICK f : RowCourse(f, n - 1, level)
        BY <2>1, <2>3
    <2> DEFINE g == [m \in 0..n |-> IF m = n THEN Above(f[n - 1]) ELSE f[m]]
    <2>5. ASSUME NEW m \in 0..n PROVE g[m] = IF m = 0 THEN level ELSE Above(g[m - 1])
        <3>1. CASE m = n
            <4>1. m # 0 /\ m - 1 \in 0..n /\ m - 1 # n
                BY <2>1, <2>2, <3>1
            <4> QED BY <3>1, <4>1
        <3>2. CASE m # n
            <4>1. m \in 0..(n - 1) /\ (m # 0 => m - 1 \in 0..n /\ m - 1 # n)
                BY <2>1, <3>2
            <4>2. f[m] = IF m = 0 THEN level ELSE Above(f[m - 1])
                BY <2>4, <4>1, Zenon DEF RowCourse
            <4> QED BY <3>2, <4>1, <4>2
        <3> QED BY <3>1, <3>2
    <2>6. RowCourse(g, n, level)
        BY <2>5, Zenon DEF RowCourse
    <2> QED BY <2>1, <2>6
<1> QED BY <1>1

(* The levels of a tree, one of nodes less than the one below it.          *)
IsTree(levels, top) ==
    /\ Len(levels) = top + 1
    /\ \A n \in 1..(top + 1) : IsSeq(levels[n])
    /\ \A n \in 1..top : levels[n + 1] = Above(levels[n])
    /\ Len(levels[top + 1]) = 1

LEMMA LevelsEndInRoot ==
    ASSUME NEW level, IsSeq(level), level # <<>>
    PROVE  \E top \in Nat : IsTree(Levels(level), top) /\ Levels(level)[1] = level /\ Levels(level) # <<>>
<1> DEFINE len == Len(level)
           at == CHOOSE h : RowCourse(h, len, level)
           ends == {n \in 0..len : Len(at[n]) <= 1}
           top == Min(ends)
           levels == Levels(level)
<1>1. len \in Nat /\ len # 0
    BY SeqFacts
<1>2. levels = [n \in 1..(top + 1) |-> at[n - 1]]
    BY DEF Levels, RowCourse
<1>3. RowCourse(at, len, level)
    BY <1>1, RowCourseExists
<1> HIDE DEF at, levels
<1>4. \A m \in 0..len : at[m] = IF m = 0 THEN level ELSE Above(at[m - 1])
    BY <1>3, Zenon DEF RowCourse
<1>5. at[0] = level
    BY <1>1, <1>4
<1>6. ASSUME NEW m \in 1..len PROVE at[m] = Above(at[m - 1])
    <2>1. m \in 0..len /\ m # 0
        BY <1>1
    <2> QED BY <1>4, <2>1, Zenon
<1> DEFINE Good(m) == /\ IsSeq(at[m]) /\ Len(at[m]) \in Nat /\ Len(at[m]) # 0
                      /\ Len(at[m]) <= 1 \/ Len(at[m]) + m <= len
<1> HIDE DEF len
<1>7. Good(0)
    BY <1>1, <1>5 DEF len
<1>8. ASSUME NEW m \in 1..len, Good(m - 1) PROVE Good(m)
    <2> DEFINE below == at[m - 1]
               before == Len(below)
    <2>1. at[m] = Above(below)
        BY <1>6
    <2>2. IsSeq(below) /\ before \in Nat /\ before # 0 /\ (before <= 1 \/ before + (m - 1) <= len)
        BY <1>8
    <2> HIDE DEF below
    <2>3. below # <<>>
        BY <2>2, SeqFacts
    <2>4. IsSeq(Above(below)) /\ Len(Above(below)) = (before + 1) \div 2
        BY <2>2, <2>3, AboveFacts
    <2> HIDE DEF before
    <2>5. /\ (before + 1) \div 2 \in Nat /\ (before + 1) \div 2 # 0
          /\ (before + 1) \div 2 <= 1 \/ (before + 1) \div 2 + m <= len
        BY <1>1, <2>2
    <2> QED BY <2>1, <2>4, <2>5
<1> DEFINE bad == {m \in 0..len : ~ Good(m)}
<1>9. ASSUME bad # {} PROVE FALSE
    <2>1. bad \in SUBSET Nat /\ \A m \in bad : m \in 0..len /\ ~ Good(m)
        OBVIOUS
    <2>2. \A m \in 0..len : m \notin bad => Good(m)
        OBVIOUS
    <2> HIDE DEF bad, Good
    <2>3. PICK m \in bad : \A k \in bad : m <= k
        BY <1>9, <2>1, LeastOf
    <2>4. m # 0
        BY <1>7, <2>1, <2>3
    <2>5. m \in 1..len /\ m - 1 \in 0..len /\ ~ (m <= m - 1)
        BY <1>1, <2>1, <2>3, <2>4
    <2> QED BY <1>8, <2>1, <2>2, <2>3, <2>5
<1>10. \A m \in 0..len : Good(m)
    BY <1>9
<1>11. ends # {} /\ ends \in SUBSET Nat
    <2>1. len \in 0..len
        BY <1>1
    <2>2. Len(at[len]) <= 1
        BY <1>1, <1>10, <2>1
    <2> QED BY <2>1, <2>2
<1>12. top \in ends
    <2> HIDE DEF ends
    <2> QED BY <1>11, FirstIsMin
<1>13. top \in 0..len /\ Len(at[top]) = 1
    <2>1. top \in 0..len /\ Len(at[top]) <= 1
        BY <1>12
    <2> HIDE DEF top
    <2>2. Len(at[top]) \in Nat /\ Len(at[top]) # 0
        BY <1>10, <2>1
    <2>3. \A k \in Nat : k # 0 /\ k <= 1 => k = 1
        OBVIOUS
    <2>4. Len(at[top]) = 1
        BY <2>1, <2>2, <2>3, Zenon
    <2> QED BY <2>1, <2>4, Zenon
<1> HIDE DEF top, ends
<1>14. top \in Nat
    BY <1>1, <1>13
<1>15. \A n \in 1..(top + 1) : levels[n] = at[n - 1] /\ n - 1 \in 0..len
    BY <1>1, <1>2, <1>13
<1>16. Len(levels) = top + 1 /\ levels # <<>>
    <2> DEFINE R == {at[n - 1] : n \in 1..(top + 1)}
    <2>1. levels \in [1..(top + 1) -> R]
        BY <1>2
    <2> HIDE DEF R
    <2>2. levels \in Seq(R)
        BY <1>14, <2>1, SeqDef
    <2>3. DOMAIN levels = 1..(top + 1) /\ DOMAIN levels = 1..Len(levels) /\ Len(levels) \in Nat
        BY <2>1, <2>2, LenProperties
    <2>4. Len(levels) = top + 1
        BY <1>14, <2>3
    <2> QED BY <1>14, <2>4, EmptySeq
<1>17. ASSUME NEW n \in 1..(top + 1) PROVE IsSeq(levels[n])
    BY <1>10, <1>15
<1>18. ASSUME NEW n \in 1..top PROVE levels[n + 1] = Above(levels[n])
    <2>1. n \in 1..len /\ n + 1 \in 1..(top + 1) /\ n \in 1..(top + 1) /\ (n + 1) - 1 = n
        BY <1>1, <1>13, <1>14
    <2> QED BY <1>6, <1>15, <2>1
<1>19. levels[1] = level /\ levels[top + 1] = at[top]
    <2>1. 1 \in 1..(top + 1) /\ top + 1 \in 1..(top + 1) /\ (top + 1) - 1 = top /\ 1 - 1 = 0
        BY <1>14
    <2> QED BY <1>5, <1>15, <2>1
<1>20. IsTree(levels, top)
    BY <1>13, <1>16, <1>17, <1>18, <1>19 DEF IsTree
<1> QED BY <1>14, <1>16, <1>19, <1>20 DEF levels

-----------------------------------------------------------------------------
(* A built tree is the one of its leaves.                                  *)
MerkleInv ==
    /\ DOMAIN merkle = {"leaves", "levels", "root", "built"}
    /\ merkle = [leaves |-> merkle.leaves, levels |-> merkle.levels, root |-> merkle.root, built |-> merkle.built]
    /\ IsSeq(merkle.leaves)
    /\ merkle.built /\ merkle.leaves # <<>> =>
         /\ merkle.levels = Levels(merkle.leaves)
         /\ merkle.root = Last(Levels(merkle.leaves))[1]

LEMMA MerkleStarts == StorageInit => MerkleInv
<1>1. <<>> \in Seq({})
    OBVIOUS
<1>2. IsSeq(<<>>)
    BY <1>1 DEF IsSeq
<1> SUFFICES ASSUME StorageInit PROVE MerkleInv
    OBVIOUS
<1>3. merkle = [leaves |-> <<>>, levels |-> <<>>, root |-> Nothing, built |-> FALSE]
    BY DEF StorageInit
<1> QED BY <1>2, <1>3 DEF MerkleInv

LEMMA MerkleInductive == MerkleInv /\ [MerkleNext \/ SketchNext \/ TreeNext \/ LsmNext]_storageVars => MerkleInv'
<1> SUFFICES ASSUME MerkleInv, [MerkleNext \/ SketchNext \/ TreeNext \/ LsmNext]_storageVars
             PROVE  MerkleInv'
    OBVIOUS
<1>1. CASE AddLeaf
    <2>1. PICK d \in Datum : merkle' = [merkle EXCEPT !.leaves = Append(@, LeafHash(d)), !.built = FALSE]
        BY <1>1 DEF AddLeaf
    <2>2. IsSeq(Append(merkle.leaves, LeafHash(d)))
        BY AppendFacts DEF MerkleInv
    <2>3. /\ merkle'.leaves = Append(merkle.leaves, LeafHash(d)) /\ merkle'.built = FALSE
          /\ merkle' = [leaves |-> merkle'.leaves, levels |-> merkle'.levels, root |-> merkle'.root, built |-> merkle'.built]
        BY <2>1 DEF MerkleInv
    <2> QED BY <2>2, <2>3 DEF MerkleInv
<1>2. CASE Build
    <2>1. /\ merkle' = [leaves |-> merkle'.leaves, levels |-> merkle'.levels, root |-> merkle'.root, built |-> merkle'.built]
          /\ merkle'.leaves = merkle.leaves
          /\ merkle.leaves # <<>> => /\ merkle'.levels = Levels(merkle.leaves)
                                    /\ merkle'.root = Last(Levels(merkle.leaves))[1]
        BY <1>2 DEF Build
    <2>2. IsSeq(merkle'.leaves)
        BY <2>1 DEF MerkleInv
    <2> QED BY <2>1, <2>2 DEF MerkleInv
<1>3. CASE UNCHANGED merkle
    BY <1>3 DEF MerkleInv
<1> QED BY <1>1, <1>2, <1>3 DEF MerkleNext, SketchNext, TreeNext, LsmNext, storageVars

LEMMA MerkleProves == MerkleInv => ProofsAreExact
<1> SUFFICES ASSUME MerkleInv, merkle.built, NEW i \in DOMAIN merkle.leaves, NEW d \in Datum
             PROVE  Verify(merkle, d, GenerateProof(merkle, i - 1)) = (merkle.leaves[i] = LeafHash(d))
    BY DEF ProofsAreExact
<1> DEFINE leaves == merkle.leaves
           levels == Levels(leaves)
<1>1. IsSeq(leaves) /\ Len(leaves) \in Nat /\ DOMAIN leaves = 1..Len(leaves) /\ i \in 1..Len(leaves) /\ leaves # <<>>
    <2>1. IsSeq(merkle.leaves)
        BY DEF MerkleInv
    <2> QED BY <2>1, SeqFacts
<1>2. merkle.levels = levels /\ merkle.root = Last(levels)[1]
    BY <1>1 DEF MerkleInv
<1>3. PICK top \in Nat : IsTree(levels, top) /\ levels[1] = leaves /\ levels # <<>>
    BY <1>1, LevelsEndInRoot
<1>4. GenerateProof(merkle, i - 1) = ProofFrom(levels, i - 1)
    <2>1. ~ (i - 1 >= Len(leaves))
        BY <1>1
    <2> QED BY <1>2, <1>3, <2>1 DEF GenerateProof
<1> HIDE DEF leaves, levels
<1>5. Last(levels) = levels[top + 1]
    BY <1>3 DEF IsTree, Last
<1>6. PICK idx \in 0..(Len(levels[1]) - 1) : idx = i - 1 /\ idx + 1 = i
    BY <1>1, <1>3
<1>7. (HashUp(d, ProofFrom(levels, idx)) = levels[top + 1][1]) <=> levels[1][idx + 1] = LeafHash(d)
    BY <1>3, ProofReachesRoot DEF IsTree
<1>8. Verify(merkle, d, GenerateProof(merkle, i - 1)) <=> HashUp(d, ProofFrom(levels, idx)) = levels[top + 1][1]
    BY <1>2, <1>4, <1>5, <1>6 DEF Verify
<1>9. levels[1][idx + 1] = merkle.leaves[i]
    BY <1>3, <1>6 DEF leaves
<1>10. Verify(merkle, d, GenerateProof(merkle, i - 1)) \in BOOLEAN
    BY DEF Verify
<1> QED BY <1>7, <1>8, <1>9, <1>10

-----------------------------------------------------------------------------
(* Each of the structures answers as what was put in it: a built Merkle    *)
(* tree proves its leaves and nothing else, the filter and the counters    *)
(* cover what they were given, the vector stays sorted and its scans are   *)
(* the ranges, but for the first key when all are above, and the LSM tree  *)
(* reads the last write, whatever was flushed and compacted in between     *)
(* (storage.rs).                                                           *)
THEOREM StructuresDoAnswerTruly == StorageSpec => []StructuresAnswerTruly
<1> DEFINE Inv == MerkleInv /\ SketchInv /\ VectorInv /\ LsmInv
<1>1. StorageInit => Inv
    <2>1. StorageInit => VectorInv
        BY DEF StorageInit, VectorInv, Ascending
    <2> QED BY <2>1, MerkleStarts, SketchesStart, LsmStarts
<1>2. Inv /\ [MerkleNext \/ SketchNext \/ TreeNext \/ LsmNext]_storageVars => Inv'
    BY MerkleInductive, SketchInductive, VectorInductive, LsmInductive
<1>3. Inv => StructuresAnswerTruly
    BY MerkleProves, SketchesDoCover, VectorAnswers, LsmReads DEF StructuresAnswerTruly
<1> HIDE DEF Inv
<1> QED BY <1>1, <1>2, <1>3, PTL DEF StorageSpec
=============================================================================
