--------------------------- MODULE BuiltinAgents ---------------------------
(* The six agents of crates/agents, ticked by the runtime loop and by the   *)
(* HTTP call tick_agent at the same time, and told of every event by the    *)
(* loop (crates/core/src/agent.rs).  An agent does its work as a sequence   *)
(* of calls on the kernel, each of which locks one manager, and counts it   *)
(* at the end under its own lock; a step here is one call.  The work of a   *)
(* thread is such a sequence, before which the architecture agent maps the  *)
(* drivers one by one: a component, then each capability and its link.      *)
(*                                                                          *)
(* Of an object only its kind is kept, and whether it is in the store: an   *)
(* INSERT may fail, which the agent never learns, and a client may delete   *)
(* what an agent made.  Of an event only whether it says that an artifact   *)
(* was stored.                                                              *)
EXTENDS Integers, Sequences, FiniteSets, SequencesExt, Functions

CONSTANTS Registrations,  \* bound: the sets of agents registered, of the six
          DriverNames,    \* the registered drivers
          Provides,       \* driver -> number of its capabilities
          MaxTicks,       \* bound: agent ticks begun
          MaxFound,       \* bound: events appended
          MaxLost         \* bound: objects of the agents not stored, or deleted

VARIABLES registered,     \* the agents registered, once for all
          present,        \* kind -> objects the agents made that are in the store
          absent,         \* kind -> those that never came there, or were deleted
          linked,         \* history: components that got a link
          topics,         \* topic -> messages published
          tally,          \* agent -> the counter of its state
          appended,       \* events not dispatched yet
          dispatched,     \* history: events dispatched
          loop,           \* what the loop has begun, and the agents it still comes to
          work,           \* thread -> what it still does
          ticks           \* agent -> ticks begun
madeVars == <<present, absent>>
agentVars ==
  <<registered, madeVars, linked, topics, tally, appended, dispatched, loop, work, ticks>>

AgentThreads == {"loop", "caller"}
AllAgents ==
  {"research", "architecture", "malware", "monitoring", "documentation", "forensics"}
ASSUME AgentsAssumption ==
  /\ Registrations \subseteq SUBSET AllAgents
  /\ IsFiniteSet(DriverNames) /\ Provides \in [DriverNames -> Nat] /\ MaxLost \in Nat

ObjectKindsMade == {"research_capability_map", "research_note", "architecture_component",
          "architecture_capability", "architecture_data_summary", "malware_capability_status",
          "malware_analysis", "health_snapshot", "documentation", "forensics_timeline",
          "forensics_relationship_trace", "forensics_event_record"}
\* the objects an agent made, there or not
kinds == [k \in ObjectKindsMade |-> present[k] + absent[k]]
Create(kind) == <<"create", kind>>
Counting(what) == <<"count", what>>
Publishing(topic) == <<"publish", topic>>
ResearchTick == <<Create("research_capability_map"), Counting("queries")>>
\* after the drivers are mapped; of the kinds summarised, one is made of here
ArchitectureTick == <<<<"summary", "architecture_component">>, Counting("mapped")>>
MalwareTick == <<Create("malware_capability_status"), Counting("analyses")>>
\* the allocations of the moment raise an alarm or none
MonitoringTick(alarm) ==
  IF alarm THEN <<Publishing("system.health"), Create("health_snapshot"),
                  Publishing("system.alert"), Counting("alerts"), Counting("ticks")>>
  ELSE <<Publishing("system.health"), Create("health_snapshot"), Counting("ticks")>>
DocumentationTick == [i \in 1..3 |-> Create("documentation")]
ForensicsTick ==
  <<<<"timeline", "Artifact">>, <<"trace", "architecture_component">>, <<"trace", "research_note">>,
    <<"trace", "malware_analysis">>, Counting("timelines")>>
TickProgram(agent, alarm) ==
  CASE agent = "research" -> ResearchTick
    [] agent = "architecture" -> ArchitectureTick
    [] agent = "malware" -> MalwareTick
    [] agent = "monitoring" -> MonitoringTick(alarm)
    [] agent = "documentation" -> DocumentationTick
    [] agent = "forensics" -> ForensicsTick

ResearchEvent(artifact) == IF artifact THEN <<Create("research_note")>> ELSE <<>>
MalwareEventAlways(artifact) == <<Create("malware_analysis"), Counting("analyses")>>
MalwareEvent(artifact) ==
  IF artifact THEN <<Create("malware_analysis"), Counting("analyses")>> ELSE <<>>
ForensicsEvent == <<Create("forensics_event_record"), Counting("events")>>
\* the others have no handle_event of their own
EventProgram(agent, artifact) ==
  CASE agent = "research" -> ResearchEvent(artifact)
    [] agent = "malware" -> MalwareEvent(artifact)
    [] agent = "forensics" -> ForensicsEvent
    [] OTHER -> <<>>

Counters == {"queries", "mapped", "analyses", "ticks", "alerts", "timelines", "events"}
\* what a thread still does: the drivers to map, of the current one the capabilities to create,
\* whether it has no link yet and whether a link comes next, and the calls after that
Work(drivers, caps, bare, linking, steps) ==
  [drivers |-> drivers, caps |-> caps, bare |-> bare, linking |-> linking, steps |-> steps]
Calls(steps) == Work({}, 0, FALSE, FALSE, steps)
NoWork == Calls(<<>>)
TickWork(a, alarm) ==
  Work(IF a = "architecture" THEN DriverNames ELSE {}, 0, FALSE, FALSE, TickProgram(a, alarm))

Loop(job, agents) == [job |-> job, agents |-> agents]
Idling == Loop("idle", {})

AgentsInit ==
  /\ registered \in Registrations
  /\ present = [k \in ObjectKindsMade |-> 0] /\ absent = [k \in ObjectKindsMade |-> 0]
  /\ linked = 0
  /\ topics = [t \in {"system.health", "system.alert"} |-> 0]
  /\ tally = [c \in Counters |-> 0]
  /\ appended = <<>> /\ dispatched = <<>>
  /\ loop = Idling /\ work = [t \in AgentThreads |-> NoWork]
  /\ ticks = [a \in AllAgents |-> 0]

TotalTicks == FoldFunction(LAMBDA x, y : x + y, 0, ticks)

----------------------------------------------------------------------------
(* One call on the kernel *)

Lost == FoldFunction(LAMBDA x, y : x + y, 0, absent)
\* create n times, without word of those whose INSERT fails
Made(kind, n) ==
  \E f \in 0..n : /\ Lost + f <= MaxLost
                  /\ present' = [present EXCEPT ![kind] = @ + (n - f)]
                  /\ absent' = [absent EXCEPT ![kind] = @ + f]
Tallied(c) == tally' = [tally EXCEPT ![c] = @ + 1]

Call(step) ==
  \/ step[1] = "create" /\ Made(step[2], 1) /\ UNCHANGED <<linked, topics, tally>>
  \* what a read finds depends on what clients create and delete, and on whether it fails
  \/ /\ step[1] = "summary" /\ UNCHANGED <<linked, topics, tally>>
     /\ \E found \in 0..1 : Made("architecture_data_summary", found)
  \/ /\ step[1] = "timeline" /\ UNCHANGED <<linked, topics, tally>>
     /\ \E found \in 0..1 : /\ found = 1 => appended \o dispatched # <<>>
                           /\ Made("forensics_timeline", found)
  \* one trace per object found that has a link
  \/ /\ step[1] = "trace" /\ UNCHANGED <<linked, topics, tally>>
     /\ \E found \in 0..(IF step[2] = "architecture_component" THEN linked ELSE 0) :
          Made("forensics_relationship_trace", found)
  \/ /\ step[1] = "publish" /\ UNCHANGED <<madeVars, linked, tally>>
     /\ topics' = [topics EXCEPT ![step[2]] = @ + 1]
  \/ step[1] = "count" /\ Tallied(step[2]) /\ UNCHANGED <<madeVars, linked, topics>>

\* a driver gets a component, a capability an object, and then its link, which is not stored
\* when the INSERT fails or one of its ends is not there; the first one of a component counts
GoesOn(t, rest) == work' = [work EXCEPT ![t] = rest]
MapDriver(t) ==
  LET w == work[t] IN
  /\ ~w.linking /\ w.caps = 0 /\ Made("architecture_component", 1)
  /\ \E d \in w.drivers : GoesOn(t, Work(w.drivers \ {d}, Provides[d], TRUE, FALSE, w.steps))
  /\ UNCHANGED <<linked, topics, tally>>
MapCapability(t) ==
  LET w == work[t] IN
  /\ ~w.linking /\ w.caps > 0 /\ Made("architecture_capability", 1)
  /\ GoesOn(t, Work(w.drivers, w.caps - 1, w.bare, TRUE, w.steps))
  /\ UNCHANGED <<linked, topics, tally>>
LinkCapability(t) ==
  LET w == work[t] IN
  /\ w.linking
  /\ \E bare \in BOOLEAN :
       /\ ~bare => present["architecture_component"] > 0 /\ present["architecture_capability"] > 0
       /\ linked' = linked + (IF w.bare /\ ~bare THEN 1 ELSE 0)
       /\ GoesOn(t, Work(w.drivers, w.caps, w.bare /\ bare, FALSE, w.steps))
  /\ UNCHANGED <<madeVars, topics, tally>>
CallNext(t) ==
  LET w == work[t] IN
  /\ ~w.linking /\ w.caps = 0 /\ w.drivers = {} /\ w.steps # <<>>
  /\ Call(Head(w.steps)) /\ GoesOn(t, Calls(Tail(w.steps)))
ThreadStep(t) ==
  /\ MapDriver(t) \/ MapCapability(t) \/ LinkCapability(t) \/ CallNext(t)
  /\ UNCHANGED <<appended, dispatched, loop, ticks>>

----------------------------------------------------------------------------
(* The runtime loop: tick_all, then dispatch of the events found *)

LoopTick ==
  /\ loop = Idling /\ TotalTicks < MaxTicks
  /\ loop' = Loop("tick", registered)
  /\ UNCHANGED <<madeVars, linked, topics, tally, appended, dispatched, work, ticks>>
LoopDispatch ==
  /\ loop = Idling /\ appended # <<>>
  /\ loop' = Loop("dispatch", registered)
  /\ dispatched' = Append(dispatched, Head(appended))
  /\ appended' = Tail(appended)
  /\ UNCHANGED <<madeVars, linked, topics, tally, work, ticks>>
\* the agents come in the order of a map
LoopAgent ==
  /\ work["loop"] = NoWork /\ loop.job # "idle"
  /\ \E a \in loop.agents, alarm \in BOOLEAN :
       /\ loop' = Loop(loop.job, loop.agents \ {a})
       /\ GoesOn("loop", IF loop.job = "tick" THEN TickWork(a, alarm)
                         ELSE Calls(EventProgram(a, Last(dispatched))))
       /\ ticks' = IF loop.job = "tick" THEN [ticks EXCEPT ![a] = @ + 1] ELSE ticks
  /\ UNCHANGED <<madeVars, linked, topics, tally, appended, dispatched>>
LoopDone ==
  /\ work["loop"] = NoWork /\ loop.agents = {} /\ loop.job # "idle"
  /\ loop' = Idling
  /\ UNCHANGED <<madeVars, linked, topics, tally, appended, dispatched, work, ticks>>

\* tick_agent: the Arc of one agent, ticked on the caller's thread
TickAgent ==
  /\ work["caller"] = NoWork /\ TotalTicks < MaxTicks
  /\ \E a \in registered, alarm \in BOOLEAN :
       GoesOn("caller", TickWork(a, alarm)) /\ ticks' = [ticks EXCEPT ![a] = @ + 1]
  /\ UNCHANGED <<madeVars, linked, topics, tally, appended, dispatched, loop>>

\* an event of another part of the kernel
EventAppended ==
  /\ Len(appended \o dispatched) < MaxFound
  /\ \E artifact \in BOOLEAN : appended' = Append(appended, artifact)
  /\ UNCHANGED <<madeVars, linked, topics, tally, dispatched, loop, work, ticks>>

\* delete_object, by a client: with it go its links
DeleteMade ==
  /\ Lost < MaxLost
  /\ \E kind \in ObjectKindsMade :
       /\ present[kind] > 0
       /\ present' = [present EXCEPT ![kind] = @ - 1]
       /\ absent' = [absent EXCEPT ![kind] = @ + 1]
  /\ UNCHANGED <<linked, topics, tally, appended, dispatched, loop, work, ticks>>

AgentsNext ==
  /\ UNCHANGED registered
  /\ \/ LoopTick \/ LoopDispatch \/ LoopAgent \/ LoopDone
     \/ TickAgent \/ EventAppended \/ DeleteMade
     \/ \E t \in AgentThreads : ThreadStep(t)

AgentsSpec == AgentsInit /\ [][AgentsNext]_agentVars

----------------------------------------------------------------------------
HowOften(s, x) == Cardinality({i \in DOMAIN s : s[i] = x})
Catalogue(drivers) == UNION {{d} \X (1..Provides[d]) : d \in drivers}

Left(step) == HowOften(work["loop"].steps, step) + HowOften(work["caller"].steps, step)
ToMap == Cardinality(work["loop"].drivers) + Cardinality(work["caller"].drivers)
Providing(w) == w.caps + Cardinality(Catalogue(w.drivers))
ToProvide == Providing(work["loop"]) + Providing(work["caller"])
Artifacts == HowOften(dispatched, TRUE)
ToTell(a) == loop.job = "dispatch" /\ a \in loop.agents
NowOrLater(kind) == kinds[kind] + Left(Create(kind))
CountedOrLater(c) == tally[c] + Left(Counting(c))
PublishedOrLater(t) == topics[t] + Left(Publishing(t))
Untold(a) == IF a \notin registered THEN Artifacts
             ELSE IF ToTell(a) /\ Last(dispatched) THEN 1 ELSE 0
Unrecorded(a) == IF a \notin registered THEN Len(dispatched) ELSE IF ToTell(a) THEN 1 ELSE 0

\* Whoever ticks an agent, whatever the two threads interleave, whichever INSERT fails and
\* whatever clients delete: the agents' counters and messages are those of their ticks, and
\* their objects in the store are those their ticks and events called for, less exactly the
\* absent ones. Once its calls are over each tick left its objects and one count, each
\* artifact stored one note and one analysis, and each event one record. The catalogue of
\* drivers is written again by every tick: one component and all its capabilities per driver
\* and tick. What is found to trace is bounded by what was linked (crates/agents/src/lib.rs).
TicksLeaveObjects ==
  /\ CountedOrLater("queries") = ticks["research"]
  /\ NowOrLater("research_capability_map") = ticks["research"]
  /\ NowOrLater("malware_capability_status") = ticks["malware"]
  /\ CountedOrLater("ticks") = ticks["monitoring"]
  /\ NowOrLater("health_snapshot") = ticks["monitoring"]
  /\ PublishedOrLater("system.health") = ticks["monitoring"]
  /\ PublishedOrLater("system.alert") = CountedOrLater("alerts")
  /\ NowOrLater("documentation") = 3 * ticks["documentation"]
DriversAreMapped ==
  /\ CountedOrLater("mapped") = ticks["architecture"]
  /\ kinds["architecture_component"] + ToMap = ticks["architecture"] * Cardinality(DriverNames)
  /\ kinds["architecture_capability"] + ToProvide
       = ticks["architecture"] * Cardinality(Catalogue(DriverNames))
EventsLeaveObjects ==
  /\ NowOrLater("malware_analysis") + Untold("malware") = Artifacts
  /\ CountedOrLater("analyses") = ticks["malware"] + Artifacts - Untold("malware")
  /\ NowOrLater("research_note") + Untold("research") = Artifacts
  /\ NowOrLater("forensics_event_record") + Unrecorded("forensics") = Len(dispatched)
  /\ CountedOrLater("events") = NowOrLater("forensics_event_record")
TracesFollowLinks ==
  /\ linked <= kinds["architecture_capability"]
  /\ kinds["forensics_relationship_trace"] <= CountedOrLater("timelines") * linked
AgentsAccountForObjects ==
  TicksLeaveObjects /\ DriversAreMapped /\ EventsLeaveObjects /\ TracesFollowLinks
=============================================================================
