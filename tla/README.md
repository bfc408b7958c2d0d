# TORdex: a TLA+ verification project

TORdex collects, stores, watches and correlates public information. It is a Rust workspace: about
twenty-five libraries under `src/crates/`, three processes under `src/services/`, and Postgres and Redis
behind them. This directory holds TLA+ models of its stateful parts, the TLC runs that check them on
small instances, and proofs, checked by TLAPS, of theorems that hold for every instance.

Paths below are relative to `src/`. Where this text names a run, its configuration is `<run>.cfg`.

    tlc -workers 2 -config fabric_workers.cfg MCCollectionFabric
    tlapm CollectionFabricProofs.tla

## 1. Inventory

### The parts that keep state and meet other parts

**Collection queue** (`crates/fabric/src/queue.rs`). One `Mutex<QueueInner>`: a hand-written binary heap
of `QueueEntry`, a map `by_id` from task ids to positions in the heap, a set `seen`, a sequence counter.
Operations: `enqueue`, `dequeue`, `cancel`, and reads. Each holds the mutex from beginning to end. Hard:
the map is written at insertion and by one half of `cancel`, while `bubble_up`, `bubble_down` and the
swap of `dequeue` move entries without telling it; a panic poisons the mutex. Right when: pops come in
order of priority and, within one, of acceptance; no entry is lost; no id is pending twice.

**Collection fabric and sessions** (`crates/fabric/src/fabric.rs`, `session.rs`). `submit`, `cancel`,
`process_next`, `drain`, `stop`, `start` over the queue, a map of sessions with a state machine (Queued,
Running, Succeeded, Failed, Cancelled), an event store and the drivers. The fabric has no lock of its
own: a method is a chain of calls, each under another mutex. Hard: everything that may happen between
two calls of the chain; retries; events whose append fails silently. Right when: no accepted task is
lost or held by two workers, a session's outcome fits its state, nothing stays Running for ever, every
task ends, every step is on record.

**Crawler** (`crates/fabric/src/crawler.rs`). A map of URLs seen, links extracted from pages and
resolved against their base, submissions to the fabric. Hard: a link is marked before it is accepted,
workers meet the same link at once, and resolution is done on text. Right when: a link is submitted
once, never past the depth or to a host out of the allowed domains, and what was seen is submitted or
was refused.

**In-memory event store and snapshot store** (`crates/core/src/event_store.rs`). A vector of events with
two indexes (by aggregate, by type); `append` with an optimistic version check; reads; `clear`. A map of
snapshots. Hard: writers read the version and append in two steps; a snapshot may be saved late. Right
when: the versions of an aggregate are 1, 2, 3 ..., the indexes are complete, and a snapshot with the
events since it is the whole history.

**Persistent event store** (`services/kernel/src/persistent.rs`, table `kernel_events`). The same
interface over Postgres, each statement a transaction of its own. Hard: the version test and the insert
are two statements; a statement fails before or after it took effect; MAX over no rows is NULL.

**Persistent objects, snapshots and storage** (the same file, and the handlers of `api.rs`). Tables of
objects, links and snapshots, and a wrapper of the file storage that makes directories and writes. Hard:
statements that fail while the caller is told they worked. Right when: a link has both its ends, a
snapshot is one that was saved, a file is all of what was last stored under its path.

**Kernel runtime** (`services/kernel/src/runtime.rs`) and **agent runtime**
(`crates/core/src/agent.rs`). A loop that reads the events after a cursor and dispatches each to every
registered agent. Hard: an id is taken when an event is built and its row becomes visible later; the
cursor dies with the process; an agent fails. Right when: nothing that is visible is skipped, nothing
comes twice, and what is stored is dispatched.

**Cluster task queue and scheduler** (`crates/cluster/src/task.rs`, `scheduler.rs`). Redis streams, one
of tasks for each role with a consumer group, one of results. `enqueue` (four dispatches of the
scheduler), `dequeue`, `publish_result`, `collect_results`. Hard: lost replies, a worker that dies
between acknowledging and answering, two collectors of one stream, a collector whose request is dropped
while it deletes. Right when: no task is worked on twice, no result is lost but with who held it, every
task is answered unless something failed.

**Cluster membership** (`crates/cluster/src/node.rs`). Two keys with a time to live for each node, and a
set of ids. `register`, `heartbeat`, `is_alive`, `get_node`, `list_nodes`, `deregister`. Hard: time, and
heartbeats that fail. Right when: a node whose heartbeats arrive is alive, one that is gone is noticed.

**Worker process** (`services/worker/src/main.rs`), **kernel process** (`services/kernel/src/main.rs`,
`api.rs`): the loops and requests that drive the parts above.

**Collection API** (`services/api/src/lib.rs`). `collect_handler`: service row, session row, download,
object storage, extraction, document row, graph, events, session completed; any of them may fail, the
client may go away, the process may die, and `fail_session` runs by itself. Right when: a completed
session has everything it stands for, and one that failed was never announced.

**Monitoring engine** (`crates/monitoring/src/engine.rs`, `watchers/`). A list of watchers polled when
due, by callers and by a background thread; `emit_change` writes to three places. Hard: two pollers, a
stop and a start before the thread has looked, a failure after a watcher has moved on. Right when: a
change is reported once, or its event was refused.

**Scheduler, IPC and event manager** (`crates/core/src/scheduler.rs`, `ipc.rs`, `event.rs`). Jobs with a
status, each in a thread; mailboxes of endpoints; topics. Hard: a cancel racing the end of a task, a
panic, a send racing `unregister`. Right when: a cancelled job stays so, every job settles, messages
arrive once and in order.

**Event buses** (`crates/events/src/`). A broadcast channel that drops the oldest for who lags, and
Redis streams read by a task that forwards to a channel. Right when: what a subscriber is given comes in
the order of publication, without repetition, and only for its topic.

**Managers of objects, drivers, processors, plugins, policies, identities, storage and memory**
(`crates/core/src/`). Maps behind mutexes. Hard: what is looked up under one lock and used after it.

**Built-in agents** (`crates/agents/src/lib.rs`). Ticks and event handlers as sequences of calls on the
managers, run by the kernel's loop and by requests. Hard: an INSERT that fails and whose error is
dropped. Right when: what an agent counted and what it created agree, whoever ticked it.

**Memory layers** (`crates/memory/src/`). Working memory with eviction, short-term memory with an index
and expiry in Redis, long-term memory as versioned events, episodic and semantic memory with a map
before a store, procedures that are executed. Hard: an index that outlives what it names, a version that
is stamped as a constant, failures inside nested procedures.

**Knowledge** (`crates/knowledge/`): records, version chains, fingerprints, aliases. **Temporal graph**
(`crates/temporal-graph/`): intervals, snapshots, their differences. **Search** (`crates/search/`): an
index and an algebra of queries. **Decision engine** (`crates/decision/`): analyzers that read the
kernel's objects and events, answers that are recorded, published and emitted. **Virtual file system**
(`crates/vifs/`): one file for each object, projected from events and rebuilt from their log. **Query
language** (`crates/tdxl/`) and **virtual machine** (`crates/vm/`): a compiler in five stages and the
interpreter of its code. **Algorithms** (`crates/algorithms/`, run by
`crates/processors/src/algorithm_engine.rs`): graphs, scheduling, storage structures, text indexes,
measures of similarity. Mostly sequential. Hard: boundaries, long sequences of calls, and order: of
passes, of operands, of replayed types.

**The other processors, AI runtime, GPU, drivers, repository and package intelligence, evidence store,
types, configuration, profiles.** Pure computation over text or bytes, numeric code, or I/O.

### How they interact

    requests ── api.rs ── publish_event ──> PgEventStore (Postgres) <── read_since ── KernelRuntime ──> agents
                   │                                                                       (cursor)
                   └── cluster ──> ClusterScheduler ── XADD ──> Redis stream ── XREADGROUP ──> worker processes
                                   collectors <── XREAD, XDEL ── result stream <── XADD ───────────┘  │
                                   list_nodes <── keys with a time to live <── register, heartbeat ───┘
    clients ── CollectionFabric ──> PriorityQueue, SessionManager, drivers ──> InMemoryEventStore
                   └── results ──> AdaptiveCrawler ── submit ──> CollectionFabric
    agents, watchers, requests ──> Kernel { objects, drivers, processors, storage, scheduler, ipc, events }
    collect_handler ──> sessions, documents, events (Postgres), object storage
    sources ── tdxl compile ──> program ── vm run ──> facts;   event log ── replay ──> vifs

Interaction is by calls (fabric to queue, sessions, store), by shared tables (writers and the runtime's
loop), by streams (scheduler, workers, collectors) and by keys that expire (workers and whoever asks).
There are no callbacks except the agents' `handle_event`, the watchers' `poll` and the jobs of the
scheduler.

## 2. Plan

Order: first what several actors share and what may lose a user's work.

| step | modules | composes | abstract specification | runs | theorems |
|---|---|---|---|---|---|
| 1, done | TaskHeap, PriorityQueue | | PriorityQueueSpec | queue_heap, queue_cancel | the heap's loops, heap order, exact cancels, refinement |
| 2, done | CollectionFabric | TaskHeap, sessions, event log | | fabric_calls, fabric_workers, fabric_events, fabric_retry | types, outcomes, attendance, an entry in one place, no task lost |
| 3, done | EventStore | events and snapshots | EventLogSpec | event_store | types, contiguity, indexes, recovery, refinement |
| 4, done | PgEventStore, KernelRuntime | the second extends the first | | kernel_events, pg_race | types, once in order |
| 5, done | ClusterQueue | scheduler, workers, collectors | | cluster_tasks | one worker a task, no result dropped |
| 6, done | ClusterMembership | | | kernel_services | alive and gone, for all times |
| 7, done | KernelServices, EventBuses | scheduler, IPC, event manager, buses | accepted messages as sequences | kernel_services | honest scheduler, accepted and delivered in order |
| 8, done | KernelRegistries, BuiltinAgents, PersistentStores | agents over managers, loop and requests | | kernel_services | lookups hold, stored data is whole, agents account for objects |
| 9, done | Monitoring, Crawler, CollectApi | pollers, workers, requests | one report a change | kernel_services | crawl is bounded, sessions are backed, reports accounted |
| 10, done | GraphAlgorithms, TaskScheduling, StorageStructures, TextStructures, SimilarityMeasures | | reference definitions | kernel_services | structures answer truly, schedules are sound |
| 11, done | MemoryLayers, ProceduralMemory, KnowledgeChains, TemporalGraph, SearchEngine, DecisionEngine, IntelligenceFiles | | the set a query denotes; the state a log gives | layers | layers sound, procedures account, chains whole, decisions backed, history coherent, replay rebuilds |
| 12, done | TdxlCompiler, VirtualMachine | the code of the first runs on the second | the chain of values a program means | layers | |

Modules to be proved about contain no RECURSIVE operator: the heap's loops are in closed form in
`TaskHeap`, and `TaskHeapProofs` states the loops themselves and proves that they end in it. Of the
modules of steps 7 to 12 GraphAlgorithms, TextStructures, SimilarityMeasures and SearchEngine recurse,
and stay with TLC.

## 3. Modules and code

`map` in PROJECT.json names the lines of every definition; this section gives the correspondence.

**TaskHeap**: `QueueInner` as a record, each method as an operator from the record before the call to
the record after it. A method holds the mutex throughout, so an operator is one atomic step of whoever
uses it. Positions are 1-based. `bubble_up` and `bubble_down` are written by what they leave behind (one
entry travels along a path, the others shift by one), because recursion could not be proved about. The
stale map is kept as the code keeps it: `Enqueued` notes the position at which an entry was appended,
and only `Cancelled` corrects one. `poisoned` is the mutex's flag; the panic is that of `Vec::swap` past
the end, or of `len() - 1` on an empty vector. Abstracted: URL, driver and depth of a task. A priority
is its discriminant.

**PriorityQueue**: `Enqueue`, `EnqueueDuplicate`, `Dequeue`, `DequeueEmpty`, `Cancel`, `CancelUnknown`:
one action for each way a method returns. `exact` is history: no cancel yet.

**PriorityQueueSpec**: a set of pending entries, and a pop that takes the least of them. A cancel may
cost one entry and does not say which; ids are unique until the first cancel. That is what the code can
promise, less than it says (section 5).

**CollectionFabric**: threads with a program counter; one action for each call a method makes into a
part with a lock. `process_next` is `BeginProcess`, `ProcessDequeue`, `MarkRunning`, the two steps of
emitting "active", `Execute`, `Finish`, then for a success the two steps of emitting "observed", for a
failure `RetryCheck`, perhaps `RetryEnqueue`, and the two steps of emitting "error". `submit` is
`Submit` (the session is created, or overwritten), `SubmitEnqueue` and the emission of "registered".
`cancel` is `Cancel`, `CancelGet` when the queue does not know the id, `CancelMark`. A member of
`Drainers` calls `drain`: after each `Ok(Some)` it goes on, after anything else it returns. The driver
is a nondeterministic answer, or a panic: it unwinds out of `process_next` and of `drain`, and the
session stays Running (`unwound` notes it). The event log keeps, for each aggregate, the kinds of its
events; the observation goes to another aggregate than the one whose version was read, as in the code.
Abstracted: contents of results and errors (kept as present or absent), identifiers other than the
task's, timestamps.

**EventStore**: `events`, `byAggregate`, `byType` as in the code (each event has a type of its own, also
within one aggregate), `ReadVersion` then `AppendEvent` or `VersionConflict` for each writer, `Clear`;
`Replay`, `Save`, `Delete` for the snapshot store. An aggregate's state is the list of who wrote its
events, which tells any two histories apart. `clears` and the field `epoch` of a snapshot are history,
and say which snapshots a `clear` has made meaningless.

**EventLogSpec**: one append-only stream for each aggregate.

**PgEventStore**: `kernel_events` as a set of rows. `publish_event` is `ReadLatest`, `Stamp`
(`EventEnvelope::new`), `SelectMax`, `Insert`. A statement may fail before or after it took effect. A
row has the order of its `timestamp` and its `id`; ids ascend by millisecond and are arbitrary within
one, which `PerMs` controls. `Seeded` is input: the aggregates the table has rows of when the kernel
connects. It cannot be empty in a run that stores anything, because the first append to an aggregate
always fails (section 5).

**KernelRuntime** (extends PgEventStore): `BeginTick`, `Dispatch` of one event, `EndTick`, and
`Restart`, in which everything but the table is lost. A tick whose read fails, or finds nothing, changes
nothing and is a stuttering step. `late` is history: the rows that became visible when an event of a
greater id had been read. `dispatch_event` reaches the agents in the arbitrary order of a map, up to the
first that fails: any non-empty set of agents.

**ClusterQueue**: the stream of tasks is a counter (its n-th entry is task n), the consumer group a
position in it and the entries pending; a worker is waiting, about to acknowledge, or processing.
Results are a sequence, `present` those still in the stream. A collector reads, deletes one by one,
returns; `Loop` is the kernel's own, the others are requests. `DropCollector` ends one at any of its
awaits (the client goes away, the kernel crashes), and `dropped` keeps what it held. `Fault` counts what
goes wrong: a reply of XREADGROUP that is lost, an XACK, XADD or XDEL that fails, a worker that dies
(and comes back under a new consumer name), a collector that is dropped. Redis is external: `delivered'
= delivered + 1` is what `XREADGROUP >` does, and `present \ {i}` what `XDEL` does.

**ClusterMembership**: the two keys of a node as seconds left, the set of members, and a process that
registers once and then sleeps and beats. `Tick` is a second; a command waits up to `MaxDelay`, which is
only a bound. A heartbeat may fail, before or after it took effect: the worker drops the error and
sleeps again (`main.rs:78`), and `beaten` notes whether the latest one was stored. A worker that
restarts has a fresh id, as `NodeInfo::new` gives it one, so that it is another member of `Node`.
`deregister` is not an action because nothing calls it.

**KernelServices**: `jobs` and `thread` of the scheduler (a job's status and what its thread is doing
are two things, and `TaskReturns` writes the status only if nobody cancelled); `SendLookup` and
`SendPush`, the two locks of `send`; `PollTopic` and `PollEvents`, the two of `poll`.

**KernelRegistries**: one action for each call that changes a map, and two or three for the calls that
take a lock more than once: `ExecuteGet` and `ExecuteRun`, `BulkBegin` and `BulkStep` (`start_all`,
`stop_all`), `AllocateAdd`, `AllocateLoad` and `AllocatePeak`.

**BuiltinAgents**: a tick or an event handler is a sequence of calls (create, link, publish, count), of
which each is one step. `work` says for each of the two threads, the kernel's loop and the caller of
`tick_agent`, what it still does: the drivers to map, the capabilities of the current one, a link that
is due, and the calls after that. `loop` is what the loop has begun and the agents it still comes to. Of
an object its kind is kept, and whether it is in the store: an INSERT may fail, which the agent is never
told, and a client may delete what an agent made.

**PersistentStores**: each statement is answered, fails, or takes effect and fails for its caller, and
what the caller is told is kept in `answer`. A write of a file goes in the steps of `fs::write`: the
directories, a file that is created or cut to nothing, the bytes; a failure between them leaves a torn
file, and two writes of one path may overlap. Postgres is external in the constraint that a link needs
both its objects and goes with either (`migrations/0002_kernel.sql`). A path is the sequence of its
names.

**EventBuses**: the broadcast channel forgets its oldest envelope when it is full, and a subscriber that
lags skips to what is left; a stream subscriber has a task with `StreamRead` (one XREAD from the last id
it saw), `StreamForward` (one send into the bounded channel) and `StreamFails`.

**Monitoring**: `ListDue` under the lock; then for each watcher `PollNext` under the lock again, one
operator for each kind of watcher; then `Emit` or `EmitFails` for each change. The world answers one of
two values, advisories, or an error. `Elapse` makes a watcher due.

**Crawler**: `process_result` is `ProcessSeed` or `ProcessTask` (the links of the page, with `Resolve`
as `resolve_url` resolves them, `../` on the text of the base included), then `FilterLink` (under the
lock of the seen map) and `SubmitLink` for each link. A URL is the sequence of what stands between its
slashes.

**CollectApi**: `CollectStep` is the next statement of the handler, `CollectFails` its failure, before
or after it took effect, `FailSession` the detached task, `ClientGone` the handler dropped by its
client, `ServiceCrashes` all of them.

**GraphAlgorithms, TaskScheduling, StorageStructures, TextStructures, SimilarityMeasures**: each
algorithm as an operator from its input to its result, the actions build the inputs up, and the
properties compare with reference definitions. Digests and hashes are constants; a digest of two digests
is that of their bytes in a row, so that a leaf may look like a node (`BytesOf`). A word is its bytes in
UTF-8: `b as char` takes each for a character, and a slice between two characters panics (`AsChar`,
`Sliceable`). `algorithm_engine.rs`, which runs the algorithms for the kernel, is modelled with them.
All but StorageStructures and TaskScheduling use recursive operators. In StorageStructures the loops
over levels and proofs are recursive functions, and those over tables and keys in closed form (the
newest table that holds a key, the place of a key among all). `StorageAssumption`: the size of the
memtable is positive (`chunks(0)` in `compact` panics), keys are ordered as the integers are. In
TaskScheduling each loop is a function from the number of its turns to the state it is in: `Risen` and
`Sunk` are a turn of the loops of `push` and `pop`, `Taken` one of `topological_sort` and `Lowered` one
of the loop in it; a turn after the loop has ended changes nothing. `ScheduleAssumption`: there is a
worker, costs do not count down, items are ordered as the integers are.

**MemoryLayers**: the five stores; in the short-term memory each command to Redis is a step that may
fail (`StmSetEx`, `StmZadd`, `StmTrim`), and entries expire under their index (`StmExpires`).
**ProceduralMemory**: `Execute` as a function of the procedures, recursive in the depth of calls; the
loop over the steps ends at the first one that overflows or is not let go on (`Loop`). A procedure that
reaches itself has the outcome "overflow" (the code recurses). **KnowledgeChains**: records with their
chains, fingerprints in two indexes, aliases. A fingerprint is the content itself.

**TemporalGraph**: intervals in integers of which `Second` make a second (`whole_seconds` drops the
rest), the graph with kinds, labels and attributes, its snapshots, the predictor's counters for each
kind, and the analyses as operators. **SearchEngine**: `Evaluate` is the evaluation of every expression
with its truncations, scores are fractions, a document a sequence of words. **DecisionEngine**: an
analysis is `Ask`, then one `ReadKernel` for each call of the kernel its analyzer makes, in their order,
with the calls that follow from a reply (by label when there is no such id, all kinds when there is no
reference); a reply may be an error. Then `RecordAnswer`, which the store may fail to do without a word,
`PublishAnswer`, and, when the caller does so, `EmitDecision`, also of an answer of the caller's own.
Objects are created, updated and deleted and events appended in between. Lists of leads are sequences,
sorted and truncated as the code does, in any order a hash map gives. **IntelligenceFiles**: `Projected`
is `project_event`; `ReplayStart`, `ReplayRead` (one aggregate type), `ReplayProject` (one event),
`ReplayDone`; `RenameRead`, `RenameWrite`, `RenameDelete` for the three steps of `rename`. A batch is
the set of positions that `read_all` takes from the index of the type, projected in order; the read may
fail, and so does an event whose data is no event (`garbled`). Events are recorded and files renamed
while a replay runs.

**TdxlCompiler**: the stages of `compile` one after the other over a sequence of tokens (the lexer is
left out), with both optimisers and the allocation of registers. Each operation of KIR is a record of
what it makes, uses and says; two filters that are merged become one whose condition is a text of both,
as in the code. The field `means` of an instruction is history: the register and the string its operand
was compiled from. **VirtualMachine**: one action for each group of opcodes; a value is what it was made
from. The reads are cut at the limits the code gives them (`ReadLimit`), and a memory may return an
error, which ends the program. `MCLayers` runs on it what the compiler makes, and programs written by
hand for the opcodes the compiler never emits.

`MC*` modules add TLC's operators, symmetry sets and the values of the larger constants; runs of modules
that need none name the module itself. `MCKernel` and `MCLayers` put components side by side that do not
call each other: the variable `part`, chosen initially, says which one the behaviour exercises, and the
others keep their initial state. That is the union of the components' state spaces where their product
would show no more, because no component reads a variable of another. Components that do interact are
composed: the fabric with its queue, the loop with its table, the agents with both their threads, the
compiler with the machine.

Definitions commented as mutants are wrong variants of the definition they precede. No specification
uses them: with one put in the place of the right definition, the property PROJECT.json names for it
fails, which shows that the property depends on that line of the code.

## 4. Runs that pass

**queue_heap** (554503 states): four ids, three priorities, five accepted tasks, every order of
enqueues, dequeues and cancels. `HeapOrdered`: the vector is a heap after each method, also after a
cancel in its middle. `CancelExactWhenIndexed`: a cancel whose position is true removes that entry
alone. `ImplementsQueue`: the whole refines `PriorityQueueSpec`, in which a pop takes the first pending
entry whatever was cancelled before, and ids are unique until a first cancel. Bounds: five entries make
a heap of three levels in which a node has two children, one or none, and a replacement can travel both
ways; three priorities make ties and both kinds of inequality on one path.

**fabric_calls** (890104): one client making three calls (submit, resubmit, cancel, stop, start), a
worker that drains, two ids. `OutcomeMatchesState`. Three calls are enough for submit, resubmit and
cancel of one id around a task that is being processed, and for a stop and a start in a drain.

**fabric_workers** (960216): two workers, a client making two submissions, of two ids or of one id
twice, with two priorities, drivers that answer, fail or panic. `RunningIsAttended`, `NoTaskLost` (an
entry is in one place, and a Queued session's task is somewhere) and, under `FairSpec`, `TasksFinish`
(every task whose driver does not panic comes to an end). Two submissions fill both workers, and the
retries of both are in the queue together. Clients do not cancel or stop here: a cancelled task need not
succeed or fail, and a stopped fabric finishes nothing.

*Fairness.* Weak fairness of each worker: the thread calls `process_next` again and again, and a driver
answers. Weak fairness of a client's call that has begun: it has no loop and waits only for mutexes,
each held for one action. Nobody is obliged to begin a call.

**event_store** (302581): two writers, two savers, two aggregates, two types of events, two events, one
`clear`. `VersionsContiguous`, `EventsIndexed`, `RecoveryIsExact` and the refinement
`ImplementsStreams`. Two writers that have read the same version are the race the check in `append` is
for; two savers let an older snapshot be saved over a newer one; a `clear` falls between any two steps,
and events follow it. Writers, savers, aggregates and types are interchangeable.

**kernel_events** (473058): two concurrent requests, two events of a millisecond (`PerMs`), statements
that fail before or after they took effect, an aggregate with a row and up to four events, two agents
that may fail, a restart. `OnceInOrder`: the cursor has passed an event only after it was dispatched,
unless its row became visible when an event of a greater id had been read; and no agent is handed an
event twice or after a later one, unless its id is out of the order of stamps, as ids of one millisecond
may be. `EventsDispatched`, under `FairSpec`: every stored event that did not become visible so late
reaches an agent. Two writers are what makes a row late; a batch of two, one arriving during its
dispatch and one after it make four events; the restart may fall anywhere.

*Fairness.* Weak fairness of the loop: `tokio::time::interval` ticks for ever and a failed read is tried
again. That a read does not fail for ever is assumed. Restarts are finitely many.

**cluster_tasks** (329410): two workers, two collectors (the kernel's loop and a request), three tasks,
a `COUNT` of two, three faults. `WorkedOnce`, `NoResultDropped` (a result that left its stream is in a
collector's hands, returned, or lost with a collector that was dropped while it held it) and, under
`FairSpec`, `TasksAnswered`: every task is answered and its result returned, but for one task, or one
batch of at most `COUNT` results, for each fault. Two collectors read the same results; a `COUNT` below
the number of results makes a collector read twice; three faults can combine a lost delivery, a crash, a
failed deletion and a dropped collector.

*Fairness.* Weak fairness of each worker's loop and of the kernel's collecting loop: both are endless
and go on after an error. A request need not come, and one that has begun goes on or is dropped.

**kernel_services** (296477 states): one component a behaviour, see `part` above.
- Scheduler, three jobs: `SchedulerHonest` (a cancelled job stays cancelled and does not start, what
  counts as running has a thread or panicked) and `JobsSettle`. Three jobs are more than any two that
  could meet; each has a thread and anybody may cancel.
- IPC, two senders, two endpoints, two messages; the broadcast channel with room for two and the stream
  with a `COUNT` of two and a channel of one, four envelopes of two topics: `AcceptedOnceInOrder` (of an
  endpoint) and `DeliveredInOrder` (of a subscriber, who loses nothing but what it reports as lag). Four
  are more than channel and batch hold together.
- Managers, with two callers, two drivers of one name that offer different capabilities, plugins of
  which two have one id: `LookupsHold`.
- Cluster membership, two nodes, a time to live of 5 s, heartbeats that fail and wait up to 4 s:
  `StaysAlive` (a worker whose latest heartbeat was stored is alive until its next one has waited for
  all that was left of its key) and `GoneIsNoticed`. The sleep is 2 s, so that a wait of 3 s loses the
  node and one of 2 s does not. Time needs no bound: every timer stops at its deadline.
- Agents, three registrations that cover all six, two ticks, one event, by the loop and by a request,
  one failing INSERT or deletion by a client: `AgentsAccountForObjects` (the objects there are, and
  those not there for one of these two reasons, are those the ticks and events called for). Two ticks of
  one agent can overlap.
- Persistent objects, snapshots and files: `StoredDataIsWhole`. Paths of which one is a prefix of
  another, links whose ends are deleted, statements and file operations that fail before or after their
  effect, two calls that write the same file in steps.
- Monitoring, four registrations that cover the seven watchers, the agent's tick and a background
  thread, two polls: `ReportsAccounted`. Crawler, two workers, three pages with links out of the
  directory, of the host and of the domain, above the root, a depth of two, a fabric that takes two:
  `CrawlIsBounded`. Collection service, two requests for one URL, statements that fail before or after
  they took effect, and a crash: `SessionsAreBacked`.
- Algorithms: every graph of three lines over three nodes with two weights (`GraphAnswersAgree`, a part
  of `LibraryIsExact`); three tasks with up to four dependencies, four jobs of three workers and of one
  that does not exist, heaps of five (`SchedulesAreSound`); Merkle trees of up to five leaves (odd at
  two levels), two keys below and above a third, compaction at every third flush
  (`StructuresAnswerTruly`); words of up to three bytes, a character of two bytes among them, texts of
  up to four, two documents, three sets of three words (the rest of `LibraryIsExact`).

*Fairness.* Weak fairness of the thread of a job: it sleeps its delay, and its task returns or panics.
That a task does not run for ever is assumed, as the code does.

**layers** (1466951 states): one component a behaviour.
- `LayersAreSound`: working and short-term memory of capacity two with more keys than that, six events
  of two long-term entries, commands that fail between each other.
- `OutcomeAccountsForSteps`: every main procedure of two steps and every sub-procedure of one, each step
  of every kind, result and failure action, sub-procedures that call back included. A failed procedure
  stopped at the step that failed, and each earlier failure was let pass by its own `on_failure`;
  whether a retry runs the step again is left open.
- `ChainsAreWhole`: three records, two contents and subjects, two aliases, revisions in a tree. The walk
  back meets every revision; whether it also meets the first version is left open.
- `HistoryIsCoherent`: two snapshots of a graph with nodes of two kinds and labels, intervals open,
  closed, empty and of half a second, at three times, in either order.
- `AlgebraIsSound`: three documents, each atomic query, each operator over two of them, and operators
  over unions, intersections and complements of those; limits of one, two and more than there are
  documents. What a query must give and may give are defined document by document, without limits, ranks
  or the order of operands.
- `ReplayRebuilds`: logs of three events out of eight (create, update, delete, two types, an entry of a
  timeline, an id that does not parse, an event nobody replays), one of which may be garbled, a restart,
  a replay whose reads may fail, records and renames before, beside and after it.
- `DecisionsAreBacked`: an asker, ten questions that reach every analyzer, six objects of which an
  investigation has two states, created, updated and deleted by three writes at any time, two events,
  one failing statement.
- `CompiledKeepsMeaning`: a source of one head and three more statements, every combination, compiled
  and run, and six programs by hand. Both optimisers and every kind of instruction are reached. The
  first optimiser keeps what any program stores, exports and returns; the second keeps it for a program
  whose pipeline it sees whole, and for any other at least its operations with their words, each as
  often. In the code every condition is in its register when it is used, and so is every other string,
  while programs have at most three and nothing else was put there.

`CHECK_DEADLOCK FALSE` is in the runs whose clients or events are bounded: when the bound is reached,
and all work is done, the model stops.

## 5. Where code and documentation disagree

Four runs are expected to find a violation of a sentence that the sources contain.

- **queue_cancel**, `CancelRemovesTheTask`: `cancel` says "Remove a task by ID (if still in queue)". It
  removes whatever stands at the remembered position.
- **fabric_retry**, `FailedIsRetried`: `session.rs:6` draws "Failed → Queued (retry)". Nothing makes
  that transition: `process_next` enqueues the retry, leaves the session Failed, and the retry is
  refused when it is dequeued.
- **fabric_events**, `SuccessIsRecorded`: "Emits events for each step". The event of a success carries
  the version of one aggregate and belongs to another, and is refused.
- **pg_race**, `VersionsUnique`: `append` "Returns an error if the version does not follow the latest
  version". Two requests store the same one.

More of the kind is in the models, without a run of its own. The models do what the code does, and the
properties that pass say no more than holds.

Fabric, stores and cluster:

- A driver that panics leaves its session Running until somebody submits its id again.
- `node.rs:139` says of `heartbeat` "Refresh heartbeat to keep node alive". It refreshes one of the two
  keys that `register` sets with the same time to live; a node that is alive is no longer listed.
- `enqueue` says it refuses an id that "has already been processed"; `seen` is written and never read
  (`Enqueued`, `CanEnqueue`).
- `drain` says "Process all tasks currently in the queue" and ends at the first error, which the retry
  of a failed task always is (`ReturnSome` and the other ways `process_next` ends).
- The first append to an aggregate is refused with a storage error: MAX of no rows is NULL and does not
  decode (`SelectMax` when `Versions` is empty). Hence `Seeded`.
- `read_since` says "Reading since a given ID enables catch-up subscriptions." The loop never catches up
  with an event that was built first and inserted last, or that has the smaller id of its millisecond:
  it is behind the cursor when it appears (`late`). Nor is the order in which agents get the events of
  one millisecond that of their ids.
- One heartbeat that fails, or waits too long, loses a node that runs: the worker beats every half of
  the time to live, and beats behind `XREADGROUP BLOCK 5000` on the connection they share, of which the
  default of ten seconds leaves exactly five.
- A collector deletes results before it returns them (`task.rs:279`): with a request that is dropped, or
  a kernel that crashes, between the two they are gone.
- `create` and `link` of the persistent objects return an id though the insert failed; `object_kinds`
  asks for the kind "" and always lists nothing; `store_data` always answers "stored"; with object
  storage `delete` deletes nothing and `list` is empty; `list` takes a prefix for a directory. A
  snapshot is overwritten whatever its version.

Kernel services and what runs beside them:

- `TaskStatus::Failed` is never set; a job that panics stays Running. `poll` returns the whole history
  of a topic every time. "Peak" memory is the total ever allocated.
- Monitoring: the report of an older answer may be stored after that of a newer one; the first failing
  `emit_change` of `poll_due` drops the remaining changes and watchers, a thread goes on.
- Crawler: a page first seen deep is not expanded when it is found nearer the seed; the test for
  `mailto:` and `javascript:` comes after the resolution and never triggers (`crawler.rs:194`); `../` at
  the root drops the host, and a URL without a host passes the filter (`crawler.rs:204`) that is to keep
  the crawl within its domains.
- Agents: `init` is never called. Every tick of the architecture agent describes all drivers again, one
  of the forensics agent writes a trace for each linked component, and no agent deletes them. What an
  agent counted may never have been stored.
- Collection service: a session INSERT that takes effect and fails leaves a session running, for which
  no failure is written (`lib.rs:70`).

Memory, knowledge and questions:

- Working memory is said to evict the least recently used, and evicts what was accessed least often.
- Long-term memory ignores the ids of a query; `forget` is accepted only after exactly one `update`, and
  what was forgotten is still retrieved. `clear` of the short-term memory removes the index and leaves
  the entries.
- `procedural.rs:296`: Retry marks the failed step successful without running it again; a Fallback that
  fails does not fail the outcome; a procedure that calls itself overflows the stack.
- `versioning.rs:55`: the history ends before the first version, where the comment says "Walk the
  version chain backwards from a knowledge ID to the first version."; revising one record twice gives
  two records of one id; `unregister` may remove another record's fingerprint.
- An edge whose first and last observation coincide is never active, and such an interval may be said to
  overlap one it has no intersection with; nothing asks that snapshots be taken in the order of their
  times, on which the lookup of a past state relies; the intersection of two open intervals is bounded
  by the moment it is computed (`interval.rs:65`); the diff of snapshots ignores kind and label of a
  node, kind and ends of an edge (`diff.rs:157`), so that it may be empty although something changed;
  durations are cut to whole seconds, so that trends of less than one are flat.
- Search: nothing sets embeddings, so that a semantic query finds nothing; `And` truncates its operands
  before it intersects them, and `Filter` filters what was truncated; a document indexed again appears
  twice; a document of a union has the score of the first operand that has it, by which a filter may
  drop it (`lib.rs:253`); an Edge looks at the first of each side only.
- Virtual files: a rename onto itself deletes the file (`lib.rs:1030`); a refused deletion, an id that
  does not parse, a read that fails or data that is no event stops a replay, with the types that come
  after it left out (`lib.rs:911`); a replay into files that exist does not give the current state; the
  events of agents and of monitoring are not replayed.
- tdxl: `query_optimizer.rs:515` says of operations outside the pipeline "we keep them as-is with new
  IDs", and `FROM x STORE y` stores "y"; SORT, LIMIT and EXPORT cut the pipeline likewise. Two filters
  in a row are merged into a text with the operator "compound", which no part of the machine takes
  apart. Register 0 is the "Current pipeline value ID (value in R0)", and STORE and EXPORT overwrite it
  with their names (`compiler.rs:569`, `625`). The fourth string takes the register of the first
  (`compiler.rs:383`); a filter and a correlation overwrite the registers of others; DEPTH is never
  read. In the machine Query returns every fact, Call and Ret make a loop, and facts are stored with
  quoted names, so that a search for a string finds none.
- Decisions: WhatIsRisky takes the smallest severity for a type of events (`analyzers/mod.rs:231`), and
  WhatChanged without a type ignores its period. WhatShouldIInvestigate reads investigations between
  other kinds, and proposes what one created after that read is about (`analyzers/mod.rs:343`). An
  answer may be published and decided upon although its record was not stored, or was deleted.

Algorithms:

- PageRank loses the rank of edges to nodes that have no adjacency list; the estimate of A* (the
  difference of node numbers) may exceed the distance, so that its path need not be a shortest;
  traversals begin at node 0 even if it is not there.
- `Trie.longest_prefix` ends at the first occurrence of the last byte it matched, and the trie's answers
  take each byte for a character (`searching.rs:57`, `91`); the radix tree loses a key that is a proper
  prefix of another, and panics when it splits two keys inside a character (`searching.rs:163`); the
  request that lists a word's neighbours cuts its last byte and panics likewise
  (`algorithm_engine.rs:450`). Two empty texts are not similar at all (`similarity.rs:39`). A leaf of a
  Merkle tree may be the bytes of two digests: leaves and nodes are not told apart (`storage.rs:108`). A
  range scan of the sorted vector panics when it is empty and may return a first key above the range.
  The work-stealing pool drops a task for a worker that does not exist.

## 6. What is proved

All theorems are of the specification without fairness, for every value of the constants that satisfies
the named assumptions of the modules. `PROJECT.json` lists them.

**TaskHeapProofs** (any heap of any entries). The lemmas say what each method returns: which entries it
keeps, that it keeps the order of the heap, that what it adds or removes is one entry. The two theorems
`BubbleUpIsItsLoop` and `BubbleDownIsItsLoop` tie the closed forms to the code: each satisfies the
equation of the loop in `queue.rs` (stop, or swap with the parent or the better child and go on from
there). The second needs that the sequence numbers of the entries differ; with a tie the loop stops
where the closed form might go on.

**PriorityQueueProofs** (any ids, priorities 0 to 4, any number of calls). `HeapOrdered` is not
inductive: a new entry goes before what it ties with unless its sequence number is new. `SoundHeap` adds
that numbers differ and are all in the past. `OneEntryPerTask` says what the index knows until the first
cancel. From both `QueueHeapOrdered`, `QueueCancelExactWhenIndexed` and, with the set of entries as the
set pending, the refinement `QueueImplementsQueue`: the root of a heap is the least of its entries, and
every action maps to an action of `PriorityQueueSpec` or a stutter.

**CollectionFabricProofs** (any clients, workers, drainers, ids, priorities 0 to 4, retries).
`FabricTypeOK` rests on `TypeInv`: `TypeOK` is not inductive, since a step uses the id and the task its
thread took earlier; `IdKnown`, `TaskKnown` and `WorkerHasTask` say they are there when needed. A step
changes a session only by `FreshSession` or by an allowed `Moved` (`StepIsSessionStep`), so that
`FabricOutcomeMatchesState` is an argument about one session. `FabricRunningIsAttended` says in addition
that the worker that moved a session to Running keeps its id until the other transition, and that no
other thread touches it; a session that is Running without a worker has had its driver panic.
`FabricEntryHeldOnce` (an accepted entry is at one position of the heap or in the hands of one worker)
holds with cancels and panics: a step adds one new entry to the queue, takes one out, or neither
(`QueueStep`), and an entry a worker holds has a number that is not handed out again. `FabricNoTaskLost`
states the whole of `NoTaskLost` for clients that do not cancel (`MayCancel` false). It cannot be stated
for all: a cancel through a stale position costs another task its entry, as run queue_cancel shows, or
panics with the mutex held, after which nothing is taken any more. `KeptInv` is what cancels would
spoil: the index knows only ids that have an entry, and the mutex is not poisoned.

**EventStoreProofs** (any writers, savers, aggregates, types). `StoreInv` is `TypeOK`, that a writer
about to append has an aggregate, `VersionsContiguous` and `EventsIndexed`. The two are inductive only
together: that positions lead to events of the right version makes the next version new, and that events
are listed at their version makes the indexes lead back. `StoreImplementsStreams` is the refinement of
`EventLogSpec`: an `AppendEvent` extends one stream (`AppendExtendsStream`), a `Clear` empties them,
anything else leaves them alone. `StoreRecoveryIsExact` adds `SnapsTruthful`, about the snapshots stored
and those still in a saver's hands: each is a prefix of its aggregate's stream of the same epoch. A
writer only extends streams, a `Clear` changes the epoch, and an older snapshot saved over a newer one
is still a prefix.

**KernelRuntimeProofs** (any requests, aggregates, agents, failures and restarts, any number of events
in a millisecond). `RuntimeTypeOK` from `PgInv`: stamps differ. `OnceInOrder` from `TickInv`: up to the
position the turn of the loop reaches, each row that was visible in time has been dispatched or is in
the batch (`NothingOwed`); the batch is in the order of stamps and ahead of the cursor; and nothing read
was stamped after all that the turn reaches (`ReadBehind`), so that an event handed out of order has an
id out of order. No assumption is made about who else publishes: what two requests make late is what
`late` says. The rows are a finite set that a step may sort: the lemmas that a finite set of numbers has
a greatest element and that the batch is the sorted selection are proved from a least counterexample.

**ClusterProofs** (any workers, collectors, tasks, faults; any nodes and time to live; any jobs, tasks,
costs and items). `QueueWorkedOnce` from `WorkInv`: what is in a worker's hands or answered has left the
stream, so that the next delivery is new. `QueueNoResultDropped` adds that a collector's record keeps
its shape, so that what it has read it keeps until it returns it or is dropped. `MembershipStaysAlive`
makes no assumption on delays: `AgeInv` says that, of a worker whose latest heartbeat was stored, the
seconds left of the key and the seconds slept or waited since add up to the time to live at least, so
that the key can only go while the next heartbeat waits for all that was left. `MembershipGoneIsNoticed`
needs no assumption. `SchedulesDoHold` is of `ScheduleSpec`, the structures that schedule inside one
process; it needs no more than `ScheduleAssumption`. `TurnsExist` (a loop whose turns stay among its
states has a course) is what every loop of them rests on, by the least number of turns without one. Its
invariant is `SchedulesInv`:
- `PoolInv`: the accepted jobs are spread over the queues and the list of those that ran, each in one
  place once (`Spread`). A submission adds one, a run or a theft moves one (`JobAdded`, `JobTaken`).
- `HeapInv`: no item is greater than its parent. Inside `push` only the item that rises may be
  (`Rising`), inside `pop` only the children of the one that sinks (`Sinking`), and in both cases what
  is around it is in order, without which a swap would spoil it. A rise that is not over comes nearer to
  the root in each turn, and a sinking item goes beyond the end: both loops end in a heap, with the same
  items (`UpMakesHeap`, `DownMakesHeap`).
- `PlanInv`: dependencies and dependents mirror each other, each as often as it was added, and tasks
  have ranks that grow from a task to those that need it (`RankedBy`). Without the ranks nothing says
  that there is no cycle. A new dependency keeps them since `creates_cycle` has seen all that the task
  leads to (`SearchIsClosed`), and these can be raised above what it now needs, which is not among them
  (`LinkedPlanned`). From the ranks: a task of least rank that is left is ready; in `topological_sort`
  the degree of a task is what it still waits for (`Sorting`), inside a turn what is not looked at yet
  as well (`Lowering`), and a task never listed would wait for one of lower rank; the costs memoised
  along the critical path are defined (`LongestExists`), bound those of every chain (`ChainBounded`) and
  are those of one (`ChainFound`).

**LayersProofs** is about components `layers` runs one a behaviour, with the specification of their own
modules (`MemoryLayersSpec`, `ProceduralSpec`, `KnowledgeSpec`, `DecisionSpec`, `TemporalSpec`,
`VifsSpec`).
- `MemoryLayersAreSound` (any capacities, keys, ids). `NewestOfIndex` is why the trim of the short-term
  index may look at the index alone: ids below one of the newest that the index may lack are never
  needed to fill it, which takes a greatest element of a finite set. `UpTo` counts the events of an
  entry up to a position; the constant version of the event appended next is that count.
- `ProceduresAccount` (any procedures, numbers of steps, depth of calls). `LoopAccounts`: a loop
  accounts for its steps whatever the procedures it calls returned, since only its first step that ends
  it can be a failure that `on_failure` does not let pass. Nothing is said of what a retry does. That
  the nesting of calls is a function at all is `NestedExists`, by a least depth at which there would be
  none.
- `KnowledgeChainsAreWhole` (any subjects, contents, aliases, any number of records and revisions).
  `ChainsInv`: an id says what its chain is (`ChainOf`), every record's predecessor is a record, and a
  version is at most its position, which is why the bound on the loop of `history` is never what ends
  it. `HistoryIsWalk` solves the loop: after `j` turns it stands at the prefix `j` shorter than the id
  and has found the chains of those it passed. The recursive function is the explicit one by a least
  turn at which they would differ.
- `DecisionsRestOnRecords` (any objects, questions, callers, events, and what is created, updated,
  deleted or fails between two reads). `Heeded`: what an analysis has heard of a kind lies between the
  objects of that kind that were there since it was asked and those that were there at some time since;
  a read that failed (`blind`) gave nothing. Hence a lead is about an object met, and about none that an
  investigation present throughout is about. A lead left out means as many kept as asked for, none of
  which scores less: a list has a sorted one (`Listed`), and its first entries are the best (`Best`). It
  assumes that objects have labels and that labels and events which say they are of an answer are the
  engine's own.
- `TemporalHistoryIsCoherent` (any nodes, edges, attributes, intervals and times, any number of
  snapshots). `TemporalInv` says only that snapshots are of the graph's maps and that each kind was
  counted once for each item of it and each snapshot this was active in (`ObservedOnce`); that
  differences rebuild the attributes, that they are empty exactly when ids, attributes and intervals are
  the same (`DiffRebuilds`, `DiffCounts`), and that trends count them is proved of any two maps. The
  regression is solved for two points (`LineThroughTwo`): the code's formula meets both, when there are
  whole seconds between them, and is their mean otherwise. The time of a past state needs that snapshots
  were taken in order (`PastIsLatest` says so). Intervals start before `far_future`, which is what
  `end_or_far` relies on.
- `ReplayDoesRebuild` (any events, logs, ids, any files and renames before). What a replay has projected
  is not a prefix of the log, since it goes by types: `SoFar` says that the files are what the events
  seen so far say of each object (`RebuiltFrom`), and that of the type being replayed those seen come
  before those still in the batch. `ProjectKeeps` adds one event that is after all others about its
  object: `LivesBy` and `SaysOf` give what a set of events says without going through them in turn
  (created after the last deletion; each field as last set; the n-th entry of a timeline is the n-th
  event). `RefusedAgain`: what the replay refuses was refused when it was recorded, because the events
  of other objects do not matter to it. A replay ended by a read that failed has seen the types before
  it, and one ended by an event whose data is no event says nothing of the files. The statement is about
  a replay with nothing recorded or renamed beside it (`fresh`), which the code does not exclude. It
  assumes that a creation carries all fields and that only entries are added to timelines, as the types
  of the events say.

**KernelProofs** is about the components `kernel_services` runs one a behaviour, each with the
specification of its own module (`ServicesSpec`, `RegistriesSpec`, `BroadcastSpec`, `StreamSpec`,
`CollectSpec`, `CrawlerSpec`, `StoresSpec`, `MonitoringSpec`, `AgentsSpec`, `StorageSpec`), of which
that run explores the parts side by side.
- `ServicesSchedulerHonest` (any jobs): that a job that counts as running is attended is the invariant;
  the rest is read off each step. `ServicesAcceptedOnceInOrder` (any senders, endpoints, messages): a
  push and the record of it are one step under the mailbox's lock.
- `RegistriesLookupsHold` (any callers, drivers, sizes). `PeakInv`: the peak is below the total, and
  while it is not equal some caller still has the last total to write; this caller is the witness of
  every interleaving of load and `fetch_max`.
- `BroadcastDeliveredInOrder` and `StreamDeliveredInOrder` (any subscribers, topics, capacity). For the
  broadcast: what was given lies before the subscriber's position, what it skipped between. For the
  stream: what was given, what is in the channel and what the task has read are in order, of the topic,
  not beyond the last id, and complete up to it.
- `CollectSessionsAreBacked` (any requests and URLs, statements that fail before or after they took
  effect). `Backed` says for each next statement what the earlier ones left, `LeftBehind` and
  `ToBeMarked` what a failure or a crash leaves; a session whose INSERT failed although it took effect
  (`unknown`) is one of the reasons to run for ever.
- `CrawlerIsBounded` (any web of finite pages, any hosts, any number of workers). The hosts are those
  that are there: a URL that resolution left without one passes the filter, as in the code.
  `OncePerSession` counts for each URL: it is in the hands of one worker at most, then it is marked and
  not submitted in this session, so that all its submissions are at most one more than the resets.
- `StoresDataIsWhole` (any objects, links, aggregates, versions and paths). `RowsInv`, `SnapshotsInv`,
  `FilesInv` and `WritesInv` are what is inductive. For the snapshots: what is there is one of those a
  caller must reckon with, given that a statement may fail after it took effect. For the files: with a
  data directory every parent of a path is a directory, and a failed write leaves directories that are
  closed under parents; a write that is alone on its file stays alone until another begins, and then
  nothing is said of what the file will hold (`kept`).
- `EveryReportIsAccounted` (any registrations, threads, advisories, alerts). `MonitoringInv`: a poller
  has changes in hand exactly when it is storing them, the changes of all pollers are finitely many, and
  the three numbers of a report (stored, refused, in hand) add up. What a poll adds to them comes from
  `NewOnesFacts`: the loop over a feed, a recursion over its length, keeps each advisory once and only
  those not known, shown by the least place where it would not.
- `AgentsDoAccount` (any registered agents, drivers, capabilities and events, two threads that tick and
  dispatch). `AgentsInv`: for each kind, counter and topic the sum of what is there, what was lost (an
  INSERT failed, a client deleted it) and what the threads still have to do is changed by no call
  (`CallKeepsAccounts`, `MappingKeepsAccounts`) and by a new tick or event only by what that agent's
  program holds (`TickCallsCounted`, `EventCallsCounted`). Links that are due are within the
  capabilities created, and traces within the traces done times the components with a link (there or
  lost), which never become fewer. `AgentsAssumption` is all it needs: finitely many drivers, each with
  finitely many capabilities.
- `StructuresDoAnswerTruly` (any leaves, items, keys and values, any size of the memtable and any
  threshold). `MerkleInv` says that a built tree is the one of its leaves. Levels, proof and hash are
  recursive functions, each unfolded by a least place where it would not be defined; on the way up, the
  hash of a datum is that of the node above the leaf exactly when the datum is the leaf's
  (`StepUpKeeps`: left, right or odd one out), and a level of more than one node has fewer above it, so
  that the last level is the root (`LevelsEndInRoot`). `SketchInv`: each register is the greatest rank
  seen, kept by an insertion and by a merge. `VectorInv`: sorted; a search is the count of smaller keys,
  so that a scan is a part of the vector (`ScanIsPart`): the range, or, where every key is above it, the
  first key, which the code gives although it is outside. `LsmInv`: a read finds what was written;
  compaction keeps for each key the newest table's value (`MergedIsNewest`), and its chunks share no key
  and lose none (`ChunksPartition`). A digest is the term it is the digest of, thus collisions are
  excluded by the model, not by the proof; that leaves and nodes are hashed alike is not.

Assumptions on constants are what the code has: numbers are naturals, pages finite, versions numbers,
paths not empty, and a model value for "nothing" is not one of the things.

The library's facts used are those on sequences, finite sets and least elements of well-founded
relations; the provers are Z3, Zenon and, for the temporal steps, LS4.

## 7. What is only model-checked

- Liveness (`TasksFinish`, `EventsDispatched`, `TasksAnswered`, `JobsSettle`): fairness and ENABLED are
  beyond TLAPS. `TasksAnswered` contains a bound (one task, or one batch of results, for each fault)
  that stays with it.
- `GraphAlgorithms`, `TextStructures`, `SimilarityMeasures` and `SearchEngine`: they use recursive
  operators, which the prover does not take, and their properties (`LibraryIsExact`, `AlgebraIsSound`)
  compare results of recursion over graphs, words and expressions. (Recursion over a number, as in the
  structures that store and schedule, is within reach by least counterexamples.)
- `CompiledKeepsMeaning`: what a compiler computes from a program of any length is likewise an induction
  over data.
- `NoTaskLost` with clients that cancel is false, not unproved.

## 8. What is not modelled

- Text, documents, images, numbers: the processors other than `algorithm_engine.rs`, the AI runtime and
  GPU, canonical forms and fuzzy likeness in knowledge, the scores of consolidation in memory, the lexer
  of tdxl, the estimates of cost in its optimiser, parsers of source and manifests (repository and
  package intelligence, the universal language engine). Their correctness is a question of data, not of
  state.
- `deregister` of cluster nodes, `start_agent` and `stop_agent`: nothing calls them.
- The wiring of drivers, the websocket handler, the listings and health requests of the HTTP API,
  configuration and profiles: reads, or construction before anything runs.
- HTTP, DNS, files, object storage, Postgres and Redis themselves. Of a driver the fabric sees an
  answer; of Postgres and Redis the models keep what the code relies on: a statement or command is
  atomic, may fail before or after its effect, and a stream, group or key behaves as documented.
- What the four kinds of workers compute for a task.
- The network between processes beyond lost replies: the client libraries reconnect, and a command is
  not repeated by them.
- Clock skew between hosts. Ulids and timestamps come from the kernel's one clock.
