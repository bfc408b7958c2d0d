--------------------------- MODULE TaskScheduling ---------------------------
(* The scheduling structures of the algorithms crate (scheduling.rs): the   *)
(* binary heap, the work-stealing scheduler and the task graph.  Jobs of    *)
(* the work-stealing scheduler are numbered in the order they are           *)
(* submitted, accepted are those given to a worker that exists; the         *)
(* scheduler runs one inside try_execute_next.                              *)
EXTENDS Integers, Sequences, FiniteSets, SequencesExt, FiniteSetsExt, Functions

CONSTANTS NumWorkers,        \* num_workers
          Cost,           \* the costs a task may have
          MaxJobs,        \* bound: jobs submitted
          MaxAttempts,    \* bound: failed and successful steals counted
          MaxPlanned,     \* bound: tasks of the graph
          MaxLinks,       \* bound: dependencies accepted
          Item,           \* the items pushed to the heap
          MaxItems        \* bound: length of the heap

\* costs do not count down, and items have an order
ASSUME ScheduleAssumption == NumWorkers \in Nat \ {0} /\ Cost \subseteq Nat /\ Item \subseteq Int

VARIABLES pool, plan, data
scheduleVars == <<pool, plan, data>>

----------------------------------------------------------------------------
(* BinaryHeapCustom: a max-heap in a vector *)

At(d, i) == d[i + 1]
Parent(i) == (i - 1) \div 2
Swapped(d, i, j) == [d EXCEPT ![i + 1] = At(d, j), ![j + 1] = At(d, i)]
\* one turn of the loop of push; as many as the place the item came to are enough
Risen(s) ==
  IF s.i = 0 \/ At(s.d, s.i) <= At(s.d, Parent(s.i)) THEN s
  ELSE [d |-> Swapped(s.d, s.i, Parent(s.i)), i |-> Parent(s.i)]
Up(d, i) ==
  LET turn[n \in 0..i] == IF n = 0 THEN [d |-> d, i |-> i] ELSE Risen(turn[n - 1])
  IN turn[i].d
HeapPush(d, x) == Up(Append(d, x), Len(d))
\* the right child is compared with the larger of the node and its left child
LargerOf(d, i, child) == IF child < Len(d) /\ At(d, child) > At(d, i) THEN child ELSE i
LargestOf(d, i) == LargerOf(d, LargerOf(d, i, 2 * i + 1), 2 * i + 2)
\* one turn of the loop of pop; the item goes down a level in each
Sunk(s) ==
  IF LargestOf(s.d, s.i) = s.i THEN s
  ELSE [d |-> Swapped(s.d, s.i, LargestOf(s.d, s.i)), i |-> LargestOf(s.d, s.i)]
Down(d, i) ==
  LET turn[n \in 0..Len(d)] == IF n = 0 THEN [d |-> d, i |-> i] ELSE Sunk(turn[n - 1])
  IN turn[Len(d)].d
HeapPop(d) == Down(Front(Swapped(d, 0, Len(d) - 1)), 0)

Push == \E x \in Item : Len(data) < MaxItems /\ data' = HeapPush(data, x)
Pop == data # <<>> /\ data' = HeapPop(data)

----------------------------------------------------------------------------
(* WorkStealingScheduler *)

Submit ==
  \E w \in 0..NumWorkers :
    /\ pool.submitted < MaxJobs
    /\ pool' = [pool EXCEPT !.submitted = @ + 1,
                            !.accepted = IF w < NumWorkers THEN @ \cup {pool.submitted} ELSE @,
                            !.queues = [v \in DOMAIN @ |-> IF v = w THEN Append(@[v], pool.submitted)
                                                           ELSE @[v]]]

\* the first other worker round the ring that has a job
Around(w, i) == (w + i) % NumWorkers
Victims(queues, w) == {i \in 1..(NumWorkers - 1) : Around(w, i) # w /\ queues[Around(w, i)] # <<>>}
Victim(queues, w) == Around(w, Min(Victims(queues, w)))
RunOwn(w) ==
  /\ pool.queues[w] # <<>>
  /\ pool' = [pool EXCEPT !.queues[w] = Tail(@), !.ran = Append(@, Head(pool.queues[w]))]
Steal(w) ==
  /\ pool.queues[w] = <<>>
  /\ pool.attempts < MaxAttempts
  /\ LET v == Victim(pool.queues, w)
     IN IF Victims(pool.queues, w) = {} THEN pool' = [pool EXCEPT !.attempts = @ + 1]
        ELSE pool' = [pool EXCEPT !.attempts = @ + 1, !.successes = @ + 1, !.queues[v] = Front(@),
                                  !.ran = Append(@, Last(pool.queues[v]))]
TryExecuteNext == \E w \in 0..(NumWorkers - 1) : RunOwn(w) \/ Steal(w)

----------------------------------------------------------------------------
(* TaskGraph: needs[t] lists what t depends on, feeds[t] what depends on t *)

TasksOf(p) == DOMAIN p.cost
AddTask ==
  \E c \in Cost :
    LET id == Cardinality(TasksOf(plan))
    IN /\ id < MaxPlanned
       /\ plan' = [plan EXCEPT !.cost = [t \in TasksOf(plan) \cup {id} |-> IF t = id THEN c ELSE @[t]],
                               !.needs = [t \in TasksOf(plan) \cup {id} |-> IF t = id THEN <<>> ELSE @[t]],
                               !.feeds = [t \in TasksOf(plan) \cup {id} |-> IF t = id THEN <<>> ELSE @[t]]]

\* what the search of creates_cycle visits, whichever dependent it takes first
Downstream(p, from) ==
  LET reached[n \in 0..Cardinality(TasksOf(p))] ==
        IF n = 0 THEN {from} ELSE reached[n - 1] \cup UNION {Range(p.feeds[t]) : t \in reached[n - 1]}
  IN reached[Cardinality(TasksOf(p))]
\* a search that looks at the direct dependents only
CreatesShortCycle(p, from, to) == to = from \/ to \in Range(p.feeds[from])
CreatesCycle(p, from, to) == to \in Downstream(p, from)
\* an unknown task and a cycle are refused; the same dependency may be added twice
AddDependency ==
  \E t, on \in TasksOf(plan) :
    /\ FoldFunction(LAMBDA q, n : Len(q) + n, 0, plan.needs) < MaxLinks
    /\ ~CreatesCycle(plan, t, on)
    /\ plan' = [plan EXCEPT !.needs[t] = Append(@, on), !.feeds[on] = Append(@, t)]

\* nothing asks whether the task was ready
MarkCompleted ==
  \E t \in TasksOf(plan) \ plan.completed : plan' = [plan EXCEPT !.completed = @ \cup {t}]
IsCompleted(p, t) == t \in TasksOf(p) => t \in p.completed
ReadyTasks(p) ==
  {t \in TasksOf(p) : t \notin p.completed /\ \A d \in Range(p.needs[t]) : IsCompleted(p, d)}

LongestPathCost(p) ==
  LET longest[t \in TasksOf(p)] == p.cost[t] + Max({0} \cup {longest[d] : d \in Range(p.feeds[t])})
  IN longest
CriticalPathCost(p) == Max({0} \cup {LongestPathCost(p)[t] : t \in TasksOf(p)})

\* the queue is a stack, first filled in the order of a map
Lowered(s, d) ==
  LET left == IF s.deg[d] = 0 THEN 0 ELSE s.deg[d] - 1
  IN [deg |-> [s.deg EXCEPT ![d] = left], queue |-> IF left = 0 THEN Append(s.queue, d) ELSE s.queue,
      sorted |-> s.sorted]
LoweredAll(s, feeds) ==
  LET low[m \in 0..Len(feeds)] == IF m = 0 THEN s ELSE Lowered(low[m - 1], feeds[m])
  IN low[Len(feeds)]
Taken(p, s) ==
  IF s.queue = <<>> THEN s
  ELSE LoweredAll([deg |-> s.deg, queue |-> Front(s.queue), sorted |-> Append(s.sorted, Last(s.queue))],
                  p.feeds[Last(s.queue)])
\* one turn more than there are tasks: a sort that went on would list one of them twice
Drained(p, first) ==
  LET turn[n \in 0..(Cardinality(TasksOf(p)) + 1)] ==
        IF n = 0 THEN [deg |-> [t \in TasksOf(p) |-> Len(p.needs[t])], queue |-> first, sorted |-> <<>>]
        ELSE Taken(p, turn[n - 1])
  IN turn[Cardinality(TasksOf(p)) + 1]
TopologicalSorts(p) ==
  {Drained(p, first).sorted : first \in SetToSeqs({t \in TasksOf(p) : p.needs[t] = <<>>})}

----------------------------------------------------------------------------

ScheduleInit ==
  /\ pool = [queues |-> [w \in 0..(NumWorkers - 1) |-> <<>>], attempts |-> 0, successes |-> 0,
             submitted |-> 0, accepted |-> {}, ran |-> <<>>]
  /\ plan = [cost |-> <<>>, needs |-> <<>>, feeds |-> <<>>, completed |-> {}]
  /\ data = <<>>

HeapNext == (Push \/ Pop) /\ UNCHANGED <<pool, plan>>
PoolNext == (Submit \/ TryExecuteNext) /\ UNCHANGED <<plan, data>>
PlanNext == (AddTask \/ AddDependency \/ MarkCompleted) /\ UNCHANGED <<pool, data>>
ScheduleNext == HeapNext \/ PoolNext \/ PlanNext

----------------------------------------------------------------------------
ScheduleSpec == ScheduleInit /\ [][ScheduleNext]_scheduleVars

----------------------------------------------------------------------------
\* The reference for the critical path: the dearest chain of dependent tasks.
Chains(p) ==
  {c \in UNION {[1..n -> TasksOf(p)] : n \in 1..Cardinality(TasksOf(p))} :
     \A i \in 1..(Len(c) - 1) : c[i] \in Range(p.needs[c[i + 1]])}
CostOf(p, c) ==
  LET sum[n \in 0..Len(c)] == IF n = 0 THEN 0 ELSE sum[n - 1] + p.cost[c[n]]
  IN sum[Len(c)]
Copies(d, x) == Cardinality({i \in DOMAIN d : d[i] = x})

\* Every order the sort can return lists each task once and after everything it needs, though
\* dependencies are added one by one and the same may be added twice.
OrdersFollowNeeds ==
  \A s \in TopologicalSorts(plan) :
    /\ IsInjective(s) /\ Range(s) = TasksOf(plan)
    /\ \A i, j \in DOMAIN s : s[j] \in Range(plan.needs[s[i]]) => j < i

\* No dependency closes a cycle: something is ready as long as a task is left.
SomethingIsReady == TasksOf(plan) # plan.completed => ReadyTasks(plan) # {}

\* The critical path is the dearest chain.
CriticalIsDearest == CriticalPathCost(plan) = Max({0} \cup {CostOf(plan, c) : c \in Chains(plan)})

\* A job given to a worker that exists, and no other, is in one place: it ran once, or is still
\* pending once.
Places == (DOMAIN pool.queues) \cup {NumWorkers}
JobsAt(w) == IF w = NumWorkers THEN pool.ran ELSE pool.queues[w]
JobsRunOnce ==
  /\ \A v, w \in Places : \A i \in DOMAIN JobsAt(v), j \in DOMAIN JobsAt(w) :
       JobsAt(v)[i] = JobsAt(w)[j] => v = w /\ i = j
  /\ UNION {Range(JobsAt(w)) : w \in Places} = pool.accepted
  /\ pool.successes <= pool.attempts

\* A pop of the heap takes a greatest item and nothing else.
HeapYieldsGreatest ==
  data # <<>> =>
    /\ \A x \in Range(data) : x <= Head(data)
    /\ \A x \in Range(data) :
         Copies(data, x) = Copies(HeapPop(data), x) + (IF x = Head(data) THEN 1 ELSE 0)
    /\ \A i \in 1..(Len(data) - 1) : At(data, i) <= At(data, Parent(i))

\* The structures that schedule keep what they are given and give it back in the right order.
SchedulesAreSound ==
  OrdersFollowNeeds /\ SomethingIsReady /\ CriticalIsDearest /\ JobsRunOnce /\ HeapYieldsGreatest
=============================================================================
