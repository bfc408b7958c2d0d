----------------------------- MODULE ClusterQueue -----------------------------
(***************************************************************************)
(* TaskQueue of crates/cluster/src/task.rs between the scheduler, the      *)
(* workers of one role (services/worker/src/main.rs) and the collectors of *)
(* results: the loop that services/kernel/src/main.rs spawns and the       *)
(* requests to cluster_results of api.rs.  Redis is external: a stream is  *)
(* a list of entries, a consumer group a position in it and the entries    *)
(* delivered and not acknowledged.                                         *)
(***************************************************************************)
EXTENDS Naturals, Sequences, FiniteSets

CONSTANTS Workers,     \* worker processes of one role
          Collectors,  \* callers of collect_results in the kernel: requests, and
          Loop,        \* the kernel's own loop
          Count,       \* the count of a collect_results (50)
          MaxFaults,   \* bound: failed commands, crashed workers, dropped collectors
          MaxTasks     \* bound: tasks enqueued

ASSUME QueueAssumption ==
    /\ Loop \in Collectors
    /\ Count \in Nat \ {0}
    /\ MaxFaults \in Nat
    /\ MaxTasks \in Nat

VARIABLES added,      \* tasks enqueued; the n-th is task n
          delivered,  \* last-delivered-id of the consumer group
          pending,    \* delivered, not acknowledged
          worker,     \* what each worker is doing, and with which task
          results,    \* every result published: whose it is
          present,    \* the results not yet deleted from their stream
          collector,  \* the results each collector has read, and not deleted
          handed,     \* the results returned to callers of collect_results
          dropped,    \* the results in the hands of collectors that were dropped
          faults      \* failed commands, crashes and drops so far

taskVars == <<added, delivered, pending, worker>>
resultVars == <<results, present>>
collectVars == <<collector, handed, dropped>>
vars == <<taskVars, resultVars, collectVars, faults>>

Waiting == [pc |-> "wait", task |-> 0]
Resting == [todo |-> <<>>, got |-> {}]

Init ==
    /\ added = 0
    /\ delivered = 0
    /\ pending = {}
    /\ worker = [w \in Workers |-> Waiting]
    /\ results = <<>>
    /\ present = {}
    /\ collector = [c \in Collectors |-> Resting]
    /\ handed = {}
    /\ dropped = {}
    /\ faults = 0

(* A command fails, a worker dies or a collector is dropped.               *)
Fault == faults < MaxFaults /\ faults' = faults + 1

-------------------------------------------------------------------------------
(* enqueue: XADD.                                                          *)
Enqueue ==
    /\ added < MaxTasks
    /\ added' = added + 1
    /\ UNCHANGED <<delivered, pending, worker, resultVars, collectVars, faults>>

(* dequeue: XREADGROUP ">" of one entry, whose reply may be lost.          *)
Deliver(w) ==
    /\ worker[w].pc = "wait"
    /\ delivered < added
    /\ delivered' = delivered + 1
    /\ pending' = pending \cup {delivered + 1}
    /\ \/ worker' = [worker EXCEPT ![w] = [pc |-> "ack", task |-> delivered + 1]] /\ UNCHANGED faults
       \/ Fault /\ UNCHANGED worker
    /\ UNCHANGED <<added, resultVars, collectVars>>

(* Mutant of Acknowledged: the task is not returned.                       *)
AcknowledgedOnly(w) == Waiting

(* dequeue returns the task it has acknowledged.                           *)
Acknowledged(w) == [worker[w] EXCEPT !.pc = "process"]

(* dequeue: XACK, before the task is processed; a failure is ignored.      *)
Acknowledge(w) ==
    /\ worker[w].pc = "ack"
    /\ \/ pending' = pending \ {worker[w].task} /\ UNCHANGED faults
       \/ Fault /\ UNCHANGED pending
    /\ worker' = [worker EXCEPT ![w] = Acknowledged(w)]
    /\ UNCHANGED <<added, delivered, resultVars, collectVars>>

(* Mutant of AnsweredTask: the latest task.                                *)
AnsweredLatest(w) == delivered

(* The task_id of the result.                                              *)
AnsweredTask(w) == worker[w].task

(* process, then publish_result: an XADD whose failure is ignored.         *)
Publish(w) ==
    /\ worker[w].pc = "process"
    /\ \/ /\ results' = Append(results, AnsweredTask(w))
          /\ present' = present \cup {Len(results) + 1}
          /\ UNCHANGED faults
       \/ Fault /\ UNCHANGED resultVars
    /\ worker' = [worker EXCEPT ![w] = Waiting]
    /\ UNCHANGED <<added, delivered, pending, collectVars>>

(* The worker restarts under a new consumer name: nobody reads what is     *)
(* pending under the old one.                                              *)
Crash(w) ==
    /\ worker[w] # Waiting
    /\ Fault
    /\ worker' = [worker EXCEPT ![w] = Waiting]
    /\ UNCHANGED <<added, delivered, pending, resultVars, collectVars>>

-------------------------------------------------------------------------------
(* collect_results: XREAD from "0", ...                                    *)
Oldest(S, k) == {i \in S : Cardinality({j \in S : j <= i}) <= k}

InOrder(S) ==
    CHOOSE s \in [1..Cardinality(S) -> S] : \A i, j \in 1..Cardinality(S) : i < j => s[i] < s[j]

ReadResults(c) ==
    /\ collector[c] = Resting
    /\ present # {}
    /\ collector' = [collector EXCEPT ![c].todo = InOrder(Oldest(present, Count))]
    /\ UNCHANGED <<taskVars, resultVars, handed, dropped, faults>>

(* Mutant of Pushed: the latest result alone.                              *)
PushedAlone(got, i) == {i}

Pushed(got, i) == got \cup {i}

(* ... then an XDEL for each, whose failure is ignored, ...                *)
DeleteResult(c) ==
    /\ collector[c].todo # <<>>
    /\ LET i == collector[c].todo[1]
       IN  /\ \/ present' = present \ {i} /\ UNCHANGED faults
              \/ Fault /\ UNCHANGED present
           /\ collector' = [collector EXCEPT ![c].todo = Tail(collector[c].todo),
                                             ![c].got = Pushed(collector[c].got, i)]
    /\ UNCHANGED <<taskVars, results, handed, dropped>>

(* ... and the results are returned.                                       *)
ReturnResults(c) ==
    /\ collector[c].todo = <<>>
    /\ collector[c].got # {}
    /\ handed' = handed \cup collector[c].got
    /\ collector' = [collector EXCEPT ![c] = Resting]
    /\ UNCHANGED <<taskVars, resultVars, dropped, faults>>

(* The client of a request goes away, or the kernel crashes, at one of     *)
(* these awaits: what was deleted for the caller is gone with it.          *)
DropCollector(c) ==
    /\ collector[c] # Resting
    /\ Fault
    /\ dropped' = dropped \cup collector[c].got
    /\ collector' = [collector EXCEPT ![c] = Resting]
    /\ UNCHANGED <<taskVars, resultVars, handed>>

-------------------------------------------------------------------------------
WorkerNext(w) == Deliver(w) \/ Acknowledge(w) \/ Publish(w)

CollectorNext(c) == ReadResults(c) \/ DeleteResult(c) \/ ReturnResults(c)

Next ==
    \/ Enqueue
    \/ \E w \in Workers : WorkerNext(w)
    \/ \E w \in Workers : Crash(w)
    \/ \E c \in Collectors : CollectorNext(c) \/ DropCollector(c)

Spec == Init /\ [][Next]_vars

(* The workers' loop and the kernel's collecting loop never stop; a        *)
(* request need not come, and one that has come goes on or is dropped.     *)
FairSpec ==
    /\ Spec
    /\ \A w \in Workers : WF_vars(WorkerNext(w))
    /\ WF_vars(CollectorNext(Loop))
    /\ \A c \in Collectors : WF_vars(DeleteResult(c) \/ ReturnResults(c))

-------------------------------------------------------------------------------
Tasks == 1..MaxTasks

Busy(w) == worker[w] # Waiting

Answered == {results[i] : i \in DOMAIN results}

(* The state is of the types task.rs gives it.                             *)
TypeOK ==
    /\ added \in 0..MaxTasks
    /\ delivered \in 0..added
    /\ pending \subseteq 1..delivered
    /\ worker \in [Workers -> [pc : {"wait", "ack", "process"}, task : 0..MaxTasks]]
    /\ results \in Seq(1..delivered)
    /\ present \subseteq DOMAIN results
    /\ collector \in [Collectors -> [todo : Seq(DOMAIN results), got : SUBSET DOMAIN results]]
    /\ handed \subseteq DOMAIN results
    /\ dropped \subseteq DOMAIN results
    /\ faults \in 0..MaxFaults

(* A task is in one worker's hands at most, and never again once it has    *)
(* been answered, so it has at most one result, whatever fails and         *)
(* whoever crashes (task.rs dequeue).                                      *)
WorkedOnce ==
    /\ \A w \in Workers : Busy(w) =>
          /\ worker[w].task \notin Answered
          /\ \A v \in Workers \ {w} : worker[v].task # worker[w].task
    /\ \A i, j \in DOMAIN results : results[i] = results[j] => i = j

(* A result that left its stream is in nobody's hands and was returned to  *)
(* nobody.                                                                 *)
Lost ==
    {i \in DOMAIN results \ present : i \notin handed /\ \A c \in Collectors : i \notin collector[c].got}

(* A result is lost only with a collector that was dropped while it held   *)
(* it: not to a second collector, not to a deletion that fails, and never  *)
(* unread (task.rs collect_results).                                       *)
NoResultDropped == Lost \subseteq dropped

(* The tasks that left the stream, and are with nobody and not answered.   *)
Forgotten ==
    {n \in 1..delivered : n \notin Answered /\ \A w \in Workers : worker[w].task # n}

(* Every task dispatched is answered and its result returned, unless it is *)
(* forgotten or its result is lost; and that takes a fault for each task   *)
(* forgotten and for each Count results lost: a failed command, a crashed  *)
(* worker, a dropped collector (worker main.rs loop, kernel main.rs loop,  *)
(* task.rs dequeue, publish_result, collect_results).                      *)
TasksAnswered ==
    /\ [](Count * Cardinality(Forgotten) + Cardinality(Lost) <= Count * faults)
    /\ \A n \in Tasks : added >= n ~>
          n \in Forgotten \/ \E i \in handed \cup Lost : results[i] = n
===============================================================================
