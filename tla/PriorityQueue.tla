---------------------------- MODULE PriorityQueue ----------------------------
(***************************************************************************)
(* PriorityQueue of crates/fabric/src/queue.rs as a state machine: callers *)
(* enqueue, dequeue and cancel in any order.                               *)
(***************************************************************************)
EXTENDS TaskHeap, FiniteSets

CONSTANTS Cancellable,  \* the ids some caller may cancel
          MaxEnqueues   \* bound: enqueues accepted in a behaviour

ASSUME CancellableAssumption == Cancellable \subseteq TaskId
ASSUME MaxEnqueuesAssumption == MaxEnqueues \in Nat

VARIABLES q,        \* the QueueInner behind the mutex
          popped,   \* what the last dequeue returned
          reply,    \* the last call and how it returned
          exact     \* history: no cancel has touched the queue yet

vars == <<q, popped, reply, exact>>

Reply == [op : {"none", "enqueue", "dequeue", "cancel"},
          id : TaskId \cup {NoEntry},
          res : {"ok", "duplicate", "not_found", "panic"}]

Answer(op, id, res) == reply' = [op |-> op, id |-> id, res |-> res]

Init ==
    /\ q = EmptyQueue
    /\ popped = NoEntry
    /\ reply = [op |-> "none", id |-> NoEntry, res |-> "ok"]
    /\ exact = TRUE

Enqueue(id, p) ==
    /\ q.seq < MaxEnqueues
    /\ CanEnqueue(q, id)
    /\ q' = Enqueued(q, id, p, 0)
    /\ Answer("enqueue", id, "ok")
    /\ UNCHANGED <<popped, exact>>

EnqueueDuplicate(id) ==
    /\ ~ q.poisoned
    /\ id \in Indexed(q)
    /\ Answer("enqueue", id, "duplicate")
    /\ UNCHANGED <<q, popped, exact>>

Dequeue ==
    /\ ~ q.poisoned
    /\ q.heap # <<>>
    /\ q' = Dequeued(q)
    /\ popped' = Top(q)
    /\ Answer("dequeue", Top(q).id, "ok")
    /\ UNCHANGED exact

DequeueEmpty ==
    /\ ~ q.poisoned
    /\ q.heap = <<>>
    /\ popped' = NoEntry
    /\ Answer("dequeue", NoEntry, "ok")
    /\ UNCHANGED <<q, exact>>

Cancel(id) ==
    /\ CanCancel(q, id)
    /\ q' = Cancelled(q, id)
    /\ Answer("cancel", id, IF CancelPanics(q, id) THEN "panic" ELSE "ok")
    /\ exact' = FALSE
    /\ UNCHANGED popped

CancelUnknown(id) ==
    /\ ~ q.poisoned
    /\ id \notin Indexed(q)
    /\ Answer("cancel", id, "not_found")
    /\ UNCHANGED <<q, popped, exact>>

Next ==
    \/ \E id \in TaskId, p \in Priority : Enqueue(id, p)
    \/ \E id \in TaskId : EnqueueDuplicate(id)
    \/ Dequeue
    \/ DequeueEmpty
    \/ \E id \in Cancellable : Cancel(id)
    \/ \E id \in Cancellable : CancelUnknown(id)

Spec == Init /\ [][Next]_vars

-----------------------------------------------------------------------------
Entries == {q.heap[i] : i \in DOMAIN q.heap}

(* The state is of the types queue.rs declares.                            *)
TypeOK ==
    /\ q \in Queue
    /\ popped \in Entry \cup {NoEntry}
    /\ reply \in Reply
    /\ exact \in BOOLEAN

(* Vec `heap` is a binary heap after every method, cancel included, whose  *)
(* moved entry may have to travel either way (queue.rs bubble_up and       *)
(* bubble_down after the swap).                                            *)
HeapOrdered ==
    \A i \in DOMAIN q.heap : i > 1 => ~ Before(q.heap[i], q.heap[i \div 2])

(* When by_id holds the true place of an id, cancel removes that entry and *)
(* no other, and loses none on the way (queue.rs cancel: swap with the     *)
(* last, pop, restore the heap).                                           *)
CancelExactWhenIndexed ==
    [][\A id \in Cancellable :
          Cancel(id) /\ q.byId[id] \in DOMAIN q.heap /\ q.heap[q.byId[id]].id = id
          => Entries' = Entries \ {q.heap[q.byId[id]]}]_vars

(* The heap implements the abstract queue: no duplicates before the first  *)
(* cancel, the first entry popped always, one entry lost to a cancel at    *)
(* most.                                                                   *)
Implements == INSTANCE PriorityQueueSpec WITH
    pending <- {[id |-> e.id, prio |-> e.prio, seq |-> e.seq] : e \in Entries},
    clock   <- q.seq,
    popped  <- IF popped = NoEntry THEN NoEntry
               ELSE [id |-> popped.id, prio |-> popped.prio, seq |-> popped.seq]

(* queue.rs enqueue, dequeue and cancel as seen through their answers.     *)
ImplementsQueue == Implements!SpecQueue

-----------------------------------------------------------------------------
(* queue.rs on cancel: "Remove a task by ID (if still in queue)".  A       *)
(* cancel that returns leaves no entry of that id.                         *)
CancelRemovesTheTask ==
    reply.op = "cancel" => \A e \in Entries : e.id # reply.id
=============================================================================
