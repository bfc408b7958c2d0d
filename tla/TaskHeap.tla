------------------------------- MODULE TaskHeap -------------------------------
(***************************************************************************)
(* The data structure of crates/fabric/src/queue.rs as a value: QueueInner *)
(* is a record and each method of PriorityQueue is an operator from the    *)
(* record before the call to the record after it.  The methods hold the    *)
(* mutex from their first line to their last, so one operator is one       *)
(* atomic step of whoever calls it.                                        *)
(*                                                                         *)
(* Positions are 1-based here (heap[i] has its children at 2i and 2i+1)    *)
(* and 0-based in the code; byId[id] = 0 says that the map has no key id.  *)
(***************************************************************************)
EXTENDS Naturals, Sequences

CONSTANTS TaskId,     \* the ids of CollectionTask
          Priority,   \* the discriminants of enum Priority
          NoEntry     \* the None of Option<CollectionTask>

ASSUME PriorityAssumption == Priority \subseteq Nat
ASSUME NoEntryAssumption  == NoEntry \notin [id : TaskId, prio : Priority, seq : Nat, retries : Nat]

(* QueueEntry: the fields of the task the queue and the fabric look at.    *)
Entry == [id : TaskId, prio : Priority, seq : Nat, retries : Nat]

(* QueueInner, plus the poison flag of the mutex around it.                *)
Queue ==
    [heap     : Seq(Entry),
     byId     : [TaskId -> Nat],
     seen     : SUBSET TaskId,
     seq      : Nat,
     poisoned : BOOLEAN]

EmptyQueue ==
    [heap |-> <<>>, byId |-> [t \in TaskId |-> 0], seen |-> {}, seq |-> 0, poisoned |-> FALSE]

(* Mutant of Before: the latest entry first within a priority.             *)
BeforeLifo(a, b) ==
    \/ a.prio < b.prio
    \/ a.prio = b.prio /\ a.seq > b.seq

(* impl Ord for QueueEntry.                                                *)
Before(a, b) ==
    \/ a.prio < b.prio
    \/ a.prio = b.prio /\ a.seq < b.seq

-------------------------------------------------------------------------------
(* The heap helpers.  Both loops of the code move one entry along a path,  *)
(* shifting the others by one place; they are written here by what they    *)
(* leave behind; TaskHeapProofs proves that the loops leave exactly that.  *)

(* i and its ancestors.                                                    *)
PathToRoot[i \in Nat] == IF i = 0 THEN {} ELSE {i} \cup PathToRoot[i \div 2]

(* Mutant of BubbleUp: one comparison instead of a loop.                   *)
BubbleUpOnce(h, i) ==
    IF i > 1 /\ Before(h[i], h[i \div 2])
    THEN [h EXCEPT ![i] = h[i \div 2], ![i \div 2] = h[i]]
    ELSE h

(* bubble_up: the entry at i climbs past every ancestor it precedes, and    *)
(* those sink by one place.                                                *)
BubbleUp(h, i) ==
    LET above  == PathToRoot[i] \ {i}
        passed == {a \in above : \A b \in above : a <= b => Before(h[i], h[b])}
    IN  [j \in DOMAIN h |->
            IF j \in PathToRoot[i] /\ j \div 2 \in passed THEN h[j \div 2]
            ELSE IF j \in passed \cup {i} THEN h[i]
            ELSE h[j]]

(* Mutant of Yields: the left child always, smaller or not.                *)
YieldsLeft(h, x, j) == j % 2 = 0 /\ Before(h[j], x)

(* j is the child that the entry x sinking to j's parent changes places    *)
(* with.                                                                   *)
Yields(h, x, j) ==
    /\ Before(h[j], x)
    /\ \A s \in DOMAIN h : s # j /\ s \div 2 = j \div 2 => ~ Before(h[s], h[j])

(* bubble_down: the entry at i sinks along the smaller children.           *)
BubbleDown(h, i) ==
    LET path == {j \in DOMAIN h :
                    /\ i \in PathToRoot[j]
                    /\ \A a \in PathToRoot[j] : a > i => Yields(h, h[i], a)}
    IN  [j \in DOMAIN h |->
            IF j \notin path THEN h[j]
            ELSE IF \E c \in path : c > 1 /\ c \div 2 = j
                 THEN h[CHOOSE c \in path : c > 1 /\ c \div 2 = j]
                 ELSE h[i]]

Swap(h, i, j) == [h EXCEPT ![i] = h[j], ![j] = h[i]]

DropLast(h) == SubSeq(h, 1, Len(h) - 1)

(* The ids that by_id has a key for.                                       *)
Indexed(q) == {id \in TaskId : q.byId[id] # 0}

-------------------------------------------------------------------------------
(* The methods.  A poisoned mutex makes lock().unwrap() panic, so no       *)
(* method but the first one to panic changes anything.                     *)

CanEnqueue(q, id) == ~ q.poisoned /\ id \notin Indexed(q)

(* enqueue, when it returns Ok.  `seen` is written and never consulted.    *)
Enqueued(q, id, p, retries) ==
    LET idx == Len(q.heap) + 1
        e   == [id |-> id, prio |-> p, seq |-> q.seq, retries |-> retries]
    IN  [q EXCEPT !.heap = BubbleUp(Append(q.heap, e), idx),
                  !.byId = [q.byId EXCEPT ![id] = idx],
                  !.seen = q.seen \cup {id},
                  !.seq  = q.seq + 1]

(* dequeue, of a queue that is not empty: what it pops, and what it leaves. *)
Top(q) == q.heap[1]

(* Mutant of Dequeued: the last entry goes, and the first is returned.     *)
DequeuedUnswapped(q) ==
    [q EXCEPT !.heap = DropLast(q.heap), !.byId[Top(q).id] = 0]

(* Mutant of Dequeued: a peek.                                             *)
DequeuedNothing(q) == [q EXCEPT !.byId[Top(q).id] = 0]

Dequeued(q) ==
    LET rest == DropLast(Swap(q.heap, 1, Len(q.heap)))
    IN  [q EXCEPT !.heap = IF rest = <<>> THEN rest ELSE BubbleDown(rest, 1),
                  !.byId[Top(q).id] = 0]

(* cancel of an id that by_id knows.  It trusts by_id[id], which           *)
(* bubble_up, bubble_down and the swap of dequeue do not maintain.         *)
CanCancel(q, id) == ~ q.poisoned /\ id \in Indexed(q)

(* Vec::swap, or the subtraction len() - 1, panics: by_id has already lost *)
(* the id, and the unwinding poisons the mutex.                            *)
CancelPanics(q, id) == q.byId[id] > Len(q.heap)

(* Mutant of Cancelled: no swap before the pop.                            *)
CancelledUnswapped(q, id) ==
    IF CancelPanics(q, id)
    THEN [q EXCEPT !.byId[id] = 0, !.poisoned = TRUE]
    ELSE [q EXCEPT !.byId[id] = 0, !.heap = DropLast(q.heap)]

Cancelled(q, id) ==
    LET idx   == q.byId[id]
        last  == Len(q.heap)
        moved == q.heap[last].id
        rest  == DropLast(Swap(q.heap, idx, last))
        index == IF idx = last THEN q.byId ELSE [q.byId EXCEPT ![moved] = idx]
    IN  IF CancelPanics(q, id)
        THEN [q EXCEPT !.byId[id] = 0, !.poisoned = TRUE]
        ELSE [q EXCEPT !.byId = [index EXCEPT ![id] = 0],
                       !.heap = IF idx <= Len(rest)
                                THEN BubbleDown(BubbleUp(rest, idx), idx)
                                ELSE rest]
===============================================================================
