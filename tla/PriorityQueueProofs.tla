-------------------------- MODULE PriorityQueueProofs --------------------------
(***************************************************************************)
(* The priority queue for any number of task ids and any number of calls:  *)
(* the heap order, what an exact cancel removes, and that the heap is an   *)
(* implementation of PriorityQueueSpec.                                    *)
(***************************************************************************)
EXTENDS PriorityQueue, TaskHeapProofs, TLAPS

(* Before the first cancel by_id knows every entry of the heap, and no two *)
(* entries are of one task.                                                *)
OneEntryPerTask ==
    exact =>
        /\ \A e \in Entries : q.byId[e.id] # 0
        /\ \A e, f \in Entries : e.id = f.id => e = f

(* The order of the heap alone is not kept by the methods: bubble_down     *)
(* leaves a heap only if no two entries tie, so seqs must be distinct, and *)
(* a new entry's seq is one only because all others are in the past.       *)
IInv == TypeOK /\ SoundHeap(q) /\ OneEntryPerTask

LEMMA EntriesAre == Entries = EntriesOf(q.heap)
BY DEF Entries, EntriesOf

LEMMA EntryOfQueue ==
    ASSUME q \in Queue, NEW e \in Entries
    PROVE  e \in Entry /\ e.id \in TaskId
<1>1. q.heap \in Seq(Entry)
  BY DEF Queue
<1>2. e \in Entry
  BY <1>1, EntryAt DEF Entries
<1> QED BY <1>2 DEF Entry

LEMMA InitIInv == Init => IInv
<1> SUFFICES ASSUME Init PROVE IInv
  OBVIOUS
<1>1. SoundHeap(q) /\ Entries = {}
  BY EmptyQueueSound, EntriesAre DEF Init
<1>2. TypeOK
  BY EmptyQueueType DEF Init, TypeOK, Reply
<1> QED BY <1>1, <1>2 DEF IInv, OneEntryPerTask

(* enqueue of an id by_id does not know.                                   *)
LEMMA EnqueueStep ==
    ASSUME IInv, NEW id \in TaskId, NEW p \in Priority, Enqueue(id, p)
    PROVE  /\ IInv'
           /\ Entries' = Entries \cup {[id |-> id, prio |-> p, seq |-> q.seq, retries |-> 0]}
           /\ q'.seq = q.seq + 1
           /\ exact => \A e \in Entries : e.id # id
<1> DEFINE e == [id |-> id, prio |-> p, seq |-> q.seq, retries |-> 0]
<1>1. q \in Queue /\ SoundHeap(q) /\ q' = Enqueued(q, id, p, 0)
  BY DEF IInv, TypeOK, Enqueue
<1>2. q' \in Queue
  BY <1>1, EnqueuedType
<1>3. TypeOK'
  BY <1>2 DEF IInv, TypeOK, Enqueue, Answer, Reply
<1>4. SoundHeap(q') /\ Entries' = Entries \cup {e} /\ q'.seq = q.seq + 1
  <2>1. 0 \in Nat /\ e = [id |-> id, prio |-> p, seq |-> q.seq, retries |-> 0]
    OBVIOUS
  <2> HIDE DEF e
  <2>2. /\ SoundHeap(Enqueued(q, id, p, 0))
        /\ EntriesOf(Enqueued(q, id, p, 0).heap) = EntriesOf(q.heap) \cup {e}
        /\ Enqueued(q, id, p, 0).seq = q.seq + 1
    BY <1>1, <2>1, EnqueuedSound
  <2> QED BY <1>1, <2>2 DEF Entries, EntriesOf
<1>5. q.byId[id] = 0
  BY DEF Enqueue, CanEnqueue, Indexed
<1>6. exact => \A f \in Entries : f.id # id
  BY <1>5 DEF IInv, OneEntryPerTask
<1>7. q'.byId = [q.byId EXCEPT ![id] = Len(q.heap) + 1]
  BY <1>1 DEF Enqueued, Queue
<1>8. Len(q.heap) \in Nat /\ q.byId \in [TaskId -> Nat]
  BY <1>1, LenProperties DEF Queue
<1>9. \A f \in Entries : f.id \in TaskId
  BY <1>1, EntryOfQueue
<1>10. e.id = id /\ exact' = exact
  BY DEF Enqueue
<1> HIDE DEF e
<1>11. ASSUME exact, NEW f \in Entries' PROVE q'.byId[f.id] # 0
  <2>1. CASE f = e
    BY <1>7, <1>8, <1>10, <2>1
  <2>2. CASE f \in Entries
    BY <1>6, <1>7, <1>8, <1>9, <1>11, <2>2 DEF IInv, OneEntryPerTask
  <2> QED BY <1>4, <2>1, <2>2
<1>12. OneEntryPerTask'
  BY <1>4, <1>6, <1>10, <1>11 DEF IInv, OneEntryPerTask
<1> QED BY <1>3, <1>4, <1>6, <1>12 DEF IInv, e

(* dequeue of a queue that is not empty.                                   *)
LEMMA DequeueStep ==
    ASSUME IInv, Dequeue
    PROVE  /\ IInv'
           /\ Top(q) \in Entries
           /\ \A e \in Entries : ~ Before(e, Top(q))
           /\ Entries' = Entries \ {Top(q)}
           /\ q'.seq = q.seq
<1> DEFINE e == Top(q)
<1>1. q \in Queue /\ SoundHeap(q) /\ q' = Dequeued(q) /\ q.heap # <<>>
  BY DEF IInv, TypeOK, Dequeue
<1>2. q' \in Queue /\ e \in Entry
  BY <1>1, DequeuedType
<1>3. e.id \in TaskId
  BY <1>2 DEF Entry
<1>4. TypeOK'
  BY <1>2, <1>3 DEF IInv, TypeOK, Dequeue, Answer, Reply
<1>5. /\ SoundHeap(q') /\ Entries' = Entries \ {e} /\ q'.seq = q.seq
      /\ e \in Entries /\ \A f \in Entries : ~ Before(f, e)
  BY <1>1, DequeuedSound, EntriesAre DEF Entries, EntriesOf
<1>6. q'.byId = [q.byId EXCEPT ![e.id] = 0]
  BY <1>1 DEF Dequeued, Queue
<1>7. exact' = exact /\ q.byId \in [TaskId -> Nat] /\ \A f \in Entries : f.id \in TaskId
  BY <1>1, EntryOfQueue DEF Dequeue, Queue
<1> HIDE DEF e
<1>8. ASSUME exact, NEW f \in Entries' PROVE q'.byId[f.id] # 0
  <2>1. f \in Entries /\ f.id # e.id /\ q.byId[f.id] # 0
    BY <1>5, <1>8 DEF IInv, OneEntryPerTask
  <2> QED BY <1>6, <1>7, <2>1
<1>9. OneEntryPerTask'
  BY <1>5, <1>7, <1>8 DEF IInv, OneEntryPerTask
<1> QED BY <1>4, <1>5, <1>9 DEF IInv, e

(* cancel of an id by_id knows, rightly or not.                            *)
LEMMA CancelStep ==
    ASSUME IInv, NEW id \in Cancellable, Cancel(id)
    PROVE  /\ IInv'
           /\ CancelPanics(q, id) => Entries' = Entries
           /\ ~ CancelPanics(q, id) =>
                 q.heap[q.byId[id]] \in Entries /\ Entries' = Entries \ {q.heap[q.byId[id]]}
           /\ q'.seq = q.seq
           /\ exact' = FALSE
<1>1. q \in Queue /\ SoundHeap(q) /\ q' = Cancelled(q, id) /\ id \in TaskId /\ id \in Indexed(q)
  BY CancellableAssumption DEF IInv, TypeOK, Cancel, CanCancel
<1>2. q' \in Queue
  BY <1>1, CancelledType
<1>3. TypeOK'
  BY <1>1, <1>2 DEF IInv, TypeOK, Cancel, Answer, Reply
<1>4. /\ SoundHeap(q') /\ q'.seq = q.seq
      /\ CancelPanics(q, id) => q'.heap = q.heap
      /\ ~ CancelPanics(q, id) =>
            /\ q.byId[id] \in DOMAIN q.heap
            /\ EntriesOf(q'.heap) = EntriesOf(q.heap) \ {q.heap[q.byId[id]]}
  BY <1>1, CancelledSound
<1>5. exact' = FALSE
  BY DEF Cancel
<1> QED BY <1>3, <1>4, <1>5 DEF IInv, OneEntryPerTask, Entries, EntriesOf

(* The calls that leave the queue as it is.                                *)
LEMMA QuietStep ==
    ASSUME IInv, \/ \E id \in TaskId : EnqueueDuplicate(id)
                 \/ DequeueEmpty
                 \/ \E id \in Cancellable : CancelUnknown(id)
                 \/ UNCHANGED vars
    PROVE  IInv' /\ q' = q /\ exact' = exact
<1>1. q' = q /\ exact' = exact
  BY DEF EnqueueDuplicate, DequeueEmpty, CancelUnknown, vars
<1>2. TypeOK'
  BY CancellableAssumption
  DEF IInv, TypeOK, EnqueueDuplicate, DequeueEmpty, CancelUnknown, vars, Answer, Reply
<1> QED BY <1>1, <1>2 DEF IInv, OneEntryPerTask, Entries

LEMMA StepKeepsIInv == IInv /\ [Next]_vars => IInv'
BY EnqueueStep, DequeueStep, CancelStep, QuietStep DEF Next

LEMMA IInvHolds == Spec => []IInv
BY InitIInv, StepKeepsIInv, PTL DEF Spec

(* The queue's state is of the types queue.rs declares.                    *)
THEOREM QueueTypeOK == Spec => []TypeOK
BY IInvHolds, PTL DEF IInv

(* After every enqueue, dequeue and cancel, a cancel through a stale       *)
(* position included, the vector is a binary heap (queue.rs bubble_up,     *)
(* bubble_down).                                                           *)
THEOREM QueueHeapOrdered == Spec => []HeapOrdered
<1>1. IInv => HeapOrdered
  BY DEF IInv, SoundHeap, HeapOk, Heaped, HeapOrdered
<1> QED BY <1>1, IInvHolds, PTL

(* A cancel whose position by_id holds is the true one removes that entry  *)
(* and no other (queue.rs cancel).                                         *)
THEOREM QueueCancelExactWhenIndexed == Spec => CancelExactWhenIndexed
<1>1. IInv /\ [Next]_vars =>
         [\A id \in Cancellable :
             Cancel(id) /\ q.byId[id] \in DOMAIN q.heap /\ q.heap[q.byId[id]].id = id
             => Entries' = Entries \ {q.heap[q.byId[id]]}]_vars
  <2> SUFFICES ASSUME IInv, NEW id \in Cancellable, Cancel(id), q.byId[id] \in DOMAIN q.heap
               PROVE  Entries' = Entries \ {q.heap[q.byId[id]]}
    OBVIOUS
  <2>1. q.heap \in Seq(Entry)
    BY DEF IInv, TypeOK, Queue
  <2>2. ~ CancelPanics(q, id)
    BY <2>1, LenProperties DEF CancelPanics
  <2> QED BY <2>2, CancelStep
<1> QED BY <1>1, IInvHolds, PTL DEF Spec, CancelExactWhenIndexed

-------------------------------------------------------------------------------
(* The refinement: what the specification sees of an entry.                *)
View(e) == [id |-> e.id, prio |-> e.prio, seq |-> e.seq]

Pending == {View(e) : e \in Entries}

LEMMA ViewsDiffer ==
    ASSUME IInv, NEW e \in Entries, NEW f \in Entries, e # f
    PROVE  e.seq # f.seq /\ View(e) # View(f)
<1>1. e.seq # f.seq
  BY DEF IInv, SoundHeap, HeapOk, Distinct, Entries
<1> QED BY <1>1 DEF View

LEMMA PendingLessOne ==
    ASSUME IInv, NEW e \in Entries, Entries' = Entries \ {e}
    PROVE  Pending' = Pending \ {View(e)}
BY ViewsDiffer DEF Pending

LEMMA InitImplements == Init => Implements!SpecInit
<1> SUFFICES ASSUME Init PROVE Implements!SpecInit
  OBVIOUS
<1>1. Entries = {}
  BY EmptyQueueSound, EntriesAre DEF Init
<1>2. q.seq = 0
  BY DEF Init, EmptyQueue
<1> QED BY <1>1, <1>2 DEF Init, Implements!SpecInit

LEMMA StepImplements == IInv /\ [Next]_vars => [Implements!SpecNext]_(Implements!specVars)
<1> SUFFICES ASSUME IInv, [Next]_vars PROVE [Implements!SpecNext]_(Implements!specVars)
  OBVIOUS
<1>1. ASSUME NEW id \in TaskId, NEW p \in Priority, Enqueue(id, p)
      PROVE  Implements!SpecAccept(id, p)
  <2> DEFINE e == [id |-> id, prio |-> p, seq |-> q.seq, retries |-> 0]
  <2>1. /\ Entries' = Entries \cup {e} /\ q'.seq = q.seq + 1
        /\ exact => \A f \in Entries : f.id # id
    BY <1>1, EnqueueStep
  <2>2. exact => \A f \in Pending : f.id # id
    BY <2>1 DEF Pending, View
  <2>3. View(e) = [id |-> id, prio |-> p, seq |-> q.seq]
    BY DEF View
  <2> HIDE DEF e
  <2>4. Pending' = Pending \cup {[id |-> id, prio |-> p, seq |-> q.seq]}
    BY <2>1, <2>3 DEF Pending
  <2>5. popped' = popped /\ exact' = exact
    BY <1>1 DEF Enqueue
  <2> QED BY <2>1, <2>2, <2>4, <2>5 DEF Implements!SpecAccept, Pending, View
<1>2. CASE Dequeue
  <2> DEFINE e == Top(q)
  <2>1. /\ e \in Entries /\ Entries' = Entries \ {e} /\ q'.seq = q.seq
        /\ \A f \in Entries : ~ Before(f, e)
    BY <1>2, DequeueStep
  <2>2. e \in Entry /\ \A f \in Entries : f \in Entry
    BY <2>1, EntryOfQueue DEF IInv, TypeOK
  <2>3. e # NoEntry
    BY <2>2, NoEntryAssumption, PriorityAssumption DEF Entry
  <2>4. popped' = e /\ exact' = exact
    BY <1>2 DEF Dequeue
  <2> HIDE DEF e
  <2>5. Pending' = Pending \ {View(e)} /\ View(e) \in Pending
    BY <2>1, PendingLessOne DEF Pending
  <2>6. \A f \in Entries : f # e => Before(e, f)
    BY <2>1, <2>2, ViewsDiffer, BeforeTotal
  <2>7. \A f \in Pending \ {View(e)} : Implements!Precedes(View(e), f)
    BY <2>6 DEF Pending, View, Before, Implements!Precedes
  <2>8. View(e) = [id |-> popped'.id, prio |-> popped'.prio, seq |-> popped'.seq]
    BY <2>4 DEF View
  <2> QED BY <2>1, <2>3, <2>4, <2>5, <2>7, <2>8
          DEF Implements!SpecNext, Implements!SpecPop, Pending, View
<1>3. CASE DequeueEmpty
  <2>1. q' = q /\ exact' = exact /\ popped' = NoEntry /\ q.heap = <<>>
    BY <1>3 DEF DequeueEmpty
  <2>2. Entries = {} /\ Entries' = Entries
    BY <2>1 DEF Entries
  <2> QED BY <2>1, <2>2 DEF Implements!SpecNext, Implements!SpecPopEmpty
<1>4. ASSUME NEW id \in Cancellable, Cancel(id) PROVE Implements!SpecCancel
  <2>1. popped' = popped
    BY <1>4 DEF Cancel
  <2>2. Pending' = Pending \/ \E e \in Pending : Pending' = Pending \ {e}
    <3>1. CASE CancelPanics(q, id)
      BY <1>4, <3>1, CancelStep DEF Pending
    <3>2. CASE ~ CancelPanics(q, id)
      BY <1>4, <3>2, CancelStep, PendingLessOne DEF Pending
    <3> QED BY <3>1, <3>2
  <2> QED BY <1>4, <2>1, <2>2, CancelStep DEF Implements!SpecCancel, Pending, View
<1>5. CASE \/ \E id \in TaskId : EnqueueDuplicate(id)
           \/ \E id \in Cancellable : CancelUnknown(id)
           \/ UNCHANGED vars
  <2>1. q' = q /\ exact' = exact /\ popped' = popped
    BY <1>5 DEF EnqueueDuplicate, CancelUnknown, vars
  <2>2. Entries' = Entries
    BY <2>1 DEF Entries
  <2> QED BY <2>1, <2>2 DEF Implements!specVars
<1> QED BY <1>1, <1>2, <1>3, <1>4, <1>5 DEF Next, Implements!SpecNext

(* The heap implements the abstract queue: what dequeue returns is the     *)
(* entry of the highest priority that was accepted first, an id is pending *)
(* once until something is cancelled, and a cancel costs one entry at most *)
(* (queue.rs enqueue, dequeue, cancel).                                    *)
THEOREM QueueImplementsQueue == Spec => ImplementsQueue
BY InitImplements, StepImplements, IInvHolds, PTL DEF Spec, ImplementsQueue, Implements!SpecQueue
================================================================================
