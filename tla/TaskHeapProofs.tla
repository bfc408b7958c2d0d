---------------------------- MODULE TaskHeapProofs ----------------------------
(***************************************************************************)
(* The heap of crates/fabric/src/queue.rs, of any size: the closed forms   *)
(* of TaskHeap are what the loops of bubble_up and bubble_down leave, the  *)
(* loops restore the order of a heap with one entry out of its place, and  *)
(* enqueue, dequeue and cancel keep the vector a heap and take in and out  *)
(* the entry they are to.  What takes an induction over the turns of a     *)
(* loop is proved by its first counterexample (LeastNat).                  *)
(***************************************************************************)
EXTENDS TaskHeap, SequenceTheorems, WellFoundedInduction, TLAPS

(* A set of naturals that is not empty has a least element.                *)
LEMMA LeastNat ==
    ASSUME NEW T \in SUBSET Nat, T # {}
    PROVE  \E x \in T : \A y \in T : x <= y
<1> DEFINE R == {p \in Nat \X Nat : p[1] < p[2]}
<1>1. IsWellFoundedOn(R, Nat)
  BY NatLessThanWellFounded DEF OpToRel
<1>3. \A x, y \in Nat : y < x => <<y, x>> \in R
  OBVIOUS
<1> HIDE DEF R
<1>2. \E x \in T : \A y \in T : ~ (<<y, x>> \in R)
  BY <1>1, WFMin
<1>4. PICK x \in T : \A y \in T : ~ (<<y, x>> \in R)
  BY <1>2
<1>5. \A y \in T : ~ (y < x)
  BY <1>3, <1>4, Zenon
<1>6. \A y \in T : x <= y
  BY <1>5
<1> QED BY <1>6
(* closed under parents *)
Closed(S) == \A b \in S : b > 1 => b \div 2 \in S
Least(i) == {a \in 1..i : \A S \in SUBSET (1..i) : i \in S /\ Closed(S) => a \in S}

LEMMA Half == \A i \in Nat : i \div 2 \in Nat /\ i \div 2 <= i /\ (i > 0 => i \div 2 < i) /\ (i > 1 => i \div 2 >= 1)
OBVIOUS

LEMMA LeastStep ==
    ASSUME NEW i \in Nat \ {0}
    PROVE  Least(i) = {i} \cup Least(i \div 2)
<1> DEFINE p == i \div 2
<1>0. p \in Nat /\ p < i /\ (i > 1 => p >= 1) /\ (i = 1 => p = 0)
  BY Half
<1> HIDE DEF p
<1>1. i \in Least(i)
  BY DEF Least
<1>2. ASSUME NEW a \in Least(i), a # i PROVE a \in Least(p)
  <2>1. i > 1
    <3>1. CASE i = 1
      BY <1>2, <3>1 DEF Least
    <3> QED BY <3>1
  <2>2. a \in 1..p
    <3> DEFINE S == {i} \cup 1..p
    <3>1. S \in SUBSET (1..i) /\ i \in S
      BY <1>0
    <3>2. Closed(S)
      <4> SUFFICES ASSUME NEW b \in S, b > 1 PROVE b \div 2 \in S
        BY DEF Closed
      <4>1. CASE b = i
        BY <4>1, <1>0, <2>1 DEF p
      <4>2. CASE b \in 1..p
        BY <4>2, <1>0, Half
      <4> QED BY <4>1, <4>2
    <3> QED BY <3>1, <3>2, <1>2 DEF Least
  <2>3. ASSUME NEW S \in SUBSET (1..p), p \in S, Closed(S) PROVE a \in S
    <3> DEFINE T == {i} \cup S
    <3>1. T \in SUBSET (1..i) /\ i \in T
      BY <1>0
    <3>2. Closed(T)
      BY <2>3, <1>0, <2>1 DEF Closed, p
    <3> QED BY <3>1, <3>2, <1>2 DEF Least
  <2> QED BY <2>2, <2>3 DEF Least
<1>3. ASSUME NEW a \in Least(p) PROVE a \in Least(i)
  <2>1. i > 1 /\ a \in 1..i /\ p \in 1..i
    BY <1>0, <1>3 DEF Least
  <2>2. ASSUME NEW S \in SUBSET (1..i), i \in S, Closed(S) PROVE a \in S
    <3> DEFINE T == S \cap (1..p)
    <3>1. T \in SUBSET (1..p) /\ p \in T
      BY <2>1, <2>2, <1>0 DEF Closed, p
    <3>2. Closed(T)
      BY <2>2, <1>0, Half DEF Closed
    <3> QED BY <3>1, <3>2, <1>3 DEF Least
  <2> QED BY <2>1, <2>2 DEF Least
<1> QED BY <1>1, <1>2, <1>3 DEF p

LEMMA PathDef ==
    \A i \in Nat : PathToRoot[i] = IF i = 0 THEN {} ELSE {i} \cup PathToRoot[i \div 2]
<1> DEFINE g == [i \in Nat |-> Least(i)]
           F(f) == [i \in Nat |-> IF i = 0 THEN {} ELSE {i} \cup f[i \div 2]]
<1>1. \A i \in Nat : g[i] = IF i = 0 THEN {} ELSE {i} \cup g[i \div 2]
  <2>1. Least(0) = {}
    BY DEF Least
  <2> QED BY <2>1, LeastStep, Half
<1>2. g = F(g)
  BY <1>1
<1> HIDE DEF g
<1>3. PathToRoot = CHOOSE f : f = F(f)
  BY DEF PathToRoot
<1>4. PathToRoot = F(PathToRoot)
  BY <1>2, <1>3, Zenon
<1> QED BY <1>4
(* What a path is: i, and the path of its parent.                          *)
LEMMA PathIs ==
    ASSUME NEW i \in Nat \ {0}
    PROVE  PathToRoot[i] = {i} \cup PathToRoot[i \div 2]
BY PathDef

LEMMA PathZero == PathToRoot[0] = {}
BY PathDef

(* Everything on the path of i is one of the places 1..i, i among them.    *)
LEMMA PathBounds ==
    ASSUME NEW i \in Nat \ {0}
    PROVE  PathToRoot[i] \subseteq 1..i /\ i \in PathToRoot[i]
<1> DEFINE Bad == {j \in Nat : ~ (PathToRoot[j] \subseteq 1..j)}
<1>1. Bad = {}
  <2> SUFFICES ASSUME Bad # {} PROVE FALSE
    OBVIOUS
  <2>1. PICK j \in Bad : \A k \in Bad : j <= k
    <3>1. Bad \in SUBSET Nat
      OBVIOUS
    <3> QED BY <3>1, LeastNat
  <2>2. j # 0
    BY <2>1, PathZero
  <2>3. j \div 2 \in Nat /\ j \div 2 < j
    BY <2>1, <2>2, Half
  <2>4. PathToRoot[j \div 2] \subseteq 1..(j \div 2)
    BY <2>1, <2>3
  <2>5. PathToRoot[j] = {j} \cup PathToRoot[j \div 2]
    BY <2>1, <2>2, PathIs
  <2>6. PathToRoot[j] \subseteq 1..j
    BY <2>1, <2>2, <2>3, <2>4, <2>5
  <2> QED BY <2>1, <2>6
<1> QED BY <1>1, PathIs

(* Between a place on the path and j there is nothing but the places below *)
(* it that are on the path: the parent of a member is the next one up.     *)
LEMMA PathChain ==
    ASSUME NEW j \in Nat, NEW a \in PathToRoot[j], NEW b \in PathToRoot[j], a < b
    PROVE  a <= b \div 2
<1> DEFINE Bad == {k \in Nat : \E c, d \in PathToRoot[k] : c < d /\ ~ (c <= d \div 2)}
<1>1. Bad = {}
  <2> SUFFICES ASSUME Bad # {} PROVE FALSE
    OBVIOUS
  <2>1. PICK k \in Bad : \A n \in Bad : k <= n
    <3>1. Bad \in SUBSET Nat
      OBVIOUS
    <3> QED BY <3>1, LeastNat
  <2>2. PICK c \in PathToRoot[k], d \in PathToRoot[k] : c < d /\ ~ (c <= d \div 2)
    BY <2>1
  <2>3. k # 0
    BY <2>1, <2>2, PathZero
  <2>4. k \div 2 \in Nat /\ k \div 2 < k
    BY <2>1, <2>3, Half
  <2>5. PathToRoot[k] = {k} \cup PathToRoot[k \div 2]
    BY <2>1, <2>3, PathIs
  <2>6. PathToRoot[k \div 2] \subseteq 1..(k \div 2)
    BY <2>4, PathBounds, PathZero
  <2>7. CASE d = k
    BY <2>1, <2>2, <2>4, <2>5, <2>6, <2>7
  <2>8. CASE d # k
    <3>1. d \in PathToRoot[k \div 2] /\ c \in PathToRoot[k \div 2]
      BY <2>1, <2>2, <2>3, <2>4, <2>5, <2>6, <2>8
    <3>2. k \div 2 \in Bad
      BY <2>2, <2>4, <3>1
    <3> QED BY <2>1, <2>4, <3>2
  <2> QED BY <2>7, <2>8
<1> QED BY <1>1

(* The parent of a member other than the root is a member, and whoever is  *)
(* strictly below a member passes through one of its children.             *)
LEMMA PathParent ==
    ASSUME NEW j \in Nat, NEW a \in PathToRoot[j], a > 1
    PROVE  a \div 2 \in PathToRoot[j]
<1> DEFINE Bad == {k \in Nat : \E c \in PathToRoot[k] : c > 1 /\ c \div 2 \notin PathToRoot[k]}
<1>1. Bad = {}
  <2> SUFFICES ASSUME Bad # {} PROVE FALSE
    OBVIOUS
  <2>1. PICK k \in Bad : \A n \in Bad : k <= n
    <3>1. Bad \in SUBSET Nat
      OBVIOUS
    <3> QED BY <3>1, LeastNat
  <2>2. PICK c \in PathToRoot[k] : c > 1 /\ c \div 2 \notin PathToRoot[k]
    BY <2>1
  <2>3. k # 0
    BY <2>1, <2>2, PathZero
  <2>4. k \div 2 \in Nat /\ k \div 2 < k /\ (k > 1 => k \div 2 # 0)
    BY <2>1, <2>3, Half
  <2>5. PathToRoot[k] = {k} \cup PathToRoot[k \div 2]
    BY <2>1, <2>3, PathIs
  <2>6. CASE c = k
    <3>1. k \div 2 \in PathToRoot[k \div 2]
      BY <2>2, <2>4, <2>6, PathBounds
    <3> QED BY <2>2, <2>5, <2>6, <3>1
  <2>7. CASE c # k
    <3>1. c \in PathToRoot[k \div 2]
      BY <2>2, <2>5, <2>7
    <3>2. k \div 2 \in Bad
      BY <2>2, <2>4, <2>5, <3>1
    <3> QED BY <2>1, <2>4, <3>2
  <2> QED BY <2>6, <2>7
<1> QED BY <1>1

LEMMA PathThroughChild ==
    ASSUME NEW j \in Nat \ {0}, NEW i \in PathToRoot[j], i # j
    PROVE  \E c \in PathToRoot[j] : c > i /\ c \div 2 = i
<1> DEFINE Below == {c \in PathToRoot[j] : c > i}
<1>0. PathToRoot[j] \subseteq 1..j /\ j \in PathToRoot[j]
  BY PathBounds
<1>1. Below \in SUBSET Nat /\ Below # {}
  BY <1>0
<1>2. PICK c \in Below : \A b \in Below : c <= b
  BY <1>1, LeastNat
<1>3. c \in Nat /\ c > 1 /\ i \in Nat
  BY <1>0
<1>4. c \div 2 \in PathToRoot[j] /\ i <= c \div 2
  BY <1>3, PathParent, PathChain
<1>5. c \div 2 < c
  BY <1>3, Half
<1>6. c \div 2 \notin Below
  BY <1>1, <1>2, <1>3, <1>5
<1> QED BY <1>0, <1>3, <1>4, <1>6

-------------------------------------------------------------------------------
(* The methods keep the types of the fields.                               *)

LEMMA FunctionIsSeq ==
    ASSUME NEW S, NEW n \in Nat, NEW f \in [1..n -> S]
    PROVE  f \in Seq(S) /\ Len(f) = n
OBVIOUS

LEMMA BubbleUpType ==
    ASSUME NEW h \in Seq(Entry), NEW i \in DOMAIN h
    PROVE  BubbleUp(h, i) \in Seq(Entry) /\ Len(BubbleUp(h, i)) = Len(h)
<1>1. DOMAIN h = 1..Len(h) /\ Len(h) \in Nat
  BY LenProperties
<1>2. PathToRoot[i] \subseteq DOMAIN h
  BY <1>1, PathBounds
<1>3. BubbleUp(h, i) \in [1..Len(h) -> Entry]
  BY <1>1, <1>2 DEF BubbleUp
<1> QED BY <1>1, <1>3, FunctionIsSeq

LEMMA BubbleDownType ==
    ASSUME NEW h \in Seq(Entry), NEW i \in DOMAIN h
    PROVE  BubbleDown(h, i) \in Seq(Entry) /\ Len(BubbleDown(h, i)) = Len(h)
<1>1. DOMAIN h = 1..Len(h) /\ Len(h) \in Nat
  BY LenProperties
<1>2. BubbleDown(h, i) \in [1..Len(h) -> Entry]
  BY <1>1 DEF BubbleDown
<1> QED BY <1>1, <1>2, FunctionIsSeq

LEMMA SwapType ==
    ASSUME NEW h \in Seq(Entry), NEW i \in DOMAIN h, NEW j \in DOMAIN h
    PROVE  Swap(h, i, j) \in Seq(Entry) /\ Len(Swap(h, i, j)) = Len(h)
BY LenProperties, ExceptSeq DEF Swap

LEMMA FrontType ==
    ASSUME NEW h \in Seq(Entry), NEW n \in Nat, n <= Len(h)
    PROVE  SubSeq(h, 1, n) \in Seq(Entry) /\ Len(SubSeq(h, 1, n)) = n
<1>1. \A i \in 1..n : h[i] \in Entry
  BY LenProperties
<1>2. /\ SubSeq(h, 1, n) \in Seq(Entry)
      /\ Len(SubSeq(h, 1, n)) = IF 1 <= n THEN n - 1 + 1 ELSE 0
  BY <1>1, SubSeqProperties
<1> QED BY <1>2

LEMMA DropLastType ==
    ASSUME NEW h \in Seq(Entry), h # <<>>
    PROVE  DropLast(h) \in Seq(Entry) /\ Len(DropLast(h)) = Len(h) - 1
<1>1. Len(h) - 1 \in Nat /\ Len(h) - 1 <= Len(h)
  BY LenProperties, EmptySeq
<1> QED BY <1>1, FrontType DEF DropLast

(* The queue starts with its fields of their types.                        *)
LEMMA EmptyQueueType == EmptyQueue \in Queue
BY DEF EmptyQueue, Queue

LEMMA EnqueuedType ==
    ASSUME NEW q \in Queue, NEW id \in TaskId, NEW p \in Priority, NEW r \in Nat
    PROVE  Enqueued(q, id, p, r) \in Queue
<1> DEFINE e == [id |-> id, prio |-> p, seq |-> q.seq, retries |-> r]
           idx == Len(q.heap) + 1
           h == Append(q.heap, e)
<1>1. q.heap \in Seq(Entry) /\ q.byId \in [TaskId -> Nat] /\ q.seen \in SUBSET TaskId /\ q.seq \in Nat
  BY DEF Queue
<1>2. e \in Entry
  BY <1>1 DEF Entry
<1>3. h \in Seq(Entry) /\ idx \in Nat /\ idx \in DOMAIN h
  BY <1>1, <1>2, AppendProperties, LenProperties
<1>4. BubbleUp(h, idx) \in Seq(Entry)
  BY <1>3, BubbleUpType
<1>5. Enqueued(q, id, p, r) =
        [q EXCEPT !.heap = BubbleUp(h, idx), !.byId = [q.byId EXCEPT ![id] = idx],
                  !.seen = q.seen \cup {id}, !.seq = q.seq + 1]
  BY DEF Enqueued
<1> HIDE DEF h, idx
<1>6. [q.byId EXCEPT ![id] = idx] \in [TaskId -> Nat] /\ q.seen \cup {id} \in SUBSET TaskId /\ q.seq + 1 \in Nat
  BY <1>1, <1>3
<1> QED BY <1>4, <1>5, <1>6 DEF Queue

LEMMA DequeuedType ==
    ASSUME NEW q \in Queue, q.heap # <<>>
    PROVE  Dequeued(q) \in Queue /\ Top(q) \in Entry
<1> DEFINE swapped == Swap(q.heap, 1, Len(q.heap))
           rest == DropLast(swapped)
           heap == IF rest = <<>> THEN rest ELSE BubbleDown(rest, 1)
<1>1. q.heap \in Seq(Entry) /\ q.byId \in [TaskId -> Nat]
  BY DEF Queue
<1>2. 1 \in DOMAIN q.heap /\ Len(q.heap) \in DOMAIN q.heap
  BY <1>1, LenProperties, EmptySeq
<1>3. Top(q) \in Entry
  BY <1>1, <1>2, LenProperties DEF Top
<1>4. swapped \in Seq(Entry) /\ Len(swapped) = Len(q.heap)
  BY <1>1, <1>2, SwapType
<1>5. swapped # <<>>
  BY <1>1, <1>2, <1>4, LenProperties, EmptySeq
<1>6. rest \in Seq(Entry)
  BY <1>4, <1>5, DropLastType
<1>7. rest # <<>> => 1 \in DOMAIN rest
  BY <1>6, LenProperties, EmptySeq
<1>8. heap \in Seq(Entry)
  BY <1>6, <1>7, BubbleDownType
<1>9. Dequeued(q) = [q EXCEPT !.heap = heap, !.byId[Top(q).id] = 0]
  BY DEF Dequeued
<1>10. [q.byId EXCEPT ![Top(q).id] = 0] \in [TaskId -> Nat]
  BY <1>1
<1>11. Dequeued(q) = [q EXCEPT !.heap = heap, !.byId = [q.byId EXCEPT ![Top(q).id] = 0]]
  BY <1>9 DEF Queue
<1> HIDE DEF heap
<1> QED BY <1>3, <1>8, <1>10, <1>11 DEF Queue

LEMMA CancelledType ==
    ASSUME NEW q \in Queue, NEW id \in TaskId, id \in Indexed(q)
    PROVE  Cancelled(q, id) \in Queue
<1> DEFINE idx   == q.byId[id]
           last  == Len(q.heap)
           moved == q.heap[last].id
           swapped == Swap(q.heap, idx, last)
           rest  == DropLast(swapped)
           index == IF idx = last THEN q.byId ELSE [q.byId EXCEPT ![moved] = idx]
           heap  == IF idx <= Len(rest) THEN BubbleDown(BubbleUp(rest, idx), idx) ELSE rest
<1>1. q.heap \in Seq(Entry) /\ q.byId \in [TaskId -> Nat]
  BY DEF Queue
<1>2. idx \in Nat \ {0} /\ last \in Nat /\ DOMAIN q.heap = 1..last
  BY <1>1, LenProperties DEF Indexed
<1>3. CASE CancelPanics(q, id)
  BY <1>1, <1>3 DEF Cancelled, Queue
<1>4. CASE ~ CancelPanics(q, id)
  <2>1. idx \in DOMAIN q.heap /\ last \in DOMAIN q.heap
    BY <1>2, <1>4 DEF CancelPanics
  <2>2. moved \in TaskId
    <3>1. q.heap[last] \in Entry
      BY <1>1, <1>2, <2>1, LenProperties
    <3> QED BY <3>1 DEF Entry
  <2>3. swapped \in Seq(Entry) /\ Len(swapped) = last
    BY <1>1, <2>1, SwapType
  <2>4. swapped # <<>>
    BY <1>2, <2>1, <2>3, EmptySeq
  <2>5. rest \in Seq(Entry)
    BY <2>3, <2>4, DropLastType
  <2>6. idx <= Len(rest) => idx \in DOMAIN rest
    BY <1>2, <2>5, LenProperties
  <2>7. ASSUME idx <= Len(rest) PROVE BubbleDown(BubbleUp(rest, idx), idx) \in Seq(Entry)
    <3>1. BubbleUp(rest, idx) \in Seq(Entry) /\ Len(BubbleUp(rest, idx)) = Len(rest)
      BY <2>5, <2>6, <2>7, BubbleUpType
    <3>2. idx \in DOMAIN BubbleUp(rest, idx)
      BY <2>5, <2>6, <2>7, <3>1, LenProperties
    <3> QED BY <3>1, <3>2, BubbleDownType
  <2>8. heap \in Seq(Entry)
    BY <2>5, <2>7
  <2>9. index \in [TaskId -> Nat]
    BY <1>1, <1>2, <2>2
  <2>10. Cancelled(q, id) = [q EXCEPT !.byId = [index EXCEPT ![id] = 0], !.heap = heap]
    BY <1>4 DEF Cancelled
  <2> HIDE DEF heap, index
  <2>11. [index EXCEPT ![id] = 0] \in [TaskId -> Nat]
    BY <2>9
  <2> QED BY <2>8, <2>10, <2>11 DEF Queue
<1> QED BY <1>3, <1>4
-------------------------------------------------------------------------------
(* impl Ord for QueueEntry is a strict weak order, total on distinct seqs. *)

LEMMA EntryFields == \A a \in Entry : a.prio \in Nat /\ a.seq \in Nat
BY PriorityAssumption DEF Entry

LEMMA BeforeAsymmetric == \A a, b \in Entry : Before(a, b) => ~ Before(b, a)
BY EntryFields DEF Before

LEMMA BeforeTransitive == \A a, b, c \in Entry : Before(a, b) /\ Before(b, c) => Before(a, c)
BY EntryFields DEF Before

LEMMA NotBeforeTransitive == \A a, b, c \in Entry : ~ Before(a, b) /\ ~ Before(b, c) => ~ Before(a, c)
BY EntryFields DEF Before

LEMMA BeforeTotal == \A a, b \in Entry : a.seq # b.seq => Before(a, b) \/ Before(b, a)
BY EntryFields DEF Before

-------------------------------------------------------------------------------
LEMMA SwapIs ==
    ASSUME NEW h \in Seq(Entry), NEW i \in DOMAIN h, NEW j \in DOMAIN h, i # j
    PROVE  /\ Swap(h, i, j) \in Seq(Entry)
           /\ Len(Swap(h, i, j)) = Len(h)
           /\ DOMAIN Swap(h, i, j) = DOMAIN h
           /\ Swap(h, i, j)[i] = h[j]
           /\ Swap(h, i, j)[j] = h[i]
           /\ \A k \in DOMAIN h : k # i /\ k # j => Swap(h, i, j)[k] = h[k]
<1>1. Swap(h, i, j) \in Seq(Entry) /\ Len(Swap(h, i, j)) = Len(h)
  BY SwapType
<1> QED BY <1>1, LenProperties DEF Swap

LEMMA SameSeq ==
    ASSUME NEW f, NEW g, NEW n \in Nat,
           f \in [1..n -> Entry], g \in [1..n -> Entry],
           \A k \in 1..n : f[k] = g[k]
    PROVE  f = g
OBVIOUS

(* The first turn of bubble_up's loop: where it stops, and what one swap   *)
(* leaves for the turns that follow.                                       *)
LEMMA BubbleUpStops ==
    ASSUME NEW h \in Seq(Entry), NEW i \in DOMAIN h,
           i = 1 \/ ~ Before(h[i], h[i \div 2])
    PROVE  BubbleUp(h, i) = h
<1> DEFINE above  == PathToRoot[i] \ {i}
           passed == {a \in above : \A b \in above : a <= b => Before(h[i], h[b])}
           p == i \div 2
<1>1. DOMAIN h = 1..Len(h) /\ Len(h) \in Nat /\ i \in Nat \ {0}
  BY LenProperties
<1>2. PathToRoot[i] = {i} \cup PathToRoot[p] /\ p \in Nat /\ p < i
  BY <1>1, PathIs, Half
<1>3. p = 0 => above = {}
  BY <1>2, PathZero
<1>4. p # 0 => PathToRoot[p] \subseteq 1..p /\ p \in PathToRoot[p] /\ p \in above
  BY <1>2, PathBounds
<1>5. passed = {}
  <2>1. ASSUME NEW a \in passed PROVE FALSE
    <3>1. p # 0
      BY <1>3
    <3>2. a <= p /\ p \in above
      BY <1>2, <1>4, <3>1
    <3>3. Before(h[i], h[p])
      BY <3>2
    <3>4. i # 1
      BY <1>2, <3>1
    <3> QED BY <3>3, <3>4
  <2> QED BY <2>1
<1> HIDE DEF above, passed, p
<1>6. BubbleUp(h, i) = [j \in DOMAIN h |->
            IF j \in PathToRoot[i] /\ j \div 2 \in passed THEN h[j \div 2]
            ELSE IF j \in passed \cup {i} THEN h[i]
            ELSE h[j]]
  BY DEF BubbleUp, above, passed
<1>7. BubbleUp(h, i) = [j \in DOMAIN h |-> h[j]]
  BY <1>5, <1>6
<1> QED BY <1>1, <1>7

LEMMA BubbleUpTurns ==
    ASSUME NEW h \in Seq(Entry), NEW i \in DOMAIN h,
           i # 1, Before(h[i], h[i \div 2])
    PROVE  BubbleUp(h, i) = BubbleUp(Swap(h, i, i \div 2), i \div 2)
<1> DEFINE p == i \div 2
           g == Swap(h, i, p)
           above  == PathToRoot[i] \ {i}
           passed == {a \in above : \A b \in above : a <= b => Before(h[i], h[b])}
           above2  == PathToRoot[p] \ {p}
           passed2 == {a \in above2 : \A b \in above2 : a <= b => Before(g[p], g[b])}
<1>1. DOMAIN h = 1..Len(h) /\ Len(h) \in Nat /\ i \in Nat \ {0}
  BY LenProperties
<1>2. PathToRoot[i] = {i} \cup PathToRoot[p] /\ p \in Nat \ {0} /\ p < i
  BY <1>1, PathIs, Half
<1>3. PathToRoot[p] \subseteq 1..p /\ p \in PathToRoot[p]
  BY <1>2, PathBounds
<1>4. p \in DOMAIN h
  BY <1>1, <1>2
<1>5. /\ g \in Seq(Entry) /\ DOMAIN g = DOMAIN h /\ g[i] = h[p] /\ g[p] = h[i]
      /\ \A k \in DOMAIN h : k # i /\ k # p => g[k] = h[k]
  BY <1>2, <1>4, SwapIs
<1> HIDE DEF g
<1>6. above = PathToRoot[p] /\ \A a \in above2 : a \in 1..p /\ a # p /\ a # i /\ g[a] = h[a]
  BY <1>1, <1>2, <1>3, <1>5
<1>7. passed = {p} \cup passed2
  <2>1. ASSUME NEW a \in above2 PROVE a \in passed <=> a \in passed2
    BY <1>2, <1>3, <1>5, <1>6, <2>1
  <2>2. p \in passed
    BY <1>2, <1>3, <1>6
  <2>3. passed \subseteq above2 \cup {p}
    BY <1>6
  <2> QED BY <2>1, <2>2, <2>3
<1>8. passed2 \subseteq above2
  OBVIOUS
<1>9. \A j \in PathToRoot[p] : j > 1 => j \div 2 \in Nat \ {0} /\ j \div 2 < j /\ j <= p
  BY <1>3, Half
<1>10. 1 \div 2 = 0 /\ 0 \notin passed /\ 0 \notin passed2
  BY <1>3, <1>6, <1>7, <1>8
<1> HIDE DEF above, passed, above2, passed2
<1> DEFINE up == [j \in DOMAIN h |->
                     IF j \in PathToRoot[i] /\ j \div 2 \in passed THEN h[j \div 2]
                     ELSE IF j \in passed \cup {i} THEN h[i]
                     ELSE h[j]]
           up2 == [j \in DOMAIN g |->
                     IF j \in PathToRoot[p] /\ j \div 2 \in passed2 THEN g[j \div 2]
                     ELSE IF j \in passed2 \cup {p} THEN g[p]
                     ELSE g[j]]
<1>11. BubbleUp(h, i) = up /\ BubbleUp(g, p) = up2
  BY DEF BubbleUp, above, passed, above2, passed2
<1>12. \A j \in DOMAIN h : up[j] = up2[j]
  <2> SUFFICES ASSUME NEW j \in DOMAIN h PROVE up[j] = up2[j]
    OBVIOUS
  <2> j \in Nat /\ j >= 1
    BY <1>1
  <2>1. CASE j = i
    BY <2>1, <1>2, <1>3, <1>5, <1>6, <1>7, <1>8
  <2>2. CASE j = p
    <3>1. p > 1 => p \div 2 # p /\ p \div 2 # i
      BY <1>2, <1>3, <1>9
    <3>2. p \div 2 \in passed2 => g[p \div 2] = h[p \div 2]
      BY <1>6, <1>8
    <3>3. p \div 2 \in passed <=> p \div 2 \in passed2
      BY <1>2, <1>7, <1>10, <3>1
    <3>4. up[p] = IF p \div 2 \in passed THEN h[p \div 2] ELSE h[i]
      BY <1>2, <1>3, <1>4, <1>7
    <3>5. up2[p] = IF p \div 2 \in passed2 THEN g[p \div 2] ELSE g[p]
      BY <1>3, <1>4, <1>5
    <3> QED BY <2>2, <3>2, <3>3, <3>4, <3>5, <1>5
  <2>3. CASE j \in PathToRoot[p] /\ j # p /\ j # i
    <3>1. j \div 2 # p /\ j \div 2 # i
      BY <1>2, <1>3, <2>3, <1>9
    <3>2. j \div 2 \in passed <=> j \div 2 \in passed2
      BY <1>7, <3>1
    <3>3. j \div 2 \in passed2 => g[j \div 2] = h[j \div 2]
      BY <1>6, <1>8
    <3>4. up[j] = IF j \div 2 \in passed THEN h[j \div 2] ELSE IF j \in passed THEN h[i] ELSE h[j]
      BY <1>2, <2>3
    <3>5. up2[j] = IF j \div 2 \in passed2 THEN g[j \div 2] ELSE IF j \in passed2 THEN g[p] ELSE g[j]
      BY <1>5, <2>3
    <3>6. j \in passed <=> j \in passed2
      BY <1>7, <2>3
    <3>7. g[j] = h[j]
      BY <1>5, <2>3
    <3> QED BY <3>2, <3>3, <3>4, <3>5, <3>6, <3>7, <1>5
  <2>4. CASE j \notin PathToRoot[i]
    <3>1. j # i /\ j # p /\ j \notin PathToRoot[p]
      BY <1>2, <1>3, <2>4
    <3>2. above2 \subseteq PathToRoot[p]
      BY DEF above2
    <3>3. j \notin passed /\ j \notin passed2
      BY <1>7, <1>8, <3>1, <3>2
    <3> QED BY <2>4, <3>1, <3>3, <1>5
  <2> QED BY <2>1, <2>2, <2>3, <2>4, <1>2
<1>13. up = up2
  BY <1>5, <1>12
<1> QED BY <1>11, <1>13 DEF g
-------------------------------------------------------------------------------
(* Every entry has its own place in the sequence of enqueues.              *)
Distinct(h) == \A i, j \in DOMAIN h : i # j => h[i].seq # h[j].seq

(* The places that bubble_down moves an entry through.                     *)
SinkPath(h, i) ==
    {j \in DOMAIN h : /\ i \in PathToRoot[j]
                      /\ \A a \in PathToRoot[j] : a > i => Yields(h, h[i], a)}

(* Of two children only one yields.                                        *)
LEMMA OneChildYields ==
    ASSUME NEW h \in Seq(Entry), Distinct(h), NEW x,
           NEW a \in DOMAIN h, NEW b \in DOMAIN h, a \div 2 = b \div 2,
           Yields(h, x, a), Yields(h, x, b)
    PROVE  a = b
<1> SUFFICES ASSUME a # b PROVE FALSE
  OBVIOUS
<1>1. h[a] \in Entry /\ h[b] \in Entry
  BY LenProperties
<1>2. h[a].seq # h[b].seq
  BY DEF Distinct
<1>3. ~ Before(h[a], h[b]) /\ ~ Before(h[b], h[a])
  BY DEF Yields
<1> QED BY <1>1, <1>2, <1>3, BeforeTotal

(* The path starts at i, and every other place of it is reached from its   *)
(* parent on the path.                                                     *)
LEMMA SinkPathStarts ==
    ASSUME NEW h \in Seq(Entry), NEW i \in DOMAIN h
    PROVE  /\ i \in SinkPath(h, i)
           /\ \A j \in SinkPath(h, i) : j # i =>
                 j > i /\ \E c \in DOMAIN h : c \in PathToRoot[j] /\ c > i /\ c \div 2 = i /\ Yields(h, h[i], c)
<1>1. DOMAIN h = 1..Len(h) /\ Len(h) \in Nat /\ i \in Nat \ {0}
  BY LenProperties
<1>2. PathToRoot[i] \subseteq 1..i /\ i \in PathToRoot[i]
  BY <1>1, PathBounds
<1>3. \A a \in PathToRoot[i] : ~ (a > i)
  BY <1>1, <1>2
<1>4. ASSUME NEW j \in SinkPath(h, i), j # i
      PROVE  j > i /\ \E c \in DOMAIN h : c \in PathToRoot[j] /\ c > i /\ c \div 2 = i /\ Yields(h, h[i], c)
  <2>1. j \in 1..Len(h) /\ i \in PathToRoot[j] /\ \A a \in PathToRoot[j] : a > i => Yields(h, h[i], a)
    BY <1>1, <1>4 DEF SinkPath
  <2>2. PathToRoot[j] \subseteq 1..j
    BY <2>1, PathBounds
  <2>3. PICK c \in PathToRoot[j] : c > i /\ c \div 2 = i
    BY <1>4, <2>1, PathThroughChild
  <2>4. c \in DOMAIN h
    BY <1>1, <2>1, <2>2, <2>3
  <2> QED BY <1>1, <1>4, <2>1, <2>2, <2>3, <2>4
<1> QED BY <1>2, <1>3, <1>4 DEF SinkPath

(* bubble_down in terms of its path.                                       *)
LEMMA BubbleDownIs ==
    ASSUME NEW h \in Seq(Entry), Distinct(h), NEW i \in DOMAIN h
    PROVE  /\ BubbleDown(h, i) \in Seq(Entry)
           /\ Len(BubbleDown(h, i)) = Len(h)
           /\ \A j \in DOMAIN h : j \notin SinkPath(h, i) => BubbleDown(h, i)[j] = h[j]
           /\ \A j \in SinkPath(h, i), c \in SinkPath(h, i) :
                 c > i /\ c \div 2 = j => BubbleDown(h, i)[j] = h[c]
           /\ \A j \in SinkPath(h, i) :
                 (\A c \in SinkPath(h, i) : c > i => c \div 2 # j) => BubbleDown(h, i)[j] = h[i]
<1> DEFINE path == SinkPath(h, i)
           down == [j \in DOMAIN h |->
                       IF j \notin path THEN h[j]
                       ELSE IF \E c \in path : c > 1 /\ c \div 2 = j
                            THEN h[CHOOSE c \in path : c > 1 /\ c \div 2 = j]
                            ELSE h[i]]
<1>1. DOMAIN h = 1..Len(h) /\ Len(h) \in Nat /\ i \in Nat \ {0}
  BY LenProperties
<1>2. BubbleDown(h, i) = down
  BY DEF BubbleDown, SinkPath
<1>3. path \subseteq DOMAIN h
  BY DEF SinkPath
<1>4. \A c \in path : c \in Nat /\ (c = i \/ c > i)
  BY <1>1, <1>3, SinkPathStarts
<1>5. \A c \in path, j \in path : c > 1 /\ c \div 2 = j => c > i
  <2> SUFFICES ASSUME NEW c \in path, NEW j \in path, c > 1, c \div 2 = j PROVE c > i
    OBVIOUS
  <2>1. j < c
    BY <1>4, Half
  <2> QED BY <2>1, <1>4, <1>1
<1>6. \A c \in path, d \in path : c > i /\ d > i /\ c \div 2 = d \div 2 => c = d
  <2> SUFFICES ASSUME NEW c \in path, NEW d \in path, c > i, d > i, c \div 2 = d \div 2 PROVE c = d
    OBVIOUS
  <2>1. c \in PathToRoot[c] /\ d \in PathToRoot[d]
    BY <1>1, <1>3, PathBounds
  <2>2. Yields(h, h[i], c) /\ Yields(h, h[i], d)
    BY <2>1 DEF SinkPath
  <2> QED BY <1>3, <2>2, OneChildYields
<1>7. \A j \in DOMAIN h : j \notin path => down[j] = h[j]
  OBVIOUS
<1>8. ASSUME NEW j \in path, NEW c \in path, c > i, c \div 2 = j PROVE down[j] = h[c]
  <2>1. c > 1
    BY <1>1, <1>4, <1>8
  <2>2. \A d \in path : d > 1 /\ d \div 2 = j <=> d = c
    BY <1>5, <1>6, <1>8, <2>1
  <2>3. (CHOOSE d \in path : d > 1 /\ d \div 2 = j) = c
    BY <2>2, Zenon
  <2>4. j \in DOMAIN h
    BY <1>3
  <2> QED BY <2>1, <2>3, <2>4, <1>8
<1>9. ASSUME NEW j \in path, \A c \in path : c > i => c \div 2 # j PROVE down[j] = h[i]
  <2>1. \A c \in path : ~ (c > 1 /\ c \div 2 = j)
    BY <1>5, <1>9
  <2>2. j \in DOMAIN h
    BY <1>3
  <2> QED BY <2>1, <2>2
<1> HIDE DEF down, path
<1> USE DEF path
<1> QED BY <1>2, <1>7, <1>8, <1>9, BubbleDownType

LEMMA BubbleDownStops ==
    ASSUME NEW h \in Seq(Entry), Distinct(h), NEW i \in DOMAIN h,
           \A c \in DOMAIN h : c \div 2 = i => ~ Yields(h, h[i], c)
    PROVE  BubbleDown(h, i) = h
<1>1. SinkPath(h, i) = {i}
  BY SinkPathStarts
<1>2. BubbleDown(h, i)[i] = h[i]
  <2>1. \A c \in {i} : ~ (c > i)
    BY LenProperties
  <2> QED BY <1>1, <2>1, BubbleDownIs
<1>3. \A j \in DOMAIN h : BubbleDown(h, i)[j] = h[j]
  BY <1>1, <1>2, BubbleDownIs
<1>4. /\ BubbleDown(h, i) \in [1..Len(h) -> Entry]
      /\ h \in [1..Len(h) -> Entry]
      /\ Len(h) \in Nat /\ DOMAIN h = 1..Len(h)
  BY BubbleDownIs, LenProperties
<1> QED BY <1>3, <1>4, SameSeq

LEMMA BubbleDownTurns ==
    ASSUME NEW h \in Seq(Entry), Distinct(h), NEW i \in DOMAIN h,
           NEW s \in DOMAIN h, s \div 2 = i, Yields(h, h[i], s)
    PROVE  BubbleDown(h, i) = BubbleDown(Swap(h, i, s), s)
<1> DEFINE g == Swap(h, i, s)
           x == h[i]
           path == SinkPath(h, i)
           path2 == SinkPath(g, s)
<1>1. DOMAIN h = 1..Len(h) /\ Len(h) \in Nat /\ i \in Nat \ {0} /\ s \in Nat \ {0} /\ i < s
  BY LenProperties, Half
<1>2. /\ g \in Seq(Entry) /\ DOMAIN g = DOMAIN h /\ g[i] = h[s] /\ g[s] = x
      /\ \A k \in DOMAIN h : k # i /\ k # s => g[k] = h[k]
      /\ Len(g) = Len(h)
  BY <1>1, SwapIs
<1>3. Distinct(g)
  BY <1>2, <1>1 DEF Distinct
<1> HIDE DEF g
<1>4. PathToRoot[s] = {s} \cup PathToRoot[i] /\ PathToRoot[i] \subseteq 1..i /\ i \in PathToRoot[i]
  BY <1>1, PathIs, PathBounds
<1>5. \A j \in DOMAIN h : PathToRoot[j] \subseteq DOMAIN h
  BY <1>1, PathBounds
<1>6. ASSUME NEW j \in DOMAIN h, s \in PathToRoot[j]
      PROVE  i \in PathToRoot[j] /\ \A a \in PathToRoot[j] : a > i <=> a = s \/ a > s
  <2>1. i \in PathToRoot[j]
    BY <1>1, <1>6, PathParent
  <2>2. ASSUME NEW a \in PathToRoot[j], a > i PROVE a = s \/ a > s
    <3>1. a \in Nat
      BY <1>1, <1>5, <1>6
    <3>2. a < s => a <= i
      BY <1>1, <1>6, PathChain
    <3> QED BY <1>1, <2>2, <3>1, <3>2
  <2>3. \A a \in PathToRoot[j] : a \in Nat
    BY <1>1, <1>5
  <2> QED BY <1>1, <2>1, <2>2, <2>3
<1>7. ASSUME NEW j \in DOMAIN h, s \in PathToRoot[j], NEW a \in PathToRoot[j], a > s
      PROVE  Yields(g, x, a) <=> Yields(h, x, a)
  <2>1. a \in DOMAIN h /\ a \div 2 >= s
    BY <1>1, <1>5, <1>7, PathChain
  <2>2. ASSUME NEW t \in DOMAIN h, t \div 2 = a \div 2 PROVE t # i /\ t # s
    <3>1. t \div 2 < t
      BY <1>1, Half
    <3> QED BY <1>1, <2>1, <2>2, <3>1
  <2>3. g[a] = h[a] /\ \A t \in DOMAIN h : t \div 2 = a \div 2 => g[t] = h[t]
    BY <1>2, <2>1, <2>2
  <2> QED BY <1>2, <2>3 DEF Yields
<1>8. \A j \in DOMAIN h : s \in PathToRoot[j] => (j \in path <=> j \in path2)
  <2> SUFFICES ASSUME NEW j \in DOMAIN h, s \in PathToRoot[j] PROVE j \in path <=> j \in path2
    OBVIOUS
  <2>1. j \in path <=> \A a \in PathToRoot[j] : a > i => Yields(h, x, a)
    BY <1>6 DEF SinkPath
  <2>2. j \in path2 <=> \A a \in PathToRoot[j] : a > s => Yields(g, x, a)
    BY <1>2 DEF SinkPath
  <2>3. (\A a \in PathToRoot[j] : a > i => Yields(h, x, a)) <=> (\A a \in PathToRoot[j] : a > s => Yields(h, x, a))
    BY <1>6
  <2> QED BY <1>7, <2>1, <2>2, <2>3
<1>9. \A j \in path2 : s \in PathToRoot[j] /\ j \in DOMAIN h /\ j >= s
  BY <1>1, <1>2, PathBounds DEF SinkPath
<1>10. \A j \in path : j # i => s \in PathToRoot[j]
  <2> SUFFICES ASSUME NEW j \in path, j # i PROVE s \in PathToRoot[j]
    OBVIOUS
  <2>1. PICK c \in DOMAIN h : c \in PathToRoot[j] /\ c \div 2 = i /\ Yields(h, x, c)
    BY SinkPathStarts
  <2>2. c = s
    BY <2>1, OneChildYields
  <2> QED BY <2>1, <2>2
<1>11. path \subseteq DOMAIN h /\ i \in path /\ s \in path2 /\ i \notin path2
  <2>1. i \in path /\ s \in path2
    BY <1>2, SinkPathStarts
  <2>2. i \notin path2
    BY <1>1, <1>9
  <2> QED BY <2>1, <2>2 DEF SinkPath
<1>12. path = {i} \cup path2
  BY <1>8, <1>9, <1>10, <1>11
<1>13. \A c \in path2 : c > s => c \div 2 >= s
  <2> SUFFICES ASSUME NEW c \in path2, c > s PROVE c \div 2 >= s
    OBVIOUS
  <2>1. c \in Nat \ {0} /\ s \in PathToRoot[c] /\ c \in PathToRoot[c]
    BY <1>1, <1>9, PathBounds
  <2> QED BY <2>1, PathChain
<1> HIDE DEF path, path2
<1> DEFINE f == BubbleDown(h, i)
           k == BubbleDown(g, s)
<1>14. /\ \A j \in DOMAIN h : j \notin path => f[j] = h[j]
       /\ \A j \in path, c \in path : c > i /\ c \div 2 = j => f[j] = h[c]
       /\ \A j \in path : (\A c \in path : c > i => c \div 2 # j) => f[j] = x
       /\ f \in Seq(Entry) /\ Len(f) = Len(h)
  BY BubbleDownIs DEF path
<1>15. /\ \A j \in DOMAIN h : j \notin path2 => k[j] = g[j]
       /\ \A j \in path2, c \in path2 : c > s /\ c \div 2 = j => k[j] = g[c]
       /\ \A j \in path2 : (\A c \in path2 : c > s => c \div 2 # j) => k[j] = x
       /\ k \in Seq(Entry) /\ Len(k) = Len(h)
  BY <1>2, <1>3, BubbleDownIs DEF path2
<1> HIDE DEF f, k
<1>16. \A j \in DOMAIN h : f[j] = k[j]
  <2> SUFFICES ASSUME NEW j \in DOMAIN h PROVE f[j] = k[j]
    OBVIOUS
  <2>1. CASE j = i
    <3>1. f[i] = h[s]
      BY <1>1, <1>11, <1>12, <1>14
    <3>2. k[i] = h[s]
      BY <1>2, <1>11, <1>15
    <3> QED BY <2>1, <3>1, <3>2
  <2>2. CASE j \in path2
    <3>1. ASSUME NEW c \in path2, c > s, c \div 2 = j PROVE f[j] = k[j]
      <4>1. c \in path /\ c > i /\ j \in path /\ c \in DOMAIN h /\ c # i
        BY <1>1, <1>9, <1>12, <3>1, <2>2
      <4>2. f[j] = h[c] /\ k[j] = g[c]
        BY <1>14, <1>15, <2>2, <3>1, <4>1
      <4>3. g[c] = h[c]
        BY <1>1, <1>2, <3>1, <4>1
      <4> QED BY <4>2, <4>3
    <3>2. ASSUME \A c \in path2 : c > s => c \div 2 # j PROVE f[j] = k[j]
      <4>1. j >= s /\ j \in Nat
        BY <1>1, <1>9, <2>2
      <4>2. ASSUME NEW c \in path, c > i PROVE c \div 2 # j
        <5>1. c \in path2
          BY <1>12, <1>1, <4>2
        <5>2. CASE c = s
          BY <1>1, <4>1, <5>2
        <5>3. CASE c > s
          BY <3>2, <5>1, <5>3
        <5> QED BY <1>1, <1>9, <5>1, <5>2, <5>3
      <4>3. f[j] = x
        BY <1>12, <1>14, <2>2, <4>2
      <4> QED BY <1>15, <2>2, <3>2, <4>3
    <3> QED BY <3>1, <3>2
  <2>3. CASE j \notin path
    <3>1. j # i /\ j # s /\ j \notin path2
      BY <1>11, <1>12, <2>3
    <3> QED BY <1>2, <1>14, <1>15, <2>3, <3>1
  <2> QED BY <1>12, <2>1, <2>2, <2>3
<1>17. f \in [1..Len(h) -> Entry] /\ k \in [1..Len(h) -> Entry]
  BY <1>14, <1>15, LenProperties
<1>18. f = k
  BY <1>1, <1>16, <1>17, SameSeq
<1> QED BY <1>18 DEF f, k, g
-------------------------------------------------------------------------------
(* What the loops keep: the entries, and that no two share a seq.          *)
EntriesOf(h) == {h[i] : i \in DOMAIN h}

SameEntries(h, g) ==
    /\ g \in Seq(Entry)
    /\ Len(g) = Len(h)
    /\ EntriesOf(g) = EntriesOf(h)
    /\ Distinct(h) => Distinct(g)

LEMMA SwapKeeps ==
    ASSUME NEW h \in Seq(Entry), NEW i \in DOMAIN h, NEW j \in DOMAIN h, i # j
    PROVE  SameEntries(h, Swap(h, i, j))
<1> DEFINE g == Swap(h, i, j)
<1>1. /\ g \in Seq(Entry) /\ DOMAIN g = DOMAIN h /\ g[i] = h[j] /\ g[j] = h[i]
      /\ \A k \in DOMAIN h : k # i /\ k # j => g[k] = h[k]
      /\ Len(g) = Len(h)
  BY SwapIs
<1> HIDE DEF g
<1>2. EntriesOf(g) = EntriesOf(h)
  <2>1. \A e \in EntriesOf(h) : e \in EntriesOf(g)
    BY <1>1 DEF EntriesOf
  <2>2. \A e \in EntriesOf(g) : e \in EntriesOf(h)
    BY <1>1 DEF EntriesOf
  <2> QED BY <2>1, <2>2
<1>3. Distinct(h) => Distinct(g)
  BY <1>1 DEF Distinct
<1> QED BY <1>1, <1>2, <1>3 DEF SameEntries, g

(* bubble_up's loop, by the place where it starts: a first counterexample  *)
(* would have had one turn less to make.                                   *)
LEMMA BubbleUpKeeps ==
    ASSUME NEW h \in Seq(Entry), NEW i \in DOMAIN h
    PROVE  SameEntries(h, BubbleUp(h, i))
<1> DEFINE Bad == {k \in Nat : \E g \in Seq(Entry) :
                      k \in DOMAIN g /\ ~ SameEntries(g, BubbleUp(g, k))}
<1>1. Bad = {}
  <2> SUFFICES ASSUME Bad # {} PROVE FALSE
    OBVIOUS
  <2>1. PICK k \in Bad : \A n \in Bad : k <= n
    <3>1. Bad \in SUBSET Nat
      OBVIOUS
    <3> QED BY <3>1, LeastNat
  <2>2. PICK g \in Seq(Entry) : k \in DOMAIN g /\ ~ SameEntries(g, BubbleUp(g, k))
    BY <2>1
  <2>3. k # 1 /\ Before(g[k], g[k \div 2])
    <3>1. SameEntries(g, g)
      BY <2>2 DEF SameEntries
    <3> QED BY <2>2, <3>1, BubbleUpStops
  <2> DEFINE p == k \div 2
             s == Swap(g, k, p)
  <2>4. BubbleUp(g, k) = BubbleUp(s, p)
    BY <2>2, <2>3, BubbleUpTurns
  <2>5. p \in DOMAIN g /\ p < k /\ p \in Nat /\ p # k
    BY <2>2, <2>3, LenProperties, Half
  <2>6. SameEntries(g, s) /\ DOMAIN s = DOMAIN g
    BY <2>2, <2>5, SwapKeeps, SwapIs
  <2> HIDE DEF p, s
  <2>7. SameEntries(s, BubbleUp(s, p))
    BY <2>1, <2>5, <2>6 DEF SameEntries
  <2>8. SameEntries(g, BubbleUp(s, p))
    BY <2>6, <2>7 DEF SameEntries
  <2> QED BY <2>2, <2>4, <2>8
<1>2. i \in Nat /\ i \in DOMAIN h
  BY LenProperties
<1> QED BY <1>1, <1>2

LEMMA BubbleDownKeeps ==
    ASSUME NEW h \in Seq(Entry), Distinct(h), NEW i \in DOMAIN h
    PROVE  SameEntries(h, BubbleDown(h, i))
<1> DEFINE Bad == {k \in Nat : \E g \in Seq(Entry) :
                      /\ k <= Len(g) /\ Len(g) - k \in DOMAIN g /\ Distinct(g)
                      /\ ~ SameEntries(g, BubbleDown(g, Len(g) - k))}
<1>1. Bad = {}
  <2> SUFFICES ASSUME Bad # {} PROVE FALSE
    OBVIOUS
  <2>1. PICK k \in Bad : \A n \in Bad : k <= n
    <3>1. Bad \in SUBSET Nat
      OBVIOUS
    <3> QED BY <3>1, LeastNat
  <2>2. PICK g \in Seq(Entry) : /\ k <= Len(g) /\ Len(g) - k \in DOMAIN g /\ Distinct(g)
                                /\ ~ SameEntries(g, BubbleDown(g, Len(g) - k))
    BY <2>1
  <2> DEFINE m == Len(g) - k
  <2>3. PICK s \in DOMAIN g : s \div 2 = m /\ Yields(g, g[m], s)
    <3>1. SameEntries(g, g)
      BY <2>2 DEF SameEntries
    <3> QED BY <2>2, <3>1, BubbleDownStops
  <2> DEFINE w == Swap(g, m, s)
  <2>4. BubbleDown(g, m) = BubbleDown(w, s)
    BY <2>2, <2>3, BubbleDownTurns
  <2>5. s \in 1..Len(g) /\ Len(g) \in Nat /\ m < s /\ m \in Nat
    BY <2>2, <2>3, LenProperties, Half
  <2>6. SameEntries(g, w) /\ DOMAIN w = DOMAIN g
    BY <2>2, <2>5, SwapKeeps, SwapIs
  <2> HIDE DEF w
  <2> DEFINE n == Len(g) - s
  <2>7. n \in Nat /\ n < k /\ n <= Len(w) /\ Len(w) - n = s /\ s \in DOMAIN w
    BY <2>1, <2>5, <2>6 DEF SameEntries
  <2> HIDE DEF n
  <2>8. SameEntries(w, BubbleDown(w, s))
    <3>1. n \notin Bad
      BY <2>1, <2>7
    <3> QED BY <2>2, <2>6, <2>7, <3>1 DEF SameEntries
  <2>9. SameEntries(g, BubbleDown(w, s))
    BY <2>6, <2>8 DEF SameEntries
  <2> QED BY <2>2, <2>4, <2>9
<1>2. Len(h) \in Nat /\ i \in 1..Len(h) /\ i \in DOMAIN h
  BY LenProperties
<1> DEFINE k == Len(h) - i
<1>3. k \in Nat /\ k <= Len(h) /\ Len(h) - k = i
  BY <1>2
<1> HIDE DEF k
<1> QED BY <1>1, <1>2, <1>3
-------------------------------------------------------------------------------
(* Order.  Heaped(h): no entry precedes its parent.  Before bubble_up the  *)
(* entry at i may precede its parent, before bubble_down its children may  *)
(* precede it; either way those children stand right with i's own parent.  *)
Heaped(h) == \A j \in DOMAIN h : j > 1 => ~ Before(h[j], h[j \div 2])

ChildrenFit(h, i) == \A j \in DOMAIN h : j \div 2 = i /\ i > 1 => ~ Before(h[j], h[i \div 2])

UpOk(h, i) ==
    /\ \A j \in DOMAIN h : j > 1 /\ j # i => ~ Before(h[j], h[j \div 2])
    /\ ChildrenFit(h, i)

DownOk(h, i) ==
    /\ \A j \in DOMAIN h : j > 1 /\ j \div 2 # i => ~ Before(h[j], h[j \div 2])
    /\ ChildrenFit(h, i)

LEMMA ParentInDomain ==
    ASSUME NEW h \in Seq(Entry), NEW j \in DOMAIN h, j > 1
    PROVE  j \div 2 \in DOMAIN h /\ j \div 2 < j /\ j \div 2 \in Nat \ {0} /\ j \in Nat
<1>1. DOMAIN h = 1..Len(h) /\ Len(h) \in Nat
  BY LenProperties
<1> QED BY <1>1, Half

LEMMA EntryAt ==
    ASSUME NEW h \in Seq(Entry), NEW j \in DOMAIN h
    PROVE  h[j] \in Entry
BY LenProperties

LEMMA UpOkTurns ==
    ASSUME NEW h \in Seq(Entry), NEW i \in DOMAIN h, i > 1, UpOk(h, i), Before(h[i], h[i \div 2])
    PROVE  UpOk(Swap(h, i, i \div 2), i \div 2)
<1> DEFINE p == i \div 2
           g == Swap(h, i, p)
<1>1. p \in DOMAIN h /\ p < i /\ p \in Nat \ {0} /\ i \in Nat
  BY ParentInDomain
<1>2. /\ g \in Seq(Entry) /\ DOMAIN g = DOMAIN h /\ g[i] = h[p] /\ g[p] = h[i]
      /\ \A k \in DOMAIN h : k # i /\ k # p => g[k] = h[k]
  BY <1>1, SwapIs
<1> HIDE DEF g
<1>3. h[i] \in Entry /\ h[p] \in Entry
  BY <1>1, EntryAt
<1>4. ~ Before(h[p], h[i])
  BY <1>3, BeforeAsymmetric
<1>5. ASSUME NEW j \in DOMAIN h, j > 1, j # p PROVE ~ Before(g[j], g[j \div 2])
  <2>1. j \div 2 \in DOMAIN h /\ j \div 2 < j /\ j \div 2 \in Nat \ {0} /\ j \in Nat
    BY <1>5, ParentInDomain
  <2>2. h[j] \in Entry /\ h[j \div 2] \in Entry
    BY <2>1, EntryAt
  <2>3. CASE j = i
    BY <2>3, <1>2, <1>4
  <2>4. CASE j # i /\ j \div 2 = i
    <3>1. ~ Before(h[j], h[p])
      BY <2>4, <1>1 DEF UpOk, ChildrenFit
    <3> QED BY <3>1, <2>4, <1>2, <1>5
  <2>5. CASE j # i /\ j \div 2 = p
    <3>1. ~ Before(h[j], h[p])
      BY <2>5, <1>5 DEF UpOk
    <3>2. ~ Before(h[j], h[i])
      BY <3>1, <2>2, <1>3, BeforeTransitive
    <3> QED BY <3>2, <2>5, <1>2, <1>5
  <2>6. CASE j # i /\ j \div 2 # i /\ j \div 2 # p
    <3>1. ~ Before(h[j], h[j \div 2])
      BY <2>6, <1>5 DEF UpOk
    <3> QED BY <3>1, <2>6, <2>1, <1>2, <1>5
  <2> QED BY <2>3, <2>4, <2>5, <2>6
<1>6. ASSUME NEW j \in DOMAIN h, j \div 2 = p, p > 1 PROVE ~ Before(g[j], g[p \div 2])
  <2>1. p \div 2 \in DOMAIN h /\ p \div 2 < p /\ p \div 2 \in Nat /\ h[p \div 2] \in Entry
    BY <1>1, <1>6, ParentInDomain, EntryAt
  <2>2. g[p \div 2] = h[p \div 2]
    BY <1>1, <1>2, <2>1
  <2>3. ~ Before(h[p], h[p \div 2])
    BY <1>1, <1>6 DEF UpOk
  <2>4. CASE j = i
    BY <2>2, <2>3, <2>4, <1>2
  <2>5. CASE j # i
    <3>1. j \in Nat /\ j > 1 /\ j # p /\ h[j] \in Entry
      <4>1. j \in Nat \ {0}
        BY LenProperties
      <4> QED BY <4>1, <1>1, <1>6, Half, EntryAt
    <3>2. ~ Before(h[j], h[p])
      BY <2>5, <3>1, <1>6 DEF UpOk
    <3>3. ~ Before(h[j], h[p \div 2])
      BY <3>1, <3>2, <2>1, <2>3, <1>3, NotBeforeTransitive
    <3> QED BY <3>1, <3>3, <2>2, <2>5, <1>2
  <2> QED BY <2>4, <2>5
<1> QED BY <1>2, <1>5, <1>6 DEF UpOk, ChildrenFit, g

(* bubble_up restores the order.                                           *)
LEMMA BubbleUpOrders ==
    ASSUME NEW h \in Seq(Entry), NEW i \in DOMAIN h, UpOk(h, i)
    PROVE  Heaped(BubbleUp(h, i))
<1> DEFINE Bad == {k \in Nat : \E g \in Seq(Entry) :
                      k \in DOMAIN g /\ UpOk(g, k) /\ ~ Heaped(BubbleUp(g, k))}
<1>1. Bad = {}
  <2> SUFFICES ASSUME Bad # {} PROVE FALSE
    OBVIOUS
  <2>1. PICK k \in Bad : \A n \in Bad : k <= n
    <3>1. Bad \in SUBSET Nat
      OBVIOUS
    <3> QED BY <3>1, LeastNat
  <2>2. PICK g \in Seq(Entry) : k \in DOMAIN g /\ UpOk(g, k) /\ ~ Heaped(BubbleUp(g, k))
    BY <2>1
  <2>3. k # 1 /\ Before(g[k], g[k \div 2])
    <3> SUFFICES ASSUME k = 1 \/ ~ Before(g[k], g[k \div 2]) PROVE FALSE
      OBVIOUS
    <3>1. BubbleUp(g, k) = g
      BY <2>2, BubbleUpStops
    <3>2. Heaped(g)
      BY <2>2 DEF UpOk, Heaped
    <3> QED BY <2>2, <3>1, <3>2
  <2> DEFINE p == k \div 2
             s == Swap(g, k, p)
  <2>4. BubbleUp(g, k) = BubbleUp(s, p)
    BY <2>2, <2>3, BubbleUpTurns
  <2>5. k > 1
    BY <2>2, <2>3, LenProperties
  <2>6. p \in DOMAIN g /\ p < k /\ p \in Nat /\ p # k
    BY <2>2, <2>5, ParentInDomain
  <2>7. UpOk(s, p)
    BY <2>2, <2>3, <2>5, UpOkTurns
  <2>8. s \in Seq(Entry) /\ DOMAIN s = DOMAIN g
    BY <2>2, <2>6, SwapIs
  <2> HIDE DEF p, s
  <2>9. Heaped(BubbleUp(s, p))
    BY <2>1, <2>6, <2>7, <2>8
  <2> QED BY <2>2, <2>4, <2>9
<1>2. i \in Nat /\ i \in DOMAIN h
  BY LenProperties
<1> QED BY <1>1, <1>2

LEMMA DownOkTurns ==
    ASSUME NEW h \in Seq(Entry), NEW i \in DOMAIN h, DownOk(h, i),
           NEW s \in DOMAIN h, s \div 2 = i, Yields(h, h[i], s)
    PROVE  DownOk(Swap(h, i, s), s)
<1> DEFINE g == Swap(h, i, s)
<1>1. s \in Nat /\ i \in Nat \ {0} /\ i < s /\ s > 1
  BY LenProperties, Half
<1>2. /\ g \in Seq(Entry) /\ DOMAIN g = DOMAIN h /\ g[i] = h[s] /\ g[s] = h[i]
      /\ \A k \in DOMAIN h : k # i /\ k # s => g[k] = h[k]
  BY <1>1, SwapIs
<1> HIDE DEF g
<1>3. h[i] \in Entry /\ h[s] \in Entry
  BY EntryAt
<1>4. Before(h[s], h[i]) /\ ~ Before(h[i], h[s])
  BY <1>3, BeforeAsymmetric DEF Yields
<1>5. ASSUME NEW j \in DOMAIN h, j > 1, j \div 2 # s PROVE ~ Before(g[j], g[j \div 2])
  <2>1. j \div 2 \in DOMAIN h /\ j \div 2 < j /\ j \div 2 \in Nat \ {0} /\ j \in Nat
    BY <1>5, ParentInDomain
  <2>2. CASE j = s
    BY <2>2, <1>2, <1>4
  <2>3. CASE j = i
    <3>1. ~ Before(h[s], h[i \div 2])
      BY <1>1, <1>5, <2>3 DEF DownOk, ChildrenFit
    <3>2. i \div 2 # i /\ i \div 2 # s
      BY <1>1, <2>1, <2>3
    <3> QED BY <3>1, <3>2, <2>1, <2>3, <1>2
  <2>4. CASE j # s /\ j # i /\ j \div 2 = i
    <3>1. ~ Before(h[j], h[s])
      BY <2>4 DEF Yields
    <3> QED BY <3>1, <2>4, <1>2
  <2>5. CASE j # s /\ j # i /\ j \div 2 # i
    <3>1. ~ Before(h[j], h[j \div 2])
      BY <1>5, <2>5 DEF DownOk
    <3> QED BY <3>1, <2>1, <2>5, <1>2, <1>5
  <2> QED BY <2>2, <2>3, <2>4, <2>5
<1>6. ASSUME NEW j \in DOMAIN h, j \div 2 = s, s > 1 PROVE ~ Before(g[j], g[s \div 2])
  <2>1. j \in Nat /\ j > s
    BY <1>1, <1>6, LenProperties, Half
  <2>2. ~ Before(h[j], h[s])
    BY <1>1, <1>6, <2>1 DEF DownOk
  <2> QED BY <1>1, <1>2, <2>1, <2>2
<1> QED BY <1>2, <1>5, <1>6 DEF DownOk, ChildrenFit, g

(* When no child yields, none precedes the entry at i.                     *)
LEMMA DownOkStops ==
    ASSUME NEW h \in Seq(Entry), NEW i \in DOMAIN h, DownOk(h, i),
           \A c \in DOMAIN h : c \div 2 = i => ~ Yields(h, h[i], c)
    PROVE  Heaped(h)
<1> SUFFICES ASSUME NEW j \in DOMAIN h, j > 1, j \div 2 = i, Before(h[j], h[i])
             PROVE  FALSE
  BY DEF Heaped, DownOk
<1>1. PICK t \in DOMAIN h : t # j /\ t \div 2 = j \div 2 /\ Before(h[t], h[j])
  BY DEF Yields
<1>2. h[i] \in Entry /\ h[j] \in Entry /\ h[t] \in Entry
  BY EntryAt
<1>3. Before(h[t], h[i]) /\ ~ Before(h[j], h[t])
  BY <1>1, <1>2, BeforeTransitive, BeforeAsymmetric
<1>4. \A s \in DOMAIN h : s # t /\ s \div 2 = t \div 2 => s = j
  <2>1. DOMAIN h = 1..Len(h) /\ Len(h) \in Nat
    BY LenProperties
  <2> QED BY <2>1, <1>1
<1>5. Yields(h, h[i], t)
  BY <1>1, <1>3, <1>4 DEF Yields
<1> QED BY <1>1, <1>5

(* bubble_down restores the order.                                         *)
LEMMA BubbleDownOrders ==
    ASSUME NEW h \in Seq(Entry), Distinct(h), NEW i \in DOMAIN h, DownOk(h, i)
    PROVE  Heaped(BubbleDown(h, i))
<1> DEFINE Bad == {k \in Nat : \E g \in Seq(Entry) :
                      /\ k <= Len(g) /\ Len(g) - k \in DOMAIN g /\ Distinct(g)
                      /\ DownOk(g, Len(g) - k) /\ ~ Heaped(BubbleDown(g, Len(g) - k))}
<1>1. Bad = {}
  <2> SUFFICES ASSUME Bad # {} PROVE FALSE
    OBVIOUS
  <2>1. PICK k \in Bad : \A n \in Bad : k <= n
    <3>1. Bad \in SUBSET Nat
      OBVIOUS
    <3> QED BY <3>1, LeastNat
  <2>2. PICK g \in Seq(Entry) : /\ k <= Len(g) /\ Len(g) - k \in DOMAIN g /\ Distinct(g)
                                /\ DownOk(g, Len(g) - k) /\ ~ Heaped(BubbleDown(g, Len(g) - k))
    BY <2>1
  <2> DEFINE m == Len(g) - k
  <2>3. PICK s \in DOMAIN g : s \div 2 = m /\ Yields(g, g[m], s)
    <3> SUFFICES ASSUME \A c \in DOMAIN g : c \div 2 = m => ~ Yields(g, g[m], c) PROVE FALSE
      OBVIOUS
    <3>1. BubbleDown(g, m) = g
      BY <2>2, BubbleDownStops
    <3>2. Heaped(g)
      BY <2>2, DownOkStops
    <3> QED BY <2>2, <3>1, <3>2
  <2> DEFINE w == Swap(g, m, s)
  <2>4. BubbleDown(g, m) = BubbleDown(w, s)
    BY <2>2, <2>3, BubbleDownTurns
  <2>5. s \in 1..Len(g) /\ Len(g) \in Nat /\ m < s /\ m \in Nat
    BY <2>2, <2>3, LenProperties, Half
  <2>6. SameEntries(g, w) /\ DOMAIN w = DOMAIN g
    BY <2>2, <2>5, SwapKeeps, SwapIs
  <2>7. DownOk(w, s)
    BY <2>2, <2>3, DownOkTurns
  <2> HIDE DEF w
  <2> DEFINE n == Len(g) - s
  <2>8. n \in Nat /\ n < k /\ n <= Len(w) /\ Len(w) - n = s /\ s \in DOMAIN w
    BY <2>1, <2>5, <2>6 DEF SameEntries
  <2> HIDE DEF n
  <2>9. Heaped(BubbleDown(w, s))
    <3>1. n \notin Bad
      BY <2>1, <2>8
    <3> QED BY <2>2, <2>6, <2>7, <2>8, <3>1 DEF SameEntries
  <2> QED BY <2>2, <2>4, <2>9
<1>2. Len(h) \in Nat /\ i \in 1..Len(h) /\ i \in DOMAIN h
  BY LenProperties
<1> DEFINE k == Len(h) - i
<1>3. k \in Nat /\ k <= Len(h) /\ Len(h) - k = i
  BY <1>2
<1> HIDE DEF k
<1> QED BY <1>1, <1>2, <1>3

(* The first entry of a heap precedes all others, or is as early.          *)
LEMMA TopIsFirst ==
    ASSUME NEW h \in Seq(Entry), Heaped(h), NEW i \in DOMAIN h
    PROVE  ~ Before(h[i], h[1])
<1> DEFINE Bad == {k \in Nat : k \in DOMAIN h /\ Before(h[k], h[1])}
<1>0. DOMAIN h = 1..Len(h) /\ Len(h) \in Nat
  BY LenProperties
<1>1. Bad = {}
  <2> SUFFICES ASSUME Bad # {} PROVE FALSE
    OBVIOUS
  <2>1. PICK k \in Bad : \A n \in Bad : k <= n
    <3>1. Bad \in SUBSET Nat
      OBVIOUS
    <3> QED BY <3>1, LeastNat
  <2>2. k \in DOMAIN h /\ 1 \in DOMAIN h /\ h[k] \in Entry /\ h[1] \in Entry
    BY <1>0, <2>1, EntryAt
  <2>3. k # 1
    BY <2>1, <2>2, BeforeAsymmetric
  <2>4. k > 1
    BY <1>0, <2>2, <2>3
  <2>5. k \div 2 \in DOMAIN h /\ k \div 2 < k /\ k \div 2 \in Nat /\ h[k \div 2] \in Entry
    BY <2>2, <2>4, ParentInDomain, EntryAt
  <2>6. ~ Before(h[k], h[k \div 2])
    BY <2>2, <2>4 DEF Heaped
  <2>7. ~ Before(h[k \div 2], h[1])
    BY <2>1, <2>5
  <2>8. ~ Before(h[k], h[1])
    BY <2>2, <2>5, <2>6, <2>7, NotBeforeTransitive
  <2> QED BY <2>1, <2>8
<1> QED BY <1>0, <1>1
-------------------------------------------------------------------------------
(* What the methods do to the heap.                                        *)
HeapOk(h) == h \in Seq(Entry) /\ Heaped(h) /\ Distinct(h)

(* The vector after swap(idx, last) and pop.                               *)
LEMMA TakeOut ==
    ASSUME NEW h \in Seq(Entry), Distinct(h), NEW idx \in DOMAIN h
    PROVE  LET rest == DropLast(Swap(h, idx, Len(h)))
           IN  /\ rest \in Seq(Entry)
               /\ Len(rest) = Len(h) - 1
               /\ \A k \in DOMAIN rest : rest[k] = IF k = idx THEN h[Len(h)] ELSE h[k]
               /\ EntriesOf(rest) = EntriesOf(h) \ {h[idx]}
               /\ Distinct(rest)
<1> DEFINE n == Len(h)
           s == Swap(h, idx, n)
           rest == DropLast(s)
<1>1. n \in Nat /\ DOMAIN h = 1..n /\ n \in DOMAIN h /\ idx \in 1..n /\ n - 1 \in Nat
  BY LenProperties
<1>2. s \in Seq(Entry) /\ Len(s) = n /\ s \in [1..n -> Entry]
  BY <1>1, SwapType, LenProperties
<1>3. \A k \in 1..n : s[k] = IF k = idx THEN h[n] ELSE IF k = n THEN h[idx] ELSE h[k]
  BY <1>1 DEF Swap
<1>4. \A k \in 1..(n - 1) : s[k] \in Entry
  BY <1>1, <1>2
<1> HIDE DEF s
<1>5. rest \in Seq(Entry) /\ Len(rest) = n - 1 /\ \A k \in 1..(n - 1) : rest[k] = s[k]
  <2>1. /\ SubSeq(s, 1, n - 1) \in Seq(Entry)
        /\ Len(SubSeq(s, 1, n - 1)) = IF 1 <= n - 1 THEN n - 1 - 1 + 1 ELSE 0
        /\ \A k \in 1..(n - 1 - 1 + 1) : SubSeq(s, 1, n - 1)[k] = s[1 + k - 1]
    BY <1>1, <1>4, SubSeqProperties
  <2> QED BY <1>1, <1>2, <2>1 DEF DropLast
<1> HIDE DEF rest
<1>6. DOMAIN rest = 1..(n - 1)
  BY <1>5, LenProperties
<1>7. \A k \in DOMAIN rest : rest[k] = IF k = idx THEN h[n] ELSE h[k]
  <2> SUFFICES ASSUME NEW k \in 1..(n - 1) PROVE rest[k] = IF k = idx THEN h[n] ELSE h[k]
    BY <1>6
  <2>0. n \in Nat
    BY <1>1
  <2> HIDE DEF n
  <2>1. k \in 1..n /\ k # n
    BY <2>0
  <2> QED BY <1>3, <1>5, <2>1
<1>8. \A a \in DOMAIN h, b \in DOMAIN h : a # b => h[a] # h[b]
  BY DEF Distinct
<1>9. EntriesOf(rest) = EntriesOf(h) \ {h[idx]}
  <2>1. ASSUME NEW k \in DOMAIN rest PROVE rest[k] \in EntriesOf(h) \ {h[idx]}
    <3>1. k \in 1..n /\ k # n
      BY <1>1, <1>6
    <3>2. rest[k] \in EntriesOf(h)
      BY <1>1, <1>7, <3>1 DEF EntriesOf
    <3>3. rest[k] # h[idx]
      BY <1>1, <1>7, <1>8, <3>1
    <3> QED BY <3>2, <3>3
  <2>2. ASSUME NEW k \in DOMAIN h, k # idx PROVE h[k] \in EntriesOf(rest)
    <3>1. CASE k = n
      <4>1. idx \in DOMAIN rest /\ rest[idx] = h[n]
        BY <1>1, <1>6, <1>7, <2>2, <3>1
      <4> QED BY <3>1, <4>1 DEF EntriesOf
    <3>2. CASE k # n
      <4>1. k \in DOMAIN rest /\ rest[k] = h[k]
        BY <1>1, <1>6, <1>7, <2>2, <3>2
      <4> QED BY <4>1 DEF EntriesOf
    <3> QED BY <3>1, <3>2
  <2> QED BY <2>1, <2>2 DEF EntriesOf
<1>10. Distinct(rest)
  <2> SUFFICES ASSUME NEW a \in DOMAIN rest, NEW b \in DOMAIN rest, a # b
               PROVE  rest[a].seq # rest[b].seq
    BY DEF Distinct
  <2>1. a \in DOMAIN h /\ b \in DOMAIN h /\ a # n /\ b # n
    BY <1>1, <1>6
  <2> QED BY <1>1, <1>7, <2>1 DEF Distinct
<1> QED BY <1>5, <1>7, <1>9, <1>10 DEF rest, s

(* enqueue: the heap stays one, and holds one entry more.                  *)
LEMMA EnqueuedHeap ==
    ASSUME NEW h \in Seq(Entry), HeapOk(h), NEW e \in Entry, \A f \in EntriesOf(h) : f.seq < e.seq
    PROVE  LET g == BubbleUp(Append(h, e), Len(h) + 1)
           IN  HeapOk(g) /\ EntriesOf(g) = EntriesOf(h) \cup {e}
<1> DEFINE n == Len(h)
           v == Append(h, e)
           g == BubbleUp(v, n + 1)
<1>1. n \in Nat /\ DOMAIN h = 1..n
  BY LenProperties
<1>2. v \in Seq(Entry) /\ Len(v) = n + 1 /\ v[n + 1] = e /\ \A k \in 1..n : v[k] = h[k]
  BY AppendProperties, <1>1
<1>3. DOMAIN v = 1..(n + 1) /\ n + 1 \in DOMAIN v
  BY <1>1, <1>2, LenProperties
<1> HIDE DEF v
<1>4. EntriesOf(v) = EntriesOf(h) \cup {e}
  <2>1. \A k \in DOMAIN v : k \in DOMAIN h \/ k = n + 1
    BY <1>1, <1>3
  <2>2. \A f \in EntriesOf(v) : f \in EntriesOf(h) \cup {e}
    BY <1>1, <1>2, <2>1 DEF EntriesOf
  <2>3. \A f \in EntriesOf(h) \cup {e} : f \in EntriesOf(v)
    BY <1>1, <1>2, <1>3 DEF EntriesOf
  <2> QED BY <2>2, <2>3
<1>5. Distinct(v)
  <2> SUFFICES ASSUME NEW a \in DOMAIN v, NEW b \in DOMAIN v, a < b
               PROVE  v[a].seq # v[b].seq
    BY <1>1, <1>3 DEF Distinct
  <2>1. a \in DOMAIN h
    BY <1>1, <1>3
  <2>2. CASE b \in DOMAIN h
    BY <1>1, <1>2, <2>1, <2>2 DEF HeapOk, Distinct
  <2>3. CASE b = n + 1
    <3>1. h[a] \in EntriesOf(h)
      BY <2>1 DEF EntriesOf
    <3>2. h[a] \in Entry /\ h[a].seq < e.seq
      BY <2>1, <3>1, EntryAt
    <3> QED BY <1>1, <1>2, <2>1, <2>3, <3>2, EntryFields
  <2> QED BY <1>1, <1>3, <2>2, <2>3
<1>6. UpOk(v, n + 1)
  <2>1. ASSUME NEW j \in DOMAIN v, j > 1, j # n + 1 PROVE ~ Before(v[j], v[j \div 2])
    <3>1. j \in DOMAIN h /\ j \div 2 \in 1..n
      BY <1>1, <1>3, <2>1
    <3> QED BY <1>1, <1>2, <2>1, <3>1 DEF HeapOk, Heaped
  <2>2. \A j \in DOMAIN v : j \div 2 # n + 1
    BY <1>1, <1>3
  <2> QED BY <2>1, <2>2 DEF UpOk, ChildrenFit
<1>7. Heaped(g) /\ SameEntries(v, g)
  BY <1>2, <1>3, <1>6, BubbleUpOrders, BubbleUpKeeps
<1> QED BY <1>4, <1>5, <1>7 DEF SameEntries, HeapOk, v

(* dequeue: the last entry sinks from the top.                             *)
LEMMA DequeuedHeap ==
    ASSUME NEW h \in Seq(Entry), HeapOk(h), h # <<>>
    PROVE  LET rest == DropLast(Swap(h, 1, Len(h)))
               g == IF rest = <<>> THEN rest ELSE BubbleDown(rest, 1)
           IN  HeapOk(g) /\ EntriesOf(g) = EntriesOf(h) \ {h[1]}
<1> DEFINE n == Len(h)
           rest == DropLast(Swap(h, 1, n))
           g == IF rest = <<>> THEN rest ELSE BubbleDown(rest, 1)
<1>1. n \in Nat /\ DOMAIN h = 1..n /\ 1 \in DOMAIN h
  BY LenProperties, EmptySeq
<1>2. /\ rest \in Seq(Entry) /\ Len(rest) = n - 1 /\ Distinct(rest)
      /\ \A k \in DOMAIN rest : rest[k] = IF k = 1 THEN h[n] ELSE h[k]
      /\ EntriesOf(rest) = EntriesOf(h) \ {h[1]}
  BY <1>1, TakeOut DEF HeapOk
<1> HIDE DEF rest
<1>3. DOMAIN rest = 1..(n - 1)
  BY <1>2, LenProperties
<1>4. CASE rest = <<>>
  <2>1. Heaped(rest)
    BY <1>4 DEF Heaped
  <2> QED BY <1>2, <1>4, <2>1 DEF HeapOk, rest
<1>5. CASE rest # <<>>
  <2>1. 1 \in DOMAIN rest
    BY <1>1, <1>2, <1>3, <1>5, EmptySeq
  <2>2. DownOk(rest, 1)
    <3>1. ASSUME NEW j \in DOMAIN rest, j > 1, j \div 2 # 1 PROVE ~ Before(rest[j], rest[j \div 2])
      <4>1. j \div 2 \in DOMAIN rest /\ j \in DOMAIN h /\ j # 1
        BY <1>1, <1>2, <1>3, <3>1, ParentInDomain
      <4> QED BY <1>2, <3>1, <4>1 DEF HeapOk, Heaped
    <3> QED BY <3>1 DEF DownOk, ChildrenFit
  <2>3. Heaped(BubbleDown(rest, 1)) /\ SameEntries(rest, BubbleDown(rest, 1))
    BY <1>2, <2>1, <2>2, BubbleDownOrders, BubbleDownKeeps
  <2>4. g = BubbleDown(rest, 1)
    BY <1>5
  <2> HIDE DEF g
  <2>5. HeapOk(g) /\ EntriesOf(g) = EntriesOf(h) \ {h[1]}
    BY <1>2, <2>3, <2>4 DEF SameEntries, HeapOk
  <2> QED BY <2>5 DEF g, rest
<1> QED BY <1>4, <1>5

(* cancel: the last entry takes the place idx, and travels either way.     *)
LEMMA CancelledHeap ==
    ASSUME NEW h \in Seq(Entry), HeapOk(h), NEW idx \in DOMAIN h
    PROVE  LET rest == DropLast(Swap(h, idx, Len(h)))
               g == IF idx <= Len(rest) THEN BubbleDown(BubbleUp(rest, idx), idx) ELSE rest
           IN  HeapOk(g) /\ EntriesOf(g) = EntriesOf(h) \ {h[idx]}
<1> DEFINE n == Len(h)
           rest == DropLast(Swap(h, idx, n))
           g == IF idx <= Len(rest) THEN BubbleDown(BubbleUp(rest, idx), idx) ELSE rest
<1>1. n \in Nat /\ DOMAIN h = 1..n /\ idx \in 1..n
  BY LenProperties
<1>2. /\ rest \in Seq(Entry) /\ Len(rest) = n - 1 /\ Distinct(rest)
      /\ \A k \in DOMAIN rest : rest[k] = IF k = idx THEN h[n] ELSE h[k]
      /\ EntriesOf(rest) = EntriesOf(h) \ {h[idx]}
  BY <1>1, TakeOut DEF HeapOk
<1> HIDE DEF rest
<1>3. DOMAIN rest = 1..(n - 1)
  BY <1>2, LenProperties
<1>4. ASSUME NEW j \in DOMAIN rest, j > 1, j # idx, j \div 2 # idx
      PROVE  ~ Before(rest[j], rest[j \div 2])
  <2>1. j \div 2 \in DOMAIN rest /\ j \in DOMAIN h
    BY <1>1, <1>2, <1>3, <1>4, ParentInDomain
  <2> QED BY <1>2, <1>4, <2>1 DEF HeapOk, Heaped
<1>5. CASE ~ (idx <= Len(rest))
  <2>1. \A j \in DOMAIN rest : j # idx
    BY <1>1, <1>2, <1>3, <1>5
  <2>2. \A j \in DOMAIN rest : j > 1 => j \div 2 # idx
    BY <1>2, <2>1, ParentInDomain
  <2>3. Heaped(rest)
    BY <1>4, <2>1, <2>2 DEF Heaped
  <2> QED BY <1>2, <1>5, <2>3 DEF HeapOk, rest
<1>6. CASE idx <= Len(rest)
  <2>1. idx \in DOMAIN rest
    BY <1>1, <1>2, <1>3, <1>6
  <2>2. \A k \in DOMAIN rest : rest[k] \in Entry
    BY <1>2, EntryAt
  <2>3. ChildrenFit(rest, idx)
    <3> SUFFICES ASSUME NEW j \in DOMAIN rest, j \div 2 = idx, idx > 1
                 PROVE  ~ Before(rest[j], rest[idx \div 2])
      BY DEF ChildrenFit
    <3>1. j \in Nat /\ j > idx /\ j > 1 /\ j \in DOMAIN h
      <4>1. j \in Nat /\ j \in DOMAIN h
        BY <1>1, <1>3
      <4> QED BY <1>1, <4>1, Half
    <3>2. idx \div 2 \in DOMAIN rest /\ idx \div 2 # idx /\ idx \div 2 \in DOMAIN h
      BY <1>1, <1>2, <1>3, <2>1, ParentInDomain
    <3>3. ~ Before(h[j], h[idx]) /\ ~ Before(h[idx], h[idx \div 2])
      BY <3>1 DEF HeapOk, Heaped
    <3>4. ~ Before(h[j], h[idx \div 2])
      BY <3>1, <3>2, <3>3, EntryAt, NotBeforeTransitive
    <3>5. rest[j] = h[j] /\ rest[idx \div 2] = h[idx \div 2]
      BY <1>1, <1>2, <3>1, <3>2
    <3> QED BY <3>4, <3>5
  <2> DEFINE up == BubbleUp(rest, idx)
  <2>4. SameEntries(rest, up)
    BY <1>2, <2>1, BubbleUpKeeps
  <2>5. idx \in DOMAIN up /\ up \in Seq(Entry) /\ Distinct(up) /\ DOMAIN up = DOMAIN rest
    <3>1. up \in Seq(Entry) /\ Len(up) = Len(rest) /\ Distinct(up)
      BY <1>2, <2>4 DEF SameEntries
    <3> QED BY <1>2, <2>1, <3>1, LenProperties
  <2>6. DownOk(up, idx)
    <3>1. CASE idx > 1 /\ Before(rest[idx], rest[idx \div 2])
      <4>1. UpOk(rest, idx)
        <5>1. ASSUME NEW j \in DOMAIN rest, j > 1, j \div 2 = idx
              PROVE  ~ Before(rest[j], rest[j \div 2])
          <6>1. idx \div 2 \in DOMAIN rest
            BY <1>2, <2>1, <3>1, ParentInDomain
          <6>2. ~ Before(rest[j], rest[idx \div 2])
            BY <2>3, <3>1, <5>1 DEF ChildrenFit
          <6>3. rest[j] \in Entry /\ rest[idx] \in Entry /\ rest[idx \div 2] \in Entry
            BY <2>1, <2>2, <6>1
          <6>4. ~ Before(rest[j], rest[idx])
            BY <3>1, <6>2, <6>3, BeforeTransitive
          <6> QED BY <5>1, <6>4
        <5> QED BY <1>4, <2>3, <5>1 DEF UpOk
      <4>2. Heaped(up)
        BY <1>2, <2>1, <4>1, BubbleUpOrders
      <4>3. ChildrenFit(up, idx)
        <5> SUFFICES ASSUME NEW j \in DOMAIN up, j \div 2 = idx, idx > 1
                     PROVE  ~ Before(up[j], up[idx \div 2])
          BY DEF ChildrenFit
        <5>1. j \in Nat /\ j > 1
          <6>1. j \in Nat
            BY <1>3, <2>5
          <6> QED BY <1>1, <6>1, Half
        <5>2. idx \div 2 \in DOMAIN up
          BY <2>5, ParentInDomain
        <5>3. ~ Before(up[j], up[idx]) /\ ~ Before(up[idx], up[idx \div 2])
          BY <2>5, <4>2, <5>1 DEF Heaped
        <5>4. up[j] \in Entry /\ up[idx] \in Entry /\ up[idx \div 2] \in Entry
          BY <2>5, <5>2, EntryAt
        <5> QED BY <5>3, <5>4, NotBeforeTransitive
      <4> QED BY <4>2, <4>3 DEF Heaped, DownOk
    <3>2. CASE ~ (idx > 1 /\ Before(rest[idx], rest[idx \div 2]))
      <4>1. up = rest
        BY <1>1, <1>2, <2>1, <3>2, BubbleUpStops
      <4>2. DownOk(rest, idx)
        BY <1>4, <2>3, <3>2 DEF DownOk
      <4> QED BY <4>1, <4>2
    <3> QED BY <3>1, <3>2
  <2> DEFINE down == BubbleDown(up, idx)
  <2> HIDE DEF up
  <2>7. Heaped(down) /\ SameEntries(up, down)
    BY <2>5, <2>6, BubbleDownOrders, BubbleDownKeeps
  <2>8. HeapOk(down) /\ EntriesOf(down) = EntriesOf(h) \ {h[idx]}
    BY <1>2, <2>4, <2>5, <2>7 DEF SameEntries, HeapOk
  <2>9. g = down
    BY <1>6 DEF up
  <2> QED BY <2>8, <2>9 DEF rest
<1> QED BY <1>5, <1>6
-------------------------------------------------------------------------------
(* The loops of bubble_up and bubble_down, turn by turn.                   *)

(* queue.rs bubble_up: while the entry at idx is not at the top and        *)
(* precedes its parent, the two change places and the loop goes on there.  *)
THEOREM BubbleUpIsItsLoop ==
    ASSUME NEW h \in Seq(Entry), NEW i \in DOMAIN h
    PROVE  BubbleUp(h, i) =
              IF i = 1 \/ ~ Before(h[i], h[i \div 2]) THEN h
              ELSE BubbleUp(Swap(h, i, i \div 2), i \div 2)
BY BubbleUpStops, BubbleUpTurns

LEMMA TheChildren ==
    \A i \in Nat \ {0}, c \in Nat : c \div 2 = i <=> c = 2 * i \/ c = 2 * i + 1
OBVIOUS

(* queue.rs bubble_down: `smallest` starts as idx, is the left child if    *)
(* that precedes it, then the right child if that precedes it; the loop    *)
(* ends when it is still idx, and otherwise swaps and goes on there.       *)
THEOREM BubbleDownIsItsLoop ==
    ASSUME NEW h \in Seq(Entry), Distinct(h), NEW i \in DOMAIN h
    PROVE  LET left  == 2 * i
               right == 2 * i + 1
               s1 == IF left <= Len(h) /\ Before(h[left], h[i]) THEN left ELSE i
               s2 == IF right <= Len(h) /\ Before(h[right], h[s1]) THEN right ELSE s1
           IN  BubbleDown(h, i) = IF s2 = i THEN h ELSE BubbleDown(Swap(h, i, s2), s2)
<1> DEFINE left  == 2 * i
           right == 2 * i + 1
           s1 == IF left <= Len(h) /\ Before(h[left], h[i]) THEN left ELSE i
           s2 == IF right <= Len(h) /\ Before(h[right], h[s1]) THEN right ELSE s1
<1>1. DOMAIN h = 1..Len(h) /\ Len(h) \in Nat /\ i \in 1..Len(h)
  BY LenProperties
<1>2. /\ left # i /\ right # i /\ left # right /\ left \div 2 = i /\ right \div 2 = i
      /\ left \in Nat /\ right \in Nat /\ left >= 1 /\ right >= 1
      /\ \A c \in DOMAIN h : c \div 2 = i => c = left \/ c = right
  <2>0. i \in Nat \ {0} /\ DOMAIN h \subseteq Nat
    BY <1>1
  <2>1. left \in Nat /\ right \in Nat /\ left >= 1 /\ right >= 1 /\ left # i /\ right # i /\ left # right
    BY <2>0
  <2>2. \A c \in Nat : c \div 2 = i <=> c = left \/ c = right
    BY <2>0, TheChildren
  <2> HIDE DEF left, right
  <2> QED BY <2>0, <2>1, <2>2
<1>3. /\ left \in DOMAIN h <=> left <= Len(h)
      /\ right \in DOMAIN h <=> right <= Len(h)
  BY <1>1
<1>4. h[i] \in Entry /\ \A c \in DOMAIN h : h[c] \in Entry
  BY EntryAt
<1> HIDE DEF left, right
<1>5. \A c \in DOMAIN h : c = left =>
         (Yields(h, h[i], c) <=>
            Before(h[left], h[i]) /\ ~ (right \in DOMAIN h /\ Before(h[right], h[left])))
  BY <1>2, <1>3 DEF Yields
<1>6. \A c \in DOMAIN h : c = right =>
         (Yields(h, h[i], c) <=>
            Before(h[right], h[i]) /\ ~ (left \in DOMAIN h /\ Before(h[left], h[right])))
  BY <1>2, <1>3 DEF Yields
<1>7. CASE s2 = i
  <2>1. ~ (left \in DOMAIN h /\ Before(h[left], h[i]))
    BY <1>2, <1>3, <1>7
  <2>2. ~ (right \in DOMAIN h /\ Before(h[right], h[i]))
    BY <1>2, <1>3, <1>7, <2>1
  <2>3. \A c \in DOMAIN h : c \div 2 = i => ~ Yields(h, h[i], c)
    BY <1>2, <1>5, <1>6, <2>1, <2>2
  <2> QED BY <1>7, <2>3, BubbleDownStops DEF left, right
<1>8. CASE s2 # i
  <2>1. s2 \in DOMAIN h /\ s2 \div 2 = i /\ Yields(h, h[i], s2)
    <3>1. CASE left \in DOMAIN h /\ Before(h[left], h[i])
      <4>1. s1 = left
        BY <1>3, <3>1
      <4>2. CASE right \in DOMAIN h /\ Before(h[right], h[left])
        <5>1. s2 = right
          BY <1>3, <4>1, <4>2
        <5>2. Before(h[right], h[i]) /\ ~ Before(h[left], h[right])
          BY <1>4, <3>1, <4>2, BeforeTransitive, BeforeAsymmetric
        <5> QED BY <1>2, <1>6, <4>2, <5>1, <5>2
      <4>3. CASE ~ (right \in DOMAIN h /\ Before(h[right], h[left]))
        <5>1. s2 = left
          BY <1>3, <4>1, <4>3
        <5> QED BY <1>2, <1>5, <3>1, <4>3, <5>1
      <4> QED BY <4>2, <4>3
    <3>2. CASE ~ (left \in DOMAIN h /\ Before(h[left], h[i]))
      <4>1. s1 = i
        BY <1>3, <3>2
      <4>2. right \in DOMAIN h /\ Before(h[right], h[i]) /\ s2 = right
        BY <1>3, <1>8, <4>1
      <4>3. ~ (left \in DOMAIN h /\ Before(h[left], h[right]))
        BY <1>4, <3>2, <4>2, BeforeTransitive
      <4> QED BY <1>2, <1>6, <4>2, <4>3
    <3> QED BY <3>1, <3>2
  <2>2. BubbleDown(h, i) = BubbleDown(Swap(h, i, s2), s2)
    BY <2>1, BubbleDownTurns
  <2> QED BY <1>8, <2>2 DEF left, right
<1> QED BY <1>7, <1>8

-------------------------------------------------------------------------------
(* The methods on the whole record: the vector stays a heap, its entries   *)
(* are the ones the method is to leave, and their seqs are in the past.    *)
SoundHeap(q) == HeapOk(q.heap) /\ \A e \in EntriesOf(q.heap) : e.seq < q.seq

LEMMA EmptyQueueSound == SoundHeap(EmptyQueue) /\ EntriesOf(EmptyQueue.heap) = {}
<1>1. EmptyQueue.heap = <<>>
  BY DEF EmptyQueue
<1>2. <<>> \in Seq(Entry) /\ DOMAIN <<>> = {}
  OBVIOUS
<1> QED BY <1>1, <1>2 DEF SoundHeap, HeapOk, Heaped, Distinct, EntriesOf

LEMMA EnqueuedSound ==
    ASSUME NEW q \in Queue, SoundHeap(q), NEW id \in TaskId, NEW p \in Priority, NEW r \in Nat,
           NEW e, e = [id |-> id, prio |-> p, seq |-> q.seq, retries |-> r]
    PROVE  /\ SoundHeap(Enqueued(q, id, p, r))
           /\ EntriesOf(Enqueued(q, id, p, r).heap) = EntriesOf(q.heap) \cup {e}
           /\ Enqueued(q, id, p, r).seq = q.seq + 1
           /\ e \notin EntriesOf(q.heap)
           /\ e \in Entry
<1> DEFINE g == BubbleUp(Append(q.heap, e), Len(q.heap) + 1)
<1>1. q.heap \in Seq(Entry) /\ q.seq \in Nat
  BY DEF Queue
<1>2. e \in Entry /\ e.seq = q.seq
  BY <1>1 DEF Entry
<1>3. Enqueued(q, id, p, r).heap = g /\ Enqueued(q, id, p, r).seq = q.seq + 1
  BY DEF Enqueued, Queue
<1>4. HeapOk(g) /\ EntriesOf(g) = EntriesOf(q.heap) \cup {e}
  BY <1>1, <1>2, EnqueuedHeap DEF SoundHeap
<1>5. \A f \in EntriesOf(q.heap) : f \in Entry
  BY <1>1, EntryAt DEF EntriesOf
<1>6. \A f \in EntriesOf(q.heap) : f.seq \in Nat /\ f.seq < q.seq
  BY <1>5, EntryFields DEF SoundHeap
<1>7. e \notin EntriesOf(q.heap)
  BY <1>1, <1>2, <1>6
<1> HIDE DEF g
<1>8. \A f \in EntriesOf(g) : f.seq < q.seq + 1
  BY <1>1, <1>2, <1>4, <1>6
<1> QED BY <1>2, <1>3, <1>4, <1>7, <1>8 DEF SoundHeap

LEMMA DequeuedSound ==
    ASSUME NEW q \in Queue, SoundHeap(q), q.heap # <<>>
    PROVE  /\ SoundHeap(Dequeued(q))
           /\ EntriesOf(Dequeued(q).heap) = EntriesOf(q.heap) \ {Top(q)}
           /\ Dequeued(q).seq = q.seq
           /\ Top(q) \in EntriesOf(q.heap)
           /\ \A e \in EntriesOf(q.heap) : ~ Before(e, Top(q))
<1> DEFINE rest == DropLast(Swap(q.heap, 1, Len(q.heap)))
           g == IF rest = <<>> THEN rest ELSE BubbleDown(rest, 1)
<1>1. q.heap \in Seq(Entry) /\ HeapOk(q.heap)
  BY DEF Queue, SoundHeap
<1>2. HeapOk(g) /\ EntriesOf(g) = EntriesOf(q.heap) \ {q.heap[1]}
  BY <1>1, DequeuedHeap
<1>3. Dequeued(q).heap = g /\ Dequeued(q).seq = q.seq
  BY DEF Dequeued, Queue
<1> HIDE DEF g
<1>4. 1 \in DOMAIN q.heap
  BY <1>1, LenProperties, EmptySeq
<1>5. \A i \in DOMAIN q.heap : ~ Before(q.heap[i], q.heap[1])
  BY <1>1, TopIsFirst DEF HeapOk
<1> QED BY <1>2, <1>3, <1>4, <1>5 DEF SoundHeap, Top, EntriesOf

LEMMA CancelledSound ==
    ASSUME NEW q \in Queue, SoundHeap(q), NEW id \in TaskId, id \in Indexed(q)
    PROVE  /\ SoundHeap(Cancelled(q, id))
           /\ Cancelled(q, id).seq = q.seq
           /\ CancelPanics(q, id) => Cancelled(q, id).heap = q.heap
           /\ ~ CancelPanics(q, id) =>
                 /\ q.byId[id] \in DOMAIN q.heap
                 /\ EntriesOf(Cancelled(q, id).heap) = EntriesOf(q.heap) \ {q.heap[q.byId[id]]}
<1> DEFINE idx == q.byId[id]
           rest == DropLast(Swap(q.heap, idx, Len(q.heap)))
           g == IF idx <= Len(rest) THEN BubbleDown(BubbleUp(rest, idx), idx) ELSE rest
<1>1. q.heap \in Seq(Entry) /\ HeapOk(q.heap) /\ idx \in Nat \ {0}
  BY DEF Queue, SoundHeap, Indexed
<1>2. CASE CancelPanics(q, id)
  <2>1. Cancelled(q, id).heap = q.heap /\ Cancelled(q, id).seq = q.seq
    BY <1>2 DEF Cancelled, Queue
  <2> QED BY <1>2, <2>1 DEF SoundHeap
<1>3. CASE ~ CancelPanics(q, id)
  <2>1. idx \in DOMAIN q.heap
    BY <1>1, <1>3, LenProperties DEF CancelPanics
  <2>2. Cancelled(q, id).heap = g /\ Cancelled(q, id).seq = q.seq
    BY <1>3 DEF Cancelled, Queue
  <2>3. HeapOk(g) /\ EntriesOf(g) = EntriesOf(q.heap) \ {q.heap[idx]}
    BY <1>1, <2>1, CancelledHeap
  <2> HIDE DEF g
  <2> QED BY <1>3, <2>1, <2>2, <2>3 DEF SoundHeap
<1> QED BY <1>2, <1>3
===============================================================================
