---------------------------- MODULE ClusterProofs ----------------------------
(***************************************************************************)
(* For any number of workers, collectors and tasks, and whatever Redis and *)
(* the workers do: a task is worked on at most once and no result leaves   *)
(* its stream but in the hands of a collector.  For any time to live: a    *)
(* worker stays alive from a heartbeat until the next one is overdue, and  *)
(* one that is gone is noticed within it.  Then the structures that        *)
(* schedule: whatever is pushed, submitted, stolen or planned, the heap    *)
(* yields a greatest item, a job runs at most once, and the plan has no    *)
(* cycle, so that its sort and its critical path are what they should be.  *)
(***************************************************************************)
EXTENDS ClusterQueue, ClusterMembership, TaskScheduling,
        SequenceTheorems, FiniteSetTheorems, WellFoundedInduction, TLAPS

(* A task in somebody's hands, or answered, has left the stream.           *)
HandsDelivered ==
    /\ delivered \in Nat
    /\ worker \in [Workers -> [pc : {"wait", "ack", "process"}, task : Nat]]
    /\ results \in Seq(Nat)
    /\ \A w \in Workers : worker[w].pc = "wait" => worker[w] = Waiting
    /\ \A w \in Workers : worker[w].task <= delivered /\ (Busy(w) => worker[w].task >= 1)
    /\ \A i \in DOMAIN results : results[i] <= delivered

WorkInv == HandsDelivered /\ WorkedOnce

LEMMA InitWorkInv == Init => WorkInv
BY DEF Init, WorkInv, HandsDelivered, WorkedOnce, Busy, Waiting, Answered

LEMMA StepKeepsWorkInv == WorkInv /\ [Next]_vars => WorkInv'
<1> SUFFICES ASSUME WorkInv, [Next]_vars PROVE WorkInv'
  OBVIOUS
<1> USE DEF WorkInv, HandsDelivered, WorkedOnce, Busy, Waiting, Answered
<1>1. ASSUME NEW w \in Workers, Deliver(w) PROVE WorkInv'
  <2>1. CASE UNCHANGED worker
    BY <1>1, <2>1 DEF Deliver, resultVars
  <2>2. CASE worker' = [worker EXCEPT ![w] = [pc |-> "ack", task |-> delivered + 1]]
    <3>1. delivered' = delivered + 1 /\ UNCHANGED results
      BY <1>1 DEF Deliver, resultVars
    <3>2. /\ Busy(w)' /\ worker'[w].task = delivered + 1
          /\ \A v \in Workers \ {w} : worker'[v] = worker[v]
      BY <2>2
    <3>3. delivered + 1 \notin Answered /\ \A v \in Workers : worker[v].task # delivered + 1
      BY LenProperties
    <3>4. HandsDelivered'
      BY <2>2, <3>1, <3>2
    <3>5. WorkedOnce'
      <4>1. Answered' = Answered
        BY <3>1
      <4>2. ASSUME NEW v \in Workers, Busy(v)'
            PROVE  /\ worker'[v].task \notin Answered
                   /\ \A u \in Workers \ {v} : worker'[u].task # worker'[v].task
        <5>1. CASE v = w
          BY <5>1, <3>2, <3>3
        <5>2. CASE v # w
          BY <5>2, <4>2, <3>2, <3>3
        <5> QED BY <5>1, <5>2
      <4> QED BY <4>1, <4>2, <3>1
    <3> QED BY <3>4, <3>5
  <2> QED BY <1>1, <2>1, <2>2 DEF Deliver
<1>2. ASSUME NEW w \in Workers, Acknowledge(w) PROVE WorkInv'
  BY <1>2 DEF Acknowledge, Acknowledged, resultVars
<1>3. ASSUME NEW w \in Workers, Publish(w) PROVE WorkInv'
  <2>1. worker' = [worker EXCEPT ![w] = Waiting] /\ delivered' = delivered
    BY <1>3 DEF Publish
  <2>2. CASE UNCHANGED resultVars
    BY <2>1, <2>2 DEF resultVars
  <2>3. CASE results' = Append(results, worker[w].task)
    <3>1. Busy(w) /\ worker[w].task \in Nat
      BY <1>3 DEF Publish
    <3>2. /\ results' \in Seq(Nat)
          /\ DOMAIN results = 1..Len(results) /\ Len(results) \in Nat
          /\ DOMAIN results' = 1..(Len(results) + 1)
          /\ \A i \in 1..Len(results) : results'[i] = results[i]
          /\ results'[Len(results) + 1] = worker[w].task
      BY <2>3, <3>1, AppendProperties, LenProperties
    <3>3. worker[w].task \notin {results[i] : i \in DOMAIN results}
      BY <3>1
    <3>4. \A v \in Workers : Busy(v)' => v # w /\ Busy(v) /\ worker'[v] = worker[v]
      BY <2>1
    <3>5. \A i, j \in DOMAIN results' : results'[i] = results'[j] => i = j
      BY <3>2, <3>3
    <3>6. \A i \in DOMAIN results' : results'[i] = worker[w].task \/ (i \in DOMAIN results /\ results'[i] = results[i])
      BY <3>2
    <3>7. \A v \in Workers : Busy(v)' =>
             /\ worker'[v].task \notin Answered'
             /\ \A u \in Workers \ {v} : worker'[u].task # worker'[v].task
      <4> SUFFICES ASSUME NEW v \in Workers, Busy(v)'
                   PROVE  /\ \A i \in DOMAIN results' : results'[i] # worker'[v].task
                          /\ \A u \in Workers \ {v} : worker'[u].task # worker'[v].task
        OBVIOUS
      <4>1. v # w /\ Busy(v) /\ worker'[v] = worker[v]
        BY <3>4
      <4>2. worker[v].task # worker[w].task /\ worker[v].task >= 1 /\ worker[v].task \in Nat
        BY <4>1, <3>1
      <4>3. \A i \in DOMAIN results' : results'[i] # worker'[v].task
        BY <4>1, <4>2, <3>6
      <4>4. \A u \in Workers \ {v} : worker'[u].task # worker'[v].task
        BY <2>1, <4>1, <4>2
      <4> QED BY <4>3, <4>4
    <3>8. HandsDelivered'
      <4>1. \A i \in DOMAIN results' : results'[i] <= delivered
        BY <3>1, <3>6
      <4> QED BY <2>1, <3>2, <4>1
    <3> QED BY <3>5, <3>7, <3>8
  <2> QED BY <1>3, <2>2, <2>3 DEF Publish, AnsweredTask
<1>4. ASSUME NEW w \in Workers, Crash(w) PROVE WorkInv'
  BY <1>4 DEF Crash, resultVars
<1>5. CASE UNCHANGED <<delivered, worker, results>>
  BY <1>5
<1> QED
  BY <1>1, <1>2, <1>3, <1>4, <1>5
  DEF Next, Enqueue, WorkerNext, CollectorNext, ReadResults, DeleteResult, ReturnResults,
      DropCollector, vars, taskVars, resultVars

(* No task has two workers or two results (task.rs dequeue), whatever      *)
(* replies are lost and whichever workers crash.                           *)
THEOREM QueueWorkedOnce == Spec => []WorkedOnce
<1>1. WorkInv => WorkedOnce
  BY DEF WorkInv
<1> QED BY <1>1, InitWorkInv, StepKeepsWorkInv, PTL DEF Spec

-------------------------------------------------------------------------------
(* A collector is always a record of the same two fields.                  *)
CollectorsTyped ==
    /\ results \in Seq(Nat)
    /\ DOMAIN collector = Collectors
    /\ \A c \in Collectors : DOMAIN collector[c] = {"todo", "got"}

CollectInv == WorkInv /\ CollectorsTyped /\ NoResultDropped

LEMMA InitCollectInv == Init => CollectInv
BY InitWorkInv DEF Init, CollectInv, CollectorsTyped, NoResultDropped, Lost, Resting

(* Nobody but a collector removes a result or forgets one it has read.     *)
LEMMA OthersKeepResults ==
    ASSUME CollectInv, WorkInv', [Next]_vars,
           UNCHANGED collectVars,
           UNCHANGED resultVars \/ \E w \in Workers : Publish(w)
    PROVE  CollectInv'
<1>1. CASE UNCHANGED resultVars
  BY <1>1 DEF CollectInv, CollectorsTyped, NoResultDropped, Lost, resultVars, collectVars
<1>2. ASSUME NEW w \in Workers, Publish(w), ~ UNCHANGED resultVars PROVE CollectInv'
  <2>1. /\ results' = Append(results, worker[w].task)
        /\ present' = present \cup {Len(results) + 1}
    BY <1>2 DEF Publish, AnsweredTask
  <2>2. /\ results \in Seq(Nat) /\ worker[w].task \in Nat /\ results' \in Seq(Nat)
        /\ DOMAIN results = 1..Len(results) /\ DOMAIN results' = 1..(Len(results) + 1)
        /\ Len(results) \in Nat
    BY <2>1, AppendProperties, LenProperties DEF CollectInv, CollectorsTyped, WorkInv, HandsDelivered
  <2>3. DOMAIN results' \ present' \subseteq DOMAIN results \ present
    BY <2>1, <2>2
  <2> QED BY <2>2, <2>3 DEF CollectInv, CollectorsTyped, NoResultDropped, Lost, collectVars
<1> QED BY <1>1, <1>2

LEMMA StepKeepsCollectInv == CollectInv /\ [Next]_vars => CollectInv'
<1> SUFFICES ASSUME CollectInv, [Next]_vars PROVE CollectInv'
  OBVIOUS
<1>0. WorkInv'
  BY StepKeepsWorkInv DEF CollectInv
<1>1. ASSUME NEW c \in Collectors, ReadResults(c) PROVE CollectInv'
  <2>1. \A d \in Collectors : collector'[d].got = collector[d].got
    BY <1>1 DEF ReadResults, CollectInv, CollectorsTyped
  <2>2. CollectorsTyped' /\ results' = results /\ present' = present /\ handed' = handed /\ dropped' = dropped
    BY <1>1 DEF ReadResults, CollectInv, CollectorsTyped, resultVars
  <2> QED BY <1>0, <2>1, <2>2 DEF CollectInv, NoResultDropped, Lost
<1>2. ASSUME NEW c \in Collectors, DeleteResult(c) PROVE CollectInv'
  <2> DEFINE i == collector[c].todo[1]
  <2>1. /\ \A d \in Collectors : collector[d].got \subseteq collector'[d].got
        /\ i \in collector'[c].got
    BY <1>2 DEF DeleteResult, Pushed, CollectInv, CollectorsTyped
  <2>2. CollectorsTyped' /\ results' = results /\ handed' = handed /\ dropped' = dropped
        /\ present \ {i} \subseteq present'
    BY <1>2 DEF DeleteResult, Pushed, CollectInv, CollectorsTyped, resultVars
  <2> QED BY <1>0, <2>1, <2>2 DEF CollectInv, NoResultDropped, Lost
<1>3. ASSUME NEW c \in Collectors, ReturnResults(c) PROVE CollectInv'
  <2>1. /\ handed' = handed \cup collector[c].got
        /\ \A d \in Collectors \ {c} : collector'[d] = collector[d]
    BY <1>3 DEF ReturnResults, CollectInv, CollectorsTyped
  <2>2. CollectorsTyped' /\ results' = results /\ present' = present /\ dropped' = dropped
    BY <1>3 DEF ReturnResults, Resting, CollectInv, CollectorsTyped, resultVars
  <2> QED BY <1>0, <2>1, <2>2 DEF CollectInv, NoResultDropped, Lost
<1>4. ASSUME NEW w \in Workers, WorkerNext(w) PROVE CollectInv'
  BY <1>0, <1>4, OthersKeepResults DEF WorkerNext, Deliver, Acknowledge, Publish
<1>5. ASSUME Enqueue \/ UNCHANGED vars \/ \E w \in Workers : Crash(w) PROVE CollectInv'
  BY <1>0, <1>5, OthersKeepResults DEF Enqueue, Crash, vars
<1>6. ASSUME NEW c \in Collectors, DropCollector(c) PROVE CollectInv'
  <2>1. /\ dropped' = dropped \cup collector[c].got
        /\ \A d \in Collectors \ {c} : collector'[d] = collector[d]
    BY <1>6 DEF DropCollector, CollectInv, CollectorsTyped
  <2>2. CollectorsTyped' /\ results' = results /\ present' = present /\ handed' = handed
    BY <1>6 DEF DropCollector, Resting, CollectInv, CollectorsTyped, resultVars
  <2> QED BY <1>0, <2>1, <2>2 DEF CollectInv, NoResultDropped, Lost
<1> QED BY <1>1, <1>2, <1>3, <1>4, <1>5, <1>6 DEF Next, CollectorNext

(* Whatever fails, whoever crashes, is dropped, and however many           *)
(* collectors there are, a result that is gone from its stream is in the   *)
(* hands of a collector, was returned by one, or was lost with one that    *)
(* was dropped (task.rs collect_results).                                  *)
THEOREM QueueNoResultDropped == Spec => []NoResultDropped
<1>1. CollectInv => NoResultDropped
  BY DEF CollectInv
<1> QED BY <1>1, InitCollectInv, StepKeepsCollectInv, PTL DEF Spec

-----------------------------------------------------------------------------
(* Membership.                                                             *)
Typed ==
    /\ nodeKey \in [ClusterNode -> Nat]
    /\ beatKey \in [ClusterNode -> Nat]
    /\ proc \in [ClusterNode -> [pc : Pcs, timer : Nat]]
    /\ beaten \subseteq ClusterNode

(* No timer passes its deadline.                                           *)
OnTime(n) == proc[n].pc # "off" => proc[n].timer <= Deadline(proc[n].pc)

(* What is left of the heartbeat key while the worker sleeps and while its *)
(* next heartbeat waits.                                                   *)
BeatFresh(n) ==
    \/ proc[n].pc = "down"
    \/ proc[n].pc = "sleep" /\ beatKey[n] + proc[n].timer >= HbSecs
    \/ proc[n].pc = "beat" /\ beatKey[n] + proc[n].timer + SleepSecs >= HbSecs

(* What may be left of the keys once the worker is gone.                   *)
KeysAge(n) ==
    /\ nodeKey[n] <= HbSecs /\ beatKey[n] <= HbSecs
    /\ proc[n].pc = "down" =>
          /\ beatKey[n] = 0 \/ beatKey[n] + proc[n].timer <= HbSecs
          /\ nodeKey[n] = 0 \/ nodeKey[n] + proc[n].timer <= HbSecs

AgeInv ==
    /\ Typed
    /\ \A n \in ClusterNode : OnTime(n) /\ KeysAge(n)
    /\ \A n \in beaten : BeatFresh(n)

LEMMA InitAgeInv == MembershipInit => AgeInv
BY MembershipAssumption
DEF MembershipInit, AgeInv, Typed, Pcs, OnTime, KeysAge, BeatFresh

LEMMA StepKeepsAgeInv == AgeInv /\ [MembershipNext]_membershipVars => AgeInv'
<1> SUFFICES ASSUME AgeInv, [MembershipNext]_membershipVars PROVE AgeInv'
  OBVIOUS
<1> USE MembershipAssumption DEF AgeInv, Typed, Pcs, Goto, KeySecs
<1>0. SleepSecs \in Nat /\ SleepSecs <= HbSecs
  BY DEF SleepSecs
<1>1. ASSUME NEW n \in ClusterNode, NodeNext(n) PROVE AgeInv'
  <2>1. /\ \A m \in ClusterNode \ {n} : /\ proc'[m] = proc[m]
                                 /\ nodeKey'[m] = nodeKey[m]
                                 /\ beatKey'[m] = beatKey[m]
        /\ beaten \ {n} \subseteq beaten' /\ beaten' \subseteq beaten \cup {n}
    BY <1>1 DEF NodeNext, Start, SetInfo, Join, SleepOver, Heartbeat, NodeCrash
  <2>2. Typed'
    BY <1>1 DEF NodeNext, Start, SetInfo, Join, SleepOver, Heartbeat, NodeCrash
  <2>3. OnTime(n)'
    BY <1>0, <1>1 DEF NodeNext, Start, SetInfo, Join, SleepOver, Heartbeat, NodeCrash, OnTime, Deadline
  <2>4. KeysAge(n)'
    BY <1>0, <1>1 DEF NodeNext, Start, SetInfo, Join, SleepOver, Heartbeat, NodeCrash, KeysAge
  <2>5. n \in beaten' => BeatFresh(n)'
    BY <1>0, <1>1 DEF NodeNext, Start, SetInfo, Join, SleepOver, Heartbeat, NodeCrash, BeatFresh
  <2>6. \A m \in ClusterNode \ {n} : OnTime(m)' /\ KeysAge(m)'
    BY <2>1 DEF OnTime, Deadline, KeysAge
  <2>7. \A m \in beaten \ {n} : BeatFresh(m)'
    BY <2>1 DEF BeatFresh
  <2> QED BY <2>1, <2>2, <2>3, <2>4, <2>5, <2>6, <2>7
<1>2. CASE Tick
  <2>1. Typed' /\ beaten' = beaten
    BY <1>2 DEF Tick, SecondLess
  <2>2. ASSUME NEW n \in ClusterNode PROVE OnTime(n)' /\ KeysAge(n)'
    <3>1. Deadline(proc[n].pc) \in Nat /\ proc[n].timer \in Nat
      BY <1>0 DEF Deadline
    <3>2. /\ proc'[n].pc = proc[n].pc
          /\ proc[n].pc # "off" =>
                IF proc[n].timer = Deadline(proc[n].pc) THEN proc'[n].timer = proc[n].timer
                ELSE proc'[n].timer = proc[n].timer + 1
      BY <1>2 DEF Tick
    <3>3. OnTime(n) /\ KeysAge(n) /\ nodeKey[n] \in Nat /\ beatKey[n] \in Nat
      OBVIOUS
    <3>4. OnTime(n)'
      BY <3>1, <3>2, <3>3 DEF OnTime, Deadline
    <3>5. /\ nodeKey'[n] = (IF nodeKey[n] = 0 THEN 0 ELSE nodeKey[n] - 1)
          /\ beatKey'[n] = (IF beatKey[n] = 0 THEN 0 ELSE beatKey[n] - 1)
      BY <1>2 DEF Tick, SecondLess
    <3>6. KeysAge(n)'
      BY <3>1, <3>2, <3>3, <3>5 DEF KeysAge
    <3> QED BY <3>4, <3>6
  <2>3. ASSUME NEW n \in beaten PROVE BeatFresh(n)'
    BY <1>0, <1>2, <2>3 DEF Tick, Due, SecondLess, OnTime, Deadline, BeatFresh
  <2> QED BY <2>1, <2>2, <2>3
<1>3. CASE UNCHANGED membershipVars
  <2>1. nodeKey' = nodeKey /\ beatKey' = beatKey /\ proc' = proc /\ beaten' = beaten
    BY <1>3 DEF membershipVars
  <2>2. \A n \in ClusterNode : OnTime(n)' /\ KeysAge(n)'
    BY <2>1 DEF OnTime, Deadline, KeysAge
  <2>3. \A n \in beaten : BeatFresh(n)'
    BY <2>1 DEF BeatFresh
  <2> QED BY <2>1, <2>2, <2>3
<1> QED BY <1>1, <1>2, <1>3 DEF MembershipNext

(* However long commands wait and whatever heartbeat fails, a worker whose *)
(* latest heartbeat was stored is alive until the next one is overdue      *)
(* (node.rs heartbeat, worker main.rs).                                    *)
THEOREM MembershipStaysAlive == MembershipSpec => []StaysAlive
<1>1. ASSUME AgeInv, NEW n \in beaten, proc[n].pc # "down", ~ Overdue(n) PROVE IsAlive(n)
  <2>1. /\ beatKey[n] \in Nat /\ proc[n].timer \in Nat /\ SleepSecs \in Nat /\ SleepSecs < HbSecs
        /\ OnTime(n) /\ BeatFresh(n)
    BY <1>1, MembershipAssumption DEF AgeInv, Typed, SleepSecs
  <2> QED BY <1>1, <2>1, MembershipAssumption DEF OnTime, Deadline, BeatFresh, Overdue, IsAlive
<1>2. AgeInv => StaysAlive
  BY <1>1 DEF StaysAlive
<1> QED BY <1>2, InitAgeInv, StepKeepsAgeInv, PTL DEF MembershipSpec

(* Whatever its delays, a worker that is gone for its time to live is      *)
(* neither alive nor listed (node.rs is_alive, get_node).                  *)
THEOREM MembershipGoneIsNoticed == MembershipSpec => []GoneIsNoticed
<1>1. AgeInv => GoneIsNoticed
  BY MembershipAssumption DEF AgeInv, Typed, KeysAge, GoneIsNoticed, IsAlive, GetNode
<1> QED BY <1>1, InitAgeInv, StepKeepsAgeInv, PTL DEF MembershipSpec

-----------------------------------------------------------------------------
LEMMA LeastOf ==
    ASSUME NEW T \in SUBSET Nat, T # {}
    PROVE  \E x \in T : \A y \in T : x <= y
<1> DEFINE R == {p \in Nat \X Nat : p[1] < p[2]}
<1>1. IsWellFoundedOn(R, Nat)
    BY NatLessThanWellFounded DEF OpToRel
<1>2. \A x, y \in Nat : y < x => <<y, x>> \in R
    OBVIOUS
<1> HIDE DEF R
<1>3. PICK x \in T : \A y \in T : ~ (<<y, x>> \in R)
    BY <1>1, WFMin
<1>4. \A y \in T : ~ (y < x)
    BY <1>2, <1>3, Zenon
<1> QED BY <1>4

LEMMA SeqFacts ==
    ASSUME NEW S, NEW s \in Seq(S)
    PROVE  /\ Len(s) \in Nat /\ DOMAIN s = 1..Len(s) /\ s \in [1..Len(s) -> S]
           /\ s = <<>> <=> Len(s) = 0
           /\ \A i \in DOMAIN s : s[i] \in S
BY LenProperties, EmptySeq

LEMMA AppendFacts ==
    ASSUME NEW S, NEW s \in Seq(S), NEW e \in S
    PROVE  /\ Append(s, e) \in Seq(S) /\ Len(Append(s, e)) = Len(s) + 1
           /\ DOMAIN Append(s, e) = 1..(Len(s) + 1)
           /\ \A i \in 1..Len(s) : Append(s, e)[i] = s[i]
           /\ Append(s, e)[Len(s) + 1] = e
<1>1. /\ Append(s, e) \in Seq(S) /\ Len(Append(s, e)) = Len(s) + 1 /\ Append(s, e)[Len(s) + 1] = e
      /\ \A i \in 1..Len(s) : Append(s, e)[i] = s[i]
    BY AppendProperties
<1>2. DOMAIN Append(s, e) = 1..(Len(s) + 1)
    BY <1>1, LenProperties
<1> QED BY <1>1, <1>2

LEMMA FrontFacts ==
    ASSUME NEW S, NEW s \in Seq(S), s # <<>>
    PROVE  /\ Front(s) \in Seq(S) /\ Len(Front(s)) = Len(s) - 1 /\ Len(s) \in Nat \ {0}
           /\ DOMAIN Front(s) = 1..(Len(s) - 1)
           /\ \A i \in 1..(Len(s) - 1) : Front(s)[i] = s[i]
           /\ Last(s) = s[Len(s)] /\ Last(s) \in S
<1> DEFINE n == Len(s)
           f == Front(s)
<1>1. n \in Nat /\ n # 0 /\ \A i \in 1..n : s[i] \in S
    BY SeqFacts
<1>2. /\ f \in Seq(S) /\ Len(f) = (IF 1 <= n - 1 THEN n - 1 - 1 + 1 ELSE 0)
      /\ \A i \in 1..(n - 1 - 1 + 1) : f[i] = s[1 + i - 1]
    <2>1. \A i \in 1..(n - 1) : s[i] \in S
        BY <1>1
    <2>2. n - 1 \in Int /\ 1 \in Int
        BY <1>1
    <2> HIDE DEF n
    <2> QED BY <2>1, <2>2, SubSeqProperties DEF Front, n
<1> HIDE DEF n, f
<1>3. Len(f) = n - 1
    BY <1>1, <1>2
<1>4. \A i \in 1..(n - 1) : f[i] = s[i]
    <2> TAKE i \in 1..(n - 1)
    <2>1. i \in 1..(n - 1 - 1 + 1) /\ 1 + i - 1 = i
        BY <1>1
    <2> QED BY <1>2, <2>1
<1>5. DOMAIN f = 1..(n - 1)
    BY <1>2, <1>3, LenProperties
<1>6. Last(s) = s[n] /\ s[n] \in S
    BY <1>1 DEF Last, n
<1> QED BY <1>1, <1>2, <1>3, <1>4, <1>5, <1>6 DEF n, f

LEMMA TailFacts ==
    ASSUME NEW S, NEW s \in Seq(S), s # <<>>
    PROVE  /\ Tail(s) \in Seq(S) /\ Len(Tail(s)) = Len(s) - 1 /\ Len(s) \in Nat \ {0}
           /\ DOMAIN Tail(s) = 1..(Len(s) - 1)
           /\ \A i \in 1..(Len(s) - 1) : Tail(s)[i] = s[i + 1]
           /\ Head(s) = s[1] /\ Head(s) \in S
<1>1. /\ Tail(s) \in Seq(S) /\ Len(Tail(s)) = Len(s) - 1 /\ Head(s) \in S
      /\ \A i \in 1..Len(Tail(s)) : Tail(s)[i] = s[i + 1]
    BY HeadTailProperties
<1>2. DOMAIN Tail(s) = 1..(Len(s) - 1) /\ Len(s) \in Nat \ {0}
    BY <1>1, LenProperties, EmptySeq
<1>3. Head(s) = s[1]
    BY HeadTailProperties
<1> QED BY <1>1, <1>2, <1>3
-----------------------------------------------------------------------------
(* The work-stealing scheduler.  The jobs of A are spread over the places: *)
(* each is in one of them, once.                                           *)
Spread(J, D, A) ==
    /\ J \in [D -> Seq(Nat)]
    /\ \A v, w \in D : \A i \in DOMAIN J[v], j \in DOMAIN J[w] : J[v][i] = J[w][j] => v = w /\ i = j
    /\ \A x : x \in A <=> \E w \in D : \E i \in DOMAIN J[w] : J[w][i] = x

LEMMA JobAdded ==
    ASSUME NEW J, NEW D, NEW A, Spread(J, D, A), NEW p \in D, NEW x \in Nat, x \notin A,
           NEW K, K = [J EXCEPT ![p] = Append(J[p], x)]
    PROVE  Spread(K, D, A \cup {x})
<1> DEFINE n == Len(J[p])
<1>1. J \in [D -> Seq(Nat)] /\ \A w \in D : J[w] \in Seq(Nat)
    BY DEF Spread
<1>2. /\ n \in Nat /\ DOMAIN J[p] = 1..n /\ Append(J[p], x) \in Seq(Nat)
      /\ DOMAIN Append(J[p], x) = 1..(n + 1) /\ Append(J[p], x)[n + 1] = x
      /\ \A i \in 1..n : Append(J[p], x)[i] = J[p][i]
    BY <1>1, SeqFacts, AppendFacts
<1>3. K \in [D -> Seq(Nat)] /\ K[p] = Append(J[p], x) /\ \A w \in D : w # p => K[w] = J[w]
    BY <1>1, <1>2
<1> HIDE DEF n
<1>4. \A i : i \in 1..(n + 1) <=> i \in 1..n \/ i = n + 1
    BY <1>2
<1>5. ~ (n + 1 \in 1..n)
    BY <1>2
<1>6. \A w \in D : \A i \in DOMAIN K[w] :
          \/ i \in DOMAIN J[w] /\ K[w][i] = J[w][i]
          \/ w = p /\ i = n + 1 /\ K[w][i] = x
    BY <1>2, <1>3, <1>4
<1>7. \A w \in D : \A i \in DOMAIN J[w] : i \in DOMAIN K[w] /\ K[w][i] = J[w][i]
    BY <1>2, <1>3, <1>4
<1>8. p \in D /\ n + 1 \in DOMAIN K[p] /\ K[p][n + 1] = x
    BY <1>2, <1>3, <1>4
<1>9. \A w \in D : \A i \in DOMAIN J[w] : J[w][i] # x
    BY DEF Spread
<1>10. ASSUME NEW v \in D, NEW w \in D, NEW i \in DOMAIN K[v], NEW j \in DOMAIN K[w], K[v][i] = K[w][j]
       PROVE  v = w /\ i = j
    BY <1>6, <1>9, <1>10 DEF Spread
<1>11. ASSUME NEW y
       PROVE  y \in A \cup {x} <=> \E w \in D : \E i \in DOMAIN K[w] : K[w][i] = y
    <2>1. y \in A <=> \E w \in D : \E i \in DOMAIN J[w] : J[w][i] = y
        BY DEF Spread
    <2>2. (\E w \in D : \E i \in DOMAIN K[w] : K[w][i] = y) => y \in A \cup {x}
        BY <1>6, <2>1
    <2>3. y \in A \cup {x} => \E w \in D : \E i \in DOMAIN K[w] : K[w][i] = y
        BY <1>7, <1>8, <2>1
    <2> QED BY <2>2, <2>3
<1> QED BY <1>3, <1>10, <1>11 DEF Spread

(* What is left of a queue when its first or its last job is taken.        *)
Without(rest, s, k) ==
    /\ rest \in Seq(Nat) /\ k \in DOMAIN s /\ DOMAIN rest = 1..(Len(s) - 1)
    /\ \/ k = 1 /\ \A i \in DOMAIN rest : rest[i] = s[i + 1]
       \/ k = Len(s) /\ \A i \in DOMAIN rest : rest[i] = s[i]

LEMMA JobTaken ==
    ASSUME NEW J, NEW D, NEW A, Spread(J, D, A), NEW p \in D, NEW rest, NEW k, Without(rest, J[p], k),
           NEW K, K = [J EXCEPT ![p] = rest]
    PROVE  Spread(K, D, A \ {J[p][k]})
<1> DEFINE n == Len(J[p])
           x == J[p][k]
<1>0. PICK shift \in {0, 1} : /\ (shift = 1 /\ k = 1) \/ (shift = 0 /\ k = n)
                              /\ \A i \in DOMAIN rest : rest[i] = J[p][i + shift]
    <2>1. CASE k = 1 /\ \A i \in DOMAIN rest : rest[i] = J[p][i + 1]
        BY <2>1
    <2>2. CASE k = n /\ \A i \in DOMAIN rest : rest[i] = J[p][i]
        <3>1. \A i \in DOMAIN rest : i + 0 = i
            BY DEF Without
        <3> QED BY <2>2, <3>1
    <2> QED BY <2>1, <2>2 DEF Without
<1>1. /\ J \in [D -> Seq(Nat)] /\ n \in Nat /\ DOMAIN J[p] = 1..n /\ k \in 1..n
      /\ rest \in Seq(Nat) /\ DOMAIN rest = 1..(n - 1)
    BY SeqFacts DEF Spread, Without
<1>2. K \in [D -> Seq(Nat)] /\ K[p] = rest /\ \A w \in D : w # p => K[w] = J[w]
    BY <1>1
<1> HIDE DEF n, x
<1>3. /\ \A i \in DOMAIN rest : i + shift \in 1..n /\ i + shift # k
      /\ \A i \in 1..n : i # k => i - shift \in DOMAIN rest /\ (i - shift) + shift = i
      /\ \A i, j \in DOMAIN rest : i + shift = j + shift => i = j
    BY <1>0, <1>1
<1> DEFINE from(w, i) == IF w = p THEN i + shift ELSE i
           to(w, i) == IF w = p THEN i - shift ELSE i
<1>4. \A w \in D : \A i \in DOMAIN K[w] : /\ from(w, i) \in DOMAIN J[w] /\ K[w][i] = J[w][from(w, i)]
                                          /\ ~ (w = p /\ from(w, i) = k)
    BY <1>0, <1>1, <1>2, <1>3
<1>5. \A w \in D : \A i \in DOMAIN J[w] : ~ (w = p /\ i = k) =>
          to(w, i) \in DOMAIN K[w] /\ K[w][to(w, i)] = J[w][i]
    BY <1>0, <1>1, <1>2, <1>3
<1>6. \A w \in D : \A i, j \in DOMAIN K[w] : from(w, i) = from(w, j) => i = j
    BY <1>2, <1>3
<1> HIDE DEF from, to
<1>7. p \in D /\ k \in DOMAIN J[p] /\ J[p][k] = x
    BY <1>1 DEF x
<1>8. ASSUME NEW v \in D, NEW w \in D, NEW i \in DOMAIN K[v], NEW j \in DOMAIN K[w], K[v][i] = K[w][j]
      PROVE  v = w /\ i = j
    <2>1. v = w /\ from(v, i) = from(w, j)
        BY <1>4, <1>8 DEF Spread
    <2> QED BY <1>6, <2>1
<1>9. ASSUME NEW y
      PROVE  y \in A \ {x} <=> \E w \in D : \E i \in DOMAIN K[w] : K[w][i] = y
    <2>1. y \in A <=> \E w \in D : \E i \in DOMAIN J[w] : J[w][i] = y
        BY DEF Spread
    <2>2. ASSUME NEW w \in D, NEW i \in DOMAIN K[w], K[w][i] = y PROVE y \in A \ {x}
        <3>1. from(w, i) \in DOMAIN J[w] /\ y = J[w][from(w, i)] /\ ~ (w = p /\ from(w, i) = k)
            BY <1>4, <2>2
        <3>2. y # x
            BY <1>7, <3>1 DEF Spread
        <3> QED BY <2>1, <3>1, <3>2
    <2>3. ASSUME y \in A, y # x PROVE \E w \in D : \E i \in DOMAIN K[w] : K[w][i] = y
        <3>1. PICK w \in D : \E i \in DOMAIN J[w] : J[w][i] = y
            BY <2>1, <2>3
        <3>2. PICK i \in DOMAIN J[w] : J[w][i] = y
            BY <3>1
        <3>3. ~ (w = p /\ i = k)
            BY <1>7, <2>3, <3>2
        <3>4. to(w, i) \in DOMAIN K[w] /\ K[w][to(w, i)] = y
            BY <1>5, <3>2, <3>3
        <3> QED BY <3>4
    <2> QED BY <2>2, <2>3
<1> QED BY <1>2, <1>8, <1>9 DEF Spread, x

PoolPlaces == 0..NumWorkers
Held(q) == [w \in PoolPlaces |-> IF w = NumWorkers THEN q.ran ELSE q.queues[w]]
PoolType(q) ==
    /\ q = [queues |-> q.queues, attempts |-> q.attempts, successes |-> q.successes,
            submitted |-> q.submitted, accepted |-> q.accepted, ran |-> q.ran]
    /\ q.queues \in [0..(NumWorkers - 1) -> Seq(Nat)] /\ q.ran \in Seq(Nat)
    /\ q.submitted \in Nat /\ q.attempts \in Nat /\ q.successes \in Nat /\ q.successes <= q.attempts
    /\ q.accepted \subseteq 0..(q.submitted - 1)
PoolInv == PoolType(pool) /\ Spread(Held(pool), PoolPlaces, pool.accepted)

LEMMA PoolStarts == ScheduleInit => PoolInv
<1> SUFFICES ASSUME ScheduleInit PROVE PoolInv
    OBVIOUS
<1>1. NumWorkers \in Nat \ {0}
    BY ScheduleAssumption
<1>2. <<>> \in Seq(Nat) /\ DOMAIN <<>> = {}
    OBVIOUS
<1>3. /\ pool = [queues |-> [w \in 0..(NumWorkers - 1) |-> <<>>], attempts |-> 0, successes |-> 0,
                 submitted |-> 0, accepted |-> {}, ran |-> <<>>]
    BY DEF ScheduleInit
<1>4. PoolType(pool)
    BY <1>2, <1>3 DEF PoolType
<1>5. \A w \in PoolPlaces : Held(pool)[w] = <<>>
    BY <1>1, <1>3 DEF Held, PoolPlaces
<1>6. Held(pool) \in [PoolPlaces -> Seq(Nat)]
    <2>1. Held(pool) = [w \in PoolPlaces |-> Held(pool)[w]]
        BY DEF Held
    <2> HIDE DEF Held
    <2> QED BY <1>2, <1>5, <2>1
<1>7. pool.accepted = {}
    BY <1>3
<1> HIDE DEF Held
<1> QED BY <1>2, <1>4, <1>5, <1>6, <1>7 DEF PoolInv, Spread

(* A job that runs leaves a queue and is put after those that ran.         *)
AfterRun(L, J, p, rest, k) ==
    L = [w \in PoolPlaces |-> IF w = NumWorkers THEN Append(J[NumWorkers], J[p][k])
                              ELSE IF w = p THEN rest ELSE J[w]]

LEMMA JobRuns ==
    ASSUME NEW J, NEW A, Spread(J, PoolPlaces, A), A \subseteq Nat, NEW p \in 0..(NumWorkers - 1),
           NEW rest, NEW k, Without(rest, J[p], k), NEW L, AfterRun(L, J, p, rest, k)
    PROVE  Spread(L, PoolPlaces, A)
<1> DEFINE x == J[p][k]
<1>1. NumWorkers \in Nat \ {0} /\ NumWorkers \in PoolPlaces /\ p \in PoolPlaces /\ p # NumWorkers
    BY ScheduleAssumption DEF PoolPlaces
<1>2. J \in [PoolPlaces -> Seq(Nat)]
    BY DEF Spread
<1>3. x \in A /\ x \in Nat
    BY <1>1 DEF Spread, Without
<1>4. PICK K : K = [J EXCEPT ![p] = rest]
    OBVIOUS
<1>5. Spread(K, PoolPlaces, A \ {x})
    BY <1>1, <1>4, JobTaken
<1>6. K[NumWorkers] = J[NumWorkers]
    BY <1>1, <1>2, <1>4
<1>7. L = [K EXCEPT ![NumWorkers] = Append(K[NumWorkers], x)]
    BY <1>1, <1>2, <1>4, <1>6 DEF AfterRun
<1> HIDE DEF x
<1>8. Spread(L, PoolPlaces, (A \ {x}) \cup {x})
    BY <1>1, <1>3, <1>5, <1>7, JobAdded
<1>9. (A \ {x}) \cup {x} = A
    BY <1>3
<1> QED BY <1>8, <1>9

(* The victim of a steal is a worker that has a job.                       *)
LEMMA VictimHolds ==
    ASSUME NEW queues, NEW w \in 0..(NumWorkers - 1), Victims(queues, w) # {}
    PROVE  Victim(queues, w) \in 0..(NumWorkers - 1) /\ queues[Victim(queues, w)] # <<>>
<1>1. NumWorkers \in Nat \ {0}
    BY ScheduleAssumption
<1>2. PICK T \in SUBSET Nat : T = Victims(queues, w) /\ T # {}
    <2>1. \A i \in 1..(NumWorkers - 1) : i \in Nat
        BY <1>1
    <2>2. \A i \in Victims(queues, w) : i \in Nat
        BY <2>1, Zenon DEF Victims
    <2> QED BY <2>2
<1>3. PICK i \in T : \A y \in T : i <= y
    BY <1>2, LeastOf
<1>4. Min(T) \in T
    BY <1>3 DEF Min
<1> HIDE DEF Min
<1>5. queues[Around(w, Min(T))] # <<>> /\ Min(T) \in Nat
    BY <1>2, <1>4 DEF Victims
<1>6. Around(w, Min(T)) \in 0..(NumWorkers - 1)
    BY <1>1, <1>5 DEF Around
<1> QED BY <1>2, <1>5, <1>6 DEF Victim

LEMMA PoolInductive == PoolInv /\ [ScheduleNext]_scheduleVars => PoolInv'
<1> SUFFICES ASSUME PoolInv, [ScheduleNext]_scheduleVars PROVE PoolInv'
    OBVIOUS
<1> DEFINE N == NumWorkers
           J == Held(pool)
<1>1. N \in Nat \ {0} /\ N \notin 0..(N - 1) /\ PoolPlaces = 0..(N - 1) \cup {N}
    BY ScheduleAssumption DEF PoolPlaces
<1>2. /\ pool = [queues |-> pool.queues, attempts |-> pool.attempts, successes |-> pool.successes,
                 submitted |-> pool.submitted, accepted |-> pool.accepted, ran |-> pool.ran]
      /\ pool.queues \in [0..(N - 1) -> Seq(Nat)] /\ pool.ran \in Seq(Nat)
      /\ pool.submitted \in Nat /\ pool.attempts \in Nat /\ pool.successes \in Nat /\ pool.successes <= pool.attempts
      /\ pool.accepted \subseteq 0..(pool.submitted - 1)
    BY DEF PoolInv, PoolType
<1>3. Spread(J, PoolPlaces, pool.accepted)
    BY DEF PoolInv
<1>4. /\ J \in [PoolPlaces -> Seq(Nat)] /\ J[N] = pool.ran
      /\ \A w \in 0..(N - 1) : J[w] = pool.queues[w]
    BY <1>1, <1>3 DEF Held, Spread
<1>5. pool.accepted \subseteq Nat
    BY <1>2
<1>6. ASSUME NEW w \in 0..N, pool.submitted < MaxJobs,
             pool' = [pool EXCEPT !.submitted = @ + 1,
                            !.accepted = IF w < N THEN @ \cup {pool.submitted} ELSE @,
                            !.queues = [v \in DOMAIN @ |-> IF v = w THEN Append(@[v], pool.submitted)
                                                           ELSE @[v]]]
      PROVE  PoolInv'
    <2> DEFINE q == [v \in 0..(N - 1) |-> IF v = w THEN Append(pool.queues[v], pool.submitted) ELSE pool.queues[v]]
               a == IF w < N THEN pool.accepted \cup {pool.submitted} ELSE pool.accepted
    <2>1. DOMAIN pool.queues = 0..(N - 1)
        BY <1>2
    <2>2. pool' = [queues |-> q, attempts |-> pool.attempts, successes |-> pool.successes,
                   submitted |-> pool.submitted + 1, accepted |-> a, ran |-> pool.ran]
        BY <1>2, <1>6, <2>1
    <2>3. q \in [0..(N - 1) -> Seq(Nat)]
        BY <1>2, AppendProperties
    <2>4. a \subseteq 0..(pool.submitted + 1 - 1)
        BY <1>2
    <2>5. PoolType(pool')
        <3> HIDE DEF q, a
        <3> QED BY <1>2, <2>2, <2>3, <2>4 DEF PoolType
    <2>6. Spread(Held(pool'), PoolPlaces, pool'.accepted)
        <3>1. Held(pool') = [v \in PoolPlaces |-> IF v = N THEN pool.ran ELSE q[v]] /\ pool'.accepted = a
            BY <2>2 DEF Held
        <3>2. CASE w = N
            <4>1. \A v \in 0..(N - 1) : v # w
                BY <1>1, <3>2
            <4>2. q = pool.queues /\ a = pool.accepted
                BY <1>1, <1>2, <3>2, <4>1
            <4>3. Held(pool') = Held(pool)
                BY <3>1, <4>2 DEF Held
            <4> QED BY <1>3, <3>1, <4>2, <4>3
        <3>3. CASE w # N
            <4>1. w \in 0..(N - 1) /\ w \in PoolPlaces /\ a = pool.accepted \cup {pool.submitted}
                BY <1>1, <3>3
            <4>2. pool.submitted \notin pool.accepted
                BY <1>2
            <4>3. Held(pool') = [J EXCEPT ![w] = Append(J[w], pool.submitted)]
                BY <1>1, <1>4, <3>1, <4>1 DEF Held
            <4> HIDE DEF J, a, q
            <4>4. Spread(Held(pool'), PoolPlaces, pool.accepted \cup {pool.submitted})
                BY <1>2, <1>3, <4>1, <4>2, <4>3, JobAdded
            <4> QED BY <3>1, <4>1, <4>4
        <3> QED BY <3>2, <3>3
    <2> QED BY <2>5, <2>6 DEF PoolInv
<1>7. ASSUME NEW w \in 0..(N - 1), RunOwn(w) PROVE PoolInv'
    <2> DEFINE s == pool.queues[w]
               q == [pool.queues EXCEPT ![w] = Tail(s)]
               r == Append(pool.ran, Head(s))
    <2>1. s # <<>> /\ s \in Seq(Nat)
        BY <1>2, <1>7 DEF RunOwn
    <2>2. pool' = [queues |-> q, attempts |-> pool.attempts, successes |-> pool.successes,
                   submitted |-> pool.submitted, accepted |-> pool.accepted, ran |-> r]
        BY <1>2, <1>7 DEF RunOwn
    <2>3. /\ Tail(s) \in Seq(Nat) /\ Len(s) \in Nat \ {0} /\ DOMAIN Tail(s) = 1..(Len(s) - 1)
          /\ (\A i \in 1..(Len(s) - 1) : Tail(s)[i] = s[i + 1]) /\ Head(s) = s[1] /\ Head(s) \in Nat
        BY <2>1, TailFacts
    <2>4. q \in [0..(N - 1) -> Seq(Nat)] /\ r \in Seq(Nat)
        BY <1>2, <2>3, AppendProperties
    <2>5. PoolType(pool')
        <3> HIDE DEF q, r
        <3> QED BY <1>2, <2>2, <2>4 DEF PoolType
    <2>6. Held(pool') = [v \in PoolPlaces |-> IF v = N THEN Append(J[N], J[w][1])
                                              ELSE IF v = w THEN Tail(s) ELSE J[v]]
        BY <1>1, <1>2, <1>4, <2>2, <2>3 DEF Held
    <2>7. J[w] = s /\ 1 \in DOMAIN s
        BY <1>4, <2>1, <2>3, SeqFacts
    <2> HIDE DEF J, s, q, r
    <2>8. Without(Tail(s), J[w], 1)
        BY <2>3, <2>7 DEF Without
    <2>9. PICK L : L = Held(pool')
        OBVIOUS
    <2>10. AfterRun(L, J, w, Tail(s), 1)
        BY <1>1, <2>6, <2>9 DEF AfterRun
    <2>11. Spread(L, PoolPlaces, pool.accepted)
        BY <1>3, <1>5, <2>8, <2>10, JobRuns
    <2>12. pool'.accepted = pool.accepted
        BY <2>2
    <2> QED BY <2>5, <2>9, <2>11, <2>12 DEF PoolInv
<1>8. ASSUME NEW w \in 0..(N - 1), Steal(w) PROVE PoolInv'
    <2> DEFINE vs == Victims(pool.queues, w)
               p == Victim(pool.queues, w)
               s == pool.queues[p]
               q == [pool.queues EXCEPT ![p] = Front(s)]
               r == Append(pool.ran, Last(s))
    <2>1. CASE vs = {}
        <3>1. pool' = [queues |-> pool.queues, attempts |-> pool.attempts + 1, successes |-> pool.successes,
                       submitted |-> pool.submitted, accepted |-> pool.accepted, ran |-> pool.ran]
            BY <1>2, <1>8, <2>1 DEF Steal
        <3>2. PoolType(pool') /\ pool'.accepted = pool.accepted
            BY <1>2, <3>1 DEF PoolType
        <3>3. Held(pool') = Held(pool)
            BY <3>1 DEF Held
        <3> QED BY <1>3, <3>2, <3>3 DEF PoolInv
    <2>2. CASE vs # {}
        <3>1. p \in 0..(N - 1) /\ s # <<>>
            BY <1>1, <2>2, VictimHolds
        <3>2. s \in Seq(Nat)
            BY <1>2, <3>1
        <3>3. pool' = [queues |-> q, attempts |-> pool.attempts + 1, successes |-> pool.successes + 1,
                       submitted |-> pool.submitted, accepted |-> pool.accepted, ran |-> r]
            BY <1>2, <1>8, <2>2 DEF Steal
        <3> HIDE DEF p, vs
        <3>4. /\ Front(s) \in Seq(Nat) /\ Len(s) \in Nat \ {0} /\ DOMAIN Front(s) = 1..(Len(s) - 1)
              /\ (\A i \in 1..(Len(s) - 1) : Front(s)[i] = s[i]) /\ Last(s) = s[Len(s)] /\ Last(s) \in Nat
            BY <3>1, <3>2, FrontFacts
        <3>5. q \in [0..(N - 1) -> Seq(Nat)] /\ r \in Seq(Nat)
            BY <1>2, <3>4, AppendProperties
        <3>6. PoolType(pool')
            <4> HIDE DEF q, r
            <4> QED BY <1>2, <3>3, <3>5 DEF PoolType
        <3>7. Held(pool') = [v \in PoolPlaces |-> IF v = N THEN Append(J[N], J[p][Len(s)])
                                                  ELSE IF v = p THEN Front(s) ELSE J[v]]
            BY <1>1, <1>2, <1>4, <3>1, <3>3, <3>4 DEF Held
        <3>8. J[p] = s /\ Len(s) \in DOMAIN s
            BY <1>4, <3>1, <3>2, <3>4, SeqFacts
        <3> HIDE DEF J, s, q, r
        <3>9. Without(Front(s), J[p], Len(s))
            BY <3>4, <3>8 DEF Without
        <3>10. PICK L : L = Held(pool')
            OBVIOUS
        <3>11. AfterRun(L, J, p, Front(s), Len(s))
            BY <1>1, <3>7, <3>10 DEF AfterRun
        <3>12. Spread(L, PoolPlaces, pool.accepted)
            BY <1>3, <1>5, <3>1, <3>9, <3>11, JobRuns
        <3>13. pool'.accepted = pool.accepted
            BY <3>3
        <3> QED BY <3>6, <3>10, <3>12, <3>13 DEF PoolInv
    <2> QED BY <2>1, <2>2
<1>9. CASE UNCHANGED pool
    BY <1>9 DEF PoolInv, PoolType, Held
<1>10. CASE Submit
    BY <1>6, <1>10 DEF Submit
<1> QED BY <1>7, <1>8, <1>9, <1>10 DEF ScheduleNext, HeapNext, PoolNext, PlanNext, TryExecuteNext, scheduleVars

LEMMA PoolRunsOnce == PoolInv => JobsRunOnce
<1> SUFFICES ASSUME PoolInv PROVE JobsRunOnce
    OBVIOUS
<1> DEFINE J == Held(pool)
<1>1. NumWorkers \in Nat \ {0} /\ Places = PoolPlaces
    BY ScheduleAssumption DEF Places, PoolPlaces, PoolInv, PoolType
<1>2. \A w \in PoolPlaces : JobsAt(w) = J[w]
    BY DEF JobsAt, Held
<1>3. Spread(J, PoolPlaces, pool.accepted) /\ pool.successes <= pool.attempts
    BY DEF PoolInv, PoolType
<1> HIDE DEF J
<1>4. ASSUME NEW v \in Places, NEW w \in Places, NEW i \in DOMAIN JobsAt(v), NEW j \in DOMAIN JobsAt(w),
             JobsAt(v)[i] = JobsAt(w)[j]
      PROVE  v = w /\ i = j
    BY <1>1, <1>2, <1>3, <1>4 DEF Spread
<1>5. UNION {Range(JobsAt(w)) : w \in Places} = pool.accepted
    <2>1. \A x : x \in UNION {Range(JobsAt(w)) : w \in Places} <=> \E w \in Places : x \in Range(JobsAt(w))
        OBVIOUS
    <2>2. \A w \in Places : \A x : x \in Range(JobsAt(w)) <=> \E i \in DOMAIN J[w] : J[w][i] = x
        BY <1>1, <1>2 DEF Range
    <2> QED BY <1>1, <1>3, <2>1, <2>2 DEF Spread
<1> QED BY <1>3, <1>4, <1>5 DEF JobsRunOnce
-----------------------------------------------------------------------------
(* What holds before the first turn of a loop and is kept by each, holds   *)
(* after every one.                                                        *)
LEMMA Upto ==
    ASSUME NEW n \in Nat, NEW T, 0 \in T, \A m \in 1..n : m - 1 \in T => m \in T
    PROVE  \A m \in 0..n : m \in T
<1> DEFINE none == {m \in Nat : m \in 0..n /\ m \notin T}
<1>1. ASSUME none # {} PROVE FALSE
    <2>1. PICK m \in none : \A k \in none : m <= k
        BY <1>1, LeastOf
    <2>2. m \in 1..n /\ m - 1 \in Nat /\ m - 1 \in 0..n /\ ~ (m <= m - 1)
        BY <2>1
    <2>3. m - 1 \in T
        BY <2>1, <2>2
    <2> QED BY <2>1, <2>2, <2>3
<1> QED BY <1>1

(* A loop has a course: step gives its state after a turn from the one     *)
(* before it.                                                              *)
CourseOf(f, n, a, step) == f[0] = a /\ \A m \in 1..n : f[m] = step[<<m, f[m - 1]>>]

LEMMA TurnsExist ==
    ASSUME NEW n \in Nat, NEW S, NEW a \in S, NEW step \in [(1..n) \X S -> S]
    PROVE  \E f \in [0..n -> S] : CourseOf(f, n, a, step)
<1> DEFINE T == {k \in 0..n : \E f \in [0..k -> S] : CourseOf(f, k, a, step)}
<1>1. 0 \in T
    <2>1. [m \in 0..0 |-> a] \in [0..0 -> S] /\ CourseOf([m \in 0..0 |-> a], 0, a, step) /\ 0 \in 0..n
        BY DEF CourseOf
    <2> QED BY <2>1
<1>2. ASSUME NEW k \in 1..n, k - 1 \in T PROVE k \in T
    <2>1. PICK f \in [0..(k - 1) -> S] : CourseOf(f, k - 1, a, step)
        BY <1>2
    <2>2. /\ k \in Nat /\ k \in 0..n /\ k - 1 \in 0..(k - 1) /\ 0 \in 0..(k - 1) /\ k \in 0..k /\ 0 # k /\ k - 1 # k
          /\ 0 \in 0..k /\ k - 1 \in 0..k
        OBVIOUS
    <2>3. f[k - 1] \in S
        BY <2>1, <2>2
    <2>4. <<k, f[k - 1]>> \in (1..n) \X S
        BY <2>3
    <2>5. step[<<k, f[k - 1]>>] \in S
        BY <2>4
    <2> DEFINE g == [m \in 0..k |-> IF m = k THEN step[<<k, f[k - 1]>>] ELSE f[m]]
    <2>6. \A m \in 0..k : m # k => m \in 0..(k - 1)
        OBVIOUS
    <2>7. g \in [0..k -> S]
        BY <2>1, <2>5, <2>6
    <2>8. ASSUME NEW m \in 1..k PROVE g[m] = step[<<m, g[m - 1]>>]
        <3>1. CASE m = k
            <4>1. g[m - 1] = f[k - 1] /\ g[m] = step[<<k, f[k - 1]>>]
                BY <2>2, <3>1
            <4> QED BY <3>1, <4>1
        <3>2. CASE m # k
            <4>1. m \in 1..(k - 1) /\ m \in 0..k /\ m - 1 \in 0..k /\ m - 1 # k
                BY <3>2
            <4>2. g[m] = f[m] /\ g[m - 1] = f[m - 1]
                BY <3>2, <4>1
            <4> QED BY <2>1, <4>1, <4>2 DEF CourseOf
        <3> QED BY <3>1, <3>2
    <2>9. g[0] = a
        BY <2>1, <2>2 DEF CourseOf
    <2> HIDE DEF g
    <2>10. CourseOf(g, k, a, step)
        BY <2>8, <2>9 DEF CourseOf
    <2> QED BY <2>2, <2>7, <2>10
<1> HIDE DEF T
<1>3. n \in T
    <2>1. \A m \in 0..n : m \in T
        BY <1>1, <1>2, Upto
    <2> QED BY <2>1
<1> QED BY <1>3 DEF T

-----------------------------------------------------------------------------
(* How often an item occurs.                                               *)
PlacesOf(d, x) == {i \in DOMAIN d : d[i] = x}

LEMMA CopiesFinite ==
    ASSUME NEW S, NEW d \in Seq(S), NEW x
    PROVE  IsFiniteSet(PlacesOf(d, x)) /\ Copies(d, x) = Cardinality(PlacesOf(d, x)) /\ Copies(d, x) \in Nat
<1>1. DOMAIN d = 1..Len(d) /\ Len(d) \in Nat
    BY SeqFacts
<1>2. IsFiniteSet(DOMAIN d)
    BY <1>1, FS_Interval
<1>3. PlacesOf(d, x) \in SUBSET (DOMAIN d)
    BY DEF PlacesOf
<1>4. IsFiniteSet(PlacesOf(d, x))
    BY <1>2, <1>3, FS_Subset
<1>5. Copies(d, x) = Cardinality(PlacesOf(d, x))
    BY DEF Copies, PlacesOf
<1> QED BY <1>4, <1>5, FS_CardinalityType

LEMMA CopiesLonger ==
    ASSUME NEW S, NEW d \in Seq(S), NEW g \in Seq(S), Len(g) = Len(d) + 1,
           \A i \in 1..Len(d) : g[i] = d[i], NEW x
    PROVE  /\ g[Len(g)] = x => Copies(g, x) = Copies(d, x) + 1
           /\ g[Len(g)] # x => Copies(g, x) = Copies(d, x)
<1>1. /\ DOMAIN d = 1..Len(d) /\ Len(d) \in Nat /\ DOMAIN g = 1..(Len(d) + 1)
    BY SeqFacts
<1>2. /\ IsFiniteSet(PlacesOf(d, x)) /\ Copies(d, x) = Cardinality(PlacesOf(d, x))
      /\ Copies(g, x) = Cardinality(PlacesOf(g, x))
    BY CopiesFinite
<1>3. \A i \in DOMAIN g : i \in DOMAIN d \/ i = Len(g)
    BY <1>1
<1>4. Len(g) \in DOMAIN g /\ Len(g) \notin DOMAIN d /\ DOMAIN d \subseteq DOMAIN g
    BY <1>1
<1>5. ASSUME g[Len(g)] = x PROVE Copies(g, x) = Copies(d, x) + 1
    <2>1. PlacesOf(g, x) = PlacesOf(d, x) \cup {Len(g)} /\ Len(g) \notin PlacesOf(d, x)
        BY <1>1, <1>3, <1>4, <1>5 DEF PlacesOf
    <2> QED BY <1>2, <2>1, FS_AddElement
<1>6. ASSUME g[Len(g)] # x PROVE Copies(g, x) = Copies(d, x)
    <2>1. PlacesOf(g, x) = PlacesOf(d, x)
        BY <1>1, <1>3, <1>4, <1>6 DEF PlacesOf
    <2> QED BY <1>2, <2>1
<1> QED BY <1>5, <1>6

LEMMA SwappedFacts ==
    ASSUME NEW S, NEW d \in Seq(S), NEW i \in 0..(Len(d) - 1), NEW j \in 0..(Len(d) - 1)
    PROVE  /\ Swapped(d, i, j) \in Seq(S) /\ Len(Swapped(d, i, j)) = Len(d)
           /\ At(Swapped(d, i, j), i) = At(d, j) /\ At(Swapped(d, i, j), j) = At(d, i)
           /\ \A k \in 0..(Len(d) - 1) : k # i /\ k # j => At(Swapped(d, i, j), k) = At(d, k)
<1> DEFINE n == Len(d)
           g == Swapped(d, i, j)
<1>1. n \in Nat /\ d \in [1..n -> S] /\ i \in Int /\ j \in Int
    BY SeqFacts
<1>2. /\ i + 1 \in 1..n /\ j + 1 \in 1..n
      /\ \A k \in 0..(n - 1) : k + 1 \in 1..n /\ (k # i => k + 1 # i + 1) /\ (k # j => k + 1 # j + 1)
    BY <1>1
<1>3. d[i + 1] \in S /\ d[j + 1] \in S
    BY <1>1, <1>2
<1>4. g = [d EXCEPT ![i + 1] = d[j + 1], ![j + 1] = d[i + 1]]
    BY DEF Swapped, At
<1> HIDE DEF n, g
<1>5. g \in [1..n -> S]
    BY <1>1, <1>2, <1>3, <1>4
<1>6. g \in Seq(S) /\ Len(g) = n
    BY <1>1, <1>5, SeqDef, LenProperties
<1>7. g[j + 1] = d[i + 1]
    BY <1>1, <1>2, <1>4
<1>8. g[i + 1] = d[j + 1]
    <2>1. CASE i + 1 = j + 1
        BY <1>7, <2>1
    <2>2. CASE i + 1 # j + 1
        BY <1>1, <1>2, <1>4, <2>2
    <2> QED BY <2>1, <2>2
<1>9. \A k \in 1..n : k # i + 1 /\ k # j + 1 => g[k] = d[k]
    BY <1>1, <1>2, <1>4
<1>10. \A k \in 0..(n - 1) : k # i /\ k # j => g[k + 1] = d[k + 1]
    BY <1>2, <1>9, Zenon
<1> QED BY <1>6, <1>7, <1>8, <1>10 DEF At, n, g

LEMMA SwappedKeeps ==
    ASSUME NEW S, NEW d \in Seq(S), NEW i \in 0..(Len(d) - 1), NEW j \in 0..(Len(d) - 1), NEW x
    PROVE  Copies(Swapped(d, i, j), x) = Copies(d, x)
<1> DEFINE g == Swapped(d, i, j)
           to(k) == IF k = i + 1 THEN j + 1 ELSE IF k = j + 1 THEN i + 1 ELSE k
           A == PlacesOf(d, x)
           B == PlacesOf(g, x)
           f == [k \in A |-> to(k)]
<1>1. /\ g \in Seq(S) /\ Len(g) = Len(d) /\ At(g, i) = At(d, j) /\ At(g, j) = At(d, i)
      /\ \A k \in 0..(Len(d) - 1) : k # i /\ k # j => At(g, k) = At(d, k)
    BY SwappedFacts
<1>2. Len(d) \in Nat /\ DOMAIN d = 1..Len(d) /\ DOMAIN g = 1..Len(d)
    BY <1>1, SeqFacts
<1>3. g[i + 1] = d[j + 1] /\ g[j + 1] = d[i + 1]
    BY <1>1 DEF At
<1>4. \A k \in 1..Len(d) : k # i + 1 /\ k # j + 1 => g[k] = d[k]
    <2> TAKE k \in 1..Len(d)
    <2>1. k - 1 \in 0..(Len(d) - 1) /\ (k - 1) + 1 = k
        BY <1>2
    <2>2. k # i + 1 /\ k # j + 1 => k - 1 # i /\ k - 1 # j
        BY <1>2
    <2>3. k - 1 # i /\ k - 1 # j => g[(k - 1) + 1] = d[(k - 1) + 1]
        BY <1>1, <2>1 DEF At
    <2> QED BY <2>1, <2>2, <2>3
<1>5. i + 1 \in 1..Len(d) /\ j + 1 \in 1..Len(d)
    BY <1>2
<1> HIDE DEF g
<1>6. \A k \in DOMAIN d : to(k) \in DOMAIN d /\ g[to(k)] = d[k] /\ to(to(k)) = k
    BY <1>2, <1>3, <1>4, <1>5
<1> HIDE DEF to
<1>7. \A k \in DOMAIN d : d[to(k)] = g[k]
    <2> TAKE k \in DOMAIN d
    <2>1. to(k) \in DOMAIN d /\ to(to(k)) = k
        BY <1>6
    <2> QED BY <1>6, <2>1
<1>8. \A k \in A : to(k) \in B /\ to(to(k)) = k
    BY <1>2, <1>6 DEF PlacesOf
<1>9. \A k \in B : to(k) \in A /\ to(to(k)) = k
    BY <1>2, <1>6, <1>7 DEF PlacesOf
<1> HIDE DEF A, B
<1>10. f \in [A -> B]
    BY <1>8
<1>11. \A k, l \in A : f[k] = f[l] => k = l
    BY <1>8
<1>12. \A l \in B : \E k \in A : f[k] = l
    BY <1>8, <1>9
<1> HIDE DEF f
<1>13. ExistsBijection(A, B)
    BY <1>10, <1>11, <1>12 DEF ExistsBijection, Bijection, Injection, Surjection, IsInjective
<1>14. /\ IsFiniteSet(A) /\ Copies(d, x) = Cardinality(A) /\ Copies(g, x) = Cardinality(B)
    BY <1>1, CopiesFinite DEF A, B
<1> QED BY <1>13, <1>14, FS_Bijection DEF g

-----------------------------------------------------------------------------
(* The heap.  No item is greater than its parent: the first is a greatest. *)
HeapShape(d) == \A j \in 1..(Len(d) - 1) : At(d, j) <= At(d, Parent(j))

LEMMA ParentFacts ==
    ASSUME NEW j \in Nat \ {0}
    PROVE  Parent(j) \in Nat /\ Parent(j) < j
BY DEF Parent

(* The children of a place, and only they, have it as their parent.        *)
LEMMA ChildFacts ==
    ASSUME NEW j \in Nat \ {0}, NEW i \in Nat
    PROVE  Parent(j) = i <=> j = 2 * i + 1 \/ j = 2 * i + 2
BY DEF Parent

LEMMA PlaceFacts ==
    ASSUME NEW d \in Seq(Item)
    PROVE  /\ Len(d) \in Nat
           /\ \A k \in 0..(Len(d) - 1) : At(d, k) \in Item /\ At(d, k) \in Int
<1>1. Len(d) \in Nat /\ \A i \in 1..Len(d) : d[i] \in Item
    BY SeqFacts
<1>2. \A k \in 0..(Len(d) - 1) : k + 1 \in 1..Len(d)
    BY <1>1
<1>3. \A k \in 0..(Len(d) - 1) : d[k + 1] \in Item
    BY <1>1, <1>2
<1>4. Item \subseteq Int
    BY ScheduleAssumption
<1> QED BY <1>1, <1>3, <1>4 DEF At

LEMMA FirstIsGreatest ==
    ASSUME NEW d \in Seq(Item), HeapShape(d)
    PROVE  \A k \in 0..(Len(d) - 1) : At(d, k) <= At(d, 0)
<1> DEFINE above == {k \in Nat : k \in 0..(Len(d) - 1) /\ ~ (At(d, k) <= At(d, 0))}
<1>1. Len(d) \in Nat /\ \A k \in 0..(Len(d) - 1) : At(d, k) \in Int
    BY PlaceFacts
<1>2. ASSUME above # {} PROVE FALSE
    <2>1. PICK k \in above : \A m \in above : k <= m
        BY <1>2, LeastOf
    <2>2. k \in Nat /\ k \in 0..(Len(d) - 1) /\ ~ (At(d, k) <= At(d, 0))
        BY <2>1
    <2>3. 0 \in 0..(Len(d) - 1) /\ At(d, k) \in Int /\ At(d, 0) \in Int
        BY <1>1, <2>2
    <2>4. k # 0
        BY <2>2, <2>3
    <2>5. Parent(k) \in Nat /\ Parent(k) < k
        BY <2>2, <2>4, ParentFacts
    <2>6. Parent(k) \in 0..(Len(d) - 1) /\ ~ (k <= Parent(k)) /\ k \in 1..(Len(d) - 1)
        BY <1>1, <2>2, <2>4, <2>5
    <2>7. Parent(k) \notin above
        BY <2>1, <2>6
    <2>8. At(d, Parent(k)) <= At(d, 0)
        BY <2>5, <2>6, <2>7
    <2>9. At(d, k) <= At(d, Parent(k))
        BY <2>6 DEF HeapShape
    <2>10. At(d, Parent(k)) \in Int
        BY <1>1, <2>6
    <2> QED BY <2>2, <2>3, <2>8, <2>9, <2>10
<1> QED BY <1>2

(* While an item rises, only it may be greater than its parent, and its    *)
(* children are not greater than that parent.                              *)
Rising(s) ==
    /\ s = [d |-> s.d, i |-> s.i]
    /\ s.d \in Seq(Item)
    /\ s.i \in 0..(Len(s.d) - 1)
    /\ \A j \in 1..(Len(s.d) - 1) : j # s.i => At(s.d, j) <= At(s.d, Parent(j))
    /\ \A j \in 1..(Len(s.d) - 1) : s.i # 0 /\ Parent(j) = s.i => At(s.d, j) <= At(s.d, Parent(s.i))

LEMMA RisenRises ==
    ASSUME NEW s, Rising(s)
    PROVE  /\ Rising(Risen(s)) /\ Len(Risen(s).d) = Len(s.d)
           /\ \A x : Copies(Risen(s).d, x) = Copies(s.d, x)
           /\ HeapShape(s.d) => Risen(s) = s
           /\ ~ HeapShape(s.d) => Risen(s).i < s.i
<1> DEFINE n == Len(s.d)
           i == s.i
           p == Parent(i)
<1>1. n \in Nat /\ i \in 0..(n - 1) /\ \A k \in 0..(n - 1) : At(s.d, k) \in Int
    BY PlaceFacts DEF Rising
<1>2. \A j \in 1..(n - 1) : j \in Nat \ {0}
    OBVIOUS
<1>3. \A j \in 1..(n - 1) : Parent(j) \in Nat /\ Parent(j) < j
    BY <1>2, ParentFacts
<1>4. \A j \in 1..(n - 1) : Parent(j) \in 0..(n - 1) /\ j \in 0..(n - 1) /\ j # 0 /\ Parent(j) # j
    BY <1>1, <1>3
<1>5. CASE i = 0 \/ At(s.d, i) <= At(s.d, p)
    <2>1. Risen(s) = s
        BY <1>5 DEF Risen
    <2>2. HeapShape(s.d)
        BY <1>5 DEF Rising, HeapShape
    <2> QED BY <2>1, <2>2
<1>6. CASE ~ (i = 0 \/ At(s.d, i) <= At(s.d, p))
    <2> DEFINE g == Swapped(s.d, i, p)
    <2>1. Risen(s) = [d |-> g, i |-> p]
        BY <1>6 DEF Risen
    <2>2. i \in 1..(n - 1) /\ i \in 0..(n - 1)
        BY <1>1, <1>6
    <2>3. p \in 0..(n - 1) /\ p < i /\ p # i
        BY <1>3, <1>4, <2>2
    <2>4. s.d \in Seq(Item)
        BY DEF Rising
    <2>5. /\ g \in Seq(Item) /\ Len(g) = n /\ At(g, i) = At(s.d, p) /\ At(g, p) = At(s.d, i)
          /\ \A k \in 0..(n - 1) : k # i /\ k # p => At(g, k) = At(s.d, k)
        BY <2>2, <2>3, <2>4, SwappedFacts
    <2>6. \A x : Copies(g, x) = Copies(s.d, x)
        BY <2>2, <2>3, <2>4, SwappedKeeps
    <2>7. ~ HeapShape(s.d)
        BY <1>6, <2>2 DEF HeapShape
    <2>8. /\ \A j \in 1..(n - 1) : j # i => At(s.d, j) <= At(s.d, Parent(j))
          /\ \A j \in 1..(n - 1) : Parent(j) = i => At(s.d, j) <= At(s.d, p)
        BY <1>6 DEF Rising
    <2>9. At(s.d, i) \in Int /\ At(s.d, p) \in Int /\ At(s.d, p) <= At(s.d, i)
        BY <1>1, <1>6, <2>2, <2>3
    <2> HIDE DEF n, i, p, g
    <2>10. ASSUME NEW j \in 1..(n - 1), j # p PROVE At(g, j) <= At(g, Parent(j))
        <3> DEFINE q == Parent(j)
        <3>1. q \in 0..(n - 1) /\ j \in 0..(n - 1) /\ q # j /\ At(s.d, j) \in Int /\ At(s.d, q) \in Int
            BY <1>1, <1>4
        <3> HIDE DEF q
        <3>2. CASE j = i
            <4>1. q = p
                BY <3>2 DEF p, q
            <4> QED BY <2>5, <2>9, <3>2, <4>1 DEF q
        <3>3. CASE j # i /\ q = i
            <4>1. At(s.d, j) <= At(s.d, p)
                BY <2>8, <3>3 DEF q
            <4>2. At(g, j) = At(s.d, j)
                BY <2>5, <2>10, <3>1, <3>3
            <4> QED BY <2>5, <3>3, <4>1, <4>2 DEF q
        <3>4. CASE j # i /\ q = p
            <4>1. At(s.d, j) <= At(s.d, p)
                BY <2>8, <3>4 DEF q
            <4>2. At(g, j) = At(s.d, j)
                BY <2>5, <2>10, <3>1, <3>4
            <4>3. At(s.d, j) <= At(s.d, i)
                BY <2>9, <3>1, <4>1
            <4> QED BY <2>5, <3>4, <4>2, <4>3 DEF q
        <3>5. CASE j # i /\ q # i /\ q # p
            <4>1. At(g, j) = At(s.d, j) /\ At(g, q) = At(s.d, q)
                BY <2>5, <2>10, <3>1, <3>5
            <4> QED BY <2>8, <3>5, <4>1 DEF q
        <3> QED BY <3>2, <3>3, <3>4, <3>5
    <2>11. ASSUME NEW j \in 1..(n - 1), p # 0, Parent(j) = p PROVE At(g, j) <= At(g, Parent(p))
        <3>1. p \in 1..(n - 1) /\ j \in 0..(n - 1) /\ j # p
            BY <1>4, <2>3, <2>11
        <3> DEFINE r == Parent(p)
        <3>2. r \in 0..(n - 1) /\ r # p /\ r < p /\ r \in Nat
            BY <1>3, <1>4, <3>1
        <3>3. r # i
            BY <1>1, <2>3, <3>2
        <3>4. At(s.d, p) <= At(s.d, r)
            BY <2>3, <2>8, <3>1
        <3> HIDE DEF r
        <3>5. At(g, r) = At(s.d, r) /\ At(s.d, r) \in Int /\ At(s.d, j) \in Int
            BY <1>1, <2>5, <3>1, <3>2, <3>3
        <3>6. CASE j = i
            BY <2>5, <3>4, <3>5, <3>6 DEF r
        <3>7. CASE j # i
            <4>1. At(g, j) = At(s.d, j)
                BY <2>5, <3>1, <3>7
            <4>2. At(s.d, j) <= At(s.d, p)
                BY <2>8, <2>11, <3>7
            <4>3. At(s.d, j) <= At(s.d, r)
                BY <2>9, <3>4, <3>5, <4>2
            <4> QED BY <3>5, <4>1, <4>3 DEF r
        <3> QED BY <3>6, <3>7
    <2>12. Rising(Risen(s))
        <3> DEFINE u == Risen(s)
        <3>1. u = [d |-> g, i |-> p] /\ u.d = g /\ u.i = p
            BY <2>1
        <3> HIDE DEF u
        <3>2. \A j \in 1..(Len(u.d) - 1) : j # u.i => At(u.d, j) <= At(u.d, Parent(j))
            BY <2>5, <2>10, <3>1
        <3>3. \A j \in 1..(Len(u.d) - 1) : u.i # 0 /\ Parent(j) = u.i => At(u.d, j) <= At(u.d, Parent(u.i))
            BY <2>5, <2>11, <3>1
        <3>4. u = [d |-> u.d, i |-> u.i]
            BY <3>1
        <3> HIDE DEF g
        <3>5. u.d \in Seq(Item) /\ u.i \in 0..(Len(u.d) - 1)
            BY <2>3, <2>5, <3>1
        <3> QED BY <3>2, <3>3, <3>4, <3>5 DEF Rising, u
    <2>13. Len(Risen(s).d) = n /\ Risen(s).i < i /\ \A x : Copies(Risen(s).d, x) = Copies(s.d, x)
        BY <2>1, <2>3, <2>5, <2>6
    <2> QED BY <2>7, <2>12, <2>13 DEF n, i
<1> QED BY <1>5, <1>6

Risings == {s \in [d : Seq(Item), i : Nat] : Rising(s)}
RiseCourse(f, i, d) == f = [m \in 0..i |-> IF m = 0 THEN [d |-> d, i |-> i] ELSE Risen(f[m - 1])]

LEMMA RiseCourseExists ==
    ASSUME NEW d, NEW i \in Nat, Rising([d |-> d, i |-> i])
    PROVE  \E f : RiseCourse(f, i, d)
<1> DEFINE a == [d |-> d, i |-> i]
           step == [x \in (1..i) \X Risings |-> Risen(x[2])]
<1>1. \A s : Rising(s) => s \in Risings
    <2> SUFFICES ASSUME NEW s, Rising(s) PROVE s \in Risings
        OBVIOUS
    <2>1. s = [d |-> s.d, i |-> s.i] /\ s.d \in Seq(Item) /\ s.i \in 0..(Len(s.d) - 1)
        BY DEF Rising
    <2>2. s.i \in Nat
        BY <2>1
    <2>3. s \in [d : Seq(Item), i : Nat]
        BY <2>1, <2>2
    <2> QED BY <2>3 DEF Risings
<1>2. a \in Risings
    BY <1>1
<1>3. \A s \in Risings : Rising(s)
    BY DEF Risings
<1>4. \A s \in Risings : Risen(s) \in Risings
    BY <1>1, <1>3, RisenRises
<1>5. step \in [(1..i) \X Risings -> Risings]
    BY <1>4
<1> HIDE DEF step, a
<1>6. PICK f \in [0..i -> Risings] : CourseOf(f, i, a, step)
    BY <1>2, <1>5, TurnsExist
<1>7. \A m \in 1..i : m \in 0..i /\ m - 1 \in 0..i /\ m # 0
    OBVIOUS
<1>8. \A m \in 1..i : f[m] = Risen(f[m - 1])
    <2> TAKE m \in 1..i
    <2>1. f[m - 1] \in Risings
        BY <1>6, <1>7
    <2>2. <<m, f[m - 1]>> \in (1..i) \X Risings
        BY <2>1
    <2>3. step[<<m, f[m - 1]>>] = Risen(f[m - 1])
        BY <2>2 DEF step
    <2> QED BY <1>6, <2>3 DEF CourseOf
<1>9. f[0] = a
    BY <1>6 DEF CourseOf
<1>10. \A m \in 0..i : f[m] = IF m = 0 THEN a ELSE Risen(f[m - 1])
    <2>1. \A m \in 0..i : m = 0 \/ m \in 1..i
        OBVIOUS
    <2> QED BY <1>7, <1>8, <1>9, <2>1, Zenon
<1>11. f = [m \in 0..i |-> f[m]]
    BY <1>6
<1>12. f = [m \in 0..i |-> IF m = 0 THEN a ELSE Risen(f[m - 1])]
    BY <1>10, <1>11
<1> QED BY <1>12, Zenon DEF RiseCourse, a

LEMMA UpMakesHeap ==
    ASSUME NEW d, NEW i \in Nat, Rising([d |-> d, i |-> i])
    PROVE  /\ Up(d, i) \in Seq(Item) /\ HeapShape(Up(d, i)) /\ Len(Up(d, i)) = Len(d)
           /\ \A x : Copies(Up(d, i), x) = Copies(d, x)
<1> DEFINE f == CHOOSE h : RiseCourse(h, i, d)
<1>1. RiseCourse(f, i, d)
    BY RiseCourseExists
<1>2. Up(d, i) = f[i].d
    BY DEF Up, RiseCourse
<1> HIDE DEF f
<1>3. f[0] = [d |-> d, i |-> i] /\ \A m \in 1..i : f[m] = Risen(f[m - 1])
    <2>1. \A m \in 1..i : m \in 0..i /\ m # 0
        OBVIOUS
    <2>2. 0 \in 0..i
        OBVIOUS
    <2> QED BY <1>1, <2>1, <2>2 DEF RiseCourse
<1> DEFINE T == {m \in 0..i : /\ Rising(f[m]) /\ Len(f[m].d) = Len(d)
                              /\ \A x : Copies(f[m].d, x) = Copies(d, x)
                              /\ HeapShape(f[m].d) \/ f[m].i <= i - m}
<1>4. 0 \in T
    <2>1. f[0].d = d /\ f[0].i = i /\ i <= i - 0 /\ 0 \in 0..i
        BY <1>3
    <2> QED BY <1>3, <2>1
<1>5. ASSUME NEW m \in 1..i, m - 1 \in T PROVE m \in T
    <2>1. PICK s : s = f[m - 1]
        OBVIOUS
    <2>2. /\ Rising(s) /\ Len(s.d) = Len(d) /\ \A x : Copies(s.d, x) = Copies(d, x)
          /\ HeapShape(s.d) \/ s.i <= i - (m - 1)
        BY <1>5, <2>1
    <2>3. f[m] = Risen(s)
        BY <1>3, <2>1
    <2>4. /\ Rising(Risen(s)) /\ Len(Risen(s).d) = Len(s.d)
          /\ \A x : Copies(Risen(s).d, x) = Copies(s.d, x)
          /\ HeapShape(s.d) => Risen(s) = s
          /\ ~ HeapShape(s.d) => Risen(s).i < s.i
        BY <2>2, RisenRises
    <2>5. HeapShape(Risen(s).d) \/ Risen(s).i <= i - m
        <3>1. CASE HeapShape(s.d)
            BY <2>4, <3>1
        <3>2. CASE ~ HeapShape(s.d)
            <4>1. s.i \in Int /\ Risen(s).i \in Int
                BY <2>2, <2>4 DEF Rising
            <4> QED BY <2>2, <2>4, <3>2, <4>1
        <3> QED BY <3>1, <3>2
    <2>6. m \in 0..i
        OBVIOUS
    <2> QED BY <2>2, <2>3, <2>4, <2>5, <2>6
<1> HIDE DEF T
<1>6. i \in T
    <2>1. \A m \in 0..i : m \in T
        BY <1>4, <1>5, Upto
    <2> QED BY <2>1
<1>7. /\ Rising(f[i]) /\ Len(f[i].d) = Len(d) /\ \A x : Copies(f[i].d, x) = Copies(d, x)
      /\ HeapShape(f[i].d) \/ f[i].i <= 0
    BY <1>6 DEF T
<1>8. HeapShape(f[i].d)
    <2>1. CASE f[i].i <= 0
        <3>1. f[i].i = 0
            BY <1>7, <2>1 DEF Rising
        <3>2. \A j \in 1..(Len(f[i].d) - 1) : j # 0
            OBVIOUS
        <3> QED BY <1>7, <3>1, <3>2 DEF Rising, HeapShape
    <2> QED BY <1>7, <2>1
<1>9. f[i].d \in Seq(Item)
    BY <1>7 DEF Rising
<1> QED BY <1>2, <1>7, <1>8, <1>9

(* While an item sinks, only its children may be greater than it, and they *)
(* are not greater than its parent.                                        *)
Sinking(s) ==
    /\ s = [d |-> s.d, i |-> s.i]
    /\ s.d \in Seq(Item)
    /\ s.i \in Nat /\ (s.i < Len(s.d) \/ (Len(s.d) = 0 /\ s.i = 0))
    /\ \A j \in 1..(Len(s.d) - 1) : Parent(j) # s.i => At(s.d, j) <= At(s.d, Parent(j))
    /\ \A j \in 1..(Len(s.d) - 1) : s.i # 0 /\ Parent(j) = s.i => At(s.d, j) <= At(s.d, Parent(s.i))

LEMMA LargestFacts ==
    ASSUME NEW s, Sinking(s), NEW l, l = LargestOf(s.d, s.i)
    PROVE  /\ l # s.i => /\ l \in 1..(Len(s.d) - 1) /\ Parent(l) = s.i /\ s.i < l
                         /\ At(s.d, l) > At(s.d, s.i)
           /\ \A j \in 1..(Len(s.d) - 1) : Parent(j) = s.i => At(s.d, j) <= At(s.d, l)
<1> DEFINE n == Len(s.d)
           i == s.i
           a == 2 * i + 1
           b == 2 * i + 2
           e == LargerOf(s.d, i, a)
<1>1. n \in Nat /\ i \in Nat /\ (i < n \/ n = 0) /\ \A k \in 0..(n - 1) : At(s.d, k) \in Int
    BY PlaceFacts DEF Sinking
<1>2. \A j \in 1..(n - 1) : Parent(j) = i <=> j = a \/ j = b
    <2> TAKE j \in 1..(n - 1)
    <2>1. j \in Nat \ {0} /\ i \in Nat
        BY <1>1
    <2> QED BY <2>1, ChildFacts
<1>3. a \in Nat /\ b \in Nat /\ i < a /\ i < b /\ a < b
    BY <1>1
<1>4. l = LargerOf(s.d, e, b)
    BY DEF LargestOf
<1>5. /\ a < n /\ At(s.d, a) > At(s.d, i) => e = a
      /\ ~ (a < n /\ At(s.d, a) > At(s.d, i)) => e = i
    BY DEF LargerOf
<1> HIDE DEF e
<1>6. /\ b < n /\ At(s.d, b) > At(s.d, e) => l = b
      /\ ~ (b < n /\ At(s.d, b) > At(s.d, e)) => l = e
    BY <1>4 DEF LargerOf
<1> HIDE DEF a, b, n, i
<1>7. /\ a < n => a \in 1..(n - 1) /\ At(s.d, a) \in Int /\ At(s.d, i) \in Int
      /\ b < n => a < n /\ b \in 1..(n - 1) /\ At(s.d, b) \in Int
    BY <1>1, <1>3
<1>8. l # i => /\ l \in 1..(n - 1) /\ (l = a \/ l = b) /\ i < l /\ At(s.d, l) > At(s.d, i)
    BY <1>3, <1>5, <1>6, <1>7
<1>9. /\ a < n => At(s.d, a) <= At(s.d, l)
      /\ b < n => At(s.d, b) <= At(s.d, l)
    BY <1>3, <1>5, <1>6, <1>7
<1>10. \A j \in 1..(n - 1) : Parent(j) = i => At(s.d, j) <= At(s.d, l)
    <2> TAKE j \in 1..(n - 1)
    <2>1. j < n
        BY <1>1
    <2> QED BY <1>2, <1>9, <2>1
<1> QED BY <1>2, <1>8, <1>10 DEF n, i

LEMMA SunkSinks ==
    ASSUME NEW s, Sinking(s)
    PROVE  /\ Sinking(Sunk(s)) /\ Len(Sunk(s).d) = Len(s.d)
           /\ \A x : Copies(Sunk(s).d, x) = Copies(s.d, x)
           /\ HeapShape(s.d) => Sunk(s) = s
           /\ ~ HeapShape(s.d) => s.i < Sunk(s).i
<1> DEFINE n == Len(s.d)
           i == s.i
           l == LargestOf(s.d, s.i)
<1>1. n \in Nat /\ i \in Nat /\ (i < n \/ (n = 0 /\ i = 0)) /\ \A k \in 0..(n - 1) : At(s.d, k) \in Int
    BY PlaceFacts DEF Sinking
<1>2. /\ l # i => /\ l \in 1..(n - 1) /\ Parent(l) = i /\ i < l
                  /\ At(s.d, l) > At(s.d, i)
      /\ \A j \in 1..(n - 1) : Parent(j) = i => At(s.d, j) <= At(s.d, l)
    BY LargestFacts
<1>3. \A j \in 1..(n - 1) : j \in Nat \ {0}
    OBVIOUS
<1>4. \A j \in 1..(n - 1) : Parent(j) \in Nat /\ Parent(j) < j
    BY <1>3, ParentFacts
<1>5. \A j \in 1..(n - 1) : Parent(j) \in 0..(n - 1) /\ j \in 0..(n - 1) /\ j # 0 /\ Parent(j) # j
    BY <1>1, <1>4
<1>6. CASE l = i
    <2>1. Sunk(s) = s
        BY <1>6 DEF Sunk
    <2>2. HeapShape(s.d)
        BY <1>2, <1>6 DEF Sinking, HeapShape
    <2> QED BY <2>1, <2>2
<1>7. CASE l # i
    <2> DEFINE g == Swapped(s.d, i, l)
    <2>1. Sunk(s) = [d |-> g, i |-> l]
        BY <1>7 DEF Sunk
    <2>2. l \in 1..(n - 1) /\ Parent(l) = i /\ i < l /\ At(s.d, l) > At(s.d, i)
        BY <1>2, <1>7
    <2>3. i \in 0..(n - 1) /\ l \in 0..(n - 1) /\ At(s.d, i) \in Int /\ At(s.d, l) \in Int
        BY <1>1, <2>2
    <2>4. s.d \in Seq(Item)
        BY DEF Sinking
    <2>5. /\ g \in Seq(Item) /\ Len(g) = n /\ At(g, i) = At(s.d, l) /\ At(g, l) = At(s.d, i)
          /\ \A k \in 0..(n - 1) : k # i /\ k # l => At(g, k) = At(s.d, k)
        BY <2>3, <2>4, SwappedFacts
    <2>6. \A x : Copies(g, x) = Copies(s.d, x)
        BY <2>3, <2>4, SwappedKeeps
    <2>7. ~ HeapShape(s.d)
        BY <2>2, <2>3 DEF HeapShape
    <2>8. /\ \A j \in 1..(n - 1) : Parent(j) # i => At(s.d, j) <= At(s.d, Parent(j))
          /\ \A j \in 1..(n - 1) : i # 0 /\ Parent(j) = i => At(s.d, j) <= At(s.d, Parent(i))
        BY DEF Sinking
    <2> HIDE DEF n, i, l, g
    <2>9. ASSUME NEW j \in 1..(n - 1), Parent(j) # l PROVE At(g, j) <= At(g, Parent(j))
        <3> DEFINE q == Parent(j)
        <3>1. q \in 0..(n - 1) /\ j \in 0..(n - 1) /\ q # j /\ q < j /\ q \in Nat /\ j \in Nat
            BY <1>4, <1>5
        <3> HIDE DEF q
        <3>2. CASE j = l
            <4>1. q = i
                BY <2>2, <3>2 DEF q
            <4> QED BY <2>2, <2>3, <2>5, <3>2, <4>1 DEF q
        <3>3. CASE j = i
            <4>1. i # 0 /\ At(s.d, l) <= At(s.d, q)
                BY <2>2, <2>8, <3>3 DEF q
            <4>2. q # l /\ q # i
                BY <1>1, <2>9, <3>1, <3>3 DEF q
            <4>3. At(g, q) = At(s.d, q)
                BY <2>5, <3>1, <4>2
            <4> QED BY <2>5, <3>3, <4>1, <4>3 DEF q
        <3>4. CASE j # i /\ j # l /\ q = i
            <4>1. At(g, j) = At(s.d, j)
                BY <2>5, <3>1, <3>4
            <4>2. At(s.d, j) <= At(s.d, l)
                BY <1>2, <3>4 DEF q
            <4> QED BY <2>5, <3>4, <4>1, <4>2 DEF q
        <3>5. CASE j # i /\ j # l /\ q # i
            <4>1. q # l
                BY <2>9 DEF q
            <4>2. At(g, j) = At(s.d, j) /\ At(g, q) = At(s.d, q)
                BY <2>5, <3>1, <3>5, <4>1
            <4> QED BY <2>8, <3>5, <4>2 DEF q
        <3> QED BY <3>2, <3>3, <3>4, <3>5
    <2>10. ASSUME NEW j \in 1..(n - 1), Parent(j) = l PROVE At(g, j) <= At(g, Parent(l))
        <3>1. j \in 0..(n - 1) /\ l < j /\ j # l
            BY <1>4, <1>5, <2>10
        <3>2. j # i /\ l # i
            BY <1>1, <2>2, <2>3, <3>1
        <3>3. At(g, j) = At(s.d, j)
            BY <2>5, <3>1, <3>2
        <3>4. At(s.d, j) <= At(s.d, l)
            BY <2>8, <2>10, <3>2
        <3> QED BY <2>2, <2>5, <3>3, <3>4
    <2>11. Sinking(Sunk(s))
        <3> DEFINE u == Sunk(s)
        <3>1. u = [d |-> g, i |-> l] /\ u.d = g /\ u.i = l
            BY <2>1
        <3> HIDE DEF u
        <3>2. \A j \in 1..(Len(u.d) - 1) : Parent(j) # u.i => At(u.d, j) <= At(u.d, Parent(j))
            BY <2>5, <2>9, <3>1
        <3>3. \A j \in 1..(Len(u.d) - 1) : u.i # 0 /\ Parent(j) = u.i => At(u.d, j) <= At(u.d, Parent(u.i))
            BY <2>5, <2>10, <3>1
        <3>4. u = [d |-> u.d, i |-> u.i]
            BY <3>1
        <3>5. u.d \in Seq(Item) /\ u.i \in Nat /\ u.i < Len(u.d)
            BY <1>1, <2>2, <2>5, <3>1
        <3> QED BY <3>2, <3>3, <3>4, <3>5 DEF Sinking, u
    <2>12. Len(Sunk(s).d) = n /\ i < Sunk(s).i /\ \A x : Copies(Sunk(s).d, x) = Copies(s.d, x)
        BY <2>1, <2>2, <2>5, <2>6
    <2> QED BY <2>7, <2>11, <2>12 DEF n, i
<1> QED BY <1>6, <1>7

Sinkings == {s \in [d : Seq(Item), i : Nat] : Sinking(s)}
SinkCourse(f, n, i, d) == f = [m \in 0..n |-> IF m = 0 THEN [d |-> d, i |-> i] ELSE Sunk(f[m - 1])]

LEMMA SinkCourseExists ==
    ASSUME NEW n \in Nat, NEW d, NEW i, Sinking([d |-> d, i |-> i])
    PROVE  \E f : SinkCourse(f, n, i, d)
<1> DEFINE a == [d |-> d, i |-> i]
           step == [x \in (1..n) \X Sinkings |-> Sunk(x[2])]
<1>1. \A s : Sinking(s) => s \in Sinkings
    <2> SUFFICES ASSUME NEW s, Sinking(s) PROVE s \in Sinkings
        OBVIOUS
    <2>1. s = [d |-> s.d, i |-> s.i] /\ s.d \in Seq(Item) /\ s.i \in Nat
        BY DEF Sinking
    <2>2. s \in [d : Seq(Item), i : Nat]
        BY <2>1
    <2> QED BY <2>2 DEF Sinkings
<1>2. a \in Sinkings
    BY <1>1
<1>3. \A s \in Sinkings : Sinking(s)
    BY DEF Sinkings
<1>4. \A s \in Sinkings : Sunk(s) \in Sinkings
    BY <1>1, <1>3, SunkSinks
<1>5. step \in [(1..n) \X Sinkings -> Sinkings]
    BY <1>4
<1> HIDE DEF step, a
<1>6. PICK f \in [0..n -> Sinkings] : CourseOf(f, n, a, step)
    BY <1>2, <1>5, TurnsExist
<1>7. \A m \in 1..n : m \in 0..n /\ m - 1 \in 0..n /\ m # 0
    OBVIOUS
<1>8. \A m \in 1..n : f[m] = Sunk(f[m - 1])
    <2> TAKE m \in 1..n
    <2>1. f[m - 1] \in Sinkings
        BY <1>6, <1>7
    <2>2. <<m, f[m - 1]>> \in (1..n) \X Sinkings
        BY <2>1
    <2>3. step[<<m, f[m - 1]>>] = Sunk(f[m - 1])
        BY <2>2 DEF step
    <2> QED BY <1>6, <2>3 DEF CourseOf
<1>9. f[0] = a
    BY <1>6 DEF CourseOf
<1>10. \A m \in 0..n : f[m] = IF m = 0 THEN a ELSE Sunk(f[m - 1])
    <2>1. \A m \in 0..n : m = 0 \/ m \in 1..n
        OBVIOUS
    <2> QED BY <1>7, <1>8, <1>9, <2>1, Zenon
<1>11. f = [m \in 0..n |-> f[m]]
    BY <1>6
<1>12. f = [m \in 0..n |-> IF m = 0 THEN a ELSE Sunk(f[m - 1])]
    BY <1>10, <1>11
<1> QED BY <1>12, Zenon DEF SinkCourse, a

LEMMA DownMakesHeap ==
    ASSUME NEW d, NEW i, Sinking([d |-> d, i |-> i])
    PROVE  /\ Down(d, i) \in Seq(Item) /\ HeapShape(Down(d, i)) /\ Len(Down(d, i)) = Len(d)
           /\ \A x : Copies(Down(d, i), x) = Copies(d, x)
<1> DEFINE n == Len(d)
           f == CHOOSE h : SinkCourse(h, n, i, d)
<1>1. n \in Nat
    BY SeqFacts DEF Sinking
<1>2. SinkCourse(f, n, i, d)
    BY <1>1, SinkCourseExists
<1>3. Down(d, i) = f[n].d
    BY DEF Down, SinkCourse
<1> HIDE DEF f, n
<1>4. f[0] = [d |-> d, i |-> i] /\ \A m \in 1..n : f[m] = Sunk(f[m - 1])
    <2>1. \A m \in 1..n : m \in 0..n /\ m # 0
        BY <1>1
    <2>2. 0 \in 0..n
        BY <1>1
    <2> QED BY <1>2, <2>1, <2>2 DEF SinkCourse
<1> DEFINE T == {m \in 0..n : /\ Sinking(f[m]) /\ Len(f[m].d) = n
                              /\ \A x : Copies(f[m].d, x) = Copies(d, x)
                              /\ HeapShape(f[m].d) \/ m <= f[m].i}
<1>5. 0 \in T
    <2>1. f[0].d = d /\ f[0].i = i /\ 0 \in 0..n /\ i \in Nat /\ 0 <= i
        BY <1>1, <1>4 DEF Sinking
    <2> QED BY <1>4, <2>1 DEF n
<1>6. ASSUME NEW m \in 1..n, m - 1 \in T PROVE m \in T
    <2>1. PICK s : s = f[m - 1]
        OBVIOUS
    <2>2. /\ Sinking(s) /\ Len(s.d) = n /\ \A x : Copies(s.d, x) = Copies(d, x)
          /\ HeapShape(s.d) \/ m - 1 <= s.i
        BY <1>6, <2>1
    <2>3. f[m] = Sunk(s)
        BY <1>4, <2>1
    <2>4. /\ Sinking(Sunk(s)) /\ Len(Sunk(s).d) = Len(s.d)
          /\ \A x : Copies(Sunk(s).d, x) = Copies(s.d, x)
          /\ HeapShape(s.d) => Sunk(s) = s
          /\ ~ HeapShape(s.d) => s.i < Sunk(s).i
        BY <2>2, SunkSinks
    <2>5. HeapShape(Sunk(s).d) \/ m <= Sunk(s).i
        <3>1. CASE HeapShape(s.d)
            BY <2>4, <3>1
        <3>2. CASE ~ HeapShape(s.d)
            <4>1. s.i \in Int /\ Sunk(s).i \in Int
                BY <2>2, <2>4 DEF Sinking
            <4> QED BY <1>1, <2>2, <2>4, <3>2, <4>1
        <3> QED BY <3>1, <3>2
    <2>6. m \in 0..n
        BY <1>1
    <2> QED BY <2>2, <2>3, <2>4, <2>5, <2>6
<1> HIDE DEF T
<1>7. n \in T
    <2>1. \A m \in 0..n : m \in T
        BY <1>1, <1>5, <1>6, Upto
    <2> QED BY <1>1, <2>1
<1>8. /\ Sinking(f[n]) /\ Len(f[n].d) = n /\ \A x : Copies(f[n].d, x) = Copies(d, x)
      /\ HeapShape(f[n].d) \/ n <= f[n].i
    BY <1>7 DEF T
<1>9. HeapShape(f[n].d)
    <2>1. CASE n <= f[n].i
        <3>1. f[n].i \in Nat /\ (f[n].i < n \/ n = 0)
            BY <1>8 DEF Sinking
        <3>2. n = 0
            BY <1>1, <2>1, <3>1
        <3>3. 1..(Len(f[n].d) - 1) = {}
            BY <1>8, <3>2
        <3> QED BY <3>3 DEF HeapShape
    <2> QED BY <1>8, <2>1
<1>10. f[n].d \in Seq(Item)
    BY <1>8 DEF Sinking
<1> QED BY <1>3, <1>8, <1>9, <1>10 DEF n

LEMMA PopTakesHead ==
    ASSUME NEW d \in Seq(Item), HeapShape(d), d # <<>>
    PROVE  /\ HeapPop(d) \in Seq(Item) /\ HeapShape(HeapPop(d))
           /\ \A x : x = Head(d) => Copies(d, x) = Copies(HeapPop(d), x) + 1
           /\ \A x : x # Head(d) => Copies(d, x) = Copies(HeapPop(d), x)
<1> DEFINE n == Len(d)
           g == Swapped(d, 0, n - 1)
           h == Front(g)
<1>1. n \in Nat \ {0} /\ Head(d) = d[1]
    BY SeqFacts, TailFacts
<1>2. 0 \in 0..(Len(d) - 1) /\ n - 1 \in 0..(Len(d) - 1)
    BY <1>1
<1>3. /\ g \in Seq(Item) /\ Len(g) = n /\ At(g, n - 1) = At(d, 0)
      /\ \A k \in 0..(n - 1) : k # 0 /\ k # n - 1 => At(g, k) = At(d, k)
    BY <1>2, SwappedFacts
<1>4. \A x : Copies(g, x) = Copies(d, x)
    BY <1>2, SwappedKeeps
<1> HIDE DEF g, n
<1>5. g # <<>>
    BY <1>1, <1>3, SeqFacts
<1>6. h \in Seq(Item) /\ Len(h) = n - 1 /\ \A i \in 1..(n - 1) : h[i] = g[i]
    BY <1>3, <1>5, FrontFacts
<1> HIDE DEF h
<1>7. g[n] = Head(d)
    <2>1. n - 1 + 1 = n /\ 0 + 1 = 1
        BY <1>1
    <2> QED BY <1>1, <1>3, <2>1 DEF At
<1>8. \A x : /\ x = Head(d) => Copies(g, x) = Copies(h, x) + 1
             /\ x # Head(d) => Copies(g, x) = Copies(h, x)
    <2> TAKE x
    <2>1. Len(g) = Len(h) + 1 /\ \A i \in 1..Len(h) : g[i] = h[i]
        BY <1>1, <1>3, <1>6
    <2>2. /\ g[Len(g)] = x => Copies(g, x) = Copies(h, x) + 1
          /\ g[Len(g)] # x => Copies(g, x) = Copies(h, x)
        BY <1>3, <1>6, <2>1, CopiesLonger
    <2> QED BY <1>3, <1>7, <2>2
<1>9. \A k \in 1..(n - 2) : At(h, k) = At(d, k)
    <2> TAKE k \in 1..(n - 2)
    <2>1. k + 1 \in 1..(n - 1) /\ k \in 0..(n - 1) /\ k # 0 /\ k # n - 1
        BY <1>1
    <2>2. At(h, k) = At(g, k)
        BY <1>6, <2>1 DEF At
    <2> QED BY <1>3, <2>1, <2>2
<1>10. Sinking([d |-> h, i |-> 0])
    <2> DEFINE s == [d |-> h, i |-> 0]
    <2>1. s.d = h /\ s.i = 0 /\ s = [d |-> s.d, i |-> s.i]
        OBVIOUS
    <2> HIDE DEF s
    <2>2. ASSUME NEW j \in 1..(n - 2), Parent(j) # 0 PROVE At(h, j) <= At(h, Parent(j))
        <3>1. j \in Nat \ {0} /\ j \in 1..(n - 1)
            BY <1>1
        <3>2. Parent(j) \in Nat /\ Parent(j) < j
            BY <3>1, ParentFacts
        <3>3. Parent(j) \in 1..(n - 2)
            BY <1>1, <2>2, <3>2
        <3>4. At(h, j) = At(d, j) /\ At(h, Parent(j)) = At(d, Parent(j))
            BY <1>9, <3>3
        <3> QED BY <3>1, <3>4 DEF HeapShape, n
    <2>3. Len(h) - 1 = n - 2 /\ (0 < Len(h) \/ Len(h) = 0) /\ 0 \in Nat
        BY <1>1, <1>6
    <2>4. Sinking(s)
        BY <1>6, <2>1, <2>2, <2>3 DEF Sinking
    <2> QED BY <2>4 DEF s
<1>11. HeapPop(d) = Down(h, 0)
    BY DEF HeapPop, h, g, n
<1>12. /\ Down(h, 0) \in Seq(Item) /\ HeapShape(Down(h, 0))
       /\ \A x : Copies(Down(h, 0), x) = Copies(h, x)
    BY <1>10, DownMakesHeap
<1> QED BY <1>4, <1>8, <1>11, <1>12

LEMMA PushMakesHeap ==
    ASSUME NEW d \in Seq(Item), HeapShape(d), NEW x \in Item
    PROVE  HeapPush(d, x) \in Seq(Item) /\ HeapShape(HeapPush(d, x))
<1> DEFINE n == Len(d)
           g == Append(d, x)
           s == [d |-> g, i |-> n]
<1>1. n \in Nat /\ g \in Seq(Item) /\ Len(g) = n + 1 /\ \A i \in 1..n : g[i] = d[i]
    BY SeqFacts, AppendFacts
<1> HIDE DEF g, n
<1>2. \A k \in 0..(n - 1) : At(g, k) = At(d, k)
    <2> TAKE k \in 0..(n - 1)
    <2>1. k + 1 \in 1..n
        BY <1>1
    <2> QED BY <1>1, <2>1 DEF At
<1>3. s.d = g /\ s.i = n /\ s = [d |-> s.d, i |-> s.i]
    OBVIOUS
<1> HIDE DEF s
<1>4. \A j \in 1..n : Parent(j) \in Nat /\ Parent(j) < j
    <2> TAKE j \in 1..n
    <2>1. j \in Nat \ {0}
        BY <1>1
    <2> QED BY <2>1, ParentFacts
<1>5. ASSUME NEW j \in 1..n, j # n PROVE At(g, j) <= At(g, Parent(j))
    <2>1. j \in 1..(n - 1) /\ j \in 0..(n - 1)
        BY <1>1, <1>5
    <2>2. Parent(j) \in 0..(n - 1)
        BY <1>1, <1>4, <2>1
    <2>3. At(g, j) = At(d, j) /\ At(g, Parent(j)) = At(d, Parent(j))
        BY <1>2, <2>1, <2>2
    <2> QED BY <2>1, <2>3 DEF HeapShape, n
<1>6. \A j \in 1..n : Parent(j) # n
    BY <1>1, <1>4
<1>7. n \in 0..(Len(g) - 1) /\ Len(g) - 1 = n
    BY <1>1
<1>8. Rising(s)
    BY <1>1, <1>3, <1>5, <1>6, <1>7 DEF Rising
<1>9. Up(g, n) \in Seq(Item) /\ HeapShape(Up(g, n))
    BY <1>1, <1>8, UpMakesHeap DEF s
<1> QED BY <1>9 DEF HeapPush, g, n

HeapInv == data \in Seq(Item) /\ HeapShape(data)

LEMMA HeapStarts == ScheduleInit => HeapInv
<1> SUFFICES ASSUME ScheduleInit PROVE HeapInv
    OBVIOUS
<1>1. data = <<>> /\ data \in Seq(Item) /\ Len(data) = 0
    BY EmptySeq DEF ScheduleInit
<1>2. 1..(Len(data) - 1) = {}
    BY <1>1
<1> QED BY <1>1, <1>2 DEF HeapInv, HeapShape

LEMMA HeapInductive == HeapInv /\ [ScheduleNext]_scheduleVars => HeapInv'
<1> SUFFICES ASSUME HeapInv, [ScheduleNext]_scheduleVars PROVE HeapInv'
    OBVIOUS
<1>1. CASE Push
    BY <1>1, PushMakesHeap DEF Push, HeapInv
<1>2. CASE Pop
    BY <1>2, PopTakesHead DEF Pop, HeapInv
<1>3. CASE UNCHANGED data
    BY <1>3 DEF HeapInv
<1> QED BY <1>1, <1>2, <1>3 DEF ScheduleNext, HeapNext, PoolNext, PlanNext, scheduleVars

LEMMA HeapTakesGreatest == HeapInv => HeapYieldsGreatest
<1> SUFFICES ASSUME HeapInv, data # <<>>
             PROVE  /\ \A x \in Range(data) : x <= Head(data)
                    /\ \A x \in Range(data) :
                         Copies(data, x) = Copies(HeapPop(data), x) + (IF x = Head(data) THEN 1 ELSE 0)
                    /\ \A i \in 1..(Len(data) - 1) : At(data, i) <= At(data, Parent(i))
    BY Zenon DEF HeapYieldsGreatest
<1>1. data \in Seq(Item) /\ HeapShape(data)
    BY DEF HeapInv
<1>2. Len(data) \in Nat \ {0} /\ DOMAIN data = 1..Len(data) /\ Head(data) = data[1]
    BY <1>1, SeqFacts, TailFacts
<1>3. \A k \in 0..(Len(data) - 1) : At(data, k) <= At(data, 0)
    BY <1>1, FirstIsGreatest
<1>4. \A i \in DOMAIN data : data[i] <= Head(data)
    <2> TAKE i \in DOMAIN data
    <2>1. i - 1 \in 0..(Len(data) - 1) /\ (i - 1) + 1 = i /\ 0 + 1 = 1
        BY <1>2
    <2>2. At(data, i - 1) = data[i] /\ At(data, 0) = data[1]
        BY <2>1 DEF At
    <2> QED BY <1>2, <1>3, <2>1, <2>2
<1>5. \A x \in Range(data) : x <= Head(data)
    BY <1>4 DEF Range
<1>6. HeapPop(data) \in Seq(Item)
    BY <1>1, PopTakesHead
<1>7. /\ \A x : x = Head(data) => Copies(data, x) = Copies(HeapPop(data), x) + 1
      /\ \A x : x # Head(data) => Copies(data, x) = Copies(HeapPop(data), x)
    BY <1>1, PopTakesHead
<1>8. \A x : Copies(HeapPop(data), x) \in Nat
    BY <1>6, CopiesFinite
<1>9. \A x \in Range(data) :
         Copies(data, x) = Copies(HeapPop(data), x) + (IF x = Head(data) THEN 1 ELSE 0)
    <2> TAKE x \in Range(data)
    <2>1. CASE x = Head(data)
        BY <1>7, <2>1
    <2>2. CASE x # Head(data)
        BY <1>7, <1>8, <2>2
    <2> QED BY <2>1, <2>2
<1> QED BY <1>1, <1>5, <1>9 DEF HeapShape

-----------------------------------------------------------------------------
(* The task graph.  What a task needs and what it feeds mirror each other, *)
(* and a task ranks above what it needs, so that there is no cycle.        *)
PlanType(p) ==
    /\ p = [cost |-> p.cost, needs |-> p.needs, feeds |-> p.feeds, completed |-> p.completed]
    /\ \E n \in Nat : TasksOf(p) = 0..(n - 1)
    /\ p.cost \in [TasksOf(p) -> Nat]
    /\ p.needs \in [TasksOf(p) -> Seq(TasksOf(p))]
    /\ p.feeds \in [TasksOf(p) -> Seq(TasksOf(p))]
    /\ p.completed \subseteq TasksOf(p)
Mirrored(p) == \A t, d \in TasksOf(p) : Copies(p.needs[t], d) = Copies(p.feeds[d], t)
RankedBy(p, rank, top) ==
    /\ rank \in [TasksOf(p) -> Nat] /\ top \in Nat
    /\ \A t \in TasksOf(p) : rank[t] <= top
    /\ \A t \in TasksOf(p) : \A d \in Range(p.needs[t]) : rank[d] < rank[t]
Planned(p) == PlanType(p) /\ Mirrored(p) /\ \E rank, top : RankedBy(p, rank, top)
PlanInv == Planned(plan)

LEMMA RangeFacts ==
    ASSUME NEW S, NEW d \in Seq(S)
    PROVE  /\ Range(d) \subseteq S /\ IsFiniteSet(Range(d))
           /\ \A x : x \in Range(d) <=> \E i \in DOMAIN d : d[i] = x
<1>1. DOMAIN d = 1..Len(d) /\ Len(d) \in Nat /\ d \in [1..Len(d) -> S]
    BY SeqFacts
<1>2. \A x : x \in Range(d) <=> \E i \in DOMAIN d : d[i] = x
    BY DEF Range
<1>3. Range(d) \subseteq S
    BY <1>1, <1>2
<1>4. IsFiniteSet(DOMAIN d)
    BY <1>1, FS_Interval
<1>5. d \in Surjection(DOMAIN d, Range(d))
    BY <1>1, <1>2 DEF Surjection
<1>6. IsFiniteSet(Range(d))
    BY <1>4, <1>5, FS_Surjection
<1> QED BY <1>2, <1>3, <1>6

LEMMA CopiesInRange ==
    ASSUME NEW S, NEW d \in Seq(S), NEW x
    PROVE  x \in Range(d) <=> Copies(d, x) # 0
<1>1. IsFiniteSet(PlacesOf(d, x)) /\ Copies(d, x) = Cardinality(PlacesOf(d, x))
    BY CopiesFinite
<1>2. Cardinality(PlacesOf(d, x)) = 0 <=> PlacesOf(d, x) = {}
    BY <1>1, FS_EmptySet
<1>3. x \in Range(d) <=> PlacesOf(d, x) # {}
    BY RangeFacts DEF PlacesOf
<1> QED BY <1>1, <1>2, <1>3

LEMMA TasksFinite ==
    ASSUME NEW p, PlanType(p)
    PROVE  /\ IsFiniteSet(TasksOf(p)) /\ Cardinality(TasksOf(p)) \in Nat
           /\ TasksOf(p) = 0..(Cardinality(TasksOf(p)) - 1)
<1>1. PICK n \in Nat : TasksOf(p) = 0..(n - 1)
    BY DEF PlanType
<1>2. IsFiniteSet(0..(n - 1)) /\ Cardinality(0..(n - 1)) = n
    BY FS_Interval
<1> QED BY <1>1, <1>2

LEMMA FeedsNeeds ==
    ASSUME NEW p, PlanType(p), Mirrored(p), NEW t \in TasksOf(p), NEW d \in TasksOf(p)
    PROVE  d \in Range(p.needs[t]) <=> t \in Range(p.feeds[d])
<1>1. p.needs[t] \in Seq(TasksOf(p)) /\ p.feeds[d] \in Seq(TasksOf(p))
    BY DEF PlanType
<1>2. d \in Range(p.needs[t]) <=> Copies(p.needs[t], d) # 0
    BY <1>1, CopiesInRange
<1>3. t \in Range(p.feeds[d]) <=> Copies(p.feeds[d], t) # 0
    BY <1>1, CopiesInRange
<1> QED BY <1>2, <1>3 DEF Mirrored

(* The search of creates_cycle grows until it holds all it leads to.       *)
Reaching(p, R) == R \cup UNION {Range(p.feeds[t]) : t \in R}
ClosedUnder(p, R) == \A t \in R : Range(p.feeds[t]) \subseteq R
ReachCourse(f, n, p, from) ==
    f = [m \in 0..n |-> IF m = 0 THEN {from}
                        ELSE f[m - 1] \cup UNION {Range(p.feeds[t]) : t \in f[m - 1]}]

LEMMA ReachingFacts ==
    ASSUME NEW p, PlanType(p), NEW R \in SUBSET TasksOf(p)
    PROVE  /\ Reaching(p, R) \in SUBSET TasksOf(p) /\ R \subseteq Reaching(p, R)
           /\ ClosedUnder(p, R) => Reaching(p, R) = R
           /\ Reaching(p, R) = R => ClosedUnder(p, R)
<1>1. \A t \in R : Range(p.feeds[t]) \subseteq TasksOf(p)
    <2> TAKE t \in R
    <2>1. p.feeds[t] \in Seq(TasksOf(p))
        BY DEF PlanType
    <2> QED BY <2>1, RangeFacts
<1>2. \A x : x \in Reaching(p, R) <=> x \in R \/ \E t \in R : x \in Range(p.feeds[t])
    BY DEF Reaching
<1> QED BY <1>1, <1>2 DEF ClosedUnder

LEMMA ReachCourseExists ==
    ASSUME NEW p, PlanType(p), NEW from \in TasksOf(p), NEW n \in Nat
    PROVE  \E f : f \in [0..n -> SUBSET TasksOf(p)] /\ ReachCourse(f, n, p, from)
<1> DEFINE S == SUBSET TasksOf(p)
           step == [x \in (1..n) \X S |-> Reaching(p, x[2])]
<1>1. \A R \in S : Reaching(p, R) \in S
    BY ReachingFacts
<1>2. step \in [(1..n) \X S -> S] /\ {from} \in S
    BY <1>1
<1> HIDE DEF step, S
<1>3. PICK f \in [0..n -> S] : CourseOf(f, n, {from}, step)
    BY <1>2, TurnsExist
<1>4. \A m \in 1..n : m \in 0..n /\ m - 1 \in 0..n /\ m # 0
    OBVIOUS
<1>5. \A m \in 1..n : f[m] = f[m - 1] \cup UNION {Range(p.feeds[t]) : t \in f[m - 1]}
    <2> TAKE m \in 1..n
    <2>1. f[m - 1] \in S
        BY <1>3, <1>4
    <2>2. <<m, f[m - 1]>> \in (1..n) \X S
        BY <2>1
    <2>3. step[<<m, f[m - 1]>>] = Reaching(p, f[m - 1])
        BY <2>2 DEF step
    <2>4. f[m] = Reaching(p, f[m - 1])
        BY <1>3, <2>3 DEF CourseOf
    <2> QED BY <2>4 DEF Reaching
<1>6. f[0] = {from}
    BY <1>3 DEF CourseOf
<1>7. \A m \in 0..n : f[m] = IF m = 0 THEN {from} ELSE f[m - 1] \cup UNION {Range(p.feeds[t]) : t \in f[m - 1]}
    <2>1. \A m \in 0..n : m = 0 \/ m \in 1..n
        OBVIOUS
    <2> QED BY <1>4, <1>5, <1>6, <2>1, Zenon
<1>8. f = [m \in 0..n |-> f[m]]
    BY <1>3
<1>9. f = [m \in 0..n |-> IF m = 0 THEN {from} ELSE f[m - 1] \cup UNION {Range(p.feeds[t]) : t \in f[m - 1]}]
    BY <1>7, <1>8, Zenon
<1> QED BY <1>3, <1>9, Zenon DEF ReachCourse, S

LEMMA SearchIsClosed ==
    ASSUME NEW p, PlanType(p), NEW from \in TasksOf(p)
    PROVE  /\ Downstream(p, from) \subseteq TasksOf(p) /\ from \in Downstream(p, from)
           /\ ClosedUnder(p, Downstream(p, from))
<1> DEFINE n == Cardinality(TasksOf(p))
           f == CHOOSE h : ReachCourse(h, n, p, from)
<1>1. n \in Nat /\ IsFiniteSet(TasksOf(p))
    BY TasksFinite
<1>2. ReachCourse(f, n, p, from)
    BY <1>1, ReachCourseExists
<1>3. Downstream(p, from) = f[n]
    BY DEF Downstream, ReachCourse
<1> HIDE DEF f, n
<1>4. f[0] = {from} /\ \A m \in 1..n : f[m] = Reaching(p, f[m - 1])
    <2>1. \A m \in 1..n : m \in 0..n /\ m # 0
        BY <1>1
    <2>2. 0 \in 0..n
        BY <1>1
    <2> QED BY <1>2, <2>1, <2>2 DEF ReachCourse, Reaching
<1> DEFINE T == {m \in 0..n : /\ f[m] \in SUBSET TasksOf(p) /\ from \in f[m]
                              /\ ClosedUnder(p, f[m]) \/ m < Cardinality(f[m])}
<1>5. 0 \in T
    <2>1. Cardinality({from}) = 1 /\ 0 \in 0..n
        BY <1>1, FS_Singleton
    <2> QED BY <1>4, <2>1
<1>6. ASSUME NEW m \in 1..n, m - 1 \in T PROVE m \in T
    <2>1. PICK R : R = f[m - 1]
        OBVIOUS
    <2>2. /\ R \in SUBSET TasksOf(p) /\ from \in R
          /\ ClosedUnder(p, R) \/ m - 1 < Cardinality(R)
        BY <1>6, <2>1
    <2>3. PICK Q : Q = f[m]
        OBVIOUS
    <2>4. Q = Reaching(p, R)
        BY <1>4, <2>1, <2>3
    <2>5. /\ Q \in SUBSET TasksOf(p) /\ R \in SUBSET Q
          /\ ClosedUnder(p, R) => Q = R
          /\ Q = R => ClosedUnder(p, R)
        BY <2>2, <2>4, ReachingFacts
    <2>6. IsFiniteSet(Q) /\ IsFiniteSet(R)
        BY <1>1, <2>2, <2>5, FS_Subset
    <2>7. Cardinality(Q) \in Nat /\ Cardinality(R) \in Nat
        BY <2>6, FS_CardinalityType
    <2>8. Cardinality(R) <= Cardinality(Q) /\ (Cardinality(Q) = Cardinality(R) => Q = R)
        BY <2>5, <2>6, FS_Subset
    <2>9. ClosedUnder(p, Q) \/ m < Cardinality(Q)
        <3>1. CASE ClosedUnder(p, R)
            BY <2>5, <3>1
        <3>2. CASE ~ ClosedUnder(p, R)
            BY <1>1, <2>2, <2>5, <2>7, <2>8, <3>2
        <3> QED BY <3>1, <3>2
    <2>10. m \in 0..n
        BY <1>1
    <2> QED BY <2>2, <2>3, <2>5, <2>9, <2>10
<1> HIDE DEF T
<1>7. n \in T
    <2>1. \A m \in 0..n : m \in T
        BY <1>1, <1>5, <1>6, Upto
    <2> QED BY <1>1, <2>1
<1>8. f[n] \in SUBSET TasksOf(p) /\ from \in f[n] /\ (ClosedUnder(p, f[n]) \/ n < Cardinality(f[n]))
    BY <1>7 DEF T
<1>9. Cardinality(f[n]) \in Nat /\ Cardinality(f[n]) <= n
    <2>1. IsFiniteSet(f[n]) /\ Cardinality(f[n]) <= Cardinality(TasksOf(p))
        BY <1>1, <1>8, FS_Subset
    <2> QED BY <2>1, FS_CardinalityType DEF n
<1>10. ClosedUnder(p, f[n])
    BY <1>1, <1>8, <1>9
<1> QED BY <1>3, <1>8, <1>10

LEMMA PlanStarts == ScheduleInit => PlanInv
<1> SUFFICES ASSUME ScheduleInit PROVE PlanInv
    OBVIOUS
<1>1. plan = [cost |-> <<>>, needs |-> <<>>, feeds |-> <<>>, completed |-> {}]
    BY DEF ScheduleInit
<1>2. plan.cost = <<>> /\ plan.needs = <<>> /\ plan.feeds = <<>> /\ plan.completed = {}
    BY <1>1
<1>3. \A S : <<>> \in [{} -> S]
    <2> TAKE S
    <2>1. <<>> \in Seq(S) /\ Len(<<>>) = 0
        BY EmptySeq
    <2>2. <<>> \in [1..0 -> S] /\ 1..0 = {}
        BY <2>1, SeqFacts
    <2> QED BY <2>2
<1>4. TasksOf(plan) = {}
    BY <1>2, <1>3 DEF TasksOf
<1>5. PlanType(plan)
    <2>1. 0 \in Nat /\ 0..(0 - 1) = {}
        OBVIOUS
    <2>2. \E n \in Nat : TasksOf(plan) = 0..(n - 1)
        BY <1>4, <2>1
    <2>3. /\ plan.cost \in [TasksOf(plan) -> Nat] /\ plan.completed \subseteq TasksOf(plan)
          /\ plan.needs \in [TasksOf(plan) -> Seq(TasksOf(plan))]
          /\ plan.feeds \in [TasksOf(plan) -> Seq(TasksOf(plan))]
        BY <1>2, <1>3, <1>4
    <2>4. plan = [cost |-> plan.cost, needs |-> plan.needs, feeds |-> plan.feeds, completed |-> plan.completed]
        BY <1>1, <1>2
    <2> QED BY <2>2, <2>3, <2>4 DEF PlanType
<1>6. Mirrored(plan)
    BY <1>4 DEF Mirrored
<1>7. RankedBy(plan, <<>>, 0)
    BY <1>3, <1>4 DEF RankedBy
<1> QED BY <1>5, <1>6, <1>7 DEF PlanInv, Planned

LEMMA SeqWider ==
    ASSUME NEW S, NEW T, S \subseteq T, NEW s \in Seq(S)
    PROVE  s \in Seq(T)
<1>1. Len(s) \in Nat /\ s \in [1..Len(s) -> S]
    BY SeqFacts
<1>2. s \in [1..Len(s) -> T]
    BY <1>1
<1> QED BY <1>1, <1>2, SeqDef

LEMMA CopiesAppended ==
    ASSUME NEW S, NEW d \in Seq(S), NEW e \in S, NEW x
    PROVE  /\ e = x => Copies(Append(d, e), x) = Copies(d, x) + 1
           /\ e # x => Copies(Append(d, e), x) = Copies(d, x)
<1>1. PICK g : g = Append(d, e)
    OBVIOUS
<1>2. /\ g \in Seq(S) /\ Len(g) = Len(d) + 1 /\ \A i \in 1..Len(d) : g[i] = d[i]
      /\ g[Len(g)] = e
    BY <1>1, AppendFacts
<1>3. /\ g[Len(g)] = x => Copies(g, x) = Copies(d, x) + 1
      /\ g[Len(g)] # x => Copies(g, x) = Copies(d, x)
    BY <1>2, CopiesLonger
<1> QED BY <1>1, <1>2, <1>3

TaskAdded(p, q, id, c) ==
    /\ q = [cost |-> q.cost, needs |-> q.needs, feeds |-> q.feeds, completed |-> q.completed]
    /\ q.cost = [t \in TasksOf(p) \cup {id} |-> IF t = id THEN c ELSE p.cost[t]]
    /\ q.needs = [t \in TasksOf(p) \cup {id} |-> IF t = id THEN <<>> ELSE p.needs[t]]
    /\ q.feeds = [t \in TasksOf(p) \cup {id} |-> IF t = id THEN <<>> ELSE p.feeds[t]]
    /\ q.completed = p.completed

LEMMA TaskAddedPlanned ==
    ASSUME NEW p, Planned(p), NEW id, id = Cardinality(TasksOf(p)), NEW c \in Nat,
           NEW q, TaskAdded(p, q, id, c)
    PROVE  Planned(q)
<1> DEFINE T == TasksOf(p)
           U == T \cup {id}
<1>1. PlanType(p) /\ Mirrored(p)
    BY DEF Planned
<1>2. id \in Nat /\ T = 0..(id - 1)
    BY <1>1, TasksFinite
<1>3. id \notin T /\ U = 0..((id + 1) - 1) /\ id + 1 \in Nat /\ T \subseteq U /\ id \in U
    <2> HIDE DEF T
    <2>1. id \notin T /\ id \in Nat
        BY <1>2
    <2>2. \A x : x \in T \cup {id} <=> x \in 0..((id + 1) - 1)
        BY <1>2
    <2>3. T \cup {id} = 0..((id + 1) - 1)
        BY <2>2
    <2> QED BY <2>1, <2>3
<1>4. TasksOf(q) = U
    BY DEF TaskAdded, TasksOf
<1>5. \A t \in T : p.cost[t] \in Nat /\ p.needs[t] \in Seq(T) /\ p.feeds[t] \in Seq(T)
    BY <1>1 DEF PlanType
<1>6. \A t \in T : p.needs[t] \in Seq(U) /\ p.feeds[t] \in Seq(U)
    BY <1>3, <1>5, SeqWider
<1>7. <<>> \in Seq(U) /\ \A x : Copies(<<>>, x) = 0
    <2>1. <<>> \in Seq(U) /\ Len(<<>>) = 0
        BY EmptySeq
    <2>2. DOMAIN <<>> = {}
        BY <2>1, SeqFacts
    <2>3. \A x : x \notin Range(<<>>)
        BY <2>1, <2>2, RangeFacts
    <2> QED BY <2>1, <2>3, CopiesInRange
<1>8. /\ \A t \in T : q.needs[t] = p.needs[t] /\ q.feeds[t] = p.feeds[t]
      /\ q.needs[id] = <<>> /\ q.feeds[id] = <<>>
    BY <1>3 DEF TaskAdded
<1> HIDE DEF T, U
<1>9. PlanType(q)
    <2>1. q.cost \in [U -> Nat] /\ q.needs \in [U -> Seq(U)] /\ q.feeds \in [U -> Seq(U)]
        BY <1>5, <1>6, <1>7 DEF TaskAdded, T, U
    <2>2. q.completed \subseteq U
        BY <1>1, <1>3 DEF TaskAdded, PlanType, T
    <2>3. q = [cost |-> q.cost, needs |-> q.needs, feeds |-> q.feeds, completed |-> q.completed]
        BY DEF TaskAdded
    <2>4. \E n \in Nat : U = 0..(n - 1)
        BY <1>3
    <2> QED BY <1>4, <2>1, <2>2, <2>3, <2>4 DEF PlanType
<1>10. \A t \in T : Copies(p.needs[t], id) = 0 /\ Copies(p.feeds[t], id) = 0
    <2> TAKE t \in T
    <2>1. id \notin Range(p.needs[t]) /\ id \notin Range(p.feeds[t])
        BY <1>3, <1>5, RangeFacts
    <2> QED BY <1>5, <2>1, CopiesInRange
<1>11. \A t \in U : t \in T \/ t = id
    BY DEF U
<1>12. Mirrored(q)
    <2> SUFFICES ASSUME NEW t \in U, NEW d \in U PROVE Copies(q.needs[t], d) = Copies(q.feeds[d], t)
        BY <1>4 DEF Mirrored
    <2>1. CASE t \in T /\ d \in T
        BY <1>1, <1>8, <2>1 DEF Mirrored, T
    <2>2. CASE t = id /\ d \in T
        BY <1>7, <1>8, <1>10, <2>2
    <2>3. CASE t \in T /\ d = id
        BY <1>7, <1>8, <1>10, <2>3
    <2>4. CASE t = id /\ d = id
        BY <1>7, <1>8, <2>4
    <2> QED BY <1>11, <2>1, <2>2, <2>3, <2>4
<1>13. PICK rank, top : RankedBy(p, rank, top)
    BY DEF Planned
<1>14. PICK r : r = [t \in U |-> IF t = id THEN 0 ELSE rank[t]]
    OBVIOUS
<1>15. /\ \A t \in T : r[t] = rank[t] /\ rank[t] \in Nat /\ rank[t] <= top
       /\ r[id] = 0 /\ top \in Nat
    BY <1>3, <1>13, <1>14 DEF RankedBy, T
<1>16. RankedBy(q, r, top)
    <2>1. r \in [U -> Nat]
        BY <1>11, <1>14, <1>15
    <2>2. \A t \in U : r[t] <= top
        BY <1>11, <1>15
    <2>3. ASSUME NEW t \in U, NEW d \in Range(q.needs[t]) PROVE r[d] < r[t]
        <3>1. CASE t = id
            <4>1. Copies(q.needs[t], d) = 0
                BY <1>7, <1>8, <3>1
            <4>2. q.needs[t] \in Seq(U)
                BY <1>7, <1>8, <3>1
            <4> QED BY <2>3, <4>1, <4>2, CopiesInRange
        <3>2. CASE t \in T
            <4>1. d \in Range(p.needs[t])
                BY <1>8, <2>3, <3>2
            <4>2. d \in T
                BY <1>5, <3>2, <4>1, RangeFacts
            <4>3. rank[d] < rank[t]
                BY <1>13, <3>2, <4>1 DEF RankedBy, T
            <4> QED BY <1>15, <3>2, <4>2, <4>3
        <3> QED BY <1>11, <3>1, <3>2
    <2> QED BY <1>4, <1>15, <2>1, <2>2, <2>3 DEF RankedBy
<1> QED BY <1>9, <1>12, <1>16 DEF Planned

Linked(p, q, t, on) ==
    /\ q = [cost |-> q.cost, needs |-> q.needs, feeds |-> q.feeds, completed |-> q.completed]
    /\ q.cost = p.cost /\ q.completed = p.completed
    /\ q.needs = [p.needs EXCEPT ![t] = Append(p.needs[t], on)]
    /\ q.feeds = [p.feeds EXCEPT ![on] = Append(p.feeds[on], t)]

(* The ranks of the task and of all that it leads to are raised above that *)
(* of the task it now needs, which is not among them.                      *)
LEMMA LinkedPlanned ==
    ASSUME NEW p, Planned(p), NEW t \in TasksOf(p), NEW on \in TasksOf(p),
           on \notin Downstream(p, t), NEW q, Linked(p, q, t, on)
    PROVE  Planned(q)
<1> DEFINE T == TasksOf(p)
           D == Downstream(p, t)
<1>1. PlanType(p) /\ Mirrored(p)
    BY DEF Planned
<1>2. \A x \in T : p.needs[x] \in Seq(T) /\ p.feeds[x] \in Seq(T)
    BY <1>1 DEF PlanType
<1>3. TasksOf(q) = T
    BY DEF Linked, TasksOf
<1>4. Append(p.needs[t], on) \in Seq(T) /\ Append(p.feeds[on], t) \in Seq(T)
    BY <1>2, AppendFacts
<1>5. p.needs \in [T -> Seq(T)] /\ p.feeds \in [T -> Seq(T)]
    BY <1>1 DEF PlanType
<1> HIDE DEF T, D
<1>6. /\ q.needs \in [T -> Seq(T)] /\ q.feeds \in [T -> Seq(T)]
      /\ q.needs[t] = Append(p.needs[t], on) /\ q.feeds[on] = Append(p.feeds[on], t)
      /\ \A x \in T : x # t => q.needs[x] = p.needs[x]
      /\ \A x \in T : x # on => q.feeds[x] = p.feeds[x]
    BY <1>4, <1>5 DEF Linked, T
<1>7. PlanType(q)
    <2>1. q.cost \in [T -> Nat] /\ q.completed \subseteq T /\ \E n \in Nat : T = 0..(n - 1)
        BY <1>1 DEF Linked, PlanType, T
    <2>2. q = [cost |-> q.cost, needs |-> q.needs, feeds |-> q.feeds, completed |-> q.completed]
        BY DEF Linked
    <2> QED BY <1>3, <1>6, <2>1, <2>2 DEF PlanType
<1>8. t \in T /\ on \in T
    BY DEF T
<1>9. \A x : /\ on = x => Copies(q.needs[t], x) = Copies(p.needs[t], x) + 1
             /\ on # x => Copies(q.needs[t], x) = Copies(p.needs[t], x)
    <2> TAKE x
    <2>1. PICK s \in Seq(T) : s = p.needs[t]
        BY <1>2, <1>8
    <2>2. /\ on = x => Copies(Append(s, on), x) = Copies(s, x) + 1
          /\ on # x => Copies(Append(s, on), x) = Copies(s, x)
        BY <1>8, CopiesAppended
    <2> QED BY <1>6, <2>1, <2>2
<1>10. \A x : /\ t = x => Copies(q.feeds[on], x) = Copies(p.feeds[on], x) + 1
              /\ t # x => Copies(q.feeds[on], x) = Copies(p.feeds[on], x)
    <2> TAKE x
    <2>1. PICK s \in Seq(T) : s = p.feeds[on]
        BY <1>2, <1>8
    <2>2. /\ t = x => Copies(Append(s, t), x) = Copies(s, x) + 1
          /\ t # x => Copies(Append(s, t), x) = Copies(s, x)
        BY <1>8, CopiesAppended
    <2> QED BY <1>6, <2>1, <2>2
<1>11. \A x, d \in T : Copies(p.needs[x], d) = Copies(p.feeds[d], x)
    BY <1>1 DEF Mirrored, T
<1>12. Mirrored(q)
    <2> SUFFICES ASSUME NEW x \in T, NEW d \in T PROVE Copies(q.needs[x], d) = Copies(q.feeds[d], x)
        BY <1>3 DEF Mirrored
    <2>1. CASE x = t /\ d = on
        BY <1>9, <1>10, <1>11, <2>1, Zenon
    <2>2. CASE x = t /\ d # on
        BY <1>6, <1>9, <1>11, <2>2, Zenon
    <2>3. CASE x # t /\ d = on
        BY <1>6, <1>10, <1>11, <2>3, Zenon
    <2>4. CASE x # t /\ d # on
        BY <1>6, <1>11, <2>4, Zenon
    <2> QED BY <2>1, <2>2, <2>3, <2>4
<1>13. D \subseteq T /\ t \in D /\ on \notin D
    BY <1>1, SearchIsClosed DEF D, T
<1>14. \A x \in D : \A y \in Range(p.feeds[x]) : y \in D
    BY <1>1, SearchIsClosed DEF D, ClosedUnder
<1>15. \A x \in T : \A d \in Range(q.needs[x]) : d \in T /\ (d \in Range(p.needs[x]) \/ (x = t /\ d = on))
    <2> TAKE x \in T
    <2> TAKE d \in Range(q.needs[x])
    <2>1. PICK g \in Seq(T) : g = q.needs[x]
        BY <1>6
    <2>2. d \in T /\ Copies(g, d) # 0
        BY <2>1, RangeFacts, CopiesInRange
    <2>3. PICK s \in Seq(T) : s = p.needs[x]
        BY <1>2
    <2>4. Copies(s, d) # 0 => d \in Range(s)
        BY CopiesInRange
    <2>5. CASE x = t /\ d = on
        BY <2>2, <2>5
    <2>6. CASE ~ (x = t /\ d = on)
        <3>1. Copies(g, d) = Copies(s, d)
            BY <1>6, <1>9, <2>1, <2>3, <2>6
        <3> QED BY <2>2, <2>3, <2>4, <3>1
    <2> QED BY <2>5, <2>6
<1>16. PICK rank, top : RankedBy(p, rank, top)
    BY DEF Planned
<1>17. /\ \A x \in T : rank[x] \in Nat /\ rank[x] <= top
       /\ \A x \in T : \A d \in Range(p.needs[x]) : rank[d] < rank[x]
       /\ top \in Nat
    BY <1>16 DEF RankedBy, T
<1>18. PICK k \in Nat : k = rank[on] + 1
    BY <1>8, <1>17
<1>19. PICK r : r = [x \in T |-> IF x \in D THEN rank[x] + k ELSE rank[x]]
    OBVIOUS
<1>20. RankedBy(q, r, top + k)
    <2>1. \A x \in T : /\ x \in D => r[x] = rank[x] + k
                       /\ x \notin D => r[x] = rank[x]
        BY <1>19
    <2>2. r \in [T -> Nat] /\ top + k \in Nat
        BY <1>17, <1>19
    <2>3. \A x \in T : r[x] <= top + k
        <3> TAKE x \in T
        <3>1. rank[x] \in Nat /\ rank[x] <= top
            BY <1>17
        <3> QED BY <1>17, <2>1, <3>1
    <2>4. ASSUME NEW x \in T, NEW d \in Range(q.needs[x]) PROVE r[d] < r[x]
        <3>1. d \in T /\ rank[d] \in Nat /\ rank[x] \in Nat
            BY <1>15, <1>17, <2>4
        <3>2. CASE x = t /\ d = on
            <4>1. r[d] = rank[on] /\ r[x] = rank[x] + k
                BY <1>13, <2>1, <3>1, <3>2
            <4> QED BY <1>18, <3>1, <3>2, <4>1
        <3>3. CASE d \in Range(p.needs[x])
            <4>1. rank[d] < rank[x]
                BY <1>17, <3>3
            <4>2. d \in D => x \in D
                <5>1. x \in Range(p.feeds[d])
                    BY <1>1, <3>1, <3>3, FeedsNeeds DEF T
                <5> QED BY <1>14, <5>1
            <4>3. CASE d \in D
                <5>1. r[d] = rank[d] + k /\ r[x] = rank[x] + k
                    BY <2>1, <3>1, <4>2, <4>3
                <5> QED BY <3>1, <4>1, <5>1
            <4>4. CASE d \notin D
                <5>1. r[d] = rank[d]
                    BY <2>1, <3>1, <4>4
                <5>2. r[x] = rank[x] \/ r[x] = rank[x] + k
                    BY <2>1
                <5> QED BY <3>1, <4>1, <5>1, <5>2
            <4> QED BY <4>3, <4>4
        <3> QED BY <1>15, <2>4, <3>2, <3>3
    <2> QED BY <1>3, <2>2, <2>3, <2>4 DEF RankedBy
<1> QED BY <1>7, <1>12, <1>20 DEF Planned

LEMMA PlanInductive == PlanInv /\ [ScheduleNext]_scheduleVars => PlanInv'
<1> SUFFICES ASSUME PlanInv, [ScheduleNext]_scheduleVars PROVE PlanInv'
    OBVIOUS
<1>1. PICK p : p = plan
    OBVIOUS
<1>2. PICK q : q = plan'
    OBVIOUS
<1>3. Planned(p) /\ p = [cost |-> p.cost, needs |-> p.needs, feeds |-> p.feeds, completed |-> p.completed]
    BY <1>1 DEF PlanInv, Planned, PlanType
<1>4. CASE AddTask
    <2>1. PICK c \in Cost : plan' = [plan EXCEPT
            !.cost = [t \in TasksOf(plan) \cup {Cardinality(TasksOf(plan))} |-> IF t = Cardinality(TasksOf(plan)) THEN c ELSE @[t]],
            !.needs = [t \in TasksOf(plan) \cup {Cardinality(TasksOf(plan))} |-> IF t = Cardinality(TasksOf(plan)) THEN <<>> ELSE @[t]],
            !.feeds = [t \in TasksOf(plan) \cup {Cardinality(TasksOf(plan))} |-> IF t = Cardinality(TasksOf(plan)) THEN <<>> ELSE @[t]]]
        BY <1>4, Zenon DEF AddTask
    <2>2. PICK id : id = Cardinality(TasksOf(p))
        OBVIOUS
    <2>3. c \in Nat
        BY ScheduleAssumption
    <2>4. TaskAdded(p, q, id, c)
        BY <1>1, <1>2, <1>3, <2>1, <2>2 DEF TaskAdded
    <2>5. Planned(q)
        BY <1>3, <2>2, <2>3, <2>4, TaskAddedPlanned
    <2> QED BY <1>2, <2>5 DEF PlanInv
<1>5. CASE AddDependency
    <2>1. PICK t \in TasksOf(p), on \in TasksOf(p) :
             /\ ~ CreatesCycle(p, t, on)
             /\ q = [p EXCEPT !.needs[t] = Append(@, on), !.feeds[on] = Append(@, t)]
        BY <1>1, <1>2, <1>5 DEF AddDependency
    <2>2. Linked(p, q, t, on)
        BY <1>3, <2>1 DEF Linked
    <2>3. Planned(q)
        BY <1>3, <2>1, <2>2, LinkedPlanned DEF CreatesCycle
    <2> QED BY <1>2, <2>3 DEF PlanInv
<1>6. CASE MarkCompleted
    <2>1. PICK t \in TasksOf(p) : q = [p EXCEPT !.completed = @ \cup {t}]
        BY <1>1, <1>2, <1>6 DEF MarkCompleted
    <2>2. /\ q.cost = p.cost /\ q.needs = p.needs /\ q.feeds = p.feeds /\ q.completed = p.completed \cup {t}
          /\ q = [cost |-> q.cost, needs |-> q.needs, feeds |-> q.feeds, completed |-> q.completed]
        BY <1>3, <2>1
    <2>3. TasksOf(q) = TasksOf(p)
        BY <2>2 DEF TasksOf
    <2>4. PlanType(q)
        BY <1>3, <2>2, <2>3 DEF Planned, PlanType
    <2>5. Mirrored(q)
        BY <1>3, <2>2, <2>3 DEF Planned, Mirrored
    <2>6. \A rank, top : RankedBy(p, rank, top) => RankedBy(q, rank, top)
        BY <2>2, <2>3 DEF RankedBy
    <2>7. Planned(q)
        BY <1>3, <2>4, <2>5, <2>6 DEF Planned
    <2> QED BY <1>2, <2>7 DEF PlanInv
<1>7. CASE UNCHANGED plan
    BY <1>7 DEF PlanInv
<1> QED BY <1>4, <1>5, <1>6, <1>7 DEF ScheduleNext, HeapNext, PoolNext, PlanNext, scheduleVars

LEMMA PlanHasReady == PlanInv => SomethingIsReady
<1> SUFFICES ASSUME PlanInv, TasksOf(plan) # plan.completed PROVE ReadyTasks(plan) # {}
    BY DEF SomethingIsReady
<1>1. PlanType(plan)
    BY DEF PlanInv, Planned
<1>2. PICK rank, top : RankedBy(plan, rank, top)
    BY DEF PlanInv, Planned
<1> DEFINE left == TasksOf(plan) \ plan.completed
           ranks == {m \in Nat : \E t \in left : rank[t] = m}
<1>3. \A t \in left : rank[t] \in Nat
    BY <1>2 DEF RankedBy
<1>4. left # {}
    BY <1>1 DEF PlanType
<1>5. ranks # {} /\ ranks \in SUBSET Nat
    BY <1>3, <1>4
<1> HIDE DEF ranks
<1>6. PICK m \in ranks : \A k \in ranks : m <= k
    BY <1>5, LeastOf
<1>7. PICK t \in left : rank[t] = m
    BY DEF ranks
<1>8. ASSUME NEW d \in Range(plan.needs[t]) PROVE IsCompleted(plan, d)
    <2>1. ASSUME d \in TasksOf(plan), d \notin plan.completed PROVE FALSE
        <3>1. rank[d] < rank[t]
            BY <1>2, <1>7 DEF RankedBy
        <3>2. d \in left
            BY <2>1
        <3>3. rank[d] \in ranks /\ rank[d] \in Nat /\ rank[t] \in Nat
            BY <1>3, <3>2 DEF ranks
        <3> QED BY <1>6, <1>7, <3>1, <3>3
    <2> QED BY <2>1 DEF IsCompleted
<1>9. t \in ReadyTasks(plan)
    BY <1>7, <1>8 DEF ReadyTasks
<1> QED BY <1>9

-----------------------------------------------------------------------------
(* The sort.  The degree of a task counts what it still waits for; in the  *)
(* middle of a turn, the places of the task just taken that are not looked *)
(* at yet count as well.                                                   *)
Pending(p, t, done) == {i \in DOMAIN p.needs[t] : p.needs[t][i] \notin done}
LaterIn(fs, m, t) == Cardinality({i \in (m + 1)..Len(fs) : fs[i] = t})
SortStates(p) ==
    [deg : [TasksOf(p) -> Nat], queue : Seq(TasksOf(p)), sorted : Seq(TasksOf(p))]
Listed(p, s) ==
    /\ IsInjective(s.queue) /\ IsInjective(s.sorted)
    /\ \A t \in Range(s.queue) : t \notin Range(s.sorted)
    /\ \A t \in TasksOf(p) : s.deg[t] = 0 <=> t \in Range(s.queue) \/ t \in Range(s.sorted)
Ordered(p, o) ==
    \A i \in DOMAIN o : \A d \in Range(p.needs[o[i]]) : \E j \in DOMAIN o : j < i /\ o[j] = d
Lowering(p, s, fs, m) ==
    /\ s \in SortStates(p) /\ Listed(p, s)
    /\ \A t \in TasksOf(p) :
         s.deg[t] = Cardinality(Pending(p, t, Range(s.sorted))) + LaterIn(fs, m, t)
Sorting(p, s) ==
    /\ s \in SortStates(p) /\ Listed(p, s) /\ Ordered(p, s.sorted)
    /\ \A t \in TasksOf(p) : s.deg[t] = Cardinality(Pending(p, t, Range(s.sorted)))

LEMMA AppendedRange ==
    ASSUME NEW S, NEW s \in Seq(S), NEW e \in S
    PROVE  /\ Range(Append(s, e)) = Range(s) \cup {e}
           /\ IsInjective(s) /\ e \notin Range(s) => IsInjective(Append(s, e))
<1> DEFINE n == Len(s)
<1>1. PICK g : g = Append(s, e)
    OBVIOUS
<1>2. /\ g \in Seq(S) /\ DOMAIN g = 1..(n + 1) /\ g[n + 1] = e /\ \A i \in 1..n : g[i] = s[i]
      /\ n \in Nat /\ DOMAIN s = 1..n
    BY <1>1, AppendFacts, SeqFacts
<1> HIDE DEF n
<1>3. \A i \in DOMAIN g : i \in DOMAIN s \/ i = n + 1
    BY <1>2
<1>4. DOMAIN s \subseteq DOMAIN g /\ n + 1 \in DOMAIN g
    BY <1>2
<1>5. \A x : x \in Range(s) <=> \E i \in DOMAIN s : s[i] = x
    BY DEF Range
<1>6. \A x : x \in Range(g) <=> \E i \in DOMAIN g : g[i] = x
    BY DEF Range
<1>7. \A x : x \in Range(g) <=> x \in Range(s) \/ x = e
    BY <1>2, <1>3, <1>4, <1>5, <1>6
<1>8. Range(g) = Range(s) \cup {e}
    BY <1>7
<1>9. ASSUME IsInjective(s), e \notin Range(s) PROVE IsInjective(g)
    <2> SUFFICES ASSUME NEW i \in DOMAIN g, NEW j \in DOMAIN g, g[i] = g[j] PROVE i = j
        BY DEF IsInjective
    <2>1. \A k \in DOMAIN s : g[k] = s[k] /\ s[k] # e
        BY <1>2, <1>5, <1>9
    <2>2. CASE i \in DOMAIN s /\ j \in DOMAIN s
        BY <1>9, <2>1, <2>2 DEF IsInjective
    <2>3. CASE i = n + 1 \/ j = n + 1
        BY <1>2, <1>3, <2>1, <2>3
    <2> QED BY <1>3, <2>2, <2>3
<1> QED BY <1>1, <1>8, <1>9

LEMMA FrontRange ==
    ASSUME NEW S, NEW s \in Seq(S), s # <<>>, IsInjective(s)
    PROVE  /\ IsInjective(Front(s)) /\ Range(s) = Range(Front(s)) \cup {Last(s)}
           /\ Last(s) \notin Range(Front(s)) /\ Last(s) \in S /\ Front(s) \in Seq(S)
<1> DEFINE n == Len(s)
<1>1. PICK g : g = Front(s)
    OBVIOUS
<1>2. /\ g \in Seq(S) /\ DOMAIN g = 1..(n - 1) /\ \A i \in 1..(n - 1) : g[i] = s[i]
      /\ n \in Nat \ {0} /\ DOMAIN s = 1..n /\ Last(s) = s[n] /\ s[n] \in S
    BY <1>1, FrontFacts, SeqFacts
<1> HIDE DEF n
<1>3. \A i \in DOMAIN s : i \in DOMAIN g \/ i = n
    BY <1>2
<1>4. DOMAIN g \subseteq DOMAIN s /\ n \in DOMAIN s /\ n \notin DOMAIN g
    BY <1>2
<1>5. \A x : x \in Range(s) <=> \E i \in DOMAIN s : s[i] = x
    BY DEF Range
<1>6. \A x : x \in Range(g) <=> \E i \in DOMAIN g : g[i] = x
    BY DEF Range
<1>7. \A x : x \in Range(s) <=> x \in Range(g) \/ x = s[n]
    BY <1>2, <1>3, <1>4, <1>5, <1>6
<1>8. Range(s) = Range(g) \cup {s[n]}
    BY <1>7
<1>9. IsInjective(g)
    BY <1>2, <1>4 DEF IsInjective
<1>10. s[n] \notin Range(g)
    BY <1>2, <1>4, <1>6 DEF IsInjective
<1> QED BY <1>1, <1>2, <1>8, <1>9, <1>10

LEMMA PlacesFinite ==
    ASSUME NEW S, NEW fs \in Seq(S), NEW t
    PROVE  /\ \A m \in 0..Len(fs) : LaterIn(fs, m, t) \in Nat
           /\ LaterIn(fs, Len(fs), t) = 0 /\ LaterIn(fs, 0, t) = Copies(fs, t)
           /\ \A m \in 1..Len(fs) :
                /\ fs[m] = t => LaterIn(fs, m - 1, t) = LaterIn(fs, m, t) + 1
                /\ fs[m] # t => LaterIn(fs, m - 1, t) = LaterIn(fs, m, t)
<1> DEFINE n == Len(fs)
           at(m) == {i \in (m + 1)..n : fs[i] = t}
<1>1. n \in Nat /\ DOMAIN fs = 1..n
    BY SeqFacts
<1>2. \A m : LaterIn(fs, m, t) = Cardinality(at(m))
    BY DEF LaterIn
<1> HIDE DEF n
<1>3. \A m \in 0..n : IsFiniteSet(at(m))
    <2> TAKE m \in 0..n
    <2>1. IsFiniteSet((m + 1)..n)
        BY <1>1, FS_Interval
    <2>2. at(m) \in SUBSET ((m + 1)..n)
        OBVIOUS
    <2> QED BY <2>1, <2>2, FS_Subset
<1>4. \A m \in 0..n : Cardinality(at(m)) \in Nat
    BY <1>3, FS_CardinalityType
<1>5. at(n) = {} /\ Cardinality({}) = 0
    BY <1>1, FS_EmptySet
<1>6. Cardinality(at(0)) = Copies(fs, t)
    <2>1. at(0) = {i \in DOMAIN fs : fs[i] = t}
        BY <1>1
    <2> QED BY <2>1 DEF Copies
<1>7. ASSUME NEW m \in 1..n
      PROVE  /\ fs[m] = t => Cardinality(at(m - 1)) = Cardinality(at(m)) + 1
             /\ fs[m] # t => Cardinality(at(m - 1)) = Cardinality(at(m))
    <2>1. m \in 0..n /\ IsFiniteSet(at(m))
        BY <1>1, <1>3
    <2>2. ASSUME fs[m] = t PROVE at(m - 1) = at(m) \cup {m} /\ m \notin at(m)
        BY <1>1, <2>2
    <2>3. ASSUME fs[m] # t PROVE at(m - 1) = at(m)
        BY <1>1, <2>3
    <2> HIDE DEF at
    <2>4. m \notin at(m) => Cardinality(at(m) \cup {m}) = Cardinality(at(m)) + 1
        BY <2>1, FS_AddElement
    <2> QED BY <2>2, <2>3, <2>4
<1> HIDE DEF at
<1> QED BY <1>2, <1>4, <1>5, <1>6, <1>7 DEF n

LEMMA LoweredTyped ==
    ASSUME NEW p, NEW s \in SortStates(p), NEW d \in TasksOf(p)
    PROVE  Lowered(s, d) \in SortStates(p)
<1>1. s.deg \in [TasksOf(p) -> Nat] /\ s.queue \in Seq(TasksOf(p)) /\ s.sorted \in Seq(TasksOf(p))
    BY DEF SortStates
<1>2. PICK left : left = IF s.deg[d] = 0 THEN 0 ELSE s.deg[d] - 1
    OBVIOUS
<1>3. left \in Nat
    BY <1>1, <1>2
<1>4. [s.deg EXCEPT ![d] = left] \in [TasksOf(p) -> Nat]
    BY <1>1, <1>3
<1>5. Append(s.queue, d) \in Seq(TasksOf(p))
    BY <1>1, AppendFacts
<1>6. Lowered(s, d) = [deg |-> [s.deg EXCEPT ![d] = left],
                       queue |-> IF left = 0 THEN Append(s.queue, d) ELSE s.queue, sorted |-> s.sorted]
    BY <1>2 DEF Lowered
<1> QED BY <1>1, <1>4, <1>5, <1>6 DEF SortStates

LEMMA PendingFinite ==
    ASSUME NEW p, PlanType(p), NEW t \in TasksOf(p), NEW done
    PROVE  IsFiniteSet(Pending(p, t, done)) /\ Cardinality(Pending(p, t, done)) \in Nat
<1>1. p.needs[t] \in Seq(TasksOf(p))
    BY DEF PlanType
<1>2. DOMAIN p.needs[t] = 1..Len(p.needs[t]) /\ Len(p.needs[t]) \in Nat
    BY <1>1, SeqFacts
<1>3. IsFiniteSet(DOMAIN p.needs[t])
    BY <1>2, FS_Interval
<1>4. Pending(p, t, done) \in SUBSET (DOMAIN p.needs[t])
    BY DEF Pending
<1>5. IsFiniteSet(Pending(p, t, done))
    BY <1>3, <1>4, FS_Subset
<1> QED BY <1>5, FS_CardinalityType

LEMMA LoweredKeeps ==
    ASSUME NEW p, PlanType(p), NEW fs \in Seq(TasksOf(p)), NEW m \in 1..Len(fs),
           NEW s, Lowering(p, s, fs, m - 1)
    PROVE  Lowering(p, Lowered(s, fs[m]), fs, m) /\ Lowered(s, fs[m]).sorted = s.sorted
<1> DEFINE T == TasksOf(p)
           pend(t) == Cardinality(Pending(p, t, Range(s.sorted)))
<1>1. PICK d \in T : d = fs[m]
    BY SeqFacts
<1>2. s \in SortStates(p) /\ Listed(p, s) /\ \A t \in T : s.deg[t] = pend(t) + LaterIn(fs, m - 1, t)
    BY DEF Lowering
<1>3. /\ s.deg \in [T -> Nat] /\ s.queue \in Seq(T) /\ s.sorted \in Seq(T)
    BY <1>2 DEF SortStates
<1>4. PICK u : u = Lowered(s, d)
    OBVIOUS
<1>5. u \in SortStates(p)
    BY <1>2, <1>4, LoweredTyped
<1>6. \A t \in T : LaterIn(fs, m, t) \in Nat
    <2>1. Len(fs) \in Nat
        BY SeqFacts
    <2>2. m \in 0..Len(fs)
        BY <2>1
    <2> QED BY <2>2, PlacesFinite
<1>7. \A t \in T : /\ t = d => LaterIn(fs, m - 1, t) = LaterIn(fs, m, t) + 1
                   /\ t # d => LaterIn(fs, m - 1, t) = LaterIn(fs, m, t)
    BY <1>1, PlacesFinite
<1>8. \A t \in T : pend(t) \in Nat
    BY PendingFinite
<1>9. PICK left : left = s.deg[d] - 1
    OBVIOUS
<1>10. s.deg[d] # 0 /\ left \in Nat /\ left = pend(d) + LaterIn(fs, m, d)
    <2>1. s.deg[d] = pend(d) + (LaterIn(fs, m, d) + 1)
        BY <1>2, <1>7
    <2>2. pend(d) \in Nat /\ LaterIn(fs, m, d) \in Nat
        BY <1>6, <1>8
    <2> QED BY <1>9, <2>1, <2>2
<1> HIDE DEF pend, T
<1>11. u = [deg |-> [s.deg EXCEPT ![d] = left],
            queue |-> IF left = 0 THEN Append(s.queue, d) ELSE s.queue, sorted |-> s.sorted]
    BY <1>4, <1>9, <1>10 DEF Lowered
<1>12. /\ u.sorted = s.sorted /\ u.deg[d] = left /\ \A t \in T : t # d => u.deg[t] = s.deg[t]
       /\ left = 0 => u.queue = Append(s.queue, d)
       /\ left # 0 => u.queue = s.queue
    BY <1>3, <1>11
<1>13. \A t \in T : u.deg[t] = pend(t) + LaterIn(fs, m, t)
    <2> TAKE t \in T
    <2>1. CASE t = d
        BY <1>10, <1>12, <2>1
    <2>2. CASE t # d
        <3>1. s.deg[t] = pend(t) + LaterIn(fs, m - 1, t) /\ LaterIn(fs, m - 1, t) = LaterIn(fs, m, t)
            BY <1>2, <1>7, <2>2
        <3> QED BY <1>12, <2>2, <3>1
    <2> QED BY <2>1, <2>2
<1>14. /\ IsInjective(s.queue) /\ IsInjective(s.sorted)
       /\ \A t \in Range(s.queue) : t \notin Range(s.sorted)
       /\ \A t \in T : s.deg[t] = 0 <=> t \in Range(s.queue) \/ t \in Range(s.sorted)
    BY <1>2 DEF Listed, T
<1>15. d \notin Range(s.queue) /\ d \notin Range(s.sorted)
    BY <1>10, <1>14
<1>16. Listed(p, u)
    <2>1. CASE left = 0
        <3>1. Range(u.queue) = Range(s.queue) \cup {d} /\ IsInjective(u.queue)
            <4>1. PICK w \in Seq(T) : w = s.queue
                BY <1>3
            <4>2. /\ Range(Append(w, d)) = Range(w) \cup {d}
                  /\ IsInjective(w) /\ d \notin Range(w) => IsInjective(Append(w, d))
                BY AppendedRange
            <4> QED BY <1>12, <1>14, <1>15, <2>1, <4>1, <4>2
        <3>2. \A t \in T : u.deg[t] = 0 <=> t \in Range(u.queue) \/ t \in Range(u.sorted)
            BY <1>12, <1>14, <2>1, <3>1
        <3> QED BY <1>12, <1>14, <1>15, <3>1, <3>2 DEF Listed, T
    <2>2. CASE left # 0
        <3>1. \A t \in T : u.deg[t] = 0 <=> t \in Range(u.queue) \/ t \in Range(u.sorted)
            BY <1>12, <1>14, <1>15, <2>2
        <3> QED BY <1>12, <1>14, <2>2, <3>1 DEF Listed, T
    <2> QED BY <2>1, <2>2
<1>17. Lowering(p, u, fs, m)
    BY <1>5, <1>12, <1>13, <1>16 DEF Lowering, pend, T
<1> QED BY <1>1, <1>4, <1>12, <1>17

LowerCourse(f, n, s, fs) == f = [m \in 0..n |-> IF m = 0 THEN s ELSE Lowered(f[m - 1], fs[m])]

LEMMA LowerCourseExists ==
    ASSUME NEW p, NEW fs \in Seq(TasksOf(p)), NEW s \in SortStates(p), NEW n, n = Len(fs)
    PROVE  \E f : LowerCourse(f, n, s, fs)
<1> DEFINE S == SortStates(p)
           step == [x \in (1..n) \X S |-> Lowered(x[2], fs[x[1]])]
<1>1. n \in Nat /\ \A m \in 1..n : fs[m] \in TasksOf(p)
    BY SeqFacts
<1>2. step \in [(1..n) \X S -> S] /\ s \in S
    <2>1. \A m \in 1..n : \A u \in S : Lowered(u, fs[m]) \in S
        BY <1>1, LoweredTyped
    <2> QED BY <2>1
<1> HIDE DEF step, S
<1>3. PICK f \in [0..n -> S] : CourseOf(f, n, s, step)
    BY <1>1, <1>2, TurnsExist
<1>4. \A m \in 1..n : m \in 0..n /\ m - 1 \in 0..n /\ m # 0
    BY <1>1
<1>5. \A m \in 1..n : f[m] = Lowered(f[m - 1], fs[m])
    <2> TAKE m \in 1..n
    <2>1. f[m - 1] \in S
        BY <1>3, <1>4
    <2>2. <<m, f[m - 1]>> \in (1..n) \X S
        BY <2>1
    <2>3. step[<<m, f[m - 1]>>] = Lowered(f[m - 1], fs[m])
        BY <2>2 DEF step
    <2> QED BY <1>3, <2>3 DEF CourseOf
<1>6. f[0] = s
    BY <1>3 DEF CourseOf
<1>7. \A m \in 0..n : f[m] = IF m = 0 THEN s ELSE Lowered(f[m - 1], fs[m])
    <2>1. \A m \in 0..n : m = 0 \/ m \in 1..n
        BY <1>1
    <2> QED BY <1>4, <1>5, <1>6, <2>1, Zenon
<1>8. f = [m \in 0..n |-> f[m]]
    BY <1>3
<1>9. f = [m \in 0..n |-> IF m = 0 THEN s ELSE Lowered(f[m - 1], fs[m])]
    BY <1>7, <1>8, Zenon
<1> QED BY <1>9, Zenon DEF LowerCourse

LEMMA AllLowered ==
    ASSUME NEW p, PlanType(p), NEW fs \in Seq(TasksOf(p)), NEW s, Lowering(p, s, fs, 0)
    PROVE  Lowering(p, LoweredAll(s, fs), fs, Len(fs)) /\ LoweredAll(s, fs).sorted = s.sorted
<1> DEFINE n == Len(fs)
           f == CHOOSE h : LowerCourse(h, n, s, fs)
<1>1. n \in Nat /\ s \in SortStates(p)
    BY SeqFacts DEF Lowering
<1>2. LowerCourse(f, n, s, fs)
    BY <1>1, LowerCourseExists
<1>3. LoweredAll(s, fs) = f[n]
    BY DEF LoweredAll, LowerCourse
<1> HIDE DEF f
<1>4. f[0] = s /\ \A m \in 1..n : f[m] = Lowered(f[m - 1], fs[m])
    <2>1. \A m \in 1..n : m \in 0..n /\ m # 0
        BY <1>1
    <2>2. 0 \in 0..n
        BY <1>1
    <2> QED BY <1>2, <2>1, <2>2 DEF LowerCourse
<1> DEFINE T == {m \in 0..n : Lowering(p, f[m], fs, m) /\ f[m].sorted = s.sorted}
<1>5. 0 \in T
    BY <1>1, <1>4
<1>6. ASSUME NEW m \in 1..n, m - 1 \in T PROVE m \in T
    <2>1. PICK u : u = f[m - 1]
        OBVIOUS
    <2>2. Lowering(p, u, fs, m - 1) /\ u.sorted = s.sorted
        BY <1>6, <2>1
    <2>3. Lowering(p, Lowered(u, fs[m]), fs, m) /\ Lowered(u, fs[m]).sorted = u.sorted
        BY <2>2, LoweredKeeps
    <2>4. m \in 0..n
        BY <1>1
    <2> QED BY <1>4, <2>1, <2>2, <2>3, <2>4
<1> HIDE DEF T
<1>7. n \in T
    <2>1. \A m \in 0..n : m \in T
        BY <1>1, <1>5, <1>6, Upto
    <2> QED BY <1>1, <2>1
<1> QED BY <1>3, <1>7 DEF T

LEMMA PendingTaken ==
    ASSUME NEW p, PlanType(p), NEW t \in TasksOf(p), NEW done, NEW x, x \notin done
    PROVE  Cardinality(Pending(p, t, done)) = Cardinality(Pending(p, t, done \cup {x})) + Copies(p.needs[t], x)
<1> DEFINE A == Pending(p, t, done \cup {x})
           B == PlacesOf(p.needs[t], x)
<1>1. IsFiniteSet(A) /\ Cardinality(A) \in Nat
    BY PendingFinite
<1>2. p.needs[t] \in Seq(TasksOf(p))
    BY DEF PlanType
<1>3. IsFiniteSet(B) /\ Copies(p.needs[t], x) = Cardinality(B) /\ Cardinality(B) \in Nat
    BY <1>2, CopiesFinite
<1>4. Pending(p, t, done) = A \cup B /\ A \cap B = {}
    BY DEF Pending, PlacesOf
<1> HIDE DEF A, B
<1>5. Cardinality(A \cup B) = Cardinality(A) + Cardinality(B) - Cardinality(A \cap B)
    BY <1>1, <1>3, FS_Union
<1>6. Cardinality({}) = 0
    BY FS_EmptySet
<1>7. Cardinality(Pending(p, t, done)) = Cardinality(A) + Cardinality(B)
    <2>1. Cardinality(A \cap B) = 0
        BY <1>4, <1>6, Zenon
    <2>2. Cardinality(Pending(p, t, done)) = Cardinality(A \cup B)
        BY <1>4, Zenon
    <2> QED BY <1>1, <1>3, <1>5, <2>1, <2>2
<1> QED BY <1>3, <1>7 DEF A

LEMMA TakenSorts ==
    ASSUME NEW p, Planned(p), NEW s, Sorting(p, s), s.queue # <<>>
    PROVE  Sorting(p, Taken(p, s)) /\ Len(Taken(p, s).sorted) = Len(s.sorted) + 1
<1> DEFINE T == TasksOf(p)
           x == Last(s.queue)
           o == Append(s.sorted, x)
           fs == p.feeds[x]
           u == [deg |-> s.deg, queue |-> Front(s.queue), sorted |-> o]
           v == LoweredAll(u, fs)
<1>1. PlanType(p) /\ Mirrored(p)
    BY DEF Planned
<1>2. s \in SortStates(p) /\ Listed(p, s) /\ Ordered(p, s.sorted)
      /\ \A t \in T : s.deg[t] = Cardinality(Pending(p, t, Range(s.sorted)))
    BY DEF Sorting
<1>3. s.deg \in [T -> Nat] /\ s.queue \in Seq(T) /\ s.sorted \in Seq(T)
    BY <1>2 DEF SortStates
<1>4. /\ IsInjective(s.queue) /\ IsInjective(s.sorted)
      /\ \A t \in Range(s.queue) : t \notin Range(s.sorted)
      /\ \A t \in T : s.deg[t] = 0 <=> t \in Range(s.queue) \/ t \in Range(s.sorted)
    BY <1>2 DEF Listed
<1>5. Taken(p, s) = v
    BY DEF Taken
<1>6. /\ IsInjective(Front(s.queue)) /\ Range(s.queue) = Range(Front(s.queue)) \cup {x}
      /\ x \notin Range(Front(s.queue)) /\ x \in T /\ Front(s.queue) \in Seq(T)
    <2>1. PICK w \in Seq(T) : w = s.queue
        BY <1>3
    <2>2. /\ IsInjective(Front(w)) /\ Range(w) = Range(Front(w)) \cup {Last(w)}
          /\ Last(w) \notin Range(Front(w)) /\ Last(w) \in T /\ Front(w) \in Seq(T)
        BY <1>4, <2>1, FrontRange
    <2> QED BY <2>1, <2>2
<1>7. PICK r \in Seq(T) : r = s.sorted
    BY <1>3
<1>8. /\ o \in Seq(T) /\ Len(o) = Len(r) + 1 /\ DOMAIN o = 1..(Len(r) + 1) /\ o[Len(r) + 1] = x
      /\ \A i \in 1..Len(r) : o[i] = r[i]
      /\ Len(r) \in Nat /\ DOMAIN r = 1..Len(r)
    <2>1. o = Append(r, x)
        BY <1>7
    <2> QED BY <1>6, <2>1, AppendFacts, SeqFacts
<1>9. x \notin Range(r) /\ s.deg[x] = 0
    BY <1>4, <1>6, <1>7
<1>10. Range(o) = Range(r) \cup {x} /\ IsInjective(o)
    <2>1. /\ Range(Append(r, x)) = Range(r) \cup {x}
          /\ IsInjective(r) /\ x \notin Range(r) => IsInjective(Append(r, x))
        BY <1>6, AppendedRange
    <2> QED BY <1>4, <1>7, <1>9, <2>1
<1>11. u.deg = s.deg /\ u.queue = Front(s.queue) /\ u.sorted = o
    OBVIOUS
<1>12. u \in SortStates(p)
    BY <1>3, <1>6, <1>8 DEF SortStates
<1>13. fs \in Seq(T)
    BY <1>1, <1>6 DEF PlanType
<1> HIDE DEF x, o, fs, u, v, T
<1>14. Listed(p, u)
    <2>1. \A t \in Range(u.queue) : t \notin Range(u.sorted)
        BY <1>4, <1>6, <1>7, <1>10, <1>11
    <2>2. \A t \in T : u.deg[t] = 0 <=> t \in Range(u.queue) \/ t \in Range(u.sorted)
        BY <1>4, <1>6, <1>7, <1>10, <1>11
    <2> QED BY <1>6, <1>10, <1>11, <2>1, <2>2 DEF Listed, T
<1>15. \A t \in T : u.deg[t] = Cardinality(Pending(p, t, Range(u.sorted))) + LaterIn(fs, 0, t)
    <2> TAKE t \in T
    <2>1. Cardinality(Pending(p, t, Range(r))) = Cardinality(Pending(p, t, Range(r) \cup {x})) + Copies(p.needs[t], x)
        BY <1>1, <1>9, PendingTaken DEF T
    <2>2. Copies(p.needs[t], x) = Copies(fs, t)
        BY <1>1, <1>6 DEF Mirrored, T, fs
    <2>3. LaterIn(fs, 0, t) = Copies(fs, t)
        BY <1>13, PlacesFinite
    <2>4. s.deg[t] = Cardinality(Pending(p, t, Range(r)))
        BY <1>2, <1>7
    <2> QED BY <1>10, <1>11, <2>1, <2>2, <2>3, <2>4
<1>16. Lowering(p, u, fs, 0)
    BY <1>12, <1>14, <1>15 DEF Lowering, T
<1>17. Lowering(p, v, fs, Len(fs)) /\ v.sorted = o
    BY <1>1, <1>11, <1>13, <1>16, AllLowered DEF v, T
<1>18. \A t \in T : v.deg[t] = Cardinality(Pending(p, t, Range(v.sorted)))
    <2> TAKE t \in T
    <2>1. LaterIn(fs, Len(fs), t) = 0
        BY <1>13, PlacesFinite
    <2>2. v.deg[t] = Cardinality(Pending(p, t, Range(v.sorted))) + LaterIn(fs, Len(fs), t)
        BY <1>17 DEF Lowering, T
    <2>3. Cardinality(Pending(p, t, Range(v.sorted))) \in Nat
        BY <1>1, PendingFinite DEF T
    <2> QED BY <2>1, <2>2, <2>3
<1>19. ASSUME NEW d \in Range(p.needs[x]) PROVE d \in Range(r)
    <2>1. Cardinality(Pending(p, x, Range(r))) = 0
        BY <1>2, <1>6, <1>7, <1>9
    <2>2. IsFiniteSet(Pending(p, x, Range(r)))
        BY <1>1, <1>6, PendingFinite DEF T
    <2>3. Pending(p, x, Range(r)) = {}
        BY <2>1, <2>2, FS_EmptySet
    <2>4. PICK i \in DOMAIN p.needs[x] : p.needs[x][i] = d
        BY <1>19 DEF Range
    <2> QED BY <2>3, <2>4 DEF Pending
<1>20. Ordered(p, o)
    <2> SUFFICES ASSUME NEW i \in DOMAIN o, NEW d \in Range(p.needs[o[i]])
                 PROVE  \E j \in DOMAIN o : j < i /\ o[j] = d
        BY DEF Ordered
    <2>1. CASE i \in DOMAIN r
        <3>1. o[i] = r[i]
            BY <1>8, <2>1
        <3>2. PICK j \in DOMAIN r : j < i /\ r[j] = d
            BY <1>2, <1>7, <2>1, <3>1 DEF Ordered
        <3>3. j \in DOMAIN o /\ o[j] = d
            BY <1>8, <3>2
        <3> QED BY <3>2, <3>3
    <2>2. CASE i = Len(r) + 1
        <3>1. d \in Range(r)
            BY <1>8, <1>19, <2>2
        <3>2. PICK j \in DOMAIN r : r[j] = d
            BY <3>1 DEF Range
        <3>3. j \in DOMAIN o /\ o[j] = d /\ j < i
            BY <1>8, <2>2, <3>2
        <3> QED BY <3>3
    <2>3. i \in DOMAIN r \/ i = Len(r) + 1
        BY <1>8
    <2> QED BY <2>1, <2>2, <2>3
<1>21. Sorting(p, v)
    BY <1>17, <1>18, <1>20 DEF Sorting, Lowering, T
<1> QED BY <1>5, <1>7, <1>8, <1>17, <1>21

SortStart(p, first) == [deg |-> [t \in TasksOf(p) |-> Len(p.needs[t])], queue |-> first, sorted |-> <<>>]
DrainCourse(f, n, p, first) ==
    f = [m \in 0..n |-> IF m = 0
                        THEN [deg |-> [t \in TasksOf(p) |-> Len(p.needs[t])], queue |-> first, sorted |-> <<>>]
                        ELSE Taken(p, f[m - 1])]

LEMMA TakenStays ==
    ASSUME NEW p, Planned(p), NEW s, Sorting(p, s)
    PROVE  Sorting(p, Taken(p, s)) /\ (s.queue = <<>> => Taken(p, s) = s)
<1>1. CASE s.queue = <<>>
    BY <1>1 DEF Taken
<1>2. CASE s.queue # <<>>
    BY <1>2, TakenSorts
<1> QED BY <1>1, <1>2

LEMMA DrainCourseExists ==
    ASSUME NEW p, Planned(p), NEW first, Sorting(p, SortStart(p, first)), NEW n \in Nat
    PROVE  \E f : DrainCourse(f, n, p, first)
<1> DEFINE S == {s \in SortStates(p) : Sorting(p, s)}
           a == SortStart(p, first)
           step == [x \in (1..n) \X S |-> Taken(p, x[2])]
<1>1. \A s : Sorting(p, s) => s \in S
    BY DEF Sorting
<1>2. \A s \in S : Taken(p, s) \in S
    <2> TAKE s \in S
    <2>1. Sorting(p, Taken(p, s))
        BY TakenStays
    <2> QED BY <1>1, <2>1
<1>3. a \in S
    BY <1>1
<1> HIDE DEF S, a
<1>4. step \in [(1..n) \X S -> S]
    BY <1>2
<1> HIDE DEF step
<1>5. PICK f \in [0..n -> S] : CourseOf(f, n, a, step)
    BY <1>3, <1>4, TurnsExist
<1>6. \A m \in 1..n : m \in 0..n /\ m - 1 \in 0..n /\ m # 0
    OBVIOUS
<1>7. \A m \in 1..n : f[m] = Taken(p, f[m - 1])
    <2> TAKE m \in 1..n
    <2>1. f[m - 1] \in S
        BY <1>5, <1>6
    <2>2. <<m, f[m - 1]>> \in (1..n) \X S
        BY <2>1
    <2>3. step[<<m, f[m - 1]>>] = Taken(p, f[m - 1])
        BY <2>2 DEF step
    <2> QED BY <1>5, <2>3 DEF CourseOf
<1>8. f[0] = a
    BY <1>5 DEF CourseOf
<1>9. \A m \in 0..n : f[m] = IF m = 0 THEN a ELSE Taken(p, f[m - 1])
    <2>1. \A m \in 0..n : m = 0 \/ m \in 1..n
        OBVIOUS
    <2> QED BY <1>6, <1>7, <1>8, <2>1, Zenon
<1>10. f = [m \in 0..n |-> f[m]]
    BY <1>5
<1>11. f = [m \in 0..n |-> IF m = 0 THEN a ELSE Taken(p, f[m - 1])]
    BY <1>9, <1>10, Zenon
<1> QED BY <1>11, Zenon DEF DrainCourse, SortStart, a

LEMMA NoLonger ==
    ASSUME NEW S, IsFiniteSet(S), NEW s \in Seq(S), IsInjective(s)
    PROVE  Len(s) <= Cardinality(S)
<1>1. Len(s) \in Nat /\ s \in [1..Len(s) -> S] /\ DOMAIN s = 1..Len(s)
    BY SeqFacts
<1>2. s \in Injection(1..Len(s), S)
    BY <1>1 DEF Injection, IsInjective
<1>3. Cardinality(1..Len(s)) <= Cardinality(S)
    BY <1>2, FS_Injection
<1>4. Cardinality(1..Len(s)) = Len(s)
    BY <1>1, FS_Interval
<1> QED BY <1>3, <1>4

LEMMA DrainedSorts ==
    ASSUME NEW p, Planned(p), NEW first, Sorting(p, SortStart(p, first))
    PROVE  Sorting(p, Drained(p, first)) /\ Drained(p, first).queue = <<>>
<1> DEFINE n == Cardinality(TasksOf(p)) + 1
           f == CHOOSE h : DrainCourse(h, n, p, first)
<1>1. IsFiniteSet(TasksOf(p)) /\ Cardinality(TasksOf(p)) \in Nat /\ n \in Nat
    BY TasksFinite DEF Planned
<1>2. DrainCourse(f, n, p, first)
    BY <1>1, DrainCourseExists
<1>3. Drained(p, first) = f[n]
    BY DEF Drained, DrainCourse
<1> HIDE DEF f, n
<1>4. f[0] = SortStart(p, first) /\ \A m \in 1..n : f[m] = Taken(p, f[m - 1])
    <2>1. \A m \in 1..n : m \in 0..n /\ m # 0
        BY <1>1
    <2>2. 0 \in 0..n
        BY <1>1
    <2> QED BY <1>2, <2>1, <2>2 DEF DrainCourse, SortStart
<1> DEFINE T == {m \in 0..n : Sorting(p, f[m]) /\ (f[m].queue = <<>> \/ m <= Len(f[m].sorted))}
<1>5. 0 \in T
    <2>1. f[0].sorted = <<>> /\ Len(<<>>) = 0 /\ 0 \in 0..n
        BY <1>1, <1>4, EmptySeq DEF SortStart
    <2>2. 0 <= Len(f[0].sorted)
        BY <2>1
    <2> QED BY <1>4, <2>1, <2>2
<1>6. ASSUME NEW m \in 1..n, m - 1 \in T PROVE m \in T
    <2>1. PICK s : s = f[m - 1]
        OBVIOUS
    <2>2. Sorting(p, s) /\ (s.queue = <<>> \/ m - 1 <= Len(s.sorted))
        BY <1>6, <2>1
    <2>3. f[m] = Taken(p, s)
        BY <1>4, <2>1
    <2>4. Sorting(p, Taken(p, s)) /\ (s.queue = <<>> => Taken(p, s) = s)
        BY <2>2, TakenStays
    <2>5. s.queue # <<>> => Len(Taken(p, s).sorted) = Len(s.sorted) + 1
        BY <2>2, TakenSorts
    <2>6. s.sorted \in Seq(TasksOf(p))
        BY <2>2 DEF Sorting, SortStates
    <2>7. Len(s.sorted) \in Nat
        BY <2>6, SeqFacts
    <2>8. m \in 0..n
        BY <1>1
    <2>9. f[m].queue = <<>> \/ m <= Len(f[m].sorted)
        BY <2>2, <2>3, <2>4, <2>5, <2>7
    <2> QED BY <2>3, <2>4, <2>8, <2>9
<1> HIDE DEF T
<1>7. n \in T
    <2>1. \A m \in 0..n : m \in T
        BY <1>1, <1>5, <1>6, Upto
    <2> QED BY <1>1, <2>1
<1>8. Sorting(p, f[n]) /\ (f[n].queue = <<>> \/ n <= Len(f[n].sorted))
    BY <1>7 DEF T
<1>9. f[n].sorted \in Seq(TasksOf(p)) /\ IsInjective(f[n].sorted)
    BY <1>8 DEF Sorting, SortStates, Listed
<1>10. Len(f[n].sorted) <= Cardinality(TasksOf(p)) /\ Len(f[n].sorted) \in Nat
    <2>1. PICK r \in Seq(TasksOf(p)) : r = f[n].sorted
        BY <1>9
    <2>2. Len(r) <= Cardinality(TasksOf(p)) /\ Len(r) \in Nat
        BY <1>1, <1>9, <2>1, NoLonger, SeqFacts
    <2> QED BY <2>1, <2>2
<1>11. f[n].queue = <<>>
    BY <1>1, <1>8, <1>10 DEF n
<1> QED BY <1>3, <1>8, <1>11

LEMMA DrainedListsAll ==
    ASSUME NEW p, Planned(p), NEW s, Sorting(p, s), s.queue = <<>>
    PROVE  Range(s.sorted) = TasksOf(p)
<1> DEFINE T == TasksOf(p)
<1>1. PlanType(p)
    BY DEF Planned
<1>2. PICK rank, top : RankedBy(p, rank, top)
    BY DEF Planned
<1>3. /\ s.sorted \in Seq(T)
      /\ \A t \in T : s.deg[t] = Cardinality(Pending(p, t, Range(s.sorted)))
      /\ \A t \in T : s.deg[t] = 0 => t \in Range(s.queue) \/ t \in Range(s.sorted)
    BY DEF Sorting, SortStates, Listed
<1>4. Range(s.sorted) \subseteq T
    <2>1. PICK r \in Seq(T) : r = s.sorted
        BY <1>3
    <2> QED BY <2>1, RangeFacts
<1>5. \A x : x \notin Range(s.queue)
    <2>1. <<>> \in Seq(T) /\ Len(<<>>) = 0
        BY EmptySeq
    <2>2. DOMAIN <<>> = {}
        BY <2>1, SeqFacts
    <2> QED BY <2>1, <2>2, RangeFacts
<1> DEFINE left == T \ Range(s.sorted)
           ranks == {m \in Nat : \E t \in left : rank[t] = m}
<1>6. \A t \in left : rank[t] \in Nat
    BY <1>2 DEF RankedBy
<1>7. ASSUME left # {} PROVE FALSE
    <2>1. ranks # {} /\ ranks \in SUBSET Nat
        BY <1>6, <1>7
    <2> HIDE DEF ranks
    <2>2. PICK m \in ranks : \A k \in ranks : m <= k
        BY <2>1, LeastOf
    <2>3. PICK t \in left : rank[t] = m
        BY DEF ranks
    <2>4. ASSUME NEW i \in DOMAIN p.needs[t], p.needs[t][i] \notin Range(s.sorted) PROVE FALSE
        <3>1. PICK g \in Seq(T) : g = p.needs[t]
            BY <1>1 DEF PlanType
        <3>2. PICK d : d = g[i]
            OBVIOUS
        <3>3. d \in T /\ d \in Range(g)
            BY <2>4, <3>1, <3>2, RangeFacts
        <3>4. rank[d] < rank[t]
            BY <1>2, <3>1, <3>3 DEF RankedBy
        <3>5. d \in left
            BY <2>4, <3>1, <3>2, <3>3
        <3>6. rank[d] \in ranks /\ rank[d] \in Nat /\ rank[t] \in Nat
            BY <1>6, <3>5 DEF ranks
        <3> QED BY <2>2, <2>3, <3>4, <3>6
    <2>5. Pending(p, t, Range(s.sorted)) = {}
        BY <2>4 DEF Pending
    <2>6. s.deg[t] = 0
        BY <1>3, <2>5, FS_EmptySet
    <2> QED BY <1>3, <1>5, <2>6
<1> QED BY <1>4, <1>7

LEMMA StartSorts ==
    ASSUME NEW p, Planned(p), NEW first \in SetToSeqs({t \in TasksOf(p) : p.needs[t] = <<>>})
    PROVE  Sorting(p, SortStart(p, first))
<1> DEFINE T == TasksOf(p)
           F == {t \in T : p.needs[t] = <<>>}
           n == Cardinality(F)
           s == SortStart(p, first)
<1>1. PlanType(p)
    BY DEF Planned
<1>2. IsFiniteSet(F) /\ n \in Nat
    <2>1. IsFiniteSet(T)
        BY <1>1, TasksFinite
    <2>2. IsFiniteSet(F)
        BY <2>1, FS_Subset
    <2> QED BY <2>2, FS_CardinalityType
<1>3. first \in [1..n -> F] /\ \A i, j \in 1..n : i # j => first[i] # first[j]
    BY DEF SetToSeqs
<1> HIDE DEF n, F
<1>4. first \in Injection(1..n, F) /\ IsInjective(first)
    BY <1>3 DEF Injection, IsInjective
<1>5. Cardinality(1..n) = n /\ IsFiniteSet(1..n)
    BY <1>2, FS_Interval
<1>6. first \in Surjection(1..n, F)
    BY <1>2, <1>4, <1>5, FS_Injection DEF n
<1>7. Range(first) = F
    BY <1>3, <1>6 DEF Surjection, Range
<1>8. first \in Seq(T)
    <2>1. first \in Seq(F)
        BY <1>2, <1>3, SeqDef
    <2> QED BY <2>1, SeqWider DEF F
<1>9. \A t \in T : p.needs[t] \in Seq(T)
    BY <1>1 DEF PlanType
<1>10. \A t \in T : Len(p.needs[t]) \in Nat /\ DOMAIN p.needs[t] = 1..Len(p.needs[t])
                    /\ (p.needs[t] = <<>> <=> Len(p.needs[t]) = 0)
    BY <1>9, SeqFacts
<1>11. <<>> \in Seq(T) /\ DOMAIN <<>> = {} /\ Range(<<>>) = {}
    <2>1. <<>> \in Seq(T) /\ Len(<<>>) = 0
        BY EmptySeq
    <2>2. DOMAIN <<>> = {}
        BY <2>1, SeqFacts
    <2>3. \A x : x \notin Range(<<>>)
        BY <2>1, <2>2, RangeFacts
    <2> QED BY <2>1, <2>2, <2>3
<1>12. /\ s.queue = first /\ s.sorted = <<>> /\ \A t \in T : s.deg[t] = Len(p.needs[t])
       /\ s.deg \in [T -> Nat]
    BY <1>10 DEF SortStart
<1>13. s \in SortStates(p)
    <2>1. s = [deg |-> s.deg, queue |-> s.queue, sorted |-> s.sorted]
        BY DEF SortStart
    <2> HIDE DEF s
    <2> QED BY <1>8, <1>11, <1>12, <2>1 DEF SortStates
<1> HIDE DEF s, T
<1>14. \A t \in T : s.deg[t] = Cardinality(Pending(p, t, Range(s.sorted)))
    <2> TAKE t \in T
    <2>1. Pending(p, t, Range(s.sorted)) = 1..Len(p.needs[t])
        BY <1>10, <1>11, <1>12 DEF Pending
    <2>2. Cardinality(1..Len(p.needs[t])) = Len(p.needs[t])
        BY <1>10, FS_Interval
    <2> QED BY <1>12, <2>1, <2>2
<1>15. Listed(p, s)
    <2>1. IsInjective(s.queue) /\ IsInjective(s.sorted)
        BY <1>4, <1>11, <1>12 DEF IsInjective
    <2>2. \A t \in T : s.deg[t] = 0 <=> t \in Range(s.queue) \/ t \in Range(s.sorted)
        BY <1>7, <1>10, <1>11, <1>12 DEF F
    <2>3. \A t \in Range(s.queue) : t \notin Range(s.sorted)
        BY <1>11, <1>12
    <2> QED BY <2>1, <2>2, <2>3 DEF Listed, T
<1>16. Ordered(p, s.sorted)
    BY <1>11, <1>12 DEF Ordered
<1> QED BY <1>13, <1>14, <1>15, <1>16 DEF Sorting, s, T

LEMMA PlanSorts == PlanInv => OrdersFollowNeeds
<1> SUFFICES ASSUME PlanInv, NEW s \in TopologicalSorts(plan)
             PROVE  /\ IsInjective(s) /\ Range(s) = TasksOf(plan)
                    /\ \A i, j \in DOMAIN s : s[j] \in Range(plan.needs[s[i]]) => j < i
    BY DEF OrdersFollowNeeds
<1>1. PICK p : p = plan
    OBVIOUS
<1>2. Planned(p)
    BY <1>1 DEF PlanInv
<1>3. PICK first \in SetToSeqs({t \in TasksOf(p) : p.needs[t] = <<>>}) : s = Drained(p, first).sorted
    BY <1>1 DEF TopologicalSorts
<1>4. Sorting(p, SortStart(p, first))
    BY <1>2, StartSorts
<1>5. PICK u : u = Drained(p, first)
    OBVIOUS
<1>6. Sorting(p, u) /\ u.queue = <<>> /\ s = u.sorted
    BY <1>2, <1>3, <1>4, <1>5, DrainedSorts
<1>7. Range(s) = TasksOf(p)
    BY <1>2, <1>6, DrainedListsAll
<1>8. IsInjective(s) /\ Ordered(p, s) /\ s \in Seq(TasksOf(p))
    BY <1>6 DEF Sorting, Listed, SortStates
<1>9. \A i, j \in DOMAIN s : s[j] \in Range(p.needs[s[i]]) => j < i
    <2> TAKE i, j \in DOMAIN s
    <2> HAVE s[j] \in Range(p.needs[s[i]])
    <2>1. PICK k \in DOMAIN s : k < i /\ s[k] = s[j]
        BY <1>8 DEF Ordered
    <2>2. k = j
        BY <1>8, <2>1 DEF IsInjective
    <2> QED BY <2>1, <2>2
<1> QED BY <1>1, <1>7, <1>8, <1>9

-----------------------------------------------------------------------------
(* The critical path.  The ranks say that the costs memoised along it are  *)
(* defined, and that no chain of tasks is longer than there are tasks.     *)
LEMMA MaxIs ==
    ASSUME NEW Y \in SUBSET Nat, NEW m \in Y, \A y \in Y : y <= m
    PROVE  Max(Y) = m
<1> DEFINE z == CHOOSE x \in Y : \A y \in Y : x >= y
<1>1. z \in Y /\ \A y \in Y : z >= y
    OBVIOUS
<1>2. Max(Y) = z
    BY DEF Max
<1> HIDE DEF z
<1>3. z >= m /\ z <= m /\ z \in Nat /\ m \in Nat
    BY <1>1
<1> QED BY <1>2, <1>3

LEMMA BoundedMax ==
    ASSUME NEW Y \in SUBSET Nat, Y # {}, NEW b \in Nat, \A y \in Y : y <= b
    PROVE  \E m \in Y : \A y \in Y : y <= m
<1> DEFINE gaps == {k \in Nat : \E y \in Y : k = b - y}
<1>1. \A y \in Y : y \in Nat /\ b - y \in Nat
    OBVIOUS
<1>2. gaps # {} /\ gaps \in SUBSET Nat
    BY <1>1
<1>3. \A y \in Y : b - y \in gaps
    BY <1>1
<1>4. PICK k \in gaps : \A l \in gaps : k <= l
    BY <1>2, LeastOf
<1>5. PICK m \in Y : k = b - m
    OBVIOUS
<1> HIDE DEF gaps
<1>6. \A y \in Y : y <= m
    <2> TAKE y \in Y
    <2>1. b - m <= b - y
        BY <1>3, <1>4, <1>5
    <2> QED BY <1>1, <2>1
<1> QED BY <1>6

(* A greatest of the values of g at the items of a sequence, and 0.        *)
ValuesOf(Y, g, s) == Y = {0} \cup {g[d] : d \in Range(s)}

LEMMA MaxFacts ==
    ASSUME NEW S, NEW s \in Seq(S), NEW g, \A d \in Range(s) : g[d] \in Nat,
           NEW Y, ValuesOf(Y, g, s)
    PROVE  /\ Max(Y) \in Y /\ Max(Y) \in Nat /\ \A y \in Y : y <= Max(Y)
           /\ 0 <= Max(Y) /\ \A d \in Range(s) : g[d] <= Max(Y)
           /\ Max(Y) = 0 \/ \E d \in Range(s) : g[d] = Max(Y)
<1>1. Len(s) \in Nat /\ DOMAIN s = 1..Len(s)
    BY SeqFacts
<1>2. \A d : d \in Range(s) <=> \E i \in 1..Len(s) : s[i] = d
    BY <1>1, RangeFacts
<1>3. \A i \in 1..Len(s) : g[s[i]] \in Nat
    BY <1>2
<1> DEFINE T == {m \in 0..Len(s) : \E b \in Nat : \A i \in 1..m : g[s[i]] <= b}
<1>4. 0 \in T
    <2>1. 0 \in 0..Len(s) /\ 1..0 = {} /\ 0 \in Nat
        BY <1>1
    <2>2. \A i \in 1..0 : g[s[i]] <= 0
        BY <2>1
    <2> QED BY <2>1, <2>2
<1>5. ASSUME NEW m \in 1..Len(s), m - 1 \in T PROVE m \in T
    <2>1. PICK b \in Nat : \A i \in 1..(m - 1) : g[s[i]] <= b
        BY <1>5
    <2>2. PICK v \in Nat : v = g[s[m]]
        BY <1>3
    <2>3. \A i \in 1..m : g[s[i]] <= b + v
        <3> TAKE i \in 1..m
        <3>1. CASE i = m
            BY <2>2, <3>1
        <3>2. CASE i # m
            <4>1. i \in 1..(m - 1) /\ i \in 1..Len(s)
                BY <1>1, <3>2
            <4>2. g[s[i]] \in Nat /\ g[s[i]] <= b
                BY <1>3, <2>1, <4>1
            <4> QED BY <4>2
        <3> QED BY <3>1, <3>2
    <2>4. m \in 0..Len(s) /\ b + v \in Nat
        BY <1>1
    <2> QED BY <2>3, <2>4
<1> HIDE DEF T
<1>6. Len(s) \in T
    <2>1. \A m \in 0..Len(s) : m \in T
        BY <1>1, <1>4, <1>5, Upto
    <2> QED BY <1>1, <2>1
<1>7. PICK b \in Nat : \A i \in 1..Len(s) : g[s[i]] <= b
    BY <1>6 DEF T
<1>8. \A d \in Range(s) : g[d] <= b /\ g[d] \in Nat
    BY <1>2, <1>7
<1>9. 0 \in Y /\ Y \in SUBSET Nat /\ \A y \in Y : y <= b
    BY <1>8 DEF ValuesOf
<1>10. PICK m \in Y : \A y \in Y : y <= m
    BY <1>9, BoundedMax
<1>11. Max(Y) = m
    BY <1>9, <1>10, MaxIs
<1>12. \A d \in Range(s) : g[d] \in Y
    BY DEF ValuesOf
<1>13. m = 0 \/ \E d \in Range(s) : g[d] = m
    BY DEF ValuesOf
<1> QED BY <1>9, <1>10, <1>11, <1>12, <1>13

LongestOf(f, p) ==
    f = [t \in TasksOf(p) |-> p.cost[t] + Max({0} \cup {f[d] : d \in Range(p.feeds[t])})]
Best(p, f, t) == p.cost[t] + Max({0} \cup {f[d] : d \in Range(p.feeds[t])})

LEMMA FedLater ==
    ASSUME NEW p, PlanType(p), Mirrored(p), NEW rank, NEW top, RankedBy(p, rank, top),
           NEW t \in TasksOf(p), NEW d \in Range(p.feeds[t])
    PROVE  d \in TasksOf(p) /\ rank[t] < rank[d] /\ t \in Range(p.needs[d])
<1>1. p.feeds[t] \in Seq(TasksOf(p))
    BY DEF PlanType
<1>2. PICK s \in Seq(TasksOf(p)) : s = p.feeds[t]
    BY <1>1
<1>3. d \in TasksOf(p)
    BY <1>2, RangeFacts
<1>4. t \in Range(p.needs[d])
    BY <1>3, FeedsNeeds
<1> QED BY <1>3, <1>4 DEF RankedBy

(* What the path from a task costs, once it is known what it costs from    *)
(* the tasks that it feeds.                                                *)
LEMMA BestFacts ==
    ASSUME NEW p, PlanType(p), NEW f, NEW t \in TasksOf(p), \A d \in Range(p.feeds[t]) : f[d] \in Nat
    PROVE  /\ Best(p, f, t) \in Nat /\ p.cost[t] <= Best(p, f, t)
           /\ \A d \in Range(p.feeds[t]) : p.cost[t] + f[d] <= Best(p, f, t)
           /\ Best(p, f, t) = p.cost[t] \/ \E d \in Range(p.feeds[t]) : Best(p, f, t) = p.cost[t] + f[d]
<1>1. p.feeds[t] \in Seq(TasksOf(p)) /\ p.cost[t] \in Nat
    BY DEF PlanType
<1>2. PICK s \in Seq(TasksOf(p)) : s = p.feeds[t]
    BY <1>1
<1>3. PICK Y : Y = {0} \cup {f[d] : d \in Range(s)}
    OBVIOUS
<1>4. ValuesOf(Y, f, s)
    BY <1>3 DEF ValuesOf
<1>5. \A d \in Range(s) : f[d] \in Nat
    BY <1>2
<1>6. /\ Max(Y) \in Nat /\ 0 <= Max(Y) /\ \A d \in Range(s) : f[d] <= Max(Y)
      /\ Max(Y) = 0 \/ \E d \in Range(s) : f[d] = Max(Y)
    BY <1>4, <1>5, MaxFacts
<1>7. PICK v : v = Max(Y)
    OBVIOUS
<1>8. Best(p, f, t) = p.cost[t] + v
    BY <1>2, <1>3, <1>7 DEF Best
<1>9. p.cost[t] + v \in Nat /\ p.cost[t] <= p.cost[t] + v
    BY <1>1, <1>6, <1>7
<1>10. \A d \in Range(s) : p.cost[t] + f[d] <= p.cost[t] + v
    BY <1>1, <1>5, <1>6, <1>7
<1>11. p.cost[t] + v = p.cost[t] \/ \E d \in Range(s) : p.cost[t] + v = p.cost[t] + f[d]
    BY <1>1, <1>6, <1>7
<1> QED BY <1>2, <1>8, <1>9, <1>10, <1>11

LEMMA LongestExists ==
    ASSUME NEW p, Planned(p)
    PROVE  \E f : LongestOf(f, p)
<1> DEFINE T == TasksOf(p)
<1>1. PlanType(p) /\ Mirrored(p)
    BY DEF Planned
<1>2. PICK rank, top : RankedBy(p, rank, top)
    BY DEF Planned
<1>3. top \in Nat /\ \A t \in T : rank[t] \in Nat /\ rank[t] <= top
    BY <1>2 DEF RankedBy
<1>4. \A t \in T : \A d \in Range(p.feeds[t]) : d \in T /\ rank[t] < rank[d]
    BY <1>1, <1>2, FedLater
<1> HIDE DEF T
<1> DEFINE fits(f, k) == f \in [T -> Nat] /\ \A t \in T : rank[t] + k > top => f[t] = Best(p, f, t)
           K == {k \in 0..(top + 1) : \E f : fits(f, k)}
<1>5. 0 \in K
    <2>1. PICK f : f = [t \in T |-> 0]
        OBVIOUS
    <2>2. f \in [T -> Nat]
        BY <2>1
    <2>3. \A t \in T : ~ (rank[t] + 0 > top)
        BY <1>3
    <2>4. fits(f, 0)
        BY <2>2, <2>3
    <2>5. 0 \in 0..(top + 1)
        BY <1>3
    <2> QED BY <2>4, <2>5
<1>6. ASSUME NEW k \in 1..(top + 1), k - 1 \in K PROVE k \in K
    <2>1. PICK f : fits(f, k - 1)
        BY <1>6
    <2>2. \A t \in T : \A d \in Range(p.feeds[t]) : f[d] \in Nat
        BY <1>4, <2>1
    <2>3. \A t \in T : Best(p, f, t) \in Nat
        BY <1>1, <2>2, BestFacts DEF T
    <2>4. PICK g : g = [t \in T |-> Best(p, f, t)]
        OBVIOUS
    <2>5. g \in [T -> Nat] /\ \A t \in T : g[t] = Best(p, f, t)
        BY <2>3, <2>4
    <2>6. ASSUME NEW t \in T, rank[t] + k > top PROVE g[t] = Best(p, g, t)
        <3>1. ASSUME NEW d \in Range(p.feeds[t]) PROVE f[d] = g[d]
            <4>1. d \in T /\ rank[t] < rank[d] /\ rank[t] \in Nat /\ rank[d] \in Nat
                BY <1>3, <1>4
            <4>2. rank[d] + (k - 1) > top
                BY <1>3, <2>6, <4>1
            <4> QED BY <2>1, <2>5, <4>1, <4>2
        <3>2. {f[d] : d \in Range(p.feeds[t])} = {g[d] : d \in Range(p.feeds[t])}
            BY <3>1
        <3>3. Best(p, f, t) = Best(p, g, t)
            BY <3>2, Zenon DEF Best
        <3> QED BY <2>5, <3>3
    <2>7. k \in 0..(top + 1)
        BY <1>3
    <2>8. fits(g, k)
        BY <2>5, <2>6
    <2> QED BY <2>7, <2>8
<1> HIDE DEF K
<1>7. top + 1 \in K
    <2>1. top + 1 \in Nat
        BY <1>3
    <2>2. \A k \in 0..(top + 1) : k \in K
        BY <1>5, <1>6, <2>1, Upto
    <2> QED BY <2>1, <2>2
<1>8. PICK f : fits(f, top + 1)
    BY <1>7 DEF K
<1>9. \A t \in T : f[t] = Best(p, f, t)
    <2> TAKE t \in T
    <2>1. rank[t] + (top + 1) > top
        BY <1>3
    <2> QED BY <1>8, <2>1
<1>10. f = [t \in T |-> f[t]]
    BY <1>8
<1>11. f = [t \in T |-> Best(p, f, t)]
    BY <1>9, <1>10
<1> QED BY <1>11, Zenon DEF LongestOf, Best, T

LEMMA LongestFacts ==
    ASSUME NEW p, Planned(p), NEW f, f = LongestPathCost(p)
    PROVE  /\ \A t \in TasksOf(p) : f[t] \in Nat /\ p.cost[t] <= f[t]
           /\ \A t \in TasksOf(p) : \A d \in Range(p.feeds[t]) : p.cost[t] + f[d] <= f[t]
           /\ \A t \in TasksOf(p) :
                f[t] = p.cost[t] \/ \E d \in Range(p.feeds[t]) : f[t] = p.cost[t] + f[d]
<1> DEFINE T == TasksOf(p)
           h == CHOOSE g : LongestOf(g, p)
<1>1. LongestOf(h, p)
    BY LongestExists
<1>2. f = h
    BY DEF LongestPathCost, LongestOf
<1> HIDE DEF h
<1>3. \A t \in T : f[t] = Best(p, f, t)
    <2>1. LongestOf(f, p)
        BY <1>1, <1>2
    <2>2. f = [t \in T |-> Best(p, f, t)]
        BY <2>1, Zenon DEF LongestOf, Best
    <2> QED BY <2>2, Zenon
<1>4. PlanType(p) /\ Mirrored(p)
    BY DEF Planned
<1>5. PICK rank, top : RankedBy(p, rank, top)
    BY DEF Planned
<1>6. top \in Nat /\ \A t \in T : rank[t] \in Nat /\ rank[t] <= top
    BY <1>5 DEF RankedBy
<1>7. \A t \in T : \A d \in Range(p.feeds[t]) : d \in T /\ rank[t] < rank[d]
    BY <1>4, <1>5, FedLater
<1> HIDE DEF T
<1> DEFINE odd == {k \in Nat : \E t \in T : f[t] \notin Nat /\ k = top - rank[t]}
<1>8. ASSUME NEW t \in T, f[t] \notin Nat PROVE FALSE
    <2>1. \A u \in T : top - rank[u] \in Nat
        BY <1>6
    <2>2. odd # {} /\ odd \in SUBSET Nat
        BY <1>8, <2>1
    <2>3. PICK k \in odd : \A l \in odd : k <= l
        BY <2>2, LeastOf
    <2>4. PICK u \in T : f[u] \notin Nat /\ k = top - rank[u]
        OBVIOUS
    <2>5. ASSUME NEW d \in Range(p.feeds[u]) PROVE f[d] \in Nat
        <3>1. d \in T /\ rank[u] < rank[d] /\ rank[u] \in Nat /\ rank[d] \in Nat
            BY <1>6, <1>7
        <3>2. ~ (k <= top - rank[d])
            BY <1>6, <2>4, <3>1
        <3>3. top - rank[d] \notin odd
            BY <2>3, <3>2
        <3> QED BY <2>1, <3>1, <3>3
    <2>6. Best(p, f, u) \in Nat
        BY <1>4, <2>5, BestFacts DEF T
    <2> QED BY <1>3, <2>4, <2>6
<1>9. \A t \in T : \A d \in Range(p.feeds[t]) : f[d] \in Nat
    BY <1>7, <1>8
<1>10. ASSUME NEW t \in T
       PROVE  /\ p.cost[t] <= f[t]
              /\ \A d \in Range(p.feeds[t]) : p.cost[t] + f[d] <= f[t]
              /\ f[t] = p.cost[t] \/ \E d \in Range(p.feeds[t]) : f[t] = p.cost[t] + f[d]
    <2>1. /\ p.cost[t] <= Best(p, f, t)
          /\ \A d \in Range(p.feeds[t]) : p.cost[t] + f[d] <= Best(p, f, t)
          /\ Best(p, f, t) = p.cost[t] \/ \E d \in Range(p.feeds[t]) : Best(p, f, t) = p.cost[t] + f[d]
        BY <1>4, <1>9, BestFacts DEF T
    <2> QED BY <1>3, <2>1
<1> QED BY <1>8, <1>10 DEF T

(* A chain of tasks, each needed by the next, and what it costs so far.    *)
Chain(p, c) ==
    /\ c \in Seq(TasksOf(p)) /\ c # <<>>
    /\ \A i \in 1..(Len(c) - 1) : c[i] \in Range(p.needs[c[i + 1]])
SumCourse(f, p, c) == f = [n \in 0..Len(c) |-> IF n = 0 THEN 0 ELSE f[n - 1] + p.cost[c[n]]]
Sums(p, c, g) ==
    /\ g \in [0..Len(c) -> Nat] /\ g[0] = 0
    /\ \A m \in 1..Len(c) : g[m] = g[m - 1] + p.cost[c[m]]

LEMMA SumExists ==
    ASSUME NEW p, PlanType(p), NEW c \in Seq(TasksOf(p))
    PROVE  \E g : Sums(p, c, g) /\ SumCourse(g, p, c)
<1> DEFINE n == Len(c)
           step == [x \in (1..n) \X Nat |-> x[2] + p.cost[c[x[1]]]]
<1>1. n \in Nat /\ \A m \in 1..n : c[m] \in TasksOf(p)
    BY SeqFacts
<1>2. \A m \in 1..n : p.cost[c[m]] \in Nat
    BY <1>1 DEF PlanType
<1>3. step \in [(1..n) \X Nat -> Nat]
    BY <1>2
<1> HIDE DEF step
<1>4. PICK g \in [0..n -> Nat] : CourseOf(g, n, 0, step)
    BY <1>1, <1>3, TurnsExist
<1>5. \A m \in 1..n : m \in 0..n /\ m - 1 \in 0..n /\ m # 0
    BY <1>1
<1>6. \A m \in 1..n : g[m] = g[m - 1] + p.cost[c[m]]
    <2> TAKE m \in 1..n
    <2>1. g[m - 1] \in Nat
        BY <1>4, <1>5
    <2>2. <<m, g[m - 1]>> \in (1..n) \X Nat
        BY <2>1
    <2>3. step[<<m, g[m - 1]>>] = g[m - 1] + p.cost[c[m]]
        BY <2>2 DEF step
    <2> QED BY <1>4, <2>3 DEF CourseOf
<1>7. g[0] = 0
    BY <1>4 DEF CourseOf
<1>8. \A m \in 0..n : g[m] = IF m = 0 THEN 0 ELSE g[m - 1] + p.cost[c[m]]
    <2>1. \A m \in 0..n : m = 0 \/ m \in 1..n
        BY <1>1
    <2> QED BY <1>5, <1>6, <1>7, <2>1, Zenon
<1>9. g = [m \in 0..n |-> g[m]]
    BY <1>4
<1>10. g = [m \in 0..n |-> IF m = 0 THEN 0 ELSE g[m - 1] + p.cost[c[m]]]
    BY <1>8, <1>9, Zenon
<1>11. SumCourse(g, p, c)
    BY <1>10, Zenon DEF SumCourse
<1>12. Sums(p, c, g)
    BY <1>4, <1>6, <1>7 DEF Sums
<1> QED BY <1>11, <1>12

LEMMA CostIsSum ==
    ASSUME NEW p, PlanType(p), NEW c \in Seq(TasksOf(p)), NEW g, Sums(p, c, g)
    PROVE  CostOf(p, c) = g[Len(c)] /\ CostOf(p, c) \in Nat
<1> DEFINE n == Len(c)
           f == CHOOSE h : SumCourse(h, p, c)
<1>1. n \in Nat
    BY SeqFacts
<1>2. SumCourse(f, p, c)
    BY SumExists
<1>3. CostOf(p, c) = f[n]
    BY DEF CostOf, SumCourse
<1> HIDE DEF f
<1>4. f[0] = 0 /\ \A m \in 1..n : f[m] = f[m - 1] + p.cost[c[m]]
    <2>1. \A m \in 1..n : m \in 0..n /\ m # 0
        BY <1>1
    <2>2. 0 \in 0..n
        BY <1>1
    <2> QED BY <1>2, <2>1, <2>2 DEF SumCourse
<1> DEFINE T == {m \in 0..n : f[m] = g[m]}
<1>5. 0 \in T
    BY <1>1, <1>4 DEF Sums
<1>6. ASSUME NEW m \in 1..n, m - 1 \in T PROVE m \in T
    <2>1. m \in 0..n
        BY <1>1
    <2> QED BY <1>4, <1>6, <2>1 DEF Sums
<1> HIDE DEF T
<1>7. n \in T
    <2>1. \A m \in 0..n : m \in T
        BY <1>1, <1>5, <1>6, Upto
    <2> QED BY <1>1, <2>1
<1>8. f[n] = g[n]
    BY <1>7 DEF T
<1>9. g[n] \in Nat
    BY <1>1 DEF Sums
<1> QED BY <1>3, <1>8, <1>9

(* Ranks grow along a chain: it does not come back.                        *)
LEMMA ChainInjective ==
    ASSUME NEW p, Planned(p), NEW c, Chain(p, c)
    PROVE  IsInjective(c) /\ Len(c) <= Cardinality(TasksOf(p))
<1>1. PlanType(p) /\ Mirrored(p)
    BY DEF Planned
<1>2. PICK rank, top : RankedBy(p, rank, top)
    BY DEF Planned
<1>3. c \in Seq(TasksOf(p)) /\ Len(c) \in Nat /\ DOMAIN c = 1..Len(c) /\ \A i \in 1..Len(c) : c[i] \in TasksOf(p)
    BY SeqFacts DEF Chain
<1>4. \A t \in TasksOf(p) : rank[t] \in Nat
    BY <1>2 DEF RankedBy
<1>5. \A i \in 1..Len(c) : rank[c[i]] \in Nat
    BY <1>3, <1>4
<1>6. \A i \in 1..(Len(c) - 1) : rank[c[i]] < rank[c[i + 1]]
    <2> TAKE i \in 1..(Len(c) - 1)
    <2>1. i + 1 \in 1..Len(c)
        BY <1>3
    <2>2. c[i + 1] \in TasksOf(p) /\ c[i] \in Range(p.needs[c[i + 1]])
        BY <1>3, <2>1 DEF Chain
    <2> QED BY <1>2, <2>2 DEF RankedBy
<1>7. ASSUME NEW i \in 1..Len(c), NEW j \in 1..Len(c), i < j PROVE rank[c[i]] < rank[c[j]]
    <2> DEFINE n == j - i
               T == {m \in 0..n : m = 0 \/ rank[c[i]] < rank[c[i + m]]}
    <2>1. n \in Nat /\ n # 0 /\ i + n = j
        BY <1>3, <1>7
    <2> HIDE DEF n
    <2>2. 0 \in T
        BY <2>1
    <2>3. ASSUME NEW m \in 1..n, m - 1 \in T PROVE m \in T
        <3>1. /\ i + (m - 1) \in 1..(Len(c) - 1) /\ i + (m - 1) + 1 = i + m /\ i + m \in 1..Len(c)
              /\ m \in 0..n /\ i + (m - 1) \in 1..Len(c)
            BY <1>3, <2>1
        <3>2. rank[c[i + (m - 1)]] < rank[c[i + m]]
            BY <1>6, <3>1
        <3>3. rank[c[i]] \in Nat /\ rank[c[i + (m - 1)]] \in Nat /\ rank[c[i + m]] \in Nat
            BY <1>5, <3>1
        <3>4. CASE m - 1 = 0
            <4>1. i + (m - 1) = i
                BY <3>4
            <4> QED BY <3>1, <3>2, <4>1
        <3>5. CASE m - 1 # 0
            <4>1. rank[c[i]] < rank[c[i + (m - 1)]]
                BY <2>3, <3>5
            <4> QED BY <3>1, <3>2, <3>3, <4>1
        <3> QED BY <3>4, <3>5
    <2> HIDE DEF T
    <2>4. n \in T
        <3>1. \A m \in 0..n : m \in T
            BY <2>1, <2>2, <2>3, Upto
        <3> QED BY <2>1, <3>1
    <2> QED BY <2>1, <2>4 DEF T
<1>8. IsInjective(c)
    <2> SUFFICES ASSUME NEW i \in 1..Len(c), NEW j \in 1..Len(c), c[i] = c[j] PROVE i = j
        BY <1>3 DEF IsInjective
    <2>1. ~ (rank[c[i]] < rank[c[j]]) /\ ~ (rank[c[j]] < rank[c[i]])
        BY <1>5
    <2>2. ~ (i < j) /\ ~ (j < i)
        BY <1>7, <2>1
    <2> QED BY <1>3, <2>2
<1>9. IsFiniteSet(TasksOf(p))
    BY <1>1, TasksFinite
<1> QED BY <1>3, <1>8, <1>9, NoLonger

(* No chain costs more than the path from its first task.                  *)
LEMMA ChainBounded ==
    ASSUME NEW p, Planned(p), NEW f, f = LongestPathCost(p), NEW c, Chain(p, c)
    PROVE  CostOf(p, c) \in Nat /\ c[1] \in TasksOf(p) /\ CostOf(p, c) <= f[c[1]]
<1> DEFINE n == Len(c)
           T == TasksOf(p)
<1>1. PlanType(p) /\ Mirrored(p)
    BY DEF Planned
<1>2. c \in Seq(T) /\ n \in Nat \ {0} /\ \A i \in 1..n : c[i] \in T
    BY SeqFacts DEF Chain
<1>3. /\ \A t \in T : f[t] \in Nat /\ p.cost[t] <= f[t]
      /\ \A t \in T : \A d \in Range(p.feeds[t]) : p.cost[t] + f[d] <= f[t]
    BY LongestFacts
<1>4. \A t \in T : p.cost[t] \in Nat
    BY <1>1 DEF PlanType
<1>5. PICK g : Sums(p, c, g)
    BY <1>1, <1>2, SumExists
<1>6. CostOf(p, c) = g[n] /\ CostOf(p, c) \in Nat
    BY <1>1, <1>2, <1>5, CostIsSum
<1>7. /\ \A m \in 0..n : g[m] \in Nat
      /\ g[0] = 0 /\ \A m \in 1..n : g[m] = g[m - 1] + p.cost[c[m]]
    BY <1>5 DEF Sums
<1>8. \A i \in 1..(n - 1) : c[i + 1] \in Range(p.feeds[c[i]])
    <2> TAKE i \in 1..(n - 1)
    <2>1. i \in 1..n /\ i + 1 \in 1..n
        BY <1>2
    <2>2. c[i] \in T /\ c[i + 1] \in T /\ c[i] \in Range(p.needs[c[i + 1]])
        BY <1>2, <2>1 DEF Chain
    <2> QED BY <1>1, <2>2, FeedsNeeds
<1> HIDE DEF n, T
<1> DEFINE K == {m \in 0..(n - 1) : g[m] + f[c[m + 1]] <= f[c[1]]}
<1>9. n - 1 \in Nat /\ 1 \in 1..n
    BY <1>2
<1>10. 0 \in K
    <2>1. 0 \in 0..(n - 1) /\ 0 + 1 = 1 /\ f[c[1]] \in Nat
        BY <1>2, <1>3, <1>9
    <2> QED BY <1>7, <2>1
<1>11. ASSUME NEW m \in 1..(n - 1), m - 1 \in K PROVE m \in K
    <2>1. m \in 1..n /\ m + 1 \in 1..n /\ (m - 1) + 1 = m /\ m - 1 \in 0..n /\ m \in 0..(n - 1)
        BY <1>2
    <2>2. g[m - 1] + f[c[m]] <= f[c[1]]
        BY <1>11, <2>1
    <2>3. p.cost[c[m]] + f[c[m + 1]] <= f[c[m]]
        BY <1>2, <1>3, <1>8, <2>1
    <2>4. /\ g[m] = g[m - 1] + p.cost[c[m]] /\ g[m - 1] \in Nat /\ p.cost[c[m]] \in Nat
          /\ f[c[m]] \in Nat /\ f[c[m + 1]] \in Nat /\ f[c[1]] \in Nat
        BY <1>2, <1>3, <1>4, <1>7, <1>9, <2>1
    <2>5. g[m] + f[c[m + 1]] <= f[c[1]]
        BY <2>2, <2>3, <2>4
    <2> QED BY <2>1, <2>5
<1> HIDE DEF K
<1>12. n - 1 \in K
    <2>1. \A m \in 0..(n - 1) : m \in K
        BY <1>9, <1>10, <1>11, Upto
    <2> QED BY <1>9, <2>1
<1>13. g[n - 1] + f[c[n]] <= f[c[1]]
    <2>1. (n - 1) + 1 = n
        BY <1>2
    <2> QED BY <1>12, <2>1 DEF K
<1>14. /\ n \in 1..n /\ n - 1 \in 0..n
    BY <1>2
<1>15. /\ g[n] = g[n - 1] + p.cost[c[n]] /\ g[n - 1] \in Nat /\ p.cost[c[n]] \in Nat
       /\ f[c[n]] \in Nat /\ f[c[1]] \in Nat /\ p.cost[c[n]] <= f[c[n]]
    BY <1>2, <1>3, <1>4, <1>7, <1>9, <1>14
<1>16. g[n] <= f[c[1]]
    BY <1>13, <1>15
<1>17. c[1] \in T
    BY <1>2, <1>9
<1> QED BY <1>6, <1>16, <1>17 DEF T

LEMMA ChainLonger ==
    ASSUME NEW p, Planned(p), NEW c, Chain(p, c), NEW l, l = c[Len(c)], NEW d \in Range(p.feeds[l])
    PROVE  \E e : /\ Chain(p, e) /\ e[1] = c[1] /\ e[Len(e)] = d
                  /\ CostOf(p, e) = CostOf(p, c) + p.cost[d]
<1> DEFINE T == TasksOf(p)
           n == Len(c)
<1>1. PlanType(p) /\ Mirrored(p)
    BY DEF Planned
<1>2. PICK rank, top : RankedBy(p, rank, top)
    BY DEF Planned
<1>3. c \in Seq(T) /\ n \in Nat \ {0} /\ \A i \in 1..n : c[i] \in T
    BY SeqFacts DEF Chain
<1>4. l \in T /\ n \in 1..n /\ 1 \in 1..n
    BY <1>3
<1>5. d \in T /\ l \in Range(p.needs[d])
    BY <1>1, <1>2, <1>4, FedLater
<1>6. PICK e : e = Append(c, d)
    OBVIOUS
<1>7. /\ e \in Seq(T) /\ Len(e) = n + 1 /\ e[n + 1] = d /\ \A i \in 1..n : e[i] = c[i]
    BY <1>3, <1>5, <1>6, AppendFacts
<1> HIDE DEF n, T
<1>8. Chain(p, e)
    <2>1. Len(e) - 1 = n /\ e # <<>>
        <3>1. Len(e) - 1 = n + 1 - 1 /\ n \in Nat /\ Len(e) # 0
            BY <1>3, <1>7
        <3> QED BY <1>7, <3>1, SeqFacts
    <2>2. ASSUME NEW i \in 1..n PROVE e[i] \in Range(p.needs[e[i + 1]])
        <3>1. CASE i = n
            <4>1. e[i] = l /\ e[i + 1] = d
                BY <1>4, <1>7, <3>1 DEF n
            <4> QED BY <1>5, <4>1
        <3>2. CASE i # n
            <4>1. i \in 1..(n - 1) /\ i + 1 \in 1..n
                BY <1>3, <3>2
            <4>2. e[i] = c[i] /\ e[i + 1] = c[i + 1]
                BY <1>7, <4>1
            <4>3. c[i] \in Range(p.needs[c[i + 1]])
                BY <4>1 DEF Chain, n
            <4> QED BY <4>2, <4>3
        <3> QED BY <3>1, <3>2
    <2> QED BY <1>7, <2>1, <2>2 DEF Chain, T
<1>9. PICK g : Sums(p, e, g)
    BY <1>1, <1>7, SumExists DEF T
<1>10. PICK h : h = [m \in 0..n |-> g[m]]
    OBVIOUS
<1>11. /\ g \in [0..(n + 1) -> Nat] /\ g[0] = 0
       /\ \A m \in 1..(n + 1) : g[m] = g[m - 1] + p.cost[e[m]]
    BY <1>7, <1>9 DEF Sums
<1>12. Sums(p, c, h)
    <2>1. \A m \in 0..n : m \in 0..(n + 1) /\ h[m] = g[m] /\ g[m] \in Nat
        BY <1>3, <1>10, <1>11
    <2>2. h \in [0..n -> Nat] /\ 0 \in 0..n
        BY <1>3, <1>10, <2>1
    <2>3. \A m \in 1..n : h[m] = h[m - 1] + p.cost[c[m]]
        <3> TAKE m \in 1..n
        <3>1. m \in 1..(n + 1) /\ m \in 0..n /\ m - 1 \in 0..n
            BY <1>3
        <3>2. g[m] = g[m - 1] + p.cost[e[m]] /\ e[m] = c[m]
            BY <1>7, <1>11, <3>1
        <3> QED BY <2>1, <3>1, <3>2
    <2> QED BY <1>11, <2>1, <2>2, <2>3 DEF Sums, n
<1>13. CostOf(p, c) = h[n] /\ CostOf(p, e) = g[n + 1]
    BY <1>1, <1>3, <1>7, <1>9, <1>12, CostIsSum DEF T, n
<1>14. h[n] = g[n] /\ g[n + 1] = g[n] + p.cost[d]
    <2>1. n \in 0..n /\ n + 1 \in 1..(n + 1) /\ (n + 1) - 1 = n
        BY <1>3
    <2>2. g[n + 1] = g[(n + 1) - 1] + p.cost[e[n + 1]]
        BY <1>11, <2>1
    <2> QED BY <1>7, <1>10, <2>1, <2>2
<1>15. e[1] = c[1] /\ e[Len(e)] = d
    BY <1>4, <1>7
<1> QED BY <1>8, <1>13, <1>14, <1>15

(* A chain from t that costs what the path from t does.                    *)
LEMMA ChainFound ==
    ASSUME NEW p, Planned(p), NEW f, f = LongestPathCost(p), NEW t \in TasksOf(p)
    PROVE  \E c : Chain(p, c) /\ CostOf(p, c) = f[t]
<1> DEFINE T == TasksOf(p)
<1>1. PlanType(p) /\ Mirrored(p)
    BY DEF Planned
<1>2. PICK rank, top : RankedBy(p, rank, top)
    BY DEF Planned
<1>3. top \in Nat /\ \A u \in T : rank[u] \in Nat /\ rank[u] <= top
    BY <1>2 DEF RankedBy
<1>4. /\ \A u \in T : f[u] \in Nat
      /\ \A u \in T : f[u] = p.cost[u] \/ \E d \in Range(p.feeds[u]) : f[u] = p.cost[u] + f[d]
    BY LongestFacts
<1>5. \A u \in T : p.cost[u] \in Nat
    BY <1>1 DEF PlanType
<1>6. \A c : Chain(p, c) => CostOf(p, c) \in Nat /\ c[Len(c)] \in T
    <2> SUFFICES ASSUME NEW c, Chain(p, c) PROVE CostOf(p, c) \in Nat /\ c[Len(c)] \in T
        OBVIOUS
    <2>1. CostOf(p, c) \in Nat
        BY ChainBounded
    <2>2. c \in Seq(T) /\ c # <<>>
        BY DEF Chain
    <2>3. Len(c) \in Nat \ {0} /\ DOMAIN c = 1..Len(c)
        BY <2>2, SeqFacts
    <2>4. Len(c) \in DOMAIN c
        BY <2>3
    <2> QED BY <2>1, <2>2, <2>4, SeqFacts
<1> DEFINE on(c, k) == /\ Chain(p, c) /\ CostOf(p, c) + f[c[Len(c)]] = f[t] + p.cost[c[Len(c)]]
                       /\ CostOf(p, c) = f[t] \/ rank[c[Len(c)]] >= k
           K == {k \in 0..(top + 1) : \E c : on(c, k)}
<1>7. 0 \in K
    <2>1. PICK c : c = <<t>>
        OBVIOUS
    <2>2. c \in Seq(T) /\ Len(c) = 1 /\ c[1] = t /\ c # <<>>
        BY <2>1
    <2>3. Chain(p, c)
        <3>1. 1..(Len(c) - 1) = {}
            BY <2>2
        <3> QED BY <2>2, <3>1 DEF Chain
    <2>4. PICK g : Sums(p, c, g)
        BY <1>1, <2>2, SumExists
    <2>5. g[1] = g[1 - 1] + p.cost[c[1]] /\ g[0] = 0
        BY <2>2, <2>4 DEF Sums
    <2>6. CostOf(p, c) = g[1]
        BY <1>1, <2>2, <2>4, CostIsSum
    <2>7. CostOf(p, c) = p.cost[t]
        BY <1>5, <2>2, <2>5, <2>6
    <2>8. f[t] \in Nat /\ p.cost[t] \in Nat /\ rank[t] >= 0
        BY <1>3, <1>4, <1>5
    <2>9. on(c, 0)
        BY <2>2, <2>3, <2>7, <2>8
    <2>10. 0 \in 0..(top + 1)
        BY <1>3
    <2> QED BY <2>9, <2>10
<1>8. ASSUME NEW k \in 1..(top + 1), k - 1 \in K PROVE k \in K
    <2>1. PICK c : on(c, k - 1)
        BY <1>8
    <2>2. PICK l : l = c[Len(c)]
        OBVIOUS
    <2>3. /\ Chain(p, c) /\ CostOf(p, c) \in Nat /\ l \in T
          /\ CostOf(p, c) + f[l] = f[t] + p.cost[l]
          /\ CostOf(p, c) = f[t] \/ rank[l] >= k - 1
        BY <1>6, <2>1, <2>2
    <2>4. k \in 0..(top + 1)
        BY <1>3
    <2>5. CASE CostOf(p, c) = f[t]
        BY <2>1, <2>4, <2>5
    <2>6. CASE CostOf(p, c) # f[t]
        <3>1. f[l] \in Nat /\ p.cost[l] \in Nat /\ f[t] \in Nat
            BY <1>4, <1>5, <2>3
        <3>2. f[l] # p.cost[l]
            BY <2>3, <2>6, <3>1
        <3>3. PICK d \in Range(p.feeds[l]) : f[l] = p.cost[l] + f[d]
            BY <1>4, <2>3, <3>2
        <3>4. d \in T /\ rank[l] < rank[d]
            BY <1>1, <1>2, <2>3, FedLater
        <3>5. PICK e : Chain(p, e) /\ e[Len(e)] = d /\ CostOf(p, e) = CostOf(p, c) + p.cost[d]
            BY <2>2, <2>3, ChainLonger
        <3>6. f[d] \in Nat /\ p.cost[d] \in Nat /\ rank[l] \in Nat /\ rank[d] \in Nat
            BY <1>3, <1>4, <1>5, <2>3, <3>4
        <3>7. CostOf(p, e) + f[d] = f[t] + p.cost[d]
            <4>1. CostOf(p, c) \in Nat /\ CostOf(p, c) + f[l] = f[t] + p.cost[l]
                BY <2>3
            <4>2. CostOf(p, c) + f[d] = f[t]
                BY <3>1, <3>3, <3>6, <4>1
            <4>3. CostOf(p, e) = CostOf(p, c) + p.cost[d]
                BY <3>5
            <4> QED BY <3>6, <4>1, <4>2, <4>3
        <3>8. rank[d] >= k
            BY <2>3, <2>6, <3>4, <3>6
        <3>9. on(e, k)
            BY <3>5, <3>7, <3>8
        <3> QED BY <2>4, <3>9
    <2> QED BY <2>5, <2>6
<1> HIDE DEF K
<1>9. top + 1 \in K
    <2>1. top + 1 \in Nat
        BY <1>3
    <2>2. \A k \in 0..(top + 1) : k \in K
        BY <1>7, <1>8, <2>1, Upto
    <2> QED BY <2>1, <2>2
<1>10. PICK c : on(c, top + 1)
    BY <1>9 DEF K
<1>11. PICK l : l = c[Len(c)]
    OBVIOUS
<1>12. l \in T
    BY <1>6, <1>10, <1>11
<1>13. ~ (rank[l] >= top + 1)
    BY <1>3, <1>12
<1> QED BY <1>10, <1>11, <1>13

LEMMA ChainsAre ==
    ASSUME NEW p, Planned(p), NEW c
    PROVE  c \in Chains(p) <=> Chain(p, c)
<1> DEFINE N == Cardinality(TasksOf(p))
<1>1. ASSUME c \in Chains(p) PROVE Chain(p, c)
    <2>1. PICK n \in 1..N : c \in [1..n -> TasksOf(p)]
        BY <1>1 DEF Chains
    <2>2. N \in Nat
        BY TasksFinite DEF Planned
    <2>3. n \in Nat /\ n # 0
        BY <2>2
    <2>4. c \in Seq(TasksOf(p))
        BY <2>1, <2>3, SeqDef
    <2>5. Len(c) = n
        BY <2>1, <2>3, <2>4, LenProperties
    <2>6. c # <<>>
        BY <2>3, <2>4, <2>5, SeqFacts
    <2>7. \A i \in 1..(Len(c) - 1) : c[i] \in Range(p.needs[c[i + 1]])
        BY <1>1 DEF Chains
    <2> QED BY <2>4, <2>6, <2>7 DEF Chain
<1>2. ASSUME Chain(p, c) PROVE c \in Chains(p)
    <2>1. Len(c) <= N
        BY <1>2, ChainInjective
    <2>2. c \in Seq(TasksOf(p)) /\ c # <<>> /\ \A i \in 1..(Len(c) - 1) : c[i] \in Range(p.needs[c[i + 1]])
        BY <1>2 DEF Chain
    <2>3. Len(c) \in Nat \ {0} /\ c \in [1..Len(c) -> TasksOf(p)]
        BY <2>2, SeqFacts
    <2>4. N \in Nat
        BY TasksFinite DEF Planned
    <2>5. Len(c) \in 1..N
        BY <2>1, <2>3, <2>4
    <2>6. c \in UNION {[1..n -> TasksOf(p)] : n \in 1..N}
        BY <2>3, <2>5
    <2> QED BY <2>2, <2>6 DEF Chains
<1> QED BY <1>1, <1>2

LEMMA PlanIsDearest == PlanInv => CriticalIsDearest
<1> SUFFICES ASSUME PlanInv PROVE CriticalIsDearest
    OBVIOUS
<1>1. PICK p : p = plan
    OBVIOUS
<1>2. Planned(p)
    BY <1>1 DEF PlanInv
<1>3. PICK f : f = LongestPathCost(p)
    OBVIOUS
<1> DEFINE T == TasksOf(p)
           n == Cardinality(TasksOf(p))
<1>4. n \in Nat /\ T = 0..(n - 1)
    BY <1>2, TasksFinite DEF Planned
<1>5. \A t \in T : f[t] \in Nat
    BY <1>2, <1>3, LongestFacts
<1> HIDE DEF T, n
<1>6. PICK s \in Seq(T) : Range(s) = T
    <2> DEFINE q == [i \in 1..n |-> i - 1]
    <2>1. q \in [1..n -> T]
        BY <1>4
    <2>2. q \in Seq(T)
        BY <1>4, <2>1, SeqDef
    <2>3. \A t \in T : \E k \in 1..n : k = t + 1 /\ k - 1 = t
        BY <1>4
    <2>4. \A t \in T : \E k \in 1..n : q[k] = t
        BY <2>3
    <2>5. DOMAIN q = 1..n
        OBVIOUS
    <2> HIDE DEF q
    <2>6. Range(q) \subseteq T
        BY <2>2, RangeFacts
    <2>7. \A t \in T : t \in Range(q)
        BY <2>2, <2>4, <2>5, RangeFacts
    <2>8. Range(q) = T
        BY <2>6, <2>7
    <2> QED BY <2>2, <2>8, Zenon
<1>7. PICK Y : Y = {0} \cup {f[t] : t \in T}
    OBVIOUS
<1>8. ValuesOf(Y, f, s)
    BY <1>6, <1>7 DEF ValuesOf
<1>9. \A d \in Range(s) : f[d] \in Nat
    BY <1>5, <1>6
<1>10. PICK m : m = Max(Y)
    OBVIOUS
<1>11. /\ m \in Nat /\ 0 <= m /\ \A t \in T : f[t] <= m
       /\ m = 0 \/ \E t \in T : f[t] = m
    BY <1>6, <1>8, <1>9, <1>10, MaxFacts
<1>12. CriticalPathCost(p) = m
    BY <1>3, <1>7, <1>10 DEF CriticalPathCost, T
<1>13. PICK Z : Z = {0} \cup {CostOf(p, c) : c \in Chains(p)}
    OBVIOUS
<1>14. \A c \in Chains(p) : CostOf(p, c) \in Nat /\ c[1] \in T /\ CostOf(p, c) <= f[c[1]]
    <2> TAKE c \in Chains(p)
    <2>1. Chain(p, c)
        BY <1>2, ChainsAre
    <2> QED BY <1>2, <1>3, <2>1, ChainBounded DEF T
<1>15. \A c \in Chains(p) : CostOf(p, c) <= m
    <2> TAKE c \in Chains(p)
    <2>1. CostOf(p, c) \in Nat /\ CostOf(p, c) <= f[c[1]] /\ f[c[1]] <= m /\ f[c[1]] \in Nat
        BY <1>5, <1>11, <1>14
    <2> QED BY <1>11, <2>1
<1>16. Z \in SUBSET Nat /\ \A z \in Z : z <= m
    BY <1>11, <1>13, <1>14, <1>15
<1>17. m \in Z
    <2>1. CASE m = 0
        BY <1>13, <2>1
    <2>2. CASE m # 0
        <3>1. PICK t \in T : f[t] = m
            BY <1>11, <2>2
        <3>2. PICK c : Chain(p, c) /\ CostOf(p, c) = f[t]
            BY <1>2, <1>3, ChainFound DEF T
        <3>3. c \in Chains(p)
            BY <1>2, <3>2, ChainsAre
        <3> QED BY <1>13, <3>1, <3>2, <3>3
    <2> QED BY <2>1, <2>2
<1>18. Max(Z) = m
    BY <1>16, <1>17, MaxIs
<1> QED BY <1>1, <1>12, <1>13, <1>18 DEF CriticalIsDearest

SchedulesInv == PoolInv /\ HeapInv /\ PlanInv

(* Whatever is pushed, popped, submitted, stolen, planned and completed: a *)
(* pop of the binary heap takes a greatest item and nothing else, a job    *)
(* given to a worker of the work-stealing scheduler runs once or is still  *)
(* pending once, and the task graph has no cycle, so that something is     *)
(* ready while a task is left, every order of topological_sort lists each  *)
(* task once after all it needs, and critical_path_cost is that of the     *)
(* dearest chain.                                                          *)
THEOREM SchedulesDoHold == ScheduleSpec => []SchedulesAreSound
<1>1. ScheduleInit => SchedulesInv
    BY PoolStarts, HeapStarts, PlanStarts DEF SchedulesInv
<1>2. SchedulesInv /\ [ScheduleNext]_scheduleVars => SchedulesInv'
    BY PoolInductive, HeapInductive, PlanInductive DEF SchedulesInv
<1>3. SchedulesInv => SchedulesAreSound
    BY PoolRunsOnce, HeapTakesGreatest, PlanHasReady, PlanSorts, PlanIsDearest
       DEF SchedulesInv, SchedulesAreSound
<1> QED BY <1>1, <1>2, <1>3, PTL DEF ScheduleSpec
===============================================================================
