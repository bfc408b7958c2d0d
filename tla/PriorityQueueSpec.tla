-------------------------- MODULE PriorityQueueSpec --------------------------
(***************************************************************************)
(* What a priority queue of collection tasks promises: at most one pending *)
(* entry per task id, and the popped entry is the one of the highest       *)
(* priority that was accepted first.  A cancel costs one entry at most;    *)
(* which one is not promised, and after it neither are unique ids.         *)
(* Nothing here says how the entries are stored; PriorityQueue.tla shows   *)
(* that the heap of crates/fabric/src/queue.rs implements it.              *)
(***************************************************************************)
EXTENDS Naturals

CONSTANTS TaskId,    \* the task ids
          Priority,  \* the priority levels, 0 the most urgent
          NoEntry    \* what an empty queue returns

VARIABLES pending,   \* the set of accepted entries not popped yet
          clock,     \* the number of entries accepted so far
          popped,    \* what the last pop returned
          exact      \* nothing has been cancelled

specVars == <<pending, clock, popped, exact>>

(* The order of the entries: priority first, then acceptance.              *)
Precedes(a, b) ==
    \/ a.prio < b.prio
    \/ a.prio = b.prio /\ a.seq < b.seq

SpecInit ==
    /\ pending = {}
    /\ clock = 0
    /\ popped = NoEntry
    /\ exact = TRUE

SpecAccept(id, p) ==
    /\ exact => \A e \in pending : e.id # id
    /\ pending' = pending \cup {[id |-> id, prio |-> p, seq |-> clock]}
    /\ clock' = clock + 1
    /\ UNCHANGED <<popped, exact>>

SpecPop ==
    /\ \E e \in pending :
          /\ \A f \in pending \ {e} : Precedes(e, f)
          /\ pending' = pending \ {e}
          /\ popped' = e
    /\ UNCHANGED <<clock, exact>>

SpecPopEmpty ==
    /\ pending = {}
    /\ popped' = NoEntry
    /\ UNCHANGED <<pending, clock, exact>>

SpecCancel ==
    /\ \/ \E e \in pending : pending' = pending \ {e}
       \/ UNCHANGED pending
    /\ exact' = FALSE
    /\ UNCHANGED <<clock, popped>>

SpecNext ==
    \/ \E id \in TaskId, p \in Priority : SpecAccept(id, p)
    \/ SpecPop
    \/ SpecPopEmpty
    \/ SpecCancel

SpecQueue == SpecInit /\ [][SpecNext]_specVars
=============================================================================
