-------------------------- MODULE ClusterMembership --------------------------
(***************************************************************************)
(* ClusterMembership of crates/cluster/src/node.rs as a worker uses it     *)
(* (services/worker/src/main.rs): register once, then a heartbeat after    *)
(* every sleep of half the time to live.  Time passes in seconds; Redis,   *)
(* external, expires a key when its time to live is over.                  *)
(***************************************************************************)
EXTENDS Integers

CONSTANTS ClusterNode,  \* the ids workers register under, a fresh one each start
          HbSecs,       \* WORKER_HEARTBEAT_SECS
          MaxDelay      \* bound: seconds a command waits for the connection

ASSUME MembershipAssumption == HbSecs \in Nat \ {0} /\ MaxDelay \in Nat

VARIABLES nodeKey,   \* seconds left of tordex:cluster:node:<id>; 0: no key
          beatKey,   \* seconds left of tordex:cluster:heartbeat:<id>
          members,   \* tordex:cluster:nodes
          proc,      \* the process of each node
          beaten     \* the nodes whose latest heartbeat has been stored

membershipVars == <<nodeKey, beatKey, members, proc, beaten>>

Pcs == {"off", "set", "join", "sleep", "beat", "down"}

MembershipInit ==
    /\ nodeKey = [n \in ClusterNode |-> 0]
    /\ beatKey = [n \in ClusterNode |-> 0]
    /\ members = {}
    /\ proc = [n \in ClusterNode |-> [pc |-> "off", timer |-> 0]]
    /\ beaten = {}

(* Mutant of KeySecs: one more heartbeat may be missed.                    *)
KeySecsAmple == HbSecs + HbSecs \div 2

(* The heartbeat_ttl_secs of both SETs.                                    *)
KeySecs == HbSecs

Goto(n, pc) == proc' = [proc EXCEPT ![n] = [pc |-> pc, timer |-> 0]]

(* NodeInfo::new.                                                          *)
Start(n) ==
    /\ proc[n].pc = "off"
    /\ Goto(n, "set")
    /\ UNCHANGED <<nodeKey, beatKey, members, beaten>>

(* register: SET with the time to live of the heartbeat, then SADD.        *)
SetInfo(n) ==
    /\ proc[n].pc = "set"
    /\ nodeKey' = [nodeKey EXCEPT ![n] = KeySecs]
    /\ Goto(n, "join")
    /\ UNCHANGED <<beatKey, members, beaten>>

Join(n) ==
    /\ proc[n].pc = "join"
    /\ members' = members \cup {n}
    /\ Goto(n, "sleep")
    /\ UNCHANGED <<nodeKey, beatKey, beaten>>

(* Mutant of SleepSecs: the whole time to live.                            *)
SleepWhole == HbSecs

SleepSecs == HbSecs \div 2

SleepOver(n) ==
    /\ proc[n].pc = "sleep"
    /\ proc[n].timer = SleepSecs
    /\ Goto(n, "beat")
    /\ UNCHANGED <<nodeKey, beatKey, members, beaten>>

(* heartbeat: SET of the heartbeat key, and of no other.  The caller drops *)
(* the error of one that fails, whether it took effect or not, and sleeps  *)
(* again.                                                                  *)
Heartbeat(n) ==
    /\ proc[n].pc = "beat"
    /\ \/ beatKey' = [beatKey EXCEPT ![n] = KeySecs] /\ beaten' = beaten \cup {n}
       \/ beaten' = beaten \ {n} /\ UNCHANGED beatKey
    /\ Goto(n, "sleep")
    /\ UNCHANGED <<nodeKey, members>>

(* The process ends without deregister, which nobody calls.                *)
NodeCrash(n) ==
    /\ proc[n].pc \notin {"off", "down"}
    /\ Goto(n, "down")
    /\ UNCHANGED <<nodeKey, beatKey, members, beaten>>

SecondLess(k) == IF k = 0 THEN 0 ELSE k - 1

(* A second passes; a sleep lasts SleepSecs and a command MaxDelay at most. *)
Deadline(pc) ==
    CASE pc = "sleep" -> SleepSecs
      [] pc = "down"  -> HbSecs
      [] OTHER        -> MaxDelay

Due(n) == proc[n].pc \notin {"off", "down"} /\ proc[n].timer = Deadline(proc[n].pc)

Tick ==
    /\ \A n \in ClusterNode : ~ Due(n)
    /\ nodeKey' = [n \in ClusterNode |-> SecondLess(nodeKey[n])]
    /\ beatKey' = [n \in ClusterNode |-> SecondLess(beatKey[n])]
    /\ proc' = [n \in ClusterNode |->
          IF proc[n].pc = "off" \/ proc[n].timer = Deadline(proc[n].pc) THEN proc[n]
          ELSE [proc[n] EXCEPT !.timer = proc[n].timer + 1]]
    /\ UNCHANGED <<members, beaten>>

NodeNext(n) == Start(n) \/ SetInfo(n) \/ Join(n) \/ SleepOver(n) \/ Heartbeat(n) \/ NodeCrash(n)

MembershipNext == (\E n \in ClusterNode : NodeNext(n)) \/ Tick

MembershipSpec == MembershipInit /\ [][MembershipNext]_membershipVars

-------------------------------------------------------------------------------
(* is_alive, and what get_node finds.                                      *)
IsAlive(n) == beatKey[n] > 0

GetNode(n) == nodeKey[n] > 0

(* The state is of the types node.rs gives it.                             *)
MembershipTypeOK ==
    /\ nodeKey \in [ClusterNode -> 0..HbSecs]
    /\ beatKey \in [ClusterNode -> 0..HbSecs]
    /\ members \subseteq ClusterNode
    /\ proc \in [ClusterNode -> [pc : Pcs, timer : Nat]]
    /\ beaten \subseteq ClusterNode

(* The next heartbeat has waited for the connection, which the worker's    *)
(* blocking reads share, for all that was left of the key's life.          *)
Overdue(n) == proc[n].pc = "beat" /\ proc[n].timer >= HbSecs - SleepSecs

(* A worker whose latest heartbeat was stored is alive to whoever asks     *)
(* until it ends or its next heartbeat is overdue; one heartbeat that      *)
(* fails, or waits too long, is all that it takes to be lost (node.rs      *)
(* heartbeat: "Refresh heartbeat to keep node alive"; worker main.rs:77).  *)
StaysAlive ==
    \A n \in beaten : proc[n].pc # "down" /\ ~ Overdue(n) => IsAlive(n)

(* A worker that is gone for the time to live is neither alive nor listed, *)
(* though its id stays a member for ever (node.rs is_alive, list_nodes).   *)
GoneIsNoticed ==
    \A n \in ClusterNode : proc[n].pc = "down" /\ proc[n].timer = HbSecs =>
        ~ IsAlive(n) /\ ~ GetNode(n)

===============================================================================
