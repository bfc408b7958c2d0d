----------------------------- MODULE KernelRuntime -----------------------------
(***************************************************************************)
(* KernelRuntime of services/kernel/src/runtime.rs: the loop that reads    *)
(* the events stored since the last one it saw and dispatches them to the  *)
(* agents (InMemoryAgentRuntime of crates/core/src/agent.rs), beside the   *)
(* requests that publish events, over one PgEventStore.                    *)
(***************************************************************************)
EXTENDS PgEventStore, Sequences

CONSTANTS Agents,      \* the agents registered at startup
          MayErr,      \* whether an agent's handle_event may return Err
          MaxRestarts  \* bound: restarts of the kernel process

ASSUME RuntimeAssumption ==
    /\ Agents # {}
    /\ MayErr \in BOOLEAN
    /\ MaxRestarts \in Nat

VARIABLES cursor,   \* last_event_id; 0 is Ulid::nil()
          batch,    \* the rest of new_events
          last,     \* the id of new_events.last()
          seen,     \* the events each agent has handled since the start
          late,     \* history: the rows that became visible behind the cursor
          restarts  \* restarts so far

runtimeVars == <<cursor, batch, last, seen>>
vars == <<pgVars, runtimeVars, late, restarts>>

Init ==
    /\ PgInit
    /\ cursor = 0
    /\ batch = <<>>
    /\ last = 0
    /\ seen = [g \in Agents |-> <<>>]
    /\ late = {}
    /\ restarts = 0

-------------------------------------------------------------------------------
(* The rows of a set in the order of their timestamps.                     *)
ByTimestamp(S) ==
    CHOOSE s \in [1..Cardinality(S) -> S] :
        \A i, j \in 1..Cardinality(S) : i < j => s[i].ts < s[j].ts

(* SELECT ... WHERE id > $1 ORDER BY timestamp.                            *)
ReadSince(id) == ByTimestamp({r \in rows : r.id > id})

(* One turn of the loop begins.  A statement that fails, or finds nothing, *)
(* ends it with the cursor where it was.                                   *)
BeginTick ==
    /\ batch = <<>> /\ last = 0
    /\ ReadSince(cursor) # <<>>
    /\ batch' = ReadSince(cursor)
    /\ last' = batch'[Len(batch')].id
    /\ UNCHANGED <<pgVars, cursor, seen, late, restarts>>

(* dispatch_event: the agents in the order of a HashMap, up to the first   *)
(* that returns Err, which the loop ignores.                               *)
Dispatch ==
    /\ batch # <<>>
    /\ \E reached \in (IF MayErr THEN (SUBSET Agents) \ {{}} ELSE {Agents}) :
          seen' = [g \in Agents |-> IF g \in reached THEN Append(seen[g], batch[1]) ELSE seen[g]]
    /\ batch' = Tail(batch)
    /\ UNCHANGED <<pgVars, cursor, last, late, restarts>>

(* Mutant of NextCursor: what is newest now, not what was dispatched.      *)
NewestCursor ==
    LET ids == {r.id : r \in rows} \cup {cursor}
    IN  CHOOSE i \in ids : \A j \in ids : j <= i

(* Mutant of NextCursor: the cursor stays behind.                          *)
SameCursor == cursor

NextCursor == IF last > cursor THEN last ELSE cursor

EndTick ==
    /\ batch = <<>> /\ last # 0
    /\ cursor' = NextCursor
    /\ last' = 0
    /\ UNCHANGED <<pgVars, batch, seen, late, restarts>>

(* The process dies with its requests, its cursor and its agents, and      *)
(* starts again over the same table.                                       *)
Restart ==
    /\ restarts < MaxRestarts
    /\ restarts' = restarts + 1
    /\ cursor' = 0
    /\ batch' = <<>>
    /\ last' = 0
    /\ seen' = [g \in Agents |-> <<>>]
    /\ late' = {}
    /\ writer' = [w \in Writers |-> AtRest]
    /\ UNCHANGED <<rows, stamps>>

RuntimeNext == BeginTick \/ Dispatch \/ EndTick

(* The id the loop has read up to, or will have at the end of its turn.    *)
Position == IF last # 0 THEN last ELSE cursor

(* A request takes its steps whatever the loop is doing: its id is taken   *)
(* when the envelope is built and its row is visible when it is inserted.  *)
Request ==
    /\ PgNext
    /\ late' = late \cup {r \in rows' \ rows : r.id <= Position}
    /\ UNCHANGED <<runtimeVars, restarts>>

Next ==
    \/ Request
    \/ RuntimeNext
    \/ Restart

Spec == Init /\ [][Next]_vars

(* The loop turns on every tick of its interval.                           *)
FairSpec == Spec /\ WF_vars(RuntimeNext)

-------------------------------------------------------------------------------
(* The state is of the types persistent.rs and runtime.rs declare, and the *)
(* cursor is nil or the id of a row.                                       *)
TypeOK ==
    /\ PgTypeOK
    /\ {cursor, last} \subseteq {0} \cup {r.id : r \in rows}
    /\ batch \in Seq(rows)
    /\ seen \in [Agents -> Seq(rows)]
    /\ late \subseteq rows
    /\ restarts \in 0..MaxRestarts

Handled(g) == {seen[g][i] : i \in DOMAIN seen[g]}

(* Everything at or before the cursor has been dispatched, to all agents   *)
(* if none of them failed and to one at least otherwise, unless it became  *)
(* visible when an event with a greater id had been read: to a row that is *)
(* inserted so late, and to no other, the loop is blind                    *)
(* (runtime.rs dispatch_new_events).                                       *)
NothingSkipped ==
    \A r \in rows \ late : r.id <= cursor =>
        /\ \E g \in Agents : r \in Handled(g)
        /\ ~ MayErr => \A g \in Agents : r \in Handled(g)

(* Its id is greater than that of an event stamped after it, as it may be  *)
(* within a millisecond, where ids are random.                             *)
Inverted(r) == \E s \in rows : r.ts < s.ts /\ s.id < r.id

(* No agent is handed an event twice, or after a later one, between two    *)
(* starts of the kernel, unless the event's id is out of order.            *)
HandedInOrder ==
    \A g \in Agents : \A i, j \in DOMAIN seen[g] :
        i < j => seen[g][i].ts < seen[g][j].ts \/ Inverted(seen[g][j])

(* runtime.rs dispatch_new_events, beside any number of requests and with  *)
(* several events in a millisecond: every event handed on, each once, in   *)
(* the order of their timestamps, but for those two causes.                *)
OnceInOrder == NothingSkipped /\ HandedInOrder

(* Every stored event reaches an agent, if the kernel stops being          *)
(* restarted, or became visible behind the cursor (runtime.rs run).        *)
EventsDispatched ==
    \A n \in 1..MaxEvents :
        (\E r \in rows : r.ts = n) ~>
            (\E r \in late \cup UNION {Handled(g) : g \in Agents} : r.ts = n)
===============================================================================
