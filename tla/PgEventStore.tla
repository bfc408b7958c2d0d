----------------------------- MODULE PgEventStore -----------------------------
(***************************************************************************)
(* PgEventStore of services/kernel/src/persistent.rs over the table        *)
(* kernel_events of migrations/0002_kernel.sql, with the callers of        *)
(* publish_event (services/kernel/src/api.rs) as its writers.  Each SQL    *)
(* statement is a transaction of its own: the version test and the insert  *)
(* of append are two of them, and nothing in the table makes               *)
(* (aggregate_id, version) unique.                                         *)
(***************************************************************************)
EXTENDS Integers, FiniteSets

CONSTANTS Aggregate,   \* aggregate ids
          Seeded,      \* the aggregates the table already has a first event of
          Writers,     \* requests to publish_event under way
          PerMs,       \* events stamped in one millisecond
          MayFail,     \* whether a statement may fail
          MaxEvents    \* bound: events stamped

ASSUME PgAssumption ==
    /\ Seeded \subseteq Aggregate /\ IsFiniteSet(Aggregate) /\ Aggregate # {}
    /\ PerMs \in Nat \ {0}
    /\ MayFail \in BOOLEAN
    /\ MaxEvents \in Nat

VARIABLES rows,     \* kernel_events
          stamps,   \* EventEnvelopes built: the clock of `timestamp`
          writer    \* what each request is doing; its reply is left out

pgVars == <<rows, stamps, writer>>

(* A row, its payload left out.  `timestamp` is the order in which the     *)
(* envelopes were built; `id`, a Ulid, orders by millisecond and is random *)
(* within one.                                                             *)
Row == [id : Nat, agg : Aggregate, ver : Nat, ts : Nat]

Versions(a) == {r.ver : r \in {x \in rows : x.agg = a}}

(* SELECT MAX(version); of no rows it is NULL, which does not decode.      *)
MaxVersion(a) == CHOOSE v \in Versions(a) : \A u \in Versions(a) : u <= v

(* The n-th envelope is built in millisecond n \div PerMs: the ids it may  *)
(* get.                                                                    *)
UlidsOf(n) == {((n - 1) \div PerMs) * PerMs + k : k \in 1..PerMs}

AtRest == [pc |-> "idle", agg |-> CHOOSE a \in Aggregate : TRUE, ver |-> 0, id |-> 0, ts |-> 0]

(* The seeds were stamped before everything else, their ids in order.      *)
SeedRows ==
    LET Num == CHOOSE f \in [Seeded -> 1..Cardinality(Seeded)] :
                  \A a, b \in Seeded : a # b => f[a] # f[b]
    IN  {[id |-> Num[a], agg |-> a, ver |-> 1, ts |-> Num[a]] : a \in Seeded}

PgInit ==
    /\ rows = SeedRows
    /\ stamps = Cardinality(Seeded)
    /\ writer = [w \in Writers |-> AtRest]

-------------------------------------------------------------------------------
(* latest_version: 0 when the statement fails or its row does not decode.  *)
ReadLatest(w, a) ==
    /\ writer[w].pc = "idle"
    /\ \E base \in {IF Versions(a) = {} THEN 0 ELSE MaxVersion(a)} \cup (IF MayFail THEN {0} ELSE {}) :
          writer' = [writer EXCEPT ![w] = [pc |-> "stamp", agg |-> a, ver |-> base + 1, id |-> 0, ts |-> 0]]
    /\ UNCHANGED <<rows, stamps>>

(* EventEnvelope::new.                                                     *)
Stamp(w) ==
    /\ writer[w].pc = "stamp"
    /\ stamps < MaxEvents
    /\ stamps' = stamps + 1
    /\ \E id \in UlidsOf(stamps + 1) :
          /\ id \notin {r.id : r \in rows} \cup {writer[v].id : v \in Writers}
          /\ writer' = [writer EXCEPT ![w] = [pc |-> "select", agg |-> @.agg, ver |-> @.ver, id |-> id, ts |-> stamps + 1]]
    /\ UNCHANGED rows

End(w) == writer' = [writer EXCEPT ![w] = AtRest]

(* append: the version test ...                                            *)
Follows(ver, current) == ver = current + 1

SelectMax(w) ==
    LET e == writer[w]
    IN  /\ e.pc = "select"
        /\ \/ /\ Versions(e.agg) # {}
              /\ Follows(e.ver, MaxVersion(e.agg))
              /\ writer' = [writer EXCEPT ![w].pc = "insert"]
           \/ /\ Versions(e.agg) # {}
              /\ ~ Follows(e.ver, MaxVersion(e.agg))
              /\ End(w)
           \/ /\ Versions(e.agg) = {} \/ MayFail
              /\ End(w)
        /\ UNCHANGED <<rows, stamps>>

(* ... and the insert, which may fail; one that fails after it took effect *)
(* leaves its row like any other.                                          *)
Insert(w) ==
    LET e == writer[w]
    IN  /\ e.pc = "insert"
        /\ \/ /\ rows' = rows \cup {[id |-> e.id, agg |-> e.agg, ver |-> e.ver, ts |-> e.ts]}
              /\ End(w)
           \/ /\ MayFail
              /\ End(w)
              /\ UNCHANGED rows
        /\ UNCHANGED stamps

PgNext ==
    \/ \E w \in Writers, a \in Aggregate : ReadLatest(w, a)
    \/ \E w \in Writers : Stamp(w)
    \/ \E w \in Writers : SelectMax(w)
    \/ \E w \in Writers : Insert(w)

PgSpec == PgInit /\ [][PgNext]_pgVars

-------------------------------------------------------------------------------
PgTypeOK ==
    /\ rows \subseteq Row
    /\ stamps \in Nat
    /\ writer \in [Writers -> [pc : {"idle", "stamp", "select", "insert"},
                               agg : Aggregate, ver : Nat, id : Nat, ts : Nat]]

(* Two events of an aggregate never carry the same version                 *)
(* (event_store.rs append: "Returns an error if the version does not       *)
(* follow the latest version for this aggregate (optimistic                *)
(* concurrency)").                                                         *)
VersionsUnique ==
    \A r, s \in rows : r.agg = s.agg /\ r.ver = s.ver => r = s
===============================================================================
