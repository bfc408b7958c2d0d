------------------------------ MODULE EventStore ------------------------------
(***************************************************************************)
(* InMemoryEventStore and InMemorySnapshotStore of                         *)
(* crates/core/src/event_store.rs, with the writers every emitter of the   *)
(* repository is (fabric.rs, engine.rs, api.rs publish_event): read        *)
(* latest_version, add one, append, each under the store's mutex and with  *)
(* other threads in between; and with a user of the snapshot store.        *)
(***************************************************************************)
EXTENDS Naturals, Sequences, FiniteSets

CONSTANTS Aggregate,   \* aggregate ids
          Type,        \* aggregate types
          Writers,     \* threads that append
          Savers,      \* threads that save snapshots
          MaxClears,   \* bound: calls of clear (event_store.rs: "for testing")
          MaxEvents,   \* bound: events appended
          Nothing      \* no snapshot

ASSUME BoundAssumption == MaxEvents \in Nat /\ MaxClears \in Nat

VARIABLES events,       \* Inner.events
          byAggregate,  \* Inner.by_aggregate: positions in events
          byType,       \* Inner.by_type
          snaps,        \* the snapshot of each aggregate
          writer,       \* what each writer is doing
          saver,        \* the snapshot each saver has built and not saved
          clears        \* history: calls of clear so far

storeVars == <<events, byAggregate, byType>>
vars == <<events, byAggregate, byType, snaps, writer, saver, clears>>

(* EventEnvelope, its payload reduced to who wrote it.  The type is the    *)
(* event's own: nothing ties an aggregate to one.                          *)
Event == [agg : Aggregate, type : Type, ver : Nat \ {0}, src : Writers]

(* Snapshot: the aggregate's state is its history, folded.  The epoch is   *)
(* history: the calls of clear before the snapshot was built.              *)
Snapshot == [agg : Aggregate, ver : Nat, state : Seq(Writers), epoch : Nat]

AtRest == [pc |-> "idle", agg |-> Nothing, ver |-> 0]

Init ==
    /\ events = <<>>
    /\ byAggregate = [a \in Aggregate |-> <<>>]
    /\ byType = [t \in Type |-> <<>>]
    /\ snaps = [a \in Aggregate |-> Nothing]
    /\ writer = [w \in Writers |-> AtRest]
    /\ saver = [s \in Savers |-> Nothing]
    /\ clears = 0

-------------------------------------------------------------------------------
(* The methods that only read.                                             *)

LatestVersion(a) == Len(byAggregate[a])

ReadEvents(a) == [n \in DOMAIN byAggregate[a] |-> events[byAggregate[a][n]]]

ReadAll(t) == [n \in DOMAIN byType[t] |-> events[byType[t][n]]]

(* The k-th of a set of positions, and an aggregate's events at a set of   *)
(* positions: iter, filter and collect.                                    *)
Nth(S, k) == CHOOSE n \in S : Cardinality({m \in S : m <= n}) = k

EventsAt(a, S) == [k \in 1..Cardinality(S) |-> ReadEvents(a)[Nth(S, k)]]

(* Mutant of ReadSinceVersion: the bound included.                         *)
ReadFromVersion(a, v) ==
    EventsAt(a, {n \in DOMAIN byAggregate[a] : ReadEvents(a)[n].ver >= v})

ReadSinceVersion(a, v) ==
    EventsAt(a, {n \in DOMAIN byAggregate[a] : ReadEvents(a)[n].ver > v})

-------------------------------------------------------------------------------
ReadVersion(w, a) ==
    /\ writer[w].pc = "idle"
    /\ Len(events) < MaxEvents
    /\ writer' = [writer EXCEPT ![w] = [pc |-> "append", agg |-> a, ver |-> LatestVersion(a) + 1]]
    /\ UNCHANGED <<storeVars, snaps, saver, clears>>

(* append, its version check and its three pushes under one lock.          *)
(* VersionUnchecked is a mutant of the check, AppendUntyped and AppendFront *)
(* are mutants of the pushes.                                              *)
VersionUnchecked(w) == TRUE

VersionFollows(w) == writer[w].ver = LatestVersion(writer[w].agg) + 1

AppendUntyped(w, t) ==
    LET a == writer[w].agg
    IN  /\ writer[w].pc = "append"
        /\ VersionFollows(w)
        /\ events' = Append(events, [agg |-> a, type |-> t, ver |-> writer[w].ver, src |-> w])
        /\ byAggregate' = [byAggregate EXCEPT ![a] = Append(byAggregate[a], Len(events) + 1)]
        /\ writer' = [writer EXCEPT ![w] = AtRest]
        /\ UNCHANGED <<byType, snaps, saver, clears>>

AppendFront(w, t) ==
    LET a   == writer[w].agg
        idx == Len(events) + 1
    IN  /\ writer[w].pc = "append"
        /\ VersionFollows(w)
        /\ events' = <<[agg |-> a, type |-> t, ver |-> writer[w].ver, src |-> w]>> \o events
        /\ byAggregate' = [byAggregate EXCEPT ![a] = Append(byAggregate[a], idx)]
        /\ byType' = [byType EXCEPT ![t] = Append(byType[t], idx)]
        /\ writer' = [writer EXCEPT ![w] = AtRest]
        /\ UNCHANGED <<snaps, saver, clears>>

AppendEvent(w, t) ==
    LET a   == writer[w].agg
        idx == Len(events) + 1
    IN  /\ writer[w].pc = "append"
        /\ VersionFollows(w)
        /\ events' = Append(events, [agg |-> a, type |-> t, ver |-> writer[w].ver, src |-> w])
        /\ byAggregate' = [byAggregate EXCEPT ![a] = Append(byAggregate[a], idx)]
        /\ byType' = [byType EXCEPT ![t] = Append(byType[t], idx)]
        /\ writer' = [writer EXCEPT ![w] = AtRest]
        /\ UNCHANGED <<snaps, saver, clears>>

VersionConflict(w) ==
    /\ writer[w].pc = "append"
    /\ ~ VersionFollows(w)
    /\ writer' = [writer EXCEPT ![w] = AtRest]
    /\ UNCHANGED <<storeVars, snaps, saver, clears>>

Clear ==
    /\ clears < MaxClears
    /\ clears' = clears + 1
    /\ events' = <<>>
    /\ byAggregate' = [a \in Aggregate |-> <<>>]
    /\ byType' = [t \in Type |-> <<>>]
    /\ UNCHANGED <<snaps, writer, saver>>

-------------------------------------------------------------------------------
(* Aggregate::replay over read_events, then SnapshotStore::save, which     *)
(* overwrites whatever snapshot is there.                                  *)
Replay(s, a) ==
    /\ saver[s] = Nothing
    /\ saver' = [saver EXCEPT ![s] =
          [agg |-> a, ver |-> LatestVersion(a),
           state |-> [n \in DOMAIN ReadEvents(a) |-> ReadEvents(a)[n].src],
           epoch |-> clears]]
    /\ UNCHANGED <<storeVars, snaps, writer, clears>>

Save(s) ==
    /\ saver[s] # Nothing
    /\ snaps' = [snaps EXCEPT ![saver[s].agg] = saver[s]]
    /\ saver' = [saver EXCEPT ![s] = Nothing]
    /\ UNCHANGED <<storeVars, writer, clears>>

Delete(a) ==
    /\ snaps[a] # Nothing
    /\ snaps' = [snaps EXCEPT ![a] = Nothing]
    /\ UNCHANGED <<storeVars, writer, saver, clears>>

-------------------------------------------------------------------------------
Next ==
    \/ \E w \in Writers, a \in Aggregate : ReadVersion(w, a)
    \/ \E w \in Writers, t \in Type : AppendEvent(w, t)
    \/ \E w \in Writers : VersionConflict(w)
    \/ Clear
    \/ \E s \in Savers, a \in Aggregate : Replay(s, a)
    \/ \E s \in Savers : Save(s)
    \/ \E a \in Aggregate : Delete(a)

Spec == Init /\ [][Next]_vars

-------------------------------------------------------------------------------
(* The state is of the types event_store.rs declares.                      *)
TypeOK ==
    /\ events \in Seq(Event)
    /\ byAggregate \in [Aggregate -> Seq(Nat)]
    /\ byType \in [Type -> Seq(Nat)]
    /\ snaps \in [Aggregate -> Snapshot \cup {Nothing}]
    /\ writer \in [Writers -> [pc : {"idle", "append"}, agg : Aggregate \cup {Nothing}, ver : Nat]]
    /\ saver \in [Savers -> Snapshot \cup {Nothing}]
    /\ clears \in Nat

(* Read by aggregate, the n-th event carries version n and belongs there:  *)
(* no version is skipped, doubled or misfiled however writers race         *)
(* (event_store.rs append: optimistic concurrency).                        *)
VersionsContiguous ==
    \A a \in Aggregate : \A n \in DOMAIN byAggregate[a] :
        /\ byAggregate[a][n] \in DOMAIN events
        /\ events[byAggregate[a][n]].agg = a
        /\ events[byAggregate[a][n]].ver = n

(* No event is out of its indexes' reach: every one is listed by its       *)
(* aggregate, at its version, and by its type (the three pushes of         *)
(* append).                                                                *)
EventsIndexed ==
    \A i \in DOMAIN events :
        LET e == events[i]
        IN  /\ e.ver \in DOMAIN byAggregate[e.agg]
            /\ byAggregate[e.agg][e.ver] = i
            /\ \E n \in DOMAIN byType[e.type] : byType[e.type][n] = i

(* A snapshot, however late it is saved over a newer one, and the events   *)
(* since its version are together the whole history, as long as the store  *)
(* was not cleared since it was built (event_store.rs: "snapshots for      *)
(* efficient recovery").                                                   *)
RecoveryIsExact ==
    \A a \in Aggregate : snaps[a] # Nothing /\ snaps[a].epoch = clears =>
        LET tail == ReadSinceVersion(a, snaps[a].ver)
            all  == ReadEvents(a)
        IN  snaps[a].state \o [n \in DOMAIN tail |-> tail[n].src]
            = [n \in DOMAIN all |-> all[n].src]

(* The store implements the streams: every step adds one event to the end  *)
(* of one stream, clears them all, or leaves them alone.                   *)
Streams == INSTANCE EventLogSpec WITH
    Source  <- Writers,
    streams <- [a \in Aggregate |-> [n \in DOMAIN byAggregate[a] |-> events[byAggregate[a][n]].src]]

(* event_store.rs append and clear are those of append-only streams.       *)
ImplementsStreams == Streams!StreamsSpec
===============================================================================
