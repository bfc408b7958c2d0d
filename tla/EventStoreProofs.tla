--------------------------- MODULE EventStoreProofs ---------------------------
(***************************************************************************)
(* The in-memory event store is contiguous, fully indexed and implements   *)
(* one append-only stream per aggregate, for any number of aggregates,     *)
(* types, writers and savers.                                              *)
(***************************************************************************)
EXTENDS EventStore, SequenceTheorems, FiniteSetTheorems, TLAPS

(* A writer that is about to append has chosen an aggregate.               *)
WriterChose == \A w \in Writers : writer[w].pc = "append" => writer[w].agg \in Aggregate

(* The induction hypothesis: the positions in the indexes lead into the    *)
(* log, and the log's versions and types lead back.                        *)
StoreInv ==
    /\ TypeOK
    /\ WriterChose
    /\ VersionsContiguous
    /\ EventsIndexed

LEMMA FunctionIsSeq ==
    ASSUME NEW S, NEW n \in Nat, NEW f \in [1..n -> S]
    PROVE  f \in Seq(S) /\ Len(f) = n
OBVIOUS

LEMMA InitStoreInv == Init => StoreInv
BY DEF Init, StoreInv, TypeOK, WriterChose, VersionsContiguous, EventsIndexed, AtRest

(* append's three pushes keep the log and its two indexes in step.         *)
LEMMA AppendKeepsStoreInv ==
    ASSUME StoreInv, NEW w \in Writers, NEW t \in Type, AppendEvent(w, t)
    PROVE  StoreInv'
<1> DEFINE a == writer[w].agg
           e == [agg |-> a, type |-> t, ver |-> writer[w].ver, src |-> w]
           idx == Len(events) + 1
<1>1. a \in Aggregate /\ t \in Type
  BY DEF StoreInv, WriterChose, AppendEvent
<1>2. events \in Seq(Event) /\ byAggregate[a] \in Seq(Nat) /\ byType[t] \in Seq(Nat)
  BY <1>1 DEF StoreInv, TypeOK
<1>3. e \in Event /\ e.ver = Len(byAggregate[a]) + 1 /\ idx \in Nat
  BY <1>1, <1>2, LenProperties DEF StoreInv, TypeOK, AppendEvent, VersionFollows, LatestVersion, Event
<1>4. /\ events' = Append(events, e)
      /\ byAggregate' = [byAggregate EXCEPT ![a] = Append(byAggregate[a], idx)]
      /\ byType' = [byType EXCEPT ![t] = Append(byType[t], idx)]
      /\ writer' = [writer EXCEPT ![w] = AtRest]
      /\ UNCHANGED <<snaps, saver, clears>>
  BY DEF AppendEvent
<1>5. /\ events' \in Seq(Event)
      /\ Len(events') = Len(events) + 1
      /\ \A i \in 1..Len(events) : events'[i] = events[i]
      /\ events'[idx] = e
  BY <1>2, <1>3, <1>4, AppendProperties
<1>6. /\ Append(byAggregate[a], idx) \in Seq(Nat)
      /\ Len(Append(byAggregate[a], idx)) = Len(byAggregate[a]) + 1
      /\ \A n \in 1..Len(byAggregate[a]) : Append(byAggregate[a], idx)[n] = byAggregate[a][n]
      /\ Append(byAggregate[a], idx)[Len(byAggregate[a]) + 1] = idx
  BY <1>2, <1>3, AppendProperties
<1>7. /\ Append(byType[t], idx) \in Seq(Nat)
      /\ Len(Append(byType[t], idx)) = Len(byType[t]) + 1
      /\ \A n \in 1..Len(byType[t]) : Append(byType[t], idx)[n] = byType[t][n]
      /\ Append(byType[t], idx)[Len(byType[t]) + 1] = idx
  BY <1>2, <1>3, AppendProperties
<1>8. TypeOK' /\ WriterChose'
  BY <1>1, <1>4, <1>5, <1>6, <1>7 DEF StoreInv, TypeOK, WriterChose, AtRest
<1>9. VersionsContiguous'
  <2> SUFFICES ASSUME NEW b \in Aggregate, NEW n \in DOMAIN byAggregate'[b]
               PROVE  /\ byAggregate'[b][n] \in DOMAIN events'
                      /\ events'[byAggregate'[b][n]].agg = b
                      /\ events'[byAggregate'[b][n]].ver = n
    BY DEF VersionsContiguous
  <2>1. DOMAIN events = 1..Len(events) /\ DOMAIN events' = 1..idx /\ Len(events) \in Nat
    BY <1>2, <1>5, LenProperties
  <2>2. CASE b = a /\ n = Len(byAggregate[a]) + 1
    BY <2>1, <2>2, <1>1, <1>3, <1>4, <1>5, <1>6 DEF StoreInv, TypeOK
  <2>3. CASE ~ (b = a /\ n = Len(byAggregate[a]) + 1)
    <3>1. n \in DOMAIN byAggregate[b] /\ byAggregate'[b][n] = byAggregate[b][n]
      BY <2>3, <1>1, <1>2, <1>4, <1>6 DEF StoreInv, TypeOK
    <3>2. /\ byAggregate[b][n] \in 1..Len(events)
          /\ events[byAggregate[b][n]].agg = b
          /\ events[byAggregate[b][n]].ver = n
      BY <3>1, <2>1 DEF StoreInv, VersionsContiguous
    <3> QED BY <3>1, <3>2, <2>1, <1>5
  <2> QED BY <2>2, <2>3
<1>10. EventsIndexed'
  <2> SUFFICES ASSUME NEW i \in DOMAIN events'
               PROVE  LET f == events'[i]
                      IN  /\ f.ver \in DOMAIN byAggregate'[f.agg]
                          /\ byAggregate'[f.agg][f.ver] = i
                          /\ \E n \in DOMAIN byType'[f.type] : byType'[f.type][n] = i
    BY DEF EventsIndexed
  <2>1. DOMAIN events = 1..Len(events) /\ DOMAIN events' = 1..idx /\ Len(events) \in Nat
    BY <1>2, <1>5, LenProperties
  <2>2. CASE i = idx
    <3>1. events'[i].agg = a /\ events'[i].type = t /\ events'[i].ver = Len(byAggregate[a]) + 1
      BY <2>2, <1>3, <1>5
    <3>2. byAggregate'[a] = Append(byAggregate[a], idx) /\ byType'[t] = Append(byType[t], idx)
      BY <1>1, <1>4 DEF StoreInv, TypeOK
    <3>3. Len(byAggregate[a]) + 1 \in DOMAIN byAggregate'[a]
      <4>1. byAggregate'[a] \in Seq(Nat)
        BY <3>2, <1>6
      <4>2. DOMAIN byAggregate'[a] = 1..(Len(byAggregate[a]) + 1)
        BY <4>1, <3>2, <1>6, LenProperties
      <4>3. Len(byAggregate[a]) \in Nat
        BY <1>2, LenProperties
      <4> QED BY ONLY <4>2, <4>3
    <3>4. Len(byType[t]) + 1 \in DOMAIN byType'[t]
      <4>1. byType'[t] \in Seq(Nat)
        BY <3>2, <1>7
      <4>2. DOMAIN byType'[t] = 1..(Len(byType[t]) + 1)
        BY <4>1, <3>2, <1>7, LenProperties
      <4>3. Len(byType[t]) \in Nat
        BY <1>2, LenProperties
      <4> QED BY ONLY <4>2, <4>3
    <3> QED BY <3>1, <3>2, <3>3, <3>4, <2>2, <1>6, <1>7
  <2>3. CASE i \in DOMAIN events
    <3>1. events'[i] = events[i] /\ events[i] \in Event
      BY <2>3, <2>1, <1>2, <1>5
    <3> DEFINE f == events[i]
               u == f.type
    <3>2. /\ f.ver \in DOMAIN byAggregate[f.agg]
          /\ byAggregate[f.agg][f.ver] = i
          /\ \E n \in DOMAIN byType[u] : byType[u][n] = i
      BY <2>3 DEF StoreInv, EventsIndexed
    <3>3. f.agg \in Aggregate /\ u \in Type
      BY <3>1 DEF Event
    <3>4. \A n \in DOMAIN byAggregate[f.agg] :
             n \in DOMAIN byAggregate'[f.agg] /\ byAggregate'[f.agg][n] = byAggregate[f.agg][n]
      <4>1. CASE f.agg = a
        BY <4>1, <1>1, <1>2, <1>4, <1>6, LenProperties DEF StoreInv, TypeOK
      <4>2. CASE f.agg # a
        BY <4>2, <3>3, <1>1, <1>4 DEF StoreInv, TypeOK
      <4> QED BY <4>1, <4>2
    <3>5. \A n \in DOMAIN byType[u] :
             n \in DOMAIN byType'[u] /\ byType'[u][n] = byType[u][n]
      <4>1. CASE u = t
        BY <4>1, <1>1, <1>2, <1>4, <1>7, LenProperties DEF StoreInv, TypeOK
      <4>2. CASE u # t
        BY <4>2, <3>3, <1>1, <1>4 DEF StoreInv, TypeOK
      <4> QED BY <4>1, <4>2
    <3> QED BY <3>1, <3>2, <3>4, <3>5
  <2> QED BY <2>1, <2>2, <2>3
<1> QED BY <1>8, <1>9, <1>10 DEF StoreInv

(* No other operation touches the log, except clear, which empties it.     *)
LEMMA StepKeepsStoreInv == StoreInv /\ [Next]_vars => StoreInv'
<1> SUFFICES ASSUME StoreInv, [Next]_vars PROVE StoreInv'
  OBVIOUS
<1>1. ASSUME NEW w \in Writers, NEW a \in Aggregate, ReadVersion(w, a) PROVE StoreInv'
  <2>1. LatestVersion(a) + 1 \in Nat
    BY LenProperties DEF StoreInv, TypeOK, LatestVersion
  <2> QED
    BY <1>1, <2>1 DEF ReadVersion, StoreInv, TypeOK, WriterChose, VersionsContiguous, EventsIndexed, storeVars
<1>2. ASSUME NEW w \in Writers, NEW t \in Type, AppendEvent(w, t) PROVE StoreInv'
  BY <1>2, AppendKeepsStoreInv
<1>3. ASSUME NEW w \in Writers, VersionConflict(w) PROVE StoreInv'
  BY <1>3 DEF VersionConflict, StoreInv, TypeOK, WriterChose, VersionsContiguous, EventsIndexed,
              storeVars, AtRest
<1>4. ASSUME Clear PROVE StoreInv'
  BY <1>4 DEF Clear, StoreInv, TypeOK, WriterChose, VersionsContiguous, EventsIndexed
<1>5. ASSUME NEW s \in Savers, NEW a \in Aggregate, Replay(s, a) PROVE StoreInv'
  <2> DEFINE snap == [agg |-> a, ver |-> LatestVersion(a),
                      state |-> [n \in DOMAIN ReadEvents(a) |-> ReadEvents(a)[n].src],
                      epoch |-> clears]
  <2>1. byAggregate[a] \in Seq(Nat) /\ DOMAIN byAggregate[a] = 1..LatestVersion(a) /\ LatestVersion(a) \in Nat
    BY LenProperties DEF StoreInv, TypeOK, LatestVersion
  <2>2. \A n \in 1..LatestVersion(a) : events[byAggregate[a][n]] \in Event
    BY <2>1 DEF StoreInv, TypeOK, VersionsContiguous
  <2>3. snap.state \in [1..LatestVersion(a) -> Writers]
    BY <2>1, <2>2 DEF ReadEvents, Event
  <2>4. snap \in Snapshot
    <3>1. snap.state \in Seq(Writers) /\ clears \in Nat
      BY <2>1, <2>3, FunctionIsSeq DEF StoreInv, TypeOK
    <3> QED BY <2>1, <3>1 DEF Snapshot
  <2>5. saver' = [saver EXCEPT ![s] = snap] /\ UNCHANGED <<storeVars, snaps, writer, clears>>
    BY <1>5 DEF Replay
  <2> QED
    BY <2>4, <2>5 DEF StoreInv, TypeOK, WriterChose, VersionsContiguous, EventsIndexed, storeVars
<1>6. ASSUME NEW s \in Savers, Save(s) PROVE StoreInv'
  <2>1. UNCHANGED <<events, byAggregate, byType, writer, clears>>
    BY <1>6 DEF Save, storeVars
  <2>2. TypeOK'
    BY <1>6, <2>1 DEF Save, StoreInv, TypeOK, Snapshot
  <2> QED BY <2>1, <2>2 DEF StoreInv, WriterChose, VersionsContiguous, EventsIndexed
<1>7. ASSUME NEW a \in Aggregate, Delete(a) PROVE StoreInv'
  BY <1>7 DEF Delete, StoreInv, TypeOK, WriterChose, VersionsContiguous, EventsIndexed, storeVars
<1>8. CASE UNCHANGED vars
  BY <1>8 DEF vars, storeVars, StoreInv, TypeOK, WriterChose, VersionsContiguous, EventsIndexed
<1> QED BY <1>1, <1>2, <1>3, <1>4, <1>5, <1>6, <1>7, <1>8 DEF Next

LEMMA StoreInvHolds == Spec => []StoreInv
BY InitStoreInv, StepKeepsStoreInv, PTL DEF Spec

(* The store's state is of its types (event_store.rs Inner, Snapshot).     *)
THEOREM StoreTypeOK == Spec => []TypeOK
BY StoreInvHolds, PTL DEF StoreInv

(* Racing writers leave every aggregate's versions contiguous              *)
(* (event_store.rs append).                                                *)
THEOREM StoreContiguous == Spec => []VersionsContiguous
BY StoreInvHolds, PTL DEF StoreInv

(* Every stored event is found by its aggregate and by its type            *)
(* (event_store.rs append).                                                *)
THEOREM StoreIndexed == Spec => []EventsIndexed
BY StoreInvHolds, PTL DEF StoreInv
-------------------------------------------------------------------------------
(* The stream an aggregate's index reads out of the log.                   *)
StreamOf(a) == [n \in DOMAIN byAggregate[a] |-> events[byAggregate[a][n]].src]

StreamMap == [a \in Aggregate |-> StreamOf(a)]

LEMMA EmptyIndexEmptyStreams ==
    ASSUME byAggregate = [a \in Aggregate |-> <<>>]
    PROVE  StreamMap = [a \in Aggregate |-> <<>>]
BY DEF StreamMap, StreamOf

(* append adds the writer to the end of its aggregate's stream.            *)
LEMMA AppendExtendsStream ==
    ASSUME StoreInv, NEW w \in Writers, NEW t \in Type, AppendEvent(w, t)
    PROVE  \E a \in Aggregate : StreamMap' = [StreamMap EXCEPT ![a] = Append(StreamMap[a], w)]
<1>1. PICK a \in Aggregate : a = writer[w].agg
  BY DEF StoreInv, WriterChose, AppendEvent
<1> DEFINE idx == Len(events) + 1
           old == byAggregate[a]
<1>2. events \in Seq(Event) /\ old \in Seq(Nat) /\ idx \in Nat
  BY <1>1, LenProperties DEF StoreInv, TypeOK
<1>3. /\ byAggregate' = [byAggregate EXCEPT ![a] = Append(old, idx)]
      /\ events' = Append(events, [agg |-> a, type |-> t, ver |-> writer[w].ver, src |-> w])
  BY <1>1 DEF AppendEvent
<1>4. /\ \A i \in 1..Len(events) : events'[i] = events[i]
      /\ events'[idx].src = w
      /\ DOMAIN events = 1..Len(events)
  <2>1. writer[w].ver = Len(old) + 1 /\ Len(old) \in Nat
    BY <1>1, <1>2, LenProperties DEF AppendEvent, VersionFollows, LatestVersion
  <2>2. [agg |-> a, type |-> t, ver |-> writer[w].ver, src |-> w] \in Event
    BY <1>1, <2>1 DEF Event
  <2> QED BY <2>2, <1>2, <1>3, AppendProperties, LenProperties
<1>5. \A b \in Aggregate : \A n \in DOMAIN byAggregate[b] :
         events'[byAggregate[b][n]].src = events[byAggregate[b][n]].src
  BY <1>4 DEF StoreInv, VersionsContiguous
<1>6. \A b \in Aggregate \ {a} : StreamOf(b)' = StreamOf(b)
  BY <1>3, <1>5 DEF StreamOf, StoreInv, TypeOK
<1>7. StreamOf(a)' = Append(StreamOf(a), w)
  <2>1. byAggregate'[a] = Append(old, idx)
    BY <1>1, <1>3 DEF StoreInv, TypeOK
  <2>2. /\ DOMAIN Append(old, idx) = 1..(Len(old) + 1)
        /\ DOMAIN old = 1..Len(old) /\ Len(old) \in Nat
        /\ \A n \in 1..Len(old) : Append(old, idx)[n] = old[n]
        /\ Append(old, idx)[Len(old) + 1] = idx
    BY <1>2, AppendProperties, LenProperties
  <2>3. StreamOf(a) \in [1..Len(old) -> Writers]
    <3>1. \A n \in 1..Len(old) : events[old[n]] \in Event
      BY <1>1, <1>2, <2>2 DEF StoreInv, VersionsContiguous
    <3> QED BY <3>1, <2>2 DEF StreamOf, Event
  <2>4. StreamOf(a) \in Seq(Writers) /\ Len(StreamOf(a)) = Len(old)
    BY <2>2, <2>3, FunctionIsSeq
  <2>5. /\ DOMAIN Append(StreamOf(a), w) = 1..(Len(old) + 1)
        /\ \A n \in 1..Len(old) : Append(StreamOf(a), w)[n] = StreamOf(a)[n]
        /\ Append(StreamOf(a), w)[Len(old) + 1] = w
        /\ Append(StreamOf(a), w) \in Seq(Writers)
    BY <2>4, AppendProperties, LenProperties
  <2>6. StreamOf(a)' = [n \in 1..(Len(old) + 1) |-> events'[Append(old, idx)[n]].src]
    BY <2>1, <2>2 DEF StreamOf
  <2>7. \A n \in 1..(Len(old) + 1) :
           events'[Append(old, idx)[n]].src = Append(StreamOf(a), w)[n]
    <3> SUFFICES ASSUME NEW n \in 1..(Len(old) + 1)
                 PROVE  events'[Append(old, idx)[n]].src = Append(StreamOf(a), w)[n]
      OBVIOUS
    <3>1. CASE n = Len(old) + 1
      BY <3>1, <1>4, <2>2, <2>5
    <3>2. CASE n \in 1..Len(old)
      <4>1. Append(old, idx)[n] = old[n] /\ n \in DOMAIN old
        BY <3>2, <2>2
      <4>2. events'[old[n]].src = events[old[n]].src
        BY <4>1, <1>1, <1>5
      <4>3. StreamOf(a)[n] = events[old[n]].src
        BY <4>1 DEF StreamOf
      <4> QED BY <4>1, <4>2, <4>3, <3>2, <2>5
    <3>3. n = Len(old) + 1 \/ n \in 1..Len(old)
      BY <2>2
    <3> QED BY <3>1, <3>2, <3>3
  <2>8. Append(StreamOf(a), w) = [n \in 1..(Len(old) + 1) |-> Append(StreamOf(a), w)[n]]
    <3>1. Append(StreamOf(a), w) \in [1..(Len(old) + 1) -> Writers]
      BY <2>5, LenProperties
    <3> QED BY <3>1
  <2> QED BY <2>6, <2>7, <2>8
<1> WITNESS a \in Aggregate
<1>8. StreamMap[a] = StreamOf(a)
  BY <1>1 DEF StreamMap
<1> QED BY <1>1, <1>6, <1>7, <1>8 DEF StreamMap

(* Every step of the store is one step of the streams, or none.            *)
LEMMA StepImplementsStreams ==
    StoreInv /\ [Next]_vars => [Streams!StreamsNext]_StreamMap
<1> SUFFICES ASSUME StoreInv, [Next]_vars PROVE [Streams!StreamsNext]_StreamMap
  OBVIOUS
<1>1. ASSUME NEW w \in Writers, NEW t \in Type, AppendEvent(w, t) PROVE Streams!StreamsNext
  <2>1. PICK a \in Aggregate : StreamMap' = [StreamMap EXCEPT ![a] = Append(StreamMap[a], w)]
    BY <1>1, AppendExtendsStream
  <2>2. Streams!StreamsAppend(a, w)
    BY <2>1 DEF Streams!StreamsAppend, StreamMap, StreamOf
  <2> QED BY <2>2 DEF Streams!StreamsNext
<1>2. ASSUME Clear PROVE Streams!StreamsNext
  <2>1. StreamMap' = [a \in Aggregate |-> <<>>]
    BY <1>2 DEF Clear, StreamMap, StreamOf
  <2> QED BY <2>1 DEF Streams!StreamsNext, Streams!StreamsClear, StreamMap, StreamOf
<1>3. ASSUME UNCHANGED <<events, byAggregate>> PROVE UNCHANGED StreamMap
  BY <1>3 DEF StreamMap, StreamOf
<1>4. CASE UNCHANGED vars
  BY <1>3, <1>4 DEF vars, storeVars
<1> QED
  BY <1>1, <1>2, <1>3, <1>4
  DEF Next, ReadVersion, VersionConflict, Replay, Save, Delete, storeVars

(* The in-memory event store implements one append-only stream for each    *)
(* aggregate, racing writers and clear included (event_store.rs append).   *)
THEOREM StoreImplementsStreams == Spec => ImplementsStreams
<1>1. Init => Streams!StreamsInit
  BY EmptyIndexEmptyStreams DEF Init, Streams!StreamsInit, StreamMap, StreamOf
<1>2. StoreInv /\ [Next]_vars => [Streams!StreamsNext]_StreamMap
  BY StepImplementsStreams
<1> QED
  BY <1>1, <1>2, StoreInvHolds, PTL DEF Spec, ImplementsStreams, Streams!StreamsSpec, StreamMap, StreamOf
-------------------------------------------------------------------------------
(* A snapshot built since the last clear is the beginning of its           *)
(* aggregate's stream, and no snapshot is from a later clear.              *)
Truthful(s, streams, epoch) ==
    /\ s.epoch <= epoch
    /\ s.epoch = epoch =>
          /\ s.ver <= Len(streams[s.agg])
          /\ Len(s.state) = s.ver
          /\ \A n \in 1..s.ver : s.state[n] = streams[s.agg][n]

SnapsTruthful ==
    /\ \A a \in Aggregate : snaps[a] # Nothing =>
          snaps[a].agg = a /\ Truthful(snaps[a], StreamMap, clears)
    /\ \A s \in Savers : saver[s] # Nothing => Truthful(saver[s], StreamMap, clears)

SnapsInv == StoreInv /\ SnapsTruthful

LEMMA NthOfInterval ==
    ASSUME NEW v \in Nat, NEW len \in Nat, v <= len
    PROVE  /\ Cardinality((v + 1)..len) = len - v
           /\ \A k \in 1..(len - v) : Nth((v + 1)..len, k) = v + k
<1>1. Cardinality((v + 1)..len) = len - v
  <2>1. Cardinality((v + 1)..len) = IF v + 1 > len THEN 0 ELSE len - (v + 1) + 1
    BY FS_Interval
  <2> QED BY <2>1
<1>2. ASSUME NEW n \in (v + 1)..len
      PROVE  Cardinality({m \in (v + 1)..len : m <= n}) = n - v
  <2>1. {m \in (v + 1)..len : m <= n} = (v + 1)..n
    OBVIOUS
  <2>2. Cardinality((v + 1)..n) = IF v + 1 > n THEN 0 ELSE n - (v + 1) + 1
    BY FS_Interval
  <2>3. n \in Nat /\ v + 1 <= n /\ n - (v + 1) + 1 = n - v
    OBVIOUS
  <2>4. Cardinality((v + 1)..n) = n - v
    BY <2>2, <2>3
  <2> QED BY <2>1, <2>4
<1>3. ASSUME NEW k \in 1..(len - v) PROVE Nth((v + 1)..len, k) = v + k
  <2>1. v + k \in (v + 1)..len
    OBVIOUS
  <2>2. \A n \in (v + 1)..len : Cardinality({m \in (v + 1)..len : m <= n}) = k <=> n = v + k
    BY <1>2
  <2> QED BY <2>1, <2>2 DEF Nth
<1> QED BY <1>1, <1>3

(* What an aggregate's index reads, and what read_since_version leaves of  *)
(* it.                                                                     *)
LEMMA StreamIs ==
    ASSUME StoreInv, NEW a \in Aggregate
    PROVE  /\ LatestVersion(a) \in Nat
           /\ DOMAIN byAggregate[a] = 1..LatestVersion(a)
           /\ StreamMap[a] \in [1..LatestVersion(a) -> Writers]
           /\ Len(StreamMap[a]) = LatestVersion(a)
           /\ \A n \in 1..LatestVersion(a) :
                 /\ ReadEvents(a)[n].ver = n
                 /\ ReadEvents(a)[n].src = StreamMap[a][n]
<1>1. byAggregate[a] \in Seq(Nat)
  BY DEF StoreInv, TypeOK
<1>2. LatestVersion(a) \in Nat /\ DOMAIN byAggregate[a] = 1..LatestVersion(a)
  BY <1>1, LenProperties DEF LatestVersion
<1>3. \A n \in 1..LatestVersion(a) : events[byAggregate[a][n]] \in Event
  BY <1>2 DEF StoreInv, TypeOK, VersionsContiguous
<1>4. StreamMap[a] = [n \in 1..LatestVersion(a) |-> events[byAggregate[a][n]].src]
  BY <1>2 DEF StreamMap, StreamOf
<1>5. \A n \in 1..LatestVersion(a) : ReadEvents(a)[n] = events[byAggregate[a][n]]
  BY <1>2 DEF ReadEvents
<1>6. \A n \in 1..LatestVersion(a) : ReadEvents(a)[n].ver = n
  BY <1>2, <1>5 DEF StoreInv, VersionsContiguous
<1>7. StreamMap[a] \in [1..LatestVersion(a) -> Writers]
  BY <1>3, <1>4 DEF Event
<1>8. Len(StreamMap[a]) = LatestVersion(a)
  BY <1>2, <1>7, FunctionIsSeq
<1> QED BY <1>2, <1>4, <1>5, <1>6, <1>7, <1>8

LEMMA ReadSinceIs ==
    ASSUME StoreInv, NEW a \in Aggregate, NEW v \in Nat, v <= LatestVersion(a)
    PROVE  ReadSinceVersion(a, v) = [k \in 1..(LatestVersion(a) - v) |-> ReadEvents(a)[v + k]]
<1>1. PICK len \in Nat : len = LatestVersion(a)
  BY StreamIs
<1>2. {n \in DOMAIN byAggregate[a] : ReadEvents(a)[n].ver > v} = (v + 1)..len
  <2>1. DOMAIN byAggregate[a] = 1..len /\ \A n \in 1..len : ReadEvents(a)[n].ver = n
    BY <1>1, StreamIs
  <2>2. {n \in DOMAIN byAggregate[a] : ReadEvents(a)[n].ver > v} = {n \in 1..len : n > v}
    BY <2>1
  <2>3. {n \in 1..len : n > v} = (v + 1)..len
    OBVIOUS
  <2> QED BY <2>2, <2>3
<1>3. v <= len
  BY <1>1
<1>4. /\ Cardinality((v + 1)..len) = len - v
      /\ \A k \in 1..(len - v) : Nth((v + 1)..len, k) = v + k
  BY <1>3, NthOfInterval
<1>5. ReadSinceVersion(a, v) = [k \in 1..Cardinality((v + 1)..len) |-> ReadEvents(a)[Nth((v + 1)..len, k)]]
  BY <1>2 DEF ReadSinceVersion, EventsAt
<1>6. ReadSinceVersion(a, v) = [k \in 1..(len - v) |-> ReadEvents(a)[v + k]]
  BY <1>4, <1>5
<1> QED BY <1>1, <1>6

(* A truthful snapshot and the events since its version are the stream.    *)
LEMMA TruthfulRecovers ==
    ASSUME SnapsInv PROVE RecoveryIsExact
<1> SUFFICES ASSUME NEW a \in Aggregate, snaps[a] # Nothing, snaps[a].epoch = clears
             PROVE  LET tail == ReadSinceVersion(a, snaps[a].ver)
                        all  == ReadEvents(a)
                    IN  snaps[a].state \o [n \in DOMAIN tail |-> tail[n].src]
                        = [n \in DOMAIN all |-> all[n].src]
  BY DEF RecoveryIsExact
<1>1. PICK len \in Nat : len = LatestVersion(a)
  BY StreamIs DEF SnapsInv
<1>2. snaps[a] \in Snapshot /\ snaps[a].agg = a
  BY DEF SnapsInv, SnapsTruthful, StoreInv, TypeOK
<1>3. PICK v \in Nat : v = snaps[a].ver
  BY <1>2 DEF Snapshot
<1>4. PICK st \in Seq(Writers) : st = snaps[a].state
  BY <1>2 DEF Snapshot
<1>5. v <= len /\ Len(st) = v /\ \A n \in 1..v : st[n] = StreamMap[a][n]
  BY <1>1, <1>2, <1>3, <1>4, StreamIs DEF SnapsInv, SnapsTruthful, Truthful
<1>6. StreamMap[a] \in [1..len -> Writers] /\ \A n \in 1..len : ReadEvents(a)[n].src = StreamMap[a][n]
  BY <1>1, StreamIs DEF SnapsInv
<1> DEFINE rest == [k \in 1..(len - v) |-> StreamMap[a][v + k]]
           tail == ReadSinceVersion(a, v)
<1>7. tail = [k \in 1..(len - v) |-> ReadEvents(a)[v + k]]
  BY <1>1, <1>5, ReadSinceIs DEF SnapsInv
<1>8. \A k \in 1..(len - v) : v + k \in 1..len
  BY <1>5
<1>9. [n \in DOMAIN tail |-> tail[n].src] = rest
  <2> HIDE DEF tail
  <2> QED BY <1>6, <1>7, <1>8
<1>10. [n \in DOMAIN ReadEvents(a) |-> ReadEvents(a)[n].src] = StreamMap[a]
  <2>1. DOMAIN ReadEvents(a) = 1..len
    BY <1>1, StreamIs DEF ReadEvents, SnapsInv
  <2> QED BY <1>6, <2>1
<1>11. st \o rest = StreamMap[a]
  <2>1. rest \in [1..(len - v) -> Writers]
    BY <1>6, <1>8
  <2>2. len - v \in Nat
    BY <1>5
  <2>3. rest \in Seq(Writers) /\ Len(rest) = len - v
    BY <2>1, <2>2, FunctionIsSeq
  <2> HIDE DEF rest
  <2>4. /\ st \o rest \in Seq(Writers)
        /\ Len(st \o rest) = Len(st) + Len(rest)
        /\ \A n \in 1..(Len(st) + Len(rest)) :
              (st \o rest)[n] = IF n <= Len(st) THEN st[n] ELSE rest[n - Len(st)]
    BY <2>3, ConcatProperties
  <2>5. Len(st \o rest) = len /\ v + (len - v) = len
    BY <1>5, <2>3, <2>4
  <2>6. st \o rest \in [1..len -> Writers]
    <3>1. PICK whole \in Seq(Writers) : whole = st \o rest
      BY <2>4
    <3>2. whole \in [1..Len(whole) -> Writers]
      BY LenProperties, ElementOfSeq
    <3> QED BY <2>5, <3>1, <3>2
  <2>7. ASSUME NEW n \in 1..len PROVE (st \o rest)[n] = StreamMap[a][n]
    <3>1. (st \o rest)[n] = IF n <= v THEN st[n] ELSE rest[n - v]
      BY <1>5, <2>3, <2>4, <2>5
    <3>2. CASE n <= v
      BY <1>5, <3>1, <3>2
    <3>3. CASE ~ (n <= v)
      <4>1. n - v \in 1..(len - v) /\ v + (n - v) = n
        BY <3>3, <1>5
      <4>2. rest[n - v] = StreamMap[a][v + (n - v)]
        BY <4>1 DEF rest
      <4> QED BY <3>1, <3>3, <4>1, <4>2
    <3> QED BY <3>2, <3>3
  <2>8. StreamMap[a] \in [1..len -> Writers]
    BY <1>6
  <2>9. PICK f \in [1..len -> Writers] : f = st \o rest
    BY <2>6
  <2>10. PICK g \in [1..len -> Writers] : g = StreamMap[a]
    BY <2>8
  <2>11. \A n \in 1..len : f[n] = g[n]
    BY <2>7, <2>9, <2>10
  <2>12. f = g
    BY ONLY <2>11, f \in [1..len -> Writers], g \in [1..len -> Writers]
  <2> QED BY <2>9, <2>10, <2>12
<1> QED BY <1>3, <1>4, <1>9, <1>10, <1>11

LEMMA InitSnapsInv == Init => SnapsInv
BY InitStoreInv DEF Init, SnapsInv, SnapsTruthful

(* append only adds to the end of a stream, so a truthful snapshot stays   *)
(* truthful.                                                               *)
LEMMA AppendKeepsTruthful ==
    ASSUME StoreInv, NEW w \in Writers, NEW t \in Type, AppendEvent(w, t),
           NEW s \in Snapshot, Truthful(s, StreamMap, clears)
    PROVE  Truthful(s, StreamMap', clears)
<1>1. PICK a \in Aggregate : StreamMap' = [StreamMap EXCEPT ![a] = Append(StreamMap[a], w)]
  BY AppendExtendsStream
<1> SUFFICES ASSUME s.epoch = clears
             PROVE  /\ s.ver <= Len(StreamMap'[s.agg])
                    /\ Len(s.state) = s.ver
                    /\ \A n \in 1..s.ver : s.state[n] = StreamMap'[s.agg][n]
  BY DEF Truthful
<1>2. PICK b \in Aggregate : b = s.agg
  BY DEF Snapshot
<1>3. PICK v \in Nat : v = s.ver
  BY DEF Snapshot
<1>4. PICK old \in Seq(Writers) : old = StreamMap[b]
  BY StreamIs, FunctionIsSeq
<1>5. v <= Len(old) /\ Len(s.state) = v /\ \A n \in 1..v : s.state[n] = old[n]
  BY <1>2, <1>3, <1>4 DEF Truthful
<1>6. StreamMap'[b] = old \/ StreamMap'[b] = Append(old, w)
  BY <1>1, <1>4 DEF StreamMap
<1>7. Len(old) <= Len(StreamMap'[b]) /\ Len(StreamMap'[b]) \in Nat
  BY <1>6, AppendProperties, LenProperties
<1>8. \A n \in 1..Len(old) : StreamMap'[b][n] = old[n]
  BY <1>6, AppendProperties
<1>9. Len(old) \in Nat
  BY LenProperties
<1>10. v <= Len(StreamMap'[b])
  BY <1>5, <1>7, <1>9
<1>11. \A n \in 1..v : n \in 1..Len(old)
  BY <1>5, <1>9
<1>12. \A n \in 1..v : s.state[n] = StreamMap'[b][n]
  BY <1>5, <1>8, <1>11
<1> QED BY <1>2, <1>3, <1>5, <1>10, <1>12

(* A snapshot that is replayed is the whole stream; every other step       *)
(* leaves the snapshots or drops or moves them; clear makes them old.      *)
LEMMA StepKeepsSnapsTruthful == SnapsInv /\ [Next]_vars => SnapsTruthful'
<1> SUFFICES ASSUME SnapsInv, [Next]_vars PROVE SnapsTruthful'
  OBVIOUS
<1>1. StoreInv /\ clears \in Nat
  BY DEF SnapsInv, StoreInv, TypeOK
<1>2. /\ saver \in [Savers -> Snapshot \cup {Nothing}]
      /\ snaps \in [Aggregate -> Snapshot \cup {Nothing}]
  BY DEF SnapsInv, StoreInv, TypeOK
<1>3. /\ \A a \in Aggregate : snaps[a] # Nothing =>
             snaps[a] \in Snapshot /\ snaps[a].agg = a /\ Truthful(snaps[a], StreamMap, clears)
      /\ \A s \in Savers : saver[s] # Nothing =>
             saver[s] \in Snapshot /\ Truthful(saver[s], StreamMap, clears)
  BY <1>2 DEF SnapsInv, SnapsTruthful
<1>4. ASSUME UNCHANGED storeVars PROVE StreamMap' = StreamMap
  BY <1>4 DEF StreamMap, StreamOf, storeVars
<1>5. ASSUME UNCHANGED <<storeVars, snaps, saver, clears>> PROVE SnapsTruthful'
  BY <1>3, <1>4, <1>5 DEF SnapsTruthful
<1>6. ASSUME NEW w \in Writers, NEW t \in Type, AppendEvent(w, t) PROVE SnapsTruthful'
  <2>1. snaps' = snaps /\ saver' = saver /\ clears' = clears
    BY <1>6 DEF AppendEvent
  <2>2. ASSUME NEW s \in Snapshot, Truthful(s, StreamMap, clears)
        PROVE  Truthful(s, StreamMap', clears)
    BY <1>1, <1>6, <2>2, AppendKeepsTruthful
  <2> QED BY <1>3, <2>1, <2>2 DEF SnapsTruthful
<1>7. ASSUME Clear PROVE SnapsTruthful'
  <2>1. snaps' = snaps /\ saver' = saver /\ clears' = clears + 1
    BY <1>7 DEF Clear
  <2>2. ASSUME NEW s \in Snapshot, Truthful(s, StreamMap, clears)
        PROVE  Truthful(s, StreamMap', clears + 1)
    <3>1. s.epoch \in Nat /\ s.epoch <= clears
      BY <2>2 DEF Snapshot, Truthful
    <3>2. s.epoch <= clears + 1 /\ s.epoch # clears + 1
      BY <1>1, <3>1
    <3> QED BY <3>2 DEF Truthful
  <2> QED BY <1>3, <2>1, <2>2 DEF SnapsTruthful
<1>8. ASSUME NEW s \in Savers, NEW a \in Aggregate, Replay(s, a) PROVE SnapsTruthful'
  <2>1. PICK snap : snap = [agg |-> a, ver |-> LatestVersion(a),
                            state |-> [n \in DOMAIN ReadEvents(a) |-> ReadEvents(a)[n].src],
                            epoch |-> clears]
    OBVIOUS
  <2>2. /\ saver' = [saver EXCEPT ![s] = snap]
        /\ UNCHANGED storeVars /\ clears' = clears /\ snaps' = snaps
    BY <1>8, <2>1 DEF Replay
  <2>3. /\ snap.agg = a /\ snap.ver = LatestVersion(a) /\ snap.epoch = clears
        /\ snap.state = [n \in DOMAIN ReadEvents(a) |-> ReadEvents(a)[n].src]
    BY <2>1
  <2>4. /\ LatestVersion(a) \in Nat
        /\ StreamMap[a] \in [1..LatestVersion(a) -> Writers]
        /\ Len(StreamMap[a]) = LatestVersion(a)
        /\ \A n \in 1..LatestVersion(a) : ReadEvents(a)[n].src = StreamMap[a][n]
    BY <1>1, StreamIs
  <2>5. DOMAIN ReadEvents(a) = 1..LatestVersion(a)
    BY <1>1, StreamIs DEF ReadEvents
  <2>6. snap.state = StreamMap[a]
    BY <2>3, <2>4, <2>5
  <2>7. Truthful(snap, StreamMap, clears)
    BY <1>1, <2>3, <2>4, <2>6 DEF Truthful
  <2>8. \A q \in Savers : saver'[q] = IF q = s THEN snap ELSE saver[q]
    BY <1>2, <2>2
  <2>9. StreamMap' = StreamMap
    BY <1>4, <2>2
  <2> QED BY <1>3, <2>2, <2>7, <2>8, <2>9 DEF SnapsTruthful
<1>9. ASSUME NEW s \in Savers, Save(s) PROVE SnapsTruthful'
  <2>1. /\ saver[s] # Nothing
        /\ snaps' = [snaps EXCEPT ![saver[s].agg] = saver[s]]
        /\ saver' = [saver EXCEPT ![s] = Nothing]
        /\ UNCHANGED storeVars /\ clears' = clears
    BY <1>9 DEF Save
  <2>2. \A q \in Savers : saver'[q] = IF q = s THEN Nothing ELSE saver[q]
    BY <1>2, <2>1
  <2>3. \A a \in Aggregate : snaps'[a] = IF a = saver[s].agg THEN saver[s] ELSE snaps[a]
    BY <1>2, <2>1
  <2>4. StreamMap' = StreamMap
    BY <1>4, <2>1
  <2> QED BY <1>3, <2>1, <2>2, <2>3, <2>4 DEF SnapsTruthful
<1>10. ASSUME NEW a \in Aggregate, Delete(a) PROVE SnapsTruthful'
  <2>1. /\ snaps' = [snaps EXCEPT ![a] = Nothing]
        /\ UNCHANGED storeVars /\ clears' = clears /\ saver' = saver
    BY <1>10 DEF Delete
  <2>2. \A b \in Aggregate : snaps'[b] = IF b = a THEN Nothing ELSE snaps[b]
    BY <1>2, <2>1
  <2>3. StreamMap' = StreamMap
    BY <1>4, <2>1
  <2> QED BY <1>3, <2>1, <2>2, <2>3 DEF SnapsTruthful
<1>11. ASSUME NEW w \in Writers, NEW a \in Aggregate, ReadVersion(w, a) PROVE SnapsTruthful'
  BY <1>5, <1>11 DEF ReadVersion
<1>12. ASSUME NEW w \in Writers, VersionConflict(w) PROVE SnapsTruthful'
  BY <1>5, <1>12 DEF VersionConflict
<1>13. CASE UNCHANGED vars
  BY <1>5, <1>13 DEF vars, storeVars
<1> QED
  BY <1>6, <1>7, <1>8, <1>9, <1>10, <1>11, <1>12, <1>13 DEF Next

LEMMA SnapsInvHolds == Spec => []SnapsInv
<1>1. SnapsInv /\ [Next]_vars => SnapsInv'
  BY StepKeepsStoreInv, StepKeepsSnapsTruthful DEF SnapsInv
<1> QED BY <1>1, InitSnapsInv, PTL DEF Spec

(* A snapshot and the events since its version are the whole history, as   *)
(* long as the store was not cleared since it was built (event_store.rs    *)
(* read_since_version, Snapshot).                                          *)
THEOREM StoreRecoveryIsExact == Spec => []RecoveryIsExact
BY SnapsInvHolds, TruthfulRecovers, PTL
===============================================================================
