---------------------------- MODULE TemporalGraph ----------------------------
(***************************************************************************)
(* TemporalGraph (crates/temporal-graph): nodes and edges with intervals,  *)
(* snapshots of those active at a time, differences between snapshots, and *)
(* the trends and predictions made from them.  A quotient is the pair of   *)
(* its integers, so that nothing is rounded.                               *)
(***************************************************************************)
EXTENDS Integers, Sequences, FiniteSets, SequencesExt, FiniteSetsExt, Functions, Absent

CONSTANTS NodeId, EdgeId,
          Kind, Carried,          \* the kinds; what a node carries: a kind, a label, an attribute
          Ends, Interval, Span,   \* source and target of an edge; of a node, of an edge: when it is
          Times,                  \* the times at which something is asked
          Second,                 \* the length of a second
          MaxSnapshots, FarFuture

ASSUME TemporalAssumption ==
    /\ Times \subseteq Nat /\ Span \subseteq Nat \X Nat
    /\ MaxSnapshots \in Nat /\ Second \in Nat \ {0}
    /\ \A c \in Carried : c.kind \in Kind
    /\ FarFuture \in Nat /\ \A t \in Times : t < FarFuture
    /\ Nothing \notin Nat \cup [start : Nat, end : Nat \cup {Nothing}]
    /\ Interval \subseteq [start : 0..(FarFuture - 1), end : Nat \cup {Nothing}]

VARIABLES nodes,     \* GraphState.nodes: id -> kind, label, attribute and interval
          edges,     \* GraphState.edges: id -> kind, ends, property and interval
          snapshots, \* GraphHistory.snapshots
          frequency  \* GraphPredictor: nodes and edges observed, by kind

temporalVars == <<nodes, edges, snapshots, frequency>>

-----------------------------------------------------------------------------
(* TimeInterval: its end is not in it; none is a very long time from now.  *)
Holds(i, t) == t >= i.start /\ (i.end = Nothing \/ t < i.end)
EndOrFar(i, now) == IF i.end = Nothing THEN now + FarFuture ELSE i.end
Overlaps(i, j, now) == i.start < EndOrFar(j, now) /\ j.start < EndOrFar(i, now)

(* The clock is read again for the last comparison.                        *)
Intersection(i, j, now, later) ==
    LET start == Max({i.start, j.start})
        end   == Min({EndOrFar(i, now), EndOrFar(j, now)})
    IN  IF start < end
        THEN [start |-> start, end |-> IF end >= later + FarFuture THEN Nothing ELSE end]
        ELSE Nothing
Before(i, j) == i.end # Nothing /\ j.start >= i.end
ContainsInterval(i, j) ==
    i.start <= j.start /\ (i.end = Nothing \/ (j.end # Nothing /\ i.end >= j.end))

-----------------------------------------------------------------------------
(* GraphState.                                                             *)
Counters == {"nodes", "edges"} \X Kind
TemporalInit ==
    /\ nodes = [n \in NodeId |-> Nothing] /\ edges = [e \in EdgeId |-> Nothing]
    /\ snapshots = <<>> /\ frequency = [f \in Counters |-> 0]

AddNode(n, i, c) ==
    /\ nodes' = [nodes EXCEPT ![n] =
          [kind |-> c.kind, label |-> c.label, attribute |-> c.attribute, interval |-> i]]
    /\ UNCHANGED <<edges, snapshots, frequency>>
RemoveNode(n) ==
    /\ nodes' = [nodes EXCEPT ![n] = Nothing]
    /\ edges' = [e \in EdgeId |-> IF edges[e] # Nothing /\ n \in {edges[e].source, edges[e].target}
                                  THEN Nothing ELSE edges[e]]
    /\ UNCHANGED <<snapshots, frequency>>

(* The ends of an edge need not be nodes of the graph.                     *)
AddEdge(e, ends, i, c) ==
    /\ edges' = [edges EXCEPT ![e] = [kind |-> c.kind, source |-> ends[1], target |-> ends[2],
                                      attribute |-> c.attribute, interval |-> i]]
    /\ UNCHANGED <<nodes, snapshots, frequency>>
IngestRelationship(e, ends, firstSeen, lastSeen, c) ==
    AddEdge(e, ends, [start |-> firstSeen, end |-> lastSeen], c)
RemoveEdge(e) ==
    edges' = [edges EXCEPT ![e] = Nothing] /\ UNCHANGED <<nodes, snapshots, frequency>>

Present(map) == {x \in DOMAIN map : map[x] # Nothing}
ActiveAt(map, t) ==
    LET active == {x \in Present(map) : Holds(map[x].interval, t)}
    IN  [x \in DOMAIN map |-> IF x \in active THEN map[x] ELSE Nothing]
SnapshotAt(t) == [time |-> t, nodes |-> ActiveAt(nodes, t), edges |-> ActiveAt(edges, t)]

WithKind(map, k) == {x \in Present(map) : map[x].kind = k}

(* snapshot also lets the predictor observe what it took; whether its time *)
(* is after that of the last one is not asked.                             *)
TakeSnapshot(t) ==
    /\ Len(snapshots) < MaxSnapshots
    /\ snapshots' = Append(snapshots, SnapshotAt(t))
    /\ frequency' = [f \in Counters |-> frequency[f] + Cardinality(WithKind(SnapshotAt(t)[f[1]], f[2]))]
    /\ UNCHANGED <<nodes, edges>>

TemporalNext ==
    \/ \E n \in NodeId, i \in Interval, c \in Carried : AddNode(n, i, c)
    \/ \E n \in Present(nodes) : RemoveNode(n)
    \/ \E e \in EdgeId, ends \in Ends, s \in Span, c \in Carried : IngestRelationship(e, ends, s[1], s[2], c)
    \/ \E e \in Present(edges) : RemoveEdge(e)
    \/ \E t \in Times : TakeSnapshot(t)

TemporalSpec == TemporalInit /\ [][TemporalNext]_temporalVars

-----------------------------------------------------------------------------
(* GraphDiff: ids added and removed, and those whose attributes or whose   *)
(* interval changed, with the new value of the attribute.  A change of the *)
(* kind, of the label or of the ends is not a change.                      *)

(* Mutant of DiffMaps: a change of the interval alone is not a change.     *)
DiffMapsByAttribute(before, after) ==
    LET both == Present(before) \cap Present(after)
    IN  [added |-> {<<x, after[x]>> : x \in Present(after) \ Present(before)},
         removed |-> Present(before) \ Present(after),
         modified |-> {<<x, after[x].attribute, before[x].interval # after[x].interval>> :
                          x \in {y \in both : before[y].attribute # after[y].attribute}}]

DiffMaps(before, after) ==
    LET both == Present(before) \cap Present(after)
    IN  [added |-> {<<x, after[x]>> : x \in Present(after) \ Present(before)},
         removed |-> Present(before) \ Present(after),
         modified |-> {<<x, after[x].attribute, before[x].interval # after[x].interval>> :
                          x \in {y \in both : \/ before[y].attribute # after[y].attribute
                                              \/ before[y].interval # after[y].interval}}]
Between(before, after) ==
    [nodes |-> DiffMaps(before.nodes, after.nodes), edges |-> DiffMaps(before.edges, after.edges)]
CountOf(d) == Cardinality(d.added) + Cardinality(d.removed) + Cardinality(d.modified)
ChangeCount(diff) == CountOf(diff.nodes) + CountOf(diff.edges)

(* GraphHistory.                                                           *)
StateAt(t) ==
    LET upTo == {n \in DOMAIN snapshots : snapshots[n].time <= t}
    IN  IF upTo = {} THEN Nothing ELSE snapshots[Max(upTo)]
AllDiffs == [n \in 1..(Len(snapshots) - 1) |-> Between(snapshots[n], snapshots[n + 1])]

-----------------------------------------------------------------------------
(* EvolutionAnalyzer and GraphPredictor.                                   *)
Total(seq) == FoldLeft(+, 0, seq)
(* whole_seconds of a duration drops the rest, towards zero.               *)
WholeSeconds(d) == IF d >= 0 THEN d \div Second ELSE - ((- d) \div Second)
Elapsed == [n \in DOMAIN snapshots |-> WholeSeconds(snapshots[n].time - snapshots[1].time)]
Counts == [n \in DOMAIN snapshots |-> Cardinality(Present(snapshots[n].nodes))]

(* The least squares line as quotients over one denominator.               *)
LinearRegression(x, y) ==
    LET n == Len(x)
        sumX == Total(x)
        sumY == Total(y)
        sumXY == Total([i \in DOMAIN x |-> x[i] * y[i]])
        denom == n * Total([i \in DOMAIN x |-> x[i] * x[i]]) - sumX * sumX
    IN  IF denom = 0 THEN [slope |-> 0, intercept |-> sumY, over |-> n]
        ELSE LET slope == n * sumXY - sumX * sumY
             IN  [slope |-> slope * n, intercept |-> sumY * denom - slope * sumX, over |-> n * denom]

(* The count predicted, times the denominator, and never below zero.       *)
PredictedCount(t) ==
    LET trend == LinearRegression(Elapsed, Counts)
        last  == Last(snapshots).time
        value == trend.slope * (WholeSeconds(last - snapshots[1].time) + WholeSeconds(t - last)) + trend.intercept
    IN  [value |-> IF value < 0 THEN 0 ELSE value, over |-> trend.over]

NodeChurn ==
    Total([n \in 1..(Len(snapshots) - 1) |->
              Cardinality((Present(snapshots[n].nodes) \ Present(snapshots[n + 1].nodes))
                          \cup (Present(snapshots[n + 1].nodes) \ Present(snapshots[n].nodes)))])
NodeSurvival ==
    LET start == Present(Head(snapshots).nodes)
    IN  IF start = {} THEN <<1, 1>>
        ELSE <<Cardinality(start \cap Present(Last(snapshots).nodes)), Cardinality(start)>>

-----------------------------------------------------------------------------
Applied(map, d) ==
    [x \in DOMAIN map |->
        IF x \in d.removed THEN Nothing
        ELSE IF \E p \in d.added : p[1] = x THEN (CHOOSE p \in d.added : p[1] = x)[2].attribute
        ELSE IF \E p \in d.modified : p[1] = x THEN (CHOOSE p \in d.modified : p[1] = x)[2]
        ELSE IF map[x] = Nothing THEN Nothing ELSE map[x].attribute]
Attributes(map) == [x \in DOMAIN map |-> IF map[x] = Nothing THEN Nothing ELSE map[x].attribute]

(* The intersection of two intervals holds the times both hold, whenever   *)
(* it is asked, and the other comparisons agree with it; two of which one  *)
(* is empty may be said to overlap though.                                 *)
IsEmpty(i) == i.end # Nothing /\ i.end <= i.start
IntervalsAgree ==
    \A i, j \in Interval, now \in Times, tick \in 0..1 :
        LET both == Intersection(i, j, now, now + tick)
            In(k, t) == k # Nothing /\ Holds(k, t)
        IN  /\ \A t \in Times : In(both, t) <=> Holds(i, t) /\ Holds(j, t)
            /\ ~ IsEmpty(i) /\ ~ IsEmpty(j) => (Overlaps(i, j, now) <=> both # Nothing)
            /\ Before(i, j) => ~ Overlaps(i, j, now)
            /\ ContainsInterval(i, j) => \A t \in Times : Holds(j, t) => Holds(i, t)

(* A difference rebuilds the attributes of a map from those of the one     *)
(* before it, and is empty exactly when the same nodes and edges are there *)
(* with the same attributes and intervals, whatever their kinds, labels    *)
(* and ends.                                                               *)
SameCarried(before, after) ==
    /\ Present(before) = Present(after)
    /\ \A x \in Present(before) : /\ before[x].attribute = after[x].attribute
                                  /\ before[x].interval = after[x].interval
DiffsRebuild ==
    \A n \in DOMAIN AllDiffs :
        LET before == snapshots[n]
            after  == snapshots[n + 1]
            diff   == AllDiffs[n]
        IN  /\ Applied(before.nodes, diff.nodes) = Attributes(after.nodes)
            /\ Applied(before.edges, diff.edges) = Attributes(after.edges)
            /\ (ChangeCount(diff) = 0) <=> /\ SameCarried(before.nodes, after.nodes)
                                           /\ SameCarried(before.edges, after.edges)

(* The churn counts what the differences added and removed; what was       *)
(* active survives; two points a second or more apart are met by the line  *)
(* through them, and of two that are closer the mean is predicted.         *)
TrendsAgree ==
    /\ NodeChurn = Total([n \in DOMAIN AllDiffs |->
          Cardinality(AllDiffs[n].nodes.added) + Cardinality(AllDiffs[n].nodes.removed)])
    /\ Len(snapshots) = 1 => NodeSurvival[1] = NodeSurvival[2]
    /\ Len(snapshots) = 2 =>
          \A n \in 1..2 :
              LET p == PredictedCount(snapshots[n].time)
              IN  IF Elapsed[2] # 0 THEN p.value = Counts[n] * p.over
                  ELSE p.value * 2 = (Counts[1] + Counts[2]) * p.over

(* The predictor has observed a kind once for each node, or edge, of that  *)
(* kind and each snapshot it was active in.                                *)
Observations(f) ==
    {o \in (DOMAIN snapshots) \X (NodeId \cup EdgeId) : o[2] \in WithKind(snapshots[o[1]][f[1]], f[2])}
ObservedOnce == \A f \in Counters : frequency[f] = Cardinality(Observations(f))

(* Of snapshots taken in the order of their times, the state at a time is  *)
(* the latest that is not after it.                                        *)
OldestFirst == \A m, n \in DOMAIN snapshots : m < n => snapshots[m].time <= snapshots[n].time
PastIsLatest ==
    OldestFirst =>
        \A t \in Times : StateAt(t) # Nothing =>
            StateAt(t).time = Max({s.time : s \in {s \in Range(snapshots) : s.time <= t}})

(* The history of the graph, its differences, trends and predictions agree *)
(* with each other, and the intervals on which all of this rests do too.   *)
HistoryIsCoherent == DiffsRebuild /\ TrendsAgree /\ ObservedOnce /\ PastIsLatest /\ IntervalsAgree
=============================================================================
