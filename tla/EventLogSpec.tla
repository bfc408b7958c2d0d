---------------------------- MODULE EventLogSpec ----------------------------
(***************************************************************************)
(* What an event store promises its users: for each aggregate a stream to  *)
(* which events are added at the end, one at a time, and never changed.    *)
(***************************************************************************)
EXTENDS Sequences

CONSTANTS Aggregate,  \* the aggregates
          Source      \* who events come from

VARIABLE streams      \* the stream of each aggregate

StreamsInit == streams = [a \in Aggregate |-> <<>>]

StreamsAppend(a, s) ==
    streams' = [streams EXCEPT ![a] = Append(streams[a], s)]

StreamsClear == streams' = [a \in Aggregate |-> <<>>]

StreamsNext ==
    \/ \E a \in Aggregate, s \in Source : StreamsAppend(a, s)
    \/ StreamsClear

StreamsSpec == StreamsInit /\ [][StreamsNext]_streams
=============================================================================
