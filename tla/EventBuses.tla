----------------------------- MODULE EventBuses -----------------------------
(***************************************************************************)
(* The event buses of crates/events: a broadcast channel in memory whose   *)
(* slow subscribers lag, and a Redis stream that a task per subscriber     *)
(* reads from the beginning into a bounded channel.                        *)
(***************************************************************************)
EXTENDS Naturals, Sequences, SequencesExt, Functions

CONSTANTS StreamTopic, StreamSubscriber, TopicOf,  \* the topic each subscriber asks for
          Capacity,                    \* of the broadcast channel
          ChannelSize, BatchSize,      \* of the reader's channel and of one XREAD
          MaxPublished                 \* bound: envelopes published

ASSUME BusesAssumption ==
    /\ TopicOf \in [StreamSubscriber -> StreamTopic] /\ MaxPublished \in Nat
    /\ Capacity \in Nat \ {0} /\ ChannelSize \in Nat \ {0} /\ BatchSize \in Nat \ {0}

VARIABLES published,  \* topics of the envelopes sent, the channel and the stream
          position,   \* broadcast subscribers: the next one to receive
          skipped,    \* history: envelopes a subscriber lagged behind
          lastId, batch, channel, reading,   \* readers of the stream
          handed    \* history: positions each subscriber was given

busVars == <<published, position, skipped, lastId, batch, channel, reading, handed>>
broadcastVars == <<position, skipped>>
streamVars == <<lastId, batch, channel, reading>>

NotSubscribed == 0
BusesInit ==
    /\ published = <<>>
    /\ position = [s \in StreamSubscriber |-> NotSubscribed] /\ skipped = [s \in StreamSubscriber |-> {}]
    /\ lastId = [s \in StreamSubscriber |-> 0] /\ batch = [s \in StreamSubscriber |-> <<>>]
    /\ channel = [s \in StreamSubscriber |-> <<>>] /\ reading = [s \in StreamSubscriber |-> "no"]
    /\ handed = [s \in StreamSubscriber |-> <<>>]

BusPublish(t) ==
    /\ Len(published) < MaxPublished /\ published' = Append(published, t)
    /\ UNCHANGED <<broadcastVars, streamVars, handed>>

-----------------------------------------------------------------------------
(* InMemoryEventBus: a subscriber sees what is sent after it subscribed.   *)
BroadcastSubscribe(s) ==
    /\ position[s] = NotSubscribed
    /\ position' = [position EXCEPT ![s] = Len(published) + 1]
    /\ UNCHANGED <<published, skipped, handed, streamVars>>

Oldest == IF Len(published) > Capacity THEN Len(published) - Capacity + 1 ELSE 1
Give(s, n) == IF published[n] = TopicOf[s] THEN [handed EXCEPT ![s] = Append(@, n)] ELSE handed
BroadcastReceive(s) ==
    /\ position[s] # NotSubscribed /\ position[s] <= Len(published)
    /\ IF position[s] < Oldest
       THEN /\ skipped' = [skipped EXCEPT ![s] = @ \cup position[s]..(Oldest - 1)]
            /\ position' = [position EXCEPT ![s] = Oldest] /\ handed' = handed
       ELSE /\ handed' = Give(s, position[s])
            /\ position' = [position EXCEPT ![s] = @ + 1] /\ skipped' = skipped
    /\ UNCHANGED <<published, streamVars>>

BroadcastNext ==
    \/ \E t \in StreamTopic : BusPublish(t)
    \/ \E s \in StreamSubscriber : BroadcastSubscribe(s) \/ BroadcastReceive(s)

-----------------------------------------------------------------------------
(* RedisEventBus: the reader starts at id 0.                               *)
StreamSubscribe(s) ==
    /\ reading[s] = "no" /\ reading' = [reading EXCEPT ![s] = "yes"]
    /\ UNCHANGED <<published, broadcastVars, lastId, batch, channel, handed>>

(* XREAD returns what follows last_id; a timeout returns nothing.          *)
StreamRead(s) ==
    /\ reading[s] = "yes" /\ batch[s] = <<>> /\ lastId[s] < Len(published)
    /\ batch' = [batch EXCEPT ![s] = [n \in 1..Len(SubSeq(published, lastId[s] + 1,
                    IF lastId[s] + BatchSize < Len(published) THEN lastId[s] + BatchSize ELSE Len(published)))
                    |-> lastId[s] + n]]
    /\ UNCHANGED <<published, broadcastVars, lastId, channel, reading, handed>>

(* Mutant of StreamForward: last_id is left behind.                        *)
StreamForwardStays(s) ==
    /\ reading[s] = "yes" /\ batch[s] # <<>>
    /\ batch' = [batch EXCEPT ![s] = Tail(@)]
    /\ channel' = IF published[Head(batch[s])] = TopicOf[s]
                  THEN [channel EXCEPT ![s] = Append(@, Head(batch[s]))] ELSE channel
    /\ Len(handed[s]) < MaxPublished
    /\ UNCHANGED <<published, broadcastVars, lastId, reading, handed>>

(* The next entry of the batch: it waits for room in the channel.          *)
StreamForward(s) ==
    /\ reading[s] = "yes" /\ batch[s] # <<>>
    /\ lastId' = [lastId EXCEPT ![s] = Head(batch[s])]
    /\ batch' = [batch EXCEPT ![s] = Tail(@)]
    /\ IF published[Head(batch[s])] # TopicOf[s] THEN channel' = channel
       ELSE Len(channel[s]) < ChannelSize /\ channel' = [channel EXCEPT ![s] = Append(@, Head(batch[s]))]
    /\ UNCHANGED <<published, broadcastVars, reading, handed>>

(* The connection is lost: the reader reports it and ends for good.        *)
StreamFails(s) ==
    /\ reading[s] = "yes" /\ batch[s] = <<>> /\ reading' = [reading EXCEPT ![s] = "ended"]
    /\ UNCHANGED <<published, broadcastVars, lastId, batch, channel, handed>>

StreamReceive(s) ==
    /\ channel[s] # <<>>
    /\ handed' = [handed EXCEPT ![s] = Append(@, Head(channel[s]))]
    /\ channel' = [channel EXCEPT ![s] = Tail(@)]
    /\ UNCHANGED <<published, broadcastVars, lastId, batch, reading>>

StreamNext ==
    \/ \E t \in StreamTopic : BusPublish(t)
    \/ \E s \in StreamSubscriber : StreamSubscribe(s) \/ StreamRead(s) \/ StreamForward(s)
                             \/ StreamFails(s) \/ StreamReceive(s)

(* A bus is one or the other.                                              *)
BroadcastSpec == BusesInit /\ [][BroadcastNext]_busVars
StreamSpec == BusesInit /\ [][StreamNext]_busVars

(* What a subscriber was given is of its topic, in order and without       *)
(* repetition; the stream loses nothing up to the last id read, and the    *)
(* broadcast, from the first envelope given on, nothing but what it        *)
(* reported as lag.                                                        *)
DeliveredInOrder ==
    \A s \in StreamSubscriber :
        /\ \A i, j \in DOMAIN handed[s] : i < j => handed[s][i] < handed[s][j]
        /\ \A i \in DOMAIN handed[s] : published[handed[s][i]] = TopicOf[s]
        /\ \A n \in DOMAIN published : published[n] = TopicOf[s] =>
              /\ n <= lastId[s] => n \in Range(handed[s] \o channel[s])
              /\ handed[s] # <<>> /\ handed[s][1] < n /\ n < position[s]
                    => n \in Range(handed[s]) \cup skipped[s]
        /\ skipped[s] \cap Range(handed[s]) = {}
=============================================================================
