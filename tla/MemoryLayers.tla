---------------------------- MODULE MemoryLayers ----------------------------
(***************************************************************************)
(* The memory layers of crates/memory: working memory (a map with expiry   *)
(* and eviction), short-term memory (entries and an index in Redis, one    *)
(* command after the other), long-term and episodic memory (events with    *)
(* constant versions in an event store) and semantic memory (facts that    *)
(* are also ingested in the knowledge core and the graph).                 *)
(***************************************************************************)
EXTENDS Naturals, Sequences, FiniteSets, FiniteSetsExt, Absent

CONSTANTS WmKey, WmCapacity, MaxCount,      \* working memory; bound of counts
          StmId, StmCapacity,               \* short-term memory: ids in order of time
          LtmId, MaxLtmEvents,              \* long-term memory: ids in order of time
          FactId

ASSUME MemoryAssumption ==
    /\ WmCapacity \in Nat \ {0} /\ StmCapacity \in Nat \ {0} /\ MaxCount \in Nat
    /\ StmId \subseteq Nat /\ LtmId \subseteq Nat /\ MaxLtmEvents \in Nat
    /\ Nothing \notin [count : Nat, expired : BOOLEAN]

VARIABLES
    wm,         \* InnerWM.entries: key -> access count and whether it expired
    stmEntries, \* the keys entry:<id> that Redis holds
    stmIndex,   \* the sorted set index
    stmStoring, \* the store under way and the command it is at
    stmAdded,   \* history: ids added to the index since it was last cleared
    stmTrimmed, \* history: the last zadd was followed by its zremrangebyrank
    ltm,        \* events of LongTermMemory: aggregate, type, the entry in its data
    episodes,   \* DefaultEpisodicMemory.episodes
    episodeLog, \* the aggregates with an EpisodeRecorded event
    facts, ingested   \* DefaultSemanticMemory.facts; what knowledge and graph hold

wmVars == <<wm>>
stmVars == <<stmEntries, stmIndex, stmStoring, stmAdded, stmTrimmed>>
ltmVars == <<ltm>>
episodeVars == <<episodes, episodeLog>>
factVars == <<facts, ingested>>
memoryLayerVars == <<wmVars, stmVars, ltmVars, episodeVars, factVars>>

MemoryLayersInit ==
    /\ wm = [k \in WmKey |-> Nothing]
    /\ stmEntries = {} /\ stmIndex = {} /\ stmAdded = {} /\ stmTrimmed = TRUE
    /\ stmStoring = [id |-> Nothing, at |-> "none"]
    /\ ltm = <<>>
    /\ episodes = {} /\ episodeLog = {}
    /\ facts = {} /\ ingested = {}

-----------------------------------------------------------------------------
(* DefaultWorkingMemory, one mutex.  A time to live of 0 becomes the       *)
(* default, so every entry expires some time after it was set.             *)

WmFresh == [count |-> 0, expired |-> FALSE]
WmHeld(w) == {k \in WmKey : w[k] # Nothing}
WmLive(w) == {k \in WmHeld(w) : ~ w[k].expired}

(* Mutant of WmKept: one entry too many.                                   *)
WmKeptOneMore(w) ==
    IF Cardinality(WmLive(w)) <= WmCapacity + 1 THEN {WmLive(w)}
    ELSE kSubset(WmCapacity, WmLive(w))

(* The sets of live entries evict may keep: sorted by access count, the    *)
(* first ones up to the capacity; entries of one count in any order.       *)
WmKept(w) ==
    IF Cardinality(WmLive(w)) <= WmCapacity THEN {WmLive(w)}
    ELSE {S \in kSubset(WmCapacity, WmLive(w)) :
             \A k \in S, d \in WmLive(w) \ S : w[k].count <= w[d].count}

WmSet(k) ==
    LET with == [wm EXCEPT ![k] = WmFresh]
    IN  \E S \in WmKept(with) : wm' = [x \in WmKey |-> IF x \in S THEN with[x] ELSE Nothing]

WmGet(k) ==
    /\ wm[k] # Nothing
    /\ IF wm[k].expired THEN wm' = [wm EXCEPT ![k] = Nothing]
       ELSE wm[k].count < MaxCount /\ wm' = [wm EXCEPT ![k].count = @ + 1]

WmRemove(k) == wm[k] # Nothing /\ wm' = [wm EXCEPT ![k] = Nothing]
WmClear == WmHeld(wm) # {} /\ wm' = [k \in WmKey |-> Nothing]

(* Time passes for one entry.                                              *)
WmExpires(k) == k \in WmLive(wm) /\ wm' = [wm EXCEPT ![k].expired = TRUE]

WmNext == WmClear \/ \E k \in WmKey : WmSet(k) \/ WmGet(k) \/ WmRemove(k) \/ WmExpires(k)

-----------------------------------------------------------------------------
(* RedisShortTermMemory.store: set_ex, zadd, zremrangebyrank, one await    *)
(* each; an error returns with what was done so far.                       *)

Newest(ids, n) == {i \in ids : Cardinality({j \in ids : j > i}) < n}

StmSetEx(i) ==
    /\ stmStoring.at = "none" /\ i \notin stmEntries \cup stmAdded
    /\ stmEntries' = stmEntries \cup {i}
    /\ stmStoring' = [id |-> i, at |-> "zadd"]
    /\ UNCHANGED <<stmIndex, stmAdded, stmTrimmed>>

StmZadd ==
    /\ stmStoring.at = "zadd"
    /\ stmIndex' = stmIndex \cup {stmStoring.id}
    /\ stmAdded' = stmAdded \cup {stmStoring.id} /\ stmTrimmed' = FALSE
    /\ stmStoring' = [stmStoring EXCEPT !.at = "zrem"]
    /\ UNCHANGED stmEntries

(* The ranks up to -(capacity + 1) go: the newest ids stay.                *)
StmTrim ==
    /\ stmStoring.at = "zrem"
    /\ stmIndex' = Newest(stmIndex, StmCapacity) /\ stmTrimmed' = TRUE
    /\ stmStoring' = [id |-> Nothing, at |-> "none"]
    /\ UNCHANGED <<stmEntries, stmAdded>>

StmFails ==
    /\ stmStoring.at # "none"
    /\ stmStoring' = [id |-> Nothing, at |-> "none"]
    /\ UNCHANGED <<stmEntries, stmIndex, stmAdded, stmTrimmed>>

(* clear deletes the index: the entries stay until they expire.            *)
StmClear ==
    /\ stmStoring.at = "none" /\ stmIndex # {}
    /\ stmIndex' = {} /\ stmAdded' = {} /\ stmTrimmed' = TRUE
    /\ UNCHANGED <<stmEntries, stmStoring>>

StmExpires(i) ==
    /\ i \in stmEntries /\ i # stmStoring.id
    /\ stmEntries' = stmEntries \ {i}
    /\ UNCHANGED <<stmIndex, stmStoring, stmAdded, stmTrimmed>>

(* recall: the ids of the index, oldest first, whose entry is still there. *)
StmRecall(limit) == {i \in stmIndex : Cardinality({j \in stmIndex : j < i}) < limit} \cap stmEntries

StmNext == StmZadd \/ StmTrim \/ StmFails \/ StmClear \/ \E i \in StmId : StmSetEx(i) \/ StmExpires(i)

-----------------------------------------------------------------------------
(* DefaultLongTermMemory: store, update and forget append an event of      *)
(* version 1, 2 and 3 to the aggregate of the entry; the event store       *)
(* refuses one that does not follow the latest version.                    *)

LtmVersion == [EntryStored |-> 1, EntryUpdated |-> 2, EntryDeleted |-> 3]

(* Mutant of LtmFollows: any version is taken.                             *)
LtmFollowsNothing(id, type) == TRUE

LtmFollows(id, type) ==
    LtmVersion[type] = Cardinality({i \in DOMAIN ltm : ltm[i].agg = id}) + 1

LtmAppend(id, type, entry) ==
    /\ LtmFollows(id, type)                             \* else VersionConflict
    /\ Len(ltm) < MaxLtmEvents
    /\ ltm' = Append(ltm, [agg |-> id, type |-> type, entry |-> entry])

(* What retrieve can parse: the data of EntryDeleted is no entry.          *)
LtmEntries == {i \in DOMAIN ltm : ltm[i].type # "EntryDeleted"}

(* get asks retrieve for the id with a limit of 1; retrieve does not look  *)
(* at the ids of its query and returns the entry created last, of those    *)
(* of one time the one stored first.                                       *)
LtmGet(id) ==
    IF LtmEntries = {} THEN Nothing
    ELSE LET newest == Max({ltm[i].entry : i \in LtmEntries})
         IN  ltm[Min({i \in LtmEntries : ltm[i].entry = newest})].entry

LtmStore(id) == LtmAppend(id, "EntryStored", id)
LtmUpdate(id) == LtmGet(id) # Nothing /\ LtmAppend(id, "EntryUpdated", LtmGet(id))
LtmForget(id) == LtmAppend(id, "EntryDeleted", Nothing)
LtmClear == ltm # <<>> /\ ltm' = <<>>

LtmNext == LtmClear \/ \E id \in LtmId : LtmStore(id) \/ LtmUpdate(id) \/ LtmForget(id)

-----------------------------------------------------------------------------
(* DefaultEpisodicMemory: the event (version 1) first, then the map; an    *)
(* episode recorded twice is refused by the store.  delete and clear do    *)
(* not touch the events.                                                   *)

EpisodeAppends(id) == id \notin episodeLog
RecordEpisode(id) ==
    /\ EpisodeAppends(id)
    /\ episodeLog' = episodeLog \cup {id}
    /\ episodes' = episodes \cup {id}
DeleteEpisode(id) == id \in episodes /\ episodes' = episodes \ {id} /\ UNCHANGED episodeLog
ClearEpisodes == episodes # {} /\ episodes' = {} /\ UNCHANGED episodeLog

EpisodeNext == ClearEpisodes \/ \E id \in LtmId : RecordEpisode(id) \/ DeleteEpisode(id)

(* DefaultSemanticMemory: store_fact ingests before it inserts; delete and *)
(* clear leave the knowledge and the relationship where they are.          *)
StoreFact(f) == facts' = facts \cup {f} /\ ingested' = ingested \cup {f}
DeleteFact(f) == f \in facts /\ facts' = facts \ {f} /\ UNCHANGED ingested
ClearFacts == facts # {} /\ facts' = {} /\ UNCHANGED ingested

FactNext == ClearFacts \/ \E f \in FactId : StoreFact(f) \/ DeleteFact(f)

MemoryLayersNext ==
    \/ WmNext /\ UNCHANGED <<stmVars, ltmVars, episodeVars, factVars>>
    \/ StmNext /\ UNCHANGED <<wmVars, ltmVars, episodeVars, factVars>>
    \/ LtmNext /\ UNCHANGED <<wmVars, stmVars, episodeVars, factVars>>
    \/ EpisodeNext /\ UNCHANGED <<wmVars, stmVars, ltmVars, factVars>>
    \/ FactNext /\ UNCHANGED <<wmVars, stmVars, ltmVars, episodeVars>>

MemoryLayersSpec == MemoryLayersInit /\ [][MemoryLayersNext]_memoryLayerVars

-----------------------------------------------------------------------------
(* Whatever expires, fails or is cleared between the commands of store:    *)
(* working memory never holds more than its capacity, and once a store has *)
(* trimmed, the index of short-term memory is exactly the newest ids added *)
(* since the last clear - a failed trim is made good by the next one.      *)
LayersBounded ==
    /\ Cardinality(WmHeld(wm)) <= WmCapacity
    /\ stmTrimmed => stmIndex = Newest(stmAdded, StmCapacity)

(* An entry of long-term memory is stored, updated and forgotten at most   *)
(* once each and in this order, since the versions are constants; and what *)
(* the maps of episodic and semantic memory hold is in the store behind    *)
(* them, which keeps all that was ever recorded.                           *)
LayersFollowTheirStores ==
    /\ \A n \in DOMAIN ltm :
          LtmVersion[ltm[n].type] = Cardinality({m \in 1..n : ltm[m].agg = ltm[n].agg})
    /\ episodes \subseteq episodeLog /\ facts \subseteq ingested

(* Both, for the five stores of what the kernel remembers.                 *)
LayersAreSound == LayersBounded /\ LayersFollowTheirStores
=============================================================================
