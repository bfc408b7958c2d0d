---------------------------- MODULE LayersProofs ----------------------------
(***************************************************************************)
(* What holds of the memory layers, of procedures, of the chains of        *)
(* knowledge, of the answers of the decision engine, of the history of the *)
(* temporal graph and of the replay of the virtual files for any           *)
(* capacities, keys, ids, records, steps, questions, times and events,     *)
(* whatever the bounds of the runs are.                                    *)
(***************************************************************************)
EXTENDS MemoryLayers, ProceduralMemory, KnowledgeChains, DecisionEngine, TemporalGraph,
        IntelligenceFiles, FiniteSetTheorems, SequenceTheorems, WellFoundedInduction, TLAPS

-----------------------------------------------------------------------------
(* Working memory: what it holds is finite, and within the capacity.       *)
WmEntry == [count : Nat, expired : BOOLEAN]

WmInv ==
    /\ wm \in [WmKey -> WmEntry \cup {Nothing}]
    /\ IsFiniteSet(WmHeld(wm)) /\ Cardinality(WmHeld(wm)) <= WmCapacity

(* evict keeps live entries, and not more than the capacity.               *)
LEMMA KeptAreFew ==
    ASSUME NEW w, IsFiniteSet(WmHeld(w)), NEW S \in WmKept(w)
    PROVE  S \subseteq WmLive(w) /\ IsFiniteSet(S) /\ Cardinality(S) <= WmCapacity
<1>1. WmLive(w) \subseteq WmHeld(w)
    BY DEF WmLive
<1>2. IsFiniteSet(WmLive(w))
    BY <1>1, FS_Subset
<1>3. CASE Cardinality(WmLive(w)) <= WmCapacity
    BY <1>2, <1>3 DEF WmKept
<1>4. CASE ~ (Cardinality(WmLive(w)) <= WmCapacity)
    <2>1. S \in SUBSET WmLive(w) /\ Cardinality(S) = WmCapacity
        BY <1>4 DEF WmKept, kSubset
    <2> QED BY <1>2, <2>1, FS_Subset, MemoryAssumption
<1> QED BY <1>3, <1>4

LEMMA WorkingInductive ==
    ASSUME WmInv, WmNext
    PROVE  WmInv'
<1>1. ASSUME NEW w \in [WmKey -> WmEntry \cup {Nothing}], WmHeld(w) \subseteq WmHeld(wm), wm' = w
      PROVE  WmInv'
    <2>1. IsFiniteSet(WmHeld(w)) /\ Cardinality(WmHeld(w)) <= Cardinality(WmHeld(wm))
        BY <1>1, FS_Subset DEF WmInv
    <2>2. Cardinality(WmHeld(w)) \in Nat /\ Cardinality(WmHeld(wm)) \in Nat
        BY <2>1, FS_CardinalityType DEF WmInv
    <2>3. Cardinality(WmHeld(w)) <= WmCapacity
        BY <2>1, <2>2, MemoryAssumption DEF WmInv
    <2> QED BY <1>1, <2>1, <2>3 DEF WmInv
<1>2. CASE WmClear
    BY <1>1, <1>2 DEF WmClear, WmHeld
<1>3. ASSUME NEW k \in WmKey, WmSet(k) PROVE WmInv'
    <2> DEFINE with == [wm EXCEPT ![k] = WmFresh]
    <2>1. with \in [WmKey -> WmEntry \cup {Nothing}]
        BY DEF WmInv, WmFresh, WmEntry
    <2>2. WmHeld(with) \subseteq WmHeld(wm) \cup {k}
        BY DEF WmHeld, WmInv
    <2>3. IsFiniteSet(WmHeld(wm) \cup {k})
        BY FS_AddElement DEF WmInv
    <2>4. IsFiniteSet(WmHeld(with))
        BY <2>2, <2>3, FS_Subset
    <2>5. PICK S \in WmKept(with) : wm' = [x \in WmKey |-> IF x \in S THEN with[x] ELSE Nothing]
        BY <1>3 DEF WmSet
    <2> HIDE DEF with
    <2>6. S \subseteq WmLive(with) /\ IsFiniteSet(S) /\ Cardinality(S) <= WmCapacity
        BY <2>4, KeptAreFew
    <2>7. WmHeld(wm') = S
        BY <2>5, <2>6 DEF WmHeld, WmLive
    <2>8. wm' \in [WmKey -> WmEntry \cup {Nothing}]
        BY <2>1, <2>5
    <2> QED BY <2>6, <2>7, <2>8 DEF WmInv, WmHeld
<1>4. ASSUME NEW k \in WmKey, WmGet(k) PROVE WmInv'
    <2>1. CASE wm' = [wm EXCEPT ![k] = Nothing]
        BY <1>1, <2>1 DEF WmInv, WmHeld
    <2>2. CASE wm' = [wm EXCEPT ![k].count = @ + 1]
        <3>1. wm[k] \in WmEntry
            BY <1>4 DEF WmGet, WmInv
        <3>2. [wm[k] EXCEPT !.count = @ + 1] \in WmEntry
            BY <3>1 DEF WmEntry
        <3> DEFINE more == [wm[k] EXCEPT !.count = @ + 1]
        <3>3. wm' = [wm EXCEPT ![k] = more]
            BY <2>2
        <3> HIDE DEF more
        <3>4. wm' \in [WmKey -> WmEntry \cup {Nothing}] /\ WmHeld(wm') \subseteq WmHeld(wm)
            BY <1>4, <3>2, <3>3 DEF more, WmInv, WmHeld, WmGet
        <3> QED BY <1>1, <3>4
    <2> QED BY <1>4, <2>1, <2>2 DEF WmGet
<1>5. ASSUME NEW k \in WmKey, WmRemove(k) PROVE WmInv'
    BY <1>1, <1>5 DEF WmRemove, WmInv, WmHeld
<1>6. ASSUME NEW k \in WmKey, WmExpires(k) PROVE WmInv'
    <2>1. wm[k] \in WmEntry
        BY <1>6 DEF WmExpires, WmLive, WmHeld, WmInv
    <2> DEFINE old == [wm[k] EXCEPT !.expired = TRUE]
    <2>2. old \in WmEntry
        BY <2>1 DEF WmEntry
    <2>3. wm' = [wm EXCEPT ![k] = old]
        BY <1>6 DEF WmExpires
    <2> HIDE DEF old
    <2>4. wm' \in [WmKey -> WmEntry \cup {Nothing}] /\ WmHeld(wm') \subseteq WmHeld(wm)
        BY <1>6, <2>2, <2>3 DEF WmInv, WmHeld, WmExpires, WmLive
    <2> QED BY <1>1, <2>4
<1> QED BY <1>2, <1>3, <1>4, <1>5, <1>6 DEF WmNext

-----------------------------------------------------------------------------
(* Short-term memory.  A set of naturals that is not empty has a least     *)
(* element, and a finite one a greatest.                                   *)
LEMMA LeastOf ==
    ASSUME NEW T \in SUBSET Nat, T # {}
    PROVE  \E x \in T : \A y \in T : x <= y
<1> DEFINE R == {p \in Nat \X Nat : p[1] < p[2]}
<1>1. IsWellFoundedOn(R, Nat)
    BY NatLessThanWellFounded DEF OpToRel
<1>2. \A x, y \in Nat : y < x => <<y, x>> \in R
    OBVIOUS
<1> HIDE DEF R
<1>3. PICK x \in T : \A y \in T : ~ (<<y, x>> \in R)
    BY <1>1, WFMin
<1>4. \A y \in T : ~ (y < x)
    BY <1>2, <1>3, Zenon
<1> QED BY <1>4

(* The one above which there are the fewest.                               *)
LEMMA GreatestOf ==
    ASSUME NEW T \in SUBSET Nat, IsFiniteSet(T), T # {}
    PROVE  \E x \in T : \A y \in T : y <= x
<1> DEFINE Above(x) == {y \in T : y > x}
           Ranks == {n \in Nat : \E x \in T : Cardinality(Above(x)) = n}
<1>1. \A x \in T : IsFiniteSet(Above(x)) /\ Cardinality(Above(x)) \in Nat
    BY FS_Subset, FS_CardinalityType
<1>2. Ranks \in SUBSET Nat /\ Ranks # {}
    BY <1>1
<1>3. PICK n \in Ranks : \A m \in Ranks : n <= m
    BY <1>2, LeastOf
<1>4. PICK x \in T : Cardinality(Above(x)) = n
    BY <1>3
<1>5. ASSUME NEW y \in T, y > x PROVE FALSE
    <2>0. x \in Nat /\ y \in Nat /\ y \in Above(x) /\ y \notin Above(y)
        BY <1>5
    <2>a. Above(y) \subseteq Above(x)
        <3> SUFFICES ASSUME NEW z \in T, z > y PROVE z > x
            OBVIOUS
        <3>1. z \in Nat
            OBVIOUS
        <3> QED BY <1>5, <2>0, <3>1
    <2>1. Above(y) \subseteq Above(x) /\ Above(y) # Above(x)
        BY <2>0, <2>a
    <2>2. Cardinality(Above(y)) <= Cardinality(Above(x)) /\ Cardinality(Above(y)) # Cardinality(Above(x))
        BY <1>1, <2>1, FS_Subset
    <2>3. Cardinality(Above(y)) \in Ranks
        BY <1>1
    <2> HIDE DEF Above, Ranks
    <2>4. n <= Cardinality(Above(y)) /\ n \in Nat /\ Cardinality(Above(y)) \in Nat
        BY <1>1, <1>2, <1>3, <2>3
    <2> QED BY <1>4, <2>2, <2>4
<1>6. \A y \in T : y <= x
    BY <1>5
<1> QED BY <1>6

(* The newest ids of an index are the newest of all as long as it holds    *)
(* those.                                                                  *)
LEMMA NewestOfIndex ==
    ASSUME NEW added \in SUBSET Nat, IsFiniteSet(added), NEW index, NEW cap \in Nat,
           Newest(added, cap) \subseteq index, index \subseteq added
    PROVE  Newest(index, cap) = Newest(added, cap)
<1> DEFINE Above(S, i) == {j \in S : j > i}
<1>1. ASSUME NEW i \in added
      PROVE  /\ IsFiniteSet(Above(added, i)) /\ Cardinality(Above(added, i)) \in Nat
             /\ IsFiniteSet(Above(index, i)) /\ Cardinality(Above(index, i)) \in Nat
             /\ Cardinality(Above(index, i)) <= Cardinality(Above(added, i))
    <2>1. Above(added, i) \subseteq added /\ Above(index, i) \subseteq Above(added, i)
        OBVIOUS
    <2> HIDE DEF Above
    <2>2. IsFiniteSet(Above(added, i)) /\ Cardinality(Above(added, i)) \in Nat
        BY <2>1, FS_Subset, FS_CardinalityType
    <2> QED BY <2>1, <2>2, FS_Subset, FS_CardinalityType
<1>2. ASSUME NEW i \in Newest(added, cap) PROVE i \in Newest(index, cap)
    <2>1. i \in index /\ i \in added /\ Cardinality(Above(added, i)) < cap
        BY <1>2 DEF Newest
    <2>2. Cardinality(Above(index, i)) < cap
        BY <1>1, <2>1
    <2> QED BY <2>1, <2>2 DEF Newest
<1>3. ASSUME NEW i \in Newest(index, cap), i \notin Newest(added, cap) PROVE FALSE
    <2> DEFINE old == {j \in added : j \notin Newest(added, cap) /\ j >= i}
    <2>1. i \in index /\ i \in added /\ Cardinality(Above(index, i)) < cap
        BY <1>3 DEF Newest
    <2>a. i \in Nat /\ i >= i
        BY <2>1
    <2>c. i \in old /\ old \in SUBSET Nat /\ old \in SUBSET added
        BY <1>3, <2>1, <2>a
    <2> HIDE DEF old
    <2>2. i \in old /\ old \in SUBSET Nat /\ IsFiniteSet(old)
        BY <2>c, FS_Subset
    <2>3. PICK k \in old : \A j \in old : j <= k
        BY <2>2, GreatestOf
    <2>4. k \in added /\ k \notin Newest(added, cap) /\ k >= i
        BY <2>3 DEF old
    <2>5. ~ (Cardinality(Above(added, k)) < cap)
        BY <2>4 DEF Newest
    <2>6. Above(added, k) \subseteq Above(index, i)
        <3> SUFFICES ASSUME NEW j \in added, j > k PROVE j \in index /\ j > i
            OBVIOUS
        <3>1. j > i /\ j >= i /\ ~ (j <= k)
            BY <2>1, <2>4
        <3>2. j \notin old
            BY <2>3, <3>1
        <3> QED BY <3>1, <3>2 DEF old
    <2>7. Cardinality(Above(added, k)) <= Cardinality(Above(index, i))
        BY <1>1, <2>1, <2>6, FS_Subset
    <2> HIDE DEF Above
    <2> QED BY <1>1, <2>1, <2>4, <2>5, <2>7
<1> QED BY <1>2, <1>3

StmInv ==
    /\ stmAdded \in SUBSET StmId /\ IsFiniteSet(stmAdded)
    /\ stmStoring \in [id : StmId \cup {Nothing}, at : {"none", "zadd", "zrem"}]
    /\ stmStoring.at # "none" => stmStoring.id \in StmId
    /\ Newest(stmAdded, StmCapacity) \subseteq stmIndex /\ stmIndex \subseteq stmAdded
    /\ stmTrimmed => stmIndex = Newest(stmAdded, StmCapacity)

LEMMA ShortTermInductive ==
    ASSUME StmInv, StmNext
    PROVE  StmInv'
<1>1. ASSUME NEW i \in StmId, StmSetEx(i) PROVE StmInv'
    BY <1>1 DEF StmSetEx, StmInv
<1>2. CASE StmZadd
    <2> DEFINE i == stmStoring.id
    <2>1. i \in StmId /\ stmAdded' = stmAdded \cup {i} /\ stmIndex' = stmIndex \cup {i} /\ stmTrimmed' = FALSE
        BY <1>2 DEF StmZadd, StmInv
    <2>2. stmStoring' \in [id : StmId \cup {Nothing}, at : {"none", "zadd", "zrem"}]
          /\ stmStoring'.id \in StmId
        BY <1>2, <2>1 DEF StmZadd, StmInv
    <2> HIDE DEF i
    <2>3. IsFiniteSet(stmAdded') /\ stmAdded' \in SUBSET StmId
        BY <2>1, FS_AddElement DEF StmInv
    <2>4. ASSUME NEW j \in Newest(stmAdded', StmCapacity) PROVE j \in stmIndex'
        <3>1. CASE j = i
            BY <2>1, <3>1
        <3>2. CASE j # i
            <4> DEFINE A == {k \in stmAdded : k > j}
                       B == {k \in stmAdded' : k > j}
            <4>1. j \in stmAdded /\ Cardinality(B) < StmCapacity
                BY <2>1, <2>4, <3>2 DEF Newest
            <4>2. A \subseteq B /\ B \subseteq stmAdded'
                BY <2>1
            <4> HIDE DEF A, B
            <4>3. IsFiniteSet(B) /\ Cardinality(B) \in Nat
                BY <2>3, <4>2, FS_Subset, FS_CardinalityType
            <4>4. IsFiniteSet(A) /\ Cardinality(A) \in Nat /\ Cardinality(A) <= Cardinality(B)
                BY <4>2, <4>3, FS_Subset, FS_CardinalityType
            <4>5. Cardinality(A) < StmCapacity
                BY <4>1, <4>3, <4>4, MemoryAssumption
            <4> QED BY <2>1, <4>1, <4>5 DEF Newest, StmInv, A
        <3> QED BY <3>1, <3>2
    <2>5. stmIndex' \subseteq stmAdded'
        BY <2>1 DEF StmInv
    <2> QED BY <2>1, <2>2, <2>3, <2>4, <2>5 DEF StmInv
<1>3. CASE StmTrim
    <2>1. stmAdded \in SUBSET Nat /\ StmCapacity \in Nat
        BY MemoryAssumption DEF StmInv
    <2>2. Newest(stmIndex, StmCapacity) = Newest(stmAdded, StmCapacity)
        BY <2>1, NewestOfIndex DEF StmInv
    <2>3. Newest(stmAdded, StmCapacity) \subseteq stmAdded
        BY DEF Newest
    <2> QED BY <1>3, <2>2, <2>3 DEF StmTrim, StmInv
<1>4. CASE StmFails
    BY <1>4 DEF StmFails, StmInv
<1>5. CASE StmClear
    <2>1. Newest({}, StmCapacity) = {}
        BY DEF Newest
    <2> QED BY <1>5, <2>1, FS_EmptySet DEF StmClear, StmInv
<1>6. ASSUME NEW i \in StmId, StmExpires(i) PROVE StmInv'
    BY <1>6 DEF StmExpires, StmInv
<1> QED BY <1>1, <1>2, <1>3, <1>4, <1>5, <1>6 DEF StmNext

-----------------------------------------------------------------------------
(* Long-term memory.  Sequences of which the set of elements is not known. *)
IsSeq(s) == \E S : s \in Seq(S)

LEMMA AppendFacts ==
    ASSUME NEW s, IsSeq(s), NEW e
    PROVE  /\ IsSeq(Append(s, e)) /\ Append(s, e)[Len(s) + 1] = e
           /\ Len(s) \in Nat /\ DOMAIN s = 1..Len(s) /\ DOMAIN Append(s, e) = 1..(Len(s) + 1)
           /\ Len(Append(s, e)) = Len(s) + 1
           /\ \A n \in 1..Len(s) : Append(s, e)[n] = s[n]
<1>1. PICK S : s \in Seq(S)
    BY DEF IsSeq
<1> DEFINE T == S \cup {e}
<1>2. s \in Seq(T) /\ e \in T
    BY <1>1, SeqMonotonic
<1> HIDE DEF T
<1>3. /\ Append(s, e) \in Seq(T) /\ Len(Append(s, e)) = Len(s) + 1 /\ Append(s, e)[Len(s) + 1] = e
      /\ \A n \in 1..Len(s) : Append(s, e)[n] = s[n]
    BY <1>2, AppendProperties
<1>4. /\ DOMAIN s = 1..Len(s) /\ Len(s) \in Nat /\ DOMAIN Append(s, e) = 1..(Len(s) + 1)
    BY <1>2, <1>3, LenProperties
<1>5. IsSeq(Append(s, e))
    BY <1>3 DEF IsSeq
<1> QED BY <1>3, <1>4, <1>5

LEMMA EmptyIsSeq == IsSeq(<<>>) /\ DOMAIN <<>> = {} /\ Len(<<>>) = 0
<1>1. <<>> \in Seq({})
    OBVIOUS
<1> QED BY <1>1 DEF IsSeq

(* How many events up to the n-th are of its entry.                        *)
UpTo(l, n) == {m \in 1..n : l[m].agg = l[n].agg}

LtmInv ==
    /\ IsSeq(ltm)
    /\ \A n \in DOMAIN ltm : LtmVersion[ltm[n].type] = Cardinality(UpTo(ltm, n))

LEMMA LongTermAppends ==
    ASSUME LtmInv, NEW id, NEW type, NEW entry, LtmAppend(id, type, entry)
    PROVE  LtmInv'
<1> DEFINE e == [agg |-> id, type |-> type, entry |-> entry]
           len == Len(ltm)
           before == {n \in DOMAIN ltm : ltm[n].agg = id}
<1>1. ltm' = Append(ltm, e) /\ LtmVersion[type] = Cardinality(before) + 1
    BY DEF LtmAppend, LtmFollows
<1>2. e.agg = id /\ e.type = type
    OBVIOUS
<1> HIDE DEF e
<1>3. /\ IsSeq(ltm') /\ ltm'[len + 1] = e /\ len \in Nat /\ DOMAIN ltm = 1..len /\ DOMAIN ltm' = 1..(len + 1)
      /\ \A n \in 1..len : ltm'[n] = ltm[n]
    BY <1>1, AppendFacts DEF LtmInv
<1> HIDE DEF len
<1>4. IsFiniteSet(before)
    <2>1. IsFiniteSet(1..len)
        BY <1>3, FS_Interval
    <2>2. before \subseteq 1..len
        BY <1>3
    <2> HIDE DEF before
    <2> QED BY <2>1, <2>2, FS_Subset
<1>5. len + 1 \notin before
    BY <1>3
<1>6. UpTo(ltm', len + 1) = before \cup {len + 1}
    BY <1>2, <1>3 DEF UpTo
<1> HIDE DEF before
<1>7. Cardinality(UpTo(ltm', len + 1)) = LtmVersion[type]
    BY <1>1, <1>4, <1>5, <1>6, FS_AddElement
<1>8. ASSUME NEW n \in 1..len
      PROVE  LtmVersion[ltm'[n].type] = Cardinality(UpTo(ltm', n))
    <2>1. UpTo(ltm', n) = UpTo(ltm, n)
        BY <1>3 DEF UpTo
    <2>2. n \in DOMAIN ltm /\ ltm'[n] = ltm[n]
        BY <1>3
    <2> QED BY <2>1, <2>2 DEF LtmInv
<1>9. \A n \in 1..(len + 1) : n \in 1..len \/ n = len + 1
    BY <1>3
<1>10. LtmVersion[ltm'[len + 1].type] = Cardinality(UpTo(ltm', len + 1))
    BY <1>2, <1>3, <1>7
<1>11. \A n \in DOMAIN ltm' : LtmVersion[ltm'[n].type] = Cardinality(UpTo(ltm', n))
    BY <1>3, <1>8, <1>9, <1>10
<1> QED BY <1>3, <1>11 DEF LtmInv, UpTo

LEMMA LongTermInductive ==
    ASSUME LtmInv, LtmNext
    PROVE  LtmInv'
<1>1. CASE LtmClear
    BY <1>1, EmptyIsSeq DEF LtmClear, LtmInv
<1>2. ASSUME NEW id \in LtmId, LtmStore(id) \/ LtmUpdate(id) \/ LtmForget(id) PROVE LtmInv'
    BY <1>2, LongTermAppends DEF LtmStore, LtmUpdate, LtmForget
<1> QED BY <1>1, <1>2 DEF LtmNext

-----------------------------------------------------------------------------
StoresHold == episodes \subseteq episodeLog /\ facts \subseteq ingested

LayersInv == WmInv /\ StmInv /\ LtmInv /\ StoresHold

LEMMA LayersInductive == LayersInv /\ [MemoryLayersNext]_memoryLayerVars => LayersInv'
<1> SUFFICES ASSUME LayersInv, [MemoryLayersNext]_memoryLayerVars PROVE LayersInv'
    OBVIOUS
<1>1. UNCHANGED wmVars => WmInv'
    BY DEF LayersInv, WmInv, wmVars, WmHeld
<1>2. UNCHANGED stmVars => StmInv'
    BY DEF LayersInv, StmInv, stmVars
<1>3. UNCHANGED ltmVars => LtmInv'
    BY DEF LayersInv, LtmInv, ltmVars, UpTo
<1>4. UNCHANGED <<episodeVars, factVars>> => StoresHold'
    BY DEF LayersInv, StoresHold, episodeVars, factVars
<1>5. CASE WmNext /\ UNCHANGED <<stmVars, ltmVars, episodeVars, factVars>>
    BY <1>2, <1>3, <1>4, <1>5, WorkingInductive DEF LayersInv
<1>6. CASE StmNext /\ UNCHANGED <<wmVars, ltmVars, episodeVars, factVars>>
    BY <1>1, <1>3, <1>4, <1>6, ShortTermInductive DEF LayersInv
<1>7. CASE LtmNext /\ UNCHANGED <<wmVars, stmVars, episodeVars, factVars>>
    BY <1>1, <1>2, <1>4, <1>7, LongTermInductive DEF LayersInv
<1>8. CASE EpisodeNext /\ UNCHANGED <<wmVars, stmVars, ltmVars, factVars>>
    <2>1. StoresHold'
        BY <1>8 DEF LayersInv, StoresHold, EpisodeNext, ClearEpisodes, RecordEpisode, DeleteEpisode, factVars
    <2> QED BY <1>1, <1>2, <1>3, <1>8, <2>1 DEF LayersInv
<1>9. CASE FactNext /\ UNCHANGED <<wmVars, stmVars, ltmVars, episodeVars>>
    <2>1. StoresHold'
        BY <1>9 DEF LayersInv, StoresHold, FactNext, ClearFacts, StoreFact, DeleteFact, episodeVars
    <2> QED BY <1>1, <1>2, <1>3, <1>9, <2>1 DEF LayersInv
<1>10. CASE UNCHANGED memoryLayerVars
    BY <1>1, <1>2, <1>3, <1>4, <1>10 DEF LayersInv, memoryLayerVars
<1> QED BY <1>5, <1>6, <1>7, <1>8, <1>9, <1>10 DEF MemoryLayersNext

(* Whatever expires, fails or is cleared between two commands, working and *)
(* short-term memory hold what their capacity allows and the index the     *)
(* newest; events of an entry come in the order of their constant          *)
(* versions; the maps hold nothing their stores do not (working.rs evict,  *)
(* short_term.rs store, long_term.rs update, episodic.rs, semantic.rs).    *)
THEOREM MemoryLayersAreSound == MemoryLayersSpec => []LayersAreSound
<1>1. MemoryLayersInit => LayersInv
    <2> SUFFICES ASSUME MemoryLayersInit PROVE LayersInv
        OBVIOUS
    <2>1. WmHeld(wm) = {}
        BY DEF MemoryLayersInit, WmHeld
    <2>2. WmInv
        <3>1. 0 <= WmCapacity
            BY MemoryAssumption
        <3>2. wm \in [WmKey -> WmEntry \cup {Nothing}]
            BY DEF MemoryLayersInit
        <3> QED BY <2>1, <3>1, <3>2, FS_EmptySet DEF WmInv
    <2>3. Newest({}, StmCapacity) = {}
        BY DEF Newest
    <2>4. StmInv
        BY <2>3, FS_EmptySet DEF MemoryLayersInit, StmInv
    <2>5. LtmInv
        BY EmptyIsSeq DEF MemoryLayersInit, LtmInv
    <2> QED BY <2>2, <2>4, <2>5 DEF MemoryLayersInit, LayersInv, StoresHold
<1>2. LayersInv => LayersAreSound
    BY DEF LayersInv, WmInv, StmInv, LtmInv, StoresHold, UpTo,
           LayersAreSound, LayersBounded, LayersFollowTheirStores
<1> QED BY <1>1, <1>2, LayersInductive, PTL DEF MemoryLayersSpec

-----------------------------------------------------------------------------
(* Knowledge.  The id of a record says what its chain is: its version is   *)
(* the length, and the version before it the id without its last element.  *)
KnowledgeId == Seq(Subject \cup Nat)

ChainOf(id) ==
    [version  |-> Len(id),
     previous |-> IF Len(id) > 2 THEN Front(id) ELSE Nothing,
     next     |-> IF Len(id) > 1 THEN id ELSE Nothing]

ChainIsOfId(r) == r.id \in KnowledgeId /\ Len(r.id) >= 1 /\ r.chain = ChainOf(r.id)
HasId(S, id) == \E s \in S : s.id = id

ChainsInv ==
    /\ IsSeq(chains)
    /\ \A r \in records : ChainIsOfId(r)
    /\ \A r \in records : Len(r.id) > 1 => HasId(records, Front(r.id))
    /\ \A r \in records : \E n \in DOMAIN chains : chains[n] = r.chain
    /\ \A n \in DOMAIN chains : \E r \in records : chains[n] = r.chain
    /\ \A n \in DOMAIN chains : chains[n].version <= n

LEMMA RevisedId ==
    ASSUME NEW id \in KnowledgeId, Len(id) >= 1, NEW x \in Nat
    PROVE  /\ Append(id, x) \in KnowledgeId /\ Len(Append(id, x)) = Len(id) + 1 /\ Front(Append(id, x)) = id
           /\ Len(id) \in Nat
           /\ x = Len(id) + 1 => NextVersion(ChainOf(id), Append(id, x)) = ChainOf(Append(id, x))
<1> DEFINE S == Subject \cup Nat
<1>1. id \in Seq(S) /\ x \in S
    BY DEF KnowledgeId
<1> HIDE DEF S
<1>2. Len(id) \in Nat /\ DOMAIN id = 1..Len(id)
    BY <1>1, LenProperties
<1>3. /\ Append(id, x) \in Seq(S) /\ Len(Append(id, x)) = Len(id) + 1
      /\ \A n \in 1..Len(id) : Append(id, x)[n] = id[n]
    BY <1>1, AppendProperties
<1> DEFINE longer == Append(id, x)
           len == Len(id)
<1> HIDE DEF longer, len
<1>4. longer \in Seq(S) /\ Len(longer) = len + 1 /\ len \in Nat /\ \A n \in 1..len : longer[n] = id[n]
    BY <1>2, <1>3 DEF longer, len
<1>5. SubSeq(longer, 1, len) \in Seq(S) /\ Len(SubSeq(longer, 1, len)) = len
      /\ \A n \in 1..len : SubSeq(longer, 1, len)[n] = longer[n]
    <2>1. \A n \in 1..len : longer[n] \in S
        BY <1>4, ElementOfSeq
    <2>2. 1 \in Int /\ len \in Int
        BY <1>4
    <2> QED BY <1>4, <2>1, SubSeqProperties
<1>6. SubSeq(longer, 1, len) = id
    <2>1. Len(SubSeq(longer, 1, len)) = Len(id)
        BY <1>5 DEF len
    <2>2. \A n \in 1..Len(id) : SubSeq(longer, 1, len)[n] = id[n]
        BY <1>4, <1>5 DEF len
    <2> QED BY <1>1, <1>5, <2>1, <2>2, SeqEqual
<1>7. Front(longer) = id
    <2>1. Len(longer) - 1 = len
        BY <1>4
    <2> QED BY <1>6, <2>1 DEF Front
<1>8. longer \in KnowledgeId
    BY <1>4 DEF KnowledgeId, S
<1>9. ASSUME x = len + 1 PROVE NextVersion(ChainOf(id), longer) = ChainOf(longer)
    <2>1. Len(longer) > 1 /\ (Len(longer) > 2 <=> len > 1)
        BY <1>2, <1>4 DEF len
    <2> QED BY <1>4, <1>7, <2>1 DEF NextVersion, ChainOf, len
<1> QED BY <1>2, <1>4, <1>7, <1>8, <1>9 DEF longer, len

(* A new record whose predecessor is there, and its chain.                 *)
LEMMA RecordKeepsChains ==
    ASSUME ChainsInv, NEW r, ChainIsOfId(r), Len(r.id) > 1 => HasId(records, Front(r.id)),
           records' = records \cup {r}, chains' = Append(chains, r.chain),
           r.chain.version <= Len(chains) + 1
    PROVE  ChainsInv'
<1> DEFINE len == Len(chains)
<1>1. /\ IsSeq(chains') /\ chains'[len + 1] = r.chain /\ len \in Nat
      /\ DOMAIN chains = 1..len /\ DOMAIN chains' = 1..(len + 1)
      /\ \A n \in 1..len : chains'[n] = chains[n]
    BY AppendFacts DEF ChainsInv
<1> HIDE DEF len
<1>2. /\ \A n \in DOMAIN chains : n \in DOMAIN chains' /\ chains'[n] = chains[n]
      /\ len + 1 \in DOMAIN chains'
      /\ \A n \in DOMAIN chains' : n \in DOMAIN chains \/ n = len + 1
    BY <1>1
<1>3. \A s \in records' : ChainIsOfId(s)
    BY DEF ChainsInv
<1>4. \A s \in records' : Len(s.id) > 1 => HasId(records', Front(s.id))
    BY DEF ChainsInv, HasId
<1>5. \A s \in records' : \E n \in DOMAIN chains' : chains'[n] = s.chain
    BY <1>1, <1>2 DEF ChainsInv
<1>6. \A n \in DOMAIN chains' : \E s \in records' : chains'[n] = s.chain
    BY <1>1, <1>2 DEF ChainsInv
<1>7. \A n \in DOMAIN chains' : chains'[n].version <= n
    <2>1. r.chain.version <= len + 1
        BY DEF len
    <2> QED BY <1>1, <1>2, <2>1 DEF ChainsInv
<1> QED BY <1>1, <1>3, <1>4, <1>5, <1>6, <1>7 DEF ChainsInv

(* What it came from, the index of contents and that of aliases.           *)
StepsInv ==
    \A r \in records :
        /\ IsSeq(r.steps) /\ Len(r.steps) = Len(r.id) - 1
        /\ \A i \in DOMAIN r.steps : HasId(records, r.steps[i])

Backs(S, id, c) == \E s \in S : s.id = id /\ s.content = c
IndexInv ==
    /\ exactIndex = [c \in Content |-> exactIndex[c]]
    /\ \A c \in Content : exactIndex[c] # Nothing => Backs(records, exactIndex[c], c)

AliasInv ==
    /\ resolved = [i \in Identity |-> resolved[i]]
    /\ \A a \in Alias : aliasIndex[a] # Nothing =>
          aliasIndex[a] \in Identity /\ resolved[aliasIndex[a]] # Nothing

KnowledgeInv == ChainsInv /\ StepsInv /\ IndexInv /\ AliasInv

LEMMA RecordKeepsSteps ==
    ASSUME StepsInv, NEW r, records' = records \cup {r},
           IsSeq(r.steps), Len(r.steps) = Len(r.id) - 1,
           \A i \in DOMAIN r.steps : HasId(records, r.steps[i])
    PROVE  StepsInv'
<1>1. \A id : HasId(records, id) => HasId(records', id)
    BY DEF HasId
<1> QED BY <1>1 DEF StepsInv

LEMMA RegisterKeepsIndex ==
    ASSUME IndexInv, NEW r, NEW c \in Content, r.content = c, records' = records \cup {r},
           Register(r.id, c)
    PROVE  IndexInv'
<1>1. \A id, d : Backs(records, id, d) => Backs(records', id, d)
    BY DEF Backs
<1>2. Backs(records', r.id, c)
    BY DEF Backs
<1>3. exactIndex' = [exactIndex EXCEPT ![c] = r.id]
    BY DEF Register
<1>4. \A d \in Content : exactIndex'[d] = IF d = c THEN r.id ELSE exactIndex[d]
    BY <1>3 DEF IndexInv
<1>5. exactIndex' = [d \in Content |-> exactIndex'[d]]
    BY <1>3 DEF IndexInv
<1> QED BY <1>1, <1>2, <1>4, <1>5 DEF IndexInv

LEMMA KnowledgeInductive == KnowledgeInv /\ [KnowledgeNext]_knowledgeVars => KnowledgeInv'
<1> SUFFICES ASSUME KnowledgeInv, [KnowledgeNext]_knowledgeVars PROVE KnowledgeInv'
    OBVIOUS
<1>1. ASSUME NEW k \in Subject, NEW c \in Content, Ingest(k, c) PROVE KnowledgeInv'
    <2>1. PICK r : r = Record(<<k>>, c, Initial, <<>>)
        OBVIOUS
    <2>2. r.id = <<k>> /\ r.content = c /\ r.chain = Initial /\ r.steps = <<>> /\ Initial.version = 1
        BY <2>1 DEF Record, Initial
    <2>3. records' = records \cup {r} /\ chains' = Append(chains, r.chain) /\ Register(r.id, c)
        BY <1>1, <2>1, <2>2 DEF Ingest
    <2>4. <<k>> \in KnowledgeId /\ Len(<<k>>) = 1
        BY DEF KnowledgeId
    <2>5. ChainIsOfId(r)
        BY <2>2, <2>4 DEF ChainIsOfId, ChainOf, Initial
    <2>6. r.chain.version <= Len(chains) + 1
        <3>1. Len(chains) \in Nat
            BY AppendFacts DEF KnowledgeInv, ChainsInv
        <3> QED BY <2>2, <3>1
    <2>7. ChainsInv'
        <3>1. ~ (Len(r.id) > 1)
            BY <2>2, <2>4
        <3> QED BY <2>3, <2>5, <2>6, <3>1, RecordKeepsChains DEF KnowledgeInv
    <2>8. StepsInv'
        <3>1. IsSeq(r.steps) /\ Len(r.steps) = Len(r.id) - 1 /\ DOMAIN r.steps = {}
            BY <2>2, <2>4, EmptyIsSeq
        <3> QED BY <2>3, <3>1, RecordKeepsSteps DEF KnowledgeInv
    <2>9. IndexInv'
        BY <2>2, <2>3, RegisterKeepsIndex DEF KnowledgeInv
    <2>10. AliasInv'
        BY <1>1 DEF Ingest, KnowledgeInv, AliasInv
    <2> QED BY <2>7, <2>8, <2>9, <2>10 DEF KnowledgeInv
<1>2. ASSUME NEW r \in records, NEW c \in Content, Revise(r, c) PROVE KnowledgeInv'
    <2> DEFINE id == Append(r.id, r.chain.version + 1)
    <2>1. r.id \in KnowledgeId /\ Len(r.id) >= 1 /\ r.chain = ChainOf(r.id)
        BY DEF KnowledgeInv, ChainsInv, ChainIsOfId
    <2>2. r.chain.version = Len(r.id) /\ Len(r.id) \in Nat
        BY <2>1, RevisedId DEF ChainOf
    <2>3. /\ id \in KnowledgeId /\ Len(id) = Len(r.id) + 1 /\ Front(id) = r.id
          /\ NextVersion(r.chain, id) = ChainOf(id)
        BY <2>1, <2>2, RevisedId
    <2>4. PICK s : s = Record(id, c, NextVersion(r.chain, id), Append(r.steps, r.id))
        OBVIOUS
    <2>5. records' = records \cup {s} /\ chains' = Append(chains, NextVersion(r.chain, id)) /\ Register(id, c)
        BY <1>2, <2>4 DEF Revise
    <2> HIDE DEF id
    <2>6. s.id = id /\ s.content = c /\ s.chain = ChainOf(id) /\ s.steps = Append(r.steps, r.id)
        BY <2>3, <2>4 DEF Record
    <2>7. ChainIsOfId(s)
        BY <2>2, <2>3, <2>6 DEF ChainIsOfId
    <2>8. HasId(records, r.id)
        BY DEF HasId
    <2>9. s.chain.version <= Len(chains) + 1
        <3>1. PICK n \in DOMAIN chains : chains[n] = r.chain
            BY DEF KnowledgeInv, ChainsInv
        <3>2. r.chain.version <= n
            BY <3>1 DEF KnowledgeInv, ChainsInv
        <3>3. Len(chains) \in Nat /\ DOMAIN chains = 1..Len(chains)
            BY AppendFacts DEF KnowledgeInv, ChainsInv
        <3>4. s.chain.version = Len(r.id) + 1
            BY <2>3, <2>6 DEF ChainOf
        <3> QED BY <2>2, <3>1, <3>2, <3>3, <3>4
    <2>10. ChainsInv'
        BY <2>3, <2>5, <2>6, <2>7, <2>8, <2>9, RecordKeepsChains DEF KnowledgeInv
    <2>11. StepsInv'
        <3>1. IsSeq(r.steps) /\ Len(r.steps) = Len(r.id) - 1 /\ \A i \in DOMAIN r.steps : HasId(records, r.steps[i])
            BY DEF KnowledgeInv, StepsInv
        <3>2. /\ IsSeq(s.steps) /\ Len(s.steps) = Len(r.steps) + 1 /\ s.steps[Len(r.steps) + 1] = r.id
              /\ DOMAIN r.steps = 1..Len(r.steps) /\ DOMAIN s.steps = 1..(Len(r.steps) + 1) /\ Len(r.steps) \in Nat
              /\ \A i \in 1..Len(r.steps) : s.steps[i] = r.steps[i]
            BY <2>6, <3>1, AppendFacts
        <3>3. Len(s.steps) = Len(s.id) - 1
            BY <2>2, <2>3, <2>6, <3>1, <3>2
        <3>4. \A i \in DOMAIN s.steps : i \in DOMAIN r.steps \/ i = Len(r.steps) + 1
            BY <3>2
        <3>5. \A i \in DOMAIN s.steps : HasId(records, s.steps[i])
            BY <2>8, <3>1, <3>2, <3>4
        <3> QED BY <2>5, <3>2, <3>3, <3>5, RecordKeepsSteps DEF KnowledgeInv
    <2>12. IndexInv'
        BY <2>5, <2>6, RegisterKeepsIndex DEF KnowledgeInv
    <2>13. AliasInv'
        BY <1>2 DEF Revise, KnowledgeInv, AliasInv
    <2> QED BY <2>10, <2>11, <2>12, <2>13 DEF KnowledgeInv
<1>3. ASSUME NEW e \in reverseIndex, Unregister(e.id) PROVE KnowledgeInv'
    <2>1. UNCHANGED <<records, chains, resolved, aliasIndex>>
        BY <1>3 DEF Unregister
    <2>2. PICK d : exactIndex' = [exactIndex EXCEPT ![d] = Nothing]
        BY <1>3 DEF Unregister
    <2>3. IndexInv'
        BY <2>1, <2>2 DEF KnowledgeInv, IndexInv
    <2> QED BY <2>1, <2>3 DEF KnowledgeInv, ChainsInv, StepsInv, AliasInv
<1>4. ASSUME NEW i \in Identity, NEW aliases \in SUBSET Alias, RegisterIdentity(i, aliases) PROVE KnowledgeInv'
    <2>1. aliases # Nothing
        BY KnowledgeAssumption
    <2>2. /\ resolved' = [resolved EXCEPT ![i] = aliases] /\ UNCHANGED <<records, chains, exactIndex, reverseIndex>>
          /\ aliasIndex' = [a \in Alias |-> IF a \in aliases THEN i ELSE aliasIndex[a]]
        BY <1>4 DEF RegisterIdentity
    <2>3. AliasInv'
        BY <2>1, <2>2 DEF KnowledgeInv, AliasInv
    <2> QED BY <2>2, <2>3 DEF KnowledgeInv, ChainsInv, StepsInv, IndexInv
<1>5. CASE UNCHANGED knowledgeVars
    BY <1>5 DEF knowledgeVars, KnowledgeInv, ChainsInv, StepsInv, IndexInv, AliasInv
<1> QED BY <1>1, <1>2, <1>3, <1>4, <1>5 DEF KnowledgeNext

(* The walk back over what an id was before.                               *)
Prefix(id, m) == SubSeq(id, 1, m)

LEMMA PrefixFacts ==
    ASSUME NEW id \in KnowledgeId, NEW m \in 1..Len(id)
    PROVE  /\ Prefix(id, m) \in KnowledgeId /\ Len(Prefix(id, m)) = m /\ Prefix(id, Len(id)) = id
           /\ m > 1 => Front(Prefix(id, m)) = Prefix(id, m - 1)
<1> DEFINE S == Subject \cup Nat
<1>1. id \in Seq(S) /\ Len(id) \in Nat /\ m \in Nat
    BY LenProperties DEF KnowledgeId
<1>2. ASSUME NEW q \in Seq(S), NEW k \in 1..Len(q)
      PROVE  /\ SubSeq(q, 1, k) \in Seq(S) /\ Len(SubSeq(q, 1, k)) = k
             /\ \A i \in 1..k : SubSeq(q, 1, k)[i] = q[i]
    <2>1. Len(q) \in Nat /\ k \in Nat
        BY LenProperties
    <2>2. \A i \in 1..k : q[i] \in S
        BY <2>1, ElementOfSeq
    <2> HIDE DEF S
    <2> QED BY <2>1, <2>2, SubSeqProperties
<1> HIDE DEF S
<1>3. Prefix(id, m) \in Seq(S) /\ Len(Prefix(id, m)) = m /\ \A i \in 1..m : Prefix(id, m)[i] = id[i]
    BY <1>1, <1>2 DEF Prefix
<1>4. Len(id) \in 1..Len(id)
    BY <1>1
<1>5. Prefix(id, Len(id)) = id
    <2>1. /\ Prefix(id, Len(id)) \in Seq(S) /\ Len(Prefix(id, Len(id))) = Len(id)
          /\ \A i \in 1..Len(id) : Prefix(id, Len(id))[i] = id[i]
        BY <1>1, <1>2, <1>4 DEF Prefix
    <2> QED BY <1>1, <2>1, SeqEqual
<1>6. ASSUME m > 1 PROVE Front(Prefix(id, m)) = Prefix(id, m - 1)
    <2>1. m - 1 \in 1..Len(id) /\ m - 1 \in 1..Len(Prefix(id, m))
        BY <1>1, <1>3, <1>6
    <2> DEFINE a == SubSeq(Prefix(id, m), 1, m - 1)
               b == Prefix(id, m - 1)
    <2>2. a \in Seq(S) /\ Len(a) = m - 1 /\ \A i \in 1..(m - 1) : a[i] = Prefix(id, m)[i]
        BY <1>2, <1>3, <2>1
    <2>3. b \in Seq(S) /\ Len(b) = m - 1 /\ \A i \in 1..(m - 1) : b[i] = id[i]
        BY <1>1, <1>2, <2>1 DEF Prefix
    <2>4. Front(Prefix(id, m)) = a
        BY <1>3 DEF Front
    <2> HIDE DEF a, b
    <2>5. \A i \in 1..(m - 1) : i \in 1..m
        BY <1>1
    <2>6. \A i \in 1..Len(a) : a[i] = b[i]
        BY <1>3, <2>2, <2>3, <2>5
    <2>7. a = b
        BY <2>2, <2>3, <2>6, SeqEqual
    <2> QED BY <2>4, <2>7 DEF b
<1> QED BY <1>3, <1>5, <1>6 DEF KnowledgeId, S

LEMMA PrefixesAreIds ==
    ASSUME ChainsInv, NEW r \in records
    PROVE  \A m \in 1..Len(r.id) : HasId(records, Prefix(r.id, m))
<1> DEFINE id == r.id
           missing == {j \in Nat : j < Len(id) /\ ~ HasId(records, Prefix(id, Len(id) - j))}
<1>1. id \in KnowledgeId /\ Len(id) \in Nat /\ Len(id) >= 1 /\ HasId(records, id)
    BY LenProperties DEF ChainsInv, ChainIsOfId, KnowledgeId, HasId
<1> HIDE DEF id
<1>2. ASSUME missing # {} PROVE FALSE
    <2>1. PICK j \in missing : \A i \in missing : j <= i
        BY <1>2, LeastOf
    <2>2. j # 0
        <3>1. Len(id) \in 1..Len(id) /\ Len(id) - 0 = Len(id)
            BY <1>1
        <3>2. Prefix(id, Len(id)) = id
            BY <1>1, <3>1, PrefixFacts
        <3> QED BY <1>1, <2>1, <3>1, <3>2
    <2> DEFINE m == Len(id) - j
    <2>3. m \in 1..Len(id) /\ m + 1 \in 1..Len(id) /\ j - 1 \in Nat /\ j - 1 < Len(id) /\ Len(id) - (j - 1) = m + 1
          /\ ~ (j <= j - 1) /\ m + 1 > 1 /\ (m + 1) - 1 = m
        BY <1>1, <2>1, <2>2
    <2>4. ~ HasId(records, Prefix(id, m))
        BY <2>1
    <2>5. j - 1 \notin missing
        BY <2>1, <2>3
    <2>6. HasId(records, Prefix(id, m + 1))
        BY <2>3, <2>5
    <2> HIDE DEF m, missing
    <2>7. PICK s \in records : s.id = Prefix(id, m + 1)
        BY <2>6 DEF HasId
    <2>8. Len(s.id) > 1 /\ Front(s.id) = Prefix(id, m)
        BY <1>1, <2>3, <2>7, PrefixFacts
    <2> QED BY <2>4, <2>7, <2>8 DEF ChainsInv
<1>3. ASSUME NEW m \in 1..Len(id) PROVE HasId(records, Prefix(id, m))
    <2>1. Len(id) - m \in Nat /\ Len(id) - m < Len(id) /\ Len(id) - (Len(id) - m) = m
        BY <1>1
    <2>2. Len(id) - m \notin missing
        BY <1>2
    <2> QED BY <2>1, <2>2
<1> QED BY <1>3 DEF id

LEMMA TurnFinds ==
    ASSUME ChainsInv, NEW p, HasId(records, p), Len(p) > 1, NEW found
    PROVE  Turn([at |-> p, found |-> found]) =
               [at |-> ChainOf(p).previous, found |-> Append(found, ChainOf(p))]
<1>1. p \in KnowledgeId /\ p # Nothing /\ ChainOf(p).next = p
    BY KnowledgeAssumption DEF HasId, ChainsInv, ChainIsOfId, KnowledgeId, ChainOf
<1>2. PICK n \in DOMAIN chains : chains[n] = ChainOf(p)
    BY DEF HasId, ChainsInv, ChainIsOfId
<1>3. n \in Find(p)
    BY <1>1, <1>2 DEF Find
<1>4. ASSUME NEW m \in Find(p) PROVE chains[m] = ChainOf(p)
    <2>1. PICK s \in records : chains[m] = s.chain
        BY DEF Find, ChainsInv
    <2>2. chains[m].next = p /\ chains[m] = ChainOf(s.id)
        BY <2>1 DEF Find, ChainsInv, ChainIsOfId
    <2>3. s.id = p
        BY <1>1, <2>2 DEF ChainOf
    <2> QED BY <2>2, <2>3
<1>5. Find(p) \in SUBSET Nat
    <2>1. Len(chains) \in Nat /\ DOMAIN chains = 1..Len(chains)
        BY AppendFacts DEF ChainsInv
    <2> QED BY <2>1 DEF Find
<1>6. First(Find(p)) \in Find(p)
    BY <1>3, <1>5, LeastOf DEF First
<1>7. chains[First(Find(p))] = ChainOf(p)
    BY <1>4, <1>6
<1> QED BY <1>1, <1>3, <1>7 DEF Turn

(* After j turns.                                                          *)
Turns(id, j) == IF j < Len(id) - 1 THEN j ELSE Len(id) - 1
FoundAfter(id, k) == [i \in 1..k |-> ChainOf(Prefix(id, Len(id) - i + 1))]
Walk(id, j) ==
    [at    |-> IF Turns(id, j) < Len(id) - 1 THEN Prefix(id, Len(id) - Turns(id, j)) ELSE Nothing,
     found |-> FoundAfter(id, Turns(id, j))]

LEMMA FoundGrows ==
    ASSUME NEW id, NEW k \in Nat
    PROVE  Append(FoundAfter(id, k), ChainOf(Prefix(id, Len(id) - (k + 1) + 1))) = FoundAfter(id, k + 1)
<1> DEFINE e(i) == ChainOf(Prefix(id, Len(id) - i + 1))
           V == {e(i) : i \in 1..(k + 1)}
           s == [i \in 1..k |-> e(i)]
           t == [i \in 1..(k + 1) |-> e(i)]
<1>1. \A i \in 1..k : i \in 1..(k + 1)
    OBVIOUS
<1>2. \A i \in 1..(k + 1) : e(i) \in V
    OBVIOUS
<1> HIDE DEF V, e
<1>3. s \in Seq(V) /\ Len(s) = k
    BY <1>1, <1>2, IsASeq, LenProperties
<1>4. t \in Seq(V) /\ Len(t) = k + 1
    BY <1>2
<1>5. k + 1 \in 1..(k + 1) /\ e(k + 1) \in V
    BY <1>2
<1>6. /\ Append(s, e(k + 1)) \in Seq(V) /\ Len(Append(s, e(k + 1))) = k + 1
      /\ Append(s, e(k + 1))[k + 1] = e(k + 1)
      /\ \A i \in 1..k : Append(s, e(k + 1))[i] = s[i]
    BY <1>3, <1>5, AppendProperties
<1>7. \A i \in 1..(k + 1) : i \in 1..k \/ i = k + 1
    OBVIOUS
<1>8. \A i \in 1..(k + 1) : Append(s, e(k + 1))[i] = t[i]
    BY <1>6, <1>7
<1>9. Append(s, e(k + 1)) = t
    BY <1>4, <1>6, <1>8, SeqEqual
<1> QED BY <1>9 DEF FoundAfter, e

LEMMA TurnOfWalk ==
    ASSUME ChainsInv, NEW r \in records, NEW j \in Nat
    PROVE  Turn(Walk(r.id, j)) = Walk(r.id, j + 1)
<1> DEFINE id == r.id
           len == Len(id)
<1>1. id \in KnowledgeId /\ len \in Nat /\ len >= 1
    BY LenProperties DEF ChainsInv, ChainIsOfId, KnowledgeId
<1>2. \A m \in 1..len : HasId(records, Prefix(id, m))
    BY PrefixesAreIds
<1> HIDE DEF id
<1>3. CASE ~ (j < len - 1)
    <2>1. Turns(id, j) = len - 1 /\ Turns(id, j + 1) = len - 1
        BY <1>1, <1>3 DEF Turns
    <2>2. Walk(id, j) = Walk(id, j + 1) /\ Walk(id, j).at = Nothing
        BY <1>1, <2>1 DEF Walk
    <2> QED BY <2>2 DEF Turn, id
<1>4. CASE j < len - 1
    <2> DEFINE p == Prefix(id, len - j)
    <2>1. /\ len - j \in 1..len /\ len - j > 1 /\ (len - j) - 1 = len - (j + 1) /\ len - (j + 1) + 1 = len - j
          /\ (j + 1 < len - 1 <=> len - j > 2) /\ (~ (j + 1 < len - 1) => len - 1 = j + 1)
        BY <1>1, <1>4
    <2>2. Turns(id, j) = j /\ Turns(id, j + 1) = j + 1
        BY <1>4, <2>1 DEF Turns
    <2>3. HasId(records, p) /\ Len(p) = len - j /\ Front(p) = Prefix(id, len - (j + 1))
        BY <1>1, <1>2, <2>1, PrefixFacts
    <2>4. Walk(id, j) = [at |-> p, found |-> FoundAfter(id, j)]
        BY <1>4, <2>2 DEF Walk
    <2>5. Append(FoundAfter(id, j), ChainOf(p)) = FoundAfter(id, j + 1)
        BY <2>1, FoundGrows
    <2> HIDE DEF p, len
    <2>6. ChainOf(p).previous = IF j + 1 < len - 1 THEN Prefix(id, len - (j + 1)) ELSE Nothing
        BY <2>1, <2>3 DEF ChainOf
    <2>7. Turn(Walk(id, j)) = [at |-> ChainOf(p).previous, found |-> Append(FoundAfter(id, j), ChainOf(p))]
        BY <2>1, <2>3, <2>4, TurnFinds
    <2>8. Walk(id, j + 1) = [at    |-> IF j + 1 < len - 1 THEN Prefix(id, len - (j + 1)) ELSE Nothing,
                             found |-> FoundAfter(id, j + 1)]
        BY <2>2 DEF Walk, len
    <2> QED BY <2>5, <2>6, <2>7, <2>8 DEF id
<1> QED BY <1>3, <1>4

(* The loop of history is that walk.                                   *)
LEMMA HistoryIsWalk ==
    ASSUME ChainsInv, NEW r \in records, Len(r.id) > 1
    PROVE  History(r.id) = Walk(r.id, Len(chains)).found
<1> DEFINE L == Len(chains)
           start == [at |-> r.id, found |-> <<>>]
           Follows(f) == f = [n \in 0..L |-> IF n = 0 THEN start ELSE Turn(f[n - 1])]
           loop == CHOOSE f : Follows(f)
           walk == [n \in 0..L |-> Walk(r.id, n)]
<1>1. L \in Nat
    BY AppendFacts DEF ChainsInv
<1>2. r.id \in KnowledgeId /\ Len(r.id) \in Nat /\ Len(r.id) >= 1
    BY LenProperties DEF ChainsInv, ChainIsOfId, KnowledgeId
<1>3. History(r.id) = loop[L].found
    BY DEF History
<1>4. \A j \in Nat : Turn(Walk(r.id, j)) = Walk(r.id, j + 1)
    BY TurnOfWalk
<1>5. start = Walk(r.id, 0)
    <2>1. Turns(r.id, 0) = 0 /\ 0 < Len(r.id) - 1 /\ Len(r.id) - 0 = Len(r.id) /\ Len(r.id) \in 1..Len(r.id)
        BY <1>2 DEF Turns
    <2>2. Prefix(r.id, Len(r.id)) = r.id
        BY <1>2, <2>1, PrefixFacts
    <2>3. FoundAfter(r.id, 0) = <<>>
        BY DEF FoundAfter
    <2> QED BY <2>1, <2>2, <2>3 DEF Walk
<1> HIDE DEF L, start
<1>6. Follows(walk)
    <2>1. ASSUME NEW n \in 0..L PROVE walk[n] = IF n = 0 THEN start ELSE Turn(walk[n - 1])
        <3>1. CASE n = 0
            BY <1>5, <3>1
        <3>2. CASE n # 0
            <4>1. n - 1 \in 0..L /\ n - 1 \in Nat /\ (n - 1) + 1 = n
                BY <1>1, <3>2
            <4>2. Turn(Walk(r.id, n - 1)) = Walk(r.id, n)
                BY <1>4, <4>1
            <4> QED BY <3>2, <4>1, <4>2
        <3> QED BY <3>1, <3>2
    <2> QED BY <2>1, Zenon
<1>7. Follows(loop)
    <2> HIDE DEF walk, Follows
    <2> QED BY <1>6
<1> HIDE DEF loop
<1>8. \A n \in 0..L : loop[n] = IF n = 0 THEN start ELSE Turn(loop[n - 1])
    BY <1>7, Zenon
<1> DEFINE differ == {n \in 0..L : loop[n] # Walk(r.id, n)}
<1>9. ASSUME differ # {} PROVE FALSE
    <2>1. differ \in SUBSET Nat
        OBVIOUS
    <2>2. PICK n \in differ : \A m \in differ : n <= m
        BY <1>9, <2>1, LeastOf
    <2>3. n \in 0..L /\ loop[n] # Walk(r.id, n)
        BY <2>2
    <2>4. n # 0
        BY <1>1, <1>5, <1>8, <2>3
    <2>5. n - 1 \in 0..L /\ n - 1 \in Nat /\ (n - 1) + 1 = n /\ ~ (n <= n - 1)
        BY <1>1, <2>3, <2>4
    <2>6. n - 1 \notin differ
        BY <2>2, <2>5
    <2>7. loop[n - 1] = Walk(r.id, n - 1)
        BY <2>5, <2>6
    <2>8. loop[n] = Turn(loop[n - 1])
        BY <1>8, <2>3, <2>4
    <2>9. Turn(Walk(r.id, n - 1)) = Walk(r.id, n)
        BY <1>4, <2>5
    <2> QED BY <2>3, <2>7, <2>8, <2>9
<1>10. L \in 0..L
    BY <1>1
<1>11. loop[L] = Walk(r.id, L)
    <2>1. L \notin differ
        BY <1>9
    <2> QED BY <1>10, <2>1
<1> QED BY <1>3, <1>11 DEF L

(* However records are revised, the same one twice included, and whatever  *)
(* is unregistered, the history of a revision holds every revision of the  *)
(* chain down to it once, its provenance each record it came from, a       *)
(* duplicate is of a record with that content, and an alias leads to an    *)
(* identity that is registered (versioning.rs history, provenance.rs,      *)
(* dedup.rs check_duplicate, identity.rs resolve_by_alias).                *)
THEOREM KnowledgeChainsAreWhole == KnowledgeSpec => []ChainsAreWhole
<1>1. KnowledgeInit => KnowledgeInv
    BY EmptyIsSeq DEF KnowledgeInit, KnowledgeInv, ChainsInv, StepsInv, IndexInv, AliasInv
<1>2. KnowledgeInv => ChainsAreWhole
    <2> SUFFICES ASSUME KnowledgeInv PROVE ChainsAreWhole
        OBVIOUS
    <2>1. ASSUME NEW r \in records
          PROVE  LET n == r.chain.version
                 IN  /\ n > 1 => \E first \in {1, 2} :
                           Versions(History(r.id)) = [i \in 1..(n - first + 1) |-> n - i + 1]
                     /\ Len(r.steps) = n - 1 /\ \A i \in DOMAIN r.steps : \E s \in records : s.id = r.steps[i]
        <3> DEFINE n == Len(r.id)
                   L == Len(chains)
        <3>1. r.id \in KnowledgeId /\ n \in Nat /\ n >= 1 /\ r.chain.version = n
            <4>1. r.id \in KnowledgeId /\ n >= 1 /\ r.chain = ChainOf(r.id)
                BY DEF KnowledgeInv, ChainsInv, ChainIsOfId
            <4>2. n \in Nat
                BY <4>1, LenProperties DEF KnowledgeId
            <4> QED BY <4>1, <4>2 DEF ChainOf
        <3>2. Len(r.steps) = n - 1 /\ \A i \in DOMAIN r.steps : \E s \in records : s.id = r.steps[i]
            BY DEF KnowledgeInv, StepsInv, HasId
        <3>3. n <= L /\ L \in Nat
            <4>1. PICK m \in DOMAIN chains : chains[m] = r.chain
                BY DEF KnowledgeInv, ChainsInv
            <4>2. r.chain.version <= m
                BY <4>1 DEF KnowledgeInv, ChainsInv
            <4>3. L \in Nat /\ DOMAIN chains = 1..L
                BY AppendFacts DEF KnowledgeInv, ChainsInv
            <4> QED BY <3>1, <4>1, <4>2, <4>3
        <3>4. ASSUME n > 1
              PROVE  Versions(History(r.id)) = [i \in 1..(n - 2 + 1) |-> n - i + 1]
            <4>1. Turns(r.id, L) = n - 1
                BY <3>1, <3>3 DEF Turns
            <4>2. History(r.id) = FoundAfter(r.id, n - 1)
                BY <3>4, <4>1, HistoryIsWalk DEF KnowledgeInv, Walk
            <4>3. ASSUME NEW i \in 1..(n - 1) PROVE History(r.id)[i].version = n - i + 1
                <5>1. n - i + 1 \in 1..n
                    BY <3>1
                <5>2. Len(Prefix(r.id, n - i + 1)) = n - i + 1
                    BY <3>1, <5>1, PrefixFacts
                <5> QED BY <4>2, <5>2 DEF FoundAfter, ChainOf
            <4>4. DOMAIN History(r.id) = 1..(n - 1)
                BY <4>2 DEF FoundAfter
            <4>5. 1..(n - 1) = 1..(n - 2 + 1)
                BY <3>1
            <4> HIDE DEF n
            <4> QED BY <4>3, <4>4, <4>5 DEF Versions
        <3> QED BY <3>1, <3>2, <3>4
    <2>2. \A c \in Content : CheckDuplicate(c) # Nothing =>
              \E r \in records : r.id = CheckDuplicate(c) /\ r.content = c
        BY DEF KnowledgeInv, IndexInv, Backs, CheckDuplicate
    <2>3. \A a \in Alias : ResolveAlias(a) # Nothing => resolved[ResolveAlias(a)] # Nothing
        BY DEF KnowledgeInv, AliasInv, ResolveAlias
    <2> QED BY <2>1, <2>2, <2>3 DEF ChainsAreWhole
<1> QED BY <1>1, <1>2, KnowledgeInductive, PTL DEF KnowledgeSpec

-----------------------------------------------------------------------------
(* Decisions.  The places of a list are its numbers, each taken once.      *)
Place(s, i) == Cardinality(Ahead(s, i))
IsList(s) == IsSeq(s) /\ \A i \in DOMAIN s : s[i].score \in Int
Placed(s) ==
    /\ \A i \in DOMAIN s : Place(s, i) \in 1..Len(s)
    /\ \A i, j \in DOMAIN s : Place(s, i) = Place(s, j) => i = j
    /\ \A i, j \in DOMAIN s : Place(s, i) < Place(s, j) => s[i].score >= s[j].score
    /\ \A k \in 1..Len(s) : \E i \in DOMAIN s : Place(s, i) = k

LEMMA PlacesAreTaken ==
    ASSUME NEW s, IsList(s)
    PROVE  Placed(s)
<1> DEFINE L == Len(s)
<1>1. L \in Nat /\ DOMAIN s = 1..L
    BY LenProperties DEF IsList, IsSeq
<1>2. IsFiniteSet(1..L) /\ Cardinality(1..L) = L
    <2> HIDE DEF L
    <2>1. L \in Int /\ 1 \in Int
        BY <1>1
    <2>2. Cardinality(1..L) = IF 1 > L THEN 0 ELSE L - 1 + 1
        BY <2>1, FS_Interval
    <2> QED BY <1>1, <2>1, <2>2, FS_Interval
<1>3. ASSUME NEW i \in DOMAIN s
      PROVE  /\ Ahead(s, i) \subseteq 1..L /\ IsFiniteSet(Ahead(s, i)) /\ i \in Ahead(s, i)
             /\ Place(s, i) \in 1..L
    <2>1. Ahead(s, i) \subseteq 1..L /\ i \in Ahead(s, i)
        BY <1>1 DEF Ahead, IsList
    <2>2. IsFiniteSet(Ahead(s, i)) /\ Place(s, i) <= L /\ Place(s, i) \in Nat
        BY <1>2, <2>1, FS_Subset, FS_CardinalityType DEF Place
    <2>3. Place(s, i) # 0
        BY <2>1, <2>2, FS_EmptySet DEF Place
    <2> QED BY <1>1, <2>1, <2>2, <2>3
<1> DEFINE Precedes(i, j) == s[i].score > s[j].score \/ (s[i].score = s[j].score /\ i < j)
<1>4. ASSUME NEW i \in DOMAIN s, NEW j \in DOMAIN s, Precedes(i, j)
      PROVE  Place(s, i) < Place(s, j)
    <2>1. Ahead(s, i) \subseteq Ahead(s, j) /\ j \notin Ahead(s, i) /\ j \in Ahead(s, j)
        BY <1>1, <1>4 DEF Ahead, IsList
    <2>2. Place(s, i) <= Place(s, j) /\ Place(s, i) # Place(s, j)
        BY <1>3, <2>1, FS_Subset DEF Place
    <2> QED BY <1>3, <2>2
<1>5. ASSUME NEW i \in DOMAIN s, NEW j \in DOMAIN s
      PROVE  Precedes(i, j) \/ Precedes(j, i) \/ i = j
    BY <1>1 DEF IsList
<1>6. ASSUME NEW i \in DOMAIN s, NEW j \in DOMAIN s
      PROVE  /\ Place(s, i) = Place(s, j) => i = j
             /\ Place(s, i) < Place(s, j) => s[i].score >= s[j].score
    <2>1. Place(s, i) \in Nat /\ Place(s, j) \in Nat /\ s[i].score \in Int /\ s[j].score \in Int
        BY <1>1, <1>3 DEF IsList
    <2>2. CASE Precedes(i, j)
        <3>1. Place(s, i) < Place(s, j)
            BY <1>4, <2>2
        <3> QED BY <2>1, <2>2, <3>1
    <2>3. CASE Precedes(j, i)
        <3>1. Place(s, j) < Place(s, i)
            BY <1>4, <2>3
        <3> QED BY <2>1, <3>1
    <2>4. CASE i = j
        BY <2>1, <2>4
    <2> QED BY <1>5, <2>2, <2>3, <2>4
<1> DEFINE f == [i \in 1..L |-> Place(s, i)]
<1>7. f \in Injection(1..L, 1..L)
    BY <1>1, <1>3, <1>6 DEF Injection, IsInjective
<1>8. f \in Surjection(1..L, 1..L)
    <2> HIDE DEF f
    <2> QED BY <1>2, <1>7, FS_Injection
<1>9. \A k \in 1..L : \E i \in 1..L : Place(s, i) = k
    BY <1>8 DEF Surjection
<1> QED BY <1>1, <1>3, <1>6, <1>9 DEF Placed

(* The best n of a list are of it, in order, n if there are as many, and   *)
(* what they leave out is worth no more.                                   *)
IsBest(r, s, n) ==
    /\ IsSeq(r) /\ Range(r) \subseteq Range(s) /\ Len(r) <= n
    /\ \A j, k \in DOMAIN r : j < k => r[j].score >= r[k].score
    /\ \A l \in Range(s) : l \in Range(r) \/ (Len(r) = n /\ \A m \in Range(r) : m.score >= l.score)

LEMMA BestIsBest ==
    ASSUME NEW s, IsList(s), NEW n \in Nat
    PROVE  IsBest(Best(s, n), s, n)
<1> DEFINE L == Len(s)
           r == Best(s, n)
           m == Min({n, L})
           at(k) == CHOOSE i \in DOMAIN s : Place(s, i) = k
<1>1. L \in Nat /\ DOMAIN s = 1..L /\ Placed(s)
    BY PlacesAreTaken, LenProperties DEF IsList, IsSeq
<1>2. m \in {n, L} /\ m <= n /\ m <= L /\ m \in Nat
    <2>1. \E x \in {n, L} : \A y \in {n, L} : x <= y
        BY <1>1
    <2> QED BY <1>1, <2>1 DEF Min
<1>3. r = [k \in 1..m |-> s[at(k)]]
    BY DEF Best, Place
<1>4. ASSUME NEW k \in 1..m PROVE at(k) \in DOMAIN s /\ Place(s, at(k)) = k
    <2>1. k \in 1..L
        BY <1>1, <1>2
    <2> QED BY <1>1, <2>1 DEF Placed
<1> HIDE DEF m, r, at
<1>5. IsSeq(r) /\ Len(r) = m /\ DOMAIN r = 1..m
    <2> DEFINE R == {s[at(k)] : k \in 1..m}
    <2>1. r \in Seq(R)
        BY <1>2, <1>3
    <2> HIDE DEF R
    <2>2. IsSeq(r)
        BY <2>1 DEF IsSeq
    <2> QED BY <1>2, <1>3, <2>1, <2>2, LenProperties
<1>6. Range(r) \subseteq Range(s)
    BY <1>3, <1>4, <1>5 DEF Range
<1>7. ASSUME NEW j \in 1..m, NEW k \in 1..m, j < k PROVE r[j].score >= r[k].score
    BY <1>1, <1>3, <1>4, <1>7 DEF Placed
<1>8. ASSUME NEW i \in DOMAIN s
      PROVE  s[i] \in Range(r) \/ (m = n /\ \A k \in 1..m : r[k].score >= s[i].score)
    <2>1. Place(s, i) \in 1..L
        BY <1>1 DEF Placed
    <2>2. CASE Place(s, i) <= m
        <3>1. Place(s, i) \in 1..m
            BY <1>2, <2>1, <2>2
        <3>2. at(Place(s, i)) = i
            BY <1>1, <1>4, <3>1 DEF Placed
        <3>3. r[Place(s, i)] = s[i]
            BY <1>3, <3>1, <3>2
        <3> QED BY <1>5, <3>1, <3>3 DEF Range
    <2>3. CASE Place(s, i) > m
        <3> DEFINE p == Place(s, i)
        <3>1. p \in Int /\ p <= L /\ p > m
            BY <1>1, <2>1, <2>3
        <3> HIDE DEF p, L
        <3>2. m # L
            BY <1>1, <1>2, <3>1
        <3>3. m = n
            BY <1>2, <3>2
        <3>4. ASSUME NEW k \in 1..m PROVE r[k].score >= s[i].score
            <4>1. Place(s, at(k)) < Place(s, i)
                BY <1>2, <1>4, <3>1 DEF p
            <4>2. r[k] = s[at(k)] /\ at(k) \in DOMAIN s
                BY <1>3, <1>4
            <4> QED BY <1>1, <4>1, <4>2 DEF Placed
        <3> QED BY <3>3, <3>4
    <2> QED BY <1>2, <2>1, <2>2, <2>3
<1>9. \A l \in Range(s) : l \in Range(r) \/ (Len(r) = n /\ \A x \in Range(r) : x.score >= l.score)
    BY <1>5, <1>8 DEF Range
<1> QED BY <1>2, <1>5, <1>6, <1>7, <1>9 DEF IsBest, r

(* A list of objects holds each of them.                                   *)
LEMMA ListedHolds ==
    ASSUME NEW S, IsFiniteSet(S), NEW kinds, NEW s \in Listed(S, kinds)
    PROVE  IsSeq(s) /\ Range(s) = S
<1> DEFINE D == 1..Cardinality(S)
<1>1. s \in [D -> S] /\ \A i, j \in D : i # j => s[i] # s[j]
    BY DEF Listed, SetToSeqs
<1>2. Cardinality(S) \in Nat /\ IsFiniteSet(D) /\ Cardinality(D) = Cardinality(S)
    BY FS_CardinalityType, FS_Interval
<1>3. s \in Injection(D, S)
    BY <1>1 DEF Injection, IsInjective
<1>4. s \in Surjection(D, S)
    <2> HIDE DEF D
    <2> QED BY <1>2, <1>3, FS_Injection
<1>5. s \in Seq(S)
    BY <1>1, <1>2
<1> QED BY <1>1, <1>4, <1>5 DEF Surjection, Range, IsSeq

(* What an investigation has heard of a kind lies between what lasts and   *)
(* what it met; what lasts is still held, and what is held was met.        *)
OfThat(S, c) == {o \in S : o.kind = c[2]}
Heeded(e, c) == /\ e.seen[c] \subseteq OfThat(e.met, c)
                /\ c \notin e.blind => OfThat(e.lasting, c) \subseteq e.seen[c]
Investigating(e, S) ==
    /\ e.q \in Questions /\ IsFiniteSet(e.met) /\ e.lasting \subseteq S /\ S \subseteq e.met
    /\ IsSeq(e.todo) /\ \A c \in Range(e.todo) : c[1] = "find_by_kind"
    /\ \A k \in Range(LeadKinds) : Call("find_by_kind", k) \in DOMAIN e.seen \cup Range(e.todo)
    /\ \A c \in DOMAIN e.seen : Heeded(e, c)

(* A caller reads, or has the number of its answer.                        *)
AReading(e) == e = Analysis(e.q, e.todo, e.seen, e.blind, e.lasting, e.met)
AskerInv(e, S) ==
    \/ e = NotAsking
    \/ AReading(e) /\ (Advises(e.q) => Investigating(e, S))
    \/ e = [at |-> "publish", n |-> e.n] /\ e.n \in DOMAIN answers /\ e.n \notin Range(published)
    \/ e = [at |-> "answered", n |-> e.n] /\ e.n \in DOMAIN answers /\ e.n \in Range(published)
AskingInv ==
    /\ asking = [a \in Asker |-> asking[a]]
    /\ \A a \in Asker : AskerInv(asking[a], held)
    /\ \A a, b \in Asker : asking[a].at = "publish" /\ asking[b].at = "publish" /\ asking[a].n = asking[b].n => a = b

AnswerIsNew(s) ==
    LET kept == Range(s.evidence)
    IN  Advises(s.q) =>
            /\ \A l \in kept : \E o \in s.met :
                  /\ l = LeadOf(o) /\ WorthALead(o)
                  /\ Call("find_by_kind", "investigation") \notin s.blind => Unattended(o, Investigations(s.lasting))
            /\ \A o \in s.lasting :
                  WorthALead(o) /\ Unattended(o, Investigations(s.met)) /\ Call("find_by_kind", o.kind) \notin s.blind =>
                      \/ LeadOf(o) \in kept
                      \/ /\ Len(s.evidence) = OrElse(s.q.max, 5)
                         /\ \A l \in kept : l.score >= LeadOf(o).score
            /\ Len(s.evidence) <= OrElse(s.q.max, 5)
            /\ \A j, k \in DOMAIN s.evidence : j < k => s.evidence[j].score >= s.evidence[k].score
AnswersInv == IsSeq(answers) /\ \A n \in DOMAIN answers : AnswerIsNew(answers[n])

OfAnswer(o) == /\ o.label[2] \in DOMAIN answers
               /\ (o.kind = "decision_verdict") = (answers[o.label[2]].confidence >= ConfidentAt)
HeldInv == IsFiniteSet(held) /\ \A o \in held : o.label[1] = "answer" => OfAnswer(o)
PublishedInv ==
    /\ IsSeq(published) /\ Range(published) \subseteq DOMAIN answers
    /\ \A i, j \in DOMAIN published : published[i] = published[j] => i = j
ToldOf(e) == e.agg[2] \in Range(published) /\ answers[e.agg[2]].confidence >= ConfidentAt
HappenedInv == IsSeq(happened) /\ \A i \in DOMAIN happened : happened[i].agg[1] = "answer" => ToldOf(happened[i])

DecisionInv == AskingInv /\ AnswersInv /\ HeldInv /\ PublishedInv /\ HappenedInv

(* Each object that is worth a lead has a score.                           *)
LEMMA LeadsHaveScores ==
    ASSUME NEW o
    PROVE  LeadOf(o).score \in Int
BY DEF LeadOf, Lead, Severity

(* The advice of an investigation that heard of every kind.                *)
LEMMA AdviceIsNew ==
    ASSUME NEW e, NEW S, Advises(e.q), Investigating(e, S), e.todo = <<>>,
           NEW evidence \in EvidenceFor(e.q, e.seen),
           NEW s, s.q = e.q, s.evidence = evidence, s.blind = e.blind, s.lasting = e.lasting, s.met = e.met
    PROVE  AnswerIsNew(s)
<1> DEFINE n == OrElse(e.q.max, 5)
           found == CveLeads(e.seen) \cup OutageLeads(e.seen) \cup ThreatLeads(e.seen) \cup FindingLeads(e.seen)
<1>1. n \in Nat
    BY DecisionAssumption DEF OrElse, Investigating
<1>2. ASSUME NEW k \in Range(LeadKinds)
      PROVE  /\ KindSeen(e.seen, k) \subseteq {o \in e.met : o.kind = k}
             /\ Call("find_by_kind", k) \notin e.blind => {o \in e.lasting : o.kind = k} \subseteq KindSeen(e.seen, k)
    <2>1. Range(e.todo) = {}
        BY EmptyIsSeq DEF Range
    <2>2. Call("find_by_kind", k) \in DOMAIN e.seen /\ Call("find_by_kind", k)[2] = k
        BY <2>1 DEF Investigating, Call
    <2> QED BY <2>2 DEF Investigating, Heeded, OfThat, KindSeen
<1>3. {"cve_record", "investigation", "monitoring_change", "threat_intel", "finding"} \subseteq Range(LeadKinds)
    <2>1. /\ LeadKinds[1] = "cve_record" /\ LeadKinds[2] = "investigation" /\ LeadKinds[3] = "monitoring_change"
          /\ LeadKinds[4] = "threat_intel" /\ LeadKinds[5] = "finding" /\ DOMAIN LeadKinds = 1..5
        BY DEF LeadKinds
    <2> QED BY <2>1 DEF Range
<1>4. Investigations(e.met) = {o \in e.met : o.kind = "investigation"}
      /\ Investigations(e.lasting) = {o \in e.lasting : o.kind = "investigation"}
    BY DEF Investigations
<1>5. PICK t : t \in Listed(found, LeadKinds) /\ evidence = Best([i \in DOMAIN t |-> LeadOf(t[i])], n)
    BY DEF EvidenceFor, Advises, Leads
<1> DEFINE u == [i \in DOMAIN t |-> LeadOf(t[i])]
<1>6. ASSUME NEW o \in found
      PROVE  /\ o \in e.met /\ WorthALead(o)
             /\ Unattended(o, KindSeen(e.seen, "investigation"))
    <2>1. CASE o \in CveLeads(e.seen)
        BY <1>2, <1>3, <2>1 DEF CveLeads, WorthALead, Unattended
    <2>2. CASE o \in OutageLeads(e.seen)
        BY <1>2, <1>3, <2>2 DEF OutageLeads, WorthALead, Unattended
    <2>3. CASE o \in ThreatLeads(e.seen)
        BY <1>2, <1>3, <2>3 DEF ThreatLeads, WorthALead, Unattended
    <2>4. CASE o \in FindingLeads(e.seen)
        BY <1>2, <1>3, <2>4 DEF FindingLeads, WorthALead, Unattended
    <2> QED BY <2>1, <2>2, <2>3, <2>4
<1>7. IsSeq(t) /\ Range(t) = found
    <2>1. found \subseteq e.met
        BY <1>6
    <2>2. IsFiniteSet(found)
        BY <2>1, FS_Subset DEF Investigating
    <2> HIDE DEF found
    <2> QED BY <1>5, <2>2, ListedHolds
<1> HIDE DEF found
<1>8. IsList(u)
    <2> DEFINE R == {LeadOf(t[i]) : i \in DOMAIN t}
    <2>1. Len(t) \in Nat /\ DOMAIN t = 1..Len(t)
        BY <1>7, LenProperties DEF IsSeq
    <2>2. u \in Seq(R)
        BY <2>1
    <2> HIDE DEF R
    <2>3. IsSeq(u)
        BY <2>2 DEF IsSeq
    <2> QED BY <2>3, LeadsHaveScores DEF IsList
<1>9. IsBest(evidence, u, n)
    <2> HIDE DEF u, n
    <2> QED BY <1>1, <1>5, <1>8, BestIsBest DEF u
<1>10. ASSUME NEW l \in Range(evidence)
       PROVE  \E o \in found : l = LeadOf(o)
    <2>1. PICK i \in DOMAIN u : l = u[i]
        BY <1>9 DEF IsBest, Range
    <2> QED BY <1>7, <2>1 DEF Range
<1>11. ASSUME NEW l \in Range(evidence)
       PROVE  \E o \in e.met :
                /\ l = LeadOf(o) /\ WorthALead(o)
                /\ Call("find_by_kind", "investigation") \notin e.blind => Unattended(o, Investigations(e.lasting))
    <2>1. PICK o \in found : l = LeadOf(o)
        BY <1>10
    <2>2. ASSUME Call("find_by_kind", "investigation") \notin e.blind PROVE Unattended(o, Investigations(e.lasting))
        <3>1. Investigations(e.lasting) \subseteq KindSeen(e.seen, "investigation")
            BY <1>2, <1>3, <1>4, <2>2
        <3> QED BY <1>6, <3>1 DEF Unattended, Investigated
    <2> QED BY <1>6, <2>1, <2>2
<1>12. ASSUME NEW o \in e.lasting, WorthALead(o), Unattended(o, Investigations(e.met)),
              Call("find_by_kind", o.kind) \notin e.blind
       PROVE  o \in found
    <2>1. o.kind \in Range(LeadKinds)
        BY <1>3, <1>12 DEF WorthALead
    <2>2. o \in KindSeen(e.seen, o.kind)
        BY <1>2, <1>12, <2>1
    <2>3. KindSeen(e.seen, "investigation") \subseteq Investigations(e.met)
        BY <1>2, <1>3, <1>4
    <2>4. Unattended(o, KindSeen(e.seen, "investigation"))
        BY <1>12, <2>3 DEF Unattended, Investigated
    <2>5. CASE o.kind = "cve_record"
        BY <1>12, <2>2, <2>4, <2>5 DEF WorthALead, Unattended, CveLeads, found
    <2>6. CASE o.kind = "monitoring_change"
        BY <1>12, <2>2, <2>6 DEF WorthALead, OutageLeads, found
    <2>7. CASE o.kind = "threat_intel"
        BY <1>12, <2>2, <2>4, <2>7 DEF WorthALead, Unattended, ThreatLeads, found
    <2>8. CASE o.kind = "finding"
        BY <1>12, <2>2, <2>8 DEF WorthALead, FindingLeads, found
    <2> QED BY <1>12, <2>5, <2>6, <2>7, <2>8 DEF WorthALead
<1>13. ASSUME NEW o \in found
       PROVE  LeadOf(o) \in Range(evidence)
              \/ (Len(evidence) = n /\ \A l \in Range(evidence) : l.score >= LeadOf(o).score)
    <2>1. PICK i \in DOMAIN t : t[i] = o
        BY <1>7 DEF Range
    <2>2. LeadOf(o) \in Range(u)
        BY <2>1 DEF Range
    <2> QED BY <1>9, <2>2 DEF IsBest
<1> HIDE DEF n, u
<1>14. Len(evidence) <= n /\ \A j, k \in DOMAIN evidence : j < k => evidence[j].score >= evidence[k].score
    BY <1>9 DEF IsBest
<1>15. n = OrElse(s.q.max, 5)
    BY DEF n
<1> QED BY <1>11, <1>12, <1>13, <1>14, <1>15 DEF AnswerIsNew

(* Others write: an investigation meets what is held now, and what is gone *)
(* no longer lasts.                                                        *)
LEMMA OthersMeet ==
    ASSUME AskingInv, NEW a \in Asker, NEW now, IsFiniteSet(now)
    PROVE  /\ AskerInv(Watched(now)[a], now)
           /\ Watched(now)[a].at = asking[a].at /\ (asking[a].at = "publish" => Watched(now)[a].n = asking[a].n)
<1> DEFINE e == asking[a]
           f == Analysis(e.q, e.todo, e.seen, e.blind, e.lasting \cap now, e.met \cup now)
<1>1. AskerInv(e, held) /\ Watched(now)[a] = IF e.at = "read" /\ Advises(e.q) THEN f ELSE e
    BY DEF AskingInv, Watched
<1> HIDE DEF e
<1>2. CASE e.at = "read" /\ Advises(e.q)
    <2>1. AReading(e) /\ Investigating(e, held)
        BY <1>1, <1>2 DEF AskerInv, NotAsking
    <2>2. f = Analysis(f.q, f.todo, f.seen, f.blind, f.lasting, f.met)
        BY DEF Analysis
    <2>3. /\ f.q = e.q /\ f.todo = e.todo /\ f.seen = e.seen /\ f.blind = e.blind /\ f.at = "read"
          /\ f.lasting = e.lasting \cap now /\ f.met = e.met \cup now
        BY DEF Analysis
    <2> HIDE DEF f
    <2>4. IsFiniteSet(f.met)
        BY <2>1, <2>3, FS_Union DEF Investigating
    <2>5. \A c \in DOMAIN f.seen : Heeded(f, c)
        BY <2>1, <2>3 DEF Investigating, Heeded, OfThat
    <2>6. Investigating(f, now)
        BY <2>1, <2>3, <2>4, <2>5 DEF Investigating
    <2>7. AReading(f)
        BY <2>2, <2>3 DEF AReading
    <2>8. Watched(now)[a] = f
        BY <1>1, <1>2
    <2>9. AskerInv(f, now) /\ f.at = e.at /\ e.at # "publish"
        BY <1>2, <2>3, <2>6, <2>7 DEF AskerInv
    <2> QED BY <2>8, <2>9 DEF e
<1>3. CASE ~ (e.at = "read" /\ Advises(e.q))
    <2>1. AReading(e) => e.at = "read"
        BY DEF AReading, Analysis
    <2>2. AskerInv(e, now)
        BY <1>1, <1>3, <2>1 DEF AskerInv
    <2> QED BY <1>1, <1>3, <2>2 DEF e
<1> QED BY <1>1, <1>2, <1>3 DEF e

LEMMA WritesKeepDecision ==
    ASSUME DecisionInv, NEW now, ObjectsBecome(now), IsFiniteSet(now),
           \A o \in now : o \in held \/ o.label[1] # "answer"
    PROVE  DecisionInv'
<1>1. held' = now /\ asking' = Watched(now) /\ UNCHANGED <<happened, answers, published>>
    BY DEF ObjectsBecome
<1>2. AskingInv'
    <2>1. asking' = [a \in Asker |-> asking'[a]]
        BY <1>1 DEF Watched
    <2>2. ASSUME NEW a \in Asker
          PROVE  /\ AskerInv(asking[a], held)' /\ asking'[a].at = asking[a].at
                 /\ asking[a].at = "publish" => asking'[a].n = asking[a].n
        BY <1>1, OthersMeet DEF DecisionInv, AskerInv, Investigating, Heeded, OfThat, AReading, NotAsking
    <2> QED BY <2>1, <2>2 DEF DecisionInv, AskingInv
<1>3. HeldInv'
    BY <1>1 DEF DecisionInv, HeldInv, OfAnswer
<1>4. AnswersInv' /\ PublishedInv' /\ HappenedInv'
    BY <1>1 DEF DecisionInv, AnswersInv, PublishedInv, HappenedInv, ToldOf
<1> QED BY <1>2, <1>3, <1>4 DEF DecisionInv

(* A caller goes on while nothing but its own state changes.               *)
LEMMA AskerMoves ==
    ASSUME AskingInv, NEW a \in Asker, NEW e, asking' = [asking EXCEPT ![a] = e],
           UNCHANGED <<held, answers, published>>, AskerInv(e, held), e.at # "publish"
    PROVE  AskingInv'
<1>1. /\ asking' = [b \in Asker |-> asking'[b]] /\ asking'[a] = e
      /\ \A b \in Asker : b # a => asking'[b] = asking[b]
    BY DEF AskingInv
<1>2. ASSUME NEW b \in Asker PROVE AskerInv(asking[b], held)'
    <2>1. AskerInv(asking'[b], held)
        BY <1>1 DEF AskingInv
    <2> QED BY <2>1 DEF AskerInv, Investigating, Heeded, OfThat, AReading, NotAsking
<1> QED BY <1>1, <1>2 DEF AskingInv

LEMMA HeardKeeps ==
    ASSUME NEW e, AReading(e), e.todo # <<>>, NEW reply, NEW blind,
           Advises(e.q) => /\ Investigating(e, held)
                           /\ reply \subseteq {o \in held : o.kind = Head(e.todo)[2]}
                           /\ Head(e.todo) \notin blind => reply = {o \in held : o.kind = Head(e.todo)[2]}
    PROVE  AskerInv(Heard(e, reply, blind), held) /\ Heard(e, reply, blind).at = "read"
<1> DEFINE c == Head(e.todo)
           f == Heard(e, reply, blind)
<1>1. f = Analysis(f.q, f.todo, f.seen, f.blind, f.lasting, f.met)
    BY DEF Heard, Analysis
<1>2. /\ f.q = e.q /\ f.todo = Further(e.q, c, reply, Tail(e.todo), e.seen) /\ f.blind = e.blind \cup blind /\ f.at = "read"
      /\ f.seen = [x \in DOMAIN e.seen \cup {c} |-> IF x = c THEN reply ELSE e.seen[x]]
      /\ f.lasting = e.lasting /\ f.met = e.met
    BY DEF Heard, Analysis
<1> HIDE DEF f
<1>3. AReading(f)
    BY <1>1, <1>2 DEF AReading
<1>4. ASSUME Advises(e.q) PROVE Investigating(f, held)
    <2>1. Investigating(e, held) /\ IsSeq(e.todo)
        BY <1>4 DEF Investigating
    <2>2. c \in Range(e.todo) /\ IsSeq(Tail(e.todo)) /\ Range(Tail(e.todo)) \cup {c} = Range(e.todo)
        <3>1. PICK T : e.todo \in Seq(T)
            BY <2>1 DEF IsSeq
        <3>2. /\ Len(e.todo) \in Nat /\ Len(e.todo) > 0 /\ DOMAIN e.todo = 1..Len(e.todo) /\ c = e.todo[1]
            BY <3>1, LenProperties, EmptySeq
        <3>3. /\ Tail(e.todo) \in Seq(T) /\ DOMAIN Tail(e.todo) = 1..(Len(e.todo) - 1)
              /\ \A i \in 1..(Len(e.todo) - 1) : Tail(e.todo)[i] = e.todo[i + 1]
            BY <3>1, <3>2
        <3>4. \A i \in 1..Len(e.todo) : i = 1 \/ (i - 1 \in 1..(Len(e.todo) - 1) /\ (i - 1) + 1 = i)
            BY <3>2
        <3>5. \A i \in 1..(Len(e.todo) - 1) : i + 1 \in 1..Len(e.todo)
            BY <3>2
        <3>6. IsSeq(Tail(e.todo))
            BY <3>3 DEF IsSeq
        <3>7. c \in Range(e.todo)
            BY <3>2 DEF Range
        <3>8. \A x \in Range(Tail(e.todo)) : x \in Range(e.todo)
            BY <3>2, <3>3, <3>5 DEF Range
        <3>9. ASSUME NEW i \in 1..Len(e.todo) PROVE e.todo[i] \in Range(Tail(e.todo)) \cup {c}
            <4>1. CASE i = 1
                BY <3>2, <4>1
            <4>2. CASE i # 1
                <5>1. i - 1 \in DOMAIN Tail(e.todo) /\ Tail(e.todo)[i - 1] = e.todo[i]
                    BY <3>3, <3>4, <4>2
                <5> QED BY <5>1 DEF Range
            <4> QED BY <4>1, <4>2
        <3>10. \A x \in Range(e.todo) : x \in Range(Tail(e.todo)) \cup {c}
            BY <3>2, <3>9 DEF Range
        <3> HIDE DEF c
        <3> QED BY <3>6, <3>7, <3>8, <3>10
    <2>3. f.todo = Tail(e.todo)
        <3>1. c[1] = "find_by_kind"
            BY <2>1, <2>2 DEF Investigating
        <3> HIDE DEF c
        <3> QED BY <1>2, <3>1 DEF Further
    <2>4. DOMAIN f.seen = DOMAIN e.seen \cup {c}
        BY <1>2
    <2>5. ASSUME NEW x \in DOMAIN f.seen PROVE Heeded(f, x)
        <3>1. CASE x = c
            <4>1. f.seen[x] = reply
                BY <1>2, <3>1
            <4>2. reply \subseteq OfThat(f.met, x) /\ (c \notin blind => OfThat(f.lasting, x) \subseteq reply)
                BY <1>2, <1>4, <2>1, <3>1 DEF Investigating, OfThat
            <4> QED BY <1>2, <3>1, <4>1, <4>2 DEF Heeded
        <3>2. CASE x # c
            <4>1. f.seen[x] = e.seen[x] /\ x \in DOMAIN e.seen
                BY <1>2, <2>4, <3>2
            <4> QED BY <1>2, <2>1, <4>1 DEF Heeded, Investigating
        <3> QED BY <3>1, <3>2
    <2> QED BY <1>2, <2>1, <2>2, <2>3, <2>4, <2>5 DEF Investigating
<1> QED BY <1>2, <1>3, <1>4 DEF AskerInv, f

LEMMA ReadKeepsDecision ==
    ASSUME DecisionInv, NEW a \in Asker, ReadKernel(a) \/ ReadFails(a)
    PROVE  DecisionInv'
<1> DEFINE e == asking[a]
           c == Head(e.todo)
<1>1. e.at = "read" /\ e.todo # <<>> /\ UNCHANGED <<held, made, writes, happened, answers, published>>
    BY DEF ReadKernel, ReadFails
<1>2. AReading(e) /\ (Advises(e.q) => Investigating(e, held))
    BY <1>1 DEF DecisionInv, AskingInv, AskerInv, NotAsking
<1>3. Advises(e.q) => c[1] = "find_by_kind"
    <2> SUFFICES ASSUME Advises(e.q) PROVE c[1] = "find_by_kind"
        OBVIOUS
    <2>1. Investigating(e, held) /\ IsSeq(e.todo)
        BY <1>2 DEF Investigating
    <2>2. PICK T : e.todo \in Seq(T)
        BY <2>1 DEF IsSeq
    <2>3. 1 \in DOMAIN e.todo /\ c = e.todo[1]
        BY <1>1, <2>2, LenProperties, EmptySeq
    <2>4. c \in Range(e.todo)
        BY <2>3 DEF Range
    <2> QED BY <2>1, <2>4 DEF Investigating
<1>4. \E f : asking' = [asking EXCEPT ![a] = f] /\ AskerInv(f, held) /\ f.at # "publish"
    <2>1. CASE ReadKernel(a)
        <3>1. PICK reply \in Replies(c) : asking' = [asking EXCEPT ![a] = Heard(asking[a], reply, {})]
            BY <2>1 DEF ReadKernel
        <3>2. Advises(e.q) => reply = {o \in held : o.kind = c[2]}
            <4> SUFFICES ASSUME Advises(e.q) PROVE reply = {o \in held : o.kind = c[2]}
                OBVIOUS
            <4>1. Replies(c) = {OfKind(c[2])}
                <5>1. c[1] = "find_by_kind"
                    BY <1>3
                <5> HIDE DEF c
                <5> QED BY <5>1 DEF Replies
            <4> QED BY <3>1, <4>1 DEF OfKind
        <3>3. AskerInv(Heard(e, reply, {}), held) /\ Heard(e, reply, {}).at = "read"
            <4> HIDE DEF e
            <4> QED BY <1>1, <1>2, <3>2, HeardKeeps DEF e
        <3> QED BY <3>1, <3>3
    <2>2. CASE ReadFails(a)
        <3>1. asking' = [asking EXCEPT ![a] = IF c[1] = "read_all" THEN NotAsking
                                              ELSE Heard(asking[a], Failure(c), {c})]
            BY <2>2 DEF ReadFails
        <3>2. CASE c[1] = "read_all"
            <4>1. asking' = [asking EXCEPT ![a] = NotAsking]
                BY <3>1, <3>2
            <4>2. AskerInv(NotAsking, held) /\ NotAsking.at # "publish"
                BY DEF AskerInv, NotAsking
            <4> QED BY <4>1, <4>2
        <3>3. CASE c[1] # "read_all"
            <4>1. Advises(e.q) => Failure(c) = {}
                <5>1. Advises(e.q) => c[1] = "find_by_kind"
                    BY <1>3
                <5> HIDE DEF c
                <5> QED BY <5>1 DEF Failure
            <4>2. AskerInv(Heard(e, Failure(c), {c}), held) /\ Heard(e, Failure(c), {c}).at = "read"
                <5> HIDE DEF e
                <5> QED BY <1>1, <1>2, <4>1, HeardKeeps DEF e
            <4> QED BY <3>1, <3>3, <4>2
        <3> QED BY <3>2, <3>3
    <2> QED BY <2>1, <2>2
<1>5. AskingInv'
    BY <1>1, <1>4, AskerMoves DEF DecisionInv
<1>6. AnswersInv' /\ HeldInv' /\ PublishedInv' /\ HappenedInv'
    BY <1>1 DEF DecisionInv, AnswersInv, HeldInv, OfAnswer, PublishedInv, HappenedInv, ToldOf
<1> QED BY <1>5, <1>6 DEF DecisionInv

(* A decision is appended, about an answer that was told or about another. *)
LEMMA EventsKeepHappened ==
    ASSUME HappenedInv, NEW e, happened' = happened \/ happened' = Append(happened, e),
           UNCHANGED <<answers, published>>, e.agg[1] = "answer" => ToldOf(e)
    PROVE  HappenedInv'
<1>1. CASE happened' = happened
    BY <1>1 DEF HappenedInv, ToldOf
<1>2. CASE happened' = Append(happened, e)
    <2>1. /\ IsSeq(happened') /\ happened'[Len(happened) + 1] = e
          /\ DOMAIN happened' = DOMAIN happened \cup {Len(happened) + 1}
          /\ \A i \in DOMAIN happened : happened'[i] = happened[i]
        BY <1>2, AppendFacts DEF HappenedInv
    <2>2. ASSUME NEW i \in DOMAIN happened', happened'[i].agg[1] = "answer" PROVE ToldOf(happened'[i])
        <3>1. CASE i = Len(happened) + 1
            BY <2>1, <2>2, <3>1
        <3>2. CASE i \in DOMAIN happened
            BY <2>1, <2>2, <3>2 DEF HappenedInv
        <3> QED BY <2>1, <3>1, <3>2
    <2> QED BY <2>1, <2>2 DEF HappenedInv, ToldOf
<1> QED BY <1>1, <1>2

LEMMA RecordKeepsDecision ==
    ASSUME DecisionInv, NEW a \in Asker, RecordAnswer(a)
    PROVE  DecisionInv'
<1> DEFINE e == asking[a]
           n == Len(answers) + 1
<1>1. e.at = "read" /\ e.todo = <<>> /\ UNCHANGED <<writes, happened, published>>
    BY DEF RecordAnswer
<1>2. PICK evidence \in EvidenceFor(e.q, e.seen) :
          \E now \in {held, held \cup {AnswerRecord(n, Confidence(e.q, evidence))}} :
                /\ held' = now
                /\ answers' = Append(answers, [q |-> e.q, evidence |-> evidence,
                                               confidence |-> Confidence(e.q, evidence),
                                               blind |-> e.blind, lasting |-> e.lasting, met |-> e.met])
                /\ asking' = [Watched(now) EXCEPT ![a] = [at |-> "publish", n |-> n]]
    BY DEF RecordAnswer
<1> DEFINE s == [q |-> e.q, evidence |-> evidence, confidence |-> Confidence(e.q, evidence),
                 blind |-> e.blind, lasting |-> e.lasting, met |-> e.met]
           o == AnswerRecord(n, Confidence(e.q, evidence))
<1>3. AReading(e) /\ (Advises(e.q) => Investigating(e, held))
    BY <1>1 DEF DecisionInv, AskingInv, AskerInv, NotAsking
<1>4. AnswerIsNew(s)
    <2>1. CASE Advises(e.q)
        <3>1. /\ s.q = e.q /\ s.evidence = evidence /\ s.blind = e.blind /\ s.lasting = e.lasting /\ s.met = e.met
            OBVIOUS
        <3> HIDE DEF s, e
        <3> QED BY <1>1, <1>2, <1>3, <2>1, <3>1, AdviceIsNew
    <2>2. CASE ~ Advises(e.q)
        BY <2>2 DEF AnswerIsNew
    <2> QED BY <2>1, <2>2
<1>5. /\ IsSeq(answers') /\ answers'[n] = s /\ n \in Nat /\ n \notin DOMAIN answers
      /\ DOMAIN answers' = DOMAIN answers \cup {n} /\ \A i \in DOMAIN answers : answers'[i] = answers[i]
    <2> HIDE DEF s
    <2>1. IsSeq(answers) /\ answers' = Append(answers, s)
        BY <1>2 DEF DecisionInv, AnswersInv, s
    <2> QED BY <2>1, AppendFacts
<1>6. AnswersInv'
    <2> HIDE DEF s, n
    <2> QED BY <1>4, <1>5 DEF DecisionInv, AnswersInv
<1>7. PICK now \in {held, held \cup {o}} : held' = now /\ asking' = [Watched(now) EXCEPT ![a] = [at |-> "publish", n |-> n]]
    BY <1>2
<1>8. IsFiniteSet(now)
    BY <1>7, FS_AddElement DEF DecisionInv, HeldInv
<1>9. HeldInv'
    <2>1. /\ o.label[1] = "answer" /\ o.label[2] = n
          /\ (o.kind = "decision_verdict") = (answers'[n].confidence >= ConfidentAt)
        <3>1. answers'[n].confidence = Confidence(e.q, evidence)
            BY <1>5
        <3>2. o.label = <<"answer", n>> /\ o.kind = IF Confidence(e.q, evidence) >= ConfidentAt
                                                    THEN "decision_verdict" ELSE "decision_finding"
            BY DEF AnswerRecord
        <3> HIDE DEF o
        <3> QED BY <3>1, <3>2
    <2> HIDE DEF o, n, s, e
    <2>2. ASSUME NEW x \in now, x.label[1] = "answer"
          PROVE  /\ x.label[2] \in DOMAIN answers'
                 /\ (x.kind = "decision_verdict") = (answers'[x.label[2]].confidence >= ConfidentAt)
        <3>1. CASE x \in held
            BY <1>5, <2>2, <3>1 DEF DecisionInv, HeldInv, OfAnswer
        <3>2. CASE x = o
            BY <1>5, <2>1, <3>2
        <3> QED BY <1>7, <3>1, <3>2
    <2> QED BY <1>7, <1>8, <2>2 DEF HeldInv, OfAnswer
<1>10. n \notin Range(published)
    BY <1>5 DEF DecisionInv, PublishedInv
<1>11. AskingInv'
    <2> HIDE DEF n, e, s, o
    <2>1. /\ asking' = [b \in Asker |-> asking'[b]] /\ asking'[a] = [at |-> "publish", n |-> n]
          /\ \A b \in Asker : b # a => asking'[b] = Watched(now)[b]
        BY <1>7 DEF Watched
    <2>2. ASSUME NEW b \in Asker, b # a
          PROVE  /\ AskerInv(asking'[b], now) /\ asking'[b].at = asking[b].at
                 /\ asking[b].at = "publish" => asking'[b].n = asking[b].n /\ asking[b].n \in DOMAIN answers
        <3>1. /\ AskerInv(asking'[b], now) /\ asking'[b].at = asking[b].at
              /\ asking[b].at = "publish" => asking'[b].n = asking[b].n
            BY <1>8, <2>1, <2>2, OthersMeet DEF DecisionInv
        <3>2. asking[b].at = "publish" => asking[b].n \in DOMAIN answers
            BY DEF DecisionInv, AskingInv, AskerInv, AReading, Analysis, NotAsking
        <3> QED BY <3>1, <3>2
    <2>3. ASSUME NEW b \in Asker PROVE AskerInv(asking[b], held)'
        <3>1. CASE b = a
            BY <1>1, <1>5, <1>10, <2>1, <3>1 DEF AskerInv
        <3>2. CASE b # a
            <4>1. AskerInv(asking'[b], held')
                BY <1>7, <2>2, <3>2
            <4> QED BY <1>1, <1>5, <4>1 DEF AskerInv, Investigating, Heeded, OfThat, AReading, NotAsking
        <3> QED BY <3>1, <3>2
    <2>4. ASSUME NEW b \in Asker, NEW c \in Asker, asking'[b].at = "publish", asking'[c].at = "publish",
                 asking'[b].n = asking'[c].n
          PROVE  b = c
        BY <1>5, <2>1, <2>2, <2>4 DEF DecisionInv, AskingInv
    <2> QED BY <2>1, <2>3, <2>4 DEF AskingInv
<1>12. PublishedInv' /\ HappenedInv'
    <2> HIDE DEF n, s
    <2> QED BY <1>1, <1>5 DEF DecisionInv, PublishedInv, HappenedInv, ToldOf
<1> QED BY <1>6, <1>9, <1>11, <1>12 DEF DecisionInv

LEMMA PublishKeepsDecision ==
    ASSUME DecisionInv, NEW a \in Asker, PublishAnswer(a)
    PROVE  DecisionInv'
<1> DEFINE n == asking[a].n
           L == Len(published) + 1
<1>1. /\ asking[a].at = "publish" /\ published' = Append(published, n)
      /\ asking' = [asking EXCEPT ![a] = [asking[a] EXCEPT !.at = "answered"]]
      /\ UNCHANGED <<held, made, writes, happened, answers>>
    BY DEF PublishAnswer
<1>2. asking[a] = [at |-> "publish", n |-> n] /\ n \in DOMAIN answers /\ n \notin Range(published)
    BY <1>1 DEF DecisionInv, AskingInv, AskerInv, AReading, Analysis, NotAsking
<1>3. asking' = [asking EXCEPT ![a] = [at |-> "answered", n |-> n]]
    <2> HIDE DEF n
    <2>1. [asking[a] EXCEPT !.at = "answered"] = [at |-> "answered", n |-> n]
        BY <1>2
    <2> QED BY <1>1, <2>1
<1>4. /\ IsSeq(published') /\ published'[L] = n /\ DOMAIN published' = DOMAIN published \cup {L}
      /\ \A i \in DOMAIN published : published'[i] = published[i]
    <2> HIDE DEF n
    <2> QED BY <1>1, AppendFacts DEF DecisionInv, PublishedInv
<1> HIDE DEF n, L
<1>5. Range(published') = Range(published) \cup {n}
    BY <1>4 DEF Range
<1>6. PublishedInv'
    <2>1. \A i, j \in DOMAIN published' : published'[i] = published'[j] => i = j
        BY <1>2, <1>4 DEF DecisionInv, PublishedInv, Range
    <2> QED BY <1>1, <1>2, <1>4, <1>5, <2>1 DEF DecisionInv, PublishedInv
<1>7. AskingInv'
    <2>1. /\ asking' = [b \in Asker |-> asking'[b]] /\ asking'[a] = [at |-> "answered", n |-> n]
          /\ \A b \in Asker : b # a => asking'[b] = asking[b]
        BY <1>3 DEF DecisionInv, AskingInv
    <2>2. ASSUME NEW b \in Asker PROVE AskerInv(asking[b], held)'
        <3>1. CASE b = a
            BY <1>1, <1>2, <1>5, <2>1, <3>1 DEF AskerInv
        <3>2. CASE b # a
            <4>1. AskerInv(asking[b], held) /\ asking'[b] = asking[b]
                BY <2>1, <3>2 DEF DecisionInv, AskingInv
            <4>2. asking[b].at = "publish" => asking[b].n # n
                BY <1>1, <3>2 DEF DecisionInv, AskingInv, n
            <4> QED BY <1>1, <1>5, <4>1, <4>2 DEF AskerInv, Investigating, Heeded, OfThat, AReading, NotAsking
        <3> QED BY <3>1, <3>2
    <2> QED BY <2>1, <2>2 DEF DecisionInv, AskingInv
<1>8. AnswersInv' /\ HeldInv' /\ HappenedInv'
    BY <1>1, <1>5 DEF DecisionInv, AnswersInv, HeldInv, OfAnswer, HappenedInv, ToldOf
<1> QED BY <1>6, <1>7, <1>8 DEF DecisionInv

LEMMA DecisionInductive == DecisionInv /\ [DecisionNext]_decisionVars => DecisionInv'
<1> SUFFICES ASSUME DecisionInv, [DecisionNext]_decisionVars PROVE DecisionInv'
    OBVIOUS
<1>1. ASSUME NEW o \in Item, CreateObject(o) PROVE DecisionInv'
    <2>1. ObjectsBecome(held \cup {o}) /\ o.label[1] # "answer"
        BY <1>1, DecisionAssumption DEF CreateObject
    <2>2. IsFiniteSet(held \cup {o})
        BY FS_AddElement DEF DecisionInv, HeldInv
    <2> QED BY <2>1, <2>2, WritesKeepDecision
<1>2. ASSUME NEW o \in Item, UpdateObject(o) PROVE DecisionInv'
    <2>1. PICK p \in held : ObjectsBecome((held \ {p}) \cup {o})
        BY <1>2 DEF UpdateObject
    <2>2. IsFiniteSet(held \ {p})
        BY FS_Subset DEF DecisionInv, HeldInv
    <2>3. IsFiniteSet((held \ {p}) \cup {o}) /\ o.label[1] # "answer"
        BY <2>2, FS_AddElement, DecisionAssumption
    <2> QED BY <2>1, <2>3, WritesKeepDecision
<1>3. ASSUME NEW o \in held, DeleteObject(o) PROVE DecisionInv'
    <2>1. ObjectsBecome(held \ {o}) /\ IsFiniteSet(held \ {o})
        BY <1>3, FS_Subset DEF DecisionInv, HeldInv, DeleteObject
    <2> QED BY <2>1, WritesKeepDecision
<1>4. ASSUME UNCHANGED <<held, asking, answers, published>>
      PROVE  AskingInv' /\ AnswersInv' /\ HeldInv' /\ PublishedInv'
    BY <1>4 DEF DecisionInv, AskingInv, AskerInv, Investigating, Heeded, OfThat, AReading, NotAsking,
                AnswersInv, HeldInv, OfAnswer, PublishedInv
<1>5. ASSUME NEW e \in Happening, Happen(e) PROVE DecisionInv'
    <2>1. HappenedInv'
        BY <1>5, EventsKeepHappened, DecisionAssumption DEF Happen, DecisionInv
    <2> QED BY <1>4, <1>5, <2>1 DEF Happen, DecisionInv
<1>6. ASSUME NEW c \in OwnConfidence, EmitOwn(c) PROVE DecisionInv'
    <2>1. HappenedInv'
        <3> DEFINE d == [agg |-> <<"own", 0>>, type |-> "Decision", what |-> "Made", at |-> 0]
        <3>1. (happened' = happened \/ happened' = Append(happened, d)) /\ UNCHANGED <<answers, published>>
            BY <1>6 DEF EmitOwn, Emitted
        <3>2. d.agg[1] # "answer"
            OBVIOUS
        <3> HIDE DEF d
        <3> QED BY <3>1, <3>2, EventsKeepHappened DEF DecisionInv
    <2> QED BY <1>4, <1>6, <2>1 DEF EmitOwn, DecisionInv
<1>7. ASSUME NEW a \in Asker, NEW q \in Questions, Ask(a, q) PROVE DecisionInv'
    <2> DEFINE start == IF Advises(q) THEN held ELSE {}
               e == Analysis(q, Reads(q), <<>>, {}, start, start)
    <2>1. asking' = [asking EXCEPT ![a] = e] /\ UNCHANGED <<held, made, writes, happened, answers, published>>
        BY <1>7 DEF Ask
    <2>2. /\ e.q = q /\ e.todo = Reads(q) /\ e.seen = <<>> /\ e.blind = {} /\ e.lasting = start /\ e.met = start
          /\ e.at = "read"
        BY DEF Analysis
    <2>3. AReading(e)
        BY DEF AReading, Analysis
    <2>4. ASSUME Advises(q) PROVE Investigating(e, held)
        <3>1. Reads(q) = CallsFor("find_by_kind", LeadKinds)
            BY <2>4 DEF Reads, Advises
        <3>2. /\ DOMAIN Reads(q) = DOMAIN LeadKinds
              /\ \A i \in DOMAIN LeadKinds : Reads(q)[i] = Call("find_by_kind", LeadKinds[i])
            BY <3>1 DEF CallsFor
        <3>3. IsSeq(Reads(q))
            <4> DEFINE R == {Call("find_by_kind", LeadKinds[i]) : i \in 1..5}
            <4>1. DOMAIN LeadKinds = 1..5
                BY DEF LeadKinds
            <4>2. Reads(q) \in Seq(R)
                BY <3>1, <4>1 DEF CallsFor
            <4> HIDE DEF R
            <4> QED BY <4>2 DEF IsSeq
        <3>4. \A c \in Range(Reads(q)) : c[1] = "find_by_kind"
            BY <3>2 DEF Range, Call
        <3>5. \A k \in Range(LeadKinds) : Call("find_by_kind", k) \in Range(Reads(q))
            BY <3>2 DEF Range
        <3>6. DOMAIN e.seen = {}
            BY <2>2, EmptyIsSeq
        <3>7. e.lasting = held /\ e.met = held /\ IsFiniteSet(held)
            BY <2>2, <2>4 DEF DecisionInv, HeldInv
        <3> HIDE DEF e
        <3> QED BY <2>2, <3>3, <3>4, <3>5, <3>6, <3>7 DEF Investigating
    <2>5. AskerInv(e, held) /\ e.at # "publish"
        <3> HIDE DEF e
        <3> QED BY <2>2, <2>3, <2>4 DEF AskerInv
    <2>6. AskingInv'
        <3> HIDE DEF e
        <3> QED BY <2>1, <2>5, AskerMoves DEF DecisionInv
    <2> QED BY <2>1, <2>6 DEF DecisionInv, AnswersInv, HeldInv, OfAnswer, PublishedInv, HappenedInv, ToldOf
<1>8. ASSUME NEW a \in Asker, ReadKernel(a) PROVE DecisionInv'
    BY <1>8, ReadKeepsDecision
<1>9. ASSUME NEW a \in Asker, ReadFails(a) PROVE DecisionInv'
    BY <1>9, ReadKeepsDecision
<1>10. ASSUME NEW a \in Asker, RecordAnswer(a) PROVE DecisionInv'
    BY <1>10, RecordKeepsDecision
<1>11. ASSUME NEW a \in Asker, PublishAnswer(a) PROVE DecisionInv'
    BY <1>11, PublishKeepsDecision
<1>12. ASSUME NEW a \in Asker, asking' = [asking EXCEPT ![a] = NotAsking], UNCHANGED <<held, answers, published>>
       PROVE  AskingInv'
    <2>1. AskerInv(NotAsking, held) /\ NotAsking.at # "publish"
        BY DEF AskerInv, NotAsking
    <2> QED BY <1>12, <2>1, AskerMoves DEF DecisionInv
<1>13. ASSUME NEW a \in Asker, EmitDecision(a) PROVE DecisionInv'
    <2> DEFINE n == asking[a].n
               d == [agg |-> <<"answer", n>>, type |-> "Decision", what |-> "Made", at |-> 0]
    <2>1. n \in DOMAIN answers /\ n \in Range(published)
        BY <1>13 DEF EmitDecision, DecisionInv, AskingInv, AskerInv, AReading, Analysis, NotAsking
    <2>2. UNCHANGED <<held, made, writes, answers, published>> /\ asking' = [asking EXCEPT ![a] = NotAsking]
        BY <1>13 DEF EmitDecision
    <2>3. HappenedInv'
        <3>1. CASE ~ (answers[n].confidence >= ConfidentAt)
            <4>1. happened' = happened
                BY <1>13, <3>1 DEF EmitDecision, Emitted
            <4> QED BY <2>2, <4>1 DEF DecisionInv, HappenedInv, ToldOf
        <3>2. CASE answers[n].confidence >= ConfidentAt
            <4>1. happened' = Append(happened, d)
                BY <1>13, <3>2 DEF EmitDecision, Emitted
            <4>2. d.agg[2] = n
                OBVIOUS
            <4>3. ToldOf(d)
                BY <2>1, <3>2, <4>2 DEF ToldOf
            <4> HIDE DEF d
            <4> QED BY <2>2, <4>1, <4>3, EventsKeepHappened DEF DecisionInv
        <3> QED BY <3>1, <3>2
    <2> QED BY <1>12, <2>2, <2>3 DEF DecisionInv, AnswersInv, HeldInv, OfAnswer, PublishedInv
<1>14. ASSUME NEW a \in Asker, KeepAnswer(a) PROVE DecisionInv'
    BY <1>12, <1>14 DEF KeepAnswer, DecisionInv, AnswersInv, HeldInv, OfAnswer, PublishedInv, HappenedInv, ToldOf
<1>15. CASE UNCHANGED decisionVars
    BY <1>4, <1>15 DEF decisionVars, DecisionInv, HappenedInv, ToldOf
<1> QED BY <1>1, <1>2, <1>3, <1>5, <1>6, <1>7, <1>8, <1>9, <1>10, <1>11, <1>13, <1>14, <1>15 DEF DecisionNext

(* Whatever is created, updated, deleted and appended between two reads of *)
(* an analysis, and whichever of them fail: the leads of an investigation  *)
(* are about objects it met, none that an investigation lasting throughout *)
(* is about; what lasts and nobody investigates is not left out for less;  *)
(* the best come first; and messages and decisions are about answers made  *)
(* and told, these confident enough (analyzers/mod.rs InvestigateAnalyzer, *)
(* lib.rs analyze, emit_decision).                                         *)
THEOREM DecisionsRestOnRecords == DecisionSpec => []DecisionsAreBacked
<1>1. DecisionInit => DecisionInv
    <2> SUFFICES ASSUME DecisionInit PROVE DecisionInv
        OBVIOUS
    <2>1. AskingInv
        BY DEF DecisionInit, AskingInv, AskerInv, NotAsking
    <2>2. HeldInv
        BY FS_EmptySet DEF DecisionInit, HeldInv
    <2> QED BY <2>1, <2>2, EmptyIsSeq DEF DecisionInit, DecisionInv, AnswersInv, PublishedInv, HappenedInv, Range
<1>2. DecisionInv => DecisionsAreBacked
    <2> SUFFICES ASSUME DecisionInv PROVE DecisionsAreBacked
        OBVIOUS
    <2>1. LeadsAreNew /\ BestFirst
        BY DEF DecisionInv, AnswersInv, AnswerIsNew, LeadsAreNew, BestFirst
    <2>2. AnswersAreTold
        BY DEF DecisionInv, HeldInv, OfAnswer, PublishedInv, HappenedInv, ToldOf, AnswersAreTold
    <2> QED BY <2>1, <2>2 DEF DecisionsAreBacked
<1> QED BY <1>1, <1>2, DecisionInductive, PTL DEF DecisionSpec

-----------------------------------------------------------------------------
(* The temporal graph.  Intervals: the later start and the earlier end.    *)
LEMMA MaxOfTwo ==
    ASSUME NEW a \in Int, NEW b \in Int
    PROVE  Max({a, b}) = IF a >= b THEN a ELSE b
<1> DEFINE m == IF a >= b THEN a ELSE b
<1>1. m \in {a, b} /\ \A y \in {a, b} : m >= y
    OBVIOUS
<1>2. \A x \in {a, b} : (\A y \in {a, b} : x >= y) => x = m
    OBVIOUS
<1> QED BY <1>1, <1>2 DEF Max

LEMMA MinOfTwo ==
    ASSUME NEW a \in Int, NEW b \in Int
    PROVE  Min({a, b}) = IF a <= b THEN a ELSE b
<1> DEFINE m == IF a <= b THEN a ELSE b
<1>1. m \in {a, b} /\ \A y \in {a, b} : m <= y
    OBVIOUS
<1>2. \A x \in {a, b} : (\A y \in {a, b} : x <= y) => x = m
    OBVIOUS
<1> QED BY <1>1, <1>2 DEF Min

LEMMA IntervalsDoAgree == IntervalsAgree
<1> SUFFICES ASSUME NEW i \in Interval, NEW j \in Interval, NEW now \in Times, NEW tick \in 0..1
             PROVE  LET both == Intersection(i, j, now, now + tick)
                        In(k, t) == k # Nothing /\ Holds(k, t)
                    IN  /\ \A t \in Times : In(both, t) <=> Holds(i, t) /\ Holds(j, t)
                        /\ ~ IsEmpty(i) /\ ~ IsEmpty(j) => (Overlaps(i, j, now) <=> both # Nothing)
                        /\ Before(i, j) => ~ Overlaps(i, j, now)
                        /\ ContainsInterval(i, j) => \A t \in Times : Holds(j, t) => Holds(i, t)
    BY DEF IntervalsAgree
<1> DEFINE both == Intersection(i, j, now, now + tick)
           far(k) == IF k.end = Nothing THEN now + FarFuture ELSE k.end
           start == IF i.start >= j.start THEN i.start ELSE j.start
           end == IF far(i) <= far(j) THEN far(i) ELSE far(j)
<1>1. /\ i.start \in Nat /\ i.start < FarFuture /\ (i.end = Nothing \/ i.end \in Nat)
      /\ j.start \in Nat /\ j.start < FarFuture /\ (j.end = Nothing \/ j.end \in Nat)
      /\ now \in Nat /\ tick \in Nat /\ FarFuture \in Nat /\ Nothing \notin Nat
      /\ \A t \in Times : t \in Nat /\ t < FarFuture
    BY TemporalAssumption
<1>2. EndOrFar(i, now) = far(i) /\ EndOrFar(j, now) = far(j) /\ far(i) \in Nat /\ far(j) \in Nat
    BY <1>1 DEF EndOrFar
<1>3. start \in Nat /\ end \in Nat /\ Max({i.start, j.start}) = start /\ Min({EndOrFar(i, now), EndOrFar(j, now)}) = end
    BY <1>1, <1>2, MaxOfTwo, MinOfTwo
<1>4. both = IF start < end THEN [start |-> start, end |-> IF end >= now + tick + FarFuture THEN Nothing ELSE end]
             ELSE Nothing
    BY <1>3 DEF Intersection
<1>5. both # Nothing <=> start < end
    <2>1. ASSUME start < end PROVE both \in [start : Nat, end : Nat \cup {Nothing}]
        BY <1>3, <1>4, <2>1
    <2> QED BY <1>4, <2>1, TemporalAssumption
<1>6. ASSUME NEW t \in Times
      PROVE  both # Nothing /\ Holds(both, t) <=> Holds(i, t) /\ Holds(j, t)
    <2>0. t \in Nat /\ t < FarFuture
        BY <1>1
    <2>1. Holds(i, t) /\ Holds(j, t) <=> t >= start /\ t < end
        BY <1>1, <2>0 DEF Holds
    <2>2. ASSUME start < end PROVE Holds(both, t) <=> t >= start /\ t < end
        <3>1. both.start = start /\ both.end = IF end >= now + tick + FarFuture THEN Nothing ELSE end
            BY <1>4, <2>2
        <3>2. end # Nothing /\ now + tick + FarFuture > t
            BY <1>1, <1>3, <2>0
        <3> HIDE DEF start, end, both
        <3>3. CASE end >= now + tick + FarFuture
            BY <1>1, <1>3, <2>0, <3>1, <3>2, <3>3 DEF Holds
        <3>4. CASE ~ (end >= now + tick + FarFuture)
            BY <1>1, <1>3, <2>0, <3>1, <3>2, <3>4 DEF Holds
        <3> QED BY <3>3, <3>4
    <2>3. t >= start /\ t < end => start < end
        BY <1>3, <2>0
    <2> HIDE DEF start, end, both
    <2> QED BY <1>5, <2>1, <2>2, <2>3
<1>7. ASSUME ~ IsEmpty(i), ~ IsEmpty(j) PROVE Overlaps(i, j, now) <=> both # Nothing
    <2>1. i.start < far(i) /\ j.start < far(j)
        BY <1>1, <1>7 DEF IsEmpty
    <2>2. start < end <=> i.start < far(i) /\ j.start < far(j) /\ i.start < far(j) /\ j.start < far(i)
        BY <1>1, <1>2
    <2> HIDE DEF start, end, both, far
    <2> QED BY <1>2, <1>5, <2>1, <2>2 DEF Overlaps
<1>8. ASSUME Before(i, j) PROVE ~ Overlaps(i, j, now)
    BY <1>1, <1>2, <1>8 DEF Before, Overlaps
<1>9. ASSUME ContainsInterval(i, j), NEW t \in Times, Holds(j, t) PROVE Holds(i, t)
    BY <1>1, <1>9 DEF ContainsInterval, Holds
<1> HIDE DEF both
<1> QED BY <1>6, <1>7, <1>8, <1>9 DEF both

(* A difference of maps, of which finitely many entries are present.       *)
LEMMA DiffRebuilds ==
    ASSUME NEW S, NEW before, NEW after, DOMAIN before = S, DOMAIN after = S
    PROVE  Applied(before, DiffMaps(before, after)) = Attributes(after)
<1> DEFINE d == DiffMaps(before, after)
<1>1. /\ d.removed = Present(before) \ Present(after)
      /\ d.added = {<<x, after[x]>> : x \in Present(after) \ Present(before)}
      /\ d.modified = {<<x, after[x].attribute, before[x].interval # after[x].interval>> :
                          x \in {y \in Present(before) \cap Present(after) :
                                    \/ before[y].attribute # after[y].attribute
                                    \/ before[y].interval # after[y].interval}}
    BY DEF DiffMaps
<1> HIDE DEF d
<1>2. \A x : x \in Present(before) <=> x \in S /\ before[x] # Nothing
    BY DEF Present
<1>3. \A x : x \in Present(after) <=> x \in S /\ after[x] # Nothing
    BY DEF Present
<1> DEFINE value(x) == IF x \in d.removed THEN Nothing
                       ELSE IF \E p \in d.added : p[1] = x THEN (CHOOSE p \in d.added : p[1] = x)[2].attribute
                       ELSE IF \E p \in d.modified : p[1] = x THEN (CHOOSE p \in d.modified : p[1] = x)[2]
                       ELSE IF before[x] = Nothing THEN Nothing ELSE before[x].attribute
<1>4. ASSUME NEW x \in S PROVE value(x) = IF after[x] = Nothing THEN Nothing ELSE after[x].attribute
    <2>1. CASE x \in Present(before) \ Present(after)
        BY <1>1, <1>3, <2>1
    <2>2. CASE x \in Present(after) \ Present(before)
        <3>1. <<x, after[x]>> \in d.added /\ x \notin d.removed /\ \A p \in d.added : p[1] = x => p = <<x, after[x]>>
            BY <1>1, <2>2
        <3>2. (CHOOSE p \in d.added : p[1] = x) = <<x, after[x]>>
            BY <3>1
        <3> QED BY <1>3, <2>2, <3>1, <3>2
    <2>3. CASE x \in Present(before) \cap Present(after)
        <3>1. x \notin d.removed /\ \A p \in d.added : p[1] # x
            BY <1>1, <2>3
        <3>2. CASE before[x].attribute # after[x].attribute \/ before[x].interval # after[x].interval
            <4> DEFINE q == <<x, after[x].attribute, before[x].interval # after[x].interval>>
            <4>1. q \in d.modified /\ \A p \in d.modified : p[1] = x => p = q
                BY <1>1, <2>3, <3>2
            <4>2. (CHOOSE p \in d.modified : p[1] = x) = q
                BY <4>1
            <4> QED BY <1>3, <2>3, <3>1, <4>1, <4>2
        <3>3. CASE before[x].attribute = after[x].attribute /\ before[x].interval = after[x].interval
            <4>1. \A p \in d.modified : p[1] # x
                BY <1>1, <3>3
            <4> QED BY <1>2, <1>3, <2>3, <3>1, <3>3, <4>1
        <3> QED BY <3>2, <3>3
    <2>4. CASE x \notin Present(before) /\ x \notin Present(after)
        <3>1. x \notin d.removed /\ (\A p \in d.added : p[1] # x) /\ (\A p \in d.modified : p[1] # x)
            BY <1>1, <2>4
        <3> QED BY <1>2, <1>3, <2>4, <3>1
    <2> QED BY <2>1, <2>2, <2>3, <2>4
<1>5. Applied(before, d) = [x \in S |-> value(x)]
    BY DEF Applied
<1>6. Attributes(after) = [x \in S |-> IF after[x] = Nothing THEN Nothing ELSE after[x].attribute]
    BY DEF Attributes
<1> HIDE DEF value
<1> QED BY <1>4, <1>5, <1>6 DEF d

LEMMA PairsAreCounted ==
    ASSUME NEW S, IsFiniteSet(S), NEW f, S \subseteq DOMAIN f
    PROVE  LET T == {<<x, f[x]>> : x \in S}
           IN  IsFiniteSet(T) /\ Cardinality(T) = Cardinality(S)
<1> DEFINE T == {<<x, f[x]>> : x \in S}
           g == [x \in S |-> <<x, f[x]>>]
<1>1. g \in [S -> T] /\ (\A y \in T : \E x \in S : g[x] = y) /\ \A x, y \in S : g[x] = g[y] => x = y
    OBVIOUS
<1> HIDE DEF g, T
<1>2. g \in Injection(S, T) /\ g \in Surjection(S, T)
    BY <1>1 DEF Injection, IsInjective, Surjection
<1>3. ExistsBijection(S, T)
    BY <1>2 DEF ExistsBijection, Bijection
<1>4. IsFiniteSet(T) /\ Cardinality(T) = Cardinality(S)
    BY <1>3, FS_Bijection
<1> QED BY <1>4 DEF T

LEMMA TriplesAreFinite ==
    ASSUME NEW S, IsFiniteSet(S), NEW f, S \subseteq DOMAIN f
    PROVE  IsFiniteSet({f[x] : x \in S})
<1> DEFINE T == {f[x] : x \in S}
           g == [x \in S |-> f[x]]
<1>1. g \in [S -> T] /\ \A y \in T : \E x \in S : g[x] = y
    OBVIOUS
<1> HIDE DEF g, T
<1>2. g \in Surjection(S, T)
    BY <1>1 DEF Surjection
<1>3. IsFiniteSet(T)
    BY <1>2, FS_Surjection
<1> QED BY <1>3 DEF T

LEMMA DiffCounts ==
    ASSUME NEW S, NEW before, NEW after, DOMAIN before = S, DOMAIN after = S,
           IsFiniteSet(Present(before)), IsFiniteSet(Present(after))
    PROVE  LET d == DiffMaps(before, after)
           IN  /\ CountOf(d) \in Nat
               /\ (CountOf(d) = 0) <=> SameCarried(before, after)
               /\ Cardinality(d.added) + Cardinality(d.removed)
                  = Cardinality((Present(before) \ Present(after)) \cup (Present(after) \ Present(before)))
<1> DEFINE d == DiffMaps(before, after)
           gone == Present(before) \ Present(after)
           come == Present(after) \ Present(before)
           changed == {y \in Present(before) \cap Present(after) :
                          \/ before[y].attribute # after[y].attribute
                          \/ before[y].interval # after[y].interval}
           triple == [x \in changed |-> <<x, after[x].attribute, before[x].interval # after[x].interval>>]
<1>1. /\ d.removed = gone /\ d.added = {<<x, after[x]>> : x \in come}
      /\ d.modified = {<<x, after[x].attribute, before[x].interval # after[x].interval>> : x \in changed}
    BY DEF DiffMaps
<1>2. gone \subseteq Present(before) /\ come \subseteq Present(after) /\ changed \subseteq Present(after) /\ come \subseteq DOMAIN after
    BY DEF Present
<1>3. IsFiniteSet(gone) /\ IsFiniteSet(come) /\ IsFiniteSet(changed)
    BY <1>2, FS_Subset
<1>4. IsFiniteSet(d.added) /\ Cardinality(d.added) = Cardinality(come)
    <2> HIDE DEF come, d
    <2> QED BY <1>1, <1>2, <1>3, PairsAreCounted
<1>5. d.modified = {triple[x] : x \in changed}
    BY <1>1
<1>6. IsFiniteSet(d.modified)
    <2>1. DOMAIN triple = changed
        OBVIOUS
    <2> HIDE DEF triple, changed, d
    <2>2. IsFiniteSet({triple[x] : x \in changed})
        BY <1>3, <2>1, TriplesAreFinite
    <2> QED BY <1>5, <2>2
<1>7. /\ Cardinality(d.added) \in Nat /\ Cardinality(d.removed) \in Nat /\ Cardinality(d.modified) \in Nat
      /\ Cardinality(d.added) = 0 <=> come = {}
      /\ Cardinality(d.removed) = 0 <=> gone = {}
      /\ Cardinality(d.modified) = 0 <=> d.modified = {}
    <2> HIDE DEF d, come, gone
    <2> QED BY <1>1, <1>3, <1>4, <1>6, FS_CardinalityType, FS_EmptySet
<1>8. d.modified = {} <=> changed = {}
    <2> HIDE DEF triple, changed, d
    <2> QED BY <1>5
<1>9. (CountOf(d) = 0) <=> come = {} /\ gone = {} /\ changed = {}
    <2> HIDE DEF d, come, gone, changed
    <2> QED BY <1>7, <1>8 DEF CountOf
<1>10. come = {} /\ gone = {} /\ changed = {} <=> SameCarried(before, after)
    <2>1. come = {} /\ gone = {} <=> Present(before) = Present(after)
        OBVIOUS
    <2>2. ASSUME Present(before) = Present(after)
          PROVE  changed = {} <=> \A x \in Present(before) : /\ before[x].attribute = after[x].attribute
                                                             /\ before[x].interval = after[x].interval
        BY <2>2
    <2> HIDE DEF come, gone, changed
    <2> QED BY <2>1, <2>2 DEF SameCarried
<1>11. CountOf(d) \in Nat
    <2> HIDE DEF d
    <2> QED BY <1>7 DEF CountOf
<1>12. gone \cap come = {}
    OBVIOUS
<1>13. Cardinality(gone \cup come) = Cardinality(gone) + Cardinality(come)
    <2> HIDE DEF gone, come
    <2>1. Cardinality(gone \cup come) = Cardinality(gone) + Cardinality(come) - Cardinality(gone \cap come)
        BY <1>3, FS_Union
    <2>2. Cardinality(gone \cap come) = 0
        BY <1>12, FS_EmptySet
    <2>3. Cardinality(gone) \in Nat /\ Cardinality(come) \in Nat
        BY <1>3, FS_CardinalityType
    <2> QED BY <2>1, <2>2, <2>3
<1>14. Cardinality(d.added) + Cardinality(d.removed) = Cardinality(gone \cup come)
    <2> HIDE DEF gone, come, d
    <2>1. Cardinality(gone) \in Nat /\ Cardinality(come) \in Nat
        BY <1>3, FS_CardinalityType
    <2> QED BY <1>1, <1>4, <1>13, <2>1
<1> HIDE DEF come, changed
<1> QED BY <1>9, <1>10, <1>11, <1>14 DEF come

(* The sum of two, and the line through two points.                        *)
LEMMA SumOfTwo ==
    ASSUME NEW s, DOMAIN s = 1..2, s[1] \in Int, s[2] \in Int
    PROVE  Total(s) = s[1] + s[2]
<1> DEFINE D == 1..2
           top(T) == CHOOSE x \in T : \A y \in T : x >= y
           Adds(f) == f = [T \in SUBSET D |-> IF T = {} THEN 0 ELSE f[T \ {top(T)}] + s[top(T)]]
           sums == CHOOSE f : Adds(f)
<1>1. Total(s) = sums[D]
    BY DEF Total, FoldLeft, MapThenFoldSet, Max
<1>2. ASSUME NEW T \in SUBSET D PROVE T \in {{}, {1}, {2}, {1, 2}}
    <2>1. \A x \in T : x = 1 \/ x = 2
        OBVIOUS
    <2>2. CASE 1 \in T /\ 2 \in T
        BY <2>1, <2>2
    <2>3. CASE 1 \in T /\ 2 \notin T
        BY <2>1, <2>3
    <2>4. CASE 1 \notin T /\ 2 \in T
        BY <2>1, <2>4
    <2>5. CASE 1 \notin T /\ 2 \notin T
        BY <2>1, <2>5
    <2> QED BY <2>2, <2>3, <2>4, <2>5
<1>3. top({1}) = 1 /\ top({2}) = 2 /\ top({1, 2}) = 2
    <2>1. top({1}) = 1 /\ top({2}) = 2
        OBVIOUS
    <2>2. \A x \in {1, 2} : (\A y \in {1, 2} : x >= y) <=> x = 2
        OBVIOUS
    <2> QED BY <2>1, <2>2
<1>4. {1} \ {1} = {} /\ {2} \ {2} = {} /\ {1, 2} \ {2} = {1} /\ D = {1, 2}
    OBVIOUS
<1> HIDE DEF top
<1>5. \E f : Adds(f)
    <2> DEFINE g == [T \in SUBSET D |-> (IF 1 \in T THEN s[1] ELSE 0) + (IF 2 \in T THEN s[2] ELSE 0)]
    <2>1. ASSUME NEW T \in SUBSET D PROVE g[T] = IF T = {} THEN 0 ELSE g[T \ {top(T)}] + s[top(T)]
        <3>1. CASE T = {}
            BY <3>1
        <3>2. CASE T = {1}
            <4>1. T \ {top(T)} = {} /\ {} \in SUBSET D
                BY <1>3, <1>4, <3>2
            <4>2. g[{}] = 0 /\ g[{1}] = s[1]
                BY <1>4
            <4> QED BY <1>3, <3>2, <4>1, <4>2
        <3>3. CASE T = {2}
            <4>1. T \ {top(T)} = {} /\ {} \in SUBSET D
                BY <1>3, <1>4, <3>3
            <4>2. g[{}] = 0 /\ g[{2}] = s[2]
                BY <1>4
            <4> QED BY <1>3, <3>3, <4>1, <4>2
        <3>4. CASE T = {1, 2}
            <4>1. T \ {top(T)} = {1} /\ {1} \in SUBSET D
                BY <1>3, <1>4, <3>4
            <4>2. g[{1}] = s[1] /\ g[{1, 2}] = s[1] + s[2]
                BY <1>4
            <4> QED BY <1>3, <3>4, <4>1, <4>2
        <3> QED BY <1>2, <3>1, <3>2, <3>3, <3>4
    <2>2. Adds(g)
        <3> HIDE DEF D
        <3> QED BY <2>1, Zenon
    <2> HIDE DEF g, Adds
    <2> QED BY <2>2
<1>6. Adds(sums)
    <2> HIDE DEF Adds
    <2> QED BY <1>5
<1> HIDE DEF sums
<1>7. ASSUME NEW T \in SUBSET D PROVE sums[T] = IF T = {} THEN 0 ELSE sums[T \ {top(T)}] + s[top(T)]
    <2> HIDE DEF D
    <2> QED BY <1>6, Zenon
<1>8. sums[{}] = 0
    BY <1>7
<1>9. sums[{1}] = s[1]
    BY <1>3, <1>4, <1>7, <1>8
<1>10. sums[{1, 2}] = s[1] + s[2]
    <2>1. {1, 2} \in SUBSET D /\ {1, 2} # {}
        OBVIOUS
    <2>2. sums[{1, 2}] = sums[{1, 2} \ {top({1, 2})}] + s[top({1, 2})]
        BY <1>7, <2>1
    <2> HIDE DEF D
    <2> QED BY <1>3, <1>4, <1>9, <2>2
<1> QED BY <1>1, <1>4, <1>10

LEMMA LineThroughTwo ==
    ASSUME NEW x \in Seq(Int), NEW y \in Seq(Int), Len(x) = 2, Len(y) = 2, x[1] = 0, x[2] # 0
    PROVE  LET r == LinearRegression(x, y)
           IN  r = [slope |-> 2 * (x[2] * (y[2] - y[1])), intercept |-> 2 * (y[1] * (x[2] * x[2])), over |-> 2 * (x[2] * x[2])]
<1> DEFINE d == x[2]
           a == y[1]
           b == y[2]
           xy == [i \in DOMAIN x |-> x[i] * y[i]]
           xx == [i \in DOMAIN x |-> x[i] * x[i]]
<1>1. DOMAIN x = 1..2 /\ DOMAIN y = 1..2 /\ d \in Int /\ a \in Int /\ b \in Int /\ d # 0
    BY LenProperties
<1>2. Total(x) = d /\ Total(y) = a + b
    BY <1>1, SumOfTwo
<1>3. Total(xy) = d * b
    <2>1. DOMAIN xy = 1..2 /\ xy[1] = 0 /\ xy[2] = d * b
        BY <1>1
    <2>2. d * b \in Int
        BY <1>1
    <2> HIDE DEF xy, d, b
    <2> QED BY <2>1, <2>2, SumOfTwo
<1>4. Total(xx) = d * d
    <2>1. DOMAIN xx = 1..2 /\ xx[1] = 0 /\ xx[2] = d * d
        BY <1>1
    <2>2. d * d \in Int
        BY <1>1
    <2> HIDE DEF xx, d
    <2> QED BY <2>1, <2>2, SumOfTwo
<1> DEFINE denom == 2 * (d * d) - d * d
           slope == 2 * (d * b) - d * (a + b)
<1>5. LinearRegression(x, y) =
          IF denom = 0 THEN [slope |-> 0, intercept |-> a + b, over |-> 2]
          ELSE [slope |-> slope * 2, intercept |-> (a + b) * denom - slope * d, over |-> 2 * denom]
    BY <1>2, <1>3, <1>4 DEF LinearRegression
<1> HIDE DEF d, a, b
<1>6. denom = d * d /\ d * d # 0 /\ slope = d * (b - a)
    BY <1>1
<1>7. slope * 2 = 2 * (d * (b - a)) /\ (a + b) * denom - slope * d = 2 * (a * (d * d)) /\ 2 * denom = 2 * (d * d)
    <2>1. slope * d = (d * d) * b - (d * d) * a
        BY <1>1
    <2>2. (a + b) * denom = (d * d) * a + (d * d) * b
        BY <1>1
    <2>3. a * (d * d) = (d * d) * a /\ (d * d) * a \in Int /\ (d * d) * b \in Int
        BY <1>1
    <2>4. (a + b) * denom - slope * d = 2 * (a * (d * d))
        <3> HIDE DEF denom, slope
        <3> QED BY <2>1, <2>2, <2>3
    <2>5. d * (b - a) \in Int
        BY <1>1
    <2> QED BY <1>6, <2>4, <2>5
<1> HIDE DEF denom, slope
<1> QED BY <1>5, <1>6, <1>7 DEF d, a, b

LEMMA LineThroughOne ==
    ASSUME NEW x \in Seq(Int), NEW y \in Seq(Int), Len(x) = 2, Len(y) = 2, x[1] = 0, x[2] = 0
    PROVE  LinearRegression(x, y) = [slope |-> 0, intercept |-> y[1] + y[2], over |-> 2]
<1> DEFINE xy == [i \in DOMAIN x |-> x[i] * y[i]]
           xx == [i \in DOMAIN x |-> x[i] * x[i]]
<1>1. DOMAIN x = 1..2 /\ DOMAIN y = 1..2 /\ y[1] \in Int /\ y[2] \in Int
    OBVIOUS
<1>2. Total(x) = 0 /\ Total(y) = y[1] + y[2]
    <2>1. Total(x) = x[1] + x[2]
        BY <1>1, SumOfTwo
    <2>2. Total(y) = y[1] + y[2]
        BY <1>1, SumOfTwo
    <2> QED BY <2>1, <2>2
<1>3. Total(xy) = 0
    <2>1. DOMAIN xy = 1..2 /\ xy[1] = 0 /\ xy[2] = 0
        BY <1>1
    <2> HIDE DEF xy
    <2>2. Total(xy) = xy[1] + xy[2]
        BY <2>1, SumOfTwo
    <2> QED BY <2>1, <2>2
<1>4. Total(xx) = 0
    <2>1. DOMAIN xx = 1..2 /\ xx[1] = 0 /\ xx[2] = 0
        BY <1>1
    <2> HIDE DEF xx
    <2>2. Total(xx) = xx[1] + xx[2]
        BY <2>1, SumOfTwo
    <2> QED BY <2>1, <2>2
<1> HIDE DEF xy, xx
<1> QED BY <1>2, <1>3, <1>4 DEF LinearRegression, xy, xx

LEMMA SecondsAreWhole ==
    ASSUME NEW d \in Int
    PROVE  WholeSeconds(d) \in Int /\ WholeSeconds(- d) = - WholeSeconds(d) /\ WholeSeconds(0) = 0
<1>1. Second \in Int /\ Second > 0
    BY TemporalAssumption
<1>2. 0 \div Second = 0
    BY <1>1
<1>3. \A e \in Nat : e \div Second \in Int
    BY <1>1
<1>4. CASE d = 0
    BY <1>2, <1>4 DEF WholeSeconds
<1>5. CASE d > 0
    BY <1>2, <1>3, <1>5 DEF WholeSeconds
<1>6. CASE d < 0
    <2>1. - d \in Nat /\ - d >= 0 /\ ~ (d >= 0)
        BY <1>6
    <2> QED BY <1>2, <1>3, <2>1 DEF WholeSeconds
<1> QED BY <1>4, <1>5, <1>6

(* What TakeSnapshot, the differences and the trends rest on.              *)
SnapshotHolds(s) ==
    /\ s.time \in Nat
    /\ DOMAIN s.nodes = NodeId /\ IsFiniteSet(Present(s.nodes))
    /\ DOMAIN s.edges = EdgeId /\ IsFiniteSet(Present(s.edges))
TemporalInv ==
    /\ DOMAIN nodes = NodeId /\ IsFiniteSet(Present(nodes))
    /\ DOMAIN edges = EdgeId /\ IsFiniteSet(Present(edges))
    /\ IsSeq(snapshots) /\ \A n \in DOMAIN snapshots : SnapshotHolds(snapshots[n])
    /\ frequency = [f \in Counters |-> frequency[f]]
    /\ \A f \in Counters : IsFiniteSet(Observations(f))
    /\ ObservedOnce

LEMMA DiffsDoRebuild == TemporalInv => DiffsRebuild
<1> SUFFICES ASSUME TemporalInv, NEW n \in DOMAIN AllDiffs
             PROVE  LET before == snapshots[n]
                        after  == snapshots[n + 1]
                        diff   == AllDiffs[n]
                    IN  /\ Applied(before.nodes, diff.nodes) = Attributes(after.nodes)
                        /\ Applied(before.edges, diff.edges) = Attributes(after.edges)
                        /\ (ChangeCount(diff) = 0) <=> /\ SameCarried(before.nodes, after.nodes)
                                                       /\ SameCarried(before.edges, after.edges)
    BY DEF DiffsRebuild
<1>1. DOMAIN snapshots = 1..Len(snapshots) /\ Len(snapshots) \in Nat
    BY LenProperties DEF TemporalInv, IsSeq
<1>2. n \in 1..(Len(snapshots) - 1) /\ AllDiffs[n] = Between(snapshots[n], snapshots[n + 1])
    BY DEF AllDiffs
<1>3. n \in DOMAIN snapshots /\ n + 1 \in DOMAIN snapshots
    BY <1>1, <1>2
<1>4. PICK before : before = snapshots[n]
    OBVIOUS
<1>5. PICK after : after = snapshots[n + 1]
    OBVIOUS
<1>6. SnapshotHolds(before) /\ SnapshotHolds(after)
    BY <1>3, <1>4, <1>5 DEF TemporalInv
<1> DEFINE dn == DiffMaps(before.nodes, after.nodes)
           de == DiffMaps(before.edges, after.edges)
<1>7. AllDiffs[n].nodes = dn /\ AllDiffs[n].edges = de
    BY <1>2, <1>4, <1>5 DEF Between
<1>8. Applied(before.nodes, dn) = Attributes(after.nodes) /\ Applied(before.edges, de) = Attributes(after.edges)
    BY <1>6, DiffRebuilds DEF SnapshotHolds
<1>9. CountOf(dn) \in Nat /\ ((CountOf(dn) = 0) <=> SameCarried(before.nodes, after.nodes))
    BY <1>6, DiffCounts DEF SnapshotHolds
<1>10. CountOf(de) \in Nat /\ ((CountOf(de) = 0) <=> SameCarried(before.edges, after.edges))
    BY <1>6, DiffCounts DEF SnapshotHolds
<1> HIDE DEF dn, de
<1>11. (ChangeCount(AllDiffs[n]) = 0) <=> CountOf(dn) = 0 /\ CountOf(de) = 0
    BY <1>7, <1>9, <1>10 DEF ChangeCount
<1> QED BY <1>4, <1>5, <1>7, <1>8, <1>9, <1>10, <1>11

LEMMA TrendsDoAgree == TemporalInv => TrendsAgree
<1> SUFFICES ASSUME TemporalInv PROVE TrendsAgree
    OBVIOUS
<1>1. DOMAIN snapshots = 1..Len(snapshots) /\ Len(snapshots) \in Nat
    BY LenProperties DEF TemporalInv, IsSeq
<1>2. NodeChurn = Total([n \in DOMAIN AllDiffs |->
          Cardinality(AllDiffs[n].nodes.added) + Cardinality(AllDiffs[n].nodes.removed)])
    <2> DEFINE moved(n) == Cardinality((Present(snapshots[n].nodes) \ Present(snapshots[n + 1].nodes))
                                       \cup (Present(snapshots[n + 1].nodes) \ Present(snapshots[n].nodes)))
               told(n) == Cardinality(AllDiffs[n].nodes.added) + Cardinality(AllDiffs[n].nodes.removed)
    <2>1. ASSUME NEW n \in 1..(Len(snapshots) - 1) PROVE told(n) = moved(n)
        <3>1. n \in DOMAIN snapshots /\ n + 1 \in DOMAIN snapshots
            BY <1>1
        <3>2. PICK before : before = snapshots[n]
            OBVIOUS
        <3>3. PICK after : after = snapshots[n + 1]
            OBVIOUS
        <3>4. SnapshotHolds(before) /\ SnapshotHolds(after)
            BY <3>1, <3>2, <3>3 DEF TemporalInv
        <3> DEFINE d == DiffMaps(before.nodes, after.nodes)
        <3>5. AllDiffs[n].nodes = d
            BY <3>2, <3>3 DEF AllDiffs, Between
        <3>6. Cardinality(d.added) + Cardinality(d.removed)
              = Cardinality((Present(before.nodes) \ Present(after.nodes)) \cup (Present(after.nodes) \ Present(before.nodes)))
            BY <3>4, DiffCounts DEF SnapshotHolds
        <3> HIDE DEF d
        <3> QED BY <3>2, <3>3, <3>5, <3>6
    <2>2. DOMAIN AllDiffs = 1..(Len(snapshots) - 1)
        BY DEF AllDiffs
    <2>3. NodeChurn = Total([n \in 1..(Len(snapshots) - 1) |-> moved(n)])
        BY DEF NodeChurn
    <2> HIDE DEF moved, told
    <2>4. [n \in 1..(Len(snapshots) - 1) |-> moved(n)] = [n \in DOMAIN AllDiffs |-> told(n)]
        BY <2>1, <2>2
    <2>5. NodeChurn = Total([n \in DOMAIN AllDiffs |-> told(n)])
        BY <2>3, <2>4
    <2> QED BY <2>5 DEF told
<1>3. ASSUME Len(snapshots) = 1 PROVE NodeSurvival[1] = NodeSurvival[2]
    <2>1. Head(snapshots) = snapshots[1] /\ Last(snapshots) = snapshots[1]
        <3>1. PICK S : snapshots \in Seq(S)
            BY DEF TemporalInv, IsSeq
        <3>2. snapshots # <<>>
            BY <1>3
        <3> QED BY <1>3, <3>1, <3>2, HeadTailProperties DEF Last
    <2>2. \A X : X \cap X = X
        OBVIOUS
    <2> QED BY <2>1, <2>2 DEF NodeSurvival
<1>4. ASSUME Len(snapshots) = 2, NEW n \in 1..2
      PROVE  LET p == PredictedCount(snapshots[n].time)
             IN  IF Elapsed[2] # 0 THEN p.value = Counts[n] * p.over
                 ELSE p.value * 2 = (Counts[1] + Counts[2]) * p.over
    <2>1. DOMAIN snapshots = 1..2 /\ SnapshotHolds(snapshots[1]) /\ SnapshotHolds(snapshots[2])
        BY <1>1, <1>4 DEF TemporalInv
    <2>2. PICK t1, t2 : t1 = snapshots[1].time /\ t2 = snapshots[2].time
        OBVIOUS
    <2>3. t1 \in Nat /\ t2 \in Nat /\ Last(snapshots).time = t2
        BY <1>4, <2>1, <2>2 DEF SnapshotHolds, Last
    <2>4. PICK x : x = Elapsed
        OBVIOUS
    <2>5. PICK y : y = Counts
        OBVIOUS
    <2> DEFINE d == WholeSeconds(t2 - t1)
    <2>6. d \in Int /\ WholeSeconds(t1 - t1) = 0 /\ WholeSeconds(t2 - t2) = 0 /\ WholeSeconds(t1 - t2) = - d
        <3>1. t2 - t1 \in Int /\ - (t2 - t1) = t1 - t2 /\ t1 - t1 = 0 /\ t2 - t2 = 0
            BY <2>3
        <3> QED BY <3>1, SecondsAreWhole
    <2>7. DOMAIN x = 1..2 /\ x[1] = 0 /\ x[2] = d /\ x = [i \in 1..2 |-> x[i]]
        <3>1. x = [i \in 1..2 |-> WholeSeconds(snapshots[i].time - t1)]
            BY <2>1, <2>2, <2>4 DEF Elapsed
        <3> QED BY <2>2, <2>6, <3>1
    <2>8. DOMAIN y = 1..2 /\ y[1] \in Nat /\ y[2] \in Nat /\ y = [i \in 1..2 |-> y[i]]
        <3>1. y = [i \in 1..2 |-> Cardinality(Present(snapshots[i].nodes))]
            BY <2>1, <2>5 DEF Counts
        <3>2. Cardinality(Present(snapshots[1].nodes)) \in Nat /\ Cardinality(Present(snapshots[2].nodes)) \in Nat
            BY <2>1, FS_CardinalityType DEF SnapshotHolds
        <3> QED BY <3>1, <3>2
    <2> HIDE DEF d
    <2>9. x \in Seq(Int) /\ y \in Seq(Int) /\ Len(x) = 2 /\ Len(y) = 2
        <3>1. ASSUME NEW f \in [1..2 -> Int] PROVE f \in Seq(Int) /\ Len(f) = 2
            <4> DEFINE Lengths == {[1..m -> Int] : m \in Nat}
            <4>3. [1..2 -> Int] \in Lengths
                OBVIOUS
            <4>4. Seq(Int) = UNION Lengths
                BY SeqDef
            <4> HIDE DEF Lengths
            <4>1. f \in Seq(Int)
                BY <4>3, <4>4, Zenon
            <4>2. DOMAIN f = 1..2
                OBVIOUS
            <4> QED BY <4>1, <4>2, LenProperties
        <3>2. x \in [1..2 -> Int] /\ y \in [1..2 -> Int]
            BY <2>6, <2>7, <2>8
        <3> QED BY <3>1, <3>2
    <2> DEFINE trend == LinearRegression(x, y)
               value(at) == trend.slope * at + trend.intercept
               at(k) == IF k = 1 THEN 0 ELSE d
    <2>10. PICK p : p = PredictedCount(snapshots[n].time)
        OBVIOUS
    <2>11. p.value = (IF value(at(n)) < 0 THEN 0 ELSE value(at(n))) /\ p.over = trend.over
        <3>1. WholeSeconds(t2 - t1) + WholeSeconds(snapshots[n].time - t2) = at(n)
            <4>1. WholeSeconds(t2 - t1) = d
                BY DEF d
            <4>2. CASE n = 1
                BY <2>2, <2>6, <4>1, <4>2
            <4>3. CASE n = 2
                BY <2>2, <2>6, <4>1, <4>3
            <4> QED BY <4>2, <4>3
        <3> HIDE DEF at
        <3> QED BY <2>2, <2>3, <2>4, <2>5, <2>10, <3>1 DEF PredictedCount
    <2>12. CASE d # 0
        <3>1. trend = [slope |-> 2 * (x[2] * (y[2] - y[1])), intercept |-> 2 * (y[1] * (x[2] * x[2])), over |-> 2 * (x[2] * x[2])]
            BY <2>7, <2>9, <2>12, LineThroughTwo
        <3>2. PICK a, b : a = y[1] /\ b = y[2]
            OBVIOUS
        <3>3. a \in Nat /\ b \in Nat
            BY <2>8, <3>2
        <3>4. trend.slope = 2 * (d * (b - a)) /\ trend.intercept = 2 * (a * (d * d)) /\ trend.over = 2 * (d * d)
            BY <2>7, <3>1, <3>2
        <3> HIDE DEF trend
        <3>5. value(0) = a * (2 * (d * d))
            BY <2>6, <3>3, <3>4
        <3>6. value(d) = b * (2 * (d * d))
            BY <2>6, <3>3, <3>4
        <3>7. a * (2 * (d * d)) >= 0 /\ b * (2 * (d * d)) >= 0
            <4>1. 2 * (d * d) >= 0 /\ 2 * (d * d) \in Int
                BY <2>6
            <4>2. \A e \in Nat, c \in Int : c >= 0 => e * c >= 0
                OBVIOUS
            <4> QED BY <3>3, <4>1, <4>2
        <3>8. a * (2 * (d * d)) \in Int /\ b * (2 * (d * d)) \in Int
            BY <2>6, <3>3
        <3> HIDE DEF value
        <3>9. CASE n = 1
            BY <2>4, <2>5, <2>7, <2>10, <2>11, <2>12, <3>2, <3>4, <3>5, <3>7, <3>8, <3>9
        <3>10. CASE n = 2
            BY <2>4, <2>5, <2>7, <2>10, <2>11, <2>12, <3>2, <3>4, <3>6, <3>7, <3>8, <3>10
        <3> QED BY <3>9, <3>10
    <2>13. CASE d = 0
        <3>1. trend = [slope |-> 0, intercept |-> y[1] + y[2], over |-> 2]
            BY <2>7, <2>9, <2>13, LineThroughOne
        <3>2. at(n) = 0
            BY <2>13
        <3>3. value(at(n)) = y[1] + y[2] /\ trend.over = 2
            BY <2>8, <3>1, <3>2
        <3> HIDE DEF value, trend
        <3>4. p.value = y[1] + y[2]
            BY <2>8, <2>11, <3>3
        <3> QED BY <2>4, <2>5, <2>7, <2>8, <2>10, <2>11, <2>13, <3>3, <3>4
    <2> QED BY <2>12, <2>13
<1> QED BY <1>2, <1>3, <1>4 DEF TrendsAgree

LEMMA PastDoesHold == TemporalInv => PastIsLatest
<1> SUFFICES ASSUME TemporalInv, OldestFirst, NEW t \in Times, StateAt(t) # Nothing
             PROVE  StateAt(t).time = Max({s.time : s \in {s \in Range(snapshots) : s.time <= t}})
    BY DEF PastIsLatest
<1> DEFINE upTo == {n \in DOMAIN snapshots : snapshots[n].time <= t}
           past == {s.time : s \in {s \in Range(snapshots) : s.time <= t}}
<1>1. DOMAIN snapshots = 1..Len(snapshots) /\ Len(snapshots) \in Nat
    BY LenProperties DEF TemporalInv, IsSeq
<1>2. upTo # {} /\ StateAt(t) = snapshots[Max(upTo)]
    BY DEF StateAt
<1>3. upTo \in SUBSET Nat /\ IsFiniteSet(upTo)
    <2>1. upTo \subseteq 1..Len(snapshots)
        BY <1>1
    <2>2. IsFiniteSet(1..Len(snapshots))
        BY <1>1, FS_Interval
    <2> HIDE DEF upTo
    <2>3. IsFiniteSet(upTo)
        BY <2>1, <2>2, FS_Subset
    <2> QED BY <1>1, <2>1, <2>3
<1> HIDE DEF upTo
<1>4. PICK m \in upTo : \A n \in upTo : n <= m
    BY <1>2, <1>3, GreatestOf
<1>5. Max(upTo) = m
    <2>1. \A n \in upTo : m >= n
        BY <1>3, <1>4
    <2>2. \A x \in upTo : (\A y \in upTo : x >= y) => x = m
        BY <1>3, <2>1
    <2> QED BY <2>1, <2>2 DEF Max
<1>6. m \in DOMAIN snapshots /\ snapshots[m].time <= t /\ snapshots[m].time \in past
    BY DEF upTo, Range
<1>7. ASSUME NEW y \in past PROVE y \in Nat /\ snapshots[m].time \in Nat /\ y <= snapshots[m].time
    <2>1. PICK n \in DOMAIN snapshots : y = snapshots[n].time /\ snapshots[n].time <= t
        BY DEF Range
    <2>2. n \in upTo /\ n \in Nat /\ m \in Nat
        BY <1>3, <1>4, <2>1 DEF upTo
    <2>3. snapshots[n].time \in Nat /\ snapshots[m].time \in Nat
        BY <1>6, <2>1 DEF TemporalInv, SnapshotHolds
    <2>4. n = m \/ n < m
        BY <1>4, <2>2
    <2>5. n < m => snapshots[n].time <= snapshots[m].time
        BY <1>6, <2>1 DEF OldestFirst
    <2> QED BY <2>1, <2>3, <2>4, <2>5
<1> HIDE DEF past
<1>8. Max(past) = snapshots[m].time
    <2>1. \A y \in past : snapshots[m].time >= y
        BY <1>7
    <2>2. \A x \in past : (\A y \in past : x >= y) => x = snapshots[m].time
        BY <1>6, <1>7
    <2> QED BY <1>6, <2>1, <2>2 DEF Max
<1> QED BY <1>2, <1>5, <1>8 DEF past

(* What a snapshot holds of a kind.                                        *)
LEMMA KindsArePresent == \A map, c : WithKind(map, c) \subseteq Present(map)
BY DEF WithKind

LEMMA KindsAreFinite ==
    ASSUME NEW s, SnapshotHolds(s), NEW f \in Counters
    PROVE  WithKind(s[f[1]], f[2]) \subseteq NodeId \cup EdgeId /\ IsFiniteSet(WithKind(s[f[1]], f[2]))
<1>1. f[1] = "nodes" \/ f[1] = "edges"
    BY DEF Counters
<1>2. WithKind(s[f[1]], f[2]) \subseteq Present(s[f[1]])
    BY KindsArePresent
<1>3. Present(s[f[1]]) \subseteq NodeId \cup EdgeId /\ IsFiniteSet(Present(s[f[1]]))
    BY <1>1 DEF Present, SnapshotHolds
<1> QED BY <1>2, <1>3, FS_Subset

(* What one more snapshot adds to what was observed.                       *)
LEMMA OneMoreObserved ==
    ASSUME TemporalInv, NEW s, SnapshotHolds(s), snapshots' = Append(snapshots, s), NEW f \in Counters
    PROVE  /\ IsFiniteSet(Observations(f)')
           /\ Cardinality(Observations(f)') = Cardinality(Observations(f)) + Cardinality(WithKind(s[f[1]], f[2]))
<1> DEFINE k == Len(snapshots)
           new == WithKind(s[f[1]], f[2])
           before == Observations(f)
           after == Observations(f)'
<1>1. /\ snapshots'[k + 1] = s /\ k \in Nat
      /\ DOMAIN snapshots = 1..k /\ DOMAIN snapshots' = 1..(k + 1)
      /\ \A n \in 1..k : snapshots'[n] = snapshots[n]
    BY AppendFacts DEF TemporalInv
<1>2. \A n \in 1..(k + 1) : n \in 1..k \/ n = k + 1
    BY <1>1
<1>3. new \subseteq NodeId \cup EdgeId /\ IsFiniteSet(new)
    BY KindsAreFinite
<1>4. after = before \cup ({k + 1} \X new)
    <2>1. before = {o \in (1..k) \X (NodeId \cup EdgeId) : o[2] \in WithKind(snapshots[o[1]][f[1]], f[2])}
        BY <1>1 DEF Observations
    <2>2. after = {o \in (1..(k + 1)) \X (NodeId \cup EdgeId) : o[2] \in WithKind(snapshots'[o[1]][f[1]], f[2])}
        BY <1>1 DEF Observations
    <2> HIDE DEF before, after
    <2>3. \A n \in 1..(k + 1) : WithKind(snapshots'[n][f[1]], f[2])
                = IF n = k + 1 THEN new ELSE WithKind(snapshots[n][f[1]], f[2])
        BY <1>1, <1>2
    <2> HIDE DEF new
    <2>4. k + 1 \in 1..(k + 1) /\ k + 1 \notin 1..k /\ 1..k \subseteq 1..(k + 1)
        BY <1>1
    <2> QED BY <1>2, <1>3, <2>1, <2>2, <2>3, <2>4
<1>5. IsFiniteSet(before)
    BY DEF TemporalInv
<1>6. IsFiniteSet({k + 1} \X new) /\ Cardinality({k + 1} \X new) = Cardinality(new)
    <2>1. IsFiniteSet({k + 1}) /\ Cardinality({k + 1}) = 1
        BY FS_Singleton
    <2>2. Cardinality(new) \in Nat
        BY <1>3, FS_CardinalityType
    <2> HIDE DEF new
    <2> QED BY <1>3, <2>1, <2>2, FS_Product
<1>7. before \cap ({k + 1} \X new) = {}
    <2>1. \A o \in before : o[1] # k + 1
        BY <1>1 DEF Observations
    <2> HIDE DEF before, new
    <2> QED BY <2>1
<1> HIDE DEF before, new
<1>8. IsFiniteSet(after) /\ Cardinality(after) = Cardinality(before) + Cardinality(new)
    <2>1. /\ IsFiniteSet(before \cup ({k + 1} \X new))
          /\ Cardinality(before \cup ({k + 1} \X new))
             = Cardinality(before) + Cardinality({k + 1} \X new) - Cardinality(before \cap ({k + 1} \X new))
        BY <1>5, <1>6, FS_Union
    <2>2. Cardinality(before \cap ({k + 1} \X new)) = 0
        BY <1>7, FS_EmptySet
    <2>3. Cardinality(before) \in Nat /\ Cardinality(new) \in Nat
        BY <1>3, <1>5, FS_CardinalityType
    <2> HIDE DEF after
    <2> QED BY <1>4, <1>6, <2>1, <2>2, <2>3
<1> QED BY <1>8 DEF before, new

LEMMA SnapshotKeeps ==
    ASSUME TemporalInv, NEW t \in Times, TakeSnapshot(t)
    PROVE  TemporalInv'
<1>1. PICK s : s = SnapshotAt(t)
    OBVIOUS
<1>2. /\ s.time = t /\ s.nodes = ActiveAt(nodes, t) /\ s.edges = ActiveAt(edges, t)
      /\ snapshots' = Append(snapshots, s) /\ nodes' = nodes /\ edges' = edges
      /\ frequency' = [f \in Counters |-> frequency[f] + Cardinality(WithKind(s[f[1]], f[2]))]
    BY <1>1 DEF SnapshotAt, TakeSnapshot
<1>3. t \in Nat
    BY TemporalAssumption
<1>4. SnapshotHolds(s)
    <2>1. DOMAIN s.nodes = NodeId /\ Present(s.nodes) \subseteq Present(nodes)
        BY <1>2 DEF ActiveAt, Present, TemporalInv
    <2>2. DOMAIN s.edges = EdgeId /\ Present(s.edges) \subseteq Present(edges)
        BY <1>2 DEF ActiveAt, Present, TemporalInv
    <2>3. IsFiniteSet(Present(s.nodes)) /\ IsFiniteSet(Present(s.edges))
        BY <2>1, <2>2, FS_Subset DEF TemporalInv
    <2> QED BY <1>2, <1>3, <2>1, <2>2, <2>3 DEF SnapshotHolds
<1> DEFINE k == Len(snapshots)
<1>5. /\ IsSeq(snapshots') /\ snapshots'[k + 1] = s /\ k \in Nat
      /\ DOMAIN snapshots = 1..k /\ DOMAIN snapshots' = 1..(k + 1)
      /\ \A n \in 1..k : snapshots'[n] = snapshots[n]
    BY <1>2, AppendFacts DEF TemporalInv
<1> HIDE DEF k
<1>6. \A n \in 1..(k + 1) : n \in 1..k \/ n = k + 1
    BY <1>5
<1>7. \A n \in DOMAIN snapshots' : SnapshotHolds(snapshots'[n])
    BY <1>4, <1>5, <1>6 DEF TemporalInv
<1>8. ASSUME NEW f \in Counters
      PROVE  IsFiniteSet(Observations(f)') /\ frequency'[f] = Cardinality(Observations(f)')
    <2>1. /\ IsFiniteSet(Observations(f)')
          /\ Cardinality(Observations(f)') = Cardinality(Observations(f)) + Cardinality(WithKind(s[f[1]], f[2]))
        BY <1>2, <1>4, OneMoreObserved
    <2>2. frequency[f] = Cardinality(Observations(f))
        BY DEF TemporalInv, ObservedOnce
    <2>3. frequency'[f] = frequency[f] + Cardinality(WithKind(s[f[1]], f[2]))
        BY <1>2
    <2> QED BY <2>1, <2>2, <2>3
<1>9. ObservedOnce' /\ \A f \in Counters : IsFiniteSet(Observations(f)')
    BY <1>8 DEF ObservedOnce
<1>10. frequency' = [f \in Counters |-> frequency'[f]]
    BY <1>2
<1> QED BY <1>2, <1>5, <1>7, <1>9, <1>10 DEF TemporalInv

(* Nodes and edges come one at a time.                                     *)
LEMMA GraphKeeps ==
    ASSUME TemporalInv, UNCHANGED <<snapshots, frequency>>,
           DOMAIN nodes' = NodeId, \E n : Present(nodes') \subseteq Present(nodes) \cup {n},
           DOMAIN edges' = EdgeId, \E e : Present(edges') \subseteq Present(edges) \cup {e}
    PROVE  TemporalInv'
<1>1. IsFiniteSet(Present(nodes'))
    <2>1. PICK n : Present(nodes') \subseteq Present(nodes) \cup {n}
        OBVIOUS
    <2>2. IsFiniteSet(Present(nodes) \cup {n})
        BY FS_AddElement DEF TemporalInv
    <2> QED BY <2>1, <2>2, FS_Subset
<1>2. IsFiniteSet(Present(edges'))
    <2>1. PICK e : Present(edges') \subseteq Present(edges) \cup {e}
        OBVIOUS
    <2>2. IsFiniteSet(Present(edges) \cup {e})
        BY FS_AddElement DEF TemporalInv
    <2> QED BY <2>1, <2>2, FS_Subset
<1>3. \A f : Observations(f)' = Observations(f)
    BY DEF Observations
<1>4. ObservedOnce' <=> ObservedOnce
    BY <1>3 DEF ObservedOnce
<1> QED BY <1>1, <1>2, <1>3, <1>4 DEF TemporalInv

LEMMA TemporalInductive == TemporalInv /\ [TemporalNext]_temporalVars => TemporalInv'
<1> SUFFICES ASSUME TemporalInv, [TemporalNext]_temporalVars PROVE TemporalInv'
    OBVIOUS
<1>1. DOMAIN nodes = NodeId /\ DOMAIN edges = EdgeId
    BY DEF TemporalInv
<1>2. ASSUME NEW n \in NodeId, NEW i, NEW c, AddNode(n, i, c) PROVE TemporalInv'
    <2>1. DOMAIN nodes' = NodeId /\ Present(nodes') \subseteq Present(nodes) \cup {n} /\ edges' = edges
        BY <1>1, <1>2 DEF AddNode, Present
    <2> QED BY <1>1, <1>2, <2>1, GraphKeeps DEF AddNode
<1>3. ASSUME NEW n, RemoveNode(n) PROVE TemporalInv'
    <2>1. /\ DOMAIN nodes' = NodeId /\ Present(nodes') \subseteq Present(nodes) \cup {n}
          /\ DOMAIN edges' = EdgeId /\ Present(edges') \subseteq Present(edges) \cup {n}
        BY <1>1, <1>3 DEF RemoveNode, Present
    <2> QED BY <1>3, <2>1, GraphKeeps DEF RemoveNode
<1>4. ASSUME NEW e, NEW ends, NEW t, NEW u, NEW c, IngestRelationship(e, ends, t, u, c) PROVE TemporalInv'
    <2>1. DOMAIN edges' = EdgeId /\ Present(edges') \subseteq Present(edges) \cup {e} /\ nodes' = nodes
        BY <1>1, <1>4 DEF IngestRelationship, AddEdge, Present
    <2> QED BY <1>1, <1>4, <2>1, GraphKeeps DEF IngestRelationship, AddEdge
<1>5. ASSUME NEW e, RemoveEdge(e) PROVE TemporalInv'
    <2>1. DOMAIN edges' = EdgeId /\ Present(edges') \subseteq Present(edges) \cup {e} /\ nodes' = nodes
        BY <1>1, <1>5 DEF RemoveEdge, Present
    <2> QED BY <1>1, <1>5, <2>1, GraphKeeps DEF RemoveEdge
<1>6. CASE UNCHANGED temporalVars
    <2>1. UNCHANGED <<nodes, edges, snapshots, frequency>>
        BY <1>6 DEF temporalVars
    <2> QED BY <1>1, <2>1, GraphKeeps
<1> QED BY <1>2, <1>3, <1>4, <1>5, <1>6, SnapshotKeeps DEF TemporalNext

(* TemporalGraph: whatever nodes and edges come and go, at whatever times  *)
(* the snapshots are taken, differences, trends and predictions agree.     *)
THEOREM TemporalHistoryIsCoherent == TemporalSpec => []HistoryIsCoherent
<1>1. TemporalInit => TemporalInv
    <2> SUFFICES ASSUME TemporalInit PROVE TemporalInv
        OBVIOUS
    <2>1. DOMAIN nodes = NodeId /\ DOMAIN edges = EdgeId /\ Present(nodes) = {} /\ Present(edges) = {}
        BY DEF TemporalInit, Present
    <2>2. IsSeq(snapshots) /\ DOMAIN snapshots = {}
        BY EmptyIsSeq DEF TemporalInit
    <2>3. \A f : Observations(f) = {}
        BY <2>2 DEF Observations
    <2>4. ObservedOnce
        BY <2>3, FS_EmptySet DEF ObservedOnce, TemporalInit
    <2> QED BY <2>1, <2>2, <2>3, <2>4, FS_EmptySet DEF TemporalInv, TemporalInit
<1>2. TemporalInv => HistoryIsCoherent
    BY DiffsDoRebuild, TrendsDoAgree, PastDoesHold, IntervalsDoAgree DEF HistoryIsCoherent, TemporalInv
<1> QED BY <1>1, <1>2, TemporalInductive, PTL DEF TemporalSpec

-----------------------------------------------------------------------------
(* The virtual files.  The greatest of a set of numbers.                   *)
LEMMA MaxIs ==
    ASSUME NEW T \in SUBSET Nat, NEW m \in T, \A n \in T : n <= m
    PROVE  Max(T) = m
<1>1. \A n \in T : m >= n
    OBVIOUS
<1>2. \A x \in T : (\A y \in T : x >= y) => x = m
    OBVIOUS
<1> QED BY <1>1, <1>2 DEF Max

LEMMA MaxIsGreatest ==
    ASSUME NEW T \in SUBSET Nat, IsFiniteSet(T), T # {}
    PROVE  Max(T) \in T /\ \A n \in T : n <= Max(T)
<1>1. PICK m \in T : \A n \in T : n <= m
    BY GreatestOf
<1>2. Max(T) = m
    BY <1>1, MaxIs
<1> QED BY <1>1, <1>2

(* The types the replay asks for, each once.                               *)
LEMMA TypesOfReplay ==
    /\ Len(AggregateTypes) = 11 /\ DOMAIN AggregateTypes = 1..11
    /\ ToSet(AggregateTypes) = {AggregateTypes[n] : n \in 1..11}
    /\ {"Agent", "Monitoring"} \cap ToSet(AggregateTypes) = {}
    /\ \A m, n \in 1..11 : AggregateTypes[m] = AggregateTypes[n] => m = n
<1>1. Len(AggregateTypes) = 11 /\ DOMAIN AggregateTypes = 1..11
    BY DEF AggregateTypes
<1>2. ToSet(AggregateTypes) = {AggregateTypes[n] : n \in 1..11}
    BY <1>1 DEF ToSet
<1>3. \A n \in 1..11 : AggregateTypes[n] # "Agent" /\ AggregateTypes[n] # "Monitoring"
    BY DEF AggregateTypes
<1>4. \A m, n \in 1..11 : AggregateTypes[m] = AggregateTypes[n] => m = n
    BY DEF AggregateTypes
<1> QED BY <1>1, <1>2, <1>3, <1>4

(* An event of such a type, and the path of its file.                      *)
OfObject(e) ==
    /\ e.of \in ToSet(AggregateTypes)
    /\ e.what \in IF e.of = "Timeline" THEN {"EntryAdded"} ELSE {"Created", "Updated", "Deleted"}
    /\ e.what = "Created" => e.name # Nothing /\ e.status # Nothing

LEMMA EventsOfObjects == \A e \in Event : e.of \notin {"Agent", "Monitoring"} => OfObject(e)
BY VifsAssumption, TypesOfReplay DEF OfObject

LEMMA PathOfObject ==
    ASSUME NEW e, OfObject(e)
    PROVE  PathOf(e) = <<e.of, e.id>> /\ PathOf(e)[1] = e.of
<1>1. e.of # "Monitoring" /\ e.what # "Heartbeat"
    BY TypesOfReplay DEF OfObject
<1> QED BY <1>1 DEF PathOf

(* What the events of set A of log l say of the object they are about: if  *)
(* it is there, and what its file holds.                                   *)
LivesBy(l, A) == \/ \E i \in A : l[i].what = "EntryAdded"
                 \/ \E i \in A : l[i].what = "Created" /\ \A j \in A : l[j].what = "Deleted" => j < i
EntriesBy(l, A) == {i \in A : l[i].what = "EntryAdded"}
NamedBy(l, A, i) == i \in A /\ l[i].name # Nothing /\ \A j \in A : l[j].name # Nothing => j <= i
RatedBy(l, A, i) == i \in A /\ l[i].status # Nothing /\ \A j \in A : l[j].status # Nothing => j <= i
SaysOf(l, A, c) ==
    /\ c = FileContent(c.name, c.status, c.refs, c.entries)
    /\ IsSeq(c.entries) /\ Len(c.entries) = Cardinality(EntriesBy(l, A))
    /\ \A i \in EntriesBy(l, A) : c.entries[Cardinality({j \in EntriesBy(l, A) : j <= i})] = l[i].name
    /\ EntriesBy(l, A) = {} =>
          /\ \E i : NamedBy(l, A, i) /\ c.name = l[i].name
          /\ \E i : RatedBy(l, A, i) /\ c.status = Parsed(l[i].of, l[i].status)

(* Files that are what the events of set S of log l say.                   *)
AboutIn(l, S, p) == {i \in S : Parses(l[i]) /\ PathOf(l[i]) = p}
RebuiltFrom(l, S, fs) ==
    /\ DOMAIN fs = {p \in {PathOf(l[i]) : i \in S} : LivesBy(l, AboutIn(l, S, p))}
    /\ \A p \in DOMAIN fs : SaysOf(l, AboutIn(l, S, p), fs[p])

-----------------------------------------------------------------------------
(* One more event about an object, after all others.                       *)
LEMMA OneMoreLives ==
    ASSUME NEW l, NEW A \in SUBSET Nat, NEW i \in Nat, \A j \in A : j < i, OfObject(l[i]),
           \A j \in A : l[j].of = l[i].of /\ OfObject(l[j])
    PROVE  /\ l[i].what \in {"Created", "EntryAdded"} => LivesBy(l, A \cup {i})
           /\ l[i].what = "Updated" => (LivesBy(l, A \cup {i}) <=> LivesBy(l, A))
           /\ l[i].what = "Deleted" => ~ LivesBy(l, A \cup {i})
<1>1. ASSUME l[i].what = "EntryAdded" PROVE LivesBy(l, A \cup {i})
    BY <1>1 DEF LivesBy
<1>2. ASSUME l[i].what = "Created" PROVE LivesBy(l, A \cup {i})
    BY <1>2 DEF LivesBy
<1>3. ASSUME l[i].what = "Updated" PROVE LivesBy(l, A \cup {i}) <=> LivesBy(l, A)
    BY <1>3 DEF LivesBy
<1>4. ASSUME l[i].what = "Deleted" PROVE ~ LivesBy(l, A \cup {i})
    <2>1. l[i].of # "Timeline"
        BY <1>4 DEF OfObject
    <2>2. \A j \in A \cup {i} : l[j].what # "EntryAdded"
        BY <2>1 DEF OfObject
    <2>3. \A j \in A \cup {i} : ~ (i < j)
        OBVIOUS
    <2> QED BY <1>4, <2>2, <2>3 DEF LivesBy
<1> QED BY <1>1, <1>2, <1>3, <1>4

LEMMA OneMoreField ==
    ASSUME NEW l, NEW A \in SUBSET Nat, NEW i \in Nat, \A j \in A : j < i
    PROVE  /\ l[i].name # Nothing => NamedBy(l, A \cup {i}, i)
           /\ l[i].name = Nothing => \A j : NamedBy(l, A, j) => NamedBy(l, A \cup {i}, j)
           /\ l[i].status # Nothing => RatedBy(l, A \cup {i}, i)
           /\ l[i].status = Nothing => \A j : RatedBy(l, A, j) => RatedBy(l, A \cup {i}, j)
<1>1. i \in A \cup {i} /\ \A j \in A \cup {i} : j <= i
    OBVIOUS
<1>2. ASSUME l[i].name # Nothing PROVE NamedBy(l, A \cup {i}, i)
    BY <1>1, <1>2 DEF NamedBy
<1>3. ASSUME l[i].name = Nothing, NEW j, NamedBy(l, A, j) PROVE NamedBy(l, A \cup {i}, j)
    BY <1>3 DEF NamedBy
<1>4. ASSUME l[i].status # Nothing PROVE RatedBy(l, A \cup {i}, i)
    BY <1>1, <1>4 DEF RatedBy
<1>5. ASSUME l[i].status = Nothing, NEW j, RatedBy(l, A, j) PROVE RatedBy(l, A \cup {i}, j)
    BY <1>5 DEF RatedBy
<1> QED BY <1>2, <1>3, <1>4, <1>5

(* A creation or an update of what is there.                               *)
LEMMA NoEntries ==
    ASSUME NEW l, NEW A, \A j \in A : l[j].of # "Timeline" /\ OfObject(l[j])
    PROVE  EntriesBy(l, A) = {}
BY DEF EntriesBy, OfObject

LEMMA CreatedSays ==
    ASSUME NEW l, NEW A \in SUBSET Nat, NEW i \in Nat, \A j \in A : j < i, OfObject(l[i]),
           \A j \in A : l[j].of = l[i].of /\ OfObject(l[j]), l[i].what = "Created"
    PROVE  SaysOf(l, A \cup {i}, NewContent(l[i]))
<1> DEFINE B == A \cup {i}
           c == NewContent(l[i])
<1>1. l[i].of # "Timeline" /\ l[i].name # Nothing /\ l[i].status # Nothing
    BY DEF OfObject
<1>2. EntriesBy(l, B) = {}
    BY <1>1, NoEntries
<1>3. NamedBy(l, B, i) /\ RatedBy(l, B, i)
    BY <1>1, OneMoreField
<1>4. c.name = l[i].name /\ c.status = Parsed(l[i].of, l[i].status) /\ c.entries = <<>>
      /\ c = FileContent(c.name, c.status, c.refs, c.entries)
    BY DEF NewContent, FileContent
<1> HIDE DEF B, c
<1>5. SaysOf(l, B, c)
    BY <1>2, <1>3, <1>4, EmptyIsSeq, FS_EmptySet DEF SaysOf
<1> QED BY <1>5 DEF B, c

LEMMA UpdatedSays ==
    ASSUME NEW l, NEW A \in SUBSET Nat, NEW i \in Nat, \A j \in A : j < i, OfObject(l[i]),
           \A j \in A : l[j].of = l[i].of /\ OfObject(l[j]), l[i].what = "Updated",
           NEW c, SaysOf(l, A, c)
    PROVE  SaysOf(l, A \cup {i}, Patched(c, l[i]))
<1> DEFINE B == A \cup {i}
           d == Patched(c, l[i])
<1>1. l[i].of # "Timeline"
    BY DEF OfObject
<1>2. EntriesBy(l, B) = {} /\ EntriesBy(l, A) = {}
    BY <1>1, NoEntries
<1>3. /\ d.name = IF l[i].name = Nothing THEN c.name ELSE l[i].name
      /\ d.status = IF l[i].status = Nothing THEN c.status ELSE Parsed(l[i].of, l[i].status)
      /\ d.entries = c.entries
      /\ d = FileContent(d.name, d.status, d.refs, d.entries)
    BY DEF Patched, FileContent
<1>4. \E j : NamedBy(l, B, j) /\ d.name = l[j].name
    <2>1. CASE l[i].name = Nothing
        BY <1>2, <1>3, <2>1, OneMoreField DEF SaysOf
    <2>2. CASE l[i].name # Nothing
        BY <1>3, <2>2, OneMoreField
    <2> QED BY <2>1, <2>2
<1>5. \E j : RatedBy(l, B, j) /\ d.status = Parsed(l[j].of, l[j].status)
    <2>1. CASE l[i].status = Nothing
        BY <1>2, <1>3, <2>1, OneMoreField DEF SaysOf
    <2>2. CASE l[i].status # Nothing
        BY <1>3, <2>2, OneMoreField
    <2> QED BY <2>1, <2>2
<1> HIDE DEF B, d
<1>6. SaysOf(l, B, d)
    BY <1>2, <1>3, <1>4, <1>5 DEF SaysOf
<1> QED BY <1>6 DEF B, d

(* An entry of a timeline: the entries are the events, in their order.     *)
EntriesAre(l, A, es) == /\ IsSeq(es) /\ Len(es) = Cardinality(A)
                        /\ \A j \in A : es[Cardinality({k \in A : k <= j})] = l[j].name

LEMMA EntrySays ==
    ASSUME NEW l, NEW A \in SUBSET Nat, IsFiniteSet(A), NEW i \in Nat, \A j \in A : j < i, OfObject(l[i]),
           \A j \in A : l[j].of = l[i].of /\ OfObject(l[j]), l[i].what = "EntryAdded",
           NEW es, EntriesAre(l, A, es), NEW r
    PROVE  SaysOf(l, A \cup {i}, FileContent(Nothing, Nothing, r, Append(es, l[i].name)))
<1> DEFINE B == A \cup {i}
           Until(T, j) == {k \in T : k <= j}
           new == Append(es, l[i].name)
<1>1. EntriesBy(l, B) = B
    BY DEF EntriesBy, OfObject
<1>2. IsFiniteSet(B) /\ Cardinality(B) = Cardinality(A) + 1 /\ Cardinality(A) \in Nat
    <2>1. i \notin A
        OBVIOUS
    <2> QED BY <2>1, FS_AddElement, FS_CardinalityType
<1>3. /\ IsSeq(new) /\ Len(new) = Cardinality(B) /\ new[Cardinality(B)] = l[i].name
      /\ \A n \in 1..Cardinality(A) : new[n] = es[n]
    BY <1>2, AppendFacts DEF EntriesAre
<1>4. Until(B, i) = B
    <2>1. \A k \in B : k <= i
        OBVIOUS
    <2> QED BY <2>1
<1>5. ASSUME NEW j \in A
      PROVE  Until(B, j) = Until(A, j) /\ Cardinality(Until(A, j)) \in 1..Cardinality(A)
    <2>1. Until(B, j) = Until(A, j)
        OBVIOUS
    <2>2. Until(A, j) \subseteq A /\ j \in Until(A, j)
        OBVIOUS
    <2> HIDE DEF Until
    <2>3. IsFiniteSet(Until(A, j)) /\ Cardinality(Until(A, j)) <= Cardinality(A)
        BY <2>2, FS_Subset
    <2>4. Cardinality(Until(A, j)) \in Nat /\ Cardinality(Until(A, j)) # 0
        BY <2>2, <2>3, FS_CardinalityType, FS_EmptySet
    <2> QED BY <1>2, <2>1, <2>3, <2>4
<1>6. ASSUME NEW j \in B PROVE new[Cardinality(Until(B, j))] = l[j].name
    <2>1. CASE j = i
        BY <1>3, <1>4, <2>1
    <2>2. CASE j \in A
        <3>1. es[Cardinality(Until(A, j))] = l[j].name
            BY <2>2 DEF EntriesAre
        <3> HIDE DEF Until, new
        <3> QED BY <1>3, <1>5, <2>2, <3>1
    <2> QED BY <2>1, <2>2
<1>7. B # {}
    OBVIOUS
<1> DEFINE c == FileContent(Nothing, Nothing, r, new)
<1>8. c = FileContent(c.name, c.status, c.refs, c.entries) /\ c.entries = new
    BY DEF FileContent
<1> HIDE DEF B, c, new
<1>9. SaysOf(l, B, c)
    BY <1>1, <1>3, <1>6, <1>7, <1>8 DEF SaysOf
<1> QED BY <1>9 DEF B, c, new

-----------------------------------------------------------------------------
(* project_event on files that are what the log says so far.               *)
LEMMA ProjectedObject ==
    ASSUME NEW fs, NEW e, OfObject(e), Projected(fs, e).ok
    PROVE  /\ Parses(e)
           /\ LET path == PathOf(e)
                  new == Projected(fs, e).files
              IN  /\ e.what = "Created" => new = Written(fs, path, NewContent(e))
                  /\ e.what = "Updated" => new = PatchedIn(fs, path, e)
                  /\ e.what = "Deleted" => new = Removed(fs, path)
                  /\ e.what = "EntryAdded" => new = Written(fs, path, WithEntry(fs, path, e))
<1>1. e.of \notin {"Agent", "Monitoring"}
    BY TypesOfReplay DEF OfObject
<1>2. Parses(e)
    BY <1>1 DEF Projected
<1> QED BY <1>1, <1>2 DEF Projected

LEMMA RefusedObject ==
    ASSUME NEW fs, NEW e, OfObject(e), ~ Projected(fs, e).ok
    PROVE  ~ Parses(e) \/ (e.what = "Deleted" /\ PathOf(e) \notin DOMAIN fs)
<1>1. e.of \notin {"Agent", "Monitoring"}
    BY TypesOfReplay DEF OfObject
<1>2. e.what \in {"Created", "Updated", "Deleted", "EntryAdded"}
    BY DEF OfObject
<1> QED BY <1>1, <1>2 DEF Projected, Exists
LEMMA ProjectKeeps ==
    ASSUME NEW l, NEW S \in SUBSET Nat, IsFiniteSet(S), NEW i \in Nat, OfObject(l[i]),
           \A j \in S : OfObject(l[j]) /\ (l[j].of = l[i].of => j < i),
           NEW fs, RebuiltFrom(l, S, fs), Projected(fs, l[i]).ok
    PROVE  RebuiltFrom(l, S \cup {i}, Projected(fs, l[i]).files)
<1> DEFINE path == PathOf(l[i])
           A == AboutIn(l, S, path)
           B == A \cup {i}
           T == S \cup {i}
           new == Projected(fs, l[i]).files
<1>1. A \in SUBSET Nat /\ IsFiniteSet(A) /\ \A j \in A : j < i /\ l[j].of = l[i].of /\ OfObject(l[j])
    <2>1. A \subseteq S
        BY DEF AboutIn
    <2>2. \A j \in A : PathOf(l[j]) = PathOf(l[i])
        BY DEF AboutIn
    <2>3. \A j \in A : PathOf(l[j])[1] = l[j].of /\ PathOf(l[i])[1] = l[i].of
        BY <2>1, PathOfObject
    <2>4. IsFiniteSet(A)
        BY <2>1, FS_Subset
    <2> QED BY <2>1, <2>2, <2>3, <2>4
<1>2. AboutIn(l, T, path) = B
    BY ProjectedObject DEF AboutIn
<1>3. \A p : p # path => AboutIn(l, T, p) = AboutIn(l, S, p)
    BY DEF AboutIn
<1>4. {PathOf(l[j]) : j \in T} = {PathOf(l[j]) : j \in S} \cup {path}
    OBVIOUS
<1>5. path \in DOMAIN fs <=> LivesBy(l, A)
    <2>1. LivesBy(l, A) => A # {}
        BY DEF LivesBy
    <2>2. A # {} => path \in {PathOf(l[j]) : j \in S}
        BY DEF AboutIn
    <2> QED BY <2>1, <2>2 DEF RebuiltFrom
<1>6. path \in DOMAIN fs => SaysOf(l, A, fs[path])
    BY DEF RebuiltFrom
<1>7. ASSUME NEW files2,
             /\ \A p : p # path => (p \in DOMAIN files2 <=> p \in DOMAIN fs)
             /\ \A p \in DOMAIN fs : p # path => files2[p] = fs[p]
             /\ path \in DOMAIN files2 <=> LivesBy(l, B)
             /\ path \in DOMAIN files2 => SaysOf(l, B, files2[path])
      PROVE  RebuiltFrom(l, T, files2)
    <2>1. \A p : p \in DOMAIN files2 <=> p \in {PathOf(l[j]) : j \in T} /\ LivesBy(l, AboutIn(l, T, p))
        <3>1. ASSUME NEW p, p # path
              PROVE  p \in DOMAIN files2 <=> p \in {PathOf(l[j]) : j \in T} /\ LivesBy(l, AboutIn(l, T, p))
            <4>1. p \in DOMAIN fs <=> p \in {PathOf(l[j]) : j \in S} /\ LivesBy(l, AboutIn(l, S, p))
                BY DEF RebuiltFrom
            <4> HIDE DEF path, T
            <4> QED BY <1>3, <1>4, <1>7, <3>1, <4>1
        <3>2. path \in DOMAIN files2 <=> path \in {PathOf(l[j]) : j \in T} /\ LivesBy(l, AboutIn(l, T, path))
            <4> HIDE DEF path, T, B
            <4> QED BY <1>2, <1>4, <1>7
        <3> HIDE DEF path, T
        <3> QED BY <3>1, <3>2
    <2>2. ASSUME NEW p \in DOMAIN files2 PROVE SaysOf(l, AboutIn(l, T, p), files2[p])
        <3>1. CASE p = path
            BY <1>2, <1>7, <3>1
        <3>2. CASE p # path
            <4>1. p \in DOMAIN fs /\ files2[p] = fs[p]
                BY <1>7, <3>2
            <4>2. SaysOf(l, AboutIn(l, S, p), fs[p])
                BY <4>1 DEF RebuiltFrom
            <4> QED BY <1>3, <3>2, <4>1, <4>2
        <3> QED BY <3>1, <3>2
    <2>3. DOMAIN files2 = {p \in {PathOf(l[j]) : j \in T} : LivesBy(l, AboutIn(l, T, p))}
        <3> HIDE DEF path, T
        <3> QED BY <2>1
    <2> HIDE DEF T
    <2> QED BY <2>2, <2>3 DEF RebuiltFrom
<1> HIDE DEF A, T, path, new
<1>8. ASSUME NEW c, new = Written(fs, path, c), LivesBy(l, B), SaysOf(l, B, c)
      PROVE  RebuiltFrom(l, T, new)
    <2>1. DOMAIN new = DOMAIN fs \cup {path} /\ new[path] = c /\ \A p \in DOMAIN fs : p # path => new[p] = fs[p]
        BY <1>8 DEF Written
    <2> HIDE DEF B
    <2> QED BY <1>7, <1>8, <2>1
<1>9. CASE l[i].what = "Created"
    <2>1. new = Written(fs, path, NewContent(l[i]))
        BY <1>9, ProjectedObject DEF new, path
    <2>2. LivesBy(l, B)
        BY <1>1, <1>9, OneMoreLives
    <2>3. SaysOf(l, B, NewContent(l[i]))
        BY <1>1, <1>9, CreatedSays
    <2> QED BY <1>8, <2>1, <2>2, <2>3 DEF T, new
<1>10. CASE l[i].what = "Updated"
    <2>1. new = PatchedIn(fs, path, l[i])
        BY <1>10, ProjectedObject DEF new, path
    <2>2. LivesBy(l, B) <=> LivesBy(l, A)
        BY <1>1, <1>10, OneMoreLives
    <2>3. CASE path \in DOMAIN fs
        <3>1. new = Written(fs, path, Patched(fs[path], l[i]))
            BY <2>1, <2>3 DEF PatchedIn, Exists
        <3>2. SaysOf(l, B, Patched(fs[path], l[i]))
            BY <1>1, <1>6, <1>10, <2>3, UpdatedSays
        <3> QED BY <1>5, <1>8, <2>2, <2>3, <3>1, <3>2 DEF T, new
    <2>4. CASE path \notin DOMAIN fs
        <3>1. new = fs
            BY <2>1, <2>4 DEF PatchedIn, Exists
        <3> HIDE DEF B
        <3>2. RebuiltFrom(l, T, fs)
            BY <1>5, <1>7, <2>2, <2>4
        <3> QED BY <3>1, <3>2 DEF T, new
    <2> QED BY <2>3, <2>4
<1>11. CASE l[i].what = "Deleted"
    <2>1. new = Removed(fs, path)
        BY <1>11, ProjectedObject DEF new, path
    <2>2. ~ LivesBy(l, B)
        BY <1>1, <1>11, OneMoreLives
    <2>3. DOMAIN new = DOMAIN fs \ {path} /\ \A p \in DOMAIN fs : p # path => new[p] = fs[p]
        BY <2>1 DEF Removed, Restrict
    <2> HIDE DEF B
    <2>4. RebuiltFrom(l, T, new)
        BY <1>7, <2>2, <2>3
    <2> QED BY <2>4 DEF T, new
<1>12. CASE l[i].what = "EntryAdded"
    <2>1. new = Written(fs, path, WithEntry(fs, path, l[i]))
        BY <1>12, ProjectedObject DEF new, path
    <2>2. LivesBy(l, B)
        BY <1>1, <1>12, OneMoreLives
    <2>3. l[i].of = "Timeline"
        BY <1>12 DEF OfObject
    <2>4. EntriesBy(l, A) = A
        BY <1>1, <2>3 DEF EntriesBy, OfObject
    <2> DEFINE es == IF path \in DOMAIN fs THEN fs[path].entries ELSE <<>>
    <2>5. PICK r : WithEntry(fs, path, l[i]) = FileContent(Nothing, Nothing, r, Append(es, l[i].name))
        BY DEF WithEntry, Exists
    <2>6. EntriesAre(l, A, es)
        <3>1. CASE path \in DOMAIN fs
            BY <1>6, <2>4, <3>1 DEF SaysOf, EntriesAre
        <3>2. CASE path \notin DOMAIN fs
            <4>1. A = {}
                BY <1>5, <2>4, <3>2 DEF LivesBy, EntriesBy
            <4> QED BY <3>2, <4>1, EmptyIsSeq, FS_EmptySet DEF EntriesAre
        <3> QED BY <3>1, <3>2
    <2> HIDE DEF es
    <2>7. SaysOf(l, B, WithEntry(fs, path, l[i]))
        BY <1>1, <1>12, <2>5, <2>6, EntrySays
    <2> QED BY <1>8, <2>1, <2>2, <2>7 DEF T, new
<1>13. l[i].what \in {"Created", "Updated", "Deleted", "EntryAdded"}
    BY DEF OfObject
<1> QED BY <1>9, <1>10, <1>11, <1>12, <1>13
-----------------------------------------------------------------------------
(* Files that are what all events of objects say are the current state.    *)
OfObjects(l) == {i \in DOMAIN l : l[i].of \in ToSet(AggregateTypes)}
LogInv == IsSeq(log) /\ \A i \in DOMAIN log : log[i] \in Event

LEMMA PositionsInLog ==
    ASSUME LogInv, NEW S \in SUBSET DOMAIN log
    PROVE  S \in SUBSET Nat /\ IsFiniteSet(S) /\ \A i \in S : i > 0
<1>1. DOMAIN log = 1..Len(log) /\ Len(log) \in Nat
    BY AppendFacts DEF LogInv
<1>2. IsFiniteSet(1..Len(log))
    BY <1>1, FS_Interval
<1> QED BY <1>1, <1>2, FS_Subset

LEMMA AboutObjects ==
    ASSUME LogInv, NEW p
    PROVE  /\ About(p) = AboutIn(log, OfObjects(log), p)
           /\ \A i \in About(p) : OfObject(log[i]) /\ log[i].of = p[1]
<1>1. \A i \in DOMAIN log : log[i].of \notin {"Agent", "Monitoring"} <=> log[i].of \in ToSet(AggregateTypes)
    BY VifsAssumption, TypesOfReplay DEF LogInv
<1>2. About(p) = AboutIn(log, OfObjects(log), p)
    BY <1>1 DEF About, AboutIn, OfObjects
<1>3. \A i \in About(p) : OfObject(log[i]) /\ PathOf(log[i]) = p
    BY EventsOfObjects DEF About, LogInv
<1>4. \A i \in About(p) : log[i].of = p[1]
    BY <1>3, PathOfObject
<1> QED BY <1>2, <1>3, <1>4

LEMMA LastOfKind ==
    ASSUME LogInv, NEW p, NEW what
    PROVE  LET T == Of(p, what) IN
           /\ Max(T \cup {0}) \in T \cup {0} /\ Max(T \cup {0}) \in Nat
           /\ \A i \in T : i <= Max(T \cup {0}) /\ i \in Nat /\ i > 0
<1> DEFINE T == Of(p, what)
<1>1. T \in SUBSET DOMAIN log
    BY DEF Of, About
<1>2. T \in SUBSET Nat /\ IsFiniteSet(T) /\ \A i \in T : i > 0
    BY <1>1, PositionsInLog
<1> HIDE DEF T
<1>3. T \cup {0} \in SUBSET Nat /\ IsFiniteSet(T \cup {0}) /\ T \cup {0} # {}
    BY <1>2, FS_AddElement
<1>4. Max(T \cup {0}) \in T \cup {0} /\ \A n \in T \cup {0} : n <= Max(T \cup {0})
    BY <1>3, MaxIsGreatest
<1>5. Max(T \cup {0}) \in Nat
    BY <1>3, <1>4
<1>6. /\ Max(T \cup {0}) \in T \cup {0} /\ Max(T \cup {0}) \in Nat
      /\ \A i \in T : i <= Max(T \cup {0}) /\ i \in Nat /\ i > 0
    BY <1>2, <1>4, <1>5
<1> QED BY <1>6 DEF T

LEMMA LivesAsSaid ==
    ASSUME LogInv, NEW p
    PROVE  Lives(p) <=> LivesBy(log, About(p))
<1> DEFINE C == Of(p, "Created")
           D == Of(p, "Deleted")
           deleted == Max(D \cup {0})
<1>1. /\ Born(p) \in C \cup {0} /\ Born(p) \in Nat
      /\ \A i \in C : i <= Born(p) /\ i \in Nat /\ i > 0
    BY LastOfKind DEF Born
<1>2. /\ deleted \in D \cup {0} /\ deleted \in Nat
      /\ \A i \in D : i <= deleted /\ i \in Nat /\ i > 0
    BY LastOfKind
<1>3. LivesBy(log, About(p)) <=> \/ Of(p, "EntryAdded") # {}
                                 \/ \E i \in C : \A j \in D : j < i
    BY DEF LivesBy, Of
<1>4. Lives(p) <=> Born(p) > deleted \/ Of(p, "EntryAdded") # {}
    BY DEF Lives
<1> HIDE DEF C, D, deleted
<1>5. ASSUME NEW i \in C, \A j \in D : j < i PROVE Born(p) > deleted
    <2>1. deleted < i
        BY <1>1, <1>2, <1>5
    <2> QED BY <1>1, <1>2, <2>1
<1>6. ASSUME Born(p) > deleted PROVE \E i \in C : \A j \in D : j < i
    <2>1. Born(p) \in C
        BY <1>1, <1>2, <1>6
    <2>2. \A j \in D : j < Born(p)
        BY <1>1, <1>2, <1>6
    <2> QED BY <2>1, <2>2
<1> QED BY <1>3, <1>4, <1>5, <1>6

LEMMA FieldsAsSaid ==
    ASSUME LogInv, NEW p, SaysOf(log, About(p), files[p])
    PROVE  Agrees(p)
<1>1. Of(p, "EntryAdded") = EntriesBy(log, About(p))
    BY DEF Of, EntriesBy
<1>2. ASSUME Born(p) > 0
      PROVE  /\ files[p].name = log[Max(Named(p))].name
             /\ files[p].status = Parsed(log[Max(Rated(p))].of, log[Max(Rated(p))].status)
    <2>1. Born(p) \in Nat /\ Born(p) \in Of(p, "Created")
        BY <1>2, LastOfKind DEF Born
    <2>2. Born(p) \in About(p) /\ log[Born(p)].what = "Created"
        BY <2>1 DEF Of
    <2>3. log[Born(p)].name # Nothing /\ log[Born(p)].status # Nothing /\ p[1] # "Timeline"
        BY <2>2, AboutObjects DEF OfObject
    <2>4. EntriesBy(log, About(p)) = {}
        BY <2>3, AboutObjects, NoEntries
    <2>5. About(p) \in SUBSET Nat
        <3>1. About(p) \in SUBSET DOMAIN log
            BY DEF About
        <3> QED BY <3>1, PositionsInLog
    <2>6. PICK i : NamedBy(log, About(p), i) /\ files[p].name = log[i].name
        BY <2>4 DEF SaysOf
    <2>7. i \in Named(p) /\ \A n \in Named(p) : n <= i
        BY <2>2, <2>3, <2>6 DEF NamedBy, Named
    <2>8. Max(Named(p)) = i
        <3>1. Named(p) \in SUBSET Nat
            BY <2>5 DEF Named
        <3> QED BY <2>7, <3>1, MaxIs
    <2>9. PICK k : RatedBy(log, About(p), k) /\ files[p].status = Parsed(log[k].of, log[k].status)
        BY <2>4 DEF SaysOf
    <2>10. k \in Rated(p) /\ \A n \in Rated(p) : n <= k
        BY <2>2, <2>3, <2>9 DEF RatedBy, Rated
    <2>11. Max(Rated(p)) = k
        <3>1. Rated(p) \in SUBSET Nat
            BY <2>5 DEF Rated
        <3> QED BY <2>10, <3>1, MaxIs
    <2> QED BY <2>6, <2>8, <2>9, <2>11
<1>3. /\ Len(files[p].entries) = Cardinality(Of(p, "EntryAdded"))
      /\ \A i \in Of(p, "EntryAdded") :
            files[p].entries[Cardinality({j \in Of(p, "EntryAdded") : j <= i})] = log[i].name
    BY <1>1 DEF SaysOf
<1> QED BY <1>2, <1>3 DEF Agrees

LEMMA RebuiltIsRead ==
    ASSUME LogInv, replay.type \in 0..11,
           NEW S, S = {i \in DOMAIN log : log[i].of \in ReadTypes}, RebuiltFrom(log, S, files)
    PROVE  StateRead
<1>1. ReadTypes \subseteq ToSet(AggregateTypes)
    <2>1. 1..replay.type \subseteq 1..11
        OBVIOUS
    <2> QED BY <2>1, TypesOfReplay DEF ReadTypes
<1>2. \A p : /\ About(p) = AboutIn(log, OfObjects(log), p)
            /\ \A i \in About(p) : OfObject(log[i]) /\ log[i].of = p[1]
    BY AboutObjects
<1>3. S \subseteq OfObjects(log)
    BY <1>1 DEF OfObjects
<1>4. ASSUME NEW p, p[1] \in ReadTypes PROVE AboutIn(log, S, p) = About(p)
    <2>1. \A i \in About(p) : i \in DOMAIN log /\ log[i].of \in ReadTypes
        BY <1>2, <1>4 DEF About
    <2> QED BY <1>2, <1>3, <2>1 DEF AboutIn
<1>5. \A p : Lives(p) <=> LivesBy(log, About(p))
    BY LivesAsSaid
<1>6. \A p : LivesBy(log, About(p)) => \E i \in About(p) : TRUE
    BY DEF LivesBy
<1>7. ASSUME NEW i \in S PROVE PathOf(log[i])[1] \in ReadTypes
    <2>1. log[i] \in Event /\ log[i].of \in ReadTypes /\ log[i].of \notin {"Agent", "Monitoring"}
        BY <1>1, TypesOfReplay DEF LogInv
    <2> QED BY <2>1, EventsOfObjects, PathOfObject
<1>8. \A p \in DOMAIN files : p[1] \in ReadTypes
    BY <1>7 DEF RebuiltFrom
<1>9. \A p : p \in DOMAIN files <=> p \in Recorded /\ p[1] \in ReadTypes
    <2>1. ASSUME NEW p, p[1] \in ReadTypes PROVE p \in DOMAIN files <=> p \in Recorded
        <3>1. p \in DOMAIN files <=> p \in {PathOf(log[i]) : i \in S} /\ LivesBy(log, About(p))
            BY <1>4, <2>1 DEF RebuiltFrom
        <3>2. LivesBy(log, About(p)) => p \in {PathOf(log[i]) : i \in S}
            BY <1>4, <1>6, <2>1 DEF AboutIn
        <3>3. {PathOf(log[i]) : i \in S} \subseteq {PathOf(log[i]) : i \in DOMAIN log}
            OBVIOUS
        <3> QED BY <1>5, <3>1, <3>2, <3>3 DEF Recorded
    <2> QED BY <1>8, <2>1
<1>10. {p \in DOMAIN files : p[1] \in ToSet(AggregateTypes)} = {p \in Recorded : p[1] \in ReadTypes}
    BY <1>1, <1>9
<1>11. ASSUME NEW p \in Recorded, p[1] \in ReadTypes PROVE Agrees(p)
    <2>1. p \in DOMAIN files /\ AboutIn(log, S, p) = About(p)
        BY <1>4, <1>9, <1>11
    <2>2. SaysOf(log, About(p), files[p])
        BY <2>1 DEF RebuiltFrom
    <2> QED BY <2>2, FieldsAsSaid
<1> QED BY <1>10, <1>11 DEF StateRead
-----------------------------------------------------------------------------
(* The replay: what it has projected, and what it is still to project of   *)
(* the events of the type it has read last.                                *)
ReplayRun == [status : {"idle", "running", "done", "unread", "failed"}, type : 0..11, batch : SUBSET Nat,
              total : Nat, fresh : BOOLEAN, runs : Nat]
Seen(l, type, batch) == {i \in DOMAIN l : \E n \in 1..type : AggregateTypes[n] = l[i].of} \ batch
SoFar(l, r, fs) ==
    LET seen == Seen(l, r.type, r.batch) IN
    /\ \A b \in r.batch : r.type # 0 /\ b \in DOMAIN l /\ l[b].of = AggregateTypes[r.type]
    /\ \A i \in seen, b \in r.batch : l[i].of = l[b].of => i < b
    /\ RebuiltFrom(l, seen, fs) /\ r.total = Cardinality(seen)
FreshInv ==
    /\ moving = Nothing \/ ~ moving.written
    /\ replay.status \in {"running", "done", "unread"} => SoFar(log, replay, files)
    /\ replay.status \in {"done", "unread"} => replay.batch = {}
    /\ replay.status = "done" => replay.type = 11
    /\ replay.status = "failed" => garbled # {} \/ \E i \in DOMAIN log : WasRefused(i)
VifsInv == LogInv /\ replay \in ReplayRun /\ (replay.fresh => FreshInv)

LEMMA MinIsLeast ==
    ASSUME NEW T \in SUBSET Nat, T # {}
    PROVE  Min(T) \in T /\ \A n \in T : Min(T) <= n
<1>1. \E x \in T : \A y \in T : x <= y
    BY LeastOf
<1> QED BY <1>1 DEF Min

LEMMA SeenIsFinite ==
    ASSUME LogInv, NEW type \in 0..11, NEW batch
    PROVE  /\ Seen(log, type, batch) \in SUBSET Nat /\ IsFiniteSet(Seen(log, type, batch))
           /\ \A i \in Seen(log, type, batch) : OfObject(log[i])
<1>1. Seen(log, type, batch) \in SUBSET DOMAIN log
    BY DEF Seen
<1>2. \A i \in Seen(log, type, batch) : log[i] \in Event /\ log[i].of \in ToSet(AggregateTypes)
    <2>1. \A n \in 1..type : AggregateTypes[n] \in ToSet(AggregateTypes)
        BY TypesOfReplay
    <2> QED BY <2>1 DEF Seen, LogInv
<1> QED BY <1>1, <1>2, PositionsInLog, EventsOfObjects, TypesOfReplay

(* A new run, on no files.                                                 *)
LEMMA NothingSeen ==
    ASSUME NEW l, NEW r, r.type = 0, r.batch = {}, r.total = 0
    PROVE  SoFar(l, r, <<>>)
<1>1. Seen(l, r.type, r.batch) = {}
    BY DEF Seen
<1>2. RebuiltFrom(l, {}, <<>>)
    BY DEF RebuiltFrom
<1> QED BY <1>1, <1>2, FS_EmptySet DEF SoFar

(* The next type is read.                                                  *)
LEMMA NextType ==
    ASSUME NEW l, NEW fs, NEW r \in ReplayRun, SoFar(l, r, fs), r.batch = {}, r.type < 11,
           NEW q, q.type = r.type + 1, q.total = r.total,
           q.batch = {i \in DOMAIN l : l[i].of = AggregateTypes[r.type + 1]}
    PROVE  SoFar(l, q, fs)
<1>1. PICK t \in 0..10 : t = r.type
    BY DEF ReplayRun
<1>2. \A n \in 1..t : AggregateTypes[n] # AggregateTypes[t + 1]
    BY TypesOfReplay
<1>3. 1..(t + 1) = (1..t) \cup {t + 1}
    OBVIOUS
<1>4. Seen(l, q.type, q.batch) = Seen(l, r.type, r.batch)
    <2>1. Seen(l, t + 1, q.batch) = Seen(l, t, {})
        BY <1>1, <1>2, <1>3 DEF Seen
    <2> QED BY <1>1, <2>1
<1>5. \A i \in Seen(l, r.type, r.batch), b \in q.batch : l[i].of # l[b].of
    BY <1>1, <1>2 DEF Seen
<1>6. \A b \in q.batch : q.type # 0 /\ b \in DOMAIN l /\ l[b].of = AggregateTypes[q.type]
    BY <1>1
<1> QED BY <1>4, <1>5, <1>6 DEF SoFar

(* The next event of it is projected.                                      *)
LEMMA NextEvent ==
    ASSUME LogInv, NEW fs, NEW r \in ReplayRun, SoFar(log, r, fs), r.batch # {},
           NEW i, i = Min(r.batch), Projected(fs, log[i]).ok,
           NEW q, q.type = r.type, q.batch = r.batch \ {i}, q.total = r.total + 1
    PROVE  SoFar(log, q, Projected(fs, log[i]).files)
<1> DEFINE S == Seen(log, r.type, r.batch)
<1>1. r.batch \in SUBSET Nat /\ r.type \in 0..11
    BY DEF ReplayRun
<1>2. i \in r.batch /\ i \in Nat /\ \A b \in r.batch : i <= b
    BY <1>1, MinIsLeast
<1>3. i \in DOMAIN log /\ r.type \in 1..r.type /\ log[i].of = AggregateTypes[r.type]
    BY <1>1, <1>2 DEF SoFar
<1>4. Seen(log, q.type, q.batch) = S \cup {i} /\ i \notin S
    BY <1>2, <1>3 DEF Seen
<1>5. S \in SUBSET Nat /\ IsFiniteSet(S) /\ \A j \in S : OfObject(log[j]) /\ (log[j].of = log[i].of => j < i)
    BY <1>1, <1>2, SeenIsFinite DEF SoFar
<1>6. OfObject(log[i])
    <2>1. r.type \in 1..11
        BY <1>1, <1>3
    <2>2. log[i].of \in ToSet(AggregateTypes) /\ log[i] \in Event
        BY <1>3, <2>1, TypesOfReplay DEF LogInv
    <2> QED BY <2>2, TypesOfReplay, EventsOfObjects
<1>7. RebuiltFrom(log, S, fs) /\ r.total = Cardinality(S)
    BY DEF SoFar
<1>8. RebuiltFrom(log, S \cup {i}, Projected(fs, log[i]).files)
    <2> HIDE DEF S
    <2> QED BY <1>2, <1>5, <1>6, <1>7, ProjectKeeps
<1>9. q.total = Cardinality(S \cup {i})
    <2> HIDE DEF S
    <2>1. Cardinality(S \cup {i}) = Cardinality(S) + 1
        BY <1>4, <1>5, FS_AddElement
    <2> QED BY <1>7, <2>1
<1>10. \A b \in q.batch : q.type # 0 /\ b \in DOMAIN log /\ log[b].of = AggregateTypes[q.type]
    BY DEF SoFar
<1>11. \A j \in S \cup {i}, b \in q.batch : log[j].of = log[b].of => j < b
    <2>1. ASSUME NEW b \in q.batch PROVE i < b /\ \A j \in S : log[j].of = log[b].of => j < b
        <3>1. b \in r.batch /\ b # i /\ b \in Nat
            BY <1>1
        <3>2. i < b
            BY <1>2, <3>1
        <3> QED BY <3>1, <3>2 DEF SoFar
    <2> QED BY <2>1
<1> HIDE DEF S
<1> QED BY <1>4, <1>8, <1>9, <1>10, <1>11 DEF SoFar

(* It is refused: then it was refused before, too.                         *)
LEMMA RefusedAgain ==
    ASSUME LogInv, NEW fs, NEW r \in ReplayRun, SoFar(log, r, fs), r.batch # {},
           NEW i, i = Min(r.batch), ~ Projected(fs, log[i]).ok
    PROVE  \E n \in DOMAIN log : WasRefused(n)
<1> DEFINE S == Seen(log, r.type, r.batch)
           path == PathOf(log[i])
<1>1. r.batch \in SUBSET Nat /\ r.type \in 0..11
    BY DEF ReplayRun
<1>2. i \in r.batch /\ i \in Nat /\ \A b \in r.batch : i <= b
    BY <1>1, MinIsLeast
<1>3. i \in DOMAIN log /\ r.type \in 1..r.type /\ log[i].of = AggregateTypes[r.type]
    BY <1>1, <1>2 DEF SoFar
<1>4. OfObject(log[i]) /\ log[i].of \notin {"Agent", "Monitoring"}
    <2>1. r.type \in 1..11
        BY <1>1, <1>3
    <2>2. log[i].of \in ToSet(AggregateTypes) /\ log[i] \in Event
        BY <1>3, <2>1, TypesOfReplay DEF LogInv
    <2> QED BY <2>2, TypesOfReplay, EventsOfObjects
<1>5. CASE \E n \in DOMAIN log : log[n].of \notin {"Agent", "Monitoring"} /\ ~ Parses(log[n])
    BY <1>5 DEF WasRefused
<1>6. CASE \A n \in DOMAIN log : log[n].of \notin {"Agent", "Monitoring"} => Parses(log[n])
    <2>1. log[i].what = "Deleted" /\ path \notin DOMAIN fs
        BY <1>3, <1>4, <1>6, RefusedObject
    <2>2. ASSUME NEW j \in 1..(i - 1), log[j].what = "Created", PathOf(log[j]) = path
          PROVE  \E k \in (j + 1)..(i - 1) : log[k].what = "Deleted" /\ PathOf(log[k]) = path
        <3>1. j \in DOMAIN log /\ j \in Nat /\ j < i
            <4>1. DOMAIN log = 1..Len(log) /\ Len(log) \in Nat
                BY AppendFacts DEF LogInv
            <4> QED BY <1>2, <1>3, <4>1
        <3>2. log[j].of = log[i].of
            <4>1. log[j] \in Event /\ log[j].what # "Heartbeat"
                BY <2>2, <3>1 DEF LogInv
            <4>2. PathOf(log[j])[1] = log[j].of
                BY <4>1 DEF PathOf
            <4>3. path[1] = log[i].of
                BY <1>4, PathOfObject
            <4> QED BY <2>2, <4>2, <4>3
        <3>3. Parses(log[j])
            BY <1>4, <1>6, <3>1, <3>2
        <3>4. j \notin r.batch
            BY <1>2, <3>1
        <3>5. j \in S
            BY <1>3, <3>1, <3>2, <3>4 DEF Seen
        <3>6. j \in AboutIn(log, S, path)
            BY <2>2, <3>3, <3>5 DEF AboutIn
        <3>7. ~ LivesBy(log, AboutIn(log, S, path))
            <4>1. path \in {PathOf(log[n]) : n \in S}
                BY <2>2, <3>5
            <4>2. RebuiltFrom(log, S, fs)
                BY DEF SoFar
            <4> HIDE DEF S, path
            <4> QED BY <2>1, <4>1, <4>2 DEF RebuiltFrom
        <3>8. PICK k \in AboutIn(log, S, path) : log[k].what = "Deleted" /\ ~ (k < j)
            BY <2>2, <3>6, <3>7 DEF LivesBy
        <3>9. k \in S /\ k \in Nat /\ PathOf(log[k]) = path /\ OfObject(log[k])
            BY <1>1, SeenIsFinite DEF AboutIn
        <3>10. k < i
            <4>1. log[k].of = log[i].of
                BY <1>4, <3>9, PathOfObject
            <4> QED BY <1>2, <3>9, <4>1 DEF SoFar
        <3>11. k # j
            BY <2>2, <3>8
        <3>12. k \in (j + 1)..(i - 1)
            BY <1>2, <3>1, <3>8, <3>9, <3>10, <3>11
        <3> QED BY <3>8, <3>9, <3>12
    <2> QED BY <1>3, <2>1, <2>2 DEF WasRefused
<1> QED BY <1>5, <1>6
LEMMA NotFreshKeeps ==
    ASSUME LogInv', replay' \in ReplayRun, ~ replay'.fresh
    PROVE  VifsInv'
BY DEF VifsInv

LEMMA RestOfVifsKeeps ==
    ASSUME VifsInv, log' = log, garbled' = garbled, files' = files, replay' = replay,
           replay.fresh => moving' = Nothing \/ ~ moving'.written
    PROVE  VifsInv'
<1>1. (\E i \in DOMAIN log : WasRefused(i)) => \E i \in DOMAIN log' : WasRefused(i)'
    BY DEF WasRefused
<1>2. LogInv'
    BY DEF VifsInv, LogInv
<1> QED BY <1>1, <1>2 DEF VifsInv, FreshInv

LEMMA ReplayInductive ==
    ASSUME VifsInv, ReplayStart \/ ReplayRead \/ ReplayReadFails \/ ReplayProject \/ ReplayDone
    PROVE  VifsInv'
<1>1. log' = log /\ garbled' = garbled /\ moving' = moving
    BY DEF ReplayStart, ReplayRead, ReplayReadFails, ReplayProject, ReplayDone
<1>2. LogInv'
    BY <1>1 DEF VifsInv, LogInv
<1>3. replay \in ReplayRun /\ LogInv
    BY DEF VifsInv
<1>4. CASE ReplayStart
    <2>1. replay' = [status |-> "running", type |-> 0, batch |-> {}, total |-> 0,
                     fresh |-> files = <<>> /\ moving = Nothing, runs |-> replay.runs + 1]
        BY <1>4 DEF ReplayStart, Idle
    <2>2. replay' \in ReplayRun
        BY <1>3, <2>1 DEF ReplayRun
    <2>3. ASSUME replay'.fresh PROVE FreshInv'
        <3>1. files' = <<>> /\ moving' = Nothing
            BY <1>4, <2>1, <2>3 DEF ReplayStart
        <3>2. PICK r : r = replay'
            OBVIOUS
        <3>3. SoFar(log, r, <<>>)
            BY <2>1, <3>2, NothingSeen
        <3> QED BY <1>1, <2>1, <3>1, <3>2, <3>3 DEF FreshInv
    <2> QED BY <1>2, <2>2, <2>3 DEF VifsInv
<1>5. CASE ReplayRead
    <2>1. PICK q : q = replay'
        OBVIOUS
    <2>2. /\ q.status = "running" /\ q.type = replay.type + 1 /\ q.total = replay.total
          /\ q.batch = {i \in DOMAIN log : log[i].of = AggregateTypes[replay.type + 1]}
          /\ q.fresh = replay.fresh /\ q \in ReplayRun
        <3>1. DOMAIN log \subseteq Nat
            BY <1>3, PositionsInLog
        <3>2. replay.status = "running" /\ replay.type < 11
            BY <1>5, TypesOfReplay DEF ReplayRead
        <3>3. PICK B : B = {i \in DOMAIN log : log[i].of = AggregateTypes[replay.type + 1]}
            OBVIOUS
        <3>4. PICK r : r = replay
            OBVIOUS
        <3>5. q = [r EXCEPT !.type = r.type + 1, !.batch = B]
            BY <1>5, <2>1, <3>3, <3>4 DEF ReplayRead
        <3>6. B \in SUBSET Nat /\ r.type + 1 \in 0..11
            BY <1>3, <3>1, <3>2, <3>3, <3>4 DEF ReplayRun
        <3>7. r \in ReplayRun
            BY <1>3, <3>4
        <3>8. /\ q \in ReplayRun /\ q.type = r.type + 1 /\ q.batch = B
              /\ q.status = r.status /\ q.total = r.total /\ q.fresh = r.fresh
            BY <3>5, <3>6, <3>7 DEF ReplayRun
        <3> QED BY <3>2, <3>3, <3>4, <3>8
    <2>3. ASSUME replay'.fresh PROVE FreshInv'
        <3>1. replay.fresh /\ FreshInv /\ replay.status = "running" /\ replay.batch = {} /\ replay.type < 11
            BY <1>5, <2>1, <2>2, <2>3, TypesOfReplay DEF VifsInv, ReplayRead
        <3>2. PICK r, fs : r = replay /\ fs = files
            OBVIOUS
        <3>3. SoFar(log, q, fs)
            BY <1>3, <2>2, <3>1, <3>2, NextType DEF FreshInv
        <3>4. files' = files
            BY <1>5 DEF ReplayRead
        <3> QED BY <1>1, <2>1, <2>2, <3>1, <3>2, <3>3, <3>4 DEF FreshInv
    <2> QED BY <1>2, <2>1, <2>2, <2>3 DEF VifsInv
<1>6. CASE ReplayProject
    <2>1. PICK i : i = Min(replay.batch)
        OBVIOUS
    <2>2. PICK q, r, fs : q = replay' /\ r = replay /\ fs = files
        OBVIOUS
    <2>3. /\ r.status = "running" /\ r.batch # {}
          /\ IF i \notin garbled /\ Projected(fs, log[i]).ok
             THEN /\ files' = Projected(fs, log[i]).files
                  /\ q = [r EXCEPT !.batch = @ \ {i}, !.total = @ + 1]
             ELSE q = [r EXCEPT !.status = "failed"]
        BY <1>6, <2>1, <2>2 DEF ReplayProject
    <2>4. r \in ReplayRun
        BY <1>3, <2>2
    <2>5. CASE i \notin garbled /\ Projected(fs, log[i]).ok
        <3>1. q = [r EXCEPT !.batch = @ \ {i}, !.total = @ + 1]
            BY <2>3, <2>5
        <3>2. /\ q.status = "running" /\ q.type = r.type /\ q.batch = r.batch \ {i} /\ q.total = r.total + 1
              /\ q.fresh = r.fresh /\ q \in ReplayRun
            <4>1. PICK B : B = r.batch \ {i}
                OBVIOUS
            <4>2. PICK n : n = r.total + 1
                OBVIOUS
            <4>3. q = [r EXCEPT !.batch = B, !.total = n]
                BY <3>1, <4>1, <4>2
            <4>4. B \in SUBSET Nat /\ n \in Nat
                BY <2>4, <4>1, <4>2 DEF ReplayRun
            <4>5. /\ q \in ReplayRun /\ q.batch = B /\ q.total = n
                  /\ q.type = r.type /\ q.status = r.status /\ q.fresh = r.fresh
                BY <2>4, <4>3, <4>4 DEF ReplayRun
            <4> QED BY <2>3, <4>1, <4>2, <4>5
        <3>3. ASSUME r.fresh PROVE FreshInv'
            <4>1. FreshInv
                BY <2>2, <3>3 DEF VifsInv
            <4>2. SoFar(log, r, fs)
                BY <2>2, <2>3, <4>1 DEF FreshInv
            <4>3. SoFar(log, q, Projected(fs, log[i]).files)
                BY <1>3, <2>1, <2>2, <2>3, <2>4, <2>5, <3>2, <4>2, NextEvent
            <4>4. files' = Projected(fs, log[i]).files
                BY <2>3, <2>5
            <4>5. moving = Nothing \/ ~ moving.written
                BY <4>1 DEF FreshInv
            <4> QED BY <1>1, <2>2, <3>2, <4>3, <4>4, <4>5 DEF FreshInv
        <3> QED BY <1>2, <2>2, <3>2, <3>3 DEF VifsInv
    <2>6. CASE i \in garbled \/ ~ Projected(fs, log[i]).ok
        <3>1. q = [r EXCEPT !.status = "failed"]
            BY <2>3, <2>6
        <3>2. q.status = "failed" /\ q.fresh = r.fresh /\ q \in ReplayRun
            BY <2>4, <3>1 DEF ReplayRun
        <3>3. ASSUME r.fresh PROVE FreshInv'
            <4>1. FreshInv
                BY <2>2, <3>3 DEF VifsInv
            <4>2. SoFar(log, r, fs)
                BY <2>2, <2>3, <4>1 DEF FreshInv
            <4>3. garbled # {} \/ \E n \in DOMAIN log : WasRefused(n)
                BY <1>3, <2>1, <2>2, <2>3, <2>4, <2>6, <4>2, RefusedAgain
            <4>4. garbled' # {} \/ \E n \in DOMAIN log' : WasRefused(n)'
                BY <1>1, <4>3 DEF WasRefused
            <4> QED BY <1>1, <2>2, <3>2, <4>1, <4>4 DEF FreshInv
        <3> QED BY <1>2, <2>2, <3>2, <3>3 DEF VifsInv
    <2> QED BY <2>5, <2>6
<1>7. CASE ReplayDone
    <2>1. PICK q : q = replay'
        OBVIOUS
    <2>2. /\ q.status = "done" /\ q.type = 11 /\ q.batch = {} /\ q.total = replay.total /\ q.fresh = replay.fresh
          /\ q \in ReplayRun /\ replay.status = "running" /\ replay.type = 11 /\ replay.batch = {}
        BY <1>3, <1>7, <2>1, TypesOfReplay DEF ReplayDone, ReplayRun
    <2>3. ASSUME replay'.fresh PROVE FreshInv'
        <3>1. FreshInv
            BY <2>1, <2>2, <2>3 DEF VifsInv
        <3>2. SoFar(log, q, files)
            BY <2>2, <3>1 DEF FreshInv, SoFar
        <3>3. files' = files
            BY <1>7 DEF ReplayDone
        <3> QED BY <1>1, <2>1, <2>2, <3>1, <3>2, <3>3 DEF FreshInv
    <2> QED BY <1>2, <2>1, <2>2, <2>3 DEF VifsInv
<1>8. CASE ReplayReadFails
    <2>1. PICK q : q = replay'
        OBVIOUS
    <2>2. /\ q.status = "unread" /\ q.type = replay.type /\ q.batch = {} /\ q.total = replay.total
          /\ q.fresh = replay.fresh /\ q \in ReplayRun /\ replay.status = "running" /\ replay.batch = {}
        BY <1>3, <1>8, <2>1 DEF ReplayReadFails, ReplayRun
    <2>3. ASSUME replay'.fresh PROVE FreshInv'
        <3>1. FreshInv
            BY <2>1, <2>2, <2>3 DEF VifsInv
        <3>2. SoFar(log, q, files)
            BY <2>2, <3>1 DEF FreshInv, SoFar
        <3>3. files' = files
            BY <1>8 DEF ReplayReadFails
        <3> QED BY <1>1, <2>1, <2>2, <3>1, <3>2, <3>3 DEF FreshInv
    <2> QED BY <1>2, <2>1, <2>2, <2>3 DEF VifsInv
<1> QED BY <1>4, <1>5, <1>6, <1>7, <1>8

LEMMA VifsInductive == VifsInv /\ [VifsNext]_vifsVars => VifsInv'
<1> SUFFICES ASSUME VifsInv, [VifsNext]_vifsVars PROVE VifsInv'
    OBVIOUS
<1>1. replay \in ReplayRun /\ LogInv
    BY DEF VifsInv
<1>2. ASSUME log' = log PROVE LogInv'
    BY <1>1, <1>2 DEF LogInv
<1>3. [replay EXCEPT !.fresh = FALSE] \in ReplayRun /\ ~ [replay EXCEPT !.fresh = FALSE].fresh
    BY <1>1 DEF ReplayRun
<1>4. ASSUME NEW e \in Event, RecordEvent(e) \/ StoreOther(e) PROVE VifsInv'
    <2>1. log' = Append(log, e) /\ replay' = [replay EXCEPT !.fresh = FALSE]
        BY <1>4 DEF RecordEvent, StoreOther
    <2>2. LogInv'
        <3>1. /\ IsSeq(Append(log, e)) /\ DOMAIN Append(log, e) = 1..(Len(log) + 1) /\ Len(log) \in Nat
              /\ Append(log, e)[Len(log) + 1] = e /\ DOMAIN log = 1..Len(log)
              /\ \A n \in 1..Len(log) : Append(log, e)[n] = log[n]
            BY <1>1, AppendFacts DEF LogInv
        <3>2. \A n \in 1..(Len(log) + 1) : n = Len(log) + 1 \/ n \in 1..Len(log)
            BY <3>1
        <3> QED BY <1>1, <2>1, <3>1, <3>2 DEF LogInv
    <2> QED BY <1>3, <2>1, <2>2, NotFreshKeeps
<1>5. CASE Restart
    <2>1. replay' \in ReplayRun /\ ~ replay'.fresh
        BY <1>5 DEF Restart, Idle, ReplayRun
    <2> QED BY <1>2, <1>5, <2>1, NotFreshKeeps DEF Restart
<1>6. CASE ReplayStart \/ ReplayRead \/ ReplayReadFails \/ ReplayProject \/ ReplayDone
    BY <1>6, ReplayInductive
<1>7. ASSUME NEW p, NEW c, WriteFile(p, c) \/ DeleteFile(p) PROVE VifsInv'
    BY <1>2, <1>3, <1>7, NotFreshKeeps DEF WriteFile, DeleteFile
<1>8. ASSUME NEW p, NEW q, RenameRead(p, q) PROVE VifsInv'
    <2>1. ~ moving'.written
        BY <1>8 DEF RenameRead
    <2> QED BY <1>8, <2>1, RestOfVifsKeeps DEF RenameRead
<1>9. CASE RenameWrite
    BY <1>2, <1>3, <1>9, NotFreshKeeps DEF RenameWrite
<1>10. CASE RenameFails
    BY <1>10, RestOfVifsKeeps DEF RenameFails
<1>11. CASE RenameDelete
    <2>1. ~ replay.fresh
        BY <1>11 DEF RenameDelete, VifsInv, FreshInv
    <2> QED BY <1>1, <1>2, <1>11, <2>1, NotFreshKeeps DEF RenameDelete
<1>12. CASE UNCHANGED vifsVars
    <2>1. log' = log /\ garbled' = garbled /\ files' = files /\ replay' = replay /\ moving' = moving
        BY <1>12 DEF vifsVars
    <2> QED BY <2>1, RestOfVifsKeeps DEF VifsInv, FreshInv
<1> QED BY <1>4, <1>5, <1>6, <1>7, <1>8, <1>9, <1>10, <1>11, <1>12, VifsAssumption DEF VifsNext

(* IntelligenceFiles: whatever was recorded, stored, written, renamed and  *)
(* replayed before, a replay into an empty file system that nothing comes  *)
(* between and that ends well leaves what the log says of each object; one *)
(* the store fails has that for the types it read, and none of the others; *)
(* and one that fails on an event met data that is no event, or an event   *)
(* that was refused before (vifs/src/lib.rs replay_from_event_store).      *)
THEOREM ReplayDoesRebuild == VifsSpec => []ReplayRebuilds
<1>1. VifsInit => VifsInv
    BY EmptyIsSeq DEF VifsInit, VifsInv, LogInv, Idle, ReplayRun
<1>2. VifsInv => ReplayRebuilds
    <2> SUFFICES ASSUME VifsInv, replay.fresh PROVE ReplayRebuilds
        BY DEF ReplayRebuilds
    <2>1. LogInv /\ FreshInv /\ replay.type \in 0..11
        BY DEF VifsInv, ReplayRun
    <2>2. ASSUME replay.status \in {"done", "unread"}
          PROVE  StateRead /\ replay.total = Cardinality({i \in DOMAIN log : log[i].of \in ReadTypes})
        <3> DEFINE S == {i \in DOMAIN log : log[i].of \in ReadTypes}
        <3>1. SoFar(log, replay, files) /\ replay.batch = {}
            BY <2>1, <2>2 DEF FreshInv
        <3>2. Seen(log, replay.type, replay.batch) = S
            BY <3>1 DEF Seen, ReadTypes
        <3>3. RebuiltFrom(log, S, files) /\ replay.total = Cardinality(S)
            BY <3>1, <3>2 DEF SoFar
        <3>4. StateRead
            BY <2>1, <3>3, RebuiltIsRead
        <3> QED BY <3>3, <3>4
    <2>3. ASSUME replay.status = "done" PROVE ReadTypes = ToSet(AggregateTypes)
        BY <2>1, <2>3, TypesOfReplay DEF FreshInv, ReadTypes
    <2> QED BY <2>1, <2>2, <2>3 DEF ReplayRebuilds, FreshInv
<1> QED BY <1>1, <1>2, VifsInductive, PTL DEF VifsSpec
-----------------------------------------------------------------------------
(* Procedural memory: what a loop returns accounts for the steps whatever  *)
(* the procedures it calls returned.                                       *)
AfterStepAccounts(step, run) ==
    /\ AfterStep(step, run).stop => ~ AfterStep(step, run).result /\ step.on # "Skip"
    /\ ~ AfterStep(step, run).result => AfterStep(step, run).stop \/ step.on # "Abort"
    /\ AfterStep(step, run).result /\ step.kind = "Missing" =>
          step.on \notin {"Abort", "RetryZero", "Skip"}

LEMMA AfterStepFacts ==
    ASSUME NEW step \in ProcedureStep, NEW run
    PROVE  AfterStepAccounts(step, run)
<1>1. step.on \in {"Abort", "Retry", "RetryZero", "Skip"} \cup ProcName
    BY DEF ProcedureStep, FailureAction
<1>2. step.kind = "Missing" /\ "Missing" \notin ProcName => ~ StepSucceeds(step.kind, run)
    BY DEF StepSucceeds
<1> QED BY <1>1, <1>2, ProceduralAssumption DEF AfterStep, AfterStepAccounts

LEMMA LoopAccounts ==
    ASSUME NEW p \in ProcName, NEW steps \in Steps(p), NEW run
    PROVE  Accounts(Loop(steps, run), steps)
<1> DEFINE after(n) == AfterStep(steps[n], run)
           ends == {n \in DOMAIN steps : Overflows(steps[n], run) \/ after(n).stop}
<1>1. PICK k \in 0..MaxSteps[p] : steps \in [1..k -> ProcedureStep]
    BY DEF Steps
<1>2. k \in Nat /\ DOMAIN steps = 1..k /\ Len(steps) = k
    BY <1>1, ProceduralAssumption
<1>3. ASSUME NEW n \in 1..k
      PROVE  /\ after(n).stop => ~ after(n).result /\ steps[n].on # "Skip"
             /\ ~ after(n).result => after(n).stop \/ steps[n].on # "Abort"
             /\ after(n).result /\ steps[n].kind = "Missing" =>
                   steps[n].on \notin {"Abort", "RetryZero", "Skip"}
    <2>1. steps[n] \in ProcedureStep
        BY <1>1
    <2> QED BY <2>1, AfterStepFacts DEF AfterStepAccounts
<1>4. ASSUME NEW n \in 1..k
      PROVE  /\ Len(StepResults(steps, run, n)) = n /\ DOMAIN StepResults(steps, run, n) = 1..n
             /\ \A i \in 1..n : StepResults(steps, run, n)[i] = after(i).result
    BY <1>2 DEF StepResults
<1>5. CASE ends = {}
    <2> DEFINE results == StepResults(steps, run, k)
    <2>1. Loop(steps, run) = Outcome(TRUE, results)
        BY <1>2, <1>5 DEF Loop
    <2>2. Len(results) = k /\ DOMAIN results = 1..k /\ \A i \in 1..k : results[i] = after(i).result
        BY <1>2 DEF StepResults
    <2>3. \A i \in 1..k : ~ after(i).stop
        BY <1>2, <1>5
    <2> HIDE DEF results, after, ends
    <2> QED BY <1>2, <1>3, <2>1, <2>2, <2>3 DEF Outcome, Accounts
<1>6. CASE ends # {}
    <2> DEFINE n == CHOOSE m \in ends : \A l \in ends : m <= l
    <2>1. n \in ends /\ \A l \in ends : n <= l
        <3>1. ends \in SUBSET Nat
            BY <1>2
        <3> HIDE DEF ends
        <3> QED BY <1>6, <3>1, LeastOf
    <2>2. Loop(steps, run) = IF Overflows(steps[n], run) THEN Overflow
                             ELSE Outcome(FALSE, StepResults(steps, run, n))
        BY <1>6 DEF Loop
    <2>3. n \in 1..k /\ (Overflows(steps[n], run) \/ after(n).stop)
        BY <1>2, <2>1
    <2>4. \A i \in 1..n : i # n => ~ after(i).stop
        <3>1. ASSUME NEW i \in 1..n, i # n, after(i).stop PROVE FALSE
            <4>1. i \in ends /\ ~ (n <= i)
                BY <1>2, <2>3, <3>1
            <4> QED BY <2>1, <4>1
        <3> QED BY <3>1
    <2> HIDE DEF n, after, ends
    <2>5. CASE Overflows(steps[n], run)
        BY <2>2, <2>5 DEF Overflow, Accounts
    <2>6. CASE ~ Overflows(steps[n], run)
        <3> DEFINE results == StepResults(steps, run, n)
        <3>1. Loop(steps, run) = Outcome(FALSE, results)
            BY <2>2, <2>6
        <3>2. Len(results) = n /\ DOMAIN results = 1..n /\ \A i \in 1..n : results[i] = after(i).result
            BY <1>4, <2>3
        <3> HIDE DEF results
        <3>3. \A i \in 1..n : i \in 1..k
            BY <2>3, <1>2
        <3>4. n \in 1..n /\ after(n).stop
            BY <2>3, <2>6
        <3> QED BY <1>3, <2>4, <3>1, <3>2, <3>3, <3>4 DEF Outcome, Accounts
    <2> QED BY <2>5, <2>6
<1> QED BY <1>5, <1>6

(* The nesting of calls, as a function of how deep they may be.            *)
Nested(f, n, procs) ==
    f = [m \in 0..n |->
            [p \in ProcName |->
                IF m = 0 THEN Overflow
                ELSE IF procs[p] = Nothing THEN Err ELSE Loop(procs[p], f[m - 1])]]

LEMMA NestedExists ==
    ASSUME NEW procs, NEW depth \in Nat
    PROVE  \E f : Nested(f, depth, procs)
<1> DEFINE Level(m, below) ==
              [p \in ProcName |->
                  IF m = 0 THEN Overflow
                  ELSE IF procs[p] = Nothing THEN Err ELSE Loop(procs[p], below)]
           none == {n \in Nat : ~ \E f : Nested(f, n, procs)}
<1>0. \A f, n : Nested(f, n, procs) <=> f = [m \in 0..n |-> Level(m, f[m - 1])]
    BY DEF Nested
<1>00. \A b, c : Level(0, b) = Level(0, c)
    OBVIOUS
<1> HIDE DEF Level
<1>1. ASSUME none # {} PROVE FALSE
    <2>1. PICK n \in none : \A m \in none : n <= m
        BY <1>1, LeastOf
    <2>2. n # 0
        <3> DEFINE f == [m \in 0..0 |-> Level(m, {})]
        <3>1. \A m \in 0..0 : Level(m, {}) = Level(m, f[m - 1])
            BY <1>00
        <3>2. f = [m \in 0..0 |-> Level(m, f[m - 1])]
            BY <3>1
        <3> QED BY <1>0, <2>1, <3>2
    <2>3. n \in Nat /\ n - 1 \in Nat /\ ~ (n <= n - 1)
        BY <2>1, <2>2
    <2>4. PICK f : Nested(f, n - 1, procs)
        BY <2>1, <2>3
    <2> DEFINE g == [m \in 0..n |-> IF m = n THEN Level(n, f[n - 1]) ELSE f[m]]
    <2>5. ASSUME NEW m \in 0..n PROVE g[m] = Level(m, g[m - 1])
        <3>1. CASE m = n
            <4>1. m - 1 \in 0..n /\ m - 1 # n
                BY <2>3, <3>1
            <4> QED BY <3>1, <4>1
        <3>2. CASE m # n /\ m # 0
            <4>1. m \in 0..(n - 1) /\ m - 1 \in 0..n /\ m - 1 # n
                BY <2>3, <3>2
            <4>2. f[m] = Level(m, f[m - 1])
                BY <1>0, <2>4, <4>1
            <4> QED BY <3>2, <4>1, <4>2
        <3>3. CASE m # n /\ m = 0
            <4>1. m \in 0..(n - 1)
                BY <2>3, <3>3
            <4>2. f[m] = Level(m, f[m - 1])
                BY <1>0, <2>4, <4>1
            <4> QED BY <1>00, <3>3, <4>2
        <3> QED BY <3>1, <3>2, <3>3
    <2>6. g = [m \in 0..n |-> Level(m, g[m - 1])]
        <3>1. g = [m \in 0..n |-> g[m]]
            OBVIOUS
        <3> HIDE DEF g
        <3> QED BY <2>5, <3>1
    <2>7. Nested(g, n, procs)
        BY <1>0, <2>6
    <2> QED BY <2>1, <2>7
<1> QED BY <1>1

LEMMA ExecuteAccounts ==
    ASSUME NEW procs, NEW p \in ProcName, procs[p] # Nothing => procs[p] \in Steps(p)
    PROVE  Accounts(Execute(procs)[p], procs[p])
<1> DEFINE run == CHOOSE f : Nested(f, MaxNesting, procs)
<1>1. Execute(procs) = run[MaxNesting]
    BY DEF Execute, Nested
<1>2. Nested(run, MaxNesting, procs)
    BY NestedExists, ProceduralAssumption
<1> HIDE DEF run
<1>3. run[MaxNesting][p] = IF MaxNesting = 0 THEN Overflow
                           ELSE IF procs[p] = Nothing THEN Err
                           ELSE Loop(procs[p], run[MaxNesting - 1])
    <2>1. MaxNesting \in 0..MaxNesting
        BY ProceduralAssumption
    <2>2. \A m \in 0..MaxNesting :
             run[m] = [q \in ProcName |->
                         IF m = 0 THEN Overflow
                         ELSE IF procs[q] = Nothing THEN Err ELSE Loop(procs[q], run[m - 1])]
        BY <1>2, Zenon DEF Nested
    <2>3. run[MaxNesting] = [q \in ProcName |->
                         IF MaxNesting = 0 THEN Overflow
                         ELSE IF procs[q] = Nothing THEN Err
                         ELSE Loop(procs[q], run[MaxNesting - 1])]
        BY <2>1, <2>2, Zenon
    <2> QED BY <2>3
<1>4. Accounts(Overflow, procs[p]) /\ Accounts(Err, procs[p])
    BY DEF Accounts, Overflow, Err
<1>5. procs[p] # Nothing => Accounts(Loop(procs[p], run[MaxNesting - 1]), procs[p])
    BY LoopAccounts
<1> QED BY <1>1, <1>3, <1>4, <1>5

ProceduralInv ==
    /\ procedures = [p \in ProcName |-> procedures[p]]
    /\ \A p \in ProcName : procedures[p] # Nothing => procedures[p] \in Steps(p)
    /\ outcome # Nothing => outcome = Execute(procedures)[ProcName0]

LEMMA ProceduralInductive == ProceduralInv /\ [ProceduralNext]_proceduralVars => ProceduralInv'
<1> SUFFICES ASSUME ProceduralInv, [ProceduralNext]_proceduralVars PROVE ProceduralInv'
    OBVIOUS
<1> USE DEF ProceduralInv
<1>1. CASE UNCHANGED proceduralVars
    BY <1>1 DEF proceduralVars
<1>2. CASE ExecuteProcedure
    BY <1>2 DEF ExecuteProcedure
<1>3. ASSUME NEW p \in ProcName, NEW s \in Steps(p), StoreProcedure(p, s) PROVE ProceduralInv'
    BY <1>3 DEF StoreProcedure
<1>4. ASSUME NEW p \in ProcName, DeleteProcedure(p) PROVE ProceduralInv'
    BY <1>4 DEF DeleteProcedure
<1> QED BY <1>1, <1>2, <1>3, <1>4 DEF ProceduralNext

(* Whatever procedures there are and however they call each other, one     *)
(* that reports a failure stopped at the step that failed, every earlier   *)
(* failure was let pass by its own on_failure, one that reports success    *)
(* has a result for each of its steps, and a step that cannot succeed is   *)
(* recorded as a success only after a retry or a fallback                  *)
(* (memory/src/procedural.rs).                                             *)
THEOREM ProceduresAccount == ProceduralSpec => []OutcomeAccountsForSteps
<1>1. ProceduralInit => ProceduralInv
    BY DEF ProceduralInit, ProceduralInv
<1>2. ProceduralInv => OutcomeAccountsForSteps
    <2> SUFFICES ASSUME ProceduralInv, outcome # Nothing PROVE OutcomeAccountsForSteps
        BY DEF OutcomeAccountsForSteps
    <2>1. Accounts(outcome, procedures[ProcName0])
        BY ExecuteAccounts, ProceduralAssumption DEF ProceduralInv
    <2> QED BY <2>1 DEF Accounts, OutcomeAccountsForSteps
<1> QED BY <1>1, <1>2, ProceduralInductive, PTL DEF ProceduralSpec
=============================================================================
