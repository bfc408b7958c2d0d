------------------------- MODULE StorageStructures -------------------------
(* The storage structures of the algorithms crate (storage.rs).  A digest   *)
(* is the term it is the digest of, so that two of them are equal when      *)
(* their inputs are, be these the bytes of a leaf or two digests in a row;  *)
(* the bits an item sets in a filter, and the register and rank it has in a *)
(* counter, are the constants BitsOf and RankOf.                            *)
EXTENDS Integers, Sequences, FiniteSets, SequencesExt, FiniteSetsExt, Functions, Absent

CONSTANTS Datum,          \* leaves, and items of the filter and the counter
          BytesOf,        \* Datum -> its bytes, as a sequence of parts
          BitsOf,         \* Datum -> the bits its hashes select
          RankOf,         \* Datum -> <<register, rank>>
          MaxLeaves,      \* bound: leaves of the tree
          MapKey, MapValue,     \* keys and values of the two maps
          MaxKeys,        \* bound: entries of the sorted vector
          MaxMemtable,    \* max_memtable_size
          Threshold       \* compaction_threshold

\* max_memtable_size is positive: the chunks of a compaction have at least one entry
ASSUME StorageAssumption ==
  /\ MaxMemtable \in Nat \ {0}
  /\ MapKey \subseteq Int
  /\ RankOf \in [Datum -> Int \X Nat]

VARIABLES merkle, bloom, counters, sorted, lsm, written
storageVars == <<merkle, bloom, counters, sorted, lsm, written>>

----------------------------------------------------------------------------
(* MerkleTree *)

HashBytes(bytes) == <<"sha256", bytes>>
LeafHash(d) == HashBytes(BytesOf[d])
NodeHash(l, r) == HashBytes(<<l, r>>)

\* an odd node at the end of a level goes up as it is
Above(level) ==
  [i \in 1..((Len(level) + 1) \div 2) |->
     IF 2 * i <= Len(level) THEN NodeHash(level[2 * i - 1], level[2 * i]) ELSE level[2 * i - 1]]
\* a level is made from the one below it until one node is left
Levels(level) ==
  LET at[n \in 0..Len(level)] == IF n = 0 THEN level ELSE Above(at[n - 1])
      top == Min({n \in 0..Len(level) : Len(at[n]) <= 1})
  IN [n \in 1..(top + 1) |-> at[n - 1]]

AddLeaf ==
  /\ Len(merkle.leaves) < MaxLeaves
  /\ \E d \in Datum : merkle' = [merkle EXCEPT !.leaves = Append(@, LeafHash(d)), !.built = FALSE]
Build ==
  merkle' = [leaves |-> merkle.leaves, built |-> TRUE,
             levels |-> IF merkle.leaves = <<>> THEN <<>> ELSE Levels(merkle.leaves),
             root |-> IF merkle.leaves = <<>> THEN Nothing ELSE Last(Levels(merkle.leaves))[1]]

SiblingToTheRight(idx) == idx + 1
\* positions count from 0; a node without a sibling adds nothing to the proof
Sibling(idx) == IF idx % 2 = 0 THEN idx + 1 ELSE idx - 1
StepUp(way, level) ==
  [idx |-> way.idx \div 2,
   proof |-> IF Sibling(way.idx) < Len(level)
             THEN Append(way.proof, <<level[Sibling(way.idx) + 1], way.idx % 2 = 0>>) ELSE way.proof]
ProofFrom(levels, idx) ==
  LET way[n \in 0..(Len(levels) - 1)] ==
        IF n = 0 THEN [idx |-> idx, proof |-> <<>>] ELSE StepUp(way[n - 1], levels[n])
  IN way[Len(levels) - 1].proof
GenerateProof(tree, idx) ==
  IF idx >= Len(tree.leaves) \/ tree.levels = <<>> THEN Nothing ELSE ProofFrom(tree.levels, idx)
Joined(h, p) == IF p[2] THEN NodeHash(h, p[1]) ELSE NodeHash(p[1], h)
HashUp(d, proof) ==
  LET hash[n \in 0..Len(proof)] == IF n = 0 THEN LeafHash(d) ELSE Joined(hash[n - 1], proof[n])
  IN hash[Len(proof)]
Verify(tree, d, proof) == HashUp(d, proof) = tree.root

----------------------------------------------------------------------------
(* BloomFilter and HyperLogLog *)

BloomInsert == \E d \in Datum : bloom' = [bits |-> bloom.bits \cup BitsOf[d], held |-> bloom.held \cup {d}]
BloomContains(b, d) == BitsOf[d] \subseteq b.bits
BloomClear == bloom' = [bits |-> {}, held |-> {}]

Register(d) == RankOf[d][1]
Rank(d) == RankOf[d][2]
Registers == {Register(d) : d \in Datum}
HllInsert(regs, d) == [regs EXCEPT ![Register(d)] = Max({@, Rank(d)})]
HllMerge(regs, other) == [r \in DOMAIN regs |-> Max({regs[r], other[r]})]
Count ==
  \E c \in DOMAIN counters, d \in Datum :
    counters' = [counters EXCEPT ![c] = [regs |-> HllInsert(@.regs, d), seen |-> @.seen \cup {d}]]
Merge ==
  \E c, o \in DOMAIN counters :
    counters' = [counters EXCEPT ![c] = [regs |-> HllMerge(@.regs, counters[o].regs),
                                         seen |-> @.seen \cup counters[o].seen]]

----------------------------------------------------------------------------
(* BPlusTree: a sorted vector.  Which of several equal keys a binary search *)
(* finds is not specified.                                                  *)

BinarySearch(keys, k) ==
  IF \E i \in DOMAIN keys : keys[i] = k
  THEN {[found |-> TRUE, at |-> i - 1] : i \in {j \in DOMAIN keys : keys[j] = k}}
  ELSE {[found |-> FALSE, at |-> Cardinality({i \in DOMAIN keys : keys[i] < k})]}
TreeKeys(t) == [i \in DOMAIN t |-> t[i][1]]
TreeInsert ==
  /\ Len(sorted) < MaxKeys
  /\ \E k \in MapKey, v \in MapValue : \E p \in BinarySearch(TreeKeys(sorted), k) :
       sorted' = InsertAt(sorted, p.at + 1, <<k, v>>)
TreeSearch(t, k) ==
  {IF p.found THEN t[p.at + 1][2] ELSE Nothing : p \in BinarySearch(TreeKeys(t), k)}
\* the first key of an empty tree is out of bounds
Saturating(n) == IF n < 0 THEN 0 ELSE n
ScanEnds(t, to) ==
  {LET e == IF p.found THEN p.at ELSE Saturating(p.at - 1)
   IN IF e > Saturating(Len(t) - 1) THEN Saturating(Len(t) - 1) ELSE e : p \in BinarySearch(TreeKeys(t), to)}
RangeScan(t, from, to) ==
  {IF t = <<>> THEN "panic" ELSE SubSeq(t, s.at + 1, e + 1) :
     s \in BinarySearch(TreeKeys(t), from), e \in ScanEnds(t, to)}

----------------------------------------------------------------------------
(* LSMTree *)

NewerWins(older, newer) ==
  [k \in DOMAIN older \cup DOMAIN newer |-> IF k \in DOMAIN newer THEN newer[k] ELSE older[k]]
Holding(tables, k) == {i \in DOMAIN tables : k \in DOMAIN tables[i]}
KeysIn(tables) == UNION {DOMAIN tables[i] : i \in DOMAIN tables}
MergedTables(tables) == [k \in KeysIn(tables) |-> tables[Max(Holding(tables, k))][k]]
\* tables of MaxMemtable keys each, in the order of the keys
Chunked(merged) ==
  LET place(k) == Cardinality({j \in DOMAIN merged : j < k})
  IN [i \in 1..((Cardinality(DOMAIN merged) + MaxMemtable - 1) \div MaxMemtable) |->
        Restrict(merged, {k \in DOMAIN merged : place(k) \div MaxMemtable = i - 1})]
Compact(tables) ==
  LET merged == MergedTables(tables)
  IN IF Cardinality(DOMAIN merged) > 2 * MaxMemtable THEN Chunked(merged) ELSE <<merged>>
Flushed(l) ==
  IF DOMAIN l.mem = {} THEN l
  ELSE LET tables == Append(l.tables, l.mem)
       IN [mem |-> <<>>, tables |-> IF Len(tables) >= Threshold THEN Compact(tables) ELSE tables]
LsmInsert ==
  \E k \in MapKey, v \in MapValue :
    LET put == [lsm EXCEPT !.mem = NewerWins(@, [x \in {k} |-> v])]
    IN /\ lsm' = IF Cardinality(DOMAIN put.mem) >= MaxMemtable THEN Flushed(put) ELSE put
       /\ written' = NewerWins(written, [x \in {k} |-> v])
Flush == lsm' = Flushed(lsm) /\ UNCHANGED written

\* the memtable first, then the tables from the newest
NewestFirst(l) == <<l.mem>> \o Reverse(l.tables)
FirstHeld(tables, k) == tables[Min(Holding(tables, k))][k]
LsmGet(l, k) == IF Holding(NewestFirst(l), k) = {} THEN Nothing ELSE FirstHeld(NewestFirst(l), k)
LsmScan(l, from, to) ==
  [k \in KeysIn(NewestFirst(l)) \cap (from..to) |-> FirstHeld(NewestFirst(l), k)]

----------------------------------------------------------------------------

StorageInit ==
  /\ merkle = [leaves |-> <<>>, levels |-> <<>>, root |-> Nothing, built |-> FALSE]
  /\ bloom = [bits |-> {}, held |-> {}]
  /\ counters = [c \in 1..2 |-> [regs |-> [r \in Registers |-> 0], seen |-> {}]]
  /\ sorted = <<>>
  /\ lsm = [mem |-> <<>>, tables |-> <<>>]
  /\ written = <<>>

MerkleNext == (AddLeaf \/ Build) /\ UNCHANGED <<bloom, counters, sorted, lsm, written>>
SketchNext ==
  \/ (BloomInsert \/ BloomClear) /\ UNCHANGED <<merkle, counters, sorted, lsm, written>>
  \/ (Count \/ Merge) /\ UNCHANGED <<merkle, bloom, sorted, lsm, written>>
TreeNext == TreeInsert /\ UNCHANGED <<merkle, bloom, counters, lsm, written>>
LsmNext == (LsmInsert \/ Flush) /\ UNCHANGED <<merkle, bloom, counters, sorted>>

----------------------------------------------------------------------------
StorageSpec == StorageInit /\ [][MerkleNext \/ SketchNext \/ TreeNext \/ LsmNext]_storageVars

----------------------------------------------------------------------------
\* With the proof of a leaf a built Merkle tree proves that leaf's datum and no other, though a
\* datum may have the bytes of an inner node.
ProofsAreExact ==
  merkle.built => \A i \in DOMAIN merkle.leaves, d \in Datum :
    Verify(merkle, d, GenerateProof(merkle, i - 1)) = (merkle.leaves[i] = LeafHash(d))

\* The filter denies nothing it holds; a counter is the greatest ranks of what it and the
\* counters merged into it saw.
SketchesCover ==
  /\ \A d \in bloom.held : BloomContains(bloom, d)
  /\ \A c \in DOMAIN counters, r \in Registers :
       counters[c].regs[r] = Max({0} \cup {Rank(d) : d \in {x \in counters[c].seen : Register(x) = r}})

\* The sorted vector stays sorted and a search returns a value of its key; a scan of a vector of
\* distinct keys holds what the range does, in order, or, when all keys are above the range, the
\* first of them although it is not in it.
Ascending(t) == \A i, j \in DOMAIN t : i < j => t[i][1] <= t[j][1]
VectorIsSorted ==
  /\ Ascending(sorted)
  /\ \A k \in MapKey : \A v \in TreeSearch(sorted, k) : v = Nothing \/ <<k, v>> \in Range(sorted)
  /\ sorted # <<>> /\ IsInjective(TreeKeys(sorted)) => \A from, to \in MapKey : from <= to =>
       \A scan \in RangeScan(sorted, from, to) :
         IF \A e \in Range(sorted) : e[1] > to THEN scan = <<Head(sorted)>>
         ELSE /\ Range(scan) = {e \in Range(sorted) : from <= e[1] /\ e[1] <= to}
              /\ Ascending(scan) /\ IsInjective(scan)

\* The LSM tree returns the last value written, whatever was flushed and compacted since.
LastWriteIsRead ==
  /\ \A k \in MapKey : LsmGet(lsm, k) = IF k \in DOMAIN written THEN written[k] ELSE Nothing
  /\ \A from, to \in MapKey : LsmScan(lsm, from, to) = Restrict(written, DOMAIN written \cap (from..to))
  /\ Cardinality(DOMAIN lsm.mem) < MaxMemtable

\* Each structure answers as what was put in it.
StructuresAnswerTruly == ProofsAreExact /\ SketchesCover /\ VectorIsSorted /\ LastWriteIsRead
=============================================================================
