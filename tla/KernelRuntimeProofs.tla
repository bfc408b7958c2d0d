-------------------------- MODULE KernelRuntimeProofs --------------------------
(***************************************************************************)
(* The kernel loop over the PostgreSQL event store, for any number of      *)
(* requests, aggregates and agents, any number of events in a millisecond, *)
(* and whatever statements fail: the types hold, and every event is        *)
(* dispatched, once and in order, but for the events that become visible   *)
(* behind the cursor and those whose ids are out of order.                 *)
(***************************************************************************)
EXTENDS KernelRuntime, FunctionTheorems, FiniteSetTheorems, SequenceTheorems, WellFoundedInduction, TLAPS

-------------------------------------------------------------------------------
(* Lemmas about finite sets: a largest element, and the order of the rows  *)
(* by their timestamps.  Both are proved by a smallest counterexample.     *)

(* A set of naturals that is not empty has a least element.                *)
LEMMA LeastNat ==
    ASSUME NEW T \in SUBSET Nat, T # {}
    PROVE  \E x \in T : \A y \in T : x <= y
<1> DEFINE R == {p \in Nat \X Nat : p[1] < p[2]}
<1>1. IsWellFoundedOn(R, Nat)
  BY NatLessThanWellFounded DEF OpToRel
<1>2. \A x, y \in Nat : y < x => <<y, x>> \in R
  OBVIOUS
<1> HIDE DEF R
<1>3. PICK x \in T : \A y \in T : ~ (<<y, x>> \in R)
  BY <1>1, WFMin
<1>4. \A y \in T : ~ (y < x)
  BY <1>2, <1>3, Zenon
<1> QED BY <1>4

(* Where a function into the naturals is largest.                          *)
LEMMA LargestOf ==
    ASSUME NEW S, IsFiniteSet(S), S # {}, NEW f \in [S -> Nat]
    PROVE  \E m \in S : \A x \in S : f[x] <= f[m]
<1> DEFINE Bad == {n \in Nat : \E T \in SUBSET S :
                      T # {} /\ Cardinality(T) = n /\ ~ \E m \in T : \A x \in T : f[x] <= f[m]}
<1>1. Bad = {}
  <2> SUFFICES ASSUME Bad # {} PROVE FALSE
    OBVIOUS
  <2>1. PICK n \in Bad : \A k \in Bad : n <= k
    <3>1. Bad \in SUBSET Nat
      OBVIOUS
    <3> QED BY <3>1, LeastNat
  <2>2. PICK T \in SUBSET S : T # {} /\ Cardinality(T) = n /\ ~ \E m \in T : \A x \in T : f[x] <= f[m]
    BY <2>1
  <2>3. PICK x \in T : TRUE
    BY <2>2
  <2>4. IsFiniteSet(T)
    BY FS_Subset
  <2>5. Cardinality(T \ {x}) = n - 1 /\ Cardinality(T \ {x}) \in Nat /\ n \in Nat
    BY <2>1, <2>2, <2>4, FS_RemoveElement, FS_CardinalityType
  <2>6. n - 1 \notin Bad
    BY <2>1, <2>5
  <2>7. CASE T \ {x} = {}
    BY <2>2, <2>7
  <2>8. CASE T \ {x} # {}
    <3>1. PICK m \in T \ {x} : \A y \in T \ {x} : f[y] <= f[m]
      BY <2>5, <2>6, <2>8
    <3>2. CASE f[x] <= f[m]
      BY <2>2, <3>1, <3>2
    <3>3. CASE ~ (f[x] <= f[m])
      <4>1. \A y \in T : f[y] <= f[x]
        BY <3>1, <3>3
      <4> QED BY <2>2, <4>1
    <3> QED BY <3>2, <3>3
  <2> QED BY <2>7, <2>8
<1>2. Cardinality(S) \in Nat
  BY FS_CardinalityType
<1> QED BY <1>1, <1>2

(* A finite set of rows whose timestamps differ can be put in their order. *)
Stampable(S) ==
    /\ IsFiniteSet(S)
    /\ \A r \in S : r.ts \in Nat
    /\ \A r, s \in S : r.ts = s.ts => r = s

Sorted(s, S) ==
    /\ s \in [1..Cardinality(S) -> S]
    /\ \A i, j \in 1..Cardinality(S) : i < j => s[i].ts < s[j].ts

LEMMA SortedExists ==
    ASSUME NEW S, Stampable(S) PROVE \E s : Sorted(s, S)
<1> DEFINE Bad == {n \in Nat : \E T \in SUBSET S : Cardinality(T) = n /\ ~ \E s : Sorted(s, T)}
<1>1. Bad = {}
  <2> SUFFICES ASSUME Bad # {} PROVE FALSE
    OBVIOUS
  <2>1. PICK n \in Bad : \A k \in Bad : n <= k
    <3>1. Bad \in SUBSET Nat
      OBVIOUS
    <3> QED BY <3>1, LeastNat
  <2>2. PICK T \in SUBSET S : Cardinality(T) = n /\ ~ \E s : Sorted(s, T)
    BY <2>1
  <2>3. IsFiniteSet(T) /\ n \in Nat
    BY <2>1, FS_Subset DEF Stampable
  <2>4. CASE T = {}
    <3>1. Cardinality(T) = 0
      BY <2>4, FS_EmptySet
    <3>2. [k \in 1..0 |-> k] \in [1..0 -> T]
      OBVIOUS
    <3>3. Sorted([k \in 1..0 |-> k], T)
      BY <3>1, <3>2 DEF Sorted
    <3> QED BY <2>2, <3>3
  <2>5. CASE T # {}
    <3> DEFINE f == [r \in T |-> r.ts]
    <3>1. f \in [T -> Nat]
      BY DEF Stampable
    <3>2. PICK r \in T : \A x \in T : f[x] <= f[r]
      BY <2>3, <2>5, <3>1, LargestOf
    <3>3. PICK U \in SUBSET T : U = T \ {r}
      OBVIOUS
    <3>4. Cardinality(U) = n - 1 /\ n - 1 \in Nat
      <4>1. IsFiniteSet(U) /\ Cardinality(U) = n - 1
        BY <2>2, <2>3, <3>3, FS_RemoveElement
      <4>2. Cardinality(U) \in Nat
        BY <4>1, FS_CardinalityType
      <4> QED BY <4>1, <4>2
    <3>5. PICK s : Sorted(s, U)
      <4>1. n - 1 \notin Bad
        BY <2>1, <2>3, <3>4
      <4> QED BY <3>4, <4>1
    <3>6. /\ s \in [1..(n - 1) -> U]
          /\ \A i, j \in 1..(n - 1) : i < j => s[i].ts < s[j].ts
      BY <3>4, <3>5 DEF Sorted
    <3>7. \A x \in U : x.ts < r.ts
      <4>1. \A x \in T : x.ts <= r.ts
        BY <3>2
      <4> QED BY <3>3, <4>1 DEF Stampable
    <3> DEFINE q == [k \in 1..n |-> IF k = n THEN r ELSE s[k]]
    <3>8. \A k \in 1..n : k # n => k \in 1..(n - 1)
      BY <2>3
    <3>9. q \in [1..n -> T]
      BY <3>6, <3>8
    <3>10. ASSUME NEW i \in 1..n, NEW j \in 1..n, i < j PROVE q[i].ts < q[j].ts
      <4>1. i \in 1..(n - 1) /\ q[i] = s[i]
        BY <2>3, <3>10
      <4>2. CASE j = n
        BY <3>6, <3>7, <4>1, <4>2
      <4>3. CASE j # n
        BY <3>6, <3>8, <3>10, <4>1, <4>3
      <4> QED BY <4>2, <4>3
    <3> HIDE DEF q
    <3>11. Sorted(q, T)
      BY <2>2, <3>9, <3>10 DEF Sorted
    <3> QED BY <2>2, <3>11
  <2> QED BY <2>4, <2>5
<1>2. Cardinality(S) \in Nat
  BY FS_CardinalityType DEF Stampable
<1> QED BY <1>1, <1>2

(* Put in order, every row has its place, and one only.                    *)
LEMMA ByTimestampIs ==
    ASSUME NEW S, Stampable(S)
    PROVE  /\ Cardinality(S) \in Nat
           /\ ByTimestamp(S) \in Seq(S)
           /\ Len(ByTimestamp(S)) = Cardinality(S)
           /\ \A i, j \in DOMAIN ByTimestamp(S) : i < j => ByTimestamp(S)[i].ts < ByTimestamp(S)[j].ts
           /\ \A r \in S : \E i \in DOMAIN ByTimestamp(S) : ByTimestamp(S)[i] = r
<1>1. PICK n \in Nat : n = Cardinality(S)
  BY FS_CardinalityType DEF Stampable
<1>2. PICK s : s = ByTimestamp(S)
  OBVIOUS
<1>3. /\ s \in [1..n -> S]
      /\ \A i, j \in 1..n : i < j => s[i].ts < s[j].ts
  <2>1. PICK q : Sorted(q, S)
    BY SortedExists
  <2>2. \E p \in [1..n -> S] : \A i, j \in 1..n : i < j => p[i].ts < p[j].ts
    BY <1>1, <2>1 DEF Sorted
  <2> QED BY <1>1, <1>2, <2>2 DEF ByTimestamp
<1>4. s \in Seq(S) /\ Len(s) = n /\ DOMAIN s = 1..n
  BY <1>3
<1>5. ASSUME NEW i \in 1..n, NEW j \in 1..n, s[i] = s[j] PROVE i = j
  <2>1. s[i].ts \in Nat /\ s[j].ts \in Nat
    BY <1>3 DEF Stampable
  <2>2. ~ (i < j) /\ ~ (j < i)
    BY <1>3, <1>5, <2>1
  <2> QED BY <2>2
<1>6. s \in Injection(1..n, S)
  BY <1>3, <1>5, Fun_IsInj
<1>7. IsFiniteSet(1..n) /\ Cardinality(1..n) = n
  BY FS_Interval
<1>8. s \in Surjection(1..n, S)
  BY <1>1, <1>6, <1>7, FS_Injection DEF Stampable
<1>9. \A r \in S : \E i \in 1..n : s[i] = r
  BY <1>8, Fun_SurjectionProperties
<1> QED BY <1>1, <1>2, <1>3, <1>4, <1>9
-------------------------------------------------------------------------------
(* The table and its requests, however many.                               *)
Stamped(w) == writer[w].pc \in {"select", "insert"}

(* Every envelope is stamped once: the timestamps of the rows and of the   *)
(* requests on their way to the table all differ.                          *)
PgInv ==
    /\ PgTypeOK
    /\ Stampable(rows)
    /\ \A r \in rows : r.ts \in 1..stamps /\ r.id >= 1
    /\ \A w \in Writers : Stamped(w) =>
          /\ writer[w].ts \in 1..stamps /\ writer[w].id >= 1
          /\ \A r \in rows : r.ts # writer[w].ts
    /\ \A v, w \in Writers : Stamped(v) /\ Stamped(w) /\ writer[v].ts = writer[w].ts => v = w

RequestType == [pc : {"idle", "stamp", "select", "insert"}, agg : Aggregate, ver : Nat, id : Nat, ts : Nat]

LEMMA AtRestType ==
    /\ AtRest \in RequestType
    /\ AtRest.pc = "idle"
BY PgAssumption DEF AtRest, RequestType

LEMMA SeedRowsAre ==
    /\ Cardinality(Seeded) \in Nat
    /\ SeedRows \subseteq Row
    /\ Stampable(SeedRows)
    /\ \A r \in SeedRows : r.ts \in 1..Cardinality(Seeded) /\ r.id = r.ts /\ r.ver = 1
    /\ \A r, s \in SeedRows : r.agg = s.agg => r = s
<1>1. IsFiniteSet(Seeded)
  BY PgAssumption, FS_Subset
<1>2. PICK n \in Nat : n = Cardinality(Seeded)
  BY <1>1, FS_CardinalityType
<1> DEFINE IsNum(f) == \A a, b \in Seeded : a # b => f[a] # f[b]
           Num == CHOOSE f \in [Seeded -> 1..Cardinality(Seeded)] : IsNum(f)
<1>3. \E f \in [Seeded -> 1..n] : IsNum(f)
  <2>1. ExistsBijection(Seeded, 1..n)
    BY <1>1, <1>2, FS_CardinalityType, Fun_ExistsBijSymmetric
  <2>2. PICK f : f \in Bijection(Seeded, 1..n)
    BY <2>1, Fun_ExistsBij
  <2>3. f \in Injection(Seeded, 1..n)
    BY <2>2, Fun_BijectionProperties
  <2> QED BY <2>3, Fun_InjectionProperties
<1>4. Num \in [Seeded -> 1..n] /\ IsNum(Num)
  <2> HIDE DEF IsNum
  <2> QED BY <1>2, <1>3
<1>5. SeedRows = {[id |-> Num[a], agg |-> a, ver |-> 1, ts |-> Num[a]] : a \in Seeded}
  BY DEF SeedRows
<1> HIDE DEF Num
<1>6. \A a \in Seeded : Num[a] \in 1..n
  BY <1>4, PgAssumption
<1>7. SeedRows \subseteq Row
  BY <1>5, <1>6, PgAssumption DEF Row
<1>8. \A r \in SeedRows : r.ts \in 1..n /\ r.id = r.ts /\ r.ver = 1
  BY <1>5, <1>6
<1>9. \A r, s \in SeedRows : r.ts = s.ts \/ r.agg = s.agg => r = s
  BY <1>4, <1>5
<1>10. IsFiniteSet(SeedRows)
  <2> DEFINE g == [a \in Seeded |-> [id |-> Num[a], agg |-> a, ver |-> 1, ts |-> Num[a]]]
  <2>1. g \in [Seeded -> SeedRows] /\ \A r \in SeedRows : \E a \in Seeded : g[a] = r
    BY <1>5
  <2> HIDE DEF g
  <2>2. g \in Surjection(Seeded, SeedRows)
    BY <2>1, Fun_IsSurj
  <2> QED BY <1>1, <2>2, FS_Surjection
<1> QED BY <1>2, <1>7, <1>8, <1>9, <1>10 DEF Stampable

LEMMA InitPgInv == PgInit => PgInv
<1> SUFFICES ASSUME PgInit PROVE PgInv
  OBVIOUS
<1>1. rows = SeedRows /\ stamps = Cardinality(Seeded) /\ writer = [w \in Writers |-> AtRest]
  BY DEF PgInit
<1>2. PgTypeOK
  BY <1>1, SeedRowsAre, AtRestType DEF PgTypeOK, RequestType
<1>3. \A w \in Writers : ~ Stamped(w)
  BY <1>1, AtRestType DEF Stamped
<1> QED BY <1>1, <1>2, <1>3, SeedRowsAre DEF PgInv

LEMMA MaxVersionIs ==
    ASSUME PgInv, NEW a \in Aggregate, Versions(a) # {}
    PROVE  /\ MaxVersion(a) \in Nat
           /\ \A r \in rows : r.agg = a => r.ver <= MaxVersion(a)
           /\ \E r \in rows : r.agg = a /\ r.ver = MaxVersion(a)
<1> DEFINE X == {x \in rows : x.agg = a}
           f == [x \in X |-> x.ver]
<1>1. IsFiniteSet(X)
  BY FS_Subset DEF PgInv, Stampable
<1>2. X # {} /\ f \in [X -> Nat]
  BY DEF Versions, PgInv, PgTypeOK, Row
<1>3. PICK m \in X : \A x \in X : f[x] <= f[m]
  BY <1>1, <1>2, LargestOf
<1>4. m.ver \in Versions(a) /\ \A u \in Versions(a) : u <= m.ver
  BY <1>3 DEF Versions
<1>5. MaxVersion(a) \in Versions(a) /\ \A u \in Versions(a) : u <= MaxVersion(a)
  BY <1>4 DEF MaxVersion
<1>6. \A r \in rows : r.agg = a => r.ver \in Versions(a)
  BY DEF Versions
<1>7. \A v \in Versions(a) : v \in Nat /\ \E r \in rows : r.agg = a /\ r.ver = v
  BY DEF Versions, PgInv, PgTypeOK, Row
<1> QED BY <1>5, <1>6, <1>7

(* What a request does to itself: the other requests stay as they are.     *)
LEMMA ReadLatestKeeps ==
    ASSUME PgInv, NEW w \in Writers, NEW a \in Aggregate, ReadLatest(w, a)
    PROVE  PgInv'
<1>1. PICK base : /\ base \in {IF Versions(a) = {} THEN 0 ELSE MaxVersion(a)} \cup (IF MayFail THEN {0} ELSE {})
                  /\ writer' = [writer EXCEPT ![w] = [pc |-> "stamp", agg |-> a, ver |-> base + 1, id |-> 0, ts |-> 0]]
                  /\ UNCHANGED <<rows, stamps>>
  BY DEF ReadLatest
<1>2. base \in Nat
  BY <1>1, MaxVersionIs
<1>3. PgTypeOK' /\ writer'[w].pc = "stamp" /\ \A v \in Writers \ {w} : writer'[v] = writer[v]
  <2>1. PICK e : e = [pc |-> "stamp", agg |-> a, ver |-> base + 1, id |-> 0, ts |-> 0]
    OBVIOUS
  <2>2. writer \in [Writers -> RequestType]
    BY DEF PgInv, PgTypeOK, RequestType
  <2>3. writer' = [writer EXCEPT ![w] = e]
    BY <1>1, <2>1
  <2>4. e \in RequestType /\ e.pc = "stamp"
    BY <1>2, <2>1, <2>2 DEF RequestType
  <2>5. writer' \in [Writers -> RequestType] /\ writer'[w].pc = "stamp"
    BY <2>2, <2>3, <2>4
  <2> QED BY <1>1, <2>2, <2>3, <2>5 DEF PgInv, PgTypeOK, RequestType
<1> QED BY <1>1, <1>3 DEF PgInv, Stamped, Stampable

LEMMA StampKeeps ==
    ASSUME PgInv, NEW w \in Writers, Stamp(w)
    PROVE  PgInv'
<1>1. PICK id \in UlidsOf(stamps + 1) :
          writer' = [writer EXCEPT ![w] = [pc |-> "select", agg |-> @.agg, ver |-> @.ver, id |-> id, ts |-> stamps + 1]]
  BY DEF Stamp
<1>2. stamps \in Nat /\ stamps' = stamps + 1 /\ UNCHANGED rows
  BY DEF Stamp, PgInv, PgTypeOK
<1>3. id \in Nat /\ id >= 1
  <2>1. stamps \div PerMs \in Nat /\ PerMs \in Nat
    BY <1>2, PgAssumption
  <2>2. PICK d \in Nat : d = stamps \div PerMs
    BY <2>1
  <2>3. (stamps + 1) - 1 = stamps
    BY <1>2
  <2>4. PICK k \in 1..PerMs : id = d * PerMs + k
    BY <2>2, <2>3 DEF UlidsOf
  <2>5. d * PerMs \in Nat
    BY <2>1
  <2> QED BY <2>1, <2>4, <2>5
<1>4. PgTypeOK'
  <2>1. PICK e : e = [pc |-> "select", agg |-> writer[w].agg, ver |-> writer[w].ver, id |-> id, ts |-> stamps + 1]
    OBVIOUS
  <2>2. writer \in [Writers -> RequestType]
    BY DEF PgInv, PgTypeOK, RequestType
  <2>3. writer' = [writer EXCEPT ![w] = e]
    BY <1>1, <2>1
  <2>4. e \in RequestType
    BY <1>2, <1>3, <2>1, <2>2 DEF RequestType
  <2>5. writer' \in [Writers -> RequestType]
    BY <2>2, <2>3, <2>4
  <2> QED BY <1>2, <2>5 DEF PgInv, PgTypeOK, RequestType
<1>5. writer'[w].ts = stamps + 1 /\ writer'[w].id = id /\ \A v \in Writers \ {w} : writer'[v] = writer[v]
  BY <1>1 DEF PgInv, PgTypeOK
<1>6. \A v \in Writers \ {w} : Stamped(v)' = Stamped(v)
  BY <1>5 DEF Stamped
<1>7. \A r \in rows : r.ts \in 1..(stamps + 1) /\ r.ts # stamps + 1 /\ r.id >= 1
  BY <1>2 DEF PgInv
<1>8. \A v \in Writers : Stamped(v)' =>
          /\ writer'[v].ts \in 1..(stamps + 1) /\ writer'[v].id >= 1
          /\ \A r \in rows : r.ts # writer'[v].ts
  <2> SUFFICES ASSUME NEW v \in Writers, Stamped(v)'
               PROVE  /\ writer'[v].ts \in 1..(stamps + 1) /\ writer'[v].id >= 1
                      /\ \A r \in rows : r.ts # writer'[v].ts
    OBVIOUS
  <2>1. CASE v = w
    BY <1>2, <1>3, <1>5, <1>7, <2>1
  <2>2. CASE v # w
    BY <1>2, <1>5, <1>6, <2>2 DEF PgInv
  <2> QED BY <2>1, <2>2
<1>9. \A v \in Writers \ {w} : Stamped(v)' => writer'[v].ts # stamps + 1
  BY <1>2, <1>5, <1>6 DEF PgInv
<1>10. \A u, v \in Writers : Stamped(u)' /\ Stamped(v)' /\ writer'[u].ts = writer'[v].ts => u = v
  BY <1>5, <1>6, <1>9 DEF PgInv
<1> QED BY <1>2, <1>4, <1>7, <1>8, <1>10 DEF PgInv, Stampable

LEMMA EndKeeps ==
    ASSUME PgInv, NEW w \in Writers, End(w), UNCHANGED <<rows, stamps>>
    PROVE  PgInv'
<1>1. PgTypeOK'
  BY AtRestType DEF End, PgInv, PgTypeOK, RequestType
<1>2. writer'[w] = AtRest /\ \A v \in Writers \ {w} : writer'[v] = writer[v]
  BY DEF End, PgInv, PgTypeOK
<1>3. ~ Stamped(w)' /\ \A v \in Writers \ {w} : Stamped(v)' = Stamped(v)
  BY <1>2, AtRestType DEF Stamped
<1> QED BY <1>1, <1>2, <1>3 DEF PgInv, Stampable

LEMMA SelectMaxKeeps ==
    ASSUME PgInv, NEW w \in Writers, SelectMax(w)
    PROVE  PgInv'
<1>1. CASE End(w)
  <2>1. UNCHANGED <<rows, stamps>>
    BY DEF SelectMax
  <2> QED BY <1>1, <2>1, EndKeeps
<1>2. CASE writer' = [writer EXCEPT ![w].pc = "insert"]
  <2>1. UNCHANGED <<rows, stamps>> /\ writer[w].pc = "select"
    BY <1>2 DEF SelectMax
  <2>2. PgTypeOK' /\ \A v \in Writers : writer'[v].ts = writer[v].ts /\ writer'[v].id = writer[v].id
    BY <1>2, <2>1 DEF PgInv, PgTypeOK
  <2>3. \A v \in Writers : Stamped(v)' = Stamped(v)
    BY <1>2, <2>1 DEF PgInv, PgTypeOK, Stamped
  <2> QED BY <2>1, <2>2, <2>3 DEF PgInv, Stampable
<1> QED BY <1>1, <1>2 DEF SelectMax

(* The row a request inserts carries a timestamp no other row has.         *)
RowOf(e) == [id |-> e.id, agg |-> e.agg, ver |-> e.ver, ts |-> e.ts]

LEMMA InsertKeeps ==
    ASSUME PgInv, NEW w \in Writers, Insert(w)
    PROVE  PgInv'
<1>1. CASE rows' = rows
  <2>1. End(w)
    BY DEF Insert
  <2>2. UNCHANGED <<rows, stamps>>
    BY <1>1 DEF Insert
  <2> QED BY <2>1, <2>2, EndKeeps
<1>2. CASE rows' # rows
  <2>1. PICK r : r = RowOf(writer[w])
    OBVIOUS
  <2>2. r.id = writer[w].id /\ r.agg = writer[w].agg /\ r.ver = writer[w].ver /\ r.ts = writer[w].ts
    BY <2>1 DEF RowOf
  <2>3. r \in Row
    BY <2>1 DEF RowOf, Row, PgInv, PgTypeOK
  <2>4. rows' = rows \cup {r} /\ UNCHANGED stamps /\ writer[w].pc = "insert"
    BY <1>2, <2>1 DEF Insert, RowOf
  <2>5. End(w)
    BY DEF Insert
  <2>6. PgTypeOK'
    BY <2>3, <2>4, <2>5, AtRestType DEF PgInv, PgTypeOK, End, RequestType
  <2>7. writer'[w] = AtRest /\ \A v \in Writers \ {w} : writer'[v] = writer[v]
    BY <2>5 DEF End, PgInv, PgTypeOK
  <2>8. ~ Stamped(w)' /\ \A v \in Writers \ {w} : Stamped(v)' = Stamped(v)
    BY <2>7, AtRestType DEF Stamped
  <2>9. Stamped(w) /\ r.ts \in 1..stamps /\ r.id >= 1 /\ stamps \in Nat
    BY <2>2, <2>4 DEF Stamped, PgInv, PgTypeOK
  <2>10. \A x \in rows : x.ts # r.ts
    BY <2>2, <2>9 DEF PgInv
  <2>11. Stampable(rows)'
    <3>1. IsFiniteSet(rows \cup {r})
      BY FS_AddElement DEF PgInv, Stampable
    <3>2. \A x \in rows \cup {r} : x.ts \in Nat
      BY <2>9 DEF PgInv, Stampable
    <3>3. \A x, y \in rows \cup {r} : x.ts = y.ts => x = y
      BY <2>10 DEF PgInv, Stampable
    <3> QED BY <2>4, <3>1, <3>2, <3>3 DEF Stampable
  <2>12. \A v \in Writers \ {w} : Stamped(v) => writer[v].ts # r.ts
    BY <2>2, <2>9 DEF PgInv
  <2>13. \A v \in Writers : Stamped(v)' =>
            /\ writer'[v].ts \in 1..stamps' /\ writer'[v].id >= 1
            /\ \A x \in rows' : x.ts # writer'[v].ts
    BY <2>4, <2>7, <2>8, <2>12 DEF PgInv
  <2>14. \A u, v \in Writers : Stamped(u)' /\ Stamped(v)' /\ writer'[u].ts = writer'[v].ts => u = v
    BY <2>7, <2>8 DEF PgInv
  <2>15. \A x \in rows' : x.ts \in 1..stamps' /\ x.id >= 1
    BY <2>4, <2>9 DEF PgInv
  <2> QED BY <2>6, <2>11, <2>13, <2>14, <2>15 DEF PgInv
<1> QED BY <1>1, <1>2

LEMMA PgStepKeeps == PgInv /\ PgNext => PgInv' /\ rows \subseteq rows'
<1> SUFFICES ASSUME PgInv, PgNext PROVE PgInv' /\ rows \subseteq rows'
  OBVIOUS
<1>1. PgInv'
  BY ReadLatestKeeps, StampKeeps, SelectMaxKeeps, InsertKeeps DEF PgNext
<1>2. rows \subseteq rows'
  BY DEF PgNext, ReadLatest, Stamp, SelectMax, Insert
<1> QED BY <1>1, <1>2
-------------------------------------------------------------------------------
(* The loop keeps its types, for any requests and any stamps.              *)
TypeInv == PgInv /\ TypeOK

LEMMA SubsetStampable ==
    ASSUME PgInv, NEW id
    PROVE  Stampable({r \in rows : r.id > id})
BY FS_Subset DEF PgInv, Stampable

(* The batch of a turn: the rows past the cursor, each in its place.       *)
LEMMA BeginTickReads ==
    ASSUME TypeInv, BeginTick
    PROVE  /\ batch' \in Seq(rows) /\ Len(batch') \in Nat \ {0}
           /\ last' = batch'[Len(batch')].id
           /\ \A i, j \in DOMAIN batch' : i < j => batch'[i].ts < batch'[j].ts
           /\ \A i \in DOMAIN batch' : batch'[i] \in rows /\ batch'[i].id > cursor
           /\ \A r \in rows : r.id > cursor => \E i \in DOMAIN batch' : batch'[i] = r
<1> DEFINE X == {r \in rows : r.id > cursor}
<1>1. Stampable(X)
  BY SubsetStampable DEF TypeInv
<1>2. batch' = ByTimestamp(X) /\ batch' # <<>> /\ last' = batch'[Len(batch')].id
  BY DEF BeginTick, ReadSince
<1>3. PICK b \in Seq(X) : b = batch'
  BY <1>1, <1>2, ByTimestampIs
<1> HIDE DEF X
<1>4. Len(b) \in Nat \ {0} /\ \A i \in DOMAIN b : b[i] \in X
  BY <1>2, <1>3, EmptySeq, LenProperties
<1>5. X \subseteq rows /\ \A r \in X : r.id > cursor
  BY DEF X
<1>6. b \in Seq(rows)
  BY <1>5, SeqMonotonic
<1>7. /\ \A i, j \in DOMAIN b : i < j => b[i].ts < b[j].ts
      /\ \A r \in X : \E i \in DOMAIN b : b[i] = r
  BY <1>1, <1>2, <1>3, ByTimestampIs
<1>8. \A r \in rows : r.id > cursor => r \in X
  BY DEF X
<1> QED BY <1>2, <1>3, <1>4, <1>5, <1>6, <1>7, <1>8

(* The batch loses its head, and the agents reached see it.                *)
LEMMA DispatchMoves ==
    ASSUME TypeInv, Dispatch
    PROVE  /\ batch # <<>> /\ batch[1] \in rows
           /\ batch' \in Seq(rows) /\ Len(batch) \in Nat \ {0} /\ Len(batch') = Len(batch) - 1
           /\ DOMAIN batch = 1..Len(batch) /\ DOMAIN batch' = 1..Len(batch')
           /\ \A i \in 1..Len(batch') : batch'[i] = batch[i + 1]
           /\ \E reached \in SUBSET Agents :
                 /\ reached # {}
                 /\ ~ MayErr => reached = Agents
                 /\ seen' = [g \in Agents |-> IF g \in reached THEN Append(seen[g], batch[1]) ELSE seen[g]]
<1>1. batch \in Seq(rows) /\ batch # <<>> /\ batch' = Tail(batch)
  BY DEF TypeInv, TypeOK, Dispatch
<1>2. Len(batch) \in Nat \ {0} /\ batch[1] \in rows /\ DOMAIN batch = 1..Len(batch)
  <2>1. Len(batch) \in Nat \ {0}
    BY <1>1, EmptySeq
  <2> QED BY <1>1, <2>1, ElementOfSeq, LenProperties
<1>3. /\ Tail(batch) \in Seq(rows) /\ Len(Tail(batch)) = Len(batch) - 1
      /\ \A i \in 1..Len(Tail(batch)) : Tail(batch)[i] = batch[i + 1]
  BY <1>1, HeadTailProperties
<1>4. DOMAIN Tail(batch) = 1..Len(Tail(batch))
  BY <1>3, LenProperties
<1>5. PICK reached \in (IF MayErr THEN (SUBSET Agents) \ {{}} ELSE {Agents}) :
         seen' = [g \in Agents |-> IF g \in reached THEN Append(seen[g], batch[1]) ELSE seen[g]]
  BY DEF Dispatch
<1>6. reached \in SUBSET Agents /\ reached # {} /\ (~ MayErr => reached = Agents)
  <2>1. CASE MayErr
    BY <1>5, <2>1
  <2>2. CASE ~ MayErr
    BY <1>5, <2>2, RuntimeAssumption
  <2> QED BY <2>1, <2>2
<1> QED BY <1>1, <1>2, <1>3, <1>4, <1>5, <1>6

LEMMA InitTypeInv == Init => TypeInv
BY InitPgInv, RuntimeAssumption DEF Init, TypeInv, TypeOK, PgInv

LEMMA StepKeepsTypeInv == TypeInv /\ [Next]_vars => TypeInv'
<1> SUFFICES ASSUME TypeInv, [Next]_vars PROVE TypeInv'
  OBVIOUS
<1> DEFINE Ids == {0} \cup {r.id : r \in rows}
<1>1. CASE Request
  <2>1. PgInv' /\ rows \subseteq rows' /\ late' \subseteq rows'
    BY <1>1, PgStepKeeps DEF TypeInv, TypeOK, Request
  <2>2. UNCHANGED <<cursor, batch, last, seen, restarts>>
    BY <1>1 DEF Request, runtimeVars
  <2>3. batch \in Seq(rows') /\ \A g \in Agents : seen[g] \in Seq(rows')
    BY <2>1, SeqMonotonic DEF TypeInv, TypeOK
  <2>4. Ids \subseteq Ids'
    BY <2>1
  <2> QED BY <2>1, <2>2, <2>3, <2>4 DEF TypeInv, TypeOK, PgInv
<1>2. CASE BeginTick
  <2>1. /\ batch' \in Seq(rows) /\ Len(batch') \in Nat \ {0} /\ last' = batch'[Len(batch')].id
        /\ UNCHANGED <<pgVars, cursor, seen, late, restarts>>
    BY <1>2, BeginTickReads DEF BeginTick
  <2>2. last' \in Ids
    <3>1. batch'[Len(batch')] \in rows
      BY <2>1, ElementOfSeq
    <3> QED BY <2>1, <3>1
  <2> QED
    BY <2>1, <2>2 DEF TypeInv, TypeOK, PgInv, PgTypeOK, Stamped, Stampable, pgVars
<1>3. CASE Dispatch
  <2>1. PICK reached \in SUBSET Agents :
           seen' = [g \in Agents |-> IF g \in reached THEN Append(seen[g], batch[1]) ELSE seen[g]]
    BY <1>3, DispatchMoves
  <2>2. batch' \in Seq(rows) /\ batch[1] \in rows
    BY <1>3, DispatchMoves
  <2>3. \A g \in Agents : Append(seen[g], batch[1]) \in Seq(rows)
    BY <2>2, AppendProperties DEF TypeInv, TypeOK
  <2>4. seen' \in [Agents -> Seq(rows)]
    BY <2>1, <2>3 DEF TypeInv, TypeOK
  <2>5. UNCHANGED <<pgVars, cursor, last, late, restarts>>
    BY <1>3 DEF Dispatch
  <2> QED
    BY <2>2, <2>4, <2>5 DEF TypeInv, TypeOK, PgInv, PgTypeOK, Stamped, Stampable, pgVars
<1>4. CASE EndTick
  BY <1>4 DEF EndTick, NextCursor, TypeInv, TypeOK, PgInv, PgTypeOK, Stamped, Stampable, pgVars
<1>5. CASE Restart
  <2>1. /\ writer' = [w \in Writers |-> AtRest]
        /\ UNCHANGED <<rows, stamps>>
    BY <1>5 DEF Restart
  <2>2. PgInv'
    <3>1. PgTypeOK'
      BY <2>1, AtRestType DEF TypeInv, PgInv, PgTypeOK, RequestType
    <3>2. \A w \in Writers : ~ Stamped(w)'
      BY <2>1, AtRestType DEF Stamped
    <3> QED BY <2>1, <3>1, <3>2 DEF TypeInv, PgInv, Stampable
  <2>3. restarts' \in 0..MaxRestarts
    BY <1>5, RuntimeAssumption DEF Restart, TypeInv, TypeOK
  <2>4. cursor' = 0 /\ last' = 0 /\ batch' = <<>> /\ late' = {} /\ seen' = [g \in Agents |-> <<>>]
    BY <1>5 DEF Restart
  <2> QED BY <2>2, <2>3, <2>4 DEF TypeInv, TypeOK, PgInv
<1>6. CASE UNCHANGED vars
  BY <1>6 DEF vars, runtimeVars, TypeInv, TypeOK, PgInv, PgTypeOK, Stamped, Stampable, pgVars
<1> QED BY <1>1, <1>2, <1>3, <1>4, <1>5, <1>6 DEF Next, RuntimeNext

LEMMA TypeInvHolds == Spec => []TypeInv
BY InitTypeInv, StepKeepsTypeInv, PTL DEF Spec

(* The table, the requests and the loop keep their types, whatever fails   *)
(* and however often the kernel restarts (persistent.rs, runtime.rs).      *)
THEOREM RuntimeTypeOK == Spec => []TypeOK
BY TypeInvHolds, PTL DEF TypeInv
-------------------------------------------------------------------------------
(* What the loop owes: up to where its turn reaches, every row that was    *)
(* visible in time has been dispatched or is in the batch; the batch is in *)
(* order and ahead of the cursor.                                          *)
WasDispatched(r) ==
    /\ \E g \in Agents : r \in Handled(g)
    /\ ~ MayErr => \A g \in Agents : r \in Handled(g)

BatchAhead ==
    /\ last = 0 => batch = <<>>
    /\ last # 0 => cursor < last
    /\ \A i, j \in DOMAIN batch : i < j => batch[i].ts < batch[j].ts
    /\ \A i \in DOMAIN batch : batch[i].id > cursor

NothingOwed ==
    \A r \in rows \ late :
        r.id <= Position => WasDispatched(r) \/ \E i \in DOMAIN batch : batch[i] = r

(* Nothing that has been read was stamped after all that the turn reaches. *)
Reached(r) == \E c \in rows : c.id <= Position /\ r.ts <= c.ts

ReadBehind ==
    /\ \A g \in Agents : \A i \in DOMAIN seen[g] : Reached(seen[g][i])
    /\ \A k \in DOMAIN batch : Reached(batch[k])

(* What the agents have seen comes before what is in the batch.            *)
SeenBefore ==
    \A g \in Agents : \A i \in DOMAIN seen[g] : \A k \in DOMAIN batch :
        seen[g][i].ts < batch[k].ts \/ Inverted(batch[k])

TickInv == BatchAhead /\ NothingOwed /\ ReadBehind /\ SeenBefore /\ HandedInOrder

LEMMA PositionType ==
    ASSUME TypeInv
    PROVE  /\ cursor \in Nat /\ last \in Nat /\ Position \in Nat
           /\ \A r \in rows : r.id \in Nat /\ r.id >= 1 /\ r.ts \in Nat
BY DEF TypeInv, TypeOK, PgInv, PgTypeOK, Row, Position

LEMMA TickGivesOnceInOrder ==
    ASSUME TypeInv, TickInv
    PROVE  OnceInOrder
<1>1. ASSUME NEW r \in rows \ late, r.id <= cursor PROVE WasDispatched(r)
  <2>1. r.id <= Position
    BY <1>1, PositionType DEF Position, TickInv, BatchAhead
  <2>2. \A i \in DOMAIN batch : batch[i] # r
    BY <1>1, PositionType DEF TickInv, BatchAhead
  <2> QED BY <2>1, <2>2 DEF TickInv, NothingOwed
<1> QED BY <1>1 DEF OnceInOrder, NothingSkipped, WasDispatched, TickInv

LEMMA InitTick == Init => TickInv
<1> SUFFICES ASSUME Init PROVE TickInv
  OBVIOUS
<1>1. TypeInv
  BY InitTypeInv
<1>2. cursor = 0 /\ last = 0 /\ batch = <<>> /\ Position = 0 /\ \A g \in Agents : seen[g] = <<>>
  BY DEF Init, Position
<1> QED
  BY <1>1, <1>2, PositionType
  DEF TickInv, BatchAhead, NothingOwed, ReadBehind, SeenBefore, HandedInOrder

(* A row that is inserted is past everything the turn reaches, or late.    *)
LEMMA RequestKeepsTick ==
    ASSUME TypeInv, TickInv, Request
    PROVE  TickInv'
<1>1. UNCHANGED <<cursor, batch, last, seen>> /\ Position' = Position
  BY DEF Request, runtimeVars, Position
<1>2. rows \subseteq rows' /\ PgInv'
  BY PgStepKeeps DEF TypeInv, Request
<1>3. BatchAhead'
  BY <1>1 DEF TickInv, BatchAhead
<1>4. \A r : (Reached(r) => Reached(r)') /\ (Inverted(r) => Inverted(r)')
  BY <1>1, <1>2 DEF Reached, Inverted
<1>5. ReadBehind' /\ SeenBefore' /\ HandedInOrder'
  BY <1>1, <1>4 DEF TickInv, ReadBehind, SeenBefore, HandedInOrder
<1>6. NothingOwed'
  <2>1. \A r : WasDispatched(r)' = WasDispatched(r)
    BY <1>1 DEF WasDispatched, Handled
  <2>2. ASSUME NEW r \in rows' \ late', r.id <= Position
        PROVE  WasDispatched(r) \/ \E i \in DOMAIN batch : batch[i] = r
    <3>1. r \in rows \ late
      BY <2>2 DEF Request
    <3> QED BY <2>2, <3>1 DEF TickInv, NothingOwed
  <2> QED BY <1>1, <2>1, <2>2 DEF NothingOwed
<1> QED BY <1>3, <1>5, <1>6 DEF TickInv

LEMMA BeginTickKeepsTick ==
    ASSUME TypeInv, TickInv, BeginTick
    PROVE  TickInv'
<1>1. last = 0 /\ batch = <<>> /\ UNCHANGED <<rows, cursor, seen, late>> /\ Position = cursor
  BY DEF BeginTick, pgVars, Position
<1>2. \A r \in rows : r.id \in Nat /\ r.id >= 1 /\ r.ts \in Nat
  BY PositionType
<1>3. cursor \in Nat
  BY PositionType
<1>4. PICK n \in Nat \ {0} : n = Len(batch')
  BY BeginTickReads
<1>5. /\ DOMAIN batch' = 1..n /\ last' = batch'[n].id
      /\ \A i, j \in 1..n : i < j => batch'[i].ts < batch'[j].ts
      /\ \A i \in 1..n : batch'[i] \in rows /\ batch'[i].id > cursor
      /\ \A r \in rows : r.id > cursor => \E i \in 1..n : batch'[i] = r
  <2>1. DOMAIN batch' = 1..n
    BY <1>4, BeginTickReads, LenProperties
  <2> QED BY <1>4, <2>1, BeginTickReads
<1>6. n \in 1..n
  OBVIOUS
<1>7. last' \in Nat /\ cursor < last' /\ last' # 0 /\ Position' = last'
  BY <1>2, <1>3, <1>5, <1>6 DEF Position
<1>8. BatchAhead'
  BY <1>1, <1>3, <1>5, <1>7 DEF BatchAhead
<1>9. NothingOwed'
  <2>1. ASSUME NEW r \in rows \ late PROVE WasDispatched(r) \/ \E i \in 1..n : batch'[i] = r
    <3>1. CASE r.id > cursor
      BY <1>5, <3>1
    <3>2. CASE ~ (r.id > cursor)
      BY <1>1, <1>2, <1>3, <3>2 DEF TickInv, NothingOwed
    <3> QED BY <3>1, <3>2
  <2> QED BY <1>1, <1>5, <2>1 DEF NothingOwed, WasDispatched, Handled
<1>10. ReadBehind'
  <2>1. \A r : Reached(r) => Reached(r)'
    BY <1>1, <1>2, <1>3, <1>7 DEF Reached
  <2>2. PICK c \in rows : c = batch'[n]
    BY <1>5, <1>6
  <2>3. c.id <= Position'
    BY <1>2, <1>5, <1>7, <2>2
  <2>4. ASSUME NEW k \in 1..n PROVE batch'[k].ts <= c.ts
    <3>1. PICK b \in rows : b = batch'[k]
      BY <1>5
    <3>2. b.ts \in Nat /\ c.ts \in Nat
      BY <1>2
    <3>3. CASE k = n
      BY <2>2, <3>1, <3>2, <3>3
    <3>4. CASE k < n
      <4>1. batch'[k].ts < batch'[n].ts
        BY <1>5, <1>6, <3>4
      <4> QED BY <2>2, <3>1, <3>2, <4>1
    <3> QED BY <3>3, <3>4
  <2>5. \A k \in 1..n : \E d \in rows : d.id <= Position' /\ batch'[k].ts <= d.ts
    BY <2>3, <2>4
  <2> QED BY <1>1, <1>5, <2>1, <2>5 DEF TickInv, ReadBehind, Reached
<1>11. SeenBefore'
  <2>1. ASSUME NEW g \in Agents, NEW i \in DOMAIN seen[g], NEW k \in 1..n
        PROVE  seen[g][i].ts < batch'[k].ts \/ Inverted(batch'[k])
    <3>1. PICK c \in rows : c.id <= cursor /\ seen[g][i].ts <= c.ts
      BY <1>1 DEF TickInv, ReadBehind, Reached
    <3>2. seen[g][i] \in rows
      <4>1. seen[g] \in Seq(rows)
        BY DEF TypeInv, TypeOK
      <4> QED BY <4>1, LenProperties, ElementOfSeq
    <3>3. PICK b \in rows : b = batch'[k] /\ b.id > cursor
      BY <1>5
    <3>4. b # c /\ c.id < b.id
      BY <1>2, <1>3, <3>1, <3>3
    <3>5. b.ts # c.ts
      BY <3>4 DEF TypeInv, PgInv, Stampable
    <3>6. seen[g][i].ts < b.ts \/ b.ts < c.ts
      BY <1>2, <3>1, <3>2, <3>3, <3>5
    <3> QED BY <3>3, <3>4, <3>6 DEF Inverted
  <2> QED BY <1>1, <1>5, <2>1 DEF SeenBefore, Inverted
<1>12. HandedInOrder'
  BY <1>1 DEF TickInv, HandedInOrder, Inverted
<1> QED BY <1>8, <1>9, <1>10, <1>11, <1>12 DEF TickInv

LEMMA DispatchKeepsTick ==
    ASSUME TypeInv, TickInv, Dispatch
    PROVE  TickInv'
<1>1. UNCHANGED <<rows, cursor, last, late>> /\ Position' = Position
  BY DEF Dispatch, pgVars, Position
<1>2. \A r : Reached(r)' = Reached(r) /\ Inverted(r)' = Inverted(r)
  BY <1>1 DEF Reached, Inverted
<1>3. \A r \in rows : r.ts \in Nat
  BY PositionType
<1>4. PICK n \in Nat : n + 1 = Len(batch)
  <2>1. Len(batch) \in Nat \ {0}
    BY DispatchMoves
  <2>2. Len(batch) - 1 \in Nat /\ (Len(batch) - 1) + 1 = Len(batch)
    BY <2>1
  <2> QED BY <2>2
<1>5. PICK b \in rows : b = batch[1]
  BY DispatchMoves
<1>6. /\ DOMAIN batch = 1..(n + 1) /\ DOMAIN batch' = 1..n
      /\ \A i \in 1..n : batch'[i] = batch[i + 1]
  <2>1. Len(batch') = n
    <3>1. Len(batch') = Len(batch) - 1
      BY DispatchMoves
    <3> QED BY <1>4, <3>1
  <2> QED BY <1>4, <2>1, DispatchMoves
<1>7. \A i \in 1..n : i + 1 \in 1..(n + 1) /\ 1 < i + 1
  OBVIOUS
<1>8. 1 \in 1..(n + 1)
  OBVIOUS
<1>9. last # 0 /\ Reached(b)
  BY <1>5, <1>6, <1>8 DEF TickInv, BatchAhead, ReadBehind
<1>10. \A i \in 1..n : b.ts < batch'[i].ts
  BY <1>5, <1>6, <1>7, <1>8 DEF TickInv, BatchAhead
<1>11. BatchAhead'
  <2>1. \A i, j \in 1..n : i < j => batch'[i].ts < batch'[j].ts
    <3> SUFFICES ASSUME NEW i \in 1..n, NEW j \in 1..n, i < j PROVE batch'[i].ts < batch'[j].ts
      OBVIOUS
    <3>1. i + 1 < j + 1
      OBVIOUS
    <3> QED BY <1>6, <1>7, <3>1 DEF TickInv, BatchAhead
  <2>2. \A i \in 1..n : batch'[i].id > cursor
    BY <1>6, <1>7 DEF TickInv, BatchAhead
  <2> QED BY <1>1, <1>6, <1>9, <2>1, <2>2 DEF TickInv, BatchAhead
<1>12. PICK reached \in SUBSET Agents :
          /\ reached # {}
          /\ ~ MayErr => reached = Agents
          /\ seen' = [g \in Agents |-> IF g \in reached THEN Append(seen[g], b) ELSE seen[g]]
  BY <1>5, DispatchMoves
<1>13. ASSUME NEW g \in Agents
       PROVE  /\ DOMAIN seen[g] = 1..Len(seen[g]) /\ Len(seen[g]) \in Nat
              /\ \A i \in DOMAIN seen[g] : seen[g][i].ts < b.ts \/ Inverted(b)
              /\ \A i \in DOMAIN seen[g] : i \in DOMAIN seen'[g] /\ seen'[g][i] = seen[g][i]
              /\ \A i \in DOMAIN seen'[g] :
                    i \in DOMAIN seen[g] \/ (g \in reached /\ i = Len(seen[g]) + 1 /\ seen'[g][i] = b)
              /\ g \in reached => Len(seen[g]) + 1 \in DOMAIN seen'[g] /\ seen'[g][Len(seen[g]) + 1] = b
  <2>1. PICK s \in Seq(rows) : s = seen[g]
    BY DEF TypeInv, TypeOK
  <2>2. DOMAIN s = 1..Len(s) /\ Len(s) \in Nat
    BY LenProperties
  <2>3. \A i \in DOMAIN s : s[i].ts < b.ts \/ Inverted(b)
    BY <1>5, <1>6, <1>8, <2>1 DEF TickInv, SeenBefore
  <2>4. CASE g \in reached
    <3>1. seen'[g] = Append(s, b)
      BY <1>12, <2>1, <2>4
    <3>2. /\ Append(s, b) \in Seq(rows) /\ Len(Append(s, b)) = Len(s) + 1
          /\ \A i \in 1..Len(s) : Append(s, b)[i] = s[i]
          /\ Append(s, b)[Len(s) + 1] = b
      BY AppendProperties
    <3>3. DOMAIN Append(s, b) = 1..(Len(s) + 1)
      BY <3>2, LenProperties
    <3>4. \A i \in 1..(Len(s) + 1) : i \in 1..Len(s) \/ i = Len(s) + 1
      BY <2>2
    <3>5. Len(s) + 1 \in 1..(Len(s) + 1) /\ 1..Len(s) \subseteq 1..(Len(s) + 1)
      BY <2>2
    <3> QED BY <2>1, <2>2, <2>3, <2>4, <3>1, <3>2, <3>3, <3>4, <3>5
  <2>5. CASE g \notin reached
    <3>1. seen'[g] = s
      BY <1>12, <2>1, <2>5
    <3> QED BY <2>1, <2>2, <2>3, <2>5, <3>1
  <2> QED BY <2>4, <2>5
<1>14. HandedInOrder'
  <2> SUFFICES ASSUME NEW g \in Agents, NEW i \in DOMAIN seen'[g], NEW j \in DOMAIN seen'[g], i < j
               PROVE  seen'[g][i].ts < seen'[g][j].ts \/ Inverted(seen'[g][j])
    BY <1>2 DEF HandedInOrder
  <2>1. CASE j \in DOMAIN seen[g]
    <3>1. i \in DOMAIN seen[g]
      BY <1>13, <2>1
    <3> QED BY <1>13, <2>1, <3>1 DEF TickInv, HandedInOrder
  <2>2. CASE j \notin DOMAIN seen[g]
    <3>1. j = Len(seen[g]) + 1 /\ seen'[g][j] = b
      BY <1>13, <2>2
    <3>2. i \in DOMAIN seen[g]
      BY <1>13, <3>1
    <3> QED BY <1>13, <3>1, <3>2
  <2> QED BY <2>1, <2>2
<1>15. ReadBehind'
  <2>1. \A k \in 1..n : Reached(batch'[k])
    BY <1>6, <1>7 DEF TickInv, ReadBehind
  <2>2. ASSUME NEW g \in Agents, NEW i \in DOMAIN seen'[g] PROVE Reached(seen'[g][i])
    <3>1. CASE i \in DOMAIN seen[g]
      BY <1>13, <3>1 DEF TickInv, ReadBehind
    <3>2. CASE i \notin DOMAIN seen[g]
      BY <1>9, <1>13, <3>2
    <3> QED BY <3>1, <3>2
  <2> QED BY <1>2, <1>6, <2>1, <2>2 DEF ReadBehind
<1>16. SeenBefore'
  <2> SUFFICES ASSUME NEW g \in Agents, NEW i \in DOMAIN seen'[g], NEW k \in 1..n
               PROVE  seen'[g][i].ts < batch'[k].ts \/ Inverted(batch'[k])
    BY <1>2, <1>6 DEF SeenBefore
  <2>1. CASE i \in DOMAIN seen[g]
    <3>1. seen'[g][i] = seen[g][i]
      BY <1>13, <2>1
    <3> QED BY <1>6, <1>7, <2>1, <3>1 DEF TickInv, SeenBefore
  <2>2. CASE i \notin DOMAIN seen[g]
    <3>1. seen'[g][i] = b
      BY <1>13, <2>2
    <3> QED BY <1>10, <3>1
  <2> QED BY <2>1, <2>2
<1>17. NothingOwed'
  <2>1. \A g \in Agents : Handled(g) \subseteq Handled(g)' /\ (g \in reached => b \in Handled(g)')
    BY <1>13 DEF Handled
  <2>2. WasDispatched(b)'
    <3>1. \E g \in Agents : b \in Handled(g)'
      BY <1>12, <2>1
    <3>2. ~ MayErr => \A g \in Agents : b \in Handled(g)'
      BY <1>12, <2>1
    <3> QED BY <3>1, <3>2 DEF WasDispatched
  <2>3. ASSUME NEW r \in rows, WasDispatched(r) PROVE WasDispatched(r)'
    BY <2>1, <2>3 DEF WasDispatched
  <2>4. ASSUME NEW r \in rows \ late, r.id <= Position
        PROVE  WasDispatched(r)' \/ \E i \in DOMAIN batch' : batch'[i] = r
    <3>1. CASE WasDispatched(r)
      BY <2>3, <3>1
    <3>2. CASE \E i \in DOMAIN batch : batch[i] = r
      <4>1. PICK i \in 1..(n + 1) : batch[i] = r
        BY <1>6, <3>2
      <4>2. CASE i = 1
        BY <1>5, <2>2, <4>1, <4>2
      <4>3. CASE i # 1
        <5>1. i - 1 \in 1..n /\ (i - 1) + 1 = i
          BY <4>3
        <5> QED BY <1>6, <4>1, <5>1
      <4> QED BY <4>2, <4>3
    <3> QED BY <2>4, <3>1, <3>2 DEF TickInv, NothingOwed
  <2> QED BY <1>1, <2>4 DEF NothingOwed
<1> QED BY <1>11, <1>14, <1>15, <1>16, <1>17 DEF TickInv

LEMMA EndTickKeepsTick ==
    ASSUME TypeInv, TickInv, EndTick
    PROVE  TickInv'
<1>1. batch = <<>> /\ batch' = <<>> /\ last # 0 /\ last' = 0 /\ cursor' = last
  BY PositionType DEF EndTick, NextCursor, TickInv, BatchAhead
<1>2. UNCHANGED <<rows, seen, late>> /\ Position' = Position
  BY <1>1 DEF EndTick, pgVars, Position
<1>3. BatchAhead' /\ SeenBefore'
  BY <1>1 DEF BatchAhead, SeenBefore
<1>4. NothingOwed' /\ ReadBehind' /\ HandedInOrder'
  BY <1>1, <1>2 DEF TickInv, NothingOwed, ReadBehind, Reached, HandedInOrder, Inverted, WasDispatched, Handled
<1> QED BY <1>3, <1>4 DEF TickInv

LEMMA RestartKeepsTick ==
    ASSUME TypeInv, Restart
    PROVE  TickInv'
<1>1. /\ cursor' = 0 /\ last' = 0 /\ batch' = <<>> /\ rows' = rows /\ Position' = 0
      /\ \A g \in Agents : seen'[g] = <<>>
  BY DEF Restart, Position
<1>2. \A r \in rows : ~ (r.id <= 0)
  BY PositionType
<1> QED
  BY <1>1, <1>2 DEF TickInv, BatchAhead, NothingOwed, ReadBehind, SeenBefore, HandedInOrder

LEMMA StepKeepsTick == TypeInv /\ TickInv /\ [Next]_vars => TickInv'
<1> SUFFICES ASSUME TypeInv, TickInv, [Next]_vars PROVE TickInv'
  OBVIOUS
<1>1. CASE UNCHANGED vars
  BY <1>1 DEF vars, pgVars, runtimeVars, TickInv, BatchAhead, NothingOwed, ReadBehind, SeenBefore, HandedInOrder,
              Position, Reached, Inverted, WasDispatched, Handled
<1> QED
  BY <1>1, RequestKeepsTick, BeginTickKeepsTick, DispatchKeepsTick, EndTickKeepsTick, RestartKeepsTick
  DEF Next, RuntimeNext

(* For any number of requests side by side and of events in a millisecond, *)
(* restarts and failing statements included: every event at or before the  *)
(* loop's cursor has been dispatched, unless it became visible behind it,  *)
(* none twice and none after a later one, unless its id is out of order    *)
(* (runtime.rs dispatch_new_events).                                       *)
THEOREM RuntimeOnceInOrder == Spec => []OnceInOrder
<1>1. Init => TypeInv /\ TickInv
  BY InitTypeInv, InitTick
<1>2. (TypeInv /\ TickInv) /\ [Next]_vars => (TypeInv /\ TickInv)'
  BY StepKeepsTypeInv, StepKeepsTick
<1>3. TypeInv /\ TickInv => OnceInOrder
  BY TickGivesOnceInOrder
<1> QED BY <1>1, <1>2, <1>3, PTL DEF Spec
===============================================================================
