------------------------- MODULE SimilarityMeasures -------------------------
(* The similarity measures of the algorithms crate (similarity.rs), with    *)
(* the processor's requests that compare two lines (algorithm_engine.rs).   *)
(* The digest of a word is the constant Digest: its hash under each of the  *)
(* hash functions of MinHash and its bits for SimHash, and two bands of a   *)
(* signature have the same digest when they are equal.  A fraction is a     *)
(* pair <<numerator, denominator>>.                                         *)
EXTENDS Integers, Sequences, FiniteSets, SequencesExt, FiniteSetsExt, Functions

CONSTANTS Vocabulary,     \* the words
          Digest,         \* word -> sequence of its hashes
          DigestBits,     \* word -> sequence of its bits
          Bands,          \* bands of the LSH
          Largest,        \* u64::MAX
          MaxSets         \* bound: sets added

VARIABLES minhash, buckets, sets
similarityVars == <<minhash, buckets, sets>>

NumHashes == Len(Digest[CHOOSE w \in Vocabulary : TRUE])
NumBits == Len(DigestBits[CHOOSE w \in Vocabulary : TRUE])

\* two empty sets are alike
Jaccard(a, b) ==
  IF a \cup b = {} THEN <<1, 1>> ELSE <<Cardinality(a \cap b), Cardinality(a \cup b)>>

\* the square of the cosine of the word counts of two texts, as a fraction
Occurrences(text, w) == Cardinality({i \in DOMAIN text : text[i] = w})
Dot(a, b) ==
  FoldFunction(LAMBDA x, y : x + y, 0, [w \in Vocabulary |-> Occurrences(a, w) * Occurrences(b, w)])
CosineSquared(a, b) ==
  IF a = <<>> \/ b = <<>> THEN <<0, 1>> ELSE <<Dot(a, b) * Dot(a, b), Dot(a, a) * Dot(b, b)>>

FirstSignature(s) == [i \in 1..NumHashes |-> IF s = {} THEN Largest
                                             ELSE Digest[CHOOSE w \in s : TRUE][i]]
Signature(s) == [i \in 1..NumHashes |-> Min({Largest} \cup {Digest[w][i] : w \in s})]
AddSet(s) == minhash' = Append(minhash, Signature(s))
EstimateSimilarity(i, j) ==
  IF i \notin DOMAIN minhash \/ j \notin DOMAIN minhash THEN <<0, 1>>
  ELSE <<Cardinality({h \in 1..NumHashes : minhash[i][h] = minhash[j][h]}), NumHashes>>

\* a bit is set when more of the words have it than not
SimHash(text) ==
  [b \in 1..NumBits |->
     LET set == Cardinality({i \in DOMAIN text : DigestBits[text[i]][b] = 1})
     IN IF 2 * set > Len(text) THEN 1 ELSE 0]
SimHashSimilarity(a, b) == <<NumBits - Cardinality({i \in 1..NumBits : a[i] # b[i]}), NumBits>>
AreNearDuplicates(a, b, threshold) ==
  SimHashSimilarity(a, b)[1] * threshold[2] >= threshold[1] * SimHashSimilarity(a, b)[2]

\* the last hashes of a signature are in no band when the bands do not divide them
Rows == NumHashes \div Bands
BandsOf(signature) == {SubSeq(signature, b * Rows + 1, (b + 1) * Rows) : b \in 0..(Bands - 1)}
Insert(s) ==
  /\ Len(minhash) < MaxSets
  /\ AddSet(s)
  /\ buckets' = [band \in DOMAIN buckets \cup BandsOf(Signature(s)) |->
                   (IF band \in DOMAIN buckets THEN buckets[band] ELSE {})
                     \cup (IF band \in BandsOf(Signature(s)) THEN {Len(minhash) + 1} ELSE {})]
  /\ sets' = Append(sets, s)
QueryLsh(s) == UNION {buckets[band] : band \in DOMAIN buckets \cap BandsOf(Signature(s))}

SimilarityInit == minhash = <<>> /\ buckets = <<>> /\ sets = <<>>
SimilarityNext == \E s \in SUBSET Vocabulary : Insert(s)

----------------------------------------------------------------------------
Texts == UNION {[1..n -> Vocabulary] : n \in 0..2}

\* Every measure is symmetric; a set and itself, a text and itself, a text and the same words in
\* another order have likeness one, except that the cosine of an empty text with any is zero, and
\* only equal sets have the Jaccard likeness one; the estimate for two sets is
\* at least the share of the hash functions both sets agree on and one when they are equal, and a
\* query returns each inserted set that is equal to the queried one and each one that shares a
\* whole band with it, and no other.
MeasuresAgree ==
  /\ \A a, b \in SUBSET Vocabulary : Jaccard(a, b) = Jaccard(b, a) /\ (Jaccard(a, b)[1] = Jaccard(a, b)[2]) = (a = b)
  /\ \A a, b \in Texts :
       /\ CosineSquared(a, b) = CosineSquared(b, a)
       /\ CosineSquared(a, b)[1] <= CosineSquared(a, b)[2]
       /\ CosineSquared(a, Reverse(a))[1] = (IF a = <<>> THEN 0 ELSE CosineSquared(a, Reverse(a))[2])
       /\ SimHashSimilarity(SimHash(a), SimHash(b)) = SimHashSimilarity(SimHash(b), SimHash(a))
       /\ AreNearDuplicates(SimHash(a), SimHash(Reverse(a)), <<1, 1>>)
  /\ \A i, j \in DOMAIN sets :
       /\ EstimateSimilarity(i, j) = EstimateSimilarity(j, i)
       /\ sets[i] = sets[j] => EstimateSimilarity(i, j) = <<NumHashes, NumHashes>>
       /\ EstimateSimilarity(i, j)[1] >= Cardinality({h \in 1..NumHashes :
            \E w \in sets[i] \cap sets[j] : \A v \in sets[i] \cup sets[j] : Digest[w][h] <= Digest[v][h]})
  /\ \A s \in SUBSET Vocabulary, i \in DOMAIN sets :
       /\ sets[i] = s => i \in QueryLsh(s)
       /\ i \in QueryLsh(s) <=> BandsOf(minhash[i]) \cap BandsOf(Signature(s)) # {}
=============================================================================
