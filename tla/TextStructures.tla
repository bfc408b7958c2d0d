--------------------------- MODULE TextStructures ---------------------------
(* The search structures of the algorithms crate (searching.rs), with the   *)
(* processor's requests that use them (algorithm_engine.rs).  A word is the *)
(* sequence of its bytes in UTF-8, none of them 0, the byte the FM index    *)
(* ends a text with.  The values the trees can keep beside a key are left   *)
(* out: the processor gives none.                                           *)
EXTENDS Integers, Sequences, FiniteSets, SequencesExt, FiniteSetsExt, Functions, Absent

CONSTANTS Word,           \* keys of the two trees, patterns of the index
          Text,           \* texts of the FM index
          Term, DocId,    \* terms and documents of the inverted index
          DocText,        \* the term sequences a document may have
          MaxWords,       \* bound: keys inserted
          MaxDocs         \* bound: documents added

VARIABLES trie, radix, inserted, unfit, corpus, postings, added
textVars == <<trie, radix, inserted, unfit, corpus, postings, added>>

----------------------------------------------------------------------------
(* `b as char` takes a byte for a character of its own, which in a string   *)
(* has two bytes when it is not ASCII; a slice of a string that does not    *)
(* begin and end between two characters panics.                             *)

AsChar(b) == IF b < 128 THEN <<b>> ELSE <<192 + (b \div 64), 128 + (b % 64)>>
AsChars(bytes) == FoldLeft(LAMBDA s, b : s \o AsChar(b), <<>>, bytes)
Ascii(w) == \A i \in DOMAIN w : w[i] < 128
Sliceable(w, n) == n = Len(w) \/ w[n + 1] < 128 \/ w[n + 1] >= 192
Rest(w, n) == SubSeq(w, n + 1, Len(w))

----------------------------------------------------------------------------
(* Trie: the set of its paths, and those of them at which a key ends *)

TrieInsert(t, w) == [paths |-> t.paths \cup Prefixes(w), ends |-> t.ends \cup {w}]
TrieSearch(t, w) == w \in t.ends
TrieStartsWith(t, p) == p \in t.paths
KeysWithPrefix(t, p) == {p \o AsChars(Rest(w, Len(p))) : w \in {v \in t.ends : IsPrefix(p, v)}}
\* the match ends at the first place the last matched byte occurs in the input
FirstPlace(w, x) == CHOOSE i \in DOMAIN w : w[i] = x /\ \A j \in 1..(i - 1) : w[j] # x
LongestPrefix(t, w) ==
  LET ends == {n \in 1..Len(w) : SubSeq(w, 1, n) \in t.ends}
  IN IF ends = {} THEN Nothing ELSE AsChars(SubSeq(w, 1, FirstPlace(w, w[Max(ends)])))

----------------------------------------------------------------------------
(* RadixTree *)

Leaf(prefix) == [prefix |-> prefix, children |-> <<>>, end |-> TRUE]
Common(p, w) == Max({n \in 0..Len(p) : n <= Len(w) /\ SubSeq(p, 1, n) = SubSeq(w, 1, n)})
\* the child whose prefix starts with the first byte of w
ChildFor(node, w) ==
  LET fit == {i \in DOMAIN node.children :
                node.children[i].prefix # <<>> /\ node.children[i].prefix[1] = w[1]}
  IN IF fit = {} THEN 0 ELSE Min(fit)
Split(node, n) ==
  [prefix |-> SubSeq(node.prefix, 1, n), end |-> FALSE,
   children |-> <<[node EXCEPT !.prefix = Rest(@, n)]>>]

RECURSIVE RadixInsert(_, _)
RadixInsert(node, w) ==
  LET common == Common(node.prefix, w)
      rest == Rest(w, common)
      Under(n, key) ==
        IF ChildFor(n, key) = 0 THEN [n EXCEPT !.children = Append(@, Leaf(key))]
        ELSE [n EXCEPT !.children[ChildFor(n, key)] = RadixInsert(@, key)]
  IN IF w = <<>> THEN [node EXCEPT !.end = TRUE]
     ELSE IF common > 0 /\ common < Len(node.prefix)
     THEN [Split(node, common) EXCEPT !.children = Append(@, Leaf(rest))]
     ELSE IF rest = <<>> THEN [node EXCEPT !.end = TRUE]
     ELSE Under(node, rest)

\* the first slice is taken before anything is changed
RECURSIVE RadixPanics(_, _)
RadixPanics(node, w) ==
  LET common == Common(node.prefix, w)
      rest == Rest(w, common)
  IN IF w = <<>> THEN FALSE
     ELSE IF common > 0 /\ common < Len(node.prefix) THEN ~Sliceable(node.prefix, common)
     ELSE rest # <<>> /\ ChildFor(node, rest) # 0 /\ RadixPanics(node.children[ChildFor(node, rest)], rest)

RECURSIVE RadixSearch(_, _)
RadixSearch(node, w) ==
  LET rest == Rest(w, Len(node.prefix))
  IN IF w = <<>> THEN node.end
     ELSE IF ~IsPrefix(node.prefix, w) THEN FALSE
     ELSE IF rest = <<>> THEN node.end
     ELSE ChildFor(node, rest) # 0 /\ RadixSearch(node.children[ChildFor(node, rest)], rest)

RECURSIVE RadixStartsWith(_, _)
RadixStartsWith(node, w) ==
  LET rest == Rest(w, Len(node.prefix))
  IN IF w = <<>> THEN TRUE
     ELSE IF ~IsPrefix(node.prefix, w) THEN IsPrefix(w, node.prefix)
     ELSE IF rest = <<>> THEN TRUE
     ELSE ChildFor(node, rest) # 0 /\ RadixStartsWith(node.children[ChildFor(node, rest)], rest)

\* asked for the empty rest of a word, a child that ends a key answers with its own prefix
RECURSIVE RadixLongest(_, _)
RadixLongest(node, w) ==
  LET below == SelectSeq([i \in DOMAIN node.children |->
                            RadixLongest(node.children[i], Rest(w, Len(node.prefix)))],
                         LAMBDA r : r # Nothing)
      own == IF node.end THEN node.prefix ELSE Nothing
  IN IF w = <<>> THEN own
     ELSE IF ~IsPrefix(node.prefix, w) THEN Nothing
     ELSE IF below # <<>> THEN node.prefix \o Head(below)
     ELSE own

----------------------------------------------------------------------------
(* FMIndex *)

RECURSIVE Before(_, _)
Before(a, b) ==
  IF b = <<>> THEN FALSE
  ELSE a = <<>> \/ a[1] < b[1] \/ (a[1] = b[1] /\ Before(Tail(a), Tail(b)))
SuffixArray(text) ==
  LET ended == Append(text, 0)
      SuffixAt(i) == SubSeq(ended, i, Len(ended))
  IN SortSeq([i \in 1..Len(ended) |-> i], LAMBDA i, j : Before(SuffixAt(i), SuffixAt(j)))
FmIndex(text) ==
  LET ended == Append(text, 0)
      suffixes == SuffixArray(text)
  IN [suffixes |-> suffixes, firsts |-> [i \in DOMAIN suffixes |-> ended[suffixes[i]]],
      bwt |-> [i \in DOMAIN suffixes |-> IF suffixes[i] = 1 THEN 0 ELSE ended[suffixes[i] - 1]]]
FirstOccurrence(fm, c) ==
  Min({Len(fm.firsts)} \cup {i - 1 : i \in {j \in DOMAIN fm.firsts : fm.firsts[j] = c}})
FirstOrZero(fm, c) == IF c \in Range(fm.firsts) THEN FirstOccurrence(fm, c) ELSE 0
CountUpTo(fm, n, c) == Cardinality({i \in 1..(n + 1) : i \in DOMAIN fm.bwt /\ fm.bwt[i] = c})
CountBefore(fm, n, c) == Cardinality({i \in 1..n : fm.bwt[i] = c})
\* the pattern backwards; an empty interval ends the search
RECURSIVE Narrow(_, _, _)
Narrow(fm, pattern, at) ==
  IF pattern = <<>> \/ at[1] >= at[2] THEN at
  ELSE LET c == Last(pattern)
       IN Narrow(fm, Front(pattern), [e \in 1..2 |-> FirstOrZero(fm, c) + CountBefore(fm, at[e], c)])
Interval(fm, pattern) == Narrow(fm, pattern, <<0, Len(fm.bwt)>>)
CountOccurrences(fm, pattern) ==
  IF pattern = <<>> \/ Interval(fm, pattern)[1] >= Interval(fm, pattern)[2] THEN 0
  ELSE Interval(fm, pattern)[2] - Interval(fm, pattern)[1]
FmSearch(fm, pattern) ==
  IF CountOccurrences(fm, pattern) = 0 THEN <<>>
  ELSE [i \in 1..CountOccurrences(fm, pattern) |-> fm.suffixes[Interval(fm, pattern)[1] + i] - 1]

----------------------------------------------------------------------------
(* InvertedIndex: a document added again is listed again *)

PositionsIn(text, term) == {i \in DOMAIN text : text[i] = term}
AddDocument(d, text) ==
  postings' = [t \in Term |-> IF t \in Range(text)
                              THEN Append(postings[t], <<d, PositionsIn(text, t)>>) ELSE postings[t]]
TermFrequency(t, d) ==
  FoldLeft(LAMBDA n, p : IF p[1] = d THEN n + Cardinality(p[2]) ELSE n, 0, postings[t])
DocumentFrequency(t) == Len(postings[t])

----------------------------------------------------------------------------
(* The requests of the processor; each needs some input *)

\* the radix tree, which no request uses, is given the same words: unfit are those it panics on
RunTrie == \E w \in Word :
  /\ Cardinality(inserted) < MaxWords
  /\ trie' = TrieInsert(trie, w)
  /\ inserted' = inserted \cup {w}
  /\ IF RadixPanics(radix, w) THEN unfit' = unfit \cup {w} /\ UNCHANGED radix
     ELSE radix' = RadixInsert(radix, w) /\ unfit' = unfit \ {w}
\* what a request answers of a word: the number of keys that share all of it but its last byte;
\* it panics, with no answer, when that cuts a character
PrefixCount(w) ==
  IF ~Sliceable(w, Len(w) - 1) THEN Nothing ELSE Cardinality(KeysWithPrefix(trie, Front(w)))
RunFmIndex == \E text \in Text : corpus' = FmIndex(text)
RunInvertedIndex ==
  \E d \in DocId, text \in DocText :
    Len(added) < MaxDocs /\ AddDocument(d, text) /\ added' = Append(added, <<d, text>>)

TextInit ==
  /\ trie = [paths |-> {<<>>}, ends |-> {}]
  /\ radix = [prefix |-> <<>>, children |-> <<>>, end |-> FALSE]
  /\ inserted = {}
  /\ unfit = {}
  /\ corpus = FmIndex(<<>>)
  /\ postings = [t \in Term |-> <<>>]
  /\ added = <<>>
WordsNext == RunTrie /\ UNCHANGED <<corpus, postings, added>>
CorpusNext == RunFmIndex /\ UNCHANGED <<trie, radix, inserted, unfit, postings, added>>
PostingsNext == RunInvertedIndex /\ UNCHANGED <<trie, radix, inserted, unfit, corpus>>
TextNext == WordsNext \/ CorpusNext \/ PostingsNext

----------------------------------------------------------------------------
Queries == Word \cup UNION {{p \in Prefixes(w) : Sliceable(w, Len(p))} : w \in Word}
TextOf(fm) ==
  [p \in 1..(Len(fm.suffixes) - 1) |-> fm.firsts[CHOOSE i \in DOMAIN fm.suffixes : fm.suffixes[i] = p]]
OccursAt(text, w) ==
  {p \in 0..Len(text) : p + Len(w) <= Len(text) /\ SubSeq(text, p + 1, p + Len(w)) = w}
PrefixFree(S) == \A v, w \in S : IsPrefix(v, w) => v = w
Under(w) == {v \in inserted : IsPrefix(w, v)}
Held == inserted \ unfit
Matches(w) == LongestPrefix(trie, w) # Nothing

\* The trie holds the keys inserted and nothing else; it lists as many keys under a prefix as there
\* are, and lists each as it is when the rest of it is ASCII; the longest prefix it finds is right
\* for an ASCII word in which no byte comes twice.
TrieIsExact(w) ==
  /\ TrieSearch(trie, w) = (w \in inserted)
  /\ TrieStartsWith(trie, w) = (w = <<>> \/ Under(w) # {})
  /\ Cardinality(KeysWithPrefix(trie, w)) = Cardinality(Under(w))
  /\ \A v \in Under(w) : Ascii(Rest(v, Len(w))) => v \in KeysWithPrefix(trie, w)
  /\ w # <<>> => PrefixCount(w) \in {Nothing, Cardinality(Under(Front(w)))}
  /\ Ascii(w) /\ Matches(w) => IsPrefix(LongestPrefix(trie, w), w)
  /\ Ascii(w) /\ IsInjective(w) /\ Matches(w) =>
       /\ LongestPrefix(trie, w) \in inserted
       /\ \A v \in inserted : IsPrefix(v, w) => Len(v) <= Len(LongestPrefix(trie, w))

\* The radix tree holds the keys it did not panic on and nothing else, except that it loses a key
\* that is a prefix of another; it panics only on a word that is not ASCII.
RadixIsExact(w) ==
  /\ RadixSearch(radix, w) => w \in Held
  /\ PrefixFree(Held) /\ w \in Held => RadixSearch(radix, w)
  /\ RadixStartsWith(radix, w) = (w = <<>> \/ \E v \in Held : IsPrefix(w, v))
  /\ RadixLongest(radix, w) # Nothing => RadixLongest(radix, w) \in Held
  /\ w \in unfit => ~Ascii(w) /\ \E v \in Held : v[1] = w[1]

\* The two trees answer as TrieIsExact and RadixIsExact say; the index finds a pattern exactly
\* where it occurs in its text; the postings of a term count every occurrence in every document
\* added, once per time added.
LookupsAreExact ==
  /\ \A w \in Queries :
       /\ TrieIsExact(w)
       /\ RadixIsExact(w)
       /\ w # <<>> => Range(FmSearch(corpus, w)) = OccursAt(TextOf(corpus), w)
  /\ \A t \in Term :
       /\ \A d \in DocId :
            TermFrequency(t, d) = FoldLeft(LAMBDA n, a : IF a[1] = d THEN n + Cardinality(PositionsIn(a[2], t))
                                                         ELSE n, 0, added)
       /\ DocumentFrequency(t) = Len(SelectSeq(added, LAMBDA a : t \in Range(a[2])))
=============================================================================
