---------------------------- MODULE SearchEngine ----------------------------
(***************************************************************************)
(* SearchEngine (crates/search): the index and the query algebra.  A text  *)
(* is a sequence of words, a source a set of names, the metadata a         *)
(* function on the keys it has; a query is a record with the variant of    *)
(* QueryExpr as "op".  A score is a quotient <<n, d>>, so that no rank     *)
(* depends on a rounding.                                                  *)
(***************************************************************************)
EXTENDS Integers, Sequences, FiniteSets, SequencesExt, FiniteSetsExt, Folds, Absent

CONSTANTS Document, Query, Limit, MaxDocuments, Unlimited
          \* Query, Limit: the queries and result limits tried; Unlimited: usize::MAX

VARIABLES documents, \* SearchIndex.documents
          answer     \* the last search: query, limit and results, or Nothing

searchVars == <<documents, answer>>

-----------------------------------------------------------------------------
Take(s, n) == SubSeq(s, 1, Min({n, Len(s)}))
One == <<1, 1>>
Scored(doc, score) == [document |-> doc, score |-> score]
Above(a, b) == a.score[1] * b.score[2] > b.score[1] * a.score[2]

(* sort_by on the score keeps the order of equals.                         *)
Ranked(s) ==
    LET order == SortSeq([i \in 1..Len(s) |-> i],
                         LAMBDA i, j : Above(s[i], s[j]) \/ (~Above(s[j], s[i]) /\ i < j))
    IN  [k \in 1..Len(s) |-> s[order[k]]]

Ids(results) == {results[i].document.id : i \in DOMAIN results}
Keep(results, P(_)) == SelectSeq(results, LAMBDA r : P(r.document))
Plain(docs, P(_), max) ==
    Take([i \in DOMAIN SelectSeq(docs, P) |-> Scored(SelectSeq(docs, P)[i], One)], max)

-----------------------------------------------------------------------------
(* The predicates of the atomic queries on one document.                   *)
Occurrences(word, text) == Cardinality({i \in DOMAIN text : text[i] = word})
Has(word, text) == Occurrences(word, text) > 0
HasAny(text, words) == \E w \in words : Has(w, text)
HasPhrase(phrase, text) ==
    \E i \in 0..(Len(text) - Len(phrase)) : SubSeq(text, i + 1, i + Len(phrase)) = phrase
Optional(x, P(_)) == x = Nothing \/ P(x)
Meta(d, key, value) == key \in DOMAIN d.metadata /\ d.metadata[key] = value
Depth(d, key, none) == IF key \in DOMAIN d.metadata THEN d.metadata[key] ELSE none

Frequency(q, d) == 3 * Occurrences(q.word, d.title) + Occurrences(q.word, d.body)

(* A document without a time is in a range only if that has no bounds.     *)
InRange(q, d) ==
    IF d.timestamp = Nothing THEN q.start = Nothing /\ q.end = Nothing
    ELSE /\ Optional(q.start, LAMBDA s : d.timestamp >= s)
         /\ Optional(q.end, LAMBDA e : d.timestamp <= e)

Markers == [Function |-> {"fn", "function", "def", "func"}, Class |-> {"class", "struct"},
            Interface |-> {"interface", "trait", "protocol"},
            Import |-> {"import", "use", "#include", "require"}]
InStructure(q, d) ==
    /\ Optional(q.name, LAMBDA n : Has(n, d.body))
    /\ \/ q.pattern \in DOMAIN Markers /\ HasAny(d.body, Markers[q.pattern])
       \/ q.pattern = "Symbol" /\ IF "symbol_kind" \in DOMAIN d.metadata
                                  THEN Meta(d, "symbol_kind", q.kind) ELSE Has(q.kind, d.body)
       \/ q.pattern = "Call" /\ Optional(q.name, LAMBDA n : HasPhrase(<<n, "(">>, d.body))

Depends(q, d) ==
    /\ Optional(q.ecosystem, LAMBDA e : e \in d.source)
    /\ \/ q.relation = "Dependents"   /\ Meta(d, "depends_on", q.name)
       \/ q.relation = "Dependencies" /\ Meta(d, "package_name", q.name)
       \/ q.relation = "Ecosystem"
       \/ /\ q.relation = "Transitive"
          /\ "dep_chain" \in DOMAIN d.metadata /\ Has(q.name, d.metadata["dep_chain"])
          /\ Depth(d, "dep_depth", Unlimited) <= q.depth

InArchitecture(q, d) ==
    \/ q.scope \in {"Module", "Workspace", "Directory"} /\ q.name \in d.source
    \/ q.scope = "Module" /\ Has(q.name, d.title)
    \/ q.scope = "Package" /\ (Meta(d, "package", q.name) \/ d.title = <<q.name>>)
    \/ q.scope = "Workspace" /\ Meta(d, "workspace", q.name)

Passes(spec, r) ==
    CASE spec.by = "Kind"       -> r.document.kind = spec.value
      [] spec.by = "Source"     -> r.document.source = spec.value
      [] spec.by = "TimeBefore" -> Optional(r.document.timestamp, LAMBDA t : t < spec.value)
      [] spec.by = "TimeAfter"  -> Optional(r.document.timestamp, LAMBDA t : t > spec.value)
      [] spec.by = "Metadata"   -> Meta(r.document, spec.key, spec.value)
      [] spec.by = "ScoreAbove" -> ~Above(Scored(0, spec.value), r)
      [] spec.by = "ScoreBelow" -> ~Above(r, Scored(0, spec.value))

-----------------------------------------------------------------------------
(* Graph patterns: an edge holds of the one document that is the first of  *)
(* both of its ends, a path of any whose depth is small or missing.        *)
RECURSIVE EvalGraph(_, _, _)
EvalGraph(docs, p, max) ==
    LET first(q, d) == d.id \in Ids(EvalGraph(docs, q, 1))
        holds(d) ==
            CASE p.pattern = "Node" ->
                    /\ Has(p.name, d.title \o d.body)
                    /\ Optional(p.kind, LAMBDA k : d.kind = k)
              [] p.pattern = "Edge" ->
                    /\ first(p.source, d) /\ first(p.target, d)
                    /\ Optional(p.kind, LAMBDA k : Meta(d, "edge_kind", k))
              [] p.pattern = "Path" ->
                    first(p.from, d) \/ first(p.to, d) \/ Depth(d, "path_depth", 0) <= p.depth
              [] p.pattern = "Neighbors" ->
                    /\ EvalGraph(docs, p.node, max) # <<>>
                    /\ Depth(d, "graph_distance", Unlimited) <= p.depth
              [] p.pattern = "Subgraph" -> \E i \in DOMAIN p.patterns : first(p.patterns[i], d)
    IN  Plain(docs, holds, max)

(* The cosine of the word counts, squared: none is negative.               *)
Cosine(a, b) ==
    LET dot(x, y) == MapThenSumSet(LAMBDA w : Occurrences(w, x) * Occurrences(w, y),
                                   ToSet(x) \cup ToSet(y))
    IN  IF a = <<>> \/ b = <<>> THEN <<0, 1>> ELSE <<dot(a, b)^2, dot(a, a) * dot(b, b)>>
Text(d) == d.title \o d.body

EvalKeyword(docs, q, max) ==
    LET found == SelectSeq(docs, LAMBDA d : Frequency(q, d) > 0)
    IN  Take(Ranked([i \in DOMAIN found |-> Scored(found[i], <<Frequency(q, found[i]), 1>>)]), max)

EvalPhrase(docs, q, max) ==
    LET hits == Plain(docs, LAMBDA d : HasPhrase(q.words, d.title) \/ HasPhrase(q.words, d.body), max)
    IN  [i \in DOMAIN hits |-> Scored(hits[i].document, <<Len(q.words), 1>>)]

(* A document is scored by the first of the targets it is close to.        *)
EvalSimilarity(docs, base, q, max) ==
    LET close(d) == SelectSeq([i \in DOMAIN base |-> Scored(d, Cosine(Text(base[i].document), Text(d)))],
                              LAMBDA s : ~Above(Scored(0, q.threshold), s))
        found == SelectSeq(docs, LAMBDA d : close(d) # <<>>)
    IN  Take(Ranked([i \in DOMAIN found |-> close(found[i])[1]]), max)

(* SearchEngine::evaluate.  Every operand is cut at the limit before it is *)
(* combined or filtered, except that of Not.                               *)
OperandLimitKept(q, max) == max
OperandLimit(q, max) == IF q.op = "Not" THEN Unlimited ELSE max

RECURSIVE Evaluate(_, _, _)
Evaluate(docs, q, max) ==
    CASE q.op = "Keyword" -> EvalKeyword(docs, q, max)
      [] q.op = "Prefix" -> Plain(docs, LAMBDA d : Has(q.word, d.body) \/ Has(q.word, d.title), max)
      [] q.op = "Phrase" -> EvalPhrase(docs, q, max)
      [] q.op = "Semantic" -> <<>>    \* nothing sets an embedding
      [] q.op = "Temporal" -> Plain(docs, LAMBDA d : InRange(q, d), max)
      [] q.op = "Structural" -> Plain(docs, LAMBDA d : InStructure(q, d), max)
      [] q.op = "Graph" -> EvalGraph(docs, q, max)
      [] q.op = "Dependency" -> Plain(docs, LAMBDA d : Depends(q, d), max)
      [] q.op = "Architecture" -> Plain(docs, LAMBDA d : InArchitecture(q, d), max)
      [] q.op = "Similarity" -> EvalSimilarity(docs, Evaluate(docs, q.query, q.max), q, max)
      [] q.op = "And" ->
            IF q.queries = <<>> THEN <<>>
            ELSE Take(Ranked(Keep(Evaluate(docs, Head(q.queries), OperandLimit(q, max)),
                                  LAMBDA d : \A i \in 2..Len(q.queries) :
                                        d.id \in Ids(Evaluate(docs, q.queries[i], OperandLimit(q, max))))), max)
      [] q.op = "Or" ->
            LET all   == FlattenSeq([i \in DOMAIN q.queries |-> Evaluate(docs, q.queries[i], OperandLimit(q, max))])
                fresh == {i \in DOMAIN all : all[i].document.id \notin Ids(SubSeq(all, 1, i - 1))}
            IN  Take(Ranked([k \in 1..Cardinality(fresh) |-> all[SetToSortSeq(fresh, <)[k]]]), max)
      [] q.op = "Not" ->
            Plain(docs, LAMBDA d : d.id \notin Ids(Evaluate(docs, q.query, OperandLimit(q, max))), max)
      [] q.op = "Filter" -> SelectSeq(Evaluate(docs, q.query, OperandLimit(q, max)), LAMBDA r : Passes(q.spec, r))

-----------------------------------------------------------------------------
SearchInit == documents = <<>> /\ answer = Nothing
(* A document of an id the index has is added beside it.                   *)
IndexDocument(d) ==
    /\ Len(documents) < MaxDocuments
    /\ documents' = Append(documents, d) /\ answer' = Nothing
(* A search changes nothing: one is followed for each content.             *)
Search(q, max) ==
    /\ answer = Nothing /\ answer' = [query |-> q, limit |-> max, results |-> Evaluate(documents, q, max)]
    /\ UNCHANGED documents
ClearIndex == documents' = <<>> /\ answer' = Nothing
SearchNext ==
    \/ \E d \in Document : IndexDocument(d)
    \/ \E q \in Query, max \in Limit : Search(q, max)
    \/ ClearIndex

-----------------------------------------------------------------------------
(* What a query means, without limits, ranks or the order of its operands: *)
(* what one document must hold for an atomic query to match it.            *)
Matches(q, d) ==
    CASE q.op = "Keyword"      -> Has(q.word, d.title) \/ Has(q.word, d.body)
      [] q.op = "Prefix"       -> Has(q.word, Text(d))
      [] q.op = "Phrase"       -> HasPhrase(q.words, d.title) \/ HasPhrase(q.words, d.body)
      [] q.op = "Semantic"     -> FALSE
      [] q.op = "Temporal"     -> InRange(q, d)
      [] q.op = "Structural"   -> InStructure(q, d)
      [] q.op = "Dependency"   -> Depends(q, d)
      [] q.op = "Architecture" -> InArchitecture(q, d)
Worth(q, d) ==
    CASE q.op = "Keyword" -> <<Frequency(q, d), 1>>
      [] q.op = "Phrase"  -> <<Len(q.words), 1>>
      [] OTHER            -> One

(* The documents of which a pattern may hold, and those of which it holds. *)
RECURSIVE MayHold(_, _)
MayHold(docs, p) ==
    CASE p.pattern = "Node" -> {d \in docs : Has(p.name, Text(d)) /\ Optional(p.kind, LAMBDA k : d.kind = k)}
      [] p.pattern = "Edge" -> {d \in docs : /\ \E e \in MayHold(docs, p.source) : e.id = d.id
                                             /\ \E e \in MayHold(docs, p.target) : e.id = d.id
                                             /\ Optional(p.kind, LAMBDA k : Meta(d, "edge_kind", k))}
      [] p.pattern = "Path" -> {d \in docs : \/ \E e \in MayHold(docs, p.from) \cup MayHold(docs, p.to) : e.id = d.id
                                             \/ Depth(d, "path_depth", 0) <= p.depth}
      [] p.pattern = "Neighbors" ->
            {d \in docs : MayHold(docs, p.node) # {} /\ Depth(d, "graph_distance", Unlimited) <= p.depth}
      [] p.pattern = "Subgraph" ->
            {d \in docs : \E i \in DOMAIN p.patterns : \E e \in MayHold(docs, p.patterns[i]) : e.id = d.id}
MustHold(docs, p) ==
    CASE p.pattern = "Node"      -> MayHold(docs, p)
      [] p.pattern = "Path"      -> {d \in docs : Depth(d, "path_depth", 0) <= p.depth}
      [] p.pattern = "Neighbors" -> IF p.node.pattern = "Node" THEN MayHold(docs, p) ELSE {}
      [] OTHER                   -> {}

(* The scored documents a query may give, and the ids it gives when no     *)
(* limit cuts anything.  A document of a union has the score of any        *)
(* operand that has it, so a filter by score may keep it or drop it.       *)
RECURSIVE May(_, _), Must(_, _)
May(docs, q) ==
    LET all == {Scored(d, One) : d \in docs}
        ids(p) == {r.document.id : r \in May(docs, p)}
    IN  CASE q.op = "And" ->
                IF q.queries = <<>> THEN {}
                ELSE {r \in May(docs, Head(q.queries)) :
                        \A i \in DOMAIN q.queries : r.document.id \in ids(q.queries[i])}
          [] q.op = "Or" -> UNION {May(docs, q.queries[i]) : i \in DOMAIN q.queries}
          [] q.op = "Not" -> {r \in all : r.document.id \notin Must(docs, q.query)}
          [] q.op = "Filter" -> {r \in May(docs, q.query) : Passes(q.spec, r)}
          [] q.op = "Graph" -> {Scored(d, One) : d \in MayHold(docs, q)}
          [] q.op = "Similarity" ->
                {s \in {Scored(d, Cosine(Text(r.document), Text(d))) : r \in May(docs, q.query), d \in docs} :
                    ~Above(Scored(0, q.threshold), s)}
          [] OTHER -> {Scored(d, Worth(q, d)) : d \in {d \in docs : Matches(q, d)}}
Must(docs, q) ==
    CASE q.op = "And" ->
            {d.id : d \in {d \in docs : /\ q.queries # <<>>
                                        /\ \A i \in DOMAIN q.queries : d.id \in Must(docs, q.queries[i])}}
      [] q.op = "Or" -> UNION {Must(docs, q.queries[i]) : i \in DOMAIN q.queries}
      [] q.op = "Not" -> {d.id : d \in docs} \ {r.document.id : r \in May(docs, q.query)}
      [] q.op = "Filter" ->
            {x \in Must(docs, q.query) : \A r \in May(docs, q.query) : r.document.id = x => Passes(q.spec, r)}
      [] q.op = "Graph" -> {d.id : d \in MustHold(docs, q)}
      [] q.op = "Similarity" -> {}
      [] OTHER -> {d.id : d \in {d \in docs : Matches(q, d)}}

(* The algebra of queries (crates/search, QueryExpr): a search never gives *)
(* a document, nor a score, that its expression has not, whatever the      *)
(* limits cut off inside; with a limit that cuts nothing it gives all that *)
(* the expression must give; and its results are in the order of their     *)
(* scores.                                                                 *)
AlgebraIsSound ==
    answer # Nothing =>
        LET r == answer.results
            docs == ToSet(documents)
        IN  /\ Len(r) <= answer.limit
            /\ ToSet(r) \subseteq May(docs, answer.query)
            /\ answer.limit >= Len(documents) => Must(docs, answer.query) \subseteq Ids(r)
            /\ \A i, j \in DOMAIN r : i < j => ~Above(r[j], r[i])
=============================================================================
