---------------------------- MODULE TdxlCompiler ----------------------------
(***************************************************************************)
(* The compiler of TDXL (crates/tdxl): tokens are parsed into statements,  *)
(* lowered to KIR, an intermediate form in which every value has one       *)
(* producer, optimised twice and turned into instructions of the virtual   *)
(* machine.  A token is a record of its kind and value; an operation of    *)
(* KIR one of its kind, the value it makes (out), the values it uses (in,  *)
(* ref) and what else it says (arg).                                       *)
(***************************************************************************)
EXTENDS Integers, Sequences, FiniteSets, TLC, SequencesExt, FiniteSetsExt, Functions, Absent

-----------------------------------------------------------------------------
(* Parser.  A statement is its keyword, a value and an option; the words   *)
(* WITH, TO, AS and BY may be left out.                                    *)
Stmt(k, v, opt) == [stmt |-> k, val |-> v, opt |-> opt]
Token(tokens, i) == IF i \in DOMAIN tokens THEN tokens[i].tok ELSE "EOF"
IsValue(tokens, i) == Token(tokens, i) \in {"Integer", "Float", "Str", "Bool", "Null", "Ident"}
Particle == [Correlate |-> "With", Similar |-> "To", Classify |-> "As", Sort |-> "By", Store |-> "As"]
Comparison == {"Eq", "Neq", "Ge", "Le", "Gt", "Lt", "And", "Or"}

(* The statement at token i: [stmt, next], or next = 0 for an error.       *)
ParseError == [stmt |-> Nothing, next |-> 0]
Parsed1(s, next) == [stmt |-> s, next |-> next]

ParseTimeline(tokens, i) ==
    LET part(j, word) == IF Token(tokens, j) = word THEN 2 ELSE 0
        j == i + 1 + part(i + 1, "From")
        k == j + part(j, "To")
        given(n, m) == IF m > n THEN tokens[n + 1].val ELSE Nothing
    IN  IF (j > i + 1 /\ ~IsValue(tokens, i + 2)) \/ (k > j /\ ~IsValue(tokens, j + 1)) THEN ParseError
        ELSE Parsed1(Stmt("Timeline", given(i + 1, j), given(j, k)), k)

ParseCondition(tokens, i) ==
    IF ~IsValue(tokens, i + 1) THEN ParseError
    ELSE IF Token(tokens, i + 2) \notin Comparison
         THEN Parsed1(Stmt(Token(tokens, i), tokens[i + 1].val, Nothing), i + 2)
         ELSE IF ~IsValue(tokens, i + 3) THEN ParseError
              ELSE Parsed1(Stmt(Token(tokens, i), tokens[i + 1].val,
                                <<tokens[i + 2].tok, tokens[i + 3].val>>), i + 4)

ParseStatement(tokens, i) ==
    LET k == Token(tokens, i)
        j == IF k \in DOMAIN Particle /\ Token(tokens, i + 1) = Particle[k] THEN i + 1 ELSE i
    IN  CASE k = "Summarize" -> Parsed1(Stmt(k, Nothing, Nothing), i + 1)
          [] k = "Ident" -> Parsed1(Stmt("Load", tokens[i].val, Nothing), i + 1)
          [] k = "Timeline" -> ParseTimeline(tokens, i)
          [] k \in {"Match", "Where", "Filter"} -> ParseCondition(tokens, i)
          [] k = "Traverse" ->
                IF ~IsValue(tokens, i + 1) \/ (Token(tokens, i + 2) = "Depth" /\ ~IsValue(tokens, i + 3))
                THEN ParseError
                ELSE IF Token(tokens, i + 2) # "Depth" THEN Parsed1(Stmt(k, tokens[i + 1].val, Nothing), i + 2)
                ELSE Parsed1(Stmt(k, tokens[i + 1].val, IF Token(tokens, i + 3) = "Integer"
                                                        THEN tokens[i + 3].val ELSE 1), i + 4)
          [] k \in {"From", "Infer", "Correlate", "Similar", "Classify", "Sort", "Limit", "Store", "Export", "Load"} ->
                IF ~IsValue(tokens, j + 1) \/ (k = "Limit" /\ Token(tokens, j + 1) # "Integer") THEN ParseError
                ELSE Parsed1(Stmt(k, tokens[j + 1].val, Nothing),
                             IF k = "Sort" /\ Token(tokens, j + 2) \in {"Asc", "Desc"} THEN j + 3 ELSE j + 2)
          [] OTHER -> ParseError

(* Parser::parse: the statements, or Nothing at the first error.           *)
Parse(tokens) ==
    LET rest[i \in 1..(Len(tokens) + 1)] ==
            IF i > Len(tokens) THEN <<>>
            ELSE IF Token(tokens, i) = "Newline" THEN rest[i + 1]
            ELSE LET p == ParseStatement(tokens, i)
                 IN  IF p.next = 0 THEN Nothing
                     ELSE IF rest[p.next] = Nothing THEN Nothing ELSE <<p.stmt>> \o rest[p.next]
    IN  rest[1]

-----------------------------------------------------------------------------
(* Lowering, a fold over the statements of the operations so far, the next *)
(* value and the value of the pipeline.                                    *)
Op(k, out, in, ref, arg) == [op |-> k, out |-> out, in |-> in, ref |-> ref, arg |-> arg]
Push(st, o) == [st EXCEPT !.ops = Append(@, o)]
Make(st, k, in, ref, arg) ==
    [ops |-> Append(st.ops, Op(k, st.next, in, ref, arg)), next |-> st.next + 1, pipe |-> st.next]
(* A string is a value of its own, and not that of the pipeline.           *)
WithString(st, s) == [Make(st, "ConstStr", Nothing, Nothing, s) EXCEPT !.pipe = st.pipe]
LastId(st) == st.next - 1

(* A statement that needs an input and has none collects from "_".         *)
WithInput(st) ==
    IF st.pipe # Nothing THEN st
    ELSE [ops |-> st.ops \o <<Op("ConstStr", st.next + 1, Nothing, Nothing, <<"lit", "_">>),
                              Op("Collect", st.next, st.next + 1, Nothing, Nothing)>>,
          next |-> st.next + 2, pipe |-> st.next]

LowerEffect(input, named, s) ==
    IF s.stmt \in {"Sort", "Limit"}
    THEN Push(input, Op(IF s.stmt = "Sort" THEN "SortHint" ELSE "LimitHint", Nothing, input.pipe, Nothing, s.val))
    ELSE Push(named, Op(s.stmt, Nothing, input.pipe, LastId(named), Nothing))

LowerStmt(st, s) ==
    LET input == WithInput(st)
        named == WithString(input, <<"lit", s.val>>)
        alone == WithString(st, <<"lit", s.val>>)
    IN  CASE s.stmt \in {"From", "Load"} -> Make(alone, "Collect", LastId(alone), Nothing, Nothing)
          [] s.stmt \in {"Match", "Where", "Filter"} ->
                IF s.opt = Nothing THEN input
                ELSE Make(input, "Filter", input.pipe, Nothing, <<s.val>> \o s.opt)
          [] s.stmt \in {"Summarize", "Classify"} -> Make(input, "Observe", input.pipe, Nothing, Nothing)
          [] s.stmt \in {"Traverse", "Infer", "Correlate"} ->
                Make(named, s.stmt, input.pipe, LastId(named), s.opt)
          [] s.stmt = "Similar" -> Make(alone, "Similar", LastId(alone), Nothing, 8)
          [] s.stmt = "Timeline" ->
                LET query == WithString(st, <<"query", s.val, s.opt>>)
                IN  Make(query, "Timeline", LastId(query), Nothing, Nothing)
          [] OTHER -> LowerEffect(input, named, s)

LowerAst(stmts) ==
    LET st == FoldLeft(LowerStmt, [ops |-> <<>>, next |-> 0, pipe |-> Nothing], stmts)
    IN  [ops |-> IF st.pipe = Nothing THEN st.ops
                 ELSE Append(st.ops, Op("Return", Nothing, st.pipe, Nothing, Nothing)),
         output |-> st.pipe]

Inputs(o) == {o.in, o.ref} \ {Nothing}
UsedValues(p) == UNION {Inputs(p.ops[i]) : i \in DOMAIN p.ops} \cup {p.output}
Renamed(o, f) == LET r(id) == IF id \in DOMAIN f THEN f[id] ELSE id
                 IN  [o EXCEPT !.in = r(@), !.ref = r(@)]

-----------------------------------------------------------------------------
(* optimizer::optimize: one value for each string, then one round that     *)
(* drops what makes a value nothing uses.                                  *)
EliminateRedundantStrings(p) ==
    LET strings == {i \in DOMAIN p.ops : p.ops[i].op = "ConstStr"}
        first(i) == Min({j \in strings : p.ops[j].arg = p.ops[i].arg})
        twice == {i \in strings : first(i) # i}
        to == [id \in {p.ops[i].out : i \in twice} |->
                    p.ops[first(CHOOSE i \in twice : p.ops[i].out = id)].out]
        kept == SelectSeq(p.ops, LAMBDA o : ~(o.op = "ConstStr" /\ o.out \in DOMAIN to))
    IN  [ops |-> [i \in DOMAIN kept |-> Renamed(kept[i], to)], output |-> p.output]

EliminateDeadCode(p) ==
    [p EXCEPT !.ops = SelectSeq(@, LAMBDA o : o.out = Nothing \/ o.out \in UsedValues(p))]
Optimize(p) == EliminateDeadCode(EliminateRedundantStrings(p))

-----------------------------------------------------------------------------
(* query_optimizer.  The pipeline runs from the first Collect to the one   *)
(* operation not met yet that uses its value, and so on while there is     *)
(* exactly one.                                                            *)
PipelineOps(p) ==
    LET users(i, seen) == {j \in DOMAIN p.ops : p.ops[i].out # Nothing /\ p.ops[i].out \in Inputs(p.ops[j])} \ seen
        steps[n \in 0..Len(p.ops)] ==
            IF n = 0
            THEN LET sources == {i \in DOMAIN p.ops : p.ops[i].op = "Collect"}
                 IN  IF sources = {} THEN <<>> ELSE <<Min(sources)>>
            ELSE LET pipe == steps[n - 1]
                     next == IF pipe = <<>> THEN {} ELSE users(Last(pipe), ToSet(pipe))
                 IN  IF Cardinality(next) = 1 THEN Append(pipe, CHOOSE j \in next : TRUE) ELSE pipe
    IN  steps[Len(p.ops)]

(* The operations outside the pipeline come first, under new names; what   *)
(* they use is renamed only when its operation has been met already.       *)
Renumber(acc, o) ==
    LET to == IF o.out = Nothing THEN acc.to ELSE (o.out :> acc.next) @@ acc.to
    IN  [to |-> to, next |-> acc.next + 1,
         ops |-> Append(acc.ops, [Renamed(o, to) EXCEPT !.out = IF @ = Nothing THEN @ ELSE acc.next])]
RebuildFromPipeline(p, pipe) ==
    LET inPipe == ToSet(PipelineOps(p))
        others == [i \in 1..Len(p.ops) |-> IF i \in inPipe THEN <<>> ELSE <<p.ops[i]>>]
        built == FoldLeft(Renumber, [to |-> <<>>, next |-> 0, ops |-> <<>>], FlattenSeq(others) \o pipe)
    IN  [ops |-> built.ops, output |-> IF p.output \in DOMAIN built.to THEN built.to[p.output] ELSE p.output]

(* One operation for two neighbours: Pair(a, b) gives it, or Nothing.      *)
MergeNeighbours(ops, Pair(_, _)) ==
    LET rest[i \in 1..(Len(ops) + 2)] ==
            IF i > Len(ops) THEN <<>>
            ELSE IF i < Len(ops) /\ Pair(ops[i], ops[i + 1]) # Nothing
                 THEN <<Pair(ops[i], ops[i + 1])>> \o rest[i + 2]
                 ELSE <<ops[i]>> \o rest[i + 1]
    IN  rest[1]
PipeOf(p) == LET pipe == PipelineOps(p) IN [i \in DOMAIN pipe |-> p.ops[pipe[i]]]

(* Two filters become one whose text has both conditions: no part of the   *)
(* machine takes such a text apart again.                                  *)
CompoundCond(c, d) == <<<<c[1], "_and_", d[1]>>, "compound", <<c, "AND", d>>>>
CompoundKeepsInput(a, b) ==
    IF a.op = "Filter" /\ b.op = "Filter" THEN [b EXCEPT !.arg = CompoundCond(a.arg, b.arg)] ELSE Nothing
Compound(a, b) ==
    IF a.op = "Filter" /\ b.op = "Filter"
    THEN [b EXCEPT !.in = a.in, !.arg = CompoundCond(a.arg, b.arg)] ELSE Nothing
PredicatePushdown(p) ==
    IF PipelineOps(p) = <<>> THEN p ELSE RebuildFromPipeline(p, MergeNeighbours(PipeOf(p), Compound))

(* A limit later in the pipeline bounds the depth of a traversal by its    *)
(* logarithm to the base of the assumed fan-out.                           *)
Fanout == 5
Logarithm(n) == CHOOSE d \in 0..n : Fanout^d >= n /\ \A e \in 0..(d - 1) : Fanout^e < n
Shallower(ops, i) ==
    LET limits == {j \in (i + 1)..Len(ops) : ops[j].op = "LimitHint"}
        limit == ops[Min(limits)].arg
        depth == IF ops[i].arg = Nothing THEN 1 ELSE ops[i].arg
        shallow == Min({depth, Max({1, Logarithm(limit)})})
    IN  IF ops[i].op # "Traverse" \/ limits = {} THEN ops[i]
        ELSE IF Fanout^depth > 2 * limit /\ shallow < depth THEN [ops[i] EXCEPT !.arg = shallow] ELSE ops[i]
TraversalPruning(p) ==
    LET pipe == PipeOf(p)
        pruned == [i \in DOMAIN pipe |-> Shallower(pipe, i)]
    IN  IF pruned = pipe THEN p ELSE RebuildFromPipeline(p, pruned)

(* Neighbouring filters are sorted by a selectivity that is the default of *)
(* all of them, and chained again in that order: the order they are in.    *)
Chained(ops) ==
    [i \in DOMAIN ops |-> IF i > 1 /\ ops[i].op = "Filter" /\ ops[i - 1].op = "Filter"
                          THEN [ops[i] EXCEPT !.in = ops[i - 1].out] ELSE ops[i]]
JoinReordering(p) ==
    IF Len(PipelineOps(p)) < 2 THEN p ELSE RebuildFromPipeline(p, Chained(PipeOf(p)))

Fused(a, b) ==
    CASE a.op = "Collect" /\ b.op = "LoadGraph" -> [a EXCEPT !.out = b.out]
      [] a.op = "Observe" /\ b.op = "Classify" -> a
      [] OTHER -> Nothing
OperatorFusion(p) ==
    IF PipelineOps(p) = <<>> THEN p ELSE RebuildFromPipeline(p, MergeNeighbours(PipeOf(p), Fused))

OptimizeQuery(p) == OperatorFusion(JoinReordering(TraversalPruning(PredicatePushdown(p))))

-----------------------------------------------------------------------------
(* Code generation.  Register 0 accumulates, strings go to 1, 2 and 3 in   *)
(* turn.  An instruction carries its string itself for its place in the    *)
(* pool of constants, and in "means" the string its operand stands for: a  *)
(* fact about the compiler the machine does not read.                      *)
Instr(opc, a, b, x, imm) == [opc |-> opc, a |-> a, b |-> b, x |-> x, imm |-> imm, means |-> Nothing]
ACC == 0
NUM == 4
DEPTH == 5
AllocOfTwo(g, id) ==
    IF id \in DOMAIN g.regs THEN g
    ELSE [g EXCEPT !.regs = (id :> g.tmp) @@ @, !.tmp = (@ % 2) + 1]
AllocReg(g, id) ==
    IF id \in DOMAIN g.regs THEN g
    ELSE [g EXCEPT !.regs = (id :> g.tmp) @@ @, !.tmp = (@ % 3) + 1]
RegOf(g, id) == AllocReg(g, id).regs[id]
Emit(g, i) == [g EXCEPT !.code = Append(@, i)]
LoadString(g, id, s) ==
    LET h == AllocReg(g, id)
    IN  [Emit(h, Instr("LoadStr", h.regs[id], 0, 0, s)) EXCEPT !.strings = (id :> s) @@ @]
(* An instruction with the string id in the register its field f names.    *)
EmitUsing(g, id, i, f) ==
    LET h == AllocReg(g, id)
        s == IF id \in DOMAIN h.strings THEN <<h.regs[id], h.strings[id]>> ELSE Nothing
    IN  Emit(h, [i EXCEPT ![f] = h.regs[id], !.means = s])
ToAcc(g, id) == IF g.pipe = id THEN g ELSE Emit(AllocReg(g, id), Instr("Mov", ACC, RegOf(g, id), 0, 0))

EmitOp(g, o) ==
    LET h == ToAcc(g, o.in)
        piped(c) == [c EXCEPT !.pipe = o.out]
    IN  CASE o.op = "Collect" -> piped(EmitUsing(g, o.in, Instr("LoadEntity", ACC, 0, 0, 0), "b"))
          [] o.op \in {"Observe", "Classify"} -> piped(Emit(h, Instr("Classify", ACC, ACC, 0, 0)))
          [] o.op = "LoadGraph" -> piped(Emit(h, Instr("LoadGraph", ACC, ACC, 0, 0)))
          [] o.op = "Filter" ->
                LET t == Emit(h, Instr("LoadGraph", 1, ACC, 0, 0))
                    u == LoadString(t, o.out, <<"filter", o.arg>>)
                IN  piped(EmitUsing(u, o.out, Instr("Search", ACC, 0, 0, 0), "b"))
          [] o.op = "Traverse" ->
                LET t == EmitUsing(h, o.ref, Instr("Traverse", ACC, 0, 0, 0), "b")
                IN  piped(IF o.arg = Nothing THEN t ELSE Emit(t, Instr("LoadImm", DEPTH, 0, 0, o.arg)))
          [] o.op = "Infer" -> piped(EmitUsing(h, o.ref, Instr("Infer", ACC, ACC, 0, 0), "x"))
          [] o.op = "Correlate" ->
                LET t == AllocReg(h, o.ref)
                    u == Emit(t, Instr("LoadStr", 2, 0, 0, <<"lit", "_target">>))
                    v == EmitUsing(u, o.ref, Instr("LoadEntity", 3, 0, 0, 0), "b")
                IN  piped(Emit(v, Instr("Correlate", ACC, 3, 0, 0)))
          [] o.op = "Similar" ->
                piped(EmitUsing(Emit(AllocReg(g, o.in), Instr("LoadImm", NUM, 0, 0, o.arg)),
                                o.in, Instr("Similar", ACC, 0, NUM, 0), "b"))
          [] o.op = "Timeline" -> piped(EmitUsing(g, o.in, Instr("Timeline", ACC, 0, 0, 0), "b"))
          [] o.op = "Store" -> Emit(AllocReg(h, o.ref), Instr("Store", ACC, 0, 0, 0))
          [] o.op = "Export" -> [Emit(AllocReg(h, o.ref), Instr("Snapshot", ACC, RegOf(h, o.ref), 0, 0))
                                 EXCEPT !.pipe = o.in]
          [] o.op = "Return" -> [g EXCEPT !.pipe = o.in]
          [] OTHER -> g

CodegenKir(p) ==
    LET strings == SelectSeq(p.ops, LAMBDA o : o.op = "ConstStr")
        empty == [code |-> <<>>, regs |-> <<>>, tmp |-> 1, pipe |-> Nothing, strings |-> <<>>]
        loaded == FoldLeft(LAMBDA g, o : LoadString(g, o.out, o.arg), empty, strings)
    IN  Append(FoldLeft(EmitOp, loaded, p.ops).code, Instr("Halt", 0, 0, 0, 0))

-----------------------------------------------------------------------------
(* compile: the stages of one source, each from the one before.            *)
CONSTANT Sources
VARIABLE unit
compilerVars == <<unit>>

CompilerInit == \E t \in Sources : unit = [stage |-> "tokens", tokens |-> t]
StageDone(from, to, field, value) ==
    /\ unit.stage = from
    /\ unit' = (field :> value) @@ [unit EXCEPT !.stage = to]
ParseSource ==
    LET ast == Parse(unit.tokens) IN StageDone("tokens", IF ast = Nothing THEN "error" ELSE "ast", "ast", ast)
LowerSource == unit.stage = "ast" /\ StageDone("ast", "kir", "kir", LowerAst(unit.ast))
OptimizeKir == unit.stage = "kir" /\ StageDone("kir", "optimized", "optimized", Optimize(unit.kir))
OptimizeQueryKir == unit.stage = "optimized" /\ StageDone("optimized", "final", "final", OptimizeQuery(unit.optimized))
GenerateCode == unit.stage = "final" /\ StageDone("final", "code", "code", CodegenKir(unit.final))
CompilerNext == ParseSource \/ LowerSource \/ OptimizeKir \/ OptimizeQueryKir \/ GenerateCode

-----------------------------------------------------------------------------
(* Properties.                                                             *)

(* The value a program returns, as a term: what makes each value from      *)
(* what.  A chain of filters is one filter with the conditions their texts *)
(* have, and a value with no operation before its use is undefined.        *)
Conditions(c) == IF c[2] = "compound" THEN <<c[3][1], c[3][3]>> ELSE <<c>>
Chain(in, conds) == IF in[1] = "Filter" THEN <<"Filter", in[2], in[3], in[4] \o conds>>
                    ELSE <<"Filter", in, <<"none">>, conds>>
Terms(p) ==
    LET term[i \in 0..Len(p.ops)] ==
            LET o == p.ops[i]
                at(id) == LET makers == {j \in 1..(i - 1) : p.ops[j].out = id}
                          IN  IF id = Nothing THEN <<"none">>
                              ELSE IF makers = {} THEN <<"undefined">> ELSE term[Max(makers)]
            IN  IF i = 0 THEN <<"none">>
                ELSE IF o.op = "Filter" THEN Chain(at(o.in), Conditions(o.arg))
                ELSE <<o.op, at(o.in), at(o.ref), o.arg>>
    IN  [i \in DOMAIN p.ops |-> term[i]]
(* What a program does: the values it stores, exports and returns.         *)
Effects(p) == LET t == Terms(p) IN SelectSeq(t, LAMBDA e : e[1] \in {"Store", "Export", "Return"})

(* A program the query optimiser sees whole: its pipeline is every         *)
(* operation but the strings, or there is none.                            *)
SeenWhole(p) ==
    PipelineOps(p) # <<>> => \A i \in DOMAIN p.ops : i \in ToSet(PipelineOps(p)) \/ p.ops[i].op = "ConstStr"
(* What the operations of a program say, whatever values they are about:   *)
(* their kinds, strings and conditions, with how often each occurs.        *)
Wording(p) ==
    LET t == Terms(p)
        said(i) == LET o == p.ops[i]
                   IN  CASE o.op = "Filter" -> Conditions(o.arg)
                         [] o.op = "Traverse" -> <<<<o.op, t[i][3]>>>>
                         [] OTHER -> <<<<o.op, t[i][3], o.arg>>>>
            all == FlattenSeq([i \in DOMAIN p.ops |-> said(i)])
    IN  [w \in ToSet(all) |-> Cardinality({i \in DOMAIN all : all[i] = w})]

(* Whatever the optimisers do to a program (merge equal strings, drop dead *)
(* values, merge filters, renumber every value four times): the first      *)
(* keeps every effect of any program, the second those of one it sees      *)
(* whole, and the words of any.                                            *)
KirKeepsMeaning ==
    /\ unit.stage = "optimized" => Effects(unit.optimized) = Effects(unit.kir)
    /\ unit.stage = "final" /\ SeenWhole(unit.optimized) => Effects(unit.final) = Effects(unit.kir)
    /\ unit.stage = "final" => Wording(unit.final) = Wording(unit.optimized)
=============================================================================
