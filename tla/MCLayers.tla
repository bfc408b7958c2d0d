------------------------------ MODULE MCLayers ------------------------------
(* What the kernel remembers and how it is asked, side by side: a          *)
(* behaviour exercises one store, or compiles and runs one program.        *)
EXTENDS MemoryLayers, ProceduralMemory, KnowledgeChains, TemporalGraph, SearchEngine,
        IntelligenceFiles, DecisionEngine, TdxlCompiler, VirtualMachine

CONSTANTS main, sub
VARIABLE part

MCMaxSteps == (main :> 2) @@ (sub :> 1)

MCEnds == {<<"n1", "n2">>}
MCInterval == {[start |-> 1, end |-> Nothing], [start |-> 0, end |-> 2], [start |-> 1, end |-> 1]}
MCSpan == {<<1, 3>>}
Carry(kind, label, attribute) == [kind |-> kind, label |-> label, attribute |-> attribute]
MCCarried == {Carry("host", "a", "x"), Carry("host", "b", "y"), Carry("user", "b", "x")}

-----------------------------------------------------------------------------
(* Documents and queries: each operator, over operands that differ.        *)
Doc(id, title, body, kind, time, metadata) ==
    [id |-> id, title |-> title, body |-> body, kind |-> kind, source |-> {"src", title[1]},
     timestamp |-> time, metadata |-> metadata]
MCDocument ==
    {Doc("d1", <<"lib">>, <<"fn", "run", "(">>, "code", 1, [package |-> "lib", path_depth |-> 1]),
     Doc("d2", <<"run">>, <<"lib", "lib">>, "code", 3, [depends_on |-> "lib", edge_kind |-> "calls", graph_distance |-> 1]),
     Doc("d3", <<"doc">>, <<"run", "lib">>, "text", Nothing, [dep_chain |-> <<"lib">>, dep_depth |-> 2])}
Word(w) == [op |-> "Keyword", word |-> w]
NodeOf(w) == [op |-> "Graph", pattern |-> "Node", name |-> w, kind |-> Nothing]
Range2(s, e) == [op |-> "Temporal", start |-> s, end |-> e]
Package(r, e) == [op |-> "Dependency", relation |-> r, name |-> "lib", ecosystem |-> e, depth |-> 2]
Phrase == [op |-> "Phrase", words |-> <<"run", "(">>]
MCAtom ==
    {Word("lib"), Phrase, [op |-> "Prefix", word |-> "run"], [op |-> "Semantic"], Range2(1, 2), Range2(Nothing, Nothing),
     [op |-> "Structural", pattern |-> "Call", name |-> "run", kind |-> Nothing],
     [op |-> "Structural", pattern |-> "Function", name |-> Nothing, kind |-> Nothing],
     Package("Dependents", Nothing), Package("Transitive", "src"),
     [op |-> "Architecture", scope |-> "Package", name |-> "lib"],
     [op |-> "Graph", pattern |-> "Edge", source |-> NodeOf("lib"), target |-> NodeOf("run"), kind |-> Nothing],
     [op |-> "Graph", pattern |-> "Path", from |-> NodeOf("doc"), to |-> NodeOf("none"), depth |-> 0],
     [op |-> "Graph", pattern |-> "Neighbors", node |-> NodeOf("lib"), depth |-> 1],
     [op |-> "Graph", pattern |-> "Subgraph", patterns |-> <<NodeOf("fn"), NodeOf("doc")>>],
     [op |-> "Similarity", query |-> Word("run"), max |-> 1, threshold |-> <<1, 4>>]}

(* And what is composed of these, twice.                                   *)
All(a, b) == [op |-> "And", queries |-> <<a, b>>]
Either(a, b) == [op |-> "Or", queries |-> <<a, b>>]
Outside(q) == [op |-> "Not", query |-> q]
FilterOf(q, by, value) == [op |-> "Filter", query |-> q, spec |-> [by |-> by, value |-> value, key |-> "package"]]
Filters(q) ==
    {FilterOf(q, "Kind", "code"), FilterOf(q, "TimeAfter", 1), FilterOf(q, "ScoreAbove", <<2, 1>>),
     FilterOf(q, "ScoreBelow", One), FilterOf(q, "Metadata", "lib")}
Base == {Word("lib"), Word("run"), Range2(Nothing, Nothing)}
Composed(left, right) ==
    {All(a, b) : a \in left, b \in right} \cup {Either(a, b) : a \in left, b \in right}
    \cup {Outside(a) : a \in left} \cup UNION {Filters(a) : a \in left}
MCQuery ==
    MCAtom \cup Composed(MCAtom, {Word("run")}) \cup Composed(Composed(Base, Base), {Word("run")})
    \cup {[op |-> "And", queries |-> <<>>], [op |-> "Similarity", query |-> Either(Word("run"), Word("lib")), max |-> 9, threshold |-> <<1, 4>>]}

-----------------------------------------------------------------------------
(* Events of the log the virtual files are rebuilt from.                   *)
Ev(of, what, id, name, status, refs) ==
    [of |-> of, what |-> what, id |-> id, name |-> name, status |-> status, refs |-> refs, nth |-> 1]
MCEvent ==
    {Ev("Entity", "Created", "e", "x", "none", {}), Ev("Entity", "Updated", "e", "y", Nothing, {}),
     Ev("Entity", "Deleted", "e", Nothing, Nothing, {}),
     Ev("Service", "Created", "s", "x", "active", {}), Ev("Service", "Updated", "s", Nothing, "odd", {}),
     Ev("Timeline", "EntryAdded", "s", "x", Nothing, {"e"}),
     Ev("Evidence", "Created", "e", "x", "none", {"bad"}),
     Ev("Agent", "Heartbeat", "e", Nothing, Nothing, {})}
MCOther == {Ev("Service", "Created", "s", "x", "active", {})}
MCLivePath == {<<"Data", "f">>}

-----------------------------------------------------------------------------
(* Objects, events and questions of the decision engine: two outages of    *)
(* one service, and an investigation that may be updated.                  *)
O(kind, n, name, data) ==
    [id |-> <<"id", n>>, kind |-> kind, label |-> <<name, 0>>, words |-> {<<kind, 0>>, <<name, 0>>}, data |-> data]
D(severity, cve, change) == [severity |-> severity, cve_id |-> cve, change_type |-> change, subject |-> <<"api", 0>>]
MCItem ==
    {O("cve_record", 1, "c1", D("medium", Nothing, Nothing)),
     O("investigation", 2, "i1", D(Nothing, <<"c1", 0>>, Nothing)),
     O("investigation", 2, "i1", D(Nothing, <<"t1", 0>>, Nothing)),
     O("monitoring_change", 3, "m1", D(Nothing, Nothing, "unreachable")),
     O("monitoring_change", 4, "m2", D(Nothing, Nothing, "unreachable")),
     O("finding", 5, "f1", D("critical", Nothing, Nothing)), O("threat_intel", 6, "t1", Nothing)}
MCLinked == {[source |-> <<"id", 1>>, target |-> <<"id", 6>>, kind |-> "names"]}
MCHappening ==
    {[agg |-> <<"id", 1>>, type |-> "Finding", what |-> "Reported", at |-> n] : n \in {1, 2}}
Q(ask, id, kind, max) == [ask |-> ask, kind |-> kind, id |-> id, since |-> 1, until |-> 1, max |-> max]
MCQuestions ==
    LET about(ask, kind, max) == Q(ask, <<"id", 1>>, kind, max)
    IN  {about("WhatShouldIInvestigate", Nothing, 2),
         about("WhatMatters", "Finding", 2), about("WhatIsRisky", "Finding", Nothing),
         about("WhatIsSimilar", Nothing, 1), Q("WhatIsSimilar", <<"c1", 0>>, Nothing, 1),
         about("WhatWillLikelyHappen", "Finding", Nothing), about("WhatChanged", "Finding", Nothing), about("WhatChanged", Nothing, Nothing),
         about("Why", Nothing, 1), Q("Why", <<"c1", 0>>, Nothing, 1)}

-----------------------------------------------------------------------------
(* Sources compiled stage by stage and run, and programs written by hand.  *)
Tok(t) == [tok |-> t, val |-> Nothing]
Id(v) == [tok |-> "Ident", val |-> v]
N(n) == [tok |-> "Integer", val |-> n]
Heads == {<<Tok("From"), Id("x")>>, <<Tok("Load"), Id("y")>>, <<Tok("Similar"), Tok("To"), Id("x")>>,
          <<Tok("Timeline"), Tok("From"), Id("x")>>, <<>>}
Tails == {<<Tok("Match"), Id("x"), Tok("Eq"), Id("y")>>, <<Tok("Filter"), Id("z"), Tok("Gt"), Id("x")>>,
          <<Tok("Where"), Id("x")>>, <<Tok("Traverse"), Id("y"), Tok("Depth"), N(3)>>,
          <<Tok("Infer"), Id("x")>>, <<Tok("Correlate"), Tok("With"), Id("y")>>, <<Tok("Summarize")>>,
          <<Tok("Sort"), Id("y"), Tok("Asc")>>, <<Tok("Limit"), N(1)>>, <<Tok("Store"), Id("y")>>,
          <<Tok("Export"), Tok("As"), Id("z")>>, <<Tok("Infer"), Id("w")>>, <<Tok("From")>>, <<>>}
MCSources == {h \o <<Tok("Newline")>> \o t1 \o t2 \o t3 : h \in Heads, t1 \in Tails, t2 \in Tails, t3 \in Tails}

J(opc, a, b, x, imm) == Instr(opc, a, b, x, imm)
MCReadLimit == [opc \in Loading \cup Inferring \cup Finding |-> IF opc \in {"Similar", "Reason", "Search", "Infer"} THEN 1 ELSE 2]
Handwritten ==
    {<<J("LoadStr", 1, 0, 0, <<"lit", "x">>), J("Fact", 1, 1, 1, 0), J("Fact", 1, 1, 2, 0), J("Infer", 2, 1, 1, 0),
       J("Search", 1, 1, 0, 0), J("Rank", 1, 2, 0, 0), J("Jnz", 2, 0, 0, 2), J("Nop", 0, 0, 0, 0), J("Halt", 0, 0, 0, 0)>>,
     <<J("Push", 0, 0, 0, 0), J("Dup", 0, 0, 0, 0), J("Swap", 0, 0, 0, 0), J("Pop", 1, 0, 0, 0),
       J("Call", 0, 0, 0, -3), J("Halt", 0, 0, 0, 0)>>,
     <<J("Call", 0, 0, 0, 2), J("Halt", 0, 0, 0, 0), J("SysCall", 0, 0, 0, 3), J("Ret", 0, 0, 0, 0)>>,
     <<J("LoadImm", 1, 0, 0, 1), J("Store", 1, 0, 0, 0), J("Recall", 2, 1, 0, 0), J("Jz", 0, 0, 0, -9)>>,
     <<J("Query", 1, 0, 0, 0), J("Reason", 2, 1, 0, 0), J("Compare", 1, 2, 0, 0), J("Jmp", 0, 0, 0, -3)>>,
     <<J("Mov", 1, 77, 0, 0)>>}

tdxlVars == <<unit, vmVars>>
TdxlInit == CompilerInit /\ VmInit
TdxlNext ==
    \/ CompilerNext /\ UNCHANGED vmVars
    \/ /\ unit.stage = "code" /\ machine.status = "idle"
       /\ RunProgram(unit.code) /\ UNCHANGED unit
    \/ /\ unit.stage = "error" /\ unit.tokens = <<Tok("Newline"), Tok("From")>>
       /\ \E c \in Handwritten : RunProgram(c)
       /\ UNCHANGED unit
    \/ VmNext /\ UNCHANGED unit

(* The operand of an instruction of a compiled program is in its register  *)
(* when the machine comes to it: the condition of a filter always is, any  *)
(* other string is in a program of at most three strings, conditions       *)
(* among them, unless a filter or a correlation has put into that register *)
(* the facts or the entity it works on.                                    *)
Strings(p) == {i \in DOMAIN p.ops : p.ops[i].op \in {"ConstStr", "Filter"}}
TakenRegisters ==
    {i.a : i \in {j \in Range(SubSeq(machine.code, 1, machine.pc)) :
                    \/ j.opc \in {"LoadGraph", "LoadEntity"}
                    \/ j.opc = "LoadStr" /\ j.imm = <<"lit", "_target">>}}
OperandsHold ==
    /\ unit.stage = "code" /\ HasCurrent /\ Current.means # Nothing
    /\ \/ Current.means[2][1] = "filter"
       \/ Cardinality(Strings(unit.final)) <= 3 /\ Current.means[1] \notin TakenRegisters
    => Reg(Current.means[1]) = Str(Current.means[2])

(* What the stages of the compiler keep of a program.  The first optimiser *)
(* keeps all it stores, exports and returns; the second does for a program *)
(* it sees whole (compiler.rs compile, query_optimizer.rs).  One with two  *)
(* uses of a value (a store, an export, a sort or a limit after a source)  *)
(* keeps its operations with their words, each as often, but not what they *)
(* are about: they move before the value they use.  The code finds its     *)
(* strings where no other value is put into their register.                *)
CompiledKeepsMeaning == KirKeepsMeaning /\ OperandsHold

-----------------------------------------------------------------------------
askedVars == <<knowledgeVars, temporalVars, searchVars, vifsVars, decisionVars, tdxlVars>>
vars == <<memoryLayerVars, proceduralVars, askedVars, part>>
Parts == {"working", "short_term", "long_term", "episodic", "semantic", "procedural",
          "knowledge", "temporal", "search", "files", "decision", "tdxl"}

Init ==
    /\ part \in Parts
    /\ MemoryLayersInit /\ ProceduralInit /\ KnowledgeInit /\ TemporalInit
    /\ SearchInit /\ VifsInit /\ DecisionInit /\ TdxlInit
    /\ part # "tdxl" => unit.tokens = <<Tok("Newline")>>

Only(p, others) == part = p /\ UNCHANGED <<part, others>>
Memory(p, others) == Only(p, <<others, proceduralVars, askedVars>>)
Asked(p, others) == Only(p, <<others, memoryLayerVars, proceduralVars>>)
Next ==
    \/ Memory("working", <<stmVars, ltmVars, episodeVars, factVars>>) /\ WmNext
    \/ Memory("short_term", <<wmVars, ltmVars, episodeVars, factVars>>) /\ StmNext
    \/ Memory("long_term", <<wmVars, stmVars, episodeVars, factVars>>) /\ LtmNext
    \/ Memory("episodic", <<wmVars, stmVars, ltmVars, factVars>>) /\ EpisodeNext
    \/ Memory("semantic", <<wmVars, stmVars, ltmVars, episodeVars>>) /\ FactNext
    \/ Only("procedural", <<memoryLayerVars, askedVars>>) /\ ProceduralNext
    \/ Asked("knowledge", <<temporalVars, searchVars, vifsVars, decisionVars, tdxlVars>>) /\ KnowledgeNext
    \/ Asked("temporal", <<knowledgeVars, searchVars, vifsVars, decisionVars, tdxlVars>>) /\ TemporalNext
    \/ Asked("search", <<knowledgeVars, temporalVars, vifsVars, decisionVars, tdxlVars>>) /\ SearchNext
    \/ Asked("files", <<knowledgeVars, temporalVars, searchVars, decisionVars, tdxlVars>>) /\ VifsNext
    \/ Asked("decision", <<knowledgeVars, temporalVars, searchVars, vifsVars, tdxlVars>>) /\ DecisionNext
    \/ Asked("tdxl", <<knowledgeVars, temporalVars, searchVars, vifsVars, decisionVars>>) /\ TdxlNext

Spec == Init /\ [][Next]_vars
=============================================================================
