--------------------------- MODULE VirtualMachine ---------------------------
(***************************************************************************)
(* The intelligence virtual machine (crates/vm): one program at a time     *)
(* over 32 registers, a bounded stack of values and a stack of return      *)
(* addresses, in front of the semantic and long-term memories.             *)
(*                                                                         *)
(* A value is <<"int", n>>, <<"bool", b>>, <<"str", text>>, an entity of a *)
(* kind, the set of texts of some facts, or <<"nil">>.  A text is what it    *)
(* was made from: a literal, a filter or a query, the JSON of a value, a   *)
(* fact, an id of long-term memory, or what a model produced.  Scores of   *)
(* embeddings are not computed: an operation that ranks by them keeps any  *)
(* part of what it ranks.                                                  *)
(***************************************************************************)
EXTENDS Integers, Sequences, FiniteSets, Functions, SequencesExt, FiniteSetsExt

CONSTANTS RegisterCount,    \* 32 in the code
          StackDepth,       \* 1024 in the code
          MaxCycles,        \* 1,000,000 in the code
          ReadLimit,        \* how many facts an instruction reads at most, 20 to 100 in the code
          MaxFacts          \* bounds the memories of the model

VARIABLES machine,          \* the execution context: code, pc, regs, stack, returns, cycles, status
          vmFacts,          \* semantic memory: [s, p, o] texts, the object a value
          entries           \* long-term memory: the values stored
vmVars == <<machine, vmFacts, entries>>

Registers == 0..(RegisterCount - 1)
Nil == <<"nil">>
Str(text) == <<"str", text>>
IsStr(v) == v[1] = "str"
Json(v) == <<"json", v>>

IsTruthy(v) ==
    CASE v[1] = "int" -> v[2] # 0
      [] v[1] = "bool" -> v[2]
      [] v[1] = "facts" -> v[2] # {}
      [] OTHER -> v # Nil

NoProgram == [code |-> <<>>, pc |-> 0, regs |-> [r \in Registers |-> Nil], stack |-> <<>>,
              returns |-> <<>>, cycles |-> 0, status |-> "idle"]
VmInit == machine = NoProgram /\ vmFacts = {} /\ entries = <<>>

(* IntelligenceVm::run: a context of its own, the memories shared.         *)
RunProgram(code) ==
    /\ machine.status # "running"
    /\ machine' = [NoProgram EXCEPT !.code = code, !.status = "running"]
    /\ UNCHANGED <<vmFacts, entries>>

-----------------------------------------------------------------------------
(* Reading the semantic memory: the subject and predicate of a query are   *)
(* texts, or absent ("any").                                               *)
Matching(subject, predicate) ==
    {f \in vmFacts : (subject = <<"any">> \/ f.s = subject) /\ (predicate = <<"any">> \/ f.p = predicate)}
FactTexts(fs) == <<"facts", {<<"fact", f>> : f \in fs}>>
IsId(v) == IsStr(v) /\ v[2][1] = "id"
AsStr(v) == IF IsStr(v) THEN v[2] ELSE <<"any">>
(* What a read of these facts may give, and what is left of it by a score. *)
Most(opc, fs) == Min({ReadLimit[opc], Cardinality(fs)})
Some(opc, fs) == {FactTexts(part) : part \in {p \in SUBSET fs : Cardinality(p) = Most(opc, fs)}}
PartsOf(opc, fs) == {FactTexts(part) : part \in {p \in SUBSET fs : Cardinality(p) <= Most(opc, fs)}}

(* The values an instruction may leave in register a, from those of a, b   *)
(* and x before it.                                                        *)
Loaded(i, a, b) ==
    CASE i.opc = "LoadImm" -> {<<"int", i.imm>>}
      [] i.opc = "LoadStr" -> {Str(i.imm)}
      [] i.opc = "Mov" -> {b}
      [] i.opc = "LoadEntity" -> {<<"entity", Json(b)>>}
      [] i.opc \in {"LoadGraph", "Traverse"} -> Some(i.opc, Matching(Json(b), <<"any">>))
      [] i.opc = "Compare" -> {<<"bool", a = b>>}
Loading == {"LoadImm", "LoadStr", "Mov", "LoadEntity", "LoadGraph", "Traverse", "Compare"}

Inferred(i, b, x) ==
    CASE i.opc = "Infer" -> Some(i.opc, Matching(Json(b), Json(x)))
      [] i.opc \in {"Similar", "Reason"} -> PartsOf(i.opc, Matching(AsStr(b), <<"any">>))
      [] i.opc = "Classify" -> {Str(<<"class">>)}
Inferring == {"Infer", "Similar", "Reason", "Classify"}

Found(i, a, b) ==
    CASE i.opc = "Query" -> Some(i.opc, vmFacts)
      [] i.opc = "Correlate" -> {Str(<<"correlation">>)}
      [] i.opc = "Timeline" -> {Str(<<"timeline">>)}
      [] i.opc = "Search" -> Some(i.opc, Matching(AsStr(a), AsStr(b)))
      [] i.opc = "Rank" -> {CASE b[1] = "facts" -> <<"facts", {Json(Str(t)) : t \in b[2]}>>
                              [] IsStr(b) -> <<"facts", {Json(b)}>>
                              [] OTHER -> <<"facts", {}>>}
      [] i.opc = "Recall" ->
            IF ~IsId(b) THEN {a}
            ELSE IF entries = <<>> THEN {Nil} ELSE {Str(<<"entry", n>>) : n \in DOMAIN entries}
      [] i.opc = "Snapshot" -> {Str(<<"snapshot", i.b>>)}
Finding == {"Query", "Correlate", "Timeline", "Search", "Rank", "Recall", "Snapshot"}

Results(i, a, b, x) ==
    CASE i.opc \in Loading -> Loaded(i, a, b)
      [] i.opc \in Inferring -> Inferred(i, b, x)
      [] i.opc \in Finding -> Found(i, a, b)
Writing == Loading \cup Inferring \cup Finding

(* The registers an instruction reads or writes.                           *)
RegistersOf(i) ==
    CASE i.opc \in {"LoadImm", "LoadStr", "Push", "Pop", "Jz", "Jnz", "Forget", "Store", "Snapshot", "Emit"} -> {i.a}
      [] i.opc \in {"Fact", "Relate", "Infer", "Similar"} -> {i.a, i.b, i.x}
      [] i.opc \in Writing \cup {"Index"} -> {i.a, i.b}
      [] OTHER -> {}

-----------------------------------------------------------------------------
(* Executor::execute.  One cycle runs the instruction at pc; what fails    *)
(* ends the program, and so does the last cycle it may take.               *)
After(m) == IF m.cycles + 1 >= MaxCycles /\ m.status = "running"
            THEN [m EXCEPT !.cycles = @ + 1, !.status = "error"] ELSE [m EXCEPT !.cycles = @ + 1]
Next1(m) == [m EXCEPT !.pc = @ + 1]
Jump(m, by) == [m EXCEPT !.pc = @ + by]
Current == machine.code[machine.pc + 1]
HasCurrent == machine.status = "running" /\ machine.pc + 1 \in DOMAIN machine.code
              /\ RegistersOf(Current) \subseteq Registers
Reg(r) == machine.regs[r]
MemoryUnchanged == UNCHANGED <<vmFacts, entries>>

(* An address outside the program or a register there is not, the stack at *)
(* one of its ends, a call of the host that fails, and a memory that       *)
(* returns an error instead of what is read or stored.                     *)
UsesMemory == {"LoadGraph", "Traverse", "Fact", "Query", "Infer", "Similar", "Reason", "Timeline", "Search",
               "Store"}
FailVm ==
    /\ machine.status = "running"
    /\ HasCurrent =>
        \/ Current.opc = "Push" /\ Len(machine.stack) >= StackDepth
        \/ Current.opc \in {"Pop", "Dup"} /\ machine.stack = <<>>
        \/ Current.opc = "Dup" /\ Len(machine.stack) >= StackDepth
        \/ Current.opc = "Swap" /\ Len(machine.stack) < 2
        \/ Current.opc \in UsesMemory \cup {"SysCall"}
        \/ Current.opc = "Recall" /\ IsId(Reg(Current.b))
    /\ machine' = [machine EXCEPT !.status = "error"]
    /\ MemoryUnchanged

Write ==
    /\ HasCurrent /\ Current.opc \in Writing
    /\ \E v \in Results(Current, Reg(Current.a),
                        IF Current.b \in Registers THEN Reg(Current.b) ELSE Nil,
                        IF Current.x \in Registers THEN Reg(Current.x) ELSE Nil) :
          machine' = After(Next1([machine EXCEPT !.regs[Current.a] = v]))
    /\ MemoryUnchanged

(* A fact keeps the JSON of its subject and predicate as their names.      *)
VmStoreFact ==
    /\ HasCurrent /\ Current.opc = "Fact" /\ Cardinality(vmFacts) < MaxFacts
    /\ vmFacts' = vmFacts \cup {[s |-> Json(Reg(Current.a)), p |-> Json(Reg(Current.b)), o |-> Reg(Current.x)]}
    /\ machine' = After(Next1(machine))
    /\ UNCHANGED entries

StoreEntry ==
    /\ HasCurrent /\ Current.opc = "Store" /\ Len(entries) < MaxFacts
    /\ entries' = Append(entries, Reg(Current.a))
    /\ machine' = After(Next1([machine EXCEPT !.regs[Current.a] = Str(<<"id", Len(entries) + 1>>)]))
    /\ UNCHANGED vmFacts

UseStack ==
    /\ HasCurrent
    /\ LET s == machine.stack
       IN  \/ /\ Current.opc = "Push" /\ Len(s) < StackDepth
              /\ machine' = After(Next1([machine EXCEPT !.stack = Append(s, Reg(Current.a))]))
           \/ /\ Current.opc = "Pop" /\ s # <<>>
              /\ machine' = After(Next1([machine EXCEPT !.stack = Front(s), !.regs[Current.a] = Last(s)]))
           \/ /\ Current.opc = "Dup" /\ s # <<>> /\ Len(s) < StackDepth
              /\ machine' = After(Next1([machine EXCEPT !.stack = Append(s, Last(s))]))
           \/ /\ Current.opc = "Swap" /\ Len(s) >= 2
              /\ machine' = After(Next1([machine EXCEPT !.stack =
                                Append(Append(SubSeq(s, 1, Len(s) - 2), Last(s)), s[Len(s) - 1])]))
    /\ MemoryUnchanged

(* Instructions that only log, and calls of the host, whose result an Emit *)
(* does not look at.                                                       *)
NoEffect ==
    /\ HasCurrent
    /\ Current.opc \in {"Nop", "Relate", "Index", "Consolidate", "Forget", "Emit", "SysCall"}
    /\ machine' = After(Next1(machine))
    /\ MemoryUnchanged

Branch ==
    /\ HasCurrent
    /\ \/ /\ Current.opc = "Jmp"
          /\ machine' = After(Jump(machine, Current.imm))
       \/ /\ Current.opc \in {"Jz", "Jnz"}
          /\ machine' = After(Jump(machine, IF IsTruthy(Reg(Current.a)) = (Current.opc = "Jnz")
                                            THEN Current.imm ELSE 1))
    /\ MemoryUnchanged

(* A call pushes the address it is at, and a return goes back to it: the   *)
(* call is made again.                                                     *)
CallRoutine ==
    /\ HasCurrent /\ Current.opc = "Call"
    /\ machine' = After(Jump([machine EXCEPT !.returns = Append(@, machine.pc)], Current.imm))
    /\ MemoryUnchanged
Return ==
    /\ HasCurrent /\ Current.opc = "Ret"
    /\ LET r == machine.returns
       IN  machine' = After(IF r = <<>> THEN Next1(machine)
                            ELSE [machine EXCEPT !.returns = Front(r), !.pc = Last(r)])
    /\ MemoryUnchanged
HaltVm ==
    /\ HasCurrent /\ Current.opc = "Halt"
    /\ machine' = [machine EXCEPT !.cycles = @ + 1, !.status = "halted"]
    /\ MemoryUnchanged

VmNext == FailVm \/ Write \/ VmStoreFact \/ StoreEntry \/ UseStack \/ NoEffect \/ Branch \/ CallRoutine \/ Return
          \/ HaltVm
=============================================================================
