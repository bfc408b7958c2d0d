-------------------------- MODULE ProceduralMemory --------------------------
(***************************************************************************)
(* DefaultProceduralMemory of crates/memory: named procedures, and the     *)
(* execution of one over an agent runtime and a processor registry.  What  *)
(* a step does is reduced to whether it succeeds: a step that names an     *)
(* agent or a processor looks it up, a sub-procedure is executed, and the  *)
(* other kinds always succeed.                                             *)
(***************************************************************************)
EXTENDS Naturals, Sequences, FiniteSets, Absent

CONSTANTS ProcName, ProcName0,   \* names; the one that is executed
          MaxSteps,              \* bound: the steps of each procedure
          MaxNesting             \* bound: calls within calls

ASSUME ProceduralAssumption ==
    /\ ProcName0 \in ProcName /\ MaxSteps \in [ProcName -> Nat] /\ MaxNesting \in Nat
    /\ ProcName \cap {"Available", "Missing", "Abort", "Retry", "RetryZero", "Skip"} = {}

VARIABLES procedures,  \* name -> steps, or Nothing
          outcome      \* what execute of ProcName0 returned last

proceduralVars == <<procedures, outcome>>

(* "Missing" is an agent or a processor that is not registered; one that   *)
(* is, and the kinds that always succeed, are "Available".                 *)
StepKind == {"Available", "Missing"} \cup ProcName
FailureAction == {"Abort", "Retry", "RetryZero", "Skip"} \cup ProcName
ProcedureStep == [kind : StepKind, on : FailureAction]

Err == [returned |-> "Err"]
Overflow == [returned |-> "Overflow"]
Outcome(success, results) == [returned |-> "Ok", success |-> success, results |-> results]

(* One step and the rest of the loop: run maps the name of a procedure     *)
(* that this one may call to its outcome.  An overflow of the stack, in a  *)
(* procedure that calls itself, ends everything.                           *)
StepSucceeds(kind, run) ==
    \/ kind = "Available"
    \/ kind \in ProcName /\ run[kind].returned = "Ok" /\ run[kind].success

(* Mutant of AfterStep: an abort does not leave the loop.                  *)
AfterStepGoesOn(step, run) == [result |-> StepSucceeds(step.kind, run), stop |-> FALSE]

(* What the loop pushes for a step, and whether it stops there.            *)
AfterStep(step, run) ==
    IF StepSucceeds(step.kind, run) THEN [result |-> TRUE, stop |-> FALSE]
    ELSE CASE step.on = "Abort"     -> [result |-> FALSE, stop |-> TRUE]
           [] step.on = "Retry"     -> [result |-> TRUE, stop |-> FALSE]
           [] step.on = "RetryZero" -> [result |-> FALSE, stop |-> FALSE]
           [] step.on = "Skip"      -> [result |-> FALSE, stop |-> FALSE]
           [] OTHER -> IF run[step.on].returned = "Ok"
                       THEN [result |-> run[step.on].success, stop |-> FALSE]
                       ELSE [result |-> FALSE, stop |-> TRUE]

Calls(step, run) ==
    {n \in ProcName : step.kind = n \/ (~ StepSucceeds(step.kind, run) /\ step.on = n)}

(* The loop over the steps ends at the first that overflows or stops it.   *)
Overflows(step, run) == \E c \in Calls(step, run) : run[c] = Overflow
StepResults(steps, run, n) == [i \in 1..n |-> AfterStep(steps[i], run).result]
Loop(steps, run) ==
    LET ends == {n \in DOMAIN steps : Overflows(steps[n], run) \/ AfterStep(steps[n], run).stop}
    IN  IF ends = {} THEN Outcome(TRUE, StepResults(steps, run, Len(steps)))
        ELSE LET n == CHOOSE k \in ends : \A l \in ends : k <= l
             IN  IF Overflows(steps[n], run) THEN Overflow
                 ELSE Outcome(FALSE, StepResults(steps, run, n))

(* execute, with the calls it makes to itself nested at most MaxNesting    *)
(* deep: a stack has an end as well.                                       *)
Execute(procs) ==
    LET run[n \in 0..MaxNesting] ==
            [p \in ProcName |->
                IF n = 0 THEN Overflow
                ELSE IF procs[p] = Nothing THEN Err ELSE Loop(procs[p], run[n - 1])]
    IN  run[MaxNesting]

Steps(p) == UNION {[1..n -> ProcedureStep] : n \in 0..MaxSteps[p]}

ProceduralInit ==
    /\ procedures = [p \in ProcName |-> Nothing]
    /\ outcome = Nothing

StoreProcedure(p, steps) ==
    procedures' = [procedures EXCEPT ![p] = steps] /\ outcome' = Nothing
DeleteProcedure(p) ==
    procedures[p] # Nothing /\ procedures' = [procedures EXCEPT ![p] = Nothing] /\ outcome' = Nothing
ExecuteProcedure ==
    outcome = Nothing /\ outcome' = Execute(procedures)[ProcName0] /\ UNCHANGED procedures

ProceduralNext ==
    \/ ExecuteProcedure
    \/ \E p \in ProcName : \/ procedures[p] = Nothing /\ \E s \in Steps(p) : StoreProcedure(p, s)
                           \/ DeleteProcedure(p)
ProceduralSpec == ProceduralInit /\ [][ProceduralNext]_proceduralVars

(* What was returned, against the steps: a failure is the failure of the   *)
(* step that came last, and not of one to be skipped; every failure before *)
(* it was let pass by its own on_failure; a success is that of every step; *)
(* and a step that cannot succeed has a success to its name only after a   *)
(* retry or a fallback.  Whether a retry runs the step again is left open, *)
(* and so is whether a procedure goes on after a fallback that failed.     *)
Accounts(result, steps) ==
    result.returned = "Ok" =>
        LET n == Len(result.results)
        IN  /\ result.success => n = Len(steps)
            /\ ~ result.success => ~ result.results[n] /\ steps[n].on # "Skip"
            /\ \A i \in DOMAIN result.results :
                  ~ result.results[i] => (i = n /\ ~ result.success) \/ steps[i].on # "Abort"
            /\ \A i \in DOMAIN result.results :
                  result.results[i] /\ steps[i].kind = "Missing" =>
                      steps[i].on \notin {"Abort", "RetryZero", "Skip"}

(* No result is lost or made up after an abort, however procedures call    *)
(* each other.                                                             *)
OutcomeAccountsForSteps == outcome # Nothing => Accounts(outcome, procedures[ProcName0])
=============================================================================
