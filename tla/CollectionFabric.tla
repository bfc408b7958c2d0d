--------------------------- MODULE CollectionFabric ---------------------------
(***************************************************************************)
(* CollectionFabric of crates/fabric/src/fabric.rs with the SessionManager *)
(* of session.rs: threads that submit, cancel, stop and start, and threads *)
(* that call process_next or drain, over one queue, one session map, one   *)
(* event store and the drivers.                                            *)
(*                                                                         *)
(* The fabric has no lock of its own.  A method is a chain of calls, each  *)
(* atomic under the mutex of the part it calls, so one action here is one  *)
(* such call, and other threads run in between.                            *)
(***************************************************************************)
EXTENDS TaskHeap, FiniteSets

CONSTANTS
    Clients,       \* threads that submit, cancel, stop and start
    Workers,       \* threads that call process_next, again and again
    Drainers,      \* the workers that call drain instead
    SubmitPrio,    \* the priorities tasks are submitted with
    SubmitRetries, \* the max_retries tasks are submitted with
    MayResubmit,   \* whether an id may be submitted more than once
    MayCancel,     \* whether clients cancel
    MayStop,       \* whether clients stop and start the fabric
    MaxCalls       \* bound: calls made by clients in a behaviour

ASSUME ThreadAssumption ==
    /\ Clients \cap Workers = {}
    /\ Drainers \subseteq Workers
ASSUME InputAssumption ==
    /\ SubmitPrio \subseteq Priority
    /\ SubmitRetries \subseteq Nat
    /\ {MayResubmit, MayCancel, MayStop} \subseteq BOOLEAN
    /\ MaxCalls \in Nat
ASSUME PriorityIsEnum == Priority = 0..4

VARIABLES
    queue,      \* PriorityQueue: a QueueInner
    sessions,   \* SessionManager: a session, or none, for each id
    log,        \* EventStore: the event kinds of each aggregate, in order
    running,    \* the AtomicBool
    proc,       \* what each thread is doing
    unwound,    \* history: the ids in whose present session a driver panicked
    calls       \* client calls made

vars == <<queue, sessions, log, running, proc, unwound, calls>>

Threads == Clients \cup Workers

States == {"Queued", "Running", "Succeeded", "Failed", "Cancelled"}
NoSession == [state |-> "None", attempt |-> 0, max |-> 0, result |-> FALSE, error |-> FALSE]

(* CollectionSession: result and error by whether they are Some.           *)
Session == [state : States, attempt : Nat, max : Nat, result : BOOLEAN, error : BOOLEAN]

(* Aggregates are task ids, and "obs_<id>" for observations.               *)
Aggregate == {"task", "obs"} \X TaskId
EventKind == {"registered", "active", "observed", "error"}

Pcs == {"idle", "enqueue", "version", "append", "cancel_get", "cancel_mark",
        "dequeue", "mark", "execute", "finish", "retry_check", "retry_enqueue"}

(* The locals of the method a thread is in.                                *)
Local == [pc : Pcs, task : Entry \cup {NoEntry}, id : TaskId \cup {NoEntry},
          kind : EventKind, ver : Nat, ok : BOOLEAN]

AtRest == [pc |-> "idle", task |-> NoEntry, id |-> NoEntry, kind |-> "registered",
           ver |-> 0, ok |-> FALSE]

Init ==
    /\ queue = EmptyQueue
    /\ sessions = [id \in TaskId |-> NoSession]
    /\ log = [a \in Aggregate |-> <<>>]
    /\ running = TRUE
    /\ proc = [t \in Threads |-> AtRest]
    /\ unwound = {}
    /\ calls = 0

-------------------------------------------------------------------------------
(* SessionManager.                                                         *)

(* Mutant of AllowedTransition: a cancel after the end.                    *)
CancelsSucceeded(from, to) ==
    \/ from = "Queued"  /\ to \in {"Running", "Cancelled"}
    \/ from = "Running" /\ to \in {"Succeeded", "Failed", "Cancelled"}
    \/ from \in {"Failed", "Succeeded"} /\ to \in {"Queued", "Cancelled"}

(* Mutant of AllowedTransition: nothing running fails.                     *)
NeverFails(from, to) ==
    \/ from = "Queued"  /\ to \in {"Running", "Cancelled"}
    \/ from = "Running" /\ to \in {"Succeeded", "Cancelled"}
    \/ from = "Failed"  /\ to \in {"Queued", "Cancelled"}

(* allowed_transition.                                                     *)
AllowedTransition(from, to) ==
    \/ from = "Queued"  /\ to \in {"Running", "Cancelled"}
    \/ from = "Running" /\ to \in {"Succeeded", "Failed", "Cancelled"}
    \/ from = "Failed"  /\ to \in {"Queued", "Cancelled"}

(* create: whatever session the id has is overwritten.                     *)
FreshSession(retries) ==
    [state |-> "Queued", attempt |-> 0, max |-> retries, result |-> FALSE, error |-> FALSE]

(* transition, when it is allowed.                                         *)
Moved(s, to) ==
    [s EXCEPT !.state   = to,
              !.attempt = IF to = "Running" THEN s.attempt + 1 ELSE s.attempt,
              !.result  = s.result \/ to = "Succeeded",
              !.error   = s.error \/ to = "Failed"]

CanMove(id, to) == AllowedTransition(sessions[id].state, to)

MoveSession(id, to) == sessions' = [sessions EXCEPT ![id] = Moved(sessions[id], to)]

ShouldRetry(s) == s.state = "Failed" /\ s.attempt < s.max

-------------------------------------------------------------------------------
(* Where a thread goes.                                                    *)

At(t, pc) == proc[t].pc = pc

Goto(t, pc) == proc' = [proc EXCEPT ![t].pc = pc]

(* emit: the next two steps read the version and append the event.         *)
Emit(t, kind) == proc' = [proc EXCEPT ![t].pc = "version", ![t].kind = kind]

(* The method returns, to rest or, drain after Ok(Some), to process_next.  *)
Return(t) == proc' = [proc EXCEPT ![t] = AtRest]

ReturnSome(t) ==
    IF t \in Drainers /\ running
    THEN proc' = [proc EXCEPT ![t] = [AtRest EXCEPT !.pc = "dequeue"]]
    ELSE Return(t)

ClientCall(c) ==
    /\ At(c, "idle")
    /\ calls < MaxCalls
    /\ calls' = calls + 1

-------------------------------------------------------------------------------
(* submit: create the session, enqueue, then emit "registered".            *)

Submit(c, id, p, retries) ==
    /\ ClientCall(c)
    /\ MayResubmit \/ sessions[id] = NoSession
    /\ sessions' = [sessions EXCEPT ![id] = FreshSession(retries)]
    /\ unwound' = unwound \ {id}
    /\ proc' = [proc EXCEPT ![c].pc = "enqueue", ![c].id = id,
                            ![c].task = [id |-> id, prio |-> p, seq |-> 0, retries |-> retries]]
    /\ UNCHANGED <<queue, log, running>>

SubmitEnqueue(c) ==
    LET task == proc[c].task
    IN  /\ At(c, "enqueue")
        /\ \/ /\ CanEnqueue(queue, task.id)
              /\ queue' = Enqueued(queue, task.id, task.prio, task.retries)
              /\ Emit(c, "registered")
           \/ /\ ~ CanEnqueue(queue, task.id)
              /\ Return(c)
              /\ UNCHANGED queue
        /\ UNCHANGED <<sessions, log, running, calls, unwound>>

(* cancel: the queue first; a task it does not know may still have a       *)
(* session.  A panic unwinds out of the call.                              *)
Cancel(c, id) ==
    /\ MayCancel
    /\ ClientCall(c)
    /\ \/ /\ CanCancel(queue, id)
          /\ queue' = Cancelled(queue, id)
          /\ IF CancelPanics(queue, id) THEN UNCHANGED proc
             ELSE proc' = [proc EXCEPT ![c].pc = "cancel_mark", ![c].id = id]
       \/ /\ ~ queue.poisoned
          /\ id \notin Indexed(queue)
          /\ proc' = [proc EXCEPT ![c].pc = "cancel_get", ![c].id = id]
          /\ UNCHANGED queue
       \/ /\ queue.poisoned
          /\ UNCHANGED <<queue, proc>>
    /\ UNCHANGED <<sessions, log, running, unwound>>

CancelGet(c) ==
    /\ At(c, "cancel_get")
    /\ IF sessions[proc[c].id] = NoSession THEN Return(c) ELSE Goto(c, "cancel_mark")
    /\ UNCHANGED <<queue, sessions, log, running, calls, unwound>>

CancelMark(c) ==
    LET id == proc[c].id
    IN  /\ At(c, "cancel_mark")
        /\ IF CanMove(id, "Cancelled") THEN MoveSession(id, "Cancelled") ELSE UNCHANGED sessions
        /\ Return(c)
        /\ UNCHANGED <<queue, log, running, calls, unwound>>

StopOrStart(c) ==
    /\ MayStop
    /\ ClientCall(c)
    /\ running' = ~ running
    /\ UNCHANGED <<queue, sessions, log, proc, unwound>>

-------------------------------------------------------------------------------
(* process_next.                                                           *)

BeginProcess(w) ==
    /\ At(w, "idle")
    /\ running
    /\ Goto(w, "dequeue")
    /\ UNCHANGED <<queue, sessions, log, running, calls, unwound>>

ProcessDequeue(w) ==
    /\ At(w, "dequeue")
    /\ \/ /\ ~ queue.poisoned
          /\ queue.heap # <<>>
          /\ queue' = Dequeued(queue)
          /\ proc' = [proc EXCEPT ![w].pc = "mark", ![w].task = Top(queue), ![w].id = Top(queue).id]
       \/ /\ queue.poisoned \/ queue.heap = <<>>
          /\ Return(w)
          /\ UNCHANGED queue
    /\ UNCHANGED <<sessions, log, running, calls, unwound>>

MarkRunning(w) ==
    LET id == proc[w].id
    IN  /\ At(w, "mark")
        /\ \/ CanMove(id, "Running") /\ MoveSession(id, "Running") /\ Emit(w, "active")
           \/ ~ CanMove(id, "Running") /\ UNCHANGED sessions /\ Return(w)
        /\ UNCHANGED <<queue, log, running, calls, unwound>>

(* drivers.execute answers Ok or Err, when it pleases, or panics, which    *)
(* unwinds out of process_next and of drain.                               *)
Execute(w) ==
    /\ At(w, "execute")
    /\ \/ /\ \E ok \in BOOLEAN : proc' = [proc EXCEPT ![w].pc = "finish", ![w].ok = ok]
          /\ UNCHANGED unwound
       \/ /\ Return(w)
          /\ unwound' = unwound \cup {proc[w].id}
    /\ UNCHANGED <<queue, sessions, log, running, calls>>

Finish(w) ==
    LET id == proc[w].id
        to == IF proc[w].ok THEN "Succeeded" ELSE "Failed"
    IN  /\ At(w, "finish")
        /\ \/ /\ CanMove(id, to)
              /\ MoveSession(id, to)
              /\ IF proc[w].ok THEN Emit(w, "observed") ELSE Goto(w, "retry_check")
           \/ /\ ~ CanMove(id, to)
              /\ Return(w)
              /\ UNCHANGED sessions
        /\ UNCHANGED <<queue, log, running, calls, unwound>>

RetryCheck(w) ==
    /\ At(w, "retry_check")
    /\ IF ShouldRetry(sessions[proc[w].id]) THEN Goto(w, "retry_enqueue") ELSE Emit(w, "error")
    /\ UNCHANGED <<queue, sessions, log, running, calls, unwound>>

(* The retry goes back one level down; a refusal is ignored.               *)
Demoted(p) == IF p = 4 THEN 4 ELSE p + 1

RetryEnqueue(w) ==
    LET task == proc[w].task
    IN  /\ At(w, "retry_enqueue")
        /\ queue' = IF CanEnqueue(queue, task.id)
                    THEN Enqueued(queue, task.id, Demoted(task.prio), task.retries)
                    ELSE queue
        /\ IF queue.poisoned THEN Return(w) ELSE Emit(w, "error")
        /\ UNCHANGED <<sessions, log, running, calls, unwound>>

-------------------------------------------------------------------------------
(* Emitting an event: latest_version of the task id, then an append whose  *)
(* failure is ignored.  The observation goes to another aggregate than the *)
(* one whose version was read.                                             *)

ReadVersion(t) ==
    /\ At(t, "version")
    /\ proc' = [proc EXCEPT ![t].pc = "append",
                            ![t].ver = Len(log[<<"task", proc[t].id>>]) + 1]
    /\ UNCHANGED <<queue, sessions, log, running, calls, unwound>>

Target(t) == IF proc[t].kind = "observed" THEN <<"obs", proc[t].id>> ELSE <<"task", proc[t].id>>

AppendEvent(t) ==
    /\ At(t, "append")
    /\ log' = IF proc[t].ver = Len(log[Target(t)]) + 1
              THEN [log EXCEPT ![Target(t)] = Append(log[Target(t)], proc[t].kind)]
              ELSE log
    /\ IF proc[t].kind = "active" THEN Goto(t, "execute") ELSE ReturnSome(t)
    /\ UNCHANGED <<queue, sessions, running, calls, unwound>>

-------------------------------------------------------------------------------
ClientNext(c) ==
    \/ \E id \in TaskId, p \in SubmitPrio, r \in SubmitRetries : Submit(c, id, p, r)
    \/ SubmitEnqueue(c)
    \/ \E id \in TaskId : Cancel(c, id)
    \/ CancelGet(c)
    \/ CancelMark(c)
    \/ StopOrStart(c)

WorkerNext(w) ==
    \/ BeginProcess(w)
    \/ ProcessDequeue(w)
    \/ MarkRunning(w)
    \/ Execute(w)
    \/ Finish(w)
    \/ RetryCheck(w)
    \/ RetryEnqueue(w)

EmitNext(t) == ReadVersion(t) \/ AppendEvent(t)

Next ==
    \/ \E c \in Clients : ClientNext(c)
    \/ \E w \in Workers : WorkerNext(w)
    \/ \E t \in Threads : EmitNext(t)

Spec == Init /\ [][Next]_vars

(* A worker keeps calling process_next, a driver answers, and a call that  *)
(* has begun goes on to its end; nobody has to begin a client call.        *)
Fairness ==
    /\ \A w \in Workers : WF_vars(WorkerNext(w) \/ EmitNext(w))
    /\ \A c \in Clients : WF_vars(SubmitEnqueue(c) \/ CancelGet(c) \/ CancelMark(c) \/ EmitNext(c))

FairSpec == Spec /\ Fairness

-------------------------------------------------------------------------------
Entries == {queue.heap[i] : i \in DOMAIN queue.heap}

(* The state is of the types fabric.rs, session.rs and queue.rs declare.   *)
TypeOK ==
    /\ queue \in Queue
    /\ sessions \in [TaskId -> Session \cup {NoSession}]
    /\ log \in [Aggregate -> Seq(EventKind)]
    /\ running \in BOOLEAN
    /\ proc \in [Threads -> Local]
    /\ unwound \subseteq TaskId
    /\ calls \in Nat

(* A result is there exactly when the session succeeded, and an error only *)
(* when it failed: a cancel, or a resubmission, between Running and the    *)
(* driver's answer lets neither slip in (session.rs transition's guard).   *)
OutcomeMatchesState ==
    \A id \in TaskId :
        /\ sessions[id].result <=> sessions[id].state = "Succeeded"
        /\ sessions[id].error => sessions[id].state \in {"Failed", "Cancelled"}
        /\ sessions[id].state = "Failed" => sessions[id].error

(* A worker between the two transitions of fabric.rs process_next.         *)
InFlight(w) ==
    /\ proc[w].pc \in {"version", "append", "execute", "finish"}
    /\ proc[w].kind = "active"

(* No session is left Running without a worker that will finish it, unless *)
(* the driver panicked in it: that alone leaves it so (fabric.rs           *)
(* process_next between its two transitions).                              *)
RunningIsAttended ==
    \A id \in TaskId : sessions[id].state = "Running" =>
        \/ \E w \in Workers : proc[w].id = id /\ InFlight(w)
        \/ id \in unwound

(* An accepted entry is in one place: at one position of the queue, or     *)
(* taken by one worker (queue.rs dequeue and cancel, raced by several      *)
(* workers and clients);                                                   *)
EntryHeldOnce ==
    /\ \A i, j \in DOMAIN queue.heap : queue.heap[i] = queue.heap[j] => i = j
    /\ \A w \in Workers : proc[w].task # NoEntry =>
          /\ proc[w].task \notin Entries
          /\ \A v \in Workers \ {w} : proc[v].task # proc[w].task

(* and a session that is Queued is in the queue, or in the hands of the    *)
(* thread that is about to put it there or has just taken it out           *)
(* (fabric.rs submit, process_next): nothing is dropped in between.        *)
QueuedIsHeld ==
    \A id \in TaskId : sessions[id].state = "Queued" =>
        \/ \E e \in Entries : e.id = id
        \/ \E c \in Clients : At(c, "enqueue") /\ proc[c].id = id
        \/ \E w \in Workers : At(w, "mark") /\ proc[w].id = id

(* Submissions are kept: held once, and held while Queued (both above).    *)
NoTaskLost == EntryHeldOnce /\ QueuedIsHeld

(* Every submitted task comes to an end while workers keep working, unless *)
(* its driver panics (fabric.rs process_next).                             *)
TasksFinish ==
    \A id \in TaskId :
        sessions[id].state = "Queued" ~>
            sessions[id].state \in {"Succeeded", "Failed"} \/ id \in unwound

-------------------------------------------------------------------------------
(* Sentences of the documentation.                                         *)

(* session.rs: "Failed -> Queued (retry)".  A session that failed with     *)
(* attempts left is on its way to the next one: its task is in the queue,  *)
(* or in the hands of a thread.                                            *)
FailedIsRetried ==
    \A id \in TaskId : ShouldRetry(sessions[id]) =>
        \/ \E e \in Entries : e.id = id
        \/ \E t \in Threads : proc[t].id = id

(* fabric.rs process_next: "Emits events for each step".  When a worker    *)
(* has reported a success, the observation is in the event store.          *)
SuccessIsRecorded ==
    \A id \in TaskId :
        sessions[id].state = "Succeeded"
        /\ (\A t \in Threads : proc[t].id # id)
        => log[<<"obs", id>>] # <<>>
===============================================================================
