------------------------ MODULE CollectionFabricProofs ------------------------
(***************************************************************************)
(* The collection fabric, for any number of clients, workers and tasks:    *)
(* its types, the agreement of outcomes with states, that no session is    *)
(* left Running unattended, and that no task is lost.                      *)
(***************************************************************************)
EXTENDS CollectionFabric, TaskHeapProofs, TLAPS

(* What the thread is about to use is there to be used.                    *)
IdKnown == \A t \in Threads : proc[t].pc \notin {"idle", "dequeue"} => proc[t].id \in TaskId

TaskKnown ==
    \A t \in Threads : proc[t].pc \in {"enqueue", "retry_enqueue"} => proc[t].task \in Entry

WorkerHasTask ==
    \A w \in Workers : proc[w].pc \notin {"idle", "dequeue"} => proc[w].task \in Entry

TypeInv == TypeOK /\ IdKnown /\ TaskKnown /\ WorkerHasTask

LEMMA ClientIsNoWorker == \A c \in Clients : c \in Threads /\ c \notin Workers
BY ThreadAssumption DEF Threads

LEMMA WorkerIsThread == \A w \in Workers : w \in Threads
BY DEF Threads

LEMMA MovedType ==
    ASSUME NEW s \in Session \cup {NoSession}, NEW to \in States, AllowedTransition(s.state, to)
    PROVE  Moved(s, to) \in Session
<1>1. s \in Session
  BY DEF NoSession, AllowedTransition
<1>2. ASSUME NEW n \in Nat, NEW r \in BOOLEAN, NEW e \in BOOLEAN
      PROVE  [s EXCEPT !.state = to, !.attempt = n, !.result = r, !.error = e] \in Session
  BY <1>1 DEF Session
<1>3. s.attempt \in Nat /\ s.result \in BOOLEAN /\ s.error \in BOOLEAN
  BY <1>1 DEF Session
<1>4. (IF to = "Running" THEN s.attempt + 1 ELSE s.attempt) \in Nat
  BY <1>3
<1>5. (s.result \/ to = "Succeeded") \in BOOLEAN /\ (s.error \/ to = "Failed") \in BOOLEAN
  OBVIOUS
<1> QED BY <1>2, <1>4, <1>5 DEF Moved

LEMMA FreshType == \A r \in Nat : FreshSession(r) \in Session
BY DEF FreshSession, Session, States

LEMMA AtRestType == AtRest \in Local
BY DEF AtRest, Local, Pcs, EventKind

LEMMA InitTypeInv == Init => TypeInv
BY EmptyQueueType, AtRestType
   DEF Init, TypeInv, TypeOK, IdKnown, TaskKnown, WorkerHasTask, AtRest, Threads

(* A step of one thread that keeps the other variables' types and leaves   *)
(* that thread with what it needs keeps TypeInv.                           *)
LEMMA OneThreadMoves ==
    ASSUME TypeInv, NEW t \in Threads, NEW l \in Local,
           proc' = [proc EXCEPT ![t] = l],
           l.pc \notin {"idle", "dequeue"} => l.id \in TaskId,
           l.pc \in {"enqueue", "retry_enqueue"} => l.task \in Entry,
           t \in Workers /\ l.pc \notin {"idle", "dequeue"} => l.task \in Entry
    PROVE  proc' \in [Threads -> Local] /\ (IdKnown /\ TaskKnown /\ WorkerHasTask)'
BY WorkerIsThread DEF TypeInv, TypeOK, IdKnown, TaskKnown, WorkerHasTask

(* Session moves made under allowed_transition keep the map's type.        *)
LEMMA MoveType ==
    ASSUME TypeInv, NEW id \in TaskId, NEW to \in States, CanMove(id, to), MoveSession(id, to)
    PROVE  sessions' \in [TaskId -> Session \cup {NoSession}]
<1>1. Moved(sessions[id], to) \in Session
  BY MovedType DEF TypeInv, TypeOK, CanMove
<1> QED BY <1>1 DEF TypeInv, TypeOK, MoveSession

LEMMA ClientKeepsTypeInv ==
    ASSUME TypeInv, NEW c \in Clients, ClientNext(c)
    PROVE  TypeInv'
<1> c \in Threads /\ c \notin Workers
  BY ClientIsNoWorker
<1> proc[c] \in Local /\ proc \in [Threads -> Local]
  BY DEF TypeInv, TypeOK
<1>1. ASSUME NEW id \in TaskId, NEW p \in SubmitPrio, NEW r \in SubmitRetries, Submit(c, id, p, r)
      PROVE  TypeInv'
  <2> DEFINE task == [id |-> id, prio |-> p, seq |-> 0, retries |-> r]
             l == [proc[c] EXCEPT !.pc = "enqueue", !.id = id, !.task = task]
  <2>1. task \in Entry /\ r \in Nat
    BY InputAssumption DEF Entry
  <2>2. l \in Local /\ l.pc = "enqueue" /\ l.id = id /\ l.task = task
    BY <2>1 DEF Local, Pcs
  <2>3. proc' = [proc EXCEPT ![c] = l]
    BY <1>1 DEF Submit
  <2>4. proc' \in [Threads -> Local] /\ (IdKnown /\ TaskKnown /\ WorkerHasTask)'
    BY <2>1, <2>2, <2>3, OneThreadMoves
  <2>5. sessions' \in [TaskId -> Session \cup {NoSession}] /\ calls' \in Nat
    BY <1>1, <2>1, FreshType DEF Submit, ClientCall, TypeInv, TypeOK
  <2>6. (unwound \subseteq TaskId)'
    BY <1>1 DEF Submit, TypeInv, TypeOK
  <2> QED BY <1>1, <2>4, <2>5, <2>6 DEF Submit, TypeInv, TypeOK
<1>2. ASSUME SubmitEnqueue(c) PROVE TypeInv'
  <2> DEFINE task == proc[c].task
  <2>1. task \in Entry /\ proc[c].id \in TaskId
    BY <1>2 DEF SubmitEnqueue, At, TypeInv, IdKnown, TaskKnown
  <2>2. queue' \in Queue
    <3>1. Enqueued(queue, task.id, task.prio, task.retries) \in Queue
      BY <2>1, EnqueuedType DEF TypeInv, TypeOK, Entry
    <3> QED BY <3>1, <1>2 DEF SubmitEnqueue, TypeInv, TypeOK
  <2>3. PICK l \in Local : /\ proc' = [proc EXCEPT ![c] = l]
                           /\ l.pc \in {"idle", "version"}
                           /\ l.pc # "idle" => l.id = proc[c].id
    <3>1. [proc[c] EXCEPT !.pc = "version", !.kind = "registered"] \in Local
      BY DEF Local, Pcs, EventKind
    <3>2. AtRest \in Local /\ AtRest.pc = "idle"
      BY AtRestType DEF AtRest
    <3> QED BY <1>2, <3>1, <3>2 DEF SubmitEnqueue, Emit, Return, Local
  <2>4. proc' \in [Threads -> Local] /\ (IdKnown /\ TaskKnown /\ WorkerHasTask)'
    BY <2>1, <2>3, OneThreadMoves
  <2> QED BY <1>2, <2>2, <2>4 DEF SubmitEnqueue, TypeInv, TypeOK
<1>3. ASSUME NEW id \in TaskId, Cancel(c, id) PROVE TypeInv'
  <2>1. queue' \in Queue
    BY <1>3, CancelledType DEF Cancel, CanCancel, TypeInv, TypeOK
  <2>2. calls' \in Nat
    BY <1>3 DEF Cancel, ClientCall, TypeInv, TypeOK
  <2>3. proc' \in [Threads -> Local] /\ (IdKnown /\ TaskKnown /\ WorkerHasTask)'
    <3>1. CASE UNCHANGED proc
      BY <3>1 DEF TypeInv, TypeOK, IdKnown, TaskKnown, WorkerHasTask
    <3>2. ASSUME NEW pc \in {"cancel_mark", "cancel_get"},
                 proc' = [proc EXCEPT ![c].pc = pc, ![c].id = id]
          PROVE  proc' \in [Threads -> Local] /\ (IdKnown /\ TaskKnown /\ WorkerHasTask)'
      <4> DEFINE l == [proc[c] EXCEPT !.pc = pc, !.id = id]
      <4>1. l \in Local /\ l.pc = pc /\ l.id = id
        BY DEF Local, Pcs
      <4>2. proc' = [proc EXCEPT ![c] = l]
        BY <3>2
      <4> QED BY <4>1, <4>2, OneThreadMoves
    <3> QED BY <1>3, <3>1, <3>2 DEF Cancel
  <2> QED BY <1>3, <2>1, <2>2, <2>3 DEF Cancel, TypeInv, TypeOK
<1>4. ASSUME CancelGet(c) \/ CancelMark(c) PROVE TypeInv'
  <2>1. proc[c].id \in TaskId
    BY <1>4 DEF CancelGet, CancelMark, At, TypeInv, IdKnown
  <2>2. PICK l \in Local : /\ proc' = [proc EXCEPT ![c] = l]
                           /\ l.pc \in {"idle", "cancel_mark"}
                           /\ l.pc # "idle" => l.id = proc[c].id
    <3>1. [proc[c] EXCEPT !.pc = "cancel_mark"] \in Local
      BY DEF Local, Pcs
    <3>2. AtRest \in Local /\ AtRest.pc = "idle"
      BY AtRestType DEF AtRest
    <3> QED BY <1>4, <3>1, <3>2 DEF CancelGet, CancelMark, Goto, Return, Local
  <2>3. proc' \in [Threads -> Local] /\ (IdKnown /\ TaskKnown /\ WorkerHasTask)'
    BY <2>1, <2>2, OneThreadMoves
  <2>4. sessions' \in [TaskId -> Session \cup {NoSession}]
    BY <1>4, <2>1, MoveType DEF CancelGet, CancelMark, TypeInv, TypeOK, States
  <2> QED BY <1>4, <2>3, <2>4 DEF CancelGet, CancelMark, TypeInv, TypeOK
<1>5. ASSUME StopOrStart(c) PROVE TypeInv'
  BY <1>5 DEF StopOrStart, ClientCall, TypeInv, TypeOK, IdKnown, TaskKnown, WorkerHasTask
<1> QED BY <1>1, <1>2, <1>3, <1>4, <1>5 DEF ClientNext

LEMMA WorkerKeepsTypeInv ==
    ASSUME TypeInv, NEW w \in Workers, WorkerNext(w)
    PROVE  TypeInv'
<1> w \in Threads
  BY WorkerIsThread
<1> proc[w] \in Local /\ proc \in [Threads -> Local]
  BY DEF TypeInv, TypeOK
<1>1. AtRest \in Local /\ AtRest.pc = "idle"
  BY AtRestType DEF AtRest
<1>2. proc[w].kind \in EventKind /\ proc[w].ok \in BOOLEAN
  BY DEF Local
<1>3. ASSUME proc[w].id \in TaskId, proc[w].task \in Entry,
             NEW pc \in Pcs, NEW ok \in BOOLEAN, NEW kind \in EventKind,
             proc' = [proc EXCEPT ![w] = [proc[w] EXCEPT !.pc = pc, !.ok = ok, !.kind = kind]]
      PROVE  proc' \in [Threads -> Local] /\ (IdKnown /\ TaskKnown /\ WorkerHasTask)'
  <2> DEFINE l == [proc[w] EXCEPT !.pc = pc, !.ok = ok, !.kind = kind]
  <2>1. l \in Local /\ l.id = proc[w].id /\ l.task = proc[w].task
    BY DEF Local
  <2> QED BY <2>1, <1>3, OneThreadMoves
<1>4. ASSUME Return(w)
      PROVE  proc' \in [Threads -> Local] /\ (IdKnown /\ TaskKnown /\ WorkerHasTask)'
  <2>1. proc' = [proc EXCEPT ![w] = AtRest]
    BY <1>4 DEF Return
  <2> QED BY <1>1, <2>1, OneThreadMoves
<1>5. ASSUME proc[w].pc \notin {"idle", "dequeue"}
      PROVE  proc[w].id \in TaskId /\ proc[w].task \in Entry
  BY <1>5 DEF TypeInv, IdKnown, WorkerHasTask
<1>6. CASE BeginProcess(w)
  <2> DEFINE l == [proc[w] EXCEPT !.pc = "dequeue"]
  <2>1. l \in Local /\ l.pc = "dequeue"
    BY DEF Local, Pcs
  <2>2. proc' = [proc EXCEPT ![w] = l]
    BY <1>6 DEF BeginProcess, Goto
  <2>3. proc' \in [Threads -> Local] /\ (IdKnown /\ TaskKnown /\ WorkerHasTask)'
    BY <2>1, <2>2, OneThreadMoves
  <2> QED BY <1>6, <2>3 DEF BeginProcess, TypeInv, TypeOK
<1>7. CASE ProcessDequeue(w)
  <2>1. CASE Return(w) /\ UNCHANGED queue
    BY <1>4, <1>7, <2>1 DEF ProcessDequeue, TypeInv, TypeOK
  <2>2. CASE /\ queue.heap # <<>>
             /\ queue' = Dequeued(queue)
             /\ proc' = [proc EXCEPT ![w].pc = "mark", ![w].task = Top(queue), ![w].id = Top(queue).id]
    <3>1. Top(queue) \in Entry /\ queue' \in Queue
      BY <2>2, DequeuedType DEF TypeInv, TypeOK
    <3> DEFINE e == Top(queue)
               l == [proc[w] EXCEPT !.pc = "mark", !.task = e, !.id = e.id]
    <3>2. e.id \in TaskId
      BY <3>1 DEF Entry
    <3> HIDE DEF e
    <3>3. l \in Local /\ l.pc = "mark" /\ l.task = e /\ l.id = e.id
      BY <3>1, <3>2 DEF Local, Pcs, e
    <3>4. proc' = [proc EXCEPT ![w] = l]
      BY <2>2 DEF e
    <3>5. proc' \in [Threads -> Local] /\ (IdKnown /\ TaskKnown /\ WorkerHasTask)'
      BY <3>1, <3>2, <3>3, <3>4, OneThreadMoves DEF e
    <3> QED BY <1>7, <3>1, <3>5 DEF ProcessDequeue, TypeInv, TypeOK
  <2> QED BY <1>7, <2>1, <2>2 DEF ProcessDequeue
<1>8. CASE MarkRunning(w)
  <2>1. proc[w].id \in TaskId /\ proc[w].task \in Entry
    BY <1>5, <1>8 DEF MarkRunning, At
  <2>2. CASE Return(w) /\ UNCHANGED sessions
    BY <1>4, <1>8, <2>2 DEF MarkRunning, TypeInv, TypeOK
  <2>3. CASE CanMove(proc[w].id, "Running") /\ MoveSession(proc[w].id, "Running") /\ Emit(w, "active")
    <3>1. proc' = [proc EXCEPT ![w] = [proc[w] EXCEPT !.pc = "version", !.ok = proc[w].ok, !.kind = "active"]]
      BY <2>3 DEF Emit, Local
    <3>2. proc' \in [Threads -> Local] /\ (IdKnown /\ TaskKnown /\ WorkerHasTask)'
      BY <1>2, <1>3, <2>1, <3>1 DEF Pcs, EventKind
    <3>3. sessions' \in [TaskId -> Session \cup {NoSession}]
      BY <2>1, <2>3, MoveType DEF States
    <3> QED BY <1>8, <3>2, <3>3 DEF MarkRunning, TypeInv, TypeOK
  <2> QED BY <1>8, <2>2, <2>3 DEF MarkRunning
<1>9. CASE Execute(w)
  <2>1. proc[w].id \in TaskId /\ proc[w].task \in Entry
    BY <1>5, <1>9 DEF Execute, At
  <2>2. ASSUME NEW ok \in BOOLEAN, proc' = [proc EXCEPT ![w].pc = "finish", ![w].ok = ok]
        PROVE  proc' \in [Threads -> Local] /\ (IdKnown /\ TaskKnown /\ WorkerHasTask)'
    <3>1. proc' = [proc EXCEPT ![w] = [proc[w] EXCEPT !.pc = "finish", !.ok = ok, !.kind = proc[w].kind]]
      BY <2>2 DEF Local
    <3> QED BY <1>2, <1>3, <2>1, <2>2, <3>1 DEF Pcs
  <2>3. proc' \in [Threads -> Local] /\ (IdKnown /\ TaskKnown /\ WorkerHasTask)'
    BY <1>4, <1>9, <2>2 DEF Execute
  <2>4. (unwound \subseteq TaskId)'
    BY <1>9, <2>1 DEF Execute, TypeInv, TypeOK
  <2> QED BY <1>9, <2>3, <2>4 DEF Execute, TypeInv, TypeOK
<1>10. CASE Finish(w)
  <2>1. proc[w].id \in TaskId /\ proc[w].task \in Entry
    BY <1>5, <1>10 DEF Finish, At
  <2>2. CASE Return(w) /\ UNCHANGED sessions
    BY <1>4, <1>10, <2>2 DEF Finish, TypeInv, TypeOK
  <2>3. ASSUME NEW to \in {"Succeeded", "Failed"}, CanMove(proc[w].id, to), MoveSession(proc[w].id, to),
               IF proc[w].ok THEN Emit(w, "observed") ELSE Goto(w, "retry_check")
        PROVE  TypeInv'
    <3>1. PICK pc \in {"version", "retry_check"}, kind \in EventKind :
             proc' = [proc EXCEPT ![w] = [proc[w] EXCEPT !.pc = pc, !.ok = proc[w].ok, !.kind = kind]]
      <4>1. CASE Emit(w, "observed")
        <5>1. proc' = [proc EXCEPT ![w] = [proc[w] EXCEPT !.pc = "version", !.ok = proc[w].ok, !.kind = "observed"]]
          BY <4>1 DEF Emit, Local
        <5> QED BY <5>1 DEF EventKind
      <4>2. CASE Goto(w, "retry_check")
        <5>1. proc' = [proc EXCEPT ![w] = [proc[w] EXCEPT !.pc = "retry_check", !.ok = proc[w].ok, !.kind = proc[w].kind]]
          BY <4>2 DEF Goto, Local
        <5> QED BY <1>2, <5>1
      <4> QED BY <2>3, <4>1, <4>2
    <3>2. proc' \in [Threads -> Local] /\ (IdKnown /\ TaskKnown /\ WorkerHasTask)'
      BY <1>2, <1>3, <2>1, <3>1 DEF Pcs
    <3>3. sessions' \in [TaskId -> Session \cup {NoSession}]
      BY <2>1, <2>3, MoveType DEF States
    <3> QED BY <1>10, <3>2, <3>3 DEF Finish, TypeInv, TypeOK
  <2> QED BY <1>10, <2>2, <2>3 DEF Finish
<1>11. CASE RetryCheck(w)
  <2>1. proc[w].id \in TaskId /\ proc[w].task \in Entry
    BY <1>5, <1>11 DEF RetryCheck, At
  <2>2. PICK pc \in {"version", "retry_enqueue"}, kind \in EventKind :
           proc' = [proc EXCEPT ![w] = [proc[w] EXCEPT !.pc = pc, !.ok = proc[w].ok, !.kind = kind]]
    <3>1. CASE Emit(w, "error")
      <4>1. proc' = [proc EXCEPT ![w] = [proc[w] EXCEPT !.pc = "version", !.ok = proc[w].ok, !.kind = "error"]]
        BY <3>1 DEF Emit, Local
      <4> QED BY <4>1 DEF EventKind
    <3>2. CASE Goto(w, "retry_enqueue")
      <4>1. proc' = [proc EXCEPT ![w] = [proc[w] EXCEPT !.pc = "retry_enqueue", !.ok = proc[w].ok, !.kind = proc[w].kind]]
        BY <3>2 DEF Goto, Local
      <4> QED BY <1>2, <4>1
    <3> QED BY <1>11, <3>1, <3>2 DEF RetryCheck
  <2>3. proc' \in [Threads -> Local] /\ (IdKnown /\ TaskKnown /\ WorkerHasTask)'
    BY <1>2, <1>3, <2>1, <2>2 DEF Pcs
  <2> QED BY <1>11, <2>3 DEF RetryCheck, TypeInv, TypeOK
<1>12. CASE RetryEnqueue(w)
  <2>1. proc[w].id \in TaskId /\ proc[w].task \in Entry
    BY <1>5, <1>12 DEF RetryEnqueue, At
  <2>2. Demoted(proc[w].task.prio) \in Priority
    BY <2>1, PriorityIsEnum DEF Demoted, Entry
  <2>3. Enqueued(queue, proc[w].task.id, Demoted(proc[w].task.prio), proc[w].task.retries) \in Queue
    BY <2>1, <2>2, EnqueuedType DEF TypeInv, TypeOK, Entry
  <2>4. proc' \in [Threads -> Local] /\ (IdKnown /\ TaskKnown /\ WorkerHasTask)'
    <3>1. CASE Return(w)
      BY <3>1, <1>4
    <3>2. CASE Emit(w, "error")
      <4>1. proc' = [proc EXCEPT ![w] = [proc[w] EXCEPT !.pc = "version", !.ok = proc[w].ok, !.kind = "error"]]
        BY <3>2 DEF Emit, Local
      <4> QED BY <1>2, <1>3, <2>1, <4>1 DEF Pcs, EventKind
    <3> QED BY <1>12, <3>1, <3>2 DEF RetryEnqueue
  <2> QED BY <1>12, <2>3, <2>4 DEF RetryEnqueue, TypeInv, TypeOK
<1> QED BY <1>6, <1>7, <1>8, <1>9, <1>10, <1>11, <1>12 DEF WorkerNext

LEMMA EmitKeepsTypeInv ==
    ASSUME TypeInv, NEW t \in Threads, EmitNext(t)
    PROVE  TypeInv'
<1> proc[t] \in Local /\ proc \in [Threads -> Local]
  BY DEF TypeInv, TypeOK
<1>1. /\ proc[t].id \in TaskId
      /\ t \in Workers => proc[t].task \in Entry
  BY DEF EmitNext, ReadVersion, AppendEvent, At, TypeInv, IdKnown, WorkerHasTask
<1>2. proc[t].kind \in EventKind /\ Target(t) \in Aggregate
  BY <1>1 DEF Target, Aggregate, Local
<1>3. CASE ReadVersion(t)
  <2> DEFINE ver == Len(log[<<"task", proc[t].id>>]) + 1
             l == [proc[t] EXCEPT !.pc = "append", !.ver = ver]
  <2>1. ver \in Nat
    BY <1>1, LenProperties DEF TypeInv, TypeOK, Aggregate
  <2> HIDE DEF ver
  <2>2. l \in Local /\ l.pc = "append" /\ l.id = proc[t].id /\ l.task = proc[t].task
    BY <2>1 DEF Local, Pcs
  <2>3. proc' = [proc EXCEPT ![t] = l]
    BY <1>3 DEF ReadVersion, ver
  <2>4. proc' \in [Threads -> Local] /\ (IdKnown /\ TaskKnown /\ WorkerHasTask)'
    BY <1>1, <2>2, <2>3, OneThreadMoves
  <2> QED BY <1>3, <2>4 DEF ReadVersion, TypeInv, TypeOK
<1>4. CASE AppendEvent(t)
  <2>1. log' \in [Aggregate -> Seq(EventKind)]
    <3>1. Append(log[Target(t)], proc[t].kind) \in Seq(EventKind)
      BY <1>2, AppendProperties DEF TypeInv, TypeOK
    <3> QED BY <3>1, <1>4 DEF AppendEvent, TypeInv, TypeOK
  <2>2. PICK l \in Local : /\ proc' = [proc EXCEPT ![t] = l]
                           /\ l.pc \in {"idle", "dequeue", "execute"}
                           /\ l.pc = "execute" => l.id = proc[t].id /\ l.task = proc[t].task
    <3> DEFINE go == [proc[t] EXCEPT !.pc = "execute"]
               next == [AtRest EXCEPT !.pc = "dequeue"]
    <3>1. go \in Local /\ go.pc = "execute" /\ go.id = proc[t].id /\ go.task = proc[t].task
      BY DEF Local, Pcs
    <3>2. AtRest \in Local /\ AtRest.pc = "idle"
      BY AtRestType DEF AtRest
    <3>3. next \in Local /\ next.pc = "dequeue"
      BY <3>2 DEF Local, Pcs
    <3>4. \/ proc' = [proc EXCEPT ![t] = go]
          \/ proc' = [proc EXCEPT ![t] = next]
          \/ proc' = [proc EXCEPT ![t] = AtRest]
      BY <1>4 DEF AppendEvent, Goto, ReturnSome, Return
    <3> QED BY <3>1, <3>2, <3>3, <3>4
  <2>3. proc' \in [Threads -> Local] /\ (IdKnown /\ TaskKnown /\ WorkerHasTask)'
    BY <1>1, <2>2, OneThreadMoves
  <2> QED BY <1>4, <2>1, <2>3 DEF AppendEvent, TypeInv, TypeOK
<1> QED BY <1>3, <1>4 DEF EmitNext

LEMMA StepKeepsTypeInv == TypeInv /\ [Next]_vars => TypeInv'
<1>1. CASE UNCHANGED vars
  BY <1>1 DEF vars, TypeInv, TypeOK, IdKnown, TaskKnown, WorkerHasTask
<1> QED BY <1>1, ClientKeepsTypeInv, WorkerKeepsTypeInv, EmitKeepsTypeInv DEF Next

LEMMA TypeInvHolds == Spec => []TypeInv
BY InitTypeInv, StepKeepsTypeInv, PTL DEF Spec

(* The fabric's state is of the types fabric.rs, session.rs and queue.rs   *)
(* declare, whatever its threads do to each other.                         *)
THEOREM FabricTypeOK == Spec => []TypeOK
BY TypeInvHolds, PTL DEF TypeInv

-------------------------------------------------------------------------------
(* What a step may do to one session: leave it, replace it by a fresh one, *)
(* or move it, and never back to Queued.                                   *)
SessionStep(id) ==
    \/ sessions'[id] = sessions[id]
    \/ \E r \in Nat : sessions'[id] = FreshSession(r)
    \/ \E to \in States \ {"Queued"} :
          CanMove(id, to) /\ sessions'[id] = Moved(sessions[id], to)

LEMMA MoveIsSessionStep ==
    ASSUME TypeInv, NEW j \in TaskId, NEW to \in States \ {"Queued"},
           CanMove(j, to), MoveSession(j, to), NEW id \in TaskId
    PROVE  SessionStep(id)
BY DEF MoveSession, SessionStep, TypeInv, TypeOK

LEMMA StepIsSessionStep ==
    ASSUME TypeInv, [Next]_vars, NEW id \in TaskId
    PROVE  SessionStep(id)
<1>1. CASE UNCHANGED sessions
  BY <1>1 DEF SessionStep
<1>2. ASSUME NEW c \in Clients, ClientNext(c) PROVE SessionStep(id)
  <2>1. ASSUME NEW j \in TaskId, NEW p \in SubmitPrio, NEW r \in SubmitRetries, Submit(c, j, p, r)
        PROVE  SessionStep(id)
    <3>1. r \in Nat /\ sessions' = [sessions EXCEPT ![j] = FreshSession(r)]
      BY <2>1, InputAssumption DEF Submit
    <3> QED BY <3>1 DEF SessionStep, TypeInv, TypeOK
  <2>2. CASE CancelMark(c)
    <3>1. proc[c].id \in TaskId
      BY <2>2, ClientIsNoWorker DEF CancelMark, At, TypeInv, IdKnown
    <3>2. CASE UNCHANGED sessions
      BY <3>2, <1>1
    <3>3. CASE CanMove(proc[c].id, "Cancelled") /\ MoveSession(proc[c].id, "Cancelled")
      BY <3>1, <3>3, MoveIsSessionStep DEF States
    <3> QED BY <2>2, <3>2, <3>3 DEF CancelMark
  <2>3. CASE \/ SubmitEnqueue(c) \/ CancelGet(c) \/ StopOrStart(c)
             \/ \E j \in TaskId : Cancel(c, j)
    BY <1>1, <2>3 DEF SubmitEnqueue, CancelGet, StopOrStart, Cancel
  <2> QED BY <1>2, <2>1, <2>2, <2>3 DEF ClientNext
<1>3. ASSUME NEW w \in Workers, WorkerNext(w) PROVE SessionStep(id)
  <2>1. ASSUME NEW to \in {"Running", "Succeeded", "Failed"}, proc[w].id \in TaskId,
               CanMove(proc[w].id, to), MoveSession(proc[w].id, to)
        PROVE  SessionStep(id)
    BY <2>1, MoveIsSessionStep DEF States
  <2>2. CASE MarkRunning(w)
    <3>1. proc[w].id \in TaskId
      BY <2>2, WorkerIsThread DEF MarkRunning, At, TypeInv, IdKnown
    <3> QED BY <1>1, <2>1, <2>2, <3>1 DEF MarkRunning
  <2>3. CASE Finish(w)
    <3>1. proc[w].id \in TaskId
      BY <2>3, WorkerIsThread DEF Finish, At, TypeInv, IdKnown
    <3> QED BY <1>1, <2>1, <2>3, <3>1 DEF Finish
  <2>4. CASE \/ BeginProcess(w) \/ ProcessDequeue(w) \/ Execute(w)
             \/ RetryCheck(w) \/ RetryEnqueue(w)
    BY <1>1, <2>4 DEF BeginProcess, ProcessDequeue, Execute, RetryCheck, RetryEnqueue
  <2> QED BY <1>3, <2>2, <2>3, <2>4 DEF WorkerNext
<1>4. ASSUME NEW t \in Threads, EmitNext(t) PROVE UNCHANGED sessions
  BY <1>4 DEF EmitNext, ReadVersion, AppendEvent
<1> QED BY <1>1, <1>2, <1>3, <1>4 DEF Next, vars

LEMMA MovedFields ==
    ASSUME NEW s \in Session, NEW to \in States
    PROVE  /\ Moved(s, to).state = to
           /\ Moved(s, to).attempt = IF to = "Running" THEN s.attempt + 1 ELSE s.attempt
           /\ Moved(s, to).result = (s.result \/ to = "Succeeded")
           /\ Moved(s, to).error = (s.error \/ to = "Failed")
<1> DEFINE n == IF to = "Running" THEN s.attempt + 1 ELSE s.attempt
           r == s.result \/ to = "Succeeded"
           e == s.error \/ to = "Failed"
           m == Moved(s, to)
<1>1. DOMAIN s = {"state", "attempt", "max", "result", "error"}
  BY DEF Session
<1>2. m = [s EXCEPT !.state = to, !.attempt = n, !.result = r, !.error = e]
  BY DEF Moved
<1> HIDE DEF n, r, e, m
<1>3. m = [f \in DOMAIN s |-> IF f = "error" THEN e ELSE IF f = "result" THEN r
                             ELSE IF f = "attempt" THEN n ELSE IF f = "state" THEN to ELSE s[f]]
  BY <1>1, <1>2
<1>4. m.state = to /\ m.attempt = n /\ m.result = r /\ m.error = e
  BY <1>1, <1>3
<1> QED BY <1>4, Zenon DEF n, r, e, m

LEMMA MoverHasSession ==
    ASSUME TypeInv, NEW id \in TaskId, NEW to \in States, CanMove(id, to)
    PROVE  sessions[id] \in Session
BY DEF CanMove, AllowedTransition, NoSession, TypeInv, TypeOK

LEMMA InitOutcomes == Init => OutcomeMatchesState
<1>1. ~ NoSession.result /\ ~ NoSession.error /\ NoSession.state = "None"
  BY DEF NoSession
<1>2. Init => \A id \in TaskId : sessions[id] = NoSession
  BY DEF Init
<1> QED BY <1>1, <1>2 DEF OutcomeMatchesState

LEMMA StepKeepsOutcomes == TypeInv /\ OutcomeMatchesState /\ [Next]_vars => OutcomeMatchesState'
<1> DEFINE Fits(s) ==
             /\ s.result <=> s.state = "Succeeded"
             /\ s.error => s.state \in {"Failed", "Cancelled"}
             /\ s.state = "Failed" => s.error
<1> SUFFICES ASSUME TypeInv, OutcomeMatchesState, [Next]_vars, NEW id \in TaskId
             PROVE  Fits(sessions'[id])
  BY DEF OutcomeMatchesState
<1>1. SessionStep(id) /\ Fits(sessions[id])
  BY StepIsSessionStep DEF OutcomeMatchesState
<1>2. ASSUME NEW r \in Nat PROVE Fits(FreshSession(r))
  BY DEF FreshSession
<1>3. ASSUME NEW to \in States \ {"Queued"}, CanMove(id, to) PROVE Fits(Moved(sessions[id], to))
  <2> DEFINE s == sessions[id]
  <2>1. s \in Session
    BY <1>3, MoverHasSession
  <2>2. /\ Moved(s, to).state = to
        /\ Moved(s, to).result = (s.result \/ to = "Succeeded")
        /\ Moved(s, to).error = (s.error \/ to = "Failed")
    BY <2>1, MovedFields
  <2>3. /\ s.state \in {"Queued", "Running", "Failed"}
        /\ to \in {"Running", "Succeeded", "Failed", "Cancelled"}
        /\ s.state = "Failed" => to = "Cancelled"
    BY <1>3 DEF CanMove, AllowedTransition, States
  <2>4. ~ s.result /\ (s.error => s.state = "Failed")
    BY <1>1, <2>3
  <2> HIDE DEF s
  <2> QED BY <2>2, <2>3, <2>4 DEF s
<1> QED BY <1>1, <1>2, <1>3 DEF SessionStep

(* A session's result and error agree with its state, cancels and          *)
(* resubmissions during the driver's call included (session.rs             *)
(* transition).                                                            *)
THEOREM FabricOutcomeMatchesState == Spec => []OutcomeMatchesState
BY InitOutcomes, StepKeepsOutcomes, TypeInvHolds, PTL DEF Spec

-------------------------------------------------------------------------------
(* A session that becomes Running does so by the hand of a worker, which   *)
(* is then the one to attend it.                                           *)
LEMMA MarkerAttends ==
    ASSUME TypeInv, NEW w \in Workers, MarkRunning(w), NEW id \in TaskId,
           sessions[id].state # "Running", sessions'[id].state = "Running"
    PROVE  proc'[w].id = id /\ InFlight(w)'
<1>1. w \in Threads /\ proc \in [Threads -> Local]
  BY WorkerIsThread DEF TypeInv, TypeOK
<1>2. sessions' # sessions
  OBVIOUS
<1>3. MoveSession(proc[w].id, "Running") /\ Emit(w, "active")
  BY <1>2 DEF MarkRunning
<1>4. proc[w].id = id
  BY <1>3 DEF MoveSession, TypeInv, TypeOK
<1>5. proc'[w].id = proc[w].id /\ proc'[w].pc = "version" /\ proc'[w].kind = "active"
  BY <1>1, <1>3 DEF Emit, Local
<1> QED BY <1>4, <1>5 DEF InFlight

LEMMA InitAttended == Init => RunningIsAttended
<1>1. Init => \A id \in TaskId : sessions[id] = NoSession
  BY DEF Init
<1> QED BY <1>1 DEF RunningIsAttended, NoSession

LEMMA StepKeepsAttended == TypeInv /\ RunningIsAttended /\ [Next]_vars => RunningIsAttended'
<1> SUFFICES ASSUME TypeInv, RunningIsAttended, [Next]_vars,
                    NEW id \in TaskId, sessions'[id].state = "Running"
             PROVE  \/ \E w \in Workers : proc'[w].id = id /\ InFlight(w)'
                    \/ id \in unwound'
  BY DEF RunningIsAttended
<1>1. proc \in [Threads -> Local]
  BY DEF TypeInv, TypeOK
<1>2. CASE sessions[id].state # "Running"
  <2>1. SessionStep(id)
    BY StepIsSessionStep
  <2>2. sessions'[id] # sessions[id]
    BY <1>2
  <2>3. PICK w \in Workers : MarkRunning(w)
    <3>1. CASE \E w \in Workers : MarkRunning(w)
      BY <3>1
    <3>2. ASSUME NEW c \in Clients, ClientNext(c) PROVE sessions'[id].state # "Running"
      <4>1. ASSUME NEW j \in TaskId, NEW p \in SubmitPrio, NEW r \in SubmitRetries, Submit(c, j, p, r)
            PROVE  sessions'[id].state # "Running"
        BY <1>2, <4>1 DEF Submit, FreshSession, TypeInv, TypeOK
      <4>2. CASE CancelMark(c)
        <5>1. PICK j : UNCHANGED sessions \/ (CanMove(j, "Cancelled") /\ MoveSession(j, "Cancelled"))
          BY <4>2 DEF CancelMark
        <5>2. CASE j = id /\ CanMove(j, "Cancelled") /\ MoveSession(j, "Cancelled")
          <6>1. sessions[id] \in Session /\ sessions'[id] = Moved(sessions[id], "Cancelled")
            BY <5>2, MoverHasSession DEF MoveSession, States, TypeInv, TypeOK
          <6> QED BY <6>1, MovedFields DEF States
        <5> QED BY <1>2, <5>1, <5>2 DEF MoveSession, TypeInv, TypeOK
      <4>3. CASE \/ SubmitEnqueue(c) \/ CancelGet(c) \/ StopOrStart(c)
                 \/ \E j \in TaskId : Cancel(c, j)
        BY <1>2, <4>3 DEF SubmitEnqueue, CancelGet, StopOrStart, Cancel
      <4> QED BY <3>2, <4>1, <4>2, <4>3 DEF ClientNext
    <3>3. ASSUME NEW w \in Workers, WorkerNext(w), ~ MarkRunning(w) PROVE sessions'[id].state # "Running"
      <4>1. CASE Finish(w)
        <5> DEFINE j == proc[w].id
        <5>1. PICK to \in {"Succeeded", "Failed"} :
                 UNCHANGED sessions \/ (CanMove(j, to) /\ MoveSession(j, to))
          BY <4>1 DEF Finish
        <5>2. CASE j = id /\ CanMove(j, to) /\ MoveSession(j, to)
          <6>1. sessions[id] \in Session /\ sessions'[id] = Moved(sessions[id], to)
            BY <5>2, MoverHasSession DEF MoveSession, States, TypeInv, TypeOK
          <6> QED BY <6>1, MovedFields DEF States
        <5> QED BY <1>2, <5>1, <5>2 DEF MoveSession, TypeInv, TypeOK
      <4>2. CASE \/ BeginProcess(w) \/ ProcessDequeue(w) \/ Execute(w)
                 \/ RetryCheck(w) \/ RetryEnqueue(w)
        BY <1>2, <4>2 DEF BeginProcess, ProcessDequeue, Execute, RetryCheck, RetryEnqueue
      <4> QED BY <3>3, <4>1, <4>2 DEF WorkerNext
    <3>4. ASSUME NEW t \in Threads, EmitNext(t) PROVE UNCHANGED sessions
      BY <3>4 DEF EmitNext, ReadVersion, AppendEvent
    <3> QED BY <2>2, <3>1, <3>2, <3>3, <3>4 DEF Next, vars
  <2> QED BY <1>2, <2>3, MarkerAttends
<1>3. CASE sessions[id].state = "Running" /\ id \in unwound
  <2>1. ASSUME NEW c \in Clients, NEW j \in TaskId, NEW p \in SubmitPrio, NEW r \in SubmitRetries,
               Submit(c, j, p, r)
        PROVE  j # id
    BY <1>1, <2>1 DEF Submit, FreshSession, TypeInv, TypeOK
  <2>2. ASSUME NEW c \in Clients, ClientNext(c) PROVE id \in unwound'
    BY <1>3, <2>1, <2>2
    DEF ClientNext, Submit, SubmitEnqueue, Cancel, CancelGet, CancelMark, StopOrStart
  <2>3. ASSUME NEW w \in Workers, WorkerNext(w) PROVE id \in unwound'
    BY <1>3, <2>3
    DEF WorkerNext, BeginProcess, ProcessDequeue, MarkRunning, Execute, Finish, RetryCheck, RetryEnqueue
  <2>4. ASSUME NEW t \in Threads, EmitNext(t) PROVE id \in unwound'
    BY <1>3, <2>4 DEF EmitNext, ReadVersion, AppendEvent
  <2> QED BY <1>3, <2>2, <2>3, <2>4 DEF Next, vars
<1>4. CASE sessions[id].state = "Running" /\ id \notin unwound
  <2>1. PICK w \in Workers : proc[w].id = id /\ InFlight(w)
    BY <1>4 DEF RunningIsAttended
  <2>2. w \in Threads
    BY WorkerIsThread
  <2>3. CASE proc'[w] = proc[w]
    BY <2>1, <2>3 DEF InFlight
  <2>4. CASE EmitNext(w)
    <3>1. /\ proc'[w].id = proc[w].id /\ proc'[w].kind = proc[w].kind
          /\ proc'[w].pc \in {"append", "execute"}
      BY <1>1, <2>1, <2>2, <2>4 DEF EmitNext, ReadVersion, AppendEvent, Goto, InFlight, Local
    <3> QED BY <2>1, <3>1 DEF InFlight
  <2>5. CASE Execute(w)
    <3>1. ASSUME NEW ok \in BOOLEAN, proc' = [proc EXCEPT ![w].pc = "finish", ![w].ok = ok]
          PROVE  proc'[w].id = id /\ InFlight(w)'
      <4>1. proc'[w].id = proc[w].id /\ proc'[w].kind = proc[w].kind /\ proc'[w].pc = "finish"
        BY <1>1, <2>2, <3>1 DEF Local
      <4> QED BY <2>1, <4>1 DEF InFlight
    <3>2. CASE unwound' = unwound \cup {proc[w].id}
      BY <2>1, <3>2
    <3> QED BY <2>5, <3>1, <3>2 DEF Execute
  <2>6. CASE Finish(w)
    <3>1. PICK to \in {"Succeeded", "Failed"} :
             (CanMove(id, to) /\ MoveSession(id, to)) \/ ~ CanMove(id, to)
      BY <2>1, <2>6 DEF Finish
    <3>2. \A x \in {"Succeeded", "Failed"} : CanMove(id, x)
      BY <1>4 DEF CanMove, AllowedTransition
    <3>3. PICK x \in {"Succeeded", "Failed"} : MoveSession(id, x)
      BY <2>1, <2>6, <3>2 DEF Finish
    <3>4. sessions[id] \in Session /\ sessions'[id] = Moved(sessions[id], x)
      BY <3>2, <3>3, MoverHasSession DEF MoveSession, States, TypeInv, TypeOK
    <3>5. sessions'[id].state = x
      BY <3>4, MovedFields DEF States
    <3> QED BY <3>5
  <2>7. \/ proc'[w] = proc[w] \/ EmitNext(w) \/ Execute(w) \/ Finish(w)
    <3>1. ASSUME NEW c \in Clients, ClientNext(c) PROVE proc'[w] = proc[w]
      <4>1. c # w /\ c \in Threads
        BY ClientIsNoWorker
      <4> QED
        BY <1>1, <2>2, <3>1, <4>1
        DEF ClientNext, Submit, SubmitEnqueue, Cancel, CancelGet, CancelMark, StopOrStart, Emit, Goto, Return
    <3>2. ASSUME NEW v \in Workers, v # w, WorkerNext(v) PROVE proc'[w] = proc[w]
      BY <1>1, <2>2, <3>2
      DEF WorkerNext, BeginProcess, ProcessDequeue, MarkRunning, Execute, Finish, RetryCheck, RetryEnqueue,
          Emit, Goto, Return
    <3>3. ASSUME NEW t \in Threads, t # w, EmitNext(t) PROVE proc'[w] = proc[w]
      BY <1>1, <2>2, <3>3 DEF EmitNext, ReadVersion, AppendEvent, Goto, ReturnSome, Return
    <3>4. ASSUME WorkerNext(w) PROVE Execute(w) \/ Finish(w)
      <4>1. proc[w].pc \in {"version", "append", "execute", "finish"}
        BY <2>1 DEF InFlight
      <4> QED
        BY <3>4, <4>1
        DEF WorkerNext, BeginProcess, ProcessDequeue, MarkRunning, RetryCheck, RetryEnqueue, At
    <3> QED BY <3>1, <3>2, <3>3, <3>4 DEF Next, vars
  <2> QED BY <2>3, <2>4, <2>5, <2>6, <2>7
<1> QED BY <1>2, <1>3, <1>4

(* No session is Running without a worker on its way to finish it, unless  *)
(* its driver panicked (fabric.rs process_next, between its two            *)
(* transitions).                                                           *)
THEOREM FabricRunningIsAttended == Spec => []RunningIsAttended
BY InitAttended, StepKeepsAttended, TypeInvHolds, PTL DEF Spec

-------------------------------------------------------------------------------
(* Entries.  A worker's entry has left the queue and its seq is in the     *)
(* past, so that neither a retry nor a resubmission can bring an equal one *)
(* back.                                                                   *)
SeqsArePast ==
    \A w \in Workers : proc[w].task # NoEntry => proc[w].task.seq < queue.seq

HeldInv == SoundHeap(queue) /\ SeqsArePast /\ EntryHeldOnce

LEMMA EntriesAre == Entries = EntriesOf(queue.heap)
BY DEF Entries, EntriesOf

(* What a step does to the queue: nothing, one new entry, or one entry     *)
(* fewer.                                                                  *)
QueueStep ==
    \/ queue' = queue
    \/ \E id \in TaskId, p \in Priority, r \in Nat :
          CanEnqueue(queue, id) /\ queue' = Enqueued(queue, id, p, r)
    \/ \E w \in Workers : ProcessDequeue(w) /\ queue.heap # <<>> /\ queue' = Dequeued(queue)
    \/ \E id \in TaskId : MayCancel /\ CanCancel(queue, id) /\ queue' = Cancelled(queue, id)

LEMMA StepIsQueueStep ==
    ASSUME TypeInv, [Next]_vars
    PROVE  QueueStep
<1>1. CASE UNCHANGED queue
  BY <1>1 DEF QueueStep
<1>2. ASSUME NEW c \in Clients, ClientNext(c) PROVE QueueStep
  <2>1. CASE SubmitEnqueue(c)
    <3> DEFINE task == proc[c].task
    <3>1. task \in Entry
      BY <2>1, ClientIsNoWorker DEF SubmitEnqueue, At, TypeInv, TaskKnown
    <3>2. task.id \in TaskId /\ task.prio \in Priority /\ task.retries \in Nat
      BY <3>1 DEF Entry
    <3> QED BY <1>1, <2>1, <3>2 DEF SubmitEnqueue, QueueStep
  <2>2. ASSUME NEW id \in TaskId, Cancel(c, id) PROVE QueueStep
    BY <1>1, <2>2 DEF Cancel, QueueStep
  <2>3. CASE \/ CancelGet(c) \/ CancelMark(c) \/ StopOrStart(c)
             \/ \E id \in TaskId, p \in SubmitPrio, r \in SubmitRetries : Submit(c, id, p, r)
    BY <1>1, <2>3 DEF CancelGet, CancelMark, StopOrStart, Submit
  <2> QED BY <1>2, <2>1, <2>2, <2>3 DEF ClientNext
<1>3. ASSUME NEW w \in Workers, WorkerNext(w) PROVE QueueStep
  <2>1. CASE ProcessDequeue(w)
    <3>1. UNCHANGED queue \/ (queue.heap # <<>> /\ queue' = Dequeued(queue))
      BY <2>1 DEF ProcessDequeue
    <3> QED BY <1>1, <2>1, <3>1 DEF QueueStep
  <2>2. CASE RetryEnqueue(w)
    <3> DEFINE task == proc[w].task
    <3>1. task \in Entry
      BY <2>2 DEF RetryEnqueue, At, TypeInv, WorkerHasTask
    <3>2. task.id \in TaskId /\ Demoted(task.prio) \in Priority /\ task.retries \in Nat
      BY <3>1, PriorityIsEnum DEF Entry, Demoted
    <3> QED BY <1>1, <2>2, <3>2 DEF RetryEnqueue, QueueStep
  <2>3. CASE BeginProcess(w) \/ MarkRunning(w) \/ Execute(w) \/ Finish(w) \/ RetryCheck(w)
    BY <1>1, <2>3 DEF BeginProcess, MarkRunning, Execute, Finish, RetryCheck
  <2> QED BY <1>3, <2>1, <2>2, <2>3 DEF WorkerNext
<1>4. ASSUME NEW t \in Threads, EmitNext(t) PROVE UNCHANGED queue
  BY <1>4 DEF EmitNext, ReadVersion, AppendEvent
<1> QED BY <1>1, <1>2, <1>3, <1>4 DEF Next, vars

(* A worker's entry changes when it takes one out of the queue, and is     *)
(* dropped when its method returns.                                        *)
LEMMA StepIsTaskStep ==
    ASSUME TypeInv, [Next]_vars, NEW w \in Workers
    PROVE  \/ proc'[w].task \in {proc[w].task, NoEntry}
           \/ /\ ProcessDequeue(w) /\ queue.heap # <<>> /\ queue' = Dequeued(queue)
              /\ proc'[w].task = Top(queue)
<1> w \in Threads /\ proc \in [Threads -> Local] /\ proc[w] \in Local
  BY WorkerIsThread DEF TypeInv, TypeOK
<1>1. CASE proc'[w] = proc[w]
  BY <1>1
<1>2. ASSUME NEW c \in Clients, ClientNext(c) PROVE proc'[w] = proc[w]
  <2>1. c # w /\ c \in Threads
    BY ClientIsNoWorker
  <2> QED
    BY <1>2, <2>1
    DEF ClientNext, Submit, SubmitEnqueue, Cancel, CancelGet, CancelMark, StopOrStart, Emit, Goto, Return
<1>3. ASSUME NEW v \in Workers, v # w, WorkerNext(v) PROVE proc'[w] = proc[w]
  BY <1>3
  DEF WorkerNext, BeginProcess, ProcessDequeue, MarkRunning, Execute, Finish, RetryCheck, RetryEnqueue,
      Emit, Goto, Return
<1>4. ASSUME NEW t \in Threads, t # w, EmitNext(t) PROVE proc'[w] = proc[w]
  BY <1>4 DEF EmitNext, ReadVersion, AppendEvent, Goto, ReturnSome, Return
<1>5. AtRest.task = NoEntry
  BY DEF AtRest
<1>6. CASE EmitNext(w)
  <2> DEFINE next == [AtRest EXCEPT !.pc = "dequeue"]
  <2>1. next.task = NoEntry
    BY DEF AtRest
  <2> HIDE DEF next
  <2>2. ASSUME proc' = [proc EXCEPT ![w] = next] PROVE proc'[w].task = NoEntry
    BY <2>1, <2>2
  <2>3. CASE ReadVersion(w)
    BY <2>3 DEF ReadVersion, Local
  <2>4. CASE AppendEvent(w)
    BY <1>5, <2>2, <2>4 DEF AppendEvent, Goto, ReturnSome, Return, Local, next
  <2> QED BY <1>6, <2>3, <2>4 DEF EmitNext
<1>7. CASE ProcessDequeue(w)
  <2>1. CASE Return(w)
    BY <1>5, <2>1 DEF Return
  <2>2. CASE /\ queue.heap # <<>> /\ queue' = Dequeued(queue)
             /\ proc' = [proc EXCEPT ![w].pc = "mark", ![w].task = Top(queue), ![w].id = Top(queue).id]
    <3>1. proc'[w].task = Top(queue)
      BY <2>2 DEF Local
    <3> QED BY <1>7, <2>2, <3>1
  <2> QED BY <1>7, <2>1, <2>2 DEF ProcessDequeue
<1>8. CASE WorkerNext(w) /\ ~ ProcessDequeue(w)
  BY <1>5, <1>8
  DEF WorkerNext, BeginProcess, MarkRunning, Execute, Finish, RetryCheck, RetryEnqueue,
      Emit, Goto, Return, Local
<1> QED BY <1>1, <1>2, <1>3, <1>4, <1>6, <1>7, <1>8 DEF Next, vars

(* Only one worker at a time takes an entry.                               *)
LEMMA TakerIsAlone ==
    ASSUME TypeInv, NEW w \in Workers, ProcessDequeue(w), NEW v \in Workers, v # w
    PROVE  proc'[v] = proc[v]
BY WorkerIsThread DEF ProcessDequeue, Return, TypeInv, TypeOK

LEMMA QueueStepSound ==
    ASSUME TypeInv, SoundHeap(queue), QueueStep
    PROVE  /\ SoundHeap(queue')
           /\ queue'.seq \in Nat /\ queue.seq \in Nat /\ queue.seq <= queue'.seq
           /\ \A e \in Entries' : e \in Entries \/ e.seq = queue.seq
<1>1. queue \in Queue /\ queue.seq \in Nat
  BY DEF TypeInv, TypeOK, Queue
<1>2. CASE queue' = queue
  BY <1>1, <1>2 DEF Entries
<1>3. ASSUME NEW id \in TaskId, NEW p \in Priority, NEW r \in Nat, queue' = Enqueued(queue, id, p, r)
      PROVE  /\ SoundHeap(queue') /\ queue'.seq = queue.seq + 1
             /\ \A e \in Entries' : e \in Entries \/ e.seq = queue.seq
  <2>1. PICK e : e = [id |-> id, prio |-> p, seq |-> queue.seq, retries |-> r]
    OBVIOUS
  <2>2. /\ SoundHeap(queue') /\ queue'.seq = queue.seq + 1
        /\ EntriesOf(queue'.heap) = EntriesOf(queue.heap) \cup {e}
    BY <1>1, <1>3, <2>1, EnqueuedSound
  <2>3. e.seq = queue.seq
    BY <2>1
  <2> QED BY <2>2, <2>3 DEF Entries, EntriesOf
<1>4. CASE queue.heap # <<>> /\ queue' = Dequeued(queue)
  BY <1>1, <1>4, DequeuedSound DEF Entries, EntriesOf
<1>5. ASSUME NEW id \in TaskId, CanCancel(queue, id), queue' = Cancelled(queue, id)
      PROVE  /\ SoundHeap(queue') /\ queue'.seq = queue.seq
             /\ \A e \in Entries' : e \in Entries
  BY <1>1, <1>5, CancelledSound DEF Entries, EntriesOf, CanCancel
<1> QED BY <1>1, <1>2, <1>3, <1>4, <1>5 DEF QueueStep

(* Entries of a heap have numbers of their own.                            *)
LEMMA DistinctInHeap ==
    ASSUME NEW q, SoundHeap(q)
    PROVE  \A i, j \in DOMAIN q.heap : q.heap[i] = q.heap[j] => i = j
BY DEF SoundHeap, HeapOk, Distinct

LEMMA InitHeld == Init => HeldInv
<1> SUFFICES ASSUME Init PROVE HeldInv
  OBVIOUS
<1>1. SoundHeap(queue)
  BY EmptyQueueSound DEF Init
<1>2. \A w \in Workers : proc[w].task = NoEntry
  BY WorkerIsThread DEF Init, AtRest
<1>3. EntryHeldOnce
  BY <1>1, <1>2, DistinctInHeap DEF EntryHeldOnce
<1> QED BY <1>1, <1>2, <1>3 DEF HeldInv, SeqsArePast

LEMMA StepKeepsHeld == TypeInv /\ HeldInv /\ [Next]_vars => HeldInv'
<1> SUFFICES ASSUME TypeInv, HeldInv, [Next]_vars PROVE HeldInv'
  OBVIOUS
<1>1. /\ SoundHeap(queue')
      /\ queue'.seq \in Nat /\ queue.seq \in Nat /\ queue.seq <= queue'.seq
      /\ \A e \in Entries' : e \in Entries \/ e.seq = queue.seq
  BY StepIsQueueStep, QueueStepSound DEF HeldInv
<1>0. (\A i, j \in DOMAIN queue.heap : queue.heap[i] = queue.heap[j] => i = j)'
  BY <1>1, DistinctInHeap
<1>2. \A w \in Workers : proc[w].task # NoEntry =>
         proc[w].task \in Entry /\ proc[w].task.seq \in Nat /\ proc[w].task.seq < queue.seq
  <2> SUFFICES ASSUME NEW w \in Workers, proc[w].task # NoEntry
               PROVE  proc[w].task \in Entry /\ proc[w].task.seq \in Nat /\ proc[w].task.seq < queue.seq
    OBVIOUS
  <2>1. proc[w].task \in Entry
    BY WorkerIsThread DEF TypeInv, TypeOK, Local
  <2> QED BY <2>1, EntryFields DEF HeldInv, SeqsArePast
<1>3. CASE \A w \in Workers : proc'[w].task \in {proc[w].task, NoEntry}
  <2>1. SeqsArePast'
    BY <1>1, <1>2, <1>3 DEF SeqsArePast
  <2>2. EntryHeldOnce'
    <3> SUFFICES ASSUME NEW w \in Workers, proc'[w].task # NoEntry
                 PROVE  /\ proc'[w].task \notin Entries'
                        /\ \A v \in Workers \ {w} : proc'[v].task # proc'[w].task
      BY <1>0 DEF EntryHeldOnce
    <3>1. proc'[w].task = proc[w].task
      BY <1>3
    <3>2. /\ proc[w].task \notin Entries
          /\ \A v \in Workers \ {w} : proc[v].task # proc[w].task
      BY <3>1 DEF HeldInv, EntryHeldOnce
    <3>3. proc[w].task \notin Entries'
      BY <1>1, <1>2, <3>1, <3>2
    <3> QED BY <1>3, <3>1, <3>2, <3>3
  <2> QED BY <1>1, <2>1, <2>2 DEF HeldInv
<1>4. ASSUME NEW w \in Workers, ProcessDequeue(w), queue.heap # <<>>, queue' = Dequeued(queue),
             proc'[w].task = Top(queue)
      PROVE  HeldInv'
  <2> DEFINE e == Top(queue)
  <2>1. /\ e \in Entries /\ Entries' = Entries \ {e} /\ queue'.seq = queue.seq
    BY <1>4, DequeuedSound, EntriesAre DEF HeldInv, TypeInv, TypeOK, Entries, EntriesOf
  <2>2. e.seq < queue.seq
    BY <2>1, EntriesAre DEF HeldInv, SoundHeap
  <2>3. \A v \in Workers : v # w => proc'[v].task = proc[v].task
    BY <1>4, TakerIsAlone
  <2> HIDE DEF e
  <2>4. proc'[w].task = e
    BY <1>4 DEF e
  <2>5. SeqsArePast'
    BY <2>1, <2>2, <2>3, <2>4 DEF HeldInv, SeqsArePast
  <2>6. EntryHeldOnce'
    BY <1>0, <2>1, <2>3, <2>4 DEF HeldInv, EntryHeldOnce
  <2> QED BY <1>1, <2>5, <2>6 DEF HeldInv
<1> QED BY <1>3, <1>4, StepIsTaskStep

LEMMA HeldHolds == Spec => []HeldInv
BY InitHeld, StepKeepsHeld, TypeInvHolds, PTL DEF Spec

(* An accepted entry is at one position of the queue or with one worker,   *)
(* never with two and never in both, cancels through stale positions included (queue.rs   *)
(* dequeue and cancel, raced by several threads).                          *)
THEOREM FabricEntryHeldOnce == Spec => []EntryHeldOnce
BY HeldHolds, PTL DEF HeldInv

-------------------------------------------------------------------------------
(* Without cancels by_id only knows ids that have an entry, and nothing    *)
(* panics under the mutex; a cancel spoils both.  A thread that is about   *)
(* to enqueue holds a task of the id it was called with.                   *)
IndexIsTrue == \A id \in Indexed(queue) : \E e \in Entries : e.id = id

Unspoilt == ~ queue.poisoned /\ IndexIsTrue

TaskIsOfId == \A c \in Clients : At(c, "enqueue") => proc[c].task.id = proc[c].id

KeptInv == Unspoilt /\ TaskIsOfId /\ QueuedIsHeld

(* An entry stays unless a worker takes it.                                *)
LEMMA EntriesStay ==
    ASSUME TypeInv, SoundHeap(queue), ~ MayCancel, QueueStep, NEW e \in Entries
    PROVE  \/ e \in Entries'
           \/ e = Top(queue) /\ queue.heap # <<>> /\ queue' = Dequeued(queue)
<1>1. queue \in Queue
  BY DEF TypeInv, TypeOK
<1>2. ASSUME NEW id \in TaskId, NEW p \in Priority, NEW r \in Nat, queue' = Enqueued(queue, id, p, r)
      PROVE  e \in Entries'
  <2>1. PICK f : f = [id |-> id, prio |-> p, seq |-> queue.seq, retries |-> r]
    OBVIOUS
  <2>2. EntriesOf(queue'.heap) = EntriesOf(queue.heap) \cup {f}
    BY <1>1, <1>2, <2>1, EnqueuedSound
  <2> QED BY <2>2 DEF Entries, EntriesOf
<1>3. ASSUME queue.heap # <<>>, queue' = Dequeued(queue)
      PROVE  e \in Entries' \/ e = Top(queue)
  <2>1. EntriesOf(queue'.heap) = EntriesOf(queue.heap) \ {Top(queue)}
    BY <1>1, <1>3, DequeuedSound
  <2> QED BY <2>1 DEF Entries, EntriesOf
<1> QED BY <1>2, <1>3 DEF QueueStep, Entries

LEMMA StepKeepsUnspoilt ==
    ASSUME TypeInv, SoundHeap(queue), ~ MayCancel, Unspoilt, QueueStep
    PROVE  Unspoilt'
<1>1. queue \in Queue /\ queue.byId \in [TaskId -> Nat]
  BY DEF TypeInv, TypeOK, Queue
<1>2. CASE queue' = queue
  BY <1>2 DEF Unspoilt, IndexIsTrue, Entries
<1>3. ASSUME NEW id \in TaskId, NEW p \in Priority, NEW r \in Nat, queue' = Enqueued(queue, id, p, r)
      PROVE  Unspoilt'
  <2>1. PICK f : f = [id |-> id, prio |-> p, seq |-> queue.seq, retries |-> r]
    OBVIOUS
  <2>2. EntriesOf(queue'.heap) = EntriesOf(queue.heap) \cup {f} /\ f.id = id
    BY <1>1, <1>3, <2>1, EnqueuedSound
  <2>3. queue'.poisoned = queue.poisoned /\ queue'.byId = [queue.byId EXCEPT ![id] = Len(queue.heap) + 1]
    BY <1>1, <1>3 DEF Enqueued, Queue
  <2>4. \A j \in Indexed(queue') : j = id \/ j \in Indexed(queue)
    BY <1>1, <2>3 DEF Indexed
  <2> QED BY <2>2, <2>3, <2>4 DEF Unspoilt, IndexIsTrue, Entries, EntriesOf
<1>4. ASSUME queue.heap # <<>>, queue' = Dequeued(queue) PROVE Unspoilt'
  <2>1. EntriesOf(queue'.heap) = EntriesOf(queue.heap) \ {Top(queue)}
    BY <1>1, <1>4, DequeuedSound
  <2>2. queue'.poisoned = queue.poisoned /\ queue'.byId = [queue.byId EXCEPT ![Top(queue).id] = 0]
    BY <1>1, <1>4 DEF Dequeued, Queue
  <2>3. \A j \in Indexed(queue') : j # Top(queue).id /\ j \in Indexed(queue)
    BY <1>1, <2>2 DEF Indexed
  <2> QED BY <2>1, <2>2, <2>3 DEF Unspoilt, IndexIsTrue, Entries, EntriesOf
<1> QED BY <1>2, <1>3, <1>4 DEF QueueStep

(* A session is Queued because it was before, or has just been submitted.  *)
LEMMA QueuedComesFrom ==
    ASSUME TypeInv, [Next]_vars, NEW id \in TaskId, sessions'[id].state = "Queued"
    PROVE  \/ sessions[id].state = "Queued"
           \/ \E c \in Clients, p \in SubmitPrio, r \in SubmitRetries : Submit(c, id, p, r)
<1>1. CASE UNCHANGED sessions
  BY <1>1
<1>2. ASSUME NEW to \in States \ {"Queued"}, NEW j \in TaskId, CanMove(j, to), MoveSession(j, to)
      PROVE  sessions[id].state = "Queued"
  <2>1. sessions[j] \in Session
    BY <1>2, MoverHasSession
  <2>2. Moved(sessions[j], to).state = to
    BY <1>2, <2>1, MovedFields
  <2> QED BY <1>2, <2>2 DEF MoveSession, TypeInv, TypeOK
<1>3. ASSUME NEW c \in Clients, ClientNext(c)
      PROVE  \/ sessions[id].state = "Queued"
             \/ \E p \in SubmitPrio, r \in SubmitRetries : Submit(c, id, p, r)
  <2>1. ASSUME NEW j \in TaskId, NEW p \in SubmitPrio, NEW r \in SubmitRetries, Submit(c, j, p, r), j # id
        PROVE  sessions[id].state = "Queued"
    BY <2>1 DEF Submit, TypeInv, TypeOK
  <2>2. CASE CancelMark(c)
    <3>1. proc[c].id \in TaskId
      BY <2>2, ClientIsNoWorker DEF CancelMark, At, TypeInv, IdKnown
    <3> QED BY <1>1, <1>2, <2>2, <3>1 DEF CancelMark, States
  <2>3. CASE \/ SubmitEnqueue(c) \/ CancelGet(c) \/ StopOrStart(c)
             \/ \E j \in TaskId : Cancel(c, j)
    BY <1>1, <2>3 DEF SubmitEnqueue, CancelGet, StopOrStart, Cancel
  <2> QED BY <1>3, <2>1, <2>2, <2>3 DEF ClientNext
<1>4. ASSUME NEW w \in Workers, WorkerNext(w) PROVE sessions[id].state = "Queued"
  <2>1. CASE MarkRunning(w)
    <3>1. proc[w].id \in TaskId
      BY <2>1, WorkerIsThread DEF MarkRunning, At, TypeInv, IdKnown
    <3> QED BY <1>1, <1>2, <2>1, <3>1 DEF MarkRunning, States
  <2>2. CASE Finish(w)
    <3>1. proc[w].id \in TaskId
      BY <2>2, WorkerIsThread DEF Finish, At, TypeInv, IdKnown
    <3>2. PICK to \in {"Succeeded", "Failed"} :
             UNCHANGED sessions \/ (CanMove(proc[w].id, to) /\ MoveSession(proc[w].id, to))
      BY <2>2 DEF Finish
    <3> QED BY <1>1, <1>2, <3>1, <3>2 DEF States
  <2>3. CASE \/ BeginProcess(w) \/ ProcessDequeue(w) \/ Execute(w)
             \/ RetryCheck(w) \/ RetryEnqueue(w)
    BY <1>1, <2>3 DEF BeginProcess, ProcessDequeue, Execute, RetryCheck, RetryEnqueue
  <2> QED BY <1>4, <2>1, <2>2, <2>3 DEF WorkerNext
<1>5. ASSUME NEW t \in Threads, EmitNext(t) PROVE UNCHANGED sessions
  BY <1>5 DEF EmitNext, ReadVersion, AppendEvent
<1> QED BY <1>1, <1>3, <1>4, <1>5 DEF Next, vars

(* What a thread is doing only changes by its own steps.                   *)
LEMMA ClientMovesItself ==
    ASSUME proc \in [Threads -> Local], NEW t \in Threads, NEW c \in Clients, c # t, ClientNext(c)
    PROVE  proc'[t] = proc[t]
<1>1. c \in Threads
  BY ClientIsNoWorker
<1> QED
  BY <1>1
  DEF ClientNext, Submit, SubmitEnqueue, Cancel, CancelGet, CancelMark, StopOrStart, Emit, Goto, Return

LEMMA WorkerMovesItself ==
    ASSUME proc \in [Threads -> Local], NEW t \in Threads, NEW w \in Workers, w # t, WorkerNext(w)
    PROVE  proc'[t] = proc[t]
<1>1. w \in Threads
  BY WorkerIsThread
<1> QED
  BY <1>1
  DEF WorkerNext, BeginProcess, ProcessDequeue, MarkRunning, Execute, Finish, RetryCheck, RetryEnqueue,
      Emit, Goto, Return

LEMMA EmitterMovesItself ==
    ASSUME proc \in [Threads -> Local], NEW t \in Threads, NEW u \in Threads, u # t, EmitNext(u)
    PROVE  proc'[t] = proc[t]
BY DEF EmitNext, ReadVersion, AppendEvent, Goto, ReturnSome, Return

(* A thread that holds an id before its enqueue, or after its dequeue,     *)
(* holds it until it takes that step.                                      *)
LEMMA HolderHolds ==
    ASSUME TypeInv, [Next]_vars, NEW t \in Threads, proc[t].pc \in {"enqueue", "mark"}
    PROVE  \/ proc'[t] = proc[t]
           \/ t \in Clients /\ SubmitEnqueue(t)
           \/ t \in Workers /\ MarkRunning(t)
<1>0. proc \in [Threads -> Local]
  BY DEF TypeInv, TypeOK
<1>1. ASSUME t \in Clients, ClientNext(t) PROVE SubmitEnqueue(t)
  BY <1>1 DEF ClientNext, Submit, Cancel, CancelGet, CancelMark, StopOrStart, ClientCall, At
<1>2. ASSUME t \in Workers, WorkerNext(t) PROVE MarkRunning(t)
  BY <1>2
  DEF WorkerNext, BeginProcess, ProcessDequeue, Execute, Finish, RetryCheck, RetryEnqueue, At
<1>3. ~ EmitNext(t)
  BY DEF EmitNext, ReadVersion, AppendEvent, At
<1> QED
  BY <1>0, <1>1, <1>2, <1>3, ClientMovesItself, WorkerMovesItself, EmitterMovesItself DEF Next, vars

LEMMA StepKeepsTaskIsOfId ==
    ASSUME TypeInv, TaskIsOfId, [Next]_vars
    PROVE  TaskIsOfId'
<1> SUFFICES ASSUME NEW c \in Clients, proc'[c].pc = "enqueue" PROVE proc'[c].task.id = proc'[c].id
  BY DEF TaskIsOfId, At
<1> c \in Threads /\ c \notin Workers /\ proc \in [Threads -> Local] /\ proc[c] \in Local
  BY ClientIsNoWorker DEF TypeInv, TypeOK
<1>1. CASE proc'[c] = proc[c]
  BY <1>1 DEF TaskIsOfId, At
<1>2. ASSUME ClientNext(c) PROVE proc'[c].task.id = proc'[c].id
  <2>1. ASSUME NEW id \in TaskId, NEW p \in SubmitPrio, NEW r \in SubmitRetries, Submit(c, id, p, r)
        PROVE  proc'[c].task.id = proc'[c].id
    BY <2>1 DEF Submit, Local
  <2>2. CASE SubmitEnqueue(c) \/ CancelGet(c) \/ CancelMark(c)
    <3>1. proc'[c].pc # "enqueue"
      BY <2>2 DEF SubmitEnqueue, CancelGet, CancelMark, Emit, Goto, Return, AtRest, Local
    <3> QED BY <3>1
  <2>3. ASSUME NEW id \in TaskId, Cancel(c, id) PROVE proc'[c].task.id = proc'[c].id
    <3>1. UNCHANGED proc \/ proc'[c].pc # "enqueue"
      BY <2>3 DEF Cancel, Local
    <3> QED BY <1>1, <3>1
  <2>4. CASE StopOrStart(c)
    BY <1>1, <2>4 DEF StopOrStart
  <2> QED BY <1>2, <2>1, <2>2, <2>3, <2>4 DEF ClientNext
<1>3. ASSUME EmitNext(c) PROVE FALSE
  <2> DEFINE next == [AtRest EXCEPT !.pc = "dequeue"]
             said == [proc[c] EXCEPT !.pc = "execute"]
  <2>1. next.pc = "dequeue" /\ AtRest.pc = "idle" /\ said.pc = "execute"
    BY DEF AtRest, Local
  <2>2. ReadVersion(c) => proc'[c].pc = "append"
    BY DEF ReadVersion, Local
  <2>3. AppendEvent(c) => proc'[c] \in {next, said, AtRest}
    BY DEF AppendEvent, Goto, ReturnSome, Return
  <2> HIDE DEF next, said
  <2> QED BY <1>3, <2>1, <2>2, <2>3 DEF EmitNext
<1> QED
  BY <1>1, <1>2, <1>3, ClientMovesItself, WorkerMovesItself, EmitterMovesItself DEF Next, vars

LEMMA InitKept == Init => KeptInv
<1> SUFFICES ASSUME Init PROVE KeptInv
  OBVIOUS
<1>1. ~ queue.poisoned /\ Indexed(queue) = {}
  BY DEF Init, EmptyQueue, Indexed
<1>2. TaskIsOfId
  BY ClientIsNoWorker DEF Init, AtRest, TaskIsOfId, At
<1>3. QueuedIsHeld
  BY DEF Init, NoSession, QueuedIsHeld
<1> QED BY <1>1, <1>2, <1>3 DEF KeptInv, Unspoilt, IndexIsTrue

LEMMA StepKeepsKept ==
    ASSUME ~ MayCancel
    PROVE  TypeInv /\ HeldInv /\ KeptInv /\ [Next]_vars => KeptInv'
<1> SUFFICES ASSUME TypeInv, HeldInv, KeptInv, [Next]_vars PROVE KeptInv'
  OBVIOUS
<1>1. QueueStep /\ SoundHeap(queue) /\ Unspoilt /\ queue \in Queue
  BY StepIsQueueStep DEF HeldInv, KeptInv, TypeInv, TypeOK
<1>2. Unspoilt' /\ TaskIsOfId'
  BY <1>1, StepKeepsUnspoilt, StepKeepsTaskIsOfId DEF KeptInv
<1>3. proc \in [Threads -> Local]
  BY DEF TypeInv, TypeOK
<1>4. ASSUME NEW id \in TaskId, sessions'[id].state = "Queued"
      PROVE  \/ \E e \in Entries' : e.id = id
             \/ \E c \in Clients : proc'[c].pc = "enqueue" /\ proc'[c].id = id
             \/ \E w \in Workers : proc'[w].pc = "mark" /\ proc'[w].id = id
  <2>1. ASSUME NEW c \in Clients, NEW p \in SubmitPrio, NEW r \in SubmitRetries, Submit(c, id, p, r)
        PROVE  proc'[c].pc = "enqueue" /\ proc'[c].id = id
    BY <1>3, <2>1, ClientIsNoWorker DEF Submit, Local
  <2>2. ASSUME NEW e \in Entries, e.id = id
        PROVE  \/ \E f \in Entries' : f.id = id
               \/ \E w \in Workers : proc'[w].pc = "mark" /\ proc'[w].id = id
    <3>1. CASE e \in Entries'
      BY <2>2, <3>1
    <3>2. CASE e = Top(queue) /\ queue.heap # <<>> /\ queue' = Dequeued(queue) /\ e \notin Entries'
      <4>1. queue' # queue
        BY <2>2, <3>2 DEF Entries
      <4>2. PICK w \in Workers : ProcessDequeue(w)
        <5>1. ~ (\E j \in TaskId, p \in Priority, r \in Nat : queue' = Enqueued(queue, j, p, r))
          <6>0. SUFFICES ASSUME NEW j \in TaskId, NEW p \in Priority, NEW r \in Nat,
                                queue' = Enqueued(queue, j, p, r)
                         PROVE  FALSE
            OBVIOUS
          <6>1. queue.seq \in Nat /\ queue'.seq = queue.seq
            BY <1>1, <3>2, DequeuedSound DEF Queue
          <6>2. queue'.seq = queue.seq + 1
            <7>1. PICK f : f = [id |-> j, prio |-> p, seq |-> queue.seq, retries |-> r]
              OBVIOUS
            <7> QED BY <1>1, <6>0, <7>1, EnqueuedSound
          <6> QED BY <6>1, <6>2
        <5> QED BY <1>1, <4>1, <5>1 DEF QueueStep
      <4>3. proc' = [proc EXCEPT ![w].pc = "mark", ![w].task = Top(queue), ![w].id = Top(queue).id]
        BY <4>1, <4>2 DEF ProcessDequeue
      <4>4. proc'[w].pc = "mark" /\ proc'[w].id = id
        BY <1>3, <2>2, <3>2, <4>3, WorkerIsThread DEF Local
      <4> QED BY <4>4
    <3> QED BY <1>1, <2>2, <3>1, <3>2, EntriesStay
  <2>3. ASSUME NEW c \in Clients, proc[c].pc = "enqueue", proc[c].id = id
        PROVE  \/ \E f \in Entries' : f.id = id
               \/ proc'[c].pc = "enqueue" /\ proc'[c].id = id
    <3>1. CASE proc'[c] = proc[c]
      BY <2>3, <3>1
    <3>2. CASE SubmitEnqueue(c)
      <4> DEFINE task == proc[c].task
      <4>1. task \in Entry /\ task.id = id
        BY <2>3, ClientIsNoWorker DEF TypeInv, TaskKnown, KeptInv, TaskIsOfId, At
      <4>2. task.id \in TaskId /\ task.prio \in Priority /\ task.retries \in Nat
        BY <4>1 DEF Entry
      <4>3. CASE CanEnqueue(queue, task.id)
        <5>1. queue' = Enqueued(queue, task.id, task.prio, task.retries)
          BY <3>2, <4>3 DEF SubmitEnqueue
        <5>2. PICK i \in TaskId, p \in Priority, r \in Nat : queue' = Enqueued(queue, i, p, r) /\ i = id
          BY <4>1, <4>2, <5>1
        <5>3. PICK f : f = [id |-> i, prio |-> p, seq |-> queue.seq, retries |-> r]
          OBVIOUS
        <5>4. EntriesOf(queue'.heap) = EntriesOf(queue.heap) \cup {f} /\ f.id = id
          BY <1>1, <5>2, <5>3, EnqueuedSound
        <5> QED BY <5>4 DEF Entries, EntriesOf
      <4>4. CASE ~ CanEnqueue(queue, task.id)
        <5>1. id \in Indexed(queue) /\ queue' = queue
          BY <1>1, <3>2, <4>1, <4>4 DEF CanEnqueue, Unspoilt, SubmitEnqueue
        <5> QED BY <1>1, <5>1 DEF Unspoilt, IndexIsTrue, Entries
      <4> QED BY <4>3, <4>4
    <3> QED BY <2>3, <3>1, <3>2, HolderHolds, ClientIsNoWorker
  <2>4. ASSUME NEW w \in Workers, proc[w].pc = "mark", proc[w].id = id
        PROVE  proc'[w].pc = "mark" /\ proc'[w].id = id
    <3>1. CASE proc'[w] = proc[w]
      BY <2>4, <3>1
    <3>2. CASE MarkRunning(w)
      <4>1. CASE CanMove(id, "Running") /\ MoveSession(id, "Running")
        <5>1. sessions[id] \in Session /\ sessions'[id] = Moved(sessions[id], "Running")
          BY <4>1, MoverHasSession DEF MoveSession, States, TypeInv, TypeOK
        <5>2. sessions'[id].state = "Running"
          BY <5>1, MovedFields DEF States
        <5> QED BY <1>4, <5>2
      <4>2. CASE ~ CanMove(id, "Running") /\ UNCHANGED sessions
        BY <1>4, <4>2 DEF CanMove, AllowedTransition
      <4> QED BY <2>4, <3>2, <4>1, <4>2 DEF MarkRunning
    <3>3. w \in Threads /\ w \notin Clients
      BY WorkerIsThread, ClientIsNoWorker
    <3> QED BY <2>4, <3>1, <3>2, <3>3, HolderHolds
  <2>5. CASE sessions[id].state = "Queued"
    BY <2>2, <2>3, <2>4, <2>5 DEF KeptInv, QueuedIsHeld, At
  <2> QED BY <1>4, <2>1, <2>5, QueuedComesFrom
<1>5. QueuedIsHeld'
  BY <1>4 DEF QueuedIsHeld, At
<1> QED BY <1>2, <1>5 DEF KeptInv

(* While nobody cancels, a Queued session is in the queue or in the hands  *)
(* of a thread that puts it there or has taken it out, and an accepted     *)
(* entry is in one place (fabric.rs submit, process_next).  With cancels   *)
(* the second part is all that is left: a stale position may cost another  *)
(* task its entry, and a panic the queue.                                  *)
THEOREM FabricNoTaskLost ==
    ASSUME ~ MayCancel
    PROVE  Spec => []NoTaskLost
<1>1. TypeInv /\ HeldInv /\ KeptInv /\ [Next]_vars => KeptInv'
  BY StepKeepsKept
<1>2. HeldInv /\ KeptInv => NoTaskLost
  BY DEF HeldInv, KeptInv, NoTaskLost
<1> QED BY <1>1, <1>2, InitKept, HeldHolds, TypeInvHolds, PTL DEF Spec
===============================================================================
