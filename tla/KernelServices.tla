--------------------------- MODULE KernelServices ---------------------------
(***************************************************************************)
(* The services of the micro-kernel (crates/core) that several threads     *)
(* share: the scheduler of background jobs, the message passing between    *)
(* endpoints and the publish/subscribe event manager.  A mutex protects    *)
(* each map, so a step is what one thread does under one lock.             *)
(***************************************************************************)
EXTENDS Naturals, Sequences, Absent

CONSTANTS Job,          \* ids of scheduler tasks
          Endpoint,     \* ids of IPC endpoints
          Sender,       \* threads that send
          Topic,        \* event topics
          Subscriber,   \* ids of subscriptions
          MaxMessages   \* bound: messages accepted, events published

ASSUME ServicesAssumption == MaxMessages \in Nat

VARIABLES
    jobs,       \* SimpleScheduler.inner: job -> status; "Unknown" is no entry
    thread,     \* what the thread of a job does
    endpoints,  \* InMemoryIpc.endpoints
    mailboxes,  \* InMemoryIpc.mailboxes: endpoint -> messages; no entry is <<>>
    sending,    \* the target a sender has found registered
    accepted,   \* history: what was pushed for an endpoint, in order
    received,   \* history: what receive returned, in order
    events,     \* InMemoryEventManager.events: the topics published
    subscribers,\* InMemoryEventManager.subscribers: subscription -> topic
    polling,    \* the topic a poll has copied out of the subscribers
    polled,     \* history: how long the list was that the last poll returned
    drawn       \* history: the endpoint and subscription ids given out

schedulerVars == <<jobs, thread>>
ipcVars == <<endpoints, mailboxes, sending, accepted, received>>
eventVars == <<events, subscribers, polling, polled>>
servicesVars == <<schedulerVars, ipcVars, eventVars, drawn>>

JobStatus == {"Unknown", "Pending", "Running", "Completed", "Cancelled"}

ServicesInit ==
    /\ jobs = [j \in Job |-> "Unknown"] /\ thread = [j \in Job |-> "none"]
    /\ endpoints = {}
    /\ mailboxes = [e \in Endpoint |-> <<>>]
    /\ sending = [s \in Sender |-> Nothing]
    /\ accepted = [e \in Endpoint |-> <<>>] /\ received = [e \in Endpoint |-> <<>>]
    /\ events = <<>>
    /\ subscribers = [s \in Subscriber |-> Nothing]
    /\ polling = [s \in Subscriber |-> Nothing]
    /\ polled = [s \in Subscriber |-> 0]
    /\ drawn = {}

-----------------------------------------------------------------------------
(* SimpleScheduler: one thread per job.  TaskStatus::Failed is never set.  *)

Spawn(j) ==
    /\ jobs[j] = "Unknown"
    /\ jobs' = [jobs EXCEPT ![j] = "Running"]
    /\ thread' = [thread EXCEPT ![j] = "body"]

ScheduleAfter(j) ==
    /\ jobs[j] = "Unknown"
    /\ jobs' = [jobs EXCEPT ![j] = "Pending"]
    /\ thread' = [thread EXCEPT ![j] = "asleep"]

(* After the delay: a cancelled job ends without running its task.         *)
Wake(j) ==
    /\ thread[j] = "asleep"
    /\ IF jobs[j] = "Cancelled"
       THEN thread' = [thread EXCEPT ![j] = "ended"] /\ UNCHANGED jobs
       ELSE /\ jobs' = [jobs EXCEPT ![j] = "Running"]
            /\ thread' = [thread EXCEPT ![j] = "body"]

(* Mutants of TaskReturns: no look at the status, and no last status.      *)
TaskReturnsAlways(j) ==
    /\ thread[j] = "body"
    /\ jobs' = [jobs EXCEPT ![j] = "Completed"]
    /\ thread' = [thread EXCEPT ![j] = "ended"]
TaskReturnsSilently(j) ==
    thread[j] = "body" /\ thread' = [thread EXCEPT ![j] = "ended"] /\ UNCHANGED jobs

TaskReturns(j) ==
    /\ thread[j] = "body"
    /\ jobs' = [jobs EXCEPT ![j] = IF @ = "Cancelled" THEN @ ELSE "Completed"]
    /\ thread' = [thread EXCEPT ![j] = "ended"]

(* A task that panics unwinds its thread: nobody writes a status.          *)
TaskPanics(j) ==
    /\ thread[j] = "body"
    /\ thread' = [thread EXCEPT ![j] = "panicked"]
    /\ UNCHANGED jobs

CancelJob(j) ==
    /\ jobs[j] \in {"Pending", "Running"}
    /\ jobs' = [jobs EXCEPT ![j] = "Cancelled"]
    /\ UNCHANGED thread

RunningCount == {j \in Job : jobs[j] = "Running"}

SchedulerNext ==
    \E j \in Job : \/ Spawn(j) \/ ScheduleAfter(j) \/ Wake(j)
                   \/ TaskReturns(j) \/ TaskPanics(j) \/ CancelJob(j)

-----------------------------------------------------------------------------
(* InMemoryIpc: send looks the endpoint up and pushes under two locks.     *)

RegisterEndpoint(e) ==
    /\ e \notin drawn /\ drawn' = drawn \cup {e}     \* a fresh Ulid
    /\ endpoints' = endpoints \cup {e}
    /\ UNCHANGED <<mailboxes, sending, accepted, received>>

(* The mailbox of the endpoint stays where it is.                          *)
UnregisterEndpoint(e) ==
    /\ e \in endpoints
    /\ endpoints' = endpoints \ {e}
    /\ UNCHANGED <<mailboxes, sending, accepted, received, drawn>>

SendLookup(s, e) ==
    /\ sending[s] = Nothing
    /\ e \in endpoints
    /\ sending' = [sending EXCEPT ![s] = e]
    /\ UNCHANGED <<endpoints, mailboxes, accepted, received, drawn>>

SendPush(s) ==
    LET e == sending[s]
    IN  /\ e # Nothing
        /\ Len(accepted[e]) < MaxMessages
        /\ mailboxes' = [mailboxes EXCEPT ![e] = Append(@, s)]
        /\ accepted' = [accepted EXCEPT ![e] = Append(@, s)]
        /\ sending' = [sending EXCEPT ![s] = Nothing]
        /\ UNCHANGED <<endpoints, received, drawn>>

(* Mutant of Receive: the mailbox is copied, not taken.                    *)
ReceiveCopies(e) ==
    /\ mailboxes[e] # <<>>
    /\ received' = [received EXCEPT ![e] = @ \o mailboxes[e]]
    /\ UNCHANGED <<endpoints, mailboxes, sending, accepted, drawn>>

Receive(e) ==
    /\ mailboxes[e] # <<>>
    /\ received' = [received EXCEPT ![e] = @ \o mailboxes[e]]
    /\ mailboxes' = [mailboxes EXCEPT ![e] = <<>>]
    /\ UNCHANGED <<endpoints, sending, accepted, drawn>>

IpcNext ==
    \/ \E e \in Endpoint : RegisterEndpoint(e) \/ UnregisterEndpoint(e) \/ Receive(e)
    \/ \E s \in Sender : SendPush(s) \/ \E e \in Endpoint : SendLookup(s, e)

-----------------------------------------------------------------------------
(* InMemoryEventManager: a poll copies the topic under one lock and reads  *)
(* the whole list of events under another.                                 *)

OnTopic(t) == SelectSeq(events, LAMBDA e : e = t)

Publish(t) ==
    /\ Len(events) < MaxMessages
    /\ events' = Append(events, t)
    /\ UNCHANGED <<subscribers, polling, polled, drawn>>

Subscribe(s, t) ==
    /\ s \notin drawn /\ drawn' = drawn \cup {s}     \* a fresh Ulid
    /\ subscribers' = [subscribers EXCEPT ![s] = t]
    /\ UNCHANGED <<events, polling, polled>>

Unsubscribe(s) ==
    /\ subscribers[s] # Nothing
    /\ subscribers' = [subscribers EXCEPT ![s] = Nothing]
    /\ UNCHANGED <<events, polling, polled, drawn>>

PollTopic(s) ==
    /\ polling[s] = Nothing /\ subscribers[s] # Nothing
    /\ polling' = [polling EXCEPT ![s] = subscribers[s]]
    /\ UNCHANGED <<events, subscribers, polled, drawn>>

PollEvents(s) ==
    /\ polling[s] # Nothing
    /\ polled' = [polled EXCEPT ![s] = Len(OnTopic(polling[s]))]
    /\ polling' = [polling EXCEPT ![s] = Nothing]
    /\ UNCHANGED <<events, subscribers, drawn>>

EventManagerNext ==
    \/ \E t \in Topic : Publish(t)
    \/ \E s \in Subscriber : \/ Unsubscribe(s) \/ PollTopic(s) \/ PollEvents(s)
                             \/ \E t \in Topic : Subscribe(s, t)

-----------------------------------------------------------------------------
(* The three services share nothing but the supply of fresh ids.           *)
ServicesNext ==
    \/ SchedulerNext /\ UNCHANGED <<ipcVars, eventVars, drawn>>
    \/ IpcNext /\ UNCHANGED <<schedulerVars, eventVars>>
    \/ EventManagerNext /\ UNCHANGED <<schedulerVars, ipcVars>>

ServicesSpec == ServicesInit /\ [][ServicesNext]_servicesVars

-----------------------------------------------------------------------------
(* A cancelled job stays cancelled although its thread finishes later, it  *)
(* never starts once it was cancelled in its delay, and a job that counts  *)
(* as running has a thread in its task, or one that panicked there: such a *)
(* job is in running_count for ever (scheduler.rs, cancel against the last *)
(* set_status).                                                            *)
SchedulerHonest ==
    [][/\ \A j \in Job : jobs[j] = "Cancelled" =>
             jobs'[j] = "Cancelled" /\ (thread[j] = "asleep" => thread'[j] # "body")
       /\ \A j \in RunningCount' : thread'[j] \in {"body", "panicked"}]_servicesVars

(* Whatever senders, receivers and registrations do at the same time, what *)
(* an endpoint has received and what waits in its mailbox are together all *)
(* that send accepted for it, each once and in order, even when the        *)
(* endpoint was unregistered between the lookup and the push of send.      *)
AcceptedOnceInOrder ==
    \A e \in Endpoint : received[e] \o mailboxes[e] = accepted[e]

(* A delayed job does not stay Pending, and a job stays Running only by a  *)
(* panic: every other thread reaches the line that writes its last status. *)
JobsSettle ==
    \A j \in Job : jobs[j] \in {"Pending", "Running"}
                    ~> jobs[j] \notin {"Pending", "Running"} \/ thread[j] = "panicked"
=============================================================================
