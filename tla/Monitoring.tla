----------------------------- MODULE Monitoring -----------------------------
(***************************************************************************)
(* MonitoringEngine and its seven watchers (crates/monitoring): pollers,   *)
(* the agent's tick and background threads, take the watchers that are     *)
(* due under the lock, poll each under the lock again and report what      *)
(* changed outside it.  One subject per watcher; what the world answers is *)
(* one of two values, a list of advisories, or an error.                   *)
(***************************************************************************)
EXTENDS Naturals, Sequences, FiniteSets, Functions, SequencesExt, Absent

CONSTANTS Registered,      \* bound: the registrations tried, each a sequence of kinds
          Threads,         \* background threads that may be spawned
          Cve, Severe,     \* advisories; those of high or critical severity
          Alerts,          \* health snapshots that raised alerts
          MaxPolls         \* bound: polls of watchers

ASSUME MonitoringAssumption ==
    Severe \subseteq Cve /\ Alerts \in Nat /\ MaxPolls \in Nat /\ "tick" \notin Threads

VARIABLES watchers, \* what was registered, in order
          due,      \* watchers whose interval has passed since last_poll
          recorded, \* the value a watcher compares the next answer with
          known,    \* known_cves, the labels of the cve_record objects
          threats,  \* known_threats
          snapshots,\* the values of the organization_snapshot objects
          active, poller,
          emitted,  \* monitoring changes stored: type and subject -> number
          lost,     \* history: changes that were never stored
          moves,    \* history: times a recorded value was replaced by another
          polls

monitoringVars == <<watchers, due, recorded, known, threats, snapshots, active, poller, emitted, lost, moves, polls>>

Kinds == {"repository", "onion", "api", "organization", "package", "cve", "threat"}
Comparing == {"package", "api", "onion"}
Status == {"v1", "v2"}
Pollers == Threads \cup {"tick"}
Change(type, about) == <<type, about>>
Changes == {"initial", "moved", "no_change", "poll_failed", "reachable", "unreachable", "updated",
            "feed_polled", "feed_failed", "new_advisory", "high_severity_cve",
            "multiple_unreachable", "system_alert"} \X (Kinds \cup Cve)
Idle == [at |-> "idle", todo |-> <<>>, changes |-> <<>>]
Ended == [Idle EXCEPT !.at = "ended"]

(* What init of the watchers leaves to be compared with.                   *)
AtStart == [package |-> Nothing, api |-> "pending", onion |-> "active"]

(* register: every watcher is registered, initialised and due.             *)
MonitoringInit ==
    /\ watchers \in Registered /\ due = Range(watchers)
    /\ recorded = AtStart
    /\ known = {} /\ threats = {} /\ snapshots = {}
    /\ active = FALSE
    /\ poller = [p \in Pollers |-> IF p = "tick" THEN Idle ELSE Ended]
    /\ emitted = [c \in Changes |-> 0] /\ lost = emitted
    /\ moves = [w \in Comparing |-> 0] /\ polls = 0

Elapse(w) ==
    w \in Range(watchers) \ due /\ due' = due \cup {w}
    /\ UNCHANGED <<watchers, recorded, known, threats, snapshots, active, poller, emitted, lost, moves, polls>>

StartBackground(p) ==
    /\ p \in Threads /\ poller[p] = Ended
    /\ active' = TRUE /\ poller' = [poller EXCEPT ![p] = Idle]
    /\ UNCHANGED <<watchers, due, recorded, known, threats, snapshots, emitted, lost, moves, polls>>

StopBackground ==
    active /\ active' = FALSE
    /\ UNCHANGED <<watchers, due, recorded, known, threats, snapshots, poller, emitted, lost, moves, polls>>

(* The agent's tick or the turn of a thread: the list of what is due.  A   *)
(* thread that finds the flag cleared ends, a later start spawns another.  *)
ListDue(p) ==
    /\ poller[p].at = "idle"
    /\ poller' = [poller EXCEPT ![p] =
          IF p \in Threads /\ ~ active THEN Ended
          ELSE [at |-> "listed", todo |-> SelectSeq(watchers, LAMBDA w : w \in due), changes |-> <<>>]]
    /\ UNCHANGED <<watchers, due, recorded, known, threats, snapshots, active, emitted, lost, moves, polls>>

-----------------------------------------------------------------------------
(* What poll of each watcher reports and records.                          *)

(* The engine's part: last_poll is set and the changes are taken out of    *)
(* the lock.                                                               *)
Took(p, w, changes) ==
    /\ due' = due \ {w}
    /\ poller' = [poller EXCEPT ![p] = [at |-> IF changes = <<>> THEN "listed" ELSE "emitting",
                                        todo |-> Tail(@.todo), changes |-> changes]]
    /\ polls' = polls + 1
    /\ UNCHANGED <<watchers, active, emitted, lost>>

(* Package, api and onion: the answer is compared with what was recorded.  *)
Verdict(w, answer) ==
    CASE answer = Nothing -> "poll_failed"
      [] recorded[w] = Nothing -> "initial"
      [] recorded[w] = answer -> "no_change"
      [] OTHER -> "moved"
PollComparing(p, w, answer) ==
    /\ Took(p, w, <<Change(Verdict(w, answer), w)>>)
    /\ recorded' = IF answer = Nothing THEN recorded ELSE [recorded EXCEPT ![w] = answer]
    /\ moves' = [moves EXCEPT ![w] = @ + (IF Verdict(w, answer) = "moved" THEN 1 ELSE 0)]
    /\ UNCHANGED <<known, threats, snapshots>>

PollPackage(p, answer) == PollComparing(p, "package", answer)
PollApi(p, answer) == PollComparing(p, "api", answer)
PollOnion(p, answer) == PollComparing(p, "onion", answer)

(* A repository has no recorded state.                                     *)
PollRepository(p, answer) ==
    /\ Took(p, "repository", <<Change(CASE answer = Nothing -> "poll_failed"
                                        [] answer = "v1" -> "reachable"
                                        [] OTHER -> "unreachable", "repository")>>)
    /\ UNCHANGED <<recorded, known, threats, snapshots, moves>>

(* The counts of the event store, compared with one of the snapshots, the  *)
(* first of an unordered map.                                              *)
PollOrganization(p, counts) ==
    /\ \E type \in IF snapshots = {} THEN {"initial"}
                   ELSE {IF s = counts THEN "no_change" ELSE "updated" : s \in snapshots} :
          Took(p, "organization", <<Change(type, "organization")>>)
    /\ snapshots' = snapshots \cup {counts}
    /\ UNCHANGED <<recorded, known, threats, moves>>

(* Mutant of NewOnes: known_cves is not looked up.                         *)
NewOnesForgetful(list) == SetToSeq(Range(list))

(* Each advisory of a feed is looked up and recorded before the next.      *)
WithNew(new, c) == IF c \in known \cup Range(new) THEN new ELSE Append(new, c)
NewOnes(list) ==
    LET new[n \in 0..Len(list)] == IF n = 0 THEN <<>> ELSE WithNew(new[n - 1], list[n])
    IN  new[Len(list)]
Announce(type, list) == [n \in DOMAIN list |-> Change(type, list[n])]
Feeds == UNION {[1..n -> Cve] : n \in 0..2}
PollFeed(p, answer) ==
    /\ IF answer = Nothing
       THEN Took(p, "cve", <<Change("feed_failed", "cve")>>) /\ known' = known
       ELSE /\ Took(p, "cve", Append(Announce("new_advisory", NewOnes(answer)),
                                     Change("feed_polled", "cve")))
            /\ known' = known \cup Range(answer)
    /\ UNCHANGED <<recorded, threats, snapshots, moves>>

(* The threats: severe advisories not reported yet, in any order, and, at  *)
(* every poll again, that some poll failed and that an alert was raised.   *)
PollThreats(p) ==
    /\ \E severe \in SetToSeqs((known \cap Severe) \ threats) :
          Took(p, "threat",
               Announce("high_severity_cve", severe)
               \o (IF \E w \in Kinds : emitted[Change("poll_failed", w)] > 0
                   THEN <<Change("multiple_unreachable", "threat")>> ELSE <<>>)
               \o [n \in 1..Alerts |-> Change("system_alert", "threat")])
    /\ threats' = threats \cup (known \cap Severe)
    /\ UNCHANGED <<recorded, known, snapshots, moves>>

(* The next of the list is polled, whether or not another poller has done  *)
(* so since the list was made.                                             *)
PollNext(p) ==
    /\ poller[p].at = "listed" /\ poller[p].todo # <<>> /\ polls < MaxPolls
    /\ LET w == Head(poller[p].todo)
       IN  \/ \E answer \in Status \cup {Nothing} :
                 \/ w = "package" /\ PollPackage(p, answer)
                 \/ w = "api" /\ PollApi(p, answer)
                 \/ w = "onion" /\ PollOnion(p, answer)
                 \/ w = "repository" /\ PollRepository(p, answer)
           \/ \E counts \in Status : w = "organization" /\ PollOrganization(p, counts)
           \/ \E answer \in Feeds \cup {Nothing} :
                 w = "cve" /\ PollFeed(p, answer)
           \/ w = "threat" /\ PollThreats(p)

ListDone(p) ==
    /\ poller[p].at = "listed" /\ poller[p].todo = <<>>
    /\ poller' = [poller EXCEPT ![p] = Idle]
    /\ UNCHANGED <<watchers, due, recorded, known, threats, snapshots, active, emitted, lost, moves, polls>>

-----------------------------------------------------------------------------
CountedChanges(count, changes) ==
    [c \in Changes |-> count[c] + Cardinality({n \in DOMAIN changes : changes[n] = c})]
AfterEmit(p) ==
    LET left == Tail(poller[p].changes)
    IN  [poller EXCEPT ![p] = [at |-> IF left = <<>> THEN "listed" ELSE "emitting",
                               todo |-> @.todo, changes |-> left]]

(* emit_change: the event, the object and the message.                     *)
Emit(p) ==
    /\ poller[p].at = "emitting"
    /\ emitted' = CountedChanges(emitted, <<Head(poller[p].changes)>>)
    /\ poller' = AfterEmit(p)
    /\ UNCHANGED <<watchers, due, recorded, known, threats, snapshots, active, lost, moves, polls>>

(* The event store refuses it: a thread goes on with the next change, the  *)
(* tick drops the changes left and the watchers left of its list.          *)
EmitFails(p) ==
    /\ poller[p].at = "emitting"
    /\ IF p \in Threads
       THEN lost' = CountedChanges(lost, <<Head(poller[p].changes)>>) /\ poller' = AfterEmit(p)
       ELSE lost' = CountedChanges(lost, poller[p].changes) /\ poller' = [poller EXCEPT ![p] = Idle]
    /\ UNCHANGED <<watchers, due, recorded, known, threats, snapshots, active, emitted, moves, polls>>

MonitoringNext ==
    \/ \E w \in Kinds : Elapse(w)
    \/ StopBackground
    \/ \E p \in Pollers : \/ StartBackground(p) \/ ListDue(p) \/ PollNext(p) \/ ListDone(p)
                          \/ Emit(p) \/ EmitFails(p)

MonitoringSpec == MonitoringInit /\ [][MonitoringNext]_monitoringVars

Waiting(c) == Cardinality(UNION {{<<p, n>> : n \in {m \in DOMAIN poller[p].changes : poller[p].changes[m] = c}}
                                    : p \in Pollers})
Reports(c) == emitted[c] + lost[c] + Waiting(c)

(* Whatever pollers run side by side and whatever the event store refuses, *)
(* each movement of a recorded value has one report, an advisory one from  *)
(* the moment it is known and a severe one at most one more: two pollers   *)
(* that took the same watcher as due do not announce it twice, and a       *)
(* report is only missing when its event was refused.                      *)
ReportsAccounted ==
    /\ \A w \in Comparing : Reports(Change("moved", w)) = moves[w]
    /\ \A c \in Cve :
          /\ Reports(Change("new_advisory", c)) = (IF c \in known THEN 1 ELSE 0)
          /\ Reports(Change("high_severity_cve", c)) = (IF c \in threats THEN 1 ELSE 0)
    /\ threats \subseteq known \cap Severe
=============================================================================
