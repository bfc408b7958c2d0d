----------------------------- MODULE CollectApi -----------------------------
(***************************************************************************)
(* The collection service (services/api): POST /collect runs one statement *)
(* of the database after the other, with a download and a store of the     *)
(* artifact between them, and a failure is written by a detached task.  A  *)
(* statement whose answer is lost fails for the handler after it took      *)
(* effect, and so it is with one under way when the client or the service  *)
(* goes away.                                                              *)
(* The other handlers only read, or call a processor of the registry.      *)
(***************************************************************************)
EXTENDS Naturals, FiniteSets, Absent

CONSTANTS Request, Url, UrlOf

ASSUME CollectAssumption ==
    /\ UrlOf \in [Request -> Url]
    /\ Nothing \notin {"running", "completed", "failed", "Ok", "BadRequest", "Internal"}

VARIABLES services,  \* rows of services: one per locator
          session,   \* rows of collection_sessions: request -> status
          blobs,     \* what the artifact store holds
          artifacts, completedEvents,   \* rows of artifacts and of events
          handler,   \* the statement each request is at
          failing,   \* fail_session tasks that have not written yet
          answered,  \* the response a client received
          unmarked,  \* history: sessions whose failure could not be written
          unknown,   \* history: sessions whose INSERT took effect but failed for the handler
          crashes    \* bound: one crash of the service

collectVars == <<services, session, blobs, artifacts, completedEvents, handler, failing, answered, unmarked, unknown, crashes>>

(* The statements in their order, and what each leads to.                  *)
After == [service |-> "session", session |-> "download", download |-> "store", store |-> "artifact",
          artifact |-> "event", event |-> "complete", complete |-> "done"]
Statements == DOMAIN After

CollectInit ==
    /\ services = {} /\ blobs = {} /\ artifacts = {} /\ completedEvents = {}
    /\ session = [r \in Request |-> Nothing]
    /\ handler = [r \in Request |-> "new"] /\ failing = {} /\ unmarked = {} /\ unknown = {}
    /\ answered = [r \in Request |-> Nothing] /\ crashes = 0

Arrive(r) ==
    /\ handler[r] = "new" /\ handler' = [handler EXCEPT ![r] = "service"]
    /\ UNCHANGED <<services, session, blobs, artifacts, completedEvents, failing, answered, unmarked, unknown, crashes>>

(* The statements of the requests in took take effect, and those of the    *)
(* detached tasks of marked.  A service is inserted, or found by its       *)
(* locator.                                                                *)
HandlersAt(took, at) == {r \in took : handler[r] = at}
Effect(took, marked) ==
    /\ services' = services \cup {UrlOf[r] : r \in HandlersAt(took, "service")}
    /\ session' = [r \in Request |-> IF r \in HandlersAt(took, "session") THEN "running"
                                     ELSE IF r \in HandlersAt(took, "complete") THEN "completed"
                                     ELSE IF r \in marked THEN "failed" ELSE session[r]]
    /\ blobs' = blobs \cup HandlersAt(took, "store")
    /\ artifacts' = artifacts \cup HandlersAt(took, "artifact")
    /\ completedEvents' = completedEvents \cup HandlersAt(took, "event")

CollectStep(r) ==
    /\ handler[r] \in Statements
    /\ Effect({r}, {})
    /\ handler' = [handler EXCEPT ![r] = After[@]]
    /\ answered' = IF handler[r] = "complete" THEN [answered EXCEPT ![r] = "Ok"] ELSE answered
    /\ UNCHANGED <<failing, unmarked, unknown, crashes>>

(* Mutant of FailSessionAfter: the artifact's row is not among them.       *)
FailSessionAfterTwo == {"download", "store"}

(* The failures that fail_session is called for.                           *)
FailSessionAfter == {"download", "store", "artifact"}
CollectFails(r, took) ==
    /\ handler[r] \in Statements
    /\ Effect(took, {})
    /\ failing' = IF handler[r] \in FailSessionAfter THEN failing \cup {r} ELSE failing
    /\ unknown' = unknown \cup HandlersAt(took, "session")
    /\ handler' = [handler EXCEPT ![r] = "done"]
    /\ answered' = [answered EXCEPT ![r] = IF handler[r] = "download" THEN "BadRequest" ELSE "Internal"]
    /\ UNCHANGED <<unmarked, crashes>>

(* The detached task writes, or its statement fails and nobody looks.      *)
FailSession(r, ok) ==
    /\ r \in failing /\ failing' = failing \ {r}
    /\ Effect({}, IF ok THEN {r} ELSE {})
    /\ unmarked' = IF ok THEN unmarked ELSE unmarked \cup {r}
    /\ UNCHANGED <<handler, answered, unknown, crashes>>

(* The client goes away: the handler is dropped where it waits.            *)
ClientGone(r, took) ==
    /\ handler[r] \in Statements /\ handler' = [handler EXCEPT ![r] = "dropped"]
    /\ Effect(took, {})
    /\ UNCHANGED <<failing, answered, unmarked, unknown, crashes>>

(* The handlers and the detached tasks end where they are.                 *)
ServiceCrashes ==
    /\ crashes = 0 /\ crashes' = 1
    /\ LET running == {r \in Request : handler[r] \in Statements} IN
       /\ handler' = [r \in Request |-> IF r \in running THEN "dropped" ELSE handler[r]]
       /\ \E took \in SUBSET running, marked \in SUBSET failing :
             Effect(took, marked) /\ unmarked' = unmarked \cup (failing \ marked)
    /\ failing' = {}
    /\ UNCHANGED <<answered, unknown>>

CollectNext ==
    \/ ServiceCrashes
    \/ \E r \in Request : \/ Arrive(r) \/ CollectStep(r)
                          \/ \E took \in SUBSET {r} : CollectFails(r, took) \/ ClientGone(r, took)
                          \/ \E ok \in BOOLEAN : FailSession(r, ok)

CollectSpec == CollectInit /\ [][CollectNext]_collectVars

(* What GET /services, /artifacts and /events list, at most 100 rows each.  *)
Listed == [services |-> services, artifacts |-> artifacts, events |-> completedEvents]

(* A completed session has everything it stands for; a failed one was      *)
(* never announced as completed; a row of artifacts has its bytes; and a   *)
(* session whose handler has answered is running only if its mark is under *)
(* way or could not be written, if the failure was one of the last two     *)
(* statements, or if its INSERT took effect although it failed, for which  *)
(* nothing is marked: nothing else leaves a session running for ever but a *)
(* handler cut off on its way.                                             *)
SessionsAreBacked ==
    \A r \in Request :
        /\ session[r] # Nothing => UrlOf[r] \in services
        /\ r \in artifacts => r \in blobs /\ session[r] # Nothing
        /\ session[r] = "completed" => r \in artifacts /\ r \in completedEvents
        /\ session[r] = "failed" => r \notin completedEvents /\ answered[r] \in {"BadRequest", "Internal"}
        /\ answered[r] = "Ok" =>
              /\ session[r] = "completed"
              /\ UrlOf[r] \in Listed.services /\ r \in Listed.artifacts /\ r \in Listed.events
        /\ session[r] = "running" /\ handler[r] = "done" => r \in failing \cup unmarked \cup artifacts \cup unknown
=============================================================================
