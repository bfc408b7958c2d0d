-------------------------- MODULE IntelligenceFiles --------------------------
(***************************************************************************)
(* VirtualIntelligenceFilesystem (crates/vifs): objects as files under a   *)
(* directory for each type, kept in the storage of the kernel; the events  *)
(* of the event store projected into files one by one, and replayed from   *)
(* the store after the (in-memory) storage is lost.  A path is the         *)
(* sequence of its names, a key the path; of the fields of an object only  *)
(* one that updates change, its status and the entries of a timeline stay. *)
(***************************************************************************)
EXTENDS Naturals, Sequences, FiniteSets, SequencesExt, FiniteSetsExt, Functions, Absent

CONSTANTS ValidId,       \* the ids of objects that parse as ids
          Event, MaxLog, \* the events tried, and how many are recorded
          Other, MaxGarbled, \* envelopes of other data: what stands for them, how many
          MaxReplays,    \* the replays into one storage
          Data, LivePath \* what is written to files directly, and where

(* The order replay_from_event_store takes the types in.                   *)
AggregateTypes == <<"Entity", "Observation", "Artifact", "Evidence", "Relationship", "Knowledge",
                    "Finding", "Decision", "Service", "Investigation", "Timeline">>

(* A creation carries every field of its object, entries are added to      *)
(* timelines only, and nothing else happens to a timeline.                 *)
ASSUME VifsAssumption ==
    /\ MaxLog \in Nat /\ Other \subseteq Event
    /\ \A e \in Event :
          /\ e.of \in ToSet(AggregateTypes) \cup {"Agent", "Monitoring"}
          /\ e.what = "Heartbeat" => e.of = "Agent"
          /\ e.of \in ToSet(AggregateTypes) \ {"Timeline"} => e.what \in {"Created", "Updated", "Deleted"}
          /\ e.of = "Timeline" => e.what = "EntryAdded"
          /\ e.what = "Created" => e.name # Nothing /\ e.status # Nothing

VARIABLES files,   \* the storage below the prefix "vifs": path -> content
          log,     \* the events of the event store
          garbled, \* the places in it of envelopes whose data is no SystemEvent
          replay,  \* a run of replay_from_event_store
          moving   \* a rename between its steps, or Nothing

vifsVars == <<files, log, garbled, replay, moving>>

-----------------------------------------------------------------------------
(* The keys of the storage.                                                *)
Root == <<>>
PathOf(e) == CASE e.what = "Heartbeat" -> <<"Agent", e.id, "heartbeats", e.nth>>
               [] e.of = "Monitoring"  -> <<"Monitoring", "changes", e.id>>
               [] OTHER -> <<e.of, e.id>>
Exists(fs, path) == path \in DOMAIN fs
Written(fs, path, c) == [p \in DOMAIN fs \cup {path} |-> IF p = path THEN c ELSE fs[p]]
Removed(fs, path) == Restrict(fs, DOMAIN fs \ {path})

(* What list shows of a directory: a name below which there is more is a   *)
(* directory, even if a file has that name too.                            *)
Below(fs, dir) == {p \in DOMAIN fs : Len(p) > Len(dir) /\ SubSeq(p, 1, Len(dir)) = dir}
List(fs, dir) == {[name |-> n,
                   directory |-> \E p \in Below(fs, dir) : p[Len(dir) + 1] = n /\ Len(p) > Len(dir) + 1]
                    : n \in {p[Len(dir) + 1] : p \in Below(fs, dir)}}

-----------------------------------------------------------------------------
(* project_event, on storage fs: the storage it leaves and its result.     *)
Known == [Finding |-> {"info", "low", "medium", "high", "critical"},
          Decision |-> {"proposed", "approved", "rejected", "executed", "failed"},
          Service |-> {"active", "inactive", "error"}]
Default == [Finding |-> "info", Decision |-> "proposed", Service |-> "active"]
Parsed(type, s) == IF type \notin DOMAIN Known \/ s \in Known[type] THEN s ELSE Default[type]

(* A decision keeps those of its findings whose ids parse.                 *)
FindingsOf(e) == IF e.what = "Created" /\ e.of = "Decision" THEN e.refs \cap ValidId ELSE e.refs
Parses(e) == e.id \in ValidId /\ (e.of \in {"Artifact", "Evidence", "Finding", "Timeline"} => e.refs \subseteq ValidId)

FileContent(name, status, refs, entries) == [name |-> name, status |-> status, refs |-> refs, entries |-> entries]
NewContent(e) == FileContent(e.name, Parsed(e.of, e.status), FindingsOf(e), <<>>)
Patched(c, e) ==
    FileContent(IF e.name = Nothing THEN c.name ELSE e.name,
                IF e.status = Nothing THEN c.status ELSE Parsed(e.of, e.status), c.refs, c.entries)
WithEntry(fs, path, e) ==
    FileContent(Nothing, Nothing, IF Exists(fs, path) THEN fs[path].refs ELSE e.refs,
            Append(IF Exists(fs, path) THEN fs[path].entries ELSE <<>>, e.name))

PatchedUpsert(fs, path, e) == Written(fs, path, NewContent(e))
(* An update of what is not there does nothing, and is no error.           *)
PatchedIn(fs, path, e) == IF Exists(fs, path) THEN Written(fs, path, Patched(fs[path], e)) ELSE fs

Projected(fs, e) ==
    LET path == PathOf(e) IN
    CASE e.of \in {"Agent", "Monitoring"} -> [ok |-> TRUE, files |-> Written(fs, path, NewContent(e))]
      [] e.of \notin {"Agent", "Monitoring"} /\ ~Parses(e) -> [ok |-> FALSE, files |-> fs]
      [] OTHER ->
            CASE e.what = "Created" -> [ok |-> TRUE, files |-> Written(fs, path, NewContent(e))]
              [] e.what = "Updated" -> [ok |-> TRUE, files |-> PatchedIn(fs, path, e)]
              [] e.what = "Deleted" -> [ok |-> Exists(fs, path), files |-> Removed(fs, path)]
              [] e.what = "EntryAdded" -> [ok |-> TRUE, files |-> Written(fs, path, WithEntry(fs, path, e))]

-----------------------------------------------------------------------------
Idle == [status |-> "idle", type |-> 0, batch |-> {}, total |-> 0, fresh |-> FALSE, runs |-> 0]
VifsInit == files = <<>> /\ log = <<>> /\ garbled = {} /\ replay = Idle /\ moving = Nothing

(* An event is stored, then projected; an error of the projection does not *)
(* take the event back, and a replay that runs does not keep it away.      *)
RecordEvent(e) ==
    /\ Len(log) < MaxLog
    /\ log' = Append(log, e) /\ files' = Projected(files, e).files
    /\ replay' = [replay EXCEPT !.fresh = FALSE] /\ UNCHANGED <<garbled, moving>>
(* An envelope holds any JSON: of such a one, only the type of e counts.   *)
StoreOther(e) ==
    /\ Len(log) < MaxLog /\ Cardinality(garbled) < MaxGarbled
    /\ log' = Append(log, e) /\ garbled' = garbled \cup {Len(log) + 1}
    /\ replay' = [replay EXCEPT !.fresh = FALSE] /\ UNCHANGED <<files, moving>>

(* The storage is in memory, the event store need not be.                  *)
Restart == files' = <<>> /\ replay' = Idle /\ moving' = Nothing /\ UNCHANGED <<log, garbled>>

ReplayStart ==
    /\ replay.status # "running" /\ replay.runs < MaxReplays
    /\ replay' = [Idle EXCEPT !.status = "running", !.runs = replay.runs + 1,
                              !.fresh = (files = <<>> /\ moving = Nothing)]
    /\ UNCHANGED <<files, log, garbled, moving>>
(* The events of a type are read by their positions in the log, and        *)
(* projected in that order.                                                *)
ReplayRead ==
    /\ replay.status = "running" /\ replay.batch = {} /\ replay.type < Len(AggregateTypes)
    /\ LET t == replay.type + 1 IN
       replay' = [replay EXCEPT !.type = t, !.batch = {i \in DOMAIN log : log[i].of = AggregateTypes[t]}]
    /\ UNCHANGED <<files, log, garbled, moving>>
ReplayReadFails ==
    /\ replay.status = "running" /\ replay.batch = {} /\ replay.type < Len(AggregateTypes)
    /\ replay' = [replay EXCEPT !.status = "unread"]
    /\ UNCHANGED <<files, log, garbled, moving>>
(* The first error ends the replay with what it has projected so far.      *)
ReplayProject ==
    /\ replay.status = "running" /\ replay.batch # {}
    /\ LET first == Min(replay.batch)
           p == Projected(files, log[first])
       IN  IF first \notin garbled /\ p.ok
           THEN files' = p.files /\ replay' = [replay EXCEPT !.batch = @ \ {first}, !.total = @ + 1]
           ELSE UNCHANGED files /\ replay' = [replay EXCEPT !.status = "failed"]
    /\ UNCHANGED <<log, garbled, moving>>
ReplayDone ==
    /\ replay.status = "running"
    /\ replay.type = Len(AggregateTypes) /\ replay.batch = {}
    /\ replay' = [replay EXCEPT !.status = "done"]
    /\ UNCHANGED <<files, log, garbled, moving>>

WriteFile(path, c) ==
    /\ path # Root /\ files' = Written(files, path, FileContent(c, Nothing, {}, <<>>))
    /\ replay' = [replay EXCEPT !.fresh = FALSE] /\ UNCHANGED <<log, garbled, moving>>
DeleteFile(path) ==
    /\ Exists(files, path) /\ files' = Removed(files, path)
    /\ replay' = [replay EXCEPT !.fresh = FALSE] /\ UNCHANGED <<log, garbled, moving>>

(* rename reads, writes and deletes in three steps of the storage.         *)
RenameRead(from, to) ==
    /\ moving = Nothing /\ Exists(files, from)
    /\ moving' = [from |-> from, to |-> to, content |-> files[from], written |-> FALSE]
    /\ UNCHANGED <<files, log, garbled, replay>>
RenameWrite ==
    /\ moving # Nothing /\ ~moving.written /\ moving.to # Root
    /\ files' = Written(files, moving.to, moving.content)
    /\ moving' = [moving EXCEPT !.written = TRUE]
    /\ replay' = [replay EXCEPT !.fresh = FALSE] /\ UNCHANGED <<log, garbled>>
RenameFails == moving # Nothing /\ moving.to = Root /\ moving' = Nothing /\ UNCHANGED <<files, log, garbled, replay>>
RenameDelete ==
    /\ moving # Nothing /\ moving.written
    /\ files' = Removed(files, moving.from) /\ moving' = Nothing /\ UNCHANGED <<log, garbled, replay>>

VifsNext ==
    \/ \E e \in Event : RecordEvent(e)
    \/ \E e \in Other : StoreOther(e)
    \/ Restart \/ ReplayStart \/ ReplayRead \/ ReplayReadFails \/ ReplayProject \/ ReplayDone
    \/ \E p \in LivePath, c \in Data : WriteFile(p, c)
    \/ \E p \in LivePath : DeleteFile(p)
    \/ \E p, q \in LivePath \cup {Root} : RenameRead(p, q)
    \/ RenameWrite \/ RenameFails \/ RenameDelete

VifsSpec == VifsInit /\ [][VifsNext]_vifsVars

-----------------------------------------------------------------------------
(* What the log says of an object: since it was last created, the last     *)
(* value given to each field, and nothing if it was deleted after that.    *)
About(path) == {i \in DOMAIN log : log[i].of \notin {"Agent", "Monitoring"} /\ Parses(log[i]) /\ PathOf(log[i]) = path}
Of(path, what) == {i \in About(path) : log[i].what = what}
Born(path) == Max(Of(path, "Created") \cup {0})
Lives(path) == \/ Born(path) > Max(Of(path, "Deleted") \cup {0})
               \/ Of(path, "EntryAdded") # {}
Named(path) == {i \in About(path) : i >= Born(path) /\ log[i].name # Nothing}
Rated(path) == {i \in About(path) : i >= Born(path) /\ log[i].status # Nothing}
Recorded == {p \in {PathOf(log[i]) : i \in DOMAIN log} : Lives(p)}
Agrees(p) ==
    LET added == Of(p, "EntryAdded") IN
    /\ Len(files[p].entries) = Cardinality(added)
    /\ \A i \in added : files[p].entries[Cardinality({j \in added : j <= i})] = log[i].name
    /\ Born(p) > 0 =>
        /\ files[p].name = log[Max(Named(p))].name
        /\ LET e == log[Max(Rated(p))] IN files[p].status = Parsed(e.of, e.status)

(* The files are those the log says of the types that have been read.      *)
ReadTypes == {AggregateTypes[n] : n \in 1..replay.type}
StateRead == /\ {p \in DOMAIN files : p[1] \in ToSet(AggregateTypes)} = {p \in Recorded : p[1] \in ReadTypes}
             /\ \A p \in Recorded : p[1] \in ReadTypes => Agrees(p)

(* Refused when it was projected first: an id that does not parse, or a    *)
(* deletion of what had not been created since the last.                   *)
WasRefused(i) ==
    \/ log[i].of \notin {"Agent", "Monitoring"} /\ ~Parses(log[i])
    \/ log[i].what = "Deleted" /\ ~\E j \in 1..(i - 1) :
          /\ log[j].what = "Created" /\ PathOf(log[j]) = PathOf(log[i])
          /\ ~\E k \in (j + 1)..(i - 1) : log[k].what = "Deleted" /\ PathOf(log[k]) = PathOf(log[i])

(* replay_from_event_store into an empty file system, while nothing else   *)
(* is recorded or written: when it succeeds the files are what the log     *)
(* says of each object; when the store fails to read a type they are that  *)
(* for the types before it, and of the others there is none; and it fails  *)
(* on an event only if some data of the log is no event or was refused     *)
(* when it was projected first.                                            *)
ReplayRebuilds ==
    replay.fresh =>
        /\ replay.status = "done" => ReadTypes = ToSet(AggregateTypes)
        /\ replay.status \in {"done", "unread"} =>
              StateRead /\ replay.total = Cardinality({i \in DOMAIN log : log[i].of \in ReadTypes})
        /\ replay.status = "failed" => garbled # {} \/ \E i \in DOMAIN log : WasRefused(i)
=============================================================================
