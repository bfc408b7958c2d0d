-------------------------- MODULE PersistentStores --------------------------
(* The persistent object manager, snapshot store and storage manager of the *)
(* kernel process (services/kernel/src/persistent.rs) behind the HTTP       *)
(* handlers that call them (api.rs).  A method is one SQL statement, or the *)
(* steps of a file operation.  A statement may fail, and one whose answer   *)
(* is lost fails for the caller after it took effect; most methods drop the *)
(* error.  The tables are those of migrations/0002_kernel.sql: a link needs *)
(* both its objects and goes with either of them.                           *)
(*                                                                          *)
(* A key of the storage manager is the sequence of the segments of its      *)
(* path under the data directory.                                           *)
EXTENDS Integers, Sequences, FiniteSets, SequencesExt, FiniteSetsExt, Functions, Absent

CONSTANTS ObjectIds, LinkIds,  \* the Ulids the process draws, each once
          ObjectKinds,
          Contents,            \* what objects, snapshots and files hold
          Aggregates, TypeOfAggregate,
          Versions,            \* versions of the snapshots saved
          Paths,               \* keys of the storage manager, and the directories on their way
          StoreCalls           \* calls of the storage manager under way at once

ASSUME StoresAssumption == Versions \subseteq Nat /\ Paths \subseteq Seq(STRING) \ {<<>>}

\* of a statement: it takes effect unless it failed, and the caller knows only if it was answered
Outcomes == {"answered", "failed", "unanswered"}
TookEffect(how) == how # "failed"
Answered(how) == how = "answered"

VARIABLES pgObjects,   \* id -> [kind, data]
          pgLinks,     \* id -> <<source, target>>
          givenIds,       \* ids given to a caller
          pgSnaps,     \* aggregate -> [version, state, order]
          saves,       \* history: aggregate -> the rows it may have by what the callers were told
          inDirectory, \* whether the storage manager has a data directory
          files,       \* path -> contents, "torn" while they are not all there
          directories, \* the directories made under the data directory
          writing,     \* call -> [path, contents, alone], of the writes under way
          kept,        \* history: path -> contents, of the last write if it was complete and alone
          answer       \* what the last request was told
fileVars == <<inDirectory, files, directories, writing, kept>>
storesVars == <<pgObjects, pgLinks, givenIds, pgSnaps, saves, fileVars, answer>>

WithoutKeys(f, S) == Restrict(f, DOMAIN f \ S)
WithKey(f, x, v) == [y \in DOMAIN f \cup {x} |-> IF y = x THEN v ELSE f[y]]

StoresInit ==
  /\ pgObjects = <<>> /\ pgLinks = <<>> /\ givenIds = {}
  /\ pgSnaps = <<>> /\ saves = [a \in Aggregates |-> {Nothing}]
  /\ inDirectory \in BOOLEAN /\ files = <<>> /\ directories = {}
  /\ writing = <<>> /\ kept = <<>>
  /\ answer = "none"

----------------------------------------------------------------------------
(* Objects and links *)

\* the caller is given the id whether the row was inserted or not
PgCreateObject(id, kind, data, how) ==
  /\ id \notin givenIds
  /\ givenIds' = givenIds \cup {id}
  /\ pgObjects' = IF TookEffect(how) THEN WithKey(pgObjects, id, [kind |-> kind, data |-> data]) ELSE pgObjects
  /\ answer' = "created"
  /\ UNCHANGED pgLinks
PgReadObject(id) == IF id \in DOMAIN pgObjects THEN pgObjects[id] ELSE Nothing
PgUpdateObject(id, data, how) ==
  /\ LET found == TookEffect(how) /\ id \in DOMAIN pgObjects
     IN /\ pgObjects' = IF found THEN [pgObjects EXCEPT ![id].data = data] ELSE pgObjects
        /\ answer' = IF found /\ Answered(how) THEN "updated" ELSE "object not found"
  /\ UNCHANGED <<pgLinks, givenIds>>
PgLinksAt(ids) == {l \in DOMAIN pgLinks : pgLinks[l][1] \in ids \/ pgLinks[l][2] \in ids}
PgDeleteObjectRow(id, how) ==
  /\ pgObjects' = IF TookEffect(how) THEN WithoutKeys(pgObjects, {id}) ELSE pgObjects
  /\ UNCHANGED pgLinks
PgDeleteObject(id, how) ==
  /\ pgObjects' = IF TookEffect(how) THEN WithoutKeys(pgObjects, {id}) ELSE pgObjects
  /\ pgLinks' = IF TookEffect(how) THEN WithoutKeys(pgLinks, PgLinksAt({id})) ELSE pgLinks
PgDeleteRequest(id, how) ==
  /\ PgDeleteObject(id, how)
  /\ answer' = IF Answered(how) /\ id \in DOMAIN pgObjects THEN "deleted" ELSE "object not found"
  /\ UNCHANGED givenIds
\* the id of a link is returned although the tables may have refused the row
PgLinkObjects(l, source, target, how) ==
  /\ l \notin givenIds
  /\ givenIds' = givenIds \cup {l}
  /\ pgLinks' = IF TookEffect(how) /\ {source, target} \subseteq DOMAIN pgObjects
                THEN WithKey(pgLinks, l, <<source, target>>) ELSE pgLinks
  /\ answer' = "linked"
  /\ UNCHANGED pgObjects
PgUnlinkObjects(l, how) ==
  /\ pgLinks' = IF TookEffect(how) THEN WithoutKeys(pgLinks, {l}) ELSE pgLinks
  /\ answer' = IF Answered(how) /\ l \in DOMAIN pgLinks THEN "unlinked" ELSE "link not found"
  /\ UNCHANGED <<pgObjects, givenIds>>

\* a query that fails finds nothing
PgFindByKind(kind, ok) == IF ok THEN {o \in DOMAIN pgObjects : pgObjects[o].kind = kind} ELSE {}
\* asks for the objects whose kind is the empty string
PgObjectKindsListed(ok) == {pgObjects[o].kind : o \in PgFindByKind("", ok)}
\* a failed read and a missing row are the same answer
PgGetObject(id, ok) ==
  /\ answer' = IF ok /\ PgReadObject(id) # Nothing THEN PgReadObject(id).data ELSE "object not found"
  /\ UNCHANGED <<pgObjects, pgLinks, givenIds>>

PgObjectNext ==
  \/ \E how \in Outcomes :
       \/ \E id \in ObjectIds, k \in ObjectKinds, d \in Contents : PgCreateObject(id, k, d, how)
       \/ \E id \in ObjectIds \cap givenIds :
            \/ \E d \in Contents : PgUpdateObject(id, d, how)
            \/ PgDeleteRequest(id, how)
            \/ \E l \in LinkIds, other \in ObjectIds \cap givenIds : PgLinkObjects(l, id, other, how)
       \/ \E l \in LinkIds \cap givenIds : PgUnlinkObjects(l, how)
  \/ \E id \in ObjectIds \cap givenIds, ok \in BOOLEAN : PgGetObject(id, ok)

----------------------------------------------------------------------------
(* PgSnapshotStore: an upsert that does not look at the version it replaces *)

\* a caller told of a failure knows both the row before and the one of the statement possible
PgSaveSnapshot(a, version, state, how) ==
  LET row == [version |-> version, state |-> state]
  IN /\ pgSnaps' = IF TookEffect(how) THEN WithKey(pgSnaps, a, row) ELSE pgSnaps
     /\ saves' = [saves EXCEPT ![a] = IF Answered(how) THEN {row} ELSE @ \cup {row}]
     /\ answer' = IF Answered(how) THEN "saved" ELSE "serialization error"
PgLoadSnapshot(a) == IF a \in DOMAIN pgSnaps THEN pgSnaps[a] ELSE Nothing
\* of equal versions the database may return any
PgLoadLatest(type) ==
  LET of == {a \in DOMAIN pgSnaps : TypeOfAggregate[a] = type}
  IN IF of = {} THEN {Nothing}
     ELSE {pgSnaps[a] : a \in {b \in of : \A c \in of : pgSnaps[c].version <= pgSnaps[b].version}}
PgDeleteSnapshot(a, how) ==
  /\ pgSnaps' = IF TookEffect(how) THEN WithoutKeys(pgSnaps, {a}) ELSE pgSnaps
  /\ saves' = [saves EXCEPT ![a] = IF Answered(how) THEN {Nothing} ELSE @ \cup {Nothing}]
  /\ answer' = IF ~Answered(how) THEN "serialization error"
               ELSE IF a \in DOMAIN pgSnaps THEN "deleted" ELSE "not found"
PgSnapshotNext ==
  \E a \in Aggregates, how \in Outcomes :
    \/ PgDeleteSnapshot(a, how)
    \/ \E v \in Versions, s \in Contents : PgSaveSnapshot(a, v, s, how)

----------------------------------------------------------------------------
(* StorageManagerWrapper: a data directory, or the artifact store the       *)
(* process was configured with, which is not under this directory's rules:  *)
(* nothing is deleted from it and it lists nothing.                         *)

Parents(p) == {SubSeq(p, 1, n) : n \in 1..(Len(p) - 1)}
\* create_dir_all stops at the first parent that is a file
MakeDirectories(p) == {q \in Parents(p) : (Parents(q) \cup {q}) \cap DOMAIN files = {}}
MakeAllDirectories(p) == Parents(p)
\* fs::write opens the file, which empties it, and then writes; other calls run in between.
\* "stored" is the answer in every case.
IsWritten(p) == \E q \in DOMAIN writing : writing[q].path = p
StoreBegins(q, p, contents, opened) ==
  /\ inDirectory /\ q \notin DOMAIN writing
  /\ directories' = directories \cup MakeDirectories(p)
  /\ IF opened /\ p \notin directories' /\ Parents(p) \subseteq directories'
     THEN /\ files' = WithKey(files, p, "torn")
          /\ writing' = WithKey([r \in DOMAIN writing |->
                                  [writing[r] EXCEPT !.alone = @ /\ writing[r].path # p]],
                                q, [path |-> p, contents |-> contents, alone |-> ~IsWritten(p)])
          /\ kept' = WithoutKeys(kept, {p})
          /\ UNCHANGED answer
     ELSE answer' = "stored" /\ UNCHANGED <<files, writing, kept>>
\* a write that fails leaves a part, and of two writes of one file any mixture may stay; a file
\* deleted meanwhile is written where no path leads
StoreEnds(q, ok) ==
  LET p == writing[q].path
      complete == ok /\ writing[q].alone
      left == IF complete THEN {writing[q].contents}
              ELSE IF writing[q].alone THEN {"torn"} ELSE {"torn", writing[q].contents, files[p]}
  IN /\ writing' = WithoutKeys(writing, {q})
     /\ answer' = "stored"
     /\ IF p = <<>> THEN UNCHANGED <<files, kept>>
        ELSE /\ \E c \in left : files' = WithKey(files, p, c)
             /\ kept' = IF complete THEN WithKey(kept, p, writing[q].contents) ELSE kept
     /\ UNCHANGED directories
\* the artifact store puts a value whole or not at all
StorePut(p, contents, ok) ==
  /\ ~inDirectory
  /\ files' = IF ok THEN WithKey(files, p, contents) ELSE files
  /\ answer' = "stored"
  /\ UNCHANGED <<directories, writing, kept>>
LoadData(p, ok) ==
  /\ answer' = IF ok /\ p \in DOMAIN files THEN files[p] ELSE "key not found"
  /\ UNCHANGED <<files, directories, writing, kept>>
\* the directories on the way to a deleted file stay
DeleteData(p, ok) ==
  LET gone == ok /\ inDirectory /\ p \in DOMAIN files
  IN /\ files' = IF gone THEN WithoutKeys(files, {p}) ELSE files
     /\ kept' = IF gone THEN WithoutKeys(kept, {p}) ELSE kept
     /\ writing' = IF gone THEN [q \in DOMAIN writing |->
                                   [writing[q] EXCEPT !.path = IF @ = p THEN <<>> ELSE @]]
                   ELSE writing
     /\ answer' = IF gone THEN "deleted" ELSE "not_found"
     /\ UNCHANGED directories
\* the entries of the directory of that name
ListData(prefix) ==
  IF inDirectory /\ (prefix \in directories \/ prefix = <<>>)
  THEN {p \in DOMAIN files \cup directories : Front(p) = prefix} ELSE {}
StorageFileNext ==
  \E ok \in BOOLEAN :
    \/ \E p \in Paths :
         \/ DeleteData(p, ok)
         \/ LoadData(p, ok)
         \/ \E c \in Contents : StorePut(p, c, ok) \/ \E q \in StoreCalls : StoreBegins(q, p, c, ok)
    \/ \E q \in DOMAIN writing : StoreEnds(q, ok)

PersistentNext ==
  /\ UNCHANGED inDirectory
  /\ \/ PgObjectNext /\ UNCHANGED <<pgSnaps, saves, files, directories, writing, kept>>
     \/ PgSnapshotNext /\ UNCHANGED <<pgObjects, pgLinks, givenIds, files, directories, writing, kept>>
     \/ StorageFileNext /\ UNCHANGED <<pgObjects, pgLinks, givenIds, pgSnaps, saves>>

StoresSpec == StoresInit /\ [][PersistentNext]_storesVars

----------------------------------------------------------------------------
\* Whatever fails, before or after it took effect, what is stored is whole: no link without both
\* its objects, nothing under an id nobody was given; the snapshot of an aggregate is one of
\* those its callers must reckon with, which is the last one saved when they were told of no
\* error since, and load_latest returns one with the greatest version; a key whose last write was
\* complete and overlapped no other holds what it wrote; no key is also a directory, every
\* directory is reachable from the data directory, every stored key listed by its own directory;
\* the list of kinds names no kind of what is stored but the empty one.
StoredDataIsWhole ==
  /\ \A l \in DOMAIN pgLinks : {pgLinks[l][1], pgLinks[l][2]} \subseteq DOMAIN pgObjects
  /\ DOMAIN pgObjects \cup DOMAIN pgLinks \subseteq givenIds
  /\ \A a \in Aggregates : PgLoadSnapshot(a) \in saves[a]
  /\ \A a \in DOMAIN pgSnaps : \A s \in PgLoadLatest(TypeOfAggregate[a]) : s.version >= pgSnaps[a].version
  /\ \A p \in DOMAIN kept : p \in DOMAIN files /\ files[p] = kept[p]
  /\ directories \cap DOMAIN files = {}
  /\ inDirectory => \A p \in DOMAIN files \cup directories :
       Parents(p) \subseteq directories /\ p \in ListData(Front(p))
  /\ PgObjectKindsListed(TRUE) \subseteq {""}
=============================================================================
