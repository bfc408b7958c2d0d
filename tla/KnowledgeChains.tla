--------------------------- MODULE KnowledgeChains ---------------------------
(***************************************************************************)
(* KnowledgeCore (crates/knowledge): records that are never changed, their *)
(* version chain, the index of fingerprints and the index of aliases.  A   *)
(* fingerprint is its content; the id of a revision is the id it revises   *)
(* with the new version behind it, here a sequence.                        *)
(***************************************************************************)
EXTENDS Naturals, Sequences, FiniteSets, SequencesExt, Absent

CONSTANTS Subject, Content,     \* ids of the knowledge ingested, what it says
          Alias, Identity,      \* (namespace, value) pairs, canonical ids
          MaxRecords            \* bound: records produced

ASSUME KnowledgeAssumption ==
    /\ MaxRecords \in Nat
    /\ Nothing \notin Seq(Subject \cup Nat) /\ \A aliases \in SUBSET Alias : aliases # Nothing

VARIABLES records,    \* every KnowledgeRecord handed out
          chains,     \* VersionManager.chains
          exactIndex, \* DedupEngine: content -> the id registered last
          reverseIndex, \* id -> content
          resolved, aliasIndex  \* IdentityResolver

knowledgeVars == <<records, chains, exactIndex, reverseIndex, resolved, aliasIndex>>

Initial == [version |-> 1, previous |-> Nothing, next |-> Nothing]

(* Mutant of NextVersion: the link skips the version before.               *)
NextVersionSkips(chain, id) ==
    [version |-> chain.version + 1, previous |-> chain.previous, next |-> id]

NextVersion(chain, id) ==
    [version |-> chain.version + 1, previous |-> chain.next, next |-> id]

(* The chains found from an id backwards; the first one with that next_id. *)
Find(id) == {n \in DOMAIN chains : chains[n].next = id}
First(S) == CHOOSE n \in S : \A m \in S : n <= m
Turn(walk) ==
    IF walk.at = Nothing \/ Find(walk.at) = {} THEN walk
    ELSE LET chain == chains[First(Find(walk.at))]
         IN  [at |-> chain.previous, found |-> Append(walk.found, chain)]
History(id) ==
    LET turn[n \in 0..Len(chains)] ==
            IF n = 0 THEN [at |-> id, found |-> <<>>] ELSE Turn(turn[n - 1])
    IN  turn[Len(chains)].found

KnowledgeInit ==
    /\ records = {} /\ chains = <<>>
    /\ exactIndex = [c \in Content |-> Nothing] /\ reverseIndex = {}
    /\ resolved = [i \in Identity |-> Nothing] /\ aliasIndex = [a \in Alias |-> Nothing]

Register(id, content) ==
    /\ exactIndex' = [exactIndex EXCEPT ![content] = id]
    /\ reverseIndex' = {e \in reverseIndex : e.id # id} \cup {[id |-> id, content |-> content]}

Unregister(id) ==
    \E e \in reverseIndex :
        /\ e.id = id /\ reverseIndex' = reverseIndex \ {e}
        /\ exactIndex' = [exactIndex EXCEPT ![e.content] = Nothing]
        /\ UNCHANGED <<records, chains, resolved, aliasIndex>>

Record(id, content, chain, steps) == [id |-> id, content |-> content, chain |-> chain, steps |-> steps]

Ingest(k, content) ==
    /\ Len(chains) < MaxRecords
    /\ Register(<<k>>, content)
    /\ records' = records \cup {Record(<<k>>, content, Initial, <<>>)}
    /\ chains' = Append(chains, Initial)
    /\ UNCHANGED <<resolved, aliasIndex>>

(* Any record that was handed out may be revised, the same one twice too.  *)
Revise(r, content) ==
    LET id == Append(r.id, r.chain.version + 1)
        chain == NextVersion(r.chain, id)
    IN  /\ Len(chains) < MaxRecords
        /\ Register(id, content)
        /\ records' = records \cup {Record(id, content, chain, Append(r.steps, r.id))}
        /\ chains' = Append(chains, chain)
        /\ UNCHANGED <<resolved, aliasIndex>>

CheckDuplicate(content) == exactIndex[content]

(* An identity replaces the one of its id; aliases are only ever added.    *)
RegisterIdentity(i, aliases) ==
    /\ resolved' = [resolved EXCEPT ![i] = aliases]
    /\ aliasIndex' = [a \in Alias |-> IF a \in aliases THEN i ELSE aliasIndex[a]]
    /\ UNCHANGED <<records, chains, exactIndex, reverseIndex>>
ResolveAlias(a) == aliasIndex[a]

KnowledgeNext ==
    \/ \E c \in Content : \/ \E k \in Subject : Ingest(k, c)
                          \/ \E r \in records : Revise(r, c)
    \/ \E e \in reverseIndex : Unregister(e.id)
    \/ records = {} /\ \E i \in Identity, aliases \in SUBSET Alias : RegisterIdentity(i, aliases)

KnowledgeSpec == KnowledgeInit /\ [][KnowledgeNext]_knowledgeVars

(* However records are revised, the same one twice included, and whatever  *)
(* is unregistered: the walk back from a revision meets every revision of   *)
(* the chain once, the latest first and none of another chain (whether it  *)
(* also meets the first version, which is no revision and which the code   *)
(* never finds, is left open), its provenance names each record it came    *)
(* from, the id given for a duplicate is of a record with that content,    *)
(* and an alias leads to an identity that is registered.                   *)
Versions(walk) == [i \in DOMAIN walk |-> walk[i].version]
ChainsAreWhole ==
    /\ \A r \in records :
          LET n == r.chain.version
          IN  /\ n > 1 => \E first \in {1, 2} :
                    Versions(History(r.id)) = [i \in 1..(n - first + 1) |-> n - i + 1]
              /\ Len(r.steps) = n - 1 /\ \A i \in DOMAIN r.steps : \E s \in records : s.id = r.steps[i]
    /\ \A c \in Content : CheckDuplicate(c) # Nothing =>
          \E r \in records : r.id = CheckDuplicate(c) /\ r.content = c
    /\ \A a \in Alias : ResolveAlias(a) # Nothing => resolved[ResolveAlias(a)] # Nothing
=============================================================================
