--------------------------- MODULE DecisionEngine ---------------------------
(***************************************************************************)
(* The decision engine (crates/decision).  An analysis reads the objects   *)
(* and the events of the kernel by one call after the other, while others  *)
(* create, update and delete objects and append events; its answer is      *)
(* recorded as an object and published, and its caller may emit a decision *)
(* about it, or about an answer of its own.                                *)
(*                                                                         *)
(* An object is [id, kind, label, data, words], its data a record of what  *)
(* the analyzers look at, or Nothing when it is not JSON; labels and texts *)
(* are sets of tokens where they are compared.  Scores and confidences are *)
(* in hundredths.                                                          *)
(***************************************************************************)
EXTENDS Integers, Sequences, FiniteSets, Functions, SequencesExt, FiniteSetsExt, Absent

CONSTANTS Asker,           \* the callers of the engine
          Questions,       \* what they may ask
          Item,            \* the objects others create, in each state an update may give them
          Linked,          \* the links there may be between objects: [source, target, kind]
          Happening,       \* the events they may append: [agg, type, what, at]
          OwnConfidence,   \* the confidences of the answers callers make themselves
          MaxWrites,       \* bounds what others create, update, delete and append
          MaxFailures,     \* bounds the calls of one analysis that fail
          MaxQuestions     \* bounds the questions of one run

(* Labels are text, and only the engine writes about its answers.          *)
ASSUME DecisionAssumption ==
    /\ \A q \in Questions : q.max \in Nat \cup {Nothing}
    /\ \A o \in Item : o.label # Nothing /\ o.label[1] # "answer"
    /\ \A e \in Happening : e.agg[1] # "answer"

VARIABLES held,            \* ObjectManager: the objects there are
          made,            \* the ids that have been given to them
          writes,          \* how many writes of others there were
          happened,        \* the event store, in order
          asking,          \* the analysis of each caller
          answers,         \* the answers made: what was asked, said and met on the way
          published        \* the answers on topic decision.analysis
decisionVars == <<held, made, writes, happened, asking, answers, published>>

NotAsking == [at |-> "rest"]
DecisionInit ==
    /\ held = {} /\ made = {} /\ writes = 0 /\ happened = <<>>
    /\ asking = [a \in Asker |-> NotAsking] /\ answers = <<>> /\ published = <<>>

OfKind(k) == {o \in held : o.kind = k}
IsUlid(id) == id[1] \in {"id", "record", "answer"}
OrElse(v, default) == IF v = Nothing THEN default ELSE v
Field(o, f) == IF o.data = Nothing THEN Nothing ELSE o.data[f]

EventTypes == <<"Entity", "Observation", "Artifact", "Evidence", "Relationship", "Knowledge", "Finding", "Decision",
                "Service", "Investigation", "Timeline", "Agent", "Monitoring">>
ImpactTypes == <<"Entity", "Observation", "Artifact", "Evidence", "Finding", "Decision", "Relationship", "Knowledge",
                 "Service">>
TrendTypes == <<"Entity", "Observation", "Artifact", "Evidence", "Finding", "Relationship", "Monitoring">>
VolumeKinds == <<"cve_record", "threat_intel", "monitoring_change", "finding">>
AlikeKinds == <<"entity", "observation", "artifact", "evidence", "finding", "cve_record", "threat_intel",
                "monitoring_change">>
LeadKinds == <<"cve_record", "investigation", "monitoring_change", "threat_intel", "finding">>

(* The kind or type a question is about, or those it looks at by itself.   *)
Scope(q, all) == IF q.kind = Nothing THEN all ELSE <<q.kind>>

-----------------------------------------------------------------------------
(* The calls of the kernel each analyzer makes.                            *)
Call(what, key) == <<what, key>>
CallsFor(what, keys) == [i \in DOMAIN keys |-> Call(what, keys[i])]
Reads(q) ==
    CASE q.ask = "WhatChanged" -> CallsFor("read_all", Scope(q, EventTypes))
      [] q.ask = "Why" -> <<Call("read_events", q.id)>> \o (IF IsUlid(q.id) THEN <<Call("links", q.id)>> ELSE <<>>)
      [] q.ask = "WhatMatters" -> CallsFor("count", Scope(q, ImpactTypes)) \o CallsFor("find_by_kind", VolumeKinds)
      [] q.ask = "WhatIsRisky" ->
            <<Call("count", OrElse(q.kind, "medium"))>> \o CallsFor("find_by_kind", VolumeKinds)
      [] q.ask = "WhatShouldIInvestigate" -> CallsFor("find_by_kind", LeadKinds)
      [] q.ask = "WhatIsSimilar" -> <<Call("read", q.id)>>
      [] q.ask = "WhatWillLikelyHappen" ->
            CallsFor("count", Scope(q, TrendTypes)) \o CallsFor("find_by_kind", VolumeKinds)

(* What the kernel may reply, and what a call gives when its statement     *)
(* fails: Nothing is an error the analyzer sees.                           *)
Replies(c) ==
    CASE c[1] \in {"find_by_kind", "find_by_type", "is_empty"} -> {OfKind(c[2])}
      [] c[1] = "read" -> {{o \in held : o.id = c[2]}}
      [] c[1] = "find_by_label" -> {{o \in held : o.label = c[2]}}
      [] c[1] = "count" -> {Len(SelectSeq(happened, LAMBDA e : e.type = c[2]))}
      [] c[1] = "read_all" -> {SelectSeq(happened, LAMBDA e : e.type = c[2])}
      [] c[1] = "read_events" -> {SelectSeq(happened, LAMBDA e : e.agg = c[2])}
      [] c[1] = "links" -> SUBSET {l \in Linked : c[2] \in {l.source, l.target}}
Failure(c) ==
    CASE c[1] = "count" -> 0 [] c[1] \in {"read_all", "read_events"} -> Nothing [] OTHER -> {}

(* The calls that follow one, given its reply: the objects by label when   *)
(* the events cannot be read or no object has the id, the objects of a     *)
(* type that has events, the kinds of objects there are, or the kind of    *)
(* the reference when there are none.                                      *)
Further(q, c, reply, todo, seen) ==
    CASE c[1] = "read_events" /\ reply = Nothing -> <<Call("find_by_label", q.id)>> \o todo
      [] c[1] = "count" /\ q.ask \in {"WhatMatters", "WhatIsRisky"} ->
            (IF reply > 0 THEN <<Call("find_by_type", c[2])>> ELSE <<>>) \o todo
      [] c[1] = "read" -> IF reply = {} THEN <<Call("find_by_label", q.id)>>
                            ELSE IF q.kind = Nothing THEN CallsFor("is_empty", AlikeKinds)
                            ELSE <<Call("find_by_kind", q.kind)>>
      [] c[1] = "is_empty" ->
            IF reply # {} THEN Append(todo, Call("find_by_kind", c[2]))
            ELSE IF todo = <<>> THEN <<Call("find_by_kind", (CHOOSE o \in seen[Call("read", q.id)] : TRUE).kind)>>
            ELSE todo
      [] OTHER -> todo

-----------------------------------------------------------------------------
(* What a list of objects may be: kind after kind, and those of one kind   *)
(* in any order, for the object manager keeps them in a hash map.          *)
Listed(objects, kinds) ==
    {s \in SetToSeqs(objects) :
        \A i, j \in DOMAIN s : i < j => \A m, n \in DOMAIN kinds :
            kinds[m] = s[i].kind /\ kinds[n] = s[j].kind => m <= n}

(* The first n of a list sorted by score, in their order where it is equal *)
(* (a stable sort, then truncate): an entry's place counts those before it *)
Ahead(s, i) == {j \in DOMAIN s : s[j].score > s[i].score \/ (s[j].score = s[i].score /\ j <= i)}
Best(s, n) ==
    [k \in 1..Min({n, Len(s)}) |-> s[CHOOSE i \in DOMAIN s : Cardinality(Ahead(s, i)) = k]]
Lead(kind, id, score) == [kind |-> kind, id |-> id, score |-> score]

(* InvestigateAnalyzer: what nobody investigates yet, as often as there is *)
(* an object that says so.                                                 *)
Severity(s, critical, high, medium, other) ==
    CASE s = "critical" -> critical [] s = "high" -> high [] s = "medium" -> medium [] OTHER -> other
LeadOf(o) ==
    CASE o.kind = "cve_record" -> Lead("cve", o.label, Severity(Field(o, "severity"), 100, 80, 50, 20))
      [] o.kind = "monitoring_change" -> Lead("service_outage", OrElse(Field(o, "subject"), "unknown"), 70)
      [] o.kind = "threat_intel" -> Lead("threat", o.label, 75)
      [] OTHER -> Lead("finding", o.label, Severity(Field(o, "severity"), 90, 70, 0, 0))
KindSeen(seen, kind) == seen[Call("find_by_kind", kind)]
Investigated(investigations) == {Field(o, "cve_id") : o \in investigations} \ {Nothing}
(* Mutant of CveLeads: investigations are not looked at. *)
CveLeadsOfAll(seen) == {o \in KindSeen(seen, "cve_record") : o.data # Nothing}
CveLeads(seen) ==
    {o \in KindSeen(seen, "cve_record") :
        o.label \notin Investigated(KindSeen(seen, "investigation")) /\ o.data # Nothing}
OutageLeads(seen) ==
    {o \in KindSeen(seen, "monitoring_change") : Field(o, "change_type") \in {"poll_failed", "unreachable"}}
ThreatLeads(seen) ==
    {o \in KindSeen(seen, "threat_intel") : o.label \notin Investigated(KindSeen(seen, "investigation"))}
FindingLeads(seen) == {o \in KindSeen(seen, "finding") : Field(o, "severity") \in {"critical", "high"}}
Leads(seen) ==
    {[i \in DOMAIN s |-> LeadOf(s[i])] :
        s \in Listed(CveLeads(seen) \cup OutageLeads(seen) \cup ThreatLeads(seen) \cup FindingLeads(seen),
                     LeadKinds)}

(* ln(1 + n), in hundredths, for the counts of the model.                  *)
Ln1p == [n \in 0..4 |-> <<0, 69, 110, 139, 161>>[n + 1]]
ScoreKind(kind, events, objects) ==
    Min({100, Severity(kind, 100, 80, 50, IF kind = "low" THEN 20 ELSE 30)
              + Ln1p[events] \div 10 + Ln1p[objects] \div 5})
(* ImpactAnalyzer: the severity of a question about risk is taken for the  *)
(* type whose events are counted.                                          *)
Counted(seen, types) == SelectSeq(types, LAMBDA t : seen[Call("count", t)] > 0)
Impacts(q, seen) ==
    LET risky == q.ask = "WhatIsRisky"
        base(t) == ScoreKind(t, seen[Call("count", t)], Cardinality(seen[Call("find_by_type", t)]))
        score(t) == CASE risky /\ t \in {"Finding", "finding"} -> Min({100, (base(t) * 3) \div 2})
                      [] risky /\ t \in {"Monitoring", "monitoring"} -> Min({100, (base(t) * 13) \div 10})
                      [] OTHER -> base(t)
        types == Counted(seen, IF risky THEN <<OrElse(q.kind, "medium")>> ELSE Scope(q, ImpactTypes))
        kinds == SelectSeq(VolumeKinds, LAMBDA k : KindSeen(seen, k) # {})
    IN  [i \in DOMAIN types |-> Lead("type", types[i], score(types[i]))]
        \o [i \in DOMAIN kinds |-> Lead("objects", kinds[i], Ln1p[Cardinality(KindSeen(seen, kinds[i]))] \div 20)]

(* SimilarityAnalyzer: shared tokens over all tokens, of labels and data.  *)
TextSimilarity(a, b) ==
    IF a = {} /\ b = {} THEN 100 ELSE (100 * Cardinality(a \cap b)) \div Cardinality(a \cup b)
Likeness(r, o) == (4 * TextSimilarity({r.label}, {o.label}) + 6 * TextSimilarity(r.words, o.words)) \div 10
Alike(r, seen) ==
    LET objects == UNION {seen[c] : c \in {d \in DOMAIN seen : d[1] = "find_by_kind"}}
        alike == {o \in objects : o.id # r.id /\ Likeness(r, o) > 10}
    IN  {[i \in DOMAIN s |-> Lead("similar_object", s[i].id, Likeness(r, s[i]))] : s \in Listed(alike, AlikeKinds)}
References(q, seen) ==
    LET labelled == seen[Call("find_by_label", q.id)]
    IN  IF labelled = {} THEN {<<>>} ELSE {<<Lead("reference", o.id, 80)>> : o \in labelled}

(* ChangeAnalyzer: the window of time applies to a question about a type.  *)
Changed(q, seen) ==
    LET of(t) == Range(seen[Call("read_all", t)])
    IN  IF q.kind = Nothing THEN {t \in Range(EventTypes) : of(t) # {}}
        ELSE {e.what : e \in {f \in of(q.kind) : /\ q.since # Nothing => f.at >= q.since
                                                 /\ q.until # Nothing => f.at <= q.until}}

(* WhyAnalyzer: the first events of the aggregate, one of them at least,   *)
(* or, when they cannot be read, the objects of that label; then the links *)
(* of the object, if it is the id of one.                                  *)
Provenance(q, seen) ==
    LET events == seen[Call("read_events", q.id)]
        objects == seen[Call("find_by_label", q.id)]
        chains == IF events = Nothing
                  THEN {[i \in DOMAIN s |-> Lead("object_state", s[i].id, 70)] : s \in SetToSeqs(objects)}
                  ELSE {[i \in 1..Min({Len(events), Max({1, OrElse(q.max, 5)})}) |-> Lead("event_chain", q.id, 90)]}
        links == IF IsUlid(q.id) THEN seen[Call("links", q.id)] ELSE {}
    IN  {c \o [i \in DOMAIN s |-> Lead("relationship", s[i].target, 60)] : c \in chains, s \in SetToSeqs(links)}

(* PredictionAnalyzer: each type and kind there is enough of.              *)
Trends(q, seen) ==
    LET types == Counted(seen, Scope(q, TrendTypes))
        kinds == SelectSeq(VolumeKinds, LAMBDA k : Cardinality(KindSeen(seen, k)) > 1)
    IN  [i \in DOMAIN types |-> Lead("trend_projection", types[i], 60)]
        \o [i \in DOMAIN kinds |-> Lead("object_growth", kinds[i], Ln1p[Cardinality(KindSeen(seen, kinds[i]))] \div 10)]

(* The evidence an answer may have, and its confidence.                    *)
EvidenceFor(q, seen) ==
    CASE q.ask = "WhatShouldIInvestigate" -> {Best(s, OrElse(q.max, 5)) : s \in Leads(seen)}
      [] q.ask \in {"WhatMatters", "WhatIsRisky"} -> {Best(Impacts(q, seen), OrElse(q.max, 10))}
      [] q.ask = "WhatIsSimilar" /\ seen[Call("read", q.id)] = {} -> References(q, seen)
      [] q.ask = "WhatIsSimilar" /\ seen[Call("read", q.id)] # {} ->
            UNION {{Best(s, OrElse(q.max, 10)) : s \in Alike(r, seen)} : r \in seen[Call("read", q.id)]}
      [] q.ask = "WhatWillLikelyHappen" -> {Trends(q, seen)}
      [] q.ask = "WhatChanged" ->
            {[i \in DOMAIN s |-> Lead("event_count", s[i], 100)] : s \in SetToSeqs(Changed(q, seen))}
      [] q.ask = "Why" -> Provenance(q, seen)
Confidence(q, evidence) ==
    CASE q.ask = "WhatChanged" -> IF evidence = <<>> THEN 50 ELSE 95
      [] q.ask = "WhatWillLikelyHappen" -> IF Len(evidence) > 2 THEN 60 ELSE 40
      [] q.ask \in {"WhatMatters", "WhatIsRisky"} -> 80
      [] q.ask = "WhatIsSimilar" -> 75
      [] OTHER -> 85
ConfidentAt == 70

-----------------------------------------------------------------------------
Analysis(q, todo, seen, blind, lasting, met) ==
    [at |-> "read", q |-> q, todo |-> todo, seen |-> seen, blind |-> blind, lasting |-> lasting, met |-> met]
(* What an investigation may have met: the objects held throughout since   *)
(* it was asked, and those held at some time since.                        *)
Advises(q) == q.ask = "WhatShouldIInvestigate"
Watched(now) ==
    [a \in Asker |->
        LET e == asking[a]
        IN  IF e.at = "read" /\ Advises(e.q)
            THEN Analysis(e.q, e.todo, e.seen, e.blind, e.lasting \cap now, e.met \cup now) ELSE e]
CountWrite == writes < MaxWrites /\ writes' = writes + 1
ObjectsBecome(now) ==
    /\ CountWrite
    /\ held' = now /\ asking' = Watched(now)
    /\ UNCHANGED <<happened, answers, published>>
(* The operations of the object manager, by agents and the API.            *)
CreateObject(o) ==
    /\ o.id \notin made /\ made' = made \cup {o.id}
    /\ ObjectsBecome(held \cup {o})
UpdateObject(o) ==
    /\ \E p \in held : p.id = o.id /\ p # o /\ ObjectsBecome((held \ {p}) \cup {o})
    /\ UNCHANGED made
DeleteObject(o) == o \in held /\ ObjectsBecome(held \ {o}) /\ UNCHANGED made
Happen(e) ==
    /\ CountWrite
    /\ happened' = Append(happened, e)
    /\ UNCHANGED <<held, made, asking, answers, published>>

Ask(a, q) ==
    /\ asking[a].at = "rest"
    /\ Len(answers) + Cardinality({b \in Asker : asking[b].at = "read"}) < MaxQuestions
    /\ LET start == IF Advises(q) THEN held ELSE {}
       IN  asking' = [asking EXCEPT ![a] = Analysis(q, Reads(q), <<>>, {}, start, start)]
    /\ UNCHANGED <<held, made, writes, happened, answers, published>>
Heard(e, reply, blind) ==
    LET c == Head(e.todo)
        seen == [x \in DOMAIN e.seen \cup {c} |-> IF x = c THEN reply ELSE e.seen[x]]
    IN  Analysis(e.q, Further(e.q, c, reply, Tail(e.todo), e.seen), seen, e.blind \cup blind, e.lasting, e.met)
ReadKernel(a) ==
    /\ asking[a].at = "read" /\ asking[a].todo # <<>>
    /\ \E reply \in Replies(Head(asking[a].todo)) :
          asking' = [asking EXCEPT ![a] = Heard(@, reply, {})]
    /\ UNCHANGED <<held, made, writes, happened, answers, published>>
(* A statement of the persistent stores that fails: no objects, no events, *)
(* an error for the chain of events, and no answer when the events of a    *)
(* type cannot be read.                                                    *)
ReadFails(a) ==
    /\ asking[a].at = "read" /\ asking[a].todo # <<>> /\ Cardinality(asking[a].blind) < MaxFailures
    /\ LET c == Head(asking[a].todo)
       IN  asking' = [asking EXCEPT ![a] = IF c[1] = "read_all" THEN NotAsking
                                           ELSE Heard(@, Failure(c), {c})]
    /\ UNCHANGED <<held, made, writes, happened, answers, published>>

(* DecisionEngine::analyze: the answer is recorded, which the persistent   *)
(* store may fail to do without a word, then published.                    *)
AnswerRecord(n, confidence) ==
    [id |-> <<"record", n>>, label |-> <<"answer", n>>, words |-> {}, data |-> Nothing,
     kind |-> IF confidence >= ConfidentAt THEN "decision_verdict" ELSE "decision_finding"]
RecordAnswer(a) ==
    /\ asking[a].at = "read" /\ asking[a].todo = <<>>
    /\ \E evidence \in EvidenceFor(asking[a].q, asking[a].seen) :
          LET e == asking[a]
              n == Len(answers) + 1
              record == AnswerRecord(n, Confidence(e.q, evidence))
          IN  \E now \in {held, held \cup {record}} :
                /\ held' = now /\ made' = made \cup {record.id}
                /\ answers' = Append(answers, [q |-> e.q, evidence |-> evidence, confidence |-> Confidence(e.q, evidence),
                                               blind |-> e.blind, lasting |-> e.lasting, met |-> e.met])
                /\ asking' = [Watched(now) EXCEPT ![a] = [at |-> "publish", n |-> n]]
    /\ UNCHANGED <<writes, happened, published>>
PublishAnswer(a) ==
    /\ asking[a].at = "publish"
    /\ published' = Append(published, asking[a].n)
    /\ asking' = [asking EXCEPT ![a] = [@ EXCEPT !.at = "answered"]]
    /\ UNCHANGED <<held, made, writes, happened, answers>>

(* emit_decision, of the answer of an analysis or of any other: a caller   *)
(* may leave it out, and the append may be refused.                        *)
Emitted(id, confidence) ==
    IF confidence >= ConfidentAt
    THEN Append(happened, [agg |-> id, type |-> "Decision", what |-> "Made", at |-> 0]) ELSE happened
EmitDecision(a) ==
    /\ asking[a].at = "answered"
    /\ happened' = Emitted(<<"answer", asking[a].n>>, answers[asking[a].n].confidence)
    /\ asking' = [asking EXCEPT ![a] = NotAsking]
    /\ UNCHANGED <<held, made, writes, answers, published>>
EmitOwn(confidence) ==
    /\ CountWrite
    /\ happened' = Emitted(<<"own", 0>>, confidence)
    /\ UNCHANGED <<held, made, asking, answers, published>>
KeepAnswer(a) ==
    /\ asking[a].at = "answered"
    /\ asking' = [asking EXCEPT ![a] = NotAsking]
    /\ UNCHANGED <<held, made, writes, happened, answers, published>>

DecisionNext ==
    \/ \E o \in Item : CreateObject(o) \/ UpdateObject(o)
    \/ \E o \in held : DeleteObject(o)
    \/ \E e \in Happening : Happen(e)
    \/ \E c \in OwnConfidence : EmitOwn(c)
    \/ \E a \in Asker : \/ \E q \in Questions : Ask(a, q)
                        \/ ReadKernel(a)
                        \/ ReadFails(a)
                        \/ RecordAnswer(a)
                        \/ PublishAnswer(a)
                        \/ EmitDecision(a)
                        \/ KeepAnswer(a)

DecisionSpec == DecisionInit /\ [][DecisionNext]_decisionVars

-----------------------------------------------------------------------------
(* Properties.                                                             *)

(* What is worth a lead by itself: a record that can be read, an outage, a *)
(* threat, a finding of weight; nobody investigates a record or threat.    *)
Unattended(o, investigations) ==
    o.kind \in {"cve_record", "threat_intel"} => o.label \notin Investigated(investigations)
WorthALead(o) ==
    \/ o.kind = "cve_record" /\ o.data # Nothing
    \/ o.kind = "monitoring_change" /\ Field(o, "change_type") \in {"poll_failed", "unreachable"}
    \/ o.kind = "threat_intel"
    \/ o.kind = "finding" /\ Field(o, "severity") \in {"critical", "high"}
Investigations(objects) == {o \in objects : o.kind = "investigation"}

(* The advice of an investigation, read kind by kind while objects come,   *)
(* change and go: each lead is about an object that was held at some time  *)
(* meanwhile, and no investigation that was there throughout is about it   *)
(* (one created after the investigations were read may be, and so may any  *)
(* when that read failed); what was worth a lead throughout, with no       *)
(* investigation about it at any time, has one, unless the read of its     *)
(* kind failed or the answer is full of leads that score as much.          *)
LeadsAreNew ==
    \A i \in DOMAIN answers :
        LET s == answers[i]
            kept == Range(s.evidence)
        IN  Advises(s.q) =>
                /\ \A l \in kept : \E o \in s.met :
                      /\ l = LeadOf(o) /\ WorthALead(o)
                      /\ Call("find_by_kind", "investigation") \notin s.blind => Unattended(o, Investigations(s.lasting))
                /\ \A o \in s.lasting :
                      WorthALead(o) /\ Unattended(o, Investigations(s.met)) /\ Call("find_by_kind", o.kind) \notin s.blind =>
                          \/ LeadOf(o) \in kept
                          \/ /\ Len(s.evidence) = OrElse(s.q.max, 5)
                             /\ \A l \in kept : l.score >= LeadOf(o).score

(* It gives no more leads than were asked for, the best first.             *)
BestFirst ==
    \A i \in DOMAIN answers :
        LET s == answers[i]
        IN  Advises(s.q) =>
                /\ Len(s.evidence) <= OrElse(s.q.max, 5)
                /\ \A j, k \in DOMAIN s.evidence : j < k => s.evidence[j].score >= s.evidence[k].score

(* Each answer is published at most once and recorded before; while it has *)
(* a record, its kind says how confident it is; a decision about an answer *)
(* of the engine is about one that was published, confident enough.        *)
AnswersAreTold ==
    /\ Range(published) \subseteq DOMAIN answers
    /\ \A i, j \in DOMAIN published : published[i] = published[j] => i = j
    /\ \A o \in held : o.label[1] = "answer" =>
            /\ o.label[2] \in DOMAIN answers
            /\ (o.kind = "decision_verdict") = (answers[o.label[2]].confidence >= ConfidentAt)
    /\ \A i \in DOMAIN happened : happened[i].agg[1] = "answer" =>
            happened[i].agg[2] \in Range(published) /\ answers[happened[i].agg[2]].confidence >= ConfidentAt

(* Answers and decisions rest on what the kernel held while they were made *)
(* (analyzers/mod.rs InvestigateAnalyzer, lib.rs analyze, emit_decision).  *)
DecisionsAreBacked == LeadsAreNew /\ BestFirst /\ AnswersAreTold
=============================================================================
