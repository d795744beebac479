------------------------------ MODULE DayArchive ------------------------------
(* What is stored of one day, and how it changes: a synchronisation replaces  *)
(* the day by what WakaTime answers, or keeps it when the answer has less     *)
(* detail; an import fills a day nothing is known of; the operator marks      *)
(* slices as work or personal, and changes rules after a preview.             *)
(*                                                                            *)
(* The day is a record of the rows of its date                                *)
(*   total       : daily_totals, or None                                      *)
(*   slices      : day_project_entity_slices, the seconds of each key         *)
(*   dims        : daily_dimension_totals                                     *)
(*   summaries, heartbeats : sync_layer_state, see NoLayer                    *)
(*   beats       : heartbeats, by id: an event once stored is never rewritten *)
(*   active      : heartbeat_memberships, the ids that count for the day      *)
(*   projects    : the names that have a row                                  *)
(*   allocations : daily_time_allocations, by key                             *)
(* The other dates are alike; they share the rules only.  The versions of     *)
(* layers and slices are left out: nothing reads them.                        *)
EXTENDS RuleAnalysis

CONSTANTS
  Date, Pinned,
  Summaries, Heartbeats,  \* the results of the normalisers a sync may see
  Dumps,                  \* days of a dump: [total, entities, events]
  Divergence,             \* seconds of a dumped day that need no owner
  RuleIds, Rules,
  Manifests,              \* what rules may be consolidated by
  Classes,                \* what a slice may be marked as
  MaxRevision             \* bound: rows of classification_revisions

(* What the normaliser makes of a document it does not refuse: a slice has    *)
(* one of three kinds, and what is left of the day is nobody's.               *)
IsKey(k) ==
  /\ k.kind \in {"entity", "project_summary", "unattributed_residual"}
  /\ k.kind = "unattributed_residual" => k.project = Unattributed

IsSummary(v) ==
  /\ v # None /\ v.total \in Int /\ v.zero \in BOOLEAN
  /\ IsFiniteSet(DOMAIN v.slices)
  /\ \A k \in DOMAIN v.slices : IsKey(k) /\ v.slices[k] \in Int

IsDump(dump) ==
  /\ dump.total \in Int
  /\ Len(dump.entities) \in Nat
  /\ \A i \in 1..Len(dump.entities) : dump.entities[i].secs \in Int

(* A rule as the form accepts it, whatever its place among the others.        *)
IsRule(rule) ==
  /\ rule = [class |-> rule.class, selector |-> rule.selector, names |-> rule.names,
             exact |-> rule.exact, weight |-> rule.weight, priority |-> rule.priority,
             enabled |-> rule.enabled, created |-> rule.created]
  /\ rule.class \in {"work", "personal"} /\ rule.selector \in DOMAIN Specificity
  /\ rule.priority \in Int /\ rule.weight \in Int
  /\ \A n \in 0..(MaxRevision + 1) : [rule EXCEPT !.created = n] # None

IsManifest(m) ==
  /\ DOMAIN m.creates \subseteq RuleIds /\ m.deletes \subseteq RuleIds
  /\ \A id \in DOMAIN m.creates : IsRule(m.creates[id])

ASSUME ArchiveAssumption ==
  /\ Divergence \in Nat /\ MaxRevision \in Nat /\ Classes \subseteq {"work", "personal"}
  /\ None \notin Int
  /\ \A sum \in Summaries : sum.kind = "complete" => IsSummary(sum.value)
  /\ \A hb \in Heartbeats : hb.kind = "complete" => hb.value # None
  /\ \A dump \in Dumps : IsDump(dump)
  /\ IsFiniteSet(RuleIds)
  /\ \A rule \in Rules : IsRule(rule)
  /\ \A m \in Manifests : IsManifest(m)

(* No project is called what seconds of nobody are stored under: the code     *)
(* reserves the name and does not ask.                                        *)
ReservedName ==
  /\ \A sum \in Summaries : sum.kind = "complete" =>
       \A k \in DOMAIN sum.value.slices : k.kind = "entity" => k.project # Unattributed
  /\ \A dump \in Dumps :
       \A i \in 1..Len(dump.entities) : dump.entities[i].project # Unattributed

VARIABLES
  day,
  rules,
  revision,  \* MAX(id) of classification_revisions
  preview    \* what the operator was shown last, or None

vars == <<day, rules, revision, preview>>

-----------------------------------------------------------------------------
(* Layers: the value accepted last, whether the evidence of the heartbeats is *)
(* that of the summary, and how the last attempt ended.                       *)
NoLayer == [accepted |-> None, evidence |-> FALSE, status |-> "clean"]
Accepted(value, evidence) == [accepted |-> value, evidence |-> evidence, status |-> "clean"]
Attempted(layer, status) == [layer EXCEPT !.status = status]
Doubted(layer) == [layer EXCEPT !.evidence = FALSE]

EmptyDay ==
  [total |-> None, slices |-> <<>>, dims |-> {}, summaries |-> NoLayer,
   heartbeats |-> NoLayer, beats |-> <<>>, active |-> {}, projects |-> {Unattributed},
   allocations |-> <<>>]

(* Two sets of rows as one; a row that is in both is that of the first.       *)
Joined(f, g) == [k \in DOMAIN f \cup DOMAIN g |-> IF k \in DOMAIN f THEN f[k] ELSE g[k]]

-----------------------------------------------------------------------------
(* Heartbeats.                                                                *)

Conflicts(beats, events) ==
  \E e \in events : e.id \in DOMAIN beats /\ beats[e.id].payload # e.payload

(* A project without a row is stored as none.                                 *)
BeatRow(e, known) ==
  [payload |-> e.payload, project |-> IF e.project \in known THEN e.project ELSE None,
   entity |-> e.entity, who |-> e.who]
IdsOf(events) == {e.id : e \in events}
EventOf(events, id) == CHOOSE e \in events : e.id = id
Upserted(beats, events, known) ==
  Joined(beats, [id \in IdsOf(events) |-> BeatRow(EventOf(events, id), known)])

(* Members that are new no more are retired, their events stay.               *)
WithMembers(d, ids) == [d EXCEPT !.active = ids]

(* The events of the answer become the members of the day.                    *)
Witnessed(d, hb, known) ==
  [WithMembers(d, IdsOf(hb.events))
     EXCEPT !.beats = Upserted(d.beats, hb.events, known),
            !.heartbeats = Accepted(hb, TRUE)]

(* The same answer again is evidence again, and nothing else changes.         *)
WitnessedAgain(d, hb) ==
  IF hb = d.heartbeats.accepted
  THEN [d EXCEPT !.heartbeats = Accepted(hb, TRUE)]
  ELSE Witnessed(d, hb, d.projects)

HeartbeatsOutcome(d, hb) ==
  IF hb.kind = "complete" /\ Conflicts(d.beats, hb.value.events) THEN "conflict" ELSE hb.kind

(* A day of no seconds needs no heartbeats.                                   *)
EvidenceFor(outcome, sum) == outcome = "complete" \/ (outcome = "skipped" /\ sum.zero)

-----------------------------------------------------------------------------
(* The day is what it was: only the layers, and new heartbeats, are recorded. *)
Unchanged(d, sum) == d.summaries.accepted # None /\ d.summaries.accepted = sum

Confirmed(d, sum, hb) ==
  LET outcome == HeartbeatsOutcome(d, hb)
      after == CASE outcome = "complete" -> WitnessedAgain(d, hb.value)
                 [] outcome = "skipped" -> d
                 [] OTHER -> [d EXCEPT !.heartbeats = Attempted(d.heartbeats, outcome)]
  IN  [after EXCEPT !.summaries = Accepted(sum, EvidenceFor(outcome, sum))]

-----------------------------------------------------------------------------
(* Less detail than is stored: the day is kept, and the layer says so.        *)

EntitiesIn(slices) == {k \in DOMAIN slices : k.kind = "entity"}
DetailedIn(slices) == {k.project : k \in EntitiesIn(slices)}

(* The project is gone, or comes without entities.                            *)
LosesDetail(sum, project) ==
  \/ project \notin DOMAIN sum.scopes
  \/ sum.scopes[project] = "absent"
  \/ /\ project \notin DetailedIn(sum.slices)
     /\ \E k \in DOMAIN sum.slices : k.project = project /\ k.kind = "project_summary"

(* The day as a whole has less than before.                                   *)
LessThanBefore(d, sum) ==
  /\ ~sum.zero
  /\ \/ /\ d.summaries.accepted # None
        /\ d.summaries.accepted.fidelity = "entity_detail"
        /\ sum.fidelity = "coarse_project"
     \/ EntitiesIn(d.slices) # {} /\ EntitiesIn(sum.slices) = {}
     \/ DOMAIN d.slices # {} /\ sum.total = 0

Downgrades(d, sum) ==
  \/ LessThanBefore(d, sum)
  \/ ~sum.zero /\ \E p \in DetailedIn(d.slices) : LosesDetail(sum, p)

Preserved(d) == [d EXCEPT !.summaries = Attempted(d.summaries, "downgraded")]

-----------------------------------------------------------------------------
(* Everything is replaced by the answer; the operator's marks follow.         *)

Mark(state, class, secs) == [state |-> state, class |-> class, secs |-> secs]

Reattached(mark, secs) == Mark("active", mark.class, secs)

(* Mutant: A slice that comes back does not take its mark back.               *)
NeverReattached(marks, slices) ==
  [k \in DOMAIN marks |->
     IF k \notin DOMAIN slices THEN Mark("detached", marks[k].class, marks[k].secs)
     ELSE IF marks[k].state = "active" /\ ~Agree(marks[k].secs, slices[k])
          THEN Mark("active", marks[k].class, slices[k])
     ELSE marks[k]]

Followed(marks, slices) ==
  [k \in DOMAIN marks |->
     IF k \notin DOMAIN slices THEN Mark("detached", marks[k].class, marks[k].secs)
     ELSE IF marks[k].state = "detached" \/ ~Agree(marks[k].secs, slices[k])
          THEN Reattached(marks[k], slices[k])
     ELSE marks[k]]

(* Every mark that changes is one more revision.                              *)
Moved(before, after) ==
  Cardinality({k \in DOMAIN before : k \in DOMAIN after /\ before[k] # after[k]})

(* The members of the day are kept when there are no new ones, but they no    *)
(* longer count as evidence; projects are looked up in this answer only.      *)
WithHeartbeats(d, hb, outcome, sum) ==
  CASE outcome = "complete" -> Witnessed(d, hb.value, {Unattributed} \cup DOMAIN sum.scopes)
    [] outcome = "skipped" ->
         IF sum.zero THEN d ELSE [d EXCEPT !.heartbeats = Doubted(d.heartbeats)]
    [] OTHER -> [d EXCEPT !.heartbeats = Doubted(Attempted(d.heartbeats, outcome))]

(* Mutant: Slices the answer no longer has are not retired.                   *)
Merged(d, sum) ==
  [d EXCEPT !.slices = Joined(sum.slices, d.slices), !.total = sum.total, !.dims = sum.dims]

(* Slices the answer no longer has are retired; the dimensions are replaced.  *)
Measured(d, sum) ==
  [d EXCEPT !.slices = sum.slices, !.total = sum.total, !.dims = sum.dims]

Rewritten(d, sum) ==
  [Measured(d, sum) EXCEPT !.projects = d.projects \cup DOMAIN sum.scopes,
                           !.allocations = Followed(d.allocations, sum.slices)]

Replaced(d, sum, hb) ==
  LET outcome == HeartbeatsOutcome(d, hb)
  IN  [WithHeartbeats(Rewritten(d, sum), hb, outcome, sum)
         EXCEPT !.summaries = Accepted(sum, sum.zero \/ outcome = "complete")]

(* Looked at once more, before anything is stored.                            *)
IsConsistent(sum) ==
  /\ sum.total >= -Tolerance
  /\ \A k \in DOMAIN sum.slices : sum.slices[k] >= 0
  /\ Agree(SliceTotal(sum.slices), sum.total)

(* The transaction as a whole.  What it reports to the run is in SyncLifecycle.*)
Reconciled(d, sum, hb) ==
  IF ~IsConsistent(sum) THEN d
  ELSE IF Unchanged(d, sum) THEN Confirmed(d, sum, hb)
  ELSE IF Downgrades(d, sum) THEN Preserved(d)
  ELSE Replaced(d, sum, hb)

-----------------------------------------------------------------------------
(* A dump: the seconds of its entities, and a residual for what they leave or *)
(* for events that would have no owner.  It writes no layers.                 *)

Seen(d) ==
  \/ d.total # None
  \/ d.summaries.accepted # None
  \/ d.heartbeats.accepted # None

EntitySecs(dump, k) ==
  MapThenSumSet(LAMBDA i : dump.entities[i].secs,
                {i \in 1..Len(dump.entities) :
                   Key(dump.entities[i].project, dump.entities[i].name, "entity") = k})

DumpSlices(dump) ==
  LET left == dump.total - TotalOf(dump.entities, SecsOf)
      owned == [k \in {Key(e.project, e.name, "entity") : e \in ElementsOf(dump.entities)} |->
                  EntitySecs(dump, k)]
  IN  IF left > Divergence \/ dump.events # {}
      THEN Joined(owned, [k \in {Residual} |-> IF left > 0 THEN left ELSE 0])
      ELSE owned

(* A row for every project that is named.                                     *)
Registered(d, dump) ==
  d.projects \cup dump.projects \cup ({e.project : e \in dump.events} \ {None})

Imported(d, dump) ==
  [WithMembers(d, IdsOf(dump.events))
     EXCEPT !.total = dump.total, !.slices = DumpSlices(dump), !.dims = dump.dims,
            !.projects = Registered(d, dump),
            !.beats = Upserted(d.beats, dump.events, Registered(d, dump))]

-----------------------------------------------------------------------------
(* What the classification reads of the day.                                  *)

Touches(beat, k) ==
  IF k.kind = "unattributed_residual"
  THEN beat.project \in {k.project, None}
  ELSE beat.project = k.project /\ beat.entity = k.entity

Whos(d, k) == {d.beats[id].who : id \in {id \in d.active : Touches(d.beats[id], k)}}

(* A mark without a slice is shown all the same, with no seconds.             *)
Detached(d) ==
  [k \in DOMAIN d.allocations \ DOMAIN d.slices |-> [secs |-> 0, whos |-> {}]]

Telemetry(d) ==
  Joined([k \in DOMAIN d.slices |-> [secs |-> d.slices[k], whos |-> Whos(d, k)]], Detached(d))

EvidenceUsable(d) ==
  d.heartbeats.evidence /\ d.heartbeats.status = "clean" /\ d.active # {}

(* Mutant: What was measured is not part of what a preview is bound to.       *)
DigestOfChoices == <<revision, rules, day.allocations>>

(* What a preview is bound to: the choices of the operator and the            *)
(* measurements they were applied to.                                         *)
TelemetryDigest == Telemetry(day)
Digest == <<revision, rules, day.allocations, TelemetryDigest>>

-----------------------------------------------------------------------------
(* The day worker, from the answers on.  It notes how each layer was answered *)
(* and commits, with nothing in between but the end of the process.           *)

StatusOf(result) == IF result.kind = "complete" THEN "clean" ELSE result.kind

(* A day that was not read, or has no seconds, is not asked for heartbeats.   *)
Candidate(sum, hb) ==
  (sum.kind # "complete" \/ sum.value.zero) <=> hb.kind = "skipped"

Attempt(sum, hb) == [summaries |-> StatusOf(sum), heartbeats |-> StatusOf(hb)]
Attempts ==
  {Attempt(c[1], c[2]) : c \in {c \in Summaries \X Heartbeats : Candidate(c[1], c[2])}}

Noted(d, attempt) ==
  [d EXCEPT !.summaries = Attempted(d.summaries, attempt.summaries),
            !.heartbeats = IF attempt.heartbeats = "skipped" THEN d.heartbeats
                           ELSE Attempted(d.heartbeats, attempt.heartbeats)]

SyncDay(sum, hb) ==
  /\ Candidate(sum, hb) /\ sum.kind = "complete"
  /\ LET noted == Noted(day, Attempt(sum, hb))
     IN  /\ day' = Reconciled(noted, sum.value, hb)
         /\ revision' = revision + Moved(day.allocations, day'.allocations)
  /\ revision' <= MaxRevision
  /\ UNCHANGED <<rules, preview>>

(* A day that was not read; or one that was, but is cancelled, too large, of  *)
(* another zone or of an older connection, or its process ends: the notes     *)
(* stay, and nothing else is stored.                                          *)
MissDay(attempt) ==
  /\ day' = Noted(day, attempt)
  /\ UNCHANGED <<rules, revision, preview>>

(* Refused as a whole if the day, or one of the events, is known.             *)
ImportDay(dump) ==
  /\ ~Seen(day)
  /\ IdsOf(dump.events) \cap DOMAIN day.beats = {}
  /\ \A a, b \in dump.events : a.id = b.id => a.payload = b.payload
  /\ day' = Imported(day, dump)
  /\ UNCHANGED <<rules, revision, preview>>

-----------------------------------------------------------------------------
(* The operator.                                                              *)

PreviewRuleChange(op) ==
  /\ revision < MaxRevision
  /\ Possible(rules, op)
  /\ preview' = [op |-> op, seen |-> Digest,
                 effect |-> Changes(rules, Applied(rules, op, revision), Telemetry(day), day.allocations)]
  /\ UNCHANGED <<day, rules, revision>>

ConfirmRuleChange ==
  /\ preview # None
  /\ revision < MaxRevision
  /\ preview.seen = Digest
  /\ rules' = Applied(rules, preview.op, revision)
  /\ revision' = revision + 1
  /\ preview' = None
  /\ UNCHANGED day

RejectStalePreview ==
  /\ preview # None
  /\ preview.seen # Digest
  /\ preview' = None
  /\ UNCHANGED <<day, rules, revision>>

(* From the command line, without a preview: some are created, then some      *)
(* deleted, each a revision.  That the rules are those analysed is not asked. *)
Consolidated(m) ==
  [id \in RuleIds |->
     CASE id \in m.deletes -> None
       [] id \in DOMAIN m.creates -> [m.creates[id] EXCEPT !.created = revision + 1]
       [] OTHER -> rules[id]]

ConsolidateRules(m) ==
  /\ ValidManifest(m) /\ Fits(rules, m)
  /\ rules' = Consolidated(m)
  /\ revision' = revision + Cardinality(DOMAIN m.creates) + Cardinality(m.deletes)
  /\ revision' <= MaxRevision
  /\ UNCHANGED <<day, preview>>

(* A form names the project and the entity: the slice must be the only one.    *)
IsNamed(k) ==
  \A other \in DOMAIN day.slices :
    (other.project = k.project /\ other.entity = k.entity) => other = k

Placed(k, class) ==
  Joined([m \in {k} |-> Mark("active", class, day.slices[m])], day.allocations)
Removed(k) == [m \in DOMAIN day.allocations \ {k} |-> day.allocations[m]]

WithAllocations(allocations, changes) ==
  /\ day' = [day EXCEPT !.allocations = allocations]
  /\ revision' = revision + changes
  /\ revision' <= MaxRevision
  /\ UNCHANGED <<rules, preview>>

(* A slice that is marked already is a conflict, and the operator is asked.    *)
CreateAllocation(k, class) ==
  /\ IsNamed(k) /\ k \notin DOMAIN day.allocations
  /\ WithAllocations(Placed(k, class), 1)

(* The old mark goes and a new one comes; it need not be there any more.       *)
ReplaceAllocation(k, class) ==
  /\ IsNamed(k)
  /\ WithAllocations(Placed(k, class), IF k \in DOMAIN day.allocations THEN 2 ELSE 1)

DeleteAllocation(k) == WithAllocations(Removed(k), 1)

-----------------------------------------------------------------------------
Init ==
  /\ day = EmptyDay
  /\ rules = [id \in RuleIds |-> None]
  /\ revision = 0
  /\ preview = None

Next ==
  \/ \E sum \in Summaries, hb \in Heartbeats : SyncDay(sum, hb)
  \/ \E attempt \in Attempts : MissDay(attempt)
  \/ \E dump \in Dumps : ImportDay(dump)
  \/ \E id \in RuleIds, rule \in Rules :
       PreviewRuleChange(Created(id, rule)) \/ PreviewRuleChange(Updated(id, rule))
  \/ \E id \in RuleIds : PreviewRuleChange(Deleted(id))
  \/ ConfirmRuleChange
  \/ RejectStalePreview
  \/ \E m \in Manifests : ConsolidateRules(m)
  \/ \E k \in DOMAIN day.slices, class \in Classes :
       CreateAllocation(k, class) \/ ReplaceAllocation(k, class)
  \/ \E k \in DOMAIN day.allocations : DeleteAllocation(k)

Spec == Init /\ [][Next]_vars

-----------------------------------------------------------------------------
(* Properties.                                                                *)

(* Slices, total and dimensions are those of the answer accepted last, and    *)
(* the slices add up to the total: no sequence of changed, poorer, repeated   *)
(* and failed answers leaves a row of another answer behind.                  *)
OneSnapshot ==
  LET a == day.summaries.accepted
  IN  a # None =>
        /\ day.slices = a.slices /\ day.total = a.total /\ day.dims = a.dims
        /\ Agree(SliceTotal(day.slices), day.total)

(* The entities of a project are lost only to an answer that says the day, or *)
(* the project, had no seconds at all.                                        *)
DetailSurvives ==
  [][\A p \in DetailedIn(day.slices) \ DetailedIn(day'.slices) :
       LET a == day'.summaries.accepted
       IN  /\ a # None
           /\ a.zero \/ (p \in DOMAIN a.scopes /\ \A k \in DOMAIN a.slices : k.project # p)]_day

(* A mark counts exactly while its slice exists, for the seconds the slice    *)
(* has, whatever answers replaced the day since the operator made it.         *)
AllocationsFollow ==
  \A k \in DOMAIN day.allocations :
    /\ day.allocations[k].state = "active" <=> k \in DOMAIN day.slices
    /\ k \in DOMAIN day.slices => Agree(day.allocations[k].secs, day.slices[k])

(* Evidence is never claimed of other answers: a summary is held to be backed *)
(* only while the heartbeats are evidence, or it has no seconds to back, and  *)
(* then the members of the day are those of the heartbeats accepted last.     *)
EvidenceAgrees ==
  /\ day.summaries.evidence => day.summaries.accepted.zero \/ day.heartbeats.evidence
  /\ day.heartbeats.evidence =>
       /\ day.heartbeats.accepted # None
       /\ day.active = IdsOf(day.heartbeats.accepted.events)

(* What is stored of a day is one answer, and what is said of it holds.       *)
DayIsOneAnswer == OneSnapshot /\ EvidenceAgrees

(* A confirmed change moves exactly the slices the operator was shown, though *)
(* synchronisations, imports, marks and other changes may come between the    *)
(* preview and the confirmation; on a day of usable evidence the screen moves *)
(* as was announced.                                                          *)
ConfirmedAsPreviewed ==
  [][(preview # None /\ preview' = None) =>
       /\ Changes(rules, rules', Telemetry(day), day.allocations) = preview.effect
       /\ EvidenceUsable(day) =>
            ShownChanges(rules, rules', Telemetry(day), day.allocations, TRUE) = preview.effect]_rules
=============================================================================
