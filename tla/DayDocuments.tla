----------------------------- MODULE DayDocuments -----------------------------
(* The two documents WakaTime answers for a day, and what each is normalised  *)
(* to: the summary, with its seconds by project and by entity, becomes slices *)
(* that add up to the day's total; the heartbeats become a set of events.  A  *)
(* document that is not wholly sound is refused as a whole.                   *)
(*                                                                            *)
(* A summary document is a record                                             *)
(*   sound    : every field has its type, every count is an integer >= 0      *)
(*   refusal  : the body itself says 402 or 403                               *)
(*   dates    : the dates it has a record for                                 *)
(*   zone     : the time zone it names, or None                               *)
(*   total    : the seconds of the day                                        *)
(*   projects : a sequence of [name, secs, detail, entities]; "detail" is     *)
(*              "absent", "empty" or "present", and entities a sequence of    *)
(*              [name, secs]                                                  *)
(*   dims     : a sequence of [project, name, secs]: the seconds a project    *)
(*              spent in a category or a language                             *)
(* and a document of heartbeats                                               *)
(*   sound, dates, zone                                                       *)
(*   events   : a sequence of [id, day, project, entity, who, payload], where *)
(*              "who" is the machine and editor it names                      *)
EXTENDS Integers, Sequences, FiniteSetsExt

CONSTANTS
  Tolerance,     \* the largest difference of durations taken as equal
  Unattributed,  \* the project, and the entity, of seconds nobody claims
  None

ASSUME DocumentsAssumption == Tolerance \in Nat

ElementsOf(s) == {s[i] : i \in 1..Len(s)}
Distinct(s, key(_)) == \A i, j \in 1..Len(s) : key(s[i]) = key(s[j]) => i = j
NameOf(x) == x.name
DimensionKey(d) == <<d.project, d.name>>
TotalOf(s, secs(_)) == MapThenSumSet(LAMBDA i : secs(s[i]), 1..Len(s))
SecsOf(x) == x.secs

Failed == [kind |-> "failed"]
Complete(value) == [kind |-> "complete", value |-> value]

-----------------------------------------------------------------------------
(* The summary.                                                               *)

(* Neither zone is known, or they differ.                                     *)
ZoneClashes(named, pinned) ==
  \/ named = None /\ pinned = None
  \/ named # None /\ pinned # None /\ named # pinned

Zone(named, pinned) == IF named # None THEN named ELSE pinned

Detailed(p) == p.detail = "present" /\ p.entities # <<>>

(* Project names, the entities of a project and the dimensions are keys, and  *)
(* nothing has negative seconds.                                              *)
EntitiesAreKeys(p) ==
  /\ Distinct(p.entities, NameOf)
  /\ \A e \in ElementsOf(p.entities) : e.secs >= 0

WellFormed(doc) ==
  /\ doc.sound
  /\ doc.total >= 0
  /\ Distinct(doc.projects, NameOf)
  /\ \A p \in ElementsOf(doc.projects) : p.secs >= 0 /\ EntitiesAreKeys(p)

DimensionsAreKeys(doc) == Distinct(doc.dims, DimensionKey)

(* Seconds may be missing at any level, but never too many.                   *)
Overcounts(doc) ==
  \/ \E p \in ElementsOf(doc.projects) :
       Detailed(p) /\ TotalOf(p.entities, SecsOf) - p.secs > Tolerance
  \/ TotalOf(doc.projects, SecsOf) - doc.total > Tolerance

(* A day is a verified zero if it says so at every level.                     *)
VerifiedZero(doc) ==
  /\ doc.total = 0
  /\ \A p \in ElementsOf(doc.projects) : p.secs = 0 /\ p.detail = "empty"

Fidelity(doc) ==
  IF VerifiedZero(doc) THEN "verified_zero"
  ELSE IF \E p \in ElementsOf(doc.projects) : Detailed(p) THEN "entity_detail"
  ELSE "coarse_project"

Key(project, entity, kind) == [project |-> project, entity |-> entity, kind |-> kind]
Residual == Key(Unattributed, Unattributed, "unattributed_residual")

(* What a project has beyond its entities, and the day beyond its projects.   *)
CoarseSecs(p) == IF Detailed(p) THEN p.secs - TotalOf(p.entities, SecsOf) ELSE p.secs
ResidualSecs(doc) == doc.total - TotalOf(doc.projects, SecsOf)

(* One slice for every entity, even of no seconds, and one for each positive  *)
(* remainder.                                                                 *)
Slices(doc) ==
  LET entitySlices == UNION {{<<Key(p.name, e.name, "entity"), e.secs>> : e \in ElementsOf(p.entities)} :
                                p \in {p \in ElementsOf(doc.projects) : Detailed(p)}}
      projectSlices == {<<Key(p.name, p.name, "project_summary"), CoarseSecs(p)>> :
                          p \in {p \in ElementsOf(doc.projects) : CoarseSecs(p) > 0}}
      residualSlice == {<<Residual, r>> : r \in {r \in {ResidualSecs(doc)} : r > 0}}
      all == IF VerifiedZero(doc) THEN {} ELSE entitySlices \cup projectSlices \cup residualSlice
  IN  [k \in {s[1] : s \in all} |-> (CHOOSE s \in all : s[1] = k)[2]]

SliceTotal(slices) == MapThenSumSet(LAMBDA k : slices[k], DOMAIN slices)
Abs(n) == IF n < 0 THEN -n ELSE n
Agree(a, b) == Abs(a - b) <= Tolerance

Scopes(doc) == [n \in {p.name : p \in ElementsOf(doc.projects)} |->
                  (CHOOSE p \in ElementsOf(doc.projects) : p.name = n).detail]

(* The whole of what is accepted; two days are the same when their values are. *)
SummaryValue(doc, date, pinned) ==
  [date |-> date, zone |-> Zone(doc.zone, pinned), total |-> doc.total,
   fidelity |-> Fidelity(doc), zero |-> VerifiedZero(doc), scopes |-> Scopes(doc),
   slices |-> Slices(doc), dims |-> ElementsOf(doc.dims)]

NormalizeSummary(doc, date, pinned) ==
  IF doc.refusal THEN [kind |-> "restricted"]
  ELSE IF \/ date \notin doc.dates
          \/ ZoneClashes(doc.zone, pinned)
          \/ ~WellFormed(doc)
          \/ Overcounts(doc)
          \/ ~Agree(SliceTotal(Slices(doc)), doc.total)
          \/ ~DimensionsAreKeys(doc)
       THEN Failed
       ELSE Complete(SummaryValue(doc, date, pinned))

-----------------------------------------------------------------------------
(* The heartbeats.                                                            *)

(* Two events of one name are one event, or the document contradicts itself.  *)
Contradicts(doc) ==
  \E a, b \in ElementsOf(doc.events) : a.id = b.id /\ a.payload # b.payload

StraysFrom(doc, date) == \E e \in ElementsOf(doc.events) : e.day # date

HeartbeatsValue(doc, date, pinned) ==
  [date |-> date, zone |-> IF pinned # None THEN pinned ELSE doc.zone,
   events |-> ElementsOf(doc.events)]

NormalizeHeartbeats(doc, date, pinned) ==
  IF \/ ~doc.sound
     \/ date \notin doc.dates
     \/ ZoneClashes(doc.zone, pinned)
     \/ StraysFrom(doc, date)
     \/ Contradicts(doc)
  THEN Failed
  ELSE Complete(HeartbeatsValue(doc, date, pinned))
=============================================================================
