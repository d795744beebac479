-------------------------- MODULE DayQualityProofs --------------------------
(* Theorems about what is said of a date: for any contents, ages and          *)
(* thresholds.  The writers meet in two facts: what the summaries' layer has  *)
(* accepted is what is stored, and unless it is in doubt the heartbeats were  *)
(* accepted with it.                                                          *)
EXTENDS DayQuality, TLAPS

Statuses == {"pending", "running", "skipped", "cancelled", "interrupted", "failed", "partial", "succeeded"}
RowRecords ==
  [status : Statuses, disposition : {None, "preserved", "rejected", "unchanged", "updated"},
   restricted : SUBSET Layers, mode : Modes, zero : BOOLEAN]
WorkRecords ==
  [newest : BOOLEAN, mode : Modes, sum : Answers, content : Contents \cup {None},
   hb : Answers \cup {"skipped"}, dur : Answers \cup {"skipped"}, result : RowRecords \cup {None}]
AnyLayer == LayerRecords(Contents) \cup LayerRecords({"events"}) \cup {None}

LayersOK ==
  /\ layer \in [Layers -> AnyLayer]
  /\ layer["summaries"] \in LayerRecords(Contents) \cup {None}

TypeInv ==
  /\ now \in Nat /\ archive \in Contents \cup {None} /\ LayersOK
  /\ row \in RowRecords \cup {None} /\ work \in WorkRecords \cup {None}

(* A day that is worked on has been attempted.                                *)
WorkInv ==
  work # None => layer["summaries"] # None /\ ((work.sum = "complete") <=> work.content # None)

(* So has one whose newest row claims a result.                               *)
RowInv ==
  (row # None /\ (row.status = "succeeded" \/ row.disposition \in {"unchanged", "updated"}))
    => layer["summaries"] # None

(* What was accepted is what is stored, and it is in doubt unless the day is  *)
(* empty or its heartbeats were accepted at the same time.                    *)
AcceptedInv ==
  Row(layer["summaries"]).accepted # None =>
    /\ Row(layer["summaries"]).accepted = archive
    /\ \/ Row(layer["summaries"]).evidence = FALSE
       \/ Zero(archive)
       \/ Row(layer["heartbeats"]).success = Row(layer["summaries"]).success

(* A row that tells of a zero that was updated, and a result that is still to  *)
(* be repeated, tell of what is stored, unless another run came in between.    *)
ZeroInv ==
  /\ row # None /\ row.zero => overtaken \/ (archive # None /\ Zero(archive))
  /\ work # None /\ work.result # None /\ work.newest /\ work.result.zero
       => archive # None /\ Zero(archive)

Inv == TypeInv /\ WorkInv /\ RowInv /\ AcceptedInv /\ ZeroInv

-----------------------------------------------------------------------------
(* Records of a layer.                                                        *)

LEMMA NoneIsApart ==
  /\ None \notin Contents /\ None \notin Nat /\ None # FALSE /\ None # "unchanged" /\ None # "updated"
  /\ None \notin LayerRecords(Contents) /\ None \notin LayerRecords({"events"})
BY QualityAssumption

(* An attempt sets the flags and keeps what was accepted.                     *)
LEMMA AttemptKeeps ==
  ASSUME NEW what, NEW l \in LayerRecords(what) \cup {None}, NEW trouble \in Troubles,
         None \notin LayerRecords(what)
  PROVE  /\ Attempted(l, trouble) \in LayerRecords(what) /\ Attempted(l, trouble) # None
         /\ Row(Attempted(l, trouble)).success = Row(l).success
         /\ Row(Attempted(l, trouble)).accepted = Row(l).accepted
         /\ Row(Attempted(l, trouble)).evidence = Row(l).evidence
<1>1. Row(l) \in LayerRecords(what)
  BY DEF Row, NewLayer, LayerRecords, Troubles
<1>2. Attempted(l, trouble) \in LayerRecords(what)
      /\ Attempted(l, trouble).success = Row(l).success
      /\ Attempted(l, trouble).accepted = Row(l).accepted
      /\ Attempted(l, trouble).evidence = Row(l).evidence
  BY <1>1 DEF Attempted, LayerRecords
<1>3. Attempted(l, trouble) # None
  BY <1>2
<1>4. Row(Attempted(l, trouble)) = Attempted(l, trouble)
  BY <1>3 DEF Row
<1> QED
  BY <1>2, <1>3, <1>4

(* The layers other than the summaries.                                       *)
LEMMA AttemptKeepsAny ==
  ASSUME NEW l \in AnyLayer, NEW trouble \in Troubles
  PROVE  /\ Attempted(l, trouble) \in AnyLayer
         /\ Row(Attempted(l, trouble)).success = Row(l).success
<1>1. CASE l \in LayerRecords(Contents) \cup {None}
  BY <1>1, AttemptKeeps, NoneIsApart DEF AnyLayer
<1>2. CASE l \in LayerRecords({"events"})
  BY <1>2, AttemptKeeps, NoneIsApart DEF AnyLayer
<1> QED
  BY <1>1, <1>2 DEF AnyLayer

LEMMA DoubtIsTyped ==
  ASSUME NEW l \in AnyLayer
  PROVE  Doubted(l) \in AnyLayer
<1>1. Row(l) \in LayerRecords(Contents) \cup LayerRecords({"events"})
  BY DEF AnyLayer, Row, NewLayer, LayerRecords, Troubles
<1>2. ASSUME NEW what, Row(l) \in LayerRecords(what)
      PROVE  Doubted(l) \in LayerRecords(what)
  BY <1>2 DEF Doubted, LayerRecords
<1> QED
  BY <1>1, <1>2 DEF AnyLayer

LEMMA AcceptIsTyped ==
  ASSUME NEW l, NEW what, NEW content \in what, NEW evidence \in BOOLEAN, now \in Nat,
         None \notin LayerRecords(what)
  PROVE  /\ Accepted(l, content, evidence) \in LayerRecords(what)
         /\ Row(Accepted(l, content, evidence)) =
              [success |-> now, accepted |-> content, evidence |-> evidence, trouble |-> "clean"]
<1>1. Accepted(l, content, evidence) \in LayerRecords(what)
  BY DEF Accepted, LayerRecords, Troubles
<1>2. Accepted(l, content, evidence) # None
  BY <1>1
<1> QED
  BY <1>1, <1>2 DEF Accepted, Row

LEMMA DayRowIsTyped ==
  ASSUME NEW status \in Statuses,
         NEW disposition \in {None, "preserved", "rejected", "unchanged", "updated"},
         NEW restricted \in SUBSET Layers, NEW mode \in Modes
  PROVE  /\ DayRow(status, disposition, restricted, mode) \in RowRecords
         /\ DayRow(status, disposition, restricted, mode).status = status
         /\ DayRow(status, disposition, restricted, mode).disposition = disposition
BY DEF DayRow, RowRecords

LEMMA RestrictionsAreLayers ==
  ASSUME NEW w
  PROVE  RestrictedOf(w) \subseteq Layers
BY DEF RestrictedOf

-----------------------------------------------------------------------------
(* The row of the date, and the day under way.                                *)

(* Where a row comes from: it was there, it is blank, or the worker wrote it. *)
RowStep ==
  \/ row' = row
  \/ row' \in RowRecords /\ (work # None \/ layer'["summaries"] # None)
  \/ row' \in RowRecords /\ row'.status # "succeeded" /\ row'.disposition = None

(* The worker gives the day back, or notes how it ended.                      *)
WorkGoesOn ==
  work' # None =>
    /\ work # None /\ work' \in WorkRecords
    /\ work'.sum = work.sum /\ work'.content = work.content

LEMMA ShownRow ==
  ASSUME TypeInv, work # None, NEW r \in RowRecords, Shown(r)
  PROVE  RowStep
BY DEF Shown, RowStep

LEMMA QueueStep ==
  ASSUME TypeInv, NEW mode \in Modes, QueueDay(mode)
  PROVE  RowStep /\ WorkGoesOn /\ UNCHANGED <<now, archive, layer>>
<1>1. PICK r : r = DayRow("pending", None, {}, mode)
  OBVIOUS
<1>2. r \in RowRecords /\ r.status = "pending" /\ r.disposition = None
  BY <1>1, DayRowIsTyped DEF Statuses
<1>3. row' = r /\ UNCHANGED <<now, archive, layer>>
      /\ work' = IF work = None THEN None ELSE [work EXCEPT !.newest = FALSE]
  BY <1>1 DEF QueueDay
<1>4. RowStep
  BY <1>2, <1>3 DEF RowStep
<1> QED
  BY <1>3, <1>4 DEF TypeInv, WorkRecords, WorkGoesOn

(* A step that leaves what is stored, and notes at most attempts.             *)
LayersNoted ==
  /\ UNCHANGED archive /\ LayersOK'
  /\ Row(layer'["summaries"]).success = Row(layer["summaries"]).success
  /\ Row(layer'["summaries"]).accepted = Row(layer["summaries"]).accepted
  /\ Row(layer'["summaries"]).evidence = Row(layer["summaries"]).evidence
  /\ Row(layer'["heartbeats"]).success = Row(layer["heartbeats"]).success
  /\ layer["summaries"] # None => layer'["summaries"] # None

LEMMA LayersStay ==
  ASSUME TypeInv, UNCHANGED <<archive, layer>>
  PROVE  LayersNoted
BY DEF TypeInv, LayersOK, LayersNoted

LEMMA NotedKeeps ==
  ASSUME TypeInv
  PROVE  /\ Row(None) = NewLayer
         /\ \A x \in Layers, answer \in Answers \cup {"skipped"} :
              /\ Noted(x, answer) \in AnyLayer
              /\ Row(Noted(x, answer)).success = Row(layer[x]).success
         /\ \A answer \in Answers :
              /\ Noted("summaries", answer) \in LayerRecords(Contents)
              /\ Row(Noted("summaries", answer)).accepted = Row(layer["summaries"]).accepted
              /\ Row(Noted("summaries", answer)).evidence = Row(layer["summaries"]).evidence
<1>1. \A answer \in Answers : TroubleOf(answer) \in Troubles /\ answer # "skipped"
  BY DEF Answers, TroubleOf, Troubles
<1>2. ASSUME NEW x \in Layers, NEW answer \in Answers \cup {"skipped"}
      PROVE  Noted(x, answer) \in AnyLayer /\ Row(Noted(x, answer)).success = Row(layer[x]).success
  <2>1. layer[x] \in AnyLayer
    BY DEF TypeInv, LayersOK
  <2>2. CASE answer = "skipped"
    BY <2>1, <2>2 DEF Noted
  <2>3. CASE answer \in Answers
    <3>1. PICK l \in AnyLayer : l = layer[x]
      BY <2>1
    <3> QED
      BY <1>1, <2>3, <3>1, AttemptKeepsAny DEF Noted
  <2> QED
    BY <2>2, <2>3
<1>3. ASSUME NEW answer \in Answers
      PROVE  /\ Noted("summaries", answer) \in LayerRecords(Contents)
             /\ Row(Noted("summaries", answer)).accepted = Row(layer["summaries"]).accepted
             /\ Row(Noted("summaries", answer)).evidence = Row(layer["summaries"]).evidence
  <2>1. PICK l \in LayerRecords(Contents) \cup {None} : l = layer["summaries"]
    BY DEF TypeInv, LayersOK
  <2> QED
    BY <1>1, <2>1, AttemptKeeps, NoneIsApart DEF Noted
<1>4. Row(None) = NewLayer
  BY DEF Row
<1> QED
  BY <1>2, <1>3, <1>4

LEMMA FetchStep ==
  ASSUME TypeInv, NEW newest \in BOOLEAN, NEW mode \in Modes, NEW r \in Reports[mode],
         FetchDay(newest, mode, r)
  PROVE  /\ LayersNoted /\ RowStep /\ now' = now
         /\ work' \in WorkRecords /\ layer'["summaries"] # None
         /\ (work'.sum = "complete") <=> work'.content # None
<1>1. PICK a, b, c : a = Noted("summaries", r.sum) /\ b = Noted("heartbeats", r.hb)
                     /\ c = IF r.held THEN layer["durations"] ELSE Noted("durations", r.dur)
  OBVIOUS
<1>2. /\ work = None /\ IF newest THEN Waits /\ mode = row.mode ELSE older
      /\ layer' = [summaries |-> a, heartbeats |-> b, durations |-> c]
      /\ row' = IF newest THEN [row EXCEPT !.status = "running"] ELSE row
      /\ work' = [newest |-> newest, mode |-> mode, sum |-> r.sum, content |-> r.content,
                  hb |-> r.hb, dur |-> r.dur, result |-> None]
      /\ UNCHANGED <<now, archive>>
  BY <1>1 DEF FetchDay
<1>3. /\ r.sum \in Answers /\ r.content \in Contents \cup {None}
      /\ r.hb \in Answers \cup {"skipped"} /\ r.dur \in Answers \cup {"skipped"}
      /\ (r.sum = "complete") <=> r.content # None
  BY DEF Reports
<1>4. a \in LayerRecords(Contents) /\ a # None /\ a \in AnyLayer /\ b \in AnyLayer /\ c \in AnyLayer
  BY <1>1, <1>3, NotedKeeps, NoneIsApart DEF TypeInv, LayersOK, Layers
<1>5. layer'["summaries"] = a /\ layer'["heartbeats"] = b /\ layer' \in [Layers -> AnyLayer]
  BY <1>2, <1>4 DEF Layers
<1>6. LayersNoted
  <2>1. /\ Row(a).success = Row(layer["summaries"]).success
        /\ Row(a).accepted = Row(layer["summaries"]).accepted
        /\ Row(a).evidence = Row(layer["summaries"]).evidence
        /\ Row(b).success = Row(layer["heartbeats"]).success
    BY <1>1, <1>3, NotedKeeps DEF Layers
  <2>2. LayersOK'
    BY <1>4, <1>5 DEF LayersOK
  <2> QED
    BY <1>2, <1>4, <1>5, <2>1, <2>2 DEF LayersNoted
<1>7. RowStep
  <2>1. CASE ~newest
    BY <1>2, <2>1 DEF RowStep
  <2>2. CASE newest
    <3>1. row \in RowRecords
      BY <1>2, <2>2 DEF Waits, RowIs, TypeInv
    <3>2. row' \in RowRecords
      BY <1>2, <2>2, <3>1 DEF RowRecords, Statuses
    <3> QED
      BY <1>4, <1>5, <3>2 DEF RowStep
  <2> QED
    BY <2>1, <2>2
<1> QED
  BY <1>2, <1>3, <1>4, <1>5, <1>6, <1>7 DEF WorkRecords

LEMMA EndsStep ==
  ASSUME TypeInv, work # None, NEW written \in RowRecords, NEW status \in Statuses,
         NEW disposition \in {None, "preserved", "rejected", "unchanged", "updated"},
         Ends(written, status, disposition)
  PROVE  RowStep /\ WorkGoesOn /\ now' = now /\ work'.result.status = status
<1>1. work \in WorkRecords
  BY DEF TypeInv
<1>2. PICK r : r = Repeated(status, disposition)
  OBVIOUS
<1>3. r \in RowRecords /\ r.status = status
  <2>1. RestrictedOf(work) \in SUBSET Layers /\ work.mode \in Modes
    BY <1>1, RestrictionsAreLayers DEF WorkRecords
  <2> QED
    BY <1>2, <2>1 DEF Repeated, DayRow, RowRecords
<1>4. work' = [work EXCEPT !.result = r] /\ Shown(written) /\ now' = now
  BY <1>2 DEF Ends
<1>5. work' \in WorkRecords /\ work'.sum = work.sum /\ work'.content = work.content /\ work'.result = r
  BY <1>1, <1>3, <1>4 DEF WorkRecords
<1>6. RowStep
  BY <1>4, ShownRow
<1> QED
  BY <1>3, <1>4, <1>5, <1>6 DEF WorkGoesOn

LEMMA DropStep ==
  ASSUME TypeInv, NEW status \in {"skipped", "cancelled", "interrupted"}, DropDay(status)
  PROVE  RowStep /\ WorkGoesOn /\ UNCHANGED <<now, archive, layer>>
<1>1. row \in RowRecords /\ row' = DayRow(status, None, {}, row.mode)
      /\ UNCHANGED <<now, archive, layer, work>>
  BY DEF DropDay, Waits, RowIs, TypeInv
<1>2. row.mode \in Modes
  BY <1>1 DEF RowRecords
<1>3. row' \in RowRecords /\ row'.status # "succeeded" /\ row'.disposition = None
  BY <1>1, <1>2 DEF DayRow, RowRecords, Statuses
<1> QED
  BY <1>1, <1>3 DEF RowStep, WorkGoesOn, TypeInv

LEMMA RejectStep ==
  ASSUME TypeInv, NEW status \in {"failed", "cancelled", "interrupted"}, RejectDay(status)
  PROVE  RowStep /\ WorkGoesOn /\ UNCHANGED <<now, archive, layer>>
<1>1. PICK restricted : restricted = IF status = "failed" THEN RestrictedOf(work) ELSE {}
  OBVIOUS
<1>2. work \in WorkRecords /\ work # None /\ restricted \in SUBSET Layers
  BY <1>1, RestrictionsAreLayers DEF RejectDay, TypeInv
<1>3. PICK r : r = DayRow(status, None, restricted, work.mode)
  OBVIOUS
<1>4. r \in RowRecords
  BY <1>2, <1>3 DEF DayRow, RowRecords, WorkRecords, Statuses
<1>5. Shown(r) /\ work' = None /\ UNCHANGED <<now, archive, layer>>
  BY <1>1, <1>3 DEF RejectDay
<1> QED
  BY <1>2, <1>4, <1>5, ShownRow DEF WorkGoesOn

LEMMA RepeatStep ==
  ASSUME TypeInv, CoordinatorRepeats
  PROVE  RowStep /\ WorkGoesOn /\ UNCHANGED <<now, archive, layer>>
<1>1. work # None /\ work \in WorkRecords /\ Shown(work.result) /\ work' = None
      /\ work.result # None /\ UNCHANGED <<now, archive, layer>>
  BY DEF CoordinatorRepeats, TypeInv
<1>2. PICK r \in RowRecords : r = work.result
  BY <1>1 DEF WorkRecords
<1> QED
  BY <1>1, <1>2, ShownRow DEF WorkGoesOn

LEMMA CrashStep ==
  ASSUME TypeInv, Crash
  PROVE  RowStep /\ WorkGoesOn /\ UNCHANGED <<now, archive, layer>>
<1>1. work # None /\ work \in WorkRecords /\ work' = None /\ UNCHANGED <<now, archive, layer>>
      /\ IF work.result = None THEN Shown(DayRow("interrupted", None, {}, work.mode)) ELSE UNCHANGED row
  BY DEF Crash, TypeInv
<1>2. PICK r : r = DayRow("interrupted", None, {}, work.mode)
  OBVIOUS
<1>3. r \in RowRecords
  BY <1>1, <1>2 DEF DayRow, RowRecords, WorkRecords, Statuses
<1> QED
  BY <1>1, <1>2, <1>3, ShownRow DEF WorkGoesOn, RowStep

LEMMA UnreadStep ==
  ASSUME TypeInv, CommitUnread
  PROVE  RowStep /\ WorkGoesOn /\ UNCHANGED <<now, archive, layer>> /\ work'.result.status # "succeeded"
<1>1. work # None /\ work \in WorkRecords /\ work.mode \in Modes /\ UNCHANGED <<archive, layer>>
      /\ IF work.sum = "restricted"
         THEN Ends(DayRow("skipped", "preserved", {"summaries"}, work.mode), "skipped", "preserved")
         ELSE Ends(DayRow("failed", "rejected", {}, work.mode), "failed", "rejected")
  BY DEF CommitUnread, TypeInv, WorkRecords
<1>2. PICK r, q : r = DayRow("skipped", "preserved", {"summaries"}, work.mode)
                  /\ q = DayRow("failed", "rejected", {}, work.mode)
  OBVIOUS
<1>3. r \in RowRecords /\ q \in RowRecords
  BY <1>1, <1>2 DEF DayRow, RowRecords, Statuses, Layers
<1>4. "skipped" \in Statuses /\ "failed" \in Statuses
  BY DEF Statuses
<1>5. CASE work.sum = "restricted"
  BY <1>1, <1>2, <1>3, <1>4, <1>5, EndsStep
<1>6. CASE work.sum # "restricted"
  BY <1>1, <1>2, <1>3, <1>4, <1>6, EndsStep
<1> QED
  BY <1>5, <1>6

LEMMA PreservedStep ==
  ASSUME TypeInv, WorkInv, CommitPreserved
  PROVE  RowStep /\ WorkGoesOn /\ now' = now /\ LayersNoted /\ work'.result.status # "succeeded"
<1>1. work # None /\ work \in WorkRecords /\ work.mode \in Modes /\ UNCHANGED archive
      /\ layer' = [layer EXCEPT !["summaries"] = Attempted(layer["summaries"], "downgraded")]
      /\ Ends(DayRow("partial", "preserved", {}, work.mode), "partial", "preserved")
  BY DEF CommitPreserved, Ready, TypeInv, WorkRecords
<1>2. PICK r : r = DayRow("partial", "preserved", {}, work.mode)
  OBVIOUS
<1>3. r \in RowRecords /\ "partial" \in Statuses
  BY <1>1, <1>2 DEF DayRow, RowRecords, Statuses
<1>4. RowStep /\ WorkGoesOn /\ now' = now /\ work'.result.status = "partial"
  BY <1>1, <1>2, <1>3, EndsStep
<1>5. PICK l \in LayerRecords(Contents) \cup {None} : l = layer["summaries"]
  BY DEF TypeInv, LayersOK
<1>6. PICK k : k = Attempted(l, "downgraded")
  OBVIOUS
<1>7. k \in LayerRecords(Contents) /\ k # None /\ Row(k).success = Row(l).success
      /\ Row(k).accepted = Row(l).accepted /\ Row(k).evidence = Row(l).evidence
  BY <1>6, AttemptKeeps, NoneIsApart DEF Troubles
<1>8. layer' = [layer EXCEPT !["summaries"] = k] /\ layer \in [Layers -> AnyLayer]
  BY <1>1, <1>5, <1>6 DEF TypeInv, LayersOK
<1>9. layer'["summaries"] = k /\ layer'["heartbeats"] = layer["heartbeats"] /\ layer' \in [Layers -> AnyLayer]
  BY <1>7, <1>8 DEF Layers, AnyLayer
<1>10. LayersNoted
  BY <1>1, <1>5, <1>7, <1>9 DEF LayersNoted, LayersOK
<1> QED
  BY <1>4, <1>10

LEMMA HeartbeatsTyped ==
  ASSUME TypeInv, NEW outcome \in Answers \cup {"skipped", "conflict"}
  PROVE  /\ HeartbeatsAfter(outcome) \in AnyLayer
         /\ outcome = "complete" => Row(HeartbeatsAfter(outcome)).success = now
<1>1. PICK l \in AnyLayer : l = layer["heartbeats"]
  BY DEF TypeInv, LayersOK, Layers
<1>2. CASE outcome = "complete"
  <2>1. HeartbeatsAfter(outcome) = Accepted(l, "events", TRUE)
    BY <1>1, <1>2 DEF HeartbeatsAfter
  <2>2. PICK k : k = Accepted(l, "events", TRUE)
    OBVIOUS
  <2>3. k \in LayerRecords({"events"}) /\ Row(k).success = now
    <3>1. PICK what : what = {"events"}
      OBVIOUS
    <3>2. k \in LayerRecords(what)
          /\ Row(k) = [success |-> now, accepted |-> "events", evidence |-> TRUE, trouble |-> "clean"]
      BY <2>2, <3>1, AcceptIsTyped, NoneIsApart DEF TypeInv
    <3> QED
      BY <3>1, <3>2
  <2> QED
    BY <2>1, <2>2, <2>3 DEF AnyLayer
<1>3. CASE outcome = "skipped"
  BY <1>1, <1>3 DEF HeartbeatsAfter
<1>4. CASE outcome \in {"restricted", "failed", "conflict"}
  <2>1. PICK tried : tried = Attempted(l, outcome)
    OBVIOUS
  <2>2. tried \in AnyLayer /\ Doubted(tried) \in AnyLayer
    BY <1>4, <2>1, AttemptKeepsAny, DoubtIsTyped DEF Troubles
  <2>3. HeartbeatsAfter(outcome) = IF Unchanged THEN tried ELSE Doubted(tried)
    BY <1>1, <1>4, <2>1 DEF HeartbeatsAfter
  <2> QED
    BY <1>4, <2>2, <2>3
<1> QED
  BY <1>2, <1>3, <1>4 DEF Answers

(* What a commit leaves: the summaries accepted at this time, backed or in    *)
(* doubt, and what is stored is their content.                                *)
Committed(content, backed) ==
  /\ archive' = content /\ LayersOK' /\ layer'["summaries"] # None
  /\ Row(layer'["summaries"]) =
       [success |-> now, accepted |-> content, evidence |-> backed, trouble |-> "clean"]
  /\ backed => Zero(content) \/ Row(layer'["heartbeats"]).success = now

LEMMA AcceptedStep ==
  ASSUME TypeInv, WorkInv, NEW conflict \in BOOLEAN, CommitAccepted(conflict)
  PROVE  /\ RowStep /\ WorkGoesOn /\ now' = now
         /\ \E content \in Contents, backed \in BOOLEAN :
              /\ Committed(content, backed)
              /\ work'.result.status = "succeeded" => backed
<1>1. work # None /\ work \in WorkRecords /\ work.mode \in Modes /\ work.hb \in Answers \cup {"skipped"}
      /\ work.sum = "complete" /\ work.content \in Contents
  BY DEF CommitAccepted, Ready, TypeInv, WorkInv, WorkRecords
<1>2. PICK outcome : outcome = Outcome(conflict)
  OBVIOUS
<1>3. outcome \in Answers \cup {"skipped", "conflict"}
  BY <1>1, <1>2 DEF Outcome
<1>4. PICK content \in Contents : content = work.content
  BY <1>1
<1>5. PICK backed \in BOOLEAN : backed = Backed(outcome)
  BY DEF Backed
<1>6. PICK disposition \in {"unchanged", "updated"} : disposition = IF Unchanged THEN "unchanged" ELSE "updated"
  OBVIOUS
<1>7. PICK lowered \in BOOLEAN : lowered = (backed /\ work.dur \in {"restricted", "failed"})
  OBVIOUS
<1>8. PICK status \in {"partial", "succeeded"} :
        status = IF lowered THEN "partial" ELSE IF backed THEN "succeeded" ELSE "partial"
  OBVIOUS
<1>9. PICK r, q : /\ r = DayRow("partial", None, RestrictedOf(work) \cap {"durations"}, work.mode)
                  /\ q = DayRow(status, disposition, RestrictedOf(work) \cap {"heartbeats"}, work.mode)
  OBVIOUS
<1>10. r \in RowRecords /\ q \in RowRecords /\ status \in Statuses
  BY <1>1, <1>9 DEF DayRow, RowRecords, Statuses, Layers
<1>11. /\ layer' = [layer EXCEPT !["summaries"] = Accepted(layer["summaries"], content, backed),
                                 !["heartbeats"] = HeartbeatsAfter(outcome)]
       /\ Ends(IF lowered THEN r ELSE q, status, disposition)
       /\ archive' = content
  <2>1. (IF backed THEN "succeeded" ELSE "partial") = "succeeded" <=> backed
    OBVIOUS
  <2>2. lowered <=> ((IF Backed(outcome) THEN "succeeded" ELSE "partial") = "succeeded"
                       /\ work.dur \in {"restricted", "failed"})
    BY <1>5, <1>7, <2>1
  <2>3. LET reconciled == IF Backed(outcome) THEN "succeeded" ELSE "partial"
        IN  status = IF reconciled = "succeeded" /\ work.dur \in {"restricted", "failed"}
                     THEN "partial" ELSE reconciled
    BY <1>5, <1>8, <2>2
  <2> QED
    BY <1>2, <1>4, <1>5, <1>6, <1>9, <2>2, <2>3 DEF CommitAccepted
<1>12. RowStep /\ WorkGoesOn /\ now' = now /\ work'.result.status = status
  <2>1. PICK w \in RowRecords : w = IF lowered THEN r ELSE q
    BY <1>10
  <2> QED
    BY <1>1, <1>10, <1>11, <2>1, EndsStep
<1>13. status = "succeeded" => backed
  BY <1>8
<1>14. PICK a, b : a = Accepted(layer["summaries"], content, backed) /\ b = HeartbeatsAfter(outcome)
  OBVIOUS
<1>15. a \in LayerRecords(Contents)
       /\ Row(a) = [success |-> now, accepted |-> content, evidence |-> backed, trouble |-> "clean"]
  BY <1>14, AcceptIsTyped, NoneIsApart DEF TypeInv
<1>16. b \in AnyLayer /\ (outcome = "complete" => Row(b).success = now)
  BY <1>3, <1>14, HeartbeatsTyped
<1>17. layer' = [[layer EXCEPT !["summaries"] = a] EXCEPT !["heartbeats"] = b] /\ layer \in [Layers -> AnyLayer]
  BY <1>11, <1>14 DEF TypeInv, LayersOK
<1>18. layer'["summaries"] = a /\ layer'["heartbeats"] = b /\ layer' \in [Layers -> AnyLayer]
  BY <1>15, <1>16, <1>17 DEF Layers, AnyLayer
<1>19. backed => Zero(content) \/ Row(b).success = now
  BY <1>4, <1>5, <1>16 DEF Backed
<1>20. Committed(content, backed)
  BY <1>11, <1>15, <1>18, <1>19, NoneIsApart DEF Committed, LayersOK
<1> QED
  BY <1>12, <1>13, <1>20

-----------------------------------------------------------------------------
(* Every step.                                                                *)

(* A step that commits nothing and imports nothing.                           *)
LEMMA QuietStep ==
  ASSUME TypeInv, WorkInv, NEW mode \in Modes, NEW status \in Statuses,
         \/ QueueDay(mode)
         \/ status \in {"skipped", "cancelled", "interrupted"} /\ DropDay(status)
         \/ status \in {"failed", "cancelled", "interrupted"} /\ RejectDay(status)
         \/ CommitUnread \/ CommitPreserved \/ CoordinatorRepeats \/ Crash
         \/ DropOlder \/ ClockAdvances \/ UNCHANGED vars
  PROVE  RowStep /\ WorkGoesOn /\ now' \in Nat /\ LayersNoted
<1>1. ASSUME QueueDay(mode) \/ CommitUnread \/ CoordinatorRepeats \/ Crash
             \/ (status \in {"skipped", "cancelled", "interrupted"} /\ DropDay(status))
             \/ (status \in {"failed", "cancelled", "interrupted"} /\ RejectDay(status))
      PROVE  RowStep /\ WorkGoesOn /\ now' \in Nat /\ LayersNoted
  <2>1. RowStep /\ WorkGoesOn /\ UNCHANGED <<now, archive, layer>>
    BY <1>1, QueueStep, UnreadStep, RepeatStep, CrashStep, DropStep, RejectStep
  <2> QED
    BY <2>1, LayersStay DEF TypeInv
<1>2. CASE CommitPreserved
  BY <1>2, PreservedStep DEF TypeInv
<1>3. CASE DropOlder \/ ClockAdvances \/ UNCHANGED vars
  <2>1. UNCHANGED <<archive, layer, row, work>> /\ now' \in Nat
    BY <1>3 DEF DropOlder, ClockAdvances, vars, rows, TypeInv
  <2> QED
    BY <2>1, LayersStay DEF TypeInv, RowStep, WorkGoesOn
<1> QED
  BY <1>1, <1>2, <1>3

LEMMA StepIsClassified ==
  ASSUME TypeInv, WorkInv, [Next]_vars
  PROVE  /\ RowStep /\ now' \in Nat
         /\ \/ LayersNoted
            \/ \E content \in Contents, backed \in BOOLEAN : Committed(content, backed)
            \/ /\ UNCHANGED layer /\ archive' \in Contents
               /\ Row(layer["summaries"]).accepted = None
         /\ \/ WorkGoesOn
            \/ /\ work' \in WorkRecords /\ layer'["summaries"] # None
               /\ (work'.sum = "complete") <=> work'.content # None
<1>1. ASSUME NEW content \in Contents, ImportDay(content)
      PROVE  RowStep /\ WorkGoesOn /\ now' \in Nat /\ UNCHANGED layer /\ archive' \in Contents
             /\ Row(layer["summaries"]).accepted = None
  <2>1. UNCHANGED <<now, layer, row, work>> /\ archive' = content
        /\ \A x \in Present : layer[x].accepted = None
    BY <1>1 DEF ImportDay, rows
  <2>2. Row(layer["summaries"]).accepted = None
    BY <2>1 DEF Present, Layers, Row, NewLayer
  <2> QED
    BY <2>1, <2>2 DEF TypeInv, RowStep, WorkGoesOn
<1>2. ASSUME NEW conflict \in BOOLEAN, CommitAccepted(conflict)
      PROVE  RowStep /\ WorkGoesOn /\ now' \in Nat
             /\ \E content \in Contents, backed \in BOOLEAN : Committed(content, backed)
  BY <1>2, AcceptedStep DEF TypeInv
<1>3. ASSUME NEW newest \in BOOLEAN, NEW mode \in Modes, NEW r \in Reports[mode],
             FetchDay(newest, mode, r)
      PROVE  /\ RowStep /\ now' \in Nat /\ LayersNoted
             /\ work' \in WorkRecords /\ layer'["summaries"] # None
             /\ (work'.sum = "complete") <=> work'.content # None
  BY <1>3, FetchStep DEF TypeInv
<1>4. ASSUME \/ \E mode \in Modes : QueueDay(mode)
             \/ \E status \in {"skipped", "cancelled", "interrupted"} : DropDay(status)
             \/ \E status \in {"failed", "cancelled", "interrupted"} : RejectDay(status)
             \/ CommitUnread \/ CommitPreserved \/ CoordinatorRepeats \/ Crash
             \/ DropOlder \/ ClockAdvances \/ UNCHANGED vars
      PROVE  RowStep /\ WorkGoesOn /\ now' \in Nat /\ LayersNoted
  <2>1. PICK m \in Modes : m = "recent"
    BY DEF Modes
  <2>2. PICK s \in Statuses : s = "failed"
    BY DEF Statuses
  <2>3. ASSUME NEW mode \in Modes, QueueDay(mode)
        PROVE  RowStep /\ WorkGoesOn /\ now' \in Nat /\ LayersNoted
    BY <2>2, <2>3, QuietStep
  <2>4. ASSUME NEW status \in {"skipped", "cancelled", "interrupted"}, DropDay(status)
        PROVE  RowStep /\ WorkGoesOn /\ now' \in Nat /\ LayersNoted
    BY <2>1, <2>4, QuietStep DEF Statuses
  <2>5. ASSUME NEW status \in {"failed", "cancelled", "interrupted"}, RejectDay(status)
        PROVE  RowStep /\ WorkGoesOn /\ now' \in Nat /\ LayersNoted
    BY <2>1, <2>5, QuietStep DEF Statuses
  <2>6. ASSUME CommitUnread \/ CommitPreserved \/ CoordinatorRepeats \/ Crash
               \/ DropOlder \/ ClockAdvances \/ UNCHANGED vars
        PROVE  RowStep /\ WorkGoesOn /\ now' \in Nat /\ LayersNoted
    BY <2>1, <2>2, <2>6, QuietStep
  <2> QED
    BY <1>4, <2>3, <2>4, <2>5, <2>6
<1> QED
  BY <1>1, <1>2, <1>3, <1>4 DEF Next

-----------------------------------------------------------------------------
(* What the newest row, and the result that is to follow it, tell of a zero.  *)

Tells(r) == r # None /\ r.zero

LEMMA BlankTellsNothing ==
  ASSUME NEW status, NEW disposition, NEW restricted, NEW mode
  PROVE  ~Tells(DayRow(status, disposition, restricted, mode))
BY DEF DayRow, Tells

LEMMA BlankShown ==
  ASSUME NEW status, NEW disposition, NEW restricted, NEW mode,
         Shown(DayRow(status, disposition, restricted, mode)), Tells(row')
  PROVE  Tells(row) /\ ~work.newest
<1>1. PICK r : r = DayRow(status, disposition, restricted, mode)
  OBVIOUS
<1>2. ~Tells(r) /\ Shown(r)
  BY <1>1, BlankTellsNothing
<1>3. row' = IF work.newest THEN r ELSE row
  BY <1>2 DEF Shown
<1>4. CASE work.newest
  <2>1. row' = r
    BY <1>3, <1>4
  <2> QED
    BY <1>2, <2>1
<1>5. CASE ~work.newest
  <2>1. row' = row
    BY <1>3, <1>5
  <2> QED
    BY <1>5, <2>1
<1> QED
  BY <1>4, <1>5

LEMMA ResultTold ==
  ASSUME TypeInv, work # None, NEW written, NEW status, NEW disposition,
         Ends(written, status, disposition)
  PROVE  /\ Shown(written) /\ work'.newest = work.newest
         /\ Tells(work'.result) => disposition = "updated" /\ Zero(work.content)
<1>1. PICK r : r = DayRow(status, IF status = "failed" THEN None ELSE disposition,
                         RestrictedOf(work), work.mode)
  OBVIOUS
<1>2. PICK q : q = Repeated(status, disposition)
  OBVIOUS
<1>3. q = [r EXCEPT !.zero = disposition = "updated" /\ Zero(work.content)]
  BY <1>1, <1>2 DEF Repeated
<1>4. q.zero => disposition = "updated" /\ Zero(work.content)
  BY <1>1, <1>3 DEF DayRow
<1>5. Shown(written) /\ work' = [work EXCEPT !.result = q]
  BY <1>2 DEF Ends
<1>6. work'.newest = work.newest /\ work'.result = q
  BY <1>5 DEF TypeInv, WorkRecords
<1> QED
  BY <1>4, <1>5, <1>6 DEF Tells

LEMMA ZeroStep ==
  ASSUME TypeInv, WorkInv, ZeroInv, [Next]_vars
  PROVE  ZeroInv'
<1>1. /\ Tells(row) => overtaken \/ (archive # None /\ Zero(archive))
      /\ work # None /\ work.newest /\ Tells(work.result) => archive # None /\ Zero(archive)
  BY DEF ZeroInv, Tells
<1>2. SUFFICES /\ Tells(row') => overtaken' \/ (archive' # None /\ Zero(archive'))
               /\ work' # None /\ work'.newest /\ Tells(work'.result)
                    => archive' # None /\ Zero(archive')
  BY DEF ZeroInv, Tells, Zero
<1>3. ASSUME NEW mode \in Modes, QueueDay(mode)
      PROVE  /\ ~Tells(row')
             /\ work' # None => ~work'.newest
  <2>1. PICK r : r = DayRow("pending", None, {}, mode)
    OBVIOUS
  <2>2. row' = r /\ work' = IF work = None THEN None ELSE [work EXCEPT !.newest = FALSE]
    BY <1>3, <2>1 DEF QueueDay
  <2> QED
    BY <2>1, <2>2, BlankTellsNothing DEF TypeInv, WorkRecords
<1>4. ASSUME NEW status, DropDay(status)
      PROVE  ~Tells(row') /\ UNCHANGED <<archive, work>>
  <2>1. PICK r, mode : mode = row.mode /\ r = DayRow(status, None, {}, mode)
    OBVIOUS
  <2>2. row' = r /\ UNCHANGED <<archive, work>>
    BY <1>4, <2>1 DEF DropDay
  <2> QED
    BY <2>1, <2>2, BlankTellsNothing
<1>5. ASSUME NEW newest \in BOOLEAN, NEW mode \in Modes, NEW r \in Reports[mode],
             FetchDay(newest, mode, r)
      PROVE  (Tells(row') => Tells(row)) /\ UNCHANGED <<archive, overtaken>> /\ ~Tells(work'.result)
  <2>1. /\ work'.result = None /\ UNCHANGED <<archive, overtaken>>
        /\ newest => RowIs("pending")
        /\ row' = IF newest THEN [row EXCEPT !.status = "running"] ELSE row
    BY <1>5 DEF FetchDay, history, Waits
  <2>2. newest => row \in RowRecords /\ row # None
    BY <2>1 DEF RowIs, TypeInv
  <2> QED
    BY <2>1, <2>2 DEF Tells, RowRecords
<1>6. ASSUME NEW status, RejectDay(status)
      PROVE  (Tells(row') => Tells(row)) /\ UNCHANGED <<archive, overtaken>> /\ work' = None
  <2>1. PICK restricted, mode : /\ restricted = IF status = "failed" THEN RestrictedOf(work) ELSE {}
                                /\ mode = work.mode
    OBVIOUS
  <2>2. Shown(DayRow(status, None, restricted, mode)) /\ UNCHANGED <<archive, overtaken>> /\ work' = None
    BY <1>6, <2>1 DEF RejectDay, history
  <2> QED
    BY <2>2, BlankShown
<1>7. CASE CommitUnread
  <2>1. PICK mode : mode = work.mode
    OBVIOUS
  <2>2. /\ work # None /\ UNCHANGED <<archive, overtaken>>
        /\ \/ Ends(DayRow("skipped", "preserved", {"summaries"}, mode), "skipped", "preserved")
           \/ Ends(DayRow("failed", "rejected", {}, mode), "failed", "rejected")
    BY <1>7, <2>1 DEF CommitUnread
  <2>3. ~Tells(work'.result) /\ (Tells(row') => Tells(row))
    BY <2>2, ResultTold, BlankShown
  <2> QED
    BY <1>1, <2>2, <2>3
<1>8. CASE CommitPreserved
  <2>1. PICK mode : mode = work.mode
    OBVIOUS
  <2>2. /\ work # None /\ UNCHANGED <<archive, overtaken>>
        /\ Ends(DayRow("partial", "preserved", {}, mode), "partial", "preserved")
    BY <1>8, <2>1 DEF CommitPreserved, Ready
  <2>3. ~Tells(work'.result) /\ (Tells(row') => Tells(row))
    BY <2>2, ResultTold, BlankShown
  <2> QED
    BY <1>1, <2>2, <2>3
<1>9. ASSUME NEW conflict \in BOOLEAN, CommitAccepted(conflict)
      PROVE  /\ Tells(row') => overtaken'
             /\ work'.newest /\ Tells(work'.result) => archive' # None /\ Zero(archive')
  <2>1. work # None /\ work \in WorkRecords /\ archive' = work.content
        /\ overtaken' = (~work.newest /\ row.zero)
    BY <1>9 DEF CommitAccepted, Ready, TypeInv
  <2>2. PICK status, disposition, how, asked, restricted, mode :
             Ends(DayRow(how, asked, restricted, mode), status, disposition)
    BY <1>9 DEF CommitAccepted
  <2>3. /\ Tells(row') => Tells(row) /\ ~work.newest
        /\ Tells(work'.result) => Zero(work.content)
    BY <2>1, <2>2, ResultTold, BlankShown
  <2>4. work.content # None
    BY <1>9 DEF CommitAccepted, Ready, WorkInv
  <2> QED
    BY <2>1, <2>3, <2>4 DEF Tells
<1>10. CASE CoordinatorRepeats
  <2>1. PICK r : r = work.result
    OBVIOUS
  <2>2. work # None /\ Shown(r) /\ work' = None /\ UNCHANGED <<archive, overtaken>>
    BY <1>10, <2>1 DEF CoordinatorRepeats, history
  <2>3. row' = IF work.newest THEN r ELSE row
    BY <2>2 DEF Shown
  <2> QED
    BY <1>1, <2>1, <2>2, <2>3
<1>11. CASE Crash
  <2>1. PICK mode : mode = work.mode
    OBVIOUS
  <2>2. /\ work' = None /\ UNCHANGED <<archive, overtaken>>
        /\ row' = row \/ Shown(DayRow("interrupted", None, {}, mode))
    BY <1>11, <2>1 DEF Crash, history
  <2>3. Tells(row') => Tells(row)
    BY <2>2, BlankShown
  <2> QED
    BY <1>1, <2>2, <2>3
<1>12. ASSUME NEW content \in Contents, ImportDay(content)
       PROVE  archive = None /\ UNCHANGED <<row, work, overtaken>>
  BY <1>12 DEF ImportDay, rows, history
<1>13. CASE DropOlder \/ ClockAdvances \/ UNCHANGED vars
  <2>1. UNCHANGED <<archive, row, work, overtaken>>
    BY <1>13 DEF DropOlder, ClockAdvances, vars, rows, history
  <2> QED
    BY <1>1, <2>1
<1>14. CASE \E mode \in Modes : QueueDay(mode)
  BY <1>3, <1>14
<1>15. CASE \E status \in {"skipped", "cancelled", "interrupted"} : DropDay(status)
  BY <1>1, <1>4, <1>15
<1>16. CASE \E newest \in BOOLEAN, mode \in Modes : \E r \in Reports[mode] : FetchDay(newest, mode, r)
  BY <1>1, <1>5, <1>16
<1>17. CASE \E status \in {"failed", "cancelled", "interrupted"} : RejectDay(status)
  BY <1>1, <1>6, <1>17
<1>18. CASE \E conflict \in BOOLEAN : CommitAccepted(conflict)
  BY <1>9, <1>18
<1>19. CASE \E content \in Contents : ImportDay(content)
  BY <1>1, <1>12, <1>19
<1> QED
  BY <1>7, <1>8, <1>10, <1>11, <1>13, <1>14, <1>15, <1>16, <1>17, <1>18, <1>19 DEF Next

LEMMA InvStep ==
  ASSUME Inv, [Next]_vars
  PROVE  Inv'
<1>1. TypeInv /\ WorkInv /\ RowInv /\ AcceptedInv /\ ZeroInv
  BY DEF Inv
<1>2. /\ RowStep /\ now' \in Nat
      /\ \/ LayersNoted
         \/ \E content \in Contents, backed \in BOOLEAN : Committed(content, backed)
         \/ /\ UNCHANGED layer /\ archive' \in Contents
            /\ Row(layer["summaries"]).accepted = None
      /\ \/ WorkGoesOn
         \/ /\ work' \in WorkRecords /\ layer'["summaries"] # None
            /\ (work'.sum = "complete") <=> work'.content # None
  BY <1>1, StepIsClassified
<1>3. layer["summaries"] # None => layer'["summaries"] # None
  BY <1>2 DEF LayersNoted, Committed
<1>4. archive' \in Contents \cup {None} /\ LayersOK'
  BY <1>1, <1>2 DEF LayersNoted, Committed, TypeInv, LayersOK
<1>5. TypeInv' /\ WorkInv'
  BY <1>1, <1>2, <1>3, <1>4 DEF TypeInv, RowStep, WorkGoesOn, WorkInv
<1>6. RowInv'
  BY <1>1, <1>2, <1>3, NoneIsApart DEF RowStep, RowInv, WorkInv
<1>7. AcceptedInv'
  <2>1. PICK a, b, c, d : /\ a = layer["summaries"] /\ b = layer'["summaries"]
                          /\ c = layer["heartbeats"] /\ d = layer'["heartbeats"]
    OBVIOUS
  <2>2. CASE LayersNoted
    BY <1>1, <2>2 DEF LayersNoted, AcceptedInv, Row
  <2>3. ASSUME NEW content \in Contents, NEW backed \in BOOLEAN, Committed(content, backed)
        PROVE  AcceptedInv'
    BY <2>3 DEF Committed, AcceptedInv, Row
  <2>4. CASE UNCHANGED layer /\ Row(layer["summaries"]).accepted = None
    BY <2>4 DEF AcceptedInv, Row
  <2> QED
    BY <1>2, <2>2, <2>3, <2>4
<1>8. ZeroInv'
  BY <1>1, ZeroStep
<1> QED
  BY <1>5, <1>6, <1>7, <1>8 DEF Inv

LEMMA InvInit ==
  ASSUME Init
  PROVE  Inv
BY DEF Init, Inv, TypeInv, LayersOK, AnyLayer, WorkInv, RowInv, AcceptedInv, ZeroInv, Row, NewLayer,
   Layers

LEMMA InvHolds == Spec => []Inv
BY InvInit, InvStep, PTL DEF Spec

-----------------------------------------------------------------------------
(* Theorems.                                                                  *)

LEMMA AsOfHolds ==
  ASSUME Inv
  PROVE  AsOfIsWhole
<1>1. PICK l : l = Row(layer["summaries"])
  OBVIOUS
<1>2. ASSUME McpQuality.asOf # None
      PROVE  /\ l.success # None /\ l.accepted # None /\ l.evidence # FALSE
             /\ McpQuality.asOf = l.success
  BY <1>1, <1>2 DEF McpQuality, Incomplete, Evidenced
<1>3. ASSUME McpQuality.asOf # None
      PROVE  layer["summaries"].accepted = archive
             /\ (Zero(archive) \/ layer["heartbeats"].success = McpQuality.asOf)
  <2>1. layer["summaries"] # None /\ l = layer["summaries"]
    BY <1>1, <1>2, <1>3 DEF Row, NewLayer
  <2>2. l.accepted = archive /\ (Zero(archive) \/ Row(layer["heartbeats"]).success = l.success)
    BY <1>1, <1>2, <1>3 DEF Inv, AcceptedInv
  <2>3. Row(layer["heartbeats"]).success # None => Row(layer["heartbeats"]) = layer["heartbeats"]
    BY DEF Row, NewLayer
  <2> QED
    BY <1>2, <1>3, <2>1, <2>2, <2>3
<1> QED
  BY <1>3 DEF AsOfIsWhole

LEMMA StricterHolds ==
  ASSUME Inv
  PROVE  AdminIsStricter
<1>1. PICK stale : stale = (AdminLooksStale \/ archive = None)
  OBVIOUS
<1>2. PICK status : status = AdminStatus(stale)
  OBVIOUS
<1>3. AdminQuality = [status |-> status,
                      stale |-> stale \/ status \in {"failed", "archived_detail_preserved"}]
  BY <1>1, <1>2 DEF AdminQuality
<1>4. SUFFICES ASSUME ~AdminQuality.stale,
                      status \in {"updated", "checked_unchanged", "verified_zero"}
               PROVE  ~McpQuality.stale
  BY <1>3 DEF AdminIsStricter
<1>5. archive # None /\ \A x \in Layers : layer[x] # None => Reasons(layer[x]) = {}
  BY <1>1, <1>3, <1>4 DEF AdminLooksStale, Present, Stale
<1>6. layer["summaries"] # None
  <2>1. SUFFICES ASSUME layer["summaries"] = None
                 PROVE  FALSE
    OBVIOUS
  <2>2. Row(layer["summaries"]) = NewLayer
    BY <2>1 DEF Row
  <2>3. ~RowSays("unchanged") /\ ~RowSays("updated") /\ ~RowIs("succeeded")
    BY <2>1 DEF Inv, RowInv, RowSays, RowIs
  <2>4. ~AdminVerifiedZero /\ ~NothingKnown
    BY <1>5, <2>2 DEF AdminVerifiedZero, NewLayer, NothingKnown
  <2>5. status \notin {"updated", "checked_unchanged", "verified_zero"}
    BY <1>2, <2>2, <2>3, <2>4 DEF AdminStatus, NewLayer
  <2> QED
    BY <1>4, <2>5
<1>7. Row(layer["summaries"]) = layer["summaries"] /\ Reasons(layer["summaries"]) = {}
  BY <1>5, <1>6 DEF Row, Layers
<1>8. layer["summaries"].success # None
  BY <1>7 DEF Reasons
<1> QED
  BY <1>5, <1>7, <1>8 DEF McpQuality

LEMMA ZeroHolds ==
  ASSUME Inv
  PROVE  ZeroIsVerified
<1>1. PICK l : l = Row(layer["summaries"])
  OBVIOUS
<1>2. l.accepted # None /\ l.accepted.fidelity = "verified_zero" => archive # None /\ Zero(archive)
  BY <1>1 DEF Inv, AcceptedInv, Zero
<1>3. PreviewQuality = "verified_zero" => l.accepted # None /\ l.accepted.fidelity = "verified_zero"
  BY <1>1 DEF PreviewQuality
<1>4. ASSUME AdminQuality.status = "verified_zero"
      PROVE  archive # None /\ ~archive.seconds /\ (Zero(archive) \/ overtaken)
  <2>1. PICK stale : stale = (AdminLooksStale \/ archive = None)
    OBVIOUS
  <2>2. AdminStatus(stale) = "verified_zero"
    BY <1>4, <2>1 DEF AdminQuality
  <2>3. AdminVerifiedZero
    BY <2>2 DEF AdminStatus
  <2>4. archive # None /\ ~archive.seconds /\ l.accepted # None
        /\ (l.accepted.fidelity = "verified_zero" \/ (row # None /\ row.zero))
    BY <1>1, <2>3 DEF AdminVerifiedZero, Evidenced
  <2> QED
    BY <1>2, <2>4 DEF Inv, ZeroInv
<1> QED
  BY <1>2, <1>3, <1>4 DEF ZeroIsVerified

(* What the pages and the MCP answers say of a day is true of it: the time of *)
(* an answer is that of one whole check, the operator's pages are never       *)
(* kinder than what agents are told, and a verified zero was verified, save   *)
(* on the admin pages of a date whose newest row another run overtook.        *)
THEOREM QualityStaysHonest == Spec => []QualityIsHonest
<1>1. Inv => QualityIsHonest
  BY AsOfHolds, StricterHolds, ZeroHolds DEF QualityIsHonest
<1> QED
  BY <1>1, InvHolds, PTL

(* What a day that succeeded leaves.                                          *)
LEMMA SuccessHeals ==
  ASSUME TypeInv, WorkInv, [Next]_vars, work # None, work' # None, work.result = None,
         work'.result # None, work'.result.status = "succeeded",
         archive'.seconds \/ Zero(archive')
  PROVE  McpQuality'.asOf = now
<1>1. ASSUME NEW content \in Contents, Committed(content, TRUE), now' = now
      PROVE  McpQuality'.asOf = now
  <2>1. PICK k : k = layer'["summaries"]
    OBVIOUS
  <2>2. /\ k # None /\ k.success = now /\ k.accepted = content /\ k.evidence = TRUE /\ k.trouble = "clean"
        /\ archive' = content /\ content # None /\ now # None /\ Row(k) = k
    BY <1>1, <2>1, NoneIsApart DEF Committed, Row, TypeInv
  <2>3. Row(layer["summaries"])' = k
    BY <2>1, <2>2 DEF Row
  <2>4. ~Overdue(now)
    <3>1. RecentHours \in Nat /\ ReconcileHours \in Nat /\ CompareHours \in Nat
      BY QualityAssumption
    <3>2. Threshold \in Nat
      BY <3>1 DEF Threshold
    <3>3. ~(now - now > Threshold)
      BY <3>2 DEF TypeInv
    <3> QED
      BY <3>3 DEF Overdue
  <2>5. ~Overdue(k.success)'
    BY <1>1, <2>2, <2>4 DEF Overdue, Threshold, Age
  <2>6. Reasons(k)' = {}
    BY <2>2, <2>5 DEF Reasons, TroubleReason
  <2>7. Evidenced(k) /\ ~UnverifiedZero(k)'
    BY <1>1, <2>2 DEF Evidenced, UnverifiedZero, Zero
  <2>8. ~Incomplete(k)'
    BY <2>2, <2>7 DEF Incomplete
  <2>9. McpQuality'.asOf = k.success
    BY <2>1, <2>2, <2>3, <2>6, <2>8 DEF McpQuality
  <2> QED
    BY <2>2, <2>9
<1>2. ASSUME NEW conflict \in BOOLEAN, CommitAccepted(conflict)
      PROVE  McpQuality'.asOf = now
  BY <1>1, <1>2, AcceptedStep
<1>3. ~CommitUnread /\ ~CommitPreserved
  BY UnreadStep, PreservedStep
<1>4. ~(\E mode \in Modes : QueueDay(mode))
  BY DEF QueueDay, TypeInv, WorkRecords
<1> QED
  BY <1>2, <1>3, <1>4 DEF Next, DropDay, DropOlder, FetchDay, RejectDay, CoordinatorRepeats, Crash,
     ImportDay, ClockAdvances, vars

(* A date that is reported succeeded is one that agents are told is as of     *)
(* now, whatever trouble, delays and imports it had before.                   *)
THEOREM SuccessAlwaysHeals == Spec => SucceededHeals
<1>1. ASSUME Inv, [Next]_vars
      PROVE  [(work # None /\ work' # None /\ work.result = None /\ work'.result # None
               /\ work'.result.status = "succeeded" /\ (archive'.seconds \/ Zero(archive'))) =>
                McpQuality'.asOf = now]_vars
  BY <1>1, SuccessHeals DEF Inv
<1> QED
  BY <1>1, InvHolds, PTL DEF Spec, SucceededHeals

============================================================================
