------------------------------ MODULE DayQuality ------------------------------
(* How far the stored seconds of a date can be trusted, as three readers tell *)
(* it: the admin pages, the classification pages and the data quality that    *)
(* goes with every MCP answer.  They read three tables, which the worker, the *)
(* reconciliation, the coordinator and the importer write at different times: *)
(*   archive : daily_totals and the slices, the content stored, or None       *)
(*   layer   : sync_layer_state of the date                                   *)
(*   row     : the newest sync_days row of the date                           *)
(* The day's zone is known and stays; what is stored of it is in DayArchive.  *)
EXTENDS Integers

CONSTANTS
  None,
  Contents,        \* what may be stored: [fidelity, seconds, detail]
  DayHours,        \* hours of a day
  RecentHours, ReconcileHours, CompareHours,  \* how long a check counts
  ReconcileDays, CompareDays,                 \* for dates of what age
  MaxHour          \* bound: hours since the date began

Layers == {"summaries", "heartbeats", "durations"}
Troubles == {"clean", "downgraded", "restricted", "failed", "conflict"}
LayerRecords(what) ==
  [success : Nat \cup {None}, accepted : what \cup {None},
   evidence : BOOLEAN \cup {None}, trouble : Troubles]

ASSUME QualityAssumption ==
  /\ Contents \subseteq [fidelity : {"verified_zero", "coarse_project", "entity_detail"},
                         seconds : BOOLEAN, detail : SUBSET STRING]
  /\ DayHours \in Nat \ {0} /\ MaxHour \in Nat
  /\ {RecentHours, ReconcileHours, CompareHours, ReconcileDays, CompareDays} \subseteq Nat
  /\ None \notin Contents \cup Nat \cup BOOLEAN \cup {"unchanged", "updated"}
  /\ None \notin LayerRecords(Contents) \cup LayerRecords({"events"})
  /\ RecentHours <= ReconcileHours /\ ReconcileHours <= CompareHours
  /\ 1 <= ReconcileDays /\ ReconcileDays <= CompareDays

VARIABLES
  now,        \* hours since the date began
  archive,
  layer,
  row,
  older,      \* whether an older row of the date waits still
  work,       \* the worker's day, or None
  refused,    \* how the last check that came to a commit ended: history
  overtaken   \* the newest row tells of a zero that another run replaced: history

rows == <<row, older>>
history == <<refused, overtaken>>
vars == <<now, archive, layer, rows, work, history>>

-----------------------------------------------------------------------------
(* sync_layer_state.  An attempt sets at most one of the flags for restricted, *)
(* failed and downgraded, a conflict failed and mismatch together; the code    *)
(* and the time to retry come with them and say nothing else to a reader.      *)
NewLayer == [success |-> None, accepted |-> None, evidence |-> None, trouble |-> "clean"]

Row(l) == IF l = None THEN NewLayer ELSE l

(* recordLayerAttempt: the flags are replaced, the rest stays.                 *)
Attempted(l, trouble) == [Row(l) EXCEPT !.trouble = trouble]

(* Mutant: A doubt, once noted, is never taken back.                           *)
AcceptedInDoubt(l, content, evidence) ==
  [success |-> now, accepted |-> content, trouble |-> "clean",
   evidence |-> evidence /\ Row(l).evidence # FALSE]

(* recordLayerAccepted: everything is replaced.                                *)
Accepted(l, content, evidence) ==
  [success |-> now, accepted |-> content, evidence |-> evidence, trouble |-> "clean"]

Doubted(l) == [Row(l) EXCEPT !.evidence = FALSE]

-----------------------------------------------------------------------------
(* evaluateDateFreshness.                                                      *)

Age == now \div DayHours
Provisional == Age = 0

Threshold ==
  IF Age <= 1 THEN RecentHours
  ELSE IF Age <= ReconcileDays THEN ReconcileHours
  ELSE CompareHours

Overdue(success) == Age <= CompareDays /\ now - success > Threshold

TroubleReason(trouble) ==
  CASE trouble = "clean" -> {}
    [] trouble = "downgraded" -> {"DETAIL_DOWNGRADE_PRESERVED"}
    [] trouble = "restricted" -> {"UNRESOLVED_RESTRICTION"}
    [] trouble = "failed" -> {"UNRESOLVED_FAILURE"}
    [] trouble = "conflict" -> {"UNRESOLVED_FAILURE", "UNRESOLVED_MISMATCH"}

Reasons(l) ==
  TroubleReason(l.trouble)
    \cup (IF l.evidence = FALSE THEN {"EVIDENCE_SUMMARY_MISMATCH"} ELSE {})
    \cup (IF l.success = None THEN {"NEVER_SUCCESSFULLY_SYNCED"}
          ELSE IF Overdue(l.success) THEN {"EXCEEDED"} ELSE {})

Stale(l) == Reasons(l) # {}

-----------------------------------------------------------------------------
(* The data quality of MCP answers reads the layer of the summaries only.      *)

(* Accepted, with nothing unresolved but a downgrade.                          *)
Evidenced(l) == l.accepted # None /\ l.trouble \in {"clean", "downgraded"}

UnverifiedZero(l) ==
  /\ archive # None /\ ~archive.seconds
  /\ l.accepted # None => l.accepted.fidelity # "verified_zero" \/ ~Evidenced(l)

Incomplete(l) == ~Evidenced(l) \/ l.evidence = FALSE \/ UnverifiedZero(l)

McpQuality ==
  LET l == Row(layer["summaries"])
      missing == archive = None \/ l.success = None
      stale == missing \/ Reasons(l) \ {"DETAIL_DOWNGRADE_PRESERVED"} # {}
  IN  [missing |-> missing,
       stale |-> stale,
       limited |-> /\ l.success # None
                   /\ \/ l.trouble \in {"restricted", "downgraded"}
                      \/ l.accepted # None /\ l.accepted.fidelity = "coarse_project",
       asOf |-> IF stale \/ Incomplete(l) THEN None ELSE l.success]

-----------------------------------------------------------------------------
(* The admin pages read every layer that has a row, and the newest day row.    *)

Present == {x \in Layers : layer[x] # None}

AdminLooksStale == \E x \in Present : Stale(layer[x])

Unfinished == {"failed", "interrupted", "cancelled"}
NothingKnown == row = None /\ Present = {} /\ archive = None
RowIs(status) == row # None /\ row.status = status
RowSays(disposition) == row # None /\ row.disposition = disposition

AdminVerifiedZero ==
  LET l == Row(layer["summaries"])
  IN  /\ archive # None /\ ~archive.seconds
      /\ l.success # None /\ Evidenced(l)
      /\ l.accepted.fidelity = "verified_zero" \/ (row # None /\ row.zero)

(* getDateQualityProjection; nothing writes a code that asks to reconnect.     *)
AdminStatus(stale) ==
  CASE NothingKnown -> IF Provisional THEN "current_day_provisional" ELSE "missing"
    [] ~NothingKnown /\ \/ \E s \in Unfinished : RowIs(s)
                        \/ Row(layer["summaries"]).trouble = "failed" -> "failed"
    [] OTHER ->
       IF (row # None /\ row.restricted # {}) \/ \E x \in Present : layer[x].trouble = "restricted"
       THEN "restricted"
       ELSE IF RowSays("preserved") \/ \E x \in Present : layer[x].trouble = "downgraded"
       THEN "archived_detail_preserved"
       ELSE IF AdminVerifiedZero THEN "verified_zero"
       ELSE IF row # None /\ row.mode = "compare" THEN "comparison_only"
       ELSE IF stale THEN "stale"
       ELSE IF Provisional THEN "current_day_provisional"
       ELSE IF RowSays("unchanged") THEN "checked_unchanged"
       ELSE IF RowSays("updated") \/ RowIs("succeeded") \/ Row(layer["summaries"]).success # None
       THEN "updated"
       ELSE "missing"

AdminQuality ==
  LET stale == AdminLooksStale \/ archive = None
      status == AdminStatus(stale)
  IN  [status |-> status,
       stale |-> stale \/ status \in {"failed", "archived_detail_preserved"}]

(* The pages that preview a rule: the flags, and never the age.                *)
PreviewQuality ==
  LET l == Row(layer["summaries"])
  IN  IF row = None /\ layer["summaries"] = None THEN "missing"
      ELSE IF l.trouble = "failed" \/ \E s \in Unfinished : RowIs(s) THEN "failed"
      ELSE IF l.trouble = "restricted" THEN "restricted"
      ELSE IF l.trouble = "downgraded" \/ RowSays("preserved") THEN "archived_detail_preserved"
      ELSE IF l.accepted # None /\ l.accepted.fidelity = "verified_zero" THEN "verified_zero"
      ELSE IF RowSays("unchanged") THEN "checked_unchanged"
      ELSE IF RowSays("updated") \/ RowIs("succeeded") THEN "updated"
      ELSE "missing"

-----------------------------------------------------------------------------
(* A row, in the end: zero is its advisory code VERIFIED_ZERO_ACCEPTED.         *)
DayRow(status, disposition, restricted, mode) ==
  [status |-> status, disposition |-> disposition, restricted |-> restricted, mode |-> mode,
   zero |-> FALSE]

Waits == RowIs("pending")
Shown(r) == IF work.newest THEN row' = r ELSE UNCHANGED row

(* A run is enqueued: the date's newest row is its, also while the worker has  *)
(* the date for another run, or another waits for it (bound: one).             *)
QueueDay(mode) ==
  /\ ~(Waits /\ older)
  /\ older' = (Waits \/ older)
  /\ row' = DayRow("pending", None, {}, mode)
  /\ work' = IF work = None THEN None ELSE [work EXCEPT !.newest = FALSE]
  /\ overtaken' = FALSE
  /\ UNCHANGED <<now, archive, layer, refused>>

(* A run that is over, or whose process ended, before the day began; or one    *)
(* that is cancelled, at any time.                                             *)
DropDay(status) ==
  /\ Waits
  /\ status # "cancelled" => work = None
  /\ row' = DayRow(status, None, {}, row.mode)
  /\ UNCHANGED <<now, archive, layer, older, work, history>>

DropOlder ==
  /\ older
  /\ older' = FALSE
  /\ UNCHANGED <<now, archive, layer, row, work, history>>

-----------------------------------------------------------------------------
(* The worker: how each endpoint answered.  A hold answers as well, and for    *)
(* the durations it is no attempt.                                             *)
Zero(content) == content.fidelity = "verified_zero"

Answers == {"complete", "restricted", "failed"}
TroubleOf(answer) == IF answer = "complete" THEN "clean" ELSE answer

Noted(x, answer) ==
  IF answer = "skipped" THEN layer[x] ELSE Attempted(layer[x], TroubleOf(answer))

(* Heartbeats are asked for a day that was read and has seconds, durations     *)
(* unless it is only compared.                                                 *)
Modes == {"recent", "compare"}
Reports ==
  [mode \in Modes |->
     {r \in [sum : Answers, content : Contents \cup {None}, hb : Answers \cup {"skipped"},
             dur : Answers \cup {"skipped"}, held : BOOLEAN] :
        /\ (r.sum = "complete") <=> r.content # None
        /\ (r.content # None /\ ~Zero(r.content)) <=> r.hb # "skipped"
        /\ r.dur # "skipped" => r.hb # "skipped" /\ mode # "compare"
        /\ r.held => r.dur \in {"restricted", "failed"}}]

(* Everything that was asked for has been answered; the layers note how,       *)
(* before anything is stored.  Of two rows that wait the older goes first,     *)
(* unless the newest alone is of a manual run: either may.  No page shows the  *)
(* mode of an older row.                                                       *)
FetchDay(newest, mode, r) ==
  /\ work = None
  /\ IF newest THEN Waits /\ mode = row.mode ELSE older
  /\ layer' = [summaries |-> Noted("summaries", r.sum), heartbeats |-> Noted("heartbeats", r.hb),
               durations |-> IF r.held THEN layer["durations"] ELSE Noted("durations", r.dur)]
  /\ work' = [newest |-> newest, mode |-> mode, sum |-> r.sum, content |-> r.content,
              hb |-> r.hb, dur |-> r.dur, result |-> None]
  /\ row' = IF newest THEN [row EXCEPT !.status = "running"] ELSE row
  /\ older' = (older /\ newest)
  /\ UNCHANGED <<now, archive, history>>

RestrictedOf(w) ==
  {x \in Layers : CASE x = "summaries" -> w.sum = "restricted"
                    [] x = "heartbeats" -> w.hb = "restricted"
                    [] x = "durations" -> w.dur = "restricted"}

(* Too large, cancelled or of an older connection: nothing is stored.          *)
RejectDay(status) ==
  /\ work # None /\ work.result = None
  /\ Shown(DayRow(status, None, IF status = "failed" THEN RestrictedOf(work) ELSE {}, work.mode))
  /\ work' = None
  /\ UNCHANGED <<now, archive, layer, older, history>>

-----------------------------------------------------------------------------
(* reconcileDay, with the second write the worker adds when something that is  *)
(* optional was not read, which forgets the disposition, or for a verified     *)
(* zero, which forgets its code; then the coordinator repeats the result as a  *)
(* whole.                                                                      *)
Repeated(status, disposition) ==
  [DayRow(status, IF status = "failed" THEN None ELSE disposition, RestrictedOf(work), work.mode)
   EXCEPT !.zero = disposition = "updated" /\ Zero(work.content)]

Ends(written, status, disposition) ==
  /\ Shown(written)
  /\ work' = [work EXCEPT !.result = Repeated(status, disposition)]
  /\ UNCHANGED <<now, older>>

(* The summaries were not read.                                                *)
CommitUnread ==
  /\ work # None /\ work.result = None /\ work.sum # "complete"
  /\ IF work.sum = "restricted"
     THEN Ends(DayRow("skipped", "preserved", {"summaries"}, work.mode), "skipped", "preserved")
     ELSE Ends(DayRow("failed", "rejected", {}, work.mode), "failed", "rejected")
  /\ refused' = TRUE
  /\ UNCHANGED <<archive, layer, overtaken>>

Ready == work # None /\ work.result = None /\ work.sum = "complete"
Unchanged == layer["summaries"].accepted = work.content
Downgrades ==
  /\ archive # None /\ ~Zero(work.content)
  /\ \/ ~(archive.detail \subseteq work.content.detail)
     \/ archive.seconds /\ ~work.content.seconds

CommitPreserved ==
  /\ Ready /\ ~Unchanged /\ Downgrades
  /\ layer' = [layer EXCEPT !["summaries"] = Attempted(layer["summaries"], "downgraded")]
  /\ Ends(DayRow("partial", "preserved", {}, work.mode), "partial", "preserved")
  /\ refused' = TRUE
  /\ UNCHANGED <<archive, overtaken>>

(* Heartbeats that contradict stored ones are not taken.                       *)
Outcome(conflict) ==
  IF conflict /\ work.hb = "complete" THEN "conflict" ELSE work.hb

(* Mutant: Summaries without heartbeats count as backed.                       *)
BackedAnyway(outcome) == TRUE

Backed(outcome) == outcome = "complete" \/ Zero(work.content)

HeartbeatsAfter(outcome) ==
  LET l == layer["heartbeats"]
      tried == IF outcome \in {"complete", "skipped"} THEN l ELSE Attempted(l, outcome)
  IN  CASE outcome = "complete" -> Accepted(l, "events", TRUE)
        [] outcome = "skipped" -> l
        [] OTHER -> IF Unchanged THEN tried ELSE Doubted(tried)

CommitAccepted(conflict) ==
  /\ Ready /\ (Unchanged \/ ~Downgrades)
  /\ LET outcome == Outcome(conflict)
         disposition == IF Unchanged THEN "unchanged" ELSE "updated"
         reconciled == IF Backed(outcome) THEN "succeeded" ELSE "partial"
         lowered == reconciled = "succeeded" /\ work.dur \in {"restricted", "failed"}
         status == IF lowered THEN "partial" ELSE reconciled
     IN  /\ layer' = [layer EXCEPT !["summaries"] = Accepted(@, work.content, Backed(outcome)),
                                   !["heartbeats"] = HeartbeatsAfter(outcome)]
         /\ Ends(IF lowered
                 THEN DayRow("partial", None, RestrictedOf(work) \cap {"durations"}, work.mode)
                 ELSE DayRow(status, disposition, RestrictedOf(work) \cap {"heartbeats"}, work.mode),
                 status, disposition)
  /\ archive' = work.content
  /\ refused' = FALSE
  /\ overtaken' = (~work.newest /\ row.zero)

CoordinatorRepeats ==
  /\ work # None /\ work.result # None
  /\ Shown(work.result)
  /\ work' = None
  /\ UNCHANGED <<now, archive, layer, older, history>>

(* What was committed stays; a day that was not ended is found at the next     *)
(* start.                                                                      *)
Crash ==
  /\ work # None
  /\ IF work.result = None THEN Shown(DayRow("interrupted", None, {}, work.mode)) ELSE UNCHANGED row
  /\ work' = None
  /\ UNCHANGED <<now, archive, layer, older, history>>

(* A dump fills a date nothing is known of, and writes no layer.               *)
ImportDay(content) ==
  /\ archive = None
  /\ \A x \in Present : layer[x].accepted = None
  /\ archive' = content
  /\ UNCHANGED <<now, layer, rows, work, history>>

ClockAdvances ==
  /\ now < MaxHour
  /\ now' = now + 1
  /\ UNCHANGED <<archive, layer, rows, work, history>>

-----------------------------------------------------------------------------
Init ==
  /\ now = 0
  /\ archive = None
  /\ layer = [x \in Layers |-> None]
  /\ row = None /\ older = FALSE
  /\ work = None
  /\ refused = FALSE /\ overtaken = FALSE

Next ==
  \/ \E mode \in Modes : QueueDay(mode)
  \/ \E status \in {"skipped", "cancelled", "interrupted"} : DropDay(status)
  \/ DropOlder
  \/ \E newest \in BOOLEAN, mode \in Modes :
        \E r \in Reports[mode] : FetchDay(newest, mode, r)
  \/ \E status \in {"failed", "cancelled", "interrupted"} : RejectDay(status)
  \/ CommitUnread
  \/ CommitPreserved
  \/ \E conflict \in BOOLEAN : CommitAccepted(conflict)
  \/ CoordinatorRepeats
  \/ Crash
  \/ \E content \in Contents : ImportDay(content)
  \/ ClockAdvances

Spec == Init /\ [][Next]_vars

-----------------------------------------------------------------------------
(* Properties.                                                                *)

(* The time an MCP answer is said to be as of is that of one check which read *)
(* what is stored, with heartbeats accepted at the same time unless the day   *)
(* has none: not of an import, nor of pieces of several checks.               *)
AsOfIsWhole ==
  LET asOf == McpQuality.asOf
  IN  asOf # None =>
        /\ layer["summaries"].accepted = archive
        /\ Zero(archive) \/ layer["heartbeats"].success = asOf

(* A day that is reported succeeded is one MCP answers are as of now for,     *)
(* whatever trouble, delays and imports it had before: a clean check heals.   *)
SucceededHeals ==
  [][(work # None /\ work' # None /\ work.result = None /\ work'.result # None
      /\ work'.result.status = "succeeded" /\ (archive'.seconds \/ Zero(archive'))) =>
       McpQuality'.asOf = now]_vars

(* The pages of the operator are never kinder than what is told to others.    *)
AdminIsStricter ==
  (~AdminQuality.stale /\ AdminQuality.status \in {"updated", "checked_unchanged", "verified_zero"}) =>
    ~McpQuality.stale

(* A zero that is shown as verified is one that WakaTime answered; on the      *)
(* admin pages the code of the newest row counts as well (admin/sync.ts line   *)
(* 598), which is out of date when a run that was enqueued before it ended     *)
(* after it.                                                                   *)
ZeroIsVerified ==
  /\ PreviewQuality = "verified_zero" => archive # None /\ Zero(archive)
  /\ AdminQuality.status = "verified_zero" =>
       archive # None /\ ~archive.seconds /\ (Zero(archive) \/ overtaken)

(* What the pages and the MCP answers say of a day is true of it.              *)
QualityIsHonest == AsOfIsWhole /\ AdminIsStricter /\ ZeroIsVerified

(* A restriction, a failure or a downgrade stays visible until a check is     *)
(* accepted.                                                                  *)
TroubleStays ==
  (work = None /\ refused /\ archive # None) => McpQuality.stale \/ McpQuality.limited
=============================================================================
