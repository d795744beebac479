--------------------------- MODULE SyncScheduler ---------------------------
(***************************************************************************)
(* The scheduler (sync/scheduler.ts): a timer whose ticks turn the         *)
(* calendar into runs.  A tick enqueues the first-enable seed or a catch-  *)
(* up batch and the cadences that are due, and stores for each, in a       *)
(* transaction of its own, that it was handled.  The process may die       *)
(* between the two, and an enqueue may be refused.                         *)
(*                                                                         *)
(* coordinator.enqueue has no await of its own, so a tick is one piece of  *)
(* JavaScript: while a tick is under way nothing else happens but a crash. *)
(* Of a run the scheduler reads its key, its dates and what became of      *)
(* them; how it is executed is SyncLifecycle.                              *)
(***************************************************************************)
EXTENDS SyncCalendar

CONSTANTS
    FirstInstant,   \* when the archive was connected
    LastInstant,    \* bound: the end of the clock
    Zones,          \* how many hours the zone may be ahead, DST included
    Archives,       \* sets of dates that a dump may have brought before
    QueueMax,       \* the limit of the queue, 10 in migration 005
    RetryDelay,     \* how long a restricted date is deferred
    PauseReasons,   \* what may pause the scheduler: checkPauseStatus
    Endings,        \* intent -> how its runs may end, of RunEndings
    MaxDisruptions  \* bound: process ends, zone changes, pauses and failed writes, together

Intents == Cadences \cup {"seed", "catchup"}

\* How many of its dates a run accepts, in their order, and what becomes of the rest.
RunEndings == {"none", "first", "all"} \X {"failed", "restricted", "interrupted", "cancelled"}

ASSUME SchedulerAssumption ==
    /\ FirstInstant \in Nat /\ LastInstant \in Nat /\ FirstInstant <= LastInstant
    /\ Zones \subseteq Nat /\ Zones # {}
    /\ QueueMax \in Nat \ {0} /\ RetryDelay \in Nat \ {0}
    /\ Endings \in [Intents -> SUBSET RunEndings]
    /\ MaxDisruptions \in Nat
    /\ PauseReasons \subseteq {"disabled", "timezone_mismatch", "no_connection",
                             "connection_replaced"}
    /\ \A A \in Archives : A \subseteq Int /\ IsFiniteSet(A)

Phases == <<"seed", "catchup", "recent", "reconcile", "compare">>

VARIABLES
    clock,      \* the current instant
    zone,       \* hours the source timezone is ahead
    \* app_settings
    lastSlot,   \* LAST_SLOT_*: the slot handled last, of each cadence
    cursor,     \* CATCHUP_CURSOR
    seeded,     \* SEEDED
    pauses,     \* the reasons that hold now, each read from a row of the database
    \* what the other parts of the program write
    run,        \* sequence of sync_runs rows the scheduler caused
    archive,    \* dates with daily_totals or an accepted sync_days row
    unfinished, \* dates with an interrupted sync_days row
    failedRows, \* dates with a failed sync_days row
    deferred,   \* date -> instant from which a failed or restricted layer may be tried again
    \* the process
    up, timer,  \* it runs; its interval is installed
    tick,       \* the evaluation under way, or Idle
    budget      \* disruptions that may still happen

settings == <<lastSlot, cursor, seeded>>
data == <<run, archive, unfinished, failedRows, deferred>>
scheduleVars == <<clock, zone, settings, pauses, data, up, timer, tick, budget>>

NoRequest == [intent |-> "none", key |-> <<>>, dates |-> {}, next |-> NoDate]

Idle == [phase |-> "idle", stage |-> "enqueue", req |-> NoRequest, atStart |-> FALSE]

Paused == pauses # {}

-----------------------------------------------------------------------------
(* The enqueue of the coordinator, as far as the scheduler sees it *)

Queued == {i \in DOMAIN run : run[i].open}

SameKey(key) == {i \in DOMAIN run : run[i].key = key}

\* An equal request finds its own run again, a different one of the same key is a conflict
\* and a full queue refuses.
Reused(req) == \E i \in SameKey(req.key) : run[i].dates = req.dates
Conflict(req) == \E i \in SameKey(req.key) : run[i].dates # req.dates
Refused(req) == Conflict(req) \/ (SameKey(req.key) = {} /\ Cardinality(Queued) >= QueueMax)

-----------------------------------------------------------------------------
(* What a tick asks for *)

PendingDates == UNION {run[i].dates : i \in Queued}

Unfinished == unfinished \cup PendingDates

\* A failed row without a layer entry has no time to wait for.
FailedDates == [d \in failedRows \cup DOMAIN deferred |-> IF d \in DOMAIN deferred THEN deferred[d] ELSE 0]

MinDate(S) == Ascending(S)[1]

\* The cursor, or the earliest date the archive or a run knows of.
Watermark ==
    LET known == archive \cup UNION {run[i].dates : i \in DOMAIN run}
    IN  IF cursor # NoDate THEN cursor ELSE IF known = {} THEN NoDate ELSE MinDate(known)

Selection ==
    SelectCatchup(Candidates(archive, Watermark, FailedDates, Unfinished, ZonedDay(clock, zone), clock))

ToDates(s) == {s[i] : i \in DOMAIN s}

\* Mutant: the key names the instant instead of the period.
SlotKeyOfInstant(intent) == <<intent, <<ZonedDay(clock, zone), clock>> >>

SlotKey(intent) == <<intent, Slot(intent, clock, zone)>>

SeedKey == <<"seed", <<ZonedDay(clock, zone)>> >>

\* The key names the day, the first date and the number of dates.
CatchupKey(dates) == <<"catchup", <<ZonedDay(clock, zone), dates[1], Len(dates)>> >>

\* The request of a phase, with the cursor that a batch leaves behind.
SeedRequest ==
    [intent |-> "seed", key |-> SeedKey, dates |-> SeedDates(clock, zone), next |-> NoDate]

CatchupRequest(selection) ==
    [intent |-> "catchup", key |-> CatchupKey(selection.dates),
     dates |-> ToDates(selection.dates), next |-> selection.nextCursor]

Request(phase) ==
    CASE phase = "seed" -> SeedRequest
      [] phase = "catchup" -> CatchupRequest(Selection)
      [] phase \in Cadences ->
           [intent |-> phase, key |-> SlotKey(phase), dates |-> IntentDates(phase, clock, zone),
            next |-> NoDate]

\* Whether the tick comes to a phase.  At the start of the process an unseeded archive is
\* seeded and any other is caught up, with or without a cursor; a later tick seeds what is
\* not seeded yet and then continues at a cursor.
Wanted(phase, atStart) ==
    CASE phase = "seed"    -> ~seeded
      [] phase = "catchup" -> IF atStart THEN seeded ELSE cursor # NoDate
      [] phase \in Cadences -> IsCadenceDue(phase, lastSlot[phase], clock, zone)

PhaseIndex(phase) == CHOOSE i \in DOMAIN Phases : Phases[i] = phase

\* The phases that are left after the first n.
Left(n, atStart) == {i \in n + 1 .. Len(Phases) : Wanted(Phases[i], atStart)}

\* The evaluation goes on with the next phase wanted, or ends, at the start with the
\* interval.
GoOn(n, atStart) ==
    IF Left(n, atStart) = {}
    THEN /\ tick' = Idle
         /\ timer' = TRUE
    ELSE LET phase == Phases[MinDate(Left(n, atStart))]
         IN  /\ tick' = [phase |-> phase, stage |-> "enqueue", req |-> Request(phase),
                         atStart |-> atStart]
             /\ UNCHANGED timer

-----------------------------------------------------------------------------
(* Ticks *)

ScheduleInit ==
    /\ clock = FirstInstant /\ zone \in Zones
    /\ lastSlot = [c \in Cadences |-> NoSlot]
    /\ cursor = NoDate /\ seeded = FALSE
    /\ pauses = {}  \* the operator has connected the account and enabled scheduling
    /\ run = <<>> /\ archive \in Archives /\ unfinished = {} /\ failedRows = {}
    /\ deferred = [d \in {} |-> 0]
    /\ up = FALSE /\ timer = FALSE /\ tick = Idle
    /\ budget = MaxDisruptions

Evaluating == tick.phase # "idle"

\* The process starts: without scheduling there is no scheduler until the next start, and a
\* paused one only installs its interval.
Boot ==
    /\ ~up
    /\ up' = TRUE
    /\ IF Paused
       THEN timer' = ("disabled" \notin pauses) /\ UNCHANGED tick
       ELSE GoOn(0, TRUE)
    /\ UNCHANGED <<clock, zone, settings, pauses, data, budget>>

\* The interval fires.
TimerTick ==
    /\ up /\ timer /\ ~Evaluating /\ ~Paused
    /\ GoOn(0, FALSE)
    /\ UNCHANGED <<clock, zone, settings, pauses, data, up, budget>>

\* The request of a phase is enqueued or found again.
Enqueue ==
    LET req == tick.req
    IN  /\ Evaluating /\ tick.stage = "enqueue"
        /\ ~Refused(req)
        /\ run' = IF Reused(req) THEN run
                  ELSE Append(run, [intent |-> req.intent, key |-> req.key, dates |-> req.dates,
                                    slot |-> Slot("recent", clock, zone), open |-> TRUE])
        /\ tick' = [tick EXCEPT !.stage = "store"]
    /\ UNCHANGED <<clock, zone, settings, pauses, archive, unfinished, failedRows,
                   deferred, up, timer, budget>>

\* Mutant: the refusal is not caught and ends the evaluation.
RefusalEndsTick ==
    /\ Evaluating /\ tick.stage = "enqueue"
    /\ Refused(tick.req)
    /\ tick' = Idle /\ timer' = TRUE
    /\ UNCHANGED <<clock, zone, settings, pauses, data, up, budget>>

\* A refused request is logged and the evaluation goes on.
EnqueueRefused ==
    /\ Evaluating /\ tick.stage = "enqueue"
    /\ Refused(tick.req)
    /\ GoOn(PhaseIndex(tick.phase), tick.atStart)
    /\ UNCHANGED <<clock, zone, settings, pauses, data, up, budget>>

\* What was enqueued is recorded as handled: the slot, the seed, or where the next batch begins.
Store ==
    /\ Evaluating /\ tick.stage = "store"
    /\ CASE tick.phase = "seed" -> seeded' = TRUE /\ UNCHANGED <<lastSlot, cursor>>
         [] tick.phase = "catchup" -> cursor' = tick.req.next /\ UNCHANGED <<lastSlot, seeded>>
         [] tick.phase \in Cadences ->
              /\ lastSlot' = [lastSlot EXCEPT ![tick.phase] = Slot(tick.phase, clock, zone)]
              /\ UNCHANGED <<cursor, seeded>>
    /\ GoOn(PhaseIndex(tick.phase), tick.atStart)
    /\ UNCHANGED <<clock, zone, pauses, data, up, budget>>

\* The setting cannot be written: the error is taken for a refused enqueue.
StoreFails ==
    /\ Evaluating /\ tick.stage = "store"
    /\ budget > 0
    /\ budget' = budget - 1
    /\ GoOn(PhaseIndex(tick.phase), tick.atStart)
    /\ UNCHANGED <<clock, zone, settings, pauses, data, up>>

-----------------------------------------------------------------------------
(* The rest of the program, and time *)

\* A run ends: it accepted its first dates, and the others ended in one way.
RunEnds(i, done, how) ==
    LET rest == run[i].dates \ done
    IN  /\ ~Evaluating /\ up
        /\ run' = [run EXCEPT ![i].open = FALSE]
        /\ archive' = archive \cup done
        /\ unfinished' = IF how = "interrupted" THEN unfinished \cup rest ELSE unfinished
        /\ failedRows' = IF how = "failed" THEN failedRows \cup rest ELSE failedRows
        /\ deferred' = [d \in (DOMAIN deferred \ done)
                               \cup (IF how \in {"failed", "restricted"} THEN rest ELSE {}) |->
                          CASE d \in rest /\ how = "failed" -> 0
                            [] d \in rest /\ how = "restricted" -> clock + RetryDelay
                            [] OTHER -> deferred[d]]
    /\ UNCHANGED <<clock, zone, settings, pauses, up, timer, tick, budget>>

\* Dates are worked through in their order.
Done(S, part) ==
    CASE part = "none" -> {} [] part = "first" -> {MinDate(S)} [] part = "all" -> S

\* One run at a time is executed, in the order of arrival.
SomeRunEnds ==
    \E i \in Queued :
        /\ \A j \in Queued : i <= j
        /\ \E e \in Endings[run[i].intent] : RunEnds(i, Done(run[i].dates, e[1]), e[2])

HourPasses ==
    /\ ~Evaluating /\ clock < LastInstant
    /\ clock' = clock + 1
    /\ UNCHANGED <<zone, settings, pauses, data, up, timer, tick, budget>>

ZoneShifts ==
    /\ ~Evaluating /\ budget > 0
    /\ zone' \in Zones \ {zone}
    /\ budget' = budget - 1
    /\ UNCHANGED <<clock, settings, pauses, data, up, timer, tick>>

\* A setting, the connection or the account of the archive changes.
PauseChanges(reason) ==
    /\ ~Evaluating /\ budget > 0
    /\ pauses' = IF reason \in pauses THEN pauses \ {reason} ELSE pauses \cup {reason}
    /\ budget' = budget - 1
    /\ UNCHANGED <<clock, zone, settings, data, up, timer, tick>>

\* The process stops or dies, in the middle of a tick too.
ProcessEnds ==
    /\ up /\ budget > 0
    /\ up' = FALSE /\ timer' = FALSE /\ tick' = Idle
    /\ budget' = budget - 1
    /\ UNCHANGED <<clock, zone, settings, pauses, data>>

ScheduleNext ==
    \/ Boot \/ TimerTick \/ Enqueue \/ EnqueueRefused \/ Store \/ StoreFails
    \/ SomeRunEnds \/ HourPasses \/ ZoneShifts \/ ProcessEnds
    \/ \E reason \in PauseReasons : PauseChanges(reason)

ScheduleSpec == ScheduleInit /\ [][ScheduleNext]_scheduleVars
-----------------------------------------------------------------------------
(* Fairness: the container starts the process again, the interval fires, the JavaScript of a *)
(* tick runs on, and every run ends (SyncLifecycle shows that it does), although a tick, too, *)
(* may be under way again and again.                                                          *)

FairSchedule ==
    /\ ScheduleSpec
    /\ WF_scheduleVars(Boot) /\ WF_scheduleVars(TimerTick)
    /\ WF_scheduleVars(Enqueue \/ EnqueueRefused \/ Store)
    /\ SF_scheduleVars(SomeRunEnds)

-----------------------------------------------------------------------------
(* Properties *)

\* The period in which a run was enqueued.
Period(i) ==
    CASE run[i].intent = "recent"    -> run[i].slot
      [] run[i].intent = "reconcile" -> <<run[i].slot[1], 0>>
      [] run[i].intent = "compare"   -> <<MondayOf(run[i].slot[1]), 0>>

\* A cadence runs once for a period, although a crash or an unwritten setting between the
\* enqueue and the slot makes the next tick enqueue it again, and although a zone that falls
\* back shows the same hours a second time.
OneRunPerSlot ==
    \A i, j \in DOMAIN run :
        run[i].intent \in Cadences /\ run[i].intent = run[j].intent /\ i # j
            => Period(i) # Period(j)

\* A slot counts as handled only if a run was enqueued for it: no period is lost to a full
\* queue or to a process that ended in between.
SlotHasRun ==
    \A c \in Cadences :
        lastSlot[c] # NoSlot => \E i \in DOMAIN run : run[i].intent = c /\ Period(i) = lastSlot[c]

\* Whenever a cadence is due, a run that already has its key asks for the same dates: the
\* retry after a crash finds its run again and is not refused as a conflict.
SlotNamesDates ==
    \A c \in Cadences :
        IsCadenceDue(c, lastSlot[c], clock, zone) =>
            \A i \in SameKey(SlotKey(c)) : run[i].dates = IntentDates(c, clock, zone)

\* No run asks for a date that has not begun where the account lives, not even for one that
\* was left unfinished before the zone changed.
NoFutureDates ==
    \A i \in DOMAIN run : \A d \in run[i].dates : d <= run[i].slot[1]

\* The time shown to the operator is the first at which a cadence comes due, apart from a
\* period that is due already: before it nothing new is due, and at it something is.
NextDueIsHonest ==
    \A c \in Cadences :
        LET next == NextDue(c, clock, zone)
            DueNow == IsCadenceDue(c, NoSlot, clock, zone)
            New(t) == /\ IsCadenceDue(c, NoSlot, t, zone)
                      /\ DueNow => Slot(c, t, zone) # Slot(c, clock, zone)
        IN  clock < next /\ New(next) /\ \A t \in clock .. next - 1 : ~New(t)

\* What was enqueued, what counts as handled and what is announced fit together, through
\* crashes, unwritten settings, full queues and zones that change.
ScheduleIsHonest ==
    OneRunPerSlot /\ SlotHasRun /\ SlotNamesDates /\ NoFutureDates /\ NextDueIsHonest

\* The cursor passes a missing date only when a catch-up run asks for it.
GapsAreNotSkipped ==
    [][cursor' # cursor =>
         LET gaps == {d \in Watermark .. ZonedDay(clock, zone) - RecentDays : d \notin archive}
             passed == IF cursor' = NoDate THEN gaps ELSE {d \in gaps : d < cursor'}
         IN  \E i \in DOMAIN run : run[i].intent = "catchup" /\ passed \subseteq run[i].dates]_scheduleVars

\* With the interval installed and nothing to pause it, every period is handled in the end or
\* passes: no refusal, crash or failed write leaves a cadence due for ever.
CadencesKeepUp ==
    []<>(\/ ~up \/ ~timer \/ Paused
         \/ \A c \in Cadences : ~IsCadenceDue(c, lastSlot[c], clock, zone))
=============================================================================
