--------------------------- MODULE SyncLifecycle ---------------------------
(***************************************************************************)
(* The durable lifecycle of synchronization runs: the SQLite rows of       *)
(* sync_runs and sync_days (db/repositories/sync.ts), the coordinator that *)
(* claims and executes them (sync/coordinator.ts), the one-date worker     *)
(* (sync/worker.ts) and the process around them (runtime.ts,               *)
(* server/index.mjs), which starts, stops gracefully, or dies at any time. *)
(*                                                                         *)
(* The program is one Node process.  Its JavaScript runs to the next await *)
(* without interruption, so an HTTP handler or a signal can interleave     *)
(* with a run only where the run awaits (Yielded below).  A crash may fall *)
(* between any two transactions, so every durable write of a run is a step *)
(* of its own even where nothing but a crash can come between; only the    *)
(* writes that close a run at the stop deadline are one step, StopDeadline,*)
(* since a crash between them leaves what recovery rewrites in any case.   *)
(***************************************************************************)
EXTENDS Naturals, FiniteSets

CONSTANTS
    MaxRuns,         \* bound: number of sync_runs rows ever inserted
    MaxIntake,       \* bound: rows inserted by intake, the rest by recovery
    Dates,           \* calendar dates, as naturals in date order
    Requests,        \* run requests that operator and scheduler may submit
    QueueMax,        \* the limit of the queue triggers, 10 in migration 005
    MaxGeneration,   \* bound: WakaTime reconnections observed
    MaxDisruptions,  \* bound: crashes and graceful stops, together
    MaxFaults,       \* bound: database errors thrown inside a run
    OperatorRetries, \* whether the operator uses the retry endpoint
    Outcomes         \* the outcomes of a date that may happen, of DateOutcomes

NoRun  == 0
NoDate == 0
Runs   == 1..MaxRuns

\* "scheduled" stands for the automatic triggers startup and catchup as well,
\* which the code treats alike once a run is enqueued.
Triggers == {"manual", "scheduled"}
Modes    == {"recent", "retry", "registry"}

ASSUME BoundsAssumption ==
    /\ MaxRuns \in Nat
    /\ MaxIntake \in Nat
    /\ QueueMax \in Nat \ {0}
    /\ MaxGeneration \in Nat \ {0}
    /\ MaxDisruptions \in Nat
    /\ MaxRuns >= MaxIntake + MaxDisruptions  \* so that recovery is never bounded
    /\ MaxFaults \in Nat
    /\ OperatorRetries \in BOOLEAN

\* How the fetch and the reconciliation of one date can turn out; "complete"
\* leaves no warning code behind.
DateOutcomes == {"complete", "degraded", "preserved", "restricted",
                 "failed", "auth", "oversize", "threw"}

ASSUME OutcomesAssumption == Outcomes \subseteq DateOutcomes

ASSUME DatesAssumption == Dates \subseteq Nat \ {0}

ASSUME RequestsAssumption ==
    \A q \in Requests : /\ q.trigger \in Triggers
                        /\ q.mode \in Modes
                        /\ q.dates \subseteq Dates
                        /\ q.mode = "registry" <=> q.dates = {}

TerminalRun == {"succeeded", "partial", "failed", "cancelled", "interrupted"}
RunStatus   == {"none", "queued", "running"} \cup TerminalRun
TerminalDay == {"succeeded", "partial", "failed", "skipped", "cancelled", "interrupted"}
DayStatus   == {"none", "pending", "running"} \cup TerminalDay

\* "useful" stands for the dispositions updated and unchanged, which every
\* reader of the column treats alike; rejected only ever accompanies failed.
Disposition == {"none", "useful", "preserved"}

Results == {"none", "done", "auth", "cancelled", "threw", "published", "refused",
            "interrupted", "skipped"}

VARIABLES
    \* ---- SQLite: survives the process -----------------------------------
    run,          \* sync_runs, by id; status "none" marks an id not used yet
    day,          \* sync_days, by run id and date
    nextId,       \* AUTOINCREMENT of sync_runs
    accepted,     \* <<run, date>> candidates that a reconcile committed
    published,    \* registry runs that published the user-agent registry
    scheduling,   \* app_settings.scheduling_enabled
    generation,   \* wakatime_oauth_connection.generation
    preRebind,    \* runs whose started_at lies before the connection's rebound_at
    \* ---- the process ----------------------------------------------------
    svc,          \* phase of the process and of the coordinator in it
    toLink,       \* interrupted runs whose retries runRecovery has yet to make
    schedulerOn,  \* the scheduler's interval timer is installed
    active,       \* coordinator.currentActiveRunId
    pendingWork,  \* coordinator.pendingWork
    exec,         \* the pump coroutine and the executeRun it awaits
    \* ---- bounds -----------------------------------------------------------
    disruptions, faults

durable == <<run, day, nextId, accepted, published, scheduling, generation, preRebind>>
process == <<svc, toLink, schedulerOn, active, pendingWork, exec>>
budgets == <<disruptions, faults>>
vars    == <<durable, process, budgets>>

NoRow == [status |-> "none", trigger |-> "manual", mode |-> "recent",
          key |-> <<>>, parent |-> NoRun, cancelRequested |-> FALSE]
NoDay == [status |-> "none", disposition |-> "none"]

\* pc of the pump coroutine.  "fetching" awaits the network; "returned" and
\* "finished" are the promise boundaries of executeDayWorker and executeRun;
\* "marking" gives the dates in todo the status in result, one by one.
NoExec == [pc |-> "idle", run |-> NoRun, todo |-> {}, date |-> NoDate,
           generation |-> 0, aborted |-> FALSE, result |-> "none"]

Init ==
    /\ run = [r \in Runs |-> NoRow]
    /\ day = [r \in Runs |-> [d \in Dates |-> NoDay]]
    /\ nextId = 1
    /\ accepted = {}
    /\ published = {}
    /\ scheduling = FALSE
    /\ generation = 1
    /\ preRebind = {}
    /\ svc = "down"
    /\ toLink = {}
    /\ schedulerOn = FALSE
    /\ active = NoRun
    /\ pendingWork = FALSE
    /\ exec = NoExec
    /\ disruptions = 0
    /\ faults = 0

----------------------------------------------------------------------------
(* Reading the database.                                                   *)

Lowest(S) == CHOOSE x \in S : \A y \in S : x <= y

DatesOf(r)  == {d \in Dates : day[r][d].status # "none"}
Nonterminal == {r \in Runs : run[r].status \in {"queued", "running"}}

\* Mutant: a run interrupted by a restart is claimed again.
QueuedOrInterrupted == {r \in Runs : run[r].status \in {"queued", "interrupted"}}

Queued == {r \in Runs : run[r].status = "queued"}

\* Mutant: recovery leaves a run alone whose cancellation is on its way.
RunningUncancelled == {r \in Runs : run[r].status = "running" /\ ~run[r].cancelRequested}

Running == {r \in Runs : run[r].status = "running"}

QueuedManual == {r \in Queued : run[r].trigger = "manual"}


\* trg_sync_runs_queue_limit_insert lets a row in only below the limit.
Room == Cardinality(Nonterminal) < QueueMax

IsRunCancelRequested(r) ==
    run[r].status = "cancelled" \/ run[r].cancelRequested

HasLinkedRetry(r) == \E c \in Runs : run[c].status # "none" /\ run[c].parent = r

\* Rows that came from intake rather than from recovery.
Submitted == {r \in Runs : run[r].status # "none" /\ run[r].key # <<"recovery", run[r].parent>>}

\* Mutant: a retry repeats every date of its parent.
EveryDate(r) == DatesOf(r)

UnfinishedDates(r) ==
    {d \in Dates : day[r][d].status \in {"interrupted", "pending"}}

\* maybeCreateLinkedRetry: does an interrupted run get a linked retry?
DeservesRetry(r, enabled) ==
    /\ ~IsRunCancelRequested(r)
    /\ ~HasLinkedRetry(r)
    /\ run[r].trigger = "manual" \/ enabled
    /\ run[r].mode = "registry" \/ UnfinishedDates(r) # {}

\* Mutant: only automatic runs are recovered late.
DeferredAutomatic ==
    {r \in Runs : /\ run[r].status = "interrupted"
                  /\ run[r].trigger = "scheduled"
                  /\ DeservesRetry(r, TRUE)}

\* The candidates of recoverDeferredRuns.
Deferred == {r \in Runs : run[r].status = "interrupted" /\ DeservesRetry(r, TRUE)}

----------------------------------------------------------------------------
(* Writing the database.                                                   *)

\* enqueueRun, past the idempotency check: one row and its pending dates.
InsertRun(trigger, mode, key, parent, dates) ==
    /\ run' = [run EXCEPT ![nextId] =
                 [status |-> "queued", trigger |-> trigger, mode |-> mode,
                  key |-> key, parent |-> parent, cancelRequested |-> FALSE]]
    /\ day' = [day EXCEPT ![nextId] =
                 [d \in Dates |-> IF d \in dates
                                    THEN [status |-> "pending", disposition |-> "none"]
                                    ELSE NoDay]]
    /\ nextId' = nextId + 1

InsertLinkedRetry(r) ==
    InsertRun(run[r].trigger,
              IF run[r].mode = "registry" THEN "registry" ELSE "retry",
              <<"recovery", r>>, r,
              IF run[r].mode = "registry" THEN {} ELSE UnfinishedDates(r))

WithStatus(r, status) == [run EXCEPT ![r].status = status]

\* The days of r after each date of S is given the status, with no disposition.
Marked(r, S, status) ==
    [day EXCEPT ![r] = [d \in Dates |->
        IF d \in S THEN [status |-> status, disposition |-> "none"] ELSE day[r][d]]]

\* Mutant: the dates not yet begun are forgotten.
MarkedRunning(r, status) == Marked(r, {d \in Dates : day[r][d].status = "running"}, status)

\* The days of r after each unfinished date is given the status.
MarkedUnfinished(r, status) ==
    Marked(r, {d \in Dates : day[r][d].status \in {"pending", "running"}}, status)

----------------------------------------------------------------------------
(* Process, await points, pump.                                            *)

Up       == svc = "up"
Stopping == svc \in {"stopping", "stopped"}
Serving  == svc \in {"up", "stopping", "stopped"}   \* HTTP is drained before exit

\* The points at which the pump coroutine has given up the thread.
Yielded == exec.pc \in {"idle", "fetching", "returned", "finished"}

\* Mutant: nothing keeps a second loop from starting over the first.
TriggerSecondPump ==
    IF ~Up THEN UNCHANGED <<exec, pendingWork>>
    ELSE exec' = [NoExec EXCEPT !.pc = "loop"] /\ UNCHANGED pendingWork

\* Mutant: the wake-up is noted, but an idle pump does not look at it.
NoteWorkOnly ==
    IF ~Up THEN UNCHANGED <<exec, pendingWork>>
    ELSE pendingWork' = TRUE /\ UNCHANGED exec

\* triggerPump
TriggerPump ==
    IF ~Up THEN UNCHANGED <<exec, pendingWork>>
    ELSE IF exec.pc = "idle"
           THEN exec' = [NoExec EXCEPT !.pc = "loop"] /\ UNCHANGED pendingWork
           ELSE pendingWork' = TRUE /\ UNCHANGED exec

\* Mutant: the loop restarts for pending work even while stopping.
LeavePumpUnlessPending ==
    /\ exec' = [NoExec EXCEPT !.pc = IF pendingWork THEN "loop" ELSE "idle"]
    /\ pendingWork' = IF Up THEN FALSE ELSE pendingWork

\* The outer finally of pumpLoop.
LeavePump ==
    /\ exec' = [NoExec EXCEPT !.pc = IF pendingWork /\ Up THEN "loop" ELSE "idle"]
    /\ pendingWork' = IF Up THEN FALSE ELSE pendingWork

----------------------------------------------------------------------------
(* Startup and recovery: lifecycle.start, runRecovery, coordinator.start.  *)

\* recoverInterruptedRuns, the first transaction of runRecovery.
BootRecover ==
    /\ svc = "down"
    /\ svc' = "recovering"
    /\ toLink' = Running
    /\ run' = [r \in Runs |-> IF r \in Running
                                THEN [run[r] EXCEPT !.status = "interrupted"]
                                ELSE run[r]]
    /\ day' = [r \in Runs |-> IF r \in Running
                                THEN MarkedUnfinished(r, "interrupted")[r]
                                ELSE day[r]]
    /\ UNCHANGED <<nextId, accepted, published, scheduling, generation, preRebind,
                   schedulerOn, active, pendingWork, exec, budgets>>

\* A retry that does not fit makes runRecovery throw: RECOVERY_FAILED, and
\* server/index.mjs exits without ever listening.
BootFail ==
    /\ svc' = "down"
    /\ toLink' = {}
    /\ UNCHANGED <<durable, schedulerOn, active, pendingWork, exec, budgets>>

\* The loop over newly interrupted runs.
BootLink ==
    /\ svc = "recovering"
    /\ toLink # {}
    /\ LET r == Lowest(toLink)
       IN IF ~DeservesRetry(r, scheduling)
            THEN /\ toLink' = toLink \ {r}
                 /\ UNCHANGED <<durable, svc, schedulerOn, active, pendingWork, exec, budgets>>
          ELSE IF ~Room THEN BootFail
          ELSE /\ nextId <= MaxRuns
               /\ InsertLinkedRetry(r)
               /\ toLink' = toLink \ {r}
               /\ UNCHANGED <<accepted, published, scheduling, generation, preRebind,
                              svc, schedulerOn, active, pendingWork, exec, budgets>>

\* recoverDeferredRuns, called by runRecovery only when scheduling is enabled.
BootLinkDeferred ==
    /\ svc = "recovering"
    /\ toLink = {}
    /\ scheduling
    /\ Deferred # {}
    /\ IF ~Room THEN BootFail
       ELSE /\ nextId <= MaxRuns
            /\ InsertLinkedRetry(Lowest(Deferred))
            /\ UNCHANGED <<accepted, published, scheduling, generation, preRebind, process, budgets>>

\* coordinator.start repeats runRecovery, which finds nothing left to do, and
\* starts the pump; the scheduler starts only if scheduling is enabled now.
BootUp ==
    /\ svc = "recovering"
    /\ toLink = {}
    /\ ~(scheduling /\ Deferred # {})
    /\ svc' = "up"
    /\ schedulerOn' = scheduling
    /\ exec' = [NoExec EXCEPT !.pc = "loop"]
    /\ UNCHANGED <<durable, toLink, active, pendingWork, budgets>>

----------------------------------------------------------------------------
(* Intake: coordinator.enqueue and its callers, cancellation, settings.    *)

\* A replay of a known key returns the run it names; otherwise a row is
\* inserted if the queue has room.  Both trigger the pump; a full queue or a
\* key reused for another payload throws before it.
Enqueue(trigger, mode, key, parent, dates) ==
    /\ Up
    /\ Yielded
    /\ LET prior == {r \in Runs : run[r].status # "none" /\ run[r].key = key}
       IN IF prior # {}
            THEN /\ \A r \in prior : /\ run[r].trigger = trigger
                                     /\ run[r].mode = mode
                                     /\ DatesOf(r) = dates
                 /\ UNCHANGED <<run, day, nextId>>
            ELSE /\ Room
                 /\ nextId <= MaxRuns
                 /\ Cardinality(Submitted) < MaxIntake
                 /\ InsertRun(trigger, mode, key, parent, dates)
    /\ TriggerPump
    /\ UNCHANGED <<accepted, published, scheduling, generation, preRebind,
                   svc, toLink, schedulerOn, active, budgets>>

\* POST /api/admin/sync-runs and /sync-registry/refresh.
OperatorEnqueue ==
    \E q \in Requests : /\ q.trigger = "manual"
                        /\ Enqueue("manual", q.mode, <<"request", q.key>>, NoRun, q.dates)

\* SyncScheduler.tick: it runs only where its timer was installed at startup.
\* A tick whose key is known stands for the next due slot too, whose only other
\* effect is to trigger the pump.
SchedulerTick ==
    /\ schedulerOn
    /\ scheduling
    /\ \E q \in Requests : /\ q.trigger = "scheduled"
                           /\ Enqueue("scheduled", q.mode, <<"request", q.key>>, NoRun, q.dates)

\* POST /api/admin/sync-runs/:id/retry, for one date or for all that failed or
\* were interrupted.  A restricted date may be named once per rebind.  Layers are
\* not kept here: any date with a result may have a restricted one.
OperatorRetry ==
    /\ OperatorRetries
    /\ \E r \in Runs :
         LET unfinished == {d \in Dates : day[r][d].status \in {"failed", "interrupted"}}
             restricted == {d \in Dates : day[r][d].status \in {"skipped", "partial", "succeeded"}}
             retried    == {d \in Dates : \E c \in Runs \ preRebind :
                                            run[c].parent = r /\ d \in DatesOf(c)}
             named == unfinished \cup IF r \in preRebind THEN restricted \ retried ELSE {}
         IN \E dates \in {unfinished} \cup {{d} : d \in named} :
              /\ dates # {}
              /\ Enqueue("manual", "retry", <<"retry", r, generation, dates>>, r, dates)

\* cancel of a queued run is one transaction; a run already terminal is left alone.
CancelQueued(r) ==
    /\ Serving
    /\ Yielded
    /\ run[r].status = "queued"
    /\ run' = WithStatus(r, "cancelled")
    /\ day' = MarkedUnfinished(r, "cancelled")
    /\ UNCHANGED <<nextId, accepted, published, scheduling, generation, preRebind, process, budgets>>

\* cancel of the running run records the request and aborts its controller.
CancelRunning(r) ==
    /\ Serving
    /\ Yielded
    /\ run[r].status = "running"
    /\ ~run[r].cancelRequested
    /\ run' = [run EXCEPT ![r].cancelRequested = TRUE]
    /\ exec' = IF active = r THEN [exec EXCEPT !.aborted = TRUE] ELSE exec
    /\ UNCHANGED <<day, nextId, accepted, published, scheduling, generation, preRebind,
                   svc, toLink, schedulerOn, active, pendingWork, budgets>>

\* POST /api/admin/sync-settings writes the setting and wakes nobody.
SetScheduling ==
    /\ Serving
    /\ Yielded
    /\ scheduling' = ~scheduling
    /\ UNCHANGED <<run, day, nextId, accepted, published, generation, preRebind, process, budgets>>

\* Reconnecting through OAuth replaces the connection; it is bound to no archive yet.
Reconnect ==
    /\ Serving
    /\ Yielded
    /\ generation < MaxGeneration
    /\ generation' = generation + 1
    /\ preRebind' = {}
    /\ UNCHANGED <<run, day, nextId, accepted, published, scheduling, process, budgets>>

\* Binding the connection to the archive advances its generation too.
BindConnection ==
    /\ Serving
    /\ Yielded
    /\ generation < MaxGeneration
    /\ generation' = generation + 1
    /\ preRebind' = {r \in Runs : run[r].status # "none"}
    /\ UNCHANGED <<run, day, nextId, accepted, published, scheduling, process, budgets>>

----------------------------------------------------------------------------
(* The pump: pumpLoop and claimNextRun.                                    *)

PumpExit ==
    /\ exec.pc = "loop"
    /\ ~Up
    /\ LeavePump
    /\ UNCHANGED <<durable, svc, toLink, schedulerOn, active, budgets>>

PumpLinkDeferred ==
    /\ exec.pc = "loop"
    /\ Up
    /\ scheduling
    /\ Deferred # {}
    /\ Room
    /\ nextId <= MaxRuns
    /\ InsertLinkedRetry(Lowest(Deferred))
    /\ UNCHANGED <<accepted, published, scheduling, generation, preRebind, process, budgets>>

\* QueueFullError out of recoverDeferredRuns ends the loop before it claims.
PumpThrow ==
    /\ exec.pc = "loop"
    /\ Up
    /\ scheduling
    /\ Deferred # {}
    /\ ~Room
    /\ LeavePump
    /\ UNCHANGED <<durable, svc, toLink, schedulerOn, active, budgets>>


MayClaim == /\ scheduling => Deferred = {}
            /\ scheduling \/ QueuedManual # {}
            /\ Running = {}
            /\ Queued # {}

PumpNothing ==
    /\ exec.pc = "loop"
    /\ Up
    /\ scheduling => Deferred = {}
    /\ ~MayClaim
    /\ LeavePump
    /\ UNCHANGED <<durable, svc, toLink, schedulerOn, active, budgets>>

\* Manual runs go before automatic ones, then the oldest.
PumpClaim ==
    /\ exec.pc = "loop"
    /\ Up
    /\ MayClaim
    /\ LET r == Lowest(IF QueuedManual # {} THEN QueuedManual ELSE Queued)
       IN /\ run' = WithStatus(r, "running")
          /\ preRebind' = preRebind \ {r}
          /\ active' = r
          /\ exec' = [NoExec EXCEPT !.pc = "dispatch", !.run = r, !.todo = DatesOf(r),
                                    !.generation = generation]
    /\ UNCHANGED <<day, nextId, accepted, published, scheduling, generation,
                   svc, toLink, schedulerOn, pendingWork, budgets>>

\* The inner finally, after the awaited run promise settles.
PumpNext ==
    /\ exec.pc = "finished"
    /\ active' = NoRun
    /\ exec' = [NoExec EXCEPT !.pc = "loop"]
    /\ UNCHANGED <<durable, svc, toLink, schedulerOn, pendingWork, budgets>>

----------------------------------------------------------------------------
(* One run: executeRun, and syncDayWorker for each of its dates.           *)

CancelAsked == IsRunCancelRequested(exec.run)
AbortSeen   == Stopping \/ exec.aborted
DateRun     == run[exec.run].mode # "registry"

\* Mutant: the generation is never compared.
NeverRebound == FALSE

\* The connection was replaced since the run captured its generation.
Rebound == generation # exec.generation

\* Mutant: what a run's dates are marked when it stops is whatever the worker said.
EarlyStopVerbatim == exec.result

\* What a run marks its remaining dates when it must stop early.
EarlyStop == IF CancelAsked THEN "cancelled" ELSE "interrupted"

WriteDay(status, disposition) ==
    day' = [day EXCEPT ![exec.run][exec.date] = [status |-> status, disposition |-> disposition]]

UnchangedByRun == UNCHANGED <<nextId, published, scheduling, generation, preRebind,
                              svc, toLink, schedulerOn, active, pendingWork, disruptions>>

\* The run stops dispatching: the dates not yet begun are to be marked.
StopDispatch(status) == exec' = [exec EXCEPT !.pc = "marking", !.result = status]

\* The check before each date.  Nothing awaits between claiming a run and its
\* first date, so the separate check before the first date never fires.
StopBeforeDate ==
    /\ exec.pc = "dispatch"
    /\ DateRun
    /\ exec.todo # {}
    /\ CancelAsked \/ AbortSeen
    /\ StopDispatch(EarlyStop)
    /\ UNCHANGED <<run, day, accepted, faults>> /\ UnchangedByRun

\* markRemainingDates, one row at a time.
MarkNext ==
    /\ exec.pc = "marking"
    /\ exec.todo # {}
    /\ day' = Marked(exec.run, {Lowest(exec.todo)}, exec.result)
    /\ exec' = [exec EXCEPT !.todo = @ \ {Lowest(@)}]
    /\ UNCHANGED <<run, accepted, faults>> /\ UnchangedByRun

\* syncDayWorker up to its fetch: a connection replaced since the run began
\* fails the date; otherwise the date is marked running.
BeginDate ==
    /\ exec.pc = "dispatch"
    /\ DateRun
    /\ exec.todo # {}
    /\ ~(CancelAsked \/ AbortSeen)
    /\ LET d == Lowest(exec.todo)
       IN /\ day' = [day EXCEPT ![exec.run][d].status = IF Rebound THEN "failed" ELSE "running"]
          /\ exec' = [exec EXCEPT !.pc = IF Rebound THEN "returned" ELSE "fetching",
                                  !.todo = @ \ {d},
                                  !.date = d,
                                  !.result = IF Rebound THEN "done" ELSE "none"]
    /\ UNCHANGED <<run, accepted, faults>> /\ UnchangedByRun

\* The loop over the dates is over; the sweep after it gives a status to any
\* date that still has none.
NoMoreDates ==
    /\ exec.pc \in {"dispatch", "marking"}
    /\ DateRun
    /\ exec.todo = {}
    /\ day' = MarkedUnfinished(exec.run, IF CancelAsked THEN "cancelled"
                                         ELSE IF AbortSeen THEN "interrupted" ELSE "skipped")
    /\ exec' = [exec EXCEPT !.pc = "finish"]
    /\ UNCHANGED <<run, accepted, faults>> /\ UnchangedByRun

\* The row of one date as the transaction of reconcileDay leaves it; the
\* coordinator drops the disposition of a failed date.
Written(o) ==
    CASE o \in {"complete", "degraded"} -> [status |-> "succeeded", disposition |-> "useful"]
      [] o = "preserved"                -> [status |-> "partial",   disposition |-> "preserved"]
      [] o = "restricted"               -> [status |-> "skipped",   disposition |-> "preserved"]
      [] OTHER                          -> [status |-> "failed",    disposition |-> "none"]

Returning(result) == exec' = [exec EXCEPT !.pc = "returned", !.result = result]

\* The worker's answer carries AUTH_FAILED whichever of its checks refused the day.
Answer(o) == IF o = "auth" THEN "auth" ELSE "done"

\* syncDayWorker after its fetch: size ceiling, cancellation, generation,
\* reconcile.  The commit and the date's row are one transaction.
WorkerReturn(o) ==
    /\ exec.pc = "fetching"
    /\ DateRun
    /\ \/ /\ o = "threw"
          /\ Returning("threw")
          /\ UNCHANGED <<day, accepted>>
       \/ /\ o = "oversize"
          /\ Returning("done")
          /\ WriteDay("failed", "none")
          /\ UNCHANGED accepted
       \/ /\ o \notin {"threw", "oversize"}
          /\ exec.aborted \/ CancelAsked
          /\ Returning("cancelled")
          /\ WriteDay("cancelled", "none")
          /\ UNCHANGED accepted
       \/ /\ o \notin {"threw", "oversize"}
          /\ ~(exec.aborted \/ CancelAsked)
          /\ Rebound
          /\ Returning(Answer(o))
          /\ WriteDay("failed", "none")
          /\ UNCHANGED accepted
       \/ /\ o \notin {"threw", "oversize"}
          /\ ~(exec.aborted \/ CancelAsked)
          /\ ~Rebound
          /\ IF o = "degraded" THEN exec' = [exec EXCEPT !.pc = "committed"]
                               ELSE Returning(Answer(o))
          /\ WriteDay(Written(o).status, Written(o).disposition)
          /\ accepted' = IF o \in {"complete", "degraded"}
                           THEN accepted \cup {<<exec.run, exec.date>>}
                           ELSE accepted
    /\ UNCHANGED <<run, faults>> /\ UnchangedByRun

\* A day that lacks an optional layer is lowered to partial by a second write,
\* after the commit that called it succeeded.
DegradeDate ==
    /\ exec.pc = "committed"
    /\ WriteDay("partial", "useful")
    /\ Returning("done")
    /\ UNCHANGED <<run, accepted, faults>> /\ UnchangedByRun

\* The coordinator takes a worker that was cancelled, or that threw while the
\* run was being stopped: the date is rewritten and the rest will follow it.
HandleStopped ==
    /\ exec.pc = "returned"
    /\ DateRun
    /\ exec.result \in {"cancelled", "threw"}
    /\ CancelAsked \/ AbortSeen
    /\ day' = Marked(exec.run, {exec.date}, EarlyStop)
    /\ StopDispatch(EarlyStop)
    /\ UNCHANGED <<run, accepted, faults>> /\ UnchangedByRun

\* A thrown error fails its date and the loop goes on.
HandleThrown ==
    /\ exec.pc = "returned"
    /\ DateRun
    /\ exec.result = "threw"
    /\ ~(CancelAsked \/ AbortSeen)
    /\ WriteDay("failed", "none")
    /\ exec' = [exec EXCEPT !.pc = "dispatch"]
    /\ UNCHANGED <<run, accepted, faults>> /\ UnchangedByRun

\* Revoked authorization stops dispatch: the remaining dates are skipped.
HandleAuth ==
    /\ exec.pc = "returned"
    /\ DateRun
    /\ exec.result = "auth"
    /\ StopDispatch("skipped")
    /\ UNCHANGED <<run, day, accepted, faults>> /\ UnchangedByRun

\* Any other result leaves the row as the worker wrote it.
HandleDone ==
    /\ exec.pc = "returned"
    /\ DateRun
    /\ exec.result = "done"
    /\ exec' = [exec EXCEPT !.pc = "dispatch"]
    /\ UNCHANGED <<run, day, accepted, faults>> /\ UnchangedByRun

\* Mutant: one success is enough.
AnySuccess(r) ==
    IF \E d \in DatesOf(r) : day[r][d].status = "succeeded" THEN "succeeded" ELSE "partial"

\* aggregateRunOutcome over the dates of a run that nothing stopped.
AggregateOutcome(r) ==
    LET has(status) == \E d \in DatesOf(r) : day[r][d].status = status
        all(status) == \A d \in DatesOf(r) : day[r][d].status = status
        kept        == \E d \in DatesOf(r) : day[r][d].disposition # "none"
    IN IF DatesOf(r) = {}          THEN "failed"
       ELSE IF has("cancelled")    THEN "cancelled"
       ELSE IF has("interrupted")  THEN "interrupted"
       ELSE IF all("skipped")      THEN "partial"
       ELSE IF all("succeeded")    THEN "succeeded"
       ELSE IF has("failed") /\ ~kept /\ ~has("succeeded") THEN "failed"
       ELSE "partial"

\* The end of executeRun: aggregate, completeRun.
FinishRun ==
    /\ exec.pc = "finish"
    /\ LET r         == exec.run
           cancelled == \/ CancelAsked
                        \/ ~AbortSeen /\ \E d \in DatesOf(r) : day[r][d].status = "cancelled"
       IN run' = WithStatus(r, IF cancelled THEN "cancelled"
                               ELSE IF AbortSeen THEN "interrupted"
                               ELSE AggregateOutcome(r))
    /\ exec' = [exec EXCEPT !.pc = "finished"]
    /\ UNCHANGED <<day, accepted, faults>> /\ UnchangedByRun

\* A registry run reads its pages outside any transaction ...
BeginRegistry ==
    /\ exec.pc = "dispatch"
    /\ ~DateRun
    /\ exec' = [exec EXCEPT !.pc = "fetching"]
    /\ UNCHANGED <<run, day, accepted, faults>> /\ UnchangedByRun

\* ... and publishes all of them in one, unless aborted or stale ...
RegistryReturn ==
    /\ exec.pc = "fetching"
    /\ ~DateRun
    /\ \/ Returning("refused") /\ UNCHANGED published
       \/ /\ ~exec.aborted
          /\ ~Rebound
          /\ Returning("published")
          /\ published' = published \cup {exec.run}
    /\ UNCHANGED <<run, day, nextId, accepted, scheduling, generation, preRebind,
                   svc, toLink, schedulerOn, active, pendingWork, budgets>>

\* ... before the run's outcome is written.
FinishRegistry ==
    /\ exec.pc = "returned"
    /\ ~DateRun
    /\ run' = WithStatus(exec.run, IF exec.result = "published" THEN "succeeded"
                                   ELSE IF CancelAsked THEN "cancelled"
                                   ELSE IF AbortSeen THEN "interrupted"
                                   ELSE "failed")
    /\ exec' = [exec EXCEPT !.pc = "finished"]
    /\ UNCHANGED <<day, accepted, faults>> /\ UnchangedByRun

\* A database error inside executeRun: the pump's catch completes the run
\* from no dates at all and leaves the date rows as they are.
RunThrows ==
    /\ faults < MaxFaults
    /\ exec.pc \in {"dispatch", "returned", "marking", "finish"}
    /\ run' = WithStatus(exec.run, IF CancelAsked THEN "cancelled"
                                   ELSE IF Stopping THEN "interrupted"
                                   ELSE "failed")
    /\ exec' = [exec EXCEPT !.pc = "finished"]
    /\ faults' = faults + 1
    /\ UNCHANGED <<day, accepted>> /\ UnchangedByRun

\* The same inside the worker's second write makes the worker throw.
DegradeThrows ==
    /\ faults < MaxFaults
    /\ exec.pc = "committed"
    /\ Returning("threw")
    /\ faults' = faults + 1
    /\ UNCHANGED <<run, day, accepted>> /\ UnchangedByRun

----------------------------------------------------------------------------
(* Graceful stop and crash.                                                *)

\* coordinator.stop up to its race between the run and the deadline.
StopBegin ==
    /\ Up
    /\ Yielded
    /\ disruptions < MaxDisruptions
    /\ disruptions' = disruptions + 1
    /\ svc' = "stopping"
    /\ schedulerOn' = FALSE
    /\ exec' = IF active # NoRun THEN [exec EXCEPT !.aborted = TRUE] ELSE exec
    /\ UNCHANGED <<durable, toLink, active, pendingWork, faults>>

\* The run settled in time, or there was none.
StopSettled ==
    /\ svc = "stopping"
    /\ exec.pc = "idle"
    /\ svc' = "stopped"
    /\ UNCHANGED <<durable, toLink, schedulerOn, active, pendingWork, exec, budgets>>

\* The deadline passed first: stop() closes the run in its place and lets go
\* of it, but the run's own coroutine is still waiting for its fetch.
StopDeadline ==
    /\ svc = "stopping"
    /\ exec.pc = "fetching"
    /\ svc' = "stopped"
    /\ active' = NoRun
    /\ run' = WithStatus(exec.run, "interrupted")
    /\ day' = MarkedUnfinished(exec.run, "interrupted")
    /\ UNCHANGED <<nextId, accepted, published, scheduling, generation, preRebind,
                   toLink, schedulerOn, pendingWork, exec, budgets>>

ProcessGone ==
    /\ svc' = "down"
    /\ toLink' = {}
    /\ schedulerOn' = FALSE
    /\ active' = NoRun
    /\ pendingWork' = FALSE
    /\ exec' = NoExec

\* HTTP is drained and the database closed, or the 20-second timer fired.
Exit ==
    /\ svc = "stopped"
    /\ Yielded
    /\ ProcessGone
    /\ UNCHANGED <<durable, budgets>>

Crash ==
    /\ svc # "down"
    /\ disruptions < MaxDisruptions
    /\ disruptions' = disruptions + 1
    /\ ProcessGone
    /\ UNCHANGED <<durable, faults>>

----------------------------------------------------------------------------

\* What the program does by itself once it runs; the container restarts it.
Boot == BootRecover \/ BootLink \/ BootLinkDeferred \/ BootUp
Pump == PumpExit \/ PumpLinkDeferred \/ PumpThrow \/ PumpNothing \/ PumpClaim \/ PumpNext
Work == \/ StopBeforeDate \/ BeginDate \/ MarkNext \/ NoMoreDates
        \/ \E o \in Outcomes : WorkerReturn(o)
        \/ DegradeDate
        \/ HandleStopped \/ HandleThrown \/ HandleAuth \/ HandleDone \/ FinishRun
        \/ BeginRegistry \/ RegistryReturn \/ FinishRegistry
Shutdown == StopSettled \/ Exit

\* What the operator, the clock and the machine may do to it.
Operator == \/ OperatorEnqueue \/ OperatorRetry
            \/ \E r \in Runs : CancelQueued(r) \/ CancelRunning(r)
            \/ SetScheduling \/ Reconnect \/ BindConnection
Clock   == SchedulerTick \/ StopDeadline
Failure == StopBegin \/ Crash \/ RunThrows \/ DegradeThrows

System == Boot \/ Pump \/ Work \/ Shutdown

Next == System \/ Operator \/ Clock \/ Failure

Spec == Init /\ [][Next]_vars

\* Every await of the system ends: a request has a 30-second deadline and a
\* date a five-minute budget; the rest runs to completion by itself, and an
\* installed interval timer keeps firing.
FairSpec == Spec /\ WF_vars(System) /\ WF_vars(SchedulerTick)

----------------------------------------------------------------------------
(* Type invariant.                                                         *)

Keys == {<<>>} \cup ({"request"} \X {q.key : q \in Requests})
               \cup ({"recovery"} \X Runs)
               \cup ({"retry"} \X Runs \X (1..MaxGeneration) \X SUBSET Dates)

RunRow == [status : RunStatus, trigger : Triggers, mode : Modes, key : Keys,
           parent : Runs \cup {NoRun}, cancelRequested : BOOLEAN]
DayRow == [status : DayStatus, disposition : Disposition]

TypeOK ==
    /\ run \in [Runs -> RunRow]
    /\ day \in [Runs -> [Dates -> DayRow]]
    /\ nextId \in 1..(MaxRuns + 1)
    /\ accepted \subseteq Runs \X Dates
    /\ published \subseteq Runs
    /\ scheduling \in BOOLEAN
    /\ generation \in 1..MaxGeneration
    /\ preRebind \subseteq Runs
    /\ svc \in {"down", "recovering", "up", "stopping", "stopped"}
    /\ toLink \subseteq Runs
    /\ schedulerOn \in BOOLEAN
    /\ active \in Runs \cup {NoRun}
    /\ pendingWork \in BOOLEAN
    /\ exec \in [pc : {"idle", "loop", "dispatch", "fetching", "committed", "returned",
                       "marking", "finish", "finished"},
                 run : Runs \cup {NoRun}, todo : SUBSET Dates,
                 date : Dates \cup {NoDate}, generation : 0..MaxGeneration,
                 aborted : BOOLEAN, result : Results]
    /\ disruptions \in 0..MaxDisruptions
    /\ faults \in 0..MaxFaults

----------------------------------------------------------------------------
(* Safety.                                                                 *)

\* At most one run is running, and in a live process it is the run the pump is
\* executing: a running row nobody executes would block every later claim
\* until a restart (claimNextRun returns null while any run is running).
RunningRunIsOwned ==
    /\ \A r, s \in Running : r = s
    /\ svc # "down" => \A r \in Running :
                           /\ active = r
                           /\ exec.run = r
                           /\ exec.pc \notin {"idle", "loop", "finished"}

\* Whatever mixture of operator, scheduler and recovery fills it, the queue
\* never holds more nonterminal runs than its limit (SYNC_QUEUE_FULL).
QueueBounded == Cardinality(Nonterminal) <= QueueMax

\* No run ends while one of its dates is still pending or running, whichever
\* of the pump, cancel(), stop() or recovery ended it.
TerminalRunHasTerminalDates ==
    \A r \in Runs : run[r].status \in TerminalRun =>
        \A d \in Dates : day[r][d].status \notin {"pending", "running"}

\* A run reported as succeeded had every one of its dates committed by a
\* reconcile of that same run, or published the registry.
SucceededIsAccepted ==
    \A r \in Runs : run[r].status = "succeeded" =>
        IF run[r].mode = "registry" THEN r \in published
        ELSE DatesOf(r) # {} /\ \A d \in DatesOf(r) : <<r, d>> \in accepted

\* Recovery is exact: the retry of an interrupted run follows it, never
\* revives cancelled work, never refetches a date its parent had committed,
\* and no run is recovered twice.
RecoveryIsExact ==
    \A c \in Runs : run[c].status # "none" /\ run[c].key = <<"recovery", run[c].parent>> =>
        LET p == run[c].parent
        IN /\ p < c
           /\ run[p].status = "interrupted"
           /\ ~IsRunCancelRequested(p)
           /\ \A d \in DatesOf(c) : d \in DatesOf(p) /\ <<p, d>> \notin accepted
           /\ \A s \in Runs \ {c} : run[s].key # run[c].key

----------------------------------------------------------------------------
(* Action properties.                                                      *)

\* A candidate date or the registry is committed only for the running run,
\* before its cancellation is asked and before a shutdown begins, and only if
\* the connection it was fetched through is still the current one.
CommitOnlyWhileWanted ==
    [][\A r \in {x[1] : x \in accepted' \ accepted} \cup (published' \ published) :
          /\ run[r].status = "running"
          /\ ~run[r].cancelRequested
          /\ ~Stopping
          /\ exec.generation = generation]_vars

\* A terminal run never changes again, except that one stop() closed at its
\* deadline may still become cancelled if its cancellation had been asked.
TerminalRunsSettle ==
    [][\A r \in Runs : run[r].status \in TerminalRun /\ run'[r] # run[r] =>
          /\ run[r].status = "interrupted"
          /\ run'[r].status = "cancelled"
          /\ run[r].cancelRequested]_vars

\* Every unfinished date of an interrupted run that nobody cancelled belongs to
\* some run linked to it, unless the operator retried dates of it: recovery takes
\* that for the retry of the whole.
RetriedByOperator(r) == \E c \in Runs : run[c].parent = r /\ run[c].key[1] = "retry"
CoveredByRetry(r) ==
    run[r].status = "interrupted" /\ ~run[r].cancelRequested /\ ~RetriedByOperator(r) =>
        \A d \in UnfinishedDates(r) : \E c \in Runs : run[c].parent = r /\ d \in DatesOf(c)

\* When the process comes up with scheduling enabled, recovery has forgotten no
\* unfinished date, however many crashes and stops cut it short before.
NothingForgottenAtBoot ==
    [][svc = "recovering" /\ svc' = "up" /\ scheduling => \A r \in Runs : CoveredByRetry(r)]_vars

----------------------------------------------------------------------------
(* Liveness.                                                               *)


\* What the milestone says of them without that exception (NEXT-MILESTONE.md lines
\* 358 and 370): manual work goes first, and survives restart whether or not
\* scheduling is enabled.
QueuedManualRunsSurvive ==
    \A r \in Runs : run[r].status = "queued" /\ run[r].trigger = "manual"
                       ~> run[r].status \in TerminalRun

\* Where the scheduler runs, an automatic run does not stay queued while the
\* process and the setting stay up, whatever the operator submits meanwhile.
AutomaticRunsProceed ==
    \A r \in Runs :
        run[r].status = "queued" /\ Up /\ scheduling /\ schedulerOn
            ~> run[r].status # "queued" \/ ~Up \/ ~scheduling

\* A cancelled running run ends, so the request that awaits it is answered.
CancelEndsRun ==
    \A r \in Runs : run[r].cancelRequested ~> run[r].status \in TerminalRun

\* A graceful stop always leads to the process being gone.
ShutdownCompletes == svc = "stopping" ~> svc = "down"

============================================================================
