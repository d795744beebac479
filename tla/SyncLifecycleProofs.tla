------------------------ MODULE SyncLifecycleProofs ------------------------
(***************************************************************************)
(* Proofs about SyncLifecycle, for every value of its constants: any       *)
(* number of runs, dates, requests, crashes and faults.                    *)
(*                                                                         *)
(* Each invariant is proved over the ones before it: the step lemma of an  *)
(* invariant assumes the earlier ones in the states before and after.      *)
(***************************************************************************)
EXTENDS SyncLifecycle, FiniteSetTheorems, WellFoundedInduction, TLAPS

----------------------------------------------------------------------------
(* Lemmas about the operators of the specification.                        *)

\* A nonempty set of naturals contains its lowest element: the run or the date
\* that the pump and recovery pick exists.
LEMMA LowestIsIn ==
    ASSUME NEW S \in SUBSET Nat, S # {}
    PROVE  Lowest(S) \in S /\ \A y \in S : Lowest(S) <= y
<1>1. \E x \in S : \A y \in S : ~(<<y, x>> \in OpToRel(<, Nat))
  BY NatLessThanWellFounded, WFMin
<1>2. ASSUME NEW x \in Nat, NEW y \in Nat, ~(<<y, x>> \in OpToRel(<, Nat))
      PROVE  x <= y
  <2>1. <<y, x>> \in Nat \X Nat => ~(y < x)
    BY <1>2 DEF OpToRel
  <2> QED
    BY <2>1
<1>3. \E x \in S : \A y \in S : x <= y
  BY <1>1, <1>2
<1> QED
  BY <1>3 DEF Lowest

\* The sets WellFormed is built from.
RunTable == [Runs -> RunRow]
DayTable == [Runs -> [Dates -> DayRow]]

\* Run ids and dates are positive naturals.
LEMMA RunsAreNat == Runs \subseteq Nat \ {0} /\ Dates \subseteq Nat \ {0}
BY BoundsAssumption, DatesAssumption DEF Runs, BoundsAssumption, DatesAssumption

\* Giving a run a status keeps the run table well formed.
LEMMA WithStatusType ==
    ASSUME run \in RunTable, NEW r, NEW s \in RunStatus
    PROVE  WithStatus(r, s) \in RunTable
BY DEF WithStatus, RunTable, RunRow

\* Giving dates a status keeps the date table well formed.
LEMMA MarkedType ==
    ASSUME day \in DayTable, NEW r \in Runs \cup {NoRun}, NEW S, NEW s \in DayStatus
    PROVE  Marked(r, S, s) \in DayTable
<1> DEFINE row(d) == IF d \in S THEN [status |-> s, disposition |-> "none"] ELSE day[r][d]
<1>1. CASE r \in Runs
  <2>1. \A d \in Dates : row(d) \in DayRow
    BY <1>1 DEF DayTable, DayRow, Disposition
  <2>2. [d \in Dates |-> row(d)] \in [Dates -> DayRow]
    BY <2>1
  <2> QED
    BY <2>2 DEF Marked, DayTable
<1>2. CASE r \notin Runs
  BY <1>2 DEF Marked, DayTable
<1> QED
  BY <1>1, <1>2

\* So does changing the status of one date.
LEMMA DayStatusType ==
    ASSUME day \in DayTable, NEW r, NEW d, NEW s \in DayStatus
    PROVE  [day EXCEPT ![r][d].status = s] \in DayTable
<1> DEFINE cell == [day[r][d] EXCEPT !.status = s]
           row  == [day[r] EXCEPT ![d] = cell]
<1>1. [day EXCEPT ![r][d].status = s] = [day EXCEPT ![r] = row]
  OBVIOUS
<1>2. CASE r \in Runs
  <2>1. d \in Dates => cell \in DayRow
    BY <1>2 DEF DayTable, DayRow
  <2>2. day[r] \in [Dates -> DayRow]
    BY <1>2 DEF DayTable
  <2>3. row \in [Dates -> DayRow]
    BY <2>1, <2>2
  <2> QED
    BY <1>1, <2>3 DEF DayTable
<1>3. CASE r \notin Runs
  BY <1>1, <1>3 DEF DayTable
<1> QED
  BY <1>2, <1>3

\* Marking the unfinished dates of a run keeps the date table well formed.
LEMMA MarkedUnfinishedType ==
    ASSUME day \in DayTable, NEW r \in Runs \cup {NoRun}, NEW s \in DayStatus
    PROVE  MarkedUnfinished(r, s) \in DayTable
BY MarkedType DEF MarkedUnfinished

\* An inserted run and its dates are rows of their tables.
LEMMA InsertRunType ==
    ASSUME run \in RunTable, day \in DayTable, nextId \in Runs,
           NEW trigger \in Triggers, NEW mode \in Modes, NEW key \in Keys,
           NEW parent \in Runs \cup {NoRun}, NEW dates,
           InsertRun(trigger, mode, key, parent, dates)
    PROVE  /\ run' \in RunTable
           /\ day' \in DayTable
           /\ nextId' \in 1..(MaxRuns + 1)
<1>1. run' \in RunTable
  BY DEF InsertRun, RunTable, RunRow, RunStatus
<1>2. [d \in Dates |-> IF d \in dates THEN [status |-> "pending", disposition |-> "none"]
                                      ELSE NoDay] \in [Dates -> DayRow]
  BY DEF DayRow, DayStatus, Disposition, NoDay
<1>3. day' \in DayTable
  BY <1>2 DEF InsertRun, DayTable
<1>4. nextId' \in 1..(MaxRuns + 1)
  BY BoundsAssumption DEF InsertRun, Runs, BoundsAssumption
<1> QED
  BY <1>1, <1>3, <1>4

----------------------------------------------------------------------------
(* Type correctness.                                                       *)

ExecRecord == [pc : {"idle", "loop", "dispatch", "fetching", "committed", "returned",
                     "marking", "finish", "finished"},
               run : Runs \cup {NoRun}, todo : SUBSET Dates,
               date : Dates \cup {NoDate}, generation : 0..MaxGeneration,
               aborted : BOOLEAN, result : Results]

\* TypeOK but for the two sets of commits, whose types rest on ExecutesARun below.
WellFormed ==
    /\ run \in RunTable
    /\ day \in DayTable
    /\ nextId \in 1..(MaxRuns + 1)
    /\ scheduling \in BOOLEAN
    /\ generation \in 1..MaxGeneration
    /\ preRebind \subseteq Runs
    /\ svc \in {"down", "recovering", "up", "stopping", "stopped"}
    /\ toLink \subseteq Runs
    /\ schedulerOn \in BOOLEAN
    /\ active \in Runs \cup {NoRun}
    /\ pendingWork \in BOOLEAN
    /\ exec \in ExecRecord
    /\ disruptions \in 0..MaxDisruptions
    /\ faults \in 0..MaxFaults

\* What WellFormed lacks to be inductive: the status a run gives its remaining
\* dates is a status.
MarkingStatus == exec.pc = "marking" => exec.result \in {"interrupted", "cancelled", "skipped"}

TypeInv == WellFormed /\ MarkingStatus

\* The parts of the type invariant the lemmas below use most.
LEMMA TypeTables ==
    WellFormed => /\ run \in RunTable /\ day \in DayTable /\ exec \in ExecRecord
              /\ nextId \in 1..(MaxRuns + 1) /\ generation \in 1..MaxGeneration
              /\ toLink \subseteq Runs
BY DEF WellFormed

\* The pump's coroutine before it has claimed a run.
LEMMA NoExecType ==
    /\ NoExec \in ExecRecord
    /\ \A pc \in {"idle", "loop"} : [NoExec EXCEPT !.pc = pc] \in ExecRecord
<1>1. 0 \in 0..MaxGeneration
  BY BoundsAssumption DEF BoundsAssumption
<1> QED
  BY <1>1 DEF NoExec, ExecRecord, NoRun, NoDate, Results

\* triggerPump leaves a well-formed pump.
LEMMA TriggerPumpType ==
    ASSUME exec \in ExecRecord, MarkingStatus, pendingWork \in BOOLEAN, TriggerPump
    PROVE  exec' \in ExecRecord /\ MarkingStatus' /\ pendingWork' \in BOOLEAN
<1>1. CASE exec' = [NoExec EXCEPT !.pc = "loop"] /\ UNCHANGED pendingWork
  BY <1>1, NoExecType DEF MarkingStatus, NoExec
<1>2. CASE UNCHANGED exec /\ (UNCHANGED pendingWork \/ pendingWork' = TRUE)
  BY <1>2 DEF MarkingStatus
<1> QED
  BY <1>1, <1>2 DEF TriggerPump

\* So do the finally blocks of the pump.
LEMMA LeavePumpType ==
    ASSUME pendingWork \in BOOLEAN, LeavePump
    PROVE  exec' \in ExecRecord /\ MarkingStatus' /\ pendingWork' \in BOOLEAN
<1>1. \E pc \in {"idle", "loop"} : exec' = [NoExec EXCEPT !.pc = pc]
  BY DEF LeavePump
<1>2. exec' \in ExecRecord /\ MarkingStatus'
  BY <1>1, NoExecType DEF MarkingStatus, NoExec
<1> QED
  BY <1>2 DEF LeavePump

\* A linked retry and its dates are rows of their tables.
LEMMA LinkedRetryType ==
    ASSUME run \in RunTable, day \in DayTable, nextId \in 1..(MaxRuns + 1), nextId <= MaxRuns,
           NEW r \in Runs, InsertLinkedRetry(r)
    PROVE  /\ run' \in RunTable
           /\ day' \in DayTable
           /\ nextId' \in 1..(MaxRuns + 1)
<1>1. run[r].trigger \in Triggers
  BY DEF RunTable, RunRow
<1>2. (IF run[r].mode = "registry" THEN "registry" ELSE "retry") \in Modes
  BY DEF Modes
<1>3. <<"recovery", r>> \in Keys
  BY DEF Keys
<1>4. nextId \in Runs
  BY BoundsAssumption DEF Runs, BoundsAssumption
<1> QED
  BY <1>1, <1>2, <1>3, <1>4, InsertRunType DEF InsertLinkedRetry

\* Intake of a run keeps the type invariant.
LEMMA EnqueueType ==
    ASSUME TypeInv, NEW trigger \in Triggers, NEW mode \in Modes, NEW key \in Keys,
           NEW parent \in Runs \cup {NoRun}, NEW dates,
           Enqueue(trigger, mode, key, parent, dates)
    PROVE  TypeInv'
<1>1. run' \in RunTable /\ day' \in DayTable /\ nextId' \in 1..(MaxRuns + 1)
  <2>1. CASE UNCHANGED <<run, day, nextId>>
    BY <2>1, TypeTables DEF TypeInv, RunTable, DayTable
  <2>2. CASE nextId <= MaxRuns /\ InsertRun(trigger, mode, key, parent, dates)
    <3>1. nextId \in Runs
      BY <2>2, TypeTables, BoundsAssumption DEF TypeInv, Runs, BoundsAssumption
    <3> QED
      BY <2>2, <3>1, TypeTables, InsertRunType DEF TypeInv
  <2> QED
    BY <2>1, <2>2 DEF Enqueue
<1>2. exec' \in ExecRecord /\ MarkingStatus' /\ pendingWork' \in BOOLEAN
  BY TypeTables, TriggerPumpType DEF Enqueue, TypeInv, WellFormed
<1> QED
  BY <1>1, <1>2 DEF Enqueue, TypeInv, WellFormed, budgets

\* What a run's own step leaves alone keeps its type.
LEMMA RunStepType ==
    ASSUME TypeInv, run' \in RunTable, day' \in DayTable, exec' \in ExecRecord, MarkingStatus',
           faults' \in 0..MaxFaults, disruptions' \in 0..MaxDisruptions,
           svc' \in {"down", "recovering", "up", "stopping", "stopped"},
           UNCHANGED <<nextId, scheduling, generation, preRebind,
                       toLink, schedulerOn, pendingWork>>,
           active' \in Runs \cup {NoRun}
    PROVE  TypeInv'
BY DEF TypeInv, WellFormed

\* The steps of a start keep the type invariant.
LEMMA TypeBoot ==
    ASSUME TypeInv, Boot
    PROVE  TypeInv'
<1>1. CASE BootRecover
  <2>1. run' \in RunTable
    BY <1>1, TypeTables DEF BootRecover, TypeInv, RunTable, RunRow, RunStatus, TerminalRun
  <2>2. ASSUME NEW r \in Runs
        PROVE  MarkedUnfinished(r, "interrupted")[r] \in [Dates -> DayRow]
    <3>1. MarkedUnfinished(r, "interrupted") \in DayTable
      BY MarkedUnfinishedType, TypeTables DEF TypeInv, DayStatus, TerminalDay
    <3> QED
      BY <3>1 DEF DayTable
  <2>3. day' \in DayTable
    BY <1>1, <2>2, TypeTables DEF BootRecover, TypeInv, DayTable
  <2>4. toLink' \subseteq Runs
    BY <1>1 DEF BootRecover, Running
  <2> QED
    BY <1>1, <2>1, <2>3, <2>4
       DEF BootRecover, TypeInv, WellFormed, MarkingStatus, budgets
<1>2. CASE BootLink
  <2>1. Lowest(toLink) \in Runs
    BY <1>2, TypeTables, LowestIsIn, RunsAreNat DEF BootLink, TypeInv
  <2>2. CASE InsertLinkedRetry(Lowest(toLink)) /\ nextId <= MaxRuns
    <3>1. run' \in RunTable /\ day' \in DayTable /\ nextId' \in 1..(MaxRuns + 1)
      BY <2>1, <2>2, TypeTables, LinkedRetryType DEF TypeInv
    <3>2. toLink' \subseteq Runs /\ svc' \in {svc, "down"}
      BY <1>2, TypeTables DEF BootLink, BootFail, TypeInv
    <3> QED
      BY <1>2, <3>1, <3>2
         DEF BootLink, BootFail, TypeInv, WellFormed, MarkingStatus, durable, budgets
  <2>3. CASE UNCHANGED durable
    BY <1>2, <2>3, TypeTables
       DEF BootLink, BootFail, TypeInv, WellFormed, MarkingStatus, durable, budgets
  <2> QED
    BY <1>2, <2>2, <2>3 DEF BootLink, BootFail
<1>3. CASE BootLinkDeferred
  <2>1. CASE BootFail
    BY <2>1 DEF BootFail, TypeInv, WellFormed, MarkingStatus, durable, budgets
  <2>2. CASE /\ nextId <= MaxRuns
             /\ InsertLinkedRetry(Lowest(Deferred))
             /\ UNCHANGED <<accepted, published, scheduling, generation, preRebind, process, budgets>>
    <3>1. Lowest(Deferred) \in Runs
      BY <1>3, LowestIsIn, RunsAreNat DEF BootLinkDeferred, Deferred
    <3>2. run' \in RunTable /\ day' \in DayTable /\ nextId' \in 1..(MaxRuns + 1)
      BY <2>2, <3>1, TypeTables, LinkedRetryType DEF TypeInv
    <3> QED
      BY <2>2, <3>2 DEF TypeInv, WellFormed, MarkingStatus, process, budgets
  <2> QED
    BY <1>3, <2>1, <2>2 DEF BootLinkDeferred
<1>4. CASE BootUp
  <2>1. exec' \in ExecRecord /\ MarkingStatus'
    BY <1>4, NoExecType DEF BootUp, MarkingStatus, NoExec
  <2> QED
    BY <1>4, <2>1 DEF BootUp, TypeInv, WellFormed, durable, budgets
<1> QED
  BY <1>1, <1>2, <1>3, <1>4 DEF Boot

\* The steps of the pump keep the type invariant.
LEMMA TypePump ==
    ASSUME TypeInv, Pump
    PROVE  TypeInv'
<1>1. CASE PumpExit \/ PumpThrow \/ PumpNothing
  <2>1. exec' \in ExecRecord /\ MarkingStatus' /\ pendingWork' \in BOOLEAN
    BY <1>1, LeavePumpType DEF PumpExit, PumpThrow, PumpNothing, TypeInv, WellFormed
  <2> QED
    BY <1>1, <2>1 DEF PumpExit, PumpThrow, PumpNothing, TypeInv, WellFormed, durable, budgets
<1>2. CASE PumpLinkDeferred
  <2>1. Lowest(Deferred) \in Runs
    BY <1>2, LowestIsIn, RunsAreNat DEF PumpLinkDeferred, Deferred
  <2>2. run' \in RunTable /\ day' \in DayTable /\ nextId' \in 1..(MaxRuns + 1)
    BY <1>2, <2>1, TypeTables, LinkedRetryType DEF PumpLinkDeferred, TypeInv
  <2> QED
    BY <1>2, <2>2
       DEF PumpLinkDeferred, TypeInv, WellFormed, MarkingStatus, process, budgets
<1>3. CASE PumpClaim
  <2> DEFINE r == Lowest(IF QueuedManual # {} THEN QueuedManual ELSE Queued)
  <2>1. r \in Runs
    BY <1>3, LowestIsIn, RunsAreNat DEF PumpClaim, MayClaim, QueuedManual, Queued
  <2>2. run' \in RunTable
    BY <1>3, TypeTables, WithStatusType DEF PumpClaim, TypeInv, RunStatus
  <2>3. generation \in 0..MaxGeneration
    BY TypeTables DEF TypeInv
  <2>4. exec' \in ExecRecord
    BY <1>3, <2>1, <2>3, NoExecType DEF PumpClaim, NoExec, ExecRecord, DatesOf
  <2>5. MarkingStatus'
    BY <1>3 DEF PumpClaim, NoExec, MarkingStatus
  <2> QED
    BY <1>3, <2>1, <2>2, <2>4, <2>5 DEF PumpClaim, TypeInv, WellFormed, budgets
<1>4. CASE PumpNext
  BY <1>4, TypeTables, NoExecType
     DEF PumpNext, NoExec, TypeInv, WellFormed, MarkingStatus, ExecRecord, durable, budgets
<1> QED
  BY <1>1, <1>2, <1>3, <1>4 DEF Pump

\* The handlers of the routes keep the type invariant.
LEMMA TypeOperator ==
    ASSUME TypeInv, Operator \/ SchedulerTick
    PROVE  TypeInv'
<1>1. CASE OperatorEnqueue
  BY <1>1, EnqueueType, RequestsAssumption DEF OperatorEnqueue, RequestsAssumption, Keys, Triggers
<1>2. CASE SchedulerTick
  BY <1>2, EnqueueType, RequestsAssumption DEF SchedulerTick, RequestsAssumption, Keys, Triggers
<1>3. CASE OperatorRetry
  BY <1>3, EnqueueType, TypeTables DEF OperatorRetry, Keys, Triggers, Modes, TypeInv
<1>4. ASSUME NEW r \in Runs, CancelQueued(r)
      PROVE  TypeInv'
  <2>1. run' \in RunTable
    BY <1>4, TypeTables, WithStatusType DEF CancelQueued, TypeInv, RunStatus, TerminalRun
  <2>2. day' \in DayTable
    BY <1>4, TypeTables, MarkedUnfinishedType DEF CancelQueued, TypeInv, DayStatus, TerminalDay
  <2> QED
    BY <1>4, <2>1, <2>2
       DEF CancelQueued, TypeInv, WellFormed, MarkingStatus, process, budgets
<1>5. ASSUME NEW r \in Runs, CancelRunning(r)
      PROVE  TypeInv'
  <2>1. run' \in RunTable
    BY <1>5, TypeTables DEF CancelRunning, TypeInv, RunTable, RunRow
  <2>2. exec' \in ExecRecord /\ MarkingStatus'
    BY <1>5, TypeTables DEF CancelRunning, TypeInv, ExecRecord, MarkingStatus
  <2> QED
    BY <1>5, <2>1, <2>2 DEF CancelRunning, TypeInv, WellFormed, budgets
<1>6. CASE SetScheduling
  BY <1>6 DEF SetScheduling, TypeInv, WellFormed, MarkingStatus, process, budgets
<1>7. CASE Reconnect \/ BindConnection
  BY <1>7, BoundsAssumption
     DEF Reconnect, BindConnection, TypeInv, WellFormed, MarkingStatus, process, budgets, BoundsAssumption
<1> QED
  BY <1>1, <1>2, <1>3, <1>4, <1>5, <1>6, <1>7 DEF Operator

\* The dates an early stop leaves get a date status.
LEMMA EarlyStopType ==
    EarlyStop \in {"interrupted", "cancelled"} /\ {"interrupted", "cancelled", "skipped"} \subseteq DayStatus
BY DEF EarlyStop, DayStatus, TerminalDay

\* A written date is a date row.
LEMMA WriteDayType ==
    ASSUME TypeInv, NEW s \in DayStatus, NEW d \in Disposition, WriteDay(s, d)
    PROVE  day' \in DayTable
BY TypeTables DEF TypeInv, WriteDay, DayTable, DayRow

\* Leaving the dispatch loop marks with a date status.
LEMMA StopDispatchType ==
    ASSUME TypeInv, NEW s \in {"interrupted", "cancelled", "skipped"}, StopDispatch(s)
    PROVE  exec' \in ExecRecord /\ MarkingStatus'
BY TypeTables DEF TypeInv, StopDispatch, ExecRecord, MarkingStatus, Results

\* A worker's answer is one of Results.
LEMMA ReturningType ==
    ASSUME TypeInv, NEW s \in Results, Returning(s)
    PROVE  exec' \in ExecRecord /\ MarkingStatus'
BY TypeTables DEF TypeInv, Returning, ExecRecord, MarkingStatus, Results

\* The steps of a run keep the type invariant.
LEMMA TypeWork ==
    ASSUME TypeInv, Work
    PROVE  TypeInv'
<1> USE TypeTables
<1>1. CASE StopBeforeDate
  <2>1. exec' \in ExecRecord /\ MarkingStatus'
    BY <1>1, StopDispatchType, EarlyStopType DEF StopBeforeDate
  <2> QED
    BY <1>1, <2>1, RunStepType DEF StopBeforeDate, UnchangedByRun, TypeInv, WellFormed
<1>2. CASE MarkNext
  <2>1. exec.run \in Runs \cup {NoRun} /\ exec.result \in DayStatus
    BY <1>2, EarlyStopType DEF MarkNext, MarkingStatus, TypeInv, ExecRecord
  <2>2. day' \in DayTable
    BY <1>2, <2>1, MarkedType DEF MarkNext, TypeInv
  <2>3. exec' \in ExecRecord /\ MarkingStatus'
    BY <1>2 DEF MarkNext, TypeInv, ExecRecord, MarkingStatus
  <2> QED
    BY <1>2, <2>2, <2>3, RunStepType DEF MarkNext, UnchangedByRun, TypeInv, WellFormed
<1>3. CASE BeginDate
  <2>1. Lowest(exec.todo) \in Dates
    BY <1>3, LowestIsIn, RunsAreNat DEF BeginDate, TypeInv, ExecRecord
  <2>2. day' \in DayTable
    <3> DEFINE s == IF Rebound THEN "failed" ELSE "running"
    <3>1. s \in DayStatus
      BY DEF DayStatus, TerminalDay
    <3>2. day' = [day EXCEPT ![exec.run][Lowest(exec.todo)].status = s]
      BY <1>3 DEF BeginDate
    <3> QED
      BY <3>1, <3>2, DayStatusType DEF TypeInv
  <2>3. exec' \in ExecRecord /\ MarkingStatus'
    BY <1>3, <2>1 DEF BeginDate, TypeInv, ExecRecord, MarkingStatus, Results
  <2> QED
    BY <1>3, <2>2, <2>3, RunStepType DEF BeginDate, UnchangedByRun, TypeInv, WellFormed
<1>4. CASE NoMoreDates
  <2>1. day' \in DayTable
    BY <1>4, MarkedUnfinishedType, EarlyStopType DEF NoMoreDates, TypeInv, ExecRecord
  <2>2. exec' \in ExecRecord /\ MarkingStatus'
    BY <1>4 DEF NoMoreDates, TypeInv, ExecRecord, MarkingStatus
  <2> QED
    BY <1>4, <2>1, <2>2, RunStepType DEF NoMoreDates, UnchangedByRun, TypeInv, WellFormed
<1>5. ASSUME NEW o \in Outcomes, WorkerReturn(o)
      PROVE  TypeInv'
  <2>1. /\ Written(o).status \in DayStatus /\ Written(o).disposition \in Disposition
        /\ {"failed", "cancelled"} \subseteq DayStatus /\ "none" \in Disposition
        /\ {"threw", "done", "cancelled"} \subseteq Results /\ Answer(o) \in Results
    BY DEF Written, DayStatus, TerminalDay, Disposition, Results, Answer
  <2>2. day' \in DayTable
    BY <1>5, <2>1, WriteDayType DEF WorkerReturn, TypeInv
  <2>3. exec' \in ExecRecord /\ MarkingStatus'
    <3>1. CASE exec' = [exec EXCEPT !.pc = "committed"]
      BY <1>5, <3>1 DEF TypeInv, ExecRecord, MarkingStatus
    <3>2. CASE \E s \in Results : Returning(s)
      BY <3>2, ReturningType
    <3> QED
      BY <1>5, <2>1, <3>1, <3>2 DEF WorkerReturn
  <2> QED
    BY <1>5, <2>2, <2>3, RunStepType DEF WorkerReturn, UnchangedByRun, TypeInv, WellFormed
<1>6. CASE DegradeDate
  <2>1. day' \in DayTable
    BY <1>6, WriteDayType DEF DegradeDate, DayStatus, TerminalDay, Disposition
  <2>2. exec' \in ExecRecord /\ MarkingStatus'
    BY <1>6, ReturningType DEF DegradeDate, Results
  <2> QED
    BY <1>6, <2>1, <2>2, RunStepType DEF DegradeDate, UnchangedByRun, TypeInv, WellFormed
<1>7. CASE HandleStopped
  <2>1. day' \in DayTable
    BY <1>7, MarkedType, EarlyStopType DEF HandleStopped, TypeInv, ExecRecord
  <2>2. exec' \in ExecRecord /\ MarkingStatus'
    BY <1>7, StopDispatchType, EarlyStopType DEF HandleStopped
  <2> QED
    BY <1>7, <2>1, <2>2, RunStepType DEF HandleStopped, UnchangedByRun, TypeInv, WellFormed
<1>8. CASE HandleThrown
  <2>1. day' \in DayTable
    BY <1>8, WriteDayType DEF HandleThrown, DayStatus, TerminalDay, Disposition
  <2>2. exec' \in ExecRecord /\ MarkingStatus'
    BY <1>8 DEF HandleThrown, TypeInv, ExecRecord, MarkingStatus
  <2> QED
    BY <1>8, <2>1, <2>2, RunStepType DEF HandleThrown, UnchangedByRun, TypeInv, WellFormed
<1>9. CASE HandleAuth
  <2>1. exec' \in ExecRecord /\ MarkingStatus'
    BY <1>9, StopDispatchType DEF HandleAuth
  <2> QED
    BY <1>9, <2>1, RunStepType DEF HandleAuth, UnchangedByRun, TypeInv, WellFormed
<1>10. CASE HandleDone \/ BeginRegistry
  <2>1. exec' \in ExecRecord /\ MarkingStatus'
    BY <1>10 DEF HandleDone, BeginRegistry, TypeInv, ExecRecord, MarkingStatus
  <2> QED
    BY <1>10, <2>1, RunStepType
       DEF HandleDone, BeginRegistry, UnchangedByRun, TypeInv, WellFormed
<1>11. CASE FinishRun
  <2>1. AggregateOutcome(exec.run) \in RunStatus /\ {"cancelled", "interrupted"} \subseteq RunStatus
    BY DEF AggregateOutcome, RunStatus, TerminalRun
  <2>2. run' \in RunTable
    BY <1>11, <2>1, WithStatusType DEF FinishRun, TypeInv
  <2>3. exec' \in ExecRecord /\ MarkingStatus'
    BY <1>11 DEF FinishRun, TypeInv, ExecRecord, MarkingStatus
  <2> QED
    BY <1>11, <2>2, <2>3, RunStepType DEF FinishRun, UnchangedByRun, TypeInv, WellFormed
<1>12. CASE RegistryReturn
  <2>1. exec' \in ExecRecord /\ MarkingStatus'
    BY <1>12, ReturningType DEF RegistryReturn, Results
  <2> QED
    BY <1>12, <2>1, RunStepType DEF RegistryReturn, TypeInv, WellFormed, budgets
<1>13. CASE FinishRegistry
  <2>1. run' \in RunTable
    BY <1>13, WithStatusType DEF FinishRegistry, TypeInv, RunStatus, TerminalRun
  <2>2. exec' \in ExecRecord /\ MarkingStatus'
    BY <1>13 DEF FinishRegistry, TypeInv, ExecRecord, MarkingStatus
  <2> QED
    BY <1>13, <2>1, <2>2, RunStepType DEF FinishRegistry, UnchangedByRun, TypeInv, WellFormed
<1> QED
  BY <1>1, <1>2, <1>3, <1>4, <1>5, <1>6, <1>7, <1>8, <1>9, <1>10, <1>11, <1>12, <1>13 DEF Work

\* Shutdown, the stop deadline, errors and crashes keep the type invariant.
LEMMA TypeDisruption ==
    ASSUME TypeInv, Shutdown \/ StopDeadline \/ Failure
    PROVE  TypeInv'
<1> USE TypeTables
<1>1. CASE RunThrows \/ DegradeThrows
  <2>1. run' \in RunTable
    BY <1>1, WithStatusType DEF RunThrows, DegradeThrows, TypeInv, RunStatus, TerminalRun
  <2>2. exec' \in ExecRecord /\ MarkingStatus'
    BY <1>1, ReturningType DEF RunThrows, DegradeThrows, TypeInv, ExecRecord, MarkingStatus, Results
  <2>3. faults' \in 0..MaxFaults
    BY <1>1, BoundsAssumption DEF RunThrows, DegradeThrows, TypeInv, WellFormed, BoundsAssumption
  <2> QED
    BY <1>1, <2>1, <2>2, <2>3, RunStepType
       DEF RunThrows, DegradeThrows, UnchangedByRun, TypeInv, WellFormed
<1>2. CASE StopBegin
  <2>1. exec' \in ExecRecord /\ MarkingStatus'
    BY <1>2 DEF StopBegin, TypeInv, ExecRecord, MarkingStatus
  <2>2. disruptions' \in 0..MaxDisruptions
    BY <1>2, BoundsAssumption DEF StopBegin, TypeInv, WellFormed, BoundsAssumption
  <2> QED
    BY <1>2, <2>1, <2>2 DEF StopBegin, TypeInv, WellFormed, durable
<1>3. CASE StopSettled
  BY <1>3 DEF StopSettled, TypeInv, WellFormed, MarkingStatus, durable, budgets
<1>4. CASE StopDeadline
  <2>1. run' \in RunTable
    BY <1>4, WithStatusType DEF StopDeadline, TypeInv, RunStatus, TerminalRun
  <2>2. day' \in DayTable
    BY <1>4, MarkedUnfinishedType, EarlyStopType DEF StopDeadline, TypeInv, ExecRecord
  <2> QED
    BY <1>4, <2>1, <2>2 DEF StopDeadline, TypeInv, WellFormed, MarkingStatus, budgets
<1>5. CASE Exit \/ Crash
  <2>1. exec' \in ExecRecord /\ MarkingStatus'
    <3>1. exec' = NoExec
      BY <1>5 DEF Exit, Crash, ProcessGone
    <3> QED
      BY <3>1, NoExecType DEF MarkingStatus, NoExec
  <2>2. disruptions' \in 0..MaxDisruptions
    BY <1>5, BoundsAssumption DEF Exit, Crash, TypeInv, WellFormed, BoundsAssumption, budgets
  <2> QED
    BY <1>5, <2>1, <2>2 DEF Exit, Crash, ProcessGone, TypeInv, WellFormed, durable, budgets
<1> QED
  BY <1>1, <1>2, <1>3, <1>4, <1>5 DEF Shutdown, Failure

\* The empty database is well formed.
LEMMA TypeInit == Init => TypeInv
<1> SUFFICES ASSUME Init PROVE TypeInv
  OBVIOUS
<1>1. run \in RunTable
  BY DEF Init, RunTable, RunRow, NoRow, RunStatus, Triggers, Modes, Keys
<1>2. day \in DayTable
  BY DEF Init, DayTable, DayRow, NoDay, DayStatus, Disposition
<1>3. exec \in ExecRecord /\ MarkingStatus
  BY NoExecType DEF Init, MarkingStatus, NoExec
<1>4. /\ nextId \in 1..(MaxRuns + 1) /\ generation \in 1..MaxGeneration
      /\ disruptions \in 0..MaxDisruptions /\ faults \in 0..MaxFaults
  BY BoundsAssumption DEF Init, BoundsAssumption
<1> QED
  BY <1>1, <1>2, <1>3, <1>4 DEF Init, TypeInv, WellFormed

\* A step that changes nothing keeps the type invariant.
LEMMA TypeStutter == TypeInv /\ UNCHANGED vars => TypeInv'
BY DEF TypeInv, WellFormed, MarkingStatus, vars, durable, process, budgets

\* Every reachable state is well formed but for the sets of commits.
LEMMA TypeInvariant == Spec => []TypeInv
<1>1. TypeInv /\ [Next]_vars => TypeInv'
  BY TypeBoot, TypePump, TypeWork, TypeOperator, TypeDisruption, TypeStutter
     DEF Next, System, Clock
<1> QED
  BY <1>1, TypeInit, PTL DEF Spec

----------------------------------------------------------------------------
(* Ids are used once, and the pump executes a run that exists.             *)

\* AUTOINCREMENT: no row has an id that is still to be given out.
FreshIds == \A r \in Runs : run[r].status # "none" => r < nextId

\* A coroutine past its claim executes an existing run, and a date run that has
\* begun a date and not yet handled its answer is at one of the dates.
ExecutesARun ==
    exec.pc \notin {"idle", "loop"} =>
        /\ exec.run \in Runs
        /\ exec.run < nextId
        /\ exec.pc \in {"fetching", "committed", "returned"} /\ DateRun => exec.date \in Dates

IdInv == FreshIds /\ ExecutesARun

\* A status written to a row changes nothing else of it, and no other row.
LEMMA WithStatusRow ==
    ASSUME run \in RunTable, NEW r, NEW s, NEW q \in Runs
    PROVE  /\ q # r => WithStatus(r, s)[q] = run[q]
           /\ q = r => WithStatus(r, s)[q] = [run[q] EXCEPT !.status = s]
BY DEF WithStatus, RunTable

\* WithStatus sets the status it is given.
LEMMA WithStatusStatus ==
    ASSUME run \in RunTable, NEW r \in Runs, NEW s
    PROVE  WithStatus(r, s)[r].status = s
<1>1. run[r] \in RunRow
  BY DEF RunTable
<1>2. WithStatus(r, s)[r] = [run[r] EXCEPT !.status = s]
  BY DEF WithStatus, RunTable
<1> QED
  BY <1>1, <1>2 DEF RunRow

\* An inserted row is the only one that changes.
LEMMA InsertRunRow ==
    ASSUME run \in RunTable, day \in DayTable, nextId \in Runs,
           NEW trigger, NEW mode, NEW key, NEW parent, NEW dates,
           InsertRun(trigger, mode, key, parent, dates)
    PROVE  /\ \A r \in Runs : r # nextId => run'[r] = run[r] /\ day'[r] = day[r]
           /\ run'[nextId] = [status |-> "queued", trigger |-> trigger, mode |-> mode,
                              key |-> key, parent |-> parent, cancelRequested |-> FALSE]
           /\ nextId' = nextId + 1
BY DEF InsertRun, RunTable, DayTable

\* Inserting a row keeps ids fresh.
LEMMA InsertRunIds ==
    ASSUME TypeInv, IdInv, nextId <= MaxRuns,
           NEW trigger, NEW mode, NEW key, NEW parent, NEW dates,
           InsertRun(trigger, mode, key, parent, dates)
    PROVE  FreshIds' /\ (exec' = exec => ExecutesARun')
<1>1. nextId \in Runs /\ run \in RunTable /\ day \in DayTable /\ nextId \in Nat /\ Runs \subseteq Nat
  BY TypeTables, BoundsAssumption DEF TypeInv, Runs, BoundsAssumption
<1>2. /\ \A r \in Runs : r # nextId => run'[r] = run[r]
      /\ nextId' = nextId + 1
  BY <1>1, InsertRunRow
<1>3. FreshIds'
  BY <1>1, <1>2 DEF FreshIds, IdInv
<1>4. ASSUME exec' = exec PROVE ExecutesARun'
  <2>1. CASE exec.pc \in {"idle", "loop"}
    BY <2>1, <1>4 DEF ExecutesARun
  <2>2. CASE exec.pc \notin {"idle", "loop"}
    <3>1. exec.run \in Runs /\ exec.run < nextId
      BY <2>2 DEF IdInv, ExecutesARun
    <3>2. exec.run # nextId /\ exec.run < nextId + 1
      <4>1. exec.run \in Nat
        BY <1>1, <3>1
      <4>2. nextId \in Nat /\ exec.run < nextId
        BY <1>1, <3>1
      <4> QED
        BY <4>1, <4>2
    <3>3. run'[exec.run] = run[exec.run] /\ exec.run < nextId'
      BY <1>2, <3>1, <3>2
    <3> QED
      BY <1>4, <2>2, <3>1, <3>3 DEF IdInv, ExecutesARun, DateRun
  <2> QED
    BY <2>1, <2>2
<1> QED
  BY <1>3, <1>4

\* Intake takes the next id and no other.
LEMMA EnqueueIds ==
    ASSUME TypeInv, IdInv,
           NEW trigger, NEW mode, NEW key, NEW parent, NEW dates,
           Enqueue(trigger, mode, key, parent, dates)
    PROVE  IdInv'
<1>1. exec' = exec \/ exec' = [NoExec EXCEPT !.pc = "loop"]
  BY DEF Enqueue, TriggerPump
<1>2. exec' # exec => ExecutesARun'
  BY <1>1 DEF ExecutesARun, NoExec
<1>3. CASE UNCHANGED <<run, day, nextId>>
  BY <1>1, <1>2, <1>3 DEF IdInv, FreshIds, ExecutesARun, DateRun
<1>4. CASE nextId <= MaxRuns /\ InsertRun(trigger, mode, key, parent, dates)
  BY <1>2, <1>4, InsertRunIds DEF IdInv
<1> QED
  BY <1>3, <1>4 DEF Enqueue

\* A step that keeps the executed run, the modes and the ids.
LEMMA SameRunIds ==
    ASSUME TypeInv, IdInv, nextId' = nextId,
           \A r \in Runs : /\ run'[r].mode = run[r].mode
                           /\ run[r].status = "none" => run'[r].status = "none",
           exec.pc \in {"idle", "loop"} => exec'.pc \in {"idle", "loop"},
           exec'.run = exec.run,
           exec'.pc \in {"fetching", "committed", "returned"} =>
               \/ exec'.date \in Dates
               \/ exec.pc \in {"fetching", "committed", "returned"} /\ exec'.date = exec.date
               \/ ~DateRun
    PROVE  IdInv'
<1>1. FreshIds'
  BY DEF IdInv, FreshIds
<1>2. ASSUME exec.pc \notin {"idle", "loop"}
      PROVE  ExecutesARun'
  <2>1. exec'.run \in Runs /\ exec'.run < nextId' /\ (DateRun' <=> DateRun)
    BY <1>2 DEF IdInv, ExecutesARun, DateRun
  <2> QED
    BY <1>2, <2>1 DEF IdInv, ExecutesARun
<1>3. exec.pc \in {"idle", "loop"} => ExecutesARun'
  BY DEF ExecutesARun
<1> QED
  BY <1>1, <1>2, <1>3 DEF IdInv

\* The executed run may change its status.
LEMMA StatusIds ==
    ASSUME TypeInv, IdInv, NEW r \in Runs, NEW s, run[r].status # "none", run' = WithStatus(r, s)
    PROVE  \A q \in Runs : /\ run'[q].mode = run[q].mode
                           /\ run[q].status = "none" => run'[q].status = "none"
<1> TAKE q \in Runs
<1>1. run \in RunTable /\ run[q] \in RunRow
  BY TypeTables DEF TypeInv, RunTable
<1>2. run'[q] = IF q = r THEN [run[q] EXCEPT !.status = s] ELSE run[q]
  BY <1>1 DEF WithStatus, RunTable
<1>3. q = r => run'[q].mode = run[q].mode
  BY <1>1, <1>2 DEF RunRow
<1> QED
  BY <1>2, <1>3

\* A pump between two runs executes none.
LEMMA BackInLoopIds ==
    ASSUME TypeInv, IdInv, exec'.pc \in {"idle", "loop"}, nextId' = nextId,
           \A r \in Runs : run[r].status = "none" => run'[r].status = "none"
    PROVE  IdInv'
BY DEF IdInv, FreshIds, ExecutesARun

\* The steps of a start keep the id invariant.
LEMMA IdsBoot ==
    ASSUME TypeInv, IdInv, Boot
    PROVE  IdInv'
<1> USE TypeTables DEF TypeInv
<1>1. CASE BootRecover
  BY <1>1, SameRunIds DEF BootRecover, Running, RunTable, RunRow
<1>2. CASE BootLink
  <2>1. CASE nextId <= MaxRuns /\ InsertLinkedRetry(Lowest(toLink)) /\ exec' = exec
    BY <2>1, InsertRunIds DEF InsertLinkedRetry, IdInv
  <2>2. CASE UNCHANGED <<run, nextId, exec>>
    BY <2>2 DEF IdInv, FreshIds, ExecutesARun, DateRun
  <2> QED
    BY <1>2, <2>1, <2>2 DEF BootLink, BootFail, durable
<1>3. CASE BootLinkDeferred
  <2>1. CASE nextId <= MaxRuns /\ InsertLinkedRetry(Lowest(Deferred)) /\ exec' = exec
    BY <2>1, InsertRunIds DEF InsertLinkedRetry, IdInv
  <2>2. CASE UNCHANGED <<run, nextId, exec>>
    BY <2>2 DEF IdInv, FreshIds, ExecutesARun, DateRun
  <2> QED
    BY <1>3, <2>1, <2>2 DEF BootLinkDeferred, BootFail, durable, process
<1>4. CASE BootUp
  BY <1>4, BackInLoopIds DEF BootUp, NoExec, durable
<1> QED
  BY <1>1, <1>2, <1>3, <1>4 DEF Boot

\* The steps of the pump keep the id invariant.
LEMMA IdsPump ==
    ASSUME TypeInv, IdInv, Pump
    PROVE  IdInv'
<1>1. CASE PumpExit \/ PumpThrow \/ PumpNothing
  BY <1>1, BackInLoopIds DEF PumpExit, PumpThrow, PumpNothing, LeavePump, NoExec, durable
<1>2. CASE PumpLinkDeferred
  BY <1>2, InsertRunIds DEF PumpLinkDeferred, InsertLinkedRetry, IdInv, process
<1>3. CASE PumpClaim
  <2> DEFINE r == Lowest(IF QueuedManual # {} THEN QueuedManual ELSE Queued)
  <2>1. r \in Queued
    BY <1>3, LowestIsIn, RunsAreNat DEF PumpClaim, MayClaim, QueuedManual, Queued
  <2>2. r \in Runs /\ run[r].status # "none" /\ r < nextId
    BY <2>1 DEF Queued, IdInv, FreshIds
  <2>3. FreshIds'
    BY <1>3, <2>2, StatusIds DEF PumpClaim, IdInv, FreshIds
  <2>4. ExecutesARun'
    BY <1>3, <2>2 DEF PumpClaim, NoExec, ExecutesARun
  <2> QED
    BY <2>3, <2>4 DEF IdInv
<1>4. CASE PumpNext
  BY <1>4, BackInLoopIds DEF PumpNext, NoExec, durable
<1> QED
  BY <1>1, <1>2, <1>3, <1>4 DEF Pump

\* The handlers of the routes keep the id invariant.
LEMMA IdsOperator ==
    ASSUME TypeInv, IdInv, Operator \/ SchedulerTick
    PROVE  IdInv'
<1>1. CASE OperatorEnqueue \/ SchedulerTick \/ OperatorRetry
  BY <1>1, EnqueueIds DEF OperatorEnqueue, SchedulerTick, OperatorRetry
<1>2. ASSUME NEW r \in Runs, CancelQueued(r)
      PROVE  IdInv'
  BY <1>2, StatusIds, SameRunIds DEF CancelQueued, process
<1>3. ASSUME NEW r \in Runs, CancelRunning(r)
      PROVE  IdInv'
  BY <1>3, SameRunIds, TypeTables DEF CancelRunning, TypeInv, RunTable, RunRow, ExecRecord
<1>4. CASE SetScheduling \/ Reconnect \/ BindConnection
  BY <1>4 DEF SetScheduling, Reconnect, BindConnection, IdInv, FreshIds, ExecutesARun, DateRun, process
<1> QED
  BY <1>1, <1>2, <1>3, <1>4 DEF Operator

\* The steps of a run keep the id invariant.
LEMMA IdsWork ==
    ASSUME TypeInv, IdInv, Work
    PROVE  IdInv'
<1> USE TypeTables DEF TypeInv
<1>1. CASE StopBeforeDate \/ MarkNext \/ NoMoreDates \/ HandleStopped \/ HandleThrown
           \/ HandleAuth \/ HandleDone
  BY <1>1, SameRunIds DEF StopBeforeDate, MarkNext, NoMoreDates, HandleStopped, HandleThrown,
     HandleAuth, HandleDone, StopDispatch, UnchangedByRun, ExecRecord
<1>2. CASE BeginDate
  <2>1. Lowest(exec.todo) \in Dates
    BY <1>2, LowestIsIn, RunsAreNat DEF BeginDate, ExecRecord
  <2> QED
    BY <1>2, <2>1, SameRunIds DEF BeginDate, UnchangedByRun, ExecRecord
<1>3. ASSUME NEW o \in Outcomes, WorkerReturn(o)
      PROVE  IdInv'
  BY <1>3, SameRunIds DEF WorkerReturn, Returning, UnchangedByRun, ExecRecord
<1>4. CASE DegradeDate \/ BeginRegistry \/ RegistryReturn
  BY <1>4, SameRunIds DEF DegradeDate, BeginRegistry, RegistryReturn, Returning, UnchangedByRun, ExecRecord
<1>5. CASE FinishRun \/ FinishRegistry
  <2>1. exec.run \in Runs /\ exec.run < nextId
    BY <1>5 DEF FinishRun, FinishRegistry, IdInv, ExecutesARun
  <2>2. FreshIds'
    <3>1. \A q \in Runs \ {exec.run} : run'[q] = run[q]
      BY <1>5 DEF FinishRun, FinishRegistry, WithStatus, RunTable
    <3> QED
      BY <1>5, <2>1, <3>1 DEF FinishRun, FinishRegistry, UnchangedByRun, IdInv, FreshIds
  <2>3. ExecutesARun'
    BY <1>5, <2>1 DEF FinishRun, FinishRegistry, UnchangedByRun, ExecutesARun, ExecRecord
  <2> QED
    BY <2>2, <2>3 DEF IdInv
<1> QED
  BY <1>1, <1>2, <1>3, <1>4, <1>5 DEF Work

\* Shutdown, the stop deadline, errors and crashes keep the id invariant.
LEMMA IdsDisruption ==
    ASSUME TypeInv, IdInv, Shutdown \/ StopDeadline \/ Failure
    PROVE  IdInv'
<1> USE TypeTables DEF TypeInv
<1>1. CASE RunThrows \/ StopDeadline
  <2>1. exec.run \in Runs /\ exec.run < nextId
    BY <1>1 DEF RunThrows, StopDeadline, IdInv, ExecutesARun
  <2>2. FreshIds'
    <3>1. \A q \in Runs \ {exec.run} : run'[q] = run[q]
      BY <1>1 DEF RunThrows, StopDeadline, WithStatus, RunTable
    <3> QED
      BY <1>1, <2>1, <3>1 DEF RunThrows, StopDeadline, UnchangedByRun, IdInv, FreshIds
  <2>3. ExecutesARun'
    BY <1>1, <2>1 DEF RunThrows, StopDeadline, UnchangedByRun, IdInv, ExecutesARun, ExecRecord,
       DateRun, WithStatus, RunTable, RunRow
  <2> QED
    BY <2>2, <2>3 DEF IdInv
<1>2. CASE DegradeThrows \/ StopBegin \/ StopSettled
  BY <1>2, SameRunIds DEF DegradeThrows, StopBegin, StopSettled, Returning, UnchangedByRun, ExecRecord, durable
<1>3. CASE Exit \/ Crash
  BY <1>3, BackInLoopIds DEF Exit, Crash, ProcessGone, NoExec, durable
<1> QED
  BY <1>1, <1>2, <1>3 DEF Shutdown, Failure

\* Ids are used once and the pump executes an existing run.
LEMMA IdInvariant == Spec => []IdInv
<1>1. Init => IdInv
  BY DEF Init, IdInv, FreshIds, ExecutesARun, NoExec, NoRow
<1>2. TypeInv /\ IdInv /\ UNCHANGED vars => IdInv'
  BY DEF IdInv, FreshIds, ExecutesARun, DateRun, vars, durable, process
<1>3. TypeInv /\ IdInv /\ [Next]_vars => IdInv'
  BY <1>2, IdsBoot, IdsPump, IdsWork, IdsOperator, IdsDisruption DEF Next, System, Clock
<1> QED
  BY <1>1, <1>3, TypeInvariant, PTL DEF Spec

\* Only the worker's return and a registry refresh's commit anything.
LEMMA OnlyReturnsCommit ==
    ASSUME [Next]_vars
    PROVE  \/ UNCHANGED <<accepted, published>>
           \/ (\E o \in Outcomes : WorkerReturn(o)) /\ UNCHANGED published
           \/ RegistryReturn /\ UNCHANGED accepted
<1>1. CASE UNCHANGED vars
  BY <1>1 DEF vars, durable
<1>2. CASE Boot
  BY <1>2 DEF Boot, BootRecover, BootLink, BootFail, BootLinkDeferred, BootUp, durable
<1>3. CASE Pump
  BY <1>3 DEF Pump, PumpExit, PumpLinkDeferred, PumpThrow, PumpNothing, PumpClaim, PumpNext, durable
<1>4. CASE Work
  BY <1>4 DEF Work, StopBeforeDate, BeginDate, MarkNext, NoMoreDates, WorkerReturn, DegradeDate,
     HandleStopped, HandleThrown, HandleAuth, HandleDone, FinishRun, BeginRegistry, RegistryReturn,
     FinishRegistry, UnchangedByRun
<1>5. CASE Operator \/ SchedulerTick
  BY <1>5 DEF Operator, OperatorEnqueue, OperatorRetry, SchedulerTick, Enqueue, CancelQueued,
     CancelRunning, SetScheduling, Reconnect, BindConnection
<1>6. CASE Shutdown \/ StopDeadline \/ Failure
  BY <1>6 DEF Shutdown, Failure, StopSettled, StopDeadline, Exit, StopBegin, Crash, RunThrows,
     DegradeThrows, UnchangedByRun, durable
<1> QED
  BY <1>1, <1>2, <1>3, <1>4, <1>5, <1>6 DEF Next, System, Clock

CommitTypes == accepted \subseteq Runs \X Dates /\ published \subseteq Runs

\* Commits name runs and dates that exist.
LEMMA CommitTypesInvariant == Spec => []CommitTypes
<1>1. Init => CommitTypes
  BY DEF Init, CommitTypes
<1>2. CommitTypes /\ IdInv /\ [Next]_vars => CommitTypes'
  <2> SUFFICES ASSUME CommitTypes, IdInv, [Next]_vars PROVE CommitTypes'
    OBVIOUS
  <2>1. ASSUME NEW o \in Outcomes, WorkerReturn(o), UNCHANGED published PROVE CommitTypes'
    BY <2>1 DEF WorkerReturn, CommitTypes, IdInv, ExecutesARun
  <2>2. CASE RegistryReturn /\ UNCHANGED accepted
    BY <2>2 DEF RegistryReturn, CommitTypes, IdInv, ExecutesARun
  <2>3. CASE UNCHANGED <<accepted, published>>
    BY <2>3 DEF CommitTypes
  <2> QED
    BY <2>1, <2>2, <2>3, OnlyReturnsCommit
<1> QED
  BY <1>1, <1>2, IdInvariant, PTL DEF Spec

\* The state of the queue, the process and the pump always has its type,
\* whatever crashes, stops, cancels and retries led to it.
THEOREM TypeCorrect == Spec => []TypeOK
<1>1. TypeInv /\ CommitTypes => TypeOK
  BY DEF TypeInv, WellFormed, CommitTypes, TypeOK, RunTable, DayTable, ExecRecord
<1> QED
  BY <1>1, TypeInvariant, CommitTypesInvariant, PTL

----------------------------------------------------------------------------
(* The running run is owned.                                               *)

\* No coroutine survives its process, and none runs before recovery is over.
DownIsIdle == svc \in {"down", "recovering"} => exec.pc = "idle"

OwnInv == RunningRunIsOwned /\ DownIsIdle

\* A step that makes no run running and keeps the owner, or leaves none running.
LEMMA KeepsOwner ==
    ASSUME OwnInv, Running' \subseteq Running, DownIsIdle',
           \/ Running' = {}
           \/ svc' = "down"
           \/ /\ svc # "down"
              /\ active' = active
              /\ exec'.run = exec.run
              /\ exec'.pc \notin {"idle", "loop", "finished"} \/ exec'.pc = exec.pc
    PROVE  OwnInv'
BY DEF OwnInv, RunningRunIsOwned

\* Where no coroutine is executing, no run is running.
LEMMA NothingRuns ==
    ASSUME OwnInv, svc # "down", exec.pc \in {"idle", "loop", "finished"}
    PROVE  Running = {}
BY DEF OwnInv, RunningRunIsOwned

\* Closing the executed run leaves none running.
LEMMA ClosingExecuted ==
    ASSUME TypeInv, OwnInv, svc # "down", NEW s \in TerminalRun, run' = WithStatus(exec.run, s)
    PROVE  Running' = {}
<1> SUFFICES ASSUME NEW r \in Running' PROVE FALSE
  OBVIOUS
<1>1. r \in Runs /\ run'[r].status = "running"
  BY DEF Running
<1>2. r # exec.run
  BY <1>1, TypeTables DEF TypeInv, WithStatus, RunTable, RunRow, TerminalRun
<1>3. run'[r] = run[r]
  BY <1>1, <1>2, TypeTables DEF TypeInv, WithStatus, RunTable
<1>4. r \in Running
  BY <1>1, <1>3 DEF Running
<1> QED
  BY <1>2, <1>4 DEF OwnInv, RunningRunIsOwned

\* An inserted run is queued, so it is not running.
LEMMA InsertingRunsNothing ==
    ASSUME TypeInv, nextId <= MaxRuns,
           NEW trigger, NEW mode, NEW key, NEW parent, NEW dates,
           InsertRun(trigger, mode, key, parent, dates)
    PROVE  Running' \subseteq Running
BY TypeTables DEF InsertRun, Running, TypeInv, RunTable

\* A start leaves no running run behind.
LEMMA OwnedBoot ==
    ASSUME TypeInv, OwnInv, Boot
    PROVE  OwnInv'
<1> USE DEF DownIsIdle
<1>1. CASE BootRecover
  <2>1. Running' = {}
    BY <1>1, TypeTables DEF BootRecover, Running, TypeInv, RunTable, RunRow
  <2> QED
    BY <1>1, <2>1, KeepsOwner DEF BootRecover, OwnInv
<1>2. CASE BootLink \/ BootLinkDeferred
  <2>1. Running' \subseteq Running
    BY <1>2, InsertingRunsNothing
       DEF BootLink, BootLinkDeferred, BootFail, InsertLinkedRetry, Running, durable
  <2>2. svc = "recovering" /\ exec' = exec /\ active' = active /\ svc' \in {"recovering", "down"}
    BY <1>2 DEF BootLink, BootLinkDeferred, BootFail, durable, process
  <2> QED
    BY <2>1, <2>2, KeepsOwner DEF OwnInv
<1>3. CASE BootUp
  <2>1. Running' = {}
    BY <1>3, NothingRuns DEF BootUp, OwnInv, Running, durable
  <2> QED
    BY <1>3, <2>1, KeepsOwner DEF BootUp
<1> QED
  BY <1>1, <1>2, <1>3 DEF Boot

\* The pump owns the run it claims and no other.
LEMMA OwnedPump ==
    ASSUME TypeInv, OwnInv, Pump
    PROVE  OwnInv'
<1>0. svc # "down" /\ DownIsIdle' /\ svc' = svc
  BY DEF Pump, PumpExit, PumpThrow, PumpNothing, PumpLinkDeferred, PumpClaim, PumpNext, OwnInv,
     DownIsIdle, durable, process
<1>1. CASE PumpExit \/ PumpThrow \/ PumpNothing \/ PumpNext
  <2>1. Running' = {}
    BY <1>0, <1>1, NothingRuns DEF PumpExit, PumpThrow, PumpNothing, PumpNext, Running, durable
  <2> QED
    BY <1>0, <2>1, KeepsOwner
<1>2. CASE PumpLinkDeferred
  BY <1>0, <1>2, InsertingRunsNothing, KeepsOwner DEF PumpLinkDeferred, InsertLinkedRetry, process
<1>3. CASE PumpClaim
  <2> DEFINE r == Lowest(IF QueuedManual # {} THEN QueuedManual ELSE Queued)
  <2>1. Running' \subseteq {r}
    BY <1>3, TypeTables DEF PumpClaim, MayClaim, WithStatus, Running, TypeInv, RunTable
  <2> QED
    BY <1>0, <1>3, <2>1 DEF PumpClaim, NoExec, OwnInv, RunningRunIsOwned
<1> QED
  BY <1>1, <1>2, <1>3 DEF Pump

\* No handler of a route starts a run.
LEMMA OwnedOperator ==
    ASSUME TypeInv, OwnInv, Operator \/ SchedulerTick
    PROVE  OwnInv'
<1>0. Serving
  BY DEF Operator, SchedulerTick, OperatorEnqueue, OperatorRetry, Enqueue, CancelQueued, CancelRunning,
     SetScheduling, Reconnect, BindConnection, Serving, Up
<1>1. ASSUME NEW trigger, NEW mode, NEW key, NEW parent, NEW dates,
             Enqueue(trigger, mode, key, parent, dates)
      PROVE  OwnInv'
  <2>1. Running' \subseteq Running
    BY <1>1, InsertingRunsNothing DEF Enqueue, Running
  <2>2. CASE exec' = exec
    BY <1>0, <1>1, <2>1, <2>2, KeepsOwner DEF Enqueue, Up, DownIsIdle
  <2>3. CASE exec.pc = "idle"
    <3>1. Running' = {}
      BY <1>1, <2>1, <2>3, NothingRuns DEF Enqueue, Up
    <3> QED
      BY <1>1, <2>1, <3>1, KeepsOwner DEF Enqueue, Up, DownIsIdle
  <2> QED
    BY <1>1, <2>2, <2>3 DEF Enqueue, TriggerPump
<1>2. ASSUME NEW r \in Runs, CancelQueued(r) \/ CancelRunning(r)
      PROVE  OwnInv'
  <2>1. Running' \subseteq Running
    BY <1>2, TypeTables DEF CancelQueued, CancelRunning, WithStatus, Running, TypeInv, RunTable, RunRow
  <2>2. /\ active' = active /\ svc' = svc
        /\ exec'.run = exec.run /\ exec'.pc = exec.pc
    BY <1>2, TypeTables DEF CancelQueued, CancelRunning, TypeInv, ExecRecord, process
  <2> QED
    BY <1>0, <2>1, <2>2, KeepsOwner DEF OwnInv, DownIsIdle, Serving
<1>3. CASE SetScheduling \/ Reconnect \/ BindConnection
  BY <1>0, <1>3, KeepsOwner
     DEF SetScheduling, Reconnect, BindConnection, Running, OwnInv, DownIsIdle, Serving, process
<1> QED
  BY <1>1, <1>2, <1>3 DEF Operator, OperatorEnqueue, OperatorRetry, SchedulerTick

\* A run keeps its owner while it executes.
LEMMA OwnedWork ==
    ASSUME TypeInv, OwnInv, Work
    PROVE  OwnInv'
<1>0. exec.pc \in {"dispatch", "fetching", "committed", "returned", "marking", "finish"}
  BY DEF Work, StopBeforeDate, BeginDate, MarkNext, NoMoreDates, WorkerReturn, DegradeDate,
     HandleStopped, HandleThrown, HandleAuth, HandleDone, FinishRun, BeginRegistry, RegistryReturn,
     FinishRegistry
<1>1. svc \notin {"down", "recovering"} /\ svc' = svc /\ active' = active
  BY <1>0 DEF OwnInv, DownIsIdle, Work, StopBeforeDate, BeginDate, MarkNext, NoMoreDates,
     WorkerReturn, DegradeDate, HandleStopped, HandleThrown, HandleAuth, HandleDone, FinishRun,
     BeginRegistry, RegistryReturn, FinishRegistry, UnchangedByRun
<1>2. CASE FinishRun \/ FinishRegistry
  <2>1. Running' = {}
    BY <1>1, <1>2, ClosingExecuted DEF FinishRun, FinishRegistry, AggregateOutcome, TerminalRun
  <2> QED
    BY <1>1, <2>1, KeepsOwner DEF DownIsIdle
<1>3. CASE ~(FinishRun \/ FinishRegistry)
  <2>1. run' = run
    BY <1>3 DEF Work, StopBeforeDate, BeginDate, MarkNext, NoMoreDates, WorkerReturn, DegradeDate,
       HandleStopped, HandleThrown, HandleAuth, HandleDone, BeginRegistry, RegistryReturn
  <2>2. exec'.run = exec.run /\ exec'.pc \notin {"idle", "loop", "finished"}
    BY <1>3, TypeTables DEF Work, StopBeforeDate, BeginDate, MarkNext, NoMoreDates, WorkerReturn,
       DegradeDate, HandleStopped, HandleThrown, HandleAuth, HandleDone, BeginRegistry,
       RegistryReturn, StopDispatch, Returning, TypeInv, ExecRecord
  <2> QED
    BY <1>1, <2>1, <2>2, KeepsOwner DEF DownIsIdle, Running
<1> QED
  BY <1>2, <1>3

\* Shutdown, the stop deadline, errors and crashes keep the ownership.
LEMMA OwnedDisruption ==
    ASSUME TypeInv, OwnInv, Shutdown \/ StopDeadline \/ Failure
    PROVE  OwnInv'
<1>1. CASE RunThrows \/ StopDeadline
  <2>1. svc \notin {"down", "recovering"} /\ svc' \notin {"down", "recovering"}
    BY <1>1 DEF RunThrows, StopDeadline, UnchangedByRun, OwnInv, DownIsIdle
  <2>2. Running' = {}
    BY <1>1, <2>1, ClosingExecuted DEF RunThrows, StopDeadline, TerminalRun
  <2> QED
    BY <2>1, <2>2, KeepsOwner DEF DownIsIdle
<1>2. CASE DegradeThrows \/ StopBegin \/ StopSettled
  <2>1. run' = run /\ svc # "down" /\ svc' \notin {"down", "recovering"} /\ active' = active
    BY <1>2 DEF DegradeThrows, StopBegin, StopSettled, UnchangedByRun, OwnInv, DownIsIdle, Up, durable
  <2>2. exec'.run = exec.run /\ (exec'.pc = exec.pc \/ exec'.pc = "returned")
    BY <1>2, TypeTables DEF DegradeThrows, StopBegin, StopSettled, Returning, TypeInv, ExecRecord
  <2> QED
    BY <2>1, <2>2, KeepsOwner DEF DownIsIdle, Running
<1>3. CASE Exit \/ Crash
  BY <1>3, KeepsOwner DEF Exit, Crash, ProcessGone, NoExec, DownIsIdle, Running, durable
<1> QED
  BY <1>1, <1>2, <1>3 DEF Shutdown, Failure

\* Every step keeps the ownership.
LEMMA OwnStep ==
    ASSUME TypeInv, OwnInv, [Next]_vars
    PROVE  OwnInv'
<1>1. CASE UNCHANGED vars
  BY <1>1 DEF OwnInv, RunningRunIsOwned, DownIsIdle, Running, vars, durable, process
<1> QED
  BY <1>1, OwnedBoot, OwnedPump, OwnedWork, OwnedOperator, OwnedDisruption DEF Next, System, Clock

\* At most one run is running and the pump owns it, through any interleaving of
\* triggers, recovery, cancellation, graceful stop and crash: no run is left
\* running with nobody to execute it, which would block every later claim.
THEOREM RunningOwned == Spec => []RunningRunIsOwned
<1>1. Init => OwnInv
  BY DEF Init, OwnInv, RunningRunIsOwned, DownIsIdle, Running, NoRow, NoExec
<1>2. OwnInv => RunningRunIsOwned
  BY DEF OwnInv
<1> QED
  BY <1>1, <1>2, OwnStep, TypeInvariant, PTL DEF Spec

----------------------------------------------------------------------------
(* The queue is bounded.                                                   *)

\* The queue is a finite set.
LEMMA NonterminalFinite ==
    Nonterminal \in SUBSET Runs /\ IsFiniteSet(Nonterminal) /\ Cardinality(Nonterminal) \in Nat
<1>1. IsFiniteSet(Runs)
  BY BoundsAssumption, FS_Interval DEF Runs, BoundsAssumption
<1> QED
  BY <1>1, FS_Subset, FS_CardinalityType DEF Nonterminal

\* No run but an inserted one becomes nonterminal.
LEMMA QueueShrinks ==
    ASSUME QueueBounded, Nonterminal' \subseteq Nonterminal
    PROVE  QueueBounded'
<1>1. /\ Cardinality(Nonterminal') \in Nat
      /\ Cardinality(Nonterminal') <= Cardinality(Nonterminal)
  BY NonterminalFinite, FS_Subset, FS_CardinalityType
<1> QED
  BY <1>1, NonterminalFinite, BoundsAssumption DEF QueueBounded, BoundsAssumption

\* The trigger lets a row in only where there is room for it.
LEMMA QueueGrowsByOne ==
    ASSUME TypeInv, Room, nextId <= MaxRuns,
           NEW trigger, NEW mode, NEW key, NEW parent, NEW dates,
           InsertRun(trigger, mode, key, parent, dates)
    PROVE  QueueBounded'
<1>1. Nonterminal' \subseteq Nonterminal \cup {nextId}
  BY TypeTables DEF InsertRun, Nonterminal, TypeInv, RunTable
<1>2. IsFiniteSet(Nonterminal \cup {nextId})
  BY NonterminalFinite, FS_AddElement
<1>3. Cardinality(Nonterminal \cup {nextId}) \in {Cardinality(Nonterminal), Cardinality(Nonterminal) + 1}
  BY NonterminalFinite, FS_AddElement
<1>4. /\ Cardinality(Nonterminal') \in Nat
      /\ Cardinality(Nonterminal') <= Cardinality(Nonterminal \cup {nextId})
  BY <1>1, <1>2, FS_Subset, FS_CardinalityType
<1>5. Cardinality(Nonterminal') <= QueueMax
  BY <1>3, <1>4, NonterminalFinite, BoundsAssumption DEF Room, BoundsAssumption
<1> QED
  BY <1>5 DEF QueueBounded

\* Closing a run, or changing a run of the queue, adds none to it.
LEMMA WithStatusQueue ==
    ASSUME TypeInv, NEW r, NEW s,
           s \in TerminalRun \/ r \in Nonterminal,
           run' = WithStatus(r, s)
    PROVE  Nonterminal' \subseteq Nonterminal
<1> SUFFICES ASSUME NEW q \in Nonterminal' PROVE q \in Nonterminal
  OBVIOUS
<1>1. q \in Runs /\ run \in RunTable /\ run[q] \in RunRow
  BY TypeTables DEF Nonterminal, TypeInv, RunTable
<1>2. run'[q] = IF q = r THEN [run[q] EXCEPT !.status = s] ELSE run[q]
  BY <1>1 DEF WithStatus, RunTable
<1>3. CASE q = r
  BY <1>1, <1>2, <1>3 DEF Nonterminal, TerminalRun, RunRow
<1>4. CASE q # r
  BY <1>1, <1>2, <1>4 DEF Nonterminal
<1> QED
  BY <1>3, <1>4

\* Every step keeps the queue within its limit: only an insertion with room grows it.
LEMMA QueueStep ==
    ASSUME TypeInv, QueueBounded, [Next]_vars
    PROVE  QueueBounded'
<1>1. CASE UNCHANGED run
  BY <1>1, QueueShrinks DEF Nonterminal
<1>2. CASE BootRecover
  BY <1>2, QueueShrinks, TypeTables DEF BootRecover, Nonterminal, TypeInv, RunTable, RunRow, Running
<1>3. CASE Room /\ nextId <= MaxRuns /\ \E r \in Runs : InsertLinkedRetry(r)
  BY <1>3, QueueGrowsByOne DEF InsertLinkedRetry
<1>4. CASE BootLink \/ BootLinkDeferred \/ PumpLinkDeferred
  <2>1. toLink # {} => Lowest(toLink) \in Runs
    BY LowestIsIn, RunsAreNat, TypeTables DEF TypeInv
  <2>2. Deferred # {} => Lowest(Deferred) \in Runs
    BY LowestIsIn, RunsAreNat DEF Deferred
  <2> QED
    BY <1>1, <1>3, <1>4, <2>1, <2>2
       DEF BootLink, BootLinkDeferred, PumpLinkDeferred, BootFail, durable
<1>5. ASSUME NEW trigger, NEW mode, NEW key, NEW parent, NEW dates,
             Enqueue(trigger, mode, key, parent, dates)
      PROVE  QueueBounded'
  BY <1>1, <1>5, QueueGrowsByOne DEF Enqueue
<1>6. CASE PumpClaim
  <2>1. Lowest(IF QueuedManual # {} THEN QueuedManual ELSE Queued) \in Queued
    BY <1>6, LowestIsIn, RunsAreNat DEF PumpClaim, MayClaim, QueuedManual, Queued
  <2> QED
    BY <1>6, <2>1, WithStatusQueue, QueueShrinks DEF PumpClaim, Queued, Nonterminal
<1>7. ASSUME NEW r \in Runs, CancelQueued(r) \/ CancelRunning(r)
      PROVE  QueueBounded'
  <2>1. CASE CancelQueued(r)
    BY <2>1, WithStatusQueue, QueueShrinks DEF CancelQueued, TerminalRun
  <2>2. CASE CancelRunning(r)
    BY <2>2, QueueShrinks, TypeTables DEF CancelRunning, Nonterminal, TypeInv, RunTable, RunRow
  <2> QED
    BY <1>7, <2>1, <2>2
<1>8. CASE FinishRun \/ FinishRegistry \/ RunThrows \/ StopDeadline
  <2>1. \E s \in TerminalRun : run' = WithStatus(exec.run, s)
    BY <1>8 DEF FinishRun, FinishRegistry, RunThrows, StopDeadline, AggregateOutcome, TerminalRun
  <2> QED
    BY <2>1, WithStatusQueue, QueueShrinks
<1> QED
  BY <1>1, <1>2, <1>4, <1>5, <1>6, <1>7, <1>8 DEF Next, System, Boot, Pump, Work, Shutdown, Operator,
     Clock, Failure, BootUp, PumpExit, PumpThrow, PumpNothing, PumpNext, StopBeforeDate, BeginDate,
     MarkNext, NoMoreDates, WorkerReturn, DegradeDate, HandleStopped, HandleThrown, HandleAuth,
     HandleDone, BeginRegistry, RegistryReturn, StopSettled, Exit, OperatorEnqueue, OperatorRetry,
     SetScheduling, Reconnect, BindConnection, SchedulerTick, StopBegin, Crash, DegradeThrows,
     vars, durable

\* The queue never holds more nonterminal runs than its limit, whichever of the
\* operator, the scheduler, the retry endpoint and recovery inserts them.
THEOREM QueueIsBounded == Spec => []QueueBounded
<1>1. Init => QueueBounded
  <2>1. Init => Nonterminal = {}
    BY DEF Init, Nonterminal, NoRow
  <2> QED
    BY <2>1, FS_EmptySet, BoundsAssumption DEF QueueBounded, BoundsAssumption
<1> QED
  BY <1>1, QueueStep, TypeInvariant, PTL DEF Spec

----------------------------------------------------------------------------
(* Terminal runs settle, and commits are wanted.                           *)

Executing == exec.pc \notin {"idle", "loop", "finished"}

\* A run is cancelled by request only once it runs: a claim starts clean.
QueuedUncancelled == \A r \in Runs : run[r].status = "queued" => ~run[r].cancelRequested

\* The executed run is running, or stop() closed it at its deadline.
ExecutingStatus ==
    Executing => \/ run[exec.run].status = "running"
                 \/ run[exec.run].status = "interrupted" /\ svc = "stopped"

\* Whatever asks the executed run to end has aborted its controller.
AbortReaches ==
    Executing /\ (Stopping \/ run[exec.run].cancelRequested) => exec.aborted

\* A registry refresh that answers "published" has published for a run that no
\* deadline had closed.
PublishedAnswer ==
    exec.pc = "returned" /\ exec.result = "published" =>
        /\ run[exec.run].status = "running"
        /\ exec.run \in published

ExecInv == QueuedUncancelled /\ ExecutingStatus /\ AbortReaches /\ PublishedAnswer

\* The writers of the run table.
LEMMA OnlyTheseWriteRuns ==
    ASSUME TypeInv, [Next]_vars
    PROVE  \/ UNCHANGED run
           \/ BootRecover \/ PumpClaim
           \/ FinishRun \/ FinishRegistry \/ RunThrows \/ StopDeadline
           \/ \E r \in Runs : CancelQueued(r) \/ CancelRunning(r)
           \/ /\ Room /\ nextId <= MaxRuns
              /\ \/ \E r \in Runs : InsertLinkedRetry(r)
                 \/ \E trigger, mode, key, parent, dates :
                        InsertRun(trigger, mode, key, parent, dates)
<1>1. toLink # {} => Lowest(toLink) \in Runs
  BY LowestIsIn, RunsAreNat, TypeTables DEF TypeInv
<1>2. Deferred # {} => Lowest(Deferred) \in Runs
  BY LowestIsIn, RunsAreNat DEF Deferred
<1>3. CASE BootLink \/ BootLinkDeferred \/ PumpLinkDeferred
  BY <1>1, <1>2, <1>3 DEF BootLink, BootLinkDeferred, PumpLinkDeferred, BootFail, durable
<1> QED
  BY <1>3 DEF Next, System, Boot, Pump, Work, Shutdown, Operator, Clock, Failure, Enqueue,
     BootUp, PumpExit, PumpThrow, PumpNothing, PumpNext, StopBeforeDate, BeginDate,
     MarkNext, NoMoreDates, WorkerReturn, DegradeDate, HandleStopped, HandleThrown, HandleAuth,
     HandleDone, BeginRegistry, RegistryReturn, StopSettled, Exit, OperatorEnqueue, OperatorRetry,
     SetScheduling, Reconnect, BindConnection, SchedulerTick, StopBegin, Crash, DegradeThrows,
     vars, durable

\* What each writer does to one row: it inserts it, or it moves a nonterminal
\* run on, or it closes the executed run.
RowStep(r) ==
    \/ run'[r] = run[r]
    \/ /\ r = nextId /\ nextId' = nextId + 1
       /\ run'[r].status = "queued" /\ ~run'[r].cancelRequested
    \/ run[r].status = "queued" /\ run'[r] = [run[r] EXCEPT !.status = "running"]
    \/ CancelQueued(r) /\ run'[r] = [run[r] EXCEPT !.status = "cancelled"]
    \/ run[r].status = "running" /\ run'[r] = [run[r] EXCEPT !.cancelRequested = TRUE]
    \/ /\ BootRecover /\ run[r].status = "running"
       /\ run'[r] = [run[r] EXCEPT !.status = "interrupted"]
    \/ /\ r = exec.run
       /\ FinishRun \/ FinishRegistry \/ RunThrows \/ StopDeadline
       /\ \E s \in TerminalRun : run'[r] = [run[r] EXCEPT !.status = s]

\* Every step writes a run row in one of the ways RowStep lists.
LEMMA RowSteps ==
    ASSUME TypeInv, [Next]_vars, NEW r \in Runs
    PROVE  RowStep(r)
<1>0. run \in RunTable /\ day \in DayTable
  BY TypeTables DEF TypeInv
<1>1. CASE UNCHANGED run
  BY <1>1 DEF RowStep
<1>2. CASE BootRecover
  BY <1>0, <1>2 DEF BootRecover, RowStep, Running
<1>3. CASE PumpClaim
  <2>1. Lowest(IF QueuedManual # {} THEN QueuedManual ELSE Queued) \in Queued
    BY <1>3, LowestIsIn, RunsAreNat DEF PumpClaim, MayClaim, QueuedManual, Queued
  <2> QED
    BY <1>0, <1>3, <2>1 DEF PumpClaim, WithStatus, RowStep, Queued, RunTable
<1>4. CASE FinishRun \/ FinishRegistry \/ RunThrows \/ StopDeadline
  <2>1. \E s \in TerminalRun : run' = WithStatus(exec.run, s)
    BY <1>4 DEF FinishRun, FinishRegistry, RunThrows, StopDeadline, AggregateOutcome, TerminalRun
  <2> QED
    BY <1>0, <1>4, <2>1 DEF WithStatus, RowStep, RunTable
<1>5. ASSUME NEW q \in Runs, CancelQueued(q) \/ CancelRunning(q)
      PROVE  RowStep(r)
  BY <1>0, <1>5 DEF CancelQueued, CancelRunning, WithStatus, RowStep, RunTable
<1>6. ASSUME nextId <= MaxRuns, NEW trigger, NEW mode, NEW key, NEW parent, NEW dates,
             InsertRun(trigger, mode, key, parent, dates)
      PROVE  RowStep(r)
  BY <1>0, <1>6 DEF InsertRun, RowStep, RunTable
<1> QED
  BY <1>1, <1>2, <1>3, <1>4, <1>5, <1>6, OnlyTheseWriteRuns DEF InsertLinkedRetry

\* A queued run carries no cancellation.
LEMMA QueuedUncancelledStep ==
    ASSUME TypeInv, QueuedUncancelled, [Next]_vars
    PROVE  QueuedUncancelled'
<1> SUFFICES ASSUME NEW r \in Runs, run'[r].status = "queued"
             PROVE  ~run'[r].cancelRequested
  BY DEF QueuedUncancelled
<1>1. run[r] \in RunRow
  BY TypeTables DEF TypeInv, RunTable
<1>2. RowStep(r)
  BY RowSteps
<1> QED
  BY <1>1, <1>2 DEF RowStep, RunRow, QueuedUncancelled, TerminalRun

\* A step that goes on executing the same run, or stops executing.
LEMMA KeepsExecuting ==
    ASSUME ExecInv, QueuedUncancelled',
           \/ exec'.pc \in {"idle", "loop", "finished"}
           \/ /\ Executing /\ exec'.run = exec.run /\ run'[exec.run] = run[exec.run]
              /\ svc' = svc /\ exec'.aborted = exec.aborted
              /\ exec'.pc = "returned" /\ exec'.result = "published" =>
                    \/ exec.pc = "returned" /\ exec.result = "published" /\ UNCHANGED published
                    \/ ~exec.aborted /\ exec.run \in published'
    PROVE  ExecInv'
<1>1. CASE exec'.pc \in {"idle", "loop", "finished"}
  BY <1>1 DEF ExecInv, Executing, ExecutingStatus, AbortReaches, PublishedAnswer
<1>2. ASSUME exec'.pc \notin {"idle", "loop", "finished"}
      PROVE  ExecInv'
  <2>1. ExecutingStatus'
    BY <1>2 DEF ExecInv, ExecutingStatus, Executing
  <2>2. AbortReaches'
    BY <1>2 DEF ExecInv, AbortReaches, Executing, Stopping
  <2>3. PublishedAnswer'
    BY <1>2 DEF ExecInv, PublishedAnswer, ExecutingStatus, AbortReaches, Executing, Stopping
  <2> QED
    BY <2>1, <2>2, <2>3 DEF ExecInv
<1> QED
  BY <1>1, <1>2

\* The steps of a start keep what is known of the executed run.
LEMMA ExecBoot ==
    ASSUME OwnInv, ExecInv, QueuedUncancelled', Boot
    PROVE  ExecInv'
<1>1. svc \in {"down", "recovering"}
  BY DEF Boot, BootRecover, BootLink, BootLinkDeferred, BootUp
<1>2. exec' = exec \/ exec' = [NoExec EXCEPT !.pc = "loop"]
  BY DEF Boot, BootRecover, BootLink, BootLinkDeferred, BootFail, BootUp, process
<1> QED
  BY <1>1, <1>2, KeepsExecuting DEF OwnInv, DownIsIdle, NoExec

\* The steps of the pump keep what is known of the executed run.
LEMMA ExecPump ==
    ASSUME TypeInv, ExecInv, QueuedUncancelled', Pump
    PROVE  ExecInv'
<1>1. CASE PumpExit \/ PumpThrow \/ PumpNothing \/ PumpNext \/ PumpLinkDeferred
  <2>1. exec'.pc \in {"idle", "loop"}
    BY <1>1 DEF PumpExit, PumpThrow, PumpNothing, PumpNext, PumpLinkDeferred, LeavePump, NoExec, process
  <2> QED
    BY <2>1, KeepsExecuting
<1>2. CASE PumpClaim
  <2> DEFINE r == Lowest(IF QueuedManual # {} THEN QueuedManual ELSE Queued)
  <2>1. r \in Runs /\ run[r].status = "queued"
    BY <1>2, LowestIsIn, RunsAreNat DEF PumpClaim, MayClaim, QueuedManual, Queued
  <2>2. run'[r].status = "running" /\ ~run'[r].cancelRequested
    BY <1>2, <2>1, TypeTables DEF PumpClaim, WithStatus, TypeInv, RunTable, RunRow, ExecInv, QueuedUncancelled
  <2>3. exec'.run = r /\ exec'.pc = "dispatch" /\ svc' = "up"
    BY <1>2 DEF PumpClaim, NoExec, Up
  <2> QED
    BY <2>2, <2>3 DEF ExecInv, ExecutingStatus, AbortReaches, PublishedAnswer, Stopping
<1> QED
  BY <1>1, <1>2 DEF Pump

\* The handlers of the routes keep what is known of the executed run.
LEMMA ExecOperator ==
    ASSUME TypeInv, IdInv, OwnInv, ExecInv, QueuedUncancelled', Operator \/ SchedulerTick
    PROVE  ExecInv'
<1> USE TypeTables DEF TypeInv
<1>0. Executing => exec.run \in Runs /\ exec.run < nextId /\ exec.run # nextId
  <2>1. nextId \in Nat /\ Runs \subseteq Nat
    BY RunsAreNat, BoundsAssumption DEF BoundsAssumption
  <2>2. Executing => exec.run \in Nat /\ exec.run \in Runs /\ exec.run < nextId
    BY <2>1 DEF Executing, IdInv, ExecutesARun
  <2> QED
    BY <2>1, <2>2
<1>1. ASSUME NEW trigger, NEW mode, NEW key, NEW parent, NEW dates,
             Enqueue(trigger, mode, key, parent, dates)
      PROVE  ExecInv'
  <2>1. CASE exec' = exec /\ Executing
    <3>1. run'[exec.run] = run[exec.run]
      BY <1>0, <1>1, <2>1 DEF Enqueue, InsertRun, RunTable
    <3> QED
      BY <1>1, <2>1, <3>1, KeepsExecuting DEF Enqueue
  <2>2. CASE exec' = exec /\ ~Executing
    BY <2>2, KeepsExecuting DEF Executing
  <2>3. CASE exec' = [NoExec EXCEPT !.pc = "loop"]
    BY <2>3, KeepsExecuting DEF NoExec
  <2> QED
    BY <1>1, <2>1, <2>2, <2>3 DEF Enqueue, TriggerPump
<1>2. ASSUME NEW r \in Runs, CancelQueued(r)
      PROVE  ExecInv'
  <2>1. CASE Executing
    <3>1. run'[exec.run] = run[exec.run]
      BY <1>0, <1>2, <2>1 DEF CancelQueued, WithStatus, RunTable, ExecInv, ExecutingStatus
    <3> QED
      BY <1>2, <2>1, <3>1, KeepsExecuting DEF CancelQueued, process
  <2> QED
    BY <1>2, <2>1, KeepsExecuting DEF CancelQueued, Executing, process
<1>3. ASSUME NEW r \in Runs, CancelRunning(r)
      PROVE  ExecInv'
  <2>1. r = exec.run /\ r = active /\ Executing
    BY <1>3 DEF CancelRunning, OwnInv, RunningRunIsOwned, Running, Serving, Executing
  <2>2. /\ exec'.aborted /\ exec'.run = exec.run /\ exec'.pc = exec.pc /\ exec'.result = exec.result
        /\ svc' = svc /\ published' = published
        /\ run'[r].status = "running"
    BY <1>3, <2>1 DEF CancelRunning, ExecRecord, RunTable, RunRow
  <2> QED
    BY <2>1, <2>2 DEF ExecInv, ExecutingStatus, AbortReaches, PublishedAnswer, Executing
<1>4. CASE SetScheduling \/ Reconnect \/ BindConnection
  BY <1>4, KeepsExecuting DEF SetScheduling, Reconnect, BindConnection, Executing, process
<1> QED
  BY <1>1, <1>2, <1>3, <1>4 DEF Operator, OperatorEnqueue, OperatorRetry, SchedulerTick

\* The steps of a run keep what is known of it.
LEMMA ExecWork ==
    ASSUME TypeInv, ExecInv, QueuedUncancelled', Work
    PROVE  ExecInv'
<1> USE TypeTables DEF TypeInv
<1>0. Executing
  BY DEF Executing, Work, StopBeforeDate, BeginDate, MarkNext, NoMoreDates, WorkerReturn, DegradeDate,
     HandleStopped, HandleThrown, HandleAuth, HandleDone, FinishRun, BeginRegistry, RegistryReturn,
     FinishRegistry
<1>1. CASE FinishRun \/ FinishRegistry
  BY <1>1, KeepsExecuting DEF FinishRun, FinishRegistry, ExecRecord
<1>2. CASE RegistryReturn
  BY <1>0, <1>2, KeepsExecuting DEF RegistryReturn, Returning, ExecRecord
<1>3. CASE ~(FinishRun \/ FinishRegistry \/ RegistryReturn)
  <2>1. run' = run /\ svc' = svc
    BY <1>3 DEF Work, StopBeforeDate, BeginDate, MarkNext, NoMoreDates, WorkerReturn, DegradeDate,
       HandleStopped, HandleThrown, HandleAuth, HandleDone, BeginRegistry, UnchangedByRun
  <2>2. /\ exec'.run = exec.run /\ exec'.aborted = exec.aborted
        /\ exec'.pc # "returned" \/ exec'.result # "published"
    BY <1>3 DEF Work, StopBeforeDate, BeginDate, MarkNext, NoMoreDates, WorkerReturn, DegradeDate,
       HandleStopped, HandleThrown, HandleAuth, HandleDone, BeginRegistry, StopDispatch, Returning,
       Answer, ExecRecord
  <2> QED
    BY <1>0, <2>1, <2>2, KeepsExecuting
<1> QED
  BY <1>1, <1>2, <1>3

\* Shutdown, the stop deadline, errors and crashes keep what is known of the executed run.
LEMMA ExecDisruption ==
    ASSUME TypeInv, IdInv, OwnInv, ExecInv, QueuedUncancelled', Shutdown \/ StopDeadline \/ Failure
    PROVE  ExecInv'
<1> USE TypeTables DEF TypeInv
<1>1. CASE RunThrows
  BY <1>1, KeepsExecuting DEF RunThrows, ExecRecord
<1>2. CASE DegradeThrows
  BY <1>2, KeepsExecuting DEF DegradeThrows, Returning, UnchangedByRun, Executing, ExecRecord
<1>3. CASE StopSettled
  BY <1>3, KeepsExecuting DEF StopSettled
<1>4. CASE StopBegin
  <2>1. CASE Executing
    <3>1. run[exec.run].status = "running" /\ exec.run \in Runs
      BY <1>4, <2>1 DEF StopBegin, Up, ExecInv, ExecutingStatus, IdInv, ExecutesARun, Executing
    <3>2. active = exec.run /\ active # NoRun
      BY <1>4, <3>1, RunsAreNat DEF StopBegin, Up, OwnInv, RunningRunIsOwned, Running, NoRun
    <3>3. /\ exec'.aborted /\ exec'.run = exec.run /\ exec'.pc = exec.pc /\ exec'.result = exec.result
          /\ run' = run /\ published' = published
      BY <1>4, <3>2 DEF StopBegin, ExecRecord, durable
    <3> QED
      BY <2>1, <3>1, <3>3 DEF ExecInv, ExecutingStatus, AbortReaches, PublishedAnswer, Executing
  <2>2. CASE ~Executing
    BY <1>4, <2>2, KeepsExecuting DEF StopBegin, Executing, ExecRecord
  <2> QED
    BY <2>1, <2>2
<1>5. CASE StopDeadline
  <2>1. Executing /\ exec.run \in Runs
    BY <1>5 DEF StopDeadline, Executing, IdInv, ExecutesARun
  <2>2. exec' = exec /\ svc' = "stopped" /\ exec.pc = "fetching" /\ exec.aborted
    BY <1>5, <2>1 DEF StopDeadline, ExecInv, AbortReaches, Stopping
  <2>3. run'[exec.run].status = "interrupted"
    BY <1>5, <2>1 DEF StopDeadline, WithStatus, RunTable, RunRow
  <2> QED
    BY <2>2, <2>3 DEF ExecInv, ExecutingStatus, AbortReaches, PublishedAnswer
<1>6. CASE Exit \/ Crash
  BY <1>6, KeepsExecuting DEF Exit, Crash, ProcessGone, NoExec
<1> QED
  BY <1>1, <1>2, <1>3, <1>4, <1>5, <1>6 DEF Shutdown, Failure

OwnershipInv == OwnInv /\ ExecInv

\* What the pump executes is running, and what asks it to end reaches it.
LEMMA ExecInvariant == Spec => []OwnershipInv
<1>1. Init => OwnershipInv
  BY DEF Init, OwnershipInv, OwnInv, RunningRunIsOwned, DownIsIdle, Running, NoRow, NoExec, ExecInv,
     QueuedUncancelled, ExecutingStatus, AbortReaches, PublishedAnswer, Executing
<1>2. TypeInv /\ IdInv /\ OwnershipInv /\ [Next]_vars => OwnershipInv'
  <2> SUFFICES ASSUME TypeInv, IdInv, OwnershipInv, [Next]_vars PROVE OwnershipInv'
    OBVIOUS
  <2>1. OwnInv'
    BY OwnStep DEF OwnershipInv
  <2>2. QueuedUncancelled'
    BY QueuedUncancelledStep DEF OwnershipInv, ExecInv
  <2>3. CASE UNCHANGED vars
    BY <2>3, <2>1 DEF OwnershipInv, ExecInv, QueuedUncancelled, ExecutingStatus, AbortReaches,
       PublishedAnswer, Executing, Stopping, vars, durable, process
  <2>4. CASE Next
    BY <2>1, <2>2, <2>4, ExecBoot, ExecPump, ExecWork, ExecOperator, ExecDisruption
       DEF OwnershipInv, Next, System, Clock
  <2> QED
    BY <2>3, <2>4
<1> QED
  BY <1>1, <1>2, TypeInvariant, IdInvariant, PTL DEF Spec

\* A terminal run never changes again, whichever of the pump, cancellation,
\* stop() at its deadline, its leftover coroutine and recovery writes rows, except
\* that a run closed by stop() may become cancelled as had been asked.
THEOREM TerminalRunsAreSettled == Spec => TerminalRunsSettle
<1> DEFINE Settled(r) == run[r].status \in TerminalRun /\ run'[r] # run[r] =>
                             /\ run[r].status = "interrupted"
                             /\ run'[r].status = "cancelled"
                             /\ run[r].cancelRequested
<1>1. TypeInv /\ IdInv /\ OwnershipInv /\ [Next]_vars => [\A r \in Runs : Settled(r)]_vars
  <2> SUFFICES ASSUME TypeInv, IdInv, OwnershipInv, [Next]_vars, NEW r \in Runs,
                      run[r].status \in TerminalRun, run'[r] # run[r]
               PROVE  /\ run[r].status = "interrupted"
                      /\ run'[r].status = "cancelled"
                      /\ run[r].cancelRequested
    OBVIOUS
  <2>1. run \in RunTable /\ run[r] \in RunRow /\ Runs \subseteq Nat /\ r \in Nat /\ nextId \in Nat
    BY TypeTables, RunsAreNat, BoundsAssumption DEF TypeInv, RunTable, BoundsAssumption
  <2>2. run[r].status # "none" => r < nextId
    BY DEF IdInv, FreshIds
  <2>3. r # nextId
    BY <2>1, <2>2 DEF TerminalRun
  <2>4. r = exec.run /\ (FinishRun \/ FinishRegistry \/ RunThrows \/ StopDeadline)
    BY <2>3, RowSteps DEF RowStep, CancelQueued, TerminalRun
  <2>5. Executing
    BY <2>4 DEF FinishRun, FinishRegistry, RunThrows, StopDeadline, Executing
  <2>6. run[r].status = "interrupted" /\ svc = "stopped"
    BY <2>4, <2>5 DEF OwnershipInv, ExecInv, ExecutingStatus, TerminalRun
  <2>7. ~CancelAsked => run'[r] = run[r]
    BY <2>1, <2>4, <2>6 DEF FinishRun, FinishRegistry, RunThrows, StopDeadline, CancelAsked, AbortSeen,
       Stopping, WithStatus, RunTable, RunRow, OwnershipInv, ExecInv, PublishedAnswer
  <2>8. CancelAsked
    BY <2>7
  <2>9. run[r].cancelRequested
    BY <2>4, <2>6, <2>8 DEF CancelAsked, IsRunCancelRequested
  <2>10. run'[r].status = "cancelled"
    BY <2>1, <2>4, <2>6, <2>8 DEF FinishRun, FinishRegistry, RunThrows, StopDeadline, CancelAsked,
       Stopping, WithStatus, RunTable, RunRow, OwnershipInv, ExecInv, PublishedAnswer
  <2> QED
    BY <2>6, <2>9, <2>10
<1> QED
  BY <1>1, TypeInvariant, IdInvariant, ExecInvariant, PTL DEF Spec, TerminalRunsSettle

\* Nothing is committed for a run that a cancellation, a shutdown or a replaced
\* connection has overtaken while its fetch was on its way.
THEOREM CommitsAreWanted == Spec => CommitOnlyWhileWanted
<1> DEFINE Wanted(r) == /\ run[r].status = "running"
                        /\ ~run[r].cancelRequested
                        /\ ~Stopping
                        /\ exec.generation = generation
           Committed == {x[1] : x \in accepted' \ accepted} \cup (published' \ published)
<1>1. ASSUME OwnershipInv, [Next]_vars, NEW r \in Committed
      PROVE  Wanted(r)
  <2>1. ASSUME NEW o \in Outcomes, WorkerReturn(o), UNCHANGED published
        PROVE  Wanted(r)
    <3>1. accepted' \ accepted \subseteq {<<exec.run, exec.date>>}
      BY <2>1 DEF WorkerReturn
    <3>2. r = exec.run /\ accepted' # accepted
      BY <1>1, <2>1, <3>1
    <3>3. Executing /\ ~exec.aborted /\ ~CancelAsked /\ ~Rebound
      BY <2>1, <3>2 DEF WorkerReturn, Executing
    <3> QED
      BY <1>1, <3>2, <3>3 DEF OwnershipInv, ExecInv, ExecutingStatus, AbortReaches, CancelAsked,
         IsRunCancelRequested, Rebound, Stopping
  <2>2. CASE RegistryReturn /\ UNCHANGED accepted
    <3>1. r = exec.run /\ published' # published
      BY <1>1, <2>2 DEF RegistryReturn
    <3>2. Executing /\ ~exec.aborted /\ ~Rebound
      BY <2>2, <3>1 DEF RegistryReturn, Executing
    <3> QED
      BY <1>1, <3>1, <3>2 DEF OwnershipInv, ExecInv, ExecutingStatus, AbortReaches, Rebound, Stopping
  <2>3. CASE UNCHANGED <<accepted, published>>
    BY <1>1, <2>3
  <2> QED
    BY <1>1, <2>1, <2>2, <2>3, OnlyReturnsCommit
<1>2. OwnershipInv /\ [Next]_vars => [\A r \in Committed : Wanted(r)]_vars
  BY <1>1
<1> QED
  BY <1>2, ExecInvariant, PTL DEF Spec, CommitOnlyWhileWanted

----------------------------------------------------------------------------
(* The date rows.                                                          *)

\* The executed run's own writes to its dates.
WritesDates == \/ MarkNext \/ BeginDate \/ NoMoreDates \/ (\E o \in Outcomes : WorkerReturn(o))
               \/ DegradeDate \/ HandleStopped \/ HandleThrown

\* What a step does to the dates of one run.
DatesStep(r) ==
    \/ day'[r] = day[r]
    \/ /\ r = nextId /\ nextId' = nextId + 1 /\ run'[r].status = "queued"
       /\ \A d \in Dates : day'[r][d].status \in {"none", "pending"}
    \/ CancelQueued(r) /\ day' = MarkedUnfinished(r, "cancelled")
    \/ run[r].status = "running" /\ BootRecover
    \/ r = exec.run /\ (WritesDates \/ StopDeadline)

\* Every step writes the dates of a run in one of the ways DatesStep lists.
LEMMA DatesSteps ==
    ASSUME TypeInv, [Next]_vars, NEW r \in Runs
    PROVE  DatesStep(r)
<1>0. run \in RunTable /\ day \in DayTable
  BY TypeTables DEF TypeInv
<1>1. CASE UNCHANGED day
  BY <1>1 DEF DatesStep
<1>2. CASE BootRecover
  BY <1>0, <1>2 DEF BootRecover, DatesStep, Running, DayTable
<1>3. CASE WritesDates \/ StopDeadline
  <2>1. r # exec.run => day'[r] = day[r]
    BY <1>0, <1>3 DEF WritesDates, MarkNext, BeginDate, NoMoreDates, WorkerReturn, DegradeDate,
       HandleStopped, HandleThrown, StopDeadline, WriteDay, Marked, MarkedUnfinished, DayTable
  <2> QED
    BY <1>3, <2>1 DEF DatesStep
<1>4. ASSUME NEW q \in Runs, CancelQueued(q)
      PROVE  DatesStep(r)
  BY <1>0, <1>4 DEF CancelQueued, Marked, MarkedUnfinished, DatesStep, DayTable
<1>5. ASSUME nextId <= MaxRuns, NEW trigger, NEW mode, NEW key, NEW parent, NEW dates,
             InsertRun(trigger, mode, key, parent, dates)
      PROVE  DatesStep(r)
  <2>1. nextId' = nextId + 1
    BY <1>5 DEF InsertRun
  <2>2. r # nextId => day'[r] = day[r]
    BY <1>0, <1>5 DEF InsertRun, DayTable
  <2>3. r = nextId => run'[r].status = "queued"
    BY <1>0, <1>5 DEF InsertRun, RunTable
  <2>4. r = nextId => \A d \in Dates : day'[r][d].status \in {"none", "pending"}
    BY <1>0, <1>5 DEF InsertRun, NoDay, DayTable
  <2> QED
    BY <2>1, <2>2, <2>3, <2>4 DEF DatesStep
<1>6. CASE BootLink \/ BootLinkDeferred \/ PumpLinkDeferred
  BY <1>1, <1>5, <1>6
     DEF BootLink, BootLinkDeferred, PumpLinkDeferred, BootFail, InsertLinkedRetry, durable
<1>7. ASSUME NEW trigger, NEW mode, NEW key, NEW parent, NEW dates,
             Enqueue(trigger, mode, key, parent, dates)
      PROVE  DatesStep(r)
  BY <1>1, <1>5, <1>7 DEF Enqueue
<1> QED
  BY <1>1, <1>2, <1>3, <1>4, <1>6, <1>7 DEF Next, System, Boot, Pump, Work, Shutdown, Operator, Clock,
     Failure, WritesDates, BootUp, PumpExit, PumpThrow, PumpNothing, PumpClaim, PumpNext,
     StopBeforeDate, HandleAuth, HandleDone, FinishRun, BeginRegistry, RegistryReturn, FinishRegistry,
     StopSettled, Exit, OperatorEnqueue, OperatorRetry, CancelRunning, SetScheduling, Reconnect,
     BindConnection, SchedulerTick, StopBegin, Crash, RunThrows, DegradeThrows, vars, durable

\* Only the worker's own commit makes a date succeeded.
SucceededDates ==
    \A r \in Runs : \A d \in Dates : day[r][d].status = "succeeded" => <<r, d>> \in accepted

\* The phases of a run that has dates.
DatePhases == exec.pc \in {"committed", "marking", "finish"} => DateRun

\* The phase of the executed run tells which of its dates may still be written.
LEMMA DatePhasesStep ==
    ASSUME TypeInv, IdInv, DatePhases, [Next]_vars
    PROVE  DatePhases'
<1> USE TypeTables DEF TypeInv
<1>0. exec.pc \notin {"idle", "loop"} => exec.run \in Runs /\ exec.run # nextId
  <2>1. nextId \in Nat /\ Runs \subseteq Nat
    BY RunsAreNat, BoundsAssumption DEF BoundsAssumption
  <2>2. exec.pc \notin {"idle", "loop"} =>
            exec.run \in Nat /\ exec.run \in Runs /\ exec.run < nextId
    BY <2>1 DEF IdInv, ExecutesARun
  <2> QED
    BY <2>1, <2>2
<1>1. ASSUME exec'.pc \in {"committed", "marking", "finish"}
      PROVE  /\ exec'.run = exec.run
             /\ exec.pc \notin {"idle", "loop"}
             /\ DateRun \/ exec'.pc = exec.pc
  <2>1. CASE UNCHANGED exec
    BY <1>1, <2>1
  <2>2. CASE Boot \/ Pump
    BY <1>1, <2>1, <2>2 DEF Boot, BootRecover, BootLink, BootFail, BootLinkDeferred, BootUp,
       Pump, PumpExit, PumpLinkDeferred, PumpThrow, PumpNothing, PumpClaim, PumpNext, LeavePump,
       NoExec, process
  <2>3. CASE Work
    BY <1>1, <2>3 DEF Work, StopBeforeDate, BeginDate, MarkNext, NoMoreDates, WorkerReturn,
       DegradeDate, HandleStopped, HandleThrown, HandleAuth, HandleDone, FinishRun, BeginRegistry,
       RegistryReturn, FinishRegistry, StopDispatch, Returning, ExecRecord
  <2>4. CASE Operator \/ SchedulerTick
    <3>1. CASE exec' = [NoExec EXCEPT !.pc = "loop"]
      BY <1>1, <3>1 DEF NoExec
    <3>2. ASSUME NEW r \in Runs, CancelRunning(r)
          PROVE  /\ exec'.run = exec.run
                 /\ exec'.pc = exec.pc
      BY <3>2 DEF CancelRunning, ExecRecord
    <3>3. CASE \E r \in Runs : CancelRunning(r)
      BY <1>1, <3>2, <3>3
    <3> QED
      BY <1>1, <2>1, <2>4, <3>1, <3>3 DEF Operator, OperatorEnqueue, OperatorRetry, SchedulerTick,
         Enqueue, TriggerPump, CancelQueued, SetScheduling, Reconnect, BindConnection, process
  <2>5. CASE Shutdown \/ StopDeadline \/ Failure
    <3>1. CASE Exit \/ Crash
      BY <1>1, <3>1 DEF Exit, Crash, ProcessGone, NoExec
    <3>2. CASE RunThrows \/ DegradeThrows
      BY <1>1, <3>2 DEF RunThrows, DegradeThrows, Returning, ExecRecord
    <3>3. CASE StopBegin
      <4>1. exec'.run = exec.run
        BY <3>3 DEF StopBegin, ExecRecord
      <4>2. exec'.pc = exec.pc
        BY <3>3 DEF StopBegin, ExecRecord
      <4> QED
        BY <1>1, <4>1, <4>2
    <3> QED
      BY <2>1, <2>5, <3>1, <3>2, <3>3 DEF Shutdown, Failure, StopSettled, StopDeadline
  <2> QED
    BY <2>1, <2>2, <2>3, <2>4, <2>5 DEF Next, System, Clock, vars, process
<1>2. ASSUME exec.run \in Runs, exec.run # nextId
      PROVE  run'[exec.run].mode = run[exec.run].mode
  <2>1. run[exec.run] \in RunRow /\ RowStep(exec.run)
    BY <1>2, RowSteps DEF RunTable
  <2> QED
    BY <1>2, <2>1 DEF RowStep, RunRow
<1>3. ASSUME exec'.pc \in {"committed", "marking", "finish"}
      PROVE  DateRun'
  <2>1. exec'.run = exec.run /\ DateRun
    BY <1>1, <1>3 DEF DatePhases
  <2>2. run'[exec.run].mode = run[exec.run].mode
    BY <1>0, <1>1, <1>2, <1>3
  <2> QED
    BY <2>1, <2>2 DEF DateRun
<1> QED
  BY <1>3 DEF DatePhases

\* A date marked with a status has that status; the others are as they were.
LEMMA MarkedCell ==
    ASSUME day \in DayTable, NEW r \in Runs, NEW S, NEW s, NEW d \in Dates
    PROVE  Marked(r, S, s)[r][d] = IF d \in S THEN [status |-> s, disposition |-> "none"] ELSE day[r][d]
BY DEF Marked, DayTable

\* Marking with another status makes no date succeeded.
LEMMA MarkedNotSucceeded ==
    ASSUME day \in DayTable, NEW r \in Runs, NEW S, NEW s, s # "succeeded", NEW d \in Dates,
           Marked(r, S, s)[r][d].status = "succeeded"
    PROVE  day[r][d].status = "succeeded"
<1>1. d \in S => Marked(r, S, s)[r][d].status = s
  <2>1. d \in S => Marked(r, S, s)[r][d] = [status |-> s, disposition |-> "none"]
    BY MarkedCell
  <2> QED
    BY <2>1
<1>2. d \notin S => Marked(r, S, s)[r][d] = day[r][d]
  BY DEF Marked, DayTable
<1> QED
  BY <1>1, <1>2

\* A date becomes succeeded only with its commit, and commits are never taken back.
LEMMA SucceededDatesStep ==
    ASSUME TypeInv, IdInv, SucceededDates, [Next]_vars
    PROVE  SucceededDates'
<1> USE TypeTables DEF TypeInv
<1> SUFFICES ASSUME NEW r \in Runs, NEW d \in Dates, day'[r][d].status = "succeeded"
             PROVE  <<r, d>> \in accepted'
  BY DEF SucceededDates
<1>1. accepted \subseteq accepted'
  BY OnlyReturnsCommit DEF WorkerReturn
<1>2. CASE day'[r] = day[r]
  BY <1>1, <1>2 DEF SucceededDates
<1>3. CASE ~(r = exec.run /\ (WritesDates \/ StopDeadline)) /\ day'[r] # day[r]
  <2>1. DatesStep(r)
    BY DatesSteps
  <2>2. CASE CancelQueued(r) /\ day' = MarkedUnfinished(r, "cancelled")
    BY <1>1, <2>2, MarkedNotSucceeded DEF MarkedUnfinished, SucceededDates
  <2>3. CASE run[r].status = "running" /\ BootRecover
    <3>1. day'[r] = MarkedUnfinished(r, "interrupted")[r]
      BY <2>3 DEF BootRecover, Running
    <3> QED
      BY <1>1, <3>1, MarkedNotSucceeded DEF MarkedUnfinished, SucceededDates
  <2> QED
    BY <1>3, <2>1, <2>2, <2>3 DEF DatesStep
<1>4. ASSUME r = exec.run, NEW S, NEW s, s # "succeeded", day' = Marked(exec.run, S, s)
      PROVE  <<r, d>> \in accepted'
  BY <1>1, <1>4, MarkedNotSucceeded DEF SucceededDates
<1>5. ASSUME r = exec.run, NEW s, NEW p, s # "succeeded" \/ <<exec.run, exec.date>> \in accepted',
             WriteDay(s, p)
      PROVE  <<r, d>> \in accepted'
  <2>1. day'[r][d] = IF d = exec.date THEN [status |-> s, disposition |-> p] ELSE day[r][d]
    BY <1>5 DEF WriteDay, DayTable
  <2> QED
    BY <1>1, <1>5, <2>1 DEF SucceededDates
<1>6. ASSUME r = exec.run, WritesDates \/ StopDeadline
      PROVE  <<r, d>> \in accepted'
  <2>1. CASE MarkNext
    <3>1. exec.result # "succeeded"
      BY <2>1 DEF MarkNext, MarkingStatus
    <3> QED
      BY <1>4, <1>6, <2>1, <3>1 DEF MarkNext
  <2>2. CASE NoMoreDates \/ StopDeadline
    BY <1>4, <1>6, <2>2 DEF NoMoreDates, StopDeadline, MarkedUnfinished
  <2>3. CASE HandleStopped
    BY <1>4, <1>6, <2>3 DEF HandleStopped, EarlyStop
  <2>4. CASE BeginDate
    <3> DEFINE c == Lowest(exec.todo)
               s == IF Rebound THEN "failed" ELSE "running"
    <3>1. day' = [day EXCEPT ![exec.run][c].status = s]
      BY <2>4 DEF BeginDate
    <3>2. day'[r][d] = IF d = c THEN [day[r][d] EXCEPT !.status = s] ELSE day[r][d]
      BY <1>6, <3>1 DEF DayTable
    <3>3. d # c
      <4>1. day[r][d] \in DayRow
        BY DEF DayTable
      <4> QED
        BY <3>2, <4>1 DEF DayRow
    <3> QED
      BY <1>1, <3>2, <3>3 DEF SucceededDates
  <2>5. ASSUME NEW o \in Outcomes, WorkerReturn(o)
        PROVE  <<r, d>> \in accepted'
    <3>1. Written(o).status = "succeeded" => o \in {"complete", "degraded"}
      BY DEF Written
    <3> QED
      BY <1>5, <1>6, <1>2, <2>5, <3>1 DEF WorkerReturn
  <2>6. CASE DegradeDate \/ HandleThrown
    BY <1>5, <1>6, <2>6 DEF DegradeDate, HandleThrown
  <2> QED
    BY <1>6, <2>1, <2>2, <2>3, <2>4, <2>5, <2>6 DEF WritesDates
<1> QED
  BY <1>2, <1>3, <1>6

SuccessInv == DatePhases /\ SucceededDates /\ SucceededIsAccepted

\* A run that is over and not being executed keeps its dates.
LEMMA SucceededKeepsDates ==
    ASSUME TypeInv, IdInv, OwnershipInv, [Next]_vars, NEW r \in Runs, run[r].status = "succeeded"
    PROVE  day'[r] = day[r] /\ run'[r] = run[r]
<1>1. nextId \in Nat /\ Runs \subseteq Nat
  BY TypeTables, RunsAreNat, BoundsAssumption DEF TypeInv, BoundsAssumption
<1>2. r < nextId /\ r \in Nat
  BY <1>1 DEF IdInv, FreshIds
<1>3. r # nextId
  BY <1>1, <1>2
<1>4. ~(r = exec.run /\ Executing)
  BY DEF OwnershipInv, ExecInv, ExecutingStatus
<1>5. WritesDates \/ StopDeadline \/ FinishRun \/ FinishRegistry \/ RunThrows => Executing
  BY DEF WritesDates, MarkNext, BeginDate, NoMoreDates, WorkerReturn, DegradeDate, HandleStopped,
     HandleThrown, StopDeadline, FinishRun, FinishRegistry, RunThrows, Executing
<1>6. day'[r] = day[r]
  BY <1>3, <1>4, <1>5, DatesSteps DEF DatesStep, CancelQueued
<1>7. run'[r] = run[r]
  BY <1>3, <1>4, <1>5, RowSteps DEF RowStep, CancelQueued
<1> QED
  BY <1>6, <1>7

\* aggregateRunOutcome answers "succeeded" for nothing but successes.
LEMMA OnlySuccessesSucceed ==
    ASSUME NEW r, AggregateOutcome(r) = "succeeded"
    PROVE  DatesOf(r) # {} /\ \A d \in DatesOf(r) : day[r][d].status = "succeeded"
<1>1. DatesOf(r) # {}
  BY DEF AggregateOutcome
<1> QED
  BY <1>1 DEF AggregateOutcome

\* A run becomes succeeded only from its dates or its publication, and then keeps them.
LEMMA SucceededStep ==
    ASSUME TypeInv, IdInv, OwnershipInv, SuccessInv, [Next]_vars
    PROVE  SucceededIsAccepted'
<1> SUFFICES ASSUME NEW r \in Runs, run'[r].status = "succeeded"
             PROVE  IF run'[r].mode = "registry" THEN r \in published'
                    ELSE DatesOf(r)' # {} /\ \A d \in DatesOf(r)' : <<r, d>> \in accepted'
  BY DEF SucceededIsAccepted
<1>0. run \in RunTable /\ run[r] \in RunRow
  BY TypeTables DEF TypeInv, RunTable
<1>1. accepted \subseteq accepted' /\ published \subseteq published'
  BY OnlyReturnsCommit DEF WorkerReturn, RegistryReturn
<1>2. CASE run[r].status = "succeeded"
  <2>1. day'[r] = day[r] /\ run'[r] = run[r]
    BY <1>2, SucceededKeepsDates DEF OwnershipInv
  <2>2. DatesOf(r)' = DatesOf(r)
    BY <2>1 DEF DatesOf
  <2> QED
    BY <1>1, <1>2, <2>1, <2>2 DEF SuccessInv, SucceededIsAccepted
<1>3. CASE run[r].status # "succeeded"
  <2>1. r = exec.run /\ (FinishRun \/ FinishRegistry \/ RunThrows \/ StopDeadline)
    BY <1>0, <1>3, RowSteps DEF RowStep, RunRow
  <2>2. run' = WithStatus(r, "succeeded") /\ (FinishRun \/ FinishRegistry)
    BY <1>0, <2>1 DEF FinishRun, FinishRegistry, RunThrows, StopDeadline, WithStatus, RunTable, RunRow
  <2>3. run'[r].mode = run[r].mode
    BY <1>0, <2>2 DEF WithStatus, RunTable, RunRow
  <2>4. CASE FinishRun
    <3>1. AggregateOutcome(r) = "succeeded"
      <4>1. run' = WithStatus(r, "cancelled") \/ run' = WithStatus(r, "interrupted")
            \/ run' = WithStatus(r, AggregateOutcome(r))
        BY <2>1, <2>4 DEF FinishRun
      <4>2. run' # WithStatus(r, "cancelled") /\ run' # WithStatus(r, "interrupted")
        BY <1>0 DEF WithStatus, RunTable, RunRow
      <4>3. run' = WithStatus(r, AggregateOutcome(r))
        BY <4>1, <4>2
      <4>4. WithStatus(r, AggregateOutcome(r))[r].status = AggregateOutcome(r)
        BY <1>0, WithStatusStatus
      <4> QED
        BY <4>3, <4>4
    <3>2. DatesOf(r) # {} /\ \A d \in DatesOf(r) : day[r][d].status = "succeeded"
      BY <3>1, OnlySuccessesSucceed
    <3>3. run[r].mode # "registry"
      BY <2>1, <2>4 DEF FinishRun, SuccessInv, DatePhases, DateRun
    <3>4. DatesOf(r)' = DatesOf(r)
      BY <2>4 DEF FinishRun, DatesOf
    <3> QED
      BY <1>1, <2>3, <3>2, <3>3, <3>4 DEF SuccessInv, SucceededDates, DatesOf
  <2>5. CASE FinishRegistry
    <3>1. exec.result = "published" /\ exec.pc = "returned" /\ run[r].mode = "registry"
      BY <1>0, <2>1, <2>5 DEF FinishRegistry, WithStatus, DateRun, RunTable, RunRow
    <3> QED
      BY <1>1, <2>1, <2>3, <3>1 DEF OwnershipInv, ExecInv, PublishedAnswer
  <2> QED
    BY <2>2, <2>4, <2>5
<1> QED
  BY <1>2, <1>3

\* A run reported as succeeded had every one of its dates committed by its own
\* reconciliations, or published the registry, whatever interrupted it on the way.
THEOREM SuccessIsEarned == Spec => []SucceededIsAccepted
<1>1. Init => SuccessInv
  BY DEF Init, SuccessInv, DatePhases, SucceededDates, SucceededIsAccepted, NoRow, NoDay, NoExec
<1>2. TypeInv /\ IdInv /\ OwnershipInv /\ SuccessInv /\ [Next]_vars => SuccessInv'
  BY DatePhasesStep, SucceededDatesStep, SucceededStep DEF SuccessInv
<1>3. SuccessInv => SucceededIsAccepted
  BY DEF SuccessInv
<1> QED
  BY <1>1, <1>2, <1>3, TypeInvariant, IdInvariant, ExecInvariant, PTL DEF Spec

----------------------------------------------------------------------------
(***************************************************************************)
(* What is left behind when runs end and when the process starts again:    *)
(* terminal runs have only terminal dates, the retry of an interrupted run *)
(* takes exactly the dates it has to, and a start forgets none.  Where a   *)
(* database error inside a run breaks one of these (RunThrows leaves its   *)
(* dates open, DegradeThrows throws after a commit), it is proved of every *)
(* state no such error has led to.                                         *)
(*                                                                         *)
(* The argument is by the cells of the date table: CellStep lists the ways *)
(* a step may write one date, and the invariants follow row by row.        *)
(***************************************************************************)

----------------------------------------------------------------------------
(* The invariants.                                                         *)

\* An id not given out yet has an empty row and no dates.
BlankRows ==
    \A r \in Runs : run[r].status = "none" =>
        /\ run[r].key = <<>>
        /\ run[r].parent = NoRun
        /\ \A d \in Dates : day[r][d].status = "none"

\* A registry run has no dates.
RegistryDateless ==
    \A r \in Runs : run[r].mode = "registry" => \A d \in Dates : day[r][d].status = "none"

\* No date of a queued run has begun.
QueuedPending ==
    \A r \in Runs : run[r].status = "queued" =>
        \A d \in Dates : day[r][d].status \in {"none", "pending"}

\* The executed run writes dates it has, and the one it is at is not to come again.
AtOwnDates ==
    exec.pc \notin {"idle", "loop"} =>
        /\ exec.todo \subseteq DatesOf(exec.run)
        /\ exec.pc \in {"fetching", "committed", "returned"} /\ DateRun =>
               exec.date \in DatesOf(exec.run) \ exec.todo

RowsInv == BlankRows /\ RegistryDateless /\ QueuedPending /\ AtOwnDates

\* The sweep after the loop over the dates leaves none unfinished.
SweptDates ==
    exec.pc = "finish" => \A d \in Dates : day[exec.run][d].status \notin {"pending", "running"}

SettledInv == faults = 0 => TerminalRunHasTerminalDates /\ SweptDates

\* A committed date stays succeeded or lowered to partial, and the executed run
\* comes to no date twice.
CommittedDates ==
    /\ \A r \in Runs, d \in Dates :
           <<r, d>> \in accepted => day[r][d].status \in {"succeeded", "partial"}
    /\ exec.pc \notin {"idle", "loop"} => \A d \in exec.todo : <<exec.run, d>> \notin accepted
    /\ (\/ exec.pc = "fetching" /\ DateRun
        \/ exec.pc = "returned" /\ exec.result \in {"cancelled", "threw"})
           => <<exec.run, exec.date>> \notin accepted

CommittedInv == faults = 0 => CommittedDates

\* The runs a start has yet to link are the ones it interrupted.
ToLinkInterrupted ==
    /\ toLink # {} => svc = "recovering"
    /\ \A r \in toLink : run[r].status = "interrupted"

\* A run with a parent was made by the retry endpoint or by recovery.
LinkedRows ==
    \A c, p \in Runs : run[c].parent = p =>
        \/ run[c].key = <<"recovery", p>>
        \/ run[c].key[1] = "retry"

\* What recovery made of the run p: one retry, later than p, of all that p left
\* unfinished; and p is never executed again.
Recovered(c, p) ==
    /\ run[c].parent = p
    /\ p < c
    /\ run[p].status = "interrupted"
    /\ ~run[p].cancelRequested
    /\ DatesOf(c) = UnfinishedDates(p)
    /\ \A s \in Runs : run[s].key = <<"recovery", p>> => s = c
    /\ Executing => exec.run # p

RecoveredOnce == \A c, p \in Runs : run[c].key = <<"recovery", p>> => Recovered(c, p)

RecoveryInv == ToLinkInterrupted /\ LinkedRows /\ RecoveredOnce

----------------------------------------------------------------------------
(* What a step may write.                                                  *)

\* An existing run is not the one about to be inserted.
LEMMA OldRun ==
    ASSUME TypeInv, IdInv, NEW r \in Runs, run[r].status # "none"
    PROVE  r < nextId /\ r # nextId
<1>1. r \in Nat /\ nextId \in Nat
  BY TypeTables, RunsAreNat, BoundsAssumption DEF TypeInv, BoundsAssumption
<1>2. r < nextId
  BY DEF IdInv, FreshIds
<1> QED
  BY <1>1, <1>2

\* Neither is the executed one.
LEMMA OldExecuted ==
    ASSUME TypeInv, IdInv, exec.pc \notin {"idle", "loop"}
    PROVE  exec.run \in Runs /\ exec.run # nextId
<1>1. exec.run \in Runs /\ exec.run < nextId
  BY DEF IdInv, ExecutesARun
<1>2. exec.run \in Nat
  BY <1>1, RunsAreNat
<1>3. nextId \in Nat
  BY TypeTables, BoundsAssumption DEF TypeInv, BoundsAssumption
<1> QED
  BY <1>1, <1>2, <1>3

\* An id about to be given out is not in use.
LEMMA NextIsBlank ==
    ASSUME TypeInv, IdInv, nextId \in Runs
    PROVE  run[nextId].status = "none"
<1>1. nextId \in Nat
  BY RunsAreNat
<1>2. ~(nextId < nextId)
  BY <1>1
<1> QED
  BY <1>2 DEF IdInv, FreshIds

\* The phases of a run that has dates are only those of such a run.
LEMMA DatePhasesInvariant == Spec => []DatePhases
<1>1. Init => DatePhases
  BY DEF Init, DatePhases, NoExec
<1> QED
  BY <1>1, DatePhasesStep, TypeInvariant, IdInvariant, PTL DEF Spec

\* Sweeps touch unfinished dates only.
Sweeps(r) == \/ CancelQueued(r)
             \/ BootRecover /\ run[r].status = "running"
             \/ r = exec.run /\ (NoMoreDates \/ StopDeadline)

\* What a step does to one date of one run: nothing; its insertion; a sweep;
\* its turn, or its mark, in the executed run; or the answer of its worker.
CellStep(r, d) ==
    \/ day'[r][d] = day[r][d]
    \/ /\ r = nextId /\ nextId' = nextId + 1 /\ run'[r].status = "queued"
       /\ day'[r][d].status \in {"none", "pending"}
    \/ /\ Sweeps(r)
       /\ day[r][d].status \in {"pending", "running"}
       /\ day'[r][d].status \in {"cancelled", "interrupted", "skipped"}
    \/ /\ r = exec.run
       /\ d \in exec.todo
       /\ \/ MarkNext /\ day'[r][d].status \in {"cancelled", "interrupted", "skipped"}
          \/ BeginDate /\ day'[r][d].status \in {"running", "failed"}
    \/ /\ r = exec.run
       /\ d = exec.date
       /\ DateRun
       /\ (\E o \in Outcomes : WorkerReturn(o)) \/ DegradeDate \/ HandleStopped \/ HandleThrown
       /\ day'[r][d].status \in TerminalDay

\* A sweep gives the unfinished dates its status and leaves the others.
LEMMA SweptCell ==
    ASSUME day \in DayTable, NEW r \in Runs, NEW s, NEW d \in Dates
    PROVE  IF day[r][d].status \in {"pending", "running"}
             THEN MarkedUnfinished(r, s)[r][d].status = s
             ELSE MarkedUnfinished(r, s)[r][d] = day[r][d]
<1> DEFINE S == {x \in Dates : day[r][x].status \in {"pending", "running"}}
<1>1. MarkedUnfinished(r, s)[r][d] =
          IF d \in S THEN [status |-> s, disposition |-> "none"] ELSE day[r][d]
  BY MarkedCell DEF MarkedUnfinished
<1> QED
  BY <1>1

\* A written date has what was written; the others of the run are as they were.
LEMMA WrittenCell ==
    ASSUME day \in DayTable, NEW r \in Runs, r = exec.run, NEW s, NEW p, NEW d \in Dates, WriteDay(s, p)
    PROVE  \/ day'[r][d] = day[r][d]
           \/ d = exec.date /\ day'[r][d].status = s
<1>1. day'[r][d] = IF d = exec.date THEN [status |-> s, disposition |-> p] ELSE day[r][d]
  BY DEF WriteDay, DayTable
<1> QED
  BY <1>1

\* A date is written only in the ways CellStep lists.
LEMMA CellSteps ==
    ASSUME TypeInv, DatePhases, [Next]_vars, NEW r \in Runs, NEW d \in Dates
    PROVE  CellStep(r, d)
<1>1. day \in DayTable /\ exec \in ExecRecord
  BY TypeTables DEF TypeInv
<1>2. DatesStep(r)
  BY DatesSteps
<1>3. CASE day'[r] = day[r]
  BY <1>3 DEF CellStep
<1>4. CASE /\ r = nextId /\ nextId' = nextId + 1 /\ run'[r].status = "queued"
           /\ \A c \in Dates : day'[r][c].status \in {"none", "pending"}
  BY <1>4 DEF CellStep
<1>5. CASE CancelQueued(r) /\ day' = MarkedUnfinished(r, "cancelled")
  BY <1>1, <1>5, SweptCell DEF CellStep, Sweeps
<1>6. CASE run[r].status = "running" /\ BootRecover
  <2>1. day'[r] = MarkedUnfinished(r, "interrupted")[r]
    BY <1>6 DEF BootRecover, Running
  <2> QED
    BY <1>1, <1>6, <2>1, SweptCell DEF CellStep, Sweeps
<1>7. ASSUME r = exec.run, WritesDates \/ StopDeadline
      PROVE  CellStep(r, d)
  <2>1. CASE StopDeadline \/ NoMoreDates
    <3>1. \E s \in {"cancelled", "interrupted", "skipped"} : day' = MarkedUnfinished(r, s)
      BY <1>7, <2>1 DEF StopDeadline, NoMoreDates
    <3> QED
      BY <1>1, <1>7, <2>1, <3>1, SweptCell DEF CellStep, Sweeps
  <2>2. CASE MarkNext
    <3>1. exec.result \in {"cancelled", "interrupted", "skipped"}
      BY <2>2 DEF MarkNext, TypeInv, MarkingStatus
    <3>2. Lowest(exec.todo) \in exec.todo
      BY <1>1, <2>2, LowestIsIn, RunsAreNat DEF MarkNext, ExecRecord
    <3>3. day'[r][d] = IF d \in {Lowest(exec.todo)}
                         THEN [status |-> exec.result, disposition |-> "none"] ELSE day[r][d]
      BY <1>1, <1>7, <2>2, MarkedCell DEF MarkNext
    <3>4. day'[r][d] = day[r][d] \/ (d \in exec.todo /\ day'[r][d].status = exec.result)
      BY <3>2, <3>3
    <3> QED
      BY <1>7, <2>2, <3>1, <3>4 DEF CellStep
  <2>3. CASE BeginDate
    <3> DEFINE s == IF Rebound THEN "failed" ELSE "running"
    <3>1. Lowest(exec.todo) \in exec.todo
      BY <1>1, <2>3, LowestIsIn, RunsAreNat DEF BeginDate, ExecRecord
    <3>2. day'[r][d] = IF d = Lowest(exec.todo) THEN [day[r][d] EXCEPT !.status = s] ELSE day[r][d]
      BY <1>1, <1>7, <2>3 DEF BeginDate, DayTable
    <3>3. day[r][d] \in DayRow
      BY <1>1 DEF DayTable
    <3>4. day'[r][d] = day[r][d] \/ (d \in exec.todo /\ day'[r][d].status = s)
      BY <3>1, <3>2, <3>3 DEF DayRow
    <3> QED
      BY <1>7, <2>3, <3>4 DEF CellStep
  <2>4. ASSUME NEW o \in Outcomes, WorkerReturn(o)
        PROVE  CellStep(r, d)
    <3>1. DateRun
      BY <2>4 DEF WorkerReturn
    <3>2. \/ day' = day
          \/ \E s \in TerminalDay, p \in Disposition : WriteDay(s, p)
      BY <2>4 DEF WorkerReturn, Written, TerminalDay, Disposition
    <3> QED
      BY <1>1, <1>7, <2>4, <3>1, <3>2, WrittenCell DEF CellStep
  <2>5. CASE DegradeDate \/ HandleThrown
    <3>1. DateRun
      BY <2>5 DEF DegradeDate, HandleThrown, DatePhases
    <3>2. \E s \in TerminalDay, p \in Disposition : WriteDay(s, p)
      BY <2>5 DEF DegradeDate, HandleThrown, TerminalDay, Disposition
    <3> QED
      BY <1>1, <1>7, <2>5, <3>1, <3>2, WrittenCell DEF CellStep
  <2>6. CASE HandleStopped
    <3>1. EarlyStop \in TerminalDay
      BY DEF EarlyStop, TerminalDay
    <3>2. day'[r][d] = IF d \in {exec.date}
                         THEN [status |-> EarlyStop, disposition |-> "none"] ELSE day[r][d]
      BY <1>1, <1>7, <2>6, MarkedCell DEF HandleStopped
    <3>3. day'[r][d] = day[r][d] \/ (d = exec.date /\ day'[r][d].status = EarlyStop)
      BY <3>2
    <3> QED
      BY <1>7, <2>6, <3>1, <3>3 DEF CellStep, HandleStopped
  <2> QED
    BY <1>7, <2>1, <2>2, <2>3, <2>4, <2>5, <2>6 DEF WritesDates
<1> QED
  BY <1>2, <1>3, <1>4, <1>5, <1>6, <1>7 DEF DatesStep

\* A run that existed keeps what it was submitted with.
LEMMA KeptRow ==
    ASSUME TypeInv, OwnershipInv, [Next]_vars, NEW r \in Runs, r # nextId \/ nextId' = nextId
    PROVE  /\ run'[r].key = run[r].key
           /\ run'[r].parent = run[r].parent
           /\ run'[r].mode = run[r].mode
           /\ run'[r].status = "none" <=> run[r].status = "none"
<1>1. run[r] \in RunRow
  BY TypeTables DEF TypeInv, RunTable
<1>2. nextId' # nextId + 1 \/ r # nextId
  <2>1. nextId \in Nat
    BY TypeTables, BoundsAssumption DEF TypeInv, BoundsAssumption
  <2> QED
    BY <2>1
<1>3. RowStep(r)
  BY RowSteps
<1>4. CASE r = exec.run /\ (FinishRun \/ FinishRegistry \/ RunThrows \/ StopDeadline)
  <2>1. Executing
    BY <1>4 DEF FinishRun, FinishRegistry, RunThrows, StopDeadline, Executing
  <2>2. run[r].status # "none"
    BY <1>4, <2>1 DEF OwnershipInv, ExecInv, ExecutingStatus
  <2>3. run'[r] = run[r] \/ \E s \in RunStatus \ {"none"} : run'[r] = [run[r] EXCEPT !.status = s]
                        \/ run'[r] = [run[r] EXCEPT !.cancelRequested = TRUE]
    BY <1>2, <1>3 DEF RowStep, RunStatus, TerminalRun
  <2> QED
    BY <1>1, <2>2, <2>3 DEF RunRow
<1>5. CASE run'[r] = run[r]
  BY <1>5
<1>6. ASSUME NEW s \in RunStatus \ {"none"}, run[r].status # "none",
             run'[r] = [run[r] EXCEPT !.status = s]
      PROVE  /\ run'[r].key = run[r].key
             /\ run'[r].parent = run[r].parent
             /\ run'[r].mode = run[r].mode
             /\ run'[r].status = "none" <=> run[r].status = "none"
  BY <1>1, <1>6 DEF RunRow
<1>7. CASE run[r].status # "none" /\ run'[r] = [run[r] EXCEPT !.cancelRequested = TRUE]
  BY <1>1, <1>7 DEF RunRow
<1>8. {"running", "cancelled", "interrupted"} \subseteq RunStatus \ {"none"}
  BY DEF RunStatus, TerminalRun
<1> QED
  BY <1>2, <1>3, <1>4, <1>5, <1>6, <1>7, <1>8 DEF RowStep, CancelQueued

\* The dates of a run are the ones it was inserted with.
LEMMA KeptDates ==
    ASSUME TypeInv, DatePhases, AtOwnDates, [Next]_vars, NEW r \in Runs, r # nextId \/ nextId' = nextId
    PROVE  DatesOf(r)' = DatesOf(r)
<1>1. nextId' # nextId + 1 \/ r # nextId
  <2>1. nextId \in Nat
    BY TypeTables, BoundsAssumption DEF TypeInv, BoundsAssumption
  <2> QED
    BY <2>1
<1>2. ASSUME NEW d \in Dates
      PROVE  day'[r][d].status = "none" <=> day[r][d].status = "none"
  <2>1. CellStep(r, d)
    BY CellSteps
  <2>2. CASE r = exec.run /\ d \in exec.todo /\ (MarkNext \/ BeginDate)
    <3>1. day[r][d].status # "none"
      BY <2>2 DEF MarkNext, BeginDate, AtOwnDates, DatesOf
    <3>2. day'[r][d] = day[r][d] \/ day'[r][d].status # "none"
      BY <1>1, <2>1 DEF CellStep, TerminalDay
    <3> QED
      BY <3>1, <3>2
  <2>3. CASE /\ r = exec.run /\ d = exec.date /\ DateRun
             /\ (\E o \in Outcomes : WorkerReturn(o)) \/ DegradeDate \/ HandleStopped \/ HandleThrown
    <3>1. exec.pc \in {"fetching", "committed", "returned"}
      BY <2>3 DEF WorkerReturn, DegradeDate, HandleStopped, HandleThrown
    <3>2. day[r][d].status # "none"
      BY <2>3, <3>1 DEF AtOwnDates, DatesOf
    <3>3. day'[r][d] = day[r][d] \/ day'[r][d].status # "none"
      BY <1>1, <2>1 DEF CellStep, TerminalDay
    <3> QED
      BY <3>2, <3>3
  <2> QED
    BY <1>1, <2>1, <2>2, <2>3 DEF CellStep
<1> QED
  BY <1>2 DEF DatesOf

----------------------------------------------------------------------------
(* Insertions.                                                             *)

\* Recovery links a retry to a run that was interrupted, while nothing executes.
Links(p) ==
    /\ run[p].status = "interrupted"
    /\ ~run[p].cancelRequested
    /\ ~HasLinkedRetry(p)
    /\ InsertLinkedRetry(p)
    /\ exec' = exec
    /\ exec.pc \in {"idle", "loop"}

\* Intake inserts a run for a request of the operator or of the scheduler, or for
\* the retry endpoint.
TakesIn(key, parent, mode, dates) ==
    /\ \E trigger : InsertRun(trigger, mode, key, parent, dates)
    /\ (key[1] = "request" /\ parent = NoRun) \/ key[1] = "retry"
    /\ mode = "registry" => dates = {}

\* Every insertion is recovery's or intake's.
LEMMA Insertions ==
    ASSUME TypeInv, OwnershipInv, ToLinkInterrupted, [Next]_vars
    PROVE  \/ nextId' = nextId
           \/ /\ nextId \in Runs
              /\ UNCHANGED accepted
              /\ \/ \E p \in Runs : Links(p)
                 \/ \E key, parent, mode, dates : TakesIn(key, parent, mode, dates)
<1> DEFINE Goal == \/ nextId' = nextId
                   \/ /\ nextId \in Runs
                      /\ UNCHANGED accepted
                      /\ \/ \E p \in Runs : Links(p)
                         \/ \E key, parent, mode, dates : TakesIn(key, parent, mode, dates)
<1> SUFFICES Goal
  OBVIOUS
<1>1. nextId <= MaxRuns => nextId \in Runs
  BY TypeTables, BoundsAssumption DEF TypeInv, Runs, BoundsAssumption
<1>2. toLink # {} => Lowest(toLink) \in Runs /\ run[Lowest(toLink)].status = "interrupted"
  BY LowestIsIn, RunsAreNat, TypeTables DEF TypeInv, ToLinkInterrupted
<1>3. Deferred # {} => /\ Lowest(Deferred) \in Runs
                       /\ run[Lowest(Deferred)].status = "interrupted"
                       /\ DeservesRetry(Lowest(Deferred), TRUE)
  BY LowestIsIn, RunsAreNat DEF Deferred
<1>4. svc = "recovering" => exec.pc = "idle"
  BY DEF OwnershipInv, OwnInv, DownIsIdle
<1>5. ASSUME NEW p \in Runs, NEW e, DeservesRetry(p, e)
      PROVE  ~run[p].cancelRequested /\ ~HasLinkedRetry(p)
  BY <1>5 DEF DeservesRetry, IsRunCancelRequested
<1>6. CASE BootLink
  <2>1. CASE UNCHANGED nextId
    BY <2>1
  <2>2. CASE /\ DeservesRetry(Lowest(toLink), scheduling) /\ nextId <= MaxRuns
             /\ InsertLinkedRetry(Lowest(toLink)) /\ UNCHANGED <<accepted, exec>>
    <3>1. Links(Lowest(toLink))
      BY <1>2, <1>4, <1>5, <1>6, <2>2 DEF BootLink, Links
    <3> QED
      BY <1>1, <1>2, <1>6, <2>2, <3>1 DEF BootLink
  <2> QED
    BY <1>6, <2>1, <2>2 DEF BootLink, BootFail, durable
<1>7. CASE BootLinkDeferred \/ PumpLinkDeferred
  <2>1. CASE UNCHANGED nextId
    BY <2>1
  <2>2. CASE /\ Deferred # {} /\ nextId <= MaxRuns
             /\ InsertLinkedRetry(Lowest(Deferred)) /\ UNCHANGED <<accepted, exec>>
    <3>1. exec.pc \in {"idle", "loop"}
      BY <1>4, <1>7 DEF BootLinkDeferred, PumpLinkDeferred
    <3>2. Links(Lowest(Deferred))
      BY <1>3, <1>5, <2>2, <3>1 DEF Links
    <3> QED
      BY <1>1, <1>3, <2>2, <3>2
  <2> QED
    BY <1>7, <2>1, <2>2 DEF BootLinkDeferred, PumpLinkDeferred, BootFail, durable, process
<1>8. ASSUME NEW trigger, NEW mode, NEW key, NEW parent, NEW dates,
             Enqueue(trigger, mode, key, parent, dates),
             (key[1] = "request" /\ parent = NoRun) \/ key[1] = "retry",
             mode = "registry" => dates = {}
      PROVE  Goal
  <2>1. CASE UNCHANGED nextId
    BY <2>1
  <2>2. CASE nextId <= MaxRuns /\ InsertRun(trigger, mode, key, parent, dates)
    <3>1. TakesIn(key, parent, mode, dates)
      BY <1>8, <2>2 DEF TakesIn
    <3> QED
      BY <1>1, <1>8, <2>2, <3>1 DEF Enqueue
  <2> QED
    BY <1>8, <2>1, <2>2 DEF Enqueue
<1>9. CASE OperatorEnqueue
  <2>1. PICK q \in Requests : Enqueue("manual", q.mode, <<"request", q.key>>, NoRun, q.dates)
    BY <1>9 DEF OperatorEnqueue
  <2> QED
    BY <1>8, <2>1, RequestsAssumption DEF RequestsAssumption
<1>10. CASE SchedulerTick
  <2>1. PICK q \in Requests : Enqueue("scheduled", q.mode, <<"request", q.key>>, NoRun, q.dates)
    BY <1>10 DEF SchedulerTick
  <2> QED
    BY <1>8, <2>1, RequestsAssumption DEF RequestsAssumption
<1>11. CASE OperatorRetry
  <2>1. PICK r \in Runs : \E dates :
            Enqueue("manual", "retry", <<"retry", r, generation, dates>>, r, dates)
    BY <1>11 DEF OperatorRetry
  <2>2. PICK dates : Enqueue("manual", "retry", <<"retry", r, generation, dates>>, r, dates)
    BY <2>1
  <2> QED
    BY <1>8, <2>2
<1>12. CASE ~(BootLink \/ BootLinkDeferred \/ PumpLinkDeferred \/ OperatorEnqueue \/ SchedulerTick
              \/ OperatorRetry)
  <2>1. nextId' = nextId
    BY <1>12 DEF Next, System, Boot, Pump, Work, Shutdown, Operator, Clock, Failure, BootRecover,
       BootUp, PumpExit, PumpThrow, PumpNothing, PumpClaim, PumpNext, StopBeforeDate, BeginDate,
       MarkNext, NoMoreDates, WorkerReturn, DegradeDate, HandleStopped, HandleThrown, HandleAuth,
       HandleDone, FinishRun, BeginRegistry, RegistryReturn, FinishRegistry, StopSettled,
       StopDeadline, Exit, CancelQueued, CancelRunning, SetScheduling, Reconnect, BindConnection,
       StopBegin, Crash, RunThrows, DegradeThrows, UnchangedByRun, vars, durable
  <2> QED
    BY <2>1
<1> QED
  BY <1>6, <1>7, <1>9, <1>10, <1>11, <1>12

----------------------------------------------------------------------------
(* The executed run.                                                       *)

\* What a step does to the coroutine: it is between runs, claims one, is left at
\* its place, or moves on with the run it executes.
Waits == /\ exec.pc \notin {"idle", "loop"}
         /\ exec'.run = exec.run
         /\ exec'.pc = exec.pc
         /\ exec'.todo = exec.todo
         /\ exec'.date = exec.date
         /\ exec'.result = exec.result

\* It comes to its next date, before or after the fetch it is to wait for.
Begins == /\ BeginDate
          /\ exec'.pc \in {"fetching", "returned"}
          /\ exec'.date \in exec.todo
          /\ exec'.todo = exec.todo \ {exec'.date}
          /\ exec'.result \in {"none", "done"}

\* The worker of its date answers.
Answers == /\ \E o \in Outcomes : WorkerReturn(o)
           /\ exec'.pc \in {"committed", "returned"}
           /\ exec'.todo = exec.todo
           /\ exec'.date = exec.date
           /\ exec'.pc = "returned" /\ exec'.result \in {"cancelled", "threw"} => UNCHANGED accepted

\* The second write of a committed date returns or throws.
Lowers == /\ exec.pc = "committed"
          /\ exec'.pc = "returned"
          /\ exec'.todo = exec.todo
          /\ exec'.date = exec.date
          /\ exec'.result \in {"cancelled", "threw"} => DegradeThrows

\* It leaves its date, for the next one or for its end.
Leaves == /\ exec'.pc \in {"dispatch", "marking", "finish", "finished"}
          /\ exec'.todo \subseteq exec.todo
          /\ exec'.pc = "finish" => NoMoreDates

\* It refreshes the registry.
Refreshes == /\ ~DateRun
             /\ exec'.pc \in {"fetching", "returned"}
             /\ exec'.todo = exec.todo
             /\ exec'.pc = "returned" => exec'.result \in {"refused", "published"}

ExecStep ==
    \/ exec'.pc \in {"idle", "loop"}
    \/ PumpClaim
    \/ Waits
    \/ /\ Executing
       /\ exec'.run = exec.run
       /\ Begins \/ Answers \/ Lowers \/ Leaves \/ Refreshes

\* Every step moves the coroutine in one of these ways.
LEMMA ExecSteps ==
    ASSUME TypeInv, [Next]_vars
    PROVE  ExecStep
<1> USE DEF ExecRecord
<1>1. exec \in ExecRecord
  BY TypeTables DEF TypeInv
<1>2. CASE UNCHANGED exec
  BY <1>2 DEF ExecStep, Waits
<1>3. CASE Boot \/ Pump
  BY <1>2, <1>3 DEF Boot, BootRecover, BootLink, BootFail, BootLinkDeferred, BootUp, Pump, PumpExit,
     PumpLinkDeferred, PumpThrow, PumpNothing, PumpNext, LeavePump, NoExec, process, ExecStep
<1>4. CASE StopBeforeDate \/ NoMoreDates \/ HandleStopped \/ HandleThrown \/ HandleAuth \/ HandleDone
           \/ FinishRun \/ FinishRegistry \/ RunThrows
  <2>1. Executing
    BY <1>4 DEF StopBeforeDate, NoMoreDates, HandleStopped, HandleThrown, HandleAuth, HandleDone,
       FinishRun, FinishRegistry, RunThrows, Executing
  <2>2. /\ exec'.run = exec.run
        /\ exec'.pc \in {"dispatch", "marking", "finish", "finished"}
        /\ exec'.todo = exec.todo
        /\ exec'.pc = "finish" => NoMoreDates
    BY <1>1, <1>4 DEF StopBeforeDate, NoMoreDates, HandleStopped, HandleThrown, HandleAuth,
       HandleDone, FinishRun, FinishRegistry, RunThrows, StopDispatch
  <2> QED
    BY <2>1, <2>2 DEF ExecStep, Leaves
<1>5. CASE MarkNext
  <2>1. /\ Executing
        /\ exec'.run = exec.run
        /\ exec'.pc = "marking"
        /\ exec'.todo \subseteq exec.todo
    BY <1>1, <1>5 DEF MarkNext, Executing
  <2> QED
    BY <2>1 DEF ExecStep, Leaves
<1>6. CASE BeginDate
  <2>1. Lowest(exec.todo) \in exec.todo
    BY <1>1, <1>6, LowestIsIn, RunsAreNat DEF BeginDate
  <2>2. /\ Executing
        /\ exec'.run = exec.run
        /\ exec'.pc \in {"fetching", "returned"}
        /\ exec'.date = Lowest(exec.todo)
        /\ exec'.todo = exec.todo \ {Lowest(exec.todo)}
        /\ exec'.result \in {"none", "done"}
    BY <1>1, <1>6 DEF BeginDate, Executing
  <2> QED
    BY <1>6, <2>1, <2>2 DEF ExecStep, Begins
<1>7. ASSUME NEW o \in Outcomes, WorkerReturn(o)
      PROVE  ExecStep
  <2>1. /\ Executing
        /\ exec'.run = exec.run
        /\ exec'.pc \in {"committed", "returned"}
        /\ exec'.todo = exec.todo
        /\ exec'.date = exec.date
    BY <1>1, <1>7 DEF WorkerReturn, Returning, Executing
  <2>2. exec'.pc = "returned" /\ exec'.result \in {"cancelled", "threw"} => UNCHANGED accepted
    BY <1>1, <1>7 DEF WorkerReturn, Returning, Answer
  <2> QED
    BY <1>7, <2>1, <2>2 DEF ExecStep, Answers
<1>8. CASE DegradeDate \/ DegradeThrows
  <2>1. /\ Executing
        /\ exec'.run = exec.run
        /\ Lowers
    BY <1>1, <1>8 DEF DegradeDate, DegradeThrows, Returning, Lowers, Executing
  <2> QED
    BY <2>1 DEF ExecStep
<1>9. CASE BeginRegistry \/ RegistryReturn
  <2>1. /\ Executing
        /\ exec'.run = exec.run
        /\ Refreshes
    BY <1>1, <1>9 DEF BeginRegistry, RegistryReturn, Returning, Refreshes, Executing
  <2> QED
    BY <2>1 DEF ExecStep
<1>10. CASE Operator \/ SchedulerTick
  <2>1. CASE exec' = [NoExec EXCEPT !.pc = "loop"]
    BY <2>1 DEF NoExec, ExecStep
  <2>2. ASSUME NEW r \in Runs, CancelRunning(r)
        PROVE  ExecStep
    <3>1. CASE exec' = [exec EXCEPT !.aborted = TRUE]
      BY <1>1, <3>1 DEF ExecStep, Waits
    <3> QED
      BY <1>2, <2>2, <3>1 DEF CancelRunning
  <2> QED
    BY <1>2, <1>10, <2>1, <2>2 DEF Operator, OperatorEnqueue, OperatorRetry, SchedulerTick, Enqueue,
       TriggerPump, CancelQueued, SetScheduling, Reconnect, BindConnection, process
<1>11. CASE Shutdown \/ StopDeadline \/ StopBegin \/ Crash
  <2>1. CASE exec' = NoExec
    BY <2>1 DEF NoExec, ExecStep
  <2>2. CASE exec' = [exec EXCEPT !.aborted = TRUE]
    BY <1>1, <2>2 DEF ExecStep, Waits
  <2> QED
    BY <1>2, <1>11, <2>1, <2>2 DEF Shutdown, StopSettled, Exit, StopDeadline, StopBegin, Crash,
       ProcessGone
<1> QED
  BY <1>2, <1>3, <1>4, <1>5, <1>6, <1>7, <1>8, <1>9, <1>10, <1>11
     DEF Next, System, Work, Clock, Failure, vars, process

\* What a claim executes: a queued run, all of its dates.
LEMMA ClaimsQueued ==
    ASSUME TypeInv, PumpClaim
    PROVE  /\ exec'.run \in Runs
           /\ run[exec'.run].status = "queued"
           /\ exec'.pc = "dispatch"
           /\ exec'.todo = DatesOf(exec'.run)
           /\ UNCHANGED <<day, accepted, nextId>>
<1> DEFINE r == Lowest(IF QueuedManual # {} THEN QueuedManual ELSE Queued)
<1>1. r \in Queued
  BY LowestIsIn, RunsAreNat DEF PumpClaim, MayClaim, QueuedManual, Queued
<1>2. exec'.run = r /\ exec'.pc = "dispatch" /\ exec'.todo = DatesOf(r)
  BY DEF PumpClaim, NoExec
<1> QED
  BY <1>1, <1>2 DEF PumpClaim, Queued

\* A commit is of the date being fetched, for a run that has dates, and leaves it succeeded.
LEMMA Commits ==
    ASSUME TypeInv, [Next]_vars, NEW r \in Runs, NEW d \in Dates,
           <<r, d>> \in accepted', <<r, d>> \notin accepted
    PROVE  /\ r = exec.run
           /\ d = exec.date
           /\ exec.pc = "fetching"
           /\ DateRun
           /\ day'[r][d].status = "succeeded"
<1>1. PICK o \in Outcomes : WorkerReturn(o)
  BY OnlyReturnsCommit
<1>2. o \in {"complete", "degraded"} /\ accepted' = accepted \cup {<<exec.run, exec.date>>}
      /\ WriteDay(Written(o).status, Written(o).disposition)
  BY <1>1 DEF WorkerReturn
<1>3. r = exec.run /\ d = exec.date
  BY <1>2
<1>4. Written(o) = [status |-> "succeeded", disposition |-> "useful"]
  BY <1>2 DEF Written
<1>5. day' = [day EXCEPT ![r][d] = [status |-> "succeeded", disposition |-> "useful"]]
  BY <1>2, <1>3, <1>4 DEF WriteDay
<1>6. day'[r][d] = [status |-> "succeeded", disposition |-> "useful"]
  BY <1>5, TypeTables DEF TypeInv, DayTable
<1> QED
  BY <1>1, <1>3, <1>6 DEF WorkerReturn

\* While no database error has been thrown inside a run, neither has this step.
LEMMA NoFault ==
    ASSUME TypeInv, [Next]_vars, faults' = 0
    PROVE  faults = 0 /\ ~RunThrows /\ ~DegradeThrows
<1>1. faults \in Nat
  BY BoundsAssumption DEF TypeInv, WellFormed, BoundsAssumption
<1>2. RunThrows \/ DegradeThrows \/ UNCHANGED faults
  BY DEF Next, System, Boot, Pump, Work, Shutdown, Operator, Clock, Failure, BootRecover, BootLink,
     BootFail, BootLinkDeferred, BootUp, PumpExit, PumpLinkDeferred, PumpThrow, PumpNothing,
     PumpClaim, PumpNext, StopBeforeDate, BeginDate, MarkNext, NoMoreDates, WorkerReturn,
     DegradeDate, HandleStopped, HandleThrown, HandleAuth, HandleDone, FinishRun, BeginRegistry,
     RegistryReturn, FinishRegistry, StopSettled, StopDeadline, Exit, OperatorEnqueue,
     OperatorRetry, SchedulerTick, Enqueue, CancelQueued, CancelRunning, SetScheduling, Reconnect,
     BindConnection, StopBegin, Crash, vars, budgets
<1>3. RunThrows \/ DegradeThrows => faults' = faults + 1
  BY DEF RunThrows, DegradeThrows
<1> QED
  BY <1>1, <1>2, <1>3

----------------------------------------------------------------------------
(* The rows.                                                               *)

\* The dates of a run the coroutine is working on were its own before.
LEMMA AtExistingDate ==
    ASSUME AtOwnDates, NEW r \in Runs, NEW d \in Dates, r = exec.run,
           \/ d \in exec.todo /\ (MarkNext \/ BeginDate)
           \/ /\ d = exec.date /\ DateRun
              /\ (\E o \in Outcomes : WorkerReturn(o)) \/ DegradeDate \/ HandleStopped \/ HandleThrown
    PROVE  day[r][d].status # "none"
<1>1. CASE d \in exec.todo /\ (MarkNext \/ BeginDate)
  BY <1>1 DEF MarkNext, BeginDate, AtOwnDates, DatesOf
<1>2. CASE /\ d = exec.date /\ DateRun
           /\ (\E o \in Outcomes : WorkerReturn(o)) \/ DegradeDate \/ HandleStopped \/ HandleThrown
  <2>1. exec.pc \in {"fetching", "committed", "returned"}
    BY <1>2 DEF WorkerReturn, DegradeDate, HandleStopped, HandleThrown
  <2> QED
    BY <1>2, <2>1 DEF AtOwnDates, DatesOf
<1> QED
  BY <1>1, <1>2

\* A date nobody had is written only by an insertion.
LEMMA BlankCell ==
    ASSUME TypeInv, DatePhases, AtOwnDates, [Next]_vars, NEW r \in Runs, NEW d \in Dates,
           day[r][d].status = "none"
    PROVE  \/ day'[r][d] = day[r][d]
           \/ /\ r = nextId /\ nextId' = nextId + 1 /\ run'[r].status = "queued"
              /\ day'[r][d].status \in {"none", "pending"}
<1>1. CellStep(r, d)
  BY CellSteps
<1> QED
  BY <1>1, AtExistingDate DEF CellStep

\* Ids not given out stay blank.
LEMMA BlankRowsStep ==
    ASSUME TypeInv, OwnershipInv, DatePhases, RowsInv, [Next]_vars
    PROVE  BlankRows'
<1> SUFFICES ASSUME NEW r \in Runs, run'[r].status = "none"
             PROVE  /\ run'[r].key = <<>>
                    /\ run'[r].parent = NoRun
                    /\ \A d \in Dates : day'[r][d].status = "none"
  BY DEF BlankRows
<1>1. run'[r] = run[r]
  <2>1. run[r] \in RunRow
    BY TypeTables DEF TypeInv, RunTable
  <2>2. RowStep(r)
    BY RowSteps
  <2> QED
    BY <2>1, <2>2 DEF RowStep, RunRow, TerminalRun
<1>2. ASSUME NEW d \in Dates
      PROVE  day'[r][d].status = "none"
  <2>1. day[r][d].status = "none"
    BY <1>1 DEF RowsInv, BlankRows
  <2> QED
    BY <2>1, BlankCell DEF RowsInv
<1> QED
  BY <1>1, <1>2 DEF RowsInv, BlankRows

\* An inserted registry run has no dates, and an old one gets none.
LEMMA RegistryDatelessStep ==
    ASSUME TypeInv, IdInv, OwnershipInv, DatePhases, RowsInv, ToLinkInterrupted, [Next]_vars
    PROVE  RegistryDateless'
<1> SUFFICES ASSUME NEW r \in Runs, run'[r].mode = "registry", NEW d \in Dates
             PROVE  day'[r][d].status = "none"
  BY DEF RegistryDateless
<1>1. run \in RunTable /\ day \in DayTable
  BY TypeTables DEF TypeInv
<1>2. ASSUME r # nextId \/ nextId' = nextId
      PROVE  day'[r][d].status = "none"
  <2>1. run[r].mode = "registry"
    BY <1>2, KeptRow
  <2>2. day[r][d].status = "none"
    BY <2>1 DEF RowsInv, RegistryDateless
  <2>3. DatesOf(r)' = DatesOf(r)
    BY <1>2, KeptDates DEF RowsInv
  <2> QED
    BY <2>2, <2>3 DEF DatesOf
<1>3. ASSUME r = nextId, NEW trigger, NEW mode, NEW key, NEW parent, NEW dates,
             InsertRun(trigger, mode, key, parent, dates), mode = "registry" => dates = {}
      PROVE  day'[r][d].status = "none"
  <2>1. run'[r].mode = mode
    BY <1>1, <1>3 DEF InsertRun, RunTable
  <2>2. day'[r] = [x \in Dates |-> IF x \in dates THEN [status |-> "pending", disposition |-> "none"]
                                                  ELSE NoDay]
    BY <1>1, <1>3 DEF InsertRun, DayTable
  <2> QED
    BY <1>3, <2>1, <2>2 DEF NoDay
<1>4. ASSUME r = nextId, NEW p \in Runs, Links(p)
      PROVE  day'[r][d].status = "none"
  BY <1>3, <1>4 DEF Links, InsertLinkedRetry
<1>5. ASSUME r = nextId, NEW key, NEW parent, NEW mode, NEW dates, TakesIn(key, parent, mode, dates)
      PROVE  day'[r][d].status = "none"
  BY <1>3, <1>5 DEF TakesIn
<1> QED
  BY <1>2, <1>4, <1>5, Insertions

\* The executed run is not queued.
LEMMA ExecutedNotQueued ==
    ASSUME OwnershipInv, Executing
    PROVE  run[exec.run].status \notin {"none", "queued"}
BY DEF OwnershipInv, ExecInv, ExecutingStatus

\* The dates of a queued run wait for its claim.
LEMMA QueuedPendingStep ==
    ASSUME TypeInv, IdInv, OwnershipInv, DatePhases, RowsInv, [Next]_vars
    PROVE  QueuedPending'
<1> SUFFICES ASSUME NEW r \in Runs, run'[r].status = "queued", NEW d \in Dates
             PROVE  day'[r][d].status \in {"none", "pending"}
  BY DEF QueuedPending
<1>1. run[r] \in RunRow
  BY TypeTables DEF TypeInv, RunTable
<1>2. RowStep(r)
  BY RowSteps
<1>3. CASE r = nextId /\ nextId' = nextId + 1
  <2>1. day[r][d].status = "none"
    BY <1>3, NextIsBlank DEF RowsInv, BlankRows
  <2> QED
    BY <2>1, BlankCell DEF RowsInv
<1>4. CASE run'[r] = run[r] /\ run[r].status = "queued"
  <2>1. day[r][d].status \in {"none", "pending"}
    BY <1>4 DEF RowsInv, QueuedPending
  <2>2. ~(r = exec.run /\ Executing)
    BY <1>4, ExecutedNotQueued
  <2>3. ~Sweeps(r)
    <3>1. ~CancelQueued(r)
      <4>1. CancelQueued(r) => run'[r].status = "cancelled"
        BY TypeTables, WithStatusStatus DEF CancelQueued, TypeInv
      <4> QED
        BY <1>4, <4>1
    <3> QED
      BY <1>4, <2>2, <3>1 DEF Sweeps, NoMoreDates, StopDeadline, Executing
  <2>4. CellStep(r, d)
    BY CellSteps
  <2>5. MarkNext \/ BeginDate \/ (\E o \in Outcomes : WorkerReturn(o)) \/ DegradeDate
        \/ HandleStopped \/ HandleThrown => Executing
    BY DEF MarkNext, BeginDate, WorkerReturn, DegradeDate, HandleStopped, HandleThrown, Executing
  <2> QED
    BY <2>1, <2>2, <2>3, <2>4, <2>5 DEF CellStep
<1> QED
  BY <1>1, <1>2, <1>3, <1>4 DEF RowStep, RunRow, TerminalRun

\* The executed run goes on with dates of its own.
LEMMA AtOwnDatesStep ==
    ASSUME TypeInv, IdInv, OwnershipInv, DatePhases, RowsInv, [Next]_vars
    PROVE  AtOwnDates'
<1> SUFFICES ASSUME exec'.pc \notin {"idle", "loop"}
             PROVE  /\ exec'.todo \subseteq DatesOf(exec.run)'
                    /\ exec'.pc \in {"fetching", "committed", "returned"} /\ DateRun' =>
                           exec'.date \in DatesOf(exec.run)' \ exec'.todo
  BY DEF AtOwnDates, DatesOf
<1>1. CASE PumpClaim
  <2>1. DatesOf(exec.run)' = DatesOf(exec'.run)
    BY <1>1, ClaimsQueued DEF DatesOf
  <2> QED
    BY <1>1, <2>1, ClaimsQueued
<1>2. ASSUME exec.pc \notin {"idle", "loop"}, exec'.run = exec.run, exec'.todo \subseteq exec.todo,
             exec'.pc \in {"fetching", "committed", "returned"} =>
                 \/ exec.pc \in {"fetching", "committed", "returned"} /\ exec'.date = exec.date
                 \/ exec'.date \in exec.todo \ exec'.todo
                 \/ ~DateRun
      PROVE  /\ exec'.todo \subseteq DatesOf(exec.run)'
             /\ exec'.pc \in {"fetching", "committed", "returned"} /\ DateRun' =>
                    exec'.date \in DatesOf(exec.run)' \ exec'.todo
  <2>1. PICK r : r = exec.run
    OBVIOUS
  <2>2. r \in Runs /\ r # nextId
    BY <1>2, <2>1, OldExecuted
  <2>3. DatesOf(r)' = DatesOf(r) /\ run'[r].mode = run[r].mode
    BY <2>2, KeptDates, KeptRow DEF RowsInv
  <2>4. DatesOf(exec.run)' = DatesOf(r)
    BY <1>2, <2>1, <2>3 DEF DatesOf
  <2>5. DateRun' <=> DateRun
    BY <1>2, <2>1, <2>3 DEF DateRun
  <2>6. exec.todo \subseteq DatesOf(r)
    BY <1>2, <2>1 DEF RowsInv, AtOwnDates
  <2>7. exec.pc \in {"fetching", "committed", "returned"} /\ DateRun => exec.date \in DatesOf(r) \ exec.todo
    BY <1>2, <2>1 DEF RowsInv, AtOwnDates
  <2> QED
    BY <1>2, <2>4, <2>5, <2>6, <2>7
<1>3. CASE Waits
  BY <1>2, <1>3 DEF Waits
<1>4. CASE Executing /\ exec'.run = exec.run /\ (Begins \/ Answers \/ Lowers \/ Leaves \/ Refreshes)
  <2>1. exec.pc \notin {"idle", "loop"}
    BY <1>4 DEF Executing
  <2>2. CASE Begins
    BY <1>2, <1>4, <2>1, <2>2 DEF Begins
  <2>3. CASE Answers \/ Lowers
    BY <1>2, <1>4, <2>1, <2>3 DEF Answers, Lowers, WorkerReturn
  <2>4. CASE Leaves \/ Refreshes
    BY <1>2, <1>4, <2>1, <2>4 DEF Leaves, Refreshes
  <2> QED
    BY <1>4, <2>2, <2>3, <2>4
<1> QED
  BY <1>1, <1>3, <1>4, ExecSteps DEF ExecStep

----------------------------------------------------------------------------
(* Terminal runs have terminal dates.                                      *)

\* A finished date is not begun again, unless its run is executing and up.
LEMMA SettledCell ==
    ASSUME TypeInv, DatePhases, [Next]_vars, NEW r \in Runs, NEW d \in Dates, r # nextId,
           day[r][d].status \notin {"pending", "running"}, ~(r = exec.run /\ BeginDate)
    PROVE  day'[r][d].status \notin {"pending", "running"}
<1>1. CellStep(r, d)
  BY CellSteps
<1> QED
  BY <1>1 DEF CellStep, TerminalDay

\* A sweep leaves no unfinished date.
LEMMA SweptRun ==
    ASSUME day \in DayTable, NEW r \in Runs, NEW s, s \notin {"pending", "running"},
           day'[r] = MarkedUnfinished(r, s)[r], NEW d \in Dates
    PROVE  day'[r][d].status \notin {"pending", "running"}
BY SweptCell

\* A run becomes terminal with its dates: swept with it, or swept before it.
LEMMA TerminalDatesStep ==
    ASSUME TypeInv, IdInv, OwnershipInv, DatePhases, RowsInv, [Next]_vars,
           ~RunThrows, TerminalRunHasTerminalDates, SweptDates
    PROVE  TerminalRunHasTerminalDates'
<1> SUFFICES ASSUME NEW r \in Runs, run'[r].status \in TerminalRun, NEW d \in Dates
             PROVE  day'[r][d].status \notin {"pending", "running"}
  BY DEF TerminalRunHasTerminalDates
<1>1. run[r] \in RunRow /\ day \in DayTable
  BY TypeTables DEF TypeInv, RunTable
<1>2. RowStep(r)
  BY RowSteps
<1>3. CASE run'[r] = run[r]
  <2>1. r # nextId
    BY <1>3, OldRun DEF TerminalRun
  <2>2. day[r][d].status \notin {"pending", "running"}
    BY <1>3 DEF TerminalRunHasTerminalDates
  <2>3. ~(r = exec.run /\ BeginDate)
    <3>1. ASSUME r = exec.run, BeginDate
          PROVE  FALSE
      <4>1. Executing /\ ~Stopping
        BY <3>1 DEF BeginDate, AbortSeen, Executing
      <4>2. run[r].status = "running"
        BY <3>1, <4>1 DEF OwnershipInv, ExecInv, ExecutingStatus, Stopping
      <4> QED
        BY <1>3, <4>2 DEF TerminalRun
    <3> QED
      BY <3>1
  <2> QED
    BY <2>1, <2>2, <2>3, SettledCell
<1>4. CASE CancelQueued(r) \/ (BootRecover /\ run[r].status = "running")
  <2>1. \E s \in {"cancelled", "interrupted"} : day'[r] = MarkedUnfinished(r, s)[r]
    BY <1>4 DEF CancelQueued, BootRecover, Running
  <2> QED
    BY <1>1, <2>1, SweptRun
<1>5. CASE r = exec.run /\ StopDeadline
  <2>1. day'[r] = MarkedUnfinished(r, "interrupted")[r]
    BY <1>5 DEF StopDeadline
  <2> QED
    BY <1>1, <2>1, SweptRun
<1>6. CASE r = exec.run /\ FinishRun
  BY <1>6 DEF FinishRun, SweptDates
<1>7. CASE r = exec.run /\ FinishRegistry
  BY <1>7 DEF FinishRegistry, DateRun, RowsInv, RegistryDateless
<1> QED
  BY <1>1, <1>2, <1>3, <1>4, <1>5, <1>6, <1>7 DEF RowStep, RunRow, TerminalRun

\* The sweep at the end of a run is not undone before its outcome is written.
LEMMA SweptDatesStep ==
    ASSUME TypeInv, IdInv, OwnershipInv, DatePhases, RowsInv, [Next]_vars, SweptDates
    PROVE  SweptDates'
<1> SUFFICES ASSUME exec'.pc = "finish", NEW d \in Dates
             PROVE  day'[exec'.run][d].status \notin {"pending", "running"}
  BY DEF SweptDates
<1>1. PICK r : r = exec.run
  OBVIOUS
<1>2. Waits \/ NoMoreDates
  BY ExecSteps DEF ExecStep, ClaimsQueued, PumpClaim, NoExec, Begins, Answers, Lowers, Leaves, Refreshes
<1>3. exec.pc \notin {"idle", "loop"} /\ exec'.run = r
  BY <1>1, <1>2, TypeTables DEF Waits, NoMoreDates, TypeInv, ExecRecord
<1>4. r \in Runs /\ r # nextId /\ day \in DayTable
  BY <1>1, <1>3, OldExecuted, TypeTables DEF TypeInv
<1>5. CASE NoMoreDates
  <2>1. \E s \in {"cancelled", "interrupted", "skipped"} : day' = MarkedUnfinished(r, s)
    BY <1>1, <1>5 DEF NoMoreDates
  <2> QED
    BY <1>3, <1>4, <2>1, SweptRun
<1>6. CASE Waits
  <2>1. exec.pc = "finish" /\ ~BeginDate
    BY <1>6 DEF Waits, BeginDate
  <2>2. day[r][d].status \notin {"pending", "running"}
    BY <1>1, <2>1 DEF SweptDates
  <2> QED
    BY <1>3, <1>4, <2>1, <2>2, SettledCell
<1> QED
  BY <1>2, <1>5, <1>6

----------------------------------------------------------------------------
(* Committed dates.                                                        *)

\* A committed date keeps its commit: nothing rewrites it but the worker that
\* lowers it to partial.
LEMMA CommittedStays ==
    ASSUME TypeInv, IdInv, DatePhases, RowsInv, [Next]_vars, CommittedDates,
           NEW r \in Runs, NEW d \in Dates, <<r, d>> \in accepted'
    PROVE  day'[r][d].status \in {"succeeded", "partial"}
<1>1. CASE <<r, d>> \notin accepted
  BY <1>1, Commits
<1>2. CASE <<r, d>> \in accepted
  <2>1. day[r][d].status \in {"succeeded", "partial"}
    BY <1>2 DEF CommittedDates
  <2>2. CellStep(r, d)
    BY CellSteps
  <2>3. ~(r = nextId /\ nextId' = nextId + 1)
    BY <2>1, NextIsBlank DEF RowsInv, BlankRows
  <2>4. ~(r = exec.run /\ d \in exec.todo /\ (MarkNext \/ BeginDate))
    BY <1>2 DEF CommittedDates, MarkNext, BeginDate
  <2>5. CASE r = exec.run /\ d = exec.date /\ DegradeDate
    <3>1. day' = [day EXCEPT ![r][d] = [status |-> "partial", disposition |-> "useful"]]
      BY <2>5 DEF DegradeDate, WriteDay
    <3>2. day'[r][d] = [status |-> "partial", disposition |-> "useful"]
      BY <3>1, TypeTables DEF TypeInv, DayTable
    <3> QED
      BY <3>2
  <2>6. ~(/\ r = exec.run /\ d = exec.date
          /\ (\E o \in Outcomes : WorkerReturn(o)) \/ HandleStopped \/ HandleThrown)
    BY <1>2 DEF CommittedDates, WorkerReturn, HandleStopped, HandleThrown
  <2> QED
    BY <2>1, <2>2, <2>3, <2>4, <2>5, <2>6 DEF CellStep
<1> QED
  BY <1>1, <1>2

\* The executed run comes to no committed date.
LEMMA TodoUncommitted ==
    ASSUME TypeInv, IdInv, OwnershipInv, DatePhases, RowsInv, [Next]_vars, CommittedDates,
           exec'.pc \notin {"idle", "loop"}, NEW d \in exec'.todo
    PROVE  <<exec'.run, d>> \notin accepted'
<1>1. CASE PumpClaim
  <2>1. PICK r : r = exec'.run
    OBVIOUS
  <2>2. r \in Runs /\ run[r].status = "queued" /\ d \in DatesOf(r) /\ accepted' = accepted
    BY <1>1, <2>1, ClaimsQueued
  <2>3. day[r][d].status \in {"none", "pending"} /\ d \in Dates
    BY <2>2 DEF RowsInv, QueuedPending, DatesOf
  <2>4. <<r, d>> \notin accepted
    BY <2>2, <2>3 DEF CommittedDates
  <2> QED
    BY <2>1, <2>2, <2>4
<1>2. CASE exec.pc \notin {"idle", "loop"} /\ exec'.run = exec.run /\ exec'.todo \subseteq exec.todo
  <2>1. PICK r : r = exec.run
    OBVIOUS
  <2>2. r \in Runs /\ d \in exec.todo /\ d \in Dates
    BY <1>2, <2>1, OldExecuted, TypeTables DEF TypeInv, ExecRecord
  <2>3. <<r, d>> \notin accepted
    BY <1>2, <2>1, <2>2 DEF CommittedDates
  <2>4. ~(d = exec.date /\ exec.pc = "fetching" /\ DateRun)
    BY <2>2 DEF RowsInv, AtOwnDates
  <2>5. <<r, d>> \notin accepted'
    BY <2>2, <2>3, <2>4, Commits
  <2> QED
    BY <1>2, <2>1, <2>5
<1> QED
  BY <1>1, <1>2, ExecSteps DEF ExecStep, Waits, Begins, Answers, Lowers, Leaves, Refreshes, Executing

\* The date being fetched, or given up, is not committed.
LEMMA DateUncommitted ==
    ASSUME TypeInv, IdInv, OwnershipInv, DatePhases, RowsInv, [Next]_vars, CommittedDates,
           ~DegradeThrows,
           \/ exec'.pc = "fetching" /\ DateRun'
           \/ exec'.pc = "returned" /\ exec'.result \in {"cancelled", "threw"}
    PROVE  <<exec'.run, exec'.date>> \notin accepted'
<1>1. exec.pc \notin {"idle", "loop"} /\ exec'.run = exec.run
      /\ (Waits \/ Begins \/ Answers \/ Lowers \/ Refreshes)
  BY ExecSteps DEF ExecStep, Waits, Leaves, Executing, PumpClaim, NoExec
<1>2. PICK r : r = exec.run
  OBVIOUS
<1>3. r \in Runs /\ r # nextId
  BY <1>1, <1>2, OldExecuted
<1>4. DateRun' <=> DateRun
  BY <1>1, <1>2, <1>3, KeptRow DEF DateRun
<1>5. CASE Begins
  <2>1. exec'.date \in exec.todo /\ accepted' = accepted
    BY <1>5 DEF Begins, BeginDate
  <2> QED
    BY <1>1, <2>1 DEF CommittedDates
<1>6. CASE Answers
  <2>1. exec'.date = exec.date /\ accepted' = accepted /\ exec.pc = "fetching" /\ DateRun
    BY <1>6 DEF Answers, WorkerReturn
  <2> QED
    BY <1>1, <2>1 DEF CommittedDates
<1>7. CASE Waits
  <2>1. \/ exec.pc = "fetching" /\ DateRun
        \/ exec.pc = "returned" /\ exec.result \in {"cancelled", "threw"}
    BY <1>4, <1>7 DEF Waits
  <2>2. <<exec.run, exec.date>> \notin accepted
    BY <2>1 DEF CommittedDates
  <2>3. ~(\E o \in Outcomes : WorkerReturn(o))
    BY <1>7, TypeTables DEF Waits, WorkerReturn, Returning, TypeInv, ExecRecord
  <2>4. accepted' = accepted
    BY <2>3, OnlyReturnsCommit
  <2> QED
    BY <1>7, <2>2, <2>4 DEF Waits
<1>8. CASE Lowers \/ Refreshes
  BY <1>4, <1>8 DEF Lowers, Refreshes
<1> QED
  BY <1>1, <1>5, <1>6, <1>7, <1>8

----------------------------------------------------------------------------
(* Recovery.                                                               *)

\* The start links only what it interrupted, and nothing touches those meanwhile.
LEMMA ToLinkStep ==
    ASSUME TypeInv, IdInv, OwnershipInv, ToLinkInterrupted, [Next]_vars
    PROVE  ToLinkInterrupted'
<1> USE DEF ToLinkInterrupted
<1>1. run \in RunTable
  BY TypeTables DEF TypeInv
<1>2. CASE BootRecover
  BY <1>1, <1>2 DEF BootRecover, Running, RunTable, RunRow
<1>3. CASE toLink' = {}
  BY <1>3
<1>4. ASSUME toLink' \subseteq toLink, svc' = svc, svc = "recovering"
      PROVE  ToLinkInterrupted'
  <2>1. ~Executing
    BY <1>4 DEF OwnershipInv, OwnInv, DownIsIdle, Executing
  <2>2. ASSUME NEW r \in toLink
        PROVE  run'[r].status = "interrupted"
    <3>1. r \in Runs /\ run[r].status = "interrupted"
      BY <2>2, TypeTables DEF TypeInv
    <3>2. r # nextId
      BY <3>1, OldRun
    <3>3. ~(FinishRun \/ FinishRegistry \/ RunThrows \/ StopDeadline)
      BY <2>1 DEF FinishRun, FinishRegistry, RunThrows, StopDeadline, Executing
    <3>4. run'[r] = run[r]
      BY <3>1, <3>2, <3>3, RowSteps DEF RowStep, CancelQueued
    <3> QED
      BY <3>1, <3>4
  <2> QED
    BY <1>4, <2>2
<1>5. CASE toLink = {} /\ UNCHANGED toLink
  BY <1>5
<1>6. \/ BootRecover
      \/ toLink' = {}
      \/ toLink' \subseteq toLink /\ svc' = svc
      \/ UNCHANGED toLink /\ svc # "recovering"
  BY DEF Next, System, Boot, Pump, Work, Shutdown, Operator, Clock, Failure, BootLink, BootFail,
     BootLinkDeferred, BootUp, PumpExit, PumpLinkDeferred, PumpThrow, PumpNothing, PumpClaim,
     PumpNext, StopBeforeDate, BeginDate, MarkNext, NoMoreDates, WorkerReturn, DegradeDate,
     HandleStopped, HandleThrown, HandleAuth, HandleDone, FinishRun, BeginRegistry,
     RegistryReturn, FinishRegistry, StopSettled, StopDeadline, Exit, ProcessGone,
     OperatorEnqueue, OperatorRetry, SchedulerTick, Enqueue, CancelQueued, CancelRunning,
     SetScheduling, Reconnect, BindConnection, StopBegin, Crash, RunThrows, DegradeThrows,
     UnchangedByRun, Up, vars, process
<1> QED
  BY <1>2, <1>3, <1>4, <1>5, <1>6

\* The row recovery inserts.
LEMMA LinkedRow ==
    ASSUME TypeInv, IdInv, RowsInv, NEW c \in Runs, c = nextId, NEW p \in Runs, Links(p)
    PROVE  /\ run'[c].key = <<"recovery", p>>
           /\ run'[c].parent = p
           /\ DatesOf(c)' = UnfinishedDates(p)
           /\ p # c /\ p < c
           /\ \A r \in Runs \ {c} : run'[r] = run[r] /\ day'[r] = day[r]
<1>1. run \in RunTable /\ day \in DayTable
  BY TypeTables DEF TypeInv
<1>2. PICK trigger, mode, dates :
          /\ InsertRun(trigger, mode, <<"recovery", p>>, p, dates)
          /\ dates = IF run[p].mode = "registry" THEN {} ELSE UnfinishedDates(p)
  BY DEF Links, InsertLinkedRetry
<1>3. /\ \A r \in Runs : r # nextId => run'[r] = run[r] /\ day'[r] = day[r]
      /\ run'[nextId] = [status |-> "queued", trigger |-> trigger, mode |-> mode,
                         key |-> <<"recovery", p>>, parent |-> p, cancelRequested |-> FALSE]
  BY <1>1, <1>2, InsertRunRow
<1>4. day'[c] = [x \in Dates |-> IF x \in dates THEN [status |-> "pending", disposition |-> "none"]
                                                ELSE NoDay]
  BY <1>1, <1>2 DEF InsertRun, DayTable
<1>5. dates = UnfinishedDates(p)
  <2>1. run[p].mode = "registry" => UnfinishedDates(p) = {}
    BY DEF RowsInv, RegistryDateless, UnfinishedDates
  <2> QED
    BY <1>2, <2>1
<1>6. DatesOf(c)' = UnfinishedDates(p)
  BY <1>4, <1>5 DEF DatesOf, NoDay, UnfinishedDates
<1>7. p # c /\ p < c
  BY OldRun DEF Links
<1> QED
  BY <1>3, <1>6, <1>7

\* The row intake inserts is nobody's recovery.
LEMMA TakenRow ==
    ASSUME TypeInv, nextId \in Runs, NEW key, NEW parent, NEW mode, NEW dates,
           TakesIn(key, parent, mode, dates)
    PROVE  /\ \/ run'[nextId].key[1] = "request" /\ run'[nextId].parent = NoRun
              \/ run'[nextId].key[1] = "retry"
           /\ \A p : run'[nextId].key # <<"recovery", p>>
           /\ \A r \in Runs \ {nextId} : run'[r] = run[r] /\ day'[r] = day[r]
<1>1. PICK trigger : InsertRun(trigger, mode, key, parent, dates)
  BY DEF TakesIn
<1>2. /\ \A r \in Runs : r # nextId => run'[r] = run[r] /\ day'[r] = day[r]
      /\ run'[nextId] = [status |-> "queued", trigger |-> trigger, mode |-> mode,
                         key |-> key, parent |-> parent, cancelRequested |-> FALSE]
  BY <1>1, InsertRunRow, TypeTables DEF TypeInv
<1>3. \A p : key # <<"recovery", p>>
  BY DEF TakesIn
<1> QED
  BY <1>2, <1>3 DEF TakesIn

\* A run with a parent is a retry of the operator or of recovery.
LEMMA LinkedRowsStep ==
    ASSUME TypeInv, IdInv, OwnershipInv, DatePhases, RowsInv, RecoveryInv, [Next]_vars
    PROVE  LinkedRows'
<1> SUFFICES ASSUME NEW c \in Runs, NEW p \in Runs, run'[c].parent = p
             PROVE  run'[c].key = <<"recovery", p>> \/ run'[c].key[1] = "retry"
  BY DEF LinkedRows
<1>1. CASE c # nextId \/ nextId' = nextId
  <2>1. run'[c].key = run[c].key /\ run'[c].parent = run[c].parent
    BY <1>1, KeptRow
  <2> QED
    BY <2>1 DEF RecoveryInv, LinkedRows
<1>2. ASSUME c = nextId, NEW q \in Runs, Links(q)
      PROVE  run'[c].key = <<"recovery", p>>
  <2>1. run'[c].key = <<"recovery", q>> /\ run'[c].parent = q
    BY <1>2, LinkedRow
  <2> QED
    BY <2>1
<1>3. ASSUME c = nextId, NEW key, NEW parent, NEW mode, NEW dates, TakesIn(key, parent, mode, dates)
      PROVE  run'[c].key[1] = "retry"
  <2>1. NoRun \notin Runs
    BY RunsAreNat DEF NoRun
  <2> QED
    BY <1>3, <2>1, TakenRow
<1> QED
  BY <1>1, <1>2, <1>3, Insertions DEF RecoveryInv

\* A recovered run is left as it was.
LEMMA RecoveredRests ==
    ASSUME TypeInv, IdInv, OwnershipInv, [Next]_vars, NEW p \in Runs,
           run[p].status = "interrupted", Executing => exec.run # p
    PROVE  /\ run'[p] = run[p]
           /\ day'[p] = day[p]
           /\ Executing' => exec'.run # p
<1>1. p # nextId
  BY OldRun
<1>2. FinishRun \/ FinishRegistry \/ RunThrows \/ StopDeadline \/ WritesDates => Executing
  BY DEF WritesDates, MarkNext, BeginDate, NoMoreDates, WorkerReturn, DegradeDate, HandleStopped,
     HandleThrown, StopDeadline, FinishRun, FinishRegistry, RunThrows, Executing
<1>3. run'[p] = run[p]
  BY <1>1, <1>2, RowSteps DEF RowStep, CancelQueued
<1>4. day'[p] = day[p]
  BY <1>1, <1>2, DatesSteps DEF DatesStep, CancelQueued
<1>5. ASSUME Executing', exec'.run = p
      PROVE  FALSE
  <2>1. CASE PumpClaim
    BY <1>5, <2>1, ClaimsQueued
  <2>2. CASE Waits
    BY <1>5, <2>2 DEF Waits, Executing
  <2> QED
    BY <1>5, <2>1, <2>2, ExecSteps DEF ExecStep, Executing
<1> QED
  BY <1>3, <1>4, <1>5

\* Recovery makes one retry of an interrupted run, and what it made of it stays true.
LEMMA RecoveredOnceStep ==
    ASSUME TypeInv, IdInv, OwnershipInv, DatePhases, RowsInv, RecoveryInv, [Next]_vars
    PROVE  RecoveredOnce'
<1> SUFFICES ASSUME NEW c \in Runs, NEW p \in Runs, run'[c].key = <<"recovery", p>>
             PROVE  Recovered(c, p)'
  BY DEF RecoveredOnce
<1>1. CASE c # nextId \/ nextId' = nextId
  <2>1. run'[c].key = run[c].key /\ run'[c].parent = run[c].parent
    BY <1>1, KeptRow
  <2>2. Recovered(c, p)
    BY <2>1 DEF RecoveryInv, RecoveredOnce
  <2>3. run'[p] = run[p] /\ day'[p] = day[p] /\ (Executing' => exec'.run # p)
    BY <2>2, RecoveredRests DEF Recovered
  <2>4. UnfinishedDates(p)' = UnfinishedDates(p)
    BY <2>3 DEF UnfinishedDates
  <2>5. DatesOf(c)' = DatesOf(c)
    BY <1>1, KeptDates DEF RowsInv
  <2>6. ASSUME NEW s \in Runs, run'[s].key = <<"recovery", p>>
        PROVE  s = c
    <3>1. CASE s # nextId \/ nextId' = nextId
      <4>1. run[s].key = <<"recovery", p>>
        BY <2>6, <3>1, KeptRow
      <4> QED
        BY <2>2, <4>1 DEF Recovered
    <3>2. ASSUME s = nextId, NEW q \in Runs, Links(q)
          PROVE  FALSE
      <4>1. run'[s].key = <<"recovery", q>>
        BY <3>2, LinkedRow
      <4>2. q = p
        BY <2>6, <4>1
      <4>3. run[c].status # "none"
        <5>1. run[c].key = <<"recovery", p>>
          BY <2>1
        <5> QED
          BY <5>1 DEF RowsInv, BlankRows
      <4> QED
        BY <2>2, <3>2, <4>2, <4>3 DEF Links, HasLinkedRetry, Recovered
    <3>3. ASSUME s = nextId, NEW key, NEW parent, NEW mode, NEW dates, TakesIn(key, parent, mode, dates)
          PROVE  FALSE
      BY <2>6, <3>3, TakenRow
    <3> QED
      BY <3>1, <3>2, <3>3, Insertions DEF RecoveryInv
  <2> QED
    BY <2>1, <2>2, <2>3, <2>4, <2>5, <2>6 DEF Recovered
<1>2. ASSUME c = nextId, NEW q \in Runs, Links(q)
      PROVE  Recovered(c, p)'
  <2>1. /\ run'[c].key = <<"recovery", q>>
        /\ run'[c].parent = q
        /\ DatesOf(c)' = UnfinishedDates(q)
        /\ q # c /\ q < c
        /\ \A r \in Runs \ {c} : run'[r] = run[r] /\ day'[r] = day[r]
    BY <1>2, LinkedRow
  <2>2. q = p
    BY <2>1
  <2>3. run'[p] = run[p] /\ day'[p] = day[p]
    BY <2>1, <2>2
  <2>4. UnfinishedDates(p)' = UnfinishedDates(p)
    BY <2>3 DEF UnfinishedDates
  <2>5. ASSUME NEW s \in Runs, run'[s].key = <<"recovery", p>>, s # c
        PROVE  FALSE
    <3>1. run[s].key = <<"recovery", p>>
      BY <2>1, <2>5
    <3>2. run[s].parent = p
      BY <3>1 DEF RecoveryInv, RecoveredOnce, Recovered
    <3>3. run[s].status # "none"
      BY <3>1 DEF RowsInv, BlankRows
    <3> QED
      BY <1>2, <2>2, <3>2, <3>3 DEF Links, HasLinkedRetry
  <2>6. run[p].status = "interrupted" /\ ~run[p].cancelRequested /\ ~Executing'
    BY <1>2, <2>2 DEF Links, Executing
  <2> QED
    BY <2>1, <2>2, <2>3, <2>4, <2>5, <2>6 DEF Recovered
<1>3. ASSUME c = nextId, NEW key, NEW parent, NEW mode, NEW dates, TakesIn(key, parent, mode, dates)
      PROVE  FALSE
  BY <1>3, TakenRow
<1> QED
  BY <1>1, <1>2, <1>3, Insertions DEF RecoveryInv

----------------------------------------------------------------------------
(* The theorems.                                                           *)

OutcomeInv == RowsInv /\ RecoveryInv /\ SettledInv /\ CommittedInv

\* The rows, the settled dates, the commits and what recovery made of them stay right.
LEMMA OutcomeInvariant == Spec => []OutcomeInv
<1>1. Init => OutcomeInv
  <2>1. Init => RowsInv
    BY DEF Init, RowsInv, BlankRows, RegistryDateless, QueuedPending, AtOwnDates, NoRow, NoDay, NoExec
  <2>2. Init => RecoveryInv
    BY RunsAreNat DEF Init, RecoveryInv, ToLinkInterrupted, LinkedRows, RecoveredOnce, NoRow, NoRun
  <2>3. Init => SettledInv /\ CommittedInv
    BY DEF Init, SettledInv, TerminalRunHasTerminalDates, SweptDates, CommittedInv, CommittedDates,
       NoRow, NoDay, NoExec, TerminalRun
  <2> QED
    BY <2>1, <2>2, <2>3 DEF OutcomeInv
<1>2. TypeInv /\ IdInv /\ OwnershipInv /\ DatePhases /\ OutcomeInv /\ [Next]_vars => OutcomeInv'
  <2> SUFFICES ASSUME TypeInv, IdInv, OwnershipInv, DatePhases, RowsInv, RecoveryInv, SettledInv,
                      CommittedInv, [Next]_vars
               PROVE  OutcomeInv'
    BY DEF OutcomeInv
  <2>1. RowsInv'
    BY BlankRowsStep, RegistryDatelessStep, QueuedPendingStep, AtOwnDatesStep DEF RowsInv, RecoveryInv
  <2>2. RecoveryInv'
    BY ToLinkStep, LinkedRowsStep, RecoveredOnceStep DEF RecoveryInv
  <2>3. SettledInv'
    BY NoFault, TerminalDatesStep, SweptDatesStep DEF SettledInv
  <2>4. CommittedInv'
    <3> SUFFICES ASSUME faults' = 0 PROVE CommittedDates'
      BY DEF CommittedInv
    <3>1. CommittedDates /\ ~DegradeThrows
      BY NoFault DEF CommittedInv
    <3>2. \A r \in Runs, d \in Dates : <<r, d>> \in accepted' => day'[r][d].status \in {"succeeded", "partial"}
      BY <3>1, CommittedStays
    <3>3. exec'.pc \notin {"idle", "loop"} => \A d \in exec'.todo : <<exec'.run, d>> \notin accepted'
      BY <3>1, TodoUncommitted
    <3> QED
      BY <3>1, <3>2, <3>3, DateUncommitted DEF CommittedDates
  <2> QED
    BY <2>1, <2>2, <2>3, <2>4 DEF OutcomeInv
<1> QED
  BY <1>1, <1>2, TypeInvariant, IdInvariant, ExecInvariant, DatePhasesInvariant, PTL DEF Spec

\* No run ends while one of its dates is still pending or running, whichever of
\* the pump, cancel(), stop() at its deadline and recovery ended it, as long as no
\* database error was thrown inside a run: the pump's catch leaves the dates open.
THEOREM TerminalDatesAreTerminal == Spec => [](faults = 0 => TerminalRunHasTerminalDates)
<1>1. OutcomeInv => (faults = 0 => TerminalRunHasTerminalDates)
  BY DEF OutcomeInv, SettledInv
<1> QED
  BY <1>1, OutcomeInvariant, PTL

\* The retry recovery makes of an interrupted run follows it, takes dates it left
\* unfinished and none it had committed, revives no cancelled work and is the only
\* one, as long as no database error came between a commit and its second write.
THEOREM RecoveryStaysExact == Spec => [](faults = 0 => RecoveryIsExact)
<1>1. TypeInv /\ OutcomeInv => (faults = 0 => RecoveryIsExact)
  <2> SUFFICES ASSUME TypeInv, OutcomeInv, faults = 0, NEW c \in Runs, NEW p, p = run[c].parent,
                      run[c].key = <<"recovery", p>>
               PROVE  /\ p < c
                      /\ run[p].status = "interrupted"
                      /\ ~IsRunCancelRequested(p)
                      /\ \A d \in DatesOf(c) : d \in DatesOf(p) /\ <<p, d>> \notin accepted
                      /\ \A s \in Runs \ {c} : run[s].key # run[c].key
    BY DEF RecoveryIsExact
  <2>1. p \in Runs
    <3>1. run[c].key \in Keys
      BY TypeTables DEF TypeInv, RunTable, RunRow
    <3>2. <<"recovery", p>> \in Keys => p \in Runs
      BY DEF Keys
    <3> QED
      BY <3>1, <3>2
  <2>2. Recovered(c, p)
    BY <2>1 DEF OutcomeInv, RecoveryInv, RecoveredOnce
  <2>3. ~IsRunCancelRequested(p)
    BY <2>2 DEF Recovered, IsRunCancelRequested
  <2>4. ASSUME NEW d \in DatesOf(c)
        PROVE  d \in DatesOf(p) /\ <<p, d>> \notin accepted
    <3>1. d \in Dates /\ day[p][d].status \in {"interrupted", "pending"}
      BY <2>2, <2>4 DEF Recovered, UnfinishedDates
    <3> QED
      BY <2>1, <3>1 DEF DatesOf, OutcomeInv, CommittedInv, CommittedDates
  <2> QED
    BY <2>2, <2>3, <2>4 DEF Recovered
<1> QED
  BY <1>1, TypeInvariant, OutcomeInvariant, PTL

\* When the process comes up with scheduling enabled, every unfinished date of every
\* interrupted run has a retry, however many crashes and stops cut recovery short.
THEOREM NothingIsForgotten == Spec => NothingForgottenAtBoot
<1> DEFINE Covered == svc = "recovering" /\ svc' = "up" /\ scheduling => \A r \in Runs : CoveredByRetry(r)
<1>1. OutcomeInv /\ [Next]_vars => [Covered]_vars
  <2> SUFFICES ASSUME OutcomeInv, [Next]_vars, svc = "recovering", svc' = "up", scheduling,
                      NEW r \in Runs
               PROVE  CoveredByRetry(r)
    OBVIOUS
  <2>1. BootUp
    BY DEF Next, System, Boot, Pump, Work, Shutdown, Operator, Clock, Failure, BootRecover, BootLink,
       BootFail, BootLinkDeferred, PumpExit, PumpLinkDeferred, PumpThrow, PumpNothing,
       PumpClaim, PumpNext, StopBeforeDate, BeginDate, MarkNext, NoMoreDates, WorkerReturn,
       DegradeDate, HandleStopped, HandleThrown, HandleAuth, HandleDone, FinishRun, BeginRegistry,
       RegistryReturn, FinishRegistry, StopSettled, StopDeadline, Exit, ProcessGone,
       OperatorEnqueue, OperatorRetry, SchedulerTick, Enqueue, CancelQueued, CancelRunning,
       SetScheduling, Reconnect, BindConnection, StopBegin, Crash, RunThrows, DegradeThrows,
       UnchangedByRun, Up, vars, process
  <2>2. Deferred = {}
    BY <2>1 DEF BootUp
  <2> SUFFICES ASSUME run[r].status = "interrupted", ~run[r].cancelRequested, ~RetriedByOperator(r),
                      NEW d \in UnfinishedDates(r)
               PROVE  \E c \in Runs : run[c].parent = r /\ d \in DatesOf(c)
    BY DEF CoveredByRetry
  <2>3. HasLinkedRetry(r)
    <3>1. ~DeservesRetry(r, TRUE)
      BY <2>2 DEF Deferred
    <3>2. ~IsRunCancelRequested(r)
      BY DEF IsRunCancelRequested
    <3> QED
      BY <3>1, <3>2 DEF DeservesRetry
  <2>4. PICK c \in Runs : run[c].parent = r
    BY <2>3 DEF HasLinkedRetry
  <2>5. run[c].key = <<"recovery", r>>
    BY <2>4 DEF OutcomeInv, RecoveryInv, LinkedRows, RetriedByOperator
  <2>6. d \in DatesOf(c)
    BY <2>5 DEF OutcomeInv, RecoveryInv, RecoveredOnce, Recovered
  <2> QED
    BY <2>4, <2>6
<1> QED
  BY <1>1, OutcomeInvariant, PTL DEF Spec, NothingForgottenAtBoot

=============================================================================
