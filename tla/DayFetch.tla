------------------------------- MODULE DayFetch -------------------------------
(* The reading of one day from WakaTime: its summary, then its heartbeats,    *)
(* then its durations, each only if the policy lets the endpoint be asked,    *)
(* all within one budget of time, and each ending in a result that says       *)
(* whether the layer is complete, restricted, failed or was skipped.  What    *)
(* the answers say is remembered in the policy.                               *)
EXTENDS CapabilityPolicy

CONSTANTS
  Documents,       \* summary documents the server may answer with
  Beats,           \* heartbeat documents the server may answer with
  Pinned,          \* the account's time zone
  Budget,          \* instants a day may take
  RetryAfters,     \* waits the server may ask for
  PlanLag,         \* instants by which the account's midnight follows the policy's
  PlanWindow,      \* days the account's plan lets read, or None for all
  Start, MaxTime   \* the first and the last instant of a behaviour

ASSUME FetchAssumption ==
  /\ {Budget, Start, MaxTime} \subseteq Nat /\ Start <= MaxTime /\ RetryAfters \subseteq Nat
  /\ PlanLag \in Int
  /\ PlanWindow \in (Nat \ {0}) \cup {None}

VARIABLES
  now,      \* the clock
  policy,   \* the capability policy
  fetch     \* the day being read

vars == <<now, policy, fetch>>

Skipped == [kind |-> "skipped"]
Restricted == [kind |-> "restricted"]
NoFetch == [at |-> "idle", date |-> None, since |-> 0, stopped |-> FALSE, durations |-> FALSE,
            summaries |-> Skipped, heartbeats |-> Skipped, durationsKind |-> "skipped"]

-----------------------------------------------------------------------------
(* The server.                                                                *)

(* The account's calendar decides what its plan refuses.                      *)
PlanRefuses(date) ==
  PlanWindow # None /\ date < (now - PlanLag) \div DayLength - (PlanWindow - 1)

(* What a request may end in: a document; 402 or 403; a Retry-After too long  *)
(* to wait for; an error that names a time to come back; an error that is     *)
(* remembered; and one that is not: an oversized body, or a timeout.          *)
Errors == {"refused", "deferred", "timed", "error", "quiet"}
Answers(error) == error = "refused" => PlanRefuses(fetch.date)

-----------------------------------------------------------------------------
(* Going on.  Each step asks the policy, then looks at the budget and at the  *)
(* caller's signal, and sends its request or has its result at once.          *)

Spent(f) == now - f.since >= Budget
Held(c, f) == ~ShouldAttempt(policy, c, f.date, now)

(* A layer that is held reports why.                                          *)
HeldAs(c, f) ==
  IF HoldReason(policy, c, f.date, now) \in {"date_restriction", "global_restriction", "throttle"}
  THEN Restricted ELSE Failed

IsZero(result) == result.kind = "complete" /\ result.value.zero
WantsDurations(f) ==
  f.durations /\ f.summaries.kind = "complete" /\ ~IsZero(f.summaries)

ToDurations(f) ==
  IF ~WantsDurations(f) THEN [f EXCEPT !.at = "done"]
  ELSE IF Held("durations", f)
       THEN [f EXCEPT !.at = "done", !.durationsKind = HeldAs("durations", f).kind]
  ELSE IF Spent(f) \/ f.stopped THEN [f EXCEPT !.at = "done"]
  ELSE [f EXCEPT !.at = "durations"]

ToHeartbeats(f) ==
  IF f.summaries.kind # "complete" \/ IsZero(f.summaries) THEN ToDurations(f)
  ELSE IF Held("heartbeats", f)
       THEN ToDurations([f EXCEPT !.heartbeats = HeldAs("heartbeats", f)])
  ELSE IF Spent(f) \/ f.stopped THEN ToDurations([f EXCEPT !.heartbeats = Failed])
  ELSE [f EXCEPT !.at = "heartbeats"]

ToSummaries(f) ==
  IF Held("summaries", f)
  THEN ToHeartbeats([f EXCEPT !.summaries = HeldAs("summaries", f)])
  ELSE [f EXCEPT !.at = "summaries"]

(* A signal that was given before the start ends the day there.               *)
FetchStarts(date, durations, stopped) ==
  /\ fetch.at = "idle"
  /\ LET f == [NoFetch EXCEPT !.date = date, !.since = now, !.durations = durations,
                              !.stopped = stopped]
     IN  fetch' = IF stopped THEN [f EXCEPT !.at = "done", !.summaries = Failed]
                  ELSE ToSummaries(f)
  /\ UNCHANGED <<now, policy>>

-----------------------------------------------------------------------------
(* Answers.  The policy learns first, and decides the next step.              *)

(* What is learnt from an error of the summaries or the heartbeats; nothing   *)
(* if the caller gave up.                                                     *)
Learnt(c, f, error, wait) ==
  CASE f.stopped \/ error = "quiet" -> policy
    [] ~f.stopped /\ error = "refused" -> RecordRestriction(policy, c, f.date, now)
    [] ~f.stopped /\ error \in {"deferred", "timed"} -> RecordDeferredRetry(policy, c, now + wait)
    [] ~f.stopped /\ error = "error" -> RecordError(policy, c, now)

(* A refusal and a deferral restrict the layer, all else fails it.            *)
ErrorResult(f, error) ==
  IF ~f.stopped /\ error \in {"refused", "deferred"} THEN Restricted ELSE Failed

(* A document may still be refused, by itself or by the normaliser.           *)
LearntFrom(c, f, result) ==
  CASE result.kind = "complete" -> RecordSuccess(policy, c, f.date)
    [] result.kind = "restricted" -> RecordRestriction(policy, c, f.date, now)
    [] result.kind = "failed" -> policy

SummariesAnswered(doc) ==
  /\ fetch.at = "summaries"
  /\ doc.refusal => PlanRefuses(fetch.date)
  /\ LET result == IF fetch.date \notin doc.dates THEN Failed
                   ELSE NormalizeSummary(doc, fetch.date, Pinned)
     IN  /\ policy' = LearntFrom("summaries", fetch, result)
         /\ fetch' = ToHeartbeats([fetch EXCEPT !.summaries = result])
  /\ UNCHANGED now

SummariesRejected(error, wait) ==
  /\ fetch.at = "summaries" /\ Answers(error)
  /\ policy' = Learnt("summaries", fetch, error, wait)
  /\ fetch' = ToHeartbeats([fetch EXCEPT !.summaries = ErrorResult(fetch, error)])
  /\ UNCHANGED now

HeartbeatsAnswered(doc) ==
  /\ fetch.at = "heartbeats"
  /\ LET result == NormalizeHeartbeats(doc, fetch.date, Pinned)
     IN  /\ policy' = LearntFrom("heartbeats", fetch, result)
         /\ fetch' = ToDurations([fetch EXCEPT !.heartbeats = result])
  /\ UNCHANGED now

HeartbeatsRejected(error, wait) ==
  /\ fetch.at = "heartbeats" /\ Answers(error)
  /\ policy' = Learnt("heartbeats", fetch, error, wait)
  /\ fetch' = ToDurations([fetch EXCEPT !.heartbeats = ErrorResult(fetch, error)])
  /\ UNCHANGED now

(* The durations themselves are not kept.                                     *)
DurationsAnswered ==
  /\ fetch.at = "durations"
  /\ policy' = RecordSuccess(policy, "durations", fetch.date)
  /\ fetch' = [fetch EXCEPT !.at = "done", !.durationsKind = "succeeded"]
  /\ UNCHANGED now

(* Every other error of the durations is remembered, a stop among them.       *)
DurationsRejected(error, wait) ==
  /\ fetch.at = "durations" /\ Answers(error)
  /\ policy' = CASE error = "refused" -> RecordRestriction(policy, "durations", fetch.date, now)
                 [] error \in {"deferred", "timed"}
                      -> RecordDeferredRetry(policy, "durations", now + wait)
                 [] error \in {"error", "quiet"} -> RecordError(policy, "durations", now)
  /\ fetch' = [fetch EXCEPT !.at = "done",
                 !.durationsKind = IF error \in {"refused", "deferred"} THEN "restricted" ELSE "failed"]
  /\ UNCHANGED now

-----------------------------------------------------------------------------
(* The caller takes the candidate.                                            *)
FetchReturns ==
  /\ fetch.at = "done"
  /\ fetch' = NoFetch
  /\ UNCHANGED <<now, policy>>

CallerStops ==
  /\ fetch.at \in {"summaries", "heartbeats", "durations"}
  /\ ~fetch.stopped
  /\ fetch' = [fetch EXCEPT !.stopped = TRUE]
  /\ UNCHANGED <<now, policy>>

(* A request does not outlive the budget: the timer ends it first.            *)
ClockAdvances ==
  /\ now < MaxTime
  /\ fetch.at \in {"summaries", "heartbeats", "durations"} => ~Spent(fetch)
  /\ now' = now + 1
  /\ UNCHANGED <<policy, fetch>>

ProcessRestarts ==
  /\ policy' = FreshPolicy
  /\ fetch' = NoFetch
  /\ UNCHANGED now

Init ==
  /\ now = Start
  /\ policy = FreshPolicy
  /\ fetch = NoFetch

Next ==
  \/ \E d \in Dates, w, s \in BOOLEAN : FetchStarts(d, w, s)
  \/ \E doc \in Documents : SummariesAnswered(doc)
  \/ \E doc \in Beats : HeartbeatsAnswered(doc)
  \/ DurationsAnswered
  \/ \E e \in Errors, w \in RetryAfters :
       SummariesRejected(e, w) \/ HeartbeatsRejected(e, w) \/ DurationsRejected(e, w)
  \/ FetchReturns
  \/ CallerStops
  \/ ClockAdvances
  \/ ProcessRestarts

Spec == Init /\ [][Next]_vars

-----------------------------------------------------------------------------
(* Properties.                                                                *)

TypeOK ==
  /\ now \in Start..MaxTime
  /\ policy \in [endpoint : [Capabilities -> [status : Statuses, until : Nat \cup {None}]],
                 refused : [Capabilities -> [Dates -> Nat \cup {None}]]]
  /\ \A c \in Capabilities :
       policy.endpoint[c].until = None <=> policy.endpoint[c].status \in {"available", "untested"}
  /\ fetch.at \in {"idle", "summaries", "heartbeats", "durations", "done"}
  /\ fetch.date \in Dates \cup {None}
  /\ fetch.at # "idle" => fetch.date # None
  /\ {fetch.summaries.kind, fetch.heartbeats.kind} \subseteq
       {"complete", "restricted", "failed", "skipped"}
  /\ fetch.durationsKind \in {"succeeded", "restricted", "failed", "skipped"}

(* An endpoint that is not asked for a date has a reason that names the time  *)
(* from which it is asked again: a day that is not read is retried, and not   *)
(* at once.                                                                   *)
HoldIsExplained ==
  \A c \in Capabilities, d \in Dates :
    ShouldAttempt(policy, c, d, now) \/ HoldReason(policy, c, d, now) # "none"

(* A day the plan lets read is never kept back because the plan refused       *)
(* another day, whatever was asked before and however the clock moved on      *)
(* between a request and its answer.                                          *)
RecentDatesAreTried ==
  \A c \in Capabilities, d \in Dates :
    ~PlanRefuses(d) => HoldReason(policy, c, d, now) # "global_restriction"
=============================================================================
