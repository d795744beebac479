--------------------------- MODULE CapabilityPolicy ---------------------------
(* What the process remembers of the three endpoints it reads a day from: per *)
(* endpoint, and per date where the account's plan refused one.  A policy is  *)
(* a record                                                                   *)
(*   endpoint : capability -> [status, until]                                 *)
(*   refused  : capability -> date -> the instant from which the date may be  *)
(*              tried again, or None                                          *)
(* It lives in memory and is as new after a restart.                          *)
EXTENDS DayDocuments

CONSTANTS
  Dates,            \* the dates, as day numbers
  DayLength,        \* instants in a day
  FreeWindow,       \* days, today among them, a free plan may read
  ReprobeInterval,  \* wait after a refusal of the plan
  ErrorInterval     \* wait after an error

Capabilities == {"summaries", "heartbeats", "durations"}
Statuses == {"available", "untested", "restricted", "throttled", "error"}

ASSUME PolicyAssumption ==
  /\ Dates \subseteq Nat
  /\ DayLength \in Nat \ {0}
  /\ FreeWindow \in Nat \ {0}
  /\ ReprobeInterval \in Nat \ {0}
  /\ ErrorInterval \in Nat \ {0}
  /\ None \notin Nat

FreshPolicy ==
  [endpoint |-> [c \in Capabilities |-> [status |-> "untested", until |-> None]],
   refused |-> [c \in Capabilities |-> [d \in Dates |-> None]]]

Today(now) == now \div DayLength
InFreeWindow(date, now) == date >= Today(now) - (FreeWindow - 1)

(* The instant has come, or none was named.                                   *)
Come(until, now) == until = None \/ now >= until

-----------------------------------------------------------------------------
(* May the endpoint be asked for the date?  A date that was refused is judged *)
(* by its own refusal alone.                                                  *)
ShouldAttempt(policy, c, date, now) ==
  IF policy.refused[c][date] # None
  THEN now >= policy.refused[c][date]
  ELSE \/ policy.endpoint[c].status \in {"available", "untested"}
       \/ Come(policy.endpoint[c].until, now)

(* Mutant: A refusal of the date is not told from the state of its endpoint.          *)
EndpointHold(policy, c, date, now) ==
  IF Come(policy.endpoint[c].until, now) THEN "none" ELSE policy.endpoint[c].status

(* Why not?  The first of these that holds, "none" if none does.              *)
HoldReason(policy, c, date, now) ==
  IF policy.refused[c][date] # None /\ now < policy.refused[c][date]
  THEN "date_restriction"
  ELSE CASE policy.endpoint[c].status = "restricted" /\ ~Come(policy.endpoint[c].until, now)
              -> "global_restriction"
         [] policy.endpoint[c].status = "throttled" /\ ~Come(policy.endpoint[c].until, now)
              -> "throttle"
         [] policy.endpoint[c].status = "error" /\ ~Come(policy.endpoint[c].until, now)
              -> "error"
         [] OTHER -> "none"

-----------------------------------------------------------------------------
(* What an answer teaches.                                                    *)

Learns(policy, c, status, until) ==
  [policy EXCEPT !.endpoint[c] = [status |-> status, until |-> until]]

RecordSuccess(policy, c, date) ==
  Learns([policy EXCEPT !.refused[c][date] = None], c, "available", None)

(* Mutant: An old date restricts the endpoint.                                *)
RestrictEverything(policy, c, date, now) ==
  Learns([policy EXCEPT !.refused[c][date] = now + ReprobeInterval],
         c, "restricted", now + ReprobeInterval)

(* The refusal of an old date says nothing of the others.                     *)
RecordRestriction(policy, c, date, now) ==
  LET dated == [policy EXCEPT !.refused[c][date] = now + ReprobeInterval]
  IN  IF InFreeWindow(date, now)
      THEN Learns(dated, c, "restricted", now + ReprobeInterval)
      ELSE dated

RecordDeferredRetry(policy, c, retryAt) == Learns(policy, c, "throttled", retryAt)
RecordError(policy, c, now) == Learns(policy, c, "error", now + ErrorInterval)
=============================================================================
