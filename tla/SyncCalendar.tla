---------------------------- MODULE SyncCalendar ----------------------------
(***************************************************************************)
(* The calendar of the scheduler: zoned days and hours, the slots of the   *)
(* three cadences, the dates each intent stands for, and the selection of  *)
(* the dates that a catch-up asks for.  No state: every definition is a    *)
(* function of an instant and of what the database says.                   *)
(*                                                                         *)
(* A date is a number of days, so that addDays and differenceInDays are    *)
(* addition and subtraction.  An instant is a number of hours; the zone is *)
(* the number of hours it is ahead.  The lengths of a day, a week and the  *)
(* windows are constants.                                                  *)
(***************************************************************************)
EXTENDS Integers, Sequences, FiniteSets

CONSTANTS
    HoursPerDay, DaysPerWeek,
    ReconcileHour, CompareHour,     \* 03:00 and 04:00
    RecentDays,                     \* DEFAULT_POLICY_WINDOW_DAYS
    ReconcileDays, CompareDays,     \* DEFAULT_RECONCILE_..., DEFAULT_COMPARE_WINDOW_DAYS
    MaxCatchup,                     \* DEFAULT_MAX_CATCHUP_DAYS
    NoDate                          \* no cursor, no watermark: null

ASSUME CalendarAssumption ==
    /\ HoursPerDay \in Nat \ {0} /\ DaysPerWeek \in Nat \ {0, 1}
    /\ ReconcileHour \in 0 .. HoursPerDay - 1
    /\ CompareHour \in 0 .. HoursPerDay - 1
    /\ RecentDays \in Nat \ {0, 1} /\ ReconcileDays \in Nat \ {0}
    /\ CompareDays \in Nat \ {0} /\ MaxCatchup \in Nat \ {0}
    /\ NoDate \notin Int

NoSlot == <<>>  \* no slot handled yet

-----------------------------------------------------------------------------
(* Zoned time *)

ZonedDay(t, zone) == (t + zone) \div HoursPerDay
ZonedHour(t, zone) == (t + zone) % HoursPerDay

\* The instant at which the clocks of the zone show hour h of day d.
ZonedTimestamp(d, h, zone) == d * HoursPerDay + h - zone

\* 0 is Sunday and 1 is Monday.
DayOfWeek(d) == d % DaysPerWeek

MondayOf(d) == IF DayOfWeek(d) = 0 THEN d - (DaysPerWeek - 1) ELSE d + 1 - DayOfWeek(d)

-----------------------------------------------------------------------------
(* Cadences *)

Cadences == {"recent", "reconcile", "compare"}

\* The key of the period an instant belongs to, as a day and an hour.
Slot(intent, t, zone) ==
    LET d == ZonedDay(t, zone)
    IN  CASE intent = "recent"    -> <<d, ZonedHour(t, zone)>>
          [] intent = "reconcile" -> <<d, 0>>
          [] intent = "compare"   -> <<MondayOf(d), 0>>

IsCadenceDue(intent, last, t, zone) ==
    /\ last # Slot(intent, t, zone)
    /\ intent = "reconcile" => ZonedHour(t, zone) >= ReconcileHour
    /\ intent = "compare" => /\ DayOfWeek(ZonedDay(t, zone)) = 1
                             /\ ZonedHour(t, zone) >= CompareHour

IntentDates(intent, t, zone) ==
    LET today == ZonedDay(t, zone)
    IN  CASE intent = "recent"    -> today - 1 .. today
          [] intent = "reconcile" -> today - ReconcileDays .. today - 1
          [] intent = "compare"   -> today - CompareDays .. today - 1

\* What the settings page shows as the next time of each cadence.
NextDue(intent, t, zone) ==
    LET today == ZonedDay(t, zone)
        dow == DayOfWeek(today)
        daysToMonday == CASE dow = 1 /\ ZonedHour(t, zone) < CompareHour -> 0
                          [] dow = 1 /\ ZonedHour(t, zone) >= CompareHour -> DaysPerWeek
                          [] dow = 0 -> 1
                          [] dow \notin {0, 1} -> DaysPerWeek + 1 - dow
    IN  CASE intent = "recent" -> t + 1
          [] intent = "reconcile" ->
               ZonedTimestamp(IF ZonedHour(t, zone) < ReconcileHour THEN today ELSE today + 1,
                              ReconcileHour, zone)
          [] intent = "compare" -> ZonedTimestamp(today + daysToMonday, CompareHour, zone)

-----------------------------------------------------------------------------
(* The dates of a catch-up *)

\* The members of S in order; a recursive-free function, so that S is evaluated only once.
Ascending(S) ==
    LET sorted[T \in {S}] ==
            [i \in 1 .. Cardinality(T) |->
                CHOOSE d \in T : Cardinality({e \in T : e < d}) = i - 1]
    IN  sorted[S]

\* All candidates in order: today and yesterday, the gaps of the recent window, the older gaps
\* from the watermark on, and then what is unfinished or has failed.  A failed date waits for
\* the instant it was deferred to, which lies in the past when there is none.
Candidates(archive, watermark, failed, unfinished, today, t) ==
    LET start  == today - (RecentDays - 1)
        recent == (start .. today - 2) \ archive
        gaps   == IF watermark = NoDate THEN {} ELSE (watermark .. start - 1) \ archive
        older  == {d \in unfinished \cup {f \in DOMAIN failed : failed[f] <= t} : d <= today}
        added  == {today, today - 1} \cup recent \cup gaps
    IN  <<today, today - 1>> \o Ascending(recent) \o Ascending(gaps) \o Ascending(older \ added)

\* Mutant: the cursor names the candidate after the one that did not fit.
SelectSkipping(candidates) ==
    LET n == Len(candidates)
    IN  [dates |-> SubSeq(candidates, 1, IF n < MaxCatchup THEN n ELSE MaxCatchup),
         nextCursor |-> IF n > MaxCatchup + 1 THEN candidates[MaxCatchup + 2] ELSE NoDate]

\* The first candidates, as many as fit, and the first that does not.
SelectCatchup(candidates) ==
    LET n == Len(candidates)
    IN  [dates |-> SubSeq(candidates, 1, IF n < MaxCatchup THEN n ELSE MaxCatchup),
         nextCursor |-> IF n > MaxCatchup THEN candidates[MaxCatchup + 1] ELSE NoDate]

\* The window of the first enabling, from an empty archive.
SeedDates(t, zone) ==
    LET today == ZonedDay(t, zone) IN today - (RecentDays - 1) .. today
=============================================================================
