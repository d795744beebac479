--------------------------- MODULE MCSyncScheduler ---------------------------
(***************************************************************************)
(* TLC instances of SyncScheduler: a day of two hours, a week of two days, *)
(* and windows of two or three days.                                       *)
(***************************************************************************)
EXTENDS SyncScheduler

\* The Monday of the comparison begins; the day after it ends the week.
MCFirstInstant == 7 * HoursPerDay

\* A dump with one date: with gaps for two batches after it, or with few.
MCArchives == {{2}, {4}}

\* A cadence accepts its dates; a seed may be interrupted before its first date, and a catch-up
\* meets a restriction after it.
MCEndings ==
    [i \in Intents |-> {<<"all", "cancelled">>} \cup
        CASE i = "seed"    -> {<<"none", "interrupted">>}
          [] i = "catchup" -> {<<"first", "restricted">>}
          [] OTHER         -> {}]
=============================================================================
