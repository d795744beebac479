------------------------- MODULE MCSyncLifecycle -------------------------
(* TLC instances of SyncLifecycle. *)
EXTENDS SyncLifecycle

\* A manual run of two dates and a manual registry refresh.
DatesAndRegistry ==
    {[key |-> 1, trigger |-> "manual", mode |-> "recent",   dates |-> {1, 2}],
     [key |-> 2, trigger |-> "manual", mode |-> "registry", dates |-> {}]}

\* A manual and an automatic run over one date, for liveness.
OneDateEach ==
    {[key |-> 1, trigger |-> "manual",    mode |-> "recent", dates |-> {1}],
     [key |-> 2, trigger |-> "scheduled", mode |-> "recent", dates |-> {1}]}

\* Outcomes that leave a date done, lowered, refused for the connection, failed or as it was,
\* where orders of events matter; and those that each end in another way, for liveness.
OutcomesForSafety == {"complete", "degraded", "auth", "threw", "preserved"}
OutcomesForLiveness == {"complete", "degraded", "restricted", "auth", "oversize", "failed"}
===========================================================================
