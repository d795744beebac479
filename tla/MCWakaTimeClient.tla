------------------------- MODULE MCWakaTimeClient -------------------------
(* TLC instance of WakaTimeClient. *)
EXTENDS WakaTimeClient

CONSTANTS j1, j2

TwoJobs == {j1, j2}
TwoJobUsers == TwoJobs \cup {Refresh, Exchange, Revoke}
===========================================================================
