---------------------------- MODULE PacedQueue ----------------------------
(***************************************************************************)
(* What the shared request gate promises its users: they start in order of *)
(* arrival, at most MaxConcurrent at a time and at least Spacing apart     *)
(* (NEXT-MILESTONE-P0-CONTRACTS.md, wakatime/request-gate.ts line 60).     *)
(* RequestGate is shown to implement it.                                   *)
(***************************************************************************)
EXTENDS Naturals, Sequences, FiniteSets

CONSTANTS
    Users,          \* who may ask for a permit
    MaxConcurrent,  \* MAX_CONCURRENT_UPSTREAM_REQUESTS
    Spacing         \* MIN_UPSTREAM_REQUEST_SPACING_MS, in units of the clock

VARIABLES
    waiting,        \* users without a permit, in order of arrival
    using,          \* users with a permit
    sinceStart      \* time since the last start, counted up to Spacing

vars == <<waiting, using, sinceStart>>

Init == waiting = <<>> /\ using = {} /\ sinceStart = Spacing

\* Those who wait and do not give up head the line, in their order: who has a
\* place has as many of them at or before it as its number in the line.
Staying(gone, line) ==
    LET stay == {i \in DOMAIN waiting : waiting[i] \notin gone}
        number(i) == Cardinality({k \in stay : k <= i})
    IN Cardinality(stay) <= Len(line) /\ \A i \in stay : line[number(i)] = waiting[i]

\* Some finish, some give up, newcomers line up behind all who stay.
Move(done, gone) ==
    /\ using' = using \ done
    /\ UNCHANGED sinceStart
    /\ Staying(gone, waiting')

\* The same, and the first in line starts.
Start(done, gone, u) ==
    /\ Cardinality(using \ done) < MaxConcurrent
    /\ sinceStart = Spacing
    /\ using' = (using \ done) \cup {u}
    /\ sinceStart' = 0
    /\ Staying(gone, <<u>> \o waiting')

Elapse ==
    /\ sinceStart < Spacing
    /\ sinceStart' = sinceStart + 1
    /\ UNCHANGED <<waiting, using>>

\* The process is gone, and a new one begins with an empty gate.
Restart == waiting' = <<>> /\ using' = {} /\ sinceStart' = Spacing

Next ==
    \/ Elapse
    \/ Restart
    \/ \E done \in SUBSET using, gone \in SUBSET Users :
          \/ Move(done, gone)
          \/ \E u \in Users : Start(done, gone, u)

Spec == Init /\ [][Next]_vars
===========================================================================
