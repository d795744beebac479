---------------------------- MODULE RequestGate ----------------------------
(***************************************************************************)
(* The process-wide gate in front of WakaTime (wakatime/request-gate.ts).  *)
(*                                                                         *)
(* processQueue runs without interruption up to its only await, the pacing *)
(* delay of one user; Settle is that stretch of code, and every operation  *)
(* ends in it.  The gate is one record, so that the steps of its users can *)
(* be composed with their own.  The clock is taken to be monotone, and is  *)
(* kept as the time since the last start, counted up to Spacing.           *)
(***************************************************************************)
EXTENDS SequencesExt

CONSTANTS Users, MaxConcurrent, Spacing

ASSUME GateAssumption ==
    /\ IsFiniteSet(Users)
    /\ MaxConcurrent \in Nat \ {0}
    /\ Spacing \in Nat \ {0}

VARIABLE gate

\* holders are the users with a permit (their number is activeCount), pacing
\* the user taken from the queue whose delay runs, with the time it has left.
\* processing is that somebody is pacing.
NewGate == [queue |-> <<>>, pacing |-> <<>>, holders |-> {}, sinceStart |-> Spacing]

Pacing(g)  == DOMAIN g.pacing
Waiting(g) == Pacing(g) \cup ToSet(g.queue)

HasRoom(g) == g.queue # <<>> /\ Cardinality(g.holders) < MaxConcurrent

\* The first in the queue leaves it.
Take(g) == [g EXCEPT !.queue = Tail(@)]

Pace(g, u) ==
    [g EXCEPT !.pacing = [v \in Pacing(g) \cup {u} |->
                             IF v = u THEN Spacing - g.sinceStart ELSE g.pacing[v]]]

Unpace(g, u) == [g EXCEPT !.pacing = Restrict(@, Pacing(g) \ {u})]

Grant(g, u) == [g EXCEPT !.pacing = Restrict(@, Pacing(g) \ {u}),
                         !.holders = @ \cup {u}, !.sinceStart = 0]

\* The loop from where nobody is being delayed: the first starts at once if
\* the last start is long enough ago, and the next has to be paced.
Serve(g) ==
    LET started == IF HasRoom(g) /\ g.sinceStart >= Spacing
                   THEN Grant(Take(g), Head(g.queue)) ELSE g
    IN IF HasRoom(started) THEN Pace(Take(started), Head(started.queue)) ELSE started

\* Mutant: without the processing flag every caller runs a loop of its own.
ServeAlways(g) == Serve(g)

Settle(g) == IF Pacing(g) # {} THEN g ELSE Serve(g)

\* Mutant: a permit is given back without waking the queue.
ReleaseQuietly(g, u) == [g EXCEPT !.holders = @ \ {u}]

Acquire(g, u) == Settle([g EXCEPT !.queue = Append(@, u)])
Release(g, u) == Settle([g EXCEPT !.holders = @ \ {u}])
PacingOver(g, u) == Settle(Grant(g, u))

Withdraw(g, u) ==
    LET place == CHOOSE i \in DOMAIN g.queue : g.queue[i] = u
    IN [g EXCEPT !.queue = IF u \in ToSet(@) THEN RemoveAt(@, place) ELSE @]

\* The signal of u aborts: during its request, in its delay, or in the queue.
Leave(g, u) ==
    IF u \in g.holders THEN Release(g, u)
    ELSE IF u \in Pacing(g) THEN Settle(Unpace(g, u))
    ELSE Withdraw(g, u)

Elapsed(g) ==
    [g EXCEPT !.sinceStart = @ + 1,
              !.pacing = [v \in Pacing(g) |-> IF g.pacing[v] = 0 THEN 0 ELSE g.pacing[v] - 1]]

----------------------------------------------------------------------------

GateInit == gate = NewGate

DelayEnds(u) ==
    /\ u \in Pacing(gate)
    /\ gate.pacing[u] = 0
    /\ gate' = PacingOver(gate, u)

\* While a delay runs so does the clock, up to the end of the delay; a timer
\* that fires late only adds to the distance.
Elapse ==
    /\ gate.sinceStart < Spacing
    /\ gate' = Elapsed(gate)

----------------------------------------------------------------------------

Gates == [queue : Seq(Users), pacing : UNION {[S -> 0..Spacing] : S \in SUBSET Users},
          holders : SUBSET Users, sinceStart : 0..Spacing]

\* No wake-up is lost (the calls of processQueue): while there is a permit for
\* the first in the queue, somebody's delay runs, whose end will serve the queue.
NobodyForgotten == HasRoom(gate) => Pacing(gate) # {}
============================================================================
