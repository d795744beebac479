----------------------- MODULE WakaTimeClientProofs -----------------------
(***************************************************************************)
(* Theorems about WakaTimeClient, for any number of jobs, requests,        *)
(* retries, connections, rebinds and restarts.                             *)
(***************************************************************************)
EXTENDS WakaTimeClient, SequenceTheorems, FiniteSetTheorems, TLAPS

----------------------------------------------------------------------------
(* The gate: what every operation of RequestGate preserves, for any number *)
(* of users, permits and any spacing.                                      *)

\* At most one delay runs; it ends when the spacing is over, and the permit it
\* was begun for is still free.
Sound(g) ==
    /\ g \in Gates
    /\ Cardinality(g.holders) <= MaxConcurrent
    /\ \A u, v \in Pacing(g) : u = v
    /\ \A u \in Pacing(g) : g.pacing[u] + g.sinceStart = Spacing
    /\ Pacing(g) # {} => Cardinality(g.holders) < MaxConcurrent

Served(g) == HasRoom(g) => Pacing(g) # {}

\* From g to h nobody starts, or one user does, Spacing after the last start.
Starts(g, h) ==
    \/ h.holders \subseteq g.holders /\ h.sinceStart = g.sinceStart
    \/ /\ g.sinceStart = Spacing
       /\ h.sinceStart = 0
       /\ \E u \in Users : h.holders \subseteq g.holders \cup {u}

\* The line of a gate: who is delayed, and the queue behind it.
LineOf(g) == IF Pacing(g) = {} THEN g.queue
             ELSE <<CHOOSE u \in Pacing(g) : TRUE>> \o g.queue

\* From g to h nothing happens as far as the users see, or the first in line
\* starts, on a permit that is free and Spacing after the last start.
Serves(g, h) ==
    \/ LineOf(h) = LineOf(g) /\ h.holders = g.holders /\ h.sinceStart = g.sinceStart
    \/ /\ g.sinceStart = Spacing
       /\ h.sinceStart = 0
       /\ Cardinality(g.holders) < MaxConcurrent
       /\ \E u \in Users : LineOf(g) = <<u>> \o LineOf(h) /\ h.holders = g.holders \cup {u}

\* The number of permits behaves under the two ways it changes.
LEMMA PermitCount ==
    ASSUME NEW g \in Gates, NEW u
    PROVE  /\ Cardinality(g.holders) \in Nat
           /\ Cardinality(g.holders \cup {u}) <= Cardinality(g.holders) + 1
           /\ Cardinality(g.holders \cup {u}) \in Nat
           /\ Cardinality(g.holders \ {u}) <= Cardinality(g.holders)
           /\ Cardinality(g.holders \ {u}) \in Nat
<1>1. IsFiniteSet(g.holders)
  BY GateAssumption, FS_Subset DEF Gates
<1>2. Cardinality(g.holders) \in Nat
  BY <1>1, FS_CardinalityType
<1>3. Cardinality(g.holders \cup {u}) \in {Cardinality(g.holders), Cardinality(g.holders) + 1}
  BY <1>1, <1>2, FS_AddElement
<1>4. Cardinality(g.holders \ {u}) \in {Cardinality(g.holders), Cardinality(g.holders) - 1}
      /\ IsFiniteSet(g.holders \ {u})
  BY <1>1, <1>2, FS_RemoveElement
<1>5. Cardinality(g.holders \ {u}) \in Nat
  BY <1>4, FS_CardinalityType
<1> QED
  BY <1>2, <1>3, <1>4, <1>5

\* The pacing of a gate, as a function on some users.
LEMMA PacingType ==
    ASSUME NEW g \in Gates
    PROVE  /\ Pacing(g) \subseteq Users
           /\ g.pacing = [v \in Pacing(g) |-> g.pacing[v]]
           /\ \A v \in Pacing(g) : g.pacing[v] \in 0..Spacing
<1>1. PICK S \in SUBSET Users : g.pacing \in [S -> 0..Spacing]
  BY DEF Gates
<1> QED
  BY <1>1 DEF Pacing

\* Taking the first from the queue.
LEMMA Taking ==
    ASSUME NEW g, Sound(g), g.queue # <<>>
    PROVE  Sound(Take(g)) /\ Head(g.queue) \in Users
<1>1. g.queue \in Seq(Users) /\ Tail(g.queue) \in Seq(Users) /\ Head(g.queue) \in Users
  BY HeadTailProperties DEF Sound, Gates
<1>2. Take(g) \in Gates
  BY <1>1 DEF Sound, Gates, Take
<1>3. Take(g).holders = g.holders /\ Take(g).pacing = g.pacing
      /\ Take(g).sinceStart = g.sinceStart
  BY DEF Sound, Gates, Take
<1> QED
  BY <1>1, <1>2, <1>3 DEF Sound, Pacing

\* A gate from its parts.
LEMMA GateOf ==
    ASSUME NEW q \in Seq(Users), NEW p, DOMAIN p \in SUBSET Users,
           p \in [DOMAIN p -> 0..Spacing], NEW h \in SUBSET Users, NEW t \in 0..Spacing
    PROVE  [queue |-> q, pacing |-> p, holders |-> h, sinceStart |-> t] \in Gates
<1>1. p \in UNION {[R -> 0..Spacing] : R \in SUBSET Users}
  OBVIOUS
<1> QED
  BY <1>1 DEF Gates

\* A permit given when a permit is free.
LEMMA Granting ==
    ASSUME NEW g, Sound(g), NEW u \in Users,
           Cardinality(g.holders) < MaxConcurrent, Pacing(g) \subseteq {u}
    PROVE  /\ Sound(Grant(g, u))
           /\ Pacing(Grant(g, u)) = {}
           /\ Grant(g, u).holders = g.holders \cup {u}
           /\ Grant(g, u).sinceStart = 0
           /\ Grant(g, u).queue = g.queue
<1> DEFINE none == Restrict(g.pacing, Pacing(g) \ {u})
           h == g.holders \cup {u}
<1>1. none \in [DOMAIN none -> 0..Spacing] /\ DOMAIN none = {}
  BY DEF Restrict
<1>2. g \in Gates /\ h \in SUBSET Users /\ g.queue \in Seq(Users) /\ 0 \in 0..Spacing
  BY GateAssumption DEF Sound, Gates
<1> HIDE DEF none, h
<1>3. Grant(g, u) = [queue |-> g.queue, pacing |-> none, holders |-> h, sinceStart |-> 0]
  <2>1. Grant(g, u) = [g EXCEPT !.pacing = none, !.holders = h, !.sinceStart = 0]
    BY Zenon DEF Grant, none, h
  <2> QED
    BY <1>2, <2>1 DEF Gates
<1>4. Cardinality(h) <= MaxConcurrent
  <2>1. /\ Cardinality(g.holders) \in Nat /\ Cardinality(h) \in Nat
        /\ Cardinality(h) <= Cardinality(g.holders) + 1
    BY <1>2, PermitCount DEF h
  <2> QED
    BY <2>1, GateAssumption
<1>5. Grant(g, u) \in Gates
  <2>1. DOMAIN none \in SUBSET Users
    BY <1>1
  <2>2. [queue |-> g.queue, pacing |-> none, holders |-> h, sinceStart |-> 0] \in Gates
    BY <1>1, <1>2, <2>1, GateOf, Zenon
  <2> QED
    BY <1>3, <2>2
<1>6. /\ Grant(g, u).pacing = none /\ Grant(g, u).holders = h /\ Grant(g, u).sinceStart = 0
      /\ Grant(g, u).queue = g.queue
  BY <1>2, <1>3 DEF Gates
<1> QED
  BY <1>1, <1>4, <1>5, <1>6 DEF Sound, Pacing, h

\* A delay begun when nobody's runs and a permit is free.
LEMMA Delaying ==
    ASSUME NEW g, Sound(g), NEW u \in Users,
           Cardinality(g.holders) < MaxConcurrent, Pacing(g) = {}
    PROVE  /\ Sound(Pace(g, u))
           /\ Pacing(Pace(g, u)) = {u}
           /\ Pace(g, u).holders = g.holders
           /\ Pace(g, u).sinceStart = g.sinceStart
           /\ Pace(g, u).queue = g.queue
<1> DEFINE p == [v \in Pacing(g) \cup {u} |->
                    IF v = u THEN Spacing - g.sinceStart ELSE g.pacing[v]]
<1>1. g \in Gates /\ g.queue \in Seq(Users) /\ g.holders \in SUBSET Users
      /\ g.sinceStart \in 0..Spacing
  BY DEF Sound, Gates
<1>2. p = [v \in {u} |-> Spacing - g.sinceStart]
  OBVIOUS
<1>3. Spacing - g.sinceStart \in 0..Spacing /\ Spacing - g.sinceStart + g.sinceStart = Spacing
  BY <1>1, GateAssumption
<1>4. p \in [DOMAIN p -> 0..Spacing] /\ DOMAIN p = {u} /\ p[u] = Spacing - g.sinceStart
  BY <1>2, <1>3
<1>5. Pace(g, u) = [queue |-> g.queue, pacing |-> p, holders |-> g.holders,
                    sinceStart |-> g.sinceStart]
  BY <1>1 DEF Gates, Pace
<1> HIDE DEF p
<1>6. Pace(g, u) \in Gates
  <2>1. DOMAIN p \in SUBSET Users
    BY <1>4
  <2>2. [queue |-> g.queue, pacing |-> p, holders |-> g.holders,
         sinceStart |-> g.sinceStart] \in Gates
    BY <1>1, <1>4, <2>1, GateOf, Zenon
  <2> QED
    BY <1>5, <2>2
<1>7. /\ Pace(g, u).pacing = p /\ Pace(g, u).holders = g.holders
      /\ Pace(g, u).sinceStart = g.sinceStart /\ Pace(g, u).queue = g.queue
  BY <1>1, <1>5 DEF Gates
<1> QED
  BY <1>3, <1>4, <1>6, <1>7 DEF Sound, Pacing

\* Who is taken from the queue of a gate that delays nobody was first in line.
LEMMA FirstOfLine ==
    ASSUME NEW g, Sound(g), Pacing(g) = {}, g.queue # <<>>,
           NEW h, h.queue = Take(g).queue, Pacing(h) = {}
    PROVE  LineOf(g) = <<Head(g.queue)>> \o LineOf(h)
<1>1. g.queue \in Seq(Users) /\ Take(g).queue = Tail(g.queue)
  BY DEF Sound, Gates, Take
<1>2. LineOf(g) = g.queue /\ LineOf(h) = Tail(g.queue)
  BY <1>1 DEF LineOf
<1>3. g.queue = <<Head(g.queue)>> \o Tail(g.queue)
  BY <1>1
<1> QED
  BY <1>2, <1>3

\* And still is, if it is delayed.
LEMMA PacedFirst ==
    ASSUME NEW g, Sound(g), Pacing(g) = {}, g.queue # <<>>,
           NEW h, h.queue = Take(g).queue, Pacing(h) = {Head(g.queue)}
    PROVE  LineOf(h) = LineOf(g)
<1>1. g.queue \in Seq(Users) /\ Take(g).queue = Tail(g.queue)
  BY DEF Sound, Gates, Take
<1>2. LineOf(g) = g.queue /\ LineOf(h) = <<Head(g.queue)>> \o Tail(g.queue)
  BY <1>1 DEF LineOf
<1>3. g.queue = <<Head(g.queue)>> \o Tail(g.queue)
  BY <1>1
<1> QED
  BY <1>2, <1>3

\* processQueue from where nobody's delay runs.
LEMMA Serving ==
    ASSUME NEW g, Sound(g), Pacing(g) = {}
    PROVE  /\ Sound(Serve(g)) /\ Served(Serve(g)) /\ Starts(g, Serve(g))
           /\ Serves(g, Serve(g))
<1> DEFINE started == IF HasRoom(g) /\ g.sinceStart >= Spacing
                      THEN Grant(Take(g), Head(g.queue)) ELSE g
<1>1. /\ Sound(started) /\ Pacing(started) = {} /\ Starts(g, started)
      /\ started.sinceStart = 0 \/ started = g
      /\ Serves(g, started)
  <2>1. CASE HasRoom(g) /\ g.sinceStart >= Spacing
    <3>1. g.queue # <<>> /\ Cardinality(g.holders) < MaxConcurrent
      BY <2>1 DEF HasRoom
    <3>2. Sound(Take(g)) /\ Head(g.queue) \in Users
      BY <3>1, Taking
    <3>3. Take(g).holders = g.holders /\ Take(g).pacing = g.pacing
      BY DEF Sound, Gates, Take
    <3>4. g.sinceStart = Spacing
      BY <2>1, GateAssumption DEF Sound, Gates
    <3>5. /\ Sound(Grant(Take(g), Head(g.queue)))
          /\ Pacing(Grant(Take(g), Head(g.queue))) = {}
          /\ Grant(Take(g), Head(g.queue)).holders = g.holders \cup {Head(g.queue)}
          /\ Grant(Take(g), Head(g.queue)).sinceStart = 0
          /\ Grant(Take(g), Head(g.queue)).queue = Take(g).queue
      BY <3>1, <3>2, <3>3, Granting DEF Pacing
    <3>6. Starts(g, started)
      BY <2>1, <3>2, <3>4, <3>5 DEF Starts
    <3>7. LineOf(g) = <<Head(g.queue)>> \o LineOf(started)
      BY <2>1, <3>1, <3>5, FirstOfLine
    <3>8. Serves(g, started)
      BY <2>1, <3>1, <3>2, <3>3, <3>4, <3>5, <3>7 DEF Serves
    <3> QED
      BY <2>1, <3>2, <3>5, <3>6, <3>8
  <2>2. CASE ~(HasRoom(g) /\ g.sinceStart >= Spacing)
    BY <2>2 DEF Starts, Serves
  <2> QED
    BY <2>1, <2>2
<1> HIDE DEF started
<1>2. CASE HasRoom(started)
  <2> DEFINE paced == Pace(Take(started), Head(started.queue))
  <2>1. started.queue # <<>> /\ Cardinality(started.holders) < MaxConcurrent
    BY <1>2 DEF HasRoom
  <2>2. Sound(Take(started)) /\ Head(started.queue) \in Users
    BY <1>1, <2>1, Taking
  <2>3. /\ Take(started).holders = started.holders /\ Take(started).pacing = started.pacing
        /\ Take(started).sinceStart = started.sinceStart
    BY <1>1 DEF Sound, Gates, Take
  <2>4. /\ Sound(paced) /\ Pacing(paced) = {Head(started.queue)}
        /\ paced.holders = started.holders /\ paced.sinceStart = started.sinceStart
        /\ paced.queue = Take(started).queue
    BY <1>1, <2>1, <2>2, <2>3, Delaying DEF Pacing
  <2>5. Serve(g) = paced
    BY <1>2 DEF Serve, started
  <2> HIDE DEF paced
  <2>6. LineOf(paced) = LineOf(started)
    BY <1>1, <2>1, <2>4, PacedFirst
  <2> QED
    BY <1>1, <2>4, <2>5, <2>6 DEF Served, Starts, Serves
<1>3. CASE ~HasRoom(started)
  <2>1. Serve(g) = started
    BY <1>3 DEF Serve, started
  <2> QED
    BY <1>1, <1>3, <2>1 DEF Served
<1> QED
  BY <1>2, <1>3

\* processQueue, when it may find somebody's delay running.
LEMMA Settling ==
    ASSUME NEW g, Sound(g)
    PROVE  /\ Sound(Settle(g)) /\ Served(Settle(g)) /\ Starts(g, Settle(g))
           /\ Serves(g, Settle(g))
<1>1. CASE Pacing(g) # {}
  BY <1>1 DEF Settle, Served, Starts, Serves
<1>2. CASE Pacing(g) = {}
  BY <1>2, Serving DEF Settle
<1> QED
  BY <1>1, <1>2

\* A gate whose queue alone differs.
LEMMA Requeuing ==
    ASSUME NEW g, Sound(g), NEW q \in Seq(Users)
    PROVE  /\ Sound([g EXCEPT !.queue = q])
           /\ [g EXCEPT !.queue = q].holders = g.holders
           /\ [g EXCEPT !.queue = q].pacing = g.pacing
           /\ [g EXCEPT !.queue = q].sinceStart = g.sinceStart
<1> DEFINE h == [g EXCEPT !.queue = q]
<1>1. h \in Gates
  BY DEF Sound, Gates
<1>2. h.holders = g.holders /\ h.pacing = g.pacing /\ h.sinceStart = g.sinceStart
  BY DEF Sound, Gates
<1> HIDE DEF h
<1>3. Sound(h)
  BY <1>1, <1>2 DEF Sound, Pacing
<1> QED
  BY <1>2, <1>3 DEF h

\* A user arrives.
LEMMA Acquiring ==
    ASSUME NEW g, Sound(g), NEW u \in Users
    PROVE  /\ Sound(Acquire(g, u)) /\ Served(Acquire(g, u))
           /\ Starts(g, Acquire(g, u))
<1> DEFINE h == [g EXCEPT !.queue = Append(@, u)]
<1>1. Append(g.queue, u) \in Seq(Users)
  BY DEF Sound, Gates
<1>2. Sound(h) /\ h.holders = g.holders /\ h.sinceStart = g.sinceStart
  BY <1>1, Requeuing
<1> HIDE DEF h
<1>3. Sound(Settle(h)) /\ Served(Settle(h)) /\ Starts(h, Settle(h))
  BY <1>2, Settling
<1>4. Acquire(g, u) = Settle(h)
  BY DEF Acquire, h
<1> QED
  BY <1>2, <1>3, <1>4 DEF Starts

\* A permit is given back.
LEMMA Releasing ==
    ASSUME NEW g, Sound(g), NEW u
    PROVE  /\ Sound(Release(g, u)) /\ Served(Release(g, u))
           /\ Starts(g, Release(g, u))
<1> DEFINE h == [g EXCEPT !.holders = @ \ {u}]
<1>1. h \in Gates
  BY DEF Sound, Gates
<1>2. h.holders = g.holders \ {u} /\ h.pacing = g.pacing /\ h.sinceStart = g.sinceStart
  BY DEF Sound, Gates
<1> HIDE DEF h
<1>3. Cardinality(h.holders) <= Cardinality(g.holders)
      /\ Cardinality(h.holders) \in Nat /\ Cardinality(g.holders) \in Nat
  BY <1>2, PermitCount DEF Sound
<1>4. Sound(h)
  <2>1. Cardinality(h.holders) <= MaxConcurrent
    BY <1>3, GateAssumption DEF Sound
  <2>2. Pacing(h) # {} => Cardinality(h.holders) < MaxConcurrent
    BY <1>2, <1>3, GateAssumption DEF Sound, Pacing
  <2> QED
    BY <1>1, <1>2, <2>1, <2>2 DEF Sound, Pacing
<1>5. Sound(Settle(h)) /\ Served(Settle(h)) /\ Starts(h, Settle(h))
  BY <1>4, Settling
<1>6. Release(g, u) = Settle(h)
  BY DEF Release, h
<1> QED
  BY <1>2, <1>5, <1>6 DEF Starts

\* The delay of a user is over.
LEMMA EndingDelay ==
    ASSUME NEW g, Sound(g), NEW u \in Pacing(g), g.pacing[u] = 0
    PROVE  /\ Sound(PacingOver(g, u)) /\ Served(PacingOver(g, u))
           /\ Starts(g, PacingOver(g, u))
<1> DEFINE h == Grant(g, u)
<1>1. u \in Users /\ Pacing(g) = {u} /\ Cardinality(g.holders) < MaxConcurrent
  BY PacingType DEF Sound
<1>2. g.sinceStart = Spacing
  BY GateAssumption DEF Sound, Gates
<1>3. Sound(h) /\ h.holders = g.holders \cup {u} /\ h.sinceStart = 0
  BY <1>1, Granting
<1> HIDE DEF h
<1>4. Sound(Settle(h)) /\ Served(Settle(h)) /\ Starts(h, Settle(h))
  BY <1>3, Settling
<1>5. Settle(h).holders \subseteq h.holders /\ Settle(h).sinceStart = 0
  BY <1>3, <1>4, GateAssumption DEF Starts
<1>6. PacingOver(g, u) = Settle(h)
  BY DEF PacingOver, h
<1> QED
  BY <1>1, <1>2, <1>3, <1>4, <1>5, <1>6 DEF Starts

\* The delay of a user is given up.
LEMMA Unpacing ==
    ASSUME NEW g, Sound(g), NEW u
    PROVE  /\ Sound(Unpace(g, u))
           /\ Unpace(g, u).holders = g.holders
           /\ Unpace(g, u).sinceStart = g.sinceStart
           /\ Unpace(g, u).queue = g.queue
           /\ Pacing(Unpace(g, u)) = Pacing(g) \ {u}
<1> DEFINE p == Restrict(g.pacing, Pacing(g) \ {u})
<1>1. g \in Gates /\ g.queue \in Seq(Users) /\ g.holders \in SUBSET Users
      /\ g.sinceStart \in 0..Spacing
  BY DEF Sound, Gates
<1>2. /\ DOMAIN p = Pacing(g) \ {u} /\ DOMAIN p \in SUBSET Users
      /\ p \in [DOMAIN p -> 0..Spacing]
      /\ \A v \in DOMAIN p : p[v] = g.pacing[v]
  BY <1>1, PacingType DEF Restrict
<1>3. Unpace(g, u) = [queue |-> g.queue, pacing |-> p, holders |-> g.holders,
                      sinceStart |-> g.sinceStart]
  <2>1. Unpace(g, u) = [g EXCEPT !.pacing = p]
    BY Zenon DEF Unpace, p
  <2> HIDE DEF p
  <2> QED
    BY <1>1, <2>1 DEF Gates
<1> HIDE DEF p
<1>4. Unpace(g, u) \in Gates
  <2>1. [queue |-> g.queue, pacing |-> p, holders |-> g.holders,
         sinceStart |-> g.sinceStart] \in Gates
    BY <1>1, <1>2, GateOf, Zenon
  <2> QED
    BY <1>3, <2>1
<1>5. /\ Unpace(g, u).pacing = p /\ Unpace(g, u).holders = g.holders
      /\ Unpace(g, u).sinceStart = g.sinceStart /\ Unpace(g, u).queue = g.queue
  BY <1>3
<1> QED
  BY <1>2, <1>4, <1>5 DEF Sound, Pacing

\* A user leaves the queue; it may have left it already.
LEMMA Withdrawing ==
    ASSUME NEW g, Sound(g), Served(g), NEW u
    PROVE  /\ Sound(Withdraw(g, u)) /\ Served(Withdraw(g, u))
           /\ Starts(g, Withdraw(g, u))
<1> DEFINE place == CHOOSE i \in DOMAIN g.queue : g.queue[i] = u
           q == IF u \in ToSet(g.queue) THEN RemoveAt(g.queue, place) ELSE g.queue
<1>1. g.queue \in Seq(Users)
  BY DEF Sound, Gates
<1>2. q \in Seq(Users) /\ (q # <<>> => g.queue # <<>>)
  <2>1. CASE u \in ToSet(g.queue)
    <3>1. place \in 1..Len(g.queue)
      BY <1>1, <2>1 DEF ToSet
    <3> HIDE DEF place
    <3>2. /\ SubSeq(g.queue, 1, place - 1) \in Seq(Users)
          /\ SubSeq(g.queue, place + 1, Len(g.queue)) \in Seq(Users)
      BY <1>1, <3>1, SubSeqProperties
    <3>3. RemoveAt(g.queue, place) \in Seq(Users)
      BY <3>2 DEF RemoveAt
    <3>4. g.queue # <<>>
      BY <1>1, <3>1
    <3> QED
      BY <2>1, <3>3, <3>4
  <2>2. CASE u \notin ToSet(g.queue)
    BY <1>1, <2>2
  <2> QED
    BY <2>1, <2>2
<1>3. Withdraw(g, u) = [g EXCEPT !.queue = q]
  BY Zenon DEF Withdraw
<1> HIDE DEF q
<1>4. /\ Sound(Withdraw(g, u)) /\ Withdraw(g, u).holders = g.holders
      /\ Withdraw(g, u).pacing = g.pacing /\ Withdraw(g, u).sinceStart = g.sinceStart
  BY <1>2, <1>3, Requeuing
<1>5. Withdraw(g, u).queue = q
  BY <1>3 DEF Sound, Gates
<1> QED
  BY <1>2, <1>4, <1>5 DEF Served, Starts, HasRoom, Pacing

\* A user goes away, wherever it is.
LEMMA Leaving ==
    ASSUME NEW g, Sound(g), Served(g), NEW u
    PROVE  Sound(Leave(g, u)) /\ Served(Leave(g, u)) /\ Starts(g, Leave(g, u))
<1>1. CASE u \in g.holders
  BY <1>1, Releasing DEF Leave
<1>2. CASE u \notin g.holders /\ u \in Pacing(g)
  <2>1. /\ Sound(Unpace(g, u)) /\ Unpace(g, u).holders = g.holders
        /\ Unpace(g, u).sinceStart = g.sinceStart
    BY Unpacing
  <2>2. /\ Sound(Settle(Unpace(g, u))) /\ Served(Settle(Unpace(g, u)))
        /\ Starts(Unpace(g, u), Settle(Unpace(g, u)))
    BY <2>1, Settling
  <2> QED
    BY <1>2, <2>1, <2>2 DEF Leave, Starts
<1>3. CASE u \notin g.holders /\ u \notin Pacing(g)
  BY <1>3, Withdrawing DEF Leave
<1> QED
  BY <1>1, <1>2, <1>3

\* Time passes.
LEMMA Elapsing ==
    ASSUME NEW g, Sound(g), Served(g), g.sinceStart < Spacing
    PROVE  /\ Sound(Elapsed(g)) /\ Served(Elapsed(g))
           /\ Elapsed(g).holders = g.holders
           /\ Elapsed(g).sinceStart = g.sinceStart + 1
           /\ LineOf(Elapsed(g)) = LineOf(g)
<1> DEFINE p == [v \in Pacing(g) |-> IF g.pacing[v] = 0 THEN 0 ELSE g.pacing[v] - 1]
<1>1. g \in Gates /\ g.queue \in Seq(Users) /\ g.holders \in SUBSET Users
      /\ g.sinceStart \in 0..Spacing /\ g.sinceStart + 1 \in 0..Spacing
  BY GateAssumption DEF Sound, Gates
<1>2. \A v \in Pacing(g) : /\ g.pacing[v] \in 0..Spacing
                           /\ g.pacing[v] + g.sinceStart = Spacing
                           /\ g.pacing[v] # 0
  <2> SUFFICES ASSUME NEW v \in Pacing(g)
               PROVE  g.pacing[v] \in 0..Spacing /\ g.pacing[v] + g.sinceStart = Spacing
                      /\ g.pacing[v] # 0
    OBVIOUS
  <2>1. g.pacing[v] \in 0..Spacing
    BY <1>1, PacingType
  <2>2. g.pacing[v] + g.sinceStart = Spacing
    BY DEF Sound
  <2> QED
    BY <1>1, <2>1, <2>2, GateAssumption
<1>3. /\ DOMAIN p = Pacing(g) /\ DOMAIN p \in SUBSET Users
      /\ p \in [DOMAIN p -> 0..Spacing]
      /\ \A v \in DOMAIN p : p[v] + (g.sinceStart + 1) = Spacing
  <2>1. DOMAIN p = Pacing(g) /\ Pacing(g) \subseteq Users
    BY <1>1, PacingType
  <2>2. ASSUME NEW v \in Pacing(g)
        PROVE  p[v] \in 0..Spacing /\ p[v] + (g.sinceStart + 1) = Spacing
    <3>1. p[v] = g.pacing[v] - 1
      BY <1>2
    <3> HIDE DEF p
    <3> QED
      BY <1>1, <1>2, <3>1, GateAssumption
  <2> QED
    BY <2>1, <2>2
<1>4. Elapsed(g) = [queue |-> g.queue, pacing |-> p, holders |-> g.holders,
                    sinceStart |-> g.sinceStart + 1]
  <2>1. Elapsed(g) = [g EXCEPT !.sinceStart = @ + 1, !.pacing = p]
    BY Zenon DEF Elapsed, p
  <2> HIDE DEF p
  <2> QED
    BY <1>1, <2>1 DEF Gates
<1> HIDE DEF p
<1>5. Elapsed(g) \in Gates
  <2>1. [queue |-> g.queue, pacing |-> p, holders |-> g.holders,
         sinceStart |-> g.sinceStart + 1] \in Gates
    BY <1>1, <1>3, GateOf, Zenon
  <2> QED
    BY <1>4, <2>1
<1>6. /\ Elapsed(g).pacing = p /\ Elapsed(g).holders = g.holders /\ Elapsed(g).queue = g.queue
      /\ Elapsed(g).sinceStart = g.sinceStart + 1
  BY <1>4
<1>7. LineOf(Elapsed(g)) = LineOf(g)
  <2>1. Pacing(Elapsed(g)) = Pacing(g)
    BY <1>3, <1>6 DEF Pacing
  <2> QED
    BY <1>6, <2>1 DEF LineOf
<1> QED
  BY <1>3, <1>5, <1>6, <1>7 DEF Sound, Served, HasRoom, Pacing

\* The gate of a new process.
LEMMA Beginning == Sound(NewGate) /\ Served(NewGate) /\ NewGate.holders = {}
<1>1. <<>> \in Seq(Users) /\ Spacing \in 0..Spacing /\ {} \in SUBSET Users
  BY GateAssumption
<1> DEFINE nobody == <<>>
<1>2. DOMAIN nobody = {} /\ nobody \in [DOMAIN nobody -> 0..Spacing]
  <2>1. nobody \in Seq(0..Spacing) /\ Len(nobody) = 0
    OBVIOUS
  <2>2. DOMAIN nobody = 1..0
    BY <2>1
  <2> QED
    BY <2>2
<1> HIDE DEF nobody
<1>3. NewGate \in Gates
  <2>1. DOMAIN nobody \in SUBSET Users
    BY <1>2
  <2>2. [queue |-> <<>>, pacing |-> nobody, holders |-> {}, sinceStart |-> Spacing] \in Gates
    BY <1>1, <1>2, <2>1, GateOf, Zenon
  <2> QED
    BY <2>2 DEF NewGate, nobody
<1>4. Cardinality({}) = 0
  BY FS_EmptySet
<1> QED
  BY <1>2, <1>3, <1>4, GateAssumption DEF Sound, Served, HasRoom, Pacing, NewGate, nobody

----------------------------------------------------------------------------
(* The gate: every step is one operation of it, or none.                   *)

GateStep ==
    \/ UNCHANGED gate
    \/ \E u \in Users : \/ gate' = Acquire(gate, u)
                        \/ gate' = Release(gate, u)
                        \/ gate' = Leave(gate, u)
                        \/ DelayEnds(u)
    \/ Elapse
    \/ gate' = NewGate

\* Every step of the client uses the gate by its operations.
LEMMA GateSteps == [Next]_vars => GateStep
<1> SUFFICES ASSUME [Next]_vars PROVE GateStep
  OBVIOUS
<1>1. Jobs \subseteq Users /\ {Refresh, Exchange, Revoke} \subseteq Users
  BY ClientAssumption
<1> USE <1>1 DEF GateStep
<1>2. ASSUME NEW j \in Jobs, Ask(j) \/ Renew(j) \/ Resumed(j) \/ Proceed(j)
      PROVE  GateStep
  BY <1>2 DEF Ask, Renew, Resumed, Proceed, AwaitRefresh
<1>3. ASSUME NEW j \in Jobs, Answers(j)
      PROVE  GateStep
  BY <1>3 DEF Answers, Success, Throttled, ServerError, Unauthorized, Refused, Answered
<1>4. ASSUME RefreshReturns \/ ExchangeReturns \/ DisconnectReturns
      PROVE  GateStep
  BY <1>4 DEF RefreshReturns, ExchangeReturns, DisconnectReturns
<1>5. ASSUME Timers
      PROVE  GateStep
  BY <1>5 DEF Timers, Tick, PacingEnds, BackoffOver
<1>6. ASSUME Operator
      PROVE  GateStep
  BY <1>6 DEF Operator, StartExchange, StartDisconnect, Rebind
<1>7. ASSUME NEW j \in Jobs, Begin(j) \/ Abort(j)
      PROVE  GateStep
  BY <1>7 DEF Begin, Abort
<1>8. ASSUME Restart \/ AtRest \/ UNCHANGED vars
      PROVE  GateStep
  BY <1>8 DEF Restart, AtRest, vars
<1> QED
  BY <1>2, <1>3, <1>4, <1>5, <1>6, <1>7, <1>8 DEF Next, Continue, Upstream

\* A start, as a step of the whole client.
StartIsPaced ==
    gate'.holders \subseteq gate.holders
    \/ /\ gate.sinceStart = Spacing
       /\ gate'.sinceStart = 0
       /\ \E u \in Users : gate'.holders \subseteq gate.holders \cup {u}

GateInv == Sound(gate) /\ Served(gate)

\* Every operation keeps the gate sound and served, and starts no user too early.
LEMMA GateInvStep == GateInv /\ [Next]_vars => GateInv' /\ StartIsPaced
<1> SUFFICES ASSUME GateInv, GateStep PROVE GateInv' /\ StartIsPaced
  BY GateSteps
<1> USE DEF GateInv
<1>1. CASE UNCHANGED gate
  BY <1>1 DEF Sound, Served, Gates, Pacing, HasRoom, StartIsPaced
<1>2. ASSUME NEW u \in Users, gate' = Acquire(gate, u)
      PROVE  GateInv' /\ StartIsPaced
  BY <1>2, Acquiring DEF Starts, StartIsPaced
<1>3. ASSUME NEW u \in Users, gate' = Release(gate, u)
      PROVE  GateInv' /\ StartIsPaced
  BY <1>3, Releasing DEF Starts, StartIsPaced
<1>4. ASSUME NEW u \in Users, gate' = Leave(gate, u)
      PROVE  GateInv' /\ StartIsPaced
  BY <1>4, Leaving DEF Starts, StartIsPaced
<1>5. ASSUME NEW u \in Users, DelayEnds(u)
      PROVE  GateInv' /\ StartIsPaced
  BY <1>5, EndingDelay DEF DelayEnds, Starts, StartIsPaced
<1>6. CASE Elapse
  BY <1>6, Elapsing DEF Elapse, StartIsPaced
<1>7. CASE gate' = NewGate
  BY <1>7, Beginning DEF StartIsPaced
<1> QED
  BY <1>1, <1>2, <1>3, <1>4, <1>5, <1>6, <1>7 DEF GateStep

\* The gate is sound and served in every state.
LEMMA GateAlwaysInv == Spec => []GateInv
<1>1. Init => GateInv
  BY Beginning DEF Init, GateInit, GateInv
<1> QED
  BY <1>1, GateInvStep, PTL DEF Spec

\* No wake-up of the gate is lost: whoever waits while a permit is free is served
\* at the end of a delay that runs (request-gate.ts, processQueue).
THEOREM WaitersAreServed == Spec => []NobodyForgotten
<1>1. GateInv => NobodyForgotten
  BY DEF GateInv, Served, NobodyForgotten
<1> QED
  BY <1>1, GateAlwaysInv, PTL

\* Never more requests at a time than permits, and each request starts Spacing
\* after the one before (request-gate.ts line 60).
THEOREM RequestsArePaced ==
    Spec => [](Cardinality(gate.holders) <= MaxConcurrent) /\ [][StartIsPaced]_vars
<1>1. GateInv => Cardinality(gate.holders) <= MaxConcurrent
  BY DEF GateInv, Sound
<1>2. GateInv /\ [Next]_vars => [StartIsPaced]_vars
  BY GateInvStep
<1> QED
  BY <1>1, <1>2, GateAlwaysInv, PTL DEF Spec

----------------------------------------------------------------------------
(* The promise of the gate: its users as a line and a set of holders.      *)

\* From g on, once the line is L and the holders are H: nobody starts, or the
\* first of L does.
Onward(g, L, H, h) ==
    \/ LineOf(h) = L /\ h.holders = H /\ h.sinceStart = g.sinceStart
    \/ /\ g.sinceStart = Spacing
       /\ h.sinceStart = 0
       /\ Cardinality(H) < MaxConcurrent
       /\ \E u \in Users : L = <<u>> \o LineOf(h) /\ h.holders = H \cup {u}

\* Who is at the gate, waiting or with a permit.
Inside(g) == ToSet(LineOf(g)) \cup g.holders

Different(L) == \A i, k \in DOMAIN L : L[i] = L[k] => i = k

\* Nobody is at the gate twice.
InOrder(L, H) == Different(L) /\ ToSet(L) \cap H = {}

\* The line is made of those who wait.
LEMMA LineType ==
    ASSUME NEW g, Sound(g)
    PROVE  /\ LineOf(g) \in Seq(Users)
           /\ ToSet(LineOf(g)) = Waiting(g)
           /\ \A u \in Pacing(g) : LineOf(g) = <<u>> \o g.queue
<1>1. g.queue \in Seq(Users) /\ Pacing(g) \subseteq Users
  BY PacingType DEF Sound, Gates
<1>2. CASE Pacing(g) = {}
  BY <1>1, <1>2 DEF LineOf, Waiting
<1>3. ASSUME NEW u \in Pacing(g)
      PROVE  /\ LineOf(g) = <<u>> \o g.queue /\ LineOf(g) \in Seq(Users)
             /\ ToSet(LineOf(g)) = Waiting(g)
  <2>1. Pacing(g) = {u} /\ u \in Users
    BY <1>1, <1>3 DEF Sound
  <2>2. LineOf(g) = <<u>> \o g.queue
    BY <2>1 DEF LineOf
  <2>3. /\ LineOf(g) \in Seq(Users) /\ Len(LineOf(g)) = Len(g.queue) + 1
        /\ DOMAIN LineOf(g) = 1..Len(LineOf(g)) /\ DOMAIN g.queue = 1..Len(g.queue)
        /\ LineOf(g)[1] = u
        /\ \A i \in 1..Len(g.queue) : LineOf(g)[i + 1] = g.queue[i]
        /\ Len(g.queue) \in Nat
    BY <1>1, <2>1, <2>2
  <2>4. \A i \in DOMAIN LineOf(g) : i = 1 \/ (i - 1 \in DOMAIN g.queue /\ LineOf(g)[i] = g.queue[i - 1])
    BY <2>3
  <2>5. \A i \in DOMAIN g.queue : i + 1 \in DOMAIN LineOf(g) /\ 1 \in DOMAIN LineOf(g)
    BY <2>3
  <2>6. ToSet(LineOf(g)) \subseteq {u} \cup ToSet(g.queue)
    BY <2>3, <2>4 DEF ToSet
  <2>7. 1 \in DOMAIN LineOf(g)
    BY <2>3
  <2>8. {u} \cup ToSet(g.queue) \subseteq ToSet(LineOf(g))
    BY <2>3, <2>5, <2>7 DEF ToSet
  <2> QED
    BY <2>1, <2>2, <2>3, <2>6, <2>8 DEF Waiting
<1> QED
  BY <1>2, <1>3

\* A user arrives at the end of the line.
LEMMA AcquiringLine ==
    ASSUME NEW g, Sound(g), NEW u \in Users
    PROVE  Onward(g, Append(LineOf(g), u), g.holders, Acquire(g, u))
<1> DEFINE h == [g EXCEPT !.queue = Append(@, u)]
<1>1. g.queue \in Seq(Users) /\ Append(g.queue, u) \in Seq(Users)
  BY DEF Sound, Gates
<1>2. /\ Sound(h) /\ h.holders = g.holders /\ h.sinceStart = g.sinceStart
      /\ h.pacing = g.pacing
  BY <1>1, Requeuing
<1>3. h.queue = Append(g.queue, u)
  BY DEF Sound, Gates
<1>4. Acquire(g, u) = Settle(h)
  BY DEF Acquire
<1> HIDE DEF h
<1>5. LineOf(h) = Append(LineOf(g), u)
  <2>1. CASE Pacing(g) = {}
    BY <1>2, <1>3, <2>1 DEF LineOf, Pacing
  <2>2. ASSUME NEW v \in Pacing(g) PROVE LineOf(h) = Append(LineOf(g), u)
    <3>1. LineOf(g) = <<v>> \o g.queue /\ LineOf(h) = <<v>> \o h.queue /\ v \in Users
      BY <1>2, <2>2, LineType, PacingType DEF Pacing, Sound
    <3> QED
      BY <1>1, <1>3, <3>1
  <2> QED
    BY <2>1, <2>2
<1>6. Serves(h, Settle(h))
  BY <1>2, Settling
<1> QED
  BY <1>2, <1>4, <1>5, <1>6 DEF Serves, Onward

\* A holder goes.
LEMMA ReleasingLine ==
    ASSUME NEW g, Sound(g), NEW u
    PROVE  Onward(g, LineOf(g), g.holders \ {u}, Release(g, u))
<1> DEFINE h == [g EXCEPT !.holders = @ \ {u}]
<1>1. h \in Gates
  BY DEF Sound, Gates
<1>2. /\ h.holders = g.holders \ {u} /\ h.pacing = g.pacing /\ h.sinceStart = g.sinceStart
      /\ h.queue = g.queue
  BY DEF Sound, Gates
<1>3. Release(g, u) = Settle(h)
  BY DEF Release
<1> HIDE DEF h
<1>4. Sound(h)
  <2>1. Cardinality(h.holders) <= Cardinality(g.holders)
        /\ Cardinality(h.holders) \in Nat /\ Cardinality(g.holders) \in Nat
    BY <1>2, PermitCount DEF Sound
  <2>2. Cardinality(h.holders) <= MaxConcurrent
    BY <2>1, GateAssumption DEF Sound
  <2>3. Pacing(h) # {} => Cardinality(h.holders) < MaxConcurrent
    BY <1>2, <2>1, GateAssumption DEF Sound, Pacing
  <2> QED
    BY <1>1, <1>2, <2>2, <2>3 DEF Sound, Pacing
<1>5. LineOf(h) = LineOf(g)
  BY <1>2 DEF LineOf, Pacing
<1>6. Serves(h, Settle(h))
  BY <1>4, Settling
<1> QED
  BY <1>2, <1>3, <1>5, <1>6 DEF Serves, Onward

\* The delay of the first in line is over.
LEMMA EndingDelayLine ==
    ASSUME NEW g, Sound(g), NEW u \in Pacing(g), g.pacing[u] = 0
    PROVE  Onward(g, LineOf(g), g.holders, PacingOver(g, u))
<1> DEFINE h == Grant(g, u)
<1>1. u \in Users /\ Pacing(g) = {u} /\ Cardinality(g.holders) < MaxConcurrent
  BY PacingType DEF Sound
<1>2. g.sinceStart = Spacing
  BY GateAssumption DEF Sound, Gates
<1>3. /\ Sound(h) /\ h.holders = g.holders \cup {u} /\ h.sinceStart = 0
      /\ Pacing(h) = {} /\ h.queue = g.queue
  BY <1>1, Granting
<1>4. PacingOver(g, u) = Settle(h)
  BY DEF PacingOver
<1> HIDE DEF h
<1>5. LineOf(g) = <<u>> \o LineOf(h)
  BY <1>3, LineType DEF LineOf
<1>6. Serves(h, Settle(h)) /\ Spacing # 0
  BY <1>3, Settling, GateAssumption
<1>7. LineOf(Settle(h)) = LineOf(h) /\ Settle(h).holders = h.holders /\ Settle(h).sinceStart = 0
  BY <1>3, <1>6 DEF Serves
<1> QED
  BY <1>1, <1>2, <1>3, <1>4, <1>5, <1>7 DEF Onward

\* M is the line L once the user at p has left it.
Closes(L, p, M) ==
    /\ M \in Seq(Users)
    /\ Len(M) = Len(L) - 1
    /\ \A i \in 1..Len(M) : M[i] = IF i < p THEN L[i] ELSE L[i + 1]

\* What RemoveAt does.
LEMMA Removing ==
    ASSUME NEW L \in Seq(Users), NEW p \in 1..Len(L)
    PROVE  Closes(L, p, RemoveAt(L, p))
<1> DEFINE a == SubSeq(L, 1, p - 1)
           b == SubSeq(L, p + 1, Len(L))
<1>1. Len(L) \in Nat /\ \A i \in 1..Len(L) : L[i] \in Users
  OBVIOUS
<1>2. /\ a \in Seq(Users) /\ Len(a) = p - 1
      /\ \A i \in 1..(p - 1) : a[i] = L[i]
  BY <1>1, SubSeqProperties
<1>3. /\ b \in Seq(Users) /\ Len(b) = Len(L) - p
      /\ \A i \in 1..(Len(L) - p) : b[i] = L[p + i]
  BY <1>1, SubSeqProperties
<1>4. RemoveAt(L, p) = a \o b
  BY DEF RemoveAt
<1> HIDE DEF a, b
<1>5. /\ a \o b \in Seq(Users) /\ Len(a \o b) = Len(L) - 1
      /\ \A i \in 1..(Len(L) - 1) : (a \o b)[i] = IF i <= Len(a) THEN a[i] ELSE b[i - Len(a)]
  <2>1. /\ a \o b \in Seq(Users) /\ Len(a \o b) = Len(a) + Len(b)
        /\ \A i \in 1..(Len(a) + Len(b)) :
              (a \o b)[i] = IF i <= Len(a) THEN a[i] ELSE b[i - Len(a)]
    BY <1>2, <1>3, ConcatProperties
  <2>2. Len(a) + Len(b) = Len(L) - 1
    BY <1>1, <1>2, <1>3
  <2> QED
    BY <2>1, <2>2
<1>6. ASSUME NEW i \in 1..(Len(L) - 1)
      PROVE  (a \o b)[i] = IF i < p THEN L[i] ELSE L[i + 1]
  <2>0. i \in Int /\ i >= 1 /\ i <= Len(L) - 1 /\ p \in Int /\ Len(a) = p - 1
    BY <1>1, <1>2
  <2>1. CASE i < p
    <3>1. i \in 1..(p - 1) /\ i <= Len(a)
      BY <2>0, <2>1
    <3> QED
      BY <1>2, <1>5, <2>1, <3>1
  <2>2. CASE ~(i < p)
    <3> DEFINE k == i - Len(a)
    <3>1. k \in 1..(Len(L) - p) /\ p + k = i + 1 /\ ~(i <= Len(a))
      BY <1>1, <2>0, <2>2
    <3>2. (a \o b)[i] = b[k]
      BY <1>5, <3>1
    <3> HIDE DEF k
    <3>3. b[k] = L[p + k]
      BY <1>3, <3>1
    <3> QED
      BY <2>2, <3>1, <3>2, <3>3
  <2> QED
    BY <2>1, <2>2
<1> QED
  BY <1>4, <1>5, <1>6 DEF Closes

\* A user goes away, wherever it is.
LEMMA LeavingLine ==
    ASSUME NEW g, Sound(g), InOrder(LineOf(g), g.holders), NEW u
    PROVE  \/ /\ u \notin ToSet(LineOf(g))
              /\ Onward(g, LineOf(g), g.holders \ {u}, Leave(g, u))
           \/ \E i \in DOMAIN LineOf(g), M \in Seq(Users) :
                 /\ LineOf(g)[i] = u
                 /\ Closes(LineOf(g), i, M)
                 /\ Onward(g, M, g.holders, Leave(g, u))
<1>1. /\ LineOf(g) \in Seq(Users) /\ ToSet(LineOf(g)) = Waiting(g)
      /\ g.queue \in Seq(Users) /\ Pacing(g) \subseteq Users
  BY LineType, PacingType DEF Sound, Gates
<1>2. CASE u \in g.holders
  BY <1>2, ReleasingLine DEF InOrder, Leave
<1>3. CASE u \notin g.holders /\ u \in Pacing(g)
  <2> DEFINE h == Unpace(g, u)
  <2>1. /\ Sound(h) /\ h.holders = g.holders /\ h.sinceStart = g.sinceStart
        /\ h.queue = g.queue /\ Pacing(h) = {}
    BY <1>3, Unpacing DEF Sound
  <2>2. Leave(g, u) = Settle(h)
    BY <1>3 DEF Leave
  <2> HIDE DEF h
  <2>3. Serves(h, Settle(h)) /\ LineOf(h) = g.queue
    BY <2>1, Settling DEF LineOf
  <2>4. Onward(g, g.queue, g.holders, Leave(g, u))
    BY <2>1, <2>2, <2>3 DEF Serves, Onward
  <2>5. LineOf(g) = <<u>> \o g.queue /\ u \in Users
    BY <1>1, <1>3, LineType
  <2>6. 1 \in DOMAIN LineOf(g) /\ LineOf(g)[1] = u /\ Closes(LineOf(g), 1, g.queue)
    BY <1>1, <2>5 DEF Closes
  <2> QED
    BY <1>1, <2>4, <2>6
<1>4. CASE u \notin g.holders /\ u \notin Pacing(g) /\ u \in ToSet(g.queue)
  <2> DEFINE place == CHOOSE i \in DOMAIN g.queue : g.queue[i] = u
             q == RemoveAt(g.queue, place)
             h == [g EXCEPT !.queue = q]
  <2>1. place \in 1..Len(g.queue) /\ g.queue[place] = u
    BY <1>1, <1>4 DEF ToSet
  <2>2. Leave(g, u) = h
    BY <1>4, Zenon DEF Leave, Withdraw
  <2> HIDE DEF place
  <2>3. Closes(g.queue, place, q)
    BY <1>1, <2>1, Removing
  <2> HIDE DEF q
  <2>4. /\ h.holders = g.holders /\ h.pacing = g.pacing /\ h.sinceStart = g.sinceStart
        /\ h.queue = q /\ Sound(h)
    BY <2>3, Requeuing DEF Closes, Sound, Gates
  <2> HIDE DEF h
  <2>5. Onward(g, LineOf(h), g.holders, Leave(g, u)) /\ LineOf(h) \in Seq(Users)
    BY <2>2, <2>4, LineType DEF Onward
  <2>6. CASE Pacing(g) = {}
    <3>1. LineOf(g) = g.queue /\ LineOf(h) = q
      BY <2>4, <2>6 DEF LineOf, Pacing
    <3> QED
      BY <1>1, <2>1, <2>3, <2>5, <3>1
  <2>7. ASSUME NEW v \in Pacing(g)
        PROVE  \E i \in DOMAIN LineOf(g) : LineOf(g)[i] = u /\ Closes(LineOf(g), i, LineOf(h))
    <3>1. LineOf(g) = <<v>> \o g.queue /\ LineOf(h) = <<v>> \o q /\ v \in Users
      BY <1>1, <2>4, <2>7, LineType DEF Pacing
    <3>2. /\ place + 1 \in DOMAIN LineOf(g) /\ LineOf(g)[place + 1] = u
          /\ Len(LineOf(g)) = Len(g.queue) + 1
          /\ LineOf(g)[1] = v /\ \A i \in 2..(Len(g.queue) + 1) : LineOf(g)[i] = g.queue[i - 1]
      BY <1>1, <2>1, <3>1
    <3>3. /\ Len(LineOf(h)) = Len(q) + 1 /\ Len(q) = Len(g.queue) - 1
          /\ LineOf(h)[1] = v /\ \A i \in 2..(Len(q) + 1) : LineOf(h)[i] = q[i - 1]
      BY <2>3, <3>1 DEF Closes
    <3>4. ASSUME NEW i \in 1..Len(LineOf(h))
          PROVE  LineOf(h)[i] = IF i < place + 1 THEN LineOf(g)[i] ELSE LineOf(g)[i + 1]
      <4>0. Len(g.queue) \in Nat
        BY <1>1
      <4>1. CASE i = 1
        BY <4>0, <2>1, <3>2, <3>3, <4>1
      <4>2. CASE i # 1
        <5>1. i - 1 \in 1..Len(q) /\ i \in 2..(Len(q) + 1)
              /\ i \in 2..(Len(g.queue) + 1) /\ i + 1 \in 2..(Len(g.queue) + 1)
          BY <4>0, <3>3, <4>2
        <5>2. q[i - 1] = IF i - 1 < place THEN g.queue[i - 1] ELSE g.queue[i]
          BY <2>3, <5>1 DEF Closes
        <5>3. LineOf(h)[i] = q[i - 1] /\ LineOf(g)[i] = g.queue[i - 1]
              /\ LineOf(g)[i + 1] = g.queue[i]
          BY <3>2, <3>3, <5>1
        <5> QED
          BY <2>1, <5>1, <5>2, <5>3
      <4> QED
        BY <4>1, <4>2
    <3>5. Closes(LineOf(g), place + 1, LineOf(h))
      BY <2>5, <3>2, <3>3, <3>4 DEF Closes
    <3> QED
      BY <3>2, <3>5
  <2> QED
    BY <2>5, <2>6, <2>7
<1>5. CASE u \notin g.holders /\ u \notin Waiting(g)
  <2>1. Leave(g, u) = [g EXCEPT !.queue = g.queue]
    BY <1>5, Zenon DEF Leave, Withdraw, Waiting
  <2>2. Leave(g, u) = g
    BY <2>1 DEF Sound, Gates
  <2>3. g.holders \ {u} = g.holders
    BY <1>5
  <2> QED
    BY <1>1, <1>5, <2>2, <2>3 DEF Onward
<1> QED
  BY <1>2, <1>3, <1>4, <1>5 DEF Waiting

\* The line goes on as it was put together, and holds nobody twice.
LEMMA OnwardInOrder ==
    ASSUME NEW g, NEW h, Sound(h), NEW L \in Seq(Users), NEW H, InOrder(L, H),
           Onward(g, L, H, h)
    PROVE  InOrder(LineOf(h), h.holders) /\ Inside(h) = ToSet(L) \cup H
<1>1. CASE LineOf(h) = L /\ h.holders = H
  BY <1>1 DEF Inside
<1>2. ASSUME NEW u \in Users, L = <<u>> \o LineOf(h), h.holders = H \cup {u}
      PROVE  InOrder(LineOf(h), h.holders) /\ Inside(h) = ToSet(L) \cup H
  <2>1. LineOf(h) \in Seq(Users)
    BY LineType
  <2>2. /\ DOMAIN L = 1..(Len(LineOf(h)) + 1) /\ Len(LineOf(h)) \in Nat /\ L[1] = u
        /\ DOMAIN LineOf(h) = 1..Len(LineOf(h))
        /\ \A i \in DOMAIN LineOf(h) : i + 1 \in DOMAIN L /\ i + 1 # 1 /\ L[i + 1] = LineOf(h)[i]
    BY <1>2, <2>1
  <2>3. \A i \in DOMAIN L : i = 1 \/ (i - 1 \in DOMAIN LineOf(h) /\ L[i] = LineOf(h)[i - 1])
    BY <2>2
  <2>4. ToSet(L) = {u} \cup ToSet(LineOf(h))
    <3>1. ToSet(L) \subseteq {u} \cup ToSet(LineOf(h))
      BY <2>2, <2>3 DEF ToSet
    <3>2. 1 \in DOMAIN L
      BY <2>2
    <3>3. {u} \cup ToSet(LineOf(h)) \subseteq ToSet(L)
      BY <2>2, <3>2 DEF ToSet
    <3> QED
      BY <3>1, <3>3
  <2>5. Different(LineOf(h))
    <3> SUFFICES ASSUME NEW i \in DOMAIN LineOf(h), NEW k \in DOMAIN LineOf(h),
                        LineOf(h)[i] = LineOf(h)[k]
                 PROVE  i = k
      BY DEF Different
    <3>1. i + 1 = k + 1
      BY <2>2 DEF InOrder, Different
    <3> QED
      BY <2>2, <3>1
  <2>6. u \notin ToSet(LineOf(h))
    <3> SUFFICES ASSUME NEW i \in DOMAIN LineOf(h), LineOf(h)[i] = u
                 PROVE  FALSE
      BY DEF ToSet
    <3>1. i + 1 = 1
      BY <2>2 DEF InOrder, Different
    <3> QED
      BY <2>2, <3>1
  <2> QED
    BY <1>2, <2>4, <2>5, <2>6 DEF InOrder, Inside
<1> QED
  BY <1>1, <1>2 DEF Onward

\* A line that a new user joins.
LEMMA JoinedLine ==
    ASSUME NEW L \in Seq(Users), Different(L), NEW u \in Users, u \notin ToSet(L)
    PROVE  Different(Append(L, u)) /\ ToSet(Append(L, u)) = ToSet(L) \cup {u}
<1> DEFINE M == Append(L, u)
<1>1. /\ Len(L) \in Nat /\ DOMAIN L = 1..Len(L) /\ DOMAIN M = 1..(Len(L) + 1)
      /\ \A i \in DOMAIN L : i \in DOMAIN M /\ M[i] = L[i] /\ M[i] # u
      /\ M[Len(L) + 1] = u /\ Len(L) + 1 \in DOMAIN M
      /\ \A i \in DOMAIN M : i \in DOMAIN L \/ i = Len(L) + 1
  BY DEF ToSet
<1> HIDE DEF M
<1>2. Different(M)
  BY <1>1 DEF Different
<1>3. ToSet(M) \subseteq ToSet(L) \cup {u}
  BY <1>1 DEF ToSet
<1>4. ToSet(L) \cup {u} \subseteq ToSet(M)
  BY <1>1 DEF ToSet
<1> QED
  BY <1>2, <1>3, <1>4 DEF M

\* A line that a user has left.
LEMMA ClosedLine ==
    ASSUME NEW L \in Seq(Users), Different(L), NEW p \in DOMAIN L, NEW M, Closes(L, p, M)
    PROVE  Different(M) /\ ToSet(M) = ToSet(L) \ {L[p]}
<1>1. /\ Len(L) \in Nat /\ DOMAIN L = 1..Len(L) /\ Len(M) = Len(L) - 1
      /\ DOMAIN M = 1..Len(M) /\ p \in 1..Len(L)
  BY DEF Closes
<1>2. \A i \in DOMAIN M : /\ i < p => i \in DOMAIN L /\ M[i] = L[i]
                          /\ ~(i < p) => i + 1 \in DOMAIN L /\ i + 1 > p /\ M[i] = L[i + 1]
  BY <1>1 DEF Closes
<1>3. \A i \in DOMAIN L : /\ i < p => i \in DOMAIN M
                          /\ i > p => i - 1 \in DOMAIN M /\ ~(i - 1 < p) /\ i - 1 + 1 = i
  BY <1>1
<1>4. Different(M)
  <2> SUFFICES ASSUME NEW i \in DOMAIN M, NEW k \in DOMAIN M, M[i] = M[k] PROVE i = k
    BY DEF Different
  <2> DEFINE o(m) == IF m < p THEN m ELSE m + 1
  <2>1. o(i) \in DOMAIN L /\ o(k) \in DOMAIN L /\ M[i] = L[o(i)] /\ M[k] = L[o(k)]
    BY <1>2
  <2>2. o(i) = o(k)
    BY <2>1 DEF Different
  <2> QED
    BY <1>1, <2>2
<1>5. ToSet(M) \subseteq ToSet(L) \ {L[p]}
  <2> SUFFICES ASSUME NEW i \in DOMAIN M PROVE M[i] \in ToSet(L) \ {L[p]}
    BY DEF ToSet
  <2>1. CASE i < p
    BY <1>1, <1>2, <2>1 DEF Different, ToSet
  <2>2. CASE ~(i < p)
    BY <1>1, <1>2, <2>2 DEF Different, ToSet
  <2> QED
    BY <2>1, <2>2
<1>6. ToSet(L) \ {L[p]} \subseteq ToSet(M)
  <2> SUFFICES ASSUME NEW i \in DOMAIN L, i # p PROVE L[i] \in ToSet(M)
    BY DEF ToSet
  <2>1. CASE i < p
    BY <1>2, <1>3, <2>1 DEF ToSet
  <2>2. CASE i > p
    <3>1. i - 1 \in DOMAIN M /\ M[i - 1] = L[i]
      BY <1>2, <1>3, <2>2
    <3> QED
      BY <3>1 DEF ToSet
  <2> QED
    BY <1>1, <2>1, <2>2
<1> QED
  BY <1>4, <1>5, <1>6

\* The numbers up to one, without one of them or with all.
LEMMA CountUpTo ==
    ASSUME NEW i \in Nat
    PROVE  /\ Cardinality(1..i) = i
           /\ \A p \in 1..i : Cardinality((1..i) \ {p}) = i - 1
<1>1. IsFiniteSet(1..i) /\ Cardinality(1..i) = i
  BY FS_Interval
<1> QED
  BY <1>1, FS_RemoveElement

\* PacedQueue counts as this module does.
LEMMA SameCount ==
    ASSUME NEW S
    PROVE  Promise!Cardinality(S) = Cardinality(S)
BY Zenon DEF Promise!Cardinality, Cardinality

\* Nobody gives up: who waited still heads the line.
LEMMA AllStay ==
    ASSUME Line \in Seq(Users), NEW M \in Seq(Users), Len(Line) <= Len(M),
           \A i \in 1..Len(Line) : M[i] = Line[i]
    PROVE  Promise!Staying({}, M)
<1> DEFINE stay == {i \in DOMAIN Line : Line[i] \notin {}}
           number(i) == Cardinality({k \in stay : k <= i})
<1>1. stay = 1..Len(Line) /\ Len(Line) \in Nat
  OBVIOUS
<1>2. Cardinality(stay) = Len(Line)
  <2>1. Cardinality(1..Len(Line)) = Len(Line)
    BY <1>1, CountUpTo
  <2> QED
    BY <1>1, <2>1, Zenon
<1>3. ASSUME NEW i \in stay PROVE M[number(i)] = Line[i]
  <2>1. {k \in stay : k <= i} = 1..i /\ i \in 1..Len(Line) /\ i \in Nat /\ 1 \in 1..i
    BY <1>1
  <2>2. number(i) = i
    BY <2>1, CountUpTo
  <2> QED
    BY <2>1, <2>2
<1>4. Promise!Staying({}, M) <=>
        Cardinality(stay) <= Len(M) /\ \A i \in stay : M[number(i)] = Line[i]
  BY SameCount, Zenon DEF Promise!Staying
<1> HIDE DEF stay, number
<1> QED
  BY <1>1, <1>2, <1>3, <1>4

\* One gives up: the others close the gap.
LEMMA AllButOneStay ==
    ASSUME Line \in Seq(Users), Different(Line), NEW p \in DOMAIN Line,
           NEW M, Closes(Line, p, M)
    PROVE  Promise!Staying({Line[p]}, M)
<1> DEFINE stay == {i \in DOMAIN Line : Line[i] \notin {Line[p]}}
           number(i) == Cardinality({k \in stay : k <= i})
<1>1. /\ stay = (1..Len(Line)) \ {p} /\ Len(Line) \in Nat /\ p \in 1..Len(Line)
      /\ Len(M) = Len(Line) - 1
  BY DEF Different, Closes
<1>2. Cardinality(stay) = Len(M)
  BY <1>1, CountUpTo
<1>3. ASSUME NEW i \in stay PROVE M[number(i)] = Line[i]
  <2>1. CASE i < p
    <3>1. {k \in stay : k <= i} = 1..i /\ i \in Nat /\ 1 \in 1..i /\ i \in 1..Len(M)
      BY <1>1, <2>1
    <3>2. number(i) = i
      BY <3>1, CountUpTo
    <3> QED
      BY <2>1, <3>1, <3>2 DEF Closes
  <2>2. CASE i > p
    <3>1. {k \in stay : k <= i} = (1..i) \ {p} /\ i \in Nat /\ p \in 1..i
          /\ i - 1 \in 1..Len(M) /\ ~(i - 1 < p) /\ i - 1 + 1 = i
      BY <1>1, <2>2
    <3>2. number(i) = i - 1
      BY <3>1, CountUpTo
    <3>3. M[i - 1] = Line[i - 1 + 1]
      BY <3>1 DEF Closes
    <3> QED
      BY <3>1, <3>2, <3>3
  <2> QED
    BY <1>1, <2>1, <2>2
<1>4. Promise!Staying({Line[p]}, M) <=>
        Cardinality(stay) <= Len(M) /\ \A i \in stay : M[number(i)] = Line[i]
  BY SameCount, Zenon DEF Promise!Staying
<1> HIDE DEF stay, number
<1> QED
  BY <1>1, <1>2, <1>3, <1>4

\* The gate as a step of its line: from L and H on, with some gone.
LEMMA PromiseStep ==
    ASSUME NEW L, NEW H, H \subseteq gate.holders, NEW gone \in SUBSET Users,
           Promise!Staying(gone, L), Onward(gate, L, H, gate')
    PROVE  Promise!Next
<1>1. Line = LineOf(gate) /\ Line' = LineOf(gate')
  BY DEF Line, LineOf
<1> DEFINE done == gate.holders \ H
<1>2. done \in SUBSET gate.holders /\ gate.holders \ done = H
  OBVIOUS
<1> HIDE DEF done
<1>3. CASE Line' = L /\ gate'.holders = H /\ gate'.sinceStart = gate.sinceStart
  <2>1. Promise!Move(done, gone)
    BY <1>2, <1>3 DEF Promise!Move
  <2> QED
    BY <1>2, <2>1 DEF Promise!Next
<1>4. ASSUME NEW u \in Users, L = <<u>> \o Line', gate'.holders = H \cup {u},
             gate.sinceStart = Spacing, gate'.sinceStart = 0, Cardinality(H) < MaxConcurrent
      PROVE  Promise!Next
  <2>1. Promise!Start(done, gone, u)
    BY <1>2, <1>4, SameCount DEF Promise!Start
  <2> QED
    BY <1>2, <2>1 DEF Promise!Next
<1> QED
  BY <1>1, <1>3, <1>4 DEF Onward

\* Nobody is at the gate twice, in a state.
Orderly == InOrder(LineOf(gate), gate.holders)

\* What a step of the gate does to who is there.
Arrives(u) == u \notin Inside(gate) /\ gate' = Acquire(gate, u)
Departs(u) == \/ u \in gate.holders /\ gate' = Release(gate, u)
              \/ gate' = Leave(gate, u)

\* A user who is not at the gate arrives.
LEMMA ArrivesStep ==
    ASSUME GateInv, Orderly, NEW u \in Users, Arrives(u)
    PROVE  Orderly' /\ Promise!Next /\ Inside(gate') = Inside(gate) \cup {u}
<1> PICK L : L = Append(LineOf(gate), u)
  OBVIOUS
<1>1. Onward(gate, L, gate.holders, gate') /\ Sound(gate')
  BY AcquiringLine, Acquiring DEF Arrives, GateInv
<1>2. LineOf(gate) \in Seq(Users) /\ u \notin ToSet(LineOf(gate)) /\ u \notin gate.holders
  BY LineType DEF GateInv, Arrives, Inside
<1>3. Different(L) /\ ToSet(L) = ToSet(LineOf(gate)) \cup {u} /\ L \in Seq(Users)
  BY <1>2, JoinedLine DEF Orderly, InOrder
<1>4. InOrder(L, gate.holders)
  BY <1>2, <1>3 DEF Orderly, InOrder
<1>5. Line = LineOf(gate)
  BY DEF Line, LineOf
<1>6. Promise!Staying({}, L)
  <2>1. Len(LineOf(gate)) <= Len(L) /\ \A i \in 1..Len(LineOf(gate)) : L[i] = LineOf(gate)[i]
    BY <1>2
  <2> QED
    BY <1>2, <1>3, <1>5, <2>1, AllStay
<1>7. InOrder(LineOf(gate'), gate'.holders) /\ Inside(gate') = ToSet(L) \cup gate.holders
  <2>1. L \in Seq(Users) /\ InOrder(L, gate.holders) /\ Sound(gate')
        /\ Onward(gate, L, gate.holders, gate')
    BY <1>1, <1>3, <1>4
  <2> QED
    BY <2>1, OnwardInOrder
<1>8. Promise!Next
  BY <1>1, <1>6, PromiseStep
<1> QED
  BY <1>3, <1>7, <1>8 DEF Orderly, Inside

\* The line goes on with everybody in it.
LEMMA NobodyGone ==
    ASSUME GateInv, Orderly, Sound(gate'), NEW H, H \subseteq gate.holders,
           Onward(gate, LineOf(gate), H, gate')
    PROVE  Orderly' /\ Promise!Next /\ Inside(gate') = ToSet(LineOf(gate)) \cup H
<1>1. LineOf(gate) \in Seq(Users) /\ Line = LineOf(gate)
  BY LineType DEF GateInv, Line, LineOf
<1>2. InOrder(LineOf(gate), H)
  BY DEF Orderly, InOrder
<1>3. InOrder(LineOf(gate'), gate'.holders) /\ Inside(gate') = ToSet(LineOf(gate)) \cup H
  BY <1>1, <1>2, OnwardInOrder
<1>4. Promise!Staying({}, LineOf(gate))
  BY <1>1, AllStay
<1>5. Promise!Next
  BY <1>4, PromiseStep
<1> QED
  BY <1>3, <1>5 DEF Orderly

\* A user gives its permit back, or leaves.
LEMMA DepartsStep ==
    ASSUME GateInv, Orderly, NEW u, Departs(u)
    PROVE  /\ Orderly' /\ Promise!Next
           /\ Inside(gate') = Inside(gate) \ {u}
<1>1. CASE u \in gate.holders /\ gate' = Release(gate, u)
  <2>1. Onward(gate, LineOf(gate), gate.holders \ {u}, gate') /\ Sound(gate')
    BY <1>1, ReleasingLine, Releasing DEF GateInv
  <2>2. Orderly' /\ Promise!Next /\ Inside(gate') = ToSet(LineOf(gate)) \cup (gate.holders \ {u})
    BY <2>1, NobodyGone
  <2> QED
    BY <1>1, <2>2 DEF Orderly, InOrder, Inside
<1>2. CASE gate' = Leave(gate, u)
  <2>1. Sound(gate')
    BY <1>2, Leaving DEF GateInv
  <2>2. CASE u \notin ToSet(LineOf(gate))
             /\ Onward(gate, LineOf(gate), gate.holders \ {u}, gate')
    BY <2>1, <2>2, NobodyGone DEF Inside
  <2>3. ASSUME NEW p \in DOMAIN LineOf(gate), NEW M \in Seq(Users), LineOf(gate)[p] = u,
               Closes(LineOf(gate), p, M), Onward(gate, M, gate.holders, gate')
        PROVE  Orderly' /\ Promise!Next /\ Inside(gate') = Inside(gate) \ {u}
    <3>1. LineOf(gate) \in Seq(Users) /\ Line = LineOf(gate)
      BY LineType DEF GateInv, Line, LineOf
    <3>2. Different(M) /\ ToSet(M) = ToSet(LineOf(gate)) \ {u}
      BY <2>3, <3>1, ClosedLine DEF Orderly, InOrder
    <3>3. u \in ToSet(LineOf(gate)) /\ u \notin gate.holders
      BY <2>3 DEF Orderly, InOrder, ToSet
    <3>4. InOrder(M, gate.holders)
      BY <3>2 DEF Orderly, InOrder
    <3>5. InOrder(LineOf(gate'), gate'.holders) /\ Inside(gate') = ToSet(M) \cup gate.holders
      BY <2>1, <2>3, <3>4, OnwardInOrder
    <3>6. Promise!Staying({u}, M)
      BY <2>3, <3>1, AllButOneStay DEF Orderly, InOrder
    <3>7. {u} \in SUBSET Users
      BY <2>3, <3>1
    <3>8. Promise!Next
      BY <2>3, <3>6, <3>7, PromiseStep
    <3> QED
      BY <3>2, <3>3, <3>5, <3>8 DEF Orderly, Inside
  <2> QED
    BY <1>2, <2>2, <2>3, LeavingLine DEF GateInv, Orderly
<1> QED
  BY <1>1, <1>2 DEF Departs

\* A delay is over.
LEMMA DelayStep ==
    ASSUME GateInv, Orderly, NEW u \in Users, DelayEnds(u)
    PROVE  Orderly' /\ Promise!Next /\ Inside(gate') = Inside(gate)
<1>1. Onward(gate, LineOf(gate), gate.holders, gate') /\ Sound(gate')
  BY EndingDelayLine, EndingDelay DEF GateInv, DelayEnds
<1> QED
  BY <1>1, NobodyGone DEF Inside

\* A step of the gate at which nobody arrives who is there already.
OrderlyStep ==
    \/ UNCHANGED gate
    \/ \E u \in Users : Arrives(u) \/ Departs(u) \/ DelayEnds(u)
    \/ Elapse
    \/ gate' = NewGate

\* A new gate is empty.
LEMMA NewLine == LineOf(NewGate) = <<>> /\ Inside(NewGate) = {} /\ NewGate.sinceStart = Spacing
<1>1. LineOf(NewGate) = <<>>
  <2>1. NewGate.queue = <<>> /\ NewGate.pacing = <<>>
    BY DEF NewGate
  <2>2. <<>> \in Seq(Users) /\ Len(<<>>) = 0
    OBVIOUS
  <2>3. Pacing(NewGate) = {}
    BY <2>1, <2>2 DEF Pacing
  <2> QED
    BY <2>1, <2>3 DEF LineOf
<1>2. ToSet(<<>>) = {}
  BY DEF ToSet
<1> QED
  BY <1>1, <1>2 DEF Inside, NewGate

\* Such a step keeps the order and is one of PacedQueue.
LEMMA OrderlySteps ==
    ASSUME GateInv, Orderly, OrderlyStep
    PROVE  Orderly' /\ [Promise!Next]_(Promise!vars)
<1>1. CASE UNCHANGED gate
  BY <1>1 DEF Orderly, Line, LineOf, Pacing, Promise!vars
<1>2. ASSUME NEW u \in Users, Arrives(u) \/ Departs(u) \/ DelayEnds(u)
      PROVE  Orderly' /\ Promise!Next
  BY <1>2, ArrivesStep, DepartsStep, DelayStep
<1>3. CASE Elapse
  <2>1. /\ gate'.holders = gate.holders /\ gate'.sinceStart = gate.sinceStart + 1
        /\ LineOf(gate') = LineOf(gate) /\ gate.sinceStart < Spacing
    BY <1>3, Elapsing DEF Elapse, GateInv
  <2>2. Line = LineOf(gate) /\ Line' = LineOf(gate')
    BY DEF Line, LineOf
  <2>3. Promise!Elapse
    BY <2>1, <2>2 DEF Promise!Elapse
  <2>4. Orderly'
    BY <2>1 DEF Orderly
  <2> QED
    BY <2>3, <2>4 DEF Promise!Next
<1>4. CASE gate' = NewGate
  <2>1. LineOf(gate') = <<>> /\ gate'.holders = {} /\ gate'.sinceStart = Spacing
    BY <1>4, NewLine, Beginning
  <2>2. Line' = LineOf(gate')
    BY DEF Line, LineOf
  <2>3. Promise!Restart
    BY <2>1, <2>2 DEF Promise!Restart
  <2>4. Orderly'
    BY <2>1 DEF Orderly, InOrder, Different
  <2> QED
    BY <2>3, <2>4 DEF Promise!Next
<1> QED
  BY <1>1, <1>2, <1>3, <1>4 DEF OrderlyStep

----------------------------------------------------------------------------
(* The connection and the refresh of its tokens.                           *)

Rows      == [connection : Connections, generation : Generations, tokens : Connections] \cup {NoRow}
Refreshes == [owner : Jobs, generation : Generations, tokens : Connections] \cup {NoRefresh}

ServiceType ==
    /\ row \in Rows
    /\ lastKnown \in Generations
    /\ refresh \in Refreshes
    /\ connections \in 0..MaxConnections
    /\ rebinds \in 0..MaxRebinds
    /\ restarts \in 0..MaxRestarts

\* The row is that of the last authorization, with its tokens; generations only
\* come from authorizations and rebinds.
RowInv ==
    /\ Connected => /\ row.connection = connections
                    /\ row.tokens = connections
                    /\ row.generation >= 1
    /\ row.generation <= connections + rebinds
    /\ lastKnown <= connections + rebinds

\* The generation of a refresh in flight is never given out again, so that it
\* tells whether the tokens still belong to the row.
RefreshInv ==
    refresh # NoRefresh =>
        /\ refresh.generation >= 1
        /\ refresh.generation <= lastKnown
        /\ Connected => /\ refresh.generation <= row.generation
                        /\ refresh.generation = row.generation => refresh.tokens = row.tokens

ServiceInv == ServiceType /\ RowInv /\ RefreshInv

\* The bounds as numbers.
LEMMA BoundsType ==
    /\ MaxConnections \in Nat /\ MaxRebinds \in Nat /\ MaxRestarts \in Nat
    /\ MaxThrottleRetries \in Nat /\ MaxRetries5xx \in Nat /\ RequestsPerJob \in Nat \ {0}
BY ClientAssumption

\* The larger of two generations.
LEMMA HighestOf ==
    ASSUME NEW a \in Nat, NEW b \in Nat
    PROVE  Highest(a, b) \in {a, b} /\ Highest(a, b) >= a /\ Highest(a, b) >= b
BY DEF Highest

\* What UpdatesRow says of a refresh in flight: its tokens are those of the row.
LEMMA UpdateKeepsTokens ==
    ASSUME ServiceInv, UpdatesRow(refresh.generation)
    PROVE  Connected /\ refresh # NoRefresh /\ refresh.tokens = row.tokens /\ row \in Rows
BY DEF ServiceInv, ServiceType, RowInv, RefreshInv, UpdatesRow, NoRefresh

\* Steps that leave the service alone, or forget a refresh.
LEMMA ServiceUntouched ==
    ASSUME ServiceInv, UNCHANGED <<row, lastKnown, bounds>>, refresh' \in {refresh, NoRefresh}
    PROVE  ServiceInv'
BY DEF ServiceInv, ServiceType, RowInv, RefreshInv, Rows, Refreshes, Connected, Connections,
       Generations, bounds

\* A refresh begins on the generation and the tokens of the row.
LEMMA RefreshBegins ==
    ASSUME ServiceInv, NEW j \in Jobs, AwaitRefresh(j), UNCHANGED bounds
    PROVE  ServiceInv'
<1>1. CASE UNCHANGED service
  BY <1>1, ServiceUntouched DEF service
<1>2. CASE /\ Connected
           /\ refresh' = [owner |-> j, generation |-> row.generation, tokens |-> row.tokens]
           /\ lastKnown' = Highest(lastKnown, row.generation)
           /\ UNCHANGED row
  <2>1. row \in [connection : Connections, generation : Generations, tokens : Connections]
    BY <1>2 DEF ServiceInv, ServiceType, Rows, Connected
  <2>2. row.generation \in Nat /\ lastKnown \in Nat /\ connections \in Nat /\ rebinds \in Nat
    BY <2>1, BoundsType DEF ServiceInv, ServiceType, Generations
  <2>3. /\ lastKnown' \in Generations /\ lastKnown' <= connections + rebinds
        /\ row.generation <= lastKnown'
    BY <1>2, <2>1, <2>2, HighestOf DEF ServiceInv, ServiceType, RowInv
  <2>4. refresh' \in Refreshes
    BY <1>2, <2>1 DEF Refreshes
  <2>5. ServiceType'
    BY <1>2, <2>3, <2>4 DEF ServiceInv, ServiceType, bounds, Rows, Connections, Generations, Refreshes
  <2>6. RowInv'
    BY <1>2, <2>3 DEF ServiceInv, RowInv, Connected, bounds
  <2>7. RefreshInv'
    BY <1>2, <2>2, <2>3 DEF ServiceInv, RowInv, RefreshInv, Connected
  <2> QED
    BY <2>5, <2>6, <2>7 DEF ServiceInv
<1> QED
  BY <1>1, <1>2 DEF AwaitRefresh

\* A refresh returns.
LEMMA RefreshEnds ==
    ASSUME ServiceInv, RefreshReturns
    PROVE  ServiceInv'
<1>1. row' = row
  <2>1. CASE UpdatesRow(refresh.generation) /\ row' = [row EXCEPT !.tokens = refresh.tokens]
    <3>1. refresh.tokens = row.tokens /\ row \in Rows
      BY <2>1, UpdateKeepsTokens
    <3> QED
      BY <2>1, <3>1 DEF Rows, NoRow
  <2> QED
    BY <2>1 DEF RefreshReturns
<1> QED
  BY <1>1, ServiceUntouched DEF RefreshReturns

\* An authorization is completed: its generation is new.
LEMMA ExchangeEnds ==
    ASSUME ServiceInv, ExchangeReturns
    PROVE  ServiceInv'
<1>1. CASE UNCHANGED <<row, lastKnown, connections>>
  BY <1>1, ServiceUntouched DEF ExchangeReturns, bounds
<1>2. CASE /\ connections < MaxConnections
           /\ connections' = connections + 1
           /\ lastKnown' = NextGeneration
           /\ row' = [connection |-> connections + 1, generation |-> NextGeneration,
                      tokens |-> connections + 1]
  <2>1. UNCHANGED <<refresh, rebinds, restarts>>
    BY DEF ExchangeReturns
  <2>2. /\ row.generation \in Nat /\ lastKnown \in Nat /\ connections \in Nat /\ rebinds \in Nat
        /\ connections <= MaxConnections /\ rebinds <= MaxRebinds
    BY BoundsType DEF ServiceInv, ServiceType, Generations, Rows, NoRow
  <2>3. /\ NextGeneration \in Nat /\ NextGeneration >= 1
        /\ NextGeneration > lastKnown /\ NextGeneration > row.generation
        /\ NextGeneration <= connections + 1 + rebinds
    <3>1. /\ Highest(lastKnown, row.generation) \in {lastKnown, row.generation}
          /\ Highest(lastKnown, row.generation) >= lastKnown
          /\ Highest(lastKnown, row.generation) >= row.generation
      BY <2>2, HighestOf
    <3> QED
      BY <2>2, <3>1 DEF NextGeneration, ServiceInv, RowInv
  <2>4. NextGeneration \in Generations /\ connections + 1 \in Connections
        /\ connections + 1 \in 0..MaxConnections
    BY <1>2, <2>2, <2>3, BoundsType DEF Generations, Connections
  <2>5. ServiceType'
    BY <1>2, <2>1, <2>4 DEF ServiceInv, ServiceType, Rows, Connections, Generations, Refreshes
  <2>6. RowInv'
    BY <1>2, <2>1, <2>2, <2>3 DEF RowInv, Connected
  <2>7. RefreshInv'
    <3> SUFFICES ASSUME refresh # NoRefresh
                 PROVE  /\ refresh.generation >= 1 /\ refresh.generation <= lastKnown'
                        /\ refresh.generation < row'.generation
      BY <2>1, <1>2, <2>3 DEF RefreshInv, ServiceInv, ServiceType, Refreshes, Generations
    <3>1. refresh.generation \in Nat
      BY DEF ServiceInv, ServiceType, Refreshes, Generations
    <3> QED
      BY <1>2, <2>2, <2>3, <3>1 DEF RefreshInv, ServiceInv
  <2> QED
    BY <2>5, <2>6, <2>7 DEF ServiceInv
<1> QED
  BY <1>1, <1>2 DEF ExchangeReturns

\* A disconnection begins, or ends.
LEMMA DisconnectSteps ==
    ASSUME ServiceInv, StartDisconnect \/ DisconnectReturns
    PROVE  ServiceInv'
<1>1. /\ row.generation \in Nat /\ lastKnown \in Nat /\ connections \in Nat /\ rebinds \in Nat
      /\ row.generation \in Generations /\ lastKnown \in Generations
  BY BoundsType DEF ServiceInv, ServiceType, Generations, Rows, NoRow
<1>2. CASE StartDisconnect
  <2>1. /\ lastKnown' \in {lastKnown, row.generation} /\ lastKnown' >= lastKnown
        /\ UNCHANGED <<row, refresh, bounds>>
    BY <1>1, <1>2, HighestOf DEF StartDisconnect
  <2>2. ServiceType'
    BY <1>1, <2>1 DEF ServiceInv, ServiceType, Rows, Refreshes, Connections, Generations, bounds
  <2>3. RowInv'
    BY <1>1, <2>1 DEF ServiceInv, RowInv, Connected, bounds
  <2>4. RefreshInv'
    <3>1. refresh # NoRefresh => refresh.generation \in Nat
      BY DEF ServiceInv, ServiceType, Refreshes, Generations
    <3> QED
      BY <1>1, <2>1, <3>1 DEF ServiceInv, RefreshInv, Connected
  <2> QED
    BY <2>2, <2>3, <2>4 DEF ServiceInv
<1>3. CASE DisconnectReturns
  <2>1. row' = NoRow /\ ~Connected' /\ UNCHANGED <<lastKnown, refresh, bounds>>
    BY <1>3 DEF DisconnectReturns, Connected
  <2>2. ServiceType'
    BY <2>1 DEF ServiceInv, ServiceType, Rows, Refreshes, Connections, Generations, bounds
  <2>3. RowInv'
    BY <1>1, <2>1 DEF ServiceInv, RowInv, bounds, NoRow
  <2>4. RefreshInv'
    BY <2>1 DEF ServiceInv, RefreshInv
  <2> QED
    BY <2>2, <2>3, <2>4 DEF ServiceInv
<1> QED
  BY <1>2, <1>3

\* The row is rebound: its generation grows by one.
LEMMA RebindStep ==
    ASSUME ServiceInv, Rebind
    PROVE  ServiceInv'
<1>1. row \in [connection : Connections, generation : Generations, tokens : Connections]
  BY DEF Rebind, ServiceInv, ServiceType, Rows, Connected
<1>2. /\ row.generation \in Nat /\ lastKnown \in Nat /\ connections \in Nat /\ rebinds \in Nat
      /\ connections <= MaxConnections /\ rebinds + 1 <= MaxRebinds
  BY <1>1, BoundsType DEF Rebind, ServiceInv, ServiceType, Generations
<1>3. /\ row' = [row EXCEPT !.generation = @ + 1] /\ rebinds' = rebinds + 1
      /\ UNCHANGED <<lastKnown, refresh, connections, restarts>>
  BY DEF Rebind
<1>4. row.generation + 1 \in Generations
  BY <1>2, BoundsType DEF ServiceInv, RowInv, Generations
<1>5. row' \in [connection : Connections, generation : Generations, tokens : Connections]
      /\ row'.connection = row.connection /\ row'.tokens = row.tokens
      /\ row'.generation = row.generation + 1
  BY <1>1, <1>3, <1>4
<1>6. ServiceType'
  BY <1>2, <1>3, <1>5 DEF ServiceInv, ServiceType, Rows, Refreshes, Connections, Generations
<1>7. RowInv'
  BY <1>2, <1>3, <1>5 DEF ServiceInv, RowInv, Connected, Rebind
<1>8. RefreshInv'
  <2>1. refresh # NoRefresh => refresh.generation \in Nat
    BY DEF ServiceInv, ServiceType, Refreshes, Generations
  <2> QED
    BY <1>2, <1>3, <1>5, <2>1 DEF ServiceInv, RefreshInv, Rebind
<1> QED
  BY <1>6, <1>7, <1>8 DEF ServiceInv

\* The process is restarted: the last generation is read from the row.
LEMMA RestartService ==
    ASSUME ServiceInv, Restart
    PROVE  ServiceInv'
<1>1. row.generation \in Generations
  BY BoundsType DEF ServiceInv, ServiceType, Rows, NoRow, Generations
<1>2. /\ lastKnown' = row.generation /\ refresh' = NoRefresh /\ restarts' = restarts + 1
      /\ restarts < MaxRestarts
      /\ UNCHANGED <<row, connections, rebinds>>
  BY DEF Restart
<1>3. restarts' \in 0..MaxRestarts
  BY <1>2, BoundsType DEF ServiceInv, ServiceType
<1>4. ServiceType'
  BY <1>1, <1>2, <1>3 DEF ServiceInv, ServiceType, Rows, Refreshes, Connections, Generations
<1>5. RowInv' /\ RefreshInv'
  BY <1>2 DEF ServiceInv, RowInv, RefreshInv, Connected
<1> QED
  BY <1>4, <1>5 DEF ServiceInv

\* The connection and its refresh stay as ServiceInv says.
LEMMA ServiceInvStep == ServiceInv /\ [Next]_vars => ServiceInv'
<1> SUFFICES ASSUME ServiceInv, [Next]_vars PROVE ServiceInv'
  OBVIOUS
<1>1. ASSUME NEW j \in Jobs, Ask(j) \/ Resumed(j) \/ Proceed(j)
      PROVE  ServiceInv'
  BY <1>1, ServiceUntouched DEF Ask, Resumed, Proceed, service
<1>2. ASSUME NEW j \in Jobs, Renew(j)
      PROVE  ServiceInv'
  BY <1>2, RefreshBegins DEF Renew
<1>3. ASSUME NEW j \in Jobs, Answers(j)
      PROVE  ServiceInv'
  BY <1>3, ServiceUntouched
     DEF Answers, Success, Throttled, ServerError, Unauthorized, Refused, Answered, service
<1>4. ASSUME RefreshReturns
      PROVE  ServiceInv'
  BY <1>4, RefreshEnds
<1>5. ASSUME ExchangeReturns
      PROVE  ServiceInv'
  BY <1>5, ExchangeEnds
<1>6. ASSUME Timers
      PROVE  ServiceInv'
  BY <1>6, ServiceUntouched DEF Timers, Tick, PacingEnds, BackoffOver, service
<1>7. ASSUME StartExchange
      PROVE  ServiceInv'
  BY <1>7, ServiceUntouched DEF StartExchange, service
<1>8. ASSUME StartDisconnect \/ DisconnectReturns
      PROVE  ServiceInv'
  BY <1>8, DisconnectSteps
<1>9. ASSUME Rebind \/ Restart
      PROVE  ServiceInv'
  BY <1>9, RebindStep, RestartService
<1>10. ASSUME NEW j \in Jobs, Begin(j) \/ Abort(j)
       PROVE  ServiceInv'
  BY <1>10, ServiceUntouched DEF Begin, Abort, service
<1>11. ASSUME AtRest \/ UNCHANGED vars
       PROVE  ServiceInv'
  BY <1>11, ServiceUntouched DEF AtRest, vars, service
<1> QED
  BY <1>1, <1>2, <1>3, <1>4, <1>5, <1>6, <1>7, <1>8, <1>9, <1>10, <1>11
     DEF Next, Continue, Upstream, Operator

\* The connection and its refresh are as ServiceInv says in every state.
LEMMA ServiceAlwaysInv == Spec => []ServiceInv
<1>1. Init => ServiceInv
  BY BoundsType DEF Init, ServiceInv, ServiceType, RowInv, RefreshInv, Rows, Refreshes, Connected,
                    Generations, NoRow
<1> QED
  BY <1>1, ServiceInvStep, PTL DEF Spec

\* No refresh in flight, however late it returns, overwrites the tokens of a
\* replaced connection or revives a deleted one (oauth.ts line 324).
THEOREM TokensStayTheirs == Spec => []TokensOfConnection
<1>1. ServiceInv => TokensOfConnection
  BY DEF ServiceInv, RowInv, Connected, NoRow, TokensOfConnection
<1> QED
  BY <1>1, ServiceAlwaysInv, PTL

----------------------------------------------------------------------------
(* The jobs.                                                               *)

\* A token in use is not older than the request; one obtained by a refresh is
\* there, unless the refresh failed.
TokenInv(r) ==
    /\ r.asked <= connections
    /\ r.pc \in {"gate", "backoff"} => r.token >= r.asked /\ r.token # NoConnection
    /\ r.pc = "resumed" /\ r.token # NoConnection => r.token >= r.asked

JobsInv == job \in [Jobs -> JobRecord] /\ \A j \in Jobs : TokenInv(job[j])

\* One job changes.
LEMMA OneJobChanges ==
    ASSUME JobsInv, ServiceInv, NEW j \in Jobs, NEW r \in JobRecord, TokenInv(r),
           job' = [job EXCEPT ![j] = r], UNCHANGED connections
    PROVE  JobsInv'
<1>1. job' \in [Jobs -> JobRecord]
  BY DEF JobsInv
<1>2. \A i \in Jobs : job'[i] \in {job[i], r} /\ (job'[i] = job[i] \/ job'[i] = r)
  BY DEF JobsInv
<1>3. \A i \in Jobs : TokenInv(job'[i])
  BY <1>2 DEF JobsInv
<1> QED
  BY <1>1, <1>3 DEF JobsInv, TokenInv

\* A job goes on where no token is in use.
LEMMA JobGoes ==
    ASSUME JobsInv, ServiceInv, NEW j \in Jobs, NEW pc \in {"idle", "token", "done"} \cup Continuations,
           pc = "resumed" => job[j].token = NoConnection \/ job[j].token >= job[j].asked,
           Goes(j, pc), UNCHANGED connections
    PROVE  JobsInv'
<1> DEFINE r == [job[j] EXCEPT !.pc = pc]
<1>1. job[j] \in JobRecord /\ TokenInv(job[j])
  BY DEF JobsInv
<1>2. r \in JobRecord
  BY <1>1 DEF JobRecord
<1>3. r.asked = job[j].asked /\ r.token = job[j].token /\ r.pc = pc
  BY <1>1 DEF JobRecord
<1>4. job' = [job EXCEPT ![j] = r]
  BY DEF Goes
<1> HIDE DEF r
<1>5. TokenInv(r)
  BY <1>1, <1>3 DEF TokenInv, Continuations
<1> QED
  BY <1>2, <1>4, <1>5, OneJobChanges

\* The facts about one job and the row that its steps use.
LEMMA JobFacts ==
    ASSUME JobsInv, ServiceInv, NEW j \in Jobs
    PROVE  /\ job[j] \in JobRecord /\ TokenInv(job[j])
           /\ connections \in Nat
           /\ row.connection \in Connections \cup {NoConnection}
           /\ row.tokens \in Connections \cup {NoConnection}
           /\ row.connection = row.tokens /\ row.connection <= connections
           /\ Connected => row.tokens # NoConnection
           /\ CurrentGeneration \in Generations
BY BoundsType DEF JobsInv, ServiceInv, ServiceType, RowInv, Rows, Connected, NoRow, Connections,
       NoConnection, CurrentGeneration, Generations

\* What is left of a request that is over, and of a job.
LEMMA OverFacts ==
    ASSUME NEW r \in JobRecord
    PROVE  /\ Over(r) \in JobRecord
           /\ Over(r).pc = "ended" /\ Over(r).asked = NoConnection /\ Over(r).token = NoConnection
           /\ Over(r).generation = r.generation /\ Over(r).data = r.data
           /\ Over(r).result = r.result
<1>1. 0 \in 0..MaxThrottleRetries /\ 0 \in 0..MaxRetries5xx
  BY BoundsType
<1> QED
  BY <1>1 DEF Over, JobRecord, Continuations

LEMMA DoneFacts ==
    ASSUME NEW result \in {"none", "committed"}
    PROVE  /\ Done(result) \in JobRecord
           /\ Done(result).pc = "done" /\ Done(result).asked = NoConnection
           /\ Done(result).token = NoConnection /\ Done(result).result = result
<1>1. /\ 0 \in 0..RequestsPerJob /\ 0 \in 0..MaxThrottleRetries /\ 0 \in 0..MaxRetries5xx
      /\ 0 \in Generations
  BY BoundsType DEF Generations
<1> QED
  BY <1>1 DEF Done, IdleJob, JobRecord

\* A request ends, and its job with it or not.
LEMMA FailureFacts ==
    ASSUME JobsInv, ServiceInv, NEW j \in Jobs, NEW r \in Failures(job[j])
    PROVE  r \in JobRecord /\ TokenInv(r) /\ r.pc \in {"ended", "done"}
<1>1. /\ r \in JobRecord /\ r.asked = NoConnection /\ r.pc \in {"ended", "done"}
  BY JobFacts, OverFacts, DoneFacts DEF Failures
<1> QED
  BY <1>1, JobFacts DEF TokenInv, NoConnection

\* A request is over.
LEMMA OverStep ==
    ASSUME JobsInv, ServiceInv, NEW j \in Jobs, NEW r \in Failures(job[j]), Becomes(j, r),
           UNCHANGED connections
    PROVE  JobsInv'
BY FailureFacts, OneJobChanges DEF Becomes

\* A request begins.
LEMMA AskStep ==
    ASSUME JobsInv, ServiceInv, NEW j \in Jobs, Ask(j)
    PROVE  JobsInv'
<1> DEFINE begun == [job[j] EXCEPT !.asked = row.connection, !.token = row.tokens]
           r(pc) == [begun EXCEPT !.pc = pc]
<1>1. UNCHANGED connections
  BY DEF Ask, bounds
<1>2. CASE Becomes(j, Over(job[j]))
  BY <1>1, <1>2, OverStep DEF Failures
<1>3. ASSUME NEW pc \in {"gate", "renew"}, Connected, Becomes(j, r(pc))
      PROVE  JobsInv'
  <2>1. r(pc) \in JobRecord
    BY JobFacts DEF JobRecord, Continuations
  <2>2. r(pc).asked = row.connection /\ r(pc).token = row.tokens /\ r(pc).pc = pc
    BY JobFacts DEF JobRecord
  <2> HIDE DEF r
  <2>3. TokenInv(r(pc))
    BY <1>3, <2>2, JobFacts DEF TokenInv, Connections, NoConnection
  <2> QED
    BY <1>1, <1>3, <2>1, <2>3, OneJobChanges DEF Becomes
<1> QED
  BY <1>2, <1>3 DEF Ask

\* A request goes on once its refresh has returned, or its backoff is over.
LEMMA RequestAgain ==
    ASSUME JobsInv, ServiceInv, NEW j \in Jobs, Goes(j, "gate"), UNCHANGED connections,
           job[j].pc \in {"resumed", "backoff"}, job[j].token # NoConnection
    PROVE  JobsInv'
<1> DEFINE r == [job[j] EXCEPT !.pc = "gate"]
<1>1. r \in JobRecord
  BY JobFacts DEF JobRecord
<1>2. r.asked = job[j].asked /\ r.token = job[j].token
  BY JobFacts DEF JobRecord
<1>3. job' = [job EXCEPT ![j] = r]
  BY DEF Goes
<1> HIDE DEF r
<1>4. TokenInv(r)
  BY <1>2, JobFacts DEF TokenInv
<1> QED
  BY <1>1, <1>3, <1>4, OneJobChanges

\* WakaTime answers a request.
LEMMA AnswerStep ==
    ASSUME JobsInv, ServiceInv, NEW j \in Jobs, Answers(j)
    PROVE  JobsInv'
<1>1. /\ job[j] \in JobRecord /\ TokenInv(job[j]) /\ job[j].pc = "gate"
      /\ job[j].token \in Connections /\ UNCHANGED connections
  <2>1. job[j].pc = "gate" /\ UNCHANGED connections
    BY DEF Answers, Success, Throttled, ServerError, Unauthorized, Refused, Fetching, Answered, bounds
  <2> QED
    BY <2>1, JobFacts DEF TokenInv, JobRecord
<1>2. CASE Success(j)
  <2> DEFINE s == [Over(job[j]) EXCEPT !.data = @ \cup {job[j].token}]
  <2>1. s \in JobRecord /\ s.asked = NoConnection /\ s.pc = "ended"
    BY <1>1, OverFacts DEF JobRecord
  <2>2. job' = [job EXCEPT ![j] = s]
    BY <1>2 DEF Success, Answered, Becomes
  <2> HIDE DEF s
  <2>3. TokenInv(s)
    BY <2>1, JobFacts DEF TokenInv, NoConnection
  <2> QED
    BY <1>1, <2>1, <2>2, <2>3, OneJobChanges
<1>3. CASE Throttled(j)
  <2> DEFINE s == [job[j] EXCEPT !.pc = "backoff", !.throttles = @ + 1]
  <2>1. /\ s \in JobRecord /\ s.asked = job[j].asked /\ s.pc = "backoff"
        /\ s.token = job[j].token
    <3>1. job[j].throttles + 1 \in 0..MaxThrottleRetries
      BY <1>1, <1>3, BoundsType DEF JobRecord, Throttled
    <3> QED
      BY <1>1, <3>1 DEF JobRecord
  <2>2. job' = [job EXCEPT ![j] = s]
    BY <1>3 DEF Throttled, Answered, Becomes
  <2> HIDE DEF s
  <2> QED
    BY <1>1, <2>1, <2>2, OneJobChanges DEF TokenInv
<1>4. CASE ServerError(j)
  <2> DEFINE s == [job[j] EXCEPT !.pc = "backoff", !.errors = @ + 1]
  <2>1. /\ s \in JobRecord /\ s.asked = job[j].asked /\ s.pc = "backoff"
        /\ s.token = job[j].token
    <3>1. job[j].errors + 1 \in 0..MaxRetries5xx
      BY <1>1, <1>4, BoundsType DEF JobRecord, ServerError
    <3> QED
      BY <1>1, <3>1 DEF JobRecord
  <2>2. job' = [job EXCEPT ![j] = s]
    BY <1>4 DEF ServerError, Answered, Becomes
  <2> HIDE DEF s
  <2> QED
    BY <1>1, <2>1, <2>2, OneJobChanges DEF TokenInv
<1>5. CASE Unauthorized(j)
  <2> DEFINE s == [job[j] EXCEPT !.pc = "renew", !.renewed = TRUE]
  <2>1. s \in JobRecord /\ s.asked = job[j].asked /\ s.pc = "renew"
    BY <1>1 DEF JobRecord, Continuations
  <2>2. job' = [job EXCEPT ![j] = s]
    BY <1>5 DEF Unauthorized, Answered, Becomes
  <2> HIDE DEF s
  <2> QED
    BY <1>1, <2>1, <2>2, OneJobChanges DEF TokenInv
<1>6. CASE Refused(j)
  <2>1. Becomes(j, Over(job[j]))
    BY <1>6 DEF Refused, Answered
  <2> QED
    BY <1>1, <2>1, OverStep DEF Failures
<1> QED
  BY <1>2, <1>3, <1>4, <1>5, <1>6 DEF Answers

\* The next request of a job, or its commit.
LEMMA ProceedStep ==
    ASSUME JobsInv, ServiceInv, NEW j \in Jobs, Proceed(j)
    PROVE  JobsInv'
<1>1. CASE /\ job[j].data # {} /\ job[j].left > 0
           /\ job' = [job EXCEPT ![j].pc = "ask", ![j].left = @ - 1]
  <2> DEFINE r == [job[j] EXCEPT !.pc = "ask", !.left = @ - 1]
  <2>1. r \in JobRecord /\ r.asked = job[j].asked /\ r.pc = "ask"
    <3>1. job[j].left - 1 \in 0..RequestsPerJob
      BY <1>1, JobFacts, BoundsType DEF JobRecord
    <3> QED
      BY <3>1, JobFacts DEF JobRecord, Continuations
  <2>2. job' = [job EXCEPT ![j] = r]
    BY <1>1
  <2> HIDE DEF r
  <2> QED
    BY <2>1, <2>2, JobFacts, OneJobChanges DEF TokenInv, Proceed, bounds
<1>2. ASSUME NEW result \in {"none", "committed"}, Becomes(j, Done(result))
      PROVE  JobsInv'
  <2>1. TokenInv(Done(result))
    BY DoneFacts, JobFacts DEF TokenInv, NoConnection
  <2> QED
    BY <1>2, <2>1, DoneFacts, OneJobChanges DEF Becomes, Proceed, bounds
<1> QED
  BY <1>1, <1>2 DEF Proceed

\* A job begins.
LEMMA BeginStep ==
    ASSUME JobsInv, ServiceInv, NEW j \in Jobs, Begin(j)
    PROVE  JobsInv'
<1> DEFINE r == [job[j] EXCEPT !.pc = "ask", !.left = RequestsPerJob - 1,
                               !.generation = CurrentGeneration]
<1>1. r \in JobRecord /\ r.asked = job[j].asked /\ r.pc = "ask"
  <2>1. RequestsPerJob - 1 \in 0..RequestsPerJob
    BY BoundsType
  <2> QED
    BY <2>1, JobFacts DEF JobRecord, Continuations
<1>2. job' = [job EXCEPT ![j] = r]
  BY DEF Begin
<1> HIDE DEF r
<1> QED
  BY <1>1, <1>2, JobFacts, OneJobChanges DEF TokenInv, Begin, bounds

\* A refresh resolves for all who wait for it.
LEMMA ResolveStep ==
    ASSUME JobsInv, ServiceInv, UNCHANGED connections,
           NEW token \in {NewToken, NoConnection}, Resolve(token)
    PROVE  JobsInv'
<1>1. token \in Connections \cup {NoConnection} /\ (token # NoConnection => token = connections)
  BY UpdateKeepsTokens DEF NewToken, ServiceInv, ServiceType, RowInv, Rows, NoRow, Connected
<1>2. ASSUME NEW i \in Jobs
      PROVE  job'[i] \in JobRecord /\ TokenInv(job'[i])
  <2> DEFINE r == [job[i] EXCEPT !.pc = "resumed", !.token = token]
  <2>1. r \in JobRecord /\ r.asked = job[i].asked /\ r.pc = "resumed" /\ r.token = token
    BY <1>1, JobFacts DEF JobRecord, Continuations
  <2>2. job'[i] \in {job[i], r} /\ (job'[i] = r \/ job'[i] = job[i])
    BY DEF Resolve
  <2> HIDE DEF r
  <2>3. TokenInv(r)
    BY <1>1, <2>1, JobFacts DEF TokenInv
  <2> QED
    BY <2>1, <2>2, <2>3, JobFacts
<1> QED
  BY <1>2 DEF JobsInv, TokenInv, Resolve

\* A signal aborts.
LEMMA AbortStep ==
    ASSUME JobsInv, ServiceInv, NEW j \in Jobs, Abort(j)
    PROVE  JobsInv'
<1>1. PICK r \in Failures(job[j]) :
        \/ Becomes(j, r)
        \/ job' = [i \in Jobs |->
                      IF i = j THEN r
                      ELSE IF job[i].pc = "token"
                      THEN [job[i] EXCEPT !.pc = "resumed", !.token = NoConnection]
                      ELSE job[i]]
  BY DEF Abort
<1>2. CASE Becomes(j, r)
  BY <1>2, OverStep DEF Abort, bounds
<1>3. CASE job' = [i \in Jobs |->
                      IF i = j THEN r
                      ELSE IF job[i].pc = "token"
                      THEN [job[i] EXCEPT !.pc = "resumed", !.token = NoConnection]
                      ELSE job[i]]
  <2>1. ASSUME NEW i \in Jobs
        PROVE  job'[i] \in JobRecord /\ TokenInv(job'[i])
    <3> DEFINE failed == [job[i] EXCEPT !.pc = "resumed", !.token = NoConnection]
    <3>1. r \in JobRecord /\ TokenInv(r)
      BY FailureFacts
    <3>2. /\ failed \in JobRecord /\ failed.asked = job[i].asked /\ failed.pc = "resumed"
          /\ failed.token = NoConnection
      BY JobFacts DEF JobRecord, Continuations
    <3>3. job'[i] = r \/ job'[i] = failed \/ job'[i] = job[i]
      BY <1>3
    <3> HIDE DEF failed
    <3>4. TokenInv(failed)
      BY <3>2, JobFacts DEF TokenInv
    <3> QED
      BY <3>1, <3>2, <3>3, <3>4, JobFacts
  <2> QED
    BY <1>3, <2>1 DEF JobsInv, TokenInv, Abort, bounds
<1> QED
  BY <1>1, <1>2, <1>3

\* The jobs and their tokens stay as JobsInv says.
LEMMA JobsInvStep == JobsInv /\ ServiceInv /\ [Next]_vars => JobsInv'
<1> SUFFICES ASSUME JobsInv, ServiceInv, [Next]_vars PROVE JobsInv'
  OBVIOUS
<1>1. ASSUME UNCHANGED job, connections' \in Nat, connections' >= connections
      PROVE  JobsInv'
  <2>1. ASSUME NEW j \in Jobs
        PROVE  job[j].asked <= connections'
    <3>1. job[j].asked \in Nat /\ connections \in Nat /\ job[j].asked <= connections
      BY JobFacts, BoundsType DEF JobRecord, Connections, NoConnection, TokenInv
    <3> QED
      BY <1>1, <3>1
  <2> QED
    BY <1>1, <2>1 DEF JobsInv, TokenInv
<1>2. ASSUME NEW j \in Jobs, Ask(j) \/ Answers(j) \/ Proceed(j) \/ Begin(j) \/ Abort(j)
      PROVE  JobsInv'
  BY <1>2, AskStep, AnswerStep, ProceedStep, BeginStep, AbortStep
<1>3. ASSUME NEW j \in Jobs, Renew(j)
      PROVE  JobsInv'
  BY <1>3, JobGoes, OverStep DEF Renew, AwaitRefresh, Failures, bounds
<1>4. ASSUME NEW j \in Jobs, Resumed(j)
      PROVE  JobsInv'
  BY <1>4, OverStep, RequestAgain DEF Resumed, bounds
<1>5. ASSUME NEW j \in Jobs, BackoffOver(j)
      PROVE  JobsInv'
  BY <1>5, RequestAgain, JobFacts DEF BackoffOver, bounds, TokenInv
<1>6. ASSUME RefreshReturns
      PROVE  JobsInv'
  BY <1>6, ResolveStep DEF RefreshReturns, bounds
<1>7. ASSUME \/ Tick \/ \E u \in Users : PacingEnds(u)
             \/ Operator \/ DisconnectReturns \/ AtRest \/ UNCHANGED vars
      PROVE  JobsInv'
  <2>1. UNCHANGED <<job, connections>>
    BY <1>7 DEF Tick, PacingEnds, Operator, StartExchange, StartDisconnect, Rebind,
                DisconnectReturns, AtRest, vars, bounds
  <2> QED
    BY <1>1, <2>1, JobFacts DEF ServiceInv, ServiceType
<1>8. ASSUME ExchangeReturns
      PROVE  JobsInv'
  <2>1. UNCHANGED job /\ connections' \in {connections, connections + 1}
    BY <1>8 DEF ExchangeReturns
  <2> QED
    BY <1>1, <2>1, BoundsType DEF ServiceInv, ServiceType
<1>9. ASSUME Restart
      PROVE  JobsInv'
  <2>1. IdleJob \in JobRecord /\ IdleJob.asked = NoConnection /\ IdleJob.pc = "idle"
    <3>1. 0 \in 0..RequestsPerJob /\ 0 \in 0..MaxThrottleRetries /\ 0 \in 0..MaxRetries5xx
          /\ 0 \in Generations
      BY BoundsType DEF Generations
    <3> QED
      BY <3>1 DEF IdleJob, JobRecord
  <2> HIDE DEF IdleJob
  <2>2. connections \in Nat
    BY BoundsType DEF ServiceInv, ServiceType
  <2>3. TokenInv(IdleJob)
    BY <2>1, <2>2 DEF TokenInv, NoConnection
  <2> QED
    BY <1>9, <2>1, <2>3 DEF Restart, JobsInv, TokenInv
<1> QED
  BY <1>2, <1>3, <1>4, <1>5, <1>6, <1>7, <1>8, <1>9
     DEF Next, Continue, Upstream, Timers

\* The jobs and their tokens are as JobsInv says in every state.
LEMMA JobsAlwaysInv == Spec => []JobsInv
<1>1. Init => JobsInv
  <2>1. 0 \in 0..RequestsPerJob /\ 0 \in 0..MaxThrottleRetries /\ 0 \in 0..MaxRetries5xx
        /\ 0 \in Generations
    BY BoundsType DEF Generations
  <2>2. IdleJob \in JobRecord
    BY <2>1 DEF IdleJob, JobRecord
  <2> QED
    BY <2>2 DEF Init, JobsInv, TokenInv, IdleJob, NoConnection
<1> QED
  BY <1>1, JobsInvStep, ServiceAlwaysInv, PTL DEF Spec

\* However long a request waited for a refresh that others began, it never
\* carries a token older than the connection it began with (oauth.ts line 256).
THEOREM TokensAreFresh == Spec => []TokenNotOutdated
<1>1. JobsInv => TokenNotOutdated
  BY DEF JobsInv, TokenInv, TokenNotOutdated
<1> QED
  BY <1>1, JobsAlwaysInv, PTL

\* A job may only come to have crossed a disconnection when it begins.
LEMMA CrossedMoves ==
    [Next]_vars => crossed' \in {crossed, {}} \/ \E j \in Jobs : Begin(j) /\ crossed' = crossed \cup {j}
<1> DEFINE Moves == crossed' \in {crossed, {}} \/ \E j \in Jobs : Begin(j) /\ crossed' = crossed \cup {j}
<1> SUFFICES ASSUME [Next]_vars PROVE Moves
  OBVIOUS
<1>1. ASSUME NEW j \in Jobs, Begin(j) PROVE Moves
  BY <1>1 DEF Begin
<1>2. ASSUME NEW j \in Jobs,
             Ask(j) \/ Renew(j) \/ Resumed(j) \/ Proceed(j) \/ BackoffOver(j) \/ Abort(j)
      PROVE  Moves
  BY <1>2 DEF Ask, Renew, Resumed, Proceed, BackoffOver, Abort
<1>3. ASSUME NEW j \in Jobs, Answers(j) PROVE Moves
  BY <1>3 DEF Answers, Success, Throttled, ServerError, Unauthorized, Refused, Answered
<1>4. CASE \/ RefreshReturns \/ ExchangeReturns \/ DisconnectReturns \/ StartExchange
           \/ StartDisconnect \/ Rebind \/ Restart \/ Tick \/ \E u \in Users : PacingEnds(u)
  BY <1>4 DEF RefreshReturns, ExchangeReturns, DisconnectReturns, StartExchange,
              StartDisconnect, Rebind, Restart, Tick, PacingEnds
<1>5. CASE AtRest \/ UNCHANGED vars
  BY <1>5 DEF AtRest, vars
<1> HIDE DEF Moves
<1> QED
  BY <1>1, <1>2, <1>3, <1>4, <1>5 DEF Next, Continue, Upstream, Timers, Operator

\* Every reachable state is well typed, the gate, the retry counters and the
\* generations within their bounds.
THEOREM ClientTypes == Spec => []TypeOK
<1> DEFINE History == crossed \subseteq Jobs
<1>1. GateInv /\ ServiceInv /\ JobsInv /\ History => TypeOK
  BY DEF GateInv, Sound, ServiceInv, ServiceType, Rows, Refreshes, JobsInv, TypeOK
<1>2. Init => History
  BY DEF Init
<1>3. History /\ [Next]_vars => History'
  BY CrossedMoves
<1> QED
  BY <1>1, <1>2, <1>3, GateAlwaysInv, ServiceAlwaysInv, JobsAlwaysInv, PTL DEF Spec

----------------------------------------------------------------------------
(* Who is at the gate, and why nobody is there twice.                      *)

\* The users are told apart.
LEMMA UsersDiffer ==
    /\ Refresh # Exchange /\ Refresh # Revoke /\ Exchange # Revoke
    /\ \A j \in Jobs : j \notin {Refresh, Exchange, Revoke} /\ j \in Users
    /\ {Refresh, Exchange, Revoke} \subseteq Users
<1>1. ASSUME NEW a, NEW b PROVE Cardinality({a, b}) <= 2 /\ Cardinality({a, b}) \in Nat
  <2>1. IsFiniteSet({a}) /\ Cardinality({a}) = 1
    BY FS_Singleton
  <2>2. {a, b} = {a} \cup {b}
    OBVIOUS
  <2>3. Cardinality({a} \cup {b}) \in {1, 2}
    BY <2>1, FS_AddElement
  <2> QED
    BY <2>2, <2>3
<1>2. ASSUME NEW a, NEW b, {Refresh, Exchange, Revoke} = {a, b} PROVE FALSE
  <2>1. Cardinality({a, b}) = 3
    BY <1>2, ClientAssumption, Zenon
  <2>2. Cardinality({a, b}) <= 2
    BY <1>1
  <2> QED
    BY <2>1, <2>2
<1>3. Refresh # Exchange
  BY <1>2
<1>4. Refresh # Revoke
  BY <1>2
<1>5. Exchange # Revoke
  BY <1>2
<1> QED
  BY <1>3, <1>4, <1>5, ClientAssumption

\* A job is at the gate for its request alone, and Refresh for a refresh in flight.
Members ==
    /\ \A j \in Jobs : j \in Inside(gate) => job[j].pc = "gate"
    /\ Refresh \in Inside(gate) => refresh # NoRefresh

\* What every step does at the gate.
AtGate ==
    /\ OrderlyStep
    /\ Members'
    /\ Revoke \in Inside(gate') => Revoke \in Inside(gate) \/ StartDisconnect

StandsInv == GateInv /\ ServiceInv /\ JobsInv /\ Orderly /\ Members

\* One job changes, and it is the only one that may have come to the gate.
LEMMA OneMemberMoves ==
    ASSUME StandsInv, NEW j \in Jobs, NEW r, job' = [job EXCEPT ![j] = r], UNCHANGED refresh,
           \/ UNCHANGED gate /\ (j \in Inside(gate) => r.pc = "gate")
           \/ Arrives(j) /\ r.pc = "gate"
           \/ Departs(j)
    PROVE  AtGate
<1>1. j \in Users /\ j # Refresh /\ j # Revoke
  BY UsersDiffer
<1>2. OrderlyStep
  BY <1>1 DEF OrderlyStep
<1>3. /\ Inside(gate') \subseteq Inside(gate) \cup {j}
      /\ j \in Inside(gate') => r.pc = "gate"
  <2>1. CASE UNCHANGED gate /\ (j \in Inside(gate) => r.pc = "gate")
    BY <2>1
  <2>2. CASE Arrives(j) /\ r.pc = "gate"
    BY <1>1, <2>2, ArrivesStep DEF StandsInv
  <2>3. CASE Departs(j)
    BY <2>3, DepartsStep DEF StandsInv
  <2> QED
    BY <2>1, <2>2, <2>3
<1>4. /\ \A i \in Jobs : i # j => job'[i] = job[i]
      /\ job'[j] = r
  BY DEF StandsInv, JobsInv
<1>5. Members'
  BY <1>1, <1>3, <1>4 DEF Members, StandsInv
<1> QED
  BY <1>1, <1>2, <1>3, <1>5 DEF AtGate

\* No job at the gate changes, and no job comes.
LEMMA OthersMove ==
    ASSUME StandsInv, NEW u \in Users, u \notin Jobs, Arrives(u) \/ Departs(u) \/ UNCHANGED gate,
           \A i \in Jobs : job[i].pc = "gate" => job'[i].pc = "gate",
           refresh' # NoRefresh \/ (refresh' = refresh /\ u # Refresh) \/ (u = Refresh /\ Departs(u)),
           u = Revoke => StartDisconnect \/ Departs(u)
    PROVE  AtGate
<1>1. Inside(gate') \subseteq Inside(gate) \cup {u} /\ (Departs(u) => u \notin Inside(gate'))
  BY ArrivesStep, DepartsStep DEF StandsInv
<1>2. Members'
  BY <1>1 DEF Members, StandsInv
<1> QED
  BY <1>1, <1>2 DEF AtGate, OrderlyStep

\* Every step keeps nobody at the gate twice.
LEMMA AtGateSteps == StandsInv /\ [Next]_vars => AtGate
<1> SUFFICES ASSUME StandsInv, [Next]_vars PROVE AtGate
  OBVIOUS
<1> USE UsersDiffer
<1>0. job \in [Jobs -> JobRecord]
  BY DEF StandsInv, JobsInv
<1>1. ASSUME NEW j \in Jobs, job[j].pc # "gate", NEW pc,
             NEW r, r.pc = pc, job' = [job EXCEPT ![j] = r], UNCHANGED refresh,
             UNCHANGED gate \/ (pc = "gate" /\ gate' = Acquire(gate, j))
      PROVE  AtGate
  <2>1. j \notin Inside(gate)
    BY <1>1 DEF StandsInv, Members
  <2> QED
    BY <1>1, <2>1, OneMemberMoves DEF Arrives
<1>2. ASSUME NEW j \in Jobs, Ask(j) PROVE AtGate
  <2> DEFINE begun == [job[j] EXCEPT !.asked = row.connection, !.token = row.tokens]
             r(pc) == [begun EXCEPT !.pc = pc]
  <2>1. job[j].pc # "gate" /\ UNCHANGED refresh
    BY <1>2 DEF Ask, service
  <2>2. \A pc : r(pc).pc = pc
    BY <1>0 DEF JobRecord
  <2>3. \/ UNCHANGED gate /\ Becomes(j, Over(job[j]))
        \/ gate' = Acquire(gate, j) /\ Becomes(j, r("gate"))
        \/ UNCHANGED gate /\ Becomes(j, r("renew"))
    BY <1>2 DEF Ask
  <2> HIDE DEF r
  <2> QED
    BY <1>0, <1>1, <2>1, <2>2, <2>3, OverFacts DEF Becomes
<1>3. ASSUME NEW j \in Jobs, NEW pc, Goes(j, pc), UNCHANGED refresh, job[j].pc # "gate",
             UNCHANGED gate \/ (pc = "gate" /\ gate' = Acquire(gate, j))
      PROVE  AtGate
  <2> DEFINE r == [job[j] EXCEPT !.pc = pc]
  <2>1. r.pc = pc
    BY <1>0 DEF JobRecord
  <2>2. job' = [job EXCEPT ![j] = r]
    BY <1>3 DEF Goes
  <2> HIDE DEF r
  <2> QED
    BY <1>1, <1>3, <2>1, <2>2
<1>21. ASSUME NEW j \in Jobs, NEW r \in Failures(job[j]), Becomes(j, r), job[j].pc # "gate",
              UNCHANGED <<gate, refresh>>
       PROVE  AtGate
  BY <1>0, <1>1, <1>21 DEF Becomes
<1>4. ASSUME NEW j \in Jobs, Renew(j) PROVE AtGate
  <2>1. CASE UNCHANGED <<gate, service>>
    BY <1>3, <1>21, <1>4, <2>1 DEF Renew, AwaitRefresh, Failures, service
  <2>2. CASE /\ refresh = NoRefresh /\ Connected /\ Goes(j, "token") /\ gate' = Acquire(gate, Refresh)
             /\ refresh' = [owner |-> j, generation |-> row.generation, tokens |-> row.tokens]
    <3>1. refresh' # NoRefresh
      BY <2>2, JobFacts DEF StandsInv, NoRefresh
    <3>2. Arrives(Refresh)
      BY <2>2 DEF StandsInv, Members, Arrives
    <3>3. \A i \in Jobs : job[i].pc = "gate" => job'[i].pc = "gate"
      BY <1>0, <1>4, <2>2 DEF Goes, Renew
    <3> QED
      BY <3>1, <3>2, <3>3, OthersMove
  <2> QED
    BY <1>4, <2>1, <2>2 DEF Renew, AwaitRefresh
<1>5. ASSUME NEW j \in Jobs, Resumed(j) PROVE AtGate
  BY <1>3, <1>21, <1>5 DEF Resumed, service
<1>6. ASSUME NEW j \in Jobs, Proceed(j) PROVE AtGate
  <2>1. ASSUME NEW result \in {"none", "committed"}, Becomes(j, Done(result))
        PROVE  AtGate
    BY <1>1, <1>6, <2>1, DoneFacts DEF Becomes, Proceed, service
  <2>2. CASE job' = [job EXCEPT ![j].pc = "ask", ![j].left = @ - 1]
    <3> DEFINE r == [job[j] EXCEPT !.pc = "ask", !.left = @ - 1]
    <3>1. r.pc = "ask"
      BY <1>0 DEF JobRecord
    <3>2. job' = [job EXCEPT ![j] = r]
      BY <2>2
    <3> HIDE DEF r
    <3> QED
      BY <1>1, <1>6, <3>1, <3>2 DEF Proceed, service
  <2> QED
    BY <1>6, <2>1, <2>2 DEF Proceed
<1>7. ASSUME NEW j \in Jobs, Answers(j) PROVE AtGate
  <2>1. PICK r : job' = [job EXCEPT ![j] = r]
    BY <1>7 DEF Answers, Success, Throttled, ServerError, Unauthorized, Refused, Answered, Becomes
  <2>2. Departs(j) /\ UNCHANGED refresh
    BY <1>7 DEF Answers, Success, Throttled, ServerError, Unauthorized, Refused, Fetching,
                Answered, Departs, service
  <2> QED
    BY <2>1, <2>2, OneMemberMoves
<1>8. ASSUME NEW j \in Jobs, Begin(j) PROVE AtGate
  <2> DEFINE r == [job[j] EXCEPT !.pc = "ask", !.left = RequestsPerJob - 1,
                                 !.generation = CurrentGeneration]
  <2>1. r.pc = "ask"
    BY <1>0 DEF JobRecord
  <2>2. job' = [job EXCEPT ![j] = r]
    BY <1>8 DEF Begin
  <2> HIDE DEF r
  <2> QED
    BY <1>1, <1>8, <2>1, <2>2 DEF Begin, service
<1>9. ASSUME NEW j \in Jobs, BackoffOver(j) PROVE AtGate
  BY <1>3, <1>9 DEF BackoffOver, service
<1>10. ASSUME NEW j \in Jobs, Abort(j) PROVE AtGate
  <2>1. PICK r \in Failures(job[j]) :
          \/ /\ job[j].pc = "gate" /\ gate' = Leave(gate, j) /\ Becomes(j, r) /\ UNCHANGED refresh
          \/ /\ job[j].pc = "backoff" /\ Becomes(j, r) /\ UNCHANGED <<gate, refresh>>
          \/ /\ job[j].pc = "token" /\ gate' = Leave(gate, Refresh)
             /\ job' = [i \in Jobs |->
                           IF i = j THEN r
                           ELSE IF job[i].pc = "token"
                           THEN [job[i] EXCEPT !.pc = "resumed", !.token = NoConnection]
                           ELSE job[i]]
    BY <1>10 DEF Abort
  <2>2. CASE job[j].pc = "gate" /\ gate' = Leave(gate, j) /\ Becomes(j, r) /\ UNCHANGED refresh
    BY <2>2, OneMemberMoves DEF Departs, Becomes
  <2>3. CASE job[j].pc = "backoff" /\ Becomes(j, r) /\ UNCHANGED <<gate, refresh>>
    BY <1>21, <2>3
  <2>4. CASE /\ job[j].pc = "token" /\ gate' = Leave(gate, Refresh)
             /\ \A i \in Jobs : i # j /\ job[i].pc # "token" => job'[i] = job[i]
    <3>1. \A i \in Jobs : job[i].pc = "gate" => job'[i].pc = "gate"
      BY <2>4
    <3> QED
      BY <2>4, <3>1, OthersMove DEF Departs
  <2> QED
    BY <2>1, <2>2, <2>3, <2>4
<1>11. ASSUME RefreshReturns PROVE AtGate
  <2>1. \A i \in Jobs : job[i].pc = "gate" => job'[i].pc = "gate"
    BY <1>11 DEF RefreshReturns, Resolve
  <2>2. Departs(Refresh)
    BY <1>11 DEF RefreshReturns, Departs
  <2> QED
    BY <2>1, <2>2, OthersMove
<1>12. ASSUME StartExchange PROVE AtGate
  <2>1. Inside(gate) = Waiting(gate) \cup gate.holders
    BY LineType DEF Inside, StandsInv, GateInv
  <2>2. Arrives(Exchange) /\ UNCHANGED <<job, refresh>>
    BY <1>12, <2>1 DEF StartExchange, Arrives, service
  <2> QED
    BY <2>2, OthersMove
<1>13. ASSUME StartDisconnect PROVE AtGate
  <2>1. Inside(gate) = Waiting(gate) \cup gate.holders
    BY LineType DEF Inside, StandsInv, GateInv
  <2>2. Arrives(Revoke) /\ UNCHANGED <<job, refresh>>
    BY <1>13, <2>1 DEF StartDisconnect, Disconnecting, Arrives
  <2> QED
    BY <1>13, <2>2, OthersMove
<1>14. ASSUME ExchangeReturns PROVE AtGate
  <2>1. Departs(Exchange) /\ UNCHANGED <<job, refresh>>
    BY <1>14 DEF ExchangeReturns, Departs
  <2> QED
    BY <2>1, OthersMove
<1>15. ASSUME DisconnectReturns PROVE AtGate
  <2>1. Departs(Revoke) /\ UNCHANGED <<job, refresh>>
    BY <1>15 DEF DisconnectReturns, Departs
  <2> QED
    BY <2>1, OthersMove
<1>16. ASSUME NEW u \in Users, PacingEnds(u) PROVE AtGate
  <2>1. DelayEnds(u) /\ UNCHANGED <<job, refresh>>
    BY <1>16 DEF PacingEnds, service
  <2>2. Inside(gate') = Inside(gate)
    BY <2>1, DelayStep DEF StandsInv
  <2> QED
    BY <2>1, <2>2 DEF AtGate, OrderlyStep, Members, StandsInv
<1>17. ASSUME Tick PROVE AtGate
  <2>1. Elapse /\ UNCHANGED <<job, refresh>>
    BY <1>17 DEF Tick, service
  <2>2. Inside(gate') = Inside(gate)
    BY <2>1, Elapsing DEF Elapse, StandsInv, GateInv, Inside
  <2> QED
    BY <2>1, <2>2 DEF AtGate, OrderlyStep, Members, StandsInv
<1>18. ASSUME Restart PROVE AtGate
  <2>1. gate' = NewGate /\ Inside(gate') = {}
    BY <1>18, NewLine DEF Restart
  <2> QED
    BY <2>1 DEF AtGate, OrderlyStep, Members
<1>19. ASSUME UNCHANGED <<gate, job, refresh>> PROVE AtGate
  BY <1>19 DEF AtGate, OrderlyStep, Members, StandsInv, Inside, LineOf, Pacing
<1>20. ASSUME Rebind \/ AtRest \/ UNCHANGED vars PROVE AtGate
  BY <1>19, <1>20 DEF Rebind, AtRest, vars, service
<1> QED
  BY <1>2, <1>4, <1>5, <1>6, <1>7, <1>8, <1>9, <1>10, <1>11, <1>12, <1>13, <1>14, <1>15,
     <1>16, <1>17, <1>18, <1>20
     DEF Next, Continue, Upstream, Timers, Operator

\* Nobody is at the gate twice, in every state.
LEMMA StandsAlways == Spec => []StandsInv
<1>1. Init => Orderly /\ Members
  BY NewLine, Beginning DEF Init, GateInit, Orderly, Members, InOrder, Different
<1>2. GateInv /\ ServiceInv /\ JobsInv /\ (Orderly /\ Members) /\ [Next]_vars
      => (Orderly /\ Members)'
  BY AtGateSteps, OrderlySteps DEF StandsInv, AtGate
<1> QED
  BY <1>1, <1>2, GateAlwaysInv, ServiceAlwaysInv, JobsAlwaysInv, PTL DEF Spec, StandsInv

\* The gate keeps the promise of PacedQueue through retries, refreshes, aborts,
\* exchanges, disconnections and restarts: every step of the client is one of the
\* line, or none (request-gate.ts line 60).
THEOREM GateKeepsItsPromise == Spec => GateKeepsPromise
<1>1. Init => Promise!Init
  <2> SUFFICES ASSUME Init PROVE Promise!Init
    OBVIOUS
  <2>1. Line = LineOf(gate) /\ gate = NewGate
    BY DEF Line, LineOf, Init, GateInit
  <2>2. Line = <<>> /\ gate.holders = {} /\ gate.sinceStart = Spacing
    BY <2>1, NewLine, Beginning
  <2> QED
    BY <2>2 DEF Promise!Init
<1>2. StandsInv /\ [Next]_vars => [Promise!Next]_(Promise!vars)
  BY AtGateSteps, OrderlySteps DEF StandsInv, AtGate
<1> QED
  BY <1>1, <1>2, StandsAlways, PTL DEF Spec, GateKeepsPromise, Promise!Spec

----------------------------------------------------------------------------
(* Whose data a job holds.                                                 *)

\* A job whose generation is that of the row w holds tokens and data of its
\* connection alone, and a generation a job has used is not given out again: the
\* next one is above k, the last known, and above that of the row.
AccountOf(r, w, k) ==
    /\ r.generation <= 1 \/ r.generation <= k \/ r.generation <= w.generation
    /\ r.token # NoConnection \/ r.data # {} => r.generation <= k \/ r.generation <= w.generation
    /\ w # NoRow /\ r.generation = w.generation =>
          r.token \in {NoConnection, w.connection} /\ r.data \subseteq {w.connection}
    /\ r.pc = "idle" => r.token = NoConnection /\ r.data = {}

\* A disconnection under way knows the generations of the jobs that began before
\* it, and nothing is said of those that cross it.
AccountInv ==
    /\ Connected => lastKnown <= row.generation
    /\ \A j \in Jobs \ crossed : job[j].pc # "done" =>
          /\ AccountOf(job[j], row, lastKnown)
          /\ Revoke \in Inside(gate) => job[j].generation <= lastKnown

\* The numbers these facts are about.
LEMMA GenerationsAreNumbers ==
    ASSUME ServiceInv
    PROVE  /\ row.generation \in Nat /\ lastKnown \in Nat
           /\ \A r \in JobRecord : r.generation \in Nat
           /\ Connected => row.generation >= 1 /\ row.connection # NoConnection
           /\ row.tokens = row.connection
           /\ ~Connected => row.generation = 0 /\ row.connection = NoConnection
BY BoundsType DEF ServiceInv, ServiceType, RowInv, Rows, NoRow, Connected, Generations, JobRecord,
                  Connections, NoConnection

\* The row and the last known generation change under a job that does not.
LEMMA RowMoves ==
    ASSUME ServiceInv, ServiceInv', NEW r \in JobRecord, AccountOf(r, row, lastKnown),
           Connected => lastKnown <= row.generation,
           \/ row' = row /\ lastKnown' >= lastKnown
           \/ /\ lastKnown' > lastKnown /\ lastKnown' > row.generation
              /\ row'.generation = lastKnown'
           \/ row' = NoRow /\ lastKnown' = lastKnown /\ r.generation <= lastKnown
           \/ /\ Connected /\ lastKnown' = lastKnown
              /\ row'.generation = row.generation + 1 /\ row'.connection = row.connection
    PROVE  AccountOf(r, row', lastKnown')
<1>1. /\ row.generation \in Nat /\ lastKnown \in Nat /\ r.generation \in Nat
      /\ row'.generation \in Nat /\ lastKnown' \in Nat
      /\ ~Connected => row.generation = 0
  <2>1. row'.generation \in Nat /\ lastKnown' \in Nat
    BY BoundsType DEF ServiceInv, ServiceType, Rows, NoRow, Generations
  <2> QED
    BY <2>1, GenerationsAreNumbers
<1>2. CASE row' = row /\ lastKnown' >= lastKnown
  BY <1>1, <1>2 DEF AccountOf
<1>3. CASE /\ lastKnown' > lastKnown /\ lastKnown' > row.generation
           /\ row'.generation = lastKnown'
  <2>1. r.token # NoConnection \/ r.data # {} => r.generation < lastKnown'
    BY <1>1, <1>3 DEF AccountOf
  <2> QED
    BY <1>1, <1>3, <2>1 DEF AccountOf
<1>4. CASE row' = NoRow /\ lastKnown' = lastKnown /\ r.generation <= lastKnown
  BY <1>1, <1>4 DEF AccountOf
<1>5. CASE /\ Connected /\ lastKnown' = lastKnown
           /\ row'.generation = row.generation + 1 /\ row'.connection = row.connection
  <2>1. r.token # NoConnection \/ r.data # {} => r.generation < row'.generation
    BY <1>1, <1>5 DEF AccountOf
  <2> QED
    BY <1>1, <1>5, <2>1 DEF AccountOf
<1> QED
  BY <1>2, <1>3, <1>4, <1>5

\* A job that is connected holds no generation above that of the row.
LEMMA GenerationOfRow ==
    ASSUME ServiceInv, NEW r \in JobRecord, AccountOf(r, row, lastKnown), Connected,
           lastKnown <= row.generation
    PROVE  r.generation <= row.generation
<1>1. row.generation \in Nat /\ lastKnown \in Nat /\ r.generation \in Nat /\ row.generation >= 1
  BY GenerationsAreNumbers
<1> QED
  BY <1>1 DEF AccountOf

\* A job changes under a row that does not: it keeps what it holds, takes a token
\* of the row or none, or keeps the data its token brought.
LEMMA HoldsMore ==
    ASSUME ServiceInv, NEW r \in JobRecord, AccountOf(r, row, lastKnown),
           Connected => lastKnown <= row.generation,
           NEW q \in JobRecord, q.pc # "idle", q.generation = r.generation,
           q.token \in {r.token, row.connection, NoConnection},
           q.data \subseteq r.data \cup {r.token},
           q.data # r.data => r.token # NoConnection
    PROVE  AccountOf(q, row, lastKnown)
<1>1. /\ r.generation \in Nat /\ row.generation \in Nat /\ lastKnown \in Nat
      /\ ~Connected => row.connection = NoConnection
  BY GenerationsAreNumbers
<1>2. Connected => r.generation <= row.generation
  BY GenerationOfRow
<1>3. q.token # NoConnection \/ q.data # {} => r.generation <= lastKnown \/ r.generation <= row.generation
  BY <1>1, <1>2 DEF AccountOf
<1>4. Connected /\ r.generation = row.generation =>
        q.token \in {NoConnection, row.connection} /\ q.data \subseteq {row.connection}
  <2> SUFFICES ASSUME Connected, r.generation = row.generation
               PROVE  q.token \in {NoConnection, row.connection} /\ q.data \subseteq {row.connection}
    OBVIOUS
  <2>1. r.token \in {NoConnection, row.connection} /\ r.data \subseteq {row.connection}
    BY DEF AccountOf, Connected
  <2> QED
    BY <2>1
<1> QED
  BY <1>3, <1>4 DEF AccountOf, Connected

\* One job changes, to what it may hold, or is done.
LEMMA OneAccountMoves ==
    ASSUME StandsInv, AccountInv, UNCHANGED <<row, lastKnown>>,
           NEW j \in Jobs, NEW q \in JobRecord, job' = [job EXCEPT ![j] = q],
           crossed \subseteq crossed',
           q.pc # "done" /\ j \notin crossed' =>
               /\ AccountOf(q, row, lastKnown)
               /\ Revoke \in Inside(gate') => q.generation <= lastKnown,
           Revoke \in Inside(gate') => Revoke \in Inside(gate)
    PROVE  AccountInv'
<1>1. job \in [Jobs -> JobRecord]
  BY DEF StandsInv, JobsInv
<1>2. \A i \in Jobs : job'[i] = IF i = j THEN q ELSE job[i]
  BY <1>1
<1> QED
  BY <1>2 DEF AccountInv, Connected

\* What a job q may be after it was r.
Keeps(r, q) ==
    \/ q = r
    \/ q.pc = "done"
    \/ /\ r.pc # "done" /\ q.pc # "idle" /\ q.generation = r.generation
       /\ q.token \in {r.token, row.connection, NoConnection}
       /\ q.data \subseteq r.data \cup {r.token}
       /\ q.data # r.data => r.token # NoConnection

\* Jobs go on with what their work brings.
LEMMA JobsHoldMore ==
    ASSUME StandsInv, JobsInv', AccountInv, UNCHANGED <<row, lastKnown, crossed>>,
           \A j \in Jobs : Keeps(job[j], job'[j]),
           Revoke \in Inside(gate') => Revoke \in Inside(gate)
    PROVE  AccountInv'
<1>1. ASSUME NEW j \in Jobs \ crossed, job'[j].pc # "done"
      PROVE  /\ AccountOf(job'[j], row, lastKnown)
             /\ Revoke \in Inside(gate) => job'[j].generation <= lastKnown
  <2>1. /\ job[j] \in JobRecord /\ job'[j] \in JobRecord /\ ServiceInv
        /\ Connected => lastKnown <= row.generation
        /\ job[j].pc # "done" => /\ AccountOf(job[j], row, lastKnown)
                                 /\ Revoke \in Inside(gate) => job[j].generation <= lastKnown
    BY DEF StandsInv, JobsInv, AccountInv
  <2>2. CASE job'[j] = job[j]
    BY <1>1, <2>1, <2>2
  <2>3. CASE job'[j] # job[j]
    <3>1. Keeps(job[j], job'[j])
      OBVIOUS
    <3>2. job[j].pc # "done" /\ job'[j].generation = job[j].generation
      BY <1>1, <2>3, <3>1 DEF Keeps
    <3>3. AccountOf(job'[j], row, lastKnown)
      BY <1>1, <2>1, <2>3, <3>1, HoldsMore DEF Keeps
    <3> QED
      BY <2>1, <3>2, <3>3
  <2> QED
    BY <2>2, <2>3
<1> QED
  BY <1>1 DEF AccountInv, Connected

\* The same of one job.
LEMMA OneHoldsMore ==
    ASSUME StandsInv, JobsInv', AccountInv, UNCHANGED <<row, lastKnown, crossed>>,
           NEW j \in Jobs, NEW q, job' = [job EXCEPT ![j] = q], Keeps(job[j], q),
           Revoke \in Inside(gate') => Revoke \in Inside(gate)
    PROVE  AccountInv'
<1>1. job \in [Jobs -> JobRecord]
  BY DEF StandsInv, JobsInv
<1>2. \A i \in Jobs : Keeps(job[i], job'[i])
  BY <1>1 DEF Keeps
<1> QED
  BY <1>2, JobsHoldMore

\* No job changes but the connection does.
LEMMA AccountsMove ==
    ASSUME StandsInv, ServiceInv', AccountInv, crossed' = crossed,
           \A j \in Jobs : job'[j].pc # "done" =>
               /\ job[j].pc # "done" /\ job'[j].generation = job[j].generation
               /\ job'[j].token = job[j].token /\ job'[j].data = job[j].data
               /\ job'[j].pc = "idle" => job[j].pc = "idle",
           \/ row' = row /\ lastKnown' >= lastKnown
           \/ /\ lastKnown' > lastKnown /\ lastKnown' > row.generation
              /\ row'.generation = lastKnown'
           \/ row' = NoRow /\ lastKnown' = lastKnown /\ Revoke \in Inside(gate)
           \/ /\ Connected /\ lastKnown' = lastKnown
              /\ row'.generation = row.generation + 1 /\ row'.connection = row.connection,
           Connected' => lastKnown' <= row'.generation,
           Revoke \in Inside(gate') =>
               Revoke \in Inside(gate) \/ (Connected /\ lastKnown' >= row.generation)
    PROVE  AccountInv'
<1>1. ASSUME NEW j \in Jobs \ crossed, job'[j].pc # "done"
      PROVE  /\ AccountOf(job'[j], row', lastKnown')
             /\ Revoke \in Inside(gate') => job'[j].generation <= lastKnown'
  <2>1. /\ job[j] \in JobRecord /\ AccountOf(job[j], row, lastKnown) /\ ServiceInv
        /\ Connected => lastKnown <= row.generation
        /\ Revoke \in Inside(gate) => job[j].generation <= lastKnown
    BY <1>1 DEF StandsInv, JobsInv, AccountInv
  <2>2. AccountOf(job[j], row', lastKnown')
    <3>1. CASE row' = NoRow /\ lastKnown' = lastKnown /\ Revoke \in Inside(gate)
      BY <2>1, <3>1, RowMoves
    <3>2. CASE ~(row' = NoRow /\ lastKnown' = lastKnown /\ Revoke \in Inside(gate))
      BY <2>1, <3>2, RowMoves
    <3> QED
      BY <3>1, <3>2
  <2>3. job[j].generation \in Nat /\ lastKnown \in Nat /\ row.generation \in Nat
    BY <2>1, GenerationsAreNumbers
  <2>4. lastKnown' \in Nat
    BY BoundsType DEF ServiceInv, ServiceType, Generations
  <2>5. lastKnown' >= lastKnown
    <3>1. lastKnown' = lastKnown \/ lastKnown' >= lastKnown \/ lastKnown' > lastKnown
      OBVIOUS
    <3> QED
      BY <2>3, <2>4, <3>1
  <2>6. ASSUME Revoke \in Inside(gate'), Revoke \notin Inside(gate), Connected
        PROVE  job[j].generation <= lastKnown'
    <3>1. job[j].generation <= row.generation
      BY <2>1, <2>6, GenerationOfRow
    <3> QED
      BY <2>3, <2>4, <2>6, <3>1
  <2>7. ASSUME Revoke \in Inside(gate)
        PROVE  job[j].generation <= lastKnown'
    BY <2>1, <2>3, <2>4, <2>5, <2>7
  <2>8. AccountOf(job'[j], row', lastKnown')
    BY <1>1, <2>2 DEF AccountOf
  <2>9. job'[j].generation = job[j].generation
    BY <1>1
  <2> QED
    BY <2>6, <2>7, <2>8, <2>9
<1> QED
  BY <1>1 DEF AccountInv

\* The answers of WakaTime: a success keeps what its token brought.
LEMMA AnswerKeeps ==
    ASSUME StandsInv, NEW j \in Jobs, Answers(j)
    PROVE  \E q : job' = [job EXCEPT ![j] = q] /\ Keeps(job[j], q)
<1>1. /\ job[j] \in JobRecord /\ job[j].pc = "gate" /\ job[j].token # NoConnection
  <2>1. job[j].pc = "gate" /\ job[j] \in JobRecord
    BY DEF Answers, Success, Throttled, ServerError, Unauthorized, Refused, Fetching,
           StandsInv, JobsInv
  <2> QED
    BY <2>1 DEF StandsInv, JobsInv, TokenInv
<1>2. CASE Success(j)
  <2> DEFINE q == [Over(job[j]) EXCEPT !.data = @ \cup {job[j].token}]
  <2>1. /\ q.pc = "ended" /\ q.generation = job[j].generation /\ q.token = NoConnection
        /\ q.data = job[j].data \cup {job[j].token}
    BY <1>1, OverFacts DEF JobRecord
  <2>2. job' = [job EXCEPT ![j] = q]
    BY <1>2 DEF Success, Answered, Becomes
  <2> HIDE DEF q
  <2> QED
    BY <1>1, <2>1, <2>2 DEF Keeps
<1>3. ASSUME NEW q, job' = [job EXCEPT ![j] = q], q.pc \in {"backoff", "renew", "ended"},
             q.generation = job[j].generation, q.token = job[j].token, q.data = job[j].data
      PROVE  \E s : job' = [job EXCEPT ![j] = s] /\ Keeps(job[j], s)
  <2>1. Keeps(job[j], q)
    BY <1>1, <1>3 DEF Keeps
  <2> QED
    BY <1>3, <2>1
<1>4. CASE Throttled(j)
  <2> DEFINE q == [job[j] EXCEPT !.pc = "backoff", !.throttles = @ + 1]
  <2>1. /\ q.pc = "backoff" /\ q.generation = job[j].generation /\ q.token = job[j].token
        /\ q.data = job[j].data
    BY <1>1 DEF JobRecord
  <2>2. job' = [job EXCEPT ![j] = q]
    BY <1>4 DEF Throttled, Answered, Becomes
  <2> HIDE DEF q
  <2> QED
    BY <1>3, <2>1, <2>2
<1>5. CASE ServerError(j)
  <2> DEFINE q == [job[j] EXCEPT !.pc = "backoff", !.errors = @ + 1]
  <2>1. /\ q.pc = "backoff" /\ q.generation = job[j].generation /\ q.token = job[j].token
        /\ q.data = job[j].data
    BY <1>1 DEF JobRecord
  <2>2. job' = [job EXCEPT ![j] = q]
    BY <1>5 DEF ServerError, Answered, Becomes
  <2> HIDE DEF q
  <2> QED
    BY <1>3, <2>1, <2>2
<1>6. CASE Unauthorized(j)
  <2> DEFINE q == [job[j] EXCEPT !.pc = "renew", !.renewed = TRUE]
  <2>1. /\ q.pc = "renew" /\ q.generation = job[j].generation /\ q.token = job[j].token
        /\ q.data = job[j].data
    BY <1>1 DEF JobRecord
  <2>2. job' = [job EXCEPT ![j] = q]
    BY <1>6 DEF Unauthorized, Answered, Becomes
  <2> HIDE DEF q
  <2> QED
    BY <1>3, <2>1, <2>2
<1>7. CASE Refused(j)
  <2>1. Keeps(job[j], Over(job[j]))
    BY <1>1, OverFacts DEF Keeps
  <2> QED
    BY <1>7, <2>1 DEF Refused, Answered, Becomes
<1> QED
  BY <1>2, <1>4, <1>5, <1>6, <1>7 DEF Answers

\* A request is over, and its job with it or not.
LEMMA OverKeeps ==
    ASSUME StandsInv, NEW j \in Jobs, NEW r \in Failures(job[j]), job[j].pc # "done"
    PROVE  Keeps(job[j], r)
<1>1. job[j] \in JobRecord
  BY DEF StandsInv, JobsInv
<1>2. CASE r = Over(job[j])
  BY <1>1, <1>2, OverFacts DEF Keeps
<1>3. CASE r = Done("none")
  BY <1>3, DoneFacts DEF Keeps
<1> QED
  BY <1>2, <1>3 DEF Failures

\* A request begins with the token of the row.
LEMMA AskKeeps ==
    ASSUME StandsInv, NEW j \in Jobs, Ask(j)
    PROVE  \E q : job' = [job EXCEPT ![j] = q] /\ Keeps(job[j], q)
<1> DEFINE begun == [job[j] EXCEPT !.asked = row.connection, !.token = row.tokens]
           q(pc) == [begun EXCEPT !.pc = pc]
<1>1. \/ Becomes(j, Over(job[j]))
      \/ \E pc \in {"gate", "renew"} : Becomes(j, q(pc))
  BY DEF Ask
<1>2. job[j] \in JobRecord /\ row.tokens = row.connection
  BY GenerationsAreNumbers DEF StandsInv, JobsInv
<1>3. \A pc : /\ q(pc).pc = pc /\ q(pc).generation = job[j].generation
               /\ q(pc).token = row.connection /\ q(pc).data = job[j].data
  BY <1>2 DEF JobRecord
<1> HIDE DEF q
<1>4. \A pc \in {"gate", "renew"} : Keeps(job[j], q(pc))
  BY <1>3 DEF Keeps, Ask
<1>5. Keeps(job[j], Over(job[j]))
  BY OverKeeps DEF Failures, Ask
<1> QED
  BY <1>1, <1>4, <1>5 DEF Becomes

\* The next request, or the end of a job.
LEMMA ProceedKeeps ==
    ASSUME StandsInv, NEW j \in Jobs, Proceed(j)
    PROVE  \E q : job' = [job EXCEPT ![j] = q] /\ Keeps(job[j], q)
<1>1. job[j] \in JobRecord /\ job[j].pc = "ended"
  BY DEF StandsInv, JobsInv, Proceed
<1>2. CASE job' = [job EXCEPT ![j].pc = "ask", ![j].left = @ - 1]
  <2> DEFINE q == [job[j] EXCEPT !.pc = "ask", !.left = @ - 1]
  <2>1. /\ q.pc = "ask" /\ q.generation = job[j].generation /\ q.token = job[j].token
        /\ q.data = job[j].data
    BY <1>1 DEF JobRecord
  <2>2. job' = [job EXCEPT ![j] = q]
    BY <1>2
  <2> HIDE DEF q
  <2>3. Keeps(job[j], q)
    BY <1>1, <2>1 DEF Keeps
  <2> QED
    BY <2>2, <2>3
<1>3. ASSUME NEW result \in {"none", "committed"}, Becomes(j, Done(result))
      PROVE  \E q : job' = [job EXCEPT ![j] = q] /\ Keeps(job[j], q)
  BY <1>3, DoneFacts DEF Keeps, Becomes
<1> QED
  BY <1>2, <1>3 DEF Proceed

\* A refresh resolves: with the tokens of the row, or none.
LEMMA ResolveKeeps ==
    ASSUME StandsInv, NEW token \in {NewToken, NoConnection}, Resolve(token), NEW j \in Jobs
    PROVE  Keeps(job[j], job'[j])
<1>1. job[j] \in JobRecord /\ row.tokens = row.connection
  BY GenerationsAreNumbers DEF StandsInv, JobsInv
<1>2. token \in {row.connection, NoConnection}
  BY <1>1, UpdateKeepsTokens DEF NewToken, StandsInv
<1> DEFINE q == [job[j] EXCEPT !.pc = "resumed", !.token = token]
<1>3. q.pc = "resumed" /\ q.token = token /\ q.generation = job[j].generation /\ q.data = job[j].data
  BY <1>1 DEF JobRecord
<1>4. job'[j] = IF job[j].pc = "token" THEN q ELSE job[j]
  BY DEF Resolve
<1> HIDE DEF q
<1> QED
  BY <1>2, <1>3, <1>4 DEF Keeps

\* A signal aborts, and those who waited for its refresh have none.
LEMMA AbortKeeps ==
    ASSUME StandsInv, NEW j \in Jobs, Abort(j), NEW i \in Jobs
    PROVE  Keeps(job[i], job'[i])
<1>1. PICK r \in Failures(job[j]) :
        /\ job[j].pc # "done"
        /\ \/ Becomes(j, r)
           \/ job' = [k \in Jobs |->
                        IF k = j THEN r
                        ELSE IF job[k].pc = "token"
                        THEN [job[k] EXCEPT !.pc = "resumed", !.token = NoConnection]
                        ELSE job[k]]
  BY DEF Abort
<1>2. job \in [Jobs -> JobRecord]
  BY DEF StandsInv, JobsInv
<1> DEFINE failed == [job[i] EXCEPT !.pc = "resumed", !.token = NoConnection]
<1>3. /\ failed.pc = "resumed" /\ failed.generation = job[i].generation
      /\ failed.token = NoConnection /\ failed.data = job[i].data
  BY <1>2 DEF JobRecord
<1>4. \/ job'[i] = job[i] \/ (job'[i] = r /\ i = j)
      \/ (job'[i] = failed /\ job[i].pc = "token")
  BY <1>1, <1>2 DEF Becomes
<1> HIDE DEF failed
<1>5. Keeps(job[j], r)
  BY <1>1, OverKeeps
<1> QED
  BY <1>3, <1>4, <1>5 DEF Keeps

\* Every step keeps what the jobs hold theirs.
LEMMA AccountSteps ==
    ASSUME StandsInv, ServiceInv', JobsInv', AccountInv, [Next]_vars
    PROVE  AccountInv'
<1>1. /\ job \in [Jobs -> JobRecord] /\ ServiceInv /\ AtGate
      /\ row.generation \in Nat /\ lastKnown \in Nat
      /\ Highest(lastKnown, row.generation) \in {lastKnown, row.generation}
      /\ Highest(lastKnown, row.generation) >= lastKnown
      /\ Highest(lastKnown, row.generation) >= row.generation
  BY AtGateSteps, GenerationsAreNumbers, HighestOf DEF StandsInv, JobsInv
<1>2. Connected => lastKnown <= row.generation /\ Highest(lastKnown, row.generation) = row.generation
  BY <1>1 DEF AccountInv, Highest
<1>3. CASE StartDisconnect
  <2>1. /\ row' = row /\ lastKnown' = Highest(lastKnown, row.generation) /\ job' = job
        /\ Connected /\ crossed' = crossed
    BY <1>3 DEF StartDisconnect
  <2>2. row.generation <= lastKnown' /\ lastKnown' <= row'.generation /\ lastKnown' >= lastKnown
    BY <1>1, <1>2, <2>1
  <2> QED
    BY <2>1, <2>2, AccountsMove DEF StandsInv
<1>4. ASSUME ~StartDisconnect PROVE AccountInv'
  <2>1. Revoke \in Inside(gate') => Revoke \in Inside(gate)
    BY <1>1, <1>4 DEF AtGate
  <2>2. ASSUME NEW j \in Jobs, NEW q, job' = [job EXCEPT ![j] = q], Keeps(job[j], q),
               UNCHANGED service, crossed' = crossed
        PROVE  AccountInv'
    BY <2>1, <2>2, OneHoldsMore DEF service
  <2>3. ASSUME NEW j \in Jobs, Ask(j) \/ Proceed(j) \/ Answers(j) PROVE AccountInv'
    <3>1. UNCHANGED service /\ crossed' = crossed
      BY <2>3 DEF Ask, Proceed, Answers, Success, Throttled, ServerError, Unauthorized, Refused,
                  Answered
    <3> QED
      BY <2>2, <2>3, <3>1, AskKeeps, ProceedKeeps, AnswerKeeps
  <2>4. ASSUME NEW j \in Jobs, NEW pc, pc # "idle", Goes(j, pc), job[j].pc # "done", row' = row,
               lastKnown' \in {lastKnown, Highest(lastKnown, row.generation)},
               lastKnown' # lastKnown => Connected, crossed' = crossed
        PROVE  AccountInv'
    <3>1. \A i \in Jobs : /\ job'[i].generation = job[i].generation /\ job'[i].token = job[i].token
                          /\ job'[i].data = job[i].data
                          /\ job'[i].pc = IF i = j THEN pc ELSE job[i].pc
      BY <1>1, <2>4 DEF Goes, JobRecord
    <3>2. \A i \in Jobs : job'[i].pc # "done" => job[i].pc # "done"
                                               /\ (job'[i].pc = "idle" => job[i].pc = "idle")
      BY <2>4, <3>1
    <3>3. /\ lastKnown' >= lastKnown
          /\ Connected' => lastKnown' <= row'.generation
      BY <1>1, <1>2, <2>4 DEF AccountInv, Connected
    <3> QED
      BY <2>1, <2>4, <3>1, <3>2, <3>3, AccountsMove
  <2>5. ASSUME NEW j \in Jobs, Renew(j) \/ Resumed(j) \/ BackoffOver(j) PROVE AccountInv'
    <3>0. crossed' = crossed
      BY <2>5 DEF Renew, AwaitRefresh, Resumed, BackoffOver
    <3>1. CASE /\ UNCHANGED service /\ job[j].pc # "done"
               /\ \E r \in Failures(job[j]) : Becomes(j, r)
      <4>1. PICK r \in Failures(job[j]) : job' = [job EXCEPT ![j] = r]
        BY <3>1 DEF Becomes
      <4> QED
        BY <2>2, <3>0, <3>1, <4>1, OverKeeps
    <3>2. CASE ~(\E r \in Failures(job[j]) : Becomes(j, r))
      <4>1. \E pc \in {"token", "gate"} : Goes(j, pc)
        BY <2>5, <3>2 DEF Renew, AwaitRefresh, Resumed, BackoffOver, Failures
      <4>2. /\ job[j].pc # "done" /\ row' = row
            /\ lastKnown' \in {lastKnown, Highest(lastKnown, row.generation)}
            /\ lastKnown' # lastKnown => Connected
        BY <2>5 DEF Renew, AwaitRefresh, Resumed, BackoffOver, service
      <4> QED
        BY <2>4, <3>0, <4>1, <4>2
    <3>3. CASE ~(UNCHANGED service /\ job[j].pc # "done")
      <4>1. Goes(j, "token")
        BY <2>5, <3>3 DEF Renew, AwaitRefresh, Resumed, BackoffOver
      <4>2. /\ job[j].pc # "done" /\ row' = row
            /\ lastKnown' \in {lastKnown, Highest(lastKnown, row.generation)}
            /\ lastKnown' # lastKnown => Connected
        BY <2>5 DEF Renew, AwaitRefresh, Resumed, BackoffOver, service
      <4> QED
        BY <2>4, <3>0, <4>1, <4>2
    <3> QED
      BY <3>1, <3>2, <3>3
  <2>6. ASSUME RefreshReturns PROVE AccountInv'
    <3>1. row' = row /\ lastKnown' = lastKnown /\ crossed' = crossed
      <4>1. CASE UpdatesRow(refresh.generation) /\ row' = [row EXCEPT !.tokens = refresh.tokens]
        <5>1. refresh.tokens = row.tokens /\ row \in Rows
          BY <1>1, <4>1, UpdateKeepsTokens
        <5> QED
          BY <2>6, <4>1, <5>1 DEF Rows, NoRow, RefreshReturns
      <4> QED
        BY <2>6, <4>1 DEF RefreshReturns
    <3>2. \A j \in Jobs : Keeps(job[j], job'[j])
      BY <2>6, ResolveKeeps DEF RefreshReturns
    <3> QED
      BY <2>1, <3>1, <3>2, JobsHoldMore
  <2>7. ASSUME NEW j \in Jobs, Abort(j) PROVE AccountInv'
    <3>1. \A i \in Jobs : Keeps(job[i], job'[i])
      BY <2>7, AbortKeeps
    <3> QED
      BY <2>1, <2>7, <3>1, JobsHoldMore DEF Abort
  <2>8. ASSUME NEW j \in Jobs, Begin(j) PROVE AccountInv'
    <3> DEFINE q == [job[j] EXCEPT !.pc = "ask", !.left = RequestsPerJob - 1,
                                   !.generation = CurrentGeneration]
    <3>1. q.pc = "ask" /\ q.generation = CurrentGeneration /\ q.token = job[j].token
          /\ q.data = job[j].data
      BY <1>1 DEF JobRecord
    <3>2. job' = [job EXCEPT ![j] = q]
      BY <2>8 DEF Begin
    <3>3. job'[j] = q
      BY <1>1, <3>2
    <3> HIDE DEF q
    <3>4. q \in JobRecord
      BY <3>3 DEF JobsInv
    <3>5. crossed' = (IF Crosses THEN crossed \cup {j} ELSE crossed) /\ UNCHANGED <<gate, service>>
      BY <2>8 DEF Begin
    <3>6. ASSUME j \notin crossed'
          PROVE  /\ AccountOf(q, row, lastKnown)
                 /\ Revoke \in Inside(gate') => q.generation <= lastKnown
      <4>1. j \notin crossed /\ ~Crosses
        BY <3>5, <3>6
      <4>2. job[j].pc = "idle" /\ AccountOf(job[j], row, lastKnown)
        BY <2>8, <4>1 DEF Begin, AccountInv
      <4>3. AccountOf(q, row, lastKnown)
        BY <1>1, <3>1, <4>2 DEF AccountOf, CurrentGeneration, Connected
      <4>4. Revoke \in Inside(gate') => CurrentGeneration <= lastKnown
        <5>1. Revoke \in Inside(gate') => Disconnecting
          BY <3>5, LineType DEF Disconnecting, Inside, StandsInv, GateInv
        <5>2. CurrentGeneration \in Nat
          BY <1>1 DEF CurrentGeneration
        <5> QED
          BY <1>1, <4>1, <5>1, <5>2 DEF Crosses
      <4> QED
        BY <3>1, <4>3, <4>4
    <3> QED
      BY <2>1, <3>2, <3>4, <3>5, <3>6, OneAccountMoves DEF service
  <2>9. ASSUME UNCHANGED <<row, lastKnown, job, crossed>> PROVE AccountInv'
    <3>1. \A j \in Jobs : Keeps(job[j], job'[j])
      BY <2>9 DEF Keeps
    <3> QED
      BY <2>1, <2>9, <3>1, JobsHoldMore
  <2>10. ASSUME ExchangeReturns PROVE AccountInv'
    <3>1. CASE UNCHANGED <<row, lastKnown>>
      BY <2>9, <2>10, <3>1 DEF ExchangeReturns
    <3>2. CASE lastKnown' = NextGeneration
               /\ row' = [connection |-> connections + 1, generation |-> NextGeneration,
                          tokens |-> connections + 1]
      <4>1. /\ lastKnown' > lastKnown /\ lastKnown' > row.generation
            /\ row'.generation = lastKnown' /\ lastKnown' <= row'.generation
        BY <1>1, <3>2 DEF NextGeneration
      <4>2. job' = job /\ crossed' = crossed
        BY <2>10 DEF ExchangeReturns
      <4> QED
        BY <2>1, <4>1, <4>2, AccountsMove
    <3> QED
      BY <2>10, <3>1, <3>2 DEF ExchangeReturns
  <2>11. ASSUME DisconnectReturns PROVE AccountInv'
    <3>1. Revoke \in Inside(gate)
      BY <2>11 DEF DisconnectReturns, Inside
    <3>2. row' = NoRow /\ lastKnown' = lastKnown /\ job' = job /\ crossed' = crossed /\ ~Connected'
      BY <2>11 DEF DisconnectReturns, Connected
    <3> QED
      BY <3>1, <3>2, AccountsMove
  <2>12. ASSUME Rebind PROVE AccountInv'
    <3>1. /\ Connected /\ lastKnown' = lastKnown /\ job' = job /\ crossed' = crossed
          /\ row' = [row EXCEPT !.generation = @ + 1]
      BY <2>12 DEF Rebind
    <3>2. row'.generation = row.generation + 1 /\ row'.connection = row.connection
      BY <1>1, <3>1 DEF ServiceInv, ServiceType, Rows, NoRow
    <3>3. lastKnown' <= row'.generation
      BY <1>1, <1>2, <3>1, <3>2
    <3> QED
      BY <2>1, <3>1, <3>2, <3>3, AccountsMove
  <2>13. ASSUME Restart PROVE AccountInv'
    <3>1. Revoke \notin Inside(gate') /\ row' = row /\ lastKnown' = row.generation
      BY <2>13, NewLine DEF Restart
    <3>2. IdleJob.generation = 0 /\ IdleJob.token = NoConnection /\ IdleJob.data = {}
          /\ IdleJob.pc = "idle"
      BY DEF IdleJob
    <3> HIDE DEF IdleJob
    <3>3. AccountOf(IdleJob, row, lastKnown')
      BY <1>1, <3>1, <3>2 DEF AccountOf
    <3>4. \A j \in Jobs : job'[j].pc # "done" => job'[j] = IdleJob
      BY <2>13, <3>2 DEF Restart
    <3> QED
      BY <1>1, <3>1, <3>3, <3>4 DEF AccountInv
  <2>14. ASSUME \/ Tick \/ \E u \in Users : PacingEnds(u)
                \/ StartExchange \/ AtRest \/ UNCHANGED vars
         PROVE  AccountInv'
    <3>1. UNCHANGED <<row, lastKnown, job, crossed>>
      BY <2>14 DEF Tick, PacingEnds, StartExchange, AtRest, vars, service
    <3> QED
      BY <2>9, <3>1
  <2> QED
    BY <1>4, <2>3, <2>5, <2>6, <2>7, <2>8, <2>10, <2>11, <2>12, <2>13, <2>14
       DEF Next, Continue, Upstream, Timers, Operator
<1> QED
  BY <1>3, <1>4

\* A commit is of the account that is connected.
CommitStep ==
    \A j \in Jobs : job[j].result = "none" /\ job'[j].result = "committed" =>
        (Connected => job[j].data = {row.connection}) \/ j \in crossed

LEMMA CommitSteps ==
    ASSUME StandsInv, AccountInv, [Next]_vars
    PROVE  CommitStep
<1> SUFFICES ASSUME NEW j \in Jobs, job[j].result = "none", job'[j].result = "committed",
                    Connected, j \notin crossed
             PROVE  job[j].data = {row.connection}
  BY DEF CommitStep
<1>0. job \in [Jobs -> JobRecord] /\ AccountInv
  BY DEF StandsInv, JobsInv
<1>2. ASSUME NEW i \in Jobs, NEW q, job' = [job EXCEPT ![i] = q],
             q.result \in {job[i].result, "none"}
      PROVE  FALSE
  BY <1>0, <1>2
<1>3. ASSUME NEW i \in Jobs, NEW pc, Goes(i, pc) PROVE FALSE
  <2> DEFINE q == [job[i] EXCEPT !.pc = pc]
  <2>1. q.result = job[i].result
    BY <1>0 DEF JobRecord
  <2>2. job' = [job EXCEPT ![i] = q]
    BY <1>3 DEF Goes
  <2> HIDE DEF q
  <2> QED
    BY <1>2, <2>1, <2>2
<1>4. \A i \in Jobs : \A r \in Failures(job[i]) : r.result \in {job[i].result, "none"}
  BY <1>0, OverFacts, DoneFacts DEF Failures
<1>5. ASSUME NEW i \in Jobs, NEW r \in Failures(job[i]), Becomes(i, r) PROVE FALSE
  BY <1>2, <1>4, <1>5 DEF Becomes
<1>1. ASSUME NEW i \in Jobs, Proceed(i) PROVE job[j].data = {row.connection}
  <2>1. CASE job' = [job EXCEPT ![i].pc = "ask", ![i].left = @ - 1]
    <3> DEFINE q == [job[i] EXCEPT !.pc = "ask", !.left = @ - 1]
    <3>1. q.result = job[i].result
      BY <1>0 DEF JobRecord
    <3>2. job' = [job EXCEPT ![i] = q]
      BY <2>1
    <3> HIDE DEF q
    <3> QED
      BY <1>2, <3>1, <3>2
  <2>2. CASE Becomes(i, Done(IF job[i].data # {} /\ job[i].generation = CurrentGeneration
                             THEN "committed" ELSE "none"))
    <3>1. /\ i = j /\ job[i].data # {} /\ job[i].generation = CurrentGeneration
          /\ job[i].pc = "ended"
      BY <1>0, <1>1, <2>2, DoneFacts DEF Proceed, Becomes
    <3>2. AccountOf(job[j], row, lastKnown) /\ job[j].generation = row.generation
      BY <1>0, <3>1 DEF AccountInv, CurrentGeneration
    <3> QED
      BY <3>1, <3>2 DEF AccountOf, Connected
  <2> QED
    BY <1>1, <2>1, <2>2 DEF Proceed
<1>6. ASSUME NEW i \in Jobs, Renew(i) \/ Resumed(i) \/ BackoffOver(i) \/ Refused(i) PROVE FALSE
  <2>1. (\E pc : Goes(i, pc)) \/ \E r \in Failures(job[i]) : Becomes(i, r)
    BY <1>6 DEF Renew, AwaitRefresh, Resumed, BackoffOver, Refused, Answered, Failures
  <2> QED
    BY <1>3, <1>5, <2>1
<1>7. ASSUME NEW i \in Jobs, Ask(i) PROVE FALSE
  <2> DEFINE begun == [job[i] EXCEPT !.asked = row.connection, !.token = row.tokens]
             q(pc) == [begun EXCEPT !.pc = pc]
  <2>1. (\E r \in Failures(job[i]) : Becomes(i, r)) \/ \E pc : job' = [job EXCEPT ![i] = q(pc)]
    BY <1>7 DEF Ask, Becomes, Failures
  <2>2. \A pc : q(pc).result = job[i].result
    BY <1>0 DEF JobRecord
  <2> HIDE DEF q
  <2> QED
    BY <1>2, <1>5, <2>1, <2>2
<1>8. ASSUME NEW i \in Jobs, Success(i) PROVE FALSE
  <2> DEFINE q == [Over(job[i]) EXCEPT !.data = @ \cup {job[i].token}]
  <2>1. q.result = job[i].result
    BY <1>0, OverFacts DEF JobRecord
  <2>2. job' = [job EXCEPT ![i] = q]
    BY <1>8 DEF Success, Answered, Becomes
  <2> HIDE DEF q
  <2> QED
    BY <1>2, <2>1, <2>2
<1>9. ASSUME NEW i \in Jobs, Throttled(i) \/ ServerError(i) \/ Unauthorized(i) PROVE FALSE
  <2> DEFINE p == [job[i] EXCEPT !.pc = "backoff", !.throttles = @ + 1]
             q == [job[i] EXCEPT !.pc = "backoff", !.errors = @ + 1]
             r == [job[i] EXCEPT !.pc = "renew", !.renewed = TRUE]
  <2>1. p.result = job[i].result /\ q.result = job[i].result /\ r.result = job[i].result
    BY <1>0 DEF JobRecord
  <2>2. \/ job' = [job EXCEPT ![i] = p] \/ job' = [job EXCEPT ![i] = q]
        \/ job' = [job EXCEPT ![i] = r]
    BY <1>9 DEF Throttled, ServerError, Unauthorized, Answered, Becomes
  <2> HIDE DEF p, q, r
  <2> QED
    BY <1>2, <2>1, <2>2
<1>10. ASSUME NEW i \in Jobs, Begin(i) PROVE FALSE
  <2> DEFINE q == [job[i] EXCEPT !.pc = "ask", !.left = RequestsPerJob - 1,
                                 !.generation = CurrentGeneration]
  <2>1. q.result = job[i].result
    BY <1>0 DEF JobRecord
  <2>2. job' = [job EXCEPT ![i] = q]
    BY <1>10 DEF Begin
  <2> HIDE DEF q
  <2> QED
    BY <1>2, <2>1, <2>2
<1>11. ASSUME NEW q, job'[j] = q, q.result = job[j].result PROVE FALSE
  BY <1>11
<1>12. ASSUME NEW i \in Jobs, Abort(i) PROVE FALSE
  <2>1. PICK r \in Failures(job[i]) :
          \/ Becomes(i, r)
          \/ job' = [k \in Jobs |->
                        IF k = i THEN r
                        ELSE IF job[k].pc = "token"
                        THEN [job[k] EXCEPT !.pc = "resumed", !.token = NoConnection]
                        ELSE job[k]]
    BY <1>12 DEF Abort
  <2> DEFINE failed == [job[j] EXCEPT !.pc = "resumed", !.token = NoConnection]
  <2>2. failed.result = job[j].result
    BY <1>0 DEF JobRecord
  <2>3. Becomes(i, r) \/ (i = j /\ job'[j] = r) \/ job'[j] \in {failed, job[j]}
    BY <2>1
  <2> HIDE DEF failed
  <2> QED
    BY <1>4, <1>5, <1>11, <2>1, <2>2, <2>3
<1>13. ASSUME RefreshReturns PROVE FALSE
  <2>1. PICK token : Resolve(token)
    BY <1>13 DEF RefreshReturns
  <2> DEFINE q == [job[j] EXCEPT !.pc = "resumed", !.token = token]
  <2>2. q.result = job[j].result
    BY <1>0 DEF JobRecord
  <2>3. job'[j] \in {q, job[j]}
    BY <2>1 DEF Resolve
  <2> HIDE DEF q
  <2> QED
    BY <1>11, <2>2, <2>3
<1>14. ASSUME Restart PROVE FALSE
  <2>1. job'[j] \in {job[j], IdleJob} /\ IdleJob.result = "none"
    BY <1>14 DEF Restart, IdleJob
  <2> QED
    BY <1>11, <2>1
<1>15. ASSUME job' = job PROVE FALSE
  BY <1>11, <1>15
<1>16. ASSUME \/ Tick \/ \E u \in Users : PacingEnds(u)
              \/ Operator \/ ExchangeReturns \/ DisconnectReturns \/ AtRest \/ UNCHANGED vars
       PROVE  FALSE
  BY <1>15, <1>16 DEF Tick, PacingEnds, Operator, StartExchange, StartDisconnect, Rebind,
                      ExchangeReturns, DisconnectReturns, AtRest, vars
<1> QED
  BY <1>1, <1>6, <1>7, <1>8, <1>9, <1>10, <1>12, <1>13, <1>14, <1>16
     DEF Next, Continue, Upstream, Timers, Answers

\* What a job commits was fetched from the account that is connected, through any
\* number of exchanges, disconnections, rebinds and restarts, and whatever they
\* interleave with, unless the job itself began within a disconnection after a
\* rebind that fell into it: no other job is hurt by the generation that is given
\* out again then (sync/worker.ts, the generation compared before the commit).
THEOREM CommitsStayTheirs == Spec => CommitsOfThisAccount
<1>1. Init => AccountInv
  <2> SUFFICES ASSUME Init PROVE AccountInv
    OBVIOUS
  <2>1. Inside(gate) = {} /\ row = NoRow /\ lastKnown = 0
    BY NewLine DEF Init, GateInit
  <2>2. \A j \in Jobs : job[j] = IdleJob
    BY DEF Init
  <2> QED
    BY <2>1, <2>2 DEF AccountInv, AccountOf, IdleJob, NoRow, Connected
<1>2. StandsInv /\ ServiceInv' /\ JobsInv' /\ AccountInv /\ [Next]_vars => AccountInv'
  BY AccountSteps
<1>3. StandsInv => ServiceInv /\ JobsInv
  BY DEF StandsInv
<1>4. StandsInv /\ AccountInv /\ [Next]_vars => [CommitStep]_vars
  BY CommitSteps
<1> QED
  BY <1>1, <1>2, <1>3, <1>4, StandsAlways, PTL DEF Spec, CommitsOfThisAccount, CommitStep

============================================================================
