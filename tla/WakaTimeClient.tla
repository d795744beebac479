-------------------------- MODULE WakaTimeClient --------------------------
(***************************************************************************)
(* Requests to WakaTime (wakatime/client.ts), the tokens they carry        *)
(* (wakatime/oauth.ts) and the connection row the tokens live in           *)
(* (db/repositories/wakatime-oauth.ts), through the shared RequestGate.    *)
(*                                                                         *)
(* A job is a worker of synchronization: it captures the generation of the *)
(* connection, makes a few requests, each with its token, retries and      *)
(* backoff, and commits if the generation is still the same.  The operator *)
(* connects, disconnects and rebinds meanwhile.                            *)
(*                                                                         *)
(* Only the network, a timer or a route can come between two awaits: the   *)
(* continuations "ask", "renew", "resumed" and "ended" run before anything *)
(* else (Quiet).                                                           *)
(***************************************************************************)
EXTENDS RequestGate

CONSTANTS
    Jobs,                  \* workers that request at the same time
    Refresh, Exchange, Revoke,  \* the users of the gate in WakaTimeOAuthService
    RequestsPerJob,        \* bound: requests of one job (layers and pages of a date)
    MaxThrottleRetries, MaxRetries5xx,
    MaxRetries,            \* bound: retries of a request, of either kind
    MaxConnections,        \* bound: authorizations completed by the operator
    MaxRebinds, MaxRestarts,    \* bounds
    MaxEvents              \* bound: authorizations, rebinds and restarts together

ASSUME ClientAssumption ==
    /\ Users = Jobs \cup {Refresh, Exchange, Revoke}
    /\ Cardinality({Refresh, Exchange, Revoke}) = 3
    /\ Jobs \cap {Refresh, Exchange, Revoke} = {}
    /\ RequestsPerJob \in Nat \ {0}
    /\ {MaxThrottleRetries, MaxRetries5xx, MaxRetries,
        MaxConnections, MaxRebinds, MaxRestarts, MaxEvents} \subseteq Nat

VARIABLES
    row,        \* wakatime_oauth_connection, the only row or NoRow
    lastKnown,  \* #lastKnownGeneration
    refresh,    \* the refresh behind #refreshPromise
    job,        \* the jobs and the request each of them has in progress
    crossed,    \* history: the jobs that began within a disconnection, after a rebind
    connections, rebinds, restarts  \* bounds

service == <<row, lastKnown, refresh>>
bounds  == <<connections, rebinds, restarts>>
vars    == <<gate, service, job, crossed, bounds>>

NoConnection == 0
Connections  == 1..MaxConnections
Generations  == 0..(MaxConnections + MaxRebinds + 1)

\* connection tells the authorizations of the operator apart, tokens which of
\* them the stored tokens were issued for.
NoRow     == [connection |-> NoConnection, generation |-> 0, tokens |-> NoConnection]
Connected == row # NoRow

\* getSyncSettings().connectionGeneration
CurrentGeneration == IF Connected THEN row.generation ELSE 1

NoJob     == "nobody"
NoRefresh == [owner |-> NoJob, generation |-> 0, tokens |-> NoConnection]

\* asked is the connection at the time the request was begun.
IdleJob == [pc |-> "idle", generation |-> 0, left |-> 0, asked |-> NoConnection,
            token |-> NoConnection, renewed |-> FALSE, throttles |-> 0, errors |-> 0,
            data |-> {}, result |-> "none"]

\* A request is over, and nothing of it but its data is kept.
Over(r) == [r EXCEPT !.pc = "ended", !.asked = NoConnection, !.token = NoConnection,
                     !.renewed = FALSE, !.throttles = 0, !.errors = 0]

\* A job is over.
Done(result) == [IdleJob EXCEPT !.pc = "done", !.result = result]

\* A request ends without an answer, and its job with it or not.
Failures(r) == {Over(r), Done("none")}

Init ==
    /\ GateInit
    /\ row = NoRow
    /\ lastKnown = 0
    /\ refresh = NoRefresh
    /\ job = [j \in Jobs |-> IdleJob]
    /\ crossed = {}
    /\ connections = 0 /\ rebinds = 0 /\ restarts = 0

Continuations == {"ask", "renew", "resumed", "ended"}
Quiet == \A j \in Jobs : job[j].pc \notin Continuations

Highest(a, b) == IF a >= b THEN a ELSE b

MoreEvents == connections + rebinds + restarts < MaxEvents

Goes(j, pc) == job' = [job EXCEPT ![j].pc = pc]

Becomes(j, r) == job' = [job EXCEPT ![j] = r]

----------------------------------------------------------------------------
(* Tokens.                                                                 *)

\* refreshAccessToken: join the refresh in flight or start one, which the
\* request's own signal will abort.
AwaitRefresh(j) ==
    IF refresh # NoRefresh
    THEN /\ Goes(j, "token")
         /\ UNCHANGED <<gate, service>>
    ELSE IF ~Connected
    THEN /\ Becomes(j, Over(job[j]))
         /\ UNCHANGED <<gate, service>>
    ELSE /\ Goes(j, "token")
         /\ refresh' = [owner |-> j, generation |-> row.generation, tokens |-> row.tokens]
         /\ lastKnown' = Highest(lastKnown, row.generation)
         /\ gate' = Acquire(gate, Refresh)
         /\ UNCHANGED row

\* A request begins: getAccessToken, and the gate.
Ask(j) ==
    /\ job[j].pc = "ask"
    /\ LET begun == [job[j] EXCEPT !.asked = row.connection, !.token = row.tokens]
       IN \/ /\ ~Connected
             /\ Becomes(j, Over(job[j]))
             /\ UNCHANGED gate
          \/ /\ Connected
             /\ Becomes(j, [begun EXCEPT !.pc = "gate"])
             /\ gate' = Acquire(gate, j)
          \/ /\ Connected  \* the token is about to expire
             /\ Becomes(j, [begun EXCEPT !.pc = "renew"])
             /\ UNCHANGED gate
    /\ UNCHANGED <<service, crossed, bounds>>

Renew(j) ==
    /\ job[j].pc = "renew"
    /\ AwaitRefresh(j)
    /\ UNCHANGED <<crossed, bounds>>

\* Every request that awaited the refresh goes on with its token or its error.
Resolve(token) ==
    job' = [j \in Jobs |-> IF job[j].pc = "token"
                           THEN [job[j] EXCEPT !.pc = "resumed", !.token = token]
                           ELSE job[j]]

\* Mutant: an update that does not compare the generation.
UpdateAnyRow(generation) == Connected

\* updateTokensCAS changes a row.
UpdatesRow(generation) == Connected /\ row.generation = generation

\* Mutant: a token that could not be stored is used all the same.
UnstoredToken == refresh.tokens

\* The new token counts only if it could be stored.
NewToken == IF UpdatesRow(refresh.generation) THEN refresh.tokens ELSE NoConnection

\* WakaTime answers the refresh, or refuses it, or the attempt times out.
RefreshReturns ==
    /\ Quiet
    /\ Refresh \in gate.holders
    /\ gate' = Release(gate, Refresh)
    /\ \/ /\ row' = IF UpdatesRow(refresh.generation)
                   THEN [row EXCEPT !.tokens = refresh.tokens] ELSE row
          /\ Resolve(NewToken)
       \/ Resolve(NoConnection) /\ UNCHANGED row
    /\ refresh' = NoRefresh
    /\ UNCHANGED <<lastKnown, crossed, bounds>>

\* The request goes on, unless the refresh failed or its own signal aborted
\* while it waited.
Resumed(j) ==
    /\ job[j].pc = "resumed"
    /\ \/ \E r \in Failures(job[j]) : Becomes(j, r) /\ UNCHANGED gate
       \/ /\ job[j].token # NoConnection
          /\ Goes(j, "gate")
          /\ gate' = Acquire(gate, j)
    /\ UNCHANGED <<service, crossed, bounds>>

----------------------------------------------------------------------------
(* Requests: the loop of WakaTimeClient.request.  A job in "gate" waits for *)
(* its permit, and fetches once it holds it.                               *)

Fetching(j) == Quiet /\ job[j].pc = "gate" /\ j \in gate.holders

\* The permit is released before anything is done with the answer.
Answered(j, update) ==
    /\ gate' = Release(gate, j)
    /\ Becomes(j, update)
    /\ UNCHANGED <<service, crossed, bounds>>

Success(j) ==
    /\ Fetching(j)
    /\ Answered(j, [Over(job[j]) EXCEPT !.data = @ \cup {job[j].token}])

\* Bound: with one request at its last retry, no other retries either.
MayRetry == \A j \in Jobs : job[j].throttles + job[j].errors < MaxRetries

\* 302 and 429, and 5xx: wait and try again, or give up (Refused).
Throttled(j) ==
    /\ Fetching(j)
    /\ job[j].throttles < MaxThrottleRetries
    /\ MayRetry
    /\ Answered(j, [job[j] EXCEPT !.pc = "backoff", !.throttles = @ + 1])

ServerError(j) ==
    /\ Fetching(j)
    /\ job[j].errors < MaxRetries5xx
    /\ MayRetry
    /\ Answered(j, [job[j] EXCEPT !.pc = "backoff", !.errors = @ + 1])

\* Mutant: the token is refreshed while the permit is held.
RenewWithPermit(j) ==
    /\ Fetching(j)
    /\ ~job[j].renewed
    /\ job' = [job EXCEPT ![j].pc = "renew", ![j].renewed = TRUE]
    /\ UNCHANGED <<gate, service, crossed, bounds>>

\* 401: one refresh and one more try.
Unauthorized(j) ==
    /\ Fetching(j)
    /\ ~job[j].renewed
    /\ Answered(j, [job[j] EXCEPT !.pc = "renew", !.renewed = TRUE])

\* Retries exhausted, a Retry-After beyond the budget, a second 401, a
\* restriction, a timeout, a network error or an unusable body.
Refused(j) ==
    /\ Fetching(j)
    /\ Answered(j, Over(job[j]))

BackoffOver(j) ==
    /\ Quiet
    /\ job[j].pc = "backoff"
    /\ Goes(j, "gate")
    /\ gate' = Acquire(gate, j)
    /\ UNCHANGED <<service, crossed, bounds>>

\* The budget of the request runs out, or its job is cancelled: the signal
\* reaches whatever the request is doing, the refresh it has started included,
\* but not the refresh of another.
Abort(j) ==
    /\ Quiet
    /\ \E r \in Failures(job[j]) :
          \/ /\ job[j].pc = "gate"
             /\ gate' = Leave(gate, j)
             /\ Becomes(j, r)
             /\ UNCHANGED refresh
          \/ /\ job[j].pc = "backoff"
             /\ Becomes(j, r)
             /\ UNCHANGED <<gate, refresh>>
          \/ /\ job[j].pc = "token"
             /\ refresh.owner = j
             /\ gate' = Leave(gate, Refresh)
             /\ refresh' = NoRefresh
             /\ job' = [i \in Jobs |->
                           IF i = j THEN r
                           ELSE IF job[i].pc = "token"
                           THEN [job[i] EXCEPT !.pc = "resumed", !.token = NoConnection]
                           ELSE job[i]]
    /\ UNCHANGED <<row, lastKnown, crossed, bounds>>

----------------------------------------------------------------------------
(* Jobs.                                                                   *)

Disconnecting == Revoke \in Waiting(gate) \cup gate.holders

\* The generation the job begins with is, within a disconnection, that of a
\* rebind lastKnownGeneration does not know of.
Crosses == Disconnecting /\ CurrentGeneration > lastKnown

Begin(j) ==
    /\ Quiet
    /\ job[j].pc = "idle"
    /\ job' = [job EXCEPT ![j].pc = "ask", ![j].left = RequestsPerJob - 1,
                          ![j].generation = CurrentGeneration]
    /\ crossed' = IF Crosses THEN crossed \cup {j} ELSE crossed
    /\ UNCHANGED <<gate, service, bounds>>

\* The next layer, whatever became of this one, except that nothing is worth
\* fetching or keeping without the first; then the worker's last check of the
\* generation and its commit.
Proceed(j) ==
    /\ job[j].pc = "ended"
    /\ \/ /\ job[j].data # {}
          /\ job[j].left > 0
          /\ job' = [job EXCEPT ![j].pc = "ask", ![j].left = @ - 1]
       \/ /\ job[j].data = {} \/ job[j].left = 0
          /\ Becomes(j, Done(IF job[j].data # {} /\ job[j].generation = CurrentGeneration
                             THEN "committed" ELSE "none"))
    /\ UNCHANGED <<gate, service, crossed, bounds>>

----------------------------------------------------------------------------
(* The operator: OAuth callback, disconnect, rebind.                       *)

StartExchange ==
    /\ Quiet
    /\ connections < MaxConnections /\ MoreEvents
    /\ Exchange \notin Waiting(gate) \cup gate.holders
    /\ gate' = Acquire(gate, Exchange)
    /\ UNCHANGED <<service, job, crossed, bounds>>

\* Mutant: the next generation of the row alone.
RowGenerationPlusOne == row.generation + 1

NextGeneration == Highest(lastKnown, row.generation) + 1

\* exchangeCode: the code was good, or not.
ExchangeReturns ==
    /\ Quiet
    /\ Exchange \in gate.holders
    /\ gate' = Release(gate, Exchange)
    /\ \/ /\ connections < MaxConnections /\ MoreEvents
          /\ connections' = connections + 1
          /\ lastKnown' = NextGeneration
          /\ row' = [connection |-> connections + 1, generation |-> NextGeneration,
                     tokens |-> connections + 1]
       \/ UNCHANGED <<row, lastKnown, connections>>
    /\ UNCHANGED <<refresh, job, crossed, rebinds, restarts>>

StartDisconnect ==
    /\ Quiet
    /\ Connected
    /\ ~Disconnecting
    /\ lastKnown' = Highest(lastKnown, row.generation)
    /\ gate' = Acquire(gate, Revoke)
    /\ UNCHANGED <<row, refresh, job, crossed, bounds>>

\* disconnect deletes the row whether or not the revocation succeeded, and
\* whichever row is there by now.
DisconnectReturns ==
    /\ Quiet
    /\ Revoke \in gate.holders
    /\ gate' = Release(gate, Revoke)
    /\ row' = NoRow
    /\ UNCHANGED <<lastKnown, refresh, job, crossed, bounds>>

\* bindConnectionToArchive does not know of a disconnection in progress, nor
\* does lastKnownGeneration of the generation it makes.
Rebind ==
    /\ Quiet
    /\ Connected
    /\ rebinds < MaxRebinds /\ MoreEvents
    /\ row' = [row EXCEPT !.generation = @ + 1]
    /\ rebinds' = rebinds + 1
    /\ UNCHANGED <<gate, lastKnown, refresh, job, crossed, connections, restarts>>

----------------------------------------------------------------------------
(* Time and the end of the process.                                        *)

PacingEnds(u) ==
    /\ Quiet
    /\ DelayEnds(u)
    /\ UNCHANGED <<service, job, crossed, bounds>>

Tick ==
    /\ Quiet
    /\ Elapse
    /\ UNCHANGED <<service, job, crossed, bounds>>

\* Unfinished jobs are done again by the new process, from the beginning.
Restart ==
    /\ Quiet
    /\ restarts < MaxRestarts /\ MoreEvents
    /\ restarts' = restarts + 1
    /\ gate' = NewGate
    /\ lastKnown' = row.generation
    /\ refresh' = NoRefresh
    /\ job' = [j \in Jobs |-> IF job[j].pc = "done" THEN job[j] ELSE IdleJob]
    /\ crossed' = {}
    /\ UNCHANGED <<row, connections, rebinds>>

----------------------------------------------------------------------------

Continue == \E j \in Jobs : Ask(j) \/ Renew(j) \/ Resumed(j) \/ Proceed(j)

Answers(j) == Success(j) \/ Throttled(j) \/ ServerError(j) \/ Unauthorized(j) \/ Refused(j)

Upstream == (\E j \in Jobs : Answers(j)) \/ RefreshReturns \/ ExchangeReturns \/ DisconnectReturns

Timers == Tick \/ (\E u \in Users : PacingEnds(u)) \/ \E j \in Jobs : BackoffOver(j)

Operator == StartExchange \/ StartDisconnect \/ Rebind

\* Nothing is left to do, and nobody has to do anything.
AtRest ==
    /\ \A j \in Jobs : job[j].pc = "done"
    /\ Waiting(gate) \cup gate.holders = {}
    /\ UNCHANGED vars

Next == \/ Continue \/ Upstream \/ Timers \/ Operator
        \/ \E j \in Jobs : Begin(j) \/ Abort(j)
        \/ Restart \/ AtRest

Spec == Init /\ [][Next]_vars

\* Every attempt has a deadline and every timer fires.  Nothing is assumed of
\* the budget of a request: no request may need it to come to an end.
FairSpec ==
    /\ Spec
    /\ WF_vars(Continue) /\ WF_vars(Tick)
    /\ \A u \in Users : WF_vars(PacingEnds(u))
    /\ \A j \in Jobs : WF_vars(Answers(j)) /\ WF_vars(BackoffOver(j))
    /\ WF_vars(RefreshReturns) /\ WF_vars(ExchangeReturns) /\ WF_vars(DisconnectReturns)

----------------------------------------------------------------------------

JobRecord ==
    [pc : {"idle", "token", "gate", "backoff", "done"} \cup Continuations,
     generation : Generations, left : 0..RequestsPerJob,
     asked : Connections \cup {NoConnection}, token : Connections \cup {NoConnection},
     renewed : BOOLEAN, throttles : 0..MaxThrottleRetries, errors : 0..MaxRetries5xx,
     data : SUBSET Connections, result : {"none", "committed"}]

TypeOK ==
    /\ gate \in Gates
    /\ row \in [connection : Connections, generation : Generations, tokens : Connections]
               \cup {NoRow}
    /\ lastKnown \in Generations
    /\ refresh \in [owner : Jobs, generation : Generations, tokens : Connections] \cup {NoRefresh}
    /\ job \in [Jobs -> JobRecord]
    /\ crossed \subseteq Jobs
    /\ connections \in 0..MaxConnections
    /\ rebinds \in 0..MaxRebinds
    /\ restarts \in 0..MaxRestarts

\* The stored tokens are those of the connection they are stored with: no old
\* refresh in flight overwrites a replaced connection or revives a deleted one.
TokensOfConnection == row.tokens = row.connection

\* A request carries a token of the connection there was when it began, or of
\* a later one, however long it waited for a refresh that others started.
TokenNotOutdated == \A j \in Jobs : job[j].pc = "gate" => job[j].token >= job[j].asked

\* What a job commits was fetched from the connected account: the generation it
\* compares tells whether the account has changed since the job began, unless it
\* began within a disconnection and after a rebind that fell into it.  The next
\* connection is then given the generation of that rebind again (oauth.ts line
\* 232), and such a job alone may commit what is of another account.
CommitsOfThisAccount ==
    [][\A j \in Jobs : job[j].result = "none" /\ job'[j].result = "committed" =>
          (Connected => job[j].data = {row.connection}) \/ j \in crossed]_vars

\* Every job ends, without any budget or cancellation to end it: no request
\* waits for a permit or a refresh that never comes.
JobsEnd == \A j \in Jobs : job[j].pc = "ask" ~> job[j].pc \in {"done", "idle"}

\* The gate as its users see it.
Line == IF Pacing(gate) = {} THEN gate.queue
        ELSE <<CHOOSE u \in Pacing(gate) : TRUE>> \o gate.queue

Promise == INSTANCE PacedQueue WITH
    waiting <- Line, using <- gate.holders, sinceStart <- gate.sinceStart

\* The gate keeps the promise of PacedQueue (request-gate.ts line 60) through
\* retries, refreshes, aborts, exchanges, disconnections and restarts.
GateKeepsPromise == Promise!Spec
===========================================================================
