----------------------- MODULE ScheduleAndFetchProofs -----------------------
(* Proofs about DayFetch, for any dates, documents, intervals and plans, and  *)
(* about SyncScheduler, for any lengths of days, weeks and windows, zones,    *)
(* archives and endings of runs: what a day's reading asks the server for,    *)
(* and what the timer asks the coordinator for.  The two have no state in     *)
(* common.                                                                    *)
EXTENDS DayFetch, SyncScheduler, FiniteSetTheorems, SequenceTheorems, TLAPS

-----------------------------------------------------------------------------
(* The policy.                                                                *)

Until == Nat \cup {None}
EndpointState == [status : Statuses, until : Until]
PolicyType == [endpoint : [Capabilities -> EndpointState],
               refused : [Capabilities -> [Dates -> Until]]]

(* An endpoint that is held has an end of its hold, and no other has one.     *)
EndsAreNamed(p) ==
  \A c \in Capabilities :
    p.endpoint[c].until = None <=> p.endpoint[c].status \in {"available", "untested"}

PolicyOK(p) == p \in PolicyType /\ EndsAreNamed(p)

LEMMA FreshPolicyOK == PolicyOK(FreshPolicy)
BY DEF PolicyOK, PolicyType, EndsAreNamed, FreshPolicy, EndpointState, Until, Statuses

(* What an endpoint learns keeps the policy well formed, if a status that     *)
(* holds it comes with an end.                                                *)
LEMMA LearnsOK ==
  ASSUME NEW p, PolicyOK(p), NEW c \in Capabilities, NEW status \in Statuses, NEW until \in Until,
         until = None <=> status \in {"available", "untested"}
  PROVE  PolicyOK(Learns(p, c, status, until))
<1> DEFINE state == [status |-> status, until |-> until]
           q == [p EXCEPT !.endpoint = [p.endpoint EXCEPT ![c] = state]]
<1>1. Learns(p, c, status, until) = q
  BY DEF Learns
<1>2. state \in EndpointState
  BY DEF EndpointState
<1>3. q \in PolicyType
  BY <1>2 DEF PolicyOK, PolicyType
<1>4. EndsAreNamed(q)
  BY DEF PolicyOK, PolicyType, EndsAreNamed
<1> QED
  BY <1>1, <1>3, <1>4 DEF PolicyOK

(* So does the refusal of a date, or its end.                                 *)
LEMMA RefusedOK ==
  ASSUME NEW p, PolicyOK(p), NEW c \in Capabilities, NEW date \in Dates, NEW until \in Until
  PROVE  PolicyOK([p EXCEPT !.refused[c][date] = until])
<1> DEFINE row == [p.refused[c] EXCEPT ![date] = until]
           q == [p EXCEPT !.refused = [p.refused EXCEPT ![c] = row]]
<1>1. [p EXCEPT !.refused[c][date] = until] = q
  OBVIOUS
<1>2. row \in [Dates -> Until]
  BY DEF PolicyOK, PolicyType
<1>3. q \in PolicyType
  BY <1>2 DEF PolicyOK, PolicyType
<1>4. EndsAreNamed(q)
  BY DEF PolicyOK, PolicyType, EndsAreNamed
<1> QED
  BY <1>1, <1>3, <1>4 DEF PolicyOK

(* The instants that answers name.                                            *)
LEMMA InstantsAreUntil ==
  ASSUME NEW n \in Nat, NEW w \in Nat
  PROVE  n + w \in Until /\ n + w # None
BY PolicyAssumption DEF PolicyAssumption, Until

LEMMA RecordSuccessOK ==
  ASSUME NEW p, PolicyOK(p), NEW c \in Capabilities, NEW date \in Dates
  PROVE  PolicyOK(RecordSuccess(p, c, date))
<1>1. PolicyOK([p EXCEPT !.refused[c][date] = None])
  BY RefusedOK DEF Until
<1> QED
  BY <1>1, LearnsOK DEF RecordSuccess, Statuses, Until

LEMMA RecordRestrictionOK ==
  ASSUME NEW p, PolicyOK(p), NEW c \in Capabilities, NEW date \in Dates, NEW n \in Nat
  PROVE  PolicyOK(RecordRestriction(p, c, date, n))
<1>1. n + ReprobeInterval \in Until /\ n + ReprobeInterval # None
  BY PolicyAssumption, InstantsAreUntil DEF PolicyAssumption
<1>2. PolicyOK([p EXCEPT !.refused[c][date] = n + ReprobeInterval])
  BY <1>1, RefusedOK
<1> QED
  BY <1>1, <1>2, LearnsOK DEF RecordRestriction, Statuses

LEMMA RecordDeferredRetryOK ==
  ASSUME NEW p, PolicyOK(p), NEW c \in Capabilities, NEW n \in Nat, NEW w \in Nat
  PROVE  PolicyOK(RecordDeferredRetry(p, c, n + w))
BY InstantsAreUntil, LearnsOK DEF RecordDeferredRetry, Statuses

LEMMA RecordErrorOK ==
  ASSUME NEW p, PolicyOK(p), NEW c \in Capabilities, NEW n \in Nat
  PROVE  PolicyOK(RecordError(p, c, n))
<1>1. n + ErrorInterval \in Until /\ n + ErrorInterval # None
  BY PolicyAssumption, InstantsAreUntil DEF PolicyAssumption
<1> QED
  BY <1>1, LearnsOK DEF RecordError, Statuses

-----------------------------------------------------------------------------
(* The day being read.                                                        *)

Kinds == {"complete", "restricted", "failed", "skipped"}
IsFetch(f) ==
  /\ f = [at |-> f.at, date |-> f.date, since |-> f.since, stopped |-> f.stopped,
          durations |-> f.durations, summaries |-> f.summaries, heartbeats |-> f.heartbeats,
          durationsKind |-> f.durationsKind]
  /\ f.at \in {"idle", "summaries", "heartbeats", "durations", "done"}
  /\ f.date \in Dates \cup {None}
  /\ f.at # "idle" => f.date \in Dates
  /\ f.summaries.kind \in Kinds /\ f.heartbeats.kind \in Kinds
  /\ f.durationsKind \in {"succeeded", "restricted", "failed", "skipped"}

(* A day that is being read: each step of the reading goes on with one.       *)
IsReading(f) == IsFetch(f) /\ f.date \in Dates

(* A layer that is held is restricted or failed.                              *)
LEMMA HeldAsKind ==
  ASSUME NEW c, NEW f
  PROVE  HeldAs(c, f).kind \in {"restricted", "failed"}
BY DEF HeldAs, Restricted, Failed

LEMMA ToDurationsReads ==
  ASSUME NEW f, IsReading(f)
  PROVE  IsReading(ToDurations(f))
<1>1. IsReading([f EXCEPT !.at = "done"]) /\ IsReading([f EXCEPT !.at = "durations"])
  BY DEF IsReading, IsFetch
<1>2. ASSUME NEW kind \in {"restricted", "failed"}
      PROVE  IsReading([f EXCEPT !.at = "done", !.durationsKind = kind])
  <2> DEFINE g == [f EXCEPT !.at = "done"]
  <2>1. [f EXCEPT !.at = "done", !.durationsKind = kind] = [g EXCEPT !.durationsKind = kind]
    OBVIOUS
  <2>2. IsReading(g)
    BY <1>1
  <2> HIDE DEF g
  <2>3. IsReading([g EXCEPT !.durationsKind = kind])
    BY <1>2, <2>2 DEF IsReading, IsFetch
  <2> QED
    BY <2>1, <2>3
<1>3. IsReading([f EXCEPT !.at = "done", !.durationsKind = HeldAs("durations", f).kind])
  BY <1>2, HeldAsKind
<1> QED
  BY <1>1, <1>3 DEF ToDurations

LEMMA ToHeartbeatsReads ==
  ASSUME NEW f, IsReading(f)
  PROVE  IsReading(ToHeartbeats(f))
<1>1. IsReading(ToDurations(f))
  BY ToDurationsReads
<1>2. ASSUME NEW result, result.kind \in Kinds
      PROVE  IsReading(ToDurations([f EXCEPT !.heartbeats = result]))
  <2>1. IsReading([f EXCEPT !.heartbeats = result])
    BY <1>2 DEF IsReading, IsFetch
  <2> QED
    BY <2>1, ToDurationsReads
<1>3. IsReading(ToDurations([f EXCEPT !.heartbeats = HeldAs("heartbeats", f)]))
  BY <1>2, HeldAsKind DEF Kinds
<1>4. IsReading(ToDurations([f EXCEPT !.heartbeats = Failed]))
  <2>1. Failed.kind \in Kinds
    BY DEF Failed, Kinds
  <2> QED
    BY <1>2, <2>1
<1>5. IsReading([f EXCEPT !.at = "heartbeats"])
  BY DEF IsReading, IsFetch
<1> QED
  BY <1>1, <1>3, <1>4, <1>5 DEF ToHeartbeats

LEMMA ToSummariesReads ==
  ASSUME NEW f, IsReading(f)
  PROVE  IsReading(ToSummaries(f))
<1>1. IsReading([f EXCEPT !.summaries = HeldAs("summaries", f)])
  BY HeldAsKind DEF IsReading, IsFetch, Kinds
<1>2. IsReading([f EXCEPT !.at = "summaries"])
  BY DEF IsReading, IsFetch
<1> QED
  BY <1>1, <1>2, ToHeartbeatsReads DEF ToSummaries

(* The results of the two normalisers.                                        *)
LEMMA NormalizedKind ==
  ASSUME NEW doc, NEW date, NEW z
  PROVE  /\ NormalizeSummary(doc, date, z).kind \in {"complete", "restricted", "failed"}
         /\ NormalizeHeartbeats(doc, date, z).kind \in {"complete", "failed"}
BY DEF NormalizeSummary, NormalizeHeartbeats, Complete, Failed

-----------------------------------------------------------------------------
(* The inductive invariant.                                                   *)
FetchInv ==
  /\ now \in Start..MaxTime
  /\ PolicyOK(policy)
  /\ IsFetch(fetch)

LEMMA NowIsNat == now \in Start..MaxTime => now \in Nat
BY FetchAssumption DEF FetchAssumption

(* What a request teaches is a policy.                                        *)
LEMMA LearntOK ==
  ASSUME FetchInv, fetch.date \in Dates, NEW c \in Capabilities, NEW error \in Errors,
         NEW wait \in RetryAfters
  PROVE  PolicyOK(Learnt(c, fetch, error, wait))
<1>1. now \in Nat /\ wait \in Nat
  BY NowIsNat, FetchAssumption DEF FetchInv, FetchAssumption
<1>2. PolicyOK(policy)
  BY DEF FetchInv
<1>3. PolicyOK(RecordRestriction(policy, c, fetch.date, now))
  BY <1>1, <1>2, RecordRestrictionOK
<1>4. PolicyOK(RecordDeferredRetry(policy, c, now + wait))
  BY <1>1, <1>2, RecordDeferredRetryOK
<1>5. PolicyOK(RecordError(policy, c, now))
  BY <1>1, <1>2, RecordErrorOK
<1>6. CASE fetch.stopped \/ error = "quiet"
  BY <1>2, <1>6 DEF Learnt
<1>7. CASE ~fetch.stopped /\ error = "refused"
  BY <1>3, <1>7 DEF Learnt
<1>8. CASE ~fetch.stopped /\ error \in {"deferred", "timed"}
  BY <1>4, <1>8 DEF Learnt
<1>9. CASE ~fetch.stopped /\ error = "error"
  BY <1>5, <1>9 DEF Learnt
<1> QED
  BY <1>6, <1>7, <1>8, <1>9 DEF Errors

LEMMA LearntFromOK ==
  ASSUME FetchInv, fetch.date \in Dates, NEW c \in Capabilities, NEW result,
         result.kind \in {"complete", "restricted", "failed"}
  PROVE  PolicyOK(LearntFrom(c, fetch, result))
<1>1. now \in Nat /\ PolicyOK(policy)
  BY NowIsNat DEF FetchInv
<1>2. PolicyOK(RecordRestriction(policy, c, fetch.date, now))
  BY <1>1, RecordRestrictionOK
<1>3. PolicyOK(RecordSuccess(policy, c, fetch.date))
  BY <1>1, RecordSuccessOK
<1> QED
  BY <1>1, <1>2, <1>3 DEF LearntFrom

LEMMA FetchInit == Init => FetchInv
<1> SUFFICES ASSUME Init PROVE FetchInv
  OBVIOUS
<1>1. now \in Start..MaxTime
  BY FetchAssumption DEF Init, FetchAssumption
<1>2. IsFetch(fetch)
  BY DEF Init, IsFetch, NoFetch, Skipped, Kinds
<1> QED
  BY <1>1, <1>2, FreshPolicyOK DEF Init, FetchInv

LEMMA FetchStep == FetchInv /\ [Next]_vars => FetchInv'
<1> SUFFICES ASSUME FetchInv, [Next]_vars PROVE FetchInv'
  OBVIOUS
<1>reading. fetch.at # "idle" => IsReading(fetch)
  BY DEF FetchInv, IsFetch, IsReading
<1>c. {"summaries", "heartbeats", "durations"} \subseteq Capabilities
  BY DEF Capabilities
<1>1. ASSUME NEW d \in Dates, NEW w \in BOOLEAN, NEW s \in BOOLEAN, FetchStarts(d, w, s)
      PROVE  FetchInv'
  <2> DEFINE f == [NoFetch EXCEPT !.date = d, !.since = now, !.durations = w, !.stopped = s]
  <2> DEFINE e == [NoFetch EXCEPT !.date = d]
             g == [e EXCEPT !.since = now]
             h == [g EXCEPT !.durations = w]
  <2>a. f = [h EXCEPT !.stopped = s]
    OBVIOUS
  <2>b. Skipped.kind = "skipped" /\ Failed.kind = "failed"
    BY DEF Skipped, Failed
  <2>n. IsFetch(NoFetch) /\ NoFetch.at = "idle"
    BY <2>b DEF NoFetch, IsFetch, Kinds
  <2>e. IsReading(e)
    BY <2>n DEF IsReading, IsFetch
  <2> HIDE DEF e
  <2>g. IsReading(g)
    BY <2>e DEF IsReading, IsFetch
  <2> HIDE DEF g
  <2>h. IsReading(h)
    BY <2>g DEF IsReading, IsFetch
  <2> HIDE DEF h
  <2>i. IsReading([h EXCEPT !.stopped = s])
    BY <2>h DEF IsReading, IsFetch
  <2>1. IsReading(f)
    BY <2>a, <2>i
  <2> HIDE DEF f
  <2>c. ASSUME NEW result, result.kind \in Kinds
        PROVE  IsReading([f EXCEPT !.at = "done", !.summaries = result])
    <3> DEFINE k == [f EXCEPT !.at = "done"]
    <3>1. [f EXCEPT !.at = "done", !.summaries = result] = [k EXCEPT !.summaries = result]
      OBVIOUS
    <3>2. IsReading(k)
      BY <2>1 DEF IsReading, IsFetch
    <3> HIDE DEF k
    <3>3. IsReading([k EXCEPT !.summaries = result])
      BY <2>c, <3>2 DEF IsReading, IsFetch
    <3> QED
      BY <3>1, <3>3
  <2>d. Failed.kind \in Kinds
    BY <2>b DEF Kinds
  <2>2. IsReading([f EXCEPT !.at = "done", !.summaries = Failed])
    BY <2>c, <2>d
  <2>3. IsReading(fetch')
    BY <1>1, <2>1, <2>2, ToSummariesReads DEF FetchStarts, f
  <2> QED
    BY <1>1, <2>3 DEF FetchStarts, FetchInv, IsReading
<1>2. ASSUME NEW doc \in Documents, SummariesAnswered(doc)
      PROVE  FetchInv'
  <2> DEFINE result == IF fetch.date \notin doc.dates THEN Failed
                       ELSE NormalizeSummary(doc, fetch.date, Pinned)
  <2>1. result.kind \in {"complete", "restricted", "failed"}
    BY NormalizedKind DEF Failed
  <2>2. IsReading(fetch)
    BY <1>2, <1>reading DEF SummariesAnswered
  <2>3. PolicyOK(policy')
    BY <1>2, <1>c, <2>1, <2>2, LearntFromOK DEF SummariesAnswered, IsReading
  <2>4. IsReading([fetch EXCEPT !.summaries = result])
    BY <2>1, <2>2 DEF IsReading, IsFetch, Kinds
  <2>5. IsReading(fetch')
    BY <1>2, <2>4, ToHeartbeatsReads DEF SummariesAnswered
  <2> QED
    BY <1>2, <2>3, <2>5 DEF SummariesAnswered, FetchInv, IsReading
<1>3. ASSUME NEW doc \in Beats, HeartbeatsAnswered(doc)
      PROVE  FetchInv'
  <2> DEFINE result == NormalizeHeartbeats(doc, fetch.date, Pinned)
  <2>1. result.kind \in {"complete", "failed"}
    BY NormalizedKind
  <2>2. IsReading(fetch)
    BY <1>3, <1>reading DEF HeartbeatsAnswered
  <2>3. PolicyOK(policy')
    BY <1>3, <1>c, <2>1, <2>2, LearntFromOK DEF HeartbeatsAnswered, IsReading
  <2>4. IsReading([fetch EXCEPT !.heartbeats = result])
    BY <2>1, <2>2 DEF IsReading, IsFetch, Kinds
  <2>5. IsReading(fetch')
    BY <1>3, <2>4, ToDurationsReads DEF HeartbeatsAnswered
  <2> QED
    BY <1>3, <2>3, <2>5 DEF HeartbeatsAnswered, FetchInv, IsReading
<1>4. CASE DurationsAnswered
  <2>1. IsReading(fetch)
    BY <1>4, <1>reading DEF DurationsAnswered
  <2>2. PolicyOK(policy')
    BY <1>4, <1>c, <2>1, RecordSuccessOK DEF DurationsAnswered, FetchInv, IsReading
  <2>3. IsFetch(fetch')
    BY <1>4, <2>1 DEF DurationsAnswered, IsReading, IsFetch
  <2> QED
    BY <1>4, <2>2, <2>3 DEF DurationsAnswered, FetchInv
<1>5. ASSUME NEW e \in Errors, NEW w \in RetryAfters, SummariesRejected(e, w)
      PROVE  FetchInv'
  <2>1. IsReading(fetch)
    BY <1>5, <1>reading DEF SummariesRejected
  <2>2. PolicyOK(policy')
    BY <1>5, <1>c, <2>1, LearntOK DEF SummariesRejected, IsReading
  <2>3. IsReading([fetch EXCEPT !.summaries = ErrorResult(fetch, e)])
    BY <2>1 DEF IsReading, IsFetch, ErrorResult, Restricted, Failed, Kinds
  <2>4. IsReading(fetch')
    BY <1>5, <2>3, ToHeartbeatsReads DEF SummariesRejected
  <2> QED
    BY <1>5, <2>2, <2>4 DEF SummariesRejected, FetchInv, IsReading
<1>6. ASSUME NEW e \in Errors, NEW w \in RetryAfters, HeartbeatsRejected(e, w)
      PROVE  FetchInv'
  <2>1. IsReading(fetch)
    BY <1>6, <1>reading DEF HeartbeatsRejected
  <2>2. PolicyOK(policy')
    BY <1>6, <1>c, <2>1, LearntOK DEF HeartbeatsRejected, IsReading
  <2>3. IsReading([fetch EXCEPT !.heartbeats = ErrorResult(fetch, e)])
    BY <2>1 DEF IsReading, IsFetch, ErrorResult, Restricted, Failed, Kinds
  <2>4. IsReading(fetch')
    BY <1>6, <2>3, ToDurationsReads DEF HeartbeatsRejected
  <2> QED
    BY <1>6, <2>2, <2>4 DEF HeartbeatsRejected, FetchInv, IsReading
<1>7. ASSUME NEW e \in Errors, NEW w \in RetryAfters, DurationsRejected(e, w)
      PROVE  FetchInv'
  <2>1. IsReading(fetch) /\ PolicyOK(policy) /\ now \in Nat /\ w \in Nat
    BY <1>7, <1>reading, NowIsNat, FetchAssumption DEF DurationsRejected, FetchInv, FetchAssumption
  <2>2. PolicyOK(RecordRestriction(policy, "durations", fetch.date, now))
    BY <1>c, <2>1, RecordRestrictionOK DEF IsReading
  <2>3. PolicyOK(RecordDeferredRetry(policy, "durations", now + w))
    BY <1>c, <2>1, RecordDeferredRetryOK
  <2>4. PolicyOK(RecordError(policy, "durations", now))
    BY <1>c, <2>1, RecordErrorOK
  <2>5. PolicyOK(policy')
    BY <1>7, <2>2, <2>3, <2>4 DEF DurationsRejected, Errors
  <2>6. IsFetch(fetch')
    BY <1>7, <2>1 DEF DurationsRejected, IsReading, IsFetch
  <2> QED
    BY <1>7, <2>5, <2>6 DEF DurationsRejected, FetchInv
<1>8. CASE FetchReturns
  BY <1>8 DEF FetchReturns, FetchInv, IsFetch, NoFetch, Skipped, Kinds
<1>9. CASE CallerStops
  BY <1>9 DEF CallerStops, FetchInv, IsFetch
<1>10. CASE ClockAdvances
  BY <1>10, FetchAssumption DEF ClockAdvances, FetchInv, FetchAssumption
<1>11. CASE ProcessRestarts
  BY <1>11, FreshPolicyOK DEF ProcessRestarts, FetchInv, IsFetch, NoFetch, Skipped, Kinds
<1>12. CASE UNCHANGED vars
  BY <1>12 DEF FetchInv, vars
<1> QED
  BY <1>1, <1>2, <1>3, <1>4, <1>5, <1>6, <1>7, <1>8, <1>9, <1>10, <1>11, <1>12 DEF Next

LEMMA FetchInvariant == Spec => []FetchInv
BY FetchInit, FetchStep, PTL DEF Spec

(* Every variable keeps its type, whatever the server answers.                *)
THEOREM FetchTypes == Spec => []TypeOK
<1>1. FetchInv => TypeOK
  <2> SUFFICES ASSUME FetchInv PROVE TypeOK
    OBVIOUS
  <2>1. policy \in [endpoint : [Capabilities -> [status : Statuses, until : Nat \cup {None}]],
                    refused : [Capabilities -> [Dates -> Nat \cup {None}]]]
    BY DEF FetchInv, PolicyOK, PolicyType, EndpointState, Until
  <2>2. fetch.at # "idle" => fetch.date # None
    BY PolicyAssumption DEF FetchInv, IsFetch, PolicyAssumption
  <2> QED
    BY <2>1, <2>2 DEF TypeOK, FetchInv, PolicyOK, EndsAreNamed, IsFetch, Kinds
<1> QED
  BY <1>1, FetchInvariant, PTL

(* An endpoint that is not asked has a reason with an end (HoldReason of      *)
(* capabilities.ts against its shouldAttempt): the two never disagree.        *)
THEOREM HoldsAreExplained == Spec => []HoldIsExplained
<1>1. FetchInv => HoldIsExplained
  <2> SUFFICES ASSUME FetchInv, NEW c \in Capabilities, NEW d \in Dates,
                      ~ShouldAttempt(policy, c, d, now)
               PROVE  HoldReason(policy, c, d, now) # "none"
    BY DEF HoldIsExplained
  <2> DEFINE e == policy.endpoint[c]  u == policy.refused[c][d]
  <2>1. e.status \in Statuses /\ e.until \in Until /\ u \in Until /\ now \in Nat
    BY NowIsNat DEF FetchInv, PolicyOK, PolicyType, EndpointState
  <2>2. CASE u # None
    BY <2>1, <2>2 DEF ShouldAttempt, HoldReason, Until
  <2>3. CASE u = None
    <3>1. e.status \in {"restricted", "throttled", "error"} /\ ~Come(e.until, now)
      BY <2>1, <2>3 DEF ShouldAttempt, Statuses
    <3> QED
      BY <2>3, <3>1 DEF HoldReason
  <2> QED
    BY <2>2, <2>3
<1> QED
  BY <1>1, FetchInvariant, PTL

-----------------------------------------------------------------------------
(* The plan and the policy.  The account's plan is at least as generous as    *)
(* the policy believes, and the account's midnight follows the policy's.      *)
PlanIsGenerous ==
  /\ PlanLag >= 0
  /\ PlanWindow # None => PlanWindow >= FreeWindow

LEMMA DivisionIsMonotone ==
  ASSUME NEW a \in Int, NEW b \in Int, NEW n \in Nat \ {0}, a <= b
  PROVE  a \div n <= b \div n
<1> DEFINE p == a \div n  q == b \div n
<1>1. p \in Int /\ q \in Int
  OBVIOUS
<1>2. n * p <= a /\ b < n * (q + 1)
  OBVIOUS
<1>3. n * p < n * (q + 1)
  BY <1>1, <1>2
<1> HIDE DEF p, q
<1>4. p < q + 1
  BY <1>1, <1>3
<1>5. p <= q
  BY <1>1, <1>4
<1> QED
  BY <1>5 DEF p, q

(* What such a plan refuses is older than the policy's free window.           *)
LEMMA RefusedIsOld ==
  ASSUME PlanIsGenerous, now \in Nat, NEW date \in Dates, PlanRefuses(date)
  PROVE  ~InFreeWindow(date, now)
<1> DEFINE mine == now \div DayLength  theirs == (now - PlanLag) \div DayLength
<1>1. PlanLag \in Int /\ PlanLag >= 0 /\ DayLength \in Nat \ {0} /\ FreeWindow \in Nat
      /\ date \in Nat
  BY FetchAssumption, PolicyAssumption DEF FetchAssumption, PolicyAssumption, PlanIsGenerous
<1>2. PlanWindow \in Nat /\ PlanWindow >= FreeWindow
  BY FetchAssumption DEF FetchAssumption, PlanIsGenerous, PlanRefuses
<1>3. now - PlanLag \in Int /\ now - PlanLag <= now
  BY <1>1
<1>4. theirs <= mine
  BY <1>1, <1>3, DivisionIsMonotone
<1>5. mine \in Int /\ theirs \in Int
  BY <1>1, <1>3
<1>6. date < theirs - (PlanWindow - 1)
  BY DEF PlanRefuses
<1> HIDE DEF mine, theirs
<1>7. ~(date >= mine - (FreeWindow - 1))
  BY <1>1, <1>2, <1>4, <1>5, <1>6
<1> QED
  BY <1>7 DEF InFreeWindow, Today, mine

(* No endpoint is restricted as a whole.                                      *)
NoneIsRestricted(p) == \A c \in Capabilities : p.endpoint[c].status # "restricted"

LEMMA LearnsUnrestricted ==
  ASSUME NEW p, PolicyOK(p), NoneIsRestricted(p), NEW c \in Capabilities,
         NEW status \in Statuses, status # "restricted", NEW until \in Until
  PROVE  NoneIsRestricted(Learns(p, c, status, until))
<1> DEFINE state == [status |-> status, until |-> until]
           q == [p EXCEPT !.endpoint = [p.endpoint EXCEPT ![c] = state]]
<1>1. Learns(p, c, status, until) = q
  BY DEF Learns
<1>2. NoneIsRestricted(q)
  BY DEF NoneIsRestricted, PolicyOK, PolicyType
<1> QED
  BY <1>1, <1>2

LEMMA DatedUnrestricted ==
  ASSUME NEW p, PolicyOK(p), NoneIsRestricted(p), NEW c \in Capabilities, NEW date \in Dates,
         NEW until \in Until
  PROVE  NoneIsRestricted([p EXCEPT !.refused[c][date] = until])
<1> DEFINE row == [p.refused[c] EXCEPT ![date] = until]
           q == [p EXCEPT !.refused = [p.refused EXCEPT ![c] = row]]
<1>1. [p EXCEPT !.refused[c][date] = until] = q
  OBVIOUS
<1>2. NoneIsRestricted(q)
  BY DEF NoneIsRestricted, PolicyOK, PolicyType
<1> QED
  BY <1>1, <1>2

LEMMA SuccessUnrestricted ==
  ASSUME NEW p, PolicyOK(p), NoneIsRestricted(p), NEW c \in Capabilities, NEW date \in Dates
  PROVE  NoneIsRestricted(RecordSuccess(p, c, date))
<1> DEFINE q == [p EXCEPT !.refused[c][date] = None]
<1>1. PolicyOK(q) /\ NoneIsRestricted(q)
  BY RefusedOK, DatedUnrestricted DEF Until
<1> HIDE DEF q
<1>2. NoneIsRestricted(Learns(q, c, "available", None))
  BY <1>1, LearnsUnrestricted DEF Statuses, Until
<1> QED
  BY <1>2 DEF RecordSuccess, q

LEMMA RestrictionUnrestricted ==
  ASSUME PlanIsGenerous, now \in Nat, NEW p, PolicyOK(p), NoneIsRestricted(p),
         NEW c \in Capabilities, NEW date \in Dates, PlanRefuses(date)
  PROVE  NoneIsRestricted(RecordRestriction(p, c, date, now))
<1>1. now + ReprobeInterval \in Until
  BY PolicyAssumption, InstantsAreUntil DEF PolicyAssumption
<1>2. ~InFreeWindow(date, now)
  BY RefusedIsOld
<1> QED
  BY <1>1, <1>2, DatedUnrestricted DEF RecordRestriction

LEMMA TimedUnrestricted ==
  ASSUME NEW p, PolicyOK(p), NoneIsRestricted(p), NEW c \in Capabilities,
         NEW n \in Nat, NEW w \in Nat
  PROVE  /\ NoneIsRestricted(RecordDeferredRetry(p, c, n + w))
         /\ NoneIsRestricted(RecordError(p, c, n))
<1>1. n + w \in Until /\ n + ErrorInterval \in Until
  BY PolicyAssumption, InstantsAreUntil DEF PolicyAssumption
<1> QED
  BY <1>1, LearnsUnrestricted DEF RecordDeferredRetry, RecordError, Statuses

(* What a step does to the policy: a refusal is learnt only of a date that    *)
(* the plan refuses at that instant.                                          *)
PolicyStep ==
  \/ policy' = policy \/ policy' = FreshPolicy
  \/ \E c \in Capabilities :
       \/ policy' = RecordSuccess(policy, c, fetch.date)
       \/ PlanRefuses(fetch.date) /\ policy' = RecordRestriction(policy, c, fetch.date, now)
       \/ \E w \in RetryAfters : policy' = RecordDeferredRetry(policy, c, now + w)
       \/ policy' = RecordError(policy, c, now)

LEMMA OnlyRefusals ==
  ASSUME FetchInv, [Next]_vars
  PROVE  PolicyStep /\ (policy' # policy /\ policy' # FreshPolicy => fetch.date \in Dates)
<1>c. "summaries" \in Capabilities /\ "heartbeats" \in Capabilities /\ "durations" \in Capabilities
  BY DEF Capabilities
<1>d. fetch.at # "idle" => fetch.date \in Dates
  BY DEF FetchInv, IsFetch
<1>1. ASSUME NEW doc \in Documents, SummariesAnswered(doc)
      PROVE  PolicyStep /\ fetch.date \in Dates
  <2> DEFINE result == IF fetch.date \notin doc.dates THEN Failed
                       ELSE NormalizeSummary(doc, fetch.date, Pinned)
  <2>1. result.kind \in {"complete", "restricted", "failed"}
    BY NormalizedKind DEF Failed
  <2>2. result.kind = "restricted" => doc.refusal
    BY DEF NormalizeSummary, Failed, Complete
  <2>3. policy' = LearntFrom("summaries", fetch, result)
    BY <1>1 DEF SummariesAnswered
  <2>4. doc.refusal => PlanRefuses(fetch.date)
    BY <1>1 DEF SummariesAnswered
  <2> HIDE DEF result
  <2> QED
    BY <1>1, <1>c, <1>d, <2>1, <2>2, <2>3, <2>4 DEF SummariesAnswered, LearntFrom, PolicyStep
<1>2. ASSUME NEW doc \in Beats, HeartbeatsAnswered(doc)
      PROVE  PolicyStep /\ fetch.date \in Dates
  <2> DEFINE result == NormalizeHeartbeats(doc, fetch.date, Pinned)
  <2>1. result.kind \in {"complete", "failed"}
    BY NormalizedKind
  <2>2. policy' = LearntFrom("heartbeats", fetch, result)
    BY <1>2 DEF HeartbeatsAnswered
  <2> HIDE DEF result
  <2> QED
    BY <1>2, <1>c, <1>d, <2>1, <2>2 DEF HeartbeatsAnswered, LearntFrom, PolicyStep
<1>3. CASE DurationsAnswered
  BY <1>3, <1>c, <1>d DEF DurationsAnswered, PolicyStep
<1>4. ASSUME NEW e \in Errors, NEW w \in RetryAfters, NEW c \in Capabilities, Answers(e),
             policy' = Learnt(c, fetch, e, w)
      PROVE  PolicyStep
  <2>1. e = "refused" => PlanRefuses(fetch.date)
    BY <1>4 DEF Answers
  <2> QED
    BY <1>4, <2>1 DEF Learnt, Errors, PolicyStep
<1>5. ASSUME NEW e \in Errors, NEW w \in RetryAfters,
             SummariesRejected(e, w) \/ HeartbeatsRejected(e, w)
      PROVE  PolicyStep /\ fetch.date \in Dates
  BY <1>4, <1>5, <1>c, <1>d DEF SummariesRejected, HeartbeatsRejected
<1>6. ASSUME NEW e \in Errors, NEW w \in RetryAfters, DurationsRejected(e, w)
      PROVE  PolicyStep /\ fetch.date \in Dates
  <2>1. e = "refused" => PlanRefuses(fetch.date)
    BY <1>6 DEF DurationsRejected, Answers
  <2> QED
    BY <1>6, <1>c, <1>d, <2>1 DEF DurationsRejected, Errors, PolicyStep
<1>7. (\E d \in Dates, w, s \in BOOLEAN : FetchStarts(d, w, s)) => policy' = policy
  BY DEF FetchStarts
<1>8. FetchReturns \/ CallerStops \/ ClockAdvances \/ UNCHANGED vars => policy' = policy
  BY DEF FetchReturns, CallerStops, ClockAdvances, vars
<1>9. ProcessRestarts => policy' = FreshPolicy
  BY DEF ProcessRestarts
<1>10. policy' = policy \/ policy' = FreshPolicy => PolicyStep
  BY DEF PolicyStep
<1> QED
  BY <1>1, <1>2, <1>3, <1>5, <1>6, <1>7, <1>8, <1>9, <1>10, <1>d DEF Next, DurationsAnswered

LEMMA NoneIsRestrictedSteps ==
  ASSUME PlanIsGenerous, FetchInv, NoneIsRestricted(policy), [Next]_vars
  PROVE  NoneIsRestricted(policy')
<1>1. PolicyOK(policy) /\ now \in Nat
  BY NowIsNat DEF FetchInv
<1>2. CASE policy' = policy \/ policy' = FreshPolicy
  BY <1>2 DEF NoneIsRestricted, FreshPolicy
<1>3. CASE policy' # policy /\ policy' # FreshPolicy
  <2>1. fetch.date \in Dates /\ PolicyStep
    BY <1>3, OnlyRefusals
  <2>2. PICK c \in Capabilities :
          \/ policy' = RecordSuccess(policy, c, fetch.date)
          \/ PlanRefuses(fetch.date) /\ policy' = RecordRestriction(policy, c, fetch.date, now)
          \/ \E w \in RetryAfters : policy' = RecordDeferredRetry(policy, c, now + w)
          \/ policy' = RecordError(policy, c, now)
    BY <1>3, <2>1 DEF PolicyStep
  <2>3. RetryAfters \subseteq Nat
    BY FetchAssumption DEF FetchAssumption
  <2>4. CASE policy' = RecordSuccess(policy, c, fetch.date)
    BY <1>1, <2>1, <2>4, SuccessUnrestricted
  <2>5. CASE PlanRefuses(fetch.date) /\ policy' = RecordRestriction(policy, c, fetch.date, now)
    BY <1>1, <2>1, <2>5, RestrictionUnrestricted
  <2>6. CASE \E w \in RetryAfters : policy' = RecordDeferredRetry(policy, c, now + w)
    BY <1>1, <2>3, <2>6, TimedUnrestricted
  <2>7. CASE policy' = RecordError(policy, c, now)
    BY <1>1, <2>7, TimedUnrestricted
  <2> QED
    BY <2>2, <2>4, <2>5, <2>6, <2>7
<1> QED
  BY <1>2, <1>3

(* A day the plan lets read is never kept back by the refusal of another      *)
(* (recordRestriction of capabilities.ts), whatever the lengths of the day,   *)
(* of the free window and of the waits, if the plan is as generous as the     *)
(* policy believes.                                                           *)
THEOREM RecentIsTried == PlanIsGenerous /\ Spec => []RecentDatesAreTried
<1> SUFFICES ASSUME PlanIsGenerous PROVE Spec => []RecentDatesAreTried
  OBVIOUS
<1>1. Init => FetchInv /\ NoneIsRestricted(policy)
  BY FetchInit DEF Init, NoneIsRestricted, FreshPolicy
<1>2. FetchInv /\ NoneIsRestricted(policy) /\ [Next]_vars => (FetchInv /\ NoneIsRestricted(policy))'
  BY FetchStep, NoneIsRestrictedSteps
<1>3. FetchInv /\ NoneIsRestricted(policy) => RecentDatesAreTried
  <2> SUFFICES ASSUME NoneIsRestricted(policy), NEW c \in Capabilities, NEW d \in Dates
               PROVE  HoldReason(policy, c, d, now) # "global_restriction"
    BY DEF RecentDatesAreTried
  <2> QED
    BY DEF NoneIsRestricted, HoldReason
<1> QED
  BY <1>1, <1>2, <1>3, PTL DEF Spec

-----------------------------------------------------------------------------
(* Days and hours of the zone.                                                *)

(* Quotient and remainder determine the number, and the number them.          *)
LEMMA Quotient ==
  ASSUME NEW a \in Int, NEW n \in Nat \ {0}
  PROVE  /\ a \div n \in Int /\ a % n \in 0 .. n - 1
         /\ a = n * (a \div n) + (a % n)
<1>1. a \div n \in Int
  OBVIOUS
<1>2. a % n \in 0 .. n - 1
  OBVIOUS
<1>3. a = n * (a \div n) + (a % n)
  OBVIOUS
<1> QED
  BY <1>1, <1>2, <1>3

LEMMA QuotientIsUnique ==
  ASSUME NEW n \in Nat \ {0}, NEW q \in Int, NEW r \in 0 .. n - 1, NEW p \in Int,
         NEW s \in 0 .. n - 1, n * q + r = n * p + s
  PROVE  q = p /\ r = s
<1>1. ASSUME NEW x \in Int, NEW y \in Int, NEW u \in 0 .. n - 1, NEW v \in 0 .. n - 1,
             n * x + u = n * y + v
      PROVE  ~(x < y)
  <2> SUFFICES ASSUME x < y PROVE FALSE
    OBVIOUS
  <2>1. y = x + 1 + (y - x - 1) /\ y - x - 1 \in Nat
    BY <1>1
  <2>2. n * y = n * x + n + n * (y - x - 1)
    BY <1>1
  <2>3. n * (y - x - 1) >= 0
    BY <2>1
  <2> QED
    BY <1>1, <2>2, <2>3
<1>2. ~(q < p) /\ ~(p < q)
  BY <1>1
<1>3. q = p
  BY <1>2
<1> QED
  BY <1>3

LEMMA DivisionOf ==
  ASSUME NEW n \in Nat \ {0}, NEW q \in Int, NEW r \in 0 .. n - 1
  PROVE  (n * q + r) \div n = q /\ (n * q + r) % n = r
<1> DEFINE a == n * q + r
<1>1. a \in Int
  OBVIOUS
<1>2. a \div n \in Int /\ a % n \in 0 .. n - 1 /\ a = n * (a \div n) + (a % n)
  BY <1>1, Quotient
<1> QED
  BY <1>2, QuotientIsUnique

LEMMA Moment ==
  ASSUME NEW t \in Int, NEW z \in Int
  PROVE  /\ HoursPerDay \in Nat \ {0}
         /\ ZonedDay(t, z) \in Int /\ ZonedHour(t, z) \in Int
         /\ ZonedHour(t, z) \in 0 .. HoursPerDay - 1
         /\ t + z = HoursPerDay * ZonedDay(t, z) + ZonedHour(t, z)
<1>1. t + z \in Int /\ HoursPerDay \in Nat \ {0}
  BY CalendarAssumption DEF CalendarAssumption
<1> QED
  <2>1. /\ (t + z) \div HoursPerDay \in Int /\ (t + z) % HoursPerDay \in 0 .. HoursPerDay - 1
        /\ t + z = HoursPerDay * ((t + z) \div HoursPerDay) + ((t + z) % HoursPerDay)
    BY <1>1, Quotient
  <2> QED
    BY <1>1, <2>1 DEF ZonedDay, ZonedHour

LEMMA MomentOf ==
  ASSUME NEW d \in Int, NEW h \in 0 .. HoursPerDay - 1, NEW z \in Int
  PROVE  /\ ZonedTimestamp(d, h, z) \in Int
         /\ ZonedDay(ZonedTimestamp(d, h, z), z) = d
         /\ ZonedHour(ZonedTimestamp(d, h, z), z) = h
<1>1. HoursPerDay \in Nat \ {0}
  BY CalendarAssumption DEF CalendarAssumption
<1>2. ZonedTimestamp(d, h, z) \in Int /\ ZonedTimestamp(d, h, z) + z = HoursPerDay * d + h
  BY <1>1 DEF ZonedTimestamp
<1> QED
  BY <1>1, <1>2, DivisionOf DEF ZonedDay, ZonedHour

(* Between an instant and the next time that the clocks of the zone show some *)
(* hour of some day, the days run from the one to the other, and the day that *)
(* is reached shows earlier hours.                                            *)
LEMMA DaysUntil ==
  ASSUME NEW t \in Int, NEW z \in Int, NEW d \in Int, NEW h \in 0 .. HoursPerDay - 1,
         NEW u \in t .. ZonedTimestamp(d, h, z) - 1
  PROVE  /\ u \in Int
         /\ ZonedDay(u, z) \in ZonedDay(t, z) .. d
         /\ ZonedDay(u, z) = d => ZonedHour(u, z) < h
<1> DEFINE next == ZonedTimestamp(d, h, z)
<1>1. next \in Int /\ ZonedDay(next, z) = d /\ ZonedHour(next, z) = h
  BY MomentOf
<1>2. u \in Int /\ t <= u /\ u < next
  BY <1>1
<1>3. t + z \in Int /\ u + z \in Int /\ next + z \in Int /\ t + z <= u + z /\ u + z <= next + z
      /\ HoursPerDay \in Nat \ {0}
  BY <1>1, <1>2, CalendarAssumption DEF CalendarAssumption
<1>4. ZonedDay(t, z) <= ZonedDay(u, z) /\ ZonedDay(u, z) <= ZonedDay(next, z)
  BY <1>3, DivisionIsMonotone DEF ZonedDay
<1>5. ZonedDay(t, z) \in Int /\ ZonedDay(u, z) \in Int
  BY <1>2, Moment
<1>6. u + z = HoursPerDay * ZonedDay(u, z) + ZonedHour(u, z) /\ ZonedHour(u, z) \in Int
  BY <1>2, Moment
<1>7. next + z = HoursPerDay * d + h
  BY <1>1, Moment
<1>8. ASSUME ZonedDay(u, z) = d PROVE ZonedHour(u, z) < h
  <2>1. u + z < next + z
    BY <1>1, <1>2
  <2>2. HoursPerDay * d \in Int
    BY <1>3
  <2> QED
    BY <1>6, <1>7, <1>8, <2>1, <2>2
<1> QED
  BY <1>1, <1>2, <1>4, <1>5, <1>8

(* An instant is before the hour h of day d, if its day is, or if it is on    *)
(* that day at an earlier hour.                                               *)
LEMMA BeforeTheHour ==
  ASSUME NEW t \in Int, NEW z \in Int, NEW d \in Int, NEW h \in 0 .. HoursPerDay - 1,
         ZonedDay(t, z) < d \/ (ZonedDay(t, z) = d /\ ZonedHour(t, z) < h)
  PROVE  t < ZonedTimestamp(d, h, z)
<1> DEFINE next == ZonedTimestamp(d, h, z)
<1>1. next \in Int /\ ZonedDay(next, z) = d /\ ZonedHour(next, z) = h
  BY MomentOf
<1>2. SUFFICES ASSUME next <= t PROVE FALSE
  BY <1>1
<1>3. ZonedDay(next, z) <= ZonedDay(t, z)
  <2>1. next + z \in Int /\ t + z \in Int /\ next + z <= t + z /\ HoursPerDay \in Nat \ {0}
    BY <1>1, <1>2, CalendarAssumption DEF CalendarAssumption
  <2> QED
    BY <2>1, DivisionIsMonotone DEF ZonedDay
<1>4. ZonedDay(t, z) \in Int /\ ZonedHour(t, z) \in Int
      /\ t + z = HoursPerDay * ZonedDay(t, z) + ZonedHour(t, z)
  BY Moment
<1>5. ZonedDay(t, z) = d /\ ZonedHour(t, z) < h
  BY <1>1, <1>3, <1>4
<1>6. next + z = HoursPerDay * d + h /\ HoursPerDay * d \in Int
  BY <1>4, CalendarAssumption DEF ZonedTimestamp, CalendarAssumption
<1> QED
  BY <1>1, <1>2, <1>4, <1>5, <1>6

(* The days of the week return after a week and not before.                   *)
LEMMA WeekDays ==
  ASSUME NEW d \in Int
  PROVE  /\ DaysPerWeek \in Nat /\ DaysPerWeek >= 2
         /\ DayOfWeek(d) \in 0 .. DaysPerWeek - 1
         /\ \A j \in Int : DayOfWeek(d) + j \in 0 .. DaysPerWeek - 1
                             => DayOfWeek(d + j) = DayOfWeek(d) + j
         /\ \A j \in Int : DayOfWeek(d) + j \in DaysPerWeek .. 2 * DaysPerWeek - 1
                             => DayOfWeek(d + j) = DayOfWeek(d) + j - DaysPerWeek
<1>1. DaysPerWeek \in Nat /\ DaysPerWeek >= 2 /\ DaysPerWeek \in Nat \ {0}
  BY CalendarAssumption DEF CalendarAssumption
<1> DEFINE q == d \div DaysPerWeek  r == d % DaysPerWeek
<1>2. q \in Int /\ r \in 0 .. DaysPerWeek - 1 /\ d = DaysPerWeek * q + r
  BY <1>1, Quotient
<1> HIDE DEF q, r
<1>3. ASSUME NEW j \in Int, r + j \in 0 .. DaysPerWeek - 1
      PROVE  (d + j) % DaysPerWeek = r + j
  <2>1. d + j = DaysPerWeek * q + (r + j)
    BY <1>1, <1>2
  <2> QED
    BY <1>1, <1>2, <1>3, <2>1, DivisionOf
<1>4. ASSUME NEW j \in Int, r + j \in DaysPerWeek .. 2 * DaysPerWeek - 1
      PROVE  (d + j) % DaysPerWeek = r + j - DaysPerWeek
  <2>1. r + j - DaysPerWeek \in 0 .. DaysPerWeek - 1 /\ q + 1 \in Int
    BY <1>1, <1>2, <1>4
  <2>2. DaysPerWeek * (q + 1) = DaysPerWeek * q + DaysPerWeek /\ DaysPerWeek * q \in Int
    BY <1>1, <1>2
  <2>3. d + j = DaysPerWeek * (q + 1) + (r + j - DaysPerWeek)
    BY <1>1, <1>2, <2>2
  <2> QED
    BY <1>1, <2>1, <2>3, DivisionOf
<1> QED
  BY <1>1, <1>2, <1>3, <1>4 DEF DayOfWeek, r

-----------------------------------------------------------------------------
(* The announced times.                                                       *)

(* From t, a cadence comes due anew at u.                                     *)
DueAnew(c, t, z, u) ==
  /\ IsCadenceDue(c, NoSlot, u, z)
  /\ IsCadenceDue(c, NoSlot, t, z) => Slot(c, u, z) # Slot(c, t, z)

FirstDue(c, t, z) ==
  /\ t < NextDue(c, t, z)
  /\ DueAnew(c, t, z, NextDue(c, t, z))
  /\ \A u \in t .. NextDue(c, t, z) - 1 : ~DueAnew(c, t, z, u)

LEMMA RecentIsAnnounced ==
  ASSUME NEW t \in Int, NEW z \in Int
  PROVE  FirstDue("recent", t, z)
<1>1. NextDue("recent", t, z) = t + 1
  BY DEF NextDue
<1>2. \A u \in Int : Slot("recent", u, z) = <<ZonedDay(u, z), ZonedHour(u, z)>>
  BY DEF Slot
<1>3. \A u \in Int : IsCadenceDue("recent", NoSlot, u, z)
  BY <1>2 DEF IsCadenceDue, NoSlot
<1>4. Slot("recent", t + 1, z) # Slot("recent", t, z)
  <2>1. SUFFICES ASSUME ZonedDay(t + 1, z) = ZonedDay(t, z), ZonedHour(t + 1, z) = ZonedHour(t, z)
                 PROVE  FALSE
    BY <1>2
  <2>2. t + 1 + z = t + z
    BY <2>1, Moment
  <2> QED
    BY <2>2
<1> QED
  BY <1>1, <1>3, <1>4 DEF FirstDue, DueAnew

LEMMA ReconcileIsAnnounced ==
  ASSUME NEW t \in Int, NEW z \in Int
  PROVE  FirstDue("reconcile", t, z)
<1> DEFINE today == ZonedDay(t, z)
           day == IF ZonedHour(t, z) < ReconcileHour THEN today ELSE today + 1
           next == ZonedTimestamp(day, ReconcileHour, z)
<1>1. NextDue("reconcile", t, z) = next
  BY DEF NextDue
<1>2. \A u \in Int : Slot("reconcile", u, z) = <<ZonedDay(u, z), 0>>
  BY DEF Slot
<1>3. \A u \in Int : IsCadenceDue("reconcile", NoSlot, u, z) <=> ZonedHour(u, z) >= ReconcileHour
  BY <1>2 DEF IsCadenceDue, NoSlot
<1>4. today \in Int /\ day \in Int /\ ReconcileHour \in 0 .. HoursPerDay - 1 /\ ReconcileHour \in Int
      /\ ZonedHour(t, z) \in Int
  <2>1. today \in Int /\ ZonedHour(t, z) \in Int
    BY Moment
  <2>2. ReconcileHour \in 0 .. HoursPerDay - 1 /\ HoursPerDay \in Nat
    BY CalendarAssumption DEF CalendarAssumption
  <2> QED
    BY <2>1, <2>2
<1>5. next \in Int /\ ZonedDay(next, z) = day /\ ZonedHour(next, z) = ReconcileHour
  BY <1>4, MomentOf
<1>6. t < next
  BY <1>4, BeforeTheHour
<1>7. DueAnew("reconcile", t, z, next)
  BY <1>2, <1>3, <1>4, <1>5 DEF DueAnew
<1>8. ASSUME NEW u \in t .. next - 1 PROVE ~DueAnew("reconcile", t, z, u)
  <2>1. u \in Int /\ ZonedDay(u, z) \in today .. day
        /\ (ZonedDay(u, z) = day => ZonedHour(u, z) < ReconcileHour)
    BY <1>4, DaysUntil
  <2>2. ZonedHour(u, z) \in Int
    BY <2>1, Moment
  <2>3. CASE ZonedDay(u, z) = day
    BY <1>3, <1>4, <2>1, <2>2, <2>3 DEF DueAnew
  <2>4. CASE ZonedDay(u, z) # day
    <3>1. ZonedDay(u, z) = today /\ ~(ZonedHour(t, z) < ReconcileHour)
      BY <1>4, <2>1, <2>4
    <3> QED
      BY <1>2, <1>3, <1>4, <2>1, <3>1 DEF DueAnew
  <2> QED
    BY <2>3, <2>4
<1> QED
  BY <1>1, <1>6, <1>7, <1>8 DEF FirstDue

LEMMA CompareIsAnnounced ==
  ASSUME NEW t \in Int, NEW z \in Int
  PROVE  FirstDue("compare", t, z)
<1> DEFINE today == ZonedDay(t, z)
           dow == DayOfWeek(today)
           wait == CASE dow = 1 /\ ZonedHour(t, z) < CompareHour -> 0
                     [] dow = 1 /\ ZonedHour(t, z) >= CompareHour -> DaysPerWeek
                     [] dow = 0 -> 1
                     [] dow \notin {0, 1} -> DaysPerWeek + 1 - dow
           next == ZonedTimestamp(today + wait, CompareHour, z)
<1>1. NextDue("compare", t, z) = next
  BY DEF NextDue
<1>2. \A u \in Int : Slot("compare", u, z) = <<MondayOf(ZonedDay(u, z)), 0>>
  BY DEF Slot
<1>3. \A u \in Int : IsCadenceDue("compare", NoSlot, u, z)
                        <=> DayOfWeek(ZonedDay(u, z)) = 1 /\ ZonedHour(u, z) >= CompareHour
  BY <1>2 DEF IsCadenceDue, NoSlot
<1>4. today \in Int /\ CompareHour \in 0 .. HoursPerDay - 1 /\ CompareHour \in Int
      /\ ZonedHour(t, z) \in Int
  BY Moment, CalendarAssumption DEF CalendarAssumption
<1>5. /\ DaysPerWeek \in Nat /\ DaysPerWeek >= 2 /\ dow \in 0 .. DaysPerWeek - 1
      /\ \A j \in Int : dow + j \in 0 .. DaysPerWeek - 1 => DayOfWeek(today + j) = dow + j
      /\ \A j \in Int : dow + j \in DaysPerWeek .. 2 * DaysPerWeek - 1
                          => DayOfWeek(today + j) = dow + j - DaysPerWeek
  BY <1>4, WeekDays
<1> HIDE DEF dow
(* The day waited for is a Monday, and no day on the way is one.              *)
<1>6. wait \in 0 .. DaysPerWeek /\ today + wait \in Int
  BY <1>4, <1>5
<1>7. DayOfWeek(today + wait) = 1
  BY <1>4, <1>5
<1>8. /\ dow = 0 => wait = 1
      /\ dow \notin {0, 1} => wait = DaysPerWeek + 1 - dow
      /\ dow = 1 /\ wait = 0 => ZonedHour(t, z) < CompareHour
      /\ dow = 1 /\ wait # 0 => wait = DaysPerWeek /\ ZonedHour(t, z) >= CompareHour
      /\ wait = 0 => dow = 1
  BY <1>4, <1>5
<1> HIDE DEF wait
<1>9. \A j \in 1 .. wait - 1 : DayOfWeek(today + j) # 1
  <2> SUFFICES ASSUME NEW j \in 1 .. wait - 1 PROVE DayOfWeek(today + j) # 1
    OBVIOUS
  <2>1. j \in Int /\ 1 <= j /\ j < wait
    BY <1>5, <1>6
  <2>2. CASE dow + j < DaysPerWeek
    <3>1. DayOfWeek(today + j) = dow + j
      BY <1>5, <2>1, <2>2
    <3>2. ~(dow = 0 /\ j = 1)
      BY <1>8, <2>1
    <3> QED
      BY <1>5, <2>1, <3>1, <3>2
  <2>3. CASE dow + j >= DaysPerWeek
    <3>1. dow + j # DaysPerWeek + 1
      BY <1>5, <1>6, <1>8, <2>1
    <3>2. dow + j \in DaysPerWeek .. 2 * DaysPerWeek - 1
      BY <1>5, <1>6, <2>1, <2>3
    <3> QED
      BY <1>5, <2>1, <3>1, <3>2
  <2> QED
    BY <1>5, <2>1, <2>2, <2>3
<1>10. DayOfWeek(today) = dow
  BY DEF dow
<1>11. next \in Int /\ ZonedDay(next, z) = today + wait /\ ZonedHour(next, z) = CompareHour
  BY <1>4, <1>6, MomentOf
<1>12. t < next
  BY <1>4, <1>6, <1>8, BeforeTheHour
<1>13. DueAnew("compare", t, z, next)
  <2>1. IsCadenceDue("compare", NoSlot, next, z)
    BY <1>3, <1>4, <1>7, <1>11
  <2>2. ASSUME IsCadenceDue("compare", NoSlot, t, z)
        PROVE  Slot("compare", next, z) # Slot("compare", t, z)
    <3>1. dow = 1 /\ ZonedHour(t, z) >= CompareHour
      BY <1>3, <1>10, <2>2
    <3>2. wait = DaysPerWeek
      BY <1>4, <1>8, <3>1
    <3>3. MondayOf(today) = today /\ MondayOf(today + wait) = today + wait
      BY <1>4, <1>6, <1>7, <1>10, <3>1 DEF MondayOf
    <3> QED
      BY <1>2, <1>4, <1>5, <1>11, <3>2, <3>3
  <2> QED
    BY <2>1, <2>2 DEF DueAnew
<1>14. ASSUME NEW u \in t .. next - 1 PROVE ~DueAnew("compare", t, z, u)
  <2> DEFINE day == ZonedDay(u, z)
  <2>1. u \in Int /\ day \in today .. today + wait
        /\ (day = today + wait => ZonedHour(u, z) < CompareHour)
    BY <1>4, <1>6, DaysUntil
  <2>2. ZonedHour(u, z) \in Int
    BY <2>1, Moment
  <2> HIDE DEF day
  <2>3. CASE day = today + wait
    BY <1>3, <1>4, <2>1, <2>2, <2>3 DEF DueAnew, day
  <2>4. CASE day # today + wait /\ day # today
    <3>1. day - today \in 1 .. wait - 1 /\ today + (day - today) = day
      BY <1>4, <1>6, <2>1, <2>4
    <3>2. DayOfWeek(day) # 1
      BY <1>9, <3>1
    <3> QED
      BY <1>3, <2>1, <3>2 DEF DueAnew, day
  <2>5. CASE day = today /\ day # today + wait
    <3>1. CASE dow = 1
      <4>1. wait # 0
        BY <1>4, <2>5
      <4>2. IsCadenceDue("compare", NoSlot, t, z)
        BY <1>3, <1>8, <1>10, <3>1, <4>1
      <4>3. Slot("compare", u, z) = Slot("compare", t, z)
        BY <1>2, <2>1, <2>5 DEF day
      <4> QED
        BY <4>2, <4>3 DEF DueAnew
    <3>2. CASE dow # 1
      BY <1>3, <1>10, <2>1, <2>5, <3>2 DEF DueAnew, day
    <3> QED
      BY <3>1, <3>2
  <2> QED
    BY <2>3, <2>4, <2>5
<1> QED
  BY <1>1, <1>12, <1>13, <1>14 DEF FirstDue

LEMMA AnnouncedTimes ==
  ASSUME clock \in Int, zone \in Int
  PROVE  NextDueIsHonest
<1>1. \A c \in Cadences : FirstDue(c, clock, zone)
  BY RecentIsAnnounced, ReconcileIsAnnounced, CompareIsAnnounced DEF Cadences
<1> QED
  BY <1>1 DEF NextDueIsHonest, FirstDue, DueAnew

-----------------------------------------------------------------------------
(* Sets of dates in order.                                                    *)

DateSet(S) == S \subseteq Int /\ IsFiniteSet(S)

Below(S, d) == {e \in S : e < d}

Nth(S, i) == CHOOSE d \in S : Cardinality(Below(S, d)) = i - 1

LEMMA AscendingIs ==
  ASSUME NEW S
  PROVE  Ascending(S) = [i \in 1 .. Cardinality(S) |-> Nth(S, i)]
BY DEF Ascending, Nth, Below

LEMMA DateSets ==
  /\ DateSet({})
  /\ \A d \in Int : DateSet({d})
  /\ \A S, T : DateSet(S) /\ DateSet(T) => DateSet(S \cup T)
  /\ \A S, T : DateSet(S) /\ T \subseteq S => DateSet(T)
  /\ \A a, b \in Int : DateSet(a .. b)
<1>1. DateSet({})
  BY FS_EmptySet DEF DateSet
<1>2. \A d \in Int : DateSet({d})
  BY FS_Singleton DEF DateSet
<1>3. \A S, T : DateSet(S) /\ DateSet(T) => DateSet(S \cup T)
  <2> SUFFICES ASSUME NEW S, NEW T, DateSet(S), DateSet(T) PROVE DateSet(S \cup T)
    OBVIOUS
  <2>1. IsFiniteSet(S \cup T)
    BY FS_Union DEF DateSet
  <2> QED
    BY <2>1 DEF DateSet
<1>4. \A S, T : DateSet(S) /\ T \subseteq S => DateSet(T)
  BY FS_Subset DEF DateSet
<1>5. \A a, b \in Int : DateSet(a .. b)
  BY FS_Interval DEF DateSet
<1> QED
  BY <1>1, <1>2, <1>3, <1>4, <1>5

(* The number of the earlier dates of a set tells its dates apart.            *)
LEMMA RankOf ==
  ASSUME NEW S, DateSet(S), NEW d \in S
  PROVE  Cardinality(Below(S, d)) \in 0 .. Cardinality(S) - 1
<1>1. d \in Int /\ IsFiniteSet(S)
  BY DEF DateSet
<1>2. d \notin Below(S, d) /\ Below(S, d) \subseteq S
  BY <1>1 DEF Below
<1>3. IsFiniteSet(Below(S, d)) /\ Cardinality(Below(S, d)) <= Cardinality(S)
      /\ (Cardinality(S) = Cardinality(Below(S, d)) => S = Below(S, d))
  BY <1>1, <1>2, FS_Subset
<1>4. Cardinality(S) \in Nat /\ Cardinality(Below(S, d)) \in Nat
  BY <1>1, <1>3, FS_CardinalityType
<1> QED
  BY <1>2, <1>3, <1>4

LEMMA RankIsMonotone ==
  ASSUME NEW S, DateSet(S), NEW d \in S, NEW e \in S, d < e
  PROVE  Cardinality(Below(S, d)) < Cardinality(Below(S, e))
<1>1. DateSet(Below(S, e)) /\ d \in Int /\ e \in Int
  BY DateSets DEF DateSet, Below
<1>2. d \in Below(S, e)
  BY DEF Below
<1>3. Below(Below(S, e), d) = Below(S, d)
  <2>1. \A x \in S : x < d => x < e
    BY <1>1 DEF DateSet
  <2> QED
    BY <2>1 DEF Below
<1>4. Cardinality(Below(S, e)) \in Nat
  BY <1>1, FS_CardinalityType DEF DateSet
<1> QED
  BY <1>1, <1>2, <1>3, <1>4, RankOf

LEMMA NthIs ==
  ASSUME NEW S, DateSet(S), NEW i \in 1 .. Cardinality(S)
  PROVE  Nth(S, i) \in S /\ Cardinality(Below(S, Nth(S, i))) = i - 1
<1> DEFINE n == Cardinality(S)
           rank == [d \in S |-> Cardinality(Below(S, d))]
<1>1. n \in Nat
  BY FS_CardinalityType DEF DateSet
<1>2. rank \in [S -> 0 .. n - 1]
  BY RankOf
<1>3. ASSUME NEW d \in S, NEW e \in S, rank[d] = rank[e] PROVE d = e
  <2>1. d \in Int /\ e \in Int
    BY DEF DateSet
  <2>2. Cardinality(Below(S, d)) \in Int /\ Cardinality(Below(S, d)) = Cardinality(Below(S, e))
    BY <1>1, <1>3, RankOf
  <2>3. ~(d < e) /\ ~(e < d)
    BY <2>2, RankIsMonotone
  <2> QED
    BY <2>1, <2>3
<1>4. rank \in Injection(S, 0 .. n - 1)
  BY <1>2, <1>3 DEF Injection, IsInjective
<1>5. IsFiniteSet(0 .. n - 1) /\ Cardinality(0 .. n - 1) = n
  <2>1. 0 \in Int /\ n - 1 \in Int
    BY <1>1
  <2> QED
    BY <1>1, <2>1, FS_Interval
<1>6. rank \in Surjection(S, 0 .. n - 1)
  BY <1>4, <1>5, FS_Injection
<1>7. i - 1 \in 0 .. n - 1
  BY <1>1
<1>8. \E d \in S : rank[d] = i - 1
  BY <1>6, <1>7 DEF Surjection
<1> QED
  BY <1>8 DEF Nth

(* Ascending lists the dates of a set: all of them, each once, the earlier    *)
(* before the later.                                                          *)
LEMMA AscendingSorts ==
  ASSUME NEW S, DateSet(S)
  PROVE  /\ Ascending(S) \in Seq(S) /\ Ascending(S) \in Seq(Int)
         /\ Len(Ascending(S)) = Cardinality(S)
         /\ Cardinality(S) \in Nat
         /\ \A i, j \in 1 .. Cardinality(S) : i < j => Ascending(S)[i] < Ascending(S)[j]
         /\ \A d \in S : \E i \in 1 .. Cardinality(S) : Ascending(S)[i] = d
<1> DEFINE n == Cardinality(S)  s == Ascending(S)
<1>1. n \in Nat
  BY FS_CardinalityType DEF DateSet
<1>2. s = [i \in 1 .. n |-> Nth(S, i)]
  BY AscendingIs
<1>3. \A i \in 1 .. n : s[i] = Nth(S, i) /\ s[i] \in S /\ Cardinality(Below(S, s[i])) = i - 1
  BY <1>2, NthIs
<1>4. s \in [1 .. n -> S]
  BY <1>2, NthIs
<1>5. s \in Seq(S) /\ s \in Seq(Int) /\ Len(s) = n
  <2>1. s \in [1 .. n -> Int]
    BY <1>4 DEF DateSet
  <2> QED
    BY <1>1, <1>4, <2>1
<1> HIDE DEF s, n
<1>6. ASSUME NEW i \in 1 .. n, NEW j \in 1 .. n, i < j PROVE s[i] < s[j]
  <2>1. s[i] \in S /\ s[j] \in S /\ s[i] \in Int /\ s[j] \in Int
    BY <1>3 DEF DateSet
  <2>2. ~(s[j] < s[i])
    BY <1>1, <1>3, <1>6, <2>1, RankIsMonotone
  <2>3. s[i] # s[j]
    BY <1>1, <1>3, <1>6
  <2> QED
    BY <2>1, <2>2, <2>3
<1>7. ASSUME NEW d \in S PROVE \E i \in 1 .. n : s[i] = d
  <2> DEFINE i == Cardinality(Below(S, d)) + 1
  <2>1. i \in 1 .. n /\ Cardinality(Below(S, d)) = i - 1
    BY <1>1, RankOf DEF n
  <2> HIDE DEF i
  <2>2. s[i] \in S /\ Cardinality(Below(S, s[i])) = Cardinality(Below(S, d))
    BY <1>3, <2>1
  <2>3. d \in Int /\ s[i] \in Int /\ Cardinality(Below(S, d)) \in Int
    <3>1. Cardinality(Below(S, d)) \in Int
      BY <1>1, RankOf DEF n
    <3> QED
      BY <2>2, <3>1 DEF DateSet
  <2>4. ~(d < s[i]) /\ ~(s[i] < d)
    BY <2>2, <2>3, RankIsMonotone
  <2>5. s[i] = d
    BY <2>3, <2>4
  <2> QED
    BY <2>1, <2>5
<1> QED
  BY <1>1, <1>5, <1>6, <1>7 DEF s, n

LEMMA MinDateIs ==
  ASSUME NEW S, DateSet(S), S # {}
  PROVE  MinDate(S) \in S /\ \A d \in S : MinDate(S) <= d
<1>1. Cardinality(S) \in Nat /\ Cardinality(S) # 0
  BY FS_CardinalityType, FS_EmptySet DEF DateSet
<1>2. 1 \in 1 .. Cardinality(S)
  BY <1>1
<1>3. MinDate(S) \in S
  BY <1>2, AscendingSorts, AscendingIs, NthIs DEF MinDate
<1>4. ASSUME NEW d \in S PROVE MinDate(S) <= d
  <2>1. PICK i \in 1 .. Cardinality(S) : Ascending(S)[i] = d
    BY AscendingSorts
  <2>2. MinDate(S) \in Int /\ d \in Int
    BY <1>3 DEF DateSet
  <2>3. CASE i = 1
    BY <2>1, <2>2, <2>3 DEF MinDate
  <2>4. CASE i # 1
    <3>1. 1 < i
      BY <1>1, <2>4
    <3>2. Ascending(S)[1] < Ascending(S)[i]
      BY <1>2, <3>1, AscendingSorts
    <3> QED
      BY <2>1, <2>2, <3>2 DEF MinDate
  <2> QED
    BY <2>3, <2>4
<1> QED
  BY <1>3, <1>4

-----------------------------------------------------------------------------
(* Catch-ups.                                                                 *)

(* The parts of a catch-up's candidates after today and yesterday.            *)
WindowStart(today) == today - (RecentDays - 1)

RecentGaps(missing, today) == (WindowStart(today) .. today - 2) \ missing

OlderGaps(missing, watermark, today) ==
  IF watermark = NoDate THEN {} ELSE (watermark .. WindowStart(today) - 1) \ missing

LEMMA DateSubset ==
  ASSUME NEW S, DateSet(S), NEW T, T \subseteq S
  PROVE  DateSet(T)
BY DateSets

(* The candidates s are today, yesterday, R, G and O.                         *)
Composed(s, today, R, G, O) ==
  s = <<today, today - 1>> \o Ascending(R) \o Ascending(G) \o Ascending(O)

LEMMA CandidatesAre ==
  ASSUME NEW have, NEW watermark \in Int \cup {NoDate}, NEW failed, NEW left, NEW today \in Int,
         NEW t, DateSet(left), DateSet(DOMAIN failed)
  PROVE  \E R, G, O :
           /\ R = RecentGaps(have, today) /\ G = OlderGaps(have, watermark, today)
           /\ O \subseteq {d \in left \cup DOMAIN failed : d <= today}
           /\ DateSet(R) /\ DateSet(G) /\ DateSet(O)
           /\ Composed(Candidates(have, watermark, failed, left, today, t), today, R, G, O)
<1> DEFINE start == today - (RecentDays - 1)
           R == RecentGaps(have, today)
           G == OlderGaps(have, watermark, today)
           older == {d \in left \cup {f \in DOMAIN failed : failed[f] <= t} : d <= today}
           O == older \ ({today, today - 1} \cup R \cup G)
<1>1. RecentDays \in Nat /\ RecentDays >= 2 /\ NoDate \notin Int
  BY CalendarAssumption DEF CalendarAssumption
<1>2. WindowStart(today) \in Int /\ today - 2 \in Int
  BY <1>1 DEF WindowStart
<1>3. DateSet(R)
  <2>1. DateSet(WindowStart(today) .. today - 2)
    BY <1>2, DateSets
  <2> QED
    BY <2>1, DateSubset DEF RecentGaps
<1>4. DateSet(G)
  <2>1. CASE watermark = NoDate
    BY <2>1, DateSets DEF OlderGaps
  <2>2. CASE watermark # NoDate
    <3>1. watermark \in Int /\ WindowStart(today) - 1 \in Int
      BY <1>2, <2>2
    <3>2. DateSet(watermark .. WindowStart(today) - 1)
      BY <3>1, DateSets
    <3>3. DateSet((watermark .. WindowStart(today) - 1) \ have)
      BY <3>2, DateSubset
    <3> QED
      BY <2>2, <3>3 DEF OlderGaps
  <2> QED
    BY <2>1, <2>2
<1>5. O \subseteq {d \in left \cup DOMAIN failed : d <= today}
  OBVIOUS
<1>6. DateSet(O)
  <2>1. DateSet(left \cup DOMAIN failed)
    BY DateSets
  <2>2. O \subseteq left \cup DOMAIN failed
    BY <1>5
  <2> QED
    BY <2>1, <2>2, DateSets
<1>7. Composed(Candidates(have, watermark, failed, left, today, t), today, R, G, O)
  BY DEF Composed, Candidates, RecentGaps, OlderGaps, WindowStart
<1> HIDE DEF R, G, O
<1>8. R = RecentGaps(have, today) /\ G = OlderGaps(have, watermark, today)
  BY DEF R, G
<1> QED
  BY <1>3, <1>4, <1>5, <1>6, <1>7, <1>8

(* Two sequences, and four, one after the other.                             *)
LEMMA TwoParts ==
  ASSUME NEW p \in Seq(Int), NEW q \in Seq(Int)
  PROVE  /\ p \o q \in Seq(Int) /\ Len(p) \in Nat /\ Len(q) \in Nat
         /\ Len(p \o q) = Len(p) + Len(q)
         /\ \A i \in 1 .. Len(p) : (p \o q)[i] = p[i]
         /\ \A i \in 1 .. Len(q) : (p \o q)[Len(p) + i] = q[i]
<1> DEFINE s == p \o q  a == Len(p)  b == Len(q)
<1>1. a \in Nat /\ b \in Nat
  OBVIOUS
<1>2. /\ s \in Seq(Int) /\ Len(s) = a + b
      /\ \A i \in 1 .. a + b : s[i] = IF i <= a THEN p[i] ELSE q[i - a]
  BY ConcatProperties
<1> HIDE DEF s, a, b
<1>3. ASSUME NEW i \in 1 .. a PROVE s[i] = p[i]
  <2>1. i \in 1 .. a + b /\ i <= a
    BY <1>1
  <2> QED
    BY <1>2, <2>1
<1>4. ASSUME NEW i \in 1 .. b PROVE s[a + i] = q[i]
  <2> DEFINE k == a + i
  <2>1. k \in 1 .. a + b /\ ~(k <= a) /\ k - a = i
    BY <1>1
  <2> HIDE DEF k
  <2>2. s[k] = q[k - a]
    BY <1>2, <2>1
  <2> QED
    BY <2>1, <2>2 DEF k
<1> QED
  BY <1>1, <1>2, <1>3, <1>4 DEF s, a, b

Chain(s, A, R, G, O) ==
  /\ s \in Seq(Int)
  /\ Len(s) = Len(A) + Len(R) + Len(G) + Len(O)
  /\ \A i \in 1 .. Len(A) : s[i] = A[i]
  /\ \A i \in 1 .. Len(R) : s[Len(A) + i] = R[i]
  /\ \A i \in 1 .. Len(G) : s[Len(A) + Len(R) + i] = G[i]
  /\ \A i \in 1 .. Len(O) : s[Len(A) + Len(R) + Len(G) + i] = O[i]

LEMMA FourParts ==
  ASSUME NEW A \in Seq(Int), NEW R \in Seq(Int), NEW G \in Seq(Int), NEW O \in Seq(Int)
  PROVE  Chain(A \o R \o G \o O, A, R, G, O)
<1> DEFINE s == A \o R \o G \o O
           a == Len(A)  r == Len(R)  g == Len(G)  o == Len(O)
<1> DEFINE s1 == A \o R  s2 == s1 \o G
<1>1. /\ s1 \in Seq(Int) /\ a \in Nat /\ r \in Nat /\ Len(s1) = a + r
      /\ \A i \in 1 .. a : s1[i] = A[i]
      /\ \A i \in 1 .. r : s1[a + i] = R[i]
  BY TwoParts
<1> HIDE DEF a, r, g, o
<1>2. s = s2 \o O
  OBVIOUS
<1> HIDE DEF s1
<1>3. /\ s2 \in Seq(Int) /\ g \in Nat /\ Len(s2) = a + r + g
      /\ \A i \in 1 .. a + r : s2[i] = s1[i]
      /\ \A i \in 1 .. g : s2[a + r + i] = G[i]
  <2>1. /\ s1 \o G \in Seq(Int) /\ Len(s1) \in Nat /\ Len(G) \in Nat
        /\ Len(s1 \o G) = Len(s1) + Len(G)
        /\ \A i \in 1 .. Len(s1) : (s1 \o G)[i] = s1[i]
        /\ \A i \in 1 .. Len(G) : (s1 \o G)[Len(s1) + i] = G[i]
    BY <1>1, TwoParts
  <2> QED
    BY <1>1, <2>1 DEF g
<1> HIDE DEF s2, s
<1>4. /\ s \in Seq(Int) /\ o \in Nat /\ Len(s) = a + r + g + o
      /\ \A i \in 1 .. a + r + g : s[i] = s2[i]
      /\ \A i \in 1 .. o : s[a + r + g + i] = O[i]
  <2>1. /\ s2 \o O \in Seq(Int) /\ Len(s2) \in Nat /\ Len(O) \in Nat
        /\ Len(s2 \o O) = Len(s2) + Len(O)
        /\ \A i \in 1 .. Len(s2) : (s2 \o O)[i] = s2[i]
        /\ \A i \in 1 .. Len(O) : (s2 \o O)[Len(s2) + i] = O[i]
    BY <1>3, TwoParts
  <2> QED
    BY <1>2, <1>3, <2>1 DEF o
<1>5. a \in Nat /\ r \in Nat /\ g \in Nat
  BY <1>1, <1>3
<1>6. ASSUME NEW i \in 1 .. a PROVE s[i] = A[i]
  <2>1. i \in 1 .. a + r /\ i \in 1 .. a + r + g
    BY <1>5
  <2> QED
    BY <1>1, <1>3, <1>4, <2>1
<1>7. ASSUME NEW i \in 1 .. r PROVE s[a + i] = R[i]
  <2>1. a + i \in 1 .. a + r /\ a + i \in 1 .. a + r + g
    BY <1>5
  <2> QED
    BY <1>1, <1>3, <1>4, <2>1
<1>8. ASSUME NEW i \in 1 .. g PROVE s[a + r + i] = G[i]
  <2>1. a + r + i \in 1 .. a + r + g
    BY <1>5
  <2> QED
    BY <1>3, <1>4, <2>1
<1> QED
  BY <1>4, <1>5, <1>6, <1>7, <1>8 DEF Chain, s, a, r, g, o

(* A batch of dates, its first ones and its end.                              *)
Fits(candidates) == IF Len(candidates) < MaxCatchup THEN Len(candidates) ELSE MaxCatchup

LEMMA SelectionOf ==
  ASSUME NEW s \in Seq(Int), Len(s) >= 1
  PROVE  LET batch == SelectCatchup(s)
         IN  /\ Fits(s) \in Nat /\ 1 <= Fits(s) /\ Fits(s) <= Len(s) /\ Fits(s) <= MaxCatchup
             /\ batch.dates \in Seq(Int) /\ Len(batch.dates) = Fits(s)
             /\ ToDates(batch.dates) = {s[i] : i \in 1 .. Fits(s)}
             /\ DateSet(ToDates(batch.dates)) /\ ToDates(batch.dates) # {}
             /\ batch.nextCursor \in Int \cup {NoDate}
             /\ IF Len(s) > MaxCatchup THEN batch.nextCursor = s[MaxCatchup + 1]
                                       ELSE Fits(s) = Len(s) /\ batch.nextCursor = NoDate
<1> DEFINE m == Fits(s)  batch == SelectCatchup(s)  part == SubSeq(s, 1, m)
<1>1. MaxCatchup \in Nat /\ MaxCatchup >= 1 /\ Len(s) \in Nat
  BY CalendarAssumption DEF CalendarAssumption
<1>2. m \in Nat /\ 1 <= m /\ m <= Len(s) /\ m <= MaxCatchup
  BY <1>1 DEF Fits
<1>3. Len(s) <= MaxCatchup => m = Len(s)
  BY <1>1 DEF Fits
<1>4. batch.dates = part
      /\ batch.nextCursor = IF Len(s) > MaxCatchup THEN s[MaxCatchup + 1] ELSE NoDate
  BY DEF SelectCatchup, Fits
<1> HIDE DEF batch
<1>5. /\ part \in Seq(Int) /\ Len(part) = m
      /\ \A i \in 1 .. m : part[i] = s[i]
  <2>1. \A i \in 1 .. m : s[i] \in Int
    BY <1>1, <1>2
  <2>2. /\ part \in Seq(Int) /\ Len(part) = IF 1 <= m THEN m - 1 + 1 ELSE 0
        /\ \A i \in 1 .. m - 1 + 1 : part[i] = s[1 + i - 1]
    BY <1>2, <2>1, SubSeqProperties
  <2> QED
    BY <1>2, <2>2
<1> HIDE DEF m, part
<1>6. ToDates(part) = {s[i] : i \in 1 .. m}
  <2>1. DOMAIN part = 1 .. m
    BY <1>5
  <2> QED
    BY <1>5, <2>1 DEF ToDates
<1>7. DateSet({s[i] : i \in 1 .. m})
  <2> DEFINE T == {s[i] : i \in 1 .. m}  f == [i \in 1 .. m |-> s[i]]
  <2>1. f \in Surjection(1 .. m, T)
    BY DEF Surjection
  <2>2. IsFiniteSet(1 .. m)
    BY <1>2, FS_Interval
  <2>3. IsFiniteSet(T)
    BY <2>1, <2>2, FS_Surjection
  <2>4. T \subseteq Int
    BY <1>1, <1>2
  <2> QED
    BY <2>3, <2>4 DEF DateSet
<1>8. s[1] \in {s[i] : i \in 1 .. m}
  BY <1>2
<1>9. Len(s) > MaxCatchup => s[MaxCatchup + 1] \in Int
  BY <1>1
<1>10. /\ batch.dates \in Seq(Int) /\ Len(batch.dates) = m
       /\ ToDates(batch.dates) = {s[i] : i \in 1 .. m}
  BY <1>4, <1>5, <1>6
<1>11. batch.nextCursor \in Int \cup {NoDate}
  BY <1>4, <1>9
<1>12. IF Len(s) > MaxCatchup THEN batch.nextCursor = s[MaxCatchup + 1]
                              ELSE m = Len(s) /\ batch.nextCursor = NoDate
  BY <1>1, <1>3, <1>4
<1> QED
  BY <1>2, <1>7, <1>8, <1>10, <1>11, <1>12 DEF m, batch

(* What a catch-up asks for.  Its dates are today's or earlier; each one is   *)
(* of the recent window, a gap, or was asked for before; and if a batch is    *)
(* at least as long as the window, then every gap is asked for or lies        *)
(* behind the next cursor.                                                    *)
LEMMA BatchIs ==
  ASSUME NEW have, NEW watermark \in Int \cup {NoDate}, NEW failed, NEW left, NEW today \in Int,
         NEW t, DateSet(left), DateSet(DOMAIN failed),
         NEW batch, batch = SelectCatchup(Candidates(have, watermark, failed, left, today, t)),
         NEW gaps, gaps = OlderGaps(have, watermark, today)
  PROVE  /\ batch.dates \in Seq(Int) /\ Len(batch.dates) >= 1
         /\ DateSet(ToDates(batch.dates)) /\ ToDates(batch.dates) # {}
         /\ batch.nextCursor \in Int \cup {NoDate}
         /\ \A d \in ToDates(batch.dates) :
              /\ d <= today
              /\ d >= WindowStart(today) \/ d \in gaps \/ d \in left \cup DOMAIN failed
         /\ MaxCatchup >= RecentDays =>
              \A d \in gaps : d \in ToDates(batch.dates)
                              \/ (batch.nextCursor # NoDate /\ ~(d < batch.nextCursor))
<1>1. /\ RecentDays \in Nat /\ RecentDays >= 2 /\ MaxCatchup \in Nat /\ MaxCatchup >= 1
      /\ NoDate \notin Int
  BY CalendarAssumption DEF CalendarAssumption
<1>2. WindowStart(today) \in Int /\ WindowStart(today) = today - (RecentDays - 1)
  BY <1>1 DEF WindowStart
<1>3. PICK R, G, O :
        /\ R = RecentGaps(have, today) /\ G = OlderGaps(have, watermark, today)
        /\ O \subseteq {d \in left \cup DOMAIN failed : d <= today}
        /\ DateSet(R) /\ DateSet(G) /\ DateSet(O)
        /\ Composed(Candidates(have, watermark, failed, left, today, t), today, R, G, O)
  BY CandidatesAre
<1> DEFINE s == Candidates(have, watermark, failed, left, today, t)
           A == <<today, today - 1>>
           r == Cardinality(R)  g == Cardinality(G)  o == Cardinality(O)
<1>4. /\ Ascending(R) \in Seq(R) /\ Len(Ascending(R)) = r /\ r \in Nat
      /\ Ascending(G) \in Seq(G) /\ Len(Ascending(G)) = g /\ g \in Nat
      /\ Ascending(O) \in Seq(O) /\ Len(Ascending(O)) = o /\ o \in Nat
      /\ \A i, j \in 1 .. g : i < j => Ascending(G)[i] < Ascending(G)[j]
      /\ \A d \in G : \E i \in 1 .. g : Ascending(G)[i] = d
  BY <1>3, AscendingSorts
<1>5. A \in Seq(Int) /\ Len(A) = 2 /\ A[1] = today /\ A[2] = today - 1
  OBVIOUS
<1>6. Ascending(R) \in Seq(Int) /\ Ascending(G) \in Seq(Int) /\ Ascending(O) \in Seq(Int)
  BY <1>3, AscendingSorts
<1>7. s = A \o Ascending(R) \o Ascending(G) \o Ascending(O)
  BY <1>3 DEF Composed
<1> HIDE DEF s, A, r, g, o
<1>8. /\ s \in Seq(Int) /\ Len(s) = 2 + r + g + o
      /\ \A i \in 1 .. 2 : s[i] = A[i]
      /\ \A i \in 1 .. r : s[2 + i] = Ascending(R)[i]
      /\ \A i \in 1 .. g : s[2 + r + i] = Ascending(G)[i]
      /\ \A i \in 1 .. o : s[2 + r + g + i] = Ascending(O)[i]
  <2>1. Chain(s, A, Ascending(R), Ascending(G), Ascending(O))
    BY <1>5, <1>6, <1>7, FourParts
  <2> QED
    BY <1>4, <1>5, <2>1 DEF Chain
<1>9. /\ Fits(s) \in Nat /\ 1 <= Fits(s) /\ Fits(s) <= Len(s) /\ Fits(s) <= MaxCatchup
      /\ batch.dates \in Seq(Int) /\ Len(batch.dates) = Fits(s)
      /\ ToDates(batch.dates) = {s[i] : i \in 1 .. Fits(s)}
      /\ DateSet(ToDates(batch.dates)) /\ ToDates(batch.dates) # {}
      /\ batch.nextCursor \in Int \cup {NoDate}
      /\ IF Len(s) > MaxCatchup THEN batch.nextCursor = s[MaxCatchup + 1]
                                ELSE Fits(s) = Len(s) /\ batch.nextCursor = NoDate
  <2>1. Len(s) >= 1 /\ batch = SelectCatchup(s)
    BY <1>4, <1>8 DEF s
  <2> QED
    BY <1>8, <2>1, SelectionOf
(* Every candidate.                                                           *)
<1>10. ASSUME NEW i \in 1 .. Len(s)
       PROVE  /\ s[i] <= today
              /\ s[i] >= WindowStart(today) \/ s[i] \in gaps \/ s[i] \in left \cup DOMAIN failed
  <2>1. CASE i <= 2
    <3>1. i = 1 \/ i = 2
      BY <1>4, <1>8, <2>1
    <3>2. s[i] = A[i]
      BY <1>8, <3>1
    <3> QED
      BY <1>1, <1>2, <1>5, <3>1, <3>2
  <2>2. CASE i > 2 /\ i <= 2 + r
    <3>1. i - 2 \in 1 .. r /\ 2 + (i - 2) = i
      BY <1>4, <1>8, <2>2
    <3>2. s[2 + (i - 2)] = Ascending(R)[i - 2]
      BY <1>8, <3>1
    <3>3. s[i] \in R
      <4>1. Ascending(R)[i - 2] \in R
        BY <1>4, <3>1
      <4> QED
        BY <3>1, <3>2, <4>1
    <3> QED
      BY <1>2, <1>3, <3>3 DEF RecentGaps
  <2>3. CASE i > 2 + r /\ i <= 2 + r + g
    <3>1. i - 2 - r \in 1 .. g /\ 2 + r + (i - 2 - r) = i
      BY <1>4, <1>8, <2>3
    <3>2. s[2 + r + (i - 2 - r)] = Ascending(G)[i - 2 - r]
      BY <1>8, <3>1
    <3>3. s[i] \in G
      <4>1. Ascending(G)[i - 2 - r] \in G
        BY <1>4, <3>1
      <4> QED
        BY <3>1, <3>2, <4>1
    <3>4. s[i] <= WindowStart(today) - 1
      BY <1>2, <1>3, <3>3 DEF OlderGaps
    <3>5. s[i] \in Int
      BY <1>3, <3>3 DEF DateSet
    <3> QED
      BY <1>1, <1>2, <1>3, <3>3, <3>4, <3>5
  <2>4. CASE i > 2 + r + g
    <3>1. i - 2 - r - g \in 1 .. o /\ 2 + r + g + (i - 2 - r - g) = i
      <4>1. r \in Nat /\ g \in Nat /\ o \in Nat
        BY <1>4
      <4>2. i \in 1 .. 2 + r + g + o
        BY <1>8
      <4> QED
        BY <2>4, <4>1, <4>2
    <3>2. s[2 + r + g + (i - 2 - r - g)] = Ascending(O)[i - 2 - r - g]
      BY <1>8, <3>1
    <3>3. s[i] \in O
      <4>1. Ascending(O)[i - 2 - r - g] \in O
        BY <1>4, <3>1
      <4> QED
        BY <3>1, <3>2, <4>1
    <3> QED
      BY <1>3, <3>3
  <2> QED
    BY <1>4, <1>8, <2>1, <2>2, <2>3, <2>4
<1>11. ASSUME NEW d \in ToDates(batch.dates)
       PROVE  /\ d <= today
              /\ d >= WindowStart(today) \/ d \in gaps \/ d \in left \cup DOMAIN failed
  <2>1. PICK i \in 1 .. Fits(s) : d = s[i]
    BY <1>9
  <2>2. i \in 1 .. Len(s)
    BY <1>4, <1>8, <1>9
  <2> QED
    BY <1>10, <2>1, <2>2
(* The gaps.                                                                  *)
<1>12. ASSUME MaxCatchup >= RecentDays, NEW d \in gaps, d \notin ToDates(batch.dates)
       PROVE  batch.nextCursor # NoDate /\ ~(d < batch.nextCursor)
  <2>1. PICK j \in 1 .. g : Ascending(G)[j] = d
    BY <1>3, <1>4
  <2>2. 2 + r <= RecentDays
    <3>1. today - 2 \in Int /\ RecentGaps(have, today) \subseteq WindowStart(today) .. today - 2
      BY DEF RecentGaps
    <3>2. /\ IsFiniteSet(WindowStart(today) .. today - 2)
          /\ Cardinality(WindowStart(today) .. today - 2)
               = IF WindowStart(today) > today - 2 THEN 0 ELSE today - 2 - WindowStart(today) + 1
      BY <1>2, <3>1, FS_Interval
    <3>3. r <= Cardinality(WindowStart(today) .. today - 2)
      BY <1>3, <3>1, <3>2, FS_Subset DEF r
    <3> QED
      BY <1>1, <1>2, <1>4, <3>2, <3>3
  <2>3. s[2 + r + j] = d /\ 2 + r + j \in 1 .. Len(s)
    <3>1. r \in Nat /\ g \in Nat /\ o \in Nat
      BY <1>4
    <3>2. 2 + r + j \in 1 .. 2 + r + g + o
      BY <3>1
    <3>3. s[2 + r + j] = Ascending(G)[j]
      BY <1>8
    <3> QED
      BY <1>8, <2>1, <3>2, <3>3
  <2>4. ~(2 + r + j <= Fits(s))
    BY <1>4, <1>9, <1>12, <2>3
  <2>5. Len(s) > MaxCatchup
    BY <1>1, <1>4, <1>8, <1>9, <2>3, <2>4
  <2>6. MaxCatchup + 1 <= 2 + r + j
    BY <1>1, <1>4, <1>8, <2>3, <2>4, <2>5 DEF Fits
  <2> DEFINE i == MaxCatchup + 1 - 2 - r
  <2>7. i \in 1 .. g /\ i <= j /\ 2 + r + i = MaxCatchup + 1
    BY <1>1, <1>4, <1>12, <2>2, <2>6
  <2>8. batch.nextCursor = s[2 + r + i] /\ s[2 + r + i] = Ascending(G)[i]
    BY <1>8, <1>9, <2>5, <2>7
  <2> HIDE DEF i
  <2>9. Ascending(G)[i] \in Int /\ d \in Int
    BY <1>3, <1>4, <1>6, <2>1, <2>7
  <2>10. Ascending(G)[i] <= d
    <3>1. CASE i = j
      BY <2>1, <2>9, <3>1
    <3>2. CASE i < j
      BY <1>4, <2>1, <2>7, <2>9, <3>2
    <3> QED
      BY <1>4, <2>7, <3>1, <3>2
  <2> QED
    BY <1>1, <2>8, <2>9, <2>10
<1> QED
  BY <1>9, <1>11, <1>12

-----------------------------------------------------------------------------
(* The schedule.                                                              *)

ThisDay == ZonedDay(clock, zone)

(* The dates of every run.                                                    *)
Asked == UNION {run[i].dates : i \in DOMAIN run}

Keys == Intents \X Seq(Int)
RowType == [intent : Intents, key : Keys, dates : SUBSET Int, slot : Int \X Int, open : BOOLEAN]
RequestType == [intent : Intents \cup {"none"}, key : Keys \cup {<<>>}, dates : SUBSET Int,
                next : Int \cup {NoDate}]
TickType == [phase : Intents \cup {"idle"}, stage : {"enqueue", "store"}, req : RequestType,
             atStart : BOOLEAN]

ScheduleTypes ==
  /\ clock \in Nat /\ zone \in Zones
  /\ lastSlot \in [Cadences -> (Int \X Int) \cup {NoSlot}]
  /\ cursor \in Int \cup {NoDate} /\ seeded \in BOOLEAN
  /\ run \in Seq(RowType)
  /\ up \in BOOLEAN /\ timer \in BOOLEAN
  /\ tick \in TickType

(* The period of a cadence's run and its dates, by the day it was enqueued.   *)
PeriodOf(r) ==
  CASE r.intent = "recent"    -> r.slot
    [] r.intent = "reconcile" -> <<r.slot[1], 0>>
    [] r.intent = "compare"   -> <<MondayOf(r.slot[1]), 0>>

DatesOn(intent, day) ==
  CASE intent = "recent"    -> day - 1 .. day
    [] intent = "reconcile" -> day - ReconcileDays .. day - 1
    [] intent = "compare"   -> day - CompareDays .. day - 1

(* Dates that a run may ask for on a day.                                     *)
Askable(dates, day) == DateSet(dates) /\ dates # {} /\ \A d \in dates : d <= day

RowOK(r) ==
  /\ r.key[1] = r.intent
  /\ Askable(r.dates, r.slot[1])
  /\ r.intent \in Cadences =>
       r.key = <<r.intent, PeriodOf(r)>> /\ r.dates = DatesOn(r.intent, r.slot[1])
  /\ r.intent = "compare" => DayOfWeek(r.slot[1]) = 1

RowsOK == \A i \in DOMAIN run : RowOK(run[i])

KeysAreUnique == \A i, j \in DOMAIN run : i # j => run[i].key # run[j].key

(* A request that is made today.                                              *)
RequestOK(phase, req) ==
  /\ req.intent = phase /\ req.key \in Keys /\ req.key[1] = phase
  /\ Askable(req.dates, ThisDay)
  /\ phase \in Cadences => req.key = SlotKey(phase) /\ req.dates = DatesOn(phase, ThisDay)
  /\ phase = "compare" => DayOfWeek(ThisDay) = 1

TickOK ==
  tick.phase # "idle" =>
    /\ RequestOK(tick.phase, tick.req)
    /\ tick.stage = "store" =>
         \E i \in DOMAIN run : run[i].key = tick.req.key /\ run[i].dates = tick.req.dates

DataOK ==
  /\ DateSet(archive) /\ DateSet(unfinished) /\ DateSet(failedRows) /\ DateSet(DOMAIN deferred)
  /\ unfinished \cup failedRows \cup DOMAIN deferred \subseteq Asked

ScheduleInv == ScheduleTypes /\ RowsOK /\ KeysAreUnique /\ TickOK /\ DataOK /\ SlotHasRun

(* The missing dates before the recent window, and a request that passes none *)
(* of them without asking for it.                                             *)
GapsNow == OlderGaps(archive, Watermark, ThisDay)

Covers(req, gaps) ==
  \A d \in gaps : d \in req.dates \/ (req.next # NoDate /\ ~(d < req.next))

BatchOK ==
  tick.phase = "catchup" =>
    /\ Covers(tick.req, GapsNow)
    /\ \A d \in tick.req.dates : d >= WindowStart(ThisDay) \/ d \in GapsNow \/ d \in Asked

LEMMA Numbers ==
  /\ \A a, b \in Int : <<a, b>> \in Int \X Int /\ <<a, b>> \in Seq(Int)
  /\ \A a, b, c \in Int : <<a, b, c>> \in Seq(Int)
OBVIOUS

LEMMA ScheduleConstants ==
  /\ \A z \in Zones : z \in Nat
  /\ FirstInstant \in Nat
  /\ RecentDays \in Nat /\ RecentDays >= 2
  /\ ReconcileDays \in Nat /\ ReconcileDays >= 1 /\ CompareDays \in Nat /\ CompareDays >= 1
  /\ NoDate \notin Int
  /\ \A A \in Archives : DateSet(A)
BY CalendarAssumption, SchedulerAssumption DEF CalendarAssumption, SchedulerAssumption, DateSet

LEMMA TodayIs ==
  ASSUME ScheduleTypes
  PROVE  clock \in Int /\ zone \in Int /\ ThisDay \in Int /\ ZonedHour(clock, zone) \in Int
<1>1. clock \in Int /\ zone \in Int
  BY ScheduleConstants DEF ScheduleTypes
<1> QED
  BY <1>1, Moment DEF ThisDay

(* The runs' dates are finitely many.                                         *)
LEMMA AskedIs ==
  ASSUME run \in Seq(RowType), RowsOK
  PROVE  DateSet(Asked)
<1> DEFINE n == Len(run)  D == {run[i].dates : i \in DOMAIN run}
           f == [i \in 1 .. n |-> run[i].dates]
<1>1. n \in Nat /\ DOMAIN run = 1 .. n
  OBVIOUS
<1>2. f \in Surjection(1 .. n, D)
  BY <1>1 DEF Surjection
<1>3. IsFiniteSet(1 .. n)
  BY <1>1, FS_Interval
<1>4. IsFiniteSet(D)
  BY <1>2, <1>3, FS_Surjection
<1>5. \A T \in D : IsFiniteSet(T) /\ T \subseteq Int
  BY DEF RowsOK, RowOK, Askable, DateSet
<1>6. IsFiniteSet(UNION D)
  BY <1>4, <1>5, FS_UNION
<1> QED
  BY <1>5, <1>6 DEF DateSet, Asked

(* Where the search for gaps begins.                                          *)
WatermarkOK ==
  /\ Watermark \in Int \cup {NoDate}
  /\ DateSet(archive \cup Asked)
  /\ Watermark = IF cursor # NoDate THEN cursor
                 ELSE IF archive \cup Asked = {} THEN NoDate ELSE MinDate(archive \cup Asked)

LEMMA WatermarkIs == ScheduleTypes /\ RowsOK /\ DataOK => WatermarkOK
<1> SUFFICES ASSUME ScheduleTypes, RowsOK, DataOK PROVE WatermarkOK
  OBVIOUS
<1>1. DateSet(archive \cup Asked)
  BY AskedIs, DateSets DEF ScheduleTypes, DataOK
<1>2. Watermark = IF cursor # NoDate THEN cursor
                  ELSE IF archive \cup Asked = {} THEN NoDate ELSE MinDate(archive \cup Asked)
  BY DEF Watermark, Asked
<1>3. archive \cup Asked # {} => MinDate(archive \cup Asked) \in Int
  BY <1>1, MinDateIs DEF DateSet
<1> QED
  BY <1>1, <1>2, <1>3 DEF ScheduleTypes, WatermarkOK

(* The requests.                                                              *)
LEMMA SeedIs ==
  ASSUME ScheduleTypes
  PROVE  SeedRequest \in RequestType /\ RequestOK("seed", SeedRequest)
<1>1. ThisDay \in Int
  BY TodayIs
<1> DEFINE name == <<ThisDay>>
<1>2. SeedKey = <<"seed", name>>
  BY DEF SeedKey, ThisDay
<1>3. SeedKey \in Keys /\ SeedKey[1] = "seed"
  <2>1. name \in Seq(Int)
    BY <1>1
  <2> HIDE DEF name
  <2> QED
    BY <1>2, <2>1 DEF Keys, Intents
<1>4. SeedDates(clock, zone) = ThisDay - (RecentDays - 1) .. ThisDay
  BY DEF SeedDates, ThisDay
<1>5. ThisDay - (RecentDays - 1) \in Int /\ ThisDay - (RecentDays - 1) <= ThisDay
  BY <1>1, ScheduleConstants
<1>6. Askable(SeedDates(clock, zone), ThisDay)
  <2>1. DateSet(SeedDates(clock, zone))
    BY <1>1, <1>4, <1>5, DateSets
  <2>2. ThisDay \in SeedDates(clock, zone)
    BY <1>1, <1>4, <1>5
  <2>3. \A d \in SeedDates(clock, zone) : d <= ThisDay
    BY <1>1, <1>4, <1>5
  <2> QED
    BY <2>1, <2>2, <2>3 DEF Askable
<1>7. SeedDates(clock, zone) \in SUBSET Int
  BY <1>6 DEF Askable, DateSet
<1> QED
  BY <1>3, <1>6, <1>7 DEF SeedRequest, RequestType, RequestOK, Intents, Cadences

LEMMA SlotIs ==
  ASSUME ScheduleTypes, NEW c \in Cadences
  PROVE  /\ Slot(c, clock, zone) \in Int \X Int /\ Slot(c, clock, zone) \in Seq(Int)
         /\ Slot("recent", clock, zone) = <<ThisDay, ZonedHour(clock, zone)>>
         /\ Slot("reconcile", clock, zone) = <<ThisDay, 0>>
         /\ Slot("compare", clock, zone) = <<MondayOf(ThisDay), 0>>
<1>1. ThisDay \in Int /\ ZonedHour(clock, zone) \in Int /\ MondayOf(ThisDay) \in Int
  <2>1. ThisDay \in Int /\ ZonedHour(clock, zone) \in Int
    BY TodayIs
  <2>2. DaysPerWeek \in Nat /\ DayOfWeek(ThisDay) \in Int
    BY <2>1, WeekDays
  <2> QED
    BY <2>1, <2>2 DEF MondayOf
<1>2. /\ Slot("recent", clock, zone) = <<ThisDay, ZonedHour(clock, zone)>>
      /\ Slot("reconcile", clock, zone) = <<ThisDay, 0>>
      /\ Slot("compare", clock, zone) = <<MondayOf(ThisDay), 0>>
  BY DEF Slot, ThisDay
<1>3. \E a, b \in Int : Slot(c, clock, zone) = <<a, b>>
  BY <1>1, <1>2 DEF Cadences
<1>4. \A a, b \in Int : <<a, b>> \in Int \X Int /\ <<a, b>> \in Seq(Int)
  BY Numbers
<1>5. Slot(c, clock, zone) \in Int \X Int /\ Slot(c, clock, zone) \in Seq(Int)
  BY <1>3, <1>4
<1> QED
  BY <1>2, <1>5

LEMMA IntentDatesAre ==
  ASSUME NEW c \in Cadences
  PROVE  IntentDates(c, clock, zone) = DatesOn(c, ThisDay)
BY DEF IntentDates, DatesOn, ThisDay, Cadences

LEMMA DatesOnAreAskable ==
  ASSUME NEW c \in Cadences, NEW day \in Int
  PROVE  Askable(DatesOn(c, day), day)
<1> DEFINE a == CASE c = "recent" -> day - 1
                  [] c = "reconcile" -> day - ReconcileDays
                  [] c = "compare" -> day - CompareDays
           b == IF c = "recent" THEN day ELSE day - 1
<1>1. DatesOn(c, day) = a .. b
  BY DEF DatesOn, Cadences
<1>2. a \in Int /\ b \in Int /\ a <= b /\ b <= day
  BY ScheduleConstants DEF Cadences
<1> HIDE DEF a, b
<1>3. DateSet(a .. b) /\ a \in a .. b /\ \A d \in a .. b : d <= day
  BY <1>2, DateSets
<1> QED
  BY <1>1, <1>3 DEF Askable

LEMMA CadenceIs ==
  ASSUME ScheduleTypes, NEW c \in Cadences, NEW last, IsCadenceDue(c, last, clock, zone)
  PROVE  Request(c) \in RequestType /\ RequestOK(c, Request(c))
<1> DEFINE req == Request(c)
<1>1. req = [intent |-> c, key |-> SlotKey(c), dates |-> IntentDates(c, clock, zone),
             next |-> NoDate]
  BY DEF Request, Cadences
<1>2. SlotKey(c) \in Keys /\ SlotKey(c)[1] = c
  BY SlotIs DEF SlotKey, Keys, Intents
<1>3. IntentDates(c, clock, zone) = DatesOn(c, ThisDay) /\ Askable(DatesOn(c, ThisDay), ThisDay)
  BY IntentDatesAre, DatesOnAreAskable, TodayIs
<1>4. c = "compare" => DayOfWeek(ThisDay) = 1
  BY DEF IsCadenceDue, ThisDay
<1>5. DatesOn(c, ThisDay) \in SUBSET Int
  BY <1>3 DEF Askable, DateSet
<1>6. req \in RequestType
  BY <1>1, <1>2, <1>3, <1>5 DEF RequestType, Intents
<1> QED
  BY <1>1, <1>2, <1>3, <1>4, <1>6 DEF RequestOK

LEMMA CatchupIs ==
  ASSUME ScheduleTypes, RowsOK, DataOK
  PROVE  LET req == Request("catchup")
         IN  /\ req \in RequestType /\ RequestOK("catchup", req)
             /\ MaxCatchup >= RecentDays => Covers(req, GapsNow)
             /\ \A d \in req.dates : d >= WindowStart(ThisDay) \/ d \in GapsNow \/ d \in Asked
<1> DEFINE batch == Selection  req == Request("catchup")
<1>1. ThisDay \in Int
  BY TodayIs
<1>2. Watermark \in Int \cup {NoDate}
  BY WatermarkIs DEF WatermarkOK
<1>3. PendingDates \subseteq Asked
  BY DEF PendingDates, Queued, Asked
<1>4. DateSet(Asked)
  BY AskedIs DEF ScheduleTypes
<1>5. DateSet(Unfinished) /\ Unfinished \subseteq Asked
  <2>1. Unfinished \subseteq Asked
    BY <1>3 DEF Unfinished, DataOK
  <2> QED
    BY <1>4, <2>1, DateSubset
<1>6. DOMAIN FailedDates = failedRows \cup DOMAIN deferred
  BY DEF FailedDates
<1>7. DateSet(DOMAIN FailedDates) /\ DOMAIN FailedDates \subseteq Asked
  <2>1. DOMAIN FailedDates \subseteq Asked
    BY <1>6 DEF DataOK
  <2> QED
    BY <1>4, <2>1, DateSubset
<1>8. batch = SelectCatchup(Candidates(archive, Watermark, FailedDates, Unfinished, ThisDay, clock))
  BY DEF Selection, ThisDay
<1>9. /\ batch.dates \in Seq(Int) /\ Len(batch.dates) >= 1
      /\ DateSet(ToDates(batch.dates)) /\ ToDates(batch.dates) # {}
      /\ batch.nextCursor \in Int \cup {NoDate}
      /\ \A d \in ToDates(batch.dates) :
           /\ d <= ThisDay
           /\ d >= WindowStart(ThisDay) \/ d \in GapsNow \/ d \in Unfinished \cup DOMAIN FailedDates
      /\ MaxCatchup >= RecentDays =>
           \A d \in GapsNow : d \in ToDates(batch.dates)
                              \/ (batch.nextCursor # NoDate /\ ~(d < batch.nextCursor))
  <2> HIDE DEF batch
  <2>1. GapsNow = OlderGaps(archive, Watermark, ThisDay)
    BY DEF GapsNow
  <2> QED
    BY <1>1, <1>2, <1>5, <1>7, <1>8, <2>1, BatchIs
<1>10. req = [intent |-> "catchup", key |-> CatchupKey(batch.dates), dates |-> ToDates(batch.dates),
              next |-> batch.nextCursor]
  BY DEF Request, CatchupRequest, Cadences
<1> HIDE DEF batch, req
<1>11. CatchupKey(batch.dates) \in Keys /\ CatchupKey(batch.dates)[1] = "catchup"
  <2> DEFINE name == <<ThisDay, batch.dates[1], Len(batch.dates)>>
  <2>1. batch.dates[1] \in Int /\ Len(batch.dates) \in Int
    BY <1>9
  <2>2. CatchupKey(batch.dates) = <<"catchup", name>>
    BY DEF CatchupKey, ThisDay
  <2>3. name \in Seq(Int)
    BY <1>1, <2>1, Numbers
  <2> HIDE DEF name
  <2> QED
    BY <2>2, <2>3 DEF Keys, Intents
<1>12. ToDates(batch.dates) \in SUBSET Int
  BY <1>9 DEF DateSet
<1>13. req \in RequestType
  BY <1>9, <1>10, <1>11, <1>12 DEF RequestType, Intents
<1>14. RequestOK("catchup", req)
  BY <1>9, <1>10, <1>11 DEF RequestOK, Askable, Cadences
<1>15. MaxCatchup >= RecentDays => Covers(req, GapsNow)
  BY <1>9, <1>10 DEF Covers
<1>16. \A d \in req.dates : d >= WindowStart(ThisDay) \/ d \in GapsNow \/ d \in Asked
  BY <1>5, <1>7, <1>9, <1>10
<1> QED
  BY <1>13, <1>14, <1>15, <1>16 DEF req

LEMMA PhaseNames ==
  /\ Len(Phases) = 5
  /\ \A i \in 1 .. 5 : Phases[i] \in Intents /\ (Phases[i] = "catchup" => i = 2)
  /\ \A p \in Intents : PhaseIndex(p) \in 1 .. 5 /\ (p = "catchup" => PhaseIndex(p) = 2)
<1>1. /\ DOMAIN Phases = 1 .. 5 /\ Len(Phases) = 5
      /\ Phases[1] = "seed" /\ Phases[2] = "catchup" /\ Phases[3] = "recent"
      /\ Phases[4] = "reconcile" /\ Phases[5] = "compare"
  BY DEF Phases
<1>2. \A i \in 1 .. 5 : i = 1 \/ i = 2 \/ i = 3 \/ i = 4 \/ i = 5
  OBVIOUS
<1>3. \A i \in 1 .. 5 : Phases[i] \in Intents /\ (Phases[i] = "catchup" => i = 2)
  BY <1>1, <1>2 DEF Intents, Cadences
<1>4. ASSUME NEW p \in Intents
      PROVE  PhaseIndex(p) \in 1 .. 5 /\ (p = "catchup" => PhaseIndex(p) = 2)
  <2>1. \E i \in 1 .. 5 : Phases[i] = p
    <3>1. p = "seed" \/ p = "catchup" \/ p = "recent" \/ p = "reconcile" \/ p = "compare"
      BY DEF Intents, Cadences
    <3>2. 1 \in 1 .. 5 /\ 2 \in 1 .. 5 /\ 3 \in 1 .. 5 /\ 4 \in 1 .. 5 /\ 5 \in 1 .. 5
      OBVIOUS
    <3> QED
      BY <1>1, <3>1, <3>2
  <2>2. PhaseIndex(p) \in 1 .. 5 /\ Phases[PhaseIndex(p)] = p
    BY <1>1, <2>1 DEF PhaseIndex
  <2> QED
    BY <1>3, <2>2
<1> QED
  BY <1>1, <1>3, <1>4

(* An evaluation that goes on makes a sound request, and a catch-up only      *)
(* after the seed.                                                            *)
LEMMA GoOnOK ==
  ASSUME ScheduleTypes, RowsOK, DataOK, NEW n \in Nat, NEW atStart \in BOOLEAN, GoOn(n, atStart)
  PROVE  /\ tick' \in TickType /\ timer' \in BOOLEAN
         /\ tick'.phase # "idle" => RequestOK(tick'.phase, tick'.req) /\ tick'.stage = "enqueue"
         /\ tick'.phase = "catchup" => n < 2 /\ tick'.req = Request("catchup")
<1>1. CASE Left(n, atStart) = {}
  <2>1. tick' = Idle /\ timer' = TRUE
    BY <1>1 DEF GoOn
  <2>2. NoRequest \in RequestType
    BY DEF NoRequest, RequestType
  <2>3. Idle \in TickType /\ Idle.phase = "idle"
    BY <2>2 DEF Idle, TickType
  <2> QED
    BY <2>1, <2>3
<1>2. CASE Left(n, atStart) # {}
  <2> DEFINE i == MinDate(Left(n, atStart))  phase == Phases[i]
  <2>1. tick' = [phase |-> phase, stage |-> "enqueue", req |-> Request(phase), atStart |-> atStart]
        /\ timer' = timer
    BY <1>2 DEF GoOn
  <2>2. Left(n, atStart) \subseteq n + 1 .. 5
    BY PhaseNames DEF Left
  <2>3. DateSet(Left(n, atStart))
    <3>1. n + 1 \in Int /\ 5 \in Int
      OBVIOUS
    <3>2. DateSet(n + 1 .. 5)
      BY <3>1, DateSets
    <3> QED
      BY <2>2, <3>2, DateSubset
  <2>4. i \in Left(n, atStart)
    BY <1>2, <2>3, MinDateIs
  <2> HIDE DEF i
  <2>5. i \in 1 .. 5 /\ n < i /\ Wanted(phase, atStart)
    BY <2>2, <2>4 DEF Left
  <2>6. phase \in Intents /\ (phase = "catchup" => i = 2)
    BY <2>5, PhaseNames
  <2> HIDE DEF phase
  <2>7. Request(phase) \in RequestType /\ RequestOK(phase, Request(phase))
    <3>1. CASE phase = "seed"
      <4>1. Request(phase) = SeedRequest
        BY <3>1 DEF Request, Cadences
      <4> QED
        BY <3>1, <4>1, SeedIs
    <3>2. CASE phase = "catchup"
      BY <3>2, CatchupIs
    <3>3. CASE phase \in Cadences
      <4>1. IsCadenceDue(phase, lastSlot[phase], clock, zone)
        BY <2>5, <3>3 DEF Wanted, Cadences
      <4> QED
        BY <3>3, <4>1, CadenceIs
    <3> QED
      BY <2>6, <3>1, <3>2, <3>3 DEF Intents
  <2>8. tick' \in TickType
    BY <2>1, <2>6, <2>7 DEF TickType
  <2>9. timer' \in BOOLEAN
    BY <2>1 DEF ScheduleTypes
  <2> QED
    BY <2>1, <2>5, <2>6, <2>7, <2>8, <2>9
<1> QED
  BY <1>1, <1>2

-----------------------------------------------------------------------------
(* The steps.                                                                 *)

LEMMA PeriodIs == \A i : Period(i) = PeriodOf(run[i])
BY DEF Period, PeriodOf

(* A request is as sound after a step that moves neither clock nor zone.      *)
LEMMA RequestStays ==
  ASSUME clock' = clock, zone' = zone, RequestOK(tick'.phase, tick'.req)
  PROVE  RequestOK(tick.phase, tick.req)'
<1>1. ThisDay' = ThisDay
  BY DEF ThisDay
<1>2. SlotKey(tick.phase)' = SlotKey(tick'.phase)
  BY DEF SlotKey
<1> QED
  BY <1>1, <1>2 DEF RequestOK

(* The runs keep what the scheduler knows of them.                            *)
RunsStay ==
  \A i \in DOMAIN run :
    /\ i \in DOMAIN run'
    /\ run'[i].intent = run[i].intent /\ run'[i].key = run[i].key
    /\ run'[i].dates = run[i].dates /\ run'[i].slot = run[i].slot

LEMMA SlotsStay ==
  ASSUME SlotHasRun, RunsStay, lastSlot' = lastSlot
  PROVE  SlotHasRun'
<1>1. \A i \in DOMAIN run : Period(i)' = Period(i)
  BY DEF RunsStay, Period
<1> QED
  BY <1>1 DEF SlotHasRun, RunsStay

LEMMA AskedStays ==
  ASSUME RunsStay
  PROVE  Asked \subseteq Asked'
BY DEF RunsStay, Asked

(* A step of the evaluation that leaves the runs and the data as they are.    *)
LEMMA EvaluationStep ==
  ASSUME ScheduleInv, clock' = clock, zone' = zone, data' = data,
         NEW n \in Nat, NEW atStart \in BOOLEAN, GoOn(n, atStart),
         lastSlot' \in [Cadences -> (Int \X Int) \cup {NoSlot}],
         cursor' \in Int \cup {NoDate}, seeded' \in BOOLEAN, up' \in BOOLEAN, SlotHasRun'
  PROVE  ScheduleInv'
<1>1. /\ run' = run /\ archive' = archive /\ unfinished' = unfinished
      /\ failedRows' = failedRows /\ deferred' = deferred
  BY DEF data
<1>2. /\ tick' \in TickType /\ timer' \in BOOLEAN
      /\ tick'.phase # "idle" => RequestOK(tick'.phase, tick'.req) /\ tick'.stage = "enqueue"
  BY GoOnOK DEF ScheduleInv
<1>3. ScheduleTypes'
  BY <1>1, <1>2 DEF ScheduleInv, ScheduleTypes
<1>4. RowsOK' /\ KeysAreUnique'
  BY <1>1 DEF ScheduleInv, RowsOK, KeysAreUnique
<1>5. DataOK'
  BY <1>1 DEF ScheduleInv, DataOK, Asked
<1>6. TickOK'
  BY <1>2, RequestStays DEF TickOK
<1> QED
  BY <1>3, <1>4, <1>5, <1>6 DEF ScheduleInv

(* A step that ends with no evaluation under way and leaves the schedule.     *)
LEMMA OutsideStep ==
  ASSUME ScheduleInv, UNCHANGED <<run, archive, unfinished, failedRows, deferred, settings>>,
         clock' \in Nat, zone' \in Zones, up' \in BOOLEAN, timer' \in BOOLEAN,
         tick' \in TickType, tick'.phase = "idle"
  PROVE  ScheduleInv'
<1>1. ScheduleTypes'
  BY DEF ScheduleInv, ScheduleTypes, settings
<1>2. RowsOK' /\ KeysAreUnique'
  BY DEF ScheduleInv, RowsOK, KeysAreUnique
<1>3. DataOK'
  BY DEF ScheduleInv, DataOK, Asked
<1>4. TickOK'
  BY DEF TickOK
<1>5. SlotHasRun'
  <2>1. RunsStay /\ lastSlot' = lastSlot
    BY DEF RunsStay, settings
  <2> QED
    BY <2>1, SlotsStay DEF ScheduleInv
<1> QED
  BY <1>1, <1>2, <1>3, <1>4, <1>5 DEF ScheduleInv

LEMMA IdleIsTick == Idle \in TickType /\ Idle.phase = "idle"
<1>1. NoRequest \in RequestType
  BY DEF NoRequest, RequestType
<1> QED
  BY <1>1 DEF Idle, TickType

LEMMA ScheduleInitOK == ScheduleInit => ScheduleInv
<1> SUFFICES ASSUME ScheduleInit PROVE ScheduleInv
  OBVIOUS
<1>1. ScheduleTypes
  <2>1. lastSlot \in [Cadences -> (Int \X Int) \cup {NoSlot}]
    BY DEF ScheduleInit
  <2>2. clock \in Nat /\ zone \in Zones /\ cursor \in Int \cup {NoDate} /\ seeded \in BOOLEAN
        /\ up \in BOOLEAN /\ timer \in BOOLEAN
    BY ScheduleConstants DEF ScheduleInit
  <2>3. tick \in TickType
    BY IdleIsTick DEF ScheduleInit
  <2>4. run \in Seq(RowType)
    BY DEF ScheduleInit
  <2> QED
    BY <2>1, <2>2, <2>3, <2>4 DEF ScheduleTypes
<1>2. DOMAIN run = {} /\ Asked = {}
  BY DEF ScheduleInit, Asked
<1>3. RowsOK /\ KeysAreUnique
  BY <1>2 DEF RowsOK, KeysAreUnique
<1>4. TickOK
  BY IdleIsTick DEF ScheduleInit, TickOK
<1>5. DataOK
  <2>1. DateSet({}) /\ DateSet(archive)
    BY DateSets, ScheduleConstants DEF ScheduleInit
  <2>2. DOMAIN deferred = {} /\ unfinished = {} /\ failedRows = {}
    BY DEF ScheduleInit
  <2> QED
    BY <2>1, <2>2 DEF DataOK
<1>6. SlotHasRun
  BY DEF ScheduleInit, SlotHasRun
<1> QED
  BY <1>1, <1>3, <1>4, <1>5, <1>6 DEF ScheduleInv

LEMMA BootOK == ScheduleInv /\ Boot => ScheduleInv'
<1> SUFFICES ASSUME ScheduleInv, Boot PROVE ScheduleInv'
  OBVIOUS
<1>1. /\ clock' = clock /\ zone' = zone /\ data' = data /\ lastSlot' = lastSlot
      /\ cursor' = cursor /\ seeded' = seeded /\ up' = TRUE
  BY DEF Boot, settings
<1>2. SlotHasRun'
  <2>1. RunsStay
    BY <1>1 DEF RunsStay, data
  <2> QED
    BY <1>1, <2>1, SlotsStay DEF ScheduleInv
<1>3. /\ lastSlot' \in [Cadences -> (Int \X Int) \cup {NoSlot}]
      /\ cursor' \in Int \cup {NoDate} /\ seeded' \in BOOLEAN /\ up' \in BOOLEAN
  BY <1>1 DEF ScheduleInv, ScheduleTypes
<1>4. CASE ~Paused
  <2>1. GoOn(0, TRUE)
    BY <1>4 DEF Boot
  <2> QED
    BY <1>1, <1>2, <1>3, <2>1, EvaluationStep
<1>5. CASE Paused
  <2>1. tick' = tick /\ timer' \in BOOLEAN
    BY <1>5 DEF Boot
  <2>2. /\ run' = run /\ archive' = archive /\ unfinished' = unfinished
        /\ failedRows' = failedRows /\ deferred' = deferred
    BY <1>1 DEF data
  <2>3. ScheduleTypes'
    BY <1>1, <1>3, <2>1, <2>2 DEF ScheduleInv, ScheduleTypes
  <2>4. RowsOK' /\ KeysAreUnique' /\ DataOK'
    BY <2>2 DEF ScheduleInv, RowsOK, KeysAreUnique, DataOK, Asked
  <2>5. TickOK'
    <3>1. tick.phase # "idle" => RequestOK(tick.phase, tick.req)'
      BY <1>1, <2>1, RequestStays DEF ScheduleInv, TickOK
    <3> QED
      BY <2>1, <2>2, <3>1 DEF ScheduleInv, TickOK
  <2> QED
    BY <1>2, <2>3, <2>4, <2>5 DEF ScheduleInv
<1> QED
  BY <1>4, <1>5

LEMMA TimerTickOK == ScheduleInv /\ TimerTick => ScheduleInv'
<1> SUFFICES ASSUME ScheduleInv, TimerTick PROVE ScheduleInv'
  OBVIOUS
<1>1. /\ clock' = clock /\ zone' = zone /\ data' = data /\ lastSlot' = lastSlot
      /\ cursor' = cursor /\ seeded' = seeded /\ up' = up /\ GoOn(0, FALSE)
  BY DEF TimerTick, settings
<1>2. RunsStay
  BY <1>1 DEF RunsStay, data
<1>3. SlotHasRun'
  BY <1>1, <1>2, SlotsStay DEF ScheduleInv
<1> QED
  BY <1>1, <1>3, EvaluationStep DEF ScheduleInv, ScheduleTypes

LEMMA EnqueueRefusedOK == ScheduleInv /\ EnqueueRefused => ScheduleInv'
<1> SUFFICES ASSUME ScheduleInv, EnqueueRefused PROVE ScheduleInv'
  OBVIOUS
<1>1. /\ clock' = clock /\ zone' = zone /\ data' = data /\ lastSlot' = lastSlot
      /\ cursor' = cursor /\ seeded' = seeded /\ up' = up
      /\ GoOn(PhaseIndex(tick.phase), tick.atStart)
  BY DEF EnqueueRefused, settings
<1>2. PhaseIndex(tick.phase) \in Nat /\ tick.atStart \in BOOLEAN
  BY PhaseNames DEF EnqueueRefused, Evaluating, ScheduleInv, ScheduleTypes, TickType
<1>3. RunsStay
  BY <1>1 DEF RunsStay, data
<1>4. SlotHasRun'
  BY <1>1, <1>3, SlotsStay DEF ScheduleInv
<1> QED
  BY <1>1, <1>2, <1>4, EvaluationStep DEF ScheduleInv, ScheduleTypes

LEMMA StoreFailsOK == ScheduleInv /\ StoreFails => ScheduleInv'
<1> SUFFICES ASSUME ScheduleInv, StoreFails PROVE ScheduleInv'
  OBVIOUS
<1>1. /\ clock' = clock /\ zone' = zone /\ data' = data /\ lastSlot' = lastSlot
      /\ cursor' = cursor /\ seeded' = seeded /\ up' = up
      /\ GoOn(PhaseIndex(tick.phase), tick.atStart)
  BY DEF StoreFails, settings
<1>2. PhaseIndex(tick.phase) \in Nat /\ tick.atStart \in BOOLEAN
  BY PhaseNames DEF StoreFails, Evaluating, ScheduleInv, ScheduleTypes, TickType
<1>3. RunsStay
  BY <1>1 DEF RunsStay, data
<1>4. SlotHasRun'
  BY <1>1, <1>3, SlotsStay DEF ScheduleInv
<1> QED
  BY <1>1, <1>2, <1>4, EvaluationStep DEF ScheduleInv, ScheduleTypes

(* What a store records has a run: the one of the request's key.              *)
LEMMA StoreOK == ScheduleInv /\ Store => ScheduleInv'
<1> SUFFICES ASSUME ScheduleInv, Store PROVE ScheduleInv'
  OBVIOUS
<1>1. /\ clock' = clock /\ zone' = zone /\ data' = data /\ up' = up
      /\ GoOn(PhaseIndex(tick.phase), tick.atStart)
      /\ tick.phase # "idle" /\ tick.stage = "store"
  BY DEF Store, Evaluating
<1>2. PhaseIndex(tick.phase) \in Nat /\ tick.atStart \in BOOLEAN /\ tick.phase \in Intents
      /\ tick.req \in RequestType /\ up' \in BOOLEAN
  BY <1>1, PhaseNames DEF ScheduleInv, ScheduleTypes, TickType
<1>3. RunsStay
  BY <1>1 DEF RunsStay, data
<1>4. CASE tick.phase = "seed"
  <2>1. seeded' = TRUE /\ lastSlot' = lastSlot /\ cursor' = cursor
    BY <1>4 DEF Store, Cadences
  <2>2. SlotHasRun'
    BY <1>3, <2>1, SlotsStay DEF ScheduleInv
  <2>3. /\ lastSlot' \in [Cadences -> (Int \X Int) \cup {NoSlot}]
        /\ cursor' \in Int \cup {NoDate} /\ seeded' \in BOOLEAN
    BY <2>1 DEF ScheduleInv, ScheduleTypes
  <2> QED
    BY <1>1, <1>2, <2>2, <2>3, EvaluationStep
<1>5. CASE tick.phase = "catchup"
  <2>1. cursor' = tick.req.next /\ lastSlot' = lastSlot /\ seeded' = seeded
    BY <1>5 DEF Store, Cadences
  <2>2. SlotHasRun'
    BY <1>3, <2>1, SlotsStay DEF ScheduleInv
  <2>3. /\ lastSlot' \in [Cadences -> (Int \X Int) \cup {NoSlot}]
        /\ cursor' \in Int \cup {NoDate} /\ seeded' \in BOOLEAN
    BY <1>2, <2>1 DEF ScheduleInv, ScheduleTypes, RequestType
  <2> QED
    BY <1>1, <1>2, <2>2, <2>3, EvaluationStep
<1>6. CASE tick.phase \in Cadences
  <2> DEFINE c == tick.phase  slot == Slot(c, clock, zone)
  <2>1. lastSlot' = [lastSlot EXCEPT ![c] = slot] /\ cursor' = cursor /\ seeded' = seeded
    BY <1>6 DEF Store, Cadences
  <2>2. slot \in Int \X Int
    BY <1>6, SlotIs DEF ScheduleInv
  <2>3. /\ lastSlot' \in [Cadences -> (Int \X Int) \cup {NoSlot}]
        /\ cursor' \in Int \cup {NoDate} /\ seeded' \in BOOLEAN
    BY <1>6, <2>1, <2>2 DEF ScheduleInv, ScheduleTypes
  <2>4. PICK i \in DOMAIN run : run[i].key = tick.req.key
    BY <1>1 DEF ScheduleInv, TickOK
  <2>5. tick.req.key = <<c, slot>>
    BY <1>1, <1>6 DEF ScheduleInv, TickOK, RequestOK, SlotKey
  <2>6. run[i].intent = c /\ Period(i) = slot
    <3>1. RowOK(run[i])
      BY DEF ScheduleInv, RowsOK
    <3>2. run[i].intent = c
      BY <2>4, <2>5, <3>1 DEF RowOK
    <3>3. run[i].key = <<run[i].intent, PeriodOf(run[i])>>
      BY <1>6, <3>1, <3>2 DEF RowOK
    <3> QED
      BY <2>4, <2>5, <3>2, <3>3, PeriodIs
  <2>7. \A j \in DOMAIN run : Period(j)' = Period(j)
    BY <1>1 DEF Period, data
  <2>8. SlotHasRun'
    <3> SUFFICES ASSUME NEW b \in Cadences, lastSlot'[b] # NoSlot
                 PROVE  \E j \in DOMAIN run' : run'[j].intent = b /\ Period(j)' = lastSlot'[b]
      BY DEF SlotHasRun
    <3>1. run' = run
      BY <1>1 DEF data
    <3>2. CASE b = c
      <4>1. lastSlot'[b] = slot
        BY <1>6, <2>1, <3>2 DEF ScheduleInv, ScheduleTypes
      <4> QED
        BY <2>6, <2>7, <3>1, <3>2, <4>1
    <3>3. CASE b # c
      <4>1. lastSlot'[b] = lastSlot[b]
        BY <1>6, <2>1, <3>3 DEF ScheduleInv, ScheduleTypes
      <4>2. PICK j \in DOMAIN run : run[j].intent = b /\ Period(j) = lastSlot[b]
        BY <4>1 DEF ScheduleInv, SlotHasRun
      <4> QED
        BY <2>7, <3>1, <4>1, <4>2
    <3> QED
      BY <3>2, <3>3
  <2> QED
    BY <1>1, <1>2, <2>3, <2>8, EvaluationStep
<1> QED
  BY <1>2, <1>4, <1>5, <1>6 DEF Intents

(* A request that is not refused has its row, old or new.                     *)
LEMMA EnqueueOK == ScheduleInv /\ Enqueue => ScheduleInv'
<1> SUFFICES ASSUME ScheduleInv, Enqueue PROVE ScheduleInv'
  OBVIOUS
<1> DEFINE req == tick.req  n == Len(run)
           row == [intent |-> req.intent, key |-> req.key, dates |-> req.dates,
                   slot |-> Slot("recent", clock, zone), open |-> TRUE]
<1>1. /\ clock' = clock /\ zone' = zone /\ lastSlot' = lastSlot
      /\ cursor' = cursor /\ seeded' = seeded /\ up' = up /\ timer' = timer
      /\ archive' = archive /\ unfinished' = unfinished /\ failedRows' = failedRows
      /\ deferred' = deferred
      /\ tick.phase # "idle" /\ tick.stage = "enqueue" /\ ~Refused(req)
      /\ run' = IF Reused(req) THEN run ELSE Append(run, row)
      /\ tick' = [tick EXCEPT !.stage = "store"]
  BY DEF Enqueue, Evaluating, settings
<1>2. /\ tick \in TickType /\ tick.phase \in Intents /\ RequestOK(tick.phase, req)
      /\ run \in Seq(RowType) /\ n \in Nat /\ DOMAIN run = 1 .. n
  BY <1>1 DEF ScheduleInv, ScheduleTypes, TickOK, TickType
<1>3. /\ tick' \in TickType /\ tick'.phase = tick.phase /\ tick'.req = req
      /\ tick'.stage = "store" /\ tick'.atStart = tick.atStart
  BY <1>1, <1>2 DEF TickType
<1>4. RequestOK(tick.phase, tick.req)'
  BY <1>1, <1>2, <1>3, RequestStays
<1>5. CASE Reused(req)
  <2>1. run' = run
    BY <1>1, <1>5
  <2>2. RunsStay
    BY <2>1 DEF RunsStay
  <2>3. \E i \in DOMAIN run : run[i].key = req.key /\ run[i].dates = req.dates
    BY <1>5 DEF Reused, SameKey
  <2>4. TickOK'
    BY <1>3, <1>4, <2>1, <2>3 DEF TickOK
  <2>5. ScheduleTypes'
    BY <1>1, <1>3, <2>1 DEF ScheduleInv, ScheduleTypes
  <2>6. RowsOK' /\ KeysAreUnique' /\ DataOK'
    BY <1>1, <2>1 DEF ScheduleInv, RowsOK, KeysAreUnique, DataOK, Asked
  <2>7. SlotHasRun'
    BY <1>1, <2>2, SlotsStay DEF ScheduleInv
  <2> QED
    BY <2>4, <2>5, <2>6, <2>7 DEF ScheduleInv
<1>6. CASE ~Reused(req)
  <2>1. run' = Append(run, row)
    BY <1>1, <1>6
  <2>2. SameKey(req.key) = {}
    BY <1>1, <1>6 DEF Refused, Reused, Conflict
  <2>3. ThisDay \in Int /\ ZonedHour(clock, zone) \in Int
        /\ Slot("recent", clock, zone) = <<ThisDay, ZonedHour(clock, zone)>>
        /\ Slot("reconcile", clock, zone) = <<ThisDay, 0>>
        /\ Slot("compare", clock, zone) = <<MondayOf(ThisDay), 0>>
    <3>1. "recent" \in Cadences
      BY DEF Cadences
    <3> QED
      BY <3>1, TodayIs, SlotIs DEF ScheduleInv
  <2>4. /\ req.intent = tick.phase /\ req.key \in Keys /\ req.key[1] = tick.phase
        /\ Askable(req.dates, ThisDay)
        /\ tick.phase \in Cadences =>
             req.key = SlotKey(tick.phase) /\ req.dates = DatesOn(tick.phase, ThisDay)
        /\ tick.phase = "compare" => DayOfWeek(ThisDay) = 1
    BY <1>2 DEF RequestOK
  <2>5. row.slot \in Int \X Int /\ row.slot[1] = ThisDay
    BY <2>3
  <2>6. row \in RowType
    <3>1. req.dates \in SUBSET Int
      BY <2>4 DEF Askable, DateSet
    <3> QED
      BY <1>2, <2>4, <2>5, <3>1 DEF RowType
  <2>7. RowOK(row)
    <3>1. ASSUME row.intent \in Cadences
          PROVE  row.key = <<row.intent, PeriodOf(row)>>
      <4>1. row.key = <<tick.phase, Slot(tick.phase, clock, zone)>>
        BY <2>4, <3>1 DEF SlotKey
      <4>2. PeriodOf(row) = Slot(tick.phase, clock, zone)
        BY <2>3, <2>4, <3>1 DEF PeriodOf, Cadences
      <4> QED
        BY <2>4, <4>1, <4>2
    <3> QED
      BY <2>4, <2>5, <3>1 DEF RowOK
  <2> HIDE DEF row
  <2>8. /\ run' \in Seq(RowType) /\ Len(run') = n + 1 /\ DOMAIN run' = 1 .. n + 1
        /\ \A i \in 1 .. n : run'[i] = run[i]
        /\ run'[n + 1] = row
    <3>1. /\ run' \in Seq(RowType) /\ Len(run') = n + 1
          /\ \A i \in 1 .. n : run'[i] = run[i]
          /\ run'[n + 1] = row
      BY <1>2, <2>1, <2>6, AppendProperties
    <3> QED
      BY <3>1
  <2>9. RunsStay
    <3>1. \A i \in 1 .. n : i \in 1 .. n + 1
      BY <1>2
    <3> QED
      BY <1>2, <2>8, <3>1 DEF RunsStay
  <2>10. \A i \in DOMAIN run' : i \in DOMAIN run \/ i = n + 1
    BY <1>2, <2>8
  <2>11. RowsOK'
    <3> SUFFICES ASSUME NEW i \in DOMAIN run' PROVE RowOK(run'[i])
      BY DEF RowsOK
    <3> QED
      BY <1>2, <2>7, <2>8, <2>10 DEF ScheduleInv, RowsOK
  <2>12. row.key = req.key /\ row.dates = req.dates
    BY DEF row
  <2>13. \A i \in DOMAIN run : run[i].key # req.key
    BY <2>2 DEF SameKey
  <2>14. KeysAreUnique'
    <3> SUFFICES ASSUME NEW i \in DOMAIN run', NEW j \in DOMAIN run', i # j
                 PROVE  run'[i].key # run'[j].key
      BY DEF KeysAreUnique
    <3>1. CASE i \in DOMAIN run /\ j \in DOMAIN run
      BY <1>2, <2>8, <3>1 DEF ScheduleInv, KeysAreUnique
    <3>2. CASE i = n + 1 \/ j = n + 1
      BY <1>2, <2>8, <2>10, <2>12, <2>13, <3>2
    <3> QED
      BY <2>10, <3>1, <3>2
  <2>15. n + 1 \in DOMAIN run'
    BY <1>2, <2>8
  <2>16. TickOK'
    BY <1>3, <1>4, <2>8, <2>12, <2>15 DEF TickOK
  <2>17. ScheduleTypes'
    BY <1>1, <1>3, <2>8 DEF ScheduleInv, ScheduleTypes
  <2>18. DataOK'
    BY <1>1, <2>9, AskedStays DEF ScheduleInv, DataOK
  <2>19. SlotHasRun'
    BY <1>1, <2>9, SlotsStay DEF ScheduleInv
  <2> QED
    BY <2>11, <2>14, <2>16, <2>17, <2>18, <2>19 DEF ScheduleInv
<1> QED
  BY <1>5, <1>6

(* The end of a run accepts, keeps or defers dates that the run asked for.    *)
LEMMA SomeRunEndsOK == ScheduleInv /\ SomeRunEnds => ScheduleInv'
<1> SUFFICES ASSUME ScheduleInv, SomeRunEnds PROVE ScheduleInv'
  OBVIOUS
<1>0. PICK i \in Queued :
        \E e \in Endings[run[i].intent] : RunEnds(i, Done(run[i].dates, e[1]), e[2])
  BY DEF SomeRunEnds
<1>1. PICK e \in Endings[run[i].intent] : RunEnds(i, Done(run[i].dates, e[1]), e[2])
  BY <1>0
<1> DEFINE done == Done(run[i].dates, e[1])  rest == run[i].dates \ done
<1>2. /\ clock' = clock /\ zone' = zone /\ lastSlot' = lastSlot
      /\ cursor' = cursor /\ seeded' = seeded /\ up' = up /\ timer' = timer /\ tick' = tick
      /\ tick.phase = "idle"
      /\ run' = [run EXCEPT ![i].open = FALSE]
      /\ archive' = archive \cup done
      /\ unfinished' \subseteq unfinished \cup rest
      /\ failedRows' \subseteq failedRows \cup rest
      /\ DOMAIN deferred' \subseteq DOMAIN deferred \cup rest
  BY <1>1 DEF RunEnds, Evaluating, settings
<1>3. i \in DOMAIN run /\ run \in Seq(RowType) /\ run[i] \in RowType /\ RowOK(run[i])
  <2>1. i \in DOMAIN run /\ run \in Seq(RowType)
    BY DEF Queued, ScheduleInv, ScheduleTypes
  <2>2. run[i] \in RowType
    BY <2>1
  <2> QED
    BY <2>1, <2>2 DEF ScheduleInv, RowsOK
<1>4. DateSet(run[i].dates) /\ run[i].dates # {} /\ run[i].dates \subseteq Asked
  BY <1>3 DEF RowOK, Askable, Asked
<1>5. done \subseteq run[i].dates
  <2>1. MinDate(run[i].dates) \in run[i].dates
    BY <1>4, MinDateIs
  <2>2. e[1] \in {"none", "first", "all"}
    <3>1. run[i].intent \in Intents
      BY <1>3 DEF RowType
    <3>2. e \in RunEndings
      BY <3>1, SchedulerAssumption DEF SchedulerAssumption
    <3> QED
      BY <3>2 DEF RunEndings
  <2> QED
    BY <2>1, <2>2 DEF Done
<1> HIDE DEF done
<1>6. DateSet(done) /\ DateSet(rest)
  BY <1>4, <1>5, DateSubset
<1> DEFINE r == [run[i] EXCEPT !.open = FALSE]
<1>7. /\ run[i] \in RowType /\ r \in RowType /\ r.intent = run[i].intent /\ r.key = run[i].key
      /\ r.dates = run[i].dates /\ r.slot = run[i].slot
  BY <1>3 DEF RowType
<1>8. run' = [run EXCEPT ![i] = r]
  BY <1>2
<1> HIDE DEF r
<1>9. run' \in Seq(RowType) /\ DOMAIN run' = DOMAIN run /\ run'[i] = r
      /\ \A j \in DOMAIN run : j # i => run'[j] = run[j]
  BY <1>3, <1>7, <1>8
<1>10. RunsStay
  BY <1>7, <1>9 DEF RunsStay
<1>11. ScheduleTypes'
  BY <1>2, <1>9 DEF ScheduleInv, ScheduleTypes
<1>12. RowsOK'
  <2> SUFFICES ASSUME NEW j \in DOMAIN run' PROVE RowOK(run'[j])
    BY DEF RowsOK
  <2>1. RowOK(run[j]) /\ j \in DOMAIN run
    BY <1>9 DEF ScheduleInv, RowsOK
  <2>2. /\ run'[j].intent = run[j].intent /\ run'[j].key = run[j].key
        /\ run'[j].dates = run[j].dates /\ run'[j].slot = run[j].slot
    BY <1>10, <2>1 DEF RunsStay
  <2>3. PeriodOf(run'[j]) = PeriodOf(run[j])
    BY <2>2 DEF PeriodOf
  <2> QED
    BY <2>1, <2>2, <2>3 DEF RowOK
<1>13. KeysAreUnique'
  BY <1>9, <1>10 DEF ScheduleInv, KeysAreUnique, RunsStay
<1>14. TickOK'
  BY <1>2 DEF TickOK
<1>15. DataOK'
  <2>1. DateSet(archive')
    BY <1>2, <1>6, DateSets DEF ScheduleInv, DataOK
  <2>2. DateSet(unfinished \cup rest) /\ DateSet(failedRows \cup rest)
        /\ DateSet(DOMAIN deferred \cup rest)
    BY <1>6, DateSets DEF ScheduleInv, DataOK
  <2>3. DateSet(unfinished') /\ DateSet(failedRows') /\ DateSet(DOMAIN deferred')
    BY <1>2, <2>2, DateSubset
  <2>4. rest \subseteq Asked' /\ Asked \subseteq Asked'
    BY <1>4, <1>10, AskedStays
  <2> QED
    BY <1>2, <2>1, <2>3, <2>4 DEF ScheduleInv, DataOK
<1>16. SlotHasRun'
  BY <1>2, <1>10, SlotsStay DEF ScheduleInv
<1> QED
  BY <1>11, <1>12, <1>13, <1>14, <1>15, <1>16 DEF ScheduleInv

LEMMA RestOK ==
  ScheduleInv /\ (HourPasses \/ ZoneShifts \/ ProcessEnds
                    \/ \E reason \in PauseReasons : PauseChanges(reason))
    => ScheduleInv'
<1> SUFFICES ASSUME ScheduleInv,
                    HourPasses \/ ZoneShifts \/ ProcessEnds
                      \/ \E reason \in PauseReasons : PauseChanges(reason)
             PROVE  ScheduleInv'
  OBVIOUS
<1>1. /\ run' = run /\ archive' = archive /\ unfinished' = unfinished
      /\ failedRows' = failedRows /\ deferred' = deferred /\ settings' = settings
  BY DEF HourPasses, ZoneShifts, ProcessEnds, PauseChanges, data
<1>2. clock' \in Nat
  BY DEF ScheduleInv, ScheduleTypes, HourPasses, ZoneShifts, ProcessEnds, PauseChanges
<1>3. zone' \in Zones
  BY DEF ScheduleInv, ScheduleTypes, HourPasses, ZoneShifts, ProcessEnds, PauseChanges
<1>4. up' \in BOOLEAN /\ timer' \in BOOLEAN
  BY DEF ScheduleInv, ScheduleTypes, HourPasses, ZoneShifts, ProcessEnds, PauseChanges
<1>5. tick' \in TickType /\ tick'.phase = "idle"
  BY IdleIsTick DEF ScheduleInv, ScheduleTypes, HourPasses, ZoneShifts, ProcessEnds, PauseChanges,
                    Evaluating
<1> QED
  BY <1>1, <1>2, <1>3, <1>4, <1>5, OutsideStep

LEMMA ScheduleStep == ScheduleInv /\ [ScheduleNext]_scheduleVars => ScheduleInv'
<1> SUFFICES ASSUME ScheduleInv, [ScheduleNext]_scheduleVars PROVE ScheduleInv'
  OBVIOUS
<1>1. CASE ScheduleNext
  BY <1>1, BootOK, TimerTickOK, EnqueueOK, EnqueueRefusedOK, StoreOK, StoreFailsOK, SomeRunEndsOK,
     RestOK DEF ScheduleNext
<1>2. CASE UNCHANGED scheduleVars
  <2>1. /\ clock' = clock /\ zone' = zone /\ lastSlot' = lastSlot
        /\ cursor' = cursor /\ seeded' = seeded /\ up' = up /\ timer' = timer /\ tick' = tick
        /\ run' = run /\ archive' = archive /\ unfinished' = unfinished
        /\ failedRows' = failedRows /\ deferred' = deferred
    BY <1>2 DEF scheduleVars, settings, data
  <2>2. ScheduleTypes' /\ RowsOK' /\ KeysAreUnique' /\ DataOK'
    BY <2>1 DEF ScheduleInv, ScheduleTypes, RowsOK, KeysAreUnique, DataOK, Asked
  <2>3. TickOK'
    <3>1. tick.phase # "idle" => RequestOK(tick.phase, tick.req)'
      BY <2>1, RequestStays DEF ScheduleInv, TickOK
    <3> QED
      BY <2>1, <3>1 DEF ScheduleInv, TickOK
  <2>4. SlotHasRun'
    <3>1. RunsStay
      BY <2>1 DEF RunsStay
    <3> QED
      BY <2>1, <3>1, SlotsStay DEF ScheduleInv
  <2> QED
    BY <2>2, <2>3, <2>4 DEF ScheduleInv
<1> QED
  BY <1>1, <1>2

(* What a tick (scheduler.ts, tick), a run's end and the clock leave true,    *)
(* wherever the process ends: rows whose keys name their period, each key     *)
(* once; a request that is today's; a slot only after its run; nothing        *)
(* unfinished or failed that was not asked for.                               *)
THEOREM ScheduleInvariant == ScheduleSpec => []ScheduleInv
BY ScheduleInitOK, ScheduleStep, PTL DEF ScheduleSpec

-----------------------------------------------------------------------------
(* The promises.                                                              *)

(* Two runs of one period would have one key.                                 *)
LEMMA RunsArePerSlot ==
  ASSUME ScheduleInv
  PROVE  OneRunPerSlot
<1> SUFFICES ASSUME NEW i \in DOMAIN run, NEW j \in DOMAIN run, run[i].intent \in Cadences,
                    run[i].intent = run[j].intent, i # j, Period(i) = Period(j)
             PROVE  FALSE
  BY DEF OneRunPerSlot
<1>1. RowOK(run[i]) /\ RowOK(run[j])
  BY DEF ScheduleInv, RowsOK
<1>2. run[i].key = run[j].key
  BY <1>1, PeriodIs DEF RowOK
<1> QED
  BY <1>2 DEF ScheduleInv, KeysAreUnique

(* A run with the key of a cadence that is due was enqueued on the same day   *)
(* or, for the comparison, on the same Monday: it has the same dates.         *)
LEMMA SlotsNameTheirDates ==
  ASSUME ScheduleInv
  PROVE  SlotNamesDates
<1> SUFFICES ASSUME NEW c \in Cadences, IsCadenceDue(c, lastSlot[c], clock, zone),
                    NEW i \in DOMAIN run, run[i].key = SlotKey(c)
             PROVE  run[i].dates = IntentDates(c, clock, zone)
  BY DEF SlotNamesDates, SameKey
<1>1. RowOK(run[i]) /\ run[i] \in RowType
  <2>1. run \in Seq(RowType)
    BY DEF ScheduleInv, ScheduleTypes
  <2> QED
    BY <2>1 DEF ScheduleInv, RowsOK
<1>2. run[i].intent = c
  BY <1>1 DEF SlotKey, RowOK
<1>3. PeriodOf(run[i]) = Slot(c, clock, zone) /\ run[i].dates = DatesOn(c, run[i].slot[1])
  BY <1>1, <1>2 DEF SlotKey, RowOK
<1>4. ThisDay \in Int /\ run[i].slot[1] \in Int
  BY <1>1, TodayIs DEF ScheduleInv, RowType
<1>5. /\ Slot("recent", clock, zone) = <<ThisDay, ZonedHour(clock, zone)>>
      /\ Slot("reconcile", clock, zone) = <<ThisDay, 0>>
      /\ Slot("compare", clock, zone) = <<MondayOf(ThisDay), 0>>
  BY SlotIs DEF ScheduleInv
<1>6. c = "compare" => MondayOf(ThisDay) = ThisDay /\ MondayOf(run[i].slot[1]) = run[i].slot[1]
  <2> SUFFICES ASSUME c = "compare"
               PROVE  MondayOf(ThisDay) = ThisDay /\ MondayOf(run[i].slot[1]) = run[i].slot[1]
    OBVIOUS
  <2>1. DayOfWeek(ThisDay) = 1 /\ DayOfWeek(run[i].slot[1]) = 1
    BY <1>1, <1>2 DEF IsCadenceDue, RowOK, ThisDay
  <2> QED
    BY <1>4, <2>1 DEF MondayOf
<1>7. run[i].slot[1] = ThisDay
  <2>1. CASE c = "recent"
    BY <1>2, <1>3, <1>5, <2>1 DEF PeriodOf
  <2>2. CASE c = "reconcile"
    BY <1>2, <1>3, <1>5, <2>2 DEF PeriodOf
  <2>3. CASE c = "compare"
    BY <1>2, <1>3, <1>5, <1>6, <2>3 DEF PeriodOf
  <2> QED
    BY <2>1, <2>2, <2>3 DEF Cadences
<1> QED
  BY <1>3, <1>7, IntentDatesAre

(* What is asked for is never ahead of the day it is asked on.                *)
LEMMA NoRunIsAhead ==
  ASSUME ScheduleInv
  PROVE  NoFutureDates
BY DEF ScheduleInv, RowsOK, RowOK, Askable, NoFutureDates

(* A period of a cadence gets one run at most, under a key that only repeats  *)
(* with the same dates; no future date is asked for; and the next time that   *)
(* is announced is the first at which a period that is not due yet comes due  *)
(* (scheduler.ts, tick and updateNextDueTimestamps; calendar.ts,              *)
(* isCadenceDue), whatever ends, is refused or is not stored in between, for  *)
(* any zone, hour and length of days and weeks.                               *)
THEOREM ScheduleHonesty == ScheduleSpec => []ScheduleIsHonest
<1>1. ScheduleInv => ScheduleIsHonest
  <2> SUFFICES ASSUME ScheduleInv PROVE ScheduleIsHonest
    OBVIOUS
  <2>1. NextDueIsHonest
    BY AnnouncedTimes, TodayIs DEF ScheduleInv
  <2> QED
    BY <2>1, RunsArePerSlot, SlotsNameTheirDates, NoRunIsAhead DEF ScheduleIsHonest, ScheduleInv
<1> QED
  BY <1>1, ScheduleInvariant, PTL

-----------------------------------------------------------------------------
(* The gaps.                                                                  *)

(* The gaps are those of the clock, the cursor, the archive and the runs.     *)
LEMMA GapsStay ==
  ASSUME clock' = clock, zone' = zone, cursor' = cursor, archive' = archive, run' = run
  PROVE  GapsNow' = GapsNow /\ Asked' = Asked /\ ThisDay' = ThisDay
<1>1. ThisDay' = ThisDay /\ Asked' = Asked
  BY DEF ThisDay, Asked
<1>2. Watermark' = Watermark
  BY DEF Watermark
<1> QED
  BY <1>1, <1>2 DEF GapsNow

(* A batch that goes on after the seed is a new one; any later one is none.   *)
LEMMA EvaluationCovers ==
  ASSUME ScheduleInv, MaxCatchup >= RecentDays, clock' = clock, zone' = zone, data' = data,
         NEW n \in Nat, NEW atStart \in BOOLEAN, GoOn(n, atStart), cursor' = cursor \/ n >= 2
  PROVE  BatchOK'
<1>1. CASE tick'.phase = "catchup"
  <2>1. n < 2 /\ tick'.req = Request("catchup")
    BY <1>1, GoOnOK DEF ScheduleInv
  <2>2. cursor' = cursor
    BY <2>1
  <2>3. GapsNow' = GapsNow /\ Asked' = Asked /\ ThisDay' = ThisDay
    BY <2>2, GapsStay DEF data
  <2> DEFINE req == Request("catchup")
  <2>4. /\ Covers(req, GapsNow)
        /\ \A d \in req.dates : d >= WindowStart(ThisDay) \/ d \in GapsNow \/ d \in Asked
    BY CatchupIs DEF ScheduleInv
  <2> HIDE DEF req
  <2>5. Covers(tick'.req, GapsNow') 
        /\ \A d \in tick'.req.dates : d >= WindowStart(ThisDay') \/ d \in GapsNow' \/ d \in Asked'
    BY <2>1, <2>3, <2>4 DEF req
  <2> QED
    BY <2>5 DEF BatchOK
<1>2. CASE tick'.phase # "catchup"
  BY <1>2 DEF BatchOK
<1> QED
  BY <1>1, <1>2

(* The run of a batch moves the beginning of the search, if at all, only to a *)
(* date that is no gap.                                                       *)
LEMMA EnqueueCovers ==
  ASSUME ScheduleInv, ScheduleInv', BatchOK, Enqueue
  PROVE  BatchOK'
<1> DEFINE req == tick.req
<1>1. /\ clock' = clock /\ zone' = zone /\ cursor' = cursor /\ archive' = archive
      /\ tick.phase # "idle" /\ tick' = [tick EXCEPT !.stage = "store"] /\ tick \in TickType
  BY DEF Enqueue, Evaluating, settings, ScheduleInv, ScheduleTypes
<1>2. tick'.phase = tick.phase /\ tick'.req = req
  BY <1>1 DEF TickType
<1>3. SUFFICES ASSUME tick.phase = "catchup" PROVE BatchOK'
  BY <1>2 DEF BatchOK
<1>4. /\ Covers(req, GapsNow)
      /\ \A d \in req.dates : d >= WindowStart(ThisDay) \/ d \in GapsNow \/ d \in Asked
  BY <1>3 DEF BatchOK
<1>5. ThisDay' = ThisDay /\ ThisDay \in Int /\ WindowStart(ThisDay) \in Int
  BY <1>1, TodayIs, ScheduleConstants DEF ThisDay, WindowStart, ScheduleInv
<1>6. Asked' \subseteq Asked \cup req.dates /\ req.dates \subseteq Asked'
  <2>1. PICK i \in DOMAIN run' : run'[i].key = tick'.req.key /\ run'[i].dates = tick'.req.dates
    <3>1. tick'.phase # "idle" /\ tick'.stage = "store"
      BY <1>1, <1>2 DEF TickType
    <3> QED
      BY <3>1 DEF ScheduleInv, TickOK
  <2>2. req.dates \subseteq Asked'
    BY <1>2, <2>1 DEF Asked
  <2>3. CASE run' = run
    BY <2>2, <2>3 DEF Asked
  <2>4. CASE run' # run
    <3> DEFINE row == [intent |-> req.intent, key |-> req.key, dates |-> req.dates,
                       slot |-> Slot("recent", clock, zone), open |-> TRUE]
    <3>1. run' = Append(run, row)
      BY <2>4 DEF Enqueue
    <3>2. row.dates = req.dates
      OBVIOUS
    <3> HIDE DEF row
    <3>3. run \in Seq(RowType) /\ Len(run) \in Nat
      BY DEF ScheduleInv, ScheduleTypes
    <3>4. /\ DOMAIN run' = 1 .. Len(run) + 1 /\ DOMAIN run = 1 .. Len(run)
          /\ \A j \in DOMAIN run : run'[j] = run[j]
          /\ run'[Len(run) + 1] = row
      BY <3>1, <3>3
    <3>5. \A j \in DOMAIN run' : run'[j].dates \subseteq Asked \cup req.dates
      BY <3>2, <3>3, <3>4 DEF Asked
    <3> QED
      BY <2>2, <3>5 DEF Asked
  <2> QED
    BY <2>2, <2>3, <2>4
<1>7. /\ Watermark \in Int \cup {NoDate} /\ DateSet(archive \cup Asked)
      /\ Watermark = IF cursor # NoDate THEN cursor
                     ELSE IF archive \cup Asked = {} THEN NoDate ELSE MinDate(archive \cup Asked)
  BY WatermarkIs DEF ScheduleInv, WatermarkOK
<1>8. /\ Watermark' \in Int \cup {NoDate} /\ DateSet(archive \cup Asked')
      /\ Watermark' = IF cursor # NoDate THEN cursor
                      ELSE IF archive \cup Asked' = {} THEN NoDate
                           ELSE MinDate(archive \cup Asked')
  <2>1. ScheduleTypes' /\ RowsOK' /\ DataOK'
    BY DEF ScheduleInv
  <2>2. WatermarkOK'
    BY <2>1, WatermarkIs, PTL
  <2> QED
    BY <1>1, <2>2 DEF WatermarkOK
<1>9. ASSUME NEW d \in GapsNow' PROVE d \in GapsNow
  <2>1. /\ Watermark' # NoDate /\ d \in Watermark' .. WindowStart(ThisDay) - 1 /\ d \notin archive
    BY <1>1, <1>5, <1>9 DEF GapsNow, OlderGaps
  <2>2. SUFFICES Watermark # NoDate /\ Watermark <= d
    BY <1>5, <1>7, <1>8, <2>1 DEF GapsNow, OlderGaps
  <2>3. CASE cursor # NoDate
    BY <1>5, <1>7, <1>8, <2>1, <2>3
  <2>4. CASE cursor = NoDate
    <3> DEFINE m == Watermark'
    <3>1. m = MinDate(archive \cup Asked') /\ m \in archive \cup Asked'
      BY <1>8, <2>1, <2>4, MinDateIs
    <3>2. m \in Int /\ m <= d /\ d \in Int /\ ~(m >= WindowStart(ThisDay))
      BY <1>5, <1>8, <2>1
    <3> HIDE DEF m
    <3>3. m \in archive \cup Asked \/ m \in req.dates
      BY <1>6, <3>1
    <3>4. CASE m \in archive \cup Asked
      <4>1. Watermark = MinDate(archive \cup Asked)
        BY <1>7, <2>4, <3>4
      <4>2. Watermark <= m /\ Watermark \in archive \cup Asked
        BY <1>7, <3>4, <4>1, MinDateIs
      <4>3. Watermark \in Int
        BY <1>7, <4>2 DEF DateSet
      <4> QED
        BY <3>2, <4>2, <4>3, ScheduleConstants
    <3>5. CASE m \in GapsNow
      BY <1>5, <1>7, <3>2, <3>5 DEF GapsNow, OlderGaps
    <3> QED
      BY <1>4, <3>2, <3>3, <3>4, <3>5
  <2> QED
    BY <2>3, <2>4
<1>10. Covers(req, GapsNow')
  BY <1>4, <1>9 DEF Covers
<1>11. \A d \in req.dates : d >= WindowStart(ThisDay') \/ d \in GapsNow' \/ d \in Asked'
  BY <1>6
<1> QED
  BY <1>2, <1>10, <1>11 DEF BatchOK

LEMMA BatchStep ==
  ASSUME MaxCatchup >= RecentDays
  PROVE  ScheduleInv /\ ScheduleInv' /\ BatchOK /\ [ScheduleNext]_scheduleVars => BatchOK'
<1> SUFFICES ASSUME ScheduleInv, ScheduleInv', BatchOK, [ScheduleNext]_scheduleVars PROVE BatchOK'
  OBVIOUS
<1>1. CASE Enqueue
  BY <1>1, EnqueueCovers
<1>2. CASE Boot /\ ~Paused
  <2>1. clock' = clock /\ zone' = zone /\ data' = data /\ cursor' = cursor /\ GoOn(0, TRUE)
    BY <1>2 DEF Boot, settings
  <2> QED
    BY <2>1, EvaluationCovers
<1>3. CASE TimerTick
  <2>1. clock' = clock /\ zone' = zone /\ data' = data /\ cursor' = cursor /\ GoOn(0, FALSE)
    BY <1>3 DEF TimerTick, settings
  <2> QED
    BY <2>1, EvaluationCovers
<1>4. CASE EnqueueRefused \/ StoreFails \/ Store
  <2>1. /\ clock' = clock /\ zone' = zone /\ data' = data
        /\ GoOn(PhaseIndex(tick.phase), tick.atStart) /\ tick.phase # "idle"
    BY <1>4 DEF EnqueueRefused, StoreFails, Store, Evaluating
  <2>2. tick.phase \in Intents /\ tick.atStart \in BOOLEAN
    BY <2>1 DEF ScheduleInv, ScheduleTypes, TickType
  <2>3. PhaseIndex(tick.phase) \in Nat /\ (tick.phase = "catchup" => PhaseIndex(tick.phase) >= 2)
    BY <2>2, PhaseNames
  <2>4. cursor' = cursor \/ tick.phase = "catchup"
    BY <1>4, <2>2 DEF EnqueueRefused, StoreFails, Store, settings, Intents
  <2> QED
    BY <2>1, <2>2, <2>3, <2>4, EvaluationCovers
<1>5. CASE SomeRunEnds \/ HourPasses \/ ZoneShifts \/ ProcessEnds
           \/ (\E reason \in PauseReasons : PauseChanges(reason))
  <2>1. tick'.phase = "idle"
    BY <1>5, IdleIsTick DEF SomeRunEnds, RunEnds, HourPasses, ZoneShifts, ProcessEnds, PauseChanges,
                            Evaluating
  <2> QED
    BY <2>1 DEF BatchOK
<1>6. CASE (Boot /\ Paused) \/ UNCHANGED scheduleVars
  <2>1. tick' = tick /\ clock' = clock /\ zone' = zone /\ cursor' = cursor /\ archive' = archive
        /\ run' = run
    BY <1>6 DEF Boot, scheduleVars, settings, data
  <2> QED
    BY <2>1, GapsStay DEF BatchOK
<1> QED
  BY <1>1, <1>2, <1>3, <1>4, <1>5, <1>6 DEF ScheduleNext

(* Nothing is asked for at first.                                             *)
LEMMA BatchInit == ScheduleInit => BatchOK
BY IdleIsTick DEF ScheduleInit, BatchOK

(* A cursor that moves was part of a batch that has its run.                  *)
LEMMA CursorStep ==
  ASSUME ScheduleInv, BatchOK, [ScheduleNext]_scheduleVars, cursor' # cursor
  PROVE  LET gaps == {d \in Watermark .. ZonedDay(clock, zone) - RecentDays : d \notin archive}
             passed == IF cursor' = NoDate THEN gaps ELSE {d \in gaps : d < cursor'}
         IN  \E i \in DOMAIN run : run[i].intent = "catchup" /\ passed \subseteq run[i].dates
<1> DEFINE gaps == {d \in Watermark .. ZonedDay(clock, zone) - RecentDays : d \notin archive}
           passed == IF cursor' = NoDate THEN gaps ELSE {d \in gaps : d < cursor'}
           req == tick.req
<1>1. Store
  BY DEF ScheduleNext, Boot, TimerTick, Enqueue, EnqueueRefused, StoreFails, SomeRunEnds, RunEnds,
         HourPasses, ZoneShifts, ProcessEnds, PauseChanges, scheduleVars, settings
<1>2. tick.phase = "catchup" /\ cursor' = req.next /\ tick.stage = "store"
  <2>1. tick.phase \in Intents
    BY <1>1 DEF Store, Evaluating, ScheduleInv, ScheduleTypes, TickType
  <2> QED
    BY <1>1, <2>1 DEF Store, Intents
<1>3. Covers(req, GapsNow)
  BY <1>2 DEF BatchOK
<1>4. PICK i \in DOMAIN run : run[i].key = req.key /\ run[i].dates = req.dates
  BY <1>2 DEF ScheduleInv, TickOK
<1>5. run[i].intent = "catchup" /\ run[i].dates # {}
  BY <1>2, <1>4 DEF ScheduleInv, RowsOK, RowOK, TickOK, RequestOK, Askable
<1>6. Watermark # NoDate
  <2>1. archive \cup Asked # {}
    BY <1>5 DEF Asked
  <2>2. WatermarkOK
    BY WatermarkIs DEF ScheduleInv
  <2>3. MinDate(archive \cup Asked) \in Int
    BY <2>1, <2>2, MinDateIs DEF WatermarkOK, DateSet
  <2> QED
    BY <2>1, <2>2, <2>3, ScheduleConstants DEF WatermarkOK
<1>7. gaps \subseteq GapsNow
  <2>1. WindowStart(ThisDay) - 1 = ZonedDay(clock, zone) - RecentDays
    BY TodayIs, ScheduleConstants DEF WindowStart, ThisDay, ScheduleInv
  <2> QED
    BY <1>6, <2>1 DEF GapsNow, OlderGaps
<1>8. passed \subseteq run[i].dates
  BY <1>2, <1>3, <1>4, <1>7 DEF Covers
<1> QED
  BY <1>4, <1>5, <1>8

(* The catch-up cursor (scheduler.ts, runCatchupBatch) never moves past a     *)
(* missing date that no run has asked for, if a batch holds at least the      *)
(* window of recent dates, which come first in it: 31 against 7 in the code.  *)
(* With a shorter batch the cursor would end inside the window and pass every *)
(* older gap.                                                                 *)
THEOREM GapsStayInReach ==
  ASSUME MaxCatchup >= RecentDays
  PROVE  ScheduleSpec => GapsAreNotSkipped
<1>1. ScheduleInv /\ BatchOK /\ [ScheduleNext]_scheduleVars /\ ScheduleInv' => BatchOK'
  BY BatchStep
<1>2. ScheduleSpec => []BatchOK
  BY <1>1, BatchInit, ScheduleInvariant, PTL DEF ScheduleSpec
<1>3. ScheduleInv /\ BatchOK /\ [ScheduleNext]_scheduleVars =>
        [cursor' # cursor =>
          LET gaps == {d \in Watermark .. ZonedDay(clock, zone) - RecentDays : d \notin archive}
              passed == IF cursor' = NoDate THEN gaps ELSE {d \in gaps : d < cursor'}
          IN  \E i \in DOMAIN run : run[i].intent = "catchup" /\ passed \subseteq run[i].dates]_scheduleVars
  BY CursorStep
<1> QED
  BY <1>2, <1>3, ScheduleInvariant, PTL DEF ScheduleSpec, GapsAreNotSkipped
=============================================================================
