-------------------------- MODULE LLMClient_proofs --------------------------
(***************************************************************************)
(* Proofs about LLMClient, for any number of concurrent requests,          *)
(* providers and calls, any budget and any configuration of its parts.     *)
(***************************************************************************)
EXTENDS LLMClient, FiniteSetTheorems, SequenceTheorems, TLAPS

-----------------------------------------------------------------------------
(* The client drives the breaker by its protocol: every step is a step of  *)
(* CircuitBreaker, taken for the request that makes it, or leaves the      *)
(* breaker alone.  No invariant is needed.                                 *)
THEOREM ClientImplementsBreaker == Spec => UsesBreaker
<1>1. Init => Breaker!Init
  BY DEF Init
<1>2. [Next]_vars => [Breaker!Next]_(Breaker!vars)
  <2> SUFFICES ASSUME [Next]_vars
               PROVE  Breaker!Next \/ UNCHANGED Breaker!vars
    OBVIOUS
  <2> USE DEF breaker, Breaker!vars, Breaker!breaker
  <2>1. ASSUME NEW r \in Requests, NEW call \in Calls, Hit(r, call) \/ Miss(r, call)
        PROVE  UNCHANGED Breaker!vars
    BY <2>1 DEF Hit, Miss
  <2>2. ASSUME NEW r \in Requests,
               Check(r) \/ Refuse(r) \/ Backoff(r) \/ Wake(r) \/ Record(r) \/ Store(r)
        PROVE  UNCHANGED Breaker!vars
    BY <2>2 DEF Check, Refuse, Backoff, Wake, Record, Store
  <2>3. ASSUME NEW r \in Requests,
               Enter(r) \/ CircuitOpen(r) \/ Succeed(r) \/ GiveUp(r)
                 \/ ClientError(r) \/ Crash(r)
        PROVE  Breaker!Next
    BY <2>3 DEF Enter, CircuitOpen, Succeed, GiveUp, ClientError, Crash, Breaker!Next
  <2>4. CASE Report
    BY <2>4 DEF Report, Breaker!Next
  <2>5. CASE Tick
    BY <2>5 DEF Tick, Breaker!Next, Breaker!Tick
  <2>6. CASE UNCHANGED vars
    BY <2>6 DEF vars
  <2> QED
    BY <2>1, <2>2, <2>3, <2>4, <2>5, <2>6 DEF Next, Progress
<1> QED
  BY <1>1, <1>2, PTL DEF Spec, UsesBreaker, Breaker!Spec

-----------------------------------------------------------------------------
\* The delays with_retry may choose stay within max_delay.
LEMMA DelaysBounded ==
  ASSUME NEW attempt, NEW delay \in Policy!Delays(attempt)
  PROVE  delay \in 0 .. MaxDelay
BY ClientAssumption
DEF Policy!Delays, Policy!HonouredDelays, Policy!JitteredDelays, Policy!RetryAssumption

\* A request at the start of a step, with fresh local variables.
LEMMA AtTyped ==
  ASSUME NEW pc \in Phases, NEW provider \in 1 .. Providers, NEW call \in Calls
  PROVE  At(pc, provider, call) \in RequestState
BY ClientAssumption DEF At, RequestState, Policy!RetryAssumption

LEMMA IdleTyped == Idle \in RequestState
<1>1. NoCall \in Calls
  BY ClientAssumption DEF NoCall
<1> QED
  BY <1>1, AtTyped, ClientAssumption DEF Idle, Phases

\* RequestsOK alone is not inductive: waking up starts another attempt, and
\* that there is one left was decided before going to sleep.
RetryInv ==
  /\ RequestsOK
  /\ \A r \in Requests :
       request[r].pc = "sleep" => request[r].attempt < MaxAttempts - 1

LEMMA BackoffKeepsPolicy ==
  ASSUME RetryInv, NEW r \in Requests, Backoff(r)
  PROVE  RetryInv'
<1> USE ClientAssumption DEF RetryInv, RequestsOK, Policy!RetryAssumption
<1>1. PICK delay \in Policy!Delays(request[r].attempt) :
        /\ Policy!MayRetry(request[r].attempt, request[r].elapsed, delay)
        /\ Become(r, [request[r] EXCEPT !.pc = "sleep", !.delay = delay])
  BY DEF Backoff
<1>2. delay \in 0 .. MaxDelay
  BY DelaysBounded
<1> DEFINE asleep == [request[r] EXCEPT !.pc = "sleep"]
           waiting == [asleep EXCEPT !.delay = delay]
<1>3. asleep \in RequestState /\ asleep.attempt = request[r].attempt
  BY DEF RequestState, Phases
<1>4. waiting \in RequestState /\ waiting.attempt = request[r].attempt
  <2> HIDE DEF asleep
  <2> QED
    BY <1>2, <1>3 DEF RequestState
<1>5. request' = [request EXCEPT ![r] = waiting]
  BY <1>1 DEF Become
<1>6. request[r].attempt < MaxAttempts - 1
  BY <1>1 DEF Policy!MayRetry
<1> QED
  <2> HIDE DEF waiting
  <2> QED
    BY <1>4, <1>5, <1>6

LEMMA WakeKeepsPolicy ==
  ASSUME RetryInv, NEW r \in Requests, Wake(r)
  PROVE  RetryInv'
<1> USE ClientAssumption DEF RetryInv, RequestsOK, Policy!RetryAssumption
<1> DEFINE awake == [request[r] EXCEPT !.pc = "attempt"]
           next == [awake EXCEPT !.attempt = @ + 1]
<1>1. /\ awake \in RequestState
      /\ awake.pc = "attempt"
      /\ awake.attempt < MaxAttempts - 1
  BY DEF Wake, RequestState, Phases
<1>2. next \in RequestState /\ next.pc = "attempt"
  <2> HIDE DEF awake
  <2> QED
    BY <1>1 DEF RequestState
<1>3. request' = [request EXCEPT ![r] = next]
  BY DEF Wake, Become
<1> QED
  <2> HIDE DEF next
  <2> QED
    BY <1>2, <1>3

LEMMA TickKeepsPolicy ==
  ASSUME RetryInv, Tick
  PROVE  RetryInv'
<1> USE ClientAssumption DEF RetryInv, RequestsOK, Policy!RetryAssumption
<1>1. ASSUME NEW r \in Requests
      PROVE  /\ request'[r] \in RequestState
             /\ request'[r].pc = request[r].pc
             /\ request'[r].attempt = request[r].attempt
  <2> DEFINE older ==
        [request[r] EXCEPT
           !.elapsed = IF request[r].pc \in {"attempt", "sleep"} /\ @ <= MaxElapsed
                       THEN @ + 1 ELSE @]
  <2>1. /\ older \in RequestState
        /\ older.pc = request[r].pc
        /\ older.attempt = request[r].attempt
    BY DEF RequestState
  <2>2. request'[r] = [older EXCEPT !.delay = IF @ > 0 THEN @ - 1 ELSE 0]
    BY DEF Tick
  <2> HIDE DEF older
  <2> QED
    BY <2>1, <2>2 DEF RequestState
<1>2. request' = [r \in Requests |-> request'[r]]
  BY DEF Tick
<1> QED
  BY <1>1, <1>2

LEMMA PolicyInductive == RetryInv /\ [Next]_vars => RetryInv'
<1> SUFFICES ASSUME RetryInv, [Next]_vars
             PROVE  RetryInv'
  OBVIOUS
<1>1. ASSUME NEW r \in Requests, NEW next \in RequestState,
             next.pc # "sleep", Become(r, next)
      PROVE  RetryInv'
  BY <1>1 DEF RetryInv, RequestsOK, Become
<1>2. ASSUME NEW pc \in Phases \ {"sleep"}, NEW provider \in 1 .. Providers,
             NEW call \in Calls
      PROVE  At(pc, provider, call) \in RequestState /\ At(pc, provider, call).pc # "sleep"
  BY AtTyped DEF At
<1>3. Idle \in RequestState /\ Idle.pc # "sleep"
  BY IdleTyped DEF Idle, At
<1>4. ASSUME NEW r \in Requests
      PROVE  request[r].provider \in 1 .. Providers /\ request[r].call \in Calls
  BY DEF RetryInv, RequestsOK, RequestState
<1>5. 1 \in 1 .. Providers
  BY ClientAssumption
<1> USE DEF Finish
<1>6. ASSUME NEW r \in Requests, NEW call \in Calls, Hit(r, call)
      PROVE  RetryInv'
  BY <1>6 DEF Hit, RetryInv, RequestsOK
<1>7. ASSUME NEW r \in Requests, NEW call \in Calls, Miss(r, call)
      PROVE  RetryInv'
  BY <1>7, <1>1, <1>2, <1>5 DEF Miss, Phases
<1>8. ASSUME NEW r \in Requests, Check(r) \/ Refuse(r)
      PROVE  RetryInv'
  BY <1>8, <1>1, <1>2, <1>3, <1>4, <1>5 DEF Check, Refuse, Phases
<1>9. ASSUME NEW r \in Requests, Fallback(r)
      PROVE  RetryInv'
  <2>1. CASE request[r].provider < Providers
    <3>1. request[r].provider + 1 \in 1 .. Providers
      BY <2>1, <1>4, ClientAssumption
    <3> QED
      BY <3>1, <2>1, <1>9, <1>1, <1>2, <1>4 DEF Fallback, Phases
  <2>2. CASE ~(request[r].provider < Providers)
    BY <2>2, <1>9, <1>1, <1>3 DEF Fallback
  <2> QED
    BY <2>1, <2>2
<1>10. ASSUME NEW r \in Requests, Enter(r)
       PROVE  RetryInv'
  BY <1>10, <1>1, <1>2, <1>4 DEF Enter, Phases
<1>11. ASSUME NEW r \in Requests, Succeed(r)
       PROVE  RetryInv'
  BY <1>11, <1>1, <1>2, <1>4, <1>5 DEF Succeed, Phases
<1>12. ASSUME NEW r \in Requests, Crash(r) \/ Record(r) \/ Store(r)
       PROVE  RetryInv'
  BY <1>12, <1>1, <1>2, <1>3, <1>4, <1>5 DEF Crash, Record, Store, Phases
<1>13. CASE Report \/ UNCHANGED vars
  BY <1>13 DEF Report, vars, RetryInv, RequestsOK
<1> QED
  BY <1>6, <1>7, <1>8, <1>9, <1>10, <1>11, <1>12, <1>13,
     BackoffKeepsPolicy, WakeKeepsPolicy, TickKeepsPolicy
  DEF Next, Progress, CircuitOpen, GiveUp, ClientError

LEMMA PolicyAlways == Spec => []RetryInv
<1>1. Init => RetryInv
  BY IdleTyped DEF Init, RetryInv, RequestsOK, Idle, At
<1> QED
  BY <1>1, PolicyInductive, PTL DEF Spec

(* Every request is where the code can be, and no retry loop outruns its   *)
(* policy: never more than MaxAttempts attempts, never a wait longer than  *)
(* MaxDelay.                                                               *)
THEOREM RequestsTypeCorrect == Spec => []RequestsOK
<1>1. RetryInv => RequestsOK
  BY DEF RetryInv
<1> QED
  BY <1>1, PolicyAlways, PTL

-----------------------------------------------------------------------------
\* What the breaker's actions do to the admissions the client holds.
LEMMA AdmissionsKept ==
  ASSUME NEW r \in Requests, NEW s \in Requests \ {r},
         \/ Breaker!Allow(r) \/ Breaker!Reject(r)
         \/ Breaker!RecordSuccess(r) \/ Breaker!RecordFailure(r) \/ Breaker!ClientError(r)
  PROVE  in_flight'[s] = "idle" <=> in_flight[s] = "idle"
BY DEF Breaker!Allow, Breaker!Reject, Breaker!MaybeHalfOpen, Breaker!RecordSuccess,
       Breaker!RecordFailure, Breaker!ClientError, Breaker!Return, Breaker!CallsIn

(* Every request holds the breaker's admission exactly while it is in the  *)
(* retry loop: each admission gets one outcome, on every path out.         *)
THEOREM OneOutcomeEach == Spec => []OneOutcomePerAdmission
<1>1. Init => OneOutcomePerAdmission
  BY DEF Init, Breaker!Init, Idle, At, OneOutcomePerAdmission
<1>2. RetryInv /\ OneOutcomePerAdmission /\ [Next]_vars => OneOutcomePerAdmission'
  <2> SUFFICES ASSUME RetryInv, OneOutcomePerAdmission, [Next]_vars,
                      NEW s \in Requests
               PROVE  in_flight'[s] # "idle" <=> request'[s].pc \in {"attempt", "sleep"}
    BY DEF OneOutcomePerAdmission
  <2> USE DEF Become, Finish, Idle, At, RetryInv, RequestsOK
  <2>1. in_flight[s] # "idle" <=> request[s].pc \in {"attempt", "sleep"}
    BY DEF OneOutcomePerAdmission
  <2>2. ASSUME NEW r \in Requests, NEW call \in Calls, Hit(r, call) \/ Miss(r, call)
        PROVE  in_flight'[s] # "idle" <=> request'[s].pc \in {"attempt", "sleep"}
    BY <2>1, <2>2 DEF Hit, Miss, breaker
  <2>3. ASSUME NEW r \in Requests, Check(r) \/ Refuse(r) \/ Record(r) \/ Store(r)
        PROVE  in_flight'[s] # "idle" <=> request'[s].pc \in {"attempt", "sleep"}
    BY <2>1, <2>3 DEF Check, Refuse, Record, Store, breaker
  <2>4. ASSUME NEW r \in Requests, Enter(r)
        PROVE  in_flight'[s] # "idle" <=> request'[s].pc \in {"attempt", "sleep"}
    <3>1. CASE s = r
      BY <2>4, <3>1 DEF Enter, Breaker!Allow, Breaker!CallsIn
    <3>2. CASE s # r
      BY <2>1, <2>4, <3>2, AdmissionsKept DEF Enter
    <3> QED
      BY <3>1, <3>2
  <2>5. ASSUME NEW r \in Requests, CircuitOpen(r)
        PROVE  in_flight'[s] # "idle" <=> request'[s].pc \in {"attempt", "sleep"}
    <3>1. CASE s = r
      <4>1. in_flight'[s] = "idle"
        BY <2>5, <3>1
        DEF CircuitOpen, Breaker!Reject, Breaker!MaybeHalfOpen, Breaker!CallsIn
      <4>2. request'[s].pc \in {"route", "idle"}
        BY <2>5, <3>1 DEF CircuitOpen, Fallback
      <4> QED
        BY <4>1, <4>2
    <3>2. CASE s # r
      BY <2>1, <2>5, <3>2, AdmissionsKept DEF CircuitOpen, Fallback
    <3> QED
      BY <3>1, <3>2
  <2>6. ASSUME NEW r \in Requests, Backoff(r) \/ Wake(r)
        PROVE  in_flight'[s] # "idle" <=> request'[s].pc \in {"attempt", "sleep"}
    <3>1. in_flight' = in_flight
      BY <2>6 DEF Backoff, Wake, breaker
    <3>2. request[r].pc \in {"attempt", "sleep"}
      BY <2>6 DEF Backoff, Wake
    <3>3. CASE s = r
      <4>1. request'[s].pc \in {"attempt", "sleep"}
        BY <2>6, <3>3 DEF Backoff, Wake, RequestState
      <4> QED
        BY <2>1, <3>1, <3>2, <3>3, <4>1
    <3>4. CASE s # r
      BY <2>1, <2>6, <3>1, <3>4 DEF Backoff, Wake
    <3> QED
      BY <3>3, <3>4
  <2>7. ASSUME NEW r \in Requests,
               Succeed(r) \/ GiveUp(r) \/ ClientError(r) \/ Crash(r)
        PROVE  in_flight'[s] # "idle" <=> request'[s].pc \in {"attempt", "sleep"}
    <3>1. \/ Breaker!RecordSuccess(r) \/ Breaker!RecordFailure(r) \/ Breaker!ClientError(r)
      BY <2>7 DEF Succeed, GiveUp, ClientError, Crash
    <3>2. CASE s = r
      <4>1. in_flight'[s] = "idle"
        BY <3>1, <3>2 DEF Breaker!RecordSuccess, Breaker!RecordFailure,
                          Breaker!ClientError, Breaker!Return, Breaker!CallsIn
      <4>2. request'[s].pc \in {"record", "route", "idle"}
        BY <2>7, <3>2 DEF Succeed, GiveUp, ClientError, Crash, Fallback
      <4> QED
        BY <4>1, <4>2
    <3>3. CASE s # r
      BY <2>1, <2>7, <3>1, <3>3, AdmissionsKept
      DEF Succeed, GiveUp, ClientError, Crash, Fallback
    <3> QED
      BY <3>2, <3>3
  <2>8. CASE Report
    BY <2>1, <2>8 DEF Report, Breaker!MaybeHalfOpen, Breaker!CallsIn
  <2>9. CASE Tick
    <3>1. request'[s].pc = request[s].pc
      BY <2>9, TickKeepsPolicy DEF Tick, RequestState
    <3> QED
      BY <2>1, <2>9, <3>1 DEF Tick
  <2>10. CASE UNCHANGED vars
    BY <2>1, <2>10 DEF vars, breaker
  <2> QED
    BY <2>2, <2>3, <2>4, <2>5, <2>6, <2>7, <2>8, <2>9, <2>10 DEF Next, Progress
<1> QED
  BY <1>1, <1>2, PolicyAlways, PTL DEF Spec

-----------------------------------------------------------------------------
\* The bound itself says nothing of the next check.  What is inductive is
\* that it holds even when everyone who passed is charged in full.
Slack == IF Limit > Projected THEN Limit - Projected ELSE 0

BudgetInv ==
  /\ spent \in Nat
  /\ spent + Cardinality(Unpaid) * MaxCost <= Slack + Cardinality(Requests) * MaxCost

LEMMA UnpaidFinite ==
  /\ IsFiniteSet(Unpaid)
  /\ Cardinality(Unpaid) \in Nat
  /\ Cardinality(Requests) \in Nat
<1>1. Unpaid \subseteq Requests
  BY DEF Unpaid
<1> QED
  BY <1>1, FS_Subset, FS_CardinalityType, ClientAssumption

LEMMA TimesMonotonic ==
  ASSUME NEW m \in Nat, NEW n \in Nat, NEW c \in Nat, m <= n
  PROVE  m * c <= n * c /\ m * c \in Nat /\ n * c \in Nat
OBVIOUS

LEMMA SlackIsNat == Slack \in Nat
BY ClientAssumption DEF Slack

\* A step that charges nothing and lets nobody through keeps the bound.
LEMMA NobodyPasses ==
  ASSUME BudgetInv, spent' = spent, Unpaid' \subseteq Unpaid
  PROVE  BudgetInv'
<1>1. /\ Cardinality(Unpaid') \in Nat
      /\ Cardinality(Unpaid') <= Cardinality(Unpaid)
  BY UnpaidFinite, FS_Subset, FS_CardinalityType
<1>2. Cardinality(Unpaid') * MaxCost <= Cardinality(Unpaid) * MaxCost
  BY <1>1, UnpaidFinite, TimesMonotonic, ClientAssumption
<1>3. /\ Cardinality(Unpaid') * MaxCost \in Nat
      /\ Cardinality(Unpaid) * MaxCost \in Nat
      /\ Cardinality(Requests) * MaxCost \in Nat
  BY <1>1, UnpaidFinite, TimesMonotonic, ClientAssumption
<1> QED
  BY <1>2, <1>3, SlackIsNat DEF BudgetInv, Slack

LEMMA BudgetInductive == RequestsOK /\ BudgetInv /\ [Next]_vars => BudgetInv'
<1> SUFFICES ASSUME RequestsOK, BudgetInv, [Next]_vars
             PROVE  BudgetInv'
  OBVIOUS
<1> USE DEF Become, Finish, Idle, At, RequestsOK
<1>1. ASSUME NEW r \in Requests, NEW call \in Calls, Hit(r, call) \/ Miss(r, call)
      PROVE  BudgetInv'
  <2>1. spent' = spent /\ Unpaid' \subseteq Unpaid
    BY <1>1 DEF Hit, Miss, Unpaid
  <2> QED
    BY <2>1, NobodyPasses
<1>2. ASSUME NEW r \in Requests, Check(r)
      PROVE  BudgetInv'
  <2>1. spent' = spent /\ spent <= Slack
    BY <1>2, ClientAssumption DEF Check, Affordable, Slack, BudgetInv
  <2>2. /\ Cardinality(Unpaid') \in Nat
        /\ Cardinality(Unpaid') <= Cardinality(Requests)
    <3>1. Unpaid' \subseteq Requests
      BY DEF Unpaid
    <3> QED
      BY <3>1, FS_Subset, FS_CardinalityType, ClientAssumption
  <2>3. /\ Cardinality(Unpaid') * MaxCost <= Cardinality(Requests) * MaxCost
        /\ Cardinality(Unpaid') * MaxCost \in Nat
        /\ Cardinality(Requests) * MaxCost \in Nat
    BY <2>2, UnpaidFinite, TimesMonotonic, ClientAssumption
  <2> QED
    BY <2>1, <2>3, SlackIsNat DEF BudgetInv, Slack
<1>3. ASSUME NEW r \in Requests, Record(r)
      PROVE  BudgetInv'
  <2>1. PICK cost \in 0 .. MaxCost : spent' = spent + cost
    BY <1>3 DEF Record
  <2>2. r \in Unpaid /\ Unpaid' = Unpaid \ {r}
    BY <1>3 DEF Record, Unpaid
  <2>3. Cardinality(Unpaid') = Cardinality(Unpaid) - 1
    BY <2>2, UnpaidFinite, FS_RemoveElement
  <2>4. (Cardinality(Unpaid) - 1) * MaxCost = Cardinality(Unpaid) * MaxCost - MaxCost
    BY UnpaidFinite, ClientAssumption
  <2>5. /\ Cardinality(Unpaid) * MaxCost \in Nat
        /\ Cardinality(Requests) * MaxCost \in Nat
    BY UnpaidFinite, TimesMonotonic, ClientAssumption
  <2> QED
    BY <2>1, <2>3, <2>4, <2>5, SlackIsNat, ClientAssumption DEF BudgetInv, Slack
<1>4. ASSUME NEW r \in Requests,
             Refuse(r) \/ Enter(r) \/ CircuitOpen(r) \/ Succeed(r) \/ GiveUp(r)
               \/ ClientError(r) \/ Crash(r) \/ Store(r)
      PROVE  BudgetInv'
  <2>1. spent' = spent
    BY <1>4 DEF Refuse, Enter, CircuitOpen, Succeed, GiveUp, ClientError, Crash, Store
  <2>2. Unpaid' \subseteq Unpaid
    <3>1. \/ request'[r].pc \notin {"route", "attempt", "sleep", "record"}
          \/ request[r].pc \in {"route", "attempt", "sleep", "record"}
      BY <1>4 DEF Refuse, Enter, CircuitOpen, Succeed, GiveUp, ClientError, Crash, Store
    <3>2. \A s \in Requests : s # r => request'[s] = request[s]
      BY <1>4
      DEF Refuse, Enter, CircuitOpen, Succeed, GiveUp, ClientError, Crash, Store, Fallback
    <3> QED
      BY <3>1, <3>2 DEF Unpaid
  <2> QED
    BY <2>1, <2>2, NobodyPasses
<1>5. ASSUME NEW r \in Requests, Backoff(r) \/ Wake(r)
      PROVE  BudgetInv'
  <2>1. spent' = spent
    BY <1>5 DEF Backoff, Wake
  <2>2. Unpaid' \subseteq Unpaid
    <3>1. request[r].pc \in {"attempt", "sleep"}
      BY <1>5 DEF Backoff, Wake
    <3>2. \A s \in Requests : s # r => request'[s] = request[s]
      BY <1>5 DEF Backoff, Wake
    <3> QED
      BY <3>1, <3>2 DEF Unpaid
  <2> QED
    BY <2>1, <2>2, NobodyPasses
<1>6. CASE Tick
  <2>1. \A s \in Requests : request'[s].pc = request[s].pc
    BY <1>6 DEF Tick, RequestState
  <2>2. spent' = spent /\ Unpaid' \subseteq Unpaid
    BY <1>6, <2>1 DEF Tick, Unpaid
  <2> QED
    BY <2>2, NobodyPasses
<1>7. CASE Report \/ UNCHANGED vars
  <2>1. spent' = spent /\ Unpaid' \subseteq Unpaid
    BY <1>7 DEF Report, vars, Unpaid
  <2> QED
    BY <2>1, NobodyPasses
<1> QED
  BY <1>1, <1>2, <1>3, <1>4, <1>5, <1>6, <1>7 DEF Next, Progress

LEMMA BudgetAlways == Spec => []BudgetInv
<1>1. Init => BudgetInv
  <2>1. Init => spent = 0 /\ Unpaid = {}
    BY DEF Init, Unpaid, Idle, At
  <2>2. Init => Cardinality(Unpaid) = 0
    BY <2>1, FS_EmptySet
  <2>3. Cardinality(Requests) * MaxCost \in Nat /\ 0 * MaxCost = 0
    BY UnpaidFinite, TimesMonotonic, ClientAssumption
  <2> QED
    BY <2>1, <2>2, <2>3, SlackIsNat DEF BudgetInv
<1> QED
  BY <1>1, RequestsTypeCorrect, BudgetInductive, PTL DEF Spec

(* Concurrent requests overspend the budget by at most one answer each,    *)
(* whatever they retry and whichever provider answers.                     *)
THEOREM OvershootIsBounded == Spec => []BudgetOvershootBounded
<1>1. BudgetInv => BudgetOvershootBounded
  <2> SUFFICES ASSUME BudgetInv
               PROVE  BudgetOvershootBounded
    OBVIOUS
  <2>1. Cardinality(Unpaid) * MaxCost \in Nat /\ Cardinality(Requests) * MaxCost \in Nat
    BY UnpaidFinite, TimesMonotonic, ClientAssumption
  <2> QED
    BY <2>1, SlackIsNat DEF BudgetInv, BudgetOvershootBounded, Slack
<1> QED
  BY <1>1, BudgetAlways, PTL

-----------------------------------------------------------------------------
(* The cache, whose entries are in the order of their last use.            *)
CacheEntry ==
  [key : Prompts \X MaxTokens, response : [prompt : Prompts, max_tokens : MaxTokens],
   ttl : Nat]
Unique(entries) ==
  \A i, j \in DOMAIN entries : entries[i].key = entries[j].key => i = j

\* What is left of a sequence without its n-th element.
LEMMA RemoveAtProperties ==
  ASSUME NEW S, NEW s \in Seq(S), NEW n \in 1 .. Len(s)
  PROVE  LET rest == Cache!RemoveAt(s, n)
         IN  /\ rest \in Seq(S)
             /\ Len(rest) = Len(s) - 1
             /\ \A i \in 1 .. Len(s) - 1 : rest[i] = s[IF i < n THEN i ELSE i + 1]
<1> DEFINE before == SubSeq(s, 1, n - 1)
           after == SubSeq(s, n + 1, Len(s))
<1>1. Len(s) \in Nat /\ \A i \in 1 .. Len(s) : s[i] \in S
  OBVIOUS
<1>2. /\ before \in Seq(S) /\ Len(before) = n - 1
      /\ \A i \in 1 .. n - 1 : before[i] = s[i]
  BY <1>1, SubSeqProperties
<1>3. /\ after \in Seq(S) /\ Len(after) = Len(s) - n
      /\ \A i \in 1 .. Len(s) - n : after[i] = s[n + i]
  BY <1>1, SubSeqProperties
<1> HIDE DEF before, after
<1>4. /\ before \o after \in Seq(S)
      /\ Len(before \o after) = Len(before) + Len(after)
      /\ \A i \in 1 .. Len(before) + Len(after) :
           (before \o after)[i] = IF i <= Len(before) THEN before[i] ELSE after[i - Len(before)]
  BY <1>2, <1>3, ConcatProperties, Zenon
<1>5. ASSUME NEW i \in 1 .. Len(s) - 1
      PROVE  (before \o after)[i] = s[IF i < n THEN i ELSE i + 1]
  BY <1>1, <1>2, <1>3, <1>4
<1>6. before \o after \in Seq(S) /\ Len(before \o after) = Len(s) - 1
  BY <1>1, <1>2, <1>3, <1>4
<1>7. Cache!RemoveAt(s, n) = before \o after
  BY DEF Cache!RemoveAt, before, after
<1> QED
  BY <1>5, <1>6, <1>7

\* Removing a key removes its entry, the only one there was, and adds none.
LEMMA WithoutProperties ==
  ASSUME NEW entries \in Seq(CacheEntry), Unique(entries), NEW key
  PROVE  LET rest == Cache!Without(entries, key)
         IN  /\ rest \in Seq(CacheEntry)
             /\ Unique(rest)
             /\ Len(rest) = IF Cache!Has(entries, key) THEN Len(entries) - 1 ELSE Len(entries)
             /\ \A i \in DOMAIN rest : rest[i].key # key
             /\ \A i \in DOMAIN rest : \E j \in DOMAIN entries : rest[i] = entries[j]
<1> DEFINE n == Cache!PositionOf(entries, key)
           rest == Cache!Without(entries, key)
<1>1. Len(entries) \in Nat /\ DOMAIN entries = 1 .. Len(entries)
  OBVIOUS
<1>2. CASE ~Cache!Has(entries, key)
  BY <1>2 DEF Cache!Without, Cache!Has
<1>3. CASE Cache!Has(entries, key)
  <2>1. n \in DOMAIN entries /\ entries[n].key = key
    BY <1>3 DEF Cache!Has, Cache!PositionOf
  <2>2. rest = Cache!RemoveAt(entries, n)
    BY <1>3 DEF Cache!Without
  <2> HIDE DEF n, rest
  <2>3. /\ rest \in Seq(CacheEntry)
        /\ Len(rest) = Len(entries) - 1
        /\ \A i \in 1 .. Len(entries) - 1 : rest[i] = entries[IF i < n THEN i ELSE i + 1]
    BY <1>1, <2>1, <2>2, RemoveAtProperties
  <2>4. DOMAIN rest = 1 .. Len(entries) - 1
    BY <2>3
  <2>5. \A i \in DOMAIN rest :
          LET j == IF i < n THEN i ELSE i + 1
          IN  j \in DOMAIN entries /\ j # n /\ rest[i] = entries[j]
    BY <1>1, <2>1, <2>3, <2>4
  <2>6. \A i, j \in DOMAIN rest :
          (IF i < n THEN i ELSE i + 1) = (IF j < n THEN j ELSE j + 1) => i = j
    BY <1>1, <2>1, <2>4
  <2>7. Unique(rest) /\ \A i \in DOMAIN rest : rest[i].key # key
    BY <2>1, <2>5, <2>6 DEF Unique
  <2> QED
    BY <1>3, <2>3, <2>5, <2>7 DEF rest
<1> QED
  BY <1>2, <1>3

\* An entry goes to the end, in place of the one its key had.
LEMMA RenewedProperties ==
  ASSUME NEW entries \in Seq(CacheEntry), Unique(entries), NEW entry \in CacheEntry
  PROVE  LET renewed == Append(Cache!Without(entries, entry.key), entry)
         IN  /\ renewed \in Seq(CacheEntry)
             /\ Unique(renewed)
             /\ Len(renewed) = IF Cache!Has(entries, entry.key) THEN Len(entries)
                                                                ELSE Len(entries) + 1
             /\ \A i \in DOMAIN renewed :
                  renewed[i] = entry \/ \E j \in DOMAIN entries : renewed[i] = entries[j]
<1> DEFINE rest == Cache!Without(entries, entry.key)
<1>1. /\ rest \in Seq(CacheEntry)
      /\ Unique(rest)
      /\ Len(rest) = IF Cache!Has(entries, entry.key) THEN Len(entries) - 1 ELSE Len(entries)
      /\ \A i \in DOMAIN rest : rest[i].key # entry.key
      /\ \A i \in DOMAIN rest : \E j \in DOMAIN entries : rest[i] = entries[j]
  BY WithoutProperties
<1> HIDE DEF rest
<1>2. /\ Append(rest, entry) \in Seq(CacheEntry)
      /\ Len(Append(rest, entry)) = Len(rest) + 1 /\ Len(rest) \in Nat /\ Len(entries) \in Nat
      /\ DOMAIN rest = 1 .. Len(rest) /\ DOMAIN Append(rest, entry) = 1 .. Len(rest) + 1
      /\ \A i \in DOMAIN rest : Append(rest, entry)[i] = rest[i]
      /\ Append(rest, entry)[Len(rest) + 1] = entry
  BY <1>1
<1>3. \A i \in 1 .. Len(rest) + 1 : i \in DOMAIN rest \/ i = Len(rest) + 1
  BY <1>2
<1>4. Unique(Append(rest, entry))
  BY <1>1, <1>2, <1>3 DEF Unique
<1>5. Len(Append(rest, entry)) =
        IF Cache!Has(entries, entry.key) THEN Len(entries) ELSE Len(entries) + 1
  BY <1>1, <1>2
<1> QED
  BY <1>1, <1>2, <1>3, <1>4, <1>5 DEF rest

\* The newest entries stay.
LEMMA EvictProperties ==
  ASSUME NEW entries \in Seq(CacheEntry), Unique(entries)
  PROVE  /\ Cache!Evict(entries) \in Seq(CacheEntry)
         /\ Unique(Cache!Evict(entries))
         /\ Len(Cache!Evict(entries)) <= MaxSize
<1> DEFINE first == IF Len(entries) > MaxSize THEN Len(entries) - MaxSize + 1 ELSE 1
           kept == SubSeq(entries, first, Len(entries))
<1>1. Len(entries) \in Nat /\ MaxSize \in Nat \ {0}
  BY ClientAssumption DEF Cache!CacheAssumption
<1>2. first \in 1 .. Len(entries) + 1 /\ Len(entries) - first + 1 <= MaxSize
  BY <1>1
<1>3. Cache!Evict(entries) = kept
  BY DEF Cache!Evict
<1> HIDE DEF first
<1>4. /\ kept \in Seq(CacheEntry)
      /\ Len(kept) = Len(entries) - first + 1
      /\ \A i \in 1 .. Len(kept) : kept[i] = entries[first + i - 1]
  BY <1>1, <1>2
<1>5. /\ DOMAIN kept = 1 .. Len(kept)
      /\ \A i \in 1 .. Len(kept) : first + i - 1 \in DOMAIN entries
  BY <1>1, <1>2, <1>4
<1> HIDE DEF kept
<1>6. Unique(kept)
  <2> SUFFICES ASSUME NEW i \in 1 .. Len(kept), NEW j \in 1 .. Len(kept),
                      kept[i].key = kept[j].key
               PROVE  i = j
    BY <1>5 DEF Unique
  <2>1. first + i - 1 = first + j - 1
    BY <1>4, <1>5 DEF Unique
  <2> QED
    BY <1>2, <2>1
<1> QED
  BY <1>2, <1>3, <1>4, <1>6

\* An aged entry is the same but for the time it has left.
LEMMA AgedProperties ==
  ASSUME NEW entries \in Seq(CacheEntry)
  PROVE  LET aged == Cache!Aged(entries)
         IN  /\ aged \in Seq(CacheEntry)
             /\ Len(aged) = Len(entries) /\ DOMAIN aged = DOMAIN entries
             /\ \A i \in DOMAIN entries :
                  /\ aged[i].key = entries[i].key
                  /\ aged[i].response = entries[i].response
                  /\ aged[i].ttl <= entries[i].ttl
<1> DEFINE Older(entry) == [entry EXCEPT !.ttl = IF @ > 0 THEN @ - 1 ELSE 0]
<1>1. ASSUME NEW entry \in CacheEntry
      PROVE  /\ Older(entry) \in CacheEntry
             /\ Older(entry).key = entry.key
             /\ Older(entry).response = entry.response
             /\ Older(entry).ttl <= entry.ttl
  BY DEF CacheEntry
<1>2. /\ DOMAIN entries = 1 .. Len(entries) /\ Len(entries) \in Nat
      /\ \A i \in DOMAIN entries : entries[i] \in CacheEntry
  OBVIOUS
<1>3. Cache!Aged(entries) = [i \in DOMAIN entries |-> Older(entries[i])]
  BY DEF Cache!Aged
<1> HIDE DEF Older
<1>4. /\ [i \in DOMAIN entries |-> Older(entries[i])] \in Seq(CacheEntry)
      /\ Len([i \in DOMAIN entries |-> Older(entries[i])]) = Len(entries)
  BY <1>1, <1>2
<1> QED
  BY <1>1, <1>2, <1>3, <1>4

CacheInv ==
  /\ data \in Seq(CacheEntry)
  /\ Len(data) <= MaxSize
  /\ Unique(data)

LEMMA KeysAndResponses ==
  ASSUME NEW call \in Calls
  PROVE  Cache!Entry(Key(call), Response(call)) \in CacheEntry
BY ClientAssumption DEF Call, Key, Response, Sent, Cache!Entry, CacheEntry, Cache!CacheAssumption

\* A lookup keeps the entry it hits, and drops one that has expired.
LEMMA LookupProperties ==
  ASSUME CacheInv, NEW key
  PROVE  LET after == Cache!AfterGet(data, key)
         IN  /\ after \in Seq(CacheEntry)
             /\ Len(after) <= MaxSize
             /\ Unique(after)
             /\ \A i \in DOMAIN after : \E j \in DOMAIN data : after[i] = data[j]
<1>0. Len(data) \in Nat /\ MaxSize \in Nat
  BY ClientAssumption DEF CacheInv, Cache!CacheAssumption
<1>1. CASE Cache!Live(data, key)
  <2> DEFINE entry == Cache!EntryOf(data, key)
  <2>1. Cache!Has(data, key)
    BY <1>1 DEF Cache!Live, Cache!Has
  <2>2. PICK j \in DOMAIN data : entry = data[j] /\ data[j].key = key
    BY <2>1 DEF Cache!Has, Cache!EntryOf, Cache!PositionOf
  <2>3. entry \in CacheEntry /\ entry.key = key
    BY <2>2 DEF CacheInv
  <2>4. Cache!AfterGet(data, key) = Append(Cache!Without(data, key), entry)
    BY <1>1 DEF Cache!AfterGet
  <2> HIDE DEF entry
  <2> DEFINE after == Append(Cache!Without(data, entry.key), entry)
  <2>5. /\ after \in Seq(CacheEntry) /\ Unique(after) /\ Len(after) = Len(data)
        /\ \A i \in DOMAIN after : after[i] = entry \/ \E n \in DOMAIN data : after[i] = data[n]
    BY <2>1, <2>3, RenewedProperties DEF CacheInv
  <2>6. Cache!AfterGet(data, key) = after
    BY <2>3, <2>4
  <2> HIDE DEF after
  <2> QED
    BY <1>0, <2>2, <2>5, <2>6 DEF CacheInv
<1>2. CASE ~Cache!Live(data, key)
  BY <1>0, <1>2, WithoutProperties DEF Cache!AfterGet, CacheInv
<1> QED
  BY <1>1, <1>2

\* A request that goes on looks up nothing and stores nothing but in Store.
LEMMA OthersLeaveCache ==
  ASSUME NEW r \in Requests,
         \/ Check(r) \/ Refuse(r) \/ Enter(r) \/ CircuitOpen(r) \/ Succeed(r) \/ Backoff(r)
         \/ Wake(r) \/ GiveUp(r) \/ ClientError(r) \/ Crash(r) \/ Record(r)
  PROVE  data' = data
BY DEF Check, Refuse, Enter, CircuitOpen, Succeed, Backoff, Wake, GiveUp, ClientError,
       Crash, Record

LEMMA CacheInductive == RequestsOK /\ CacheInv /\ [Next]_vars => CacheInv'
<1> SUFFICES ASSUME RequestsOK, CacheInv, [Next]_vars
             PROVE  CacheInv'
  OBVIOUS
<1>1. ASSUME data' = data
      PROVE  CacheInv'
  BY <1>1 DEF CacheInv
<1>2. ASSUME NEW key, data' = Cache!AfterGet(data, key)
      PROVE  CacheInv'
  BY <1>2, LookupProperties DEF CacheInv
<1>3. ASSUME NEW r \in Requests, NEW call \in Calls, Hit(r, call) \/ Miss(r, call)
      PROVE  CacheInv'
  BY <1>1, <1>2, <1>3 DEF Hit, Miss
<1>4. ASSUME NEW r \in Requests, Store(r)
      PROVE  CacheInv'
  <2> DEFINE call == request[r].call
             entry == Cache!Entry(Key(call), Response(call))
             longer == Append(Cache!Without(data, entry.key), entry)
  <2>1. call \in Calls
    BY DEF RequestsOK, RequestState
  <2>2. entry \in CacheEntry /\ entry.key = Key(call)
    BY <2>1, KeysAndResponses DEF Cache!Entry
  <2> HIDE DEF entry
  <2>3. longer \in Seq(CacheEntry) /\ Unique(longer)
    BY <2>2, RenewedProperties DEF CacheInv
  <2>4. data' = Cache!Evict(longer)
    BY <1>4, <2>2 DEF Store, Cache!AfterSet, entry
  <2> HIDE DEF longer
  <2> QED
    BY <2>3, <2>4, EvictProperties DEF CacheInv
<1>5. CASE Tick
  <2>1. data' = Cache!Aged(data)
    BY <1>5 DEF Tick
  <2> QED
    BY <2>1, AgedProperties DEF CacheInv, Unique
<1>6. CASE Report \/ UNCHANGED vars
  BY <1>1, <1>6 DEF Report, vars
<1> QED
  BY <1>1, <1>3, <1>4, <1>5, <1>6, OthersLeaveCache DEF Next, Progress

LEMMA CacheAlways == Spec => []CacheInv
<1>1. Init => CacheInv
  BY ClientAssumption DEF Init, CacheInv, Unique, Cache!CacheAssumption
<1> QED
  BY <1>1, CacheInductive, RequestsTypeCorrect, PTL DEF Spec

(* Only storing an answer renews an entry: whatever else a request does,   *)
(* and however often it is served from the cache, an entry keeps its key   *)
(* and its answer and has no more time left than before.                   *)
THEOREM OnlyStoresRenew == Spec => OnlyStoringRenews
<1> DEFINE Kept ==
      \A i \in DOMAIN data' : \E j \in DOMAIN data :
        /\ data[j].key = data'[i].key
        /\ data[j].response = data'[i].response
        /\ data[j].ttl >= data'[i].ttl
<1>1. ASSUME CacheInv, \A i \in DOMAIN data' : \E j \in DOMAIN data : data'[i] = data[j]
      PROVE  Kept
  <2> SUFFICES ASSUME NEW i \in DOMAIN data'
               PROVE  \E j \in DOMAIN data :
                        /\ data[j].key = data'[i].key
                        /\ data[j].response = data'[i].response
                        /\ data[j].ttl >= data'[i].ttl
    OBVIOUS
  <2>1. PICK j \in DOMAIN data : data'[i] = data[j]
    BY <1>1
  <2>2. data[j] \in CacheEntry
    BY <1>1 DEF CacheInv
  <2>3. data[j].ttl >= data[j].ttl
    BY <2>2 DEF CacheEntry
  <2> QED
    BY <2>1, <2>3
<1>2. ASSUME CacheInv, data' = data
      PROVE  Kept
  BY <1>1, <1>2
<1>3. ASSUME CacheInv, NEW r \in Requests, NEW call \in Calls, Hit(r, call) \/ Miss(r, call)
      PROVE  Kept
  <2>1. CASE data' = data
    BY <1>2, <1>3, <2>1
  <2>2. CASE data' = Cache!AfterGet(data, Key(call))
    BY <1>1, <1>3, <2>2, LookupProperties
  <2> QED
    BY <1>3, <2>1, <2>2 DEF Hit, Miss
<1>4. ASSUME CacheInv, Tick
      PROVE  Kept
  <2>1. data' = Cache!Aged(data) /\ data \in Seq(CacheEntry)
    BY <1>4 DEF Tick, CacheInv
  <2> QED
    BY <2>1, AgedProperties DEF CacheEntry
<1>5. ASSUME CacheInv, Report \/ UNCHANGED vars
      PROVE  Kept
  BY <1>2, <1>5 DEF Report, vars
<1> HIDE DEF Kept
<1>6. CacheInv /\ [Next]_vars => [(\A r \in Requests : ~Store(r)) => Kept]_vars
  BY <1>2, <1>3, <1>4, <1>5, OthersLeaveCache DEF Next, Progress
<1>7. [][(\A r \in Requests : ~Store(r)) => Kept]_vars => OnlyStoringRenews
  BY PTL DEF OnlyStoringRenews, Kept
<1> QED
  BY <1>6, <1>7, CacheAlways, PTL DEF Spec

-----------------------------------------------------------------------------
\* The breaker's own steps keep its fields in range, whatever drives them.
LEMMA BreakerTyped ==
  ASSUME Breaker!TypeOK, [Breaker!Next]_(Breaker!vars)
  PROVE  Breaker!TypeOK'
<1>0. Breaker!BreakerAssumption
  BY ClientAssumption
<1> USE <1>0 DEF Breaker!BreakerAssumption, Breaker!breaker, Breaker!TypeOK, Breaker!CallsIn,
        Breaker!Elapsed, Breaker!SeenState, Breaker!SeenSuccesses, Breaker!SeenHalfOpenCalls
<1>1. ASSUME NEW r \in Requests, Breaker!Allow(r)
      PROVE  Breaker!TypeOK'
  BY <1>1 DEF Breaker!Allow, Breaker!MayPass
<1>2. CASE Breaker!MaybeHalfOpen
  BY <1>2 DEF Breaker!MaybeHalfOpen
<1>3. ASSUME NEW r \in Requests, Breaker!RecordSuccess(r)
      PROVE  Breaker!TypeOK'
  BY <1>3 DEF Breaker!RecordSuccess, Breaker!ProbeSuccess, Breaker!Close,
              Breaker!ClearStreak, Breaker!Return, Breaker!Release
<1>4. ASSUME NEW r \in Requests, Breaker!RecordFailure(r)
      PROVE  Breaker!TypeOK'
  BY <1>4 DEF Breaker!RecordFailure, Breaker!ProbeFailure, Breaker!CountFailure,
              Breaker!Trip, Breaker!Open, Breaker!Return, Breaker!Release
<1>5. ASSUME NEW r \in Requests, Breaker!ClientError(r)
      PROVE  Breaker!TypeOK'
  BY <1>5 DEF Breaker!ClientError, Breaker!Return, Breaker!Release
<1>6. CASE Breaker!Reset
  <2>1. intruded' \in BOOLEAN
    BY <1>6 DEF Breaker!Reset
  <2> QED
    BY <1>6, <2>1 DEF Breaker!Reset
<1>7. CASE Breaker!Tick
  BY <1>7 DEF Breaker!Tick
<1>8. CASE UNCHANGED Breaker!vars
  BY <1>8 DEF Breaker!vars
<1> QED
  BY <1>1, <1>2, <1>3, <1>4, <1>5, <1>6, <1>7, <1>8 DEF Breaker!Next, Breaker!Reject

LEMMA BreakerAlways == Spec => []Breaker!TypeOK
<1>1. Breaker!Init => Breaker!TypeOK
  <2>1. Breaker!Init => intruded \in BOOLEAN
    BY DEF Breaker!Init
  <2> QED
    BY <2>1, ClientAssumption DEF Breaker!Init, Breaker!TypeOK, Breaker!BreakerAssumption
<1>2. Breaker!TypeOK /\ [Breaker!Next]_(Breaker!vars) => Breaker!TypeOK'
  BY BreakerTyped
<1>3. Breaker!Spec => []Breaker!TypeOK
  BY <1>1, <1>2, PTL DEF Breaker!Spec
<1> QED
  BY <1>3, ClientImplementsBreaker, PTL DEF UsesBreaker

(* The whole state of the client is well-typed: the breaker's counters are *)
(* within its thresholds, every retry loop within its policy, and the      *)
(* cache is never over its size and holds a key once.                      *)
THEOREM TypeCorrect == Spec => []TypeOK
<1>1. Breaker!TypeOK /\ RequestsOK /\ BudgetInv /\ CacheInv => TypeOK
  BY DEF TypeOK, BudgetInv, CacheInv, Unique
<1> QED
  BY <1>1, BreakerAlways, RequestsTypeCorrect, BudgetAlways, CacheAlways, PTL

=============================================================================
