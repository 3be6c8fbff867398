----------------------------- MODULE LLMClient -----------------------------
(***************************************************************************)
(* LLMClient.complete and acomplete (03-llm-integration/llmkit/client.py)  *)
(* under concurrent requests, composed from the parts they call:           *)
(*                                                                         *)
(*   cache lookup -> budget check -> for each provider in turn:            *)
(*     circuit breaker -> retry loop -> provider                           *)
(*   -> record the cost -> populate the cache                              *)
(*                                                                         *)
(* Every arrow is a place where another request may run: the cache, the    *)
(* tracker and the breaker each have a lock of their own, and nothing is   *)
(* held from one to the next.                                              *)
(***************************************************************************)
EXTENDS Integers, Sequences, FiniteSets

CONSTANTS
  Requests,                         \* callers of the client, one request each at a time
  Calls,                            \* the calls they make, members of Call
  Prompts, MaxTokens, NoLimit,      \* what is asked; NoLimit: max_tokens is None
  Providers,                        \* how many: the primary and its fallbacks
  Limit, Projected, MaxCost,        \* BudgetGuard, the estimate, the dearest answer
  FailureThreshold, RecoveryTimeout, SuccessThreshold, HalfOpenMaxCalls,
  MaxAttempts, BaseDelay, MaxDelay, MaxElapsed, RetryAfters,
  MaxSize, TTL

\* A call of either entry point; at temperature 0 it is cacheable.
Call ==
  [prompt : Prompts, max_tokens : MaxTokens,
   mode : {"complete", "acomplete"}, cacheable : BOOLEAN]

VARIABLES
  state, failures, successes, half_open_calls, since_opened, in_flight, intruded,
  data,      \* the cache
  spent,     \* tracker.total_usd
  request    \* what each request is doing

Breaker == INSTANCE CircuitBreaker WITH Callers <- Requests
Policy == INSTANCE Retry
Cache == INSTANCE LRUCache

ASSUME ClientAssumption ==
  /\ Calls \subseteq Call /\ Calls # {}
  /\ IsFiniteSet(Requests)
  /\ Providers \in Nat \ {0}
  /\ NoLimit \in MaxTokens
  /\ Limit \in Nat \ {0} /\ Projected \in Nat /\ MaxCost \in Nat
  /\ Breaker!BreakerAssumption /\ Policy!RetryAssumption /\ Cache!CacheAssumption

breaker == <<state, failures, successes, half_open_calls, since_opened, in_flight, intruded>>
vars == <<breaker, data, spent, request>>

Phases == {"idle", "check", "route", "attempt", "sleep", "record", "store"}

\* Where a request is, with the local variables of the retry loop it is in.
At(pc, provider, call) ==
  [pc |-> pc, provider |-> provider, call |-> call,
   attempt |-> 0, elapsed |-> 0, delay |-> 0]

NoCall == CHOOSE call \in Calls : TRUE
Idle == At("idle", 1, NoCall)

\* make_cache_key: the model is the primary's, whichever provider answers.
Key(call) == <<call.prompt, call.max_tokens>>

\* The limit the provider is given: acomplete takes max_tokens and drops it.
Sent(call) == IF call.mode = "complete" THEN call.max_tokens ELSE NoLimit

Response(call) == [prompt |-> call.prompt, max_tokens |-> Sent(call)]

RequestState ==
  [pc : Phases, provider : 1 .. Providers, call : Calls,
   attempt : 0 .. MaxAttempts - 1, elapsed : 0 .. MaxElapsed + 1, delay : 0 .. MaxDelay]

RequestsOK == request \in [Requests -> RequestState]

TypeOK ==
  /\ Breaker!TypeOK
  /\ RequestsOK
  /\ spent \in Nat
  /\ Len(data) <= MaxSize
  /\ \A i, j \in DOMAIN data : data[i].key = data[j].key => i = j

Init ==
  /\ Breaker!Init
  /\ data = <<>>
  /\ spent = 0
  /\ request = [r \in Requests |-> Idle]

-----------------------------------------------------------------------------
Become(r, next) == request' = [request EXCEPT ![r] = next]
Finish(r) == Become(r, Idle)

\* Only a request at temperature 0 is looked up in the cache, and stored.
Hit(r, call) ==
  /\ request[r].pc = "idle"
  /\ call.cacheable /\ Cache!Live(data, Key(call))
  /\ data' = Cache!AfterGet(data, Key(call))
  /\ UNCHANGED <<breaker, spent, request>>

Miss(r, call) ==
  /\ request[r].pc = "idle"
  /\ ~(call.cacheable /\ Cache!Live(data, Key(call)))
  /\ data' = IF call.cacheable THEN Cache!AfterGet(data, Key(call)) ELSE data
  /\ Become(r, At("check", 1, call))
  /\ UNCHANGED <<breaker, spent>>

\* BudgetGuard.check_request, once, whatever retries and fallbacks follow.
Affordable_unprojected == spent <= Limit
Affordable == spent + Projected <= Limit

Check(r) ==
  /\ request[r].pc = "check"
  /\ Affordable
  /\ Become(r, At("route", 1, request[r].call))
  /\ UNCHANGED <<breaker, data, spent>>

\* BudgetExceededError
Refuse(r) ==
  /\ request[r].pc = "check"
  /\ ~Affordable
  /\ Finish(r)
  /\ UNCHANGED <<breaker, data, spent>>

-----------------------------------------------------------------------------
Fallback_wrapping(r) ==
  Become(r, At("route", IF request[r].provider < Providers
                        THEN request[r].provider + 1 ELSE 1, request[r].call))

\* An LLMError leaves the breaker: the next provider, or the caller gets it.
Fallback(r) ==
  Become(r, IF request[r].provider < Providers
            THEN At("route", request[r].provider + 1, request[r].call)
            ELSE Idle)

\* One breaker for all the providers.
Enter(r) ==
  /\ request[r].pc = "route"
  /\ Breaker!Allow(r)
  /\ Become(r, At("attempt", request[r].provider, request[r].call))
  /\ UNCHANGED <<data, spent>>

CircuitOpen(r) ==
  /\ request[r].pc = "route"
  /\ Breaker!Reject(r)
  /\ Fallback(r)
  /\ UNCHANGED <<data, spent>>

Succeed(r) ==
  /\ request[r].pc = "attempt"
  /\ Breaker!RecordSuccess(r)
  /\ Become(r, At("record", 1, request[r].call))
  /\ UNCHANGED <<data, spent>>

\* A retryable error, and with_retry decides to wait and try again.
Backoff(r) ==
  /\ request[r].pc = "attempt"
  /\ \E delay \in Policy!Delays(request[r].attempt) :
       /\ Policy!MayRetry(request[r].attempt, request[r].elapsed, delay)
       /\ Become(r, [request[r] EXCEPT !.pc = "sleep", !.delay = delay])
  /\ UNCHANGED <<breaker, data, spent>>

\* The waiting is over; sleeping may take longer than asked, never less.
Wake(r) ==
  /\ request[r].pc = "sleep"
  /\ request[r].delay = 0
  /\ Become(r, [request[r] EXCEPT !.pc = "attempt", !.attempt = @ + 1])
  /\ UNCHANGED <<breaker, data, spent>>

\* A retryable error that is not retried: one failure for the breaker.
GiveUp(r) ==
  /\ request[r].pc = "attempt"
  /\ \E delay \in Policy!Delays(request[r].attempt) :
       ~Policy!MayRetry(request[r].attempt, request[r].elapsed, delay)
  /\ Breaker!RecordFailure(r)
  /\ Fallback(r)
  /\ UNCHANGED <<data, spent>>

\* An LLMError that is not retryable (AuthError, InvalidRequestError, ...).
ClientError_leak(r) ==
  /\ request[r].pc = "attempt"
  /\ Fallback(r)
  /\ UNCHANGED <<breaker, data, spent>>
ClientError(r) ==
  /\ request[r].pc = "attempt"
  /\ Breaker!ClientError(r)
  /\ Fallback(r)
  /\ UNCHANGED <<data, spent>>

\* Any other exception, a cancelled acomplete among them, from the provider
\* or out of the wait: a failure for the breaker, and no fallback.
Crash_leak(r) ==
  /\ request[r].pc \in {"attempt", "sleep"}
  /\ in_flight' = [in_flight EXCEPT ![r] = "idle"]
  /\ Finish(r)
  /\ UNCHANGED <<state, failures, successes, half_open_calls, since_opened, intruded,
                 data, spent>>
Crash(r) ==
  /\ request[r].pc \in {"attempt", "sleep"}
  /\ Breaker!RecordFailure(r)
  /\ Finish(r)
  /\ UNCHANGED <<data, spent>>

-----------------------------------------------------------------------------
\* _finalize: the tracker, then the cache.
Record(r) ==
  /\ request[r].pc = "record"
  /\ \E cost \in 0 .. MaxCost : spent' = spent + cost
  /\ IF request[r].call.cacheable
     THEN Become(r, At("store", 1, request[r].call))
     ELSE Finish(r)
  /\ UNCHANGED <<breaker, data>>

Store(r) ==
  /\ request[r].pc = "store"
  /\ LET call == request[r].call
     IN  data' = Cache!AfterSet(data, Key(call), Response(call))
  /\ Finish(r)
  /\ UNCHANGED <<breaker, spent>>

\* Time passes for the breaker's timer, the cache and the requests.
Tick ==
  /\ since_opened' = IF since_opened < RecoveryTimeout THEN since_opened + 1 ELSE since_opened
  /\ data' = Cache!Aged(data)
  /\ request' = [r \in Requests |->
       [request[r] EXCEPT
          !.elapsed = IF request[r].pc \in {"attempt", "sleep"} /\ @ <= MaxElapsed
                      THEN @ + 1 ELSE @,
          !.delay = IF @ > 0 THEN @ - 1 ELSE 0]]
  /\ UNCHANGED <<state, failures, successes, half_open_calls, in_flight, intruded, spent>>

\* report() reads breaker.state, which is where the timer is looked at.
Report ==
  /\ Breaker!MaybeHalfOpen
  /\ UNCHANGED <<data, spent, request>>

Progress(r) ==
  \/ Check(r) \/ Refuse(r) \/ Enter(r) \/ CircuitOpen(r)
  \/ Succeed(r) \/ Backoff(r) \/ Wake(r) \/ GiveUp(r) \/ ClientError(r) \/ Crash(r)
  \/ Record(r) \/ Store(r)

Next ==
  \/ \E r \in Requests : \/ \E call \in Calls : Hit(r, call) \/ Miss(r, call)
                         \/ Progress(r)
  \/ Report
  \/ Tick

Fairness == WF_vars(Tick) /\ \A r \in Requests : WF_vars(Progress(r))

Spec == Init /\ [][Next]_vars
FairSpec == Spec /\ Fairness
-----------------------------------------------------------------------------
(* The requests that passed the budget check and have not been paid for.   *)
Unpaid ==
  {r \in Requests : request[r].pc \in {"route", "attempt", "sleep", "record"}}

(* The budget is checked before the calls and charged after them, so       *)
(* requests running together can all pass on the same remainder.  They     *)
(* overspend it by one answer each at most: a request is charged once,     *)
(* whatever it retried, and what it is charged counts for the next check.  *)
BudgetOvershootBounded ==
  spent <= (IF Limit > Projected THEN Limit - Projected ELSE 0)
             + Cardinality(Requests) * MaxCost

(* Breaker outside retry: a request holds exactly one admission of the     *)
(* breaker from entering it until its last attempt, on every path out.     *)
OneOutcomePerAdmission ==
  \A r \in Requests :
    (in_flight[r] # "idle") <=> (request[r].pc \in {"attempt", "sleep"})

(* The client drives the breaker by its protocol: every step is a step of  *)
(* CircuitBreaker or leaves the breaker alone, so that what is shown of    *)
(* the breaker on its own holds inside the client.                         *)
UsesBreaker == Breaker!Spec

(* An answer ages out of the cache however often it is asked for: only     *)
(* storing a new answer of the provider renews an entry.                   *)
OnlyStoringRenews ==
  [][(\A r \in Requests : ~Store(r)) =>
       \A i \in DOMAIN data' : \E j \in DOMAIN data :
         /\ data[j].key = data'[i].key
         /\ data[j].response = data'[i].response
         /\ data[j].ttl >= data'[i].ttl]_vars

(* "Every parameter that affects output MUST be in the key ... a           *)
(* max_tokens=50 request would serve a cached max_tokens=4000 answer"      *)
(* (cache.py:56).  The key names max_tokens, and acomplete stores under it *)
(* an answer the provider gave without that limit.                         *)
NoPoisonedEntry ==
  \A i \in DOMAIN data :
    data[i].key = <<data[i].response.prompt, data[i].response.max_tokens>>

(* Every request ends: with an answer, a refusal or an error.              *)
EveryRequestEnds == \A r \in Requests :
    request[r].pc # "idle" ~> request[r].pc = "idle"
=============================================================================
