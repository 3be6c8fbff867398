--------------------------- MODULE CircuitBreaker ---------------------------
(***************************************************************************)
(* The circuit breaker every provider call of LLMClient goes through       *)
(* (03-llm-integration/llmkit/circuit.py), under concurrent callers.       *)
(*                                                                         *)
(* call() and call_async() are two critical sections under the breaker's   *)
(* lock, _allow before the wrapped function and one of record_success,     *)
(* record_failure or the slot release after it.  Each is one action here,  *)
(* and anything may happen in between: the breaker can change state while  *)
(* the call is in flight.                                                  *)
(*                                                                         *)
(* The clock is read only as clock() - _opened_at >= recovery_timeout, so  *)
(* the model keeps that difference, in units of the timeout's resolution   *)
(* and saturated at RecoveryTimeout.  The two exported metrics             *)
(* (rejected_calls, state_changes) are written and never read: left out.   *)
(***************************************************************************)
EXTENDS Integers, FiniteSets

CONSTANTS
  Callers,           \* threads or tasks sharing the breaker, one call each at a time
  FailureThreshold,  \* consecutive failures in "closed" before opening
  RecoveryTimeout,   \* time spent "open" before probing
  SuccessThreshold,  \* successes in "half_open" before closing
  HalfOpenMaxCalls   \* concurrent probes allowed in "half_open"

\* Only failure_threshold is validated by the constructor (circuit.py:95).
ASSUME BreakerAssumption ==
  /\ IsFiniteSet(Callers)
  /\ FailureThreshold \in Nat \ {0}
  /\ RecoveryTimeout \in Nat
  /\ SuccessThreshold \in Nat
  /\ HalfOpenMaxCalls \in Nat

VARIABLES
  state,            \* _state
  failures,         \* _failures
  successes,        \* _successes
  half_open_calls,  \* _half_open_calls
  since_opened,     \* clock() - _opened_at, saturated
  \* History, which the code does not keep:
  in_flight,        \* per caller: "idle", or a call admitted in the present era
                    \* ("fresh") or before the last state change ("stale")
  intruded          \* a stale call has returned during this "half_open" era

breaker == <<state, failures, successes, half_open_calls, since_opened>>
vars == <<breaker, in_flight, intruded>>

Fresh == {c \in Callers : in_flight[c] = "fresh"}

TypeOK ==
  /\ state \in {"closed", "open", "half_open"}
  /\ failures \in 0 .. FailureThreshold - 1
  /\ successes \in Nat /\ (successes = 0 \/ successes < SuccessThreshold)
  /\ half_open_calls \in 0 .. HalfOpenMaxCalls
  /\ since_opened \in 0 .. RecoveryTimeout
  /\ in_flight \in [Callers -> {"idle", "fresh", "stale"}]
  /\ intruded \in BOOLEAN

Init ==
  /\ state = "closed"
  /\ failures = 0
  /\ successes = 0
  /\ half_open_calls = 0
  /\ since_opened = 0
  /\ in_flight = [c \in Callers |-> "idle"]
  /\ intruded = FALSE

-----------------------------------------------------------------------------
(* The breaker as _allow and the state property see it, that is after      *)
(* _maybe_half_open.                                                       *)

Elapsed_no_timer == state = "open"
Elapsed == state = "open" /\ since_opened >= RecoveryTimeout

SeenState == IF Elapsed THEN "half_open" ELSE state
SeenSuccesses == IF Elapsed THEN 0 ELSE successes

SeenHalfOpenCalls_kept == half_open_calls
SeenHalfOpenCalls == IF Elapsed THEN 0 ELSE half_open_calls

\* History: the calls in flight as the era that follows finds them.
CallsIn(next_state) ==
  [c \in Callers |-> IF next_state # state /\ in_flight[c] = "fresh"
                     THEN "stale" ELSE in_flight[c]]

\* History: the call of c ends, and the breaker's next state is known.
Return(c) ==
  /\ in_flight' = [CallsIn(state') EXCEPT ![c] = "idle"]
  /\ intruded' = /\ state = "half_open" /\ state' = "half_open"
                 /\ intruded \/ in_flight[c] = "stale"

MaybeHalfOpen ==
  /\ state' = SeenState
  /\ successes' = SeenSuccesses
  /\ half_open_calls' = SeenHalfOpenCalls
  /\ in_flight' = CallsIn(SeenState)
  /\ intruded' = (intruded /\ ~Elapsed)
  /\ UNCHANGED <<failures, since_opened>>

-----------------------------------------------------------------------------
(* _allow *)

MayPass_off_by_one ==
  \/ SeenState = "closed"
  \/ SeenState = "half_open" /\ SeenHalfOpenCalls <= HalfOpenMaxCalls
MayPass ==
  \/ SeenState = "closed"
  \/ SeenState = "half_open" /\ SeenHalfOpenCalls < HalfOpenMaxCalls

Allow(c) ==
  /\ in_flight[c] = "idle"
  /\ MayPass
  /\ state' = SeenState
  /\ successes' = SeenSuccesses
  /\ half_open_calls' =
       SeenHalfOpenCalls + (IF SeenState = "half_open" THEN 1 ELSE 0)
  /\ in_flight' = [CallsIn(SeenState) EXCEPT ![c] = "fresh"]
  /\ intruded' = (intruded /\ ~Elapsed)
  /\ UNCHANGED <<failures, since_opened>>

\* CircuitOpenError: the call does not proceed, but the timer was looked at.
Reject(c) ==
  /\ in_flight[c] = "idle"
  /\ ~MayPass
  /\ MaybeHalfOpen

-----------------------------------------------------------------------------
(* The outcome of a call *)

Release_leak == half_open_calls
Release == IF half_open_calls > 0 THEN half_open_calls - 1 ELSE 0

Open ==
  /\ state' = "open"
  /\ since_opened' = 0
  /\ failures' = 0
  /\ successes' = 0

\* "half_open", record_success, below the success threshold.
ProbeSuccess ==
  /\ state = "half_open"
  /\ successes + 1 < SuccessThreshold
  /\ successes' = successes + 1
  /\ half_open_calls' = Release
  /\ UNCHANGED <<state, failures, since_opened>>

\* "half_open", record_success, the last success needed.
Close_keeping_failures ==
  /\ state = "half_open"
  /\ successes + 1 >= SuccessThreshold
  /\ state' = "closed"
  /\ successes' = 0
  /\ half_open_calls' = Release
  /\ UNCHANGED <<failures, since_opened>>
Close ==
  /\ state = "half_open"
  /\ successes + 1 >= SuccessThreshold
  /\ state' = "closed"
  /\ failures' = 0
  /\ successes' = 0
  /\ half_open_calls' = Release
  /\ UNCHANGED since_opened

\* record_success in "closed", and in "open" for a call admitted earlier.
ClearStreak ==
  /\ state # "half_open"
  /\ failures' = 0
  /\ UNCHANGED <<state, successes, half_open_calls, since_opened>>

RecordSuccess(c) ==
  /\ in_flight[c] # "idle"
  /\ ProbeSuccess \/ Close \/ ClearStreak
  /\ Return(c)

ProbeFailure ==
  /\ state = "half_open"
  /\ half_open_calls' = Release
  /\ Open

\* record_failure in "closed", and in "open" for a call admitted earlier.
CountFailure ==
  /\ state # "half_open"
  /\ failures + 1 < FailureThreshold
  /\ failures' = failures + 1
  /\ UNCHANGED <<state, successes, half_open_calls, since_opened>>

\* At the threshold, which in "open" restarts a timer already running.
Trip ==
  /\ state # "half_open"
  /\ failures + 1 >= FailureThreshold
  /\ Open
  /\ UNCHANGED half_open_calls

\* Retryable LLMErrors, and every exception that is not an LLMError:
\* default_is_failure also takes a cancelled task for a provider failure.
RecordFailure(c) ==
  /\ in_flight[c] # "idle"
  /\ ProbeFailure \/ CountFailure \/ Trip
  /\ Return(c)

\* An LLMError that is not retryable: neither a success nor a failure.
ClientError(c) ==
  /\ in_flight[c] # "idle"
  /\ half_open_calls' = IF state = "half_open" THEN Release ELSE half_open_calls
  /\ UNCHANGED <<state, failures, successes, since_opened>>
  /\ Return(c)

-----------------------------------------------------------------------------
Reset ==
  /\ state' = "closed"
  /\ failures' = 0
  /\ successes' = 0
  /\ half_open_calls' = 0
  /\ in_flight' = CallsIn("closed")
  /\ intruded' = FALSE
  /\ UNCHANGED since_opened

\* Time passes; only an open breaker measures it.
Tick ==
  /\ since_opened < RecoveryTimeout
  /\ since_opened' = since_opened + 1
  /\ UNCHANGED <<state, failures, successes, half_open_calls, in_flight, intruded>>

Next ==
  \/ \E c \in Callers : \/ Allow(c) \/ Reject(c)
                        \/ RecordSuccess(c) \/ RecordFailure(c) \/ ClientError(c)
  \/ MaybeHalfOpen
  \/ Reset
  \/ Tick

(***************************************************************************)
(* Time passes, traffic keeps arriving, and a caller whose calls are       *)
(* admitted again and again does not send only malformed requests.         *)
(***************************************************************************)
Fairness ==
  /\ WF_vars(Tick)
  /\ \A c \in Callers : WF_vars(Allow(c)) /\ SF_vars(RecordSuccess(c))

Spec == Init /\ [][Next]_vars

-----------------------------------------------------------------------------
(* A slot taken in "half_open" belongs to a call that is still in flight.  *)
(* Were one leaked, the breaker would refuse every call and never leave    *)
(* "half_open": nothing but a returning call changes its state there.      *)
NoLeakedProbeSlot ==
  state = "half_open" => half_open_calls <= Cardinality(Fresh)

(* As long as no call of an earlier era has returned in the present        *)
(* "half_open" era, the slots count the probes in flight exactly and the   *)
(* limit of half_open_max_calls concurrent probes holds.                   *)
ProbeLimit ==
  state = "half_open" /\ ~intruded =>
    /\ half_open_calls = Cardinality(Fresh)
    /\ Cardinality(Fresh) <= HalfOpenMaxCalls

(* "half_open_max_calls: concurrent probes allowed in HALF_OPEN"           *)
(* (circuit.py:77), without ProbeLimit's condition.  The code breaks it: a *)
(* call admitted earlier gives back a slot it never took.                  *)
ConcurrentProbesLimited ==
  state = "half_open" => Cardinality(Fresh) <= HalfOpenMaxCalls

(* Apart from reset(), the breaker implements the diagram its docstring    *)
(* draws (BreakerDiagram): in particular it leaves "open" only through     *)
(* "half_open", a full recovery timeout after the last time it opened.     *)
Diagram == INSTANCE BreakerDiagram
FollowsDiagram ==
  Diagram!Init /\ [][Diagram!Next \/ Reset]_<<state, since_opened>>

(* Once no more calls fail, the breaker closes for good.                   *)
Recovers ==
  <>[][\A c \in Callers : ~RecordFailure(c)]_vars => <>[](state = "closed")
=============================================================================
