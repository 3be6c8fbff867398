------------------------------- MODULE Retry -------------------------------
(***************************************************************************)
(* The retry policy (03-llm-integration/llmkit/retry.py): how long to wait *)
(* after a failed attempt, and whether to wait at all.  with_retry and     *)
(* with_retry_async share it; their loop is part of LLMClient.             *)
(***************************************************************************)
EXTENDS Integers

CONSTANTS
  MaxAttempts, BaseDelay, MaxDelay, MaxElapsed,   \* RetryPolicy, in clock ticks
  RetryAfters                                     \* what providers may ask for

\* __post_init__ checks the first two.
RetryAssumption ==
  /\ MaxAttempts \in Nat \ {0}
  /\ BaseDelay \in Nat \ {0}
  /\ MaxDelay \in Nat
  /\ MaxElapsed \in Nat
  /\ RetryAfters \subseteq Nat

\* compute_delay: the provider's Retry-After, capped and without jitter.
HonouredDelays == {IF after < MaxDelay THEN after ELSE MaxDelay : after \in RetryAfters}

\* compute_delay: full jitter under an exponential ceiling; attempts count from 0.
JitteredDelays(attempt) == {delay \in 0 .. MaxDelay : delay <= BaseDelay * 2 ^ attempt}

Delays(attempt) == HonouredDelays \union JitteredDelays(attempt)

MayRetry_without_attempts(attempt, elapsed, delay) == elapsed + delay <= MaxElapsed
MayRetry(attempt, elapsed, delay) ==
  /\ attempt < MaxAttempts - 1
  /\ elapsed + delay <= MaxElapsed
=============================================================================
