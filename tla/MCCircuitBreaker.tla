-------------------------- MODULE MCCircuitBreaker --------------------------
(* Model-checking instance of BreakerStreak: three callers are enough for  *)
(* a late call, a probe and a second probe to overlap; two failures and    *)
(* two successes make a streak and its interruption possible.              *)
EXTENDS BreakerStreak
=============================================================================
