--------------------------- MODULE BreakerStreak ---------------------------
(***************************************************************************)
(* CircuitBreaker with one more history variable, counted from the         *)
(* outcomes themselves and not from the breaker's own counter: the         *)
(* failures reported since the breaker closed or a call last succeeded.    *)
(***************************************************************************)
EXTENDS CircuitBreaker

VARIABLE streak

StreakInit == Init /\ streak = 0

StreakNext ==
  \/ /\ \E c \in Callers : RecordFailure(c)
     /\ streak' = IF state' = "closed" THEN streak + 1 ELSE 0
  \/ /\ (\E c \in Callers : RecordSuccess(c)) \/ Reset
     /\ streak' = 0
  \/ /\ \/ \E c \in Callers : Allow(c) \/ Reject(c) \/ ClientError(c)
        \/ MaybeHalfOpen
        \/ Tick
     /\ UNCHANGED streak

StreakSpec == StreakInit /\ [][StreakNext]_<<vars, streak>>
FairStreakSpec == StreakSpec /\ Fairness

(* "consecutive failures in CLOSED before opening" (circuit.py:74): the    *)
(* breaker opens only when FailureThreshold calls failed one after another *)
(* since it last closed.  Not counted are the client errors in between,    *)
(* and the failures of calls that returned late, while it was open.        *)
OpensOnFullStreak ==
  [][state = "closed" /\ state' = "open" => streak + 1 >= FailureThreshold]_vars
=============================================================================
