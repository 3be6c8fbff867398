--------------------------- MODULE ServiceBreaker ---------------------------
(***************************************************************************)
(* The circuit breaker AiClient (07-java-integration) puts around the chat *)
(* service, shared by its two endpoints: resilience4j's, as application.yml*)
(* configures it - a count-based window of outcomes, in which an exception *)
(* that is not on the list of recorded ones counts as a success, and an    *)
(* automatic transition to half-open.  A breaker is a record, and what     *)
(* happens to it an operator, so that one step may do several things.      *)
(***************************************************************************)
EXTENDS Integers, SequencesExt, FiniteSets

CONSTANTS
  WindowSize,    \* slidingWindowSize
  MinimumCalls,  \* minimumNumberOfCalls
  Permitted      \* permittedNumberOfCallsInHalfOpenState

\* application.yml: 20, 10 and 3.
ASSUME WindowAssumption ==
  /\ {WindowSize, MinimumCalls, Permitted} \subseteq Nat \ {0}
  /\ Permitted <= MinimumCalls /\ MinimumCalls <= WindowSize

VARIABLE
  breaker  \* state; outcomes of the calls in the window, TRUE for a failure;
           \* permits, the probes that may still start in half_open

Closed == [state |-> "closed", outcomes |-> <<>>, permits |-> 0]
Opened == [Closed EXCEPT !.state = "open"]
HalfOpened == [state |-> "half_open", outcomes |-> <<>>, permits |-> Permitted]

Admits(b) == b.state = "closed" \/ (b.state = "half_open" /\ b.permits > 0)
Acquired(b) == IF b.state = "half_open" THEN [b EXCEPT !.permits = @ - 1] ELSE b

Newer(window) == SubSeq(window, Max({1, Len(window) - WindowSize + 1}), Len(window))
\* failureRateThreshold: 50.  The slow-call rate, which application.yml leaves at its
\* default (every call slower than a minute), is left out.
TooManyFailures(window, minimum) ==
  /\ Len(window) >= minimum
  /\ 2 * Cardinality({i \in DOMAIN window : window[i]}) >= Len(window)

\* Judged by the state the outcome finds, whichever state admitted the call.
RecordedClosed(b, failure) ==
  LET window == Newer(Append(b.outcomes, failure))
  IN  IF TooManyFailures(window, MinimumCalls) THEN Opened ELSE [b EXCEPT !.outcomes = window]
RecordedHalfOpen(b, failure) ==
  LET window == Append(b.outcomes, failure)
  IN  CASE Len(window) < Permitted -> [b EXCEPT !.outcomes = window]
        [] Len(window) >= Permitted /\ TooManyFailures(window, Permitted) -> Opened
        [] OTHER -> Closed
Recorded(b, failure) ==
  CASE b.state = "closed" -> RecordedClosed(b, failure)
    [] b.state = "half_open" -> RecordedHalfOpen(b, failure)
    [] b.state = "open" -> b

\* Mutant: a cancelled probe keeps its permission.
Released_forgotten(b) == b
\* releasePermission.
Released(b) == IF b.state = "half_open" THEN [b EXCEPT !.permits = @ + 1] ELSE b

\* A call that is cancelled is a success if something of it has been seen.
Cancelled(b, seen) == IF seen THEN Recorded(b, FALSE) ELSE Released(b)

\* waitDurationInOpenState is over.
WaitOver == breaker.state = "open" /\ breaker' = HalfOpened
=============================================================================
