--------------------------- MODULE BreakerDiagram ---------------------------
(***************************************************************************)
(* What the breaker promises its users: the state diagram of circuit.py's  *)
(* docstring with its timer, and nothing of threads, streaks and slots.    *)
(*                                                                         *)
(*   closed -> open        open -> half_open, once the timer has run out   *)
(*   half_open -> closed   half_open -> open, the timer restarted          *)
(*                                                                         *)
(* The code has one arc the docstring does not draw: failures of calls     *)
(* that return late restart the timer of a breaker that is already open.   *)
(***************************************************************************)
EXTENDS Naturals

CONSTANT RecoveryTimeout

VARIABLES state, since_opened

vars == <<state, since_opened>>

Init == state = "closed" /\ since_opened = 0

GoOpen == state' = "open" /\ since_opened' = 0

HalfOpen ==
  /\ state = "open"
  /\ since_opened >= RecoveryTimeout
  /\ state' = "half_open"
  /\ UNCHANGED since_opened

GoClosed ==
  /\ state = "half_open"
  /\ state' = "closed"
  /\ UNCHANGED since_opened

Tick ==
  /\ since_opened < RecoveryTimeout
  /\ since_opened' = since_opened + 1
  /\ UNCHANGED state

Next == GoOpen \/ HalfOpen \/ GoClosed \/ Tick

Spec == Init /\ [][Next]_vars
=============================================================================
