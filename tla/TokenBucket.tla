---------------------------- MODULE TokenBucket ----------------------------
(***************************************************************************)
(* What the rate limiter promises each API key: a bucket of at most        *)
(* Capacity that is filled by Refill every tick, as if by a background     *)
(* timer, and from which every admitted request takes Unit.                *)
(***************************************************************************)
EXTENDS Integers

CONSTANTS Keys, Capacity, Refill, Unit

VARIABLE tokens

Filled(amount) == IF amount < Capacity THEN amount ELSE Capacity

Init == tokens = [k \in Keys |-> Capacity]

Take(k) ==
  /\ tokens[k] >= Unit
  /\ tokens' = [tokens EXCEPT ![k] = @ - Unit]

Tick == tokens' = [k \in Keys |-> Filled(tokens[k] + Refill)]

Next == Tick \/ \E k \in Keys : Take(k)

Spec == Init /\ [][Next]_tokens
=============================================================================
