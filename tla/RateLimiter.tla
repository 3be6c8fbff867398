---------------------------- MODULE RateLimiter ----------------------------
(***************************************************************************)
(* The rate limiter of the production service (06-production-service/app/  *)
(* middleware.py): one token bucket for each API key, filled lazily from   *)
(* the time that passed since it was last touched.                         *)
(*                                                                         *)
(* check() takes the lock twice, to find the bucket and to consume from    *)
(* it.  Buckets are never removed while the service runs (reset() is a     *)
(* hook for tests), so the two sections are one action.  The paths exempt  *)
(* from limiting touch no bucket and are left out.                         *)
(*                                                                         *)
(* The code measures time in fractions of a second.  A tick is as short as *)
(* one likes: Second ticks make a second, and Unit units a token, fine     *)
(* enough for a tick to gain a whole number of units.  The time since the  *)
(* last touch is saturated at Horizon, by when any bucket is full.         *)
(***************************************************************************)
EXTENDS Integers

CONSTANTS
  Keys,      \* API keys, or addresses of clients that send none
  Burst,     \* rate_limit_burst, in tokens
  Unit,      \* the units of a token
  Second,    \* the ticks of a second
  Refill,    \* units gained per tick: rate_limit_per_minute * Unit / (60 * Second)
  Grain,     \* 1 / (1 - 0.999): the header rounds up what is a Grain-th of a second
  Horizon,   \* ticks after which an untouched bucket is full
  MaxWatch   \* ticks an observer counts for

Capacity == Burst * Unit
RefillPerSecond == Refill * Second

\* Settings requires a positive rate and a positive burst (config.py:59-60).
ASSUME LimiterAssumption ==
  /\ Burst \in Nat \ {0}
  /\ Unit \in Nat \ {0}
  /\ Second \in Nat \ {0}
  /\ Refill \in Nat \ {0}
  /\ Grain \in Nat \ {0}
  /\ Horizon \in Nat /\ Horizon * Refill >= Capacity
  /\ MaxWatch \in Nat

NoPromise == -1

VARIABLES
  bucket,    \* per key: the tokens at the last touch and the time since
  \* History, which the code does not keep:
  promise,   \* per key: ticks until the first Retry-After not yet honoured
  watch      \* per key: what an observer counted since it began to

vars == <<bucket, promise, watch>>

TypeOK ==
  /\ bucket \in [Keys -> [tokens : 0 .. Capacity, idle : 0 .. Horizon]]
  /\ promise \in [Keys -> Nat \union {NoPromise}]
  /\ watch \in [Keys -> [admitted : Nat, ticks : 0 .. MaxWatch]]

\* A bucket nobody has asked for yet is as good as a full one.
Init ==
  /\ bucket = [k \in Keys |-> [tokens |-> Capacity, idle |-> 0]]
  /\ promise = [k \in Keys |-> NoPromise]
  /\ watch = [k \in Keys |-> [admitted |-> 0, ticks |-> 0]]

-----------------------------------------------------------------------------
Filled(amount) == IF amount < Capacity THEN amount ELSE Capacity

\* The tokens consume() finds: min(capacity, tokens + elapsed * refill).
Available_uncapped(k) == bucket[k].tokens + bucket[k].idle * Refill
Available(k) == Filled(bucket[k].tokens + bucket[k].idle * Refill)

\* retry_after() in seconds and the header made of it, max(1, int(seconds + 0.999)).
RetryAfter_rounded_down(missing) ==
  IF missing < RefillPerSecond THEN 1 ELSE missing \div RefillPerSecond
RetryAfter(missing) ==
  LET rounded == (Grain * missing + (Grain - 1) * RefillPerSecond) \div (Grain * RefillPerSecond)
  IN  IF rounded < 1 THEN 1 ELSE rounded

Admit(k) ==
  /\ Available(k) >= Unit
  /\ bucket' = [bucket EXCEPT ![k] = [tokens |-> Available(k) - Unit, idle |-> 0]]
  /\ promise' = [promise EXCEPT ![k] = NoPromise]
  /\ watch' = [watch EXCEPT ![k].admitted = @ + 1]

\* 429; a client that asks again too early is promised nothing new.
Touched_keeping_idle(k) == [bucket[k] EXCEPT !.tokens = Available(k)]
Touched_forgetting(k) == [bucket[k] EXCEPT !.idle = 0]
Touched(k) == [tokens |-> Available(k), idle |-> 0]

Limit(k) ==
  /\ Available(k) < Unit
  /\ bucket' = [bucket EXCEPT ![k] = Touched(k)]
  /\ promise' = [promise EXCEPT ![k] =
                   IF @ = NoPromise THEN RetryAfter(Unit - Available(k)) * Second ELSE @]
  /\ UNCHANGED watch

\* A tick passes for every bucket; observers give up after MaxWatch.
Tick ==
  /\ bucket' = [k \in Keys |-> [bucket[k] EXCEPT !.idle = IF @ < Horizon THEN @ + 1 ELSE @]]
  /\ promise' = [k \in Keys |-> IF promise[k] > 0 THEN promise[k] - 1 ELSE promise[k]]
  /\ watch' = [k \in Keys |->
       IF watch[k].ticks < MaxWatch THEN [watch[k] EXCEPT !.ticks = @ + 1]
       ELSE [admitted |-> 0, ticks |-> 0]]

\* History: an observer may begin to count at any time.
Observe(k) ==
  /\ watch' = [watch EXCEPT ![k] = [admitted |-> 0, ticks |-> 0]]
  /\ UNCHANGED <<bucket, promise>>

Check(k) == Admit(k) \/ Limit(k)

Next == Tick \/ \E k \in Keys : Check(k) \/ Observe(k)

\* Time passes, and clients of every key keep asking, as fast as they like.
Fairness == WF_vars(Tick) /\ \A k \in Keys : WF_vars(Check(k))

Spec == Init /\ [][Next]_vars
FairSpec == Spec /\ Fairness

-----------------------------------------------------------------------------
(* The lazy computation is worth a background timer: seen through          *)
(* Available, the buckets are those of TokenBucket, whenever they happen   *)
(* to be touched and however often.                                        *)
Eager == INSTANCE TokenBucket WITH tokens <- [k \in Keys |-> Available(k)]
ImplementsTokenBucket == Eager!Spec

(* The fixed window's flaw is not there ("allows 2x the limit across a     *)
(* boundary", middleware.py:10): between any two instants a key is         *)
(* admitted at most Burst times plus what the rate gives in between.       *)
RateHolds ==
  \A k \in Keys :
    watch[k].admitted * Unit + Available(k) <= Capacity + watch[k].ticks * Refill

(* "Telling a client exactly when to come back" (middleware.py:80), as far *)
(* as whole seconds and a rounding by 0.999 go: who waits for as long as   *)
(* Retry-After said, even if it asked again in the meantime, lacks less    *)
(* than a Grain-th of a second (a millisecond) for its token, unless       *)
(* another client of the key was admitted; and who still waits is kept for *)
(* less than a second beyond what it lacks.                                *)
RetryAfterFits ==
  \A k \in Keys :
    LET missing == Unit - Available(k)
    IN  /\ promise[k] = 0 => Grain * missing < RefillPerSecond
        /\ promise[k] > 0 => promise[k] * Refill < missing + RefillPerSecond

(* Hammering the limiter does not starve a key: rejected requests touch    *)
(* the bucket and lose none of what has accrued.                           *)
ServedAgain == \A k \in Keys : []<><<Admit(k)>>_vars
=============================================================================
