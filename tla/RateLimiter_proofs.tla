------------------------ MODULE RateLimiter_proofs ------------------------
(***************************************************************************)
(* Proofs about RateLimiter, for any keys, burst, rate and resolution.     *)
(***************************************************************************)
EXTENDS RateLimiter, TLAPS

LEMMA CapacityIsNat == Capacity \in Nat /\ Capacity >= Unit /\ Unit > 0
BY LimiterAssumption DEF Capacity

\* The arithmetic of filling lazily: a tick more is one refill more.
LEMMA OneMoreRefill ==
  ASSUME NEW n \in Nat
  PROVE  /\ n * Refill \in Nat
         /\ (n + 1) * Refill = n * Refill + Refill
BY LimiterAssumption

\* A bucket left alone for Horizon ticks is full, and stays so.
LEMMA FullAtHorizon ==
  ASSUME NEW amount \in Nat
  PROVE  amount + Horizon * Refill >= Capacity
BY OneMoreRefill, LimiterAssumption, CapacityIsNat

LEMMA FilledBounds ==
  ASSUME NEW amount \in Nat
  PROVE  Filled(amount) \in 0 .. Capacity
BY CapacityIsNat DEF Filled

LEMMA AvailableBounds ==
  ASSUME TypeOK, NEW k \in Keys
  PROVE  Available(k) \in 0 .. Capacity
<1>1. bucket[k].tokens \in Nat /\ bucket[k].idle \in Nat
  BY CapacityIsNat, LimiterAssumption DEF TypeOK
<1>2. bucket[k].tokens + bucket[k].idle * Refill \in Nat
  BY <1>1, OneMoreRefill
<1> QED
  BY <1>2, FilledBounds DEF Available

\* int(seconds + 0.999) rounds up, except for less than a Grain-th of a second, and
\* to less than a second more.
LEMMA RetryAfterRounds ==
  ASSUME NEW missing \in Nat
  PROVE  /\ RetryAfter(missing) \in Nat
         /\ Grain * (missing - RetryAfter(missing) * RefillPerSecond) < RefillPerSecond
         /\ missing > 0 => RetryAfter(missing) * RefillPerSecond < missing + RefillPerSecond
<1> DEFINE p == RefillPerSecond
           a == Grain * missing + (Grain - 1) * p
           b == Grain * p
           q == a \div b
<1>1. p \in Nat \ {0} /\ Grain \in Nat \ {0}
  BY LimiterAssumption DEF RefillPerSecond
<1> HIDE DEF p
<1>2. /\ Grain * missing \in Nat /\ Grain * p \in Nat \ {0} /\ (Grain - 1) * p = Grain * p - p
      /\ Grain * p - p \in Nat
  BY <1>1
<1>3. a \in Nat /\ b \in Nat \ {0}
  BY <1>2
<1>4. q \in Nat /\ b * q <= a /\ a < b * q + b
  <2> HIDE DEF a, b
  <2> QED
    BY <1>3
<1> HIDE DEF q
<1>5. b * q = Grain * (q * p) /\ q * p \in Nat
  BY <1>1, <1>4
<1>6. Grain * (missing - q * p) < p
  <2>1. Grain * (missing - q * p) = Grain * missing - Grain * (q * p)
    BY <1>1, <1>5
  <2>2. Grain * (q * p) \in Nat
    BY <1>1, <1>5
  <2> QED
    BY <1>1, <1>2, <1>4, <1>5, <2>1, <2>2
<1>7. q * p < missing + p
  <2> SUFFICES ASSUME missing + p <= q * p
               PROVE  FALSE
    BY <1>1, <1>5
  <2>1. Grain * (missing + p) <= Grain * (q * p)
    BY <1>1, <1>5
  <2>2. Grain * (missing + p) = Grain * missing + Grain * p
    BY <1>1
  <2>3. Grain * (q * p) \in Nat
    BY <1>1, <1>5
  <2> QED
    BY <1>1, <1>2, <1>4, <1>5, <2>1, <2>2, <2>3
<1>8. RetryAfter(missing) = IF q < 1 THEN 1 ELSE q
  BY DEF RetryAfter, q, p
<1>9. CASE q < 1
  <2>1. q = 0 /\ q * p = 0
    BY <1>1, <1>4, <1>9
  <2>2. Grain * missing < p
    BY <1>6, <2>1
  <2>3. Grain * (missing - 1 * p) = Grain * missing - Grain * p
    BY <1>1
  <2>4. Grain * (missing - 1 * p) < p
    BY <1>1, <1>2, <2>2, <2>3
  <2>5. RetryAfter(missing) = 1 /\ 1 * p = p
    BY <1>1, <1>8, <1>9
  <2>6. missing > 0 => p < missing + p
    BY <1>1
  <2> QED
    BY <2>4, <2>5, <2>6 DEF p
<1>10. CASE ~(q < 1)
  BY <1>4, <1>6, <1>7, <1>8, <1>10 DEF p
<1> QED
  BY <1>9, <1>10

(* The state of the limiter and of its observers is well-typed; no bucket  *)
(* holds more than the burst.                                              *)
THEOREM TypeCorrect == Spec => []TypeOK
<1> USE LimiterAssumption
<1>1. Init => TypeOK
  BY CapacityIsNat DEF Init, TypeOK
<1>2. TypeOK /\ [Next]_vars => TypeOK'
  <2> SUFFICES ASSUME TypeOK, [Next]_vars
               PROVE  TypeOK'
    OBVIOUS
  <2>1. ASSUME NEW k \in Keys, Admit(k)
        PROVE  TypeOK'
    <3>1. Available(k) - Unit \in 0 .. Capacity
      BY <2>1, AvailableBounds, CapacityIsNat DEF Admit
    <3>2. bucket' \in [Keys -> [tokens : 0 .. Capacity, idle : 0 .. Horizon]]
      BY <2>1, <3>1 DEF Admit, TypeOK
    <3>3. promise' \in [Keys -> Nat \union {NoPromise}]
      BY <2>1 DEF Admit, TypeOK
    <3>4. watch' \in [Keys -> [admitted : Nat, ticks : 0 .. MaxWatch]]
      BY <2>1 DEF Admit, TypeOK
    <3> QED
      BY <3>2, <3>3, <3>4 DEF TypeOK
  <2>2. ASSUME NEW k \in Keys, Limit(k)
        PROVE  TypeOK'
    <3>1. Available(k) \in 0 .. Capacity
      BY AvailableBounds
    <3>2. bucket' \in [Keys -> [tokens : 0 .. Capacity, idle : 0 .. Horizon]]
      BY <2>2, <3>1 DEF Limit, Touched, TypeOK
    <3>3. RetryAfter(Unit - Available(k)) * Second \in Nat
      <4>1. Unit - Available(k) \in Nat
        BY <2>2, <3>1, CapacityIsNat DEF Limit
      <4>2. RetryAfter(Unit - Available(k)) \in Nat
        BY <4>1, RetryAfterRounds
      <4> QED
        BY <4>2
    <3>4. promise' \in [Keys -> Nat \union {NoPromise}]
      BY <2>2, <3>3 DEF Limit, TypeOK
    <3> QED
      BY <2>2, <3>2, <3>4 DEF Limit, TypeOK
  <2>3. ASSUME NEW k \in Keys, Observe(k)
        PROVE  TypeOK'
    BY <2>3 DEF Observe, TypeOK
  <2>4. CASE Tick
    <3>1. bucket' \in [Keys -> [tokens : 0 .. Capacity, idle : 0 .. Horizon]]
      <4>1. ASSUME NEW b \in [tokens : 0 .. Capacity, idle : 0 .. Horizon]
            PROVE  [b EXCEPT !.idle = IF @ < Horizon THEN @ + 1 ELSE @]
                     \in [tokens : 0 .. Capacity, idle : 0 .. Horizon]
        BY <4>1
      <4> QED
        BY <2>4, <4>1 DEF Tick, TypeOK
    <3>2. promise' \in [Keys -> Nat \union {NoPromise}]
      BY <2>4 DEF Tick, TypeOK, NoPromise
    <3>3. watch' \in [Keys -> [admitted : Nat, ticks : 0 .. MaxWatch]]
      <4>1. ASSUME NEW k \in Keys, watch[k].ticks < MaxWatch
            PROVE  [watch[k] EXCEPT !.ticks = @ + 1] \in [admitted : Nat, ticks : 0 .. MaxWatch]
        BY <4>1 DEF TypeOK
      <4>2. [admitted |-> 0, ticks |-> 0] \in [admitted : Nat, ticks : 0 .. MaxWatch]
        OBVIOUS
      <4> QED
        BY <2>4, <4>1, <4>2 DEF Tick
    <3> QED
      BY <3>1, <3>2, <3>3 DEF TypeOK
  <2>5. CASE UNCHANGED vars
    BY <2>5 DEF vars, TypeOK
  <2> QED
    BY <2>1, <2>2, <2>3, <2>4, <2>5 DEF Next, Check
<1> QED
  BY <1>1, <1>2, PTL DEF Spec

-----------------------------------------------------------------------------
\* What each step does to the tokens a request would find.
LEMMA AvailableWhenFresh ==
  ASSUME NEW k \in Keys, NEW amount \in 0 .. Capacity,
         bucket'[k].tokens = amount, bucket'[k].idle = 0
  PROVE  Available(k)' = amount
BY OneMoreRefill, LimiterAssumption, CapacityIsNat DEF Available, Filled

LEMMA AdmitTakes ==
  ASSUME TypeOK, NEW k \in Keys, Admit(k)
  PROVE  /\ Available(k)' = Available(k) - Unit
         /\ \A l \in Keys \ {k} : Available(l)' = Available(l)
<1>1. Available(k) - Unit \in 0 .. Capacity
  BY AvailableBounds, CapacityIsNat, LimiterAssumption DEF Admit
<1>2. bucket'[k].tokens = Available(k) - Unit /\ bucket'[k].idle = 0
  BY DEF Admit, TypeOK
<1>3. \A l \in Keys \ {k} : bucket'[l] = bucket[l]
  BY DEF Admit, TypeOK
<1> QED
  BY <1>1, <1>2, <1>3, AvailableWhenFresh DEF Available

LEMMA LimitKeeps ==
  ASSUME TypeOK, NEW k \in Keys, Limit(k)
  PROVE  \A l \in Keys : Available(l)' = Available(l)
<1>1. Available(k) \in 0 .. Capacity
  BY AvailableBounds
<1>2. bucket'[k].tokens = Available(k) /\ bucket'[k].idle = 0
  BY DEF Limit, Touched, TypeOK
<1>3. Available(k)' = Available(k)
  BY <1>1, <1>2, AvailableWhenFresh
<1>4. \A l \in Keys \ {k} : bucket'[l] = bucket[l]
  BY DEF Limit, TypeOK
<1> QED
  BY <1>3, <1>4 DEF Available

LEMMA TickFills ==
  ASSUME TypeOK, Tick, NEW k \in Keys
  PROVE  Available(k)' = Filled(Available(k) + Refill)
<1>1. /\ bucket[k].tokens \in Nat
      /\ bucket[k].idle \in Nat /\ bucket[k].idle <= Horizon
  BY CapacityIsNat, LimiterAssumption DEF TypeOK
<1>2. bucket'[k].tokens = bucket[k].tokens
  BY DEF Tick, TypeOK
<1> DEFINE amount == bucket[k].tokens + bucket[k].idle * Refill
<1>3. amount \in Nat
  BY <1>1, OneMoreRefill
<1>4. CASE bucket[k].idle < Horizon
  <2>1. bucket'[k].idle = bucket[k].idle + 1
    BY <1>4 DEF Tick, TypeOK
  <2>2. bucket'[k].tokens + bucket'[k].idle * Refill = amount + Refill
    <3>1. (bucket[k].idle + 1) * Refill = bucket[k].idle * Refill + Refill
      BY <1>1, OneMoreRefill
    <3>2. bucket[k].idle * Refill \in Nat
      BY <1>1, OneMoreRefill
    <3> QED
      BY <1>1, <1>2, <2>1, <3>1, <3>2, LimiterAssumption
  <2> QED
    BY <1>3, <2>2, LimiterAssumption, CapacityIsNat DEF Available, Filled
<1>5. CASE bucket[k].idle = Horizon
  <2>1. bucket'[k].idle = Horizon
    BY <1>5 DEF Tick, TypeOK
  <2>2. amount >= Capacity
    BY <1>1, <1>5, FullAtHorizon
  <2>3. Available(k) = Capacity /\ Available(k)' = Capacity
    BY <1>2, <1>3, <1>5, <2>1, <2>2, CapacityIsNat DEF Available, Filled
  <2> QED
    BY <2>3, LimiterAssumption, CapacityIsNat DEF Filled
<1> QED
  BY <1>1, <1>4, <1>5, LimiterAssumption

(* The lazily filled buckets implement those a timer would fill: every     *)
(* admission takes a token, every tick adds one refill, and a rejection    *)
(* changes nothing.                                                        *)
THEOREM LazyIsEager == Spec => ImplementsTokenBucket
<1> DEFINE seen == [k \in Keys |-> Available(k)]
<1>1. Init => Eager!Init
  <2> SUFFICES ASSUME Init, NEW k \in Keys
               PROVE  Available(k) = Capacity
    BY DEF Eager!Init
  <2> QED
    BY OneMoreRefill, CapacityIsNat DEF Init, Available, Filled
<1>2. TypeOK /\ [Next]_vars => [Eager!Next]_seen
  <2> SUFFICES ASSUME TypeOK, [Next]_vars
               PROVE  Eager!Next \/ seen' = seen
    OBVIOUS
  <2>1. ASSUME NEW k \in Keys, Admit(k)
        PROVE  Eager!Take(k)
    BY <2>1, AdmitTakes DEF Admit, Eager!Take
  <2>2. ASSUME NEW k \in Keys, Limit(k)
        PROVE  seen' = seen
    BY <2>2, LimitKeeps
  <2>3. CASE Tick
    <3>1. \A k \in Keys : Available(k)' = Eager!Filled(seen[k] + Refill)
      BY <2>3, TickFills DEF Eager!Filled, Filled
    <3> QED
      BY <3>1 DEF Eager!Tick, Eager!Next
  <2>4. ASSUME NEW k \in Keys, Observe(k)
        PROVE  seen' = seen
    BY <2>4 DEF Observe, Available
  <2>5. CASE UNCHANGED vars
    BY <2>5 DEF vars, Available
  <2> QED
    BY <2>1, <2>2, <2>3, <2>4, <2>5 DEF Next, Check, Eager!Next
<1> QED
  BY <1>1, <1>2, TypeCorrect, PTL DEF Spec, ImplementsTokenBucket, Eager!Spec

-----------------------------------------------------------------------------
(* Between any two instants, a key is admitted at most Burst times plus    *)
(* what the rate gives in between.  RateHolds is inductive: it counts what *)
(* is still in the bucket against the observer.                            *)
THEOREM RateIsHeld == Spec => []RateHolds
<1> USE LimiterAssumption
<1>1. ASSUME TypeOK, NEW k \in Keys
      PROVE  /\ Available(k) \in 0 .. Capacity
             /\ watch[k].admitted \in Nat /\ watch[k].ticks \in Nat
             /\ watch[k].admitted * Unit \in Nat
             /\ watch[k].ticks * Refill \in Nat
  BY <1>1, AvailableBounds DEF TypeOK
<1>2. Init => RateHolds
  <2> SUFFICES ASSUME Init, NEW k \in Keys
               PROVE  watch[k].admitted * Unit + Available(k)
                        <= Capacity + watch[k].ticks * Refill
    BY DEF RateHolds
  <2>1. Init => TypeOK
    BY CapacityIsNat DEF Init, TypeOK
  <2>2. watch[k].admitted * Unit = 0
    BY DEF Init
  <2> QED
    BY <1>1, <2>1, <2>2, CapacityIsNat
<1>3. TypeOK /\ RateHolds /\ [Next]_vars => RateHolds'
  <2> SUFFICES ASSUME TypeOK, RateHolds, [Next]_vars, NEW k \in Keys
               PROVE  (watch[k].admitted * Unit + Available(k)
                         <= Capacity + watch[k].ticks * Refill)'
    BY DEF RateHolds
  <2>1. watch[k].admitted * Unit + Available(k) <= Capacity + watch[k].ticks * Refill
    BY DEF RateHolds
  <2>3. CASE /\ watch'[k] = [admitted |-> 0, ticks |-> 0]
             /\ Available(k)' \in 0 .. Capacity
    <3>1. watch'[k].admitted * Unit = 0 /\ watch'[k].ticks * Refill = 0
      BY <2>3
    <3> QED
      BY <2>3, <3>1, CapacityIsNat
  <2>4. CASE watch'[k] = watch[k] /\ Available(k)' = Available(k)
    BY <2>1, <2>4
  <2>5. ASSUME NEW l \in Keys, Admit(l)
        PROVE  (watch[k].admitted * Unit + Available(k)
                  <= Capacity + watch[k].ticks * Refill)'
    <3>1. CASE l = k
      <4>1. /\ watch'[k].admitted = watch[k].admitted + 1
            /\ watch'[k].ticks = watch[k].ticks
        BY <2>5, <3>1 DEF Admit, TypeOK
      <4>2. (watch[k].admitted + 1) * Unit = watch[k].admitted * Unit + Unit
        BY <1>1
      <4>3. Available(k)' = Available(k) - Unit
        BY <2>5, <3>1, AdmitTakes
      <4> QED
        BY <1>1, <2>1, <4>1, <4>2, <4>3, CapacityIsNat
    <3>2. CASE l # k
      <4>1. watch'[k] = watch[k]
        BY <2>5, <3>2 DEF Admit, TypeOK
      <4> QED
        BY <2>4, <2>5, <3>2, <4>1, AdmitTakes
    <3> QED
      BY <3>1, <3>2
  <2>6. ASSUME NEW l \in Keys, Limit(l)
        PROVE  watch'[k] = watch[k] /\ Available(k)' = Available(k)
    BY <2>6, LimitKeeps DEF Limit
  <2>7. ASSUME NEW l \in Keys, Observe(l)
        PROVE  /\ \/ watch'[k] = [admitted |-> 0, ticks |-> 0]
                  \/ watch'[k] = watch[k]
               /\ Available(k)' = Available(k)
    BY <2>7 DEF Observe, TypeOK, Available
  <2>8. CASE Tick
    <3>1. CASE watch[k].ticks < MaxWatch
      <4>1. /\ watch'[k].admitted = watch[k].admitted
            /\ watch'[k].ticks = watch[k].ticks + 1
        BY <2>8, <3>1 DEF Tick, TypeOK
      <4>2. (watch[k].ticks + 1) * Refill = watch[k].ticks * Refill + Refill
        BY <1>1, OneMoreRefill
      <4>3. Available(k)' \in Nat /\ Available(k)' <= Available(k) + Refill
        BY <2>8, <1>1, TickFills, CapacityIsNat DEF Filled
      <4> QED
        BY <1>1, <2>1, <4>1, <4>2, <4>3, CapacityIsNat
    <3>2. CASE ~(watch[k].ticks < MaxWatch)
      <4>1. Available(k)' \in 0 .. Capacity
        BY <2>8, <1>1, TickFills, CapacityIsNat DEF Filled
      <4> QED
        BY <2>3, <2>8, <3>2, <4>1 DEF Tick
    <3> QED
      BY <3>1, <3>2
  <2>9. CASE UNCHANGED vars
    BY <2>4, <2>9 DEF vars, Available
  <2> QED
    BY <1>1, <2>3, <2>4, <2>5, <2>6, <2>7, <2>8, <2>9, CapacityIsNat DEF Next, Check
<1> QED
  BY <1>2, <1>3, TypeCorrect, PTL DEF Spec

-----------------------------------------------------------------------------
\* What is missing will have accrued by the time promised, but for less than a
\* Grain-th of a second, and not a second before.
PromiseFits(k) ==
  /\ Grain * (Unit - Available(k) - promise[k] * Refill) < RefillPerSecond
  /\ promise[k] > 0 => promise[k] * Refill < Unit - Available(k) + RefillPerSecond
PromiseInv == \A k \in Keys : promise[k] # NoPromise => PromiseFits(k)

\* A tick fills what it takes from the promise, or the bucket is full; then nothing
\* is missing.
LEMMA TickKeepsPromise ==
  ASSUME TypeOK, Tick, NEW k \in Keys, promise'[k] # NoPromise, PromiseInv
  PROVE  PromiseFits(k)'
<1> USE LimiterAssumption
<1>1. /\ Available(k) \in Nat /\ Available(k) <= Capacity
      /\ promise[k] \in Nat /\ promise'[k] \in Nat
      /\ promise'[k] = IF promise[k] > 0 THEN promise[k] - 1 ELSE promise[k]
  BY AvailableBounds, CapacityIsNat DEF Tick, TypeOK, NoPromise
<1>2. PromiseFits(k)
  BY <1>1 DEF PromiseInv, NoPromise
<1>3. Available(k)' = Filled(Available(k) + Refill)
  BY TickFills
<1>4. RefillPerSecond \in Nat \ {0}
  BY DEF RefillPerSecond
<1> DEFINE a == Available(k)
           lacks == Unit - a - promise[k] * Refill
           lacking == Unit - Available(k)' - promise'[k] * Refill
<1>5. promise[k] * Refill \in Nat /\ promise'[k] * Refill \in Nat
  BY <1>1
<1>6. Available(k)' \in Nat /\ Available(k)' <= a + Refill
  BY <1>1, <1>3, CapacityIsNat DEF Filled
<1>7. CASE promise[k] > 0
  <2>1. promise[k] = promise'[k] + 1
    BY <1>1, <1>7
  <2>2. promise[k] * Refill = promise'[k] * Refill + Refill
    BY <1>1, <2>1
  <2>3. lacking <= lacks \/ lacking <= 0
    BY <1>1, <1>3, <1>5, <1>6, <2>2, CapacityIsNat DEF Filled
  <2>4. Grain * lacking < RefillPerSecond
    <3>1. lacks \in Int /\ lacking \in Int
      BY <1>1, <1>5, <1>6
    <3>2. Grain * lacks < RefillPerSecond
      BY <1>2 DEF PromiseFits
    <3> HIDE DEF lacks, lacking
    <3>3. Grain * lacking <= Grain * lacks \/ Grain * lacking <= 0
      BY <2>3, <3>1
    <3>4. Grain * lacking \in Int /\ Grain * lacks \in Int
      BY <3>1
    <3> QED
      BY <1>4, <3>2, <3>3, <3>4
  <2>5. promise'[k] * Refill < Unit - Available(k)' + RefillPerSecond
    <3>1. promise[k] * Refill < Unit - a + RefillPerSecond
      BY <1>2, <1>7 DEF PromiseFits
    <3> QED
      BY <1>1, <1>4, <1>5, <1>6, <2>2, <3>1
  <2>6. (Unit - Available(k) - promise[k] * Refill)' = lacking
        /\ RefillPerSecond' = RefillPerSecond
    BY DEF RefillPerSecond
  <2> QED
    BY <2>4, <2>5, <2>6 DEF PromiseFits
<1>8. CASE promise[k] = 0
  <2>1. promise'[k] = 0 /\ promise[k] * Refill = 0 /\ promise'[k] * Refill = 0
    BY <1>1, <1>8
  <2>2. lacking <= lacks
    BY <1>1, <1>3, <1>5, <2>1, CapacityIsNat DEF Filled
  <2>3. Grain * lacking < RefillPerSecond
    <3>1. lacks \in Int /\ lacking \in Int
      BY <1>1, <1>5, <1>6
    <3>2. Grain * lacks < RefillPerSecond
      BY <1>2 DEF PromiseFits
    <3> HIDE DEF lacks, lacking
    <3>3. Grain * lacking <= Grain * lacks
      BY <2>2, <3>1
    <3>4. Grain * lacking \in Int /\ Grain * lacks \in Int
      BY <3>1
    <3> QED
      BY <1>4, <3>2, <3>3, <3>4
  <2> QED
    BY <2>1, <2>3 DEF PromiseFits, RefillPerSecond
<1> QED
  BY <1>1, <1>7, <1>8

LEMMA PromiseInductive ==
  ASSUME TypeOK, PromiseInv, [Next]_vars
  PROVE  PromiseInv'
<1> USE LimiterAssumption
<1> SUFFICES ASSUME NEW k \in Keys, promise'[k] # NoPromise
             PROVE  PromiseFits(k)'
  BY DEF PromiseInv
<1>1. Available(k) \in 0 .. Capacity /\ promise[k] \in Nat \union {NoPromise}
  BY AvailableBounds DEF TypeOK
<1>2. CASE promise'[k] = promise[k] /\ Available(k)' = Available(k)
  BY <1>2 DEF PromiseInv, PromiseFits, RefillPerSecond
<1>3. ASSUME NEW l \in Keys, Admit(l)
      PROVE  promise'[k] = promise[k] /\ Available(k)' = Available(k)
  BY <1>3, AdmitTakes DEF Admit, TypeOK
<1>4. ASSUME NEW l \in Keys, Limit(l)
      PROVE  PromiseFits(k)'
  <2>1. Available(k)' = Available(k)
    BY <1>4, LimitKeeps
  <2>2. CASE l # k \/ promise[k] # NoPromise
    BY <1>2, <1>4, <2>1, <2>2 DEF Limit, TypeOK
  <2>3. CASE l = k /\ promise[k] = NoPromise
    <3> DEFINE missing == Unit - Available(k)
               n == RetryAfter(missing)
    <3>1. promise'[k] = n * Second
      BY <1>4, <2>3 DEF Limit, TypeOK
    <3>2. missing \in Nat /\ missing > 0
      BY <1>1, <1>4, <2>3, CapacityIsNat DEF Limit
    <3>3. /\ n \in Nat
          /\ Grain * (missing - n * RefillPerSecond) < RefillPerSecond
          /\ n * RefillPerSecond < missing + RefillPerSecond
      <4> HIDE DEF missing
      <4> QED
        BY <3>2, RetryAfterRounds
    <3>4. promise'[k] * Refill = n * RefillPerSecond
      <4> HIDE DEF n
      <4> QED
        BY <3>1, <3>3 DEF RefillPerSecond
    <3>5. /\ Grain * (missing - promise'[k] * Refill) < RefillPerSecond
          /\ promise'[k] * Refill < missing + RefillPerSecond
      <4> HIDE DEF n, missing
      <4> QED
        BY <3>3, <3>4
    <3>6. (Unit - Available(k))' = missing /\ RefillPerSecond' = RefillPerSecond
      BY <2>1 DEF RefillPerSecond
    <3> QED
      BY <3>5, <3>6 DEF PromiseFits
  <2> QED
    BY <2>2, <2>3
<1>5. CASE Tick
  BY <1>5, TickKeepsPromise
<1>6. ASSUME NEW l \in Keys, Observe(l)
      PROVE  promise'[k] = promise[k] /\ Available(k)' = Available(k)
  BY <1>6 DEF Observe, Available
<1>7. CASE UNCHANGED vars
  BY <1>2, <1>7 DEF vars, Available
<1> QED
  BY <1>2, <1>3, <1>4, <1>5, <1>6, <1>7 DEF Next, Check

(* Who waits for as long as Retry-After said lacks less than a Grain-th of *)
(* a second for its token, unless another client of its key took it, and   *)
(* nobody is sent away for a second more than its token takes; at any rate *)
(* and at any instant, however fine the clock.                             *)
THEOREM WaitingIsEnough == Spec => []RetryAfterFits
<1>1. Init => PromiseInv
  BY DEF Init, PromiseInv
<1>2. TypeOK /\ PromiseInv /\ [Next]_vars => PromiseInv'
  BY PromiseInductive
<1>3. TypeOK /\ PromiseInv => RetryAfterFits
  <2> SUFFICES ASSUME TypeOK, PromiseInv, NEW k \in Keys
               PROVE  /\ promise[k] = 0 => Grain * (Unit - Available(k)) < RefillPerSecond
                      /\ promise[k] > 0 =>
                           promise[k] * Refill < Unit - Available(k) + RefillPerSecond
    BY DEF RetryAfterFits
  <2>1. promise[k] # NoPromise => PromiseFits(k)
    BY DEF PromiseInv
  <2>2. CASE promise[k] = 0
    <3>1. /\ promise[k] * Refill = 0 /\ Available(k) \in 0 .. Capacity
          /\ Unit - Available(k) - promise[k] * Refill = Unit - Available(k)
      BY <2>2, AvailableBounds, LimiterAssumption, CapacityIsNat
    <3> QED
      BY <2>1, <2>2, <3>1 DEF PromiseFits, NoPromise
  <2>3. CASE promise[k] > 0
    BY <2>1, <2>3 DEF PromiseFits, NoPromise
  <2> QED
    BY <2>2, <2>3
<1> QED
  BY <1>1, <1>2, <1>3, TypeCorrect, PTL DEF Spec
=============================================================================
