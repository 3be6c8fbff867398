----------------------- MODULE CircuitBreaker_proofs -----------------------
(***************************************************************************)
(* Proofs about CircuitBreaker, for any finite set of callers and any      *)
(* thresholds its constructor accepts.                                     *)
(***************************************************************************)
EXTENDS BreakerStreak, FiniteSetTheorems, TLAPS

-----------------------------------------------------------------------------
LEMMA InitTyped == Init => TypeOK
<1>1. Init => intruded \in BOOLEAN
  BY DEF Init
<1> QED
  BY <1>1, BreakerAssumption DEF Init, TypeOK

LEMMA NextTyped ==
  ASSUME TypeOK, [Next]_vars
  PROVE  TypeOK'
<1> USE BreakerAssumption DEF breaker, TypeOK, CallsIn, Elapsed, SeenState, SeenSuccesses,
        SeenHalfOpenCalls
<1>1. ASSUME NEW c \in Callers, Allow(c)
      PROVE  TypeOK'
  BY <1>1 DEF Allow, MayPass
<1>2. CASE MaybeHalfOpen
  BY <1>2 DEF MaybeHalfOpen
<1>3. ASSUME NEW c \in Callers, RecordSuccess(c)
      PROVE  TypeOK'
  BY <1>3 DEF RecordSuccess, ProbeSuccess, Close, ClearStreak, Return, Release
<1>4. ASSUME NEW c \in Callers, RecordFailure(c)
      PROVE  TypeOK'
  BY <1>4 DEF RecordFailure, ProbeFailure, CountFailure, Trip, Open, Return, Release
<1>5. ASSUME NEW c \in Callers, ClientError(c)
      PROVE  TypeOK'
  BY <1>5 DEF ClientError, Return, Release
<1>6. CASE Reset
  <2>1. intruded' \in BOOLEAN
    BY <1>6 DEF Reset
  <2> QED
    BY <1>6, <2>1 DEF Reset
<1>7. CASE Tick
  BY <1>7 DEF Tick
<1>8. CASE UNCHANGED vars
  BY <1>8 DEF vars
<1> QED
  BY <1>1, <1>2, <1>3, <1>4, <1>5, <1>6, <1>7, <1>8 DEF Next, Reject

(* Every step keeps the counters within the thresholds configured: the     *)
(* breaker's fields are well-typed in every reachable state.               *)
THEOREM TypeCorrect == Spec => []TypeOK
<1>1. TypeOK /\ [Next]_vars => TypeOK'
  BY NextTyped
<1> QED
  BY InitTyped, <1>1, PTL DEF Spec

-----------------------------------------------------------------------------
(* The bookkeeping of probes.  ProbeLimit and NoLeakedProbeSlot are one    *)
(* conjunct each of SlotInv, which is inductive together with TypeOK.      *)
SlotInv ==
  state = "half_open" =>
    /\ half_open_calls <= Cardinality(Fresh)
    /\ ~intruded => half_open_calls = Cardinality(Fresh)

\* The probes in flight can be counted.
LEMMA FreshFinite ==
  /\ IsFiniteSet(Fresh)
  /\ Cardinality(Fresh) \in Nat
  /\ Fresh = {} => Cardinality(Fresh) = 0
<1>1. IsFiniteSet(Fresh)
  <2>1. Fresh \subseteq Callers
    BY DEF Fresh
  <2> QED
    BY <2>1, FS_Subset, BreakerAssumption
<1> QED
  BY <1>1, FS_CardinalityType, FS_EmptySet

\* A call returns and the breaker stays where it was.
LEMMA FreshAfterReturn ==
  ASSUME TypeOK, NEW c \in Callers, Return(c), state' = state
  PROVE  Fresh' = Fresh \ {c}
BY DEF TypeOK, Return, CallsIn, Fresh

\* A returning call gives back one slot, or none if none is taken.  If the
\* call is one of the present era, as many calls remain as slots; otherwise
\* there may be more calls than slots, and the intrusion is on record.
LEMMA ReturnKeepsSlots ==
  ASSUME TypeOK, SlotInv, NEW c \in Callers, in_flight[c] # "idle",
         state = "half_open", state' = "half_open",
         half_open_calls' = Release, Return(c)
  PROVE  SlotInv'
<1>1. Fresh' = Fresh \ {c}
  BY FreshAfterReturn
<1>2. /\ half_open_calls \in Nat
      /\ Cardinality(Fresh) \in Nat
      /\ half_open_calls <= Cardinality(Fresh)
  BY FreshFinite, BreakerAssumption DEF TypeOK, SlotInv
<1>3. CASE in_flight[c] = "fresh"
  <2>1. c \in Fresh
    BY <1>3 DEF Fresh
  <2>2. Cardinality(Fresh') = Cardinality(Fresh) - 1
    BY <1>1, <2>1, FreshFinite, FS_RemoveElement
  <2>3. Cardinality(Fresh) > 0
    BY <2>1, FreshFinite, FS_EmptySet, <1>2
  <2>4. ~intruded' => ~intruded
    BY DEF Return
  <2> QED
    BY <1>2, <2>2, <2>3, <2>4 DEF SlotInv, Release
<1>4. CASE in_flight[c] # "fresh"
  <2>1. Fresh' = Fresh
    BY <1>1, <1>4 DEF Fresh
  <2>2. in_flight[c] = "stale"
    BY <1>4 DEF TypeOK
  <2>3. intruded'
    BY <2>2 DEF Return
  <2> QED
    BY <1>2, <2>1, <2>3 DEF SlotInv, Release
<1> QED
  BY <1>3, <1>4

LEMMA SlotsInductive == TypeOK /\ SlotInv /\ [Next]_vars => SlotInv'
<1> SUFFICES ASSUME TypeOK, SlotInv, [Next]_vars, state' = "half_open"
             PROVE  SlotInv'
  BY DEF SlotInv
<1>1. ASSUME NEW c \in Callers, Allow(c)
      PROVE  SlotInv'
  <2>1. CASE Elapsed
    <3>1. Fresh' = {c}
      BY <1>1, <2>1 DEF Allow, Fresh, CallsIn, TypeOK, Elapsed, SeenState
    <3>2. Cardinality(Fresh') = 1
      BY <3>1, FS_Singleton
    <3> QED
      BY <1>1, <2>1, <3>2 DEF Allow, SlotInv, SeenState, SeenHalfOpenCalls
  <2>2. CASE ~Elapsed
    <3>1. state = "half_open"
      BY <1>1, <2>2 DEF Allow, SeenState
    <3>2. Fresh' = Fresh \union {c} /\ c \notin Fresh
      BY <1>1, <2>2 DEF Allow, Fresh, CallsIn, TypeOK, SeenState
    <3>3. Cardinality(Fresh') = Cardinality(Fresh) + 1
      BY <3>2, FreshFinite, FS_AddElement
    <3>4. half_open_calls' = half_open_calls + 1 /\ half_open_calls \in Nat
      BY <1>1, <2>2, <3>1, BreakerAssumption
      DEF Allow, SeenState, SeenHalfOpenCalls, TypeOK
    <3>5. ~intruded' => ~intruded
      BY <1>1, <2>2 DEF Allow
    <3> QED
      BY <3>1, <3>3, <3>4, <3>5, FreshFinite DEF SlotInv
  <2> QED
    BY <2>1, <2>2
<1>2. CASE MaybeHalfOpen
  <2>1. CASE Elapsed
    <3>1. Fresh' = {}
      BY <1>2, <2>1 DEF MaybeHalfOpen, Fresh, CallsIn, TypeOK, Elapsed, SeenState
    <3>2. Cardinality(Fresh') = 0
      BY <3>1, FS_EmptySet
    <3> QED
      BY <1>2, <2>1, <3>2 DEF MaybeHalfOpen, SlotInv, SeenHalfOpenCalls
  <2>2. CASE ~Elapsed
    <3>1. state = "half_open" /\ half_open_calls' = half_open_calls
      BY <1>2, <2>2 DEF MaybeHalfOpen, SeenState, SeenHalfOpenCalls
    <3>2. Fresh' = Fresh
      BY <1>2, <2>2 DEF MaybeHalfOpen, Fresh, CallsIn, TypeOK, SeenState
    <3>3. ~intruded' => ~intruded
      BY <1>2, <2>2 DEF MaybeHalfOpen
    <3> QED
      BY <3>1, <3>2, <3>3 DEF SlotInv
  <2> QED
    BY <2>1, <2>2
<1>3. ASSUME NEW c \in Callers, RecordSuccess(c)
      PROVE  SlotInv'
  <2>1. state = "half_open" /\ half_open_calls' = Release
    BY <1>3 DEF RecordSuccess, ProbeSuccess, Close, ClearStreak
  <2> QED
    BY <1>3, <2>1, ReturnKeepsSlots DEF RecordSuccess
<1>4. ASSUME NEW c \in Callers, RecordFailure(c)
      PROVE  SlotInv'
  BY <1>4 DEF RecordFailure, ProbeFailure, CountFailure, Trip, Open
<1>5. ASSUME NEW c \in Callers, ClientError(c)
      PROVE  SlotInv'
  <2>1. state = "half_open" /\ half_open_calls' = Release
    BY <1>5 DEF ClientError
  <2> QED
    BY <1>5, <2>1, ReturnKeepsSlots DEF ClientError
<1>6. CASE Reset
  BY <1>6 DEF Reset
<1>7. CASE Tick
  BY <1>7 DEF Tick, SlotInv, Fresh
<1>8. CASE UNCHANGED vars
  BY <1>8 DEF vars, breaker, SlotInv, Fresh
<1> QED
  BY <1>1, <1>2, <1>3, <1>4, <1>5, <1>6, <1>7, <1>8 DEF Next, Reject

LEMMA SlotsAlways == Spec => [](TypeOK /\ SlotInv)
<1>1. Init => SlotInv
  BY DEF Init, SlotInv
<1> QED
  BY <1>1, TypeCorrect, SlotsInductive, PTL DEF Spec

(* No slot is leaked: those taken in "half_open" belong to calls still in  *)
(* flight, so the breaker cannot be stuck refusing everything there.       *)
THEOREM NoSlotLeaked == Spec => []NoLeakedProbeSlot
<1>1. TypeOK /\ SlotInv => NoLeakedProbeSlot
  BY DEF SlotInv, NoLeakedProbeSlot
<1> QED
  BY <1>1, SlotsAlways, PTL

(* half_open_max_calls bounds the concurrent probes of every "half_open"   *)
(* era in which no call of an earlier era returned.                        *)
THEOREM ProbesLimited == Spec => []ProbeLimit
<1>1. TypeOK /\ SlotInv => ProbeLimit
  <2> SUFFICES ASSUME TypeOK, SlotInv, state = "half_open", ~intruded
               PROVE  /\ half_open_calls = Cardinality(Fresh)
                      /\ Cardinality(Fresh) <= HalfOpenMaxCalls
    BY DEF ProbeLimit
  <2>1. half_open_calls = Cardinality(Fresh)
    BY DEF SlotInv
  <2>2. half_open_calls <= HalfOpenMaxCalls
    BY BreakerAssumption DEF TypeOK
  <2> QED
    BY <2>1, <2>2
<1> QED
  BY <1>1, SlotsAlways, PTL

-----------------------------------------------------------------------------
\* In "closed" the breaker's counter is the streak, and elsewhere the streak
\* is over: what late failures count in "open" is lost when it closes.
StreakInv ==
  /\ TypeOK
  /\ streak = IF state = "closed" THEN failures ELSE 0

(* It takes a whole streak of failures since the breaker last closed to    *)
(* open it: late failures and client errors do not shorten it.             *)
THEOREM OpensOnlyOnFullStreak == StreakSpec => OpensOnFullStreak
<1> USE BreakerAssumption
<1>1. StreakInit => StreakInv
  BY InitTyped DEF StreakInit, StreakInv, Init
<1>2. StreakInv /\ [StreakNext]_<<vars, streak>> => StreakInv'
  <2> SUFFICES ASSUME StreakInv, [StreakNext]_<<vars, streak>>
               PROVE  StreakInv'
    OBVIOUS
  <2> USE DEF StreakInv
  <2>1. [Next]_vars
    BY DEF StreakNext, Next
  <2>2. TypeOK'
    BY <2>1, NextTyped
  <2>3. ASSUME NEW c \in Callers, RecordFailure(c),
               streak' = IF state' = "closed" THEN streak + 1 ELSE 0
        PROVE  StreakInv'
    BY <2>2, <2>3 DEF RecordFailure, ProbeFailure, CountFailure, Trip, Open, TypeOK
  <2>4. ASSUME NEW c \in Callers, RecordSuccess(c), streak' = 0
        PROVE  StreakInv'
    BY <2>2, <2>4 DEF RecordSuccess, ProbeSuccess, Close, ClearStreak, TypeOK
  <2>5. CASE Reset /\ streak' = 0
    BY <2>2, <2>5 DEF Reset
  <2>6. ASSUME NEW c \in Callers, Allow(c) \/ Reject(c) \/ ClientError(c), UNCHANGED streak
        PROVE  StreakInv'
    BY <2>2, <2>6 DEF Allow, Reject, MaybeHalfOpen, ClientError, SeenState, Elapsed
  <2>7. CASE (MaybeHalfOpen \/ Tick) /\ UNCHANGED streak
    BY <2>2, <2>7 DEF MaybeHalfOpen, Tick, SeenState, Elapsed
  <2>8. CASE UNCHANGED <<vars, streak>>
    BY <2>2, <2>8 DEF vars, breaker
  <2> QED
    BY <2>3, <2>4, <2>5, <2>6, <2>7, <2>8 DEF StreakNext
<1>3. StreakInv /\ [StreakNext]_<<vars, streak>>
        => [state = "closed" /\ state' = "open" => streak + 1 >= FailureThreshold]_vars
  <2> SUFFICES ASSUME StreakInv, StreakNext, state = "closed", state' = "open"
               PROVE  streak + 1 >= FailureThreshold
    BY DEF vars
  <2> USE DEF StreakInv, TypeOK
  <2>1. ASSUME NEW c \in Callers, RecordFailure(c)
        PROVE  streak + 1 >= FailureThreshold
    BY <2>1 DEF RecordFailure, ProbeFailure, CountFailure, Trip
  <2>2. ASSUME NEW c \in Callers, RecordSuccess(c)
        PROVE  FALSE
    BY <2>2 DEF RecordSuccess, ProbeSuccess, Close, ClearStreak
  <2>3. ASSUME NEW c \in Callers, Allow(c) \/ Reject(c) \/ ClientError(c)
        PROVE  FALSE
    BY <2>3 DEF Allow, Reject, MaybeHalfOpen, ClientError, SeenState, Elapsed
  <2>4. CASE MaybeHalfOpen \/ Tick \/ Reset
    BY <2>4 DEF MaybeHalfOpen, Tick, Reset, SeenState, Elapsed
  <2> QED
    BY <2>1, <2>2, <2>3, <2>4 DEF StreakNext
<1> QED
  BY <1>1, <1>2, <1>3, PTL DEF StreakSpec, OpensOnFullStreak

(* The breaker implements its state diagram: every step that is not a      *)
(* reset() is an arc of BreakerDiagram or leaves the diagram alone.        *)
THEOREM ImplementsDiagram == Spec => FollowsDiagram
<1> USE DEF Diagram!Next, Diagram!GoOpen, Diagram!HalfOpen, Diagram!GoClosed, Diagram!Tick
<1>1. Init => Diagram!Init
  BY DEF Init, Diagram!Init
<1>2. [Next]_vars => [Diagram!Next \/ Reset]_<<state, since_opened>>
  <2> SUFFICES ASSUME [Next]_vars
               PROVE  Diagram!Next \/ Reset \/ UNCHANGED <<state, since_opened>>
    OBVIOUS
  <2>1. ASSUME NEW c \in Callers, Allow(c)
        PROVE  Diagram!HalfOpen \/ UNCHANGED <<state, since_opened>>
    BY <2>1 DEF Allow, SeenState, Elapsed
  <2>2. CASE MaybeHalfOpen
    BY <2>2 DEF MaybeHalfOpen, SeenState, Elapsed
  <2>3. ASSUME NEW c \in Callers, RecordSuccess(c)
        PROVE  Diagram!GoClosed \/ UNCHANGED <<state, since_opened>>
    BY <2>3 DEF RecordSuccess, ProbeSuccess, Close, ClearStreak
  <2>4. ASSUME NEW c \in Callers, RecordFailure(c)
        PROVE  Diagram!GoOpen \/ UNCHANGED <<state, since_opened>>
    BY <2>4 DEF RecordFailure, ProbeFailure, CountFailure, Trip, Open
  <2>5. ASSUME NEW c \in Callers, ClientError(c)
        PROVE  UNCHANGED <<state, since_opened>>
    BY <2>5 DEF ClientError
  <2>6. CASE Tick
    BY <2>6 DEF Tick
  <2>7. CASE UNCHANGED vars
    BY <2>7 DEF vars, breaker
  <2> QED
    BY <2>1, <2>2, <2>3, <2>4, <2>5, <2>6, <2>7 DEF Next, Reject
<1> QED
  BY <1>1, <1>2, PTL DEF Spec, FollowsDiagram
=============================================================================
