--------------------------- MODULE Service_proofs ---------------------------
(***************************************************************************)
(* Proofs about Service, for any number of concurrent requests, jobs and   *)
(* tenants, any limits, period and prices.                                 *)
(***************************************************************************)
EXTENDS Service, FiniteSetTheorems, TLAPS

LEMMA WindowsTyped ==
  ASSUME NEW window \in Window, NEW cost \in Nat
  PROVE  /\ NewWindow \in Window
         /\ Rolled(window) \in Window /\ Rolled(window).spent <= window.spent
         /\ Charged(window, cost) \in Window
         /\ Charged(window, cost).spent <= window.spent + cost
         /\ Aged(window) \in Window /\ Aged(window).spent = window.spent
BY RegistryAssumption DEF Window, NewWindow, Rolled, Charged, Aged

LEMMA OpenedTyped ==
  ASSUME RegistryTypeOK, NEW t \in Tenants
  PROVE  Opened(t) \in Window
BY RegistryAssumption DEF RegistryTypeOK, Opened, Window, NewWindow

LEMMA TenantsStayTyped ==
  ASSUME RegistryTypeOK, NEW t \in Tenants, NEW window \in Window,
         tenants' = TenantsWith(t, window), global' \in Window
  PROVE  RegistryTypeOK'
BY DEF RegistryTypeOK, TenantsWith

LEMMA PassTyped ==
  ASSUME RegistryTypeOK, NEW t \in Tenants,
         Pass(t, Projected) \/ RefuseAll(Projected) \/ RefuseTenant(t, Projected)
  PROVE  RegistryTypeOK'
<1>1. Rolled(global) \in Window /\ Rolled(Opened(t)) \in Window
  BY OpenedTyped, WindowsTyped DEF RegistryTypeOK
<1> QED
  BY <1>1, TenantsStayTyped DEF Pass, RefuseAll, RefuseTenant, RegistryTypeOK

LEMMA ChargeTyped ==
  ASSUME RegistryTypeOK, NEW t \in Tenants, NEW cost \in Nat, Charge(t, cost)
  PROVE  RegistryTypeOK'
<1>1. Charged(global, cost) \in Window /\ Charged(Opened(t), cost) \in Window
  BY OpenedTyped, WindowsTyped DEF RegistryTypeOK
<1> QED
  BY <1>1, TenantsStayTyped DEF Charge

(* Every step of the service keeps its state well-typed: windows are never *)
(* negative and jobs are always in a state a poll can report.              *)
THEOREM TypeCorrect == Spec => []TypeOK
<1> USE ServiceAssumption
<1>1. Init => TypeOK
  <2> SUFFICES ASSUME Init
               PROVE  TypeOK
    OBVIOUS
  <2>1. RegistryTypeOK
    BY RegistryAssumption DEF Init, RegistryInit, RegistryTypeOK, Window, NewWindow
  <2>2. ready \in BOOLEAN
    BY DEF Init
  <2> QED
    BY <2>1, <2>2 DEF Init, TypeOK, Idle, NoJob
<1>2. TypeOK /\ [Next]_vars => TypeOK'
  <2> SUFFICES ASSUME TypeOK, [Next]_vars
               PROVE  TypeOK'
    OBVIOUS
  <2> USE DEF TypeOK, Leave, Idle, SetStatus
  <2>1. ASSUME NEW r \in Requests, NEW t \in Tenants,
               Chat(r, t) \/ Stream(r, t) \/ Refuse(r, t)
        PROVE  TypeOK'
    <3>1. RegistryTypeOK'
      BY <2>1, PassTyped DEF Chat, Stream, Refuse, Begin
    <3> QED
      BY <2>1, <3>1 DEF Chat, Stream, Refuse, Begin
  <2>2. ASSUME NEW r \in Requests, Answer(r)
        PROVE  TypeOK'
    <3>1. RegistryTypeOK'
      BY <2>2, ChargeTyped DEF Answer
    <3> QED
      BY <2>2, <3>1 DEF Answer
  <2>3. ASSUME NEW r \in Requests, Timeout(r) \/ Abort(r) \/ Chunk(r)
        PROVE  TypeOK'
    <3>1. RegistryTypeOK'
      BY <2>3 DEF Timeout, Abort, Chunk, registry, RegistryTypeOK
    <3>2. CASE Chunk(r)
      <4>1. [request[r] EXCEPT !.chunks = @ + 1] \in
              [at : {"idle", "chat", "stream"}, tenant : Tenants, chunks : 0 .. MaxCost]
        BY <3>2 DEF Chunk
      <4> QED
        BY <3>1, <3>2, <4>1 DEF Chunk
    <3> QED
      BY <2>3, <3>1, <3>2 DEF Timeout, Abort
  <2>4. ASSUME NEW r \in Requests, StreamEnd(r)
        PROVE  TypeOK'
    <3>1. RegistryTypeOK'
      BY <2>4, ChargeTyped DEF StreamEnd
    <3> QED
      BY <2>4, <3>1 DEF StreamEnd
  <2>5. ASSUME NEW j \in Jobs, NEW t \in Tenants, Submit(j, t)
        PROVE  TypeOK'
    BY <2>5 DEF Submit, registry, RegistryTypeOK
  <2>6. ASSUME NEW j \in Jobs, StartJob(j) \/ JobFails(j)
        PROVE  TypeOK'
    BY <2>6 DEF StartJob, JobFails, registry, RegistryTypeOK
  <2>7. ASSUME NEW j \in Jobs, JobSucceeds(j)
        PROVE  TypeOK'
    <3>1. RegistryTypeOK'
      BY <2>7, ChargeTyped DEF JobSucceeds
    <3> QED
      BY <2>7, <3>1 DEF JobSucceeds
  <2>8. CASE Probe
    <3>1. RegistryTypeOK'
      BY <2>8, OpenedTyped, TenantsStayTyped DEF Probe, ReadRemaining, RegistryTypeOK
    <3>2. ready' \in BOOLEAN
      BY <2>8 DEF Probe
    <3> QED
      BY <2>8, <3>1, <3>2 DEF Probe
  <2>9. CASE Restart
    <3>1. RegistryTypeOK'
      BY <2>9, RegistryAssumption DEF Restart, RegistryTypeOK, Window, NewWindow
    <3>2. ready' \in BOOLEAN
      BY <2>9 DEF Restart
    <3> QED
      BY <2>9, <3>1, <3>2 DEF Restart, NoJob
  <2>10. CASE Tick
    <3>1. RegistryTypeOK'
      BY <2>10, WindowsTyped DEF Tick, Age, RegistryTypeOK
    <3> QED
      BY <2>10, <3>1 DEF Tick
  <2>11. CASE UNCHANGED vars
    BY <2>11 DEF vars, registry, RegistryTypeOK
  <2> QED
    BY <2>1, <2>2, <2>3, <2>4, <2>5, <2>6, <2>7, <2>8, <2>9, <2>10, <2>11 DEF Next, Arrive
<1> QED
  BY <1>1, <1>2, PTL DEF Spec

-----------------------------------------------------------------------------
(* The bound says nothing of the calls still to be charged.  What is       *)
(* inductive is that every window has room for all of them: those of the   *)
(* requests in progress, and those of the jobs that are not finished, a    *)
(* job nobody submitted yet included, since no check will stop it.         *)
Unpaid == {r \in Requests : request[r].at # "idle"}
Unfinished == {j \in Jobs : job[j].status \in {"none", "queued", "running"}}

UnpaidOf(t) == {r \in Unpaid : request[r].tenant = t}
UnfinishedOf(t) == {j \in Unfinished : job[j].status = "none" \/ job[j].tenant = t}

Covered(spent, limit, calls, tasks) ==
  spent + (Cardinality(calls) + Cardinality(tasks)) * MaxCost <= Reach(limit)

OvershootInv ==
  /\ Covered(global.spent, GlobalLimit, Unpaid, Unfinished)
  /\ \A t \in Tenants :
       Covered(Opened(t).spent, TenantLimit, UnpaidOf(t), UnfinishedOf(t))

LEMMA Counted ==
  ASSUME NEW calls \in SUBSET Requests, NEW tasks \in SUBSET Jobs
  PROVE  /\ IsFiniteSet(calls) /\ Cardinality(calls) \in 0 .. Cardinality(Requests)
         /\ IsFiniteSet(tasks) /\ Cardinality(tasks) \in 0 .. Cardinality(Jobs)
         /\ Cardinality(Requests) \in Nat /\ Cardinality(Jobs) \in Nat
BY FS_Subset, FS_CardinalityType, ServiceAssumption

LEMMA TimesMonotonic ==
  ASSUME NEW m \in Nat, NEW n \in Nat, NEW c \in Nat, m <= n
  PROVE  m * c <= n * c /\ m * c \in Nat /\ n * c \in Nat
OBVIOUS

LEMMA ReachIsNat ==
  ASSUME NEW limit \in Nat
  PROVE  Slack(limit) \in Nat /\ Reach(limit) \in Nat
<1>1. Cardinality(Requests) \in Nat /\ Cardinality(Jobs) \in Nat
  BY FS_CardinalityType, ServiceAssumption
<1>2. (Cardinality(Requests) + Cardinality(Jobs)) * MaxCost \in Nat
  BY <1>1, TimesMonotonic, ServiceAssumption
<1> QED
  BY <1>2, ServiceAssumption DEF Slack, Reach

\* A window that has just been checked has room for everyone.
LEMMA CoveredAfterCheck ==
  ASSUME NEW limit \in Nat, NEW spent \in Nat, spent <= Slack(limit),
         NEW calls \in SUBSET Requests, NEW tasks \in SUBSET Jobs
  PROVE  Covered(spent, limit, calls, tasks)
<1> DEFINE m == Cardinality(calls) + Cardinality(tasks)
           n == Cardinality(Requests) + Cardinality(Jobs)
<1>1. m \in Nat /\ n \in Nat /\ m <= n
  BY Counted
<1>2. m * MaxCost <= n * MaxCost /\ m * MaxCost \in Nat /\ n * MaxCost \in Nat
  BY <1>1, TimesMonotonic, ServiceAssumption
<1> QED
  BY <1>2, ReachIsNat DEF Covered, Reach

\* Nothing is charged, and nobody joins.
LEMMA CoveredStays ==
  ASSUME NEW limit \in Nat, NEW spent \in Nat, NEW calls \in SUBSET Requests,
         NEW tasks \in SUBSET Jobs, Covered(spent, limit, calls, tasks),
         NEW spent2 \in Nat, spent2 <= spent,
         NEW calls2 \in SUBSET calls, NEW tasks2 \in SUBSET tasks
  PROVE  Covered(spent2, limit, calls2, tasks2)
<1> DEFINE m == Cardinality(calls2) + Cardinality(tasks2)
           n == Cardinality(calls) + Cardinality(tasks)
<1>1. m \in Nat /\ n \in Nat /\ m <= n
  <2>1. Cardinality(calls2) <= Cardinality(calls) /\ Cardinality(tasks2) <= Cardinality(tasks)
    BY Counted, FS_Subset
  <2> QED
    BY <2>1, Counted
<1>2. m * MaxCost <= n * MaxCost /\ m * MaxCost \in Nat /\ n * MaxCost \in Nat
  BY <1>1, TimesMonotonic, ServiceAssumption
<1>3. spent + n * MaxCost <= Reach(limit)
  BY DEF Covered
<1>4. spent2 + m * MaxCost <= Reach(limit)
  <2> HIDE DEF m, n
  <2> QED
    BY <1>2, <1>3, ReachIsNat
<1> QED
  BY <1>4 DEF Covered

\* One of those there was room for is charged and leaves.
LEMMA CoveredAfterCharge ==
  ASSUME NEW limit \in Nat, NEW spent \in Nat, NEW calls \in SUBSET Requests,
         NEW tasks \in SUBSET Jobs, Covered(spent, limit, calls, tasks),
         NEW cost \in 0 .. MaxCost, NEW spent2 \in Nat, spent2 <= spent + cost,
         NEW calls2 \in SUBSET calls, NEW tasks2 \in SUBSET tasks,
         \/ \E r \in calls : calls2 = calls \ {r}
         \/ \E j \in tasks : tasks2 = tasks \ {j}
  PROVE  Covered(spent2, limit, calls2, tasks2)
<1> DEFINE m == Cardinality(calls2) + Cardinality(tasks2)
           n == Cardinality(calls) + Cardinality(tasks)
<1>1. m \in Nat /\ n \in Nat /\ m + 1 <= n
  <2>1. Cardinality(calls2) <= Cardinality(calls) /\ Cardinality(tasks2) <= Cardinality(tasks)
    BY Counted, FS_Subset
  <2>2. \/ Cardinality(calls2) = Cardinality(calls) - 1
        \/ Cardinality(tasks2) = Cardinality(tasks) - 1
    BY Counted, FS_RemoveElement
  <2> QED
    BY <2>1, <2>2, Counted
<1>2. (m + 1) * MaxCost <= n * MaxCost /\ n * MaxCost \in Nat
  BY <1>1, TimesMonotonic, ServiceAssumption
<1>3. (m + 1) * MaxCost = m * MaxCost + MaxCost /\ m * MaxCost \in Nat
  BY <1>1, TimesMonotonic, ServiceAssumption
<1>4. spent + n * MaxCost <= Reach(limit)
  BY DEF Covered
<1>5. spent2 + m * MaxCost <= Reach(limit)
  <2> HIDE DEF m, n
  <2> QED
    BY <1>2, <1>3, <1>4, ReachIsNat, ServiceAssumption
<1> QED
  BY <1>5 DEF Covered

LEMMA CoveredIsEnough ==
  ASSUME NEW limit \in Nat, NEW spent \in Nat, NEW calls \in SUBSET Requests,
         NEW tasks \in SUBSET Jobs, Covered(spent, limit, calls, tasks)
  PROVE  spent <= Reach(limit)
<1> DEFINE n == Cardinality(calls) + Cardinality(tasks)
<1>1. n \in Nat
  BY Counted
<1>2. n * MaxCost \in Nat
  BY <1>1, TimesMonotonic, ServiceAssumption
<1> QED
  BY <1>2, ReachIsNat DEF Covered

-----------------------------------------------------------------------------
LEMMA SetsTyped ==
  /\ Unpaid \in SUBSET Requests /\ Unfinished \in SUBSET Jobs
  /\ \A t \in Tenants : UnpaidOf(t) \in SUBSET Unpaid /\ UnfinishedOf(t) \in SUBSET Unfinished
BY DEF Unpaid, Unfinished, UnpaidOf, UnfinishedOf

\* Nothing is charged and no call or job is added: every window stays covered.
LEMMA NobodyJoins ==
  ASSUME TypeOK, TypeOK', OvershootInv,
         global'.spent <= global.spent,
         \A t \in Tenants : Opened(t)'.spent <= Opened(t).spent,
         Unpaid' \subseteq Unpaid, Unfinished' \subseteq Unfinished,
         \A t \in Tenants : /\ UnpaidOf(t)' \subseteq UnpaidOf(t)
                            /\ UnfinishedOf(t)' \subseteq UnfinishedOf(t)
  PROVE  OvershootInv'
<1>1. /\ GlobalLimit \in Nat /\ TenantLimit \in Nat
      /\ global.spent \in Nat /\ global'.spent \in Nat
  BY RegistryAssumption DEF TypeOK, RegistryTypeOK, Window
<1>2. Covered(global.spent, GlobalLimit, Unpaid, Unfinished)'
  BY <1>1, SetsTyped, CoveredStays DEF OvershootInv, Covered, Reach, Slack
<1>3. ASSUME NEW t \in Tenants
      PROVE  Covered(Opened(t).spent, TenantLimit, UnpaidOf(t), UnfinishedOf(t))'
  <2>1. Opened(t).spent \in Nat
    BY OpenedTyped DEF TypeOK, Window
  <2>2. Opened(t)'.spent \in Nat
    BY RegistryAssumption DEF TypeOK, RegistryTypeOK, Opened, Window, NewWindow
  <2>3. UnpaidOf(t) \in SUBSET Requests /\ UnfinishedOf(t) \in SUBSET Jobs
    BY SetsTyped
  <2> QED
    BY <1>1, <2>1, <2>2, <2>3, CoveredStays DEF OvershootInv, Covered, Reach, Slack
<1> QED
  BY <1>2, <1>3 DEF OvershootInv

LEMMA OneWindowChanges ==
  ASSUME NEW t \in Tenants, NEW window, tenants' = TenantsWith(t, window)
  PROVE  /\ Opened(t)' = window
         /\ \A u \in Tenants \ {t} : Opened(u)' = Opened(u)
BY DEF TenantsWith, Opened

LEMMA SpentTyped ==
  ASSUME TypeOK
  PROVE  /\ GlobalLimit \in Nat /\ TenantLimit \in Nat
         /\ global \in Window /\ global.spent \in Nat
         /\ \A t \in Tenants : Opened(t) \in Window /\ Opened(t).spent \in Nat
BY OpenedTyped, RegistryAssumption DEF TypeOK, RegistryTypeOK, Window

\* A request that passed the check is one call more, for its own tenant, on
\* windows that have room for everyone.
LEMMA BeginCovered ==
  ASSUME TypeOK, TypeOK', OvershootInv,
         NEW r \in Requests, NEW t \in Tenants, NEW endpoint \in {"chat", "stream"},
         Begin(r, endpoint, t)
  PROVE  OvershootInv'
<1>1. /\ global' = Rolled(global) /\ Rolled(global).spent <= Slack(GlobalLimit)
      /\ Opened(t)' = Rolled(Opened(t)) /\ Rolled(Opened(t)).spent <= Slack(TenantLimit)
      /\ Rolled(global).spent \in Nat /\ Rolled(Opened(t)).spent \in Nat
  <2>1. Rolled(global).spent \in Nat /\ Rolled(Opened(t)).spent \in Nat
    BY SpentTyped, WindowsTyped DEF Window
  <2>2. /\ ~(Rolled(global).spent + Projected > GlobalLimit)
        /\ ~(Rolled(Opened(t)).spent + Projected > TenantLimit)
    BY DEF Begin, Pass, WouldExceed
  <2>3. Opened(t)' = Rolled(Opened(t))
    BY OneWindowChanges DEF Begin, Pass
  <2> QED
    BY <2>1, <2>2, <2>3, SpentTyped, ServiceAssumption DEF Begin, Pass, Slack
<1>2. /\ Unpaid' \in SUBSET Requests /\ Unfinished' \in SUBSET Jobs
      /\ UnpaidOf(t)' \in SUBSET Requests /\ UnfinishedOf(t)' \in SUBSET Jobs
  BY DEF Unpaid, Unfinished, UnpaidOf, UnfinishedOf
<1>3. Covered(global.spent, GlobalLimit, Unpaid, Unfinished)'
  BY <1>1, <1>2, SpentTyped, CoveredAfterCheck DEF Covered, Reach, Slack
<1>4. ASSUME NEW u \in Tenants
      PROVE  Covered(Opened(u).spent, TenantLimit, UnpaidOf(u), UnfinishedOf(u))'
  <2>1. CASE u = t
    BY <1>1, <1>2, <2>1, SpentTyped, CoveredAfterCheck DEF Covered, Reach, Slack
  <2>2. CASE u # t
    <3>1. Opened(u)' = Opened(u)
      BY <2>2, OneWindowChanges DEF Begin, Pass
    <3>2. UnpaidOf(u)' \subseteq UnpaidOf(u) /\ UnfinishedOf(u)' = UnfinishedOf(u)
      BY <2>2 DEF Begin, UnpaidOf, Unpaid, UnfinishedOf, Unfinished, TypeOK
    <3>3. UnpaidOf(u) \in SUBSET Requests /\ UnfinishedOf(u) \in SUBSET Jobs
      BY SetsTyped
    <3> QED
      BY <3>1, <3>2, <3>3, SpentTyped, CoveredStays DEF OvershootInv, Covered, Reach, Slack
  <2> QED
    BY <2>1, <2>2
<1> QED
  BY <1>3, <1>4 DEF OvershootInv

\* A request, or else a job, is charged to its own tenant and is done.
LEMMA ChargeCovered ==
  ASSUME TypeOK, TypeOK', OvershootInv,
         NEW t \in Tenants, NEW cost \in 0 .. MaxCost, Charge(t, cost),
         Unpaid' \subseteq Unpaid, Unfinished' \subseteq Unfinished,
         \A u \in Tenants : /\ UnpaidOf(u)' \subseteq UnpaidOf(u)
                            /\ UnfinishedOf(u)' \subseteq UnfinishedOf(u),
         \/ \E r \in UnpaidOf(t) : /\ Unpaid' = Unpaid \ {r}
                                   /\ UnpaidOf(t)' = UnpaidOf(t) \ {r}
         \/ \E j \in UnfinishedOf(t) : /\ Unfinished' = Unfinished \ {j}
                                       /\ UnfinishedOf(t)' = UnfinishedOf(t) \ {j}
  PROVE  OvershootInv'
<1>1. /\ global'.spent \in Nat /\ global'.spent <= global.spent + cost
      /\ Opened(t)'.spent \in Nat /\ Opened(t)'.spent <= Opened(t).spent + cost
  <2>1. Opened(t)' = Charged(Opened(t), cost) /\ global' = Charged(global, cost)
    BY OneWindowChanges DEF Charge
  <2>2. cost \in Nat
    BY ServiceAssumption
  <2>3. /\ Charged(global, cost).spent \in Nat
        /\ Charged(global, cost).spent <= global.spent + cost
    BY <2>2, SpentTyped, WindowsTyped DEF Window
  <2>4. /\ Charged(Opened(t), cost).spent \in Nat
        /\ Charged(Opened(t), cost).spent <= Opened(t).spent + cost
    BY <2>2, SpentTyped, WindowsTyped DEF Window
  <2> QED
    BY <2>1, <2>3, <2>4
<1>2. /\ Unpaid \in SUBSET Requests /\ Unfinished \in SUBSET Jobs
      /\ \A u \in Tenants : UnpaidOf(u) \in SUBSET Requests /\ UnfinishedOf(u) \in SUBSET Jobs
      /\ UnpaidOf(t) \subseteq Unpaid /\ UnfinishedOf(t) \subseteq Unfinished
  BY SetsTyped
<1>3. Covered(global'.spent, GlobalLimit, Unpaid', Unfinished')
  <2>1. \/ \E r \in Unpaid : Unpaid' = Unpaid \ {r}
        \/ \E j \in Unfinished : Unfinished' = Unfinished \ {j}
    BY <1>2
  <2> QED
    BY <1>1, <1>2, <2>1, SpentTyped, CoveredAfterCharge DEF OvershootInv
<1>4. ASSUME NEW u \in Tenants
      PROVE  Covered(Opened(u).spent, TenantLimit, UnpaidOf(u), UnfinishedOf(u))'
  <2>1. CASE u = t
    <3>1. Covered(Opened(t)'.spent, TenantLimit, UnpaidOf(t)', UnfinishedOf(t)')
      BY <1>1, <1>2, SpentTyped, CoveredAfterCharge DEF OvershootInv
    <3> QED
      BY <2>1, <3>1 DEF Covered, Reach, Slack
  <2>2. CASE u # t
    <3>1. Opened(u)' = Opened(u)
      BY <2>2, OneWindowChanges DEF Charge
    <3> QED
      BY <1>2, <3>1, SpentTyped, CoveredStays DEF OvershootInv, Covered, Reach, Slack
  <2> QED
    BY <2>1, <2>2
<1> QED
  BY <1>3, <1>4 DEF OvershootInv, Covered, Reach, Slack

-----------------------------------------------------------------------------
LEMMA OvershootInductive ==
  ASSUME TypeOK, TypeOK', OvershootInv, [Next]_vars
  PROVE  OvershootInv'
<1> USE DEF Leave, Idle, SetStatus, TypeOK
<1>1. ASSUME NEW r \in Requests, NEW t \in Tenants, Chat(r, t) \/ Stream(r, t)
      PROVE  OvershootInv'
  BY <1>1, BeginCovered DEF Chat, Stream
<1>2. ASSUME NEW r \in Requests, NEW t \in Tenants, Refuse(r, t)
      PROVE  OvershootInv'
  <2>1. /\ global' = Rolled(global)
        /\ \A u \in Tenants : Opened(u)' = Opened(u) \/ Opened(u)' = Rolled(Opened(u))
    BY <1>2, OneWindowChanges DEF Refuse, RefuseAll, RefuseTenant, Opened
  <2>2. /\ global'.spent <= global.spent
        /\ \A u \in Tenants : Opened(u)'.spent <= Opened(u).spent
    <3>1. ASSUME NEW w \in Window
          PROVE  Rolled(w).spent <= w.spent /\ w.spent <= w.spent
      BY DEF Rolled, NewWindow, Window
    <3>2. global \in Window /\ \A u \in Tenants : Opened(u) \in Window
      BY SpentTyped
    <3>3. global'.spent <= global.spent
      BY <2>1, <3>1, <3>2
    <3>4. ASSUME NEW u \in Tenants
          PROVE  Opened(u)'.spent <= Opened(u).spent
      BY <2>1, <3>1, <3>2
    <3> QED
      BY <3>3, <3>4
  <2>3. UNCHANGED <<request, job>>
    BY <1>2 DEF Refuse
  <2> QED
    BY <2>2, <2>3, NobodyJoins DEF Unpaid, Unfinished, UnpaidOf, UnfinishedOf
<1>3. ASSUME NEW r \in Requests, Answer(r) \/ StreamEnd(r)
      PROVE  OvershootInv'
  <2>1. request[r].tenant \in Tenants /\ request[r].chunks \in 0 .. MaxCost
    OBVIOUS
  <2>2. PICK cost \in 0 .. MaxCost : Charge(request[r].tenant, cost)
    BY <1>3, <2>1 DEF Answer, StreamEnd
  <2>3. /\ request[r].at # "idle"
        /\ request' = [request EXCEPT ![r] = Idle]
        /\ job' = job
    BY <1>3 DEF Answer, StreamEnd
  <2>4. /\ r \in UnpaidOf(request[r].tenant)
        /\ Unpaid' = Unpaid \ {r}
        /\ \A u \in Tenants : UnpaidOf(u)' = UnpaidOf(u) \ {r}
        /\ Unfinished' = Unfinished
        /\ \A u \in Tenants : UnfinishedOf(u)' = UnfinishedOf(u)
    BY <2>3 DEF Unpaid, UnpaidOf, Unfinished, UnfinishedOf
  <2> QED
    BY <2>1, <2>2, <2>4, ChargeCovered
<1>4. ASSUME NEW r \in Requests, Timeout(r) \/ Abort(r) \/ Chunk(r)
      PROVE  OvershootInv'
  <2>1. UNCHANGED <<global, tenants, job>>
    BY <1>4 DEF Timeout, Abort, Chunk, registry
  <2>2. /\ request[r].at # "idle"
        /\ \A s \in Requests \ {r} : request'[s] = request[s]
        /\ request'[r].at = "idle" \/ request'[r].tenant = request[r].tenant
    BY <1>4 DEF Timeout, Abort, Chunk
  <2>3. /\ Unpaid' \subseteq Unpaid
        /\ \A u \in Tenants : UnpaidOf(u)' \subseteq UnpaidOf(u)
    BY <2>2 DEF Unpaid, UnpaidOf
  <2> QED
    BY <2>1, <2>3, SpentTyped, NobodyJoins DEF Unfinished, UnfinishedOf, Opened
<1>5. ASSUME NEW j \in Jobs, NEW t \in Tenants, Submit(j, t) \/ StartJob(j) \/ JobFails(j)
      PROVE  OvershootInv'
  <2>1. UNCHANGED <<global, tenants, request>>
    BY <1>5 DEF Submit, StartJob, JobFails, registry
  <2>2. /\ job[j].status \in {"none", "queued", "running"}
        /\ \A k \in Jobs \ {j} : job'[k] = job[k]
        /\ job'[j].status # "none"
        /\ job[j].status = "none" \/ job'[j].tenant = job[j].tenant
    BY <1>5 DEF Submit, StartJob, JobFails
  <2>3. /\ Unfinished' \subseteq Unfinished
        /\ \A u \in Tenants : UnfinishedOf(u)' \subseteq UnfinishedOf(u)
    BY <2>2 DEF Unfinished, UnfinishedOf
  <2> QED
    BY <2>1, <2>3, SpentTyped, NobodyJoins DEF Unpaid, UnpaidOf, Opened
<1>6. ASSUME NEW j \in Jobs, JobSucceeds(j)
      PROVE  OvershootInv'
  <2>1. job[j].tenant \in Tenants
    OBVIOUS
  <2>2. PICK cost \in 0 .. MaxCost : Charge(job[j].tenant, cost)
    BY <1>6 DEF JobSucceeds
  <2>3. /\ job[j].status = "running"
        /\ job' = [job EXCEPT ![j].status = "succeeded"]
        /\ request' = request
    BY <1>6 DEF JobSucceeds
  <2>4. /\ j \in UnfinishedOf(job[j].tenant)
        /\ Unfinished' = Unfinished \ {j}
        /\ \A u \in Tenants : UnfinishedOf(u)' = UnfinishedOf(u) \ {j}
        /\ Unpaid' = Unpaid
        /\ \A u \in Tenants : UnpaidOf(u)' = UnpaidOf(u)
    BY <2>3 DEF Unpaid, UnpaidOf, Unfinished, UnfinishedOf
  <2> QED
    BY <2>1, <2>2, <2>4, ChargeCovered
<1>7. CASE Probe
  <2>1. /\ UNCHANGED <<global, request, job>>
        /\ \A u \in Tenants : Opened(u)' = Opened(u)
    BY <1>7, OneWindowChanges, ServiceAssumption DEF Probe, ReadRemaining
  <2> QED
    BY <2>1, SpentTyped, NobodyJoins DEF Unpaid, UnpaidOf, Unfinished, UnfinishedOf
<1>8. CASE Restart
  <2>1. /\ global'.spent = 0
        /\ \A u \in Tenants : Opened(u)'.spent = 0
    BY <1>8 DEF Restart, Opened, NewWindow
  <2>2. 0 <= Slack(GlobalLimit) /\ 0 <= Slack(TenantLimit)
    BY ReachIsNat, SpentTyped
  <2>3. /\ Unpaid' \in SUBSET Requests /\ Unfinished' \in SUBSET Jobs
        /\ \A u \in Tenants : UnpaidOf(u)' \in SUBSET Requests /\ UnfinishedOf(u)' \in SUBSET Jobs
    BY DEF Unpaid, UnpaidOf, Unfinished, UnfinishedOf
  <2> QED
    BY <2>1, <2>2, <2>3, SpentTyped, CoveredAfterCheck DEF OvershootInv, Covered, Reach, Slack
<1>9. CASE Tick
  <2>1. /\ global'.spent = global.spent
        /\ \A u \in Tenants : Opened(u)'.spent = Opened(u).spent
    BY <1>9, SpentTyped, WindowsTyped DEF Tick, Age, Opened
  <2>2. UNCHANGED <<request, job>>
    BY <1>9 DEF Tick
  <2> QED
    BY <2>1, <2>2, SpentTyped, NobodyJoins DEF Unpaid, UnpaidOf, Unfinished, UnfinishedOf
<1>10. CASE UNCHANGED vars
  BY <1>10, SpentTyped, NobodyJoins
  DEF vars, registry, Unpaid, UnpaidOf, Unfinished, UnfinishedOf, Opened
<1> QED
  BY <1>1, <1>2, <1>3, <1>4, <1>5, <1>6, <1>7, <1>8, <1>9, <1>10 DEF Next, Arrive

(* No window of the service or of a tenant is ever overspent by more than  *)
(* one answer for each concurrent request and each background job, however *)
(* the windows roll over and however late the charges come.                *)
THEOREM OvershootIsBounded == Spec => []OvershootBounded
<1>1. Init => OvershootInv
  <2> SUFFICES ASSUME Init
               PROVE  OvershootInv
    OBVIOUS
  <2>1. global.spent = 0 /\ \A t \in Tenants : Opened(t).spent = 0
    BY DEF Init, RegistryInit, Opened, NewWindow
  <2>2. /\ GlobalLimit \in Nat /\ TenantLimit \in Nat
        /\ 0 <= Slack(GlobalLimit) /\ 0 <= Slack(TenantLimit)
    BY ReachIsNat, RegistryAssumption
  <2>3. \A t \in Tenants : UnpaidOf(t) \in SUBSET Requests /\ UnfinishedOf(t) \in SUBSET Jobs
    BY SetsTyped
  <2> QED
    BY <2>1, <2>2, <2>3, SetsTyped, CoveredAfterCheck DEF OvershootInv
<1>2. TypeOK /\ OvershootInv => OvershootBounded
  <2> SUFFICES ASSUME TypeOK, OvershootInv
               PROVE  OvershootBounded
    OBVIOUS
  <2>1. global.spent <= Reach(GlobalLimit)
    BY SpentTyped, SetsTyped, CoveredIsEnough DEF OvershootInv
  <2>2. ASSUME NEW t \in DOMAIN tenants
        PROVE  tenants[t].spent <= Reach(TenantLimit)
    <3>1. t \in Tenants /\ Opened(t) = tenants[t]
      BY DEF TypeOK, RegistryTypeOK, Opened
    <3>2. UnpaidOf(t) \in SUBSET Requests /\ UnfinishedOf(t) \in SUBSET Jobs
      BY <3>1, SetsTyped
    <3> QED
      BY <3>1, <3>2, SpentTyped, CoveredIsEnough DEF OvershootInv
  <2> QED
    BY <2>1, <2>2 DEF OvershootBounded
<1>3. TypeOK /\ TypeOK' /\ OvershootInv /\ [Next]_vars => OvershootInv'
  BY OvershootInductive
<1> QED
  BY <1>1, <1>2, <1>3, TypeCorrect, PTL DEF Spec
=============================================================================
