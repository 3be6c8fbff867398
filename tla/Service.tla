------------------------------ MODULE Service ------------------------------
(***************************************************************************)
(* The chat service (06-production-service/app): /v1/chat, /v1/chat/stream *)
(* and /v1/chat/async over one BudgetRegistry, the background jobs, and    *)
(* the readiness probe through which Kubernetes decides whether to route   *)
(* requests here at all.                                                   *)
(*                                                                         *)
(* The handlers are coroutines of one event loop.  An action is what runs  *)
(* from one await to the next: everything else may happen while a handler  *)
(* waits for the provider.  A restart forgets all of it: the budgets and   *)
(* the jobs are kept in memory only.                                       *)
(***************************************************************************)
EXTENDS BudgetRegistry, FiniteSets

CONSTANTS
  Requests,    \* requests of the two chat endpoints in progress at once
  Jobs,        \* identifiers of background jobs, each used once
  Dash,        \* "-", the tenant readiness() asks about
  Projected,   \* _project_cost: what a request is expected to cost
  MaxCost,     \* the dearest answer; a stream has at most as many chunks
  Routed       \* whether requests come through a balancer that follows /readyz

ASSUME ServiceAssumption ==
  /\ IsFiniteSet(Requests) /\ IsFiniteSet(Jobs)
  /\ Dash \in Tenants
  /\ Projected \in Nat /\ MaxCost \in Nat
  /\ Routed \in BOOLEAN

VARIABLES
  request,   \* what each request is doing
  job,       \* _JOBS, with the tenant each task was given
  ready      \* whether the last readiness probe answered 200

vars == <<registry, request, job, ready>>

Idle == [at |-> "idle", tenant |-> Dash, chunks |-> 0]
NoJob == [status |-> "none", tenant |-> Dash]

TypeOK ==
  /\ RegistryTypeOK
  /\ request \in [Requests -> [at : {"idle", "chat", "stream"}, tenant : Tenants,
                               chunks : 0 .. MaxCost]]
  /\ job \in [Jobs -> [status : {"none", "queued", "running", "succeeded", "failed", "lost"},
                       tenant : Tenants]]
  /\ ready \in BOOLEAN

Init ==
  /\ RegistryInit
  /\ request = [r \in Requests |-> Idle]
  /\ job = [j \in Jobs |-> NoJob]
  /\ ready = FALSE

-----------------------------------------------------------------------------
Reachable == Routed => ready

\* The budget check of chat and chat_stream, and the call of the provider: chat makes
\* it without an await in between; a stream yields its start event first, and looks at
\* no budget after that.
Begin(r, endpoint, t) ==
  /\ request[r].at = "idle"
  /\ Reachable
  /\ Pass(t, Projected)
  /\ request' = [request EXCEPT ![r] = [at |-> endpoint, tenant |-> t, chunks |-> 0]]
  /\ UNCHANGED <<job, ready>>

Chat(r, t) == Begin(r, "chat", t)
Stream(r, t) == Begin(r, "stream", t)

\* 402
Refuse(r, t) ==
  /\ request[r].at = "idle"
  /\ Reachable
  /\ RefuseAll(Projected) \/ RefuseTenant(t, Projected)
  /\ UNCHANGED <<request, job, ready>>

Leave(r) == request' = [request EXCEPT ![r] = Idle]

Answer(r) ==
  /\ request[r].at = "chat"
  /\ \E cost \in 0 .. MaxCost : Charge(request[r].tenant, cost)
  /\ Leave(r)
  /\ UNCHANGED <<job, ready>>

\* 504 after llm_timeout_seconds, 502, or 500: nothing is charged.
Timeout(r) ==
  /\ request[r].at = "chat"
  /\ Leave(r)
  /\ UNCHANGED <<registry, job, ready>>

Chunk(r) ==
  /\ request[r].at = "stream"
  /\ request[r].chunks < MaxCost
  /\ request' = [request EXCEPT ![r].chunks = @ + 1]
  /\ UNCHANGED <<registry, job, ready>>

\* The client is gone, or the provider failed: nothing is charged, however
\* many chunks were sent.
Abort(r) ==
  /\ request[r].at = "stream"
  /\ Leave(r)
  /\ UNCHANGED <<registry, job, ready>>

\* The cost of a stream is estimated from the text it sent.
StreamEnd(r) ==
  /\ request[r].at = "stream"
  /\ Charge(request[r].tenant, request[r].chunks)
  /\ Leave(r)
  /\ UNCHANGED <<job, ready>>

-----------------------------------------------------------------------------
SetStatus(j, status) == job' = [job EXCEPT ![j].status = status]

\* chat_async validates the request and queues it; it checks no budget.
Submit(j, t) ==
  /\ job[j].status = "none"
  /\ Reachable
  /\ job' = [job EXCEPT ![j] = [status |-> "queued", tenant |-> t]]
  /\ UNCHANGED <<registry, request, ready>>

StartJob(j) ==
  /\ job[j].status = "queued"
  /\ SetStatus(j, "running")
  /\ UNCHANGED <<registry, request, ready>>

JobSucceeds(j) ==
  /\ job[j].status = "running"
  /\ \E cost \in 0 .. MaxCost : Charge(job[j].tenant, cost)
  /\ SetStatus(j, "succeeded")
  /\ UNCHANGED <<request, ready>>

\* Whatever the provider raises, its own timeout included.
JobFails_requeued(j) ==
  /\ job[j].status = "running"
  /\ SetStatus(j, "queued")
  /\ UNCHANGED <<registry, request, ready>>
JobFails(j) ==
  /\ job[j].status = "running"
  /\ SetStatus(j, "failed")
  /\ UNCHANGED <<registry, request, ready>>

-----------------------------------------------------------------------------
\* readiness() and the balancer that polls it.
Probe ==
  /\ ReadRemaining(Dash)
  /\ ready' = (Remaining(global, GlobalLimit) > 0)
  /\ UNCHANGED <<request, job>>

\* A deploy, a crash or a failed liveness probe.
Restart ==
  /\ global' = NewWindow
  /\ tenants' = [t \in {} |-> NewWindow]
  /\ request' = [r \in Requests |-> Idle]
  /\ job' = [j \in Jobs |-> IF job[j] = NoJob THEN NoJob ELSE [NoJob EXCEPT !.status = "lost"]]
  /\ ready' = FALSE

Tick == Age /\ UNCHANGED <<request, job, ready>>

Arrive(r) == \E t \in Tenants : Chat(r, t) \/ Stream(r, t) \/ Refuse(r, t)

Next ==
  \/ \E r \in Requests : \/ Arrive(r)
                         \/ Answer(r) \/ Timeout(r)
                         \/ Chunk(r) \/ Abort(r) \/ StreamEnd(r)
  \/ \E j \in Jobs : \/ \E t \in Tenants : Submit(j, t)
                     \/ StartJob(j) \/ JobSucceeds(j) \/ JobFails(j)
  \/ Probe
  \/ Restart
  \/ Tick

(***************************************************************************)
(* Time passes, the probe is polled and clients keep asking.  A chat that  *)
(* gets no answer is cut off by wait_for.  A stream and a job have no such *)
(* limit in the service: they end because the provider's own client times  *)
(* out (llm.py:165, 199).                                                  *)
(***************************************************************************)
Fairness ==
  /\ WF_vars(Tick) /\ WF_vars(Probe)
  /\ \A r \in Requests : /\ WF_vars(Arrive(r)) /\ WF_vars(Timeout(r))
                         /\ WF_vars(Abort(r) \/ StreamEnd(r))
  /\ \A j \in Jobs : WF_vars(StartJob(j)) /\ WF_vars(JobSucceeds(j) \/ JobFails(j))

Spec == Init /\ [][Next]_vars
FairSpec == Spec /\ Fairness

-----------------------------------------------------------------------------
Slack(limit) == IF limit > Projected THEN limit - Projected ELSE 0

Reach(limit) ==
  Slack(limit) + (Cardinality(Requests) + Cardinality(Jobs)) * MaxCost

(* "A check afterwards is an invoice" (costs.py:18), but the charge comes  *)
(* after the call all the same.  Within its period no window, the          *)
(* service's or a tenant's, is overspent by more than one answer for each  *)
(* request that may run at once and one for each background job, which     *)
(* nothing checks; not even when windows roll over under calls in flight.  *)
OvershootBounded ==
  /\ global.spent <= Reach(GlobalLimit)
  /\ \A t \in DOMAIN tenants : tenants[t].spent <= Reach(TenantLimit)

(* A job that was accepted comes to an end a poll can see: succeeded,      *)
(* failed, or unknown because the process was restarted.                   *)
JobsSettle ==
  \A j \in Jobs :
    job[j].status = "queued" ~> job[j].status \in {"succeeded", "failed", "lost"}

(* A budget that was exhausted is open again after its period, whatever    *)
(* came late and in whatever order the windows roll: as long as clients    *)
(* ask, requests are admitted again and again.                             *)
Reopens ==
  []<><<\E r \in Requests, t \in Tenants : Chat(r, t) \/ Stream(r, t)>>_vars

(* "GLOBAL budget ... Breached means the service stops spending"           *)
(* (costs.py:9): no call of the provider begins while the service's window *)
(* is exhausted.  Background jobs begin theirs regardless.                 *)
Calling ==
  {r \in Requests : request[r].at # "idle"} \union {j \in Jobs : job[j].status = "running"}
BreachStopsSpending ==
  [][Rolled(global).spent >= GlobalLimit => Calling' \subseteq Calling]_vars

(* "removes the pod from the load balancer without killing it, so it       *)
(* recovers on its own" (health.py:13).  readiness() reads the window      *)
(* without rolling it, and no request reaches the pod that would.          *)
RejoinsOnItsOwn == ~ready ~> ready
=============================================================================
