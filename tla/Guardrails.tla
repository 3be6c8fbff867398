----------------------------- MODULE Guardrails -----------------------------
(***************************************************************************)
(* Guardrails (05-agents/agentkit/guardrails.py) around the tool calls of  *)
(* an agent, used as its example and tests do: check a call, execute it    *)
(* when check returns no reason, filter its result.                        *)
(*                                                                         *)
(* A call is told from another by the tool it names, and the content of a  *)
(* result by the categories of the injection patterns that occur in it.    *)
(***************************************************************************)
EXTENDS Integers, SequencesExt, FiniteSets

CONSTANTS
  ToolNames,   \* names a call may have, registered or not
  Policies,    \* settings: allowed_tools (or NoList), denied, dangerous, approver, max_calls
  NoList,      \* allowed_tools is None
  Categories,  \* what injection patterns stand for
  MaxAudit     \* bound: entries of the audit trail

ASSUME GuardrailsAssumption ==
  /\ MaxAudit \in Nat
  /\ "none" \notin ToolNames
  /\ Policies \subseteq [allowed : (SUBSET ToolNames) \union {NoList}, denied : SUBSET ToolNames,
                         dangerous : SUBSET ToolNames, approver : BOOLEAN, max_calls : Nat]

VARIABLES
  policy,     \* the dataclass's settings
  audit,      \* self.audit: of each entry, the tool and the decision
  blocked,    \* injections_blocked
  current,    \* the call permitted and not yet filtered; "none" between calls
  executed,   \* history: the tools whose call was executed, in order
  delivered   \* history: of the last content shown to the model, "clean" or "wrapped"

guardvars == <<policy, audit, blocked, current, executed, delivered>>

GuardInit ==
  /\ policy \in Policies
  /\ audit = <<>> /\ blocked = 0 /\ current = "none" /\ executed = <<>> /\ delivered = "clean"

Granted(entry) == entry.decision \in {"allowed", "approved"}
Spent == Cardinality({i \in DOMAIN audit : Granted(audit[i])})
\* Mutant: one call too many.
LimitReached_off_by_one == Spent > policy.max_calls
LimitReached == Spent >= policy.max_calls

\* The order of check: the limit, the denylist, the allowlist, the approval.
Refused(name) ==
  \/ LimitReached
  \/ name \in policy.denied
  \/ policy.allowed # NoList /\ name \notin policy.allowed
NeedsApproval(name) == ~Refused(name) /\ name \in policy.dangerous

Record_(name, decision) == audit' = Append(audit, [tool |-> name, decision |-> decision])
Proceed(name) == current' = name
Stay == UNCHANGED current

Blocks(name) == Refused(name) /\ Record_(name, "blocked") /\ Stay
Allows(name) == ~Refused(name) /\ name \notin policy.dangerous /\ Record_(name, "allowed") /\ Proceed(name)
Approves(name) == NeedsApproval(name) /\ policy.approver /\ Record_(name, "approved") /\ Proceed(name)
\* Fail closed: no approver, or one that says no.
Denies(name) == NeedsApproval(name) /\ Record_(name, "denied") /\ Stay

\* An approver that raises leaves no entry and no permission: no step.
Check(name) ==
  /\ current = "none" /\ Len(audit) < MaxAudit
  /\ Blocks(name) \/ Allows(name) \/ Approves(name) \/ Denies(name)
  /\ UNCHANGED <<policy, blocked, executed, delivered>>

\* scan_for_injection of a content: the categories of the patterns found.
Findings == SUBSET Categories
\* neutralize: one wrapping, whatever was found.
Neutralize(findings) == IF findings = {} THEN "clean" ELSE "wrapped"

\* filter_output: a successful result with findings is counted and recorded once.
Counted(findings) ==
  IF findings = {} THEN UNCHANGED <<blocked, audit>>
  ELSE blocked' = blocked + 1 /\ Record_(current, "blocked")

\* Whatever the tool returns, the result goes through filter_output.
Execute(findings) ==
  /\ current # "none" /\ Len(audit) < MaxAudit
  /\ executed' = Append(executed, current)
  /\ current' = "none"
  /\ Counted(findings)
  /\ delivered' = Neutralize(findings)
  /\ UNCHANGED policy

GuardNext ==
  \/ \E name \in ToolNames : Check(name)
  \/ \E findings \in Findings : Execute(findings)

GuardSpec == GuardInit /\ [][GuardNext]_guardvars

-----------------------------------------------------------------------------
\* The calls executed, and the one about to be.
Ran == IF current = "none" THEN executed ELSE Append(executed, current)
\* How many of the first n entries grant a call.
GrantedUpTo(n) == Cardinality({i \in 1 .. n : Granted(audit[i])})

\* The audit trail accounts for every call that ran: the granted entries are,
\* in order, the calls executed and the one about to be, which the policy
\* permits, of which there are never more than max_calls; and blocked outputs,
\* which are entries too, neither use up the limit nor hide a call, and are one
\* for each result that was wrapped.
AuditAccountsForCalls ==
  /\ Spent = Len(Ran)
  /\ Spent <= policy.max_calls
  /\ \A n \in DOMAIN audit : Granted(audit[n]) =>
       LET name == Ran[GrantedUpTo(n)]
       IN  /\ audit[n].tool = name
           /\ name \notin policy.denied
           /\ policy.allowed = NoList \/ name \in policy.allowed
           /\ name \in policy.dangerous <=> audit[n].decision = "approved"
  /\ blocked <= Len(executed)
  /\ delivered = "wrapped" => blocked > 0 /\ \E i \in DOMAIN audit :
       audit[i] = [tool |-> Last(executed), decision |-> "blocked"]
=============================================================================
