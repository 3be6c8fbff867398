--------------------------- MODULE BudgetRegistry ---------------------------
(***************************************************************************)
(* The budgets of the production service (06-production-service/app/       *)
(* costs.py): one spending window for the whole service and one for each   *)
(* tenant, opened the first time the tenant is named.  A window is reset   *)
(* lazily, by the first check or charge after its period has run out;      *)
(* nothing resets it in between, and reading what remains does not.        *)
(*                                                                         *)
(* Each operation holds the registry's lock and is one action here.  Only  *)
(* monotonic() - started_at >= period_seconds is read from the clock, so a *)
(* window keeps its age, saturated at Period.  The limits are set once, by *)
(* configure() at startup; reset() is a hook for tests and is left out.    *)
(***************************************************************************)
EXTENDS Integers

CONSTANTS
  Tenants,       \* names a request may carry
  GlobalLimit,   \* daily_budget_usd
  TenantLimit,   \* tenant_daily_budget_usd
  Period         \* period_seconds

\* Settings requires both limits to be positive (config.py:66-67).
ASSUME RegistryAssumption ==
  /\ GlobalLimit \in Nat \ {0}
  /\ TenantLimit \in Nat \ {0}
  /\ Period \in Nat \ {0}

VARIABLES
  global,    \* global_window
  tenants    \* _tenants: the windows opened so far

registry == <<global, tenants>>

Window == [spent : Nat, age : 0 .. Period]

RegistryTypeOK ==
  /\ global \in Window
  /\ DOMAIN tenants \subseteq Tenants
  /\ \A t \in DOMAIN tenants : tenants[t] \in Window

NewWindow == [spent |-> 0, age |-> 0]

RegistryInit ==
  /\ global = NewWindow
  /\ tenants = [t \in {} |-> NewWindow]

-----------------------------------------------------------------------------
Rolled_never(window) == window
Rolled(window) == IF window.age >= Period THEN NewWindow ELSE window

WouldExceed_unprojected(window, projected, limit) == Rolled(window).spent > limit
WouldExceed(window, projected, limit) == Rolled(window).spent + projected > limit

Charged(window, cost) == [Rolled(window) EXCEPT !.spent = @ + cost]

\* remaining_usd, which does not look at the age of the window.
Remaining(window, limit) == IF window.spent < limit THEN limit - window.spent ELSE 0

Aged(window) == [window EXCEPT !.age = IF @ < Period THEN @ + 1 ELSE @]

\* _tenants is a defaultdict: naming a tenant opens its window.
Opened(t) == IF t \in DOMAIN tenants THEN tenants[t] ELSE NewWindow

TenantsWith(t, window) ==
  [u \in DOMAIN tenants \union {t} |-> IF u = t THEN window ELSE tenants[u]]

-----------------------------------------------------------------------------
\* check passes.
Pass(t, projected) ==
  /\ ~WouldExceed(global, projected, GlobalLimit)
  /\ ~WouldExceed(Opened(t), projected, TenantLimit)
  /\ global' = Rolled(global)
  /\ tenants' = TenantsWith(t, Rolled(Opened(t)))

\* BudgetExceeded, scope "global": the tenant's window is not looked at.
RefuseAll(projected) ==
  /\ WouldExceed(global, projected, GlobalLimit)
  /\ global' = Rolled(global)
  /\ UNCHANGED tenants

\* BudgetExceeded, scope "tenant".
RefuseTenant(t, projected) ==
  /\ ~WouldExceed(global, projected, GlobalLimit)
  /\ WouldExceed(Opened(t), projected, TenantLimit)
  /\ global' = Rolled(global)
  /\ tenants' = TenantsWith(t, Rolled(Opened(t)))

Charge(t, cost) ==
  /\ global' = Charged(global, cost)
  /\ tenants' = TenantsWith(t, Charged(Opened(t), cost))

ReadRemaining(t) ==
  /\ tenants' = TenantsWith(t, Opened(t))
  /\ UNCHANGED global

\* Time passes for every window.
Age ==
  /\ global' = Aged(global)
  /\ tenants' = [t \in DOMAIN tenants |-> Aged(tenants[t])]
=============================================================================
