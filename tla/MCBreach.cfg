SPECIFICATION Spec
CONSTANTS
  Requests = {r1, r2}
  Jobs = {j1}
  Dash = dash
  Tenants = {dash, acme}
  GlobalLimit = 2
  TenantLimit = 1
  Period = 2
  Projected = 1
  MaxCost = 1
  Routed = FALSE
PROPERTY BreachStopsSpending
