SPECIFICATION FairSpec
CONSTANTS
  Requests = {r1}
  Jobs = {}
  Dash = dash
  Tenants = {dash, acme}
  GlobalLimit = 1
  TenantLimit = 1
  Period = 2
  Projected = 1
  MaxCost = 1
  Routed = TRUE
PROPERTY RejoinsOnItsOwn
