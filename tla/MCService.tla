----------------------------- MODULE MCService -----------------------------
(* Model-checking instance of Service: two requests at once, one job, two  *)
(* tenants (one of them the "-" of the readiness probe), a budget of two   *)
(* answers for the service and one for a tenant, periods of two ticks.     *)
EXTENDS Service
=============================================================================
