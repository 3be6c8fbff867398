--------------------------- MODULE MCRateLimiter ---------------------------
(* Model-checking instance of RateLimiter: one key (keys share nothing), a *)
(* burst of two, four ticks a second, and a token that takes 11/8 of a     *)
(* second, so that waits end between two ticks.  Three for the code's 1000 *)
(* grains: a tick is shorter than the third of a second that is not        *)
(* rounded up.  An observer's time is longer than an empty bucket takes.   *)
EXTENDS RateLimiter
=============================================================================
