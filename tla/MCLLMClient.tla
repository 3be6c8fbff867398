---------------------------- MODULE MCLLMClient ----------------------------
(* Model-checking instance of LLMClient: two concurrent requests over a    *)
(* primary and one fallback, a cache of one entry for two keys, a breaker  *)
(* that one failure opens, one retry each.                                 *)
EXTENDS LLMClient

CONSTANTS p, short, none

TheCall(max_tokens, mode, cacheable) ==
  [prompt |-> p, max_tokens |-> max_tokens, mode |-> mode, cacheable |-> cacheable]

MixedCalls ==
  {TheCall(short, "acomplete", TRUE), TheCall(none, "complete", TRUE),
   TheCall(short, "complete", FALSE)}
=============================================================================
