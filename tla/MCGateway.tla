----------------------------- MODULE MCGateway -----------------------------
(* Two chats that may belong to one conversation, and a stream; two probes. *)
EXTENDS Gateway
=============================================================================
