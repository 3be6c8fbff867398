---------------------------- MODULE MCReActLoop ----------------------------
(* Model-checking instance of ReActLoop: two calls to alternate between,   *)
(* windows that keep everything, one, two and three calls, and turns       *)
(* enough for a third call to leave the largest of them.                   *)
EXTENDS ReActLoop
=============================================================================
