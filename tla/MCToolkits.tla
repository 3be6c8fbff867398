----------------------------- MODULE MCToolkits -----------------------------
(***************************************************************************)
(* The toolkits an application assembles, each a machine of its own that   *)
(* shares no state with the others.  One run checks them one at a time: of *)
(* a behaviour's machines only its subject leaves its initial state.       *)
(***************************************************************************)
EXTENDS RAGPipeline, Chunking, Guardrails, AgentTools, Memory, Structured,
  ServiceStream

CONSTANTS s1, s2, q1, t1, t2, t3, c1, c2, c3, a, b

VARIABLE subject

\* Two tenants and three contents that share a text, one of them blank.  t3 is
\* too long for the context, and t1 is far from the question in meaning but
\* shares a word with it.
MCWords == (q1 :> {"a", "b"}) @@ (t1 :> {"a"}) @@ (t2 :> {"b", "c"}) @@ (t3 :> {"c"})
MCCosine == (q1 :> (t1 :> 2 @@ t2 :> 40 @@ t3 :> 40))
MCPieces == (c1 :> <<t1, t2>>) @@ (c2 :> <<t3, t1>>) @@ (c3 :> <<>>)
MCTokens == (t1 :> 2) @@ (t2 :> 3) @@ (t3 :> 5)
\* All but the plain vector search, which the reranked one includes.
MCConfigs == {[hybrid |-> TRUE, reranker |-> FALSE], [hybrid |-> TRUE, reranker |-> TRUE],
              [hybrid |-> FALSE, reranker |-> TRUE]}
MCReciprocal == [rank \in 1 .. 4 |-> (61 * 62 * 63 * 64) \div (60 + rank)]
MCGain == <<1000, 631, 500, 431>>
Tenants == Permutations(Sources)

\* A tool on both lists, on one, on none; with and without somebody to ask.
MCPolicies ==
  [allowed : {NoList, {a}, {a, b}}, denied : {{}, {b}}, dangerous : SUBSET {a, b},
   approver : BOOLEAN, max_calls : 1 .. 2]

Idle(machine, initial) == machine = (CHOOSE v \in initial : TRUE)

Init ==
  /\ subject \in {"rag", "chunking", "guardrails", "tools", "memory", "structured",
                 "events"}
  /\ subject # "rag" => Idle(config, Configs)
  /\ subject # "guardrails" => Idle(policy, Policies)
  /\ subject # "tools" => Idle(signature, Signatures)
  /\ RAGInit /\ ChunkingInit /\ GuardInit /\ ToolsInit /\ MemoryInit /\ StructuredInit
  /\ EventsInit

Next ==
  /\ UNCHANGED subject
  /\ IF subject = "rag" THEN RAGNext ELSE UNCHANGED ragvars
  /\ IF subject = "chunking" THEN ChunkingNext ELSE UNCHANGED text
  /\ IF subject = "guardrails" THEN GuardNext ELSE UNCHANGED guardvars
  /\ IF subject = "tools" THEN ToolsNext ELSE UNCHANGED toolvars
  /\ IF subject = "memory" THEN MemoryNext ELSE UNCHANGED memvars
  /\ IF subject = "structured" THEN StructuredNext ELSE UNCHANGED structvars
  /\ IF subject = "events" THEN EventsNext ELSE UNCHANGED eventvars

Spec ==
  Init /\ [][Next]_<<subject, ragvars, text, guardvars, toolvars, memvars, structvars, eventvars>>
=============================================================================
