---------------------------- MODULE AgentTools ----------------------------
(***************************************************************************)
(* A typed function turned into a Tool and called with a model's arguments *)
(* (05-agents/agentkit/tools.py): tool() derives the schema from the       *)
(* signature, Tool.validate checks the arguments against the schema, and   *)
(* ToolRegistry.execute turns every failure into an observation.           *)
(*                                                                         *)
(* A value is told from another by its Python type, and a string of a      *)
(* Literal's options ("option") from any other.                            *)
(***************************************************************************)
EXTENDS Integers, FiniteSets

CONSTANTS
  Parameters,   \* names of the function's parameters
  Strangers,    \* argument names that are no parameter
  Annotations   \* the annotations parameters may have

ASSUME ToolsAssumption ==
  /\ Parameters \cap Strangers = {}
  /\ Annotations \subseteq 
       {"str", "int", "float", "bool", "list", "dict", "Literal", "Optional", "none"}

VARIABLES
  signature,  \* of each parameter, its annotation and whether it has a default
  arguments,  \* of the call: a value per argument given
  outcome     \* "ready", or the result: "ok", "raised", "slow", or the error of validate

toolvars == <<signature, arguments, outcome>>

Values == {"str", "option", "int", "float", "bool", "list", "dict", "null"}
ArgumentSets == UNION {[given -> Values] : given \in SUBSET (Parameters \union Strangers)}

\* json_type_of: a Literal is an enum of strings, an Optional[int] its int, and
\* a parameter without an annotation a string.
JsonType(annotation) ==
  [str |-> "string", int |-> "integer", float |-> "number", bool |-> "boolean",
   list |-> "array", dict |-> "object", Literal |-> "string", Optional |-> "integer", none |-> "string"][annotation]

\* Mutant: a default is not looked at.
Required_despite_defaults == {p \in Parameters : signature[p].annotation # "Optional"}
\* tool(): a parameter without a default is required unless it is an Optional.
Required ==
  {p \in Parameters : ~signature[p].default /\ signature[p].annotation # "Optional"}

\* isinstance: a bool is an int; nothing is asked of an object.
Accepts(type) ==
  CASE type = "string" -> {"str", "option"}
    [] type = "integer" -> {"int", "bool"}
    [] type = "number" -> {"int", "float", "bool"}
    [] type = "boolean" -> {"bool"}
    [] type = "array" -> {"list"}
    [] type = "object" -> Values
Fits(p, value) ==
  /\ value \in Accepts(JsonType(signature[p].annotation))
  /\ signature[p].annotation = "Literal" => value = "option"

\* Tool.validate: what is missing, then what is unknown, then each value.
Missing(args) == Required \ DOMAIN args # {}
Unknown(args) == DOMAIN args \ Parameters # {}
Misfit(args) == \E p \in DOMAIN args : ~Fits(p, args[p])
Validate(args) ==
  CASE Missing(args) -> "missing"
    [] ~Missing(args) /\ Unknown(args) -> "unknown"
    [] OTHER -> IF Misfit(args) THEN "invalid" ELSE "valid"

\* fn(**arguments) raises a TypeError when a parameter without default is absent.
Binds(args) == \A p \in Parameters : signature[p].default \/ p \in DOMAIN args

\* execute: the tool may raise, or return after its timeout, which is only
\* noticed once it has returned.
Outcomes_(args) ==
  CASE Validate(args) # "valid" -> {Validate(args)}
    [] Validate(args) = "valid" /\ ~Binds(args) -> {"raised"}
    [] OTHER -> {"ok", "raised", "slow"}

Signatures == [Parameters -> [annotation : Annotations, default : BOOLEAN]]

ToolsInit ==
  /\ signature \in Signatures
  /\ arguments = <<>>
  /\ outcome = "ready"

Call(args) ==
  /\ outcome = "ready"
  /\ arguments' = args
  /\ outcome' \in Outcomes_(args)
  /\ UNCHANGED signature

ToolsNext == \E args \in ArgumentSets : Call(args)

ToolsSpec == ToolsInit /\ [][ToolsNext]_toolvars

-----------------------------------------------------------------------------
\* The values a parameter takes by its annotation; without one, what the schema
\* says it is.
Admitted(p) ==
  LET annotation == signature[p].annotation
  IN  CASE annotation = "Optional" -> {"int", "null"}
        [] annotation = "float" -> {"float", "int"}
        [] annotation = "Literal" -> {"option"}
        [] annotation \in {"str", "none"} -> {"str", "option"}
        [] OTHER -> {annotation}

\* "Validating here turns a confusing TypeError deep in your code into a clear
\* observation" (tools.py:158): the schema agrees with the function it was made
\* from.  A call that reaches the function names only its parameters, gives each
\* an admitted value (a bool passes for a number, anything for a dict) and binds,
\* unless it leaves out an Optional parameter without a default; and a call is
\* refused only when it would not bind, or for a value that is not admitted or
\* is a null.
ValidCallsBind ==
  /\ outcome \in {"ok", "raised", "slow"} =>
       /\ DOMAIN arguments \subseteq Parameters
       /\ \A p \in Parameters \ DOMAIN arguments :
            signature[p].default \/ signature[p].annotation = "Optional"
       /\ \A p \in DOMAIN arguments :
            \/ arguments[p] \in Admitted(p) \ {"null"}
            \/ arguments[p] = "bool" /\ signature[p].annotation \in {"int", "float", "Optional"}
            \/ signature[p].annotation = "dict"
       /\ outcome # "raised" => Binds(arguments)
  /\ outcome \in {"missing", "unknown"} =>
       ~(Binds(arguments) /\ DOMAIN arguments \subseteq Parameters)
  /\ outcome = "invalid" =>
       \E p \in DOMAIN arguments : arguments[p] \notin Admitted(p) \ {"null"}
=============================================================================
