----------------------------- MODULE Structured -----------------------------
(***************************************************************************)
(* generate_structured (03-llm-integration/llmkit/structured.py), which    *)
(* LLMClient.structured calls: the model is asked again, with its failed   *)
(* answer and the error, until an object validates or the attempts are     *)
(* used up.  A reply is written one character at a time:                   *)
(*                                                                         *)
(*   "o" and "c"  the opening and closing brace     "q"  a double quote    *)
(*   "l" and "r"  the opening and closing bracket   "b"  a backslash       *)
(*   "f"          a code fence                      "a"  a single quote    *)
(*   "w"          anything else                                            *)
(*                                                                         *)
(* Which text of balanced braces the JSON parser accepts, as it is or      *)
(* repaired, and which object the schema accepts, is any.                  *)
(***************************************************************************)
EXTENDS Integers, SequencesExt

CONSTANTS
  Alphabet,     \* characters of a reply
  MaxAttempts,  \* max_attempts
  MaxReply      \* bound: characters of a reply

ASSUME StructuredAssumption ==
  /\ Alphabet \subseteq {"o", "c", "l", "r", "q", "b", "f", "a", "w"}
  /\ MaxAttempts \in Nat \ {0} /\ MaxReply \in Nat

VARIABLES
  reply,    \* response.text of the attempt under way
  attempt,  \* attempt
  messages, \* the conversation sent with it
  result,   \* "pending", "valid", or "truncated" or "exhausted" when it raises
  loaded    \* the text the returned object was loaded from

structvars == <<reply, attempt, messages, result, loaded>>

StructuredInit ==
  /\ reply = <<>> /\ attempt = 1 /\ messages = <<"prompt">>
  /\ result = "pending" /\ loaded = <<>>

\* Mutant: a bracket counts inside a string, too.
BalancedSpan_in_strings(t, opener, closer) ==
  LET start == Min({i \in DOMAIN t : t[i] = opener} \union {Len(t) + 1})
      Depth(i) == Cardinality({j \in start .. i : t[j] = opener})
                    - Cardinality({j \in start .. i : t[j] = closer})
      ends == {i \in start .. Len(t) : Depth(i) = 0}
  IN  IF ends = {} THEN <<>> ELSE SubSeq(t, start, Min(ends))

\* A scan that has read so many characters: whether it is inside a string and after
\* a backslash there, how deep it is, and whether the first bracket is closed.
Unread == [quoted |-> FALSE, escaped |-> FALSE, depth |-> 0, read |-> 0, closed |-> FALSE]
ReadOn(s, ch, opener, closer) ==
  LET next == [s EXCEPT !.read = @ + 1]
      depth == s.depth + (IF ch = opener THEN 1 ELSE 0) - (IF ch = closer THEN 1 ELSE 0)
  IN  CASE s.closed -> s
        [] ~s.closed /\ s.escaped -> [next EXCEPT !.escaped = FALSE]
        [] ~s.closed /\ ~s.escaped /\ s.quoted ->
             [next EXCEPT !.escaped = ch = "b", !.quoted = ch # "q"]
        [] OTHER ->
             [next EXCEPT !.quoted = ch = "q", !.depth = depth, !.closed = ch = closer /\ depth = 0]
Balanced(t, opener, closer) ==
  LET scan == FoldLeft(LAMBDA s, ch : ReadOn(s, ch, opener, closer), Unread, t)
  IN  IF scan.closed THEN SubSeq(t, 1, scan.read) ELSE <<>>

\* The first balanced span from the first opener on, blind to brackets inside a
\* string; <<>> when there is none.
BalancedSpan(t, opener, closer) ==
  LET start == Min({i \in DOMAIN t : t[i] = opener} \union {Len(t) + 1})
  IN  Balanced(SubSeq(t, start, Len(t)), opener, closer)

\* What is between the first two fences; <<>> when that is nothing.
Fenced(t) ==
  LET fences == {i \in DOMAIN t : t[i] = "f"}
      first == Min(fences)
  IN  IF Cardinality(fences) < 2 THEN <<>> ELSE SubSeq(t, first + 1, Min(fences \ {first}) - 1)

\* extract_json; <<>> stands for None.
ExtractJson(t) ==
  LET object == BalancedSpan(t, "o", "c")
  IN  CASE Fenced(t) # <<>> -> Fenced(t)
        [] Fenced(t) = <<>> /\ object # <<>> -> object
        [] OTHER -> BalancedSpan(t, "l", "r")

\* repair_json, of which only the quotes matter here: single ones become double ones,
\* where there are no double ones.
Repaired(t) ==
  IF "a" \in ToSet(t) /\ "q" \notin ToSet(t)
  THEN [i \in DOMAIN t |-> IF t[i] = "a" THEN "q" ELSE t[i]]
  ELSE t

\* parse_json_loose: the schema is given an object only if the text it loads is
\* one, as it is or repaired: braces that close and nothing around them.
Loaded(t) == IF ExtractJson(t) = <<>> THEN t ELSE ExtractJson(t)
IsSpan(t) == t # <<>> /\ t = BalancedSpan(t, "o", "c")
LoadsObject(t) == IsSpan(Loaded(t)) \/ IsSpan(Repaired(Loaded(t)))

\* The provider writes its reply.
Write(c) ==
  /\ result = "pending" /\ Len(reply) < MaxReply
  /\ reply' = Append(reply, c)
  /\ UNCHANGED <<attempt, messages, result, loaded>>

\* response.truncated: no second attempt, the same limit would cut it again.
Truncated ==
  /\ result = "pending"
  /\ result' = "truncated"
  /\ UNCHANGED <<reply, attempt, messages, loaded>>

Validated ==
  /\ result = "pending" /\ LoadsObject(reply)
  /\ result' = "valid" /\ loaded' = Loaded(reply)
  /\ UNCHANGED <<reply, attempt, messages>>

\* Not JSON, or not valid: the answer and the error go into the conversation.
AskAgain ==
  /\ result = "pending" /\ attempt < MaxAttempts
  /\ attempt' = attempt + 1
  /\ messages' = messages \o <<"assistant", "correction">>
  /\ reply' = <<>>
  /\ UNCHANGED <<result, loaded>>
GiveUp ==
  /\ result = "pending" /\ attempt = MaxAttempts
  /\ result' = "exhausted"
  /\ UNCHANGED <<reply, attempt, messages, loaded>>

StructuredNext ==
  \/ \E c \in Alphabet : Write(c)
  \/ Truncated \/ Validated \/ AskAgain \/ GiveUp

-----------------------------------------------------------------------------
\* The grammar of a JSON object as far as its delimiters go.  A string falls into
\* characters and escaped pairs, which start at some of its positions.
IsString(t, from, to) ==
  /\ from < to /\ t[from] = "q" /\ t[to] = "q"
  /\ \E starts \in SUBSET (from + 1 .. to) :
       /\ {from + 1, to} \subseteq starts
       /\ \A i \in starts \ {to} : IF t[i] = "b" THEN i + 2 \in starts ELSE t[i] # "q" /\ i + 1 \in starts

\* A body is empty, or one thing and a body: a character, a string, or an object,
\* which is a body in braces.  Spans are found from the shorter ones.
IsObjectOf(bodies, t, from, to) ==
  from < to /\ t[from] = "o" /\ t[to] = "c" /\ <<from + 1, to - 1>> \in bodies
IsThing(bodies, t, from, to) ==
  \/ from = to /\ t[from] \in {"l", "r", "f", "a", "w", "b"}
  \/ IsString(t, from, to) \/ IsObjectOf(bodies, t, from, to)
Longer(bodies, t) ==
  bodies \union {span \in (DOMAIN t) \X (DOMAIN t) :
                   \E m \in span[1] .. span[2] :
                     IsThing(bodies, t, span[1], m) /\ <<m + 1, span[2]>> \in bodies}
Bodies(t) ==
  LET bodies[n \in 0 .. Len(t)] ==
        IF n = 0 THEN {<<i, i - 1>> : i \in 1 .. Len(t) + 1} ELSE Longer(bodies[n - 1], t)
  IN  bodies[Len(t)]
IsObject(t, from, to) == IsObjectOf(Bodies(t), t, from, to)

\* The conversation carries every failed attempt and no more, and the calls are
\* bounded.  What is returned is an object of the last reply, whole, or becomes one
\* when its quotes are repaired: "Balanced
\* scanning beats a regex because JSON nests, and it is string-aware so a brace
\* inside a string value does not break the count" (structured.py:78).  And an
\* object that the reply contains is not refused for the prose around it, when
\* that has no brace, quote or fence.
CorrectionsBounded ==
  LET Prose(t) == ToSet(t) \cap {"o", "c", "q", "f"} = {}
  IN  /\ attempt <= MaxAttempts
      /\ Len(messages) = 1 + 2 * (attempt - 1)
      /\ \A from \in DOMAIN reply, to \in DOMAIN reply :
           LET object == SubSeq(reply, from, to)
           IN  /\ Prose(SubSeq(reply, 1, from - 1)) /\ Prose(SubSeq(reply, to + 1, Len(reply)))
               /\ IsObject(reply, from, to) /\ "f" \notin ToSet(object)
               => LoadsObject(reply) /\ Loaded(reply) = object
      /\ result = "valid" =>
           /\ IsObject(loaded, 1, Len(loaded)) \/ IsObject(Repaired(loaded), 1, Len(loaded))
           /\ \E from, to \in DOMAIN reply : loaded = SubSeq(reply, from, to)
=============================================================================
