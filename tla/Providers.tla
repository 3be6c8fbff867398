----------------------------- MODULE Providers -----------------------------
(***************************************************************************)
(* The adapters between the program and the vendors: llmkit/providers of   *)
(* module 03 and app/llm.py of module 06, one call at a time.              *)
(*                                                                         *)
(* The vendor answers with a status and a body, or the connection breaks,  *)
(* by a timeout or otherwise.  A body is read whole or, for a stream, line *)
(* by line; a stream suspends at every text it yields until its caller     *)
(* pulls again.  Texts are the positions of the lines they came on.        *)
(* Payloads and headers are left out; FakeProvider is a vendor that        *)
(* answers at once or raises.                                              *)
(***************************************************************************)
EXTENDS Integers, Sequences

CONSTANT MaxLines   \* bound: the lines of a streamed body

\* What each adapter offers.  "service" is OpenAIProvider of app/llm.py, "fake"
\* stands for both offline providers.
Modes ==
  [openai |-> {"complete", "stream", "embed"}, anthropic |-> {"complete", "stream"},
   service |-> {"complete", "stream"}, fake |-> {"complete", "stream"}]
Calls == UNION {[adapter : {adapter}, mode : Modes[adapter]] : adapter \in DOMAIN Modes}

Statuses == {400, 401, 403, 404, 422, 429, 500}
Details == {"none", "context_length", "content_filter"}
\* garbled: not JSON; error: the vendor's own report of a failure; comment: no data line.
Lines == {"delta", "usage", "error", "garbled", "comment", "end"}

VARIABLES
  call,      \* the adapter and the method called
  stage,     \* "idle", "sent", "body", "yielded", "over"
  status,    \* the vendor's answer, see Unasked
  wire,      \* the lines read of a streamed body
  ended    \* how the call ended

providervars == <<call, stage, status, wire, ended>>

\* No request was sent; no answer, or not the whole of it, came back.
Unasked == 0
Unanswered == 1

\* An ending is the class of the exception, or one of the three that are none.
Ending(class, retryable) == [class |-> class, retryable |-> retryable]
Pending == Ending("pending", FALSE)
Completed == Ending("completed", FALSE)
Closed == Ending("closed", FALSE)

\* errors.py: the two classes that are retryable.
Error(class) == Ending(class, class \in {"RateLimitError", "TransientError"})

\* Mutant: > where the code has >=.
classify_status_above(code, detail) ==
  IF code > 500 THEN Error("TransientError")
  ELSE Error(IF code = 429 THEN "RateLimitError" ELSE "LLMError")
classify_status(code, detail) ==
  CASE code = 429 -> Error("RateLimitError")
    [] code \in {401, 403} -> Error("AuthError")
    [] code >= 500 -> Error("TransientError")
    [] code \in {400, 422} ->
         Error(CASE detail = "context_length" -> "ContextLengthError"
                  [] detail = "content_filter" -> "ContentFilterError"
                  [] OTHER -> "InvalidRequestError")
    [] OTHER -> Error("LLMError")

\* The service has a table of its own; its stream takes a rate limit for final.
ServiceStatus(mode, code) ==
  Ending("LLMError", code >= 500 \/ (mode = "complete" /\ code = 429))

\* A broken connection.  A stream catches timeouts only, and the service's nothing;
\* embed catches nothing.  What is not caught is httpx's own exception.
Broken(c, timeout) ==
  CASE c.mode = "complete" /\ c.adapter = "service" -> Ending("LLMError", TRUE)
    [] c.mode = "complete" /\ c.adapter # "service" -> Error("TransientError")
    [] c.mode = "stream" /\ c.adapter # "service" /\ timeout -> Error("TransientError")
    [] OTHER -> Ending("HTTPError", FALSE)

\* "Base for everything this library raises" (errors.py:27), and app/llm.py's LLMError.
Escaped(ending) == ending.class \in {"HTTPError", "JSONDecodeError", "KeyError"}
Typed(ending) == ~Escaped(ending) /\ ending \notin {Pending, Completed, Closed}

ProvidersInit ==
  /\ call \in {c \in Calls : c.mode = "stream" /\ c.adapter = "fake"}
  /\ stage = "idle" /\ status = Unasked /\ wire = <<>> /\ ended = Pending

Over(ending) == stage' = "over" /\ ended' = ending

Send(c) ==
  /\ call' = c
  /\ stage' = "sent" /\ status' = Unasked /\ wire' = <<>> /\ ended' = Pending

\* The key is looked up for the headers, before anything leaves.
NoKey ==
  /\ stage = "sent" /\ call.adapter \in {"openai", "anthropic"}
  /\ Over(Error("LLMError"))
  /\ UNCHANGED <<call, status, wire>>

RefusedBy(code, detail) ==
  /\ stage = "sent" /\ call.adapter # "fake"
  /\ status' = code
  /\ Over(IF call.adapter = "service" THEN ServiceStatus(call.mode, code)
                                      ELSE classify_status(code, detail))
  /\ UNCHANGED <<call, wire>>

\* _maybe_fail: a scripted failure, retryable unless the script says otherwise.
Scripted ==
  /\ stage = "sent" /\ call.adapter = "fake"
  /\ status' = Unanswered
  /\ Over(Ending("LLMError", TRUE))
  /\ UNCHANGED <<call, wire>>

\* A body read whole: an answer, possibly empty, unless it is not JSON.
NotJson == Ending("JSONDecodeError", FALSE)
Parsed(ending) ==
  /\ stage = "sent" /\ call.mode = "complete"
  /\ call.adapter = "fake" => ending = Completed
  /\ status' = 200
  /\ Over(ending)
  /\ UNCHANGED <<call, wire>>

\* The embeddings are required to be in the body.
NoData == Ending("KeyError", FALSE)
Embedded(ending) ==
  /\ stage = "sent" /\ call.mode = "embed"
  /\ status' = 200
  /\ Over(ending)
  /\ UNCHANGED <<call, wire>>

Opened ==
  /\ stage = "sent" /\ call.mode = "stream"
  /\ stage' = "body" /\ status' = 200
  /\ UNCHANGED <<call, wire, ended>>

\* Of the lines of a body a text is yielded, the end ends the stream, and all else is
\* skipped, garbled lines and the vendor's errors included.
Line(line) ==
  /\ stage = "body" /\ Len(wire) < MaxLines
  /\ call.adapter = "fake" => line = "delta"
  /\ wire' = Append(wire, line)
  /\ stage' = CASE line = "delta" -> "yielded" [] line = "end" -> "over" [] OTHER -> "body"
  /\ ended' = IF line = "end" THEN Completed ELSE ended
  /\ UNCHANGED <<call, status>>

\* The body closes without an end: the loop over its lines is over.
BodyEnds ==
  /\ stage = "body"
  /\ Over(Completed)
  /\ UNCHANGED <<call, status, wire>>

Breaks(timeout) ==
  /\ stage \in {"sent", "body"} /\ call.adapter # "fake"
  /\ status' = Unanswered
  /\ Over(Broken(call, timeout))
  /\ UNCHANGED <<call, wire>>

\* The caller pulls the next text, or closes the generator.
Pull ==
  /\ stage = "yielded"
  /\ stage' = "body"
  /\ UNCHANGED <<call, status, wire, ended>>
Close ==
  /\ stage = "yielded"
  /\ Over(Closed)
  /\ UNCHANGED <<call, status, wire>>

Vendor ==
  \/ NoKey \/ Scripted \/ Opened \/ BodyEnds
  \/ \E code \in Statuses, detail \in Details : RefusedBy(code, detail)
  \/ \E ending \in {Completed, NotJson} : Parsed(ending)
  \/ \E ending \in {Completed, NotJson, NoData} : Embedded(ending)
  \/ \E line \in Lines : Line(line)
  \/ \E timeout \in BOOLEAN : Breaks(timeout)

\* The texts of a body, by the lines they came on.
Deltas(lines) == {i \in DOMAIN lines : lines[i] = "delta"}

-----------------------------------------------------------------------------
\* Whichever adapter made the call, what it raises is retryable exactly when the
\* vendor gave no answer, or one that a later attempt may not give: "4xx is our bug
\* and must not be retried; 5xx and 429 may be" (app/llm.py:176), and errors.py's
\* table.  The two tables are kept apart in the code.  The service's stream differs.
RetryableIffMayPass ==
  stage = "over" /\ Typed(ended) /\ call # [adapter |-> "service", mode |-> "stream"] =>
    (ended.retryable <=> status \in {Unanswered, 429} \/ status >= 500)
=============================================================================
