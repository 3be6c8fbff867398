--------------------------- MODULE ServiceStream ---------------------------
(***************************************************************************)
(* The event stream of the Python service: the generator of chat_stream    *)
(* (app/routers/chat.py) over a provider's astream, and a client that may  *)
(* leave at any time.  Budgets are Service's; here it is what the client   *)
(* is sent, and when the answer is charged for.                            *)
(***************************************************************************)
EXTENDS Providers, FiniteSets

VARIABLES
  generator,   \* "none", "running", "returned", "raised"
  frames,      \* the events sent, with the position of a token's text
  listening,   \* the client is connected
  charges,     \* how often budgets.record was called
  wasted       \* history: texts the vendor produced after the client left

framevars == <<generator, frames, listening, charges, wasted>>
eventvars == <<providervars, framevars>>

Frame(event, text) == [event |-> event, text |-> text]
Plain(event) == Frame(event, 0)

EventsInit ==
  /\ ProvidersInit
  /\ generator = "none" /\ frames = <<>> /\ listening = TRUE
  /\ charges = 0 /\ wasted = 0

\* A call of an adapter with no generator above it: its caller pulls at once.
Direct(c) ==
  /\ stage = "idle" /\ Send(c)
  /\ UNCHANGED framevars

\* The first event, then astream is entered.
Generate(c) ==
  /\ stage = "idle" /\ c.mode = "stream" /\ c.adapter \in {"service", "fake"}
  /\ Send(c)
  /\ generator' = "running" /\ frames' = <<Plain("start")>>
  /\ UNCHANGED <<listening, charges, wasted>>

\* What the vendor does costs nothing to the generator but the text it pulled.
Upstream ==
  /\ Vendor
  /\ wasted' = IF stage' = "yielded" /\ ~listening THEN wasted + 1 ELSE wasted
  /\ UNCHANGED <<generator, frames, listening, charges>>

PullDirectly ==
  /\ generator = "none"
  /\ Pull \/ Close
  /\ UNCHANGED framevars

\* Mutant: the connection is not looked at.
Show_unchecked ==
  /\ generator = "running"
  /\ Pull
  /\ frames' = Append(frames, Frame("token", Len(wire)))
  /\ UNCHANGED <<generator, listening, charges, wasted>>
\* A text is shown unless the client is found to have left.
Show ==
  /\ generator = "running" /\ listening
  /\ Pull
  /\ frames' = Append(frames, Frame("token", Len(wire)))
  /\ UNCHANGED <<generator, listening, charges, wasted>>
\* Mutant: the loop is left, but not the generator.
Abort_break ==
  /\ generator = "running" /\ ~listening
  /\ Close
  /\ generator' = "returned"
  /\ charges' = charges + 1
  /\ frames' = frames \o <<Plain("usage"), Plain("done")>>
  /\ UNCHANGED <<listening, wasted>>
Abort ==
  /\ generator = "running" /\ ~listening
  /\ Close
  /\ generator' = "returned"
  /\ UNCHANGED <<frames, listening, charges, wasted>>

\* Mutant: no return after the error.
FailInBand_going_on ==
  /\ generator = "running" /\ stage = "over" /\ Typed(ended)
  /\ frames' = frames \o <<Plain("error"), Plain("done"), Plain("usage"), Plain("done")>>
  /\ charges' = charges + 1
  /\ generator' = "returned"
  /\ UNCHANGED <<providervars, listening, wasted>>
\* The three ways to leave the loop: an LLMError is told in-band, another exception
\* goes through, a complete answer is charged for and its usage reported.
FailInBand ==
  /\ generator = "running" /\ stage = "over" /\ Typed(ended)
  /\ frames' = frames \o <<Plain("error"), Plain("done")>>
  /\ generator' = "returned"
  /\ UNCHANGED <<providervars, listening, charges, wasted>>
Raise ==
  /\ generator = "running" /\ stage = "over" /\ Escaped(ended)
  /\ generator' = "raised"
  /\ UNCHANGED <<providervars, frames, listening, charges, wasted>>
Finish ==
  /\ generator = "running" /\ stage = "over" /\ ended = Completed
  /\ charges' = charges + 1
  /\ frames' = frames \o <<Plain("usage"), Plain("done")>>
  /\ generator' = "returned"
  /\ UNCHANGED <<providervars, listening, wasted>>

\* The client leaves, which the server may notice by itself: it then cancels the
\* generator wherever that waits.
Leave ==
  /\ generator = "running" /\ listening
  /\ listening' = FALSE
  /\ UNCHANGED <<providervars, generator, frames, charges, wasted>>
Cancel ==
  /\ generator = "running" /\ ~listening /\ stage # "over"
  /\ Over(Closed)
  /\ generator' = "returned"
  /\ UNCHANGED <<call, status, wire, frames, listening, charges, wasted>>

EventsNext ==
  \/ \E c \in Calls : Direct(c) \/ Generate(c)
  \/ Upstream \/ PullDirectly
  \/ Show \/ Abort \/ FailInBand \/ Raise \/ Finish \/ Leave \/ Cancel

EventsSpec == EventsInit /\ [][EventsNext]_eventvars

-----------------------------------------------------------------------------
Ends == {i \in DOMAIN frames : frames[i].event \in {"usage", "error"}}

\* An answer is reported as complete or as failed, never both, and done follows at
\* once and is the last event.  A client that stays is told, unless the failure is
\* one that nobody catches: "the error must travel in-band or the client sees a silent
\* truncation" (chat.py:242).
OneEnding ==
  /\ Cardinality(Ends) <= 1
  /\ \A i \in DOMAIN frames : frames[i].event = "done" <=> i - 1 \in Ends
  /\ \A i \in Ends : i = Len(frames) - 1
  /\ generator \in {"returned", "raised"} /\ listening /\ ~Escaped(ended) => Ends # {}

TokenFrames == {i \in DOMAIN frames : frames[i].text # 0}
Told == {frames[i].text : i \in TokenFrames}
InOrder == \A i, j \in TokenFrames : i < j => frames[i].text < frames[j].text

\* "The only contract streaming offers: concatenation reproduces the text"
\* (test_service_api.py:208), and its price: a stream is charged for once, and only
\* when every text that could be read was shown, in its order, and none was lost to a
\* failure or to a client that left.
ChargedWhenWhole ==
  charges > 0 => charges = 1 /\ ended = Completed /\ Told = Deltas(wire) /\ InOrder

\* "Stop paying for tokens nobody will receive" (chat.py:234): after the client has
\* left the vendor produces one more text at most.
OneWastedText == wasted <= 1
=============================================================================
