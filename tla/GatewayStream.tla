--------------------------- MODULE GatewayStream ---------------------------
(***************************************************************************)
(* The stream endpoint of the Java gateway: ChatController.stream over     *)
(* AiClient.streamChat.  The tokens are a cold publisher with two          *)
(* subscribers, the merge that shows them and takeUntilOther, which awaits *)
(* their end: each subscription is a POST of its own to the Python service *)
(* and passes the breaker on its own.                                      *)
(*                                                                         *)
(* The upstream answers, fails or ends as it likes.  Of the tokens it is   *)
(* kept whether there was one, and the heartbeat, which changes nothing,   *)
(* is left out.                                                            *)
(***************************************************************************)
EXTENDS ServiceBreaker

CONSTANTS Streams   \* requests to the stream endpoint

Subscribers == {"shown", "awaited"}

VARIABLES
  upstream,  \* of each subscription: "idle", "flowing", "ended", "cancelled"
  heard,     \* the subscriptions that have received a token
  response   \* of each stream: "none", "open", "done" (its last event sent), "hung_up"

streamvars == <<upstream, heard, response>>

StreamInit ==
  /\ upstream = [st \in Streams |-> [s \in Subscribers |-> "idle"]]
  /\ heard = [st \in Streams |-> {}]
  /\ response = [st \in Streams |-> "none"]

\* takeUntilOther subscribes to what it awaits before the merge is subscribed to.
\* A refusal of the breaker is one sentence and the end, at once: for the awaited
\* subscription the end of the response, before anything is shown.
Open(st) ==
  /\ response[st] = "none"
  /\ IF Admits(breaker)
     THEN LET once == Acquired(breaker)
          IN  /\ response' = [response EXCEPT ![st] = "open"]
              /\ upstream' = [upstream EXCEPT ![st] =
                   [awaited |-> "flowing", shown |-> IF Admits(once) THEN "flowing" ELSE "ended"]]
              /\ breaker' = IF Admits(once) THEN Acquired(once) ELSE once
     ELSE /\ response' = [response EXCEPT ![st] = "done"]
          /\ upstream' = [upstream EXCEPT ![st].awaited = "ended"]
          /\ UNCHANGED breaker
  /\ UNCHANGED heard

Token(st, s) ==
  /\ upstream[st][s] = "flowing" /\ s \notin heard[st]
  /\ heard' = [heard EXCEPT ![st] = @ \union {s}]
  /\ UNCHANGED <<breaker, upstream, response>>

\* The end of what is shown, complete or with the sentence for a failure, leaves
\* the response open.
ShownEnds(st, failure) ==
  /\ upstream[st].shown = "flowing"
  /\ upstream' = [upstream EXCEPT ![st].shown = "ended"]
  /\ breaker' = Recorded(breaker, failure)
  /\ UNCHANGED <<heard, response>>

\* The end of the awaited subscription cancels what is merged and lets the done
\* event through.
Cut(flow) == IF flow = "flowing" THEN "cancelled" ELSE flow
AwaitedEnds(st, failure) ==
  /\ upstream[st].awaited = "flowing"
  /\ upstream' = [upstream EXCEPT ![st] = [awaited |-> "ended", shown |-> Cut(@.shown)]]
  /\ breaker' = IF upstream[st].shown = "flowing"
                THEN Cancelled(Recorded(breaker, failure), "shown" \in heard[st])
                ELSE Recorded(breaker, failure)
  /\ response' = [response EXCEPT ![st] = "done"]
  /\ heard' = [heard EXCEPT ![st] = {}]

\* The client goes: the merge is cancelled, then what is awaited.
Disconnect(st) ==
  LET Leave(b, s) == IF upstream[st][s] = "flowing" THEN Cancelled(b, s \in heard[st]) ELSE b
  IN  /\ response[st] = "open"
      /\ breaker' = Leave(Leave(breaker, "shown"), "awaited")
      /\ upstream' = [upstream EXCEPT ![st] = [s \in Subscribers |-> Cut(@[s])]]
      /\ response' = [response EXCEPT ![st] = "hung_up"]
      /\ heard' = [heard EXCEPT ![st] = {}]

Relay(st) ==
  \/ \E s \in Subscribers : Token(st, s)
  \/ \E failure \in BOOLEAN : ShownEnds(st, failure) \/ AwaitedEnds(st, failure)

StreamNext == \E st \in Streams : Open(st) \/ Relay(st) \/ Disconnect(st)

StreamSpec ==
  /\ breaker = Closed /\ StreamInit
  /\ [][StreamNext \/ (WaitOver /\ UNCHANGED streamvars)]_<<breaker, streamvars>>

-----------------------------------------------------------------------------
\* "takeUntil on the token stream completing, so the infinite heartbeat does not
\* keep the response open forever" (ChatController.java:111): the done event
\* follows the whole answer, or the sentence that stands for a failed one.
DoneAfterWholeAnswer ==
  \A st \in Streams : response[st] = "done" => upstream[st].shown = "ended"
=============================================================================
