------------------------------ MODULE Gateway ------------------------------
(***************************************************************************)
(* The Java gateway: ChatController.chat over AiClient.chat with its retry,*)
(* the conversation a response is appended to, and the streams, which pass *)
(* the same breaker.  Requests run concurrently on the event loop, and a   *)
(* client may hang up at any point.                                        *)
(*                                                                         *)
(* The retry is resilience4j's, modelled from how the code calls and       *)
(* application.yml configures it.  Waiting times are left out: a wait is   *)
(* over whenever it is.                                                    *)
(***************************************************************************)
EXTENDS Conversation, GatewayStream

CONSTANT MaxAttempts   \* maxAttempts of the retry

ASSUME GatewayAssumption == MaxAttempts \in Nat \ {0}

VARIABLES
  call,      \* of each request: "idle", "trying", "persisting", "answered", "hung_up"
  attempts   \* attempts of a request that is being tried, 0 otherwise

gwvars == <<breaker, call, attempts>>
allvars == <<gwvars, convars, streamvars>>

GatewayInit ==
  /\ breaker = Closed
  /\ call = [r \in Requests |-> "idle"]
  /\ attempts = [r \in Requests |-> 0]
  /\ ConversationInit /\ StreamInit

-----------------------------------------------------------------------------
\* flatMap: the response, the upstream's or ChatResponse.degraded, is appended
\* before it is returned, to the conversation the request names, if it names one.
Respond(r) ==
  /\ call' = [call EXCEPT ![r] = "persisting"]
  /\ attempts' = [attempts EXCEPT ![r] = 0]
  /\ \E hasId \in BOOLEAN : Append_(r, hasId)
  /\ UNCHANGED <<list, ttl, cutOff, sinceTrim>>

\* POST /v1/chat of the first attempt, when the breaker lets it.
Send(r) ==
  /\ call[r] = "idle" /\ Admits(breaker)
  /\ breaker' = Acquired(breaker)
  /\ call' = [call EXCEPT ![r] = "trying"]
  /\ attempts' = [attempts EXCEPT ![r] = 1]
  /\ UNCHANGED convars

\* CallNotPermittedException goes to the fallback like any failure.
NotPermitted(r) ==
  /\ call[r] = "idle" /\ ~Admits(breaker)
  /\ Respond(r)
  /\ UNCHANGED breaker

Succeeds(r) ==
  /\ call[r] = "trying"
  /\ breaker' = Recorded(breaker, FALSE)
  /\ Respond(r)

\* Mutant: the count starts again.
Retried_for_ever(r) ==
  /\ call[r] = "trying"
  /\ attempts' = [attempts EXCEPT ![r] = 1 + (@ % MaxAttempts)]
  /\ UNCHANGED <<breaker, call, convars>>
\* WebClientRequestException, TimeoutException (of one attempt) or IOException:
\* on both lists of application.yml.
Retried(r) ==
  /\ call[r] = "trying" /\ attempts[r] < MaxAttempts
  /\ attempts' = [attempts EXCEPT ![r] = @ + 1]
  /\ UNCHANGED <<breaker, call, convars>>
GivenUp(r) ==
  /\ call[r] = "trying" /\ attempts[r] >= MaxAttempts
  /\ breaker' = Recorded(breaker, TRUE)
  /\ Respond(r)

\* WebClientResponseException is on neither list, whatever its status: a 4xx is
\* rethrown to the caller, a 5xx (or a body that cannot be decoded) degraded.  A 200
\* without a body goes the way of a 4xx: a success for the breaker, and no append.
ClientError(r) ==
  /\ call[r] = "trying"
  /\ breaker' = Recorded(breaker, FALSE)
  /\ call' = [call EXCEPT ![r] = "answered"]
  /\ attempts' = [attempts EXCEPT ![r] = 0]
  /\ UNCHANGED convars
ServerError(r) ==
  /\ call[r] = "trying"
  /\ breaker' = Recorded(breaker, FALSE)
  /\ Respond(r)

\* thenReturn(response): 200 once the append is over, however it ended.
Answered(r) ==
  /\ call[r] = "persisting" /\ step[r] = "over"
  /\ call' = [call EXCEPT ![r] = "answered"]
  /\ UNCHANGED <<breaker, attempts, convars>>

\* The client disconnects and the chain is cancelled wherever it is; a command
\* already sent to Redis is executed or not.
HangUp(r) ==
  /\ call[r] \in {"trying", "persisting"}
  /\ call' = [call EXCEPT ![r] = "hung_up"]
  /\ breaker' = IF call[r] = "trying" THEN Released(breaker) ELSE breaker
  /\ IF Persisting(r) THEN ReplyLost(r) \/ CommandLost(r) ELSE UNCHANGED convars
  /\ attempts' = [attempts EXCEPT ![r] = 0]

Command(r) ==
  /\ Acknowledged(r) \/ ReplyLost(r) \/ CommandLost(r)
  /\ UNCHANGED gwvars
Removal == (KeyExpires \/ Clear) /\ UNCHANGED gwvars

Serve(r) ==
  /\ \/ Send(r) \/ NotPermitted(r)
     \/ Succeeds(r) \/ Retried(r) \/ GivenUp(r) \/ ClientError(r) \/ ServerError(r)
     \/ Command(r) \/ Answered(r)
  /\ UNCHANGED streamvars

GatewayNext ==
  \/ \E r \in Requests : Serve(r) \/ (HangUp(r) /\ UNCHANGED streamvars)
  \/ StreamNext /\ UNCHANGED <<call, attempts, convars>>
  \/ WaitOver /\ UNCHANGED <<call, attempts, convars, streamvars>>
  \/ Removal /\ UNCHANGED streamvars

\* Every attempt is bounded by its timeout, every command by Redis's and every
\* silence of a stream by the read timeout, and the event loop runs what is ready;
\* clients need not hang up, nor keys go.
Fairness ==
  /\ \A r \in Requests : WF_allvars(Serve(r))
  /\ \A st \in Streams : WF_allvars(Relay(st) /\ UNCHANGED <<call, attempts, convars>>)

GatewaySpec == GatewayInit /\ [][GatewayNext]_allvars /\ Fairness

-----------------------------------------------------------------------------
\* resilience4j waits for its probes for ever (maxWaitDurationInHalfOpenState is
\* not configured): whatever becomes of the probes - an answer, a 4xx, a 5xx, a
\* client that hangs up, a stream that takes two and has one cancelled - half-open
\* has a permit left once none is in flight.
InFlight ==
  {r \in Requests : call[r] = "trying"} \union
  {flow \in Streams \X Subscribers : upstream[flow[1]][flow[2]] = "flowing"}
HalfOpenNotStuck == breaker.state = "half_open" /\ InFlight = {} => breaker.permits > 0

\* A request that was sent is answered and a response that was opened ends, with
\* Redis and the upstream failing as they like, unless the client hangs up.
EveryChatAnswered ==
  /\ \A r \in Requests : call[r] = "trying" ~> call[r] \in {"answered", "hung_up"}
  /\ \A st \in Streams : response[st] = "open" ~> response[st] \in {"done", "hung_up"}
=============================================================================
