--------------------------- MODULE Gateway_proofs ---------------------------
(***************************************************************************)
(* Proofs about Gateway, for any requests and streams, any number of turns *)
(* kept and any configuration of the breaker and the retry.                *)
(***************************************************************************)
EXTENDS Gateway, FiniteSetTheorems, SequenceTheorems, TLAPS

Steps == {"none", "push", "trim", "expire", "over"}
Calls == {"idle", "trying", "persisting", "answered", "hung_up"}

\* A request appends only once its call is over: until then its append has not
\* begun.
RequestsOK ==
  /\ call \in [Requests -> Calls]
  /\ step \in [Requests -> Steps]
  /\ \A r \in Requests : call[r] \in {"idle", "trying"} => step[r] = "none"

-----------------------------------------------------------------------------
(* What a step of the gateway does to a conversation.                      *)

\* Every step of the gateway leaves the conversation alone, starts an append,
\* takes or drops one command of an append, or makes the key go.
ConversationStep ==
  \/ UNCHANGED convars
  \/ \E r \in Requests, hasId \in BOOLEAN :
       /\ call[r] \in {"idle", "trying"} /\ Append_(r, hasId)
       /\ UNCHANGED <<list, ttl, cutOff, sinceTrim>>
  \/ \E r \in Requests : Acknowledged(r) \/ ReplyLost(r) \/ CommandLost(r)
  \/ Gone

LEMMA StepsOfConversation ==
  ASSUME [GatewayNext]_allvars
  PROVE  ConversationStep
<1>1. ASSUME NEW r \in Requests, Serve(r)
      PROVE  ConversationStep
  <2>1. CASE Send(r) \/ Retried(r) \/ ClientError(r) \/ Answered(r)
    BY <2>1 DEF Send, Retried, ClientError, Answered, ConversationStep
  <2>2. CASE NotPermitted(r) \/ Succeeds(r) \/ GivenUp(r) \/ ServerError(r)
    BY <2>2 DEF NotPermitted, Succeeds, GivenUp, ServerError, Respond, ConversationStep
  <2>3. CASE Command(r)
    BY <2>3 DEF Command, ConversationStep
  <2> QED
    BY <1>1, <2>1, <2>2, <2>3 DEF Serve
<1>2. ASSUME NEW r \in Requests, HangUp(r)
      PROVE  ConversationStep
  BY <1>2 DEF HangUp, ConversationStep
<1>3. CASE Removal
  BY <1>3 DEF Removal, KeyExpires, Clear, ConversationStep
<1>4. CASE UNCHANGED convars
  BY <1>4 DEF ConversationStep
<1> QED
  BY <1>1, <1>2, <1>3, <1>4 DEF GatewayNext, allvars

LEMMA RequestsStart == GatewayInit => RequestsOK
BY DEF GatewayInit, ConversationInit, RequestsOK, Steps, Calls

LEMMA RequestsStep ==
  ASSUME RequestsOK, [GatewayNext]_allvars
  PROVE  RequestsOK'
<1> USE DEF RequestsOK, Steps, Calls
<1>1. ASSUME NEW r \in Requests, Serve(r)
      PROVE  RequestsOK'
  <2>1. CASE Send(r) \/ Retried(r) \/ ClientError(r) \/ Answered(r)
    BY <2>1 DEF Send, Retried, ClientError, Answered, convars
  <2>2. CASE NotPermitted(r) \/ Succeeds(r) \/ GivenUp(r) \/ ServerError(r)
    BY <2>2 DEF NotPermitted, Succeeds, GivenUp, ServerError, Respond, Append_
  <2>3. CASE Command(r)
    <3>1. Persisting(r) /\ UNCHANGED call
      BY <2>3 DEF Command, Acknowledged, ReplyLost, CommandLost, gwvars
    <3>2. step' = [step EXCEPT ![r] = Following[@]] \/ step' = [step EXCEPT ![r] = "over"]
      BY <2>3 DEF Command, Acknowledged, ReplyLost, CommandLost
    <3> QED
      BY <3>1, <3>2 DEF Persisting, Following
  <2> QED
    BY <1>1, <2>1, <2>2, <2>3 DEF Serve
<1>2. ASSUME NEW r \in Requests, HangUp(r)
      PROVE  RequestsOK'
  BY <1>2 DEF HangUp, ReplyLost, CommandLost, convars
<1>3. CASE Removal
  BY <1>3 DEF Removal, KeyExpires, Clear, Gone, gwvars
<1>4. CASE UNCHANGED <<call, convars>>
  BY <1>4 DEF convars
<1> QED
  BY <1>1, <1>2, <1>3, <1>4 DEF GatewayNext, allvars, gwvars

\* A request's call and its append keep their types and their order.
THEOREM RequestsTypeCorrect == GatewaySpec => []RequestsOK
BY RequestsStart, RequestsStep, PTL DEF GatewaySpec

-----------------------------------------------------------------------------
\* ExpiresUnlessCutOff is inductive once an append is known to begin only
\* afterwards: a push leaves its own request before its trim, and only the
\* request that pushed can lose the commands that follow.
LEMMA ExpiryStep ==
  ASSUME RequestsOK, ExpiresUnlessCutOff, ConversationStep
  PROVE  ExpiresUnlessCutOff'
<1> USE DEF ExpiresUnlessCutOff, RequestsOK, Steps
<1>1. CASE UNCHANGED convars
  BY <1>1 DEF convars
<1>2. ASSUME NEW r \in Requests, NEW hasId \in BOOLEAN,
             call[r] \in {"idle", "trying"}, Append_(r, hasId),
             UNCHANGED <<list, ttl, cutOff, sinceTrim>>
      PROVE  ExpiresUnlessCutOff'
  BY <1>2 DEF Append_
<1>3. ASSUME NEW r \in Requests, Acknowledged(r)
      PROVE  ExpiresUnlessCutOff'
  <2>1. CASE step[r] = "push" \/ step[r] = "trim"
    <3>1. step'[r] \in {"trim", "expire"}
      BY <1>3, <2>1 DEF Acknowledged, Following
    <3> QED
      BY <3>1
  <2>2. CASE step[r] = "expire"
    BY <1>3, <2>2 DEF Acknowledged, Executed, Refreshed
  <2> QED
    BY <1>3, <2>1, <2>2 DEF Acknowledged, Persisting, Following
<1>4. ASSUME NEW r \in Requests, ReplyLost(r)
      PROVE  ExpiresUnlessCutOff'
  <2>1. CASE step[r] = "expire"
    BY <1>4, <2>1 DEF ReplyLost, Executed, Refreshed
  <2>2. CASE step[r] # "expire"
    BY <1>4, <2>2 DEF ReplyLost
  <2> QED
    BY <2>1, <2>2
<1>5. ASSUME NEW r \in Requests, CommandLost(r)
      PROVE  ExpiresUnlessCutOff'
  BY <1>5 DEF CommandLost, Persisting, Following
<1>6. CASE Gone
  BY <1>6 DEF Gone
<1> QED
  BY <1>1, <1>2, <1>3, <1>4, <1>5, <1>6 DEF ConversationStep

\* A stored conversation expires unless an append to it was cut off, whatever
\* appends interleave and wherever they break off.
THEOREM ConversationsExpire == GatewaySpec => []ExpiresUnlessCutOff
<1>1. GatewayInit => ExpiresUnlessCutOff
  BY DEF GatewayInit, ConversationInit, ExpiresUnlessCutOff
<1>2. RequestsOK /\ ExpiresUnlessCutOff /\ [GatewayNext]_allvars => ExpiresUnlessCutOff'
  BY StepsOfConversation, ExpiryStep
<1> QED
  BY <1>1, <1>2, RequestsTypeCorrect, PTL DEF GatewaySpec

-----------------------------------------------------------------------------
(* The breaker, with n calls in flight.                                    *)

BreakerOK(b) ==
  b \in [state : {"closed", "open", "half_open"}, outcomes : Seq(BOOLEAN), permits : Nat]

\* In half-open every probe is a permit left, a call in flight or an outcome, and
\* outcomes are still missing.  Late calls of other eras only add to the count.
Covered(b, n) ==
  b.state = "half_open" =>
    /\ Len(b.outcomes) < Permitted
    /\ b.permits + Len(b.outcomes) + n >= Permitted

LEMMA AcquiredCovered ==
  ASSUME NEW b, BreakerOK(b), NEW n \in Nat, Covered(b, n), Admits(b)
  PROVE  BreakerOK(Acquired(b)) /\ Covered(Acquired(b), n + 1)
BY WindowAssumption DEF BreakerOK, Covered, Admits, Acquired

LEMMA ReleasedCovered ==
  ASSUME NEW b, BreakerOK(b), NEW n \in Nat \ {0}, Covered(b, n)
  PROVE  BreakerOK(Released(b)) /\ Covered(Released(b), n - 1)
BY WindowAssumption DEF BreakerOK, Covered, Released

LEMMA NewOutcomes ==
  ASSUME NEW b, BreakerOK(b), NEW w \in Seq(BOOLEAN)
  PROVE  /\ BreakerOK([b EXCEPT !.outcomes = w])
         /\ [b EXCEPT !.outcomes = w].state = b.state
         /\ [b EXCEPT !.outcomes = w].outcomes = w
         /\ [b EXCEPT !.outcomes = w].permits = b.permits
BY DEF BreakerOK

LEMMA ClosedAndOpened ==
  /\ BreakerOK(Closed) /\ Closed.state = "closed"
  /\ BreakerOK(Opened) /\ Opened.state = "open"
<1>1. <<>> \in Seq(BOOLEAN) /\ 0 \in Nat
  OBVIOUS
<1> QED
  BY <1>1 DEF BreakerOK, Closed, Opened

LEMMA RecordedCovered ==
  ASSUME NEW b, BreakerOK(b), NEW n \in Nat \ {0}, Covered(b, n), NEW failure \in BOOLEAN
  PROVE  BreakerOK(Recorded(b, failure)) /\ Covered(Recorded(b, failure), n - 1)
<1>1. PICK window \in Seq(BOOLEAN) :
        window = Append(b.outcomes, failure) /\ Len(window) = Len(b.outcomes) + 1
  <2>1. b.outcomes \in Seq(BOOLEAN)
    BY DEF BreakerOK
  <2> QED
    BY <2>1, AppendProperties
<1>2. CASE b.state = "closed"
  <2>1. Newer(window) \in Seq(BOOLEAN)
    <3> DEFINE over == Len(window) - WindowSize + 1
               from == Max({1, over})
    <3>0. over \in Int
      BY WindowAssumption
    <3> HIDE DEF over
    <3>1. from \in Int /\ from >= 1
      <4>1. \E m \in {1, over} : \A z \in {1, over} : m >= z
        BY <3>0
      <4> QED
        BY <3>0, <4>1 DEF Max
    <3>2. \A i \in from .. Len(window) : window[i] \in BOOLEAN
      BY <3>1
    <3> HIDE DEF from
    <3>3. SubSeq(window, from, Len(window)) \in Seq(BOOLEAN)
      BY <3>1, <3>2, SubSeqProperties
    <3> QED
      BY <3>3 DEF Newer, from, over
  <2>2. BreakerOK([b EXCEPT !.outcomes = Newer(window)])
    BY <2>1, NewOutcomes
  <2>3. [b EXCEPT !.outcomes = Newer(window)].state = "closed"
    BY <1>2, <2>1, NewOutcomes
  <2>4. Recorded(b, failure) \in {Opened, [b EXCEPT !.outcomes = Newer(window)]}
    BY <1>1, <1>2 DEF Recorded, RecordedClosed
  <2> QED
    BY <2>2, <2>3, <2>4, ClosedAndOpened DEF Covered
<1>3. CASE b.state = "half_open"
  <2>1. CASE Len(window) < Permitted
    <3>1. Recorded(b, failure) = [b EXCEPT !.outcomes = window]
      BY <1>1, <1>3, <2>1, WindowAssumption DEF Recorded, RecordedHalfOpen
    <3>2. Len(b.outcomes) \in Nat /\ b.permits \in Nat
      BY DEF BreakerOK
    <3>3. /\ Recorded(b, failure).outcomes = window
          /\ Recorded(b, failure).permits = b.permits
      BY <3>1, NewOutcomes
    <3>4. b.permits + Len(b.outcomes) + n >= Permitted
      BY <1>3 DEF Covered
    <3>5. b.permits + Len(window) + (n - 1) >= Permitted
      BY <1>1, <3>2, <3>4, WindowAssumption
    <3> QED
      BY <2>1, <3>1, <3>3, <3>5, NewOutcomes DEF Covered
  <2>2. CASE ~(Len(window) < Permitted)
    <3>1. Recorded(b, failure) \in {Closed, Opened}
      BY <1>1, <1>3, <2>2, WindowAssumption DEF Recorded, RecordedHalfOpen
    <3> QED
      BY <3>1, ClosedAndOpened DEF Covered
  <2> QED
    BY <2>1, <2>2
<1>4. CASE b.state = "open"
  BY <1>4 DEF Recorded, Covered
<1> QED
  BY <1>2, <1>3, <1>4 DEF BreakerOK

LEMMA CancelledCovered ==
  ASSUME NEW b, BreakerOK(b), NEW n \in Nat \ {0}, Covered(b, n), NEW seen
  PROVE  BreakerOK(Cancelled(b, seen)) /\ Covered(Cancelled(b, seen), n - 1)
BY RecordedCovered, ReleasedCovered DEF Cancelled

-----------------------------------------------------------------------------
(* The calls in flight: attempts of chats, and subscriptions of streams.   *)

Flows == {"idle", "flowing", "ended", "cancelled"}
Trying == {r \in Requests : call[r] = "trying"}
Flowing == {flow \in Streams \X Subscribers : upstream[flow[1]][flow[2]] = "flowing"}

StreamsOK ==
  /\ upstream \in [Streams -> [Subscribers -> Flows]]
  /\ response \in [Streams -> {"none", "open", "done", "hung_up"}]
  /\ \A st \in Streams : response[st] = "none" =>
       \A s \in Subscribers : upstream[st][s] # "flowing"

\* Every probe of a half-open breaker is accounted for.
ProbesAccounted ==
  /\ BreakerOK(breaker)
  /\ IsFiniteSet(Trying) /\ IsFiniteSet(Flowing)
  /\ Covered(breaker, Cardinality(Trying) + Cardinality(Flowing))

IInv == RequestsOK /\ StreamsOK /\ ProbesAccounted

LEMMA GatewayStarts == GatewayInit => IInv
<1> SUFFICES ASSUME GatewayInit PROVE IInv
  OBVIOUS
<1>1. RequestsOK
  BY RequestsStart
<1>2. StreamsOK
  BY DEF GatewayInit, StreamInit, StreamsOK, Flows
<1>3. Trying = {} /\ Flowing = {}
  BY DEF GatewayInit, StreamInit, Trying, Flowing
<1>4. breaker = Closed
  BY DEF GatewayInit
<1> QED
  BY <1>1, <1>2, <1>3, <1>4, FS_EmptySet, ClosedAndOpened DEF IInv, ProbesAccounted, Covered

LEMMA StreamsStep ==
  ASSUME StreamsOK, [GatewayNext]_allvars
  PROVE  StreamsOK'
<1> USE DEF StreamsOK, Flows, Subscribers
<1>1. ASSUME NEW st \in Streams, Open(st)
      PROVE  StreamsOK'
  <2>1. CASE Admits(breaker)
    BY <1>1, <2>1 DEF Open
  <2>2. CASE ~Admits(breaker)
    BY <1>1, <2>2 DEF Open
  <2> QED
    BY <2>1, <2>2
<1>2. ASSUME NEW st \in Streams, Relay(st)
      PROVE  StreamsOK'
  <2>1. ASSUME NEW s \in Subscribers, Token(st, s)
        PROVE  StreamsOK'
    BY <2>1 DEF Token
  <2>2. ASSUME NEW failure \in BOOLEAN, ShownEnds(st, failure)
        PROVE  StreamsOK'
    BY <2>2 DEF ShownEnds
  <2>3. ASSUME NEW failure \in BOOLEAN, AwaitedEnds(st, failure)
        PROVE  StreamsOK'
    BY <2>3 DEF AwaitedEnds, Cut
  <2> QED
    BY <1>2, <2>1, <2>2, <2>3 DEF Relay
<1>3. ASSUME NEW st \in Streams, Disconnect(st)
      PROVE  StreamsOK'
  BY <1>3 DEF Disconnect, Cut
<1>4. CASE UNCHANGED streamvars
  BY <1>4 DEF streamvars
<1> QED
  BY <1>1, <1>2, <1>3, <1>4 DEF GatewayNext, Serve, StreamNext, allvars

-----------------------------------------------------------------------------
(* A chat takes a permission, gives it back or reports one outcome.        *)

LEMMA ChatKeepsProbes ==
  ASSUME IInv, NEW r \in Requests,
         Serve(r) \/ (HangUp(r) /\ UNCHANGED streamvars)
  PROVE  ProbesAccounted'
<1> DEFINE n == Cardinality(Trying) + Cardinality(Flowing)
<1>1. Flowing' = Flowing
  BY DEF Serve, streamvars, Flowing
<1>2. /\ BreakerOK(breaker) /\ Covered(breaker, n)
      /\ IsFiniteSet(Trying) /\ IsFiniteSet(Flowing)
      /\ Cardinality(Trying) \in Nat /\ Cardinality(Flowing) \in Nat
  BY FS_CardinalityType DEF IInv, ProbesAccounted
<1>3. call \in [Requests -> Calls]
  BY DEF IInv, RequestsOK
<1>4. CASE Send(r)
  <2>1. r \notin Trying /\ Trying' = Trying \union {r}
    BY <1>3, <1>4 DEF Send, Trying
  <2>2. IsFiniteSet(Trying') /\ Cardinality(Trying') = Cardinality(Trying) + 1
    BY <1>2, <2>1, FS_AddElement
  <2>3. BreakerOK(breaker') /\ Covered(breaker', n + 1)
    BY <1>2, <1>4, AcquiredCovered DEF Send
  <2>4. Cardinality(Trying') + Cardinality(Flowing') = n + 1
    BY <1>1, <1>2, <2>2
  <2> QED
    BY <1>1, <1>2, <2>2, <2>3, <2>4 DEF ProbesAccounted
<1>5. ASSUME Trying' = Trying, UNCHANGED breaker
      PROVE  ProbesAccounted'
  BY <1>1, <1>2, <1>5 DEF ProbesAccounted
<1>6. ASSUME r \in Trying, Trying' = Trying \ {r},
             breaker' = Released(breaker) \/ \E failure \in BOOLEAN : breaker' = Recorded(breaker, failure)
      PROVE  ProbesAccounted'
  <2>1. IsFiniteSet(Trying') /\ Cardinality(Trying') = Cardinality(Trying) - 1
    BY <1>2, <1>6, FS_RemoveElement
  <2>2. Cardinality(Trying) # 0
    BY <1>2, <1>6, FS_EmptySet
  <2>3. n \in Nat \ {0}
    BY <1>2, <2>2
  <2>4. BreakerOK(breaker') /\ Covered(breaker', n - 1)
    BY <1>2, <1>6, <2>3, RecordedCovered, ReleasedCovered
  <2>5. Cardinality(Trying') + Cardinality(Flowing') = n - 1
    BY <1>1, <1>2, <2>1
  <2> QED
    BY <1>1, <1>2, <2>1, <2>4, <2>5 DEF ProbesAccounted
<1>7. CASE NotPermitted(r) \/ Retried(r) \/ Command(r) \/ Answered(r)
  <2>1. Trying' = Trying /\ UNCHANGED breaker
    BY <1>3, <1>7 DEF NotPermitted, Respond, Retried, Command, gwvars, Answered, Trying
  <2> QED
    BY <1>5, <2>1
<1>8. CASE Succeeds(r) \/ GivenUp(r) \/ ClientError(r) \/ ServerError(r)
  <2>1. r \in Trying /\ Trying' = Trying \ {r}
    BY <1>3, <1>8 DEF Succeeds, GivenUp, ClientError, ServerError, Respond, Trying
  <2>2. \E failure \in BOOLEAN : breaker' = Recorded(breaker, failure)
    BY <1>8 DEF Succeeds, GivenUp, ClientError, ServerError
  <2> QED
    BY <1>6, <2>1, <2>2
<1>9. CASE HangUp(r)
  <2>1. CASE call[r] = "trying"
    <3>1. r \in Trying /\ Trying' = Trying \ {r} /\ breaker' = Released(breaker)
      BY <1>3, <1>9, <2>1 DEF HangUp, Trying
    <3> QED
      BY <1>6, <3>1
  <2>2. CASE call[r] # "trying"
    <3>1. Trying' = Trying /\ UNCHANGED breaker
      BY <1>3, <1>9, <2>2 DEF HangUp, Trying
    <3> QED
      BY <1>5, <3>1
  <2> QED
    BY <2>1, <2>2
<1> QED
  BY <1>4, <1>7, <1>8, <1>9 DEF Serve

-----------------------------------------------------------------------------
(* A stream takes one permission or two; each subscription that ends, for  *)
(* itself or with the other, gives its own back or reports an outcome.     *)

\* The subscriptions of one stream in flight, and those of the others.
OthersFlowing(st) == {flow \in Flowing : flow[1] # st}
Own(st, flow) == {<<st, s>> : s \in {s \in Subscribers : flow[s] = "flowing"}}

LEMMA FlowingSplits ==
  ASSUME NEW st \in Streams
  PROVE  Flowing = OthersFlowing(st) \union Own(st, upstream[st])
BY DEF Flowing, OthersFlowing, Own

LEMMA FlowingSplitsNext ==
  ASSUME StreamsOK, NEW st \in Streams, NEW new,
         upstream' = [upstream EXCEPT ![st] = new]
  PROVE  Flowing' = OthersFlowing(st) \union Own(st, new)
<1>1. upstream'[st] = new
  BY DEF StreamsOK
<1>2. \A t \in Streams : t # st => upstream'[t] = upstream[t]
  BY DEF StreamsOK
<1> QED
  BY <1>1, <1>2 DEF Flowing, OthersFlowing, Own

\* How many a stream has in flight.
Flows1(b) == IF b THEN 1 ELSE 0
Size(shown, awaited) ==
  Flows1(shown = "flowing") + Flows1(awaited = "flowing")

LEMMA FlowingCounted ==
  ASSUME NEW others, IsFiniteSet(others), NEW st,
         \A s \in Subscribers : <<st, s>> \notin others,
         NEW flow
  PROVE  /\ IsFiniteSet(others \union Own(st, flow))
         /\ Cardinality(others \union Own(st, flow)) =
              Cardinality(others) + Size(flow["shown"], flow["awaited"])
<1> DEFINE all == others \union Own(st, flow)
           one == others \union {<<st, "shown">>}
<1>1. /\ <<st, "shown">> \notin others /\ <<st, "awaited">> \notin others
      /\ <<st, "awaited">> \notin one
  BY DEF Subscribers
<1>2. Cardinality(others) \in Nat
  BY FS_CardinalityType
<1>3. IsFiniteSet(one) /\ Cardinality(one) = Cardinality(others) + 1
  BY <1>1, FS_AddElement
<1>4. CASE flow["shown"] = "flowing" /\ flow["awaited"] = "flowing"
  <2>1. all = one \union {<<st, "awaited">>}
    BY <1>4 DEF Own, Subscribers
  <2> HIDE DEF one
  <2>2. IsFiniteSet(all) /\ Cardinality(all) = Cardinality(one) + 1
    BY <1>1, <1>3, <2>1, FS_AddElement
  <2> QED
    BY <1>2, <1>3, <1>4, <2>2 DEF Size, Flows1
<1>5. CASE flow["shown"] = "flowing" /\ flow["awaited"] # "flowing"
  <2>1. all = one
    BY <1>5 DEF Own, Subscribers
  <2> QED
    BY <1>2, <1>3, <1>5, <2>1 DEF Size, Flows1
<1>6. CASE flow["shown"] # "flowing" /\ flow["awaited"] = "flowing"
  <2>1. all = others \union {<<st, "awaited">>}
    BY <1>6 DEF Own, Subscribers
  <2>2. IsFiniteSet(all) /\ Cardinality(all) = Cardinality(others) + 1
    BY <1>1, <2>1, FS_AddElement
  <2> QED
    BY <1>2, <1>6, <2>2 DEF Size, Flows1
<1>7. CASE flow["shown"] # "flowing" /\ flow["awaited"] # "flowing"
  <2>1. all = others
    BY <1>7 DEF Own, Subscribers
  <2>2. Size(flow["shown"], flow["awaited"]) = 0
    BY <1>7 DEF Size, Flows1
  <2> HIDE DEF all
  <2>3. IsFiniteSet(all) /\ Cardinality(all) = Cardinality(others) + 0
    BY <1>2, <2>1
  <2> QED
    BY <2>2, <2>3 DEF all
<1> QED
  BY <1>4, <1>5, <1>6, <1>7

\* The calls in flight that are not of this stream.
Besides(st) == Cardinality(Trying) + Cardinality(OthersFlowing(st))

LEMMA StreamCounted ==
  ASSUME IInv, NEW st \in Streams, UNCHANGED call,
         NEW new, upstream' = [upstream EXCEPT ![st] = new]
  PROVE  /\ Besides(st) \in Nat
         /\ BreakerOK(breaker)
         /\ Covered(breaker, Besides(st) + Size(upstream[st]["shown"], upstream[st]["awaited"]))
         /\ BreakerOK(breaker') /\ Covered(breaker', Besides(st) + Size(new["shown"], new["awaited"]))
              => ProbesAccounted'
<1> DEFINE others == OthersFlowing(st)
<1>1. Trying' = Trying
  BY DEF Trying
<1>2. IsFiniteSet(Trying) /\ IsFiniteSet(Flowing) /\ others \in SUBSET Flowing
  BY DEF IInv, ProbesAccounted, OthersFlowing
<1>3. IsFiniteSet(others)
  BY <1>2, FS_Subset
<1>4. Cardinality(Trying) \in Nat /\ Cardinality(others) \in Nat
  BY <1>2, <1>3, FS_CardinalityType
<1>5. \A s \in Subscribers : <<st, s>> \notin others
  BY DEF OthersFlowing
<1> HIDE DEF others
<1>6. Cardinality(Flowing) =
        Cardinality(others) + Size(upstream[st]["shown"], upstream[st]["awaited"])
  <2>1. Flowing = others \union Own(st, upstream[st])
    BY FlowingSplits DEF others
  <2> QED
    BY <1>3, <1>5, <2>1, FlowingCounted
<1>7. /\ IsFiniteSet(Flowing')
      /\ Cardinality(Flowing') = Cardinality(others) + Size(new["shown"], new["awaited"])
  <2>1. Flowing' = others \union Own(st, new)
    BY FlowingSplitsNext DEF IInv, others
  <2> QED
    BY <1>3, <1>5, <2>1, FlowingCounted
<1>8. /\ Size(upstream[st]["shown"], upstream[st]["awaited"]) \in Nat
      /\ Size(new["shown"], new["awaited"]) \in Nat
  BY DEF Size, Flows1
<1> QED
  <2>1. Besides(st) = Cardinality(Trying) + Cardinality(others)
    BY DEF Besides, others
  <2> QED
    BY <1>1, <1>2, <1>4, <1>6, <1>7, <1>8, <2>1 DEF IInv, ProbesAccounted

LEMMA OpenKeepsProbes ==
  ASSUME IInv, NEW st \in Streams, Open(st), UNCHANGED call
  PROVE  ProbesAccounted'
<1> DEFINE once == Acquired(breaker)
           old == upstream[st]
           base == Besides(st)
<1>1. old["shown"] # "flowing" /\ old["awaited"] # "flowing" /\ old \in [Subscribers -> Flows]
  BY DEF IInv, StreamsOK, Open, Subscribers
<1>2. Size(old["shown"], old["awaited"]) = 0
  BY <1>1 DEF Size, Flows1
<1>3. CASE Admits(breaker)
  <2> DEFINE new == [awaited |-> "flowing", shown |-> IF Admits(once) THEN "flowing" ELSE "ended"]
  <2>1. upstream' = [upstream EXCEPT ![st] = new]
    BY <1>3 DEF Open
  <2>2. base \in Nat /\ BreakerOK(breaker) /\ Covered(breaker, base + 0)
    BY <1>2, <2>1, StreamCounted
  <2>3. BreakerOK(once) /\ Covered(once, base + 1)
    BY <1>3, <2>2, AcquiredCovered
  <2>4. CASE Admits(once)
    <3>1. BreakerOK(breaker') /\ Covered(breaker', base + 2)
      <4>1. BreakerOK(Acquired(once)) /\ Covered(Acquired(once), (base + 1) + 1)
        BY <2>2, <2>3, <2>4, AcquiredCovered
      <4>2. breaker' = Acquired(once) /\ (base + 1) + 1 = base + 2
        BY <1>3, <2>2, <2>4 DEF Open
      <4> QED
        BY <4>1, <4>2
    <3>2. Size(new["shown"], new["awaited"]) = 2
      BY <2>4 DEF Size, Flows1
    <3> QED
      BY <2>1, <3>1, <3>2, StreamCounted
  <2>5. CASE ~Admits(once)
    <3>1. breaker' = once
      BY <1>3, <2>5 DEF Open
    <3>2. Size(new["shown"], new["awaited"]) = 1
      BY <2>5 DEF Size, Flows1
    <3> QED
      BY <2>1, <2>3, <3>1, <3>2, StreamCounted
  <2> QED
    BY <2>4, <2>5
<1>4. CASE ~Admits(breaker)
  <2> DEFINE new == [old EXCEPT !["awaited"] = "ended"]
  <2>1. upstream' = [upstream EXCEPT ![st] = new] /\ UNCHANGED breaker
    BY <1>4 DEF Open
  <2>2. Size(new["shown"], new["awaited"]) = 0
    BY <1>1 DEF Size, Flows1, Subscribers
  <2> QED
    BY <1>2, <2>1, <2>2, StreamCounted
<1> QED
  BY <1>3, <1>4

LEMMA ShownEndsKeepsProbes ==
  ASSUME IInv, NEW st \in Streams, NEW failure \in BOOLEAN, ShownEnds(st, failure), UNCHANGED call
  PROVE  ProbesAccounted'
<1> DEFINE old == upstream[st]
           new == [old EXCEPT !["shown"] = "ended"]
           rest == Besides(st) + Size("ended", old["awaited"])
<1>1. old["shown"] = "flowing" /\ old \in [Subscribers -> Flows]
  BY DEF IInv, StreamsOK, ShownEnds
<1>2. upstream' = [upstream EXCEPT ![st] = new]
  BY DEF ShownEnds
<1>3. new["shown"] = "ended" /\ new["awaited"] = old["awaited"]
  BY <1>1 DEF Subscribers
<1>4. Besides(st) \in Nat
  BY <1>2, StreamCounted
<1>5. rest \in Nat /\ Besides(st) + Size(old["shown"], old["awaited"]) = rest + 1
  BY <1>1, <1>4 DEF Size, Flows1
<1>6. BreakerOK(breaker) /\ Covered(breaker, rest + 1)
  BY <1>2, <1>5, StreamCounted
<1>7. BreakerOK(Recorded(breaker, failure)) /\ Covered(Recorded(breaker, failure), rest)
  <2> HIDE DEF rest
  <2>1. rest + 1 \in Nat \ {0} /\ (rest + 1) - 1 = rest
    BY <1>5
  <2> QED
    BY <1>6, <2>1, RecordedCovered
<1>8. breaker' = Recorded(breaker, failure)
  BY DEF ShownEnds
<1> QED
  BY <1>2, <1>3, <1>7, <1>8, StreamCounted

LEMMA AwaitedEndsKeepsProbes ==
  ASSUME IInv, NEW st \in Streams, NEW failure \in BOOLEAN, AwaitedEnds(st, failure), UNCHANGED call
  PROVE  ProbesAccounted'
<1> DEFINE old == upstream[st]
           new == [awaited |-> "ended", shown |-> Cut(old.shown)]
           base == Besides(st)
           once == Recorded(breaker, failure)
<1>1. old["awaited"] = "flowing" /\ old \in [Subscribers -> Flows]
  BY DEF IInv, StreamsOK, AwaitedEnds
<1>2. upstream' = [upstream EXCEPT ![st] = new]
  BY DEF AwaitedEnds
<1>3. Size(new["shown"], new["awaited"]) = 0
  BY DEF Cut, Size, Flows1
<1>4. base \in Nat /\ BreakerOK(breaker)
      /\ Covered(breaker, base + Size(old["shown"], old["awaited"]))
  BY <1>2, StreamCounted
<1>5. CASE old["shown"] = "flowing"
  <2>1. Size(old["shown"], old["awaited"]) = 2
    BY <1>1, <1>5 DEF Size, Flows1
  <2>2. BreakerOK(once) /\ Covered(once, base + 1)
    <3>1. base + 2 \in Nat \ {0} /\ (base + 2) - 1 = base + 1
      BY <1>4
    <3> QED
      BY <1>4, <2>1, <3>1, RecordedCovered
  <2>3. BreakerOK(breaker') /\ Covered(breaker', base + 0)
    <3>1. base + 1 \in Nat \ {0} /\ (base + 1) - 1 = base + 0
      BY <1>4
    <3>2. breaker' = Cancelled(once, "shown" \in heard[st])
      BY <1>5 DEF AwaitedEnds
    <3> QED
      BY <2>2, <3>1, <3>2, CancelledCovered
  <2> QED
    BY <1>2, <1>3, <2>3, StreamCounted
<1>6. CASE old["shown"] # "flowing"
  <2>1. Size(old["shown"], old["awaited"]) = 1
    BY <1>1, <1>6 DEF Size, Flows1
  <2>2. BreakerOK(breaker') /\ Covered(breaker', base + 0)
    <3>1. base + 1 \in Nat \ {0} /\ (base + 1) - 1 = base + 0
      BY <1>4
    <3>2. breaker' = once
      BY <1>6 DEF AwaitedEnds
    <3> QED
      BY <1>4, <2>1, <3>1, <3>2, RecordedCovered
  <2> QED
    BY <1>2, <1>3, <2>2, StreamCounted
<1> QED
  BY <1>5, <1>6

LEMMA DisconnectKeepsProbes ==
  ASSUME IInv, NEW st \in Streams, Disconnect(st), UNCHANGED call
  PROVE  ProbesAccounted'
<1> DEFINE old == upstream[st]
           new == [s \in Subscribers |-> Cut(old[s])]
           base == Besides(st)
           Leave(b, s) == IF old[s] = "flowing" THEN Cancelled(b, s \in heard[st]) ELSE b
           once == Leave(breaker, "shown")
<1>1. upstream' = [upstream EXCEPT ![st] = new]
  BY DEF Disconnect
<1>2. Size(new["shown"], new["awaited"]) = 0
  BY DEF Cut, Size, Flows1, Subscribers
<1>3. base \in Nat /\ BreakerOK(breaker)
      /\ Covered(breaker, base + Size(old["shown"], old["awaited"]))
  BY <1>1, StreamCounted
<1>4. breaker' = Leave(once, "awaited")
  BY DEF Disconnect
<1>5. BreakerOK(once) /\ Covered(once, base + Size("ended", old["awaited"]))
  <2> DEFINE rest == base + Size("ended", old["awaited"])
  <2>1. rest \in Nat
    BY <1>3 DEF Size, Flows1
  <2>2. CASE old["shown"] = "flowing"
    <3>1. base + Size(old["shown"], old["awaited"]) = rest + 1
      BY <1>3, <2>2 DEF Size, Flows1
    <3>2. once = Cancelled(breaker, "shown" \in heard[st])
      BY <2>2
    <3> HIDE DEF rest, once
    <3>3. rest + 1 \in Nat \ {0} /\ (rest + 1) - 1 = rest
      BY <2>1
    <3>4. BreakerOK(once) /\ Covered(once, rest)
      BY <1>3, <3>1, <3>2, <3>3, CancelledCovered
    <3> QED
      BY <3>4 DEF rest
  <2>3. CASE old["shown"] # "flowing"
    <3>1. Size(old["shown"], old["awaited"]) = Size("ended", old["awaited"])
      BY <2>3 DEF Size, Flows1
    <3> QED
      BY <1>3, <2>3, <3>1
  <2> QED
    BY <2>2, <2>3
<1>6. BreakerOK(breaker') /\ Covered(breaker', base + 0)
  <2> HIDE DEF once
  <2>1. CASE old["awaited"] = "flowing"
    <3>1. Size("ended", old["awaited"]) = 1
      BY <2>1 DEF Size, Flows1
    <3>2. base + 1 \in Nat \ {0} /\ (base + 1) - 1 = base + 0
      BY <1>3
    <3>3. breaker' = Cancelled(once, "awaited" \in heard[st])
      BY <1>4, <2>1
    <3> QED
      BY <1>5, <3>1, <3>2, <3>3, CancelledCovered
  <2>2. CASE old["awaited"] # "flowing"
    <3>1. Size("ended", old["awaited"]) = 0 /\ breaker' = once
      BY <1>4, <2>2 DEF Size, Flows1
    <3> QED
      BY <1>5, <3>1
  <2> QED
    BY <2>1, <2>2
<1> QED
  BY <1>1, <1>2, <1>6, StreamCounted

-----------------------------------------------------------------------------
LEMMA ProbesStep ==
  ASSUME IInv, [GatewayNext]_allvars
  PROVE  ProbesAccounted'
<1>1. ASSUME NEW r \in Requests, Serve(r) \/ (HangUp(r) /\ UNCHANGED streamvars)
      PROVE  ProbesAccounted'
  BY <1>1, ChatKeepsProbes
<1>2. CASE StreamNext /\ UNCHANGED <<call, attempts, convars>>
  <2>1. ASSUME NEW st \in Streams, NEW s \in Subscribers, Token(st, s)
        PROVE  ProbesAccounted'
    BY <1>2, <2>1 DEF Token, IInv, ProbesAccounted, Trying, Flowing
  <2> QED
    BY <1>2, <2>1, OpenKeepsProbes, ShownEndsKeepsProbes, AwaitedEndsKeepsProbes,
       DisconnectKeepsProbes DEF StreamNext, Relay
<1>3. CASE WaitOver /\ UNCHANGED <<call, attempts, convars, streamvars>>
  <2>1. Trying' = Trying /\ Flowing' = Flowing
    BY <1>3 DEF streamvars, Trying, Flowing
  <2>2. Cardinality(Trying) \in Nat /\ Cardinality(Flowing) \in Nat
    BY FS_CardinalityType DEF IInv, ProbesAccounted
  <2>3. <<>> \in Seq(BOOLEAN) /\ Len(<<>>) = 0
    OBVIOUS
  <2>4. Permitted \in Nat /\ Permitted > 0
    BY WindowAssumption
  <2>5. BreakerOK(breaker') /\ breaker'.outcomes = <<>> /\ breaker'.permits = Permitted
    BY <1>3, <2>3, <2>4 DEF WaitOver, HalfOpened, BreakerOK
  <2> QED
    BY <2>1, <2>2, <2>3, <2>4, <2>5 DEF IInv, ProbesAccounted, Covered
<1>4. CASE (Removal /\ UNCHANGED streamvars) \/ UNCHANGED allvars
  BY <1>4 DEF Removal, gwvars, allvars, streamvars, IInv, ProbesAccounted, Trying, Flowing
<1> QED
  BY <1>1, <1>2, <1>3, <1>4 DEF GatewayNext

\* The invariant the breaker's recovery rests on: types, and every probe accounted for.
THEOREM GatewayInvariant == GatewaySpec => []IInv
<1>1. IInv /\ [GatewayNext]_allvars => IInv'
  BY RequestsStep, StreamsStep, ProbesStep DEF IInv
<1> QED
  BY <1>1, GatewayStarts, PTL DEF GatewaySpec

\* Half-open never waits for probes that do not come: with no call in flight a
\* permit is left, for any number of chats and streams and any configuration.
THEOREM HalfOpenRecovers == GatewaySpec => []HalfOpenNotStuck
<1>1. IInv => HalfOpenNotStuck
  <2> SUFFICES ASSUME IInv, breaker.state = "half_open", InFlight = {}
               PROVE  breaker.permits > 0
    BY DEF HalfOpenNotStuck
  <2>1. Trying = {} /\ Flowing = {}
    BY DEF InFlight, Trying, Flowing
  <2>2. Cardinality(Trying) + Cardinality(Flowing) = 0
    BY <2>1, FS_EmptySet
  <2>3. BreakerOK(breaker) /\ Covered(breaker, 0)
    BY <2>2 DEF IInv, ProbesAccounted
  <2> QED
    BY <2>3, WindowAssumption DEF BreakerOK, Covered
<1> QED
  BY <1>1, GatewayInvariant, PTL

-----------------------------------------------------------------------------
(* The stored history, as k turns of two entries each.                     *)

Entries == [of : Requests, role : {"message", "assistant"}]
Turns(entries, k) ==
  /\ entries \in Seq(Entries) /\ Len(entries) = 2 * k
  /\ \A i \in 1 .. k : \E r \in Requests :
       entries[2 * i - 1] = Turn(r)[1] /\ entries[2 * i] = Turn(r)[2]
HistoryInv ==
  /\ sinceTrim \in Nat
  /\ \E k \in 0 .. MaxTurns + sinceTrim : Turns(list, k)

LEMMA TwoAdded ==
  ASSUME NEW S, NEW s \in Seq(S), NEW t \in Seq(S), Len(t) = 2
  PROVE  /\ s \o t \in Seq(S) /\ Len(s \o t) = Len(s) + 2
         /\ \A i \in 1 .. Len(s) : (s \o t)[i] = s[i]
         /\ (s \o t)[Len(s) + 1] = t[1] /\ (s \o t)[Len(s) + 2] = t[2]
<1>1. s \o t \in Seq(S)
  BY ConcatProperties
<1>2. Len(s \o t) = Len(s) + Len(t)
  BY ConcatProperties
<1>3. \A i \in 1 .. Len(s) + Len(t) :
        (s \o t)[i] = IF i <= Len(s) THEN s[i] ELSE t[i - Len(s)]
  BY ConcatProperties
<1>4. PICK n \in Nat : n = Len(s)
  OBVIOUS
<1>5. PICK both : both = s \o t
  OBVIOUS
<1>6. \A i \in 1 .. n + 2 : both[i] = IF i <= n THEN s[i] ELSE t[i - n]
  BY <1>3, <1>4, <1>5
<1>7. (n + 1) - n = 1 /\ (n + 2) - n = 2
  OBVIOUS
<1>8. both[n + 1] = t[1] /\ both[n + 2] = t[2] /\ \A i \in 1 .. n : both[i] = s[i]
  BY <1>6, <1>7
<1> QED
  BY <1>1, <1>2, <1>4, <1>5, <1>8

LEMMA PushAddsTurn ==
  ASSUME NEW entries, NEW k \in Nat, Turns(entries, k), NEW r \in Requests
  PROVE  Turns(entries \o Turn(r), k + 1)
<1>1. /\ Turn(r) \in Seq(Entries) /\ Len(Turn(r)) = 2
  BY DEF Turn, Entries
<1>2. /\ entries \o Turn(r) \in Seq(Entries)
      /\ Len(entries \o Turn(r)) = 2 * k + 2
      /\ \A i \in 1 .. 2 * k : (entries \o Turn(r))[i] = entries[i]
      /\ (entries \o Turn(r))[2 * k + 1] = Turn(r)[1]
      /\ (entries \o Turn(r))[2 * k + 2] = Turn(r)[2]
  <2>1. entries \in Seq(Entries) /\ Len(entries) = 2 * k /\ 2 * k \in Nat
    BY DEF Turns
  <2>2. PICK t : t = Turn(r)
    OBVIOUS
  <2>3. t \in Seq(Entries) /\ Len(t) = 2
    BY <1>1, <2>2
  <2>4. /\ entries \o t \in Seq(Entries) /\ Len(entries \o t) = Len(entries) + 2
        /\ \A i \in 1 .. Len(entries) : (entries \o t)[i] = entries[i]
        /\ (entries \o t)[Len(entries) + 1] = t[1] /\ (entries \o t)[Len(entries) + 2] = t[2]
    BY <2>1, <2>3, TwoAdded, Zenon
  <2> QED
    BY <2>1, <2>2, <2>4
<1>3. PICK both : both = entries \o Turn(r)
  OBVIOUS
<1>4. /\ \A i \in 1 .. 2 * k : both[i] = entries[i]
      /\ both[2 * k + 1] = Turn(r)[1] /\ both[2 * k + 2] = Turn(r)[2]
  BY <1>2, <1>3
<1>5. ASSUME NEW i \in 1 .. k + 1
      PROVE  \E q \in Requests : both[2 * i - 1] = Turn(q)[1] /\ both[2 * i] = Turn(q)[2]
  <2>1. CASE i = k + 1
    <3>1. 2 * i - 1 = 2 * k + 1 /\ 2 * i = 2 * k + 2
      BY <2>1
    <3> QED
      BY <1>4, <3>1
  <2>2. CASE i # k + 1
    <3>1. i \in 1 .. k /\ 2 * i - 1 \in 1 .. 2 * k /\ 2 * i \in 1 .. 2 * k
      BY <2>2
    <3>2. PICK q \in Requests : entries[2 * i - 1] = Turn(q)[1] /\ entries[2 * i] = Turn(q)[2]
      BY <3>1 DEF Turns
    <3> QED
      BY <1>4, <3>1, <3>2
  <2> QED
    BY <2>1, <2>2
<1>6. both \in Seq(Entries) /\ Len(both) = 2 * (k + 1)
  BY <1>2, <1>3
<1>7. Turns(both, k + 1)
  BY <1>5, <1>6 DEF Turns
<1> QED
  BY <1>3, <1>7

LEMMA TrimKeepsTurns ==
  ASSUME NEW entries, NEW k \in Nat, Turns(entries, k)
  PROVE  \E m \in 0 .. MaxTurns : Turns(Newest(entries), m)
<1>1. entries \in Seq(Entries) /\ Len(entries) = 2 * k /\ MaxTurns \in Nat \ {0}
  BY ConversationAssumption DEF Turns
<1> DEFINE over == 2 * k - 2 * MaxTurns + 1
<1>2. Newest(entries) = SubSeq(entries, Max({1, over}), 2 * k)
  BY <1>1 DEF Newest
<1>3. CASE k <= MaxTurns
  <2>1. Max({1, over}) = 1
    BY <1>1, <1>3 DEF Max
  <2>2. SubSeq(entries, 1, 2 * k) = entries
    BY <1>1
  <2>3. Newest(entries) = entries
    BY <1>2, <2>1, <2>2
  <2>4. Turns(Newest(entries), k) /\ k \in 0 .. MaxTurns
    BY <1>1, <1>3, <2>3
  <2> QED
    BY <2>4
<1>4. CASE k > MaxTurns
  <2> DEFINE kept == SubSeq(entries, over, 2 * k)
  <2>1. Newest(entries) = kept
    <3>1. over \in Int /\ over >= 1
      BY <1>1, <1>4
    <3> HIDE DEF over
    <3>2. Max({1, over}) = over
      BY <3>1 DEF Max
    <3> QED
      BY <1>2, <3>2
  <2>2. /\ kept \in Seq(Entries) /\ Len(kept) = 2 * MaxTurns
        /\ \A i \in 1 .. 2 * MaxTurns : kept[i] = entries[over + i - 1]
    <3>1. over \in Int /\ over >= 1 /\ over <= 2 * k
      BY <1>1, <1>4
    <3>2. \A i \in over .. 2 * k : entries[i] \in Entries
      BY <1>1, <3>1
    <3>3. 2 * k - over + 1 = 2 * MaxTurns
      BY <1>1
    <3> HIDE DEF over
    <3> QED
      BY <3>1, <3>2, <3>3, SubSeqProperties
  <2>3. ASSUME NEW i \in 1 .. MaxTurns
        PROVE  \E r \in Requests : kept[2 * i - 1] = Turn(r)[1] /\ kept[2 * i] = Turn(r)[2]
    <3> DEFINE j == k - MaxTurns + i
    <3>1. j \in 1 .. k
      BY <1>1, <1>4
    <3>2. 2 * i - 1 \in 1 .. 2 * MaxTurns /\ 2 * i \in 1 .. 2 * MaxTurns
      BY <1>1
    <3>3. over + (2 * i - 1) - 1 = 2 * j - 1 /\ over + 2 * i - 1 = 2 * j
      BY <1>1
    <3> HIDE DEF j, kept, over
    <3>4. kept[2 * i - 1] = entries[2 * j - 1] /\ kept[2 * i] = entries[2 * j]
      BY <2>2, <3>2, <3>3
    <3> QED
      BY <3>1, <3>4 DEF Turns
  <2>4. Turns(kept, MaxTurns)
    <3> HIDE DEF kept, over
    <3> QED
      BY <2>2, <2>3 DEF Turns
  <2> QED
    BY <1>1, <2>1, <2>4
<1> QED
  BY <1>1, <1>3, <1>4

LEMMA NoTurns == Turns(<<>>, 0)
BY DEF Turns

LEMMA HistoryStep ==
  ASSUME HistoryInv, ConversationStep
  PROVE  HistoryInv'
<1>0. MaxTurns \in Nat \ {0}
  BY ConversationAssumption
<1>1. PICK k \in 0 .. MaxTurns + sinceTrim : Turns(list, k)
  BY DEF HistoryInv
<1>2. sinceTrim \in Nat /\ k \in Nat
  BY <1>0 DEF HistoryInv
<1>3. ASSUME UNCHANGED <<list, sinceTrim>>
      PROVE  HistoryInv'
  BY <1>3 DEF HistoryInv
<1>4. ASSUME NEW r \in Requests, Persisting(r), Executed(r)
      PROVE  HistoryInv'
  <2>1. CASE step[r] = "push"
    <3>1. list' = list \o Turn(r) /\ sinceTrim' = sinceTrim + 1
      BY <1>4, <2>1 DEF Executed, Pushed
    <3>2. Turns(list', k + 1)
      BY <1>1, <1>2, <3>1, PushAddsTurn
    <3>3. k + 1 \in 0 .. MaxTurns + sinceTrim' /\ sinceTrim' \in Nat
      BY <1>0, <1>1, <1>2, <3>1
    <3> QED
      BY <3>2, <3>3 DEF HistoryInv
  <2>2. CASE step[r] = "trim"
    <3>1. list' = Newest(list) /\ sinceTrim' = 0
      BY <1>4, <2>2 DEF Executed, Trimmed
    <3>2. PICK m \in 0 .. MaxTurns : Turns(Newest(list), m)
      BY <1>1, <1>2, TrimKeepsTurns
    <3>3. m \in 0 .. MaxTurns + sinceTrim' /\ sinceTrim' \in Nat
      BY <1>0, <3>1
    <3> QED
      BY <3>1, <3>2, <3>3 DEF HistoryInv
  <2>3. CASE step[r] = "expire"
    BY <1>3, <1>4, <2>3 DEF Executed, Refreshed
  <2> QED
    BY <1>4, <2>1, <2>2, <2>3 DEF Persisting, Following
<1>5. CASE Gone
  <2>1. list' = <<>> /\ sinceTrim' = 0
    BY <1>5 DEF Gone
  <2> QED
    BY <1>0, <2>1, NoTurns DEF HistoryInv
<1> QED
  BY <1>3, <1>4, <1>5 DEF ConversationStep, Acknowledged, ReplyLost, CommandLost, convars

\* The history of a conversation is whole turns, a user's message with its own
\* answer, at most MAX_TURNS of them and those pushed since the last trim, for
\* any number of requests that append at once and fail between their commands.
THEOREM HistoryIsTurns == GatewaySpec => []HistoryWellFormed
<1>1. GatewayInit => HistoryInv
  <2>1. 0 \in 0 .. MaxTurns + 0
    BY ConversationAssumption
  <2> QED
    BY <2>1, NoTurns DEF GatewayInit, ConversationInit, HistoryInv
<1>2. HistoryInv /\ [GatewayNext]_allvars => HistoryInv'
  BY StepsOfConversation, HistoryStep
<1>3. HistoryInv => HistoryWellFormed
  <2> SUFFICES ASSUME HistoryInv PROVE HistoryWellFormed
    OBVIOUS
  <2>1. PICK k \in 0 .. MaxTurns + sinceTrim : Turns(list, k)
    BY DEF HistoryInv
  <2>2. k \in Nat /\ Len(list) = 2 * k /\ k <= MaxTurns + sinceTrim
    <3>1. MaxTurns \in Nat /\ sinceTrim \in Nat
      BY ConversationAssumption DEF HistoryInv
    <3> QED
      BY <2>1, <3>1 DEF Turns
  <2>3. Len(list) % 2 = 0 /\ Len(list) \div 2 = k
    BY <2>2
  <2>4. Len(list) <= 2 * (MaxTurns + sinceTrim)
    BY <2>2, ConversationAssumption DEF HistoryInv
  <2>5. ASSUME NEW i \in 1 .. k
        PROVE  \E r \in Requests : <<list[2 * i - 1], list[2 * i]>> = Turn(r)
    BY <2>1, <2>5 DEF Turns, Turn
  <2> QED
    BY <2>3, <2>4, <2>5 DEF HistoryWellFormed
<1> QED
  BY <1>1, <1>2, <1>3, PTL DEF GatewaySpec
=============================================================================
