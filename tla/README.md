# Verification of genai-backend-mastery

TLA+ models of the parts of this repository in which order, concurrency, time
and failure decide whether the code is right, checked with TLC on small
instances and, where a property matters for every instance, proved with TLAPS.

Contents: [the system](#the-system), [the models](#the-models),
[the runs](#the-runs), [what the runs found](#what-the-runs-found),
[the proofs](#the-proofs), [what is not modelled](#what-is-not-modelled),
[the plan](#the-plan).

## The system

A teaching repository of five programs that together are a production LLM
backend. Paths are relative to the repository.

| Part | Source | State | Operations | Talks to |
|---|---|---|---|---|
| Circuit breaker | `03-llm-integration/llmkit/circuit.py` | state, failure streak, successes, probe slots, time of opening; one lock | `call`, `call_async`, `state`, `reset` | wraps a function |
| Retry policy | `…/retry.py` | local to a call: attempt, elapsed time | `with_retry`, `with_retry_async`, `compute_delay` | wraps the provider |
| Response cache | `…/cache.py` | ordered dict of entries with expiry; one lock | `get`, `set`, `clear` | LLMClient |
| Cost, budget guard | `…/cost.py` | list of charged entries; one lock | `record`, `check_request`, `total_usd` | LLMClient |
| LLM client | `…/client.py` | none of its own | `complete`, `acomplete`, `stream`, `structured`, `report` | all of the above, the providers |
| Structured output | `…/structured.py` | local: conversation, attempts | `generate_structured`, `extract_json` | LLMClient |
| Providers, errors, types | `…/providers/`, `errors.py`, `types.py` | none | vendor calls, error classes | vendor APIs |
| Service budgets | `06-production-service/app/costs.py` | a spending window for the service and one per tenant; one lock | `check`, `record`, `remaining` | chat, readiness |
| Chat endpoints, jobs | `…/app/routers/chat.py` | `_JOBS`; coroutine locals | `/v1/chat`, `/v1/chat/stream`, `/v1/chat/async`, `/v1/jobs` | budgets, provider |
| Health | `…/app/routers/health.py` | none | `/healthz`, `/readyz` | budgets; Kubernetes |
| Rate limiter | `…/app/middleware.py` | a token bucket per key; one lock | `check` in front of every request | clients |
| Observability, security, wiring | `…/app/observability.py`, `security.py`, `deps.py`, `main.py`, `config.py` | metrics | middleware, settings | everything |
| Agent loop | `05-agents/agentkit/react.py` | messages, steps, usage, recent signatures, error streak | `run` | provider, tools |
| Tools, guardrails | `…/tools.py`, `guardrails.py` | call log; audit trail | `execute`; `check`, `filter_output` | agent loop, a human approver |
| Agent memory | `…/memory.py` | turns, summary | windows, `SummaryMemory`, `ConversationBudget` | provider |
| RAG | `04-rag/ragkit/*.py` | vector store, document hashes, embedding cache | `ingest`, `retrieve`, `answer`, chunking, fusion | embedder, provider |
| Java gateway | `07-java-integration/spring-ai-gateway` | resilience4j breaker; conversations in Redis | `chat`, `stream`, `append` | the chat service, Redis |

How they interact. The client serialises nothing: each of its parts has a lock
of its own and a request holds none while it moves from one to the next or
waits for a provider. The service runs coroutines on one event loop, so between
two `await`s a handler is alone, but every call of the provider is an `await`,
and the budget is read before it and charged after it. The balancer sees the
service through `/readyz` only. The gateway calls the service over HTTP with its
own time-out, retry and breaker, and Redis one command at a time.

What is hard in it: calls that outlive the breaker state they were admitted in;
check-then-act budgets around a long wait; windows and buckets that are
brought up to date only when somebody touches them; a wrapper (breaker around
retry around provider) that must report exactly one outcome on every path out; a
restart that forgets memory; a store written in several commands. Each hazard is
listed in `PROJECT.json` at the line where it bites, with the properties that
would show it going wrong.

What makes each component correct, in a sentence:

- breaker: it never gets stuck, admits few probes, opens only after a full
  streak, leaves `open` only after a full timeout;
- client: a request always ends, settles what it took, overspends boundedly,
  and is served from the cache only what it asked for;
- budgets: spending within a period is bounded, and the budget comes back;
- jobs: a job that was accepted comes to an end a poll can see;
- limiter: the rate holds over every interval, and `Retry-After` is neither too
  short, by a millisecond or more, nor a second too long;
- agent loop: it stops, for the documented reason, within its ceilings;
- structured output: what is returned is an object of the last reply, whole, but for
  its quotes;
- tools: what passes the schema can be called, what can be called passes;
- guardrails: every call that ran is in the audit trail, permitted and within
  the limit;
- memory: the newest messages that fit, system messages always, nothing
  dropped before it is summarised;
- RAG: chunks are the spans they name and lose no text; what an ingest skips is
  indexed; a filtered question sees no other tenant's chunk; an answer rests on a
  chunk that is close enough and fits;
- gateway: half-open always recovers, every request is answered, a stored
  history is whole turns and expires, a stream ends after its answer.

## The models

| Module | Models | Kind |
|---|---|---|
| `CircuitBreaker` | `circuit.py` under concurrent callers | state machine |
| `BreakerDiagram` | the state diagram the breaker promises | abstract specification |
| `BreakerStreak` | the breaker with its failures counted a second time, from the outcomes | history variable |
| `Retry` | `RetryPolicy`, `compute_delay`, the decision to retry | operators |
| `LRUCache` | `LRUCache.get`, `set`, expiry, eviction | operators |
| `LLMClient` | `complete` and `acomplete` over the three modules above | composition |
| `BudgetRegistry` | `costs.py` | operators and operations on two variables |
| `Service` | chat, stream, jobs, readiness, restart over `BudgetRegistry` | composition |
| `RateLimiter` | `TokenBucket` and `RateLimiter` of `middleware.py` | state machine |
| `TokenBucket` | a bucket filled by a background timer | abstract specification |
| `Providers` | the adapters of `llmkit/providers` and `app/llm.py`, `errors.py` | state machine |
| `ServiceStream` | `chat_stream` of `chat.py`, its events and its client, over `Providers` | composition |
| `ReActLoop` | `ReActAgent.run` with the calls it executes | state machine |
| `Chunking` | the four chunkers of `chunking.py` | operators, over every text |
| `Retrieval` | `retrieval.py` and the stores of `vectorstore.py` | operators |
| `RAGPipeline` | `pipeline.py`, the embedding cache, `evaluation.py` over `Retrieval` | state machine |
| `Guardrails` | `guardrails.py` around tool calls | state machine |
| `AgentTools` | the schema, `validate` and `execute` of `tools.py` | state machine |
| `Memory` | `memory.py` | operators and a state machine |
| `Structured` | `structured.py` | state machine |
| `ServiceBreaker` | the gateway's resilience4j breaker (external) | operators |
| `Conversation` | `ConversationService.java` over Redis | state machine |
| `GatewayStream` | `ChatController.stream`, `AiClient.streamChat` over `ServiceBreaker` | state machine |
| `Gateway` | `ChatController.chat`, `AiClient.chat` over `Conversation` and `GatewayStream` | composition |
| `MC…` | the instances TLC checks; `MCToolkits` puts the toolkits side by side | |
| `…_proofs` | theorems and their proofs; `Toolkits_proofs` is about `RAGPipeline`, `Guardrails`, `AgentTools` and `Memory`, `Texts_proofs` about `Structured`, `Providers`, `ServiceStream` and `Chunking` | |

**CircuitBreaker.** One action for each critical section: `Allow` and `Reject`
are `_allow`, `RecordSuccess`, `RecordFailure` and `ClientError` are the three
ways a wrapped call ends, `MaybeHalfOpen` is a reader of the `state` property,
`Reset` is `reset()`. Between its `Allow` and its outcome a caller is in flight
and anything may happen. The clock only occurs as `clock() - _opened_at >=
recovery_timeout`, so the model keeps that difference, saturated. Two history
variables are added: `in_flight` says whether a call was admitted in the present
era of the breaker (`fresh`) or before its last change of state (`stale`), and
`intruded` whether a stale call has returned in the present `half_open` era.

**LLMClient.** A request moves through the phases `check`, `route`, `attempt`,
`sleep`, `record`, `store`; an arrow between two phases is a point where the
code holds no lock. `Breaker == INSTANCE CircuitBreaker WITH Callers <-
Requests` gives the breaker's actions, which the client's actions conjoin, so a
step of the client that touched the breaker by any other way would violate
`UsesBreaker`. Prompts, models and texts are model values; an answer keeps what
the cache must tell apart, the prompt and the limit it was made under. A sleep
may take longer than asked. `Crash` is every exception that is not an `LLMError`,
a cancelled task included.

**Service.** An action is what a coroutine does between two awaits. `Begin` is
the budget check together with the start of the provider call, `Answer`,
`Timeout`, `Chunk`, `Abort`, `StreamEnd` what follows the await. Costs are
whole units; the cost of an answer is any number up to `MaxCost`, that of a
stream the number of its chunks. A budget window keeps its age, saturated at the
period. With `Routed` requests arrive only while the last probe of `/readyz`
succeeded. `Restart` forgets windows, requests and jobs, because all three live
in memory.

**Providers, ServiceStream.** A call of an adapter is sent, and the
vendor refuses it with a status, answers it whole, streams lines, or the connection
breaks, by a timeout or otherwise, which the code tells apart. A stream stops at each
text (`stage = "yielded"`) until its consumer pulls or closes it, as a generator does.
`outcome` is the class of exception the caller sees, `Escaped` those that are no
`LLMError`. The consumer is any caller (`Direct`), `LLMClient.stream` among them, or the
generator of `chat_stream`: `Show`, `Abort`, `FailInBand`, `Raise` and `Finish` are the
ways through its loop, `Leave` is the client, `Cancel` the server that noticed.
`wasted` is history.

**RateLimiter.** The code measures time in fractions of a second, so a tick is any
fraction of one (`Second` ticks make a second), and tokens are counted in units fine
enough for the refill of a tick to be a whole number. Waits are then exact fractions, and
`RetryAfter` makes whole seconds of them as the code does, with `int(x + 0.999)`:
rounded up only from a millisecond on, which is `1 / Grain` of a second. The rounding of
floating-point numbers itself is left out. `promise` remembers the first `Retry-After` a
key was given, in ticks, and counts it down; `watch` is an observer who may start to count
at any moment. Both are history.

**ReActLoop.** An action is a stretch of `run()` between its calls of the model and
of a tool: the four outcomes of the top of the loop (`OutOfTurns`, `OutOfTime`,
`OutOfBudget`, `Ask`), the ways a reply is taken (`Answer`, `Garbled`, `Loop`,
`Act`, or `Raise` when the provider raises, which `run()` does not catch), and
`Observe`, the return of `ToolRegistry.execute`. `Tick` lets the clock pass
anywhere. `recent` is the window the code keeps, `calls` the log of everything
executed, against which the window is judged; `outcomes` is history, one entry
for each turn, from which the error streak is counted a second time.

**Structured.** A reply is written a character at a time (`Write`), over braces,
brackets, both kinds of quotes, backslashes, fences and one other character; `Validated`,
`AskAgain`, `GiveUp` and `Truncated` are what the loop of `generate_structured` does
with it. `ExtractJson` is the string-aware scan with its fence and
its bracket alternative; the scan is a fold over the characters (`ReadOn`), and
`Repaired` is what `repair_json` does to quotes, after which a text that was no object may
be one. Which balanced text parses and validates is any choice. The reference it is compared with,
`IsObject`, is a grammar: the set of spans that are bodies of an object, found from the
shorter ones.

**AgentTools.** `signature` is the function `tool()` was given, annotation and
default of each parameter; `Call` is `execute` on any arguments, whose outcome
`validate` or the function decides. Values are their Python types.

**Guardrails.** `Check` is `check()` with the order of its refusals, `Execute` the
call and the `filter_output` of its result. The audit trail is kept entry by entry,
because the call limit is counted from it; `executed` is what really ran.

**Memory.** The windows, `VectorMemory.recall` and `ConversationBudget` are
operators on the log of messages, since they keep everything and cut when asked.
`SummaryMemory` is a machine: `Add` compresses when it must, the summary function
may return text, a blank, or raise. `gist` is the set of messages the summary was
made from, which the code does not keep.

**Chunking.** A document is typed (`Type`) over six kinds of character, and every text
up to the bound goes through `Fixed`, `Recursive`, `Markdown` and `Semantic`, with
any order of distances between sentences. Offsets are the code's, cursor and
search included. Loops over parts, sentences and headings are folds; the recursion of
`_split_text` over its five separators is five levels of `SplitAll`, since a piece that
is too long for one separator is split by the next and by nothing else.

**Retrieval and RAGPipeline.** A chunk is an id, a source and a text; a text is its
words and its similarity to the question. `Ingest` takes a batch, records the hashes
of the new documents, then embeds, and may fail between the two. `Delete` removes
from the store and, as in the code, from nothing else. `Answer` retrieves by any
of the three settings, refuses or fits the chunks to the budget. BM25 and rerankers
are any score with the right support; reciprocal ranks are exact, over a common
denominator, which is a table in the instance (`Reciprocal`), like the gains of ndcg (`Gain`). Evaluation metrics are exact fractions. What no pipeline calls (MMR,
parent and child, IVF, Chroma) is evaluated on the same states in `TenantIsolation`.

**ServiceBreaker, Conversation, GatewayStream, Gateway.** The breaker is a record and
what happens to it an operator, so that the end of a stream, which settles two
calls at once, is one step. `Send`, `Retried`, `GivenUp`, `Succeeds`, `ClientError`
and `ServerError` are the ways of `AiClient.chat`; `Respond` is the controller's
`flatMap`, from where the append takes its three Redis commands, each acknowledged
(`Acknowledged`), executed without a reply (`ReplyLost`) or lost (`CommandLost`).
`HangUp` cancels wherever the request is. A stream has two subscriptions, as the
code has: the one that is shown and the one `takeUntilOther` awaits. `cutOff` and
`sinceTrim` are history.

## The runs

| Run | Instance | Shows |
|---|---|---|
| `breaker` | 3 callers; thresholds 2 and 2; timeout 2; 2 probes | `NoLeakedProbeSlot`, `ProbeLimit`, `OpensOnFullStreak`, `FollowsDiagram`, `Recovers` |
| `probes` | the same with 1 probe, the default | the unconditional probe limit is violated |
| `client` | 2 requests, 2 providers, 2 attempts, a cache of 1, three kinds of call | `BudgetOvershootBounded`, `OneOutcomePerAdmission`, `UsesBreaker`, `OnlyStoringRenews`, `EveryRequestEnds` |
| `poisoning` | the same | a cache entry is stored under a key it does not belong to |
| `service` | 2 requests, 1 job, 2 tenants, budgets 2 and 1, period 2 | `OvershootBounded`, `JobsSettle`, `Reopens` |
| `breach` | the same | a job spends on an exhausted budget |
| `readiness` | 1 request, no job, requests through the balancer | an exhausted pod never rejoins |
| `limiter` | 1 key, burst 2, 4 ticks a second, a token in 11/8 s, observers of 3 s | `RateHolds`, `RetryAfterFits`, `ImplementsTokenBucket`, `ServedAgain` |
| `agent` | 2 calls, windows 0 to 3, 6 turns, ceilings of 1 | `OvershootsOneReply`, `NoThirdInWindow`, `GivesUpWhenStuck`, `Terminates` |
| `toolkits` | seven machines, one at a time (below) | `SkippedIsIndexed`, `TenantIsolation`, `GroundedAnswer`, `MetricsAgree`, `ChunksTrace`, `AuditAccountsForCalls`, `ValidCallsBind`, `WindowsHold`, `NothingForgotten`, `CorrectionsBounded`, `RetryableIffMayPass`, `OneEnding`, `ChargedWhenWhole`, `OneWastedText` |
| `gateway` | 2 chats, 1 stream; window, minimum and probes of 2; 2 attempts; 1 turn kept | `HistoryWellFormed`, `ExpiresUnlessCutOff`, `HalfOpenNotStuck`, `EveryChatAnswered` |
| `stream` | 1 stream, a window and a probe of 1 | the done event follows an answer that was cut off |

Why these bounds. In the breaker three callers are a late call, a probe and one
more; a threshold of two is the least at which a streak can be interrupted; the
proofs lift the safety properties to every number of callers. In the client two
requests are enough for a check between another's check and charge, and a
breaker opened by one failure and one time unit of everything puts recovery,
expiry and back-off within reach of each other; a cache of one entry evicts on
every second key. In the service two requests and a job are the least that
overspend together in the three ways the code has; the budgets differ so that
either can be the first exhausted. In the limiter keys share nothing, so one
suffices; 2 units a tick for tokens of 11 make waits end between ticks, and a `Grain` of 3
where the code has 1000 leaves a tick, a quarter of a second, within what is not rounded
up. In
the agent loop six turns are enough for a call to come back a third time after it
has left the largest window, and for two streaks of errors.
In `toolkits` the toolkits share no state, so `MCToolkits` lets one of them (the
`subject`) move in each behaviour, and its states are the sum, not the product. Two
tenants and three contents that share a text give colliding ids, duplicates in
the hybrid index and chunks too long for the context; 5 characters are enough for a
heading with a body, an overlap that finds an earlier repetition, and three sentences
in the semantic chunker; policies are all those around two tools; signatures all
those of two parameters with five kinds of annotation; 4 messages of three lengths pass
the summary's threshold twice; 5 characters hold a nested object, a quoted
brace and a fence around an object; bodies of 4 lines have a text before and after a
line that is skipped, and a second text after the client left. In `gateway` two chats and a stream are three
kinds of call at one breaker: two probes, of which a stream takes both, and a late
call; two appends interleave at every command; with one turn kept every second
push trims.
Bounds in guards: `MaxWatch` ends an observer's count, the saturated clocks end at
the value the code compares with; `MaxLength`, `MaxReply`, `MaxMessages`, `MaxAudit`,
`MaxBatch`, `MaxChunks` and `MaxLines` end a text, a reply, a conversation, an audit
trail, a batch, an index and a streamed body, which the code lets grow; `MaxScore` is the
greatest score of BM25 and of a reranker: none, some and more. Nothing else is cut off: the counters
the code leaves unbounded are bounded by what is proved of them.

Fairness, and why the code justifies it:

- `breaker`: time passes; callers keep calling; a caller that is admitted again
  and again sooner or later succeeds. The last is a strong fairness and an
  assumption on the traffic: calls that end in a client error only (`ClientError`)
  close nothing, and `Recovers` says nothing of such callers.
- `client`: time passes and a request that can move does: threads are scheduled,
  sleeps end, and a provider call ends because the provider's HTTP client has a
  time-out of its own.
- `service`: time passes, the probe is polled, clients keep asking; a chat is cut
  off by `wait_for`; streams and jobs have no limit in the service and end
  because the provider's client times out (`llm.py:165`, `199`).
- `agent`: the model and the tools return. Nothing is assumed of the clock: the run
  ends even if no deadline ever strikes.
- `limiter`: time passes and clients of every key ask, as fast as they like.
- `gateway`: a request that can move does, and so does a stream: an attempt is
  bounded by the `timeout` of its Mono, a Redis command by Lettuce's time-out and
  the silence of a stream by the read time-out. Nobody need hang up, no key need
  expire, and the breaker need not leave `open`.

## What the runs found

Five runs state what the documentation says and show the code doing otherwise;
`PROJECT.json` quotes the lines.

1. `probes`: `half_open_max_calls` is not a limit on concurrent probes. A call
   admitted before the breaker opened gives back a slot when it returns. What does
   hold is `ProbeLimit`: the limit, until such a call returns.
2. `poisoning`: `acomplete` puts `max_tokens` in the cache key and does not pass
   it to the provider.
3. `breach`: `/v1/chat/async` checks no budget.
4. `readiness`: `/readyz` reads the budget window without rolling it. A pod that
   exhausted its budget is taken out of the balancer and gets no request that would
   roll the window, so it stays unready until it is restarted.
5. `stream`: the gateway's stream subscribes to a cold publisher twice, so each stream
   is two requests to the service, and the end of the one nobody sees cuts off
   the one that is shown, or the breaker refuses it.

Other disagreements were met while modelling. They are built into the models, as the
code has them, and the properties are stated around them:

- `RAGPipeline`: a document's hash is recorded before its chunks are embedded, so
  that after a failure of the embedder the document is skipped for good (`failed`); a
  delete reaches neither `self.chunks` nor BM25; `ndcg` can exceed 1.
- `Chunking`: the spans of Markdown chunks overshoot by the heading path.
- `Structured`: an array of objects yields its first object. A brace inside a
  single-quoted string does break the count, before the quotes are repaired.
- `RateLimiter`: `int(x + 0.999)` rounds a wait down that exceeds a whole second by less
  than a millisecond, so that a client which comes back "exactly when" it was told to
  (`middleware.py:80`) can be rejected once more and told to wait another second.
  `RetryAfterFits` bounds what such a client lacks by that millisecond.
- `AgentTools`: an `Optional` parameter without default is not required, and a call
  without it raises the `TypeError` that validation is there to prevent.
- `Retrieval`: two tenants with the same text share chunk ids, and Chroma's table keeps
  the later; the table is empty after a restart, whatever is on disk.
- `Gateway`: 5xx answers are neither retried nor counted as failures; a stream's events
  are all relayed as `token`, whatever the service called them (not in the model).
- `ServiceStream`: an `LLMError` becomes an error event, but the service's `astream` lets a
  timeout or a lost connection through as httpx's own exception, and the stream just
  stops (`Raise`). A failure that the vendor reports on a line of the body is skipped like
  any line without text, and the stream ends as complete.
- `LLMClient.stream` checks the budget and records nothing, so that streams never use it
  up (not in the model).
- `Providers`: the service's `astream` takes a 429 for final, its `acomplete` does not;
  streams and embeddings of the library raise exceptions that are no `LLMError`.

## The proofs

Every proof is checked by TLAPS to its leaves; the assumptions are the named
`ASSUME`s of the modules: finite sets of callers, requests and jobs, the
parameters natural numbers, and positive where a constructor or `Settings`
requires it; of the data, that texts have at least one token, the vocabulary is finite
and similarities are hundredths. What a rank is worth is a table: `Reciprocal`, in which
`Reciprocal[r] * (60 + r)` is the same for every rank, and `Gain`, which does not grow
with the rank. They have to reach `fetch_k` and `top_k`, and may be as long as one likes.

**CircuitBreaker_proofs.** `NoSlotLeaked` and `ProbesLimited` rest on one
invariant, `SlotInv` together with the types: in `half_open`, `half_open_calls <=
Cardinality(Fresh)`, with equality as long as no late call has intruded. A bound on
the slots alone is not inductive: a returning call frees a slot, so the slots
have to be counted by the calls still in flight, and entering `half_open` has to
make every call in flight stale. `OpensOnlyOnFullStreak` needs that in `closed`
the breaker's counter is the streak counted from the outcomes (`StreakInv`), which
says nothing of what late failures do to the counter in `open`. `ImplementsDiagram`
maps each step to an arc of the diagram or a stutter.

**LLMClient_proofs.** `ClientImplementsBreaker` needs to know that a request
whose attempt ends is in flight at the breaker, which is
`OneOutcomePerAdmission`; the two are proved together with the types of the
requests. `OvershootIsBounded` uses the invariant that what is spent plus the
dearest answer of every request past its check stays within the bound: a request
joins the unpaid only while the budget has room for its projection.

**Service_proofs.** `OvershootIsBounded` needs the same argument for a window of
the service and one of each tenant at once, with windows rolling to zero under
calls in flight and jobs counted from the beginning, since nothing checks them.
`Covered` states it for a window, and the lemmas say that it survives a check that
passes, a charge, a roll, and calls that leave.

**RateLimiter_proofs.** `LazyIsEager` is a refinement with `tokens <-
Available`: filling by `idle` ticks at once is filling tick by tick because the
capacity caps both. `RateIsHeld` is inductive as it stands. `WaitingIsEnough` holds
at every rate and for a clock as fine as one likes. `RetryAfterRounds` bounds the header
from both sides, and the invariant (`PromiseInv`) keeps those bounds while the promise is
counted down: what is missing after as many ticks as are left is less than a millisecond's
refill, and what is left is less than a second more than what is missing takes.

**ReActLoop_proofs.** `NoThirdCall` is about the log of calls and the test about the
window, so the invariant is that the window is a suffix of the log, of the length
the window allows (`SuffixInv`): had the third call been within reach, both earlier
ones would be in the window and the test would have met them.
`GivesUpExactlyWhenStuck` needs that the error counter is the streak of failures the
history ends with, and `OvershootIsOneReply` that while the model is asked there was
still room under the ceiling.

**Gateway_proofs.** `ConversationsExpire` needs only that an append begins when the
call before it is over (`RequestsOK`, itself `RequestsTypeCorrect`): every step of the
gateway is one of four kinds of step to a conversation (`StepsOfConversation`), and
only a push and a lost command can leave a list without expiry. `HistoryIsTurns` says of the
list that it is `k` whole turns, `k` at most `MaxTurns + sinceTrim`; a push adds one and
a trim, of an even number of entries, starts at a request's message. `HalfOpenRecovers`
needs a count: in `half_open`, the permits left, the outcomes recorded and the calls in
flight add up to at least `Permitted`, and the outcomes are fewer
(`ProbesAccounted`). An inequality, because late calls also return and give permits
back. The calls are counted as two sets, the chats that are trying and the
subscriptions that flow; both are finite in every state, which is part of the invariant,
so nothing is assumed of how many requests there ever are. The end of a stream is
the delicate step: one subscription records, the other is cancelled, on a breaker the
first may just have closed or opened.

**LLMClient_proofs, the cache.** `TypeCorrect` says of the cache that no key is stored
twice and that it stays within `max_size`; a `set` removes the entry of its key before
it appends the new one, and cuts what is too long from the front. `OnlyStoresRenew` follows step
by step: a lookup only moves or drops an entry.

**Toolkits_proofs.** What these components compute is a matter of sequences of any
length, so the module begins with induction. The library's induction theorems take an
operator, which no prover here can instantiate; stated of a set (`SetInduction`: a
set that holds 0 and the next of each number it holds has every number; `SeqInduction`, the
same of sequences) they can be used, and from them follow what `FlattenSeq` and
the folds of the library compute. Then, by component:

- `ValidationAgreesWithBinding`: a call passes validation and still fails to bind only
  for an `Optional` parameter without default. The invariant is the property itself and
  that signatures are made of the declared annotations.
- `AuditIsTrue`: the property counts the grants up to each entry, so it is inductive
  with the types; the lemmas say what an entry more does to the counts.
- `SkippingLosesNothing`: the BM25 index is `self.chunks` (`RAGInv`), which only grows,
  and a hash is recorded in the step that indexes its chunks or that remembers the failure.
- `TenantsAreFiltered` and `AnswersAreGrounded`: a ranking holds each position once, by
  counting those before it (`RankedProperties`); every retriever returns chunks the filter
  lets through, and the fusion each id once (`FuseProperties`); what `fit_to_budget` keeps
  is followed chunk by chunk (`ScanInv`: some of the chunks read, in their order, their
  tokens counted, and the first of them the first that fits). No earlier state
  matters but that the store and the index hold chunks (`AnswersInv`), deletes included.
- `TenantsStayApart`: nothing but the types of the state, and all the more of the
  operators. `Nearest` returns as many as it can, none nearer is left out
  (`BestOfPart`), so that an IVF search which misses something has looked at fewer lists
  than it needed (`IVFMisses`). Chroma's table holds the last chunk of each id, and
  fetching everything it cuts off none of them (`ChromaHolds`). MMR is a recursive
  function; that it picks each candidate once, and with only relevance in descending
  order, is an induction over its picks (`Selection`, `SelectionGrows`). The theorem has
  the property's own range for what it varies: the clusterings of two lists and
  three values of lambda.
- `ScorecardAgrees`: the invariant is that no more chunks are cited than `top_k`
  (`SourcesInv`), so the gains reach. What ndcg adds up is followed rank by rank
  (`GainsAddUp`), and as many ranks never gain more than the first ones (`FirstGainMost`),
  so that the ideal is the best unless more chunks are relevant than there are markers.
  The generation metrics are cardinalities of sets of words.
- `WindowsKeepWhatFits`: the windows are folds from the right, and the claim is about
  all tails. A tail that is one message longer costs more (`TailCostsMore`), so the scan
  stops at the longest that fits (`WindowIsTail`), capped messages included, and a
  message that is capped leaves room for the newest (`NewestAreKept`).
- `NothingIsForgotten`: the history is increasing but for the pinned messages, and what was
  summarized comes before what was not (`Coherent`); a summary moves the boundary, and
  a message added goes after it.

**Texts_proofs.** Text that is read piece by piece, with the inductions of
`Toolkits_proofs`.

- `CorrectionsStayBounded`: the invariant is that the conversation carries every failed
  attempt and that what is returned was loaded from the reply (`CorrectionsInv`). The scan
  is a trace, read character by character (`Scan`), that can be cut and moved (`PartsOf`).
  A body of the grammar brings it back to the depth it started at, outside any string
  (`BodiesAreRead`), by induction over the rounds that find bodies; and what lies between
  two places of one depth, with nothing shallower between, is a body (`LevelIsBody`).
  So a span that is closed is an object (`SpanIsObject`), and the first object in prose
  without quotes, braces and fences is the span found (`ObjectIsLoaded`).
- `OnlyPassingIsRetryable` is about the adapters alone and
  needs where a call of theirs stands (`ProvidersInv`: a status once there is a body, an
  ending once the call is over, a stream suspended on a text). The three theorems about the
  events rest on one invariant (`EventsInv`): where the generator is, the call below it
  is as well (`GeneratorInv`); of the texts read, all are shown but the one the
  stream is suspended on (`TextsInv`), so that `EndsOnce` and `ChargesForWholeAnswers` can
  compare the frames with the body; and a text is wasted only while the generator
  waits for it (`WasteInv`, for `WastesOneText`).
- `ChunksStayTraced`: that the document is a text (`Written`) is all the state there is;
  the rest is what the four chunkers compute of every text.
  - A list of pieces traces a text when every piece stands at its offset and together they
    cover it (`PiecesTrace`); stripping keeps that, because a piece that is dropped is
    blank (`FinalizeIs`). The windows of the fixed chunker do (`WindowsAre`), and the one it
    may drop is covered by the one before (`FixedIs`).
  - Splitting loses nothing: what comes out joins to what went in, for `split` with its
    separators put back (`PartsJoin`), for the merge of small parts (`MergedJoin`) and so
    for every level (`SplitTextJoins`); after the last separator, the empty one, nothing
    is longer than the size.
  - The search for a piece from the cursor finds it where it was cut: the piece stands at
    the cursor, so the first hit from there is the cursor itself (`PlaceIs`), however the
    text repeats itself, and the overlap in front of it is the text before
    (`OverlappingIs`). Hence `RecursiveTraces` and `RecursiveFits`.
  - The sentences tile the text but for blanks (`SentencesTile`), and the buffer of the
    semantic chunker is always the text between two of its sentences (`GroupKeeps`),
    wherever the distances cut.
  - Headings are found in order, with titles made of the document's characters
    (`HeadingsTyped`), so a section's body is the text between two of them (`SectionsAre`),
    its pieces join to it and their offsets add up (`SectionKeeps`).

The types of every component are proved (`TypeCorrect`, `RequestsTypeCorrect`, or within an
invariant above), for all constants, and not also run, except those of the client, which are
both.

Every invariant and every safety property of the passing runs is stated by a theorem.
Only model-checked is all liveness (`Recovers`, `EveryRequestEnds`, `JobsSettle`,
`Reopens`, `ServedAgain`, `Terminates`, `EveryChatAnswered`): TLAPS has no rule for
fairness and `ENABLED`.

Proofs that failed corrected the model. `ChunksFit` used to say of every overlap that no
window of the fixed chunker lies inside the one before it. The code drops one window at
most, and with an overlap above half a window several lie inside: of a text of 5 in windows
of 3 with an overlap of 2, the window from 3 to 5 is kept, which is all in the one from 2 to 5.
It now says so of overlaps up to half a window; the module advises 10 to 20%.
And `TenantIsolation` used to say that Chroma
holds a chunk unless a later chunk of its id differs from it. Of three chunks A, B, A of one
id that is false, and no index of the run was long enough to show it; now it says that
Chroma holds what equals the last chunk of its id (`MissesReplaced`). The tables of
votes and gains used to be four ranks long, too short for the code's own defaults of
`fetch_k` and `top_k`, and the scores of BM25 and of a reranker stopped at different
values.

## What is not modelled

- Vendor calls, prompt texts, prices and token estimates, HTTP parsing, logging,
  metrics and redaction (of secrets in arguments, of PII): input and output around
  the state that is modelled; they appear as nondeterministic outcomes. Of the scripts
  of `FakeProvider` it is kept that a call may fail.
- `RedisCache` and multiple replicas: the code says it keeps no shared counters, so N
  replicas are N copies of the model.
- The budget check of `LLMClient.stream` (see the findings), and a client built without
  cache, budget or breaker.
- How SSE frames are written, and what the gateway's WebClient makes of them: of the
  upstream stream `GatewayStream` keeps that it flows and how it ends.
- Formulas of scores (cosine, BM25's weights, closeness): their order is modelled, the
  arithmetic is any. Likewise k-means, which is any clustering.
- Model calls that only rewrite text: `multi_query`, `hyde`, the LLM judge; averages over
  a dataset are sums of the metrics modelled for one example.
- The bodies of the built-in tools.
- Settings nobody would want: a chunker with a negative overlap (its windows would skip
  characters, which `__post_init__` does not refuse) or a recursive one with no room.
- The gateway's bulkhead, which is configured and not used, the breaker's slow-call rate,
  which is not configured (resilience4j then counts calls of more than a minute, and opens
  when all of them are), waiting times of its retry, validation of its DTOs, and `history()`, which only reads.
- Chroma's second life on disk (see the findings).
- The foundations exercises, which are not part of the running system.

## The plan

Done, in this order: what guards money and availability (`CircuitBreaker`, `Retry`,
`LRUCache`, `LLMClient`, `BudgetRegistry`, `Service`, `RateLimiter`), what must stop
(`ReActLoop`), what stands between a model and its tools (`Guardrails`, `AgentTools`,
`Structured`), what carries an answer to its client (`Providers`, `ServiceStream`),
what must not lose data (`Chunking`, `Retrieval`, `RAGPipeline`, `Memory`),
and the gateway in front of the service (`ServiceBreaker`, `Conversation`,
`GatewayStream`, `Gateway`, with their proofs).

Left:

1. `GatewayStream` over `ServiceStream`, so that the gateway's upstream is the service's
   own machine.
