# A TLA+ model of Scira2API

Scira2API is a Go service that offers an OpenAI-compatible API over a chat
backend: `/v1/chat/completions` (whole or streamed as server-sent events),
`/v1/models`, `/health` and `/metrics`. This directory models its moving parts
in TLA+, checks them with TLC on small instances, and proves all of what the passing
runs check of their safety for every value of the constants with TLAPS. Paths below are relative to `src/`.

## Inventory

| Component | State | Operations | Interacts with |
| --- | --- | --- | --- |
| Rate limiter, `pkg/ratelimit/limiter.go` | tokens, lastTime, enabled, three counters | Allow, Wait, Enable, Disable | every chat request waits in it |
| Non-streaming chat, `service/chat.go` | per request: handler and worker goroutine, channel, context | ChatCompletionsHandler and what it calls | limiter, cache, HTTP client |
| Streaming chat, `service/stream.go`, `stream_helpers.go` | attempt, error count, writer shared by two goroutines, context, and `lastFlushTime`, shared by all streams | doChatRequestAsync, startHeartbeat, executeStreamRequest, processResponseStream | HTTP client, client connection |
| HTTP client, `pkg/http/` | proxyURL, transport; per request the body reader | SetProxy, SetBody, Execute | backend, proxies |
| Cache, `pkg/cache/cache.go` | items, metrics, cleaner goroutine | Set, Get, Delete, Clear, DeleteExpired, Stop | chat handler, model list |
| Response cache, `pkg/cache/response_cache.go` | enabled, a cache of answers and one of model lists | Set/Get of either, Clear, Enable, Disable | cache |
| Model mapping, `config/config.go`, `service/model.go`, `validator.go`, `utils.go` | ModelMappings, the cached list | loadModelMappings, chatParamCheck, MapModelName, GetExternalModelName, ModelGetHandler | chat requests |
| Token counting, `service/utils.go`, `handler.go`, `token_counter.go` | TokenCounter of a request | countTokens, correctTokenCount, AddOutputTokens, SetStreamUsage | both kinds of chat |
| Server process, `main.go`, `middleware/` | request counters, phase of the process | counting middleware, getMetricsHandler, signal, Shutdown, Close | all requests |
| Connection pool, `pkg/connpool/pool.go` | options, counters of connections | NewConnPool; wrapping a client's dialer has no caller | nothing |
| Configuration, ids, models, errors, log, response writers | constants, literals | straight-line code | all |

What is hard here, and what should hold nevertheless:

- *Limiter*: requests poll and sleep, are cancelled, and the limiter may be
  switched off under them. Burst and rate must hold in every window of time.
- *Non-streaming chat*: the result, the closing of its channel and the end of the
  context become ready in any order. Each request must get an answer that was
  produced for its body, or a failure that happened; no goroutine may stay
  blocked, nor go on calling the backend when its handler has returned.
- *Streaming chat*: a retry begins after output has been sent, writes fail, two
  goroutines write, a write panics and is recovered, the client leaves. What the
  client sees must make sense. Streams hold back each other's chunks.
- *Token counting*: one counter over all attempts of a stream, filled line by line,
  against figures of the backend. What is billed must fit what was sent, in both modes.
- *HTTP client*: attempts nested in attempts, three routes in each, one body.
- *Cache*: clock readings are taken before the lock is.
- *Process*: counters read while they change, panics, shutdown while streams run.

## Modules

Each module is named after its component; the actions have the names of what the
code does, and `PROJECT.json` maps every definition to its lines.

| Module | Models | State ↔ code |
| --- | --- | --- |
| `WindowLimit` | abstract: what a limiter promises | the times of the admissions; no bucket |
| `TokenBucket` | `limiter.go` and the requests in `Wait` | `tokens`, `lastTime`, `enabled` and the counters are the struct's fields (tokens in sub-units, so that the floating point refill is exact); `pc` is the place of each goroutine |
| `ChatSync` | `handleSyncRequest`, its worker goroutine, channel, context, response cache | `handler` and `worker` are the places of the goroutines, `channel` the buffer of `resultChan`, `gone`/`expired`/`released` the three ways the context ends; a parked select is told apart from one that is about to look, and the worker's look at the context (`Check`) from the attempt that follows (`Call`); `atReturn` is a history of the attempts begun when the handler returned |
| `SSEProtocol` | abstract: the frames a client may see | the sequence of their kinds; unless it finished with `stop` it may begin again, once per retry; a panic may be reported in each |
| `ChatStream` | `doChatRequestAsync` and what it calls, with the heartbeat | `stream` and `beat` are the places of the two goroutines, `frame` the write in progress and where it goes then, `raced` the writers whose write overlaps the other's, `wire` what reached the client, `written` is `c.Writer.Written()` |
| `HttpExecute` | `Request.Execute` | `left` is what the body reader still yields, `length` the content length of the prepared request, `setting` the proxies configured, `sends` a history |
| `RetryStack` | `executeRequestWithRetry` around `Execute` | `calls`, `level`; extends `HttpExecute` |
| `Cache` | `cache.go` with its cleaner | `items` as a table with expirations, `size`/`hits`/`misses` the metrics, `writer` the Set calls waiting for the lock |
| `ModelMapping` | `MODEL_MAPPINGS`, its use, `/v1/models` | `mappings` is `c.ModelMappings`, `cached` the model cache; `chat` the last chat with the kind of its reply: a whole answer, a frame of a stream, or the report of a panic |
| `FlushThrottle` | the end of `processStreamLine` and the ticker of the heartbeat, of several streams | `lastFlushTime` is the package variable, `held` when the oldest chunk in a writer's buffer was written, `due` when a ticker fires; `flushed` is a history of the last flush after a chunk |
| `TokenCount` | `countTokens`, `calculateMessageTokens`, `correctTokenCount`, as operators; next to them what the loop counts, defined by positions | a text is a sequence of classes of runes |
| `TokenUsage` | the `TokenCounter` of a request, in `stream.go` and in `chat.go` | the fields of the struct; `content`, `reasoningContent`, `usage` are the variables of `parseResponseBody`; `told` the usage in the last frame or reply |
| `Server` | `main.go`, the middleware | `phase` per request, the three counters |
| `<module>Proofs` | theorems about the module, below; those about `FlushThrottle` and `TokenCount` are in `ChatStreamProofs` and `TokenUsageProofs` | |

`MC*` modules give the constants their values for TLC where a `.cfg` cannot.
Composition: `RetryStack` composes the two retry loops; `ChatSync` contains the
response cache and takes one attempt of `executeRequestWithRetry` as one step whose
inside is `HttpExecute`; `TokenUsage` and `FlushThrottle` look at the same streams as
`ChatStream`, at what they count and at when they flush; `TokenBucket` implements `WindowLimit`, and `ChatStream`
implements `SSEProtocol`.

Definitions whose comment begins with "Fault:" are not part of any specification:
each is a plausible mistake in the definition after it, and shows that the
property named in `PROJECT.json` would notice it.

## Runs

All bounds are constants of the modules and are named in the `.cfg`.

| Run | Question | Bounds and why they do |
| --- | --- | --- |
| `token_bucket` | burst and rate in every window, accounting, refinement of `WindowLimit` | four requests against a burst of two and a rate that needs two polls per token, so that requests are refused, sleep, and are admitted by refill; the proofs lift the bounds |
| `chat_sync` | genuine answers and failures; at most one attempt more of an orphaned worker; every request answered, workers end | two requests sharing a body (the cache matters between two), two attempts (a first that may be retried and a last; an orphan that forgot the context would begin both) |
| `chat_stream` | refinement of `SSEProtocol`, writer handed back, client told; the stream and the heartbeat end | two attempts (the second is a retry after output), two lines each, an error threshold of two, two heartbeats: one can overlap each write of the stream, and make a write of either attempt panic |
| `retry_stack` | order of the routes, budget, cause of truncation, end of the loops | two attempts at each level, a body of two pieces (a send may stop before, within and after it), every choice of proxies |
| `cache` | lifetime, sweeping; the size metric (in the type invariant) | two keys, two writers, and a clock that passes a lifetime three times; one `Stop` |
| `server` | counters, scrapes, graceful shutdown; a signal ends the process | two chats, one scrape, one rejected request |
| `model_mapping` | chats go where configured, the list can be used, where the name in a reply leads | three names and every list of at most three pairs, malformed ones included |
| `token_usage` | the single pass against a definition by positions; both modes count alike; the usage told speaks of all attempts | a prompt of one message or of two, two attempts, three lines of up to two runes of four classes (so that words, wide runes and blanks meet at the end of a line), figures on both sides of the fifth |
| `flush_throttle` | a chunk is held back only after a recent flush, and none stays in a buffer longer than a heartbeat | two streams (one that holds back another), a heartbeat three times the flush interval, a clock of two heartbeats; the proof lifts the bounds |

Runs that end in a counterexample check what a comment or the documentation says
and the code does not do:

| Run | What the code does |
| --- | --- |
| `chat_sync_nil` | a dropped result is taken for a success without a response, and panics |
| `http_body` | an attempt after one that had read the body sends what is left of it |
| `chat_stream_done` | a retry streams on after `[DONE]` |

### Divergences without a run of their own

Seen while modelling; the modules follow the code, and where a property is named
its statement makes room for it.

- `RETRY` is documented as the maximum of retries (`README.md:66`), but the loops of
  `chat.go:192` and `request.go:318` multiply: `TotalBudget` is `RETRY` × `RETRY` per route.
- `tryDirectConnection` (`pkg/http/request.go:290`) uses the client whose transport has
  the static proxy, so the last route is not direct.
- `SetProxy` (`pkg/http/client.go:191`) keeps an address it refuses; the static route is
  then tried without that proxy.
- `rejectedCount` (`limiter.go:67`) counts polls, not requests: `CallsAccounted` counts
  calls of `Allow`.
- A request whose handler panics is neither a success nor an error (`main.go:105`):
  `CountersAddUp` carries it as a term of its own.
- `/v1/models` lists one external name per internal model (`model.go:45`):
  `OfferedIsUsable` says exactly one.
- `getExternalModelName` (`chat.go:271`) asks the hard-coded mapping, not the configured
  one, so a whole answer may name another model than was asked for, if the former lacks
  the name and the latter has it as an internal one too. The report of a panic in a stream
  takes the asked name for an internal one and looks it up twice (`stream.go:196`, `522`),
  although its comment says it is the external one already (`stream.go:517-519`): it may
  name a model two steps away, whatever the hard-coded mapping holds. The other frames of
  a stream keep the asked name. `ReplyLeadsBack` states these cases.
- Between its look at the context (`chat.go:193`) and its attempt (`chat.go:204`) an
  orphaned worker may see its handler return, and begins the attempt nevertheless:
  `OrphansBeginAtMostOne` counts it. What the attempt then sends is not looked at: to
  `ChatSync` a call of the backend is one step that succeeds or fails.
- A scrape of `/metrics` may report more successes and errors than requests, as it reads
  the three counters at different times (`main.go:256`): `ScrapeShowsNoGhosts` bounds them
  by the counter at the end of the scrape, not by the one the scrape reported.
- A word that punctuation ends directly is not counted (`utils.go:103`):
  `EstimateIsByPosition` counts the words that a blank or the end of the text ends.
- `[DONE]` is sent "in one piece" (`stream.go:505`), but a heartbeat written at the same
  time may mix with it: the writer has no lock. `ChatStream` lets racing writes mix or panic.
- The usage of a retried stream is that of all its attempts, and the figures of the
  backend may be those of a failed one (`stream.go:202`, `446`): `UsageSpansAttempts`.
- A `d:` line that cannot be parsed erases the figures of an earlier one in a stream
  (`stream.go:443-446`), but not in a whole answer (`utils.go:195-198`).
- A request that fails before it streams, but after a heartbeat, ends without `[DONE]`
  and without an error (`chat.go:112`): the exception of `ConnectedClientIsTold`.

### Fairness

- `ChatSync`: goroutines that can run do; a call to the backend ends, for the HTTP
  client has a timeout; the timer of the deadline fires. Admission by the limiter
  is *not* fair: waiting requests race for tokens, and none is promised one. Hence
  `EveryRequestAnswered` starts at the admission.
- `ChatStream`: both goroutines run. The client's timeout covers the response
  body, so a response is finite (`MaxLines`).
- `RetryStack`: the worker runs; sends end by the client's timeout.
- `Cache` states no fairness: its properties are safety.
- `FlushThrottle` states none either, for its bound is one in time: the clock does
  not move past a ticker that is due. The delays of the scheduler are thus taken as
  small against the heartbeat; those of a stream are not bounded.
- `Server`: the main goroutine runs and the timer of Shutdown fires. Nothing is
  assumed of requests.

### Where the code leaves the outcome open

- Two overlapping writes of `ChatStream` race on the writer's buffer: their bytes mix,
  and a frame of `wire` stands for what arrives of it; or the write of the stream panics.
- A read of `lastFlushTime` while it is set for the first time compares either way.
- `/metrics` loads three counters in an order the language does not fix: any order.
- Map iteration order: any external name that maps to the internal one.
- A select with several ready cases: any of them.

## Proofs

`TokenBucketProofs` proves, for all values of the constants that satisfy
`LimiterAssumption` (rate, burst and clock are natural numbers, a token has at
least one sub-unit):

- `Typing`: the type invariant. The bucket is never negative and never over its
  capacity, and `lastTime` never runs ahead of the clock.
- `Tightest`: the bucket is exactly the room in the tightest window.
- `Limiting`: from any admission to any later one, at most the burst plus what the
  rate yields in between are admitted.
- `Implements`: every step is a step of `WindowLimit` or a stutter.
- `Accounting`: every counted call of `Allow` is counted again or in flight. Its
  strengthening adds that the set of calls in flight is finite, so that its
  cardinality moves by one; the number of requests may be infinite.

`WindowBound` is not inductive: it says nothing of the tokens in the bucket, and a
bucket that is too full breaks it at the next admission. The strengthening is
`BucketIsTightest`: the tokens are at most the room of every window that begins
with an earlier admission (so an admission keeps all windows within bounds), and
equal to the capacity or to the room of one of them (so a refusal is never
premature, which is what the refinement of `Refuse` needs). The lemmas
`RefillTightest`, `RejectTightest`, `AdmitTightest` say that a refill, a rejection
and an admission keep it; `TokenIffFits` that a whole token is there exactly
when `WindowLimit` admits; `AdmitKeepsWindows` that an admission keeps the windows
within bounds.

`CacheProofs` proves, for all keys, writers, callers of `Stop` and every TTL and
bound (`CacheAssumption`: they are natural numbers):

- `Typing`: the type invariant, in it that a sweep's time is never ahead of the clock.
- `Lifetime`: nothing is served past its lifetime. The property only speaks of what
  was read; the strengthening, `Lifetimes`, dates every entry, stored or still
  waiting for the lock, from the moment its `Set` began.
- `Sparing`: the cleaner removes only what has expired. A step property; it needs of
  the type invariant that the sweep's time is in the past.

`ChatSyncProofs`, for any requests, bodies and number of attempts
(`ChatAssumption`):

- `Typing`, `Orphans`, `Answering`, `Failing`: `TypeOK`, `OrphansBeginAtMostOne`,
  `AnswersAreGenuine`, `FailuresAreGenuine`. Only the first stands by itself. The second
  needs `OrphanInv`: once a handler has returned its context stays done, so only a worker
  that is past its check already may begin an attempt, and it is the first since. An answer
  passes from the worker's result through the channel to the handler and the cache.
  `WorkerInv` ties the worker's place to its result and to what the channel holds,
  `HandlerInv` the handler's place to what it took and to the released context, and
  the last two, together `GenuineInv`, are inductive given these. `StillProduced` has what
  was produced for a key stay so, and `KeepsGenuine` reduces each
  step to what it stores and what it replies.

`ChatStreamProofs`, for any `Retry`, `MaxErrors`, `MaxLines` and `MaxBeats`
(`StreamAssumption`):

- `Typing`, with `FrameInv` (which frame leads where) and `LoopInv` (how far attempts and
  errors have come at each place).
- `HandingBack`: with `HandInv`, the heartbeat is gone at `return`, and a heartbeat or a
  frame has set `written`, so that a JSON error has neither before it.
- `Telling`: `ToldInv` says what the last frame was at each place of an attempt's end,
  while the connection holds; then a request's context is cancelled only by its own end.
- `Following`: the refinement of `SSEProtocol`. A frame that arrives must find the
  protocol in the state it needs: `EndInv` has the last frame at each place, `StopInv` where
  a reported success may stand, `CountInv` that an attempt has opened at most once and
  reported a panic at most once. All three hold only while the connection does; after
  that nothing arrives. Lemmas `AppendCounts` and `AppendStops` say what one more frame does.

`RetryStackProofs`, for any retry counts and any body (`ExecuteAssumption`,
`StackAssumption`): `Typing`, `Ordering` (`FallbackOrder`), `Causing`
(`TruncationHasCause`), `Budgeting` (`TotalBudget`). `LoopInv` bounds attempts and routes at
each place; `OrderInv` has every past request before the one that is next; `CauseInv` has a
read behind a body that is no longer whole; `BudgetInv` counts the requests of this call of
`Execute` by attempt and route and those of earlier calls by the product.

`ServerProofs`, for any finite set of requests: `Typing`; `Accounting`
(`CountersAddUp`) by a balance of cardinalities that each step moves by one on both sides;
`NoGhosts` (`ScrapeShowsNoGhosts`), whose `SeenInv` bounds what a scrape has read by what
the counters hold now, the scrape itself still being in flight; `Graceful`
(`ExitIsGraceful`).

The end of `ChatStreamProofs` is about `FlushThrottle`, for any streams and intervals
(`FlushAssumption`): `ThrottleTyping`, `Waiting` (`ChunksWaitAtMostABeat`) and `Holding`
(`HoldsFollowFlush`). Of the strengthening, `FlushInv`, `BeatIsDue` says that the next beat
of a stream is never more than a heartbeat after its oldest held chunk, nor in the past, and
`StampIsBacked` that no stream stores a time later than the last flush. `Waiting` would hold
for any use of `lastFlushTime`; `Holding` is about that.

`ModelMappingProofs`, for any names, hard-coded mapping and pairs
(`MappingAssumption`): `Typing`; `Configuring` (`ChatsGoWhereConfigured`), with the loop
invariant that the mapping holds the last passed pair of every name; `Offering`
(`OfferedIsUsable`), which the cached list must satisfy too; `Naming`
(`ReplyLeadsBack`), by the lemma `ReplyNamesLead` about what one and two lookups can find.

`TokenUsageProofs`, for any prompts, figures and bounds (`UsageAssumption`) and texts of
any length:

- `CountingByPosition`: the single pass of `countTokens` counts what `TokensByPosition`
  defines. `AtLeastOne`: its floor of one token never bites.
- `Typing`, `Estimating` (`EstimateIsByPosition`), `Billing` (`ModesCountAlike`),
  `Spanning` (`UsageSpansAttempts`), from the invariant `UsageInv`. No two of its parts
  stand alone: `CounterInv` ties the fields of the counter to the sum over the attempts and
  to the prompt, `ToldInv` the usage last told to the counter at that place, and `ModesInv`
  splits the count of the lines into that of the content and that of the reasoning, with
  the words that line ends have cut so far. `ModesCountAlike` forgets where words were
  cut, and so says too little of the answer that the next line is added to.

What a loop computes for every text is an induction over data, for which the library has
only theorems about an operator, out of the provers' reach. `SetInduction` is about a
*set* of numbers instead (with 0 and closed under successor, it is `Nat`; from the
well-foundedness of `<`), and each induction instantiates it with a set comprehension.
`FoldExists` unrolls `FoldLeft` of the community modules into the sequence of its
intermediate results, by the same induction over the finite sets of positions it is
defined on; `CountLoops` and `TotalLoops` are its two uses, and everything else is about
such a sequence of states, as it would be about the states of a loop.

That a request ends has two halves. One is safety, and proved: `Descending` in
`RetryStackProofs`, `ChatSyncProofs` and `ChatStreamProofs` gives a natural number that is
known at the start and that every step lowers. It counts the places ahead in an attempt and
those of each attempt left; in a stream also the lines, the heartbeats and the end of the
connection. So no sequence of failures, retries, recovered panics and broken connections
leads back to where a request was:

| Theorem | Rank at the start | Steps that do not lower it |
|---|---|---|
| `RetryStackProofs!Descending` | `(6 * Retry + 2) * Retry + 1` | none |
| `ChatSyncProofs!Descending` | `4 * Retry + 14` for each request | those of other requests, and evictions from the cache |
| `ChatStreamProofs!Descending` | `(2 * MaxLines + 14) * Retry + 2 * MaxBeats + 7` | none |

The bounds on lines and heartbeats are the model's, those on attempts the code's.

Only model-checked: the other half, that a request which has not ended can take a step and
does, for ENABLED and fairness are out of the prover's reach (`EveryRequestAnswered`,
`WorkersEnd`, `StreamEnds`, `StackEnds`), and all of `SignalEndsProcess`.

## Not modelled

- A second panic, while the first is being reported, and one in the heartbeat goroutine:
  nothing recovers it there and the process ends.
- Contents of answers, model options, wording, logging.
- Connection pool: `NewConnPool` stores options; what would count connections has no caller.
- The set-up of the HTTP client: how `SetProxy` makes a transport of an address. The static
  and the direct route share that transport; TLS, pool sizes and headers are constants.
- HTTP response: reads a body once and decodes it; no state beyond that.
- Response cache: `Enable`, `Disable` and its statistics have no caller in the program.
- Modelled, though the program does not use it: `Enable` of the limiter and `Stop` of the
  cache have no caller, and `Disable` runs only before the limiter is shared
  (`handler.go:211`). `TokenBucket` and `Cache` let them happen at any time, as their
  exported methods allow. That a second `Stop` would wait forever is thus no concern here.
- Configuration apart from `MODEL_MAPPINGS`: straight-line reading of the environment.
- A listener that fails to start: the process exits at once.
- Ids, models, errors, log, response writers: literals, random strings, data types, output.

## What could follow

1. `ChatSync` composed with `Cache` in place of its table, as a refinement of the table.
2. The lifetime of the model list in `ModelMapping` by the clock of `Cache`, in place of
   its nondeterministic expiry.
