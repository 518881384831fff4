# TLA+ models of pieces-os-go

`pieces-os-go` is an HTTP server that offers the OpenAI chat-completion API and
answers from two gRPC services, one for GPT models and one ("Vertex") for the
others. This directory holds specifications of it from the router to the gRPC
call, their TLC configurations, and proofs checked by TLAPS.

## The system

A request passes, in this order (`src/cmd/server/main.go`), the logger, CORS,
the timeout middleware, the rate limiter with its blacklist, optionally
authentication, for `/chat/completions` a second, strict rate limiter, and the
chat handler. The handler decodes the request and asks the chat service for an
answer or for a stream; the chat service asks the gRPC service, which takes a
connection from one of two pools.

| component | state | operations | what makes it correct |
|---|---|---|---|
| connection pool (`service/grpc.go`) | a buffered channel of connections, an atomic count | `newConnectionPool`, `getConnection`, `returnConnection`, `autoScale`/`scale` every 30 s | a connection is with one call at a time, open while used, never lost; the count stays usable; callers are answered |
| stream (`grpc.go`, `service/chat.go`, `handler/chat.go`) | two unbuffered channels, an error channel of one, three goroutines | receive, forward, write, cancel, fail | order and completeness of what the client reads; no goroutine left behind |
| gate (`cmd/server/main.go`, `middleware/auth.go`, `cors.go`, `handler/chat.go`, `handler/models.go`) | none of its own; the configuration | CORS, routing, authentication, `WithModel`, the model list | no completion without the key, none on the standard path without the strict limiter; a model route serves its model |
| completion (`service/chat.go`, `grpc.go`, `model/models.go`, `pkg/tokenizer`) | the request (whose model is overwritten), the loop variable | resolve the model, build the upstream request, call, count, retry | the whole conversation is sent and counted, under a listed name; transient errors are retried |
| rate limiter (`middleware/ratelimit.go`) | per address: `firstSeen` and a count per rule | check and count, hourly cleanup | every enabled rule holds |
| blacklist (`middleware/blacklist.go`) | lists, violations, an RWMutex, a file | `IsBlocked`, `RecordViolation`, `saveToFile`, `loadFromFile`, daily cleanup | nobody is refused without a cause; what is listed is saved; nobody waits for ever |
| timeout middleware (`middleware/timeout.go`) | one context, a `written` flag, the response | wait, time out, write | one response, from one author, in time |
| logger (`middleware/logger.go`) | a shared `bufio.Writer`, `logMutex` | a line per request | each line once |
| health counters (`handler/health.go`) | four atomics | increment, reset in pairs, load one by one | the API figures reported fit the totals |
| configuration, byte-pair encoding, generated code | | | only where the above touch them; see the end |

Interactions: the middleware chain is nested calls, except that the timeout
middleware runs everything inside it in a second goroutine; handler, relay and
pump of a stream talk through channels; requests and `autoScale` share the
pool's channel and count; requests share the maps of the limiter (one mutex)
and of the blacklist (another), the log's writer and the counters.

What is hard: check-then-act on the pool's count; a count and a channel
updated in two steps; a return that closes; selects with several ready cases;
contexts that end at any step; two goroutines writing one response; a lock
taken twice; counters shared between rules. `PROJECT.json` lists each of these
at its line under `hazards`.

## The modules

- `PoolSizes` holds the sizes of a pool and what is assumed of them, for the
  modules about pools.
- `ConnectionLeases` is the abstract specification of a pool: idle connections,
  leases, and what may happen to them. It knows no queue and no count.
- `ConnectionPool` is the pool of `grpc.go`. A step is one access to shared
  state: one channel operation, one atomic load or add. `queue` is the channel,
  `open` the connections created and not closed, `pc[r]`/`conn[r]` a request,
  `spc`/`size`/`todo` the `autoScale` goroutine with its stale local. The
  request's points are the two selects and the load between them; a stream
  returns its connection when it is opened and stays `"streaming"`. The mutex
  of `scale` is only ever taken by the one goroutine and is left out.
- `PoolCounts` is the same pool without identities: how many connections are
  queued, how many requests stand at each point. It is the accounting that
  `ConnectionPool` implements, and makes the real sizes 5 and 20 checkable.
- `StreamDelivery` is the abstract specification of a streamed answer: a prefix
  of the content in order, a role on the first chunk only, a stop chunk and
  `[DONE]` after all of it, at most one end.
- `StreamPipeline` is one stream. `PumpToRelay` and `RelayToHandler` are the
  rendezvous on the unbuffered channels; `"closed"` and `"done"` are the
  deferred closes. The two pumps differ in two places, which `backend` selects.
- `Models` is the list of models and its names, reduced to family and way of
  writing the date.
- `Completion` is one request from `HandleCompletion` on: every conversation
  over the roles (`""` included), the folding of messages, the settling of the
  model, the loop around the attempts (a stream has one), the call, and which
  messages are counted. An error has the status that `shouldRetry` looks for
  and the text that the client reads; `Wrap` keeps only the second.
- `Gate` is the way there: CORS, the global limiter (which refuses or not),
  chi's choice of a mount, `Auth`/`AdminAuth`, the strict limiter, `WithModel`.
  The mounts are computed as `main` adds them: the API prefix, one per model
  and per legacy Claude name, the paths of `getFoolproofPaths`, `/admin`. Each
  part of a request is picked at the step that first reads it, and `Call`
  forgets what the handler does not see, which keeps the composition small.
- `Request` composes `Gate` (by `INSTANCE`) with `Completion`: the model that
  `WithModel` writes is the one `HandleCompletion` decodes.
- `Logger` is the logger around several requests: the four additions of
  `IncrementCounter`, the two stores of each reset, the four loads of
  `HealthCheck`, if that is what a request is for, then the line. Writing is
  split where `bufio.Writer` reads and writes its memory (`Copy`, `Count`,
  `Flush`, `Forget`), so that the log package can come in between when it
  shares the writer. `straddled`, `slack` and `order` are history: whom a reset
  came between, how far a report may be off, who had the lock when.
- `RateLimiter` is one limiter and its blacklist. The section under
  `RateLimiter.mu` is one step that goes through the rules in any order, as Go
  iterates over maps. Sections that read the blacklist are one step that needs
  no writer to hold the lock; `RecordViolation` is split where it calls
  `saveToFile`. `served` is a history variable. Time is counted in ticks and
  does not pass inside a section. `Restart` ends the process at any point and
  starts it from the file, which is lines written by hand (`HandWritten`) until
  `saveToFile` writes its array; as `NewBlacklistManager` ignores the errors of
  `loadFromFile`, any part of the lines may be all that is loaded (`Readable`).
- `Timeout` is one request under the middleware: the waiting goroutine, the
  handler's goroutine and the accesses of both to `rw.written`, to the
  logger's `wroteHeader` and to the connection. Most handlers call
  `WriteHeader` first; `HealthCheck`, `Ping` and `ListModels` do not, and
  net/http sends the header (`PutBody`).
- `ChatResponse` composes `StreamPipeline` and `Timeout` into one request from
  the middleware to the wire: a stream that is not under a limit runs the
  pipeline inside the middleware, each event the handler writes is a chunk on
  the wire, and its return is the return of the chain. All other requests have
  one thing to say, and the pipeline does not start.
- `MC...` modules give the constants values that a cfg cannot express.
- `ConnectionPoolProofs`, `PoolCountsProofs`, `StreamDeliveryProofs`,
  `StreamPipelineProofs`, `ChatResponseProofs`, `RateLimiterProofs`, `LoggerProofs`
  and `RequestProofs` hold the theorems about the module each is named after.

Every module keeps a few faulty variants of its operations ("A faulty ..."),
not used by any specification. Each property has been seen to fail when the
variant listed for it under `mutants` replaces the operation.

## The runs

Passing:

| run | asks | bounds |
|---|---|---|
| `pool` | are leases exclusive (`ExclusiveLease`), open (`PooledConnsOpen`) and never lost (`NoOrphans`); does the count cover the connections (`CountCoversLive`), stay bounded (`CountBound`) and only drift upwards (`DriftNeverHeals`); is every caller answered (`GetterAnswered`); does the pool implement `ConnectionLeases` and `PoolCounts` | 2 requests, sizes 1 and 2, 5 identities |
| `chat` | content in order and complete before `[DONE]`; all three goroutines end when the context does, and the whole request is over when the gRPC stream is (`StreamIsOver`); they implement `StreamDelivery` (`ImplementsDelivery`: stop chunk and role as well); an answer is whole unless the context ended (`CompleteUnlessEnded`); silence only if the deadline fell into the answer (`SilentOnlyMidAnswer`); a limited request returns | 1 request, 3 messages with content, hence 5 chunks |
| `rate_limiter` | the shortest window is enforced up to the usual factor of two (`ShortWindowBound`), a rejection has a cause (`RejectionEarned`), nobody is refused without a cause, across restarts and read errors (`RefusedForCause`), requests are answered unless a handler is in `saveToFile` | 2 handlers, 2 rules, 4 addresses, threshold 2 |
| `request` | nothing is served without its key (`KeyBeforeService`), the standard path stays strict (`StandardIsStrict`), a model route is never told "no such model" nor served by the default (`RouteModelServed`); what is sent upstream is complete, merged as intended, counted (`CountedIsSent`) and well named | 8 configurations, 4 model names in the list, 3 messages, 9 names in a body |
| `logger` | what `HealthCheck` reports of the API exceeds the totals it reports by no more than the resets before it and the requests during it make out (`ReportBounded`); each line is written once, in order, until a write fails (`LineWritten`) | 2 requests, 2 resets, 1 line of the log package |

Two requests and a channel of two let every pair of operations meet at every
step, fill and drain the channel, and make the check at line 117 overtaken;
five identities are enough for a fresh one always to exist (`EnoughConns`).
Larger numbers are left to `PoolCounts`. Three messages are a first, a middle
and a last one; `ChatAssumption` makes the chunks of `Timeout` enough for all
that the pipeline may write. In `RateLimiter` five ticks cover a long
window and two short ones, and the threshold of two is met by one address
after both handlers have had their turn; the four addresses are the one that is
served, two on the whitelist, one in its subnet and one in the file, and one in
the configuration that is no address.
Three messages in `Completion` make every pattern of two neighbours and what
stands between; the list has a GPT model, one that is repeated and a Claude
model with a date. Paths asked for are, under each mount, what any mount
serves. Two requests and two resets let a reset fall between any two additions
of one request or two loads of the other, and a second reset end what the first
began. The counters and the writer of `Logger` share no variable, so the
constraint `Apart` lets the resets and `HealthCheck` happen only in the half of
the run that has no `LOG_FILE`: with it, the run follows the writer alone.

Violated, each contradicting a sentence of the repository (`findings`):

| run | what TLC finds |
|---|---|
| `stream_keeps_connection` | a stream is received over a connection that was returned when the stream was opened and then closed as surplus or by `scale(false)` |
| `pool_dies` | after bursts of requests the pool has no connection, `currentSize` says that it is full, and nothing ever changes that |
| `stream_error` | a failed stream ends with `[DONE]`, its error unread or only logged by the pump |
| `rate_rules` | a burst rule with a short window erases the counts of the default rule, through the `firstSeen` they share |
| `blacklist_save` | the handler that reaches the threshold waits for a lock it holds; nothing is saved, a restart has forgotten it, and until then nobody passes the blacklist again |
| `timeout_mixed` | the body of the handler follows the header of the timeout error |
| `retries` | a call that failed with `Unavailable` is reported as failed at the first of two attempts |

`pool_dies` runs `PoolCounts` at the sizes of `NewGRPCService`, 5 and 20, with
80 requests at once; no line of the code limits how many there are. Its
constraint `Burst` only picks out an order of steps in which TLC finds such a
pool within seconds. A pool of sizes 1 and 4 is dead after 11 requests already.

Facts the models make visible that are stated as passing properties:
`currentSize` never recovers from a closed surplus connection
(`DriftNeverHeals`); a message without a role is dropped on its way to Vertex
(`ContentKept`); an address on the whitelist is blocked all the same when a
neighbour in its subnet offends (`RefusedForCause`); a client may be dismissed
with an empty response, when the deadline falls between the handler's setting
of `written` and its first write (`SilentOnlyMidAnswer` says only then).
`CountBound` bounds `currentSize`, not by `maxSize`: the check at line 117 and
the loop at line 923 are both overtaken, so that the pool may hold more
connections than "最大连接数" says.

Other consequences of the code, met on the way and not stated as properties:

- `cleanupViolations` deletes the entries whose count is zero, and no entry is:
  `CleanupViolations` changes nothing in any reachable state. The comments at
  `blacklist.go:85` and `:307` say that violation records are cleaned every 24
  hours and those older than 24 hours removed. The code keeps no time with a
  violation, so there is no state of which that age could be said.
- `MAX_RETRIES` of zero or less makes `CreateCompletion` refuse every request
  without a call (`GiveUp`).
- Entries written by hand survive a restart only because `saveToFile` never
  completes: it writes one array, and `loadFromFile` reads one object a line.
- A streamed request under a timeout, which is the default, gets an error,
  because `timeoutResponseWriter` is no `http.Flusher`: `Respond` and
  `WriteChunk` in `Timeout` and `NoFlusher` in `Completion` have that as a
  guard.
- The rule "strict" is among `cfg.RateLimits`, so that the global limiter
  applies it to every route when it is enabled; the model routes and the
  foolproof routes do not pass the strict limiter itself.
- With `LOG_FILE` a `Flush` during which the log package counts a line takes
  it for a short write, and the `bufio.Writer` fails from then on (`Forget`).
- `MIN_POOL_SIZE`, `MAX_POOL_SIZE` and `SCALE_INTERVAL` are read and not used.
- `API_PREFIX=/` leaves an empty prefix, for which chi's `Route` panics;
  `Request` assumes one (`PrefixAssumption`).

Deadlock checking is off where the modelled system comes to an end
(`ChatResponse` and its parts, `Request`: one request; `Logger`: a few) or may
stop (`RateLimiter`: the clock's bound, and the lock).

## Fairness

- `ConnectionPool`: weak fairness of each request between asking for a
  connection and getting one or the timeout (the scheduler, the 5 s timer), and
  of `autoScale` (its ticker). None for the end of a call or stream, so
  `GetterAnswered` holds even if connections never come back.
- `StreamPipeline`: weak fairness of the goroutines' steps. `Recv` must return
  only when the context is done, which gRPC guarantees; a silent stream may
  stay silent.
- `RateLimiter`: strong fairness of the steps that take the blacklist's lock
  (Go's mutexes do not starve a waiter), weak fairness of the others.
- `Timeout`: weak fairness of the timer, the middleware and the handler's
  writes; none of the handler's work, which may block on the blacklist.
- `ChatResponse`: the fairness of its two parts, each step for the reason it
  has there. The handler of a stream is one of the fair goroutines of the
  pipeline, so its return is fair as well.

## What is proved

All theorems hold for every value of the constants that satisfies the named
assumptions of the module.

`ConnectionPoolProofs` (from `SizesAssumption`, `RequestsAssumption` and
`ConnsAssumption`). The
inductive invariant `PoolInv` adds one conjunct to the invariants of the run:
`LoopBusy`, that the counting steps of `scale` only occur with an iteration
left. `ExclusiveLease`, `PooledConnsOpen` and `NoOrphans` are inductive only
together: a connection that is handed out must not be held (exclusive), a
connection that is created must not be anywhere (`InUse` contains `open`), and
one that is closed must leave both sides. Actions are grouped by what they do
to the books (take the head, take a new one, hand back, no change), with one
lemma each, so that the case split over `Next` is short.
`PoolTypeCorrect`, `LeasesAreExclusive`, `PooledAreOpen`, `NothingOrphaned`
are its conjuncts. `PoolImplementsLeases` maps `idle` to the queue's contents
and `lease` to the leased connections, and shows that every step is a step of
`ConnectionLeases` or a stutter, using `PoolInv` for freshness.
`DriftIsForGood` counts the open connections: they are finite, because
`PoolInv` places each of them in the channel or with a request, and every step
that closes one finds it open and every step that opens one finds it new. The
one branch that would lower the surplus, a connection found shut down, is not
taken, by `PooledConnsOpen`. `PoolImplementsCounts` counts the requests at each
point: a request that moves leaves one number and enters another
(`MoveFacts`), and while it is idle there is room for it (`RoomFacts`, a sum of
disjoint sets). What `PoolCounts` says of large pools is therefore said of
`ConnectionPool`.

`PoolCountsProofs` (from `SizesAssumption`, for every natural number of
requests). `CountCovers`, `CountBounded` and `CountsTypeCorrect` follow from an
invariant that bounds `currentSize` together with the requests past the check
and the iterations left to `scale`. `DeathIsFinal` shows that no step of a
request or of `autoScale` leads out of the state that `pool_dies` reaches.
`PoolCountCovers`, `PoolCountBounded` and `PoolDeathIsFinal` in
`ConnectionPoolProofs` say the same of the pool itself, by
`PoolImplementsCounts`.

`StreamPipelineProofs` (from `PipelineAssumption`). `ContentInOrder` is not
inductive: whether the next chunk written is the right one depends on what the
pump and the relay hold. `PipelineInv` therefore says what is under way
(`Flow`): as long as the context is alive and the handler writes, the chunks
written and those held, from the handler back to the pump, are all that was
received, in this order. A cancellation breaks that, for each goroutine drops
what it holds, and is why the handler looks at the context before it writes;
`Flow` is only needed until then. `Places` relates where a goroutine stands to
what it holds, `RelayAfterPump` that without a cancellation the channels are
closed in the order of the pipeline. `ContentArrivesInOrder` and `DoneComesLast`
are consequences. `PipelineImplementsDelivery` shows, one lemma for each
goroutine, that every step is a step of `StreamDelivery` or a stutter: only
receiving, writing, returning and the end of the stream are seen.
`StreamDeliveryProofs` shows what that abstraction promises (`Orderly`).

`ChatResponseProofs` (for every `MaxChunks`). `TimeoutInv` adds what is on the
wire at each point of the handler while it is undisturbed (`SentSoFar`), and
that `written` is set before anything of an answer is (`Marked`), which is why
a middleware that finds it unset may answer itself, and one that finds it set
either leaves something on the wire or a handler about to write.
`AnswersAreComplete` and `SilenceIsMidAnswer` follow. `ChatIsBoth` shows that
each step of the composition is a step or a stutter of the pipeline and of the
middleware, and `ChatIsSafe` that what is proved of either holds of the whole
request.

`RateLimiterProofs` (from `RateLimiterAssumption`: any rules, limits, windows,
addresses and subnets). The loop over the rules is a fold in an order that Go
does not fix. `ChainExists` and `FoldSteps` turn it into a chain of steps,
`LoopInv` is the invariant of the loop, for the rules it has done, and
`JudgeResult` what it comes to: either no window was over and every count is one
higher, or some window was over and every count is at most one, or a rule was
exhausted. `ShortWindowBound` is about the history, and its inductive invariant
`WindowInv` relates that to the visitor: for a rule with the shortest window,
what was served since the visitor's `firstSeen` has been counted, nothing was
served after the end of this window, and what was served just before it is
within the limit as well (`Fits`); when the cleanup has forgotten a visitor,
what was served within the last window is (`FitsWithout`). Any stretch as long
as the window lies in two such windows (`TwoWindows`). That the other rules
reset the counts early does no harm to the shortest window, for by then it is
over as well. `RejectionsAreEarned` needs the opposite (`Earned`): the counts
are no higher than what was served, unless that has reached a limit already.
The same invariant takes care of the requests that were rejected after some
rules had counted them. `RefusalsHaveCauses` says what the two lists consist of
at any time (`ListsInv`): the configuration, the part of the file that was read
when the process started (`ListsFrom`), and the offenders. It needs that the
file stays as the operator wrote it, which it does because a handler that
reaches `saveToFile` holds the lock itself.

`LoggerProofs` (from `LoggerAssumption`: any number of requests, ticks and
lines). `MutexInv` is mutual exclusion by `logMutex`; `FillInv` bounds what the
writer holds by the requests that are through and the lines of the log package,
so that the memory is never overrun. `CoverInv` says that what `api` holds and
the requests between their two additions are covered by `total`, which counts
them already, and by `straddled`, which the reset put them in. `ReportInv`
carries that over to a `HealthCheck` between its two loads of a window: what it
has loaded, with the requests it has missed since, covers what it may still
find. `ReportIsBounded` is `ReportInv` after the second load.
`LinesInv` says for `LineWritten` where the one missing line is at each point of
the request that holds the lock (`OwnLine`).

`RequestProofs` (from `ModelsAssumption`, `CompletionAssumption` and
`PrefixAssumption`) is about the composition. `CompletionInv` says that
nothing has been sent before the one call, since every error an attempt ends
with ends the request (`FailReturns`; `NothingIsRetried` states it), and that the name is settled before a
connection is asked for. `GateInv` says what a request has passed at each
point, and that its mount is one of `main`'s with a prefix of its path; that
needs a mount with the longest prefix to exist, which is proved from the
lengths being bounded (`OwnerIsMount`). `StandardPathIsStrict` then is a
matter of lengths: a model mount is longer than the API prefix by its slug and
serves only what ends with two segments, and the foolproof mounts leave the
standard path out. `RouteServesItsModel` has the hypothesis `ListIsNormal`,
that the list writes the date of a Claude model with `@` as
`cloud_model.json` does; the instance that TLC checks satisfies it. Its
invariant follows the name from the mount through `WithModel` into `req.Model`,
which the completion only changes from one writing of it to the other.

`RequestTypeCorrect` adds the types to both invariants: that the loop variable
stays below `MAX_RETRIES` is a consequence of its never leaving 0, and that the
mount is one of the configuration one of the router's.

The messages are the second half of `RequestProofs`. The loops that build and
count them are folds, and the operator that folds is not one the provers can
do an induction on, so `ChainExists` builds by induction the chain of states
that such a loop goes through, once for all three loops, and `ChainSteps` reads
it. The invariants of the loops, over the messages read so far: `Told` (for
Vertex, nothing that has a role is left out or there twice), `Listed` (for GPT,
nothing at all is) and `Apart` (for Vertex, two neighbours of one role have a
message without a role between them, and so has the last of them and the piece
that is still being merged). `Faithful` is the invariant of the request: the three properties,
and that while a call is under way, what it sent is `BuildRequest` of the
settled model, so the count, which is made after the call from the same
messages, is of what was sent. `ContentIsKept`, `VertexTurnsAlternate` and
`UsageIsOfTheCall` follow, for conversations of any length.

Only model-checked: liveness (`GetterAnswered`, `NoGoroutineLeft`,
`StreamEndReturns`, `StreamIsOver`, `AnsweredUnlessSaving`, `LimitedReturns`), which is out of
reach of the prover, as is what it rests on, when an action is enabled.

## Not modelled

- `closeAll`/`Close`: nothing calls them. `HandleBlacklist`, `GetStats`,
  `GetTimeoutStats`, `WhitelistOnly`: not routed.
- The two blacklists (of the global and of the strict limiter) on one file,
  which would matter if `saveToFile` completed; two pools at one address.
- What the byte-pair encoders count, IDs and timestamps, CORS headers, the
  parsing of environment variables, the text of errors, generated code: no
  state, or none that another component reads.
- Panics, and what net/http does with writes after a response is finished. The
  header map is one of them: `w.Header().Set` in `writeTimeoutError` and in the
  handler are not synchronized, and two writes to a Go map at once may end the
  process; short of that, the header of either goroutine is sent.
- The answer 500 of `WithModel` for a request that cannot be encoded again: it
  has just been decoded from JSON, and what JSON decodes to can be encoded.
- Liveness of `Request` and `Logger`: what they wait for is a call without a
  deadline of its own or a write to the output.

## Plan

1. Two pools side by side, for two services at one address: a connection taken
   from the pool for Vertex and returned to the one for GPT.
