# AgentHub Skill Runtime: TLA+ models and proofs

The repository is an HTTP service written in Go (`cmd/skillruntime`,
`internal/`) that executes "skills" and "tools" on behalf of agents: it
authenticates a request against Keycloak, resolves a slug to a tool of the
tenant, and invokes the tool's executor with retries, a timeout and a circuit
breaker. An older Java (WebFlux) implementation of the same service lies beside
it under `src/main/java`; the Dockerfile builds the Go one. Paths in this text
are relative to the repository's root.

Contents: [inventory](#inventory), [modules](#modules), [runs](#runs),
[bounds](#bounds), [fairness](#fairness), [proofs](#proofs),
[findings](#what-the-code-and-its-documents-disagree-on),
[what is not modelled](#what-is-not-modelled), [plan](#plan).

To check: `tlc -config <run>.cfg <module>` for a run of the table below, and
`tlapm <module>Proofs.tla` for the proofs.

## Inventory

One request travels

    client -> Auth (jwksCache, Keycloak) -> handleExecuteSkill / -Tool
           -> SkillResolver (database) -> Registry -> ToolInvoker.Invoke
           -> one ToolExecutor, 1 to MaxRetries + 1 times -> status and body

in the goroutine net/http started for it. Requests meet in three places only:
the map `jwksCache`, the connection pool, and the database they read while the
admin API writes it. `ToolInvoker` is built to be a fourth (its counter is
atomic), but the server makes one per request.

| Component | State | Operations | Interacts by | What is hard | What makes it correct |
|---|---|---|---|---|---|
| **ToolInvoker** `internal/invoker` | `failures` (atomic), the loop variable, the attempt's context | `Invoke`, `attemptOnce`, `RetryDelayForAttempt` | calls an executor, is cancelled by its caller | concurrent Load, Store and Add; `select` between timer and cancellation; a retry of what was already done | the counter never runs ahead of the failed calls; success and permanent errors are not repeated; answers fit executions; the breaker trips |
| **Deadlines** `internal/invoker`, `cmd/skillruntime` | durations | backoff, per-attempt timeout, write timeout | three timeouts chosen apart | truncation, the width of a Duration, cap, sum of attempts | delays grow to the cap; attempts below a known length are answered |
| **SkillResolver** `internal/executor/resolver.go` | none | `ResolveSkill` (up to three queries), `ResolveTool` | reads what the admin API edits | edits between queries; a failed query taken for a missing row | the documented order; only active tools |
| **Auth and JWKS cache** `internal/middleware/auth.go` | `jwksCache` under `jwksMu` | `fetchJWKS`, `Auth` | shared by all requests, fetches from Keycloak | concurrent fetches, overwriting, rotation, a hanging peer | bounded staleness both ways; every request is decided |
| **Execute pipeline** `internal/server`, `recovery.go`, `registry.go` | the request | both execute routes, `Recovery` | composes all of the above | error to status; cancellation; a panic | a refusal never executed; a 200 is the last execution; an answer in the end |
| **MCP executor** `internal/executor/mcp` | process, two pipes, `nextID` | `Execute` over stdio or HTTP | JSON-RPC with a process | full pipes, crashes, unasked messages, killing, helpers | the answer belongs to the call; the tool is called in an accepted session; the end of a call takes down what it can |
| **HTTP executor** `internal/executor/http` | none | `Execute`, `parseHTTPConfig`, `appendUnusedInputAsQuery`, SSRF filter | an HTTP request, and those of the redirects it follows | aliases and units in the config; what the template used against what goes into the query; redirects and repetitions | every input arrives once; how often an attempt can have an effect; a timeout is kept |
| **SQL executor** `internal/executor/sql` | none | `Execute`, `renderInputTemplate`, `collectRows` | two connections | numbering of placeholders; a read that breaks off | each hole is bound to its input; rows are complete up to the limit |
| **Script executor** `internal/executor/script` | an interpreter | `Execute` | timer and context watcher | interrupting an interpreter; the input shared with the retry | it ends with its context |
| **Document search** `internal/executor/docsearch` | none | `Execute`, `Embed`, `searchChunks` | embedding service, database | defaults, thresholds, a read that breaks off | the best matches, all of them |
| **AI providers** `internal/ai` | registry under a lock; streams | `Register`, `Get`, `Chat`, `ChatStream` | a goroutine and a channel of 32 per stream | a caller that leaves; a stream cut off between two lines; a conversation that changes its provider | chunks in order and once; a cut stream is reported; readers are released; the caller's system text governs; calls stay linked to their results |
| **Lifecycle, pool, config** `cmd`, `internal/database`, `internal/config` | process state, connections | start, drain, close, exit | signals; every request uses the pool | drain shorter than a request; requests waiting for each other's connections; closing under late requests | a drain that returned nil loses nothing; every waiter is served; a signal ends the process |
| **Legacy Java runtime** `src/main/java` | ThreadLocal tenant, registry | invoke with retry, validate | Reactor threads | context across threads | (not modelled) |

The hazards, each with its line in the code and the properties that cover it,
are listed in `PROJECT.json`.

## Modules

| Module | Models | Correspondence |
|---|---|---|
| `InvokeContract` | what `Invoke` promises a caller | abstract: phase, number of runs, answer |
| `Invoker` | `ToolInvoker.Invoke`, any number of concurrent calls | `failures` is the atomic counter per `*ToolInvoker`; `pc`, `attempt`, `ret`, `expired`, `ctxDone` are the goroutine of a call, its loop variable, the returned error class and the two contexts. `RejectOpen`/`Admit` are lines 95-110, `ExecuteReturns`/`AttemptTimeout` are `attemptOnce`, `Succeed` ... `CancelledInBackoff` the branches of the loop. `runs`, `streak`, `due` are histories. |
| `MCInvoker` | instances | calls on one shared invoker; calls with one each |
| `InvokerProofs` | proofs | see below |
| `SkillResolver` | one call of `ResolveSkill`/`ResolveTool` during edits | `binding` is `skill_tool` (no row, inactive, or rank), `coreActive` the active rows of `ah_core.tool`; one action per query; `FallBack` is the `if err == nil` falling through, for a missing row and a failed query alike; `EditBinding`/`EditCore` are one committed edit |
| `MCSkillResolver` | instance | slugs shared by a skill, a tool and a core tool |
| `ResolverProofs` | proofs | see below |
| `JwksCache` | `fetchJWKS`, the cache, the choice of the key | `cache` is `jwksCache`; `Fresh`/`CacheHit` the read under the lock, `StartFetch`, `Respond` (Keycloak), `Store` the write under the lock, `FetchFails` every error return, `Candidates` the key function of `jwt.Parse`; `Publish`/`Retire` rotate keys, `Tick` is time |
| `JwksProofs` | proofs | see below |
| `SkillRuntime` | a request from `Auth` to its status code | `INSTANCE Invoker` with one invoker per request, its actions taken only in stage "invoke"; `Auth`, `ParseBody`, `Resolve`, `Dispatch`, `Respond`, `Panic` are the handler's steps with their early returns; `ExecutorReturns` says which error classes each executor produces |
| `RuntimeProofs` | proofs | see below |
| `Tools` | what the executors have in common | the registered types, the shape of a tool row, and which error classes each executor returns (`ExecutorReturns`) |
| `HttpTool`, `SqlTool`, `DocSearch` | the pure part of three executors | operators: `HttpTimeout`, `RawURL`, `Query`, `Authorizations`, `RequestOf`, and `Redirection`, `Repeatable` for what `net/http` does (`internal/executor/http`); `HolesTo`, `NumberAt`, `Args`, `Bound`, `MaxRows` (`internal/executor/sql`); `TopK`, `MinScore`, `Better`, `Matches` (`internal/executor/docsearch`). An address is a set of placeholders, each with the form it is written in; a query is a sequence of holes and `$n`, where a hole has the number of the holes up to it; a row is found if fewer than `TopK` are better |
| `ToolCalls` | one call of `Invoke` with its executor taken apart | `INSTANCE Invoker`; `step` is where `Execute` waits, `acts` the requests or statements handed over, each with its attempt and its place in the redirects followed, `got` the rows read; `Redirected` and `Replayed` are the further requests of an `http.Client`; one action per wait (`HttpAnswered`, `SqlDatasource`, `SqlStatement`, `DocEmbedded`, `ReadRow`, `RowsEnd`, `ScriptEnds`), `Breaks` for every failure of the other side, `ContextEnds` for the end of the attempt or of the caller |
| `MCToolCalls` | families of configs around a plain one | each config answers a question the code asks with a branch |
| `ToolCallsProofs` | proofs | see below |
| `Lifecycle` | `main`, the pool and the requests that share it | `main` is the main goroutine, `drain` what `Shutdown` returned, `waiters`/`holding` the pool (`Acquire`, `Grant`, `QueryEnds`, `Abandon`, `TurnAway`), `stage`/`work` a request as the queries and executions it has yet to do |
| `MCLifecycle` | the kinds of requests | the probe, a lookup of three queries, a query before and after an execution |
| `Deadlines` | the durations of the same loop | exact arithmetic in units of 100 ms; `RetryDelayForAttempt` with a rational multiplier (`Grown`), converted to a Duration of bounded width before the cap is tested (`Converted`); `phase` is where the request is, and `Limit` is when the executor itself gives up: the timeout of an HTTP tool (`HttpTimeout`), 5 s of a script, or else that of the attempt |
| `MCDeadlines` | `DefaultConfig`, the timeouts of `main.go`, eight further backoff configurations, tools with a timeout under each of its names | |
| `ServerProofs` | proofs about `Lifecycle` and `Deadlines` | see below |
| `McpSession` | one call of `MCPToolExecutor.Execute` | `pc` follows `executeStdio`; `stdin`/`stdout` are the pipes with a capacity, `procs` the child and a helper it may have started, `inherits` the pipes the helper holds too; the deferred clean-up is `CloseStdin`, `Kill`, `Wait`, which waits for the child and for stderr, no more; the server is everything the protocol allows (`ServerReads`, `ServerAnswers`, `ServerSends`, `Exit`) |
| `McpProofs` | proofs | see below |
| `ProviderStream` | one call of `ChatStream` of any provider | `pc`, `seen`, `pending` are the goroutine (`Scan`, `Send`, `Close`), `channel`/`closed` the Go channel, `body` what the scanner has not read; `Anthropic`, `OpenAI`, `OpenRouter` say which chunks an event becomes (ollama delegates to openai); `Break` is a lost connection, a cancelled context or the client's timeout, `LongLine` a line the scanner cannot hold |
| `ProviderRegistry` | `internal/ai/registry.go` | `providers` and `defaults` are the two maps; one action, as the lock makes it one step |
| `ChatLoop` | a conversation held with `Chat` | `at` is where the call is; `Ask` is `buildRequest` (`WireAnthropic`, `WireOpenAI`, `WireOpenRouter`, with `convertMessage` for one message), `ApiReplies` the service, `ChatReturns` is `convertResponse` (`CallsOf`, `TextOf`, `mapStopReason`), a text is a sequence of pieces and may be empty, `TakeTurn` the caller, who appends the answer and the results of its calls; the provider may change at every turn |
| `MCProviders` | `ProviderStream` and `ChatLoop` side by side | `mode` says whether a behaviour is a stream or a conversation; the two share nothing, so their states add up |
| `ProviderProofs` | proofs about `ProviderStream`, `ProviderRegistry`, `ChatLoop` and `MCProviders` | see below |

Composition: `SkillRuntime` instantiates `Invoker`, which maps onto
`InvokeContract`. The property `InvokerIsKept` says that the pipeline takes
only steps of `Invoker`. It is checked on an instance and proved for any number
of requests, and the proofs about the pipeline and about `ToolCalls` use it: they
instantiate `InvokerProofs` and cite its invariants as `Loop!LoopInv` and
`Loop!AnswerInv`. `SkillRuntime` sees
authentication and resolution by their results only (`JwksCache` and
`SkillResolver` model how these come about), and an executor by the error
classes it can return (`ExecutorReturns` in `Tools`). `ToolCalls` closes that
gap for four executors: it instantiates `Invoker` too, with its actions for the
return of an attempt, the theorem `ReturnsAreListed` says that they return what
`SkillRuntime` takes them to return, and `ContextEndsExecution` is the fairness
`SkillRuntime` assumes of them. Of an MCP tool `SkillRuntime` assumes no such
thing (`MayStay`), because `McpSession` shows that a helper of its server can
keep `Execute` waiting. `Deadlines` takes the timeout of an HTTP tool from
`HttpTool`. `ProviderStream` and `ChatLoop` stand apart: no handler of the
server uses the providers yet.

Definitions that carry a suffix and a comment "Mutated: ..." are not part of any
specification. They are plausible mistakes, kept next to the definition they
vary; with such a definition in place of the original one, TLC finds the
property that is named for it in `PROJECT.json` violated.

## Runs

| Run | Configuration | Shows |
|---|---|---|
| invoker_shared | `MCInvoker_shared.cfg` | three concurrent calls on one invoker: the counter never exceeds the failed calls (`FailuresAccounted`), the number of executions fits the answer (`RunsFitOutcome`), a call that starts after Threshold failures in a row is refused (`BreakerTrips`), and the loop implements `InvokeContract` |
| invoker_per_request | `MCInvoker_per_request.cfg` | violation: as the server uses it, the breaker never opens |
| resolver | `MCSkillResolver_edits.cfg` | edits between queries and failing queries: an answer of a level means every level before it was empty at some moment of the call or its query failed (`OrderRespected`), and the answer was the first active binding, or an active tool, at some moment (`OnlyActiveTools`) |
| jwks | `MCJwksCache.cfg` | two workers, one realm: a retired key is accepted for less than TTL + FetchTimeout (`StaleKeyWindow`), a published one refused for less than that (`RotationWindow`), every request is decided (`AuthDecides`) |
| pipeline | `MCSkillRuntime_pipeline.cfg` | every path of the handlers with `DefaultConfig`: a 4xx or 503 never executed, and a 200 is exactly a successful last execution (`StatusFitsRuns`), `InvokerIsKept`; every request is answered or stays for ever in the execution of an MCP tool (`EveryRequestAnswered`) |
| pipeline_mcp_error | `MCSkillRuntime_mcp_error.cfg` | violation: a `Result` with an `Error` is a 200 |
| deadlines | `MCDeadlines_budget.cfg` | nine configurations: delays start at the base, never pass the cap and do not step back as long as the grown delay is a Duration (`BackoffGrowsToCap`); with `DefaultConfig` three attempts of up to 58.1 s, after up to 5 s of authentication and resolution, are answered in time (`ShortAttemptsAnswered`); an HTTP tool is given the time its config asks for, under whichever name, and never a second more (`TimeoutMsIsKept`) |
| tool_calls | `MCToolCalls_executors.cfg` | 260 jobs: an attempt hands over one statement or script, or one request for each redirect it follows, none of them twice but what the transport may repeat, and a permanent error or an incomplete config means that nothing was (`ActsFitAttempts`); every input reaches the upstream once (`InputReachesUpstream`); holes are bound to their inputs (`BoundAsWritten`); a broken read is no success (`RowsAreComplete`); an executor whose context ended returns (`ContextEndsExecution`) |
| sql_parameters | `MCToolCalls_sql_parameters.cfg` | violation: a query with a `$1` of its own runs without an argument for it |
| lifecycle | `MCLifecycle.cfg` | two requests share one connection from start to exit: a drain that returned nil loses nothing (`DrainLosesNothing`), only a late request meets a closed pool (`ClosedPoolNeedsDeadline`), no two requests block each other over connections (`EveryWaiterServed`), a signal ends the process (`SignalEnds`) |
| mcp_session | `MCMcpSession.cfg` | an MCP call against any server: the result is the answer to this call (`ResultIsAnswer`), the tool is called in a session the server accepted (`CalledInSession`), a call that is over is taken down, helpers that listen included (`CallIsTakenDown`), and cancellation ends it unless a helper holds a pipe (`CancelReturns`) |
| provider_stream | `MCProviders.cfg` | a stream whose connection may break between or within lines: the caller receives what was read, in order and once (`StreamIsTranscript`); a cut stream ends in an error, except with openrouter (`CutIsReported`); a caller that reads is released (`ReaderIsReleased`); a caller that leaves after an error strands nothing (`ErrorFreesGoroutine`). A conversation whose provider changes: calls and results stay linked, except with openrouter (`CallsAreLinked`), a system text given as the option or in messages governs at every provider (`SystemGoverns`), the default provider is the oldest of its type (`DefaultIsOldest`) |

`CHECK_DEADLOCK FALSE` is set wherever the modelled work is finite: a call
returns, a request is answered or the clock reaches its bound.

## Bounds

| Bound | Value | Why it is enough |
|---|---|---|
| `Calls`, `MaxRetries`, `Threshold` (Invoker) | 3, 1, 2 | two calls trip the breaker while a third is in flight, already admitted, or waiting; one retry separates first from last attempt. The proofs remove all three bounds. |
| `Requests` (SkillRuntime) | 1, with `MaxRetries` 2 and `Threshold` 5 of `DefaultConfig` | requests share no state in these steps: each has its own invoker. Proved for any number of requests and any limits. |
| `MaxEdits` (SkillResolver) | 2 | there are two gaps between three queries; with two edits a row can also come and go again. Proved for any number. |
| `Skills`, `Tools`, `CoreTools`, `Ranks` | 2, 2, 1, 2 | one slug at all three levels; two bindings of equal or different rank, for one skill or two. Proved for any tables. |
| `TTL`, `FetchTimeout`, `MaxTime` (JwksCache) | 1, 1, 4 | the windows are tight: with either bound lowered by one the properties fail, so the worst overlap of two fetches lies within four units. `Arrive` leaves room for a fetch to time out before `MaxTime`, so the bound cuts no request off. Proved for any values and any number of workers, realms and keys. |
| `PipeCap`, `MaxUnasked` (McpSession) | 2, 3 | the unasked messages fill the pipe and one more blocks its writer; both request ids can be used by the server itself. Proved for any values. |
| `Cap`, `MaxItems` (ProviderStream) | 1, 5 | the buffer of 32 matters only by being full, which one chunk achieves; two or three events before the end let an event be cut off, a send block and a caller leave in between. Proved for any values. |
| `Names`, `Types`, `MaxModels`, `MaxMessages`, `MaxBlocks` (ChatLoop) | 2, 3, 2, 7, 2 | two providers of one type or of two; behind the longer opening, which has an empty system message before two others, seven messages hold an answer with a call and its result, behind the other one two such turns, or one with openrouter that loses its call, before the next request; with two blocks text can stand before, behind or without a call. Proved for any values and any openings that hold no calls yet. |
| jobs, `MaxRetries`, `MaxRequests`, `MaxReplays` (ToolCalls) | 260, 2, 2, 1 | one retry of two separates a first from a repeated attempt; one redirect shows what it repeats and drops, in place of the ten requests of `net/http`; one repetition makes a request happen twice; the configs vary one question at a time around a plain tool, with two inputs, two places in a query, tables of up to three rows against limits of 2 and of the default. Proved for any jobs and any number of retries, redirects and repetitions. |
| `Requests`, `Conns`, `MaxTries` (Lifecycle) | 2, 1, 2 | one connection for two requests is the tightest pool; every pair of kinds meets. Proved for any number, any kinds and any size of the pool. |
| `Timeout` 900, `WriteTimeout` 1800, in units of 100 ms (Deadlines) | the values of `invoker.go` and `main.go` | `Durations` holds an instant execution, one of 28 s, the longest safe one (58.1 s), one just too long, and one that times out; `Preambles` nothing or 5 s, the timeout of the key fetch. Proved for any configurations, durations and timeouts. |
| `MaxDuration` (Deadlines) | 2047 | stands for the 92233720368 units (292 years) of an int64 of nanoseconds, so that two configurations outgrow it within their retries: one from the cap, one from below it. The first is reached in the program after 36 retries with the default delays. Proved for any width. |

## Fairness

No run assumes that an outside party does anything it does not owe.

- `SkillRuntime`: goroutines that can run do (`Handler`, `InvokerRuns`: weak
  fairness), timers fire. An executor returns by itself never; it returns once
  its context has ended (`ExecutorGivesUp`). The executors pass that context to
  `http.NewRequestWithContext` and pgx, and a script is interrupted; nothing is
  assumed of an MCP tool, whose server may leave a helper that holds a pipe
  (`MayStay`). Keycloak's answer is owed because the fetch has a timeout (that is
  `AuthDecides`). That
  the database answers the resolver is an assumption: these queries have no
  timeout but the client's patience.
- `JwksCache`: a worker that can compute does (weak), a fetch ends at its
  deadline (weak, `TimedOut`), time passes (strong fairness on `Tick`, since a
  worker that computes holds the clock back again and again). Nothing on
  `Respond`: Keycloak may never answer.
- `McpSession`: the goroutines of `Execute` and of `exec.CommandContext` run.
  Nothing on the server, and of a helper only that it ends once its stdin does,
  as the stdio transport of MCP demands; this is used only after `CloseStdin`.
- `ProviderStream`: the goroutine runs, a caller that has not left goes on
  reading, and the body ends: `http.Client.Timeout` covers reading it, so `Break`
  is owed even when the server hangs.
  Of an API it is assumed that no two calls have the same id, and nothing else:
  not that it answers, that its reason for stopping is a known one, or that the
  reason agrees with the calls. Nothing is assumed of the caller of `Chat`.
- `ToolCalls`: the goroutine computes, and a context that has ended is noticed
  by whatever the executor waits in. Nobody it waits for need answer.
- `Lifecycle`: the main goroutine and the pool go on, executions end with the
  context of their attempt (except MCP, for the helpers), and the database
  answers a query that has its connection. No signal need come, no client leave.
- `Invoker`, `SkillResolver` and `Deadlines` are checked for safety.

## Proofs

All theorems hold for every value of the constants that the assumptions of the
modules allow (`InvokerAssumption`, `RuntimeAssumption`, `ToolCallAssumption`,
`JwksAssumption`, `ResolverAssumption`, `McpAssumption`, `LifecycleAssumption`,
`DeadlineAssumption`, `StreamAssumption`, `RegistryAssumption`,
`ChatAssumption`): finite sets where cardinalities occur, natural bounds,
nonempty sets where the code has at least one, unique slugs as the schema has,
the shape of a tool row where an executor reads it, and a conversation that
starts without calls. TLC evaluates them all.

Every invariant and every safety property that a passing run checks is also
stated by one of these theorems.

- **`InvokerProofs`**: `TypeCorrect`, `RunsFit`, `NoRetryAfterSuccess`,
  `FailuresAreAccounted`, `OpenIsEarned`, `OpenIsForever`, `SharedBreakerTrips`,
  `ImplementsContract`. The loop invariant ties `runs` to `attempt` at every
  `pc` (one more than the loop variable from the first attempt on); the property
  of `runs` alone is not inductive, because a step of the loop changes
  `attempt`. The counter needs its own invariant: failed calls are finished and
  stay so, hence each `Add` puts one more call into `Counted`, while `Store(0)`
  only lowers the counter; cardinalities come from `FiniteSetTheorems`.
  `SharedBreakerTrips` has the hypothesis that all calls use one invoker. The
  refinement shows that every step of the loop is a step of the contract or a
  stutter.
- **`JwksProofs`**: `CacheTypeCorrect`, `StaleKeysExpire`, `NewKeysArrive`. The
  two window properties speak of a verdict. The invariant `WindowInv` carries,
  for each set of keys under way (in a fetch, in the cache, at a worker), until
  when it can be used and that it was right at some moment less than TTL +
  FetchTimeout before that: an answer is as old as its fetch, a stored entry
  lives TTL longer, and a worker uses what it read before time passes.
- **`McpProofs`**: `SessionTypeCorrect`, `ResultAnswersCall`, `CallsAreInSession`.
  The invariant says of every message in the pipe that a result
  or an error with an id is what the server answered to that request, and ties
  the phase of the session to `nextID`.
- **`ResolverProofs`**: `ResolverTypeCorrect`, `OrderIsRespected`,
  `AnswersAreActive`. `QueriesMeanLegit` shows that a query returns only rows
  that are right for its level and returns nothing only when no row is; that an
  `ORDER BY ... LIMIT 1` over a nonempty set has a first row rests on the
  well-foundedness of the naturals. `Asking` carries the histories: while a
  query is pending they contain what the tables offer and miss now, and every
  earlier level was missed or failed.

- **`RuntimeProofs`**: `PipelineKeepsInvoker`, `PipelineTypeCorrect`,
  `StatusIsHonest`. Each action of a handler either leaves the variables of the
  invoker alone or is one of its steps for that request (`StepOfInvoker`).
  `PipelineInv` then says how far a request has come when its call has begun
  (before stage "invoke" its `pc` is idle and nothing has run) and that its
  status is the one the call's outcome stands for. `StatusFitsRuns` alone is not
  inductive: it says nothing of a request without a status yet.

- **`ToolCallsProofs`**: `ReturnsAreListed`, `ActsAreBounded`, `InputIsNotDropped`,
  `RowsAreAllRead`, `HolesAreBound`, all from `CallInv`. `PlaceInv` says what is
  known of the job at each place where an executor waits, `ActInv` that the acts
  are ordered by attempt and hop, that only a repeatable request has the attempt
  and hop of another, that an attempt which has not acted has none, and that the
  first of each attempt is what the config asks for (`Asked`), `ReturnInv` what a
  success has read. That every hole is bound to its own input counts the holes up
  to a place (`HolesAreNumbered`: no two holes have the same number); that a
  search finds exactly as many chunks as its limit, whenever there are as many,
  counts the better ones (`BestAreFirst`).

- **`ServerProofs`**: of the shutdown `GracefulDrain`, `PoolOutlivesRequests`,
  from `DrainInvHolds`. The main goroutine asks once whether requests are in
  flight, when `Shutdown` returns. `DrainInv` carries that answer: after nil every
  request is new or answered, and every step of a request begins with one in
  flight (`RequestMoves`), so none can find the pool closed or be cut off.
  `LifeTypeCorrect` includes that the pool never lends more connections than it
  has: `LifeInv` adds that a request waits or holds a connection only for the
  query it is at, never both. The connections lent
  are a fold over the requests; `SumUpdate` says what one entry does to it.
  Of the deadlines `BackoffIsOrdered`, `ShortAttemptsFit`, `MsTimeoutIsKept`:
  `DeadlineInv` says that the elapsed time is at most the preamble, the longest
  attempt times the attempts made, and the delays so far. `ShortAttemptsFit` has
  the hypothesis that the safe duration of a configuration was computed from the
  write timeout (`SafeFits`); `DefaultConfigFits` proves it for the values of
  `invoker.go` and `main.go`: 50 + 3 * 581 + 2 + 4 = 1799 of 1800 units.

- **`ProviderProofs`**: of a stream `StreamTypeCorrect`, `TranscriptIsKept`,
  `CutsAreReported`. In `StreamInv`, `MovedInv` says that what was received, what
  is buffered and what is about to be sent are the chunks of the events seen, so
  every step only moves chunks between places. `CutIsReported` needs more: the
  items of the body keep their numbers (`OrderInv`) and only the last item seen
  ends a stream (`EndsInv`). Of the registry `DefaultsAreOldest`: a default keeps
  its model when the name it came with is given away, so `RegistryInv` needs
  that a model is never registered a second time. Of a conversation
  `SystemTextGoverns`, `CallsReachProviders`, `ChatTypeCorrect`: `ChatInv` says that the
  messages are an opening without calls, in which all system messages are, and a
  talk without system messages, in which each call has its result behind it;
  and that the calls of the talk with those of an answer not yet appended are the calls
  ever made, without the ones openrouter hides. `TypesAreCorrect` joins both for
  `MCProviders`.

Where a proof needs induction it takes the smallest counterexample
(`LeastNatural`, from the well-foundedness of the naturals) or a set of naturals
closed under successor (`NaturalInduction`): the library's induction theorems
take the property as an operator, which the installed provers cannot
instantiate. Nor do they know that a literal such as `"user"` is a string, so
`ProviderProofs` types a conversation with sets that name the literals (`Roles`,
`Pieces`).

Theorems without a run of their own are `TypeCorrect`, `NoRetryAfterSuccess`,
`OpenIsEarned` and `OpenIsForever` of the invoker, the type theorems of the
cache, the resolver and the MCP session, the invariant `DrainInvHolds`,
`ReturnsAreListed` (the classes of error `SkillRuntime` uses), the type theorems of a stream and of a conversation (joined in
`TypesAreCorrect`, which has one), and `DefaultConfigFits`.

Only model-checked is liveness: `EveryRequestAnswered`, `AuthDecides`,
`CallIsTakenDown`, `CancelReturns`, `ReaderIsReleased`, `ErrorFreesGoroutine`,
`ContextEndsExecution`, `EveryWaiterServed`, `SignalEnds`. These rest on fairness,
hence on ENABLED, which the prover cannot expand. The runs that expect a violation
refute their property with a counterexample of TLC's.

## What the code and its documents disagree on

Three are violation runs; `PROJECT.json` quotes the lines.

1. The circuit breaker never trips (invoker_per_request): `executeTool` makes a
   `ToolInvoker`, with a counter of 0, for every request
   (`internal/server/routes.go:130`).
2. A JSON-RPC error of an MCP server is answered 200 with a null output
   (pipeline_mcp_error, `internal/server/routes.go:141`).
3. A SQL query with `$n` of its own gets no argument for it (sql_parameters,
   `internal/executor/sql/executor.go:185`).

The others are how the models behave, without a run of their own:

- Backoff: the cap is tested after the conversion to a Duration, which a large
  enough delay does not survive (`internal/invoker/invoker.go:70` against :61;
  `Converted`, and `Fits` in `BackoffGrowsToCap`). With the default delays it
  takes more than 36 retries; `DefaultConfig` has two. The language leaves the
  converted value open; on amd64, for which the Dockerfile builds, it is the
  smallest Duration, so the retry follows at once.
- Script timeout: `timeout_ms` is read as an `int`, which no decoded JSON number
  is, so 5 s always apply (`internal/executor/script/executor.go:38` against :20;
  `Limit` in `Deadlines`).
- Missing fields: only the SQL executor marks them as permanent, so the others
  are tried three times (`internal/executor/http/executor.go:95` against
  `internal/executor/executor.go:9-10`). `ActsFitAttempts` claims only that
  nothing is sent for such a config.
- Script input: a script that assigns to its input changes it for the retry
  (`internal/executor/script/executor.go:60` against :22; `ScriptWrites`
  in `ToolCalls`).
- System messages: openai prepends the option without looking whether one is
  present (`internal/ai/provider/openai/provider.go:249` against :248), and
  anthropic sends one system text and drops the others
  (`internal/ai/provider/anthropic/provider.go:272` against :270). So
  `SystemGoverns` claims nothing for a text given both ways.
- openrouter does not delegate to the OpenAI provider: it encodes `ai.Message`
  under its own JSON names and loses calls and links
  (`internal/ai/provider/openrouter/provider.go:82` against :2-3;
  `WireOpenRouter`, excepted in `CallsAreLinked`).
- Finish reason: any word of the API, or none, where `internal/ai/model.go:63`
  lists three (`internal/ai/provider/anthropic/provider.go:389`,
  `internal/ai/provider/openai/provider.go:313`; `mapStopReason`).
- Resolver: a failed first query is taken for a missing row, so a bound slug may
  resolve to another tool (`internal/executor/resolver.go:56` against the
  comment above it; `FallBack` in `SkillResolver`).
- Deadlines: three attempts of 90 s do not fit the write timeout of 180 s, so a
  late success reaches the client as EOF, which the comment at
  `cmd/skillruntime/main.go:42` wants to prevent (phase "eof" in `Deadlines`).
- MCP: the deadline of an attempt does not end a call whose command left a
  helper holding the pipes (`internal/executor/mcp/executor.go:319` against
  `internal/invoker/invoker.go:34`; `CancelReturns` excepts it), and a helper
  with redirected output survives its call (`CallIsTakenDown` does not claim it).
- HTTP: a key used as `{{args.k}}` is substituted and appended to the query as
  well, which `internal/executor/http/appendquery_test.go:61-70` rules out
  (`Used` in `HttpTool`, excepted in `InputReachesUpstream`).
- openai: an answer without choices is an empty success, with openrouter an error
  (`convertResponse`).
- openrouter drops read errors and all choices but the first (`OpenRouter` in
  `ProviderStream`).

## What is not modelled

- The Java runtime: the Dockerfile builds the Go service, which supersedes it.
- In `HttpTool`: the text of bodies, which addresses the SSRF filter refuses (a
  refused address is a failing connection: `Breaks`), and where a redirect leads.
- In `ToolCalls`: `console.log` and the exported value of a script, the text form
  of a vector. In `SqlTool`, values keep their text; their types are not modelled.
- In `ChatLoop`: tool schemas, sampling options, token counts and the arguments
  of calls. In `Lifecycle`: the values of the configuration, and pgx retiring
  idle connections.
- In `JwksCache`: the parsing of header, token, issuer and claims, and the
  construction of the JWKS URL (in `SkillRuntime` any of these is a 401).
- In `McpSession`: which addresses and redirects the HTTP transport refuses and how allowlist
  and environment are read (a config is acceptable or not).
- In `SkillRuntime`: the health endpoints, CORS, request ids, logging, and the
  encoding of bodies. `Recovery` is modelled for a panic of an executor.
- `TenantSchema` (`internal/executor/schema.go`) quotes a name; nothing depends
  on its state.

## Plan

What remains, in this order:

1. Proofs: what follows from several of the theorems together, for instance that
   a request in the pipeline keeps `InvokeContract`; shorter proofs where a lemma
   about sequences is shared.
2. The SSRF filter with redirects and name resolution (`internal/executor/http/ssrf.go`),
   and the claims of a token (`internal/middleware/auth.go`).
3. `JavaToolInvoker` and `TenantContext`: retry policy, timeout and the
   ThreadLocal tenant of the Java runtime.
