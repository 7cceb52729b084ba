# Cascade-proxy in TLA+

TLA+ modules for cascade-proxy, an HTTP reverse proxy in Go: what its
components promise when many goroutines use them at once, checked by TLC on
small instances and, for all safety properties, proved by TLAPS for every
instance. Paths are relative to `src/`.

## 1. The system

Every connection is served by a goroutine of `net/http`. A request goes through
a chain of handlers, each of which may answer it, change it, or call the next
one, down to the forwarding proxy or the balancer. Handlers keep no state across
requests except the ones below, which share it between all goroutines, under a
mutex, an atomic or a channel. Nothing is persisted: a restart is `Init`.

`cmd/server/main.go:42-54` nests the chain, outermost first: logger, metrics,
recovery, timeout, compress, auth, CORS, cache, rate limit, circuit breaker,
retry, balancer, proxy. `/health` goes to the health check, outside the chain.

| component | state it keeps | operations | how it meets the others |
|---|---|---|---|
| circuit breaker (`internal/circuitbreaker`) | state, failure and success counts, time of the last failure | `Execute` (admit, refuse, record), `State` | called by the proxy and the breaker middleware; the guarded call runs between its two critical sections |
| proxy (`internal/proxy`) | per request: attempt, sleep, body | `ServeHTTP`, `forward`, `buildRequest`, `copyResponse` | each attempt goes through the shared breaker |
| rate limiter (`internal/ratelimiter`) | buckets per key, tokens, time of the last refill | `Allow` | called by the rate limit middlewares |
| throttle | a buffered channel as semaphore | acquire, time out, release | wraps any handler |
| timeout, recovery, response recorder | per request: a worker goroutine, a deadline, the first status | run the handler, answer 504, recover a panic | the timeout is nested under recovery; both write one `ResponseWriter` |
| response cache | map of responses with expiry | `get`, `set` | wraps the handlers that fetch |
| deduplication | map of fingerprints with expiry | look up, remember | wraps any handler |
| health check (`internal/healthcheck`) | map of statuses | `Probe`, `Statuses`, `Handler` | asks the backends, one goroutine each |
| breach log | ring of statuses per key, time of the last warning | `record`, log | observes the responses |
| metrics | four counters | `record`, snapshot | observes the responses |
| balancer (`internal/balancer`) | a 64-bit counter | `Next` | chooses the backend of each request; it does not consult the health check |
| compression | per request: buffer, status, committed flag | `Write`, `WriteHeader`, `flush` | written to by the proxy's `io.Copy` |
| auth, CORS, breaker middleware, retry middleware, balancer middleware | per request: the attempt and its response | one decision, or a short loop, per request | nested in this order, with cache and rate limit between CORS and breaker |
| failover | per request: the loop over backends, the body | try the next backend | calls the next handler once per backend; not used by `main.go` |
| shadow | per request: the buffered body, a goroutine for the mirror | serve, mirror | runs beside the next handler; not used by `main.go` |
| filters, rewriters, maintenance, canary | at most a flag, or a limiter per path | decide on the request, or change it, before the next handler | each sees what those above left of the request; not used by `main.go` |
| response wrappers: loggers, headers, transformation, error report, latency | per request: a status, a buffer, a header map | `WriteHeader`, `Write`, and what is done when the next handler returns | each passes on, holds back or changes what those below it write |

### What is hard, and what makes each component correct

`PROJECT.json` lists every hazard at its line. In short:

- **Breaker.** Calls run with the mutex free, so results arrive in any order and
  in another state than the one that admitted the call. It must trip exactly on
  a run of consecutive failures, close only after enough successes of the present
  trial, keep callers away during the cool-down, and not stay shut for ever.
- **Proxy.** Retries of concurrent requests are results for one breaker. Each
  request is answered once, and one request alone must not trip the breaker.
- **Rate limiter.** A bucket is found under one mutex and used under another.
  No interleaving may grant a key more than the burst plus what the rate brings
  in any window, and no polling client may be starved by lost refills.
- **Throttle.** A slot must come back whatever the handler does, and a queued
  request must be served or refused although the slots never come free.
- **Timeout.** Worker and waiting goroutine write one response. The client must
  see a status that was really written and must be answered although the handlers
  hang; the worker, which goes on after the 504, must come to its end and leave
  the breaker; and a panic should stay within its request.
- **Chain.** Requests overlap and share breaker, cache and round robin. A cached
  response of one request is shown to another, so nothing may be shown without
  a key; the breaker must learn one result of a request, however often it is
  retried; and a retry should reach another backend than the one that failed.
- **Cache, deduplication.** The handler runs between lookup and store, so fills
  overlap: staleness must stay bounded, and repeats must not get through later.
- **Failover, shadow.** One body, several readers: one after the other in the
  failover, at once in the mirroring, which must not delay the primary.
- **Health check.** Concurrent checks write one map; a report must rest on what
  was the case during the checks that overlap with it.
- **Layers.** The order is the user's. A filter decides by what the layers above
  left of a request, and what the layers below get must be whole; the status
  logged, the headers and the body sent must agree whoever buffers or edits them
  and wherever a panic is caught.
- **Breach log.** The ring wraps; the decision to warn and the note of its time
  are two critical sections.
- **Metrics, balancer, compression.** Counters updated one after the other must
  agree; the wrapping counter must spread requests evenly; no byte may get lost
  or be sent twice, however the body is cut into pieces.

## 2. The modules

| module | models | its variables and the code |
|---|---|---|
| `CircuitBreaker` | `circuitbreaker.go` | `state`, `failureCount`, `successCount` are the fields; `age` is `time.Since(lastFailureTime)`; `pc` says who runs between the two critical sections of `Execute`. `Admit`/`Refuse` is the first one, `Fail`/`Succeed...` the second, `Panic` the missing one, `Observe` is `State` |
| `BreakerContract` | nothing: the abstract specification | a breaker that is closed, cooling down, ready or in trial, and changes only in the allowed ways |
| `CircuitBreakerRefinement` | the mapping | "ready" is the code's "open" with the cool-down over, which it turns into half-open only when somebody looks |
| `CircuitBreakerHistory` | `CircuitBreaker` with history variables | the run of failures, the successes of this trial, the time since the trip |
| `Proxy`, `ProxyHistory` | `proxy.go`, `request.go`, on top of `CircuitBreaker` | `at`, `attempt`, `timer`, `body` are the loop of `ServeHTTP` and its request; `answers` what it wrote. History: which requests are in the run of failures |
| `RateLimiter`, `RateLimiterHistory` | `ratelimiter.go` | `buckets`, `tokens`, `lastRefil` are the fields; `looking` is a goroutine between the two mutexes. History: the grants with their times |
| `Chain` | the order of `main.go:42-49` with `auth.go`, `cors.go`, `ratelimit.go`, the two `middleware` files for breaker and balancer, and `retry.go`, on top of `CircuitBreaker` | `at` is the handler a request has come to, `attempt` and `result` the loop of the retry, `answer` the status written, `cache` the usable responses, `turn` the balancer's counter modulo the targets. The rate limiter and the eviction of the cache are what the others can see of them: a refusal, or a response that is gone, at any time. History: results recorded |
| `ChainHistory` | `Chain` with history variables | the backends asked, whether others used the balancer in between |
| `Gateway` | `main.go:50-58`: `timeout.go`, `response_recorder.go`, `compress.go`, on top of `Chain` | `server` and `worker` are the two goroutines of a request, `cancelled` its context, `status` what the recorder keeps, `wire` what `net/http` sent, `crashed` the process. `Work` is a step of `Chain` by the worker, `Commit` and `Finish` the response that comes out of the compression, before or when the handlers return |
| `GatewayContract` | nothing: the abstract specification | a request is asked, told one status that its kind and its key allow, and over; the mapping is in `Gateway` |
| `Throttle` | `throttle.go` | `sem` is `len(t.sem)`, `waited` the timer of the select |
| `ResponseCache` | `cache.go` | `entries` is the map, `fetches` the goroutines in the handler; a response is its staleness |
| `Dedupe` | `dedupe.go` | `seen` and `left` are the map, `handling` the goroutines in the handler |
| `HealthCheck` | `healthcheck.go` | `statuses` is the map, `probe` the goroutines of each check |
| `BreachLog` | `breachlog.go` | `codes`, `pos`, `full`, `since` are one window, `warning` the goroutines between its two critical sections |
| `Metrics` | `metrics.go` | the four counters; `step` is a request inside `record`, `scrape` a snapshot |
| `Balancer` | `balancer.go` | the counter, modulo `Size`. History: `wraps`, how often it wrapped, and the requests of each target |
| `Compress` | `compress.go` with `copyResponse` | the fields of the writer, and what was copied and sent |
| `Failover` | `failover.go`, for one request at a time | `next` is the loop variable, `valid` says which URLs parse, `body` is `r.Body`, `heard` what came of each backend |
| `RequestPath` | the layers that decide on or change a request: `maintenance`, `canary`, `jwt`, `basicauth`, `ip_filter`, `geoblock`, `ratelimitbypath`, `requestsize`, `bodysize`, `reqtransform`, `sanitize`, `headers`, `requestid`, `rewrite`, `redirect` | `route` is the nesting, `req` the request as the next layer gets it, with its body, its length and the limit of a reader as numbers, an address or a country as the lists it is in, `req.header` the headers that layers look at; `strips` and `sets` are what `sanitize` removes and `headers` removes or sets of them; `came` is the request as it came. One action per layer |
| `ResponsePath` | the wrappers of a response: `logger`, `accesslog`, `tracing`, `headers`, `responsetransform`, `proxyerror`, `compress`, `upstream`, `recovery` | `nest` is the nesting, `io` what each writer keeps and what was sent. A write comes to the innermost wrapper that keeps it (`Keeper`, `Holder`) and is seen by those on the way (`PutStatus`, `PutBody`); then each returns (`Returned`) or is unwound |
| `Shadow` | `shadow.go` | `primary` and `mirror` are the two goroutines, `pos` their readers of `bodyBytes` |
| `Tables` | the components whose state is a table or a few counters (`RateLimiterHistory`, `ResponseCache`, `Dedupe`, `BreachLog`, `Metrics`, `Balancer`, `Compress`, `Failover`) side by side | their variables, one instance each, and their properties under one name; `TablesProofs` proves these, `MCMiddleware` checks them |
| `MCCircuitBreaker`, `MCMiddleware`, `MCServing` | instances for TLC; `MCMiddleware` is `Tables` with `RequestPath` and `ResponsePath` | see below |
| `CircuitBreakerProofs`, `ProxyProofs`, `ServingProofs`, `GatewayProofs` (with `Chain`), `RequestPathProofs`, `ResponsePathProofs`, `TablesProofs` (with the rate limiter), `MiddlewareProofs` | proofs | section 5 |

One action is one critical section, one atomic operation, or one step of
sequential code that no other goroutine sees the middle of. Time is discrete. A
duration is a number of ticks, and a timer counts up to (or down from) the only
value it is compared with and stays there, so that saturation removes no
behaviour.

A definition whose comment begins with "Mutant of X" is X with a plausible
mistake in it. No specification uses it: it is there to show, by taking its
place, that the properties are sensitive to X.

The repository does not build as a whole: there are two types
`ResponseRecorder` (`logger.go`, `response_recorder.go`), some helpers do not
exist (the recorder's `Flush`, a lower-case `flush` on `httptest`'s recorder),
`main.go` uses other signatures, another module path and a health check API
(`Config`, `Start`) than the packages have, and tests call methods that do not
exist (`cb.Allow`, `RecordFailure`). Each module therefore follows the file it
names; only the nesting of the chain is taken from `main.go`. Where a file calls
something that does not exist, the type it names decides if there is one of that
name that the call fits, and else what the file itself says of it. Two files call
a `Flush` that no recorder has. `retry.go` calls `NewResponseRecorder`, of which
there are two with two types, and says itself that it "defers writes" (line 60): a
response reaches the client with `Flush` only. `upstream.go` calls
`NewBufferedResponseRecorder(w)`, which is in `tracing.go:55-59`, is called so by
two other files, and whose `WriteHeader` and `Write` go through to `w`: the response
is sent as it is written, and there is nothing left for `Flush`.
`NewBalancerMiddleware` takes no next handler, so the `proxy` handler that
`main.go:43` puts under it is never called: `Chain` ends at the balancer, and
`Proxy` models that handler where it stands alone. The timeout and the loggers
disagree about the recorder: `timeout.go:45` calls `Status()`, as in
`response_recorder.go`, which keeps the first status, while `logger.go` declares
its own that keeps the last; `Gateway` follows the first, `ResponsePath` the
second. `proxyerror.go:31` wants a recorder with a header map of its own, and
gets one; for the loggers, the one of `tracing.go`, which has none.

## 3. The runs

| run | question | properties |
|---|---|---|
| `breaker` | does the breaker keep its contract when results of overlapping calls arrive in any order? | `HistoryInv`, `TripsOnlyOnStreak`, `ClosesOnlyAfterTrial`, `CoolDownIsRespected`, `ImplementsContract`, `OpenCoolsDown` |
| `breaker_probe` | does half-open let a single probe through? | `SingleProbe`: violated |
| `proxy` | what do concurrent, retried requests do to the shared breaker and to each other? | `AnsweredOnce`, `OneRequestCannotTrip`, `EveryRequestAnswered`, `HealthyUpstreamCloses` |
| `chain` | what do overlapping requests see of each other through cache, breaker and round robin? | `ChainInv`, `EarnedAnswers`, `OneResultPerRequest`, `GivesUpAfterAllBackends` |
| `gateway` | what do the clients of the whole server see when deadlines, departures, panics and other requests come at any moment, and does every goroutine end? | `GatewayInv`, `NoGoroutineLeak`, `ImplementsGateway` |
| `gateway_crash` | does recovery keep a panic from ending the process? | `PanicCannotCrash`: violated |
| `serving` | the handlers in which goroutines wait for or run beside others, one at a time: do slots leak, what does a health report rest on when checks overlap, do both readers get the body, does anybody wait for ever? | `SlotsAccountedFor` (throttle); `PeriodInv`, `ReportsThePeriod` (health check); `BothReadTheBody`, `MirrorDelaysNobody` (shadow); `EveryWaitEnds` (throttle and health check); `ServingTypes` |
| `middleware` | the components that are a table or counters under a mutex, and the layers of one request, one at a time | `WindowInv`, `WindowBound`, `DenialIsEarned` (rate limiter); `StalenessBound` (cache); `NoLateDuplicate` (deduplication); `RingIsRecent`, `OneWarningEach` (breach log); `CountersAgree` (metrics); `Even` (balancer); `DeliversWritten` (compression); `FirstUsableWins` (failover); `RequestIntact`, `OnlyTheAdmitted` (`RequestPath`); `TrueStatus`, `HonestHead` (`ResponsePath`); `ComponentTypes` |
| `dedupe_inflight` | are duplicates in flight short-circuited? | `NoDuplicateInFlight`: violated |
| `health_503` | does a 503 mean an unhealthy backend? | `NoFalseAlarm`: violated |
| `failover_body` | does "all backends unavailable" mean that? | `ExhaustedMeansUnavailable`: violated |
| `compress_body` | does the client get the whole body? | `Transparent`: violated |

### Bounds, and why they are enough

- **breaker**: 3 callers, both thresholds 2, a timeout of 2 ticks. Three callers
  let one result be late in every state while the two others make the
  transition; thresholds of 2 tell "one more" from "enough". `failureCount` and
  `age` saturate where they are compared. `successCount` is unbounded in the
  code too, and reset by every trial; it stays below the threshold plus the
  calls in flight.
- **proxy**: 2 connections, threshold 3, one retry. `MaxRetries + 1 < FailureThreshold`
  as in the default configurations (3 retries, threshold 5), the hypothesis of
  `OneRequestCannotTrip`. Two connections are enough for one request to be
  retried while others succeed, fail and start over.
- **chain**: 2 requests, one URI, 2 backends, 2 attempts, failure threshold 2,
  success threshold 1. Two requests share every piece of state; what one leaves
  in the cache the other finds, and both can be between two attempts at once.
  The number of attempts equals the number of backends, the hypothesis of
  `GivesUpAfterAllBackends`. The thresholds are smaller than in `breaker`, where
  the counting itself is checked; here the breaker need only open and close.
- **gateway**: 2 requests, one URI, one backend, one attempt, thresholds and
  timeout of the breaker 1, no preflights: what the retry and the round robin
  do is checked in `chain`. Two requests are enough for the worker of one that
  was told 504 to hold the half-open breaker, the retry or the cache while the
  other comes by.
- **serving**: the variable `part` selects throttle, health check or shadow, which
  share no state. Throttle: 4 requests on 2 slots: two hold, two compete for a
  slot. Health check: 2 checks of 2 targets: one overwrites what the other
  wrote, and a target can be missing from the map while the other is there.
  Shadow: one request with a body of up to 3 bytes (`MaxBody`), read by both in
  all pieces.
- **middleware**: the variable `part` selects the component that runs; the others
  stand still, since they share no state. Rate limiter: 2 goroutines, 2 keys,
  burst 2, a clock of 4 ticks at 2/3 of a token each (`MaxTime`), which refills
  a bucket that was emptied. Cache: 3 URIs for 2 entries, so that eviction must
  choose; fetches of up to one tick (`MaxFetch`). Breach log: a ring of 3 with
  threshold 2, which wraps. Metrics: 4 requests (`MaxRequests`) on 2 goroutines.
  Balancer: 3 targets and a counter of 3 bits (`Size` 8), so that it wraps in the middle of
  a round, twice in 20 calls (`MaxCalls`). Compression: all bodies up to 5 bytes
  (`MaxLength`) in all pieces, with a minimum of 3. Failover: 3 backends, of
  which any may have a URL that does not parse (2 in `failover_body`).
  Layers: all nestings of up to 3 different ones (`Depth`) of one concern: the
  body, the address, the country, the path, or the credentials and the ID; a layer
  of one concern does not see what one of another changes. `sanitize` and `headers`
  are in four of them, with everything they may do to the headers that a layer of
  the nesting looks at. Three are a layer that looks, one that changes what it
  looks at, and one in between. Bodies of up to 3 bytes (`MaxSize`), under a
  reader's limit of 2 (`MaxBytes`) and `ParseForm`'s own limit of 1 instead of
  10 MB (`MaxForm`): a body is within both, between them, or over both, and one that
  is over `ParseForm`'s limit loses all or a part. Up to 2 parameters and fields
  with a limit of 1 (`MaxParams`, one for `requestsize` and `sanitize`, and a form
  that does not parse). Wrappers: all nestings of up to 3 of the 7 (`MaxWrappers`),
  a minimum for compression of 2 pieces (`MinPieces`), so that a body stays below,
  reaches it, or goes on after it. Of deeper nestings and longer
  bodies the proofs of section 5 speak.

No symmetry is used: runs with liveness must not, and the others are small.

Deadlock is checked except in `serving`, `gateway` and `gateway_crash` (every
request ends, the process too), `middleware` (clock, requests and calls are
bounded, a body is finished) and `compress_body` (the body is finished).

### Fairness

- `breaker`: the clock advances, and a call that runs ends (`WF` of its fail,
  succeed or panic): `proxy.go` builds its client with a timeout. Nobody is made
  to call.
- `proxy`: the clock advances and the goroutine of a request goes on: `time.Sleep`
  returns, the client's timeout (`proxy.go:49`) ends `Do`. Requests need not come;
  `HealthyUpstreamCloses` takes it as a hypothesis that they do.
- `gateway`: the timer of a deadline fires, and of the goroutines of a request one
  that can go on does, until the process ends. Nothing is assumed of backends:
  an attempt that they hold goes on only because `net/http` gives up a request
  whose context is done. The breaker's clock need not advance.
- `serving`: for the throttle, time passes, a ready `select` is taken, a deferred
  receive runs; nothing is assumed of the handlers, which may hold their slots
  for ever. For the health check, of the goroutines of a check one that can go on
  does: they are scheduled, and `c.client` has a timeout. For the mirroring, the
  next handler ends; the mirror may hang. What one part's fairness speaks of is
  disabled in the others.

All of it is weak fairness, of steps that stay possible until they are taken.

## 4. Where the code and its documents disagree

Checked, each by the run whose property states the document's sentence:

1. Half-open admits every caller, and `SuccessThreshold` successes close;
   `circuitbreaker_doc.go:14` says a single probe, whose success closes.
2. A panic below the timeout middleware is on a goroutine without `recover`, and
  ends the process; `recovery.go:9-11` says it cannot. The reverse proxy of
  the standard library panics on purpose (`ErrAbortHandler`) when a copy fails,
  so this needs no faulty handler: in the run a backend breaks off. What holds
  up to there is `GatewayInv`.
3. Duplicates in flight both reach the handler; `dedupe.go:41-42` says they are
   short-circuited. What holds is `NoLateDuplicate`.
4. `/health` may answer 503 because another client went away during its check;
   `healthcheck/doc.go:13` says one or more backends are unhealthy. What holds
   is `ReportsThePeriod`.
5. The failover says "all backends unavailable" (`failover.go:76`) of a request
   with a body although it asked only the first: the attempt consumed the body.
   What holds is `FirstUsableWins`.
6. The gzip writer's `Write` reports more bytes than it was given when it has
   buffered some before, and `io.Copy` stops there: a body that arrives in small
   pieces first is cut off; `compress_doc.go:5` says transparent.

Noticed while modelling, and visible in the models, without a run of their own:

- The first attempt closes the request body (`client.Do`), so a retry of a
  request with a body always fails, and the breaker counts that as a failure of
  upstream (`Spend` in `Proxy`). So does the departure of the client.
- `README.md:52` promises exponential backoff; the delay is constant. The
  comment at `proxy.go:86` says non-2xx; the code looks for 500 and above.
- Two requests may warn of one breach within the 5 seconds, since the decision
  and the note of its time are two critical sections; `breachlog_doc.go:23` says
  at most one. What holds is `OneWarningEach`.
- The mirror's goroutine reads `r.Header` while the handlers below run. One of them
  that writes it (`requestid.go`, `sanitize.go`), nested under the mirror, would
  race with it; no chain in the repository does.
- A cache with `MaxEntries` zero holds one entry. An entry that
  `set` replaces counts as room taken, so another one is evicted.
- `timeout_doc.go` promises a 504; a handler that has written its status first
  has been answered for (`wire` in `GatewayInv`).
- A deadline and the departure of a client fail the attempt in progress, which
  the breaker of the chain takes for a failure of upstream (`CutShort`). The
  retry goes on sleeping and trying with a context that is done.
- The flush of the gzip writer is deferred, so a panic sends the buffered bytes
  with status 200 before recovery can answer 500 (the exception in `TrueStatus`).
- `bodysize_doc.go` promises a 413; a body that is too long without saying so is
  a 400 of the request transformation or a failed attempt of the proxy, whose
  retries then count against upstream.
- `requestsize.go:43` parses the form to count parameters: it counts the fields of
  a body too, and leaves the body empty for the proxy, and for a canary that is
  promised its length a request that cannot be sent. Of a form of more than 10 MB
  without a limit above it loses the first 10 MB and a byte. When the query, the
  form or the Content-Type does not parse, or the form is too long, nothing is
  counted and the request goes on, without its body all the same
  (`Parsable` and `MayBeRead` in the properties).
- `jwt.go`, by its default configuration, and `basicauth.go` want the same header, so
  together they admit nobody. `ip_filter.go` drops networks that do not parse, so a
  list of nothing else admits everybody.
- A `headers` layer above a filter may set the address, the country or the
  credentials that the filter looks at, and then decides for it (`Shown`); a rewrite
  above the maintenance mode may make a path one that it lets pass.
- `X-Upstream-Ms` is set after the handler has returned, which is too late once it
  has written, with the recorder of `tracing.go` (section 2). Configured response
  headers are missing from a response that no handler wrote.
- A logger keeps the last status, `net/http` sends the first; a recovered panic is
  logged as 500 also when the client has its 200.
- A transformation outside the compression edits gzip bytes, under a header that
  still says gzip.
- `redirect.go` takes `/v1/*` to match `/v10`; stripping a prefix may leave a path
  without its slash.
- Auth is outside CORS in `main.go`, so a preflight, which browsers send without
  a key, is answered 401; `cors_doc.go` speaks of preflights as answered.
- Overlapping requests share the round robin, so without `alone` in
  `GivesUpAfterAllBackends` a request may spend all its attempts on one backend
  that is down while another is healthy.
- A snapshot of the metrics may show more errors than requests. The buckets of
  the rate limiter and the map of the deduplication only grow.

## 5. What is proved

TLAPS proves, for any number of callers, requests and keys and all values of
the constants that the named assumptions allow (natural numbers; finite sets
where something is counted):

| theorem | states | argument |
|---|---|---|
| `TypeCorrect`, `ThresholdsHold` | types of the breaker; `CountsBelowThresholds` | `TypeOK /\ CountsBelowThresholds` is inductive: a count that reaches its threshold changes the state in the same step |
| `Refinement` | with `Timeout > 0`, `Spec` implements the contract | initial states map to initial states, each action to a step of the contract or a stutter. With a timeout of zero the trip and the end of the cool-down coincide, and the breaker opens into "ready" at once |
| `HistoryHolds`, `CountsTheStreak`, `TripsOnStreak`, `ClosesAfterTrial`, `RespectsCoolDown` | `HistoryInv` and the action properties of the breaker | `HistoryInv` is inductive: the code's counters and clock against the history. It is needed because the properties speak of the past, the guards only of the counters; `age <= sinceTrip` carries the cool-down over late failures |
| `ProxyUsesBreaker` | every behaviour of the proxy is one of the breaker | each step of the proxy is a step of the breaker or leaves it alone, so the theorems above hold inside the proxy |
| `OneIsNotEnough` | `OneRequestCannotTrip` | `StrikeInv` is inductive: while one request alone has failed since the last success, the breaker has counted no more failures than that request had attempts, also after it is over. It is needed because the property compares the breaker's count with requests, of which the breaker knows nothing |
| `ProxyAnswersOnce`, `ProxyTypes` | `AnsweredOnce`; `PTypeOK` | `LoopInv`, which adds to it where the goroutine is in the breaker; timers and bodies keep their types by themselves |
| `RateInvariant`, `RateIsBounded` | `WindowInv`, `WindowBound` | the invariant bounds the grants since any moment by the burst, plus what the rate brought since, less what is in the bucket; the window bound is what remains when the bucket's content is dropped |
| `DenialsAreEarned` | `DenialIsEarned` | `SinceFull`, with `WindowInv`: what a bucket holds and what was granted since it was last full are together exactly the burst and what time has brought. An equation, where the window bound needs an inequality only: it fails as soon as a refill is lost |
| `ChainUsesBreaker` | every behaviour of the chain is one of the breaker | as for the proxy: each handler's step is a step of the breaker or leaves it alone |
| `ChainInvariant`, `AnswersAreEarned`, `RetriesCountOnce` | `ChainInv`; `EarnedAnswers`; `OneResultPerRequest` | `ChainInv` says of each request what the handler it has come to may rely on: past auth there is a key, before the record there is no answer and no result counted, in the retry the request is the breaker's caller; and of the cache that it holds successes only. One step moves one request, so the others keep theirs (`OthersKeepInv`) |
| `AllBackendsAsked` | `GivesUpAfterAllBackends` | `AskedInv`, with `ChainInv`: while nobody else asks, the backends asked are those at most so many turns behind the round robin as the request made attempts (`Behind`, `Made`), one that was aborted included, since the target is taken before the reverse proxy can panic (`balancer.go:16`, `:39`); and only the last attempt leads to a gateway error. As many attempts as backends then reach round the ring |
| `GatewayRunsChain` | every behaviour of the gateway is one of the chain | each step is a step of one request's handlers, of the chain's environment, or leaves the chain alone; so the theorems on the chain and the breaker hold for requests that are cancelled |
| `GatewayInvariant` | `GatewayInv` | `GatewayInv` with `ChainInv` is inductive: `ChainInv` is needed to know that a response, once written, is the answer that the handlers will return with |
| `GatewayRefinement` | `ImplementsGateway` | from `GatewayInv`: what is told is the recorder's status, which is the handlers' answer, which `EarnedAnswers` allows the request; or a 504, or the 200 of a panic |
| `PeriodHolds`, `ReportsRestOnThePeriod` | `PeriodInv`; `ReportsThePeriod` | `PeriodInv` is inductive: a result in hand, and one in the map that this busy period wrote, was the case in it. It is needed because a report looks at the map only; with `Probed` every entry is of the period |
| `Admission` | `OnlyTheAdmitted` | `PathInv` is inductive. Its first half: each layer that was passed would pass the request as it was shown to it (a conjunct per filter), and what it was shown is what came, or what the layers above that edit headers or the path made of that (`NotForged`, `Now`). It is needed because the property speaks of what came and of the nesting, the layers only of what they see. The count of parameters is claimed where `ParseForm` could not fail (`Parsable`): elsewhere the code does not count. One lemma (`Passing`) says what a layer must check and may change, and each layer is shown to (`Treats`, `Checked`) |
| `Integrity` | `RequestIntact` | the other half of `PathInv`: text, size, limit and ID of the request on its way are what the layers it has passed make of those that came. It is needed because the property sees only what is sent. It uses that no layer occurs twice in a nesting, that a body which the rules have edited may be anything, and that a limit is raised only by the layer that has just read the body, which is why a body over a limit is never sent. Of a body that no rule edits: only `ParseForm` takes of it, all it can read or, without a limit, the first `MaxForm + 1` bytes (`Remains`) |
| `SlotsHold`, `ReleaseNeverBlocks` | `SlotsAccountedFor`; the deferred receive finds a token | the tokens are counted by the set of their holders, which each step changes by one |
| `MirrorGetsTheBody`, `ServingTypesHold` | `BothReadTheBody`; `ServingTypes` | `MirrorInv` is inductive: each reader has given what it has passed, and only one at the end of the body was told so. The types, from it and from the throttle's, hold of the composition that TLC runs |
| `StalenessIsBounded` | `StalenessBound` | `AgeInv` is inductive: a response in hand is no staler than its fetch is old, an entry no staler than its age and one fetch; so no replay makes an entry younger than its content |
| `DuplicatesOverlap` | `NoLateDuplicate` | `FreshInv`: what was completed within the TTL is in the map and has as long to live |
| `RingHoldsTheLast` | `RingIsRecent` | `RingInv`: the i-th oldest of the last statuses is at its place in the ring, before and after it wraps (`Place`) |
| `WarningsKeepTheGap` | `OneWarningEach` | `GapInv`: the time since the last warning of all is no longer than that since one's own, so a goroutine that decides to warn has let the gap pass itself |
| `CountersNeverDrift` | `CountersAgree` | `CountInv` adds the types and that only failing requests come to the error counter; sets of requests at a step grow and shrink by one |
| `RoundRobinIsEven` | `Even` | `RoundInv`: within a round the targets before the turn are one ahead of those after it; a wrap in mid-round starts over and costs one (`Ahead`). For any `Size`, so also for 2^64 |
| `WrittenIsDelivered` | `DeliversWritten` | `WriterInv`: nothing is committed before the buffer is full, and what is committed is compressed exactly if long enough |
| `UsableResponseSent` | `FirstUsableWins` | `LoopInv`: every backend before the one that is next has failed or was skipped |
| `ResponseTypes`, `StatusTrue`, `HeadHonest` | types of the wrappers; `TrueStatus`; `HonestHead` | one inductive invariant, `RInv`, with a part for each thing that may go wrong: see below |
| `PathTypes` | `PathTypeOK` | with `OutcomeInv`: somebody has the request only when it is sent, which ends it; a layer finds one that nothing has become of yet (`StepDecides`) |
| `EachComponent` | every behaviour of `MCMiddleware` is one of each of its components | the component that runs takes its own steps, the others stutter in one of their initial states: no layer at all is a nesting |
| `TypesOfComponents`, `TablesHold`, `LayersHold` | `ComponentTypes`, and the safety properties of the components, of `MCMiddleware` | by `EachComponent` from the theorems above and a type lemma for each table (`CacheTypes`, `DedupeTypes`, `BreachTypes`, ...); of the cache that takes `SizeInv` (one entry at a time is added, after room was made), of the metrics `MetricsInv` (a counter is no more than the requests that came, because each request adds to it once) |

The argument for the wrappers of a response: what holds at the end must be carried
from the handler outwards through wrappers that hold the response back, in any
order. All that has been written and not sent is kept by one writer, the front: the
one that a body from under the wrappers that have not returned comes to (`Holder`),
or `net/http`. Further out nothing has come yet (`Clean`); the loggers further in
have kept the status that the front has (`Told`); the headers are true of the body
it has (`Honest`). `RInv` says so of a response without a panic (`Untroubled`), and
of one whose handler panicked before it had begun (`Troubled`): until a recovery it
has not begun, from then on the front has the 500. `Phase` ties `mode`, `inside` and
`panic` together, and `Logging` what was logged to what the logger kept. A wrapper
that returns moves the front outwards, and the agreement with it. `TrueStatus` and
`HonestHead` are what is left when the front is `net/http`.

Checked by TLC only is liveness, which with `ENABLED` is outside what TLAPS proves
here: `OpenCoolsDown`, `EveryRequestAnswered`, `HealthyUpstreamCloses`,
`EveryWaitEnds`, `MirrorDelaysNobody`, `NoGoroutineLeak`. Every other property of
a passing run is stated by a theorem.

The theorems on the components of `Tables`, on the mirroring and on the two paths
are about each component by itself: they share no state. `MiddlewareProofs` carries
those of `Tables` and of the two paths over to the composition that TLC runs, in
which `part` selects one.
`TablesAssumption` gathers the `ConfigOK` of the components, each what the code's
constructors admit; TLC evaluates it in `middleware`. The arithmetic of the rate
limiter is exact in the model and floating-point in the code; `TLC` and the
proofs say nothing of rounding.

## 6. What is not modelled

- Around the gateway: the loggers and the metrics outside recovery, which look on;
  `ResponsePath` has the loggers, `Metrics` the counters. Start-up, flags and the
  mux of `main.go`.
- `HealthCheck` as `main.go` would use it (`Start`, an interval): it does not exist.
- Of the layers: the content of bodies, patterns, signatures and addresses; two
  layers of one kind; layers of two concerns in one nesting; a `jwt` with a header
  other than its default one; the content of what is set in a header that no layer
  looks at; `SkipPaths`; the CORS
  headers; what a wrapper costs in time.
- In the chain: the body and the headers of a response, the staleness of a cached
  one (`ResponseCache`), the wrapping of the balancer's counter (`Balancer`).
- Header and URL handling, wording of answers and logs, the pool of gzip writers.

## 7. The plan

Order, most important first. All of it is done.

1. `CircuitBreaker`, its contract, its history and their proofs.
2. `Proxy` on top of it, and its proofs.
3. `RateLimiter`, `Throttle` and their proofs.
4. `HealthCheck` and its proofs.
5. The tables and counters: `ResponseCache`, `Dedupe`, `BreachLog`, `Metrics`,
   `Balancer`, `Compress`, in one run.
6. `Chain`: auth to balancer for overlapping requests on top of the breaker, and
   its proofs.
7. `Failover` and `Shadow`, in the runs of the components like them.
8. `Gateway`: timeout and compression around `Chain`, its contract with clients,
   and their proofs.
9. `RequestPath`, `ResponsePath`: the layers of one request, nested in any order,
   and the proof of what they admit.
10. The proofs of the remaining safety properties: `OneIsNotEnough`,
    `AllBackendsAsked`, `DenialsAreEarned`, `Integrity`, those of `ServingProofs` and
    `TablesProofs`.
11. The proofs of `ResponsePath`, the type invariants of the tables and of
    `RequestPath`, and `MiddlewareProofs`, which carries all of it over to the
    composition that is checked.

## 8. Running

Model checking: `tlc -config <run>.cfg <module>` (the module of each run is in
`PROJECT.json`). Proofs: `tlapm <module>Proofs.tla`.
