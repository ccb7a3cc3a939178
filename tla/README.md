# fusen-rs in TLA+

TLA+ models of the concurrent core of fusen-rs, an HTTP/RPC microservice
framework in Rust, with the TLC configurations that check them on small
instances and the TLAPS proofs of the properties that matter most. All paths
are relative to the repository (`src/` in `PROJECT.json`).

The project is about what tests of this code can hardly reach: the order in
which tasks, drops, deadlines and providers take their steps, and whether what
crosses a boundary (the wire, the registry, the configuration) arrives on the
other side as what it was. Texts, logging and metrics are outside it.

## 1. Inventory of the system

| Component | Source | State it keeps | Operations |
|---|---|---|---|
| Admission gate | `fusen/src/runtime/admission.rs` | `state`, a semaphore, `active`, a `Notify` | `try_enter`, `enter`, drop of a guard, `begin_draining`, `drained`, `close` |
| Admission queue | `acquire_admission` in `fusen/src/client/invocation.rs` and `fusen/src/server/http.rs` | queue semaphore, deadline | take a slot, wait, give up |
| Registry handle | `fusen-register/src/lib.rs` | `StartState`, waiter count, `activation_observed`, `close_requested`, three watch channels | `activate`, cancellation of a waiter, `request_close`, `close`, last drop, the worker and its abort |
| Directory | `fusen-register/src/directory.rs` | latest snapshot with its revision | `publish`, `snapshot`, `changed`, drop of the last publisher |
| Circuit breaker | `fusen/src/resilience/breaker.rs` | closed / open / half-open, epoch, rolling window, an LRU store per endpoint | `try_acquire`, completion or drop of a permit |
| Endpoint breakers | `fusen/src/client/endpoint_breakers.rs` | memberships, reference counts, breaker store | `get_or_insert_observed`, `replace_discovery`, `remove_discovery` |
| Retry | `fusen/src/resilience/retry.rs`, `classify.rs` | token budget | `try_acquire`, `decide_with_guards`, classification of failures |
| Byte budget | `fusen/src/runtime/budget.rs` | bytes in use | `try_reserve`, `grow`, drop of a permit, `BudgetedWriter` |
| Subscription manager | `fusen/src/client/subscription.rs` | one slot, publisher and supervisor per selector | `acquire`, `run_subscription`, `begin_shutdown`, `closed`, `finish_shutdown` |
| Client invocation | `fusen/src/client/invocation.rs` | permits, attempts, deadline | admission, interceptors, endpoint selection, attempts, retries |
| Client runtime | `fusen/src/client/runtime.rs` | client state; transports, breakers, bulkheads, retry budgets by key | `shutdown`, its coordinator, the lookup functions |
| Server lifecycle | `fusen/src/server/mod.rs` | readiness, state, tracked registrations, terminal result | `start`, coordinator, drain, `RunningServer` |
| Server transport | `fusen/src/server/transport.rs` | listener, connection tasks, failure tracker | accept loop, back-off, drain, forced cut |
| HTTP pipeline | `fusen/src/server/http.rs`, `service.rs` | the permits and bytes of each request | readiness, head checks, admission, body, execution, response |
| Routes | `fusen/src/server/routes.rs` | a tree of literal and parameter branches | insertion with its conflicts, `find` |
| Hot configuration | `fusen-config/src/hot.rs` | lifecycle, documents, typed views | `activate`, `publish`, `typed`, `close` |
| Nacos adapter | `fusen-nacos/src/` | `SnapshotGate`, connections | registration, subscription, configuration listeners |
| Client builder, transport | `fusen/src/client/builder.rs`, `transport.rs` | settings of one client; connection pools and their round-robin counters | `connect`, choice of version, pool and shard, ALPN check |
| Wire and problems | `fusen/src/wire`, `codec.rs`, `interface.rs`, `error/invocation.rs` | none | encoding and decoding of arguments, results, problem documents, delays |
| Contracts, macros | `fusen-contract`, `fusen-macro` | none | validation of declarations; generated code |
| Configuration | `client/config.rs`, `server/config.rs`, `ClientRuntimeBuilder`, `ServerBuilder` | sections with defaults | setters, `build`, validation, assembly |
| Projection, observability | `projection.rs`, `sensitive.rs`, `fusen-observability` | none | redaction, metrics |

**How they interact.** A *server* coordinator owns a transport task, an
admission gate and a list of registry handles; the transport spawns one task
per connection, whose requests look at the readiness and enter the gate; a
`CancellationToken` asks for the drain and a second one forces it. A *client*
owns an admission gate, a subscription manager, transports and the resilience
maps; an invocation enters the gate, acquires a subscription, picks an endpoint
out of its directory, takes breaker, bulkhead and retry permits, and gives each
of them back by a drop. A subscription supervisor drives one registry handle
after another and republishes what the provider publishes; the provider is
foreign code behind a boxed future.

**What is hard.** Guards that are dropped in any order, by cancelled futures
too; `Notify` and `watch` channels that do not store; flags checked before a
lock or an await and used after it; permits that outlive the period they were
issued in; a deadline that passes in the middle of a list of steps; providers
that finish after their caller has given up; `biased` selects that prefer one of
two events. `PROJECT.json` lists these as hazards, each at its line, with the
property that would catch it going wrong.

**What makes each component correct.**

- *Gate*: never more than the limit inside; nobody enters once draining has
  begun; `drained()` returns only when nobody is inside, and does return.
- *Registry handle*: activation and cleanup run at most once each, in order;
  results are published once; a reported close is real; a success nobody wants
  is cleaned up, and one somebody received is not.
- *Breaker*: an outcome counts for the period its permit was issued in, and for
  no other; half-open slots are neither lost nor duplicated; open periods follow
  one another; the window forgets and remembers what it should.
- *Subscription*: last-good instances are used for a bounded time; generations
  never overlap; a quarantined selector stays so; shutdown leaves nothing.
- *Server*: ready means registered; the listener is closed before anything
  slow; every registration is tried, in reverse order; the result is truthful;
  nothing survives.
- *Invocation*: both breakers hear the truth about each attempt and each call,
  whatever interceptors do and wherever the future is dropped; retries are within
  the limit, paid for, and of calls that may be repeated; the connection pool
  outlives the invocations; invocations and shutdown end.
- *Endpoint breakers*: an endpoint that left discovery does not come back through
  an old snapshot; what is kept is bounded; a breaker is forgotten for a cause only.
- *Hot configuration*: a typed view shows only documents that parse, catches up
  with the newest, and ends with its handle; the handle keeps the promises of a
  registry handle.
- *HTTP pipeline*: every byte in memory is paid for; a request that is told to try
  again did not reach its handler; each request is answered.
- *Binding and routes*: what the macros accept starts; the table finds the route a
  reader of the templates expects; a method gets the arguments of the call.
- *Responses*: the caller is told what the service returned, over any number of
  relaying servers; a delay is never shortened; another call's answer is refused.
- *Configuration*: what is built is what its components rely on.
- *Nacos*: the directory is current once the adapter is quiet; servers are found as
  they registered, by the clients of their service, group and version.
- *Client builder*: `connect` gives a client that works or none, leaving at most the
  subscription slot of its selector, and the client speaks the protocol its policy names.

## 2. Modules

| Module | What it is |
|---|---|
| `AdmissionContract` | abstract: callers go in and out; open, draining, quiet |
| `AdmissionGate` | the gate, `acquire_admission` and the draining coordinator, one atomic operation per step |
| `ProviderContract` | abstract: what a registry handle promises about the provider |
| `RegistryLifecycle` | the handle: waiters, closers, drops and the worker |
| `RollingWindow` | the pure functions of the rolling window |
| `MCRollingWindow` | drives the window next to a log of everything it was told |
| `BreakerContract` | abstract: live callers and phases; no epochs, no clock |
| `CircuitBreaker` | the breaker, its callers and a clock; extends `RollingWindow` |
| `Subscription` | one selector: acquire, supervisor, directory, shutdown; uses `ProviderContract` for the current handle |
| `ServerLifecycle` | `start()`, coordinator, transport, requests; uses `AdmissionContract` for the gate and what `ProviderContract` promises for each registration |
| `ClientInvocation` | logical invocations with interceptors, attempts, retries and cancellation, the bulkhead map, and the client's shutdown; uses `AdmissionContract` for the gate |
| `EndpointBreakers` | memberships and reference counts, the bounded store, lookups that race them |
| `HotConfig` | a hot configuration handle, its publisher, its typed views, and the Nacos source that feeds it |
| `HttpRequest` | the requests of a server against admission, deadline and the two byte budgets |
| `HttpBinding` | a service from its declaration to the decoded arguments: macro, contract, request, route table |
| `HttpResponse` | a result or error from the service to its caller, over relaying servers and foreign peers |
| `UriReference` | `is_valid_uri_reference` next to the grammar of RFC 3986 |
| `Assembly` | the configuration sections, their builders and what `build()` makes of them |
| `NacosRegistry` | registration and discovery through Nacos: encoding, `SnapshotGate`, decoding |
| `ClientConnect` | `ClientBuilder::connect` and the protocol of the calls that follow |
| `MCBoundaries` | small instances of `HttpBinding`, `HttpResponse`, `UriReference`, `Assembly`, `NacosRegistry`, `ClientConnect`, `EndpointBreakers` and `MCRollingWindow`, side by side in one state space |
| `*Proofs` | theorems and proofs about the module they extend; six have parts about other modules, through instances: `CircuitBreakerProofs` (`EndpointBreakers`, `MCRollingWindow`), `SubscriptionProofs` (`NacosRegistry`), `ServerLifecycleProofs` (`HttpBinding`), `ClientInvocationProofs` (`ClientConnect`), `HotConfigProofs` (`Assembly`), `HttpRequestProofs` (`HttpResponse`) |
| other `MC*` | the root modules of TLC's runs |

Composition goes through the contracts. `AdmissionGate` is shown to implement
`AdmissionContract`, and `ServerLifecycle` and `ClientInvocation` use the contract in
its place (`HttpRequest` states the contract's guards itself);
`RegistryLifecycle` and `HotConfig` are shown to implement `ProviderContract`, which
`Subscription` and `ServerLifecycle` rely on. In both, an action of the contract
that the surrounding code causes (for example the start of an activation) is
taken together with the code's step, and one that the provider takes is a step of
its own.

Definitions whose comment describes a mistake ("A breaker without epochs...",
"A drop that leaves the decision...") are the mutated forms listed under
`mutants`: no specification uses them. They show that a property can be broken by
a plausible error in the code it is about.

### Correspondence with the code

- **AdmissionGate.** `state`, `permits`/`permitsClosed`, `active` are the fields
  of `AdmissionGate`; `queue` is the set of callers with a slot of the queue's
  semaphore. The program counter of a caller names the atomic operation it is
  about to execute, from the first load of `try_enter` to the release of the
  permit; refusal, timeout and drop are actions. The coordinator runs
  `begin_draining` (compare-exchange, close, notify), then the loop of `drained`
  (create the `Notified`, load `active`, await), or gives up at its deadline.
- **RegistryLifecycle.** `start` is the state under the mutex, `waiters` and
  `observed` the two atomics, `activation`, `closing` and `closeSignal` the values in
  the watch channels. Every section between two points visible to others is an
  action; `Abort` is the runtime dropping the worker. `peers` is history: the
  calls made before the last waiter was cancelled.
- **RollingWindow / CircuitBreaker.** The variants of `MachineState` are spread
  over variables. `try_acquire` and `complete` are two steps each: read the clock;
  then everything under the lock. The clock moves between any two steps. Failure
  ratios are fractions of integers. The outcome of a call is any
  failure class, success, abandonment (drop) or `release_unattempted`.
- **Subscription.** `slot`, `retained` and the published directory are what the
  manager keeps for the selector; `owned` is what was given to
  `EndpointBreakers`; `spc` names the await the supervisor is at; `deadline` is
  `stale_deadline`. The provider publishes into its own directory (`raw*`). Revisions
  are kept modulo `RevisionModulus`, which is enough to see whether one moved.
- **ServerLifecycle.** `cpc` names the await of the coordinator, `tpc` that of the
  accept task, `act` and `cl` the progress of `activate_registrations` and
  `close_registrations` on each registration. A request checks the readiness and
  enters the gate in two steps. `expired` is the passing of the shared deadline;
  whatever waits for it moves only afterwards.
- **ClientInvocation.** `pc` names the await an invocation is at, or the stretch of
  code it is about to run; everything up to the next await is one action. `attempt` and
  `started` are the ordinal of the attempt and `attempts_started`; `wire` is what
  `AttemptObservation` saw. `endpointPermit` and `servicePermit` are the two breaker
  permits: held, or what their breaker was told. Interceptors, routers, load balancer
  and policy choose freely. A failed send and an error of the client's own code have the
  classes the constants allow; of the latter only those `classify_error` can give
  (`ClassesAssumption`). `bulkhead` tells a permit of the semaphore in the map
  (current) from one of an evicted semaphore (orphan). A dropped future is `Abandon`;
  the caller, the deadline and `force_cancel` differ in where they may cause it. The
  coordinator stores the state, closes the gate, waits for the drain and the
  subscriptions or for its deadline, and publishes.

- **EndpointBreakers.** `owners`, `references` are the memberships under their
  mutex (`lock`), `entries` the store under its own. A discovered lookup holds the
  first while it takes the second, a direct one takes only the second, with an instant
  read before; `replace_discovery` removes the store's entries with the membership
  lock held, one step each.
- **HotConfig.** The lifecycle variables are those of `RegistryLifecycle`; `baseline`
  and `raw` are the publisher's state, `view` what each typed view shows and how far
  its task is. The SDK listens before it fetches: `fetched` and `notified` may be
  of different versions, in either order.
- **HttpRequest.** `req[r]` has the place of a request and what it holds: bytes of its
  body, bytes reserved, bytes written. `try_add` is the load and the
  compare-and-exchange. A drop at any await (deadline, peer, cut) gives
  everything back.
- **HttpBinding.** `service` is the declaration (macro), the contract (descriptor) and
  the table; `request` has what the client encodes; `found` and `got` are what the
  server makes of it. `Escapes` is percent-encoding for the texts of the instance.
- **HttpResponse.** `outcome` is what a server has to answer, `sent` the response,
  `got` what the client decodes; `Relay` makes a decoded error the outcome of the next
  server. `ForeignResponses` are what other peers may answer.
- **Assembly.** A section is the record of its fields; the checks name the field
  they refuse, in the order of the code. `parts` is what the gates, budgets and pools
  were given.
- **NacosRegistry.** `BuildInstance` and `ToServiceInstances` are the two directions;
  `listed` is the Nacos server, `pending`/`shown` are `SnapshotGate` and the directory.
- **ClientConnect.** `builder` holds the setters' values and is consumed by
  `connect`; `selected` is the endpoint with its version, `wire` the connection: the
  pool, what it offered, what the peer chose. `slot` says how far `connect` got with the
  slot of its selector: `SubscriptionManager::acquire` finds or inserts it, with its
  supervisor, before it waits (`subscription.rs:85`), so a `connect` that fails or is
  dropped there leaves it `"kept"`. The slot may be shared with other clients of the
  selector; what happens inside it is `Subscription`'s. `runtime` is `"draining"` once
  the shutdown coordinator has stored its state and `"closing"` once the manager is
  closed too, since `connect` looks at the first and `acquire` at the second.

## 3. Runs

| Run | Bounds | Checks | Result |
|---|---|---|---|
| `gate` | 3 callers, 2 permits, 1 queue slot | `ImplementsContract`, `NobodyStuck` | holds |
| `registry` | 2 waiters, 1 closer, the last drop | `HandleTruthful`, `ImplementsContract`, `OperationsEnd` | holds |
| `breaker` | 3 callers, 2 probes, 2 successes to close, clock to 2 | `PhasesSound`, `ImplementsContract`, `SaturationEnds` | holds |
| `subscription` | 1 acquirer that returns, 1 endpoint, 2 generations | `SlotSound`, `NothingRetained`, `NoOverlap`, `EndsInTime` | holds |
| `server_safety` | 2 registrations closed one at a time, 1 connection, fatal after 2 failures | `ReadyMeansRegistered`, `DrainsInOrder`, `ResultTruthful` | holds |
| `server_liveness` | 1 registration, 1 connection | `ServerEnds` | holds |
| `invocation` | 2 invocations (one may be retried, up to 3 attempts), 1 endpoint with 1 bulkhead permit, 1 token and 1 refill | `VerdictsTrue`, `RetriesPaid`, `ShutdownClean`, `EverythingEnds` | holds |
| `hot_config` | 2 users, one with a typed view, 2 versions of the resource | `LastGood`, `ImplementsContract`, `SettlesDown` | holds |
| `http_request` | 2 requests, 1 or 2 at a time, budgets of 5 and 3 with reservations of 2 | `MemoryAccounted`, `RetryIsSafe`, `Answered` | holds |
| `boundaries` | the instances in `MCBoundaries` | 14 properties of 8 parts | holds |
| `retry_after` | one relaying server, delays up to 3 | `RetryAfterIsMinimum` | violated: finding 1 |
| `endpoint_bulkhead` | 2 endpoints, 1 map entry, 1 permit per endpoint | `EndpointBounded` | violated: finding 2 |

Several properties are conjunctions of named parts, each with its comment in the
module: `NobodyStuck` (`DrainWakes`, `WaitersReleased`), `HandleTruthful`
(`CloseOkMeansClean`, `SurvivorKeepsHandle`), `PhasesSound` (`ProbesAccounted`,
`OpenPeriodsDisjoint`), `SlotSound`, `NothingRetained` and `EndsInTime` of the
subscription, `DrainsInOrder`, `ResultTruthful` and `ServerEnds` of the server,
`VerdictsTrue` (`EndpointHearsTruth`, `ServiceHearsResult`), `SettlesDown`
(`ViewFollows`, `NothingLeftBehind`).

**The boundaries run.** The eight parts share no state, so that there is nothing to
interleave: `part` says whose behaviour it is, and the variables `x1` .. `x11` are
that part's. Each part keeps its own module, specification and properties;
`MCBoundaries` gives the constants and names the part's property again.

- *HttpBinding*: one or two operations over ten templates that overlap, repeat
  a placeholder, are escaped, or make the search turn back, eight sources for a second
  parameter, and texts that are empty, need escaping, or read as JSON.
  `CompiledStarts`, `RoutesRight` (against the best route by segment-wise
  comparison), `DeliveredAsCalled` (for the arguments that are delivered at all; the
  exceptions are below).
- *HttpResponse*: two hops, bodies at and above both limits, a client budget that is
  empty, half full and free. `OutcomeArrives`, `WaitsAsTold`, `NotAnothersAnswer`.
- *UriReference*: all texts of four of eleven characters, from nothing and from inside
  an authority, a bracketed address and an IPvFuture. `AcceptsUriReferences`. The parser
  of IPv6 literals is the standard library's and the same on both sides: what it takes is
  not compared.
- *Assembly*: two calls of setters over every field, with zero, one, and a number no
  semaphore takes. `WhatIsBuiltIsSound`.
- *NacosRegistry*: four registrations (IPv6, paths that are rewritten, two groups and
  versions), fourteen instances registered by others, two selectors, two changes.
  `CurrentWhenQuiet`, `FoundAsRegistered`.
- *ClientConnect*: every policy, mode and scheme, six sets of capabilities, peers that
  negotiate anything; `connect` is refused, fails, is dropped or meets the shutdown at any
  step. `ClientsAsTold`.
- *EndpointBreakers*: two selectors, two endpoints, two callers, two entries, three
  breakers. `Registry`, `ForgottenForCause`.
- *RollingWindow*: three buckets of two ticks, two records, clock to 7. `WindowExact`.

**Why the bounds are enough to be interesting.** With three callers, two permits
and one queue slot, a caller can be inside while another waits and a third is
refused or half-way in. Two waiters are the fewest of which one can be
answered while the other is cancelled as the last; the theorems cover any number.
The breaker's clock reaches the end of a first open period, so that it is
probed, opens again with the doubled and capped period, and closes, while a third
caller holds a permit of an older epoch. In the window's part the clock passes the
window (6 ticks) with records on both sides. The subscription's two
generations let a provider fail and be replaced; its acquirer calls again after
it was answered, so that it opens a slot and finds one. Two registrations closed
one at a time are the smallest case with an order and two batches; liveness
is checked with one, since with two it takes TLC too long: that a drop or a shutdown
in the middle of several activations in flight still ends is not shown, only that it is
safe (`server_safety`).

An invocation with three attempts and one token finds the budget empty, refilled, and at
its capacity; the other must not be retried, and keeps the bulkhead full or leaves it
free. Of the failure classes the run has one that is retried and one that is not, from
the wire and from the client's own code; two of the four are counted by the breakers.

The request budget of 5 is less than two bodies of 3, and with reservations of 2 the
growth of one request fails in the middle because of the other. Two versions of a
configuration let a fetch return the older one after the newer was notified.

The queue, the connection limit and the failure tracker are exercised at their
limits. `MaxClock`, `MaxRecords`, `MaxGenerations`, `MaxRefills`, `RevisionModulus`,
`MaxVersions`, `MaxHops`, `MaxSeconds`, `MaxTyped`, `MaxSets`, `MaxChanges`, `MaxTime` and
`MaxBreakers` are bounds of the models, not of the code; at `MaxClock` time stops but
callers go on.

`CHECK_DEADLOCK FALSE` is set for the registry, the subscription, the server, the
client, the configuration handle, the requests and the boundaries: each of these ends,
with all its tasks finished or its question answered.

### Fairness

- `AdmissionGate`: a task that is in the middle of its atomic operations goes on.
  Holding a guard, waiting in the queue and starting a call are not assumed to end.
- `RegistryLifecycle`: the worker, woken futures and everybody inside
  `request_close` go on; nothing is assumed of the provider, nor that a future is ever
  polled for the first time.
- `CircuitBreaker`: a permit is completed: an invocation ends by its deadline and
  a permit nobody finished is finished by its `Drop`.
- `Subscription`: the supervisor goes on; the deadlines of activation and of the
  shutdown pass; the provider ends what it was asked to do. The stale
  deadline is the last branch of a `biased` select and is taken (strong fairness)
  if it finds the other branches idle again and again.
- `ServerLifecycle`: the coordinator and the transport go on and the deadlines pass.
  Nothing is assumed of providers, peers and requests, except in
  `NothingStaysRegistered`, whose hypothesis says that providers finish.

- `ClientInvocation`: the coordinator and invocations that are not waiting go on, the
  deadline of a call passes and a forced shutdown is noticed. Interceptors, the network,
  callers and subscriptions may take for ever.
- `HotConfig`: the worker, woken futures, closers and the tasks of the views go on; the
  provider answers and the SDK delivers its notifications in the end.
- `HttpRequest`: a request goes on between its awaits, and its queue timeout and
  deadline pass. Peers, bodies and handlers may take for ever.

Tokio's scheduler runs every task that is woken, and its timers fire: this is what
weak fairness of a task's steps says.

### Findings

1. *A delay is forgotten* (`fusen/src/wire/problem.rs:347`). A problem document whose
   `status` member differs from the response's status is answered by
   `status_error` with an empty header map: the `Retry-After` of the response is lost, and
   the retry comes after the ordinary back-off. `docs/modules/client.md:24` says that
   `Retry-After` is the minimum wait; the other paths of `decode_problem` pass the headers.
2. *A bulkhead in use is evicted* (`fusen/src/client/runtime.rs:402`). When the map
   holds `max_endpoint_entries` keys, `endpoint_bulkhead` removes an arbitrary one,
   also one whose semaphore has permits out; the next attempt to that endpoint gets a fresh
   semaphore and the endpoint more requests than `max_in_flight_per_endpoint`.
   `docs/modules/client.md:32` and `README.md:167` promise the bound.

### Disagreements met while modelling, without a run

Lifecycles:

- A waiter of a registry handle that is polled for the first time outside a Tokio runtime
  gets an error, but `waiter.complete()` stores `activation_observed`
  (`fusen-register/src/lib.rs:342`); if the real waiter is then cancelled, its success is not
  compensated. `docs/architecture.md:88` and the comment at `fusen-register/src/lib.rs:182`
  promise that it is.
- `publish` increments the revision unconditionally
  (`fusen-register/src/directory.rs:190`), and the supervisor publishes the first snapshot
  of a generation twice; `docs/modules/registry-nacos.md:22` says that the revision moves
  only on a change.
- One registry close that exceeds its own timeout makes the server's result `Timeout`
  (`fusen/src/server/mod.rs:990`), ahead of a fatal accept error;
  `fusen/src/error/lifecycle.rs:124` and `docs/modules/shutdown.md:33` speak of the shared
  deadline, which need not have passed. `ResultTruthful` states what the code does:
  `Timeout` is reported only when the deadline passed or a close timed out (`TimedOut`),
  and only then in place of a fatal accept error.
- A `connect` that fails or is dropped while it waits for its first directory leaves a
  running subscription behind, which counts against `max_subscriptions` until the runtime
  shuts down (`fusen/src/client/subscription.rs:93`). No document says otherwise;
  `ClientsAsTold` states it.
- An interceptor can make a local error with a retry hint, which is classified as a
  transport failure, retried, and counted by the service's breaker once something was
  sent; `docs/modules/errors.md` says that interceptor errors are neither retried nor held
  against a breaker. `Response::attempts()` (`fusen/src/context.rs:403`) is the ordinal of
  the last attempt sent, which is more than the number sent if one was blocked.
- A client that reads its response slowly holds its permits and bytes for as long: sending
  has no timeout. `Answered` ends where the sending begins.

Binding (those the instance reaches are `Exceptional` in `HttpBinding`):

- An empty path value, and one that equals a sibling literal, lead to another route. A
  header parameter named like a connection header is stripped on the way, a cookie inside
  a header map is skipped. A null map arrives as an empty one, a list of one element inside
  a map as a scalar, and the call's own headers turn up in a header map.
- Header names that the runtime owns are accepted by the contract, and no call that gives
  them a value can be encoded.
- Two header names that differ only by case compile and start, since the contract compares
  names as written (`fusen-contract/src/service.rs:809`). A call that gives both is rejected
  locally; one that gives `None` for either delivers the other's value to both, the headers
  of HTTP being the same (`OneHeaderTwice`, found by the proof of `CallsArriveAsCalled`).
  `README.md:64`: "Every non-context wire name must remain unique where the source is named."

Responses:

- `docs/modules/server.md:19` and `:29`, `README.md:121` and
  `docs/modules/transport-codec.md:67` call some 503 and 500 answers not retryable; the
  client derives the hint from the status alone.
- An application's error in answer to HEAD arrives as one of the framework, since
  it has no body. A relayed error loses details, headers and delay. An error document
  above the client's limit becomes a local error. Growth rounds up to whole chunks,
  where `docs/modules/transport-codec.md:65` speaks of at most 4 KiB at a time.

Configuration:

- Validation has no upper bounds: a concurrency above `Semaphore::MAX_PERMITS` panics in
  `build()` (`phase = "panicked"` of `Assembly`), `max_in_flight_per_endpoint` above it, which
  `Assembly` leaves out of the parts it follows, at the first attempt to an endpoint
  (`client/runtime.rs:411`), and a duration near its maximum where it
  is added to an instant (`runtime/deadline.rs:9`, `server/mod.rs:575` and `:686`).
- A byte budget that equals the body limit but is no multiple of 4 KiB refuses
  chunked bodies that would fit. `max_open_duration` may be less than `open_duration`.

Nacos:

- A base path loses empty segments and its trailing slash, and escapes are rewritten; one
  with escapes that are not UTF-8 is registered but found by no client. An unset group and
  `DEFAULT_GROUP` are the same. A delayed event may for a while show a list older than
  the fetched one.

## 4. Proofs

Proved by TLAPS for every value of the constants that satisfies the named
assumptions (finite sets of callers or waiters, limits and thresholds of at
least one where the configuration validates that).

**`AdmissionGateProofs`** (`TypeCorrect`, `LimitsRespected`, `DrainIsQuiet`,
`NoLateEntry`, `Refinement`). That the coordinator reads `active = 0` says nothing
about guards unless `active` counts them, so the inductive invariant `Inv` adds
the accounting: `permits + |Holders| = Limit` and `active = |Counted|`, where guards
are among the counted and the counted among the holders. With it a read of zero
means that there is no guard; that none appears later is the second check of the state.

**`RegistryLifecycleProofs`** (`TypeCorrect`, `CloseIsClean`, `SurvivorSafe`,
`HandleIsTruthful`, `PublishedOnce`, `Refinement`). Two halves. `Ownership` says which results can be
there for each state of the mutex and of the worker: it is why each is published
once. `Waiting` says that the count is exact, that whoever has been answered has
stored `activation_observed` *before* leaving the count, and that the calls made
before the last cancellation have all left; so the last cancelled waiter, who loads
the flag afterwards, sees it if one of them was answered.

**`CircuitBreakerProofs`** (`TypeCorrect`, `ProbesExact`, `PeriodsDisjoint`,
`PhasesAreSound`, `Refinement`; for `EndpointBreakers` `BreakersAreKept`,
`BreakersForgetForCause`; for `MCRollingWindow` `WindowsAreExact`). `Inv` adds to `ProbesAccounted` that the instant a live caller
brings to `complete` is not before the end of the last open period (`Timing`):
the caller got its permit after that end and read the clock later. This is what makes
an instant read before the lock harmless. The window's operators are proved to
preserve its type, saturation included.

`EndpointBreakers!Registry` is about entries, memberships and reference counts that are
changed under two locks. It is inductive with `LockHeld` (what a selector is evicting is
listed by nobody and the lock is still its own; an attempt that is about to store the
breaker of a discovered endpoint holds the lock and saw a positive count) and `Stored`
(finitely many entries, with breakers made before, so that a new one is nobody's). The
hypothesis `KeptLimits` says that selectors are finitely many, that the store has room for
at least one breaker, as `max_endpoint_entries` is validated, and that those who take the
lock can be told apart. `ForgetsForCause` follows step by step from the same invariant.

`WindowExact` compares counters in a ring of buckets with a log of what was recorded. The
invariant `RollingInv` says that there is an account of the counters: each outcome of the
log is held by at most one slot; a slot counts what it holds, up to the saturation
limit; what it holds was recorded while that slot was the current one, as many bucket
widths ago as the slot is behind the current one (`Age`); and what no slot holds any more
is older than the window (`Timed`). An advance drops what the slots it resets held
(`AdvanceKeeps`), a record gives the new outcome to the current slot (`RecordKeeps`). The
totals are sums over the slots: that the recursive function behind the fold exists
(`SumExists`), and that the sum of saturated counts is at most the number of outcomes held and
at least that number up to the saturation limit (`SumsCount`), is shown by induction on the
number of buckets.

**`ClientInvocationProofs`** (`TypeCorrect`, `BreakersHearTruth`, `ServiceHearsFinal`,
`VerdictsAreTrue`, `ShutdownIsClean`, `RetriesArePaid`; for `ClientConnect`
`ClientsTalkAsTold`). What a permit is told is decided at one place from facts that were
established at others, so `Inv` has for each place (`Local`) which permits are held, that
`started = attempt` exactly if something was sent in this attempt, that a response which
still carries permits belongs to an attempt without an observed failure, and that a
response "from the wire" goes with an answer. `Told` is the two promises for one
invocation; a step changes one invocation and `Frame` carries the others over.
`Global` ties the gate to the places (`inside`), the pool to the quiet gate or the forced end, and
the published result to the coordinator's.

`RetriesPaid` compares a number of retries with a number of tokens, so it is stated by a
cardinality: `Retries` has one element for each attempt after the first that was made or is
due. It is inductive with `Inv`. Only the decision to retry makes it larger, by one
element, and takes the token in the same step (`OneDue`); every other step makes
nothing due that was not (`NoneDue`).

For `ClientConnect`, `ConnectsAsTold` says what each end of `connect` leaves: a client is
handed out with its directory or without a slot, a refusal leaves no slot, a failure or a
drop leaves it kept. It is inductive together with the fact that a `connect` with a slot
has passed its checks and is for `Discovery` (`Built`). `SpeaksAsTold`
needs to know that there is one client and one selected endpoint at a
time, and that the endpoint was selected under the client's policy (`Routed`); what a
connection may speak then depends on its pool alone (`SpokenByPool`), whatever the peer
offers. The hypothesis `ConnectLimits`: request ids hash to numbers and
`http2_connections_per_host` is not zero (validated, see `Assembly`).

**`SubscriptionProofs`** (`TypeCorrect`, `SlotIsSound`, `NothingIsRetained`,
`GenerationsDisjoint`; for `NacosRegistry` `NacosIsCurrent`, `ServersAreFoundAsRegistered`). Slot, directory, stale
deadline and breakers are written by different functions between awaits, while acquirers,
the provider and the shutdown move; `Published` says how they belong together at
each place of the supervisor, `Generation` that whoever is about to prepare, or has left
the loop without a failure, has closed the handle before, and `Ending` how far the
shutdown can have come.

For Nacos the last list that was heard, or is still on its way, is the list as it is
(`UpToDate`): while the listener is installed, the last event in the queue; without one,
the pending snapshot; without that, between fetch and initialize, the healthy part of the
list that was fetched; and afterwards what is shown. That the fetch asks for healthy
instances and events bring all of them makes no difference to what is shown
(`ViewOfHealthy`). For this nothing is assumed of servers, selectors or instances.

That a server is found as it registered is a statement about data: decoding undoes encoding
for what the constructors of the contract let pass. The hypothesis `ValidServers` states it
of the registrations (`IsValid`: ids, endpoints, capabilities, finite positive weights and
metadata without reserved keys, as `InstanceId`, `ServiceEndpoint`, `EndpointCapabilities`,
`ServiceWeight` and `validate_user_metadata` require) and of the instances others put into
Nacos that they do not take the id of a server. The invariant `ListedAsWritten` says that
whatever Nacos lists differs from what someone wrote only in what Nacos may change
(`Variants`: healthy, enabled, weight); the theorem decodes field by field.

**`ServerLifecycleProofs`** (`TypeCorrect`, `ReadyIsRegistered`, `DrainIsOrderly`,
`ResultIsTruthful`; for `HttpBinding` `WhatCompilesStarts`, `EveryPathIsRoutedRight`,
`RoutesAreRight`, `CallsArriveAsCalled`), for any number of registrations and connections. Coordinator, accept
task, connections and providers move independently, and each property compares what one
of them published with where the others are. `Inv` therefore has a part for each:
`Stages` (what the coordinator has published), `Registered` (phase, activation and close of
a registration), `Visitors` (whoever is inside came to a server that was ready),
`Accepting` (when the listener is closed, and that a fatal failure is never lost),
`Closes` (the order of the closes), `Counts` (operations in flight), `Overdue` (the
end is forced, and the transport is late, only once the deadline has passed) and
`Outcome`, which ties each terminal result to what it claims, `Timeout` to `TimedOut`.

The search of the route table is a recursive function: at a segment it takes the literal
child if there is one and, when nothing is found below it, goes back to the placeholder.
`SearchIsDefined` shows that such a function exists, for paths of every length, and
`BestIsFound`, by induction on the segments that are left (`LeastNumber`, from the
well-foundedness of the numbers), that on a table whose routes have different shapes it
finds the best route that fits, or nothing exactly if none does. `BindingInv` says that the
table of a service that compiled is such a table (`TableIsBuilt`), and that client and
server have the same operations. The hypothesis `WellFormedTemplates`: a template is a
sequence of literals and placeholders, which is what the parser makes of any text.
`EveryPathIsRoutedRight` is about every path; `RoutesRight`, as a run checks it, about those
of the constants.

`CallsArriveAsCalled` is `DeliveredAsCalled` for any templates, methods and texts; that a
service has at most two operations, and the called one at most two parameters, is part of the
model (`Init`, `DeclareParameter`, `DeclareMethod`). Its invariant `CallInv` says that a request under way is what
`Encode` made of the arguments, and that the route, the verdict and the values found so far
are what decoding that request gives; with `Declared` (the service compiled) and `BindingInv`.
Three lemmas carry the argument:

- the request finds its own route (`OwnRouteIsFound`): its path splits into its segments,
  and no sibling literal fits better, or the call is exceptional;
- what is selected by name from parts joined together is what one of the parts sent under
  that name (`NamedOfParts`; for this, that the recursive functions of `Gather`
  exist, as for the search);
- only one parameter sends under a name (`ParameterSendsAlone`, `MapSendsAlone`).

From these follows one lemma for each place a value may be in (`PathArgument`,
`QueryArgument`, `CookieArgument`, `HeaderArgument`, `BodyArgument`, `QueryMapArgument`,
`HeaderMapArgument`), and `RefusedForCause` for the calls the server refuses. The hypotheses,
`CallHypotheses`: templates are well formed and no segment of theirs is empty
(`SegmentsAreFull`, as `validate_route` requires); texts are such that the model's encoding
can be undone (`TextsAreUnescaped`: none is itself one of the encoded forms `Escapes` knows);
the sources offered for the second parameter are sources of the contract; the limit of query pairs is a
natural number.

**`HttpRequestProofs`** (`TypeCorrect`, `MemoryIsAccounted`, `RetriesAreSafe`; for
`HttpResponse` `OthersAnswersAreRefused`, `OutcomesArrive`, `DelaysArrive`).
`MemoryAccounted` counts the bytes held as a set, `Paid`, with one element for each byte of
each live permit. Nearly every action replaces one request by one that holds no more, so
the invariant is a predicate of a single request (`Good`: what is in memory is paid for,
also for the size a `try_add` in progress will go on with; the handler is called
after the body is read; what runs under the guard has it) and two counts, which follow a
replacement by `ReplaceKeeps`. The compare-and-exchange step is the only one that adds.

An answer passes through encoding, limits and decoding once for each server that relays it.
The invariants say what is true of it at each place: `Carries` of the response on the wire
(its status is that of the first service's outcome, its problem reports that outcome, and on
the first hop headers, size, message, details and delay are the service's), `Hears` of what a
client made of it, which the next server raises again. That the status of a category leads back to it (`CanonicalIsInjective`)
is what lets an outcome pass through any number of servers unchanged. The hypothesis
`ResponseLimits`: the emergency answer fits its own limit, and no server asks for a delay
that the number of seconds cannot hold.

**`HotConfigProofs`** (`TypeCorrect`, `ViewsShowLastGood`, `HotHandleImplementsContract`;
for `Assembly` `BuiltIsSound`). `Ownership` gives the results that the worker's place
implies, as for the registry handle, and the refinement follows from it. `Following` adds
to `LastGood` what a view's task holds while it parses: the document in the channel,
or an older one with a newer revision still to be seen.

For `Assembly` the invariant is that every section, built or not, has its fields with
numbers in them (`Filled`), since builders check nothing before `build()`; soundness is
then a lemma about the validators (`SoundClient`, `SoundServer`), which are run
on the whole again. The hypothesis `Unsigned`: setters take unsigned numbers, as their
types say.

Each refinement theorem (`Refinement`, `HotHandleImplementsContract`) shows that initial
states are initial states of the contract and every step a step or a stutter of it.

The type invariants are proved rather than checked by runs of their own.

Only model-checked:

- liveness (fairness and `ENABLED` are beyond the prover): `DrainWakes`, `WaitersReleased`,
  `EndsInTime`, `ServerEnds`, `SettlesDown` and their like;
- `AcceptsUriReferences`: two descriptions of a set of texts, one of them a grammar; they are
  compared on bounded texts;
- whatever the two runs refute that expect a violation: it is not a theorem.

## 5. Not modelled

- Memory orderings weaker than sequential consistency: the gate uses `AcqRel` and
  `Acquire`; the model interleaves whole operations.
- Redaction (`projection.rs`, `sensitive.rs`, the derive macro) and observability:
  transformations of texts and recording of events, without effect on the rest.
- Code generation of the macros: its output, the contract, is where `HttpBinding`
  begins. What `validate.rs` accepts is modelled.
- JSON text: serde's. Values are modelled by their shape (scalar, list, map, null) where
  the code looks at it.
- Loading of static configuration: file I/O. Whether a document parses is a free choice
  in `HotConfig`.
- The transition observers of the breaker, called after the lock is released: they feed
  metrics only.
- Sockets, hyper, TLS, the Nacos SDK and the Nacos server: external; they choose
  freely what the code in the repository must cope with.
- In an invocation: the length of the back-off and metrics. The breakers grant and reject
  freely there; `CircuitBreaker` has what they do with what they hear.
- Other selectors of a subscription manager, except through the limit that may
  refuse an `acquire`.

## 6. Plan

Done, in this order: gate, registry handle, breaker, subscription, server, client
invocation with the client's shutdown; the proofs of gate, registry handle, breaker and
invocation; endpoint breakers, hot configuration, request pipeline with the byte budgets,
binding and routes, responses, URI references, configuration, Nacos, client builder.

Then the proofs of subscription, server, request pipeline, hot configuration, retry budget,
endpoint breakers, Nacos subscriptions, configuration and client builder; and those about
data: responses over any number of servers, registrations through Nacos, the search of the
route table, the rolling window, the arguments of a call.

Next, most important first:

1. The parts of the invocation that are chosen freely now: the length of the back-off, and
   the breakers of an endpoint in place of free grants.
2. That `ServerLifecycle` and `ClientInvocation` use the gate only as `AdmissionContract`
   lets them, and `Subscription` a handle only as `ProviderContract` does, as theorems.
   They use the contracts' actions or state their guards, so that little can go wrong.
