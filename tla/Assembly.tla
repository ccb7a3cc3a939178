------------------------------- MODULE Assembly -------------------------------
(***************************************************************************)
(* How client runtimes and servers are configured and put together         *)
(* (client/config.rs, server/config.rs, ClientRuntimeBuilder::build,       *)
(* ServerBuilder::build): every section of a configuration has a builder   *)
(* that starts from defaults, sets fields and is validated when it is      *)
(* built, with the sections it contains; the whole is validated again      *)
(* before the gates, budgets, breakers and pools are made of it.           *)
(*                                                                         *)
(* Durations are in milliseconds, sizes in bytes, ratios in percent; an    *)
(* option that is not set is None.  A section is kept under its name and   *)
(* not inside the sections it is copied into.                              *)
(***************************************************************************)
EXTENDS Integers, FiniteSets

CONSTANTS Values,      \* what callers pass to the setters
          Bytes,       \* what they pass as an u8
          MaxPermits,  \* Semaphore::MAX_PERMITS
          MaxSets      \* bound on the calls of setters

None == -1

VARIABLES
  draft,   \* the builder in use: its section and its fields, {} when none is
  made,    \* the sections that were built
  sets,    \* how often a setter was called
  phase,   \* "configuring", "rejected", "panicked", "client" or "server"
  fault,   \* the field a rejection names
  parts    \* what the components were given: AdmissionGate, ByteBudget, ...

vars == <<draft, made, sets, phase, fault, parts>>

-----------------------------------------------------------------------------
(***************************************************************************)
(* Defaults                                                                *)
(***************************************************************************)

QueueConfig == [capacity |-> 0, max_wait |-> 50]

ClientAdmissionConfig ==
  [max_in_flight |-> 1024, max_in_flight_per_endpoint |-> 128,
   max_request_body_bytes |-> 2097152, max_response_body_bytes |-> 2097152,
   max_inflight_request_body_bytes |-> 67108864, max_inflight_response_body_bytes |-> 67108864]

DiscoveryConfig ==
  [initial_timeout |-> 5000, operation_timeout |-> 5000, close_timeout |-> 5000,
   max_staleness |-> 30000, reconnect_base |-> 100, reconnect_cap |-> 30000,
   max_subscriptions |-> 1024]

RetryConfig ==
  [max_attempts |-> 3, backoff_base |-> 10, backoff_cap |-> 200, budget_capacity |-> 100,
   budget_refill_per_second |-> 10]

EndpointThreshold ==
  [window |-> 10000, buckets |-> 10, minimum_samples |-> 20, failure_ratio |-> 50,
   open_duration |-> 10000, half_open_probes |-> 1, close_successes |-> 2]

ServiceThreshold ==
  [window |-> 30000, buckets |-> 10, minimum_samples |-> 50, failure_ratio |-> 60,
   open_duration |-> 15000, half_open_probes |-> 2, close_successes |-> 3]

CircuitBreakerConfig ==
  [max_open_duration |-> 120000, max_endpoint_entries |-> 10000, idle_eviction |-> 600000]

ClientHttpConfig ==
  [http1_max_idle_per_host |-> 128, pool_idle_timeout |-> 90000, http2_connections_per_host |-> 1,
   http2_keep_alive_interval |-> None, http2_keep_alive_timeout |-> 20000]

ClientConfig ==
  [request_timeout |-> 10000, connect_timeout |-> 3000, shutdown_timeout |-> 30000]

ServerRequestConfig ==
  [timeout |-> 30000, max_concurrent_requests |-> 1024, max_request_body_bytes |-> 2097152,
   max_response_body_bytes |-> 2097152, max_inflight_request_body_bytes |-> 67108864,
   max_inflight_response_body_bytes |-> 67108864, queue_capacity |-> 0, queue_max_wait |-> 50]

HttpServerConfig ==
  [max_connections |-> 2048, max_uri_bytes |-> 8192, max_query_pairs |-> 128, max_headers |-> 64,
   max_header_bytes |-> 32768, http1_header_read_timeout |-> 10000,
   http2_max_concurrent_streams |-> 128, http2_keep_alive_interval |-> 30000,
   http2_keep_alive_timeout |-> 10000]

ServerRegistryConfig ==
  [startup_timeout |-> 30000, operation_timeout |-> 5000, max_concurrent_operations |-> 8]

\* The bindings of the capabilities: http-json-v1 alone, or not.
ServerConfig ==
  [bindings |-> {"http-json-v1"}, graceful_shutdown_timeout |-> 30000]

Defaults ==
  [queue |-> QueueConfig, admission |-> ClientAdmissionConfig, discovery |-> DiscoveryConfig,
   retry |-> RetryConfig, endpoint |-> EndpointThreshold, service |-> ServiceThreshold,
   circuit_breaker |-> CircuitBreakerConfig,
   client_http |-> ClientHttpConfig, client |-> ClientConfig, request |-> ServerRequestConfig,
   server_http |-> HttpServerConfig, registry |-> ServerRegistryConfig, server |-> ServerConfig]

-----------------------------------------------------------------------------
(***************************************************************************)
(* Validation: the fields that are wrong, with those of the sections       *)
(* inside                                                                  *)
(***************************************************************************)

Zero(config, fields) == {f \in fields : config[f] = 0}

QueueFaults(m) == IF m.queue.capacity > 0 /\ m.queue.max_wait = 0 THEN {"max_wait"} ELSE {}

\* Without the comparison of a body with the budget.
AdmissionFaultsAlone(m) ==
  Zero(m.admission, {"max_in_flight", "max_in_flight_per_endpoint", "max_request_body_bytes",
                     "max_response_body_bytes"})
    \cup QueueFaults(m)

\* A body of the largest size must fit the budget of all of them.
BudgetFaults(c) ==
  (IF c.max_inflight_request_body_bytes < c.max_request_body_bytes
     THEN {"max_inflight_request_body_bytes"} ELSE {})
    \cup (IF c.max_inflight_response_body_bytes < c.max_response_body_bytes
            THEN {"max_inflight_response_body_bytes"} ELSE {})

AdmissionFaults(m) ==
  Zero(m.admission, {"max_in_flight", "max_in_flight_per_endpoint", "max_request_body_bytes",
                     "max_response_body_bytes"})
    \cup BudgetFaults(m.admission)
    \cup QueueFaults(m)

DiscoveryFaults(c) ==
  Zero(c, {"initial_timeout", "operation_timeout", "close_timeout", "reconnect_base",
           "reconnect_cap", "max_subscriptions"})
    \cup (IF c.reconnect_base > c.reconnect_cap THEN {"reconnect_base"} ELSE {})

RetryFaults(c) ==
  (IF c.max_attempts \in 1 .. 3 THEN {} ELSE {"max_attempts"})
    \cup Zero(c, {"backoff_base", "backoff_cap", "budget_capacity", "budget_refill_per_second"})
    \cup (IF c.backoff_base > c.backoff_cap THEN {"backoff_base"} ELSE {})

ThresholdFaults(c) ==
  Zero(c, {"window", "buckets", "minimum_samples", "open_duration", "half_open_probes",
           "close_successes"})
    \cup (IF c.failure_ratio \in 0 .. 100 THEN {} ELSE {"failure_ratio"})

CircuitBreakerFaults(m) ==
  ThresholdFaults(m.endpoint) \cup ThresholdFaults(m.service)
    \cup Zero(m.circuit_breaker, {"max_open_duration", "max_endpoint_entries", "idle_eviction"})

\* An option may not be set, but not to zero.
ClientHttpFaults(c) ==
  Zero(c, {"pool_idle_timeout", "http2_connections_per_host", "http2_keep_alive_interval",
           "http2_keep_alive_timeout"})

ClientFaults(m) ==
  Zero(m.client, {"request_timeout", "connect_timeout", "shutdown_timeout"})
    \cup AdmissionFaults(m) \cup DiscoveryFaults(m.discovery) \cup RetryFaults(m.retry)
    \cup CircuitBreakerFaults(m) \cup ClientHttpFaults(m.client_http)

RequestFaults(c) ==
  Zero(c, {"timeout", "max_concurrent_requests", "max_request_body_bytes", "max_response_body_bytes"})
    \cup BudgetFaults(c)
    \cup (IF c.queue_capacity > 0 /\ c.queue_max_wait = 0 THEN {"queue_max_wait"} ELSE {})

ServerHttpFaults(c) ==
  Zero(c, {"max_connections", "max_uri_bytes", "max_query_pairs", "max_headers", "max_header_bytes",
           "http1_header_read_timeout", "http2_max_concurrent_streams", "http2_keep_alive_interval",
           "http2_keep_alive_timeout"})

RegistryFaults(c) ==
  Zero(c, {"startup_timeout", "operation_timeout", "max_concurrent_operations"})

ServerFaults(m) ==
  (IF m.server.bindings = {"http-json-v1"} THEN {} ELSE {"bindings"})
    \cup RequestFaults(m.request) \cup ServerHttpFaults(m.server_http)
    \cup RegistryFaults(m.registry) \cup Zero(m.server, {"graceful_shutdown_timeout"})

Faults(section, m) ==
  CASE section = "queue" -> QueueFaults(m)
    [] section = "admission" -> AdmissionFaults(m)
    [] section = "discovery" -> DiscoveryFaults(m.discovery)
    [] section = "retry" -> RetryFaults(m.retry)
    [] section \in {"endpoint", "service"} -> ThresholdFaults(m[section])
    [] section = "circuit_breaker" -> CircuitBreakerFaults(m)
    [] section = "client_http" -> ClientHttpFaults(m.client_http)
    [] section = "client" -> ClientFaults(m)
    [] section = "request" -> RequestFaults(m.request)
    [] section = "server_http" -> ServerHttpFaults(m.server_http)
    [] section = "registry" -> RegistryFaults(m.registry)
    [] section = "server" -> ServerFaults(m)

-----------------------------------------------------------------------------
(***************************************************************************)
(* Builders                                                                *)
(***************************************************************************)

Init == /\ draft = {} /\ made = Defaults /\ sets = 0
        /\ phase = "configuring" /\ fault = "none" /\ parts = {}

\* Section::builder().  A threshold starts from either of two defaults.
Begin(section) ==
  /\ phase = "configuring"
  /\ draft = {}
  /\ \E c \in IF section \in {"endpoint", "service"} THEN {EndpointThreshold, ServiceThreshold}
               ELSE {Defaults[section]} :
       draft' = {[section |-> section, fields |-> c]}
  /\ UNCHANGED <<made, sets, phase, fault, parts>>

\* A setter: the field is replaced, whatever its value.
Set(section, fields, values) ==
  /\ phase = "configuring"
  /\ sets < MaxSets
  /\ \E d \in draft, f \in fields, v \in values :
       /\ d.section = section
       /\ draft' = {[d EXCEPT !.fields[f] = v]}
  /\ sets' = sets + 1
  /\ UNCHANGED <<made, phase, fault, parts>>

SetQueue == Set("queue", DOMAIN QueueConfig, Values)
SetAdmission == Set("admission", DOMAIN ClientAdmissionConfig, Values)
SetDiscovery == Set("discovery", DOMAIN DiscoveryConfig, Values)
SetRetry == \/ Set("retry", DOMAIN RetryConfig \ {"max_attempts"}, Values)
            \/ Set("retry", {"max_attempts"}, Bytes)
SetThreshold ==
  \E section \in {"endpoint", "service"} :
    \/ Set(section, DOMAIN EndpointThreshold \ {"buckets", "failure_ratio"}, Values)
    \/ Set(section, {"buckets"}, Bytes)
    \/ Set(section, {"failure_ratio"}, {-1, 0, 100, 101})
SetCircuitBreaker == Set("circuit_breaker", DOMAIN CircuitBreakerConfig, Values)
SetClientHttp ==
  \/ Set("client_http", DOMAIN ClientHttpConfig, Values)
  \/ Set("client_http", {"pool_idle_timeout", "http2_keep_alive_interval"}, {None})
SetClient == Set("client", DOMAIN ClientConfig, Values)
SetRequest == Set("request", DOMAIN ServerRequestConfig, Values)
SetServerHttp ==
  \/ Set("server_http", DOMAIN HttpServerConfig, Values)
  \/ Set("server_http", {"http2_keep_alive_interval"}, {None})
SetRegistry == Set("registry", DOMAIN ServerRegistryConfig, Values)
SetServer ==
  \/ Set("server", {"graceful_shutdown_timeout"}, Values)
  \/ Set("server", {"bindings"}, {{"http-json-v1", "other"}})

\* ConfigValidationError: one of the fields that are wrong is named, and what was
\* built before is of no more use.
Reject(faults) ==
  /\ \E f \in faults : fault' = f
  /\ phase' = "rejected"
  /\ made' = Defaults

\* build() of a section, and its copy in the section around it.
Build ==
  /\ phase = "configuring"
  /\ \E d \in draft :
       LET next == [made EXCEPT ![d.section] = d.fields]
           faults == Faults(d.section, next)
       IN \/ faults # {} /\ Reject(faults)
          \/ faults = {} /\ made' = next /\ UNCHANGED <<phase, fault>>
  /\ draft' = {}
  /\ UNCHANGED <<sets, parts>>

-----------------------------------------------------------------------------
(***************************************************************************)
(* What is made of a configuration                                         *)
(***************************************************************************)

Semaphores(sizes, built) == IF \A n \in sizes : n <= MaxPermits THEN built ELSE "panicked"

\* breaker_config
BreakerConfig(threshold, m) ==
  [width |-> threshold.window, buckets |-> threshold.buckets, samples |-> threshold.minimum_samples,
   ratio |-> threshold.failure_ratio, open |-> threshold.open_duration,
   maxOpen |-> m.circuit_breaker.max_open_duration, probes |-> threshold.half_open_probes,
   successes |-> threshold.close_successes]

ClientParts(m) ==
  [gate |-> m.admission.max_in_flight, queue |-> m.queue.capacity, wait |-> m.queue.max_wait,
   requestBudget |-> m.admission.max_inflight_request_body_bytes,
   responseBudget |-> m.admission.max_inflight_response_body_bytes,
   requestBody |-> m.admission.max_request_body_bytes,
   responseBody |-> m.admission.max_response_body_bytes,
   shards |-> m.client_http.http2_connections_per_host,
   breakers |-> {BreakerConfig(m.endpoint, m), BreakerConfig(m.service, m)},
   entries |-> m.circuit_breaker.max_endpoint_entries,
   attempts |-> m.retry.max_attempts,
   delays |-> {<<m.retry.backoff_base, m.retry.backoff_cap>>,
               <<m.discovery.reconnect_base, m.discovery.reconnect_cap>>},
   tokens |-> m.retry.budget_capacity,
   deadlines |-> {m.client.request_timeout, m.client.connect_timeout, m.client.shutdown_timeout,
                  m.discovery.initial_timeout, m.discovery.operation_timeout,
                  m.discovery.close_timeout}]

\* ClientRuntimeBuilder::build, inside a Tokio runtime or not, with bindings whose
\* names are free or not.
BuildRuntime ==
  /\ phase = "configuring"
  /\ draft = {}
  /\ \E outside \in {{}, {"tokio_runtime"}, {"http_bindings"}} :
       LET faults == ClientFaults(made) \cup outside IN
       IF faults # {} THEN Reject(faults) /\ UNCHANGED parts
       ELSE /\ parts' = {ClientParts(made)}
            /\ phase' = Semaphores({made.admission.max_in_flight, made.queue.capacity}, "client")
            /\ made' = Defaults
            /\ UNCHANGED fault
  /\ UNCHANGED <<draft, sets>>

ServerParts(m) ==
  [gate |-> m.request.max_concurrent_requests, queue |-> m.request.queue_capacity,
   wait |-> m.request.queue_max_wait,
   requestBudget |-> m.request.max_inflight_request_body_bytes,
   responseBudget |-> m.request.max_inflight_response_body_bytes,
   requestBody |-> m.request.max_request_body_bytes,
   responseBody |-> m.request.max_response_body_bytes,
   shards |-> m.server_http.max_connections, breakers |-> {},
   entries |-> m.registry.max_concurrent_operations,
   attempts |-> 1, delays |-> {}, tokens |-> 1,
   deadlines |-> {m.request.timeout, m.registry.startup_timeout, m.registry.operation_timeout,
                  m.server.graceful_shutdown_timeout, m.server_http.http1_header_read_timeout}]

\* ServerBuilder::build, and what Server::start makes of the configuration.
BuildServer ==
  /\ phase = "configuring"
  /\ draft = {}
  /\ \E outside \in {{}, {"address"}, {"advertised_endpoint"}, {"registries"}, {"services"}} :
       LET faults == ServerFaults(made) \cup outside IN
       IF faults # {} THEN Reject(faults) /\ UNCHANGED parts
       ELSE /\ parts' = {ServerParts(made)}
            /\ phase' = Semaphores({made.request.max_concurrent_requests,
                                    made.request.queue_capacity,
                                    made.server_http.max_connections}, "server")
            /\ made' = Defaults
            /\ UNCHANGED fault
  /\ UNCHANGED <<draft, sets>>

Next ==
  \/ \E section \in DOMAIN Defaults : Begin(section)
  \/ SetQueue \/ SetAdmission \/ SetDiscovery \/ SetRetry \/ SetThreshold \/ SetCircuitBreaker
  \/ SetClientHttp \/ SetClient \/ SetRequest \/ SetServerHttp \/ SetRegistry \/ SetServer
  \/ Build \/ BuildRuntime \/ BuildServer

Spec == Init /\ [][Next]_vars

-----------------------------------------------------------------------------
(***************************************************************************)
(* Properties                                                              *)
(***************************************************************************)

\* What the components rely on.
IsSound(p) ==
  /\ p.gate > 0 /\ p.shards > 0 /\ p.entries > 0
  /\ 0 < p.requestBody /\ p.requestBody <= p.requestBudget
  /\ 0 < p.responseBody /\ p.responseBody <= p.responseBudget
  /\ p.queue > 0 => p.wait > 0
  /\ p.attempts \in 1 .. 3 /\ p.tokens > 0
  /\ \A d \in p.delays : 0 < d[1] /\ d[1] <= d[2]
  /\ \A b \in p.breakers : /\ b.width > 0 /\ b.buckets > 0 /\ b.samples > 0 /\ b.open > 0
                           /\ b.maxOpen > 0 /\ b.probes > 0 /\ b.successes > 0
                           /\ b.ratio \in 0 .. 100
  /\ \A d \in p.deadlines : d > 0

\* Whatever was set, in whatever order sections were built, a runtime
\* or a server that comes into being was given what its components rely on: gates,
\* pools and windows that let someone through, budgets that hold a body of the
\* largest size allowed, a queue that can be waited in, breakers whose windows have
\* buckets and whose probes can close them, at most three attempts, back-offs with
\* a base under their cap, and no deadline that has passed when it is set.
WhatIsBuiltIsSound == phase \in {"client", "server"} => \A p \in parts : IsSound(p)
=============================================================================
