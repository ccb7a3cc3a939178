--------------------------- MODULE ClientInvocation ---------------------------
(***************************************************************************)
(* Logical invocations of one service by a client runtime, and the         *)
(* runtime's shutdown: client/invocation.rs with the retry decision of     *)
(* resilience/retry.rs and the maps and the coordinator of                 *)
(* client/runtime.rs.                                                      *)
(*                                                                         *)
(* An invocation goes through the gate, the ClientCall interceptors, the   *)
(* service breaker, and then attempts; an attempt selects an endpoint with *)
(* a permit of its breaker and goes through the ClientAttempt interceptors *)
(* and the endpoint's bulkhead to the wire.  The future may be dropped at  *)
(* every await: by its caller, by the deadline, by the forced end of a     *)
(* shutdown.  Its permits must hear the truth about what happened anyway.  *)
(*                                                                         *)
(* The gate is AdmissionContract, which AdmissionGate implements.  The     *)
(* breakers grant or reject freely here; what is modelled is what they are *)
(* told.  Interceptors, routers, load balancer and retry policy are user   *)
(* code and choose freely; a panic of one of them is an error of class     *)
(* InvalidRequest.  Metrics and spans are left out.                        *)
(***************************************************************************)
EXTENDS Naturals, FiniteSets

CONSTANTS
  Invocations,    \* each runs once
  Replayable,     \* those of a method that allows retries
  Endpoints,
  Limit,          \* admission.max_in_flight
  PerEndpoint,    \* admission.max_in_flight_per_endpoint
  MaxEntries,     \* circuit_breaker.max_endpoint_entries
  MaxAttempts,    \* retry.max_attempts
  Capacity,       \* retry.budget_capacity
  MaxRefills,     \* bound on the tokens replenished
  WireFailures,   \* the classes a send or the decoding of its answer may fail with
  LocalErrors     \* the classes of errors made by the client's own code

FailureClasses ==
  {"Connect", "Transport", "Timeout", "Unavailable", "RemoteServer",
   "RemoteFailure", "Protocol", "Application", "Overloaded",
   "InvalidRequest", "Cancelled", "LocalRejection"}

ASSUME InvocationsAssumption ==
  IsFiniteSet(Invocations) /\ Replayable \subseteq Invocations
ASSUME EndpointsAssumption == IsFiniteSet(Endpoints) /\ Endpoints # {}
ASSUME LimitsAssumption ==
  /\ Limit \in Nat \ {0} /\ PerEndpoint \in Nat \ {0}
  /\ MaxEntries \in Nat \ {0} /\ MaxAttempts \in Nat
  /\ Capacity \in Nat /\ MaxRefills \in Nat
\* classify_error never calls an error of the client's own code anything else.
ASSUME ClassesAssumption ==
  /\ WireFailures \subseteq FailureClasses
  /\ LocalErrors \subseteq {"Transport", "Timeout", "Cancelled", "Protocol",
                            "LocalRejection", "InvalidRequest"}

VARIABLES
  inside, phase,    \* the gate, see AdmissionContract
  coord,            \* where the shutdown coordinator is
  state,            \* ClientRuntimeInner.state
  subscriptions,    \* SubscriptionManager, as its closed() shows it
  force,            \* force_cancel
  pool,             \* the slot of the transport: open, or emptied
  ending,           \* the coordinator's local result
  completion,       \* what shutdown() returns
  tokens, refills,  \* RetryBudget, and what was replenished so far
  mapped,           \* the keys of endpoint_bulkheads
  pc,               \* where each invocation is
  attempt,          \* the ordinal of the attempt, 0 before the first
  started,          \* attempts_started
  attempted,        \* attempted_endpoints
  endpoint,         \* the selected endpoint
  wire,             \* what became of the request of this attempt
  bulkhead,         \* the permit of an endpoint bulkhead
  endpointPermit,   \* the permit of the endpoint's breaker, or what it heard
  servicePermit,    \* the permit of the service's breaker, or what it heard
  response          \* what the ClientCall interceptors have been given

gateVars == <<inside, phase>>
shutdownVars == <<coord, state, subscriptions, force, pool, ending, completion>>
budgetVars == <<tokens, refills>>
permits == <<endpointPermit, servicePermit>>
attemptVars == <<attempt, started, attempted, endpoint, wire>>
vars == <<gateVars, shutdownVars, budgetVars, mapped, pc, attemptVars,
          bulkhead, permits, response>>

Gate == INSTANCE AdmissionContract WITH Callers <- Invocations

NoEndpoint == "no endpoint"

InvocationPcs ==
  {"idle",     \* not called yet
   "admit",    \* in acquire_admission
   "encode",   \* admitted; about to encode and to take the transport
   "before",   \* in the ClientCall interceptors, on the way in
   "select",   \* about to select an endpoint
   "attempt",  \* in the ClientAttempt interceptors, on the way in
   "wire",     \* sending, or reading the answer
   "after",    \* in the ClientAttempt interceptors, on the way out
   "backoff",  \* asleep between two attempts
   "unwind",   \* in the ClientCall interceptors, on the way out
   "done"}     \* the future is gone

Outcomes == FailureClasses \union {"Success", "Abandoned", "Unattempted"}
Permits == Outcomes \union {"none", "held"}

\* AttemptObservation.failure is set.
Failed(i) == wire[i] \in FailureClasses

\* FailureClass::is_retryable
IsRetryable(class) ==
  class \in {"Connect", "Transport", "Timeout", "Unavailable", "Overloaded",
             "RemoteServer"}

HardMaxAttempts == 3

\* hard_attempt_limit
HardAttemptLimit == IF MaxAttempts = 0 THEN 1
                    ELSE IF MaxAttempts > HardMaxAttempts THEN HardMaxAttempts
                    ELSE MaxAttempts

Init ==
  /\ Gate!Init
  /\ coord = "waiting"
  /\ state = "Running"
  /\ subscriptions = "running"
  /\ force = "armed"
  /\ pool = "open"
  /\ ending = "none"
  /\ completion = "none"
  /\ tokens = Capacity
  /\ refills = 0
  /\ mapped = {}
  /\ pc = [i \in Invocations |-> "idle"]
  /\ attempt = [i \in Invocations |-> 0]
  /\ started = [i \in Invocations |-> 0]
  /\ attempted = [i \in Invocations |-> {}]
  /\ endpoint = [i \in Invocations |-> NoEndpoint]
  /\ wire = [i \in Invocations |-> "none"]
  /\ bulkhead = [i \in Invocations |-> "none"]
  /\ endpointPermit = [i \in Invocations |-> "none"]
  /\ servicePermit = [i \in Invocations |-> "none"]
  /\ response = [i \in Invocations |-> "none"]

-----------------------------------------------------------------------------
(***************************************************************************)
(* invoke, up to the service breaker                                       *)
(***************************************************************************)

Goto(i, to) == pc' = [pc EXCEPT ![i] = to]

\* The state is read here and the gate is asked later.
Start(i) ==
  /\ pc[i] = "idle"
  /\ Goto(i, IF state = "Running" THEN "admit" ELSE "done")
  /\ UNCHANGED <<gateVars, shutdownVars, budgetVars, mapped, attemptVars,
                 bulkhead, permits, response>>

Admitted(i) ==
  /\ pc[i] = "admit"
  /\ Gate!GoIn(i)
  /\ Goto(i, "encode")
  /\ UNCHANGED <<shutdownVars, budgetVars, mapped, attemptVars,
                 bulkhead, permits, response>>

\* Draining, no permit and no queue, the queue full, or the wait elapsed.
Refused(i) ==
  /\ pc[i] = "admit"
  /\ Goto(i, "done")
  /\ UNCHANGED <<gateVars, shutdownVars, budgetVars, mapped, attemptVars,
                 bulkhead, permits, response>>

\* The future ends, and with it the guard of the gate.
Leave(i) ==
  /\ Gate!GoOut(i)
  /\ Goto(i, "done")
  /\ attempted' = [attempted EXCEPT ![i] = {}]
  /\ response' = [response EXCEPT ![i] = "none"]
  /\ endpoint' = [endpoint EXCEPT ![i] = NoEndpoint]
  /\ bulkhead' = [bulkhead EXCEPT ![i] = "none"]

\* Arguments are encoded and the transport is cloned out of its slot.
Encode(i) ==
  /\ pc[i] = "encode"
  /\ pool = "open"
  /\ Goto(i, "before")
  /\ UNCHANGED <<gateVars, shutdownVars, budgetVars, mapped, attemptVars,
                 bulkhead, permits, response>>

\* encode fails or panics, or the pool is closed.
EncodeFails(i) ==
  /\ pc[i] = "encode"
  /\ Leave(i)
  /\ UNCHANGED <<shutdownVars, budgetVars, mapped, attempt, started, wire,
                 permits>>

\* The interceptors reach the terminal and the service breaker grants a permit.
Execute(i) ==
  /\ pc[i] = "before"
  /\ servicePermit' = [servicePermit EXCEPT ![i] = "held"]
  /\ attempt' = [attempt EXCEPT ![i] = 1]
  /\ Goto(i, "select")
  /\ UNCHANGED <<gateVars, shutdownVars, budgetVars, mapped, started,
                 attempted, endpoint, wire, bulkhead, endpointPermit, response>>

\* An interceptor answers by itself, or the service breaker is open.
ShortCircuit(i) ==
  /\ pc[i] = "before"
  /\ \E r \in {"local", "error"} : response' = [response EXCEPT ![i] = r]
  /\ Goto(i, "unwind")
  /\ UNCHANGED <<gateVars, shutdownVars, budgetVars, mapped, attemptVars,
                 bulkhead, permits>>

-----------------------------------------------------------------------------
(***************************************************************************)
(* execute_attempts                                                        *)
(***************************************************************************)

\* An error that is counted even if nothing was sent.
ServiceVerdictCounting(i, class) == class

\* What execute tells the service breaker when the attempts end in an error.
ServiceVerdict(i, class) == IF started[i] = 0 THEN "Unattempted" ELSE class

\* execute_attempts returns an error, which the interceptors are given.
EndInError(i, class) ==
  /\ servicePermit' = [servicePermit EXCEPT ![i] = ServiceVerdict(i, class)]
  /\ response' = [response EXCEPT ![i] = "error"]
  /\ Goto(i, "unwind")

\* The endpoints to choose from: what the directory, the capabilities and the
\* routers leave, without those tried before if there are others.
Candidates(i, snapshot) ==
  IF snapshot \ attempted[i] # {} THEN snapshot \ attempted[i] ELSE snapshot

\* select_endpoint.  Permits of the other eligible endpoints are released.
Select(i) ==
  /\ pc[i] = "select"
  /\ \E snapshot \in SUBSET Endpoints \ {{}} :
       \E e \in Candidates(i, snapshot) :
         /\ endpoint' = [endpoint EXCEPT ![i] = e]
         /\ attempted' = [attempted EXCEPT ![i] = @ \union {e}]
  /\ endpointPermit' = [endpointPermit EXCEPT ![i] = "held"]
  /\ wire' = [wire EXCEPT ![i] = "none"]
  /\ Goto(i, "attempt")
  /\ UNCHANGED <<gateVars, shutdownVars, budgetVars, mapped, attempt,
                 started, bulkhead, servicePermit, response>>

\* No instance, none compatible, all circuits open, or a router or the load
\* balancer fails.
SelectFails(i) ==
  /\ pc[i] = "select"
  /\ \E class \in LocalErrors : EndInError(i, class)
  /\ UNCHANGED <<gateVars, shutdownVars, budgetVars, mapped, attemptVars,
                 bulkhead, endpointPermit>>

\* endpoint_bulkhead: some entry goes when the map is full and e is not in it.
Victims(e) ==
  IF e \in mapped \/ Cardinality(mapped) < MaxEntries
    THEN {{}} ELSE {{k} : k \in mapped}

\* The permits taken from the semaphore that the map has for e.
InUse(e) ==
  {j \in Invocations : bulkhead[j] = "current" /\ endpoint[j] = e}

\* The semaphore of the endpoint is looked up or made, and gives a permit or
\* not.  The permits of an entry that goes belong to a forgotten semaphore.
Bulkhead(i, granted) ==
  \E gone \in Victims(endpoint[i]) :
    /\ mapped' = (mapped \ gone) \union {endpoint[i]}
    /\ bulkhead' = [j \in Invocations |->
         IF j = i THEN (IF granted THEN "current" ELSE "none")
         ELSE IF bulkhead[j] = "current" /\ endpoint[j] \in gone THEN "orphan"
         ELSE bulkhead[j]]

\* The attempt's terminal gets its bulkhead permit, encodes and starts to send.
Send(i) ==
  /\ pc[i] = "attempt"
  /\ Cardinality(InUse(endpoint[i])) < PerEndpoint
  /\ Bulkhead(i, TRUE)
  /\ started' = [started EXCEPT ![i] = attempt[i]]
  /\ wire' = [wire EXCEPT ![i] = "flying"]
  /\ Goto(i, "wire")
  /\ UNCHANGED <<gateVars, shutdownVars, budgetVars, attempt,
                 attempted, endpoint, permits, response>>

\* The bulkhead is full, or the request cannot be encoded: nothing is sent.
Blocked(i) ==
  /\ pc[i] = "attempt"
  /\ Bulkhead(i, FALSE)
  /\ Goto(i, "after")
  /\ UNCHANGED <<gateVars, shutdownVars, budgetVars, attemptVars,
                 permits, response>>

\* The terminal returns: the answer is decoded, sending or decoding fails with
\* a class that is observed (the deadline: Timeout), or nothing is observed
\* because of force_cancel or because an interceptor stopped waiting.
WireEnds(i) ==
  /\ pc[i] = "wire"
  /\ \E w \in WireFailures \union {"ok", "lost"} :
       wire' = [wire EXCEPT ![i] = w]
  /\ bulkhead' = [bulkhead EXCEPT ![i] = "none"]
  /\ Goto(i, "after")
  /\ UNCHANGED <<gateVars, shutdownVars, budgetVars, mapped, attempt,
                 started, attempted, endpoint, permits, response>>

\* What the endpoint's breaker hears when the interceptors return a response:
\* its permit is kept if something was sent and no failure was observed.
EndpointOnResponse(i) ==
  IF Failed(i) THEN wire[i]
  ELSE IF started[i] >= attempt[i] THEN "held"
  ELSE "Unattempted"

\* What the service's breaker hears then: its permit goes with the response.
ServiceOnResponse(i) ==
  IF Failed(i) THEN wire[i]
  ELSE IF started[i] >= attempt[i] THEN "held"
  ELSE IF started[i] = 0 THEN "Unattempted"
  ELSE "Abandoned"

\* The interceptors of the attempt return a response: that of the terminal, the
\* same with its body touched, or one of their own.
AttemptResponds(i) ==
  /\ pc[i] \in {"attempt", "after"}
  /\ \E r \in (IF wire[i] = "ok" THEN {"wire", "altered", "local"} ELSE {"local"}) :
       response' = [response EXCEPT ![i] = r]
  /\ endpointPermit' = [endpointPermit EXCEPT ![i] = EndpointOnResponse(i)]
  /\ servicePermit' = [servicePermit EXCEPT ![i] = ServiceOnResponse(i)]
  /\ Goto(i, "unwind")
  /\ UNCHANGED <<gateVars, shutdownVars, budgetVars, mapped, attemptVars,
                 bulkhead>>

\* A verdict from the attempts of the call instead of this attempt.
EndpointVerdictOfCall(i) ==
  IF Failed(i) THEN wire[i]
  ELSE IF started[i] > 0 THEN "Success"
  ELSE "Unattempted"

\* What execute_attempts tells the endpoint's breaker after an error.
EndpointVerdict(i) ==
  IF Failed(i) THEN wire[i]
  ELSE IF wire[i] = "ok" THEN "Success"
  ELSE IF started[i] < attempt[i] THEN "Unattempted"
  ELSE "Abandoned"

\* has_next_attempt
HasNextAttempt(i) == attempt[i] < HardAttemptLimit

\* A token that is looked at and not taken.
TryAcquireFree == tokens > 0 /\ UNCHANGED tokens

\* RetryBudget::try_acquire, when it succeeds
TryAcquire == tokens > 0 /\ tokens' = tokens - 1

\* decide_with_guards, when the policy says Retry and the delay fits: the token
\* is taken last.
DecideRetry(i, class) ==
  /\ HasNextAttempt(i)
  /\ i \in Replayable
  /\ IsRetryable(class)
  /\ TryAcquire

\* The interceptors of the attempt return an error.  What was observed on the
\* wire decides its class; otherwise the error itself does.  The delay may not
\* fit, and the policy may say Stop or panic, even where a retry is possible.
AttemptFails(i) ==
  /\ pc[i] \in {"attempt", "after"}
  /\ endpointPermit' = [endpointPermit EXCEPT ![i] = EndpointVerdict(i)]
  /\ \E class \in (IF Failed(i) THEN {wire[i]} ELSE LocalErrors) :
       \/ /\ DecideRetry(i, class)
          /\ Goto(i, "backoff")
          /\ UNCHANGED <<servicePermit, response>>
       \/ /\ EndInError(i, class)
          /\ UNCHANGED tokens
  /\ UNCHANGED <<gateVars, shutdownVars, refills, mapped, attemptVars,
                 bulkhead>>

\* try_acquire of the budget refills it first, up to its capacity.
Refill ==
  /\ tokens < Capacity
  /\ refills < MaxRefills
  /\ tokens' = tokens + 1
  /\ refills' = refills + 1
  /\ UNCHANGED <<gateVars, shutdownVars, mapped, pc, attemptVars,
                 bulkhead, permits, response>>

\* The sleep ends and the next attempt begins.
Retry(i) ==
  /\ pc[i] = "backoff"
  /\ attempt' = [attempt EXCEPT ![i] = @ + 1]
  /\ wire' = [wire EXCEPT ![i] = "none"]
  /\ endpointPermit' = [endpointPermit EXCEPT ![i] = "none"]
  /\ Goto(i, "select")
  /\ UNCHANGED <<gateVars, shutdownVars, budgetVars, mapped, started,
                 attempted, endpoint, bulkhead, servicePermit, response>>

\* The select of the backoff sees force_cancel first.
BackoffForced(i) ==
  /\ pc[i] = "backoff"
  /\ force = "cancelled"
  /\ EndInError(i, "Cancelled")
  /\ UNCHANGED <<gateVars, shutdownVars, budgetVars, mapped, attemptVars,
                 bulkhead, endpointPermit>>

-----------------------------------------------------------------------------
(***************************************************************************)
(* The end of invoke                                                       *)
(***************************************************************************)

Settle(p, i, outcome) == [p EXCEPT ![i] = IF @ = "held" THEN outcome ELSE @]

\* The interceptors return an error, or a response of their own: the permit in
\* the response is dropped with it, and the endpoint did answer.
Replaced(i) ==
  /\ pc[i] = "unwind"
  /\ Leave(i)
  /\ endpointPermit' = Settle(endpointPermit, i, "Success")
  /\ servicePermit' = Settle(servicePermit, i, "Abandoned")
  /\ UNCHANGED <<shutdownVars, budgetVars, mapped, attempt, started, wire>>

\* The response is decoded; interceptors may have touched its body.
Decoded(i) ==
  /\ pc[i] = "unwind"
  /\ response[i] # "error"
  /\ Leave(i)
  /\ endpointPermit' = Settle(endpointPermit, i, "Success")
  /\ servicePermit' = Settle(servicePermit, i, "Success")
  /\ UNCHANGED <<shutdownVars, budgetVars, mapped, attempt, started, wire>>

\* finish_result_failure: only a body that came from the wire as it is blames
\* the remote side.
ResultFailure(origin) == IF origin = "remote" THEN "Protocol" ELSE "Success"

Undecodable(i) ==
  /\ pc[i] = "unwind"
  /\ response[i] # "error"
  /\ \E origin \in {"local"} \union (IF response[i] = "wire" THEN {"remote"} ELSE {}) :
       /\ endpointPermit' = Settle(endpointPermit, i, ResultFailure(origin))
       /\ servicePermit' = Settle(servicePermit, i, ResultFailure(origin))
  /\ Leave(i)
  /\ UNCHANGED <<shutdownVars, budgetVars, mapped, attempt, started, wire>>

-----------------------------------------------------------------------------
(***************************************************************************)
(* Cancellation                                                            *)
(***************************************************************************)

\* Where the future of an admitted invocation awaits something.
Awaiting == {"before", "attempt", "wire", "after", "backoff", "unwind"}

\* The future is dropped, and every permit it owns with it.
Abandon(i) ==
  /\ Leave(i)
  /\ endpointPermit' = Settle(endpointPermit, i, "Abandoned")
  /\ servicePermit' = Settle(servicePermit, i, "Abandoned")
  /\ wire' = [wire EXCEPT ![i] = IF @ = "flying" THEN "lost" ELSE @]
  /\ UNCHANGED <<shutdownVars, budgetVars, mapped, attempt, started>>

CallerDrops(i) == pc[i] \in Awaiting /\ Abandon(i)

\* A deadline around the attempts only.
DeadlineDropsAttempt(i) ==
  pc[i] \in {"attempt", "wire", "after"} /\ Abandon(i)

\* deadline.run around the whole invocation; the deadline may pass at any time,
\* and what it runs is polled first, so this may come late.
DeadlineDrops(i) == pc[i] \in Awaiting /\ Abandon(i)

\* The outermost select is biased towards force_cancel.
ForceDrops(i) ==
  force = "cancelled" /\ pc[i] \in Awaiting \union {"encode"} /\ Abandon(i)

-----------------------------------------------------------------------------
(***************************************************************************)
(* client_shutdown_coordinator                                             *)
(***************************************************************************)

invocationVars == <<budgetVars, mapped, pc, attemptVars, bulkhead,
                    permits, response>>

\* shutdown() is called or the runtime is dropped.
ShutdownRequested ==
  /\ coord = "waiting"
  /\ coord' = "requested"
  /\ UNCHANGED <<gateVars, state, subscriptions, force, pool, ending,
                 completion, invocationVars>>

StoreDraining ==
  /\ coord = "requested"
  /\ coord' = "stored"
  /\ state' = "Draining"
  /\ UNCHANGED <<gateVars, subscriptions, force, pool, ending, completion,
                 invocationVars>>

BeginDraining ==
  /\ coord = "stored"
  /\ coord' = "working"
  /\ Gate!BeginDraining
  /\ subscriptions' = "closing"
  /\ UNCHANGED <<state, force, pool, ending, completion, invocationVars>>

\* drained() returns and close_transport empties the slot.
Drained ==
  /\ coord = "working"
  /\ Gate!BecomeQuiet
  /\ pool' = "closed"
  /\ UNCHANGED <<coord, state, subscriptions, force, ending, completion,
                 invocationVars>>

SubscriptionsClosed ==
  /\ coord = "working"
  /\ subscriptions = "closing"
  /\ subscriptions' \in {"closed", "failed"}
  /\ UNCHANGED <<gateVars, coord, state, force, pool, ending, completion,
                 invocationVars>>

\* Both halves of the work have ended in time.
WorkDone ==
  /\ coord = "working"
  /\ phase = "quiet"
  /\ subscriptions \in {"closed", "failed"}
  /\ coord' = "finishing"
  /\ ending' = IF subscriptions = "closed" THEN "ok" ELSE "error"
  /\ UNCHANGED <<gateVars, state, subscriptions, force, pool, completion,
                 invocationVars>>

\* A deadline that closes the pool and cancels nothing.
ShutdownTimeoutUnforced ==
  /\ coord = "working"
  /\ coord' = "finishing"
  /\ pool' = "closed"
  /\ ending' = "timeout"
  /\ UNCHANGED <<gateVars, state, subscriptions, force, completion,
                 invocationVars>>

\* The shutdown deadline elapses before the work ends.
ShutdownTimeout ==
  /\ coord = "working"
  /\ coord' = "finishing"
  /\ force' = "cancelled"
  /\ pool' = "closed"
  /\ ending' = "timeout"
  /\ UNCHANGED <<gateVars, state, subscriptions, completion, invocationVars>>

\* finish_shutdown, the gate is closed, the state and the result are published.
Publish ==
  /\ coord = "finishing"
  /\ coord' = "finished"
  /\ state' = "Closed"
  /\ completion' = ending
  /\ UNCHANGED <<gateVars, subscriptions, force, pool, ending, invocationVars>>

-----------------------------------------------------------------------------
Coordinator == \/ StoreDraining \/ BeginDraining \/ Drained
               \/ WorkDone \/ ShutdownTimeout \/ Publish

\* What happens without an await once an invocation is on its way.
Proceed(i) == \/ Admitted(i) \/ Refused(i)
              \/ Encode(i) \/ EncodeFails(i)
              \/ Select(i) \/ SelectFails(i)

\* What waits for interceptors, the network, timers or the caller.
Continue(i) == \/ Execute(i) \/ ShortCircuit(i)
               \/ Send(i) \/ Blocked(i) \/ WireEnds(i)
               \/ AttemptResponds(i) \/ AttemptFails(i)
               \/ Retry(i) \/ BackoffForced(i)
               \/ Replaced(i) \/ Decoded(i) \/ Undecodable(i)

Cut(i) == DeadlineDrops(i) \/ ForceDrops(i)

Next == \/ Coordinator
        \/ ShutdownRequested
        \/ SubscriptionsClosed
        \/ Refill
        \/ \E i \in Invocations : \/ Start(i) \/ Proceed(i) \/ Continue(i)
                                  \/ CallerDrops(i) \/ Cut(i)

Spec == Init /\ [][Next]_vars

\* Timers fire and the runtime polls what is woken.  Interceptors, the network
\* and the subscriptions may take for ever.
Fairness ==
  /\ WF_vars(Coordinator)
  /\ \A i \in Invocations : /\ WF_vars(Proceed(i))
                            /\ WF_vars(Cut(i))

FairSpec == Spec /\ Fairness

-----------------------------------------------------------------------------
(***************************************************************************)
(* Properties                                                              *)
(***************************************************************************)

\* The variables keep their types; in particular no invocation makes more
\* attempts than hard_attempt_limit allows, and the retry budget stays within its
\* capacity.
TypeOK ==
  /\ inside \subseteq Invocations
  /\ phase \in {"open", "draining", "quiet"}
  /\ coord \in {"waiting", "requested", "stored", "working", "finishing", "finished"}
  /\ state \in {"Running", "Draining", "Closed"}
  /\ subscriptions \in {"running", "closing", "closed", "failed"}
  /\ force \in {"armed", "cancelled"}
  /\ pool \in {"open", "closed"}
  /\ ending \in {"none", "ok", "error", "timeout"}
  /\ completion \in {"none", "ok", "error", "timeout"}
  /\ tokens \in 0..Capacity
  /\ refills \in 0..MaxRefills
  /\ mapped \subseteq Endpoints
  /\ pc \in [Invocations -> InvocationPcs]
  /\ attempt \in [Invocations -> 0..HardAttemptLimit]
  /\ started \in [Invocations -> 0..HardAttemptLimit]
  /\ attempted \in [Invocations -> SUBSET Endpoints]
  /\ endpoint \in [Invocations -> Endpoints \union {NoEndpoint}]
  /\ wire \in [Invocations -> FailureClasses \union {"none", "flying", "ok", "lost"}]
  /\ bulkhead \in [Invocations -> {"none", "current", "orphan"}]
  /\ endpointPermit \in [Invocations -> Permits]
  /\ servicePermit \in [Invocations -> Permits]
  /\ response \in [Invocations -> {"none", "error", "local", "wire", "altered"}]

\* FailureClass::breaker_impact is Failure.
Blames(outcome) ==
  outcome \in {"Connect", "Transport", "Timeout", "Unavailable", "RemoteServer",
               "RemoteFailure", "Protocol"}

\* An endpoint's breaker hears what really happened to the attempt, however the
\* invocation ends and whatever the interceptors make of it: it is blamed only
\* for a failure observed on the wire or for a body from the wire that cannot be
\* decoded, it is credited only if the request was sent, a permit is given back
\* as unattempted only if it was not, and an observed failure is never lost
\* unless the future is dropped.
EndpointHearsTruth ==
  \A i \in Invocations :
    LET heard == endpointPermit[i] IN
    /\ Blames(heard) => \/ wire[i] = heard
                        \/ wire[i] = "ok" /\ heard = "Protocol"
    /\ heard = "Success" => wire[i] \in {"ok", "lost"}
    /\ heard = "Unattempted" => wire[i] = "none"
    /\ Failed(i) => heard \in {"held", wire[i], "Abandoned"}

\* The service's breaker hears the final result of the logical call: nothing is
\* counted for a call that sent nothing, a failure of the last attempt is what
\* it hears unless the call was cut short, and a body that cannot be decoded is
\* a failure for both breakers or for none.
ServiceHearsResult ==
  \A i \in Invocations :
    LET heard == servicePermit[i] IN
    /\ heard = "Unattempted" => started[i] = 0
    /\ heard = "Success" \/ Blames(heard) => started[i] > 0
    /\ Failed(i) /\ pc[i] \in {"unwind", "done"} =>
         heard \in {wire[i], "Abandoned", "Cancelled"}
    /\ wire[i] = "ok" /\ endpointPermit[i] = "Protocol" => heard = "Protocol"

\* The attempts of an invocation that are made or, in its backoff, paid for.
Due(i) == IF pc[i] = "backoff" THEN attempt[i] + 1 ELSE attempt[i]

\* The retries among them.
Retries == {r \in Invocations \X (2 .. HardMaxAttempts) : r[2] <= Due(r[1])}

\* Every attempt after the first was paid with a token of the service's retry
\* budget, and an invocation that must not be replayed makes one attempt.  An
\* invocation in its backoff has paid for the attempt to come.
RetriesPaid ==
  /\ Cardinality(Retries) <= Capacity + refills - tokens
  /\ \A i \in Invocations \ Replayable : Due(i) <= 1

\* The connection pool is taken away under an admitted invocation only by the
\* forced end of a shutdown; and a shutdown that reports success has left no
\* invocation, no request on the wire and no permit behind.
ShutdownClean ==
  /\ pool = "closed" /\ force = "armed" =>
       \A i \in Invocations : pc[i] \in {"idle", "admit", "done"}
  /\ completion \in {"ok", "error"} =>
       /\ pool = "closed"
       /\ \A i \in Invocations :
            /\ pc[i] \in {"idle", "admit", "done"}
            /\ wire[i] # "flying"
            /\ bulkhead[i] = "none"
            /\ endpointPermit[i] # "held" /\ servicePermit[i] # "held"

\* No endpoint ever has more requests on the wire than
\* max_in_flight_per_endpoint.
EndpointBounded ==
  \A e \in Endpoints :
    Cardinality({i \in Invocations : pc[i] = "wire" /\ endpoint[i] = e})
      <= PerEndpoint

\* One absolute deadline bounds an invocation whatever its interceptors, the
\* network and the backoff do; and shutdown() is answered whatever they do.
EverythingEnds ==
  /\ \A i \in Invocations : pc[i] # "idle" ~> pc[i] = "done"
  /\ coord # "waiting" ~> completion # "none"

\* Both breakers of a call hear the truth, once: the endpoint's what happened on the
\* wire, the service's what the logical call came to, whatever interceptors do with
\* the response and wherever the future is dropped.
VerdictsTrue == EndpointHearsTruth /\ ServiceHearsResult
=============================================================================
