---------------------------- MODULE ServerLifecycle ----------------------------
(***************************************************************************)
(* One server from start() to its terminal result: the coordinator task of *)
(* fusen/src/server/mod.rs, the accept task of fusen/src/server/transport  *)
(* .rs, the start() future and the RunningServer, with the registrations   *)
(* and the requests they deal with.                                        *)
(*                                                                         *)
(* The coordinator and the accept task take one step between two awaits.   *)
(* The admission gate is used through AdmissionContract and a registration *)
(* handle through what ProviderContract promises.  Timeouts are steps that *)
(* may be taken at any time while they are armed, except that nothing that *)
(* waits for the shutdown deadline moves before it has passed (expired).   *)
(* A connection carries one request at a time; a stream of HTTP/2 is a     *)
(* connection of its own here.                                             *)
(***************************************************************************)
EXTENDS Naturals, FiniteSets

CONSTANTS N,                \* registrations in the plan, numbered 1 .. N
          Concurrency,      \* registry().max_concurrent_operations()
          Connections,      \* sockets that clients may open
          MaxConnections,   \* http().max_connections()
          MaxRequests,      \* request().max_concurrent_requests()
          FatalAfter        \* consecutive accept failures that are fatal

ASSUME ServerAssumption ==
  /\ N \in Nat /\ Concurrency \in Nat \ {0}
  /\ MaxConnections \in Nat \ {0} /\ MaxRequests \in Nat \ {0}
  /\ FatalAfter \in Nat \ {0}
  /\ IsFiniteSet(Connections)

VARIABLES
  spc,         \* the start() future, then the RunningServer
  token,       \* the shutdown token is cancelled
  cpc,         \* where the coordinator is
  state,       \* ServerState
  readiness,   \* what a request sees
  sres,        \* the startup error, "none" without one
  reply,       \* what was sent to start()
  result,      \* the terminal result
  expired,     \* the graceful-shutdown deadline has passed
  force,       \* force_cancel is cancelled
  fatalSeen,   \* the fatal error handed to drain_runtime
  listenerErr, \* listener_closed ended without a confirmation
  phase, activation, closing, \* each registration: ProviderContract, "planned" before
  asked,       \* registrations whose worker was asked to clean up
  act,         \* activate_registrations
  cl,          \* close_registrations
  tpc,         \* where the accept task is
  listening,   \* the listener is open
  failures,    \* AcceptFailureTracker
  fatal,       \* a fatal accept error occurred and was sent
  cmd,         \* the drain command was sent
  late,        \* AcceptOutcome::deadline_exceeded
  cut,         \* the connections are aborted
  conn,        \* each connection: "none", "idle", "checked"
  inside,      \* the connections whose request holds an admission guard
  gate         \* the admission gate: AdmissionContract

Regs == 1 .. N
handles == <<phase, activation, closing>>
coordinator == <<cpc, state, readiness, sres, reply, result, fatalSeen, listenerErr>>
registering == <<asked, act, cl>>
transport == <<tpc, listening, failures, fatal, late, cut>>
http == <<conn, inside>>
vars == <<spc, token, coordinator, expired, force, handles, registering,
          transport, cmd, http, gate>>

ServerStates == <<"Validated", "Registering", "Ready", "Draining", "Stopped">>
ReadinessStates == <<"NotReady", "Ready", "Draining", "Stopped">>
Results == {"Ok", "Timeout", "Accept", "Registry", "Startup"}

Gate == INSTANCE AdmissionContract WITH
          Callers <- Connections, Limit <- MaxRequests, phase <- gate

Init ==
  /\ spc = "waiting" /\ token = FALSE
  /\ cpc = "spawned" /\ state = "Validated" /\ readiness = "NotReady"
  /\ sres = "none" /\ reply = "none" /\ result = "none"
  /\ expired = FALSE /\ force = FALSE /\ fatalSeen = FALSE /\ listenerErr = FALSE
  /\ phase = [r \in Regs |-> "planned"]
  /\ activation = [r \in Regs |-> "none"] /\ closing = [r \in Regs |-> "none"]
  /\ asked = {}
  /\ act = [r \in Regs |-> "queued"] /\ cl = [r \in Regs |-> "todo"]
  /\ tpc = "none" /\ listening = TRUE /\ failures = 0 /\ fatal = FALSE
  /\ late = FALSE /\ cut = FALSE /\ cmd = FALSE
  /\ conn = [c \in Connections |-> "none"] /\ inside = {} /\ gate = "open"

-----------------------------------------------------------------------------
(***************************************************************************)
(* start() and the RunningServer                                           *)
(***************************************************************************)

caller == <<coordinator, expired, force, handles, registering, transport, cmd,
            http, gate>>

\* startup.await returns; after an error the guard is still armed.
Answer ==
  /\ spc = "waiting" /\ reply # "none"
  /\ spc' = IF reply = "Ok" THEN "running" ELSE "failed"
  /\ token' = (token \/ reply # "Ok")
  /\ UNCHANGED caller

\* The start() future is dropped: StartupGuard.
DropStart ==
  /\ spc = "waiting"
  /\ spc' = "dropped"
  /\ token' = TRUE
  /\ UNCHANGED caller

\* shutdown(), a signal, or the drop of the RunningServer.
Stop ==
  /\ spc = "running"
  /\ spc' = "stopping"
  /\ token' = TRUE
  /\ UNCHANGED caller

-----------------------------------------------------------------------------
(***************************************************************************)
(* coordinate: up to Ready                                                 *)
(***************************************************************************)

\* Spawn the accept task and prepare the registrations, up to the first that
\* is refused or panics.
StartUp ==
  /\ cpc = "spawned"
  /\ tpc' = "accepting"
  /\ state' = "Registering"
  /\ cpc' = "activate"
  /\ \E k \in 0 .. N : phase' = [r \in Regs |-> IF r <= k THEN "prepared" ELSE "planned"]
  /\ UNCHANGED <<spc, token, readiness, sres, reply, result, fatalSeen, listenerErr,
                 expired, force, activation, closing, registering,
                 listening, failures, fatal, late, cut, cmd, http, gate>>

\* The registrations in `tracked`.
Tracked == {r \in Regs : phase[r] # "planned"}
Running == {r \in Regs : act[r] = "running"}

\* fatal_receiver.recv() is ready: an error was sent or the sender is gone.
FatalReady == fatal \/ tpc = "dead"

\* The select of the startup polls activation only after its other branches.
Activating == cpc = "activate" /\ ~token /\ ~FatalReady

idle == <<spc, token, state, readiness, reply, result, fatalSeen, listenerErr,
          expired, force, transport, cmd, http, gate>>

\* buffer_unordered starts the operations in order.
StartActivation(r) ==
  /\ Activating
  /\ Tracked = Regs
  /\ act[r] = "queued" /\ \A q \in 1 .. r - 1 : act[q] # "queued"
  /\ Cardinality(Running) < Concurrency
  /\ act' = [act EXCEPT ![r] = "running"]
  /\ phase' = [phase EXCEPT ![r] = "activating"]
  /\ UNCHANGED <<idle, cpc, sres, activation, closing, asked, cl>>

Activated(r) ==
  /\ Activating
  /\ act[r] = "running" /\ activation[r] = "ok"
  /\ act' = [act EXCEPT ![r] = "done"]
  /\ UNCHANGED <<idle, cpc, sres, handles, asked, cl>>

\* The startup ends in an error: the activation future is dropped with its
\* waiters, and the worker of every activation nobody waits for any more is
\* asked to clean up (ActivationWaiter::release).
FailStartup(error, abandoned) ==
  /\ sres' = error
  /\ cpc' = "begin"
  /\ asked' = asked \union abandoned
  /\ UNCHANGED <<spc, token, state, readiness, reply, result, listenerErr, expired,
                 force, handles, act, cl, transport, cmd, http, gate>>

PrepareFailed ==
  /\ Activating
  /\ Tracked # Regs
  /\ FailStartup("Registry", {}) /\ UNCHANGED fatalSeen

ActivationFailed(r) ==
  /\ Activating
  /\ act[r] = "running" /\ activation[r] \in {"failed", "cancelled"}
  /\ FailStartup("Registry", Running \ {r}) /\ UNCHANGED fatalSeen

ActivationTimeout(r) ==
  /\ Activating
  /\ act[r] = "running" /\ activation[r] = "none"
  /\ FailStartup("Registry", Running) /\ UNCHANGED fatalSeen

StartupTimeout ==
  /\ Activating
  /\ Tracked = Regs /\ \E r \in Regs : act[r] # "done"
  /\ FailStartup("Startup", Running) /\ UNCHANGED fatalSeen

StartupCancelled ==
  /\ cpc = "activate" /\ token
  /\ FailStartup("Startup", Running) /\ UNCHANGED fatalSeen

StartupFatal ==
  /\ cpc = "activate" /\ ~token /\ FatalReady
  /\ fatalSeen' = fatal
  /\ FailStartup("Accept", Running)

\* A server that is ready with its first registration.
BecomeReadyEarly ==
  /\ Activating
  /\ \E r \in Regs : act[r] = "done"
  /\ cpc' = "ready" /\ state' = "Ready" /\ readiness' = "Ready" /\ reply' = "Ok"
  /\ UNCHANGED <<spc, token, sres, result, fatalSeen, listenerErr, expired, force,
                 handles, registering, transport, cmd, http, gate>>

\* A server that is ready and does not tell start().
BecomeReadySilent ==
  /\ Activating
  /\ Tracked = Regs /\ \A r \in Regs : act[r] = "done"
  /\ cpc' = "ready" /\ state' = "Ready" /\ readiness' = "Ready"
  /\ UNCHANGED <<spc, token, sres, reply, result, fatalSeen, listenerErr, expired,
                 force, handles, registering, transport, cmd, http, gate>>

BecomeReady ==
  /\ Activating
  /\ Tracked = Regs /\ \A r \in Regs : act[r] = "done"
  /\ cpc' = "ready" /\ state' = "Ready" /\ readiness' = "Ready" /\ reply' = "Ok"
  /\ UNCHANGED <<spc, token, sres, result, fatalSeen, listenerErr, expired, force,
                 handles, registering, transport, cmd, http, gate>>

\* A ready server that waits for its token only.
LeaveReadyDeaf ==
  /\ cpc = "ready"
  /\ token
  /\ fatalSeen' = FALSE
  /\ cpc' = "begin"
  /\ UNCHANGED <<spc, token, state, readiness, sres, reply, result, listenerErr,
                 expired, force, handles, registering, transport, cmd, http, gate>>

\* The select of the ready server, biased towards the token.
LeaveReady ==
  /\ cpc = "ready"
  /\ token \/ FatalReady
  /\ fatalSeen' = (~token /\ fatal)
  /\ cpc' = "begin"
  /\ UNCHANGED <<spc, token, state, readiness, sres, reply, result, listenerErr,
                 expired, force, handles, registering, transport, cmd, http, gate>>

-----------------------------------------------------------------------------
(***************************************************************************)
(* drain_runtime                                                           *)
(***************************************************************************)

BeginDraining ==
  /\ cpc = "begin"
  /\ readiness' = "Draining"
  /\ Gate!BeginDraining
  /\ cmd' = TRUE
  /\ cpc' = "listener"
  /\ UNCHANGED <<spc, token, state, sres, reply, result, fatalSeen, listenerErr,
                 expired, force, handles, registering, transport, conn>>

\* The graceful-shutdown deadline passes.
Expire ==
  /\ cpc \in {"listener", "drain"} /\ ~expired
  /\ expired' = TRUE
  /\ UNCHANGED <<spc, token, coordinator, force, handles, registering, transport,
                 cmd, http, gate>>

\* A drain that publishes Draining and goes on without the confirmation.
ListenerClosedUnconfirmed ==
  /\ cpc = "listener"
  /\ state' = "Draining" /\ UNCHANGED listenerErr
  /\ cpc' = "drain"
  /\ UNCHANGED <<spc, token, readiness, sres, reply, result, fatalSeen, expired,
                 force, handles, registering, transport, cmd, http, gate>>

\* publish_draining_after_listener_closed.
ListenerClosed ==
  /\ cpc = "listener"
  /\ \/ tpc \in {"draining", "ended"} /\ state' = "Draining" /\ UNCHANGED listenerErr
     \/ tpc = "dead" /\ listenerErr' = TRUE /\ UNCHANGED state
  /\ cpc' = "drain"
  /\ UNCHANGED <<spc, token, readiness, sres, reply, result, fatalSeen, expired,
                 force, handles, registering, transport, cmd, http, gate>>

Todo == {r \in Tracked : cl[r] = "todo"}
InFlight == {r \in Regs : cl[r] = "open"}
closers == <<spc, token, coordinator, expired, force, handles, act, transport, cmd,
             http, gate>>

\* reversed.chunks(concurrency): the last registrations come first.
NextBatch == {r \in Todo : Cardinality({q \in Todo : q > r}) < Concurrency}

CloseBatch ==
  /\ cpc = "drain"
  /\ InFlight = {} /\ Todo # {} /\ ~expired
  /\ cl' = [r \in Regs |-> IF r \in NextBatch THEN "open" ELSE cl[r]]
  /\ asked' = asked \union NextBatch
  /\ UNCHANGED closers

\* The loop breaks when the deadline has passed between two batches.
CloseAbandoned ==
  /\ cpc = "drain"
  /\ InFlight = {} /\ Todo # {} /\ expired
  /\ cl' = [r \in Regs |-> IF r \in Todo THEN "skipped" ELSE cl[r]]
  /\ UNCHANGED <<closers, asked>>

\* A failed close ends the loop.
CloseReturnsShort(r) ==
  /\ cpc = "drain"
  /\ cl[r] = "open" /\ closing[r] # "none"
  /\ cl' = IF closing[r] = "ok" THEN [cl EXCEPT ![r] = "ok"]
           ELSE [q \in Regs |-> IF q = r THEN "failed"
                                ELSE IF q \in Todo THEN "skipped" ELSE cl[q]]
  /\ UNCHANGED <<closers, asked>>

CloseReturns(r) ==
  /\ cpc = "drain"
  /\ cl[r] = "open" /\ closing[r] # "none"
  /\ cl' = [cl EXCEPT ![r] = IF closing[r] = "ok" THEN "ok" ELSE "failed"]
  /\ UNCHANGED <<closers, asked>>

\* The operation timeout of one close, which the deadline only shortens.
CloseTimeout(r) ==
  /\ cpc = "drain"
  /\ cl[r] = "open" /\ closing[r] = "none"
  /\ cl' = [cl EXCEPT ![r] = "timeout"]
  /\ UNCHANGED <<closers, asked>>

Drained ==
  /\ cpc = "drain"
  /\ Gate!BecomeQuiet
  /\ UNCHANGED <<spc, token, coordinator, expired, force, handles, registering,
                 transport, cmd, conn>>

WorkDone == Todo = {} /\ InFlight = {} /\ gate = "quiet" /\ tpc \in {"ended", "dead"}

\* Resolution that takes the accept error only from the channel.
ResolvedFromChannel ==
  IF (\E r \in Regs : cl[r] \in {"timeout", "skipped"}) \/ (tpc = "ended" /\ late)
    THEN "Timeout"
  ELSE IF fatalSeen \/ listenerErr \/ tpc = "dead" THEN "Accept"
  ELSE IF \E r \in Regs : cl[r] = "failed" THEN "Registry"
  ELSE "Ok"

\* resolve_shutdown_result.
Resolved ==
  IF (\E r \in Regs : cl[r] \in {"timeout", "skipped"}) \/ (tpc = "ended" /\ late)
    THEN "Timeout"
  ELSE IF fatalSeen \/ (tpc = "ended" /\ fatal) \/ listenerErr \/ tpc = "dead"
    THEN "Accept"
  ELSE IF \E r \in Regs : cl[r] = "failed" THEN "Registry"
  ELSE "Ok"

\* The result of drain_runtime: it is the server's when it was ready, and
\* replaces a startup error only when it is the graver one.  The handles of a
\* ready server are dropped here, those of a failed startup at the end.
DrainEnds(drain) ==
  /\ result' = IF sres = "none" \/ drain \in {"Timeout", "Accept"} THEN drain ELSE sres
  /\ reply' = IF sres = "none" THEN reply ELSE result'
  /\ asked' = IF sres = "none" THEN Tracked ELSE asked
  /\ cpc' = "finish"
  /\ UNCHANGED <<spc, token, state, readiness, sres, fatalSeen, listenerErr, expired,
                 handles, act, cl, transport, cmd, http, gate>>

Resolve ==
  /\ cpc = "drain"
  /\ WorkDone
  /\ DrainEnds(Resolved) /\ UNCHANGED force

Deadline ==
  /\ cpc \in {"listener", "drain"} /\ expired
  /\ force' = TRUE
  /\ DrainEnds("Timeout")

\* A coordinator that keeps its handles, in a cache for instance.
FinishKeeping ==
  /\ cpc = "finish"
  /\ readiness' = "Stopped" /\ state' = "Stopped"
  /\ cpc' = "finished"
  /\ UNCHANGED <<spc, token, sres, reply, result, fatalSeen, listenerErr, expired,
                 force, handles, asked, act, cl, transport, cmd, http, gate>>

\* finish, and the end of the coordinator, which drops its handles.
Finish ==
  /\ cpc = "finish"
  /\ readiness' = "Stopped" /\ state' = "Stopped"
  /\ cpc' = "finished"
  /\ asked' = Tracked
  /\ UNCHANGED <<spc, token, sres, reply, result, fatalSeen, listenerErr, expired,
                 force, handles, act, cl, transport, cmd, http, gate>>

-----------------------------------------------------------------------------
(***************************************************************************)
(* transport::run                                                          *)
(***************************************************************************)

Open == {c \in Connections : conn[c] # "none"}
acceptor == <<spc, token, coordinator, expired, force, handles, registering, cmd,
              inside, gate>>

\* The accept branch comes after the drain command.
Accept(c) ==
  /\ tpc = "accepting" /\ ~cmd
  /\ conn[c] = "none" /\ Cardinality(Open) < MaxConnections
  /\ conn' = [conn EXCEPT ![c] = "idle"]
  /\ failures' = 0
  /\ UNCHANGED <<acceptor, tpc, listening, fatal, late, cut>>

AcceptOverLimit ==
  /\ tpc = "accepting" /\ ~cmd
  /\ Cardinality(Open) = MaxConnections
  /\ failures' = 0
  /\ UNCHANGED <<acceptor, tpc, listening, fatal, late, cut, conn>>

\* A recoverable failure: wait before the next accept.
AcceptFails ==
  /\ tpc = "accepting" /\ ~cmd
  /\ failures + 1 < FatalAfter
  /\ failures' = failures + 1
  /\ tpc' = "backoff"
  /\ UNCHANGED <<acceptor, listening, fatal, late, cut, conn>>

BackoffEnds ==
  /\ tpc = "backoff" /\ ~cmd
  /\ tpc' = "accepting"
  /\ UNCHANGED <<acceptor, listening, failures, fatal, late, cut, conn>>

\* The last tolerated failure: close the listener, report, wait for the command.
AcceptFatal ==
  /\ tpc = "accepting" /\ ~cmd
  /\ failures + 1 >= FatalAfter
  /\ failures' = failures + 1
  /\ listening' = FALSE /\ fatal' = TRUE
  /\ tpc' = "closed"
  /\ UNCHANGED <<acceptor, late, cut, conn>>

CloseListener ==
  /\ tpc \in {"accepting", "backoff"} /\ cmd
  /\ listening' = FALSE
  /\ tpc' = "closed"
  /\ UNCHANGED <<acceptor, failures, fatal, late, cut, conn>>

\* listener_closed.send: the graceful drain begins.
Confirm ==
  /\ tpc = "closed" /\ cmd
  /\ tpc' = "draining"
  /\ UNCHANGED <<acceptor, listening, failures, fatal, late, cut, conn>>

\* An accept task that does not wait for its connections.
TransportDrainedUnchecked ==
  /\ tpc = "draining" /\ ~force
  /\ tpc' = "ended"
  /\ UNCHANGED <<acceptor, listening, failures, fatal, late, cut, conn>>

TransportDrained ==
  /\ tpc = "draining" /\ ~force
  /\ Open = {}
  /\ tpc' = "ended"
  /\ UNCHANGED <<acceptor, listening, failures, fatal, late, cut, conn>>

\* force_cancel, or the deadline: abort what is left without waiting for it.
TransportCut ==
  /\ tpc = "draining" /\ (force \/ expired)
  /\ tpc' = "ended"
  /\ late' = TRUE /\ cut' = TRUE
  /\ UNCHANGED <<acceptor, listening, failures, fatal, conn>>

\* The accept task panics; its JoinSet aborts the connections.
TransportDies ==
  /\ tpc \in {"accepting", "backoff", "closed", "draining"}
  /\ tpc' = "dead"
  /\ listening' = FALSE /\ cut' = TRUE
  /\ UNCHANGED <<acceptor, failures, fatal, late, conn>>

-----------------------------------------------------------------------------
(***************************************************************************)
(* Requests and connections                                                *)
(***************************************************************************)

server == <<spc, token, coordinator, expired, force, handles, registering, transport,
            cmd>>

\* try_handle_inner looks at readiness ...
Check(c) ==
  /\ conn[c] = "idle" /\ c \notin inside
  /\ readiness = "Ready"
  /\ conn' = [conn EXCEPT ![c] = "checked"]
  /\ UNCHANGED <<server, inside, gate>>

\* ... and asks the gate later.
Enter(c) ==
  /\ conn[c] = "checked"
  /\ Gate!GoIn(c)
  /\ conn' = [conn EXCEPT ![c] = "idle"]
  /\ UNCHANGED server

Refuse(c) ==
  /\ conn[c] = "checked"
  /\ conn' = [conn EXCEPT ![c] = "idle"]
  /\ UNCHANGED <<server, inside, gate>>

Complete(c) ==
  /\ Gate!GoOut(c)
  /\ UNCHANGED <<server, conn>>

\* The peer closes, a graceful connection is idle, or its task is aborted.
EndConnection(c) ==
  /\ conn[c] # "none"
  /\ conn' = [conn EXCEPT ![c] = "none"]
  /\ inside' = inside \ {c}
  /\ UNCHANGED <<server, gate>>

\* An aborted task is dropped, or runs to its request's own deadline.
Reap(c) == cut /\ EndConnection(c)

-----------------------------------------------------------------------------
(***************************************************************************)
(* The workers behind the registrations: ProviderContract                  *)
(***************************************************************************)

provider == <<spc, token, coordinator, expired, force, registering, transport, cmd,
              http, gate>>

Settle(r) ==
  /\ phase[r] = "activating"
  /\ phase' = [phase EXCEPT ![r] = "settled"]
  /\ \E v \in IF r \in asked THEN {"failed", "cancelled"} ELSE {"ok", "failed"} :
       activation' = [activation EXCEPT ![r] = v]
  /\ UNCHANGED <<provider, closing>>

CloseUnstarted(r) ==
  /\ phase[r] = "prepared" /\ r \in asked
  /\ phase' = [phase EXCEPT ![r] = "over"]
  /\ activation' = [activation EXCEPT ![r] = "cancelled"]
  /\ closing' = [closing EXCEPT ![r] = "ok"]
  /\ UNCHANGED provider

StartCleanup(r) ==
  /\ phase[r] = "settled" /\ r \in asked
  /\ phase' = [phase EXCEPT ![r] = "cleaning"]
  /\ UNCHANGED <<provider, activation, closing>>

FinishCleanup(r) ==
  /\ phase[r] = "cleaning"
  /\ phase' = [phase EXCEPT ![r] = "over"]
  /\ \E v \in {"ok", "failed"} : closing' = [closing EXCEPT ![r] = v]
  /\ UNCHANGED <<provider, activation>>

-----------------------------------------------------------------------------
ProviderStep(r) == Settle(r) \/ CloseUnstarted(r) \/ StartCleanup(r) \/ FinishCleanup(r)

CoordinatorStep ==
  \/ StartUp
  \/ \E r \in Regs : StartActivation(r) \/ Activated(r) \/ ActivationFailed(r)
  \/ PrepareFailed \/ StartupCancelled \/ StartupFatal \/ BecomeReady \/ LeaveReady
  \/ BeginDraining \/ ListenerClosed \/ CloseBatch \/ CloseAbandoned
  \/ \E r \in Regs : CloseReturns(r)
  \/ Drained \/ Resolve \/ Deadline \/ Finish

TransportStep == BackoffEnds \/ CloseListener \/ Confirm \/ TransportDrained \/ TransportCut

Next ==
  \/ Answer \/ DropStart \/ Stop
  \/ CoordinatorStep \/ StartupTimeout \/ Expire
  \/ \E r \in Regs : ActivationTimeout(r) \/ CloseTimeout(r) \/ ProviderStep(r)
  \/ TransportStep \/ AcceptOverLimit \/ AcceptFails \/ AcceptFatal \/ TransportDies
  \/ \E c \in Connections : \/ Accept(c) \/ Check(c) \/ Enter(c) \/ Refuse(c)
                            \/ Complete(c) \/ EndConnection(c)

Spec == Init /\ [][Next]_vars

\* Tasks that can run do run and deadlines pass.  Nothing is assumed of
\* providers, peers and requests: only an aborted connection is known to end.
Fairness ==
  /\ WF_vars(Answer)
  /\ WF_vars(CoordinatorStep) /\ WF_vars(StartupTimeout) /\ WF_vars(Expire)
  /\ WF_vars(TransportStep)
  /\ \A c \in Connections : WF_vars(Reap(c))

FairSpec == Spec /\ Fairness

-----------------------------------------------------------------------------
(***************************************************************************)
(* Properties                                                              *)
(***************************************************************************)

SeqSet(s) == {s[i] : i \in DOMAIN s}

\* Every variable has its type; the tracker never counts past the failure
\* that is fatal, and the semaphore of the connections is never exceeded.
TypeOK ==
  /\ spc \in {"waiting", "running", "failed", "dropped", "stopping"}
  /\ cpc \in {"spawned", "activate", "ready", "begin", "listener", "drain", "finish",
              "finished"}
  /\ state \in SeqSet(ServerStates) /\ readiness \in SeqSet(ReadinessStates)
  /\ sres \in {"none", "Startup", "Accept", "Registry"}
  /\ reply \in Results \union {"none"} /\ result \in Results \union {"none"}
  /\ token \in BOOLEAN /\ expired \in BOOLEAN /\ force \in BOOLEAN
  /\ fatalSeen \in BOOLEAN /\ listenerErr \in BOOLEAN
  /\ phase \in [Regs -> {"planned", "prepared", "activating", "settled", "cleaning", "over"}]
  /\ activation \in [Regs -> {"none", "ok", "failed", "cancelled"}]
  /\ closing \in [Regs -> {"none", "ok", "failed"}]
  /\ asked \in SUBSET Regs
  /\ act \in [Regs -> {"queued", "running", "done"}]
  /\ cl \in [Regs -> {"todo", "open", "ok", "failed", "timeout", "skipped"}]
  /\ tpc \in {"none", "accepting", "backoff", "closed", "draining", "ended", "dead"}
  /\ listening \in BOOLEAN /\ fatal \in BOOLEAN /\ cmd \in BOOLEAN
  /\ late \in BOOLEAN /\ cut \in BOOLEAN
  /\ failures \in 0 .. FatalAfter
  /\ conn \in [Connections -> {"none", "idle", "checked"}]
  /\ Cardinality(Open) <= MaxConnections
  /\ inside \in SUBSET Connections
  /\ gate \in {"open", "draining", "quiet"}

\* A server that says it is ready has every registration active, and none of
\* them about to be taken back, until it leaves that state; and no request is
\* executed by a server whose startup did not succeed.
ReadyMeansRegistered ==
  /\ readiness = "Ready" /\ cpc = "ready" =>
       \A r \in Regs : phase[r] = "settled" /\ activation[r] = "ok" /\ r \notin asked
  /\ inside # {} => cpc \notin {"spawned", "activate"} /\ sres = "none"

\* Registrations are closed, and Draining is published, only when nobody can
\* connect or be admitted any more (docs/modules/shutdown.md: the listener and
\* readiness are closed before any cleanup that may block).
ListenerFirst ==
  state = "Draining" \/ (\E r \in Regs : cl[r] # "todo") =>
    ~listening /\ gate # "open" /\ readiness \in {"Draining", "Stopped"}

\* Registrations are closed in the reverse of their order, at most Concurrency
\* at a time, and one failed or slow close does not keep the others from being
\* tried: before the deadline the server ends only when every registration it
\* prepared was asked to close and waited for.
OrderlyClose ==
  /\ \A r, q \in Tracked : r < q /\ cl[r] # "todo" => cl[q] # "todo"
  /\ Cardinality(InFlight) <= Concurrency
  /\ Cardinality(Running) <= Concurrency
  /\ result # "none" /\ ~expired =>
       \A r \in Tracked : cl[r] \in {"ok", "failed", "timeout"}

\* A server that stopped without an error has nothing left: no listener, no
\* connection, no request, and every registration really withdrawn.
StoppedClean ==
  result = "Ok" =>
    /\ ~listening /\ Open = {} /\ inside = {}
    /\ \A r \in Regs : phase[r] = "over" /\ closing[r] = "ok"

\* Something took too long: the shared deadline passed, or one registration was not
\* closed within the operation timeout of its own (close_registrations).
TimedOut == expired \/ \E r \in Regs : cl[r] = "timeout"

\* A timeout is reported only when there was one.
TimeoutFounded == result = "Timeout" => TimedOut

\* A fatal accept failure is reported even when a shutdown was requested at the
\* same time and won the race, or a registry failed as well; only a timeout is
\* reported instead of it.  That may be the one of a single slow close, with the
\* shared deadline still to come: resolve_shutdown_result puts both kinds first,
\* where docs/modules/shutdown.md:33 puts the deadline only.
FatalReported ==
  fatal /\ result # "none" => result = "Accept" \/ (result = "Timeout" /\ TimedOut)

\* Whoever gives the server up, and however (a dropped start(), a shutdown, a
\* fatal accept failure), it reaches Stopped and its connections end: no
\* provider, peer or request can hold it up.
StopEnds == (token \/ fatal) ~> (state = "Stopped" /\ Open = {})

\* start() is answered when it is not dropped.
StartAnswered == spc = "waiting" ~> spc # "waiting"

\* Nothing stays registered after the end, not even what the deadline cut off
\* or what a failed startup left half done, when the providers end what they
\* were asked to do.
NothingStaysRegistered ==
  (\A r \in Regs : WF_vars(ProviderStep(r))) =>
    (state = "Stopped" ~> \A r \in Regs : phase[r] \in {"planned", "over"})

\* The server drains in order: nobody can connect or be admitted before the first
\* registration is closed, and registrations are closed in reverse, a bounded number
\* at a time, one failure not keeping the others from being tried.
DrainsInOrder == ListenerFirst /\ OrderlyClose

\* The terminal result is the truth: success means that nothing is left, a timeout
\* that the deadline passed or a close was too slow, and a fatal accept failure is
\* reported, however it raced with the shutdown, unless there was such a timeout.
ResultTruthful == StoppedClean /\ TimeoutFounded /\ FatalReported

\* The server comes to its end from every point at which it is given up, start() is
\* answered, and nothing stays registered.
ServerEnds == StopEnds /\ StartAnswered /\ NothingStaysRegistered
=============================================================================
