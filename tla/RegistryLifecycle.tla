-------------------------- MODULE RegistryLifecycle --------------------------
(***************************************************************************)
(* The lifecycle behind a RegistrationHandle or SubscriptionHandle of      *)
(* fusen-register/src/lib.rs: activation shared by several waiters, each   *)
(* of which may be cancelled; close requested by callers, by the drop of   *)
(* the last handle or by the cancellation of the last waiter; and the      *)
(* worker task that owns the provider's two operations.                    *)
(*                                                                         *)
(* An action is one atomic operation, one section under the `start` mutex, *)
(* or one stretch of the worker between two points where others can see    *)
(* it.                                                                     *)
(***************************************************************************)
EXTENDS Naturals, FiniteSets

CONSTANTS Waiters,  \* calls of activate()
          Closers,  \* calls of close() or request_close()
          Dropper   \* the drop of the last Arc<Lifecycle>

ASSUME ActorsAssumption ==
  /\ IsFiniteSet(Waiters)
  /\ Waiters \intersect Closers = {}
  /\ Dropper \notin Waiters \union Closers

Actors == Waiters \union Closers \union {Dropper}

VARIABLES
  start,           \* StartState under the mutex
  waiters,         \* activation_waiters
  observed,        \* activation_observed
  closeRequested,  \* close_requested
  closeSignal,     \* the value in the close_request channel
  activation,      \* the value in the activation_result channel
  closing,         \* the value in the close_result channel
  handle,          \* some clone of the handle is alive
  pc,              \* where each actor is
  answer,          \* what each waiter was told
  peers,           \* history: the activate() calls made before a waiter was
                   \* cancelled as the last one
  wpc,             \* where the worker is
  wres,            \* the worker's local activation result
  registered       \* the provider holds what activation set up

channels == <<closeRequested, closeSignal, activation, closing>>
worker == <<wpc, wres, registered>>
vars == <<start, waiters, observed, channels, handle, pc, answer, peers,
          worker>>

ActivationResults == {"none", "ok", "failed", "cancelled", "aborted"}
CloseResults == {"none", "ok", "failed", "aborted"}

ActorPcs ==
  {"none",        \* not called yet
   "created",     \* activate() returned a future that was not polled yet
   "lock",        \* ensure_started found no result; about to lock start
   "await",       \* waiting for a result
   "observe",     \* has its result; about to set activation_observed
   "release",     \* about to leave the waiter count
   "done",        \* returned its result
   "decide",      \* cancelled as the last waiter; about to load observed
   "swap",        \* request_close: about to swap close_requested
   "send",        \* request_close: about to send on close_request
   "closeStart",  \* request_close: about to lock start
   "gone"}        \* cancelled, or dropped

WorkerPcs == {"absent", "activating", "decide", "publish", "waitClose",
              "cleaning", "ended", "aborted"}

\* The waiters counted in activation_waiters.
Registered ==
  {w \in Waiters : pc[w] \in {"created", "lock", "await", "observe", "release"}}

Init ==
  /\ start = "Prepared"
  /\ waiters = 0
  /\ observed = FALSE
  /\ closeRequested = FALSE
  /\ closeSignal = FALSE
  /\ activation = "none"
  /\ closing = "none"
  /\ handle = TRUE
  /\ pc = [a \in Actors |-> "none"]
  /\ answer = [w \in Waiters |-> "none"]
  /\ peers = [w \in Waiters |-> {}]
  /\ wpc = "absent"
  /\ wres = "none"
  /\ registered = FALSE

Goto(a, label) == pc' = [pc EXCEPT ![a] = label]

-----------------------------------------------------------------------------
(***************************************************************************)
(* activate() and its waiter.                                              *)
(***************************************************************************)

\* activate() registers the waiter before its future is polled.
Activate(w) ==
  /\ handle
  /\ pc[w] = "none"
  /\ waiters' = waiters + 1
  /\ Goto(w, "created")
  /\ UNCHANGED <<start, observed, channels, handle, answer, peers, worker>>

\* The first poll: ensure_started looks for a result.
Poll(w) ==
  /\ pc[w] = "created"
  /\ Goto(w, IF activation # "none" THEN "await" ELSE "lock")
  /\ UNCHANGED <<start, waiters, observed, channels, handle, answer, peers, worker>>

\* A handle that is over before its provider was touched: the prepared
\* operations are dropped and both results are published under the mutex.
FinishUnstarted(result) ==
  /\ start' = "Finished"
  /\ activation' = result
  /\ closing' = "ok"

\* The first poll happens outside a tokio runtime: finish_before_start, and
\* an error for this waiter whatever the state was.
PollOutsideRuntime(w) ==
  /\ pc[w] = "created"
  /\ activation = "none"
  /\ IF start = "Prepared"
     THEN FinishUnstarted("failed")
     ELSE UNCHANGED <<start, activation, closing>>
  /\ answer' = [answer EXCEPT ![w] = "failed"]
  /\ Goto(w, "observe")
  /\ UNCHANGED <<waiters, observed, closeRequested, closeSignal, handle,
                 peers, worker>>

\* The section of ensure_started under the mutex: the first caller spawns
\* the worker, unless close was requested before.
EnsureStarted(w) ==
  /\ pc[w] = "lock"
  /\ \/ /\ start # "Prepared"
        /\ UNCHANGED <<start, activation, closing, wpc>>
     \/ /\ start = "Prepared" /\ closeRequested
        /\ FinishUnstarted("cancelled")
        /\ UNCHANGED wpc
     \/ /\ start = "Prepared" /\ ~closeRequested
        /\ start' = "Started"
        /\ wpc' = "activating"
        /\ UNCHANGED <<activation, closing>>
  /\ Goto(w, "await")
  /\ UNCHANGED <<waiters, observed, closeRequested, closeSignal, handle,
                 answer, peers, wres, registered>>

\* wait_activation returns the shared result.
ObserveResult(w) ==
  /\ w \in Waiters
  /\ pc[w] = "await"
  /\ activation # "none"
  /\ answer' = [answer EXCEPT ![w] = activation]
  /\ Goto(w, "observe")
  /\ UNCHANGED <<start, waiters, observed, channels, handle, peers, worker>>

\* A waiter that leaves the count before it says that it was answered.
StoreObservedLate(w) ==
  /\ pc[w] = "observe"
  /\ waiters' = waiters - 1
  /\ Goto(w, "release")
  /\ UNCHANGED <<start, observed, channels, handle, answer, peers, worker>>

\* complete: activation_observed.store(true).
StoreObserved(w) ==
  /\ pc[w] = "observe"
  /\ observed' = TRUE
  /\ Goto(w, "release")
  /\ UNCHANGED <<start, waiters, channels, handle, answer, peers, worker>>

\* complete: the waiter leaves the count, as completed.
ReleaseCompleted(w) ==
  /\ pc[w] = "release"
  /\ waiters' = waiters - 1
  /\ Goto(w, "done")
  /\ UNCHANGED <<start, observed, channels, handle, answer, peers, worker>>

\* The future is dropped, unpolled or while it waits: the waiter leaves the
\* count, and the last one has a decision to take.
Cancel(w) ==
  /\ w \in Waiters
  /\ pc[w] \in {"created", "await"}
  /\ waiters' = waiters - 1
  /\ IF waiters = 1
     THEN /\ Goto(w, "decide")
          /\ peers' = [peers EXCEPT ![w] = {v \in Waiters : pc[v] # "none"} \ {w}]
     ELSE /\ Goto(w, "gone")
          /\ UNCHANGED peers
  /\ UNCHANGED <<start, observed, channels, handle, answer, worker>>

\* A drop that leaves the decision to the last handle.
DecideNever(w) ==
  /\ pc[w] = "decide"
  /\ Goto(w, "gone")
  /\ UNCHANGED <<start, waiters, observed, channels, handle, answer, peers, worker>>

\* release: the last waiter requests close unless some waiter was answered.
Decide(w) ==
  /\ pc[w] = "decide"
  /\ Goto(w, IF observed THEN "gone" ELSE "swap")
  /\ UNCHANGED <<start, waiters, observed, channels, handle, answer, peers, worker>>

-----------------------------------------------------------------------------
(***************************************************************************)
(* request_close, and who calls it.                                        *)
(***************************************************************************)

\* close() or request_close() on a handle.
CallClose(c) ==
  /\ c \in Closers
  /\ handle
  /\ pc[c] = "none"
  /\ Goto(c, "swap")
  /\ UNCHANGED <<start, waiters, observed, channels, handle, answer, peers, worker>>

\* The last clone of the handle goes away.
DropHandles ==
  /\ handle
  /\ handle' = FALSE
  /\ UNCHANGED <<start, waiters, observed, channels, pc, answer, peers, worker>>

\* Futures own an Arc<Lifecycle> too: Drop for Lifecycle runs when neither a
\* handle nor a future is left.
LastDrop ==
  /\ ~handle
  /\ \A a \in Actors \ {Dropper} : pc[a] \in {"none", "done", "gone"}
  /\ pc[Dropper] = "none"
  /\ Goto(Dropper, "swap")
  /\ UNCHANGED <<start, waiters, observed, channels, handle, answer, peers, worker>>

RequestSwap(a) ==
  /\ pc[a] = "swap"
  /\ closeRequested' = TRUE
  /\ Goto(a, IF closeRequested THEN "closeStart" ELSE "send")
  /\ UNCHANGED <<start, waiters, observed, closeSignal, activation, closing,
                 handle, answer, peers, worker>>

RequestSend(a) ==
  /\ pc[a] = "send"
  /\ closeSignal' = TRUE
  /\ Goto(a, "closeStart")
  /\ UNCHANGED <<start, waiters, observed, closeRequested, activation, closing,
                 handle, answer, peers, worker>>

AfterRequest(a) == IF a \in Closers THEN "await" ELSE "gone"

\* A close that takes a started handle for an unstarted one.
CloseStartAlways(a) ==
  /\ pc[a] = "closeStart"
  /\ IF start # "Finished"
     THEN FinishUnstarted("cancelled")
     ELSE UNCHANGED <<start, activation, closing>>
  /\ Goto(a, AfterRequest(a))
  /\ UNCHANGED <<waiters, observed, closeRequested, closeSignal, handle,
                 answer, peers, worker>>

\* A close that discards the prepared operations and publishes nothing.
CloseStartSilent(a) ==
  /\ pc[a] = "closeStart"
  /\ start' = IF start = "Prepared" THEN "Finished" ELSE start
  /\ Goto(a, AfterRequest(a))
  /\ UNCHANGED <<waiters, observed, channels, handle, answer, peers, worker>>

\* The section of request_close under the mutex.
CloseStart(a) ==
  /\ pc[a] = "closeStart"
  /\ IF start = "Prepared"
     THEN FinishUnstarted("cancelled")
     ELSE UNCHANGED <<start, activation, closing>>
  /\ Goto(a, AfterRequest(a))
  /\ UNCHANGED <<waiters, observed, closeRequested, closeSignal, handle,
                 answer, peers, worker>>

\* wait_close returns the shared result.
ObserveClose(c) ==
  /\ c \in Closers
  /\ pc[c] = "await"
  /\ closing # "none"
  /\ Goto(c, "done")
  /\ UNCHANGED <<start, waiters, observed, channels, handle, answer, peers, worker>>

\* The close future is dropped while it waits (request_close never waits).
AbandonClose(c) ==
  /\ c \in Closers
  /\ pc[c] = "await"
  /\ Goto(c, "gone")
  /\ UNCHANGED <<start, waiters, observed, channels, handle, answer, peers, worker>>

-----------------------------------------------------------------------------
(***************************************************************************)
(* LifecycleWorker.  A panic of a provider operation is a failure.         *)
(***************************************************************************)
workerKeeps == <<start, waiters, observed, closeRequested, closeSignal,
                 handle, pc, answer, peers>>

\* The provider's activation ends.
ActivationEnds ==
  /\ wpc = "activating"
  /\ \E result \in {"ok", "failed"} :
       /\ wres' = result
       /\ registered' = (result = "ok")
  /\ wpc' = "decide"
  /\ UNCHANGED <<workerKeeps, activation, closing>>

\* A success that comes after the close request is reported as cancelled.
DecideActivation ==
  /\ wpc = "decide"
  /\ wres' = IF closeSignal /\ wres = "ok" THEN "cancelled" ELSE wres
  /\ wpc' = "publish"
  /\ UNCHANGED <<workerKeeps, activation, closing, registered>>

PublishActivation ==
  /\ wpc = "publish"
  /\ activation' = wres
  /\ wpc' = "waitClose"
  /\ UNCHANGED <<workerKeeps, closing, wres, registered>>

\* The close request arrives and the cleanup is constructed.
AwaitCloseRequest ==
  /\ wpc = "waitClose"
  /\ closeSignal
  /\ wpc' = "cleaning"
  /\ UNCHANGED <<workerKeeps, activation, closing, wres, registered>>

\* The provider's cleanup ends and its result is published.
CleanupEnds ==
  /\ wpc = "cleaning"
  /\ \E result \in {"ok", "failed"} :
       /\ closing' = result
       /\ registered' = (registered /\ result # "ok")
  /\ wpc' = "ended"
  /\ UNCHANGED <<workerKeeps, activation, wres>>

\* An abort that overwrites what the worker had published.
AbortAll ==
  /\ wpc \in {"activating", "waitClose", "cleaning"}
  /\ activation' = "aborted"
  /\ closing' = "aborted"
  /\ wpc' = "aborted"
  /\ UNCHANGED <<workerKeeps, wres, registered>>

\* The runtime drops the worker at one of its awaits: Drop for
\* LifecycleWorker publishes what was not published.
Abort ==
  /\ wpc \in {"activating", "waitClose", "cleaning"}
  /\ activation' = IF wpc = "activating" THEN "aborted" ELSE activation
  /\ closing' = "aborted"
  /\ wpc' = "aborted"
  /\ UNCHANGED <<workerKeeps, wres, registered>>

-----------------------------------------------------------------------------
\* What a task does by itself once polled.
WaiterStep(w) == \/ EnsureStarted(w) \/ ObserveResult(w) \/ StoreObserved(w)
                 \/ ReleaseCompleted(w) \/ Decide(w)

RequestStep(a) == RequestSwap(a) \/ RequestSend(a) \/ CloseStart(a)

WorkerStep == DecideActivation \/ PublishActivation \/ AwaitCloseRequest

Next ==
  \/ \E w \in Waiters : \/ Activate(w) \/ Poll(w) \/ PollOutsideRuntime(w)
                        \/ WaiterStep(w) \/ Cancel(w)
  \/ \E c \in Closers : CallClose(c) \/ ObserveClose(c) \/ AbandonClose(c)
  \/ \E a \in Actors : RequestStep(a)
  \/ DropHandles \/ LastDrop
  \/ ActivationEnds \/ WorkerStep \/ CleanupEnds \/ Abort

Spec == Init /\ [][Next]_vars

(***************************************************************************)
(* Fairness: a woken task is polled, and synchronous code runs to its end. *)
(* Nobody has to poll a future for the first time, cancel it, close or     *)
(* drop the handle, and the provider's operations need not end.            *)
(***************************************************************************)
FairSpec ==
  /\ Spec
  /\ \A w \in Waiters : WF_vars(WaiterStep(w))
  /\ \A a \in Actors : WF_vars(RequestStep(a))
  /\ \A c \in Closers : WF_vars(ObserveClose(c))
  /\ WF_vars(LastDrop)
  /\ WF_vars(WorkerStep)
-----------------------------------------------------------------------------
(***************************************************************************)
(* Properties.                                                             *)
(***************************************************************************)

\* Every variable has its type; the waiter count is never negative (the
\* debug_assert of ActivationWaiter::release).
TypeOK ==
  /\ start \in {"Prepared", "Started", "Finished"}
  /\ waiters \in 0..Cardinality(Waiters)
  /\ observed \in BOOLEAN
  /\ closeRequested \in BOOLEAN
  /\ closeSignal \in BOOLEAN
  /\ activation \in ActivationResults
  /\ closing \in CloseResults
  /\ handle \in BOOLEAN
  /\ pc \in [Actors -> ActorPcs]
  /\ answer \in [Waiters -> ActivationResults]
  /\ peers \in [Waiters -> SUBSET Waiters]
  /\ wpc \in WorkerPcs
  /\ wres \in {"none", "ok", "failed", "cancelled"}
  /\ registered \in BOOLEAN

\* A close that reports success leaves nothing behind: the provider holds
\* nothing and no worker will ever set anything up.
CloseOkMeansClean ==
  closing = "ok" => ~registered /\ wpc \in {"absent", "ended"}

\* "Cancelling every pending activation waiter also requests cleanup", and
\* only that does: a cancelled waiter requests close only if every activate()
\* made before its cancellation was cancelled as well.  A waiter that was
\* answered keeps its registration.
SurvivorKeepsHandle ==
  \A w \in Waiters :
    pc[w] \in {"swap", "send", "closeStart"} =>
      \A v \in peers[w] : pc[v] \notin {"observe", "release", "done"}

\* Shared results are terminal: no step of anybody changes a published one.
ResultsTerminal ==
  [][/\ activation # "none" => activation' = activation
     /\ closing # "none" => closing' = closing]_vars

Phase ==
  CASE wpc = "absent" -> IF start = "Finished" THEN "over" ELSE "prepared"
    [] wpc \in {"activating", "decide", "publish"} -> "activating"
    [] wpc = "waitClose" -> "settled"
    [] wpc = "cleaning" -> "cleaning"
    [] wpc \in {"ended", "aborted"} -> "over"

Contract == INSTANCE ProviderContract WITH phase <- Phase

\* The lifecycle implements what the documentation of prepare_registration
\* and prepare_subscription promises about the provider's operations.
ImplementsContract == Contract!Spec

\* The activation was given up by everybody who asked for it.
Abandoned == /\ \E w \in Waiters : pc[w] = "gone"
             /\ \A w \in Waiters : pc[w] \in {"none", "gone"}

\* No handle is left and nobody is in a call.
HandleDropped == /\ ~handle
                 /\ \A a \in Actors \ {Dropper} : pc[a] \in {"none", "done", "gone"}

\* "A late provider success is compensated": when every waiter was cancelled
\* and the provider's activation succeeds, before or after, the cleanup is
\* started although the handle is still alive; and the drop of the last
\* handle cleans up behind a provider that succeeded.
OrphansCleaned ==
  /\ (registered /\ Abandoned)
       ~> (wpc \in {"cleaning", "ended", "aborted"} \/ ~Abandoned)
  /\ (registered /\ HandleDropped) ~> wpc \in {"cleaning", "ended", "aborted"}

\* Only the provider can keep an activate() or a close() waiting.
CallsAnswered ==
  /\ \A w \in Waiters :
       pc[w] = "await" ~> (pc[w] # "await" \/ wpc = "activating")
  /\ \A c \in Closers :
       pc[c] = "await" ~> (pc[c] # "await" \/ wpc \in {"activating", "cleaning"})

\* A handle tells the truth to both of its users: a close that reports success has
\* left nothing at the provider, and whoever received the activation keeps it,
\* whatever the waiters that gave up do.
HandleTruthful == CloseOkMeansClean /\ SurvivorKeepsHandle

\* Every operation begun on a handle ends: every activate and close is answered, and
\* a success that nobody is left to receive is cleaned up.
OperationsEnd == OrphansCleaned /\ CallsAnswered
=============================================================================
