----------------------------- MODULE Subscription -----------------------------
(***************************************************************************)
(* The discovery subscription of one selector: the SubscriptionManager and *)
(* the supervisor task run_subscription of fusen/src/client/subscription.rs*)
(* with the Directory of fusen-register/src/directory.rs that it publishes.*)
(*                                                                         *)
(* A step of the supervisor is what it does between two awaits.  The       *)
(* provider is external: behind a handle it does what ProviderContract     *)
(* allows, and it publishes into a directory of its own (raw).  Deadlines  *)
(* are steps that may be taken at any time while they are armed; the       *)
(* back-off delay is such a step too.  The slots of other selectors matter *)
(* only through the subscription limit, which may refuse an acquire.       *)
(***************************************************************************)
EXTENDS Naturals, FiniteSets

CONSTANTS Acquirers,         \* calls of SubscriptionManager::acquire
          Endpoints,         \* the endpoints a provider may list
          MaxGenerations,    \* bound on the handles prepared
          RevisionModulus    \* revisions are kept modulo this number

ASSUME BoundsAssumption ==
  MaxGenerations \in Nat /\ RevisionModulus \in Nat \ {0, 1}

VARIABLES
  shutdown,    \* begin_shutdown has run: closed is set, the token cancelled
  slot,        \* SlotState; "Absent": no slot in the map
  dirState,    \* the published DirectoryState
  dirInst,     \* the published instances
  revision,    \* the published revision
  retained,    \* the slot still owns its clone of the publisher
  owned,       \* the endpoints EndpointBreakers keeps for the selector
  spc,         \* where the supervisor is
  deadline,    \* stale_deadline is set
  terminal,    \* terminal_state
  gen,         \* handles prepared so far
  hphase, hactivation, hclosing,     \* the current handle: ProviderContract
  rawState, rawInst,                 \* what the provider last published
  rawUnseen,                         \* raw.changed() has something to return
  rawEnded,                          \* the provider dropped its publisher
  cpc, cres,   \* the shutdown coordinator and its result
  apc          \* where each acquirer is

directory == <<dirState, dirInst, revision>>
handle == <<gen, hphase, hactivation, hclosing>>
raw == <<rawState, rawInst, rawUnseen, rawEnded>>
supervisor == <<slot, directory, retained, owned, spc, deadline, terminal>>
vars == <<shutdown, supervisor, handle, raw, cpc, cres, apc>>

DirectoryStates == {"Initializing", "Ready", "Stale", "Unavailable", "Closed"}
SlotStates == {"Absent", "Initializing", "Ready", "Stale", "Unavailable",
               "Failed", "Quarantined", "Closed"}
SupervisorPcs == {"absent", "start", "activate", "serve", "close", "closeLate",
                  "delay", "finish", "release", "drop", "done"}
AcquirerPcs == {"idle", "lock", "wait", "ok", "refused"}

\* EndpointBreakers has no entry for the selector.
Nobody == {"nobody"}

Handle == INSTANCE ProviderContract WITH
            phase <- hphase, activation <- hactivation, closing <- hclosing

Init ==
  /\ shutdown = FALSE
  /\ slot = "Absent"
  /\ dirState = "Initializing" /\ dirInst = {} /\ revision = 0
  /\ retained = FALSE
  /\ owned = Nobody
  /\ spc = "absent"
  /\ deadline = FALSE
  /\ terminal = "Closed"
  /\ gen = 0 /\ hphase = "over" /\ hactivation = "none" /\ hclosing = "ok"
  /\ rawState = "Initializing" /\ rawInst = {} /\ rawUnseen = FALSE /\ rawEnded = TRUE
  /\ cpc = "running" /\ cres = "none"
  /\ apc = [a \in Acquirers |-> "idle"]

-----------------------------------------------------------------------------
(***************************************************************************)
(* DirectoryPublisher::publish, and the functions of the supervisor that   *)
(* publish: each constrains the directory, slot, owned and deadline.       *)
(***************************************************************************)

Publish(state, instances) ==
  /\ dirState' = state
  /\ dirInst' = instances
  /\ revision' = (revision + 1) % RevisionModulus

\* The drop of the last publisher.
PublishClosed == Publish("Closed", dirInst)

\* mark_disconnected: what it does to the directory and the deadline.
DisconnectDirectory ==
  CASE dirState = "Ready" -> Publish("Stale", dirInst) /\ deadline' = TRUE
    [] dirState = "Stale" -> deadline' = TRUE /\ UNCHANGED directory
    [] dirState = "Initializing" ->
         Publish("Unavailable", dirInst) /\ UNCHANGED deadline
    [] OTHER -> UNCHANGED <<directory, deadline>>

\* mark_disconnected: the slot's state after it.
DisconnectedSlot ==
  CASE dirState \in {"Ready", "Stale"} -> "Stale"
    [] dirState = "Initializing" -> "Unavailable"
    [] OTHER -> slot

MarkDisconnected ==
  DisconnectDirectory /\ slot' = DisconnectedSlot /\ UNCHANGED owned

\* update_snapshot: publish what the provider listed, in the given state.
Forward(state, stale) ==
  /\ owned' = rawInst
  /\ Publish(state, rawInst)
  /\ deadline' = stale
  /\ slot' = state

\* A supervisor that takes a stale first snapshot for a current one.
UpdateSnapshotTrusting ==
  CASE rawState = "Ready" -> Forward("Ready", FALSE)
    [] rawState = "Stale" -> Forward("Stale", FALSE)
    [] rawState = "Unavailable" -> Forward("Unavailable", FALSE)
    [] rawState = "Closed" -> MarkDisconnected
    [] OTHER -> UNCHANGED <<directory, slot, owned, deadline>>

UpdateSnapshot ==
  CASE rawState = "Ready" -> Forward("Ready", FALSE)
    [] rawState = "Stale" /\ dirState \in {"Ready", "Stale"} -> Forward("Stale", TRUE)
    [] \/ rawState = "Stale" /\ dirState \notin {"Ready", "Stale"}
       \/ rawState = "Unavailable" -> Forward("Unavailable", FALSE)
    [] rawState = "Closed" -> MarkDisconnected
    [] OTHER -> UNCHANGED <<directory, slot, owned, deadline>>

SetProviderFailure ==
  /\ IF dirState = "Initializing" THEN Publish("Unavailable", dirInst)
                                  ELSE UNCHANGED directory
  /\ slot' = IF dirState = "Stale" THEN "Stale" ELSE "Failed"
  /\ UNCHANGED <<owned, deadline>>

-----------------------------------------------------------------------------
(***************************************************************************)
(* The supervisor                                                          *)
(***************************************************************************)

\* What only the provider, the coordinator and the acquirers change.
others == <<shutdown, raw, cpc, cres, apc>>

StopAtStart ==
  /\ spc = "start" /\ shutdown
  /\ spc' = "finish"
  /\ UNCHANGED <<others, handle, directory, slot, retained, owned, deadline, terminal>>

Prepare ==
  /\ spc = "start" /\ ~shutdown
  /\ gen < MaxGenerations
  /\ gen' = gen + 1
  /\ hphase' = "prepared" /\ hactivation' = "none" /\ hclosing' = "none"
  /\ rawState' = "Initializing" /\ rawInst' = {}
  /\ rawUnseen' = FALSE /\ rawEnded' = FALSE
  /\ spc' = "activate"
  /\ UNCHANGED <<shutdown, cpc, cres, apc, directory, slot, retained, owned,
                 deadline, terminal>>

PrepareFails ==
  /\ spc = "start" /\ ~shutdown
  /\ SetProviderFailure
  /\ spc' = "delay"
  /\ UNCHANGED <<others, handle, retained, terminal>>

PreparePanics ==
  /\ spc = "start" /\ ~shutdown
  /\ terminal' = "Quarantined"
  /\ slot' = "Quarantined"
  /\ spc' = "finish"
  /\ UNCHANGED <<others, handle, directory, retained, owned, deadline>>

\* The first poll of activate(): the select is biased towards the token, so
\* the handle of a cancelled supervisor is never started.
StartActivate ==
  /\ spc = "activate" /\ ~shutdown
  /\ Handle!StartActivation
  /\ UNCHANGED <<others, gen, supervisor>>

ActivateCancelled ==
  /\ spc = "activate" /\ shutdown
  /\ spc' = "close"
  /\ UNCHANGED <<others, handle, directory, slot, retained, owned, deadline, terminal>>

ActivateOk ==
  /\ spc = "activate" /\ ~shutdown
  /\ hactivation = "ok"
  /\ UpdateSnapshot
  /\ spc' = "serve"
  /\ UNCHANGED <<others, handle, retained, terminal>>

ActivateFails ==
  /\ spc = "activate" /\ ~shutdown
  /\ hactivation \in {"failed", "cancelled", "aborted"}
  /\ SetProviderFailure
  /\ spc' = "close"
  /\ UNCHANGED <<others, handle, retained, terminal>>

\* A supervisor that gives a late activation up without closing it.
ActivateTimeoutUnclosed ==
  /\ spc = "activate" /\ ~shutdown
  /\ hphase # "prepared" /\ hactivation = "none"
  /\ DisconnectDirectory
  /\ slot' = "Quarantined"
  /\ spc' = "delay"
  /\ UNCHANGED <<others, handle, retained, owned, terminal>>

ActivateTimeout ==
  /\ spc = "activate" /\ ~shutdown
  /\ hphase # "prepared" /\ hactivation = "none"
  /\ DisconnectDirectory
  /\ slot' = "Quarantined"
  /\ spc' = "close"
  /\ UNCHANGED <<others, handle, retained, owned, terminal>>

\* raw.changed() returns the latest snapshot, the last one included.
ServeChanged ==
  /\ spc = "serve" /\ ~shutdown
  /\ rawUnseen
  /\ UpdateSnapshot
  /\ rawUnseen' = FALSE
  /\ UNCHANGED <<shutdown, rawState, rawInst, rawEnded, cpc, cres, apc,
                 handle, retained, spc, terminal>>

ServeEnded ==
  /\ spc = "serve" /\ ~shutdown
  /\ ~rawUnseen /\ rawEnded
  /\ MarkDisconnected
  /\ spc' = "close"
  /\ UNCHANGED <<others, handle, retained, terminal>>

ServeStops ==
  /\ spc = "serve" /\ shutdown
  /\ spc' = "close"
  /\ UNCHANGED <<others, handle, directory, slot, retained, owned, deadline, terminal>>

\* An expiry that always reports the slot as unavailable.
ExpireStaleOverwriting ==
  /\ deadline
  /\ spc \in {"activate", "serve", "close", "closeLate", "delay"}
  /\ spc = "serve" => ~shutdown /\ ~rawUnseen /\ ~rawEnded
  /\ deadline' = FALSE
  /\ IF dirState = "Stale"
     THEN /\ Publish("Unavailable", dirInst)
          /\ slot' = "Unavailable"
     ELSE UNCHANGED <<directory, slot>>
  /\ UNCHANGED <<others, handle, retained, owned, spc, terminal>>

\* The stale deadline passes, in the select of the serving loop (which is
\* biased towards its other branches) or in await_with_stale_deadline.
ExpireStale ==
  /\ deadline
  /\ spc \in {"activate", "serve", "close", "closeLate", "delay"}
  /\ spc = "serve" => ~shutdown /\ ~rawUnseen /\ ~rawEnded
  /\ deadline' = FALSE
  /\ IF dirState = "Stale"
     THEN /\ Publish("Unavailable", dirInst)
          /\ slot' = IF slot \in {"Ready", "Stale"} THEN "Unavailable" ELSE slot
     ELSE UNCHANGED <<directory, slot>>
  /\ UNCHANGED <<others, handle, retained, owned, spc, terminal>>

\* close_generation: the timeout of the first wait.
CloseTimeout ==
  /\ spc = "close"
  /\ hclosing = "none"
  /\ slot' = "Quarantined"
  /\ spc' = "closeLate"
  /\ UNCHANGED <<others, handle, directory, retained, owned, deadline, terminal>>

\* The generation is closed: stop, or reconnect after a delay.
CloseOk ==
  /\ spc \in {"close", "closeLate"}
  /\ hclosing = "ok"
  /\ spc' = IF shutdown THEN "finish" ELSE "delay"
  /\ UNCHANGED <<others, handle, directory, slot, retained, owned, deadline, terminal>>

CloseFails ==
  /\ spc \in {"close", "closeLate"}
  /\ hclosing \in {"failed", "aborted"}
  /\ terminal' = "Failed"
  /\ slot' = "Failed"
  /\ spc' = "finish"
  /\ UNCHANGED <<others, handle, directory, retained, owned, deadline>>

\* reconnect_delay, then set_retrying_state: the slot follows the directory.
Delay ==
  /\ spc = "delay"
  /\ IF shutdown THEN spc' = "finish" /\ UNCHANGED slot
                 ELSE spc' = "start" /\ slot' = dirState
  /\ UNCHANGED <<others, handle, directory, retained, owned, deadline, terminal>>

\* The end of run_subscription: the terminal state is sent and the token
\* looked at; without a shutdown the supervisor releases what it shares.
Finish ==
  /\ spc = "finish"
  /\ slot' = terminal
  /\ spc' = IF shutdown THEN "drop" ELSE "release"
  /\ UNCHANGED <<others, handle, directory, retained, owned, deadline, terminal>>

Release ==
  /\ spc = "release"
  /\ owned' = Nobody
  /\ retained' = FALSE
  /\ spc' = "drop"
  /\ UNCHANGED <<others, handle, directory, slot, deadline, terminal>>

DropPublisher ==
  /\ spc = "drop"
  /\ IF retained THEN UNCHANGED directory ELSE PublishClosed
  /\ spc' = "done"
  /\ UNCHANGED <<others, handle, slot, retained, owned, deadline, terminal>>

SupervisorStep ==
  \/ StopAtStart \/ Prepare \/ PrepareFails \/ PreparePanics
  \/ StartActivate \/ ActivateCancelled \/ ActivateOk \/ ActivateFails
  \/ ServeChanged \/ ServeEnded \/ ServeStops
  \/ CloseOk \/ CloseFails \/ Delay \/ Finish \/ Release \/ DropPublisher

-----------------------------------------------------------------------------
(***************************************************************************)
(* The provider                                                            *)
(***************************************************************************)

ProviderActivates ==
  /\ Handle!Settle
  /\ UNCHANGED <<others, gen, supervisor>>

\* The worker of the handle starts cleaning up when it is asked to.
ProviderCleans ==
  /\ spc \in {"close", "closeLate"}
  /\ Handle!StartCleanup \/ Handle!CloseUnstarted
  /\ UNCHANGED <<others, gen, supervisor>>

ProviderCleaned ==
  /\ Handle!FinishCleanup
  /\ UNCHANGED <<others, gen, supervisor>>

ProviderPublishes ==
  /\ hphase \in {"activating", "settled"} /\ ~rawEnded
  /\ rawState' \in {"Ready", "Stale", "Unavailable"}
  /\ rawInst' \in SUBSET Endpoints
  /\ rawUnseen' = TRUE
  /\ UNCHANGED <<shutdown, supervisor, handle, rawEnded, cpc, cres, apc>>

ProviderEnds ==
  /\ hphase # "prepared" /\ ~rawEnded
  /\ rawState' = "Closed"
  /\ rawUnseen' = TRUE
  /\ rawEnded' = TRUE
  /\ UNCHANGED <<shutdown, supervisor, handle, rawInst, cpc, cres, apc>>

ProviderStep == ProviderActivates \/ ProviderCleans \/ ProviderCleaned
                \/ ProviderPublishes \/ ProviderEnds

-----------------------------------------------------------------------------
(***************************************************************************)
(* acquire                                                                 *)
(***************************************************************************)

AcquireCheck(a) ==
  /\ apc[a] \in {"idle", "ok", "refused"}
  /\ apc' = [apc EXCEPT ![a] = IF shutdown THEN "refused" ELSE "lock"]
  /\ UNCHANGED <<shutdown, supervisor, handle, raw, cpc, cres>>

\* Under the lock: a new slot and its supervisor.
OpenSlot(a) ==
  /\ spc' = "start"
  /\ slot' = "Initializing"
  /\ retained' = TRUE
  /\ apc' = [apc EXCEPT ![a] = "wait"]
  /\ UNCHANGED <<directory, owned, deadline, terminal>>

JoinOrRefuse(a, label) ==
  /\ apc' = [apc EXCEPT ![a] = label]
  /\ UNCHANGED supervisor

\* An acquire that trusts the check it made before it took the lock.
AcquireLockedUnchecked(a) ==
  /\ apc[a] = "lock"
  /\ \/ slot # "Absent" /\ JoinOrRefuse(a, "wait")
     \/ slot = "Absent" /\ OpenSlot(a)
     \/ slot = "Absent" /\ JoinOrRefuse(a, "refused")
  /\ UNCHANGED <<shutdown, handle, raw, cpc, cres>>

AcquireLocked(a) ==
  /\ apc[a] = "lock"
  /\ \/ shutdown /\ JoinOrRefuse(a, "refused")
     \/ ~shutdown /\ slot # "Absent" /\ JoinOrRefuse(a, "wait")
     \/ ~shutdown /\ slot = "Absent" /\ OpenSlot(a)
     \/ ~shutdown /\ slot = "Absent" /\ JoinOrRefuse(a, "refused")  \* the limit
  /\ UNCHANGED <<shutdown, handle, raw, cpc, cres>>

\* wait_until_ready.
Answered(a) ==
  /\ apc[a] = "wait"
  /\ slot # "Initializing"
  /\ apc' = [apc EXCEPT ![a] = IF slot \in {"Ready", "Stale"} THEN "ok" ELSE "refused"]
  /\ UNCHANGED <<shutdown, supervisor, handle, raw, cpc, cres>>

InitialTimeout(a) ==
  /\ apc[a] = "wait"
  /\ apc' = [apc EXCEPT ![a] = "refused"]
  /\ UNCHANGED <<shutdown, supervisor, handle, raw, cpc, cres>>

AcquirerStep(a) ==
  AcquireCheck(a) \/ AcquireLocked(a) \/ Answered(a) \/ InitialTimeout(a)

-----------------------------------------------------------------------------
(***************************************************************************)
(* The part of client_shutdown_coordinator that concerns subscriptions.    *)
(***************************************************************************)

BeginShutdown ==
  /\ cpc = "running"
  /\ shutdown' = TRUE
  /\ cpc' = "collect"
  /\ UNCHANGED <<supervisor, handle, raw, cres, apc>>

\* closed() takes the slots there are.
CollectSlots ==
  /\ cpc = "collect"
  /\ IF slot = "Absent" THEN cpc' = "finish" /\ cres' = "ok"
                        ELSE cpc' = "await" /\ UNCHANGED cres
  /\ UNCHANGED <<shutdown, supervisor, handle, raw, apc>>

SlotCompleted ==
  /\ cpc = "await"
  /\ spc = "done"
  /\ cpc' = "finish"
  /\ cres' = IF slot = "Failed" THEN "failed" ELSE "ok"
  /\ UNCHANGED <<shutdown, supervisor, handle, raw, apc>>

ShutdownTimeout ==
  /\ cpc = "await"
  /\ cpc' = "finish"
  /\ cres' = "timeout"
  /\ UNCHANGED <<shutdown, supervisor, handle, raw, apc>>

\* finish_shutdown that leaves the endpoint breakers to their idle timeout.
FinishShutdownKeeping ==
  /\ cpc = "finish"
  /\ cpc' = "finished"
  /\ retained' = FALSE
  /\ IF retained /\ spc = "done" THEN PublishClosed ELSE UNCHANGED directory
  /\ UNCHANGED <<shutdown, slot, owned, spc, deadline, terminal, handle, raw, cres, apc>>

\* finish_shutdown that leaves the slots their publishers.
FinishShutdownRetaining ==
  /\ cpc = "finish"
  /\ cpc' = "finished"
  /\ owned' = Nobody
  /\ UNCHANGED <<shutdown, slot, directory, retained, spc, deadline, terminal,
                 handle, raw, cres, apc>>

FinishShutdown ==
  /\ cpc = "finish"
  /\ cpc' = "finished"
  /\ owned' = Nobody
  /\ retained' = FALSE
  /\ IF retained /\ spc = "done" THEN PublishClosed ELSE UNCHANGED directory
  /\ UNCHANGED <<shutdown, slot, spc, deadline, terminal, handle, raw, cres, apc>>

CoordinatorStep == CollectSlots \/ SlotCompleted \/ FinishShutdown

-----------------------------------------------------------------------------
Next ==
  \/ SupervisorStep \/ ActivateTimeout \/ ExpireStale \/ CloseTimeout
  \/ ProviderStep
  \/ \E a \in Acquirers : AcquirerStep(a)
  \/ BeginShutdown \/ CoordinatorStep \/ ShutdownTimeout

Spec == Init /\ [][Next]_vars

\* Tasks that can run do run; the provider ends what it was asked to do; the
\* deadlines of activation and shutdown pass.  The stale deadline is looked at
\* last in a biased select, so it is only known to be taken when it finds the
\* other branches idle again and again.
Fairness ==
  /\ WF_vars(SupervisorStep) /\ WF_vars(ActivateTimeout) /\ SF_vars(ExpireStale)
  /\ WF_vars(ProviderActivates) /\ WF_vars(ProviderCleans) /\ WF_vars(ProviderCleaned)
  /\ WF_vars(CoordinatorStep) /\ WF_vars(ShutdownTimeout)

FairSpec == Spec /\ Fairness

-----------------------------------------------------------------------------
(***************************************************************************)
(* Properties                                                              *)
(***************************************************************************)

\* Every variable has its type; a supervisor ends only as closed, failed or
\* quarantined.
TypeOK ==
  /\ shutdown \in BOOLEAN /\ retained \in BOOLEAN /\ deadline \in BOOLEAN
  /\ slot \in SlotStates
  /\ dirState \in DirectoryStates /\ dirInst \in SUBSET Endpoints
  /\ revision \in 0 .. RevisionModulus - 1
  /\ owned \in (SUBSET Endpoints) \union {Nobody}
  /\ spc \in SupervisorPcs
  /\ terminal \in {"Closed", "Failed", "Quarantined"}
  /\ gen \in 0 .. MaxGenerations
  /\ hphase \in {"prepared", "activating", "settled", "cleaning", "over"}
  /\ hactivation \in {"none", "ok", "failed", "cancelled"}
  /\ hclosing \in {"none", "ok", "failed"}
  /\ rawState \in DirectoryStates /\ rawInst \in SUBSET Endpoints
  /\ rawUnseen \in BOOLEAN /\ rawEnded \in BOOLEAN
  /\ cpc \in {"running", "collect", "await", "finish", "finished"}
  /\ cres \in {"none", "ok", "failed", "timeout"}
  /\ apc \in [Acquirers -> AcquirerPcs]

\* The supervisor is in its loop.
Supervised == spc \in {"start", "activate", "serve", "close", "closeLate", "delay"}

\* A stale directory always has a deadline running, and a deadline runs only
\* for a stale directory, through every disconnect, failed reconnect, slow
\* close and recovery: last-good instances are never routed without a limit.
StaleHasDeadline == Supervised => (deadline <=> dirState = "Stale")

\* acquire hands out a directory as ready or stale only when the directory
\* says the same: the two are written separately by every function of the
\* supervisor, and by the expiry that may come at any await.  After a close
\* has timed out the selector stays quarantined until the old generation has
\* ended (docs/modules/client.md), even if the stale deadline passes meanwhile.
SlotTruthful ==
  /\ slot \in {"Ready", "Stale"} => dirState = slot
  /\ Supervised /\ dirState = "Ready" => spc \in {"serve", "close", "closeLate"}
  /\ spc = "closeLate" => slot = "Quarantined"

\* A generation is prepared only after the previous one was closed for good:
\* subscriptions of a selector never overlap, however activation ended.
NoOverlap ==
  [][gen' # gen => hphase = "over" /\ hclosing = "ok"]_vars

\* EndpointBreakers follows the published instances while the supervisor runs
\* and forgets the selector for good once the shutdown is over, even when it
\* timed out and the supervisor is still waiting for its provider.
BreakersFollow ==
  /\ Supervised /\ cpc # "finished" =>
       owned = dirInst \/ (owned = Nobody /\ dirInst = {})
  /\ cpc = "finished" => owned = Nobody

\* A shutdown that reports success has left nothing behind: no supervisor is
\* running or will ever start, and the last generation is closed, although an
\* acquire may have passed its first check before the shutdown began.
ShutdownComplete ==
  cres = "ok" => /\ spc \in {"absent", "done"}
                 /\ hphase = "over" /\ hclosing = "ok"

\* Last-good instances are given up: a stale directory becomes ready,
\* unavailable or closed.
StaleEnds == dirState = "Stale" ~> dirState # "Stale"

\* Every supervisor ends after a shutdown begins, wherever it was waiting,
\* and the directory is closed once everything is over.
ShutdownEnds ==
  /\ shutdown ~> spc \in {"absent", "done"}
  /\ (shutdown /\ slot # "Absent") ~> dirState = "Closed"

\* What a slot says is true at every await: one that shows stale instances has the
\* deadline that ends it, and its state agrees with what the directory shows.
SlotSound == StaleHasDeadline /\ SlotTruthful

\* Nothing survives the shutdown or the loss of a subscription: no slot that nobody
\* waits for, and no endpoint in the breakers that the directory has dropped.
NothingRetained == BreakersFollow /\ ShutdownComplete

\* Staleness ends by recovery or by expiry, and the shutdown ends, whatever the
\* provider does.
EndsInTime == StaleEnds /\ ShutdownEnds
=============================================================================
