---------------------------- MODULE AdmissionGate ----------------------------
(***************************************************************************)
(* The admission gate of fusen/src/runtime/admission.rs, together with the *)
(* two functions that use it to admit a call (acquire_admission of the     *)
(* client and of the server) and the shutdown coordinator that drains it.  *)
(*                                                                         *)
(* Every atomic operation of the code (a load, a compare-exchange, a       *)
(* fetch_add, an operation of a tokio Semaphore or Notify) is one action,  *)
(* so that all the interleavings of the callers' and the coordinator's     *)
(* atomic operations are behaviours of Spec.  Atomics are sequentially     *)
(* consistent here.                                                        *)
(***************************************************************************)
EXTENDS Naturals, FiniteSets

CONSTANTS Callers,     \* tasks that run acquire_admission
          Limit,       \* permits of the gate's semaphore
          QueueLimit   \* slots of the admission queue; 0: no queue configured

ASSUME CallersAssumption == IsFiniteSet(Callers)
ASSUME LimitAssumption == Limit \in Nat \ {0}
ASSUME QueueLimitAssumption == QueueLimit \in Nat

VARIABLES
  state,          \* AdmissionGate.state
  permits,        \* permits left in the semaphore
  permitsClosed,  \* the semaphore has been closed
  active,         \* AdmissionGate.active
  queue,          \* callers that hold a slot of the admission queue
  pc,             \* where each caller is in acquire_admission
  cpc,            \* where the shutdown coordinator is
  notified        \* the coordinator's Notified future has been woken

gateVars == <<state, permits, permitsClosed, active>>
vars == <<state, permits, permitsClosed, active, queue, pc, cpc, notified>>

States == {"Running", "Draining", "Closed"}

CallerPcs ==
  {"idle",     \* not in a call, or an error was returned
   "acquire",  \* try_enter saw RUNNING; about to try_acquire a permit
   "full",     \* try_acquire failed; about to reload the state
   "queue",    \* Overloaded; about to take a queue slot
   "enter",    \* has a queue slot; about to load the state in enter()
   "wait",     \* in acquire_owned().await
   "count",    \* has a permit; about to increment active
   "check",    \* counted; about to load the state again
   "undo",     \* refused by the second load; about to decrement active
   "held",     \* holds an AdmissionGuard
   "notify",   \* took active to zero; about to notify_waiters
   "free"}     \* about to give its permit back

CoordinatorPcs ==
  {"running", "closePermits", "notify", "arm", "check", "await",
   "drained", "gaveUp"}

\* The callers that own a permit of the semaphore.
Holders == {t \in Callers :
              pc[t] \in {"count", "check", "undo", "held", "notify", "free"}}

\* The callers that are counted in active.
Counted == {t \in Callers : pc[t] \in {"check", "undo", "held"}}

\* The callers that own an AdmissionGuard.
Guards == {t \in Callers : pc[t] = "held"}

Init ==
  /\ state = "Running"
  /\ permits = Limit
  /\ permitsClosed = FALSE
  /\ active = 0
  /\ queue = {}
  /\ pc = [t \in Callers |-> "idle"]
  /\ cpc = "running"
  /\ notified = FALSE

Goto(t, label) == pc' = [pc EXCEPT ![t] = label]

-----------------------------------------------------------------------------
(***************************************************************************)
(* A caller: acquire_admission, try_enter, enter and the guard's Drop.     *)
(***************************************************************************)

\* try_enter: the first load of the state.
TryEnter(t) ==
  /\ pc[t] = "idle"
  /\ t \notin queue
  /\ Goto(t, IF state = "Running" THEN "acquire" ELSE "idle")
  /\ UNCHANGED <<gateVars, queue, cpc, notified>>

\* try_enter: try_acquire_owned, which a closed semaphore always refuses.
TryAcquire(t) ==
  /\ pc[t] = "acquire"
  /\ IF ~permitsClosed /\ permits > 0
     THEN permits' = permits - 1 /\ Goto(t, "count")
     ELSE permits' = permits /\ Goto(t, "full")
  /\ UNCHANGED <<state, permitsClosed, active, queue, cpc, notified>>

\* try_enter: a failed acquisition is Overloaded while the gate runs, and
\* Draining otherwise.
ClassifyFull(t) ==
  /\ pc[t] = "full"
  /\ Goto(t, IF state = "Running" THEN "queue" ELSE "idle")
  /\ UNCHANGED <<gateVars, queue, cpc, notified>>

\* acquire_admission: the overloaded call takes a queue slot or is refused.
JoinQueue(t) ==
  /\ pc[t] = "queue"
  /\ IF Cardinality(queue) < QueueLimit
     THEN queue' = queue \union {t} /\ Goto(t, "enter")
     ELSE queue' = queue /\ Goto(t, "idle")
  /\ UNCHANGED <<gateVars, cpc, notified>>

\* enter: the first load of the state.
Enter(t) ==
  /\ pc[t] = "enter"
  /\ Goto(t, IF state = "Running" THEN "wait" ELSE "idle")
  /\ UNCHANGED <<gateVars, queue, cpc, notified>>

\* enter: acquire_owned().await completes with a permit.
WaitAcquire(t) ==
  /\ pc[t] = "wait"
  /\ ~permitsClosed /\ permits > 0
  /\ permits' = permits - 1
  /\ Goto(t, "count")
  /\ UNCHANGED <<state, permitsClosed, active, queue, cpc, notified>>

\* enter: acquire_owned().await fails because the semaphore was closed.
WaitClosed(t) ==
  /\ pc[t] = "wait"
  /\ permitsClosed
  /\ Goto(t, "idle")
  /\ UNCHANGED <<gateVars, queue, cpc, notified>>

\* The queue deadline, or the end of the invocation, drops the enter future.
\* acquire_owned is its only await, so it is dropped there.
WaitTimeout(t) ==
  /\ pc[t] = "wait"
  /\ Goto(t, "idle")
  /\ UNCHANGED <<gateVars, queue, cpc, notified>>

\* acquire_admission drops the queue permit when enter is over.
LeaveQueue(t) ==
  /\ t \in queue
  /\ pc[t] \in {"idle", "held"}
  /\ queue' = queue \ {t}
  /\ UNCHANGED <<gateVars, pc, cpc, notified>>

\* active.fetch_add(1), in try_enter and in enter.
CountIn(t) ==
  /\ pc[t] = "count"
  /\ active' = active + 1
  /\ Goto(t, "check")
  /\ UNCHANGED <<state, permits, permitsClosed, queue, cpc, notified>>

\* A gate whose second load only looks for the final state.
CheckAgainClosed(t) ==
  /\ pc[t] = "check"
  /\ Goto(t, IF state # "Closed" THEN "held" ELSE "undo")
  /\ UNCHANGED <<gateVars, queue, cpc, notified>>

\* The second load of the state, in try_enter and in enter: the guard is
\* returned only if the gate still runs.
CheckAgain(t) ==
  /\ pc[t] = "check"
  /\ Goto(t, IF state = "Running" THEN "held" ELSE "undo")
  /\ UNCHANGED <<gateVars, queue, cpc, notified>>

\* A release that takes the value fetch_sub returns for the new one.
ReleaseOneOffByOne(t) ==
  /\ active' = active - 1
  /\ Goto(t, IF active = 0 THEN "notify" ELSE "free")
  /\ UNCHANGED <<state, permits, permitsClosed, queue, cpc, notified>>

\* release_one: fetch_sub, and who takes active to zero notifies.
ReleaseOne(t) ==
  /\ active' = active - 1
  /\ Goto(t, IF active = 1 THEN "notify" ELSE "free")
  /\ UNCHANGED <<state, permits, permitsClosed, queue, cpc, notified>>

\* The refused entrant takes back its count.
UndoEntry(t) == pc[t] = "undo" /\ ReleaseOne(t)

\* Drop for AdmissionGuard.
DropGuard(t) == pc[t] = "held" /\ t \notin queue /\ ReleaseOne(t)

\* release_one: changed.notify_waiters().
NotifyZero(t) ==
  /\ pc[t] = "notify"
  /\ notified' = TRUE
  /\ Goto(t, "free")
  /\ UNCHANGED <<gateVars, queue, cpc>>

\* The permit is dropped after the count: explicitly in try_enter and enter,
\* as a field of the guard otherwise.
FreePermit(t) ==
  /\ pc[t] = "free"
  /\ permits' = permits + 1
  /\ Goto(t, "idle")
  /\ UNCHANGED <<state, permitsClosed, active, queue, cpc, notified>>

-----------------------------------------------------------------------------
(***************************************************************************)
(* The shutdown coordinator: begin_draining, drained under the shutdown    *)
(* deadline, and (in the client) close.                                    *)
(***************************************************************************)
CGoto(label) == cpc' = label

\* begin_draining: the compare-exchange of the state.
BeginDraining ==
  /\ cpc = "running"
  /\ state = "Running"
  /\ state' = "Draining"
  /\ CGoto("closePermits")
  /\ UNCHANGED <<permits, permitsClosed, active, queue, pc, notified>>

\* A drain that leaves the waiting callers in the semaphore.
ClosePermitsNot ==
  /\ cpc = "closePermits"
  /\ CGoto("notify")
  /\ UNCHANGED <<gateVars, queue, pc, notified>>

\* begin_draining: permits.close().
ClosePermits ==
  /\ cpc = "closePermits"
  /\ permitsClosed' = TRUE
  /\ CGoto("notify")
  /\ UNCHANGED <<state, permits, active, queue, pc, notified>>

\* begin_draining: changed.notify_waiters().
NotifyDraining ==
  /\ cpc = "notify"
  /\ notified' = TRUE
  /\ CGoto("arm")
  /\ UNCHANGED <<gateVars, queue, pc>>

\* drained: the Notified future is created; wake-ups count from here on.
ArmNotified ==
  /\ cpc = "arm"
  /\ notified' = FALSE
  /\ CGoto("check")
  /\ UNCHANGED <<gateVars, queue, pc>>

\* drained: the load of active.
CheckActive ==
  /\ cpc = "check"
  /\ CGoto(IF active = 0 THEN "drained" ELSE "await")
  /\ UNCHANGED <<gateVars, queue, pc, notified>>

\* drained: notified.await completes and the loop starts again.
WakeUp ==
  /\ cpc = "await"
  /\ notified
  /\ CGoto("arm")
  /\ UNCHANGED <<gateVars, queue, pc, notified>>

\* The shutdown deadline drops the drained future.
GiveUp ==
  /\ cpc = "await"
  /\ CGoto("gaveUp")
  /\ UNCHANGED <<gateVars, queue, pc, notified>>

\* close: the client's coordinator closes the gate after the drain, whatever
\* its outcome.  The server's never does.
Close ==
  /\ cpc \in {"drained", "gaveUp"}
  /\ state # "Closed"
  /\ state' = "Closed"
  /\ permitsClosed' = TRUE
  /\ notified' = TRUE
  /\ UNCHANGED <<permits, active, queue, pc, cpc>>

-----------------------------------------------------------------------------
\* What a caller does on its own once its call is under way.
CallerStep(t) ==
  \/ TryAcquire(t) \/ ClassifyFull(t) \/ JoinQueue(t)
  \/ Enter(t) \/ WaitAcquire(t) \/ WaitClosed(t) \/ LeaveQueue(t)
  \/ CountIn(t) \/ CheckAgain(t) \/ UndoEntry(t)
  \/ NotifyZero(t) \/ FreePermit(t)

\* What the coordinator does on its own once shutdown was asked for.
CoordinatorStep ==
  ClosePermits \/ NotifyDraining \/ ArmNotified \/ CheckActive \/ WakeUp

Next ==
  \/ \E t \in Callers :
       TryEnter(t) \/ CallerStep(t) \/ WaitTimeout(t) \/ DropGuard(t)
  \/ BeginDraining \/ CoordinatorStep \/ GiveUp \/ Close

Spec == Init /\ [][Next]_vars

(***************************************************************************)
(* Fairness: a task that is not waiting is polled again (tokio's           *)
(* scheduler).  Nothing makes user code drop its guard, start a call,      *)
(* reach a deadline or ask for shutdown, so those steps are not fair.      *)
(***************************************************************************)
Fairness == /\ \A t \in Callers : WF_vars(CallerStep(t))
            /\ WF_vars(CoordinatorStep)

FairSpec == Spec /\ Fairness
-----------------------------------------------------------------------------
(***************************************************************************)
(* Properties.                                                             *)
(***************************************************************************)

\* Every variable has its type; active never goes below zero in release_one
\* (its debug_assert) and no permit appears from nowhere.
TypeOK ==
  /\ state \in States
  /\ permits \in 0..Limit
  /\ permitsClosed \in BOOLEAN
  /\ active \in 0..Limit
  /\ queue \in SUBSET Callers
  /\ pc \in [Callers -> CallerPcs]
  /\ cpc \in CoordinatorPcs
  /\ notified \in BOOLEAN

\* No interleaving of calls, refusals, timeouts and drops admits more than
\* Limit callers or keeps more than QueueLimit of them waiting.
WithinLimits ==
  /\ Cardinality(Guards) <= Limit
  /\ Cardinality(queue) <= QueueLimit

\* When drained() has returned, no caller has a guard, not even one whose
\* try_enter had read RUNNING before the drain began.
DrainedMeansQuiet == cpc = "drained" => Guards = {}

\* From the compare-exchange of begin_draining on, guards are only dropped.
NoEntryOnceDraining == [][state # "Running" => Guards' \subseteq Guards]_vars

Contract == INSTANCE AdmissionContract
              WITH inside <- Guards,
                   phase <- IF state = "Running" THEN "open"
                            ELSE IF cpc = "drained" THEN "quiet"
                            ELSE "draining"

\* The gate implements the contract its users rely on.
ImplementsContract == Contract!Spec

\* No wake-up of drained() is lost: once the last guard is gone the
\* coordinator gets past its wait without the help of the deadline, although
\* refused entrants may still raise active for a moment.
DrainWakes ==
  (cpc \in {"arm", "check", "await"} /\ Guards = {})
    ~> cpc \in {"drained", "gaveUp"}

\* A caller waiting for admission does not outlive the drain, even if no
\* guard is ever dropped.
WaitersReleased ==
  \A t \in Callers : (pc[t] = "wait" /\ state # "Running") ~> pc[t] # "wait"

\* Nobody waits for ever on a gate that drains: neither the shutdown in drained(),
\* which must not miss the last release, nor the callers queued on the semaphore.
NobodyStuck == DrainWakes /\ WaitersReleased
=============================================================================
