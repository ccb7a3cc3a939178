----------------------- MODULE RegistryLifecycleProofs -----------------------
(***************************************************************************)
(* Proofs about RegistryLifecycle for every finite set of waiters and      *)
(* every set of closers.                                                   *)
(*                                                                         *)
(* The inductive invariant has two independent halves.  Ownership relates  *)
(* the start state, the worker and the two results: it is what the mutex   *)
(* around StartState buys.  Waiting relates the waiter count, the observed *)
(* flag and the decision of the last cancelled waiter: it is what the      *)
(* order of the two atomic operations in ActivationWaiter::complete buys.  *)
(***************************************************************************)
EXTENDS RegistryLifecycle, FiniteSetTheorems, TLAPS

OwnershipType ==
  /\ start \in {"Prepared", "Started", "Finished"}
  /\ closeRequested \in BOOLEAN
  /\ closeSignal \in BOOLEAN
  /\ activation \in ActivationResults
  /\ closing \in CloseResults
  /\ handle \in BOOLEAN
  /\ wpc \in WorkerPcs
  /\ wres \in {"none", "ok", "failed", "cancelled"}
  /\ registered \in BOOLEAN

\* Who publishes what: a handle that was never started, or its one worker.
Ownership ==
  /\ OwnershipType
  /\ wpc = "absent" <=> start # "Started"
  /\ start = "Prepared" => activation = "none" /\ closing = "none"
  /\ start = "Finished" => activation \in {"cancelled", "failed"} /\ closing = "ok"
  /\ wpc \in {"absent", "activating"} => ~registered
  /\ wpc \in {"activating", "decide", "publish"} =>
       activation = "none" /\ closing = "none"
  /\ wpc \in {"decide", "publish"} => wres # "none"
  /\ wpc \in {"waitClose", "cleaning"} =>
       activation # "none" /\ closing = "none"
  /\ wpc = "ended" => /\ activation # "none"
                      /\ closing \in {"ok", "failed"}
                      /\ closing = "ok" => ~registered
  /\ wpc = "aborted" => activation # "none" /\ closing = "aborted"

\* The places of a waiter that has left the count.
LeftPcs == {"done", "decide", "swap", "send", "closeStart", "gone"}
CancelledPcs == {"decide", "swap", "send", "closeStart", "gone"}
RegisteredPcs == {"created", "lock", "await", "observe", "release"}

WaitingType ==
  /\ waiters \in Nat
  /\ observed \in BOOLEAN
  /\ pc \in [Actors -> ActorPcs]
  /\ answer \in [Waiters -> ActivationResults]
  /\ peers \in [Waiters -> SUBSET Waiters]

\* The count is exact; who was answered has set the flag before leaving the
\* count; so the last cancelled waiter sees the flag if one of the calls
\* before it was answered.
Waiting ==
  /\ WaitingType
  /\ waiters = Cardinality(Registered)
  /\ \A w \in Waiters : pc[w] \in {"release", "done"} => observed
  /\ \A w \in Waiters :
       pc[w] = "decide" => \A v \in peers[w] : pc[v] \in LeftPcs
  /\ \A w \in Waiters :
       pc[w] \in {"swap", "send", "closeStart"} =>
         \A v \in peers[w] : pc[v] \in CancelledPcs

Inv == Ownership /\ Waiting

-----------------------------------------------------------------------------
\* A new handle satisfies both halves.
LEMMA InitInv == Init => Inv
<1> SUFFICES ASSUME Init PROVE Inv
  OBVIOUS
<1>1. Ownership
  BY DEF Init, Ownership, OwnershipType, ActivationResults, CloseResults, WorkerPcs
<1>2. Registered = {}
  BY DEF Init, Registered, Actors
<1>3. Waiting
  BY <1>2, FS_EmptySet
  DEF Init, Waiting, WaitingType, ActivationResults, ActorPcs, Actors
<1> QED
  BY <1>1, <1>3 DEF Inv

-----------------------------------------------------------------------------
\* Ownership is kept by every step.
LEMMA OwnershipStep == Ownership /\ [Next]_vars => Ownership'
<1> SUFFICES ASSUME Ownership, [Next]_vars PROVE Ownership'
  OBVIOUS
<1> USE DEF Ownership, OwnershipType, ActivationResults, CloseResults, WorkerPcs,
            channels, worker
<1>1. CASE UNCHANGED vars
  BY <1>1 DEF vars
<1>2. ASSUME NEW w \in Waiters,
             \/ Activate(w) \/ Poll(w) \/ ObserveResult(w) \/ StoreObserved(w)
             \/ ReleaseCompleted(w) \/ Decide(w) \/ Cancel(w)
      PROVE  Ownership'
  BY <1>2 DEF Activate, Poll, ObserveResult, StoreObserved, ReleaseCompleted,
              Decide, Cancel
<1>3. ASSUME NEW w \in Waiters, PollOutsideRuntime(w)
      PROVE  Ownership'
  BY <1>3 DEF PollOutsideRuntime, FinishUnstarted
<1>4. ASSUME NEW w \in Waiters, EnsureStarted(w)
      PROVE  Ownership'
  BY <1>4 DEF EnsureStarted, FinishUnstarted
<1>5. ASSUME NEW c \in Closers, CallClose(c) \/ ObserveClose(c) \/ AbandonClose(c)
      PROVE  Ownership'
  BY <1>5 DEF CallClose, ObserveClose, AbandonClose
<1>6. ASSUME NEW a \in Actors, RequestStep(a)
      PROVE  Ownership'
  <2>1. CASE CloseStart(a)
    BY <2>1 DEF CloseStart, FinishUnstarted
  <2>2. CASE RequestSwap(a) \/ RequestSend(a)
    <3>1. UNCHANGED <<start, activation, closing, handle, wpc, wres, registered>>
      BY <2>2 DEF RequestSwap, RequestSend
    <3>2. closeRequested' \in BOOLEAN /\ closeSignal' \in BOOLEAN
      BY <2>2, Zenon DEF RequestSwap, RequestSend
    <3> QED
      BY <3>1, <3>2
  <2> QED
    BY <1>6, <2>1, <2>2 DEF RequestStep
<1>7. CASE DropHandles \/ LastDrop
  <2>1. UNCHANGED <<start, activation, closing, closeRequested, closeSignal,
                    wpc, wres, registered>>
    BY <1>7 DEF DropHandles, LastDrop
  <2>2. handle' \in BOOLEAN
    BY <1>7, Zenon DEF DropHandles, LastDrop
  <2> QED
    BY <2>1, <2>2
<1>8. CASE ActivationEnds
  BY <1>8 DEF ActivationEnds, workerKeeps
<1>9. CASE WorkerStep
  BY <1>9 DEF WorkerStep, DecideActivation, PublishActivation,
              AwaitCloseRequest, workerKeeps
<1>10. CASE CleanupEnds
  BY <1>10 DEF CleanupEnds, workerKeeps
<1>11. CASE Abort
  BY <1>11 DEF Abort, workerKeeps
<1> QED
  BY <1>1, <1>2, <1>3, <1>4, <1>5, <1>6, <1>7, <1>8, <1>9, <1>10, <1>11
  DEF Next, WaiterStep

-----------------------------------------------------------------------------
\* Registered is finite, and empty but for w when the count is one.
LEMMA RegisteredCount ==
  ASSUME Waiting
  PROVE  /\ IsFiniteSet(Registered) /\ Cardinality(Registered) \in Nat
         /\ Cardinality(Registered) <= Cardinality(Waiters)
         /\ \A w \in Registered : waiters = 1 => Registered = {w}
         /\ \A w \in Registered : waiters >= 1
<1>1. Registered \in SUBSET Waiters
  BY DEF Registered
<1>2. IsFiniteSet(Registered) /\ Cardinality(Registered) <= Cardinality(Waiters)
  BY <1>1, ActorsAssumption, FS_Subset
<1>3. Cardinality(Registered) \in Nat
  BY <1>2, FS_CardinalityType
<1>4. ASSUME NEW w \in Registered, waiters = 1
      PROVE  Registered = {w}
  <2>1. PICK x : Registered = {x}
    BY <1>2, <1>4, FS_Singleton DEF Waiting
  <2> QED
    BY <2>1
<1>5. ASSUME NEW w \in Registered
      PROVE  waiters >= 1
  <2>1. Cardinality(Registered) # 0
    BY <1>2, <1>5, FS_EmptySet
  <2> QED
    BY <2>1, <1>3 DEF Waiting
<1> QED
  BY <1>2, <1>3, <1>4, <1>5

\* How the count follows the move of one waiter.
LEMMA RegisteredAfterGoto ==
  ASSUME Waiting, NEW a \in Actors, NEW label, Goto(a, label)
  PROVE  /\ Registered' = IF a \in Waiters /\ label \in RegisteredPcs
                          THEN Registered \union {a} ELSE Registered \ {a}
         /\ a \in Registered <=> a \in Waiters /\ pc[a] \in RegisteredPcs
         /\ Cardinality(Registered') =
              Cardinality(Registered)
                + (IF a \in Waiters /\ label \in RegisteredPcs THEN 1 ELSE 0)
                - (IF a \in Registered THEN 1 ELSE 0)
<1>1. \A u \in Actors : pc'[u] = IF u = a THEN label ELSE pc[u]
  BY DEF Goto, Waiting, WaitingType
<1>2. /\ Registered' = IF a \in Waiters /\ label \in RegisteredPcs
                       THEN Registered \union {a} ELSE Registered \ {a}
      /\ a \in Registered <=> a \in Waiters /\ pc[a] \in RegisteredPcs
  BY <1>1 DEF Registered, RegisteredPcs, Actors
<1>3. IsFiniteSet(Registered) /\ Cardinality(Registered) \in Nat
  BY RegisteredCount
<1>4. /\ Cardinality(Registered \union {a}) =
           IF a \in Registered THEN Cardinality(Registered)
           ELSE Cardinality(Registered) + 1
      /\ Cardinality(Registered \ {a}) =
           IF a \in Registered THEN Cardinality(Registered) - 1
           ELSE Cardinality(Registered)
  BY <1>3, FS_AddElement, FS_RemoveElement
<1> QED
  BY <1>2, <1>3, <1>4

\* A move that keeps the count and the flag keeps Waiting, if nobody is
\* answered by it, and if it leads out of the count, or into the decision
\* and the close request, only from there.
LEMMA PlainMove ==
  ASSUME Waiting, NEW a \in Actors, NEW label \in ActorPcs, Goto(a, label),
         UNCHANGED <<waiters, peers>>,
         observed' \in BOOLEAN, observed => observed',
         answer' \in [Waiters -> ActivationResults],
         a \in Waiters => (label \in RegisteredPcs <=> pc[a] \in RegisteredPcs),
         a \in Waiters => (pc[a] \in CancelledPcs => label \in CancelledPcs),
         a \in Waiters => pc[a] # "done",
         a \in Waiters => label \notin {"done", "decide"},
         a \in Waiters => (label = "release" => observed'),
         a \in Waiters => (label \in {"swap", "send", "closeStart"} =>
                             \/ pc[a] \in {"swap", "send", "closeStart"}
                             \/ pc[a] = "decide" /\ ~observed)
  PROVE  Waiting'
<1>1. \A u \in Actors : pc'[u] = IF u = a THEN label ELSE pc[u]
  BY DEF Goto, Waiting, WaitingType
<1>2. WaitingType'
  BY DEF Goto, Waiting, WaitingType
<1>3. waiters' = Cardinality(Registered')
  <2>1. Cardinality(Registered') = Cardinality(Registered)
    BY RegisteredAfterGoto, RegisteredCount
  <2> QED
    BY <2>1 DEF Waiting
<1>4. \A w \in Waiters : pc'[w] \in {"release", "done"} => observed'
  BY <1>1 DEF Waiting, Actors
<1>5. \A w \in Waiters :
        pc'[w] = "decide" => \A v \in peers'[w] : pc'[v] \in LeftPcs
  BY <1>1 DEF Waiting, WaitingType, Actors, LeftPcs, CancelledPcs
<1>6. ASSUME NEW w \in Waiters, pc'[w] \in {"swap", "send", "closeStart"},
             NEW v \in peers'[w]
      PROVE  pc'[v] \in CancelledPcs
  <2>1. v \in Waiters /\ v \in Actors /\ w \in Actors /\ peers'[w] = peers[w]
    BY <1>6 DEF Waiting, WaitingType, Actors
  <2>2. pc[v] \in CancelledPcs
    <3>1. CASE pc[w] \in {"swap", "send", "closeStart"}
      BY <1>6, <2>1, <3>1 DEF Waiting
    <3>2. CASE pc[w] = "decide" /\ ~observed
      <4>1. pc[v] \in LeftPcs /\ pc[v] # "done"
        BY <1>6, <2>1, <3>2 DEF Waiting
      <4> QED
        BY <4>1 DEF LeftPcs, CancelledPcs
    <3> QED
      BY <1>1, <1>6, <2>1, <3>1, <3>2
  <2> QED
    BY <1>1, <2>1, <2>2
<1> QED
  BY <1>2, <1>3, <1>4, <1>5, <1>6 DEF Waiting

-----------------------------------------------------------------------------
\* Steps that move nobody keep Waiting.
LEMMA NobodyMoves ==
  ASSUME Waiting, UNCHANGED <<waiters, observed, pc, answer, peers>>
  PROVE  Waiting'
<1>1. Registered' = Registered
  BY DEF Registered
<1> QED
  BY <1>1 DEF Waiting, WaitingType

\* Waiting is kept by every step.
LEMMA WaitingStep == Inv /\ [Next]_vars => Waiting'
<1> SUFFICES ASSUME Inv, [Next]_vars PROVE Waiting'
  OBVIOUS
<1>t. Waiting /\ WaitingType /\ OwnershipType
  BY DEF Inv, Waiting, Ownership
<1>o. observed \in BOOLEAN /\ answer \in [Waiters -> ActivationResults]
  BY <1>t DEF WaitingType
<1> USE DEF ActorPcs, RegisteredPcs, CancelledPcs
<1>1. CASE UNCHANGED vars
  BY <1>1, <1>t, NobodyMoves DEF vars
<1>2. ASSUME NEW w \in Waiters, Activate(w)
      PROVE  Waiting'
  <2>1. /\ w \in Actors /\ pc[w] = "none" /\ Goto(w, "created")
        /\ waiters' = waiters + 1 /\ UNCHANGED <<observed, answer, peers>>
    BY <1>2 DEF Activate, Actors
  <2>2. \A u \in Actors : pc'[u] = IF u = w THEN "created" ELSE pc[u]
    BY <1>t, <2>1 DEF Goto, WaitingType
  <2>3. WaitingType'
    BY <1>t, <2>1 DEF Goto, WaitingType
  <2>4. waiters' = Cardinality(Registered')
    BY <1>t, <2>1, RegisteredAfterGoto, RegisteredCount DEF Waiting
  <2>5. \A v \in Waiters : pc'[v] \in {"release", "done"} => observed'
    BY <1>t, <2>1, <2>2 DEF Waiting, Actors
  <2>6. \A v \in Waiters :
          pc'[v] = "decide" => \A u \in peers'[v] : pc'[u] \in LeftPcs
    BY <1>t, <2>1, <2>2 DEF Waiting, WaitingType, Actors, LeftPcs
  <2>7. \A v \in Waiters :
          pc'[v] \in {"swap", "send", "closeStart"} =>
            \A u \in peers'[v] : pc'[u] \in CancelledPcs
    BY <1>t, <2>1, <2>2 DEF Waiting, WaitingType, Actors
  <2> QED
    BY <2>3, <2>4, <2>5, <2>6, <2>7 DEF Waiting
<1>3. ASSUME NEW w \in Waiters, Poll(w)
      PROVE  Waiting'
  <2> DEFINE label == IF activation # "none" THEN "await" ELSE "lock"
  <2>1. /\ w \in Actors /\ pc[w] = "created" /\ Goto(w, label)
        /\ UNCHANGED <<waiters, observed, answer, peers>>
    BY <1>3 DEF Poll, Actors
  <2> QED
    BY <1>t, <1>o, <2>1, PlainMove
<1>4. ASSUME NEW w \in Waiters, PollOutsideRuntime(w) \/ ObserveResult(w)
      PROVE  Waiting'
  <2>1. /\ w \in Actors /\ pc[w] \in {"created", "await"} /\ Goto(w, "observe")
        /\ UNCHANGED <<waiters, observed, peers>>
    BY <1>4 DEF PollOutsideRuntime, ObserveResult, Actors
  <2>2. answer' \in [Waiters -> ActivationResults]
    BY <1>4, <1>o, <1>t DEF PollOutsideRuntime, ObserveResult, ActivationResults,
                      OwnershipType
  <2> QED
    BY <1>t, <1>o, <2>1, <2>2, PlainMove
<1>5. ASSUME NEW w \in Waiters, EnsureStarted(w)
      PROVE  Waiting'
  <2>1. /\ w \in Actors /\ pc[w] = "lock" /\ Goto(w, "await")
        /\ UNCHANGED <<waiters, observed, answer, peers>>
    BY <1>5 DEF EnsureStarted, Actors
  <2> QED
    BY <1>t, <1>o, <2>1, PlainMove
<1>6. ASSUME NEW w \in Waiters, StoreObserved(w)
      PROVE  Waiting'
  <2>1. /\ w \in Actors /\ pc[w] = "observe" /\ Goto(w, "release")
        /\ observed' = TRUE /\ UNCHANGED <<waiters, answer, peers>>
    BY <1>6 DEF StoreObserved, Actors
  <2> QED
    BY <1>t, <1>o, <2>1, PlainMove
<1>7. ASSUME NEW w \in Waiters, ReleaseCompleted(w)
      PROVE  Waiting'
  <2>1. /\ w \in Actors /\ pc[w] = "release" /\ Goto(w, "done")
        /\ waiters' = waiters - 1 /\ UNCHANGED <<observed, answer, peers>>
    BY <1>7 DEF ReleaseCompleted, Actors
  <2>2. \A u \in Actors : pc'[u] = IF u = w THEN "done" ELSE pc[u]
    BY <1>t, <2>1 DEF Goto, WaitingType
  <2>3. w \in Registered /\ waiters >= 1
    BY <1>t, <2>1, RegisteredAfterGoto, RegisteredCount
  <2>4. WaitingType'
    BY <1>t, <2>1, <2>3 DEF Goto, WaitingType
  <2>5. waiters' = Cardinality(Registered')
    BY <1>t, <2>1, <2>3, RegisteredAfterGoto, RegisteredCount DEF Waiting
  <2>6. \A v \in Waiters : pc'[v] \in {"release", "done"} => observed'
    BY <1>t, <2>1, <2>2 DEF Waiting, Actors
  <2>7. \A v \in Waiters :
          pc'[v] = "decide" => \A u \in peers'[v] : pc'[u] \in LeftPcs
    BY <1>t, <2>1, <2>2 DEF Waiting, WaitingType, Actors, LeftPcs
  <2>8. \A v \in Waiters :
          pc'[v] \in {"swap", "send", "closeStart"} =>
            \A u \in peers'[v] : pc'[u] \in CancelledPcs
    BY <1>t, <2>1, <2>2 DEF Waiting, WaitingType, Actors
  <2> QED
    BY <2>4, <2>5, <2>6, <2>7, <2>8 DEF Waiting
<1>8. ASSUME NEW w \in Waiters, Decide(w)
      PROVE  Waiting'
  <2> DEFINE label == IF observed THEN "gone" ELSE "swap"
  <2>1. /\ w \in Actors /\ pc[w] = "decide" /\ Goto(w, label)
        /\ UNCHANGED <<waiters, observed, answer, peers>>
    BY <1>8 DEF Decide, Actors
  <2> QED
    BY <1>t, <1>o, <2>1, PlainMove
<1>9. ASSUME NEW w \in Waiters, Cancel(w)
      PROVE  Waiting'
  <2> DEFINE label == IF waiters = 1 THEN "decide" ELSE "gone"
  <2> DEFINE before == {v \in Waiters : pc[v] # "none"} \ {w}
  <2>1. /\ w \in Actors /\ pc[w] \in {"created", "await"} /\ Goto(w, label)
        /\ waiters' = waiters - 1 /\ UNCHANGED <<observed, answer>>
        /\ peers' = IF waiters = 1 THEN [peers EXCEPT ![w] = before] ELSE peers
    BY <1>9 DEF Cancel, Actors
  <2>2. \A u \in Actors : pc'[u] = IF u = w THEN label ELSE pc[u]
    BY <1>t, <2>1 DEF Goto, WaitingType
  <2>3. w \in Registered /\ waiters >= 1 /\ (waiters = 1 => Registered = {w})
    BY <1>t, <2>1, RegisteredAfterGoto, RegisteredCount
  <2>4. WaitingType'
    <3>1. waiters' \in Nat
      BY <1>t, <2>1, <2>3 DEF WaitingType
    <3>2. pc' \in [Actors -> ActorPcs]
      BY <1>t, <2>1 DEF Goto, WaitingType
    <3>3. peers' \in [Waiters -> SUBSET Waiters]
      BY <1>t, <2>1 DEF WaitingType
    <3> QED
      BY <1>t, <2>1, <3>1, <3>2, <3>3 DEF WaitingType
  <2>5. waiters' = Cardinality(Registered')
    BY <1>t, <2>1, <2>3, RegisteredAfterGoto, RegisteredCount DEF Waiting
  <2>6. \A v \in Waiters : pc'[v] \in {"release", "done"} => observed'
    BY <1>t, <2>1, <2>2 DEF Waiting, Actors
  <2>7. ASSUME NEW v \in Waiters, pc'[v] = "decide", NEW u \in peers'[v]
        PROVE  pc'[u] \in LeftPcs
    <3>1. CASE v = w
      <4>1. waiters = 1 /\ u \in before
        BY <1>t, <2>1, <2>2, <2>7, <3>1 DEF WaitingType
      <4>2. u \notin Registered /\ u \in Waiters /\ pc[u] # "none" /\ u # w
        BY <2>3, <4>1
      <4>3. pc[u] \in LeftPcs
        BY <1>t, <4>2 DEF Registered, WaitingType, LeftPcs, Actors
      <4> QED
        BY <2>2, <4>2, <4>3 DEF Actors
    <3>2. CASE v # w
      <4>1. pc[v] = "decide" /\ u \in peers[v]
        BY <1>t, <2>1, <2>2, <2>7, <3>2 DEF WaitingType, Actors
      <4>2. pc[u] \in LeftPcs /\ u \in Waiters
        BY <1>t, <4>1 DEF Waiting, WaitingType
      <4>3. u # w
        BY <2>1, <4>2 DEF LeftPcs
      <4> QED
        BY <2>2, <4>2, <4>3 DEF Actors
    <3> QED
      BY <3>1, <3>2
  <2>8. ASSUME NEW v \in Waiters, pc'[v] \in {"swap", "send", "closeStart"},
               NEW u \in peers'[v]
        PROVE  pc'[u] \in CancelledPcs
    <3>1. v # w /\ pc[v] \in {"swap", "send", "closeStart"} /\ u \in peers[v]
      BY <1>t, <2>1, <2>2, <2>8 DEF WaitingType, Actors
    <3>2. pc[u] \in CancelledPcs /\ u \in Waiters
      BY <1>t, <3>1 DEF Waiting, WaitingType
    <3>3. u # w
      BY <2>1, <3>2
    <3> QED
      BY <2>2, <3>2, <3>3 DEF Actors
  <2> QED
    BY <2>4, <2>5, <2>6, <2>7, <2>8 DEF Waiting
<1>10. ASSUME NEW a \in Actors, NEW label \in ActorPcs, a \notin Waiters,
              Goto(a, label), UNCHANGED <<waiters, observed, answer, peers>>
       PROVE  Waiting'
  BY <1>10, <1>t, <1>o, PlainMove
<1>11. ASSUME NEW c \in Closers, CallClose(c) \/ ObserveClose(c) \/ AbandonClose(c)
       PROVE  Waiting'
  <2>1. c \in Actors /\ c \notin Waiters
    BY ActorsAssumption DEF Actors
  <2> QED
    BY <1>11, <2>1, <1>10 DEF CallClose, ObserveClose, AbandonClose
<1>12. ASSUME NEW a \in Actors, RequestStep(a)
       PROVE  Waiting'
  <2>1. PICK label \in {"send", "closeStart", "await", "gone"} :
          /\ Goto(a, label) /\ UNCHANGED <<waiters, observed, answer, peers>>
          /\ pc[a] \in {"swap", "send", "closeStart"}
          /\ a \in Waiters => label # "await"
    BY <1>12, ActorsAssumption
    DEF RequestStep, RequestSwap, RequestSend, CloseStart, AfterRequest
  <2> QED
    BY <1>t, <1>o, <2>1, PlainMove
<1>13. CASE LastDrop
  <2>1. Dropper \in Actors /\ Dropper \notin Waiters
    BY ActorsAssumption DEF Actors
  <2> QED
    BY <1>13, <2>1, <1>10 DEF LastDrop
<1>14. CASE DropHandles \/ ActivationEnds \/ WorkerStep \/ CleanupEnds \/ Abort
  BY <1>14, <1>t, NobodyMoves
  DEF DropHandles, ActivationEnds, WorkerStep, DecideActivation,
      PublishActivation, AwaitCloseRequest, CleanupEnds, Abort, workerKeeps
<1> QED
  BY <1>1, <1>2, <1>3, <1>4, <1>5, <1>6, <1>7, <1>8, <1>9, <1>11, <1>12, <1>13,
     <1>14 DEF Next, WaiterStep

\* Both halves hold in every reachable state.
THEOREM Invariance == Spec => []Inv
<1>1. Inv /\ [Next]_vars => Inv'
  BY OwnershipStep, WaitingStep DEF Inv
<1> QED
  BY InitInv, <1>1, PTL DEF Spec

-----------------------------------------------------------------------------
\* The waiter count is exact, so it never goes below zero or above the number
\* of calls, in any interleaving.
THEOREM TypeCorrect == Spec => []TypeOK
<1>1. Inv => TypeOK
  <2> SUFFICES ASSUME Inv PROVE TypeOK
    OBVIOUS
  <2>1. waiters \in 0..Cardinality(Waiters)
    <3>1. Cardinality(Waiters) \in Nat
      BY ActorsAssumption, FS_CardinalityType
    <3> QED
      BY <3>1, RegisteredCount DEF Inv, Waiting
  <2> QED
    BY <2>1 DEF Inv, Ownership, OwnershipType, Waiting, WaitingType, TypeOK
<1> QED
  BY <1>1, Invariance, PTL

\* A successful close leaves nothing behind, whoever raced with it.
THEOREM CloseIsClean == Spec => []CloseOkMeansClean
<1>1. Inv => CloseOkMeansClean
  BY DEF Inv, Ownership, OwnershipType, WorkerPcs, CloseOkMeansClean
<1> QED
  BY <1>1, Invariance, PTL

\* A cancelled waiter never closes the handle of a waiter that asked before
\* the cancellation and was answered.
THEOREM SurvivorSafe == Spec => []SurvivorKeepsHandle
<1>1. Inv => SurvivorKeepsHandle
  BY DEF Inv, Waiting, CancelledPcs, SurvivorKeepsHandle
<1> QED
  BY <1>1, Invariance, PTL

\* A handle tells the truth to the one who closes it and to the ones who wait for it
\* (RegistrationHandle and SubscriptionHandle, lifecycle.rs).
COROLLARY HandleIsTruthful == Spec => []HandleTruthful
BY CloseIsClean, SurvivorSafe, PTL DEF HandleTruthful

\* Steps of waiters, closers and the last drop that publish nothing.
LEMMA Silent ==
  ASSUME \/ \E w \in Waiters : \/ Activate(w) \/ Poll(w) \/ ObserveResult(w)
                               \/ StoreObserved(w) \/ ReleaseCompleted(w)
                               \/ Decide(w) \/ Cancel(w)
         \/ \E c \in Closers : CallClose(c) \/ ObserveClose(c) \/ AbandonClose(c)
         \/ \E a \in Actors : RequestSwap(a) \/ RequestSend(a)
         \/ DropHandles \/ LastDrop
  PROVE  UNCHANGED <<start, activation, closing, wpc>>
BY DEF Activate, Poll, ObserveResult, StoreObserved, ReleaseCompleted, Decide,
       Cancel, CallClose, ObserveClose, AbandonClose, RequestSwap, RequestSend,
       DropHandles, LastDrop, channels, worker

\* The lifecycle implements the provider contract: the section that spawns
\* the worker is StartActivation, the sections that finish an unstarted
\* handle are CloseUnstarted, and the worker's steps are the rest.
THEOREM Refinement == Spec => ImplementsContract
<1>1. Init => Contract!Init
  BY DEF Init, Contract!Init, Phase
<1>2. Inv /\ [Next]_vars => [Contract!Next]_(Contract!contractVars)
  <2> SUFFICES ASSUME Inv, [Next]_vars
               PROVE  \/ Contract!Next
                      \/ UNCHANGED <<Phase, activation, closing>>
    BY DEF Contract!contractVars
  <2>o. Ownership
    BY DEF Inv
  <2> USE <2>o DEF Phase
  <2>1. ASSUME UNCHANGED <<start, activation, closing, wpc>>
        PROVE  UNCHANGED <<Phase, activation, closing>>
    BY <2>1
  <2>2. ASSUME start = "Prepared",
               FinishUnstarted("failed") \/ FinishUnstarted("cancelled"),
               UNCHANGED wpc
        PROVE  Contract!CloseUnstarted
    BY <2>2 DEF FinishUnstarted, Contract!CloseUnstarted, Ownership
  <2>3. CASE UNCHANGED vars
    BY <2>1, <2>3 DEF vars, channels, worker
  <2>4. ASSUME NEW w \in Waiters, PollOutsideRuntime(w)
        PROVE  Contract!CloseUnstarted \/ UNCHANGED <<Phase, activation, closing>>
    BY <2>1, <2>2, <2>4 DEF PollOutsideRuntime, worker
  <2>5. ASSUME NEW w \in Waiters, EnsureStarted(w)
        PROVE  \/ Contract!CloseUnstarted \/ Contract!StartActivation
               \/ UNCHANGED <<Phase, activation, closing>>
    <3>1. CASE start # "Prepared"
      BY <2>1, <2>5, <3>1 DEF EnsureStarted
    <3>2. CASE start = "Prepared" /\ closeRequested
      BY <2>2, <2>5, <3>2 DEF EnsureStarted
    <3>3. CASE start = "Prepared" /\ ~closeRequested
      BY <2>5, <3>3 DEF EnsureStarted, Contract!StartActivation, Ownership
    <3> QED
      BY <3>1, <3>2, <3>3
  <2>6. ASSUME NEW a \in Actors, CloseStart(a)
        PROVE  Contract!CloseUnstarted \/ UNCHANGED <<Phase, activation, closing>>
    BY <2>1, <2>2, <2>6 DEF CloseStart, worker
  <2>7. CASE ActivationEnds \/ DecideActivation
    BY <2>7 DEF ActivationEnds, DecideActivation
  <2>8. ASSUME PublishActivation PROVE Contract!Settle
    BY <2>8 DEF PublishActivation, Contract!Settle, Ownership, OwnershipType
  <2>9. ASSUME AwaitCloseRequest PROVE Contract!StartCleanup
    BY <2>9 DEF AwaitCloseRequest, Contract!StartCleanup
  <2>10. ASSUME CleanupEnds PROVE Contract!FinishCleanup
    BY <2>10 DEF CleanupEnds, Contract!FinishCleanup
  <2>11. ASSUME Abort PROVE Contract!Abort
    BY <2>11 DEF Abort, Contract!Abort, Ownership
  <2> QED
    BY <2>1, <2>3, <2>4, <2>5, <2>6, <2>7, <2>8, <2>9, <2>10, <2>11, Silent
    DEF Next, WaiterStep, RequestStep, WorkerStep, Contract!Next
<1> QED
  BY <1>1, <1>2, Invariance, PTL DEF Spec, Contract!Spec, ImplementsContract

\* No step of anybody changes a published result: the contract's steps only
\* publish where there was none.
THEOREM PublishedOnce == Spec => ResultsTerminal
<1>1. Inv /\ [Next]_vars =>
        [/\ activation # "none" => activation' = activation
         /\ closing # "none" => closing' = closing]_vars
  <2> SUFFICES ASSUME Ownership, Next
               PROVE  /\ activation # "none" => activation' = activation
                      /\ closing # "none" => closing' = closing
    BY DEF Inv
  <2> USE DEF Ownership
  <2>1. ASSUME NEW w \in Waiters, PollOutsideRuntime(w)
        PROVE  /\ activation # "none" => activation' = activation
               /\ closing # "none" => closing' = closing
    BY <2>1 DEF PollOutsideRuntime
  <2>2. ASSUME NEW w \in Waiters, EnsureStarted(w)
        PROVE  /\ activation # "none" => activation' = activation
               /\ closing # "none" => closing' = closing
    BY <2>2 DEF EnsureStarted
  <2>3. ASSUME NEW a \in Actors, CloseStart(a)
        PROVE  /\ activation # "none" => activation' = activation
               /\ closing # "none" => closing' = closing
    BY <2>3 DEF CloseStart
  <2>4. CASE ActivationEnds \/ WorkerStep \/ CleanupEnds \/ Abort
    BY <2>4 DEF ActivationEnds, WorkerStep, DecideActivation, PublishActivation,
                AwaitCloseRequest, CleanupEnds, Abort
  <2> QED
    BY <2>1, <2>2, <2>3, <2>4, Silent DEF Next, WaiterStep, RequestStep
<1> QED
  BY <1>1, Invariance, PTL DEF Spec, ResultsTerminal
=============================================================================
