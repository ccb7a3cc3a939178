------------------------- MODULE AdmissionGateProofs -------------------------
(***************************************************************************)
(* Proofs about AdmissionGate for every set of callers and every limit.    *)
(*                                                                         *)
(* The inductive invariant Inv ties the two counters of the gate to the    *)
(* places its callers are at (Accounting) and the coordinator's progress   *)
(* to the gate's state (Phases).  The safety properties follow from it.    *)
(***************************************************************************)
EXTENDS AdmissionGate, FiniteSetTheorems, TLAPS

\* Types alone, with no bound on the counters.
BaseType ==
  /\ state \in States
  /\ permits \in Nat
  /\ permitsClosed \in BOOLEAN
  /\ active \in Nat
  /\ queue \in SUBSET Callers
  /\ pc \in [Callers -> CallerPcs]
  /\ cpc \in CoordinatorPcs
  /\ notified \in BOOLEAN

\* The semaphore and the counter agree with where the callers are.
Accounting ==
  /\ permits + Cardinality(Holders) = Limit
  /\ active = Cardinality(Counted)
  /\ Cardinality(queue) <= QueueLimit

\* The coordinator has moved exactly when the gate has left RUNNING, and
\* after drained() has returned there is no guard.
Phases ==
  /\ cpc = "running" <=> state = "Running"
  /\ cpc = "drained" => Guards = {}

Inv == BaseType /\ Accounting /\ Phases

\* The places at which a caller owns a permit, and is counted.
HolderPcs == {"count", "check", "undo", "held", "notify", "free"}
CountedPcs == {"check", "undo", "held"}

-----------------------------------------------------------------------------
\* The sets the invariant counts are finite, guards are counted and counted
\* callers own permits.
LEMMA SetsFinite ==
  ASSUME BaseType
  PROVE  /\ IsFiniteSet(Holders) /\ Cardinality(Holders) \in Nat
         /\ IsFiniteSet(Counted) /\ Cardinality(Counted) \in Nat
         /\ IsFiniteSet(Guards) /\ Cardinality(Guards) \in Nat
         /\ IsFiniteSet(queue) /\ Cardinality(queue) \in Nat
         /\ Cardinality(Guards) <= Cardinality(Counted)
         /\ Cardinality(Counted) <= Cardinality(Holders)
<1>1. /\ Holders \in SUBSET Callers
      /\ Counted \in SUBSET Holders
      /\ Guards \in SUBSET Counted
      /\ queue \in SUBSET Callers
  BY DEF Holders, Counted, Guards, BaseType
<1>2. IsFiniteSet(Holders) /\ IsFiniteSet(queue)
  BY <1>1, CallersAssumption, FS_Subset
<1>3. IsFiniteSet(Counted) /\ Cardinality(Counted) <= Cardinality(Holders)
  BY <1>1, <1>2, FS_Subset
<1>4. IsFiniteSet(Guards) /\ Cardinality(Guards) <= Cardinality(Counted)
  BY <1>1, <1>3, FS_Subset
<1>5. QED
  BY <1>2, <1>3, <1>4, FS_CardinalityType

\* How the sets follow the move of one caller.
LEMMA SetsAfterGoto ==
  ASSUME BaseType, NEW t \in Callers, NEW label, Goto(t, label)
  PROVE  /\ Holders' = IF label \in HolderPcs THEN Holders \union {t}
                       ELSE Holders \ {t}
         /\ Counted' = IF label \in CountedPcs THEN Counted \union {t}
                       ELSE Counted \ {t}
         /\ Guards' = IF label = "held" THEN Guards \union {t}
                      ELSE Guards \ {t}
         /\ t \in Holders <=> pc[t] \in HolderPcs
         /\ t \in Counted <=> pc[t] \in CountedPcs
         /\ t \in Guards <=> pc[t] = "held"
<1>1. \A u \in Callers : pc'[u] = IF u = t THEN label ELSE pc[u]
  BY DEF Goto, BaseType
<1>2. QED
  BY <1>1 DEF Holders, Counted, Guards, HolderPcs, CountedPcs

\* The cardinalities after a caller's move.
LEMMA CardsAfterGoto ==
  ASSUME BaseType, NEW t \in Callers, NEW label, Goto(t, label)
  PROVE  /\ Cardinality(Holders') =
              Cardinality(Holders)
                + (IF label \in HolderPcs THEN 1 ELSE 0)
                - (IF pc[t] \in HolderPcs THEN 1 ELSE 0)
         /\ Cardinality(Counted') =
              Cardinality(Counted)
                + (IF label \in CountedPcs THEN 1 ELSE 0)
                - (IF pc[t] \in CountedPcs THEN 1 ELSE 0)
<1>1. /\ IsFiniteSet(Holders) /\ Cardinality(Holders) \in Nat
      /\ IsFiniteSet(Counted) /\ Cardinality(Counted) \in Nat
  BY SetsFinite
<1>2. /\ Holders' = IF label \in HolderPcs THEN Holders \union {t}
                    ELSE Holders \ {t}
      /\ t \in Holders <=> pc[t] \in HolderPcs
  BY SetsAfterGoto
<1>3. /\ Counted' = IF label \in CountedPcs THEN Counted \union {t}
                    ELSE Counted \ {t}
      /\ t \in Counted <=> pc[t] \in CountedPcs
  BY SetsAfterGoto
<1>4. /\ Cardinality(Holders \union {t}) =
           IF t \in Holders THEN Cardinality(Holders) ELSE Cardinality(Holders) + 1
      /\ Cardinality(Holders \ {t}) =
           IF t \in Holders THEN Cardinality(Holders) - 1 ELSE Cardinality(Holders)
  BY <1>1, FS_AddElement, FS_RemoveElement
<1>5. /\ Cardinality(Counted \union {t}) =
           IF t \in Counted THEN Cardinality(Counted) ELSE Cardinality(Counted) + 1
      /\ Cardinality(Counted \ {t}) =
           IF t \in Counted THEN Cardinality(Counted) - 1 ELSE Cardinality(Counted)
  BY <1>1, FS_AddElement, FS_RemoveElement
<1>6. QED
  BY <1>1, <1>2, <1>3, <1>4, <1>5

-----------------------------------------------------------------------------
\* A gate nobody has used yet satisfies the invariant.
LEMMA InitInv == Init => Inv
<1> SUFFICES ASSUME Init PROVE Inv
  OBVIOUS
<1>1. BaseType
  BY LimitAssumption
  DEF Init, BaseType, States, CallerPcs, CoordinatorPcs
<1>2. Holders = {} /\ Counted = {} /\ Guards = {} /\ queue = {}
  BY DEF Init, Holders, Counted, Guards
<1>3. Accounting
  BY <1>2, FS_EmptySet, LimitAssumption, QueueLimitAssumption
  DEF Init, Accounting
<1>4. Phases
  BY <1>2 DEF Init, Phases
<1>5. QED
  BY <1>1, <1>3, <1>4 DEF Inv

\* A move of a caller that is not counted before or after, and holds a
\* permit after exactly if it held one before, keeps the accounting.
LEMMA NeutralMove ==
  ASSUME Inv, NEW t \in Callers, NEW label \in CallerPcs, Goto(t, label),
         label \in HolderPcs <=> pc[t] \in HolderPcs,
         label \in CountedPcs <=> pc[t] \in CountedPcs,
         UNCHANGED gateVars, UNCHANGED cpc,
         label # "held", notified' \in BOOLEAN,
         queue' \in SUBSET Callers, Cardinality(queue') <= QueueLimit
  PROVE  Inv'
<1>1. BaseType'
  BY DEF Inv, BaseType, gateVars, Goto
<1>2. /\ Cardinality(Holders') = Cardinality(Holders)
      /\ Cardinality(Counted') = Cardinality(Counted)
  BY CardsAfterGoto, SetsFinite DEF Inv
<1>3. Accounting'
  BY <1>2 DEF Inv, Accounting, gateVars
<1>4. Guards' = Guards \ {t}
  BY SetsAfterGoto DEF Inv
<1>5. Phases'
  BY <1>4 DEF Inv, Phases, gateVars
<1>6. QED
  BY <1>1, <1>3, <1>5 DEF Inv

\* Each step of a caller keeps the invariant.
LEMMA CallerInv ==
  ASSUME Inv, NEW t \in Callers,
         TryEnter(t) \/ CallerStep(t) \/ WaitTimeout(t) \/ DropGuard(t)
  PROVE  Inv'
<1> USE DEF HolderPcs, CountedPcs, CallerPcs
<1>q. /\ queue \in SUBSET Callers /\ notified \in BOOLEAN
      /\ Cardinality(queue) <= QueueLimit
      /\ IsFiniteSet(queue) /\ Cardinality(queue) \in Nat
  BY SetsFinite DEF Inv, BaseType, Accounting
<1>1. CASE TryEnter(t)
  <2> DEFINE label == IF state = "Running" THEN "acquire" ELSE "idle"
  <2> QED
    BY <1>1, <1>q, NeutralMove DEF TryEnter
<1>2. CASE TryAcquire(t)
  <2>1. CASE ~permitsClosed /\ permits > 0
    <3>1. permits' = permits - 1 /\ Goto(t, "count") /\ pc[t] = "acquire"
          /\ UNCHANGED <<state, active, queue, cpc, notified, permitsClosed>>
      BY <1>2, <2>1 DEF TryAcquire
    <3>2. BaseType'
      BY <2>1, <3>1 DEF Inv, BaseType, Goto
    <3>3. Accounting'
      BY <3>1, CardsAfterGoto, SetsFinite, LimitAssumption DEF Inv, Accounting, BaseType
    <3>4. Phases'
      BY <3>1, SetsAfterGoto DEF Inv, Phases
    <3> QED
      BY <3>2, <3>3, <3>4 DEF Inv
  <2>2. CASE ~(~permitsClosed /\ permits > 0)
    BY <1>2, <2>2, <1>q, NeutralMove DEF TryAcquire, gateVars
  <2> QED
    BY <2>1, <2>2
<1>3. CASE ClassifyFull(t)
  BY <1>3, <1>q, NeutralMove DEF ClassifyFull
<1>4. CASE JoinQueue(t)
  <2>1. CASE Cardinality(queue) < QueueLimit
    <3>1. queue' = queue \union {t} /\ Goto(t, "enter") /\ pc[t] = "queue"
      BY <1>4, <2>1 DEF JoinQueue
    <3>2. queue' \in SUBSET Callers /\ Cardinality(queue') <= QueueLimit
      <4>0. Cardinality(queue \union {t}) =
              IF t \in queue THEN Cardinality(queue) ELSE Cardinality(queue) + 1
        BY <1>q, FS_AddElement
      <4>1. Cardinality(queue \union {t}) <= Cardinality(queue) + 1
        BY <1>q, <4>0
      <4>2. Cardinality(queue) + 1 <= QueueLimit
        BY <1>q, <2>1, QueueLimitAssumption
      <4>3. Cardinality(queue \union {t}) \in Nat
        BY <1>q, <4>0
      <4> QED
        BY <3>1, <1>q, <4>1, <4>2, <4>3, QueueLimitAssumption
    <3> QED
      BY <1>4, <3>1, <3>2, <1>q, NeutralMove DEF JoinQueue
  <2>2. CASE ~(Cardinality(queue) < QueueLimit)
    BY <1>4, <2>2, <1>q, NeutralMove DEF JoinQueue
  <2> QED
    BY <2>1, <2>2
<1>5. CASE Enter(t)
  BY <1>5, <1>q, NeutralMove DEF Enter
<1>6. CASE WaitAcquire(t)
  <2>1. permits' = permits - 1 /\ Goto(t, "count") /\ pc[t] = "wait" /\ permits > 0
        /\ UNCHANGED <<state, active, queue, cpc, notified, permitsClosed>>
    BY <1>6 DEF WaitAcquire
  <2>2. BaseType'
    BY <2>1 DEF Inv, BaseType, Goto
  <2>3. Accounting'
    BY <2>1, CardsAfterGoto, SetsFinite, LimitAssumption DEF Inv, Accounting, BaseType
  <2>4. Phases'
    BY <2>1, SetsAfterGoto DEF Inv, Phases
  <2> QED
    BY <2>2, <2>3, <2>4 DEF Inv
<1>7. CASE WaitClosed(t)
  BY <1>7, <1>q, NeutralMove DEF WaitClosed
<1>8. CASE WaitTimeout(t)
  BY <1>8, <1>q, NeutralMove DEF WaitTimeout
<1>9. CASE LeaveQueue(t)
  <2>1. queue' = queue \ {t} /\ UNCHANGED <<gateVars, pc, cpc, notified>>
    BY <1>9 DEF LeaveQueue
  <2>2. queue' \in SUBSET Callers /\ Cardinality(queue') <= QueueLimit
    BY <2>1, <1>q, FS_RemoveElement, QueueLimitAssumption
  <2>3. Holders' = Holders /\ Counted' = Counted /\ Guards' = Guards
    BY <2>1 DEF Holders, Counted, Guards
  <2> QED
    BY <2>1, <2>2, <2>3 DEF Inv, BaseType, Accounting, Phases, gateVars
<1>10. CASE CountIn(t)
  <2>1. active' = active + 1 /\ Goto(t, "check") /\ pc[t] = "count"
        /\ UNCHANGED <<state, permits, permitsClosed, queue, cpc, notified>>
    BY <1>10 DEF CountIn
  <2>2. BaseType'
    BY <2>1 DEF Inv, BaseType, Goto
  <2>3. Accounting'
    BY <2>1, CardsAfterGoto, SetsFinite, LimitAssumption DEF Inv, Accounting, BaseType
  <2>4. Phases'
    BY <2>1, SetsAfterGoto DEF Inv, Phases
  <2> QED
    BY <2>2, <2>3, <2>4 DEF Inv
<1>11. CASE CheckAgain(t)
  <2>1. CASE state = "Running"
    <3>1. Goto(t, "held") /\ pc[t] = "check"
          /\ UNCHANGED <<state, permits, permitsClosed, active, queue, cpc, notified>>
      BY <1>11, <2>1 DEF CheckAgain, gateVars
    <3>2. BaseType'
      BY <3>1 DEF Inv, BaseType, Goto
    <3>3. Accounting'
      BY <3>1, CardsAfterGoto, SetsFinite, LimitAssumption DEF Inv, Accounting, BaseType
    <3>4. Phases'
      BY <2>1, <3>1 DEF Inv, Phases
    <3> QED
      BY <3>2, <3>3, <3>4 DEF Inv
  <2>2. CASE state # "Running"
    BY <1>11, <2>2, <1>q, NeutralMove DEF CheckAgain
  <2> QED
    BY <2>1, <2>2
<1>12. CASE UndoEntry(t) \/ DropGuard(t)
  <2> DEFINE label == IF active = 1 THEN "notify" ELSE "free"
  <2>1. active' = active - 1 /\ Goto(t, label) /\ pc[t] \in {"undo", "held"}
        /\ UNCHANGED <<state, permits, permitsClosed, queue, cpc, notified>>
    BY <1>12 DEF UndoEntry, DropGuard, ReleaseOne
  <2>2. Accounting' /\ active' \in Nat
    <3>1. label \in HolderPcs /\ label \notin CountedPcs
          /\ pc[t] \in HolderPcs /\ pc[t] \in CountedPcs
      BY <2>1
    <3>2. /\ Cardinality(Holders') = Cardinality(Holders) + 1 - 1
          /\ Cardinality(Counted') = Cardinality(Counted) + 0 - 1
      BY <2>1, <3>1, CardsAfterGoto DEF Inv
    <3>3. /\ Cardinality(Holders) \in Nat /\ Cardinality(Counted) \in Nat
          /\ IsFiniteSet(Counted)
      BY SetsFinite DEF Inv
    <3>4. t \in Counted /\ Counted # {}
      BY <2>1, <3>1, SetsAfterGoto DEF Inv
    <3>5. Cardinality(Counted) # 0
      BY <3>3, <3>4, FS_EmptySet
    <3> QED
      BY <2>1, <3>2, <3>3, <3>5, LimitAssumption DEF Inv, Accounting, BaseType
  <2>3. BaseType'
    BY <2>1, <2>2 DEF Inv, BaseType, Goto
  <2>4. Phases'
    BY <2>1, SetsAfterGoto DEF Inv, Phases
  <2> QED
    BY <2>2, <2>3, <2>4 DEF Inv
<1>13. CASE NotifyZero(t)
  BY <1>13, <1>q, NeutralMove DEF NotifyZero
<1>14. CASE FreePermit(t)
  <2>1. permits' = permits + 1 /\ Goto(t, "idle") /\ pc[t] = "free"
        /\ UNCHANGED <<state, permitsClosed, active, queue, cpc, notified>>
    BY <1>14 DEF FreePermit
  <2>2. BaseType'
    BY <2>1 DEF Inv, BaseType, Goto
  <2>3. Accounting'
    BY <2>1, CardsAfterGoto, SetsFinite, LimitAssumption DEF Inv, Accounting, BaseType
  <2>4. Phases'
    BY <2>1, SetsAfterGoto DEF Inv, Phases
  <2> QED
    BY <2>2, <2>3, <2>4 DEF Inv
<1> QED
  BY <1>1, <1>2, <1>3, <1>4, <1>5, <1>6, <1>7, <1>8, <1>9, <1>10, <1>11,
     <1>12, <1>13, <1>14 DEF CallerStep

\* Each step of the coordinator keeps the invariant.
LEMMA CoordinatorInv ==
  ASSUME Inv, BeginDraining \/ CoordinatorStep \/ GiveUp \/ Close
  PROVE  Inv'
<1>1. UNCHANGED <<permits, active, queue, pc>>
  BY DEF BeginDraining, CoordinatorStep, ClosePermits, NotifyDraining,
         ArmNotified, CheckActive, WakeUp, GiveUp, Close, gateVars
<1>2. Holders' = Holders /\ Counted' = Counted /\ Guards' = Guards
  BY <1>1 DEF Holders, Counted, Guards
<1>3. Accounting'
  BY <1>1, <1>2 DEF Inv, Accounting
<1>4. BaseType'
  BY <1>1 DEF Inv, BaseType, States, CoordinatorPcs,
         BeginDraining, CoordinatorStep, ClosePermits, NotifyDraining,
         ArmNotified, CheckActive, WakeUp, GiveUp, Close, gateVars, CGoto
<1>5. active = 0 => Guards = {}
  <2> SUFFICES ASSUME active = 0 PROVE Guards = {}
    OBVIOUS
  <2>1. Cardinality(Counted) = 0 /\ IsFiniteSet(Counted)
    BY SetsFinite DEF Inv, Accounting
  <2>2. Counted = {}
    BY <2>1, FS_EmptySet
  <2> QED
    BY <2>2 DEF Counted, Guards
<1>6. Phases'
  BY <1>2, <1>5 DEF Inv, Phases,
         BeginDraining, CoordinatorStep, ClosePermits, NotifyDraining,
         ArmNotified, CheckActive, WakeUp, GiveUp, Close, gateVars, CGoto
<1> QED
  BY <1>3, <1>4, <1>6 DEF Inv

\* Inv is inductive.
LEMMA NextInv == Inv /\ [Next]_vars => Inv'
<1> SUFFICES ASSUME Inv, [Next]_vars PROVE Inv'
  OBVIOUS
<1>1. CASE UNCHANGED vars
  <2>1. Holders' = Holders /\ Counted' = Counted /\ Guards' = Guards
    BY <1>1 DEF Holders, Counted, Guards, vars
  <2> QED
    BY <1>1, <2>1 DEF Inv, BaseType, Accounting, Phases, vars
<1>2. ASSUME NEW t \in Callers,
             TryEnter(t) \/ CallerStep(t) \/ WaitTimeout(t) \/ DropGuard(t)
      PROVE  Inv'
  BY <1>2, CallerInv
<1>3. CASE BeginDraining \/ CoordinatorStep \/ GiveUp \/ Close
  BY <1>3, CoordinatorInv
<1> QED
  BY <1>1, <1>2, <1>3 DEF Next

\* The invariant holds in every reachable state of the gate.
THEOREM Invariance == Spec => []Inv
BY InitInv, NextInv, PTL DEF Spec

-----------------------------------------------------------------------------
\* In every execution the counters stay within the limit: release_one never
\* takes active below zero and no permit is returned twice.
THEOREM TypeCorrect == Spec => []TypeOK
<1>1. Inv => TypeOK
  <2> SUFFICES ASSUME Inv PROVE TypeOK
    OBVIOUS
  <2>1. permits \in 0..Limit /\ active \in 0..Limit
    BY SetsFinite, LimitAssumption DEF Inv, BaseType, Accounting
  <2> QED
    BY <2>1 DEF Inv, BaseType, TypeOK
<1> QED
  BY <1>1, Invariance, PTL

\* For every number of callers: at most Limit guards and QueueLimit queued
\* callers exist at any time.
THEOREM LimitsRespected == Spec => []WithinLimits
<1>1. Inv => WithinLimits
  BY SetsFinite, LimitAssumption DEF Inv, BaseType, Accounting, WithinLimits
<1> QED
  BY <1>1, Invariance, PTL

\* drained() returns only when, and only if from then on, there is no guard.
THEOREM DrainIsQuiet == Spec => []DrainedMeansQuiet
<1>1. Inv => DrainedMeansQuiet
  BY DEF Inv, Phases, DrainedMeansQuiet
<1> QED
  BY <1>1, Invariance, PTL

\* No step hands out a guard once begin_draining has changed the state.
THEOREM NoLateEntry == Spec => NoEntryOnceDraining
<1>1. Inv /\ [Next]_vars => [state # "Running" => Guards' \subseteq Guards]_vars
  <2> SUFFICES ASSUME Inv, Next, state # "Running"
               PROVE  Guards' \subseteq Guards
    BY DEF vars
  <2>1. CASE UNCHANGED pc
    BY <2>1 DEF Guards
  <2>2. ASSUME NEW t \in Callers, NEW label \in CallerPcs \ {"held"},
               Goto(t, label)
        PROVE  Guards' \subseteq Guards
    BY <2>2, SetsAfterGoto DEF Inv
  <2>3. ASSUME NEW t \in Callers,
               TryEnter(t) \/ CallerStep(t) \/ WaitTimeout(t) \/ DropGuard(t)
        PROVE  Guards' \subseteq Guards
    <3>1. \/ UNCHANGED pc
          \/ \E label \in CallerPcs \ {"held"} : Goto(t, label)
      BY <2>3 DEF CallerPcs, TryEnter, CallerStep, WaitTimeout, DropGuard,
           TryAcquire, ClassifyFull, JoinQueue, Enter, WaitAcquire, WaitClosed,
           LeaveQueue, CountIn, CheckAgain, UndoEntry, ReleaseOne, NotifyZero,
           FreePermit
    <3> QED
      BY <3>1, <2>1, <2>2
  <2>4. CASE BeginDraining \/ CoordinatorStep \/ GiveUp \/ Close
    BY <2>1, <2>4 DEF BeginDraining, CoordinatorStep, ClosePermits,
         NotifyDraining, ArmNotified, CheckActive, WakeUp, GiveUp, Close
  <2> QED
    BY <2>3, <2>4 DEF Next
<1> QED
  BY <1>1, Invariance, PTL DEF Spec, NoEntryOnceDraining

-----------------------------------------------------------------------------
\* The value the contract's phase takes in a state of the gate.
PhaseOf == IF state = "Running" THEN "open"
           ELSE IF cpc = "drained" THEN "quiet" ELSE "draining"

\* The gate implements the contract: granting a guard is GoIn, dropping it is
\* GoOut, the compare-exchange is BeginDraining, the load that finds no
\* active call is BecomeQuiet, and every other step is invisible.
THEOREM Refinement == Spec => ImplementsContract
<1>1. Init => Contract!Init
  BY DEF Init, Contract!Init, Guards
<1>2. Inv /\ Inv' /\ [Next]_vars => [Contract!Next]_(Contract!contractVars)
  <2> SUFFICES ASSUME Inv, Inv', [Next]_vars
               PROVE  Contract!Next \/ (Guards' = Guards /\ PhaseOf' = PhaseOf)
    BY DEF Contract!contractVars, PhaseOf
  <2> USE DEF PhaseOf
  <2>1. CASE UNCHANGED vars
    BY <2>1 DEF vars, Guards
  <2>2. ASSUME NEW t \in Callers, CheckAgain(t), state = "Running"
        PROVE  Contract!GoIn(t)
    <3>1. Goto(t, "held") /\ pc[t] = "check" /\ UNCHANGED <<state, cpc>>
      BY <2>2 DEF CheckAgain, gateVars
    <3>2. Guards' = Guards \union {t} /\ t \notin Guards
      BY <3>1, SetsAfterGoto DEF Inv
    <3>3. Cardinality(Guards \union {t}) <= Limit
      <4>1. /\ IsFiniteSet(Counted) /\ Cardinality(Counted) \in Nat
            /\ Cardinality(Holders) \in Nat
            /\ Cardinality(Counted) <= Cardinality(Holders)
        BY SetsFinite DEF Inv
      <4>2. Guards \union {t} \in SUBSET Counted
        BY <3>1 DEF Guards, Counted
      <4>3. /\ Cardinality(Guards \union {t}) <= Cardinality(Counted)
            /\ IsFiniteSet(Guards \union {t})
        BY <4>1, <4>2, FS_Subset
      <4>4. Cardinality(Guards \union {t}) \in Nat
        BY <4>3, FS_CardinalityType
      <4> QED
        BY <4>1, <4>3, <4>4, LimitAssumption DEF Inv, Accounting, BaseType
    <3>4. Contract!Cardinality(Guards \union {t}) = Cardinality(Guards \union {t})
      BY DEF Contract!Cardinality, Cardinality, Contract!IsFiniteSet, IsFiniteSet
    <3> QED
      BY <2>2, <3>1, <3>2, <3>3, <3>4 DEF Contract!GoIn
  <2>3. ASSUME NEW t \in Callers, DropGuard(t)
        PROVE  Contract!GoOut(t)
    <3> DEFINE label == IF active = 1 THEN "notify" ELSE "free"
    <3>1. Goto(t, label) /\ pc[t] = "held" /\ UNCHANGED <<state, cpc>>
      BY <2>3 DEF DropGuard, ReleaseOne
    <3>2. Guards' = Guards \ {t} /\ t \in Guards
      BY <3>1, SetsAfterGoto DEF Inv
    <3> QED
      BY <3>1, <3>2 DEF Contract!GoOut
  <2>4. ASSUME NEW t \in Callers,
               TryEnter(t) \/ CallerStep(t) \/ WaitTimeout(t),
               ~(CheckAgain(t) /\ state = "Running")
        PROVE  Guards' = Guards /\ PhaseOf' = PhaseOf
    <3>1. UNCHANGED <<state, cpc>>
      BY <2>4 DEF TryEnter, CallerStep, WaitTimeout,
           TryAcquire, ClassifyFull, JoinQueue, Enter, WaitAcquire, WaitClosed,
           LeaveQueue, CountIn, CheckAgain, UndoEntry, ReleaseOne, NotifyZero,
           FreePermit, gateVars
    <3>2. \/ UNCHANGED pc
          \/ \E label \in CallerPcs \ {"held"} : Goto(t, label) /\ pc[t] # "held"
      BY <2>4 DEF CallerPcs, TryEnter, CallerStep, WaitTimeout,
           TryAcquire, ClassifyFull, JoinQueue, Enter, WaitAcquire, WaitClosed,
           LeaveQueue, CountIn, CheckAgain, UndoEntry, ReleaseOne, NotifyZero,
           FreePermit
    <3>3. Guards' = Guards
      <4>1. CASE UNCHANGED pc
        BY <4>1 DEF Guards
      <4>2. CASE \E label \in CallerPcs \ {"held"} : Goto(t, label) /\ pc[t] # "held"
        BY <4>2, SetsAfterGoto DEF Inv
      <4> QED
        BY <3>2, <4>1, <4>2
    <3> QED
      BY <3>1, <3>3
  <2>5. CASE BeginDraining
    <3>1. Guards' = Guards
      BY <2>5 DEF BeginDraining, Guards
    <3> QED
      BY <2>5, <3>1 DEF BeginDraining, CGoto, Contract!BeginDraining, Contract!Next
  <2>6. CASE CheckActive
    <3>1. Guards' = Guards /\ UNCHANGED state /\ cpc = "check"
      BY <2>6 DEF CheckActive, Guards, gateVars
    <3>2. state # "Running"
      BY <3>1 DEF Inv, Phases
    <3>3. CASE cpc' = "drained"
      <4>1. Guards = {}
        BY <3>1, <3>3 DEF Inv, Phases
      <4> QED
        BY <3>1, <3>2, <3>3, <4>1 DEF Contract!BecomeQuiet, Contract!Next
    <3>4. CASE cpc' = "await"
      BY <3>1, <3>4
    <3> QED
      BY <2>6, <3>3, <3>4 DEF CheckActive, CGoto
  <2>7. CASE ClosePermits \/ NotifyDraining \/ ArmNotified \/ WakeUp \/ GiveUp
    BY <2>7 DEF ClosePermits, NotifyDraining, ArmNotified, WakeUp, GiveUp,
         gateVars, CGoto, Guards
  <2>8. CASE Close
    <3>1. state # "Running"
      BY <2>8 DEF Close, Inv, Phases
    <3> QED
      BY <2>8, <3>1 DEF Close, Guards
  <2> QED
    BY <2>1, <2>2, <2>3, <2>4, <2>5, <2>6, <2>7, <2>8
    DEF Next, CoordinatorStep, Contract!Next
<1> QED
  BY <1>1, <1>2, Invariance, PTL DEF Spec, Contract!Spec, ImplementsContract
=============================================================================
