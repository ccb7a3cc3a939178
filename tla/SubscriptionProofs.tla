-------------------------- MODULE SubscriptionProofs --------------------------
(***************************************************************************)
(* Proofs about Subscription for every set of acquirers and endpoints and  *)
(* every number of generations.                                            *)
(*                                                                         *)
(* Slot, directory, deadline and breakers are written by different         *)
(* functions at different awaits; the inductive invariant says for each    *)
(* place of the supervisor how they belong together (Published), what the  *)
(* handle of the current generation can be (Generation), and how far the   *)
(* shutdown can have come (Ending).                                        *)
(*                                                                         *)
(* The second part is about NacosRegistry, the provider of a subscription: *)
(* the last list that was or will be heard is the list as it is.           *)
(***************************************************************************)
EXTENDS Subscription, Sequences, TLAPS

\* The places at which the supervisor has left its loop.
Leaving == {"finish", "release", "drop", "done"}

\* What the slot, the directory, the deadline and the breakers say, by place.
Published ==
  /\ spc = "absent" <=> slot = "Absent"
  /\ spc = "absent" => /\ dirState = "Initializing" /\ dirInst = {}
                       /\ ~deadline /\ ~retained /\ owned = Nobody
  /\ Supervised => dirState # "Closed"
  /\ StaleHasDeadline
  /\ SlotTruthful
  /\ spc \in {"close", "closeLate"} /\ dirState = "Ready" => shutdown
  /\ spc \in {"release", "drop", "done"} => slot = terminal
  /\ BreakersFollow

\* What the handle of the current generation is, by place: whoever has left
\* the loop without a failure, or prepares again, has closed it.
Generation ==
  /\ hclosing = "none" <=> hphase # "over"
  /\ spc \in {"absent", "start", "delay"} => hphase = "over" /\ hclosing = "ok"
  /\ spc \in Leaving => hphase = "over" /\ (hclosing = "ok" \/ terminal = "Failed")

\* How far the shutdown is.
Ending ==
  /\ shutdown <=> cpc # "running"
  /\ cres # "none" => cpc \in {"finish", "finished"}
  /\ ShutdownComplete

Inv == TypeOK /\ Published /\ Generation /\ Ending

-----------------------------------------------------------------------------
\* Before the first acquire the invariant holds.
LEMMA InitInv == Init => Inv
<1> SUFFICES ASSUME Init PROVE Inv
  OBVIOUS
<1>1. TypeOK
  <2>1. 0 \in 0 .. RevisionModulus - 1 /\ 0 \in 0 .. MaxGenerations
    BY BoundsAssumption
  <2>2. apc \in [Acquirers -> AcquirerPcs]
    BY DEF Init, AcquirerPcs
  <2> QED
    BY <2>1, <2>2, Zenon DEF Init, TypeOK, SlotStates, DirectoryStates, SupervisorPcs
<1>2. Published
  BY DEF Init, Published, Supervised, StaleHasDeadline, SlotTruthful, BreakersFollow
<1>3. Generation /\ Ending
  BY DEF Init, Generation, Ending, Leaving, ShutdownComplete
<1> QED
  BY <1>1, <1>2, <1>3 DEF Inv

-----------------------------------------------------------------------------
(***************************************************************************)
(* What the functions of the supervisor that publish may leave behind      *)
(***************************************************************************)

\* publish: the directory keeps its type.
LEMMA PublishType ==
  ASSUME TypeOK, NEW state \in DirectoryStates, NEW instances \in SUBSET Endpoints,
         Publish(state, instances)
  PROVE  /\ dirState' = state /\ dirInst' = instances
         /\ revision' \in 0 .. RevisionModulus - 1
  BY BoundsAssumption DEF Publish, TypeOK

\* mark_disconnected, as far as the directory and the deadline go: nothing is
\* ready any more, and what is stale has a deadline.
LEMMA Disconnected ==
  ASSUME TypeOK, DisconnectDirectory
  PROVE  /\ dirState' = CASE dirState = "Ready" -> "Stale"
                          [] dirState = "Initializing" -> "Unavailable"
                          [] OTHER -> dirState
         /\ dirInst' = dirInst
         /\ revision' \in 0 .. RevisionModulus - 1
         /\ deadline' \in BOOLEAN
         /\ dirState \in {"Ready", "Stale"} => deadline' = TRUE
         /\ dirState \notin {"Ready", "Stale"} => deadline' = deadline
<1> dirState \in DirectoryStates /\ dirInst \in SUBSET Endpoints /\ deadline \in BOOLEAN
    /\ revision \in 0 .. RevisionModulus - 1
  BY DEF TypeOK
<1>1. CASE dirState = "Ready"
  BY <1>1, PublishType DEF DisconnectDirectory, DirectoryStates
<1>2. CASE dirState = "Stale"
  BY <1>2 DEF DisconnectDirectory, directory
<1>3. CASE dirState = "Initializing"
  BY <1>3, PublishType DEF DisconnectDirectory, DirectoryStates
<1>4. CASE dirState \notin {"Ready", "Stale", "Initializing"}
  BY <1>4 DEF DisconnectDirectory, directory
<1> QED
  BY <1>1, <1>2, <1>3, <1>4

\* update_snapshot: it publishes what the provider lists, disconnects, or does
\* nothing.  What is stale was ready or stale before, and has a deadline.
LEMMA Updated ==
  ASSUME TypeOK, UpdateSnapshot
  PROVE  \/ /\ dirState' \in {"Ready", "Stale", "Unavailable"}
            /\ slot' = dirState' /\ owned' = rawInst /\ dirInst' = rawInst
            /\ revision' \in 0 .. RevisionModulus - 1
            /\ deadline' = (dirState' = "Stale")
         \/ DisconnectDirectory /\ slot' = DisconnectedSlot /\ owned' = owned
         \/ UNCHANGED <<directory, slot, owned, deadline>>
<1> rawInst \in SUBSET Endpoints /\ rawState \in DirectoryStates
  BY DEF TypeOK
<1>1. ASSUME NEW state \in {"Ready", "Stale", "Unavailable"}, NEW stale,
             Forward(state, stale)
      PROVE  /\ dirState' = state /\ slot' = state /\ deadline' = stale
             /\ owned' = rawInst /\ dirInst' = rawInst
             /\ revision' \in 0 .. RevisionModulus - 1
  BY <1>1, PublishType DEF Forward, DirectoryStates
<1>2. CASE rawState = "Ready"
  BY <1>1, <1>2 DEF UpdateSnapshot
<1>3. CASE rawState = "Stale" /\ dirState \in {"Ready", "Stale"}
  BY <1>1, <1>3 DEF UpdateSnapshot
<1>4. CASE \/ rawState = "Stale" /\ dirState \notin {"Ready", "Stale"}
           \/ rawState = "Unavailable"
  BY <1>1, <1>4 DEF UpdateSnapshot
<1>5. CASE rawState = "Closed"
  BY <1>5 DEF UpdateSnapshot, MarkDisconnected
<1>6. CASE rawState = "Initializing"
  BY <1>6 DEF UpdateSnapshot
<1> QED
  BY <1>2, <1>3, <1>4, <1>5, <1>6 DEF DirectoryStates

\* set_provider_failure
LEMMA ProviderFailed ==
  ASSUME TypeOK, SetProviderFailure
  PROVE  /\ dirState' = IF dirState = "Initializing" THEN "Unavailable" ELSE dirState
         /\ dirInst' = dirInst /\ owned' = owned /\ deadline' = deadline
         /\ slot' = IF dirState = "Stale" THEN "Stale" ELSE "Failed"
         /\ revision' \in 0 .. RevisionModulus - 1
<1> dirInst \in SUBSET Endpoints /\ revision \in 0 .. RevisionModulus - 1
  BY DEF TypeOK
<1>1. CASE dirState = "Initializing"
  BY <1>1, PublishType DEF SetProviderFailure, DirectoryStates
<1>2. CASE dirState # "Initializing"
  BY <1>2 DEF SetProviderFailure, directory
<1> QED
  BY <1>1, <1>2
-----------------------------------------------------------------------------
(***************************************************************************)
(* Types                                                                   *)
(***************************************************************************)

\* TypeOK in the groups of variables that steps leave alone together.
DirectoryType ==
  /\ dirState \in DirectoryStates /\ dirInst \in SUBSET Endpoints
  /\ revision \in 0 .. RevisionModulus - 1
SlotType ==
  /\ slot \in SlotStates /\ owned \in (SUBSET Endpoints) \union {Nobody}
  /\ deadline \in BOOLEAN
EndType == retained \in BOOLEAN /\ terminal \in {"Closed", "Failed", "Quarantined"}
PlaceType == spc \in SupervisorPcs
HandleType ==
  /\ gen \in 0 .. MaxGenerations
  /\ hphase \in {"prepared", "activating", "settled", "cleaning", "over"}
  /\ hactivation \in {"none", "ok", "failed", "cancelled"}
  /\ hclosing \in {"none", "ok", "failed"}
RawType ==
  /\ rawState \in DirectoryStates /\ rawInst \in SUBSET Endpoints
  /\ rawUnseen \in BOOLEAN /\ rawEnded \in BOOLEAN
ManagerType ==
  /\ shutdown \in BOOLEAN
  /\ cpc \in {"running", "collect", "await", "finish", "finished"}
  /\ cres \in {"none", "ok", "failed", "timeout"}
  /\ apc \in [Acquirers -> AcquirerPcs]

\* TypeOK is the conjunction of its groups.
LEMMA TypeParts ==
  TypeOK <=> /\ DirectoryType /\ SlotType /\ EndType /\ PlaceType /\ HandleType
             /\ RawType /\ ManagerType
  BY DEF TypeOK, DirectoryType, SlotType, EndType, PlaceType, HandleType, RawType,
         ManagerType

\* What a step leaves alone keeps its type.
LEMMA Untouched ==
  /\ DirectoryType /\ UNCHANGED directory => DirectoryType'
  /\ SlotType /\ UNCHANGED <<slot, owned, deadline>> => SlotType'
  /\ EndType /\ UNCHANGED <<retained, terminal>> => EndType'
  /\ PlaceType /\ UNCHANGED spc => PlaceType'
  /\ HandleType /\ UNCHANGED handle => HandleType'
  /\ RawType /\ UNCHANGED raw => RawType'
  /\ ManagerType /\ UNCHANGED <<shutdown, cpc, cres, apc>> => ManagerType'
  BY DEF DirectoryType, SlotType, EndType, PlaceType, HandleType, RawType, ManagerType,
         directory, handle, raw

\* Every step keeps the types.
LEMMA TypeStep == TypeOK /\ [Next]_vars => TypeOK'
<1> SUFFICES ASSUME TypeOK, [Next]_vars
             PROVE  /\ DirectoryType' /\ SlotType' /\ EndType' /\ PlaceType'
                    /\ HandleType' /\ RawType' /\ ManagerType'
  BY DEF TypeOK, DirectoryType, SlotType, EndType, PlaceType, HandleType, RawType,
         ManagerType
<1>t. /\ DirectoryType /\ SlotType /\ EndType /\ PlaceType /\ HandleType
      /\ RawType /\ ManagerType
  BY TypeParts
<1>p. ASSUME NEW state \in DirectoryStates, Publish(state, dirInst) PROVE DirectoryType'
  BY <1>p, <1>t, PublishType DEF DirectoryType
<1>s. {"Unavailable", "Closed", "Initializing"} \subseteq DirectoryStates
      /\ DirectoryStates \subseteq SlotStates
  BY DEF DirectoryStates, SlotStates
<1> USE <1>t, Untouched
<1>1. CASE UNCHANGED vars
  BY <1>1 DEF vars, supervisor
<1>2. CASE StopAtStart \/ ActivateCancelled \/ ServeStops \/ CloseOk
  <2>1. PlaceType'
    BY <1>2 DEF StopAtStart, ActivateCancelled, ServeStops, CloseOk, PlaceType, SupervisorPcs
  <2> QED
    BY <1>2, <2>1 DEF StopAtStart, ActivateCancelled, ServeStops, CloseOk, others
<1>3. CASE Prepare
  <2>1. PlaceType' /\ HandleType'
    BY <1>3, BoundsAssumption DEF Prepare, PlaceType, SupervisorPcs, HandleType
  <2>2. RawType'
    BY <1>3, <1>s, Zenon DEF Prepare, RawType
  <2> QED
    BY <1>3, <2>1, <2>2 DEF Prepare
<1>4. CASE PrepareFails \/ ActivateFails
  <2>1. SetProviderFailure /\ PlaceType'
    BY <1>4 DEF PrepareFails, ActivateFails, PlaceType, SupervisorPcs
  <2>2. DirectoryType' /\ SlotType'
    BY <2>1, ProviderFailed, <1>s DEF DirectoryType, SlotType, SlotStates
  <2> QED
    BY <1>4, <2>1, <2>2 DEF PrepareFails, ActivateFails, others
<1>5. CASE PreparePanics \/ CloseTimeout \/ CloseFails \/ Delay \/ Finish
  <2>1. slot' \in SlotStates /\ terminal' \in {"Closed", "Failed", "Quarantined"}
        /\ PlaceType'
    BY <1>5, <1>s DEF PreparePanics, CloseTimeout, CloseFails, Delay, Finish, SlotType,
                      SlotStates, EndType, DirectoryType, PlaceType, SupervisorPcs
  <2>2. UNCHANGED <<owned, deadline, retained, directory, handle, others>>
    BY <1>5 DEF PreparePanics, CloseTimeout, CloseFails, Delay, Finish
  <2> QED
    BY <2>1, <2>2 DEF SlotType, EndType, others
<1>6. CASE StartActivate
  <2>1. HandleType'
    BY <1>6 DEF StartActivate, Handle!StartActivation, HandleType
  <2> QED
    BY <1>6, <2>1 DEF StartActivate, others, supervisor
<1>7. ASSUME DisconnectDirectory
      PROVE  DirectoryType' /\ DisconnectedSlot \in SlotStates /\ deadline' \in BOOLEAN
  <2>1. DirectoryType' /\ deadline' \in BOOLEAN
    BY <1>7, Disconnected DEF DirectoryType, DirectoryStates
  <2>2. DisconnectedSlot \in SlotStates
    BY DEF DisconnectedSlot, SlotStates, SlotType
  <2> QED
    BY <2>1, <2>2
<1>8. CASE ActivateOk \/ ServeChanged
  <2>1. UpdateSnapshot
    BY <1>8 DEF ActivateOk, ServeChanged
  <2>2. DirectoryType' /\ SlotType'
    <3>1. CASE /\ dirState' \in {"Ready", "Stale", "Unavailable"}
               /\ slot' = dirState' /\ owned' = rawInst /\ dirInst' = rawInst
               /\ revision' \in 0 .. RevisionModulus - 1
               /\ deadline' = (dirState' = "Stale")
      BY <3>1 DEF DirectoryType, DirectoryStates, SlotType, SlotStates, RawType
    <3>2. CASE DisconnectDirectory /\ slot' = DisconnectedSlot /\ owned' = owned
      BY <3>2, <1>7 DEF SlotType
    <3>3. CASE UNCHANGED <<directory, slot, owned, deadline>>
      BY <3>3
    <3> QED
      BY <2>1, <3>1, <3>2, <3>3, Updated
  <2>3. PlaceType' /\ EndType' /\ HandleType' /\ ManagerType'
    BY <1>8 DEF ActivateOk, ServeChanged, others, PlaceType, SupervisorPcs
  <2>4. RawType'
    <3>1. rawUnseen' \in BOOLEAN /\ UNCHANGED <<rawState, rawInst, rawEnded>>
      BY <1>8 DEF ActivateOk, ServeChanged, others, raw, RawType
    <3> QED
      BY <3>1 DEF RawType
  <2> QED
    BY <2>2, <2>3, <2>4
<1>9. CASE ActivateTimeout \/ ServeEnded
  <2>1. DisconnectDirectory /\ UNCHANGED owned /\ slot' \in {"Quarantined", DisconnectedSlot}
    BY <1>9 DEF ActivateTimeout, ServeEnded, MarkDisconnected
  <2>2. DirectoryType' /\ SlotType'
    BY <2>1, <1>7 DEF SlotType, SlotStates
  <2> QED
    BY <1>9, <2>2 DEF ActivateTimeout, ServeEnded, others, PlaceType, SupervisorPcs
<1>10. CASE ExpireStale
  <2>1. DirectoryType' /\ slot' \in SlotStates
    BY <1>10, <1>p, <1>s DEF ExpireStale, SlotType, SlotStates
  <2>2. SlotType'
    BY <1>10, <2>1, Zenon DEF ExpireStale, SlotType
  <2> QED
    BY <1>10, <2>1, <2>2 DEF ExpireStale, others
<1>11. CASE Release
  <2>1. SlotType' /\ PlaceType'
    BY <1>11 DEF Release, SlotType, PlaceType, SupervisorPcs
  <2>2. EndType'
    BY <1>11, Zenon DEF Release, EndType
  <2> QED
    BY <1>11, <2>1, <2>2 DEF Release, others
<1>12. CASE DropPublisher
  <2>1. DirectoryType' /\ PlaceType'
    BY <1>12, <1>p, <1>s DEF DropPublisher, PublishClosed, PlaceType, SupervisorPcs
  <2> QED
    BY <1>12, <2>1 DEF DropPublisher, others
<1>13. CASE ProviderStep
  <2>1. CASE ProviderActivates \/ ProviderCleans \/ ProviderCleaned
    <3>1. HandleType'
      BY <2>1 DEF ProviderActivates, ProviderCleans, ProviderCleaned, Handle!Settle,
                  Handle!StartCleanup, Handle!CloseUnstarted, Handle!FinishCleanup,
                  HandleType
    <3> QED
      BY <2>1, <3>1 DEF ProviderActivates, ProviderCleans, ProviderCleaned, others, supervisor
  <2>2. CASE ProviderPublishes \/ ProviderEnds
    <3>1. RawType'
      BY <2>2 DEF ProviderPublishes, ProviderEnds, DirectoryStates, RawType
    <3> QED
      BY <2>2, <3>1 DEF ProviderPublishes, ProviderEnds, supervisor
  <2> QED
    BY <1>13, <2>1, <2>2 DEF ProviderStep
<1>14. CASE \E a \in Acquirers : AcquirerStep(a)
  <2> PICK a \in Acquirers : AcquirerStep(a)
    BY <1>14
  <2>1. CASE AcquireCheck(a) \/ Answered(a) \/ InitialTimeout(a)
    <3>1. ManagerType'
      BY <2>1 DEF AcquireCheck, Answered, InitialTimeout, AcquirerPcs, ManagerType
    <3> QED
      BY <2>1, <3>1 DEF AcquireCheck, Answered, InitialTimeout, supervisor
  <2>2. CASE AcquireLocked(a)
    <3>1. ManagerType'
      BY <2>2 DEF AcquireLocked, JoinOrRefuse, OpenSlot, AcquirerPcs, ManagerType
    <3>2. CASE UNCHANGED supervisor
      BY <2>2, <3>1, <3>2 DEF AcquireLocked, supervisor
    <3>3. CASE OpenSlot(a)
      <4>1. EndType'
        BY <3>3, Zenon DEF OpenSlot, EndType
      <4>2. PlaceType' /\ SlotType'
        BY <3>3 DEF OpenSlot, PlaceType, SupervisorPcs, SlotType, SlotStates
      <4> QED
        BY <2>2, <3>1, <3>3, <4>1, <4>2 DEF AcquireLocked, OpenSlot
    <3> QED
      BY <2>2, <3>2, <3>3 DEF AcquireLocked, JoinOrRefuse
  <2> QED
    BY <2>1, <2>2 DEF AcquirerStep
<1>15. CASE BeginShutdown \/ CollectSlots \/ SlotCompleted \/ ShutdownTimeout
  <2>1. ManagerType'
    BY <1>15 DEF BeginShutdown, CollectSlots, SlotCompleted, ShutdownTimeout, ManagerType
  <2> QED
    BY <1>15, <2>1 DEF BeginShutdown, CollectSlots, SlotCompleted, ShutdownTimeout, supervisor
<1>16. CASE FinishShutdown
  <2>1. DirectoryType' /\ owned' \in (SUBSET Endpoints) \union {Nobody}
    BY <1>16, <1>p, <1>s DEF FinishShutdown, PublishClosed
  <2>2. EndType' /\ SlotType'
    BY <1>16, <2>1, Zenon DEF FinishShutdown, EndType, SlotType
  <2>3. ManagerType'
    BY <1>16 DEF FinishShutdown, ManagerType
  <2> QED
    BY <1>16, <2>1, <2>2, <2>3 DEF FinishShutdown
<1> QED
  BY <1>1, <1>2, <1>3, <1>4, <1>5, <1>6, <1>8, <1>9, <1>10, <1>11, <1>12, <1>13,
     <1>14, <1>15, <1>16
  DEF Next, SupervisorStep, CoordinatorStep

-----------------------------------------------------------------------------
(***************************************************************************)
(* The handle of the current generation                                    *)
(***************************************************************************)

\* Every step keeps what is known of the current generation.
LEMMA GenerationStep == TypeOK /\ Generation /\ Published /\ [Next]_vars => Generation'
<1> SUFFICES ASSUME TypeOK, Generation, Published, [Next]_vars PROVE Generation'
  OBVIOUS
<1>t. /\ spc \in SupervisorPcs /\ terminal \in {"Closed", "Failed", "Quarantined"}
      /\ hphase \in {"prepared", "activating", "settled", "cleaning", "over"}
      /\ hclosing \in {"none", "ok", "failed"}
  BY DEF TypeOK
<1> USE <1>t DEF Generation, Leaving, handle, supervisor
<1>1. CASE UNCHANGED vars
  BY <1>1 DEF vars
<1>2. CASE StopAtStart \/ PrepareFails \/ PreparePanics
  BY <1>2 DEF StopAtStart, PrepareFails, PreparePanics
<1>3. CASE Prepare
  BY <1>3 DEF Prepare
<1>4. CASE StartActivate
  BY <1>4 DEF StartActivate, Handle!StartActivation
<1>5. CASE \/ ActivateCancelled \/ ActivateOk \/ ActivateFails \/ ActivateTimeout
           \/ ServeChanged \/ ServeEnded \/ ServeStops \/ ExpireStale \/ CloseTimeout
  BY <1>5 DEF ActivateCancelled, ActivateOk, ActivateFails, ActivateTimeout, ServeChanged,
              ServeEnded, ServeStops, ExpireStale, CloseTimeout
<1>6. CASE CloseOk \/ CloseFails
  BY <1>6 DEF CloseOk, CloseFails
<1>7. CASE Delay \/ Finish \/ Release \/ DropPublisher
  BY <1>7 DEF Delay, Finish, Release, DropPublisher
<1>8. CASE ProviderStep
  BY <1>8 DEF ProviderStep, ProviderActivates, ProviderCleans, ProviderCleaned,
              ProviderPublishes, ProviderEnds, Handle!Settle, Handle!StartCleanup,
              Handle!CloseUnstarted, Handle!FinishCleanup
<1>9. CASE \E a \in Acquirers : AcquirerStep(a)
  BY <1>9 DEF AcquirerStep, AcquireCheck, AcquireLocked, Answered, InitialTimeout,
              JoinOrRefuse, OpenSlot, Published
<1>10. CASE \/ BeginShutdown \/ CollectSlots \/ SlotCompleted \/ ShutdownTimeout
            \/ FinishShutdown
  BY <1>10 DEF BeginShutdown, CollectSlots, SlotCompleted, ShutdownTimeout, FinishShutdown
<1> QED
  BY <1>1, <1>2, <1>3, <1>4, <1>5, <1>6, <1>7, <1>8, <1>9, <1>10
  DEF Next, SupervisorStep, CoordinatorStep

-----------------------------------------------------------------------------
(***************************************************************************)
(* The shutdown                                                            *)
(***************************************************************************)

\* Every step keeps what is known of the shutdown: a supervisor that is over stays
\* over, and no acquire that passed its first check before the shutdown opens a
\* slot after it.
LEMMA EndingStep == TypeOK /\ Generation /\ Published /\ Ending /\ [Next]_vars => Ending'
<1> SUFFICES ASSUME TypeOK, Generation, Published, Ending, [Next]_vars PROVE Ending'
  OBVIOUS
<1>t. /\ shutdown \in BOOLEAN /\ spc \in SupervisorPcs
      /\ cpc \in {"running", "collect", "await", "finish", "finished"}
      /\ cres \in {"none", "ok", "failed", "timeout"}
  BY DEF TypeOK
<1> USE <1>t DEF Ending, ShutdownComplete, handle, supervisor, others
<1>1. CASE UNCHANGED vars
  BY <1>1 DEF vars
<1>2. CASE SupervisorStep \/ ActivateTimeout \/ ExpireStale \/ CloseTimeout
  <2>1. UNCHANGED <<shutdown, cpc, cres>> /\ spc \notin {"absent", "done"}
    BY <1>2 DEF SupervisorStep, StopAtStart, Prepare, PrepareFails, PreparePanics,
                StartActivate, ActivateCancelled, ActivateOk, ActivateFails, ActivateTimeout,
                ServeChanged, ServeEnded, ServeStops, ExpireStale, CloseTimeout, CloseOk,
                CloseFails, Delay, Finish, Release, DropPublisher
  <2> QED
    BY <2>1
<1>3. CASE ProviderStep
  BY <1>3 DEF ProviderStep, ProviderActivates, ProviderCleans, ProviderCleaned,
              ProviderPublishes, ProviderEnds, Handle!Settle, Handle!StartCleanup,
              Handle!CloseUnstarted, Handle!FinishCleanup
<1>4. CASE \E a \in Acquirers : AcquirerStep(a)
  BY <1>4 DEF AcquirerStep, AcquireCheck, AcquireLocked, Answered, InitialTimeout,
              JoinOrRefuse, OpenSlot
<1>5. CASE BeginShutdown
  BY <1>5 DEF BeginShutdown
<1>6. CASE CollectSlots \/ SlotCompleted \/ ShutdownTimeout
  BY <1>6 DEF CollectSlots, SlotCompleted, ShutdownTimeout, Generation, Leaving, Published
<1>7. CASE FinishShutdown
  BY <1>7 DEF FinishShutdown
<1> QED
  BY <1>1, <1>2, <1>3, <1>4, <1>5, <1>6, <1>7 DEF Next, CoordinatorStep

-----------------------------------------------------------------------------
(***************************************************************************)
(* What is published                                                       *)
(***************************************************************************)

\* Every step keeps slot, directory, deadline and breakers together.
LEMMA PublishedStep == TypeOK /\ Published /\ Ending /\ [Next]_vars => Published'
<1> SUFFICES ASSUME TypeOK, Published, Ending, [Next]_vars PROVE Published'
  OBVIOUS
<1>t. /\ spc \in SupervisorPcs /\ slot \in SlotStates /\ dirState \in DirectoryStates
      /\ deadline \in BOOLEAN /\ shutdown \in BOOLEAN
      /\ terminal \in {"Closed", "Failed", "Quarantined"}
      /\ shutdown <=> cpc # "running"
  BY DEF TypeOK, Ending
<1> USE <1>t DEF Published, Supervised, StaleHasDeadline, SlotTruthful, BreakersFollow,
                 directory, supervisor, others
<1>1. CASE UNCHANGED vars
  BY <1>1 DEF vars
<1>2. CASE StopAtStart \/ ActivateCancelled \/ ServeStops
  BY <1>2 DEF StopAtStart, ActivateCancelled, ServeStops
<1>3. CASE Prepare \/ StartActivate
  BY <1>3 DEF Prepare, StartActivate
<1>4. CASE PrepareFails \/ ActivateFails
  <2>1. SetProviderFailure
    BY <1>4 DEF PrepareFails, ActivateFails
  <2> QED
    BY <1>4, <2>1, ProviderFailed DEF PrepareFails, ActivateFails
<1>5. CASE PreparePanics \/ CloseTimeout \/ CloseFails
  BY <1>5 DEF PreparePanics, CloseTimeout, CloseFails
<1>6. CASE ActivateOk \/ ServeChanged
  <2>1. /\ UpdateSnapshot /\ spc \in {"activate", "serve"} /\ spc' = "serve" /\ ~shutdown
        /\ UNCHANGED <<shutdown, cpc, retained, terminal>>
    BY <1>6 DEF ActivateOk, ServeChanged
  <2>2. CASE /\ dirState' \in {"Ready", "Stale", "Unavailable"}
             /\ slot' = dirState' /\ owned' = rawInst /\ dirInst' = rawInst
             /\ deadline' = (dirState' = "Stale")
    BY <2>1, <2>2
  <2>3. CASE DisconnectDirectory /\ slot' = DisconnectedSlot /\ owned' = owned
    BY <2>1, <2>3, Disconnected DEF DisconnectedSlot, SlotStates, DirectoryStates
  <2>4. CASE UNCHANGED <<directory, slot, owned, deadline>>
    BY <2>1, <2>4
  <2> QED
    BY <2>1, <2>2, <2>3, <2>4, Updated
<1>7. CASE ActivateTimeout
  <2>1. DisconnectDirectory
    BY <1>7 DEF ActivateTimeout
  <2> QED
    BY <1>7, <2>1, Disconnected DEF ActivateTimeout, DirectoryStates
<1>8. CASE ServeEnded
  <2>1. DisconnectDirectory /\ slot' = DisconnectedSlot /\ owned' = owned
    BY <1>8 DEF ServeEnded, MarkDisconnected
  <2> QED
    BY <1>8, <2>1, Disconnected DEF ServeEnded, DisconnectedSlot, SlotStates, DirectoryStates
<1>9. CASE ExpireStale
  <2>1. CASE dirState = "Stale"
    BY <1>9, <2>1 DEF ExpireStale, Publish
  <2>2. CASE dirState # "Stale"
    BY <1>9, <2>2 DEF ExpireStale
  <2> QED
    BY <2>1, <2>2
<1>10. CASE CloseOk
  BY <1>10 DEF CloseOk
<1>11. CASE Delay
  BY <1>11 DEF Delay, DirectoryStates
<1>12. CASE Finish \/ Release
  BY <1>12 DEF Finish, Release
<1>13. CASE DropPublisher
  BY <1>13 DEF DropPublisher, PublishClosed, Publish
<1>14. CASE ProviderStep
  BY <1>14 DEF ProviderStep, ProviderActivates, ProviderCleans, ProviderCleaned,
               ProviderPublishes, ProviderEnds
<1>15. CASE \E a \in Acquirers : AcquirerStep(a)
  BY <1>15 DEF AcquirerStep, AcquireCheck, AcquireLocked, Answered, InitialTimeout,
               JoinOrRefuse, OpenSlot
<1>16. CASE BeginShutdown \/ CollectSlots \/ SlotCompleted \/ ShutdownTimeout
  BY <1>16 DEF BeginShutdown, CollectSlots, SlotCompleted, ShutdownTimeout
<1>17. CASE FinishShutdown
  BY <1>17 DEF FinishShutdown, PublishClosed, Publish
<1> QED
  BY <1>1, <1>2, <1>3, <1>4, <1>5, <1>6, <1>7, <1>8, <1>9, <1>10, <1>11, <1>12, <1>13,
     <1>14, <1>15, <1>16, <1>17
  DEF Next, SupervisorStep, CoordinatorStep

-----------------------------------------------------------------------------
(***************************************************************************)
(* Theorems                                                                *)
(***************************************************************************)

\* The invariant holds in every reachable state.
THEOREM Invariance == Spec => []Inv
<1>1. Inv /\ [Next]_vars => Inv'
  BY TypeStep, GenerationStep, EndingStep, PublishedStep DEF Inv
<1> QED
  BY InitInv, <1>1, PTL DEF Spec

\* Every variable of the subscription has its type; a supervisor ends only as
\* closed, failed or quarantined.
THEOREM TypeCorrect == Spec => []TypeOK
<1>1. Inv => TypeOK
  BY DEF Inv
<1> QED
  BY Invariance, <1>1, PTL

\* Stale instances always have the deadline that ends them, and what acquire
\* hands out agrees with what the directory shows, at every await of
\* run_subscription.
THEOREM SlotIsSound == Spec => []SlotSound
<1>1. Inv => SlotSound
  BY DEF Inv, Published, SlotSound
<1> QED
  BY Invariance, <1>1, PTL

\* EndpointBreakers follows the directory and forgets the selector, and a shutdown
\* that reports success has left no supervisor and no generation.
THEOREM NothingIsRetained == Spec => []NothingRetained
<1>1. Inv => NothingRetained
  BY DEF Inv, Published, Ending, NothingRetained
<1> QED
  BY Invariance, <1>1, PTL

\* A generation is prepared only when the previous one is closed for good.
THEOREM GenerationsDisjoint == Spec => NoOverlap
<1>1. Inv /\ [Next]_vars => [gen' # gen => hphase = "over" /\ hclosing = "ok"]_vars
  <2> SUFFICES ASSUME Inv, Next, gen' # gen
               PROVE  hphase = "over" /\ hclosing = "ok"
    OBVIOUS
  <2>1. CASE Prepare
    BY <2>1 DEF Prepare, Inv, Generation
  <2>2. CASE ~Prepare
    <3>1. UNCHANGED gen
      BY <2>2 DEF Next, SupervisorStep, StopAtStart, PrepareFails, PreparePanics,
                StartActivate, ActivateCancelled, ActivateOk, ActivateFails, ActivateTimeout,
                ServeChanged, ServeEnded, ServeStops, ExpireStale, CloseTimeout, CloseOk,
                CloseFails, Delay, Finish, Release, DropPublisher, ProviderStep,
                ProviderActivates, ProviderCleans, ProviderCleaned, ProviderPublishes,
                ProviderEnds, AcquirerStep, AcquireCheck, AcquireLocked, Answered,
                InitialTimeout, BeginShutdown, CoordinatorStep, CollectSlots, SlotCompleted,
                ShutdownTimeout, FinishShutdown, handle
    <3> QED
      BY <3>1
  <2> QED
    BY <2>1, <2>2
<1> QED
  BY Invariance, <1>1, PTL DEF Spec, NoOverlap

-----------------------------------------------------------------------------
(***************************************************************************)
(* What a subscription of Nacos shows: NacosRegistry, for any servers,     *)
(* foreign instances, selectors and number of changes.                     *)
(***************************************************************************)

CONSTANTS Registrations, Foreign, Selectors, Settings, Infinite, MaxChanges

VARIABLES selector, convention, phase, listed, changes, events, fetched, pending, shown

Nacos == INSTANCE NacosRegistry

\* What the Nacos server lists of the service, and what a client is to see of it.
ListedNow == listed[Nacos!Key(selector)]
View(instances) == Nacos!ToServiceInstances(instances)

\* Before its listener is installed a subscription has heard nothing, and it
\* shows something from initialize on.
Quietness ==
  /\ selector \in Selectors /\ Nacos!Key(selector) \in DOMAIN listed
  /\ \E S : events \in Seq(S)
  /\ phase \in {"unconnected", "prepared"} => events = <<>> /\ pending = {}
  /\ phase \in {"unconnected", "prepared", "subscribed", "selected"} => shown = {}
  /\ phase = "ready" => shown # {}

\* The last thing heard, or still to be heard, is the list as it is.
UpToDate ==
  /\ Nacos!Listening /\ events # <<>> => events[Len(events)] = ListedNow
  /\ Nacos!Listening /\ events = <<>> /\ pending # {} => pending = {View(ListedNow)}
  /\ phase = "selected" /\ events = <<>> /\ pending = {} =>
       fetched = {n \in ListedNow : n.healthy}
  /\ phase = "ready" => pending = {}
  /\ Nacos!CurrentWhenQuiet

NacosInv == Quietness /\ UpToDate

\* The instances Nacos takes for unhealthy are not shown in any case.
LEMMA ViewOfHealthy ==
  ASSUME NEW instances
  PROVE  View({n \in instances : n.healthy}) = View(instances)
<1>1. {n \in {m \in instances : m.healthy} :
          n.healthy /\ n.enabled /\ n.weight > 0 /\ Nacos!MatchesSelector(n)}
        = {n \in instances : n.healthy /\ n.enabled /\ n.weight > 0 /\ Nacos!MatchesSelector(n)}
  OBVIOUS
<1> QED
  BY <1>1, Zenon DEF View, Nacos!ToServiceInstances

\* What a client sees of a list depends on the list, its selector and its convention.
LEMMA ViewIsStable ==
  ASSUME UNCHANGED <<selector, convention>>, NEW instances
  PROVE  View(instances)' = View(instances)
<1>1. ASSUME NEW m
      PROVE  Nacos!DecodeCapabilities(m)' = Nacos!DecodeCapabilities(m)
  BY DEF Nacos!DecodeCapabilities
<1>2. ASSUME NEW n
      PROVE  Nacos!ToServiceInstance(n)' = Nacos!ToServiceInstance(n)
  BY <1>1 DEF Nacos!ToServiceInstance
<1>3. ASSUME NEW n
      PROVE  Nacos!MatchesSelector(n)' <=> Nacos!MatchesSelector(n)
  BY DEF Nacos!MatchesSelector
<1>4. {n \in instances : n.healthy /\ n.enabled /\ n.weight > 0 /\ Nacos!MatchesSelector(n)'}
        = {n \in instances : n.healthy /\ n.enabled /\ n.weight > 0 /\ Nacos!MatchesSelector(n)}
  BY <1>3
<1> QED
  BY <1>2, <1>4 DEF View, Nacos!ToServiceInstances

\* The last event after another one is sent, and after the first one is received.
LEMMA LastEvent ==
  ASSUME NEW S, NEW q \in Seq(S)
  PROVE  /\ \A x : /\ Append(q, x) \in Seq(S \cup {x}) /\ Append(q, x) # <<>>
                   /\ Append(q, x)[Len(Append(q, x))] = x
         /\ q # <<>> => /\ Tail(q) \in Seq(S)
                        /\ Tail(q) # <<>> => Tail(q)[Len(Tail(q))] = q[Len(q)]
                        /\ Tail(q) = <<>> => Head(q) = q[Len(q)]
<1>1. ASSUME NEW x
      PROVE  /\ Append(q, x) \in Seq(S \cup {x}) /\ Append(q, x) # <<>>
             /\ Append(q, x)[Len(Append(q, x))] = x
  <2>1. q \in Seq(S \cup {x}) /\ x \in S \cup {x}
    OBVIOUS
  <2> QED
    BY <2>1
<1>2. ASSUME q # <<>>
      PROVE  /\ Tail(q) \in Seq(S)
             /\ Tail(q) # <<>> => Tail(q)[Len(Tail(q))] = q[Len(q)]
             /\ Tail(q) = <<>> => Head(q) = q[Len(q)]
  <2>1. Len(q) \in Nat \ {0} /\ Tail(q) \in Seq(S) /\ Len(Tail(q)) = Len(q) - 1
    BY <1>2
  <2>2. ASSUME Tail(q) # <<>> PROVE Tail(q)[Len(Tail(q))] = q[Len(q)]
    <3>1. Len(Tail(q)) # 0
      BY <2>1, <2>2
    <3>2. Len(q) - 1 \in 1 .. Len(q) - 1
      BY <2>1, <3>1
    <3>3. Tail(q)[Len(q) - 1] = q[(Len(q) - 1) + 1]
      BY <1>2, <3>2
    <3>4. (Len(q) - 1) + 1 = Len(q)
      BY <2>1
    <3> QED
      BY <2>1, <3>3, <3>4, Zenon
  <2>3. ASSUME Tail(q) = <<>> PROVE Head(q) = q[Len(q)]
    <3>1. Len(q) \in Nat /\ Len(q) - 1 = Len(<<>>)
      BY <2>1, <2>3, Zenon
    <3>2. Len(q) = 1
      <4>1. \A n \in Nat : n - 1 = 0 => n = 1
        OBVIOUS
      <4>2. Len(<<>>) = 0
        OBVIOUS
      <4> QED
        BY <3>1, <4>1, <4>2, Zenon
    <3>3. Head(q) = q[1]
      BY <1>2
    <3> QED
      BY <3>2, <3>3, Zenon
  <2> QED
    BY <2>1, <2>2, <2>3
<1> QED
  BY <1>1, <1>2

\* The subscription begins with nothing heard.
LEMMA NacosInitInv == Nacos!Init => NacosInv
<1> SUFFICES ASSUME Nacos!Init PROVE NacosInv
  OBVIOUS
<1>1. Nacos!Key(selector) \in DOMAIN listed
  BY DEF Nacos!Init, Nacos!Keys
<1>2. events \in Seq({})
  BY DEF Nacos!Init
<1>3. Quietness
  BY <1>1, <1>2 DEF Nacos!Init, Quietness
<1>4. UpToDate
  BY DEF Nacos!Init, UpToDate, Nacos!Listening, Nacos!CurrentWhenQuiet, Nacos!Quiet
<1> QED
  BY <1>3, <1>4 DEF NacosInv

\* A change at the Nacos server is on its way to whoever listens.
LEMMA NacosChangedInv ==
  ASSUME NacosInv, NEW key, NEW instances, Nacos!Changed(key, instances)
  PROVE  NacosInv'
<1> DEFINE K == Nacos!Key(selector)
<1> USE DEF NacosInv
<1>1. UNCHANGED <<selector, convention, phase, fetched, pending, shown>>
  BY DEF Nacos!Changed
<1>2. K' = K /\ (Nacos!Listening' <=> Nacos!Listening)
  BY <1>1 DEF Nacos!Key, Nacos!ServiceName, Nacos!ServiceGroup, Nacos!Listening
<1>3. K \in DOMAIN listed /\ listed' = [listed EXCEPT ![key] = instances]
  BY DEF Nacos!Changed, Quietness
<1>4. K \in DOMAIN listed'
  BY <1>3
<1>5. \E S : events' \in Seq(S)
  <2>1. PICK S : events \in Seq(S)
    BY DEF Quietness
  <2>2. Append(events, instances) \in Seq(S \cup {instances})
    BY <2>1, LastEvent
  <2> QED
    BY <2>1, <2>2 DEF Nacos!Changed
<1>6. Quietness'
  BY <1>1, <1>2, <1>4, <1>5 DEF Quietness, Nacos!Changed, Nacos!Listening
<1>7. CASE Nacos!Listening /\ key = K
  <2>1. events' = Append(events, instances) /\ ListedNow' = instances
    BY <1>2, <1>3, <1>7 DEF Nacos!Changed, ListedNow
  <2>2. events' # <<>> /\ events'[Len(events')] = ListedNow'
    BY <2>1, LastEvent DEF Quietness
  <2> QED
    BY <1>1, <1>6, <2>2 DEF UpToDate, Nacos!CurrentWhenQuiet, Nacos!Quiet
<1>8. CASE ~(Nacos!Listening /\ key = K)
  <2>1. UNCHANGED events
    BY <1>8 DEF Nacos!Changed
  <2>2. CASE ~Nacos!Listening
    BY <1>1, <1>2, <1>6, <2>1, <2>2
       DEF UpToDate, Nacos!CurrentWhenQuiet, Nacos!Quiet, Nacos!Listening
  <2>3. CASE key # K
    <3>1. ListedNow' = ListedNow
      BY <1>2, <1>3, <2>3 DEF ListedNow
    <3>2. View(ListedNow)' = View(ListedNow)
      BY <1>1, <3>1, ViewIsStable
    <3> QED
      BY <1>1, <1>2, <1>6, <2>1, <3>1, <3>2
         DEF UpToDate, Nacos!CurrentWhenQuiet, Nacos!Quiet, ListedNow, View
  <2> QED
    BY <1>8, <2>2, <2>3
<1> QED
  BY <1>7, <1>8

\* What the listener and initialize bring is the last list, in either order.
LEMMA NacosStepInv == NacosInv /\ [Nacos!Next]_(Nacos!vars) => NacosInv'
<1> SUFFICES ASSUME NacosInv, [Nacos!Next]_(Nacos!vars) PROVE NacosInv'
  OBVIOUS
<1> DEFINE K == Nacos!Key(selector)
<1> USE DEF NacosInv
<1>0. CASE UNCHANGED <<selector, convention, listed>>
  <2>1. K' = K /\ ListedNow' = ListedNow
    BY <1>0 DEF Nacos!Key, Nacos!ServiceName, Nacos!ServiceGroup, ListedNow
  <2>2. View(ListedNow)' = View(ListedNow)
    BY <1>0, <2>1, ViewIsStable
  <2>3. Nacos!CurrentWhenQuiet' <=>
          (phase' = "ready" /\ events' = <<>> => shown' = {View(ListedNow)})
    BY <2>2 DEF Nacos!CurrentWhenQuiet, Nacos!Quiet, View, ListedNow
  <2>4. selector' \in Selectors /\ K' \in DOMAIN listed'
    BY <1>0, <2>1 DEF Quietness
  <2>5. \A i : Nacos!ToServiceInstances(i) = View(i)
    BY DEF View
  <2>6. CASE UNCHANGED Nacos!vars
    BY <2>1, <2>2, <2>3, <2>4, <2>6
       DEF Quietness, UpToDate, Nacos!Listening, Nacos!CurrentWhenQuiet, Nacos!Quiet,
           Nacos!vars, View, ListedNow
  <2>7. ASSUME NEW s \in Settings, Nacos!Connect(s) PROVE NacosInv'
    <3>1. Quietness'
      BY <2>4, <2>7 DEF Quietness, Nacos!Connect
    <3> QED
      BY <2>3, <2>7, <3>1 DEF UpToDate, Nacos!Connect, Nacos!Listening, Quietness
  <2>8. CASE Nacos!Subscribe
    <3>1. \E S : events' \in Seq(S)
      <4>1. events' = <<>> \/ events' = <<ListedNow>>
        BY <2>8 DEF Nacos!Subscribe, ListedNow
      <4>2. <<>> \in Seq({ListedNow}) /\ <<ListedNow>> \in Seq({ListedNow})
        OBVIOUS
      <4> QED
        BY <4>1, <4>2
    <3>2. Quietness'
      BY <2>4, <2>8, <3>1 DEF Quietness, Nacos!Subscribe
    <3>3. pending' = {} /\ phase' = "subscribed"
      BY <2>8 DEF Nacos!Subscribe, Quietness
    <3>4. events' # <<>> => events'[Len(events')] = ListedNow
      BY <2>8 DEF Nacos!Subscribe, ListedNow
    <3> QED
      BY <2>1, <2>3, <3>2, <3>3, <3>4 DEF UpToDate
  <2>9. CASE Nacos!Select
    <3>1. Quietness'
      BY <2>4, <2>9 DEF Quietness, Nacos!Select
    <3>2. fetched' = {n \in ListedNow : n.healthy} /\ phase = "subscribed" /\ phase' = "selected"
      BY <2>9 DEF Nacos!Select, ListedNow
    <3> QED
      BY <2>1, <2>2, <2>3, <2>9, <3>1, <3>2 DEF UpToDate, Nacos!Select, Nacos!Listening
  <2>10. CASE Nacos!Initialize
    <3>1. phase = "selected" /\ phase' = "ready" /\ pending' = {} /\ UNCHANGED events
      BY <2>10 DEF Nacos!Initialize
    <3>2. shown' = IF pending # {} THEN pending ELSE {View(fetched)}
      BY <2>10, <2>5 DEF Nacos!Initialize
    <3>3. Quietness'
      BY <2>4, <3>1, <3>2 DEF Quietness
    <3>4. ASSUME events = <<>> PROVE shown' = {View(ListedNow)}
      <4>1. CASE pending # {}
        BY <3>1, <3>2, <3>4, <4>1 DEF UpToDate, Nacos!Listening
      <4>2. CASE pending = {}
        BY <3>1, <3>2, <3>4, <4>2, ViewOfHealthy DEF UpToDate
      <4> QED
        BY <4>1, <4>2
    <3> QED
      BY <2>1, <2>3, <3>1, <3>3, <3>4 DEF UpToDate, Nacos!Listening
  <2>11. CASE Nacos!Event
    <3>1. PICK S : events \in Seq(S)
      BY DEF Quietness
    <3>2. events # <<>> /\ events' = Tail(events) /\ UNCHANGED <<phase, fetched>>
      BY <2>11 DEF Nacos!Event
    <3>3. \/ shown # {} /\ shown' = {View(Head(events))} /\ UNCHANGED pending
          \/ shown = {} /\ pending' = {View(Head(events))} /\ UNCHANGED shown
      BY <2>11, <2>5 DEF Nacos!Event
    <3>4. /\ events' \in Seq(S)
          /\ events' # <<>> => events'[Len(events')] = events[Len(events)]
          /\ events' = <<>> => Head(events) = events[Len(events)]
      BY <3>1, <3>2, LastEvent
    <3>5. Quietness'
      BY <2>4, <3>2, <3>3, <3>4 DEF Quietness
    <3>6. CASE ~Nacos!Listening
      BY <2>3, <3>2, <3>5, <3>6 DEF UpToDate, Nacos!Listening
    <3>7. CASE Nacos!Listening
      <4>1. events[Len(events)] = ListedNow
        BY <3>2, <3>7 DEF UpToDate
      <4>2. events' # <<>> => events'[Len(events')] = ListedNow'
        BY <2>1, <3>4, <4>1
      <4>3. events' = <<>> => Head(events) = ListedNow
        BY <3>4, <4>1
      <4>4. CASE shown # {}
        <5>1. phase = "ready" /\ shown' = {View(Head(events))} /\ pending = {} /\ pending' = {}
          BY <3>3, <3>7, <4>4 DEF Nacos!Listening, Quietness, UpToDate
        <5> QED
          BY <2>3, <3>2, <3>5, <4>2, <4>3, <5>1 DEF UpToDate
      <4>5. CASE shown = {}
        <5>1. phase \in {"subscribed", "selected"} /\ pending' = {View(Head(events))}
          BY <3>3, <3>7, <4>5 DEF Nacos!Listening, Quietness
        <5>2. pending' # {} /\ (events' = <<>> => pending' = {View(ListedNow)'})
          BY <2>2, <4>3, <5>1
        <5> QED
          BY <2>3, <3>2, <3>5, <4>2, <5>1, <5>2 DEF UpToDate
      <4> QED
        BY <4>4, <4>5
    <3> QED
      BY <3>6, <3>7
  <2>12. CASE Nacos!ActivationFails
    <3>1. Quietness'
      BY <2>4, <2>12 DEF Quietness, Nacos!ActivationFails
    <3> QED
      BY <2>3, <2>12, <3>1 DEF UpToDate, Nacos!ActivationFails, Nacos!Listening
  <2>13. CASE Nacos!Unsubscribe
    <3>1. Quietness'
      BY <2>4, <2>13 DEF Quietness, Nacos!Unsubscribe
    <3> QED
      BY <2>3, <2>13, <3>1 DEF UpToDate, Nacos!Unsubscribe, Nacos!Listening
  <2>14. CASE \E key, instances : Nacos!Changed(key, instances)
    BY <2>14, NacosChangedInv
  <2> QED
    BY <2>6, <2>7, <2>8, <2>9, <2>10, <2>11, <2>12, <2>13, <2>14
       DEF Nacos!Next, Nacos!Register, Nacos!Deregister, Nacos!ForeignRegisters, Nacos!Degrade
<1>1. CASE ~UNCHANGED <<selector, convention, listed>>
  <2>1. \E key, instances : Nacos!Changed(key, instances)
    BY <1>1 DEF Nacos!Next, Nacos!Register, Nacos!Deregister, Nacos!ForeignRegisters,
                Nacos!Degrade, Nacos!vars, Nacos!Connect, Nacos!Subscribe, Nacos!Select,
                Nacos!Initialize, Nacos!Event, Nacos!ActivationFails, Nacos!Unsubscribe
  <2> QED
    BY <2>1, NacosChangedInv
<1> QED
  BY <1>0, <1>1

\* No change at the Nacos server is lost between installing the listener, the
\* fetch and initialize, in whatever order they and the events come: with no event
\* on its way, the directory shows what the server lists.
THEOREM NacosIsCurrent == Nacos!Spec => []Nacos!CurrentWhenQuiet
<1>1. NacosInv => Nacos!CurrentWhenQuiet
  BY DEF NacosInv, UpToDate
<1> QED
  BY NacosInitInv, NacosStepInv, <1>1, PTL DEF Nacos!Spec

-----------------------------------------------------------------------------
\* What Nacos may make of an instance: as it is written, but for its health and
\* for what an operator takes away.
Variants(n) ==
  [ip : {n.ip}, port : {n.port}, weight : {n.weight, 0}, healthy : BOOLEAN, enabled : BOOLEAN,
   id : {n.id}, meta : {n.meta}, user : {n.user}]

\* What the constructors of InstanceId, ServiceEndpoint, EndpointCapabilities,
\* ServiceWeight and ServiceRegistration check.
IsEndpoint(e) ==
  /\ e = [scheme |-> e.scheme, host |-> e.host, port |-> e.port, path |-> e.path]
  /\ e.scheme \in {"http", "https"} /\ e.host # Nacos!Ipv6.bare /\ e.port \in Nacos!Ports

Capabilities == [versions : (SUBSET {"1.1", "2"}) \ {{}},
                 bindings : (SUBSET Nacos!BindingIds) \ {{}}, controls : BOOLEAN]

IsValid(r) ==
  /\ Nacos!IsInstanceId(r.id)
  /\ IsEndpoint(r.endpoint)
  /\ r.capabilities \in Capabilities
  /\ r.weight \in Nat \ {0, Infinite}
  /\ \A m \in Nacos!Merged(r.selector.metadata, r.metadata) : Nacos!IsUserKey(m[1])

\* An instance in the form of Nacos, under no id of a server.
IsForeign(n) == n \in Variants(n) /\ \A r \in Registrations : Nacos!IdOf(n) # r.id

\* The servers are what their constructors let pass, and others do not take their ids.
ValidServers == /\ \A r \in Registrations : IsValid(r)
                /\ \A n \in Foreign : IsForeign(n)

\* What was written of the instances that are listed under a name and group.
Written(key) ==
  {Nacos!BuildInstance(r) : r \in {r \in Registrations : Nacos!Key(r.selector) = key}} \cup Foreign

ListedAsWritten ==
  /\ selector \in Selectors /\ DOMAIN listed = Nacos!Keys
  /\ \A key \in Nacos!Keys : \A n \in listed[key] : \E m \in Written(key) : n \in Variants(m)

\* An instance stays one of its variants, whatever is done to it.
LEMMA VariantsAreClosed ==
  ASSUME NEW m, NEW n \in Variants(m)
  PROVE  /\ [n EXCEPT !.healthy = ~@] \in Variants(m)
         /\ [n EXCEPT !.enabled = FALSE] \in Variants(m)
         /\ [n EXCEPT !.weight = 0] \in Variants(m)
<1>1. [n EXCEPT !.healthy = ~@] \in Variants(m)
  BY DEF Variants
<1>2. [n EXCEPT !.enabled = FALSE] \in Variants(m)
  BY DEF Variants
<1>3. [n EXCEPT !.weight = 0] \in Variants(m)
  BY DEF Variants
<1> QED
  BY <1>1, <1>2, <1>3

\* The instance of a registration is an instance of Nacos.
LEMMA BuiltIsVariant ==
  ASSUME NEW r
  PROVE  Nacos!BuildInstance(r) \in Variants(Nacos!BuildInstance(r))
BY DEF Nacos!BuildInstance, Variants

LEMMA ListedInit == Nacos!Init => ListedAsWritten
<1> SUFFICES ASSUME Nacos!Init PROVE ListedAsWritten
  OBVIOUS
<1>1. /\ selector \in Selectors /\ DOMAIN listed = Nacos!Keys
      /\ \A key \in Nacos!Keys : listed[key] = {}
  BY DEF Nacos!Init
<1> QED
  BY <1>1 DEF ListedAsWritten

\* A change keeps that, if whatever it adds was written.
LEMMA ListedChanged ==
  ASSUME ListedAsWritten, NEW key \in Nacos!Keys, NEW instances, Nacos!Changed(key, instances),
         \A n \in instances : n \in listed[key] \/ \E m \in Written(key) : n \in Variants(m)
  PROVE  ListedAsWritten'
<1>1. /\ selector' = selector
      /\ listed' = [listed EXCEPT ![key] = instances]
  BY DEF Nacos!Changed
<1>2. DOMAIN listed' = Nacos!Keys
  BY <1>1 DEF ListedAsWritten
<1>3. ASSUME NEW k \in Nacos!Keys, NEW n \in listed'[k]
      PROVE  \E m \in Written(k) : n \in Variants(m)
  BY <1>1, <1>3 DEF ListedAsWritten
<1> QED
  BY <1>1, <1>2, <1>3 DEF ListedAsWritten

LEMMA ListedStep ==
  ASSUME ValidServers
  PROVE  ListedAsWritten /\ [Nacos!Next]_(Nacos!vars) => ListedAsWritten'
<1> SUFFICES ASSUME ListedAsWritten, [Nacos!Next]_(Nacos!vars) PROVE ListedAsWritten'
  OBVIOUS
<1>1. ASSUME NEW r \in Registrations, Nacos!Register(r) PROVE ListedAsWritten'
  <2> DEFINE key == Nacos!Key(r.selector)
             n == Nacos!BuildInstance(r)
  <2>1. key \in Nacos!Keys /\ n \in Written(key) /\ n \in Variants(n)
    BY BuiltIsVariant DEF Nacos!Keys, Written
  <2>2. \A m \in Nacos!Others(key, n) \cup {n} : m \in listed[key] \/ m = n
    BY DEF Nacos!Others
  <2>3. Nacos!Changed(key, Nacos!Others(key, n) \cup {n})
    BY <1>1, Zenon DEF Nacos!Register
  <2> HIDE DEF key, n
  <2> QED
    BY <2>1, <2>2, <2>3, ListedChanged
<1>2. ASSUME NEW r \in Registrations, Nacos!Deregister(r) PROVE ListedAsWritten'
  <2> DEFINE key == Nacos!Key(r.selector)
             n == Nacos!BuildInstance(r)
  <2>1. key \in Nacos!Keys
    BY DEF Nacos!Keys
  <2>2. \A m \in Nacos!Others(key, n) : m \in listed[key]
    BY DEF Nacos!Others
  <2>3. Nacos!Changed(key, Nacos!Others(key, n))
    BY <1>2, Zenon DEF Nacos!Deregister
  <2> HIDE DEF key, n
  <2> QED
    BY <2>1, <2>2, <2>3, ListedChanged
<1>3. ASSUME NEW n \in Foreign, Nacos!ForeignRegisters(n) PROVE ListedAsWritten'
  <2> DEFINE key == Nacos!Key(selector)
  <2>1. key \in Nacos!Keys
    BY DEF Nacos!Keys, ListedAsWritten
  <2>4. n \in Written(key)
    BY Zenon DEF Written
  <2>5. n \in Variants(n)
    BY Zenon DEF ValidServers, IsForeign
  <2>2. \A m \in Nacos!Others(key, n) \cup {n} : m \in listed[key] \/ m = n
    BY DEF Nacos!Others
  <2>3. Nacos!Changed(key, Nacos!Others(key, n) \cup {n})
    BY <1>3, Zenon DEF Nacos!ForeignRegisters
  <2> HIDE DEF key
  <2> QED
    BY <2>1, <2>2, <2>3, <2>4, <2>5, ListedChanged
<1>4. CASE Nacos!Degrade
  <2>1. PICK key \in Nacos!Keys :
          \E n \in listed[key] :
            \E m \in {[n EXCEPT !.healthy = ~@], [n EXCEPT !.enabled = FALSE],
                      [n EXCEPT !.weight = 0]} :
              Nacos!Changed(key, Nacos!Others(key, n) \cup {m})
    BY <1>4, Zenon DEF Nacos!Degrade
  <2>2. PICK n \in listed[key] :
          \E m \in {[n EXCEPT !.healthy = ~@], [n EXCEPT !.enabled = FALSE],
                    [n EXCEPT !.weight = 0]} :
            Nacos!Changed(key, Nacos!Others(key, n) \cup {m})
    BY <2>1, Zenon
  <2>3. PICK m \in {[n EXCEPT !.healthy = ~@], [n EXCEPT !.enabled = FALSE],
                    [n EXCEPT !.weight = 0]} :
          Nacos!Changed(key, Nacos!Others(key, n) \cup {m})
    BY <2>2, Zenon
  <2>4. PICK w \in Written(key) : n \in Variants(w)
    BY DEF ListedAsWritten
  <2>5. m \in Variants(w)
    BY <2>4, VariantsAreClosed
  <2>6. \A o \in Nacos!Others(key, n) \cup {m} : o \in listed[key] \/ o = m
    BY DEF Nacos!Others
  <2> QED
    BY <2>3, <2>4, <2>5, <2>6, ListedChanged
<1>5. CASE UNCHANGED <<selector, listed>>
  BY <1>5 DEF ListedAsWritten
<1> QED
  BY <1>1, <1>2, <1>3, <1>4, <1>5
     DEF Nacos!Next, Nacos!vars, Nacos!Connect, Nacos!Subscribe, Nacos!Select,
         Nacos!Initialize, Nacos!Event, Nacos!ActivationFails, Nacos!Unsubscribe

-----------------------------------------------------------------------------
\* What is written of the bindings and of the versions is read as it was.
LEMMA BindingsRoundTrip ==
  ASSUME NEW b \in (SUBSET Nacos!BindingIds) \ {{}}
  PROVE  Nacos!DecodeBindings(Nacos!EncodeBindings(b)) = {b}
<1> DEFINE e == Nacos!EncodeBindings(b)
<1>1. b = {"http-json-v1"} \/ b = {"vendor-v1"} \/ b = {"http-json-v1", "vendor-v1"}
  BY DEF Nacos!BindingIds
<1>2. Nacos!ToSet(e) = b /\ Nacos!IsInjective(e)
  BY <1>1 DEF Nacos!EncodeBindings, Nacos!ToSet, Nacos!IsInjective
<1> QED
  BY <1>2 DEF Nacos!DecodeBindings

LEMMA VersionsRoundTrip ==
  ASSUME NEW v \in (SUBSET {"1.1", "2"}) \ {{}}
  PROVE  Nacos!DecodeHttpVersions(Nacos!EncodeHttpVersions(v)) = {v}
<1> DEFINE e == Nacos!EncodeHttpVersions(v)
<1>1. v = {"1.1"} \/ v = {"2"} \/ v = {"1.1", "2"}
  OBVIOUS
<1>2. Nacos!ToSet(e) = v /\ Nacos!IsInjective(e)
  BY <1>1 DEF Nacos!EncodeHttpVersions, Nacos!ToSet, Nacos!IsInjective
<1> QED
  BY <1>2 DEF Nacos!DecodeHttpVersions

\* The fields of what is written of a registration.
LEMMA BuiltFields ==
  ASSUME NEW r
  PROVE  LET n == Nacos!BuildInstance(r) IN
         /\ n.ip = Nacos!Unbracketed(r.endpoint.host) /\ n.port = r.endpoint.port
         /\ n.weight = r.weight /\ n.healthy = TRUE /\ n.enabled = TRUE /\ n.id = {r.id}
         /\ n.user = Nacos!Merged(r.selector.metadata, r.metadata)
         /\ n.meta.scheme = {r.endpoint.scheme} /\ n.meta.service = {r.selector.service}
         /\ n.meta.id = {r.id}
         /\ n.meta.bindings = {Nacos!EncodeBindings(r.capabilities.bindings)}
         /\ n.meta.versions = {Nacos!EncodeHttpVersions(r.capabilities.versions)}
         /\ n.meta.controls = (IF r.capabilities.controls THEN {"v1"} ELSE {})
         /\ n.meta.path = (IF r.endpoint.path = <<>> THEN {} ELSE {r.endpoint.path})
         /\ n.meta.version = r.selector.version
BY DEF Nacos!BuildInstance

\* The capabilities of a server are read as it wrote them.
LEMMA CapabilitiesRoundTrip ==
  ASSUME NEW r, IsValid(r)
  PROVE  Nacos!DecodeCapabilities(Nacos!BuildInstance(r).meta) = {r.capabilities}
<1> DEFINE c == r.capabilities
           meta == Nacos!BuildInstance(r).meta
<1>0. c \in Capabilities
  BY Zenon DEF IsValid
<1>1. /\ c.versions \in (SUBSET {"1.1", "2"}) \ {{}}
      /\ c.bindings \in (SUBSET Nacos!BindingIds) \ {{}} /\ c.controls \in BOOLEAN
      /\ c = [versions |-> c.versions, bindings |-> c.bindings, controls |-> c.controls]
  <2> HIDE DEF c
  <2> QED
    BY <1>0 DEF Capabilities
<1>2. /\ meta.bindings = {Nacos!EncodeBindings(c.bindings)}
      /\ meta.versions = {Nacos!EncodeHttpVersions(c.versions)}
      /\ meta.controls = IF c.controls THEN {"v1"} ELSE {}
  BY BuiltFields
<1>3. /\ Nacos!DecodeBindings(Nacos!EncodeBindings(c.bindings)) = {c.bindings}
      /\ Nacos!DecodeHttpVersions(Nacos!EncodeHttpVersions(c.versions)) = {c.versions}
  BY <1>1, BindingsRoundTrip, VersionsRoundTrip
<1>4. /\ UNION {Nacos!DecodeHttpVersions(t) : t \in meta.versions} = {c.versions}
      /\ UNION {Nacos!DecodeBindings(t) :
                  t \in {t \in meta.bindings : meta.controls \subseteq {"v1"}}} = {c.bindings}
  BY <1>2, <1>3
<1>5. (meta.controls = {"v1"}) = c.controls
  BY <1>1, <1>2
<1>6. ~(meta.bindings = {} /\ meta.versions = {} /\ meta.controls = {})
  BY <1>2
<1> HIDE DEF c, meta
<1>7. Nacos!DecodeCapabilities(meta) =
        {[versions |-> v, bindings |-> b, controls |-> c.controls] :
           v \in {c.versions}, b \in {c.bindings}}
  BY <1>4, <1>5, <1>6 DEF Nacos!DecodeCapabilities
<1> QED
  BY <1>1, <1>7 DEF c, meta

\* The id of a server is read as it wrote it.
LEMMA IdRoundTrip ==
  ASSUME NEW r, IsValid(r)
  PROVE  Nacos!IdOf(Nacos!BuildInstance(r)) = r.id
<1> DEFINE n == Nacos!BuildInstance(r)
<1>1. n.meta.id = {r.id} /\ Nacos!IsInstanceId(r.id)
  BY BuiltFields, Zenon DEF IsValid
<1> HIDE DEF n
<1>2. (CHOOSE id \in {r.id} : TRUE) = r.id
  OBVIOUS
<1> QED
  BY <1>1, <1>2 DEF Nacos!IdOf, n

\* The scheme of a server can be used, unless its path cannot be read.
LEMMA SchemeRoundTrip ==
  ASSUME NEW r, IsValid(r)
  PROVE  Nacos!UsableSchemes(Nacos!BuildInstance(r)) =
           IF Nacos!IsReadable(r.endpoint.path) THEN {r.endpoint.scheme} ELSE {}
<1> DEFINE n == Nacos!BuildInstance(r)
           segments == UNION {Nacos!ToSet(p) : p \in n.meta.path}
<1>1. /\ n.port = r.endpoint.port /\ n.weight = r.weight
      /\ n.user = Nacos!Merged(r.selector.metadata, r.metadata)
      /\ n.meta.scheme = {r.endpoint.scheme}
      /\ n.meta.path = IF r.endpoint.path = <<>> THEN {} ELSE {r.endpoint.path}
  BY BuiltFields
<1>2. r.endpoint.scheme \in {"http", "https"} /\ r.endpoint.port \in Nacos!Ports
      /\ r.weight # Infinite
  <2>1. IsEndpoint(r.endpoint) /\ r.weight \in Nat \ {0, Infinite}
    BY Zenon DEF IsValid
  <2> QED
    BY <2>1 DEF IsEndpoint
<1>3. \A m \in n.user : Nacos!IsUserKey(m[1])
  BY <1>1, Zenon DEF IsValid
<1>4. segments = Nacos!ToSet(r.endpoint.path)
  <2>1. CASE r.endpoint.path = <<>>
    BY <1>1, <2>1 DEF Nacos!ToSet
  <2>2. CASE r.endpoint.path # <<>>
    BY <1>1, <2>2
  <2> QED
    BY <2>1, <2>2
<1> HIDE DEF n
<1>5. (\A p \in segments : Nacos!DecodeSegment(p) # {}) <=> Nacos!IsReadable(r.endpoint.path)
  BY <1>4 DEF Nacos!IsReadable
<1>6. n.port \in Nacos!Ports /\ n.weight # Infinite
  BY <1>1, <1>2
<1>7. (IF n.meta.scheme = {} THEN {"http"} ELSE n.meta.scheme) \cap {"http", "https"}
        = {r.endpoint.scheme}
  BY <1>1, <1>2
<1>8. Nacos!UsableSchemes(n) =
        {s \in (IF n.meta.scheme = {} THEN {"http"} ELSE n.meta.scheme) \cap {"http", "https"} :
           /\ n.port \in Nacos!Ports
           /\ \A p \in segments : Nacos!DecodeSegment(p) # {}
           /\ n.weight # Infinite
           /\ \A m \in n.user : Nacos!IsUserKey(m[1])}
  BY Zenon DEF Nacos!UsableSchemes
<1> HIDE DEF segments
<1>9. Nacos!UsableSchemes(n) = {s \in {r.endpoint.scheme} : Nacos!IsReadable(r.endpoint.path)}
  BY <1>3, <1>5, <1>6, <1>7, <1>8, Zenon
<1> HIDE DEF Nacos!IsReadable
<1> QED
  BY <1>9 DEF n

\* What a client makes of the instance of a server is what it is to be told.
LEMMA ServerRoundTrip ==
  ASSUME NEW r, IsValid(r)
  PROVE  Nacos!ToServiceInstance(Nacos!BuildInstance(r)) =
           IF Nacos!IsReadable(r.endpoint.path) THEN {Nacos!Told(r)} ELSE {}
<1> DEFINE n == Nacos!BuildInstance(r)
           e == r.endpoint
           written == IF n.meta.path = {} THEN <<>> ELSE CHOOSE p \in n.meta.path : TRUE
<1>1. IsEndpoint(e)
  BY Zenon DEF IsValid
<1>2. Nacos!Bracketed(n.ip) = e.host
  <2>1. n.ip = Nacos!Unbracketed(e.host)
    BY BuiltFields, Zenon
  <2>2. e.host # Nacos!Ipv6.bare
    BY <1>1, Zenon DEF IsEndpoint
  <2> HIDE DEF n, e
  <2> QED
    BY <2>1, <2>2 DEF Nacos!Bracketed, Nacos!Unbracketed
<1>3. written = e.path
  <2>1. n.meta.path = IF e.path = <<>> THEN {} ELSE {e.path}
    BY BuiltFields
  <2>2. (CHOOSE p \in {e.path} : TRUE) = e.path
    OBVIOUS
  <2> HIDE DEF n, e
  <2> QED
    BY <2>1, <2>2
<1>4. [scheme |-> e.scheme, host |-> e.host, port |-> e.port, path |-> Nacos!PathOf(e.path)]
        = [e EXCEPT !.path = Nacos!PathOf(@)]
  <2> HIDE DEF e
  <2>1. \A p : [scheme |-> e.scheme, host |-> e.host, port |-> e.port, path |-> p]
                 = [e EXCEPT !.path = p]
    BY <1>1 DEF IsEndpoint
  <2> QED
    BY <2>1
<1>5. /\ Nacos!IdOf(n) = r.id /\ n.port = e.port /\ n.weight = r.weight
      /\ n.user = Nacos!Merged(r.selector.metadata, r.metadata)
  BY IdRoundTrip, BuiltFields
<1> HIDE DEF n, e
<1>6. Nacos!InstanceOf(n, e.scheme, r.capabilities) = Nacos!Told(r)
  BY <1>2, <1>3, <1>4, <1>5 DEF Nacos!InstanceOf, Nacos!Told, e
<1>7. /\ Nacos!UsableSchemes(n) = IF Nacos!IsReadable(e.path) THEN {e.scheme} ELSE {}
      /\ Nacos!DecodeCapabilities(n.meta) = {r.capabilities}
  BY SchemeRoundTrip, CapabilitiesRoundTrip DEF n, e
<1> QED
  BY <1>6, <1>7 DEF n, e, Nacos!ToServiceInstance

-----------------------------------------------------------------------------
\* A variant of what a server wrote that Nacos takes for usable is what it wrote.
LEMMA UsableVariant ==
  ASSUME NEW r, NEW n \in Variants(Nacos!BuildInstance(r)),
         n.healthy, n.enabled, n.weight > 0
  PROVE  n = Nacos!BuildInstance(r)
<1> DEFINE m == Nacos!BuildInstance(r)
<1>1. /\ m.healthy = TRUE /\ m.enabled = TRUE
      /\ m = [ip |-> m.ip, port |-> m.port, weight |-> m.weight, healthy |-> m.healthy,
              enabled |-> m.enabled, id |-> m.id, meta |-> m.meta, user |-> m.user]
  BY DEF Nacos!BuildInstance
<1> HIDE DEF m
<1>2. /\ n = [ip |-> m.ip, port |-> m.port, weight |-> n.weight, healthy |-> n.healthy,
              enabled |-> n.enabled, id |-> m.id, meta |-> m.meta, user |-> m.user]
      /\ n.weight \in {m.weight, 0} /\ n.healthy \in BOOLEAN /\ n.enabled \in BOOLEAN
  <2>1. n \in Variants(m)
    BY DEF m
  <2> QED
    BY <2>1 DEF Variants
<1>3. n.weight = m.weight
  <2>1. ~(0 > 0)
    OBVIOUS
  <2> QED
    BY <1>2, <2>1, Zenon
<1>4. n.healthy = TRUE /\ n.enabled = TRUE
  BY <1>2, Zenon
<1> QED
  BY <1>1, <1>2, <1>3, <1>4, Zenon DEF m

\* A server is found if, and only if, what it wrote is listed, under the service, the
\* group and the version of the client.
LEMMA ServersInView ==
  ASSUME ValidServers, ListedAsWritten, NEW i
  PROVE  (i \in View(ListedNow) /\ \E r \in Registrations : i.id = r.id)
           <=> \E r \in Registrations :
                 /\ Nacos!BuildInstance(r) \in listed[Nacos!Key(r.selector)]
                 /\ Nacos!SameIdentity(r.selector, selector)
                 /\ Nacos!IsReadable(r.endpoint.path)
                 /\ i = Nacos!Told(r)
<1> DEFINE Served(r) == /\ Nacos!BuildInstance(r) \in listed[Nacos!Key(r.selector)]
                        /\ Nacos!SameIdentity(r.selector, selector)
                        /\ Nacos!IsReadable(r.endpoint.path)
                        /\ i = Nacos!Told(r)
<1>1. \A n : Nacos!MatchesSelector(n) <=>
        /\ n.meta.version = selector.version
        /\ IF n.meta.service = {} THEN convention = "SpringCloud"
           ELSE n.meta.service = {selector.service}
  BY Zenon DEF Nacos!MatchesSelector
<1>2. \A r : Nacos!SameIdentity(r.selector, selector)
               <=> /\ Nacos!Key(r.selector) = Nacos!Key(selector)
                   /\ Nacos!MatchesSelector(Nacos!BuildInstance(r))
  <2> SUFFICES ASSUME NEW r
               PROVE  Nacos!SameIdentity(r.selector, selector)
                        <=> /\ Nacos!Key(r.selector) = Nacos!Key(selector)
                            /\ Nacos!MatchesSelector(Nacos!BuildInstance(r))
    OBVIOUS
  <2>1. /\ Nacos!BuildInstance(r).meta.version = r.selector.version
        /\ Nacos!BuildInstance(r).meta.service = {r.selector.service}
    BY BuiltFields, Zenon
  <2>2. Nacos!MatchesSelector(Nacos!BuildInstance(r))
          <=> r.selector.version = selector.version /\ r.selector.service = selector.service
    BY <1>1, <2>1
  <2>3. Nacos!Key(r.selector) = Nacos!Key(selector)
          <=> /\ r.selector.service = selector.service
              /\ Nacos!ServiceGroup(r.selector) = Nacos!ServiceGroup(selector)
    BY DEF Nacos!Key, Nacos!ServiceName
  <2> QED
    BY <2>2, <2>3, Zenon DEF Nacos!SameIdentity
<1>3. i \in View(ListedNow) <=>
        \E n \in ListedNow : /\ n.healthy /\ n.enabled /\ n.weight > 0
                             /\ Nacos!MatchesSelector(n) /\ i \in Nacos!ToServiceInstance(n)
  BY DEF View, Nacos!ToServiceInstances
<1>4. Nacos!Key(selector) \in Nacos!Keys
  BY DEF ListedAsWritten, Nacos!Keys
<1>5. \A r \in Registrations :
        Nacos!ToServiceInstance(Nacos!BuildInstance(r)) =
          IF Nacos!IsReadable(r.endpoint.path) THEN {Nacos!Told(r)} ELSE {}
  BY ServerRoundTrip DEF ValidServers
<1>6. ASSUME i \in View(ListedNow), NEW s \in Registrations, i.id = s.id
      PROVE  \E r \in Registrations : Served(r)
  <2>1. PICK n \in ListedNow : /\ n.healthy /\ n.enabled /\ n.weight > 0
                               /\ Nacos!MatchesSelector(n) /\ i \in Nacos!ToServiceInstance(n)
    BY <1>3, <1>6, Zenon
  <2>2. PICK m \in Written(Nacos!Key(selector)) : n \in Variants(m)
    BY <1>4 DEF ListedAsWritten, ListedNow
  <2>3. i.id = Nacos!IdOf(n)
    BY <2>1 DEF Nacos!ToServiceInstance, Nacos!InstanceOf
  <2>4. Nacos!IdOf(n) = Nacos!IdOf(m)
    <3>1. n.ip = m.ip /\ n.id = m.id /\ n.meta = m.meta
      BY <2>2 DEF Variants
    <3> QED
      BY <3>1 DEF Nacos!IdOf
  <2>5. m \notin Foreign
    BY <1>6, <2>3, <2>4, Zenon DEF ValidServers, IsForeign
  <2>6. PICK r \in Registrations :
          Nacos!Key(r.selector) = Nacos!Key(selector) /\ m = Nacos!BuildInstance(r)
    BY <2>5 DEF Written
  <2>7. n = Nacos!BuildInstance(r)
    BY <2>1, <2>2, <2>6, UsableVariant
  <2>8. Nacos!SameIdentity(r.selector, selector)
    BY <1>2, <2>1, <2>6, <2>7, Zenon
  <2>9. Nacos!IsReadable(r.endpoint.path) /\ i = Nacos!Told(r)
    BY <1>5, <2>1, <2>7
  <2> QED
    BY <2>6, <2>7, <2>8, <2>9, Zenon DEF ListedNow
<1>7. ASSUME NEW r \in Registrations, Served(r)
      PROVE  i \in View(ListedNow) /\ i.id = r.id
  <2> DEFINE n == Nacos!BuildInstance(r)
  <2>1. Nacos!Key(r.selector) = Nacos!Key(selector) /\ Nacos!MatchesSelector(n)
    BY <1>2, <1>7, Zenon
  <2>2. n \in ListedNow
    BY <1>7, <2>1, Zenon DEF ListedNow
  <2>3. n.healthy /\ n.enabled /\ n.weight > 0
    <3>1. n.healthy = TRUE /\ n.enabled = TRUE /\ n.weight = r.weight
      BY BuiltFields, Zenon
    <3>2. r.weight \in Nat \ {0, Infinite}
      BY Zenon DEF ValidServers, IsValid
    <3> HIDE DEF n
    <3> QED
      BY <3>1, <3>2
  <2>4. i \in Nacos!ToServiceInstance(n)
    BY <1>5, <1>7
  <2>5. i.id = r.id
    BY <1>7 DEF Nacos!Told
  <2> HIDE DEF n
  <2> QED
    BY <1>3, <2>1, <2>2, <2>3, <2>4, <2>5, Zenon
<1> QED
  BY <1>6, <1>7, Zenon

\* So the directory is as it should be whenever it is up to date.
LEMMA FoundWhenCurrent ==
  ASSUME ValidServers, ListedAsWritten, Nacos!CurrentWhenQuiet
  PROVE  Nacos!FoundAsRegistered
<1> DEFINE served == {r \in Registrations :
                        Nacos!BuildInstance(r) \in listed[Nacos!Key(r.selector)]}
           ids == {r.id : r \in Registrations}
           told == {Nacos!Told(r) : r \in {r \in served :
                      /\ Nacos!SameIdentity(r.selector, selector)
                      /\ Nacos!IsReadable(r.endpoint.path)}}
<1>1. ASSUME NEW i
      PROVE  i \in {j \in View(ListedNow) : j.id \in ids} <=> i \in told
  <2>1. i.id \in ids <=> \E r \in Registrations : i.id = r.id
    OBVIOUS
  <2>2. i \in told <=> \E r \in Registrations :
                 /\ Nacos!BuildInstance(r) \in listed[Nacos!Key(r.selector)]
                 /\ Nacos!SameIdentity(r.selector, selector)
                 /\ Nacos!IsReadable(r.endpoint.path)
                 /\ i = Nacos!Told(r)
    OBVIOUS
  <2> HIDE DEF ids, told
  <2> QED
    BY <2>1, <2>2, ServersInView
<1> HIDE DEF ids, told
<1>2. {j \in View(ListedNow) : j.id \in ids} = told
  BY <1>1
<1>3. Nacos!Quiet => shown = {View(ListedNow)}
  BY Zenon DEF Nacos!CurrentWhenQuiet, View, ListedNow
<1>4. Nacos!Quiet => \A instances \in shown : {j \in instances : j.id \in ids} = told
  BY <1>2, <1>3
<1> QED
  BY <1>4, Zenon DEF Nacos!FoundAsRegistered, ids, told

\* Servers are found as they registered, by the clients of their service, group and
\* version and by no others, through everything that happens between them: the
\* encoding into an instance of Nacos and back, its list and its health, and the race
\* of listener, fetch and initialize (register.rs).
THEOREM ServersAreFoundAsRegistered ==
  ASSUME ValidServers
  PROVE  Nacos!Spec => []Nacos!FoundAsRegistered
<1>1. ListedAsWritten /\ [Nacos!Next]_(Nacos!vars) => ListedAsWritten'
  BY ListedStep
<1>2. ListedAsWritten /\ Nacos!CurrentWhenQuiet => Nacos!FoundAsRegistered
  BY FoundWhenCurrent
<1> QED
  BY ListedInit, NacosIsCurrent, <1>1, <1>2, PTL DEF Nacos!Spec
=============================================================================
