--------------------------- MODULE HotConfigProofs ---------------------------
(***************************************************************************)
(* Proofs about HotConfig for every set of holders and viewers and every   *)
(* number of versions.                                                     *)
(*                                                                         *)
(* The inductive invariant says which results the worker's place implies   *)
(* (Ownership), that nobody has a document the resource never had (Known), *)
(* and how a view relates to the channel it follows, also while its task   *)
(* parses (Following).                                                     *)
(*                                                                         *)
(* The second part is about Assembly, the configuration of clients and     *)
(* servers and what is built of it.                                        *)
(***************************************************************************)
EXTENDS HotConfig, SequenceTheorems, TLAPS

Snapshots == [doc : Nat, closed : BOOLEAN, revision : Nat]
Views == [task : {"none", "waiting", "parsing", "ended", "orphaned"}, seen : Nat,
          doc : Nat, error : BOOLEAN, buffer : Nat]

SourceType ==
  /\ kinds \in Seq(Kinds)
  /\ listening \in BOOLEAN
  /\ notified \in Nat

LifecycleType ==
  /\ start \in {"prepared", "started", "finished"}
  /\ closeRequested \in BOOLEAN
  /\ closeSignal \in BOOLEAN
  /\ activation \in {"none", "ok", "failed", "cancelled", "aborted"}
  /\ closing \in {"none", "ok", "failed", "aborted"}

WorkerType ==
  /\ wpc \in {"none", "adding", "getting", "settling", "settled", "cleaning", "ended"}
  /\ fetched \in {"none", "ok", "failed"}

PublisherType == baseline \in Nat /\ raw \in Snapshots

UserType ==
  /\ upc \in [Users -> {"idle", "activating", "swap", "send", "lock", "closing", "gone"}]
  /\ intent \in [Users -> {"none", "close", "drop"}]

ViewType == view \in [Viewers -> Views]

TypeOK ==
  SourceType /\ LifecycleType /\ WorkerType /\ PublisherType /\ UserType /\ ViewType

\* The results that the lifecycle's place implies.
Ownership ==
  /\ start = "prepared" => wpc = "none" /\ activation = "none" /\ closing = "none"
  /\ start = "finished" => wpc = "none" /\ activation # "none" /\ closing # "none"
  /\ start = "started" => wpc # "none"
  /\ wpc \in {"adding", "getting", "settling"} => activation = "none" /\ closing = "none"
  /\ wpc \in {"settled", "cleaning"} => activation # "none" /\ closing = "none"
  /\ wpc = "ended" => activation # "none" /\ closing # "none"
  /\ wpc = "settling" => fetched # "none"

\* Every document is of a version that the resource has had.
Known ==
  /\ notified <= Len(kinds)
  /\ baseline <= Len(kinds)
  /\ raw.doc <= Len(kinds)
  /\ \A u \in Viewers : view[u].doc <= Len(kinds) /\ view[u].buffer <= Len(kinds)

\* A view never is ahead of the channel; its value is good; and a task that parses
\* has what is in the channel, or will find a newer one.
Follows(u) ==
  LET v == view[u] IN
  /\ v.seen <= raw.revision
  /\ v.task # "none" => Good(v.doc)
  /\ v.task = "parsing" /\ v.seen = raw.revision /\ ~raw.closed => v.buffer = raw.doc
  /\ v.task = "waiting" /\ v.seen = raw.revision /\ ~raw.closed =>
       IF Good(raw.doc) THEN v.doc = raw.doc /\ ~v.error ELSE v.error

Following == \A u \in Viewers : Follows(u)

Inv == TypeOK /\ Ownership /\ Known /\ Following

-----------------------------------------------------------------------------
(***************************************************************************)
(* Types                                                                   *)
(***************************************************************************)

\* A group of variables keeps its types when none of them changes.
LEMMA Untouched ==
  ASSUME TypeOK
  PROVE  /\ UNCHANGED sourceVars => SourceType'
         /\ UNCHANGED lifecycleVars => LifecycleType'
         /\ UNCHANGED workerVars => WorkerType'
         /\ UNCHANGED publisherVars => PublisherType'
         /\ UNCHANGED userVars => UserType'
         /\ UNCHANGED view => ViewType'
<1>1. UNCHANGED sourceVars => SourceType'
  BY DEF TypeOK, SourceType, sourceVars
<1>2. UNCHANGED lifecycleVars => LifecycleType'
  BY DEF TypeOK, LifecycleType, lifecycleVars
<1>3. UNCHANGED workerVars => WorkerType'
  BY DEF TypeOK, WorkerType, workerVars
<1>4. UNCHANGED publisherVars => PublisherType'
  BY DEF TypeOK, PublisherType, publisherVars
<1>5. UNCHANGED userVars => UserType'
  BY DEF TypeOK, UserType, userVars
<1>6. UNCHANGED view => ViewType'
  BY DEF TypeOK, ViewType
<1>7. QED
  BY <1>1, <1>2, <1>3, <1>4, <1>5, <1>6

\* The groups together.
LEMMA TypeParts ==
  ASSUME SourceType', LifecycleType', WorkerType', PublisherType', UserType', ViewType'
  PROVE  TypeOK'
BY DEF TypeOK

\* The publisher's operations keep a snapshot in the channel.
LEMMA PublisherTypes ==
  ASSUME TypeOK
  PROVE  /\ \A d \in Nat : Publish(d) => PublisherType'
         /\ \A d \in Nat : PublishInitial(d) => PublisherType'
         /\ Finished(raw) \in Snapshots
<1>1. raw \in Snapshots /\ baseline \in Nat
  BY DEF TypeOK, PublisherType
<1>2. \A d \in Nat : Replaced(raw, d) \in Snapshots
  BY <1>1 DEF Replaced, Snapshots
<1>3. ASSUME NEW d \in Nat, Publish(d) PROVE PublisherType'
  BY <1>1, <1>2, <1>3 DEF Publish, publisherVars, PublisherType
<1>4. ASSUME NEW d \in Nat, PublishInitial(d) PROVE PublisherType'
  BY <1>1, <1>2, <1>4 DEF PublishInitial, publisherVars, PublisherType
<1>5. Finished(raw) \in Snapshots
  <2>1. raw.revision + 1 \in Nat
    BY <1>1 DEF Snapshots
  <2>2. QED
    BY <1>1, <2>1 DEF Finished, Snapshots
<1>6. QED
  BY <1>3, <1>4, <1>5

\* The steps of the source and of the worker.
LEMMA WorkerTypes ==
  ASSUME TypeOK, ResourceChanges \/ Notify \/ Provider \/ Worker \/ Abort
  PROVE  TypeOK'
<1>1. CASE ResourceChanges
  <2>1. SourceType'
    BY <1>1 DEF ResourceChanges, TypeOK, SourceType
  <2>2. QED
    BY <1>1, <2>1, Untouched, TypeParts DEF ResourceChanges
<1>2. CASE Notify
  <2>1. SourceType'
    BY <1>2 DEF Notify, TypeOK, SourceType
  <2>2. Len(kinds) \in Nat
    BY DEF TypeOK, SourceType
  <2>3. PublisherType'
    BY <1>2, <2>2, PublisherTypes, Untouched DEF Notify
  <2>4. QED
    BY <1>2, <2>1, <2>3, Untouched, TypeParts DEF Notify
<1>3. CASE AddListener
  <2>1. SourceType'
    BY <1>3 DEF AddListener, TypeOK, SourceType
  <2>2. WorkerType'
    BY <1>3 DEF AddListener, TypeOK, WorkerType
  <2>3. QED
    BY <1>3, <2>1, <2>2, Untouched, TypeParts DEF AddListener
<1>4. CASE Get
  <2>1. WorkerType'
    BY <1>4 DEF Get, TypeOK, WorkerType
  <2>2. \A v \in 1 .. Len(kinds) : v \in Nat
    BY DEF TypeOK, SourceType
  <2>3. PublisherType'
    BY <1>4, <2>2, PublisherTypes, Untouched DEF Get
  <2>4. QED
    BY <1>4, <2>1, <2>3, Untouched, TypeParts DEF Get
<1>5. CASE FinishCleanup
  <2>1. SourceType'
    BY <1>5 DEF FinishCleanup, TypeOK, SourceType
  <2>2. LifecycleType'
    BY <1>5 DEF FinishCleanup, TypeOK, LifecycleType
  <2>3. WorkerType'
    BY <1>5 DEF FinishCleanup, TypeOK, WorkerType
  <2>4. PublisherType'
    BY <1>5, PublisherTypes DEF FinishCleanup, TypeOK, PublisherType
  <2>5. QED
    BY <1>5, <2>1, <2>2, <2>3, <2>4, Untouched, TypeParts DEF FinishCleanup
<1>6. CASE PublishActivation
  <2>1. LifecycleType'
    BY <1>6 DEF PublishActivation, TypeOK, LifecycleType, WorkerType
  <2>2. WorkerType'
    BY <1>6 DEF PublishActivation, TypeOK, WorkerType
  <2>3. QED
    BY <1>6, <2>1, <2>2, Untouched, TypeParts DEF PublishActivation
<1>7. CASE StartCleanup
  <2>1. WorkerType'
    BY <1>7 DEF StartCleanup, TypeOK, WorkerType
  <2>2. QED
    BY <1>7, <2>1, Untouched, TypeParts DEF StartCleanup
<1>8. CASE Abort
  <2>1. LifecycleType'
    BY <1>8 DEF Abort, TypeOK, LifecycleType
  <2>2. WorkerType'
    BY <1>8 DEF Abort, TypeOK, WorkerType
  <2>3. PublisherType'
    BY <1>8, PublisherTypes DEF Abort, TypeOK, PublisherType
  <2>4. QED
    BY <1>8, <2>1, <2>2, <2>3, Untouched, TypeParts DEF Abort
<1>9. QED
  BY <1>1, <1>2, <1>3, <1>4, <1>5, <1>6, <1>7, <1>8 DEF Provider, Worker

\* The steps of the holders of the handle.
LEMMA UserTypes ==
  ASSUME TypeOK, NEW u \in Users,
         \/ Activate(u) \/ ActivateOutsideRuntime(u) \/ Answered(u) \/ Cancel(u)
         \/ DropHandle(u) \/ Closer(u)
         \/ \E why \in {"close", "drop"} : RequestClose(u, why)
  PROVE  TypeOK'
<1>1. \A result \in {"failed", "cancelled"} :
        FinishUnstarted(result) /\ UNCHANGED <<closeRequested, closeSignal, baseline>>
          => LifecycleType' /\ PublisherType'
  <2>1. ASSUME NEW result \in {"failed", "cancelled"}, FinishUnstarted(result),
               UNCHANGED <<closeRequested, closeSignal, baseline>>
        PROVE  LifecycleType'
    BY <2>1 DEF FinishUnstarted, TypeOK, LifecycleType
  <2>2. ASSUME NEW result \in {"failed", "cancelled"}, FinishUnstarted(result),
               UNCHANGED <<closeRequested, closeSignal, baseline>>
        PROVE  PublisherType'
    BY <2>2, PublisherTypes DEF FinishUnstarted, TypeOK, PublisherType
  <2>3. QED
    BY <2>1, <2>2
<1>2. CASE Activate(u)
  <2>1. UserType'
    BY <1>2 DEF Activate, TypeOK, UserType
  <2>2. WorkerType'
    BY <1>2 DEF Activate, TypeOK, WorkerType
  <2>3. LifecycleType' /\ PublisherType'
    <3>1. CASE start' = "started" /\ UNCHANGED <<raw, activation, closing>>
      BY <1>2, <3>1 DEF Activate, TypeOK, LifecycleType, PublisherType
    <3>2. CASE UNCHANGED <<start, wpc, raw, activation, closing>>
      BY <1>2, <3>2 DEF Activate, TypeOK, LifecycleType, PublisherType
    <3>3. QED
      BY <1>1, <1>2, <3>1, <3>2 DEF Activate
  <2>4. QED
    BY <1>2, <2>1, <2>2, <2>3, Untouched, TypeParts DEF Activate
<1>3. CASE ActivateOutsideRuntime(u)
  <2>1. LifecycleType' /\ PublisherType'
    <3>1. CASE UNCHANGED <<start, raw, activation, closing>>
      BY <1>3, <3>1 DEF ActivateOutsideRuntime, TypeOK, LifecycleType, PublisherType
    <3>2. QED
      BY <1>1, <1>3, <3>1 DEF ActivateOutsideRuntime
  <2>2. QED
    BY <1>3, <2>1, Untouched, TypeParts DEF ActivateOutsideRuntime
<1>4. CASE Answered(u) \/ Cancel(u)
  <2>1. UserType'
    BY <1>4 DEF Answered, Activated, Closed, Cancel, TypeOK, UserType
  <2>2. QED
    BY <1>4, <2>1, Untouched, TypeParts DEF Answered, Activated, Closed, Cancel
<1>5. view' = Dropped(u) => ViewType'
  BY DEF Dropped, TypeOK, ViewType, Views
<1>6. CASE DropHandle(u)
  <2>1. UserType'
    BY <1>6 DEF DropHandle, TypeOK, UserType
  <2>2. QED
    BY <1>5, <1>6, <2>1, Untouched, TypeParts DEF DropHandle
<1>7. ASSUME NEW why \in {"close", "drop"}, RequestClose(u, why) PROVE TypeOK'
  <2>1. UserType'
    BY <1>7 DEF RequestClose, TypeOK, UserType
  <2>2. QED
    BY <1>5, <1>7, <2>1, Untouched, TypeParts DEF RequestClose
<1>8. CASE Swap(u) \/ Send(u)
  <2>1. UserType'
    BY <1>8 DEF Swap, Send, TypeOK, UserType
  <2>2. LifecycleType'
    BY <1>8, Zenon DEF Swap, Send, TypeOK, LifecycleType
  <2>3. QED
    BY <1>8, <2>1, <2>2, Untouched, TypeParts DEF Swap, Send
<1>9. CASE Lock(u)
  <2>1. UserType'
    BY <1>9 DEF Lock, TypeOK, UserType
  <2>2. LifecycleType' /\ PublisherType'
    <3>1. CASE UNCHANGED <<start, raw, activation, closing>>
      BY <1>9, <3>1 DEF Lock, TypeOK, LifecycleType, PublisherType
    <3>2. QED
      BY <1>1, <1>9, <3>1 DEF Lock
  <2>3. QED
    BY <1>9, <2>1, <2>2, Untouched, TypeParts DEF Lock
<1>10. QED
  BY <1>2, <1>3, <1>4, <1>6, <1>7, <1>8, <1>9 DEF Closer

\* The steps of a typed view.
LEMMA ViewTypes ==
  ASSUME TypeOK, NEW u \in Viewers, Typed(u) \/ Task(u)
  PROVE  TypeOK'
<1>1. view \in [Viewers -> Views] /\ raw \in Snapshots /\ baseline \in Nat
  BY DEF TypeOK, ViewType, PublisherType
<1>2. NoView \in Views /\ FirstValue \in Nat
  BY <1>1 DEF NoView, Views, NoDocument, FirstValue, Snapshots
<1>3. ViewType'
  <2>1. CASE Typed(u)
    BY <1>1, <1>2, <2>1 DEF Typed, ViewType, Views, Snapshots, NoDocument
  <2>2. CASE TakeSnapshot(u)
    BY <1>1, <2>2 DEF TakeSnapshot, ViewType, Views, Snapshots, NoDocument
  <2>3. CASE ParseSnapshot(u)
    BY <1>1, <2>3 DEF ParseSnapshot, ViewType, Views, NoDocument
  <2>4. CASE TaskEnds(u)
    BY <1>1, <1>2, <2>4 DEF TaskEnds, ViewType
  <2>5. QED
    BY <2>1, <2>2, <2>3, <2>4 DEF Task
<1>4. QED
  BY <1>3, Untouched, TypeParts DEF Task, Typed, TakeSnapshot, ParseSnapshot, TaskEnds

-----------------------------------------------------------------------------
(***************************************************************************)
(* The lifecycle                                                           *)
(***************************************************************************)

\* Steps that change neither the start state, nor the results, nor the worker.
LEMMA SilentKeeps ==
  ASSUME Ownership, UNCHANGED <<start, activation, closing, wpc, fetched>>
  PROVE  Ownership'
BY DEF Ownership

\* The steps that leave the lifecycle alone.
LEMMA Silent ==
  /\ ResourceChanges \/ Notify => UNCHANGED <<start, activation, closing, wpc, fetched>>
  /\ \A u \in Users : Answered(u) \/ Cancel(u) \/ DropHandle(u) \/ Swap(u) \/ Send(u)
                        => UNCHANGED <<start, activation, closing, wpc, fetched>>
  /\ \A u \in Users : (\E why \in {"close", "drop"} : RequestClose(u, why))
                        => UNCHANGED <<start, activation, closing, wpc, fetched>>
  /\ \A u \in Viewers : Typed(u) \/ Task(u)
                        => UNCHANGED <<start, activation, closing, wpc, fetched>>
BY DEF ResourceChanges, Notify, Answered, Activated, Closed, Cancel, DropHandle, Swap, Send,
       RequestClose, Typed, Task, TakeSnapshot, ParseSnapshot, TaskEnds, lifecycleVars,
       workerVars

\* Every step keeps the results where the worker's place puts them.
LEMMA OwnershipInv ==
  ASSUME TypeOK, Ownership, [Next]_vars
  PROVE  Ownership'
<1>1. CASE UNCHANGED vars
  BY <1>1, SilentKeeps DEF vars, lifecycleVars, workerVars
<1>2. CASE AddListener
  BY <1>2 DEF AddListener, Ownership, lifecycleVars
<1>3. CASE Get
  BY <1>3 DEF Get, Ownership, lifecycleVars
<1>4. CASE PublishActivation
  BY <1>4 DEF PublishActivation, Ownership
<1>5. CASE StartCleanup
  BY <1>5 DEF StartCleanup, Ownership, lifecycleVars
<1>6. CASE FinishCleanup
  BY <1>6 DEF FinishCleanup, Ownership
<1>7. CASE Abort
  BY <1>7 DEF Abort, Ownership, TypeOK, WorkerType
<1>8. ASSUME NEW u \in Users, Activate(u) PROVE Ownership'
  BY <1>8 DEF Activate, FinishUnstarted, Ownership
<1>9. ASSUME NEW u \in Users, ActivateOutsideRuntime(u) PROVE Ownership'
  BY <1>9 DEF ActivateOutsideRuntime, FinishUnstarted, Ownership, workerVars
<1>10. ASSUME NEW u \in Users, Lock(u) PROVE Ownership'
  BY <1>10 DEF Lock, FinishUnstarted, Ownership, workerVars
<1>11. QED
  BY <1>1, <1>2, <1>3, <1>4, <1>5, <1>6, <1>7, <1>8, <1>9, <1>10, Silent, SilentKeeps
  DEF Next, Provider, Worker, Closer

-----------------------------------------------------------------------------
(***************************************************************************)
(* Documents and views                                                     *)
(***************************************************************************)

\* The versions the resource has had stay what they were.
LEMMA VersionsStay ==
  ASSUME TypeOK, kinds' = kinds \/ \E k \in Kinds : kinds' = Append(kinds, k)
  PROVE  /\ Len(kinds) \in Nat /\ Len(kinds') \in Nat /\ Len(kinds) <= Len(kinds')
         /\ \A d \in Nat : d <= Len(kinds) => (Good(d)' <=> Good(d))
<1>1. CASE kinds' = kinds
  BY <1>1 DEF TypeOK, SourceType, Good, NoDocument
<1>2. ASSUME NEW k \in Kinds, kinds' = Append(kinds, k)
      PROVE  /\ Len(kinds) \in Nat /\ Len(kinds') \in Nat /\ Len(kinds) <= Len(kinds')
             /\ \A d \in Nat : d <= Len(kinds) => (Good(d)' <=> Good(d))
  <2>1. kinds \in Seq(Kinds)
    BY DEF TypeOK, SourceType
  <2>2. \A d \in 1 .. Len(kinds) : kinds'[d] = kinds[d]
    BY <1>2, <2>1
  <2>3. Len(kinds) \in Nat /\ Len(kinds') = Len(kinds) + 1
    BY <1>2, <2>1
  <2>4. QED
    BY <2>2, <2>3 DEF Good, NoDocument
<1>3. QED
  BY <1>1, <1>2 DEF TypeOK, SourceType

\* Views that do not move keep following a channel that is the same, was closed, or
\* has a newer document.
LEMMA ViewsStay ==
  ASSUME TypeOK, Known, Following, UNCHANGED view,
         kinds' = kinds \/ \E k \in Kinds : kinds' = Append(kinds, k),
         \/ UNCHANGED raw
         \/ raw'.closed /\ raw'.revision \in Nat /\ raw.revision <= raw'.revision
         \/ raw'.revision \in Nat /\ raw.revision < raw'.revision
  PROVE  Following'
<1> SUFFICES ASSUME NEW u \in Viewers
             PROVE  Follows(u)'
  BY DEF Following
<1>1. view[u] \in Views /\ raw \in Snapshots
  BY DEF TypeOK, ViewType, PublisherType
<1>2. view[u].seen \in Nat /\ view[u].doc \in Nat /\ raw.revision \in Nat /\ raw.doc \in Nat
  BY <1>1 DEF Views, Snapshots
<1>3. \A d \in Nat : d <= Len(kinds) => (Good(d)' <=> Good(d))
  BY VersionsStay
<1>4. /\ view[u].seen <= raw.revision
      /\ view[u].task # "none" => Good(view[u].doc)
      /\ view[u].doc <= Len(kinds) /\ raw.doc <= Len(kinds)
  BY DEF Following, Follows, Known
<1>5. view[u].task # "none" => Good(view[u].doc)'
  BY <1>2, <1>3, <1>4 DEF Good
<1>6. CASE UNCHANGED raw
  <2>1. Good(raw.doc)' <=> Good(raw.doc)
    BY <1>2, <1>3, <1>4, <1>6 DEF Good
  <2>2. QED
    BY <1>2, <1>4, <1>6, <1>5, <2>1 DEF Following, Follows
<1>7. CASE raw'.closed /\ raw'.revision \in Nat /\ raw.revision <= raw'.revision
  BY <1>2, <1>4, <1>7, <1>5 DEF Follows
<1>8. CASE raw'.revision \in Nat /\ raw.revision < raw'.revision
  BY <1>2, <1>4, <1>8, <1>5 DEF Follows
<1>9. QED
  BY <1>6, <1>7, <1>8

\* How the publisher changes the channel.
Moves ==
  \/ UNCHANGED raw
  \/ raw'.closed /\ raw'.revision \in Nat /\ raw.revision <= raw'.revision
  \/ raw'.revision \in Nat /\ raw.revision < raw'.revision

\* The publisher only replaces the document by a known one, and says so.
LEMMA PublisherMoves ==
  ASSUME TypeOK, Known
  PROVE  /\ UNCHANGED publisherVars => Moves /\ raw'.doc <= Len(kinds) /\ baseline' <= Len(kinds)
         /\ \A d \in 1 .. Len(kinds) : Publish(d) \/ PublishInitial(d)
              => Moves /\ raw'.doc <= Len(kinds) /\ baseline' <= Len(kinds)
         /\ raw' = Finished(raw) => Moves /\ raw'.doc <= Len(kinds)
<1>1. raw \in Snapshots /\ raw.revision \in Nat /\ Len(kinds) \in Nat
  BY DEF TypeOK, PublisherType, Snapshots, SourceType
<1>2. raw.doc <= Len(kinds) /\ baseline <= Len(kinds)
  BY DEF Known
<1>3. UNCHANGED publisherVars => Moves /\ raw'.doc <= Len(kinds) /\ baseline' <= Len(kinds)
  BY <1>2 DEF publisherVars, Moves
<1>4. ASSUME NEW d \in 1 .. Len(kinds), Publish(d) \/ PublishInitial(d)
      PROVE  Moves /\ raw'.doc <= Len(kinds) /\ baseline' <= Len(kinds)
  <2>1. CASE UNCHANGED publisherVars
    BY <1>3, <2>1
  <2>2. CASE raw' = Replaced(raw, d) /\ (baseline' = d \/ UNCHANGED baseline)
    <3>1. raw'.doc = d /\ raw'.revision = raw.revision + 1
      BY <2>2 DEF Replaced
    <3>2. QED
      BY <1>1, <1>2, <2>2, <3>1 DEF Moves
  <2>3. CASE UNCHANGED raw /\ baseline' = d
    BY <1>1, <1>2, <2>3 DEF Moves
  <2>4. QED
    BY <1>4, <2>1, <2>2, <2>3 DEF Publish, PublishInitial
<1>5. ASSUME raw' = Finished(raw) PROVE Moves /\ raw'.doc <= Len(kinds)
  <2>1. CASE raw.closed
    BY <1>2, <1>5, <2>1 DEF Finished, Moves
  <2>2. CASE ~raw.closed
    <3>1. raw'.doc = raw.doc /\ raw'.revision = raw.revision + 1
      BY <1>1, <1>5, <2>2 DEF Finished, Snapshots
    <3>2. QED
      BY <1>1, <1>2, <3>1 DEF Moves
  <2>3. QED
    BY <2>1, <2>2
<1>6. QED
  BY <1>3, <1>4, <1>5

\* A step that moves no view.
LEMMA ChannelKeeps ==
  ASSUME TypeOK, Known, Following, UNCHANGED view,
         kinds' = kinds \/ \E k \in Kinds : kinds' = Append(kinds, k),
         Moves, raw'.doc <= Len(kinds), raw'.doc \in Nat,
         baseline' <= Len(kinds), baseline' \in Nat,
         notified' \in Nat, notified' <= Len(kinds)
  PROVE  Known' /\ Following'
<1>1. Following'
  BY ViewsStay DEF Moves
<1>2. Len(kinds) \in Nat /\ Len(kinds') \in Nat /\ Len(kinds) <= Len(kinds')
  BY VersionsStay
<1>3. \A u \in Viewers : view[u].doc \in Nat /\ view[u].buffer \in Nat
  BY DEF TypeOK, ViewType, Views
<1>4. QED
  BY <1>1, <1>2, <1>3 DEF Known

\* The source, the SDK and the worker.
LEMMA WorkerKeeps ==
  ASSUME TypeOK, Known, Following, TypeOK',
         ResourceChanges \/ Notify \/ Provider \/ Worker \/ Abort
  PROVE  Known' /\ Following'
<1>1. /\ raw'.doc \in Nat /\ baseline' \in Nat /\ notified' \in Nat /\ Len(kinds) \in Nat
      /\ notified \in Nat
  BY DEF TypeOK, PublisherType, SourceType, Snapshots
<1>2. notified <= Len(kinds)
  BY DEF Known
<1>3. CASE ResourceChanges
  BY <1>1, <1>2, <1>3, PublisherMoves, ChannelKeeps DEF ResourceChanges
<1>4. CASE Notify
  <2>1. Len(kinds) \in 1 .. Len(kinds)
    BY <1>1, <1>4 DEF Notify
  <2>2. Moves /\ raw'.doc <= Len(kinds) /\ baseline' <= Len(kinds)
    BY <1>4, <2>1, PublisherMoves DEF Notify
  <2>3. QED
    BY <1>1, <1>4, <2>2, ChannelKeeps DEF Notify
<1>5. CASE AddListener
  BY <1>1, <1>2, <1>5, PublisherMoves, ChannelKeeps DEF AddListener
<1>6. CASE Get
  <2>1. Moves /\ raw'.doc <= Len(kinds) /\ baseline' <= Len(kinds)
    BY <1>6, PublisherMoves DEF Get
  <2>2. QED
    BY <1>1, <1>2, <1>6, <2>1, ChannelKeeps DEF Get, sourceVars
<1>7. CASE FinishCleanup
  <2>1. Moves /\ raw'.doc <= Len(kinds)
    BY <1>7, PublisherMoves DEF FinishCleanup
  <2>2. baseline' <= Len(kinds)
    BY <1>7 DEF FinishCleanup, Known
  <2>3. QED
    BY <1>1, <1>2, <1>7, <2>1, <2>2, ChannelKeeps DEF FinishCleanup
<1>8. CASE Abort
  <2>1. Moves /\ raw'.doc <= Len(kinds)
    BY <1>8, PublisherMoves DEF Abort
  <2>2. baseline' <= Len(kinds)
    BY <1>8 DEF Abort, Known
  <2>3. QED
    BY <1>1, <1>2, <1>8, <2>1, <2>2, ChannelKeeps DEF Abort, sourceVars
<1>9. CASE Worker
  BY <1>1, <1>2, <1>9, PublisherMoves, ChannelKeeps
  DEF Worker, PublishActivation, StartCleanup, sourceVars
<1>10. QED
  BY <1>3, <1>4, <1>5, <1>6, <1>7, <1>8, <1>9 DEF Provider

\* The holders of the handle.
LEMMA UserKeeps ==
  ASSUME TypeOK, Known, Following, TypeOK', NEW u \in Users,
         \/ Activate(u) \/ ActivateOutsideRuntime(u) \/ Answered(u) \/ Cancel(u)
         \/ DropHandle(u) \/ Closer(u)
         \/ \E why \in {"close", "drop"} : RequestClose(u, why)
  PROVE  Known' /\ Following'
<1>1. /\ raw'.doc \in Nat /\ baseline' \in Nat /\ notified' \in Nat /\ Len(kinds) \in Nat
      /\ notified \in Nat /\ baseline \in Nat
  BY DEF TypeOK, PublisherType, SourceType, Snapshots
<1>2. notified <= Len(kinds) /\ baseline <= Len(kinds)
  BY DEF Known
<1>3. ASSUME UNCHANGED <<sourceVars, baseline, view>>, raw' = raw \/ raw' = Finished(raw)
      PROVE  Known' /\ Following'
  <2>1. Moves /\ raw'.doc <= Len(kinds)
    BY <1>3, PublisherMoves DEF Moves, Known
  <2>2. QED
    BY <1>1, <1>2, <1>3, <2>1, ChannelKeeps DEF sourceVars
<1>4. ASSUME UNCHANGED <<sourceVars, publisherVars>>, view' = Dropped(u)
      PROVE  Known' /\ Following'
  <2>1. CASE UNCHANGED view
    BY <1>3, <1>4, <2>1 DEF publisherVars
  <2>2. CASE u \in Viewers /\ view[u].task # "none"
             /\ view' = [view EXCEPT ![u].task = "orphaned"]
    <3>1. view \in [Viewers -> Views]
      BY DEF TypeOK, ViewType
    <3>2. \A x \in Viewers :
            /\ view'[x].doc = view[x].doc /\ view'[x].buffer = view[x].buffer
            /\ view'[x].seen = view[x].seen /\ view'[x].error = view[x].error
            /\ view'[x].task = IF x = u THEN "orphaned" ELSE view[x].task
      BY <2>2, <3>1 DEF Views
    <3>3. UNCHANGED <<kinds, notified, baseline, raw>>
      BY <1>4 DEF sourceVars, publisherVars
    <3>4. Known'
      BY <3>2, <3>3 DEF Known
    <3>5. ASSUME NEW x \in Viewers
          PROVE  Follows(x)'
      BY <2>2, <3>2, <3>3 DEF Following, Follows, Good
    <3>6. QED
      BY <3>4, <3>5 DEF Following
  <2>3. QED
    BY <1>4, <2>1, <2>2 DEF Dropped
<1>5. CASE Activate(u)
  BY <1>3, <1>5 DEF Activate, FinishUnstarted
<1>6. CASE ActivateOutsideRuntime(u)
  BY <1>3, <1>6 DEF ActivateOutsideRuntime, FinishUnstarted
<1>7. CASE Answered(u) \/ Cancel(u) \/ Swap(u) \/ Send(u)
  BY <1>3, <1>7 DEF Answered, Activated, Closed, Cancel, Swap, Send, publisherVars
<1>8. CASE Lock(u)
  BY <1>3, <1>8 DEF Lock, FinishUnstarted
<1>9. CASE DropHandle(u)
  BY <1>4, <1>9 DEF DropHandle
<1>10. ASSUME NEW why \in {"close", "drop"}, RequestClose(u, why)
       PROVE  Known' /\ Following'
  <2>1. CASE view' = Dropped(u)
    BY <1>4, <1>10, <2>1 DEF RequestClose
  <2>2. CASE UNCHANGED view
    BY <1>3, <1>10, <2>2 DEF RequestClose, publisherVars
  <2>3. QED
    BY <1>10, <2>1, <2>2 DEF RequestClose
<1>11. QED
  BY <1>5, <1>6, <1>7, <1>8, <1>9, <1>10 DEF Closer

\* One view moves: the others stay as they are.
LEMMA OneViewMoves ==
  ASSUME TypeOK, Known, Following, NEW u \in Viewers, NEW v \in Views,
         view' = [view EXCEPT ![u] = v], UNCHANGED <<sourceVars, publisherVars>>,
         v.doc <= Len(kinds), v.buffer <= Len(kinds), Follows(u)'
  PROVE  Known' /\ Following'
<1>1. view \in [Viewers -> Views]
  BY DEF TypeOK, ViewType
<1>2. UNCHANGED <<kinds, notified, baseline, raw>>
  BY DEF sourceVars, publisherVars
<1>3. \A x \in Viewers : view'[x] = IF x = u THEN v ELSE view[x]
  BY <1>1
<1>4. Known'
  BY <1>2, <1>3 DEF Known
<1>5. \A x \in Viewers \ {u} : Follows(x)'
  BY <1>2, <1>3 DEF Following, Follows, Good
<1>6. QED
  BY <1>4, <1>5 DEF Following

\* The steps of a typed view.
LEMMA ViewKeeps ==
  ASSUME TypeOK, Known, Following, NEW u \in Viewers, Typed(u) \/ Task(u)
  PROVE  Known' /\ Following'
<1>1. view \in [Viewers -> Views] /\ view[u] \in Views /\ raw \in Snapshots
  BY DEF TypeOK, ViewType, PublisherType
<1>2. /\ UNCHANGED <<sourceVars, publisherVars>>
      /\ UNCHANGED <<kinds, raw>>
  BY DEF Typed, Task, TakeSnapshot, ParseSnapshot, TaskEnds, sourceVars, publisherVars
<1>3. Follows(u) /\ raw.doc <= Len(kinds) /\ baseline <= Len(kinds) /\ Len(kinds) \in Nat
      /\ view[u].doc <= Len(kinds) /\ view[u].buffer <= Len(kinds)
  BY DEF Following, Known, TypeOK, SourceType
<1>4. raw.revision \in Nat /\ raw.doc \in Nat /\ baseline \in Nat /\ raw.closed \in BOOLEAN
  BY <1>1 DEF Snapshots, TypeOK, PublisherType
<1>5. CASE Typed(u)
  <2> DEFINE v == [task |-> "waiting", seen |-> raw.revision, doc |-> FirstValue,
                   error |-> ~Good(raw.doc), buffer |-> NoDocument]
  <2>1. /\ FirstValue \in Nat /\ FirstValue <= Len(kinds) /\ Good(FirstValue)
        /\ Good(raw.doc) => FirstValue = raw.doc
    BY <1>3, <1>4, <1>5 DEF Typed, FirstValue, NoDocument
  <2>2. v \in Views
    BY <1>4, <2>1 DEF Views, NoDocument
  <2>3. view' = [view EXCEPT ![u] = v]
    BY <1>5 DEF Typed
  <2>4. view'[u] = v
    BY <1>1, <2>3
  <2>5. /\ v.task = "waiting" /\ v.seen = raw.revision /\ v.doc = FirstValue
        /\ v.doc <= Len(kinds) /\ v.buffer <= Len(kinds)
    BY <1>3, <2>1 DEF NoDocument
  <2>6. v.error <=> ~Good(raw.doc)
    OBVIOUS
  <2> HIDE DEF v
  <2>7. Follows(u)'
    BY <1>2, <1>4, <2>1, <2>4, <2>5, <2>6 DEF Follows, Good
  <2>8. QED
    BY <1>2, <2>2, <2>3, <2>5, <2>7, OneViewMoves
<1>6. CASE TakeSnapshot(u)
  <2> DEFINE v == [view[u] EXCEPT !.seen = raw.revision,
                                  !.task = IF raw.closed THEN "ended" ELSE "parsing",
                                  !.buffer = IF raw.closed THEN NoDocument ELSE raw.doc]
  <2>1. v \in Views
    BY <1>1, <1>4 DEF Views, NoDocument
  <2>2. view' = [view EXCEPT ![u] = v]
    BY <1>1, <1>6 DEF TakeSnapshot
  <2>3. view'[u] = v
    BY <1>1, <2>2
  <2>4. /\ v.doc = view[u].doc /\ v.seen = raw.revision
        /\ v.task = IF raw.closed THEN "ended" ELSE "parsing"
        /\ v.buffer = IF raw.closed THEN NoDocument ELSE raw.doc
    BY <1>1 DEF Views
  <2>5. Good(view[u].doc) /\ v.doc <= Len(kinds) /\ v.buffer <= Len(kinds)
    BY <1>3, <1>6, <2>4 DEF TakeSnapshot, Follows, NoDocument
  <2> HIDE DEF v
  <2>6. Follows(u)'
    BY <1>2, <1>4, <2>3, <2>4, <2>5 DEF Follows, Good
  <2>7. QED
    BY <1>2, <2>1, <2>2, <2>5, <2>6, OneViewMoves
<1>7. CASE ParseSnapshot(u)
  <2> DEFINE old == view[u]
             v == IF Good(old.buffer)
                    THEN [old EXCEPT !.task = "waiting", !.doc = old.buffer,
                                     !.error = FALSE, !.buffer = NoDocument]
                    ELSE [old EXCEPT !.task = "waiting", !.error = TRUE, !.buffer = NoDocument]
  <2>1. old.buffer \in Nat /\ NoDocument \in Nat
    BY <1>1 DEF Views, NoDocument
  <2>2. v \in Views
    BY <1>1, <2>1 DEF Views
  <2>3. view' = [view EXCEPT ![u] = v]
    BY <1>1, <1>7 DEF ParseSnapshot
  <2>4. view'[u] = v
    BY <1>1, <2>3
  <2>5. /\ v.task = "waiting" /\ v.seen = old.seen /\ v.buffer = NoDocument
        /\ v.doc = IF Good(old.buffer) THEN old.buffer ELSE old.doc
    BY <1>1 DEF Views
  <2>6. v.error <=> ~Good(old.buffer)
    BY <1>1 DEF Views
  <2>7. Good(v.doc) /\ v.doc <= Len(kinds) /\ v.buffer <= Len(kinds)
    BY <1>3, <1>7, <2>5 DEF ParseSnapshot, Follows, NoDocument
  <2>8. v.seen <= raw.revision /\
        (v.seen = raw.revision /\ ~raw.closed => old.buffer = raw.doc)
    BY <1>3, <1>7, <2>5 DEF ParseSnapshot, Follows
  <2> HIDE DEF v, old
  <2>9. Follows(u)'
    BY <1>2, <2>4, <2>5, <2>6, <2>7, <2>8 DEF Follows, Good
  <2>10. QED
    BY <1>2, <2>2, <2>3, <2>7, <2>9, OneViewMoves
<1>8. CASE TaskEnds(u)
  <2>1. /\ NoView \in Views /\ NoView.doc <= Len(kinds) /\ NoView.buffer <= Len(kinds)
        /\ NoView.task = "none" /\ NoView.seen = 0
    BY <1>3 DEF NoView, Views, NoDocument
  <2>2. view' = [view EXCEPT ![u] = NoView]
    BY <1>8 DEF TaskEnds
  <2>3. view'[u] = NoView
    BY <1>1, <2>2
  <2>4. Follows(u)'
    BY <1>2, <1>4, <2>1, <2>3 DEF Follows
  <2>5. QED
    BY <1>2, <2>1, <2>2, <2>4, OneViewMoves
<1>9. QED
  BY <1>5, <1>6, <1>7, <1>8 DEF Task

-----------------------------------------------------------------------------
(***************************************************************************)
(* The theorems                                                            *)
(***************************************************************************)

\* A handle that was just prepared.
LEMMA InitInv == Init => Inv
<1> SUFFICES ASSUME Init PROVE Inv
  OBVIOUS
<1>1. SourceType /\ Len(kinds) = 1
  <2>1. PICK k \in Kinds : kinds = <<k>>
    BY DEF Init
  <2>2. kinds \in Seq(Kinds) /\ Len(kinds) = 1
    BY <2>1
  <2>3. listening \in BOOLEAN /\ notified \in Nat
    BY DEF Init
  <2>4. QED
    BY <2>2, <2>3 DEF SourceType
<1>2. LifecycleType
  BY Zenon DEF Init, LifecycleType
<1>3. WorkerType /\ PublisherType /\ UserType
  BY DEF Init, WorkerType, PublisherType, UserType, Snapshots, NoDocument
<1>4. NoView \in Views /\ NoView.doc = 0 /\ NoView.buffer = 0 /\ NoView.seen = 0
      /\ NoView.task = "none"
  BY DEF NoView, Views, NoDocument
<1>5. ViewType
  BY <1>4 DEF Init, ViewType
<1>6. Ownership
  BY DEF Init, Ownership
<1>7. Known /\ Following
  BY <1>1, <1>4 DEF Init, Known, Following, Follows, NoDocument
<1>8. QED
  BY <1>1, <1>2, <1>3, <1>5, <1>6, <1>7 DEF Inv, TypeOK

\* Every step keeps the invariant.
LEMMA NextInv == Inv /\ [Next]_vars => Inv'
<1> SUFFICES ASSUME Inv, [Next]_vars PROVE Inv'
  OBVIOUS
<1>1. TypeOK /\ Ownership /\ Known /\ Following
  BY DEF Inv
<1>2. Ownership'
  BY <1>1, OwnershipInv
<1>3. CASE UNCHANGED vars
  <2>1. TypeOK'
    BY <1>1, <1>3, Untouched, TypeParts DEF vars
  <2>2. UNCHANGED <<kinds, notified, baseline, raw, view>>
    BY <1>3 DEF vars, sourceVars, publisherVars
  <2>3. Known' /\ Following'
    BY <1>1, <2>2 DEF Known, Following, Follows, Good
  <2>4. QED
    BY <1>2, <2>1, <2>3 DEF Inv
<1>4. CASE ResourceChanges \/ Notify \/ Provider \/ Worker \/ Abort
  BY <1>1, <1>2, <1>4, WorkerTypes, WorkerKeeps DEF Inv
<1>5. ASSUME NEW u \in Users,
             \/ Activate(u) \/ ActivateOutsideRuntime(u) \/ Answered(u) \/ Cancel(u)
             \/ DropHandle(u) \/ Closer(u)
             \/ \E why \in {"close", "drop"} : RequestClose(u, why)
      PROVE  Inv'
  BY <1>1, <1>2, <1>5, UserTypes, UserKeeps DEF Inv
<1>6. ASSUME NEW u \in Viewers, Typed(u) \/ Task(u) PROVE Inv'
  BY <1>1, <1>2, <1>6, ViewTypes, ViewKeeps DEF Inv
<1>7. QED
  BY <1>3, <1>4, <1>5, <1>6 DEF Next

\* The invariant holds in every state of the handle.
THEOREM Invariance == Spec => []Inv
<1>1. QED
  BY InitInv, NextInv, PTL DEF Spec

\* The variables keep their types.
THEOREM TypeCorrect == Spec => []TypeOK
<1>1. Inv => TypeOK
  BY DEF Inv
<1>2. QED
  BY <1>1, Invariance, PTL

\* For any number of holders, views and versions: a typed view of hot.rs only shows
\* documents that parse, and once its task has taken what is in the channel it shows
\* that document or says that it was rejected.
THEOREM ViewsShowLastGood == Spec => []LastGood
<1>1. Inv => LastGood
  BY DEF Inv, Following, Follows, LastGood
<1>2. QED
  BY <1>1, Invariance, PTL

\* The handle of a configuration keeps the promises of ProviderContract, as the handle
\* of a registration does: whatever its holders do in whichever order, activation and
\* cleanup run once and in this order, and each result is published once.
THEOREM HotHandleImplementsContract == Spec => ImplementsContract
<1>1. Init => Contract!Init
  BY DEF Init, Contract!Init, Phase
<1>2. Inv /\ [Next]_vars => [Contract!Next]_(Contract!contractVars)
  <2> SUFFICES ASSUME Inv, [Next]_vars
               PROVE  \/ Contract!Next
                      \/ UNCHANGED <<Phase, activation, closing>>
    BY DEF Contract!contractVars
  <2>1. Ownership /\ TypeOK
    BY DEF Inv
  <2> USE <2>1 DEF Phase
  <2>2. ASSUME UNCHANGED <<start, activation, closing, wpc>>
        PROVE  UNCHANGED <<Phase, activation, closing>>
    BY <2>2
  <2>3. ASSUME start = "prepared",
               FinishUnstarted("failed") \/ FinishUnstarted("cancelled"), UNCHANGED wpc
        PROVE  Contract!CloseUnstarted
    <3>1. start' = "finished" /\ closing' = "ok" /\ activation' \in {"failed", "cancelled"}
      BY <2>3 DEF FinishUnstarted
    <3>2. Phase = "prepared" /\ Phase' = "over"
      BY <2>3, <3>1 DEF Ownership
    <3>3. QED
      BY <3>1, <3>2 DEF Contract!CloseUnstarted
  <2>4. CASE UNCHANGED vars
    BY <2>2, <2>4 DEF vars, lifecycleVars, workerVars
  <2>5. ASSUME NEW u \in Users, Activate(u)
        PROVE  \/ Contract!CloseUnstarted \/ Contract!StartActivation
               \/ UNCHANGED <<Phase, activation, closing>>
    <3>1. CASE start = "prepared" /\ start' = "started" /\ wpc' = "adding"
               /\ UNCHANGED <<raw, activation, closing>>
      BY <3>1 DEF Contract!StartActivation, Ownership
    <3>2. QED
      BY <2>2, <2>3, <2>5, <3>1 DEF Activate
  <2>6. ASSUME NEW u \in Users, ActivateOutsideRuntime(u) \/ Lock(u)
        PROVE  Contract!CloseUnstarted \/ UNCHANGED <<Phase, activation, closing>>
    BY <2>2, <2>3, <2>6 DEF ActivateOutsideRuntime, Lock, workerVars
  <2>7. CASE AddListener \/ Get
    BY <2>7 DEF AddListener, Get, lifecycleVars, Ownership
  <2>8. ASSUME PublishActivation PROVE Contract!Settle
    BY <2>8 DEF PublishActivation, Contract!Settle, Ownership, TypeOK, WorkerType
  <2>9. ASSUME StartCleanup PROVE Contract!StartCleanup
    BY <2>9 DEF StartCleanup, Contract!StartCleanup, Ownership, lifecycleVars
  <2>10. ASSUME FinishCleanup PROVE Contract!FinishCleanup
    BY <2>10 DEF FinishCleanup, Contract!FinishCleanup, Ownership
  <2>11. ASSUME Abort PROVE Contract!Abort
    BY <2>11 DEF Abort, Contract!Abort, Ownership
  <2> QED
    BY <2>2, <2>4, <2>5, <2>6, <2>7, <2>8, <2>9, <2>10, <2>11, Silent
    DEF Next, Provider, Worker, Closer, Contract!Next
<1> QED
  BY <1>1, <1>2, Invariance, PTL DEF Spec, Contract!Spec, ImplementsContract

-----------------------------------------------------------------------------
(***************************************************************************)
(* What is built of a configuration: Assembly, for all values callers may  *)
(* pass to the setters and any number of calls.                            *)
(***************************************************************************)

CONSTANTS Values, Bytes, MaxPermits, MaxSets

VARIABLES draft, made, sets, phase, fault, parts

Setup == INSTANCE Assembly

\* Counts, sizes and durations are unsigned.
Unsigned == Values \subseteq Nat /\ Bytes \subseteq Nat

\* The fields that are a ratio, a set or an option.
Loose == {"failure_ratio", "bindings", "pool_idle_timeout", "http2_keep_alive_interval"}

Sections == DOMAIN Setup!Defaults

\* The fields of a section.
IsSection(section, config) ==
  /\ DOMAIN config = DOMAIN Setup!Defaults[section]
  /\ \A f \in DOMAIN config : f \in Loose \/ config[f] \in Nat

\* Every section is one, built or not.
Filled(m) == DOMAIN m = Sections /\ \A section \in Sections : IsSection(section, m[section])

SetupInv ==
  /\ Filled(made)
  /\ \A d \in draft : /\ DOMAIN d = {"section", "fields"} /\ d.section \in Sections
                      /\ IsSection(d.section, d.fields)
  /\ Setup!WhatIsBuiltIsSound

\* The defaults are sections.
LEMMA DefaultsFilled == Filled(Setup!Defaults)
<1> USE DEF IsSection, Loose
<1>1. Sections = {"queue", "admission", "discovery", "retry", "endpoint", "service",
                  "circuit_breaker", "client_http", "client", "request", "server_http",
                  "registry", "server"}
  BY DEF Sections, Setup!Defaults
<1>2. IsSection("queue", Setup!Defaults["queue"])
  BY DEF Setup!Defaults, Setup!QueueConfig
<1>3. IsSection("admission", Setup!Defaults["admission"])
  BY DEF Setup!Defaults, Setup!ClientAdmissionConfig
<1>4. IsSection("discovery", Setup!Defaults["discovery"])
  BY DEF Setup!Defaults, Setup!DiscoveryConfig
<1>5. IsSection("retry", Setup!Defaults["retry"])
  BY DEF Setup!Defaults, Setup!RetryConfig
<1>6. IsSection("endpoint", Setup!Defaults["endpoint"])
  BY DEF Setup!Defaults, Setup!EndpointThreshold
<1>7. IsSection("service", Setup!Defaults["service"])
  BY DEF Setup!Defaults, Setup!ServiceThreshold
<1>8. IsSection("circuit_breaker", Setup!Defaults["circuit_breaker"])
  BY DEF Setup!Defaults, Setup!CircuitBreakerConfig
<1>9. IsSection("client_http", Setup!Defaults["client_http"])
  BY DEF Setup!Defaults, Setup!ClientHttpConfig
<1>10. IsSection("client", Setup!Defaults["client"])
  BY DEF Setup!Defaults, Setup!ClientConfig
<1>11. IsSection("request", Setup!Defaults["request"])
  BY DEF Setup!Defaults, Setup!ServerRequestConfig
<1>12. IsSection("server_http", Setup!Defaults["server_http"])
  BY DEF Setup!Defaults, Setup!HttpServerConfig
<1>13. IsSection("registry", Setup!Defaults["registry"])
  BY DEF Setup!Defaults, Setup!ServerRegistryConfig
<1>14. IsSection("server", Setup!Defaults["server"])
  BY DEF Setup!Defaults, Setup!ServerConfig
<1> HIDE DEF IsSection
<1> QED
  BY <1>1, <1>2, <1>3, <1>4, <1>5, <1>6, <1>7, <1>8, <1>9, <1>10, <1>11, <1>12, <1>13, <1>14
     DEF Filled, Sections

\* A setter that passes numbers to the fields that are numbers keeps the section one.
LEMMA SetKeeps ==
  ASSUME SetupInv, NEW section, NEW fields, NEW values,
         Setup!Set(section, fields, values),
         \A f \in fields, v \in values : f \in Loose \/ v \in Nat
  PROVE  SetupInv'
<1>1. PICK d \in draft, f \in fields, v \in values : draft' = {[d EXCEPT !.fields[f] = v]}
  BY DEF Setup!Set
<1>2. UNCHANGED <<made, phase, fault, parts>>
  BY DEF Setup!Set
<1> DEFINE e == [d EXCEPT !.fields[f] = v]
<1>3. DOMAIN d = {"section", "fields"} /\ d.section \in Sections /\ IsSection(d.section, d.fields)
  BY DEF SetupInv
<1>4. /\ DOMAIN e = {"section", "fields"} /\ e.section = d.section
      /\ e.fields = [d.fields EXCEPT ![f] = v]
  BY <1>3
<1>5. IsSection(d.section, [d.fields EXCEPT ![f] = v])
  BY <1>3 DEF IsSection
<1> HIDE DEF e
<1>6. DOMAIN e = {"section", "fields"} /\ e.section \in Sections /\ IsSection(e.section, e.fields)
  BY <1>3, <1>4, <1>5
<1>7. draft' = {e}
  BY <1>1 DEF e
<1>8. Filled(made)' /\ Setup!WhatIsBuiltIsSound'
  BY <1>2 DEF SetupInv, Filled, Setup!WhatIsBuiltIsSound
<1> QED
  BY <1>6, <1>7, <1>8 DEF SetupInv

\* A validation that finds no zero found none.
LEMMA NoZero ==
  ASSUME NEW section, NEW config, IsSection(section, config), NEW fields,
         fields \subseteq DOMAIN config \ Loose, Setup!Zero(config, fields) = {}
  PROVE  \A f \in fields : config[f] \in Nat /\ config[f] > 0
BY DEF IsSection, Setup!Zero

\* A threshold that passed its validation makes a breaker that can open and close.
LEMMA SoundBreaker ==
  ASSUME NEW m, Filled(m), NEW section \in {"endpoint", "service"},
         Setup!ThresholdFaults(m[section]) = {},
         m.circuit_breaker.max_open_duration > 0
  PROVE  LET b == Setup!BreakerConfig(m[section], m)
         IN /\ b.width > 0 /\ b.buckets > 0 /\ b.samples > 0 /\ b.open > 0
            /\ b.maxOpen > 0 /\ b.probes > 0 /\ b.successes > 0 /\ b.ratio \in 0 .. 100
<1> DEFINE c == m[section]
           fields == {"window", "buckets", "minimum_samples", "open_duration",
                      "half_open_probes", "close_successes"}
<1>1. IsSection(section, c)
  BY DEF Filled, Sections, Setup!Defaults
<1>2. fields \subseteq DOMAIN c \ Loose
  BY <1>1 DEF IsSection, Loose, Setup!Defaults, Setup!EndpointThreshold, Setup!ServiceThreshold
<1>3. Setup!Zero(c, fields) = {} /\ c.failure_ratio \in 0 .. 100
  BY DEF Setup!ThresholdFaults
<1> HIDE DEF c
<1>4. \A f \in fields : c[f] \in Nat /\ c[f] > 0
  BY <1>1, <1>2, <1>3, NoZero
<1>5. /\ c.window > 0 /\ c.buckets > 0 /\ c.minimum_samples > 0 /\ c.open_duration > 0
      /\ c.half_open_probes > 0 /\ c.close_successes > 0
  BY <1>4
<1>6. Setup!BreakerConfig(m[section], m) = Setup!BreakerConfig(c, m)
  BY DEF c
<1> QED
  BY <1>3, <1>5, <1>6 DEF Setup!BreakerConfig

\* The largest body fits the budget of all of them.
LEMMA BodyFits ==
  ASSUME NEW c, Setup!BudgetFaults(c) = {},
         c.max_request_body_bytes \in Nat, c.max_response_body_bytes \in Nat,
         c.max_inflight_request_body_bytes \in Nat, c.max_inflight_response_body_bytes \in Nat
  PROVE  /\ c.max_request_body_bytes <= c.max_inflight_request_body_bytes
         /\ c.max_response_body_bytes <= c.max_inflight_response_body_bytes
BY DEF Setup!BudgetFaults

\* A client configuration that passes validation makes sound parts.
LEMMA SoundClient ==
  ASSUME NEW m, Filled(m), Setup!ClientFaults(m) = {}
  PROVE  Setup!IsSound(Setup!ClientParts(m))
<1>1. /\ IsSection("client", m.client) /\ IsSection("admission", m.admission)
      /\ IsSection("queue", m.queue) /\ IsSection("discovery", m.discovery)
      /\ IsSection("retry", m.retry) /\ IsSection("client_http", m.client_http)
      /\ IsSection("circuit_breaker", m.circuit_breaker)
  BY DEF Filled, Sections, Setup!Defaults
<1>2. /\ Setup!Zero(m.client, {"request_timeout", "connect_timeout", "shutdown_timeout"}) = {}
      /\ Setup!AdmissionFaults(m) = {} /\ Setup!DiscoveryFaults(m.discovery) = {}
      /\ Setup!RetryFaults(m.retry) = {} /\ Setup!CircuitBreakerFaults(m) = {}
      /\ Setup!ClientHttpFaults(m.client_http) = {}
  BY DEF Setup!ClientFaults
<1>3. /\ m.client.request_timeout > 0 /\ m.client.connect_timeout > 0
      /\ m.client.shutdown_timeout > 0
  BY <1>1, <1>2
     DEF Setup!Zero, IsSection, Loose, Setup!Defaults, Setup!ClientConfig
<1>4. /\ m.admission.max_in_flight > 0
      /\ m.admission.max_request_body_bytes > 0 /\ m.admission.max_response_body_bytes > 0
      /\ m.admission.max_request_body_bytes <= m.admission.max_inflight_request_body_bytes
      /\ m.admission.max_response_body_bytes <= m.admission.max_inflight_response_body_bytes
  <2>1. /\ m.admission.max_in_flight \in Nat
        /\ m.admission.max_request_body_bytes \in Nat
        /\ m.admission.max_response_body_bytes \in Nat
        /\ m.admission.max_inflight_request_body_bytes \in Nat
        /\ m.admission.max_inflight_response_body_bytes \in Nat
    BY <1>1 DEF IsSection, Loose, Setup!Defaults, Setup!ClientAdmissionConfig
  <2>2. /\ m.admission.max_in_flight # 0
        /\ m.admission.max_request_body_bytes # 0 /\ m.admission.max_response_body_bytes # 0
        /\ Setup!BudgetFaults(m.admission) = {}
    BY <1>2 DEF Setup!AdmissionFaults, Setup!Zero
  <2>3. /\ m.admission.max_request_body_bytes <= m.admission.max_inflight_request_body_bytes
        /\ m.admission.max_response_body_bytes <= m.admission.max_inflight_response_body_bytes
    BY <2>1, <2>2, BodyFits
  <2> QED
    BY <2>1, <2>2, <2>3
<1>5. m.queue.capacity > 0 => m.queue.max_wait > 0
  <2>1. m.queue.capacity \in Nat /\ m.queue.max_wait \in Nat
    BY <1>1 DEF IsSection, Loose, Setup!Defaults, Setup!QueueConfig
  <2>2. Setup!QueueFaults(m) = {}
    BY <1>2 DEF Setup!AdmissionFaults
  <2> QED
    BY <2>1, <2>2 DEF Setup!QueueFaults
<1>6. /\ m.discovery.initial_timeout > 0 /\ m.discovery.operation_timeout > 0
      /\ m.discovery.close_timeout > 0
      /\ 0 < m.discovery.reconnect_base /\ m.discovery.reconnect_base <= m.discovery.reconnect_cap
  <2>1. /\ m.discovery.initial_timeout \in Nat /\ m.discovery.operation_timeout \in Nat
        /\ m.discovery.close_timeout \in Nat
        /\ m.discovery.reconnect_base \in Nat /\ m.discovery.reconnect_cap \in Nat
    BY <1>1 DEF IsSection, Loose, Setup!Defaults, Setup!DiscoveryConfig
  <2>2. /\ m.discovery.initial_timeout # 0 /\ m.discovery.operation_timeout # 0
        /\ m.discovery.close_timeout # 0 /\ m.discovery.reconnect_base # 0
        /\ ~(m.discovery.reconnect_base > m.discovery.reconnect_cap)
    BY <1>2 DEF Setup!DiscoveryFaults, Setup!Zero
  <2> QED
    BY <2>1, <2>2
<1>7. /\ m.retry.max_attempts \in 1 .. 3 /\ m.retry.budget_capacity > 0
      /\ 0 < m.retry.backoff_base /\ m.retry.backoff_base <= m.retry.backoff_cap
  <2>1. /\ m.retry.budget_capacity \in Nat
        /\ m.retry.backoff_base \in Nat /\ m.retry.backoff_cap \in Nat
    BY <1>1 DEF IsSection, Loose, Setup!Defaults, Setup!RetryConfig
  <2>2. /\ m.retry.max_attempts \in 1 .. 3 /\ m.retry.budget_capacity # 0
        /\ m.retry.backoff_base # 0 /\ ~(m.retry.backoff_base > m.retry.backoff_cap)
    BY <1>2 DEF Setup!RetryFaults, Setup!Zero
  <2> QED
    BY <2>1, <2>2
<1>8. m.client_http.http2_connections_per_host > 0
  <2>1. m.client_http.http2_connections_per_host \in Nat
    BY <1>1 DEF IsSection, Loose, Setup!Defaults, Setup!ClientHttpConfig
  <2> QED
    BY <1>2, <2>1 DEF Setup!ClientHttpFaults, Setup!Zero
<1>9. /\ m.circuit_breaker.max_open_duration > 0 /\ m.circuit_breaker.max_endpoint_entries > 0
      /\ Setup!ThresholdFaults(m.endpoint) = {} /\ Setup!ThresholdFaults(m.service) = {}
  <2>1. /\ m.circuit_breaker.max_open_duration \in Nat
        /\ m.circuit_breaker.max_endpoint_entries \in Nat
    BY <1>1 DEF IsSection, Loose, Setup!Defaults, Setup!CircuitBreakerConfig
  <2> QED
    BY <1>2, <2>1 DEF Setup!CircuitBreakerFaults, Setup!Zero
<1> DEFINE p == Setup!ClientParts(m)
<1>10. \A b \in p.breakers :
         /\ b.width > 0 /\ b.buckets > 0 /\ b.samples > 0 /\ b.open > 0
         /\ b.maxOpen > 0 /\ b.probes > 0 /\ b.successes > 0 /\ b.ratio \in 0 .. 100
  <2>1. p.breakers = {Setup!BreakerConfig(m.endpoint, m), Setup!BreakerConfig(m.service, m)}
    BY DEF Setup!ClientParts
  <2> HIDE DEF p
  <2> QED
    BY <1>9, <2>1, SoundBreaker
<1>11. \A d \in p.delays : 0 < d[1] /\ d[1] <= d[2]
  <2>1. p.delays = {<<m.retry.backoff_base, m.retry.backoff_cap>>,
                    <<m.discovery.reconnect_base, m.discovery.reconnect_cap>>}
    BY DEF Setup!ClientParts
  <2> HIDE DEF p
  <2> QED
    BY <1>6, <1>7, <2>1
<1>12. \A d \in p.deadlines : d > 0
  <2>1. p.deadlines = {m.client.request_timeout, m.client.connect_timeout,
                       m.client.shutdown_timeout, m.discovery.initial_timeout,
                       m.discovery.operation_timeout, m.discovery.close_timeout}
    BY DEF Setup!ClientParts
  <2> HIDE DEF p
  <2> QED
    BY <1>3, <1>6, <2>1
<1>13. /\ p.gate = m.admission.max_in_flight /\ p.queue = m.queue.capacity
       /\ p.wait = m.queue.max_wait
       /\ p.requestBudget = m.admission.max_inflight_request_body_bytes
       /\ p.responseBudget = m.admission.max_inflight_response_body_bytes
       /\ p.requestBody = m.admission.max_request_body_bytes
       /\ p.responseBody = m.admission.max_response_body_bytes
       /\ p.shards = m.client_http.http2_connections_per_host
       /\ p.entries = m.circuit_breaker.max_endpoint_entries
       /\ p.attempts = m.retry.max_attempts /\ p.tokens = m.retry.budget_capacity
  BY DEF Setup!ClientParts
<1> HIDE DEF p
<1>14. Setup!IsSound(p)
  BY <1>4, <1>5, <1>7, <1>8, <1>9, <1>10, <1>11, <1>12, <1>13 DEF Setup!IsSound
<1> QED
  BY <1>14 DEF p

\* And so does a server configuration.
LEMMA SoundServer ==
  ASSUME NEW m, Filled(m), Setup!ServerFaults(m) = {}
  PROVE  Setup!IsSound(Setup!ServerParts(m))
<1>1. /\ IsSection("request", m.request) /\ IsSection("server_http", m.server_http)
      /\ IsSection("registry", m.registry) /\ IsSection("server", m.server)
  BY DEF Filled, Sections, Setup!Defaults
<1>2. /\ Setup!RequestFaults(m.request) = {} /\ Setup!ServerHttpFaults(m.server_http) = {}
      /\ Setup!RegistryFaults(m.registry) = {}
      /\ Setup!Zero(m.server, {"graceful_shutdown_timeout"}) = {}
  BY DEF Setup!ServerFaults
<1>3. /\ m.request.timeout > 0 /\ m.request.max_concurrent_requests > 0
      /\ m.request.max_request_body_bytes > 0 /\ m.request.max_response_body_bytes > 0
      /\ m.request.max_request_body_bytes <= m.request.max_inflight_request_body_bytes
      /\ m.request.max_response_body_bytes <= m.request.max_inflight_response_body_bytes
      /\ m.request.queue_capacity > 0 => m.request.queue_max_wait > 0
  <2>1. /\ m.request.timeout \in Nat /\ m.request.max_concurrent_requests \in Nat
        /\ m.request.max_request_body_bytes \in Nat
        /\ m.request.max_response_body_bytes \in Nat
        /\ m.request.max_inflight_request_body_bytes \in Nat
        /\ m.request.max_inflight_response_body_bytes \in Nat
        /\ m.request.queue_capacity \in Nat /\ m.request.queue_max_wait \in Nat
    BY <1>1 DEF IsSection, Loose, Setup!Defaults, Setup!ServerRequestConfig
  <2>2. /\ m.request.timeout # 0 /\ m.request.max_concurrent_requests # 0
        /\ m.request.max_request_body_bytes # 0 /\ m.request.max_response_body_bytes # 0
        /\ ~(m.request.queue_capacity > 0 /\ m.request.queue_max_wait = 0)
        /\ Setup!BudgetFaults(m.request) = {}
    BY <1>2 DEF Setup!RequestFaults, Setup!Zero
  <2>3. /\ m.request.max_request_body_bytes <= m.request.max_inflight_request_body_bytes
        /\ m.request.max_response_body_bytes <= m.request.max_inflight_response_body_bytes
    BY <2>1, <2>2, BodyFits
  <2> QED
    BY <2>1, <2>2, <2>3
<1>4. m.server_http.max_connections > 0 /\ m.server_http.http1_header_read_timeout > 0
  <2>1. /\ m.server_http.max_connections \in Nat
        /\ m.server_http.http1_header_read_timeout \in Nat
    BY <1>1 DEF IsSection, Loose, Setup!Defaults, Setup!HttpServerConfig
  <2>2. m.server_http.max_connections # 0 /\ m.server_http.http1_header_read_timeout # 0
    BY <1>2 DEF Setup!ServerHttpFaults, Setup!Zero
  <2> QED
    BY <2>1, <2>2
<1>5. /\ m.registry.startup_timeout > 0 /\ m.registry.operation_timeout > 0
      /\ m.registry.max_concurrent_operations > 0
  <2>1. /\ m.registry.startup_timeout \in Nat /\ m.registry.operation_timeout \in Nat
        /\ m.registry.max_concurrent_operations \in Nat
    BY <1>1 DEF IsSection, Loose, Setup!Defaults, Setup!ServerRegistryConfig
  <2> QED
    BY <1>2, <2>1 DEF Setup!RegistryFaults, Setup!Zero
<1>6. m.server.graceful_shutdown_timeout > 0
  <2>1. m.server.graceful_shutdown_timeout \in Nat
    BY <1>1 DEF IsSection, Loose, Setup!Defaults, Setup!ServerConfig
  <2> QED
    BY <1>2, <2>1 DEF Setup!Zero
<1> DEFINE p == Setup!ServerParts(m)
<1>7. /\ p.gate = m.request.max_concurrent_requests /\ p.queue = m.request.queue_capacity
      /\ p.wait = m.request.queue_max_wait
      /\ p.requestBudget = m.request.max_inflight_request_body_bytes
      /\ p.responseBudget = m.request.max_inflight_response_body_bytes
      /\ p.requestBody = m.request.max_request_body_bytes
      /\ p.responseBody = m.request.max_response_body_bytes
      /\ p.shards = m.server_http.max_connections /\ p.breakers = {}
      /\ p.entries = m.registry.max_concurrent_operations
      /\ p.attempts = 1 /\ p.delays = {} /\ p.tokens = 1
  BY DEF Setup!ServerParts
<1>8. \A d \in p.deadlines : d > 0
  <2>1. p.deadlines = {m.request.timeout, m.registry.startup_timeout,
                       m.registry.operation_timeout, m.server.graceful_shutdown_timeout,
                       m.server_http.http1_header_read_timeout}
    BY DEF Setup!ServerParts
  <2> HIDE DEF p
  <2> QED
    BY <1>3, <1>4, <1>5, <1>6, <2>1
<1> HIDE DEF p
<1>9. Setup!IsSound(p)
  BY <1>3, <1>4, <1>5, <1>7, <1>8 DEF Setup!IsSound
<1> QED
  BY <1>9 DEF p

\* Setters keep sections, and what is validated when it is built is validated
\* again, as a whole, before anything is made of it.
LEMMA SetupStepInv == Unsigned /\ SetupInv /\ [Setup!Next]_(Setup!vars) => SetupInv'
<1> SUFFICES ASSUME Unsigned, SetupInv, [Setup!Next]_(Setup!vars) PROVE SetupInv'
  OBVIOUS
<1>1. CASE UNCHANGED Setup!vars
  BY <1>1 DEF SetupInv, Filled, Setup!vars, Setup!WhatIsBuiltIsSound
<1>2. ASSUME NEW section \in Sections, Setup!Begin(section) PROVE SetupInv'
  <2>1. PICK c \in IF section \in {"endpoint", "service"}
                     THEN {Setup!EndpointThreshold, Setup!ServiceThreshold}
                     ELSE {Setup!Defaults[section]} :
          draft' = {[section |-> section, fields |-> c]}
    BY <1>2 DEF Setup!Begin
  <2>2. UNCHANGED <<made, sets, phase, fault, parts>>
    BY <1>2 DEF Setup!Begin
  <2>3. IsSection(section, c)
    <3>1. CASE section \notin {"endpoint", "service"}
      BY <2>1, <3>1, DefaultsFilled DEF Filled
    <3>2. CASE section \in {"endpoint", "service"}
      BY <2>1, <3>2
         DEF IsSection, Loose, Setup!Defaults, Setup!EndpointThreshold, Setup!ServiceThreshold
    <3> QED
      BY <3>1, <3>2
  <2> DEFINE d == [section |-> section, fields |-> c]
  <2>4. DOMAIN d = {"section", "fields"} /\ d.section = section /\ d.fields = c
    OBVIOUS
  <2>5. draft' = {d}
    BY <2>1
  <2> HIDE DEF d
  <2>6. Filled(made)' /\ Setup!WhatIsBuiltIsSound'
    BY <2>2 DEF SetupInv, Filled, Setup!WhatIsBuiltIsSound
  <2> QED
    BY <1>2, <2>3, <2>4, <2>5, <2>6 DEF SetupInv
<1>3. ASSUME NEW section, NEW fields, NEW values,
             values \subseteq Nat \/ fields \subseteq Loose,
             Setup!Set(section, fields, values)
      PROVE  SetupInv'
  BY <1>3, SetKeeps
<1>4. CASE \/ Setup!SetQueue \/ Setup!SetAdmission \/ Setup!SetDiscovery
           \/ Setup!SetCircuitBreaker \/ Setup!SetClient \/ Setup!SetRequest
           \/ Setup!SetRegistry
  BY <1>3, <1>4, Zenon
     DEF Unsigned, Setup!SetQueue, Setup!SetAdmission, Setup!SetDiscovery,
         Setup!SetCircuitBreaker, Setup!SetClient, Setup!SetRequest, Setup!SetRegistry
<1>5. CASE Setup!SetRetry \/ Setup!SetThreshold
  <2>1. {"failure_ratio"} \subseteq Loose
    BY DEF Loose
  <2> QED
    BY <1>3, <1>5, <2>1, Zenon DEF Unsigned, Setup!SetRetry, Setup!SetThreshold
<1>6. CASE Setup!SetClientHttp \/ Setup!SetServerHttp \/ Setup!SetServer
  <2>1. /\ {"pool_idle_timeout", "http2_keep_alive_interval"} \subseteq Loose
        /\ {"http2_keep_alive_interval"} \subseteq Loose /\ {"bindings"} \subseteq Loose
    BY DEF Loose
  <2> QED
    BY <1>3, <1>6, <2>1, Zenon
       DEF Unsigned, Setup!SetClientHttp, Setup!SetServerHttp, Setup!SetServer
<1>7. CASE Setup!Build
  <2>1. PICK d \in draft :
          \/ made' = Setup!Defaults /\ phase' = "rejected"
          \/ made' = [made EXCEPT ![d.section] = d.fields] /\ UNCHANGED phase
    BY <1>7, Zenon DEF Setup!Build, Setup!Reject
  <2>2. draft' = {} /\ UNCHANGED parts
    BY <1>7, Zenon DEF Setup!Build
  <2>3. Filled(made)'
    <3>1. Filled([made EXCEPT ![d.section] = d.fields])
      BY DEF SetupInv, Filled
    <3> QED
      BY <2>1, <3>1, DefaultsFilled
  <2>4. Setup!WhatIsBuiltIsSound'
    BY <2>1, <2>2 DEF SetupInv, Setup!WhatIsBuiltIsSound
  <2> QED
    BY <2>2, <2>3, <2>4 DEF SetupInv
<1>8. CASE Setup!BuildRuntime
  <2>1. draft = {} /\ UNCHANGED draft
    BY <1>8 DEF Setup!BuildRuntime
  <2>2. \/ made' = Setup!Defaults /\ phase' = "rejected"
        \/ /\ Setup!ClientFaults(made) = {}
           /\ made' = Setup!Defaults /\ parts' = {Setup!ClientParts(made)}
    BY <1>8 DEF Setup!BuildRuntime, Setup!Reject
  <2>3. Setup!WhatIsBuiltIsSound'
    BY <2>2, SoundClient DEF SetupInv, Setup!WhatIsBuiltIsSound
  <2> QED
    BY <2>1, <2>2, <2>3, DefaultsFilled DEF SetupInv
<1>9. CASE Setup!BuildServer
  <2>1. draft = {} /\ UNCHANGED draft
    BY <1>9 DEF Setup!BuildServer
  <2>2. \/ made' = Setup!Defaults /\ phase' = "rejected"
        \/ /\ Setup!ServerFaults(made) = {}
           /\ made' = Setup!Defaults /\ parts' = {Setup!ServerParts(made)}
    BY <1>9 DEF Setup!BuildServer, Setup!Reject
  <2>3. Setup!WhatIsBuiltIsSound'
    BY <2>2, SoundServer DEF SetupInv, Setup!WhatIsBuiltIsSound
  <2> QED
    BY <2>1, <2>2, <2>3, DefaultsFilled DEF SetupInv
<1> QED
  BY <1>1, <1>2, <1>4, <1>5, <1>6, <1>7, <1>8, <1>9 DEF Setup!Next, Sections

\* Whatever callers set, in whatever order sections are built, a client or a server
\* that comes into being was given limits, budgets, windows, delays and deadlines
\* that its components can rely on.
THEOREM BuiltIsSound ==
  ASSUME Unsigned
  PROVE  Setup!Spec => []Setup!WhatIsBuiltIsSound
<1>1. Setup!Init => SetupInv
  BY DefaultsFilled DEF Setup!Init, SetupInv, Setup!WhatIsBuiltIsSound
<1>2. SetupInv /\ [Setup!Next]_(Setup!vars) => SetupInv'
  BY SetupStepInv
<1>3. SetupInv => Setup!WhatIsBuiltIsSound
  BY DEF SetupInv
<1> QED
  BY <1>1, <1>2, <1>3, PTL DEF Setup!Spec
=============================================================================
