------------------------------- MODULE HotConfig -------------------------------
(***************************************************************************)
(* A hot configuration handle, its publisher and its typed views           *)
(* (fusen-config/src/hot.rs), fed by the Nacos source                      *)
(* (fusen-nacos/src/config.rs).                                            *)
(*                                                                         *)
(* The listener is registered before the document is fetched, so that a    *)
(* change may be published before, between and after the two, and the      *)
(* fetched document may be older than the published one.  Every holder of  *)
(* the handle may activate it, build a typed view, close it or drop it at  *)
(* any time, and a task per view parses what the publisher holds.          *)
(*                                                                         *)
(* A document is the version of the resource it was made from.  Its kind   *)
(* says whether its media type is known and whether it parses.             *)
(***************************************************************************)
EXTENDS Naturals, Sequences, FiniteSets

CONSTANTS Users,        \* the holders of a clone of the handle
          Viewers,      \* those of them that build a typed view
          MaxVersions   \* bound on the versions of the resource

ASSUME UsersAssumption == 
  IsFiniteSet(Users) /\ Users # {} /\ Viewers \subseteq Users
ASSUME VersionsAssumption == MaxVersions \in Nat \ {0}

VARIABLES
  kinds,          \* the kind of each version the server has had
  listening,      \* the SDK has the listener
  notified,       \* the last version the SDK has notified
  start,          \* StartState
  closeRequested, \* the flag of request_close
  closeSignal,    \* close_request, as the worker sees it
  activation,     \* activation_result
  closing,        \* close_result
  wpc,            \* where the LifecycleWorker is
  fetched,        \* what the activation future has returned
  baseline,       \* PublisherState.baseline, 0 if none
  raw,            \* the RawSnapshot in the channel, with the revision
  upc,            \* where each user is
  intent,         \* why a user is inside request_close
  view            \* each user's typed view and its task

sourceVars == <<kinds, listening, notified>>
lifecycleVars == <<start, closeRequested, closeSignal, activation, closing>>
workerVars == <<wpc, fetched>>
publisherVars == <<baseline, raw>>
userVars == <<upc, intent>>
vars == <<sourceVars, lifecycleVars, workerVars, publisherVars, userVars, view>>

Kinds == {"good", "unparsable", "unsupported"}
NoDocument == 0
Versions == 1 .. MaxVersions

\* parse succeeds
Good(doc) == doc # NoDocument /\ kinds[doc] = "good"

NoView == [task |-> "none", seen |-> 0, doc |-> NoDocument, error |-> FALSE,
           buffer |-> NoDocument]

Init ==
  /\ kinds \in {<<k>> : k \in Kinds}
  /\ listening = FALSE
  /\ notified = 0
  /\ start = "prepared"
  /\ closeRequested = FALSE
  /\ closeSignal = FALSE
  /\ activation = "none"
  /\ closing = "none"
  /\ wpc = "none"
  /\ fetched = "none"
  /\ baseline = NoDocument
  /\ raw = [doc |-> NoDocument, closed |-> FALSE, revision |-> 0]
  /\ upc = [u \in Users |-> "idle"]
  /\ intent = [u \in Users |-> "none"]
  /\ view = [u \in Viewers |-> NoView]

-----------------------------------------------------------------------------
(***************************************************************************)
(* ConfigPublisher, under its lock                                         *)
(***************************************************************************)

Replaced(r, doc) == [doc |-> doc, closed |-> FALSE, revision |-> r.revision + 1]

\* publish
Publish(doc) ==
  IF raw.closed THEN UNCHANGED publisherVars
  ELSE raw' = Replaced(raw, doc) /\ UNCHANGED baseline

\* What was fetched replaces what the listener has published.
PublishInitialOver(doc) ==
  IF raw.closed THEN UNCHANGED publisherVars
  ELSE baseline' = doc /\ raw' = Replaced(raw, doc)

\* publish_initial
PublishInitial(doc) ==
  IF raw.closed THEN UNCHANGED publisherVars
  ELSE /\ baseline' = doc
       /\ raw' = IF raw.doc = NoDocument THEN Replaced(raw, doc) ELSE raw

\* finish_publisher
Finished(r) ==
  IF r.closed THEN r
  ELSE [r EXCEPT !.closed = TRUE, !.revision = @ + 1]

-----------------------------------------------------------------------------
(***************************************************************************)
(* The resource and the listener: the Nacos server and its SDK             *)
(***************************************************************************)

ResourceChanges ==
  /\ Len(kinds) < MaxVersions
  /\ \E k \in Kinds : kinds' = Append(kinds, k)
  /\ UNCHANGED <<listening, notified, lifecycleVars, workerVars, publisherVars,
                 userVars, view>>

\* NacosConfigChangeListener::notify with the newest version.
Notify ==
  /\ listening
  /\ notified < Len(kinds)
  /\ notified' = Len(kinds)
  /\ IF kinds[Len(kinds)] = "unsupported" THEN UNCHANGED publisherVars
     ELSE Publish(Len(kinds))
  /\ UNCHANGED <<kinds, listening, lifecycleVars, workerVars, userVars, view>>

-----------------------------------------------------------------------------
(***************************************************************************)
(* LifecycleWorker::run with the operations of NacosConfigSource::prepare  *)
(***************************************************************************)

\* add_listener returns; when it fails the listener may be registered or not.
AddListener ==
  /\ wpc = "adding"
  /\ \/ wpc' = "getting" /\ fetched' = fetched /\ listening' = TRUE
     \/ wpc' = "settling" /\ fetched' = "failed" /\ listening' \in BOOLEAN
  /\ UNCHANGED <<kinds, notified, lifecycleVars, publisherVars, userVars, view>>

\* get answers with some version: the newest, or one the server had when asked.
\* The document is handed to publish_initial.
Get ==
  /\ wpc = "getting"
  /\ wpc' = "settling"
  /\ \/ \E v \in 1 .. Len(kinds) :
          /\ kinds[v] # "unsupported"
          /\ fetched' = IF raw.closed THEN "failed" ELSE "ok"
          /\ PublishInitial(v)
     \/ /\ fetched' = "failed"
        /\ UNCHANGED publisherVars
  /\ UNCHANGED <<sourceVars, lifecycleVars, userVars, view>>

\* The activation result is published, as cancelled if a close was requested.
PublishActivation ==
  /\ wpc = "settling"
  /\ activation' = IF closeSignal /\ fetched = "ok" THEN "cancelled" ELSE fetched
  /\ wpc' = "settled"
  /\ fetched' = "none"
  /\ UNCHANGED <<sourceVars, start, closeRequested, closeSignal, closing,
                 publisherVars, userVars, view>>

\* The worker sees the request, before it waits or when it is woken.
StartCleanup ==
  /\ wpc = "settled"
  /\ closeSignal
  /\ wpc' = "cleaning"
  /\ UNCHANGED <<sourceVars, lifecycleVars, fetched, publisherVars, userVars, view>>

\* remove_listener returns, the publisher is finished, the result published.
FinishCleanup ==
  /\ wpc = "cleaning"
  /\ wpc' = "ended"
  /\ \/ closing' = "ok" /\ listening' = FALSE
     \/ closing' = "failed" /\ listening' = listening
  /\ raw' = Finished(raw)
  /\ UNCHANGED <<kinds, notified, start, closeRequested, closeSignal, activation,
                 fetched, baseline, userVars, view>>

\* LifecycleWorker::drop when the runtime goes away.
Abort ==
  /\ wpc \in {"adding", "getting", "settling", "settled", "cleaning"}
  /\ wpc' = "ended"
  /\ raw' = Finished(raw)
  /\ activation' = IF activation = "none" THEN "aborted" ELSE activation
  /\ closing' = "aborted"
  /\ UNCHANGED <<sourceVars, start, closeRequested, closeSignal, fetched,
                 baseline, userVars, view>>

-----------------------------------------------------------------------------
(***************************************************************************)
(* The handle                                                              *)
(***************************************************************************)

\* publish_pre_activation_close and finish_before_start
FinishUnstarted(result) ==
  /\ start' = "finished"
  /\ raw' = Finished(raw)
  /\ activation' = result
  /\ closing' = "ok"

\* The first poll of activate, inside a runtime: ensure_started.
Activate(u) ==
  /\ upc[u] = "idle"
  /\ upc' = [upc EXCEPT ![u] = "activating"]
  /\ \/ /\ start = "prepared" /\ ~closeRequested
        /\ start' = "started"
        /\ wpc' = "adding"
        /\ UNCHANGED <<raw, activation, closing>>
     \/ /\ start = "prepared" /\ closeRequested
        /\ FinishUnstarted("cancelled")
        /\ UNCHANGED wpc
     \/ /\ start # "prepared"
        /\ UNCHANGED <<start, wpc, raw, activation, closing>>
  /\ UNCHANGED <<sourceVars, closeRequested, closeSignal, fetched, baseline,
                 intent, view>>

\* The same outside a runtime: the caller gets an error of its own.
ActivateOutsideRuntime(u) ==
  /\ upc[u] = "idle"
  /\ activation = "none"
  /\ IF start = "prepared" THEN FinishUnstarted("failed")
     ELSE UNCHANGED <<start, raw, activation, closing>>
  /\ UNCHANGED <<sourceVars, closeRequested, closeSignal, workerVars, baseline,
                 userVars, view>>

Activated(u) ==
  /\ upc[u] = "activating"
  /\ activation # "none"
  /\ upc' = [upc EXCEPT ![u] = "idle"]
  /\ UNCHANGED <<sourceVars, lifecycleVars, workerVars, publisherVars, intent, view>>

\* close, and the drop of the last clone of the handle; request_close is a close
\* whose answer is not awaited.  A view holds a clone, and goes with its user's.
LastHolder(u) == \A v \in Users \ {u} : upc[v] = "gone"

Dropped(u) ==
  IF u \in Viewers /\ view[u].task # "none"
    THEN [view EXCEPT ![u].task = "orphaned"] ELSE view

RequestClose(u, why) ==
  /\ upc[u] = "idle"
  /\ why = "drop" => LastHolder(u)
  /\ upc' = [upc EXCEPT ![u] = "swap"]
  /\ intent' = [intent EXCEPT ![u] = why]
  /\ view' = IF why = "drop" THEN Dropped(u) ELSE view
  /\ UNCHANGED <<sourceVars, lifecycleVars, workerVars, publisherVars>>

DropHandle(u) ==
  /\ upc[u] = "idle"
  /\ ~LastHolder(u)
  /\ upc' = [upc EXCEPT ![u] = "gone"]
  /\ view' = Dropped(u)
  /\ UNCHANGED <<sourceVars, lifecycleVars, workerVars, publisherVars, intent>>

Swap(u) ==
  /\ upc[u] = "swap"
  /\ closeRequested' = TRUE
  /\ upc' = [upc EXCEPT ![u] = IF closeRequested THEN "lock" ELSE "send"]
  /\ UNCHANGED <<sourceVars, start, closeSignal, activation, closing, workerVars,
                 publisherVars, intent, view>>

Send(u) ==
  /\ upc[u] = "send"
  /\ closeSignal' = TRUE
  /\ upc' = [upc EXCEPT ![u] = "lock"]
  /\ UNCHANGED <<sourceVars, start, closeRequested, activation, closing,
                 workerVars, publisherVars, intent, view>>

\* A close of a handle that was never started publishes nothing.
LockSilent(u) ==
  /\ upc[u] = "lock"
  /\ start' = IF start = "prepared" THEN "finished" ELSE start
  /\ upc' = [upc EXCEPT ![u] = IF intent[u] = "drop" THEN "gone" ELSE "closing"]
  /\ intent' = [intent EXCEPT ![u] = "none"]
  /\ UNCHANGED <<sourceVars, closeRequested, closeSignal, activation, closing,
                 workerVars, publisherVars, view>>

\* A close that takes a started handle for a prepared one.
LockAlways(u) ==
  /\ upc[u] = "lock"
  /\ FinishUnstarted("cancelled")
  /\ upc' = [upc EXCEPT ![u] = IF intent[u] = "drop" THEN "gone" ELSE "closing"]
  /\ intent' = [intent EXCEPT ![u] = "none"]
  /\ UNCHANGED <<sourceVars, closeRequested, closeSignal, workerVars, baseline,
                 view>>

\* What request_close does under the lock.
Lock(u) ==
  /\ upc[u] = "lock"
  /\ IF start = "prepared" THEN FinishUnstarted("cancelled")
     ELSE UNCHANGED <<start, raw, activation, closing>>
  /\ upc' = [upc EXCEPT ![u] = IF intent[u] = "drop" THEN "gone" ELSE "closing"]
  /\ intent' = [intent EXCEPT ![u] = "none"]
  /\ UNCHANGED <<sourceVars, closeRequested, closeSignal, workerVars, baseline,
                 view>>

Closed(u) ==
  /\ upc[u] = "closing"
  /\ closing # "none"
  /\ upc' = [upc EXCEPT ![u] = "idle"]
  /\ UNCHANGED <<sourceVars, lifecycleVars, workerVars, publisherVars, intent, view>>

\* The future of activate or close is dropped.
Cancel(u) ==
  /\ upc[u] \in {"activating", "closing"}
  /\ upc' = [upc EXCEPT ![u] = "idle"]
  /\ UNCHANGED <<sourceVars, lifecycleVars, workerVars, publisherVars, intent, view>>

-----------------------------------------------------------------------------
(***************************************************************************)
(* Typed views                                                             *)
(***************************************************************************)

\* What was fetched before what was published since.
FirstValueFetched == IF Good(baseline) THEN baseline
                     ELSE IF Good(raw.doc) THEN raw.doc
                     ELSE NoDocument

\* The last good of what was fetched and what is in the channel.
FirstValue == IF Good(raw.doc) THEN raw.doc
              ELSE IF Good(baseline) THEN baseline
              ELSE NoDocument

\* typed, when it returns a view; the receiver has seen the channel's value.
Typed(u) ==
  /\ upc[u] = "idle"
  /\ view[u].task = "none"
  /\ activation = "ok"
  /\ ~raw.closed
  /\ FirstValue # NoDocument
  /\ view' = [view EXCEPT ![u] =
       [task |-> "waiting", seen |-> raw.revision, doc |-> FirstValue,
        error |-> ~Good(raw.doc), buffer |-> NoDocument]]
  /\ UNCHANGED <<sourceVars, lifecycleVars, workerVars, publisherVars, userVars>>

\* The task of the view takes what is in the channel.
TakeSnapshot(u) ==
  /\ view[u].task = "waiting"
  /\ view[u].seen # raw.revision
  /\ view' = [view EXCEPT ![u].seen = raw.revision,
                          ![u].task = IF raw.closed THEN "ended" ELSE "parsing",
                          ![u].buffer = IF raw.closed THEN NoDocument ELSE raw.doc]
  /\ UNCHANGED <<sourceVars, lifecycleVars, workerVars, publisherVars, userVars>>

\* A rejected update leaves an error and keeps the value.
ParseSnapshot(u) ==
  /\ view[u].task = "parsing"
  /\ view' = [view EXCEPT ![u] =
       IF Good(view[u].buffer)
         THEN [@ EXCEPT !.task = "waiting", !.doc = view[u].buffer,
                        !.error = FALSE, !.buffer = NoDocument]
         ELSE [@ EXCEPT !.task = "waiting", !.error = TRUE, !.buffer = NoDocument]]
  /\ UNCHANGED <<sourceVars, lifecycleVars, workerVars, publisherVars, userVars>>

\* sender.closed(): every receiver of the view is gone.
TaskEnds(u) ==
  /\ view[u].task = "orphaned"
  /\ view' = [view EXCEPT ![u] = NoView]
  /\ UNCHANGED <<sourceVars, lifecycleVars, workerVars, publisherVars, userVars>>

-----------------------------------------------------------------------------
Worker == PublishActivation \/ StartCleanup
Provider == AddListener \/ Get \/ FinishCleanup
Task(u) == TakeSnapshot(u) \/ ParseSnapshot(u) \/ TaskEnds(u)
Closer(u) == Swap(u) \/ Send(u) \/ Lock(u)
Answered(u) == Activated(u) \/ Closed(u)

Next ==
  \/ ResourceChanges
  \/ Notify
  \/ Provider
  \/ Worker
  \/ Abort
  \/ \E u \in Users :
       \/ Activate(u) \/ ActivateOutsideRuntime(u) \/ Answered(u) \/ Cancel(u)
       \/ DropHandle(u) \/ Closer(u)
       \/ \E why \in {"close", "drop"} : RequestClose(u, why)
  \/ \E u \in Viewers : Typed(u) \/ Task(u)

Spec == Init /\ [][Next]_vars

\* The runtime polls what is woken, the SDK delivers what the listener has not
\* been told of, and the operations of the provider end.
Fairness ==
  /\ WF_vars(Worker)
  /\ WF_vars(Provider)
  /\ WF_vars(Notify)
  /\ \A u \in Users : WF_vars(Closer(u)) /\ WF_vars(Answered(u))
  /\ \A u \in Viewers : WF_vars(Task(u))

FairSpec == Spec /\ Fairness

-----------------------------------------------------------------------------
(***************************************************************************)
(* Properties                                                              *)
(***************************************************************************)

\* Where the lifecycle is, as ProviderContract sees it.
Phase == CASE start = "prepared" -> "prepared"
           [] closing # "none" -> "over"
           [] wpc \in {"adding", "getting", "settling"} -> "activating"
           [] wpc = "settled" -> "settled"
           [] wpc = "cleaning" -> "cleaning"
           [] OTHER -> "over"

Contract == INSTANCE ProviderContract WITH phase <- Phase

\* The handle of a configuration keeps the promises that the handle of a
\* registration keeps: one activation, one cleanup, in order, results published
\* once, and a close that reports success is real.
ImplementsContract == Contract!Spec

\* A typed view only ever shows a document that parses; and once its task has
\* taken what is in the channel, it shows that or says that it was rejected.
LastGood ==
  \A u \in Viewers :
    LET v == view[u] IN
    /\ v.task # "none" => Good(v.doc)
    /\ v.task = "waiting" /\ v.seen = raw.revision /\ ~raw.closed =>
         IF Good(raw.doc) THEN v.doc = raw.doc /\ ~v.error ELSE v.error

\* As long as the handle is open, a view comes to show the newest version of the
\* resource if that version is good, whatever was fetched and notified before it
\* in whichever order; and a view whose handle is closed ends.
ViewFollows ==
  \A u \in Viewers :
    LET live == view[u].task \in {"waiting", "parsing"} IN
    /\ (live /\ Good(Len(kinds)))
         ~> \/ view[u].doc = Len(kinds) \/ ~Good(Len(kinds)) \/ ~live
    /\ (live /\ raw.closed) ~> ~live

\* Every activate and close is answered, and when every holder is gone the
\* listener is removed unless the provider or the runtime failed.
NothingLeftBehind ==
  /\ \A u \in Users : /\ upc[u] = "activating" ~> upc[u] # "activating"
                      /\ upc[u] = "closing" ~> upc[u] # "closing"
  /\ (\A u \in Users : upc[u] = "gone") ~> closing # "none"

\* Readers and holders of a hot configuration come to rest: every typed view reaches
\* the newest document if it is a good one, or ends with the raw one, every activate and
\* close is answered, and the listener goes when its holders have gone.
SettlesDown == ViewFollows /\ NothingLeftBehind
=============================================================================
