------------------------ MODULE ServerLifecycleProofs ------------------------
(***************************************************************************)
(* Proofs about ServerLifecycle for every number of registrations and      *)
(* every set of connections, with any limits.                              *)
(*                                                                         *)
(* The coordinator, the accept task, the connections and the providers     *)
(* move independently.  The inductive invariant says what the place of the *)
(* coordinator implies for what it publishes (Stages), how a registration  *)
(* and its activation belong together (Registered), who can be connected   *)
(* or inside (Visitors), what the accept task's place implies (Accepting), *)
(* how far the closes are (Closes), how many operations run (Counts), and  *)
(* what the terminal result means (Outcome).                               *)
(*                                                                         *)
(* The second part is about HttpBinding, the routes such a server starts   *)
(* with and serves: what the macro accepts is what the contract and the    *)
(* route table accept (AcceptedEverywhere), and the search for a route     *)
(* finds the best one (BestIsFound), by induction from the end of the path.*)
(*                                                                         *)
(* The third part is about a call over such a binding: what the client     *)
(* writes into the request is what the server reads from it (CallInv, and  *)
(* one lemma for each part of a request), so the method that is found is   *)
(* the one that was called and gets its arguments, or the call is one of   *)
(* the exceptions DeliveredAsCalled lists.                                 *)
(***************************************************************************)
EXTENDS ServerLifecycle, Sequences, FiniteSetTheorems, WellFoundedInduction, TLAPS

Starting == {"spawned", "activate"}
Ending == {"finish", "finished"}
Shut == {"closed", "draining", "ended", "dead"}

\* What the coordinator has published by the place it is at.
Stages ==
  /\ cpc \in Starting => readiness = "NotReady" /\ sres = "none" /\ asked = {}
  /\ cpc = "ready" => readiness = "Ready" /\ sres = "none" /\ asked = {}
  /\ cpc = "begin" => readiness \in {"NotReady", "Ready"}
  /\ cpc \in {"listener", "drain", "finish"} => readiness = "Draining"
  /\ cpc = "finished" => readiness = "Stopped"
  /\ gate = "open" <=> cpc \in {"spawned", "activate", "ready", "begin"}
  /\ readiness = "Ready" => sres = "none"
  /\ state = "Draining" => cpc \in {"drain", "finish"}
  /\ result # "none" <=> cpc \in Ending

\* A registration by its phase; those of a startup that succeeded are activated.
Registered ==
  /\ \A r \in Regs :
       /\ phase[r] \in {"planned", "prepared", "activating"} => activation[r] = "none"
       /\ phase[r] = "over" <=> closing[r] # "none"
       /\ phase[r] \in {"cleaning", "over"} => r \in asked
       /\ r \in asked => phase[r] # "planned"
       /\ act[r] = "done" => activation[r] = "ok"
       /\ act[r] = "running" => phase[r] \notin {"planned", "prepared"}
       /\ act[r] = "queued" => phase[r] \in {"planned", "prepared", "over"}
  /\ cpc = "spawned" => \A r \in Regs : phase[r] = "planned"
  /\ cpc \notin Starting /\ sres = "none" => \A r \in Regs : act[r] = "done"

\* Who is inside, or past the check of readiness, came to a server that was ready.
Visitors ==
  /\ \A c \in inside : conn[c] # "none"
  /\ inside # {} \/ (\E c \in Connections : conn[c] = "checked")
       => cpc \notin Starting /\ sres = "none"

\* What the accept task's place implies, and when it must have closed the listener.
Accepting ==
  /\ tpc = "none" <=> cpc = "spawned"
  /\ tpc \in Shut => ~listening
  /\ fatal => tpc \in Shut
  /\ tpc \in {"none", "accepting", "backoff"} => failures < FatalAfter
  /\ tpc = "ended" /\ ~late => Open = {}
  /\ cpc = "drain" \/ state = "Draining" \/ (\E r \in Regs : cl[r] # "todo")
       => tpc \in {"draining", "ended", "dead"}

\* Nothing is cut off before the deadline.
Overdue == force \/ late => expired

\* How far close_registrations is.
Closes ==
  /\ \A r \in Regs : cl[r] # "todo" => cpc = "drain" \/ cpc \in Ending
  /\ \A r \in Regs : cl[r] = "ok" => closing[r] = "ok"
  /\ \A r \in Regs : cl[r] = "skipped" => expired
  /\ \A r, q \in Tracked : r < q /\ cl[r] # "todo" => cl[q] # "todo"

Counts ==
  /\ Cardinality(InFlight) <= Concurrency
  /\ Cardinality(Running) <= Concurrency

\* What the terminal result says.
Outcome ==
  /\ result = "Ok" => /\ tpc = "ended" /\ ~late /\ sres = "none"
                      /\ \A r \in Regs : cl[r] = "ok"
  /\ result \notin {"none", "Accept", "Timeout"} => tpc = "ended" /\ ~fatal
  /\ result = "Timeout" => TimedOut
  /\ result # "none" /\ ~expired =>
       \A r \in Tracked : cl[r] \in {"ok", "failed", "timeout"}

Inv ==
  /\ TypeOK /\ Stages /\ Registered /\ Visitors /\ Accepting /\ Overdue
  /\ Closes /\ Counts /\ Outcome

-----------------------------------------------------------------------------
(***************************************************************************)
(* Types                                                                   *)
(***************************************************************************)

\* The groups of variables that TypeOK speaks of.
CallerType == spc \in {"waiting", "running", "failed", "dropped", "stopping"} /\ token \in BOOLEAN

PlaceType ==
  /\ cpc \in {"spawned", "activate", "ready", "begin", "listener", "drain", "finish",
              "finished"}
  /\ state \in SeqSet(ServerStates) /\ readiness \in SeqSet(ReadinessStates)

ResultType ==
  /\ sres \in {"none", "Startup", "Accept", "Registry"}
  /\ reply \in Results \union {"none"} /\ result \in Results \union {"none"}

FlagType ==
  /\ expired \in BOOLEAN /\ force \in BOOLEAN
  /\ fatalSeen \in BOOLEAN /\ listenerErr \in BOOLEAN /\ cmd \in BOOLEAN

HandleType ==
  /\ phase \in [Regs -> {"planned", "prepared", "activating", "settled", "cleaning", "over"}]
  /\ activation \in [Regs -> {"none", "ok", "failed", "cancelled"}]
  /\ closing \in [Regs -> {"none", "ok", "failed"}]

OperationType ==
  /\ asked \in SUBSET Regs
  /\ act \in [Regs -> {"queued", "running", "done"}]
  /\ cl \in [Regs -> {"todo", "open", "ok", "failed", "timeout", "skipped"}]

AcceptType ==
  /\ tpc \in {"none", "accepting", "backoff", "closed", "draining", "ended", "dead"}
  /\ failures \in 0 .. FatalAfter

SocketType ==
  listening \in BOOLEAN /\ fatal \in BOOLEAN /\ late \in BOOLEAN /\ cut \in BOOLEAN

ConnectionType ==
  /\ conn \in [Connections -> {"none", "idle", "checked"}]
  /\ Cardinality(Open) <= MaxConnections
  /\ inside \in SUBSET Connections
  /\ gate \in {"open", "draining", "quiet"}

\* TypeOK is the conjunction of its groups.
LEMMA TypeParts ==
  TypeOK <=> /\ CallerType /\ PlaceType /\ ResultType /\ FlagType /\ HandleType
             /\ OperationType /\ AcceptType /\ SocketType /\ ConnectionType
BY DEF TypeOK, CallerType, PlaceType, ResultType, FlagType, HandleType, OperationType,
       AcceptType, SocketType, ConnectionType

\* The same in the next state, as a step establishes it.
LEMMA TypePartsNext ==
  ASSUME CallerType', PlaceType', ResultType', FlagType', HandleType', OperationType',
         AcceptType', SocketType', ConnectionType'
  PROVE  TypeOK'
BY DEF TypeOK, CallerType, PlaceType, ResultType, FlagType, HandleType, OperationType,
       AcceptType, SocketType, ConnectionType

\* A group keeps its types when none of its variables changes.
LEMMA Untouched ==
  ASSUME TypeOK
  PROVE  /\ UNCHANGED <<spc, token>> => CallerType'
         /\ UNCHANGED <<cpc, state, readiness>> => PlaceType'
         /\ UNCHANGED <<sres, reply, result>> => ResultType'
         /\ UNCHANGED <<expired, force, fatalSeen, listenerErr, cmd>> => FlagType'
         /\ UNCHANGED handles => HandleType'
         /\ UNCHANGED registering => OperationType'
         /\ UNCHANGED <<tpc, failures>> => AcceptType'
         /\ UNCHANGED <<listening, fatal, late, cut>> => SocketType'
         /\ UNCHANGED <<conn, inside, gate>> => ConnectionType'
<1>1. /\ CallerType /\ PlaceType /\ ResultType /\ FlagType /\ HandleType
      /\ OperationType /\ AcceptType /\ SocketType /\ ConnectionType
  BY TypeParts
<1>2. /\ UNCHANGED <<spc, token>> => CallerType'
      /\ UNCHANGED <<cpc, state, readiness>> => PlaceType'
      /\ UNCHANGED <<sres, reply, result>> => ResultType'
  BY <1>1 DEF CallerType, PlaceType, ResultType
<1>3. /\ UNCHANGED <<expired, force, fatalSeen, listenerErr, cmd>> => FlagType'
      /\ UNCHANGED <<listening, fatal, late, cut>> => SocketType'
  BY <1>1 DEF FlagType, SocketType
<1>4. UNCHANGED handles => HandleType'
  BY <1>1 DEF HandleType, handles
<1>5. UNCHANGED registering => OperationType'
  BY <1>1 DEF OperationType, registering
<1>6. UNCHANGED <<tpc, failures>> => AcceptType'
  BY <1>1 DEF AcceptType
<1>7. UNCHANGED <<conn, inside, gate>> => ConnectionType'
  <2>1. SUFFICES ASSUME UNCHANGED <<conn, inside, gate>> PROVE ConnectionType'
    OBVIOUS
  <2>2. Open' = Open
    BY <2>1 DEF Open
  <2>3. QED
    BY <1>1, <2>1, <2>2 DEF ConnectionType
<1>8. QED
  BY <1>2, <1>3, <1>4, <1>5, <1>6, <1>7

\* The published states, as sets.
LEMMA StateNames ==
  /\ SeqSet(ServerStates) = {"Validated", "Registering", "Ready", "Draining", "Stopped"}
  /\ SeqSet(ReadinessStates) = {"NotReady", "Ready", "Draining", "Stopped"}
<1>1. DOMAIN ServerStates = {1, 2, 3, 4, 5} /\ DOMAIN ReadinessStates = {1, 2, 3, 4}
  BY DEF ServerStates, ReadinessStates
<1>2. /\ ServerStates[1] = "Validated" /\ ServerStates[2] = "Registering"
      /\ ServerStates[3] = "Ready" /\ ServerStates[4] = "Draining"
      /\ ServerStates[5] = "Stopped"
      /\ ReadinessStates[1] = "NotReady" /\ ReadinessStates[2] = "Ready"
      /\ ReadinessStates[3] = "Draining" /\ ReadinessStates[4] = "Stopped"
  BY DEF ServerStates, ReadinessStates
<1>3. QED
  BY <1>1, <1>2 DEF SeqSet

\* What each actor leaves alone.
LEMMA CallerFrame ==
  ASSUME Answer \/ DropStart \/ Stop
  PROVE  UNCHANGED <<cpc, state, readiness, sres, reply, result, fatalSeen, listenerErr,
                     expired, force, handles, registering, tpc, listening, failures, fatal,
                     late, cut, cmd, conn, inside, gate>>
BY DEF Answer, DropStart, Stop, caller, coordinator, transport, http

\* A worker of a registration changes nothing but its registration.
LEMMA ProviderFrame ==
  ASSUME NEW r \in Regs, ProviderStep(r)
  PROVE  UNCHANGED <<spc, token, cpc, state, readiness, sres, reply, result, fatalSeen,
                     listenerErr, expired, force, registering, tpc, listening, failures,
                     fatal, late, cut, cmd, conn, inside, gate>>
BY DEF ProviderStep, Settle, CloseUnstarted, StartCleanup, FinishCleanup, provider,
       coordinator, transport, http

RequestStep(c) == Check(c) \/ Enter(c) \/ Refuse(c) \/ Complete(c) \/ EndConnection(c)

\* A request or its connection changes the connections only.
LEMMA RequestFrame ==
  ASSUME NEW c \in Connections, RequestStep(c)
  PROVE  UNCHANGED <<spc, token, cpc, state, readiness, sres, reply, result, fatalSeen,
                     listenerErr, expired, force, handles, registering, tpc, listening,
                     failures, fatal, late, cut, cmd, gate>>
BY DEF RequestStep, Check, Enter, Refuse, Complete, EndConnection, Gate!GoIn, Gate!GoOut,
       server, coordinator, transport

AcceptStep ==
  \/ TransportStep \/ AcceptOverLimit \/ AcceptFails \/ AcceptFatal \/ TransportDies
  \/ \E c \in Connections : Accept(c)

\* The accept task changes its own state and the connections only.
LEMMA AcceptFrame ==
  ASSUME AcceptStep
  PROVE  UNCHANGED <<spc, token, cpc, state, readiness, sres, reply, result, fatalSeen,
                     listenerErr, expired, force, handles, registering, cmd, inside, gate>>
BY DEF AcceptStep, TransportStep, BackoffEnds, CloseListener, Confirm, TransportDrained,
       TransportCut, AcceptOverLimit, AcceptFails, AcceptFatal, TransportDies, Accept,
       acceptor, coordinator

\* The coordinator's steps while it starts up, and while it drains.
StartupStep ==
  \/ StartUp \/ PrepareFailed \/ StartupTimeout \/ StartupCancelled \/ StartupFatal
  \/ BecomeReady \/ LeaveReady
  \/ \E r \in Regs : \/ StartActivation(r) \/ Activated(r) \/ ActivationFailed(r)
                     \/ ActivationTimeout(r)

CloseStep ==
  \/ CloseBatch \/ CloseAbandoned
  \/ \E r \in Regs : CloseReturns(r) \/ CloseTimeout(r)

DrainStep ==
  \/ BeginDraining \/ Expire \/ ListenerClosed \/ Drained \/ Resolve \/ Deadline
  \/ Finish

\* Until it drains, the coordinator touches no close, connection or deadline.
LEMMA StartupFrame ==
  ASSUME StartupStep
  PROVE  UNCHANGED <<spc, token, result, listenerErr, expired, force, activation, closing,
                     cl, listening, failures, fatal, late, cut, cmd, conn, inside, gate>>
BY DEF StartupStep, StartUp, PrepareFailed, StartupTimeout, StartupCancelled, StartupFatal,
       BecomeReady, LeaveReady, StartActivation, Activated, ActivationFailed,
       ActivationTimeout, FailStartup, idle, handles, registering, transport, http

\* close_registrations changes the closes and what was asked for only.
LEMMA CloseFrame ==
  ASSUME CloseStep
  PROVE  UNCHANGED <<spc, token, cpc, state, readiness, sres, reply, result, fatalSeen,
                     listenerErr, expired, force, handles, act, tpc, listening, failures,
                     fatal, late, cut, cmd, conn, inside, gate>>
BY DEF CloseStep, CloseBatch, CloseAbandoned, CloseReturns, CloseTimeout, closers,
       coordinator, transport, http

\* The drain changes no registration, no close and nothing of the accept task.
LEMMA DrainFrame ==
  ASSUME DrainStep
  PROVE  UNCHANGED <<spc, token, sres, fatalSeen, handles, act, cl, tpc, listening,
                     failures, fatal, late, cut, conn, inside>>
BY DEF DrainStep, BeginDraining, Expire, ListenerClosed, Drained, Resolve, Deadline, Finish,
       DrainEnds, Gate!BeginDraining, Gate!BecomeQuiet, coordinator, registering, transport,
       http

\* Every step is a step of one of these.
LEMMA Steps ==
  ASSUME Next
  PROVE  \/ Answer \/ DropStart \/ Stop
         \/ StartupStep \/ CloseStep \/ DrainStep \/ AcceptStep
         \/ \E r \in Regs : ProviderStep(r)
         \/ \E c \in Connections : RequestStep(c)
BY DEF Next, CoordinatorStep, StartupStep, CloseStep, DrainStep, AcceptStep, RequestStep

\* The sets that are counted are finite.
LEMMA SetsFinite ==
  /\ IsFiniteSet(Regs)
  /\ \A S \in SUBSET Regs : IsFiniteSet(S) /\ Cardinality(S) \in Nat
  /\ \A S \in SUBSET Connections : IsFiniteSet(S) /\ Cardinality(S) \in Nat
<1>1. N \in Int /\ 1 \in Int
  BY ServerAssumption
<1>2. IsFiniteSet(Regs)
  BY <1>1, FS_Interval DEF Regs
<1>3. \A S \in SUBSET Regs : IsFiniteSet(S) /\ Cardinality(S) \in Nat
  BY <1>2, FS_Subset, FS_CardinalityType
<1>4. \A S \in SUBSET Connections : IsFiniteSet(S) /\ Cardinality(S) \in Nat
  BY ServerAssumption, FS_Subset, FS_CardinalityType
<1>5. QED
  BY <1>2, <1>3, <1>4

\* A smaller set of connections is within the limit.
LEMMA FewerOpen ==
  ASSUME TypeOK, Open' \in SUBSET Open
  PROVE  Cardinality(Open') <= MaxConnections
<1>1. Open \in SUBSET Connections
  BY DEF Open
<1>2. IsFiniteSet(Open) /\ Cardinality(Open) \in Nat /\ Cardinality(Open') \in Nat
  BY <1>1, SetsFinite
<1>3. Cardinality(Open') <= Cardinality(Open)
  BY <1>2, FS_Subset
<1>4. Cardinality(Open) <= MaxConnections /\ MaxConnections \in Nat
  BY ServerAssumption DEF TypeOK
<1>5. QED
  BY <1>2, <1>3, <1>4

\* Accepting keeps the tracker and the connections within their limits.
LEMMA AcceptTypes ==
  ASSUME TypeOK, Accepting, AcceptStep
  PROVE  TypeOK'
<1>1. AcceptType /\ SocketType /\ ConnectionType
  BY TypeParts
<1>2. FatalAfter \in Nat \ {0} /\ MaxConnections \in Nat
  BY ServerAssumption
<1>3. SocketType'
  <2>1. /\ listening' \in {listening, FALSE} /\ fatal' \in {fatal, TRUE}
        /\ late' \in {late, TRUE} /\ cut' \in {cut, TRUE}
    BY DEF AcceptStep, TransportStep, BackoffEnds, CloseListener, Confirm, TransportDrained,
           TransportCut, AcceptOverLimit, AcceptFails, AcceptFatal, TransportDies, Accept
  <2>2. QED
    BY <1>1, <2>1 DEF SocketType
<1>4. AcceptType'
  <2>1. CASE AcceptFails \/ AcceptFatal
    BY <1>1, <1>2, <2>1 DEF AcceptFails, AcceptFatal, AcceptType, Accepting
  <2>2. CASE \E c \in Connections : Accept(c)
    BY <1>1, <1>2, <2>2 DEF Accept, AcceptType
  <2>3. CASE AcceptOverLimit
    BY <1>1, <1>2, <2>3 DEF AcceptOverLimit, AcceptType
  <2>4. CASE TransportStep \/ TransportDies
    BY <1>1, <2>4 DEF TransportStep, BackoffEnds, CloseListener, Confirm, TransportDrained,
                      TransportCut, TransportDies, AcceptType
  <2>5. QED
    BY <2>1, <2>2, <2>3, <2>4 DEF AcceptStep
<1>5. ConnectionType'
  <2>1. CASE UNCHANGED conn
    BY <2>1, AcceptFrame, Untouched
  <2>2. ASSUME NEW c \in Connections, Accept(c) PROVE ConnectionType'
    <3>1. conn' = [conn EXCEPT ![c] = "idle"] /\ Cardinality(Open) < MaxConnections
          /\ conn[c] = "none"
      BY <2>2 DEF Accept
    <3>2. Open' = Open \union {c} /\ c \notin Open
      BY <1>1, <3>1 DEF Open, ConnectionType
    <3>3. IsFiniteSet(Open) /\ Cardinality(Open) \in Nat
      BY SetsFinite DEF Open
    <3>4. Cardinality(Open') = Cardinality(Open) + 1
      BY <3>2, <3>3, FS_AddElement
    <3>5. Cardinality(Open') <= MaxConnections
      BY <1>2, <3>1, <3>3, <3>4
    <3>6. conn' \in [Connections -> {"none", "idle", "checked"}]
      BY <1>1, <3>1 DEF ConnectionType
    <3>7. QED
      BY <1>1, <3>5, <3>6, AcceptFrame DEF ConnectionType
  <2>3. QED
    BY <2>1, <2>2 DEF AcceptStep, TransportStep, BackoffEnds, CloseListener, Confirm,
         TransportDrained, TransportCut, AcceptOverLimit, AcceptFails, AcceptFatal,
         TransportDies
<1>6. QED
  BY <1>3, <1>4, <1>5, AcceptFrame, Untouched, TypePartsNext

\* A request opens no connection.
LEMMA RequestTypes ==
  ASSUME TypeOK, NEW c \in Connections, RequestStep(c)
  PROVE  TypeOK'
<1>1. ConnectionType
  BY TypeParts
<1>2. conn' \in [Connections -> {"none", "idle", "checked"}] /\ inside' \in SUBSET Connections
  BY <1>1 DEF RequestStep, Check, Enter, Refuse, Complete, EndConnection, Gate!GoIn,
              Gate!GoOut, ConnectionType
<1>3. Open' \in SUBSET Open
  BY <1>1 DEF RequestStep, Check, Enter, Refuse, Complete, EndConnection, Open,
              ConnectionType
<1>4. Cardinality(Open') <= MaxConnections
  BY <1>3, FewerOpen
<1>5. ConnectionType'
  BY <1>1, <1>2, <1>4, RequestFrame DEF ConnectionType
<1>6. QED
  BY <1>5, RequestFrame, Untouched, TypePartsNext

\* A provider keeps the types.
LEMMA ProviderTypes ==
  ASSUME TypeOK, NEW r \in Regs, ProviderStep(r)
  PROVE  TypeOK'
<1>1. HandleType
  BY TypeParts
<1>2. HandleType'
  BY <1>1 DEF ProviderStep, Settle, CloseUnstarted, StartCleanup, FinishCleanup, HandleType
<1>3. QED
  BY <1>2, ProviderFrame, Untouched, TypePartsNext

\* The caller of start() keeps the types.
LEMMA CallerTypes ==
  ASSUME TypeOK, Answer \/ DropStart \/ Stop
  PROVE  TypeOK'
<1>1. CallerType
  BY TypeParts
<1>2. CallerType'
  <2>1. spc' \in {"waiting", "running", "failed", "dropped", "stopping"}
    BY DEF Answer, DropStart, Stop
  <2>2. token' \in BOOLEAN
    BY <1>1 DEF Answer, DropStart, Stop, CallerType
  <2>3. QED
    BY <2>1, <2>2 DEF CallerType
<1>3. QED
  BY <1>2, CallerFrame, Untouched, TypePartsNext

\* Closing registrations keeps the types.
LEMMA CloseTypes ==
  ASSUME TypeOK, CloseStep
  PROVE  TypeOK'
<1>1. OperationType
  BY TypeParts
<1>2. OperationType'
  <2>1. act' \in [Regs -> {"queued", "running", "done"}]
    BY <1>1, CloseFrame DEF OperationType
  <2>2. asked' \in SUBSET Regs
    BY <1>1 DEF OperationType, CloseStep, CloseBatch, CloseAbandoned, CloseReturns,
                CloseTimeout, NextBatch, Todo, Tracked
  <2>3. cl' \in [Regs -> {"todo", "open", "ok", "failed", "timeout", "skipped"}]
    BY <1>1 DEF OperationType, CloseStep, CloseBatch, CloseAbandoned, CloseReturns,
                CloseTimeout
  <2>4. QED
    BY <2>1, <2>2, <2>3 DEF OperationType
<1>3. QED
  BY <1>2, CloseFrame, Untouched, TypePartsNext

\* Draining, whatever it resolves to, keeps the types.
LEMMA DrainTypes ==
  ASSUME TypeOK, DrainStep
  PROVE  TypeOK'
<1>1. PlaceType /\ ResultType /\ FlagType /\ OperationType /\ ConnectionType
  BY TypeParts
<1>2. PlaceType'
  BY <1>1, StateNames DEF PlaceType, DrainStep, BeginDraining, Expire, ListenerClosed,
       Drained, Resolve, Deadline, Finish, DrainEnds, coordinator
<1>3. ResultType'
  <2>1. Resolved \in Results /\ "Timeout" \in Results
    BY DEF Resolved, Results
  <2>2. ASSUME NEW drain \in Results, DrainEnds(drain) PROVE ResultType'
    BY <1>1, <2>2 DEF DrainEnds, ResultType, Results
  <2>3. QED
    BY <1>1, <2>1, <2>2 DEF DrainStep, BeginDraining, Expire, ListenerClosed, Drained,
         Resolve, Deadline, Finish, coordinator, ResultType
<1>4. FlagType'
  <2>1. /\ expired' \in {expired, TRUE} /\ force' \in {force, TRUE}
        /\ listenerErr' \in {listenerErr, TRUE} /\ cmd' \in {cmd, TRUE}
    BY DEF DrainStep, BeginDraining, Expire, ListenerClosed, Drained, Resolve, Deadline,
           Finish, DrainEnds, coordinator
  <2>2. QED
    BY <1>1, <2>1, DrainFrame DEF FlagType
<1>5. OperationType'
  <2>1. asked' \in {asked, Tracked}
    BY DEF DrainStep, BeginDraining, Expire, ListenerClosed, Drained, Resolve, Deadline,
           Finish, DrainEnds, registering
  <2>2. QED
    BY <1>1, <2>1, DrainFrame DEF OperationType, Tracked
<1>6. ConnectionType'
  <2>1. gate' \in {"open", "draining", "quiet"}
    BY <1>1 DEF ConnectionType, DrainStep, BeginDraining, Expire, ListenerClosed, Drained,
           Resolve, Deadline, Finish, DrainEnds, Gate!BeginDraining, Gate!BecomeQuiet
  <2>2. Open' = Open
    BY DrainFrame DEF Open
  <2>3. QED
    BY <1>1, <2>1, <2>2, DrainFrame DEF ConnectionType
<1>7. QED
  BY <1>2, <1>3, <1>4, <1>5, <1>6, DrainFrame, Untouched, TypePartsNext

\* Starting up keeps the types.
LEMMA StartupTypes ==
  ASSUME TypeOK, StartupStep
  PROVE  TypeOK'
<1>1. PlaceType /\ ResultType /\ FlagType /\ HandleType /\ OperationType /\ AcceptType
      /\ SocketType
  BY TypeParts
<1>2. PlaceType'
  BY <1>1, StateNames DEF PlaceType, StartupStep, StartUp, PrepareFailed, StartupTimeout,
       StartupCancelled, StartupFatal, BecomeReady, LeaveReady, StartActivation, Activated,
       ActivationFailed, ActivationTimeout, FailStartup, idle
<1>3. ResultType'
  BY <1>1 DEF ResultType, Results, StartupStep, StartUp, PrepareFailed, StartupTimeout,
       StartupCancelled, StartupFatal, BecomeReady, LeaveReady, StartActivation, Activated,
       ActivationFailed, ActivationTimeout, FailStartup, idle
<1>4. FlagType'
  <2>1. fatalSeen' \in BOOLEAN
    BY <1>1 DEF FlagType, SocketType, StartupStep, StartUp, PrepareFailed, StartupTimeout,
         StartupCancelled, StartupFatal, BecomeReady, LeaveReady, StartActivation, Activated,
         ActivationFailed, ActivationTimeout, idle
  <2>2. QED
    BY <1>1, <2>1, StartupFrame DEF FlagType
<1>5. phase' \in [Regs -> {"planned", "prepared", "activating", "settled", "cleaning", "over"}]
  BY <1>1 DEF HandleType, StartupStep, StartUp, PrepareFailed, StartupTimeout,
       StartupCancelled, StartupFatal, BecomeReady, LeaveReady, StartActivation, Activated,
       ActivationFailed, ActivationTimeout, FailStartup, handles
<1>6. HandleType'
  BY <1>1, <1>5, StartupFrame DEF HandleType
<1>7. act' \in [Regs -> {"queued", "running", "done"}] /\ asked' \in SUBSET Regs
  BY <1>1 DEF OperationType, StartupStep, StartUp, PrepareFailed, StartupTimeout,
       StartupCancelled, StartupFatal, BecomeReady, LeaveReady, StartActivation, Activated,
       ActivationFailed, ActivationTimeout, FailStartup, registering, Running
<1>8. OperationType'
  BY <1>1, <1>7, StartupFrame DEF OperationType
<1>9. AcceptType'
  <2>1. tpc' \in {tpc, "accepting"}
    BY DEF StartupStep, StartUp, PrepareFailed, StartupTimeout,
       StartupCancelled, StartupFatal, BecomeReady, LeaveReady, StartActivation, Activated,
       ActivationFailed, ActivationTimeout, FailStartup, transport, idle
  <2>2. QED
    BY <1>1, <2>1, StartupFrame DEF AcceptType
<1>10. QED
  BY <1>2, <1>3, <1>4, <1>6, <1>8, <1>9, StartupFrame, Untouched, TypePartsNext

\* Every step keeps the types.
LEMMA TypeInv ==
  ASSUME TypeOK, Accepting, [Next]_vars
  PROVE  TypeOK'
<1>1. CASE UNCHANGED vars
  BY <1>1, Untouched, TypePartsNext DEF vars, coordinator, transport, http
<1>2. QED
  BY <1>1, Steps, CallerTypes, StartupTypes, CloseTypes, DrainTypes, AcceptTypes,
     ProviderTypes, RequestTypes

-----------------------------------------------------------------------------
(***************************************************************************)
(* The coordinator                                                         *)
(***************************************************************************)

\* What is published follows the coordinator's place.
LEMMA StagesInv ==
  ASSUME TypeOK, Stages, [Next]_vars
  PROVE  Stages'
<1>1. ASSUME UNCHANGED <<cpc, readiness, sres, gate, state, result, asked>> PROVE Stages'
  BY <1>1 DEF Stages
<1>2. CASE UNCHANGED vars
  BY <1>1, <1>2 DEF vars, coordinator, registering
<1>3. CASE StartupStep
  <2>1. gate' = gate /\ result' = result
    BY <1>3, StartupFrame
  <2>2. CASE StartUp
    BY <2>1, <2>2 DEF Stages, StartUp, Starting, Ending, registering
  <2>3. CASE BecomeReady
    BY <2>1, <2>3 DEF Stages, BecomeReady, Activating, Starting, Ending, registering
  <2>4. CASE LeaveReady
    BY <2>1, <2>4 DEF Stages, LeaveReady, Starting, Ending
  <2>5. CASE PrepareFailed \/ StartupTimeout \/ StartupCancelled \/ StartupFatal
             \/ \E r \in Regs : ActivationFailed(r) \/ ActivationTimeout(r)
    <3>1. /\ cpc = "activate" /\ cpc' = "begin"
          /\ UNCHANGED <<state, readiness>>
      BY <2>5 DEF PrepareFailed, StartupTimeout, StartupCancelled, StartupFatal,
           ActivationFailed, ActivationTimeout, FailStartup, Activating
    <3>2. QED
      BY <2>1, <3>1 DEF Stages, Starting, Ending
  <2>6. CASE \E r \in Regs : StartActivation(r) \/ Activated(r)
    BY <1>1, <2>6 DEF StartActivation, Activated, idle
  <2>7. QED
    BY <1>3, <2>2, <2>3, <2>4, <2>5, <2>6 DEF StartupStep
<1>4. CASE CloseStep
  <2>1. cpc = "drain"
    BY <1>4 DEF CloseStep, CloseBatch, CloseAbandoned, CloseReturns, CloseTimeout
  <2>2. QED
    BY <1>4, <2>1, CloseFrame DEF Stages, Starting, Ending
<1>5. CASE DrainStep
  <2>1. CASE BeginDraining
    BY <2>1 DEF Stages, BeginDraining, Gate!BeginDraining, Starting, Ending, registering
  <2>2. CASE Expire
    BY <1>1, <2>2 DEF Expire, coordinator, registering
  <2>3. CASE ListenerClosed
    BY <2>3 DEF Stages, ListenerClosed, Starting, Ending, registering
  <2>4. CASE Drained
    BY <2>4 DEF Stages, Drained, Gate!BecomeQuiet, Starting, Ending, coordinator, registering
  <2>5. ASSUME NEW drain \in Results, DrainEnds(drain), cpc \in {"listener", "drain"}
        PROVE  Stages'
    <3>1. result' # "none"
      BY <2>5 DEF DrainEnds, Results
    <3>2. QED
      BY <2>5, <3>1 DEF Stages, DrainEnds, Starting, Ending
  <2>6. CASE Resolve \/ Deadline
    BY <2>5, <2>6 DEF Resolve, Deadline, Resolved, Results
  <2>7. CASE Finish
    BY <2>7 DEF Stages, Finish, Starting, Ending
  <2>8. QED
    BY <1>5, <2>1, <2>2, <2>3, <2>4, <2>6, <2>7 DEF DrainStep
<1>6. QED
  BY <1>1, <1>2, <1>3, <1>4, <1>5, Steps, CallerFrame, ProviderFrame, RequestFrame,
     AcceptFrame DEF registering

\* Registrations follow their workers and the coordinator.
LEMMA RegisteredInv ==
  ASSUME TypeOK, Stages, Registered, [Next]_vars
  PROVE  Registered'
<1>1. /\ phase \in [Regs -> {"planned", "prepared", "activating", "settled", "cleaning", "over"}]
      /\ activation \in [Regs -> {"none", "ok", "failed", "cancelled"}]
      /\ closing \in [Regs -> {"none", "ok", "failed"}]
      /\ act \in [Regs -> {"queued", "running", "done"}]
      /\ asked \in SUBSET Regs
  BY DEF TypeOK
<1>2. ASSUME UNCHANGED <<phase, activation, closing, act, asked, cpc, sres>> PROVE Registered'
  BY <1>2 DEF Registered
<1>3. CASE UNCHANGED vars
  BY <1>2, <1>3 DEF vars, coordinator, registering, handles
<1>4. CASE StartupStep
  <2>1. UNCHANGED <<activation, closing>>
    BY <1>4, StartupFrame
  <2>2. CASE StartUp
    <3>1. PICK k \in 0 .. N :
            phase' = [r \in Regs |-> IF r <= k THEN "prepared" ELSE "planned"]
      BY <2>2 DEF StartUp
    <3>2. UNCHANGED <<asked, act>> /\ asked = {} /\ cpc' = "activate"
      BY <2>2 DEF StartUp, registering, Stages, Starting
    <3>3. \A r \in Regs : phase[r] = "planned" /\ phase'[r] \in {"planned", "prepared"}
      BY <2>2, <3>1 DEF StartUp, Registered
    <3>4. QED
      BY <2>1, <3>2, <3>3 DEF Registered, Starting
  <2>3. CASE BecomeReady
    BY <2>1, <2>3 DEF BecomeReady, Registered, Starting, Activating, registering, handles
  <2>4. CASE LeaveReady
    BY <2>1, <2>4 DEF LeaveReady, Registered, Starting, registering, handles
  <2>5. CASE PrepareFailed \/ StartupTimeout \/ StartupCancelled \/ StartupFatal
             \/ \E r \in Regs : ActivationFailed(r) \/ ActivationTimeout(r)
    <3>1. /\ cpc = "activate" /\ cpc' = "begin" /\ sres' # "none"
          /\ UNCHANGED <<phase, act>>
          /\ \E abandoned \in SUBSET Running : asked' = asked \union abandoned
      BY <2>5 DEF PrepareFailed, StartupTimeout, StartupCancelled, StartupFatal,
           ActivationFailed, ActivationTimeout, FailStartup, Activating, handles
    <3>2. \A r \in Regs : r \in asked' => r \in asked \/ act[r] = "running"
      BY <3>1 DEF Running
    <3>3. asked \in SUBSET asked'
      BY <3>1
    <3>4. QED
      BY <2>1, <3>1, <3>2, <3>3 DEF Registered, Starting
  <2>6. ASSUME NEW r \in Regs, StartActivation(r) PROVE Registered'
    <3>1. /\ act' = [act EXCEPT ![r] = "running"] /\ phase' = [phase EXCEPT ![r] = "activating"]
          /\ UNCHANGED <<cpc, sres, asked>> /\ act[r] = "queued" /\ phase[r] # "planned"
          /\ cpc = "activate"
      BY <2>6 DEF StartActivation, Tracked, Activating
    <3>2. asked = {}
      BY <3>1 DEF Stages, Starting
    <3>3. phase[r] = "prepared"
      BY <1>1, <3>1, <3>2 DEF Registered
    <3>4. QED
      BY <1>1, <2>1, <3>1, <3>2, <3>3 DEF Registered, Starting
  <2>7. ASSUME NEW r \in Regs, Activated(r) PROVE Registered'
    BY <1>1, <2>1, <2>7 DEF Activated, Registered, Starting, Activating, handles
  <2>8. QED
    BY <1>4, <2>2, <2>3, <2>4, <2>5, <2>6, <2>7 DEF StartupStep
<1>5. CASE CloseStep
  <2>1. UNCHANGED <<phase, activation, closing, act, cpc, sres>>
    BY <1>5, CloseFrame DEF handles
  <2>2. asked' = asked \/ asked' = asked \union NextBatch
    BY <1>5 DEF CloseStep, CloseBatch, CloseAbandoned, CloseReturns, CloseTimeout
  <2>3. \A r \in NextBatch : phase[r] # "planned"
    BY DEF NextBatch, Todo, Tracked
  <2>4. QED
    BY <2>1, <2>2, <2>3 DEF Registered
<1>6. CASE DrainStep
  <2>1. UNCHANGED <<phase, activation, closing, act, sres>>
    BY <1>6, DrainFrame DEF handles
  <2>2. asked' = asked \/ asked' = Tracked
    BY <1>6 DEF DrainStep, BeginDraining, Expire, ListenerClosed, Drained, Resolve, Deadline,
           Finish, DrainEnds, registering
  <2>3. cpc \notin Starting /\ cpc' \notin Starting
    BY <1>6 DEF DrainStep, BeginDraining, Expire, ListenerClosed, Drained, Resolve, Deadline,
           Finish, DrainEnds, coordinator, Starting
  <2>4. QED
    BY <2>1, <2>2, <2>3 DEF Registered, Tracked, Starting
<1>7. ASSUME NEW r \in Regs, ProviderStep(r) PROVE Registered'
  <2>1. UNCHANGED <<asked, act, cpc, sres>>
    BY <1>7, ProviderFrame DEF registering
  <2>2. CASE Settle(r)
    BY <1>1, <2>1, <2>2 DEF Settle, Registered
  <2>3. CASE CloseUnstarted(r)
    BY <1>1, <2>1, <2>3 DEF CloseUnstarted, Registered
  <2>4. CASE StartCleanup(r)
    BY <1>1, <2>1, <2>4 DEF StartCleanup, Registered
  <2>5. CASE FinishCleanup(r)
    BY <1>1, <2>1, <2>5 DEF FinishCleanup, Registered
  <2>6. QED
    BY <1>7, <2>2, <2>3, <2>4, <2>5 DEF ProviderStep
<1>8. QED
  BY <1>2, <1>3, <1>4, <1>5, <1>6, <1>7, Steps, CallerFrame, RequestFrame, AcceptFrame
  DEF handles, registering

-----------------------------------------------------------------------------
(***************************************************************************)
(* Requests and the accept task                                            *)
(***************************************************************************)

\* Only a server that was ready lets anybody past its check of readiness.
LEMMA VisitorsInv ==
  ASSUME TypeOK, Stages, Visitors, [Next]_vars
  PROVE  Visitors'
<1>1. conn \in [Connections -> {"none", "idle", "checked"}] /\ inside \in SUBSET Connections
  BY DEF TypeOK
<1>2. ASSUME UNCHANGED <<conn, inside>>, cpc \notin Starting => cpc' \notin Starting,
             sres' = sres
      PROVE  Visitors'
  BY <1>2 DEF Visitors
<1>3. CASE UNCHANGED vars
  BY <1>2, <1>3 DEF vars, coordinator, http
<1>4. CASE StartupStep
  <2>1. UNCHANGED <<conn, inside>>
    BY <1>4, StartupFrame
  <2>2. CASE cpc \in Starting
    BY <2>1, <2>2 DEF Visitors
  <2>3. CASE cpc \notin Starting
    <3>1. LeaveReady
      BY <1>4, <2>3 DEF StartupStep, Starting, StartUp, PrepareFailed, StartupTimeout,
           StartupCancelled, StartupFatal, BecomeReady, StartActivation, Activated,
           ActivationFailed, ActivationTimeout, Activating
    <3>2. QED
      BY <1>2, <2>1, <3>1 DEF LeaveReady, Starting
  <2>4. QED
    BY <2>2, <2>3
<1>5. CASE DrainStep
  <2>1. cpc' \notin Starting
    BY <1>5 DEF DrainStep, BeginDraining, Expire, ListenerClosed, Drained, Resolve, Deadline,
           Finish, DrainEnds, coordinator, Starting
  <2>2. QED
    BY <1>2, <1>5, <2>1, DrainFrame
<1>6. CASE AcceptStep
  <2>1. UNCHANGED <<cpc, sres, inside>>
    BY <1>6, AcceptFrame
  <2>2. CASE UNCHANGED conn
    BY <1>2, <2>1, <2>2
  <2>3. CASE \E c \in Connections : Accept(c)
    <3>1. PICK c \in Connections : conn' = [conn EXCEPT ![c] = "idle"]
      BY <2>3 DEF Accept
    <3>2. QED
      BY <1>1, <2>1, <3>1 DEF Visitors
  <2>4. QED
    BY <1>6, <2>2, <2>3 DEF AcceptStep, TransportStep, BackoffEnds, CloseListener, Confirm,
         TransportDrained, TransportCut, AcceptOverLimit, AcceptFails, AcceptFatal,
         TransportDies
<1>7. ASSUME NEW c \in Connections, RequestStep(c) PROVE Visitors'
  <2>1. UNCHANGED <<cpc, sres>>
    BY <1>7, RequestFrame
  <2>2. CASE Check(c)
    <3>1. cpc \notin Starting /\ sres = "none"
      BY <2>2 DEF Check, Stages
    <3>2. QED
      BY <1>1, <2>1, <2>2, <3>1 DEF Check, Visitors
  <2>3. CASE Enter(c)
    BY <1>1, <2>1, <2>3 DEF Enter, Gate!GoIn, Visitors
  <2>4. CASE Refuse(c)
    BY <1>1, <2>1, <2>4 DEF Refuse, Visitors
  <2>5. CASE Complete(c)
    BY <1>1, <2>1, <2>5 DEF Complete, Gate!GoOut, Visitors
  <2>6. CASE EndConnection(c)
    BY <1>1, <2>1, <2>6 DEF EndConnection, Visitors
  <2>7. QED
    BY <1>7, <2>2, <2>3, <2>4, <2>5, <2>6 DEF RequestStep
<1>8. QED
  BY <1>2, <1>3, <1>4, <1>5, <1>6, <1>7, Steps, CallerFrame, CloseFrame, ProviderFrame

\* The listener is closed, and nobody is connected behind a clean end, by the
\* accept task's place; registrations are closed after its confirmation only.
LEMMA AcceptingInv ==
  ASSUME TypeOK, Stages, Accepting, Closes, [Next]_vars
  PROVE  Accepting'
<1>1. /\ conn \in [Connections -> {"none", "idle", "checked"}]
      /\ FatalAfter \in Nat \ {0} /\ failures \in 0 .. FatalAfter
      /\ cl \in [Regs -> {"todo", "open", "ok", "failed", "timeout", "skipped"}]
  BY ServerAssumption DEF TypeOK
<1>2. ASSUME UNCHANGED <<tpc, listening, failures, fatal, late, cpc, state, cl>>,
             Open' \in SUBSET Open
      PROVE  Accepting'
  BY <1>2 DEF Accepting
<1>3. UNCHANGED conn => Open' = Open
  BY DEF Open
<1>4. CASE UNCHANGED vars
  BY <1>2, <1>3, <1>4 DEF vars, coordinator, http, transport, registering
<1>5. CASE StartupStep
  <2>1. UNCHANGED <<listening, failures, fatal, late, cl>> /\ Open' = Open
    BY <1>3, <1>5, StartupFrame
  <2>2. \A r \in Regs : cl[r] = "todo"
    BY <1>5 DEF Closes, StartupStep, StartUp, PrepareFailed, StartupTimeout,
           StartupCancelled, StartupFatal, BecomeReady, LeaveReady, StartActivation,
           Activated, ActivationFailed, ActivationTimeout, Activating, Ending
  <2>3. CASE StartUp
    BY <2>1, <2>2, <2>3 DEF StartUp, Accepting, Shut
  <2>4. CASE ~StartUp
    <3>1. /\ tpc' = tpc /\ cpc # "spawned" /\ cpc' \notin {"spawned", "drain"}
          /\ state' \in {state, "Ready"}
      BY <1>5, <2>4 DEF StartupStep, PrepareFailed, StartupTimeout, StartupCancelled,
           StartupFatal, BecomeReady, LeaveReady, StartActivation, Activated,
           ActivationFailed, ActivationTimeout, Activating, FailStartup, idle, transport
    <3>2. QED
      BY <2>1, <2>2, <3>1 DEF Accepting
  <2>5. QED
    BY <2>3, <2>4
<1>6. CASE CloseStep
  <2>1. cpc = "drain"
    BY <1>6 DEF CloseStep, CloseBatch, CloseAbandoned, CloseReturns, CloseTimeout
  <2>2. QED
    BY <1>3, <1>6, <2>1, CloseFrame DEF Accepting
<1>7. CASE DrainStep
  <2>1. UNCHANGED <<tpc, listening, failures, fatal, late, cl>> /\ Open' = Open
    BY <1>3, <1>7, DrainFrame
  <2>2. cpc # "spawned" /\ cpc' # "spawned"
    BY <1>7 DEF DrainStep, BeginDraining, Expire, ListenerClosed, Drained, Resolve, Deadline,
           Finish, DrainEnds, coordinator
  <2>3. cpc' = "drain" \/ state' = "Draining" =>
          cpc = "drain" \/ state = "Draining" \/ tpc \in {"draining", "ended", "dead"}
    BY <1>7 DEF DrainStep, BeginDraining, Expire, ListenerClosed, Drained, Resolve, Deadline,
           Finish, DrainEnds, coordinator
  <2>4. QED
    BY <2>1, <2>2, <2>3 DEF Accepting
<1>8. CASE AcceptStep
  <2>1. UNCHANGED <<cpc, state, cl>>
    BY <1>8, AcceptFrame DEF registering
  <2>2. CASE \E c \in Connections : Accept(c)
    <3>1. tpc = "accepting" /\ UNCHANGED <<tpc, listening, fatal, late>> /\ failures' = 0
      BY <2>2 DEF Accept
    <3>2. QED
      BY <1>1, <2>1, <3>1 DEF Accepting, Shut
  <2>3. CASE AcceptOverLimit
    BY <1>1, <1>3, <2>1, <2>3 DEF AcceptOverLimit, Accepting, Shut
  <2>4. CASE AcceptFails
    BY <1>1, <1>3, <2>1, <2>4 DEF AcceptFails, Accepting, Shut
  <2>5. CASE AcceptFatal
    BY <1>1, <1>3, <2>1, <2>5 DEF AcceptFatal, Accepting, Shut
  <2>6. CASE TransportDies
    BY <1>1, <1>3, <2>1, <2>6 DEF TransportDies, Accepting, Shut
  <2>7. CASE BackoffEnds \/ CloseListener
    BY <1>1, <1>3, <2>1, <2>7 DEF BackoffEnds, CloseListener, Accepting, Shut
  <2>8. CASE Confirm \/ TransportDrained \/ TransportCut
    BY <1>1, <1>3, <2>1, <2>8 DEF Confirm, TransportDrained, TransportCut, Accepting, Shut
  <2>9. QED
    BY <1>8, <2>2, <2>3, <2>4, <2>5, <2>6, <2>7, <2>8 DEF AcceptStep, TransportStep
<1>9. ASSUME NEW c \in Connections, RequestStep(c) PROVE Accepting'
  <2>1. Open' \in SUBSET Open
    BY <1>1, <1>9 DEF RequestStep, Check, Enter, Refuse, Complete, EndConnection, Open
  <2>2. QED
    BY <1>2, <1>9, <2>1, RequestFrame DEF registering
<1>10. QED
  BY <1>2, <1>3, <1>4, <1>5, <1>6, <1>7, <1>8, <1>9, Steps, CallerFrame, ProviderFrame
  DEF registering

-----------------------------------------------------------------------------
(***************************************************************************)
(* close_registrations                                                     *)
(***************************************************************************)

\* A batch takes the last registrations that are left: with one it takes every
\* later one.
LEMMA BatchIsTop ==
  ASSUME NEW r \in NextBatch, NEW q \in Todo, r < q
  PROVE  q \in NextBatch
<1>1. Todo \in SUBSET Regs /\ r \in Todo /\ Concurrency \in Nat
  BY ServerAssumption DEF Todo, Tracked, NextBatch
<1>2. r \in Nat /\ q \in Nat
  BY <1>1, ServerAssumption DEF Regs
<1>3. \A x \in Todo : x \in Nat
  BY <1>1, ServerAssumption DEF Regs
<1> DEFINE above(x) == {y \in Todo : y > x}
<1>4. above(q) \in SUBSET above(r)
  <2>1. \A y \in Todo : y > q => y > r
    BY <1>2, <1>3
  <2>2. QED
    BY <2>1
<1>5. IsFiniteSet(above(r)) /\ Cardinality(above(r)) \in Nat /\ Cardinality(above(q)) \in Nat
  BY <1>1, SetsFinite
<1>6. Cardinality(above(q)) <= Cardinality(above(r))
  BY <1>4, <1>5, FS_Subset
<1>7. Cardinality(above(r)) < Concurrency
  BY DEF NextBatch
<1>8. Cardinality(above(q)) < Concurrency
  BY <1>1, <1>5, <1>6, <1>7
<1>9. QED
  BY <1>8 DEF NextBatch

\* A batch is at most Concurrency registrations: all but the first of it are
\* above the first.
LEMMA BatchIsSmall == Cardinality(NextBatch) <= Concurrency
<1>1. NextBatch \in SUBSET Regs /\ NextBatch \in SUBSET Nat /\ Concurrency \in Nat
  BY ServerAssumption DEF NextBatch, Todo, Tracked, Regs
<1>2. IsFiniteSet(NextBatch) /\ Cardinality(NextBatch) \in Nat
  BY <1>1, SetsFinite
<1>3. CASE NextBatch = {}
  BY <1>1, <1>3, FS_EmptySet
<1>4. CASE NextBatch # {}
  <2>1. PICK m \in NextBatch : \A y \in NextBatch : ~(<<y, m>> \in OpToRel(<, Nat))
    BY <1>1, <1>4, WFMin, NatLessThanWellFounded
  <2>2. \A y \in NextBatch : ~(y < m)
    BY <1>1, <2>1 DEF OpToRel
  <2> DEFINE rest == NextBatch \ {m}
             above == {q \in Todo : q > m}
  <2>3. rest \in SUBSET above
    BY <1>1, <2>2 DEF NextBatch
  <2>4. above \in SUBSET Regs
    BY DEF Todo, Tracked
  <2>5. IsFiniteSet(above) /\ Cardinality(above) \in Nat
    BY <2>4, SetsFinite
  <2>6. Cardinality(rest) <= Cardinality(above) /\ Cardinality(rest) \in Nat
    BY <2>3, <2>5, FS_Subset, FS_CardinalityType
  <2>7. Cardinality(rest) = Cardinality(NextBatch) - 1
    BY <1>2, FS_RemoveElement
  <2>8. Cardinality(above) < Concurrency
    BY DEF NextBatch
  <2> HIDE DEF rest, above
  <2>9. QED
    BY <1>1, <1>2, <2>5, <2>6, <2>7, <2>8
<1>5. QED
  BY <1>3, <1>4

\* The closes follow the handles, the deadline and the reverse order.
LEMMA ClosesInv ==
  ASSUME TypeOK, Registered, Closes, [Next]_vars
  PROVE  Closes'
<1>1. /\ phase \in [Regs -> {"planned", "prepared", "activating", "settled", "cleaning", "over"}]
      /\ closing \in [Regs -> {"none", "ok", "failed"}]
      /\ cl \in [Regs -> {"todo", "open", "ok", "failed", "timeout", "skipped"}]
  BY DEF TypeOK
<1>2. ASSUME UNCHANGED <<phase, closing, cl>>, expired => expired',
             (cpc = "drain" \/ cpc \in Ending) => (cpc' = "drain" \/ cpc' \in Ending)
      PROVE  Closes'
  BY <1>2 DEF Closes, Tracked
<1>3. CASE UNCHANGED vars
  BY <1>2, <1>3 DEF vars, coordinator, handles, registering
<1>4. CASE StartupStep
  <2>1. UNCHANGED <<closing, cl, expired>>
    BY <1>4, StartupFrame
  <2>2. \A r \in Regs : cl[r] = "todo"
    BY <1>4 DEF Closes, StartupStep, StartUp, PrepareFailed, StartupTimeout,
           StartupCancelled, StartupFatal, BecomeReady, LeaveReady, StartActivation,
           Activated, ActivationFailed, ActivationTimeout, Activating, Ending
  <2>3. QED
    BY <2>1, <2>2 DEF Closes, Tracked
<1>5. CASE CloseStep
  <2>1. cpc = "drain" /\ UNCHANGED <<phase, closing, expired, cpc>> /\ Tracked' = Tracked
    BY <1>5, CloseFrame DEF CloseStep, CloseBatch, CloseAbandoned, CloseReturns,
         CloseTimeout, handles, Tracked
  <2>2. \A r \in Regs : cl[r] # "todo" => cl'[r] # "todo"
    BY <1>1, <1>5 DEF CloseStep, CloseBatch, CloseAbandoned, CloseReturns, CloseTimeout
  <2>3. CASE CloseBatch
    <3>1. \A r \in Regs : cl'[r] = IF r \in NextBatch THEN "open" ELSE cl[r]
      BY <2>3 DEF CloseBatch
    <3>2. ASSUME NEW r \in Tracked, NEW q \in Tracked, r < q, cl'[r] # "todo"
          PROVE  cl'[q] # "todo"
      <4>1. r \in Regs /\ q \in Regs
        BY DEF Tracked
      <4>2. CASE cl[r] # "todo"
        BY <2>2, <3>2, <4>1, <4>2 DEF Closes
      <4>3. CASE cl[r] = "todo" /\ q \in Todo
        BY <3>1, <3>2, <4>1, <4>3, BatchIsTop
      <4>4. CASE q \notin Todo
        BY <2>2, <4>1, <4>4 DEF Todo
      <4>5. QED
        BY <4>2, <4>3, <4>4
    <3>3. QED
      BY <2>1, <3>1, <3>2 DEF Closes
  <2>4. CASE CloseAbandoned
    <3>1. \A r \in Regs : cl'[r] = IF r \in Todo THEN "skipped" ELSE cl[r]
      BY <2>4 DEF CloseAbandoned
    <3>2. \A q \in Tracked : cl'[q] # "todo"
      BY <3>1 DEF Todo, Tracked
    <3>3. QED
      BY <2>1, <2>4, <3>1, <3>2 DEF Closes, CloseAbandoned
  <2>5. ASSUME NEW r \in Regs, CloseReturns(r) \/ CloseTimeout(r) PROVE Closes'
    <3>1. PICK v \in {"ok", "failed", "timeout"} :
            cl' = [cl EXCEPT ![r] = v] /\ (v = "ok" => closing[r] = "ok") /\ cl[r] = "open"
      BY <2>5 DEF CloseReturns, CloseTimeout
    <3>2. \A q \in Regs : cl'[q] # "todo" <=> cl[q] # "todo"
      BY <1>1, <3>1
    <3>3. \A r1, q \in Tracked : r1 < q /\ cl'[r1] # "todo" => cl'[q] # "todo"
      BY <3>2 DEF Closes, Tracked
    <3>4. QED
      BY <1>1, <2>1, <3>1, <3>3 DEF Closes
  <2>6. QED
    BY <1>5, <2>3, <2>4, <2>5 DEF CloseStep
<1>6. CASE DrainStep
  <2>1. UNCHANGED <<phase, closing, cl>>
    BY <1>6, DrainFrame DEF handles
  <2>2. /\ expired => expired'
        /\ (cpc = "drain" \/ cpc \in Ending) => (cpc' = "drain" \/ cpc' \in Ending)
    BY <1>6 DEF DrainStep, BeginDraining, Expire, ListenerClosed, Drained, Resolve, Deadline,
           Finish, DrainEnds, coordinator, Ending
  <2>3. QED
    BY <1>2, <2>1, <2>2
<1>7. ASSUME NEW r \in Regs, ProviderStep(r) PROVE Closes'
  <2>1. UNCHANGED <<cl, cpc, expired>>
    BY <1>7, ProviderFrame DEF registering
  <2>2. \A q \in Regs : closing[q] # "none" => closing'[q] = closing[q]
    BY <1>1, <1>7 DEF ProviderStep, Settle, CloseUnstarted, StartCleanup, FinishCleanup,
         Registered
  <2>3. Tracked' = Tracked
    BY <1>1, <1>7 DEF ProviderStep, Settle, CloseUnstarted, StartCleanup, FinishCleanup,
         Tracked
  <2>4. QED
    BY <2>1, <2>2, <2>3 DEF Closes
<1>8. QED
  BY <1>2, <1>3, <1>4, <1>5, <1>6, <1>7, Steps, CallerFrame, RequestFrame, AcceptFrame
  DEF handles, registering

\* No more than Concurrency operations run at a time.
LEMMA CountsInv ==
  ASSUME TypeOK, Counts, [Next]_vars
  PROVE  Counts'
<1>1. /\ act \in [Regs -> {"queued", "running", "done"}]
      /\ cl \in [Regs -> {"todo", "open", "ok", "failed", "timeout", "skipped"}]
      /\ Concurrency \in Nat
  BY ServerAssumption DEF TypeOK
<1>2. /\ IsFiniteSet(InFlight) /\ Cardinality(InFlight) \in Nat
      /\ IsFiniteSet(Running) /\ Cardinality(Running) \in Nat
  BY SetsFinite DEF InFlight, Running
<1>3. ASSUME InFlight' \in SUBSET InFlight PROVE Cardinality(InFlight') <= Concurrency
  <2>1. Cardinality(InFlight') <= Cardinality(InFlight) /\ Cardinality(InFlight') \in Nat
    BY <1>2, <1>3, FS_Subset, FS_CardinalityType
  <2>2. QED
    BY <1>1, <1>2, <2>1 DEF Counts
<1>4. ASSUME Running' \in SUBSET Running PROVE Cardinality(Running') <= Concurrency
  <2>1. Cardinality(Running') <= Cardinality(Running) /\ Cardinality(Running') \in Nat
    BY <1>2, <1>4, FS_Subset, FS_CardinalityType
  <2>2. QED
    BY <1>1, <1>2, <2>1 DEF Counts
<1>5. UNCHANGED cl => InFlight' \in SUBSET InFlight
  BY DEF InFlight
<1>6. UNCHANGED act => Running' \in SUBSET Running
  BY DEF Running
<1>7. CASE UNCHANGED vars
  BY <1>3, <1>4, <1>5, <1>6, <1>7 DEF vars, registering, Counts
<1>8. CASE StartupStep
  <2>1. Cardinality(InFlight') <= Concurrency
    BY <1>3, <1>5, <1>8, StartupFrame
  <2>2. ASSUME NEW r \in Regs, StartActivation(r) PROVE Cardinality(Running') <= Concurrency
    <3>1. Running' = Running \union {r} /\ r \notin Running
      BY <1>1, <2>2 DEF StartActivation, Running
    <3>2. Cardinality(Running') = Cardinality(Running) + 1
      BY <1>2, <3>1, FS_AddElement
    <3>3. Cardinality(Running) < Concurrency
      BY <2>2 DEF StartActivation
    <3>4. QED
      BY <1>1, <1>2, <3>2, <3>3
  <2>3. ASSUME NEW r \in Regs, Activated(r) PROVE Running' \in SUBSET Running
    BY <1>1, <2>3 DEF Activated, Running
  <2>4. CASE UNCHANGED act
    BY <1>4, <1>6, <2>1, <2>4 DEF Counts
  <2>5. QED
    BY <1>4, <1>8, <2>1, <2>2, <2>3, <2>4 DEF Counts, StartupStep, StartUp, PrepareFailed,
       StartupTimeout, StartupCancelled, StartupFatal, BecomeReady, LeaveReady,
       ActivationFailed, ActivationTimeout, FailStartup, registering
<1>9. CASE CloseStep
  <2>1. Cardinality(Running') <= Concurrency
    BY <1>4, <1>6, <1>9, CloseFrame
  <2>2. CASE CloseBatch
    <3>1. InFlight' = NextBatch
      BY <2>2 DEF CloseBatch, InFlight, NextBatch, Todo, Tracked
    <3>2. QED
      BY <2>1, <3>1, BatchIsSmall DEF Counts
  <2>3. CASE CloseAbandoned
    <3>1. InFlight' \in SUBSET InFlight
      BY <2>3 DEF CloseAbandoned, InFlight
    <3>2. QED
      BY <1>3, <2>1, <3>1 DEF Counts
  <2>4. ASSUME NEW r \in Regs, CloseReturns(r) \/ CloseTimeout(r) PROVE Counts'
    <3>1. InFlight' \in SUBSET InFlight
      BY <1>1, <2>4 DEF CloseReturns, CloseTimeout, InFlight
    <3>2. QED
      BY <1>3, <2>1, <3>1 DEF Counts
  <2>5. QED
    BY <1>9, <2>2, <2>3, <2>4 DEF CloseStep
<1>10. QED
  BY <1>3, <1>4, <1>5, <1>6, <1>7, <1>8, <1>9, Steps, CallerFrame, DrainFrame, ProviderFrame,
     RequestFrame, AcceptFrame DEF registering, Counts

-----------------------------------------------------------------------------
(***************************************************************************)
(* The terminal result                                                     *)
(***************************************************************************)

\* What drain_runtime resolves to says what the server left behind.
LEMMA ResolvedMeans ==
  ASSUME TypeOK, Closes, Overdue, Registered, cpc = "drain", WorkDone
  PROVE  /\ Resolved = "Ok" => tpc = "ended" /\ ~late /\ \A r \in Tracked : cl[r] = "ok"
         /\ Resolved \in {"Ok", "Registry"} => tpc = "ended" /\ ~fatal
         /\ Resolved = "Timeout" => TimedOut
         /\ ~expired => \A r \in Tracked : cl[r] \in {"ok", "failed", "timeout"}
<1>1. \A r \in Tracked : r \in Regs /\ cl[r] \in {"ok", "failed", "timeout", "skipped"}
  BY DEF WorkDone, Todo, InFlight, Tracked, TypeOK
<1>2. tpc \in {"ended", "dead"}
  BY DEF WorkDone
<1>3. Resolved = "Ok" => tpc = "ended" /\ ~late /\ \A r \in Tracked : cl[r] = "ok"
  BY <1>1, <1>2 DEF Resolved
<1>4. Resolved \in {"Ok", "Registry"} => tpc = "ended" /\ ~fatal
  BY <1>2 DEF Resolved
<1>5. ~expired => \A r \in Tracked : cl[r] \in {"ok", "failed", "timeout"}
  BY <1>1 DEF Closes
<1>6. Resolved = "Timeout" => TimedOut
  BY DEF Resolved, Closes, Overdue, TimedOut
<1>7. QED
  BY <1>3, <1>4, <1>5, <1>6

\* Only the coordinator forces the end, and with the accept task it waits for the
\* deadline to do so.
LEMMA OverdueInv ==
  ASSUME Overdue, [Next]_vars
  PROVE  Overdue'
<1>1. CASE UNCHANGED <<force, late, expired>>
  BY <1>1 DEF Overdue
<1>2. CASE UNCHANGED vars
  BY <1>1, <1>2 DEF vars, transport
<1>3. CASE DrainStep
  <2>1. UNCHANGED late
    BY <1>3, DrainFrame
  <2>2. /\ expired => expired'
        /\ force' => force \/ expired'
    BY <1>3 DEF DrainStep, BeginDraining, Expire, ListenerClosed, Drained, Resolve, Deadline,
           Finish, DrainEnds
  <2>3. QED
    BY <2>1, <2>2 DEF Overdue
<1>4. CASE AcceptStep
  <2>1. UNCHANGED <<force, expired>>
    BY <1>4, AcceptFrame
  <2>2. late' => late \/ force \/ expired
    BY <1>4 DEF AcceptStep, TransportStep, BackoffEnds, CloseListener, Confirm,
         TransportDrained, TransportCut, AcceptOverLimit, AcceptFails, AcceptFatal,
         TransportDies, Accept
  <2>3. QED
    BY <2>1, <2>2 DEF Overdue
<1>5. QED
  BY <1>1, <1>2, <1>3, <1>4, Steps, StartupFrame, CloseFrame, ProviderFrame, CallerFrame,
     RequestFrame DEF transport

\* The result keeps its meaning.
LEMMA OutcomeInv ==
  ASSUME TypeOK, Stages, Registered, Closes, Overdue, Outcome, [Next]_vars
  PROVE  Outcome'
<1>1. phase \in [Regs -> {"planned", "prepared", "activating", "settled", "cleaning", "over"}]
  BY DEF TypeOK
<1>2. ASSUME UNCHANGED <<result, sres, cl>>, expired => expired', Tracked' = Tracked,
             tpc = "ended" => UNCHANGED <<tpc, late, fatal>>
      PROVE  Outcome'
  BY <1>2 DEF Outcome, TimedOut
<1>3. UNCHANGED handles => Tracked' = Tracked
  BY DEF handles, Tracked
<1>4. CASE UNCHANGED vars
  BY <1>2, <1>3, <1>4 DEF vars, coordinator, transport, registering
<1>5. CASE StartupStep
  <2>1. result = "none"
    BY <1>5 DEF Stages, StartupStep, StartUp, PrepareFailed, StartupTimeout,
           StartupCancelled, StartupFatal, BecomeReady, LeaveReady, StartActivation,
           Activated, ActivationFailed, ActivationTimeout, Activating, Ending
  <2>2. QED
    BY <1>5, <2>1, StartupFrame DEF Outcome
<1>6. CASE CloseStep
  <2>1. result = "none"
    BY <1>6 DEF Stages, CloseStep, CloseBatch, CloseAbandoned, CloseReturns, CloseTimeout,
         Ending
  <2>2. QED
    BY <1>6, <2>1, CloseFrame DEF Outcome
<1>7. CASE DrainStep
  <2>1. UNCHANGED <<sres, cl, tpc, late, fatal>> /\ Tracked' = Tracked
    BY <1>3, <1>7, DrainFrame
  <2>2. CASE Resolve
    <3>1. cpc = "drain" /\ WorkDone /\ DrainEnds(Resolved) /\ UNCHANGED expired
      BY <2>2 DEF Resolve, DrainEnds
    <3>2. /\ Resolved \in {"Ok", "Registry", "Accept", "Timeout"}
          /\ sres \in {"none", "Startup", "Accept", "Registry"}
      BY DEF Resolved, TypeOK
    <3>3. result' = IF sres = "none" \/ Resolved \in {"Timeout", "Accept"}
                    THEN Resolved ELSE sres
      BY <3>1 DEF DrainEnds
    <3>4. sres = "none" => Tracked = Regs
      BY <3>1 DEF Registered, Starting, Tracked
    <3>5. result' = "Ok" => Resolved = "Ok" /\ sres = "none"
      BY <3>2, <3>3
    <3>6. result' \notin {"none", "Accept", "Timeout"} => Resolved \in {"Ok", "Registry"}
      BY <3>2, <3>3
    <3>7. result' = "Timeout" => TimedOut'
      <4>1. result' = "Timeout" => Resolved = "Timeout"
        BY <3>2, <3>3
      <4>2. TimedOut' = TimedOut
        BY <2>1, <3>1 DEF TimedOut
      <4>3. QED
        BY <3>1, <4>1, <4>2, ResolvedMeans
    <3>8. QED
      BY <2>1, <3>1, <3>4, <3>5, <3>6, <3>7, ResolvedMeans DEF Outcome
  <2>3. CASE Deadline
    <3>1. result' = "Timeout" /\ expired'
      BY <2>3 DEF Deadline, DrainEnds
    <3>2. QED
      BY <3>1 DEF Outcome, TimedOut
  <2>4. CASE BeginDraining \/ Expire \/ ListenerClosed \/ Drained \/ Finish
    <3>1. UNCHANGED result /\ (expired => expired')
      BY <2>4 DEF BeginDraining, Expire, ListenerClosed, Drained, Finish, coordinator
    <3>2. QED
      BY <1>2, <2>1, <3>1
  <2>5. QED
    BY <1>7, <2>2, <2>3, <2>4 DEF DrainStep
<1>8. CASE AcceptStep
  <2>1. UNCHANGED <<result, sres, cl, expired>> /\ Tracked' = Tracked
    BY <1>3, <1>8, AcceptFrame DEF registering
  <2>2. tpc # "ended"
    BY <1>8 DEF AcceptStep, TransportStep, BackoffEnds, CloseListener, Confirm,
         TransportDrained, TransportCut, AcceptOverLimit, AcceptFails, AcceptFatal,
         TransportDies, Accept
  <2>3. QED
    BY <1>2, <2>1, <2>2
<1>9. ASSUME NEW r \in Regs, ProviderStep(r) PROVE Outcome'
  <2>1. Tracked' = Tracked
    BY <1>1, <1>9 DEF ProviderStep, Settle, CloseUnstarted, StartCleanup, FinishCleanup,
         Tracked
  <2>2. QED
    BY <1>2, <1>9, <2>1, ProviderFrame DEF registering
<1>10. QED
  BY <1>2, <1>3, <1>4, <1>5, <1>6, <1>7, <1>8, <1>9, Steps, CallerFrame, RequestFrame
  DEF registering

-----------------------------------------------------------------------------
(***************************************************************************)
(* The theorems                                                            *)
(***************************************************************************)

\* Every initial state satisfies the invariant.
LEMMA InitInv == Init => Inv
<1>1. SUFFICES ASSUME Init PROVE Inv
  OBVIOUS
<1>2. Open = {} /\ InFlight = {} /\ Running = {}
  BY <1>1 DEF Init, Open, InFlight, Running
<1>3. /\ Cardinality({}) = 0 /\ 0 \in 0 .. FatalAfter /\ 0 < FatalAfter
      /\ 0 <= MaxConnections /\ 0 <= Concurrency
  BY ServerAssumption, FS_EmptySet
<1>4. TypeOK
  BY <1>1, <1>2, <1>3, StateNames DEF Init, TypeOK, Results
<1>5. Stages /\ Visitors /\ Outcome
  BY <1>1 DEF Init, Stages, Visitors, Outcome, Starting, Ending
<1>6. Registered /\ Closes /\ Overdue
  BY <1>1 DEF Init, Registered, Closes, Overdue, Starting, Tracked
<1>7. Accepting /\ Counts
  BY <1>1, <1>2, <1>3 DEF Init, Accepting, Counts, Shut
<1>8. QED
  BY <1>4, <1>5, <1>6, <1>7 DEF Inv

\* Every step preserves it.
LEMMA NextInv == Inv /\ [Next]_vars => Inv'
BY TypeInv, StagesInv, RegisteredInv, VisitorsInv, AcceptingInv, ClosesInv, CountsInv,
   OverdueInv, OutcomeInv DEF Inv

\* The inductive invariant of a server: its stages, its registrations, its
\* visitors, its accept task, its closes and its result, in every state.
THEOREM Invariance == Spec => []Inv
BY InitInv, NextInv, PTL DEF Spec

\* Every variable of a server keeps its type: the accept failure tracker never
\* counts past the failure that is fatal, and the connection limit holds.
THEOREM TypeCorrect == Spec => []TypeOK
<1>1. Inv => TypeOK
  BY DEF Inv
<1>2. QED
  BY <1>1, Invariance, PTL

\* While the server says it is ready, every registration of its plan is active
\* and nobody asked for its cleanup; nobody is executed by a server whose
\* startup did not succeed.
THEOREM ReadyIsRegistered == Spec => []ReadyMeansRegistered
<1>1. ASSUME Inv PROVE ReadyMeansRegistered
  <2>1. ASSUME cpc = "ready", NEW r \in Regs
        PROVE  phase[r] = "settled" /\ activation[r] = "ok" /\ r \notin asked
    <3>1. asked = {} /\ act[r] = "done"
      BY <1>1, <2>1 DEF Inv, Stages, Registered, Starting
    <3>2. activation[r] = "ok" /\ phase[r] \in {"settled", "cleaning", "over"}
      BY <1>1, <3>1 DEF Inv, Registered, TypeOK
    <3>3. QED
      BY <1>1, <3>1, <3>2 DEF Inv, Registered
  <2>2. inside # {} => cpc \notin {"spawned", "activate"} /\ sres = "none"
    BY <1>1 DEF Inv, Visitors, Starting
  <2>3. QED
    BY <2>1, <2>2 DEF ReadyMeansRegistered
<1>2. QED
  BY <1>1, Invariance, PTL

\* The server drains in order: the listener and the gate are closed before the
\* first registration, registrations go in reverse order and at most Concurrency
\* at a time, and before the deadline every one was tried.
THEOREM DrainIsOrderly == Spec => []DrainsInOrder
<1>1. ASSUME Inv PROVE DrainsInOrder
  <2>1. ListenerFirst
    <3>1. SUFFICES ASSUME state = "Draining" \/ (\E r \in Regs : cl[r] # "todo")
                   PROVE  ~listening /\ gate # "open" /\ readiness \in {"Draining", "Stopped"}
      BY DEF ListenerFirst
    <3>2. ~listening
      BY <1>1, <3>1 DEF Inv, Accepting, Shut
    <3>3. cpc \in {"drain", "finish", "finished"}
      BY <1>1, <3>1 DEF Inv, Stages, Closes, Ending
    <3>4. QED
      BY <1>1, <3>2, <3>3 DEF Inv, Stages
  <2>2. OrderlyClose
    BY <1>1 DEF Inv, OrderlyClose, Closes, Counts, Outcome
  <2>3. QED
    BY <2>1, <2>2 DEF DrainsInOrder
<1>2. QED
  BY <1>1, Invariance, PTL

\* The terminal result is the truth: after Ok nothing is listening, connected,
\* executing or registered; after Timeout the shared deadline has passed or a close took
\* longer than its operation timeout; and only such a timeout is reported in place of a
\* fatal accept failure.
THEOREM ResultIsTruthful == Spec => []ResultTruthful
<1>1. ASSUME Inv PROVE ResultTruthful
  <2>1. StoppedClean
    <3>1. SUFFICES ASSUME result = "Ok"
                   PROVE  /\ ~listening /\ Open = {} /\ inside = {}
                          /\ \A r \in Regs : phase[r] = "over" /\ closing[r] = "ok"
      BY DEF StoppedClean
    <3>2. tpc = "ended" /\ ~late /\ \A r \in Regs : cl[r] = "ok"
      BY <1>1, <3>1 DEF Inv, Outcome
    <3>3. ~listening /\ Open = {}
      BY <1>1, <3>2 DEF Inv, Accepting, Shut
    <3>4. inside = {}
      BY <1>1, <3>3 DEF Inv, Visitors, Open, TypeOK
    <3>5. ASSUME NEW r \in Regs PROVE phase[r] = "over" /\ closing[r] = "ok"
      BY <1>1, <3>2 DEF Inv, Closes, Registered
    <3>6. QED
      BY <3>3, <3>4, <3>5
  <2>2. TimeoutFounded
    BY <1>1 DEF Inv, Outcome, TimeoutFounded
  <2>3. FatalReported
    BY <1>1, <2>2 DEF Inv, Outcome, FatalReported, TimeoutFounded
  <2>4. QED
    BY <2>1, <2>2, <2>3 DEF ResultTruthful
<1>2. QED
  BY <1>1, Invariance, PTL

-----------------------------------------------------------------------------
(***************************************************************************)
(* The routes a server starts with: HttpBinding, for any methods, path     *)
(* templates and parameters, and any path of a request.                    *)
(***************************************************************************)

CONSTANTS Methods, Templates, SecondSources, Texts, MaxQueryPairs

VARIABLES stage, service, served, args, headers, request, found, got

Binding == INSTANCE HttpBinding WITH server <- served

-----------------------------------------------------------------------------
\* A set of natural numbers has a least one, by which what holds of every number
\* is shown.
LEMMA LessThan == OpToRel(<, Nat) = {p \in Nat \X Nat : p[1] < p[2]}
BY Zenon DEF OpToRel

LEMMA LeastNumber ==
  ASSUME NEW T, T \subseteq Nat, T # {}
  PROVE  \E m \in T : \A n \in T : m <= n
<1> DEFINE R == {p \in Nat \X Nat : p[1] < p[2]}
<1>1. IsWellFoundedOn(R, Nat)
  BY NatLessThanWellFounded, LessThan, Zenon
<1>2. \A x, y \in T : <<y, x>> \notin R => x <= y
  OBVIOUS
<1> HIDE DEF R
<1>3. PICK x \in T : \A y \in T : ~(<<y, x>> \in R)
  BY <1>1, WFMin
<1> QED
  BY <1>2, <1>3, Zenon

-----------------------------------------------------------------------------
\* What the search does at a segment depends on what it finds from the next one on.
LEMMA SearchLooksAhead ==
  ASSUME NEW ops, NEW segments, NEW k, NEW f, NEW g,
         k > Binding!Len(segments) \/ f[k + 1] = g[k + 1]
  PROVE  \A routes : Binding!MatchSegments(ops, segments, k, routes, f)
                       = Binding!MatchSegments(ops, segments, k, routes, g)
BY DEF Binding!MatchSegments

\* So the function the search is defined as exists: it is found from the end of the
\* path backwards.
Searches(ops, segments, first, f) ==
  f = [k \in first .. Len(segments) + 1 |->
        [routes \in SUBSET DOMAIN ops |-> Binding!MatchSegments(ops, segments, k, routes, f)]]

LEMMA SearchExtends ==
  ASSUME NEW ops, NEW segments, Len(segments) \in Nat, NEW first \in 1 .. Len(segments), NEW f,
         Searches(ops, segments, first + 1, f)
  PROVE  \E g : Searches(ops, segments, first, g)
<1> DEFINE L == Len(segments)
           At(k, h) == [routes \in SUBSET DOMAIN ops |->
                         Binding!MatchSegments(ops, segments, k, routes, h)]
           g == [k \in first .. L + 1 |-> IF k = first THEN At(first, f) ELSE f[k]]
<1>1. f = [k \in first + 1 .. L + 1 |-> At(k, f)]
  BY Zenon DEF Searches
<1>2. \A k \in first + 1 .. L + 1 : f[k] = At(k, f)
  <2> HIDE DEF At, L
  <2> QED
    BY <1>1
<1>3. \A k \in first .. L + 1 : k > L \/ g[k + 1] = f[k + 1]
  <2> HIDE DEF At
  <2> QED
    OBVIOUS
<1>4. \A k \in first .. L + 1 : At(k, g) = At(k, f)
  <2> TAKE k \in first .. L + 1
  <2> HIDE DEF g
  <2>1. k > Len(segments) \/ g[k + 1] = f[k + 1]
    BY <1>3
  <2>2. \A routes : Binding!MatchSegments(ops, segments, k, routes, g)
                      = Binding!MatchSegments(ops, segments, k, routes, f)
    BY <2>1, SearchLooksAhead
  <2> QED
    BY <2>2
<1>5. \A k \in first .. L + 1 : g[k] = At(k, g)
  <2> TAKE k \in first .. L + 1
  <2>1. g[k] = IF k = first THEN At(first, f) ELSE f[k]
    BY Zenon
  <2>2. k = first \/ k \in first + 1 .. L + 1
    OBVIOUS
  <2> HIDE DEF g, At
  <2> QED
    BY <1>2, <1>4, <2>1, <2>2
<1>6. g = [k \in first .. L + 1 |-> At(k, g)]
  <2>1. g = [k \in first .. L + 1 |-> g[k]]
    OBVIOUS
  <2> HIDE DEF g, At
  <2> QED
    BY <1>5, <2>1
<1> QED
  BY <1>6, Zenon DEF Searches

LEMMA SearchIsDefined ==
  ASSUME NEW ops, NEW segments, Len(segments) \in Nat
  PROVE  Searches(ops, segments, 1, Binding!MatchFrom(ops, segments))
<1> DEFINE L == Len(segments)
           T == {n \in Nat : n <= L /\ ~\E f : Searches(ops, segments, L + 1 - n, f)}
<1>1. T = {}
  <2> SUFFICES ASSUME T # {} PROVE FALSE
    OBVIOUS
  <2>1. PICK m \in T : \A n \in T : m <= n
    <3>1. T \subseteq Nat
      OBVIOUS
    <3> HIDE DEF T
    <3> QED
      BY <3>1, LeastNumber
  <2>2. CASE m = 0
    <3> DEFINE f == [k \in L + 1 .. L + 1 |->
                      [routes \in SUBSET DOMAIN ops |->
                        {r \in routes : Binding!Len(ops[r].path) = Binding!Len(segments)}]]
    <3>1. \A k \in L + 1 .. L + 1 : \A h, routes :
            Binding!MatchSegments(ops, segments, k, routes, h)
              = {r \in routes : Binding!Len(ops[r].path) = Binding!Len(segments)}
      BY DEF Binding!MatchSegments
    <3>2. Searches(ops, segments, L + 1, f)
      <4> HIDE DEF f
      <4>1. f = [k \in L + 1 .. L + 1 |->
                  [routes \in SUBSET DOMAIN ops |->
                    Binding!MatchSegments(ops, segments, k, routes, f)]]
        BY <3>1 DEF f
      <4> QED
        BY <4>1, Zenon DEF Searches
    <3>3. L + 1 - m = L + 1
      BY <2>2
    <3> QED
      BY <3>2, <3>3, Zenon
  <2>3. CASE m # 0
    <3>1. m - 1 \in Nat /\ m - 1 <= L /\ m - 1 \notin T /\ L + 1 - m \in 1 .. L
          /\ L + 1 - (m - 1) = (L + 1 - m) + 1
      BY <2>1, <2>3
    <3>2. PICK f : Searches(ops, segments, (L + 1 - m) + 1, f)
      BY <3>1, Zenon
    <3>3. \E g : Searches(ops, segments, L + 1 - m, g)
      BY <3>1, <3>2, SearchExtends
    <3> QED
      BY <3>3, Zenon
  <2> QED
    BY <2>2, <2>3
<1>2. \E f : Searches(ops, segments, 1, f)
  <2>1. L \in Nat /\ L <= L /\ L \notin T /\ L + 1 - L = 1
    BY <1>1
  <2> QED
    BY <2>1, Zenon
<1>3. Binding!MatchFrom(ops, segments) =
        CHOOSE f : f = [k \in 1 .. Binding!Len(segments) + 1 |->
          [routes \in SUBSET DOMAIN ops |-> Binding!MatchSegments(ops, segments, k, routes, f)]]
  BY Zenon DEF Binding!MatchFrom
<1> QED
  BY <1>2, <1>3, Zenon DEF Searches

-----------------------------------------------------------------------------
\* A route table: its paths are sequences of literals and placeholders, and no two
\* routes of a method have the same shape.
IsTable(ops) ==
  /\ \A r \in DOMAIN ops :
       /\ Len(ops[r].path) \in Nat /\ DOMAIN ops[r].path = 1 .. Len(ops[r].path)
       /\ \A k \in DOMAIN ops[r].path : \E name :
            ops[r].path[k] = Binding!Literal(name) \/ ops[r].path[k] = Binding!Placeholder(name)
  /\ \A r, s \in DOMAIN ops :
       ops[r].method = ops[s].method /\ Binding!Shape(ops[r].path) = Binding!Shape(ops[s].path)
         => r = s

\* The routes the search is left with at a segment: they fit the path so far, each
\* in the same way.
Agreeing(ops, method, segments, k, routes) ==
  /\ routes \subseteq {r \in DOMAIN ops : ops[r].method = method}
  /\ \A r \in routes :
       /\ Len(ops[r].path) >= k - 1
       /\ \A j \in 1 .. k - 1 : \/ ops[r].path[j] = Binding!Literal(segments[j])
                                \/ ops[r].path[j].kind = "parameter"
  /\ \A r, s \in routes : \A j \in 1 .. k - 1 : ops[r].path[j].kind = ops[s].path[j].kind

\* What it is to find among them: routes that fit, some if there are any, and none
\* but the best.
Finds(ops, method, segments, routes, chosen) ==
  LET fitting == routes \cap Binding!Fitting(ops, method, segments) IN
  /\ chosen \subseteq fitting
  /\ fitting # {} => chosen # {}
  /\ \A r \in chosen, s \in fitting : r = s \/ Binding!Better(ops, r, s)

\* At the end of the path all that is left fits, and is one route.
LEMMA FoundAtEnd ==
  ASSUME NEW ops, NEW method, NEW segments, NEW routes, IsTable(ops),
         Len(segments) \in Nat, DOMAIN segments = 1 .. Len(segments),
         Agreeing(ops, method, segments, Len(segments) + 1, routes)
  PROVE  Finds(ops, method, segments, routes,
               {r \in routes : Len(ops[r].path) = Len(segments)})
<1> DEFINE L == Len(segments)
           ending == {r \in routes : Len(ops[r].path) = L}
           Shaped(x) == IF x.kind = "parameter" THEN Binding!Placeholder("") ELSE x
<1>1. routes \cap Binding!Fitting(ops, method, segments) = ending
  <2>1. \A r \in routes : /\ r \in DOMAIN ops /\ ops[r].method = method
                          /\ \A j \in 1 .. L : \/ ops[r].path[j] = Binding!Literal(segments[j])
                                               \/ ops[r].path[j].kind = "parameter"
    BY DEF Agreeing
  <2> QED
    BY <2>1 DEF Binding!Fitting
<1>2. ASSUME NEW r \in ending, NEW s \in ending
      PROVE  r = s
  <2>1. /\ r \in DOMAIN ops /\ s \in DOMAIN ops /\ ops[r].method = ops[s].method
        /\ DOMAIN ops[r].path = 1 .. L /\ DOMAIN ops[s].path = 1 .. L
    BY DEF Agreeing, IsTable
  <2>2. ASSUME NEW j \in 1 .. L
        PROVE  Shaped(ops[r].path[j]) = Shaped(ops[s].path[j])
    <3>1. /\ ops[r].path[j] = Binding!Literal(segments[j]) \/ ops[r].path[j].kind = "parameter"
          /\ ops[s].path[j] = Binding!Literal(segments[j]) \/ ops[s].path[j].kind = "parameter"
          /\ ops[r].path[j].kind = ops[s].path[j].kind
      BY DEF Agreeing
    <3>2. Binding!Literal(segments[j]).kind # "parameter"
      BY DEF Binding!Literal
    <3> QED
      BY <3>1, <3>2
  <2>3. Binding!Shape(ops[r].path) = Binding!Shape(ops[s].path)
    <3>1. /\ Binding!Shape(ops[r].path) = [j \in 1 .. L |-> Shaped(ops[r].path[j])]
          /\ Binding!Shape(ops[s].path) = [j \in 1 .. L |-> Shaped(ops[s].path[j])]
      BY <2>1 DEF Binding!Shape
    <3> HIDE DEF Shaped
    <3> QED
      BY <2>2, <3>1
  <2> QED
    BY <2>1, <2>3 DEF IsTable
<1> HIDE DEF ending
<1>3. Finds(ops, method, segments, routes, ending)
  BY <1>1, <1>2 DEF Finds
<1> QED
  BY <1>3 DEF ending

\* Going on with the literal, or with the parameter, keeps the routes in agreement.
LEMMA BranchesAgree ==
  ASSUME NEW ops, NEW method, NEW segments, NEW routes, IsTable(ops),
         NEW k \in Nat \ {0}, Agreeing(ops, method, segments, k, routes)
  PROVE  /\ Agreeing(ops, method, segments, k + 1, Binding!WithLiteral(ops, segments, k, routes))
         /\ Agreeing(ops, method, segments, k + 1, Binding!WithParameter(ops, k, routes))
<1>1. \A j \in 1 .. (k + 1) - 1 : j \in 1 .. k - 1 \/ j = k
  OBVIOUS
<1>2. (k + 1) - 1 = k
  OBVIOUS
<1>3. Binding!Literal(segments[k]).kind = "literal"
  BY DEF Binding!Literal
<1>4. Agreeing(ops, method, segments, k + 1, Binding!WithLiteral(ops, segments, k, routes))
  <2> DEFINE lit == Binding!WithLiteral(ops, segments, k, routes)
  <2>1. \A r \in lit : /\ r \in routes /\ Len(ops[r].path) >= k
                       /\ ops[r].path[k] = Binding!Literal(segments[k])
    BY DEF Binding!WithLiteral
  <2> HIDE DEF lit
  <2>2. lit \subseteq {r \in DOMAIN ops : ops[r].method = method}
    BY <2>1 DEF Agreeing
  <2>3. \A r \in lit : \A j \in 1 .. (k + 1) - 1 :
          ops[r].path[j] = Binding!Literal(segments[j]) \/ ops[r].path[j].kind = "parameter"
    BY <1>1, <2>1 DEF Agreeing
  <2>4. \A r, s \in lit : \A j \in 1 .. (k + 1) - 1 : ops[r].path[j].kind = ops[s].path[j].kind
    BY <1>1, <1>3, <2>1 DEF Agreeing
  <2>5. Agreeing(ops, method, segments, k + 1, lit)
    BY <1>2, <2>1, <2>2, <2>3, <2>4 DEF Agreeing
  <2> QED
    BY <2>5 DEF lit
<1>5. Agreeing(ops, method, segments, k + 1, Binding!WithParameter(ops, k, routes))
  <2> DEFINE par == Binding!WithParameter(ops, k, routes)
  <2>1. \A r \in par : /\ r \in routes /\ Len(ops[r].path) >= k
                       /\ ops[r].path[k].kind = "parameter"
    BY DEF Binding!WithParameter
  <2> HIDE DEF par
  <2>2. par \subseteq {r \in DOMAIN ops : ops[r].method = method}
    BY <2>1 DEF Agreeing
  <2>3. \A r \in par : \A j \in 1 .. (k + 1) - 1 :
          ops[r].path[j] = Binding!Literal(segments[j]) \/ ops[r].path[j].kind = "parameter"
    BY <1>1, <2>1 DEF Agreeing
  <2>4. \A r, s \in par : \A j \in 1 .. (k + 1) - 1 : ops[r].path[j].kind = ops[s].path[j].kind
    BY <1>1, <2>1 DEF Agreeing
  <2>5. Agreeing(ops, method, segments, k + 1, par)
    BY <1>2, <2>1, <2>2, <2>3, <2>4 DEF Agreeing
  <2> QED
    BY <2>5 DEF par
<1> QED
  BY <1>4, <1>5

\* What fits goes on with the literal or with a parameter, and the former is better.
LEMMA FoundOneFurther ==
  ASSUME NEW ops, NEW method, NEW segments, NEW routes, IsTable(ops),
         Len(segments) \in Nat, DOMAIN segments = 1 .. Len(segments),
         NEW k \in 1 .. Len(segments), Agreeing(ops, method, segments, k, routes), NEW from,
         Finds(ops, method, segments, Binding!WithLiteral(ops, segments, k, routes),
               from[k + 1][Binding!WithLiteral(ops, segments, k, routes)]),
         Finds(ops, method, segments, Binding!WithParameter(ops, k, routes),
               from[k + 1][Binding!WithParameter(ops, k, routes)])
  PROVE  Finds(ops, method, segments, routes,
               Binding!MatchSegments(ops, segments, k, routes, from))
<1> DEFINE lit == Binding!WithLiteral(ops, segments, k, routes)
           par == Binding!WithParameter(ops, k, routes)
           F == Binding!Fitting(ops, method, segments)
<1>1. Binding!MatchSegments(ops, segments, k, routes, from) =
        IF lit # {} /\ from[k + 1][lit] # {} THEN from[k + 1][lit]
        ELSE IF par = {} THEN {} ELSE from[k + 1][par]
  <2>1. ~(k > Binding!Len(segments))
    OBVIOUS
  <2> QED
    BY <2>1, Zenon DEF Binding!MatchSegments
<1>2. routes \cap F = (lit \cap F) \cup (par \cap F)
  <2>1. \A r \in F : /\ Len(ops[r].path) = Len(segments)
                     /\ ops[r].path[k] = Binding!Literal(segments[k])
                        \/ ops[r].path[k].kind = "parameter"
    BY DEF Binding!Fitting
  <2>2. \A r \in routes \cap F : r \in lit \/ r \in par
    BY <2>1 DEF Binding!WithLiteral, Binding!WithParameter
  <2>3. lit \subseteq routes /\ par \subseteq routes
    BY DEF Binding!WithLiteral, Binding!WithParameter
  <2> HIDE DEF lit, par, F
  <2> QED
    BY <2>2, <2>3
<1>3. ASSUME NEW r \in lit, NEW s \in par
      PROVE  Binding!Better(ops, r, s)
  <2>1. /\ r \in routes /\ s \in routes /\ Len(ops[r].path) >= k
        /\ ops[r].path[k] = Binding!Literal(segments[k]) /\ ops[s].path[k].kind = "parameter"
    BY DEF Binding!WithLiteral, Binding!WithParameter
  <2>2. r \in DOMAIN ops
    BY <2>1 DEF Agreeing
  <2>3. k \in DOMAIN ops[r].path
    BY <2>1, <2>2 DEF IsTable
  <2>4. ops[r].path[k].kind = "literal"
    BY <2>1 DEF Binding!Literal
  <2>5. \A j \in 1 .. k - 1 : ops[r].path[j].kind = ops[s].path[j].kind
    BY <2>1 DEF Agreeing
  <2> QED
    BY <2>1, <2>3, <2>4, <2>5, Zenon DEF Binding!Better
<1>4. /\ from[k + 1][lit] \subseteq lit \cap F
      /\ lit \cap F # {} => from[k + 1][lit] # {}
      /\ \A r \in from[k + 1][lit], s \in lit \cap F : r = s \/ Binding!Better(ops, r, s)
  BY Zenon DEF Finds
<1>5. /\ from[k + 1][par] \subseteq par \cap F
      /\ par \cap F # {} => from[k + 1][par] # {}
      /\ \A r \in from[k + 1][par], s \in par \cap F : r = s \/ Binding!Better(ops, r, s)
  BY Zenon DEF Finds
<1> DEFINE chosen == Binding!MatchSegments(ops, segments, k, routes, from)
<1> HIDE DEF lit, par, F
<1>6. CASE from[k + 1][lit] # {}
  <2>1. chosen = from[k + 1][lit]
    BY <1>1, <1>4, <1>6
  <2> HIDE DEF chosen
  <2>2. /\ chosen \subseteq routes \cap F /\ chosen # {}
        /\ \A r \in chosen, s \in routes \cap F : r = s \/ Binding!Better(ops, r, s)
    BY <1>2, <1>3, <1>4, <1>6, <2>1
  <2> QED
    BY <2>2 DEF Finds, chosen, F
<1>7. CASE from[k + 1][lit] = {}
  <2>1. chosen = IF par = {} THEN {} ELSE from[k + 1][par]
    BY <1>1, <1>7
  <2> HIDE DEF chosen
  <2>2. routes \cap F = par \cap F
    BY <1>2, <1>4, <1>7
  <2>3. /\ chosen \subseteq routes \cap F /\ (routes \cap F # {} => chosen # {})
        /\ \A r \in chosen, s \in routes \cap F : r = s \/ Binding!Better(ops, r, s)
    BY <1>5, <2>1, <2>2
  <2> QED
    BY <2>3 DEF Finds, chosen, F
<1> QED
  BY <1>6, <1>7

\* So the search finds what it is to find, from any segment on.
LEMMA SearchFinds ==
  ASSUME NEW ops, NEW method, NEW segments, IsTable(ops),
         Len(segments) \in Nat, DOMAIN segments = 1 .. Len(segments)
  PROVE  \A k \in 1 .. Len(segments) + 1 : \A routes :
           Agreeing(ops, method, segments, k, routes)
             => Finds(ops, method, segments, routes, Binding!MatchFrom(ops, segments)[k][routes])
<1> DEFINE L == Len(segments)
           from == Binding!MatchFrom(ops, segments)
           Good(k) == \A routes : Agreeing(ops, method, segments, k, routes)
                        => Finds(ops, method, segments, routes, from[k][routes])
           T == {n \in Nat : n <= L /\ ~Good(L + 1 - n)}
<1>1. \A k \in 1 .. L + 1 : \A routes \in SUBSET DOMAIN ops :
        from[k][routes] = Binding!MatchSegments(ops, segments, k, routes, from)
  <2>1. Searches(ops, segments, 1, from)
    BY SearchIsDefined
  <2> HIDE DEF from
  <2>2. from = [k \in 1 .. L + 1 |-> [routes \in SUBSET DOMAIN ops |->
                  Binding!MatchSegments(ops, segments, k, routes, from)]]
    BY <2>1, Zenon DEF Searches
  <2>3. \A k \in 1 .. L + 1 : from[k] = [routes \in SUBSET DOMAIN ops |->
                  Binding!MatchSegments(ops, segments, k, routes, from)]
    BY <2>2
  <2> QED
    BY <2>3
<1>2. \A k \in 1 .. L + 1 : \A routes :
        Agreeing(ops, method, segments, k, routes) => routes \in SUBSET DOMAIN ops
  BY DEF Agreeing
<1> HIDE DEF from
<1>3. Good(L + 1)
  <2> SUFFICES ASSUME NEW routes, Agreeing(ops, method, segments, L + 1, routes)
               PROVE  Finds(ops, method, segments, routes, from[L + 1][routes])
    BY Zenon
  <2>1. from[L + 1][routes] = Binding!MatchSegments(ops, segments, L + 1, routes, from)
    BY <1>1, <1>2
  <2>2. Binding!MatchSegments(ops, segments, L + 1, routes, from)
          = {r \in routes : Len(ops[r].path) = L}
    BY DEF Binding!MatchSegments
  <2> QED
    BY <2>1, <2>2, FoundAtEnd
<1>4. ASSUME NEW k \in 1 .. L, Good(k + 1)
      PROVE  Good(k)
  <2> SUFFICES ASSUME NEW routes, Agreeing(ops, method, segments, k, routes)
               PROVE  Finds(ops, method, segments, routes, from[k][routes])
    BY Zenon
  <2>1. /\ Agreeing(ops, method, segments, k + 1, Binding!WithLiteral(ops, segments, k, routes))
        /\ Agreeing(ops, method, segments, k + 1, Binding!WithParameter(ops, k, routes))
    BY BranchesAgree
  <2>2. /\ Finds(ops, method, segments, Binding!WithLiteral(ops, segments, k, routes),
                 from[k + 1][Binding!WithLiteral(ops, segments, k, routes)])
        /\ Finds(ops, method, segments, Binding!WithParameter(ops, k, routes),
                 from[k + 1][Binding!WithParameter(ops, k, routes)])
    BY <1>4, <2>1, Zenon
  <2>3. Finds(ops, method, segments, routes,
              Binding!MatchSegments(ops, segments, k, routes, from))
    BY <2>2, FoundOneFurther
  <2>4. from[k][routes] = Binding!MatchSegments(ops, segments, k, routes, from)
    BY <1>1, <1>2
  <2> QED
    BY <2>3, <2>4
<1>5. T = {}
  <2> SUFFICES ASSUME T # {} PROVE FALSE
    OBVIOUS
  <2>1. PICK m \in T : \A n \in T : m <= n
    <3>1. T \subseteq Nat
      OBVIOUS
    <3> HIDE DEF T
    <3> QED
      BY <3>1, LeastNumber
  <2> HIDE DEF Good
  <2>2. m # 0
    <3>1. L + 1 - 0 = L + 1
      OBVIOUS
    <3> QED
      BY <1>3, <2>1, <3>1
  <2>3. m - 1 \in Nat /\ m - 1 <= L /\ m - 1 \notin T /\ L + 1 - m \in 1 .. L
        /\ L + 1 - (m - 1) = (L + 1 - m) + 1
    BY <2>1, <2>2
  <2>4. Good((L + 1 - m) + 1)
    BY <2>3
  <2>5. Good(L + 1 - m)
    BY <1>4, <2>3, <2>4
  <2> QED
    BY <2>1, <2>5
<1>6. ASSUME NEW k \in 1 .. L + 1
      PROVE  Good(k)
  <2>1. L + 1 - k \in Nat /\ L + 1 - k <= L /\ L + 1 - (L + 1 - k) = k
    OBVIOUS
  <2> HIDE DEF Good
  <2> QED
    BY <1>5, <2>1
<1> QED
  BY <1>6, Zenon DEF from

\* The search finds the best route of every path, if there is one, and none else.
LEMMA BestIsFound ==
  ASSUME NEW ops, NEW method, NEW segments, IsTable(ops),
         Len(segments) \in Nat, DOMAIN segments = 1 .. Len(segments)
  PROVE  Binding!Match(ops, method, segments) = Binding!Best(ops, method, segments)
<1> DEFINE routes == {r \in DOMAIN ops : ops[r].method = method}
           F == Binding!Fitting(ops, method, segments)
           M == Binding!Match(ops, method, segments)
<1>1. Agreeing(ops, method, segments, 1, routes)
  BY DEF Agreeing, IsTable
<1>2. Finds(ops, method, segments, routes, M)
  BY <1>1, SearchFinds DEF Binding!Match
<1>3. routes \cap F = F
  BY DEF Binding!Fitting
<1> HIDE DEF routes, F, M
<1>4. /\ M \subseteq F /\ (F # {} => M # {})
      /\ \A r \in M, s \in F : r = s \/ Binding!Better(ops, r, s)
  BY <1>2, <1>3, Zenon DEF Finds, F
<1>5. ASSUME NEW r \in F, NEW s \in F, Binding!Better(ops, r, s), Binding!Better(ops, s, r)
      PROVE  FALSE
  <2>1. PICK k \in DOMAIN ops[r].path :
          /\ ops[r].path[k].kind = "literal" /\ ops[s].path[k].kind = "parameter"
          /\ \A j \in 1 .. k - 1 : ops[r].path[j].kind = ops[s].path[j].kind
    BY <1>5, Zenon DEF Binding!Better
  <2>2. PICK i \in DOMAIN ops[s].path :
          /\ ops[s].path[i].kind = "literal" /\ ops[r].path[i].kind = "parameter"
          /\ \A j \in 1 .. i - 1 : ops[s].path[j].kind = ops[r].path[j].kind
    BY <1>5, Zenon DEF Binding!Better
  <2>3. k \in Nat \ {0} /\ i \in Nat \ {0}
    <3>1. r \in DOMAIN ops /\ s \in DOMAIN ops
      BY DEF F, Binding!Fitting
    <3> QED
      BY <2>1, <2>2, <3>1 DEF IsTable
  <2>4. k \in 1 .. i - 1 \/ i \in 1 .. k - 1 \/ i = k
    BY <2>3
  <2> QED
    BY <2>1, <2>2, <2>4
<1>6. Binding!Best(ops, method, segments)
        = {r \in F : \A s \in F \ {r} : Binding!Better(ops, r, s)}
  BY Zenon DEF Binding!Best, F
<1>7. M = {r \in F : \A s \in F \ {r} : Binding!Better(ops, r, s)}
  BY <1>4, <1>5
<1> QED
  BY <1>6, <1>7 DEF M

-----------------------------------------------------------------------------
\* A template is a sequence of literals and placeholders.
IsSequence(s) == Len(s) \in Nat /\ DOMAIN s = 1 .. Len(s)
IsPath(path) ==
  /\ IsSequence(path)
  /\ \A k \in DOMAIN path :
       \E name : path[k] = Binding!Literal(name) \/ path[k] = Binding!Placeholder(name)

WellFormedTemplates == \A path \in Templates : IsPath(path)

\* The canonical spelling of a text is one: literals that mean the same are the same.
LEMMA LiteralsAreCanonical ==
  ASSUME NEW t, NEW u, Binding!RouteLiteralIsValid(t), Binding!RouteLiteralIsValid(u),
         Binding!Unescaped(t) = Binding!Unescaped(u)
  PROVE  t = u
BY Zenon DEF Binding!RouteLiteralIsValid

\* What the macro takes for a literal the contract does too.
LEMMA LiteralsAreDecoded ==
  ASSUME NEW t, Binding!RouteLiteralIsValid(t)
  PROVE  Binding!DecodeRouteLiteral(t) # {}
<1>1. Binding!Unescaped(t) \in Binding!DecodeRouteLiteral(t)
  BY Zenon DEF Binding!RouteLiteralIsValid, Binding!DecodeRouteLiteral
<1> QED
  BY <1>1

LEMMA RoutesAreValid ==
  ASSUME NEW path, Binding!MacroRouteIsValid(path)
  PROVE  Binding!RouteIsValid(path)
BY LiteralsAreDecoded, Zenon DEF Binding!MacroRouteIsValid, Binding!RouteIsValid

\* Parsing a template keeps routes apart that have different shapes.
LEMMA ParsingKeepsShapes ==
  ASSUME NEW p, NEW q, IsPath(p), IsPath(q),
         Binding!MacroRouteIsValid(p), Binding!MacroRouteIsValid(q),
         Binding!Shape(Binding!ParseTemplate(p)) = Binding!Shape(Binding!ParseTemplate(q))
  PROVE  Binding!Shape(p) = Binding!Shape(q)
<1> DEFINE P == Binding!ParseTemplate(p)
           Q == Binding!ParseTemplate(q)
           Shaped(x) == IF x.kind = "parameter" THEN Binding!Placeholder("") ELSE x
           Parsed(x) == IF x.kind = "literal" THEN Binding!Literal(Binding!Unescaped(x.name)) ELSE x
<1>1. /\ DOMAIN Binding!Shape(P) = DOMAIN p /\ DOMAIN Binding!Shape(Q) = DOMAIN q
      /\ \A k \in DOMAIN p : Binding!Shape(P)[k] = Shaped(Parsed(p[k]))
      /\ \A k \in DOMAIN q : Binding!Shape(Q)[k] = Shaped(Parsed(q[k]))
  BY DEF Binding!Shape, Binding!ParseTemplate
<1>2. DOMAIN p = DOMAIN q
  BY <1>1
<1>3. ASSUME NEW k \in DOMAIN p
      PROVE  Shaped(p[k]) = Shaped(q[k])
  <2>1. Shaped(Parsed(p[k])) = Shaped(Parsed(q[k]))
    BY <1>1, <1>2, Zenon
  <2>2. PICK m : p[k] = Binding!Literal(m) \/ p[k] = Binding!Placeholder(m)
    BY Zenon DEF IsPath
  <2>3. PICK n : q[k] = Binding!Literal(n) \/ q[k] = Binding!Placeholder(n)
    BY <1>2, Zenon DEF IsPath
  <2>4. CASE p[k] = Binding!Literal(m) /\ q[k] = Binding!Literal(n)
    <3>1. p[k].kind = "literal" /\ p[k].name = m /\ q[k].kind = "literal" /\ q[k].name = n
      BY <2>4 DEF Binding!Literal
    <3>2. Binding!Unescaped(m) = Binding!Unescaped(n)
      BY <2>1, <3>1 DEF Binding!Literal
    <3>3. Binding!RouteLiteralIsValid(m) /\ Binding!RouteLiteralIsValid(n)
      BY <1>2, <3>1, Zenon DEF Binding!MacroRouteIsValid
    <3>4. m = n
      BY <3>2, <3>3, LiteralsAreCanonical
    <3> QED
      BY <2>4, <3>4
  <2>5. CASE p[k] = Binding!Placeholder(m) /\ q[k] = Binding!Placeholder(n)
    BY <2>5 DEF Binding!Placeholder
  <2>6. (p[k].kind = "literal") <=> (q[k].kind = "literal")
    <3>1. \A t : /\ Binding!Literal(t).kind = "literal"
                 /\ Binding!Placeholder(t).kind = "parameter"
      BY DEF Binding!Literal, Binding!Placeholder
    <3>2. \A x : x.kind = "literal" => Shaped(Parsed(x)).kind = "literal"
      BY <3>1
    <3>3. \A x : x.kind = "parameter" => Shaped(Parsed(x)).kind = "parameter"
      BY <3>1
    <3> HIDE DEF Shaped, Parsed
    <3>4. /\ p[k].kind = "literal" \/ p[k].kind = "parameter"
          /\ q[k].kind = "literal" \/ q[k].kind = "parameter"
      BY <2>2, <2>3, <3>1
    <3> QED
      BY <2>1, <3>2, <3>3, <3>4
  <2>7. p[k] = Binding!Literal(m) => p[k].kind = "literal"
    BY DEF Binding!Literal
  <2>8. q[k] = Binding!Literal(n) => q[k].kind = "literal"
    BY DEF Binding!Literal
  <2>9. /\ p[k] = Binding!Placeholder(m) => p[k].kind # "literal"
        /\ q[k] = Binding!Placeholder(n) => q[k].kind # "literal"
    BY DEF Binding!Placeholder
  <2> QED
    BY <2>2, <2>3, <2>4, <2>5, <2>6, <2>7, <2>8, <2>9, Zenon
<1>4. Binding!Shape(p) = [k \in DOMAIN p |-> Shaped(p[k])]
      /\ Binding!Shape(q) = [k \in DOMAIN q |-> Shaped(q[k])]
  BY Zenon DEF Binding!Shape
<1> HIDE DEF Shaped
<1> QED
  BY <1>2, <1>3, <1>4

\* The contract asks of a parameter nothing the macro has not checked.
LEMMA OperationsAreValid ==
  ASSUME NEW d, Binding!MacroRouteIsValid(d.path), Binding!ParametersAreValid(d)
  PROVE  Binding!OperationIsValid(Binding!Operation(d))
<1> DEFINE op == Binding!Operation(d)
<1>1. /\ op.method = d.method /\ op.path = d.path /\ DOMAIN op.params = DOMAIN d.params
      /\ \A i \in DOMAIN d.params : /\ op.params[i].name = d.params[i].name
                                    /\ op.params[i].source = Binding!Source(d, d.params[i])
                                    /\ op.params[i].repeated = d.params[i].repeated
  BY DEF Binding!Operation
<1> HIDE DEF op
<1>2. \A s : Binding!WithSource(op, s) = Binding!Having(d, s)
  BY <1>1 DEF Binding!WithSource, Binding!Having
<1>3. Binding!RouteIsValid(op.path)
  BY <1>1, RoutesAreValid
<1>4. \A i, j \in DOMAIN op.params : op.params[i].name = op.params[j].name => i = j
  BY <1>1, Zenon DEF Binding!ParametersAreValid
<1>5. \A i \in DOMAIN d.params : Binding!ParameterIsValid(d, d.params[i])
  BY Zenon DEF Binding!ParametersAreValid
<1>6. \A i \in DOMAIN op.params : op.params[i].repeated => op.params[i].source = "query"
  <2>1. \A i \in DOMAIN d.params :
          d.params[i].repeated => Binding!Source(d, d.params[i]) = "query"
    <3> TAKE i \in DOMAIN d.params
    <3>1. Binding!ParameterIsValid(d, d.params[i])
      BY <1>5
    <3>2. d.params[i].repeated => d.params[i].source = "query"
      BY <3>1, Zenon DEF Binding!ParameterIsValid
    <3> QED
      BY <3>2 DEF Binding!Source
  <2> QED
    BY <1>1, <2>1
<1>7. /\ Binding!AtMostOne(Binding!WithSource(op, "body"))
      /\ Binding!AtMostOne(Binding!WithSource(op, "query_map"))
      /\ Binding!AtMostOne(Binding!WithSource(op, "header_map"))
      /\ Binding!WithSource(op, "body") # {} => Binding!WithSource(op, "body_field") = {}
  BY <1>2 DEF Binding!ParametersAreValid
<1>8. op.method \in {"GET", "HEAD", "OPTIONS"} =>
        Binding!WithSource(op, "body") \cup Binding!WithSource(op, "body_field") = {}
  <2>1. \A i \in DOMAIN d.params :
          Binding!Source(d, d.params[i]) \in {"body", "body_field"}
            => d.method \notin {"GET", "HEAD", "OPTIONS"}
    BY <1>5, Zenon DEF Binding!ParameterIsValid
  <2> QED
    BY <1>1, <1>2, <2>1 DEF Binding!Having
<1>9. Binding!Placeholders(op.path) = Binding!NamesFrom(op, "path")
  <2>1. Binding!Placeholders(d.path) = {d.params[i].name : i \in Binding!Having(d, "path")}
    BY Zenon DEF Binding!ParametersAreValid
  <2>2. Binding!Having(d, "path") \subseteq DOMAIN d.params
    BY DEF Binding!Having
  <2> QED
    BY <1>1, <1>2, <2>1, <2>2 DEF Binding!NamesFrom
<1> QED
  BY <1>3, <1>4, <1>6, <1>7, <1>8, <1>9, Zenon DEF Binding!OperationIsValid, op

\* What the macro accepts the contract and the route table accept.
LEMMA AcceptedEverywhere ==
  ASSUME WellFormedTemplates, 1 \in DOMAIN service,
         \A i \in DOMAIN service : service[i].path \in Templates,
         Binding!MacroAccepts(service)
  PROVE  Binding!ContractAccepts(Binding!Operations) /\ Binding!TableAccepts(Binding!Operations)
<1> DEFINE ops == Binding!Operations
<1>1. /\ DOMAIN ops = DOMAIN service
      /\ \A i \in DOMAIN service : ops[i] = Binding!Operation(service[i])
  BY DEF Binding!Operations
<1>2. \A i \in DOMAIN service : ops[i].method = service[i].method /\ ops[i].path = service[i].path
  BY <1>1 DEF Binding!Operation
<1> HIDE DEF ops
<1>3. \A i \in DOMAIN service : /\ Binding!MacroRouteIsValid(service[i].path)
                                /\ Binding!ParametersAreValid(service[i])
                                /\ IsPath(service[i].path)
  BY Zenon DEF Binding!MacroAccepts, WellFormedTemplates
<1>4. \A i, j \in DOMAIN service :
        /\ service[i].method = service[j].method
        /\ Binding!Shape(service[i].path) = Binding!Shape(service[j].path)
        => i = j
  BY Zenon DEF Binding!MacroAccepts
<1>5. Binding!ContractAccepts(ops)
  <2>1. ops # <<>>
    BY <1>1
  <2>2. \A i \in DOMAIN ops : Binding!OperationIsValid(ops[i])
    BY <1>1, <1>3, OperationsAreValid, Zenon
  <2>3. \A i, j \in DOMAIN ops :
          /\ ops[i].method = ops[j].method
          /\ Binding!Shape(ops[i].path) = Binding!Shape(ops[j].path)
          => i = j
    BY <1>1, <1>2, <1>4, Zenon
  <2> QED
    BY <2>1, <2>2, <2>3, Zenon DEF Binding!ContractAccepts
<1>6. Binding!TableAccepts(ops)
  <2> SUFFICES ASSUME NEW i \in DOMAIN ops, NEW j \in DOMAIN ops,
                      Binding!Leaf(ops[i]) = Binding!Leaf(ops[j])
               PROVE  i = j
    BY Zenon DEF Binding!TableAccepts
  <2>1. /\ service[i].method = service[j].method
        /\ Binding!Shape(Binding!ParseTemplate(service[i].path))
             = Binding!Shape(Binding!ParseTemplate(service[j].path))
    BY <1>1, <1>2 DEF Binding!Leaf
  <2>2. Binding!Shape(service[i].path) = Binding!Shape(service[j].path)
    BY <1>1, <1>3, <2>1, ParsingKeepsShapes
  <2> QED
    BY <1>1, <1>4, <2>1, <2>2, Zenon
<1> QED
  BY <1>5, <1>6 DEF ops

\* Where calls go on, the service having been started.
Calling == {"sent", "rejected_locally", "routed", "rejected", "delivered"}
Served == {"started"} \cup Calling

\* A service keeps being declared with such templates, and is accepted once compiled.
BindingInv ==
  /\ stage # "not_started"
  /\ \E S : service \in Seq(S)
  /\ 1 \in DOMAIN service
  /\ \A i \in DOMAIN service : "path" \in DOMAIN service[i] /\ service[i].path \in Templates
  /\ stage = "compiled" => Binding!MacroAccepts(service)
  /\ stage \in Served => Binding!TableAccepts(Binding!Operations)

LEMMA SameOperations ==
  ASSUME UNCHANGED service, Binding!TableAccepts(Binding!Operations)
  PROVE  Binding!TableAccepts(Binding!Operations)'
<1>1. Binding!Operations' = Binding!Operations
  BY DEF Binding!Operations
<1> QED
  BY <1>1

LEMMA BindingInit == Binding!Init => BindingInv
<1> SUFFICES ASSUME Binding!Init PROVE BindingInv
  OBVIOUS
<1>1. PICK method \in Methods, path \in Templates :
        \E params : service = <<Binding!First(method, path, params)>>
  BY Zenon DEF Binding!Init
<1>2. PICK params : service = <<Binding!First(method, path, params)>>
  BY <1>1
<1>3. /\ DOMAIN service = {1} /\ service[1] = Binding!First(method, path, params)
      /\ service \in Seq({Binding!First(method, path, params)})
  BY <1>2
<1>4. "path" \in DOMAIN service[1] /\ service[1].path = path
  BY <1>3 DEF Binding!First
<1>5. stage = "declaring"
  BY DEF Binding!Init
<1> QED
  BY <1>3, <1>4, <1>5 DEF BindingInv, Served, Calling

LEMMA BindingStep ==
  ASSUME WellFormedTemplates
  PROVE  BindingInv /\ [Binding!Next]_(Binding!vars) => BindingInv'
<1> SUFFICES ASSUME BindingInv, [Binding!Next]_(Binding!vars) PROVE BindingInv'
  OBVIOUS
<1> USE DEF BindingInv, Served, Calling
<1>0. PICK S : service \in Seq(S)
  OBVIOUS
<1>1. CASE Binding!DeclareParameter
  <2>1. PICK p : service' = [service EXCEPT ![1].params = Append(@, p)]
    BY <1>1, Zenon DEF Binding!DeclareParameter
  <2>2. stage' = "declaring" /\ stage = "declaring"
    BY <1>1 DEF Binding!DeclareParameter
  <2>3. DOMAIN service' = DOMAIN service
        /\ \A i \in DOMAIN service :
             /\ DOMAIN service'[i] = DOMAIN service[i]
             /\ "path" \in DOMAIN service[i] => service'[i].path = service[i].path
    BY <2>1
  <2>4. \E T : service' \in Seq(T)
    <3>1. service' \in Seq(S \cup {service'[1]})
      BY <1>0, <2>1
    <3> QED
      BY <3>1
  <2> QED
    BY <2>2, <2>3, <2>4
<1>2. CASE Binding!DeclareMethod
  <2>1. PICK d : /\ "path" \in DOMAIN d /\ d.path \in Templates
                 /\ service' = Append(service, d)
    <3>1. PICK path \in Templates :
            \E response, params :
              service' = Append(service, [method |-> service[1].method, path |-> path,
                                          response |-> response, params |-> params])
      BY <1>2, Zenon DEF Binding!DeclareMethod
    <3>2. PICK response, params :
            service' = Append(service, [method |-> service[1].method, path |-> path,
                                        response |-> response, params |-> params])
      BY <3>1, Zenon
    <3> DEFINE d == [method |-> service[1].method, path |-> path,
                     response |-> response, params |-> params]
    <3>3. "path" \in DOMAIN d /\ d.path = path
      OBVIOUS
    <3> HIDE DEF d
    <3> QED
      BY <3>2, <3>3 DEF d
  <2>2. stage' = "declaring" /\ stage = "declaring"
    BY <1>2 DEF Binding!DeclareMethod
  <2>3. /\ service' \in Seq(S \cup {d}) /\ DOMAIN service' = 1 .. Len(service) + 1
        /\ \A i \in 1 .. Len(service) : service'[i] = service[i]
        /\ service'[Len(service) + 1] = d
        /\ DOMAIN service = 1 .. Len(service) /\ Len(service) \in Nat
    BY <1>0, <2>1
  <2>4. \A i \in 1 .. Len(service) + 1 : i \in 1 .. Len(service) \/ i = Len(service) + 1
    BY <2>3
  <2>5. 1 \in 1 .. Len(service) + 1
    BY <2>3
  <2> QED
    BY <2>1, <2>2, <2>3, <2>4, <2>5
<1>3. CASE Binding!Compile
  BY <1>3 DEF Binding!Compile, Binding!MacroAccepts
<1>4. CASE Binding!Start
  <2>1. stage = "compiled" /\ UNCHANGED service
    BY <1>4 DEF Binding!Start
  <2>2. Binding!ContractAccepts(Binding!Operations) /\ Binding!TableAccepts(Binding!Operations)
    BY <2>1, AcceptedEverywhere
  <2>3. stage' = "started"
    BY <1>4, <2>2, Zenon DEF Binding!Start
  <2>4. Binding!TableAccepts(Binding!Operations)'
    BY <2>1, <2>2, SameOperations
  <2> QED
    BY <2>1, <2>3, <2>4
<1>5. CASE Binding!Call \/ Binding!Route \/ Binding!Dispatch
  <2>1. UNCHANGED service /\ stage \in Served /\ stage' \in Calling
    <3> USE DEF Served, Calling
    <3>1. CASE Binding!Call
      BY <3>1, Zenon DEF Binding!Call
    <3>2. CASE Binding!Route
      BY <3>2, Zenon DEF Binding!Route
    <3>3. CASE Binding!Dispatch
      BY <3>3, Zenon DEF Binding!Dispatch
    <3> QED
      BY <1>5, <3>1, <3>2, <3>3
  <2>2. Binding!TableAccepts(Binding!Operations)'
    BY <2>1, SameOperations
  <2> QED
    BY <2>1, <2>2
<1>6. CASE UNCHANGED <<stage, service>>
  <2>1. Binding!TableAccepts(Binding!Operations) => Binding!TableAccepts(Binding!Operations)'
    BY <1>6, SameOperations
  <2> QED
    BY <1>6, <2>1 DEF Binding!MacroAccepts
<1> QED
  BY <1>1, <1>2, <1>3, <1>4, <1>5, <1>6, Zenon DEF Binding!Next, Binding!vars

\* Invalid mappings fail while the macro expands: whatever it accepts, any number of
\* methods with any templates and parameters, the contract and the route table accept
\* when client or server start (validate.rs, service.rs, routes.rs).
THEOREM WhatCompilesStarts ==
  ASSUME WellFormedTemplates
  PROVE  Binding!Spec => []Binding!CompiledStarts
<1>1. BindingInv /\ [Binding!Next]_(Binding!vars) => BindingInv'
  BY BindingStep
<1>2. BindingInv => Binding!CompiledStarts
  BY DEF BindingInv, Binding!CompiledStarts
<1> QED
  BY BindingInit, <1>1, <1>2, PTL DEF Binding!Spec
\* The table of an accepted service is one that the search is right about.
LEMMA TableIsBuilt ==
  ASSUME WellFormedTemplates, BindingInv, Binding!TableAccepts(Binding!Operations)
  PROVE  IsTable(Binding!RouteTable(Binding!Operations))
<1> DEFINE ops == Binding!Operations
           table == Binding!RouteTable(ops)
           Parsed(i) == Binding!ParseTemplate(service[i].path)
<1>1. /\ DOMAIN ops = DOMAIN service
      /\ \A i \in DOMAIN service : /\ ops[i].method = service[i].method
                                   /\ ops[i].path = service[i].path
                                   /\ "path" \in DOMAIN ops[i] /\ "method" \in DOMAIN ops[i]
  BY DEF Binding!Operations, Binding!Operation
<1> HIDE DEF ops
<1>2. /\ DOMAIN table = DOMAIN service
      /\ \A i \in DOMAIN service : table[i].method = ops[i].method /\ table[i].path = Parsed(i)
  BY <1>1 DEF Binding!RouteTable
<1> HIDE DEF table
<1>3. ASSUME NEW i \in DOMAIN service
      PROVE  /\ IsSequence(Parsed(i))
             /\ \A k \in DOMAIN Parsed(i) : \E name :
                  Parsed(i)[k] = Binding!Literal(name) \/ Parsed(i)[k] = Binding!Placeholder(name)
  <2>1. IsPath(service[i].path)
    BY DEF WellFormedTemplates, BindingInv
  <2>2. IsSequence(Parsed(i))
    BY <2>1 DEF IsPath, IsSequence, Binding!ParseTemplate
  <2>3. ASSUME NEW k \in DOMAIN Parsed(i)
        PROVE  \E name : Parsed(i)[k] = Binding!Literal(name)
                         \/ Parsed(i)[k] = Binding!Placeholder(name)
    <3>1. /\ k \in DOMAIN service[i].path
          /\ Parsed(i)[k] = Binding!Literal(Binding!Unescaped(service[i].path[k].name))
             \/ Parsed(i)[k] = service[i].path[k]
      BY DEF Binding!ParseTemplate
    <3> HIDE DEF Parsed
    <3> QED
      BY <2>1, <3>1, Zenon DEF IsPath
  <2> QED
    BY <2>2, <2>3
<1>4. ASSUME NEW i \in DOMAIN service, NEW j \in DOMAIN service,
             table[i].method = table[j].method,
             Binding!Shape(table[i].path) = Binding!Shape(table[j].path)
      PROVE  i = j
  <2>1. Binding!Leaf(ops[i]) = Binding!Leaf(ops[j])
    BY <1>1, <1>2, <1>4 DEF Binding!Leaf
  <2> QED
    BY <1>1, <2>1, Zenon DEF Binding!TableAccepts, ops
<1> HIDE DEF Parsed
<1>5. IsTable(table)
  BY <1>2, <1>3, <1>4 DEF IsTable, IsSequence
<1> QED
  BY <1>5 DEF table, ops

\* For every method and every path, of any length, with any texts as segments.
EveryPathIsRouted ==
  stage \in Served =>
    \A method : \A path : IsSequence(path) =>
      Binding!Match(Binding!RouteTable(Binding!Operations), method, path)
        = Binding!Best(Binding!RouteTable(Binding!Operations), method, path)

\* For any number of routes and any path: the table of a service that has started
\* finds the route that is best among those that fit, a literal being better than a
\* parameter at the first segment where they differ, and nothing if none fits; going
\* back from a literal that leads nowhere misses no route (routes.rs).
THEOREM EveryPathIsRoutedRight ==
  ASSUME WellFormedTemplates
  PROVE  Binding!Spec => []EveryPathIsRouted
<1>1. BindingInv /\ [Binding!Next]_(Binding!vars) => BindingInv'
  BY BindingStep
<1>2. BindingInv => EveryPathIsRouted
  <2> SUFFICES ASSUME BindingInv, stage \in Served, NEW method, NEW path, IsSequence(path)
               PROVE  Binding!Match(Binding!RouteTable(Binding!Operations), method, path)
                        = Binding!Best(Binding!RouteTable(Binding!Operations), method, path)
    BY Zenon DEF EveryPathIsRouted
  <2>1. IsTable(Binding!RouteTable(Binding!Operations))
    <3>1. Binding!TableAccepts(Binding!Operations)
      BY Zenon DEF BindingInv
    <3> QED
      BY <3>1, TableIsBuilt
  <2> QED
    BY <2>1, BestIsFound, Zenon DEF IsSequence
<1> QED
  BY BindingInit, <1>1, <1>2, PTL DEF Binding!Spec

\* So the paths that are tried with the routes of the instances find the best one.
THEOREM RoutesAreRight ==
  ASSUME WellFormedTemplates
  PROVE  Binding!Spec => []Binding!RoutesRight
<1>1. EveryPathIsRouted => Binding!RoutesRight
  <2> SUFFICES ASSUME EveryPathIsRouted, stage = "started", NEW path \in Binding!SomePaths
               PROVE  Binding!Match(Binding!RouteTable(Binding!Operations), service[1].method, path)
                        = Binding!Best(Binding!RouteTable(Binding!Operations),
                                       service[1].method, path)
    BY Zenon DEF Binding!RoutesRight
  <2>1. IsSequence(path)
    BY DEF Binding!SomePaths, IsSequence
  <2> QED
    BY <2>1, Zenon DEF EveryPathIsRouted, Served
<1> QED
  BY EveryPathIsRoutedRight, <1>1, PTL

-----------------------------------------------------------------------------
(***************************************************************************)
(* Third part: calls.  First the sequences of pairs a request consists of. *)
(***************************************************************************)

\* Joining sequences one after the other: the recursive function exists.
Joins(s, m, f) == f = [i \in 1 .. m |-> IF i = 1 THEN s[i] ELSE f[i - 1] \o s[i]]

LEMMA JoinsGoOn ==
  ASSUME NEW s, NEW m \in Nat, NEW f, Joins(s, m, f)
  PROVE  \E g : Joins(s, m + 1, g)
<1> DEFINE After(h, i) == IF i = 1 THEN s[i] ELSE h[i - 1] \o s[i]
           g == [i \in 1 .. m + 1 |-> IF i \in 1 .. m THEN f[i] ELSE After(f, m + 1)]
<1>1. f = [i \in 1 .. m |-> After(f, i)]
  BY Zenon DEF Joins
<1>2. \A i \in 1 .. m : f[i] = After(f, i)
  <2> HIDE DEF After
  <2> QED
    BY <1>1, Zenon
<1>3. \A i \in 1 .. m : g[i] = f[i]
  <2> HIDE DEF After
  <2> QED
    OBVIOUS
<1>4. g[m + 1] = After(f, m + 1)
  <2>1. m + 1 \in 1 .. m + 1 /\ m + 1 \notin 1 .. m
    OBVIOUS
  <2> HIDE DEF After
  <2> QED
    BY <2>1
<1>5. g = [i \in 1 .. m + 1 |-> g[i]]
  <2> HIDE DEF After
  <2> QED
    OBVIOUS
<1> HIDE DEF g
<1>6. \A i \in 1 .. m + 1 : After(g, i) = After(f, i)
  <2> TAKE i \in 1 .. m + 1
  <2>1. i = 1 \/ i - 1 \in 1 .. m
    OBVIOUS
  <2> QED
    BY <1>3, <2>1, Zenon
<1>7. \A i \in 1 .. m + 1 : g[i] = After(g, i)
  <2> TAKE i \in 1 .. m + 1
  <2>1. i \in 1 .. m \/ i = m + 1
    OBVIOUS
  <2> HIDE DEF After
  <2> QED
    BY <1>2, <1>3, <1>4, <1>6, <2>1
<1>8. g = [i \in 1 .. m + 1 |-> After(g, i)]
  <2> HIDE DEF After
  <2> QED
    BY <1>5, <1>7
<1> QED
  BY <1>8, Zenon DEF Joins

LEMMA JoinsExist ==
  ASSUME NEW s, NEW n \in Nat
  PROVE  \E f : Joins(s, n, f)
<1> DEFINE T == {m \in Nat : ~\E f : Joins(s, m, f)}
<1>1. T = {}
  <2> SUFFICES ASSUME T # {} PROVE FALSE
    OBVIOUS
  <2>1. PICK m \in T : \A i \in T : m <= i
    <3>1. T \subseteq Nat
      OBVIOUS
    <3> HIDE DEF T
    <3> QED
      BY <3>1, LeastNumber
  <2>2. CASE m = 0
    <3>1. Joins(s, 0, <<>>)
      BY DEF Joins
    <3> QED
      BY <2>1, <2>2, <3>1, Zenon
  <2>3. CASE m # 0
    <3>1. m - 1 \in Nat /\ ~(m <= m - 1) /\ (m - 1) + 1 = m
      BY <2>1, <2>3
    <3>2. PICK f : Joins(s, m - 1, f)
      BY <2>1, <3>1, Zenon
    <3>3. \E g : Joins(s, (m - 1) + 1, g)
      BY <3>1, <3>2, JoinsGoOn
    <3> QED
      BY <2>1, <3>1, <3>3, Zenon
  <2> QED
    BY <2>2, <2>3
<1> QED
  BY <1>1

LEMMA FlattenJoins ==
  ASSUME NEW s, Len(s) \in Nat \ {0}
  PROVE  \E f : /\ Binding!FlattenSeq(s) = f[Len(s)]
                /\ f[1] = s[1]
                /\ \A i \in 2 .. Len(s) : f[i] = f[i - 1] \o s[i]
<1> DEFINE n == Len(s)
           f == CHOOSE f : Joins(s, n, f)
<1>1. n \in Nat /\ n # 0 /\ 1 \in 1 .. n
  OBVIOUS
<1>2. Joins(s, n, f)
  <2> HIDE DEF n
  <2> QED
    BY <1>1, JoinsExist, Zenon
<1>3. Binding!FlattenSeq(s) = f[n]
  BY <1>1, Zenon DEF Binding!FlattenSeq, Joins
<1> HIDE DEF n, f
<1>4. \A i \in 1 .. n : f[i] = IF i = 1 THEN s[i] ELSE f[i - 1] \o s[i]
  BY <1>2, Zenon DEF Joins
<1>5. \A i \in 2 .. n : i \in 1 .. n /\ i # 1
  BY <1>1
<1>6. f[1] = s[1] /\ \A i \in 2 .. n : f[i] = f[i - 1] \o s[i]
  BY <1>1, <1>4, <1>5, Zenon
<1> QED
  BY <1>3, <1>6 DEF n

\* Segments that are joined one by one make the path of those segments.
LEMMA SegmentsAreJoined ==
  ASSUME NEW n \in Nat, NEW x, NEW s, s = [k \in 1 .. n |-> <<x[k]>>]
  PROVE  Binding!FlattenSeq(s) = [k \in 1 .. n |-> x[k]]
<1> DEFINE Upto(i) == [k \in 1 .. i |-> x[k]]
           S == {x[k] : k \in 1 .. n}
<1>1. /\ DOMAIN s = 1 .. n /\ s \in Seq(Seq(S)) /\ Len(s) = n
      /\ \A k \in 1 .. n : s[k] = <<x[k]>>
  <2>1. \A k \in 1 .. n : <<x[k]>> \in Seq(S)
    OBVIOUS
  <2> QED
    BY <2>1
<1>2. CASE n = 0
  BY <1>1, <1>2 DEF Binding!FlattenSeq
<1>3. CASE n # 0
  <2>1. ASSUME NEW i \in 2 .. n
        PROVE  Upto(i - 1) \o s[i] = Upto(i)
    <3>1. /\ Upto(i - 1) \in Seq(S) /\ Len(Upto(i - 1)) = i - 1
          /\ s[i] = <<x[i]>> /\ <<x[i]>> \in Seq(S) /\ Len(<<x[i]>>) = 1 /\ <<x[i]>>[1] = x[i]
          /\ Upto(i) \in Seq(S) /\ Len(Upto(i)) = i
          /\ \A k \in 1 .. i - 1 : Upto(i - 1)[k] = x[k]
          /\ \A k \in 1 .. i : Upto(i)[k] = x[k]
      BY <1>1
    <3> HIDE DEF Upto, S
    <3>2. (i - 1) + 1 = i /\ i \in Nat
      OBVIOUS
    <3>3. Upto(i - 1) \o <<x[i]>> \in Seq(S) /\ Len(Upto(i - 1) \o <<x[i]>>) = i
      BY <3>1, <3>2
    <3>4. \A k \in 1 .. i : (Upto(i - 1) \o <<x[i]>>)[k] = x[k]
      <4> TAKE k \in 1 .. i
      <4>1. k \in 1 .. i - 1 \/ k = i
        OBVIOUS
      <4> QED
        BY <3>1, <3>2, <4>1
    <3>5. \A q \in Seq(S) : Len(q) = i => q = [k \in 1 .. i |-> q[k]]
      BY <3>2
    <3>6. [k \in 1 .. i |-> (Upto(i - 1) \o <<x[i]>>)[k]] = [k \in 1 .. i |-> x[k]]
      BY <3>4
    <3>7. Upto(i) = [k \in 1 .. i |-> x[k]]
      BY DEF Upto
    <3> QED
      BY <3>1, <3>3, <3>5, <3>6, <3>7
  <2>2. PICK f : /\ Binding!FlattenSeq(s) = f[n] /\ f[1] = s[1]
                 /\ \A i \in 2 .. n : f[i] = f[i - 1] \o s[i]
    <3>1. Len(s) \in Nat \ {0} /\ Len(s) = n
      BY <1>1, <1>3
    <3>2. PICK f : /\ Binding!FlattenSeq(s) = f[Len(s)] /\ f[1] = s[1]
                   /\ \A i \in 2 .. Len(s) : f[i] = f[i - 1] \o s[i]
      BY <3>1, FlattenJoins
    <3> QED
      BY <3>1, <3>2, Zenon
  <2>3. f[n] = Upto(n)
    <3> DEFINE T == {i \in Nat : i \in 1 .. n /\ f[i] # Upto(i)}
    <3>1. f[1] = Upto(1)
      BY <1>1, <1>3, <2>2
    <3>2. T = {}
      <4> SUFFICES ASSUME T # {} PROVE FALSE
        OBVIOUS
      <4>1. PICK m \in T : \A i \in T : m <= i
        <5>1. T \subseteq Nat
          OBVIOUS
        <5> HIDE DEF T
        <5> QED
          BY <5>1, LeastNumber
      <4>2. m \in 2 .. n /\ m - 1 \in 1 .. n /\ m - 1 \in Nat /\ ~(m <= m - 1) /\ f[m] # Upto(m)
        <5> HIDE DEF Upto
        <5> QED
          BY <3>1, <4>1
      <4>3. f[m - 1] = Upto(m - 1)
        <5>1. m - 1 \notin T
          BY <4>1, <4>2, Zenon
        <5> HIDE DEF Upto
        <5> QED
          BY <4>2, <5>1
      <4> HIDE DEF Upto, T
      <4> QED
        BY <2>1, <2>2, <4>2, <4>3
    <3> HIDE DEF Upto
    <3> QED
      BY <1>3, <3>2
  <2> QED
    BY <2>2, <2>3
<1> QED
  BY <1>2, <1>3

-----------------------------------------------------------------------------
\* Selecting pairs by their names: the recursive function exists, and a sequence is
\* selected from pair by pair.
Kept(s, names, m, f) ==
  f = [k \in 0 .. m |-> IF k = 0 THEN <<>>
                        ELSE IF s[k][1] \in names THEN Append(f[k - 1], s[k])
                        ELSE f[k - 1]]

LEMMA KeptGoesOn ==
  ASSUME NEW s, NEW names, NEW m \in Nat, NEW f, Kept(s, names, m, f)
  PROVE  \E g : Kept(s, names, m + 1, g)
<1> DEFINE Next1(h, k) == IF k = 0 THEN <<>>
                          ELSE IF s[k][1] \in names THEN Append(h[k - 1], s[k])
                          ELSE h[k - 1]
           g == [k \in 0 .. m + 1 |-> IF k \in 0 .. m THEN f[k] ELSE Next1(f, m + 1)]
<1>1. f = [k \in 0 .. m |-> Next1(f, k)]
  BY Zenon DEF Kept
<1>2. \A k \in 0 .. m : f[k] = Next1(f, k)
  <2> HIDE DEF Next1
  <2> QED
    BY <1>1, Zenon
<1>3. \A k \in 0 .. m : g[k] = f[k]
  <2> HIDE DEF Next1
  <2> QED
    OBVIOUS
<1>4. g[m + 1] = Next1(f, m + 1)
  <2>1. m + 1 \in 0 .. m + 1 /\ m + 1 \notin 0 .. m
    OBVIOUS
  <2> HIDE DEF Next1
  <2> QED
    BY <2>1
<1>5. g = [k \in 0 .. m + 1 |-> g[k]]
  <2> HIDE DEF Next1
  <2> QED
    OBVIOUS
<1> HIDE DEF g
<1>6. \A k \in 0 .. m + 1 : Next1(g, k) = Next1(f, k)
  <2> TAKE k \in 0 .. m + 1
  <2>1. k = 0 \/ k - 1 \in 0 .. m
    OBVIOUS
  <2> QED
    BY <1>3, <2>1, Zenon
<1>7. \A k \in 0 .. m + 1 : g[k] = Next1(g, k)
  <2> TAKE k \in 0 .. m + 1
  <2>1. k \in 0 .. m \/ k = m + 1
    OBVIOUS
  <2> HIDE DEF Next1
  <2> QED
    BY <1>2, <1>3, <1>4, <1>6, <2>1
<1>8. g = [k \in 0 .. m + 1 |-> Next1(g, k)]
  <2> HIDE DEF Next1
  <2> QED
    BY <1>5, <1>7
<1> QED
  BY <1>8, Zenon DEF Kept

LEMMA KeptExists ==
  ASSUME NEW s, NEW names, NEW n \in Nat
  PROVE  \E f : Kept(s, names, n, f)
<1> DEFINE T == {m \in Nat : ~\E f : Kept(s, names, m, f)}
<1>1. T = {}
  <2> SUFFICES ASSUME T # {} PROVE FALSE
    OBVIOUS
  <2>1. PICK m \in T : \A i \in T : m <= i
    <3>1. T \subseteq Nat
      OBVIOUS
    <3> HIDE DEF T
    <3> QED
      BY <3>1, LeastNumber
  <2>2. CASE m = 0
    <3>1. Kept(s, names, 0, [k \in 0 .. 0 |-> <<>>])
      BY DEF Kept
    <3> QED
      BY <2>1, <2>2, <3>1, Zenon
  <2>3. CASE m # 0
    <3>1. m - 1 \in Nat /\ ~(m <= m - 1) /\ (m - 1) + 1 = m
      BY <2>1, <2>3
    <3>2. PICK f : Kept(s, names, m - 1, f)
      BY <2>1, <3>1, Zenon
    <3>3. \E g : Kept(s, names, (m - 1) + 1, g)
      BY <3>1, <3>2, KeptGoesOn
    <3> QED
      BY <2>1, <3>1, <3>3, Zenon
  <2> QED
    BY <2>2, <2>3
<1> QED
  BY <1>1

LEMMA NamedIsKept ==
  ASSUME NEW s, Len(s) \in Nat, NEW names
  PROVE  \E f : Kept(s, names, Len(s), f) /\ Binding!Named(s, names) = f[Len(s)]
<1> DEFINE h == CHOOSE f : Kept(s, names, Len(s), f)
<1>1. Kept(s, names, Len(s), h)
  BY KeptExists, Zenon
<1>2. Binding!Named(s, names) = h[Len(s)]
  BY Zenon DEF Binding!Named, Kept
<1> QED
  BY <1>1, <1>2

LEMMA NamedOfNone ==
  ASSUME NEW names
  PROVE  Binding!Named(<<>>, names) = <<>>
<1>1. PICK f : Kept(<<>>, names, Len(<<>>), f) /\ Binding!Named(<<>>, names) = f[Len(<<>>)]
  <2>1. Len(<<>>) \in Nat
    OBVIOUS
  <2> QED
    BY <2>1, NamedIsKept
<1>2. Len(<<>>) = 0
  OBVIOUS
<1>3. f[0] = <<>>
  BY <1>1, <1>2 DEF Kept
<1> QED
  BY <1>1, <1>2, <1>3

LEMMA NamedOfAppend ==
  ASSUME NEW S, NEW s \in Seq(S), NEW e \in S, NEW names
  PROVE  Binding!Named(Append(s, e), names)
           = IF e[1] \in names THEN Append(Binding!Named(s, names), e)
             ELSE Binding!Named(s, names)
<1> DEFINE n == Len(s)
           t == Append(s, e)
<1>1. /\ n \in Nat /\ Len(t) = n + 1 /\ t[n + 1] = e
      /\ \A k \in 1 .. n : t[k] = s[k]
  OBVIOUS
<1> HIDE DEF n, t
<1>2. PICK f : Kept(s, names, n, f) /\ Binding!Named(s, names) = f[n]
  BY <1>1, NamedIsKept DEF n
<1>3. PICK g : Kept(t, names, n + 1, g) /\ Binding!Named(t, names) = g[n + 1]
  <2>1. Len(t) \in Nat
    BY <1>1
  <2> QED
    BY <1>1, <2>1, NamedIsKept
<1>4. \A k \in 0 .. n : f[k] = IF k = 0 THEN <<>>
                               ELSE IF s[k][1] \in names THEN Append(f[k - 1], s[k]) ELSE f[k - 1]
  BY <1>2, Zenon DEF Kept
<1>5. \A k \in 0 .. n + 1 : g[k] = IF k = 0 THEN <<>>
                                   ELSE IF t[k][1] \in names THEN Append(g[k - 1], t[k])
                                   ELSE g[k - 1]
  BY <1>3, Zenon DEF Kept
<1> DEFINE T == {k \in Nat : k \in 0 .. n /\ f[k] # g[k]}
<1>6. T = {}
  <2> SUFFICES ASSUME T # {} PROVE FALSE
    OBVIOUS
  <2>1. PICK m \in T : \A i \in T : m <= i
    <3>1. T \subseteq Nat
      OBVIOUS
    <3> HIDE DEF T
    <3> QED
      BY <3>1, LeastNumber
  <2>2. m \in 0 .. n /\ m \in 0 .. n + 1 /\ f[m] # g[m]
    BY <1>1
  <2>3. CASE m = 0
    BY <1>4, <1>5, <2>2, <2>3
  <2>4. CASE m # 0
    <3>1. m - 1 \in 0 .. n /\ m - 1 \in Nat /\ ~(m <= m - 1) /\ m \in 1 .. n
      BY <1>1, <2>2, <2>4
    <3>2. f[m - 1] = g[m - 1]
      <4>1. m - 1 \notin T
        BY <2>1, <3>1, Zenon
      <4> QED
        BY <3>1, <4>1
    <3>3. t[m] = s[m]
      BY <1>1, <3>1
    <3> HIDE DEF T
    <3> QED
      BY <1>4, <1>5, <2>2, <2>4, <3>2, <3>3
  <2> QED
    BY <2>3, <2>4
<1>7. n + 1 \in 0 .. n + 1 /\ n + 1 # 0 /\ (n + 1) - 1 = n /\ n \in 0 .. n
  BY <1>1
<1>8. g[n + 1] = IF e[1] \in names THEN Append(g[n], e) ELSE g[n]
  BY <1>1, <1>5, <1>7, Zenon
<1>9. f[n] = g[n]
  BY <1>1, <1>6, <1>7
<1> QED
  BY <1>2, <1>3, <1>8, <1>9, Zenon DEF t

\* A sequence that is not empty is a shorter one and a last element.
Extends(S, s, n) == \E r \in Seq(S), e \in S : s = Append(r, e) /\ Len(r) = n - 1

LEMMA LastIsAppended ==
  ASSUME NEW S, NEW s \in Seq(S), NEW n \in Nat \ {0}, Len(s) = n
  PROVE  Extends(S, s, n)
<1> DEFINE r == [k \in 1 .. n - 1 |-> s[k]]
<1>1. s[n] \in S /\ \A k \in 1 .. n - 1 : s[k] \in S
  OBVIOUS
<1>2. r \in Seq(S) /\ Len(r) = n - 1 /\ \A k \in 1 .. n - 1 : r[k] = s[k]
  BY <1>1
<1> HIDE DEF r
<1>3. Append(r, s[n]) \in Seq(S) /\ Len(Append(r, s[n])) = n
  BY <1>1, <1>2
<1>4. \A k \in 1 .. n : Append(r, s[n])[k] = s[k]
  <2> TAKE k \in 1 .. n
  <2>1. k \in 1 .. n - 1 \/ k = n
    OBVIOUS
  <2> QED
    BY <1>1, <1>2, <2>1
<1>5. \A q \in Seq(S) : Len(q) = n => q = [k \in 1 .. n |-> q[k]]
  OBVIOUS
<1>6. [k \in 1 .. n |-> Append(r, s[n])[k]] = [k \in 1 .. n |-> s[k]]
  BY <1>4
<1>7. s = Append(r, s[n])
  BY <1>3, <1>5, <1>6
<1> QED
  BY <1>1, <1>2, <1>7 DEF Extends

AllAmong(s, names) == \A k \in DOMAIN s : s[k][1] \in names
NoneAmong(s, names) == \A k \in DOMAIN s : s[k][1] \notin names

\* What is selected is a sequence of pairs: all of them, none of them, or those of the
\* parts one after the other.
Selects(S, t, names) ==
  /\ Binding!Named(t, names) \in Seq(S)
  /\ AllAmong(t, names) => Binding!Named(t, names) = t
  /\ NoneAmong(t, names) <=> Binding!Named(t, names) = <<>>
  /\ \A s \in Seq(S) :
       Binding!Named(s \o t, names) = Binding!Named(s, names) \o Binding!Named(t, names)
  /\ \A others :
       Binding!Named(Binding!Named(t, names), others) = Binding!Named(t, names \cap others)

LEMMA NamedIsTyped ==
  ASSUME NEW S, NEW t \in Seq(S), NEW names
  PROVE  Binding!Named(t, names) \in Seq(S)
<1> DEFINE Sel(q) == Binding!Named(q, names)
           T == {n \in Nat : ~\A q \in Seq(S) : Len(q) = n => Sel(q) \in Seq(S)}
<1>1. T = {}
  <2> SUFFICES ASSUME T # {} PROVE FALSE
    OBVIOUS
  <2>1. PICK m \in T : \A i \in T : m <= i
    <3>1. T \subseteq Nat
      OBVIOUS
    <3> HIDE DEF T
    <3> QED
      BY <3>1, LeastNumber
  <2>2. PICK q \in Seq(S) : Len(q) = m /\ Sel(q) \notin Seq(S)
    BY <2>1
  <2>3. m \in Nat
    BY <2>1
  <2>4. m # 0
    <3> SUFFICES ASSUME m = 0 PROVE FALSE
      OBVIOUS
    <3>1. q = <<>>
      BY <2>2
    <3> QED
      BY <2>2, <3>1, NamedOfNone
  <2>5. m - 1 \in Nat /\ ~(m <= m - 1) /\ m \in Nat \ {0}
    BY <2>3, <2>4
  <2>6. PICK r \in Seq(S), e \in S : q = Append(r, e) /\ Len(r) = m - 1
    <3>1. Extends(S, q, m)
      BY <2>2, <2>5, LastIsAppended
    <3> QED
      BY <3>1, Zenon DEF Extends
  <2>7. Sel(r) \in Seq(S)
    BY <2>1, <2>5, <2>6, Zenon
  <2>8. Sel(q) = Append(Sel(r), e) \/ Sel(q) = Sel(r)
    BY <2>6, NamedOfAppend
  <2>9. Append(Sel(r), e) \in Seq(S)
    BY <2>7
  <2> QED
    BY <2>2, <2>7, <2>8, <2>9
<1> QED
  BY <1>1

LEMMA SelectsNothing ==
  ASSUME NEW S, NEW names
  PROVE  Selects(S, <<>>, names)
<1> DEFINE Sel(q) == Binding!Named(q, names)
<1>1. Sel(<<>>) = <<>> /\ <<>> \in Seq(S) /\ AllAmong(<<>>, names) /\ NoneAmong(<<>>, names)
  BY NamedOfNone DEF AllAmong, NoneAmong
<1>2. \A s \in Seq(S) : Sel(s) \in Seq(S)
  BY NamedIsTyped
<1>3. \A others : Binding!Named(Sel(<<>>), others) = Binding!Named(<<>>, names \cap others)
  BY <1>1, NamedOfNone
<1> HIDE DEF Sel
<1>4. \A s \in Seq(S) : Sel(s \o <<>>) = Sel(s) \o Sel(<<>>)
  <2> TAKE s \in Seq(S)
  <2>1. s \o <<>> = s
    OBVIOUS
  <2>2. Sel(s) \o <<>> = Sel(s)
    BY <1>2
  <2> QED
    BY <1>1, <2>1, <2>2
<1> QED
  BY <1>1, <1>3, <1>4 DEF Selects, Sel

\* To append to what is joined is to join what is appended to.
IsOutside(s, t, e) == Append(s \o t, e) = s \o Append(t, e)
LEMMA AppendIsOutside ==
  ASSUME NEW S, NEW s \in Seq(S), NEW t \in Seq(S), NEW e \in S
  PROVE  IsOutside(s, t, e)
BY DEF IsOutside

LEMMA SelectsOneMore ==
  ASSUME NEW S, NEW names, NEW r \in Seq(S), NEW e \in S, Selects(S, r, names)
  PROVE  Selects(S, Append(r, e), names)
<1> DEFINE Sel(q) == Binding!Named(q, names)
           q == Append(r, e)
           n == Len(r)
<1>0. \A s \in Seq(S) : Sel(s) \in Seq(S)
  BY NamedIsTyped
<1>1. /\ n \in Nat /\ DOMAIN q = 1 .. n + 1 /\ DOMAIN r = 1 .. n /\ q[n + 1] = e
      /\ q \in Seq(S) /\ \A k \in 1 .. n : q[k] = r[k]
  OBVIOUS
<1>2. Sel(q) = IF e[1] \in names THEN Append(Sel(r), e) ELSE Sel(r)
  BY NamedOfAppend
<1>3. (\A k \in 1 .. n : k \in 1 .. n + 1) /\ n + 1 \in 1 .. n + 1
      /\ \A k \in 1 .. n + 1 : k \in 1 .. n \/ k = n + 1
  BY <1>1
<1>4. AllAmong(q, names) => AllAmong(r, names) /\ e[1] \in names
  <2> HIDE DEF q, n
  <2> QED
    BY <1>1, <1>3 DEF AllAmong
<1>5. NoneAmong(q, names) <=> NoneAmong(r, names) /\ e[1] \notin names
  <2> HIDE DEF q, n
  <2> QED
    BY <1>1, <1>3 DEF NoneAmong
<1>6. AllAmong(q, names) => Sel(q) = q
  BY <1>2, <1>4, Zenon DEF Selects
<1>7. NoneAmong(q, names) <=> Sel(q) = <<>>
  <2>1. Sel(r) \in Seq(S)
    BY <1>0
  <2>2. Append(Sel(r), e) # <<>>
    <3> HIDE DEF Sel
    <3> QED
      BY <2>1
  <2>3. NoneAmong(r, names) <=> Sel(r) = <<>>
    BY Zenon DEF Selects
  <2> HIDE DEF Sel
  <2> QED
    BY <1>2, <1>5, <2>2, <2>3
<1>8. ASSUME NEW s \in Seq(S)
      PROVE  Sel(s \o q) = Sel(s) \o Sel(q)
  <2>1. s \o q = Append(s \o r, e) /\ s \o r \in Seq(S)
    OBVIOUS
  <2>2. Sel(Append(s \o r, e)) = IF e[1] \in names THEN Append(Sel(s \o r), e) ELSE Sel(s \o r)
    <3>1. \A p \in Seq(S) : Sel(Append(p, e)) = IF e[1] \in names THEN Append(Sel(p), e) ELSE Sel(p)
      BY NamedOfAppend
    <3> HIDE DEF Sel
    <3> QED
      BY <2>1, <3>1
  <2>3. Sel(s \o r) = Sel(s) \o Sel(r)
    BY Zenon DEF Selects
  <2>4. Sel(s) \in Seq(S) /\ Sel(r) \in Seq(S)
    BY <1>0
  <2> HIDE DEF Sel, q
  <2>5. Append(Sel(s) \o Sel(r), e) = Sel(s) \o Append(Sel(r), e)
    <3>1. IsOutside(Sel(s), Sel(r), e)
      BY <2>4, AppendIsOutside
    <3> QED
      BY <3>1, Zenon DEF IsOutside
  <2> QED
    BY <1>2, <2>1, <2>2, <2>3, <2>5
<1>9. ASSUME NEW others
      PROVE  Binding!Named(Sel(q), others) = Binding!Named(q, names \cap others)
  <2> DEFINE M(p) == Binding!Named(p, others)
             B(p) == Binding!Named(p, names \cap others)
  <2>1. M(Sel(r)) = B(r)
    BY Zenon DEF Selects
  <2>2. B(q) = IF e[1] \in names \cap others THEN Append(B(r), e) ELSE B(r)
    BY NamedOfAppend
  <2>3. M(Append(Sel(r), e)) = IF e[1] \in others THEN Append(M(Sel(r)), e) ELSE M(Sel(r))
    BY <1>0, NamedOfAppend
  <2> HIDE DEF M, B, Sel, q
  <2>4. M(Sel(q)) = B(q)
    BY <1>2, <2>1, <2>2, <2>3
  <2> QED
    BY <2>4 DEF M, B
<1>10. Sel(q) \in Seq(S)
  BY <1>0, <1>1
<1> QED
  BY <1>6, <1>7, <1>8, <1>9, <1>10, Zenon DEF Selects

LEMMA NamedSelects ==
  ASSUME NEW S, NEW t \in Seq(S), NEW names
  PROVE  Selects(S, t, names)
<1> DEFINE T == {n \in Nat : ~\A q \in Seq(S) : Len(q) = n => Selects(S, q, names)}
<1>1. T = {}
  <2> SUFFICES ASSUME T # {} PROVE FALSE
    OBVIOUS
  <2>1. PICK m \in T : \A i \in T : m <= i
    <3>1. T \subseteq Nat
      OBVIOUS
    <3> HIDE DEF T
    <3> QED
      BY <3>1, LeastNumber
  <2>2. PICK q \in Seq(S) : Len(q) = m /\ ~Selects(S, q, names)
    BY <2>1
  <2>3. m \in Nat
    BY <2>1
  <2>4. m # 0
    <3> SUFFICES ASSUME m = 0 PROVE FALSE
      OBVIOUS
    <3>1. q = <<>>
      BY <2>2
    <3> QED
      BY <2>2, <3>1, SelectsNothing
  <2>5. m - 1 \in Nat /\ ~(m <= m - 1) /\ m \in Nat \ {0}
    BY <2>3, <2>4
  <2>6. PICK r \in Seq(S), e \in S : q = Append(r, e) /\ Len(r) = m - 1
    <3>1. Extends(S, q, m)
      BY <2>2, <2>5, LastIsAppended
    <3> QED
      BY <3>1, Zenon DEF Extends
  <2>7. Selects(S, r, names)
    BY <2>1, <2>5, <2>6, Zenon
  <2>8. Selects(S, Append(r, e), names)
    BY <2>7, SelectsOneMore
  <2> QED
    BY <2>2, <2>6, <2>8
<1> QED
  BY <1>1

\* What is selected from joined parts of which one at most has any of the names is what
\* is selected from that one.
LEMMA NamedOfParts ==
  ASSUME NEW S, NEW s, IsSequence(s), \A k \in DOMAIN s : s[k] \in Seq(S), NEW names,
         NEW i, \A j \in DOMAIN s \ {i} : NoneAmong(s[j], names)
  PROVE  /\ Binding!FlattenSeq(s) \in Seq(S)
         /\ Binding!Named(Binding!FlattenSeq(s), names)
              = IF i \in DOMAIN s THEN Binding!Named(s[i], names) ELSE <<>>
<1> DEFINE Sel(q) == Binding!Named(q, names)
           n == Len(s)
<1>1. n \in Nat /\ DOMAIN s = 1 .. n
  BY DEF IsSequence
<1>2. CASE n = 0
  <2>1. Binding!FlattenSeq(s) = <<>>
    BY <1>2 DEF Binding!FlattenSeq
  <2>2. DOMAIN s = {}
    BY <1>1, <1>2
  <2> QED
    BY <2>1, <2>2, NamedOfNone
<1>3. CASE n # 0
  <2>1. PICK f : /\ Binding!FlattenSeq(s) = f[n]
                 /\ f[1] = s[1]
                 /\ \A k \in 2 .. n : f[k] = f[k - 1] \o s[k]
    BY <1>1, <1>3, FlattenJoins
  <2> DEFINE Good(k) == /\ f[k] \in Seq(S)
                        /\ Sel(f[k]) = IF i \in 1 .. k THEN Sel(s[i]) ELSE <<>>
             T == {k \in Nat : k \in 1 .. n /\ ~Good(k)}
  <2>2. \A k \in 1 .. n : s[k] \in Seq(S) /\ Sel(s[k]) \in Seq(S)
    BY <1>1, NamedIsTyped
  <2>3. \A k \in 1 .. n : k # i => Sel(s[k]) = <<>>
    <3> TAKE k \in 1 .. n
    <3> HAVE k # i
    <3>1. NoneAmong(s[k], names)
      BY <1>1
    <3>2. Selects(S, s[k], names)
      BY <2>2, NamedSelects
    <3> QED
      BY <3>1, <3>2, Zenon DEF Selects
  <2>4. \A a, b \in Seq(S) : Sel(a \o b) = Sel(a) \o Sel(b) /\ a \o b \in Seq(S)
    <3> TAKE a, b \in Seq(S)
    <3>1. Selects(S, b, names)
      BY NamedSelects
    <3> QED
      BY <3>1 DEF Selects
  <2>5. \A a \in Seq(S) : a \o <<>> = a /\ <<>> \o a = a
    OBVIOUS
  <2>6. <<>> \in Seq(S)
    OBVIOUS
  <2> HIDE DEF Sel, n
  <2>7. Good(1)
    <3>1. 1 \in 1 .. n /\ (i \in 1 .. 1 <=> i = 1)
      BY <1>1, <1>3
    <3> QED
      BY <2>1, <2>2, <2>3, <3>1
  <2>8. ASSUME NEW k \in 2 .. n, Good(k - 1)
        PROVE  Good(k)
    <3>1. /\ k \in 1 .. n /\ (i \in 1 .. k <=> i \in 1 .. k - 1 \/ i = k)
          /\ ~(k \in 1 .. k - 1)
      BY <1>1
    <3>2. f[k] = f[k - 1] \o s[k]
      BY <2>1
    <3>3. f[k] \in Seq(S) /\ Sel(f[k]) = Sel(f[k - 1]) \o Sel(s[k])
      BY <2>2, <2>4, <2>8, <3>1, <3>2, Zenon
    <3>4. i \in 1 .. k - 1 => i \in 1 .. n
      BY <1>1
    <3>5. CASE k = i
      BY <2>2, <2>5, <2>8, <3>1, <3>3, <3>5, Zenon
    <3>6. CASE k # i
      BY <2>2, <2>3, <2>5, <2>6, <2>8, <3>1, <3>3, <3>4, <3>6, Zenon
    <3> QED
      BY <3>5, <3>6
  <2>9. T = {}
    <3> SUFFICES ASSUME T # {} PROVE FALSE
      OBVIOUS
    <3>1. PICK m \in T : \A j \in T : m <= j
      <4>1. T \subseteq Nat
        OBVIOUS
      <4> HIDE DEF T
      <4> QED
        BY <4>1, LeastNumber
    <3> HIDE DEF Good
    <3>2. m \in 2 .. n /\ m - 1 \in 1 .. n /\ m - 1 \in Nat /\ ~(m <= m - 1) /\ ~Good(m)
      <4>1. m \in Nat /\ m \in 1 .. n /\ ~Good(m)
        BY <3>1
      <4>2. m # 1
        BY <2>7, <4>1
      <4> HIDE DEF T
      <4> QED
        BY <1>1, <4>1, <4>2
    <3>3. Good(m - 1)
      <4>1. m - 1 \notin T
        BY <3>1, <3>2, Zenon
      <4> QED
        BY <3>2, <4>1
    <3> QED
      BY <2>8, <3>2, <3>3
  <2>10. Good(n)
    <3> HIDE DEF Good
    <3> QED
      BY <1>1, <1>3, <2>9
  <2> QED
    BY <1>1, <2>1, <2>10 DEF Sel
<1> QED
  BY <1>2, <1>3

-----------------------------------------------------------------------------
\* A finite set is listed with each of its elements once.
Lists(q, S) ==
  /\ q \in Seq(S)
  /\ \A x \in S : \E k \in DOMAIN q : q[k] = x
  /\ \A i, j \in DOMAIN q : q[i] = q[j] => i = j

LEMMA SetIsListed ==
  ASSUME NEW S, IsFiniteSet(S)
  PROVE  Lists(Binding!SetToSeq(S), S)
<1> DEFINE n == Cardinality(S)
           q == Binding!SetToSeq(S)
<1>1. n \in Nat /\ ExistsBijection(1 .. n, S)
  BY FS_CardinalityType
<1>2. \E f \in [1 .. n -> S] : Binding!IsInjective(f)
  BY <1>1 DEF ExistsBijection, Bijection, Injection, Surjection, IsInjective,
              Binding!IsInjective
<1>3. q \in [1 .. n -> S] /\ Binding!IsInjective(q)
  <2>1. Binding!Cardinality(S) = n
    BY Zenon DEF Binding!Cardinality, Cardinality
  <2>2. q = CHOOSE f \in [1 .. n -> S] : Binding!IsInjective(f)
    <3> HIDE DEF n
    <3> QED
      BY <2>1, Zenon DEF Binding!SetToSeq
  <2> HIDE DEF n, q
  <2> QED
    BY <1>2, <2>2, Zenon
<1> HIDE DEF q
<1>4. \A i, j \in 1 .. n : q[i] = q[j] => i = j
  BY <1>3, Zenon DEF Binding!IsInjective
<1>5. \A x \in S : \E k \in 1 .. n : q[k] = x
  <2>1. IsFiniteSet(1 .. n) /\ Cardinality(1 .. n) = n
    BY <1>1, FS_Interval
  <2>2. q \in Injection(1 .. n, S)
    BY <1>3, <1>4 DEF Injection, IsInjective
  <2>3. q \in Surjection(1 .. n, S)
    BY <2>1, <2>2, FS_Injection
  <2> QED
    BY <2>3 DEF Surjection
<1>6. q \in Seq(S) /\ DOMAIN q = 1 .. n
  BY <1>1, <1>3
<1> QED
  BY <1>4, <1>5, <1>6 DEF Lists, q

\* What is selected by a name that one element has is that element.
LEMMA OnceNamed ==
  ASSUME NEW S, NEW q \in Seq(S), NEW i \in DOMAIN q, NEW names, q[i][1] \in names,
         \A j \in DOMAIN q \ {i} : q[j][1] \notin names
  PROVE  Binding!Named(q, names) = <<q[i]>>
<1> DEFINE n == Len(q)
           s == [k \in 1 .. n |-> <<q[k]>>]
<1>1. n \in Nat /\ DOMAIN q = 1 .. n /\ q = [k \in 1 .. n |-> q[k]] /\ \A k \in 1 .. n : q[k] \in S
  OBVIOUS
<1>2. /\ IsSequence(s) /\ DOMAIN s = 1 .. n
      /\ \A k \in 1 .. n : s[k] = <<q[k]>>
      /\ \A k \in 1 .. n : s[k] \in Seq(S)
  BY <1>1 DEF IsSequence
<1>3. Binding!FlattenSeq(s) = q
  <2>1. s = [k \in 1 .. n |-> <<q[k]>>]
    OBVIOUS
  <2> HIDE DEF n, s
  <2>2. Binding!FlattenSeq(s) = [k \in 1 .. n |-> q[k]]
    <3>1. n \in Nat
      BY <1>1
    <3> QED
      BY <2>1, <3>1, SegmentsAreJoined
  <2> QED
    BY <1>1, <2>2, Zenon
<1> HIDE DEF n, s
<1>4. \A j \in DOMAIN s \ {i} : NoneAmong(s[j], names)
  <2> TAKE j \in DOMAIN s \ {i}
  <2>1. s[j] = <<q[j]>> /\ q[j][1] \notin names
    BY <1>1, <1>2
  <2>2. DOMAIN <<q[j]>> = {1} /\ <<q[j]>>[1] = q[j]
    OBVIOUS
  <2> QED
    BY <2>1, <2>2, Zenon DEF NoneAmong
<1>5. Binding!Named(q, names) = Binding!Named(s[i], names)
  BY <1>1, <1>2, <1>3, <1>4, NamedOfParts
<1>6. s[i] = <<q[i]>> /\ s[i] \in Seq(S)
  BY <1>1, <1>2
<1>7. AllAmong(<<q[i]>>, names)
  <2>1. DOMAIN <<q[i]>> = {1} /\ <<q[i]>>[1] = q[i]
    OBVIOUS
  <2> QED
    BY <2>1, Zenon DEF AllAmong
<1>8. Selects(S, s[i], names)
  BY <1>6, NamedSelects
<1> QED
  BY <1>5, <1>6, <1>7, <1>8, Zenon DEF Selects

LEMMA NeverNamed ==
  ASSUME NEW S, NEW q \in Seq(S), NEW names, \A j \in DOMAIN q : q[j][1] \notin names
  PROVE  Binding!Named(q, names) = <<>>
BY NamedSelects, Zenon DEF Selects, NoneAmong

-----------------------------------------------------------------------------
\* A call, from the client's encoding to the method it reaches.  No segment of a template
\* is empty, and the texts are some whose encoding HttpBinding knows.
SegmentsAreFull ==
  \A path \in Templates : \A k \in DOMAIN path : path[k].kind = "literal" => path[k].name # ""
EscapedForms == {"%61"} \cup {Binding!Escapes[u] : u \in DOMAIN Binding!Escapes}
TextsAreUnescaped == Texts \cap EscapedForms = {}

CallHypotheses ==
  /\ WellFormedTemplates /\ SegmentsAreFull /\ TextsAreUnescaped
  /\ SecondSources \subseteq Binding!Sources
  /\ MaxQueryPairs \in Nat

\* What is decoded is what was encoded, and an encoded text is empty only if the text is.
LEMMA EncodingRoundTrip ==
  ASSUME NEW t, t \notin EscapedForms
  PROVE  /\ Binding!Unescaped(Binding!Encoded(t)) = t
         /\ t # "" => Binding!Encoded(t) # ""
<1>1. /\ DOMAIN Binding!Escapes = {"x/y", "x;y", "x\ny", "U+E9"}
      /\ Binding!Escapes["x/y"] = "x%2Fy" /\ Binding!Escapes["x;y"] = "x%3By"
      /\ Binding!Escapes["x\ny"] = "x%0Ay" /\ Binding!Escapes["U+E9"] = "%C3%A9"
  BY DEF Binding!Escapes
<1>2. CASE t \in DOMAIN Binding!Escapes
  <2>1. Binding!Encoded(t) = Binding!Escapes[t]
    BY <1>2 DEF Binding!Encoded
  <2>2. Binding!Escapes[t] # "%61" /\ Binding!Escapes[t] # ""
    BY <1>1, <1>2
  <2>3. \A u \in DOMAIN Binding!Escapes : Binding!Escapes[u] = Binding!Escapes[t] => u = t
    BY <1>1, <1>2
  <2>4. Binding!Unescaped(Binding!Escapes[t]) = t
    BY <1>2, <2>2, <2>3, Zenon DEF Binding!Unescaped
  <2> QED
    BY <2>1, <2>2, <2>4
<1>3. CASE t \notin DOMAIN Binding!Escapes
  <2>1. Binding!Encoded(t) = t
    BY <1>3 DEF Binding!Encoded
  <2>2. t # "%61" /\ ~\E u \in DOMAIN Binding!Escapes : Binding!Escapes[u] = t
    BY Zenon DEF EscapedForms
  <2>3. Binding!Unescaped(t) = t
    BY <2>2, Zenon DEF Binding!Unescaped
  <2> QED
    BY <2>1, <2>3
<1> QED
  BY <1>2, <1>3

\* The text a call has for a placeholder, and its path segment by segment.
TextFor(op, values, name) ==
  values[CHOOSE i \in Binding!WithSource(op, "path") : op.params[i].name = name].text
SegmentsOf(op, values) ==
  [k \in DOMAIN op.path |-> IF op.path[k].kind = "literal" THEN Binding!Unescaped(op.path[k].name)
                            ELSE TextFor(op, values, op.path[k].name)]

\* A path without empty segments is split into its segments.
IsFull(path) == \A k \in DOMAIN path : path[k] # ""
LEMMA FullPathIsSplit ==
  ASSUME NEW n \in Nat, NEW x, DOMAIN x = 1 .. n, IsFull(x)
  PROVE  Binding!SplitPath(x) = {[k \in 1 .. n |-> Binding!Unescaped(x[k])]}
<1>1. CASE n = 0
  <2>1. x = <<>> /\ [k \in 1 .. n |-> Binding!Unescaped(x[k])] = <<>>
    BY <1>1
  <2> QED
    BY <2>1 DEF Binding!SplitPath
<1>2. CASE n # 0
  <2>1. 1 \in 1 .. n
    BY <1>2
  <2>2. x # <<"">> /\ x # <<>>
    <3>1. x[1] # "" /\ DOMAIN x # {}
      BY <2>1, Zenon DEF IsFull
    <3>2. <<"">>[1] = "" /\ DOMAIN <<>> = {}
      OBVIOUS
    <3> QED
      BY <3>1, <3>2, Zenon
  <2>3. ~\E i \in DOMAIN x : x[i] = ""
    BY DEF IsFull
  <2> QED
    BY <2>2, <2>3, Zenon DEF Binding!SplitPath
<1> QED
  BY <1>1, <1>2

\* The server splits the path into the segments the client made it of.
LEMMA PathIsSplit ==
  ASSUME NEW op, NEW values, IsPath(op.path),
         \A k \in DOMAIN op.path : op.path[k].kind = "literal" => op.path[k].name # "",
         \A k \in DOMAIN op.path : op.path[k].kind = "parameter" =>
           /\ TextFor(op, values, op.path[k].name) \notin EscapedForms
           /\ TextFor(op, values, op.path[k].name) # ""
  PROVE  Binding!SplitPath(Binding!Path(op, values)) = {SegmentsOf(op, values)}
<1> DEFINE path == op.path
           n == Len(path)
           Wire(k) == IF path[k].kind = "literal" THEN path[k].name
                      ELSE Binding!Encoded(TextFor(op, values, path[k].name))
           x == [k \in 1 .. n |-> Wire(k)]
           P == Binding!Path(op, values)
<1>1. n \in Nat /\ DOMAIN path = 1 .. n
  BY DEF IsPath, IsSequence
<1>2. P = x
  <2> DEFINE s == [k \in DOMAIN op.path |->
                    IF op.path[k].kind = "literal" THEN <<op.path[k].name>>
                    ELSE <<Binding!Encoded(TextFor(op, values, op.path[k].name))>>]
  <2>1. P = Binding!FlattenSeq(s)
    BY Zenon DEF Binding!Path, TextFor
  <2>2. s = [k \in 1 .. n |-> <<x[k]>>]
    <3>1. \A k \in 1 .. n : x[k] = Wire(k)
      OBVIOUS
    <3>2. s = [k \in 1 .. n |-> <<Wire(k)>>]
      <4>1. \A k \in DOMAIN op.path : s[k] = <<Wire(k)>>
        OBVIOUS
      <4>2. s = [k \in DOMAIN op.path |-> s[k]]
        OBVIOUS
      <4> HIDE DEF s, Wire
      <4> QED
        BY <1>1, <4>1, <4>2
    <3> HIDE DEF x, Wire, s
    <3> QED
      BY <3>1, <3>2
  <2> HIDE DEF s, x
  <2>3. P = [k \in 1 .. n |-> x[k]]
    BY <1>1, <2>1, <2>2, SegmentsAreJoined
  <2>4. x = [k \in 1 .. n |-> x[k]]
    BY DEF x
  <2> QED
    BY <2>3, <2>4
<1>3. ASSUME NEW k \in 1 .. n
      PROVE  /\ x[k] # ""
             /\ path[k].kind # "literal" =>
                  Binding!Unescaped(x[k]) = TextFor(op, values, path[k].name)
  <2>1. PICK name : path[k] = Binding!Literal(name) \/ path[k] = Binding!Placeholder(name)
    BY <1>1, Zenon DEF IsPath
  <2>2. path[k].kind = "literal" \/ path[k].kind = "parameter"
    <3>1. /\ Binding!Literal(name).kind = "literal"
          /\ Binding!Placeholder(name).kind = "parameter"
      BY DEF Binding!Literal, Binding!Placeholder
    <3> HIDE DEF path
    <3> QED
      BY <2>1, <3>1
  <2>3. x[k] = Wire(k)
    OBVIOUS
  <2>4. path[k].kind = "literal" => path[k].name # ""
    BY <1>1
  <2>5. path[k].kind = "parameter" =>
          /\ TextFor(op, values, path[k].name) \notin EscapedForms
          /\ TextFor(op, values, path[k].name) # ""
    BY <1>1
  <2> HIDE DEF path, x
  <2> QED
    BY <2>2, <2>3, <2>4, <2>5, EncodingRoundTrip
<1>4. [k \in 1 .. n |-> Binding!Unescaped(x[k])] = SegmentsOf(op, values)
  <2>1. \A k \in 1 .. n : path[k].kind = "literal" => x[k] = path[k].name
    OBVIOUS
  <2>2. \A k \in 1 .. n :
          Binding!Unescaped(x[k]) = IF path[k].kind = "literal" THEN Binding!Unescaped(path[k].name)
                                    ELSE TextFor(op, values, path[k].name)
    <3> HIDE DEF path, x
    <3> QED
      BY <1>3, <2>1
  <2> HIDE DEF x
  <2> QED
    BY <1>1, <2>2 DEF SegmentsOf
<1>5. DOMAIN x = 1 .. n
  OBVIOUS
<1> HIDE DEF x
<1>6. Binding!SplitPath(x) = {[k \in 1 .. n |-> Binding!Unescaped(x[k])]}
  <2>1. IsFull(x)
    BY <1>3, <1>5 DEF IsFull
  <2> QED
    BY <1>1, <1>5, <2>1, FullPathIsSplit
<1> QED
  BY <1>2, <1>4, <1>6

\* A path made for a route is routed to it, unless a text is a literal of another route:
\* where another route fits too, it has a parameter wherever the first has one, and
\* so one where the first has a literal.
LEMMA OwnRouteIsBest ==
  ASSUME NEW table, IsTable(table), NEW own \in DOMAIN table, NEW segments,
         IsSequence(segments), Len(segments) = Len(table[own].path),
         \A k \in DOMAIN segments : \/ table[own].path[k] = Binding!Literal(segments[k])
                                    \/ /\ table[own].path[k].kind = "parameter"
                                       /\ \A r \in DOMAIN table \ {own} : k \in DOMAIN table[r].path
                                            => table[r].path[k] # Binding!Literal(segments[k])
  PROVE  Binding!Match(table, table[own].method, segments) = {own}
<1> DEFINE method == table[own].method
           F == Binding!Fitting(table, method, segments)
           path == table[own].path
<1>1. DOMAIN segments = 1 .. Len(segments) /\ Len(segments) \in Nat
      /\ DOMAIN path = DOMAIN segments
  BY DEF IsSequence, IsTable
<1>2. own \in F
  BY DEF Binding!Fitting
<1>3. ASSUME NEW r \in F, r # own
      PROVE  Binding!Better(table, own, r) /\ ~Binding!Better(table, r, own)
  <2> DEFINE other == table[r].path
  <2>1. /\ r \in DOMAIN table /\ table[r].method = method /\ DOMAIN other = DOMAIN segments
        /\ \A k \in DOMAIN segments :
             other[k] = Binding!Literal(segments[k]) \/ other[k].kind = "parameter"
    BY <1>1 DEF Binding!Fitting, IsTable, IsSequence
  <2>2. \A name : /\ Binding!Literal(name).kind = "literal"
                  /\ Binding!Placeholder(name).kind = "parameter"
    BY DEF Binding!Literal, Binding!Placeholder
  <2>3. \A k \in DOMAIN segments : path[k].kind = "parameter" => other[k].kind = "parameter"
    BY <1>3, <2>1, <2>2
  <2>4. \A k \in DOMAIN segments :
          path[k].kind = "parameter" \/ path[k] = Binding!Literal(segments[k])
    OBVIOUS
  <2>5. PICK d \in DOMAIN segments : path[d].kind # other[d].kind
    <3> SUFFICES ASSUME \A k \in DOMAIN segments : path[k].kind = other[k].kind
                 PROVE  FALSE
      OBVIOUS
    <3>1. \A k \in DOMAIN segments :
            path[k].kind = "parameter" \/ path[k] = other[k]
      <4> HIDE DEF path, other
      <4> QED
        BY <2>1, <2>2, <2>4
    <3>2. Binding!Shape(path) = Binding!Shape(other)
      <4> HIDE DEF path, other
      <4> QED
        BY <1>1, <2>1, <3>1 DEF Binding!Shape
    <3> QED
      BY <1>3, <2>1, <3>2 DEF IsTable
  <2>6. PICK k \in DOMAIN segments :
          path[k].kind # other[k].kind
          /\ \A j \in 1 .. k - 1 : path[j].kind = other[j].kind
    <3> DEFINE D == {k \in DOMAIN segments : path[k].kind # other[k].kind}
    <3>1. D # {} /\ D \subseteq Nat
      BY <1>1, <2>5
    <3>2. PICK k \in D : \A j \in D : k <= j
      <4> HIDE DEF D
      <4> QED
        BY <3>1, LeastNumber
    <3>3. \A j \in 1 .. k - 1 : j \in DOMAIN segments /\ ~(k <= j)
      BY <1>1, <3>2
    <3> QED
      BY <3>2, <3>3
  <2> HIDE DEF other
  <2>7. path[k].kind = "literal" /\ other[k].kind = "parameter"
    <3> HIDE DEF path
    <3> QED
      BY <2>1, <2>2, <2>3, <2>4, <2>6
  <2>8. Binding!Better(table, own, r)
    BY <1>1, <2>6, <2>7 DEF Binding!Better, other
  <2>9. ~Binding!Better(table, r, own)
    <3> SUFFICES ASSUME NEW i \in DOMAIN other,
                        other[i].kind = "literal", path[i].kind = "parameter"
                 PROVE  FALSE
      BY Zenon DEF Binding!Better, other
    <3> QED
      BY <2>1, <2>3
  <2> QED
    BY <2>8, <2>9
<1>4. Binding!Best(table, method, segments)
        = {r \in F : \A s \in F \ {r} : Binding!Better(table, r, s)}
  BY Zenon DEF Binding!Best, F
<1> HIDE DEF F
<1>5. {r \in F : \A s \in F \ {r} : Binding!Better(table, r, s)} = {own}
  BY <1>2, <1>3
<1>6. Binding!Match(table, method, segments) = Binding!Best(table, method, segments)
  BY <1>1, BestIsFound
<1> QED
  BY <1>4, <1>5, <1>6

-----------------------------------------------------------------------------
\* The parameters that can be declared.
Declarable ==
  Binding!Parameters({"p", "host", "q", "P"}, Binding!Sources \cup SecondSources, Binding!Kinds)

\* The first method has at most two of them; what was compiled the macro accepted.
Declared ==
  /\ \E T : service \in Seq(T)
  /\ 1 \in DOMAIN service
  /\ {"method", "path", "params"} \subseteq DOMAIN service[1]
  /\ service[1].params \in Seq(Declarable) /\ Len(service[1].params) <= 2
  /\ stage \in {"compiled"} \cup Served => Binding!MacroAccepts(service)

LEMMA DeclaredInit == Binding!Init => Declared
<1> SUFFICES ASSUME Binding!Init PROVE Declared
  OBVIOUS
<1>1. PICK method, path, params :
        /\ service = <<Binding!First(method, path, params)>>
        /\ params = <<>> \/ \E p \in Declarable : params = <<p>>
  <2>1. PICK method \in Methods, path \in Templates :
          \/ service = <<Binding!First(method, path, <<>>)>>
          \/ \E p \in Binding!Parameters({"p", "host"}, Binding!Sources, Binding!Kinds) :
               service = <<Binding!First(method, path, <<p>>)>>
    BY Zenon DEF Binding!Init
  <2>2. Binding!Parameters({"p", "host"}, Binding!Sources, Binding!Kinds) \subseteq Declarable
    BY DEF Declarable, Binding!Parameters
  <2> QED
    BY <2>1, <2>2, Zenon
<1>2. params \in Seq(Declarable) /\ Len(params) <= 2
  <2>1. CASE params = <<>>
    BY <2>1
  <2>2. CASE \E p \in Declarable : params = <<p>>
    <3>1. PICK p \in Declarable : params = <<p>>
      BY <2>2
    <3> QED
      BY <3>1
  <2> QED
    BY <1>1, <2>1, <2>2
<1>3. /\ service \in Seq({Binding!First(method, path, params)})
      /\ 1 \in DOMAIN service /\ service[1] = Binding!First(method, path, params)
  BY <1>1
<1>4. /\ {"method", "path", "params"} \subseteq DOMAIN service[1]
      /\ service[1].params = params
  BY <1>3 DEF Binding!First
<1>5. stage = "declaring"
  BY DEF Binding!Init
<1> QED
  BY <1>2, <1>3, <1>4, <1>5, Zenon DEF Declared, Served, Calling

LEMMA DeclaredStep == Declared /\ [Binding!Next]_(Binding!vars) => Declared'
<1> SUFFICES ASSUME Declared, [Binding!Next]_(Binding!vars) PROVE Declared'
  OBVIOUS
<1>0. PICK T : service \in Seq(T)
  BY DEF Declared
<1>1. CASE Binding!DeclareParameter
  <2>1. PICK p \in Binding!Parameters({"p", "q", "P"}, SecondSources, {"text", "list", "map"}) :
          service' = [service EXCEPT ![1].params = Append(@, p)]
    BY <1>1, Zenon DEF Binding!DeclareParameter
  <2>2. p \in Declarable
    BY DEF Declarable, Binding!Parameters, Binding!Kinds
  <2>3. stage' = "declaring" /\ Len(service[1].params) = 1
    BY <1>1 DEF Binding!DeclareParameter
  <2>4. /\ DOMAIN service' = DOMAIN service /\ DOMAIN service'[1] = DOMAIN service[1]
        /\ service'[1].params = Append(service[1].params, p)
    BY <2>1 DEF Declared
  <2>5. service'[1].params \in Seq(Declarable) /\ Len(service'[1].params) <= 2
    BY <2>2, <2>3, <2>4 DEF Declared
  <2>6. service' \in Seq(T \cup {service'[1]})
    <3>1. \E q : service' = [service EXCEPT ![1].params = Append(@, q)]
      BY <2>1, Zenon
    <3>2. PICK q : service' = [service EXCEPT ![1].params = Append(@, q)]
      BY <3>1
    <3>3. DOMAIN service = 1 .. Len(service) /\ Len(service) \in Nat
          /\ \A i \in 1 .. Len(service) : service[i] \in T
      BY <1>0
    <3>4. DOMAIN service' = 1 .. Len(service)
          /\ \A i \in 1 .. Len(service) : service'[i] \in T \cup {service'[1]}
      BY <3>2, <3>3
    <3>5. service' = [i \in 1 .. Len(service) |-> service'[i]]
      BY <3>2, <3>3
    <3> QED
      BY <3>3, <3>4, <3>5
  <2> QED
    BY <2>3, <2>4, <2>5, <2>6 DEF Declared, Served, Calling
<1>2. CASE Binding!DeclareMethod
  <2>1. PICK d : service' = Append(service, d)
    BY <1>2, Zenon DEF Binding!DeclareMethod
  <2>2. stage' = "declaring"
    BY <1>2 DEF Binding!DeclareMethod
  <2>3. service' \in Seq(T \cup {d}) /\ service'[1] = service[1] /\ 1 \in DOMAIN service'
    BY <1>0, <2>1 DEF Declared
  <2> QED
    BY <2>2, <2>3 DEF Declared, Served, Calling
<1>3. CASE Binding!Compile
  BY <1>3 DEF Binding!Compile, Binding!MacroAccepts, Declared, Served, Calling
<1>4. CASE Binding!Start \/ Binding!Call \/ Binding!Route \/ Binding!Dispatch
  <2>1. UNCHANGED service /\ stage \in {"compiled"} \cup Served
    <3>1. CASE Binding!Start
      BY <3>1 DEF Binding!Start
    <3>2. CASE Binding!Call
      BY <3>2, Zenon DEF Binding!Call, Served
    <3>3. CASE Binding!Route
      BY <3>3, Zenon DEF Binding!Route, Served, Calling
    <3>4. CASE Binding!Dispatch
      BY <3>4, Zenon DEF Binding!Dispatch, Served, Calling
    <3> QED
      BY <1>4, <3>1, <3>2, <3>3, <3>4
  <2>2. Binding!MacroAccepts(service)' = Binding!MacroAccepts(service)
    BY <2>1 DEF Binding!MacroAccepts
  <2> QED
    BY <2>1, <2>2, Zenon DEF Declared
<1>5. CASE UNCHANGED Binding!vars
  <2>1. UNCHANGED <<stage, service>>
    BY <1>5 DEF Binding!vars
  <2>2. Binding!MacroAccepts(service)' = Binding!MacroAccepts(service)
    BY <2>1 DEF Binding!MacroAccepts
  <2> QED
    BY <2>1, <2>2, Zenon DEF Declared
<1> QED
  BY <1>1, <1>2, <1>3, <1>4, <1>5, Zenon DEF Binding!Next

\* The operation that is called.
Own == Binding!Operations[1]

LEMMA OwnIsValid ==
  ASSUME Declared, stage \in Served
  PROVE  /\ Own = Binding!Operation(service[1])
         /\ Own.path = service[1].path
         /\ DOMAIN Own.params = DOMAIN service[1].params
         /\ Own.params \in Seq({Own.params[i] : i \in DOMAIN Own.params})
         /\ Len(Own.params) <= 2
         /\ \A i \in DOMAIN Own.params :
              /\ Own.params[i].name = service[1].params[i].name
              /\ Own.params[i].kind = service[1].params[i].kind
              /\ Own.params[i].kind \in Binding!Kinds
              /\ Own.params[i].source = Binding!Source(service[1], service[1].params[i])
              /\ Own.params[i].source = "path" => Own.params[i].kind \notin {"optional", "list"}
              /\ Own.params[i].textEncoded
                   <=> Own.params[i].source \in {"path", "query", "header", "cookie"}
         /\ Binding!OperationIsValid(Own)
<1> DEFINE d == service[1]
           n == Len(d.params)
<1>1. Own = Binding!Operation(d)
  BY DEF Declared, Own, Binding!Operations
<1>2. /\ n \in Nat /\ n <= 2 /\ DOMAIN d.params = 1 .. n
      /\ \A i \in 1 .. n : d.params[i] \in Declarable
  BY DEF Declared
<1>3. /\ Own.path = d.path /\ DOMAIN Own.params = DOMAIN d.params
      /\ \A i \in DOMAIN d.params :
           /\ Own.params[i].name = d.params[i].name
           /\ Own.params[i].kind = d.params[i].kind
           /\ Own.params[i].source = Binding!Source(d, d.params[i])
           /\ Own.params[i].textEncoded =
                (Binding!Source(d, d.params[i]) \in {"path", "query", "header", "cookie"})
  BY <1>1 DEF Binding!Operation
<1>4. Own.params = [i \in 1 .. n |-> Own.params[i]]
  BY <1>1, <1>2 DEF Binding!Operation
<1>5. Own.params \in Seq({Own.params[i] : i \in DOMAIN Own.params}) /\ Len(Own.params) = n
  <2> DEFINE f == Own.params
  <2>1. n \in Nat /\ f = [i \in 1 .. n |-> f[i]]
    BY <1>2, <1>4
  <2> HIDE DEF f, n
  <2>2. f \in Seq({f[i] : i \in DOMAIN f}) /\ Len(f) = n
    BY <2>1
  <2> QED
    BY <2>2 DEF f
<1>6. \A i \in 1 .. n : d.params[i].kind \in Binding!Kinds
  BY <1>2 DEF Declarable, Binding!Parameters
<1>7. Binding!MacroRouteIsValid(d.path) /\ Binding!ParametersAreValid(d)
  BY Zenon DEF Declared, Binding!MacroAccepts
<1>8. \A i \in DOMAIN d.params :
        Binding!Source(d, d.params[i]) = "path" => d.params[i].kind \notin {"optional", "list"}
  BY <1>7, Zenon DEF Binding!ParametersAreValid, Binding!ParameterIsValid
<1>9. Binding!OperationIsValid(Own)
  BY <1>1, <1>7, OperationsAreValid
<1> HIDE DEF n, d
<1>10. \A i \in DOMAIN Own.params :
              /\ Own.params[i].name = d.params[i].name
              /\ Own.params[i].kind = d.params[i].kind
              /\ Own.params[i].kind \in Binding!Kinds
              /\ Own.params[i].source = Binding!Source(d, d.params[i])
              /\ Own.params[i].source = "path" => Own.params[i].kind \notin {"optional", "list"}
              /\ Own.params[i].textEncoded
                   <=> Own.params[i].source \in {"path", "query", "header", "cookie"}
  BY <1>2, <1>3, <1>6, <1>8
<1> QED
  BY <1>1, <1>2, <1>3, <1>5, <1>9, <1>10 DEF d

\* Where a request is on its way or has been.
UnderWay == {"sent", "routed", "rejected", "delivered"}

\* The headers an application may give.
SomeHeaders == {{}, {"p"}, {"x"}, {"accept"}, {"cookie"}}

\* What was sent is the call.
SentAsCalled ==
  /\ DOMAIN args = DOMAIN Own.params
  /\ \A i \in DOMAIN Own.params : /\ args[i] \in Binding!ValuesOf(Own.params[i].kind)
                                  /\ Binding!Encodable(Own, i, args, headers)
  /\ headers \in SomeHeaders
  /\ Binding!HeadersAreFree(Own, headers)
  /\ request.http = Binding!Encode(Own, args, headers)
  /\ \A c \in request.controls : /\ c.group = "g"
                                 /\ c.attempt > 1 => Binding!AllowsRetries(Own)

\* The routes the server finds, the one it takes, the segments it takes the texts from,
\* and the values of the parameters.
RoutesFound ==
  UNION {Binding!Match(Binding!RouteTable(Binding!Operations), request.http.method, segments) :
           segments \in Binding!SplitPath(request.http.path)}
RouteTaken == CHOOSE r \in RoutesFound : TRUE
SegmentsFound == CHOOSE s \in Binding!SplitPath(request.http.path) : TRUE
ValuesFound == Binding!Decoded(Binding!Operations[found], request.http, SegmentsFound)

Accepted ==
  /\ found \in RoutesFound
  /\ \A c \in request.controls : served.controls /\ c.group = served.group

\* Why a request was rejected.
Refused ==
  \/ RoutesFound = {}
  \/ ~Binding!ControlsAreValid(Binding!Operations[RouteTaken])
  \/ ~(Len(request.http.query) <= MaxQueryPairs)
  \/ Accepted /\ \E i \in DOMAIN ValuesFound : ValuesFound[i] = {}

CallInv ==
  /\ served = [group |-> served.group, controls |-> served.controls]
  /\ served.controls \in BOOLEAN
  /\ stage \in UnderWay => SentAsCalled
  /\ stage \in {"routed", "delivered"} => Accepted
  /\ stage = "rejected" => Refused
  /\ stage = "delivered" => got = [i \in DOMAIN ValuesFound |-> CHOOSE v \in ValuesFound[i] : TRUE]

\* Nobody changes what was sent, nor what was found.
LEMMA SentStays ==
  ASSUME UNCHANGED <<service, args, headers, request>>
  PROVE  /\ SentAsCalled => SentAsCalled'
         /\ Own' = Own /\ RoutesFound' = RoutesFound /\ SegmentsFound' = SegmentsFound
         /\ RouteTaken' = RouteTaken /\ Binding!Operations' = Binding!Operations
<1>1. Binding!Operations' = Binding!Operations
  BY DEF Binding!Operations
<1>2. Own' = Own
  BY <1>1 DEF Own
<1>3. RoutesFound' = RoutesFound
  BY <1>1 DEF RoutesFound
<1>4. SegmentsFound' = SegmentsFound
  BY DEF SegmentsFound
<1>5. SentAsCalled => SentAsCalled'
  BY <1>2, Zenon DEF SentAsCalled
<1>6. RouteTaken' = RouteTaken
  BY <1>3, Zenon DEF RouteTaken
<1> QED
  BY <1>1, <1>2, <1>3, <1>4, <1>5, <1>6

\* Nor why it was rejected, nor what was delivered.
LEMMA VerdictStays ==
  ASSUME UNCHANGED <<service, args, headers, request, served, found>>
  PROVE  /\ Accepted' <=> Accepted
         /\ ValuesFound' = ValuesFound
         /\ Refused => Refused'
<1>1. /\ RoutesFound' = RoutesFound /\ SegmentsFound' = SegmentsFound
      /\ RouteTaken' = RouteTaken /\ Binding!Operations' = Binding!Operations
  BY SentStays
<1>2. Accepted' <=> Accepted
  BY <1>1, Zenon DEF Accepted
<1>3. ValuesFound' = ValuesFound
  BY <1>1, Zenon DEF ValuesFound
<1>4. Binding!ControlsAreValid(Binding!Operations[RouteTaken])'
        <=> Binding!ControlsAreValid(Binding!Operations[RouteTaken])
  BY <1>1, Zenon DEF Binding!ControlsAreValid
<1>5. Refused => Refused'
  BY <1>1, <1>2, <1>3, <1>4, Zenon DEF Refused
<1> QED
  BY <1>2, <1>3, <1>5

LEMMA ArgumentsFit ==
  ASSUME NEW op, NEW S, op.params \in Seq(S), Len(op.params) <= 2,
         NEW values \in Binding!Arguments(op)
  PROVE  /\ DOMAIN values = DOMAIN op.params
         /\ \A i \in DOMAIN op.params : values[i] \in Binding!ValuesOf(op.params[i].kind)
<1> DEFINE n == Len(op.params)
<1>1. n \in Nat /\ DOMAIN op.params = 1 .. n
  OBVIOUS
<1>2. n \in {0, 1, 2}
  <2>1. n \in Nat /\ n <= 2
    BY <1>1
  <2> HIDE DEF n
  <2> QED
    BY <2>1
<1>3. CASE n = 0
  <2>1. values = <<>>
    BY <1>3 DEF Binding!Arguments
  <2> QED
    BY <1>1, <1>3, <2>1
<1>4. CASE n = 1
  <2>1. PICK v \in Binding!ValuesOf(op.params[1].kind) : values = <<v>>
    BY <1>4 DEF Binding!Arguments
  <2>2. DOMAIN op.params = {1}
    BY <1>1, <1>4
  <2> QED
    BY <2>1, <2>2
<1>5. CASE n = 2
  <2>1. PICK v \in Binding!ValuesOf(op.params[1].kind), w \in Binding!ValuesOf(op.params[2].kind) :
          values = <<v, w>>
    BY <1>5 DEF Binding!Arguments
  <2>2. DOMAIN op.params = {1, 2}
    BY <1>1, <1>5
  <2> QED
    BY <2>1, <2>2
<1> QED
  BY <1>2, <1>3, <1>4, <1>5

LEMMA CallStep ==
  Declared /\ CallInv /\ [Binding!Next]_(Binding!vars) => CallInv'
<1> SUFFICES ASSUME Declared, CallInv, [Binding!Next]_(Binding!vars) PROVE CallInv'
  OBVIOUS
<1>1. CASE Binding!DeclareParameter \/ Binding!DeclareMethod \/ Binding!Compile \/ Binding!Start
  <2>1. stage' \notin UnderWay
    BY <1>1 DEF Binding!DeclareParameter, Binding!DeclareMethod, Binding!Compile, Binding!Start,
                UnderWay
  <2>2. /\ served' = [group |-> served'.group, controls |-> served'.controls]
        /\ served'.controls \in BOOLEAN
    <3>1. CASE Binding!Start
      <4>1. PICK group \in {"g", "h"}, controls \in BOOLEAN :
              served' = [group |-> group, controls |-> controls]
        BY <3>1, Zenon DEF Binding!Start
      <4> QED
        BY <4>1
    <3>2. CASE ~Binding!Start
      <4>1. UNCHANGED served
        BY <1>1, <3>2 DEF Binding!DeclareParameter, Binding!DeclareMethod, Binding!Compile
      <4> QED
        BY <4>1 DEF CallInv
    <3> QED
      BY <3>1, <3>2
  <2> QED
    BY <2>1, <2>2 DEF CallInv, UnderWay
<1>2. CASE Binding!Call
  <2>1. UNCHANGED <<service, served>> /\ stage = "started"
    BY <1>2, Zenon DEF Binding!Call
  <2>2. PICK values \in Binding!Arguments(Own), given \in Binding!HeaderChoices,
             attempt \in Binding!Attempts,
             controls \in IF Binding!NoParameters THEN BOOLEAN ELSE {TRUE} :
          /\ args' = values /\ headers' = given
          /\ IF /\ Binding!HeadersAreFree(Own, given)
                /\ \A i \in DOMAIN Own.params : Binding!Encodable(Own, i, values, given)
               THEN /\ stage' = "sent"
                    /\ request' = [http |-> Binding!Encode(Own, values, given),
                                   controls |-> IF controls THEN Binding!Controls(attempt, "g")
                                                ELSE {}]
               ELSE stage' = "rejected_locally"
    BY <1>2, Zenon DEF Binding!Call, Own
  <2>3. CASE stage' = "rejected_locally"
    BY <2>1, <2>3 DEF CallInv, UnderWay
  <2>4. CASE stage' # "rejected_locally"
    <3>1. /\ stage' = "sent"
          /\ Binding!HeadersAreFree(Own, given)
          /\ \A i \in DOMAIN Own.params : Binding!Encodable(Own, i, values, given)
          /\ request' = [http |-> Binding!Encode(Own, values, given),
                         controls |-> IF controls THEN Binding!Controls(attempt, "g") ELSE {}]
      BY <2>2, <2>4, Zenon
    <3>2. request'.http = Binding!Encode(Own, values, given)
          /\ request'.controls = IF controls THEN Binding!Controls(attempt, "g") ELSE {}
      BY <3>1
    <3>3. attempt > 1 => Binding!AllowsRetries(Own)
      BY DEF Binding!Attempts, Own
    <3>4. \A c \in request'.controls :
            c.group = "g" /\ (c.attempt > 1 => Binding!AllowsRetries(Own))
      <4>1. request'.controls \subseteq {[attempt |-> attempt, group |-> "g"]}
        BY <3>2 DEF Binding!Controls
      <4> QED
        BY <3>3, <4>1
    <3>5. given \in SomeHeaders
      BY DEF Binding!HeaderChoices, SomeHeaders
    <3>6. /\ DOMAIN values = DOMAIN Own.params
          /\ \A i \in DOMAIN Own.params : values[i] \in Binding!ValuesOf(Own.params[i].kind)
      <4>1. stage \in Served
        BY <2>1 DEF Served
      <4>2. /\ Own.params \in Seq({Own.params[i] : i \in DOMAIN Own.params})
            /\ Len(Own.params) <= 2
        BY <4>1, OwnIsValid
      <4> QED
        BY <4>2, ArgumentsFit
    <3>7. Own' = Own
      BY <2>1 DEF Own, Binding!Operations
    <3>8. SentAsCalled'
      BY <2>2, <3>1, <3>2, <3>4, <3>5, <3>6, <3>7, Zenon DEF SentAsCalled
    <3> QED
      BY <2>1, <3>1, <3>8 DEF CallInv
  <2> QED
    BY <2>3, <2>4
<1>3. CASE Binding!Route
  <2>1. UNCHANGED <<service, args, headers, request, served>> /\ stage = "sent"
    BY <1>3, Zenon DEF Binding!Route
  <2>2. /\ SentAsCalled' /\ RoutesFound' = RoutesFound
        /\ RouteTaken' = RouteTaken /\ Binding!Operations' = Binding!Operations
    BY <2>1, SentStays DEF CallInv, UnderWay
  <2>3. \/ /\ stage' = "routed" /\ found' = RouteTaken
           /\ RoutesFound # {} /\ Binding!ControlsAreValid(Binding!Operations[RouteTaken])
        \/ /\ stage' = "rejected"
           /\ \/ RoutesFound = {}
              \/ ~Binding!ControlsAreValid(Binding!Operations[RouteTaken])
              \/ ~(Len(request.http.query) <= MaxQueryPairs)
    BY <1>3, Zenon DEF Binding!Route, RoutesFound, RouteTaken
  <2>4. CASE stage' = "routed"
    <3>1. /\ found' = RouteTaken /\ RoutesFound # {}
          /\ Binding!ControlsAreValid(Binding!Operations[RouteTaken])
      BY <2>3, <2>4
    <3>2. found' \in RoutesFound
      BY <3>1, Zenon DEF RouteTaken
    <3>3. \A c \in request.controls : served.controls /\ c.group = served.group
      BY <3>1, Zenon DEF Binding!ControlsAreValid
    <3>4. Accepted'
      BY <2>1, <2>2, <3>2, <3>3, Zenon DEF Accepted
    <3> QED
      BY <2>1, <2>2, <2>4, <3>4 DEF CallInv
  <2>5. CASE stage' = "rejected"
    <3>1. \/ RoutesFound = {}
          \/ ~Binding!ControlsAreValid(Binding!Operations[RouteTaken])
          \/ ~(Len(request.http.query) <= MaxQueryPairs)
      BY <2>3, <2>5
    <3>2. Binding!ControlsAreValid(Binding!Operations[RouteTaken])'
            <=> Binding!ControlsAreValid(Binding!Operations[RouteTaken])
      BY <2>1, <2>2, Zenon DEF Binding!ControlsAreValid
    <3>3. Refused'
      BY <2>1, <2>2, <3>1, <3>2, Zenon DEF Refused
    <3> QED
      BY <2>1, <2>2, <2>5, <3>3 DEF CallInv
  <2> QED
    BY <2>3, <2>4, <2>5
<1>4. CASE Binding!Dispatch
  <2>1. UNCHANGED <<service, args, headers, request, served, found>> /\ stage = "routed"
    BY <1>4, Zenon DEF Binding!Dispatch
  <2>2. SentAsCalled' /\ Accepted /\ Accepted' /\ ValuesFound' = ValuesFound
    BY <2>1, SentStays, VerdictStays DEF CallInv, UnderWay
  <2>3. \/ /\ stage' = "delivered"
           /\ got' = [i \in DOMAIN ValuesFound |-> CHOOSE v \in ValuesFound[i] : TRUE]
        \/ stage' = "rejected" /\ \E i \in DOMAIN ValuesFound : ValuesFound[i] = {}
    BY <1>4, Zenon DEF Binding!Dispatch, ValuesFound, SegmentsFound
  <2>4. CASE stage' = "delivered"
    <3>1. got' = [i \in DOMAIN ValuesFound' |-> CHOOSE v \in ValuesFound'[i] : TRUE]
      BY <2>2, <2>3, <2>4
    <3> QED
      BY <2>1, <2>2, <2>4, <3>1 DEF CallInv
  <2>5. CASE stage' = "rejected"
    <3>1. \E i \in DOMAIN ValuesFound : ValuesFound[i] = {}
      BY <2>3, <2>5
    <3>2. Refused'
      BY <2>2, <3>1 DEF Refused
    <3> QED
      BY <2>1, <2>2, <2>5, <3>2 DEF CallInv
  <2> QED
    BY <2>3, <2>4, <2>5
<1>5. CASE UNCHANGED Binding!vars
  <2>1. UNCHANGED <<stage, service, served, args, headers, request, found, got>>
    BY <1>5 DEF Binding!vars
  <2>2. /\ SentAsCalled => SentAsCalled'
        /\ Accepted' <=> Accepted
        /\ ValuesFound' = ValuesFound
        /\ Refused => Refused'
    BY <2>1, SentStays, VerdictStays
  <2> QED
    BY <2>1, <2>2 DEF CallInv
<1> QED
  BY <1>1, <1>2, <1>3, <1>4, <1>5, Zenon DEF Binding!Next

LEMMA CallInit == Binding!Init => CallInv
<1> SUFFICES ASSUME Binding!Init PROVE CallInv
  OBVIOUS
<1>1. stage = "declaring" /\ served = [group |-> "g", controls |-> TRUE]
  BY DEF Binding!Init
<1> QED
  BY <1>1 DEF CallInv, UnderWay

\* The parts of the request.
LEMMA SentParts ==
  ASSUME SentAsCalled
  PROVE  /\ request.http.method = Own.method
         /\ request.http.path = Binding!Path(Own, args)
         /\ request.http.query = Binding!Gather(Own, args, "query", "query_map")
         /\ request.http.headers = <<<<"host", "h">>, <<"accept", "json">>>>
                                     \o Binding!SetToSeq(Binding!CallHeaders(headers))
                                     \o Binding!Gather(Own, args, "header", "header_map")
         /\ request.http.cookies = Binding!CallCookies(headers)
                                     \o Binding!Gather(Own, args, "cookie", "none")
         /\ request.http.body = Binding!BodyOf(Own, args)
<1>1. request.http = Binding!Encode(Own, args, headers)
  BY DEF SentAsCalled
<1> QED
  BY <1>1 DEF Binding!Encode

\* What can stand in a path.
LEMMA ScalarValues ==
  ASSUME NEW kind \in Binding!Kinds, NEW v \in Binding!ValuesOf(kind), Binding!IsScalar(v)
  PROVE  \/ kind \in {"text", "optional"} /\ \E t \in Texts : v = Binding!Text(t)
         \/ kind = "number" /\ v = Binding!Number("1")
<1>1. CASE kind \in {"text", "optional"}
  <2>1. \/ \E t \in Texts : v = Binding!Text(t)
        \/ v = Binding!Null
    BY <1>1 DEF Binding!ValuesOf, Binding!Scalars
  <2> QED
    BY <1>1, <2>1 DEF Binding!IsScalar, Binding!Null
<1>2. CASE kind = "number"
  BY <1>2 DEF Binding!ValuesOf, Binding!Numerals
<1>3. CASE kind = "list"
  BY <1>3 DEF Binding!ValuesOf, Binding!Lists, Binding!List, Binding!IsScalar
<1>4. CASE kind \in {"map", "listmap"}
  <2>1. \E fields : v = Binding!Object(fields)
    BY <1>4 DEF Binding!ValuesOf
  <2> QED
    BY <2>1 DEF Binding!Object, Binding!IsScalar
<1> QED
  BY <1>1, <1>2, <1>3, <1>4 DEF Binding!Kinds

\* A placeholder stands for the argument of its name.
LEMMA TextIsArgument ==
  ASSUME Declared, stage \in Served, NEW name \in Binding!Placeholders(Own.path)
  PROVE  \E i \in Binding!WithSource(Own, "path") :
           Own.params[i].name = name /\ TextFor(Own, args, name) = args[i].text
<1>1. name \in Binding!NamesFrom(Own, "path")
  BY OwnIsValid, Zenon DEF Binding!OperationIsValid
<1>2. \E i \in Binding!WithSource(Own, "path") : Own.params[i].name = name
  BY <1>1 DEF Binding!NamesFrom
<1> QED
  BY <1>2, Zenon DEF TextFor

\* Parsing a template keeps its segments, literals decoded.
LEMMA ParsedPath ==
  ASSUME NEW path, IsSequence(path)
  PROVE  /\ DOMAIN Binding!ParseTemplate(path) = DOMAIN path
         /\ Len(Binding!ParseTemplate(path)) = Len(path)
         /\ \A k \in DOMAIN path :
              Binding!ParseTemplate(path)[k] =
                IF path[k].kind = "literal" THEN Binding!Literal(Binding!Unescaped(path[k].name))
                ELSE path[k]
BY DEF IsSequence, Binding!ParseTemplate

\* A call that is none of the exceptions is routed to its own method.
LEMMA OwnRouteIsFound ==
  ASSUME CallHypotheses, BindingInv, Declared, CallInv, stage \in UnderWay, ~Binding!Exceptional
  PROVE  /\ RoutesFound = {1}
         /\ Binding!SplitPath(request.http.path) = {SegmentsOf(Own, args)}
<1> DEFINE path == Own.path
           segments == SegmentsOf(Own, args)
           table == Binding!RouteTable(Binding!Operations)
<1>1. stage \in Served /\ SentAsCalled
  BY DEF UnderWay, Served, Calling, CallInv
<1>2. /\ \A i \in Binding!WithSource(Own, "path") : args[i].text # ""
      /\ \A i \in Binding!WithSource(Own, "path"), j \in DOMAIN service \ {1} :
           Binding!Literal(args[i].text)
             \notin Binding!Range(Binding!ParseTemplate(service[j].path))
  BY Zenon DEF Binding!Exceptional, Own
<1>3. path = service[1].path /\ path \in Templates /\ IsPath(path)
  BY <1>1, OwnIsValid DEF BindingInv, CallHypotheses, WellFormedTemplates
<1>4. ASSUME NEW k \in DOMAIN path, path[k].kind = "parameter"
      PROVE  \E i \in Binding!WithSource(Own, "path") :
               TextFor(Own, args, path[k].name) = args[i].text
  <2>1. path[k].name \in Binding!Placeholders(path)
    BY <1>4 DEF Binding!Placeholders
  <2> QED
    BY <1>1, <2>1, TextIsArgument
<1>5. ASSUME NEW i \in Binding!WithSource(Own, "path")
      PROVE  args[i].text \notin EscapedForms
  <2>1. i \in DOMAIN Own.params /\ Own.params[i].source = "path"
    BY DEF Binding!WithSource
  <2>2. /\ args[i] \in Binding!ValuesOf(Own.params[i].kind) /\ Own.params[i].kind \in Binding!Kinds
        /\ Binding!IsScalar(args[i])
    BY <1>1, <2>1, OwnIsValid DEF SentAsCalled, Binding!Encodable
  <2>3. (\E t \in Texts : args[i] = Binding!Text(t)) \/ args[i] = Binding!Number("1")
    BY <2>2, ScalarValues
  <2>4. args[i].text \in Texts \/ args[i].text = "1"
    <3>1. \A t : Binding!Text(t).text = t /\ Binding!Number(t).text = t
      BY DEF Binding!Text, Binding!Number
    <3> QED
      BY <2>3, <3>1, Zenon
  <2>5. "1" \notin EscapedForms
    BY DEF EscapedForms, Binding!Escapes
  <2>6. Texts \cap EscapedForms = {}
    BY DEF CallHypotheses, TextsAreUnescaped
  <2> QED
    BY <2>4, <2>5, <2>6
<1>6. \A k \in DOMAIN path : path[k].kind = "literal" => path[k].name # ""
  BY <1>3 DEF CallHypotheses, SegmentsAreFull
<1>7. \A k \in DOMAIN path : path[k].kind = "parameter" =>
        /\ TextFor(Own, args, path[k].name) \notin EscapedForms
        /\ TextFor(Own, args, path[k].name) # ""
  BY <1>2, <1>4, <1>5, Zenon
<1>8. Binding!SplitPath(request.http.path) = {segments}
  <2>1. request.http.path = Binding!Path(Own, args)
    BY <1>1, SentParts
  <2> QED
    BY <1>3, <1>6, <1>7, <2>1, PathIsSplit
<1>9. /\ 1 \in DOMAIN table /\ DOMAIN table = DOMAIN service /\ IsTable(table)
      /\ table[1].method = Own.method
      /\ \A j \in DOMAIN service : table[j].path = Binding!ParseTemplate(service[j].path)
  <2>1. DOMAIN table = DOMAIN service /\ 1 \in DOMAIN service
    BY DEF Binding!RouteTable, Binding!Operations, Declared
  <2>2. IsTable(table)
    BY <1>1, TableIsBuilt DEF CallHypotheses, BindingInv
  <2>3. \A j \in DOMAIN service :
          /\ Binding!Operations[j].path = service[j].path
          /\ "path" \in DOMAIN Binding!Operations[j] /\ "method" \in DOMAIN Binding!Operations[j]
          /\ DOMAIN Binding!Operations = DOMAIN service
    BY DEF Binding!Operations, Binding!Operation
  <2>4. \A j \in DOMAIN service : /\ table[j].path = Binding!ParseTemplate(service[j].path)
                                  /\ table[j].method = Binding!Operations[j].method
    BY <2>3 DEF Binding!RouteTable
  <2> QED
    BY <2>1, <2>2, <2>4 DEF Own
<1>10. DOMAIN segments = DOMAIN path /\ IsSequence(segments) /\ Len(segments) = Len(table[1].path)
       /\ DOMAIN table[1].path = DOMAIN path
  <2>1. DOMAIN segments = DOMAIN path /\ IsSequence(path)
    BY <1>3 DEF SegmentsOf, IsPath
  <2>2. DOMAIN table[1].path = DOMAIN path
    BY <1>3, <1>9 DEF Binding!ParseTemplate
  <2>3. Len(segments) = Len(path) /\ IsSequence(segments)
    BY <2>1 DEF SegmentsOf, IsSequence
  <2>4. Len(table[1].path) = Len(path)
    BY <1>3, <1>9, <2>1, ParsedPath
  <2> QED
    BY <2>1, <2>2, <2>3, <2>4
<1>11. ASSUME NEW k \in DOMAIN segments
       PROVE  \/ table[1].path[k] = Binding!Literal(segments[k])
              \/ /\ table[1].path[k].kind = "parameter"
                 /\ \A r \in DOMAIN table \ {1} : k \in DOMAIN table[r].path
                      => table[r].path[k] # Binding!Literal(segments[k])
  <2>1. k \in DOMAIN path
    BY <1>10
  <2>2. CASE path[k].kind = "literal"
    <3>1. table[1].path[k] = Binding!Literal(Binding!Unescaped(path[k].name))
      <4>1. table[1].path = Binding!ParseTemplate(path) /\ IsSequence(path)
        BY <1>3, <1>9 DEF IsPath
      <4> HIDE DEF path, table
      <4> QED
        BY <2>1, <2>2, <4>1, ParsedPath
    <3>2. segments[k] = Binding!Unescaped(path[k].name)
      BY <2>1, <2>2 DEF SegmentsOf
    <3> QED
      BY <3>1, <3>2
  <2>3. CASE path[k].kind # "literal"
    <3>1. path[k].kind = "parameter"
      <4>1. PICK name : path[k] = Binding!Literal(name) \/ path[k] = Binding!Placeholder(name)
        BY <1>3, <2>1, Zenon DEF IsPath
      <4>2. /\ Binding!Literal(name).kind = "literal"
            /\ Binding!Placeholder(name).kind = "parameter"
        BY DEF Binding!Literal, Binding!Placeholder
      <4> HIDE DEF path
      <4> QED
        BY <2>3, <4>1, <4>2
    <3>2. table[1].path[k] = path[k]
      <4>1. table[1].path = Binding!ParseTemplate(path) /\ IsSequence(path)
        BY <1>3, <1>9 DEF IsPath
      <4> HIDE DEF path, table
      <4> QED
        BY <2>1, <2>3, <4>1, ParsedPath
    <3>3. segments[k] = TextFor(Own, args, path[k].name)
      BY <2>1, <2>3 DEF SegmentsOf
    <3>4. PICK i \in Binding!WithSource(Own, "path") : segments[k] = args[i].text
      BY <1>4, <2>1, <3>1, <3>3, Zenon
    <3>5. ASSUME NEW r \in DOMAIN table \ {1}, k \in DOMAIN table[r].path
          PROVE  table[r].path[k] # Binding!Literal(segments[k])
      <4>1. table[r].path[k] \in Binding!Range(Binding!ParseTemplate(service[r].path))
        BY <1>9, <3>5 DEF Binding!Range
      <4>2. r \in DOMAIN service \ {1}
        BY <1>9
      <4> QED
        BY <1>2, <3>4, <4>1, <4>2, Zenon
    <3> QED
      BY <3>1, <3>2, <3>5
  <2> QED
    BY <2>2, <2>3
<1> HIDE DEF path, segments, table
<1>12. Binding!Match(table, table[1].method, segments) = {1}
  BY <1>9, <1>10, <1>11, OwnRouteIsBest, Zenon
<1>13. request.http.method = table[1].method
  BY <1>1, <1>9, SentParts
<1>14. RoutesFound = {1}
  <2>1. RoutesFound = UNION {Binding!Match(table, table[1].method, s) : s \in {segments}}
    BY <1>8, <1>13, Zenon DEF RoutesFound, table
  <2> QED
    BY <1>12, <2>1
<1> QED
  BY <1>8, <1>14 DEF segments

\* The values of a type are values of it.
LEMMA ValuesFit ==
  ASSUME NEW kind \in Binding!Kinds, NEW v \in Binding!ValuesOf(kind)
  PROVE  Binding!Fits(kind, v)
<1>1. CASE kind \in {"text", "optional"}
  <2>1. (\E t \in Texts : v = Binding!Text(t)) \/ (kind = "optional" /\ v = Binding!Null)
    BY <1>1 DEF Binding!ValuesOf, Binding!Scalars
  <2>2. \A t : Binding!Text(t).json = "text"
    BY DEF Binding!Text
  <2>3. Binding!Null.json = "null"
    BY DEF Binding!Null
  <2> QED
    BY <1>1, <2>1, <2>2, <2>3 DEF Binding!Fits
<1>2. CASE kind = "number"
  BY <1>2 DEF Binding!ValuesOf, Binding!Numerals, Binding!Fits, Binding!Number
<1>3. \A l \in Binding!Lists : /\ l.json = "list"
                               /\ \A i \in DOMAIN l.items : l.items[i].json = "text"
  BY DEF Binding!Lists, Binding!List, Binding!Text
<1>4. CASE kind = "list"
  BY <1>3, <1>4 DEF Binding!ValuesOf, Binding!Fits
<1>5. CASE kind = "map"
  <2>1. \E names : v = Binding!Object([n \in names |-> Binding!Text("a")])
    BY <1>5 DEF Binding!ValuesOf
  <2> QED
    BY <1>5, <2>1 DEF Binding!Fits, Binding!Object, Binding!Text
<1>6. CASE kind = "listmap"
  <2>1. \E l \in Binding!Lists : v = Binding!Object([n \in {"x"} |-> l])
    BY <1>6 DEF Binding!ValuesOf
  <2> QED
    BY <1>3, <1>6, <2>1 DEF Binding!Fits, Binding!Object
<1> QED
  BY <1>1, <1>2, <1>4, <1>5, <1>6 DEF Binding!Kinds

LEMMA FittingIsTaken ==
  ASSUME NEW kind, NEW v, Binding!Fits(kind, v), NEW encoded
  PROVE  Binding!DecodeArgument(kind, v, encoded) = {v}
BY Zenon DEF Binding!DecodeArgument

\* The text a scalar is sent as is decoded to it.
LEMMA TextIsDecoded ==
  ASSUME NEW kind \in Binding!Kinds, NEW v \in Binding!ValuesOf(kind), Binding!IsScalar(v)
  PROVE  Binding!DecodeArgument(kind, Binding!Text(v.text), TRUE) = {v}
<1>1. CASE kind \in {"text", "optional"}
  <2>1. PICK t : v = Binding!Text(t)
    BY <1>1, ScalarValues
  <2>2. v.text = t
    BY <2>1 DEF Binding!Text
  <2>3. Binding!Fits(kind, v)
    BY ValuesFit
  <2> QED
    BY <2>1, <2>2, <2>3, FittingIsTaken
<1>2. CASE kind = "number"
  <2>1. v = Binding!Number("1") /\ v.text = "1"
    BY <1>2, ScalarValues DEF Binding!Number
  <2>2. ~Binding!Fits(kind, Binding!Text("1")) /\ Binding!Fits(kind, Binding!Number("1"))
    BY <1>2 DEF Binding!Fits, Binding!Text, Binding!Number
  <2>3. Binding!ParseScalars(Binding!Text("1")) = Binding!Number("1")
    BY DEF Binding!ParseScalars, Binding!ParseScalar, Binding!Text, Binding!Numerals
  <2>4. Binding!DecodeArgument(kind, Binding!Text("1"), TRUE) = {Binding!Number("1")}
    BY <2>2, <2>3, Zenon DEF Binding!DecodeArgument
  <2> QED
    BY <2>1, <2>4
<1> QED
  BY <1>1, <1>2, ScalarValues

\* What is decoded of the value of a parameter in a request.
IsDecodedFrom(op, i, sent, segments, w) ==
  Binding!Decoded(op, sent, segments)[i]
    = Binding!DecodeArgument(op.params[i].kind, w, op.params[i].textEncoded)

LEMMA DecodedFrom ==
  ASSUME NEW op, NEW i \in DOMAIN op.params, NEW sent, NEW segments, NEW w,
         Binding!ArgumentOf(op, i, sent, segments) = {w}
  PROVE  IsDecodedFrom(op, i, sent, segments, w)
<1> DEFINE D(u) == Binding!DecodeArgument(op.params[i].kind, u, op.params[i].textEncoded)
<1>1. Binding!Decoded(op, sent, segments)[i]
        = UNION {D(u) : u \in Binding!ArgumentOf(op, i, sent, segments)}
  BY Zenon DEF Binding!Decoded
<1>2. UNION {D(u) : u \in {w}} = D(w)
  <2> HIDE DEF D
  <2> QED
    OBVIOUS
<1> QED
  BY <1>1, <1>2, Zenon DEF IsDecodedFrom

\* An argument in the path is decoded to what it was.
LEMMA PathArgument ==
  ASSUME Declared, stage \in Served, SentAsCalled, IsPath(Own.path),
         NEW i \in DOMAIN Own.params, Own.params[i].source = "path"
  PROVE  Binding!Decoded(Own, request.http, SegmentsOf(Own, args))[i] = {args[i]}
<1> DEFINE p == Own.params[i]
           segments == SegmentsOf(Own, args)
           k == CHOOSE k \in DOMAIN Own.path : Own.path[k] = Binding!Placeholder(p.name)
           t == args[i].text
<1>1. i \in Binding!WithSource(Own, "path") /\ p.name \in Binding!Placeholders(Own.path)
  <2>1. i \in Binding!WithSource(Own, "path")
    BY DEF Binding!WithSource
  <2>2. p.name \in Binding!NamesFrom(Own, "path")
    BY <2>1 DEF Binding!NamesFrom
  <2>3. Binding!Placeholders(Own.path) = Binding!NamesFrom(Own, "path")
    BY OwnIsValid, Zenon DEF Binding!OperationIsValid
  <2> QED
    BY <2>1, <2>2, <2>3
<1>2. k \in DOMAIN Own.path /\ Own.path[k] = Binding!Placeholder(p.name)
  <2>1. PICK j \in DOMAIN Own.path : Own.path[j].kind = "parameter" /\ Own.path[j].name = p.name
    BY <1>1 DEF Binding!Placeholders
  <2>2. PICK name : Own.path[j] = Binding!Literal(name) \/ Own.path[j] = Binding!Placeholder(name)
    BY Zenon DEF IsPath
  <2>3. Binding!Literal(name).kind = "literal" /\ Binding!Placeholder(name).name = name
    BY DEF Binding!Literal, Binding!Placeholder
  <2>4. Own.path[j] = Binding!Placeholder(p.name)
    <3> HIDE DEF p
    <3> QED
      BY <2>1, <2>2, <2>3
  <2> QED
    BY <2>4, Zenon
<1>3. segments[k] = t
  <2>1. Own.path[k].kind = "parameter" /\ Own.path[k].name = p.name
    <3> HIDE DEF k, p
    <3> QED
      BY <1>2 DEF Binding!Placeholder
  <2>2. segments[k] = TextFor(Own, args, p.name)
    <3> HIDE DEF k, p
    <3> QED
      BY <1>2, <2>1 DEF SegmentsOf
  <2>3. PICK j \in Binding!WithSource(Own, "path") :
          Own.params[j].name = p.name /\ TextFor(Own, args, p.name) = args[j].text
    BY <1>1, TextIsArgument
  <2>4. j = i
    <3>1. j \in DOMAIN Own.params
      BY DEF Binding!WithSource
    <3>2. \A a, b \in DOMAIN Own.params : Own.params[a].name = Own.params[b].name => a = b
      BY OwnIsValid, Zenon DEF Binding!OperationIsValid
    <3> QED
      BY <2>3, <3>1, <3>2
  <2> QED
    BY <2>2, <2>3, <2>4
<1>4. Binding!ArgumentOf(Own, i, request.http, segments) = {Binding!Text(t)}
  <2>1. Binding!ArgumentOf(Own, i, request.http, segments) = {Binding!Text(segments[k])}
    <3> HIDE DEF segments
    <3> QED
      BY DEF Binding!ArgumentOf
  <2> QED
    BY <1>3, <2>1, Zenon
<1>5. /\ p.kind \in Binding!Kinds /\ p.textEncoded = TRUE
      /\ args[i] \in Binding!ValuesOf(p.kind) /\ Binding!IsScalar(args[i])
  BY OwnIsValid DEF SentAsCalled, Binding!Encodable
<1>6. Binding!Decoded(Own, request.http, segments)[i]
        = Binding!DecodeArgument(p.kind, Binding!Text(t), p.textEncoded)
  <2>1. IsDecodedFrom(Own, i, request.http, segments, Binding!Text(t))
    BY <1>4, DecodedFrom, Zenon
  <2> QED
    BY <2>1, Zenon DEF IsDecodedFrom
<1> HIDE DEF p, segments
<1> QED
  BY <1>5, <1>6, TextIsDecoded DEF segments

\* So is one in the body, alone or as a field.
LEMMA BodyArgument ==
  ASSUME Declared, stage \in Served, SentAsCalled,
         NEW i \in DOMAIN Own.params, Own.params[i].source \in {"body", "body_field"}
  PROVE  Binding!Decoded(Own, request.http, SegmentsOf(Own, args))[i] = {args[i]}
<1> DEFINE p == Own.params[i]
           segments == SegmentsOf(Own, args)
<1>1. request.http.body = Binding!BodyOf(Own, args)
  BY SentParts
<1>2. /\ \A a, b \in DOMAIN Own.params : Own.params[a].name = Own.params[b].name => a = b
      /\ Binding!AtMostOne(Binding!WithSource(Own, "body"))
      /\ Binding!WithSource(Own, "body") # {} => Binding!WithSource(Own, "body_field") = {}
  BY OwnIsValid, Zenon DEF Binding!OperationIsValid
<1>3. Binding!ArgumentOf(Own, i, request.http, segments) = {args[i]}
  <2>1. CASE p.source = "body"
    <3>1. Binding!ArgumentOf(Own, i, request.http, segments) = request.http.body
      <4> HIDE DEF segments
      <4> QED
        BY <2>1 DEF Binding!ArgumentOf
    <3>2. i \in Binding!WithSource(Own, "body")
      BY <2>1 DEF Binding!WithSource
    <3>3. (CHOOSE j \in Binding!WithSource(Own, "body") : TRUE) = i
      BY <1>2, <3>2 DEF Binding!AtMostOne
    <3>4. Binding!BodyOf(Own, args) = {args[i]}
      BY <3>2, <3>3, Zenon DEF Binding!BodyOf
    <3> QED
      BY <1>1, <3>1, <3>4
  <2>2. CASE p.source = "body_field"
    <3>1. /\ i \in Binding!WithSource(Own, "body_field")
          /\ p.name \in Binding!NamesFrom(Own, "body_field")
      BY <2>2 DEF Binding!WithSource, Binding!NamesFrom
    <3> DEFINE fields == [n \in Binding!NamesFrom(Own, "body_field") |->
                           args[CHOOSE j \in DOMAIN Own.params : Own.params[j].name = n]]
    <3>2. Binding!BodyOf(Own, args) = {Binding!Object(fields)}
      <4>1. /\ Binding!WithSource(Own, "body_field") # {}
            /\ ~(Binding!WithSource(Own, "body") # {})
        BY <1>2, <3>1
      <4> QED
        BY <4>1, Zenon DEF Binding!BodyOf
    <3>3. fields[p.name] = args[i] /\ p.name \in DOMAIN fields
      <4>1. (CHOOSE j \in DOMAIN Own.params : Own.params[j].name = p.name) = i
        BY <1>2
      <4> QED
        BY <3>1, <4>1
    <3>4. Binding!ArgumentOf(Own, i, request.http, segments)
            = {IF p.name \in DOMAIN b.fields THEN b.fields[p.name] ELSE Binding!Null :
                 b \in request.http.body}
      <4> HIDE DEF segments
      <4> QED
        BY <2>2 DEF Binding!ArgumentOf
    <3> HIDE DEF fields, segments, p
    <3>5. Binding!Object(fields).fields = fields
      BY DEF Binding!Object
    <3> QED
      BY <1>1, <3>2, <3>3, <3>4, <3>5
  <2> QED
    BY <2>1, <2>2
<1>4. Binding!Decoded(Own, request.http, segments)[i]
        = Binding!DecodeArgument(p.kind, args[i], p.textEncoded)
  <2>1. IsDecodedFrom(Own, i, request.http, segments, args[i])
    BY <1>3, DecodedFrom, Zenon
  <2> QED
    BY <2>1, Zenon DEF IsDecodedFrom
<1>5. Binding!Fits(p.kind, args[i])
  BY OwnIsValid, ValuesFit DEF SentAsCalled
<1> QED
  BY <1>4, <1>5, FittingIsTaken

ParameterNames == {"p", "host", "q", "P"}
EntryNames == {"p", "x", "accept"}

\* The parameters have known names and sources.
LEMMA ParametersAreKnown ==
  ASSUME CallHypotheses, Declared, stage \in Served, NEW i \in DOMAIN Own.params
  PROVE  /\ Own.params[i].name \in ParameterNames
         /\ Own.params[i].source \in Binding!Sources
         /\ Own.params[i].source = "query" /\ Own.params[i].kind = "list" => Own.params[i].repeated
<1> DEFINE d == service[1]
           p == d.params[i]
<1>1. /\ Own = Binding!Operation(d) /\ i \in DOMAIN d.params
      /\ Own.params[i].name = p.name /\ Own.params[i].kind = p.kind
      /\ Own.params[i].source = Binding!Source(d, p)
  BY OwnIsValid
<1>2. p \in Declarable
  BY <1>1 DEF Declared
<1>3. p.name \in ParameterNames /\ p.source \in Binding!Sources \cup {"inferred"}
  <2>1. SecondSources \subseteq Binding!Sources
    BY DEF CallHypotheses
  <2> QED
    BY <1>2, <2>1 DEF Declarable, Binding!Parameters, ParameterNames
<1>4. Own.params[i].repeated = p.repeated
  BY <1>1 DEF Binding!Operation
<1>5. Binding!Source(d, p) = "query" /\ p.kind = "list" => p.repeated
  <2>1. Binding!ParametersAreValid(d)
    BY Zenon DEF Declared, Binding!MacroAccepts
  <2> QED
    BY <1>1, <2>1, Zenon DEF Binding!ParametersAreValid, Binding!ParameterIsValid
<1>6. Binding!Source(d, p) \in Binding!Sources
  <2>1. {"path", "body_field", "query"} \subseteq Binding!Sources
    BY DEF Binding!Sources
  <2> HIDE DEF d, p
  <2> QED
    BY <1>3, <2>1 DEF Binding!Source
<1> QED
  BY <1>1, <1>3, <1>4, <1>5, <1>6

\* The pairs of names and texts on the wire.
WireTexts == Texts \cup {"a", "null", "1", "h", "json"}
WireNames == ParameterNames \cup EntryNames \cup {"cookie", "own"}
WirePairs == {<<n, t>> : n \in WireNames, t \in WireTexts}

\* A value whose texts are sent under a name.
IsTexts(v) == Binding!TextsOf(v) \in Seq(WireTexts)

LEMMA ScalarsAreTexts ==
  ASSUME NEW kind \in Binding!Kinds, NEW v \in Binding!ValuesOf(kind), Binding!IsScalar(v)
  PROVE  /\ v.text \in WireTexts /\ Binding!TextsOf(v) = <<v.text>> /\ IsTexts(v)
         /\ v # Binding!Null
<1>1. (\E t \in Texts : v = Binding!Text(t)) \/ v = Binding!Number("1")
  BY ScalarValues
<1>2. v.text \in WireTexts
  BY <1>1 DEF Binding!Text, Binding!Number, WireTexts
<1>3. v.json # "list" /\ v.json # "null"
  BY DEF Binding!IsScalar
<1>4. Binding!TextsOf(v) = <<v.text>>
  BY <1>3, Zenon DEF Binding!TextsOf
<1>5. v # Binding!Null
  BY <1>3 DEF Binding!Null
<1> QED
  BY <1>2, <1>4, <1>5 DEF IsTexts

\* The texts of a list, by which it is one.
LEMMA ListsAreTexts ==
  ASSUME NEW v \in Binding!Lists
  PROVE  /\ IsTexts(v) /\ v.json = "list"
         /\ v = Binding!List([k \in DOMAIN Binding!TextsOf(v) |->
                                Binding!Text(Binding!TextsOf(v)[k])])
         /\ Len(Binding!TextsOf(v)) = Len(v.items)
         /\ v # Binding!List(<<>>) => Binding!TextsOf(v) # <<>>
         /\ v # Binding!Null
<1>1. v.json = "list" /\ v = Binding!List(v.items)
      /\ v.items \in {<<>>, <<Binding!Text("a")>>, <<Binding!Text("a"), Binding!Text("null")>>}
  BY DEF Binding!Lists, Binding!List
<1>2. Binding!TextsOf(v) = [k \in DOMAIN v.items |-> v.items[k].text]
  BY <1>1, Zenon DEF Binding!TextsOf
<1>3. Binding!Text("a").text = "a" /\ Binding!Text("null").text = "null"
  BY DEF Binding!Text
<1>4. \/ v.items = <<>> /\ Binding!TextsOf(v) = <<>>
      \/ v.items = <<Binding!Text("a")>> /\ Binding!TextsOf(v) = <<"a">>
      \/ /\ v.items = <<Binding!Text("a"), Binding!Text("null")>>
         /\ Binding!TextsOf(v) = <<"a", "null">>
  BY <1>1, <1>2, <1>3
<1>5. v.items = [k \in DOMAIN Binding!TextsOf(v) |-> Binding!Text(Binding!TextsOf(v)[k])]
  BY <1>4
<1>6. IsTexts(v)
  <2>1. "a" \in WireTexts /\ "null" \in WireTexts
    BY DEF WireTexts
  <2>2. /\ <<>> \in Seq(WireTexts) /\ <<"a">> \in Seq(WireTexts)
        /\ <<"a", "null">> \in Seq(WireTexts)
    BY <2>1
  <2> QED
    BY <1>4, <2>2, Zenon DEF IsTexts
<1>7. Len(Binding!TextsOf(v)) = Len(v.items)
  BY <1>4
<1>8. v # Binding!Null
  BY <1>1 DEF Binding!Null
<1>9. v # Binding!List(<<>>) => Binding!TextsOf(v) # <<>>
  BY <1>1, <1>4
<1> QED
  BY <1>1, <1>5, <1>6, <1>7, <1>8, <1>9

\* A map: what it sends are texts and lists that are not empty.
IsMap(v) ==
  /\ IsFiniteSet(Binding!Sent(v)) /\ Binding!Sent(v) \subseteq EntryNames
  /\ \A n \in Binding!Sent(v) :
       /\ IsTexts(v.fields[n]) /\ Binding!TextsOf(v.fields[n]) # <<>>
       /\ v.fields[n] = Binding!Text("a") \/ v.fields[n] \in Binding!Lists

LEMMA ObjectsAreMaps ==
  ASSUME NEW kind \in Binding!Kinds, NEW v \in Binding!ValuesOf(kind), v.json = "object"
  PROVE  /\ IsMap(v)
         /\ \/ kind = "map" /\ \A n \in Binding!Sent(v) : v.fields[n] = Binding!Text("a")
            \/ kind = "listmap" /\ \A n \in Binding!Sent(v) : v.fields[n] \in Binding!Lists
<1>1. kind \in {"map", "listmap"}
  <2>1. kind \notin {"map", "listmap"} => v.json # "object"
    BY DEF Binding!Kinds, Binding!ValuesOf, Binding!Scalars, Binding!Null, Binding!Text,
           Binding!Number, Binding!Lists, Binding!List, Binding!Numerals
  <2> QED
    BY <2>1
<1>2. \A S \in SUBSET EntryNames : IsFiniteSet(S)
  <2>1. IsFiniteSet(EntryNames)
    <3>1. IsFiniteSet({"p"}) /\ IsFiniteSet({"x"}) /\ IsFiniteSet({"accept"})
      BY FS_Singleton
    <3>2. EntryNames = ({"p"} \cup {"x"}) \cup {"accept"}
      BY DEF EntryNames
    <3> QED
      BY <3>1, <3>2, FS_Union
  <2> QED
    BY <2>1, FS_Subset
<1>3. CASE kind = "map"
  <2>1. PICK names : /\ names \subseteq EntryNames
                     /\ v = Binding!Object([n \in names |-> Binding!Text("a")])
    BY <1>3 DEF Binding!ValuesOf, EntryNames
  <2>2. DOMAIN v.fields = names /\ \A n \in names : v.fields[n] = Binding!Text("a")
    BY <2>1 DEF Binding!Object
  <2>3. Binding!Sent(v) \subseteq names
    BY <2>2, Zenon DEF Binding!Sent
  <2>4. Binding!TextsOf(Binding!Text("a")) = <<"a">>
    BY DEF Binding!TextsOf, Binding!Text
  <2>5. IsTexts(Binding!Text("a"))
    <3>1. "a" \in WireTexts
      BY DEF WireTexts
    <3>2. <<"a">> \in Seq(WireTexts)
      BY <3>1
    <3> QED
      BY <2>4, <3>2 DEF IsTexts
  <2>6. Binding!TextsOf(Binding!Text("a")) # <<>>
    BY <2>4
  <2>7. \A n \in Binding!Sent(v) : v.fields[n] = Binding!Text("a")
    BY <2>2, <2>3
  <2>8. IsMap(v)
    BY <1>2, <2>1, <2>3, <2>5, <2>6, <2>7 DEF IsMap
  <2> QED
    BY <1>3, <2>7, <2>8
<1>4. CASE kind = "listmap"
  <2>1. PICK l \in Binding!Lists : v = Binding!Object([n \in {"x"} |-> l])
    BY <1>4 DEF Binding!ValuesOf
  <2>2. DOMAIN v.fields = {"x"} /\ \A n \in {"x"} : v.fields[n] = l
    BY <2>1 DEF Binding!Object
  <2>3. Binding!Sent(v) \subseteq {"x"}
    BY <2>2, Zenon DEF Binding!Sent
  <2>4. \A n \in Binding!Sent(v) : v.fields[n] = l /\ l # Binding!List(<<>>)
    BY <2>2, <2>3 DEF Binding!Sent, Binding!Omitted
  <2>5. {"x"} \subseteq EntryNames
    BY DEF EntryNames
  <2>6. IsTexts(l) /\ (l # Binding!List(<<>>) => Binding!TextsOf(l) # <<>>)
    BY ListsAreTexts
  <2>7. IsMap(v)
    BY <1>2, <2>3, <2>4, <2>5, <2>6 DEF IsMap
  <2> QED
    BY <1>4, <2>4, <2>7
<1> QED
  BY <1>1, <1>3, <1>4

-----------------------------------------------------------------------------
\* The pairs of one name and their texts.
LEMMA PairsAreNamed ==
  ASSUME NEW name \in WireNames, NEW v, IsTexts(v)
  PROVE  /\ Binding!Pairs(name, v) \in Seq(WirePairs)
         /\ [k \in DOMAIN Binding!Pairs(name, v) |-> Binding!Pairs(name, v)[k][2]]
              = Binding!TextsOf(v)
         /\ Binding!TextsOf(v) # <<>> => Binding!Pairs(name, v) # <<>>
         /\ \A names : Binding!Named(Binding!Pairs(name, v), names)
                         = IF name \in names THEN Binding!Pairs(name, v) ELSE <<>>
<1> DEFINE t == Binding!TextsOf(v)
           q == Binding!Pairs(name, v)
           n == Len(t)
<1>1. /\ t \in Seq(WireTexts) /\ n \in Nat /\ DOMAIN t = 1 .. n /\ t = [k \in 1 .. n |-> t[k]]
      /\ \A k \in 1 .. n : t[k] \in WireTexts
  BY DEF IsTexts
<1> HIDE DEF t, n
<1>2. q = [k \in 1 .. n |-> <<name, t[k]>>]
  BY <1>1, Zenon DEF Binding!Pairs, t
<1> HIDE DEF q
<1>3. /\ DOMAIN q = 1 .. n
      /\ \A k \in 1 .. n : q[k] = <<name, t[k]>> /\ q[k][1] = name /\ q[k][2] = t[k]
  BY <1>2
<1>4. \A k \in 1 .. n : <<name, t[k]>> \in WirePairs
  BY <1>1 DEF WirePairs
<1>5. q \in Seq(WirePairs)
  BY <1>1, <1>2, <1>4
<1>6. [k \in DOMAIN q |-> q[k][2]] = t
  <2>1. [k \in DOMAIN q |-> q[k][2]] = [k \in 1 .. n |-> t[k]]
    BY <1>3
  <2> QED
    BY <1>1, <2>1
<1>7. t # <<>> => q # <<>>
  <2>1. q = <<>> => n = 0
    <3>1. DOMAIN <<>> = {}
      OBVIOUS
    <3>2. n # 0 => 1 \in 1 .. n
      BY <1>1
    <3> QED
      BY <1>3, <3>1, <3>2, Zenon
  <2>2. n = 0 => t = <<>>
    BY <1>1 DEF n
  <2> QED
    BY <2>1, <2>2
<1>8. ASSUME NEW names
      PROVE  Binding!Named(q, names) = IF name \in names THEN q ELSE <<>>
  <2>1. Selects(WirePairs, q, names)
    BY <1>5, NamedSelects
  <2>2. name \in names => AllAmong(q, names)
    BY <1>3, Zenon DEF AllAmong
  <2>3. name \notin names => NoneAmong(q, names)
    BY <1>3, Zenon DEF NoneAmong
  <2> QED
    BY <2>1, <2>2, <2>3, Zenon DEF Selects
<1> QED
  BY <1>5, <1>6, <1>7, <1>8 DEF t, q

\* The names of entries are names of headers.
LEMMA EntryOnWire ==
  ASSUME NEW source, NEW n \in EntryNames
  PROVE  Binding!OnWire(source, n) = n
BY DEF EntryNames, Binding!OnWire, Binding!Lower

\* What a map sends under a name.
LEMMA MapPairsAreNamed ==
  ASSUME NEW source, NEW v, IsMap(v), NEW n
  PROVE  /\ Binding!MapPairs(source, v) \in Seq(WirePairs)
         /\ Binding!Named(Binding!MapPairs(source, v), {n})
              = IF n \in Binding!Sent(v) THEN Binding!Pairs(n, v.fields[n]) ELSE <<>>
<1> DEFINE names == Binding!SetToSeq(Binding!Sent(v))
           P(m) == Binding!Pairs(m, v.fields[m])
           s == [k \in DOMAIN names |-> P(names[k])]
           F == Binding!MapPairs(source, v)
<1>1. Lists(names, Binding!Sent(v))
  BY SetIsListed DEF IsMap
<1> HIDE DEF names
<1>2. /\ Len(names) \in Nat /\ DOMAIN names = 1 .. Len(names)
      /\ \A k \in DOMAIN names : names[k] \in Binding!Sent(v)
  BY <1>1 DEF Lists
<1>3. \A k \in DOMAIN names : names[k] \in EntryNames
  BY <1>2 DEF IsMap
<1>4. F = Binding!FlattenSeq(s)
  <2>1. F = Binding!FlattenSeq([k \in DOMAIN names |->
              Binding!Pairs(Binding!OnWire(source, names[k]), v.fields[names[k]])])
    BY Zenon DEF Binding!MapPairs, names
  <2>2. \A k \in DOMAIN names :
          Binding!Pairs(Binding!OnWire(source, names[k]), v.fields[names[k]]) = P(names[k])
    BY <1>3, EntryOnWire, Zenon
  <2>3. [k \in DOMAIN names |->
            Binding!Pairs(Binding!OnWire(source, names[k]), v.fields[names[k]])] = s
    <3> HIDE DEF P
    <3> QED
      BY <2>2
  <2> QED
    BY <2>1, <2>3, Zenon
<1>5. ASSUME NEW m \in Binding!Sent(v)
      PROVE  /\ P(m) \in Seq(WirePairs)
             /\ Binding!Named(P(m), {n}) = IF m = n THEN P(m) ELSE <<>>
  <2>1. m \in WireNames /\ IsTexts(v.fields[m])
    BY DEF IsMap, WireNames
  <2>2. \A S : Binding!Named(P(m), S) = IF m \in S THEN P(m) ELSE <<>>
    BY <2>1, PairsAreNamed
  <2>3. m \in {n} <=> m = n
    OBVIOUS
  <2>4. P(m) \in Seq(WirePairs)
    BY <2>1, PairsAreNamed
  <2> HIDE DEF P
  <2> QED
    BY <2>2, <2>3, <2>4
<1>6. \A k \in DOMAIN s : s[k] = P(names[k]) /\ names[k] \in Binding!Sent(v) /\ k \in DOMAIN names
  <2> HIDE DEF P
  <2> QED
    BY <1>2
<1>7. IsSequence(s) /\ \A k \in DOMAIN s : s[k] \in Seq(WirePairs)
  <2>1. \A k \in DOMAIN s : s[k] \in Seq(WirePairs)
    BY <1>5, <1>6, Zenon
  <2>2. DOMAIN s = 1 .. Len(names)
    BY <1>2
  <2>3. Len(s) = Len(names)
    <3> HIDE DEF P
    <3> QED
      BY <1>2, <2>2
  <2> QED
    BY <1>2, <2>1, <2>2, <2>3 DEF IsSequence
<1>8. ASSUME NEW i, \A k \in DOMAIN names : names[k] = n => k = i
      PROVE  \A j \in DOMAIN s \ {i} : NoneAmong(s[j], {n})
  <2> TAKE j \in DOMAIN s \ {i}
  <2>1. names[j] # n /\ s[j] = P(names[j]) /\ names[j] \in Binding!Sent(v)
    BY <1>6, <1>8, Zenon
  <2>2. Binding!Named(s[j], {n}) = <<>>
    BY <1>5, <2>1, Zenon
  <2>3. Selects(WirePairs, s[j], {n})
    BY <1>7, NamedSelects
  <2> QED
    BY <2>2, <2>3, Zenon DEF Selects
<1> HIDE DEF s, P, F
<1>9. CASE n \in Binding!Sent(v)
  <2>1. PICK i \in DOMAIN names : names[i] = n
    BY <1>1, <1>9 DEF Lists
  <2>2. \A k \in DOMAIN names : names[k] = n => k = i
    BY <1>1, <2>1 DEF Lists
  <2>3. i \in DOMAIN s /\ s[i] = P(n)
    BY <2>1 DEF s
  <2>4. /\ Binding!FlattenSeq(s) \in Seq(WirePairs)
        /\ Binding!Named(Binding!FlattenSeq(s), {n}) = Binding!Named(s[i], {n})
    BY <1>7, <1>8, <2>2, <2>3, NamedOfParts
  <2> QED
    BY <1>4, <1>5, <1>9, <2>3, <2>4 DEF P, F
<1>10. CASE n \notin Binding!Sent(v)
  <2>1. \A k \in DOMAIN names : names[k] # n
    BY <1>2, <1>10
  <2>2. 0 \notin DOMAIN s
    BY <1>2 DEF s
  <2>3. /\ Binding!FlattenSeq(s) \in Seq(WirePairs)
        /\ Binding!Named(Binding!FlattenSeq(s), {n}) = <<>>
    BY <1>7, <1>8, <2>1, <2>2, NamedOfParts
  <2> QED
    BY <1>4, <1>10, <2>3 DEF F
<1> QED
  BY <1>9, <1>10

\* The sources of pairs, each with the source of its map.
Carrier(source, map) ==
  \/ source = "query" /\ map = "query_map"
  \/ source = "header" /\ map = "header_map"
  \/ source = "cookie" /\ map = "none"

\* What a parameter adds to the pairs of a source, and whether it does under a name.
Part(source, map, i) ==
  IF args[i] = Binding!Null THEN <<>>
  ELSE IF Own.params[i].source = source
    THEN Binding!Pairs(Binding!OnWire(source, Own.params[i].name), args[i])
  ELSE IF Own.params[i].source = map THEN Binding!MapPairs(source, args[i])
  ELSE <<>>
Sends(source, map, i, n) ==
  /\ args[i] # Binding!Null
  /\ \/ Own.params[i].source = source /\ Binding!OnWire(source, Own.params[i].name) = n
     \/ Own.params[i].source = map /\ n \in Binding!Sent(args[i])
NoOtherSends(source, map, i, n) ==
  \A j \in DOMAIN Own.params \ {i} : ~Sends(source, map, j, n)

\* A name on the wire is a known one.
LEMMA NamesOnWire ==
  ASSUME NEW source, NEW name \in ParameterNames
  PROVE  Binding!OnWire(source, name) \in WireNames
BY DEF ParameterNames, WireNames, Binding!OnWire, Binding!Lower

\* What is bound is a text or texts, and what is bound by a map is a map.
LEMMA BoundAreTexts ==
  ASSUME CallHypotheses, Declared, stage \in Served, SentAsCalled, NEW source, NEW map,
         Carrier(source, map), NEW i \in DOMAIN Own.params, args[i] # Binding!Null
  PROVE  /\ Own.params[i].source = source =>
              /\ IsTexts(args[i])
              /\ \/ Own.params[i].repeated /\ source = "query" /\ args[i] \in Binding!Lists
                 \/ ~(Own.params[i].repeated /\ source = "query") /\ Binding!IsScalar(args[i])
         /\ Own.params[i].source = map => args[i].json = "object" /\ IsMap(args[i])
         /\ source # map
<1> DEFINE p == Own.params[i]
           v == args[i]
<1>1. /\ p.kind \in Binding!Kinds /\ v \in Binding!ValuesOf(p.kind)
      /\ Binding!Encodable(Own, i, args, headers)
  BY OwnIsValid DEF SentAsCalled
<1>2. CASE p.source = source
  <2>1. CASE source = "query" /\ p.repeated
    <3>1. v.json = "list"
      BY <1>1, <1>2, <2>1 DEF Binding!Encodable
    <3>2. v \in Binding!Lists
      <4>1. p.kind \in {"text", "optional"} => v.json # "list"
        BY <1>1 DEF Binding!ValuesOf, Binding!Scalars, Binding!Text, Binding!Null
      <4>2. p.kind = "number" => v.json # "list"
        BY <1>1 DEF Binding!ValuesOf, Binding!Number
      <4>3. p.kind \in {"map", "listmap"} => v.json # "list"
        BY <1>1 DEF Binding!ValuesOf, Binding!Object
      <4>4. p.kind = "list"
        BY <1>1, <3>1, <4>1, <4>2, <4>3 DEF Binding!Kinds
      <4> QED
        BY <1>1, <4>4 DEF Binding!ValuesOf
    <3> QED
      BY <1>2, <2>1, <3>2, ListsAreTexts DEF Carrier
  <2>2. CASE ~(source = "query" /\ p.repeated)
    <3>1. Binding!IsScalar(v)
      BY <1>1, <1>2, <2>2 DEF Binding!Encodable, Carrier
    <3>2. IsTexts(v)
      BY <1>1, <3>1, ScalarsAreTexts
    <3> QED
      BY <1>2, <2>2, <3>1, <3>2 DEF Carrier
  <2> QED
    BY <2>1, <2>2
<1>3. CASE p.source = map
  <2>1. p.source \in {"query_map", "header_map"}
    <3>1. p.source \in Binding!Sources
      BY ParametersAreKnown
    <3> QED
      BY <1>3, <3>1 DEF Carrier, Binding!Sources
  <2>2. v.json = "object"
    BY <1>1, <2>1 DEF Binding!Encodable
  <2>3. IsMap(v)
    BY <1>1, <2>2, ObjectsAreMaps
  <2> QED
    BY <1>3, <2>2, <2>3 DEF Carrier
<1>4. source # map
  BY DEF Carrier
<1> QED
  BY <1>2, <1>3, <1>4

\* What a parameter adds under a name.
LEMMA PartIsNamed ==
  ASSUME CallHypotheses, Declared, stage \in Served, SentAsCalled, NEW source, NEW map,
         Carrier(source, map), NEW i \in DOMAIN Own.params, NEW n
  PROVE  /\ Part(source, map, i) \in Seq(WirePairs)
         /\ Binding!Named(Part(source, map, i), {n})
              = IF ~Sends(source, map, i, n) THEN <<>>
                ELSE IF Own.params[i].source = source THEN Binding!Pairs(n, args[i])
                ELSE Binding!Pairs(n, args[i].fields[n])
<1> DEFINE q == Part(source, map, i)
           name == Binding!OnWire(source, Own.params[i].name)
<1>1. CASE args[i] = Binding!Null \/ Own.params[i].source \notin {source, map}
  <2>1. q = <<>> /\ ~Sends(source, map, i, n)
    BY <1>1 DEF Part, Sends
  <2>2. <<>> \in Seq(WirePairs)
    OBVIOUS
  <2> QED
    BY <2>1, <2>2, NamedOfNone
<1>2. CASE args[i] # Binding!Null /\ Own.params[i].source = source
  <2>1. q = Binding!Pairs(name, args[i])
    BY <1>2, Zenon DEF Part
  <2>2. name \in WireNames /\ IsTexts(args[i]) /\ source # map
    BY <1>2, ParametersAreKnown, NamesOnWire, BoundAreTexts
  <2>3. Sends(source, map, i, n) <=> name = n
    BY <1>2, <2>2, Zenon DEF Sends
  <2>4. /\ Binding!Pairs(name, args[i]) \in Seq(WirePairs)
        /\ Binding!Named(Binding!Pairs(name, args[i]), {n})
             = IF name \in {n} THEN Binding!Pairs(name, args[i]) ELSE <<>>
    BY <2>2, PairsAreNamed
  <2> HIDE DEF q, name
  <2> QED
    BY <1>2, <2>1, <2>3, <2>4 DEF q
<1>3. CASE args[i] # Binding!Null /\ Own.params[i].source = map
  <2>1. IsMap(args[i]) /\ source # map
    BY <1>3, BoundAreTexts
  <2>2. q = Binding!MapPairs(source, args[i])
    BY <1>3, <2>1, Zenon DEF Part
  <2>3. Sends(source, map, i, n) <=> n \in Binding!Sent(args[i])
    BY <1>3, <2>1, Zenon DEF Sends
  <2>4. /\ Binding!MapPairs(source, args[i]) \in Seq(WirePairs)
        /\ Binding!Named(Binding!MapPairs(source, args[i]), {n})
             = IF n \in Binding!Sent(args[i]) THEN Binding!Pairs(n, args[i].fields[n]) ELSE <<>>
    BY <2>1, MapPairsAreNamed
  <2> HIDE DEF q
  <2> QED
    BY <1>3, <2>1, <2>2, <2>3, <2>4 DEF q
<1> QED
  BY <1>1, <1>2, <1>3

\* The parts are joined.
Parts(source, map) == [k \in DOMAIN Own.params |-> Part(source, map, k)]

LEMMA PartsAreJoined ==
  ASSUME CallHypotheses, Declared, stage \in Served, SentAsCalled, NEW source, NEW map,
         Carrier(source, map)
  PROVE  /\ Binding!Gather(Own, args, source, map) = Binding!FlattenSeq(Parts(source, map))
         /\ Binding!Gather(Own, args, source, map) \in Seq(WirePairs)
         /\ DOMAIN Parts(source, map) = DOMAIN Own.params /\ IsSequence(Parts(source, map))
         /\ \A k \in DOMAIN Own.params :
              /\ Parts(source, map)[k] = Part(source, map, k)
              /\ Parts(source, map)[k] \in Seq(WirePairs)
<1> DEFINE s == Parts(source, map)
<1>1. Binding!Gather(Own, args, source, map) = Binding!FlattenSeq(s)
  BY Zenon DEF Binding!Gather, Part, Parts
<1>2. \A k \in DOMAIN Own.params : Part(source, map, k) \in Seq(WirePairs)
  BY PartIsNamed
<1>3. Own.params \in Seq({Own.params[k] : k \in DOMAIN Own.params})
  BY OwnIsValid
<1>4. Len(Own.params) \in Nat /\ DOMAIN Own.params = 1 .. Len(Own.params)
  BY <1>3
<1>5. /\ DOMAIN s = DOMAIN Own.params
      /\ \A k \in DOMAIN Own.params : s[k] = Part(source, map, k)
  BY Zenon DEF Parts
<1>6. s = [k \in 1 .. Len(Own.params) |-> s[k]]
  BY <1>4, Zenon DEF Parts
<1> HIDE DEF s
<1>7. IsSequence(s) /\ \A k \in DOMAIN s : s[k] \in Seq(WirePairs)
  <2>1. Len(s) = Len(Own.params)
    BY <1>4, <1>6
  <2> QED
    BY <1>2, <1>4, <1>5, <2>1 DEF IsSequence
<1>8. Binding!FlattenSeq(s) \in Seq(WirePairs)
  <2>1. \A j \in DOMAIN s \ {0} : NoneAmong(s[j], {})
    BY DEF NoneAmong
  <2> QED
    BY <1>7, <2>1, NamedOfParts
<1> QED
  BY <1>1, <1>5, <1>7, <1>8 DEF s

\* What is gathered under a name that one parameter at most sends is what it sends.
LEMMA GatherIsNamed ==
  ASSUME CallHypotheses, Declared, stage \in Served, SentAsCalled, NEW source, NEW map,
         Carrier(source, map), NEW n, NEW i, NoOtherSends(source, map, i, n)
  PROVE  Binding!Named(Binding!Gather(Own, args, source, map), {n})
           = IF i \in DOMAIN Own.params THEN Binding!Named(Part(source, map, i), {n}) ELSE <<>>
<1> DEFINE s == Parts(source, map)
<1>1. /\ Binding!Gather(Own, args, source, map) = Binding!FlattenSeq(s)
      /\ DOMAIN s = DOMAIN Own.params /\ IsSequence(s)
      /\ \A k \in DOMAIN s : s[k] = Part(source, map, k) /\ s[k] \in Seq(WirePairs)
  BY PartsAreJoined
<1> HIDE DEF s
<1>2. \A j \in DOMAIN s \ {i} : NoneAmong(s[j], {n})
  <2> TAKE j \in DOMAIN s \ {i}
  <2>1. s[j] \in Seq(WirePairs) /\ Binding!Named(s[j], {n}) = <<>>
    BY <1>1, PartIsNamed DEF NoOtherSends
  <2>2. Selects(WirePairs, s[j], {n})
    BY <2>1, NamedSelects
  <2> QED
    BY <2>1, <2>2, Zenon DEF Selects
<1>3. Binding!Named(Binding!FlattenSeq(s), {n})
        = IF i \in DOMAIN s THEN Binding!Named(s[i], {n}) ELSE <<>>
  BY <1>1, <1>2, NamedOfParts
<1> QED
  BY <1>1, <1>3

\* The texts that were sent under a name are read again.
LEMMA TextsAreRead ==
  ASSUME NEW pairs, NEW n \in WireNames
  PROVE  /\ Binding!Named(pairs, {n}) = <<>> =>
              /\ Binding!ValuesNamed(pairs, n) = <<>>
              /\ Binding!Single(pairs, n) = {Binding!Null}
         /\ \A v : IsTexts(v) /\ Binding!Named(pairs, {n}) = Binding!Pairs(n, v) =>
              /\ Binding!ValuesNamed(pairs, n) = Binding!TextsOf(v)
              /\ Binding!TextsOf(v) = <<v.text>> =>
                   Binding!Single(pairs, n) = {Binding!Text(v.text)}
<1>1. ASSUME Binding!Named(pairs, {n}) = <<>>
      PROVE  /\ Binding!ValuesNamed(pairs, n) = <<>>
             /\ Binding!Single(pairs, n) = {Binding!Null}
  <2>1. Binding!ValuesNamed(pairs, n) = [k \in DOMAIN <<>> |-> <<>>[k][2]]
    BY <1>1, Zenon DEF Binding!ValuesNamed
  <2>2. [k \in DOMAIN <<>> |-> <<>>[k][2]] = <<>>
    OBVIOUS
  <2>3. Binding!ValuesNamed(pairs, n) = <<>>
    BY <2>1, <2>2, Zenon
  <2> QED
    BY <2>3, Zenon DEF Binding!Single
<1>2. ASSUME NEW v, IsTexts(v), Binding!Named(pairs, {n}) = Binding!Pairs(n, v)
      PROVE  /\ Binding!ValuesNamed(pairs, n) = Binding!TextsOf(v)
             /\ Binding!TextsOf(v) = <<v.text>> => Binding!Single(pairs, n) = {Binding!Text(v.text)}
  <2> DEFINE q == Binding!Pairs(n, v)
  <2>1. [k \in DOMAIN q |-> q[k][2]] = Binding!TextsOf(v)
    BY <1>2, PairsAreNamed
  <2>2. Binding!ValuesNamed(pairs, n) = [k \in DOMAIN q |-> q[k][2]]
    BY <1>2, Zenon DEF Binding!ValuesNamed
  <2>3. Binding!ValuesNamed(pairs, n) = Binding!TextsOf(v)
    BY <2>1, <2>2, Zenon
  <2>4. ASSUME Binding!TextsOf(v) = <<v.text>>
        PROVE  Binding!Single(pairs, n) = {Binding!Text(v.text)}
    <3>1. /\ <<v.text>> # <<>> /\ Len(<<v.text>>) = 1 /\ <<v.text>>[1] = v.text
      OBVIOUS
    <3>2. Binding!ValuesNamed(pairs, n) = <<v.text>>
      BY <2>3, <2>4, Zenon
    <3>3. Binding!Single(pairs, n) = IF <<v.text>> = <<>> THEN {Binding!Null}
            ELSE IF Len(<<v.text>>) = 1 THEN {Binding!Text(<<v.text>>[1])} ELSE {}
      BY <3>2, Zenon DEF Binding!Single
    <3> QED
      BY <3>1, <3>3, Zenon
  <2> QED
    BY <2>3, <2>4
<1> QED
  BY <1>1, <1>2

\* The value of a parameter alone on its source: nothing, or the text it was sent as.
IsReadAs(pairs, n, v) ==
  \/ v = Binding!Null /\ Binding!Single(pairs, n) = {Binding!Null}
  \/ Binding!IsScalar(v) /\ Binding!Single(pairs, n) = {Binding!Text(v.text)}

\* Such a parameter is decoded to what it was.
LEMMA ReadIsDecoded ==
  ASSUME Declared, stage \in Served, SentAsCalled, NEW i \in DOMAIN Own.params,
         Own.params[i].textEncoded, NEW segments, NEW pairs, NEW n,
         Binding!ArgumentOf(Own, i, request.http, segments) = Binding!Single(pairs, n),
         IsReadAs(pairs, n, args[i])
  PROVE  Binding!Decoded(Own, request.http, segments)[i] = {args[i]}
<1> DEFINE p == Own.params[i]
           v == args[i]
<1>1. p.kind \in Binding!Kinds /\ v \in Binding!ValuesOf(p.kind) /\ p.textEncoded = TRUE
  BY OwnIsValid DEF SentAsCalled
<1>2. CASE v = Binding!Null /\ Binding!Single(pairs, n) = {Binding!Null}
  <2>1. IsDecodedFrom(Own, i, request.http, segments, v)
    BY <1>2, DecodedFrom, Zenon
  <2>2. Binding!Fits(p.kind, v)
    BY <1>1, ValuesFit
  <2>3. Binding!DecodeArgument(p.kind, v, p.textEncoded) = {v}
    BY <2>2, FittingIsTaken
  <2> QED
    BY <2>1, <2>3, Zenon DEF IsDecodedFrom
<1>3. CASE Binding!IsScalar(v) /\ Binding!Single(pairs, n) = {Binding!Text(v.text)}
  <2>1. IsDecodedFrom(Own, i, request.http, segments, Binding!Text(v.text))
    BY <1>3, DecodedFrom, Zenon
  <2>2. Binding!DecodeArgument(p.kind, Binding!Text(v.text), TRUE) = {v}
    BY <1>1, <1>3, TextIsDecoded
  <2> QED
    BY <1>1, <2>1, <2>2, Zenon DEF IsDecodedFrom
<1> QED
  BY <1>2, <1>3, Zenon DEF IsReadAs

\* No two parameters, and no entry of a map, are sent under the name of a parameter.
LEMMA ParameterSendsAlone ==
  ASSUME CallHypotheses, Declared, stage \in Served, SentAsCalled, ~Binding!OneHeaderTwice(Own),
         NEW source, NEW map, Carrier(source, map),
         NEW i \in DOMAIN Own.params, Own.params[i].source = source
  PROVE  NoOtherSends(source, map, i, Binding!OnWire(source, Own.params[i].name))
<1> DEFINE n == Binding!OnWire(source, Own.params[i].name)
<1> SUFFICES ASSUME NEW j \in DOMAIN Own.params \ {i}, Sends(source, map, j, n) PROVE FALSE
  BY Zenon DEF NoOtherSends
<1>1. args[j] # Binding!Null
  BY Zenon DEF Sends
<1>2. CASE Own.params[j].source = source /\ Binding!OnWire(source, Own.params[j].name) = n
  <2>1. CASE source = "header"
    <3>1. Binding!Lower(Own.params[i].name) = Binding!Lower(Own.params[j].name)
      BY <1>2, <2>1, Zenon DEF Binding!OnWire
    <3>2. i \in Binding!WithSource(Own, "header") /\ j \in Binding!WithSource(Own, "header")
      BY <1>2, <2>1 DEF Binding!WithSource
    <3> QED
      BY <3>1, <3>2, Zenon DEF Binding!OneHeaderTwice
  <2>2. CASE source # "header"
    <3>1. Own.params[i].name = Own.params[j].name
      BY <1>2, <2>2, Zenon DEF Binding!OnWire
    <3>2. \A a, b \in DOMAIN Own.params : Own.params[a].name = Own.params[b].name => a = b
      BY OwnIsValid, Zenon DEF Binding!OperationIsValid
    <3> QED
      BY <3>1, <3>2
  <2> QED
    BY <2>1, <2>2
<1>3. CASE Own.params[j].source = map /\ n \in Binding!Sent(args[j])
  <2>1. args[j].json = "object" /\ Binding!Encodable(Own, j, args, headers)
    BY <1>1, <1>3, BoundAreTexts DEF SentAsCalled
  <2>2. CASE source = "query" /\ map = "query_map"
    <3>1. n \in Binding!NamesFrom(Own, "query")
      BY <2>2 DEF Binding!OnWire, Binding!NamesFrom, Binding!WithSource
    <3>2. Binding!Sent(args[j]) \cap Binding!NamesFrom(Own, "query") = {}
      BY <1>1, <1>3, <2>1, <2>2 DEF Binding!Encodable
    <3> QED
      BY <1>3, <3>1, <3>2
  <2>3. CASE source = "header" /\ map = "header_map"
    <3>1. n \in Binding!HeaderNames(Own)
      BY <2>3 DEF Binding!OnWire, Binding!HeaderNames, Binding!NamesFrom, Binding!WithSource
    <3>2. Binding!Sent(args[j]) \cap Binding!HeaderNames(Own) = {}
      BY <1>1, <1>3, <2>1, <2>3 DEF Binding!Encodable
    <3> QED
      BY <1>3, <3>1, <3>2
  <2>4. CASE source = "cookie" /\ map = "none"
    <3>1. Own.params[j].source \in Binding!Sources
      BY ParametersAreKnown
    <3> QED
      BY <1>3, <2>4, <3>1 DEF Binding!Sources
  <2> QED
    BY <2>2, <2>3, <2>4 DEF Carrier
<1> QED
  BY <1>2, <1>3, Zenon DEF Sends

\* What is gathered under the name of a parameter.
LEMMA ParameterIsGathered ==
  ASSUME CallHypotheses, Declared, stage \in Served, SentAsCalled, ~Binding!OneHeaderTwice(Own),
         NEW source, NEW map, Carrier(source, map),
         NEW i \in DOMAIN Own.params, Own.params[i].source = source
  PROVE  Binding!Named(Binding!Gather(Own, args, source, map),
                       {Binding!OnWire(source, Own.params[i].name)})
           = IF args[i] = Binding!Null THEN <<>>
             ELSE Binding!Pairs(Binding!OnWire(source, Own.params[i].name), args[i])
<1> DEFINE n == Binding!OnWire(source, Own.params[i].name)
           G == Binding!Gather(Own, args, source, map)
<1>1. NoOtherSends(source, map, i, n)
  BY ParameterSendsAlone
<1>2. Binding!Named(G, {n}) = Binding!Named(Part(source, map, i), {n})
  <2> HIDE DEF n
  <2>1. Binding!Named(G, {n})
          = IF i \in DOMAIN Own.params THEN Binding!Named(Part(source, map, i), {n}) ELSE <<>>
    BY <1>1, GatherIsNamed
  <2> QED
    BY <2>1
<1>3. Binding!Named(Part(source, map, i), {n})
        = IF ~Sends(source, map, i, n) THEN <<>> ELSE Binding!Pairs(n, args[i])
  BY PartIsNamed
<1>4. Sends(source, map, i, n) <=> args[i] # Binding!Null
  <2>1. args[i] # Binding!Null => Sends(source, map, i, n)
    BY Zenon DEF Sends
  <2>2. Sends(source, map, i, n) => args[i] # Binding!Null
    BY Zenon DEF Sends
  <2> QED
    BY <2>1, <2>2
<1> QED
  BY <1>2, <1>3, <1>4

\* It is read as what it was.
LEMMA GatheredIsRead ==
  ASSUME CallHypotheses, Declared, stage \in Served, SentAsCalled, NEW source, NEW map,
         Carrier(source, map), NEW i \in DOMAIN Own.params, Own.params[i].source = source,
         ~(Own.params[i].repeated /\ source = "query"), NEW n \in WireNames, NEW pairs,
         Binding!Named(pairs, {n})
           = IF args[i] = Binding!Null THEN <<>> ELSE Binding!Pairs(n, args[i])
  PROVE  IsReadAs(pairs, n, args[i])
<1>1. CASE args[i] = Binding!Null
  <2>1. Binding!Named(pairs, {n}) = <<>>
    BY <1>1
  <2> QED
    BY <1>1, <2>1, TextsAreRead DEF IsReadAs
<1>2. CASE args[i] # Binding!Null
  <2>1. Binding!IsScalar(args[i])
    BY <1>2, BoundAreTexts
  <2>2. /\ Own.params[i].kind \in Binding!Kinds
        /\ args[i] \in Binding!ValuesOf(Own.params[i].kind)
    BY OwnIsValid DEF SentAsCalled
  <2>3. Binding!TextsOf(args[i]) = <<args[i].text>> /\ IsTexts(args[i])
    BY <2>1, <2>2, ScalarsAreTexts
  <2>4. Binding!Named(pairs, {n}) = Binding!Pairs(n, args[i])
    BY <1>2
  <2>5. Binding!Single(pairs, n) = {Binding!Text(args[i].text)}
    BY <2>3, <2>4, TextsAreRead
  <2> QED
    BY <2>1, <2>5 DEF IsReadAs
<1> QED
  BY <1>1, <1>2

\* The headers an application gave, as they are listed.
LEMMA CallHeadersAreNamed ==
  ASSUME SentAsCalled, NEW n
  PROVE  LET s == Binding!SetToSeq(Binding!CallHeaders(headers)) IN
         /\ s \in Seq(WirePairs)
         /\ Binding!Named(s, {n})
              = IF n \in headers \ {"cookie"} THEN Binding!Pairs(n, Binding!Text("a")) ELSE <<>>
<1> DEFINE S == Binding!CallHeaders(headers)
           s == Binding!SetToSeq(S)
<1>1. headers \in {{}, {"p"}, {"x"}, {"accept"}, {"cookie"}}
  BY DEF SentAsCalled, SomeHeaders
<1>2. \A m \in headers : m \in WireNames
  BY <1>1 DEF WireNames, ParameterNames, EntryNames
<1>3. S = {<<m, "a">> : m \in headers \ {"cookie"}}
  BY Zenon DEF Binding!CallHeaders
<1>4. IsFiniteSet(S) /\ S \subseteq WirePairs
  <2>1. S \subseteq WirePairs
    <3>1. "a" \in WireTexts
      BY DEF WireTexts
    <3> QED
      BY <1>2, <1>3, <3>1 DEF WirePairs
  <2>2. S = {} \/ \E m : S = {m}
    <3>1. headers \ {"cookie"} = {} \/ \E m : headers \ {"cookie"} = {m}
      BY <1>1
    <3> QED
      BY <1>3, <3>1
  <2> QED
    BY <2>1, <2>2, FS_Singleton, FS_EmptySet
<1>5. Lists(s, S)
  BY <1>4, SetIsListed
<1> HIDE DEF s
<1>6. /\ s \in Seq(WirePairs)
      /\ \A k \in DOMAIN s : s[k] \in S
      /\ \A x \in S : \E k \in DOMAIN s : s[k] = x
      /\ \A j, k \in DOMAIN s : s[j] = s[k] => j = k
  <2>1. s \in Seq(S)
    BY <1>5 DEF Lists
  <2> HIDE DEF S
  <2>2. \A k \in DOMAIN s : s[k] \in S
    BY <2>1
  <2>3. s \in Seq(WirePairs)
    BY <1>4, <2>1
  <2> QED
    BY <1>5, <2>2, <2>3 DEF Lists
<1>7. \A x \in S : x[2] = "a" /\ x = <<x[1], "a">> /\ x[1] \in headers \ {"cookie"}
  BY <1>3
<1>8. CASE n \in headers \ {"cookie"}
  <2>1. <<n, "a">> \in S
    BY <1>3, <1>8
  <2>2. PICK k \in DOMAIN s : s[k] = <<n, "a">>
    BY <1>6, <2>1
  <2>3. s[k][1] \in {n}
    BY <2>2
  <2>4. \A j \in DOMAIN s \ {k} : s[j][1] \notin {n}
    <3> TAKE j \in DOMAIN s \ {k}
    <3>1. s[j] \in S /\ s[j] # s[k]
      BY <1>6
    <3>2. s[j] = <<s[j][1], "a">>
      BY <1>7, <3>1
    <3> HIDE DEF S
    <3> QED
      BY <2>2, <3>1, <3>2
  <2>5. Binding!Named(s, {n}) = <<s[k]>>
    BY <1>6, <2>3, <2>4, OnceNamed
  <2>6. Binding!Pairs(n, Binding!Text("a")) = <<<<n, "a">>>>
    <3>1. Binding!TextsOf(Binding!Text("a")) = <<"a">>
      BY DEF Binding!TextsOf, Binding!Text
    <3>2. Binding!Pairs(n, Binding!Text("a")) = [l \in DOMAIN <<"a">> |-> <<n, <<"a">>[l]>>]
      BY <3>1, Zenon DEF Binding!Pairs
    <3> QED
      BY <3>2
  <2> QED
    BY <1>6, <1>8, <2>2, <2>5, <2>6 DEF s
<1>9. CASE n \notin headers \ {"cookie"}
  <2>1. \A j \in DOMAIN s : s[j][1] \notin {n}
    <3> TAKE j \in DOMAIN s
    <3>1. s[j] \in S
      BY <1>6
    <3>2. s[j][1] \in headers \ {"cookie"}
      BY <1>7, <3>1
    <3> HIDE DEF S
    <3> QED
      BY <1>9, <3>2
  <2>2. Binding!Named(s, {n}) = <<>>
    BY <1>6, <2>1, NeverNamed
  <2> QED
    BY <1>6, <1>9, <2>2 DEF s
<1> QED
  BY <1>8, <1>9

\* The names of a sequence of pairs are those under which something is selected.
LEMMA NamesAreNamed ==
  ASSUME NEW pairs \in Seq(WirePairs), NEW n
  PROVE  n \in Binding!Names(pairs) <=> Binding!Named(pairs, {n}) # <<>>
<1>1. Selects(WirePairs, pairs, {n})
  BY NamedSelects
<1>2. Binding!Named(pairs, {n}) = <<>> <=> NoneAmong(pairs, {n})
  BY <1>1, Zenon DEF Selects
<1>3. NoneAmong(pairs, {n}) <=> n \notin Binding!Names(pairs)
  <2>1. n \in Binding!Names(pairs) <=> \E k \in DOMAIN pairs : pairs[k][1] = n
    BY DEF Binding!Names
  <2>2. NoneAmong(pairs, {n}) <=> ~\E k \in DOMAIN pairs : pairs[k][1] = n
    BY DEF NoneAmong
  <2> QED
    BY <2>1, <2>2
<1> QED
  BY <1>2, <1>3

\* The headers a server takes arguments from: those of the application and those bound.
LEMMA ApplicationHeadersAreNamed ==
  ASSUME CallHypotheses, Declared, stage \in Served, SentAsCalled, NEW n
  PROVE  /\ Binding!ApplicationHeaders(request.http.headers) \in Seq(WirePairs)
         /\ Binding!Named(Binding!ApplicationHeaders(request.http.headers), {n})
              = IF n \in Binding!RuntimeOwned THEN <<>>
                ELSE Binding!Named(Binding!SetToSeq(Binding!CallHeaders(headers)), {n})
                       \o Binding!Named(Binding!Gather(Own, args, "header", "header_map"), {n})
<1> DEFINE fixed == <<<<"host", "h">>, <<"accept", "json">>>>
           s == Binding!SetToSeq(Binding!CallHeaders(headers))
           g == Binding!Gather(Own, args, "header", "header_map")
           H == request.http.headers
           names == Binding!Names(H) \ Binding!RuntimeOwned
           A == Binding!ApplicationHeaders(H)
           Sel(q) == Binding!Named(q, {n})
<1>1. H = (fixed \o s) \o g
  BY SentParts
<1>2. fixed \in Seq(WirePairs)
  <2>1. <<"host", "h">> \in WirePairs /\ <<"accept", "json">> \in WirePairs
    BY DEF WirePairs, WireNames, ParameterNames, EntryNames, WireTexts
  <2> QED
    BY <2>1
<1>3. s \in Seq(WirePairs)
  BY CallHeadersAreNamed, Zenon
<1>4. g \in Seq(WirePairs)
  <2>1. Carrier("header", "header_map")
    BY DEF Carrier
  <2> QED
    BY <2>1, PartsAreJoined
<1>5. n \notin Binding!RuntimeOwned => Sel(fixed) = <<>>
  <2> HAVE n \notin Binding!RuntimeOwned
  <2>1. n # "host" /\ n # "accept"
    BY DEF Binding!RuntimeOwned
  <2>2. DOMAIN fixed = {1, 2} /\ fixed[1][1] = "host" /\ fixed[2][1] = "accept"
    OBVIOUS
  <2> HIDE DEF fixed
  <2>3. \A j \in DOMAIN fixed : fixed[j][1] \notin {n}
    BY <2>1, <2>2
  <2> QED
    BY <1>2, <2>3, NeverNamed
<1> HIDE DEF fixed, s, g, H
<1>6. fixed \o s \in Seq(WirePairs) /\ H \in Seq(WirePairs)
  BY <1>1, <1>2, <1>3, <1>4
<1>7. n \notin Binding!RuntimeOwned => Sel(H) = Sel(s) \o Sel(g)
  <2> HAVE n \notin Binding!RuntimeOwned
  <2>1. Sel(H) = Sel(fixed \o s) \o Sel(g)
    <3>1. Selects(WirePairs, g, {n})
      BY <1>4, NamedSelects
    <3> QED
      BY <1>1, <1>6, <3>1, Zenon DEF Selects
  <2>2. Sel(fixed \o s) = Sel(fixed) \o Sel(s)
    <3>1. Selects(WirePairs, s, {n})
      BY <1>3, NamedSelects
    <3> QED
      BY <1>2, <3>1, Zenon DEF Selects
  <2>3. Sel(s) \in Seq(WirePairs)
    BY <1>3, NamedIsTyped
  <2> HIDE DEF Sel
  <2>4. <<>> \o Sel(s) = Sel(s)
    BY <2>3
  <2> QED
    BY <1>5, <2>1, <2>2, <2>4
<1>8. A = Binding!Named(H, names)
  BY Zenon DEF Binding!ApplicationHeaders
<1>9. A \in Seq(WirePairs)
  BY <1>6, <1>8, NamedIsTyped
<1>10. Sel(A) = Binding!Named(H, names \cap {n})
  <2>1. Selects(WirePairs, H, names)
    BY <1>6, NamedSelects
  <2> QED
    BY <1>8, <2>1, Zenon DEF Selects
<1>11. Binding!Named(H, {}) = <<>>
  <2>1. \A j \in DOMAIN H : H[j][1] \notin {}
    OBVIOUS
  <2> QED
    BY <1>6, <2>1, NeverNamed
<1>12. CASE n \in Binding!RuntimeOwned
  <2>1. names \cap {n} = {}
    BY <1>12
  <2> QED
    BY <1>9, <1>10, <1>11, <1>12, <2>1 DEF H
<1>13. CASE n \notin Binding!RuntimeOwned
  <2>1. Sel(A) = Sel(H)
    <3>1. CASE n \in Binding!Names(H)
      <4>1. names \cap {n} = {n}
        BY <1>13, <3>1
      <4> QED
        BY <1>10, <4>1
    <3>2. CASE n \notin Binding!Names(H)
      <4>1. names \cap {n} = {}
        BY <3>2
      <4>2. Sel(H) = <<>>
        BY <1>6, <3>2, NamesAreNamed
      <4> QED
        BY <1>10, <1>11, <4>1, <4>2
    <3> QED
      BY <3>1, <3>2
  <2> QED
    BY <1>7, <1>9, <1>13, <2>1 DEF H, s, g
<1> QED
  BY <1>12, <1>13

\* An argument in the query is decoded to what it was.
LEMMA QueryArgument ==
  ASSUME CallHypotheses, Declared, stage \in Served, SentAsCalled, ~Binding!OneHeaderTwice(Own),
         NEW i \in DOMAIN Own.params, Own.params[i].source = "query", NEW segments
  PROVE  Binding!Decoded(Own, request.http, segments)[i] = {args[i]}
<1> DEFINE p == Own.params[i]
           n == p.name
           q == request.http.query
<1>1. Carrier("query", "query_map") /\ Binding!OnWire("query", n) = n /\ n \in WireNames
  BY ParametersAreKnown DEF Carrier, Binding!OnWire, WireNames
<1>2. q = Binding!Gather(Own, args, "query", "query_map")
  BY SentParts
<1>3. Binding!Named(q, {n})
        = IF args[i] = Binding!Null THEN <<>> ELSE Binding!Pairs(n, args[i])
  BY <1>1, <1>2, ParameterIsGathered
<1>4. p.textEncoded
  BY OwnIsValid
<1>5. CASE ~p.repeated
  <2>1. IsReadAs(q, n, args[i])
    <3> HIDE DEF q, n
    <3> QED
      BY <1>1, <1>3, <1>5, GatheredIsRead
  <2>2. Binding!ArgumentOf(Own, i, request.http, segments) = Binding!Single(q, n)
    BY <1>5 DEF Binding!ArgumentOf
  <2> QED
    BY <1>4, <2>1, <2>2, ReadIsDecoded
<1>6. CASE p.repeated
  <2>1. args[i].json = "list"
    BY <1>6, OwnIsValid DEF SentAsCalled, Binding!Encodable
  <2>2. args[i] # Binding!Null
    BY <2>1 DEF Binding!Null
  <2>3. args[i] \in Binding!Lists
    <3>1. \/ args[i] \in Binding!Lists
          \/ ~(p.repeated /\ "query" = "query") /\ Binding!IsScalar(args[i])
      BY <1>1, <2>2, BoundAreTexts
    <3> QED
      BY <1>6, <3>1
  <2> DEFINE t == Binding!TextsOf(args[i])
  <2>4. IsTexts(args[i]) /\ args[i] = Binding!List([k \in DOMAIN t |-> Binding!Text(t[k])])
    BY <2>3, ListsAreTexts
  <2>5. Binding!Named(q, {n}) = Binding!Pairs(n, args[i])
    BY <1>3, <2>2
  <2>6. Binding!ValuesNamed(q, n) = t
    <3> HIDE DEF q, n
    <3> QED
      BY <1>1, <2>4, <2>5, TextsAreRead
  <2>7. Binding!ArgumentOf(Own, i, request.http, segments)
          = {Binding!List([k \in DOMAIN Binding!ValuesNamed(q, n) |->
                             Binding!Text(Binding!ValuesNamed(q, n)[k])])}
    BY <1>6 DEF Binding!ArgumentOf
  <2>8. Binding!ArgumentOf(Own, i, request.http, segments) = {args[i]}
    <3> HIDE DEF t, q, n
    <3> QED
      BY <2>4, <2>6, <2>7
  <2>9. IsDecodedFrom(Own, i, request.http, segments, args[i])
    BY <2>8, DecodedFrom, Zenon
  <2>10. Binding!Fits(p.kind, args[i])
    BY OwnIsValid, ValuesFit DEF SentAsCalled
  <2>11. Binding!DecodeArgument(p.kind, args[i], p.textEncoded) = {args[i]}
    BY <2>10, FittingIsTaken
  <2> QED
    BY <2>9, <2>11, Zenon DEF IsDecodedFrom
<1> QED
  BY <1>5, <1>6

\* So is one in a cookie, of which there is none among the headers of the call.
LEMMA CookieArgument ==
  ASSUME CallHypotheses, Declared, stage \in Served, SentAsCalled, ~Binding!OneHeaderTwice(Own),
         NEW i \in DOMAIN Own.params, Own.params[i].source = "cookie", NEW segments
  PROVE  Binding!Decoded(Own, request.http, segments)[i] = {args[i]}
<1> DEFINE p == Own.params[i]
           n == p.name
           q == request.http.cookies
           g == Binding!Gather(Own, args, "cookie", "none")
<1>1. Carrier("cookie", "none") /\ Binding!OnWire("cookie", n) = n /\ n \in WireNames
  BY ParametersAreKnown DEF Carrier, Binding!OnWire, WireNames
<1>2. q = g
  <2>1. i \in Binding!WithSource(Own, "cookie")
    BY DEF Binding!WithSource
  <2>2. "cookie" \notin headers
    BY <2>1 DEF SentAsCalled, Binding!HeadersAreFree
  <2>3. q = <<>> \o g
    BY <2>2, SentParts DEF Binding!CallCookies
  <2>4. g \in Seq(WirePairs)
    BY <1>1, PartsAreJoined
  <2> HIDE DEF g, q
  <2> QED
    BY <2>3, <2>4
<1>3. Binding!Named(q, {n})
        = IF args[i] = Binding!Null THEN <<>> ELSE Binding!Pairs(n, args[i])
  BY <1>1, <1>2, ParameterIsGathered
<1>4. p.textEncoded
  BY OwnIsValid
<1>5. IsReadAs(q, n, args[i])
  <2> HIDE DEF q, n
  <2> QED
    BY <1>1, <1>3, GatheredIsRead
<1>6. Binding!ArgumentOf(Own, i, request.http, segments) = Binding!Single(q, n)
  BY DEF Binding!ArgumentOf
<1> QED
  BY <1>4, <1>5, <1>6, ReadIsDecoded

\* And one in a header, which the application cannot give and no other parameter has.
LEMMA HeaderArgument ==
  ASSUME CallHypotheses, Declared, stage \in Served, SentAsCalled, ~Binding!OneHeaderTwice(Own),
         NEW i \in DOMAIN Own.params, Own.params[i].source = "header", NEW segments
  PROVE  Binding!Decoded(Own, request.http, segments)[i] = {args[i]}
<1> DEFINE p == Own.params[i]
           n == Binding!Lower(p.name)
           q == Binding!ApplicationHeaders(request.http.headers)
           s == Binding!SetToSeq(Binding!CallHeaders(headers))
           g == Binding!Gather(Own, args, "header", "header_map")
<1>1. Carrier("header", "header_map") /\ Binding!OnWire("header", p.name) = n /\ n \in WireNames
  BY ParametersAreKnown, NamesOnWire DEF Carrier, Binding!OnWire
<1>2. Binding!Named(g, {n})
        = IF args[i] = Binding!Null THEN <<>> ELSE Binding!Pairs(n, args[i])
  BY <1>1, ParameterIsGathered
<1>3. Binding!Named(s, {n}) = <<>>
  <2>1. n \in Binding!HeaderNames(Own)
    BY DEF Binding!HeaderNames, Binding!NamesFrom, Binding!WithSource
  <2>2. n \notin headers \ {"cookie"}
    BY <2>1 DEF SentAsCalled, Binding!HeadersAreFree
  <2>3. Binding!Named(s, {n})
          = IF n \in headers \ {"cookie"} THEN Binding!Pairs(n, Binding!Text("a")) ELSE <<>>
    BY CallHeadersAreNamed, Zenon
  <2> QED
    BY <2>2, <2>3, Zenon
<1>4. Binding!Named(q, {n})
        = IF n \in Binding!RuntimeOwned THEN <<>>
          ELSE Binding!Named(s, {n}) \o Binding!Named(g, {n})
  BY ApplicationHeadersAreNamed
<1>5. n \in Binding!RuntimeOwned => args[i] = Binding!Null
  BY DEF SentAsCalled, Binding!Encodable, Binding!BoundOnce
<1>6. Binding!Named(g, {n}) \in Seq(WirePairs)
  <2>1. g \in Seq(WirePairs)
    BY <1>1, PartsAreJoined
  <2> QED
    BY <2>1, NamedIsTyped
<1>7. Binding!Named(q, {n})
        = IF args[i] = Binding!Null THEN <<>> ELSE Binding!Pairs(n, args[i])
  <2>1. <<>> \o Binding!Named(g, {n}) = Binding!Named(g, {n})
    <3> DEFINE w == Binding!Named(g, {n})
    <3> HIDE DEF w
    <3> QED
      BY <1>6 DEF w
  <2> HIDE DEF q, n, s, g
  <2> QED
    BY <1>2, <1>3, <1>4, <1>5, <2>1
<1>8. p.textEncoded
  BY OwnIsValid
<1>9. IsReadAs(q, n, args[i])
  <2> HIDE DEF q, n
  <2> QED
    BY <1>1, <1>7, GatheredIsRead
<1>10. Binding!ArgumentOf(Own, i, request.http, segments) = Binding!Single(q, n)
  BY DEF Binding!ArgumentOf
<1> QED
  BY <1>8, <1>9, <1>10, ReadIsDecoded

\* A value that is read from a map as it was sent: one text, or several.
IsEntry(v) ==
  /\ IsTexts(v) /\ Binding!TextsOf(v) # <<>>
  /\ Binding!Collected(Binding!TextsOf(v)) = v

LEMMA EntriesAreCollected ==
  /\ IsEntry(Binding!Text("a"))
  /\ \A v \in Binding!Lists : v # Binding!List(<<>>) /\ Len(v.items) # 1 => IsEntry(v)
<1>1. IsEntry(Binding!Text("a"))
  <2>1. Binding!TextsOf(Binding!Text("a")) = <<"a">>
    BY DEF Binding!TextsOf, Binding!Text
  <2>2. <<"a">> # <<>> /\ Len(<<"a">>) = 1 /\ <<"a">>[1] = "a" /\ <<"a">> \in Seq(WireTexts)
    BY DEF WireTexts
  <2>3. Binding!Collected(<<"a">>) = Binding!Text(<<"a">>[1])
    BY <2>2, Zenon DEF Binding!Collected
  <2> QED
    BY <2>1, <2>2, <2>3, Zenon DEF IsEntry, IsTexts
<1>2. ASSUME NEW v \in Binding!Lists, v # Binding!List(<<>>), Len(v.items) # 1
      PROVE  IsEntry(v)
  <2> DEFINE t == Binding!TextsOf(v)
  <2>1. /\ IsTexts(v) /\ t # <<>> /\ Len(t) # 1
        /\ v = Binding!List([k \in DOMAIN t |-> Binding!Text(t[k])])
    BY <1>2, ListsAreTexts
  <2>2. Binding!Collected(t) = Binding!List([k \in DOMAIN t |-> Binding!Text(t[k])])
    <3> HIDE DEF t
    <3> QED
      BY <2>1, Zenon DEF Binding!Collected
  <2> QED
    BY <2>1, <2>2, Zenon DEF IsEntry
<1> QED
  BY <1>1, <1>2

\* Under every name but the explicit ones, the entry of that name or nothing is sent.
IsWritten(pairs, explicit, names, e) ==
  /\ names \subseteq WireNames /\ names \cap explicit = {}
  /\ \A n \in names : IsEntry(e[n]) /\ Binding!Named(pairs, {n}) = Binding!Pairs(n, e[n])
  /\ \A n : n \notin names \cup explicit => Binding!Named(pairs, {n}) = <<>>

\* Such a map is read as it was sent.
LEMMA MapIsRead ==
  ASSUME NEW pairs \in Seq(WirePairs), NEW explicit, NEW names, NEW e,
         IsWritten(pairs, explicit, names, e)
  PROVE  Binding!MapOf(pairs, explicit) = Binding!Object([n \in names |-> e[n]])
<1> DEFINE D == Binding!Names(pairs) \ explicit
           C(n) == Binding!Collected(Binding!ValuesNamed(pairs, n))
<1>1. \A n \in names :
        /\ n \in WireNames /\ IsEntry(e[n]) /\ n \notin explicit
        /\ Binding!Named(pairs, {n}) = Binding!Pairs(n, e[n])
  BY DEF IsWritten
<1>2. D = names
  <2>1. ASSUME NEW n \in names PROVE n \in D
    <3>1. Binding!Pairs(n, e[n]) # <<>>
      BY <1>1, PairsAreNamed DEF IsEntry
    <3> QED
      BY <1>1, <3>1, NamesAreNamed
  <2>2. ASSUME NEW n \in D PROVE n \in names
    <3>1. Binding!Named(pairs, {n}) # <<>> /\ n \notin explicit
      BY <2>2, NamesAreNamed
    <3> QED
      BY <3>1 DEF IsWritten
  <2> QED
    BY <2>1, <2>2
<1>3. \A n \in names : C(n) = e[n]
  <2> TAKE n \in names
  <2>1. IsTexts(e[n]) /\ Binding!Collected(Binding!TextsOf(e[n])) = e[n]
    BY <1>1 DEF IsEntry
  <2>2. Binding!ValuesNamed(pairs, n) = Binding!TextsOf(e[n])
    BY <1>1, <2>1, TextsAreRead
  <2> QED
    BY <2>1, <2>2, Zenon
<1>4. Binding!MapOf(pairs, explicit) = Binding!Object([n \in D |-> C(n)])
  BY Zenon DEF Binding!MapOf
<1> HIDE DEF C, D
<1>5. [n \in D |-> C(n)] = [n \in names |-> e[n]]
  BY <1>2, <1>3
<1> QED
  BY <1>4, <1>5, Zenon

\* A call that is none of the exceptions.
LEMMA CarriedAsIs ==
  ASSUME ~Binding!Exceptional
  PROVE  /\ ~Binding!OneHeaderTwice(Own)
         /\ Len(request.http.query) > MaxQueryPairs => FALSE
         /\ request.controls # {} => served.controls /\ served.group = "g"
         /\ \A i \in DOMAIN Own.params :
              /\ Own.params[i].source = "header_map" /\ Own.params[i].kind = "listmap"
                   => headers = {}
              /\ Own.params[i].source \in {"query_map", "header_map"} =>
                   /\ args[i] # Binding!Null
                   /\ \A n \in Binding!Sent(args[i]) :
                        args[i].fields[n].json = "list" => Len(args[i].fields[n].items) # 1
<1>1. /\ ~Binding!OneHeaderTwice(Own)
      /\ ~(Len(request.http.query) > MaxQueryPairs)
      /\ ~(headers # {} /\ \E i \in Binding!WithSource(Own, "header_map") :
                             Own.params[i].kind = "listmap")
      /\ ~(request.controls # {} /\ (~served.controls \/ served.group # "g"))
      /\ ~\E i \in Binding!WithSource(Own, "query_map") \cup Binding!WithSource(Own, "header_map") :
            \/ args[i] = Binding!Null
            \/ \E n \in Binding!Sent(args[i]) :
                 args[i].fields[n].json = "list" /\ Len(args[i].fields[n].items) = 1
  BY Zenon DEF Binding!Exceptional, Own
<1>2. ASSUME NEW i \in DOMAIN Own.params
      PROVE  /\ Own.params[i].source = "query_map" => i \in Binding!WithSource(Own, "query_map")
             /\ Own.params[i].source = "header_map" => i \in Binding!WithSource(Own, "header_map")
  BY DEF Binding!WithSource
<1>3. request.controls # {} => served.controls /\ served.group = "g"
  BY <1>1, Zenon
<1>4. ASSUME NEW i \in DOMAIN Own.params
      PROVE  /\ Own.params[i].source = "header_map" /\ Own.params[i].kind = "listmap"
                  => headers = {}
             /\ Own.params[i].source \in {"query_map", "header_map"} =>
                  /\ args[i] # Binding!Null
                  /\ \A n \in Binding!Sent(args[i]) :
                       args[i].fields[n].json = "list" => Len(args[i].fields[n].items) # 1
  BY <1>1, <1>2
<1> QED
  BY <1>1, <1>3, <1>4, Zenon

\* The one map of a source sends entries that are read as they are, alone under their names.
LEMMA MapSendsAlone ==
  ASSUME CallHypotheses, Declared, stage \in Served, SentAsCalled, ~Binding!Exceptional,
         NEW source, NEW map, Carrier(source, map), source # "cookie",
         NEW i \in DOMAIN Own.params, Own.params[i].source = map
  PROVE  /\ args[i].json = "object" /\ IsMap(args[i])
         /\ \A n \in Binding!Sent(args[i]) : IsEntry(args[i].fields[n])
         /\ \A n : (\A j \in Binding!WithSource(Own, source) :
                      Binding!OnWire(source, Own.params[j].name) # n) =>
              Binding!Named(Binding!Gather(Own, args, source, map), {n})
                = IF n \in Binding!Sent(args[i]) THEN Binding!Pairs(n, args[i].fields[n]) ELSE <<>>
<1>1. /\ args[i] # Binding!Null
      /\ \A n \in Binding!Sent(args[i]) :
           args[i].fields[n].json = "list" => Len(args[i].fields[n].items) # 1
  <2>1. Own.params[i].source \in {"query_map", "header_map"}
    BY DEF Carrier
  <2> QED
    BY <2>1, CarriedAsIs
<1>2. args[i].json = "object" /\ IsMap(args[i]) /\ source # map
  BY <1>1, BoundAreTexts
<1>3. ASSUME NEW n \in Binding!Sent(args[i]) PROVE IsEntry(args[i].fields[n])
  <2> DEFINE v == args[i].fields[n]
  <2>1. v = Binding!Text("a") \/ v \in Binding!Lists
    BY <1>2 DEF IsMap
  <2>2. CASE v \in Binding!Lists
    <3>1. v.json = "list" /\ Len(v.items) # 1
      BY <1>1, <2>2, ListsAreTexts
    <3>2. v # Binding!List(<<>>)
      BY Zenon DEF Binding!Sent, Binding!Omitted
    <3> QED
      BY <2>2, <3>1, <3>2, EntriesAreCollected
  <2>3. CASE v = Binding!Text("a")
    BY <2>3, EntriesAreCollected, Zenon
  <2> QED
    BY <2>1, <2>2, <2>3, Zenon
<1>4. ASSUME NEW n, \A j \in Binding!WithSource(Own, source) :
                      Binding!OnWire(source, Own.params[j].name) # n
      PROVE  Binding!Named(Binding!Gather(Own, args, source, map), {n})
               = IF n \in Binding!Sent(args[i]) THEN Binding!Pairs(n, args[i].fields[n]) ELSE <<>>
  <2>1. NoOtherSends(source, map, i, n)
    <3> SUFFICES ASSUME NEW j \in DOMAIN Own.params \ {i}, Sends(source, map, j, n) PROVE FALSE
      BY Zenon DEF NoOtherSends
    <3>1. Own.params[j].source = source => Binding!OnWire(source, Own.params[j].name) # n
      BY <1>4 DEF Binding!WithSource
    <3>2. Own.params[j].source # map
      <4>1. i \in Binding!WithSource(Own, map)
        BY DEF Binding!WithSource
      <4>2. Binding!AtMostOne(Binding!WithSource(Own, map))
        <5>1. /\ Binding!AtMostOne(Binding!WithSource(Own, "query_map"))
              /\ Binding!AtMostOne(Binding!WithSource(Own, "header_map"))
          BY OwnIsValid, Zenon DEF Binding!OperationIsValid
        <5> QED
          BY <5>1, Zenon DEF Carrier
      <4>3. Own.params[j].source = map => j \in Binding!WithSource(Own, map)
        BY DEF Binding!WithSource
      <4> QED
        BY <4>1, <4>2, <4>3 DEF Binding!AtMostOne
    <3> QED
      BY <3>1, <3>2, Zenon DEF Sends
  <2>2. Binding!Named(Binding!Gather(Own, args, source, map), {n})
          = Binding!Named(Part(source, map, i), {n})
    BY <2>1, GatherIsNamed
  <2>3. Binding!Named(Part(source, map, i), {n})
          = IF ~Sends(source, map, i, n) THEN <<>> ELSE Binding!Pairs(n, args[i].fields[n])
    BY <1>2, PartIsNamed
  <2>4. Sends(source, map, i, n) <=> n \in Binding!Sent(args[i])
    <3>1. Sends(source, map, i, n) => n \in Binding!Sent(args[i])
      BY <1>2, Zenon DEF Sends
    <3>2. n \in Binding!Sent(args[i]) => Sends(source, map, i, n)
      BY <1>1, Zenon DEF Sends
    <3> QED
      BY <3>1, <3>2
  <2> QED
    BY <2>2, <2>3, <2>4
<1> QED
  BY <1>2, <1>3, <1>4

\* An object of texts, or of lists, is taken as it is.
LEMMA ObjectFits ==
  ASSUME NEW kind, NEW names, NEW e,
         \/ kind = "map" /\ \A n \in names : e[n] = Binding!Text("a")
         \/ kind = "listmap" /\ \A n \in names : e[n] \in Binding!Lists
  PROVE  Binding!Fits(kind, Binding!Object([n \in names |-> e[n]]))
<1> DEFINE v == Binding!Object([n \in names |-> e[n]])
<1>1. v.json = "object" /\ DOMAIN v.fields = names /\ \A n \in names : v.fields[n] = e[n]
  BY DEF Binding!Object
<1>2. Binding!Text("a").json = "text"
  BY DEF Binding!Text
<1>3. \A l \in Binding!Lists : l.json = "list"
  BY ListsAreTexts
<1> HIDE DEF v
<1>4. CASE kind = "map" /\ \A n \in names : e[n] = Binding!Text("a")
  <2>1. \A n \in DOMAIN v.fields : v.fields[n].json = "text"
    BY <1>1, <1>2, <1>4
  <2> QED
    BY <1>1, <1>4, <2>1 DEF Binding!Fits, v
<1>5. CASE kind = "listmap" /\ \A n \in names : e[n] \in Binding!Lists
  <2>1. \A n \in DOMAIN v.fields : v.fields[n].json = "list"
    BY <1>1, <1>3, <1>5
  <2> QED
    BY <1>1, <1>5, <2>1 DEF Binding!Fits, v
<1> QED
  BY <1>4, <1>5

\* A map that is read from pairs as what arrives is decoded to it.
LEMMA MapIsDecoded ==
  ASSUME NEW i \in DOMAIN Own.params, NEW segments, NEW pairs \in Seq(WirePairs), NEW explicit,
         Binding!ArgumentOf(Own, i, request.http, segments) = {Binding!MapOf(pairs, explicit)},
         NEW names, NEW e, IsWritten(pairs, explicit, names, e),
         \/ Own.params[i].kind = "map" /\ \A n \in names : e[n] = Binding!Text("a")
         \/ Own.params[i].kind = "listmap" /\ \A n \in names : e[n] \in Binding!Lists
  PROVE  Binding!Decoded(Own, request.http, segments)[i] = {Binding!Object([n \in names |-> e[n]])}
<1> DEFINE w == Binding!Object([n \in names |-> e[n]])
<1>1. Binding!ArgumentOf(Own, i, request.http, segments) = {w}
  BY MapIsRead
<1>2. Binding!Fits(Own.params[i].kind, w)
  BY ObjectFits
<1> HIDE DEF w
<1>3. IsDecodedFrom(Own, i, request.http, segments, w)
  BY <1>1, DecodedFrom, Zenon
<1>4. Binding!DecodeArgument(Own.params[i].kind, w, Own.params[i].textEncoded) = {w}
  BY <1>2, FittingIsTaken
<1>5. Binding!Decoded(Own, request.http, segments)[i] = {w}
  BY <1>3, <1>4, Zenon DEF IsDecodedFrom
<1> QED
  BY <1>5, Zenon DEF w

\* A map in the query arrives as the entries that are sent of it.
LEMMA QueryMapArgument ==
  ASSUME CallHypotheses, Declared, stage \in Served, SentAsCalled, ~Binding!Exceptional,
         NEW i \in DOMAIN Own.params, Own.params[i].source = "query_map", NEW segments
  PROVE  Binding!Decoded(Own, request.http, segments)[i]
           = {Binding!Arriving("query_map", args[i])}
<1> DEFINE v == args[i]
           q == request.http.query
           explicit == Binding!NamesFrom(Own, "query")
           names == Binding!Sent(v)
           e == v.fields
<1>1. Carrier("query", "query_map") /\ "query" # "cookie"
  BY DEF Carrier
<1>2. q = Binding!Gather(Own, args, "query", "query_map")
  BY SentParts
<1>3. q \in Seq(WirePairs)
  BY <1>1, <1>2, PartsAreJoined
<1>4. /\ v.json = "object" /\ IsMap(v) /\ \A n \in names : IsEntry(e[n])
      /\ \A n : (\A j \in Binding!WithSource(Own, "query") :
                   Binding!OnWire("query", Own.params[j].name) # n) =>
           Binding!Named(q, {n}) = IF n \in names THEN Binding!Pairs(n, e[n]) ELSE <<>>
  <2> DEFINE g == Binding!Gather(Own, args, "query", "query_map")
  <2>1. /\ v.json = "object" /\ IsMap(v) /\ \A n \in names : IsEntry(e[n])
        /\ \A n : (\A j \in Binding!WithSource(Own, "query") :
                     Binding!OnWire("query", Own.params[j].name) # n) =>
             Binding!Named(g, {n}) = IF n \in names THEN Binding!Pairs(n, e[n]) ELSE <<>>
    BY <1>1, MapSendsAlone
  <2> HIDE DEF g, q
  <2> QED
    BY <1>2, <2>1, Zenon DEF g
<1>5. \A n : n \notin explicit =>
        Binding!Named(q, {n}) = IF n \in names THEN Binding!Pairs(n, e[n]) ELSE <<>>
  <2> TAKE n
  <2> HAVE n \notin explicit
  <2>1. \A j \in Binding!WithSource(Own, "query") :
          Binding!OnWire("query", Own.params[j].name) # n
    BY DEF Binding!OnWire, Binding!NamesFrom
  <2> QED
    BY <1>4, <2>1
<1>6. names \cap explicit = {}
  <2>1. Binding!Encodable(Own, i, args, headers)
    BY DEF SentAsCalled
  <2>2. v # Binding!Null
    BY <1>4 DEF Binding!Null
  <2> QED
    BY <2>1, <2>2 DEF Binding!Encodable
<1>7. names \subseteq WireNames
  BY <1>4 DEF IsMap, WireNames
<1>8. IsWritten(q, explicit, names, e)
  <2> HIDE DEF q, explicit, names, e
  <2> QED
    BY <1>4, <1>5, <1>6, <1>7 DEF IsWritten
<1>9. Binding!ArgumentOf(Own, i, request.http, segments) = {Binding!MapOf(q, explicit)}
  BY DEF Binding!ArgumentOf
<1>10. \/ Own.params[i].kind = "map" /\ \A n \in names : e[n] = Binding!Text("a")
       \/ Own.params[i].kind = "listmap" /\ \A n \in names : e[n] \in Binding!Lists
  <2>1. /\ Own.params[i].kind \in Binding!Kinds
        /\ v \in Binding!ValuesOf(Own.params[i].kind)
    BY OwnIsValid DEF SentAsCalled
  <2> QED
    BY <1>4, <2>1, ObjectsAreMaps
<1>11. Binding!Decoded(Own, request.http, segments)[i]
         = {Binding!Object([n \in names |-> e[n]])}
  <2> HIDE DEF q, explicit, names, e
  <2> QED
    BY <1>3, <1>8, <1>9, <1>10, MapIsDecoded
<1> QED
  BY <1>11, Zenon DEF Binding!Arriving

\* A map in headers arrives with the other headers of the call.
LEMMA HeaderMapArgument ==
  ASSUME CallHypotheses, Declared, stage \in Served, SentAsCalled, ~Binding!Exceptional,
         NEW i \in DOMAIN Own.params, Own.params[i].source = "header_map", NEW segments
  PROVE  Binding!Decoded(Own, request.http, segments)[i]
           = {Binding!Arriving("header_map", args[i])}
<1> DEFINE v == args[i]
           q == Binding!ApplicationHeaders(request.http.headers)
           s == Binding!SetToSeq(Binding!CallHeaders(headers))
           g == Binding!Gather(Own, args, "header", "header_map")
           explicit == Binding!HeaderNames(Own)
           given == headers \ {"cookie"}
           names == Binding!Sent(v) \cup given
           e == [n \in names |-> IF n \in Binding!Sent(v) THEN v.fields[n] ELSE Binding!Text("a")]
<1>1. Carrier("header", "header_map") /\ "header" # "cookie"
  BY DEF Carrier
<1>2. q \in Seq(WirePairs)
  BY ApplicationHeadersAreNamed
<1>3. /\ v.json = "object" /\ IsMap(v) /\ \A n \in Binding!Sent(v) : IsEntry(v.fields[n])
      /\ \A n : (\A j \in Binding!WithSource(Own, "header") :
                   Binding!OnWire("header", Own.params[j].name) # n) =>
           Binding!Named(g, {n})
             = IF n \in Binding!Sent(v) THEN Binding!Pairs(n, v.fields[n]) ELSE <<>>
  BY <1>1, MapSendsAlone
<1>4. \A n : n \notin explicit =>
        Binding!Named(g, {n})
          = IF n \in Binding!Sent(v) THEN Binding!Pairs(n, v.fields[n]) ELSE <<>>
  <2> TAKE n
  <2> HAVE n \notin explicit
  <2>1. \A j \in Binding!WithSource(Own, "header") :
          Binding!OnWire("header", Own.params[j].name) # n
    BY DEF Binding!OnWire, Binding!HeaderNames, Binding!NamesFrom
  <2> QED
    BY <1>3, <2>1
<1>5. Binding!Sent(v) \cap (explicit \cup headers \cup Binding!RuntimeOwned) = {}
  <2>1. Binding!Encodable(Own, i, args, headers)
    BY DEF SentAsCalled
  <2>2. v # Binding!Null
    BY <1>3 DEF Binding!Null
  <2> QED
    BY <2>1, <2>2 DEF Binding!Encodable
<1>6. headers \cap Binding!RuntimeOwned = {} /\ headers \cap explicit = {}
  BY DEF SentAsCalled, Binding!HeadersAreFree
<1>7. names \subseteq WireNames
  <2>1. Binding!Sent(v) \subseteq WireNames
    BY <1>3 DEF IsMap, WireNames
  <2>2. given \subseteq WireNames
    BY DEF SentAsCalled, SomeHeaders, WireNames, ParameterNames, EntryNames
  <2> QED
    BY <2>1, <2>2
<1>8. \A n : Binding!Named(s, {n})
               = IF n \in given THEN Binding!Pairs(n, Binding!Text("a")) ELSE <<>>
  BY CallHeadersAreNamed, Zenon
<1>9. \A n : Binding!Named(q, {n})
               = IF n \in Binding!RuntimeOwned THEN <<>>
                 ELSE Binding!Named(s, {n}) \o Binding!Named(g, {n})
  BY ApplicationHeadersAreNamed
<1>10. \A n \in WireNames : \A w : IsTexts(w) =>
         /\ <<>> \o Binding!Pairs(n, w) = Binding!Pairs(n, w)
         /\ Binding!Pairs(n, w) \o <<>> = Binding!Pairs(n, w)
  <2> TAKE n \in WireNames
  <2> TAKE w
  <2> HAVE IsTexts(w)
  <2> DEFINE r == Binding!Pairs(n, w)
  <2>1. r \in Seq(WirePairs)
    BY PairsAreNamed
  <2> HIDE DEF r
  <2>2. <<>> \o r = r /\ r \o <<>> = r
    BY <2>1
  <2> QED
    BY <2>2 DEF r
<1>11. <<>> \o <<>> = <<>>
  OBVIOUS
<1>12. IsEntry(Binding!Text("a")) /\ IsTexts(Binding!Text("a"))
  BY EntriesAreCollected, Zenon DEF IsEntry
<1>13. \A n \in names : IsEntry(e[n]) /\ IsTexts(e[n])
  <2>1. \A n \in Binding!Sent(v) : e[n] = v.fields[n]
    OBVIOUS
  <2>2. \A n \in names \ Binding!Sent(v) : e[n] = Binding!Text("a")
    OBVIOUS
  <2>3. \A n \in names : IsEntry(e[n])
    <3> HIDE DEF names, e
    <3> QED
      BY <1>3, <1>12, <2>1, <2>2 DEF names
  <2> QED
    BY <2>3, Zenon DEF IsEntry
<1>14. ASSUME NEW n \in names PROVE Binding!Named(q, {n}) = Binding!Pairs(n, e[n])
  <2>1. n \notin Binding!RuntimeOwned /\ n \notin explicit /\ n \in WireNames
    BY <1>5, <1>6, <1>7, <1>14
  <2>2. Binding!Named(q, {n}) = Binding!Named(s, {n}) \o Binding!Named(g, {n})
    BY <1>9, <2>1, Zenon
  <2>3. CASE n \in Binding!Sent(v)
    <3>1. n \notin given /\ e[n] = v.fields[n] /\ IsTexts(v.fields[n])
      BY <1>3, <1>5, <2>3 DEF IsEntry
    <3>2. Binding!Named(s, {n}) = <<>>
      BY <1>8, <3>1, Zenon
    <3>3. Binding!Named(g, {n}) = Binding!Pairs(n, v.fields[n])
      BY <1>4, <2>1, <2>3, Zenon
    <3>4. <<>> \o Binding!Pairs(n, v.fields[n]) = Binding!Pairs(n, v.fields[n])
      BY <1>10, <2>1, <3>1, Zenon
    <3> QED
      BY <2>2, <3>1, <3>2, <3>3, <3>4, Zenon
  <2>4. CASE n \notin Binding!Sent(v)
    <3>1. n \in given /\ e[n] = Binding!Text("a")
      BY <2>4
    <3>2. Binding!Named(s, {n}) = Binding!Pairs(n, Binding!Text("a"))
      BY <1>8, <3>1, Zenon
    <3>3. Binding!Named(g, {n}) = <<>>
      BY <1>4, <2>1, <2>4, Zenon
    <3>4. Binding!Pairs(n, Binding!Text("a")) \o <<>> = Binding!Pairs(n, Binding!Text("a"))
      BY <1>10, <1>12, <2>1, Zenon
    <3> QED
      BY <2>2, <3>1, <3>2, <3>3, <3>4, Zenon
  <2> QED
    BY <2>3, <2>4
<1>15. ASSUME NEW n, n \notin names \cup explicit PROVE Binding!Named(q, {n}) = <<>>
  <2>1. n \notin Binding!Sent(v) /\ n \notin given /\ n \notin explicit
    BY <1>15
  <2>2. Binding!Named(s, {n}) = <<>> /\ Binding!Named(g, {n}) = <<>>
    BY <1>4, <1>8, <2>1, Zenon
  <2> QED
    BY <1>9, <1>11, <2>2, Zenon
<1>16. IsWritten(q, explicit, names, e)
  <2>1. names \cap explicit = {}
    BY <1>5, <1>6
  <2> HIDE DEF q, explicit, names, e
  <2> QED
    BY <1>7, <1>13, <1>14, <1>15, <2>1, Zenon DEF IsWritten
<1>17. Binding!ArgumentOf(Own, i, request.http, segments) = {Binding!MapOf(q, explicit)}
  BY DEF Binding!ArgumentOf
<1>18. \/ Own.params[i].kind = "map" /\ \A n \in names : e[n] = Binding!Text("a")
       \/ Own.params[i].kind = "listmap" /\ \A n \in names : e[n] \in Binding!Lists
  <2>1. /\ Own.params[i].kind \in Binding!Kinds
        /\ v \in Binding!ValuesOf(Own.params[i].kind)
    BY OwnIsValid DEF SentAsCalled
  <2>2. \/ Own.params[i].kind = "map" /\ \A n \in Binding!Sent(v) : v.fields[n] = Binding!Text("a")
        \/ /\ Own.params[i].kind = "listmap"
           /\ \A n \in Binding!Sent(v) : v.fields[n] \in Binding!Lists
    BY <1>3, <2>1, ObjectsAreMaps
  <2>3. Own.params[i].kind = "listmap" => given = {}
    BY CarriedAsIs
  <2> QED
    BY <2>2, <2>3
<1>19. Binding!Decoded(Own, request.http, segments)[i]
         = {Binding!Object([n \in names |-> e[n]])}
  <2> HIDE DEF q, explicit, names, e
  <2> QED
    BY <1>2, <1>16, <1>17, <1>18, MapIsDecoded
<1>20. Binding!Arriving("header_map", v) = Binding!Object(e)
  BY Zenon DEF Binding!Arriving
<1>21. [n \in names |-> e[n]] = e
  OBVIOUS
<1> QED
  BY <1>19, <1>20, <1>21, Zenon

\* Wherever an argument is bound, it is decoded to what arrives of it.
LEMMA ValuesArrive ==
  ASSUME CallHypotheses, BindingInv, Declared, CallInv, stage \in UnderWay, ~Binding!Exceptional,
         found = 1
  PROVE  /\ DOMAIN ValuesFound = DOMAIN Own.params /\ DOMAIN args = DOMAIN Own.params
         /\ \A i \in DOMAIN Own.params :
              ValuesFound[i] = {Binding!Arriving(Own.params[i].source, args[i])}
<1> DEFINE segments == SegmentsOf(Own, args)
<1>1. stage \in Served /\ SentAsCalled /\ ~Binding!OneHeaderTwice(Own)
  BY CarriedAsIs DEF UnderWay, Served, Calling, CallInv
<1>2. IsPath(Own.path)
  BY <1>1, OwnIsValid DEF BindingInv, CallHypotheses, WellFormedTemplates
<1>3. SegmentsFound = segments
  <2>1. Binding!SplitPath(request.http.path) = {segments}
    BY OwnRouteIsFound
  <2> HIDE DEF segments
  <2>2. \A x : (CHOOSE s \in {x} : TRUE) = x
    OBVIOUS
  <2> QED
    BY <2>1, <2>2, Zenon DEF SegmentsFound
<1>4. ValuesFound = Binding!Decoded(Own, request.http, segments)
  BY <1>3, Zenon DEF ValuesFound, Own
<1>5. DOMAIN ValuesFound = DOMAIN Own.params
  BY <1>4, Zenon DEF Binding!Decoded
<1>6. ASSUME NEW i \in DOMAIN Own.params
      PROVE  Binding!Decoded(Own, request.http, segments)[i]
               = {Binding!Arriving(Own.params[i].source, args[i])}
  <2>1. CASE Own.params[i].source \in {"path", "body", "body_field", "query", "header", "cookie"}
    <3>1. Binding!Arriving(Own.params[i].source, args[i]) = args[i]
      BY <2>1 DEF Binding!Arriving
    <3>2. Binding!Decoded(Own, request.http, segments)[i] = {args[i]}
      BY <1>1, <1>2, <2>1, PathArgument, BodyArgument, QueryArgument, HeaderArgument,
         CookieArgument
    <3> QED
      BY <3>1, <3>2
  <2>2. CASE Own.params[i].source = "query_map"
    BY <1>1, <2>2, QueryMapArgument
  <2>3. CASE Own.params[i].source = "header_map"
    BY <1>1, <2>3, HeaderMapArgument
  <2>4. Own.params[i].source \in Binding!Sources
    BY <1>1, ParametersAreKnown
  <2> QED
    BY <2>1, <2>2, <2>3, <2>4 DEF Binding!Sources
<1> QED
  BY <1>1, <1>4, <1>5, <1>6 DEF SentAsCalled

\* Only an exceptional call is refused.
LEMMA RefusedForCause ==
  ASSUME CallHypotheses, BindingInv, Declared, CallInv, stage \in UnderWay, ~Binding!Exceptional
  PROVE  ~Refused
<1>1. stage \in Served /\ SentAsCalled
  BY DEF UnderWay, Served, Calling, CallInv
<1>2. RoutesFound = {1}
  BY OwnRouteIsFound
<1>3. RouteTaken = 1
  BY <1>2 DEF RouteTaken
<1>4. /\ ~(Len(request.http.query) > MaxQueryPairs)
      /\ request.controls # {} => served.controls /\ served.group = "g"
  BY CarriedAsIs
<1>5. Binding!ControlsAreValid(Binding!Operations[RouteTaken])
  <2>1. \A c \in request.controls :
          /\ served.controls /\ c.group = served.group
          /\ c.attempt > 1 => Binding!AllowsRetries(Own)
    BY <1>1, <1>4 DEF SentAsCalled
  <2> QED
    BY <1>3, <2>1, Zenon DEF Binding!ControlsAreValid, Own
<1>6. Len(request.http.query) <= MaxQueryPairs
  <2>1. request.http.query \in Seq(WirePairs)
    <3>1. Carrier("query", "query_map")
      BY DEF Carrier
    <3>2. Binding!Gather(Own, args, "query", "query_map") \in Seq(WirePairs)
      BY <1>1, <3>1, PartsAreJoined
    <3> QED
      BY <1>1, <3>2, SentParts
  <2> QED
    BY <1>4, <2>1 DEF CallHypotheses
<1>7. Accepted => \A i \in DOMAIN ValuesFound : ValuesFound[i] # {}
  <2> HAVE Accepted
  <2>1. found = 1
    BY <1>2 DEF Accepted
  <2>2. /\ DOMAIN ValuesFound = DOMAIN Own.params
        /\ \A i \in DOMAIN Own.params :
             ValuesFound[i] = {Binding!Arriving(Own.params[i].source, args[i])}
    BY <2>1, ValuesArrive
  <2> QED
    BY <2>2
<1> QED
  BY <1>2, <1>5, <1>6, <1>7, Zenon DEF Refused

LEMMA CallsAreDelivered ==
  ASSUME CallHypotheses, BindingInv, Declared, CallInv
  PROVE  Binding!DeliveredAsCalled
<1>1. ASSUME stage = "rejected" PROVE Binding!Exceptional
  <2>1. Refused /\ stage \in UnderWay
    BY <1>1 DEF CallInv, UnderWay
  <2> QED
    BY <2>1, RefusedForCause
<1>2. ASSUME stage = "delivered", ~Binding!Exceptional
      PROVE  /\ found = 1
             /\ got = [i \in DOMAIN args |->
                         Binding!Arriving(Binding!Operations[1].params[i].source, args[i])]
  <2>1. /\ Accepted /\ stage \in UnderWay
        /\ got = [i \in DOMAIN ValuesFound |-> CHOOSE v \in ValuesFound[i] : TRUE]
    BY <1>2 DEF CallInv, UnderWay
  <2>2. found = 1
    <3>1. RoutesFound = {1}
      BY <1>2, <2>1, OwnRouteIsFound
    <3> QED
      BY <2>1, <3>1 DEF Accepted
  <2>3. /\ DOMAIN ValuesFound = DOMAIN args
        /\ \A i \in DOMAIN args :
             ValuesFound[i] = {Binding!Arriving(Own.params[i].source, args[i])}
    BY <1>2, <2>1, <2>2, ValuesArrive
  <2>4. [i \in DOMAIN ValuesFound |-> CHOOSE v \in ValuesFound[i] : TRUE]
          = [i \in DOMAIN args |-> Binding!Arriving(Own.params[i].source, args[i])]
    <3>1. ASSUME NEW i \in DOMAIN args
          PROVE  (CHOOSE v \in ValuesFound[i] : TRUE)
                   = Binding!Arriving(Own.params[i].source, args[i])
      <4> DEFINE w == Binding!Arriving(Own.params[i].source, args[i])
      <4>1. ValuesFound[i] = {w}
        BY <2>3, Zenon
      <4> HIDE DEF w
      <4>2. (CHOOSE v \in ValuesFound[i] : TRUE) \in ValuesFound[i]
        BY <4>1
      <4>3. (CHOOSE v \in ValuesFound[i] : TRUE) = w
        BY <4>1, <4>2
      <4> QED
        BY <4>3, Zenon DEF w
    <3> QED
      BY <2>3, <3>1
  <2> QED
    BY <2>1, <2>2, <2>4, Zenon DEF Own
<1>3. ASSUME stage = "delivered", request.controls # {}
      PROVE  served = [group |-> "g", controls |-> TRUE]
  <2>1. Accepted /\ SentAsCalled
    BY <1>3 DEF CallInv, UnderWay
  <2>2. PICK c : c \in request.controls
    BY <1>3
  <2>3. served.controls /\ served.group = "g"
    BY <2>1, <2>2 DEF Accepted, SentAsCalled
  <2>4. served.controls = TRUE /\ served = [group |-> served.group, controls |-> served.controls]
    BY <2>3 DEF CallInv
  <2> QED
    BY <2>3, <2>4
<1> QED
  BY <1>1, <1>2, <1>3, Zenon DEF Binding!DeliveredAsCalled

\* For any templates and texts: a call the client sends reaches its own method with its
\* own arguments, from whichever part of the request the server decodes them (wire/mod.rs
\* encode_json_request, server/routes.rs, interface.rs), or it is one of the exceptions;
\* with control headers it reaches only a server that understands them and serves its group.
THEOREM CallsArriveAsCalled ==
  ASSUME CallHypotheses
  PROVE  Binding!Spec => []Binding!DeliveredAsCalled
<1> DEFINE Ind == BindingInv /\ Declared /\ CallInv
<1>1. Binding!Init => Ind
  BY BindingInit, DeclaredInit, CallInit
<1>2. Ind /\ [Binding!Next]_(Binding!vars) => Ind'
  <2>1. WellFormedTemplates
    BY DEF CallHypotheses
  <2>2. BindingInv /\ [Binding!Next]_(Binding!vars) => BindingInv'
    BY <2>1, BindingStep
  <2> QED
    BY <2>2, DeclaredStep, CallStep
<1>3. Ind => Binding!DeliveredAsCalled
  BY CallsAreDelivered
<1> QED
  BY <1>1, <1>2, <1>3, PTL DEF Binding!Spec
=============================================================================
