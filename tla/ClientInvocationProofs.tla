------------------------ MODULE ClientInvocationProofs ------------------------
(***************************************************************************)
(* Proofs about ClientInvocation, for any number of invocations and        *)
(* endpoints, any limits and any classes of failures.                      *)
(*                                                                         *)
(* The inductive invariant has two parts.  Global relates the coordinator, *)
(* the gate and the pool.  Local says, for each place an invocation can be *)
(* in, which permits it holds and what it knows of the wire; the promises  *)
(* to the breakers are kept because the places that settle a permit can    *)
(* rely on it.                                                             *)
(*                                                                         *)
(* The second part is about the retry budget, the third about how a client *)
(* is made and what it speaks (ClientConnect).                             *)
(***************************************************************************)
EXTENDS ClientInvocation, FiniteSetTheorems, TLAPS

Outside == {"idle", "admit", "done"}

Global ==
  /\ inside = {i \in Invocations : pc[i] \notin Outside}
  /\ phase = "open" <=> coord \in {"waiting", "requested", "stored"}
  /\ phase = "quiet" => inside = {} /\ pool = "closed"
  /\ pool = "closed" /\ force = "armed" => phase = "quiet"
  /\ ending \in {"ok", "error"} => phase = "quiet"
  /\ completion # "none" => coord = "finished" /\ completion = ending

\* Nothing has been asked of the breakers yet.
Untouched(i) ==
  /\ attempt[i] = 0 /\ started[i] = 0
  /\ wire[i] = "none"
  /\ endpointPermit[i] = "none" /\ servicePermit[i] = "none"

Holds(i) == endpointPermit[i] = "held" /\ servicePermit[i] = "held"

\* started counts this attempt exactly when something was sent.
Sent(i) == IF wire[i] = "none" THEN started[i] < attempt[i]
           ELSE started[i] = attempt[i]

Local(i) ==
  /\ pc[i] \in {"idle", "admit", "encode", "before"} => Untouched(i)
  /\ pc[i] = "select" => /\ servicePermit[i] = "held"
                         /\ endpointPermit[i] = "none"
                         /\ wire[i] = "none"
  /\ pc[i] \in {"attempt", "wire", "after"} => Holds(i)
  /\ pc[i] = "attempt" => wire[i] = "none" /\ endpoint[i] \in Endpoints
  /\ wire[i] = "flying" <=> pc[i] = "wire"
  /\ pc[i] \in {"select", "attempt", "wire", "after", "backoff"} =>
       attempt[i] > 0 /\ Sent(i)
  /\ pc[i] = "backoff" =>
       /\ servicePermit[i] = "held"
       /\ endpointPermit[i] \notin {"held", "none"}
       /\ HasNextAttempt(i)
  /\ pc[i] = "unwind" =>
       /\ endpointPermit[i] = "held" <=> servicePermit[i] = "held"
       /\ endpointPermit[i] = "held" =>
            /\ wire[i] \in {"ok", "lost"} /\ started[i] > 0
            /\ response[i] # "error"
       /\ response[i] = "wire" => wire[i] = "ok"
       /\ wire[i] = "ok" => endpointPermit[i] # "Protocol"
  /\ pc[i] = "done" => endpointPermit[i] # "held" /\ servicePermit[i] # "held"
  /\ bulkhead[i] # "none" => pc[i] = "wire"

\* EndpointHearsTruth and ServiceHearsResult, for one invocation.
Told(i) ==
  /\ Blames(endpointPermit[i]) => \/ wire[i] = endpointPermit[i]
                                  \/ wire[i] = "ok" /\ endpointPermit[i] = "Protocol"
  /\ endpointPermit[i] = "Success" => wire[i] \in {"ok", "lost"}
  /\ endpointPermit[i] = "Unattempted" => wire[i] = "none"
  /\ Failed(i) => endpointPermit[i] \in {"held", wire[i], "Abandoned"}
  /\ servicePermit[i] = "Unattempted" => started[i] = 0
  /\ servicePermit[i] = "Success" \/ Blames(servicePermit[i]) => started[i] > 0
  /\ Failed(i) /\ pc[i] \in {"unwind", "done"} =>
       servicePermit[i] \in {wire[i], "Abandoned", "Cancelled"}
  /\ wire[i] = "ok" /\ endpointPermit[i] = "Protocol" => servicePermit[i] = "Protocol"

Inv ==
  /\ TypeOK
  /\ Global
  /\ \A i \in Invocations : Local(i) /\ Told(i)

-----------------------------------------------------------------------------
USE InvocationsAssumption, LimitsAssumption, ClassesAssumption

\* An invocation never makes more than three attempts.
LEMMA HardLimit == HardAttemptLimit \in 1 .. 3
BY DEF HardAttemptLimit, HardMaxAttempts

\* Every initial state satisfies the invariant.
LEMMA InitInv == Init => Inv
<1> SUFFICES ASSUME Init PROVE Inv
  OBVIOUS
<1>1. TypeOK
  BY HardLimit DEF Init, TypeOK, Gate!Init, InvocationPcs, Permits, Outcomes
<1>2. Global
  BY DEF Init, Global, Gate!Init, Outside
<1>3. \A i \in Invocations : Local(i)
  BY DEF Init, Local, Untouched
<1>4. \A i \in Invocations : Told(i)
  BY DEF Init, Told, Failed, Blames, FailureClasses
<1> QED
  BY <1>1, <1>2, <1>3, <1>4 DEF Inv

\* Every step keeps the types.
LEMMA TypeStep == Inv /\ [Next]_vars => TypeOK'
<1> SUFFICES ASSUME Inv, [Next]_vars PROVE TypeOK'
  OBVIOUS
<1>a. TypeOK /\ \A i \in Invocations : Local(i)
  BY DEF Inv
<1> USE HardLimit, <1>a DEF TypeOK
<1>1. CASE UNCHANGED vars
  BY <1>1 DEF vars, gateVars, shutdownVars, budgetVars, permits, attemptVars
<1>2. CASE Coordinator \/ ShutdownRequested \/ SubscriptionsClosed
  BY <1>2 DEF Coordinator, ShutdownRequested, SubscriptionsClosed, StoreDraining,
     BeginDraining, Drained, WorkDone, ShutdownTimeout, Publish, Gate!BeginDraining,
     Gate!BecomeQuiet, gateVars, invocationVars, budgetVars, permits, attemptVars
<1>3. CASE Refill
  BY <1>3 DEF Refill, gateVars, shutdownVars, permits, attemptVars
<1>4. ASSUME NEW i \in Invocations, Start(i) \/ Admitted(i) \/ Refused(i) \/ Encode(i)
             \/ Execute(i)
      PROVE  TypeOK'
  BY <1>4 DEF Start, Admitted, Refused, Encode, Execute, Goto, InvocationPcs,
     Gate!GoIn, gateVars, shutdownVars, budgetVars, permits, attemptVars, Permits
<1>5. ASSUME NEW i \in Invocations, ShortCircuit(i) \/ Select(i)
      PROVE  TypeOK'
  BY <1>5 DEF ShortCircuit, Select, Candidates, Goto, InvocationPcs,
     gateVars, shutdownVars, budgetVars, permits, attemptVars, Permits
<1>6. ASSUME NEW i \in Invocations, Send(i) \/ Blocked(i) \/ WireEnds(i)
      PROVE  TypeOK'
  <2>1. endpoint[i] \in Endpoints \/ WireEnds(i)
    BY <1>6 DEF Send, Blocked, Local
  <2> QED
    BY <1>6, <2>1 DEF Send, Blocked, WireEnds, Bulkhead, Victims, Goto, InvocationPcs,
     gateVars, shutdownVars, budgetVars, permits, attemptVars
<1>7. ASSUME NEW i \in Invocations, AttemptResponds(i)
      PROVE  TypeOK'
  BY <1>7 DEF AttemptResponds, EndpointOnResponse, ServiceOnResponse, Failed, Goto,
     InvocationPcs, gateVars, shutdownVars, budgetVars, attemptVars, Permits, Outcomes
<1>8. ASSUME NEW i \in Invocations, NEW class \in FailureClasses, EndInError(i, class)
      PROVE  /\ servicePermit' \in [Invocations -> Permits]
             /\ response' \in [Invocations -> {"none", "error", "local", "wire", "altered"}]
             /\ pc' \in [Invocations -> InvocationPcs]
  BY <1>8 DEF EndInError, ServiceVerdict, Goto, InvocationPcs, Permits, Outcomes
<1>9. ASSUME NEW i \in Invocations, AttemptFails(i)
      PROVE  TypeOK'
  <2>1. endpointPermit' \in [Invocations -> Permits]
    BY <1>9 DEF AttemptFails, EndpointVerdict, Failed, Permits, Outcomes
  <2>2. PICK class \in (IF Failed(i) THEN {wire[i]} ELSE LocalErrors) :
          \/ DecideRetry(i, class) /\ Goto(i, "backoff")
             /\ UNCHANGED <<servicePermit, response>>
          \/ EndInError(i, class) /\ UNCHANGED tokens
    BY <1>9 DEF AttemptFails
  <2>3. class \in FailureClasses
    BY DEF Failed, FailureClasses
  <2>4. /\ tokens' \in 0 .. Capacity
        /\ servicePermit' \in [Invocations -> Permits]
        /\ response' \in [Invocations -> {"none", "error", "local", "wire", "altered"}]
        /\ pc' \in [Invocations -> InvocationPcs]
    BY <2>2, <2>3, <1>8 DEF DecideRetry, TryAcquire, Goto, InvocationPcs
  <2> QED
    BY <1>9, <2>1, <2>4 DEF AttemptFails, gateVars, shutdownVars, attemptVars
<1>10. ASSUME NEW i \in Invocations, SelectFails(i) \/ BackoffForced(i)
       PROVE  TypeOK'
  <2>1. PICK class \in FailureClasses : EndInError(i, class)
    BY <1>10 DEF SelectFails, BackoffForced, FailureClasses
  <2> QED
    BY <1>10, <2>1, <1>8 DEF SelectFails, BackoffForced, gateVars, shutdownVars,
       budgetVars, attemptVars
<1>11. ASSUME NEW i \in Invocations, Retry(i)
       PROVE  TypeOK'
  <2>1. attempt[i] < HardAttemptLimit
    BY <1>11 DEF Retry, Local, HasNextAttempt
  <2> QED
    BY <1>11, <2>1 DEF Retry, Goto, InvocationPcs, Permits, gateVars,
       shutdownVars, budgetVars
<1>12. ASSUME NEW i \in Invocations, NEW p \in [Invocations -> Permits],
              NEW o \in Outcomes
       PROVE  Settle(p, i, o) \in [Invocations -> Permits]
  BY DEF Settle, Permits
<1>13. ASSUME NEW i \in Invocations, Leave(i)
       PROVE  /\ inside' \subseteq Invocations /\ phase' = phase
              /\ pc' \in [Invocations -> InvocationPcs]
              /\ attempted' \in [Invocations -> SUBSET Endpoints]
              /\ response' \in [Invocations -> {"none", "error", "local", "wire", "altered"}]
              /\ endpoint' \in [Invocations -> Endpoints \union {NoEndpoint}]
              /\ bulkhead' \in [Invocations -> {"none", "current", "orphan"}]
  BY <1>13 DEF Leave, Goto, Gate!GoOut, InvocationPcs
<1>14. ASSUME NEW i \in Invocations, NEW e \in Outcomes, NEW s \in Outcomes, Leave(i),
              endpointPermit' = Settle(endpointPermit, i, e),
              servicePermit' = Settle(servicePermit, i, s),
              wire' \in [Invocations -> FailureClasses \union {"none", "flying", "ok", "lost"}],
              UNCHANGED <<shutdownVars, budgetVars, mapped, attempt, started>>
       PROVE  TypeOK'
  <2>1. /\ endpointPermit' \in [Invocations -> Permits]
        /\ servicePermit' \in [Invocations -> Permits]
    BY <1>12, <1>14
  <2> QED
    BY <1>14, <1>13, <2>1 DEF shutdownVars, budgetVars
<1>15. ASSUME NEW i \in Invocations, Replaced(i) \/ Decoded(i) PROVE TypeOK'
  BY <1>14, <1>15 DEF Replaced, Decoded, Outcomes
<1>16. ASSUME NEW i \in Invocations, Undecodable(i) PROVE TypeOK'
  <2>1. PICK origin \in {"local", "remote"} :
          /\ endpointPermit' = Settle(endpointPermit, i, ResultFailure(origin))
          /\ servicePermit' = Settle(servicePermit, i, ResultFailure(origin))
    BY <1>16 DEF Undecodable
  <2>2. ResultFailure(origin) \in Outcomes
    BY DEF ResultFailure, Outcomes, FailureClasses
  <2>3. Leave(i) /\ UNCHANGED <<shutdownVars, budgetVars, mapped, attempt, started, wire>>
    BY <1>16 DEF Undecodable
  <2> QED
    BY <1>14, <2>1, <2>2, <2>3
<1>17. ASSUME NEW i \in Invocations, CallerDrops(i) \/ Cut(i) PROVE TypeOK'
  BY <1>14, <1>17 DEF CallerDrops, Cut, DeadlineDrops, ForceDrops, Abandon, Outcomes
<1>18. ASSUME NEW i \in Invocations, EncodeFails(i) PROVE TypeOK'
  BY <1>13, <1>18 DEF EncodeFails, permits, shutdownVars, budgetVars
<1> QED
  BY <1>1, <1>2, <1>3, <1>4, <1>5, <1>6, <1>7, <1>9, <1>10, <1>11, <1>15,
     <1>16, <1>17, <1>18 DEF Next, Proceed, Continue

\* An invocation that a step leaves alone.  Its bulkhead permit may be orphaned.
Same(j) ==
  /\ pc'[j] = pc[j] /\ attempt'[j] = attempt[j] /\ started'[j] = started[j]
  /\ wire'[j] = wire[j] /\ endpoint'[j] = endpoint[j] /\ response'[j] = response[j]
  /\ endpointPermit'[j] = endpointPermit[j] /\ servicePermit'[j] = servicePermit[j]
  /\ bulkhead[j] = "none" => bulkhead'[j] = "none"

\* A step of one invocation leaves the others as they are.
LEMMA Frame ==
  ASSUME NEW j \in Invocations, Local(j), Told(j), Same(j)
  PROVE  Local(j)' /\ Told(j)'
<1>1. Local(j)'
  BY DEF Local, Same, Untouched, Holds, Sent, HasNextAttempt
<1>2. Told(j)'
  BY DEF Told, Same, Failed, Blames
<1> QED
  BY <1>1, <1>2

\* A step preserves what the invariant says of each invocation.
LEMMA LocalStep ==
  ASSUME Inv, TypeOK', NEW i \in Invocations,
         Start(i) \/ Proceed(i) \/ Continue(i) \/ CallerDrops(i) \/ Cut(i)
  PROVE  \A j \in Invocations : Local(j)' /\ Told(j)'
<1>a. /\ TypeOK /\ Local(i) /\ Told(i)
      /\ \A j \in Invocations : Local(j) /\ Told(j)
  BY DEF Inv
<1> SUFFICES /\ \A j \in Invocations \ {i} : Same(j)
             /\ Local(i)' /\ Told(i)'
  BY <1>a, Frame
<1> USE <1>a, HardLimit DEF TypeOK, Goto, gateVars, shutdownVars, budgetVars, permits,
   attemptVars
<1>1. CASE Start(i) \/ Admitted(i) \/ Refused(i) \/ Encode(i)
  <2>1. \A j \in Invocations \ {i} : Same(j)
    BY <1>1 DEF Start, Admitted, Refused, Encode, Same
  <2>2. Local(i)'
    BY <1>1 DEF Start, Admitted, Refused, Encode, Local, Untouched, Holds, Sent,
       HasNextAttempt, Failed, FailureClasses
  <2>3. Told(i)'
    BY <1>1 DEF Start, Admitted, Refused, Encode, Local, Told, Untouched, Holds,
       Sent, Failed, Blames, FailureClasses
  <2> QED
    BY <2>1, <2>2, <2>3
<1>2. CASE Execute(i)
  <2>1. \A j \in Invocations \ {i} : Same(j)
    BY <1>2 DEF Execute, Same
  <2>2. Local(i)'
    BY <1>2 DEF Execute, Local, Untouched, Holds, Sent, HasNextAttempt, Failed,
       FailureClasses
  <2>3. Told(i)'
    BY <1>2 DEF Execute, Local, Told, Untouched, Holds, Sent, Failed, Blames,
       FailureClasses
  <2> QED
    BY <2>1, <2>2, <2>3
<1>3. CASE ShortCircuit(i)
  <2>1. \A j \in Invocations \ {i} : Same(j)
    BY <1>3 DEF ShortCircuit, Same
  <2>2. Local(i)'
    BY <1>3 DEF ShortCircuit, Local, Untouched, Holds, Sent, HasNextAttempt,
       Failed, FailureClasses
  <2>3. Told(i)'
    BY <1>3 DEF ShortCircuit, Local, Told, Untouched, Holds, Sent, Failed, Blames,
       FailureClasses
  <2> QED
    BY <2>1, <2>2, <2>3
<1>4. CASE Select(i)
  <2>1. \A j \in Invocations \ {i} : Same(j)
    BY <1>4 DEF Select, Candidates, Same
  <2>2. Local(i)'
    BY <1>4 DEF Select, Candidates, Local, Untouched, Holds, Sent, HasNextAttempt,
       Failed, FailureClasses
  <2>3. Told(i)'
    BY <1>4 DEF Select, Candidates, Local, Told, Untouched, Holds, Sent, Failed,
       Blames, FailureClasses
  <2> QED
    BY <2>1, <2>2, <2>3
<1>5. CASE SelectFails(i)
  <2>1. \A j \in Invocations \ {i} : Same(j)
    BY <1>5 DEF SelectFails, EndInError, ServiceVerdict, Same
  <2>2. Local(i)'
    BY <1>5 DEF SelectFails, EndInError, ServiceVerdict, Local, Untouched, Holds,
       Sent, HasNextAttempt, Failed, FailureClasses
  <2>3. Told(i)'
    BY <1>5 DEF SelectFails, EndInError, ServiceVerdict, Local, Told, Untouched,
       Holds, Sent, Failed, Blames, FailureClasses
  <2> QED
    BY <2>1, <2>2, <2>3
<1>6. CASE Send(i)
  <2>1. \A j \in Invocations \ {i} : Same(j)
    BY <1>6 DEF Send, Bulkhead, Same
  <2>2. Local(i)'
    BY <1>6 DEF Send, Bulkhead, Local, Untouched, Holds, Sent, HasNextAttempt,
       Failed, FailureClasses
  <2>3. Told(i)'
    BY <1>6 DEF Send, Bulkhead, Local, Told, Untouched, Holds, Sent, Failed,
       Blames, FailureClasses
  <2> QED
    BY <2>1, <2>2, <2>3
<1>7. CASE Blocked(i)
  <2>1. \A j \in Invocations \ {i} : Same(j)
    BY <1>7 DEF Blocked, Bulkhead, Same
  <2>2. Local(i)'
    BY <1>7 DEF Blocked, Bulkhead, Local, Untouched, Holds, Sent, HasNextAttempt,
       Failed, FailureClasses
  <2>3. Told(i)'
    BY <1>7 DEF Blocked, Bulkhead, Local, Told, Untouched, Holds, Sent, Failed,
       Blames, FailureClasses
  <2> QED
    BY <2>1, <2>2, <2>3
<1>8. CASE WireEnds(i)
  <2>1. \A j \in Invocations \ {i} : Same(j)
    BY <1>8 DEF WireEnds, Same
  <2>2. Local(i)'
    BY <1>8 DEF WireEnds, Local, Untouched, Holds, Sent, HasNextAttempt, Failed,
       FailureClasses
  <2>3. Told(i)'
    BY <1>8 DEF WireEnds, Local, Told, Untouched, Holds, Sent, Failed, Blames,
       FailureClasses
  <2> QED
    BY <2>1, <2>2, <2>3
<1>9. CASE AttemptResponds(i)
  <2>1. \A j \in Invocations \ {i} : Same(j)
    BY <1>9 DEF AttemptResponds, EndpointOnResponse, ServiceOnResponse, Same
  <2>2. Local(i)'
    BY <1>9 DEF AttemptResponds, EndpointOnResponse, ServiceOnResponse, Local,
       Untouched, Holds, Sent, HasNextAttempt, Failed, FailureClasses
  <2>3. Told(i)'
    BY <1>9 DEF AttemptResponds, EndpointOnResponse, ServiceOnResponse, Local,
       Told, Untouched, Holds, Sent, Failed, Blames, FailureClasses
  <2> QED
    BY <2>1, <2>2, <2>3
<1>10. CASE AttemptFails(i)
  <2>1. \A j \in Invocations \ {i} : Same(j)
    BY <1>10 DEF AttemptFails, EndpointVerdict, DecideRetry, EndInError,
       ServiceVerdict, Same
  <2>2. Local(i)'
    BY <1>10 DEF AttemptFails, EndpointVerdict, DecideRetry, EndInError,
       ServiceVerdict, Local, Untouched, Holds, Sent, HasNextAttempt, Failed,
       FailureClasses
  <2>3. Told(i)'
    BY <1>10 DEF AttemptFails, EndpointVerdict, DecideRetry, EndInError,
       ServiceVerdict, Local, Told, Untouched, Holds, Sent, Failed, Blames,
       FailureClasses
  <2> QED
    BY <2>1, <2>2, <2>3
<1>11. CASE Retry(i)
  <2>1. \A j \in Invocations \ {i} : Same(j)
    BY <1>11 DEF Retry, Same
  <2>2. Local(i)'
    BY <1>11 DEF Retry, Local, Untouched, Holds, Sent, HasNextAttempt, Failed,
       FailureClasses
  <2>3. Told(i)'
    BY <1>11 DEF Retry, Local, Told, Untouched, Holds, Sent, Failed, Blames,
       FailureClasses
  <2> QED
    BY <2>1, <2>2, <2>3
<1>12. CASE BackoffForced(i)
  <2>1. \A j \in Invocations \ {i} : Same(j)
    BY <1>12 DEF BackoffForced, EndInError, ServiceVerdict, Same
  <2>2. Local(i)'
    BY <1>12 DEF BackoffForced, EndInError, ServiceVerdict, Local, Told,
       Untouched, Holds, Sent, HasNextAttempt, Failed, FailureClasses
  <2>3. Told(i)'
    BY <1>12 DEF BackoffForced, EndInError, ServiceVerdict, Local, Told,
       Untouched, Holds, Sent, Failed, Blames, FailureClasses
  <2> QED
    BY <2>1, <2>2, <2>3
<1>13. CASE EncodeFails(i)
  <2>1. \A j \in Invocations \ {i} : Same(j)
    BY <1>13 DEF EncodeFails, Leave, Same
  <2>2. Local(i)'
    BY <1>13 DEF EncodeFails, Leave, Local, Untouched, Holds, Sent,
       HasNextAttempt, Failed, FailureClasses
  <2>3. Told(i)'
    BY <1>13 DEF EncodeFails, Leave, Local, Told, Untouched, Holds, Sent, Failed,
       Blames, FailureClasses
  <2> QED
    BY <2>1, <2>2, <2>3
<1>14. CASE Replaced(i)
  <2>1. \A j \in Invocations \ {i} : Same(j)
    BY <1>14 DEF Replaced, Leave, Settle, Same
  <2>2. Local(i)'
    BY <1>14 DEF Replaced, Leave, Settle, Local, Untouched, Holds, Sent,
       HasNextAttempt, Failed, FailureClasses
  <2>3. Told(i)'
    BY <1>14 DEF Replaced, Leave, Settle, Local, Told, Untouched, Holds, Sent,
       Failed, Blames, FailureClasses
  <2> QED
    BY <2>1, <2>2, <2>3
<1>15. CASE Decoded(i)
  <2>1. \A j \in Invocations \ {i} : Same(j)
    BY <1>15 DEF Decoded, Leave, Settle, Same
  <2>2. Local(i)'
    BY <1>15 DEF Decoded, Leave, Settle, Local, Untouched, Holds, Sent,
       HasNextAttempt, Failed, FailureClasses
  <2>3. Told(i)'
    BY <1>15 DEF Decoded, Leave, Settle, Local, Told, Untouched, Holds, Sent,
       Failed, Blames, FailureClasses
  <2> QED
    BY <2>1, <2>2, <2>3
<1>16. CASE Undecodable(i)
  <2>1. \A j \in Invocations \ {i} : Same(j)
    BY <1>16 DEF Undecodable, Leave, Settle, ResultFailure, Same
  <2>2. Local(i)'
    BY <1>16 DEF Undecodable, Leave, Settle, ResultFailure, Local, Untouched,
       Holds, Sent, HasNextAttempt, Failed, FailureClasses
  <2>3. Told(i)'
    <3>1. PICK origin \in {"local"} \union (IF response[i] = "wire" THEN {"remote"} ELSE {}) :
            /\ endpointPermit' = Settle(endpointPermit, i, ResultFailure(origin))
            /\ servicePermit' = Settle(servicePermit, i, ResultFailure(origin))
      BY <1>16 DEF Undecodable
    <3>2. /\ pc[i] = "unwind" /\ pc'[i] = "done" /\ UNCHANGED <<wire, started>>
      BY <1>16 DEF Undecodable, Leave
    <3>3. \/ ResultFailure(origin) = "Success"
          \/ ResultFailure(origin) = "Protocol" /\ response[i] = "wire"
      BY <3>1 DEF ResultFailure
    <3>4. ASSUME NEW p \in [Invocations -> Permits], NEW o
          PROVE  Settle(p, i, o)[i] = IF p[i] = "held" THEN o ELSE p[i]
      BY DEF Settle
    <3>5. PICK o \in {"Success", "Protocol"} :
            /\ o = "Protocol" => response[i] = "wire"
            /\ endpointPermit'[i] = IF endpointPermit[i] = "held" THEN o ELSE endpointPermit[i]
            /\ servicePermit'[i] = IF servicePermit[i] = "held" THEN o ELSE servicePermit[i]
      BY <3>1, <3>3, <3>4
    <3> QED
      BY <3>2, <3>5 DEF Local, Told, Failed, Blames, FailureClasses
  <2> QED
    BY <2>1, <2>2, <2>3
<1>17. CASE CallerDrops(i) \/ Cut(i)
  <2>1. \A j \in Invocations \ {i} : Same(j)
    BY <1>17 DEF CallerDrops, Cut, DeadlineDrops, ForceDrops, Abandon, Leave,
       Settle, Same
  <2>2. Local(i)'
    BY <1>17 DEF CallerDrops, Cut, DeadlineDrops, ForceDrops, Abandon, Leave,
       Settle, Local, Untouched, Holds, Sent, HasNextAttempt, Failed,
       FailureClasses
  <2>3. Told(i)'
    <3>1. /\ endpointPermit'[i] = IF endpointPermit[i] = "held" THEN "Abandoned"
                                 ELSE endpointPermit[i]
          /\ servicePermit'[i] = IF servicePermit[i] = "held" THEN "Abandoned"
                                ELSE servicePermit[i]
          /\ wire'[i] = IF wire[i] = "flying" THEN "lost" ELSE wire[i]
          /\ pc'[i] = "done" /\ UNCHANGED started
          /\ pc[i] \in {"encode", "before", "attempt", "wire", "after", "backoff", "unwind"}
      BY <1>17 DEF CallerDrops, Cut, DeadlineDrops, ForceDrops, Awaiting,
         Abandon, Leave, Settle
    <3>2. wire[i] = "flying" => Holds(i)
      BY DEF Local
    <3> QED
      BY <3>1, <3>2 DEF Local, Told, Untouched, Holds, Failed, Blames, FailureClasses
  <2> QED
    BY <2>1, <2>2, <2>3
<1> QED
  BY <1>1, <1>2, <1>3, <1>4, <1>5, <1>6, <1>7, <1>8, <1>9, <1>10, <1>11, <1>12,
     <1>13, <1>14, <1>15, <1>16, <1>17 DEF Proceed, Continue

\* A step preserves what the invariant says of the shared state.
LEMMA GlobalStep == Inv /\ [Next]_vars => Global'
<1> SUFFICES ASSUME Inv, [Next]_vars PROVE Global'
  OBVIOUS
<1>a. TypeOK /\ Global /\ \A i \in Invocations : Local(i)
  BY DEF Inv
<1> USE <1>a DEF TypeOK
<1>1. CASE UNCHANGED vars
  BY <1>1 DEF vars, gateVars, shutdownVars, Global
<1>2. CASE Coordinator \/ ShutdownRequested \/ SubscriptionsClosed \/ Refill
  <2> USE DEF gateVars, shutdownVars, invocationVars, Global
  <2>1. CASE ShutdownRequested \/ SubscriptionsClosed \/ Refill
    BY <2>1 DEF ShutdownRequested, SubscriptionsClosed, Refill
  <2>2. CASE StoreDraining \/ WorkDone \/ ShutdownTimeout \/ Publish
    BY <2>2 DEF StoreDraining, WorkDone, ShutdownTimeout, Publish
  <2>3. CASE BeginDraining
    BY <2>3 DEF BeginDraining, Gate!BeginDraining
  <2>4. CASE Drained
    BY <2>4 DEF Drained, Gate!BecomeQuiet
  <2> QED
    BY <1>2, <2>1, <2>2, <2>3, <2>4 DEF Coordinator
<1>3. ASSUME NEW i \in Invocations, UNCHANGED <<gateVars, shutdownVars>>,
             NEW to, Goto(i, to), pc[i] \in Outside <=> to \in Outside
      PROVE  Global'
  <2>1. {j \in Invocations : pc'[j] \notin Outside} = {j \in Invocations : pc[j] \notin Outside}
    BY <1>3 DEF Goto
  <2> QED
    BY <1>3, <2>1 DEF Global, gateVars, shutdownVars
<1>4. ASSUME NEW i \in Invocations, Admitted(i)
      PROVE  Global'
  <2>1. {j \in Invocations : pc'[j] \notin Outside} =
          {j \in Invocations : pc[j] \notin Outside} \union {i}
    BY <1>4 DEF Admitted, Goto, Outside
  <2> QED
    BY <1>4, <2>1 DEF Admitted, Gate!GoIn, Global, shutdownVars
<1>5. ASSUME NEW i \in Invocations, Leave(i), UNCHANGED shutdownVars
      PROVE  Global'
  <2>1. {j \in Invocations : pc'[j] \notin Outside} =
          {j \in Invocations : pc[j] \notin Outside} \ {i}
    BY <1>5 DEF Leave, Goto, Outside
  <2> QED
    BY <1>5, <2>1 DEF Leave, Gate!GoOut, Global, shutdownVars
<1>6. ASSUME NEW i \in Invocations, Start(i) \/ Refused(i) PROVE Global'
  BY <1>3, <1>6 DEF Start, Refused, Outside
<1>7. ASSUME NEW i \in Invocations, Encode(i) \/ Select(i) \/ SelectFails(i) \/ Execute(i)
             \/ ShortCircuit(i) \/ Send(i) \/ Blocked(i) \/ WireEnds(i)
      PROVE  Global'
  BY <1>3, <1>7 DEF Encode, Select, SelectFails, Execute, ShortCircuit, Send, Blocked,
     WireEnds, EndInError, Outside
<1>8. ASSUME NEW i \in Invocations, AttemptResponds(i) \/ AttemptFails(i) \/ Retry(i)
             \/ BackoffForced(i)
      PROVE  Global'
  BY <1>3, <1>8 DEF AttemptResponds, AttemptFails, Retry, BackoffForced, EndInError,
     Outside
<1>9. ASSUME NEW i \in Invocations, EncodeFails(i) \/ Replaced(i) \/ Decoded(i)
             \/ Undecodable(i) \/ CallerDrops(i) \/ Cut(i)
      PROVE  Global'
  BY <1>5, <1>9 DEF EncodeFails, Replaced, Decoded, Undecodable, CallerDrops, Cut,
     DeadlineDrops, ForceDrops, Abandon
<1> QED
  BY <1>1, <1>2, <1>4, <1>6, <1>7, <1>8, <1>9 DEF Next, Proceed, Continue

\* Every step preserves the invariant.
LEMMA InvStep == Inv /\ [Next]_vars => Inv'
<1> SUFFICES ASSUME Inv, [Next]_vars PROVE Inv'
  OBVIOUS
<1>1. TypeOK' /\ Global'
  BY TypeStep, GlobalStep
<1>2. \A j \in Invocations : Local(j)' /\ Told(j)'
  <2>1. CASE \E i \in Invocations : \/ Start(i) \/ Proceed(i) \/ Continue(i)
                                    \/ CallerDrops(i) \/ Cut(i)
    BY <1>1, <2>1, LocalStep
  <2>2. CASE Coordinator \/ ShutdownRequested \/ SubscriptionsClosed \/ UNCHANGED vars
    <3>1. UNCHANGED invocationVars
      BY <2>2 DEF Coordinator, ShutdownRequested, SubscriptionsClosed, StoreDraining,
         BeginDraining, Drained, WorkDone, ShutdownTimeout, Publish, vars, invocationVars
    <3>2. \A j \in Invocations : Same(j)
      BY <3>1 DEF Same, invocationVars, permits, attemptVars
    <3> QED
      BY <3>2, Frame DEF Inv
  <2>3. CASE Refill
    <3>1. \A j \in Invocations : Same(j)
      BY <2>3 DEF Refill, Same, permits, attemptVars
    <3> QED
      BY <3>1, Frame DEF Inv
  <2> QED
    BY <2>1, <2>2, <2>3 DEF Next
<1> QED
  BY <1>1, <1>2 DEF Inv

\* The inductive invariant holds in every state.
LEMMA InvHolds == Spec => []Inv
<1> QED
  BY InitInv, InvStep, PTL DEF Spec

-----------------------------------------------------------------------------
\* For any number of invocations the variables keep their types: no invocation
\* makes more attempts than hard_attempt_limit allows and the retry budget stays
\* between empty and its capacity.
THEOREM TypeCorrect == Spec => []TypeOK
<1>1. Inv => TypeOK
  BY DEF Inv
<1> QED
  BY InvHolds, <1>1, PTL

\* Whatever the interceptors do, wherever the future is dropped, each endpoint's
\* breaker hears what really happened to the attempt: execute_attempts,
\* finish_result_failure and the drop of BreakerPermit between them never blame an
\* endpoint for an error of the client's own, nor lose a failure that was observed.
THEOREM BreakersHearTruth == Spec => []EndpointHearsTruth
<1>1. Inv => EndpointHearsTruth
  BY DEF Inv, Told, EndpointHearsTruth
<1> QED
  BY InvHolds, <1>1, PTL

\* The service's breaker hears the final result of each logical call: nothing is
\* counted for a call that sent nothing, and a failure of the last attempt is not
\* lost unless the call was cut short.
THEOREM ServiceHearsFinal == Spec => []ServiceHearsResult
<1>1. Inv => ServiceHearsResult
  BY DEF Inv, Told, ServiceHearsResult
<1> QED
  BY InvHolds, <1>1, PTL

\* Both breakers of a call hear the truth (InvocationTerminal and ServiceClient::invoke,
\* invocation.rs).
COROLLARY VerdictsAreTrue == Spec => []VerdictsTrue
BY BreakersHearTruth, ServiceHearsFinal, PTL DEF VerdictsTrue

\* Only the forced end of client_shutdown_coordinator takes the connection pool
\* away under an admitted invocation, and a shutdown that reports anything but a
\* timeout has left no invocation, request or permit behind.
THEOREM ShutdownIsClean == Spec => []ShutdownClean
<1>1. Inv => ShutdownClean
  <2> SUFFICES ASSUME Inv PROVE ShutdownClean
    OBVIOUS
  <2>1. Global /\ \A i \in Invocations : Local(i)
    BY DEF Inv
  <2>2. phase = "quiet" => \A i \in Invocations : pc[i] \in Outside
    BY <2>1 DEF Global
  <2> QED
    BY <2>1, <2>2 DEF Global, Local, Untouched, Outside, ShutdownClean
<1> QED
  BY InvHolds, <1>1, PTL

-----------------------------------------------------------------------------
(***************************************************************************)
(* The retry budget.  RetriesPaid is inductive with Inv: the one step that *)
(* makes an attempt due takes a token, and whoever leaves gives up his own *)
(* attempts only.                                                          *)
(***************************************************************************)

\* There are finitely many retries, and the attempts that are due are counted.
LEMMA RetriesFinite ==
  \A S \in SUBSET (Invocations \X (2 .. HardMaxAttempts)) :
    IsFiniteSet(S) /\ Cardinality(S) \in Nat
<1>1. 2 \in Int /\ HardMaxAttempts \in Int
  BY DEF HardMaxAttempts
<1>2. IsFiniteSet(2 .. HardMaxAttempts)
  BY <1>1, FS_Interval
<1>3. IsFiniteSet(Invocations \X (2 .. HardMaxAttempts))
  BY <1>2, FS_Product
<1> QED
  BY <1>3, FS_Subset, FS_CardinalityType

\* The attempts that are due are a number, before and after a step.
LEMMA DueType ==
  /\ TypeOK => \A i \in Invocations : Due(i) \in Nat
  /\ TypeOK' => \A i \in Invocations : Due(i)' \in Nat
  /\ IsFiniteSet(Retries) /\ Cardinality(Retries) \in Nat
  /\ IsFiniteSet(Retries') /\ Cardinality(Retries') \in Nat
<1>1. TypeOK => \A i \in Invocations : Due(i) \in Nat
  BY HardLimit DEF TypeOK, Due
<1>2. TypeOK' => \A i \in Invocations : Due(i)' \in Nat
  BY HardLimit DEF TypeOK, Due, HardAttemptLimit
<1>3. /\ Retries \in SUBSET (Invocations \X (2 .. HardMaxAttempts))
      /\ Retries' \in SUBSET (Invocations \X (2 .. HardMaxAttempts))
  BY DEF Retries, HardMaxAttempts
<1>4. /\ IsFiniteSet(Retries) /\ Cardinality(Retries) \in Nat
      /\ IsFiniteSet(Retries') /\ Cardinality(Retries') \in Nat
  BY <1>3, RetriesFinite
<1> QED
  BY <1>1, <1>2, <1>4

\* A step that makes no retry due, and takes no token back, leaves all paid.
LEMMA NoneDue ==
  ASSUME TypeOK, TypeOK', RetriesPaid,
         \A j \in Invocations : Due(j)' <= 1 \/ Due(j)' <= Due(j),
         refills' - tokens' = refills - tokens
  PROVE  RetriesPaid'
<1>1. /\ \A i \in Invocations : Due(i) \in Nat /\ Due(i)' \in Nat
      /\ IsFiniteSet(Retries) /\ Cardinality(Retries) \in Nat
      /\ Cardinality(Retries') \in Nat
  BY DueType
<1>2. Retries' \subseteq Retries
  <2> SUFFICES ASSUME NEW r \in Retries' PROVE r \in Retries
    OBVIOUS
  <2>1. /\ r \in Invocations \X (2 .. HardMaxAttempts)
        /\ r[2] <= Due(r[1])'
    BY DEF Retries
  <2>2. r[1] \in Invocations /\ r[2] \in Nat /\ r[2] >= 2
    BY <2>1 DEF HardMaxAttempts
  <2>3. r[2] <= Due(r[1])
    BY <1>1, <2>1, <2>2
  <2> QED
    BY <2>1, <2>3 DEF Retries
<1>3. Cardinality(Retries') <= Cardinality(Retries)
  BY <1>1, <1>2, FS_Subset
<1>4. Cardinality(Retries') <= Capacity + refills' - tokens'
  <2>1. /\ tokens \in Int /\ refills \in Int /\ tokens' \in Int /\ refills' \in Int
        /\ Capacity \in Int
    BY DEF TypeOK
  <2>2. Cardinality(Retries) <= Capacity + refills - tokens
    BY DEF RetriesPaid
  <2>3. Cardinality(Retries) \in Int /\ Cardinality(Retries') \in Int
    BY <1>1
  <2>4. Capacity + refills' - tokens' = Capacity + refills - tokens
    BY <2>1
  <2>5. Capacity + refills - tokens \in Int
    BY <2>1
  <2> QED
    BY <1>3, <2>2, <2>3, <2>4, <2>5
<1>5. \A i \in Invocations \ Replayable : Due(i)' <= 1
  BY <1>1 DEF RetriesPaid
<1> QED
  BY <1>4, <1>5 DEF RetriesPaid

\* decide_with_guards takes one token for one more attempt.
LEMMA OneDue ==
  ASSUME Inv, TypeOK', RetriesPaid, NEW i \in Invocations, NEW class \in FailureClasses,
         pc[i] \in {"attempt", "after"}, DecideRetry(i, class), Goto(i, "backoff"),
         UNCHANGED <<refills, attempt>>
  PROVE  RetriesPaid'
<1>1. TypeOK /\ attempt[i] > 0
  BY DEF Inv, Local
<1>2. /\ \A j \in Invocations : Due(j) \in Nat /\ Due(j)' \in Nat
      /\ IsFiniteSet(Retries) /\ Cardinality(Retries) \in Nat
  BY <1>1, DueType
<1>3. \A j \in Invocations \ {i} : Due(j)' = Due(j)
  BY <1>1 DEF Due, Goto, TypeOK
<1>4. Due(i) = attempt[i] /\ Due(i)' = attempt[i] + 1
  BY <1>1 DEF Due, Goto, TypeOK
<1>5. attempt[i] + 1 \in 2 .. HardMaxAttempts
  BY <1>1, HardLimit DEF DecideRetry, HasNextAttempt, HardMaxAttempts, TypeOK
<1>6. /\ \A r \in Retries' : r \in Retries \union {<<i, attempt[i] + 1>>}
      /\ <<i, attempt[i] + 1>> \notin Retries
  <2>1. ASSUME NEW r \in Retries' PROVE r \in Retries \union {<<i, attempt[i] + 1>>}
    <3>1. /\ r \in Invocations \X (2 .. HardMaxAttempts) /\ r = <<r[1], r[2]>>
          /\ r[2] <= Due(r[1])' /\ r[1] \in Invocations /\ r[2] \in Nat
      BY DEF Retries, HardMaxAttempts
    <3>2. CASE r[1] # i
      BY <1>3, <3>1, <3>2 DEF Retries
    <3>3. CASE r[1] = i /\ r[2] <= attempt[i]
      BY <1>4, <3>1, <3>3 DEF Retries
    <3>4. CASE r[1] = i /\ r[2] = attempt[i] + 1
      BY <3>1, <3>4
    <3> QED
      BY <1>1, <1>4, <3>1, <3>2, <3>3, <3>4 DEF TypeOK
  <2>2. <<i, attempt[i] + 1>> \notin Retries
    BY <1>1, <1>4 DEF Retries, TypeOK
  <2> QED
    BY <2>1, <2>2
<1>7. Cardinality(Retries \union {<<i, attempt[i] + 1>>}) = Cardinality(Retries) + 1
  BY <1>2, <1>6, FS_AddElement
<1>8. Cardinality(Retries') <= Cardinality(Retries) + 1 /\ Cardinality(Retries') \in Nat
  <2>1. IsFiniteSet(Retries \union {<<i, attempt[i] + 1>>})
    BY <1>2, FS_AddElement
  <2>2. Retries' \subseteq Retries \union {<<i, attempt[i] + 1>>}
    BY <1>6
  <2> QED
    BY <1>7, <2>1, <2>2, FS_Subset, DueType
<1>9. Cardinality(Retries') <= Capacity + refills' - tokens'
  BY <1>1, <1>2, <1>8 DEF RetriesPaid, DecideRetry, TryAcquire, TypeOK
<1>10. \A j \in Invocations \ Replayable : Due(j)' <= 1
  BY <1>3 DEF RetriesPaid, DecideRetry
<1> QED
  BY <1>9, <1>10 DEF RetriesPaid

\* Every step of one invocation leaves its retries paid.
LEMMA PaidStep ==
  ASSUME Inv, TypeOK', RetriesPaid, NEW i \in Invocations,
         Start(i) \/ Proceed(i) \/ Continue(i) \/ CallerDrops(i) \/ Cut(i)
  PROVE  RetriesPaid'
<1>a. TypeOK /\ Local(i)
  BY DEF Inv
<1>1. ASSUME UNCHANGED <<tokens, refills, attempt>>,
             NEW to \in InvocationPcs \ {"backoff"}, Goto(i, to)
      PROVE  RetriesPaid'
  <2>1. \A j \in Invocations : Due(j)' <= Due(j)
    BY <1>a, <1>1, HardLimit DEF Due, Goto, TypeOK
  <2> QED
    BY <1>a, <1>1, <2>1, NoneDue
<1>2. CASE Start(i) \/ Proceed(i)
  BY <1>1, <1>2 DEF Start, Proceed, Admitted, Refused, Encode, EncodeFails, Leave, Select,
     SelectFails, EndInError, InvocationPcs, budgetVars, attemptVars
<1>3. CASE ShortCircuit(i) \/ Send(i) \/ Blocked(i) \/ WireEnds(i) \/ AttemptResponds(i)
           \/ BackoffForced(i)
  BY <1>1, <1>3 DEF ShortCircuit, Send, Blocked, WireEnds, AttemptResponds, BackoffForced,
     EndInError, InvocationPcs, budgetVars, attemptVars
<1>4. CASE Replaced(i) \/ Decoded(i) \/ Undecodable(i) \/ CallerDrops(i) \/ Cut(i)
  BY <1>1, <1>4 DEF Replaced, Decoded, Undecodable, CallerDrops, Cut, DeadlineDrops,
     ForceDrops, Abandon, Leave, InvocationPcs, budgetVars
<1>5. CASE Execute(i) \/ Retry(i)
  <2>1. \A j \in Invocations : Due(j)' <= 1 \/ Due(j)' <= Due(j)
    BY <1>a, <1>5, HardLimit DEF Execute, Retry, Due, Goto, TypeOK
  <2> QED
    BY <1>a, <1>5, <2>1, NoneDue DEF Execute, Retry, budgetVars
<1>6. CASE AttemptFails(i)
  <2>1. PICK class \in (IF Failed(i) THEN {wire[i]} ELSE LocalErrors) :
          \/ DecideRetry(i, class) /\ Goto(i, "backoff")
          \/ Goto(i, "unwind") /\ UNCHANGED tokens
    BY <1>6 DEF AttemptFails, EndInError
  <2>2. class \in FailureClasses
    BY DEF Failed, FailureClasses
  <2>3. pc[i] \in {"attempt", "after"} /\ UNCHANGED <<refills, attempt>>
    BY <1>6 DEF AttemptFails, attemptVars
  <2> QED
    BY <1>1, <2>1, <2>2, <2>3, OneDue DEF InvocationPcs
<1> QED
  BY <1>2, <1>3, <1>4, <1>5, <1>6 DEF Continue

\* For any number of invocations of a service, every attempt after the first was
\* paid with a token of the shared budget, and a call that must not be replayed
\* is sent once (decide_with_guards and RetryBudget::try_acquire, retry.rs).
THEOREM RetriesArePaid == Spec => []RetriesPaid
<1>1. Init => RetriesPaid
  <2> SUFFICES ASSUME Init PROVE RetriesPaid
    OBVIOUS
  <2>1. \A i \in Invocations : Due(i) = 0
    BY DEF Init, Due
  <2>2. Retries = {}
    BY <2>1 DEF Retries, HardMaxAttempts
  <2> QED
    BY <2>1, <2>2, FS_EmptySet DEF Init, RetriesPaid
<1>2. Inv /\ Inv' /\ RetriesPaid /\ [Next]_vars => RetriesPaid'
  <2> SUFFICES ASSUME Inv, Inv', RetriesPaid, [Next]_vars PROVE RetriesPaid'
    OBVIOUS
  <2>a. TypeOK /\ TypeOK'
    BY DEF Inv
  <2>1. CASE \E i \in Invocations : \/ Start(i) \/ Proceed(i) \/ Continue(i)
                                    \/ CallerDrops(i) \/ Cut(i)
    BY <2>a, <2>1, PaidStep
  <2>2. CASE Coordinator \/ ShutdownRequested \/ SubscriptionsClosed \/ Refill
             \/ UNCHANGED vars
    <3>1. UNCHANGED <<pc, attempt>>
      BY <2>2 DEF Coordinator, ShutdownRequested, SubscriptionsClosed, StoreDraining,
         BeginDraining, Drained, WorkDone, ShutdownTimeout, Publish, Refill, vars,
         invocationVars, attemptVars
    <3>2. refills' - tokens' = refills - tokens
      <4>1. Refill \/ UNCHANGED <<refills, tokens>>
        BY <2>2 DEF Coordinator, ShutdownRequested, SubscriptionsClosed, StoreDraining,
           BeginDraining, Drained, WorkDone, ShutdownTimeout, Publish, vars,
           invocationVars, budgetVars
      <4>2. tokens \in Int /\ refills \in Int
        BY <2>a DEF TypeOK
      <4>3. CASE Refill
        <5>1. tokens' = tokens + 1 /\ refills' = refills + 1
          BY <4>3 DEF Refill
        <5> QED
          BY <4>2, <5>1
      <4> QED
        BY <4>1, <4>3
    <3>3. \A j \in Invocations : Due(j)' = Due(j)
      BY <3>1 DEF Due
    <3> QED
      BY <2>a, <3>2, <3>3, DueType, NoneDue
  <2> QED
    BY <2>1, <2>2 DEF Next
<1> QED
  BY InvHolds, <1>1, <1>2, PTL DEF Spec

-----------------------------------------------------------------------------
(***************************************************************************)
(* How a client comes into being and how it talks: ClientConnect, for any  *)
(* bindings, capabilities, request ids and number of connections per host. *)
(***************************************************************************)

CONSTANTS Bindings, Json, Custom, RequestIds, Shards, Capabilities

VARIABLES builder, interface, registry, runtime, stage, slot, client, directory,
          selected, next, connection

Connecting == INSTANCE ClientConnect WITH phase <- stage, wire <- connection

\* Request ids are hashed to numbers, and http2_connections_per_host is not zero.
ConnectLimits == RequestIds \subseteq Nat /\ Shards \in Nat \ {0}

\* A ClientBuilder.
IsBuilder(b) ==
  /\ b.mode \in {"Unset", "Direct", "Discovery"} /\ b.policy \in Connecting!Policies
  /\ DOMAIN b = {"mode", "endpoint", "binding", "policy", "capabilities"}

\* What ClientBuilder and ServiceClientInner hold of each other.
Built ==
  /\ interface \in {"valid", "not json", "invalid"}
  /\ stage \in {"building", "connecting", "connected", "refused", "failed", "dropped"}
  /\ slot \in {"none", "kept", "acquired"}
  /\ IsBuilder(builder)
  /\ stage = "building" => slot = "none"
  /\ stage = "connecting" /\ slot # "none" => ~Connecting!Refused /\ builder.mode = "Discovery"
  /\ stage # "connected" => client = {} /\ selected = {}
  /\ \A c, d \in client : c = d
  /\ \A c \in client : c.policy \in Connecting!Policies
  /\ Connecting!ConnectsAsTold

\* What a call was told to do, before it has a connection.
Routed ==
  /\ \A s, t \in selected : s = t
  /\ DOMAIN next = {"auto", "http2"} /\ next["auto"] \in Nat /\ next["http2"] \in Nat
  /\ \A s \in selected : s.requestId \subseteq RequestIds
  /\ \A c \in client, s \in selected :
       LET scheme == s.instance.scheme
           versions == s.instance.capabilities.versions
       IN /\ c.binding \in s.instance.capabilities.bindings
          /\ s.auto <=> Connecting!ShouldAutoNegotiate(c.policy, scheme, versions)
          /\ ~s.auto => s.version \in Connecting!SelectHttpVersion(c.policy, scheme, versions)

ConnectInv == Built /\ Routed /\ Connecting!SpeaksAsTold

\* A new builder is one.
LEMMA NewBuilderIsBuilt == IsBuilder(Connecting!NewBuilder)
BY DEF IsBuilder, Connecting!NewBuilder, Connecting!Policies

\* Nothing is connected at first.
LEMMA ConnectInitInv == Connecting!Init => ConnectInv
<1> SUFFICES ASSUME Connecting!Init PROVE ConnectInv
  OBVIOUS
<1>1. Built
  BY NewBuilderIsBuilt DEF Connecting!Init, Built, Connecting!ConnectsAsTold
<1>2. Routed
  BY DEF Connecting!Init, Routed
<1>3. Connecting!SpeaksAsTold
  BY DEF Connecting!Init, Connecting!SpeaksAsTold
<1> QED
  BY <1>1, <1>2, <1>3 DEF ConnectInv

\* connect() fails, is refused or hands out a client that its checks let through.
LEMMA BuiltStep ==
  ASSUME Built, Connecting!Next
  PROVE  Built'
<1> USE DEF Built
<1>1. ASSUME NEW b, Connecting!Configured(b), IsBuilder(b)
      PROVE  Built'
  BY <1>1 DEF Connecting!Configured, Connecting!ConnectsAsTold
<1>2. CASE Connecting!Direct
  <2>1. PICK e : Connecting!Configured([builder EXCEPT !.mode = "Direct", !.endpoint = e])
    BY <1>2 DEF Connecting!Direct
  <2>2. IsBuilder([builder EXCEPT !.mode = "Direct", !.endpoint = e])
    BY DEF IsBuilder
  <2> QED
    BY <1>1, <2>1, <2>2
<1>3. CASE Connecting!Discover
  <2>1. IsBuilder([builder EXCEPT !.mode = "Discovery"])
    BY DEF IsBuilder
  <2> QED
    BY <1>1, <1>3, <2>1 DEF Connecting!Discover
<1>4. CASE Connecting!Binding
  <2>1. PICK b \in Bindings : Connecting!Configured([builder EXCEPT !.binding = b])
    BY <1>4 DEF Connecting!Binding
  <2>2. IsBuilder([builder EXCEPT !.binding = b])
    BY DEF IsBuilder
  <2> QED
    BY <1>1, <2>1, <2>2
<1>5. CASE Connecting!SetHttpVersionPolicy
  <2>1. PICK p \in Connecting!Policies : Connecting!Configured([builder EXCEPT !.policy = p])
    BY <1>5 DEF Connecting!SetHttpVersionPolicy
  <2>2. IsBuilder([builder EXCEPT !.policy = p])
    BY DEF IsBuilder
  <2> QED
    BY <1>1, <2>1, <2>2
<1>6. CASE Connecting!DirectCapabilities
  <2>1. PICK c \in Capabilities : Connecting!Configured([builder EXCEPT !.capabilities = {c}])
    BY <1>6 DEF Connecting!DirectCapabilities
  <2>2. IsBuilder([builder EXCEPT !.capabilities = {c}])
    BY DEF IsBuilder
  <2> QED
    BY <1>1, <2>1, <2>2
<1>7. CASE Connecting!ConnectWhileRunning
  BY <1>7 DEF Connecting!ConnectWhileRunning, Connecting!ConnectsAsTold
<1>8. CASE \/ Connecting!ConnectAfterClose \/ Connecting!Refuse \/ Connecting!AcquireRefused
           \/ Connecting!AcquireFails \/ Connecting!ConnectDropped
  <2>1. PICK how \in {"refused", "failed", "dropped"} :
          /\ Connecting!Ends(how) /\ stage # "connected" /\ UNCHANGED slot
          /\ how = "refused" => slot = "none"
          /\ how # "refused" => slot = "kept"
    BY <1>8 DEF Connecting!ConnectAfterClose, Connecting!Refuse, Connecting!AcquireRefused,
         Connecting!AcquireFails, Connecting!ConnectDropped, Connecting!Acquiring
  <2> QED
    BY <2>1, NewBuilderIsBuilt DEF Connecting!Ends, Connecting!ConnectsAsTold
<1>9. CASE Connecting!Acquire \/ Connecting!AcquireReady
  <2>1. /\ stage = "connecting" /\ ~Connecting!Refused /\ builder.mode = "Discovery"
        /\ slot' \in {"kept", "acquired"}
        /\ UNCHANGED <<builder, interface, registry, stage, client, selected>>
    BY <1>9 DEF Connecting!Acquire, Connecting!AcquireReady, Connecting!Acquiring
  <2>2. ~Connecting!Refused'
    BY <2>1 DEF Connecting!Refused
  <2> QED
    BY <2>1, <2>2 DEF Connecting!ConnectsAsTold
<1>10. CASE Connecting!HandOut
  <2>1. PICK c : client' = {c} /\ c = IF builder.mode = "Direct" THEN builder
                   ELSE [builder EXCEPT !.endpoint = {}, !.capabilities = {}]
    BY <1>10 DEF Connecting!HandOut
  <2>2. c.mode = builder.mode /\ c.binding = builder.binding /\ c.policy = builder.policy
    BY <2>1 DEF IsBuilder
  <2>3. /\ interface = "valid" \/ (interface = "not json" /\ c.binding # Json)
        /\ c.binding \in {Json} \cup Custom
        /\ \/ c.mode = "Discovery" /\ slot = "acquired"
           \/ c.mode = "Direct" /\ c.endpoint # {} /\ slot = "none"
    BY <1>10, <2>1, <2>2 DEF Connecting!HandOut, Connecting!Refused, IsBuilder
  <2>4. Connecting!ConnectsAsTold'
    BY <1>10, <2>1, <2>3 DEF Connecting!HandOut, Connecting!ConnectsAsTold
  <2> QED
    BY <1>10, <2>1, <2>2, <2>4, NewBuilderIsBuilt DEF Connecting!HandOut, IsBuilder
<1>11. CASE \/ Connecting!DirectoryChanges \/ Connecting!Send
            \/ Connecting!Close \/ Connecting!CloseManager
  <2>1. UNCHANGED <<builder, interface, registry, stage, slot, client, selected>>
    <3>1. CASE Connecting!Send
      <4>1. UNCHANGED <<builder, interface, registry, runtime, stage, slot, client,
                        directory, selected>>
        BY <3>1, Zenon DEF Connecting!Send
      <4> QED
        BY <4>1
    <3>2. CASE Connecting!DirectoryChanges
      <4>1. UNCHANGED <<builder, interface, registry, runtime, stage, slot, client,
                        selected, next, connection>>
        BY <3>2, Zenon DEF Connecting!DirectoryChanges
      <4> QED
        BY <4>1
    <3>3. CASE Connecting!Close \/ Connecting!CloseManager
      BY <3>3 DEF Connecting!Close, Connecting!CloseManager
    <3> QED
      BY <1>11, <3>1, <3>2, <3>3
  <2>2. Connecting!Refused' = Connecting!Refused
    BY <2>1, Zenon DEF Connecting!Refused
  <2> QED
    BY <2>1, <2>2 DEF Connecting!ConnectsAsTold
<1>12. CASE Connecting!SelectEndpoint
  <2>1. stage = "connected" /\ UNCHANGED <<builder, interface, stage, slot, client>>
    BY <1>12 DEF Connecting!SelectEndpoint
  <2> QED
    BY <2>1 DEF Connecting!ConnectsAsTold
<1>13. CASE Connecting!CallEnds
  <2>1. /\ UNCHANGED <<builder, interface, registry, stage, slot, client>>
        /\ selected' = {}
    BY <1>13, Zenon DEF Connecting!CallEnds
  <2>2. Connecting!Refused' = Connecting!Refused
    BY <2>1, Zenon DEF Connecting!Refused
  <2> QED
    BY <2>1, <2>2 DEF Connecting!ConnectsAsTold
<1> QED
  BY <1>2, <1>3, <1>4, <1>5, <1>6, <1>7, <1>8, <1>9, <1>10, <1>11, <1>12, <1>13, Zenon
     DEF Connecting!Next

\* select_endpoint takes what the policy and the binding allow.
LEMMA SelectEndpointInv ==
  ASSUME ConnectInv, Connecting!SelectEndpoint
  PROVE  Routed' /\ Connecting!SpeaksAsTold'
<1> USE DEF ConnectInv
<1>1. PICK c, id, i :
        /\ c \in client /\ id \in RequestIds
        /\ LET versions == Connecting!SelectHttpVersion(c.policy, i.scheme, i.capabilities.versions)
               auto == Connecting!ShouldAutoNegotiate(c.policy, i.scheme, i.capabilities.versions)
           IN /\ c.binding \in i.capabilities.bindings
              /\ versions # {}
              /\ selected' = {[instance |-> i, auto |-> auto,
                               version |-> IF auto THEN "1.1" ELSE CHOOSE v \in versions : TRUE,
                               requestId |-> IF i.capabilities.controls THEN {id} ELSE {}]}
  BY DEF Connecting!SelectEndpoint
<1>2. c \in client /\ id \in RequestIds
  BY <1>1, Zenon
<1>3. client = {c} /\ client' = {c} /\ UNCHANGED next /\ connection' = {}
  <2>1. UNCHANGED <<builder, interface, registry, runtime, stage, slot, client,
                    directory, next>> /\ connection' = {}
    BY Zenon DEF Connecting!SelectEndpoint
  <2> QED
    BY <1>2, <2>1 DEF Built
<1> DEFINE versions == Connecting!SelectHttpVersion(c.policy, i.scheme, i.capabilities.versions)
           auto == Connecting!ShouldAutoNegotiate(c.policy, i.scheme, i.capabilities.versions)
<1>4. PICK s : /\ selected' = {s} /\ s.instance = i /\ (s.auto <=> auto)
               /\ ~auto => s.version \in versions
               /\ s.requestId \subseteq RequestIds
  <2>1. (CHOOSE v \in versions : TRUE) \in versions
    BY <1>1
  <2> DEFINE t == [instance |-> i, auto |-> auto,
                   version |-> IF auto THEN "1.1" ELSE CHOOSE v \in versions : TRUE,
                   requestId |-> IF i.capabilities.controls THEN {id} ELSE {}]
  <2>2. selected' = {t}
    BY <1>1
  <2>3. t.instance = i /\ t.auto = auto
        /\ t.version = (IF auto THEN "1.1" ELSE CHOOSE v \in versions : TRUE)
        /\ t.requestId = (IF i.capabilities.controls THEN {id} ELSE {})
    OBVIOUS
  <2> HIDE DEF t, versions, auto
  <2> QED
    BY <1>2, <2>1, <2>2, <2>3, Zenon
<1>5. Routed'
  <2>1. \A d \in client', t \in selected' : d = c /\ t = s
    BY <1>3, <1>4
  <2> HIDE DEF versions, auto
  <2>2. c.binding \in i.capabilities.bindings
    BY <1>1
  <2> USE DEF versions, auto
  <2> QED
    BY <1>3, <1>4, <2>1, <2>2 DEF Routed
<1>6. Connecting!SpeaksAsTold'
  BY <1>3 DEF Connecting!SpeaksAsTold
<1> QED
  BY <1>5, <1>6

\* A shard is one of the pool's.
LEMMA ShardInRange ==
  ASSUME ConnectLimits, Routed, NEW s \in selected, Connecting!Pool(s) # "http1"
  PROVE  Connecting!RequestShard(s) \in 0 .. Shards - 1
<1>1. \A n \in Nat : n % Shards \in 0 .. Shards - 1
  BY DEF ConnectLimits
<1>2. CASE s.requestId # {}
  <2>1. (CHOOSE id \in s.requestId : TRUE) \in Nat
    BY <1>2 DEF ConnectLimits, Routed
  <2> QED
    BY <1>1, <1>2, <2>1 DEF Connecting!RequestShard, Connecting!StableShard
<1>3. CASE s.requestId = {}
  <2>1. next[Connecting!Pool(s)] \in Nat
    BY DEF Routed, Connecting!Pool
  <2> QED
    BY <1>1, <1>3, <2>1 DEF Connecting!RequestShard
<1> QED
  BY <1>2, <1>3

\* Whatever the peer is, a connection speaks what its pool was made for.
LEMMA SpokenByPool ==
  ASSUME NEW via \in {"auto", "http2", "http1"}, NEW peer,
         NEW a \in Connecting!Negotiated(via, peer),
         NEW v \in Connecting!Opened(via, a)
  PROVE  /\ v \in Connecting!Versions
         /\ via = "http2" => v = "2"
         /\ via = "http1" => v = "1.1"
<1>1. CASE via = "auto"
  BY <1>1 DEF Connecting!Negotiated, Connecting!Opened, Connecting!Offered, Connecting!Versions
<1>2. CASE via = "http2"
  BY <1>2 DEF Connecting!Opened, Connecting!Versions
<1>3. CASE via = "http1"
  BY <1>3 DEF Connecting!Negotiated, Connecting!Opened, Connecting!Offered, Connecting!Versions
<1> QED
  BY <1>1, <1>2, <1>3

\* send keeps to what was selected.
LEMMA SendInv ==
  ASSUME ConnectLimits, ConnectInv, Connecting!Send
  PROVE  Routed' /\ Connecting!SpeaksAsTold'
<1> USE DEF ConnectInv
<1>1. PICK s \in selected, peer \in Connecting!Peers :
        LET via == Connecting!Pool(s)
            versions == IF s.instance.scheme = "https"
                          THEN UNION {Connecting!Opened(via, a) :
                                        a \in {a \in Connecting!Negotiated(via, peer) : peer.tls}}
                          ELSE {IF via = "http2" THEN "2" ELSE "1.1"}
            spoken == {v \in versions : /\ v \in peer.versions
                                        /\ (s.instance.scheme = "https") = peer.tls}
        IN /\ \/ spoken = {} /\ connection' = {[tls |-> FALSE, version |-> "failed", shard |-> 0]}
              \/ \E v \in spoken :
                   connection' = {[tls |-> s.instance.scheme = "https", version |-> v,
                                   shard |-> IF via = "http1" THEN 0
                                             ELSE Connecting!RequestShard(s)]}
           /\ next' = IF via # "http1" /\ s.requestId = {}
                        THEN [next EXCEPT ![via] = (@ + 1) % Shards] ELSE next
  BY Zenon DEF Connecting!Send
<1>2. UNCHANGED <<client, selected>> /\ selected = {s}
  <2>1. UNCHANGED <<client, selected>>
    BY Zenon DEF Connecting!Send
  <2> QED
    BY <2>1 DEF Routed
<1> DEFINE via == Connecting!Pool(s)
<1>3. via \in {"auto", "http2", "http1"}
  BY DEF Connecting!Pool
<1>4. Routed'
  <2>1. DOMAIN next' = {"auto", "http2"} /\ next'["auto"] \in Nat /\ next'["http2"] \in Nat
    <3>1. \A n \in Nat : (n + 1) % Shards \in Nat
      BY DEF ConnectLimits
    <3>2. \/ next' = next
          \/ via # "http1" /\ next' = [next EXCEPT ![via] = (next[via] + 1) % Shards]
      BY <1>1
    <3> HIDE DEF via
    <3> QED
      BY <1>3, <3>1, <3>2 DEF Routed
  <2> QED
    BY <1>2, <2>1 DEF Routed
<1>5. ASSUME NEW c \in client, NEW w \in connection', w.version # "failed"
      PROVE  /\ w.tls <=> (s.instance.scheme = "https")
             /\ w.version \in {"1.1", "2"}
             /\ w.version \in s.instance.capabilities.versions
             /\ c.policy = "Http1" => w.version = "1.1"
             /\ c.policy = "Http2" => w.version = "2" /\ s.instance.scheme = "https"
             /\ c.policy = "H2c" => w.version = "2" /\ s.instance.scheme # "https"
             /\ c.policy = "Auto" /\ w.version = "2" => s.instance.scheme = "https"
             /\ w.shard \in 0 .. Shards - 1
  <2> DEFINE scheme == s.instance.scheme
             versions == s.instance.capabilities.versions
             spoken == IF s.instance.scheme = "https"
                          THEN UNION {Connecting!Opened(via, a) :
                                        a \in {a \in Connecting!Negotiated(via, peer) : peer.tls}}
                          ELSE {IF via = "http2" THEN "2" ELSE "1.1"}
  <2>1. PICK v \in spoken :
          w = [tls |-> scheme = "https", version |-> v,
               shard |-> IF via = "http1" THEN 0 ELSE Connecting!RequestShard(s)]
    <3>1. \/ connection' = {[tls |-> FALSE, version |-> "failed", shard |-> 0]}
          \/ \E v \in spoken :
               connection' = {[tls |-> scheme = "https", version |-> v,
                               shard |-> IF via = "http1" THEN 0
                                         ELSE Connecting!RequestShard(s)]}
      BY <1>1
    <3> HIDE DEF spoken, via, scheme
    <3>2. CASE connection' = {[tls |-> FALSE, version |-> "failed", shard |-> 0]}
      BY <1>5, <3>2
    <3> QED
      BY <1>5, <3>1, <3>2
  <2>2. (w.tls <=> scheme = "https") /\ w.version = v
        /\ w.shard = (IF via = "http1" THEN 0 ELSE Connecting!RequestShard(s))
    <3> HIDE DEF spoken, via, scheme
    <3> QED
      BY <2>1
  <2>3. w.shard \in 0 .. Shards - 1
    <3>1. CASE via = "http1"
      BY <2>2, <3>1 DEF ConnectLimits
    <3>2. CASE via # "http1"
      BY <2>2, <3>2, ShardInRange
    <3> QED
      BY <3>1, <3>2
  <2>4. /\ v \in Connecting!Versions
        /\ via = "http2" => v = "2"
        /\ via = "http1" => v = "1.1"
        /\ via = "auto" /\ scheme # "https" => v = "1.1"
    <3>1. CASE scheme = "https"
      <4>1. PICK a \in Connecting!Negotiated(via, peer) : v \in Connecting!Opened(via, a)
        BY <2>1, <3>1
      <4> QED
        BY <1>3, <3>1, <4>1, SpokenByPool
    <3>2. CASE scheme # "https"
      <4>1. v = IF via = "http2" THEN "2" ELSE "1.1"
        BY <2>1, <3>2
      <4> QED
        BY <3>2, <4>1 DEF Connecting!Versions
    <3> QED
      BY <3>1, <3>2
  <2>5. /\ s.auto <=> Connecting!ShouldAutoNegotiate(c.policy, scheme, versions)
        /\ ~s.auto => s.version \in Connecting!SelectHttpVersion(c.policy, scheme, versions)
        /\ c.policy \in Connecting!Policies
    BY DEF Routed, Built
  <2> HIDE DEF spoken, scheme, versions
  <2>6. CASE s.auto
    <3>1. via = "auto" /\ c.policy = "Auto" /\ scheme = "https" /\ versions = Connecting!Versions
      BY <2>5, <2>6 DEF Connecting!ShouldAutoNegotiate, Connecting!Pool
    <3>2. v \in {"1.1", "2"} /\ v \in versions
      BY <2>4, <3>1 DEF Connecting!Versions
    <3> QED
      BY <2>2, <2>3, <3>1, <3>2 DEF scheme, versions
  <2>7. CASE ~s.auto
    <3>1. /\ s.version \in versions /\ s.version \in {"1.1", "2"}
          /\ c.policy = "Http1" => s.version = "1.1"
          /\ c.policy = "Http2" => s.version = "2" /\ scheme = "https"
          /\ c.policy = "H2c" => s.version = "2" /\ scheme = "http"
          /\ c.policy = "Auto" /\ s.version = "2" => scheme = "https"
      BY <2>5, <2>7 DEF Connecting!SelectHttpVersion, Connecting!Policies
    <3>2. v = s.version
      BY <2>4, <2>7, <3>1 DEF Connecting!Pool
    <3> QED
      BY <2>2, <2>3, <3>1, <3>2 DEF scheme, versions
  <2> QED
    BY <2>6, <2>7
<1>6. Connecting!SpeaksAsTold'
  <2>1. ASSUME NEW c \in client', NEW t \in selected', NEW w \in connection', w.version # "failed"
        PROVE  /\ c.binding \in t.instance.capabilities.bindings
               /\ w.tls <=> (t.instance.scheme = "https")
               /\ w.version \in t.instance.capabilities.versions
               /\ c.policy = "Http1" => w.version = "1.1"
               /\ c.policy = "Http2" => w.version = "2" /\ w.tls
               /\ c.policy = "H2c" => w.version = "2" /\ ~w.tls
               /\ c.policy = "Auto" /\ w.version = "2" => w.tls
               /\ w.shard \in 0 .. Shards - 1
    <3>1. t = s /\ c \in client
      BY <1>2
    <3>2. c.binding \in s.instance.capabilities.bindings
      BY <3>1 DEF Routed
    <3> QED
      BY <1>5, <2>1, <3>1, <3>2
  <2> QED
    BY <2>1 DEF Connecting!SpeaksAsTold
<1> QED
  BY <1>4, <1>6

\* The other steps leave the call alone, end it, or come before there is one.
LEMMA ConnectStepInv ==
  ConnectLimits /\ ConnectInv /\ [Connecting!Next]_(Connecting!vars) => ConnectInv'
<1> SUFFICES ASSUME ConnectLimits, ConnectInv, [Connecting!Next]_(Connecting!vars)
             PROVE  ConnectInv'
  OBVIOUS
<1>1. CASE UNCHANGED Connecting!vars
  <2>1. Connecting!Refused' = Connecting!Refused
    BY <1>1, Zenon DEF Connecting!vars, Connecting!Refused
  <2> QED
    BY <1>1, <2>1 DEF ConnectInv, Built, Routed, Connecting!ConnectsAsTold,
                      Connecting!SpeaksAsTold, Connecting!vars
<1>2. CASE Connecting!Next
  <2>1. Built'
    BY <1>2, BuiltStep DEF ConnectInv
  <2>2. CASE Connecting!SelectEndpoint
    BY <2>1, <2>2, SelectEndpointInv DEF ConnectInv
  <2>3. CASE Connecting!Send
    BY <2>1, <2>3, SendInv DEF ConnectInv
  <2>4. CASE Connecting!CallEnds
    <3>1. selected' = {} /\ UNCHANGED next
      BY <2>4 DEF Connecting!CallEnds
    <3> QED
      BY <2>1, <3>1 DEF ConnectInv, Routed, Connecting!SpeaksAsTold
  <2>5. CASE Connecting!HandOut
    <3>1. selected' = {} /\ UNCHANGED next
      BY <2>5 DEF Connecting!HandOut, ConnectInv, Built
    <3> QED
      BY <2>1, <3>1 DEF ConnectInv, Routed, Connecting!SpeaksAsTold
  <2>6. CASE UNCHANGED <<client, selected, next, connection>>
    BY <2>1, <2>6 DEF ConnectInv, Routed, Connecting!SpeaksAsTold
  <2>7. CASE \/ Connecting!Direct \/ Connecting!Discover \/ Connecting!Binding
             \/ Connecting!SetHttpVersionPolicy \/ Connecting!DirectCapabilities
    BY <2>6, <2>7
       DEF Connecting!Direct, Connecting!Discover, Connecting!Binding,
           Connecting!SetHttpVersionPolicy, Connecting!DirectCapabilities,
           Connecting!Configured
  <2>8. CASE \/ Connecting!ConnectAfterClose \/ Connecting!Refuse \/ Connecting!AcquireRefused
             \/ Connecting!AcquireFails \/ Connecting!ConnectDropped
    BY <2>6, <2>8
       DEF Connecting!ConnectAfterClose, Connecting!Refuse, Connecting!AcquireRefused,
           Connecting!AcquireFails, Connecting!ConnectDropped, Connecting!Ends
  <2>9. CASE \/ Connecting!ConnectWhileRunning \/ Connecting!Acquire \/ Connecting!AcquireReady
             \/ Connecting!DirectoryChanges \/ Connecting!Close \/ Connecting!CloseManager
    BY <2>6, <2>9
       DEF Connecting!ConnectWhileRunning, Connecting!Acquire, Connecting!AcquireReady,
           Connecting!DirectoryChanges, Connecting!Close, Connecting!CloseManager
  <2> QED
    BY <1>2, <2>2, <2>3, <2>4, <2>5, <2>7, <2>8, <2>9 DEF Connecting!Next
<1> QED
  BY <1>1, <1>2

\* connect() gives out a client that can be used or none; what is refused leaves
\* nothing, and what fails or is dropped while it waits leaves the slot of its selector
\* with the manager.  Every request travels as its policy says to an endpoint that
\* advertised it, whatever the peer turns out to be and however the directory changes.
THEOREM ClientsTalkAsTold ==
  ASSUME ConnectLimits
  PROVE  Connecting!Spec => [](Connecting!ConnectsAsTold /\ Connecting!SpeaksAsTold)
<1>1. ConnectInv => Connecting!ConnectsAsTold /\ Connecting!SpeaksAsTold
  BY DEF ConnectInv, Built
<1>2. ConnectInv /\ [Connecting!Next]_(Connecting!vars) => ConnectInv'
  BY ConnectStepInv
<1> QED
  BY ConnectInitInv, <1>1, <1>2, PTL DEF Connecting!Spec
=============================================================================
