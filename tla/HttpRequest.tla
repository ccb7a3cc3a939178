------------------------------ MODULE HttpRequest ------------------------------
(***************************************************************************)
(* The path of a request through the server (server/http.rs): readiness,   *)
(* admission, the body (wire/mod.rs), interceptors and handler             *)
(* (service.rs), the response, and the two byte budgets                    *)
(* (runtime/budget.rs) all requests share.                                 *)
(*                                                                         *)
(* A request runs by itself between two awaits, but other requests use the *)
(* budgets at the same time, so the load and the exchange of try_add are   *)
(* steps of their own.  The deadline, and the loss of the connection, drop *)
(* the request's future at an await and with it every permit it holds.     *)
(* Bytes are counted; what they say is left out.  The admission gate is    *)
(* taken as AdmissionContract describes it.                                *)
(***************************************************************************)
EXTENDS Naturals, FiniteSets

CONSTANTS Requests,
          Concurrency,       \* values of max_concurrent_requests
          QueueCapacity,     \* queue_capacity
          MaxRequestBody,    \* max_request_body
          MaxResponseBody,   \* max_response_body
          RequestLimit,      \* request_byte_budget
          ResponseLimit,     \* response_byte_budget
          ChunkReservation,  \* CHUNK_RESERVATION
          Lengths,           \* Content-Length of the requests that have one
          Frames,            \* sizes of what is read and written at once
          Bodies             \* sizes of the responses interceptors make

ASSUME RequestsAssumption == IsFiniteSet(Requests)

ASSUME LimitsAssumption ==
  /\ Concurrency \subseteq Nat \ {0} /\ QueueCapacity \in Nat
  /\ MaxRequestBody \in Nat \ {0} /\ MaxResponseBody \in Nat \ {0}
  /\ RequestLimit \in Nat \ {0} /\ ResponseLimit \in Nat \ {0}
  /\ ChunkReservation \in Nat \ {0}
  /\ Lengths \subseteq Nat /\ Frames \subseteq Nat \ {0} /\ Bodies \subseteq Nat

Budgets == {"request", "response"}
Limit == [b \in Budgets |-> IF b = "request" THEN RequestLimit ELSE ResponseLimit]

VARIABLES
  maxConcurrent, \* max_concurrent_requests of this server
  readiness,   \* what requests are told before admission
  gate,        \* the admission gate
  used,        \* ByteBudget.used, of each budget
  req          \* each request

vars == <<maxConcurrent, readiness, gate, used, req>>

NoAdd == [budget |-> "request", bytes |-> 0, seen |-> 0, size |-> 0, next |-> "none"]
NoBytes == [b \in Budgets |-> 0]

\* length is Content-Length, as the set of its values; body and out are the bytes
\* of the two bodies in memory, held those of the permits; add is a try_add in
\* progress, handled how often the handler was called.
NewRequest == [pc |-> "idle", hasBody |-> FALSE, length |-> {}, body |-> 0, out |-> 0,
               held |-> NoBytes, guard |-> FALSE, add |-> NoAdd, handled |-> 0,
               answer |-> "none"]

Init ==
  /\ maxConcurrent \in Concurrency
  /\ readiness = "not_ready"
  /\ gate = "open"
  /\ used = NoBytes
  /\ req = [r \in Requests |-> NewRequest]

-----------------------------------------------------------------------------
(***************************************************************************)
(* Permits                                                                 *)
(***************************************************************************)

At(r, pc) == req[r].pc = pc

\* The request goes on as q; permits it no longer has are released by their drops.
Continue(r, q) ==
  /\ req' = [req EXCEPT ![r] = q]
  /\ used' = [b \in Budgets |-> used[b] - (req[r].held[b] - q.held[b])]

\* The request's future ends: the guard and every permit are dropped.
Ended(r, answer) ==
  [req[r] EXCEPT !.pc = "done", !.hasBody = FALSE, !.length = {}, !.body = 0, !.out = 0, !.held = NoBytes,
                 !.guard = FALSE, !.add = NoAdd, !.answer = answer]

Leave(r, answer) == Continue(r, Ended(r, answer))

\* try_reserve or grow for what the request does next with a body of that size.
Reserve(r, budget, bytes, size, next) ==
  Continue(r, [req[r] EXCEPT !.pc = "load",
                 !.add = [budget |-> budget, bytes |-> bytes, seen |-> 0,
                          size |-> size, next |-> next]])

\* try_add: the load of the current value.
Load(r) ==
  /\ At(r, "load")
  /\ req' = [req EXCEPT ![r].pc = "exchange", ![r].add.seen = used[req[r].add.budget]]
  /\ UNCHANGED <<maxConcurrent, readiness, gate, used>>

\* What the request is once the bytes are its own.
Granted(r) ==
  LET a == req[r].add IN
  [req[r] EXCEPT !.held[a.budget] = @ + a.bytes, !.add = NoAdd,
                 !.body = IF a.budget = "request" THEN a.size ELSE @,
                 !.out = IF a.budget = "response" THEN a.size ELSE @,
                 !.pc = a.next,
                 !.guard = IF a.next = "sending" THEN FALSE ELSE @,
                 !.answer = IF a.next = "sending" THEN "ok" ELSE @]

\* The sum is stored whatever the others have done since the load.
ExchangeBlind(r) ==
  LET a == req[r].add IN
  /\ At(r, "exchange")
  /\ IF a.seen + a.bytes > Limit[a.budget] THEN Leave(r, "exhausted")
     ELSE /\ used' = [used EXCEPT ![a.budget] = a.seen + a.bytes]
          /\ req' = [req EXCEPT ![r] = Granted(r)]
  /\ UNCHANGED <<maxConcurrent, readiness, gate>>

\* try_add: the limit and the exchange, which is tried again with the value found.
Exchange(r) ==
  LET a == req[r].add IN
  /\ At(r, "exchange")
  /\ \/ a.seen + a.bytes > Limit[a.budget] /\ Leave(r, "exhausted")
     \/ /\ a.seen + a.bytes <= Limit[a.budget]
        /\ used[a.budget] = a.seen
        /\ used' = [used EXCEPT ![a.budget] = a.seen + a.bytes]
        /\ req' = [req EXCEPT ![r] = Granted(r)]
     \/ /\ a.seen + a.bytes <= Limit[a.budget]
        /\ used[a.budget] # a.seen
        /\ req' = [req EXCEPT ![r].add.seen = used[a.budget]]
        /\ UNCHANGED used
  /\ UNCHANGED <<maxConcurrent, readiness, gate>>

-----------------------------------------------------------------------------
(***************************************************************************)
(* Head and admission                                                      *)
(***************************************************************************)

Arrive(r) ==
  /\ At(r, "idle")
  /\ \E hasBody \in BOOLEAN, length \in {{}} \cup {{n} : n \in Lengths} :
       req' = [req EXCEPT ![r].pc = "head", ![r].hasBody = hasBody, ![r].length = length]
  /\ UNCHANGED <<maxConcurrent, readiness, gate, used>>

\* validate_head, the version, the controls and their deadline; the route, the
\* service's controls, the query and the attempt.
RejectHead(r) ==
  /\ At(r, "head")
  /\ \E answer \in {"invalid", "deadline"} : Leave(r, answer)
  /\ UNCHANGED <<maxConcurrent, readiness, gate>>

CheckReadiness(r) ==
  /\ At(r, "head")
  /\ \/ readiness \in {"not_ready", "draining"} /\ Leave(r, readiness)
     \/ readiness = "ready" /\ Continue(r, [req[r] EXCEPT !.pc = "admission"])
  /\ UNCHANGED <<maxConcurrent, readiness, gate>>

Guards == {r \in Requests : req[r].guard}
Queue == {r \in Requests : req[r].pc = "queued"}
Free == Cardinality(Guards) < maxConcurrent

\* The guard is bound to `_` and dropped at once.
EnteredUnguarded(r) == [req[r] EXCEPT !.pc = "content"]

Entered(r) == [req[r] EXCEPT !.pc = "content", !.guard = TRUE]

\* acquire_admission up to the wait in the queue.
Admit(r) ==
  /\ At(r, "admission")
  /\ \/ gate = "draining" /\ Leave(r, "draining")
     \/ gate = "open" /\ Free /\ Continue(r, Entered(r))
     \/ /\ gate = "open" /\ ~Free
        /\ IF Cardinality(Queue) < QueueCapacity
             THEN Continue(r, [req[r] EXCEPT !.pc = "queued"])
             ELSE Leave(r, "overloaded")
  /\ UNCHANGED <<maxConcurrent, readiness, gate>>

Dequeue(r) ==
  /\ At(r, "queued")
  /\ \/ gate = "open" /\ Free /\ Continue(r, Entered(r))
     \/ gate = "draining" /\ Leave(r, "draining")
  /\ UNCHANGED <<maxConcurrent, readiness, gate>>

QueueTimeout(r) ==
  /\ At(r, "queued")
  /\ \E answer \in {"queue_timeout", "deadline"} : Leave(r, answer)
  /\ UNCHANGED <<maxConcurrent, readiness, gate>>

-----------------------------------------------------------------------------
(***************************************************************************)
(* The request body                                                        *)
(***************************************************************************)

\* execute_matched up to the head interceptor: Content-Length and Content-Type.
CheckContent(r) ==
  /\ At(r, "content")
  /\ \/ Leave(r, "invalid")
     \/ /\ req[r].hasBody \/ req[r].length \subseteq {0}
        /\ Continue(r, [req[r] EXCEPT !.pc = "head_interceptor"])
  /\ UNCHANGED <<maxConcurrent, readiness, gate>>

\* A response an interceptor has made itself, of any size and without a permit.
Replaced(r, size) == [req[r] EXCEPT !.pc = "encoding", !.out = size, !.held = NoBytes]

Interceptor(r) ==
  \/ \E size \in Bodies : Continue(r, Replaced(r, size))
  \/ \E answer \in {"application", "panic"} : Leave(r, answer)

HeadInterceptor(r) ==
  /\ At(r, "head_interceptor")
  /\ \/ Interceptor(r)
     \/ ~req[r].hasBody /\ Continue(r, [req[r] EXCEPT !.pc = "absent"])
     \/ /\ req[r].hasBody
        /\ IF \E n \in req[r].length : n > MaxRequestBody THEN Leave(r, "too_large")
           ELSE Reserve(r, "request", IF req[r].length = {} THEN 0
                                      ELSE CHOOSE n \in req[r].length : TRUE, 0, "reading")
  /\ UNCHANGED <<maxConcurrent, readiness, gate>>

\* div_ceil and the multiplication
Growth(needed) ==
  ((needed + ChunkReservation - 1) \div ChunkReservation) * ChunkReservation

\* read_body_with_role: a frame of the body.
ReadFrame(r) ==
  /\ At(r, "reading")
  /\ \E n \in Frames :
       LET next == req[r].body + n  reserved == req[r].held["request"] IN
       IF next > MaxRequestBody THEN Leave(r, "too_large")
       ELSE IF next > reserved
         THEN Reserve(r, "request", Growth(next - reserved), next, "reading")
       ELSE Continue(r, [req[r] EXCEPT !.body = next])
  /\ UNCHANGED <<maxConcurrent, readiness, gate>>

\* Its end: the length is compared, the JSON decoded and the permit dropped.
EndOfBody(r) ==
  /\ At(r, "reading")
  /\ \/ Leave(r, "invalid")
     \/ /\ req[r].length \subseteq {req[r].body}
        /\ Continue(r, [req[r] EXCEPT !.pc = "calling", !.length = {}, !.body = 0,
                                    !.held["request"] = 0])
  /\ UNCHANGED <<maxConcurrent, readiness, gate>>

StreamFails(r) ==
  /\ At(r, "reading") \/ At(r, "absent")
  /\ Leave(r, "stream")
  /\ UNCHANGED <<maxConcurrent, readiness, gate>>

\* validate_body_absent, and the arguments without a body
NoBody(r) ==
  /\ At(r, "absent")
  /\ \/ Leave(r, "invalid")
     \/ Continue(r, [req[r] EXCEPT !.pc = "calling"])
  /\ UNCHANGED <<maxConcurrent, readiness, gate>>

-----------------------------------------------------------------------------
(***************************************************************************)
(* Interceptors, handler and response                                      *)
(***************************************************************************)

CallInterceptor(r) ==
  /\ At(r, "calling")
  /\ \/ Interceptor(r)
     \/ Continue(r, [req[r] EXCEPT !.pc = "handling", !.handled = @ + 1])
  /\ UNCHANGED <<maxConcurrent, readiness, gate>>

\* The handler returns a value, fails or panics.
HandlerEnds(r) ==
  /\ At(r, "handling")
  /\ \/ \E answer \in {"application", "internal"} : Leave(r, answer)
     \/ Continue(r, [req[r] EXCEPT !.pc = "writing"])
  /\ UNCHANGED <<maxConcurrent, readiness, gate>>

\* BudgetedWriter::write
Write(r) ==
  /\ At(r, "writing")
  /\ \E n \in Frames :
       IF req[r].out + n > MaxResponseBody THEN Leave(r, "internal")
       ELSE Reserve(r, "response", n, req[r].out + n, "writing")
  /\ UNCHANGED <<maxConcurrent, readiness, gate>>

Written(r) ==
  /\ At(r, "writing")
  /\ Continue(r, [req[r] EXCEPT !.pc = "unwinding"])
  /\ UNCHANGED <<maxConcurrent, readiness, gate>>

\* The interceptors get the response back.
UnwindInterceptors(r) ==
  /\ At(r, "unwinding")
  /\ \/ Interceptor(r)
     \/ Continue(r, [req[r] EXCEPT !.pc = "encoding"])
  /\ UNCHANGED <<maxConcurrent, readiness, gate>>

\* The response leaves the future; only what its body holds stays with it.
Sending(r, out, permit) ==
  [req[r] EXCEPT !.pc = "sending", !.out = out, !.held["response"] = permit,
                 !.guard = FALSE, !.answer = "ok"]

\* encode_success: a body is paid for before it is sent.  A response to HEAD loses
\* body and permit, one whose status allows no body keeps the permit.
Encode(r) ==
  LET permit == req[r].held["response"] IN
  /\ At(r, "encoding")
  /\ \/ Continue(r, Sending(r, 0, permit))
     \/ Continue(r, Sending(r, 0, 0))
     \/ req[r].out > MaxResponseBody /\ Leave(r, "internal")
     \/ /\ req[r].out <= MaxResponseBody
        /\ IF req[r].out > permit
             THEN Reserve(r, "response", req[r].out - permit, req[r].out, "sending")
             ELSE Continue(r, Sending(r, req[r].out, permit))
  /\ UNCHANGED <<maxConcurrent, readiness, gate>>

\* GuardedBody and its last chunk are dropped.
Sent(r) ==
  /\ At(r, "sending")
  /\ Leave(r, req[r].answer)
  /\ UNCHANGED <<maxConcurrent, readiness, gate>>

-----------------------------------------------------------------------------
(***************************************************************************)
(* What happens to a request at an await, and the server's own steps       *)
(***************************************************************************)

Awaiting(r) ==
  req[r].pc \in {"head_interceptor", "reading", "absent", "calling", "handling",
                 "unwinding"}

\* Only the handler is stopped by the deadline.
DeadlineElapsesLate(r) ==
  /\ At(r, "handling")
  /\ Leave(r, "deadline")
  /\ UNCHANGED <<maxConcurrent, readiness, gate>>

DeadlineElapses(r) ==
  /\ Awaiting(r)
  /\ Leave(r, "deadline")
  /\ UNCHANGED <<maxConcurrent, readiness, gate>>

ConnectionLost(r) ==
  /\ Awaiting(r) \/ At(r, "queued") \/ At(r, "sending")
  /\ Leave(r, "lost")
  /\ UNCHANGED <<maxConcurrent, readiness, gate>>

BecomeReady ==
  /\ readiness = "not_ready"
  /\ readiness' = "ready"
  /\ UNCHANGED <<maxConcurrent, gate, used, req>>

StopReadiness ==
  /\ readiness # "draining"
  /\ readiness' = "draining"
  /\ UNCHANGED <<maxConcurrent, gate, used, req>>

BeginDraining ==
  /\ readiness = "draining"
  /\ gate = "open"
  /\ gate' = "draining"
  /\ UNCHANGED <<maxConcurrent, readiness, used, req>>

Head(r) == RejectHead(r) \/ CheckReadiness(r) \/ Admit(r) \/ CheckContent(r)
Body(r) == ReadFrame(r) \/ EndOfBody(r) \/ NoBody(r)
Response(r) == Write(r) \/ Written(r) \/ Encode(r)
Budget(r) == Load(r) \/ Exchange(r)
User(r) == HeadInterceptor(r) \/ CallInterceptor(r) \/ HandlerEnds(r)
           \/ UnwindInterceptors(r)
Lost(r) == StreamFails(r) \/ ConnectionLost(r)

Next ==
  \/ BecomeReady
  \/ StopReadiness
  \/ BeginDraining
  \/ \E r \in Requests :
       \/ Arrive(r) \/ Head(r) \/ Dequeue(r) \/ QueueTimeout(r) \/ Body(r) \/ User(r)
       \/ Response(r) \/ Budget(r) \/ Sent(r) \/ DeadlineElapses(r) \/ Lost(r)

Spec == Init /\ [][Next]_vars

\* What runs without an await goes on, and timers fire.  Nothing is assumed of the
\* peer, of interceptors or of handlers, nor of a server that may never drain.
Fairness ==
  \A r \in Requests :
    /\ WF_vars(Head(r))
    /\ WF_vars(Response(r))
    /\ WF_vars(Budget(r))
    /\ WF_vars(QueueTimeout(r))
    /\ WF_vars(DeadlineElapses(r))

FairSpec == Spec /\ Fairness

-----------------------------------------------------------------------------
(***************************************************************************)
(* Properties                                                              *)
(***************************************************************************)

\* The bytes in memory of each body.
InMemory(r) == [b \in Budgets |->
  IF b = "request" THEN req[r].body
  ELSE IF req[r].pc \in {"writing", "sending"} THEN req[r].out ELSE 0]

\* The bytes of the permits that are alive, one element for each byte.
Paid(b) == UNION {{r} \X (1 .. req[r].held[b]) : r \in Requests}

\* The budgets count exactly the permits that are alive, however reservations
\* interleave and wherever a request is dropped; they stay within their limits,
\* and every byte of a body that is read, written or sent is paid for.
MemoryAccounted ==
  \A b \in Budgets :
    /\ used[b] = Cardinality(Paid(b))
    /\ used[b] <= Limit[b]
    /\ \A r \in Requests : InMemory(r)[b] <= req[r].held[b]

\* The errors that the server marks as retryable (with_retry_hint).
Retryable == {"draining", "stream"}

\* A request that is told to try again has not reached its handler, wherever it was
\* when the server began to drain or the body's stream broke; and handlers run, and
\* responses are made, under one of the guards that the drain waits for.
RetryIsSafe ==
  /\ \A r \in Requests : req[r].answer \in Retryable => req[r].handled = 0
  /\ \A r \in Requests :
       req[r].handled > 0 /\ req[r].pc \notin {"sending", "done"} => req[r].guard
  /\ Cardinality(Guards) <= maxConcurrent

\* A request is answered: neither a peer that stops sending, nor an interceptor or a
\* handler that never returns, nor the queue keeps it inside.
Answered ==
  \A r \in Requests : req[r].pc # "idle" ~> req[r].pc \in {"sending", "done"}
=============================================================================
