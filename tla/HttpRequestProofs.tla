-------------------------- MODULE HttpRequestProofs --------------------------
(***************************************************************************)
(* Proofs about HttpRequest for every set of requests and every limit.     *)
(*                                                                         *)
(* A request moves by itself: nearly every action replaces it by a request *)
(* that holds no more than before.  So the invariant is one predicate of a *)
(* single request (Good), shown for each replacement, and two counts over  *)
(* all of them (Counts), which follow a replacement by ReplaceKeeps.       *)
(*                                                                         *)
(* The second part is about HttpResponse, the way of the outcome back to   *)
(* the caller: what encoding keeps of it, decoding finds (Reports).        *)
(***************************************************************************)
EXTENDS HttpRequest, FiniteSetTheorems, TLAPS

\* The places where a request runs under its guard, and the others.
Inside == {"content", "head_interceptor", "reading", "absent", "calling", "handling",
           "writing", "unwinding", "encoding", "load", "exchange"}
Places == Inside \cup {"idle", "head", "admission", "queued", "sending", "done"}

Answers == {"none", "ok", "invalid", "deadline", "not_ready", "draining", "overloaded",
            "queue_timeout", "too_large", "exhausted", "stream", "application", "panic",
            "internal", "lost"}

Addition == [budget : Budgets, bytes : Nat, seen : Nat, size : Nat,
             next : {"none", "reading", "writing", "sending"}]

Request == [pc : Places, hasBody : BOOLEAN, length : {{}} \cup {{n} : n \in Lengths},
            body : Nat, out : Nat, held : [Budgets -> Nat], guard : BOOLEAN,
            add : Addition, handled : Nat, answer : Answers]

TypeOK ==
  /\ maxConcurrent \in Concurrency
  /\ readiness \in {"not_ready", "ready", "draining"}
  /\ gate \in {"open", "draining"}
  /\ used \in [Budgets -> Nat]
  /\ req \in [Requests -> Request]

\* Where a request is, or goes on once its try_add has succeeded.
Stage(q) == IF q.pc \in {"load", "exchange"} THEN q.add.next ELSE q.pc

\* The bodies in memory are paid for, and a try_add in progress will pay for the
\* size that the request goes on with.
PaidFor(q) ==
  /\ q.body <= q.held["request"]
  /\ q.pc \in {"writing", "sending"} => q.out <= q.held["response"]
  /\ q.pc \in {"load", "exchange"} =>
       /\ q.add.next # "none"
       /\ q.add.budget = IF q.add.next = "reading" THEN "request" ELSE "response"
       /\ q.add.size <= q.held[q.add.budget] + q.add.bytes

\* The request body is gone after it was read, the handler is not called before,
\* there is no response before the handler is called, and what runs under the guard
\* has it.
InPlace(q) ==
  /\ q.body > 0 => Stage(q) = "reading"
  /\ q.out > 0 => Stage(q) \in {"writing", "unwinding", "encoding", "sending"}
  /\ q.handled > 0 => Stage(q) \in {"handling", "writing", "unwinding", "encoding",
                                    "sending", "done"}
  /\ q.pc \in Inside => q.guard
  /\ q.answer # "none" => q.pc \in {"sending", "done"}
  /\ q.answer \in Retryable => q.handled = 0

Good(q) == PaidFor(q) /\ InPlace(q)

\* The two counts over all requests.
Counts ==
  /\ \A b \in Budgets : used[b] = Cardinality(Paid(b)) /\ used[b] <= Limit[b]
  /\ Cardinality(Guards) <= maxConcurrent

Inv == TypeOK /\ (\A r \in Requests : Good(req[r])) /\ Counts

-----------------------------------------------------------------------------
\* One element for each byte that f gives to a request.
Bytes(f) == UNION {{r} \X (1 .. f[r]) : r \in Requests}

\* What every request of S gives is finite.
LEMMA BytesFinite ==
  ASSUME NEW S \in SUBSET Requests, NEW f \in [Requests -> Nat]
  PROVE  IsFiniteSet(UNION {{r} \X (1 .. f[r]) : r \in S})
<1> DEFINE g == [r \in S |-> {r} \X (1 .. f[r])]
           T == {{r} \X (1 .. f[r]) : r \in S}
<1>1. IsFiniteSet(S)
  BY RequestsAssumption, FS_Subset
<1>2. g \in Surjection(S, T)
  BY DEF Surjection
<1>3. IsFiniteSet(T)
  <2> HIDE DEF g, T
  <2> QED
    BY <1>1, <1>2, FS_Surjection
<1>4. \A r \in S : IsFiniteSet({r} \X (1 .. f[r]))
  <2>1. TAKE r \in S
  <2>2. IsFiniteSet({r})
    BY FS_Singleton
  <2>3. f[r] \in Int
    OBVIOUS
  <2>4. IsFiniteSet(1 .. f[r])
    BY <2>3, FS_Interval
  <2>5. QED
    BY <2>2, <2>4, FS_Product
<1>5. \A U \in T : IsFiniteSet(U)
  BY <1>4
<1>6. QED
  BY <1>3, <1>5, FS_UNION

\* The bytes of one request are as many as it was given.
LEMMA BytesOfOne ==
  ASSUME NEW r \in Requests, NEW n \in Nat
  PROVE  IsFiniteSet({r} \X (1 .. n)) /\ Cardinality({r} \X (1 .. n)) = n
<1>1. IsFiniteSet({r}) /\ Cardinality({r}) = 1
  BY FS_Singleton
<1>2. IsFiniteSet(1 .. n) /\ Cardinality(1 .. n) = n
  BY FS_Interval
<1>3. /\ IsFiniteSet({r} \X (1 .. n))
      /\ Cardinality({r} \X (1 .. n)) = Cardinality({r}) * Cardinality(1 .. n)
  BY <1>1, <1>2, FS_Product
<1>4. QED
  BY <1>1, <1>2, <1>3

\* All bytes are those of one request and those of the others.
LEMMA BytesSplit ==
  ASSUME NEW r \in Requests, NEW f \in [Requests -> Nat],
         NEW rest, rest = UNION {{x} \X (1 .. f[x]) : x \in Requests \ {r}}
  PROVE  /\ IsFiniteSet(Bytes(f))
         /\ Cardinality(Bytes(f)) = Cardinality(rest) + f[r]
         /\ Cardinality(rest) \in Nat
<1> DEFINE own == {r} \X (1 .. f[r])
<1>1. IsFiniteSet(rest) /\ Cardinality(rest) \in Nat
  BY BytesFinite, FS_CardinalityType
<1>2. IsFiniteSet(own) /\ Cardinality(own) = f[r]
  BY BytesOfOne
<1>3. Bytes(f) = rest \cup own
  BY DEF Bytes
<1>4. rest \cap own = {}
  OBVIOUS
<1>5. Cardinality(rest \cap own) = 0
  BY <1>4, FS_EmptySet
<1>6. /\ IsFiniteSet(rest \cup own)
      /\ Cardinality(rest \cup own) =
           Cardinality(rest) + Cardinality(own) - Cardinality(rest \cap own)
  BY <1>1, <1>2, FS_Union
<1>7. QED
  BY <1>1, <1>2, <1>3, <1>5, <1>6

\* What is given to one request changes the number of bytes by as much.
LEMMA BytesAfter ==
  ASSUME NEW r \in Requests, NEW f \in [Requests -> Nat], NEW g \in [Requests -> Nat],
         \A x \in Requests \ {r} : g[x] = f[x]
  PROVE  /\ Cardinality(Bytes(f)) \in Nat /\ Cardinality(Bytes(g)) \in Nat
         /\ f[r] <= Cardinality(Bytes(f))
         /\ Cardinality(Bytes(g)) = Cardinality(Bytes(f)) - (f[r] - g[r])
<1> DEFINE rest(h) == UNION {{x} \X (1 .. h[x]) : x \in Requests \ {r}}
<1>1. Cardinality(Bytes(f)) = Cardinality(rest(f)) + f[r] /\ Cardinality(rest(f)) \in Nat
  BY BytesSplit
<1>2. Cardinality(Bytes(g)) = Cardinality(rest(g)) + g[r]
  BY BytesSplit
<1>3. {{x} \X (1 .. g[x]) : x \in Requests \ {r}} = {{x} \X (1 .. f[x]) : x \in Requests \ {r}}
  OBVIOUS
<1>4. rest(g) = rest(f)
  BY <1>3
<1>5. f[r] \in Nat /\ g[r] \in Nat
  OBVIOUS
<1> HIDE DEF rest
<1>6. QED
  BY <1>1, <1>2, <1>4, <1>5

-----------------------------------------------------------------------------
(***************************************************************************)
(* Replacing one request                                                   *)
(***************************************************************************)

\* The counts follow the replacement of a request.
LEMMA PaidAfter ==
  ASSUME TypeOK, NEW r \in Requests, NEW q \in Request, req' = [req EXCEPT ![r] = q],
         NEW b \in Budgets
  PROVE  /\ Cardinality(Paid(b)) \in Nat /\ Cardinality(Paid(b)') \in Nat
         /\ req[r].held[b] <= Cardinality(Paid(b))
         /\ Cardinality(Paid(b)') = Cardinality(Paid(b)) - (req[r].held[b] - q.held[b])
<1> DEFINE f == [x \in Requests |-> req[x].held[b]]
           g == [x \in Requests |-> req'[x].held[b]]
<1>1. \A x \in Requests : req'[x] = IF x = r THEN q ELSE req[x]
  BY DEF TypeOK
<1>2. \A x \in Requests : req[x].held[b] \in Nat /\ q.held[b] \in Nat
  BY DEF TypeOK, Request
<1>3. f \in [Requests -> Nat] /\ g \in [Requests -> Nat]
  BY <1>1, <1>2
<1>4. \A x \in Requests \ {r} : g[x] = f[x]
  BY <1>1
<1>5. f[r] = req[r].held[b] /\ g[r] = q.held[b]
  BY <1>1
<1>6. Bytes(f) = Paid(b) /\ Bytes(g) = Paid(b)'
  BY DEF Bytes, Paid
<1> HIDE DEF f, g
<1>7. /\ Cardinality(Bytes(f)) \in Nat /\ Cardinality(Bytes(g)) \in Nat
      /\ f[r] <= Cardinality(Bytes(f))
      /\ Cardinality(Bytes(g)) = Cardinality(Bytes(f)) - (f[r] - g[r])
  BY <1>3, <1>4, BytesAfter
<1>8. QED
  BY <1>5, <1>6, <1>7

\* No replacement makes more guards than there may be.
LEMMA GuardsAfter ==
  ASSUME TypeOK, NEW r \in Requests, NEW q \in Request, req' = [req EXCEPT ![r] = q],
         q.guard => req[r].guard \/ Free, Cardinality(Guards) <= maxConcurrent
  PROVE  Cardinality(Guards') <= maxConcurrent
<1>1. IsFiniteSet(Guards) /\ Cardinality(Guards) \in Nat
  BY RequestsAssumption, FS_Subset, FS_CardinalityType DEF Guards
<1>2. \A x \in Requests : req'[x] = IF x = r THEN q ELSE req[x]
  BY DEF TypeOK
<1>3. maxConcurrent \in Nat
  BY LimitsAssumption DEF TypeOK
<1>4. CASE q.guard
  <2>1. Guards' = Guards \cup {r}
    BY <1>2, <1>4 DEF Guards
  <2>2. r \in Guards <=> req[r].guard
    BY DEF Guards
  <2>3. Cardinality(Guards \cup {r}) =
          IF r \in Guards THEN Cardinality(Guards) ELSE Cardinality(Guards) + 1
    BY <1>1, FS_AddElement
  <2>4. QED
    BY <1>1, <1>3, <1>4, <2>1, <2>2, <2>3 DEF Free
<1>5. CASE ~q.guard
  <2>1. Guards' \in SUBSET Guards
    BY <1>2, <1>5 DEF Guards
  <2>2. IsFiniteSet(Guards') /\ Cardinality(Guards') <= Cardinality(Guards)
    BY <1>1, <2>1, FS_Subset
  <2>3. Cardinality(Guards') \in Nat
    BY <2>2, FS_CardinalityType
  <2>4. QED
    BY <1>1, <1>3, <2>2, <2>3
<1>6. QED
  BY <1>4, <1>5

\* A sound request in place of another keeps the invariant, when the budgets are
\* told the difference and stay within their limits.
LEMMA ReplaceKeeps ==
  ASSUME Inv, NEW r \in Requests, NEW q \in Request, Good(q),
         req' = [req EXCEPT ![r] = q],
         used' = [b \in Budgets |-> used[b] - (req[r].held[b] - q.held[b])],
         \A b \in Budgets : used'[b] <= Limit[b],
         q.guard => req[r].guard \/ Free,
         UNCHANGED <<maxConcurrent, readiness, gate>>
  PROVE  Inv'
<1>1. \A b \in Budgets : used'[b] = Cardinality(Paid(b)') /\ used'[b] \in Nat
  <2>1. TAKE b \in Budgets
  <2>2. used'[b] = Cardinality(Paid(b)) - (req[r].held[b] - q.held[b])
    BY DEF Inv, Counts
  <2>3. QED
    BY <2>2, PaidAfter DEF Inv
<1>2. Cardinality(Guards') <= maxConcurrent
  BY GuardsAfter DEF Inv, Counts
<1>3. TypeOK'
  <2>1. used' \in [Budgets -> Nat]
    BY <1>1
  <2>2. req' \in [Requests -> Request]
    BY DEF Inv, TypeOK
  <2>3. QED
    BY <2>1, <2>2 DEF Inv, TypeOK
<1>4. \A x \in Requests : Good(req'[x])
  BY DEF Inv, TypeOK
<1>5. QED
  BY <1>1, <1>2, <1>3, <1>4 DEF Inv, Counts, Good, PaidFor, InPlace, Stage

\* The request goes on as a sound request that has no more than before.
LEMMA ContinueKeeps ==
  ASSUME Inv, NEW r \in Requests, NEW q \in Request, Good(q), Continue(r, q),
         \A b \in Budgets : q.held[b] <= req[r].held[b],
         q.guard => req[r].guard \/ Free,
         UNCHANGED <<maxConcurrent, readiness, gate>>
  PROVE  Inv'
<1>1. \A b \in Budgets : used'[b] <= Limit[b]
  <2>1. TAKE b \in Budgets
  <2>2. /\ used[b] \in Nat /\ req[r].held[b] \in Nat /\ q.held[b] \in Nat
        /\ Limit[b] \in Nat /\ used[b] <= Limit[b]
    BY LimitsAssumption DEF Inv, TypeOK, Request, Counts, Limit
  <2>3. used'[b] = used[b] - (req[r].held[b] - q.held[b])
    BY DEF Continue
  <2>4. QED
    BY <2>2, <2>3
<1>2. QED
  BY <1>1, ReplaceKeeps DEF Continue

\* A request that ends keeps the invariant, when it is told to try again only if
\* its handler was not called.
LEMMA LeaveKeeps ==
  ASSUME Inv, NEW r \in Requests, NEW answer \in Answers, Leave(r, answer),
         answer \in Retryable => req[r].handled = 0,
         UNCHANGED <<maxConcurrent, readiness, gate>>
  PROVE  Inv'
<1> DEFINE q == Ended(r, answer)
<1>1. req[r] \in Request /\ Good(req[r])
  BY DEF Inv, TypeOK
<1>2. q \in Request
  BY <1>1 DEF Ended, Request, Places, NoBytes, NoAdd, Addition, Budgets
<1>3. Good(q)
  BY <1>1 DEF Ended, Request, Good, PaidFor, InPlace, Stage, NoBytes, Budgets, Inside
<1>4. \A b \in Budgets : q.held[b] <= req[r].held[b]
  BY <1>1 DEF Ended, Request, NoBytes
<1>5. ~q.guard
  BY <1>1 DEF Ended, Request
<1>6. Continue(r, q)
  BY DEF Leave
<1> HIDE DEF q
<1>7. QED
  BY <1>2, <1>3, <1>4, <1>5, <1>6, ContinueKeeps

-----------------------------------------------------------------------------
(***************************************************************************)
(* The actions                                                             *)
(***************************************************************************)

\* The request a step begins with.
LEMMA Given ==
  ASSUME Inv, NEW r \in Requests
  PROVE  /\ req[r] \in Request /\ Good(req[r])
         /\ DOMAIN req[r] = {"pc", "hasBody", "length", "body", "out", "held", "guard",
                             "add", "handled", "answer"}
BY DEF Inv, TypeOK, Request

\* A request that only goes to another place where what it has is in order.
LEMMA GotoKeeps ==
  ASSUME Inv, NEW r \in Requests, NEW pc \in Places \ {"load", "exchange"},
         Good([req[r] EXCEPT !.pc = pc]),
         Continue(r, [req[r] EXCEPT !.pc = pc]),
         UNCHANGED <<maxConcurrent, readiness, gate>>
  PROVE  Inv'
<1> DEFINE q == [req[r] EXCEPT !.pc = pc]
<1>1. q \in Request /\ q.held = req[r].held /\ q.guard = req[r].guard
  BY Given DEF Request, Places, Inside
<1>2. \A b \in Budgets : q.held[b] <= req[r].held[b]
  BY <1>1, Given DEF Request
<1> HIDE DEF q
<1>3. Good(q) /\ Continue(r, q)
  BY DEF q
<1>4. QED
  BY <1>1, <1>2, <1>3, ContinueKeeps

\* A request that begins a try_add for the size it goes on with.
LEMMA ReserveKeeps ==
  ASSUME Inv, NEW r \in Requests, NEW budget \in Budgets, NEW bytes \in Nat,
         NEW size \in Nat, NEW next \in {"reading", "writing", "sending"},
         Reserve(r, budget, bytes, size, next),
         req[r].pc \in Inside \ {"load", "exchange"},
         budget = IF next = "reading" THEN "request" ELSE "response",
         size <= req[r].held[budget] + bytes,
         req[r].body > 0 => next = "reading",
         next = "reading" => req[r].handled = 0 /\ req[r].out = 0,
         UNCHANGED <<maxConcurrent, readiness, gate>>
  PROVE  Inv'
<1> DEFINE add == [budget |-> budget, bytes |-> bytes, seen |-> 0, size |-> size,
                   next |-> next]
           q == [req[r] EXCEPT !.pc = "load", !.add = add]
<1>1. req[r] \in Request /\ Good(req[r])
  BY Given
<1>2. add \in Addition
  BY DEF Addition
<1>3. q \in Request
  BY <1>1, <1>2 DEF Request, Places, Inside
<1>4. /\ q.held = req[r].held /\ q.guard = req[r].guard /\ q.pc = "load" /\ q.add = add
      /\ q.body = req[r].body /\ q.handled = req[r].handled /\ q.answer = req[r].answer
      /\ q.out = req[r].out
  BY <1>1 DEF Request
<1>5. Good(q)
  <2>1. req[r].answer = "none"
    BY <1>1 DEF Good, InPlace, Inside
  <2>2. req[r].out \in Nat /\ req[r].handled \in Nat /\ req[r].body \in Nat
    BY <1>1 DEF Request
  <2>3. PaidFor(q)
    BY <1>1, <1>4 DEF Good, PaidFor
  <2>4. InPlace(q)
    BY <1>1, <1>4, <2>1, <2>2 DEF Good, InPlace, Stage, Retryable
  <2>5. QED
    BY <2>3, <2>4 DEF Good
<1>6. \A b \in Budgets : q.held[b] <= req[r].held[b]
  BY <1>1, <1>4 DEF Request
<1>7. Continue(r, q)
  BY DEF Reserve
<1> HIDE DEF q
<1>8. QED
  BY <1>3, <1>4, <1>5, <1>6, <1>7, ContinueKeeps

\* Load replaces what the request has seen.
LEMMA SeenKeeps ==
  ASSUME Inv, NEW r \in Requests, req[r].pc \in {"load", "exchange"},
         req' = [req EXCEPT ![r].pc = "exchange", ![r].add.seen = used[req[r].add.budget]],
         UNCHANGED <<maxConcurrent, readiness, gate, used>>
  PROVE  Inv'
<1> DEFINE q == [req[r] EXCEPT !.pc = "exchange", !.add.seen = used[req[r].add.budget]]
<1>1. req[r] \in Request /\ Good(req[r])
  BY Given
<1>2. used[req[r].add.budget] \in Nat
  BY <1>1 DEF Inv, TypeOK, Request, Addition
<1>3. [req[r].add EXCEPT !.seen = used[req[r].add.budget]] \in Addition
  BY <1>1, <1>2 DEF Request, Addition
<1>4. q \in Request
  BY <1>1, <1>3 DEF Request, Places, Inside
<1>5. /\ q.held = req[r].held /\ q.guard = req[r].guard /\ q.pc = "exchange"
      /\ q.body = req[r].body /\ q.handled = req[r].handled /\ q.answer = req[r].answer
      /\ q.out = req[r].out
      /\ q.add.budget = req[r].add.budget /\ q.add.bytes = req[r].add.bytes
      /\ q.add.size = req[r].add.size /\ q.add.next = req[r].add.next
  BY <1>1 DEF Request, Addition
<1>6. Good(q)
  BY <1>1, <1>5 DEF Good, PaidFor, InPlace, Stage, Inside
<1>7. req' = [req EXCEPT ![r] = q]
  BY DEF Inv, TypeOK
<1>8. /\ used' = [b \in Budgets |-> used[b] - (req[r].held[b] - q.held[b])]
      /\ \A b \in Budgets : used'[b] <= Limit[b]
  <2>1. \A b \in Budgets : used[b] \in Nat /\ req[r].held[b] \in Nat
    BY <1>1 DEF Inv, TypeOK, Request
  <2>2. \A b \in Budgets : used[b] = used[b] - (req[r].held[b] - req[r].held[b])
    BY <2>1
  <2>3. used = [b \in Budgets |-> used[b] - (req[r].held[b] - q.held[b])]
    BY <1>5, <2>2 DEF Inv, TypeOK
  <2>4. QED
    BY <2>3 DEF Inv, Counts
<1> HIDE DEF q
<1>9. QED
  BY <1>4, <1>5, <1>6, <1>7, <1>8, ReplaceKeeps

\* An exchange that succeeds pays for the size.
LEMMA GrantedKeeps ==
  ASSUME Inv, NEW r \in Requests, At(r, "exchange"),
         used[req[r].add.budget] + req[r].add.bytes <= Limit[req[r].add.budget],
         used' = [used EXCEPT ![req[r].add.budget] = used[req[r].add.budget] + req[r].add.bytes],
         req' = [req EXCEPT ![r] = Granted(r)],
         UNCHANGED <<maxConcurrent, readiness, gate>>
  PROVE  Inv'
<1> DEFINE q == Granted(r)
           a == req[r].add
<1>1. req[r] \in Request /\ Good(req[r]) /\ a \in Addition
  BY Given DEF Request
<1>2. /\ a.next \in {"reading", "writing", "sending"}
      /\ a.budget = IF a.next = "reading" THEN "request" ELSE "response"
      /\ a.size <= req[r].held[a.budget] + a.bytes
  BY <1>1 DEF At, Good, PaidFor, Addition
<1>3. /\ q.held = [req[r].held EXCEPT ![a.budget] = @ + a.bytes]
      /\ q.add = NoAdd /\ q.pc = a.next
      /\ q.body = IF a.next = "reading" THEN a.size ELSE req[r].body
      /\ q.out = IF a.next = "reading" THEN req[r].out ELSE a.size
      /\ q.guard = IF a.next = "sending" THEN FALSE ELSE req[r].guard
      /\ q.answer = IF a.next = "sending" THEN "ok" ELSE req[r].answer
      /\ q.handled = req[r].handled /\ q.hasBody = req[r].hasBody
      /\ q.length = req[r].length
      /\ DOMAIN q = DOMAIN req[r]
  BY <1>1, <1>2 DEF Granted, Request
<1>4. q \in Request
  <2>1. [req[r].held EXCEPT ![a.budget] = @ + a.bytes] \in [Budgets -> Nat]
    BY <1>1 DEF Request, Addition
  <2>2. NoAdd \in Addition /\ a.next \in Places /\ a.size \in Nat /\ "ok" \in Answers
    BY <1>1, <1>2 DEF NoAdd, Addition, Budgets, Places, Inside, Answers
  <2>3. CASE a.next = "reading"
    BY <1>1, <1>2, <2>1, <2>2, <2>3 DEF Granted, Request
  <2>4. CASE a.next = "writing"
    BY <1>1, <1>2, <2>1, <2>2, <2>4 DEF Granted, Request
  <2>5. CASE a.next = "sending"
    BY <1>1, <1>2, <2>1, <2>2, <2>5 DEF Granted, Request
  <2>6. QED
    BY <1>2, <2>3, <2>4, <2>5
<1>5. Good(q)
  BY <1>1, <1>2, <1>3 DEF Good, PaidFor, InPlace, Stage, Inside, Request, Addition, Budgets, At, Retryable
<1>6. used' = [b \in Budgets |-> used[b] - (req[r].held[b] - q.held[b])]
  <2>1. \A b \in Budgets : used[b] \in Nat /\ req[r].held[b] \in Nat /\ a.bytes \in Nat
    BY <1>1 DEF Inv, TypeOK, Request, Addition
  <2>2. \A b \in Budgets : q.held[b] = IF b = a.budget THEN req[r].held[b] + a.bytes
                                       ELSE req[r].held[b]
    BY <1>1, <1>3 DEF Request
  <2>3. \A b \in Budgets : used'[b] = used[b] - (req[r].held[b] - q.held[b])
    BY <2>1, <2>2 DEF Inv, TypeOK
  <2>4. used' = [b \in Budgets |-> used'[b]]
    BY DEF Inv, TypeOK
  <2>5. QED
    BY <2>3, <2>4
<1>7. \A b \in Budgets : used'[b] <= Limit[b]
  BY DEF Inv, TypeOK, Counts
<1> HIDE DEF q
<1>8. q.guard => req[r].guard \/ Free
  BY <1>3
<1>9. req' = [req EXCEPT ![r] = q]
  BY DEF q
<1>10. QED
  BY <1>4, <1>5, <1>6, <1>7, <1>8, <1>9, ReplaceKeeps

\* What is reserved for a frame is enough for it.
LEMMA GrowthEnough ==
  ASSUME NEW n \in Nat
  PROVE  Growth(n) \in Nat /\ n <= Growth(n)
<1> DEFINE c == ChunkReservation
           a == n + c - 1
           d == a \div c
<1>1. c \in Nat /\ c > 0 /\ a \in Nat
  BY LimitsAssumption
<1> HIDE DEF c, a
<1>2. a = c * d + (a % c) /\ a % c \in 0 .. (c - 1) /\ d \in Nat
  BY <1>1
<1> HIDE DEF d
<1>3. d * c = c * d /\ d * c \in Nat
  BY <1>1, <1>2
<1>4. a = n + c - 1
  BY DEF a
<1>5. Growth(n) = d * c
  BY DEF Growth, a, c, d
<1>6. QED
  BY <1>1, <1>2, <1>3, <1>4, <1>5

\* The head of a request, admission and the queue.
LEMMA HeadKeeps ==
  ASSUME Inv, NEW r \in Requests,
         RejectHead(r) \/ CheckReadiness(r) \/ Admit(r) \/ Dequeue(r) \/ QueueTimeout(r)
           \/ CheckContent(r)
  PROVE  Inv'
<1>1. req[r] \in Request /\ Good(req[r])
  BY Given
<1>2. CASE RejectHead(r)
  <2>1. PICK answer \in {"invalid", "deadline"} : Leave(r, answer)
    BY <1>2 DEF RejectHead
  <2>2. answer \in Answers /\ answer \notin Retryable
    BY DEF Answers, Retryable
  <2>3. QED
    BY <1>2, <2>1, <2>2, LeaveKeeps DEF RejectHead
<1>3. req[r].pc \in {"head", "admission", "queued"} => req[r].handled = 0
  BY <1>1 DEF Good, InPlace, Stage, Request
<1>4. CASE CheckReadiness(r)
  <2>1. CASE readiness \in {"not_ready", "draining"} /\ Leave(r, readiness)
    <3>1. readiness \in Answers
      BY <2>1 DEF Answers
    <3>2. QED
      BY <1>3, <1>4, <2>1, <3>1, LeaveKeeps DEF CheckReadiness, At
  <2>2. CASE Continue(r, [req[r] EXCEPT !.pc = "admission"])
    <3>1. Good([req[r] EXCEPT !.pc = "admission"])
      BY <1>1, <1>3, <1>4 DEF CheckReadiness, At, Good, PaidFor, InPlace, Stage, Request, Inside
    <3>2. "admission" \in Places \ {"load", "exchange"}
      BY DEF Places
    <3>3. QED
      BY <1>4, <2>2, <3>1, <3>2, GotoKeeps DEF CheckReadiness
  <2>3. QED
    BY <1>4, <2>1, <2>2 DEF CheckReadiness
<1>5. ASSUME At(r, "admission") \/ At(r, "queued"), Free, Continue(r, Entered(r)),
             UNCHANGED <<maxConcurrent, readiness, gate>>
      PROVE  Inv'
  <2> DEFINE q == Entered(r)
  <2>1. q \in Request
    BY <1>1 DEF Entered, Request, Places, Inside
  <2>2. Good(q)
    BY <1>1, <1>3, <1>5 DEF Entered, At, Good, PaidFor, InPlace, Stage, Request
  <2>3. \A b \in Budgets : q.held[b] <= req[r].held[b]
    BY <1>1 DEF Entered, Request
  <2> HIDE DEF q
  <2>4. Continue(r, q)
    BY <1>5 DEF q
  <2>5. QED
    BY <1>5, <2>1, <2>2, <2>3, <2>4, ContinueKeeps
<1>6. ASSUME At(r, "admission") \/ At(r, "queued"), Leave(r, "draining"),
             UNCHANGED <<maxConcurrent, readiness, gate>>
      PROVE  Inv'
  <2>1. "draining" \in Answers
    BY DEF Answers
  <2>2. QED
    BY <1>3, <1>6, <2>1, LeaveKeeps DEF At
<1>7. CASE Admit(r)
  <2>1. CASE Continue(r, [req[r] EXCEPT !.pc = "queued"])
    <3>1. Good([req[r] EXCEPT !.pc = "queued"])
      BY <1>1, <1>3, <1>7 DEF Admit, At, Good, PaidFor, InPlace, Stage, Request, Inside
    <3>2. "queued" \in Places \ {"load", "exchange"}
      BY DEF Places
    <3>3. QED
      BY <1>7, <2>1, <3>1, <3>2, GotoKeeps DEF Admit
  <2>2. CASE Leave(r, "overloaded")
    <3>1. "overloaded" \in Answers /\ "overloaded" \notin Retryable
      BY DEF Answers, Retryable
    <3>2. QED
      BY <1>7, <2>2, <3>1, LeaveKeeps DEF Admit
  <2>3. QED
    BY <1>5, <1>6, <1>7, <2>1, <2>2 DEF Admit
<1>8. CASE Dequeue(r)
  BY <1>5, <1>6, <1>8 DEF Dequeue
<1>9. CASE QueueTimeout(r)
  <2>1. PICK answer \in {"queue_timeout", "deadline"} : Leave(r, answer)
    BY <1>9 DEF QueueTimeout
  <2>2. answer \in Answers /\ answer \notin Retryable
    BY DEF Answers, Retryable
  <2>3. QED
    BY <1>9, <2>1, <2>2, LeaveKeeps DEF QueueTimeout
<1>10. CASE CheckContent(r)
  <2>1. CASE Leave(r, "invalid")
    <3>1. "invalid" \in Answers /\ "invalid" \notin Retryable
      BY DEF Answers, Retryable
    <3>2. QED
      BY <1>10, <2>1, <3>1, LeaveKeeps DEF CheckContent
  <2>2. CASE Continue(r, [req[r] EXCEPT !.pc = "head_interceptor"])
    <3>1. Good([req[r] EXCEPT !.pc = "head_interceptor"])
      BY <1>1, <1>10 DEF CheckContent, At, Good, PaidFor, InPlace, Stage, Request, Inside
    <3>2. "head_interceptor" \in Places \ {"load", "exchange"}
      BY DEF Places, Inside
    <3>3. QED
      BY <1>10, <2>2, <3>1, <3>2, GotoKeeps DEF CheckContent
  <2>3. QED
    BY <1>10, <2>1, <2>2 DEF CheckContent
<1>11. QED
  BY <1>2, <1>4, <1>7, <1>8, <1>9, <1>10

\* A request arrives.
LEMMA ArriveKeeps ==
  ASSUME Inv, NEW r \in Requests, Arrive(r)
  PROVE  Inv'
<1>1. req[r] \in Request /\ Good(req[r]) /\ req[r].pc = "idle"
  BY Given DEF Arrive, At
<1>2. PICK hasBody \in BOOLEAN, length \in {{}} \cup {{n} : n \in Lengths} :
        req' = [req EXCEPT ![r].pc = "head", ![r].hasBody = hasBody, ![r].length = length]
  BY DEF Arrive
<1> DEFINE q == [req[r] EXCEPT !.pc = "head", !.hasBody = hasBody, !.length = length]
<1>3. q \in Request
  BY <1>1 DEF Request, Places
<1>4. Good(q)
  BY <1>1 DEF Good, PaidFor, InPlace, Stage, Request, Inside
<1>5. q.held = req[r].held /\ q.guard = req[r].guard
  BY <1>1 DEF Request
<1>6. req' = [req EXCEPT ![r] = q]
  BY <1>2 DEF Inv, TypeOK
<1>7. used' = [b \in Budgets |-> used[b] - (req[r].held[b] - q.held[b])]
  <2>1. \A b \in Budgets : used[b] \in Nat /\ req[r].held[b] \in Nat
    BY <1>1 DEF Inv, TypeOK, Request
  <2>2. \A b \in Budgets : used[b] = used[b] - (req[r].held[b] - req[r].held[b])
    BY <2>1
  <2>3. QED
    BY <1>5, <2>2 DEF Inv, TypeOK, Arrive
<1>8. \A b \in Budgets : used'[b] <= Limit[b]
  BY DEF Arrive, Inv, Counts
<1> HIDE DEF q
<1>9. QED
  BY <1>3, <1>4, <1>5, <1>6, <1>7, <1>8, ReplaceKeeps DEF Arrive

\* A request that ends without being told to try again keeps the invariant.
LEMMA FinalKeeps ==
  ASSUME Inv, NEW r \in Requests, NEW answer \in Answers \ Retryable, Leave(r, answer),
         UNCHANGED <<maxConcurrent, readiness, gate>>
  PROVE  Inv'
BY LeaveKeeps

\* The answers that do not ask for another try.
LEMMA FinalAnswers ==
  {"invalid", "too_large", "exhausted", "application", "panic", "internal", "deadline",
   "lost", "ok", "none"} \subseteq Answers \ Retryable
BY DEF Answers, Retryable

\* An interceptor's own response, and its errors.
LEMMA InterceptorKeeps ==
  ASSUME Inv, NEW r \in Requests, Interceptor(r),
         req[r].pc \in {"head_interceptor", "calling", "unwinding"},
         UNCHANGED <<maxConcurrent, readiness, gate>>
  PROVE  Inv'
<1>1. req[r] \in Request /\ Good(req[r])
  BY Given
<1>2. ASSUME NEW size \in Bodies, Continue(r, Replaced(r, size))
      PROVE  Inv'
  <2> DEFINE q == Replaced(r, size)
  <2>1. size \in Nat
    BY LimitsAssumption
  <2>2. q \in Request
    BY <1>1, <2>1 DEF Replaced, Request, NoBytes, Places, Inside
  <2>3. Good(q)
    BY <1>1 DEF Replaced, Good, PaidFor, InPlace, Stage, Request, NoBytes, Budgets, Inside
  <2>4. \A b \in Budgets : q.held[b] <= req[r].held[b]
    BY <1>1 DEF Replaced, Request, NoBytes
  <2>5. q.guard = req[r].guard
    BY <1>1 DEF Replaced, Request
  <2> HIDE DEF q
  <2>6. Continue(r, q)
    BY <1>2 DEF q
  <2>7. QED
    BY <2>2, <2>3, <2>4, <2>5, <2>6, ContinueKeeps
<1>3. QED
  BY <1>2, FinalAnswers, FinalKeeps DEF Interceptor

\* The request's body.
LEMMA BodyKeeps ==
  ASSUME Inv, NEW r \in Requests,
         ReadFrame(r) \/ EndOfBody(r) \/ NoBody(r) \/ StreamFails(r)
  PROVE  Inv'
<1>1. req[r] \in Request /\ Good(req[r])
  BY Given
<1>2. CASE ReadFrame(r)
  <2> DEFINE reserved == req[r].held["request"]
  <2>1. At(r, "reading") /\ UNCHANGED <<maxConcurrent, readiness, gate>>
    BY <1>2 DEF ReadFrame
  <2>2. reserved \in Nat /\ req[r].body \in Nat
    BY <1>1 DEF Request, Budgets
  <2>3. PICK n \in Frames :
          LET next == req[r].body + n IN
          IF next > MaxRequestBody THEN Leave(r, "too_large")
          ELSE IF next > reserved
            THEN Reserve(r, "request", Growth(next - reserved), next, "reading")
          ELSE Continue(r, [req[r] EXCEPT !.body = next])
    BY <1>2 DEF ReadFrame
  <2> DEFINE next == req[r].body + n
  <2>4. n \in Nat /\ next \in Nat
    BY <2>2, LimitsAssumption
  <2>5. CASE Leave(r, "too_large")
    BY <2>1, <2>5, FinalAnswers, FinalKeeps
  <2>6. CASE next > reserved /\ Reserve(r, "request", Growth(next - reserved), next, "reading")
    <3>1. next - reserved \in Nat
      BY <2>2, <2>4, <2>6
    <3>2. Growth(next - reserved) \in Nat /\ next - reserved <= Growth(next - reserved)
      BY <3>1, GrowthEnough
    <3>3. next <= reserved + Growth(next - reserved)
      BY <2>2, <2>4, <3>2
    <3>4. req[r].handled = 0 /\ req[r].out = 0
      BY <1>1, <2>1 DEF At, Good, InPlace, Stage, Request
    <3>5. req[r].pc \in Inside \ {"load", "exchange"} /\ "request" \in Budgets
      BY <2>1 DEF At, Inside, Budgets
    <3> HIDE DEF next, reserved
    <3>6. next <= req[r].held["request"] + Growth(next - reserved)
      BY <3>3 DEF reserved
    <3>7. QED
      BY <2>1, <2>4, <2>6, <3>2, <3>4, <3>5, <3>6, ReserveKeeps
  <2>7. CASE ~(next > reserved) /\ Continue(r, [req[r] EXCEPT !.body = next])
    <3> DEFINE q == [req[r] EXCEPT !.body = next]
    <3>1. q \in Request
      BY <1>1, <2>4 DEF Request
    <3>2. Good(q)
      BY <1>1, <2>1, <2>2, <2>4, <2>7 DEF At, Good, PaidFor, InPlace, Stage, Request
    <3>3. q.held = req[r].held /\ q.guard = req[r].guard
      BY <1>1 DEF Request
    <3>4. \A b \in Budgets : q.held[b] <= req[r].held[b]
      BY <1>1, <3>3 DEF Request
    <3> HIDE DEF q
    <3>5. Continue(r, q)
      BY <2>7 DEF q
    <3>6. QED
      BY <2>1, <3>1, <3>2, <3>3, <3>4, <3>5, ContinueKeeps
  <2>8. QED
    BY <2>3, <2>5, <2>6, <2>7
<1>3. CASE EndOfBody(r)
  <2>1. At(r, "reading") /\ UNCHANGED <<maxConcurrent, readiness, gate>>
    BY <1>3 DEF EndOfBody
  <2> DEFINE q == [req[r] EXCEPT !.pc = "calling", !.length = {}, !.body = 0,
                                 !.held["request"] = 0]
  <2>2. CASE Continue(r, q)
    <3>1. q \in Request
      BY <1>1 DEF Request, Places, Inside, Budgets
    <3>2. Good(q)
      BY <1>1, <2>1 DEF At, Good, PaidFor, InPlace, Stage, Request, Inside, Budgets
    <3>3. \A b \in Budgets : q.held[b] <= req[r].held[b]
      BY <1>1 DEF Request, Budgets
    <3>4. q.guard = req[r].guard
      BY <1>1 DEF Request
    <3> HIDE DEF q
    <3>5. QED
      BY <2>1, <2>2, <3>1, <3>2, <3>3, <3>4, ContinueKeeps
  <2>3. CASE Leave(r, "invalid")
    BY <2>1, <2>3, FinalAnswers, FinalKeeps
  <2>4. QED
    BY <1>3, <2>2, <2>3 DEF EndOfBody
<1>4. CASE NoBody(r)
  <2>1. At(r, "absent") /\ UNCHANGED <<maxConcurrent, readiness, gate>>
    BY <1>4 DEF NoBody
  <2>2. CASE Leave(r, "invalid")
    BY <2>1, <2>2, FinalAnswers, FinalKeeps
  <2>3. CASE Continue(r, [req[r] EXCEPT !.pc = "calling"])
    <3>1. Good([req[r] EXCEPT !.pc = "calling"])
      BY <1>1, <2>1 DEF At, Good, PaidFor, InPlace, Stage, Request, Inside
    <3>2. "calling" \in Places \ {"load", "exchange"}
      BY DEF Places, Inside
    <3>3. QED
      BY <2>1, <2>3, <3>1, <3>2, GotoKeeps
  <2>4. QED
    BY <1>4, <2>2, <2>3 DEF NoBody
<1>5. CASE StreamFails(r)
  <2>1. "stream" \in Answers
    BY DEF Answers
  <2>2. req[r].handled = 0
    BY <1>1, <1>5 DEF StreamFails, At, Good, InPlace, Stage, Request
  <2>3. QED
    BY <1>5, <2>1, <2>2, LeaveKeeps DEF StreamFails
<1>6. QED
  BY <1>2, <1>3, <1>4, <1>5

\* Interceptors and the handler.
LEMMA UserKeeps ==
  ASSUME Inv, NEW r \in Requests,
         HeadInterceptor(r) \/ CallInterceptor(r) \/ HandlerEnds(r) \/ UnwindInterceptors(r)
  PROVE  Inv'
<1>1. req[r] \in Request /\ Good(req[r])
  BY Given
<1>2. CASE HeadInterceptor(r)
  <2>1. At(r, "head_interceptor") /\ UNCHANGED <<maxConcurrent, readiness, gate>>
    BY <1>2 DEF HeadInterceptor
  <2>2. CASE Interceptor(r)
    BY <2>1, <2>2, InterceptorKeeps DEF At
  <2>3. CASE Continue(r, [req[r] EXCEPT !.pc = "absent"])
    <3>1. Good([req[r] EXCEPT !.pc = "absent"])
      BY <1>1, <2>1 DEF At, Good, PaidFor, InPlace, Stage, Request, Inside
    <3>2. "absent" \in Places \ {"load", "exchange"}
      BY DEF Places, Inside
    <3>3. QED
      BY <2>1, <2>3, <3>1, <3>2, GotoKeeps
  <2>4. CASE Leave(r, "too_large")
    BY <2>1, <2>4, FinalAnswers, FinalKeeps
  <2> DEFINE bytes == IF req[r].length = {} THEN 0 ELSE CHOOSE n \in req[r].length : TRUE
  <2>5. CASE Reserve(r, "request", bytes, 0, "reading")
    <3>1. bytes \in Nat
      BY <1>1, LimitsAssumption DEF Request
    <3>2. 0 <= req[r].held["request"] + bytes
      BY <1>1, <3>1 DEF Request, Budgets
    <3>3. req[r].handled = 0 /\ req[r].out = 0
      BY <1>1, <2>1 DEF At, Good, InPlace, Stage, Request
    <3>4. req[r].pc \in Inside \ {"load", "exchange"} /\ "request" \in Budgets
      BY <2>1 DEF At, Inside, Budgets
    <3> HIDE DEF bytes
    <3>5. QED
      BY <2>1, <2>5, <3>1, <3>2, <3>3, <3>4, ReserveKeeps
  <2>6. QED
    BY <1>2, <2>2, <2>3, <2>4, <2>5 DEF HeadInterceptor
<1>3. CASE CallInterceptor(r)
  <2>1. At(r, "calling") /\ UNCHANGED <<maxConcurrent, readiness, gate>>
    BY <1>3 DEF CallInterceptor
  <2>2. CASE Interceptor(r)
    BY <2>1, <2>2, InterceptorKeeps DEF At
  <2> DEFINE q == [req[r] EXCEPT !.pc = "handling", !.handled = @ + 1]
  <2>3. CASE Continue(r, q)
    <3>1. q \in Request
      <4>1. req[r].handled + 1 \in Nat /\ "handling" \in Places
        BY <1>1 DEF Request, Places, Inside
      <4>2. QED
        BY <1>1, <4>1 DEF Request
    <3>2. req[r].answer \notin Retryable
      BY <1>1, <2>1 DEF At, Good, InPlace, Retryable
    <3>3. Good(q)
      BY <1>1, <2>1, <3>2 DEF At, Good, PaidFor, InPlace, Stage, Request, Inside
    <3>4. q.held = req[r].held /\ q.guard = req[r].guard
      BY <1>1 DEF Request
    <3>5. \A b \in Budgets : q.held[b] <= req[r].held[b]
      BY <1>1, <3>4 DEF Request
    <3> HIDE DEF q
    <3>6. QED
      BY <2>1, <2>3, <3>1, <3>3, <3>4, <3>5, ContinueKeeps
  <2>4. QED
    BY <1>3, <2>2, <2>3 DEF CallInterceptor
<1>4. CASE HandlerEnds(r)
  <2>1. At(r, "handling") /\ UNCHANGED <<maxConcurrent, readiness, gate>>
    BY <1>4 DEF HandlerEnds
  <2>2. CASE \E answer \in {"application", "internal"} : Leave(r, answer)
    BY <2>1, <2>2, FinalAnswers, FinalKeeps
  <2>3. CASE Continue(r, [req[r] EXCEPT !.pc = "writing"])
    <3>1. req[r].out = 0 /\ req[r].held["response"] \in Nat
      BY <1>1, <2>1 DEF At, Good, InPlace, Stage, Request, Budgets
    <3>2. Good([req[r] EXCEPT !.pc = "writing"])
      BY <1>1, <2>1, <3>1 DEF At, Good, PaidFor, InPlace, Stage, Request, Inside
    <3>3. "writing" \in Places \ {"load", "exchange"}
      BY DEF Places, Inside
    <3>4. QED
      BY <2>1, <2>3, <3>2, <3>3, GotoKeeps
  <2>4. QED
    BY <1>4, <2>2, <2>3 DEF HandlerEnds
<1>5. CASE UnwindInterceptors(r)
  <2>1. At(r, "unwinding") /\ UNCHANGED <<maxConcurrent, readiness, gate>>
    BY <1>5 DEF UnwindInterceptors
  <2>2. CASE Interceptor(r)
    BY <2>1, <2>2, InterceptorKeeps DEF At
  <2>3. CASE Continue(r, [req[r] EXCEPT !.pc = "encoding"])
    <3>1. Good([req[r] EXCEPT !.pc = "encoding"])
      BY <1>1, <2>1 DEF At, Good, PaidFor, InPlace, Stage, Request, Inside
    <3>2. "encoding" \in Places \ {"load", "exchange"}
      BY DEF Places, Inside
    <3>3. QED
      BY <2>1, <2>3, <3>1, <3>2, GotoKeeps
  <2>4. QED
    BY <1>5, <2>2, <2>3 DEF UnwindInterceptors
<1>6. QED
  BY <1>2, <1>3, <1>4, <1>5

\* The response is written, encoded and sent.
LEMMA ResponseKeeps ==
  ASSUME Inv, NEW r \in Requests, Write(r) \/ Written(r) \/ Encode(r) \/ Sent(r)
  PROVE  Inv'
<1>1. req[r] \in Request /\ Good(req[r])
  BY Given
<1>2. /\ req[r].out \in Nat /\ req[r].held["response"] \in Nat
      /\ req[r].held["request"] \in Nat /\ req[r].body \in Nat
  BY <1>1 DEF Request, Budgets
<1>3. CASE Write(r)
  <2>1. At(r, "writing") /\ UNCHANGED <<maxConcurrent, readiness, gate>>
    BY <1>3 DEF Write
  <2>2. PICK n \in Frames :
          IF req[r].out + n > MaxResponseBody THEN Leave(r, "internal")
          ELSE Reserve(r, "response", n, req[r].out + n, "writing")
    BY <1>3 DEF Write
  <2>3. n \in Nat /\ req[r].out + n \in Nat
    BY <1>2, LimitsAssumption
  <2>4. CASE Leave(r, "internal")
    BY <2>1, <2>4, FinalAnswers, FinalKeeps
  <2>5. CASE Reserve(r, "response", n, req[r].out + n, "writing")
    <3>1. req[r].out + n <= req[r].held["response"] + n
      BY <1>1, <1>2, <2>1, <2>3 DEF At, Good, PaidFor
    <3>2. ~(req[r].body > 0)
      BY <1>1, <2>1 DEF At, Good, InPlace, Stage
    <3>3. req[r].pc \in Inside \ {"load", "exchange"} /\ "response" \in Budgets
      BY <2>1 DEF At, Inside, Budgets
    <3>4. QED
      BY <2>1, <2>3, <2>5, <3>1, <3>2, <3>3, ReserveKeeps
  <2>6. QED
    BY <2>2, <2>4, <2>5
<1>4. CASE Written(r)
  <2>1. At(r, "writing") /\ UNCHANGED <<maxConcurrent, readiness, gate>>
    BY <1>4 DEF Written
  <2>2. Good([req[r] EXCEPT !.pc = "unwinding"])
    BY <1>1, <2>1 DEF At, Good, PaidFor, InPlace, Stage, Request, Inside
  <2>3. "unwinding" \in Places \ {"load", "exchange"}
    BY DEF Places, Inside
  <2>4. QED
    BY <1>4, <2>1, <2>2, <2>3, GotoKeeps DEF Written
<1>5. CASE Encode(r)
  <2> DEFINE permit == req[r].held["response"]
  <2>1. At(r, "encoding") /\ UNCHANGED <<maxConcurrent, readiness, gate>>
    BY <1>5 DEF Encode
  <2>2. ASSUME NEW out \in Nat, NEW kept \in Nat, out <= kept \/ out = 0, kept <= permit,
               Continue(r, Sending(r, out, kept))
        PROVE  Inv'
    <3> DEFINE q == Sending(r, out, kept)
    <3>1. q \in Request
      BY <1>1 DEF Sending, Request, Places, Budgets, Answers
    <3>2. Good(q)
      BY <1>1, <1>2, <2>1, <2>2
      DEF Sending, At, Good, PaidFor, InPlace, Stage, Request, Inside, Budgets, Retryable
    <3>3. \A b \in Budgets : q.held[b] <= req[r].held[b]
      BY <1>1, <1>2, <2>2 DEF Sending, Request, Budgets
    <3>4. ~q.guard
      BY <1>1 DEF Sending, Request
    <3> HIDE DEF q
    <3>5. Continue(r, q)
      BY <2>2 DEF q
    <3>6. QED
      BY <2>1, <3>1, <3>2, <3>3, <3>4, <3>5, ContinueKeeps
  <2>3. CASE Leave(r, "internal")
    BY <2>1, <2>3, FinalAnswers, FinalKeeps
  <2>4. CASE req[r].out > permit
               /\ Reserve(r, "response", req[r].out - permit, req[r].out, "sending")
    <3>1. req[r].out - permit \in Nat /\ req[r].out <= permit + (req[r].out - permit)
      BY <1>2, <2>4
    <3>2. ~(req[r].body > 0)
      BY <1>1, <2>1 DEF At, Good, InPlace, Stage
    <3>3. req[r].pc \in Inside \ {"load", "exchange"} /\ "response" \in Budgets
      BY <2>1 DEF At, Inside, Budgets
    <3>4. QED
      BY <1>2, <2>1, <2>4, <3>1, <3>2, <3>3, ReserveKeeps
  <2>5. CASE Continue(r, Sending(r, 0, permit)) \/ Continue(r, Sending(r, 0, 0))
    BY <1>2, <2>2, <2>5
  <2>6. CASE ~(req[r].out > permit) /\ Continue(r, Sending(r, req[r].out, permit))
    BY <1>2, <2>2, <2>6
  <2>7. QED
    BY <1>5, <2>3, <2>4, <2>5, <2>6 DEF Encode
<1>6. CASE Sent(r)
  <2>1. req[r].answer \in Answers /\ (req[r].answer \in Retryable => req[r].handled = 0)
    BY <1>1 DEF Request, Good, InPlace
  <2>2. QED
    BY <1>6, <2>1, LeaveKeeps DEF Sent
<1>7. QED
  BY <1>3, <1>4, <1>5, <1>6

\* The load and the exchange of try_add.
LEMMA BudgetKeeps ==
  ASSUME Inv, NEW r \in Requests, Load(r) \/ Exchange(r)
  PROVE  Inv'
<1>1. CASE Load(r)
  BY <1>1, SeenKeeps DEF Load, At
<1>2. CASE Exchange(r)
  <2> DEFINE a == req[r].add
  <2>1. At(r, "exchange") /\ UNCHANGED <<maxConcurrent, readiness, gate>>
    BY <1>2 DEF Exchange
  <2>2. CASE Leave(r, "exhausted")
    BY <2>1, <2>2, FinalAnswers, FinalKeeps
  <2>3. CASE /\ a.seen + a.bytes <= Limit[a.budget]
             /\ used[a.budget] = a.seen
             /\ used' = [used EXCEPT ![a.budget] = a.seen + a.bytes]
             /\ req' = [req EXCEPT ![r] = Granted(r)]
    BY <2>1, <2>3, GrantedKeeps
  <2>4. CASE req' = [req EXCEPT ![r].add.seen = used[a.budget]] /\ UNCHANGED used
    <3>1. [req[r] EXCEPT !.pc = "exchange", !.add.seen = used[a.budget]] =
            [req[r] EXCEPT !.add.seen = used[a.budget]]
      BY <2>1, Given DEF At, Request
    <3>2. req' = [req EXCEPT ![r].pc = "exchange", ![r].add.seen = used[a.budget]]
      BY <2>4, <3>1 DEF Inv, TypeOK
    <3>3. QED
      BY <2>1, <2>4, <3>2, SeenKeeps DEF At
  <2>5. QED
    BY <1>2, <2>2, <2>3, <2>4 DEF Exchange
<1>3. QED
  BY <1>1, <1>2

-----------------------------------------------------------------------------
(***************************************************************************)
(* The theorems                                                            *)
(***************************************************************************)

\* A server before its first request.
LEMMA InitInv == Init => Inv
<1> SUFFICES ASSUME Init PROVE Inv
  OBVIOUS
<1>1. NewRequest \in Request
  BY DEF NewRequest, Request, Places, NoBytes, NoAdd, Addition, Budgets, Answers
<1>2. TypeOK
  BY <1>1 DEF Init, TypeOK, NoBytes
<1>3. \A r \in Requests : Good(req[r])
  BY DEF Init, NewRequest, Good, PaidFor, InPlace, Stage, NoBytes, Budgets, Inside, Retryable
<1>4. \A b \in Budgets : used[b] = Cardinality(Paid(b)) /\ used[b] <= Limit[b]
  <2>1. TAKE b \in Budgets
  <2>2. \A r \in Requests : req[r].held[b] = 0
    BY DEF Init, NewRequest, NoBytes
  <2>3. Paid(b) = {}
    BY <2>2 DEF Paid
  <2>4. used[b] = 0 /\ 0 <= Limit[b]
    BY LimitsAssumption DEF Init, NoBytes, Limit
  <2>5. QED
    BY <2>3, <2>4, FS_EmptySet
<1>5. Cardinality(Guards) <= maxConcurrent
  <2>1. Guards = {}
    BY DEF Init, NewRequest, Guards
  <2>2. Cardinality(Guards) = 0
    BY <2>1, FS_EmptySet
  <2>3. QED
    BY <2>2, LimitsAssumption DEF Init
<1>6. QED
  BY <1>2, <1>3, <1>4, <1>5 DEF Inv, Counts

\* Every step keeps the invariant.
LEMMA NextInv == Inv /\ [Next]_vars => Inv'
<1> SUFFICES ASSUME Inv, [Next]_vars PROVE Inv'
  OBVIOUS
<1>1. ASSUME maxConcurrent' = maxConcurrent, UNCHANGED <<used, req>>,
             readiness' \in {"not_ready", "ready", "draining"}, gate' \in {"open", "draining"}
      PROVE  Inv'
  <2>1. TypeOK'
    BY <1>1 DEF Inv, TypeOK
  <2>2. \A r \in Requests : Good(req'[r])
    BY <1>1 DEF Inv
  <2>3. Guards' = Guards /\ \A b \in Budgets : Paid(b)' = Paid(b)
    BY <1>1 DEF Guards, Paid
  <2>4. Counts'
    BY <1>1, <2>3 DEF Inv, Counts
  <2>5. QED
    BY <2>1, <2>2, <2>4 DEF Inv, Good, PaidFor, InPlace, Stage
<1>2. CASE UNCHANGED vars
  BY <1>1, <1>2 DEF vars, Inv, TypeOK
<1>3. CASE BecomeReady \/ StopReadiness \/ BeginDraining
  BY <1>1, <1>3 DEF BecomeReady, StopReadiness, BeginDraining, Inv, TypeOK
<1>4. ASSUME NEW r \in Requests, DeadlineElapses(r) PROVE Inv'
  BY <1>4, FinalAnswers, FinalKeeps DEF DeadlineElapses
<1>5. ASSUME NEW r \in Requests, ConnectionLost(r) PROVE Inv'
  BY <1>5, FinalAnswers, FinalKeeps DEF ConnectionLost
<1>6. QED
  BY <1>2, <1>3, <1>4, <1>5, ArriveKeeps, HeadKeeps, BodyKeeps, UserKeeps, ResponseKeeps,
     BudgetKeeps
  DEF Next, Head, Body, User, Response, Budget, Lost

\* The invariant holds in every state of the server.
THEOREM Invariance == Spec => []Inv
<1>1. QED
  BY InitInv, NextInv, PTL DEF Spec

\* The variables keep their types.
THEOREM TypeCorrect == Spec => []TypeOK
<1>1. Inv => TypeOK
  BY DEF Inv
<1>2. QED
  BY <1>1, Invariance, PTL

\* For any number of requests and any limits: the budgets of runtime/budget.rs count
\* exactly the permits that are alive and stay within their limits, and every byte of
\* a body that is read, written or sent is paid for.
THEOREM MemoryIsAccounted == Spec => []MemoryAccounted
<1>1. ASSUME Inv PROVE MemoryAccounted
  <2>1. \A b \in Budgets : used[b] = Cardinality(Paid(b)) /\ used[b] <= Limit[b]
    BY <1>1 DEF Inv, Counts
  <2>2. ASSUME NEW b \in Budgets, NEW r \in Requests
        PROVE  InMemory(r)[b] <= req[r].held[b]
    <3>1. req[r] \in Request /\ PaidFor(req[r])
      BY <1>1, Given DEF Good
    <3>2. req[r].held[b] \in Nat
      BY <3>1 DEF Request
    <3>3. QED
      BY <3>1, <3>2 DEF InMemory, PaidFor, Budgets
  <2>3. QED
    BY <2>1, <2>2 DEF MemoryAccounted
<1>2. QED
  BY <1>1, Invariance, PTL

\* For any number of requests: one that is told to try again has not reached its
\* handler, and handlers run under one of at most max_concurrent_requests guards.
THEOREM RetriesAreSafe == Spec => []RetryIsSafe
<1>1. ASSUME Inv PROVE RetryIsSafe
  <2>1. ASSUME NEW r \in Requests
        PROVE  /\ req[r].answer \in Retryable => req[r].handled = 0
               /\ req[r].handled > 0 /\ req[r].pc \notin {"sending", "done"} => req[r].guard
    BY <1>1, Given DEF Good, InPlace, Stage, Inside
  <2>2. QED
    BY <1>1, <2>1 DEF RetryIsSafe, Inv, Counts
<1>2. QED
  BY <1>1, Invariance, PTL

-----------------------------------------------------------------------------
(***************************************************************************)
(* What comes back: HttpResponse, for any statuses, delays, sizes, limits  *)
(* and number of servers in a row, and whatever a foreign peer answers.    *)
(***************************************************************************)

CONSTANTS Statuses, Delays, Sizes, ServerLimit, ClientLimit, FreeBytes, Chunk,
          EmergencyLimit, MaxSeconds, MaxHops

VARIABLES call, raised, outcome, sent, got, hops, intact, pc

Answer == INSTANCE HttpResponse

\* EMERGENCY_PROBLEM_LIMIT has room for a type, a short message and small details, and
\* MaxSeconds is no less than any delay that is asked for.
ResponseLimits ==
  /\ EmergencyLimit \in Nat /\ EmergencyLimit >= 3
  /\ MaxSeconds \in Nat
  /\ \A d \in Delays : d \in Nat /\ (d + 1) \div 2 <= MaxSeconds

Categories == {"InvalidArgument", "NotFound", "Conflict", "Unauthenticated",
               "PermissionDenied", "PayloadTooLarge", "ResourceExhausted", "Unavailable",
               "DeadlineExceeded", "Cancelled", "Unimplemented", "Internal", "DataLoss"}

\* Every category has a status of its own, an error status, and it is the category of
\* that status.
LEMMA CanonicalIsInjective ==
  /\ DOMAIN Answer!Canonical = Categories
  /\ \A c \in Categories :
       /\ Answer!Canonical[c] \in 400 .. 599
       /\ \A d \in Categories : Answer!Canonical[c] = Answer!Canonical[d] => c = d
<1>1. DOMAIN Answer!Canonical = Categories
  BY DEF Answer!Canonical, Categories
<1>2. /\ Answer!Canonical["InvalidArgument"] = 400 /\ Answer!Canonical["NotFound"] = 404
      /\ Answer!Canonical["Conflict"] = 409 /\ Answer!Canonical["Unauthenticated"] = 401
      /\ Answer!Canonical["PermissionDenied"] = 403 /\ Answer!Canonical["PayloadTooLarge"] = 413
      /\ Answer!Canonical["ResourceExhausted"] = 429 /\ Answer!Canonical["Unavailable"] = 503
      /\ Answer!Canonical["DeadlineExceeded"] = 504 /\ Answer!Canonical["Cancelled"] = 499
      /\ Answer!Canonical["Unimplemented"] = 501 /\ Answer!Canonical["Internal"] = 500
      /\ Answer!Canonical["DataLoss"] = 502
  BY DEF Answer!Canonical
<1>3. \A c \in Categories : Answer!Canonical[c] \in 400 .. 599
  BY <1>2 DEF Categories
<1>4. \A c, d \in Categories : Answer!Canonical[c] = Answer!Canonical[d] => c = d
  BY <1>2 DEF Categories
<1>5. QED
  BY <1>1, <1>3, <1>4

LEMMA CategoryOfCanonical ==
  \A c \in Categories : Answer!CategoryFromStatus(Answer!Canonical[c]) = c
<1> SUFFICES ASSUME NEW c \in Categories
             PROVE  Answer!CategoryFromStatus(Answer!Canonical[c]) = c
  OBVIOUS
<1>1. Answer!Canonical[c] \notin {405, 408}
  BY DEF Answer!Canonical, Categories
<1>2. (CHOOSE d \in DOMAIN Answer!Canonical : Answer!Canonical[d] = Answer!Canonical[c]) = c
  BY CanonicalIsInjective
<1>3. QED
  BY <1>1, <1>2, CanonicalIsInjective DEF Answer!CategoryFromStatus

Fields == {"kind", "category", "status", "code", "message", "details", "origin", "hint",
           "headers", "size"}

IsError(status) == Answer!IsClientError(status) \/ Answer!IsServerError(status)

\* What a kind says of category and status.
Meant(o) ==
  /\ DOMAIN o = Fields
  /\ o.code # ""
  /\ \/ /\ o.kind = "Success" /\ Answer!IsSuccess(o.status)
        /\ o.category = "none" /\ o.code = "none"
     \/ /\ o.kind = "Application" /\ IsError(o.status)
        /\ o.category = Answer!CategoryFromStatus(o.status)
     \/ /\ o.kind = "Framework" /\ o.category \in Categories
        /\ o.status = Answer!Canonical[o.category]

\* What a service may return.
Returned(o) ==
  /\ Meant(o)
  /\ DOMAIN o.headers = Answer!HeaderNames
  /\ o.origin = "Local"
  /\ o.message # "scrubbed"
  /\ o.kind # "Success" => o.message \in {"short", "long"} /\ o.details \in {"none", "small", "large"}
  /\ o.hint.after = {} \/ \E d \in Delays : o.hint.after = {d}

Agrees(o, first) ==
  /\ o.kind = first.kind /\ o.code = first.code
  /\ o.category = first.category /\ o.status = first.status

\* The problem p says what first says.
Reports(p, first) ==
  /\ p.type = Answer!FusenType(IF first.kind = "Application" THEN "application"
                               ELSE first.category, first.code)
  /\ p.status = first.status
  /\ p.code = {first.code}
  /\ p.requestId = IF call.controls THEN {"ours"} ELSE {}
  /\ first.kind = "Framework" /\ first.category = "Internal" => p.message \in {"scrubbed", "none"}

LEMMA FrameworkErrorIs ==
  ASSUME NEW category \in Categories, NEW code
  PROVE  LET e == Answer!FrameworkError(category, code) IN
         /\ DOMAIN e = Fields /\ e.kind = "Framework" /\ e.category = category
         /\ e.status = Answer!Canonical[category] /\ e.code = code /\ e.message = "short"
         /\ e.details = "none" /\ e.origin = "Local" /\ e.hint = Answer!Never
         /\ e.headers = Answer!NoHeaders
  BY DEF Answer!FrameworkError, Answer!Outcome, Fields

LEMMA ProtocolErrorIs ==
  ASSUME NEW code
  PROVE  LET e == Answer!ProtocolError(code) IN
         /\ DOMAIN e = Fields /\ e.kind = "Framework" /\ e.category = "DataLoss"
         /\ e.origin = "Remote"
  BY DEF Answer!ProtocolError, Answer!RemoteError, Answer!Outcome, Fields

LEMMA RemoteErrorIs ==
  ASSUME NEW kind, NEW category, NEW status, NEW code, NEW message, NEW details, NEW hint
  PROVE  LET e == Answer!RemoteError(kind, category, status, code, message, details, hint) IN
         /\ DOMAIN e = Fields /\ e.kind = kind /\ e.category = category /\ e.status = status
         /\ e.code = code /\ e.message = message /\ e.details = details /\ e.origin = "Remote"
         /\ kind # "Application" => e.hint = hint
  BY DEF Answer!RemoteError, Answer!Outcome, Fields

\* What services return is well-formed.
LEMMA ErrorsAreReturned ==
  ASSUME ResponseLimits, NEW o \in Answer!Errors \cup Answer!Results
  PROVE  Returned(o)
<1> USE DEF Returned, Meant
<1>0. \A h \in Answer!OwnHeaders : DOMAIN h = Answer!HeaderNames
  BY DEF Answer!OwnHeaders, Answer!NoHeaders
<1>1. CASE o \in Answer!Results
  <2>1. PICK s \in {200, 204, 205}, n \in Sizes, h \in Answer!OwnHeaders :
          o = [Answer!SuccessOf(s, n) EXCEPT !.headers = h]
    BY <1>1 DEF Answer!Results
  <2>2. LET r == Answer!SuccessOf(s, n) IN
        /\ DOMAIN r = Fields /\ r.kind = "Success" /\ r.status = s /\ r.code = "none"
        /\ r.category = "none"
        /\ r.origin = "Local" /\ r.message = "none" /\ r.hint = Answer!Never
    BY DEF Answer!SuccessOf, Answer!Outcome, Fields
  <2>3. /\ DOMAIN o = Fields /\ o.kind = "Success" /\ o.status = s /\ o.code = "none"
        /\ o.category = "none" /\ o.origin = "Local" /\ o.message = "none" /\ o.hint = Answer!Never /\ o.headers = h
    BY <2>1, <2>2 DEF Fields
  <2>4. Answer!Never.after = {} /\ Answer!IsSuccess(s)
    BY DEF Answer!Never, Answer!IsSuccess
  <2>5. QED
    BY <1>0, <2>3, <2>4
<1>2. ASSUME NEW e \in Answer!ApplicationErrors,
             NEW m \in {"short", "long"}, NEW d \in {"none", "small", "large"},
             NEW h \in Answer!OwnHeaders,
             o = Answer!Worded(e, m, d, h)
      PROVE  Returned(o)
  <2>1. PICK c, s : /\ e = Answer!ApplicationError(c, s)
                    /\ c = Answer!CategoryFromStatus(s) /\ IsError(s)
    <3>1. CASE \E c \in DOMAIN Answer!Canonical : e = Answer!ApplicationError(c, Answer!Canonical[c])
      BY <3>1, CanonicalIsInjective, CategoryOfCanonical
         DEF IsError, Answer!IsClientError, Answer!IsServerError
    <3>2. CASE \E s \in Statuses :
                 /\ Answer!IsClientError(s) \/ Answer!IsServerError(s)
                 /\ e = Answer!ApplicationError(Answer!CategoryFromStatus(s), s)
      BY <3>2 DEF IsError
    <3>3. QED
      BY <3>1, <3>2 DEF Answer!ApplicationErrors
  <2>2. /\ DOMAIN e = Fields /\ e.kind = "Application" /\ e.category = c /\ e.status = s
        /\ e.code = "app" /\ e.origin = "Local" /\ e.hint = Answer!Never
    BY <2>1 DEF Answer!ApplicationError, Answer!Outcome, Fields
  <2>3. /\ DOMAIN o = Fields /\ o.kind = "Application" /\ o.category = c /\ o.status = s
        /\ o.code = "app" /\ o.origin = "Local" /\ o.hint = Answer!Never /\ o.headers = h
        /\ o.message = m /\ o.details = d
    BY <1>2, <2>2 DEF Fields, Answer!Worded
  <2>4. Answer!Never.after = {}
    BY DEF Answer!Never
  <2>5. QED
    BY <1>0, <2>1, <2>3, <2>4
<1>3. ASSUME NEW c \in DOMAIN Answer!Canonical, NEW m \in {"short", "long"},
             NEW hint \in Answer!Hints, NEW h \in Answer!OwnHeaders,
             o = Answer!Worded(Answer!WithRetryHint(Answer!FrameworkError(c, "local"), hint),
                               m, "none", h)
      PROVE  Returned(o)
  <2> DEFINE e == Answer!FrameworkError(c, "local")
  <2>1. /\ DOMAIN e = Fields /\ e.kind = "Framework" /\ e.category = c
        /\ e.status = Answer!Canonical[c] /\ e.code = "local" /\ e.origin = "Local"
        /\ e.details = "none"
    BY FrameworkErrorIs, CanonicalIsInjective
  <2> DEFINE w == Answer!WithRetryHint(e, hint)
  <2> HIDE DEF e
  <2>2. /\ DOMAIN w = Fields /\ w.kind = "Framework" /\ w.category = c
        /\ w.status = Answer!Canonical[c] /\ w.code = "local" /\ w.origin = "Local"
        /\ w.details = "none" /\ w.hint = hint
    BY <2>1 DEF Answer!WithRetryHint, Fields
  <2>3. o = Answer!Worded(w, m, "none", h)
    BY <1>3 DEF e
  <2> HIDE DEF w
  <2>4. /\ DOMAIN o = Fields /\ o.kind = "Framework" /\ o.category = c
        /\ o.status = Answer!Canonical[c] /\ o.code = "local" /\ o.origin = "Local"
        /\ o.details = "none" /\ o.hint = hint /\ o.message = m /\ o.headers = h
    BY <2>2, <2>3 DEF Fields, Answer!Worded
  <2>5. hint.after = {} \/ \E d \in Delays : hint.after = {d}
    BY DEF Answer!Hints, Answer!Never, Answer!Retryable, Answer!After
  <2>6. QED
    BY <1>0, <2>4, <2>5, CanonicalIsInjective
<1>4. CASE o \in Answer!Errors
  <2>1. \/ \E e \in Answer!ApplicationErrors, m \in {"short", "long"},
             d \in {"none", "small", "large"}, h \in Answer!OwnHeaders :
             o = Answer!Worded(e, m, d, h)
        \/ \E c \in DOMAIN Answer!Canonical, m \in {"short", "long"},
              hint \in Answer!Hints, h \in Answer!OwnHeaders :
             o = Answer!Worded(Answer!WithRetryHint(Answer!FrameworkError(c, "local"), hint),
                               m, "none", h)
    BY <1>4 DEF Answer!Errors
  <2>2. QED
    BY <1>2, <1>3, <2>1, Zenon
<1>5. QED
  BY <1>1, <1>4

\* The framework's own error for a response that is too large.
LEMMA TooLargeIsReturned == Returned(Answer!FrameworkError("Internal", "response_too_large"))
<1> DEFINE e == Answer!FrameworkError("Internal", "response_too_large")
<1>1. /\ DOMAIN e = Fields /\ e.kind = "Framework" /\ e.category = "Internal"
      /\ e.status = Answer!Canonical["Internal"] /\ e.code = "response_too_large"
      /\ e.message = "short" /\ e.details = "none" /\ e.origin = "Local"
      /\ e.hint = Answer!Never /\ e.headers = Answer!NoHeaders
  BY FrameworkErrorIs DEF Categories
<1>2. Answer!Never.after = {} /\ DOMAIN Answer!NoHeaders = Answer!HeaderNames
  BY DEF Answer!Never, Answer!NoHeaders
<1> HIDE DEF e
<1>3. Returned(e)
  BY <1>1, <1>2 DEF Returned, Meant, Categories
<1>4. QED
  BY <1>3 DEF e

ProblemFields == {"type", "status", "message", "code", "requestId", "retryable", "details"}

\* What problem_from_error and bounded_problem make of an error.
LEMMA ProblemOfError ==
  ASSUME ResponseLimits, NEW o, Meant(o), o.kind # "Success"
  PROVE  LET p == Answer!BoundedProblem([Answer!ProblemFromError(o) EXCEPT
                                           !.requestId = IF call.controls THEN @ ELSE {}])
         IN /\ Reports(p, o)
            /\ p.message \in {o.message, "scrubbed", "none"}
            /\ /\ o.kind = "Application" /\ o.origin = "Local"
               /\ o.message = "short" /\ o.details \in {"none", "small"}
               => p.message = "short" /\ p.details = o.details
<1> DEFINE full == Answer!ProblemFromError(o)
           named == [full EXCEPT !.requestId = IF call.controls THEN @ ELSE {}]
           category == IF o.kind = "Application" THEN "application" ELSE o.category
<1>1. /\ o.kind \in {"Application", "Framework"}
      /\ o.kind = "Framework" => o.category \in Categories /\ o.status = Answer!Canonical[o.category]
  BY DEF Meant
<1>2. "application" \notin Categories
  BY DEF Categories
<1>3. /\ full.type = Answer!FusenType(category, o.code)
      /\ full.status = o.status
      /\ full.message = IF category = "Internal" THEN "scrubbed" ELSE o.message
      /\ full.code = {o.code} /\ full.requestId = {"ours"}
      /\ full.details = IF o.kind = "Application" /\ o.origin = "Local" THEN o.details ELSE "none"
      /\ DOMAIN full = ProblemFields
  BY <1>1, CanonicalIsInjective DEF Answer!ProblemFromError, ProblemFields
<1> HIDE DEF full
<1>4. /\ named.type = full.type /\ named.status = full.status /\ named.message = full.message
      /\ named.code = full.code /\ named.details = full.details
      /\ named.requestId = IF call.controls THEN {"ours"} ELSE {}
      /\ DOMAIN named = ProblemFields
  BY <1>3 DEF ProblemFields
<1> HIDE DEF named
<1> DEFINE p == Answer!BoundedProblem(named)
<1>5. /\ p.type = named.type /\ p.status = named.status /\ p.code = named.code
      /\ p.requestId = named.requestId /\ p.message \in {named.message, "none"}
  BY <1>4 DEF Answer!BoundedProblem, ProblemFields
<1>6. Reports(p, o)
  BY <1>1, <1>3, <1>4, <1>5 DEF Reports
<1>7. ASSUME o.kind = "Application", o.origin = "Local", o.message = "short",
             o.details \in {"none", "small"}
      PROVE  p.message = "short" /\ p.details = o.details
  <2>1. named.message = "short" /\ named.details = o.details
    BY <1>3, <1>4, <1>7
  <2>2. Answer!ProblemSize(named) <= 3
    BY <1>7, <2>1 DEF Answer!ProblemSize, Answer!Weight
  <2>3. p = named
    BY <2>2 DEF Answer!BoundedProblem, ResponseLimits, Answer!ProblemSize, Answer!Weight
  <2>4. QED
    BY <2>1, <2>3
<1>8. p.message \in {o.message, "scrubbed", "none"}
  BY <1>3, <1>4, <1>5
<1> HIDE DEF p
<1>9. QED
  BY <1>6, <1>7, <1>8 DEF p, named, full

ResponseFields == {"version", "status", "whole", "headers", "body"}

\* The response to an error.
LEMMA ResponseToError ==
  ASSUME ResponseLimits, NEW o, Meant(o), o.kind # "Success", DOMAIN o.headers = Answer!HeaderNames
  PROVE  LET r == Answer!EncodeProblem(o, call.controls) IN
         /\ DOMAIN r = ResponseFields /\ r.status = o.status
         /\ r.body.form = "problem"
         /\ \E p : /\ r.body.problem = {p}
                   /\ Reports(p, o)
                   /\ p.message \in {o.message, "scrubbed", "none"}
                   /\ /\ o.kind = "Application" /\ o.origin = "Local"
                      /\ o.message = "short" /\ o.details \in {"none", "small"}
                      => p.message = "short" /\ p.details = o.details
         /\ o.origin = "Local" => r.headers["x-application"] = o.headers["x-application"]
         /\ \A d : o.kind = "Framework" /\ o.origin = "Local" /\ o.hint.after = {d} =>
                r.headers["retry-after"] = <<Answer!RetryAfterSeconds(d)>>
<1> DEFINE full == Answer!ProblemFromError(o)
           problem == Answer!BoundedProblem([full EXCEPT !.requestId = IF call.controls THEN @ ELSE {}])
           kept == IF o.origin = "Local" THEN Answer!WithoutControl(o.headers) ELSE Answer!NoHeaders
           retryAfter == IF o.kind = "Framework" /\ o.origin = "Local"
                           THEN {Answer!RetryAfterSeconds(d) : d \in o.hint.after} ELSE {}
           headers == [kept EXCEPT
                         !["retry-after"] = IF retryAfter = {} THEN @
                                            ELSE <<CHOOSE s \in retryAfter : TRUE>>,
                         !["content-type"] = <<"problem+json">>,
                         !["content-length"] = <<Answer!ToString(Answer!ProblemSize(problem))>>,
                         !["x-request-id"] = IF call.controls THEN <<"ours">> ELSE <<>>]
           body == Answer!Body("problem", Answer!ProblemSize(problem), {problem})
           r == [version |-> "1.1", status |-> full.status, whole |-> TRUE,
                 headers |-> headers, body |-> body]
<1>1. Answer!EncodeProblem(o, call.controls) = r
  BY DEF Answer!EncodeProblem
<1>2. /\ Reports(problem, o)
      /\ problem.message \in {o.message, "scrubbed", "none"}
      /\ /\ o.kind = "Application" /\ o.origin = "Local"
         /\ o.message = "short" /\ o.details \in {"none", "small"}
         => problem.message = "short" /\ problem.details = o.details
  BY ProblemOfError
<1>3. full.status = o.status
  BY CanonicalIsInjective DEF Answer!ProblemFromError, Meant
<1>4. DOMAIN kept = Answer!HeaderNames /\ (o.origin = "Local" => kept["x-application"] = o.headers["x-application"])
  BY DEF Answer!WithoutControl, Answer!NoHeaders, Answer!HeaderNames
<1>5. ASSUME NEW d, o.kind = "Framework", o.origin = "Local", o.hint.after = {d}
      PROVE  retryAfter = {Answer!RetryAfterSeconds(d)}
  BY <1>5
<1> HIDE DEF full, problem, kept, retryAfter
<1>6. headers["x-application"] = kept["x-application"]
  BY <1>4 DEF Answer!HeaderNames
<1>7. ASSUME NEW d, o.kind = "Framework", o.origin = "Local", o.hint.after = {d}
      PROVE  headers["retry-after"] = <<Answer!RetryAfterSeconds(d)>>
  <2>1. retryAfter = {Answer!RetryAfterSeconds(d)}
    BY <1>5, <1>7
  <2>2. retryAfter # {} /\ (CHOOSE s \in retryAfter : TRUE) = Answer!RetryAfterSeconds(d)
    BY <2>1
  <2>3. headers["retry-after"] = IF retryAfter = {} THEN kept["retry-after"]
                                 ELSE <<CHOOSE s \in retryAfter : TRUE>>
    BY <1>4 DEF Answer!HeaderNames
  <2>4. QED
    BY <2>2, <2>3
<1>8. body.form = "problem" /\ body.problem = {problem}
  BY DEF Answer!Body
<1> HIDE DEF headers, body
<1>9. /\ DOMAIN r = ResponseFields /\ r.status = full.status
      /\ r.headers = headers /\ r.body = body
  BY DEF ResponseFields
<1> HIDE DEF r
<1>10. QED
  BY <1>1, <1>2, <1>3, <1>4, <1>6, <1>7, <1>8, <1>9

\* decode_problem reads from a problem of Fusen what it reports.
LEMMA DecodedProblem ==
  ASSUME NEW first, Meant(first), first.kind # "Success", NEW p, Reports(p, first), NEW headers
  PROVE  LET e == Answer!DecodeProblem(first.status, p, headers, call.controls) IN
         /\ DOMAIN e = Fields /\ e.origin = "Remote"
         /\ Agrees(e, first)
         /\ e.message = IF p.message = "none" THEN "fallback" ELSE p.message
         /\ first.kind = "Application" => e.details = p.details
         /\ first.kind = "Framework" =>
              e.hint = Answer!NormalizedRetryHint("Framework", first.status, headers)
<1> DEFINE category == IF first.kind = "Application" THEN "application" ELSE first.category
           meaning == [kind |-> first.kind, category |-> first.category]
<1>0. \A c \in Categories : IsError(Answer!Canonical[c])
  BY CanonicalIsInjective DEF IsError, Answer!IsClientError, Answer!IsServerError
<1>1. /\ first.kind \in {"Application", "Framework"} /\ IsError(first.status)
      /\ first.kind = "Application" => first.category = Answer!CategoryFromStatus(first.status)
      /\ first.kind = "Framework" => /\ first.category \in Categories
                                     /\ first.status = Answer!Canonical[first.category]
      /\ first.code # ""
  BY <1>0 DEF Meant
<1>2. p.type.uri = "fusen" /\ p.type.parts = <<category, first.code>>
  BY DEF Reports, Answer!FusenType
<1>3. /\ Answer!Len(p.type.parts) = 2 /\ p.type.parts[1] = category /\ p.type.parts[2] = first.code
  BY <1>2
<1>4. category # "" /\ "application" \notin Categories /\ "" \notin Categories
  BY <1>1 DEF Categories
<1>5. Answer!ParseProblemType(p) = {meaning}
  <2>1. CASE first.kind = "Application"
    BY <1>1, <1>2, <1>3, <1>4, <2>1 DEF Answer!ParseProblemType, Reports
  <2>2. CASE first.kind = "Framework"
    <3>0. category = first.category
      BY <2>2
    <3>1. {category} \cap DOMAIN Answer!Canonical = {category}
      <4> HIDE DEF category
      <4>1. category \in DOMAIN Answer!Canonical
        BY <1>1, <2>2, <3>0, CanonicalIsInjective
      <4>2. QED
        BY <4>1
    <3>2. {[kind |-> "Framework", category |-> c] : c \in {category}} = {meaning}
      BY <2>2
    <3>3. category # "application"
      BY <1>1, <1>4, <2>2
    <3>4. QED
      BY <1>1, <1>2, <1>3, <1>4, <2>2, <3>1, <3>2, <3>3 DEF Answer!ParseProblemType, Reports
  <2>3. QED
    BY <1>1, <2>1, <2>2
<1>6. /\ Answer!ParseProblemType(p) # {}
      /\ (CHOOSE m \in Answer!ParseProblemType(p) : TRUE) = meaning
  BY <1>5
<1>7. /\ p.status = first.status /\ p.code = {first.code}
      /\ call.controls => p.requestId = {"ours"}
  BY DEF Reports
<1>8. p.code # {} /\ (CHOOSE c \in p.code : TRUE) = first.code
  BY <1>7
<1>9. ~(meaning.kind = "Framework" /\ Answer!Canonical[meaning.category] # first.status)
  BY <1>1
<1> DEFINE hint == Answer!NormalizedRetryHint(first.kind, first.status, headers)
           message == IF p.message = "none" THEN "fallback" ELSE p.message
           details == IF first.kind = "Application" THEN p.details ELSE "none"
           e == Answer!RemoteError(first.kind, first.category, first.status, first.code,
                                   message, details, hint)
<1>10. Answer!DecodeProblem(first.status, p, headers, call.controls) = e
  <2>1. ~(~Answer!IsClientError(first.status) /\ ~Answer!IsServerError(first.status))
    BY <1>1 DEF IsError
  <2>2. ~(p.status # first.status) /\ ~(call.controls /\ p.requestId # {"ours"})
    BY <1>7
  <2>3. meaning.kind = first.kind /\ meaning.category = first.category
    OBVIOUS
  <2> HIDE DEF meaning
  <2>4. QED
    BY <1>6, <1>8, <1>9, <2>1, <2>2, <2>3 DEF Answer!DecodeProblem
<1>11. /\ DOMAIN e = Fields /\ e.kind = first.kind /\ e.category = first.category
       /\ e.status = first.status /\ e.code = first.code /\ e.message = message
       /\ e.details = details /\ e.origin = "Remote"
       /\ first.kind # "Application" => e.hint = hint
  BY RemoteErrorIs
<1> HIDE DEF e, hint
<1>12. QED
  BY <1>10, <1>11 DEF Agrees, hint

\* A problem that names another call is a protocol error.
LEMMA AnothersProblem ==
  ASSUME NEW status, NEW p, p.status = status, p.requestId # {"ours"}, NEW headers
  PROVE  LET e == Answer!DecodeProblem(status, p, headers, TRUE) IN
         /\ DOMAIN e = Fields /\ e.kind = "Framework" /\ e.category = "DataLoss"
         /\ e.origin = "Remote"
<1>1. \E code : Answer!DecodeProblem(status, p, headers, TRUE) = Answer!ProtocolError(code)
  BY DEF Answer!DecodeProblem
<1>2. QED
  BY <1>1, ProtocolErrorIs

\* How the policies class what comes from a server.
LEMMA ClassesOfErrors ==
  ASSUME NEW e, e.origin = "Remote"
  PROVE  /\ e.kind = "Framework" /\ e.category = "DataLoss" => Answer!ClassifyError(e) = "Protocol"
         /\ e.kind = "Application" => ~Answer!IsRetryable(Answer!ClassifyError(e))
         /\ e.kind \in {"Application", "Framework"} /\ e.category # "DataLoss" =>
              Answer!ClassifyError(e) # "Protocol"
         /\ e.kind = "Application" => Answer!ClassifyError(e) # "Protocol"
  BY DEF Answer!ClassifyError, Answer!IsRetryable

-----------------------------------------------------------------------------

\* The response on its way is the one to what the first service returned.
Carries(first) ==
  /\ sent.status = first.status
  /\ first.kind # "Success" =>
       /\ sent.body.form = "problem"
       /\ \E p : /\ sent.body.problem = {p} /\ Reports(p, first)
                 /\ /\ hops = 0 /\ first.kind = "Application"
                    /\ first.message = "short" /\ first.details # "large"
                    => p.message = "short" /\ p.details = first.details
  /\ hops = 0 =>
       /\ sent.headers["x-application"] = first.headers["x-application"]
       /\ first.kind = "Success" /\ ~Answer!Suppressed(first.status) => sent.body.size = first.size
       /\ \A d : first.kind = "Framework" /\ first.hint.after = {d} =>
            sent.headers["retry-after"] = <<Answer!RetryAfterSeconds(d)>>

\* What a client was given is what the first service returned.
Hears(first) ==
  /\ DOMAIN got = Fields /\ DOMAIN got.headers = Answer!HeaderNames
  /\ Agrees(got, first)
  /\ got.origin = "Remote"
  /\ got.kind = "Framework" /\ got.category = "Internal" => got.message \in {"scrubbed", "fallback"}
  /\ hops = 1 =>
       /\ got.headers["x-application"] = first.headers["x-application"]
       /\ first.kind = "Success" /\ ~Answer!Suppressed(first.status) => got.size = first.size
       /\ first.kind = "Application" /\ first.message = "short" /\ first.details # "large" =>
            got.message = "short" /\ got.details = first.details
       /\ \A d : /\ first.kind = "Framework" /\ first.hint.after = {d}
                 /\ Answer!IsTransientStatus(first.status)
                 => 2 * ((d + 1) \div 2) \in got.hint.after

\* A body that is Problem Details has one problem in it, others have none.
ProblemIsInBody ==
  /\ DOMAIN sent = ResponseFields
  /\ sent.body.form = "problem" => \E p : sent.body.problem = {p}
  /\ sent.body.form # "problem" => sent.body.problem = {}

AnswerTypes ==
  /\ pc \in {"serving", "sent", "decoded"}
  /\ hops \in Nat /\ intact \in BOOLEAN
  /\ raised = {} \/ \E first : raised = {first} /\ Returned(first)
  /\ pc # "serving" => ProblemIsInBody
  /\ pc = "decoded" => hops > 0

\* By what the place says of the outcome of the first service, as long as no response
\* was lost on its way.
AnswerAgrees ==
  intact => \A first \in raised :
    /\ pc = "serving" => /\ DOMAIN outcome = Fields /\ DOMAIN outcome.headers = Answer!HeaderNames
                         /\ Agrees(outcome, first)
                         /\ hops = 0 => outcome = first
    /\ pc = "sent" => Carries(first)
    /\ pc = "decoded" => Hears(first)

AnswerInv == AnswerTypes /\ AnswerAgrees /\ Answer!NotAnothersAnswer

LEMMA AnswerInitInv == ResponseLimits /\ Answer!Init => AnswerInv
<1> SUFFICES ASSUME ResponseLimits, Answer!Init PROVE AnswerInv
  OBVIOUS
<1>1. CASE pc = "serving"
  <2>1. outcome \in Answer!Errors \cup Answer!Results /\ raised = {outcome}
    BY <1>1 DEF Answer!Init
  <2>2. Returned(outcome)
    BY <2>1, ErrorsAreReturned
  <2>3. AnswerTypes
    BY <1>1, <2>1, <2>2 DEF Answer!Init, AnswerTypes
  <2>4. AnswerAgrees
    BY <1>1, <2>1, <2>2 DEF AnswerAgrees, Agrees, Returned, Meant
  <2>5. QED
    BY <1>1, <2>3, <2>4 DEF AnswerInv, Answer!NotAnothersAnswer
<1>2. CASE pc = "sent" /\ raised = {} /\ sent \in Answer!ForeignResponses
  <2>1. \A b \in Answer!Bodies : /\ b.form = "problem" => \E p : b.problem = {p}
                                 /\ b.form # "problem" => b.problem = {}
    BY DEF Answer!Bodies, Answer!Body, Answer!NoProblem
  <2>2. ProblemIsInBody
    <3>0. {Answer!Body("value", 2, Answer!NoProblem), Answer!Body("empty", 0, Answer!NoProblem)}
             \subseteq Answer!Bodies
      BY DEF Answer!Bodies
    <3>1. PICK v, s, h, b : sent = Answer!Foreign(v, s, h, b) /\ b \in Answer!Bodies
      BY <1>2, <3>0 DEF Answer!ForeignResponses
    <3>2. QED
      BY <2>1, <3>1 DEF Answer!Foreign, ProblemIsInBody, ResponseFields
  <2>3. AnswerTypes
    BY <1>2, <2>2 DEF Answer!Init, AnswerTypes
  <2>4. QED
    BY <1>2, <2>3 DEF AnswerInv, AnswerAgrees, Answer!NotAnothersAnswer
<1>3. QED
  BY <1>1, <1>2 DEF Answer!Init

\* A server writes a result.
LEMMA EncodeSuccessInv ==
  ASSUME ResponseLimits, AnswerInv, Answer!EncodeSuccess
  PROVE  AnswerInv'
<1> DEFINE total == IF Answer!Suppressed(outcome.status) THEN 0 ELSE outcome.size
<1>1. CASE total > ServerLimit
  <2>1. /\ outcome' = Answer!FrameworkError("Internal", "response_too_large")
        /\ raised' = {outcome'} /\ UNCHANGED <<sent, pc, call, got, hops, intact>>
        /\ pc = "serving"
    BY <1>1 DEF Answer!EncodeSuccess
  <2>2. Returned(outcome')
    BY <2>1, TooLargeIsReturned
  <2>3. AnswerTypes'
    BY <2>1, <2>2 DEF AnswerInv, AnswerTypes
  <2>4. AnswerAgrees'
    BY <2>1, <2>2 DEF AnswerAgrees, Agrees, Returned, Meant
  <2>5. QED
    BY <2>1, <2>3, <2>4 DEF AnswerInv, Answer!NotAnothersAnswer
<1>2. CASE ~(total > ServerLimit)
  <2> DEFINE headers == [Answer!WithoutControl(outcome.headers) EXCEPT
                !["content-type"] = IF Answer!Suppressed(outcome.status) THEN @ ELSE <<"json">>,
                !["content-length"] = <<Answer!ToString(total)>>,
                !["x-request-id"] = IF call.controls THEN <<"ours">> ELSE <<>>]
             body == Answer!Body(IF total = 0 THEN "empty" ELSE "value", total, Answer!NoProblem)
  <2>1. /\ sent' = [version |-> "1.1", status |-> outcome.status, whole |-> TRUE,
                    headers |-> headers, body |-> body]
        /\ pc = "serving" /\ pc' = "sent" /\ outcome.kind = "Success"
        /\ UNCHANGED <<outcome, raised, call, got, hops, intact>>
    BY <1>2 DEF Answer!EncodeSuccess
  <2>2. headers["x-application"] = outcome.headers["x-application"]
    BY DEF Answer!WithoutControl, Answer!HeaderNames
  <2>3. body.form # "problem" /\ body.problem = {} /\ body.size = total
    BY DEF Answer!Body, Answer!NoProblem
  <2> HIDE DEF headers, body
  <2>4. /\ DOMAIN sent' = ResponseFields /\ sent'.status = outcome.status
        /\ sent'.headers = headers /\ sent'.body = body
    BY <2>1 DEF ResponseFields
  <2>5. AnswerTypes'
    BY <2>1, <2>3, <2>4 DEF AnswerInv, AnswerTypes, ProblemIsInBody
  <2>6. ASSUME intact', NEW first \in raised' PROVE Carries(first)'
    <3>1. Agrees(outcome, first) /\ (hops = 0 => outcome = first)
      BY <2>1, <2>6 DEF AnswerInv, AnswerAgrees
    <3>2. first.kind = "Success" /\ sent'.status = first.status
      BY <2>1, <2>4, <3>1 DEF Agrees
    <3>3. Answer!Suppressed(first.status)' <=> Answer!Suppressed(first.status)
      BY <2>1 DEF Answer!Suppressed
    <3>4. QED
      BY <2>1, <2>2, <2>3, <2>4, <3>1, <3>2, <3>3 DEF Carries
  <2>7. QED
    BY <2>1, <2>5, <2>6 DEF AnswerInv, AnswerAgrees, Answer!NotAnothersAnswer
<1>3. QED
  BY <1>1, <1>2

\* A server writes an error.
LEMMA AnswerProblemInv ==
  ASSUME ResponseLimits, AnswerInv, Answer!AnswerProblem
  PROVE  AnswerInv'
<1>1. /\ sent' = Answer!EncodeProblem(outcome, call.controls)
      /\ outcome.kind # "Success" /\ pc = "serving" /\ pc' = "sent"
      /\ UNCHANGED <<call, raised, outcome, got, hops, intact>>
  BY DEF Answer!AnswerProblem
<1>2. ProblemIsInBody'
  <2>1. PICK p, h : sent' = [version |-> "1.1", status |-> Answer!ProblemFromError(outcome).status,
                             whole |-> TRUE, headers |-> h,
                             body |-> Answer!Body("problem", Answer!ProblemSize(p), {p})]
    BY <1>1, Zenon DEF Answer!EncodeProblem
  <2>2. DOMAIN sent' = ResponseFields /\ sent'.body = Answer!Body("problem", Answer!ProblemSize(p), {p})
    BY <2>1 DEF ResponseFields
  <2>3. sent'.body.form = "problem" /\ sent'.body.problem = {p}
    BY <2>2 DEF Answer!Body
  <2>4. QED
    BY <2>2, <2>3 DEF ProblemIsInBody
<1>3. ASSUME intact', NEW first \in raised' PROVE Carries(first)'
  <2>1. /\ DOMAIN outcome = Fields /\ DOMAIN outcome.headers = Answer!HeaderNames
        /\ Agrees(outcome, first) /\ (hops = 0 => outcome = first)
    BY <1>1, <1>3 DEF AnswerInv, AnswerAgrees
  <2>2. Returned(first)
    BY <1>1, <1>3 DEF AnswerInv, AnswerTypes
  <2>3. Meant(outcome)
    BY <2>1, <2>2 DEF Agrees, Returned, Meant
  <2>4. /\ sent'.status = outcome.status /\ sent'.body.form = "problem"
        /\ outcome.origin = "Local" => sent'.headers["x-application"] = outcome.headers["x-application"]
        /\ \A d : outcome.kind = "Framework" /\ outcome.origin = "Local" /\ outcome.hint.after = {d} =>
             sent'.headers["retry-after"] = <<Answer!RetryAfterSeconds(d)>>
    BY <1>1, <2>1, <2>3, ResponseToError
  <2>5. PICK p : /\ sent'.body.problem = {p} /\ Reports(p, outcome)
                 /\ /\ outcome.kind = "Application" /\ outcome.origin = "Local"
                    /\ outcome.message = "short" /\ outcome.details \in {"none", "small"}
                    => p.message = "short" /\ p.details = outcome.details
    BY <1>1, <2>1, <2>3, ResponseToError
  <2>6. Reports(p, first)'
    BY <1>1, <2>1, <2>5 DEF Agrees, Reports
  <2>7. outcome = first => first.origin = "Local" /\ first.details \in {"none", "small", "large"}
    BY <1>1, <2>2 DEF Returned
  <2>8. first.status = outcome.status /\ first.kind = outcome.kind
    BY <2>1 DEF Agrees
  <2>9. QED
    BY <1>1, <2>1, <2>4, <2>5, <2>6, <2>7, <2>8 DEF Carries
<1>4. AnswerTypes'
  BY <1>1, <1>2 DEF AnswerInv, AnswerTypes
<1>5. QED
  BY <1>1, <1>3, <1>4 DEF AnswerInv, AnswerAgrees, Answer!NotAnothersAnswer

LEMMA BreakStreamInv ==
  ASSUME ResponseLimits, AnswerInv, Answer!BreakStream
  PROVE  AnswerInv'
<1>1. /\ pc = "sent" /\ sent' = [sent EXCEPT !.whole = FALSE]
      /\ UNCHANGED <<call, raised, outcome, got, hops, intact, pc>>
  BY DEF Answer!BreakStream
<1>2. ProblemIsInBody
  BY <1>1 DEF AnswerInv, AnswerTypes
<1>3. /\ DOMAIN sent' = ResponseFields /\ sent'.status = sent.status
      /\ sent'.headers = sent.headers /\ sent'.body = sent.body
  BY <1>1, <1>2 DEF ProblemIsInBody, ResponseFields
<1>4. AnswerTypes'
  BY <1>1, <1>2, <1>3 DEF AnswerInv, AnswerTypes, ProblemIsInBody
<1>5. ASSUME NEW first, Carries(first) PROVE Carries(first)'
  <2>1. Answer!Suppressed(first.status)' <=> Answer!Suppressed(first.status)
    BY <1>1 DEF Answer!Suppressed
  <2>2. \A p : Reports(p, first)' <=> Reports(p, first)
    BY <1>1 DEF Reports
  <2>3. QED
    BY <1>1, <1>3, <1>5, <2>1, <2>2 DEF Carries
<1>6. QED
  BY <1>1, <1>4, <1>5 DEF AnswerInv, AnswerAgrees, Answer!NotAnothersAnswer

\* A response that is no result and no error of the first service's is only asked
\* whether it is another's.
LEMMA LostInv ==
  ASSUME AnswerInv, NEW result, Answer!Decoded(result, FALSE), pc = "sent",
         call.controls /\ Answer!IsAnothers =>
           /\ result.kind = "Framework"
           /\ result.origin = "Remote" => result.category = "DataLoss"
  PROVE  AnswerInv'
<1>1. /\ got' = result /\ hops' = hops + 1 /\ intact' = FALSE /\ pc' = "decoded"
      /\ UNCHANGED <<call, raised, outcome, sent>>
  BY DEF Answer!Decoded
<1>2. AnswerTypes'
  <2>0. hops \in Nat /\ intact \in BOOLEAN /\ ProblemIsInBody
    BY DEF AnswerInv, AnswerTypes
  <2>1. intact' \in BOOLEAN
    BY <1>1, <2>0, Zenon
  <2>2. ProblemIsInBody'
    BY <1>1, <2>0 DEF ProblemIsInBody
  <2>3. hops' \in Nat
    BY <1>1, <2>0
  <2>4. QED
    BY <1>1, <2>1, <2>2, <2>3 DEF AnswerInv, AnswerTypes
<1>3. AnswerAgrees'
  BY <1>1 DEF AnswerAgrees
<1>4. Answer!IsAnothers' <=> Answer!IsAnothers
  BY <1>1 DEF Answer!IsAnothers
<1>5. Answer!NotAnothersAnswer'
  BY <1>1, <1>4, ClassesOfErrors DEF Answer!NotAnothersAnswer
<1>6. QED
  BY <1>2, <1>3, <1>5 DEF AnswerInv

\* One that was read.
LEMMA ReadInv ==
  ASSUME AnswerInv, NEW result, Answer!Decoded(result, TRUE), pc = "sent",
         call.controls /\ Answer!IsAnothers =>
           /\ result.kind = "Framework"
           /\ result.origin = "Remote" => result.category = "DataLoss",
         \A first \in raised : intact /\ Carries(first) => Hears(first)'
  PROVE  AnswerInv'
<1>1. /\ got' = result /\ hops' = hops + 1 /\ intact' = intact /\ pc' = "decoded"
      /\ UNCHANGED <<call, raised, outcome, sent>>
  BY DEF Answer!Decoded, AnswerInv, AnswerTypes
<1>2. AnswerTypes'
  <2>0. hops \in Nat /\ intact \in BOOLEAN /\ ProblemIsInBody
    BY DEF AnswerInv, AnswerTypes
  <2>1. intact' \in BOOLEAN
    BY <1>1, <2>0, Zenon
  <2>2. ProblemIsInBody'
    BY <1>1, <2>0 DEF ProblemIsInBody
  <2>3. hops' \in Nat
    BY <1>1, <2>0
  <2>4. QED
    BY <1>1, <2>1, <2>2, <2>3 DEF AnswerInv, AnswerTypes
<1>3. AnswerAgrees'
  BY <1>1 DEF AnswerInv, AnswerAgrees
<1>4. Answer!IsAnothers' <=> Answer!IsAnothers
  BY <1>1 DEF Answer!IsAnothers
<1>5. Answer!NotAnothersAnswer'
  BY <1>1, <1>4, ClassesOfErrors DEF Answer!NotAnothersAnswer
<1>6. QED
  BY <1>2, <1>3, <1>5 DEF AnswerInv

\* Replacing the headers of what was decoded changes nothing else.
LEMMA WithHeaders ==
  ASSUME NEW e, DOMAIN e = Fields, NEW headers
  PROVE  LET r == [e EXCEPT !.headers = headers] IN
         /\ DOMAIN r = Fields /\ r.headers = headers
         /\ r.kind = e.kind /\ r.category = e.category /\ r.status = e.status
         /\ r.code = e.code /\ r.message = e.message /\ r.details = e.details
         /\ r.origin = e.origin /\ r.hint = e.hint /\ r.size = e.size
  BY DEF Fields

LEMMA RejectHeadInv ==
  ASSUME AnswerInv, Answer!RejectHead
  PROVE  AnswerInv'
<1>1. PICK code : Answer!Decoded([Answer!ProtocolError(code) EXCEPT
                                    !.headers = Answer!WithoutControl(sent.headers)], FALSE)
  BY Zenon DEF Answer!RejectHead
<1> DEFINE error == Answer!ProtocolError(code)
           result == [error EXCEPT !.headers = Answer!WithoutControl(sent.headers)]
<1>2. DOMAIN error = Fields /\ error.kind = "Framework" /\ error.category = "DataLoss"
  BY ProtocolErrorIs
<1> HIDE DEF error
<1>3. result.kind = "Framework" /\ result.category = "DataLoss"
  BY <1>2, WithHeaders
<1>4. Answer!Decoded(result, FALSE) /\ pc = "sent"
  BY <1>1 DEF error, Answer!RejectHead
<1> HIDE DEF result
<1>5. QED
  BY <1>3, <1>4, LostInv

\* Its head names this call, and so does nothing but a body with a problem name another.
LEMMA AcceptedIsOurs ==
  ASSUME Answer!HeadAccepted, call.controls, Answer!IsAnothers
  PROVE  /\ ~call.head /\ sent.status \notin {204, 205} /\ ~Answer!IsSuccess(sent.status)
         /\ \E p \in sent.body.problem : p.status = sent.status /\ p.requestId # {"ours"}
  BY DEF Answer!HeadAccepted, Answer!RequestIdMatches, Answer!IsAnothers

\* What the client makes of a response without a body, or of a result.
LEMMA NullResponseIs ==
  LET r == Answer!NullResponse IN
  /\ DOMAIN r = Fields /\ r.kind = "Success" /\ r.category = "none" /\ r.code = "none"
  /\ r.status = sent.status /\ r.origin = "Remote"
  /\ r.headers = Answer!WithoutControl(sent.headers)
<1> DEFINE s == Answer!SuccessOf(sent.status, 0)
<1>1. /\ DOMAIN s = Fields /\ s.kind = "Success" /\ s.category = "none" /\ s.code = "none"
      /\ s.status = sent.status
  BY DEF Answer!SuccessOf, Answer!Outcome, Fields
<1> HIDE DEF s
<1> DEFINE r == [s EXCEPT !.headers = Answer!WithoutControl(sent.headers), !.origin = "Remote"]
<1>2. /\ DOMAIN r = Fields /\ r.kind = s.kind /\ r.category = s.category /\ r.code = s.code
      /\ r.status = s.status /\ r.origin = "Remote"
      /\ r.headers = Answer!WithoutControl(sent.headers)
  BY <1>1 DEF Fields
<1>3. r = Answer!NullResponse
  BY DEF s, Answer!NullResponse
<1> HIDE DEF r
<1>4. QED
  BY <1>1, <1>2, <1>3

\* A client that is given a result was sent the result of the first service: errors
\* have other statuses.
LEMMA ResultHeard ==
  ASSUME AnswerInv, pc = "sent", NEW first \in raised, intact, Carries(first),
         Answer!IsSuccess(sent.status),
         DOMAIN got' = Fields, got'.kind = "Success", got'.category = "none", got'.code = "none",
         got'.status = sent.status, got'.origin = "Remote",
         got'.headers = Answer!WithoutControl(sent.headers),
         hops' = hops + 1, UNCHANGED call,
         Answer!Suppressed(sent.status) \/ got'.size = sent.body.size
  PROVE  Hears(first)'
<1>1. Returned(first) /\ hops \in Nat
  BY DEF AnswerInv, AnswerTypes
<1>2. first.status = sent.status
  BY DEF Carries
<1>3. first.kind = "Success"
  <2>1. \A c \in Categories : ~Answer!IsSuccess(Answer!Canonical[c])
    BY CanonicalIsInjective DEF Answer!IsSuccess
  <2>2. ~IsError(sent.status)
    BY DEF IsError, Answer!IsSuccess, Answer!IsClientError, Answer!IsServerError
  <2>3. QED
    BY <1>1, <1>2, <2>1, <2>2 DEF Returned, Meant
<1>4. first.category = "none" /\ first.code = "none"
  BY <1>1, <1>3 DEF Returned, Meant
<1>5. DOMAIN got'.headers = Answer!HeaderNames
      /\ got'.headers["x-application"] = sent.headers["x-application"]
  BY DEF Answer!WithoutControl, Answer!HeaderNames
<1>6. hops' = 1 => hops = 0
  BY <1>1
<1>7. Answer!Suppressed(first.status)' <=> Answer!Suppressed(first.status)
  BY DEF Answer!Suppressed
<1>8. QED
  BY <1>2, <1>3, <1>4, <1>5, <1>6, <1>7 DEF Hears, Agrees, Carries

LEMMA DecodeHeadInv ==
  ASSUME AnswerInv, Answer!DecodeHead
  PROVE  AnswerInv'
<1>1. pc = "sent" /\ call.head
  BY DEF Answer!DecodeHead, Answer!HeadAccepted
<1>2. ~(call.controls /\ Answer!IsAnothers)
  BY <1>1, AcceptedIsOurs DEF Answer!DecodeHead
<1>3. CASE Answer!IsSuccess(sent.status)
  <2>1. Answer!Decoded(Answer!NullResponse, TRUE)
    BY <1>3 DEF Answer!DecodeHead
  <2>2. got' = Answer!NullResponse /\ hops' = hops + 1 /\ UNCHANGED call
    BY <2>1 DEF Answer!Decoded
  <2>3. Answer!Suppressed(sent.status)
    BY <1>1 DEF Answer!Suppressed
  <2>4. ASSUME NEW first \in raised, intact, Carries(first) PROVE Hears(first)'
    BY <1>1, <1>3, <2>2, <2>3, <2>4, NullResponseIs, ResultHeard
  <2>5. QED
    BY <1>1, <1>2, <2>1, <2>4, ReadInv
<1>4. CASE ~Answer!IsSuccess(sent.status)
  <2>1. \E result : Answer!Decoded(result, FALSE)
    BY <1>4, Zenon DEF Answer!DecodeHead
  <2>2. QED
    BY <1>1, <1>2, <2>1, LostInv
<1>5. QED
  BY <1>3, <1>4

LEMMA DecodeNoContentInv ==
  ASSUME AnswerInv, Answer!DecodeNoContent
  PROVE  AnswerInv'
<1>1. /\ pc = "sent" /\ sent.status \in {204, 205} /\ Answer!HeadAccepted
      /\ Answer!Decoded(Answer!NullResponse, TRUE)
  BY DEF Answer!DecodeNoContent, Answer!HeadAccepted
<1>2. ~(call.controls /\ Answer!IsAnothers)
  BY <1>1, AcceptedIsOurs
<1>3. got' = Answer!NullResponse /\ hops' = hops + 1 /\ UNCHANGED call
  BY <1>1 DEF Answer!Decoded
<1>4. Answer!Suppressed(sent.status) /\ Answer!IsSuccess(sent.status)
  BY <1>1 DEF Answer!Suppressed, Answer!IsSuccess
<1>5. ASSUME NEW first \in raised, intact, Carries(first) PROVE Hears(first)'
  BY <1>1, <1>3, <1>4, <1>5, NullResponseIs, ResultHeard
<1>6. QED
  BY <1>1, <1>2, <1>5, ReadInv

LEMMA DecodeSuccessInv ==
  ASSUME AnswerInv, Answer!DecodeSuccess
  PROVE  AnswerInv'
<1>1. pc = "sent" /\ Answer!HeadAccepted /\ Answer!IsSuccess(sent.status)
  BY DEF Answer!DecodeSuccess, Answer!HasBody, Answer!HeadAccepted
<1>2. ~(call.controls /\ Answer!IsAnothers)
  BY <1>1, AcceptedIsOurs
<1>3. CASE Answer!IsJson(sent.headers["content-type"])
  <2> DEFINE null == Answer!NullResponse
             result == [null EXCEPT !.size = sent.body.size]
  <2>1. Answer!Decoded(result, TRUE)
    BY <1>3 DEF Answer!DecodeSuccess
  <2>2. /\ DOMAIN null = Fields /\ null.kind = "Success" /\ null.category = "none"
        /\ null.code = "none" /\ null.status = sent.status /\ null.origin = "Remote"
        /\ null.headers = Answer!WithoutControl(sent.headers)
    BY NullResponseIs
  <2> HIDE DEF null
  <2>3. /\ DOMAIN result = Fields /\ result.kind = "Success" /\ result.category = "none"
        /\ result.code = "none" /\ result.status = sent.status /\ result.origin = "Remote"
        /\ result.headers = Answer!WithoutControl(sent.headers) /\ result.size = sent.body.size
    BY <2>2 DEF Fields
  <2> HIDE DEF result
  <2>4. got' = result /\ hops' = hops + 1 /\ UNCHANGED call
    BY <2>1 DEF Answer!Decoded
  <2>5. ASSUME NEW first \in raised, intact, Carries(first) PROVE Hears(first)'
    BY <1>1, <2>3, <2>4, <2>5, ResultHeard
  <2>6. QED
    BY <1>1, <1>2, <2>1, <2>5, ReadInv
<1>4. CASE ~Answer!IsJson(sent.headers["content-type"])
  <2>1. \E result : Answer!Decoded(result, FALSE)
    BY <1>4, Zenon DEF Answer!DecodeSuccess
  <2>2. QED
    BY <1>1, <1>2, <2>1, LostInv
<1>5. QED
  BY <1>3, <1>4

LEMMA RejectBodyInv ==
  ASSUME AnswerInv, Answer!RejectBody
  PROVE  AnswerInv'
<1>1. PICK error \in Answer!BodyFailure :
        Answer!Decoded([error EXCEPT !.headers =
          IF error.origin = "Remote" THEN Answer!WithoutControl(sent.headers) ELSE @], FALSE)
  BY DEF Answer!RejectBody
<1>2. /\ DOMAIN error = Fields /\ error.kind = "Framework"
      /\ error.origin = "Remote" => error.category = "DataLoss"
  <2>1. \/ \E code : error = Answer!ProtocolError(code)
        \/ \E category \in Categories : \E code : error = Answer!FrameworkError(category, code)
    BY DEF Answer!BodyFailure, Answer!TooLarge, Answer!Exhausted, Categories
  <2>2. QED
    BY <2>1, ProtocolErrorIs, FrameworkErrorIs
<1> DEFINE headers == IF error.origin = "Remote" THEN Answer!WithoutControl(sent.headers)
                      ELSE error.headers
           result == [error EXCEPT !.headers = headers]
<1>3. Answer!Decoded(result, FALSE)
  BY <1>1
<1>4. result.kind = error.kind /\ result.origin = error.origin /\ result.category = error.category
  BY <1>2, WithHeaders
<1>5. pc = "sent"
  BY DEF Answer!RejectBody, Answer!HasBody, Answer!HeadAccepted
<1> HIDE DEF result
<1>6. QED
  BY <1>2, <1>3, <1>4, <1>5, LostInv

\* An error is read from a problem, which says whose it is, or from the status.
LEMMA DecodeFailureInv ==
  ASSUME ResponseLimits, AnswerInv, Answer!DecodeFailure
  PROVE  AnswerInv'
<1> DEFINE error == Answer!DecodeError(sent, call.controls)
           headers == Answer!ForDecoder(sent.headers)
           result == [error EXCEPT !.headers = Answer!WithoutControl(sent.headers)]
<1>1. /\ pc = "sent" /\ Answer!HeadAccepted /\ ~Answer!IsSuccess(sent.status)
      /\ Answer!Decoded(result, TRUE)
  BY DEF Answer!DecodeFailure, Answer!HasBody, Answer!HeadAccepted
<1>2. ProblemIsInBody
  BY <1>1 DEF AnswerInv, AnswerTypes
<1>3. ASSUME NEW p, sent.body.problem = {p}
      PROVE  /\ error = Answer!DecodeProblem(sent.status, p, headers, call.controls)
             /\ (CHOOSE q \in sent.body.problem : TRUE) = p
  <2>1. (CHOOSE q \in sent.body.problem : TRUE) = p
    BY <1>3
  <2>2. sent.body.form = "problem"
    BY <1>2, <1>3 DEF ProblemIsInBody
  <2>3. QED
    BY <2>1, <2>2 DEF Answer!DecodeError
<1>4. ASSUME call.controls, Answer!IsAnothers
      PROVE  result.kind = "Framework" /\ (result.origin = "Remote" => result.category = "DataLoss")
  <2>1. PICK p \in sent.body.problem : p.status = sent.status /\ p.requestId # {"ours"}
    BY <1>1, <1>4, AcceptedIsOurs
  <2>2. sent.body.problem = {p}
    BY <1>2, <2>1 DEF ProblemIsInBody
  <2>3. error = Answer!DecodeProblem(sent.status, p, headers, TRUE)
    <3>1. Answer!DecodeProblem(sent.status, p, headers, call.controls)
            = Answer!DecodeProblem(sent.status, p, headers, TRUE)
      BY <1>4 DEF Answer!DecodeProblem
    <3>2. QED
      BY <1>3, <2>2, <3>1
  <2> HIDE DEF error, headers
  <2>4. DOMAIN error = Fields /\ error.kind = "Framework" /\ error.category = "DataLoss"
    BY <2>1, <2>3, AnothersProblem
  <2>5. QED
    BY <2>4, WithHeaders
<1>5. ASSUME NEW first \in raised, intact, Carries(first) PROVE Hears(first)'
  <2>1. Returned(first) /\ hops \in Nat
    BY DEF AnswerInv, AnswerTypes
  <2>2. first.status = sent.status
    BY <1>5 DEF Carries
  <2>3. first.kind # "Success"
    BY <1>1, <2>1, <2>2 DEF Returned, Meant
  <2>4. PICK p : /\ sent.body.problem = {p} /\ Reports(p, first)
                 /\ /\ hops = 0 /\ first.kind = "Application"
                    /\ first.message = "short" /\ first.details # "large"
                    => p.message = "short" /\ p.details = first.details
    BY <1>5, <2>3 DEF Carries
  <2>5. error = Answer!DecodeProblem(first.status, p, headers, call.controls)
    BY <1>3, <2>2, <2>4
  <2>6. /\ DOMAIN error = Fields /\ error.origin = "Remote" /\ Agrees(error, first)
        /\ error.message = IF p.message = "none" THEN "fallback" ELSE p.message
        /\ first.kind = "Application" => error.details = p.details
        /\ first.kind = "Framework" =>
             error.hint = Answer!NormalizedRetryHint("Framework", first.status, headers)
    BY <2>1, <2>3, <2>4, <2>5, DecodedProblem DEF Returned
  <2> HIDE DEF error
  <2>7. /\ DOMAIN result = Fields /\ result.headers = Answer!WithoutControl(sent.headers)
        /\ result.kind = error.kind /\ result.category = error.category
        /\ result.status = error.status /\ result.code = error.code
        /\ result.message = error.message /\ result.details = error.details
        /\ result.origin = error.origin /\ result.hint = error.hint
    BY <2>6, WithHeaders
  <2>8. got' = result /\ hops' = hops + 1 /\ UNCHANGED call
    BY <1>1 DEF Answer!Decoded
  <2> HIDE DEF result
  <2>9. DOMAIN got'.headers = Answer!HeaderNames
        /\ got'.headers["x-application"] = sent.headers["x-application"]
    BY <2>7, <2>8 DEF Answer!WithoutControl, Answer!HeaderNames
  <2>10. hops' = 1 => hops = 0
    BY <2>1, <2>8
  <2>11. Agrees(got, first)'
    BY <2>6, <2>7, <2>8 DEF Agrees
  <2>12. got'.kind = "Framework" /\ got'.category = "Internal" =>
           got'.message \in {"scrubbed", "fallback"}
    BY <2>4, <2>6, <2>7, <2>8, <2>11 DEF Reports, Agrees
  <2>13. ASSUME NEW d, hops' = 1, first.kind = "Framework", first.hint.after = {d},
                Answer!IsTransientStatus(first.status)
         PROVE  2 * ((d + 1) \div 2) \in got'.hint.after
    <3>1. sent.headers["retry-after"] = <<Answer!RetryAfterSeconds(d)>>
      BY <1>5, <2>10, <2>13 DEF Carries
    <3>2. headers["retry-after"] = <<Answer!RetryAfterSeconds(d)>>
      BY <3>1 DEF Answer!ForDecoder, Answer!HeaderNames
    <3>3. (d + 1) \div 2 \in 0 .. MaxSeconds
      <4>1. d \in Delays
        BY <2>1, <2>13 DEF Returned
      <4>2. d \in Nat /\ (d + 1) \div 2 <= MaxSeconds /\ MaxSeconds \in Nat
        BY <4>1 DEF ResponseLimits
      <4>3. QED
        BY <4>2
    <3> HIDE DEF headers
    <3>4. 2 * ((d + 1) \div 2) \in Answer!ParseRetryAfter(headers)
      <4> DEFINE s == (d + 1) \div 2
                 texts == headers["retry-after"]
      <4>1. Answer!Len(texts) = 1 /\ texts[1] = Answer!ToString(s)
        BY <3>2 DEF Answer!RetryAfterSeconds
      <4>2. s \in {t \in 0 .. MaxSeconds : Answer!ToString(t) = texts[1]}
        BY <3>3, <4>1
      <4> HIDE DEF s, texts
      <4>3. 2 * s \in {2 * t : t \in {t \in 0 .. MaxSeconds : Answer!ToString(t) = texts[1]}}
        BY <4>2
      <4>4. QED
        BY <4>1, <4>3 DEF Answer!ParseRetryAfter, s, texts
    <3>5. got'.hint = [retryable |-> TRUE, after |-> Answer!ParseRetryAfter(headers)]
      BY <2>6, <2>7, <2>8, <2>13 DEF Answer!NormalizedRetryHint, headers
    <3>6. QED
      BY <3>4, <3>5
  <2>14. QED
    BY <1>5, <2>3, <2>4, <2>6, <2>7, <2>8, <2>9, <2>10, <2>11, <2>12, <2>13
       DEF Hears, Carries
<1>6. QED
  BY <1>1, <1>4, <1>5, ReadInv

\* A service passes on what it was given.
LEMMA RelayInv ==
  ASSUME AnswerInv, NEW next, Answer!Relay(next)
  PROVE  AnswerInv'
<1>1. /\ pc = "decoded" /\ pc' = "serving" /\ outcome' = got /\ UNCHANGED <<raised, hops, intact>>
  BY DEF Answer!Relay
<1>2. AnswerTypes'
  BY <1>1 DEF AnswerInv, AnswerTypes
<1>3. hops \in Nat /\ hops > 0
  BY <1>1 DEF AnswerInv, AnswerTypes
<1>4. AnswerAgrees'
  BY <1>1, <1>3 DEF AnswerInv, AnswerAgrees, Hears, Agrees
<1>5. QED
  BY <1>1, <1>2, <1>4 DEF AnswerInv, Answer!NotAnothersAnswer

LEMMA AnswerStepInv ==
  ASSUME ResponseLimits, AnswerInv, [Answer!Next]_(Answer!vars)
  PROVE  AnswerInv'
<1>1. CASE UNCHANGED Answer!vars
  <2>1. UNCHANGED <<call, raised, outcome, sent, got, hops, intact, pc>>
    BY <1>1, Zenon DEF Answer!vars
  <2>2. ProblemIsInBody' <=> ProblemIsInBody
    BY <2>1 DEF ProblemIsInBody
  <2>3. \A first : /\ Carries(first)' <=> Carries(first)
                   /\ Hears(first)' <=> Hears(first)
    BY <2>1 DEF Carries, Hears, Reports, Answer!Suppressed
  <2>4. AnswerTypes'
    BY <2>1, <2>2 DEF AnswerInv, AnswerTypes
  <2>5. AnswerAgrees'
    BY <2>1, <2>3 DEF AnswerInv, AnswerAgrees
  <2>6. Answer!IsAnothers' <=> Answer!IsAnothers
    BY <2>1 DEF Answer!IsAnothers
  <2>7. QED
    BY <2>1, <2>4, <2>5, <2>6 DEF AnswerInv, Answer!NotAnothersAnswer
<1>2. CASE Answer!Next
  BY <1>2, EncodeSuccessInv, AnswerProblemInv, BreakStreamInv, RejectHeadInv, DecodeHeadInv,
     DecodeNoContentInv, RejectBodyInv, DecodeFailureInv, DecodeSuccessInv, RelayInv
     DEF Answer!Next
<1>3. QED
  BY <1>1, <1>2

LEMMA AnswerInvariance ==
  ASSUME ResponseLimits
  PROVE  Answer!Spec => []AnswerInv
<1>1. Answer!Init => AnswerInv
  BY AnswerInitInv
<1>2. AnswerInv /\ [Answer!Next]_(Answer!vars) => AnswerInv'
  BY AnswerStepInv
<1>3. QED
  BY <1>1, <1>2, PTL DEF Answer!Spec

\* What is heard is what the properties say.
LEMMA HeardIsFirst ==
  ASSUME AnswerInv, Answer!HasArrived
  PROVE  Returned(Answer!First) /\ Hears(Answer!First)
<1>1. PICK first : raised = {first} /\ Returned(first)
  BY DEF AnswerInv, AnswerTypes, Answer!HasArrived
<1>2. Answer!First = first
  BY <1>1 DEF Answer!First
<1>3. Hears(first)
  BY <1>1 DEF AnswerInv, AnswerAgrees, Answer!HasArrived
<1>4. QED
  BY <1>1, <1>2, <1>3

\* For any peer and any number of servers in a row: with invocation controls, a
\* response whose head or problem names another call is neither a result nor an
\* application's error, and nothing the client tries again.
THEOREM OthersAnswersAreRefused ==
  ASSUME ResponseLimits
  PROVE  Answer!Spec => []Answer!NotAnothersAnswer
<1>1. AnswerInv => Answer!NotAnothersAnswer
  BY DEF AnswerInv
<1>2. QED
  BY <1>1, AnswerInvariance, PTL

\* For any number of servers in a row: what the first service returned, result or
\* error, is what the caller at the end is told, in the words of error/invocation.rs.
THEOREM OutcomesArrive ==
  ASSUME ResponseLimits
  PROVE  Answer!Spec => []Answer!OutcomeArrives
<1>1. ASSUME AnswerInv PROVE Answer!OutcomeArrives
  <2> SUFFICES ASSUME Answer!HasArrived PROVE Answer!OutcomeArrives
    BY DEF Answer!OutcomeArrives
  <2> DEFINE first == Answer!First
  <2>1. Returned(first) /\ Hears(first)
    BY <1>1, HeardIsFirst
  <2> HIDE DEF first
  <2>2. got.kind \in {"Success", "Application", "Framework"}
    BY <2>1 DEF Returned, Meant, Hears, Agrees
  <2>3. /\ got.kind = "Application" => ~Answer!IsRetryable(Answer!ClassifyError(got))
        /\ got.kind # "Success" /\ first.category # "DataLoss" => Answer!ClassifyError(got) # "Protocol"
    BY <2>1, <2>2, ClassesOfErrors DEF Hears, Agrees
  <2>4. got.kind = "Framework" /\ first.category = "Internal" => got.message # first.message
    BY <2>1 DEF Returned, Hears, Agrees
  <2>5. QED
    BY <2>1, <2>3, <2>4 DEF Answer!OutcomeArrives, Hears, Agrees, first
<1>2. QED
  BY <1>1, AnswerInvariance, PTL

\* For any delays: the delay a server asks for with a transient status reaches its
\* client as no less.
THEOREM DelaysArrive ==
  ASSUME ResponseLimits
  PROVE  Answer!Spec => []Answer!WaitsAsTold
<1>1. ASSUME AnswerInv PROVE Answer!WaitsAsTold
  <2> DEFINE first == Answer!First
  <2> SUFFICES ASSUME Answer!HasArrived, hops = 1, first.kind = "Framework", first.hint.after # {},
                      Answer!IsTransientStatus(first.status)
               PROVE  \E d \in got.hint.after : \A asked \in first.hint.after : asked <= d
    BY DEF Answer!WaitsAsTold
  <2>1. Returned(first) /\ Hears(first)
    BY <1>1, HeardIsFirst
  <2> HIDE DEF first
  <2>2. PICK d \in Delays : first.hint.after = {d}
    BY <2>1 DEF Returned
  <2>3. 2 * ((d + 1) \div 2) \in got.hint.after
    BY <2>1, <2>2 DEF Hears
  <2>4. d \in Nat
    BY DEF ResponseLimits
  <2>5. d <= 2 * ((d + 1) \div 2)
    BY <2>4
  <2>6. QED
    BY <2>2, <2>3, <2>5
<1>2. QED
  BY <1>1, AnswerInvariance, PTL
=============================================================================
