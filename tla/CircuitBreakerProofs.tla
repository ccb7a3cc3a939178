------------------------- MODULE CircuitBreakerProofs -------------------------
(***************************************************************************)
(* Proofs about CircuitBreaker for every number of callers, every window   *)
(* and every configuration.                                                *)
(*                                                                         *)
(* The inductive invariant Inv adds to the types that the live callers are *)
(* the ones the machine counts, that an instant a live caller brings to    *)
(* complete is no earlier than the end of the last open period, and what   *)
(* the fields of the variants the machine is not in hold.                  *)
(*                                                                         *)
(* The second part is about EndpointBreakers, which keeps the breakers:    *)
(* what holds the membership lock, and what it may do to the entries.      *)
(*                                                                         *)
(* The third part is about MCRollingWindow, the window next to the list of *)
(* what it was told: which outcome each slot holds (Accounts), that moving *)
(* on and recording keep that, and that the fold of counts() adds it up.   *)
(***************************************************************************)
EXTENDS CircuitBreaker, Sequences, FiniteSetTheorems, WellFoundedInduction, TLAPS

\* The instants that may become the beginning of the next open period.
Timing ==
  /\ phase # "Open" => until <= clock
  /\ \A t \in Live : pc[t] = "complete" => until <= now[t]

\* The counters of a half-open breaker, when it is not half-open.
Unused == phase # "HalfOpen" => successes = 0

Inv == TypeOK /\ ProbesAccounted /\ Timing /\ Unused

-----------------------------------------------------------------------------
\* NewWindow makes a window, with every bucket empty.
LEMMA NewWindowType ==
  ASSUME NEW n \in Nat
  PROVE  NewWindow(n) \in Window
BY BucketsAssumption, CountMaxAssumption
   DEF NewWindow, Window, Slots, Bucket, EmptyBucket

\* Advance keeps the ring's index in range and never moves the start back.
LEMMA AdvanceType ==
  ASSUME NEW w \in Window, NEW n \in Nat
  PROVE  Advance(w, n) \in Window /\ Advance(w, n).start >= w.start
<1> DEFINE steps == StepsTo(w, n)
<1>1. w.start \in Nat /\ w.current \in Slots /\ w.buckets \in [Slots -> Bucket]
  BY DEF Window
<1>2. steps \in Nat
  BY <1>1, BucketWidthAssumption DEF StepsTo, SaturatingSince
<1>3. (w.current + steps) % Buckets \in Slots
  BY <1>1, <1>2, BucketsAssumption DEF Slots
<1>4. w.start + steps * BucketWidth \in Nat
      /\ w.start + steps * BucketWidth >= w.start
  BY <1>1, <1>2, BucketWidthAssumption
<1>5. EmptyBucket \in Bucket
  BY CountMaxAssumption DEF EmptyBucket, Bucket
<1>6. CASE steps = 0
  BY <1>6, <1>1 DEF Advance
<1>7. CASE steps # 0 /\ steps >= Buckets
  <2>1. Advance(w, n) = NewWindow(n)
    BY <1>7 DEF Advance
  <2>2. n >= w.start
    BY <1>7, <1>1, BucketWidthAssumption DEF StepsTo, SaturatingSince
  <2> QED
    BY <2>1, <2>2, NewWindowType DEF NewWindow
<1>8. CASE steps # 0 /\ ~(steps >= Buckets)
  <2> DEFINE b == [i \in Slots |-> IF i \in Entered(w, steps)
                                   THEN EmptyBucket ELSE w.buckets[i]]
  <2>1. b \in [Slots -> Bucket]
    BY <1>1, <1>5
  <2>2. Advance(w, n) = [buckets |-> b,
                         current |-> (w.current + steps) % Buckets,
                         start   |-> w.start + steps * BucketWidth]
    BY <1>8 DEF Advance
  <2> HIDE DEF b, steps
  <2> QED
    BY <2>1, <2>2, <1>3, <1>4 DEF Window
<1> QED
  BY <1>6, <1>7, <1>8

\* Recording an outcome keeps a window a window: the counters saturate.
LEMMA RecordedType ==
  ASSUME NEW w \in Window, NEW impact
  PROVE  Recorded(w, impact) \in Window
<1>1. \A b \in Bucket : /\ [b EXCEPT !.successes = SaturatingInc(b.successes)] \in Bucket
                        /\ [b EXCEPT !.failures = SaturatingInc(b.failures)] \in Bucket
  BY CountMaxAssumption DEF Bucket, SaturatingInc
<1>2. RecordSuccess(w) \in Window
  BY <1>1 DEF RecordSuccess, Window
<1>3. RecordFailure(w) \in Window
  BY <1>1 DEF RecordFailure, Window
<1> QED
  BY <1>2, <1>3 DEF Recorded

\* Both open durations are positive and below the ceiling.
LEMMA DurationType ==
  /\ InitialOpenDuration \in 0 .. MaxOpenDuration
  /\ \A d \in Nat : NextOpenDuration(d) \in 0 .. MaxOpenDuration
BY OpenDurationAssumption DEF InitialOpenDuration, NextOpenDuration, MinOf

-----------------------------------------------------------------------------
\* The live callers are finitely many.
LEMMA LiveFinite == IsFiniteSet(Live) /\ Cardinality(Live) \in Nat
<1>1. Live \in SUBSET Callers
  BY DEF Live
<1> QED
  BY <1>1, BreakerCallersAssumption, FS_Subset, FS_CardinalityType

\* Nobody is live while the breaker is open.
LEMMA OpenDisowns ==
  ASSUME TypeOK, ProbesAccounted, phase = "Open"
  PROVE  Live = {}
BY DEF TypeOK, ProbesAccounted, Live

\* A step that keeps the epoch and every holder's permit keeps Live.
LEMMA LiveKept ==
  ASSUME TypeOK, NEW t \in Callers, NEW label \in CallerPcs,
         label \in {"held", "complete"} <=> Holding(t),
         pc' = [pc EXCEPT ![t] = label], UNCHANGED <<epoch, permit>>
  PROVE  Live' = Live
BY DEF TypeOK, Live, Holding

\* A permit of the next step's epoch makes its caller live.
LEMMA LiveGrant ==
  ASSUME TypeOK, NEW t \in Callers, NEW p, ~Holding(t),
         Grant(t, epoch, p), UNCHANGED epoch
  PROVE  /\ Live' = Live \union {t}
         /\ t \notin Live
         /\ Cardinality(Live') = Cardinality(Live) + 1
<1>1. Live' = Live \union {t} /\ t \notin Live
  BY DEF TypeOK, Live, Holding, Grant
<1> QED
  BY <1>1, LiveFinite, FS_AddElement

\* A new epoch disowns every caller but the one it is granted to.
LEMMA LiveFirst ==
  ASSUME TypeOK, NEW t \in Callers, NEW p, Grant(t, epoch + 1, p), epoch' = epoch + 1
  PROVE  Live' = {t} /\ Cardinality(Live') = 1
<1>1. \A u \in Callers : permit[u].epoch \in 0 .. epoch /\ epoch \in Nat
  BY DEF TypeOK
<1>2. \A u \in Callers \ {t} : permit'[u] = permit[u]
  BY DEF TypeOK, Grant
<1>3. permit'[t].epoch = epoch + 1 /\ pc'[t] = "held"
  BY DEF TypeOK, Grant
<1>4. Live' = {t}
  BY <1>1, <1>2, <1>3 DEF Live, Holding
<1> QED
  BY <1>4, FS_Singleton

\* A completed caller is not live any more.
LEMMA LiveDone ==
  ASSUME TypeOK, NEW t \in Callers, Done(t), UNCHANGED epoch
  PROVE  /\ Live' = Live \ {t}
         /\ t \in Live => Cardinality(Live') = Cardinality(Live) - 1
         /\ t \in Live => Cardinality(Live) >= 1
<1>1. Live' = Live \ {t}
  BY DEF TypeOK, Live, Holding, Done
<1>2. ASSUME t \in Live
      PROVE  Cardinality(Live \ {t}) = Cardinality(Live) - 1 /\ Cardinality(Live) >= 1
  <2>1. Cardinality(Live \ {t}) = Cardinality(Live) - 1
    BY <1>2, LiveFinite, FS_RemoveElement
  <2>2. Cardinality(Live) # 0
    BY <1>2, LiveFinite, FS_EmptySet
  <2> QED
    BY <2>1, <2>2, LiveFinite
<1> QED
  BY <1>1, <1>2

\* A completion that begins a new epoch leaves nobody live.
LEMMA LiveNone ==
  ASSUME TypeOK, NEW t \in Callers, Done(t), epoch' = epoch + 1
  PROVE  Live' = {}
<1>1. \A u \in Callers : permit[u].epoch \in 0 .. epoch /\ epoch \in Nat
  BY DEF TypeOK
<1>2. \A u \in Callers \ {t} : permit'[u] = permit[u]
  BY DEF TypeOK, Done
<1>3. pc'[t] = "idle"
  BY DEF TypeOK, Done
<1> QED
  BY <1>1, <1>2, <1>3 DEF Live, Holding

-----------------------------------------------------------------------------
\* The callers' part of the type invariant.
CallersType ==
  /\ clock \in 0 .. MaxClock
  /\ pc \in [Callers -> CallerPcs]
  /\ now \in [Callers -> 0 .. clock]
  /\ permit \in [Callers -> [epoch : 0 .. epoch, phase : {"Closed", "HalfOpen"}]]

\* The machine's part of the type invariant.
MachineType ==
  /\ epoch \in Nat
  /\ phase \in Phases
  /\ window \in Window
  /\ until \in Nat
  /\ duration \in 0 .. MaxOpenDuration
  /\ inFlight \in 0 .. HalfOpenConcurrency
  /\ successes \in 0 .. CloseSuccesses - 1

\* TypeOK in two parts: the breaker and its callers.
LEMMA TypeParts == TypeOK <=> MachineType /\ CallersType
BY DEF TypeOK, MachineType, CallersType

\* Granting or completing a permit keeps the callers' types.
LEMMA MoveType ==
  ASSUME MachineType, CallersType, NEW t \in Callers, epoch' \in {epoch, epoch + 1},
         \/ Done(t)
         \/ \E p \in {"Closed", "HalfOpen"} : Grant(t, epoch', p)
  PROVE  CallersType'
<1>1. epoch \in Nat /\ epoch' \in Nat /\ 0 .. epoch \subseteq 0 .. epoch'
  BY DEF MachineType
<1>2. permit \in [Callers -> [epoch : 0 .. epoch', phase : {"Closed", "HalfOpen"}]]
  BY <1>1 DEF CallersType
<1>3. 0 \in 0 .. clock /\ clock \in 0 .. MaxClock
  BY MaxClockAssumption DEF CallersType
<1>4. CASE Done(t)
  BY <1>1, <1>2, <1>3, <1>4 DEF CallersType, Done, CallerPcs, NoToken
<1>5. ASSUME NEW p \in {"Closed", "HalfOpen"}, Grant(t, epoch', p)
      PROVE  CallersType'
  BY <1>1, <1>2, <1>3, <1>5 DEF CallersType, Grant, CallerPcs
<1> QED
  BY <1>4, <1>5

\* Timing is kept by a step of t that leaves the machine's deadline alone,
\* does not open the breaker and puts no other caller into complete.
LEMMA TimingKept ==
  ASSUME Inv, NEW t \in Callers, UNCHANGED <<clock, until>>, phase # "Open",
         Live' \subseteq Live \union {t},
         \A u \in Callers \ {t} : pc'[u] = pc[u] /\ now'[u] = now[u],
         pc'[t] # "complete"
  PROVE  Timing'
BY DEF Inv, Timing, Live

-----------------------------------------------------------------------------
\* try_acquire on a closed breaker keeps the invariant.
LEMMA AcquireClosedInv ==
  ASSUME Inv, NEW t \in Callers, AcquireClosed(t)
  PROVE  Inv'
<1> USE DEF AcquireClosed
<1>1. TypeOK
  BY DEF Inv
<1>2. ~Holding(t)
  BY DEF Holding
<1>3. Live' = Live \union {t} /\ t \notin Live
  BY <1>1, <1>2, LiveGrant
<1>4. TypeOK'
  <2>1. now[t] \in Nat /\ window \in Window
    BY <1>1, MaxClockAssumption DEF TypeOK
  <2>2. window' \in Window
    BY <2>1, AdvanceType
  <2>3. CallersType'
    BY <1>1, TypeParts, MoveType
  <2>4. MachineType'
    BY <1>1, <2>2 DEF TypeOK, MachineType, Phases
  <2> QED
    BY <2>3, <2>4 DEF TypeOK, MachineType, CallersType
<1>5. ProbesAccounted'
  <2>1. permit'[t].phase = "Closed" /\ \A u \in Callers \ {t} : permit'[u] = permit[u]
    BY <1>1 DEF Grant, TypeOK
  <2> QED
    BY <1>3, <2>1 DEF ProbesAccounted, Inv, Live
<1>6. Timing'
  BY <1>1, <1>3, TimingKept DEF Grant, TypeOK
<1> QED
  BY <1>4, <1>5, <1>6 DEF Inv, Unused

\* The probe that turns an expired breaker half-open keeps the invariant.
LEMMA FirstProbeInv ==
  ASSUME Inv, NEW t \in Callers, AcquireFirstProbe(t)
  PROVE  Inv'
<1> USE DEF AcquireFirstProbe
<1>1. TypeOK
  BY DEF Inv
<1>2. Live' = {t} /\ Cardinality(Live') = 1
  BY <1>1, LiveFirst
<1>3. TypeOK'
  <2>1. epoch' = epoch + 1 /\ Grant(t, epoch', "HalfOpen")
    BY DEF Grant
  <2>3. CallersType'
    BY <1>1, <2>1, TypeParts, MoveType
  <2>2. MachineType'
    BY <1>1, HalfOpenAssumption DEF TypeOK, MachineType, Phases
  <2> QED
    BY <2>2, <2>3 DEF TypeOK, MachineType, CallersType
<1>4. ProbesAccounted'
  <2>1. permit'[t].phase = "HalfOpen"
    BY <1>1 DEF Grant, TypeOK
  <2> QED
    BY <1>2, <2>1 DEF ProbesAccounted
<1>5. Timing'
  <2>1. now[t] \in 0 .. clock /\ until \in Nat /\ clock \in Nat
    BY <1>1, MaxClockAssumption DEF TypeOK
  <2>2. pc'[t] = "held" /\ until' = until /\ clock' = clock
    BY <1>1 DEF Grant, TypeOK
  <2> QED
    BY <1>2, <2>1, <2>2 DEF Timing
<1> QED
  BY <1>3, <1>4, <1>5 DEF Inv, Unused

\* A further probe keeps the invariant: it takes a slot and makes one live.
LEMMA ProbeInv ==
  ASSUME Inv, NEW t \in Callers, AcquireProbe(t)
  PROVE  Inv'
<1> USE DEF AcquireProbe
<1>1. TypeOK
  BY DEF Inv
<1>2. ~Holding(t)
  BY DEF Holding
<1>3. /\ Live' = Live \union {t} /\ t \notin Live
      /\ Cardinality(Live') = Cardinality(Live) + 1
  BY <1>1, <1>2, LiveGrant
<1>4. TypeOK'
  <2>1. CallersType'
    BY <1>1, TypeParts, MoveType
  <2>2. MachineType'
    BY <1>1, HalfOpenAssumption DEF TypeOK, MachineType, Saturated
  <2> QED
    BY <2>1, <2>2 DEF TypeOK, MachineType, CallersType
<1>5. ProbesAccounted'
  <2>1. permit'[t].phase = "HalfOpen" /\ \A u \in Callers \ {t} : permit'[u] = permit[u]
    BY <1>1 DEF Grant, TypeOK
  <2>2. inFlight' = Cardinality(Live')
    BY <1>3 DEF ProbesAccounted, Inv
  <2> QED
    BY <1>3, <2>1, <2>2 DEF ProbesAccounted, Inv, Live
<1>6. Timing'
  BY <1>1, <1>3, TimingKept DEF Grant, TypeOK
<1> QED
  BY <1>4, <1>5, <1>6 DEF Inv, Unused

\* Reading the clock, and a refusal, keep the invariant.
LEMMA QuietInv ==
  ASSUME Inv, NEW t \in Callers,
         StartAcquire(t) \/ RejectOpen(t) \/ RejectSaturated(t) \/ StartComplete(t)
  PROVE  Inv' /\ Live' = Live
<1>1. TypeOK
  BY DEF Inv
<1>2. PICK label \in CallerPcs, i \in {0, clock} :
        /\ pc' = [pc EXCEPT ![t] = label]
        /\ now' = [now EXCEPT ![t] = i]
        /\ label = "complete" => i = clock
        /\ label \in {"held", "complete"} <=> Holding(t)
  BY DEF StartAcquire, RejectOpen, RejectSaturated, StartComplete, Reject,
         CallerPcs, Holding
<1>3. UNCHANGED <<machine, clock, permit>>
  BY DEF StartAcquire, RejectOpen, RejectSaturated, StartComplete, Reject
<1>4. Live' = Live
  BY <1>1, <1>2, <1>3, LiveKept DEF machine
<1>5. TypeOK'
  BY <1>1, <1>2, <1>3, MaxClockAssumption DEF TypeOK, machine
<1>6. ProbesAccounted'
  BY <1>3, <1>4 DEF Inv, ProbesAccounted, machine
<1>7. Timing'
  <2>1. phase = "Open" => Live = {}
    BY OpenDisowns DEF Inv
  <2>2. \A u \in Callers : /\ pc'[u] = IF u = t THEN label ELSE pc[u]
                           /\ now'[u] = IF u = t THEN i ELSE now[u]
    BY <1>1, <1>2 DEF TypeOK
  <2> QED
    BY <1>2, <1>3, <1>4, <2>1, <2>2 DEF Inv, Timing, machine, Live
<1> QED
  BY <1>3, <1>4, <1>5, <1>6, <1>7 DEF Inv, Unused, machine

\* A completion that is not counted keeps the invariant, and its caller was
\* not live.
LEMMA StaleInv ==
  ASSUME Inv, NEW t \in Callers, CompleteStale(t)
  PROVE  Inv' /\ Live' = Live
<1> USE DEF CompleteStale
<1>1. TypeOK /\ UNCHANGED machine
  BY DEF Inv
<1>2. t \notin Live
  BY DEF Inv, ProbesAccounted, Counts, Live
<1>3. Live' = Live
  BY <1>1, <1>2, LiveDone DEF machine
<1>4. TypeOK'
  <2>1. CallersType'
    BY <1>1, TypeParts, MoveType DEF machine
  <2> QED
    BY <1>1, <2>1 DEF TypeOK, CallersType, machine
<1>5. \A u \in Callers \ {t} : /\ pc'[u] = pc[u] /\ now'[u] = now[u]
                               /\ permit'[u] = permit[u]
  BY <1>1 DEF Done, TypeOK
<1>6. ProbesAccounted'
  BY <1>1, <1>2, <1>3, <1>5 DEF Inv, ProbesAccounted, machine, Live
<1>7. Timing'
  BY <1>1, <1>2, <1>3, <1>5 DEF Inv, Timing, machine, Live, Done
<1> QED
  BY <1>1, <1>3, <1>4, <1>6, <1>7 DEF Inv, Unused, machine

\* A counted completion comes from a live caller, with an instant no earlier
\* than the end of the last open period.
LEMMA CountedIsLive ==
  ASSUME Inv, NEW t \in Callers, pc[t] = "complete", Counts(t)
  PROVE  t \in Live /\ until <= now[t] /\ now[t] \in Nat /\ now[t] <= clock
BY MaxClockAssumption DEF Inv, Timing, TypeOK, Counts, Live, Holding

\* Opening the breaker keeps the invariant.
LEMMA OpenInv ==
  ASSUME Inv, NEW t \in Callers, pc[t] = "complete", Counts(t),
         NEW d \in 0 .. MaxOpenDuration, OpenFrom(t, d), Done(t)
  PROVE  Inv' /\ Live' = {} /\ until' - duration' >= until
<1> USE DEF OpenFrom
<1>1. TypeOK
  BY DEF Inv
<1>2. Live' = {}
  BY <1>1, LiveNone
<1>3. now[t] \in Nat /\ until <= now[t]
  BY CountedIsLive
<1>4. TypeOK'
  <2>1. CallersType'
    BY <1>1, TypeParts, MoveType
  <2>2. window' \in Window
    BY NewWindowType
  <2>3. MachineType'
    BY <1>1, <1>3, <2>2, HalfOpenAssumption, OpenDurationAssumption
    DEF TypeOK, MachineType, Phases
  <2> QED
    BY <2>1, <2>3 DEF TypeOK, MachineType, CallersType
<1>5. until' - duration' >= until
  BY <1>1, <1>3, OpenDurationAssumption DEF TypeOK
<1> QED
  BY <1>2, <1>4, <1>5 DEF Inv, ProbesAccounted, Timing, Unused

\* A completion that keeps the epoch keeps the invariant when it frees the
\* slot of a half-open caller.
LEMMA LeaveInv ==
  ASSUME Inv, NEW t \in Callers, pc[t] = "complete", Counts(t), Done(t),
         UNCHANGED <<epoch, phase, until, duration>>,
         window' \in Window,
         successes' \in 0 .. CloseSuccesses - 1,
         phase = "HalfOpen" => inFlight' = IF inFlight = 0 THEN 0 ELSE inFlight - 1,
         phase # "HalfOpen" => UNCHANGED <<inFlight, successes>>
  PROVE  Inv' /\ Live' = Live \ {t}
<1>1. TypeOK
  BY DEF Inv
<1>2. t \in Live
  BY CountedIsLive
<1>3. /\ Live' = Live \ {t}
      /\ Cardinality(Live') = Cardinality(Live) - 1 /\ Cardinality(Live) >= 1
  BY <1>1, <1>2, LiveDone
<1>4. phase # "Open"
  BY <1>2, OpenDisowns DEF Inv
<1>5. TypeOK'
  <2>1. CallersType'
    BY <1>1, TypeParts, MoveType
  <2>2. MachineType'
    BY <1>1, HalfOpenAssumption DEF TypeOK, MachineType
  <2> QED
    BY <2>1, <2>2 DEF TypeOK, MachineType, CallersType
<1>6. \A u \in Callers \ {t} : /\ pc'[u] = pc[u] /\ now'[u] = now[u]
                               /\ permit'[u] = permit[u]
  BY <1>1 DEF Done, TypeOK
<1>7. ProbesAccounted'
  <2>1. phase = "HalfOpen" => inFlight' = Cardinality(Live')
    BY <1>1, <1>3 DEF Inv, ProbesAccounted, TypeOK
  <2> QED
    BY <1>3, <1>6, <2>1 DEF Inv, ProbesAccounted, Live
<1>8. Timing'
  <2>1. pc'[t] = "idle" /\ clock' = clock
    BY <1>1 DEF Done, TypeOK
  <2> QED
    BY <1>3, <1>4, <1>6, <2>1, TimingKept
<1> QED
  BY <1>3, <1>5, <1>7, <1>8 DEF Inv, Unused

\* Closing the breaker keeps the invariant.
LEMMA CloseInv ==
  ASSUME Inv, NEW t \in Callers, pc[t] = "complete", Counts(t), Done(t),
         phase = "HalfOpen", successes + 1 >= CloseSuccesses, ProbeSuccess(t)
  PROVE  /\ Inv' /\ Live' = {} /\ epoch' = epoch + 1
         /\ phase' = "Closed" /\ duration' = 0 /\ successes' = 0
<1>1. TypeOK
  BY DEF Inv
<1>2. /\ epoch' = epoch + 1 /\ phase' = "Closed" /\ window' = NewWindow(now[t])
      /\ duration' = 0 /\ inFlight' = 0 /\ successes' = 0 /\ until' = until
  BY DEF ProbeSuccess
<1>3. Live' = {}
  BY <1>1, <1>2, LiveNone
<1>4. now[t] \in Nat
  BY CountedIsLive
<1>5. TypeOK'
  <2>1. CallersType'
    BY <1>1, <1>2, TypeParts, MoveType
  <2>2. window' \in Window
    BY <1>2, <1>4, NewWindowType
  <2>3. MachineType'
    BY <1>1, <1>2, <2>2, HalfOpenAssumption, OpenDurationAssumption
    DEF TypeOK, MachineType, Phases
  <2> QED
    BY <2>1, <2>3 DEF TypeOK, MachineType, CallersType
<1>6. until' <= clock'
  BY <1>2 DEF Inv, Timing, Done
<1> QED
  BY <1>2, <1>3, <1>5, <1>6 DEF Inv, ProbesAccounted, Timing, Unused

-----------------------------------------------------------------------------
(***************************************************************************)
(* What a counted completion can do: leave, open, or close the breaker.    *)
(***************************************************************************)

\* complete_closed either records an outcome or trips the breaker.
LEMMA ClosedCases ==
  ASSUME Inv, NEW t \in Callers, NEW outcome \in Outcomes, CompleteClosed(t, outcome)
  PROVE  /\ pc[t] = "complete" /\ Counts(t) /\ phase = "Closed" /\ Done(t)
         /\ \/ OpenFrom(t, InitialOpenDuration)
            \/ /\ window' \in Window
               /\ UNCHANGED <<epoch, phase, until, duration, inFlight, successes>>
<1> DEFINE w == Recorded(Advance(window, now[t]), Impact(outcome))
<1>1. pc[t] = "complete" /\ Counts(t) /\ phase = "Closed" /\ Done(t)
  BY DEF CompleteClosed
<1>2. now[t] \in Nat /\ window \in Window
  BY <1>1, CountedIsLive DEF Inv, TypeOK
<1>3. w \in Window
  BY <1>2, AdvanceType, RecordedType
<1>4. \/ OpenFrom(t, InitialOpenDuration)
      \/ /\ window' = w
         /\ UNCHANGED <<epoch, phase, until, duration, inFlight, successes>>
  BY DEF CompleteClosed
<1> QED
  BY <1>1, <1>3, <1>4

\* complete_half_open frees a slot, counts a success, closes or reopens.
LEMMA HalfOpenCases ==
  ASSUME Inv, NEW t \in Callers, NEW outcome \in Outcomes, CompleteHalfOpen(t, outcome)
  PROVE  /\ pc[t] = "complete" /\ Counts(t) /\ phase = "HalfOpen" /\ Done(t)
         /\ \/ OpenFrom(t, NextOpenDuration(duration))
            \/ ReleaseProbe
            \/ ProbeSuccess(t)
BY DEF CompleteHalfOpen

-----------------------------------------------------------------------------
\* Every step of complete keeps the invariant, and one that opens the breaker
\* begins a period after the last one.
LEMMA CompleteInv ==
  ASSUME Inv, NEW t \in Callers, Complete(t)
  PROVE  Inv' /\ (epoch' # epoch /\ phase' = "Open" => until' - duration' >= until)
<1>1. CASE CompleteStale(t)
  BY <1>1, StaleInv DEF CompleteStale, machine
<1>2. ASSUME NEW outcome \in Outcomes, CompleteClosed(t, outcome)
      PROVE  Inv' /\ (epoch' # epoch /\ phase' = "Open" => until' - duration' >= until)
  <2>1. pc[t] = "complete" /\ Counts(t) /\ phase = "Closed" /\ Done(t)
    BY <1>2, ClosedCases
  <2>2. CASE OpenFrom(t, InitialOpenDuration)
    BY <2>1, <2>2, OpenInv, DurationType
  <2>3. CASE /\ window' \in Window
             /\ UNCHANGED <<epoch, phase, until, duration, inFlight, successes>>
    <3>1. successes' \in 0 .. CloseSuccesses - 1
      BY <2>3 DEF Inv, TypeOK
    <3> QED
      BY <2>1, <2>3, <3>1, LeaveInv
  <2> QED
    BY <1>2, <2>2, <2>3, ClosedCases
<1>3. ASSUME NEW outcome \in Outcomes, CompleteHalfOpen(t, outcome)
      PROVE  Inv' /\ (epoch' # epoch /\ phase' = "Open" => until' - duration' >= until)
  <2>1. pc[t] = "complete" /\ Counts(t) /\ phase = "HalfOpen" /\ Done(t)
    BY <1>3, HalfOpenCases
  <2>2. CASE OpenFrom(t, NextOpenDuration(duration))
    <3>1. NextOpenDuration(duration) \in 0 .. MaxOpenDuration
      BY DurationType, OpenDurationAssumption DEF Inv, TypeOK
    <3> QED
      BY <2>1, <2>2, <3>1, OpenInv
  <2>3. CASE ReleaseProbe
    <3>1. successes' \in 0 .. CloseSuccesses - 1 /\ window' \in Window
      BY <2>3 DEF Inv, TypeOK, ReleaseProbe
    <3> QED
      BY <2>1, <2>3, <3>1, LeaveInv DEF ReleaseProbe
  <2>4. CASE ProbeSuccess(t) /\ successes + 1 >= CloseSuccesses
    BY <2>1, <2>4, CloseInv
  <2>5. CASE ProbeSuccess(t) /\ ~(successes + 1 >= CloseSuccesses)
    <3>1. /\ UNCHANGED <<epoch, phase, window, until, duration>>
          /\ successes' = successes + 1
          /\ inFlight' = IF inFlight = 0 THEN 0 ELSE inFlight - 1
      BY <2>5 DEF ProbeSuccess
    <3>2. successes' \in 0 .. CloseSuccesses - 1 /\ window' \in Window
      BY <2>5, <3>1, HalfOpenAssumption DEF Inv, TypeOK
    <3> QED
      BY <2>1, <3>1, <3>2, LeaveInv
  <2> QED
    BY <1>3, <2>2, <2>3, <2>4, <2>5, HalfOpenCases
<1> QED
  BY <1>1, <1>2, <1>3 DEF Complete

\* Every step keeps the invariant and the order of the open periods.
LEMMA InvStep ==
  ASSUME Inv, [Next]_vars
  PROVE  Inv' /\ (epoch' # epoch /\ phase' = "Open" => until' - duration' >= until)
<1>1. CASE UNCHANGED vars
  BY <1>1 DEF vars, Inv, TypeOK, ProbesAccounted, Timing, Unused, Live, Holding
<1>2. CASE Tick
  <2>1. clock' \in 0 .. MaxClock /\ clock' = clock + 1 /\ clock \in Nat
    BY <1>2, MaxClockAssumption DEF Tick, Inv, TypeOK
  <2>2. UNCHANGED <<machine, pc, now, permit>>
    BY <1>2 DEF Tick
  <2>3. TypeOK'
    BY <2>1, <2>2 DEF Inv, TypeOK, machine
  <2>4. Live' = Live
    BY <2>2 DEF Live, Holding, machine
  <2>5. Timing'
    BY <2>1, <2>2, <2>4 DEF Inv, Timing, machine, TypeOK
  <2> QED
    BY <2>2, <2>3, <2>4, <2>5 DEF Inv, ProbesAccounted, Unused, machine
<1>3. ASSUME NEW t \in Callers, CallerStep(t)
      PROVE  Inv' /\ (epoch' # epoch /\ phase' = "Open" => until' - duration' >= until)
  <2>1. CASE StartAcquire(t) \/ RejectOpen(t) \/ RejectSaturated(t) \/ StartComplete(t)
    <3>1. UNCHANGED epoch
      BY <2>1 DEF StartAcquire, RejectOpen, RejectSaturated, StartComplete, Reject, machine
    <3> QED
      BY <2>1, <3>1, QuietInv
  <2>2. CASE AcquireClosed(t)
    BY <2>2, AcquireClosedInv DEF AcquireClosed
  <2>3. CASE AcquireFirstProbe(t)
    BY <2>3, FirstProbeInv DEF AcquireFirstProbe
  <2>4. CASE AcquireProbe(t)
    BY <2>4, ProbeInv DEF AcquireProbe
  <2>5. CASE Complete(t)
    BY <2>5, CompleteInv
  <2> QED
    BY <1>3, <2>1, <2>2, <2>3, <2>4, <2>5 DEF CallerStep, TryAcquire
<1> QED
  BY <1>1, <1>2, <1>3 DEF Next

\* The invariant holds initially.
LEMMA InvInit == Init => Inv
<1> SUFFICES ASSUME Init PROVE Inv
  OBVIOUS
<1>1. window \in Window
  BY NewWindowType DEF Init
<1>2. Live = {}
  BY DEF Init, Live, Holding
<1>3. TypeOK
  BY <1>1, MaxClockAssumption, OpenDurationAssumption, HalfOpenAssumption
  DEF Init, TypeOK, Phases, CallerPcs, NoToken
<1> QED
  BY <1>2, <1>3 DEF Init, Inv, ProbesAccounted, Timing, Unused

-----------------------------------------------------------------------------
\* The inductive invariant holds in every state of the breaker.
THEOREM Invariance == Spec => []Inv
<1>1. Inv /\ [Next]_vars => Inv'
  BY InvStep
<1> QED
  BY <1>1, InvInit, PTL DEF Spec

\* Types, and the ceiling of the back-off.
THEOREM TypeCorrect == Spec => []TypeOK
<1>1. Inv => TypeOK
  BY DEF Inv
<1> QED
  BY <1>1, Invariance, PTL

\* in_flight is exact, and permits of the current epoch match the phase.
THEOREM ProbesExact == Spec => []ProbesAccounted
<1>1. Inv => ProbesAccounted
  BY DEF Inv
<1> QED
  BY <1>1, Invariance, PTL

\* Open periods never overlap, whatever stale instants complete is given.
THEOREM PeriodsDisjoint == Spec => OpenPeriodsDisjoint
<1>1. Inv /\ [Next]_vars =>
        [epoch' # epoch /\ phase' = "Open" => until' - duration' >= until]_vars
  BY InvStep
<1> QED
  BY <1>1, Invariance, PTL DEF Spec, OpenPeriodsDisjoint

\* The phases of a breaker are kept apart, whatever old instants and old permits its
\* callers bring (BreakerInner, breaker.rs).
COROLLARY PhasesAreSound == Spec => PhasesSound
BY ProbesExact, PeriodsDisjoint, PTL DEF PhasesSound

-----------------------------------------------------------------------------
\* A counted completion is a step of the contract by a live caller.
LEMMA CompleteImplements ==
  ASSUME Inv, NEW t \in Callers, Complete(t)
  PROVE  Contract!Next \/ UNCHANGED <<phase, Live, successes, duration>>
<1> USE DEF Contract!Next
<1>1. CASE CompleteStale(t)
  BY <1>1, StaleInv DEF CompleteStale, machine
<1>2. ASSUME NEW outcome \in Outcomes, CompleteClosed(t, outcome)
      PROVE  Contract!Trip(t) \/ Contract!Leave(t)
  <2>1. pc[t] = "complete" /\ Counts(t) /\ phase = "Closed" /\ Done(t)
    BY <1>2, ClosedCases
  <2>2. t \in Live /\ successes = 0
    BY <2>1, CountedIsLive DEF Inv, Unused
  <2>3. CASE OpenFrom(t, InitialOpenDuration)
    <3>1. Live' = {}
      BY <2>1, <2>3, OpenInv, DurationType
    <3> QED
      BY <2>1, <2>2, <2>3, <3>1 DEF Contract!Trip, OpenFrom
  <2>4. CASE /\ window' \in Window
             /\ UNCHANGED <<epoch, phase, until, duration, inFlight, successes>>
    <3>1. Live' = Live \ {t}
      BY <2>1, <2>4, LiveDone DEF Inv
    <3> QED
      BY <2>2, <2>4, <3>1 DEF Contract!Leave
  <2> QED
    BY <1>2, <2>3, <2>4, ClosedCases
<1>3. ASSUME NEW outcome \in Outcomes, CompleteHalfOpen(t, outcome)
      PROVE  \/ Contract!ProbeFails(t) \/ Contract!Leave(t)
             \/ Contract!ProbeSucceeds(t) \/ Contract!LastProbeSucceeds(t)
  <2>1. pc[t] = "complete" /\ Counts(t) /\ phase = "HalfOpen" /\ Done(t)
    BY <1>3, HalfOpenCases
  <2>2. t \in Live /\ successes \in 0 .. CloseSuccesses - 1 /\ TypeOK
    BY <2>1, CountedIsLive DEF Inv, TypeOK
  <2>3. CASE OpenFrom(t, NextOpenDuration(duration))
    <3>1. NextOpenDuration(duration) \in 0 .. MaxOpenDuration
      BY DurationType, OpenDurationAssumption DEF Inv, TypeOK
    <3>2. Live' = {}
      BY <2>1, <2>3, <3>1, OpenInv
    <3> QED
      BY <2>1, <2>2, <2>3, <3>2
      DEF Contract!ProbeFails, OpenFrom, NextOpenDuration, MinOf
  <2>4. CASE ReleaseProbe
    <3>1. Live' = Live \ {t}
      BY <2>1, <2>2, <2>4, LiveDone DEF ReleaseProbe
    <3> QED
      BY <2>2, <2>4, <3>1 DEF Contract!Leave, ReleaseProbe
  <2>5. CASE ProbeSuccess(t) /\ successes + 1 >= CloseSuccesses
    <3>1. /\ Live' = {} /\ phase' = "Closed" /\ duration' = 0 /\ successes' = 0
      BY <2>1, <2>5, CloseInv
    <3>2. successes + 1 = CloseSuccesses
      BY <2>2, <2>5, HalfOpenAssumption
    <3> QED
      BY <2>1, <2>2, <3>1, <3>2 DEF Contract!LastProbeSucceeds
  <2>6. CASE ProbeSuccess(t) /\ ~(successes + 1 >= CloseSuccesses)
    <3>1. UNCHANGED <<epoch, phase, duration>> /\ successes' = successes + 1
      BY <2>6 DEF ProbeSuccess
    <3>2. Live' = Live \ {t}
      BY <2>1, <2>2, <3>1, LiveDone
    <3>3. successes + 1 < CloseSuccesses
      BY <2>2, <2>6, HalfOpenAssumption
    <3> QED
      BY <2>1, <2>2, <3>1, <3>2, <3>3 DEF Contract!ProbeSucceeds
  <2> QED
    BY <1>3, <2>3, <2>4, <2>5, <2>6, HalfOpenCases
<1> QED
  BY <1>1, <1>2, <1>3 DEF Complete

\* The breaker implements the contract: the epoch, the clock and the window
\* decide which of the contract's steps a caller takes, and a permit of an
\* earlier epoch takes none.
THEOREM Refinement == Spec => ImplementsContract
<1>1. Init => Contract!Init
  BY DEF Init, Contract!Init, Live, Holding
<1>2. Inv /\ [Next]_vars => [Contract!Next]_(Contract!contractVars)
  <2> SUFFICES ASSUME Inv, [Next]_vars
               PROVE  Contract!Next \/ UNCHANGED <<phase, Live, successes, duration>>
    BY DEF Contract!contractVars
  <2> USE DEF Contract!Next
  <2>1. CASE UNCHANGED vars
    BY <2>1 DEF vars, Live, Holding
  <2>2. CASE Tick
    BY <2>2 DEF Tick, machine, Live, Holding
  <2>3. ASSUME NEW t \in Callers,
               StartAcquire(t) \/ RejectOpen(t) \/ RejectSaturated(t) \/ StartComplete(t)
        PROVE  UNCHANGED <<phase, Live, successes, duration>>
    <3>1. UNCHANGED machine
      BY <2>3 DEF StartAcquire, RejectOpen, RejectSaturated, StartComplete, Reject
    <3> QED
      BY <2>3, <3>1, QuietInv DEF machine
  <2>4. ASSUME NEW t \in Callers, AcquireClosed(t)
        PROVE  Contract!Admit(t)
    <3>1. TypeOK /\ ~Holding(t)
      BY <2>4 DEF AcquireClosed, Holding, Inv
    <3>2. Live' = Live \union {t}
      BY <2>4, <3>1, LiveGrant DEF AcquireClosed
    <3> QED
      BY <2>4, <3>2 DEF AcquireClosed, Contract!Admit
  <2>5. ASSUME NEW t \in Callers, AcquireFirstProbe(t)
        PROVE  Contract!FirstProbe(t)
    <3>1. Live' = {t}
      BY <2>5, LiveFirst DEF AcquireFirstProbe, Inv
    <3> QED
      BY <2>5, <3>1 DEF AcquireFirstProbe, Contract!FirstProbe
  <2>6. ASSUME NEW t \in Callers, AcquireProbe(t)
        PROVE  Contract!AnotherProbe(t)
    <3>1. TypeOK /\ ~Holding(t)
      BY <2>6 DEF AcquireProbe, Holding, Inv
    <3>2. Live' = Live \union {t}
      BY <2>6, <3>1, LiveGrant DEF AcquireProbe
    <3>3. Cardinality(Live) < HalfOpenConcurrency
      BY <2>6, HalfOpenAssumption DEF AcquireProbe, Saturated, Inv, ProbesAccounted, TypeOK
    <3>4. Contract!Cardinality(Live) = Cardinality(Live)
      BY DEF Contract!Cardinality, Cardinality, Contract!IsFiniteSet, IsFiniteSet
    <3> QED
      BY <2>6, <3>2, <3>3, <3>4 DEF AcquireProbe, Contract!AnotherProbe
  <2>7. ASSUME NEW t \in Callers, Complete(t)
        PROVE  Contract!Next \/ UNCHANGED <<phase, Live, successes, duration>>
    BY <2>7, CompleteImplements
  <2> QED
    BY <2>1, <2>2, <2>3, <2>4, <2>5, <2>6, <2>7 DEF Next, CallerStep, TryAcquire
<1> QED
  BY <1>1, <1>2, Invariance, PTL DEF Spec, ImplementsContract, Contract!Spec

-----------------------------------------------------------------------------
(***************************************************************************)
(* The breakers kept for endpoints: EndpointBreakers, for any selectors,   *)
(* endpoints, bindings and attempts.                                       *)
(***************************************************************************)

CONSTANTS Selectors, Endpoints, Bindings, Attempts, MaxEntries, IdleEviction,
          Nobody, MaxTime, MaxBreakers

VARIABLES owners, references, lock, evicted, entries, made, instant, call

Kept == INSTANCE EndpointBreakers WITH Callers <- Attempts, now <- instant

\* What the configuration guarantees, and that a lock has one owner at a time.
KeptLimits ==
  /\ IsFiniteSet(Selectors)
  /\ MaxEntries \in Nat \ {0} /\ IdleEviction \in Nat /\ MaxBreakers \in Nat
  /\ Nobody \notin Selectors \union Attempts /\ Selectors \intersect Attempts = {}

\* Whoever works on the cached entries holds the membership lock: what a selector
\* removes is listed by nobody, and what an attempt inserts is listed.
LockHeld ==
  /\ lock \notin Selectors => evicted = {}
  /\ \A e \in evicted : Kept!ListedBy(e) = {}
  /\ \A c \in Attempts : call[c].pc = "store" =>
       /\ call[c].key \in Kept!Keys /\ call[c].instant <= instant
       /\ call[c].key.source = "discovery" =>
            lock = c /\ references[call[c].key.endpoint] > 0

\* The entries are finitely many, and their breakers were made before.
Stored ==
  /\ IsFiniteSet(Kept!Present(entries))
  /\ \A k \in Kept!Keys : entries[k].breaker <= made

KeptInv == Kept!TypeOK /\ LockHeld /\ Stored /\ Kept!Registry

\* The stores there can be.
KeptStores == [Kept!Keys -> [breaker : Kept!Breakers, used : Nat]]

\* The instance counts as this module does.
LEMMA SameCount == \A S : Kept!Cardinality(S) = Cardinality(S)
BY DEF Kept!Cardinality, Cardinality, Kept!IsFiniteSet, IsFiniteSet

\* evict_idle_locked changes nothing but the entries that are idle.
LEMMA AfterIdleEffect ==
  ASSUME KeptLimits, NEW store \in KeptStores, NEW i \in Nat
  PROVE  /\ Kept!AfterIdle(store, i) \in KeptStores
         /\ \A k \in Kept!Keys :
              \/ Kept!AfterIdle(store, i)[k] = store[k]
              \/ /\ Kept!AfterIdle(store, i)[k] = Kept!NoEntry
                 /\ i >= store[k].used + IdleEviction
<1>1. Kept!NoEntry \in [breaker : Kept!Breakers, used : Nat]
  BY DEF KeptLimits, Kept!NoEntry, Kept!Breakers, Kept!Absent
<1> QED
  BY <1>1 DEF KeptStores, Kept!AfterIdle

\* A store that lost entries has no more than before.
LEMMA FewerPresent ==
  ASSUME KeptLimits, NEW store, NEW less, IsFiniteSet(Kept!Present(store)),
         \A k \in Kept!Keys : less[k] = store[k] \/ less[k] = Kept!NoEntry
  PROVE  /\ Kept!Present(less) \subseteq Kept!Present(store)
         /\ IsFiniteSet(Kept!Present(less))
         /\ Cardinality(Kept!Present(less)) <= Cardinality(Kept!Present(store))
         /\ Cardinality(Kept!Present(less)) \in Nat
         /\ Cardinality(Kept!Present(store)) \in Nat
<1>1. Kept!Present(less) \subseteq Kept!Present(store)
  BY DEF Kept!Present, Kept!NoEntry, Kept!Absent
<1> QED
  BY <1>1, FS_Subset, FS_CardinalityType

\* The store has room for one more after the least recently used entry left, and
\* nobody leaves before the limit is reached.
LEMMA RoomEffect ==
  ASSUME KeptLimits, NEW store \in KeptStores, IsFiniteSet(Kept!Present(store)),
         Cardinality(Kept!Present(store)) <= MaxEntries, NEW room \in Kept!RoomFor(store)
  PROVE  /\ room \in KeptStores
         /\ IsFiniteSet(Kept!Present(room))
         /\ Cardinality(Kept!Present(room)) + 1 <= MaxEntries
         /\ \A k \in Kept!Keys :
              \/ room[k] = store[k]
              \/ /\ room[k] = Kept!NoEntry
                 /\ Cardinality(Kept!Present(store)) = MaxEntries
                 /\ \A l \in Kept!Present(store) : store[k].used <= store[l].used
<1>1. Kept!NoEntry \in [breaker : Kept!Breakers, used : Nat]
  BY DEF KeptLimits, Kept!NoEntry, Kept!Breakers, Kept!Absent
<1>2. Cardinality(Kept!Present(store)) \in Nat /\ MaxEntries \in Nat
  BY FS_CardinalityType DEF KeptLimits
<1>3. CASE Cardinality(Kept!Present(store)) >= MaxEntries
  <2>1. PICK o \in Kept!Present(store) :
          /\ room = [store EXCEPT ![o] = Kept!NoEntry]
          /\ \A l \in Kept!Present(store) : store[o].used <= store[l].used
    BY <1>3, SameCount DEF Kept!RoomFor
  <2>2. o \in Kept!Keys
    BY DEF Kept!Present
  <2>3. room \in KeptStores
    BY <1>1, <2>1 DEF KeptStores
  <2>4. Kept!Present(room) = Kept!Present(store) \ {o}
    BY <2>1, <2>2 DEF Kept!Present, Kept!NoEntry, Kept!Absent, KeptStores
  <2>5. /\ IsFiniteSet(Kept!Present(room))
        /\ Cardinality(Kept!Present(room)) = Cardinality(Kept!Present(store)) - 1
    BY <2>4, FS_RemoveElement
  <2>6. Cardinality(Kept!Present(store)) = MaxEntries
    BY <1>2, <1>3
  <2>7. \A k \in Kept!Keys : room[k] = store[k] \/ (k = o /\ room[k] = Kept!NoEntry)
    BY <2>1, <2>2 DEF KeptStores
  <2> QED
    BY <1>2, <2>1, <2>3, <2>5, <2>6, <2>7
<1>4. CASE ~(Cardinality(Kept!Present(store)) >= MaxEntries)
  <2>1. room = store
    BY <1>4, SameCount DEF Kept!RoomFor
  <2> QED
    BY <1>2, <1>4, <2>1
<1> QED
  BY <1>3, <1>4

\* get_or_insert_with_observer in one step: what it keeps, what it may forget and
\* what it makes.
LEMMA GetOrInsertEffect ==
  ASSUME KeptLimits, KeptInv, NEW key \in Kept!Keys, NEW i \in Nat, Kept!GetOrInsert(key, i)
  PROVE  /\ entries' \in KeptStores /\ made' \in Kept!Breakers /\ made <= made'
         /\ IsFiniteSet(Kept!Present(entries'))
         /\ Cardinality(Kept!Present(entries')) <= MaxEntries
         /\ \A k \in Kept!Keys :
              \/ entries'[k].breaker = entries[k].breaker
              \/ k = key /\ entries'[k].breaker = made + 1 /\ made' = made + 1
                 /\ (k \in Kept!Present(entries) => i >= entries[k].used + IdleEviction)
              \/ entries'[k] = Kept!NoEntry /\ i >= entries[k].used + IdleEviction
              \/ /\ entries'[k] = Kept!NoEntry /\ made' = made + 1
                 /\ Cardinality(Kept!Present(entries)) = MaxEntries
                 /\ \A l \in Kept!Present(entries) : entries[k].used <= entries[l].used
<1> DEFINE fresh == Kept!AfterIdle(entries, i)
<1>1. /\ entries \in KeptStores /\ made \in Kept!Breakers /\ made \in Nat
      /\ MaxBreakers \in Nat /\ MaxEntries \in Nat
      /\ IsFiniteSet(Kept!Present(entries))
      /\ Cardinality(Kept!Present(entries)) <= MaxEntries
  BY SameCount DEF KeptInv, KeptLimits, Stored, Kept!TypeOK, KeptStores, Kept!Breakers,
                   Kept!Registry
<1>2. /\ fresh \in KeptStores
      /\ \A k \in Kept!Keys : \/ fresh[k] = entries[k]
                              \/ /\ fresh[k] = Kept!NoEntry
                                 /\ i >= entries[k].used + IdleEviction
  BY <1>1, AfterIdleEffect
<1> HIDE DEF fresh
<1>3. /\ Kept!Present(fresh) \subseteq Kept!Present(entries)
      /\ IsFiniteSet(Kept!Present(fresh))
      /\ Cardinality(Kept!Present(fresh)) <= MaxEntries
      /\ Cardinality(Kept!Present(fresh)) \in Nat
      /\ Cardinality(Kept!Present(entries)) \in Nat
  BY <1>1, <1>2, FewerPresent
<1>4. CASE fresh[key].breaker # Kept!Absent
  <2>1. entries' = [fresh EXCEPT ![key].used = i] /\ made' = made
    BY <1>4 DEF Kept!GetOrInsert, fresh
  <2>2. \A k \in Kept!Keys : entries'[k].breaker = fresh[k].breaker
    BY <1>2, <2>1 DEF KeptStores
  <2>3. entries' \in KeptStores
    BY <1>2, <2>1 DEF KeptStores
  <2>4. Kept!Present(entries') = Kept!Present(fresh)
    BY <2>2 DEF Kept!Present
  <2>5. ASSUME NEW k \in Kept!Keys
        PROVE  \/ entries'[k].breaker = entries[k].breaker
               \/ entries'[k] = Kept!NoEntry /\ i >= entries[k].used + IdleEviction
    <3>1. CASE fresh[k] = entries[k]
      BY <2>2, <3>1
    <3>2. CASE fresh[k] # entries[k]
      <4>1. fresh[k] = Kept!NoEntry /\ i >= entries[k].used + IdleEviction
        BY <1>2, <3>2
      <4>2. k # key
        BY <1>4, <4>1 DEF Kept!NoEntry, Kept!Absent
      <4>3. entries'[k] = fresh[k]
        BY <1>2, <2>1, <4>2 DEF KeptStores
      <4> QED
        BY <4>1, <4>3
    <3> QED
      BY <3>1, <3>2
  <2> QED
    BY <1>1, <1>3, <2>1, <2>3, <2>4, <2>5
<1>5. CASE fresh[key].breaker = Kept!Absent
  <2>1. made < MaxBreakers /\ made' = made + 1
    BY <1>5 DEF Kept!GetOrInsert, fresh
  <2>2. PICK room \in Kept!RoomFor(fresh) :
          entries' = [room EXCEPT ![key] = [breaker |-> made + 1, used |-> i]]
    BY <1>5 DEF Kept!GetOrInsert, fresh
  <2>3. /\ room \in KeptStores /\ IsFiniteSet(Kept!Present(room))
        /\ Cardinality(Kept!Present(room)) + 1 <= MaxEntries
        /\ \A k \in Kept!Keys :
             \/ room[k] = fresh[k]
             \/ /\ room[k] = Kept!NoEntry
                /\ Cardinality(Kept!Present(fresh)) = MaxEntries
                /\ \A l \in Kept!Present(fresh) : fresh[k].used <= fresh[l].used
    BY <1>2, <1>3, RoomEffect
  <2>4. made + 1 \in Kept!Breakers /\ made' \in Kept!Breakers
    BY <1>1, <2>1 DEF Kept!Breakers
  <2>5. entries' \in KeptStores
    BY <2>2, <2>3, <2>4 DEF KeptStores
  <2>6. Kept!Present(entries') = Kept!Present(room) \union {key}
    BY <1>1, <2>2, <2>3 DEF Kept!Present, KeptStores, Kept!Absent
  <2>7. /\ IsFiniteSet(Kept!Present(entries'))
        /\ Cardinality(Kept!Present(entries')) <= MaxEntries
    <3>1. Cardinality(Kept!Present(room)) \in Nat
      BY <2>3, FS_CardinalityType
    <3>2. /\ IsFiniteSet(Kept!Present(room) \union {key})
          /\ Cardinality(Kept!Present(room) \union {key}) \in
               {Cardinality(Kept!Present(room)), Cardinality(Kept!Present(room)) + 1}
      BY <2>3, FS_AddElement
    <3>3. Cardinality(Kept!Present(room) \union {key}) \in Nat
      BY <3>2, FS_CardinalityType
    <3> QED
      BY <1>1, <2>3, <2>6, <3>1, <3>2, <3>3
  <2>8. \A k \in Kept!Keys \ {key} : entries'[k] = room[k]
    BY <2>2, <2>3 DEF KeptStores
  <2>9. entries'[key].breaker = made + 1
    BY <2>2, <2>3 DEF KeptStores
  <2>10. key \in Kept!Present(entries) => i >= entries[key].used + IdleEviction
    BY <1>2, <1>5 DEF Kept!Present
  <2>11. Cardinality(Kept!Present(fresh)) = MaxEntries =>
           /\ Kept!Present(fresh) = Kept!Present(entries)
           /\ Cardinality(Kept!Present(entries)) = MaxEntries
    <3>1. Cardinality(Kept!Present(fresh)) <= Cardinality(Kept!Present(entries))
      BY <1>1, <1>3, FS_Subset
    <3>2. Cardinality(Kept!Present(fresh)) = MaxEntries =>
            Cardinality(Kept!Present(entries)) = Cardinality(Kept!Present(fresh))
      BY <1>1, <1>3, <3>1
    <3> QED
      BY <1>1, <1>3, <3>2, FS_Subset
  <2>12. \A l \in Kept!Present(fresh) : fresh[l] = entries[l]
    BY <1>2 DEF Kept!Present, Kept!NoEntry, Kept!Absent
  <2>13. ASSUME NEW k \in Kept!Keys \ {key}
         PROVE  \/ entries'[k].breaker = entries[k].breaker
                \/ entries'[k] = Kept!NoEntry /\ i >= entries[k].used + IdleEviction
                \/ /\ entries'[k] = Kept!NoEntry
                   /\ Cardinality(Kept!Present(entries)) = MaxEntries
                   /\ \A l \in Kept!Present(entries) : entries[k].used <= entries[l].used
    <3>1. CASE fresh[k] = entries[k]
      BY <2>3, <2>8, <2>11, <2>12, <3>1
    <3>2. CASE fresh[k] # entries[k]
      <4>1. fresh[k] = Kept!NoEntry /\ i >= entries[k].used + IdleEviction
        BY <1>2, <3>2
      <4> QED
        BY <2>3, <2>8, <4>1
    <3> QED
      BY <3>1, <3>2
  <2>14. made <= made'
    BY <1>1, <2>1
  <2> QED
    BY <2>1, <2>4, <2>5, <2>7, <2>9, <2>10, <2>13, <2>14
<1> QED
  BY <1>4, <1>5

\* The selectors that list an endpoint are counted by its references.
LEMMA ListedCounted ==
  ASSUME KeptLimits, KeptInv, NEW e \in Endpoints
  PROVE  /\ IsFiniteSet(Kept!ListedBy(e))
         /\ references[e] = Cardinality(Kept!ListedBy(e)) /\ references[e] \in Nat
         /\ references[e] = 0 <=> Kept!ListedBy(e) = {}
<1>1. Kept!ListedBy(e) \subseteq Selectors
  BY DEF Kept!ListedBy
<1>2. IsFiniteSet(Kept!ListedBy(e))
  BY <1>1, FS_Subset DEF KeptLimits
<1>3. references[e] = Cardinality(Kept!ListedBy(e))
  BY SameCount DEF KeptInv, Kept!Registry, Kept!ReferencesExact
<1> QED
  BY <1>2, <1>3, FS_CardinalityType, FS_EmptySet

\* replace_discovery leaves exact counts behind, and what it is about to evict is
\* what nobody lists any more.
LEMMA MembersEffect ==
  ASSUME KeptLimits, KeptInv, NEW s \in Selectors, NEW current \in SUBSET Endpoints,
         Kept!Members(s, current), NEW e \in Endpoints
  PROVE  /\ references'[e] = Cardinality(Kept!ListedBy(e)') /\ references'[e] \in Nat
         /\ e \in evicted' => Kept!ListedBy(e)' = {}
         /\ Kept!ListedBy(e) # {} => Kept!ListedBy(e)' # {} \/ e \in evicted'
<1>1. /\ owners \in [Selectors -> SUBSET Endpoints]
      /\ references \in [Endpoints -> Nat]
  BY DEF KeptInv, Kept!TypeOK
<1>2. /\ owners' = [owners EXCEPT ![s] = current]
      /\ evicted' = {x \in owners[s] \ current : references[x] = 1}
  BY DEF Kept!Members, Kept!LastReferences
<1>3. references'[e] =
        IF e \in current \ owners[s] THEN references[e] + 1
        ELSE IF e \in owners[s] \ current /\ references[e] > 0 THEN references[e] - 1
        ELSE references[e]
  BY DEF Kept!Members, Kept!Incremented, Kept!Decremented
<1>4. /\ IsFiniteSet(Kept!ListedBy(e))
      /\ references[e] = Cardinality(Kept!ListedBy(e)) /\ references[e] \in Nat
      /\ references[e] = 0 <=> Kept!ListedBy(e) = {}
  BY ListedCounted
<1>5. CASE e \in current \ owners[s]
  <2>1. Kept!ListedBy(e)' = Kept!ListedBy(e) \union {s} /\ s \notin Kept!ListedBy(e)
    BY <1>1, <1>2, <1>5 DEF Kept!ListedBy
  <2>2. Cardinality(Kept!ListedBy(e)') = Cardinality(Kept!ListedBy(e)) + 1
    BY <1>4, <2>1, FS_AddElement
  <2> QED
    BY <1>2, <1>3, <1>4, <1>5, <2>1, <2>2
<1>6. CASE e \in owners[s] \ current
  <2>1. Kept!ListedBy(e)' = Kept!ListedBy(e) \ {s} /\ s \in Kept!ListedBy(e)
    BY <1>1, <1>2, <1>6 DEF Kept!ListedBy
  <2>2. /\ Cardinality(Kept!ListedBy(e)') = Cardinality(Kept!ListedBy(e)) - 1
        /\ IsFiniteSet(Kept!ListedBy(e)')
    BY <1>4, <2>1, FS_RemoveElement
  <2>3. references[e] > 0 /\ references'[e] = references[e] - 1
    BY <1>3, <1>4, <1>6, <2>1
  <2>4. Kept!ListedBy(e)' = {} <=> references[e] = 1
    BY <1>4, <2>2, FS_EmptySet
  <2> QED
    BY <1>2, <1>4, <1>6, <2>2, <2>3, <2>4
<1>7. CASE e \notin owners[s] \ current /\ e \notin current \ owners[s]
  <2>1. Kept!ListedBy(e)' = Kept!ListedBy(e)
    BY <1>1, <1>2, <1>7 DEF Kept!ListedBy
  <2> QED
    BY <1>2, <1>3, <1>4, <1>7, <2>1
<1> QED
  BY <1>5, <1>6, <1>7

\* A list is replaced while nobody is between the membership and the store.
LEMMA MembersKeeps ==
  ASSUME KeptLimits, KeptInv, NEW s \in Selectors, NEW current \in SUBSET Endpoints,
         Kept!Members(s, current)
  PROVE  KeptInv'
<1>1. /\ lock = Nobody /\ lock' = s /\ UNCHANGED <<entries, made, instant, call>>
      /\ owners' = [owners EXCEPT ![s] = current]
      /\ evicted' \subseteq owners[s]
  BY DEF Kept!Members, Kept!LastReferences
<1>2. evicted = {} /\ \A c \in Attempts : c # Nobody
  BY <1>1 DEF KeptInv, LockHeld, KeptLimits
<1>3. \A e \in Endpoints :
        /\ references'[e] = Cardinality(Kept!ListedBy(e)') /\ references'[e] \in Nat
        /\ e \in evicted' => Kept!ListedBy(e)' = {}
        /\ Kept!ListedBy(e) # {} => Kept!ListedBy(e)' # {} \/ e \in evicted'
  BY MembersEffect
<1>4. owners \in [Selectors -> SUBSET Endpoints]
  BY DEF KeptInv, Kept!TypeOK
<1>5. evicted' \in SUBSET Endpoints
  BY <1>1, <1>4
<1>6. references' \in [Endpoints -> Nat]
  <2>1. references' = [e \in Endpoints |-> references'[e]]
    BY DEF Kept!Members, Kept!Incremented
  <2> QED
    BY <1>3, <2>1
<1>7. Kept!TypeOK'
  BY <1>1, <1>4, <1>5, <1>6 DEF KeptInv, Kept!TypeOK
<1>8. LockHeld'
  BY <1>1, <1>2, <1>3, <1>5 DEF KeptInv, LockHeld
<1>9. Stored'
  BY <1>1 DEF KeptInv, Stored
<1>10. Kept!NoResurrection'
  <2> SUFFICES ASSUME NEW k \in Kept!Present(entries), k.source = "discovery"
               PROVE  Kept!ListedBy(k.endpoint)' # {} \/ k.endpoint \in evicted'
    BY <1>1 DEF Kept!NoResurrection
  <2>1. k.endpoint \in Endpoints
    BY DEF Kept!Present, Kept!Keys
  <2>2. Kept!ListedBy(k.endpoint) # {}
    BY <1>2 DEF KeptInv, Kept!Registry, Kept!NoResurrection
  <2> QED
    BY <1>3, <2>1, <2>2
<1>11. Kept!ReferencesExact'
  BY <1>3, SameCount DEF Kept!ReferencesExact
<1> QED
  BY <1>1, <1>7, <1>8, <1>9, <1>10, <1>11 DEF KeptInv, Kept!Registry

\* The entries of what nobody lists go, and the lock is free.
LEMMA RemoveKeeps ==
  ASSUME KeptLimits, KeptInv, NEW s \in Selectors, Kept!RemoveCached(s)
  PROVE  KeptInv'
<1>1. /\ lock = s /\ lock' = Nobody /\ evicted' = {}
      /\ UNCHANGED <<owners, references, made, instant, call>>
      /\ entries' = [k \in Kept!Keys |->
           IF k.source = "discovery" /\ k.endpoint \in evicted THEN Kept!NoEntry ELSE entries[k]]
  BY DEF Kept!RemoveCached
<1>2. Kept!NoEntry \in [breaker : Kept!Breakers, used : Nat] /\ Kept!NoEntry.breaker = 0
  BY DEF KeptLimits, Kept!NoEntry, Kept!Breakers, Kept!Absent
<1>3. entries \in [Kept!Keys -> [breaker : Kept!Breakers, used : Nat]] /\ made \in Nat
  BY DEF KeptInv, KeptLimits, Kept!TypeOK, Kept!Breakers
<1>4. Kept!TypeOK'
  <2>1. entries' \in [Kept!Keys -> [breaker : Kept!Breakers, used : Nat]]
    BY <1>1, <1>2, <1>3
  <2> QED
    BY <1>1, <2>1 DEF KeptInv, Kept!TypeOK
<1>5. LockHeld'
  <2>1. \A c \in Attempts : c # s
    BY DEF KeptLimits
  <2> QED
    BY <1>1, <2>1 DEF KeptInv, LockHeld
<1>6. \A k \in Kept!Keys : entries'[k] = entries[k] \/ entries'[k] = Kept!NoEntry
  BY <1>1
<1>7. /\ Kept!Present(entries') \subseteq Kept!Present(entries)
      /\ IsFiniteSet(Kept!Present(entries'))
      /\ Cardinality(Kept!Present(entries')) <= Cardinality(Kept!Present(entries))
      /\ Cardinality(Kept!Present(entries')) \in Nat
      /\ Cardinality(Kept!Present(entries)) \in Nat
  BY <1>6, FewerPresent DEF KeptInv, Stored
<1>8. Stored'
  BY <1>1, <1>2, <1>3, <1>6, <1>7 DEF KeptInv, Stored
<1>9. \A k \in Kept!Present(entries') : entries'[k] = entries[k] /\ k \in Kept!Keys
  BY <1>6 DEF Kept!Present, Kept!NoEntry, Kept!Absent
<1>10. Kept!NoResurrection'
  <2> SUFFICES ASSUME NEW k \in Kept!Present(entries'), k.source = "discovery"
               PROVE  Kept!ListedBy(k.endpoint)' # {}
    BY DEF Kept!NoResurrection
  <2>1. k \in Kept!Keys /\ k.endpoint \notin evicted
    BY <1>1 DEF Kept!Present, Kept!NoEntry, Kept!Absent
  <2>2. Kept!ListedBy(k.endpoint) # {}
    BY <1>7, <2>1 DEF KeptInv, Kept!Registry, Kept!NoResurrection
  <2> QED
    BY <1>1, <2>2 DEF Kept!ListedBy
<1>11. Kept!ReferencesExact'
  BY <1>1 DEF KeptInv, Kept!Registry, Kept!ReferencesExact, Kept!ListedBy
<1>12. Kept!Cardinality(Kept!Present(entries'))  <= MaxEntries
  BY <1>7, SameCount DEF KeptInv, Kept!Registry, KeptLimits
<1>13. \A k, l \in Kept!Present(entries') : k # l => entries'[k].breaker # entries'[l].breaker
  BY <1>7, <1>9 DEF KeptInv, Kept!Registry
<1> QED
  BY <1>4, <1>5, <1>8, <1>10, <1>11, <1>12, <1>13 DEF KeptInv, Kept!Registry

\* A lookup takes the membership lock for an endpoint that is listed, no lock for a
\* direct one, and makes a breaker nobody keeps for one that has left.
LEMMA LookupKeeps ==
  ASSUME KeptLimits, KeptInv, NEW c \in Attempts, NEW key \in Kept!Keys,
         Kept!LookupDirect(c, key) \/ Kept!LookupDiscovered(c, key)
  PROVE  KeptInv'
<1>1. /\ UNCHANGED <<owners, references, evicted, entries, instant>>
      /\ made' \in {made, made + 1} /\ (made' # made => made < MaxBreakers)
      /\ \/ call' = call /\ lock' = lock
         \/ /\ call' = [call EXCEPT ![c] = [pc |-> "store", key |-> key, instant |-> instant]]
            /\ \/ key.source = "direct" /\ lock' = lock
               \/ lock = Nobody /\ lock' = c /\ references[key.endpoint] > 0
  BY DEF Kept!LookupDirect, Kept!LookupDiscovered, Kept!memberVars
<1>2. /\ call \in [Attempts -> [pc : {"idle", "store"}, key : Kept!Keys \cup {Kept!NoKey},
                               instant : Nat]]
      /\ instant \in Nat /\ made \in Kept!Breakers /\ MaxBreakers \in Nat
      /\ lock \in Selectors \cup Attempts \cup {Nobody}
  BY DEF KeptInv, KeptLimits, Kept!TypeOK
<1>3. /\ call' \in [Attempts -> [pc : {"idle", "store"}, key : Kept!Keys \cup {Kept!NoKey},
                                instant : Nat]]
      /\ lock' \in Selectors \cup Attempts \cup {Nobody}
  BY <1>1, <1>2
<1>4. made' \in Kept!Breakers /\ made <= made' /\ made \in Nat
  BY <1>1, <1>2 DEF Kept!Breakers
<1>5. Kept!TypeOK'
  BY <1>1, <1>3, <1>4 DEF KeptInv, Kept!TypeOK
<1>6. LockHeld'
  <2>1. (lock' \notin Selectors => evicted' = {}) /\ \A e \in evicted' : Kept!ListedBy(e)' = {}
    BY <1>1 DEF KeptInv, LockHeld, KeptLimits, Kept!ListedBy
  <2>2. ASSUME NEW d \in Attempts, call'[d].pc = "store"
        PROVE  /\ call'[d].key \in Kept!Keys /\ call'[d].instant <= instant'
               /\ call'[d].key.source = "discovery" =>
                    lock' = d /\ references'[call'[d].key.endpoint] > 0
    <3>1. CASE call'[d] = call[d]
      <4>1. d # Nobody
        BY DEF KeptLimits
      <4> QED
        BY <1>1, <2>2, <3>1, <4>1 DEF KeptInv, LockHeld
    <3>2. CASE call'[d] # call[d]
      <4>1. d = c /\ call'[d] = [pc |-> "store", key |-> key, instant |-> instant]
        BY <1>1, <1>2, <3>2
      <4>2. \/ key.source = "direct"
            \/ lock' = c /\ references[key.endpoint] > 0
        BY <1>1, <3>2
      <4> QED
        BY <1>1, <1>2, <4>1, <4>2
    <3> QED
      BY <3>1, <3>2
  <2> QED
    BY <2>1, <2>2 DEF LockHeld
<1>7. Stored'
  <2>1. \A k \in Kept!Keys : entries[k].breaker \in Nat
    BY DEF KeptInv, Kept!TypeOK, Kept!Breakers, KeptLimits
  <2> QED
    BY <1>1, <1>4, <2>1 DEF KeptInv, Stored
<1>8. Kept!Registry'
  BY <1>1 DEF KeptInv, Kept!Registry, Kept!ReferencesExact, Kept!NoResurrection,
              Kept!ListedBy
<1> QED
  BY <1>5, <1>6, <1>7, <1>8 DEF KeptInv

\* The breaker an attempt inserts is a new one, of an endpoint that is listed, in
\* a store that had room.
LEMMA StoreKeeps ==
  ASSUME KeptLimits, KeptInv, NEW c \in Attempts, Kept!Store(c)
  PROVE  KeptInv'
<1> DEFINE key == call[c].key
           i == call[c].instant
<1>1. /\ call[c].pc = "store" /\ Kept!GetOrInsert(key, i)
      /\ lock' = (IF lock = c THEN Nobody ELSE lock)
      /\ call' = [call EXCEPT ![c] = Kept!NoCall]
      /\ UNCHANGED <<owners, references, evicted, instant>>
  BY DEF Kept!Store
<1>2. /\ call \in [Attempts -> [pc : {"idle", "store"}, key : Kept!Keys \cup {Kept!NoKey},
                               instant : Nat]]
      /\ lock \in Selectors \cup Attempts \cup {Nobody}
      /\ made \in Nat /\ MaxBreakers \in Nat
  BY DEF KeptInv, KeptLimits, Kept!TypeOK, Kept!Breakers
<1>3. key \in Kept!Keys /\ i \in Nat
  BY <1>1, <1>2 DEF KeptInv, LockHeld
<1>4. /\ entries' \in KeptStores /\ made' \in Kept!Breakers /\ made <= made'
      /\ IsFiniteSet(Kept!Present(entries'))
      /\ Cardinality(Kept!Present(entries')) <= MaxEntries
      /\ \A k \in Kept!Keys :
           \/ entries'[k].breaker = entries[k].breaker
           \/ k = key /\ entries'[k].breaker = made + 1 /\ made' = made + 1
           \/ entries'[k] = Kept!NoEntry
  BY <1>1, <1>3, GetOrInsertEffect
<1> HIDE DEF key, i
<1>5. Kept!TypeOK'
  <2>1. Kept!NoCall \in [pc : {"idle", "store"}, key : Kept!Keys \cup {Kept!NoKey},
                         instant : Nat]
    BY DEF Kept!NoCall
  <2>2. call' \in [Attempts -> [pc : {"idle", "store"}, key : Kept!Keys \cup {Kept!NoKey},
                                instant : Nat]]
    BY <1>1, <1>2, <2>1
  <2>3. lock' \in Selectors \cup Attempts \cup {Nobody}
    BY <1>1, <1>2
  <2> QED
    BY <1>1, <1>4, <2>2, <2>3 DEF KeptInv, Kept!TypeOK, KeptStores
<1>6. LockHeld'
  <2>1. c \notin Selectors
    BY DEF KeptLimits
  <2>2. (lock' \notin Selectors => evicted' = {}) /\ \A e \in evicted' : Kept!ListedBy(e)' = {}
    BY <1>1, <2>1 DEF KeptInv, LockHeld, Kept!ListedBy
  <2>3. call'[c].pc = "idle" /\ \A d \in Attempts \ {c} : call'[d] = call[d]
    BY <1>1, <1>2 DEF Kept!NoCall
  <2>4. ASSUME NEW d \in Attempts, call'[d].pc = "store"
        PROVE  /\ call'[d].key \in Kept!Keys /\ call'[d].instant <= instant'
               /\ call'[d].key.source = "discovery" =>
                    lock' = d /\ references'[call'[d].key.endpoint] > 0
    <3>1. d # c /\ call'[d] = call[d]
      BY <2>3, <2>4
    <3> QED
      BY <1>1, <2>4, <3>1 DEF KeptInv, LockHeld
  <2> QED
    BY <2>2, <2>4 DEF LockHeld
<1>7. \A k \in Kept!Keys : entries[k].breaker \in Nat /\ entries[k].breaker <= made
  BY DEF KeptInv, Stored, Kept!TypeOK, Kept!Breakers, KeptLimits
<1>8. Kept!NoEntry.breaker = 0 /\ made' \in Nat
  BY <1>2, <1>4 DEF Kept!NoEntry, Kept!Absent, Kept!Breakers
<1>9. Stored'
  <2>1. \A k \in Kept!Keys : entries'[k].breaker <= made'
    BY <1>2, <1>4, <1>7, <1>8
  <2> QED
    BY <1>4, <2>1 DEF Stored
<1>10. \A k \in Kept!Present(entries') :
         /\ k \in Kept!Keys
         /\ \/ entries'[k].breaker = entries[k].breaker /\ k \in Kept!Present(entries)
            \/ k = key /\ entries'[k].breaker = made + 1
  BY <1>4 DEF Kept!Present, Kept!NoEntry, Kept!Absent
<1>11. Kept!NoResurrection'
  <2> SUFFICES ASSUME NEW k \in Kept!Present(entries'), k.source = "discovery"
               PROVE  Kept!ListedBy(k.endpoint)' # {} \/ k.endpoint \in evicted'
    BY DEF Kept!NoResurrection
  <2>1. CASE k \in Kept!Present(entries)
    BY <1>1, <2>1 DEF KeptInv, Kept!Registry, Kept!NoResurrection, Kept!ListedBy
  <2>2. CASE k = key
    <3>1. references[key.endpoint] > 0 /\ key.endpoint \in Endpoints
      BY <1>1, <1>3, <2>2 DEF KeptInv, LockHeld, key, Kept!Keys
    <3>2. Kept!ListedBy(key.endpoint) # {}
      BY <3>1, ListedCounted
    <3> QED
      BY <1>1, <2>2, <3>2 DEF Kept!ListedBy
  <2> QED
    BY <1>10, <2>1, <2>2
<1>12. Kept!ReferencesExact'
  BY <1>1 DEF KeptInv, Kept!Registry, Kept!ReferencesExact, Kept!ListedBy
<1>13. Kept!Cardinality(Kept!Present(entries')) <= MaxEntries
  BY <1>4, SameCount
<1>14. ASSUME NEW k \in Kept!Present(entries'), NEW l \in Kept!Present(entries'), k # l
       PROVE  entries'[k].breaker # entries'[l].breaker
  <2>1. CASE k \in Kept!Present(entries) /\ entries'[k].breaker = entries[k].breaker
             /\ l \in Kept!Present(entries) /\ entries'[l].breaker = entries[l].breaker
    BY <1>14, <2>1 DEF KeptInv, Kept!Registry
  <2> QED
    BY <1>2, <1>7, <1>10, <1>14, <2>1
<1> QED
  BY <1>5, <1>6, <1>9, <1>11, <1>12, <1>13, <1>14 DEF KeptInv, Kept!Registry

\* Every step of selectors, attempts and the clock preserves the invariant.
LEMMA KeptStep == KeptLimits /\ KeptInv /\ [Kept!Next]_(Kept!vars) => KeptInv'
<1> SUFFICES ASSUME KeptLimits, KeptInv, [Kept!Next]_(Kept!vars) PROVE KeptInv'
  OBVIOUS
<1>1. CASE UNCHANGED Kept!vars
  BY <1>1 DEF Kept!vars, Kept!memberVars, KeptInv, Kept!TypeOK, LockHeld, Stored,
     Kept!Registry, Kept!ReferencesExact, Kept!NoResurrection, Kept!ListedBy
<1>2. CASE Kept!Tick
  <2>1. /\ instant \in Nat /\ instant' = instant + 1
        /\ UNCHANGED <<owners, references, lock, evicted, entries, made, call>>
    BY <1>2 DEF Kept!Tick, Kept!memberVars, KeptInv, Kept!TypeOK
  <2>2. Kept!TypeOK' /\ Stored' /\ Kept!Registry'
    BY <2>1 DEF KeptInv, Kept!TypeOK, Stored, Kept!Registry, Kept!ReferencesExact,
       Kept!NoResurrection, Kept!ListedBy
  <2>3. \A c \in Attempts : call[c].instant \in Nat
    BY DEF KeptInv, Kept!TypeOK
  <2>4. LockHeld'
    BY <2>1, <2>3 DEF KeptInv, LockHeld, Kept!ListedBy
  <2> QED
    BY <2>2, <2>4 DEF KeptInv
<1> QED
  BY <1>1, <1>2, MembersKeeps, RemoveKeeps, LookupKeeps, StoreKeeps DEF Kept!Next

\* A client starts without members and without entries.
LEMMA KeptStarts == KeptLimits /\ Kept!Init => KeptInv
<1> SUFFICES ASSUME KeptLimits, Kept!Init PROVE KeptInv
  OBVIOUS
<1>1. Kept!TypeOK
  BY DEF Kept!Init, Kept!TypeOK, Kept!NoEntry, Kept!NoCall, Kept!Absent, Kept!Breakers,
     KeptLimits
<1>2. LockHeld
  BY DEF Kept!Init, LockHeld, Kept!NoCall
<1>3. Kept!Present(entries) = {}
  BY DEF Kept!Init, Kept!Present, Kept!NoEntry, Kept!Absent
<1>4. Stored
  BY <1>3, FS_EmptySet DEF Kept!Init, Stored, Kept!NoEntry, Kept!Absent
<1>5. \A e \in Endpoints : Kept!ListedBy(e) = {}
  BY DEF Kept!Init, Kept!ListedBy
<1>6. Kept!Registry
  <2>1. Kept!Cardinality({}) = 0 /\ 0 <= MaxEntries
    BY FS_EmptySet, SameCount DEF KeptLimits
  <2>2. Kept!ReferencesExact
    BY <1>5, <2>1 DEF Kept!Init, Kept!ReferencesExact
  <2> QED
    BY <1>3, <2>1, <2>2 DEF Kept!Registry, Kept!NoResurrection
<1> QED
  BY <1>1, <1>2, <1>4, <1>6 DEF KeptInv

\* For any selectors, endpoints and attempts: the reference counts are those of the
\* lists, no breaker of an endpoint that left discovery comes back, the store stays
\* within max_entries, and no two keys share a breaker (EndpointBreakers::
\* replace_discovery and get_or_insert_observed, EndpointBreakerStore).
THEOREM BreakersAreKept ==
  ASSUME KeptLimits
  PROVE  Kept!Spec => []Kept!Registry
<1>1. KeptInv => Kept!Registry
  BY DEF KeptInv
<1>2. Kept!Init => KeptInv
  BY KeptStarts
<1>3. KeptInv /\ [Kept!Next]_(Kept!vars) => KeptInv'
  BY KeptStep
<1> QED
  BY <1>1, <1>2, <1>3, PTL DEF Kept!Spec

\* A breaker is forgotten for a cause only: its endpoint has left discovery, it was
\* idle, or it was the least recently used of a full store that had to make room.
THEOREM BreakersForgetForCause ==
  ASSUME KeptLimits
  PROVE  Kept!Spec => [][Kept!ForgetsForCause]_(Kept!vars)
<1>1. Kept!Init => KeptInv
  BY KeptStarts
<1>2. KeptInv /\ [Kept!Next]_(Kept!vars) => KeptInv'
  BY KeptStep
<1>3. KeptInv /\ Kept!Next => Kept!ForgetsForCause
  <2> SUFFICES ASSUME KeptInv, Kept!Next, NEW k \in Kept!Present(entries),
                      entries'[k].breaker # entries[k].breaker
               PROVE  \/ instant >= entries[k].used + IdleEviction
                      \/ /\ entries'[k].breaker = Kept!Absent
                         /\ k.source = "discovery"
                         /\ Kept!ListedBy(k.endpoint) = {}
                      \/ /\ entries'[k].breaker = Kept!Absent
                         /\ Kept!Cardinality(Kept!Present(entries)) = MaxEntries
                         /\ made' = made + 1
                         /\ \A l \in Kept!Present(entries) : entries[k].used <= entries[l].used
    BY DEF Kept!ForgetsForCause
  <2>1. k \in Kept!Keys
    BY DEF Kept!Present
  <2>2. ASSUME NEW s \in Selectors, Kept!RemoveCached(s)
        PROVE  /\ entries'[k].breaker = Kept!Absent /\ k.source = "discovery"
               /\ Kept!ListedBy(k.endpoint) = {}
    <3>1. k.source = "discovery" /\ k.endpoint \in evicted /\ entries'[k] = Kept!NoEntry
      BY <2>1, <2>2 DEF Kept!RemoveCached
    <3> QED
      BY <3>1 DEF KeptInv, LockHeld, Kept!NoEntry
  <2>3. ASSUME NEW c \in Attempts, Kept!Store(c)
        PROVE  \/ instant >= entries[k].used + IdleEviction
               \/ /\ entries'[k].breaker = Kept!Absent
                  /\ Cardinality(Kept!Present(entries)) = MaxEntries
                  /\ made' = made + 1
                  /\ \A l \in Kept!Present(entries) : entries[k].used <= entries[l].used
    <3> DEFINE key == call[c].key
               i == call[c].instant
    <3>1. key \in Kept!Keys /\ i \in Nat /\ i <= instant /\ instant \in Nat
      BY <2>3 DEF KeptInv, LockHeld, Kept!Store, Kept!TypeOK
    <3>2. Kept!GetOrInsert(key, i)
      BY <2>3 DEF Kept!Store
    <3>3. entries[k].used + IdleEviction \in Nat
      BY <2>1 DEF KeptInv, Kept!TypeOK, KeptLimits
    <3>4. \/ i >= entries[k].used + IdleEviction
          \/ /\ entries'[k] = Kept!NoEntry /\ made' = made + 1
             /\ Cardinality(Kept!Present(entries)) = MaxEntries
             /\ \A l \in Kept!Present(entries) : entries[k].used <= entries[l].used
      BY <2>1, <3>1, <3>2, GetOrInsertEffect
    <3> HIDE DEF key, i
    <3> QED
      BY <3>1, <3>3, <3>4 DEF Kept!NoEntry
  <2>4. ASSUME UNCHANGED entries PROVE FALSE
    BY <2>4
  <2>5. \/ \E s \in Selectors : Kept!RemoveCached(s)
        \/ \E c \in Attempts : Kept!Store(c)
    BY <2>4 DEF Kept!Next, Kept!Tick, Kept!Members, Kept!LookupDirect, Kept!LookupDiscovered
  <2> QED
    BY <2>2, <2>3, <2>5, SameCount
<1> QED
  BY <1>1, <1>2, <1>3, PTL DEF Kept!Spec

-----------------------------------------------------------------------------
(***************************************************************************)
(* The window a closed breaker counts in: MCRollingWindow, for any number  *)
(* of buckets of any width, any counters and any instants.                 *)
(***************************************************************************)

CONSTANT MaxRecords

VARIABLES ring, present, latest, told

Rolling == INSTANCE MCRollingWindow WITH window <- ring, clock <- present, log <- told

\* The instance counts as this module does.
LEMMA SameCardinality == \A S : Rolling!Cardinality(S) = Cardinality(S)
BY Zenon DEF Rolling!Cardinality, Cardinality

\* A set of natural numbers has a least one, by which what holds of every number
\* is shown.
LEMMA LessThan == OpToRel(<, Nat) = {p \in Nat \X Nat : p[1] < p[2]}
BY Zenon DEF OpToRel

LEMMA LeastNumber ==
  ASSUME NEW T, T \subseteq Nat, T # {}
  PROVE  \E m \in T : \A n \in T : m <= n
<1> DEFINE R == {p \in Nat \X Nat : p[1] < p[2]}
<1>1. IsWellFoundedOn(R, Nat)
  BY NatLessThanWellFounded, LessThan, Zenon
<1>2. \A x, y \in T : <<y, x>> \notin R => x <= y
  OBVIOUS
<1> HIDE DEF R
<1>3. PICK x \in T : \A y \in T : ~(<<y, x>> \in R)
  BY <1>1, WFMin
<1> QED
  BY <1>2, <1>3, Zenon

\* A function that adds up f over the subsets of S, as the fold over a set does it.
Any(s) == CHOOSE x \in s : TRUE

LEMMA AnyIsOne == \A s : s # {} => Any(s) \in s
BY Zenon DEF Any

Added(g, f, s) == IF s = {} THEN 0 ELSE f[Any(s)] + g[s \ {Any(s)}]
Sums(g, f, S) == g = [s \in SUBSET S |-> Added(g, f, s)]

\* There is one: it is found for the sets of ever more elements.
LEMMA SumExists ==
  ASSUME NEW f, NEW S, IsFiniteSet(S)
  PROVE  \E g : Sums(g, f, S)
<1> DEFINE Upto(n) == {s \in SUBSET S : Cardinality(s) <= n}
           Adds(g, n) == g = [s \in Upto(n) |-> Added(g, f, s)]
           T == {n \in Nat : ~\E g : Adds(g, n)}
<1>0. \A s \in SUBSET S : IsFiniteSet(s) /\ Cardinality(s) \in Nat
  BY FS_Subset, FS_CardinalityType
<1>1. \A s \in SUBSET S : s # {} =>
        /\ s \ {Any(s)} \in SUBSET S
        /\ Cardinality(s \ {Any(s)}) = Cardinality(s) - 1 /\ Cardinality(s) # 0
  <2> TAKE s \in SUBSET S
  <2> HAVE s # {}
  <2>1. Any(s) \in s
    BY AnyIsOne
  <2>2. Cardinality(s \ {Any(s)}) = Cardinality(s) - 1
    BY <1>0, <2>1, FS_RemoveElement
  <2>3. Cardinality(s) # 0
    BY <1>0, FS_EmptySet
  <2> QED
    BY <2>2, <2>3
<1>2. T = {}
  <2> SUFFICES ASSUME T # {} PROVE FALSE
    OBVIOUS
  <2>1. PICK m \in T : \A n \in T : m <= n
    <3>1. T \subseteq Nat
      OBVIOUS
    <3> HIDE DEF T
    <3> QED
      BY <3>1, LeastNumber
  <2>2. CASE m = 0
    <3> DEFINE g == [s \in Upto(0) |-> 0]
    <3>1. \A s \in Upto(0) : s = {}
      <4> SUFFICES ASSUME NEW s \in SUBSET S, Cardinality(s) <= 0 PROVE s = {}
        OBVIOUS
      <4>1. Cardinality(s) = 0
        BY <1>0
      <4> QED
        BY <1>1, <4>1
    <3>2. \A s \in Upto(0) : Added(g, f, s) = 0
      BY <3>1 DEF Added
    <3> HIDE DEF Upto
    <3>3. g = [s \in Upto(0) |-> Added(g, f, s)]
      BY <3>2
    <3> QED
      BY <2>1, <2>2, <3>3
  <2>3. CASE m # 0
    <3>1. m \in Nat /\ m - 1 \in Nat /\ m - 1 \notin T
      <4>1. m \in Nat /\ m - 1 \in Nat /\ ~(m <= m - 1)
        BY <2>1, <2>3
      <4> HIDE DEF T
      <4> QED
        BY <2>1, <4>1
    <3>2. PICK g : Adds(g, m - 1)
      BY <3>1, Zenon
    <3> DEFINE h == [s \in Upto(m) |-> IF s \in Upto(m - 1) THEN g[s] ELSE Added(g, f, s)]
    <3>3. \A s \in Upto(m) : h[s] = Added(g, f, s)
      <4> HIDE DEF Upto
      <4> QED
        BY <3>2
    <3>4. \A s \in Upto(m) : s = {} \/ h[s \ {Any(s)}] = g[s \ {Any(s)}]
      <4> SUFFICES ASSUME NEW s \in Upto(m), s # {} PROVE h[s \ {Any(s)}] = g[s \ {Any(s)}]
        OBVIOUS
      <4>1. s \ {Any(s)} \in Upto(m - 1) /\ s \ {Any(s)} \in Upto(m)
        BY <1>0, <1>1, <3>1
      <4> HIDE DEF Upto
      <4> QED
        BY <4>1
    <3>5. \A s \in Upto(m) : h[s] = Added(h, f, s)
      <4> HIDE DEF h, Upto
      <4> QED
        BY <3>3, <3>4 DEF Added
    <3>6. Adds(h, m)
      <4>1. h = [s \in Upto(m) |-> h[s]]
        OBVIOUS
      <4> HIDE DEF h, Upto
      <4> QED
        BY <3>5, <4>1
    <3> QED
      BY <2>1, <3>6
  <2> QED
    BY <2>2, <2>3
<1>3. Upto(Cardinality(S)) = SUBSET S
  BY <1>0, FS_Subset
<1>4. Cardinality(S) \in Nat /\ Cardinality(S) \notin T
  BY <1>2, FS_CardinalityType
<1>5. PICK g : Adds(g, Cardinality(S))
  BY <1>4, Zenon
<1> HIDE DEF Upto
<1> QED
  BY <1>3, <1>5, Zenon DEF Sums

\* What counts() returns is such a sum over the slots.
LEMMA CountsAreSums ==
  ASSUME NEW w, IsFiniteSet(Rolling!Slots)
  PROVE  /\ \E g : /\ Sums(g, [i \in Rolling!Slots |-> w.buckets[i].successes], Rolling!Slots)
                   /\ Rolling!Successes(w) = g[Rolling!Slots]
         /\ \E g : /\ Sums(g, [i \in Rolling!Slots |-> w.buckets[i].failures], Rolling!Slots)
                   /\ Rolling!Failures(w) = g[Rolling!Slots]
<1> DEFINE S == Rolling!Slots
           f == [i \in S |-> w.buckets[i].successes]
           e == [i \in S |-> w.buckets[i].failures]
           IsS(g) == g = [s \in SUBSET S |->
             IF s = {} THEN 0 ELSE w.buckets[CHOOSE x \in s : TRUE].successes
                                   + g[s \ {CHOOSE x \in s : TRUE}]]
           IsF(g) == g = [s \in SUBSET S |->
             IF s = {} THEN 0 ELSE w.buckets[CHOOSE x \in s : TRUE].failures
                                   + g[s \ {CHOOSE x \in s : TRUE}]]
<1>1. Rolling!Successes(w) = (CHOOSE g : IsS(g))[S]
  BY Zenon DEF Rolling!Successes, Rolling!MapThenSumSet, Rolling!MapThenFoldSet
<1>2. Rolling!Failures(w) = (CHOOSE g : IsF(g))[S]
  BY Zenon DEF Rolling!Failures, Rolling!MapThenSumSet, Rolling!MapThenFoldSet
<1>3. \A g : IsS(g) <=> g = [s \in SUBSET S |->
             IF s = {} THEN 0 ELSE w.buckets[Any(s)].successes + g[s \ {Any(s)}]]
  BY Zenon DEF Any
<1>4. \A g : IsF(g) <=> g = [s \in SUBSET S |->
             IF s = {} THEN 0 ELSE w.buckets[Any(s)].failures + g[s \ {Any(s)}]]
  BY Zenon DEF Any
<1> HIDE DEF S, IsS, IsF
<1>5. \A s \in SUBSET S : s # {} => /\ f[Any(s)] = w.buckets[Any(s)].successes
                                    /\ e[Any(s)] = w.buckets[Any(s)].failures
  BY AnyIsOne
<1> HIDE DEF f, e
<1>6. \A g : IsS(g) <=> Sums(g, f, S)
  BY <1>3, <1>5 DEF Sums, Added
<1>7. \A g : IsF(g) <=> Sums(g, e, S)
  BY <1>4, <1>5 DEF Sums, Added
<1>8. (\E g : IsS(g)) /\ (\E g : IsF(g))
  BY <1>6, <1>7, SumExists DEF S
<1>9. IsS(CHOOSE g : IsS(g)) /\ IsF(CHOOSE g : IsF(g))
  BY <1>8, Zenon
<1> QED
  BY <1>1, <1>2, <1>6, <1>7, <1>9, Zenon DEF S, f, e
\* The sum counts what the slots hold, as far as no slot is saturated.
Capped(n) == IF n <= CountMax THEN n ELSE CountMax
All(held, s) == UNION {held[i] : i \in s}

LEMMA SumsCount ==
  ASSUME NEW S, NEW D, IsFiniteSet(S), IsFiniteSet(D), NEW held, NEW f, NEW g, Sums(g, f, S),
         \A i \in S : held[i] \subseteq D,
         \A i, j \in S : i # j => held[i] \cap held[j] = {},
         \A i \in S : f[i] = Capped(Cardinality(held[i]))
  PROVE  /\ g[S] \in Nat
         /\ g[S] <= Cardinality(All(held, S))
         /\ g[S] >= Capped(Cardinality(All(held, S)))
<1> DEFINE P(s) == /\ g[s] \in Nat
                   /\ g[s] <= Cardinality(All(held, s))
                   /\ g[s] >= Capped(Cardinality(All(held, s)))
           T == {n \in Nat : \E s \in SUBSET S : Cardinality(s) = n /\ ~P(s)}
<1>0. CountMax \in Nat /\ CountMax > 0
  BY CountMaxAssumption
<1>1. \A s \in SUBSET S : IsFiniteSet(s) /\ Cardinality(s) \in Nat
  BY FS_Subset, FS_CardinalityType
<1>2. \A s \in SUBSET S : IsFiniteSet(All(held, s)) /\ Cardinality(All(held, s)) \in Nat
  <2> TAKE s \in SUBSET S
  <2>1. All(held, s) \subseteq D
    BY DEF All
  <2> QED
    BY <2>1, FS_Subset, FS_CardinalityType
<1>3. ASSUME NEW s \in SUBSET S, s # {}, P(s \ {Any(s)})
      PROVE  P(s)
  <2> DEFINE x == Any(s)
             r == s \ {x}
  <2>1. x \in s /\ x \in S /\ r \in SUBSET S
    BY <1>3, AnyIsOne
  <2>2. g[s] = f[x] + g[r]
    BY <1>3 DEF Sums, Added
  <2>3. All(held, s) = All(held, r) \cup held[x]
    BY <2>1 DEF All
  <2>4. All(held, r) \cap held[x] = {}
    BY <2>1 DEF All
  <2>5. IsFiniteSet(held[x]) /\ Cardinality(held[x]) \in Nat
    BY <2>1, FS_Subset, FS_CardinalityType
  <2>6. Cardinality(All(held, s)) = Cardinality(All(held, r)) + Cardinality(held[x])
    <3>1. IsFiniteSet(All(held, r))
      BY <1>2, <2>1
    <3>2. Cardinality(All(held, r) \cup held[x])
            = Cardinality(All(held, r)) + Cardinality(held[x])
              - Cardinality(All(held, r) \cap held[x])
      BY <2>5, <3>1, FS_Union
    <3>3. Cardinality(All(held, r) \cap held[x]) = 0
      BY <2>4, FS_EmptySet
    <3>4. Cardinality(All(held, r)) \in Nat
      BY <1>2, <2>1
    <3> QED
      BY <2>3, <2>5, <3>2, <3>3, <3>4
  <2>7. f[x] = Capped(Cardinality(held[x]))
    BY <2>1
  <2>8. P(r)
    BY <1>3
  <2>9. Cardinality(All(held, r)) \in Nat
    BY <1>2, <2>1
  <2> HIDE DEF x, r
  <2> QED
    BY <1>0, <2>2, <2>5, <2>6, <2>7, <2>8, <2>9 DEF Capped
<1>4. T = {}
  <2> SUFFICES ASSUME T # {} PROVE FALSE
    OBVIOUS
  <2>1. PICK m \in T : \A n \in T : m <= n
    <3>1. T \subseteq Nat
      OBVIOUS
    <3> HIDE DEF T
    <3> QED
      BY <3>1, LeastNumber
  <2>2. PICK s \in SUBSET S : Cardinality(s) = m /\ ~P(s)
    BY <2>1
  <2>3. CASE s = {}
    <3>1. All(held, s) = {}
      BY <2>3 DEF All
    <3>2. Cardinality(All(held, s)) = 0
      BY <3>1, FS_EmptySet
    <3>3. g[s] = 0
      BY <2>3 DEF Sums, Added
    <3>4. P(s)
      BY <1>0, <3>2, <3>3 DEF Capped
    <3> QED
      BY <2>2, <3>4
  <2>4. CASE s # {}
    <3> DEFINE r == s \ {Any(s)}
    <3>1. r \in SUBSET S /\ Cardinality(r) = Cardinality(s) - 1
      BY <1>1, <2>4, AnyIsOne, FS_RemoveElement
    <3>2. Cardinality(r) \in Nat /\ ~(m <= Cardinality(r))
      BY <1>1, <2>2, <3>1
    <3>3. P(r)
      <4> HIDE DEF P, r
      <4> QED
        BY <2>1, <3>1, <3>2
    <3>4. P(s)
      BY <1>3, <2>4, <3>3
    <3> QED
      BY <2>2, <3>4
  <2> QED
    BY <2>3, <2>4
<1>5. P(S)
  <2>1. Cardinality(S) \notin T /\ Cardinality(S) \in Nat
    BY <1>1, <1>4
  <2> HIDE DEF P
  <2> QED
    BY <2>1
<1> QED
  BY <1>5
-----------------------------------------------------------------------------
\* How many buckets ago a slot was the current one.
Age(w, i) == IF i <= w.current THEN w.current - i ELSE w.current + Buckets - i

\* What advance does to the slots: those it keeps grow older as the start moves on,
\* and those it clears lie a whole window behind the new start.
Moves(w, v, n, kept) ==
  /\ v \in Rolling!Window /\ kept \subseteq Rolling!Slots
  /\ v.start >= w.start /\ (v.start = w.start \/ v.start <= n) /\ n < v.start + BucketWidth
  /\ \A i \in kept : /\ v.buckets[i] = w.buckets[i]
                     /\ w.start + Age(v, i) * BucketWidth = v.start + Age(w, i) * BucketWidth
  /\ \A i \in Rolling!Slots \ kept :
       /\ v.buckets[i] = Rolling!EmptyBucket
       /\ v.start + Age(w, i) * BucketWidth >= w.start + Buckets * BucketWidth

LEMMA WindowParts ==
  ASSUME NEW w \in Rolling!Window
  PROVE  /\ w.start \in Nat /\ w.current \in Rolling!Slots /\ w.current \in Nat
         /\ w.current < Buckets
         /\ \A i \in Rolling!Slots : /\ w.buckets[i] \in Rolling!Bucket
                                    /\ Age(w, i) \in Nat /\ Age(w, i) <= Buckets - 1
<1>1. Buckets \in Nat \ {0}
  BY BucketsAssumption
<1>2. /\ w.start \in Nat /\ w.current \in Rolling!Slots
      /\ w.buckets \in [Rolling!Slots -> Rolling!Bucket]
  BY DEF Rolling!Window
<1>3. w.current \in Nat /\ w.current < Buckets
  BY <1>1, <1>2 DEF Rolling!Slots
<1>4. \A i \in Rolling!Slots : Age(w, i) \in Nat /\ Age(w, i) <= Buckets - 1
  BY <1>1, <1>3 DEF Rolling!Slots, Age
<1> QED
  BY <1>2, <1>3, <1>4

\* Division, and the remainder of a number less than twice the divisor.
LEMMA Divided ==
  ASSUME NEW d \in Nat, NEW b \in Nat \ {0}
  PROVE  d \div b \in Nat /\ (d \div b) * b <= d /\ d < (d \div b) * b + b
OBVIOUS

LEMMA Wrapped ==
  ASSUME NEW b \in Nat \ {0}, NEW x \in Nat, x < 2 * b
  PROVE  x % b = IF x < b THEN x ELSE x - b
OBVIOUS

LEMMA AdvanceMoves ==
  ASSUME NEW w \in Rolling!Window, NEW n \in Nat
  PROVE  \E kept : Moves(w, Rolling!Advance(w, n), n, kept)
<1> DEFINE W == BucketWidth
           k == Rolling!StepsTo(w, n)
           v == Rolling!Advance(w, n)
<1>0. W \in Nat \ {0} /\ Buckets \in Nat \ {0} /\ CountMax \in Nat
  BY BucketWidthAssumption, BucketsAssumption, CountMaxAssumption
<1>1. /\ w.start \in Nat /\ w.current \in Nat /\ w.current < Buckets
      /\ w.current \in Rolling!Slots /\ w.buckets \in [Rolling!Slots -> Rolling!Bucket]
  BY WindowParts DEF Rolling!Window
<1>2. /\ k \in Nat /\ n < w.start + k * W + W
      /\ k # 0 => w.start + k * W <= n
  <2> DEFINE d == Rolling!SaturatingSince(w.start, n)
  <2>1. CASE n > w.start
    <3>1. k = (n - w.start) \div W
      BY <2>1 DEF Rolling!StepsTo, Rolling!SaturatingSince
    <3>2. n - w.start \in Nat
      BY <1>1, <2>1
    <3>3. k \in Nat /\ k * W <= n - w.start /\ n - w.start < k * W + W
      BY <1>0, <3>1, <3>2, Divided
    <3>4. k * W \in Nat
      BY <1>0, <3>3
    <3> HIDE DEF k
    <3> QED
      BY <1>0, <1>1, <3>3, <3>4
  <2>2. CASE ~(n > w.start)
    <3>1. k = 0 \div W
      BY <2>2 DEF Rolling!StepsTo, Rolling!SaturatingSince
    <3>2. k = 0
      BY <1>0, <3>1
    <3> HIDE DEF k
    <3> QED
      BY <1>0, <1>1, <2>2, <3>2
  <2> QED
    BY <2>1, <2>2
<1>3. CASE k = 0
  <2>1. v = w
    BY <1>3 DEF Rolling!Advance
  <2> HIDE DEF v, k
  <2>2. Moves(w, w, n, Rolling!Slots)
    BY <1>0, <1>1, <1>2, <1>3 DEF Moves
  <2> QED
    BY <2>1, <2>2 DEF v
<1>4. CASE k # 0 /\ k >= Buckets
  <2>1. v = Rolling!NewWindow(n)
    BY <1>4 DEF Rolling!Advance
  <2>2. /\ v \in Rolling!Window /\ v.start = n
        /\ \A i \in Rolling!Slots : v.buckets[i] = Rolling!EmptyBucket
    BY <1>0, <2>1 DEF Rolling!NewWindow, Rolling!Window, Rolling!Slots, Rolling!Bucket,
                      Rolling!EmptyBucket
  <2>3. k * W >= Buckets * W
    BY <1>0, <1>2, <1>4
  <2>4. n >= w.start + Buckets * W
    <3> HIDE DEF k
    <3> QED
      BY <1>0, <1>1, <1>2, <1>4, <2>3
  <2>5. \A i \in Rolling!Slots : Age(w, i) * W \in Nat
    BY <1>0, WindowParts
  <2>6. Moves(w, v, n, {})
    <3> HIDE DEF v, k
    <3>1. Buckets * W \in Nat
      BY <1>0
    <3> QED
      BY <1>0, <1>1, <2>2, <2>4, <2>5, <3>1 DEF Moves
  <2> QED
    BY <2>6
<1>5. CASE k # 0 /\ ~(k >= Buckets)
  <2> DEFINE kept == {i \in Rolling!Slots : Age(w, i) + k < Buckets}
             next == IF w.current + k < Buckets THEN w.current + k ELSE (w.current + k) - Buckets
  <2>1. v = [buckets |-> [i \in Rolling!Slots |-> IF i \in Rolling!Entered(w, k)
                                                 THEN Rolling!EmptyBucket ELSE w.buckets[i]],
             current |-> (w.current + k) % Buckets,
             start   |-> w.start + k * W]
    BY <1>5 DEF Rolling!Advance
  <2> HIDE DEF k, v
  <2>2. \A m \in 1 .. k : (w.current + m) % Buckets
                            = IF w.current + m < Buckets THEN w.current + m
                              ELSE (w.current + m) - Buckets
    <3> TAKE m \in 1 .. k
    <3> DEFINE x == w.current + m
    <3>1. x \in Nat /\ x < 2 * Buckets
      BY <1>0, <1>1, <1>2, <1>5
    <3>2. x % Buckets = IF x < Buckets THEN x ELSE x - Buckets
      <4> HIDE DEF x
      <4> QED
        BY <1>0, <3>1, Wrapped
    <3> QED
      BY <3>2, Zenon
  <2>3. (w.current + k) % Buckets = next
    <3>1. k \in 1 .. k
      BY <1>2, <1>5
    <3> QED
      BY <2>2, <3>1, Zenon
  <2>4. ASSUME NEW i \in Rolling!Slots
        PROVE  i \in Rolling!Entered(w, k) <=> i \notin kept
    <3>1. i \in Nat /\ i < Buckets
      BY <1>0 DEF Rolling!Slots
    <3>2. ASSUME i \in Rolling!Entered(w, k) PROVE i \notin kept
      <4>1. PICK m \in 1 .. k : i = (w.current + m) % Buckets
        BY <3>2 DEF Rolling!Entered
      <4>2. i = IF w.current + m < Buckets THEN w.current + m ELSE (w.current + m) - Buckets
        BY <2>2, <4>1
      <4>3. Age(w, i) + k >= Buckets
        BY <1>0, <1>1, <1>2, <1>5, <3>1, <4>2 DEF Age
      <4> QED
        BY <1>0, <1>2, <1>5, <4>3, WindowParts
    <3>3. ASSUME i \notin kept PROVE i \in Rolling!Entered(w, k)
      <4>1. Buckets - Age(w, i) \in 1 .. k
        BY <1>0, <1>1, <1>2, <1>5, <3>1, <3>3 DEF Age
      <4>2. i = (w.current + (Buckets - Age(w, i))) % Buckets
        BY <1>0, <1>1, <1>2, <1>5, <2>2, <3>1, <4>1 DEF Age
      <4> QED
        BY <4>1, <4>2 DEF Rolling!Entered
    <3> QED
      BY <3>2, <3>3
  <2>5. next \in Rolling!Slots
    BY <1>0, <1>1, <1>2, <1>5 DEF Rolling!Slots
  <2>6. /\ v.start = w.start + k * W /\ v.current = next /\ v \in Rolling!Window
        /\ \A i \in Rolling!Slots :
             v.buckets[i] = IF i \in kept THEN w.buckets[i] ELSE Rolling!EmptyBucket
    <3>1. Rolling!EmptyBucket \in Rolling!Bucket
      BY <1>0 DEF Rolling!EmptyBucket, Rolling!Bucket
    <3>2. k * W \in Nat
      BY <1>0, <1>2
    <3> HIDE DEF next, kept
    <3> QED
      BY <1>1, <2>1, <2>3, <2>4, <2>5, <3>1, <3>2 DEF Rolling!Window
  <2>7. \A i \in kept : Age(v, i) = Age(w, i) + k
    <3> TAKE i \in kept
    <3>1. i \in Nat /\ i < Buckets /\ Age(w, i) + k < Buckets
      BY <1>0 DEF Rolling!Slots
    <3>2. v.current = IF w.current + k < Buckets THEN w.current + k ELSE (w.current + k) - Buckets
      BY <2>6
    <3> HIDE DEF kept, next
    <3> QED
      BY <1>0, <1>1, <1>2, <1>5, <3>1, <3>2 DEF Age
  <2>8. \A i \in Rolling!Slots : Age(w, i) \in Nat
    BY WindowParts
  <2>9. \A i \in kept : w.start + Age(v, i) * W = v.start + Age(w, i) * W
    <3> TAKE i \in kept
    <3>1. Age(v, i) * W = Age(w, i) * W + k * W
      BY <1>0, <1>2, <2>7, <2>8
    <3>2. Age(w, i) * W \in Nat /\ k * W \in Nat
      BY <1>0, <1>2, <2>8
    <3> QED
      BY <1>1, <2>6, <3>1, <3>2
  <2>10. \A i \in Rolling!Slots \ kept : v.start + Age(w, i) * W >= w.start + Buckets * W
    <3> TAKE i \in Rolling!Slots \ kept
    <3>1. Age(w, i) + k >= Buckets
      BY <1>0, <1>2, <2>8
    <3>2. (Age(w, i) + k) * W >= Buckets * W
      BY <1>0, <1>2, <2>8, <3>1
    <3>3. (Age(w, i) + k) * W = Age(w, i) * W + k * W
      BY <1>0, <1>2, <2>8
    <3>4. Age(w, i) * W \in Nat /\ k * W \in Nat /\ Buckets * W \in Nat
      BY <1>0, <1>2, <2>8
    <3> QED
      BY <1>1, <2>6, <3>2, <3>3, <3>4
  <2>11. k * W \in Nat
    BY <1>0, <1>2
  <2> HIDE DEF next
  <2>12. Moves(w, v, n, kept)
    <3>1. kept \subseteq Rolling!Slots
      OBVIOUS
    <3> HIDE DEF kept
    <3> QED
      BY <1>0, <1>1, <1>2, <1>5, <2>6, <2>9, <2>10, <2>11, <3>1 DEF Moves
  <2> QED
    BY <2>12 DEF v
<1> QED
  BY <1>3, <1>4, <1>5
-----------------------------------------------------------------------------
\* An entry of the log: what the window was told, and when.
Told == [kind : {"success", "failure"}, given : Nat, real : Nat]

\* The log and the slots are finite.
LEMMA OutcomesAreFinite ==
  ASSUME NEW l \in Seq(Told)
  PROVE  IsFiniteSet(DOMAIN l)
<1>1. DOMAIN l = 1 .. Len(l) /\ Len(l) \in Nat
  OBVIOUS
<1>2. IsFiniteSet(1 .. Len(l))
  BY <1>1, FS_Interval
<1> QED
  BY <1>1, <1>2

LEMMA SlotsAreFinite == IsFiniteSet(Rolling!Slots)
<1>1. Rolling!Slots = 0 .. Buckets - 1 /\ Buckets - 1 \in Int
  BY BucketsAssumption DEF Rolling!Slots
<1>2. IsFiniteSet(0 .. Buckets - 1)
  BY <1>1, FS_Interval
<1> QED
  BY <1>1, <1>2

\* Each outcome that is still counted is held by one slot, recorded while that slot
\* was the current one; the others are older than the window.
OfKind(held, l, kind) == [i \in Rolling!Slots |-> {r \in held[i] : l[r].kind = kind}]

Placed(w, last) ==
  w \in Rolling!Window /\ last \in Nat /\ w.start <= last /\ last < w.start + BucketWidth

Counted(w, l, held) ==
  \A i \in Rolling!Slots :
    /\ w.buckets[i].successes = Capped(Cardinality(OfKind(held, l, "success")[i]))
    /\ w.buckets[i].failures = Capped(Cardinality(OfKind(held, l, "failure")[i]))

Timed(w, last, l, held) ==
  /\ \A i \in Rolling!Slots : \A r \in held[i] :
       /\ w.start <= l[r].real + Age(w, i) * BucketWidth
       /\ l[r].given + Age(w, i) * BucketWidth < w.start + BucketWidth
  /\ \A r \in DOMAIN l : (\A i \in Rolling!Slots : r \notin held[i]) =>
       last + BucketWidth > l[r].given + Buckets * BucketWidth

Accounts(w, last, l, held) ==
  /\ held \in [Rolling!Slots -> SUBSET DOMAIN l]
  /\ \A i, j \in Rolling!Slots : i # j => held[i] \cap held[j] = {}
  /\ Counted(w, l, held) /\ Timed(w, last, l, held)

RollingInv ==
  /\ Placed(ring, latest) /\ present \in Nat /\ latest <= present /\ told \in Seq(Told)
  /\ \E held : Accounts(ring, latest, told, held)

\* The later of two instants.
Later(a, b) == IF a >= b THEN a ELSE b

LEMMA Extremes ==
  ASSUME NEW a \in Nat, NEW b \in Nat
  PROVE  /\ Rolling!Max({a, b}) = Later(a, b)
         /\ Rolling!Min({a, b}) = IF b <= a THEN b ELSE a
BY DEF Rolling!Max, Rolling!Min, Later

LEMMA StillHeld ==
  ASSUME NEW start \in Nat, NEW start1 \in Nat, NEW before \in Nat, NEW after \in Nat,
         NEW real \in Nat, NEW given \in Nat, NEW width \in Nat,
         start + after = start1 + before,
         start <= real + before, given + before < start + width
  PROVE  start1 <= real + after /\ given + after < start1 + width
OBVIOUS

LEMMA OldEnough ==
  ASSUME NEW start \in Nat, NEW start1 \in Nat, NEW before \in Nat, NEW last \in Nat,
         NEW given \in Nat, NEW width \in Nat, NEW span \in Nat,
         start1 + before >= start + span, last >= start1, given + before < start + width
  PROVE  last + width > given + span
OBVIOUS

\* Moving on takes outcomes from slots that are cleared, which are old enough.
LEMMA AdvanceKeeps ==
  ASSUME NEW w, NEW last, NEW n \in Nat, NEW l \in Seq(Told), NEW held,
         Placed(w, last), Accounts(w, last, l, held)
  PROVE  LET v == Rolling!Advance(w, n) IN
         /\ Placed(v, Later(last, n))
         /\ \E h : Accounts(v, Later(last, n), l, h)
<1> DEFINE v == Rolling!Advance(w, n)
           last1 == Later(last, n)
           S == Rolling!Slots
           W == BucketWidth
<1>0. W \in Nat \ {0} /\ Buckets \in Nat \ {0} /\ CountMax \in Nat /\ CountMax > 0
  BY BucketWidthAssumption, BucketsAssumption, CountMaxAssumption
<1>1. w \in Rolling!Window /\ last \in Nat /\ w.start <= last /\ last < w.start + W
  BY DEF Placed
<1>2. PICK kept : Moves(w, v, n, kept)
  BY <1>1, AdvanceMoves
<1> HIDE DEF v
<1>3. w.start \in Nat /\ v.start \in Nat
  BY <1>1, <1>2, WindowParts DEF Moves
<1>4. Placed(v, last1) /\ last1 >= v.start /\ last1 >= last
  BY <1>0, <1>1, <1>2, <1>3 DEF Moves, Placed, Later
<1> DEFINE h == [i \in S |-> IF i \in kept THEN held[i] ELSE {}]
<1>5. /\ kept \subseteq S
      /\ held \in [S -> SUBSET DOMAIN l]
      /\ \A i, j \in S : i # j => held[i] \cap held[j] = {}
  BY <1>2 DEF Moves, Accounts
<1>6. h \in [S -> SUBSET DOMAIN l] /\ \A i, j \in S : i # j => h[i] \cap h[j] = {}
  BY <1>5
<1>7. Counted(v, l, h)
  <2> SUFFICES ASSUME NEW i \in S
               PROVE  /\ v.buckets[i].successes = Capped(Cardinality(OfKind(h, l, "success")[i]))
                      /\ v.buckets[i].failures = Capped(Cardinality(OfKind(h, l, "failure")[i]))
    BY DEF Counted
  <2>1. CASE i \in kept
    <3>1. v.buckets[i] = w.buckets[i] /\ h[i] = held[i]
      BY <1>2, <2>1 DEF Moves
    <3>2. /\ OfKind(h, l, "success")[i] = OfKind(held, l, "success")[i]
          /\ OfKind(h, l, "failure")[i] = OfKind(held, l, "failure")[i]
      BY <3>1 DEF OfKind
    <3> QED
      BY <3>1, <3>2, Zenon DEF Accounts, Counted
  <2>2. CASE i \notin kept
    <3>1. v.buckets[i].successes = 0 /\ v.buckets[i].failures = 0 /\ h[i] = {}
      BY <1>2, <2>2 DEF Moves, Rolling!EmptyBucket
    <3>2. OfKind(h, l, "success")[i] = {} /\ OfKind(h, l, "failure")[i] = {}
      BY <3>1 DEF OfKind
    <3>3. Capped(Cardinality({})) = 0
      BY <1>0, FS_EmptySet DEF Capped
    <3> QED
      BY <3>1, <3>2, <3>3, Zenon
  <2> QED
    BY <2>1, <2>2
<1>8. \A r \in DOMAIN l : l[r].given \in Nat /\ l[r].real \in Nat
  <2>1. \A r \in DOMAIN l : l[r] \in Told
    OBVIOUS
  <2> QED
    BY <2>1 DEF Told
<1>9. \A i \in S : Age(w, i) * W \in Nat /\ Age(v, i) * W \in Nat
  BY <1>0, <1>1, <1>2, WindowParts DEF Moves
<1>10. ASSUME NEW i \in S, NEW r \in h[i]
       PROVE  v.start <= l[r].real + Age(v, i) * W /\ l[r].given + Age(v, i) * W < v.start + W
  <2>1. i \in kept /\ r \in held[i] /\ r \in DOMAIN l
    BY <1>5
  <2>2. w.start <= l[r].real + Age(w, i) * W /\ l[r].given + Age(w, i) * W < w.start + W
    BY <2>1 DEF Accounts, Timed
  <2>3. w.start + Age(v, i) * W = v.start + Age(w, i) * W
    BY <1>2, <2>1 DEF Moves
  <2>4. /\ Age(w, i) * W \in Nat /\ Age(v, i) * W \in Nat
        /\ l[r].given \in Nat /\ l[r].real \in Nat /\ W \in Nat
    BY <1>0, <1>8, <1>9, <2>1
  <2> DEFINE start == w.start
             start1 == v.start
             before == Age(w, i) * W
             after == Age(v, i) * W
             real == l[r].real
             given == l[r].given
  <2>5. /\ start \in Nat /\ start1 \in Nat /\ before \in Nat /\ after \in Nat
        /\ real \in Nat /\ given \in Nat
        /\ start + after = start1 + before
        /\ start <= real + before /\ given + before < start + W
    BY <1>3, <2>2, <2>3, <2>4
  <2> HIDE DEF start, start1, before, after, real, given, h, W
  <2>6. start1 <= real + after /\ given + after < start1 + W
    BY <1>0, <2>5
  <2> QED
    BY <2>6 DEF start1, after, real, given
<1>11. ASSUME NEW r \in DOMAIN l, \A i \in S : r \notin h[i]
       PROVE  last1 + W > l[r].given + Buckets * W
  <2>0. Buckets * W \in Nat /\ last1 \in Nat
    BY <1>0, <1>4 DEF Placed
  <2>1. CASE \A i \in S : r \notin held[i]
    <3>1. last + W > l[r].given + Buckets * W
      BY <2>1 DEF Accounts, Timed
    <3> QED
      BY <1>0, <1>1, <1>4, <1>8, <2>0, <3>1
  <2>2. CASE \E i \in S : r \in held[i]
    <3>1. PICK i \in S : r \in held[i]
      BY <2>2
    <3>2. i \notin kept
      BY <1>11, <3>1
    <3>3. v.start + Age(w, i) * W >= w.start + Buckets * W
      BY <1>2, <3>2 DEF Moves
    <3>4. l[r].given + Age(w, i) * W < w.start + W
      BY <3>1 DEF Accounts, Timed
    <3>5. /\ Age(w, i) * W \in Nat /\ Buckets * W \in Nat
          /\ l[r].given \in Nat /\ W \in Nat
      BY <1>0, <1>8, <1>9, <2>0
    <3> HIDE DEF last1
    <3> QED
      BY <1>3, <1>4, <2>0, <3>3, <3>4, <3>5, OldEnough
  <2> QED
    BY <2>1, <2>2
<1> HIDE DEF h, last1
<1>12. Timed(v, last1, l, h)
  BY <1>10, <1>11, Zenon DEF Timed
<1>13. Accounts(v, last1, l, h)
  BY <1>6, <1>7, <1>12, Zenon DEF Accounts
<1> QED
  BY <1>4, <1>13 DEF v, last1
\* What is recorded is held by the current slot.
LEMMA RecordKeeps ==
  ASSUME NEW v, NEW last, NEW l \in Seq(Told), NEW h, Placed(v, last), Accounts(v, last, l, h),
         NEW n \in Nat, NEW real \in Nat, n <= last, last <= real,
         NEW kind \in {"success", "failure"}
  PROVE  LET u == IF kind = "success" THEN Rolling!RecordSuccess(v) ELSE Rolling!RecordFailure(v)
             e == [kind |-> kind, given |-> n, real |-> real] IN
         /\ Placed(u, last) /\ Append(l, e) \in Seq(Told)
         /\ \E hh : Accounts(u, last, Append(l, e), hh)
<1> DEFINE S == Rolling!Slots
           W == BucketWidth
           u == IF kind = "success" THEN Rolling!RecordSuccess(v) ELSE Rolling!RecordFailure(v)
           e == [kind |-> kind, given |-> n, real |-> real]
           m == Append(l, e)
           new == Len(l) + 1
           c == v.current
           g == [i \in S |-> IF i = c THEN h[i] \cup {new} ELSE h[i]]
           one(k) == Rolling!SaturatingInc(k)
<1>0. W \in Nat \ {0} /\ Buckets \in Nat \ {0} /\ CountMax \in Nat \ {0}
  BY BucketWidthAssumption, BucketsAssumption, CountMaxAssumption
<1>1. /\ v \in Rolling!Window /\ last \in Nat /\ v.start <= last /\ last < v.start + W
      /\ v.start \in Nat /\ c \in S
  BY WindowParts DEF Placed
<1>2. /\ e \in Told /\ m \in Seq(Told) /\ Len(l) \in Nat /\ new \in DOMAIN m /\ new \notin DOMAIN l
      /\ DOMAIN m = DOMAIN l \cup {new} /\ m[new] = e /\ \A r \in DOMAIN l : m[r] = l[r]
  <2>1. e \in Told
    BY DEF Told
  <2> HIDE DEF e
  <2> QED
    BY <2>1
<1> HIDE DEF m, new
<1>3. /\ h \in [S -> SUBSET DOMAIN l]
      /\ \A i, j \in S : i # j => h[i] \cap h[j] = {}
      /\ Counted(v, l, h) /\ Timed(v, last, l, h)
  BY DEF Accounts
<1>4. g \in [S -> SUBSET DOMAIN m] /\ \A i, j \in S : i # j => g[i] \cap g[j] = {}
  BY <1>2, <1>3
<1>5. /\ u \in Rolling!Window /\ u.start = v.start /\ u.current = c
      /\ \A i \in S \ {c} : u.buckets[i] = v.buckets[i]
      /\ kind = "success" => /\ u.buckets[c].successes = one(v.buckets[c].successes)
                             /\ u.buckets[c].failures = v.buckets[c].failures
      /\ kind = "failure" => /\ u.buckets[c].failures = one(v.buckets[c].failures)
                             /\ u.buckets[c].successes = v.buckets[c].successes
  <2>1. /\ v.buckets \in [S -> Rolling!Bucket]
        /\ v = [buckets |-> v.buckets, current |-> v.current, start |-> v.start]
    BY <1>1 DEF Rolling!Window
  <2>2. \A k \in 0 .. CountMax : one(k) \in 0 .. CountMax
    BY <1>0 DEF Rolling!SaturatingInc
  <2>3. CASE kind = "success"
    <3>1. u = [v EXCEPT !.buckets[v.current].successes = one(@)]
      BY <2>3 DEF Rolling!RecordSuccess
    <3> HIDE DEF u
    <3> QED
      BY <1>1, <2>1, <2>2, <2>3, <3>1 DEF Rolling!Window, Rolling!Bucket
  <2>4. CASE kind = "failure"
    <3>1. u = [v EXCEPT !.buckets[v.current].failures = one(@)]
      BY <2>4 DEF Rolling!RecordFailure
    <3> HIDE DEF u
    <3> QED
      BY <1>1, <2>1, <2>2, <2>4, <3>1 DEF Rolling!Window, Rolling!Bucket
  <2> QED
    BY <2>3, <2>4
<1> HIDE DEF u
<1>6. Placed(u, last)
  BY <1>1, <1>5 DEF Placed
<1>7. \A r : \A i \in S : r \in h[i] => r \in DOMAIN l /\ m[r] = l[r]
  BY <1>2, <1>3
<1>8. \A i \in S \ {c} : \A k : OfKind(g, m, k)[i] = OfKind(h, l, k)[i]
  BY <1>7 DEF OfKind
<1>9. /\ OfKind(g, m, kind)[c] = OfKind(h, l, kind)[c] \cup {new}
      /\ \A k : k # kind => OfKind(g, m, k)[c] = OfKind(h, l, k)[c]
  <2>1. g[c] = h[c] \cup {new} /\ m[new].kind = kind
    BY <1>1, <1>2
  <2>2. \A r \in h[c] : m[r] = l[r]
    BY <1>1, <1>7
  <2> HIDE DEF g, e
  <2>3. /\ OfKind(g, m, kind)[c] = {r \in g[c] : m[r].kind = kind}
        /\ OfKind(h, l, kind)[c] = {r \in h[c] : l[r].kind = kind}
    BY <1>1 DEF OfKind
  <2>4. {r \in g[c] : m[r].kind = kind} = {r \in h[c] : l[r].kind = kind} \cup {new}
    BY <2>1, <2>2
  <2>5. OfKind(g, m, kind)[c] = OfKind(h, l, kind)[c] \cup {new}
    BY <2>3, <2>4
  <2>6. ASSUME NEW k, k # kind PROVE OfKind(g, m, k)[c] = OfKind(h, l, k)[c]
    <3>1. {r \in g[c] : m[r].kind = k} = {r \in h[c] : l[r].kind = k}
      BY <2>1, <2>2, <2>6
    <3>2. /\ OfKind(g, m, k)[c] = {r \in g[c] : m[r].kind = k}
          /\ OfKind(h, l, k)[c] = {r \in h[c] : l[r].kind = k}
      BY <1>1 DEF OfKind
    <3> QED
      BY <3>1, <3>2, Zenon
  <2> QED
    BY <2>5, <2>6
<1>10. /\ IsFiniteSet(OfKind(h, l, kind)[c]) /\ new \notin OfKind(h, l, kind)[c]
       /\ Cardinality(OfKind(h, l, kind)[c]) \in Nat
  <2>1. OfKind(h, l, kind)[c] \subseteq DOMAIN l
    BY <1>1, <1>3 DEF OfKind
  <2>2. IsFiniteSet(DOMAIN l)
    BY OutcomesAreFinite
  <2> QED
    BY <1>2, <2>1, <2>2, FS_Subset, FS_CardinalityType
<1>11. Capped(Cardinality(OfKind(g, m, kind)[c])) = one(Capped(Cardinality(OfKind(h, l, kind)[c])))
  <2>1. Cardinality(OfKind(g, m, kind)[c]) = Cardinality(OfKind(h, l, kind)[c]) + 1
    <3> DEFINE A == OfKind(h, l, kind)[c]
    <3>1. IsFiniteSet(A) /\ new \notin A /\ OfKind(g, m, kind)[c] = A \cup {new}
      BY <1>9, <1>10
    <3> HIDE DEF A
    <3>2. Cardinality(A \cup {new}) = Cardinality(A) + 1
      BY <3>1, FS_AddElement
    <3> QED
      BY <3>1, <3>2 DEF A
  <2> QED
    BY <1>0, <1>10, <2>1 DEF Capped, Rolling!SaturatingInc
<1> HIDE DEF g, one
<1>12. Counted(u, m, g)
  <2> SUFFICES ASSUME NEW i \in S
               PROVE  /\ u.buckets[i].successes = Capped(Cardinality(OfKind(g, m, "success")[i]))
                      /\ u.buckets[i].failures = Capped(Cardinality(OfKind(g, m, "failure")[i]))
    BY DEF Counted
  <2>1. /\ v.buckets[i].successes = Capped(Cardinality(OfKind(h, l, "success")[i]))
        /\ v.buckets[i].failures = Capped(Cardinality(OfKind(h, l, "failure")[i]))
    BY <1>3 DEF Counted
  <2>2. CASE i # c
    BY <1>5, <1>8, <2>1, <2>2
  <2>3. CASE i = c /\ kind = "success"
    BY <1>5, <1>9, <1>11, <2>1, <2>3
  <2>4. CASE i = c /\ kind = "failure"
    BY <1>5, <1>9, <1>11, <2>1, <2>4
  <2> QED
    BY <2>2, <2>3, <2>4
<1>13. \A i \in S : Age(u, i) = Age(v, i)
  BY <1>5 DEF Age
<1>14. Timed(u, last, m, g)
  <2>1. ASSUME NEW i \in S, NEW r \in g[i]
        PROVE  /\ u.start <= m[r].real + Age(u, i) * W
               /\ m[r].given + Age(u, i) * W < u.start + W
    <3>1. CASE r \in h[i]
      BY <1>3, <1>5, <1>7, <1>13, <3>1 DEF Timed
    <3>2. CASE r \notin h[i]
      <4>1. r = new /\ i = c
        BY <3>2 DEF g
      <4>2. Age(u, i) = 0
        BY <1>0, <1>1, <1>5, <4>1 DEF Age, Rolling!Slots
      <4>3. m[r].real = real /\ m[r].given = n
        BY <1>2, <4>1
      <4>4. Age(u, i) * W = 0
        BY <1>0, <4>2
      <4> QED
        BY <1>0, <1>1, <1>5, <4>3, <4>4
    <3> QED
      BY <3>1, <3>2
  <2>2. ASSUME NEW r \in DOMAIN m, \A i \in S : r \notin g[i]
        PROVE  last + W > m[r].given + Buckets * W
    <3>1. r # new
      BY <1>1, <2>2 DEF g
    <3>2. r \in DOMAIN l /\ m[r] = l[r]
      BY <1>2, <3>1
    <3>3. \A i \in S : r \notin h[i]
      BY <2>2 DEF g
    <3> QED
      BY <1>3, <3>2, <3>3 DEF Timed
  <2> QED
    BY <2>1, <2>2, Zenon DEF Timed
<1>15. Accounts(u, last, m, g)
  BY <1>4, <1>12, <1>14, Zenon DEF Accounts
<1> QED
  BY <1>2, <1>6, <1>15 DEF u, m
LEMMA RollingInit == Rolling!Init => RollingInv
<1> SUFFICES ASSUME Rolling!Init PROVE RollingInv
  OBVIOUS
<1> DEFINE held == [i \in Rolling!Slots |-> {}]
<1>0. /\ BucketWidth \in Nat \ {0} /\ Buckets \in Nat \ {0} /\ CountMax \in Nat
  BY BucketWidthAssumption, BucketsAssumption, CountMaxAssumption
<1>1. ring = Rolling!NewWindow(0) /\ present = 0 /\ latest = 0 /\ told = <<>>
  BY DEF Rolling!Init
<1>2. /\ ring \in Rolling!Window /\ ring.start = 0
      /\ \A i \in Rolling!Slots : ring.buckets[i].successes = 0 /\ ring.buckets[i].failures = 0
  BY <1>0, <1>1 DEF Rolling!NewWindow, Rolling!Window, Rolling!Slots, Rolling!Bucket,
                    Rolling!EmptyBucket
<1>3. Placed(ring, latest)
  BY <1>0, <1>1, <1>2 DEF Placed
<1>4. \A i \in Rolling!Slots : \A k : OfKind(held, told, k)[i] = {}
  BY DEF OfKind
<1>5. Capped(Cardinality({})) = 0
  BY <1>0, FS_EmptySet DEF Capped
<1>6. Accounts(ring, latest, told, held)
  <2>1. Counted(ring, told, held)
    <3> HIDE DEF held
    <3> QED
      BY <1>2, <1>4, <1>5 DEF Counted
  <2>2. DOMAIN told = {}
    BY <1>1
  <2>3. Timed(ring, latest, told, held)
    BY <2>2 DEF Timed
  <2>4. held \in [Rolling!Slots -> SUBSET DOMAIN told]
        /\ \A i, j \in Rolling!Slots : i # j => held[i] \cap held[j] = {}
    OBVIOUS
  <2> HIDE DEF held
  <2> QED
    BY <2>1, <2>3, <2>4, Zenon DEF Accounts
<1>7. told \in Seq(Told) /\ present \in Nat /\ latest <= present
  BY <1>1
<1> HIDE DEF held
<1> QED
  BY <1>3, <1>6, <1>7, Zenon DEF RollingInv

LEMMA RollingStep == RollingInv /\ [Rolling!Next]_(Rolling!vars) => RollingInv'
<1> SUFFICES ASSUME RollingInv, [Rolling!Next]_(Rolling!vars) PROVE RollingInv'
  OBVIOUS
<1>1. /\ Placed(ring, latest) /\ present \in Nat /\ latest <= present /\ told \in Seq(Told)
      /\ latest \in Nat
  BY DEF RollingInv, Placed
<1>2. PICK held : Accounts(ring, latest, told, held)
  BY Zenon DEF RollingInv
<1>3. CASE Rolling!Tick
  <2>1. ring' = ring /\ latest' = latest /\ told' = told /\ present' = present + 1
    BY <1>3 DEF Rolling!Tick
  <2>2. Placed(ring', latest') /\ Accounts(ring', latest', told', held)
    BY <1>1, <1>2, <2>1
  <2>3. present' \in Nat /\ latest' <= present' /\ told' \in Seq(Told)
    BY <1>1, <2>1
  <2> QED
    BY <2>2, <2>3, Zenon DEF RollingInv
<1>4. ASSUME NEW n \in 0 .. present, latest' = Rolling!Max({latest, n})
      PROVE  /\ n \in Nat /\ latest' = Later(latest, n) /\ latest' \in Nat
             /\ n <= latest' /\ latest' <= present
  <2>1. n \in Nat /\ n <= present
    BY <1>1
  <2>2. latest' = Later(latest, n)
    BY <1>1, <1>4, <2>1, Extremes
  <2> QED
    BY <1>1, <2>1, <2>2 DEF Later
<1>5. ASSUME NEW n \in 0 .. present, Rolling!Touch(n)
      PROVE  RollingInv'
  <2>1. /\ ring' = Rolling!Advance(ring, n) /\ latest' = Rolling!Max({latest, n})
        /\ told' = told /\ present' = present
    BY <1>5 DEF Rolling!Touch
  <2>2. /\ n \in Nat /\ latest' = Later(latest, n) /\ latest' \in Nat /\ latest' <= present
    BY <1>4, <2>1
  <2>3. /\ Placed(Rolling!Advance(ring, n), latest')
        /\ \E h : Accounts(Rolling!Advance(ring, n), latest', told, h)
    BY <1>1, <1>2, <2>2, AdvanceKeeps
  <2>4. Placed(ring', latest') /\ \E h : Accounts(ring', latest', told', h)
    BY <2>1, <2>3
  <2> QED
    BY <1>1, <2>1, <2>2, <2>4 DEF RollingInv
<1>6. ASSUME NEW n \in 0 .. present, NEW kind \in {"success", "failure"},
             Rolling!Record(n, kind)
      PROVE  RollingInv'
  <2> DEFINE v == Rolling!Advance(ring, n)
             e == [kind |-> kind, given |-> n, real |-> present]
  <2>1. /\ ring' = IF kind = "success" THEN Rolling!RecordSuccess(v) ELSE Rolling!RecordFailure(v)
        /\ latest' = Rolling!Max({latest, n}) /\ told' = Append(told, e) /\ present' = present
    BY <1>6, Zenon DEF Rolling!Record
  <2>2. /\ n \in Nat /\ latest' = Later(latest, n) /\ latest' \in Nat
        /\ n <= latest' /\ latest' <= present
    BY <1>4, <2>1
  <2>3. Placed(v, latest') /\ \E h : Accounts(v, latest', told, h)
    BY <1>1, <1>2, <2>2, AdvanceKeeps
  <2> HIDE DEF v
  <2>4. PICK h : Accounts(v, latest', told, h)
    BY <2>3, Zenon
  <2>5. /\ Placed(ring', latest') /\ told' \in Seq(Told)
        /\ \E hh : Accounts(ring', latest', told', hh)
    BY <1>1, <2>1, <2>2, <2>3, <2>4, RecordKeeps
  <2> QED
    BY <1>1, <2>1, <2>2, <2>5 DEF RollingInv
<1>7. CASE UNCHANGED Rolling!vars
  <2>1. ring' = ring /\ latest' = latest /\ told' = told /\ present' = present
    BY <1>7 DEF Rolling!vars
  <2> QED
    BY <2>1, Zenon DEF RollingInv
<1> QED
  BY <1>3, <1>5, <1>6, <1>7, Zenon DEF Rolling!Next
\* What the slots hold of a kind is counted, it is young, and nothing fresh is missing.
LEMMA HeldIsCounted ==
  ASSUME RollingInv
  PROVE  \E S, F :
           /\ S \subseteq Rolling!Recorded("success", Rolling!Young)
           /\ Rolling!Recorded("success", Rolling!Fresh) \subseteq S
           /\ F \subseteq Rolling!Recorded("failure", Rolling!Young)
           /\ Rolling!Recorded("failure", Rolling!Fresh) \subseteq F
           /\ Rolling!Successes(ring) \in Nat /\ Rolling!Failures(ring) \in Nat
           /\ Rolling!Successes(ring) <= Cardinality(S)
           /\ Rolling!Successes(ring) >= Capped(Cardinality(S))
           /\ Rolling!Failures(ring) <= Cardinality(F)
           /\ Rolling!Failures(ring) >= Capped(Cardinality(F))
<1> DEFINE Slot == Rolling!Slots
           W == BucketWidth
<1>0. W \in Nat \ {0} /\ Buckets \in Nat \ {0} /\ CountMax \in Nat
  BY BucketWidthAssumption, BucketsAssumption, CountMaxAssumption
<1>1. /\ ring \in Rolling!Window /\ latest \in Nat /\ ring.start \in Nat
      /\ ring.start <= latest /\ latest < ring.start + W /\ told \in Seq(Told)
  BY WindowParts DEF RollingInv, Placed
<1>2. PICK held : Accounts(ring, latest, told, held)
  BY Zenon DEF RollingInv
<1>3. /\ held \in [Slot -> SUBSET DOMAIN told]
      /\ \A i, j \in Slot : i # j => held[i] \cap held[j] = {}
      /\ Counted(ring, told, held) /\ Timed(ring, latest, told, held)
  BY <1>2 DEF Accounts
<1>4. IsFiniteSet(Slot) /\ IsFiniteSet(DOMAIN told)
  BY <1>1, SlotsAreFinite, OutcomesAreFinite
<1>5. \A r \in DOMAIN told : told[r].given \in Nat /\ told[r].real \in Nat
  <2>1. \A r \in DOMAIN told : told[r] \in Told
    BY <1>1
  <2> QED
    BY <2>1 DEF Told
<1>6. Rolling!Span = Buckets * W /\ Buckets * W \in Nat
  BY <1>0 DEF Rolling!Span
\* A slot holds outcomes that are no older than the window.
<1>7. ASSUME NEW i \in Slot, NEW r \in held[i]
      PROVE  r \in DOMAIN told /\ latest < told[r].real + Buckets * W
  <2>1. r \in DOMAIN told
    BY <1>3
  <2>2. ring.start <= told[r].real + Age(ring, i) * W
    BY <1>3 DEF Timed
  <2>3. Age(ring, i) \in Nat /\ Age(ring, i) + 1 <= Buckets
    BY <1>0, <1>1, WindowParts
  <2>4. (Age(ring, i) + 1) * W <= Buckets * W
    BY <1>0, <2>3
  <2>5. (Age(ring, i) + 1) * W = Age(ring, i) * W + W /\ Age(ring, i) * W \in Nat
    BY <1>0, <2>3
  <2> DEFINE start == ring.start
             real == told[r].real
             age == Age(ring, i) * W
             span == Buckets * W
  <2>6. /\ start \in Nat /\ real \in Nat /\ age \in Nat /\ span \in Nat
        /\ start <= real + age /\ age + W <= span /\ latest < start + W
    BY <1>1, <1>5, <1>6, <2>1, <2>2, <2>4, <2>5
  <2> HIDE DEF start, real, age, span
  <2>7. latest < real + span
    BY <1>0, <1>1, <2>6
  <2> QED
    BY <2>1, <2>7 DEF real, span
<1>8. ASSUME NEW kind
      PROVE  LET kept == OfKind(held, told, kind) IN
             /\ \A i \in Slot : kept[i] \subseteq DOMAIN told
             /\ \A i, j \in Slot : i # j => kept[i] \cap kept[j] = {}
             /\ All(kept, Slot) \subseteq
                  {r \in DOMAIN told : told[r].kind = kind /\ latest < told[r].real + Rolling!Span}
             /\ {r \in DOMAIN told : told[r].kind = kind
                                     /\ latest <= told[r].given + Rolling!Span - W}
                  \subseteq All(kept, Slot)
  <2> DEFINE kept == OfKind(held, told, kind)
  <2>1. \A i \in Slot : kept[i] = {r \in held[i] : told[r].kind = kind}
    BY DEF OfKind
  <2>2. \A r : r \in All(kept, Slot) <=> \E i \in Slot : r \in held[i] /\ told[r].kind = kind
    BY <2>1 DEF All
  <2> HIDE DEF kept
  <2>3. \A i \in Slot : kept[i] \subseteq DOMAIN told
    BY <1>3, <2>1
  <2>4. \A i, j \in Slot : i # j => kept[i] \cap kept[j] = {}
    BY <1>3, <2>1
  <2>5. All(kept, Slot) \subseteq
          {r \in DOMAIN told : told[r].kind = kind /\ latest < told[r].real + Rolling!Span}
    BY <1>6, <1>7, <2>2
  <2>6. ASSUME NEW r \in DOMAIN told, told[r].kind = kind,
               latest <= told[r].given + Rolling!Span - W
        PROVE  r \in All(kept, Slot)
    <3> SUFFICES ASSUME \A i \in Slot : r \notin held[i] PROVE FALSE
      BY <2>2, <2>6
    <3>1. latest + W > told[r].given + Buckets * W
      BY <1>3 DEF Timed
    <3> DEFINE given == told[r].given
               span == Buckets * W
    <3>2. given \in Nat /\ span \in Nat /\ latest + W > given + span /\ latest <= given + span - W
      BY <1>5, <1>6, <2>6, <3>1
    <3> HIDE DEF given, span
    <3> QED
      BY <1>0, <1>1, <3>2
  <2> QED
    BY <2>3, <2>4, <2>5, <2>6 DEF kept
<1>9. ASSUME NEW kind, NEW f, NEW g, Sums(g, f, Slot),
             \A i \in Slot : f[i] = Capped(Cardinality(OfKind(held, told, kind)[i]))
      PROVE  /\ g[Slot] \in Nat
             /\ g[Slot] <= Cardinality(All(OfKind(held, told, kind), Slot))
             /\ g[Slot] >= Capped(Cardinality(All(OfKind(held, told, kind), Slot)))
  <2> DEFINE kept == OfKind(held, told, kind)
  <2>1. /\ \A i \in Slot : kept[i] \subseteq DOMAIN told
        /\ \A i, j \in Slot : i # j => kept[i] \cap kept[j] = {}
        /\ \A i \in Slot : f[i] = Capped(Cardinality(kept[i]))
    BY <1>8, <1>9
  <2> HIDE DEF kept, Slot
  <2>2. /\ g[Slot] \in Nat /\ g[Slot] <= Cardinality(All(kept, Slot))
        /\ g[Slot] >= Capped(Cardinality(All(kept, Slot)))
    BY <1>4, <1>9, <2>1, SumsCount
  <2> QED
    BY <2>2 DEF kept
<1>10. /\ Rolling!Recorded("success", Rolling!Young) =
            {r \in DOMAIN told : told[r].kind = "success" /\ latest < told[r].real + Rolling!Span}
       /\ Rolling!Recorded("failure", Rolling!Young) =
            {r \in DOMAIN told : told[r].kind = "failure" /\ latest < told[r].real + Rolling!Span}
       /\ Rolling!Recorded("success", Rolling!Fresh) =
            {r \in DOMAIN told : told[r].kind = "success"
                                 /\ latest <= told[r].given + Rolling!Span - W}
       /\ Rolling!Recorded("failure", Rolling!Fresh) =
            {r \in DOMAIN told : told[r].kind = "failure"
                                 /\ latest <= told[r].given + Rolling!Span - W}
  BY DEF Rolling!Recorded, Rolling!Young, Rolling!Fresh
<1> DEFINE S == All(OfKind(held, told, "success"), Slot)
           F == All(OfKind(held, told, "failure"), Slot)
<1>11. /\ Rolling!Successes(ring) \in Nat /\ Rolling!Successes(ring) <= Cardinality(S)
       /\ Rolling!Successes(ring) >= Capped(Cardinality(S))
  <2> DEFINE f == [i \in Slot |-> ring.buckets[i].successes]
  <2>1. PICK g : Sums(g, f, Slot) /\ Rolling!Successes(ring) = g[Slot]
    BY <1>4, CountsAreSums
  <2>2. \A i \in Slot : f[i] = Capped(Cardinality(OfKind(held, told, "success")[i]))
    BY <1>3 DEF Counted
  <2> HIDE DEF f
  <2> QED
    BY <1>9, <2>1, <2>2
<1>12. /\ Rolling!Failures(ring) \in Nat /\ Rolling!Failures(ring) <= Cardinality(F)
       /\ Rolling!Failures(ring) >= Capped(Cardinality(F))
  <2> DEFINE f == [i \in Slot |-> ring.buckets[i].failures]
  <2>1. PICK g : Sums(g, f, Slot) /\ Rolling!Failures(ring) = g[Slot]
    BY <1>4, CountsAreSums
  <2>2. \A i \in Slot : f[i] = Capped(Cardinality(OfKind(held, told, "failure")[i]))
    BY <1>3 DEF Counted
  <2> HIDE DEF f
  <2> QED
    BY <1>9, <2>1, <2>2
<1>13. /\ S \subseteq Rolling!Recorded("success", Rolling!Young)
       /\ Rolling!Recorded("success", Rolling!Fresh) \subseteq S
       /\ F \subseteq Rolling!Recorded("failure", Rolling!Young)
       /\ Rolling!Recorded("failure", Rolling!Fresh) \subseteq F
  BY <1>8, <1>10, Zenon
<1> HIDE DEF S, F
<1> QED
  BY <1>11, <1>12, <1>13

\* For any number of buckets of any width, and whatever instants callers give: the
\* counts by which a breaker trips contain nothing recorded a window ago or earlier,
\* and everything of the last window less one bucket, as far as u32 counters go
\* (RollingWindow::advance, record_success, record_failure, counts).
THEOREM WindowsAreExact ==
  Rolling!Spec => [](Rolling!NothingOldCounts /\ Rolling!NothingFreshLost)
<1>1. ASSUME RollingInv PROVE Rolling!NothingOldCounts /\ Rolling!NothingFreshLost
  <2>0. CountMax \in Nat /\ told \in Seq(Told)
    BY <1>1, CountMaxAssumption DEF RollingInv
  <2>1. PICK S, F :
          /\ S \subseteq Rolling!Recorded("success", Rolling!Young)
          /\ Rolling!Recorded("success", Rolling!Fresh) \subseteq S
          /\ F \subseteq Rolling!Recorded("failure", Rolling!Young)
          /\ Rolling!Recorded("failure", Rolling!Fresh) \subseteq F
          /\ Rolling!Successes(ring) \in Nat /\ Rolling!Failures(ring) \in Nat
          /\ Rolling!Successes(ring) <= Cardinality(S)
          /\ Rolling!Successes(ring) >= Capped(Cardinality(S))
          /\ Rolling!Failures(ring) <= Cardinality(F)
          /\ Rolling!Failures(ring) >= Capped(Cardinality(F))
    BY <1>1, HeldIsCounted
  <2> DEFINE YS == Rolling!Recorded("success", Rolling!Young)
             YF == Rolling!Recorded("failure", Rolling!Young)
             FS == Rolling!Recorded("success", Rolling!Fresh)
             FF == Rolling!Recorded("failure", Rolling!Fresh)
  <2>2. IsFiniteSet(YS) /\ IsFiniteSet(YF)
    <3>1. IsFiniteSet(DOMAIN told)
      BY <2>0, OutcomesAreFinite
    <3>2. YS \subseteq DOMAIN told /\ YF \subseteq DOMAIN told
      BY DEF Rolling!Recorded
    <3> QED
      BY <3>1, <3>2, FS_Subset
  <2> HIDE DEF YS, YF, FS, FF
  <2>3. /\ IsFiniteSet(S) /\ IsFiniteSet(F) /\ IsFiniteSet(FS) /\ IsFiniteSet(FF)
        /\ Cardinality(S) <= Cardinality(YS) /\ Cardinality(F) <= Cardinality(YF)
        /\ Cardinality(FS) <= Cardinality(S) /\ Cardinality(FF) <= Cardinality(F)
    <3>1. S \subseteq YS /\ F \subseteq YF /\ FS \subseteq S /\ FF \subseteq F
      BY <2>1 DEF YS, YF, FS, FF
    <3> QED
      BY <2>2, <3>1, FS_Subset
  <2>4. /\ Cardinality(S) \in Nat /\ Cardinality(F) \in Nat /\ Cardinality(YS) \in Nat
        /\ Cardinality(YF) \in Nat /\ Cardinality(FS) \in Nat /\ Cardinality(FF) \in Nat
    BY <2>2, <2>3, FS_CardinalityType
  <2>5. /\ Rolling!Successes(ring) <= Cardinality(YS) /\ Rolling!Failures(ring) <= Cardinality(YF)
        /\ Rolling!Successes(ring) >= Capped(Cardinality(FS))
        /\ Rolling!Failures(ring) >= Capped(Cardinality(FF))
    BY <2>0, <2>1, <2>3, <2>4 DEF Capped
  <2>6. /\ Rolling!Min({CountMax, Cardinality(FS)}) = Capped(Cardinality(FS))
        /\ Rolling!Min({CountMax, Cardinality(FF)}) = Capped(Cardinality(FF))
    BY <2>0, <2>4, Extremes DEF Capped
  <2>7. Rolling!NothingOldCounts
    BY <2>5, SameCardinality DEF Rolling!NothingOldCounts, YS, YF
  <2>8. Rolling!NothingFreshLost
    BY <2>5, <2>6, SameCardinality DEF Rolling!NothingFreshLost, FS, FF
  <2> QED
    BY <2>7, <2>8
<1> QED
  BY RollingInit, RollingStep, <1>1, PTL DEF Rolling!Spec
=============================================================================
