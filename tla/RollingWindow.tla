---------------------------- MODULE RollingWindow ----------------------------
(***************************************************************************)
(* The RollingWindow of fusen/src/resilience/breaker.rs as operators on a  *)
(* record: a ring of buckets, the index of the current one and the instant *)
(* at which the current one began.  Instants and durations are numbers of  *)
(* ticks.  The instant an operation is given was read before the breaker's *)
(* lock was taken, so it may lie before the window's own start.            *)
(***************************************************************************)
EXTENDS Naturals, FiniteSets, FiniteSetsExt

CONSTANTS Buckets,       \* BreakerConfig.buckets
          BucketWidth,   \* window / buckets, in ticks
          CountMax       \* where the counters of a bucket saturate: u32::MAX

ASSUME BucketsAssumption == Buckets \in Nat \ {0}
ASSUME BucketWidthAssumption == BucketWidth \in Nat \ {0}
ASSUME CountMaxAssumption == CountMax \in Nat \ {0}

Slots == 0 .. Buckets - 1

Bucket == [successes : 0 .. CountMax, failures : 0 .. CountMax]

EmptyBucket == [successes |-> 0, failures |-> 0]

Window == [buckets : [Slots -> Bucket], current : Slots, start : Nat]

NewWindow(now) == [buckets |-> [i \in Slots |-> EmptyBucket],
                   current |-> 0,
                   start   |-> now]

\* saturating_duration_since.
SaturatingSince(now, start) == IF now > start THEN now - start ELSE 0

\* How many buckets an instant lies beyond the current one.
StepsTo(w, now) == SaturatingSince(now, w.start) \div BucketWidth

\* The slots the loop of advance enters, and clears, in that many steps.
Entered(w, steps) == {(w.current + i) % Buckets : i \in 1 .. steps}

\* A ring that moves on without clearing the slots it enters.
AdvanceKeeping(w, now) ==
  LET steps == StepsTo(w, now)
  IN  [w EXCEPT !.current = (@ + steps) % Buckets,
                !.start = @ + steps * BucketWidth]

\* A ring that also clears the bucket it is in.
AdvanceForgetting(w, now) ==
  LET steps == StepsTo(w, now)
  IN  IF steps = 0 THEN w ELSE NewWindow(now)

Advance(w, now) ==
  LET steps == StepsTo(w, now)
  IN  IF steps = 0 THEN w
      ELSE IF steps >= Buckets THEN NewWindow(now)
      ELSE [buckets |-> [i \in Slots |-> IF i \in Entered(w, steps)
                                         THEN EmptyBucket ELSE w.buckets[i]],
            current |-> (w.current + steps) % Buckets,
            start   |-> w.start + steps * BucketWidth]

SaturatingInc(n) == IF n < CountMax THEN n + 1 ELSE n

RecordSuccess(w) == [w EXCEPT !.buckets[w.current].successes = SaturatingInc(@)]

RecordFailure(w) == [w EXCEPT !.buckets[w.current].failures = SaturatingInc(@)]

Successes(w) == MapThenSumSet(LAMBDA i : w.buckets[i].successes, Slots)
Failures(w)  == MapThenSumSet(LAMBDA i : w.buckets[i].failures, Slots)
Samples(w)   == Successes(w) + Failures(w)
=============================================================================
