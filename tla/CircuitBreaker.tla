---------------------------- MODULE CircuitBreaker ----------------------------
(***************************************************************************)
(* The CircuitBreaker of fusen/src/resilience/breaker.rs.                  *)
(*                                                                         *)
(* try_acquire and complete each read the clock and then take the lock of  *)
(* the breaker.  These are two steps here, so a caller may be overtaken by *)
(* any number of others, and by the clock, between the two.  What happens  *)
(* under the lock is one step.  The transition observer is called after the*)
(* lock is released; it only feeds metrics and is left out.                *)
(*                                                                         *)
(* The fields of the three variants of MachineState are variables; those   *)
(* that a variant lacks have a fixed value, except that until is kept, as  *)
(* history, while the breaker is not open.  The epoch is a u64 that no run *)
(* of the program wraps.                                                   *)
(***************************************************************************)
EXTENDS RollingWindow

CONSTANTS Callers,              \* holders of the breaker; each has a permit at most
          MinimumSamples,
          RatioNum, RatioDen,   \* failure_ratio, as a fraction
          OpenDuration,
          MaxOpenDuration,      \* already capped by HARD_MAX_OPEN_DURATION
          HalfOpenConcurrency,
          CloseSuccesses,
          MaxClock              \* bound on the clock

ASSUME BreakerCallersAssumption == IsFiniteSet(Callers)
ASSUME ThresholdAssumption ==
  MinimumSamples \in Nat \ {0} /\ RatioNum \in Nat /\ RatioDen \in Nat \ {0}
ASSUME OpenDurationAssumption ==
  OpenDuration \in Nat \ {0} /\ MaxOpenDuration \in Nat \ {0}
ASSUME HalfOpenAssumption ==
  HalfOpenConcurrency \in Nat \ {0} /\ CloseSuccesses \in Nat \ {0}
ASSUME MaxClockAssumption == MaxClock \in Nat

VARIABLES
  epoch,      \* BreakerInner.epoch
  phase,      \* the variant of MachineState
  window,     \* Closed: its RollingWindow
  until,      \* Open: when it may be probed; otherwise the last such instant
  duration,   \* Open: duration; HalfOpen: previous_open_duration
  inFlight,   \* HalfOpen: in_flight
  successes,  \* HalfOpen: consecutive_successes
  clock,      \* what Instant::now() returns
  pc,         \* where each caller is
  now,        \* the instant each caller has read
  permit      \* the PermitToken each caller holds

machine == <<epoch, phase, window, until, duration, inFlight, successes>>
vars == <<epoch, phase, window, until, duration, inFlight, successes,
          clock, pc, now, permit>>

Phases == {"Closed", "Open", "HalfOpen"}

CallerPcs ==
  {"idle",      \* holds no permit
   "acquire",   \* in try_acquire, has read the clock
   "held",      \* holds a permit
   "complete"}  \* in complete, has read the clock

NoToken == [epoch |-> 0, phase |-> "Closed"]

Holding(t) == pc[t] \in {"held", "complete"}

\* The callers whose permit is of the breaker's current epoch.
Live == {t \in Callers : Holding(t) /\ permit[t].epoch = epoch}

FailureClasses ==
  {"Connect", "Transport", "Timeout", "Unavailable", "RemoteServer",
   "RemoteFailure", "Protocol", "Application", "Overloaded",
   "InvalidRequest", "Cancelled", "LocalRejection"}

Outcomes == FailureClasses \union {"Success", "Abandoned", "Unattempted"}

\* breaker_impact, and what complete makes of the other outcomes.
Impact(outcome) ==
  CASE outcome \in {"Success", "Application"} -> "Success"
    [] outcome \in {"Connect", "Transport", "Timeout", "Unavailable",
                    "RemoteServer", "RemoteFailure", "Protocol"} -> "Failure"
    [] OTHER -> "Ignore"

Init ==
  /\ epoch = 0
  /\ phase = "Closed"
  /\ window = NewWindow(0)
  /\ until = 0
  /\ duration = 0
  /\ inFlight = 0
  /\ successes = 0
  /\ clock = 0
  /\ pc = [t \in Callers |-> "idle"]
  /\ now = [t \in Callers |-> 0]
  /\ permit = [t \in Callers |-> NoToken]

Tick ==
  /\ clock < MaxClock
  /\ clock' = clock + 1
  /\ UNCHANGED <<machine, pc, now, permit>>

-----------------------------------------------------------------------------
(***************************************************************************)
(* try_acquire                                                             *)
(***************************************************************************)

StartAcquire(t) ==
  /\ pc[t] = "idle"
  /\ pc' = [pc EXCEPT ![t] = "acquire"]
  /\ now' = [now EXCEPT ![t] = clock]
  /\ UNCHANGED <<machine, clock, permit>>

\* A permit of the given epoch and phase is returned.
Grant(t, e, p) ==
  /\ pc' = [pc EXCEPT ![t] = "held"]
  /\ now' = [now EXCEPT ![t] = 0]
  /\ permit' = [permit EXCEPT ![t] = [epoch |-> e, phase |-> p]]
  /\ UNCHANGED clock

Reject(t) ==
  /\ pc' = [pc EXCEPT ![t] = "idle"]
  /\ now' = [now EXCEPT ![t] = 0]
  /\ UNCHANGED <<machine, clock, permit>>

AcquireClosed(t) ==
  /\ pc[t] = "acquire"
  /\ phase = "Closed"
  /\ window' = Advance(window, now[t])
  /\ Grant(t, epoch, "Closed")
  /\ UNCHANGED <<epoch, phase, until, duration, inFlight, successes>>

RejectOpen(t) ==
  /\ pc[t] = "acquire"
  /\ phase = "Open"
  /\ now[t] < until
  /\ Reject(t)

\* An expired open breaker becomes half-open with an empty count, and the
\* loop of try_acquire then takes the first probe.
AcquireFirstProbe(t) ==
  /\ pc[t] = "acquire"
  /\ phase = "Open"
  /\ now[t] >= until
  /\ epoch' = epoch + 1
  /\ phase' = "HalfOpen"
  /\ inFlight' = 1
  /\ successes' = 0
  /\ Grant(t, epoch + 1, "HalfOpen")
  /\ UNCHANGED <<window, until, duration>>

\* A limit compared with the wrong operator.
SaturatedOffByOne == inFlight > HalfOpenConcurrency

Saturated == inFlight >= HalfOpenConcurrency

AcquireProbe(t) ==
  /\ pc[t] = "acquire"
  /\ phase = "HalfOpen"
  /\ ~Saturated
  /\ inFlight' = inFlight + 1
  /\ Grant(t, epoch, "HalfOpen")
  /\ UNCHANGED <<epoch, phase, window, until, duration, successes>>

RejectSaturated(t) ==
  /\ pc[t] = "acquire"
  /\ phase = "HalfOpen"
  /\ Saturated
  /\ Reject(t)

-----------------------------------------------------------------------------
(***************************************************************************)
(* complete: by succeed, fail, release_unattempted or the permit's Drop.   *)
(***************************************************************************)

StartComplete(t) ==
  /\ pc[t] = "held"
  /\ pc' = [pc EXCEPT ![t] = "complete"]
  /\ now' = [now EXCEPT ![t] = clock]
  /\ UNCHANGED <<machine, clock, permit>>

Done(t) ==
  /\ pc' = [pc EXCEPT ![t] = "idle"]
  /\ now' = [now EXCEPT ![t] = 0]
  /\ permit' = [permit EXCEPT ![t] = NoToken]
  /\ UNCHANGED clock

\* A breaker without epochs, that knows a permit by its phase alone.
CountsByPhase(t) == permit[t].phase = phase

\* The early returns of complete, complete_closed and complete_half_open.
Counts(t) == permit[t].epoch = epoch /\ permit[t].phase = phase

CompleteStale(t) ==
  /\ pc[t] = "complete"
  /\ ~Counts(t)
  /\ Done(t)
  /\ UNCHANGED machine

MinOf(a, b) == IF a < b THEN a ELSE b

InitialOpenDuration == MinOf(OpenDuration, MaxOpenDuration)

NextOpenDuration(previous) == MinOf(2 * previous, MaxOpenDuration)

ThresholdExceeded(w) ==
  /\ Samples(w) >= MinimumSamples
  /\ Failures(w) * RatioDen >= RatioNum * Samples(w)

\* The next epoch, open from the caller's instant for the given duration.
OpenFrom(t, d) ==
  /\ epoch' = epoch + 1
  /\ phase' = "Open"
  /\ until' = now[t] + d
  /\ duration' = d
  /\ window' = NewWindow(0)
  /\ inFlight' = 0
  /\ successes' = 0

\* The window as complete_closed leaves it.
Recorded(w, impact) ==
  CASE impact = "Success" -> RecordSuccess(w)
    [] impact = "Failure" -> RecordFailure(w)
    [] OTHER -> w

CompleteClosed(t, outcome) ==
  LET w == Recorded(Advance(window, now[t]), Impact(outcome))
  IN  /\ pc[t] = "complete"
      /\ Counts(t)
      /\ phase = "Closed"
      /\ IF Impact(outcome) = "Failure" /\ ThresholdExceeded(w)
         THEN OpenFrom(t, InitialOpenDuration)
         ELSE /\ window' = w
              /\ UNCHANGED <<epoch, phase, until, duration, inFlight, successes>>
      /\ Done(t)

\* A probe that ends without evidence, and frees its slot.
ReleaseProbe == /\ inFlight' = IF inFlight = 0 THEN 0 ELSE inFlight - 1
                /\ UNCHANGED <<epoch, phase, window, until, duration, successes>>

ProbeSuccess(t) ==
  IF successes + 1 >= CloseSuccesses
  THEN /\ epoch' = epoch + 1
       /\ phase' = "Closed"
       /\ window' = NewWindow(now[t])
       /\ duration' = 0
       /\ inFlight' = 0
       /\ successes' = 0
       /\ UNCHANGED until
  ELSE /\ inFlight' = IF inFlight = 0 THEN 0 ELSE inFlight - 1
       /\ successes' = successes + 1
       /\ UNCHANGED <<epoch, phase, window, until, duration>>

\* A breaker that frees a probe's slot only when the probe brings evidence.
CompleteHalfOpenLeaking(t, outcome) ==
  /\ pc[t] = "complete"
  /\ Counts(t)
  /\ phase = "HalfOpen"
  /\ CASE Impact(outcome) = "Success" -> ProbeSuccess(t)
       [] Impact(outcome) = "Failure" -> OpenFrom(t, NextOpenDuration(duration))
       [] OTHER -> UNCHANGED machine
  /\ Done(t)

CompleteHalfOpen(t, outcome) ==
  /\ pc[t] = "complete"
  /\ Counts(t)
  /\ phase = "HalfOpen"
  /\ CASE Impact(outcome) = "Success" -> ProbeSuccess(t)
       [] Impact(outcome) = "Failure" -> OpenFrom(t, NextOpenDuration(duration))
       [] OTHER -> ReleaseProbe
  /\ Done(t)

-----------------------------------------------------------------------------
TryAcquire(t) ==
  \/ AcquireClosed(t)
  \/ RejectOpen(t)
  \/ AcquireFirstProbe(t)
  \/ AcquireProbe(t)
  \/ RejectSaturated(t)

Complete(t) ==
  \/ CompleteStale(t)
  \/ \E outcome \in Outcomes : \/ CompleteClosed(t, outcome)
                               \/ CompleteHalfOpen(t, outcome)

CallerStep(t) == StartAcquire(t) \/ TryAcquire(t) \/ StartComplete(t) \/ Complete(t)

Next == Tick \/ \E t \in Callers : CallerStep(t)

Spec == Init /\ [][Next]_vars

\* Every permit is completed: an invocation ends by its deadline at the
\* latest, and a permit that nobody finished is finished by its Drop.  A
\* thread that waits for the breaker's lock obtains it.
Fairness == \A t \in Callers : WF_vars(StartComplete(t)) /\ WF_vars(Complete(t))

FairSpec == Spec /\ Fairness

-----------------------------------------------------------------------------
(***************************************************************************)
(* Properties                                                              *)
(***************************************************************************)

\* The variables have their types; a back-off never exceeds its ceiling
\* (next_open_duration), nor a caller's instant the clock.
TypeOK ==
  /\ epoch \in Nat
  /\ phase \in Phases
  /\ window \in Window
  /\ until \in Nat
  /\ duration \in 0 .. MaxOpenDuration
  /\ inFlight \in 0 .. HalfOpenConcurrency
  /\ successes \in 0 .. CloseSuccesses - 1
  /\ clock \in 0 .. MaxClock
  /\ pc \in [Callers -> CallerPcs]
  /\ now \in [Callers -> 0 .. clock]
  /\ permit \in [Callers -> [epoch : 0 .. epoch, phase : {"Closed", "HalfOpen"}]]

\* in_flight of a half-open breaker is the number of probes really out, so
\* that no slot leaks and none is given twice however late, abandoned or
\* overtaken by a change of epoch a permit is; and a permit of the current
\* epoch was issued in the current phase, so that the saturating_sub and the
\* early returns on a phase that does not match never hide anything.
ProbesAccounted ==
  /\ phase = "HalfOpen" => inFlight = Cardinality(Live)
  /\ \A t \in Live : permit[t].phase = phase

\* Open periods do not overlap: each begins, at the instant its caller read,
\* no earlier than the previous one ended, although that instant is read
\* before the lock and may be old when complete uses it.
OpenPeriodsDisjoint ==
  [][epoch' # epoch /\ phase' = "Open" => until' - duration' >= until]_vars

\* The breaker implements its contract: permits of an earlier epoch change
\* nothing, and the current ones drive the phase as the contract says.
Contract == INSTANCE BreakerContract WITH
              Callers  <- Callers,
              Probes   <- HalfOpenConcurrency,
              Needed   <- CloseSuccesses,
              Shortest <- InitialOpenDuration,
              Longest  <- MaxOpenDuration,
              phase    <- phase,
              live     <- Live,
              good     <- successes,
              openFor  <- duration
ImplementsContract == Contract!Spec

\* A half-open breaker that refuses probes because all of them are out
\* takes one again: every slot comes back, also from abandoned attempts.
SaturationEnds ==
  (phase = "HalfOpen" /\ Saturated) ~> ~(phase = "HalfOpen" /\ Saturated)

\* The phases of the breaker are kept apart although callers bring old instants and
\* old permits: a half-open one has exactly the probes out that it counts, and open
\* periods do not overlap.
PhasesSound == []ProbesAccounted /\ OpenPeriodsDisjoint
=============================================================================
