--------------------------- MODULE BreakerContract ---------------------------
(***************************************************************************)
(* What a circuit breaker promises, without epochs, clocks or windows.     *)
(* The live callers are those whose outcome still counts.  Every change of *)
(* phase disowns all of them at once; an outcome of a caller that is not   *)
(* live changes nothing.  A half-open breaker has at most Probes live      *)
(* callers, closes on the Needed-th success among them and opens again, for*)
(* twice as long, on the first failure.                                    *)
(***************************************************************************)
EXTENDS Naturals, FiniteSets

CONSTANTS Callers,
          Probes,    \* half-open callers at a time
          Needed,    \* successes that close the breaker
          Shortest,  \* how long the breaker opens at first
          Longest    \* the most it opens for

VARIABLES phase,     \* "Closed", "Open" or "HalfOpen"
          live,      \* the callers whose outcome counts
          good,      \* successes since the breaker became half-open
          openFor    \* how long it was opened for; 0: it is closed

contractVars == <<phase, live, good, openFor>>

Init == phase = "Closed" /\ live = {} /\ good = 0 /\ openFor = 0

Admit(t) == /\ phase = "Closed"
            /\ live' = live \union {t}
            /\ UNCHANGED <<phase, good, openFor>>

FirstProbe(t) == /\ phase = "Open"
                 /\ phase' = "HalfOpen"
                 /\ live' = {t}
                 /\ good' = 0
                 /\ UNCHANGED openFor

AnotherProbe(t) == /\ phase = "HalfOpen"
                   /\ Cardinality(live) < Probes
                   /\ live' = live \union {t}
                   /\ UNCHANGED <<phase, good, openFor>>

\* A live caller is done and the breaker stays in its phase.
Leave(t) == /\ t \in live
            /\ live' = live \ {t}
            /\ UNCHANGED <<phase, good, openFor>>

\* A live caller of a closed breaker fails, one time too many.
Trip(t) == /\ phase = "Closed"
           /\ t \in live
           /\ phase' = "Open"
           /\ live' = {}
           /\ openFor' = Shortest
           /\ UNCHANGED good

ProbeSucceeds(t) == /\ phase = "HalfOpen"
                    /\ t \in live
                    /\ good + 1 < Needed
                    /\ good' = good + 1
                    /\ live' = live \ {t}
                    /\ UNCHANGED <<phase, openFor>>

LastProbeSucceeds(t) == /\ phase = "HalfOpen"
                        /\ t \in live
                        /\ good + 1 = Needed
                        /\ phase' = "Closed"
                        /\ live' = {}
                        /\ good' = 0
                        /\ openFor' = 0

ProbeFails(t) == /\ phase = "HalfOpen"
                 /\ t \in live
                 /\ phase' = "Open"
                 /\ live' = {}
                 /\ good' = 0
                 /\ openFor' = IF 2 * openFor < Longest THEN 2 * openFor ELSE Longest

Next == \E t \in Callers :
          \/ Admit(t) \/ FirstProbe(t) \/ AnotherProbe(t) \/ Leave(t)
          \/ Trip(t) \/ ProbeSucceeds(t) \/ LastProbeSucceeds(t) \/ ProbeFails(t)

Spec == Init /\ [][Next]_contractVars
=============================================================================
