-------------------------- MODULE AdmissionContract --------------------------
(***************************************************************************)
(* What an admission gate promises to the code that uses it, with nothing  *)
(* of how it is done: callers go in and out, never more than Limit at a    *)
(* time; once draining has begun nobody goes in any more; and the gate is  *)
(* declared quiet only when nobody is inside, after which nobody ever is.  *)
(* AdmissionGate is shown to implement this module.                        *)
(***************************************************************************)
EXTENDS Naturals, FiniteSets

CONSTANTS Callers,   \* the tasks that ask for admission
          Limit      \* how many of them may be inside at once

VARIABLES inside,    \* the callers that hold a guard
          phase      \* "open", "draining" or "quiet"

contractVars == <<inside, phase>>

Init == /\ inside = {}
        /\ phase = "open"

\* A caller is handed a guard.
GoIn(t) == /\ phase = "open"
           /\ t \notin inside
           /\ Cardinality(inside \union {t}) <= Limit
           /\ inside' = inside \union {t}
           /\ UNCHANGED phase

\* A caller drops its guard.
GoOut(t) == /\ t \in inside
            /\ inside' = inside \ {t}
            /\ UNCHANGED phase

BeginDraining == /\ phase = "open"
                 /\ phase' = "draining"
                 /\ UNCHANGED inside

\* drained() returns.
BecomeQuiet == /\ phase = "draining"
               /\ inside = {}
               /\ phase' = "quiet"
               /\ UNCHANGED inside

Next == \/ \E t \in Callers : GoIn(t) \/ GoOut(t)
        \/ BeginDraining
        \/ BecomeQuiet

Spec == Init /\ [][Next]_contractVars
=============================================================================
