--------------------------- MODULE MCRollingWindow ---------------------------
(***************************************************************************)
(* A rolling window driven as the breaker drives it, next to the list of   *)
(* everything it was told, against which its counts are checked.  A caller *)
(* may give any instant up to the present one, since it reads the clock    *)
(* before it takes the breaker's lock.                                     *)
(***************************************************************************)
EXTENDS RollingWindow, Sequences, TLC

CONSTANTS MaxClock,    \* bound on the clock
          MaxRecords   \* bound on the number of outcomes recorded

VARIABLES window,   \* the RollingWindow
          clock,    \* the present instant
          latest,   \* the latest instant the window was advanced to
          log       \* the outcomes recorded: kind, instant given, real instant

vars == <<window, clock, latest, log>>

Init == window = NewWindow(0) /\ clock = 0 /\ latest = 0 /\ log = <<>>

Tick == /\ clock < MaxClock
        /\ clock' = clock + 1
        /\ UNCHANGED <<window, latest, log>>

\* try_acquire on a closed breaker.
Touch(n) == /\ window' = Advance(window, n)
            /\ latest' = Max({latest, n})
            /\ UNCHANGED <<clock, log>>

\* complete_closed with an outcome that is recorded.
Record(n, kind) ==
  /\ Len(log) < MaxRecords
  /\ window' = IF kind = "success" THEN RecordSuccess(Advance(window, n))
                                   ELSE RecordFailure(Advance(window, n))
  /\ latest' = Max({latest, n})
  /\ log' = Append(log, [kind |-> kind, given |-> n, real |-> clock])
  /\ UNCHANGED clock

Next == \/ Tick
        \/ \E n \in 0 .. clock : \/ Touch(n)
                                 \/ \E kind \in {"success", "failure"} : Record(n, kind)

Spec == Init /\ [][Next]_vars

\* The outcomes of a kind that satisfy a test.
Recorded(kind, Test(_)) == {i \in DOMAIN log : log[i].kind = kind /\ Test(log[i])}

Span == Buckets * BucketWidth

Young(r) == latest < r.real + Span
Fresh(r) == latest <= r.given + Span - BucketWidth

\* The window forgets: what counts() returns are outcomes recorded less than
\* a window ago, so that a breaker is never tripped by failures older than
\* its window, whichever instants, old ones included, its callers pass.
NothingOldCounts ==
  /\ Successes(window) <= Cardinality(Recorded("success", Young))
  /\ Failures(window) <= Cardinality(Recorded("failure", Young))

\* The window remembers: an outcome is counted, up to the saturation of a
\* bucket, for at least a window less one bucket after the instant its caller
\* gave, so that advance never clears a bucket that is still needed.
NothingFreshLost ==
  /\ Successes(window) >= Min({CountMax, Cardinality(Recorded("success", Fresh))})
  /\ Failures(window) >= Min({CountMax, Cardinality(Recorded("failure", Fresh))})
=============================================================================
