--------------------------- MODULE ProviderContract ---------------------------
(***************************************************************************)
(* What a registration or subscription handle promises about the provider  *)
(* behind it: activation runs at most once and cleanup at most once, in    *)
(* that order; a handle closed before it was started never touches the     *)
(* provider; each of the two results is published once; and a close that   *)
(* reports success was either never started or really cleaned up.          *)
(***************************************************************************)
VARIABLES phase,        \* "prepared", "activating", "settled", "cleaning", "over"
          activation,   \* the shared activation result, "none" while pending
          closing       \* the shared close result, "none" while pending

contractVars == <<phase, activation, closing>>

Init == /\ phase = "prepared"
        /\ activation = "none"
        /\ closing = "none"

StartActivation == /\ phase = "prepared"
                   /\ phase' = "activating"
                   /\ UNCHANGED <<activation, closing>>

CloseUnstarted == /\ phase = "prepared"
                  /\ phase' = "over"
                  /\ activation' \in {"cancelled", "failed"}
                  /\ closing' = "ok"

Settle == /\ phase = "activating"
          /\ phase' = "settled"
          /\ activation' \in {"ok", "failed", "cancelled"}
          /\ UNCHANGED closing

StartCleanup == /\ phase = "settled"
                /\ phase' = "cleaning"
                /\ UNCHANGED <<activation, closing>>

FinishCleanup == /\ phase = "cleaning"
                 /\ phase' = "over"
                 /\ closing' \in {"ok", "failed"}
                 /\ UNCHANGED activation

\* The runtime drops the worker.
Abort == /\ phase \in {"activating", "settled", "cleaning"}
         /\ phase' = "over"
         /\ activation' = IF activation = "none" THEN "aborted" ELSE activation
         /\ closing' = "aborted"

Next == \/ StartActivation \/ CloseUnstarted \/ Settle
        \/ StartCleanup \/ FinishCleanup \/ Abort

Spec == Init /\ [][Next]_contractVars
=============================================================================
