-------------------------- MODULE MCClientInvocation --------------------------
(* Small instances of ClientInvocation for TLC. *)
EXTENDS ClientInvocation
=============================================================================
