------------------------- MODULE MCRegistryLifecycle -------------------------
(* Small instances of RegistryLifecycle for TLC. *)
EXTENDS RegistryLifecycle
=============================================================================
