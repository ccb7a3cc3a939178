----------------------------- MODULE MCHotConfig -----------------------------
(* Small instances of HotConfig for TLC. *)
EXTENDS HotConfig
=============================================================================
