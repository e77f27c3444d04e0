---------------------------- MODULE MCAppRuntime -----------------------------
(* Small instances of AppRuntime for TLC. *)
EXTENDS AppProperties
=============================================================================
