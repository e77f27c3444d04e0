---------------------------- MODULE MCEventQueue -----------------------------
(* Small instances of EventQueue for TLC: the main thread, another producer *)
(* and the SIGINT handler.                                                  *)
EXTENDS EventQueue
=============================================================================
