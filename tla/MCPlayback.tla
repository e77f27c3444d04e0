------------------------------ MODULE MCPlayback -----------------------------
(* Small instances of PlaybackThread for TLC. *)
EXTENDS PlaybackThread
=============================================================================
