------------------------------- MODULE MCFrames ------------------------------
(* Small instances of FrameAssembly for TLC. *)
EXTENDS FrameAssembly
=============================================================================
