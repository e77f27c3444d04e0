---------------------------- MODULE MCClientThreads ---------------------------
(* Small instances of ClientThreads for TLC. *)
EXTENDS ClientTrace

(* An interrupted round, on a connection that has been opened anew. *)
Round == [k \in 1..MaxTexts |-> <<"hello", "start", "abort">>[k]]
=============================================================================
