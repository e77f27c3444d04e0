------------------------------ MODULE EventFifo ------------------------------
(***************************************************************************)
(* What src/event_queue.c promises its callers: a bounded first-in         *)
(* first-out queue whose push refuses, without a trace in the queue, when  *)
(* the queue is full.  No caller in the program looks at the refusal       *)
(* (app.c casts it to void), so an event can disappear: refused is a       *)
(* history variable that remembers that one has.                           *)
(* EventQueue refines this module; AppRuntime is built on it.              *)
(***************************************************************************)
EXTENDS Naturals, Sequences

CONSTANTS EvCap,        \* capacity given to event_queue_init (64 in app.c)
          Events        \* the events that may be pushed

ASSUME EvCapAssumption == EvCap \in Nat \ {0}

VARIABLES evq,          \* the queued events, oldest first
          refused       \* history: some push found the queue full

evVars == <<evq, refused>>

EvTypeOK == /\ evq \in Seq(Events)
            /\ Len(evq) \in 0..EvCap
            /\ refused \in BOOLEAN

EvInit == evq = <<>> /\ refused = FALSE

(* Mutant: no check for a full queue. *)
event_queue_push_NoCheck(e) == evq' = Append(evq, e) /\ UNCHANGED refused

event_queue_push(e) ==
    IF Len(evq) < EvCap
    THEN evq' = Append(evq, e) /\ UNCHANGED refused
    ELSE refused' = TRUE /\ UNCHANGED evq

event_queue_pop(e) ==
    /\ evq # <<>>
    /\ e = Head(evq)
    /\ evq' = Tail(evq)
    /\ UNCHANGED refused

(***************************************************************************)
(* The queue on its own: any event may be pushed, the oldest may be popped.*)
(***************************************************************************)
EvNext == \E e \in Events : event_queue_push(e) \/ event_queue_pop(e)

EvSpec == EvInit /\ [][EvNext]_evVars
=============================================================================
