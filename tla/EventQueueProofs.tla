--------------------------- MODULE EventQueueProofs --------------------------
(***************************************************************************)
(* Proofs, for every capacity and any number of producers, about the ring  *)
(* of EventQueue: its type invariant; the discipline of its mutex and its  *)
(* indices; that no wake-up is lost; and that, step by step, it implements *)
(* the bounded queue of EventFifo.                                         *)
(***************************************************************************)
EXTENDS EventQueue, RingLemmas, TLAPS

-----------------------------------------------------------------------------
(* Lemmas about the ring.                                                  *)

(* Where the i-th event of the queue is: in a slot of the ring. *)
LEMMA SlotInRing ==
    ASSUME TypeOK, NEW i \in 1..EvCap
    PROVE  (head + i - 1) % EvCap \in 0..EvCap-1
<1>1. head + i - 1 \in 0..2*EvCap-1
  BY QueueAssumption DEF TypeOK
<1> QED
  BY <1>1, Wrapped, QueueAssumption

(* A full ring is left as it is, and another one gets the event. *)
LEMMA StoreType ==
    ASSUME TypeOK, NEW e \in Events, StoreOrRefuse(e)
    PROVE  /\ items' \in [0..EvCap-1 -> Events]
           /\ head' \in 0..EvCap-1 /\ tail' \in 0..EvCap-1 /\ count' \in 0..EvCap
           /\ refused' \in BOOLEAN
<1>1. CASE count = EvCap
  BY <1>1 DEF StoreOrRefuse, TypeOK, ring
<1>2. CASE count # EvCap
  <2>1. (tail + 1) % EvCap \in 0..EvCap-1
    <3>1. tail + 1 \in 0..2*EvCap-1
      BY QueueAssumption DEF TypeOK
    <3> QED
      BY <3>1, Wrapped, QueueAssumption
  <2> QED
    BY <1>2, <2>1, QueueAssumption DEF StoreOrRefuse, TypeOK
<1> QED
  BY <1>1, <1>2

(* The producer's index stays count slots ahead of the consumer's. *)
LEMMA StoreIndices ==
    ASSUME TypeOK, NEW e \in Events, StoreOrRefuse(e), tail = (head + count) % EvCap
    PROVE  tail' = (head' + count') % EvCap
<1>1. CASE count = EvCap
  BY <1>1 DEF StoreOrRefuse, ring
<1>2. CASE count # EvCap
  <2>1. head \in 0..EvCap-1 /\ count \in 0..EvCap-1
    BY <1>2, QueueAssumption DEF TypeOK
  <2>2. tail' = (((head + count) % EvCap) + 1) % EvCap
    BY <1>2 DEF StoreOrRefuse
  <2> QED
    BY <1>2, <2>1, <2>2, WrapEnd, QueueAssumption DEF StoreOrRefuse
<1> QED
  BY <1>1, <1>2

(* Taking the oldest event moves both ends of the equation alike. *)
LEMMA TakeIndices ==
    ASSUME TypeOK, PopTake, tail = (head + count) % EvCap
    PROVE  /\ head' \in 0..EvCap-1 /\ count' \in 0..EvCap
           /\ tail' = (head' + count') % EvCap
<1>1. EvCap \in Nat \ {0} /\ head \in 0..EvCap-1 /\ count \in 1..EvCap
  BY QueueAssumption DEF TypeOK, PopTake
<1>2. head' \in 0..EvCap-1 /\ count' \in 0..EvCap
  BY <1>1, SlotInRing DEF PopTake
<1>3. tail' = (((head + 1) % EvCap) + (count - 1)) % EvCap
  BY <1>1, WrapStart DEF PopTake
<1> QED
  BY <1>2, <1>3 DEF PopTake

(* A signal moves the main thread only, and only out of its sleep. *)
LEMMA WokenType ==
    ASSUME TypeOK
    PROVE  /\ Woken(pc) \in [Threads -> PushPCs \cup
                               {"idle", "popLock", "pop", "sleep", "woken", "late"}]
           /\ \A t \in Threads : Woken(pc)[t] # pc[t] =>
                t = Main /\ pc[t] = "sleep" /\ Woken(pc)[t] = "woken"
           /\ Woken(pc)[Main] # "sleep"
  BY DEF TypeOK, Woken, Threads

-----------------------------------------------------------------------------
(* Types, the mutex and the indices.                                       *)

(* Every step keeps the types ... *)
LEMMA TypeStep == ASSUME TypeOK, [Next]_vars PROVE TypeOK'
<1> USE QueueAssumption DEF PushPCs, Threads
<1>1. ASSUME NEW t \in Threads, NEW e \in Events, PushCall(t, e) PROVE TypeOK'
  BY <1>1 DEF TypeOK, PushCall, Goto, ring
<1>2. ASSUME NEW t \in Threads, PushLock(t) PROVE TypeOK'
  BY <1>2 DEF TypeOK, PushLock, Lock, Goto, ring
<1>3. ASSUME NEW t \in Threads, PushStore(t) PROVE TypeOK'
  <2>1. StoreOrRefuse(arg[t]) /\ arg[t] \in Events
    BY <1>3 DEF TypeOK, PushStore
  <2>2. pc' \in [Threads -> PushPCs \cup
                  {"idle", "popLock", "pop", "sleep", "woken", "late"}]
    BY <1>3 DEF TypeOK, PushStore, Goto
  <2> QED
    BY <1>3, <2>1, <2>2, StoreType DEF TypeOK, PushStore
<1>4. ASSUME NEW t \in Threads, PushSignal(t) PROVE TypeOK'
  BY <1>4, WokenType DEF TypeOK, PushSignal, ring
<1>5. CASE PopCall \/ PopLock \/ PopSleep \/ PopTimeout \/ PopGiveUp
  BY <1>5 DEF TypeOK, PopCall, PopLock, PopSleep, PopTimeout, PopGiveUp, Lock, Goto, ring
<1>6. CASE PopTake
  <2>1. head' \in 0..EvCap-1 /\ count' \in 0..EvCap
    BY <1>6, SlotInRing DEF TypeOK, PopTake
  <2> QED
    BY <1>6, <2>1 DEF TypeOK, PopTake, Goto
<1>7. ASSUME NEW t \in Interruptible, Interrupt(t) PROVE TypeOK'
  BY <1>7 DEF TypeOK, Interrupt, ring
<1>8. CASE HandlerLock
  BY <1>8 DEF TypeOK, HandlerLock, Lock, ring
<1>9. CASE HandlerStore
  BY <1>9, StoreType DEF TypeOK, HandlerStore
<1>10. CASE HandlerSignal
  BY <1>10, WokenType DEF TypeOK, HandlerSignal, ring
<1>11. CASE UNCHANGED vars
  BY <1>11 DEF TypeOK, vars, ring
<1> QED
  BY <1>1, <1>2, <1>3, <1>4, <1>5, <1>6, <1>7, <1>8, <1>9, <1>10, <1>11
  DEF Next, Push, PopStep, HandlerStep

(* ... which hold at the start. *)
LEMMA TypeInit == Init => TypeOK
<1> SUFFICES ASSUME Init PROVE TypeOK
  OBVIOUS
<1>1. 0 \in 0..EvCap-1 /\ 0 \in 0..EvCap
  BY QueueAssumption
<1>2. items \in [0..EvCap-1 -> Events]
  BY QueueAssumption DEF Init
<1>3. /\ pc \in [Threads -> {"idle"}] /\ arg \in [Threads -> Events]
      /\ victim \in Threads
  BY QueueAssumption DEF Init, Threads
<1> QED
  BY <1>1, <1>2, <1>3 DEF Init, TypeOK

(* The ring's indices and counter stay in their ranges and every thread is *)
(* at a place of event_queue_push or event_queue_pop it can be at.         *)
THEOREM TypeCorrect == Spec => []TypeOK
  BY TypeInit, TypeStep, PTL DEF Spec

(* The ring is sound at the start ... *)
LEMMA RingInit == Init => RingInv
<1>1. (0 + 0) % EvCap = 0
  BY QueueAssumption
<1> QED
  BY <1>1 DEF Init, RingInv, Inside

(* ... and every step keeps it so. *)
LEMMA RingStep == ASSUME TypeOK, RingInv, [Next]_vars PROVE RingInv'
<1> USE QueueAssumption DEF Inside
<1>a. tail = (head + count) % EvCap
  BY DEF RingInv
<1>1. ASSUME NEW t \in Threads, NEW e \in Events, PushCall(t, e) PROVE RingInv'
  BY <1>1 DEF TypeOK, RingInv, PushCall, Goto, ring
<1>2. ASSUME NEW t \in Threads, PushLock(t) PROVE RingInv'
  BY <1>2 DEF TypeOK, RingInv, PushLock, Lock, Goto, ring
<1>3. ASSUME NEW t \in Threads, PushStore(t) PROVE RingInv'
  <2>1. tail' = (head' + count') % EvCap
    BY <1>3, <1>a, StoreIndices DEF TypeOK, PushStore
  <2>2. \A s \in Threads : pc'[s] \in Inside => owner' = s
    BY <1>3 DEF TypeOK, RingInv, PushStore, Goto
  <2>3. handler' \notin Inside
    BY <1>3 DEF TypeOK, RingInv, PushStore, Free
  <2> QED
    BY <1>3, <2>1, <2>2, <2>3 DEF RingInv
<1>4. ASSUME NEW t \in Threads, PushSignal(t) PROVE RingInv'
  <2>1. \A s \in Threads : pc'[s] \notin Inside
    BY <1>4, WokenType DEF TypeOK, RingInv, PushSignal
  <2>2. handler' \notin Inside
    BY <1>4 DEF TypeOK, RingInv, PushSignal, Free
  <2> QED
    BY <1>4, <2>1, <2>2, <1>a DEF RingInv, PushSignal, ring
<1>5. CASE PopCall \/ PopLock \/ PopTimeout \/ PopGiveUp
  BY <1>5 DEF TypeOK, RingInv, PopCall, PopLock, PopTimeout, PopGiveUp, Lock, Goto, ring, Threads
<1>6. CASE PopTake \/ PopSleep
  <2>1. tail' = (head' + count') % EvCap
    BY <1>6, <1>a, TakeIndices DEF PopSleep, ring
  <2>2. \A s \in Threads : pc'[s] \notin Inside
    BY <1>6 DEF TypeOK, RingInv, PopTake, PopSleep, Goto, Threads
  <2>3. handler' \notin Inside
    BY <1>6 DEF TypeOK, RingInv, PopTake, PopSleep, Free, Threads
  <2> QED
    BY <2>1, <2>2, <2>3 DEF RingInv
<1>7. ASSUME NEW t \in Interruptible, Interrupt(t) PROVE RingInv'
  BY <1>7 DEF RingInv, Interrupt, ring
<1>8. CASE HandlerLock
  BY <1>8 DEF TypeOK, RingInv, HandlerLock, Lock, ring
<1>9. CASE HandlerStore
  <2>1. tail' = (head' + count') % EvCap
    BY <1>9, <1>a, StoreIndices DEF HandlerStore
  <2>2. \A s \in Threads : pc'[s] \notin Inside
    BY <1>9 DEF TypeOK, RingInv, HandlerStore
  <2> QED
    BY <1>9, <2>1, <2>2 DEF RingInv, HandlerStore, TypeOK
<1>10. CASE HandlerSignal
  <2>1. \A s \in Threads : pc'[s] \notin Inside
    BY <1>10, WokenType DEF TypeOK, RingInv, HandlerSignal
  <2> QED
    BY <1>10, <2>1, <1>a DEF RingInv, HandlerSignal, ring
<1>11. CASE UNCHANGED vars
  BY <1>11 DEF RingInv, vars, ring
<1> QED
  BY <1>1, <1>2, <1>3, <1>4, <1>5, <1>6, <1>7, <1>8, <1>9, <1>10, <1>11
  DEF Next, Push, PopStep, HandlerStep

(* The producer's index is always count slots after the consumer's, and no *)
(* two of the threads and the signal handler are inside the queue at once. *)
THEOREM RingIsSound == Spec => []RingInv
  BY TypeInit, TypeStep, RingInit, RingStep, PTL DEF Spec

-----------------------------------------------------------------------------
(* No event is slept on.                                                   *)

(* The thread that signals next, or the handler, is where NoLostWakeup     *)
(* wants it.                                                               *)
LEMMA WakeupStep ==
    ASSUME TypeOK, RingInv, NoLostWakeup, [Next]_vars PROVE NoLostWakeup'
<1> USE QueueAssumption
<1>1. ASSUME NEW t \in Threads, NEW e \in Events, PushCall(t, e) PROVE NoLostWakeup'
  BY <1>1 DEF TypeOK, NoLostWakeup, PushCall, Goto, ring
<1>2. ASSUME NEW t \in Threads, PushLock(t) PROVE NoLostWakeup'
  BY <1>2 DEF TypeOK, NoLostWakeup, PushLock, Goto, ring
<1>3. ASSUME NEW t \in Threads, PushStore(t) PROVE NoLostWakeup'
  <2>1. CASE count = EvCap
    <3>1. pc'[Main] = "sleep" => \/ handler = "signal"
                                \/ \E s \in Threads : s # t /\ pc[s] = "signal"
      BY <1>3, <2>1 DEF TypeOK, NoLostWakeup, PushStore, Goto, Threads
    <3>2. owner = t /\ handler # "signal"
      BY <1>3 DEF TypeOK, RingInv, PushStore, Inside, Free
    <3>3. \A s \in Threads : pc[s] = "signal" => s = t
      BY <3>2 DEF RingInv, Inside
    <3> QED
      BY <3>1, <3>2, <3>3 DEF NoLostWakeup
  <2>2. CASE count # EvCap
    BY <1>3, <2>2 DEF TypeOK, NoLostWakeup, PushStore, Goto
  <2> QED
    BY <2>1, <2>2
<1>4. ASSUME NEW t \in Threads, PushSignal(t) PROVE NoLostWakeup'
  BY <1>4, WokenType DEF TypeOK, NoLostWakeup, PushSignal, Threads
<1>5. CASE PopCall \/ PopLock \/ PopTake \/ PopTimeout \/ PopGiveUp
  BY <1>5 DEF TypeOK, NoLostWakeup, PopCall, PopLock, PopTake, PopTimeout, PopGiveUp,
              Goto, Threads
<1>6. CASE PopSleep
  BY <1>6 DEF NoLostWakeup, PopSleep, ring
<1>7. ASSUME NEW t \in Interruptible, Interrupt(t) PROVE NoLostWakeup'
  BY <1>7 DEF NoLostWakeup, Interrupt, ring
<1>8. CASE HandlerLock
  BY <1>8 DEF NoLostWakeup, HandlerLock, ring
<1>9. CASE HandlerStore
  <2>1. \A s \in Threads : pc[s] # "signal"
    BY <1>9 DEF RingInv, HandlerStore, Inside
  <2> QED
    BY <1>9, <2>1 DEF NoLostWakeup, HandlerStore, StoreOrRefuse, ring
<1>10. CASE HandlerSignal
  BY <1>10, WokenType DEF NoLostWakeup, HandlerSignal
<1>11. CASE UNCHANGED vars
  BY <1>11 DEF NoLostWakeup, vars, ring
<1> QED
  BY <1>1, <1>2, <1>3, <1>4, <1>5, <1>6, <1>7, <1>8, <1>9, <1>10, <1>11
  DEF Next, Push, PopStep, HandlerStep

(* If the main thread is in pthread_cond_timedwait while an event is       *)
(* queued, whoever queued it is still inside event_queue_push, before its  *)
(* pthread_cond_signal.                                                    *)
THEOREM NoWakeupIsLost == Spec => []NoLostWakeup
<1>1. Init => NoLostWakeup
  BY DEF Init, NoLostWakeup, Threads
<1> QED
  BY <1>1, TypeInit, TypeStep, RingInit, RingStep, WakeupStep, PTL DEF Spec

-----------------------------------------------------------------------------
(* The ring implements the bounded queue.                                  *)

(* What is in the ring is a sequence of count events. *)
LEMMA ContentsType ==
    ASSUME TypeOK
    PROVE  Contents \in Seq(Events) /\ Len(Contents) = count
<1>1. count \in Nat /\ count <= EvCap
  BY QueueAssumption DEF TypeOK
<1>2. \A i \in 1..count : items[(head + i - 1) % EvCap] \in Events
  BY <1>1, SlotInRing, QueueAssumption DEF TypeOK
<1> QED
  BY <1>1, <1>2 DEF Contents

(* The critical section of event_queue_push is the push of EventFifo. *)
LEMMA StoreRefines ==
    ASSUME TypeOK, tail = (head + count) % EvCap, NEW e \in Events, StoreOrRefuse(e)
    PROVE  Fifo!event_queue_push(e)
<1>1. CASE count = EvCap
  <2>1. UNCHANGED Contents /\ refused' = TRUE
    BY <1>1 DEF StoreOrRefuse, Contents, ring
  <2>2. ~(Len(Contents) < EvCap)
    BY <1>1, ContentsType, QueueAssumption
  <2> QED
    BY <2>1, <2>2 DEF Fifo!event_queue_push
<1>2. CASE count # EvCap
  <2>1. /\ EvCap \in Nat /\ head \in 0..EvCap-1 /\ count \in 0..EvCap-1
        /\ items \in [0..EvCap-1 -> Events] /\ tail \in 0..EvCap-1
    BY <1>2, QueueAssumption DEF TypeOK
  <2>2. /\ items' = [items EXCEPT ![tail] = e]
        /\ head' = head /\ count' = count + 1 /\ refused' = refused
    BY <1>2 DEF StoreOrRefuse
  <2>3. \A i \in 1..count : items'[(head' + i - 1) % EvCap] = items[(head + i - 1) % EvCap]
    BY <2>1, <2>2, FreeSlot, SlotInRing
  <2>4. items'[(head' + (count + 1) - 1) % EvCap] = e
    BY <2>1, <2>2
  <2>5. Contents' = Append(Contents, e)
    <3>1. Contents' = [i \in 1..(count + 1) |-> items'[(head' + i - 1) % EvCap]]
      BY <2>2 DEF Contents
    <3>2. Contents = [i \in 1..count |-> items[(head + i - 1) % EvCap]]
      BY DEF Contents
    <3>3. Append(Contents, e) = [i \in 1..(count + 1) |->
                                   IF i = count + 1 THEN e ELSE Contents[i]]
      BY <2>1, ContentsType
    <3>4. \A i \in 1..(count + 1) :
            items'[(head' + i - 1) % EvCap] = IF i = count + 1 THEN e ELSE Contents[i]
      BY <2>1, <2>3, <2>4, <3>2
    <3> QED
      BY <3>1, <3>3, <3>4
  <2>6. Len(Contents) < EvCap
    BY <2>1, ContentsType
  <2> QED
    BY <2>2, <2>5, <2>6 DEF Fifo!event_queue_push
<1> QED
  BY <1>1, <1>2

(* The critical section of an event_queue_pop that finds an event is the   *)
(* pop of EventFifo.                                                       *)
LEMMA TakeRefines ==
    ASSUME TypeOK, PopTake
    PROVE  \E e \in Events : Fifo!event_queue_pop(e)
<1>1. /\ EvCap \in Nat /\ head \in 0..EvCap-1 /\ count \in 1..EvCap
      /\ items' = items /\ head' = (head + 1) % EvCap /\ count' = count - 1
      /\ refused' = refused
  BY QueueAssumption DEF TypeOK, PopTake
<1>2. Contents \in Seq(Events) /\ Len(Contents) = count /\ Contents # <<>>
  BY <1>1, ContentsType
<1>3. Contents' = Tail(Contents)
  <2>1. Contents' = [i \in 1..(count - 1) |-> items[(((head + 1) % EvCap) + i - 1) % EvCap]]
    BY <1>1 DEF Contents
  <2>2. Tail(Contents) = [i \in 1..(count - 1) |-> Contents[i + 1]]
    BY <1>2, TailIs
  <2>3. \A i \in 1..(count - 1) :
          Contents[i + 1] = items[(head + (i + 1) - 1) % EvCap]
    BY <1>1 DEF Contents
  <2>4. \A i \in 1..(count - 1) :
          items[(((head + 1) % EvCap) + i - 1) % EvCap] = items[(head + (i + 1) - 1) % EvCap]
    BY <1>1, NextSlot
  <2> QED
    BY <2>1, <2>2, <2>3, <2>4
<1>4. Head(Contents) \in Events
  BY <1>2
<1> QED
  BY <1>1, <1>2, <1>3, <1>4 DEF Fifo!event_queue_pop

(* Every other step leaves the queue alone. *)
LEMMA RefinementStep ==
    ASSUME TypeOK, RingInv, [Next]_vars
    PROVE  [Fifo!EvNext]_Fifo!evVars
<1>1. tail = (head + count) % EvCap
  BY DEF RingInv
<1>2. ASSUME NEW e \in Events, StoreOrRefuse(e) PROVE Fifo!EvNext
  BY <1>1, <1>2, StoreRefines DEF Fifo!EvNext
<1>3. ASSUME NEW t \in Threads, PushStore(t) PROVE Fifo!EvNext
  BY <1>2, <1>3 DEF PushStore, TypeOK
<1>4. CASE HandlerStore
  BY <1>2, <1>4, QueueAssumption DEF HandlerStore
<1>5. CASE PopTake
  BY <1>5, TakeRefines DEF Fifo!EvNext
<1>6. CASE UNCHANGED <<ring, refused>>
  BY <1>6 DEF ring, Contents, Fifo!evVars
<1>7. ASSUME NEW t \in Threads, \/ PushLock(t) \/ PushSignal(t)
                                \/ \E e \in Events : PushCall(t, e)
      PROVE  UNCHANGED <<ring, refused>>
  BY <1>7 DEF PushLock, PushSignal, PushCall
<1>8. CASE \/ PopCall \/ PopLock \/ PopSleep \/ PopTimeout \/ PopGiveUp
           \/ \E t \in Interruptible : Interrupt(t)
           \/ HandlerLock \/ HandlerSignal \/ UNCHANGED vars
  <2>1. UNCHANGED <<ring, refused>>
    BY <1>8 DEF PopCall, PopLock, PopSleep, PopTimeout, PopGiveUp, Interrupt,
                HandlerLock, HandlerSignal, vars
  <2> QED
    BY <2>1, <1>6
<1> QED
  BY <1>3, <1>4, <1>5, <1>6, <1>7, <1>8 DEF Next, Push, PopStep, HandlerStep

(* The ring behind its mutex is the bounded first-in first-out queue that  *)
(* the rest of the program takes it for: each push puts its event last or, *)
(* with all slots taken, leaves the queue alone; each pop takes the oldest.*)
THEOREM QueueIsFifo == Spec => ImplementsFifo
<1>1. Init => Fifo!EvInit
  BY DEF Init, Contents, Fifo!EvInit
<1>2. TypeOK /\ RingInv /\ [Next]_vars => [Fifo!EvNext]_Fifo!evVars
  BY RefinementStep
<1> QED
  BY <1>1, <1>2, TypeInit, TypeStep, RingInit, RingStep, PTL
  DEF Spec, ImplementsFifo, Fifo!EvSpec

=============================================================================
