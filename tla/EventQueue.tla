------------------------------ MODULE EventQueue -----------------------------
(***************************************************************************)
(* src/event_queue.c in detail: a ring of EvCap slots behind a mutex and a *)
(* condition variable, pushed to by every thread and popped by the main    *)
(* thread with a timeout, and the SIGINT handler of src/main.c, which      *)
(* pushes from on top of whatever thread it interrupts.                    *)
(* Shown to implement EventFifo.                                           *)
(***************************************************************************)
EXTENDS Naturals, Sequences

CONSTANTS EvCap,        \* queue->capacity
          Events,       \* the events the threads push
          Producers,    \* the threads other than the main thread
          Main,         \* the main thread
          Shutdown,     \* the event the SIGINT handler pushes
          Interruptible \* the threads SIGINT may be delivered to

Threads == Producers \cup {Main}
Nobody == "nobody"                      \* not a thread

ASSUME QueueAssumption ==
    /\ EvCap \in Nat \ {0}
    /\ Main \notin Producers
    /\ Nobody \notin Threads
    /\ Shutdown \in Events
    /\ Interruptible \subseteq Threads

VARIABLES items, head, tail, count,     \* the ring
          owner,        \* who holds queue->mutex
          pc,           \* where each thread is
          arg,          \* the event each thread pushes
          handler,      \* where the SIGINT handler is
          victim,       \* the thread it runs on
          refused       \* history: some push found the queue full

ring == <<items, head, tail, count>>
vars == <<ring, owner, pc, arg, handler, victim, refused>>

PushPCs == {"lock", "push", "signal"}   \* event_queue_push
Inside == {"push", "signal", "pop"}     \* between lock and unlock

TypeOK ==
    /\ items \in [0..EvCap-1 -> Events]
    /\ head \in 0..EvCap-1 /\ tail \in 0..EvCap-1 /\ count \in 0..EvCap
    /\ owner \in Threads \cup {Nobody}
    /\ pc \in [Threads -> PushPCs \cup
                 { "idle",      \* outside the queue
                   "popLock",   \* event_queue_pop, waiting for the mutex
                   "pop",       \* holds the mutex
                   "sleep",     \* in pthread_cond_timedwait
                   "woken",     \* signalled, waiting for the mutex
                   "late" }]    \* timed out, waiting for the mutex
    /\ arg \in [Threads -> Events]
    /\ handler \in PushPCs \cup {"none", "done"}
    /\ victim \in Threads
    /\ refused \in BOOLEAN

Init ==
    /\ items \in [0..EvCap-1 -> {Shutdown}]     \* calloc: nobody reads it
    /\ head = 0 /\ tail = 0 /\ count = 0
    /\ owner = Nobody
    /\ pc = [t \in Threads |-> "idle"]
    /\ arg = [t \in Threads |-> Shutdown]
    /\ handler = "none" /\ victim = Main
    /\ refused = FALSE

(* A thread the handler sits on does not move. *)
Free(t) == handler \in {"none", "done"} \/ victim # t

Goto(t, l) == pc' = [pc EXCEPT ![t] = l]

-----------------------------------------------------------------------------
(* The body of event_queue_push, shared by the threads and the handler.    *)

Lock(t) == owner = Nobody /\ owner' = t

(* Mutant: no check for a full ring. *)
StoreOrRefuse_NoCheck(e) ==
    /\ items' = [items EXCEPT ![tail] = e]
    /\ tail' = (tail + 1) % EvCap
    /\ count' = count + 1
    /\ UNCHANGED <<head, refused>>

(* Mutant: a full ring drops its oldest event, as src/msg_queue.c does. *)
StoreOrRefuse_DropOldest(e) ==
    /\ items' = [items EXCEPT ![tail] = e]
    /\ tail' = (tail + 1) % EvCap
    /\ IF count = EvCap
       THEN head' = (head + 1) % EvCap /\ UNCHANGED count
       ELSE count' = count + 1 /\ UNCHANGED head
    /\ UNCHANGED refused

(* Holding the mutex: refuse if full, else store the event.                *)
StoreOrRefuse(e) ==
    IF count = EvCap
    THEN refused' = TRUE /\ UNCHANGED ring
    ELSE /\ items' = [items EXCEPT ![tail] = e]
         /\ tail' = (tail + 1) % EvCap
         /\ count' = count + 1
         /\ UNCHANGED <<head, refused>>

(* pthread_cond_signal: the only thread that waits is the main thread.     *)
Woken(p) == IF p[Main] = "sleep" THEN [p EXCEPT ![Main] = "woken"] ELSE p

PushCall(t, e) ==
    /\ pc[t] = "idle" /\ Free(t)
    /\ Goto(t, "lock")
    /\ arg' = [arg EXCEPT ![t] = e]
    /\ UNCHANGED <<ring, owner, handler, victim, refused>>

PushLock(t) ==
    /\ pc[t] = "lock" /\ Free(t)
    /\ Lock(t)
    /\ Goto(t, "push")
    /\ UNCHANGED <<ring, arg, handler, victim, refused>>

PushStore(t) ==
    /\ pc[t] = "push" /\ Free(t)
    /\ StoreOrRefuse(arg[t])
    /\ IF count = EvCap
       THEN Goto(t, "idle") /\ owner' = Nobody
       ELSE Goto(t, "signal") /\ UNCHANGED owner
    /\ UNCHANGED <<arg, handler, victim>>

(* Mutant: the push does not signal. *)
PushSignal_Silent(t) ==
    /\ pc[t] = "signal" /\ Free(t)
    /\ Goto(t, "idle")
    /\ owner' = Nobody
    /\ UNCHANGED <<ring, arg, handler, victim, refused>>

PushSignal(t) ==
    /\ pc[t] = "signal" /\ Free(t)
    /\ pc' = [Woken(pc) EXCEPT ![t] = "idle"]
    /\ owner' = Nobody
    /\ UNCHANGED <<ring, arg, handler, victim, refused>>

-----------------------------------------------------------------------------
(* event_queue_pop with a timeout, called by the main thread.              *)

PopCall ==
    /\ pc[Main] = "idle" /\ Free(Main)
    /\ Goto(Main, "popLock")
    /\ UNCHANGED <<ring, owner, arg, handler, victim, refused>>

(* Entering the critical section, for the first time or after a wake-up.   *)
PopLock ==
    /\ pc[Main] \in {"popLock", "woken"} /\ Free(Main)
    /\ Lock(Main)
    /\ Goto(Main, "pop")
    /\ UNCHANGED <<ring, arg, handler, victim, refused>>

(* Mutant: the pop leaves queue->count alone. *)
PopTake_KeepsCount ==
    /\ pc[Main] = "pop" /\ Free(Main)
    /\ count > 0
    /\ head' = (head + 1) % EvCap
    /\ owner' = Nobody
    /\ Goto(Main, "idle")
    /\ UNCHANGED <<items, tail, count, arg, handler, victim, refused>>

(* Mutant: the last event is taken for none. *)
PopTake_OffByOne ==
    /\ pc[Main] = "pop" /\ Free(Main)
    /\ count > 1
    /\ head' = (head + 1) % EvCap
    /\ count' = count - 1
    /\ owner' = Nobody
    /\ Goto(Main, "idle")
    /\ UNCHANGED <<items, tail, arg, handler, victim, refused>>

PopTake ==
    /\ pc[Main] = "pop" /\ Free(Main)
    /\ count > 0
    /\ head' = (head + 1) % EvCap
    /\ count' = count - 1
    /\ owner' = Nobody
    /\ Goto(Main, "idle")
    /\ UNCHANGED <<items, tail, arg, handler, victim, refused>>

(* Nothing there: release the mutex and wait, in one step.                 *)
PopSleep ==
    /\ pc[Main] = "pop" /\ Free(Main)
    /\ count = 0
    /\ owner' = Nobody
    /\ Goto(Main, "sleep")
    /\ UNCHANGED <<ring, arg, handler, victim, refused>>

PopTimeout ==
    /\ pc[Main] = "sleep" /\ Free(Main)
    /\ Goto(Main, "late")
    /\ UNCHANGED <<ring, owner, arg, handler, victim, refused>>

(* ETIMEDOUT: the mutex is taken back and released; pop returns 0 even if  *)
(* an event has come meanwhile.                                            *)
PopGiveUp ==
    /\ pc[Main] = "late" /\ Free(Main)
    /\ owner = Nobody
    /\ Goto(Main, "idle")
    /\ UNCHANGED <<ring, owner, arg, handler, victim, refused>>

-----------------------------------------------------------------------------
(* sigint_handler -> app_request_stop -> app_push_event, on thread victim. *)
(* The mutex is not recursive: a victim that holds it never gets it again. *)

Interrupt(t) ==
    /\ handler = "none"
    /\ handler' = "lock"
    /\ victim' = t
    /\ UNCHANGED <<ring, owner, pc, arg, refused>>

HandlerLock ==
    /\ handler = "lock"
    /\ Lock(victim)
    /\ handler' = "push"
    /\ UNCHANGED <<ring, pc, arg, victim, refused>>

HandlerStore ==
    /\ handler = "push"
    /\ StoreOrRefuse(Shutdown)
    /\ IF count = EvCap
       THEN handler' = "done" /\ owner' = Nobody
       ELSE handler' = "signal" /\ UNCHANGED owner
    /\ UNCHANGED <<pc, arg, victim>>

HandlerSignal ==
    /\ handler = "signal"
    /\ pc' = Woken(pc)
    /\ handler' = "done"
    /\ owner' = Nobody
    /\ UNCHANGED <<ring, arg, victim, refused>>

-----------------------------------------------------------------------------
Push(t) == PushLock(t) \/ PushStore(t) \/ PushSignal(t)
PopStep == PopCall \/ PopLock \/ PopTake \/ PopSleep \/ PopTimeout \/ PopGiveUp
HandlerStep == HandlerLock \/ HandlerStore \/ HandlerSignal

Next == \/ \E t \in Threads : Push(t) \/ \E e \in Events : PushCall(t, e)
        \/ PopStep
        \/ \E t \in Interruptible : Interrupt(t)
        \/ HandlerStep

Spec == Init /\ [][Next]_vars

(* Threads run, an unlocked mutex is granted in the end, and the main loop *)
(* calls pop again however often its handlers push.                        *)
Fairness == /\ \A t \in Threads : WF_vars(Push(t)) /\ SF_vars(PushLock(t))
            /\ WF_vars(PopStep) /\ SF_vars(PopCall)
            /\ SF_vars(PopLock) /\ SF_vars(PopGiveUp)
            /\ WF_vars(HandlerStep) /\ SF_vars(HandlerLock)

FairSpec == Spec /\ Fairness

-----------------------------------------------------------------------------
(* The queue the ring stands for. *)
Contents == [i \in 1..count |-> items[(head + i - 1) % EvCap]]

Fifo == INSTANCE EventFifo WITH evq <- Contents

(***************************************************************************)
(* The ring behind the mutex behaves as the bounded queue of EventFifo,    *)
(* whatever the threads and the signal handler do: events come out in the  *)
(* order they went in, none twice, none but the refused ones missing.      *)
(***************************************************************************)
ImplementsFifo == Fifo!EvSpec

(***************************************************************************)
(* The ring's indices agree, and one thread at most is between its lock    *)
(* and its unlock, the holder of the mutex; a handler that is there is on  *)
(* top of the holder, which was not there itself when it was interrupted.  *)
(***************************************************************************)
RingInv ==
    /\ tail = (head + count) % EvCap
    /\ \A t \in Threads : pc[t] \in Inside => owner = t
    /\ handler \in Inside => owner = victim /\ pc[victim] \notin Inside

(***************************************************************************)
(* The main thread never sleeps on an event: if one is queued while it is  *)
(* in pthread_cond_timedwait, the thread that queued it is about to signal.*)
(***************************************************************************)
NoLostWakeup ==
    pc[Main] = "sleep" /\ count > 0 =>
        handler = "signal" \/ \E t \in Threads : pc[t] = "signal"

(* A SIGINT handler that interrupted the holder of the mutex waits for it. *)
SelfDeadlock == handler = "lock" /\ owner = victim

(***************************************************************************)
(* Queued events keep being popped: unless the queue is empty for good,    *)
(* there is always another pop that takes one, however pops time out and   *)
(* producers contend for the mutex.  The one thing that ends delivery is   *)
(* a SIGINT on a thread inside the queue's critical section.               *)
(***************************************************************************)
Delivers == []<><<PopTake>>_vars \/ <>[](count = 0 \/ SelfDeadlock)

(***************************************************************************)
(* The design document (line 415) says that Ctrl+C must lead to a graceful *)
(* exit.  For that the handler has to get through its push.                *)
(***************************************************************************)
SigintGetsThrough == handler = "lock" ~> handler = "done"
=============================================================================
