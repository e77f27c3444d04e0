---------------------------- MODULE PlaybackThread ---------------------------
(***************************************************************************)
(* src/audio_playback.c in detail: the network thread that enqueues        *)
(* decoded audio, the main thread that requests stops and destroys, and    *)
(* the playback thread, with the mutex, the condition variable and the     *)
(* ring they share.  AudioPlayback is what AppRuntime takes it for.        *)
(*                                                                         *)
(* pb->running and pb->stop_requested are set under pb->mutex, but the     *)
(* thread reads and clears stop_requested without it; the ring has a mutex *)
(* of its own, and a block is pushed before pb->mutex is taken to signal.  *)
(***************************************************************************)
EXTENDS AudioBuffer

CONSTANTS MaxBlocks,    \* bound: blocks the network thread offers
          MaxStops      \* bound: stops the main thread requests

ASSUME ThreadAssumption == MaxBlocks \in Nat /\ MaxStops \in Nat

VARIABLES pc,           \* where the playback thread is
          locked,       \* it holds pb->mutex
          lent,         \* the slot and the number of the block it has popped
          written,      \* how much of that block has been written
          device,       \* the sound device is open
          stop_requested, pbRunning,    \* pb->stop_requested, pb->running
          signalling,   \* the network thread has pushed and has yet to signal
          freed,        \* audio_playback_destroy has returned
          offers, stops \* what is left of the bounds

flags == <<stop_requested, pbRunning, signalling, freed>>
bounds == <<offers, stops>>
vars == <<bufVars, pc, locked, lent, written, device, flags, bounds>>

TypeOK ==
    /\ BufTypeOK
    /\ pc \in { "lock",         \* wants pb->mutex
                "test",         \* evaluates the wait condition
                "sleep",        \* found it true, still holds pb->mutex
                "wait",         \* in pthread_cond_wait
                "awake",        \* out of the critical section
                "clear",        \* saw stop_requested
                "take",         \* did not
                "open",         \* holds a block, looks at the device
                "write",        \* writes it
                "size",         \* has written it
                "notify",       \* pushes PLAYBACK_FINISHED
                "close",        \* out of the loop
                "exited" }
    /\ locked \in BOOLEAN
    /\ lent \in [slot : Indices, block : Nat]
    /\ written \in 0..Chunks
    /\ device \in BOOLEAN
    /\ stop_requested \in BOOLEAN /\ pbRunning \in BOOLEAN
    /\ signalling \in BOOLEAN /\ freed \in BOOLEAN
    /\ offers \in 0..MaxBlocks /\ stops \in 0..MaxStops

(* audio_playback_init *)
Init ==
    /\ audio_buffer_init
    /\ pc = "lock" /\ locked = FALSE
    /\ lent = [slot |-> 0, block |-> 0] /\ written = 0
    /\ device = FALSE
    /\ stop_requested = FALSE /\ pbRunning = TRUE
    /\ signalling = FALSE /\ freed = FALSE
    /\ offers = MaxBlocks /\ stops = MaxStops

-----------------------------------------------------------------------------
(* The network thread: audio_playback_enqueue.  app_destroy joins it       *)
(* before it calls audio_playback_destroy.                                 *)

Producing == UNCHANGED <<locked, lent, written, device, stop_requested,
                         pbRunning, freed, stops>>

Offer ==
    /\ offers > 0 /\ ~signalling /\ pbRunning
    /\ PushBegin \/ PushRefused
    /\ offers' = offers - 1
    /\ UNCHANGED <<pc, signalling>> /\ Producing

Copy == PushCopy /\ UNCHANGED <<pc, signalling, offers>> /\ Producing

Pushed == PushEnd /\ signalling' = TRUE /\ UNCHANGED <<pc, offers>> /\ Producing

(* pthread_cond_signal.  A thread that is not waiting does not notice.     *)
Signal == pc' = IF pc = "wait" THEN "lock" ELSE pc

(* Mutant: the signal is sent without pb->mutex. *)
SignalPushed_NoMutex ==
    /\ signalling
    /\ Signal
    /\ signalling' = FALSE
    /\ UNCHANGED <<bufVars, offers>> /\ Producing

(* Mutant: the push is not signalled. *)
SignalPushed_Silent ==
    /\ signalling /\ ~locked
    /\ signalling' = FALSE
    /\ UNCHANGED <<bufVars, pc, offers>> /\ Producing

SignalPushed ==
    /\ signalling /\ ~locked
    /\ Signal
    /\ signalling' = FALSE
    /\ UNCHANGED <<bufVars, offers>> /\ Producing

Producer == Offer \/ Copy \/ Pushed \/ SignalPushed

-----------------------------------------------------------------------------
(* The main thread.                                                        *)

audio_playback_request_stop ==
    /\ stops > 0 /\ pbRunning /\ ~locked
    /\ stop_requested' = TRUE
    /\ Signal
    /\ stops' = stops - 1
    /\ UNCHANGED <<bufVars, locked, lent, written, device, pbRunning,
                   signalling, freed, offers>>

(* audio_playback_destroy up to pthread_join, once the network thread has  *)
(* been joined ...                                                         *)
audio_playback_destroy ==
    /\ pbRunning /\ BufFree /\ ~signalling /\ ~locked
    /\ pbRunning' = FALSE
    /\ Signal
    /\ UNCHANGED <<bufVars, locked, lent, written, device, stop_requested,
                   signalling, freed, bounds>>

(* ... and its return.  The memory is gone; its last values are kept.      *)
Joined ==
    /\ ~pbRunning /\ pc = "exited" /\ ~freed
    /\ freed' = TRUE
    /\ UNCHANGED <<bufVars, pc, locked, lent, written, device, stop_requested,
                   pbRunning, signalling, bounds>>

-----------------------------------------------------------------------------
(* The playback thread.                                                    *)

Goto(a, b) == pc = a /\ pc' = b
Playing == UNCHANGED <<pbRunning, signalling, freed, bounds>>
Quiet == UNCHANGED <<lent, written, device, stop_requested>> /\ Playing

LockMutex == Goto("lock", "test") /\ ~locked /\ locked' = TRUE
             /\ UNCHANGED bufVars /\ Quiet

(* The loop's condition; audio_buffer_size takes the ring's mutex.         *)
MustWait == pbRunning /\ count = 0 /\ ~stop_requested

(* The condition holds ... *)
Doze == /\ BufFree /\ MustWait
        /\ Goto("test", "sleep")
        /\ UNCHANGED <<bufVars, locked>> /\ Quiet

(* ... and the wait releases pb->mutex.  A block may have come in between. *)
Sleep == /\ Goto("sleep", "wait") /\ locked' = FALSE
         /\ UNCHANGED bufVars /\ Quiet

(* It does not: leave the loop and the critical section. *)
Awake == /\ BufFree \/ ~pbRunning
         /\ ~MustWait
         /\ Goto("test", IF pbRunning THEN "awake" ELSE "close")
         /\ locked' = FALSE
         /\ UNCHANGED bufVars /\ Quiet

Spurious == Goto("wait", "lock") /\ UNCHANGED <<bufVars, locked>> /\ Quiet

(* The read of stop_requested after the unlock. *)
LookAtStop == /\ Goto("awake", IF stop_requested THEN "clear" ELSE "take")
              /\ UNCHANGED <<bufVars, locked>> /\ Quiet

(* It is cleared and the device is closed; the queue is left as it is.     *)
Stop == /\ Goto("clear", "notify")
        /\ stop_requested' = FALSE
        /\ device' = FALSE
        /\ UNCHANGED <<bufVars, locked, lent, written>> /\ Playing

Take == /\ Goto("take", "open")
        /\ lent' = [slot |-> PopSlot, block |-> HeadBlock]
        /\ written' = 0
        /\ audio_buffer_pop
        /\ UNCHANGED <<locked, device, stop_requested>> /\ Playing

(* The device is open at the block's rate, or is (re)opened at it.         *)
OpenDevice == /\ Goto("open", "write")
              /\ device' = TRUE
              /\ UNCHANGED <<bufVars, locked, lent, written, stop_requested>>
              /\ Playing

OpenFails == /\ Goto("open", "lock")
             /\ device' = FALSE
             /\ UNCHANGED <<bufVars, locked, lent, written, stop_requested>>
             /\ Playing

(* audio_playback_write_all_frames: a short write goes on where it ended.  *)
(* An error ALSA recovers from changes nothing and is tried again.         *)
WriteFrames == /\ pc = "write"
               /\ written' = written + 1
               /\ pc' = IF written + 1 = Chunks THEN "size" ELSE "write"
               /\ UNCHANGED <<bufVars, locked, lent, device, stop_requested>>
               /\ Playing

WriteFails == Goto("write", "lock") /\ UNCHANGED <<bufVars, locked>> /\ Quiet

(* Mutant: the end is reported after every block. *)
LookAtQueue_Always ==
    /\ BufFree
    /\ Goto("size", "notify")
    /\ UNCHANGED <<bufVars, locked>> /\ Quiet

LookAtQueue == /\ BufFree
               /\ Goto("size", IF count = 0 THEN "notify" ELSE "lock")
               /\ UNCHANGED <<bufVars, locked>> /\ Quiet

Notify == Goto("notify", "lock") /\ UNCHANGED <<bufVars, locked>> /\ Quiet

Close == /\ Goto("close", "exited")
         /\ device' = FALSE
         /\ UNCHANGED <<bufVars, locked, lent, written, stop_requested>>
         /\ Playing

Thread == \/ LockMutex \/ Doze \/ Sleep \/ Awake \/ LookAtStop \/ Stop \/ Take
          \/ OpenDevice \/ OpenFails \/ WriteFrames \/ WriteFails
          \/ LookAtQueue \/ Notify \/ Close

Next == \/ Producer
        \/ audio_playback_request_stop \/ audio_playback_destroy \/ Joined
        \/ Thread \/ Spurious

(* The threads run and an audio device takes or refuses what it is given.  *)
(* Nothing forces audio to come, a stop or the end.                        *)
Spec == /\ Init /\ [][Next]_vars
        /\ WF_vars(Thread) /\ WF_vars(Copy \/ Pushed \/ SignalPushed)
        /\ WF_vars(Joined)

-----------------------------------------------------------------------------
(***************************************************************************)
(* The playback thread never sleeps on work: if a block is queued, a stop  *)
(* is requested or the end has come while it waits, the thread that did it *)
(* is about to signal.                                                     *)
(***************************************************************************)
NoLostWakeup ==
    pc = "wait" => /\ count = 0 \/ signalling
                   /\ ~stop_requested /\ pbRunning

(* How many blocks the ring holds or is being given. *)
InRing == count + IF BufFree THEN 0 ELSE 1

(***************************************************************************)
(* The block being played is a slot the producer may use again.  What is   *)
(* still to be written of it is what was popped as long as the ring has    *)
(* not filled up: only the block that fills it goes into the lent slot.    *)
(***************************************************************************)
LentIntact ==
    pc \in {"open", "write"} /\ InRing < PbCap =>
        \A c \in written+1..Chunks : slots[lent.slot][c] = lent.block

(* Every requested stop is answered by a PLAYBACK_FINISHED, whenever it    *)
(* comes and however many are absorbed into one.                           *)
StopAnswered == stop_requested /\ pbRunning ~> pc = "notify" \/ ~pbRunning

(* Every accepted block reaches the thread before the end.                 *)
BlocksTaken == \A n \in 1..MaxBlocks :
                 accepted = n ~> accepted - count >= n \/ ~pbRunning

(* audio_playback_destroy returns, wherever the thread is when it comes.   *)
DestroyReturns == ~pbRunning ~> freed

(***************************************************************************)
(* What is asked of the thread is done: stops, blocks and the end, in      *)
(* whatever order they come and although stop_requested is read and        *)
(* cleared without the mutex.                                              *)
(***************************************************************************)
Served == StopAnswered /\ BlocksTaken /\ DestroyReturns

Abstract == INSTANCE AudioPlayback WITH
    pbq <- count,
    pbStop <- stop_requested,
    pbpc <- CASE pc \in {"lock", "test", "sleep", "wait"} -> "wait"
              [] pc \in {"awake", "clear"} -> "awake"
              [] pc \in {"open", "write", "size"} -> "write"
              [] pc \in {"close", "exited"} -> "exited"
              [] OTHER -> pc

(***************************************************************************)
(* Seen from the application the mutexes, the wait and the steps of a      *)
(* write vanish: the detailed playback behaves as AudioPlayback.           *)
(***************************************************************************)
ImplementsPlayback == Abstract!PbSpec
=============================================================================
