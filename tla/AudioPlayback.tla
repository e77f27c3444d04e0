---------------------------- MODULE AudioPlayback ----------------------------
(***************************************************************************)
(* src/audio_playback.c: the playback queue and the thread that drains it  *)
(* into the sound device.  A block is a unit: neither its samples nor its  *)
(* sample rate matter here, so the queue is its length.  The condition     *)
(* variable is the guard of PbWake.                                        *)
(***************************************************************************)
EXTENDS Naturals

CONSTANT PbCap          \* queue_capacity (32 in app.c)

ASSUME PbCapAssumption == PbCap \in Nat \ {0}

VARIABLES pbq,          \* audio_buffer_size(&pb->queue)
          pbStop,       \* pb->stop_requested
          pbRunning,    \* pb->running
          pbpc          \* where the playback thread is

pbVars == <<pbq, pbStop, pbRunning, pbpc>>

PbTypeOK ==
    /\ pbq \in 0..PbCap
    /\ pbStop \in BOOLEAN
    /\ pbRunning \in BOOLEAN
    /\ pbpc \in { "wait",       \* in the condition wait
                  "awake",      \* past it, stop_requested not looked at yet
                  "take",       \* found it clear, nothing taken yet
                  "write",      \* holds a block
                  "notify",     \* about to push PLAYBACK_FINISHED
                  "exited" }

(* audio_playback_init: the thread runs from here on. *)
PbInit == pbq = 0 /\ pbStop = FALSE /\ pbRunning = TRUE /\ pbpc = "wait"

-----------------------------------------------------------------------------
(* The API.                                                                *)

audio_playback_enqueue ==
    /\ pbq' = IF pbq < PbCap THEN pbq + 1 ELSE pbq
    /\ UNCHANGED <<pbStop, pbRunning, pbpc>>

audio_playback_request_stop ==
    /\ pbStop' = TRUE
    /\ UNCHANGED <<pbq, pbRunning, pbpc>>

(* audio_playback_destroy up to pthread_join ... *)
audio_playback_destroy ==
    /\ pbRunning' = FALSE
    /\ UNCHANGED <<pbq, pbStop, pbpc>>

(* ... and its return. *)
PbJoined == pbpc = "exited"

-----------------------------------------------------------------------------
(* The thread.  PbNotify is where it pushes PLAYBACK_FINISHED; the event   *)
(* queue belongs to AppRuntime, which conjoins the push.                   *)

(* Mutant: the wait condition forgets pb->running. *)
PbWake_IgnoresRunning ==
    /\ pbpc = "wait"
    /\ pbq > 0 \/ pbStop
    /\ pbpc' = IF pbRunning THEN "awake" ELSE "exited"
    /\ UNCHANGED <<pbq, pbStop, pbRunning>>

PbWake ==
    /\ pbpc = "wait"
    /\ ~pbRunning \/ pbq > 0 \/ pbStop
    /\ pbpc' = IF pbRunning THEN "awake" ELSE "exited"
    /\ UNCHANGED <<pbq, pbStop, pbRunning>>

(* A stop drops what the device holds, not what the queue holds. *)
PbStopped ==
    /\ pbpc = "awake" /\ pbStop
    /\ pbStop' = FALSE
    /\ pbpc' = "notify"
    /\ UNCHANGED <<pbq, pbRunning>>

(* No stop was requested when the flag was looked at; one may come before  *)
(* the pop.                                                                *)
PbProceeds ==
    /\ pbpc = "awake" /\ ~pbStop
    /\ pbpc' = "take"
    /\ UNCHANGED <<pbq, pbStop, pbRunning>>

PbTake ==
    /\ pbpc = "take"
    /\ IF pbq > 0
       THEN pbq' = pbq - 1 /\ pbpc' = "write"
       ELSE pbpc' = "wait" /\ UNCHANGED pbq
    /\ UNCHANGED <<pbStop, pbRunning>>

(* Mutant: no report after the last block. *)
PbWritten_NoReport ==
    /\ pbpc = "write"
    /\ pbpc' = "wait"
    /\ UNCHANGED <<pbq, pbStop, pbRunning>>

(* The block has been written; the queue is looked at once more.           *)
PbWritten ==
    /\ pbpc = "write"
    /\ pbpc' = IF pbq = 0 THEN "notify" ELSE "wait"
    /\ UNCHANGED <<pbq, pbStop, pbRunning>>

(* The device cannot be opened, or the write fails for good: the block is  *)
(* lost and nobody is told.                                                *)
PbDeviceFails ==
    /\ pbpc = "write"
    /\ pbpc' = "wait"
    /\ UNCHANGED <<pbq, pbStop, pbRunning>>

PbNotify ==
    /\ pbpc = "notify"
    /\ pbpc' = "wait"
    /\ UNCHANGED <<pbq, pbStop, pbRunning>>

-----------------------------------------------------------------------------
(* The component on its own, for PlaybackThread to implement.              *)
PbNext ==
    \/ audio_playback_enqueue \/ audio_playback_request_stop
    \/ audio_playback_destroy
    \/ PbWake \/ PbStopped \/ PbProceeds \/ PbTake \/ PbWritten
    \/ PbDeviceFails \/ PbNotify

PbSpec == PbInit /\ [][PbNext]_pbVars
=============================================================================
