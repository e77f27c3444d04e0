---------------------------- MODULE AudioCapture -----------------------------
(***************************************************************************)
(* src/audio_capture.c: the microphone thread.  A chunk read from the      *)
(* device is loud or quiet; SilenceChunks quiet chunks in a row make up    *)
(* silence_timeout_ms.  The frame callback is app_capture_on_pcm, whose    *)
(* steps on the application's state are in AppRuntime.                     *)
(***************************************************************************)
EXTENDS Naturals

CONSTANT SilenceChunks

ASSUME SilenceAssumption == SilenceChunks \in Nat \ {0}

VARIABLES capRunning,   \* cap->running
          capUploading, \* cap->uploading
          silence,      \* cap->silence_accumulator_ms, in chunks
          cappc,        \* where the capture thread is
          sampled       \* its local copy of uploading

capVars == <<capRunning, capUploading, silence, cappc, sampled>>

CapTypeOK ==
    /\ capRunning \in BOOLEAN
    /\ capUploading \in BOOLEAN
    /\ silence \in 0..SilenceChunks
    /\ cappc \in { "open",      \* about to open the device
                   "top",       \* top of the loop
                   "frame",     \* a chunk has been read, callback entered
                   "packet",    \* callback holds an encoded packet
                   "tail",      \* callback done, silence to be accounted
                   "timeout",   \* a silence timeout is due
                   "exited" }
    /\ sampled \in BOOLEAN

(* audio_capture_start: the thread runs from here on. *)
CapInit ==
    /\ capRunning = TRUE /\ capUploading = FALSE
    /\ silence = 0 /\ cappc = "open" /\ sampled = FALSE

-----------------------------------------------------------------------------
(* The API.                                                                *)

(* Switching off clears the accumulator under the lock, but the thread     *)
(* updates it without the lock: in the middle of an update (cappc = "tail")*)
(* the clearing can be overwritten.                                        *)
audio_capture_set_uploading(on) ==
    /\ capUploading' = on
    /\ silence' \in IF on THEN {silence}
                    ELSE IF cappc = "tail" THEN {0, silence} ELSE {0}
    /\ UNCHANGED <<capRunning, cappc, sampled>>

(* audio_capture_stop up to pthread_join ... *)
audio_capture_stop ==
    /\ capRunning' = FALSE
    /\ UNCHANGED <<capUploading, silence, cappc, sampled>>

(* ... and its return. *)
CapJoined == cappc = "exited"

-----------------------------------------------------------------------------
(* The thread.                                                             *)

CapGoto(pc) ==
    /\ cappc' = pc
    /\ UNCHANGED <<capRunning, capUploading, silence, sampled>>

(* Without a device the thread ends, silently: nobody learns of it. *)
CapOpen(works) ==
    /\ cappc = "open"
    /\ CapGoto(IF works THEN "top" ELSE "exited")

(* One pass of the loop up to the return of snd_pcm_readi; a failed read   *)
(* goes back to the top.                                                   *)
CapRead ==
    /\ cappc = "top"
    /\ sampled' = capUploading
    /\ cappc' \in IF capRunning THEN {"top", "frame"} ELSE {"exited"}
    /\ UNCHANGED <<capRunning, capUploading, silence>>

(* Silence accounting.  The decision uses the value of uploading sampled   *)
(* before the read, and the accumulator is written without the lock.       *)
CapTail ==
    /\ cappc = "tail"
    /\ \E loud \in BOOLEAN :
         silence' = IF sampled /\ ~loud THEN silence + 1 ELSE 0
    /\ cappc' = IF silence' = SilenceChunks THEN "timeout" ELSE "top"
    /\ UNCHANGED <<capRunning, capUploading, sampled>>

(* The CAPTURE_SILENCE_TIMEOUT event is pushed, then the count restarts.   *)
CapTimeout ==
    /\ cappc = "timeout"
    /\ silence' = 0
    /\ cappc' = "top"
    /\ UNCHANGED <<capRunning, capUploading, sampled>>
=============================================================================
