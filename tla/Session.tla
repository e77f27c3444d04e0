------------------------------- MODULE Session -------------------------------
(***************************************************************************)
(* The conversation state machine of src/session.c: a pure function from a *)
(* state and an event to the next state and the action the main loop must  *)
(* carry out.  AppRuntime keeps the state in its variable session, because *)
(* app.c also assigns it directly, past this table.                        *)
(***************************************************************************)

SessionStates == { "IDLE", "WAKE_DETECTING", "CONNECTING", "HANDSHAKING",
                   "READY", "UPLOADING_AUDIO", "WAITING_TTS", "PLAYING_TTS",
                   "ERROR_BACKOFF" }

SessionActions == { "NONE", "CONNECT", "SEND_HELLO", "START_LISTEN",
                    "STOP_LISTEN", "ABORT", "RETURN_TO_WAKE" }

StartEvents == {"MANUAL_START", "WAKEWORD_DETECTED"}

Outcome(state, action) == [state |-> state, action |-> action]

session_init == "IDLE"

session_handle_error == Outcome("ERROR_BACKOFF", "RETURN_TO_WAKE")

session_handle_event(s, e) ==
    CASE e = "ERROR"
           -> session_handle_error
      [] s \in {"IDLE", "WAKE_DETECTING"} /\ e \in StartEvents
           -> Outcome("CONNECTING", "CONNECT")
      [] s = "CONNECTING" /\ e = "WS_CONNECTED"
           -> Outcome("HANDSHAKING", "SEND_HELLO")
      [] s = "HANDSHAKING" /\ e = "WS_HELLO"
           -> Outcome("READY", "NONE")
      [] s = "READY" /\ e \in StartEvents
           -> Outcome("UPLOADING_AUDIO", "START_LISTEN")
      [] s = "UPLOADING_AUDIO" /\ e = "MANUAL_STOP"
           -> Outcome("WAITING_TTS", "STOP_LISTEN")
      [] s = "PLAYING_TTS" /\ e \in StartEvents
           -> Outcome("CONNECTING", "ABORT")
      [] OTHER
           -> Outcome(s, "NONE")
=============================================================================
