----------------------------- MODULE AppRuntime ------------------------------
(***************************************************************************)
(* The running voice client: the main loop of src/app.c composed with the  *)
(* network thread, the playback thread and the capture thread through the  *)
(* event queue, together with the user at the keyboard and a server that   *)
(* follows the protocol.                                                   *)
(*                                                                         *)
(* The main thread takes one step per event it handles; a handler that     *)
(* blocks (the back-off sleep, pthread_join) is split where it blocks.     *)
(* Between any two steps the other threads run.                            *)
(***************************************************************************)
EXTENDS Session, EventFifo, XiaozhiClient, AudioPlayback, AudioCapture

CONSTANTS MaxPress,     \* bound: how often the user presses Enter
          MaxServer,    \* bound: audio blocks and side messages the server sends
          MaxFault,     \* bound: how many faults happen
          Faults,       \* which faults may happen
          MayQuit,      \* whether the user may end the program
          MicWorks      \* whether the capture device can be opened

(* An event as the main loop sees it.  A WS_TEXT event is named by what    *)
(* xiaozhi_parse_incoming_json finds in it: HELLO with or without a        *)
(* session_id, TTS_START, TTS_STOP, or OTHER for every message the main    *)
(* loop only logs.                                                         *)
AppEvents == { "MANUAL_START", "MANUAL_STOP", "WS_CONNECTED", "HELLO",
               "HELLO_NOSID", "TTS_START", "TTS_STOP", "OTHER", "SILENCE",
               "PLAYBACK_FINISHED", "ERROR", "SHUTDOWN" }

AllFaults == { "spawn", "init", "connect", "drop", "write", "bigframe",
               "torn", "cut", "device", "dump", "nosid", "decoder" }

ASSUME AppAssumption ==
    /\ Events = AppEvents
    /\ MaxPress \in Nat /\ MaxServer \in Nat /\ MaxFault \in Nat
    /\ Faults \subseteq AllFaults
    /\ MayQuit \in BOOLEAN /\ MicWorks \in BOOLEAN

VARIABLES session,              \* app->session.state
          upload,               \* app->upload_enabled
          ttsDone,              \* app->tts_done
          clientStarted,        \* app->client_started
          sid,                  \* app->session_id is not empty
          dump,                 \* app->opus_dump_file is open
          decoder,              \* app->decoder is usable
          stopReq,              \* app->stop_requested
          mpc,                  \* where the main thread is
          cur,                  \* the event it has popped
          srv,                  \* external: what the server makes of this connection
          unheard,              \* history: its hello came and could not be read
          presses, served, faults       \* what is left of the bounds

appVars == <<session, upload, ttsDone, clientStarted, sid, dump, decoder>>
mainVars == <<mpc, cur>>
budget == <<presses, served, faults>>
vars == <<clientVars, pbVars, capVars, evVars, appVars, stopReq, mainVars,
          srv, unheard, budget>>

MainPCs == { "run",             \* app_run entered
             "loop",            \* while (!app->stop_requested)
             "pop",             \* event_queue_pop
             "handle",          \* an event has been popped
             "poll",            \* app_poll_stdin
             "backoff",         \* usleep in RETURN_TO_WAKE
             "joinReturn", "restartReturn",     \* its stop and start
             "stopAbort", "joinAbort", "restartAbort",  \* those of ABORT
             "destroy",         \* app_destroy entered
             "joinClient", "stopCapture", "joinCapture", "joinPlayback",
             "freeClient",
             "stopped" }        \* everything has been freed

AppTypeOK ==
    /\ session \in SessionStates
    /\ upload \in BOOLEAN /\ ttsDone \in BOOLEAN
    /\ clientStarted \in BOOLEAN /\ sid \in BOOLEAN
    /\ dump \in BOOLEAN /\ decoder \in BOOLEAN /\ stopReq \in BOOLEAN

MainTypeOK == mpc \in MainPCs /\ cur \in Events \cup {"none"}

EnvTypeOK ==
    /\ srv \in {"deaf", "greeted", "ready", "listening", "speaking"}
    /\ unheard \in BOOLEAN
    /\ presses \in 0..MaxPress
    /\ served \in 0..MaxServer
    /\ faults \in 0..MaxFault

TypeOK == /\ ClientTypeOK /\ PbTypeOK /\ CapTypeOK /\ EvTypeOK
          /\ AppTypeOK /\ MainTypeOK /\ EnvTypeOK

(* After app_init: the playback and capture threads run, no client yet. *)
Init ==
    /\ ClientInit /\ PbInit /\ CapInit /\ EvInit
    /\ session = session_init
    /\ upload = FALSE /\ ttsDone = FALSE /\ clientStarted = FALSE
    /\ sid = FALSE /\ dump = FALSE /\ decoder = TRUE /\ stopReq = FALSE
    /\ mpc = "run" /\ cur = "none"
    /\ srv = "deaf" /\ unheard = FALSE
    /\ presses = MaxPress /\ served = MaxServer /\ faults = MaxFault

(* A fault may strike as long as the bound allows; NoFault is the other    *)
(* outcome.                                                                *)
NoFault == UNCHANGED faults
Fault(f) == f \in Faults /\ faults > 0 /\ faults' = faults - 1

(* The outcome ok of an operation that fault f makes fail. *)
Outcomes(f, ok) == (ok /\ NoFault) \/ (~ok /\ Fault(f))

(* The main thread goes from a to b; its caller says what else changes.    *)
From(a, b) == mpc = a /\ mpc' = b /\ UNCHANGED <<cur, stopReq, srv, unheard>>

(* Nothing but the main thread's position changes. *)
OnlyMain == UNCHANGED <<clientVars, pbVars, capVars, evVars, appVars, budget>>

Silently == UNCHANGED evVars
Raise(e) == event_queue_push(e)

-----------------------------------------------------------------------------
(* The dump file of a round.  Opening one closes the one before, also when *)
(* the new one cannot be opened.                                           *)
app_open_opus_dump_file(ok) == Outcomes("dump", ok) /\ dump' = ok
app_close_opus_dump_file == dump' = FALSE

(* The messages to the server; ok is what the function reports.  The two   *)
(* listen messages carry the session_id and are not sent without one.      *)
app_send_hello(ok) == xiaozhi_client_queue_text("hello", ok)
app_send_abort(ok) == xiaozhi_client_queue_text("abort", ok)

WithSession(m, ok) ==
    IF sid THEN xiaozhi_client_queue_text(m, ok) ELSE ~ok /\ UNCHANGED clientVars

app_send_listen_start(ok) == WithSession("start", ok)
app_send_listen_stop(ok) == WithSession("stop", ok)

(* app_reset_to_idle: READY if the client is connected, IDLE otherwise.    *)
app_reset_to_idle ==
    /\ upload' = FALSE /\ ttsDone' = FALSE
    /\ audio_capture_set_uploading(FALSE)
    /\ app_close_opus_dump_file
    /\ session' = IF clientStarted /\ net = "open" THEN "READY" ELSE "IDLE"
    /\ UNCHANGED <<clientStarted, sid, decoder>>

(* SESSION_ACTION_CONNECT with session state s *)
Connect(s) ==
    \E ok \in BOOLEAN :
      /\ Outcomes("spawn", ok)
      /\ xiaozhi_client_start(ok)
      /\ clientStarted' = (ok \/ clientStarted)
      /\ IF ok THEN Silently ELSE Raise("ERROR")
      /\ session' = s /\ sid' = FALSE /\ ttsDone' = FALSE

(* app_run up to its loop: reset to idle, then CONNECT.                    *)
RunStart ==
    /\ From("run", "loop")
    /\ Connect("CONNECTING")
    /\ upload' = FALSE
    /\ audio_capture_set_uploading(FALSE)
    /\ app_close_opus_dump_file
    /\ UNCHANGED <<pbVars, decoder, presses, served>>

(* The loop condition.  A stop requested after it has been read is seen as *)
(* the SHUTDOWN event.                                                     *)
LoopGoesOn == From("loop", "pop") /\ ~stopReq /\ OnlyMain
LoopEnds == From("loop", "destroy") /\ stopReq /\ OnlyMain

(* event_queue_pop with an event to return, and without one for 100 ms.    *)
Pop ==
    /\ mpc = "pop" /\ mpc' = "handle"
    /\ \E e \in Events : event_queue_pop(e) /\ cur' = e
    /\ UNCHANGED <<clientVars, pbVars, capVars, appVars, stopReq, srv,
                   unheard, budget>>

PopTimeout == From("pop", "poll") /\ evq = <<>> /\ OnlyMain

(* A handler of the events in S; most of them return to the loop's         *)
(* app_poll_stdin.                                                         *)
Handles(S) == mpc = "handle" /\ cur \in S /\ cur' = "none"
              /\ UNCHANGED <<stopReq, srv, unheard, presses, served>>
Handled == mpc' = "poll"

(* An event that changes nothing in the current session state. *)
HandleIgnored ==
    /\ Handles({"MANUAL_START", "MANUAL_STOP", "WS_CONNECTED", "SILENCE", "OTHER"})
    /\ cur \in {"SILENCE", "OTHER"} \/ session_handle_event(session, cur).action = "NONE"
    /\ Handled /\ NoFault
    /\ UNCHANGED <<clientVars, pbVars, capVars, evVars, appVars>>

HandleConnect ==
    /\ Handles(StartEvents)
    /\ session_handle_event(session, cur).action = "CONNECT"
    /\ Handled
    /\ Connect(session_handle_event(session, cur).state)
    /\ UNCHANGED <<pbVars, capVars, upload, dump, decoder>>

(* SEND_HELLO: a hello that cannot be queued is an error.                  *)
HandleConnected ==
    /\ Handles({"WS_CONNECTED"})
    /\ session_handle_event(session, cur).action = "SEND_HELLO"
    /\ Handled /\ NoFault
    /\ session' = session_handle_event(session, cur).state
    /\ \E ok \in BOOLEAN :
         /\ app_send_hello(ok)
         /\ IF ok THEN Silently ELSE Raise("ERROR")
    /\ UNCHANGED <<pbVars, capVars, upload, ttsDone, clientStarted, sid, dump,
                   decoder>>

(* START_LISTEN.  It needs a message sent and a dump file open, in that    *)
(* order; the first that fails raises ERROR and leaves the rest.           *)
StartListenNotSent ==
    /\ app_send_listen_start(FALSE) /\ NoFault
    /\ Raise("ERROR")
    /\ UNCHANGED <<capVars, upload, dump>>

(* Mutant: a dump file that cannot be opened goes unreported. *)
StartListenNoDump_Quiet ==
    /\ app_send_listen_start(TRUE)
    /\ app_open_opus_dump_file(FALSE)
    /\ Silently
    /\ UNCHANGED <<capVars, upload>>

StartListenNoDump ==
    /\ app_send_listen_start(TRUE)
    /\ app_open_opus_dump_file(FALSE)
    /\ Raise("ERROR")
    /\ UNCHANGED <<capVars, upload>>

StartListenOk ==
    /\ app_send_listen_start(TRUE)
    /\ app_open_opus_dump_file(TRUE)
    /\ upload' = TRUE
    /\ audio_capture_set_uploading(TRUE)
    /\ Silently

HandleStartListen ==
    /\ Handles(StartEvents)
    /\ session_handle_event(session, cur).action = "START_LISTEN"
    /\ Handled
    /\ session' = session_handle_event(session, cur).state
    /\ StartListenNotSent \/ StartListenNoDump \/ StartListenOk
    /\ UNCHANGED <<pbVars, ttsDone, clientStarted, sid, decoder>>

HandleStopListen ==
    /\ Handles({"MANUAL_STOP"})
    /\ session_handle_event(session, cur).action = "STOP_LISTEN"
    /\ Handled /\ NoFault
    /\ session' = session_handle_event(session, cur).state
    /\ upload' = FALSE
    /\ audio_capture_set_uploading(FALSE)
    /\ app_close_opus_dump_file
    /\ \E ok \in BOOLEAN :
         /\ app_send_listen_stop(ok)
         /\ IF ok THEN Silently ELSE Raise("ERROR")
    /\ UNCHANGED <<pbVars, ttsDone, clientStarted, sid, decoder>>

(* ABORT.  The result of queueing the abort message is not looked at, and  *)
(* tts_done keeps its value.                                               *)
HandleAbort ==
    /\ Handles(StartEvents)
    /\ session_handle_event(session, cur).action = "ABORT"
    /\ NoFault
    /\ session' = session_handle_event(session, cur).state
    /\ upload' = FALSE
    /\ audio_capture_set_uploading(FALSE)
    /\ app_close_opus_dump_file
    /\ \E ok \in BOOLEAN : app_send_abort(ok)
    /\ audio_playback_request_stop
    /\ mpc' = "stopAbort"
    /\ UNCHANGED <<evVars, ttsDone, clientStarted, sid, decoder>>

StopAbort ==
    /\ IF clientStarted
       THEN From("stopAbort", "joinAbort") /\ xiaozhi_client_stop
       ELSE From("stopAbort", "restartAbort") /\ UNCHANGED clientVars
    /\ UNCHANGED <<pbVars, capVars, evVars, appVars, budget>>

JoinAbort ==
    /\ From("joinAbort", "restartAbort")
    /\ xiaozhi_client_join
    /\ UNCHANGED <<pbVars, capVars, evVars, appVars, budget>>

(* ABORT after the stop: clear the session_id and start again.             *)
RestartAbort ==
    /\ From("restartAbort", "poll")
    /\ \E ok \in BOOLEAN :
         /\ Outcomes("spawn", ok)
         /\ xiaozhi_client_start(ok)
         /\ clientStarted' = ok
         /\ IF ok THEN Silently ELSE Raise("ERROR")
    /\ sid' = FALSE
    /\ UNCHANGED <<pbVars, capVars, session, upload, ttsDone, dump, decoder,
                   presses, served>>

(* ERROR: the session backs off; RETURN_TO_WAKE begins with a sleep that   *)
(* leaves everything else as it was.                                       *)
HandleError ==
    /\ Handles({"ERROR"})
    /\ NoFault
    /\ session' = session_handle_event(session, cur).state
    /\ mpc' = "backoff"
    /\ UNCHANGED <<clientVars, pbVars, capVars, evVars, upload, ttsDone,
                   clientStarted, sid, dump, decoder>>

(* The sleep is over: clear the round and stop the client.                 *)
BackoffEnds ==
    /\ upload' = FALSE /\ ttsDone' = FALSE /\ sid' = FALSE
    /\ audio_capture_set_uploading(FALSE)
    /\ app_close_opus_dump_file
    /\ IF clientStarted
       THEN From("backoff", "joinReturn") /\ xiaozhi_client_stop
       ELSE From("backoff", "restartReturn") /\ UNCHANGED clientVars
    /\ UNCHANGED <<pbVars, evVars, session, clientStarted, decoder, budget>>

JoinReturn ==
    /\ From("joinReturn", "restartReturn")
    /\ xiaozhi_client_join
    /\ clientStarted' = FALSE
    /\ UNCHANGED <<pbVars, capVars, evVars, session, upload, ttsDone, sid,
                   dump, decoder, budget>>

(* Mutant: RETURN_TO_WAKE forgets app->client_started. *)
RestartReturn_Untracked ==
    /\ From("restartReturn", "poll")
    /\ session' = "CONNECTING"
    /\ \E ok \in BOOLEAN : Outcomes("spawn", ok) /\ xiaozhi_client_start(ok)
    /\ UNCHANGED <<pbVars, capVars, evVars, upload, ttsDone, clientStarted,
                   sid,
                   dump, decoder, presses, served>>

(* Mutant: RETURN_TO_WAKE leaves the session in ERROR_BACKOFF. *)
RestartReturn_NoState ==
    /\ From("restartReturn", "poll")
    /\ \E ok \in BOOLEAN :
         /\ Outcomes("spawn", ok)
         /\ xiaozhi_client_start(ok)
         /\ clientStarted' = (ok \/ clientStarted)
    /\ UNCHANGED <<pbVars, capVars, evVars, session, upload, ttsDone, sid,
                   dump,
                   decoder, presses, served>>

(* The restart of RETURN_TO_WAKE only logs a failure.                      *)
RestartReturn ==
    /\ From("restartReturn", "poll")
    /\ session' = "CONNECTING"
    /\ \E ok \in BOOLEAN :
         /\ Outcomes("spawn", ok)
         /\ xiaozhi_client_start(ok)
         /\ clientStarted' = (ok \/ clientStarted)
    /\ UNCHANGED <<pbVars, capVars, evVars, upload, ttsDone, sid, dump,
                   decoder, presses, served>>

-----------------------------------------------------------------------------
(* app_handle_protocol_event                                               *)

(* app_update_decoder_from_hello: a new sample rate rebuilds the decoder,  *)
(* and a failed rebuild leaves none.                                       *)
update_decoder_from_hello ==
    \/ decoder' \in {decoder, TRUE} /\ NoFault
    \/ decoder' = FALSE /\ Fault("decoder")

HandleHello ==
    /\ Handles({"HELLO", "HELLO_NOSID"})
    /\ Handled
    /\ sid' = (sid \/ cur = "HELLO")
    /\ update_decoder_from_hello
    /\ session' = session_handle_event(session, "WS_HELLO").state
    /\ UNCHANGED <<clientVars, pbVars, capVars, evVars, upload, ttsDone,
                   clientStarted, dump>>

(* Mutant: tts/start does not stop the upload. *)
HandleTtsStart_KeepsUpload ==
    /\ Handles({"TTS_START"})
    /\ Handled /\ NoFault
    /\ ttsDone' = FALSE
    /\ session' = "PLAYING_TTS"
    /\ UNCHANGED <<clientVars, pbVars, capVars, evVars, upload, clientStarted,
                   sid, dump, decoder>>

(* tts/start takes the session to PLAYING_TTS from whatever state it is in *)
HandleTtsStart ==
    /\ Handles({"TTS_START"})
    /\ Handled /\ NoFault
    /\ upload' = FALSE /\ ttsDone' = FALSE
    /\ audio_capture_set_uploading(FALSE)
    /\ session' = "PLAYING_TTS"
    /\ UNCHANGED <<clientVars, pbVars, evVars, clientStarted, sid, dump,
                   decoder>>

(* Mutant: tts/stop always waits for PLAYBACK_FINISHED. *)
HandleTtsStop_AlwaysWaits ==
    /\ Handles({"TTS_STOP"})
    /\ Handled /\ NoFault
    /\ ttsDone' = TRUE
    /\ UNCHANGED <<clientVars, pbVars, capVars, evVars, session, upload,
                   clientStarted, sid, dump, decoder>>

(* tts/stop ends the round at once if nothing is left in the queue.        *)
HandleTtsStop ==
    /\ Handles({"TTS_STOP"})
    /\ Handled /\ NoFault
    /\ IF pbq = 0
       THEN app_reset_to_idle
       ELSE /\ ttsDone' = TRUE
            /\ UNCHANGED <<capVars, session, upload, clientStarted, sid, dump,
                           decoder>>
    /\ UNCHANGED <<clientVars, pbVars, evVars>>

HandleFinished ==
    /\ Handles({"PLAYBACK_FINISHED"})
    /\ Handled /\ NoFault
    /\ IF ttsDone
       THEN app_reset_to_idle
       ELSE UNCHANGED <<capVars, appVars>>
    /\ UNCHANGED <<clientVars, pbVars, evVars>>

HandleShutdown ==
    /\ mpc = "handle" /\ cur = "SHUTDOWN"
    /\ cur' = "none" /\ mpc' = "poll"
    /\ stopReq' = TRUE
    /\ UNCHANGED <<clientVars, pbVars, capVars, evVars, appVars, srv,
                   unheard, budget>>

-----------------------------------------------------------------------------
(* app_poll_stdin: no line, a line that means nothing, Enter, or q.        *)

PollNothing == From("poll", "loop") /\ OnlyMain

(* Enter means stop while uploading and start otherwise.                   *)
PollEnter ==
    /\ From("poll", "loop")
    /\ presses > 0 /\ presses' = presses - 1
    /\ Raise(IF session = "UPLOADING_AUDIO" THEN "MANUAL_STOP" ELSE "MANUAL_START")
    /\ UNCHANGED <<clientVars, pbVars, capVars, appVars, served, faults>>

(* app_request_stop *)
app_request_stop == stopReq' = TRUE /\ Raise("SHUTDOWN")

PollQuit ==
    /\ MayQuit
    /\ mpc = "poll"
    /\ app_request_stop
    /\ mpc' = "loop"
    /\ UNCHANGED <<clientVars, pbVars, capVars, appVars, cur, srv, unheard,
                   budget>>

(* Ctrl+C: the handler runs on top of whatever a thread is doing.  What    *)
(* happens when that thread holds the queue's mutex is in EventQueue.      *)
Sigint ==
    /\ MayQuit
    /\ mpc # "stopped" /\ ~stopReq
    /\ app_request_stop
    /\ UNCHANGED <<clientVars, pbVars, capVars, appVars, mainVars, srv,
                   unheard, budget>>

-----------------------------------------------------------------------------
(* app_destroy: the client first, if it is known to be started, then the   *)
(* capture thread, the playback thread, the codecs and the client object.  *)

DestroyBegin ==
    /\ IF clientStarted
       THEN From("destroy", "joinClient") /\ xiaozhi_client_stop
       ELSE From("destroy", "stopCapture") /\ UNCHANGED clientVars
    /\ app_close_opus_dump_file
    /\ UNCHANGED <<pbVars, capVars, evVars, session, upload, ttsDone,
                   clientStarted, sid, decoder, budget>>

DestroyJoinClient ==
    /\ From("joinClient", "stopCapture")
    /\ xiaozhi_client_join
    /\ UNCHANGED <<pbVars, capVars, evVars, appVars, budget>>

DestroyStopCapture ==
    /\ From("stopCapture", "joinCapture")
    /\ audio_capture_stop
    /\ UNCHANGED <<clientVars, pbVars, evVars, appVars, budget>>

DestroyStopPlayback ==
    /\ From("joinCapture", "joinPlayback") /\ CapJoined
    /\ audio_playback_destroy
    /\ UNCHANGED <<clientVars, capVars, evVars, appVars, budget>>

(* The playback queue and the codecs are freed, and xiaozhi_client_destroy *)
(* stops the client once more before it frees it.                          *)
DestroyClient ==
    /\ From("joinPlayback", "freeClient") /\ PbJoined
    /\ xiaozhi_client_stop
    /\ decoder' = FALSE
    /\ UNCHANGED <<pbVars, capVars, evVars, session, upload, ttsDone,
                   clientStarted, sid, dump, budget>>

(* The client and then the event queue are freed.                          *)
DestroyEnds ==
    /\ From("freeClient", "stopped")
    /\ xiaozhi_client_join
    /\ UNCHANGED <<pbVars, capVars, evVars, appVars, budget>>

(* The process is gone. *)
Terminated == mpc = "stopped" /\ UNCHANGED vars

-----------------------------------------------------------------------------
(* The network thread: the client's steps with the callbacks of app.c.     *)

Net == UNCHANGED <<pbVars, capVars, appVars, stopReq, mainVars, presses>>

(* Mutant: a lost connection is reported only while uploading. *)
app_client_on_disconnected_Quiet ==
    IF stopReq \/ ~upload THEN Silently ELSE Raise("ERROR")

(* app_client_on_disconnected: silent once a stop has been requested.      *)
app_client_on_disconnected == IF stopReq THEN Silently ELSE Raise("ERROR")

NetInitFails ==
    /\ ThreadInitFails /\ Fault("init")
    /\ Raise("ERROR")
    /\ Net /\ UNCHANGED <<srv, unheard, served>>

NetConnects ==
    /\ ThreadConnects /\ NoFault
    /\ srv' = "deaf" /\ unheard' = FALSE
    /\ Silently
    /\ Net /\ UNCHANGED served

NetEstablished ==
    /\ Established /\ NoFault
    /\ Raise("WS_CONNECTED")
    /\ Net /\ UNCHANGED <<srv, unheard, served>>

NetConnectionError ==
    /\ ConnectionError /\ Fault("connect")
    /\ Raise("ERROR")
    /\ Net /\ UNCHANGED <<srv, unheard, served>>

(* Only a server that was speaking leaves the beginning of a text behind.  *)
Tears == leftover' => leftover \/ ("torn" \in Faults /\ srv # "deaf")

NetClosed ==
    /\ Closed /\ Fault("drop") /\ Tears
    /\ app_client_on_disconnected
    /\ Net /\ UNCHANGED <<srv, unheard, served>>

(* External: what the server makes of a message. *)
Heard(m) ==
    CASE m = "hello" /\ srv = "deaf" -> "greeted"
      [] m = "start" /\ srv \in {"ready", "speaking"} -> "listening"
      [] m = "abort" /\ srv \in {"listening", "speaking"} -> "ready"
      [] OTHER -> srv

NetWriteable ==
    /\ Writeable /\ NoFault
    /\ srv' = Heard(NextOut)
    /\ Silently
    /\ Net /\ UNCHANGED <<unheard, served>>

NetWriteFails ==
    /\ WriteFails /\ Fault("write") /\ Tears
    /\ app_client_on_disconnected
    /\ Net /\ UNCHANGED <<srv, unheard, served>>

(* Mutant: closing on behalf of xiaozhi_client_stop goes unreported. *)
NetExits_Silent ==
    /\ ThreadExits /\ NoFault /\ Tears
    /\ Silently
    /\ Net /\ UNCHANGED <<srv, unheard, served>>

NetExits ==
    /\ ThreadExits /\ NoFault /\ Tears
    /\ CASE net = "open"       -> app_client_on_disconnected
         [] net = "connecting" -> Silently \/ Raise("ERROR")
         [] OTHER              -> Silently
    /\ Net /\ UNCHANGED <<srv, unheard, served>>

(* The last fragment of text m arrives, from a server that follows the     *)
(* protocol.  Behind a leftover it is no message any more: the main loop   *)
(* finds no JSON and drops it, like everything called OTHER.               *)
ServerSays(m, from, to) ==
    /\ srv = from /\ srv' = to
    /\ Receive
    /\ Raise(IF leftover THEN "OTHER" ELSE m)
    /\ Net /\ UNCHANGED served

(* So is a text that does not fit into an event and is cut there.          *)
ServerSaysTooMuch(from, to) == ServerSays("OTHER", from, to) /\ Fault("cut")

NetHello ==
    \/ ServerSays("HELLO", "greeted", "ready") /\ NoFault /\ unheard' = leftover
    \/ /\ ServerSays("HELLO_NOSID", "greeted", "ready") /\ Fault("nosid")
       /\ unheard' = leftover
    \/ ServerSaysTooMuch("greeted", "ready") /\ unheard' = TRUE

NetTtsStart ==
    /\ \/ ServerSays("TTS_START", "listening", "speaking") /\ NoFault
       \/ ServerSaysTooMuch("listening", "speaking")
    /\ UNCHANGED unheard

NetTtsStop ==
    /\ \/ ServerSays("TTS_STOP", "speaking", "ready") /\ NoFault
       \/ ServerSaysTooMuch("speaking", "ready")
    /\ UNCHANGED unheard

(* stt, llm, sentence, system, unknown or malformed: logged and dropped.   *)
NetOther ==
    /\ served > 0 /\ served' = served - 1
    /\ srv # "deaf" /\ Receive /\ Raise("OTHER")
    /\ NoFault /\ Net /\ UNCHANGED <<srv, unheard>>

(* More than a receive buffer holds is reported as an error while the      *)
(* connection stays open.  The text that is lost may be the next the server*)
(* had to say.                                                             *)
NetFrameTooLarge ==
    /\ Fault("bigframe")
    /\ ReceiveTooLarge
    /\ Raise("ERROR")
    /\ \/ UNCHANGED <<srv, unheard>>
       \/ srv = "greeted" /\ srv' = "ready" /\ unheard' = TRUE
       \/ srv = "listening" /\ srv' = "speaking" /\ UNCHANGED unheard
       \/ srv = "speaking" /\ srv' = "ready" /\ UNCHANGED unheard
    /\ Net /\ UNCHANGED served

(* app_client_on_binary: dropped while uploading, decoded and queued for   *)
(* playback otherwise.  A packet with something in front of it, or a bad   *)
(* one, may not decode and is dropped too.                                 *)
NetAudio ==
    /\ net = "open" /\ srv = "speaking"
    /\ served > 0 /\ served' = served - 1
    /\ UNCHANGED pbVars \/ (~upload /\ decoder /\ audio_playback_enqueue)
    /\ NoFault
    /\ UNCHANGED <<clientVars, capVars, evVars, appVars, stopReq, mainVars,
                   srv, unheard, presses>>

-----------------------------------------------------------------------------
(* The playback thread.                                                    *)

Playback == UNCHANGED <<clientVars, capVars, appVars, stopReq, mainVars, srv,
                        unheard, presses, served>>

PlaybackQuiet == /\ PbWake \/ PbStopped \/ PbProceeds \/ PbTake \/ PbWritten
                 /\ Silently /\ NoFault /\ Playback

PlaybackFails == PbDeviceFails /\ Fault("device") /\ Silently /\ Playback

PlaybackFinished == /\ PbNotify
                    /\ Raise("PLAYBACK_FINISHED") /\ NoFault /\ Playback

-----------------------------------------------------------------------------
(* The capture thread and app_capture_on_pcm.                              *)

Capture == UNCHANGED <<pbVars, appVars, stopReq, mainVars, srv, unheard,
                       budget>>

CaptureQuiet ==
    /\ CapOpen(MicWorks) \/ CapRead \/ CapTail
    /\ Silently /\ Capture /\ UNCHANGED clientVars

(* Only while uploading is a chunk encoded; encoding may yield nothing.    *)
CaptureEncode ==
    /\ cappc = "frame"
    /\ \E pc \in {"packet", "tail"} : (upload \/ pc = "tail") /\ CapGoto(pc)
    /\ Silently /\ Capture /\ UNCHANGED clientVars

(* The packet goes to the dump file, if it is still open, and to the       *)
(* client, whether or not the upload is still enabled.                     *)
CaptureQueue ==
    /\ cappc = "packet"
    /\ xiaozhi_client_queue_binary
    /\ CapGoto("tail")
    /\ Silently /\ Capture

CaptureSilence ==
    /\ CapTimeout
    /\ Raise("SILENCE")
    /\ Capture /\ UNCHANGED clientVars

-----------------------------------------------------------------------------
MainStep ==
    \/ RunStart \/ LoopGoesOn \/ LoopEnds \/ Pop \/ PopTimeout
    \/ HandleIgnored \/ HandleConnect \/ HandleConnected \/ HandleStartListen
    \/ HandleStopListen \/ HandleAbort \/ StopAbort \/ JoinAbort \/ RestartAbort
    \/ HandleError \/ BackoffEnds \/ JoinReturn \/ RestartReturn
    \/ HandleHello \/ HandleTtsStart \/ HandleTtsStop \/ HandleFinished
    \/ HandleShutdown
    \/ PollNothing \/ PollEnter \/ PollQuit
    \/ DestroyBegin \/ DestroyJoinClient \/ DestroyStopCapture
    \/ DestroyStopPlayback \/ DestroyClient \/ DestroyEnds

(* What the network thread does by itself ... *)
NetStep == NetConnects \/ NetEstablished \/ NetWriteable \/ NetExits

(* ... what the server makes it do ... *)
ServerStep == NetHello \/ NetTtsStart \/ NetTtsStop \/ NetOther \/ NetAudio

(* ... and what goes wrong. *)
NetFault == \/ NetInitFails \/ NetConnectionError \/ NetClosed
            \/ NetWriteFails \/ NetFrameTooLarge

PlaybackStep == PlaybackQuiet \/ PlaybackFinished

CaptureStep == CaptureQuiet \/ CaptureEncode \/ CaptureQueue \/ CaptureSilence

Next == \/ MainStep \/ Sigint \/ Terminated
        \/ NetStep \/ ServerStep \/ NetFault
        \/ PlaybackStep \/ PlaybackFails
        \/ CaptureStep

Spec == Init /\ [][Next]_vars

(* Threads keep running, and the back-off sleep, reads and writes return.  *)
(* The network thread looks at running after every call of lws_service, so *)
(* traffic does not keep it from leaving its loop.                         *)
Fairness == /\ WF_vars(MainStep)
            /\ WF_vars(NetStep)
            /\ WF_vars(NetExits)
            /\ WF_vars(PlaybackStep)
            /\ WF_vars(CaptureStep)

(* A server that answers hello and finishes what it starts.                *)
ServerFairness == SF_vars(NetHello) /\ WF_vars(NetTtsStop)

FairSpec == Spec /\ Fairness
HealthySpec == FairSpec /\ ServerFairness
=============================================================================
