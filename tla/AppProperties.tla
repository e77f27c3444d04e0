---------------------------- MODULE AppProperties ----------------------------
(***************************************************************************)
(* What makes the running client of AppRuntime correct.                    *)
(***************************************************************************)
EXTENDS AppRuntime

Queued(e) == cur = e \/ \E i \in 1..Len(evq) : evq[i] = e

(* The main loop is going to tear the round down, or was denied the event  *)
(* that would have told it to.                                             *)
ErrorPending == refused \/ Queued("ERROR")

(* app_destroy has begun. *)
Destroying == mpc \in {"destroy", "joinClient", "stopCapture", "joinCapture",
                        "joinPlayback", "freeClient", "stopped"}

(***************************************************************************)
(* While app->upload_enabled is set, the main thread's other fields agree: *)
(* the session is uploading (or sleeping out an error), a session_id is    *)
(* held, the dump file is open and the capture thread has been told.  What *)
(* this does not say is that audio stays with its round: the capture thread*)
(* queues a packet it began before the round ended, and pending audio goes *)
(* out on the next connection, before its hello (AudioAfterHello).         *)
(***************************************************************************)
UploadBacked ==
    upload /\ ~Destroying =>
        /\ session \in {"UPLOADING_AUDIO", "ERROR_BACKOFF"}
        /\ sid /\ dump /\ capUploading

(***************************************************************************)
(* The session never claims to be uploading while nothing is uploaded:     *)
(* START_LISTEN sets the state before it knows whether the listen message  *)
(* and the dump file are there, and relies on the ERROR it raises.         *)
(***************************************************************************)
UploadingIsUploading ==
    session = "UPLOADING_AUDIO" => upload \/ ErrorPending

(***************************************************************************)
(* A session waiting for the server's hello waits for something: the       *)
(* client's hello is queued or written on the connection there is, the     *)
(* answer is on its way, or an ERROR is going to start over.  There is no  *)
(* timeout in HANDSHAKING, so anything else waits for ever - and that is   *)
(* the fate of one whose hello came cut, or behind a leftover of another   *)
(* connection, and was dropped as no JSON (see HandshakeEnds).  The        *)
(* property says that this is the only way to get there.                   *)
(***************************************************************************)
HandshakeBacked ==
    session = "HANDSHAKING" =>
        \/ stopReq \/ ErrorPending
        \/ /\ net \in {"starting", "connecting", "open"}
           /\ \E i \in 1..Len(pendText) : pendText[i] = "hello"
        \/ net = "open" /\ (srv = "greeted" \/ unheard)
        \/ Queued("HELLO") \/ Queued("HELLO_NOSID")

(***************************************************************************)
(* app_reset_to_idle chooses between READY and IDLE by whether the client  *)
(* is connected.  READY without a connection (the next Enter would talk to *)
(* nobody) and IDLE while a client runs (the next Enter would start it     *)
(* again, and wait in CONNECTING for a WS_CONNECTED that has been and gone)*)
(* are passing states: the ERROR of the lost connection is on its way.     *)
(***************************************************************************)
RestIsConnected ==
    /\ session = "READY" => net = "open" \/ stopReq \/ ErrorPending
    /\ session = "IDLE" /\ mpc # "run" => stopReq \/ ErrorPending

(***************************************************************************)
(* app_reset_to_idle takes an open socket for a finished handshake.  With a*)
(* server that gives every session an id, READY has one too, or is as      *)
(* passing - except after a hello that could not be read: a tts/stop of an *)
(* earlier connection then ends a handshake that will never be finished.   *)
(***************************************************************************)
RestIsGenuine ==
    /\ RestIsConnected
    /\ session = "READY" => sid \/ Destroying \/ ErrorPending \/ unheard

(***************************************************************************)
(* A round whose audio the server has finished (tts_done) waits for the    *)
(* PLAYBACK_FINISHED that ends it, and that event is still to come.        *)
(***************************************************************************)
RoundEndBacked ==
    session = "PLAYING_TTS" /\ ttsDone =>
        \/ refused \/ Queued("PLAYBACK_FINISHED")
        \/ pbStop \/ pbq > 0 \/ pbpc \in {"write", "notify"}

(***************************************************************************)
(* app_destroy frees the playback queue and the decoder, which the network *)
(* thread uses, and the client and the event queue, which all threads use, *)
(* only after those threads have ended.  It stops the network thread only  *)
(* if app->client_started says there is one.                               *)
(***************************************************************************)
TeardownSafe ==
    /\ mpc \in {"joinPlayback", "freeClient", "stopped"} =>
         ~NetAlive /\ cappc = "exited"
    /\ mpc \in {"freeClient", "stopped"} => pbpc = "exited"

(***************************************************************************)
(* Nothing waits for a WRITEABLE callback that nobody asked for: while the *)
(* connection is open and pending_text or pending_binary is not empty, a   *)
(* callback is due.  What was queued before the connection came up counts  *)
(* on the request made in ESTABLISHED.                                     *)
(***************************************************************************)
NothingStranded == net = "open" /\ NextOut # "nothing" => writable

(* A requested stop ends with everything joined and freed.                 *)
StopEnds == stopReq ~> mpc = "stopped"

(* A finished round leaves PLAYING_TTS.                                    *)
RoundEnds == session = "PLAYING_TTS" /\ ttsDone
               ~> session # "PLAYING_TTS" \/ stopReq \/ refused

(* A session that can be used, on a connection nobody is about to end.     *)
Usable == /\ session = "READY" /\ sid
          /\ net = "open" /\ running /\ ~Queued("ERROR")

(* The two dead ends of a recovery.  A restart that fails is only logged;  *)
(* a hello that cannot be read is dropped, and nothing bounds the wait.    *)
Stranded == /\ ~Queued("ERROR")
            /\ \/ session = "CONNECTING" /\ ~clientStarted
               \/ session \in {"HANDSHAKING", "READY"} /\ net = "open" /\ unheard

(***************************************************************************)
(* Once the network behaves, the loss of a connection leads back to a      *)
(* usable session or to one of the two dead ends, and to no third one.     *)
(* (AppPromises shows that the two exist, and that an ERROR raised while   *)
(* the connection is still open may go round for ever.)                    *)
(***************************************************************************)
ErrorRecovers == session = "ERROR_BACKOFF"
                   ~> Usable \/ Stranded \/ stopReq \/ refused
=============================================================================
