----------------------------- MODULE AppPromises -----------------------------
(***************************************************************************)
(* What docs/superpowers/specs/2026-03-14-xiaozhi-websocket-client-design  *)
(* says of the running client and the code does not do.  Each property     *)
(* quotes its line; the violation runs show how the code gets there.       *)
(***************************************************************************)
EXTENDS AppProperties

(***************************************************************************)
(* Line 148: no complex object is shared between threads.  So the main     *)
(* thread never handles a hello, which may destroy and rebuild             *)
(* app->decoder (lines 457-459 of app.c), while the network thread may     *)
(* decode with it.  A hello of an earlier connection, handled late, begins *)
(* a round before that of the present one is handled.                      *)
(***************************************************************************)
DecoderUnshared ==
    ~(/\ mpc = "handle" /\ cur \in {"HELLO", "HELLO_NOSID"}
      /\ net = "open" /\ srv = "speaking" /\ served > 0 /\ ~upload /\ decoder)

(***************************************************************************)
(* Lines 394-395 and 413: after an error or an interruption the client     *)
(* reconnects by itself.  Stopping an open connection raises an ERROR of   *)
(* its own, and handling that one stops the connection opened meanwhile.   *)
(***************************************************************************)
ReconnectSettles == <>[](session # "ERROR_BACKOFF") \/ <>refused

(***************************************************************************)
(* Line 394: a wait for the server's hello that takes too long is an error *)
(* like the loss of the connection.  There is no such timeout, and the     *)
(* wait has no end after a hello that came behind what an earlier          *)
(* connection had left in recv_text.                                       *)
(***************************************************************************)
HandshakeEnds == session = "HANDSHAKING" ~> session # "HANDSHAKING" \/ refused

(***************************************************************************)
(* Lines 394-395: when the server disconnects, the round is cleared and the*)
(* client reconnects by itself.  The restart after the back-off may fail   *)
(* (line 416 of app.c), and then nothing tries again.                      *)
(***************************************************************************)
ErrorReconnects ==
    session = "ERROR_BACKOFF" /\ wire.hello
      ~> net \in {"connecting", "open"} \/ refused

(***************************************************************************)
(* Line 191: the hello is what is sent when the connection is up; line 395:*)
(* an error clears the round.  The audio of a lost round stays pending,    *)
(* and packets the capture thread was at are added to it; all of it goes   *)
(* out on the next connection before its hello is queued.                  *)
(***************************************************************************)
AudioAfterHello == wire.first # "audio"

(***************************************************************************)
(* Lines 402-403: a playback that fails is rebuilt, or the program ends    *)
(* and says why.  The block is dropped without a word to the main loop: if *)
(* it was the last of a round the server has finished, the round does not  *)
(* end (lines 240 and 261 of audio_playback.c).                            *)
(***************************************************************************)
DeviceFailureEndsRound == RoundEnds
=============================================================================
