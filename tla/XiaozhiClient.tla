---------------------------- MODULE XiaozhiClient ----------------------------
(***************************************************************************)
(* src/xiaozhi_client.c: the websocket client object and its network       *)
(* thread.  One action per API call and per libwebsockets callback; the    *)
(* callbacks into app.c (on_connected, on_error, ...) belong to AppRuntime,*)
(* which conjoins them with these actions.                                 *)
(*                                                                         *)
(* client->wsi is set exactly when net is "connecting" or "open", and      *)
(* client->connected exactly when net is "open".                           *)
(***************************************************************************)
EXTENDS Naturals, Sequences

CONSTANTS TextCap,      \* pending texts at which ensure_text_capacity fails
          BinCap        \* blocks of pending_binary (32 in the code)

ASSUME ClientCapAssumption == TextCap \in Nat \ {0} /\ BinCap \in Nat \ {0}

VARIABLES running,      \* client->running
          net,          \* where the network thread is
          pendText,     \* client->pending_text, oldest first
          pendBin,      \* how many blocks client->pending_binary holds
          writable,     \* a WRITEABLE callback has been asked for
          wire,         \* history: what was written on this connection
          leftover      \* recv_text begins with what another connection left

clientVars == <<running, net, pendText, pendBin, writable, wire, leftover>>

Texts == {"hello", "start", "stop", "abort"}

NetStates == { "none",          \* no thread
               "starting",      \* thread created, no connection asked for yet
               "connecting",    \* wsi exists, handshake under way
               "open",          \* ESTABLISHED
               "idle",          \* connection gone, thread still in its loop
               "exited" }       \* thread returned, not joined

NetAlive == net \in {"starting", "connecting", "open", "idle"}

(* A fresh connection has carried nothing. *)
FreshWire == [first |-> "nothing", hello |-> FALSE]

Written(w, m) == [ first |-> IF w.first = "nothing" THEN m ELSE w.first,
                   hello |-> w.hello \/ m = "hello" ]

ClientTypeOK ==
    /\ running \in BOOLEAN
    /\ net \in NetStates
    /\ pendText \in Seq(Texts) /\ Len(pendText) \in 0..TextCap
    /\ pendBin \in 0..BinCap
    /\ writable \in BOOLEAN
    /\ wire \in [first : Texts \cup {"nothing", "audio"}, hello : BOOLEAN]
    /\ leftover \in BOOLEAN

ClientInit ==
    /\ running = FALSE /\ net = "none"
    /\ pendText = <<>> /\ pendBin = 0
    /\ writable = FALSE /\ wire = FreshWire /\ leftover = FALSE

-----------------------------------------------------------------------------
(* The API, called from the main thread and the capture thread.            *)

(* xiaozhi_client_signal_writable: asks for a callback if there is a wsi.  *)
(* While the handshake is under way the request has no effect of its own:  *)
(* ESTABLISHED asks again.                                                 *)
signal_writable == writable' = (writable \/ net = "open")

(* ok is the outcome of pthread_create; a running client is left alone and *)
(* reported as started.                                                    *)
xiaozhi_client_start(ok) ==
    /\ running => ok
    /\ IF ok /\ ~running
       THEN running' = TRUE /\ net' = "starting"
       ELSE UNCHANGED <<running, net>>
    /\ UNCHANGED <<pendText, pendBin, writable, wire, leftover>>

(* xiaozhi_client_stop up to pthread_join ... *)
xiaozhi_client_stop ==
    /\ running' = FALSE
    /\ UNCHANGED <<net, pendText, pendBin, writable, wire, leftover>>

(* ... and the return of pthread_join: the caller waits for the thread.    *)
(* A client that was not running has no thread and returns at once.        *)
xiaozhi_client_join ==
    /\ net \in {"none", "exited"}
    /\ net' = "none"
    /\ UNCHANGED <<running, pendText, pendBin, writable, wire, leftover>>

(* ok is the outcome: FALSE is a failed realloc in ensure_text_capacity.   *)
xiaozhi_client_queue_text(m, ok) ==
    /\ ok <=> Len(pendText) < TextCap
    /\ IF ok
       THEN pendText' = Append(pendText, m) /\ signal_writable
       ELSE UNCHANGED <<pendText, writable>>
    /\ UNCHANGED <<running, net, pendBin, wire, leftover>>

xiaozhi_client_queue_binary ==
    /\ IF pendBin < BinCap
       THEN pendBin' = pendBin + 1 /\ signal_writable
       ELSE UNCHANGED <<pendBin, writable>>
    /\ UNCHANGED <<running, net, pendText, wire, leftover>>

-----------------------------------------------------------------------------
(* The network thread and the libwebsockets callbacks it runs.             *)

(* lws_create_context, lws_parse_uri or lws_client_connect_via_info fails: *)
(* the thread reports the error and returns with client->running still set.*)
ThreadInitFails ==
    /\ net = "starting"
    /\ net' = "exited"
    /\ UNCHANGED <<running, pendText, pendBin, writable, wire, leftover>>

(* The connection attempt begins.  Whatever an earlier connection left in  *)
(* pending_text and pending_binary is still there.                         *)
ThreadConnects ==
    /\ net = "starting"
    /\ net' = "connecting"
    /\ writable' = FALSE
    /\ wire' = FreshWire
    /\ UNCHANGED <<running, pendText, pendBin, leftover>>

(* Mutant: ESTABLISHED does not ask for a callback. *)
Established_NoSignal ==
    /\ net = "connecting"
    /\ net' = "open"
    /\ UNCHANGED <<running, pendText, pendBin, writable, wire, leftover>>

(* LWS_CALLBACK_CLIENT_ESTABLISHED *)
Established ==
    /\ net = "connecting"
    /\ net' = "open"
    /\ writable' = TRUE
    /\ UNCHANGED <<running, pendText, pendBin, wire, leftover>>

(* LWS_CALLBACK_CLIENT_CONNECTION_ERROR *)
ConnectionError ==
    /\ net = "connecting"
    /\ net' = "idle"
    /\ writable' = FALSE
    /\ UNCHANGED <<running, pendText, pendBin, wire, leftover>>

(* A connection ends, perhaps in the middle of a text: what has come of it *)
(* stays in recv_text, whoever asked for the end.                          *)
Cut == leftover' \in {leftover, TRUE}

(* LWS_CALLBACK_CLIENT_CLOSED while the thread keeps running *)
Closed ==
    /\ net = "open"
    /\ net' = "idle"
    /\ writable' = FALSE
    /\ Cut
    /\ UNCHANGED <<running, pendText, pendBin, wire>>

(* The message a WRITEABLE callback takes: texts before audio.             *)
NextOut == IF pendText # <<>> THEN Head(pendText)
           ELSE IF pendBin > 0 THEN "audio" ELSE "nothing"

TakeOut ==
    /\ pendText' = IF pendText # <<>> THEN Tail(pendText) ELSE pendText
    /\ pendBin' = IF NextOut = "audio" THEN pendBin - 1 ELSE pendBin

(* LWS_CALLBACK_CLIENT_WRITEABLE: write one message, ask again if more wait*)
Writeable ==
    /\ net = "open" /\ writable
    /\ TakeOut
    /\ wire' = IF NextOut = "nothing" THEN wire ELSE Written(wire, NextOut)
    /\ writable' = (pendText' # <<>> \/ pendBin' > 0)
    /\ UNCHANGED <<running, net, leftover>>

(* lws_write (or the allocation before it) fails: the message is gone, the *)
(* callback returns -1 and libwebsockets closes the connection (CLOSED).   *)
WriteFails ==
    /\ net = "open" /\ writable /\ NextOut # "nothing"
    /\ TakeOut
    /\ net' = "idle"
    /\ writable' = FALSE
    /\ Cut
    /\ UNCHANGED <<running, wire>>

(* LWS_CALLBACK_CLIENT_RECEIVE with the last fragment of a text: what is   *)
(* handed on is whole only if nothing was in front of it.                  *)
Receive ==
    /\ net = "open"
    /\ leftover' = FALSE
    /\ UNCHANGED <<running, net, pendText, pendBin, writable, wire>>

(* RECEIVE with more than a buffer holds.  A text empties recv_text; audio *)
(* has a buffer of its own.                                                *)
ReceiveTooLarge ==
    /\ net = "open"
    /\ leftover' \in {leftover, FALSE}
    /\ UNCHANGED <<running, net, pendText, pendBin, writable, wire>>

(* The loop sees running = 0 and destroys the context.  libwebsockets then *)
(* closes what is open, through the same CLOSED callback; for a handshake  *)
(* under way it may report a connection error.                             *)
ThreadExits ==
    /\ ~running
    /\ net \in {"connecting", "open", "idle"}
    /\ net' = "exited"
    /\ writable' = FALSE
    /\ IF net = "open" THEN Cut ELSE UNCHANGED leftover
    /\ UNCHANGED <<running, pendText, pendBin, wire>>

-----------------------------------------------------------------------------
(***************************************************************************)
(* The client on its own: any call at any time, and any callback where the *)
(* network thread is.                                                      *)
(***************************************************************************)
ClientNext ==
    \/ \E ok \in BOOLEAN : xiaozhi_client_start(ok)
    \/ xiaozhi_client_stop \/ xiaozhi_client_join
    \/ \E m \in Texts, ok \in BOOLEAN : xiaozhi_client_queue_text(m, ok)
    \/ xiaozhi_client_queue_binary
    \/ ThreadInitFails \/ ThreadConnects \/ Established \/ ConnectionError
    \/ Closed \/ Writeable \/ WriteFails \/ Receive \/ ReceiveTooLarge
    \/ ThreadExits

ClientSpec == ClientInit /\ [][ClientNext]_clientVars
=============================================================================
