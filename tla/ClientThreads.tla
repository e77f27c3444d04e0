---------------------------- MODULE ClientThreads ----------------------------
(***************************************************************************)
(* src/xiaozhi_client.c at the grain at which its threads meet.  The main  *)
(* thread queues texts, starts and stops the client; the capture thread    *)
(* queues audio; the network thread opens, serves and destroys.  The       *)
(* pending messages and running are behind client->mutex, and a section    *)
(* under it is one step; client->wsi and client->context are read without  *)
(* it, and a look at one of them and its use are two steps.  What the use  *)
(* of something freed does is anybody's guess; here it does nothing, and   *)
(* stale records who has done it.                                          *)
(***************************************************************************)
EXTENDS Integers, Sequences, SequencesExt

CONSTANTS MaxTexts,     \* bound: texts queued
          MaxBlocks,    \* bound: blocks of audio queued
          MaxStarts,    \* bound: times the client is started
          MaxTrouble,   \* bound: failures of the thread and the connection
          FirstCap      \* capacity ensure_text_capacity begins with (4)

ASSUME ThreadsAssumption ==
    /\ MaxTexts \in Nat /\ MaxBlocks \in Nat /\ MaxStarts \in Nat
    /\ MaxTrouble \in Nat /\ FirstCap \in Nat \ {0}

VARIABLES running,      \* client->running
          context,      \* client->context
          wsi,          \* client->wsi
          connected,    \* client->connected
          texts,        \* client->pending_text, by the number of each text
          capacity,     \* client->pending_text.capacity
          blocks,       \* blocks in client->pending_binary
          mpc, cpc, npc, \* where main, capture and network thread are
          held,         \* what has become of what capture has looked at
          asked,        \* a WRITEABLE callback is due
          hand,         \* what the WRITEABLE callback has taken
          queued, pushed, starts, trouble, \* counts against the bounds
          out,          \* history: texts written
          lost,         \* history: texts whose write failed
          stale         \* history: who has used something freed

shared == <<running, context, wsi, connected>>
pending == <<texts, capacity, blocks>>
counts == <<queued, pushed, starts, trouble>>
history == <<out, lost, stale>>
vars == <<shared, pending, mpc, cpc, npc, held, asked, hand, counts, history>>

Pointer == {"null", "live", "freed"}

(* Main: a text is stored after room was made for it; a wake-up looks at   *)
(* wsi, uses it, looks at context, uses it; stop looks at context, uses it *)
(* and joins.                                                              *)
MainPlaces == {"free", "store", "lookWsi", "useWsi", "lookContext", "useContext",
               "stopLook", "stopUse", "join"}
CapturePlaces == {"free", "lookWsi", "useWsi", "lookContext", "useContext"}
NetPlaces == {"none", "create", "connect", "handshake", "established", "open",
              "taken", "written", "idle", "destroy", "clear", "exited"}

TypeOK ==
    /\ running \in BOOLEAN /\ connected \in BOOLEAN
    /\ context \in Pointer /\ wsi \in Pointer
    /\ texts \in Seq(1..MaxTexts) /\ capacity \in Nat /\ blocks \in 0..MaxBlocks
    /\ mpc \in MainPlaces /\ cpc \in CapturePlaces /\ npc \in NetPlaces
    /\ held \in Pointer /\ asked \in BOOLEAN
    /\ hand \in {<<>>} \cup {<<k>> : k \in 0..MaxTexts}
    /\ queued \in 0..MaxTexts /\ pushed \in 0..MaxBlocks
    /\ starts \in 0..MaxStarts /\ trouble \in 0..MaxTrouble
    /\ out \in Seq(1..MaxTexts) /\ lost \subseteq 1..MaxTexts
    /\ stale \subseteq {"wakeup", "stop", "capture"}

Init ==
    /\ running = FALSE /\ connected = FALSE
    /\ context = "null" /\ wsi = "null"
    /\ texts = <<>> /\ capacity = 0 /\ blocks = 0
    /\ mpc = "free" /\ cpc = "free" /\ npc = "none" /\ held = "null"
    /\ asked = FALSE /\ hand = <<>>
    /\ queued = 0 /\ pushed = 0 /\ starts = 0 /\ trouble = 0
    /\ out = <<>> /\ lost = {} /\ stale = {}

Main(from, to) == /\ mpc = from /\ mpc' = to
                  /\ UNCHANGED <<cpc, npc, held, hand, pushed, trouble, out, lost>>

Touches(who, pointer) ==
    stale' = IF pointer = "live" THEN stale ELSE stale \cup {who}

-----------------------------------------------------------------------------
(* The main thread.                                                        *)

(* Mutant: no room is asked for the text to come. *)
ensure_text_capacity_OffByOne ==
    capacity' = IF capacity > 0 /\ capacity >= Len(texts) THEN capacity
                ELSE IF capacity = 0 THEN FirstCap ELSE 2 * capacity

(* Room for one text more; one doubling is always enough for that. *)
ensure_text_capacity ==
    capacity' = IF capacity >= Len(texts) + 1 THEN capacity
                ELSE IF capacity = 0 THEN FirstCap ELSE 2 * capacity

QueueText ==
    /\ queued < MaxTexts
    /\ Main("free", "store")
    /\ ensure_text_capacity
    /\ UNCHANGED <<shared, texts, blocks, asked, queued, starts, stale>>

(* The copy is made between the two sections. *)
StoreText ==
    /\ Main("store", "lookWsi")
    /\ queued' = queued + 1
    /\ texts' = Append(texts, queued + 1)
    /\ UNCHANGED <<shared, capacity, blocks, asked, starts, stale>>

(* xiaozhi_client_signal_writable *)
Look(at, pointer, use, next) ==
    /\ Main(at, IF pointer = "null" THEN next ELSE use)
    /\ UNCHANGED <<shared, pending, asked, queued, starts, stale>>

LookWsi == Look("lookWsi", wsi, "useWsi", "lookContext")
LookContext == Look("lookContext", context, "useContext", "free")

UseWsi ==
    /\ Main("useWsi", "lookContext")
    /\ asked' = (asked \/ wsi = "live")
    /\ Touches("wakeup", wsi)
    /\ UNCHANGED <<shared, pending, queued, starts>>

UseContext ==
    /\ Main("useContext", "free")
    /\ Touches("wakeup", context)
    /\ UNCHANGED <<shared, pending, asked, queued, starts>>

(* ok is the outcome of pthread_create.  A client that runs is left alone. *)
xiaozhi_client_start(ok) ==
    /\ mpc = "free" /\ ~running /\ starts < MaxStarts
    /\ starts' = starts + 1
    /\ ok \/ trouble < MaxTrouble
    /\ IF ok THEN running' = TRUE /\ npc' = "create" /\ UNCHANGED trouble
       ELSE trouble' = trouble + 1 /\ UNCHANGED <<running, npc>>
    /\ UNCHANGED <<context, wsi, connected, pending, mpc, cpc, held, asked, hand,
                   queued, pushed, history>>

StopBegins ==
    /\ running
    /\ Main("free", "stopLook")
    /\ running' = FALSE
    /\ UNCHANGED <<context, wsi, connected, pending, asked, queued, starts, stale>>

StopLook == Look("stopLook", context, "stopUse", "join")

(* lws_cancel_service only cuts the 50 ms of lws_service short.  The       *)
(* thread may have destroyed the context since the look.                   *)
StopUse == /\ Main("stopUse", "join")
           /\ Touches("stop", context)
           /\ UNCHANGED <<shared, pending, asked, queued, starts>>

(* Mutant: the thread is not joined. *)
StopJoin_NoJoin ==
    /\ Main("join", "free")
    /\ UNCHANGED <<shared, pending, asked, queued, starts, stale>>

StopJoin ==
    /\ mpc = "join" /\ mpc' = "free"
    /\ npc = "exited" /\ npc' = "none"
    /\ UNCHANGED <<shared, pending, cpc, held, asked, hand, counts, history>>

MainStep ==
    \/ QueueText \/ StoreText \/ LookWsi \/ UseWsi \/ LookContext \/ UseContext
    \/ \E ok \in BOOLEAN : xiaozhi_client_start(ok)
    \/ StopBegins \/ StopLook \/ StopUse \/ StopJoin

-----------------------------------------------------------------------------
(* The capture thread: queue_binary and its wake-up.                       *)

Capture(from, to) ==
    /\ cpc = from /\ cpc' = to
    /\ UNCHANGED <<shared, texts, capacity, mpc, npc, hand, queued, starts,
                   trouble, out, lost>>

QueueBinary ==
    /\ pushed < MaxBlocks
    /\ Capture("free", "lookWsi")
    /\ pushed' = pushed + 1 /\ blocks' = blocks + 1
    /\ UNCHANGED <<held, asked, stale>>

CaptureLooks(at, pointer, use, next) ==
    /\ Capture(at, IF pointer = "null" THEN next ELSE use)
    /\ held' = pointer
    /\ UNCHANGED <<blocks, pushed, asked, stale>>

CaptureLooksWsi == CaptureLooks("lookWsi", wsi, "useWsi", "lookContext")
CaptureLooksContext == CaptureLooks("lookContext", context, "useContext", "free")

(* By then main may have stopped the client, and started it again: what is *)
(* used is what was looked at or, read once more, what is there now.       *)
CaptureUses(at, p, next) ==
    /\ Capture(at, next)
    /\ held' = "null"
    /\ Touches("capture", p)
    /\ UNCHANGED <<blocks, pushed>>

CaptureUsesWsi == \E p \in {held, wsi} :
                    /\ CaptureUses("useWsi", p, "lookContext")
                    /\ asked' = (asked \/ p = "live")

CaptureUsesContext == \E p \in {held, context} :
                        CaptureUses("useContext", p, "free") /\ UNCHANGED asked

CaptureStep == \/ QueueBinary
               \/ CaptureLooksWsi \/ CaptureUsesWsi
               \/ CaptureLooksContext \/ CaptureUsesContext

-----------------------------------------------------------------------------
(* The network thread and the callbacks libwebsockets makes in it.         *)

(* A thread that goes idle has lost its connection, and one that has been  *)
(* through lws_context_destroy has freed everything.                       *)
Frees(to) == held' = IF \/ held = "live" /\ to = "idle" /\ cpc = "useWsi"
                        \/ held = "live" /\ to = "clear"
                     THEN "freed" ELSE held

Net(from, to) == /\ npc = from /\ npc' = to /\ Frees(to)
                 /\ UNCHANGED <<running, capacity, mpc, cpc, queued, pushed,
                                starts, stale>>

Trouble == trouble < MaxTrouble /\ trouble' = trouble + 1

NoMessages == UNCHANGED <<texts, blocks, hand, out, lost>>

CreateFails == /\ Net("create", "exited") /\ Trouble
               /\ NoMessages /\ UNCHANGED <<context, wsi, connected, asked>>

Create == /\ Net("create", "connect")
          /\ context' = "live"
          /\ NoMessages /\ UNCHANGED <<wsi, connected, asked, trouble>>

(* A url that cannot be parsed or a connection that cannot be begun.       *)
ConnectFails == /\ Net("connect", "destroy") /\ Trouble
                /\ NoMessages /\ UNCHANGED <<context, wsi, connected, asked>>

(* libwebsockets stores the new connection in client->wsi (ccinfo.pwsi).   *)
Connect == /\ Net("connect", "handshake")
           /\ wsi' = "live" /\ asked' = FALSE
           /\ NoMessages /\ UNCHANGED <<context, connected, trouble>>

Established == /\ Net("handshake", "established")
               /\ wsi' = "live" /\ connected' = TRUE
               /\ NoMessages /\ UNCHANGED <<context, asked, trouble>>

(* Mutant: nothing is asked for after the handshake. *)
EstablishedSignals_Not == Net("established", "open")
                          /\ NoMessages
                          /\ UNCHANGED <<context, wsi, connected, asked, trouble>>

EstablishedSignals == /\ Net("established", "open")
                      /\ asked' = TRUE
                      /\ NoMessages
                      /\ UNCHANGED <<context, wsi, connected, trouble>>

(* CONNECTION_ERROR or CLOSED; the connection is freed after the callback. *)
Loses == /\ npc \in {"handshake", "open"} /\ Net(npc, "idle") /\ Trouble
         /\ connected' = FALSE /\ wsi' = "null" /\ asked' = FALSE
         /\ NoMessages /\ UNCHANGED context

(* Mutant: the texts behind the first are not moved up. *)
pop_text_locked_NoMove == IF Len(texts) = 1 THEN <<>> ELSE Front(texts)

pop_text_locked == Tail(texts)

(* Mutant: an empty ring is not told from a block. *)
Take_NoCheck ==
    /\ asked /\ asked' = FALSE
    /\ Net("open", "taken")
    /\ IF texts # <<>>
       THEN hand' = <<Head(texts)>> /\ texts' = pop_text_locked /\ UNCHANGED blocks
       ELSE hand' = <<0>> /\ blocks' = blocks - 1 /\ UNCHANGED texts
    /\ UNCHANGED <<context, wsi, connected, trouble, out, lost>>

(* WRITEABLE: take a text, or else a block (0), or else nothing.           *)
Take ==
    /\ asked /\ asked' = FALSE
    /\ Net("open", "taken")
    /\ IF texts # <<>>
       THEN hand' = <<Head(texts)>> /\ texts' = pop_text_locked /\ UNCHANGED blocks
       ELSE IF blocks > 0
       THEN hand' = <<0>> /\ blocks' = blocks - 1 /\ UNCHANGED texts
       ELSE UNCHANGED <<hand, texts, blocks>>
    /\ UNCHANGED <<context, wsi, connected, trouble, out, lost>>

Write == /\ Net("taken", "written")
         /\ hand' = <<>>
         /\ out' = IF hand \in {<<>>, <<0>>} THEN out ELSE out \o hand
         /\ UNCHANGED <<context, wsi, connected, texts, blocks, asked, trouble, lost>>

(* The callback returns -1, and the connection is closed. *)
WriteFails == /\ hand # <<>>
              /\ Net("taken", "idle") /\ Trouble
              /\ hand' = <<>> /\ lost' = lost \cup (ToSet(hand) \ {0})
              /\ connected' = FALSE /\ wsi' = "null" /\ asked' = FALSE
              /\ UNCHANGED <<context, texts, blocks, out>>

(* Mutant: only texts are worth another callback. *)
AskAgain_TextsOnly == /\ Net("written", "open")
                      /\ asked' = (asked \/ Len(texts) > 1)
                      /\ NoMessages
                      /\ UNCHANGED <<context, wsi, connected, trouble>>

AskAgain == /\ Net("written", "open")
            /\ asked' = (asked \/ texts # <<>> \/ blocks > 0)
            /\ NoMessages
            /\ UNCHANGED <<context, wsi, connected, trouble>>

(* lws_service returns, by itself after 50 ms, and running is looked at.   *)
LeavesLoop == /\ npc \in {"handshake", "open", "idle"} /\ ~running
              /\ Net(npc, "destroy")
              /\ NoMessages
              /\ UNCHANGED <<context, wsi, connected, asked, trouble>>

(* lws_context_destroy closes what is open, through the same callbacks; of *)
(* a handshake under way it may say nothing, and wsi is left dangling.     *)
Destroys == /\ Net("destroy", "clear")
            /\ context' = "freed"
            /\ wsi' \in IF wsi = "live" /\ ~connected THEN {"null", "freed"}
                        ELSE {"null"}
            /\ connected' = FALSE /\ asked' = FALSE
            /\ NoMessages /\ UNCHANGED trouble

Clears == /\ Net("clear", "exited")
          /\ context' = "null" /\ wsi' = "null" /\ connected' = FALSE
          /\ NoMessages /\ UNCHANGED <<asked, trouble>>

NetStep == \/ Create \/ Connect \/ Established \/ EstablishedSignals
           \/ Take \/ Write \/ AskAgain \/ LeavesLoop \/ Destroys \/ Clears

NetTrouble == CreateFails \/ ConnectFails \/ Loses \/ WriteFails

Next == MainStep \/ CaptureStep \/ NetStep \/ NetTrouble

(* A call that has begun goes on; nothing makes main begin one.  The       *)
(* network thread runs, and traffic does not keep it in its loop.          *)
MainGoesOn == MainStep /\ mpc # "free"

Fairness == /\ WF_vars(MainGoesOn) /\ WF_vars(CaptureStep)
            /\ WF_vars(NetStep) /\ WF_vars(LeavesLoop)

Spec == Init /\ [][Next]_vars

-----------------------------------------------------------------------------
(***************************************************************************)
(* A text is stored inside the array, although the room was made in an     *)
(* earlier section and the network thread takes texts in between.          *)
(***************************************************************************)
TextFits == Len(texts) <= capacity

(* Texts that have gone out, the one that is being written and those that  *)
(* wait, as the peer will see them.                                        *)
handText == IF hand = <<0>> THEN <<>> ELSE hand
passing == out \o handText \o texts

Increasing(s) == \A i, j \in DOMAIN s : i < j => s[i] < s[j]

(***************************************************************************)
(* Texts go out in the order they were queued, each once, across restarts; *)
(* the only ones missing are those whose own write failed.                 *)
(***************************************************************************)
WrittenInOrder == Increasing(passing) /\ ToSet(passing) = (1..queued) \ lost

(***************************************************************************)
(* Every text that xiaozhi_client_queue_text was given is kept where there *)
(* is room for it and comes out in its turn.                               *)
(***************************************************************************)
TextsKept == TextFits /\ WrittenInOrder

(***************************************************************************)
(* On an open connection nothing waits without somebody due to see it: a   *)
(* callback is asked for, or a thread has yet to ask - on the connection   *)
(* there is, not on one before it that it has looked at.                   *)
(***************************************************************************)
SomebodyWillAsk ==
    npc = "open" /\ (texts # <<>> \/ blocks > 0) =>
        \/ asked
        \/ mpc \in {"lookWsi", "useWsi"}
        \/ cpc = "lookWsi" \/ (cpc = "useWsi" /\ held = "live")

(***************************************************************************)
(* wsi and context are looked at and used without the mutex, and the       *)
(* network thread frees what they point to.  While nothing fails, a wake-up*)
(* of the main thread touches nothing freed, as its own stop joins the     *)
(* thread that frees; and until main stops the client, nobody does.        *)
(***************************************************************************)
SafeUntilStopped ==
    /\ "wakeup" \in stale => trouble > 0
    /\ stale # {} => trouble > 0 \/ starts > 1 \/ ~running

(***************************************************************************)
(* The design has the threads share nothing but the blocks and the events  *)
(* they exchange.  Then nobody could use what another thread has freed.    *)
(* But xiaozhi_client_stop lowers running before it looks at context, and  *)
(* the capture thread wakes up a client that main may be stopping: no      *)
(* failure is needed.                                                      *)
(***************************************************************************)
NothingFreedIsUsed == stale = {}

(***************************************************************************)
(* A client without a thread has no connection, no context and does not    *)
(* count as connected, whichever way the thread has ended: this is what    *)
(* app_reset_to_idle and the next start find.                              *)
(***************************************************************************)
JoinedIsClean ==
    npc \in {"none", "exited"} => context = "null" /\ wsi = "null" /\ ~connected

(***************************************************************************)
(* What holds of the unlocked pointers: they are used as they were seen    *)
(* until a failure or a stop, and a joined thread leaves none behind.      *)
(***************************************************************************)
PointersSound == SafeUntilStopped /\ JoinedIsClean

(***************************************************************************)
(* xiaozhi_client_stop returns, whatever the thread is in the middle of    *)
(* and even if its wake-up comes too early or too late.                    *)
(***************************************************************************)
StopReturns == mpc = "join" ~> mpc = "free"

(***************************************************************************)
(* While a connection stays open, every text and block queued on it goes   *)
(* out.                                                                    *)
(***************************************************************************)
QueuedGoesOut ==
    npc = "open" /\ (texts # <<>> \/ blocks > 0)
        ~> (texts = <<>> /\ blocks = 0) \/ ~connected \/ ~running

(***************************************************************************)
(* What is asked of the network thread is done: to end and to send.        *)
(***************************************************************************)
Served == StopReturns /\ QueuedGoesOut
=============================================================================
