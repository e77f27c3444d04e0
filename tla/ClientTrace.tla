----------------------------- MODULE ClientTrace -----------------------------
(***************************************************************************)
(* ClientThreads as the application sees it: the threads, taken apart,     *)
(* implement XiaozhiClient.  Two history variables say what a connection   *)
(* has carried and whether it has been served; the mapping reads the rest  *)
(* off the client's own fields and the place of its network thread.        *)
(***************************************************************************)
EXTENDS ClientThreads

CONSTANT Content        \* what the texts say, by their numbers

VARIABLES wire,         \* history: what was taken for this connection
          visited       \* history: a WRITEABLE callback has come on it

traceVars == <<vars, wire, visited>>

(* net: a thread that has not begun to connect is starting, one that has   *)
(* left its loop has as good as exited.                                    *)
Place ==
    [none |-> "none", create |-> "starting", connect |-> "starting",
     handshake |-> "connecting",
     established |-> "open", open |-> "open", taken |-> "open", written |-> "open",
     idle |-> "idle", destroy |-> "exited", clear |-> "exited", exited |-> "exited"]

(* pendText: what the texts that wait say. *)
Said(s) == [i \in DOMAIN s |-> Content[s[i]]]

(* writable: ESTABLISHED has asked for a callback, and a message that waits*)
(* has somebody who will (SomebodyWillAsk).                                *)
Due == Place[npc] = "open" /\ (texts # <<>> \/ blocks > 0 \/ ~visited)

(* leftover: the threads are modelled for what goes out; what comes in is  *)
(* FrameAssembly's.                                                        *)
Client == INSTANCE XiaozhiClient WITH
            net <- Place[npc],
            pendText <- Said(texts),
            pendBin <- blocks,
            writable <- Due,
            leftover <- FALSE,
            TextCap <- MaxTexts + 1,
            BinCap <- MaxBlocks + 1

ASSUME ContentAssumption == Content \in [1..MaxTexts -> Client!Texts]

TraceInit == Init /\ wire = Client!FreshWire /\ visited = FALSE

-----------------------------------------------------------------------------
(* What the WRITEABLE callback takes goes out before anything else can, if *)
(* it goes out at all: it is on the wire from when it is taken.            *)
ConnectTraced == Connect /\ wire' = Client!FreshWire /\ visited' = FALSE

TakeTraced ==
    /\ Take
    /\ visited' = TRUE
    /\ wire' = IF texts # <<>> THEN Client!Written(wire, Content[Head(texts)])
               ELSE IF blocks > 0 THEN Client!Written(wire, "audio")
               ELSE wire

Others == \/ MainStep \/ CaptureStep \/ NetTrouble
          \/ Create \/ Established \/ EstablishedSignals \/ Write \/ AskAgain
          \/ LeavesLoop \/ Destroys \/ Clears

TraceNext == ConnectTraced \/ TakeTraced \/ (Others /\ UNCHANGED <<wire, visited>>)

TraceSpec == TraceInit /\ [][TraceNext]_traceVars
FairSpec == TraceSpec /\ Fairness

-----------------------------------------------------------------------------
(***************************************************************************)
(* Whatever the three threads do between the sections of the mutex and     *)
(* between a look and its use, the application has a client whose calls    *)
(* and callbacks are single steps: in what is pending, in whether it is    *)
(* connected, in what goes out first on a connection and in how it ends.   *)
(***************************************************************************)
ImplementsClient == Client!ClientSpec
=============================================================================
