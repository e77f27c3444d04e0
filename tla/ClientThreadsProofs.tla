------------------------- MODULE ClientThreadsProofs -------------------------
(***************************************************************************)
(* Proofs, for any number of texts, blocks, starts and failures, about the *)
(* threads of ClientThreads: types; that a text is stored inside its       *)
(* array; that nothing pending is forgotten on an open connection; that    *)
(* the unlocked pointers touch nothing freed until a failure or a stop;    *)
(* that texts go out in order, each once; and that the threads implement   *)
(* XiaozhiClient.                                                          *)
(***************************************************************************)
EXTENDS ClientTrace, TLAPS

-----------------------------------------------------------------------------
(* The inductive invariant.                                                *)

StopPlaces == {"stopLook", "stopUse", "join"}

(* What the bounds and the types rest on; a message is in hand between a   *)
(* WRITEABLE callback's two halves only.                                   *)
TypeInv ==
    /\ TypeOK
    /\ blocks <= pushed
    /\ mpc = "store" => queued < MaxTexts
    /\ npc # "taken" => hand = <<>>

(* There is a network thread exactly while the client runs or is being     *)
(* stopped.                                                                *)
ThreadInv ==
    /\ running => npc # "none" /\ mpc \notin StopPlaces
    /\ mpc \in StopPlaces => npc # "none"
    /\ ~running /\ mpc \notin StopPlaces => npc = "none"

(* Room is made for the text to come. *)
RoomInv ==
    /\ TextFits
    /\ mpc = "store" => Len(texts) + 1 <= capacity

Serving == {"established", "open", "taken", "written"}

(* What the pointers are at each place of the network thread. *)
PlaceInv ==
    /\ npc \in {"none", "create", "exited"} => context = "null" /\ wsi = "null" /\ ~connected
    /\ npc \in {"connect", "idle"} => context = "live" /\ wsi = "null" /\ ~connected
    /\ npc = "handshake" => context = "live" /\ wsi = "live"
    /\ npc \in Serving => context = "live" /\ wsi = "live" /\ connected

(* Nothing has failed, and main has not stopped the client yet.            *)
Calm == trouble = 0 /\ (starts = 0 \/ (starts = 1 /\ running))

(* As long as nothing has failed a running client has its thread in the    *)
(* loop, and what main has seen there stays there; until main stops it, so *)
(* does what the capture thread has seen.                                  *)
LivingInv ==
    /\ starts = 0 => npc = "none"
    /\ trouble = 0 /\ running => npc \in {"create", "connect", "handshake"} \cup Serving
    /\ trouble = 0 /\ mpc = "useWsi" => running /\ wsi = "live"
    /\ trouble = 0 /\ mpc = "useContext" => running /\ context = "live"
    /\ trouble = 0 => "wakeup" \notin stale
    /\ Calm => /\ cpc = "useWsi" => held = "live" /\ wsi = "live"
               /\ cpc = "useContext" => held = "live" /\ context = "live"
               /\ stale = {}

-----------------------------------------------------------------------------
(* Types.                                                                  *)

(* Steps of the main thread that leave the messages alone. *)
MainLooks == \/ LookWsi \/ UseWsi \/ LookContext \/ UseContext
             \/ StopBegins \/ StopLook \/ StopUse \/ StopJoin

(* The wake-up of the capture thread. *)
CaptureWakes == \/ CaptureLooksWsi \/ CaptureUsesWsi
                \/ CaptureLooksContext \/ CaptureUsesContext

(* Steps of the network thread that leave the messages alone. *)
NetMoves == \/ CreateFails \/ Create \/ ConnectFails \/ Connect \/ Established
            \/ EstablishedSignals \/ Loses \/ AskAgain \/ LeavesLoop \/ Destroys \/ Clears

(* The steps, in the groups the proofs below treat alike. *)
LEMMA Steps ==
    ASSUME [Next]_vars
    PROVE  \/ QueueText \/ StoreText \/ MainLooks
           \/ \E ok \in BOOLEAN : xiaozhi_client_start(ok)
           \/ QueueBinary \/ CaptureWakes
           \/ NetMoves \/ Take \/ Write \/ WriteFails
           \/ UNCHANGED vars
  BY DEF Next, MainStep, CaptureStep, NetStep, NetTrouble, MainLooks, NetMoves, CaptureWakes

(* A wake-up of the capture thread moves nothing but itself.               *)
LEMMA WakingOnlyAsks ==
    ASSUME CaptureWakes
    PROVE  /\ UNCHANGED <<shared, pending, mpc, npc, hand, counts, out, lost>>
           /\ cpc' \in {"free", "useWsi", "lookContext", "useContext"}
           /\ held' \in {"null", wsi, context}
           /\ asked \in BOOLEAN => asked' \in BOOLEAN
           /\ stale' \in {stale, stale \cup {"capture"}}
<1> USE DEF shared, pending, counts, Capture
<1>1. CASE CaptureLooksWsi \/ CaptureLooksContext
  BY <1>1 DEF CaptureLooksWsi, CaptureLooksContext, CaptureLooks
<1>2. CASE CaptureUsesWsi \/ CaptureUsesContext
  BY <1>2 DEF CaptureUsesWsi, CaptureUsesContext, CaptureUses, Touches
<1> QED
  BY <1>1, <1>2 DEF CaptureWakes

(* What is freed was held. *)
LEMMA FreesType ==
    ASSUME NEW to, Frees(to), held \in Pointer
    PROVE  held' \in Pointer
  BY DEF Frees, Pointer

(* A sequence that is not empty has a head and a tail. *)
LEMMA HeadTail ==
    ASSUME NEW S, NEW s \in Seq(S), s # <<>>
    PROVE  Head(s) \in S /\ Tail(s) \in Seq(S) /\ Len(Tail(s)) = Len(s) - 1
<1>1. Len(s) \in Nat \ {0}
  OBVIOUS
<1> QED
  BY <1>1

(* Every text is one of those that were queued. *)
LEMMA HandType ==
    ASSUME TypeInv
    PROVE  /\ ToSet(hand) \ {0} \subseteq 1..MaxTexts
           /\ hand \notin {<<>>, <<0>>} => hand \in Seq(1..MaxTexts)
<1>1. CASE hand = <<>>
  BY <1>1 DEF ToSet
<1>2. ASSUME NEW k \in 0..MaxTexts, hand = <<k>>
      PROVE  /\ ToSet(hand) \ {0} \subseteq 1..MaxTexts
             /\ hand \notin {<<>>, <<0>>} => hand \in Seq(1..MaxTexts)
  <2>1. ToSet(hand) = {k}
    BY <1>2 DEF ToSet
  <2>2. k # 0 => k \in 1..MaxTexts
    BY ThreadsAssumption
  <2> QED
    BY <1>2, <2>1, <2>2
<1> QED
  BY <1>1, <1>2 DEF TypeInv, TypeOK

(* The types hold at the start ... *)
LEMMA TypeInit == Init => TypeInv
<1> SUFFICES ASSUME Init PROVE TypeInv
  OBVIOUS
<1>1. texts \in Seq(1..MaxTexts) /\ out \in Seq(1..MaxTexts) /\ lost \subseteq 1..MaxTexts
  BY DEF Init
<1>2. /\ blocks \in 0..MaxBlocks /\ queued \in 0..MaxTexts /\ pushed \in 0..MaxBlocks
      /\ starts \in 0..MaxStarts /\ trouble \in 0..MaxTrouble /\ blocks <= pushed
  BY ThreadsAssumption DEF Init
<1> QED
  BY <1>1, <1>2 DEF Init, TypeInv, TypeOK, Pointer, MainPlaces, CapturePlaces, NetPlaces

(* ... and every step keeps them. *)
LEMMA TypeStep == ASSUME TypeInv, ThreadInv, [Next]_vars PROVE TypeInv'
<1> USE ThreadsAssumption
    DEF TypeInv, TypeOK, shared, pending, counts, history
<1>1. CASE QueueText
  <2>1. capacity' \in Nat
    BY <1>1 DEF QueueText, ensure_text_capacity
  <2> QED
    BY <1>1, <2>1 DEF QueueText, Main, MainPlaces
<1>2. CASE StoreText
  <2>1. queued' \in 1..MaxTexts /\ queued' = queued + 1
    BY <1>2 DEF StoreText, Main
  <2>2. texts' \in Seq(1..MaxTexts)
    BY <1>2, <2>1 DEF StoreText
  <2> QED
    BY <1>2, <2>1, <2>2 DEF StoreText, Main, MainPlaces
<1>3. CASE MainLooks
  <2>1. UNCHANGED <<context, wsi, connected, texts, capacity, blocks, cpc, held, hand, queued, pushed,
                    starts, trouble, out, lost>>
    BY <1>3 DEF MainLooks, LookWsi, UseWsi, LookContext, UseContext, StopBegins, StopLook,
                StopUse, StopJoin, Look, Main
  <2>2. /\ mpc' \in MainPlaces /\ mpc' # "store"
        /\ npc' = npc \/ (npc' = "none" /\ npc # "taken")
    <3>1. CASE LookWsi \/ UseWsi \/ LookContext \/ UseContext
      BY <3>1 DEF LookWsi, UseWsi, LookContext, UseContext, Look, Main, MainPlaces
    <3>2. CASE StopBegins \/ StopLook \/ StopUse \/ StopJoin
      BY <3>2 DEF StopBegins, StopLook, StopUse, StopJoin, Look, Main, MainPlaces
    <3> QED
      BY <1>3, <3>1, <3>2 DEF MainLooks
  <2>3. running' \in BOOLEAN /\ asked' \in BOOLEAN 
        /\ stale' \subseteq {"wakeup", "stop", "capture"}
    <3>1. CASE UseWsi \/ UseContext
      BY <3>1 DEF UseWsi, UseContext, Touches
    <3>2. CASE StopBegins \/ StopUse \/ StopJoin
      BY <3>2 DEF StopBegins, StopUse, StopJoin, Touches
    <3>3. CASE LookWsi \/ LookContext \/ StopLook
      BY <3>3 DEF LookWsi, LookContext, StopLook, Look
    <3> QED
      BY <1>3, <3>1, <3>2, <3>3 DEF MainLooks
  <2> QED
    BY <2>1, <2>2, <2>3 DEF NetPlaces
<1>4. ASSUME NEW ok \in BOOLEAN, xiaozhi_client_start(ok) PROVE TypeInv'
  <2>1. UNCHANGED <<context, wsi, connected, texts, capacity, blocks, mpc, cpc, held, asked, hand,
                    queued, pushed, out, lost, stale>>
    BY <1>4 DEF xiaozhi_client_start
  <2>2. /\ running' \in BOOLEAN
        /\ npc' = npc \/ (npc' = "create" /\ npc = "none")
        /\ trouble' \in 0..MaxTrouble /\ starts' \in 0..MaxStarts
    <3>1. CASE ok
      BY <1>4, <3>1 DEF xiaozhi_client_start, ThreadInv, StopPlaces
    <3>2. CASE ~ok
      BY <1>4, <3>2 DEF xiaozhi_client_start
    <3> QED
      BY <3>1, <3>2
  <2> QED
    BY <2>1, <2>2 DEF NetPlaces
<1>5. CASE QueueBinary
  BY <1>5 DEF QueueBinary, Capture, CapturePlaces
<1>6. CASE CaptureWakes
  <2>1. held' \in Pointer /\ cpc' \in CapturePlaces
    BY <1>6, WakingOnlyAsks DEF CapturePlaces, Pointer
  <2> QED
    BY <1>6, <2>1, WakingOnlyAsks
<1>7. CASE NetMoves
  <2>1. UNCHANGED <<texts, blocks, hand, out, lost>>
    BY <1>7 DEF NetMoves, CreateFails, Create, ConnectFails, Connect, Established,
                EstablishedSignals, Loses, AskAgain, LeavesLoop, Destroys, Clears, NoMessages
  <2>2. /\ UNCHANGED <<running, capacity, mpc, cpc, queued, pushed, starts, stale>>
        /\ npc # "taken" /\ npc' # "taken" /\ npc' \in NetPlaces
    BY <1>7 DEF NetMoves, CreateFails, Create, ConnectFails, Connect, Established,
                EstablishedSignals, Loses, AskAgain, LeavesLoop, Destroys, Clears, Net, NetPlaces
  <2>3. context' \in Pointer /\ wsi' \in Pointer /\ connected' \in BOOLEAN /\ asked' \in BOOLEAN
    BY <1>7 DEF NetMoves, CreateFails, Create, ConnectFails, Connect, Established,
                EstablishedSignals, Loses, AskAgain, LeavesLoop, Destroys, Clears, Pointer
  <2>5. held' \in Pointer
    BY <1>7, FreesType DEF NetMoves, CreateFails, Create, ConnectFails, Connect, Established,
                EstablishedSignals, Loses, AskAgain, LeavesLoop, Destroys, Clears, Net
  <2>4. trouble' \in 0..MaxTrouble
    BY <1>7 DEF NetMoves, CreateFails, Create, ConnectFails, Connect, Established,
                EstablishedSignals, Loses, AskAgain, LeavesLoop, Destroys, Clears, Trouble
  <2> QED
    BY <2>1, <2>2, <2>3, <2>4, <2>5
<1>8. CASE Take
  <2>1. /\ asked' = FALSE /\ npc' = "taken" /\ held' \in Pointer
        /\ UNCHANGED <<context, wsi, connected, trouble, out, lost, running, capacity, mpc, cpc,
                       queued, pushed, starts, stale>>
    BY <1>8, FreesType DEF Take, Net
  <2>2. CASE texts # <<>>
    <3>1. hand' = <<Head(texts)>> /\ texts' = Tail(texts) /\ blocks' = blocks
      BY <1>8, <2>2 DEF Take, pop_text_locked
    <3>2. Head(texts) \in 1..MaxTexts /\ Tail(texts) \in Seq(1..MaxTexts)
      BY <2>2, HeadTail
    <3>3. hand' \in {<<>>} \cup {<<k>> : k \in 0..MaxTexts}
      BY ONLY ThreadsAssumption, <3>1, <3>2
    <3> HIDE DEF TypeInv
    <3>4. blocks' \in 0..MaxBlocks /\ blocks' <= pushed
      BY <3>1 DEF TypeInv
    <3>5. texts' \in Seq(1..MaxTexts)
      BY <3>1, <3>2
    <3> QED
      BY <2>1, <3>3, <3>4, <3>5 DEF NetPlaces, TypeInv
  <2>3. CASE texts = <<>>
    <3>1. texts' = texts
      BY <1>8, <2>3 DEF Take
    <3>2. hand' \in {<<>>} \cup {<<k>> : k \in 0..MaxTexts}
      BY <1>8, <2>3 DEF Take
    <3>3. blocks' \in 0..MaxBlocks /\ blocks' <= pushed
      BY <1>8, <2>3 DEF Take
    <3> QED
      BY <2>1, <3>1, <3>2, <3>3 DEF NetPlaces
  <2> QED
    BY <2>2, <2>3
<1>9. CASE Write
  <2>1. out' \in Seq(1..MaxTexts)
    <3>1. CASE hand \in {<<>>, <<0>>}
      BY <1>9, <3>1 DEF Write
    <3>2. CASE hand \notin {<<>>, <<0>>}
      <4>1. out' = out \o hand /\ hand \in Seq(1..MaxTexts) /\ out \in Seq(1..MaxTexts)
        BY <1>9, <3>2, HandType DEF Write
      <4> QED
        BY ONLY <4>1
    <3> QED
      BY <3>1, <3>2
  <2>2. /\ UNCHANGED <<running, capacity, mpc, cpc, queued, pushed, starts, stale>>
        /\ UNCHANGED <<context, wsi, connected, texts, blocks, asked, trouble, lost>>
        /\ npc' = "written" /\ hand' = <<>> /\ held' \in Pointer
    BY <1>9, FreesType DEF Write, Net
  <2> QED
    BY <2>1, <2>2 DEF NetPlaces
<1>10. CASE WriteFails
  <2>1. lost' \subseteq 1..MaxTexts
    BY <1>10, HandType DEF WriteFails
  <2>2. /\ UNCHANGED <<running, capacity, mpc, cpc, queued, pushed, starts, stale>>
        /\ UNCHANGED <<context, texts, blocks, out>>
        /\ npc' = "idle" /\ hand' = <<>> /\ ~connected' /\ wsi' = "null" /\ ~asked'
        /\ trouble' \in 0..MaxTrouble /\ held' \in Pointer
    BY <1>10, FreesType DEF WriteFails, Net, Trouble
  <2>3. connected' \in BOOLEAN /\ asked' \in BOOLEAN
    BY <1>10 DEF WriteFails
  <2> QED
    BY <2>1, <2>2, <2>3 DEF NetPlaces, Pointer
<1>11. CASE UNCHANGED vars
  BY <1>11 DEF vars
<1> QED
  BY <1>1, <1>2, <1>3, <1>4, <1>5, <1>6, <1>7, <1>8, <1>9, <1>10, <1>11, Steps

(* The account of the network thread holds at the start ... *)
LEMMA ThreadInit == Init => ThreadInv
  BY DEF Init, ThreadInv, StopPlaces

(* ... and every step keeps it. *)
LEMMA ThreadStep == ASSUME ThreadInv, [Next]_vars PROVE ThreadInv'
<1> USE DEF ThreadInv, StopPlaces, shared
<1>1. CASE QueueText \/ StoreText
  BY <1>1 DEF QueueText, StoreText, Main
<1>2. CASE LookWsi \/ UseWsi \/ LookContext \/ UseContext
  BY <1>2 DEF LookWsi, UseWsi, LookContext, UseContext, Look, Main
<1>3. CASE StopBegins \/ StopLook \/ StopUse \/ StopJoin
  BY <1>3 DEF StopBegins, StopLook, StopUse, StopJoin, Look, Main
<1>4. ASSUME NEW ok \in BOOLEAN, xiaozhi_client_start(ok) PROVE ThreadInv'
  BY <1>4 DEF xiaozhi_client_start
<1>5. CASE QueueBinary \/ CaptureWakes
  BY <1>5, WakingOnlyAsks DEF QueueBinary, Capture
<1>6. CASE NetMoves \/ Take \/ Write \/ WriteFails
  <2>1. UNCHANGED <<running, mpc>> /\ npc # "none" /\ npc' # "none"
    BY <1>6 DEF NetMoves, CreateFails, Create, ConnectFails, Connect, Established,
                EstablishedSignals, Loses, AskAgain, LeavesLoop, Destroys, Clears,
                Take, Write, WriteFails, Net
  <2> QED
    BY <2>1
<1>7. CASE UNCHANGED vars
  BY <1>7 DEF vars
<1> QED
  BY <1>1, <1>2, <1>3, <1>4, <1>5, <1>6, <1>7, Steps DEF MainLooks

(* The client's fields, the places of its three threads and the history of *)
(* its messages are what src/xiaozhi_client.c allows.                      *)
THEOREM TypeCorrect == Spec => []TypeOK
<1>1. TypeInv => TypeOK
  BY DEF TypeInv
<1> QED
  BY <1>1, TypeInit, TypeStep, ThreadInit, ThreadStep, PTL DEF Spec

-----------------------------------------------------------------------------
(* Room for the texts.                                                     *)

(* There is room at the start ... *)
LEMMA RoomInit == Init => RoomInv
  BY DEF Init, RoomInv, TextFits

(* ... and every step keeps it. *)
LEMMA RoomStep == ASSUME TypeInv, RoomInv, [Next]_vars PROVE RoomInv'
<1>a. Len(texts) \in Nat /\ capacity \in Nat /\ texts \in Seq(1..MaxTexts)
  BY DEF TypeInv, TypeOK
<1>1. CASE QueueText
  <2>1. texts' = texts /\ mpc' = "store" /\ Len(texts) <= capacity
    BY <1>1 DEF QueueText, Main, RoomInv, TextFits
  <2>2. Len(texts) + 1 <= capacity' /\ capacity' \in Nat
    BY <1>1, <1>a, <2>1, ThreadsAssumption DEF QueueText, ensure_text_capacity
  <2> QED
    BY <1>a, <2>1, <2>2 DEF RoomInv, TextFits
<1>2. CASE StoreText
  <2>1. Len(texts') = Len(texts) + 1
    BY <1>2, <1>a DEF StoreText
  <2>2. capacity' = capacity /\ mpc = "store" /\ mpc' = "lookWsi"
    BY <1>2 DEF StoreText, Main
  <2>3. Len(texts) + 1 <= capacity
    BY <2>2 DEF RoomInv
  <2>4. Len(texts') <= capacity'
    BY <2>1, <2>2, <2>3
  <2> QED
    BY <2>2, <2>4 DEF RoomInv, TextFits
<1>3. CASE Take
  <2>1. texts' = texts \/ Len(texts') = Len(texts) - 1
    BY <1>3, HeadTail DEF Take, pop_text_locked, TypeInv, TypeOK
  <2>2. capacity' = capacity /\ mpc' = mpc
    BY <1>3 DEF Take, Net
  <2> QED
    BY <1>a, <2>1, <2>2 DEF RoomInv, TextFits
<1>4. ASSUME UNCHANGED <<texts, capacity>>, mpc' # "store" \/ mpc' = mpc PROVE RoomInv'
  BY <1>4 DEF RoomInv, TextFits
<1>5. CASE MainLooks \/ \E ok \in BOOLEAN : xiaozhi_client_start(ok)
  BY <1>5, <1>4 DEF MainLooks, LookWsi, UseWsi, LookContext, UseContext, StopBegins, StopLook,
                    StopUse, StopJoin, Look, Main, xiaozhi_client_start, shared, pending
<1>6. CASE QueueBinary \/ CaptureWakes
  BY <1>6, <1>4, WakingOnlyAsks DEF QueueBinary, Capture, pending
<1>7. CASE NetMoves \/ Write \/ WriteFails
  BY <1>7, <1>4 DEF NetMoves, CreateFails, Create, ConnectFails, Connect, Established,
                    EstablishedSignals, Loses, AskAgain, LeavesLoop, Destroys, Clears, NoMessages,
                    Write, WriteFails, Net
<1>8. CASE UNCHANGED vars
  BY <1>8, <1>4 DEF vars, pending
<1> QED
  BY <1>1, <1>2, <1>3, <1>5, <1>6, <1>7, <1>8, Steps

(* queue_text_locked stores inside pending_text.items: the room that       *)
(* ensure_text_capacity made is still there when the copied text is put in,*)
(* because only takes come in between.                                     *)
THEOREM TextsFit == Spec => []TextFits
<1>1. RoomInv => TextFits
  BY DEF RoomInv
<1> QED
  BY <1>1, TypeInit, TypeStep, ThreadInit, ThreadStep, RoomInit, RoomStep, PTL DEF Spec

-----------------------------------------------------------------------------
(* The pointers.                                                           *)

(* The pointers agree with the network thread's place at the start ... *)
LEMMA PlaceInit == Init => PlaceInv
  BY DEF Init, PlaceInv, Serving

(* ... and after every step. *)
LEMMA PlaceStep == ASSUME ThreadInv, PlaceInv, [Next]_vars PROVE PlaceInv'
<1> USE DEF PlaceInv, Serving, shared
<1>1. CASE QueueText \/ StoreText
  BY <1>1 DEF QueueText, StoreText, Main
<1>2. CASE LookWsi \/ UseWsi \/ LookContext \/ UseContext \/ StopBegins \/ StopLook \/ StopUse
  BY <1>2 DEF LookWsi, UseWsi, LookContext, UseContext, StopBegins, StopLook, StopUse, Look, Main
<1>3. CASE StopJoin
  BY <1>3 DEF StopJoin
<1>4. ASSUME NEW ok \in BOOLEAN, xiaozhi_client_start(ok) PROVE PlaceInv'
  <2>1. UNCHANGED <<context, wsi, connected>> /\ (npc' = npc \/ (npc' = "create" /\ npc = "none"))
    BY <1>4 DEF xiaozhi_client_start, ThreadInv, StopPlaces
  <2> QED
    BY <2>1
<1>5. CASE QueueBinary \/ CaptureWakes
  BY <1>5, WakingOnlyAsks DEF QueueBinary, Capture
<1>6. CASE NetMoves
  BY <1>6 DEF NetMoves, CreateFails, Create, ConnectFails, Connect, Established,
              EstablishedSignals, Loses, AskAgain, LeavesLoop, Destroys, Clears, Net
<1>7. CASE Take \/ Write \/ WriteFails
  BY <1>7 DEF Take, Write, WriteFails, Net
<1>8. CASE UNCHANGED vars
  BY <1>8 DEF vars
<1> QED
  BY <1>1, <1>2, <1>3, <1>4, <1>5, <1>6, <1>7, <1>8, Steps DEF MainLooks

(* Nothing has been seen of the pointers at the start ... *)
LEMMA LivingInit == Init => LivingInv
  BY DEF Init, LivingInv

(* ... and what is seen of them stays true of a client that has not        *)
(* failed.                                                                 *)
LEMMA LivingStep ==
    ASSUME TypeInv, ThreadInv, PlaceInv, LivingInv, [Next]_vars PROVE LivingInv'
<1> USE DEF LivingInv, Calm, Serving, shared
<1>a. trouble \in Nat /\ starts \in Nat /\ running \in BOOLEAN
  BY ThreadsAssumption DEF TypeInv, TypeOK
<1>1. CASE QueueText \/ StoreText
  BY <1>1 DEF QueueText, StoreText, Main
<1>2. CASE LookWsi \/ LookContext
  BY <1>2 DEF LookWsi, LookContext, Look, Main, ThreadInv, StopPlaces, PlaceInv
<1>3. CASE UseWsi \/ UseContext
  <2>1. /\ UNCHANGED <<running, context, wsi, npc, cpc, held, trouble, starts>>
        /\ mpc' \in {"lookContext", "free"}
    BY <1>3 DEF UseWsi, UseContext, Main
  <2>2. trouble = 0 => stale' = stale
    BY <1>3 DEF UseWsi, UseContext, Main, Touches
  <2> QED
    BY <2>1, <2>2
<1>4. CASE StopBegins \/ StopLook \/ StopUse \/ StopJoin
  <2>1. /\ ~running' /\ mpc' \notin {"useWsi", "useContext"}
        /\ UNCHANGED <<trouble, starts>> /\ npc # "none"
    BY <1>4 DEF StopBegins, StopLook, StopUse, StopJoin, Look, Main, counts,
                ThreadInv, StopPlaces
  <2>2. stale' \subseteq stale \cup {"stop"}
    BY <1>4 DEF StopBegins, StopLook, StopUse, StopJoin, Look, Main, history, Touches
  <2>3. ~Calm'
    BY <2>1
  <2> QED
    BY <2>1, <2>2, <2>3
<1>5. ASSUME NEW ok \in BOOLEAN, xiaozhi_client_start(ok) PROVE LivingInv'
  <2>1. /\ UNCHANGED <<context, wsi, mpc, cpc, held, stale>> /\ mpc = "free"
        /\ starts' = starts + 1
    BY <1>5 DEF xiaozhi_client_start, history
  <2>2. CASE ok
    <3>1. running' /\ npc' = "create" /\ trouble' = trouble /\ starts' # 0
      BY <1>5, <1>a, <2>1, <2>2 DEF xiaozhi_client_start
    <3>2. Calm' => Calm
      BY <1>a, <2>1, <3>1
    <3> QED
      BY <2>1, <3>1, <3>2
  <2>3. CASE ~ok
    <3>1. trouble' # 0 /\ starts' # 0
      BY <1>5, <1>a, <2>1, <2>3 DEF xiaozhi_client_start
    <3> QED
      BY <2>1, <3>1
  <2> QED
    BY <2>2, <2>3
<1>6. CASE QueueBinary
  BY <1>6 DEF QueueBinary, Capture
<1>7. CASE CaptureWakes
  <2>1. /\ UNCHANGED <<running, context, wsi, mpc, npc, trouble, starts>>
        /\ "wakeup" \notin stale => "wakeup" \notin stale'
    BY <1>7, WakingOnlyAsks DEF counts
  <2>2. CASE ~Calm
    BY <2>1, <2>2
  <2>3. CASE Calm /\ (CaptureLooksWsi \/ CaptureLooksContext)
    BY <2>1, <2>3 DEF CaptureLooksWsi, CaptureLooksContext, CaptureLooks, Capture, PlaceInv
  <2>4. CASE Calm /\ (CaptureUsesWsi \/ CaptureUsesContext)
    BY <2>1, <2>4 DEF CaptureUsesWsi, CaptureUsesContext, CaptureUses, Capture, Touches
  <2> QED
    BY <1>7, <2>2, <2>3, <2>4 DEF CaptureWakes
<1>8. CASE CreateFails \/ ConnectFails \/ Loses \/ WriteFails
  <2>1. trouble' # 0 /\ UNCHANGED starts /\ npc # "none"
    BY <1>8, <1>a DEF CreateFails, ConnectFails, Loses, WriteFails, Trouble, Net
  <2> QED
    BY <2>1
<1>9. CASE Create \/ Connect \/ Established \/ EstablishedSignals \/ Take \/ Write \/ AskAgain
  <2>1. npc # "none" /\ npc' \notin {"none", "idle", "clear"} /\ Frees(npc')
    BY <1>9 DEF Create, Connect, Established, EstablishedSignals, Take, Write, AskAgain, Net
  <2>2. UNCHANGED <<running, mpc, cpc, held, trouble, starts, stale>>
    BY <1>9, <2>1 DEF Create, Connect, Established, EstablishedSignals, Take, Write, AskAgain,
                      Net, Frees
  <2>3. /\ npc' \in {"connect", "handshake"} \cup Serving
        /\ wsi = "live" => wsi' = "live"
        /\ context = "live" => context' = "live"
    BY <1>9 DEF Create, Connect, Established, EstablishedSignals, Take, Write, AskAgain, Net
  <2> QED
    BY <2>1, <2>2, <2>3
<1>10. CASE LeavesLoop \/ Destroys \/ Clears
  <2>1. /\ UNCHANGED <<running, mpc, starts, stale, trouble>>
        /\ npc # "none" /\ npc' # "none"
    BY <1>10 DEF LeavesLoop, Destroys, Clears, Net
  <2>2. trouble = 0 => ~running
    BY <1>10 DEF LeavesLoop, Destroys, Clears, Net
  <2> QED
    BY <2>1, <2>2
<1>11. CASE UNCHANGED vars
  BY <1>11 DEF vars, counts, history
<1> QED
  BY <1>1, <1>2, <1>3, <1>4, <1>5, <1>6, <1>7, <1>8, <1>9, <1>10, <1>11, Steps
  DEF MainLooks, NetMoves

(* As long as nothing fails, the wake-up that queue_text sends without the *)
(* mutex finds its connection and its context alive, whatever the capture  *)
(* thread does; until main stops the client for the first time that is so  *)
(* of everybody (afterwards it is not: NothingFreedIsUsed); and whichever  *)
(* way the network thread has ended, it leaves neither pointer behind.     *)
THEOREM PointersAreSound == Spec => []PointersSound
<1>1. TypeInv /\ ThreadInv /\ PlaceInv /\ LivingInv => PointersSound
  <2> SUFFICES ASSUME TypeInv, ThreadInv, PlaceInv, LivingInv
               PROVE  SafeUntilStopped /\ JoinedIsClean
    BY DEF PointersSound
  <2>1. JoinedIsClean
    BY DEF PlaceInv, JoinedIsClean
  <2>2. trouble \in Nat /\ starts \in Nat /\ (running => starts # 0)
    BY ThreadsAssumption DEF TypeInv, TypeOK, ThreadInv, LivingInv
  <2>3. SafeUntilStopped
    BY <2>2 DEF SafeUntilStopped, LivingInv, Calm
  <2> QED
    BY <2>1, <2>3
<1> QED
  BY <1>1, TypeInit, TypeStep, ThreadInit, ThreadStep, PlaceInit, PlaceStep,
     LivingInit, LivingStep, PTL DEF Spec

-----------------------------------------------------------------------------
(* Nothing pending is forgotten.                                           *)

(* What waits, and who will see to it. *)
Waiting == texts # <<>> \/ blocks > 0
WillAsk == \/ asked
           \/ mpc \in {"lookWsi", "useWsi"}
           \/ cpc = "lookWsi" \/ (cpc = "useWsi" /\ held = "live")

(* Every step that leaves something to send has somebody ask for a         *)
(* callback.                                                               *)
LEMMA AskStep ==
    ASSUME PlaceInv, SomebodyWillAsk, [Next]_vars PROVE SomebodyWillAsk'
<1>a. npc = "open" => wsi = "live"
  BY DEF PlaceInv, Serving
<1>b. npc = "open" /\ Waiting => WillAsk
  BY DEF SomebodyWillAsk, Waiting, WillAsk
<1>c. SUFFICES npc' = "open" /\ Waiting' => WillAsk'
  BY DEF SomebodyWillAsk, Waiting, WillAsk
<1>1. CASE QueueText \/ StoreText
  BY <1>1, <1>b DEF QueueText, StoreText, Main, Waiting, WillAsk
<1>2. CASE LookWsi \/ UseWsi
  BY <1>2, <1>a, <1>b DEF LookWsi, UseWsi, Look, Main, Waiting, WillAsk, pending
<1>3. CASE LookContext \/ UseContext \/ StopBegins \/ StopLook \/ StopUse
  BY <1>3, <1>b DEF LookContext, UseContext, StopBegins, StopLook, StopUse, Look, Main,
                    Waiting, WillAsk, pending
<1>4. CASE StopJoin
  BY <1>4 DEF StopJoin
<1>5. ASSUME NEW ok \in BOOLEAN, xiaozhi_client_start(ok)
      PROVE  npc' = "open" /\ Waiting' => WillAsk'
  BY <1>5, <1>b DEF xiaozhi_client_start, Waiting, WillAsk, pending
<1>6. CASE QueueBinary
  BY <1>6 DEF QueueBinary, Capture, WillAsk
<1>11. CASE CaptureWakes
  <2>1. UNCHANGED <<wsi, npc, texts, blocks, mpc>>
    BY <1>11, WakingOnlyAsks DEF shared, pending
  <2>2. CASE CaptureLooksWsi \/ CaptureLooksContext
    BY <1>a, <1>b, <2>1, <2>2 DEF CaptureLooksWsi, CaptureLooksContext, CaptureLooks, Capture,
                                  Waiting, WillAsk
  <2>3. CASE CaptureUsesWsi
    BY <1>a, <1>b, <2>1, <2>3 DEF CaptureUsesWsi, CaptureUses, Capture, Waiting, WillAsk
  <2>4. CASE CaptureUsesContext
    BY <1>b, <2>1, <2>4 DEF CaptureUsesContext, CaptureUses, Capture, Waiting, WillAsk
  <2> QED
    BY <1>11, <2>2, <2>3, <2>4 DEF CaptureWakes
<1>7. CASE EstablishedSignals
  BY <1>7 DEF EstablishedSignals, WillAsk
<1>8. CASE AskAgain
  BY <1>8 DEF AskAgain, NoMessages, Waiting, WillAsk
<1>9. CASE \/ CreateFails \/ Create \/ ConnectFails \/ Connect \/ Established \/ Loses
           \/ LeavesLoop \/ Destroys \/ Clears \/ Take \/ Write \/ WriteFails
  <2>1. npc' # "open"
    BY <1>9 DEF CreateFails, Create, ConnectFails, Connect, Established, Loses, LeavesLoop, Destroys,
                Clears, Take, Write, WriteFails, Net
  <2> QED
    BY <2>1
<1>10. CASE UNCHANGED vars
  BY <1>10, <1>b DEF vars, pending, Waiting, WillAsk
<1> QED
  BY <1>1, <1>2, <1>3, <1>4, <1>5, <1>6, <1>7, <1>8, <1>9, <1>10, <1>11, Steps
  DEF MainLooks, NetMoves

(* While the connection is open, whatever is pending has a WRITEABLE       *)
(* callback coming, or a thread that is about to ask for one.              *)
THEOREM PendingIsAskedFor == Spec => []SomebodyWillAsk
<1>1. Init => SomebodyWillAsk
  BY DEF Init, SomebodyWillAsk
<1> QED
  BY <1>1, AskStep, ThreadInit, ThreadStep, PlaceInit, PlaceStep, PTL DEF Spec

-----------------------------------------------------------------------------
(* The order of the texts.                                                 *)

(* Putting one increasing sequence behind another of smaller numbers. *)
LEMMA IncreasingConcat ==
    ASSUME NEW s \in Seq(Nat), NEW t \in Seq(Nat), Increasing(s), Increasing(t),
           \A a \in ToSet(s), b \in ToSet(t) : a < b
    PROVE  /\ s \o t \in Seq(Nat)
           /\ Increasing(s \o t)
           /\ ToSet(s \o t) = ToSet(s) \cup ToSet(t)
<1> DEFINE m == Len(s)
           n == Len(t)
<1>1. m \in Nat /\ n \in Nat /\ DOMAIN s = 1..m /\ DOMAIN t = 1..n
  OBVIOUS
<1>2. s \o t \in Seq(Nat) /\ Len(s \o t) = m + n /\ DOMAIN (s \o t) = 1..(m + n)
  OBVIOUS
<1>3. \A i \in 1..(m + n) : (s \o t)[i] = IF i <= m THEN s[i] ELSE t[i - m]
  OBVIOUS
<1> HIDE DEF m, n
<1>4. ASSUME NEW i \in 1..(m + n), NEW j \in 1..(m + n), i < j
      PROVE  (s \o t)[i] < (s \o t)[j]
  <2>1. CASE j <= m
    <3>1. i \in 1..m /\ j \in 1..m
      BY <1>1, <1>4, <2>1
    <3>2. s[i] < s[j]
      BY <1>1, <1>4, <3>1 DEF Increasing
    <3>3. i <= m
      BY <1>1, <3>1
    <3>4. (s \o t)[i] = s[i] /\ (s \o t)[j] = s[j]
      BY <1>3, <2>1, <3>3
    <3> QED
      BY <3>2, <3>4
  <2>2. CASE m < i
    <3>1. i - m \in 1..n /\ j - m \in 1..n /\ i - m < j - m /\ ~(i <= m) /\ ~(j <= m)
      BY <1>1, <1>4, <2>2
    <3>2. t[i - m] < t[j - m]
      BY <1>1, <3>1 DEF Increasing
    <3> QED
      BY <1>3, <3>1, <3>2
  <2>3. CASE i <= m /\ m < j
    <3>1. i \in 1..m /\ j - m \in 1..n /\ ~(j <= m)
      BY <1>1, <1>4, <2>3
    <3>2. s[i] \in ToSet(s) /\ t[j - m] \in ToSet(t)
      BY <1>1, <3>1 DEF ToSet
    <3>3. s[i] < t[j - m]
      BY <3>2
    <3>4. (s \o t)[i] = s[i] /\ (s \o t)[j] = t[j - m]
      BY <1>3, <2>3, <3>1
    <3> QED
      BY <3>3, <3>4
  <2> QED
    BY <1>1, <1>4, <2>1, <2>2, <2>3
<1>5. ToSet(s \o t) \subseteq ToSet(s) \cup ToSet(t)
  <2>1. ASSUME NEW i \in 1..(m + n) PROVE (s \o t)[i] \in ToSet(s) \cup ToSet(t)
    <3>1. CASE i <= m
      <4>1. i \in 1..m /\ (s \o t)[i] = s[i]
        BY <1>1, <1>3, <3>1
      <4>2. s[i] \in ToSet(s)
        BY <1>1, <4>1 DEF ToSet
      <4> QED
        BY <4>1, <4>2
    <3>2. CASE ~(i <= m)
      <4>1. i - m \in 1..n
        BY <1>1, <3>2
      <4> QED
        BY <1>1, <1>3, <3>2, <4>1 DEF ToSet
    <3> QED
      BY <3>1, <3>2
  <2> QED
    BY <1>2, <2>1 DEF ToSet
<1>6. ToSet(s) \cup ToSet(t) \subseteq ToSet(s \o t)
  <2>1. ASSUME NEW i \in 1..m PROVE s[i] \in ToSet(s \o t)
    <3>1. i \in 1..(m + n) /\ (s \o t)[i] = s[i]
      BY <1>1, <1>3
    <3> QED
      BY <1>2, <3>1 DEF ToSet
  <2>2. ASSUME NEW i \in 1..n PROVE t[i] \in ToSet(s \o t)
    <3>1. i + m \in 1..(m + n) /\ ~(i + m <= m) /\ (i + m) - m = i
      BY <1>1
    <3>2. (s \o t)[i + m] = t[i]
      BY <1>3, <3>1
    <3> QED
      BY <1>2, <3>1, <3>2 DEF ToSet
  <2> QED
    BY <1>1, <2>1, <2>2 DEF ToSet
<1> QED
  BY <1>2, <1>4, <1>5, <1>6 DEF Increasing

(* Taking the first of an increasing sequence. *)
LEMMA IncreasingTail ==
    ASSUME NEW s \in Seq(Nat), s # <<>>, Increasing(s)
    PROVE  /\ Increasing(Tail(s))
           /\ ToSet(s) = {Head(s)} \cup ToSet(Tail(s))
           /\ \A b \in ToSet(Tail(s)) : Head(s) < b
<1> DEFINE n == Len(s)
<1>1. n \in Nat \ {0} /\ DOMAIN s = 1..n
  OBVIOUS
<1>2. Tail(s) \in Seq(Nat) /\ Len(Tail(s)) = n - 1 /\ DOMAIN Tail(s) = 1..(n - 1)
  BY <1>1
<1>3. \A i \in 1..(n - 1) : Tail(s)[i] = s[i + 1]
  BY <1>1
<1>4. Head(s) = s[1]
  OBVIOUS
<1> HIDE DEF n
<1>5. ASSUME NEW i \in 1..(n - 1)
      PROVE  1 \in 1..n /\ i + 1 \in 1..n /\ 1 < i + 1 /\ s[1] < s[i + 1]
  <2>1. 1 \in 1..n /\ i + 1 \in 1..n /\ 1 < i + 1
    BY <1>1
  <2> QED
    BY <1>1, <2>1 DEF Increasing
<1>6. ASSUME NEW i \in 1..(n - 1), NEW j \in 1..(n - 1), i < j
      PROVE  Tail(s)[i] < Tail(s)[j]
  <2>1. i + 1 \in 1..n /\ j + 1 \in 1..n /\ i + 1 < j + 1
    BY <1>1, <1>6
  <2> QED
    BY <1>1, <1>3, <2>1 DEF Increasing
<1>7. \A b \in ToSet(Tail(s)) : Head(s) < b
  BY <1>2, <1>3, <1>4, <1>5 DEF ToSet
<1>8. ToSet(Tail(s)) \subseteq ToSet(s) /\ Head(s) \in ToSet(s)
  BY <1>1, <1>2, <1>3, <1>4, <1>5 DEF ToSet
<1>9. ASSUME NEW i \in 1..n PROVE s[i] \in {Head(s)} \cup ToSet(Tail(s))
  <2>1. CASE i = 1
    BY <1>4, <2>1
  <2>2. CASE i # 1
    <3>1. i - 1 \in 1..(n - 1) /\ (i - 1) + 1 = i
      BY <1>1, <2>2
    <3>2. Tail(s)[i - 1] = s[i]
      BY <1>3, <3>1
    <3> QED
      BY <1>2, <3>1, <3>2 DEF ToSet
  <2> QED
    BY <2>1, <2>2
<1> QED
  BY <1>1, <1>2, <1>6, <1>7, <1>8, <1>9 DEF Increasing, ToSet

(* A sequence of one. *)
LEMMA IncreasingOne ==
    ASSUME NEW k \in Nat
    PROVE  /\ <<k>> \in Seq(Nat) /\ Increasing(<<k>>) /\ ToSet(<<k>>) = {k}
           /\ <<>> \in Seq(Nat) /\ Increasing(<<>>) /\ ToSet(<<>>) = {}
  BY DEF Increasing, ToSet

(* The texts that are out, in hand and waiting follow each other in the    *)
(* order of their numbers, and together are those queued and not lost.     *)
OrderInv ==
    /\ Increasing(out) /\ Increasing(handText) /\ Increasing(texts)
    /\ \A a \in ToSet(out), b \in ToSet(handText) \cup ToSet(texts) : a < b
    /\ \A a \in ToSet(handText), b \in ToSet(texts) : a < b
    /\ ToSet(out) \cup ToSet(handText) \cup ToSet(texts) = (1..queued) \ lost
    /\ lost \subseteq 1..queued

(* The texts are in order at the start ... *)
LEMMA OrderInit == Init => OrderInv
<1> SUFFICES ASSUME Init PROVE OrderInv
  OBVIOUS
<1>1. out = <<>> /\ texts = <<>> /\ handText = <<>> /\ queued = 0 /\ lost = {}
  BY DEF Init, handText
<1>2. Increasing(<<>>) /\ ToSet(<<>>) = {}
  BY IncreasingOne
<1> QED
  BY <1>1, <1>2 DEF OrderInv

(* A sequence of members of a set is one of members of a larger set. *)
LEMMA SeqWidens ==
    ASSUME NEW S, NEW T, S \subseteq T, NEW s \in Seq(S)
    PROVE  s \in Seq(T)
  OBVIOUS

(* What a message in hand can be. *)
LEMMA InHand ==
    ASSUME TypeInv
    PROVE  /\ handText \in Seq(Nat) /\ out \in Seq(Nat) /\ texts \in Seq(Nat)
           /\ hand = <<>> \/ hand = <<0>> => handText = <<>>
           /\ hand \notin {<<>>, <<0>>} =>
                handText = hand /\ \E k \in 1..MaxTexts : hand = <<k>>
<1>1. 1..MaxTexts \subseteq Nat
  BY ThreadsAssumption
<1>2. out \in Seq(Nat) /\ texts \in Seq(Nat)
  BY <1>1, SeqWidens DEF TypeInv, TypeOK
<1>3. hand # <<>> => \E k \in 0..MaxTexts : hand = <<k>>
  BY DEF TypeInv, TypeOK
<1>4. hand \notin {<<>>, <<0>>} => \E k \in 1..MaxTexts : hand = <<k>>
  BY <1>3, ThreadsAssumption
<1>5. handText \in Seq(Nat)
  BY <1>1, <1>4, IncreasingOne DEF handText
<1> QED
  BY <1>2, <1>4, <1>5 DEF handText

(* ... and every step keeps them so. *)
LEMMA OrderStep == ASSUME TypeInv, OrderInv, [Next]_vars PROVE OrderInv'
<1>a. /\ queued \in Nat /\ handText \in Seq(Nat) /\ out \in Seq(Nat) /\ texts \in Seq(Nat)
  BY InHand, ThreadsAssumption DEF TypeInv, TypeOK
<1>1. CASE StoreText
  <2>1. /\ texts' = Append(texts, queued + 1) /\ queued' = queued + 1
        /\ UNCHANGED <<out, hand, lost>>
    BY <1>1 DEF StoreText, Main
  <2>2. texts' = texts \o <<queued + 1>>
    BY <1>a, <2>1
  <2>3. \A a \in 1..queued : a < queued + 1
    BY <1>a
  <2>4. \A a \in ToSet(out) \cup ToSet(handText) \cup ToSet(texts) : a < queued + 1
    BY <2>3 DEF OrderInv
  <2>5. /\ queued + 1 \in Nat
        /\ <<queued + 1>> \in Seq(Nat) /\ Increasing(<<queued + 1>>)
        /\ ToSet(<<queued + 1>>) = {queued + 1}
    BY <1>a, IncreasingOne
  <2>6. Increasing(texts') /\ ToSet(texts') = ToSet(texts) \cup {queued + 1}
    <3> DEFINE last == <<queued + 1>>
    <3>1. last \in Seq(Nat) /\ Increasing(last) /\ ToSet(last) = {queued + 1}
      BY <2>5
    <3>2. texts' = texts \o last
      BY <2>2
    <3> HIDE DEF last
    <3>3. \A a \in ToSet(texts), b \in ToSet(last) : a < b
      BY <2>4, <3>1
    <3> QED
      BY <1>a, <3>1, <3>2, <3>3, IncreasingConcat DEF OrderInv
  <2>7. handText' = handText
    BY <2>1 DEF handText
  <2>8. (1..queued') \ lost' = ((1..queued) \ lost) \cup {queued + 1} /\ lost' \subseteq 1..queued'
    <3>1. 1..(queued + 1) = (1..queued) \cup {queued + 1} /\ queued + 1 \notin 1..queued
      <4>1. queued \in Nat
        BY <1>a
      <4> QED
        BY ONLY <4>1
    <3>2. 1..queued' = (1..queued) \cup {queued + 1} /\ lost' = lost /\ lost \subseteq 1..queued
      BY <2>1, <3>1 DEF OrderInv
    <3> QED
      BY ONLY <3>1, <3>2
  <2> QED
    BY <2>1, <2>4, <2>6, <2>7, <2>8 DEF OrderInv
<1>2. CASE Take
  <2>1. UNCHANGED <<out, queued, lost>> /\ hand = <<>> /\ handText = <<>> /\ ToSet(handText) = {}
    BY <1>2, IncreasingOne DEF Take, Net, TypeInv, handText
  <2>2. CASE texts # <<>>
    <3>1. hand' = <<Head(texts)>> /\ texts' = Tail(texts)
      BY <1>2, <2>2 DEF Take, pop_text_locked
    <3>2. Head(texts) \in 1..MaxTexts
      BY <2>2, HeadTail DEF TypeInv, TypeOK
    <3>3. Head(texts) \in Nat /\ Head(texts) # 0
      BY <3>2, ThreadsAssumption
    <3>4. handText' = <<Head(texts)>>
      BY <3>1, <3>3 DEF handText
    <3>5. Increasing(handText') /\ ToSet(handText') = {Head(texts)}
      BY <3>3, <3>4, IncreasingOne
    <3>6. /\ Increasing(texts') /\ ToSet(texts) = {Head(texts)} \cup ToSet(texts')
          /\ \A b \in ToSet(texts') : Head(texts) < b
      BY <1>a, <2>2, <3>1, IncreasingTail DEF OrderInv
    <3> QED
      BY <2>1, <3>5, <3>6 DEF OrderInv
  <2>3. CASE texts = <<>>
    <3>1. texts' = texts /\ (hand' = <<0>> \/ hand' = hand)
      BY <1>2, <2>3 DEF Take
    <3>2. handText' = <<>>
      BY <2>1, <3>1 DEF handText
    <3> QED
      BY <2>1, <3>1, <3>2 DEF OrderInv
  <2> QED
    BY <2>2, <2>3
<1>3. CASE Write
  <2>1. UNCHANGED <<queued, lost, texts>> /\ hand' = <<>> /\ handText' = <<>>
    BY <1>3 DEF Write, Net, handText
  <2>2. out' = out \o handText
    <3>1. CASE hand \in {<<>>, <<0>>}
      BY <1>3, <1>a, <3>1, InHand DEF Write
    <3>2. CASE hand \notin {<<>>, <<0>>}
      BY <1>3, <3>2, InHand DEF Write
    <3> QED
      BY <3>1, <3>2
  <2>3. Increasing(out') /\ ToSet(out') = ToSet(out) \cup ToSet(handText)
    BY <1>a, <2>2, IncreasingConcat DEF OrderInv
  <2>4. Increasing(handText') /\ ToSet(handText') = {}
    BY <2>1, IncreasingOne
  <2> QED
    BY <2>1, <2>3, <2>4 DEF OrderInv
<1>4. CASE WriteFails
  <2>1. /\ UNCHANGED <<queued, out, texts>> /\ hand' = <<>> /\ handText' = <<>>
        /\ lost' = lost \cup (ToSet(hand) \ {0})
    BY <1>4 DEF WriteFails, Net, handText
  <2>2. ToSet(hand) \ {0} = ToSet(handText)
    <3>1. CASE hand = <<>>
      BY <3>1, InHand, IncreasingOne
    <3>2. CASE hand = <<0>>
      <4>1. ToSet(hand) = {0} /\ handText = <<>>
        BY <3>2, InHand, IncreasingOne
      <4> QED
        BY <4>1, IncreasingOne
    <3>3. CASE hand \notin {<<>>, <<0>>}
      <4>1. PICK k \in 1..MaxTexts : hand = <<k>> /\ handText = hand
        BY <3>3, InHand
      <4>2. ToSet(hand) = {k} /\ k # 0
        BY <4>1, IncreasingOne, ThreadsAssumption
      <4> QED
        BY <4>1, <4>2
    <3> QED
      BY <3>1, <3>2, <3>3
  <2>3. /\ \A a \in ToSet(handText) : a \notin ToSet(out) /\ a \notin ToSet(texts)
        /\ ToSet(handText) \subseteq 1..queued
    <3>1. \A a \in 1..queued : ~(a < a)
      BY <1>a
    <3> QED
      BY <3>1 DEF OrderInv
  <2>4. Increasing(handText') /\ ToSet(handText') = {}
    BY <2>1, IncreasingOne
  <2>5. ToSet(out) \cup ToSet(texts) = (1..queued) \ lost'
    BY <2>1, <2>2, <2>3 DEF OrderInv
  <2>6. lost' \subseteq 1..queued'
    BY <2>1, <2>2, <2>3 DEF OrderInv
  <2> QED
    BY <2>1, <2>4, <2>5, <2>6 DEF OrderInv
<1>5. ASSUME UNCHANGED <<texts, hand, out, queued, lost>> PROVE OrderInv'
  BY <1>5 DEF OrderInv, handText
<1>6. CASE QueueText \/ MainLooks \/ \E ok \in BOOLEAN : xiaozhi_client_start(ok)
  BY <1>5, <1>6 DEF QueueText, MainLooks, LookWsi, UseWsi, LookContext, UseContext, StopBegins,
     StopLook, StopUse, StopJoin, Look, Main, xiaozhi_client_start, pending, counts, history
<1>7. CASE QueueBinary \/ CaptureWakes
  BY <1>5, <1>7, WakingOnlyAsks DEF QueueBinary, Capture, pending, counts
<1>8. CASE NetMoves
  BY <1>5, <1>8 DEF NetMoves, CreateFails, Create, ConnectFails, Connect, Established,
     EstablishedSignals, Loses, AskAgain, LeavesLoop, Destroys, Clears, NoMessages, Net
<1>9. CASE UNCHANGED vars
  BY <1>5, <1>9 DEF vars, pending, counts, history
<1> QED
  BY <1>1, <1>2, <1>3, <1>4, <1>6, <1>7, <1>8, <1>9, Steps

(* Texts go out in the order queue_text was called, each once, across all  *)
(* restarts of the client; none is missing but those whose own write       *)
(* failed.                                                                 *)
THEOREM TextsInOrder == Spec => []WrittenInOrder
<1>1. TypeInv /\ OrderInv => WrittenInOrder
  <2> SUFFICES ASSUME TypeInv, OrderInv PROVE WrittenInOrder
    OBVIOUS
  <2>1. handText \in Seq(Nat) /\ out \in Seq(Nat) /\ texts \in Seq(Nat)
    BY InHand
  <2> DEFINE done == out \o handText
  <2>2. done \in Seq(Nat) /\ Increasing(done) /\ ToSet(done) = ToSet(out) \cup ToSet(handText)
    BY <2>1, IncreasingConcat DEF OrderInv
  <2>3. \A a \in ToSet(done), b \in ToSet(texts) : a < b
    BY <2>2 DEF OrderInv
  <2> HIDE DEF done
  <2>4. Increasing(done \o texts) /\ ToSet(done \o texts) = ToSet(done) \cup ToSet(texts)
    BY <2>1, <2>2, <2>3, IncreasingConcat DEF OrderInv
  <2>5. passing = done \o texts
    BY DEF passing, done
  <2> QED
    BY <2>2, <2>4, <2>5 DEF WrittenInOrder, OrderInv
<1> QED
  BY <1>1, TypeInit, TypeStep, ThreadInit, ThreadStep, OrderInit, OrderStep, PTL DEF Spec

(* What is queued is kept: the two together. *)
THEOREM TextsAreKept == Spec => []TextsKept
<1>1. TextFits /\ WrittenInOrder => TextsKept
  BY DEF TextsKept
<1> QED
  BY <1>1, TextsFit, TextsInOrder, PTL

-----------------------------------------------------------------------------
(* The threads implement XiaozhiClient.                                    *)

(* The history variables add nothing to what the threads do ... *)
LEMMA TraceSteps == [TraceNext]_traceVars => [Next]_vars
  BY DEF TraceNext, traceVars, ConnectTraced, TakeTraced, Others, Next, NetStep

(* ... so all that is proved of the threads holds under them too. *)
LEMMA TraceIsThreads == TraceSpec => Spec
<1>1. TraceInit => Init
  BY DEF TraceInit
<1> QED
  BY <1>1, TraceSteps, PTL DEF TraceSpec, Spec

(* What the mapping needs besides the types: a new connection has not been *)
(* served, and there are no more texts than were queued.                   *)
TraceInv == /\ Len(texts) <= queued
            /\ npc = "handshake" => ~visited

(* It holds at the start ... *)
LEMMA TraceInvInit == TraceInit => TraceInv
  BY DEF TraceInit, Init, TraceInv

(* ... and after every step. *)
LEMMA TraceInvStep ==
    ASSUME TypeInv, TraceInv, [TraceNext]_traceVars
    PROVE  TraceInv'
<1>a. Len(texts) \in Nat /\ queued \in Nat /\ texts \in Seq(1..MaxTexts)
  BY ThreadsAssumption DEF TypeInv, TypeOK
<1>1. CASE ConnectTraced
  BY <1>1 DEF ConnectTraced, Connect, Net, NoMessages, TraceInv
<1>2. CASE TakeTraced
  <2>1. npc' = "taken" /\ queued' = queued
    BY <1>2 DEF TakeTraced, Take, Net
  <2>2. texts' = texts \/ Len(texts') = Len(texts) - 1
    BY <1>2, <1>a, HeadTail DEF TakeTraced, Take, pop_text_locked
  <2> QED
    BY <1>a, <2>1, <2>2 DEF TraceInv
<1>3. CASE StoreText /\ UNCHANGED <<wire, visited>>
  <2>1. Len(texts') = Len(texts) + 1 /\ queued' = queued + 1 /\ npc' = npc
    BY <1>3, <1>a DEF StoreText, Main
  <2> QED
    BY <1>3, <1>a, <2>1 DEF TraceInv
<1>4. ASSUME UNCHANGED <<texts, queued, visited>>, npc' # "handshake" \/ npc' = npc
      PROVE  TraceInv'
  BY <1>4 DEF TraceInv
<1>5. CASE (QueueText \/ MainLooks \/ \E ok \in BOOLEAN : xiaozhi_client_start(ok))
           /\ UNCHANGED <<wire, visited>>
  BY <1>5, <1>4 DEF QueueText, MainLooks, LookWsi, UseWsi, LookContext, UseContext, StopBegins,
                    StopLook, StopUse, StopJoin, Look, Main, xiaozhi_client_start, pending, counts
<1>6. CASE CaptureStep /\ UNCHANGED <<wire, visited>>
  BY <1>6, <1>4, WakingOnlyAsks DEF CaptureStep, CaptureWakes, QueueBinary, Capture, pending, counts
<1>7. CASE (\/ NetTrouble \/ Create \/ Established \/ EstablishedSignals \/ Write \/ AskAgain
            \/ LeavesLoop \/ Destroys \/ Clears) /\ UNCHANGED <<wire, visited>>
  BY <1>7, <1>4 DEF NetTrouble, CreateFails, Create, ConnectFails, Established,
                    EstablishedSignals, Loses, AskAgain, LeavesLoop, Destroys, Clears, NoMessages,
                    Write, WriteFails, Net
<1>8. CASE UNCHANGED traceVars
  BY <1>8, <1>4 DEF traceVars, vars, pending, counts
<1>9. CASE MainStep /\ UNCHANGED <<wire, visited>>
  BY <1>9, <1>3, <1>5 DEF MainStep, MainLooks
<1> QED
  BY <1>1, <1>2, <1>6, <1>7, <1>8, <1>9 DEF TraceNext, Others

(* The elements of a sequence. *)
LEMMA SeqElements ==
    ASSUME NEW S, NEW s \in Seq(S)
    PROVE  \A i \in 1..Len(s) : s[i] \in S
  OBVIOUS

(* What texts say follows them as they are queued and taken. *)
LEMMA SaidFollows ==
    ASSUME NEW s \in Seq(1..MaxTexts)
    PROVE  /\ Said(s) \in Seq(Client!Texts) /\ Len(Said(s)) = Len(s)
           /\ Said(s) = <<>> <=> s = <<>>
           /\ \A k \in 1..MaxTexts : Said(Append(s, k)) = Append(Said(s), Content[k])
           /\ s # <<>> => Head(Said(s)) = Content[Head(s)] /\ Said(Tail(s)) = Tail(Said(s))
<1>1. /\ DOMAIN s = 1..Len(s) /\ Len(s) \in Nat
      /\ \A i \in 1..Len(s) : s[i] \in 1..MaxTexts
  <2>1. DOMAIN s = 1..Len(s) /\ Len(s) \in Nat
    OBVIOUS
  <2>2. \A i \in 1..Len(s) : s[i] \in 1..MaxTexts
    BY SeqElements
  <2> QED
    BY <2>1, <2>2
<1>2. \A k \in 1..MaxTexts : Content[k] \in Client!Texts
  BY ContentAssumption
<1>3. Said(s) \in Seq(Client!Texts) /\ Len(Said(s)) = Len(s)
  BY <1>1, <1>2 DEF Said
<1>4. \A i \in 1..Len(s) : Said(s)[i] = Content[s[i]]
  BY <1>1 DEF Said
<1>5. Said(s) = <<>> <=> s = <<>>
  BY <1>1, <1>3
<1>6. ASSUME NEW k \in 1..MaxTexts
      PROVE  Said(Append(s, k)) = Append(Said(s), Content[k])
  <2>1. /\ Append(s, k) \in Seq(1..MaxTexts)
        /\ DOMAIN Append(s, k) = 1..(Len(s) + 1)
        /\ \A i \in 1..(Len(s) + 1) : Append(s, k)[i] = IF i = Len(s) + 1 THEN k ELSE s[i]
    BY <1>1
  <2>2. Said(Append(s, k)) = [i \in 1..(Len(s) + 1) |-> IF i = Len(s) + 1 THEN Content[k] ELSE Content[s[i]]]
    BY <2>1 DEF Said
  <2>3. /\ Append(Said(s), Content[k]) \in Seq(Client!Texts)
        /\ DOMAIN Append(Said(s), Content[k]) = 1..(Len(s) + 1)
        /\ \A i \in 1..(Len(s) + 1) :
              Append(Said(s), Content[k])[i] = IF i = Len(s) + 1 THEN Content[k] ELSE Said(s)[i]
    BY <1>2, <1>3
  <2>4. \A i \in 1..(Len(s) + 1) : i # Len(s) + 1 => i \in 1..Len(s)
    BY <1>1
  <2> QED
    BY <1>4, <2>2, <2>3, <2>4
<1>7. ASSUME s # <<>>
      PROVE  Head(Said(s)) = Content[Head(s)] /\ Said(Tail(s)) = Tail(Said(s))
  <2>1. Len(s) \in Nat \ {0} /\ 1 \in 1..Len(s)
    BY <1>1, <1>7
  <2>2. Head(s) = s[1] /\ Head(Said(s)) = Said(s)[1]
    BY <1>3, <1>5, <1>7
  <2>3. /\ DOMAIN Tail(s) = 1..(Len(s) - 1)
        /\ \A i \in 1..(Len(s) - 1) : Tail(s)[i] = s[i + 1]
    BY <1>1, <2>1
  <2>4. Said(Tail(s)) = [i \in 1..(Len(s) - 1) |-> Content[s[i + 1]]]
    BY <2>3 DEF Said
  <2>5. /\ Tail(Said(s)) \in Seq(Client!Texts) /\ DOMAIN Tail(Said(s)) = 1..(Len(s) - 1)
        /\ \A i \in 1..(Len(s) - 1) : Tail(Said(s))[i] = Said(s)[i + 1]
    BY <1>3, <2>1
  <2>6. \A i \in 1..(Len(s) - 1) : i + 1 \in 1..Len(s)
    BY <1>1
  <2> QED
    BY <1>4, <2>1, <2>2, <2>4, <2>5, <2>6
<1> QED
  BY <1>3, <1>5, <1>6, <1>7

(* The places of the network thread, as the application sees them. *)
LEMMA Places ==
    /\ Place["none"] = "none"
    /\ Place["create"] = "starting" /\ Place["connect"] = "starting"
    /\ Place["handshake"] = "connecting"
    /\ Place["established"] = "open" /\ Place["open"] = "open"
    /\ Place["taken"] = "open" /\ Place["written"] = "open"
    /\ Place["idle"] = "idle"
    /\ Place["destroy"] = "exited" /\ Place["clear"] = "exited" /\ Place["exited"] = "exited"
  BY DEF Place

(* A step that is none of the client's operations. *)
Quiet == /\ UNCHANGED <<running, texts, blocks, wire, visited>>
         /\ Place[npc'] = Place[npc]

(* Nothing changes for the application in it. *)
LEMMA QuietStutters == Quiet => UNCHANGED Client!clientVars
  BY DEF Quiet, Client!clientVars, Due

(* Looking at a pointer, using it, making room for a text, and what the    *)
(* network thread does around the handshake, a write and the end of its    *)
(* loop are such steps.                                                    *)
LEMMA QuietSteps ==
    ASSUME UNCHANGED <<wire, visited>>,
           \/ QueueText \/ LookWsi \/ UseWsi \/ LookContext \/ UseContext \/ StopLook \/ StopUse
           \/ CaptureWakes
           \/ Create \/ EstablishedSignals \/ Write \/ AskAgain \/ Destroys \/ Clears
    PROVE  Quiet
<1>1. CASE \/ QueueText \/ LookWsi \/ UseWsi \/ LookContext \/ UseContext \/ StopLook \/ StopUse
  BY <1>1 DEF QueueText, LookWsi, UseWsi, LookContext, UseContext, StopLook, StopUse, Look, Main,
              shared, pending, Quiet
<1>2. CASE CaptureWakes
  BY <1>2, WakingOnlyAsks DEF shared, pending, Quiet
<1>3. CASE Create \/ EstablishedSignals \/ Write \/ AskAgain \/ Destroys \/ Clears
  BY <1>3, Places DEF Create, EstablishedSignals, Write, AskAgain, Destroys, Clears, Net,
                      NoMessages, Quiet
<1> QED
  BY <1>1, <1>2, <1>3

(* The calls of the main thread and of the capture thread. *)
LEMMA CallsAreOperations ==
    ASSUME TypeInv, ThreadInv, TraceInv, MainStep \/ CaptureStep, UNCHANGED <<wire, visited>>
    PROVE  [Client!ClientNext]_(Client!clientVars)
<1> USE DEF Client!ClientNext
<1>a. /\ texts \in Seq(1..MaxTexts) /\ Len(texts) \in Nat
      /\ Len(Said(texts)) = Len(texts) /\ Len(Said(texts)) < MaxTexts + 1
      /\ blocks \in Nat /\ blocks <= pushed
  BY SaidFollows, ThreadsAssumption DEF TypeInv, TypeOK, TraceInv
<1>1. CASE StoreText
  <2>1. /\ queued + 1 \in 1..MaxTexts /\ texts' = Append(texts, queued + 1)
        /\ UNCHANGED <<running, npc, blocks, wire, visited>>
    BY <1>1, ThreadsAssumption DEF StoreText, Main, shared, TypeInv, TypeOK
  <2>2. Content[queued + 1] \in Client!Texts
    BY <2>1, ContentAssumption
  <2>3. Said(texts)' = Append(Said(texts), Content[queued + 1])
    BY <1>a, <2>1, SaidFollows
  <2>4. texts' # <<>>
    BY <1>a, <2>1
  <2>5. Due' = (Due \/ Place[npc] = "open")
    BY <2>1, <2>4 DEF Due
  <2>6. Client!xiaozhi_client_queue_text(Content[queued + 1], TRUE)
    BY <1>a, <2>1, <2>3, <2>5 DEF Client!xiaozhi_client_queue_text, Client!signal_writable
  <2> QED
    BY <2>2, <2>6
<1>2. CASE QueueBinary
  <2>1. /\ blocks' = blocks + 1 /\ blocks < MaxBlocks + 1
        /\ UNCHANGED <<running, npc, texts, wire, visited>>
    BY <1>2, <1>a, ThreadsAssumption DEF QueueBinary, Capture, shared, TypeInv, TypeOK
  <2>2. Due' = (Due \/ Place[npc] = "open")
    BY <1>a, <2>1 DEF Due
  <2>3. Client!xiaozhi_client_queue_binary
    BY <2>1, <2>2 DEF Client!xiaozhi_client_queue_binary, Client!signal_writable
  <2> QED
    BY <2>3
<1>3. ASSUME NEW ok \in BOOLEAN, xiaozhi_client_start(ok)
      PROVE  [Client!ClientNext]_(Client!clientVars)
  <2>1. UNCHANGED <<texts, blocks, wire, visited>>
    BY <1>3 DEF xiaozhi_client_start, pending
  <2>2. CASE ~running /\ ok
    <3>1. running' = TRUE /\ npc' = "create"
      BY <1>3, <2>2 DEF xiaozhi_client_start
    <3>2. npc = "none"
      BY <1>3, <2>2 DEF xiaozhi_client_start, ThreadInv, StopPlaces
    <3>3. Client!xiaozhi_client_start(TRUE)
      BY <2>1, <2>2, <3>1, <3>2, Places DEF Client!xiaozhi_client_start, Due
    <3> QED
      BY <3>3
  <2>3. CASE running \/ ~ok
    <3>1. Quiet
      BY <1>3, <2>1, <2>3 DEF xiaozhi_client_start, Quiet
    <3> QED
      BY <3>1, QuietStutters
  <2> QED
    BY <2>2, <2>3
<1>4. CASE StopBegins
  <2>1. running' = FALSE /\ UNCHANGED <<npc, texts, blocks, wire, visited>>
    BY <1>4 DEF StopBegins, Main, pending
  <2>2. Client!xiaozhi_client_stop
    BY <2>1 DEF Client!xiaozhi_client_stop, Due
  <2> QED
    BY <2>2
<1>5. CASE StopJoin
  <2>1. npc = "exited" /\ npc' = "none" /\ UNCHANGED <<running, texts, blocks, wire, visited>>
    BY <1>5 DEF StopJoin, shared, pending
  <2>2. Client!xiaozhi_client_join
    BY <2>1, Places DEF Client!xiaozhi_client_join, Due
  <2> QED
    BY <2>2
<1>6. CASE \/ QueueText \/ LookWsi \/ UseWsi \/ LookContext \/ UseContext \/ StopLook \/ StopUse
           \/ CaptureWakes
  BY <1>6, QuietSteps, QuietStutters
<1> QED
  BY <1>1, <1>2, <1>3, <1>4, <1>5, <1>6 DEF MainStep, CaptureStep, CaptureWakes

(* The steps of the network thread. *)
LEMMA CallbacksAreOperations ==
    ASSUME TypeInv, TraceInv,
           \/ ConnectTraced \/ TakeTraced
           \/ /\ UNCHANGED <<wire, visited>>
              /\ \/ NetTrouble \/ Create \/ Established \/ EstablishedSignals \/ Write
                 \/ AskAgain \/ LeavesLoop \/ Destroys \/ Clears
    PROVE  [Client!ClientNext]_(Client!clientVars)
<1> USE DEF Client!ClientNext
<1>1. CASE ConnectTraced
  <2>1. /\ npc = "connect" /\ npc' = "handshake" /\ wire' = Client!FreshWire
        /\ UNCHANGED <<running, texts, blocks>>
    BY <1>1 DEF ConnectTraced, Connect, Net, NoMessages
  <2>2. Client!ThreadConnects
    BY <2>1, Places DEF Client!ThreadConnects, Due
  <2> QED
    BY <2>2
<1>2. CASE TakeTraced
  <2>1. npc = "open" /\ npc' = "taken" /\ running' = running /\ visited' = TRUE
    BY <1>2 DEF TakeTraced, Take, Net
  <2>2. Place[npc] = "open" /\ Place[npc'] = "open"
    BY <2>1, Places
  <2>3. CASE texts # <<>>
    <3>1. /\ texts' = Tail(texts) /\ blocks' = blocks
          /\ wire' = Client!Written(wire, Content[Head(texts)])
      BY <1>2, <2>3 DEF TakeTraced, Take, pop_text_locked
    <3>2. /\ Said(texts) # <<>> /\ Head(Said(texts)) = Content[Head(texts)]
          /\ Said(texts)' = Tail(Said(texts)) /\ (Said(texts)' # <<>> <=> texts' # <<>>)
      <4>1. texts \in Seq(1..MaxTexts) /\ texts' \in Seq(1..MaxTexts)
        BY <2>3, <3>1, HeadTail DEF TypeInv, TypeOK
      <4> QED
        BY <2>3, <3>1, <4>1, SaidFollows
    <3>3. Content[Head(texts)] # "nothing"
      <4>1. Head(texts) \in 1..MaxTexts
        BY <2>3, HeadTail DEF TypeInv, TypeOK
      <4> QED
        BY <4>1, ContentAssumption DEF Client!Texts
    <3>4. Client!NextOut = Content[Head(texts)] /\ Content[Head(texts)] # "audio"
      <4>1. Head(texts) \in 1..MaxTexts
        BY <2>3, HeadTail DEF TypeInv, TypeOK
      <4> QED
        BY <3>2, <4>1, ContentAssumption DEF Client!NextOut, Client!Texts
    <3>5. Client!TakeOut
      BY <3>1, <3>2, <3>4 DEF Client!TakeOut
    <3>6. Due /\ Due' = (Said(texts)' # <<>> \/ blocks' > 0)
      BY <2>1, <2>2, <2>3, <3>2 DEF Due
    <3>7. Client!Writeable
      BY <2>1, <2>2, <3>1, <3>3, <3>4, <3>5, <3>6 DEF Client!Writeable
    <3> QED
      BY <3>7
  <2>4. CASE texts = <<>> /\ blocks > 0
    <3>1. /\ texts' = texts /\ blocks' = blocks - 1
          /\ wire' = Client!Written(wire, "audio")
      BY <1>2, <2>4 DEF TakeTraced, Take
    <3>2. Said(texts) = <<>> /\ Said(texts)' = <<>>
      BY <2>4, <3>1, SaidFollows DEF TypeInv, TypeOK
    <3>3. Client!NextOut = "audio"
      BY <2>4, <3>2 DEF Client!NextOut
    <3>4. Client!TakeOut
      BY <3>1, <3>2, <3>3 DEF Client!TakeOut
    <3>5. Due /\ Due' = (Said(texts)' # <<>> \/ blocks' > 0)
      BY <2>1, <2>2, <2>4, <3>1, <3>2 DEF Due
    <3>6. Client!Writeable
      BY <2>1, <2>2, <3>1, <3>3, <3>4, <3>5 DEF Client!Writeable
    <3> QED
      BY <3>6
  <2>5. CASE texts = <<>> /\ ~(blocks > 0)
    <3>1. UNCHANGED <<texts, blocks, wire>>
      BY <1>2, <2>5 DEF TakeTraced, Take
    <3>2. Said(texts) = <<>> /\ Said(texts)' = <<>>
      BY <2>5, <3>1, SaidFollows DEF TypeInv, TypeOK
    <3>3. Client!NextOut = "nothing" /\ Due' = FALSE
      BY <2>1, <2>5, <3>1, <3>2 DEF Client!NextOut, Due
    <3>4. CASE visited
      <4>1. Due = FALSE
        BY <2>5, <3>4 DEF Due
      <4> QED
        BY <2>1, <2>2, <3>1, <3>3, <4>1 DEF Client!clientVars
    <3>5. CASE ~visited
      <4>1. Due
        BY <2>2, <3>5 DEF Due
      <4>2. Client!TakeOut
        BY <3>1, <3>2, <3>3 DEF Client!TakeOut
      <4>3. Client!Writeable
        BY <2>1, <2>2, <2>5, <3>1, <3>2, <3>3, <4>1, <4>2 DEF Client!Writeable
      <4> QED
        BY <4>3
    <3> QED
      BY <3>4, <3>5
  <2> QED
    BY <2>3, <2>4, <2>5
<1> SUFFICES ASSUME UNCHANGED <<wire, visited>>,
                    \/ NetTrouble \/ Create \/ Established \/ EstablishedSignals \/ Write
                    \/ AskAgain \/ LeavesLoop \/ Destroys \/ Clears
             PROVE  [Client!ClientNext]_(Client!clientVars)
  BY <1>1, <1>2
<1>3. CASE CreateFails \/ ConnectFails
  <2>1. /\ Place[npc] = "starting" /\ Place[npc'] = "exited"
        /\ UNCHANGED <<running, texts, blocks>>
    BY <1>3, Places DEF CreateFails, ConnectFails, Net, NoMessages
  <2>2. Client!ThreadInitFails
    BY <2>1 DEF Client!ThreadInitFails, Due
  <2> QED
    BY <2>2
<1>4. CASE Established
  <2>1. /\ npc = "handshake" /\ npc' = "established"
        /\ UNCHANGED <<running, texts, blocks>>
    BY <1>4 DEF Established, Net, NoMessages
  <2>2. ~visited'
    BY <2>1 DEF TraceInv
  <2>3. Client!Established
    BY <2>1, <2>2, Places DEF Client!Established, Due
  <2> QED
    BY <2>3
<1>5. CASE Loses
  <2>1. /\ npc \in {"handshake", "open"} /\ npc' = "idle"
        /\ UNCHANGED <<running, texts, blocks>>
    BY <1>5 DEF Loses, Net, NoMessages
  <2>2. Client!ConnectionError \/ Client!Closed
    BY <2>1, Places DEF Client!ConnectionError, Client!Closed, Client!Cut, Due
  <2> QED
    BY <2>2
<1>6. CASE WriteFails
  <2>1. /\ npc = "taken" /\ npc' = "idle"
        /\ UNCHANGED <<running, texts, blocks>>
    BY <1>6 DEF WriteFails, Net
  <2>2. Client!Closed
    BY <2>1, Places DEF Client!Closed, Client!Cut, Due
  <2> QED
    BY <2>2
<1>7. CASE LeavesLoop
  <2>1. /\ npc \in {"handshake", "open", "idle"} /\ npc' = "destroy" /\ ~running
        /\ UNCHANGED <<running, texts, blocks>>
    BY <1>7 DEF LeavesLoop, Net, NoMessages
  <2>2. Client!ThreadExits
    BY <2>1, Places DEF Client!ThreadExits, Client!Cut, Due
  <2> QED
    BY <2>2
<1>8. CASE Create \/ EstablishedSignals \/ Write \/ AskAgain \/ Destroys \/ Clears
  BY <1>8, QuietSteps, QuietStutters
<1> QED
  BY <1>3, <1>4, <1>5, <1>6, <1>7, <1>8 DEF NetTrouble

(* src/xiaozhi_client.c, with its sections under the mutex, its unlocked   *)
(* looks at wsi and context and its three threads, behaves as the client of*)
(* XiaozhiClient: no interleaving shows the application a call or a        *)
(* callback half done.                                                     *)
THEOREM ThreadsAreTheClient == TraceSpec => ImplementsClient
<1>1. TraceInit => Client!ClientInit
  BY Places DEF TraceInit, Init, Client!ClientInit, Said, Due
<1>2. TypeInv /\ ThreadInv /\ TraceInv /\ [TraceNext]_traceVars
        => [Client!ClientNext]_(Client!clientVars)
  <2> SUFFICES ASSUME TypeInv, ThreadInv, TraceInv, [TraceNext]_traceVars
               PROVE  [Client!ClientNext]_(Client!clientVars)
    OBVIOUS
  <2>1. CASE (MainStep \/ CaptureStep) /\ UNCHANGED <<wire, visited>>
    BY <2>1, CallsAreOperations
  <2>2. CASE UNCHANGED traceVars
    <3>1. Quiet
      BY <2>2 DEF traceVars, vars, shared, pending, Quiet
    <3> QED
      BY <3>1, QuietStutters
  <2> QED
    BY <2>1, <2>2, CallbacksAreOperations DEF TraceNext, Others
<1> QED
  BY <1>1, <1>2, TraceIsThreads, TraceInvInit, TraceInvStep, TypeInit, TypeStep, ThreadInit,
     ThreadStep, TraceSteps, PTL DEF TraceSpec, Spec, ImplementsClient, Client!ClientSpec

=============================================================================
