------------------------------ MODULE AppProofs ------------------------------
(***************************************************************************)
(* Proofs, for every value of the constants, about the running client of   *)
(* AppRuntime.  First what its state and its threads do: its type          *)
(* invariant; that audio is uploaded only for a round the server knows     *)
(* about; that a session which claims to upload does, or has an error on   *)
(* its way; that no pending message is forgotten; that app_destroy frees   *)
(* nothing a thread can still reach.  Then what the events under way mean: *)
(* that a session in HANDSHAKING waits for something that comes, that      *)
(* READY and IDLE are genuine or about to be corrected, and that a round   *)
(* which waits for its last block is told of it.  The second part rests on *)
(* the order of the events: an event of a connection that is gone has the  *)
(* ERROR of its end behind it.                                             *)
(***************************************************************************)
EXTENDS AppProperties, TLAPS

-----------------------------------------------------------------------------
(* Lemmas about the components' operations.                                *)

(* Pushing to the event queue keeps it a bounded sequence of events. *)
LEMMA PushType ==
    ASSUME EvTypeOK, NEW e \in Events, event_queue_push(e)
    PROVE  EvTypeOK'
<1>1. CASE Len(evq) < EvCap
  <2>1. evq' = Append(evq, e) /\ refused' = refused
    BY <1>1 DEF event_queue_push
  <2>2. evq' \in Seq(Events) /\ Len(evq') = Len(evq) + 1
    BY <2>1 DEF EvTypeOK
  <2> QED
    BY <1>1, <2>1, <2>2, EvCapAssumption DEF EvTypeOK
<1>2. CASE ~(Len(evq) < EvCap)
  BY <1>2 DEF EvTypeOK, event_queue_push
<1> QED
  BY <1>1, <1>2

(* Popping yields an event and keeps the queue a bounded sequence. *)
LEMMA PopType ==
    ASSUME EvTypeOK, NEW e \in Events, event_queue_pop(e)
    PROVE  EvTypeOK'
  BY EvCapAssumption DEF EvTypeOK, event_queue_pop

(* Every call of the client's interface keeps the client well typed. *)
LEMMA ClientCallType ==
    ASSUME ClientTypeOK,
           \/ \E ok \in BOOLEAN : xiaozhi_client_start(ok)
           \/ xiaozhi_client_stop
           \/ xiaozhi_client_join
           \/ \E m \in Texts, ok \in BOOLEAN : xiaozhi_client_queue_text(m, ok)
           \/ xiaozhi_client_queue_binary
           \/ UNCHANGED clientVars
    PROVE  ClientTypeOK'
<1>1. CASE \E ok \in BOOLEAN : xiaozhi_client_start(ok)
  BY <1>1 DEF ClientTypeOK, NetStates, xiaozhi_client_start
<1>2. CASE xiaozhi_client_stop
  BY <1>2 DEF ClientTypeOK, xiaozhi_client_stop
<1>3. CASE xiaozhi_client_join
  BY <1>3 DEF ClientTypeOK, NetStates, xiaozhi_client_join
<1>4. CASE \E m \in Texts, ok \in BOOLEAN : xiaozhi_client_queue_text(m, ok)
  <2>1. PICK m \in Texts, ok \in BOOLEAN : xiaozhi_client_queue_text(m, ok)
    BY <1>4
  <2>2. pendText' \in Seq(Texts) /\ Len(pendText') \in 0..TextCap
    BY <2>1, ClientCapAssumption DEF ClientTypeOK, xiaozhi_client_queue_text
  <2>3. writable' \in BOOLEAN
    BY <2>1 DEF ClientTypeOK, xiaozhi_client_queue_text, signal_writable
  <2> QED
    BY <2>1, <2>2, <2>3 DEF ClientTypeOK, xiaozhi_client_queue_text
<1>5. CASE xiaozhi_client_queue_binary
  <2>1. writable' \in BOOLEAN
    BY <1>5 DEF ClientTypeOK, xiaozhi_client_queue_binary, signal_writable
  <2>2. pendBin' \in 0..BinCap
    BY <1>5, ClientCapAssumption DEF ClientTypeOK, xiaozhi_client_queue_binary
  <2> QED
    BY <1>5, <2>1, <2>2 DEF ClientTypeOK, xiaozhi_client_queue_binary
<1>6. CASE UNCHANGED clientVars
  BY <1>6 DEF ClientTypeOK, clientVars
<1> QED
  BY <1>1, <1>2, <1>3, <1>4, <1>5, <1>6

(* What a WRITEABLE callback takes is a text or audio. *)
LEMMA TakeOutType ==
    ASSUME ClientTypeOK, TakeOut
    PROVE  /\ pendText' \in Seq(Texts) /\ Len(pendText') \in 0..TextCap
           /\ pendBin' \in 0..BinCap
           /\ NextOut \in Texts \cup {"nothing", "audio"}
  BY ClientCapAssumption DEF ClientTypeOK, TakeOut, NextOut, Texts

(* Every step of the network thread keeps the client well typed. *)
LEMMA ClientThreadType ==
    ASSUME ClientTypeOK,
           \/ ThreadInitFails \/ ThreadConnects \/ Established
           \/ ConnectionError \/ Closed \/ Writeable \/ WriteFails
           \/ Receive \/ ReceiveTooLarge \/ ThreadExits
    PROVE  ClientTypeOK'
<1>1. CASE ThreadInitFails \/ Established \/ ConnectionError \/ Closed \/ ThreadExits
  BY <1>1 DEF ClientTypeOK, NetStates, ThreadInitFails, Established,
              ConnectionError, Closed, ThreadExits, Cut
<1>2. CASE ThreadConnects
  BY <1>2 DEF ClientTypeOK, NetStates, ThreadConnects, FreshWire
<1>3. CASE Writeable
  <2>1. wire' \in [first : Texts \cup {"nothing", "audio"}, hello : BOOLEAN]
    BY <1>3, TakeOutType DEF ClientTypeOK, Writeable, Written
  <2> QED
    BY <1>3, <2>1, TakeOutType DEF ClientTypeOK, Writeable
<1>4. CASE WriteFails
  BY <1>4, TakeOutType DEF ClientTypeOK, NetStates, WriteFails, Cut
<1>5. CASE Receive \/ ReceiveTooLarge
  BY <1>5 DEF ClientTypeOK, Receive, ReceiveTooLarge
<1> QED
  BY <1>1, <1>2, <1>3, <1>4, <1>5

(* Every operation of the playback component keeps it well typed. *)
LEMMA PlaybackType ==
    ASSUME PbTypeOK,
           \/ audio_playback_enqueue \/ audio_playback_request_stop
           \/ audio_playback_destroy
           \/ PbWake \/ PbStopped \/ PbProceeds \/ PbTake \/ PbWritten \/ PbDeviceFails \/ PbNotify
           \/ UNCHANGED pbVars
    PROVE  PbTypeOK'
<1>1. CASE audio_playback_enqueue \/ PbTake
  BY <1>1, PbCapAssumption DEF PbTypeOK, audio_playback_enqueue, PbTake
<1>2. CASE audio_playback_request_stop \/ audio_playback_destroy \/ UNCHANGED pbVars
  BY <1>2 DEF PbTypeOK, audio_playback_request_stop, audio_playback_destroy, pbVars
<1>3. CASE PbWake \/ PbStopped \/ PbProceeds \/ PbWritten \/ PbDeviceFails \/ PbNotify
  BY <1>3 DEF PbTypeOK, PbWake, PbStopped, PbProceeds, PbWritten, PbDeviceFails, PbNotify
<1> QED
  BY <1>1, <1>2, <1>3

(* The silence count reaches its limit only on the way to the timeout it   *)
(* causes.                                                                 *)
CapInv == CapTypeOK /\ (silence = SilenceChunks => cappc = "timeout")

(* Every operation of the capture component keeps it well typed. *)
LEMMA CaptureType ==
    ASSUME CapInv,
           \/ \E on \in BOOLEAN : audio_capture_set_uploading(on)
           \/ audio_capture_stop
           \/ CapOpen(MicWorks) \/ CapRead \/ CapTail \/ CapTimeout
           \/ cappc = "frame" /\ \E pc \in {"packet", "tail"} : CapGoto(pc)
           \/ cappc = "packet" /\ CapGoto("tail")
           \/ UNCHANGED capVars
    PROVE  CapInv'
<1>1. CASE \E on \in BOOLEAN : audio_capture_set_uploading(on)
  BY <1>1, SilenceAssumption DEF CapInv, CapTypeOK, audio_capture_set_uploading
<1>2. CASE audio_capture_stop \/ UNCHANGED capVars
  BY <1>2 DEF CapInv, CapTypeOK, audio_capture_stop, capVars
<1>3. CASE CapOpen(MicWorks) \/ CapRead
  BY <1>3 DEF CapInv, CapTypeOK, CapOpen, CapRead, CapGoto
<1>4. CASE CapTail
  BY <1>4, SilenceAssumption DEF CapInv, CapTypeOK, CapTail
<1>5. CASE CapTimeout
  BY <1>5, SilenceAssumption DEF CapInv, CapTypeOK, CapTimeout
<1>6. CASE \/ cappc = "frame" /\ \E pc \in {"packet", "tail"} : CapGoto(pc)
           \/ cappc = "packet" /\ CapGoto("tail")
  BY <1>6 DEF CapInv, CapTypeOK, CapGoto
<1> QED
  BY <1>1, <1>2, <1>3, <1>4, <1>5, <1>6

-----------------------------------------------------------------------------
(* Which operations of the components a step of the program is made of.    *)

EvOp == \/ \E e \in Events : event_queue_push(e) /\ (e = "HELLO_NOSID" => NetHello)
        \/ Pop
        \/ UNCHANGED evVars

ClientCall == \/ \E ok \in BOOLEAN : xiaozhi_client_start(ok)
              \/ xiaozhi_client_stop
              \/ xiaozhi_client_join
              \/ \E m \in Texts, ok \in BOOLEAN : xiaozhi_client_queue_text(m, ok)
              \/ xiaozhi_client_queue_binary
              \/ UNCHANGED clientVars

ClientThread == \/ ThreadInitFails \/ ThreadConnects \/ Established
                \/ ConnectionError \/ Closed \/ Writeable \/ WriteFails
                \/ Receive \/ ReceiveTooLarge \/ ThreadExits

PbOp == \/ audio_playback_enqueue \/ audio_playback_request_stop
        \/ audio_playback_destroy
        \/ PbWake \/ PbStopped \/ PbProceeds \/ PbTake \/ PbWritten \/ PbDeviceFails \/ PbNotify
        \/ UNCHANGED pbVars

CapOp == \/ \E on \in BOOLEAN : audio_capture_set_uploading(on)
         \/ audio_capture_stop
         \/ CapOpen(MicWorks) \/ CapRead \/ CapTail \/ CapTimeout
         \/ cappc = "frame" /\ \E pc \in {"packet", "tail"} : CapGoto(pc)
         \/ cappc = "packet" /\ CapGoto("tail")
         \/ UNCHANGED capVars

(* Every step uses each component through one of its operations only. *)
LEMMA StepIsOperations ==
    ASSUME Next
    PROVE  EvOp /\ (ClientCall \/ ClientThread) /\ PbOp /\ CapOp
<1> USE AppAssumption DEF AppEvents, Texts, EvOp, ClientCall, ClientThread, PbOp,
        CapOp, Raise, Silently, appVars, app_send_hello, app_send_abort,
        app_send_listen_start, app_send_listen_stop, WithSession
<1>1. CASE RunStart
  BY <1>1 DEF RunStart, From, Connect
<1>2. CASE LoopGoesOn
  BY <1>2 DEF LoopGoesOn, From, OnlyMain
<1>3. CASE LoopEnds
  BY <1>3 DEF LoopEnds, From, OnlyMain
<1>4. CASE Pop
  BY <1>4 DEF Pop
<1>5. CASE PopTimeout
  BY <1>5 DEF PopTimeout, From, OnlyMain
<1>6. CASE HandleIgnored
  BY <1>6 DEF HandleIgnored
<1>7. CASE HandleConnect
  BY <1>7 DEF HandleConnect, Connect
<1>8. CASE HandleConnected
  BY <1>8 DEF HandleConnected
<1>9. CASE HandleStartListen
  BY <1>9 DEF HandleStartListen, StartListenNotSent, StartListenNoDump, StartListenOk
<1>10. CASE HandleStopListen
  BY <1>10 DEF HandleStopListen
<1>11. CASE HandleAbort
  BY <1>11 DEF HandleAbort
<1>12. CASE StopAbort
  BY <1>12 DEF StopAbort, From
<1>13. CASE JoinAbort
  BY <1>13 DEF JoinAbort, From
<1>14. CASE RestartAbort
  BY <1>14 DEF RestartAbort, From
<1>15. CASE HandleError
  BY <1>15 DEF HandleError
<1>16. CASE BackoffEnds
  BY <1>16 DEF BackoffEnds, From
<1>17. CASE JoinReturn
  BY <1>17 DEF JoinReturn, From
<1>18. CASE RestartReturn
  BY <1>18 DEF RestartReturn, From
<1>19. CASE HandleHello
  BY <1>19 DEF HandleHello
<1>20. CASE HandleTtsStart
  BY <1>20 DEF HandleTtsStart
<1>21. CASE HandleTtsStop
  BY <1>21 DEF HandleTtsStop, app_reset_to_idle
<1>22. CASE HandleFinished
  BY <1>22 DEF HandleFinished, app_reset_to_idle
<1>23. CASE HandleShutdown
  BY <1>23 DEF HandleShutdown
<1>24. CASE PollNothing
  BY <1>24 DEF PollNothing, From, OnlyMain
<1>25. CASE PollEnter
  BY <1>25 DEF PollEnter, From
<1>26. CASE PollQuit
  BY <1>26 DEF PollQuit, app_request_stop
<1>27. CASE DestroyBegin
  BY <1>27 DEF DestroyBegin, From
<1>28. CASE DestroyJoinClient
  BY <1>28 DEF DestroyJoinClient, From
<1>29. CASE DestroyStopCapture
  BY <1>29 DEF DestroyStopCapture, From
<1>30. CASE DestroyStopPlayback
  BY <1>30 DEF DestroyStopPlayback, From
<1>31. CASE DestroyClient
  BY <1>31 DEF DestroyClient, From
<1>32. CASE DestroyEnds
  BY <1>32 DEF DestroyEnds, From
<1>33. CASE Sigint
  BY <1>33 DEF Sigint, app_request_stop
<1>34. CASE Terminated
  BY <1>34 DEF Terminated, vars
<1>35. CASE NetConnects
  BY <1>35 DEF NetConnects, Net
<1>36. CASE NetEstablished
  BY <1>36 DEF NetEstablished, Net
<1>37. CASE NetWriteable
  BY <1>37 DEF NetWriteable, Net
<1>38. CASE NetExits
  BY <1>38 DEF NetExits, Net, app_client_on_disconnected
<1>39. CASE NetHello
  BY <1>39 DEF NetHello, Net, ServerSays, ServerSaysTooMuch
<1>40. CASE NetTtsStart
  BY <1>40 DEF NetTtsStart, Net, ServerSays, ServerSaysTooMuch
<1>41. CASE NetTtsStop
  BY <1>41 DEF NetTtsStop, Net, ServerSays, ServerSaysTooMuch
<1>42. CASE NetOther
  BY <1>42 DEF NetOther, Net
<1>43. CASE NetAudio
  BY <1>43 DEF NetAudio
<1>44. CASE NetInitFails
  BY <1>44 DEF NetInitFails, Net
<1>45. CASE NetConnectionError
  BY <1>45 DEF NetConnectionError, Net
<1>46. CASE NetClosed
  BY <1>46 DEF NetClosed, Net, app_client_on_disconnected
<1>47. CASE NetWriteFails
  BY <1>47 DEF NetWriteFails, Net, app_client_on_disconnected
<1>48. CASE NetFrameTooLarge
  BY <1>48 DEF NetFrameTooLarge, Net
<1>49. CASE PlaybackQuiet
  BY <1>49 DEF PlaybackQuiet, Playback
<1>50. CASE PlaybackFinished
  BY <1>50 DEF PlaybackFinished, Playback
<1>51. CASE PlaybackFails
  BY <1>51 DEF PlaybackFails, Playback
<1>52. CASE CaptureQuiet
  BY <1>52 DEF CaptureQuiet, Capture
<1>53. CASE CaptureEncode
  BY <1>53 DEF CaptureEncode, Capture
<1>54. CASE CaptureQueue
  BY <1>54 DEF CaptureQueue, Capture
<1>55. CASE CaptureSilence
  BY <1>55 DEF CaptureSilence, Capture
<1> QED
  BY <1>1, <1>2, <1>3, <1>4, <1>5, <1>6, <1>7, <1>8, <1>9, <1>10, <1>11,
     <1>12, <1>13, <1>14, <1>15, <1>16, <1>17, <1>18, <1>19, <1>20, <1>21,
     <1>22, <1>23, <1>24, <1>25, <1>26, <1>27, <1>28, <1>29, <1>30, <1>31,
     <1>32, <1>33, <1>34, <1>35, <1>36, <1>37, <1>38, <1>39, <1>40, <1>41,
     <1>42, <1>43, <1>44, <1>45, <1>46, <1>47, <1>48, <1>49, <1>50, <1>51,
     <1>52, <1>53, <1>54, <1>55
  DEF Next, MainStep, NetStep, ServerStep, NetFault, PlaybackStep, CaptureStep

(* The transition table stays within the session states. *)
LEMMA SessionType ==
    ASSUME NEW s \in SessionStates, NEW e
    PROVE  session_handle_event(s, e).state \in SessionStates
  BY DEF session_handle_event, session_handle_error, Outcome, SessionStates

-----------------------------------------------------------------------------
(* The type invariant.                                                     *)

(* A fault costs one of the bounded number of faults. *)
LEMMA OutcomeType ==
    ASSUME faults \in 0..MaxFault, NEW f, NEW ok \in BOOLEAN, Outcomes(f, ok)
    PROVE  faults' \in 0..MaxFault
  BY AppAssumption DEF Outcomes, NoFault, Fault

(* Starting the client from the session keeps the session well typed. *)
LEMMA ConnectType ==
    ASSUME AppTypeOK, EnvTypeOK, NEW s \in SessionStates, Connect(s)
    PROVE  /\ session' \in SessionStates
           /\ clientStarted' \in BOOLEAN /\ sid' \in BOOLEAN /\ ttsDone' \in BOOLEAN
           /\ faults' \in 0..MaxFault
<1>1. PICK ok \in BOOLEAN : /\ Outcomes("spawn", ok)
                           /\ clientStarted' = (ok \/ clientStarted)
  BY DEF Connect
<1>2. clientStarted' \in BOOLEAN
  BY <1>1 DEF AppTypeOK
<1>3. faults' \in 0..MaxFault
  BY <1>1, OutcomeType DEF EnvTypeOK
<1> QED
  BY <1>2, <1>3 DEF Connect

(* So does its return to idle. *)
LEMMA IdleType ==
    ASSUME AppTypeOK, app_reset_to_idle
    PROVE  /\ session' \in SessionStates
           /\ clientStarted' \in BOOLEAN /\ sid' \in BOOLEAN /\ ttsDone' \in BOOLEAN
           /\ upload' \in BOOLEAN /\ dump' \in BOOLEAN /\ decoder' \in BOOLEAN
  BY DEF AppTypeOK, app_reset_to_idle, app_close_opus_dump_file, SessionStates

(* Every step keeps the main loop's state, its event and the environment's *)
(* bounds well typed.                                                      *)
LEMMA AppTypeStep ==
    ASSUME AppTypeOK, MainTypeOK, EnvTypeOK, leftover \in BOOLEAN, Next
    PROVE  AppTypeOK' /\ MainTypeOK' /\ EnvTypeOK'
<1> USE AppAssumption DEF AppTypeOK, MainTypeOK, EnvTypeOK, MainPCs, appVars, budget,
        mainVars, NoFault, Fault, Outcomes, AppEvents, Handles, Handled,
        app_open_opus_dump_file, app_close_opus_dump_file
<1>1. CASE RunStart
  <2>1. "CONNECTING" \in SessionStates
    BY DEF SessionStates
  <2> QED
    BY <1>1, <2>1, ConnectType DEF RunStart, From
<1>2. CASE LoopGoesOn
  BY <1>2 DEF LoopGoesOn, From, OnlyMain
<1>3. CASE LoopEnds
  BY <1>3 DEF LoopEnds, From, OnlyMain
<1>4. CASE Pop
  BY <1>4 DEF Pop
<1>5. CASE PopTimeout
  BY <1>5 DEF PopTimeout, From, OnlyMain
<1>6. CASE HandleIgnored
  BY <1>6 DEF HandleIgnored
<1>7. CASE HandleConnect
  BY <1>7, SessionType, ConnectType DEF HandleConnect
<1>8. CASE HandleConnected
  BY <1>8, SessionType DEF HandleConnected
<1>9. CASE HandleStartListen
  <2>1. upload' \in BOOLEAN /\ dump' \in BOOLEAN
    <3>1. CASE StartListenNotSent
      BY <3>1 DEF StartListenNotSent
    <3>2. CASE StartListenNoDump \/ StartListenOk
      BY <3>2 DEF StartListenNoDump, StartListenOk
    <3> QED
      BY <1>9, <3>1, <3>2 DEF HandleStartListen
  <2>2. faults' \in 0..MaxFault
    <3>1. faults' = faults \/ (faults > 0 /\ faults' = faults - 1)
      BY <1>9 DEF HandleStartListen, StartListenNotSent, StartListenNoDump,
                  StartListenOk
    <3> QED
      BY <3>1
  <2> QED
    BY <1>9, <2>1, <2>2, SessionType DEF HandleStartListen
<1>10. CASE HandleStopListen
  BY <1>10, SessionType DEF HandleStopListen
<1>11. CASE HandleAbort
  BY <1>11, SessionType DEF HandleAbort
<1>12. CASE StopAbort
  BY <1>12 DEF StopAbort, From
<1>13. CASE JoinAbort
  BY <1>13 DEF JoinAbort, From
<1>14. CASE RestartAbort
  <2>1. PICK ok \in BOOLEAN : Outcomes("spawn", ok) /\ clientStarted' = ok
    BY <1>14 DEF RestartAbort
  <2>2. faults' \in 0..MaxFault
    BY <2>1, OutcomeType
  <2> QED
    BY <1>14, <2>1, <2>2 DEF RestartAbort, From
<1>15. CASE HandleError
  BY <1>15, SessionType DEF HandleError
<1>16. CASE BackoffEnds
  BY <1>16 DEF BackoffEnds, From
<1>17. CASE JoinReturn
  BY <1>17 DEF JoinReturn, From
<1>18. CASE RestartReturn
  BY <1>18 DEF RestartReturn, From, SessionStates
<1>19. CASE HandleHello
  <2>1. decoder' \in BOOLEAN
    BY <1>19 DEF HandleHello, update_decoder_from_hello
  <2>2. faults' \in 0..MaxFault
    <3>1. faults' = faults \/ (faults > 0 /\ faults' = faults - 1)
      BY <1>19 DEF HandleHello, update_decoder_from_hello
    <3> QED
      BY <3>1
  <2>3. sid' \in BOOLEAN
    BY <1>19 DEF HandleHello
  <2> QED
    BY <1>19, <2>1, <2>2, <2>3, SessionType DEF HandleHello
<1>20. CASE HandleTtsStart
  BY <1>20 DEF HandleTtsStart, SessionStates
<1>21. CASE HandleTtsStop
  <2>1. CASE pbq = 0
    <3>1. app_reset_to_idle
      BY <1>21, <2>1 DEF HandleTtsStop
    <3> QED
      BY <1>21, <3>1, IdleType DEF HandleTtsStop
  <2>2. CASE pbq # 0
    BY <1>21, <2>2 DEF HandleTtsStop
  <2> QED
    BY <2>1, <2>2
<1>22. CASE HandleFinished
  <2>1. CASE ttsDone
    <3>1. app_reset_to_idle
      BY <1>22, <2>1 DEF HandleFinished
    <3> QED
      BY <1>22, <3>1, IdleType DEF HandleFinished
  <2>2. CASE ~ttsDone
    BY <1>22, <2>2 DEF HandleFinished
  <2> QED
    BY <2>1, <2>2
<1>23. CASE HandleShutdown
  BY <1>23 DEF HandleShutdown
<1>24. CASE PollNothing
  BY <1>24 DEF PollNothing, From, OnlyMain
<1>25. CASE PollEnter
  BY <1>25 DEF PollEnter, From
<1>26. CASE PollQuit
  BY <1>26 DEF PollQuit, app_request_stop
<1>27. CASE DestroyBegin
  <2>1. AppTypeOK'
    BY <1>27 DEF DestroyBegin, From
  <2>2. mpc' \in {"joinClient", "stopCapture"} /\ UNCHANGED cur
    BY <1>27 DEF DestroyBegin, From
  <2>3. MainTypeOK'
    BY <2>2
  <2>4. EnvTypeOK'
    BY <1>27 DEF DestroyBegin, From
  <2> QED
    BY ONLY <2>1, <2>3, <2>4
<1>28. CASE DestroyJoinClient
  BY <1>28 DEF DestroyJoinClient, From
<1>29. CASE DestroyStopCapture
  BY <1>29 DEF DestroyStopCapture, From
<1>30. CASE DestroyStopPlayback
  BY <1>30 DEF DestroyStopPlayback, From
<1>31. CASE DestroyClient
  BY <1>31 DEF DestroyClient, From
<1>32. CASE DestroyEnds
  BY <1>32 DEF DestroyEnds, From
<1>33. CASE Sigint
  BY <1>33 DEF Sigint, app_request_stop
<1>34. CASE Terminated
  BY <1>34 DEF Terminated, vars
<1>35. CASE NetConnects
  <2>1. unheard' \in BOOLEAN
    BY <1>35 DEF NetConnects
  <2> QED
    BY <1>35, <2>1 DEF NetConnects, Net
<1>36. CASE NetEstablished
  BY <1>36 DEF NetEstablished, Net
<1>37. CASE NetWriteable
  BY <1>37 DEF NetWriteable, Net, Heard
<1>38. CASE NetExits
  BY <1>38 DEF NetExits, Net, app_client_on_disconnected
<1>39. CASE NetHello
  <2>1. unheard' \in BOOLEAN
    BY <1>39 DEF NetHello
  <2>2. faults' \in 0..MaxFault
    BY <1>39 DEF NetHello, ServerSaysTooMuch
  <2> QED
    BY <1>39, <2>1, <2>2 DEF NetHello, Net, ServerSays, ServerSaysTooMuch
<1>40. CASE NetTtsStart
  BY <1>40 DEF NetTtsStart, Net, ServerSays, ServerSaysTooMuch
<1>41. CASE NetTtsStop
  BY <1>41 DEF NetTtsStop, Net, ServerSays, ServerSaysTooMuch
<1>42. CASE NetOther
  BY <1>42 DEF NetOther, Net
<1>43. CASE NetAudio
  BY <1>43 DEF NetAudio
<1>44. CASE NetInitFails
  BY <1>44 DEF NetInitFails, Net
<1>45. CASE NetConnectionError
  BY <1>45 DEF NetConnectionError, Net
<1>46. CASE NetClosed
  BY <1>46 DEF NetClosed, Net, app_client_on_disconnected
<1>47. CASE NetWriteFails
  BY <1>47 DEF NetWriteFails, Net, app_client_on_disconnected
<1>48. CASE NetFrameTooLarge
  <2>1. unheard' \in BOOLEAN
    BY <1>48 DEF NetFrameTooLarge
  <2> QED
    BY <1>48, <2>1 DEF NetFrameTooLarge, Net
<1>49. CASE PlaybackQuiet
  BY <1>49 DEF PlaybackQuiet, Playback
<1>50. CASE PlaybackFinished
  BY <1>50 DEF PlaybackFinished, Playback
<1>51. CASE PlaybackFails
  BY <1>51 DEF PlaybackFails, Playback
<1>52. CASE CaptureQuiet
  BY <1>52 DEF CaptureQuiet, Capture
<1>53. CASE CaptureEncode
  BY <1>53 DEF CaptureEncode, Capture
<1>54. CASE CaptureQueue
  BY <1>54 DEF CaptureQueue, Capture
<1>55. CASE CaptureSilence
  BY <1>55 DEF CaptureSilence, Capture
<1> QED
  BY <1>1, <1>2, <1>3, <1>4, <1>5, <1>6, <1>7, <1>8, <1>9, <1>10, <1>11,
     <1>12, <1>13, <1>14, <1>15, <1>16, <1>17, <1>18, <1>19, <1>20, <1>21,
     <1>22, <1>23, <1>24, <1>25, <1>26, <1>27, <1>28, <1>29, <1>30, <1>31,
     <1>32, <1>33, <1>34, <1>35, <1>36, <1>37, <1>38, <1>39, <1>40, <1>41,
     <1>42, <1>43, <1>44, <1>45, <1>46, <1>47, <1>48, <1>49, <1>50, <1>51,
     <1>52, <1>53, <1>54, <1>55
  DEF Next, MainStep, NetStep, ServerStep, NetFault, PlaybackStep, CaptureStep

(* What TypeOK needs of the capture thread to be inductive. *)
TypeInv == TypeOK /\ CapInv

(* The type invariant holds initially ... *)
LEMMA TypeInit ==
    ASSUME Init
    PROVE  TypeInv
<1>1. ClientTypeOK
  <2>1. running \in BOOLEAN /\ writable \in BOOLEAN /\ leftover \in BOOLEAN
    BY DEF Init, ClientInit
  <2>2. net \in NetStates
    BY DEF Init, ClientInit, NetStates
  <2>3. pendText \in Seq(Texts) /\ Len(pendText) \in 0..TextCap /\ pendBin \in 0..BinCap
    <3>1. pendText = <<>> /\ pendBin = 0
      BY DEF Init, ClientInit
    <3> QED
      BY <3>1, ClientCapAssumption
  <2>4. wire \in [first : Texts \cup {"nothing", "audio"}, hello : BOOLEAN]
    <3>1. wire = [first |-> "nothing", hello |-> FALSE]
      BY DEF Init, ClientInit, FreshWire
    <3> QED
      BY <3>1
  <2> QED
    BY <2>1, <2>2, <2>3, <2>4 DEF ClientTypeOK
<1>2. PbTypeOK
  <2>1. pbStop \in BOOLEAN /\ pbRunning \in BOOLEAN /\ pbq = 0 /\ pbpc = "wait"
    BY DEF Init, PbInit
  <2> QED
    BY <2>1, PbCapAssumption DEF PbTypeOK
<1>3. CapInv
  <2>1. /\ capRunning \in BOOLEAN /\ capUploading \in BOOLEAN /\ sampled \in BOOLEAN
        /\ silence = 0 /\ cappc = "open"
    BY DEF Init, CapInit
  <2> QED
    BY <2>1, SilenceAssumption DEF CapInv, CapTypeOK
<1>4. EvTypeOK
  <2>1. evq = <<>> /\ refused \in BOOLEAN
    BY DEF Init, EvInit
  <2> QED
    BY <2>1, EvCapAssumption DEF EvTypeOK
<1>5. AppTypeOK
  BY DEF Init, session_init, SessionStates, AppTypeOK
<1>6. MainTypeOK /\ EnvTypeOK
  <2>1. /\ mpc = "run" /\ cur = "none" /\ srv = "deaf" /\ unheard = FALSE
        /\ presses = MaxPress /\ served = MaxServer /\ faults = MaxFault
    BY DEF Init
  <2>2. unheard \in BOOLEAN
    BY <2>1
  <2> QED
    BY <2>1, <2>2, AppAssumption DEF MainTypeOK, MainPCs, EnvTypeOK
<1> QED
  BY <1>1, <1>2, <1>3, <1>4, <1>5, <1>6 DEF TypeInv, TypeOK, CapInv

(* ... and every step keeps it: each component by its own operations, the  *)
(* main loop by its handlers.                                              *)
LEMMA TypeStep ==
    ASSUME TypeInv, [Next]_vars
    PROVE  TypeInv'
<1>1. CASE Next
  <2>1. EvOp /\ (ClientCall \/ ClientThread) /\ PbOp /\ CapOp
    BY <1>1, StepIsOperations
  <2>2. EvTypeOK'
    <3>1. EvTypeOK
      BY DEF TypeInv, TypeOK
    <3>2. CASE UNCHANGED evVars
      BY <3>1, <3>2 DEF EvTypeOK, evVars
    <3> QED
      BY <2>1, <3>1, <3>2, PushType, PopType DEF EvOp, Pop
  <2>3. ClientTypeOK'
    <3>1. ClientTypeOK
      BY DEF TypeInv, TypeOK
    <3>2. CASE ClientCall
      BY <3>1, <3>2, ClientCallType DEF ClientCall
    <3>3. CASE ClientThread
      BY <3>1, <3>3, ClientThreadType DEF ClientThread
    <3> QED
      BY <2>1, <3>2, <3>3
  <2>4. PbTypeOK'
    BY <2>1, PlaybackType DEF TypeInv, TypeOK, PbOp
  <2>5. CapInv'
    BY <2>1, CaptureType DEF TypeInv, CapOp
  <2>6. AppTypeOK' /\ MainTypeOK' /\ EnvTypeOK'
    BY <1>1, AppTypeStep DEF TypeInv, TypeOK, ClientTypeOK
  <2> QED
    BY <2>2, <2>3, <2>4, <2>5, <2>6 DEF TypeInv, TypeOK, CapInv
<1>2. CASE UNCHANGED vars
  BY <1>2 DEF TypeInv, TypeOK, CapInv, vars, clientVars, pbVars, capVars, evVars,
              appVars, mainVars, budget, ClientTypeOK, PbTypeOK, CapTypeOK,
              EvTypeOK, AppTypeOK, MainTypeOK, EnvTypeOK
<1> QED
  BY <1>1, <1>2

(* Every variable keeps its type and every queue its capacity, for every   *)
(* value of the bounds: event_queue_push refuses, queue_text refuses,      *)
(* queue_binary and audio_buffer_push drop, and no step goes beyond.       *)
THEOREM TypeCorrect == Spec => []TypeOK
<1>1. Init => TypeInv
  BY TypeInit
<1>2. TypeInv /\ [Next]_vars => TypeInv'
  BY TypeStep
<1>3. TypeInv => TypeOK
  BY DEF TypeInv
<1> QED
  BY <1>1, <1>2, <1>3, PTL DEF Spec

-----------------------------------------------------------------------------
(* What the other threads leave alone.                                     *)

OtherThreads == \/ Sigint \/ Terminated \/ NetStep \/ ServerStep \/ NetFault
                \/ PlaybackStep \/ PlaybackFails \/ CaptureStep

(* Whatever a server says in a text takes one slot of the event queue and  *)
(* nothing of the client but a leftover.                                   *)
LEMMA TextIsReceived ==
    ASSUME NetHello \/ NetTtsStart \/ NetTtsStop \/ NetOther
    PROVE  /\ Receive /\ Net
           /\ \E e \in {"HELLO", "HELLO_NOSID", "TTS_START", "TTS_STOP", "OTHER"} :
                Raise(e)
  BY DEF NetHello, NetTtsStart, NetTtsStop, NetOther, ServerSays, ServerSaysTooMuch

(* Neither the network thread nor the playback thread nor the capture      *)
(* thread writes a field that the main loop owns.                          *)
LEMMA OthersLeaveMain ==
    ASSUME OtherThreads
    PROVE  UNCHANGED <<session, upload, ttsDone, clientStarted, sid, dump, decoder,
                       mpc, cur, capUploading>>
<1> USE DEF appVars, mainVars
<1>1. CASE Sigint \/ Terminated
  BY <1>1 DEF Sigint, Terminated, vars, capVars
<1>2. CASE NetStep
  BY <1>2 DEF NetStep, NetConnects, NetEstablished, NetWriteable, NetExits, Net, capVars
<1>3. CASE ServerStep
  BY <1>3, TextIsReceived DEF ServerStep, NetAudio, Net, capVars
<1>4. CASE NetFault
  BY <1>4 DEF NetFault, NetInitFails, NetConnectionError, NetClosed, NetWriteFails,
              NetFrameTooLarge, Net, capVars
<1>5. CASE PlaybackStep \/ PlaybackFails
  BY <1>5 DEF PlaybackStep, PlaybackQuiet, PlaybackFinished, PlaybackFails, Playback,
              capVars
<1>6. CASE CaptureStep
  BY <1>6 DEF CaptureStep, CaptureQuiet, CaptureEncode, CaptureQueue, CaptureSilence,
              Capture, CapOpen, CapRead, CapTail, CapTimeout, CapGoto
<1> QED
  BY <1>1, <1>2, <1>3, <1>4, <1>5, <1>6 DEF OtherThreads

-----------------------------------------------------------------------------
(* Uploading.                                                              *)

(* UploadBacked is kept by ABORT and RETURN_TO_WAKE, which clear the       *)
(* session_id and leave the state, because they have switched the upload   *)
(* off before they begin to wait for the network thread.                   *)
UploadInv ==
    /\ UploadBacked
    /\ mpc \in {"stopAbort", "joinAbort", "restartAbort", "joinReturn", "restartReturn"}
         => ~upload

(* Every step keeps UploadInv. *)
LEMMA UploadStep ==
    ASSUME UploadInv, TypeInv, [Next]_vars
    PROVE  UploadInv'
<1> USE DEF UploadInv, UploadBacked, Destroying, appVars, capVars, OnlyMain, Handles,
        Handled, app_open_opus_dump_file, app_close_opus_dump_file
<1> upload \in BOOLEAN
  BY DEF TypeInv, TypeOK, AppTypeOK
<1>1. CASE LoopGoesOn \/ LoopEnds \/ PopTimeout \/ PollNothing
  BY <1>1 DEF LoopGoesOn, LoopEnds, PopTimeout, PollNothing, From
<1>2. CASE Pop
  BY <1>2 DEF Pop, From
<1>3. CASE HandleIgnored \/ HandleShutdown
  BY <1>3 DEF HandleIgnored, HandleShutdown, From
<1>4. CASE StopAbort \/ JoinAbort \/ JoinReturn
  BY <1>4 DEF StopAbort, JoinAbort, JoinReturn, From
<1>5. CASE PollEnter \/ PollQuit
  BY <1>5 DEF PollEnter, PollQuit, From, app_request_stop
<1>6. CASE DestroyBegin \/ DestroyJoinClient \/ DestroyStopCapture \/ DestroyStopPlayback
  BY <1>6 DEF DestroyBegin, DestroyJoinClient, DestroyStopCapture,
              DestroyStopPlayback, From, audio_capture_stop
<1>7. CASE DestroyClient \/ DestroyEnds
  BY <1>7 DEF DestroyClient, DestroyEnds, From
<1>8. CASE RunStart
  BY <1>8 DEF RunStart, Connect, From, audio_capture_set_uploading
<1>9. CASE HandleConnect
  BY <1>9 DEF HandleConnect, Connect, session_handle_event, session_handle_error, Outcome,
              StartEvents
<1>10. CASE HandleConnected
  BY <1>10 DEF HandleConnected, session_handle_event, session_handle_error, Outcome
<1>11. CASE HandleStartListen
  <2>1. ~upload /\ session' = "UPLOADING_AUDIO" /\ mpc' = "poll" /\ sid' = sid
    BY <1>11 DEF HandleStartListen, session_handle_event, session_handle_error,
                 Outcome, StartEvents
  <2>2. CASE StartListenNotSent \/ StartListenNoDump
    <3>1. upload' = upload
      BY <2>2 DEF StartListenNotSent, StartListenNoDump
    <3> QED
      BY <2>1, <3>1
  <2>3. CASE StartListenOk
    <3>1. sid /\ dump' = TRUE /\ capUploading' = TRUE
      BY <2>3 DEF StartListenOk, audio_capture_set_uploading,
                  app_send_listen_start, WithSession
    <3> QED
      BY <2>1, <3>1
  <2> QED
    BY <1>11, <2>2, <2>3 DEF HandleStartListen
<1>12. CASE HandleStopListen
  BY <1>12 DEF HandleStopListen, audio_capture_set_uploading
<1>13. CASE HandleAbort
  BY <1>13 DEF HandleAbort, audio_capture_set_uploading
<1>14. CASE RestartAbort
  BY <1>14 DEF RestartAbort, From
<1>15. CASE HandleError
  BY <1>15 DEF HandleError, session_handle_event, session_handle_error, Outcome,
               StartEvents
<1>16. CASE BackoffEnds
  BY <1>16 DEF BackoffEnds, From, audio_capture_set_uploading
<1>17. CASE RestartReturn
  BY <1>17 DEF RestartReturn, From
<1>18. CASE HandleHello
  BY <1>18 DEF HandleHello, session_handle_event, session_handle_error, Outcome,
               StartEvents
<1>19. CASE HandleTtsStart
  BY <1>19 DEF HandleTtsStart, audio_capture_set_uploading
<1>20. CASE HandleTtsStop
  BY <1>20 DEF HandleTtsStop, app_reset_to_idle, audio_capture_set_uploading
<1>21. CASE HandleFinished
  BY <1>21 DEF HandleFinished, app_reset_to_idle, audio_capture_set_uploading
<1>22. CASE OtherThreads
  BY <1>22, OthersLeaveMain
<1>23. CASE UNCHANGED vars
  BY <1>23 DEF vars, mainVars
<1> QED
  BY <1>1, <1>2, <1>3, <1>4, <1>5, <1>6, <1>7, <1>8, <1>9, <1>10, <1>11, <1>12,
     <1>13, <1>14, <1>15, <1>16, <1>17, <1>18, <1>19, <1>20, <1>21, <1>22, <1>23
  DEF Next, MainStep, OtherThreads

(* Audio is uploaded only for a round that the server knows about, the     *)
(* dump file records and the capture thread takes part in, in every        *)
(* interleaving and with any of the faults.                                *)
THEOREM UploadIsBacked == Spec => []UploadBacked
<1>1. Init => UploadInv
  BY DEF Init, UploadInv, UploadBacked
<1>2. UploadInv /\ TypeInv /\ [Next]_vars => UploadInv'
  BY UploadStep
<1>3. Init => TypeInv
  BY TypeInit
<1>4. TypeInv /\ [Next]_vars => TypeInv'
  BY TypeStep
<1>5. UploadInv => UploadBacked
  BY DEF UploadInv
<1> QED
  BY <1>1, <1>2, <1>3, <1>4, <1>5, PTL DEF Spec

-----------------------------------------------------------------------------
(* Pending messages.                                                       *)

(* Every call of the client's interface and every step of its thread keeps *)
(* a callback due for what is pending.                                     *)
LEMMA StrandedStep ==
    ASSUME NothingStranded, TypeInv, [Next]_vars
    PROVE  NothingStranded'
<1> USE DEF NothingStranded, NextOut, Texts
<1>0. pendText \in Seq(Texts) /\ pendBin \in Nat /\ writable \in BOOLEAN
  BY ClientCapAssumption DEF TypeInv, TypeOK, ClientTypeOK
<1>1. CASE ClientCall
  <2>1. CASE UNCHANGED clientVars
    BY <2>1 DEF clientVars
  <2>2. CASE \/ \E ok \in BOOLEAN : xiaozhi_client_start(ok)
             \/ xiaozhi_client_stop \/ xiaozhi_client_join
    BY <2>2 DEF xiaozhi_client_start, xiaozhi_client_stop, xiaozhi_client_join
  <2>3. CASE \E m \in Texts, ok \in BOOLEAN : xiaozhi_client_queue_text(m, ok)
    BY <2>3 DEF xiaozhi_client_queue_text, signal_writable
  <2>4. CASE xiaozhi_client_queue_binary
    BY <2>4 DEF xiaozhi_client_queue_binary, signal_writable
  <2> QED
    BY <1>1, <2>1, <2>2, <2>3, <2>4 DEF ClientCall
<1>2. CASE ClientThread
  <2>1. CASE Writeable
    BY <2>1, <1>0 DEF Writeable, TakeOut
  <2>2. CASE Established
    BY <2>2 DEF Established
  <2>3. CASE \/ ThreadInitFails \/ ThreadConnects \/ ConnectionError \/ Closed
             \/ WriteFails \/ Receive \/ ReceiveTooLarge \/ ThreadExits
    BY <2>3 DEF ThreadInitFails, ThreadConnects, ConnectionError, Closed, WriteFails,
                Receive, ReceiveTooLarge, ThreadExits
  <2> QED
    BY <1>2, <2>1, <2>2, <2>3 DEF ClientThread
<1>3. CASE UNCHANGED vars
  BY <1>3 DEF vars, clientVars
<1> QED
  BY <1>1, <1>2, <1>3, StepIsOperations

(* While a connection is open, a text or a block of audio that waits to be *)
(* sent has a WRITEABLE callback coming: neither a message queued before   *)
(* ESTABLISHED nor one queued during a callback is forgotten.              *)
THEOREM PendingIsServed == Spec => []NothingStranded
<1>1. Init => NothingStranded
  BY DEF Init, ClientInit, NothingStranded
<1>2. NothingStranded /\ TypeInv /\ [Next]_vars => NothingStranded'
  BY StrandedStep
<1>3. Init => TypeInv
  BY TypeInit
<1>4. TypeInv /\ [Next]_vars => TypeInv'
  BY TypeStep
<1> QED
  BY <1>1, <1>2, <1>3, <1>4, PTL DEF Spec

-----------------------------------------------------------------------------
(* Teardown.                                                               *)

(* TeardownSafe needs that app_destroy never skips stopping a network      *)
(* thread there is, hence that client_started is never cleared or left     *)
(* unset while one exists, which in turn rests on what ABORT and           *)
(* RETURN_TO_WAKE have stopped by the time they set it.                    *)
Tracked == net # "none" \/ running => clientStarted

StoppedBefore ==
    /\ mpc \in {"joinAbort", "joinReturn", "joinClient"} => ~running
    /\ mpc \in {"restartAbort", "restartReturn", "stopCapture", "joinCapture",
                "joinPlayback", "freeClient", "stopped"} => net = "none" /\ ~running

ThreadsEnded ==
    /\ mpc \in {"joinPlayback", "freeClient", "stopped"} => cappc = "exited"
    /\ mpc \in {"freeClient", "stopped"} => pbpc = "exited"

TeardownInv == Tracked /\ StoppedBefore /\ ThreadsEnded

(* Only the main thread starts and stops the client. *)
LEMMA OthersKeepClient ==
    ASSUME OtherThreads
    PROVE  running' = running /\ (net = "none" => net' = "none")
<1>1. CASE Sigint \/ Terminated
  BY <1>1 DEF Sigint, Terminated, vars, clientVars
<1>2. CASE NetStep
  BY <1>2 DEF NetStep, NetConnects, NetEstablished, NetWriteable, NetExits,
              ThreadConnects, Established, Writeable, ThreadExits
<1>3. CASE ServerStep
  <2>1. CASE NetAudio
    BY <2>1 DEF NetAudio, clientVars
  <2>2. CASE NetHello \/ NetTtsStart \/ NetTtsStop \/ NetOther
    <3>1. Receive
      BY <2>2, TextIsReceived
    <3> QED
      BY <3>1 DEF Receive
  <2> QED
    BY <1>3, <2>1, <2>2 DEF ServerStep
<1>4. CASE NetFault
  BY <1>4 DEF NetFault, NetInitFails, NetConnectionError, NetClosed, NetWriteFails,
              NetFrameTooLarge, ThreadInitFails, ConnectionError, Closed, WriteFails,
              ReceiveTooLarge, clientVars
<1>5. CASE PlaybackStep \/ PlaybackFails
  BY <1>5 DEF PlaybackStep, PlaybackQuiet, PlaybackFinished, PlaybackFails,
              Playback, clientVars
<1>6. CASE CaptureStep
  BY <1>6 DEF CaptureStep, CaptureQuiet, CaptureEncode, CaptureQueue,
              CaptureSilence, xiaozhi_client_queue_binary, clientVars
<1> QED
  BY <1>1, <1>2, <1>3, <1>4, <1>5, <1>6 DEF OtherThreads

(* The other threads keep TeardownInv: a thread that has ended takes no    *)
(* more steps, and only the main thread starts and stops the client.       *)
LEMMA TeardownOthers ==
    ASSUME TeardownInv, TypeInv, OtherThreads
    PROVE  TeardownInv'
<1>0. UNCHANGED <<clientStarted, mpc>>
  BY OthersLeaveMain
<1>1. running' = running /\ (net = "none" => net' = "none")
  BY OthersKeepClient
<1>2. cappc = "exited" => cappc' = "exited"
  <2>1. CASE CaptureStep
    BY <2>1 DEF CaptureStep, CaptureQuiet, CaptureEncode, CaptureQueue, CaptureSilence,
                CapOpen, CapRead, CapTail, CapTimeout
  <2>2. CASE OtherThreads /\ ~CaptureStep
    BY <2>2, TextIsReceived
            DEF OtherThreads, Sigint, Terminated, NetStep, NetConnects,
                NetEstablished, NetWriteable, NetExits, ServerStep, NetAudio, Net,
                NetFault, NetInitFails, NetConnectionError, NetClosed, NetWriteFails,
                NetFrameTooLarge, PlaybackStep, PlaybackQuiet, PlaybackFinished,
                PlaybackFails, Playback, vars, capVars
  <2> QED
    BY <2>1, <2>2
<1>3. pbpc = "exited" => pbpc' = "exited"
  <2>1. CASE PlaybackStep \/ PlaybackFails
    BY <2>1 DEF PlaybackStep, PlaybackQuiet, PlaybackFinished, PlaybackFails, PbWake,
                PbProceeds, PbTake, PbWritten, PbDeviceFails, PbStopped, PbNotify
  <2>2. CASE NetAudio
    BY <2>2 DEF NetAudio, audio_playback_enqueue, pbVars
  <2>3. CASE OtherThreads /\ ~(PlaybackStep \/ PlaybackFails \/ NetAudio)
    BY <2>3, TextIsReceived
            DEF OtherThreads, Sigint, Terminated, NetStep, NetConnects,
                NetEstablished, NetWriteable, NetExits, ServerStep, Net, NetFault,
                NetInitFails, NetConnectionError, NetClosed, NetWriteFails,
                NetFrameTooLarge, CaptureStep, CaptureQuiet, CaptureEncode,
                CaptureQueue, CaptureSilence, Capture, vars, pbVars
  <2> QED
    BY <2>1, <2>2, <2>3
<1> QED
  BY <1>0, <1>1, <1>2, <1>3 DEF TeardownInv, Tracked, StoppedBefore, ThreadsEnded

(* TeardownInv holds at the start. *)
LEMMA TeardownInit ==
    ASSUME Init
    PROVE  TeardownInv
  BY DEF Init, ClientInit, TeardownInv, Tracked, StoppedBefore, ThreadsEnded

(* Every step keeps TeardownInv. *)
LEMMA TeardownStep ==
    ASSUME TeardownInv, TypeInv, [Next]_vars
    PROVE  TeardownInv'
<1> USE DEF TeardownInv, Tracked, StoppedBefore, ThreadsEnded, appVars, clientVars,
        OnlyMain, Handles, Handled, app_send_hello, app_send_abort,
        app_send_listen_stop, WithSession
<1> running \in BOOLEAN /\ clientStarted \in BOOLEAN /\ net \in NetStates
  BY DEF TypeInv, TypeOK, AppTypeOK, ClientTypeOK
<1>1. CASE LoopGoesOn \/ LoopEnds \/ PopTimeout \/ PollNothing
  BY <1>1 DEF LoopGoesOn, LoopEnds, PopTimeout, PollNothing, From
<1>2. CASE Pop
  BY <1>2 DEF Pop
<1>3. CASE HandleIgnored \/ HandleShutdown
  BY <1>3 DEF HandleIgnored, HandleShutdown
<1>4. CASE PollEnter \/ PollQuit
  BY <1>4 DEF PollEnter, PollQuit, From, app_request_stop
<1>5. CASE RunStart
  BY <1>5 DEF RunStart, From, Connect, xiaozhi_client_start
<1>6. CASE HandleConnect
  BY <1>6 DEF HandleConnect, Connect, xiaozhi_client_start
<1>7. CASE HandleConnected \/ HandleStopListen
  BY <1>7 DEF HandleConnected, HandleStopListen, xiaozhi_client_queue_text
<1>8. CASE HandleStartListen
  <2>1. UNCHANGED <<running, net>>
    <3>1. \E ok \in BOOLEAN : WithSession("start", ok)
      BY <1>8 DEF HandleStartListen, StartListenNotSent, StartListenNoDump,
                  StartListenOk, app_send_listen_start
    <3> QED
      BY <3>1 DEF WithSession, xiaozhi_client_queue_text
  <2>2. mpc' = "poll" /\ clientStarted' = clientStarted
    BY <1>8 DEF HandleStartListen
  <2> QED
    BY <2>1, <2>2
<1>9. CASE HandleAbort
  BY <1>9 DEF HandleAbort, xiaozhi_client_queue_text
<1>10. CASE StopAbort
  BY <1>10 DEF StopAbort, From, xiaozhi_client_stop
<1>11. CASE JoinAbort
  BY <1>11 DEF JoinAbort, From, xiaozhi_client_join
<1>12. CASE RestartAbort
  BY <1>12 DEF RestartAbort, From, xiaozhi_client_start
<1>13. CASE HandleError
  BY <1>13 DEF HandleError
<1>14. CASE BackoffEnds
  BY <1>14 DEF BackoffEnds, From, xiaozhi_client_stop
<1>15. CASE JoinReturn
  BY <1>15 DEF JoinReturn, From, xiaozhi_client_join
<1>16. CASE RestartReturn
  BY <1>16 DEF RestartReturn, From, xiaozhi_client_start
<1>17. CASE HandleHello \/ HandleTtsStart
  <2>1. mpc' = "poll" /\ UNCHANGED <<clientStarted, running, net>>
    BY <1>17 DEF HandleHello, HandleTtsStart
  <2> QED
    BY <2>1
<1>18. CASE HandleTtsStop \/ HandleFinished
  <2>1. mpc' = "poll" /\ UNCHANGED <<clientStarted, running, net>>
    BY <1>18 DEF HandleTtsStop, HandleFinished, app_reset_to_idle
  <2> QED
    BY <2>1
<1>19. CASE DestroyBegin
  <2>1. CASE clientStarted
    BY <1>19, <2>1 DEF DestroyBegin, From, xiaozhi_client_stop
  <2>2. CASE ~clientStarted
    BY <1>19, <2>2 DEF DestroyBegin, From
  <2> QED
    BY <2>1, <2>2
<1>20. CASE DestroyJoinClient
  BY <1>20 DEF DestroyJoinClient, From, xiaozhi_client_join
<1>21. CASE DestroyStopCapture
  BY <1>21 DEF DestroyStopCapture, From
<1>22. CASE DestroyStopPlayback
  BY <1>22 DEF DestroyStopPlayback, From, CapJoined, capVars
<1>23. CASE DestroyClient
  BY <1>23 DEF DestroyClient, From, PbJoined, capVars, pbVars,
              xiaozhi_client_stop
<1>24. CASE DestroyEnds
  BY <1>24 DEF DestroyEnds, From, capVars, pbVars, xiaozhi_client_join
<1>25. CASE OtherThreads
  BY <1>25, TeardownOthers
<1>26. CASE UNCHANGED vars
  BY <1>26 DEF vars, mainVars, capVars, pbVars
<1> QED
  BY <1>1, <1>2, <1>3, <1>4, <1>5, <1>6, <1>7, <1>8, <1>9, <1>10, <1>11, <1>12,
     <1>13, <1>14, <1>15, <1>16, <1>17, <1>18, <1>19, <1>20, <1>21, <1>22,
     <1>23, <1>24, <1>25, <1>26 DEF Next, MainStep, OtherThreads

(* app_destroy frees the playback queue, the codecs, the client and the    *)
(* event queue only when no thread that uses them is left, wherever the    *)
(* stop request catches the program.                                       *)
THEOREM TeardownIsSafe == Spec => []TeardownSafe
<1>1. Init => TeardownInv
  BY TeardownInit
<1>2. TeardownInv /\ TypeInv /\ [Next]_vars => TeardownInv'
  BY TeardownStep
<1>3. Init => TypeInv
  BY TypeInit
<1>4. TypeInv /\ [Next]_vars => TypeInv'
  BY TypeStep
<1>5. TeardownInv => TeardownSafe
  BY DEF TeardownInv, StoppedBefore, ThreadsEnded, TeardownSafe, NetAlive
<1> QED
  BY <1>1, <1>2, <1>3, <1>4, <1>5, PTL DEF Spec

-----------------------------------------------------------------------------
(* Errors on their way.                                                    *)

(* An event that is raised is queued, unless the queue is full. *)
LEMMA RaisedIsQueued ==
    ASSUME EvTypeOK, NEW e \in Events, Raise(e)
    PROVE  refused' \/ Queued(e)'
<1>1. CASE Len(evq) < EvCap
  <2>1. evq' = Append(evq, e)
    BY <1>1 DEF Raise, event_queue_push
  <2>2. Len(evq') \in 1..Len(evq') /\ evq'[Len(evq')] = e
    BY <2>1 DEF EvTypeOK
  <2> QED
    BY <2>2 DEF Queued
<1>2. CASE ~(Len(evq) < EvCap)
  BY <1>2 DEF Raise, event_queue_push
<1> QED
  BY <1>1, <1>2

(* An event on its way stays so until the main loop handles it. *)
LEMMA EventStays ==
    ASSUME TypeInv, mpc # "handle" => cur = "none", Next, NEW e \in Events,
           cur = e => cur' = e, Queued(e)
    PROVE  Queued(e)'
<1>0. EvTypeOK
  BY DEF TypeInv, TypeOK
<1>a. CASE cur = e
  BY <1>a DEF Queued
<1>b. CASE cur # e
  <2>0. PICK i \in 1..Len(evq) : evq[i] = e
    BY <1>b DEF Queued
  <2>1. CASE \E f \in Events : event_queue_push(f)
    <3>1. PICK f \in Events : event_queue_push(f)
      BY <2>1
    <3>2. i \in 1..Len(evq') /\ evq'[i] = e
      BY <3>1, <2>0, <1>0 DEF event_queue_push, EvTypeOK
    <3> QED
      BY <3>2 DEF Queued
  <2>2. CASE Pop
    <3>1. PICK f \in Events : event_queue_pop(f) /\ cur' = f
      BY <2>2 DEF Pop
    <3>2. CASE i = 1
      BY <3>2, <3>1, <2>0, <1>0 DEF event_queue_pop, EvTypeOK, Queued
    <3>3. CASE i # 1
      <4>1. i - 1 \in 1..Len(evq') /\ evq'[i - 1] = e
        BY <3>3, <3>1, <2>0, <1>0 DEF event_queue_pop, EvTypeOK
      <4> QED
        BY <4>1 DEF Queued
    <3> QED
      BY <3>2, <3>3
  <2>3. CASE UNCHANGED evVars
    BY <2>3, <2>0 DEF evVars, Queued
  <2> QED
    BY <2>1, <2>2, <2>3, StepIsOperations DEF EvOp
<1> QED
  BY <1>a, <1>b

(* So an ERROR that has been raised is on its way ... *)
LEMMA RaisedIsPending ==
    ASSUME EvTypeOK, Raise("ERROR")
    PROVE  ErrorPending'
<1>1. "ERROR" \in Events
  BY AppAssumption DEF AppEvents
<1> QED
  BY <1>1, RaisedIsQueued DEF ErrorPending

(* ... until the main loop handles it. *)
LEMMA ErrorStays ==
    ASSUME TypeInv, mpc # "handle" => cur = "none", Next,
           cur = "ERROR" => cur' = "ERROR", ErrorPending
    PROVE  ErrorPending'
<1>1. "ERROR" \in Events
  BY AppAssumption DEF AppEvents
<1>2. refused => refused'
  BY StepIsOperations DEF EvOp, event_queue_push, Pop, event_queue_pop, evVars
<1> QED
  BY <1>1, <1>2, EventStays DEF ErrorPending

(* UploadingIsUploading needs to know that an event is in the main loop's  *)
(* hands only while it handles it, and that the handler of ERROR, which    *)
(* switches the upload off after its sleep, has changed the state before.  *)
UploadingInv ==
    /\ UploadingIsUploading
    /\ mpc # "handle" => cur = "none"
    /\ mpc \in {"backoff", "joinReturn", "restartReturn"} => session = "ERROR_BACKOFF"

(* Every step keeps UploadingInv. *)
LEMMA UploadingStep ==
    ASSUME UploadingInv, TypeInv, [Next]_vars
    PROVE  UploadingInv'
<1> USE DEF UploadingInv, UploadingIsUploading, appVars, mainVars, OnlyMain, Handles,
        Handled
<1>a. Next /\ (cur = "ERROR" => cur' = "ERROR") /\ ErrorPending => ErrorPending'
  BY ErrorStays
<1>1. CASE LoopGoesOn \/ LoopEnds \/ PopTimeout \/ PollNothing
  BY <1>1, <1>a DEF Next, MainStep, LoopGoesOn, LoopEnds, PopTimeout, PollNothing,
              From
<1>2. CASE HandleIgnored \/ HandleShutdown
  BY <1>2, <1>a DEF Next, MainStep, HandleIgnored, HandleShutdown
<1>3. CASE PollEnter \/ PollQuit
  BY <1>3, <1>a DEF Next, MainStep, PollEnter, PollQuit, From, app_request_stop
<1>4. CASE RunStart
  BY <1>4, <1>a DEF Next, MainStep, RunStart, From, Connect
<1>5. CASE HandleConnect
  BY <1>5, <1>a DEF Next, MainStep, HandleConnect, Connect, session_handle_event,
              session_handle_error, Outcome, StartEvents
<1>6. CASE HandleConnected
  BY <1>6, <1>a DEF Next, MainStep, HandleConnected, session_handle_event,
              session_handle_error, Outcome, StartEvents
<1>7. CASE HandleStopListen
  BY <1>7, <1>a DEF Next, MainStep, HandleStopListen, session_handle_event,
              session_handle_error, Outcome
<1>8. CASE HandleAbort
  BY <1>8, <1>a DEF Next, MainStep, HandleAbort, session_handle_event,
              session_handle_error, Outcome, StartEvents
<1>9. CASE StopAbort \/ JoinAbort \/ RestartAbort
  BY <1>9, <1>a DEF Next, MainStep, StopAbort, JoinAbort, RestartAbort, From
<1>10. CASE HandleError
  <2>1. session' = "ERROR_BACKOFF" /\ mpc' = "backoff" /\ cur' = "none"
    BY <1>10 DEF HandleError, session_handle_event, session_handle_error, Outcome,
                StartEvents
  <2> QED
    BY <2>1
<1>11. CASE BackoffEnds \/ JoinReturn \/ RestartReturn
  BY <1>11, <1>a DEF Next, MainStep, BackoffEnds, JoinReturn, RestartReturn, From
<1>12. CASE HandleHello
  BY <1>12, <1>a DEF Next, MainStep, HandleHello, session_handle_event,
              session_handle_error, Outcome, StartEvents
<1>13. CASE HandleTtsStart
  BY <1>13, <1>a DEF Next, MainStep, HandleTtsStart
<1>14. CASE HandleTtsStop \/ HandleFinished
  <2>1. mpc' = "poll" /\ cur' = "none" /\ cur # "ERROR" /\ Next
    BY <1>14 DEF HandleTtsStop, HandleFinished, Next, MainStep
  <2>2. CASE app_reset_to_idle
    BY <2>1, <2>2 DEF app_reset_to_idle
  <2>3. CASE UNCHANGED <<session, upload>>
    BY <2>1, <2>3, <1>a
  <2> QED
    BY <1>14, <2>2, <2>3 DEF HandleTtsStop, HandleFinished
<1>15. CASE DestroyBegin \/ DestroyJoinClient \/ DestroyStopCapture \/ DestroyStopPlayback
  BY <1>15, <1>a DEF Next, MainStep, DestroyBegin, DestroyJoinClient,
              DestroyStopCapture, DestroyStopPlayback, From
<1>16. CASE DestroyClient \/ DestroyEnds
  BY <1>16, <1>a DEF Next, MainStep, DestroyClient, DestroyEnds, From
<1>17. CASE Pop
  <2>1. cur = "none"
    BY <1>17 DEF Pop
  <2> QED
    BY <1>17, <2>1, <1>a DEF Next, MainStep, Pop
<1>18. CASE HandleStartListen
  <2>1. mpc' = "poll" /\ cur' = "none"
    BY <1>18 DEF HandleStartListen
  <2>2. CASE StartListenOk
    BY <2>1, <2>2 DEF StartListenOk
  <2>3. CASE StartListenNotSent \/ StartListenNoDump
    <3>1. Raise("ERROR")
      BY <2>3 DEF StartListenNotSent, StartListenNoDump
    <3>2. ErrorPending'
      BY <3>1, RaisedIsPending DEF TypeInv, TypeOK
    <3> QED
      BY <2>1, <3>2
  <2> QED
    BY <1>18, <2>2, <2>3 DEF HandleStartListen
<1>19. CASE OtherThreads
  <2>1. Next
    BY <1>19 DEF Next, OtherThreads
  <2> QED
    BY <1>19, <2>1, <1>a, OthersLeaveMain
<1>20. CASE UNCHANGED vars
  BY <1>20 DEF vars, evVars, ErrorPending, Queued
<1> QED
  BY <1>1, <1>2, <1>3, <1>4, <1>5, <1>6, <1>7, <1>8, <1>9, <1>10, <1>11, <1>12,
     <1>13, <1>14, <1>15, <1>16, <1>17, <1>18, <1>19, <1>20
  DEF Next, MainStep, OtherThreads

(* A session in UPLOADING_AUDIO uploads, or an ERROR is on its way to end  *)
(* it: the state START_LISTEN sets before it knows whether it will succeed *)
(* never becomes a claim that nobody corrects, as long as the event queue  *)
(* has refused nothing.                                                    *)
THEOREM UploadingIsGenuine == Spec => []UploadingIsUploading
<1>1. Init => UploadingInv
  BY DEF Init, UploadingInv, UploadingIsUploading, session_init
<1>2. UploadingInv /\ TypeInv /\ [Next]_vars => UploadingInv'
  BY UploadingStep
<1>3. Init => TypeInv
  BY TypeInit
<1>4. TypeInv /\ [Next]_vars => TypeInv'
  BY TypeStep
<1>5. UploadingInv => UploadingIsUploading
  BY DEF UploadingInv
<1> QED
  BY <1>1, <1>2, <1>3, <1>4, <1>5, PTL DEF Spec

-----------------------------------------------------------------------------
(* The components.                                                         *)

(* The program uses its event queue, its playback and its client as they   *)
(* specify: what happens to them in app.c is a behaviour of EventFifo, one *)
(* of AudioPlayback and one of XiaozhiClient.  These are what              *)
(* event_queue.c, audio_playback.c and xiaozhi_client.c, taken apart in    *)
(* EventQueue, PlaybackThread and ClientThreads, implement.                *)
THEOREM ComponentsAreUsedAsSpecified == Spec => EvSpec /\ PbSpec /\ ClientSpec
<1>1. Init => EvInit /\ PbInit /\ ClientInit
  BY DEF Init
<1>2. ASSUME [Next]_vars
      PROVE  [EvNext]_evVars /\ [PbNext]_pbVars /\ [ClientNext]_clientVars
  <2>1. CASE Next
    <3>1. EvOp /\ PbOp /\ (ClientCall \/ ClientThread)
      BY <2>1, StepIsOperations
    <3>2. [EvNext]_evVars
      BY <3>1 DEF EvOp, Pop, EvNext
    <3>3. [PbNext]_pbVars
      BY <3>1 DEF PbOp, PbNext
    <3>4. [ClientNext]_clientVars
      BY <3>1 DEF ClientCall, ClientThread, ClientNext
    <3> QED
      BY <3>2, <3>3, <3>4
  <2>2. CASE UNCHANGED vars
    BY <2>2 DEF vars
  <2> QED
    BY <1>2, <2>1, <2>2
<1> QED
  BY <1>1, <1>2, PTL DEF Spec, EvSpec, PbSpec, ClientSpec

-----------------------------------------------------------------------------
(* The end of a round.                                                     *)

(* The playback thread will report, or has something left to play. *)
StillToReport == pbStop \/ pbq > 0 \/ pbpc \in {"write", "notify"}

RoundEndInv ==
    /\ RoundEndBacked
    /\ mpc # "handle" => cur = "none"

(* What the other threads do to the playback component. *)
LEMMA OthersUsePlayback ==
    ASSUME Next, ~PlaybackStep, ~PlaybackFails
    PROVE  \/ audio_playback_enqueue \/ audio_playback_request_stop
           \/ audio_playback_destroy \/ UNCHANGED pbVars
<1>1. CASE NetAudio
  BY <1>1 DEF NetAudio
<1>2. CASE HandleAbort
  BY <1>2 DEF HandleAbort
<1>3. CASE DestroyStopPlayback
  BY <1>3 DEF DestroyStopPlayback
<1>4. CASE Sigint \/ Terminated \/ CaptureStep
  BY <1>4 DEF Sigint, Terminated, vars, CaptureStep, CaptureQuiet, CaptureEncode,
              CaptureQueue, CaptureSilence, Capture
<1>5. CASE NetStep \/ (ServerStep /\ ~NetAudio) \/ NetFault
  BY <1>5, TextIsReceived
          DEF NetStep, NetConnects, NetEstablished, NetWriteable, NetExits, ServerStep,
              NetFault, NetInitFails, NetConnectionError, NetClosed, NetWriteFails,
              NetFrameTooLarge, Net
<1>6. CASE RunStart \/ LoopGoesOn \/ LoopEnds \/ Pop \/ PopTimeout
  BY <1>6 DEF RunStart, LoopGoesOn, LoopEnds, Pop, PopTimeout, OnlyMain
<1>7. CASE \/ HandleIgnored \/ HandleConnect \/ HandleConnected \/ HandleStartListen
           \/ HandleStopListen \/ StopAbort \/ JoinAbort \/ RestartAbort
  BY <1>7 DEF HandleIgnored, HandleConnect, HandleConnected, HandleStartListen,
              HandleStopListen, StopAbort, JoinAbort, RestartAbort
<1>8. CASE \/ HandleError \/ BackoffEnds \/ JoinReturn \/ RestartReturn
           \/ HandleHello \/ HandleTtsStart \/ HandleTtsStop \/ HandleFinished
           \/ HandleShutdown
  BY <1>8 DEF HandleError, BackoffEnds, JoinReturn, RestartReturn, HandleHello,
              HandleTtsStart, HandleTtsStop, HandleFinished, HandleShutdown
<1>9. CASE \/ PollNothing \/ PollEnter \/ PollQuit
           \/ DestroyBegin \/ DestroyJoinClient \/ DestroyStopCapture
           \/ DestroyClient \/ DestroyEnds
  BY <1>9 DEF PollNothing, PollEnter, PollQuit, DestroyBegin, DestroyJoinClient,
              DestroyStopCapture, DestroyClient, DestroyEnds, OnlyMain
<1> QED
  BY <1>1, <1>2, <1>3, <1>4, <1>5, <1>6, <1>7, <1>8, <1>9
  DEF Next, MainStep, ServerStep

(* Playing goes on to its report: the playback thread does not stop        *)
(* between them, unless the sound device fails.                            *)
LEMMA ReportStays ==
    ASSUME "device" \notin Faults, TypeInv, Next, StillToReport
    PROVE  StillToReport' \/ refused' \/ Queued("PLAYBACK_FINISHED")'
<1>0. pbq \in Nat
  BY DEF TypeInv, TypeOK, PbTypeOK
<1>1. CASE PlaybackFails
  BY <1>1 DEF PlaybackFails, Fault
<1>2. CASE PlaybackFinished
  <2>1. "PLAYBACK_FINISHED" \in Events
    BY AppAssumption DEF AppEvents
  <2> QED
    BY <1>2, <2>1, RaisedIsQueued DEF PlaybackFinished, TypeInv, TypeOK
<1>3. CASE PlaybackQuiet
  BY <1>3, <1>0 DEF PlaybackQuiet, PbWake, PbStopped, PbProceeds, PbTake, PbWritten,
                    StillToReport
<1>4. CASE Next /\ ~PlaybackStep /\ ~PlaybackFails
  <2>1. \/ audio_playback_enqueue \/ audio_playback_request_stop
        \/ audio_playback_destroy \/ UNCHANGED pbVars
    BY <1>4, OthersUsePlayback
  <2> QED
    BY <2>1, <1>0 DEF audio_playback_enqueue, audio_playback_request_stop,
                      audio_playback_destroy, pbVars, StillToReport
<1> QED
  BY <1>1, <1>2, <1>3, <1>4 DEF PlaybackStep

(* A step ends the round, or changes nothing about it and leaves the       *)
(* report that is being handled, or is tts/stop with blocks left to play.  *)
LEMMA RoundSteps ==
    ASSUME mpc # "handle" => cur = "none", [Next]_vars
    PROVE  /\ mpc' # "handle" => cur' = "none"
           /\ \/ session' # "PLAYING_TTS" \/ ttsDone' = FALSE
              \/ /\ UNCHANGED <<session, ttsDone>>
                 /\ cur = "PLAYBACK_FINISHED" => cur' = cur \/ ttsDone = FALSE
              \/ pbq # 0 /\ UNCHANGED pbVars
<1> USE DEF appVars, mainVars, OnlyMain, Handles, Handled
<1>1. CASE LoopGoesOn \/ LoopEnds \/ PopTimeout \/ PollNothing
  BY <1>1 DEF LoopGoesOn, LoopEnds, PopTimeout, PollNothing, From
<1>2. CASE HandleIgnored \/ HandleShutdown
  BY <1>2 DEF HandleIgnored, HandleShutdown
<1>3. CASE PollEnter \/ PollQuit
  BY <1>3 DEF PollEnter, PollQuit, From, app_request_stop
<1>4. CASE RunStart
  BY <1>4 DEF RunStart, From, Connect
<1>5. CASE HandleConnect \/ HandleConnected \/ HandleStopListen \/ HandleStartListen
  <2>1. session' = session_handle_event(session, cur).state
    BY <1>5 DEF HandleConnect, Connect, HandleConnected, HandleStopListen,
                HandleStartListen
  <2>2. session_handle_event(session, cur).action
          \in {"CONNECT", "SEND_HELLO", "STOP_LISTEN", "START_LISTEN"}
    BY <1>5 DEF HandleConnect, HandleConnected, HandleStopListen, HandleStartListen
  <2>3. session' # "PLAYING_TTS"
    BY <2>1, <2>2 DEF session_handle_event, session_handle_error, Outcome
  <2> QED
    BY <1>5, <2>3 DEF HandleConnect, HandleConnected, HandleStopListen,
                      HandleStartListen
<1>6. CASE HandleAbort
  BY <1>6 DEF HandleAbort, session_handle_event, session_handle_error, Outcome,
              StartEvents
<1>7. CASE StopAbort \/ JoinAbort \/ RestartAbort
  BY <1>7 DEF StopAbort, JoinAbort, RestartAbort, From
<1>8. CASE HandleError
  <2>1. session' = "ERROR_BACKOFF" /\ mpc' = "backoff" /\ cur' = "none"
    BY <1>8 DEF HandleError, session_handle_event, session_handle_error, Outcome,
                StartEvents
  <2> QED
    BY <2>1
<1>9. CASE BackoffEnds \/ JoinReturn \/ RestartReturn
  BY <1>9 DEF BackoffEnds, JoinReturn, RestartReturn, From
<1>10. CASE HandleHello
  BY <1>10 DEF HandleHello, session_handle_event, session_handle_error, Outcome,
               StartEvents
<1>11. CASE HandleTtsStart
  BY <1>11 DEF HandleTtsStart
<1>12. CASE HandleTtsStop \/ HandleFinished
  <2>1. mpc' = "poll" /\ cur' = "none" /\ UNCHANGED pbVars
    BY <1>12 DEF HandleTtsStop, HandleFinished
  <2>2. CASE app_reset_to_idle
    BY <2>1, <2>2 DEF app_reset_to_idle
  <2>3. CASE ~app_reset_to_idle
    <3>1. CASE HandleTtsStop
      BY <2>1, <2>3, <3>1 DEF HandleTtsStop
    <3>2. CASE HandleFinished
      BY <2>1, <2>3, <3>2 DEF HandleFinished
    <3> QED
      BY <1>12, <3>1, <3>2
  <2> QED
    BY <2>2, <2>3
<1>13. CASE DestroyBegin \/ DestroyJoinClient \/ DestroyStopCapture \/ DestroyStopPlayback
  BY <1>13 DEF DestroyBegin, DestroyJoinClient, DestroyStopCapture, DestroyStopPlayback,
               From
<1>14. CASE DestroyClient \/ DestroyEnds
  BY <1>14 DEF DestroyClient, DestroyEnds, From
<1>15. CASE Pop
  BY <1>15 DEF Pop
<1>16. CASE OtherThreads
  BY <1>16, OthersLeaveMain
<1>17. CASE UNCHANGED vars
  BY <1>17 DEF vars
<1> QED
  BY <1>1, <1>2, <1>3, <1>4, <1>5, <1>6, <1>7, <1>8, <1>9, <1>10, <1>11, <1>12,
     <1>13, <1>14, <1>15, <1>16, <1>17 DEF Next, MainStep, OtherThreads

(* Every step keeps RoundEndInv. *)
LEMMA RoundEndStep ==
    ASSUME "device" \notin Faults, RoundEndInv, TypeInv, [Next]_vars
    PROVE  RoundEndInv'
<1>1. mpc' # "handle" => cur' = "none"
  BY RoundSteps DEF RoundEndInv
<1>2. RoundEndBacked'
  <2> SUFFICES ASSUME session' = "PLAYING_TTS", ttsDone'
               PROVE  refused' \/ Queued("PLAYBACK_FINISHED")' \/ StillToReport'
    BY DEF RoundEndBacked, StillToReport
  <2>0. ttsDone \in BOOLEAN /\ ttsDone' \in BOOLEAN /\ pbq \in Nat /\ EvTypeOK
    BY TypeStep DEF TypeInv, TypeOK, AppTypeOK, PbTypeOK
  <2>1. CASE pbq # 0 /\ UNCHANGED pbVars
    BY <2>1, <2>0 DEF StillToReport, pbVars
  <2>2. CASE /\ UNCHANGED <<session, ttsDone>>
             /\ cur = "PLAYBACK_FINISHED" => cur' = cur \/ ttsDone = FALSE
             /\ Next
    <3>1. refused \/ Queued("PLAYBACK_FINISHED") \/ StillToReport
      BY <2>2 DEF RoundEndInv, RoundEndBacked, StillToReport
    <3>2. CASE refused
      BY <3>2, <2>2, StepIsOperations
      DEF EvOp, event_queue_push, Pop, event_queue_pop, evVars
    <3>3. CASE Queued("PLAYBACK_FINISHED")
      <4>1. "PLAYBACK_FINISHED" \in Events
        BY AppAssumption DEF AppEvents
      <4>2. cur = "PLAYBACK_FINISHED" => cur' = "PLAYBACK_FINISHED"
        BY <2>2, <2>0
      <4> QED
        BY <4>1, <4>2, <2>2, <3>3, EventStays DEF RoundEndInv
    <3>4. CASE StillToReport
      BY <3>4, <2>2, ReportStays
    <3> QED
      BY <3>1, <3>2, <3>3, <3>4
  <2>3. CASE UNCHANGED vars
    BY <2>3 DEF RoundEndInv, RoundEndBacked, StillToReport, Queued, vars, pbVars,
                evVars, mainVars, appVars
  <2> QED
    BY <2>0, <2>1, <2>2, <2>3, RoundSteps DEF RoundEndInv
<1> QED
  BY <1>1, <1>2 DEF RoundEndInv

(* A round that the server has finished and that still plays is told of    *)
(* its end: PLAYBACK_FINISHED is queued or the playback thread is on its   *)
(* way to it, unless the event queue has refused something.  It holds of a *)
(* sound device that works: one that fails loses the block it was given    *)
(* and nobody is told.                                                     *)
THEOREM RoundsAreTold ==
    ASSUME "device" \notin Faults
    PROVE  Spec => []RoundEndBacked
<1>1. Init => RoundEndInv
  BY DEF Init, RoundEndInv, RoundEndBacked
<1>2. RoundEndInv /\ TypeInv /\ [Next]_vars => RoundEndInv'
  BY RoundEndStep
<1>3. Init => TypeInv
  BY TypeInit
<1>4. TypeInv /\ [Next]_vars => TypeInv'
  BY TypeStep
<1>5. RoundEndInv => RoundEndBacked
  BY DEF RoundEndInv
<1> QED
  BY <1>1, <1>2, <1>3, <1>4, <1>5, PTL DEF Spec

-----------------------------------------------------------------------------
(* Sequences of events.                                                    *)

Has(q, e) == \E i \in 1..Len(q) : q[i] = e

(* e is in q, and no ERROR behind it. *)
Fresh(q, e) ==
    \E i \in 1..Len(q) : q[i] = e /\ \A j \in i..Len(q) : q[j] # "ERROR"

Hellos == {"HELLO", "HELLO_NOSID"}

(* A fresh WS_CONNECTED without a hello behind it. *)
Unanswered(q) ==
    \E i \in 1..Len(q) : q[i] = "WS_CONNECTED"
                         /\ \A j \in i..Len(q) : q[j] \notin Hellos \cup {"ERROR"}

(* A TTS_STOP with no HELLO before it and no ERROR anywhere. *)
Orphan(q) ==
    /\ ~Has(q, "ERROR")
    /\ \E i \in 1..Len(q) : q[i] = "TTS_STOP" /\ \A j \in 1..i : q[j] # "HELLO"

(* The events under way, the one that is being handled first. *)
pending == IF cur = "none" THEN evq ELSE <<cur>> \o evq

(* q ends with an ERROR: no promise about its events is left. *)
Ended(q) == q # <<>> /\ q[Len(q)] = "ERROR"

(* What follows from an ERROR at the end. *)
LEMMA EndedIsOver ==
    ASSUME NEW q \in Seq(Events), Ended(q)
    PROVE  /\ Has(q, "ERROR")
           /\ \A x : x # "ERROR" => ~Fresh(q, x)
           /\ ~Unanswered(q) /\ ~Orphan(q)
<1>1. Len(q) \in 1..Len(q) /\ q[Len(q)] = "ERROR"
  BY DEF Ended
<1>2. \A i \in 1..Len(q) : Len(q) \in i..Len(q)
  BY <1>1
<1>3. Has(q, "ERROR")
  BY <1>1 DEF Has
<1>4. \A x : ~Fresh(q, x)
  BY <1>1, <1>2 DEF Fresh
<1>5. ~Unanswered(q)
  BY <1>1, <1>2 DEF Unanswered
<1> QED
  BY <1>3, <1>4, <1>5 DEF Orphan

(* The two patterns are made of fresh events. *)
LEMMA PatternsAreFresh ==
    ASSUME NEW q \in Seq(Events)
    PROVE  /\ Unanswered(q) => Fresh(q, "WS_CONNECTED")
           /\ Orphan(q) => Fresh(q, "TTS_STOP")
<1>1. ASSUME Orphan(q)
      PROVE  Fresh(q, "TTS_STOP")
  <2>1. PICK i \in 1..Len(q) : q[i] = "TTS_STOP"
    BY <1>1 DEF Orphan
  <2>2. \A j \in i..Len(q) : j \in 1..Len(q)
    BY <2>1
  <2> QED
    BY <1>1, <2>1, <2>2 DEF Orphan, Has, Fresh
<1> QED
  BY <1>1 DEF Unanswered, Fresh

(* An event at the end, as positions. *)
Extended(q, e, r) ==
    /\ r \in Seq(Events) /\ Len(r) = Len(q) + 1 /\ r[Len(r)] = e
    /\ \A i \in 1..Len(q) : r[i] = q[i]
    /\ \A i \in 1..Len(r) : i \in 1..Len(q) \/ i = Len(r)
    /\ \A i \in 1..Len(q) : \A j \in i..Len(q) : j \in i..Len(r) /\ j \in 1..Len(q)

(* That is what Append yields. *)
LEMMA AppendedAt ==
    ASSUME NEW q \in Seq(Events), NEW e \in Events, NEW r, r = Append(q, e)
    PROVE  Extended(q, e, r)
<1>1. /\ r \in Seq(Events) /\ Len(r) = Len(q) + 1 /\ r[Len(r)] = e
      /\ \A i \in 1..Len(q) : r[i] = q[i]
  OBVIOUS
<1>2. \A i \in 1..Len(r) : i \in 1..Len(q) \/ i = Len(r)
  BY <1>1
<1>3. \A i \in 1..Len(q) : \A j \in i..Len(q) : j \in i..Len(r) /\ j \in 1..Len(q)
  BY <1>1
<1> QED
  BY <1>1, <1>2, <1>3 DEF Extended

(* What another event at the end changes: what the queue holds, ... *)
LEMMA AppendedHas ==
    ASSUME NEW q \in Seq(Events), NEW e \in Events, NEW r, r = Append(q, e)
    PROVE  \A x : Has(r, x) <=> Has(q, x) \/ x = e
<1> USE DEF Extended
<1> TAKE x
<1>0. Extended(q, e, r)
  BY AppendedAt
<1>1. ASSUME Has(r, x) PROVE Has(q, x) \/ x = e
  BY <1>0, <1>1 DEF Has
<1>2. ASSUME Has(q, x) PROVE Has(r, x)
  BY <1>0, <1>2 DEF Has
<1>3. Has(r, e)
  BY <1>0 DEF Has
<1> QED
  BY <1>1, <1>2, <1>3

(* ... which events are fresh, ... *)
LEMMA AppendedFresh ==
    ASSUME NEW q \in Seq(Events), NEW e \in Events, NEW r, r = Append(q, e)
    PROVE  \A x : Fresh(r, x) => Fresh(q, x) \/ x = e
<1> USE DEF Extended
<1>0. Extended(q, e, r)
  BY AppendedAt
<1>1. ASSUME NEW x, Fresh(r, x), x # e
      PROVE  Fresh(q, x)
  <2>1. PICK i \in 1..Len(r) : r[i] = x /\ \A j \in i..Len(r) : r[j] # "ERROR"
    BY <1>1 DEF Fresh
  <2>2. i \in 1..Len(q)
    BY <2>1, <1>0, <1>1
  <2>3. q[i] = x /\ \A j \in i..Len(q) : q[j] # "ERROR"
    BY <2>1, <2>2, <1>0
  <2> QED
    BY <2>2, <2>3 DEF Fresh
<1> QED
  BY <1>1

(* ... whether a connection waits for its hello, ... *)
LEMMA AppendedUnanswered ==
    ASSUME NEW q \in Seq(Events), NEW e \in Events, NEW r, r = Append(q, e)
    PROVE  Unanswered(r) => (Unanswered(q) \/ e = "WS_CONNECTED") /\ e \notin Hellos
<1> USE DEF Extended
<1>0. Extended(q, e, r)
  BY AppendedAt
<1>1. ASSUME Unanswered(r)
      PROVE  (Unanswered(q) \/ e = "WS_CONNECTED") /\ e \notin Hellos
  <2>1. PICK i \in 1..Len(r) : r[i] = "WS_CONNECTED"
                               /\ \A j \in i..Len(r) : r[j] \notin Hellos \cup {"ERROR"}
    BY <1>1 DEF Unanswered
  <2>2. e \notin Hellos
    <3>1. Len(r) \in i..Len(r)
      BY <1>0
    <3> QED
      BY <3>1, <2>1, <1>0
  <2>3. CASE i \in 1..Len(q)
    <3>1. q[i] = "WS_CONNECTED" /\ \A j \in i..Len(q) : q[j] \notin Hellos \cup {"ERROR"}
      BY <2>1, <2>3, <1>0
    <3> QED
      BY <3>1, <2>2, <2>3 DEF Unanswered
  <2>4. CASE i = Len(r)
    BY <2>1, <2>2, <2>4, <1>0
  <2> QED
    BY <2>3, <2>4, <1>0
<1> QED
  BY <1>1

(* ... and whether a tts/stop comes before any hello. *)
LEMMA AppendedOrphan ==
    ASSUME NEW q \in Seq(Events), NEW e \in Events, NEW r, r = Append(q, e)
    PROVE  Orphan(r) =>
             \/ Orphan(q)
             \/ e = "TTS_STOP" /\ ~Has(q, "HELLO") /\ ~Has(q, "ERROR")
<1> USE DEF Extended
<1>0. Extended(q, e, r)
  BY AppendedAt
<1>1. ASSUME Orphan(r)
      PROVE  \/ Orphan(q)
             \/ e = "TTS_STOP" /\ ~Has(q, "HELLO") /\ ~Has(q, "ERROR")
  <2>1. ~Has(q, "ERROR")
    BY <1>1, AppendedHas DEF Orphan
  <2>2. PICK i \in 1..Len(r) : r[i] = "TTS_STOP" /\ \A j \in 1..i : r[j] # "HELLO"
    BY <1>1 DEF Orphan
  <2>3. CASE i \in 1..Len(q)
    <3>1. \A j \in 1..i : j \in 1..Len(q)
      BY <2>3
    <3>2. q[i] = "TTS_STOP" /\ \A j \in 1..i : q[j] # "HELLO"
      BY <2>2, <2>3, <3>1, <1>0
    <3> QED
      BY <2>1, <2>3, <3>2 DEF Orphan
  <2>4. CASE i = Len(r)
    <3>1. e = "TTS_STOP"
      BY <2>2, <2>4, <1>0
    <3>2. \A j \in 1..Len(q) : j \in 1..i
      BY <2>4, <1>0
    <3>3. ~Has(q, "HELLO")
      BY <2>2, <3>2, <1>0 DEF Has
    <3> QED
      BY <2>1, <3>1, <3>3
  <2> QED
    BY <2>3, <2>4, <1>0
<1> QED
  BY <1>1

(* What the loss of the first event changes. *)
LEMMA Removed ==
    ASSUME NEW e \in Events, NEW q \in Seq(Events), NEW r, r = <<e>> \o q
    PROVE  /\ r \in Seq(Events)
           /\ \A x : Has(r, x) <=> Has(q, x) \/ x = e
           /\ \A x : Fresh(q, x) => Fresh(r, x)
           /\ Unanswered(q) => Unanswered(r)
           /\ Orphan(q) => Orphan(r) \/ e \in {"HELLO", "ERROR"}
           /\ e # "ERROR" /\ ~Has(q, "ERROR") => Fresh(r, e)
           /\ e = "WS_CONNECTED" /\ ~Has(q, "ERROR") =>
                Unanswered(r) \/ \E h \in Hellos : Has(q, h)
           /\ e = "TTS_STOP" /\ ~Has(q, "ERROR") => Orphan(r)
<1>1. /\ r \in Seq(Events) /\ Len(r) = Len(q) + 1 /\ r[1] = e
      /\ \A i \in 1..Len(q) : i + 1 \in 1..Len(r) /\ r[i + 1] = q[i]
  OBVIOUS
<1>2. \A i \in 1..Len(r) : i = 1 \/ i - 1 \in 1..Len(q)
  BY <1>1
<1>3. \A i \in 1..Len(r) : i = 1 \/ r[i] = q[i - 1]
  BY <1>1, <1>2
<1>4. 1 \in 1..Len(r)
  BY <1>1
<1>5. \A x : Has(r, x) <=> Has(q, x) \/ x = e
  <2> TAKE x
  <2>1. ASSUME Has(r, x) PROVE Has(q, x) \/ x = e
    BY <2>1, <1>1, <1>2, <1>3 DEF Has
  <2>2. ASSUME Has(q, x) PROVE Has(r, x)
    BY <2>2, <1>1 DEF Has
  <2>3. Has(r, e)
    BY <1>1, <1>4 DEF Has
  <2> QED
    BY <2>1, <2>2, <2>3
<1>6. ASSUME NEW x, Fresh(q, x)
      PROVE  Fresh(r, x)
  <2>1. PICK i \in 1..Len(q) : q[i] = x /\ \A j \in i..Len(q) : q[j] # "ERROR"
    BY <1>6 DEF Fresh
  <2>2. ASSUME NEW j \in (i + 1)..Len(r)
        PROVE  r[j] # "ERROR"
    <3>1. j - 1 \in i..Len(q) /\ j \in 1..Len(r) /\ j # 1
      BY <1>1
    <3> QED
      BY <3>1, <2>1, <1>3
  <2> QED
    BY <2>1, <2>2, <1>1 DEF Fresh
<1>7. ASSUME Unanswered(q)
      PROVE  Unanswered(r)
  <2>1. PICK i \in 1..Len(q) : q[i] = "WS_CONNECTED"
                               /\ \A j \in i..Len(q) : q[j] \notin Hellos \cup {"ERROR"}
    BY <1>7 DEF Unanswered
  <2>2. ASSUME NEW j \in (i + 1)..Len(r)
        PROVE  r[j] \notin Hellos \cup {"ERROR"}
    <3>1. j - 1 \in i..Len(q) /\ j \in 1..Len(r) /\ j # 1
      BY <1>1
    <3> QED
      BY <3>1, <2>1, <1>3
  <2> QED
    BY <2>1, <2>2, <1>1 DEF Unanswered
<1>8. ASSUME Orphan(q), e \notin {"HELLO", "ERROR"}
      PROVE  Orphan(r)
  <2>1. PICK i \in 1..Len(q) : q[i] = "TTS_STOP" /\ \A j \in 1..i : q[j] # "HELLO"
    BY <1>8 DEF Orphan
  <2>2. ASSUME NEW j \in 1..(i + 1)
        PROVE  r[j] # "HELLO"
    <3>1. CASE j = 1
      BY <3>1, <1>1, <1>8
    <3>2. CASE j # 1
      <4>1. j - 1 \in 1..i /\ j \in 1..Len(r)
        BY <3>2, <1>1
      <4> QED
        BY <4>1, <3>2, <2>1, <1>3
    <3> QED
      BY <3>1, <3>2
  <2>3. ~Has(r, "ERROR")
    BY <1>5, <1>8 DEF Orphan
  <2> QED
    BY <2>1, <2>2, <2>3, <1>1 DEF Orphan
<1>9. ASSUME e # "ERROR", ~Has(q, "ERROR")
      PROVE  \A j \in 1..Len(r) : r[j] # "ERROR"
  BY <1>9, <1>1, <1>2, <1>3 DEF Has
<1>10. e # "ERROR" /\ ~Has(q, "ERROR") => Fresh(r, e)
  BY <1>9, <1>1, <1>4 DEF Fresh
<1>11. ASSUME e = "WS_CONNECTED", ~Has(q, "ERROR"), \A h \in Hellos : ~Has(q, h)
       PROVE  Unanswered(r)
  <2>1. \A j \in 1..Len(r) : r[j] \notin Hellos \cup {"ERROR"}
    BY <1>11, <1>9, <1>1, <1>2, <1>3 DEF Has, Hellos
  <2> QED
    BY <2>1, <1>11, <1>1, <1>4 DEF Unanswered
<1>12. ASSUME e = "TTS_STOP", ~Has(q, "ERROR")
       PROVE  Orphan(r)
  <2>1. ~Has(r, "ERROR")
    BY <1>12, <1>5
  <2>2. \A j \in 1..1 : r[j] # "HELLO"
    BY <1>12, <1>1
  <2> QED
    BY <2>1, <2>2, <1>12, <1>1, <1>4 DEF Orphan
<1> QED
  BY <1>1, <1>5, <1>6, <1>7, <1>8, <1>10, <1>11, <1>12

-----------------------------------------------------------------------------
(* The invariants.                                                         *)

(* Where the main thread holds an event, and where the client is stopped   *)
(* but not joined.                                                         *)
PlaceInv ==
    /\ cur # "none" <=> mpc = "handle"
    /\ ~running => net = "none" \/ mpc \in {"joinAbort", "joinReturn", "joinClient"}
    /\ mpc \in {"stopAbort", "joinAbort", "restartAbort"} => session = "CONNECTING"
    /\ mpc \in {"backoff", "joinReturn", "restartReturn"} => session = "ERROR_BACKOFF"
    /\ Destroying => stopReq
    /\ mpc = "run" => net = "none" /\ ~running
    /\ session # "WAKE_DETECTING"

(* Nothing is promised once an event has been refused, or once a stop has  *)
(* been requested and either no event will be handled any more or the      *)
(* connection has ended, which is then not reported.                       *)
Excused ==
    \/ refused
    \/ stopReq /\ (mpc \notin {"pop", "handle"} \/ net \in {"idle", "exited"})

Quiet == ~Has(pending, "ERROR")

(* A fresh event of a connection is one of the connection there is. *)
FreshInv ==
    \A e \in {"WS_CONNECTED", "TTS_STOP"} \cup Hellos : Fresh(pending, e) => net = "open"

(* A server that is being connected to has heard nothing, and a hello that *)
(* could not be read is one it has sent.                                   *)
DeafInv == /\ net = "connecting" => srv = "deaf"
           /\ unheard => srv \notin {"deaf", "greeted"}

(* The server answers a hello, and only once. *)
ServerInv == Unanswered(pending) => srv \in {"deaf", "greeted"} \/ unheard

HelloPending == \E i \in 1..Len(pendText) : pendText[i] = "hello"

HandshakeInv ==
    session = "HANDSHAKING" /\ Quiet =>
        /\ net = "open"
        /\ \/ srv = "greeted"
           \/ srv = "deaf" /\ HelloPending
           \/ \E e \in Hellos : Has(pending, e)
           \/ unheard

ConnInv == ~Excused => FreshInv /\ ServerInv /\ HandshakeInv

(* A server that gives every session an id, in a hello that can be read;   *)
(* otherwise no id is promised.                                            *)
Numbered == "nosid" \notin Faults => ~Queued("HELLO_NOSID")
Identified == sid \/ "nosid" \in Faults \/ unheard

(* The server has answered the hello of the connection there is. *)
Greeted == net = "open" /\ srv \in {"ready", "listening", "speaking"}

(* RETURN_TO_WAKE has cleared the session_id and the client still runs. *)
Clearing == mpc \in {"backoff", "joinReturn"}

SidInv ==
    ~Clearing =>
        /\ Quiet /\ Greeted => Identified \/ Has(pending, "HELLO")
        /\ Orphan(pending) => Identified

DoneInv == ttsDone /\ Quiet /\ mpc # "backoff" => Identified /\ net = "open"

RestInv ==
    ~refused /\ Quiet =>
        /\ session = "READY" => /\ Identified
                                /\ net = "open" \/ stopReq
                                /\ net \notin {"starting", "connecting"}
        /\ session = "IDLE" /\ mpc # "run" => stopReq

SessionInv == Numbered /\ (~Excused => SidInv /\ DoneInv) /\ RestInv
-----------------------------------------------------------------------------
(* Where the main thread is.                                               *)

(* A requested stop stays requested. *)
LEMMA StopStays ==
    ASSUME [Next]_vars
    PROVE  stopReq => stopReq'
<1>1. CASE Next /\ ~MainStep
  BY <1>1, TextIsReceived
          DEF Next, Sigint, app_request_stop, Terminated, vars, NetStep, NetConnects,
              NetEstablished, NetWriteable, NetExits, ServerStep, NetAudio, Net,
              NetFault, NetInitFails,
              NetConnectionError, NetClosed, NetWriteFails, NetFrameTooLarge,
              PlaybackStep, PlaybackQuiet, PlaybackFinished, PlaybackFails, Playback,
              CaptureStep, CaptureQuiet, CaptureEncode, CaptureQueue, CaptureSilence,
              Capture
<1>2. CASE MainStep
  BY <1>2 DEF MainStep, RunStart, LoopGoesOn, LoopEnds, Pop, PopTimeout, HandleIgnored,
              HandleConnect, HandleConnected, HandleStartListen, HandleStopListen,
              HandleAbort, StopAbort, JoinAbort, RestartAbort, HandleError, BackoffEnds,
              JoinReturn, RestartReturn, HandleHello, HandleTtsStart, HandleTtsStop,
              HandleFinished, HandleShutdown, PollNothing, PollEnter, PollQuit,
              DestroyBegin, DestroyJoinClient, DestroyStopCapture, DestroyStopPlayback,
              DestroyClient, DestroyEnds, From, Handles, app_request_stop
<1>3. CASE UNCHANGED vars
  BY <1>3 DEF vars
<1> QED
  BY <1>1, <1>2, <1>3

(* Every step keeps PlaceInv. *)
LEMMA PlaceStep ==
    ASSUME PlaceInv, TeardownInv, TypeInv, [Next]_vars
    PROVE  PlaceInv'
<1> USE DEF PlaceInv, Destroying, appVars, mainVars, clientVars, OnlyMain, Handles,
        Handled, app_send_hello, app_send_abort, app_send_listen_stop, WithSession
<1> /\ running \in BOOLEAN /\ clientStarted \in BOOLEAN /\ stopReq \in BOOLEAN
    /\ "none" \notin Events /\ Events = AppEvents
  BY AppAssumption DEF TypeInv, TypeOK, AppTypeOK, ClientTypeOK, AppEvents
<1>1. CASE LoopGoesOn \/ LoopEnds \/ PopTimeout \/ PollNothing
  BY <1>1 DEF LoopGoesOn, LoopEnds, PopTimeout, PollNothing, From
<1>2. CASE Pop
  BY <1>2 DEF Pop
<1>3. CASE HandleIgnored \/ HandleShutdown
  BY <1>3 DEF HandleIgnored, HandleShutdown
<1>4. CASE PollEnter \/ PollQuit
  BY <1>4 DEF PollEnter, PollQuit, From, app_request_stop
<1>5. CASE RunStart
  BY <1>5 DEF RunStart, From, Connect, xiaozhi_client_start
<1>6. CASE HandleConnect
  BY <1>6 DEF HandleConnect, Connect, xiaozhi_client_start, session_handle_event,
              session_handle_error, Outcome
<1>7. CASE HandleConnected \/ HandleStopListen
  BY <1>7 DEF HandleConnected, HandleStopListen, xiaozhi_client_queue_text,
              session_handle_event, session_handle_error, Outcome
<1>8. CASE HandleStartListen
  <2>1. UNCHANGED <<running, net>>
    <3>1. \E ok \in BOOLEAN : WithSession("start", ok)
      BY <1>8 DEF HandleStartListen, StartListenNotSent, StartListenNoDump,
                  StartListenOk, app_send_listen_start
    <3> QED
      BY <3>1 DEF WithSession, xiaozhi_client_queue_text
  <2>2. mpc = "handle" /\ mpc' = "poll" /\ cur' = "none"
    BY <1>8 DEF HandleStartListen
  <2>3. session' # "WAKE_DETECTING"
    BY <1>8 DEF HandleStartListen, session_handle_event, session_handle_error, Outcome
  <2> QED
    BY <2>1, <2>2, <2>3
<1>9. CASE HandleAbort
  BY <1>9 DEF HandleAbort, xiaozhi_client_queue_text, session_handle_event,
              session_handle_error, Outcome, StartEvents
<1>10. CASE StopAbort
  BY <1>10 DEF StopAbort, From, xiaozhi_client_stop
<1>11. CASE JoinAbort
  BY <1>11 DEF JoinAbort, From, xiaozhi_client_join
<1>12. CASE RestartAbort
  BY <1>12 DEF RestartAbort, From, xiaozhi_client_start
<1>13. CASE HandleError
  <2>1. session' = "ERROR_BACKOFF"
    BY <1>13 DEF HandleError, session_handle_event, session_handle_error, Outcome,
                 StartEvents
  <2> QED
    BY <1>13, <2>1 DEF HandleError
<1>14. CASE BackoffEnds
  BY <1>14 DEF BackoffEnds, From, xiaozhi_client_stop
<1>15. CASE JoinReturn
  BY <1>15 DEF JoinReturn, From, xiaozhi_client_join
<1>16. CASE RestartReturn
  BY <1>16 DEF RestartReturn, From, xiaozhi_client_start
<1>17. CASE HandleHello \/ HandleTtsStart
  BY <1>17 DEF HandleHello, HandleTtsStart, session_handle_event,
               session_handle_error, Outcome
<1>18. CASE HandleTtsStop \/ HandleFinished
  BY <1>18 DEF HandleTtsStop, HandleFinished, app_reset_to_idle
<1>19. CASE DestroyBegin
  <2>1. CASE clientStarted
    BY <1>19, <2>1 DEF DestroyBegin, From, xiaozhi_client_stop
  <2>2. CASE ~clientStarted
    BY <1>19, <2>2 DEF DestroyBegin, From
  <2> QED
    BY <2>1, <2>2
<1>20. CASE DestroyJoinClient
  BY <1>20 DEF DestroyJoinClient, From, xiaozhi_client_join
<1>21. CASE DestroyStopCapture \/ DestroyStopPlayback
  BY <1>21 DEF DestroyStopCapture, DestroyStopPlayback, From
<1>22. CASE DestroyClient
  BY <1>22 DEF DestroyClient, From, xiaozhi_client_stop, TeardownInv, StoppedBefore
<1>23. CASE DestroyEnds
  BY <1>23 DEF DestroyEnds, From, xiaozhi_client_join
<1>24. CASE OtherThreads
  <2>1. stopReq => stopReq'
    BY <1>24, StopStays DEF Next, OtherThreads
  <2> QED
    BY <1>24, <2>1, OthersLeaveMain, OthersKeepClient
<1>25. CASE UNCHANGED vars
  BY <1>25 DEF vars
<1> QED
  BY <1>1, <1>2, <1>3, <1>4, <1>5, <1>6, <1>7, <1>8, <1>9, <1>10, <1>11, <1>12,
     <1>13, <1>14, <1>15, <1>16, <1>17, <1>18, <1>19, <1>20, <1>21, <1>22,
     <1>23, <1>24, <1>25 DEF Next, MainStep, OtherThreads

(* Where the main thread goes. *)
LEMMA MainMoves ==
    ASSUME MainStep
    PROVE  LoopGoesOn \/ Pop \/ mpc' \notin {"pop", "handle"}
  BY DEF MainStep, RunStart, LoopEnds, PopTimeout, HandleIgnored, HandleConnect,
         HandleConnected, HandleStartListen, HandleStopListen, HandleAbort, StopAbort,
         JoinAbort, RestartAbort, HandleError, BackoffEnds, JoinReturn, RestartReturn,
         HandleHello, HandleTtsStart, HandleTtsStop, HandleFinished, HandleShutdown,
         PollNothing, PollEnter, PollQuit, DestroyBegin, DestroyJoinClient,
         DestroyStopCapture, DestroyStopPlayback, DestroyClient, DestroyEnds, From,
         Handled

(* A connection that has ended has: its thread can only return. *)
LEMMA EndedStaysEnded ==
    ASSUME OtherThreads, net \in {"idle", "exited"}
    PROVE  net' \in {"idle", "exited"}
<1> USE DEF clientVars
<1>1. CASE Sigint \/ Terminated
  BY <1>1 DEF Sigint, Terminated, vars
<1>2. CASE NetStep
  BY <1>2 DEF NetStep, NetConnects, NetEstablished, NetWriteable, NetExits,
              ThreadConnects, Established, Writeable, ThreadExits
<1>3. CASE ServerStep
  BY <1>3, TextIsReceived DEF ServerStep, NetAudio, Receive
<1>4. CASE NetFault
  <2>1. ~ThreadInitFails /\ ~ConnectionError /\ ~Closed /\ ~WriteFails /\ ~ReceiveTooLarge
    BY DEF ThreadInitFails, ConnectionError, Closed, WriteFails, ReceiveTooLarge
  <2> QED
    BY <1>4, <2>1 DEF NetFault, NetInitFails, NetConnectionError, NetClosed,
                      NetWriteFails, NetFrameTooLarge
<1>5. CASE PlaybackStep \/ PlaybackFails
  BY <1>5 DEF PlaybackStep, PlaybackQuiet, PlaybackFinished, PlaybackFails, Playback
<1>6. CASE CaptureStep
  BY <1>6 DEF CaptureStep, CaptureQuiet, CaptureEncode, CaptureQueue, CaptureSilence,
              xiaozhi_client_queue_binary
<1> QED
  BY <1>1, <1>2, <1>3, <1>4, <1>5, <1>6 DEF OtherThreads

(* What excuses the promises excuses them for good. *)
LEMMA ExcusedStays ==
    ASSUME [Next]_vars, Excused
    PROVE  Excused'
<1>1. CASE Next
  <2>1. refused => refused'
    BY <1>1, StepIsOperations
    DEF EvOp, event_queue_push, Pop, event_queue_pop, evVars
  <2>2. stopReq => stopReq'
    BY StopStays
  <2>3. CASE MainStep
    <3>1. CASE LoopGoesOn
      BY <3>1, <2>1 DEF LoopGoesOn, From, Excused
    <3>2. CASE Pop
      BY <3>2, <2>1, <2>2 DEF Pop, Excused, clientVars
    <3>3. CASE mpc' \notin {"pop", "handle"}
      BY <3>3, <2>1, <2>2 DEF Excused
    <3> QED
      BY <2>3, <3>1, <3>2, <3>3, MainMoves
  <2>4. CASE OtherThreads
    BY <2>4, <2>1, <2>2, OthersLeaveMain, EndedStaysEnded DEF Excused
  <2> QED
    BY <1>1, <2>3, <2>4 DEF Next, OtherThreads
<1>2. CASE UNCHANGED vars
  BY <1>2 DEF vars, evVars, mainVars, clientVars, Excused
<1> QED
  BY <1>1, <1>2

(* The main thread leaves the server alone, and all it does to the         *)
(* connection is to start a thread or to join one that has returned.       *)
LEMMA MainConnects ==
    ASSUME MainStep
    PROVE  UNCHANGED <<srv, unheard>> /\ net' \in {net, "starting", "none"}
<1> USE DEF clientVars, OnlyMain, From, Handles, app_send_hello, app_send_abort,
        app_send_listen_stop, app_send_listen_start, WithSession,
        xiaozhi_client_queue_text, xiaozhi_client_start, xiaozhi_client_stop,
        xiaozhi_client_join
<1>1. CASE \/ LoopGoesOn \/ LoopEnds \/ PopTimeout \/ PollNothing \/ Pop
           \/ HandleIgnored \/ HandleShutdown \/ PollEnter \/ PollQuit
  BY <1>1 DEF LoopGoesOn, LoopEnds, PopTimeout, PollNothing, Pop, HandleIgnored,
              HandleShutdown, PollEnter, PollQuit
<1>2. CASE \/ RunStart \/ HandleConnect \/ HandleConnected \/ HandleStopListen
           \/ HandleAbort \/ StopAbort \/ JoinAbort \/ RestartAbort
  BY <1>2 DEF RunStart, HandleConnect, Connect, HandleConnected, HandleStopListen,
              HandleAbort, StopAbort, JoinAbort, RestartAbort
<1>3. CASE HandleStartListen
  BY <1>3 DEF HandleStartListen, StartListenNotSent, StartListenNoDump, StartListenOk
<1>4. CASE \/ HandleError \/ BackoffEnds \/ JoinReturn \/ RestartReturn
           \/ HandleHello \/ HandleTtsStart \/ HandleTtsStop \/ HandleFinished
  BY <1>4 DEF HandleError, BackoffEnds, JoinReturn, RestartReturn, HandleHello,
              HandleTtsStart, HandleTtsStop, HandleFinished
<1>5. CASE \/ DestroyBegin \/ DestroyJoinClient \/ DestroyStopCapture
           \/ DestroyStopPlayback \/ DestroyClient \/ DestroyEnds
  BY <1>5 DEF DestroyBegin, DestroyJoinClient, DestroyStopCapture,
              DestroyStopPlayback, DestroyClient, DestroyEnds
<1> QED
  BY <1>1, <1>2, <1>3, <1>4, <1>5 DEF MainStep

(* Every step keeps DeafInv. *)
LEMMA DeafStep ==
    ASSUME DeafInv, [Next]_vars
    PROVE  DeafInv'
<1> USE DEF DeafInv, clientVars
<1>1. CASE MainStep
  BY <1>1, MainConnects
<1>2. CASE Sigint \/ Terminated
  BY <1>2 DEF Sigint, Terminated, vars
<1>3. CASE NetStep
  BY <1>3 DEF NetStep, NetConnects, NetEstablished, NetWriteable, NetExits,
              ThreadConnects, Established, Writeable, ThreadExits, Heard
<1>4. CASE ServerStep
  <2>1. UNCHANGED net
    BY <1>4, TextIsReceived DEF ServerStep, NetAudio, Receive
  <2>2. CASE NetHello \/ NetTtsStart \/ NetTtsStop
    <3>1. net = "open" /\ srv' \notin {"deaf", "greeted"}
      BY <2>2, TextIsReceived DEF NetHello, NetTtsStart, NetTtsStop, ServerSays,
                                  ServerSaysTooMuch, Receive
    <3> QED
      BY <2>1, <3>1
  <2> QED
    BY <1>4, <2>1, <2>2 DEF ServerStep, NetOther, NetAudio
<1>5. CASE NetFault
  <2>1. CASE NetFrameTooLarge
    BY <2>1 DEF NetFrameTooLarge, ReceiveTooLarge
  <2>2. CASE NetInitFails \/ NetConnectionError \/ NetClosed \/ NetWriteFails
    BY <2>2 DEF NetInitFails, NetConnectionError, NetClosed, NetWriteFails,
                ThreadInitFails, ConnectionError, Closed, WriteFails
  <2> QED
    BY <1>5, <2>1, <2>2 DEF NetFault
<1>6. CASE PlaybackStep \/ PlaybackFails
  BY <1>6 DEF PlaybackStep, PlaybackQuiet, PlaybackFinished, PlaybackFails, Playback
<1>7. CASE CaptureStep
  BY <1>7 DEF CaptureStep, CaptureQuiet, CaptureEncode, CaptureQueue, CaptureSilence,
              xiaozhi_client_queue_binary, Capture
<1>8. CASE UNCHANGED vars
  BY <1>8 DEF vars
<1> QED
  BY <1>1, <1>2, <1>3, <1>4, <1>5, <1>6, <1>7, <1>8 DEF Next

-----------------------------------------------------------------------------
(* What a step does to the events under way.                               *)

Takes == pending = <<cur>> \o pending'

(* The events under way are events, before and after a step. *)
LEMMA PendingType ==
    ASSUME TypeInv, [Next]_vars
    PROVE  pending \in Seq(Events) /\ pending' \in Seq(Events)
<1>1. ASSUME NEW q \in Seq(Events), NEW c \in Events \cup {"none"}
      PROVE  (IF c = "none" THEN q ELSE <<c>> \o q) \in Seq(Events)
  <2>1. CASE c = "none"
    BY <2>1
  <2>2. CASE c # "none"
    <3>1. <<c>> \in Seq(Events)
      BY <1>1, <2>2
    <3> QED
      BY <2>2, <3>1
  <2> QED
    BY <2>1, <2>2
<1>2. /\ evq \in Seq(Events) /\ cur \in Events \cup {"none"}
      /\ evq' \in Seq(Events) /\ cur' \in Events \cup {"none"}
  BY TypeStep DEF TypeInv, TypeOK, EvTypeOK, MainTypeOK
<1> QED
  BY <1>1, <1>2 DEF pending

(* An event that is raised goes to the end, unless it is refused. *)
LEMMA RaiseAdds ==
    ASSUME TypeInv, NEW e \in Events, Raise(e), cur' = cur
    PROVE  refused' \/ pending' = Append(pending, e)
<1>1. evq \in Seq(Events) /\ cur \in Events \cup {"none"}
  BY DEF TypeInv, TypeOK, EvTypeOK, MainTypeOK
<1>2. refused' \/ evq' = Append(evq, e)
  BY DEF Raise, event_queue_push
<1>3. CASE cur = "none"
  BY <1>2, <1>3 DEF pending
<1>4. CASE cur # "none"
  <2>1. <<cur>> \o Append(evq, e) = Append(<<cur>> \o evq, e)
    BY <1>1, <1>4
  <2> QED
    BY <1>2, <1>4, <2>1 DEF pending
<1> QED
  BY <1>3, <1>4

(* Popping an event changes nothing: it is still the first.                *)
LEMMA PopKeeps ==
    ASSUME TypeInv, PlaceInv, Pop
    PROVE  pending' = pending
<1>1. evq \in Seq(Events) /\ cur = "none" /\ "none" \notin Events
  BY AppAssumption DEF TypeInv, TypeOK, EvTypeOK, PlaceInv, Pop, AppEvents
<1>2. evq # <<>> /\ cur' = Head(evq) /\ evq' = Tail(evq) /\ cur' \in Events
  BY DEF Pop, event_queue_pop
<1>3. evq = <<Head(evq)>> \o Tail(evq)
  BY <1>1, <1>2
<1> QED
  BY <1>1, <1>2, <1>3 DEF pending

(* A handler takes the first event ... *)
LEMMA HandlerTakes ==
    ASSUME TypeInv, PlaceInv, mpc = "handle", cur' = "none"
    PROVE  /\ cur \in Events
           /\ UNCHANGED evVars => Takes
           /\ pending' = evq'
  BY DEF TypeInv, TypeOK, MainTypeOK, PlaceInv, pending, Takes, evVars

(* ... and an ERROR comes after everything else. *)
LEMMA RaiseFails ==
    ASSUME TypeInv, Raise("ERROR"), cur' \in {cur, "none"}
    PROVE  refused' \/ Ended(pending')
<1>1. evq \in Seq(Events) /\ cur \in Events \cup {"none"}
  BY DEF TypeInv, TypeOK, EvTypeOK, MainTypeOK
<1>2. refused' \/ evq' = Append(evq, "ERROR")
  BY DEF Raise, event_queue_push
<1>3. Ended(Append(evq, "ERROR"))
  <2>1. "ERROR" \in Events
    BY AppAssumption DEF AppEvents
  <2>2. /\ Len(Append(evq, "ERROR")) = Len(evq) + 1 /\ Len(evq) \in Nat
        /\ Append(evq, "ERROR")[Len(evq) + 1] = "ERROR"
    BY <1>1, <2>1
  <2>3. Append(evq, "ERROR") # <<>>
    BY <1>1, <2>1
  <2> QED
    BY <2>2, <2>3 DEF Ended
<1>4. CASE cur' = "none"
  BY <1>2, <1>3, <1>4 DEF pending
<1>5. CASE cur' = cur /\ cur # "none"
  <2>1. Ended(<<cur>> \o Append(evq, "ERROR"))
    BY <1>1, <1>5, AppAssumption DEF Ended, AppEvents
  <2> QED
    BY <1>2, <1>5, <2>1 DEF pending
<1> QED
  BY <1>4, <1>5

-----------------------------------------------------------------------------
(* The connection.                                                         *)

(* A connection that fails takes every promise with it. *)
LEMMA ConnFails ==
    ASSUME pending' \in Seq(Events), refused' \/ Ended(pending')
    PROVE  ConnInv'
<1>1. CASE refused'
  BY <1>1 DEF ConnInv, Excused
<1>2. CASE Ended(pending')
  BY <1>2, EndedIsOver DEF ConnInv, FreshInv, ServerInv, HandshakeInv, Quiet, Hellos
<1> QED
  BY <1>1, <1>2

(* Events that say nothing of the connection. *)
Harmless == {"MANUAL_START", "MANUAL_STOP", "OTHER", "SILENCE", "PLAYBACK_FINISHED",
             "TTS_START", "SHUTDOWN"}

(* What most steps do to the events under way. *)
PendingKept ==
    \/ pending' = pending
    \/ \E e \in Harmless : pending' = Append(pending, e)
    \/ Takes /\ cur \in Events /\ (cur = "ERROR" => session' = "ERROR_BACKOFF")
             /\ (cur \in Hellos => session' # "HANDSHAKING")

(* What such a step does to the patterns. *)
LEMMA KeptPatterns ==
    ASSUME pending \in Seq(Events), pending' \in Seq(Events), PendingKept
    PROVE  /\ \A e \in {"WS_CONNECTED", "TTS_STOP"} \cup Hellos :
                Fresh(pending', e) => Fresh(pending, e)
           /\ Unanswered(pending') => Unanswered(pending)
           /\ Has(pending, "ERROR") /\ session' # "ERROR_BACKOFF" => Has(pending', "ERROR")
           /\ session' = "HANDSHAKING" =>
                \A h \in Hellos : Has(pending, h) => Has(pending', h)
<1> Harmless \subseteq Events /\ Hellos \subseteq Events
  BY AppAssumption DEF AppEvents, Harmless, Hellos
<1>1. CASE pending' = pending
  BY <1>1
<1>2. CASE \E e \in Harmless : pending' = Append(pending, e)
  <2>1. PICK e \in Harmless : pending' = Append(pending, e)
    BY <1>2
  <2>2. e \in Events /\ e \notin {"WS_CONNECTED", "TTS_STOP"} \cup Hellos
    BY <2>1 DEF Harmless, Hellos
  <2>3. /\ \A x : Has(pending', x) <=> Has(pending, x) \/ x = e
        /\ \A x : Fresh(pending', x) => Fresh(pending, x) \/ x = e
        /\ Unanswered(pending') => Unanswered(pending) \/ e = "WS_CONNECTED"
    BY <2>1, <2>2, AppendedHas, AppendedFresh, AppendedUnanswered
  <2> QED
    BY <2>2, <2>3
<1>3. CASE /\ Takes /\ cur \in Events /\ (cur = "ERROR" => session' = "ERROR_BACKOFF")
           /\ (cur \in Hellos => session' # "HANDSHAKING")
  <2>1. pending = <<cur>> \o pending' /\ cur \in Events
    BY <1>3 DEF Takes
  <2>2. /\ \A x : Has(pending, x) <=> Has(pending', x) \/ x = cur
        /\ \A x : Fresh(pending', x) => Fresh(pending, x)
        /\ Unanswered(pending') => Unanswered(pending)
    BY <2>1, Removed
  <2> QED
    BY <1>3, <2>2
<1> QED
  BY <1>1, <1>2, <1>3 DEF PendingKept

(* A step that leaves an open connection alone keeps the promises.         *)
LEMMA ConnKept ==
    ASSUME ConnInv, Excused => Excused', DeafInv',
           pending \in Seq(Events), pending' \in Seq(Events), PendingKept,
           net # "open" \/ UNCHANGED <<net, srv, unheard>>,
           session' = "HANDSHAKING" => session = "HANDSHAKING",
           HelloPending => HelloPending'
    PROVE  ConnInv'
<1> SUFFICES ASSUME ~Excused'
             PROVE  FreshInv' /\ ServerInv' /\ HandshakeInv'
  BY DEF ConnInv
<1>1. FreshInv /\ ServerInv /\ HandshakeInv
  BY DEF ConnInv
<1>2. /\ \A e \in {"WS_CONNECTED", "TTS_STOP"} \cup Hellos :
           Fresh(pending', e) => Fresh(pending, e)
      /\ Unanswered(pending') => Unanswered(pending)
      /\ Has(pending, "ERROR") /\ session' # "ERROR_BACKOFF" => Has(pending', "ERROR")
      /\ session' = "HANDSHAKING" =>
           \A h \in Hellos : Has(pending, h) => Has(pending', h)
  BY KeptPatterns
<1>3. FreshInv'
  BY <1>1, <1>2 DEF FreshInv
<1>4. ServerInv'
  <2> SUFFICES ASSUME Unanswered(pending')
               PROVE  srv' \in {"deaf", "greeted"} \/ unheard'
    BY DEF ServerInv
  <2>1. net = "open"
    BY <1>1, <1>2, PatternsAreFresh DEF FreshInv
  <2> QED
    BY <1>1, <1>2, <2>1 DEF ServerInv
<1>5. HandshakeInv'
  BY <1>1, <1>2 DEF HandshakeInv, Quiet
<1> QED
  BY <1>3, <1>4, <1>5

(* Pending texts stay pending when another is queued. *)
LEMMA HelloStays ==
    ASSUME ClientTypeOK, NEW m \in Texts, NEW ok \in BOOLEAN,
           xiaozhi_client_queue_text(m, ok)
    PROVE  /\ HelloPending => HelloPending'
           /\ ok /\ m = "hello" => HelloPending'
           /\ UNCHANGED <<net, running>>
<1>0. pendText \in Seq(Texts) /\ UNCHANGED <<net, running>>
  BY DEF ClientTypeOK, xiaozhi_client_queue_text
<1>1. CASE ok
  <2>1. pendText' = Append(pendText, m)
    BY <1>1 DEF xiaozhi_client_queue_text
  <2>2. /\ Len(pendText') = Len(pendText) + 1 /\ pendText'[Len(pendText')] = m
        /\ \A i \in 1..Len(pendText) : i \in 1..Len(pendText') /\ pendText'[i] = pendText[i]
        /\ Len(pendText') \in 1..Len(pendText')
    BY <2>1, <1>0
  <2> QED
    BY <2>2, <1>0 DEF HelloPending
<1>2. CASE ~ok
  BY <1>2, <1>0 DEF HelloPending, xiaozhi_client_queue_text
<1> QED
  BY <1>1, <1>2

(* The steps of the main thread keep the promises. *)
LEMMA ConnMain ==
    ASSUME ConnInv, PlaceInv, TeardownInv, TypeInv, Excused => Excused', DeafInv',
           pending \in Seq(Events), pending' \in Seq(Events), MainStep
    PROVE  ConnInv'
<1> USE DEF appVars, clientVars, OnlyMain, Handles, Handled, From, Silently
<1> DEFINE Table == session' = session_handle_event(session, cur).state
<1>a. ClientTypeOK /\ running \in BOOLEAN /\ EvTypeOK /\ Harmless \subseteq Events
  BY AppAssumption DEF TypeInv, TypeOK, ClientTypeOK, AppEvents, Harmless
<1>b. ASSUME UNCHANGED <<evVars, cur>>
      PROVE  PendingKept
  BY <1>b DEF PendingKept, pending, evVars
<1>c. ASSUME mpc = "handle", cur' = "none", UNCHANGED evVars,
             cur = "ERROR" => session' = "ERROR_BACKOFF",
             cur \in Hellos => session' # "HANDSHAKING"
      PROVE  PendingKept
  BY <1>c, HandlerTakes DEF PendingKept
<1>d. ASSUME UNCHANGED pendText PROVE HelloPending => HelloPending'
  BY <1>d DEF HelloPending
<1>1. CASE LoopGoesOn \/ LoopEnds \/ PopTimeout \/ PollNothing
  BY <1>1, <1>b, <1>d, ConnKept DEF LoopGoesOn, LoopEnds, PopTimeout, PollNothing
<1>2. CASE Pop
  <2>1. PendingKept
    BY <1>2, PopKeeps DEF PendingKept
  <2> QED
    BY <1>2, <2>1, <1>d, ConnKept DEF Pop
<1>3. CASE HandleIgnored \/ HandleShutdown
  BY <1>3, <1>c, <1>d, ConnKept DEF HandleIgnored, HandleShutdown, Hellos
<1>4. CASE PollEnter \/ PollQuit
  <2>1. \E e \in {"MANUAL_START", "MANUAL_STOP", "SHUTDOWN"} : Raise(e)
    BY <1>4 DEF PollEnter, PollQuit, app_request_stop
  <2>2. PICK e \in {"MANUAL_START", "MANUAL_STOP", "SHUTDOWN"} : Raise(e)
    BY <2>1
  <2>3. e \in Harmless /\ e \in Events
    BY <1>a DEF Harmless
  <2>4. cur' = cur /\ UNCHANGED <<net, srv, unheard, session, pendText>>
    BY <1>4 DEF PollEnter, PollQuit
  <2>5. CASE refused'
    BY <2>5, ConnFails
  <2>6. CASE PendingKept
    BY <2>4, <2>6, <1>d, ConnKept
  <2> QED
    BY <2>2, <2>3, <2>4, <2>5, <2>6, RaiseAdds DEF PendingKept
<1>5. CASE RunStart \/ HandleConnect
  <2>1. PICK ok \in BOOLEAN : xiaozhi_client_start(ok) /\ (IF ok THEN Silently ELSE Raise("ERROR"))
    BY <1>5 DEF RunStart, HandleConnect, Connect
  <2>2. session' = "CONNECTING" /\ UNCHANGED <<srv, unheard>> /\ cur' \in {cur, "none"}
    BY <1>5 DEF RunStart, HandleConnect, Connect, session_handle_event,
                session_handle_error, Outcome, StartEvents
  <2>3. CASE ~ok
    BY <2>1, <2>2, <2>3, RaiseFails, ConnFails
  <2>4. CASE ok
    <3>1. UNCHANGED <<evVars, pendText>>
      BY <2>1, <2>4 DEF xiaozhi_client_start
    <3>2. net # "open" \/ UNCHANGED net
      BY <2>1, <1>5 DEF xiaozhi_client_start, PlaceInv, RunStart, HandleConnect
    <3>3. PendingKept
      BY <1>5, <3>1, <1>b, <1>c DEF RunStart, HandleConnect, StartEvents, Hellos
    <3> QED
      BY <2>2, <3>1, <3>2, <3>3, <1>d, ConnKept
  <2> QED
    BY <2>3, <2>4
<1>6. CASE HandleConnected
  <2>1. PICK ok \in BOOLEAN : /\ xiaozhi_client_queue_text("hello", ok)
                             /\ IF ok THEN Silently ELSE Raise("ERROR")
    BY <1>6 DEF HandleConnected, app_send_hello
  <2>2. cur = "WS_CONNECTED" /\ cur' = "none" /\ mpc = "handle"
        /\ UNCHANGED <<srv, unheard>>
    BY <1>6 DEF HandleConnected
  <2>3. CASE ~ok
    BY <2>1, <2>2, <2>3, RaiseFails, ConnFails
  <2>4. CASE ok
    <3>1. HelloPending' /\ UNCHANGED <<net, srv, unheard>>
      BY <2>1, <2>2, <2>4, <1>a, HelloStays DEF Texts
    <3>2. cur \in Events /\ pending = <<cur>> \o pending'
      BY <2>1, <2>2, <2>4, HandlerTakes DEF Takes
    <3>3. /\ \A x : Fresh(pending', x) => Fresh(pending, x)
          /\ Unanswered(pending') => Unanswered(pending)
      BY <3>2, Removed
    <3>4. ~Has(pending', "ERROR") =>
            /\ Fresh(pending, "WS_CONNECTED")
            /\ Unanswered(pending) \/ \E h \in Hellos : Has(pending', h)
      <4>1. pending' \in Seq(Events)
        OBVIOUS
      <4>2. /\ cur # "ERROR" /\ ~Has(pending', "ERROR") => Fresh(pending, cur)
            /\ cur = "WS_CONNECTED" /\ ~Has(pending', "ERROR") =>
                  Unanswered(pending) \/ \E h \in Hellos : Has(pending', h)
        BY ONLY <3>2, <4>1, Removed
      <4> QED
        BY ONLY <2>2, <4>2
    <3>5. SUFFICES ASSUME ~Excused'
                   PROVE  FreshInv' /\ ServerInv' /\ HandshakeInv'
      BY DEF ConnInv
    <3>6. FreshInv /\ ServerInv
      BY <3>5 DEF ConnInv
    <3>7. FreshInv' /\ ServerInv'
      BY <3>1, <3>3, <3>6 DEF FreshInv, ServerInv
    <3>8. HandshakeInv'
      BY <3>1, <3>4, <3>6 DEF FreshInv, ServerInv, HandshakeInv, Quiet
    <3> QED
      BY <3>7, <3>8
  <2> QED
    BY <2>3, <2>4
<1>7. CASE HandleStopListen \/ HandleStartListen
  <2>1. PICK m \in Texts, ok \in BOOLEAN :
          /\ WithSession(m, ok)
          /\ Silently \/ Raise("ERROR")
    <3>1. CASE HandleStopListen
      BY <3>1 DEF HandleStopListen, app_send_listen_stop, Texts
    <3>2. CASE HandleStartListen
      BY <3>2 DEF HandleStartListen, StartListenNotSent, StartListenNoDump,
                  StartListenOk, app_send_listen_start, Texts
    <3> QED
      BY <1>7, <3>1, <3>2
  <2>2. UNCHANGED <<net, srv, unheard>> /\ (HelloPending => HelloPending')
    <3>1. CASE sid
      BY <1>7, <2>1, <3>1, <1>a, HelloStays
      DEF WithSession, HandleStopListen, HandleStartListen
    <3>2. CASE ~sid
      BY <1>7, <2>1, <3>2, <1>d DEF WithSession, HandleStopListen, HandleStartListen
    <3> QED
      BY <3>1, <3>2
  <2>3. /\ cur \in StartEvents \cup {"MANUAL_STOP"} /\ cur' = "none" /\ mpc = "handle"
        /\ session' # "HANDSHAKING"
    BY <1>7 DEF HandleStopListen, HandleStartListen, session_handle_event,
                session_handle_error, Outcome, StartEvents
  <2>4. CASE Raise("ERROR")
    BY <2>3, <2>4, RaiseFails, ConnFails
  <2>5. CASE Silently
    <3>1. PendingKept
      BY <2>3, <2>5, <1>c DEF StartEvents, Hellos
    <3> QED
      BY <2>2, <2>3, <3>1, ConnKept
  <2> QED
    BY <2>1, <2>4, <2>5
<1>8. CASE HandleAbort
  <2>1. PICK ok \in BOOLEAN : xiaozhi_client_queue_text("abort", ok)
    BY <1>8 DEF HandleAbort, app_send_abort
  <2>2. UNCHANGED <<net, srv, unheard>> /\ (HelloPending => HelloPending')
    BY <1>8, <2>1, <1>a, HelloStays DEF HandleAbort, Texts
  <2>3. session' = "CONNECTING" /\ cur \in StartEvents
    BY <1>8 DEF HandleAbort, session_handle_event, session_handle_error, Outcome,
                StartEvents
  <2>4. PendingKept
    BY <1>8, <2>3, <1>c DEF HandleAbort, StartEvents, Hellos
  <2> QED
    BY <2>2, <2>3, <2>4, ConnKept
<1>9. CASE StopAbort \/ JoinAbort \/ BackoffEnds \/ JoinReturn
  <2>1. /\ UNCHANGED <<evVars, cur, srv, unheard, session, pendText>>
        /\ net # "open" \/ UNCHANGED net
    BY <1>9 DEF StopAbort, JoinAbort, BackoffEnds, JoinReturn, xiaozhi_client_stop,
                xiaozhi_client_join
  <2> QED
    BY <2>1, <1>b, <1>d, ConnKept
<1>10. CASE RestartAbort \/ RestartReturn
  <2>1. PICK ok \in BOOLEAN : xiaozhi_client_start(ok) /\ (Silently \/ Raise("ERROR"))
    BY <1>10 DEF RestartAbort, RestartReturn
  <2>2. net = "none" /\ UNCHANGED <<pendText, srv, unheard, cur>> /\ session' = "CONNECTING"
    BY <1>10, <2>1 DEF RestartAbort, RestartReturn, TeardownInv, StoppedBefore,
                       PlaceInv, xiaozhi_client_start
  <2>3. CASE Raise("ERROR")
    BY <2>2, <2>3, RaiseFails, ConnFails
  <2>4. CASE Silently
    BY <2>2, <2>4, <1>b, <1>d, ConnKept
  <2> QED
    BY <2>1, <2>3, <2>4
<1>11. CASE HandleError \/ HandleHello \/ HandleTtsStart
  <2>1. /\ mpc = "handle" /\ cur' = "none" /\ UNCHANGED <<evVars, net, srv, unheard, pendText>>
        /\ session' # "HANDSHAKING" \/ (UNCHANGED session /\ cur \notin Hellos)
    BY <1>11 DEF HandleError, HandleHello, HandleTtsStart, session_handle_event,
                 session_handle_error, Outcome, Hellos, StartEvents
  <2>2. cur = "ERROR" => session' = "ERROR_BACKOFF"
    BY <1>11 DEF HandleError, HandleHello, HandleTtsStart, session_handle_event,
                 session_handle_error, Outcome, StartEvents
  <2> QED
    BY <2>1, <2>2, <1>c, <1>d, ConnKept
<1>12. CASE HandleTtsStop \/ HandleFinished
  <2>1. /\ mpc = "handle" /\ cur' = "none" /\ UNCHANGED <<evVars, net, srv, unheard, pendText>>
        /\ cur \in {"TTS_STOP", "PLAYBACK_FINISHED"}
    BY <1>12 DEF HandleTtsStop, HandleFinished
  <2>2. session' = "HANDSHAKING" => session = "HANDSHAKING"
    BY <1>12 DEF HandleTtsStop, HandleFinished, app_reset_to_idle
  <2> QED
    BY <2>1, <2>2, <1>c, <1>d, ConnKept DEF Hellos
<1>13. CASE \/ DestroyBegin \/ DestroyJoinClient \/ DestroyStopCapture
            \/ DestroyStopPlayback \/ DestroyClient \/ DestroyEnds
  <2>1. stopReq /\ stopReq' = stopReq /\ mpc' \notin {"pop", "handle"}
    BY <1>13 DEF DestroyBegin, DestroyJoinClient, DestroyStopCapture,
                 DestroyStopPlayback, DestroyClient, DestroyEnds, PlaceInv, Destroying
  <2> QED
    BY <2>1 DEF ConnInv, Excused
<1> QED
  BY <1>1, <1>2, <1>3, <1>4, <1>5, <1>6, <1>7, <1>8, <1>9, <1>10, <1>11, <1>12,
     <1>13 DEF MainStep

(* What the client thread writes, the server hears: the hello it waits for *)
(* is answered.                                                            *)
LEMMA HeardHello ==
    ASSUME ClientTypeOK, net = "open", TakeOut, srv' = Heard(NextOut)
    PROVE  /\ srv = "greeted" => srv' = "greeted"
           /\ srv = "deaf" => srv' \in {"deaf", "greeted"}
           /\ srv = "deaf" /\ HelloPending => srv' = "greeted" \/ HelloPending'
           /\ srv \in {"ready", "listening", "speaking"} <=>
                srv' \in {"ready", "listening", "speaking"}
<1>1. /\ srv = "greeted" => srv' = "greeted"
      /\ srv = "deaf" => srv' \in {"deaf", "greeted"}
      /\ srv = "deaf" /\ NextOut = "hello" => srv' = "greeted"
      /\ srv \in {"ready", "listening", "speaking"} <=>
           srv' \in {"ready", "listening", "speaking"}
  BY DEF Heard
<1>2. ASSUME HelloPending, NextOut # "hello"
      PROVE  HelloPending'
  <2>1. PICK i \in 1..Len(pendText) : pendText[i] = "hello"
    BY <1>2 DEF HelloPending
  <2>2. pendText \in Seq(Texts) /\ pendText # <<>> /\ pendText' = Tail(pendText)
    BY <2>1 DEF ClientTypeOK, TakeOut
  <2>3. i # 1
    BY <2>1, <2>2, <1>2 DEF NextOut
  <2>4. i - 1 \in 1..Len(pendText') /\ pendText'[i - 1] = "hello"
    BY <2>1, <2>2, <2>3
  <2> QED
    BY <2>4 DEF HelloPending
<1> QED
  BY <1>1, <1>2

(* The steps of the other threads keep the promises. *)
LEMMA ConnOthers ==
    ASSUME ConnInv, DeafInv, TypeInv, Excused => Excused', DeafInv',
           pending \in Seq(Events), pending' \in Seq(Events), OtherThreads
    PROVE  ConnInv'
<1> USE DEF appVars, mainVars, clientVars, Silently
<1>a. /\ UNCHANGED <<session, cur, mpc>> /\ EvTypeOK /\ ClientTypeOK
      /\ Events = AppEvents
  BY OthersLeaveMain, AppAssumption DEF TypeInv, TypeOK
<1>b. ASSUME UNCHANGED evVars
      PROVE  pending' = pending /\ PendingKept
  BY <1>a, <1>b DEF PendingKept, pending, evVars
<1>c. ASSUME UNCHANGED pendText PROVE HelloPending => HelloPending'
  BY <1>c DEF HelloPending
<1>d. ASSUME Raise("ERROR") PROVE ConnInv'
  BY <1>a, <1>d, RaiseFails, ConnFails
<1>e. ASSUME NEW e \in Harmless, Raise(e),
             UNCHANGED <<net, srv, unheard, pendText>>
      PROVE  ConnInv'
  <2>1. e \in Events
    BY <1>a DEF AppEvents, Harmless
  <2>2. CASE refused'
    BY <2>2, ConnFails
  <2>3. CASE pending' = Append(pending, e)
    BY <2>3, <1>a, <1>c, <1>e, ConnKept DEF PendingKept
  <2> QED
    BY <2>1, <2>2, <2>3, <1>a, <1>e, RaiseAdds
<1>f. ASSUME UNCHANGED <<evVars, pendText>>,
             net # "open" \/ UNCHANGED <<net, srv, unheard>>
      PROVE  ConnInv'
  BY <1>a, <1>b, <1>c, <1>f, ConnKept
<1>g. ASSUME app_client_on_disconnected, net' \in {"idle", "exited"}, stopReq' = stopReq
      PROVE  ConnInv'
  <2>1. CASE stopReq
    BY <2>1, <1>g DEF ConnInv, Excused
  <2>2. CASE ~stopReq
    BY <2>2, <1>d, <1>g DEF app_client_on_disconnected
  <2> QED
    BY <2>1, <2>2
<1>1. CASE Sigint
  BY <1>1, <1>e DEF Sigint, app_request_stop, Harmless
<1>2. CASE Terminated
  BY <1>2, <1>f DEF Terminated, vars
<1>3. CASE NetConnects
  BY <1>3, <1>f DEF NetConnects, ThreadConnects
<1>4. CASE NetInitFails \/ NetConnectionError \/ NetFrameTooLarge
  BY <1>4, <1>d DEF NetInitFails, NetConnectionError, NetFrameTooLarge
<1>5. CASE NetClosed \/ NetWriteFails
  BY <1>5, <1>g DEF NetClosed, NetWriteFails, Closed, WriteFails, Net
<1>6. CASE NetExits
  <2>1. net' = "exited" /\ UNCHANGED <<srv, pendText, stopReq>>
    BY <1>6 DEF NetExits, ThreadExits, Net
  <2>2. CASE net = "open"
    BY <1>6, <2>1, <2>2, <1>g DEF NetExits
  <2>3. CASE net # "open"
    <3>1. Silently \/ Raise("ERROR")
      BY <1>6, <2>3 DEF NetExits
    <3> QED
      BY <3>1, <2>1, <2>3, <1>d, <1>f
  <2> QED
    BY <2>2, <2>3
<1>7. CASE NetAudio
  BY <1>7, <1>f DEF NetAudio
<1>8. CASE NetOther
  BY <1>8, <1>e DEF NetOther, Receive, Harmless
<1>9. CASE PlaybackStep \/ PlaybackFails
  BY <1>9, <1>e, <1>f DEF PlaybackStep, PlaybackQuiet, PlaybackFinished, PlaybackFails,
                          Playback, Harmless
<1>10. CASE CaptureStep
  BY <1>10, <1>e, <1>f DEF CaptureStep, CaptureQuiet, CaptureEncode, CaptureQueue,
                           CaptureSilence, Capture, Harmless, xiaozhi_client_queue_binary
<1>11. CASE \/ NetEstablished \/ NetWriteable \/ NetHello \/ NetTtsStart \/ NetTtsStop
  <2> SUFFICES ASSUME ~Excused'
               PROVE  FreshInv' /\ ServerInv' /\ HandshakeInv'
    BY DEF ConnInv
  <2>0. FreshInv /\ ServerInv /\ HandshakeInv /\ ~refused'
    BY DEF ConnInv, Excused
  <2>a. ASSUME NEW e \in Events, Raise(e), net' = "open"
        PROVE  /\ \A x : Has(pending', x) <=> Has(pending, x) \/ x = e
               /\ Unanswered(pending') =>
                    (Unanswered(pending) \/ e = "WS_CONNECTED") /\ e \notin Hellos
               /\ FreshInv'
    <3>1. pending' = Append(pending, e)
      BY <2>a, <2>0, <1>a, RaiseAdds
    <3> QED
      BY <2>a, <3>1, AppendedHas, AppendedUnanswered DEF FreshInv
  <2>1. CASE NetEstablished
    <3>1. /\ Raise("WS_CONNECTED") /\ net = "connecting" /\ net' = "open"
          /\ srv = "deaf" /\ srv' = "deaf"
      BY <2>1 DEF NetEstablished, Established, DeafInv
    <3>2. FreshInv' /\ (Quiet' => Quiet)
      BY <3>1, <2>a, <1>a DEF AppEvents, Quiet
    <3> QED
      BY <3>1, <3>2, <2>0, <1>a DEF ServerInv, HandshakeInv
  <2>2. CASE NetWriteable
    <3>1. /\ net = "open" /\ net' = "open" /\ TakeOut /\ srv' = Heard(NextOut)
          /\ pending' = pending /\ UNCHANGED unheard
      BY <2>2, <1>b DEF NetWriteable, Writeable
    <3>2. /\ srv = "greeted" => srv' = "greeted"
          /\ srv = "deaf" => srv' \in {"deaf", "greeted"}
          /\ srv = "deaf" /\ HelloPending => srv' = "greeted" \/ HelloPending'
      BY <3>1, <1>a, HeardHello
    <3> QED
      BY <3>1, <3>2, <2>0, <1>a DEF FreshInv, ServerInv, HandshakeInv, Quiet
  <2>3. CASE NetHello
    <3>1. PICK h \in Hellos \cup {"OTHER"} : Raise(h) /\ (h \in Hellos \/ unheard')
      BY <2>3 DEF NetHello, ServerSays, ServerSaysTooMuch, Hellos
    <3>2. net = "open" /\ net' = "open" /\ h \in Events /\ h # "WS_CONNECTED"
      BY <2>3, <1>a, TextIsReceived DEF Receive, Hellos, AppEvents
    <3>3. /\ FreshInv' /\ Has(pending', h)
          /\ Unanswered(pending') => h \notin Hellos
      BY <3>1, <3>2, <2>a
    <3> QED
      BY <3>1, <3>2, <3>3 DEF ServerInv, HandshakeInv
  <2>4. CASE NetTtsStart \/ NetTtsStop
    <3>1. PICK e \in {"TTS_START", "TTS_STOP", "OTHER"} : Raise(e)
      BY <2>4 DEF NetTtsStart, NetTtsStop, ServerSays, ServerSaysTooMuch
    <3>2. /\ net = "open" /\ net' = "open" /\ srv \notin {"deaf", "greeted"}
          /\ UNCHANGED unheard
      BY <2>4, TextIsReceived DEF NetTtsStart, NetTtsStop, ServerSays, ServerSaysTooMuch,
                                  Receive
    <3>3. e \in Events /\ e \notin {"WS_CONNECTED", "ERROR"}
      BY <1>a DEF AppEvents
    <3>4. /\ FreshInv' /\ (Unanswered(pending') => Unanswered(pending))
          /\ Quiet' => Quiet
          /\ \A h \in Hellos : Has(pending, h) => Has(pending', h)
      BY <3>1, <3>2, <3>3, <2>a DEF Quiet
    <3> QED
      BY <3>2, <3>4, <2>0, <1>a DEF ServerInv, HandshakeInv
  <2> QED
    BY <1>11, <2>1, <2>2, <2>3, <2>4
<1> QED
  BY <1>1, <1>2, <1>3, <1>4, <1>5, <1>6, <1>7, <1>8, <1>9, <1>10, <1>11
  DEF OtherThreads, NetStep, ServerStep, NetFault

(* What is under way is queued, or in the main loop's hands. *)
LEMMA UnderWay ==
    ASSUME TypeInv, NEW e, Has(pending, e)
    PROVE  Queued(e)
<1>1. evq \in Seq(Events)
  BY DEF TypeInv, TypeOK, EvTypeOK
<1>2. PICK i \in 1..Len(pending) : pending[i] = e
  BY DEF Has
<1>3. CASE cur = "none"
  BY <1>2, <1>3 DEF pending, Queued
<1>4. CASE cur # "none"
  <2>1. pending = <<cur>> \o evq
    BY <1>4 DEF pending
  <2>2. i = 1 \/ (i - 1 \in 1..Len(evq) /\ pending[i] = evq[i - 1])
    BY <1>1, <1>2, <2>1
  <2>3. pending[1] = cur
    BY <1>1, <2>1
  <2> QED
    BY <1>2, <2>2, <2>3 DEF Queued
<1> QED
  BY <1>3, <1>4

(* The invariant of the connection and where the main thread is. *)
EventInv == PlaceInv /\ DeafInv /\ ConnInv

(* It holds at the start ... *)
LEMMA EventInit ==
    ASSUME Init
    PROVE  EventInv
<1>1. /\ pending = <<>> /\ cur = "none" /\ mpc = "run" /\ net = "none"
      /\ running = FALSE /\ session = "IDLE" /\ unheard = FALSE
  BY DEF Init, pending, EvInit, ClientInit, session_init
<1>2. ConnInv
  BY <1>1 DEF ConnInv, FreshInv, ServerInv, HandshakeInv, Fresh, Unanswered
<1> QED
  BY <1>1, <1>2 DEF EventInv, PlaceInv, Destroying, DeafInv

(* ... and every step keeps it. *)
LEMMA EventStep ==
    ASSUME EventInv, TeardownInv, TypeInv, [Next]_vars
    PROVE  EventInv'
<1> USE DEF EventInv
<1>1. PlaceInv'
  BY PlaceStep
<1>2. DeafInv'
  BY DeafStep
<1>3. Excused => Excused'
  BY ExcusedStays
<1>4. pending \in Seq(Events) /\ pending' \in Seq(Events)
  BY PendingType
<1>5. ConnInv'
  <2>1. CASE MainStep
    BY <2>1, <1>2, <1>3, <1>4, ConnMain
  <2>2. CASE OtherThreads
    BY <2>2, <1>2, <1>3, <1>4, ConnOthers
  <2>3. CASE UNCHANGED vars
    <3>1. pending' = pending /\ UNCHANGED <<stopReq, refused, mpc, net, srv, unheard,
                                        session, pendText>>
      BY <2>3 DEF vars, pending, evVars, mainVars, clientVars, appVars
    <3> QED
      BY <3>1 DEF ConnInv, Excused, FreshInv, ServerInv, HandshakeInv, Quiet, HelloPending
  <2> QED
    BY <2>1, <2>2, <2>3 DEF Next, OtherThreads
<1> QED
  BY <1>1, <1>2, <1>5

(* A session waits in HANDSHAKING only for something that comes: its hello *)
(* is queued or written on the connection there is, the answer is queued,  *)
(* or an ERROR starts over.  The one exception is named in the property: a *)
(* hello that has come and could not be read, after which nothing does.    *)
(* The theorem rests on the order in which events are handled: a           *)
(* WS_CONNECTED that reaches the main loop after its connection has gone   *)
(* has the ERROR of that end behind it.                                    *)
THEOREM HandshakesAreBacked == Spec => []HandshakeBacked
<1>1. EventInv /\ TypeInv => HandshakeBacked
  <2> SUFFICES ASSUME EventInv, TypeInv, session = "HANDSHAKING", ~stopReq, ~ErrorPending
               PROVE  \/ net = "open" /\ \E i \in 1..Len(pendText) : pendText[i] = "hello"
                      \/ net = "open" /\ (srv = "greeted" \/ unheard)
                      \/ Queued("HELLO") \/ Queued("HELLO_NOSID")
    BY DEF HandshakeBacked
  <2>1. HandshakeInv
    BY DEF EventInv, ConnInv, Excused, ErrorPending
  <2>2. Quiet
    BY UnderWay DEF Quiet, ErrorPending
  <2> QED
    BY <2>1, <2>2, UnderWay DEF HandshakeInv, HelloPending, Hellos
<1>2. Init => EventInv /\ TypeInv /\ TeardownInv
  BY EventInit, TypeInit, TeardownInit
<1>3. EventInv /\ TeardownInv /\ TypeInv /\ [Next]_vars => EventInv'
  BY EventStep
<1>4. TeardownInv /\ TypeInv /\ [Next]_vars => TeardownInv'
  BY TeardownStep
<1>5. TypeInv /\ [Next]_vars => TypeInv'
  BY TypeStep
<1> QED
  BY <1>1, <1>2, <1>3, <1>4, <1>5, PTL DEF Spec

-----------------------------------------------------------------------------
(* The rest of a session.                                                  *)

(* The main loop's event changes only when one is popped or handled. *)
LEMMA CurMoves ==
    ASSUME Next
    PROVE  Pop \/ cur' \in {cur, "none"}
<1>1. CASE MainStep
  BY <1>1
  DEF MainStep, RunStart, LoopGoesOn, LoopEnds, PopTimeout, HandleIgnored,
      HandleConnect, HandleConnected, HandleStartListen, HandleStopListen,
      HandleAbort, StopAbort, JoinAbort, RestartAbort, HandleError, BackoffEnds,
      JoinReturn, RestartReturn, HandleHello, HandleTtsStart, HandleTtsStop,
      HandleFinished, HandleShutdown, PollNothing, PollEnter, PollQuit,
      DestroyBegin, DestroyJoinClient, DestroyStopCapture, DestroyStopPlayback,
      DestroyClient, DestroyEnds, From, Handles, app_request_stop
<1>2. CASE OtherThreads
  BY <1>2, OthersLeaveMain
<1> QED
  BY <1>1, <1>2 DEF Next, OtherThreads

(* A server that numbers its sessions goes on doing so. *)
LEMMA NumberedStep ==
    ASSUME Numbered, TypeInv, [Next]_vars
    PROVE  Numbered'
<1> SUFFICES ASSUME "nosid" \notin Faults PROVE Numbered'
  BY DEF Numbered
<1> USE DEF Numbered, Queued
<1>0. evq \in Seq(Events) /\ "none" # "HELLO_NOSID"
  BY DEF TypeInv, TypeOK, EvTypeOK
<1>1. CASE Pop
  <2>1. evq # <<>> /\ cur' = Head(evq) /\ evq' = Tail(evq)
    BY <1>1 DEF Pop, event_queue_pop
  <2>2. cur' = evq[1] /\ 1 \in 1..Len(evq)
    BY <2>1, <1>0
  <2>3. \A i \in 1..Len(evq') : i + 1 \in 1..Len(evq) /\ evq'[i] = evq[i + 1]
    BY <2>1, <1>0
  <2> QED
    BY <2>2, <2>3
<1>2. CASE Next /\ ~Pop
  <2>1. cur' # "HELLO_NOSID"
    BY <1>2, CurMoves
  <2>2. CASE UNCHANGED evVars
    BY <2>1, <2>2 DEF evVars
  <2>3. CASE \E e \in Events : event_queue_push(e) /\ (e = "HELLO_NOSID" => NetHello)
    <3>1. PICK e \in Events : event_queue_push(e) /\ (e = "HELLO_NOSID" => NetHello)
      BY <2>3
    <3>2. CASE evq' = evq
      BY <2>1, <3>2
    <3>3. CASE evq' = Append(evq, e)
      <4>1. e # "HELLO_NOSID"
        <5>1. CASE NetHello
          <6>1. PICK h \in {"HELLO", "OTHER"} : Raise(h)
            BY <5>1 DEF NetHello, ServerSays, ServerSaysTooMuch, Fault
          <6>2. evq' = evq \/ evq' = Append(evq, h)
            BY <6>1 DEF Raise, event_queue_push
          <6>3. evq'[Len(evq) + 1] = e /\ Len(evq') = Len(evq) + 1
            BY <3>3, <1>0
          <6>4. h \in Events /\ h # "HELLO_NOSID"
            BY AppAssumption DEF AppEvents
          <6>5. evq' = Append(evq, h)
            BY <6>2, <6>3, <1>0
          <6>6. evq'[Len(evq) + 1] = h
            BY <6>4, <6>5, <1>0
          <6> QED
            BY <6>3, <6>4, <6>6
        <5> QED
          BY <3>1, <5>1
      <4>2. \A i \in 1..Len(evq') :
              (i \in 1..Len(evq) /\ evq'[i] = evq[i]) \/ evq'[i] = e
        BY <3>3, <1>0
      <4> QED
        BY <2>1, <4>1, <4>2
    <3> QED
      BY <3>1, <3>2, <3>3 DEF event_queue_push
  <2> QED
    BY <1>2, <2>2, <2>3, StepIsOperations DEF EvOp
<1>3. CASE UNCHANGED vars
  BY <1>3 DEF vars, evVars, mainVars
<1> QED
  BY <1>1, <1>2, <1>3

(* A connection that fails leaves nothing to be promised. *)
LEMMA RestFails ==
    ASSUME pending' \in Seq(Events), Numbered', refused' \/ Ended(pending')
    PROVE  SessionInv'
<1>1. CASE refused'
  BY <1>1 DEF SessionInv, Excused, RestInv
<1>2. CASE Ended(pending')
  BY <1>2, EndedIsOver DEF SessionInv, SidInv, DoneInv, RestInv, Quiet
<1> QED
  BY <1>1, <1>2

(* Any event but tts/stop is raised, and any but hello and ERROR handled.  *)
PendingPlain ==
    \/ pending' = pending
    \/ \E e \in Events \ {"TTS_STOP"} : pending' = Append(pending, e)
    \/ Takes /\ cur \in Events \ (Hellos \cup {"ERROR"})

(* What such a step does to the patterns. *)
LEMMA PlainPatterns ==
    ASSUME pending \in Seq(Events), pending' \in Seq(Events), PendingPlain
    PROVE  /\ Quiet' => Quiet
           /\ Has(pending, "HELLO") => Has(pending', "HELLO")
           /\ Orphan(pending') => Orphan(pending)
<1> USE DEF Quiet
<1>1. CASE pending' = pending
  BY <1>1
<1>2. CASE \E e \in Events \ {"TTS_STOP"} : pending' = Append(pending, e)
  <2>1. PICK e \in Events \ {"TTS_STOP"} : pending' = Append(pending, e)
    BY <1>2
  <2>2. /\ \A x : Has(pending', x) <=> Has(pending, x) \/ x = e
        /\ Orphan(pending') => Orphan(pending) \/ e = "TTS_STOP"
    BY <2>1, AppendedHas, AppendedOrphan
  <2> QED
    BY <2>1, <2>2
<1>3. CASE Takes /\ cur \in Events \ (Hellos \cup {"ERROR"})
  <2>1. pending = <<cur>> \o pending' /\ cur \in Events
    BY <1>3 DEF Takes
  <2>2. /\ \A x : Has(pending, x) <=> Has(pending', x) \/ x = cur
        /\ Orphan(pending') => Orphan(pending) \/ cur \in {"HELLO", "ERROR"}
    BY <2>1, Removed
  <2> QED
    BY <1>3, <2>2 DEF Hellos
<1> QED
  BY <1>1, <1>2, <1>3 DEF PendingPlain

(* A connection goes on as it is: none is begun, and only one that begins  *)
(* has a hello that can be read again.                                     *)
GoesOn == /\ net' \in {"starting", "connecting"} => net \in {"starting", "connecting"}
          /\ unheard => unheard' \/ net = "starting"

(* A step that leaves the session_id and the connection alone keeps what   *)
(* is said of the session at rest.                                         *)
LEMMA RestKept ==
    ASSUME SessionInv, ConnInv, Numbered', Excused => Excused', refused => refused',
           stopReq => stopReq',
           pending \in Seq(Events), pending' \in Seq(Events), PendingPlain,
           sid' = sid, ttsDone' => ttsDone, ~Clearing' => ~Clearing,
           mpc' # "backoff" => mpc # "backoff", GoesOn,
           Greeted' => Greeted \/ Has(pending', "HELLO") \/ "nosid" \in Faults \/ unheard',
           net = "open" => net' = "open" \/ Excused',
           session' = "READY" => session = "READY",
           session' = "IDLE" /\ mpc' # "run" => session = "IDLE" /\ mpc # "run"
    PROVE  SessionInv'
<1> USE DEF Identified
<1>1. /\ Quiet' => Quiet
      /\ Has(pending, "HELLO") => Has(pending', "HELLO")
      /\ Orphan(pending') => Orphan(pending)
  BY PlainPatterns
<1>2. ASSUME ~Excused'
      PROVE  SidInv' /\ DoneInv'
  <2>1. SidInv /\ DoneInv /\ FreshInv
    BY <1>2 DEF SessionInv, ConnInv
  <2>2. Orphan(pending) => net = "open"
    BY <2>1, PatternsAreFresh DEF FreshInv
  <2>3. SidInv'
    BY <1>1, <2>1, <2>2 DEF SidInv, GoesOn, Greeted
  <2>4. DoneInv'
    BY <1>1, <1>2, <2>1 DEF DoneInv, GoesOn
  <2> QED
    BY <2>3, <2>4
<1>3. RestInv'
  BY <1>1 DEF SessionInv, RestInv, Excused, GoesOn
<1> QED
  BY <1>2, <1>3 DEF SessionInv

(* Where an ERROR is under way, or an event was refused, nothing more is   *)
(* said.                                                                   *)
LEMMA RestVoid ==
    ASSUME Numbered', refused' \/ Has(pending', "ERROR")
    PROVE  SessionInv'
  BY DEF SessionInv, Excused, SidInv, DoneInv, RestInv, Quiet, Orphan

(* A step without an open connection, that restarts or backs off.          *)
LEMMA RestUnconnected ==
    ASSUME SessionInv, ConnInv, Numbered', Excused => Excused',
           pending \in Seq(Events), pending' = pending,
           net # "open", net' # "open", ttsDone' => ttsDone /\ mpc # "backoff",
           session' \notin {"READY", "IDLE"}
    PROVE  SessionInv'
<1>1. ASSUME ~Excused'
      PROVE  SidInv' /\ DoneInv'
  <2>1. FreshInv /\ DoneInv
    BY <1>1 DEF SessionInv, ConnInv
  <2>2. ~Orphan(pending')
    BY <2>1, PatternsAreFresh DEF FreshInv
  <2> QED
    BY <2>1, <2>2 DEF SidInv, DoneInv, Greeted, Quiet
<1>2. RestInv'
  BY DEF RestInv
<1> QED
  BY <1>1, <1>2 DEF SessionInv

(* The handler of an event that ends a round, where the end is genuine: it *)
(* finds the session_id and the connection there, or a stop requested.     *)
LEMMA RestResets ==
    ASSUME SessionInv, TeardownInv, TypeInv, Numbered', Excused => Excused',
           refused => refused', stopReq => stopReq',
           pending \in Seq(Events), pending' \in Seq(Events), PendingPlain,
           app_reset_to_idle, UNCHANGED <<net, srv, unheard>>, mpc = "handle",
           mpc' = "poll",
           ~Excused /\ Quiet' => Identified /\ net = "open"
    PROVE  SessionInv'
<1> USE DEF Identified
<1>1. /\ Quiet' => Quiet
      /\ Has(pending, "HELLO") => Has(pending', "HELLO")
      /\ Orphan(pending') => Orphan(pending)
  BY PlainPatterns
<1>2. /\ ttsDone' = FALSE /\ sid' = sid
      /\ session' = IF clientStarted /\ net = "open" THEN "READY" ELSE "IDLE"
  BY DEF app_reset_to_idle
<1>3. SidInv => SidInv'
  BY <1>1, <1>2 DEF SidInv, Clearing, Greeted
<1>4. DoneInv'
  BY <1>2 DEF DoneInv
<1>5. RestInv'
  <2> SUFFICES ASSUME ~refused', Quiet'
               PROVE  /\ session' = "READY" => Identified' /\ net' = "open"
                      /\ session' = "IDLE" => stopReq'
    BY DEF RestInv
  <2>1. CASE Excused
    <3>1. stopReq /\ net # "open"
      BY <2>1 DEF Excused
    <3> QED
      BY <3>1, <1>2
  <2>2. CASE ~Excused
    <3>1. Identified /\ net = "open" /\ clientStarted
      BY <2>2 DEF TeardownInv, Tracked
    <3> QED
      BY <3>1, <1>2
  <2> QED
    BY <2>1, <2>2
<1> QED
  BY <1>3, <1>4, <1>5 DEF SessionInv

(* The steps of the main thread keep what is said of the session at rest.  *)
LEMMA RestMain ==
    ASSUME SessionInv, EventInv, TeardownInv, TypeInv, Numbered',
           Excused => Excused', refused => refused', stopReq => stopReq',
           pending \in Seq(Events), pending' \in Seq(Events), MainStep
    PROVE  SessionInv'
<1> USE DEF EventInv, appVars, clientVars, OnlyMain, Handles, Handled, From, Silently,
        Clearing, Greeted, Identified, GoesOn
<1>a. /\ ClientTypeOK /\ running \in BOOLEAN /\ Events = AppEvents
      /\ clientStarted \in BOOLEAN /\ sid \in BOOLEAN /\ ttsDone \in BOOLEAN
  BY AppAssumption DEF TypeInv, TypeOK, ClientTypeOK, AppTypeOK
<1>b. ASSUME UNCHANGED <<evVars, cur>>
      PROVE  pending' = pending /\ PendingPlain
  BY <1>b DEF PendingPlain, pending, evVars
<1>c. ASSUME mpc = "handle", cur' = "none", UNCHANGED evVars,
             cur \notin Hellos \cup {"ERROR"}
      PROVE  PendingPlain
  BY <1>c, HandlerTakes DEF PendingPlain
<1>e. UNCHANGED unheard
  BY MainConnects
<1>d. ASSUME Raise("ERROR"), cur' \in {cur, "none"} PROVE SessionInv'
  BY <1>d, RaiseFails, RestFails
<1>1. CASE LoopGoesOn \/ LoopEnds \/ PopTimeout \/ PollNothing
  BY <1>1, <1>b, RestKept, <1>e DEF LoopGoesOn, LoopEnds, PopTimeout, PollNothing
<1>2. CASE Pop
  <2>1. PendingPlain
    BY <1>2, PopKeeps DEF PendingPlain
  <2> QED
    BY <1>2, <2>1, RestKept, <1>e DEF Pop
<1>3. CASE HandleIgnored \/ HandleShutdown
  BY <1>3, <1>c, RestKept, <1>e DEF HandleIgnored, HandleShutdown, Hellos
<1>4. CASE PollEnter \/ PollQuit
  <2>1. \E e \in {"MANUAL_START", "MANUAL_STOP", "SHUTDOWN"} : Raise(e)
    BY <1>4 DEF PollEnter, PollQuit, app_request_stop
  <2>2. PICK e \in {"MANUAL_START", "MANUAL_STOP", "SHUTDOWN"} : Raise(e)
    BY <2>1
  <2>3. e \in Events /\ e # "TTS_STOP"
    BY <1>a DEF AppEvents
  <2>4. /\ cur' = cur /\ mpc = "poll" /\ mpc' = "loop"
        /\ UNCHANGED <<net, srv, session, sid, ttsDone>>
    BY <1>4 DEF PollEnter, PollQuit
  <2>5. CASE refused'
    BY <2>5, RestVoid
  <2>6. CASE PendingPlain
    BY <2>4, <2>6, RestKept, <1>e
  <2> QED
    BY <2>2, <2>3, <2>4, <2>5, <2>6, RaiseAdds DEF PendingPlain
<1>5. CASE RunStart
  <2>1. PICK ok \in BOOLEAN : xiaozhi_client_start(ok) /\ (IF ok THEN Silently ELSE Raise("ERROR"))
    BY <1>5 DEF RunStart, Connect
  <2>2. net = "none" /\ session' = "CONNECTING" /\ cur' = cur /\ ttsDone' = FALSE
    BY <1>5 DEF RunStart, Connect, PlaceInv
  <2>3. net' # "open"
    BY <2>1, <2>2 DEF xiaozhi_client_start
  <2>4. CASE Raise("ERROR")
    BY <2>2, <2>4, <1>d
  <2>5. CASE Silently
    BY <2>2, <2>3, <2>5, <1>b, RestUnconnected
  <2> QED
    BY <2>1, <2>4, <2>5
<1>6. CASE HandleConnect
  <2>1. PICK ok \in BOOLEAN : IF ok THEN Silently ELSE Raise("ERROR")
    BY <1>6 DEF HandleConnect, Connect
  <2>2. /\ session = "IDLE" /\ session' = "CONNECTING" /\ mpc = "handle" /\ mpc' = "poll"
        /\ cur \in StartEvents /\ cur' = "none"
    BY <1>6 DEF HandleConnect, Connect, session_handle_event, session_handle_error,
                Outcome, StartEvents, PlaceInv
  <2>3. CASE Raise("ERROR")
    BY <2>2, <2>3, <1>d
  <2>4. CASE Silently
    <3>1. CASE refused
      BY <3>1, RestVoid
    <3>2. CASE Has(pending, "ERROR")
      <4>1. cur \in Events /\ pending = <<cur>> \o pending'
        BY <2>2, <2>4, HandlerTakes DEF Takes
      <4>2. Has(pending, "ERROR") <=> Has(pending', "ERROR") \/ "ERROR" = cur
        BY <4>1, Removed
      <4> QED
        BY <3>2, <4>2, <2>2, RestVoid DEF StartEvents
    <3>3. CASE stopReq
      BY <3>3, <2>2 DEF SessionInv, Excused, RestInv
    <3> QED
      BY <3>1, <3>2, <3>3, <2>2 DEF SessionInv, RestInv, Quiet
  <2> QED
    BY <2>1, <2>3, <2>4
<1>7. CASE HandleConnected \/ HandleAbort
  <2>1. PICK m \in Texts, ok \in BOOLEAN : xiaozhi_client_queue_text(m, ok)
    BY <1>7 DEF HandleConnected, HandleAbort, app_send_hello, app_send_abort, Texts
  <2>2. /\ UNCHANGED <<net, srv, sid, ttsDone>> /\ mpc = "handle" /\ cur' = "none"
        /\ mpc' \in {"poll", "stopAbort"} /\ cur \in {"WS_CONNECTED"} \cup StartEvents
        /\ session' \in {"HANDSHAKING", "CONNECTING"}
    BY <1>7, <2>1 DEF HandleConnected, HandleAbort, xiaozhi_client_queue_text,
                      session_handle_event, session_handle_error, Outcome, StartEvents
  <2>3. Silently \/ Raise("ERROR")
    BY <1>7 DEF HandleConnected, HandleAbort
  <2>4. CASE Silently
    <3>1. PendingPlain
      BY <2>2, <2>4, <1>c DEF StartEvents, Hellos
    <3> QED
      BY <2>2, <3>1, RestKept, <1>e
  <2> QED
    BY <2>2, <2>3, <2>4, <1>d
<1>8. CASE HandleStopListen \/ HandleStartListen
  <2>1. PICK m \in Texts, ok \in BOOLEAN :
          /\ WithSession(m, ok)
          /\ Silently \/ Raise("ERROR")
    <3>1. CASE HandleStopListen
      BY <3>1 DEF HandleStopListen, app_send_listen_stop, Texts
    <3>2. CASE HandleStartListen
      BY <3>2 DEF HandleStartListen, StartListenNotSent, StartListenNoDump,
                  StartListenOk, app_send_listen_start, Texts
    <3> QED
      BY <1>8, <3>1, <3>2
  <2>2. /\ mpc = "handle" /\ mpc' = "poll" /\ cur' = "none" /\ UNCHANGED <<srv, sid, ttsDone>>
        /\ cur \in {"MANUAL_STOP"} \cup StartEvents
        /\ session' \in {"WAITING_TTS", "UPLOADING_AUDIO"}
    BY <1>8 DEF HandleStopListen, HandleStartListen, session_handle_event,
                session_handle_error, Outcome, StartEvents
  <2>3. net' = net
    BY <2>1 DEF WithSession, xiaozhi_client_queue_text
  <2>4. CASE Silently
    <3>1. PendingPlain
      BY <2>2, <2>4, <1>c DEF StartEvents, Hellos
    <3> QED
      BY <2>2, <2>3, <3>1, RestKept, <1>e
  <2> QED
    BY <2>1, <2>2, <2>4, <1>d
<1>9. CASE StopAbort
  <2>1. /\ UNCHANGED <<evVars, cur, net, srv, session, sid, ttsDone>>
        /\ mpc = "stopAbort" /\ mpc' \in {"joinAbort", "restartAbort"}
    BY <1>9 DEF StopAbort, xiaozhi_client_stop
  <2> QED
    BY <2>1, <1>b, RestKept, <1>e
<1>10. CASE JoinAbort \/ RestartAbort \/ JoinReturn \/ RestartReturn
  <2>1. net \in {"none", "exited"} /\ net' \in {"none", "starting"}
    BY <1>10 DEF JoinAbort, RestartAbort, JoinReturn, RestartReturn, TeardownInv,
                 StoppedBefore, xiaozhi_client_join, xiaozhi_client_start
  <2>2. /\ UNCHANGED <<cur, ttsDone>> /\ mpc # "backoff"
        /\ session' \in {"CONNECTING", "ERROR_BACKOFF"}
    BY <1>10 DEF JoinAbort, RestartAbort, JoinReturn, RestartReturn, PlaceInv
  <2>3. Silently \/ Raise("ERROR")
    BY <1>10 DEF JoinAbort, RestartAbort, JoinReturn, RestartReturn
  <2>4. CASE Silently
    BY <2>1, <2>2, <2>4, <1>b, RestUnconnected
  <2> QED
    BY <2>2, <2>3, <2>4, <1>d
<1>11. CASE HandleError
  <2>1. session' = "ERROR_BACKOFF" /\ mpc' = "backoff"
    BY <1>11 DEF HandleError, session_handle_event, session_handle_error, Outcome,
                 StartEvents
  <2> QED
    BY <2>1 DEF SessionInv, SidInv, DoneInv, RestInv
<1>12. CASE BackoffEnds
  <2>1. /\ ttsDone' = FALSE /\ session' = "ERROR_BACKOFF" /\ UNCHANGED <<evVars, cur, net>>
        /\ mpc' = "joinReturn" \/ net = "none"
    BY <1>12, <1>a DEF BackoffEnds, PlaceInv, TeardownInv, Tracked, xiaozhi_client_stop
  <2>2. CASE mpc' = "joinReturn"
    BY <2>1, <2>2 DEF SessionInv, SidInv, DoneInv, RestInv
  <2>3. CASE net = "none"
    BY <2>1, <2>3, <1>b, RestUnconnected
  <2> QED
    BY <2>1, <2>2, <2>3
<1>13. CASE HandleHello
  <2>1. /\ mpc = "handle" /\ mpc' = "poll" /\ cur' = "none"
        /\ UNCHANGED <<evVars, net, srv, ttsDone>> /\ cur \in Hellos
        /\ sid' = (sid \/ cur = "HELLO") /\ (session' = "IDLE" => session = "IDLE")
    BY <1>13 DEF HandleHello, Hellos, session_handle_event, session_handle_error,
                 Outcome, StartEvents
  <2>2. Identified'
    BY <2>1 DEF SessionInv, Numbered, Queued, Hellos
  <2>3. cur \in Events /\ pending = <<cur>> \o pending'
    BY <2>1, HandlerTakes DEF Takes
  <2>4. Quiet' => Quiet
    <3>1. Has(pending, "ERROR") <=> Has(pending', "ERROR") \/ "ERROR" = cur
      BY <2>3, Removed
    <3> QED
      BY <3>1, <2>1 DEF Quiet, Hellos
  <2>5. ~Excused /\ Quiet' => net = "open"
    <3>1. Quiet' => Fresh(pending, cur)
      <4>1. pending' \in Seq(Events) /\ cur # "ERROR"
        BY <2>1, <2>3 DEF Hellos
      <4> QED
        BY ONLY <2>3, <4>1, Removed DEF Quiet
    <3> QED
      BY <3>1, <2>1 DEF ConnInv, FreshInv
  <2>6. RestInv'
    BY <2>1, <2>2, <2>4, <2>5, <1>e DEF SessionInv, RestInv, Excused
  <2> QED
    BY <2>1, <2>2, <2>4, <2>6, <1>e DEF SessionInv, SidInv, DoneInv
<1>14. CASE HandleTtsStart
  BY <1>14, <1>c, RestKept, <1>e DEF HandleTtsStart, Hellos
<1>15. CASE HandleTtsStop
  <2>1. /\ mpc = "handle" /\ mpc' = "poll" /\ cur = "TTS_STOP" /\ cur' = "none"
        /\ UNCHANGED <<evVars, net, srv>>
    BY <1>15 DEF HandleTtsStop
  <2>2. PendingPlain
    BY <2>1, <1>c DEF Hellos
  <2>3. ~Excused /\ Quiet' => Identified /\ net = "open"
    <3>1. cur \in Events /\ pending = <<cur>> \o pending'
      BY <2>1, HandlerTakes DEF Takes
    <3>2. Quiet' => Orphan(pending)
      BY <3>1, <2>1, Removed DEF Quiet
    <3>3. Orphan(pending) => Fresh(pending, "TTS_STOP")
      BY PatternsAreFresh
    <3> QED
      BY <3>2, <3>3, <2>1 DEF SessionInv, SidInv, ConnInv, FreshInv
  <2>4. CASE app_reset_to_idle
    BY <2>1, <2>2, <2>3, <2>4, RestResets, <1>e
  <2>5. CASE UNCHANGED <<session, sid>>
    <3>1. /\ Quiet' => Quiet
          /\ Has(pending, "HELLO") => Has(pending', "HELLO")
          /\ Orphan(pending') => Orphan(pending)
      BY <2>2, PlainPatterns
    <3>2. SidInv => SidInv'
      BY <3>1, <2>1, <2>5, <1>e DEF SidInv
    <3>3. ~Excused => DoneInv'
      BY <2>1, <2>3, <2>5, <1>e DEF DoneInv
    <3>4. RestInv'
      BY <3>1, <2>1, <2>5, <1>e DEF SessionInv, RestInv
    <3> QED
      BY <3>2, <3>3, <3>4 DEF SessionInv
  <2> QED
    BY <1>15, <2>4, <2>5 DEF HandleTtsStop
<1>16. CASE HandleFinished
  <2>1. /\ mpc = "handle" /\ mpc' = "poll" /\ cur = "PLAYBACK_FINISHED" /\ cur' = "none"
        /\ UNCHANGED <<evVars, net, srv>>
    BY <1>16 DEF HandleFinished
  <2>2. PendingPlain
    BY <2>1, <1>c DEF Hellos
  <2>3. CASE ttsDone
    <3>1. app_reset_to_idle
      BY <1>16, <2>3 DEF HandleFinished
    <3>2. Quiet' => Quiet
      BY <2>2, PlainPatterns
    <3>3. ~Excused /\ Quiet' => Identified /\ net = "open"
      BY <2>1, <2>3, <3>2 DEF SessionInv, DoneInv
    <3> QED
      BY <2>1, <2>2, <3>1, <3>3, RestResets, <1>e
  <2>4. CASE ~ttsDone
    BY <1>16, <2>1, <2>2, <2>4, RestKept, <1>e DEF HandleFinished
  <2> QED
    BY <2>3, <2>4
<1>17. CASE \/ DestroyBegin \/ DestroyJoinClient \/ DestroyStopCapture
            \/ DestroyStopPlayback \/ DestroyClient \/ DestroyEnds
  <2>1. /\ stopReq /\ stopReq' /\ mpc' \notin {"pop", "handle"}
        /\ UNCHANGED <<evVars, cur, session, sid>> /\ net' \in {net, "none"}
    BY <1>17 DEF DestroyBegin, DestroyJoinClient, DestroyStopCapture,
                 DestroyStopPlayback, DestroyClient, DestroyEnds, PlaceInv, Destroying,
                 xiaozhi_client_stop, xiaozhi_client_join
  <2> QED
    BY <2>1, <1>b, <1>e DEF SessionInv, Excused, RestInv, Quiet, evVars
<1> QED
  BY <1>1, <1>2, <1>3, <1>4, <1>5, <1>6, <1>7, <1>8, <1>9, <1>10, <1>11, <1>12,
     <1>13, <1>14, <1>15, <1>16, <1>17 DEF MainStep

(* The steps of the other threads keep it as well. *)
LEMMA RestOthers ==
    ASSUME SessionInv, EventInv, TypeInv, Numbered',
           Excused => Excused', refused => refused', stopReq => stopReq',
           pending \in Seq(Events), pending' \in Seq(Events), OtherThreads
    PROVE  SessionInv'
<1> USE DEF EventInv, appVars, mainVars, clientVars, Silently, Clearing, Greeted, Identified,
        GoesOn
<1>a. /\ UNCHANGED <<session, ttsDone, sid, cur, mpc>> /\ ClientTypeOK
      /\ Events = AppEvents
  BY OthersLeaveMain, AppAssumption DEF TypeInv, TypeOK
<1>b. ASSUME UNCHANGED evVars
      PROVE  PendingPlain
  BY <1>a, <1>b DEF PendingPlain, pending, evVars
<1>c. ASSUME NEW e \in Events \ {"TTS_STOP"}, Raise(e)
      PROVE  refused' \/ (PendingPlain /\ pending' = Append(pending, e))
  BY <1>a, <1>c, RaiseAdds DEF PendingPlain
<1>d. ASSUME Raise("ERROR") PROVE SessionInv'
  BY <1>a, <1>d, RaiseFails, RestFails
<1>e. ASSUME PendingPlain, GoesOn,
             Greeted' =>
                Greeted \/ Has(pending', "HELLO") \/ "nosid" \in Faults \/ unheard',
             net = "open" => net' = "open" \/ Excused'
      PROVE  SessionInv'
  BY <1>a, <1>e, RestKept
<1>f. ASSUME NEW e \in Events \ {"TTS_STOP"}, Raise(e), GoesOn,
             Greeted' => Greeted, net = "open" => net' = "open" \/ Excused'
      PROVE  SessionInv'
  BY <1>c, <1>e, <1>f, RestVoid
<1>g. ASSUME app_client_on_disconnected, net' \in {"idle", "exited"}, UNCHANGED unheard
      PROVE  SessionInv'
  <2>1. CASE stopReq
    <3>1. Excused'
      BY <1>g, <2>1 DEF Excused
    <3> QED
      BY <1>b, <1>e, <1>g, <2>1, <3>1 DEF app_client_on_disconnected
  <2>2. CASE ~stopReq
    BY <1>d, <1>g, <2>2 DEF app_client_on_disconnected
  <2> QED
    BY <2>1, <2>2
<1>1. CASE Sigint
  BY <1>1, <1>a, <1>f DEF Sigint, app_request_stop, AppEvents
<1>2. CASE Terminated
  BY <1>2, <1>b, <1>e DEF Terminated, vars
<1>3. CASE NetConnects
  BY <1>3, <1>b, <1>e DEF NetConnects, ThreadConnects
<1>4. CASE NetInitFails \/ NetConnectionError \/ NetFrameTooLarge
  BY <1>4, <1>d DEF NetInitFails, NetConnectionError, NetFrameTooLarge
<1>5. CASE NetClosed \/ NetWriteFails
  BY <1>5, <1>g DEF NetClosed, NetWriteFails, Closed, WriteFails
<1>6. CASE NetExits
  <2>1. net' = "exited" /\ UNCHANGED unheard
    BY <1>6 DEF NetExits, ThreadExits
  <2>2. CASE net = "open"
    BY <1>6, <2>1, <2>2, <1>g DEF NetExits
  <2>3. CASE net # "open"
    <3>1. Silently \/ Raise("ERROR")
      BY <1>6, <2>3 DEF NetExits
    <3> QED
      BY <3>1, <2>1, <2>3, <1>b, <1>d, <1>e
  <2> QED
    BY <2>2, <2>3
<1>7. CASE NetEstablished
  <2>1. Raise("WS_CONNECTED") /\ net = "connecting" /\ net' = "open" /\ srv' = "deaf"
        /\ UNCHANGED unheard
    BY <1>7 DEF NetEstablished, Established, DeafInv
  <2> QED
    BY <2>1, <1>a, <1>f DEF AppEvents
<1>8. CASE NetWriteable
  <2>1. net = "open" /\ net' = "open" /\ TakeOut /\ srv' = Heard(NextOut) /\ Silently
        /\ UNCHANGED unheard
    BY <1>8 DEF NetWriteable, Writeable
  <2>2. srv' \in {"ready", "listening", "speaking"} => srv \in {"ready", "listening", "speaking"}
    BY <2>1, <1>a, HeardHello
  <2> QED
    BY <2>1, <2>2, <1>b, <1>e
<1>9. CASE NetHello
  <2>1. PICK e \in Hellos \cup {"OTHER"} :
          /\ Raise(e)
          /\ e = "HELLO" \/ "nosid" \in Faults \/ unheard'
    BY <1>9 DEF NetHello, ServerSays, ServerSaysTooMuch, Fault, Hellos
  <2>2. e \in Events \ {"TTS_STOP"}
    BY <1>a DEF AppEvents, Hellos
  <2>3. UNCHANGED net /\ ~unheard
    BY <1>9, TextIsReceived DEF NetHello, ServerSays, ServerSaysTooMuch, Receive, DeafInv
  <2>4. CASE refused'
    BY <2>4, RestVoid
  <2>5. CASE PendingPlain /\ pending' = Append(pending, e)
    <3>1. Has(pending', e)
      BY <2>2, <2>5, AppendedHas
    <3> QED
      BY <2>1, <2>3, <2>5, <3>1, <1>e
  <2> QED
    BY <2>1, <2>2, <2>4, <2>5, <1>c
<1>h. ASSUME NEW e \in {"TTS_START", "OTHER"}, Raise(e), UNCHANGED <<net, unheard>>,
             Greeted' => Greeted
      PROVE  SessionInv'
  BY <1>a, <1>f, <1>h DEF AppEvents
<1>10. CASE NetTtsStart \/ NetOther
  <2>1. PICK e \in {"TTS_START", "OTHER"} : Raise(e)
    BY <1>10 DEF NetTtsStart, NetOther, ServerSays, ServerSaysTooMuch
  <2>2. UNCHANGED <<net, unheard>> /\ (Greeted' => Greeted)
    BY <1>10, TextIsReceived DEF NetTtsStart, NetOther, ServerSays, ServerSaysTooMuch,
                                 Receive
  <2> QED
    BY <2>1, <2>2, <1>h
<1>11. CASE NetTtsStop
  <2>1. /\ UNCHANGED <<net, unheard>> /\ Greeted /\ Greeted' /\ "TTS_STOP" \in Events
        /\ Raise("OTHER") \/ Raise("TTS_STOP")
    BY <1>11, <1>a, TextIsReceived DEF NetTtsStop, ServerSays, ServerSaysTooMuch, Receive,
                                       AppEvents
  <2>2. CASE refused'
    BY <2>2, RestVoid
  <2>3. CASE pending' = Append(pending, "TTS_STOP")
    <3>1. /\ \A x : Has(pending', x) <=> Has(pending, x) \/ x = "TTS_STOP"
          /\ Orphan(pending') =>
               Orphan(pending) \/ (~Has(pending, "HELLO") /\ ~Has(pending, "ERROR"))
      BY <2>1, <2>3, AppendedHas, AppendedOrphan
    <3>2. /\ Quiet' => Quiet
          /\ Has(pending, "HELLO") => Has(pending', "HELLO")
      BY <3>1 DEF Quiet
    <3>3. SidInv => SidInv'
      BY <2>1, <3>1, <3>2, <1>a DEF SidInv, Quiet
    <3>4. DoneInv => DoneInv'
      BY <2>1, <3>2, <1>a DEF DoneInv
    <3>5. RestInv'
      BY <2>1, <3>2, <1>a DEF SessionInv, RestInv
    <3> QED
      BY <3>3, <3>4, <3>5 DEF SessionInv
  <2> QED
    BY <2>1, <2>2, <2>3, <1>a, <1>h, RaiseAdds
<1>12. CASE NetAudio
  BY <1>12, <1>b, <1>e DEF NetAudio
<1>13. CASE PlaybackStep \/ PlaybackFails
  BY <1>13, <1>a, <1>b, <1>e, <1>f
  DEF PlaybackStep, PlaybackQuiet, PlaybackFinished, PlaybackFails, Playback, AppEvents
<1>14. CASE CaptureStep
  BY <1>14, <1>a, <1>b, <1>e, <1>f
  DEF CaptureStep, CaptureQuiet, CaptureEncode, CaptureQueue, CaptureSilence, Capture,
      xiaozhi_client_queue_binary, AppEvents
<1> QED
  BY <1>1, <1>2, <1>3, <1>4, <1>5, <1>6, <1>7, <1>8, <1>9, <1>10, <1>11, <1>12, <1>13,
     <1>14 DEF OtherThreads, NetStep, ServerStep, NetFault

(* What is said of the session holds at the start ... *)
LEMMA RestInit ==
    ASSUME Init
    PROVE  SessionInv
<1>1. /\ pending = <<>> /\ cur = "none" /\ evq = <<>> /\ mpc = "run" /\ net = "none"
      /\ ttsDone = FALSE /\ session = "IDLE"
  BY DEF Init, pending, EvInit, ClientInit, session_init
<1>2. Numbered
  BY <1>1 DEF Numbered, Queued
<1>3. ~Orphan(pending)
  BY <1>1 DEF Orphan
<1> QED
  BY <1>1, <1>2, <1>3 DEF SessionInv, SidInv, DoneInv, RestInv, Greeted

(* ... and every step keeps it. *)
LEMMA RestStep ==
    ASSUME SessionInv, EventInv, TeardownInv, TypeInv, [Next]_vars
    PROVE  SessionInv'
<1>1. Numbered'
  BY NumberedStep DEF SessionInv
<1>2. (Excused => Excused') /\ (stopReq => stopReq')
  BY ExcusedStays, StopStays
<1>3. pending \in Seq(Events) /\ pending' \in Seq(Events)
  BY PendingType
<1>4. CASE Next
  <2>1. refused => refused'
    BY <1>4, StepIsOperations DEF EvOp, event_queue_push, Pop, event_queue_pop, evVars
  <2>2. CASE MainStep
    BY <1>1, <1>2, <1>3, <2>1, <2>2, RestMain
  <2>3. CASE OtherThreads
    BY <1>1, <1>2, <1>3, <2>1, <2>3, RestOthers
  <2> QED
    BY <1>4, <2>2, <2>3 DEF Next, OtherThreads
<1>5. CASE UNCHANGED vars
  <2>1. /\ pending' = pending
        /\ UNCHANGED <<stopReq, refused, mpc, net, srv, unheard, session, sid, ttsDone>>
    BY <1>5 DEF vars, pending, evVars, mainVars, clientVars, appVars
  <2> QED
    BY <1>1, <2>1
    DEF SessionInv, Excused, SidInv, DoneInv, RestInv, Clearing, Greeted, Quiet, Identified
<1> QED
  BY <1>4, <1>5

(* So it always holds. *)
LEMMA SessionAlways == Spec => [](SessionInv /\ TypeInv)
<1>1. Init => SessionInv /\ EventInv /\ TeardownInv /\ TypeInv
  BY RestInit, EventInit, TypeInit, TeardownInit
<1>2. SessionInv /\ EventInv /\ TeardownInv /\ TypeInv /\ [Next]_vars => SessionInv'
  BY RestStep
<1>3. EventInv /\ TeardownInv /\ TypeInv /\ [Next]_vars => EventInv'
  BY EventStep
<1>4. TeardownInv /\ TypeInv /\ [Next]_vars => TeardownInv'
  BY TeardownStep
<1>5. TypeInv /\ [Next]_vars => TypeInv'
  BY TypeStep
<1> QED
  BY <1>1, <1>2, <1>3, <1>4, <1>5, PTL DEF Spec

(* A client that rests does so on an open connection, and is IDLE again    *)
(* only because the program is being stopped, whatever fails and whatever  *)
(* the server says: app_reset_to_idle, which takes an open socket for a    *)
(* finished handshake, is never called for a round of a connection that    *)
(* has gone, unless the ERROR of that is still on its way.                 *)
THEOREM RestsAreConnected == Spec => []RestIsConnected
<1>1. SessionInv /\ TypeInv => RestIsConnected
  <2> SUFFICES ASSUME SessionInv, TypeInv, ~ErrorPending
               PROVE  /\ session = "READY" => net = "open" \/ stopReq
                      /\ session = "IDLE" /\ mpc # "run" => stopReq
    BY DEF RestIsConnected
  <2>1. Quiet
    BY UnderWay DEF Quiet, ErrorPending
  <2> QED
    BY <2>1 DEF SessionInv, RestInv, ErrorPending
<1> QED
  BY <1>1, SessionAlways, PTL

(* With a server that gives every session an id, READY means besides that  *)
(* there is one, unless the hello of this connection came and could not be *)
(* read.  A hello without a session_id is excluded: the code takes it for a*)
(* handshake, and is READY with no id.                                     *)
THEOREM RestsAreGenuine ==
    ASSUME "nosid" \notin Faults
    PROVE  Spec => []RestIsGenuine
<1>1. SessionInv /\ TypeInv /\ RestIsConnected => RestIsGenuine
  <2> SUFFICES ASSUME SessionInv, TypeInv, ~ErrorPending
               PROVE  session = "READY" => sid \/ unheard
    BY DEF RestIsGenuine
  <2>1. Quiet
    BY UnderWay DEF Quiet, ErrorPending
  <2> QED
    BY <2>1 DEF SessionInv, RestInv, ErrorPending, Identified
<1> QED
  BY <1>1, SessionAlways, RestsAreConnected, PTL
=============================================================================
