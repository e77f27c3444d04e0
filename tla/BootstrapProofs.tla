--------------------------- MODULE BootstrapProofs ---------------------------
(***************************************************************************)
(* Proofs about the life of the process, for every size of the pipe, of    *)
(* the response buffer and of what curl writes.  Two inductive invariants  *)
(* carry them: OtaInv, what holds of ota_fetch and its child at each of    *)
(* its steps, and StageInv, what has been created at each point of main.   *)
(***************************************************************************)
EXTENDS Bootstrap, TLAPS

-----------------------------------------------------------------------------
(* ota_fetch and its child.                                                *)

Alive == {"fork", "curl"}

(* The descriptors.  The write end goes first, the read end when the loop  *)
(* ends, and both when fork fails.                                         *)
EndsInv ==
    /\ readEnd <=> ota \in {"fork", "shut", "read"}
    /\ writeEnd <=> ota \in {"fork", "shut"}

(* The child: there is none before fork; after a loop that came to the end *)
(* of the file it has ended; and it is left alone only when waitpid fails. *)
ChildInv ==
    /\ ota \in {"idle", "pipe", "fork"} => child = "none"
    /\ ota \in {"shut", "read", "reap"} => child \in Alive \cup {"zombie"}
    /\ ota = "wait" => child = "zombie"
    /\ ota \in {"judge", "parse", "ok"} => child = "reaped"
    /\ ota = "failed" => child \in {"none", "reaped"} \/ (child = "zombie" /\ err = "wait")
    /\ child \in {"none"} \cup Alive => status = "running"
    /\ ota \in {"parse", "ok"} => status = "ok"
    /\ ota # "failed" => err = "none"

(* The bytes: what is kept is what was written and is no longer in the     *)
(* pipe, up to the room; after the loop the pipe is empty.                 *)
Kept(n) == IF n < RespCap THEN n ELSE RespCap - 1

BytesInv ==
    /\ pipe <= produced
    /\ response = Kept(produced - pipe)
    /\ ota \in {"wait", "judge", "parse", "ok"} => pipe = 0

OtaInv == OtaTypeOK /\ EndsInv /\ ChildInv /\ BytesInv

-----------------------------------------------------------------------------
(* The stages of main.                                                     *)

Creating == {"client", "encoder", "decoder", "playback", "capture"}

(* The stages that follow a complete start. *)
Stopping == {"stopClient", "stopCapture", "stopPlayback",
             "freeEncoder", "freeDecoder", "freeClient"}

(* Activation, a complete start and a running client exclude stages.       *)
StageInv ==
    /\ pc \in {"main", "config", "queue", "ota", "merge", "mutex", "hung"} \cup Creating
          => ~app.modules /\ ~app.activation /\ ~app.started
    /\ app.modules => ~app.activation
    /\ pc = "run" /\ ~app.activation => app.modules
    /\ pc \in Stopping \cup {"loop"} => app.modules
    /\ app.started => app.modules
    /\ pc = "run" => ~app.started
    /\ pc = "exited" => ~app.modules
    /\ exit # -1 <=> pc = "exited"

(* At each stage of a process that has not ended: what is alive.  The      *)
(* configuration of a failed start is undone by nobody.                    *)
LiveInv ==
    pc # "exited" =>
    /\ "events" \in live <=> pc \notin {"main", "config", "queue", "hung"}
    /\ "dumpMutex" \in live <=>
          pc \in Creating \/ (app.modules /\ pc # "freeQueue")
    /\ "client" \in live <=>
          \/ pc \in Creating \ {"client"}
          \/ app.modules /\ pc \notin {"freeMutex", "freeQueue"}
    /\ "encoder" \in live <=>
          \/ pc \in {"decoder", "playback", "capture"}
          \/ app.modules /\ pc \in {"run", "loop", "destroy"} \cup (Stopping \ {"freeDecoder", "freeClient"})
    /\ "decoder" \in live <=>
          \/ pc \in {"playback", "capture"}
          \/ app.modules /\ pc \in {"run", "loop", "destroy"} \cup (Stopping \ {"freeClient"})
    /\ "playback" \in live <=>
          \/ pc = "capture"
          \/ app.modules /\ pc \in {"run", "loop", "destroy", "stopClient", "stopCapture", "stopPlayback"}
    /\ "capture" \in live <=>
          app.modules /\ pc \in {"run", "loop", "destroy", "stopClient", "stopCapture"}
    /\ "network" \in live <=>
          app.started /\ pc \in {"loop", "destroy", "stopClient"}

(* The verdict of the OTA request governs everything behind it.            *)
Told == ota = "ok" /\ ~reply.code /\ app.url = IF reply.url THEN "ota" ELSE "config"

ToldInv ==
    /\ pc \in {"main", "config", "queue", "hung"} => ota = "idle"
    /\ pc \in {"main", "config", "queue", "ota", "merge"} => app.url \in {"none", "config"}
    /\ pc = "merge" => ota = "ok"
    /\ pc \in {"mutex"} \cup Creating \/ app.modules => Told

(* A process that has ended.                                               *)
EndInv == exit = 0 => live = {}
LeftInv == pc = "exited" => "network" \notin live /\ (live # {} => exit = 1)

MainInv == StageInv /\ LiveInv /\ ToldInv /\ EndInv /\ LeftInv

-----------------------------------------------------------------------------
(* Everything that changes ota_fetch or its child.                         *)

Killed == ChildKilled /\ UNCHANGED <<ota, readEnd, writeEnd, response, reply, err>>

OtaStep == ota_fetch \/ Parent \/ ParentFails \/ Child \/ Killed

(* A unit read is kept if there is room for it and the zero.               *)
LEMMA OneMoreKept ==
    ASSUME NEW n \in Nat
    PROVE  /\ Kept(n) \in 0..RespCap-1
           /\ Kept(n + 1) = IF Kept(n) < RespCap - 1 THEN Kept(n) + 1 ELSE Kept(n)
<1>1. RespCap \in Nat \ {0}
    BY OtaAssumption
<1> QED BY <1>1 DEF Kept

(* The descriptors and the child are what the step of ota_fetch says.      *)
LEMMA OtaEndsPreserved ==
    ASSUME OtaTypeOK, EndsInv, ChildInv, OtaStep
    PROVE  EndsInv' /\ ChildInv'
<1> USE DEF EndsInv, ChildInv, Alive, OtaTypeOK
<1>1. CASE ota_fetch
    BY <1>1 DEF ota_fetch, Fail, childVars, ota_build_request_json
<1>2. CASE MakePipe
    BY <1>2 DEF MakePipe, Fail, childVars
<1>3. CASE Fork
    BY <1>3 DEF Fork, Fail
<1>4. CASE CloseWriteEnd
    BY <1>4 DEF CloseWriteEnd, Step, childVars
<1>5. CASE Read
    BY <1>5 DEF Read, childVars
<1>6. CASE ReadEnd
    BY <1>6 DEF ReadEnd, Step, childVars
<1>7. CASE Reap
    BY <1>7 DEF Reap, Fail
<1>8. CASE Wait
    BY <1>8 DEF Wait
<1>9. CASE Judge
    BY <1>9 DEF Judge, Fail, childVars, Statuses
<1>10. CASE ota_parse_response
    BY <1>10 DEF ota_parse_response, Fail, childVars
<1>11. CASE ReadFails
    BY <1>11 DEF ReadFails, Step, childVars
<1>12. CASE WaitFails
    BY <1>12 DEF WaitFails, Fail, childVars
<1>13. CASE Exec
    BY <1>13 DEF Exec, OnlyChild
<1>14. CASE ChildWrites
    BY <1>14 DEF ChildWrites, OnlyChild
<1>15. CASE ChildExits
    BY <1>15 DEF ChildExits, OnlyChild
<1>16. CASE Killed
    BY <1>16 DEF Killed, ChildKilled, childVars
<1> HIDE DEF EndsInv, ChildInv, Alive, OtaTypeOK
<1> QED BY <1>1, <1>2, <1>3, <1>4, <1>5, <1>6, <1>7, <1>8, <1>9, <1>10,
           <1>11, <1>12, <1>13, <1>14, <1>15, <1>16
        DEF OtaStep, Parent, ParentFails, Child

(* Every unit that leaves the pipe is kept while there is room.            *)
LEMMA BytesPreserved ==
    ASSUME OtaTypeOK, ChildInv, BytesInv, OtaStep
    PROVE  OtaTypeOK' /\ BytesInv'
<1> USE DEF OtaTypeOK, BytesInv
<1>t. /\ PipeCap \in Nat \ {0} /\ RespCap \in Nat \ {0} /\ MaxOut \in Nat
      /\ pipe \in Nat /\ produced \in Nat /\ response \in Nat
    BY OtaAssumption
<1>1. CASE ota_fetch
    BY <1>1, <1>t DEF ota_fetch, Fail, childVars, ota_build_request_json
<1>2. CASE MakePipe
    BY <1>2, <1>t DEF MakePipe, Fail, childVars
<1>3. CASE Fork
    BY <1>3, <1>t DEF Fork, Fail
<1>4. CASE CloseWriteEnd
    BY <1>4, <1>t DEF CloseWriteEnd, Step, childVars
<1>5. CASE Read
  <2>1. produced - pipe \in Nat
      BY <1>t
  <2>2. /\ produced' = produced /\ pipe' = pipe - 1 /\ pipe > 0
        /\ produced' - pipe' = (produced - pipe) + 1
      BY <1>5, <1>t DEF Read, childVars
  <2>3. response' = Kept((produced - pipe) + 1)
      BY <1>5, <2>1, OneMoreKept DEF Read
  <2>4. Kept((produced - pipe) + 1) \in 0..RespCap-1
      BY <2>1, OneMoreKept
  <2> QED BY <1>5, <1>t, <2>2, <2>3, <2>4 DEF Read, childVars
<1>6. CASE ReadEnd
    BY <1>6, <1>t DEF ReadEnd, Step, childVars
<1>7. CASE Reap
    BY <1>7, <1>t DEF Reap, Fail
<1>8. CASE Wait
    BY <1>8, <1>t DEF Wait
<1>9. CASE Judge
    BY <1>9, <1>t DEF Judge, Fail, childVars
<1>10. CASE ota_parse_response
  <2>1. NoReply \in Replies
      BY DEF NoReply, Replies
  <2>2. reply' \in Replies
      BY <1>10, <2>1 DEF ota_parse_response
  <2> QED BY <1>10, <1>t, <2>2 DEF ota_parse_response, Fail, childVars
<1>11. CASE ReadFails
    BY <1>11, <1>t DEF ReadFails, Step, childVars
<1>12. CASE WaitFails
    BY <1>12, <1>t DEF WaitFails, Fail, childVars
<1>13. CASE Exec
    BY <1>13, <1>t DEF Exec, OnlyChild, Statuses
<1>14. CASE ChildWrites
  <2>1. child = "curl" /\ ota \notin {"wait", "judge", "parse", "ok"}
      BY <1>14 DEF ChildWrites, ChildInv
  <2>2. CASE readEnd
    <3>1. /\ pipe' = pipe + 1 /\ produced' = produced + 1
          /\ pipe < PipeCap /\ produced < MaxOut
          /\ produced' - pipe' = produced - pipe
        BY <1>14, <2>2, <1>t DEF ChildWrites
    <3> QED BY <1>14, <2>1, <2>2, <3>1, <1>t DEF ChildWrites, OnlyChild
  <2>3. CASE ~readEnd
      BY <1>14, <2>1, <2>3, <1>t DEF ChildWrites, OnlyChild, Statuses
  <2> QED BY <2>2, <2>3
<1>15. CASE ChildExits
    BY <1>15, <1>t DEF ChildExits, OnlyChild, Statuses
<1>16. CASE Killed
    BY <1>16, <1>t DEF Killed, ChildKilled, childVars, Statuses
<1> HIDE DEF OtaTypeOK, BytesInv
<1> QED BY <1>1, <1>2, <1>3, <1>4, <1>5, <1>6, <1>7, <1>8, <1>9, <1>10,
           <1>11, <1>12, <1>13, <1>14, <1>15, <1>16
        DEF OtaStep, Parent, ParentFails, Child

(* Every step of ota_fetch, of its child and of the signal keeps OtaInv. *)
LEMMA OtaPreserved ==
    ASSUME OtaInv, OtaStep \/ UNCHANGED otaVars
    PROVE  OtaInv'
<1>1. CASE OtaStep
    BY <1>1, OtaEndsPreserved, BytesPreserved DEF OtaInv
<1>2. CASE UNCHANGED otaVars
    BY <1>2 DEF OtaInv, OtaTypeOK, EndsInv, ChildInv, BytesInv, otaVars
<1> QED BY <1>1, <1>2

(* OtaInv holds before the fetch. *)
LEMMA OtaInitially == OtaInit => OtaInv
<1>1. RespCap \in Nat \ {0} /\ PipeCap \in Nat /\ MaxOut \in Nat
    BY OtaAssumption
<1>2. NoReply \in Replies
    BY DEF NoReply, Replies
<1>3. Kept(0) = 0
    BY <1>1 DEF Kept
<1> SUFFICES ASSUME OtaInit PROVE OtaInv
    OBVIOUS
<1>4. EndsInv /\ ChildInv
    BY DEF OtaInit, EndsInv, ChildInv, Alive
<1>5. OtaTypeOK
  <2>1. 0 \in 0..PipeCap /\ 0 \in 0..MaxOut /\ 0 \in 0..RespCap-1
      BY <1>1
  <2> QED BY <1>2, <2>1 DEF OtaInit, OtaTypeOK, Statuses
<1>6. BytesInv
    BY <1>1, <1>3 DEF OtaInit, BytesInv
<1> QED BY <1>4, <1>5, <1>6 DEF OtaInv

-----------------------------------------------------------------------------
(* Every step of the process is a step of ota_fetch or its child, or       *)
(* leaves both alone; and it is one of main while ota_fetch stands still,  *)
(* one of ota_fetch while main is at "ota", or one of the world's.         *)

MainAlone ==
    \/ app_init \/ LoadConfig \/ InitQueue \/ OtaFails \/ OtaDone
    \/ app_bootstrap_ota \/ CreateFails \/ InitDumpMutex \/ InitClient
    \/ InitEncoder \/ InitDecoder \/ InitPlayback \/ InitCapture
    \/ RunRefused \/ RunStarts \/ RunEnds \/ RunHandles
    \/ app_destroy \/ StopClient \/ StopCapture \/ StopPlayback
    \/ FreeEncoder \/ FreeDecoder \/ FreeClient \/ FreeDumpMutex \/ FreeQueue

OtaRuns == CallOta \/ RunOta \/ OtaTrouble

(* Who moves. *)
LEMMA NextSplits == Next => MainAlone \/ OtaRuns \/ ChildStep \/ Interrupt
    BY DEF Next, Main, MainAlone, OtaRuns

(* The steps of main outside ota_fetch leave it alone ... *)
LEMMA MainLeavesOtaAlone == MainAlone => UNCHANGED otaVars
    BY DEF MainAlone, app_init, LoadConfig, InitQueue, OtaFails, OtaDone,
           app_bootstrap_ota, CreateFails, InitDumpMutex, InitClient,
           InitEncoder, InitDecoder, InitPlayback, InitCapture, Created,
           RunRefused, RunStarts, RunEnds, RunHandles, app_destroy, StopClient,
           StopCapture, StopPlayback, FreeEncoder, FreeDecoder, FreeClient,
           FreeDumpMutex, FreeQueue, Destroyed, NoOta

(* ... so that every step of the process keeps OtaInv. *)
LEMMA OtaMaintained ==
    ASSUME OtaInv, [Next]_vars
    PROVE  OtaInv'
<1>1. CASE MainAlone
    BY <1>1, MainLeavesOtaAlone, OtaPreserved
<1>2. CASE OtaRuns
    BY <1>2, OtaPreserved DEF OtaRuns, CallOta, RunOta, OtaTrouble, OtaStep
<1>3. CASE ChildStep
    BY <1>3, OtaPreserved DEF ChildStep, OtaStep
<1>4. CASE Interrupt
  <2>1. Killed
      BY <1>4 DEF Interrupt, Killed
  <2> QED BY <2>1, OtaPreserved DEF OtaStep
<1>5. CASE UNCHANGED vars
    BY <1>5, OtaPreserved DEF vars
<1> QED BY <1>1, <1>2, <1>3, <1>4, <1>5, NextSplits

-----------------------------------------------------------------------------
(* The stages.                                                             *)

(* The part of TypeOK that is about main.                                  *)
MainTypeOK ==
    /\ pc \in PCs
    /\ app \in [stop : BOOLEAN, check : BOOLEAN, url : {"none", "config", "ota"},
                initialized : BOOLEAN, activation : BOOLEAN,
                modules : BOOLEAN, started : BOOLEAN]
    /\ live \subseteq Things
    /\ exit \in {-1, 0, 1}
    /\ interrupted \in BOOLEAN

(* The types of ota_fetch and those of main. *)
LEMMA TypeSplits == TypeOK <=> OtaTypeOK /\ MainTypeOK
    BY DEF TypeOK, MainTypeOK

(* What the stages say, of the fields they are about.                      *)
Inv == MainTypeOK /\ MainInv

(* The start up to the answer of ota_fetch keeps the invariant. *)
LEMMA StartPreserved ==
    ASSUME OtaInv, Inv, app_init \/ LoadConfig \/ InitQueue \/ OtaFails \/ OtaDone
    PROVE  Inv'
<1> USE DEF Inv, MainTypeOK, MainInv, StageInv, LiveInv, ToldInv, EndInv, LeftInv, Creating, Stopping, Told
<1>1. CASE app_init
    BY <1>1 DEF app_init, Goto, NoOta, Going, otaVars, Zeroed, PCs
<1>2. CASE LoadConfig
    BY <1>2 DEF LoadConfig, config_load_file, Exit, NoOta, Going, otaVars, PCs
<1>3. CASE InitQueue
  <2>1. CASE Exit(1) /\ Still
      BY <1>3, <2>1 DEF InitQueue, Exit, Still, NoOta, otaVars, PCs
  <2>2. CASE exit' = exit
    <3>1. /\ app' = [app EXCEPT !.initialized = TRUE]
          /\ live' = live \cup {"events"} /\ pc' \in {"destroy", "ota"}
        BY <1>3, <2>2 DEF InitQueue, Exit
    <3>2. live' \subseteq Things /\ live = {}
        BY <1>3, <3>1 DEF InitQueue, Things, Threads
    <3>3. /\ app'.modules = app.modules /\ app'.activation = app.activation
          /\ app'.started = app.started /\ app'.url = app.url
        BY <3>1
    <3>4. MainTypeOK'
        BY <1>3, <2>2, <3>1, <3>2 DEF InitQueue, PCs
    <3> QED BY <1>3, <2>2, <3>1, <3>2, <3>3, <3>4 DEF InitQueue, NoOta, otaVars
  <2> QED BY <1>3, <2>1, <2>2 DEF InitQueue
<1>4. CASE OtaFails
    BY <1>4 DEF OtaFails, Exit, Still, NoOta, otaVars, PCs
<1>5. CASE OtaDone
    BY <1>5 DEF OtaDone, Goto, Going, Still, NoOta, otaVars, PCs
<1> HIDE DEF Inv
<1> QED BY <1>1, <1>2, <1>3, <1>4, <1>5

(* A configured server or one that the reply names lets the start go on;   *)
(* a code leads to a run that ends at once.                                *)
LEMMA MergePreserved ==
    ASSUME OtaInv, Inv, app_bootstrap_ota
    PROVE  Inv'
<1> USE DEF Inv, MainTypeOK, MainInv
<1>1. /\ ServerUrl \in {"none", "config", "ota"}
      /\ ActivationRequired \in BOOLEAN
      /\ ServerUrl # "none" => ServerUrl = IF reply.url THEN "ota" ELSE "config"
    BY DEF OtaInv, OtaTypeOK, Replies, ServerUrl, ActivationRequired, ToldInv,
           app_bootstrap_ota
<1>2. /\ pc = "merge" /\ pc' \in {"run", "mutex", "exited"}
      /\ app'.url = ServerUrl /\ app'.activation = ActivationRequired
      /\ app'.modules = app.modules /\ app'.started = app.started
      /\ app' \in [stop : BOOLEAN, check : BOOLEAN, url : {"none", "config", "ota"},
                   initialized : BOOLEAN, activation : BOOLEAN,
                   modules : BOOLEAN, started : BOOLEAN]
      /\ live' = live /\ interrupted' = interrupted /\ ota' = ota /\ reply' = reply
    BY <1>1 DEF app_bootstrap_ota, Exit, NoOta, otaVars
<1>3. CASE ActivationRequired
    BY <1>1, <1>2, <1>3
       DEF app_bootstrap_ota, StageInv, LiveInv, ToldInv, EndInv, LeftInv,
           Creating, Stopping, Told, PCs, ActivationRequired
<1>4. CASE ~ActivationRequired
  <2>1. \/ pc' = "exited" /\ exit' = 1
        \/ pc' = "mutex" /\ exit' = exit /\ ServerUrl # "none"
      BY <1>4 DEF app_bootstrap_ota, Exit
  <2> QED BY <1>1, <1>2, <1>4, <2>1
       DEF StageInv, LiveInv, ToldInv, EndInv, LeftInv,
           Creating, Stopping, Told, PCs, ActivationRequired
<1> QED BY <1>3, <1>4

(* app_init_runtime_modules adds one thing after the other.                *)
LEMMA CreationPreserved ==
    ASSUME OtaInv, Inv,
           \/ CreateFails \/ InitDumpMutex \/ InitClient \/ InitEncoder
           \/ InitDecoder \/ InitPlayback \/ InitCapture
    PROVE  Inv'
<1> USE DEF Inv, MainTypeOK, MainInv, StageInv, LiveInv, ToldInv, EndInv, LeftInv, Creating, Stopping, Told
<1>1. CASE CreateFails
    BY <1>1 DEF CreateFails, Exit, Still, NoOta, otaVars, PCs
<1>2. CASE InitDumpMutex
    BY <1>2 DEF InitDumpMutex, Created, Goto, NoOta, Going, otaVars, PCs, Things, Threads
<1>3. CASE InitClient
    BY <1>3 DEF InitClient, Created, Goto, NoOta, Going, otaVars, PCs, Things, Threads
<1>4. CASE InitEncoder
    BY <1>4 DEF InitEncoder, Created, Goto, NoOta, Going, otaVars, PCs, Things, Threads
<1>5. CASE InitDecoder
    BY <1>5 DEF InitDecoder, Created, Goto, NoOta, Going, otaVars, PCs, Things, Threads
<1>6. CASE InitPlayback
    BY <1>6 DEF InitPlayback, Created, Goto, NoOta, Going, otaVars, PCs, Things, Threads
<1>7. CASE InitCapture
    BY <1>7 DEF InitCapture, Goto, NoOta, Going, otaVars, PCs, Things, Threads
<1> HIDE DEF Inv
<1> QED BY <1>1, <1>2, <1>3, <1>4, <1>5, <1>6, <1>7

(* The client's thread comes and goes with ws_started.                     *)
LEMMA RunPreserved ==
    ASSUME OtaInv, Inv, RunRefused \/ RunStarts \/ RunHandles \/ RunEnds
    PROVE  Inv'
<1> USE DEF Inv, MainTypeOK, MainInv, StageInv, LiveInv, ToldInv, EndInv, LeftInv, Creating, Stopping, Told
<1>1. CASE RunRefused
    BY <1>1 DEF RunRefused, Goto, Still, NoOta, otaVars, PCs
<1>2. CASE RunStarts
    BY <1>2 DEF RunStarts, Goto, Still, NoOta, Going, otaVars, PCs, Things, Threads
<1>3. CASE RunHandles
  <2>1. /\ pc = "loop" /\ UNCHANGED <<pc, exit, interrupted, ota, reply>>
        /\ app.modules /\ app \in [stop : BOOLEAN, check : BOOLEAN, url : {"none", "config", "ota"},
                                  initialized : BOOLEAN, activation : BOOLEAN,
                                  modules : BOOLEAN, started : BOOLEAN]
      BY <1>3 DEF RunHandles, NoOta, Going, otaVars
  <2>2. CASE app' = [app EXCEPT !.stop = TRUE] /\ UNCHANGED live
      BY <2>1, <2>2
  <2>3. CASE /\ app' = [app EXCEPT !.started = ~@]
             /\ live' = IF app.started THEN live \ {"network"} ELSE live \cup {"network"}
    <3>1. live' \subseteq Things /\ \A x : x # "network" => (x \in live' <=> x \in live)
        BY <2>3 DEF Things, Threads
    <3>2. "network" \in live' <=> app'.started
        BY <2>1, <2>3
    <3>3. /\ app' \in [stop : BOOLEAN, check : BOOLEAN, url : {"none", "config", "ota"},
                        initialized : BOOLEAN, activation : BOOLEAN,
                        modules : BOOLEAN, started : BOOLEAN]
          /\ app'.modules = app.modules /\ app'.activation = app.activation /\ app'.url = app.url
        BY <2>1, <2>3
    <3> QED BY <2>1, <3>1, <3>2, <3>3
  <2> QED BY <1>3, <2>2, <2>3 DEF RunHandles
<1>4. CASE RunEnds
    BY <1>4 DEF RunEnds, Goto, Still, NoOta, Going, otaVars, PCs
<1> HIDE DEF Inv
<1> QED BY <1>1, <1>2, <1>3, <1>4

(* app_destroy takes it all away in order.                                 *)
LEMMA DestroyPreserved ==
    ASSUME OtaInv, Inv,
           \/ app_destroy \/ StopClient \/ StopCapture \/ StopPlayback
           \/ FreeEncoder \/ FreeDecoder \/ FreeClient \/ FreeDumpMutex
           \/ FreeQueue
    PROVE  Inv'
<1> USE DEF Inv, MainTypeOK, MainInv, StageInv, LiveInv, ToldInv, EndInv, LeftInv, Creating, Stopping, Told
<1>1. CASE app_destroy
    BY <1>1 DEF app_destroy, Goto, Still, NoOta, Going, otaVars, PCs
<1>2. CASE StopClient
    BY <1>2 DEF StopClient, Goto, NoOta, Going, otaVars, PCs
<1>3. CASE StopCapture
    BY <1>3 DEF StopCapture, Destroyed, Goto, NoOta, Going, otaVars, PCs
<1>4. CASE StopPlayback
    BY <1>4 DEF StopPlayback, Destroyed, Goto, NoOta, Going, otaVars, PCs
<1>5. CASE FreeEncoder
    BY <1>5 DEF FreeEncoder, Destroyed, Goto, NoOta, Going, otaVars, PCs
<1>6. CASE FreeDecoder
    BY <1>6 DEF FreeDecoder, Destroyed, Goto, NoOta, Going, otaVars, PCs
<1>7. CASE FreeClient
    BY <1>7 DEF FreeClient, Destroyed, Goto, NoOta, Going, otaVars, PCs
<1>8. CASE FreeDumpMutex
    BY <1>8 DEF FreeDumpMutex, Destroyed, Goto, NoOta, Going, otaVars, PCs
<1>9. CASE FreeQueue
  <2>1. live' = {}
      BY <1>9 DEF FreeQueue, Things, Threads
  <2> QED BY <1>9, <2>1 DEF FreeQueue, Exit, NoOta, otaVars, PCs, Zeroed
<1> HIDE DEF Inv
<1> QED BY <1>1, <1>2, <1>3, <1>4, <1>5, <1>6, <1>7, <1>8, <1>9

(* ota_fetch, its child and the handler touch none of it.                  *)
LEMMA OthersPreserve ==
    ASSUME OtaInv, Inv, OtaRuns \/ ChildStep \/ Interrupt \/ UNCHANGED vars
    PROVE  Inv'
<1> USE DEF Inv, MainTypeOK, MainInv, StageInv, LiveInv, ToldInv, EndInv, LeftInv, Creating, Stopping, Told
<1>1. CASE OtaRuns
  <2>1. UNCHANGED <<pc, exit, interrupted, app, live>> /\ pc = "ota"
      BY <1>1 DEF OtaRuns, CallOta, RunOta, OtaTrouble, Still
  <2> QED BY <2>1
<1>2. CASE ChildStep
  <2>1. UNCHANGED <<pc, app, live, exit, interrupted, ota, reply>>
      BY <1>2 DEF ChildStep, Child, Exec, ChildWrites, ChildExits, OnlyChild
  <2> QED BY <2>1
<1>3. CASE Interrupt
  <2>1. UNCHANGED <<ota, reply, live, exit>> /\ interrupted' = TRUE
      BY <1>3 DEF Interrupt
  <2>2. CASE pc = "main" /\ pc' \in {"main", "hung"} /\ UNCHANGED app
      BY <2>1, <2>2 DEF PCs
  <2>3. CASE pc # "main" /\ app' = [app EXCEPT !.stop = TRUE] /\ UNCHANGED pc
    <3>1. /\ app' \in [stop : BOOLEAN, check : BOOLEAN, url : {"none", "config", "ota"},
                        initialized : BOOLEAN, activation : BOOLEAN,
                        modules : BOOLEAN, started : BOOLEAN]
          /\ app'.modules = app.modules /\ app'.activation = app.activation
          /\ app'.url = app.url /\ app'.started = app.started
        BY <2>3
    <3> QED BY <2>1, <2>3, <3>1
  <2> QED BY <1>3, <2>2, <2>3 DEF Interrupt
<1>4. CASE UNCHANGED vars
    BY <1>4 DEF vars, otaVars
<1> HIDE DEF Inv
<1> QED BY <1>1, <1>2, <1>3, <1>4

(* Both invariants hold at the start ... *)
LEMMA Initially == Init => OtaInv /\ Inv
<1> SUFFICES ASSUME Init PROVE OtaInv /\ Inv
    OBVIOUS
<1>1. OtaInv
    BY OtaInitially DEF Init
<1>2. MainTypeOK
    BY DEF Init, MainTypeOK, PCs, Zeroed
<1>3. MainInv
    BY DEF Init, OtaInit, Zeroed, MainInv, StageInv, LiveInv, ToldInv, EndInv,
           LeftInv, Creating, Stopping
<1> QED BY <1>1, <1>2, <1>3 DEF Inv

(* ... and every step keeps them ... *)
LEMMA Maintained ==
    ASSUME OtaInv, Inv, [Next]_vars
    PROVE  OtaInv' /\ Inv'
<1>1. OtaInv'
    BY OtaMaintained
<1>2. CASE MainAlone
    BY <1>1, <1>2, StartPreserved, MergePreserved, CreationPreserved, RunPreserved,
       DestroyPreserved DEF MainAlone
<1>3. CASE ~MainAlone
    BY <1>1, <1>3, NextSplits, OthersPreserve
<1> QED BY <1>2, <1>3

(* The process as far as safety goes.                                      *)
LEMMA SpecIsSafe == Spec => Init /\ [][Next]_vars
    BY PTL DEF Spec

(* ... so that they hold of the process at any time, from main to its      *)
(* exit.                                                                   *)
THEOREM Inductive == Spec => [](OtaInv /\ Inv)
<1>1. Init => OtaInv /\ Inv
    BY Initially
<1>2. OtaInv /\ Inv /\ [Next]_vars => (OtaInv /\ Inv)'
    BY Maintained
<1> QED BY <1>1, <1>2, SpecIsSafe, PTL

-----------------------------------------------------------------------------
(* The fields of app_runtime_t, the stages of main and of ota_fetch, the   *)
(* counts of bytes stay what they are declared as.                         *)
THEOREM TypeCorrect == Spec => []TypeOK
<1>1. OtaInv /\ Inv => TypeOK
    BY TypeSplits DEF OtaInv, Inv
<1> QED BY <1>1, Inductive, PTL

(* At every stage of app_init, app_run and app_destroy, of a start that    *)
(* fails and of one that Ctrl+C breaks off, each thread that runs finds    *)
(* the queue, the client, the codecs and the ring it uses.                 *)
THEOREM ThreadsAreBacked == Spec => []ThreadsBacked
<1>1. Inv => ThreadsBacked
  <2> SUFFICES ASSUME Inv, pc # "exited", NEW t \in Threads \cap live
               PROVE  Uses[t] \subseteq live
      BY DEF ThreadsBacked
  <2> USE DEF Inv, MainInv, StageInv, LiveInv, Creating, Stopping
  <2>1. CASE t = "network"
      BY <2>1 DEF Uses
  <2>2. CASE t = "playback"
      BY <2>2 DEF Uses
  <2>3. CASE t = "capture"
      BY <2>3 DEF Uses
  <2> QED BY <2>1, <2>2, <2>3 DEF Threads
<1> QED BY <1>1, Inductive, PTL

(* The client is started only after an OTA reply without an activation     *)
(* code, and with the server that reply names, or the configured one.      *)
THEOREM ConnectsOnlyWhenTold == Spec => []ConnectsWhenTold
<1>1. Inv => ConnectsWhenTold
    BY DEF Inv, MainTypeOK, MainInv, StageInv, LiveInv, ToldInv, Told,
           ConnectsWhenTold, EndInv, LeftInv
<1> QED BY <1>1, Inductive, PTL

(* ota_fetch returns with its descriptors closed and its child waited for  *)
(* unless waitpid itself failed; main returns 0 with nothing left alive,   *)
(* and what a failed start leaves alive goes with an exit status of 1.     *)
THEOREM GivenBack == Spec => []GivesBack
<1>1. OtaInv => NothingLeftOpen
    BY DEF OtaInv, EndsInv, ChildInv, NothingLeftOpen
<1>2. Inv => CleanExit
    BY DEF Inv, MainInv, StageInv, EndInv, LeftInv, CleanExit
<1> QED BY <1>1, <1>2, Inductive, PTL DEF GivesBack

-----------------------------------------------------------------------------
(* Who may kill curl: it writes to a pipe that nobody reads only after the *)
(* read has failed, and from there ota_fetch goes to its verdict.          *)
LEMMA KillMaintained ==
    ASSUME OtaInv, CurlNotCutOff, [Next]_vars
    PROVE  CurlNotCutOff'
<1> USE DEF CurlNotCutOff
<1>o. EndsInv /\ ChildInv /\ (child \in Alive => ota \in {"shut", "read", "reap"})
    BY DEF OtaInv, OtaTypeOK, ChildInv, Alive
<1>1. CASE MainAlone \/ UNCHANGED vars
  <2>1. UNCHANGED <<ota, status, err>>
      BY <1>1, MainLeavesOtaAlone DEF vars, otaVars
  <2>2. interrupted' = interrupted
      BY <1>1 DEF vars, MainAlone, app_init, LoadConfig, InitQueue, OtaFails,
           OtaDone, app_bootstrap_ota, CreateFails, InitDumpMutex, InitClient,
           InitEncoder, InitDecoder, InitPlayback, InitCapture, Created,
           RunRefused, RunStarts, RunEnds, RunHandles, app_destroy, StopClient,
           StopCapture, StopPlayback, FreeEncoder, FreeDecoder, FreeClient,
           FreeDumpMutex, FreeQueue, Destroyed, Going
  <2> QED BY <2>1, <2>2
<1>2. CASE OtaRuns
  <2>1. interrupted' = interrupted /\ status' = status
      BY <1>2 DEF OtaRuns, CallOta, RunOta, OtaTrouble, ota_fetch, Parent,
           ParentFails, MakePipe, Fork, CloseWriteEnd, Read, ReadEnd, Reap,
           Wait, Judge, ota_parse_response, ReadFails, WaitFails, childVars
  <2>2. CASE ota = "reap"
      BY <1>2, <2>2
         DEF OtaRuns, CallOta, RunOta, OtaTrouble, ota_fetch, Parent,
           ParentFails, MakePipe, Fork, CloseWriteEnd, Read, ReadEnd, Reap,
           Wait, Judge, ota_parse_response, ReadFails, WaitFails, Step, Fail
  <2>3. CASE ota # "reap"
    <3>1. err = "read" => ota = "failed"
        BY <1>o DEF ChildInv
    <3>2. ota # "failed"
        BY <1>2 DEF OtaRuns, CallOta, RunOta, OtaTrouble, ota_fetch, Parent,
             ParentFails, MakePipe, Fork, CloseWriteEnd, Read, ReadEnd, Reap,
             Wait, Judge, ota_parse_response, ReadFails, WaitFails, Step
    <3> QED BY <2>1, <2>3, <3>1, <3>2
  <2> QED BY <2>2, <2>3
<1>3. CASE ChildStep
  <2>1. UNCHANGED <<ota, err, interrupted>>
      BY <1>3 DEF ChildStep, Child, Exec, ChildWrites, ChildExits, OnlyChild
  <2>2. CASE ChildWrites
      BY <1>o, <2>1, <2>2 DEF ChildWrites, EndsInv, Alive
  <2>3. CASE Exec \/ ChildExits
      BY <2>1, <2>3 DEF Exec, ChildExits
  <2> QED BY <1>3, <2>2, <2>3 DEF ChildStep, Child
<1>4. CASE Interrupt
    BY <1>4 DEF Interrupt
<1> QED BY <1>1, <1>2, <1>3, <1>4, NextSplits

(* A verdict of "ok" is given to a curl that ended well, was waited for    *)
(* and whose output was kept to the last byte there is room for; and curl  *)
(* is killed by nothing but Ctrl+C or an error of the read.                *)
THEOREM VerdictIsSound == Spec => []VerdictSound
<1>1. OtaInv => VerdictTrue
  <2> SUFFICES ASSUME OtaInv, ota = "ok" PROVE VerdictTrue
      BY DEF VerdictTrue
  <2>1. pipe = 0 /\ produced \in Nat /\ response = Kept(produced - pipe)
      BY OtaAssumption DEF OtaInv, OtaTypeOK, BytesInv
  <2>2. response = Kept(produced)
      BY <2>1
  <2> QED BY <2>2 DEF OtaInv, ChildInv, VerdictTrue, Kept
<1>2. Init => CurlNotCutOff
    BY DEF Init, OtaInit, CurlNotCutOff
<1>3. OtaInv /\ CurlNotCutOff /\ [Next]_vars => CurlNotCutOff'
    BY KillMaintained
<1>4. Spec => []OtaInv
    BY Inductive, PTL
<1>5. Spec => []CurlNotCutOff
    BY <1>2, <1>3, <1>4, SpecIsSafe, PTL
<1> QED BY <1>1, <1>4, <1>5, PTL DEF VerdictSound
=============================================================================
