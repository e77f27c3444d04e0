------------------------------ MODULE Bootstrap ------------------------------
(***************************************************************************)
(* The life of the process: main of src/main.c, app_init with its OTA      *)
(* bootstrap and app_init_runtime_modules, the entry and the end of        *)
(* app_run, and app_destroy, with a Ctrl+C that may come at any time.      *)
(* What the running program does in between is AppRuntime.                 *)
(***************************************************************************)
EXTENDS OtaFetch, FiniteSets

VARIABLES pc,           \* where the main thread is
          app,          \* the fields of app_runtime_t that bear on the start
          live,         \* what has been created and not destroyed
          exit,         \* main's return value, or -1
          interrupted   \* history: Ctrl+C has come

vars == <<otaVars, pc, app, live, exit, interrupted>>

(* The threads, and what else app_init creates. *)
Threads == {"network", "playback", "capture"}
Things == {"events", "dumpMutex", "client", "encoder", "decoder"} \cup Threads

(* What a thread uses while it runs; "playback" is also the ring the       *)
(* network thread enqueues to.                                             *)
Uses == [network  |-> {"events", "client", "decoder", "playback"},
         playback |-> {"events"},
         capture  |-> {"events", "client", "encoder", "dumpMutex"}]

(* A zeroed app_runtime_t; "none" is the empty string. *)
Zeroed == [stop |-> FALSE, check |-> FALSE, url |-> "none", initialized |-> FALSE,
           activation |-> FALSE, modules |-> FALSE, started |-> FALSE]

PCs == { "main",        \* handler installed, app is whatever the stack held
         "config", "queue", "ota", "merge",
         "mutex", "client", "encoder", "decoder", "playback", "capture",
         "run",         \* app_run entered
         "loop",        \* its event loop
         "destroy", "stopClient", "stopCapture", "stopPlayback",
         "freeEncoder", "freeDecoder", "freeClient", "freeMutex", "freeQueue",
         "exited",      \* main has returned
         "hung" }       \* the handler waits for a mutex that never was

TypeOK ==
    /\ OtaTypeOK
    /\ pc \in PCs
    /\ app \in [stop : BOOLEAN, check : BOOLEAN, url : {"none", "config", "ota"},
                initialized : BOOLEAN, activation : BOOLEAN,
                modules : BOOLEAN, started : BOOLEAN]
    /\ live \subseteq Things
    /\ exit \in {-1, 0, 1}
    /\ interrupted \in BOOLEAN

Init ==
    /\ OtaInit
    /\ pc = "main" /\ app = Zeroed /\ live = {}
    /\ exit = -1 /\ interrupted = FALSE

Goto(a, b) == pc = a /\ pc' = b
NoOta == UNCHANGED otaVars
Still == UNCHANGED <<app, live>>
Exit(code) == pc' = "exited" /\ exit' = code
Going == UNCHANGED <<exit, interrupted>>

-----------------------------------------------------------------------------
(* app_init                                                                *)

(* main calls it with or without --check-config; memset, then the options. *)
app_init ==
    /\ Goto("main", "config")
    /\ \E check \in BOOLEAN : app' = [Zeroed EXCEPT !.check = check]
    /\ UNCHANGED live /\ NoOta /\ Going

(* What it may come to: a file that cannot be read, or whose text          *)
(* ConfigFile refuses; a configuration with a server; one without.         *)
config_load_file ==
    {[rc |-> -1, url |-> "none"], [rc |-> 0, url |-> "config"], [rc |-> 0, url |-> "none"]}

(* Loads it and fills in the identifiers it left out. *)
LoadConfig ==
    /\ pc = "config"
    /\ \E c \in config_load_file :
          IF c.rc = 0
          THEN pc' = "queue" /\ app' = [app EXCEPT !.url = c.url] /\ UNCHANGED exit
          ELSE Exit(1) /\ UNCHANGED app
    /\ UNCHANGED <<live, interrupted>> /\ NoOta

(* event_queue_init; a mere check of the configuration ends here.          *)
InitQueue ==
    /\ pc = "queue"
    /\ \/ /\ pc' = IF app.check THEN "destroy" ELSE "ota"
          /\ app' = [app EXCEPT !.initialized = TRUE]
          /\ live' = live \cup {"events"}
          /\ UNCHANGED exit
       \/ Exit(1) /\ Still
    /\ UNCHANGED interrupted /\ NoOta

(* app_bootstrap_ota calls ota_fetch ... *)
CallOta == pc = "ota" /\ ota_fetch /\ UNCHANGED <<pc, exit, interrupted>> /\ Still

RunOta == pc = "ota" /\ Parent /\ UNCHANGED <<pc, exit, interrupted>> /\ Still

OtaTrouble == pc = "ota" /\ ParentFails /\ UNCHANGED <<pc, exit, interrupted>> /\ Still

OtaFails == pc = "ota" /\ ota = "failed" /\ Exit(1)
            /\ UNCHANGED interrupted /\ Still /\ NoOta

OtaDone == Goto("ota", "merge") /\ ota = "ok" /\ Still /\ NoOta /\ Going

(* Mutant: a configured url wins over the one of the reply. *)
ServerUrl_ConfigWins ==
    IF app.url # "none" THEN app.url ELSE IF reply.url THEN "ota" ELSE "none"

(* The server the reply names, or else the configured one.                 *)
ServerUrl == IF reply.url THEN "ota" ELSE app.url

ActivationRequired == reply.code

(* ... and acts on its reply: activation goes before everything else, and  *)
(* without a server there is nothing to start.                             *)
app_bootstrap_ota ==
    /\ pc = "merge"
    /\ app' = [app EXCEPT !.url = ServerUrl, !.activation = ActivationRequired]
    /\ IF ActivationRequired THEN pc' = "run" /\ UNCHANGED exit
       ELSE IF ServerUrl = "none" THEN Exit(1)
       ELSE pc' = "mutex" /\ UNCHANGED exit
    /\ UNCHANGED <<live, interrupted>> /\ NoOta

-----------------------------------------------------------------------------
(* app_init_runtime_modules, and the return of app_init.  What fails is    *)
(* not undone: main returns, and the threads there are run until the       *)
(* process is gone.                                                        *)

Created(a, b, thing) ==
    /\ Goto(a, b)
    /\ live' = live \cup {thing}
    /\ UNCHANGED app /\ NoOta /\ Going

CreateFails ==
    /\ pc \in {"client", "encoder", "decoder", "playback", "capture"}
    /\ Exit(1)
    /\ UNCHANGED interrupted /\ Still /\ NoOta

InitDumpMutex == Created("mutex", "client", "dumpMutex")
InitClient == Created("client", "encoder", "client")
InitEncoder == Created("encoder", "decoder", "encoder")
InitDecoder == Created("decoder", "playback", "decoder")
InitPlayback == Created("playback", "capture", "playback")

InitCapture ==
    /\ Goto("capture", "run")
    /\ live' = live \cup {"capture"}
    /\ app' = [app EXCEPT !.modules = TRUE]
    /\ NoOta /\ Going

-----------------------------------------------------------------------------
(* app_run                                                                 *)

RunRefused ==
    /\ Goto("run", "destroy") /\ app.activation
    /\ UNCHANGED <<exit, interrupted>> /\ Still /\ NoOta

(* Mutant: app_run starts from a clean slate. *)
RunStarts_ClearsStop ==
    /\ Goto("run", "loop") /\ ~app.activation
    /\ app' = [app EXCEPT !.stop = FALSE]
    /\ UNCHANGED live /\ NoOta /\ Going

(* SESSION_ACTION_CONNECT: the client starts, or an event says it did not. *)
RunStarts ==
    /\ Goto("run", "loop") /\ ~app.activation
    /\ \/ /\ app' = [app EXCEPT !.started = TRUE]
          /\ live' = live \cup {"network"}
       \/ Still
    /\ NoOta /\ Going

(* The events of AppRuntime may stop the client and start another one, or  *)
(* stop the program: the user has entered q.                               *)
RunHandles ==
    /\ pc = "loop" /\ ~app.stop
    /\ \/ /\ app' = [app EXCEPT !.started = ~@]
          /\ live' = IF app.started THEN live \ {"network"} ELSE live \cup {"network"}
       \/ app' = [app EXCEPT !.stop = TRUE] /\ UNCHANGED live
    /\ UNCHANGED pc /\ NoOta /\ Going

RunEnds == Goto("loop", "destroy") /\ app.stop /\ Still /\ NoOta /\ Going

-----------------------------------------------------------------------------
(* app_destroy; each stop of a thread waits for its end.                   *)

Destroyed(a, b, thing) ==
    /\ Goto(a, b)
    /\ live' = live \ {thing}
    /\ UNCHANGED app /\ NoOta /\ Going

app_destroy ==
    /\ Goto("destroy", IF app.modules THEN "stopClient" ELSE "freeMutex")
    /\ Still /\ NoOta /\ Going

StopClient ==
    /\ Goto("stopClient", "stopCapture")
    /\ live' = IF app.started THEN live \ {"network"} ELSE live
    /\ UNCHANGED app /\ NoOta /\ Going

(* Mutant: the capture thread is stopped with the codecs already gone. *)
StopCapture_Late ==
    /\ Goto("stopCapture", "stopPlayback")
    /\ Still /\ NoOta /\ Going

StopCapture == Destroyed("stopCapture", "stopPlayback", "capture")

StopPlayback == Destroyed("stopPlayback", "freeEncoder", "playback")
FreeEncoder == Destroyed("freeEncoder", "freeDecoder", "encoder")
FreeDecoder == Destroyed("freeDecoder", "freeClient", "decoder")
FreeClient == Destroyed("freeClient", "freeMutex", "client")
FreeDumpMutex == Destroyed("freeMutex", "freeQueue", "dumpMutex")

(* The queue, the memset, and what main makes of app_run's result.         *)
FreeQueue ==
    /\ pc = "freeQueue"
    /\ live' = live \ {"events"}
    /\ Exit(IF app.activation THEN 1 ELSE 0)
    /\ app' = Zeroed
    /\ UNCHANGED interrupted /\ NoOta

-----------------------------------------------------------------------------
(* The SIGINT handler: app_request_stop on whatever app is just now.  The  *)
(* event it pushes is not needed, the loop looks at the flag; on a zeroed  *)
(* queue the push is refused.  Before the memset the mutex is what the     *)
(* stack held: the handler may hang, and the flag is wiped out anyway.     *)
(* A thread inside the queue's own critical section is EventQueue's case.  *)
Interrupt ==
    /\ pc \notin {"exited", "hung"} /\ ~interrupted
    /\ interrupted' = TRUE
    /\ \/ pc = "main" /\ pc' \in {"main", "hung"} /\ UNCHANGED app
       \/ pc # "main" /\ app' = [app EXCEPT !.stop = TRUE] /\ UNCHANGED pc
    /\ ChildKilled
    /\ UNCHANGED <<ota, readEnd, writeEnd, response, reply, err, live, exit>>

ChildStep == Child /\ UNCHANGED <<pc, app, live, exit, interrupted>>

Main == \/ app_init \/ LoadConfig \/ InitQueue \/ CallOta \/ RunOta \/ OtaFails
        \/ OtaDone \/ app_bootstrap_ota
        \/ CreateFails \/ InitDumpMutex \/ InitClient \/ InitEncoder
        \/ InitDecoder \/ InitPlayback \/ InitCapture
        \/ RunRefused \/ RunStarts \/ RunEnds
        \/ app_destroy \/ StopClient \/ StopCapture \/ StopPlayback
        \/ FreeEncoder \/ FreeDecoder \/ FreeClient \/ FreeDumpMutex \/ FreeQueue

Next == Main \/ OtaTrouble \/ RunHandles \/ ChildStep \/ Interrupt

(* The main thread runs; nothing makes a system call fail, or curl or the  *)
(* user come to an end.                                                    *)
Spec == Init /\ [][Next]_vars /\ WF_vars(Main) /\ WF_vars(ChildStep /\ child = "fork")

-----------------------------------------------------------------------------
(***************************************************************************)
(* At every point of the start, of a start that fails, and of the end, a   *)
(* thread that runs finds everything it uses.                              *)
(***************************************************************************)
ThreadsBacked ==
    pc # "exited" => \A t \in Threads \cap live : Uses[t] \subseteq live

(***************************************************************************)
(* The design's safe activation checkpoint (spec 2026-03-21, lines 18-22): *)
(* nothing connects before an OTA reply that asks for no activation, and   *)
(* the server is the one that reply names, if it names one.                *)
(***************************************************************************)
ConnectsWhenTold ==
    "network" \in live =>
        /\ ota = "ok" /\ ~reply.code
        /\ app.url = IF reply.url THEN "ota" ELSE "config"

(***************************************************************************)
(* Success is reported only by a process that has given everything back;   *)
(* a program stopped by its user leaves nothing, whatever stage it was in. *)
(***************************************************************************)
CleanExit ==
    /\ exit = 0 => live = {}
    /\ pc = "exited" /\ live # {} => exit = 1 /\ ~app.modules

(***************************************************************************)
(* What was taken is given back: descriptors and the child by ota_fetch,   *)
(* everything else by app_destroy.                                         *)
(***************************************************************************)
GivesBack == NothingLeftOpen /\ CleanExit

(***************************************************************************)
(* A curl that answers at length is read to its end: only Ctrl+C or an     *)
(* error of the read itself kills it.                                      *)
(***************************************************************************)
CurlNotCutOff == status = "signal" => interrupted \/ ota = "reap" \/ err = "read"

(***************************************************************************)
(* The verdict of ota_fetch is the one curl deserves.                      *)
(***************************************************************************)
VerdictSound == VerdictTrue /\ CurlNotCutOff

(* Once curl has ended, ota_fetch comes to a verdict.                      *)
OtaReturns == ota \notin {"idle", "ok", "failed"} /\ child \in {"zombie", "reaped"}
                ~> ota \in {"ok", "failed"}

(***************************************************************************)
(* A Ctrl+C that comes once app has been zeroed ends the program, during   *)
(* the configuration, the OTA request, the start or the conversation.      *)
(* curl has no time limit: one that is started after the Ctrl+C and never  *)
(* ends is waited for.                                                     *)
(***************************************************************************)
StopHonoured ==
    (app.stop /\ pc # "main" ~> pc = "exited") \/ <>[](child = "curl")

(***************************************************************************)
(* Nothing the program waits for, except curl, keeps it for ever.          *)
(***************************************************************************)
Ends == OtaReturns /\ StopHonoured

=============================================================================
