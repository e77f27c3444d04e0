# A verification of the xiaozhi voice client

TLA+ models of the voice client in `src/`, TLC configurations that check them
on small instances, and TLAPS proofs of the invariants that matter most for
every value of the constants. File names such as `app.c:433` are files of the
repository's `src/` directory.

## 1. The system

The program keeps a websocket connection to a xiaozhi server, sends it the
user's voice while the user talks and plays the answer. Four threads:

| thread | code | state it owns | talks to the others through |
|---|---|---|---|
| main | `app.c` (`app_run`), `session.c` | `session.state`, `tts_done`, `client_started`, `session_id`, `upload_enabled` | pops the event queue; calls the API of the other three |
| network | `xiaozhi_client.c` | `wsi`, `connected`, receive buffers | callbacks into `app.c` that push events or enqueue audio |
| playback | `audio_playback.c` | the ALSA handle | pops its queue, pushes `PLAYBACK_FINISHED` |
| capture | `audio_capture.c` | the ALSA handle, the silence count | `app_capture_on_pcm`, pushes `CAPTURE_SILENCE_TIMEOUT` |

All threads push to one event queue (`event_queue.c`, capacity 64); only the
main thread pops, with a timeout of 100 ms, between two looks at the keyboard.
The SIGINT handler pushes too. Audio goes through two bounded buffers
(`audio_buffer.c`): blocks to play, and packets to send.

### Inventory

| component | state | operations | what makes it correct |
|---|---|---|---|
| session (`session.c`) | one of nine states | `session_handle_event` | a total table; the main loop also writes the state past it |
| event queue (`event_queue.c`) | ring, mutex, condition | init, push, pop with timeout, destroy | bounded FIFO; no lost wake-up; progress under contention |
| client (`xiaozhi_client.c`) | `running`, `wsi`, `connected`, pending texts and packets, receive buffers | start, stop, queue_text, queue_binary, libwebsockets callbacks | what is queued is sent on the connection it was meant for; stop ends the thread |
| playback (`audio_playback.c`) | queue, `stop_requested`, `running` | enqueue, request_stop, thread, destroy | the end of a round is reported, also when something fails |
| capture (`audio_capture.c`) | `uploading`, `running`, silence count | set_uploading, thread, stop | audio only for a round that is under way |
| audio buffer (`audio_buffer.c`) | ring of blocks | push, pop, size | a popped block stays intact while it is used |
| runtime (`app.c`, `main.c`) | the fields listed above, decoder, dump file | one handler per event, keyboard, callbacks, init, destroy | see section 4 |
| protocol (`xiaozhi_protocol.c`) | none | build, parse | what is built parses; unknown input is ignored |
| process start (`main.c`, `app_init`) | what has been created so far, `initialized`, `runtime_modules_initialized` | load, fetch, create, run, destroy | a start that fails half-way leaves no thread without what it uses |
| OTA (`ota_client.c`) | pipe, curl process, output | one request through curl, parse | server and token are taken over; activation stops the start; nothing stays open |
| configuration (`config.c`) | settings | read line by line, default, validate | each field has the last value of its own section |
| codecs (`opus_codec.c`) | codec handles | encode, decode, rebuild | what is decoded is played at its own rate and fits its buffers |
| dump (`app_write_opus_packet`, `tools/decode_opus_dump.c`) | a file | append a record; read it back | a dump that was cut off reads back as its whole packets |
| logging (`log.c`) | level | log | output only |

Not part of the build (see the `Makefile`): the Snowboy detector and the older
dashboard server (`ws_server.c`, `http_server.c`, `sensor_sim.c`,
`msg_queue.c`, `command.c`). cJSON is vendored.

### What is hard here

Events of a connection or a round are handled after it is gone; the main
thread's own stop makes the network thread report an error; several fields are
shared without a lock, pointers to libwebsockets' objects among them; a popped
audio block is lent out by a ring that goes on being filled; received fragments
outlive their connection; recoveries and the start itself can fail half-way;
the decision that a round is over is taken from a queue another thread is
draining; Ctrl+C can interrupt any of it. `PROJECT.json` lists each hazard at
its line, with the properties that would show it.

## 2. The modules

| module | models | composed from |
|---|---|---|
| `Session` | `session.c`: the table as an operator | |
| `EventFifo` | what the event queue promises | |
| `EventQueue` | `event_queue.c` in detail and the SIGINT handler of `main.c` | implements `EventFifo` |
| `XiaozhiClient` | `xiaozhi_client.c` as the application sees it | |
| `ClientThreads` | `xiaozhi_client.c` as its three threads meet in it | |
| `ClientTrace` | no more code: the mapping to what the application sees | `ClientThreads`; implements `XiaozhiClient` |
| `FrameAssembly` | its RECEIVE callback and the event's text field | |
| `AudioPlayback` | `audio_playback.c` as the application sees it | |
| `AudioBuffer` | `audio_buffer.c` with the slot a pop lends out | |
| `PlaybackThread` | `audio_playback.c` in detail | `AudioBuffer`; implements `AudioPlayback` |
| `AudioCapture` | `audio_capture.c` | |
| `AppRuntime` | `app.c` once it runs, the user, the server | `Session`, `EventFifo`, `XiaozhiClient`, `AudioPlayback`, `AudioCapture` |
| `AppProperties` | the properties of the running client | `AppRuntime` |
| `AppPromises` | sentences of the design document the code does not keep | `AppProperties` |
| `AppProofs` | theorems: the running client, and what the events under way mean | `AppProperties`, TLAPS |
| `EventQueueProofs`, `PlaybackProofs`, `ClientThreadsProofs`, `FrameProofs`, `BootstrapProofs` | theorems about the module each is named after (`ClientThreadsProofs`: also `ClientTrace`) | that module, TLAPS |
| `PureProofs` | theorems about the algorithms of one call | `MCPure`, TLAPS |
| `RingLemmas` | lemmas on indices that wrap around, for the two rings | TLAPS |
| `OtaFetch` | `ota_client.c` and the curl process | |
| `Bootstrap` | `main`, `app_init`, the ends of `app_run`, `app_destroy` | `OtaFetch` |
| `ConfigFile` | the ini reader of `config.c` | |
| `OpusDump` | writer and reader of the dump file | |
| `OpusCodec` | `opus_codec.c`, the decoder's rebuilding, the way of a packet | |
| `Pcm` | arithmetic on samples and frames | |
| `MCEventQueue`, `MCAppRuntime`, `MCPlayback`, `MCClientThreads`, `MCFrames`, `MCBootstrap`, `MCPure` | instances for TLC | the last: `OpusDump`, `OpusCodec`, `Pcm`, `ConfigFile` |

The code is looked at from different heights where that is what makes it
checkable: `AppRuntime` composes components whose critical sections are single
steps; `EventQueue`, `PlaybackThread` and `ClientThreads` take these apart and
are shown to implement what `AppRuntime` uses. `FrameAssembly` takes the
receiving side of the client apart, without a refinement: `XiaozhiClient` leaves
the contents of received messages out.

### How the code appears in them

**Main thread.** `mpc` says where it is. One handler is one action
(`HandleHello`, `HandleStartListen`, ...), split only where it blocks: the
back-off sleep, and each `pthread_join` inside `xiaozhi_client_stop`. So
RETURN_TO_WAKE is `HandleError` (sleep begins), `BackoffEnds`, `JoinReturn`,
`RestartReturn`; ABORT is `HandleAbort`, `StopAbort`, `JoinAbort`,
`RestartAbort`; `app_destroy` is `DestroyBegin` to `DestroyEnds`. Between any
two of them every other thread may take any number of steps. Within one action
the other threads see nothing; that merges a handler's assignments, which are
not protected by a lock in the code. The two places where another thread tests
a field and acts later are split: `CaptureEncode` and `CaptureQueue`
(`app.c:272` and 283), and `CapRead` and `CapTail` (`audio_capture.c:107` and
123).

**Events.** A `WS_TEXT` event is named by what `xiaozhi_parse_incoming_json`
makes of it: `HELLO`, `HELLO_NOSID` (no session_id in it), `TTS_START`,
`TTS_STOP`, or `OTHER` for stt, llm, sentence, system, mcp, unknown and
malformed messages, which are only logged. What the server says is not always
what is read: `ServerSays` passes `OTHER` on for a message that comes behind the
beginning of a text of an earlier connection, `ServerSaysTooMuch` for one that
does not fit into an event and is cut there (`app.c:128`); both are no JSON and
are dropped (`app.c:745`).

**Client.** `net` is the thread's position: `none`, `starting`, `connecting`,
`open`, `idle` (connection gone, loop still running), `exited` (not joined).
`client->connected` is `net = "open"`. `pendText` is the pending texts in
order, `pendBin` a count. `writable` is "a WRITEABLE callback is due". `wire`
is a history variable: the first message written on this connection.
`leftover` says that `recv_text` holds what came of a text before its connection
ended; it survives CLOSED, a stop and a restart, and is gone after the next text
or an overflow (`Cut`, `Receive`, `ReceiveTooLarge`). In `AppRuntime` only a
server that has something to say can leave one (`Tears`), and the history variable
`unheard` says that the hello of this connection has been sent and could not be
read.
`ensure_text_capacity` fails only when memory does; `TextCap` stands for that.
`ClientThreads` has, besides, the pointers `wsi` and `context` (`null`, `live`,
`freed`), each text by number, and a step for every section under the mutex. The
looks at the two pointers, which take no lock, are steps of their own, apart from
the use of what was seen (`lookWsi`/`useWsi` and so on). Every use, main's, the
capture thread's and that of `xiaozhi_client_stop`, records in `stale` who has
used what was not alive. The capture thread runs on while main stops and starts
the client, so it remembers what it saw (`held`); what it uses may be that, or
what is there now.

`ClientTrace` adds what the refinement needs: what the texts say (`Content`), and
two history variables, `wire` as in `XiaozhiClient` and `visited`, whether a
WRITEABLE callback has come on this connection. The mapping (`Client`) reads `net`
off the place of the network thread: a thread that has not called connect is
`starting`, one between ESTABLISHED's first assignment and the end of a write is
`open`, one that has left its loop has `exited`. Storing a text is the call
`queue_text`; taking a message is the WRITEABLE callback, whose write, if it
fails, is the CLOSED that follows; looks and uses are no steps of the client's at
all. `writable` is not `asked`: it is TRUE as long as something is pending on an
open connection, because then somebody has asked or is about to
(`SomebodyWillAsk`).

**Received messages.** In `FrameAssembly` a message is a run of numbered units
of which each RECEIVE callback brings some; the two buffers belong to the client
object and survive `Lose`. Mind that `Receive` may split a message anywhere,
and that its last fragment may be empty.

**Playback and capture.** Blocks have no contents; the playback queue is its
length. The condition variable of the playback thread is the guard of `PbWake`.
The pc `notify` is "about to push PLAYBACK_FINISHED"; `take` lies between the
look at `stop_requested` and the pop. `PlaybackThread` adds the mutex, the
condition variable with spurious wake-ups, the ring's own mutex, the device and
its failures. There a block is `Chunks` pieces, copied in and written out one by
one, each marked with the number of its block, so that a block overwritten while
it is played can be told. A captured chunk is loud
or quiet. `silence_accumulator_ms` is cleared by the main thread under a lock
the capture thread does not take, so clearing it in the middle of an update may
be lost (`audio_capture_set_uploading`).

**Event queue.** `EventQueue` has one step per lock, store, signal and unlock,
a pop that sleeps, is woken or times out, and a handler that runs on top of one
thread, which does not move meanwhile. `AppRuntime` uses `EventFifo` instead,
which `EventQueue` is shown to implement; there, `Sigint` always gets through,
and what happens when it does not is the run `QueueSigint`.

**Start and end.** `Bootstrap` has one step per call of `app_init`,
`app_init_runtime_modules` and `app_destroy`, each of which may fail where its
code can. `live` is what exists, and `Uses` says which of it each thread uses.
Before `app_init` has zeroed it, `app` is what the stack held: a Ctrl+C may hang
in a mutex that never was. A process that leaves `main` ends its threads.
`OtaFetch` has one step per system call of `ota_fetch`; curl (`child`) is
external: it writes what it likes, blocks on a full pipe, is killed by an
unread one or by the terminal's Ctrl+C once it has been exec'd (before that it has
main's handler), and may never end. Of request and answer
only that they are well formed, and what the answer asks for, is left.

**Algorithms of one call.** `ConfigFile`, `OpusDump`, `OpusCodec` and `Pcm` are
operators; `MCPure` has one state per input. A configuration line is what the
tests of the loop see of it, a value its length and what `atoi` makes of it. A
byte is a digit of base `Base`, a sample lies in `-Half..Half-1` and wraps there,
a size wraps at `SizeMax`. Of stdio that it takes a whole record into its empty
buffer and that `fflush` writes as much of it as the disk has room for and drops
the rest; of `snd_pcm_recover` that an underrun and a suspended stream are over if
the stream can be prepared, and that every other error stays.

**External.** The server (`srv`, `Heard`, `ServerSays`) follows the protocol:
it answers a hello, may start to speak once it has been told to listen, stops
what it has started, and goes back to ready on an abort. libwebsockets calls
CLOSED for a connection that was open, when the peer closes it, when a callback
returns -1 and when the context is destroyed (`app.c:222` expects the last,
since it asks whether the program is stopping); for a handshake under way it may
or may not report a connection error. `pthread_cond_signal` wakes the one
waiter. A failing `lws_client_connect_via_info` is taken to report one error.

**Faults.** `Faults` names what may go wrong, at most `MaxFault` times: `spawn`
(pthread_create), `init` (context, URL or connect call), `connect`, `drop`
(connection lost), `write`, `bigframe` (message larger than the receive buffer,
whatever the server had to say), `cut` (text larger than an event), `device`
(playback), `dump` (dump file), `nosid` (hello without session_id), `decoder`
(rebuilding it fails). `torn` is not counted: with it, a connection that ends, for
whatever reason, may end in the middle of a text. `MicWorks` says whether the
microphone opens.

## 3. Runs

Constants shared by all `App` runs: small capacities (`EvCap` 2 to 6, `TextCap`
2 or 3, `BinCap` 1, `PbCap` 1 or 2) so that every queue fills; `SilenceChunks`
1. There deadlock is checked, and the end of the program is the explicit step
`Terminated`. It is not checked where the system really may stop: in `QueueSafe`
and `QueueSigint` (the handler's self-deadlock), in `Playback`, `ClientThreads`
and `Frames` when the bounded input is used up and everybody waits for more, in
`Bootstrap` when the process has ended, and in `Pure`, where a state is an input.

| run | bounds | checks |
|---|---|---|
| `QueueSafe` | 2 slots, main and 1 producer, signal on either, 2 events | the ring's indices and the mutex agree; no lost wake-up; refinement of `EventFifo`; pops keep succeeding under contention and timeouts |
| `AppRounds` | 2 presses, 1 fault of 8 kinds and torn texts, no audio blocks, no microphone, queue of 4 | what each session state claims is backed by threads and queues (7 million states) |
| `AppTeardown` | 1 press, 1 block, 1 fault of spawn, device, nosid, stop at any time, microphone on, queue of 2 | the fields around the upload agree; teardown order; a stop ends |
| `AppRecovery` | 1 press, 2 messages or blocks, 2 faults of 6 kinds and torn texts, queue of 5 | a round that waits for its last block will be told; an error leads to a usable session or one of two dead ends; finished rounds end |
| `Playback` | ring of 3, 6 blocks of 2 pieces, 2 stops, any device failure | order, wake-ups, the lent slot, every request served; refinement of `AudioPlayback` |
| `ClientThreads` | 3 texts (hello, start, abort), 1 block, 2 starts, 2 failures, array of 1 at first | texts kept, ordered and sent; unlocked pointers; refinement of `XiaozhiClient` (960 thousand states) |
| `Frames` | 3 messages of up to 5 units, buffers of 4, event of 3, 1 lost connection | what is delivered, cut and spoilt |
| `Bootstrap` | pipe of 1, response of 3, output of up to 5, one Ctrl+C anywhere | start, partial start, OTA, end |
| `Pure` | see below | the algorithms against definitions of their results |

Two presses are what it takes to interrupt a round, one block what it takes for
playback to outlast tts/stop (`AppRecovery` has two), one fault at any point what a
recovery has to cope with; two in `AppRecovery` let the second strike the recovery
from the first. A queue of 4 is enough that most behaviours refuse no event, and small
enough that others do; the invariants say so with `refused`, which is set when
an event was lost. The real capacity is 64. The bounds on presses, messages and
faults do not enter the theorems. In `QueueSafe` one producer, the main thread
(which pushes and pops) and a handler on top of either are three parties to the
mutex; a further producer behaves like the first.

Six blocks go twice round a ring of 3, and fill it while a slot is lent out. Two
stops let the second come between the read and the clearing of `stop_requested`.
Three texts make an array of 1 grow twice while the network thread takes texts
from it; two starts are a stop and a restart under the capture thread's hands.
Messages of 5 overflow buffers of 4, texts of 3 and 4 overflow an event of 3, and the third message shows that the damage of a
first is over. An output of 5 fills the response, then the pipe.

`Pure`: configuration files are six required lines, or none, followed by up to 3
of 15 lines (known and unknown sections, shared keys, empty, over-long and
non-numeric values, broken headers, comments); dumps of up to 3 packets of every
length from 0 to one too long in base 3, on a disk that takes nothing, part or all
of each record; periods of up to 3 samples of -3..2; all sizes up to 7 with
`SizeMax` 7; blocks of up to 3 frames and 0 to 2 channels on devices that give up to
4 answers: frames, nothing, errors, and streams that cannot be prepared; up to 3
hellos with 5 rates and 4 channel counts, packets of 20 to 120 ms.

### Disagreements with the design document

Nine properties quote
`docs/superpowers/specs/2026-03-14-xiaozhi-websocket-client-design.md` and are
violated. The first three are runs of `PROJECT.json`. The configurations of the
others stand beside them (`tlc -config FreedInUse.cfg MCClientThreads.tla`, and so
on); TLC has its counterexample within seconds.

| configuration | module | document says | code does |
|---|---|---|---|
| `ReconnectSettles` | `AppPromises` | one new round after an interruption (413), automatic reconnection (395) | each stop of an open connection raises the next ERROR; the connection can be reopened for ever |
| `DecoderUnshared` | `AppPromises` | no complex object is shared between threads (148) | the main thread rebuilds the decoder the network thread may be decoding with: messages left from an earlier connection start a round, and speech, before the hello is handled |
| `QueueSigint` | `MCEventQueue` | Ctrl+C leads to a graceful exit (415) | the handler can wait for the mutex its own thread holds |
| `HandshakeEnds` | `AppPromises` | a timeout of the wait for the server's hello is a network error, to be recovered from (394) | there is no timeout; behind the rest of a text of a lost connection the hello is no JSON and is dropped, and the wait has no end |
| `ErrorReconnects` | `AppPromises` | automatic reconnection (395) | a restart that fails in RETURN_TO_WAKE is only logged (`RestartReturn`), and nothing tries again |
| `AudioAfterHello` | `AppPromises` | the hello is sent once connected (191), an error clears the round (395) | the audio of the lost round goes first |
| `DeviceFailure` | `AppPromises` | a playback that fails is rebuilt, or the program exits (402-403) | the block is dropped without an event, and PLAYING_TTS stays (`PbDeviceFails`) |
| `FreedInUse` | `MCClientThreads` | no complex object is shared between threads (148) | `xiaozhi_client_stop` and the capture thread's wake-ups may use a context or a `wsi` that the network thread has just freed; nothing needs to fail |
| `ConfigDesigned` | `MCPure` | `protocol_version` is checked to be 1 (331), an empty audio device is a configuration error (390) | any positive version, and empty devices, are accepted (`config_validate`) |

Met while modelling, and without a configuration of their own. In the running client:

- READY after the server's hello (173): `app_reset_to_idle` takes an open socket
  for READY, and late events of an interrupted round reach it, also in a handshake
  whose hello could not be read (`unheard` in `RestIsGenuine`);
- an interruption clears the playback buffer (410): it drops what the device
  holds, and the thread plays the queue (`PbStopped` leaves `pbq` alone);
- tts/stop ends the round while the playback thread is still writing the last
  block (177); the silence timeout is logged as ignored in manual mode (281,
  `app.c:753`); there is no maximum recording time (283); READY stands for
  WAKE_DETECTING.

Elsewhere:

- curl runs without `-f`, so the answer of a failed request passes if it is JSON
  (`2026-03-21-xiaozhi-ota-activation-design.md:84` lets a failed request end the
  start);
- a rate in the configuration other than the document's 16000 Hz (67) makes every
  period a size the encoder refuses (`app.c:589`);
- a mono hello after a stereo one of the same rate keeps the stereo decoder, and a
  hello at the old rate after one that libopus refuses leaves no decoder
  (`app.c:454`);
- a binary message whose last fragment is empty is an error and is not delivered
  (`xiaozhi_client.c:96`); a text between 1024 and 4095 bytes is cut;
- the sample -32768 counts as silence (`audio_capture.c:15`): the absolute value
  overflows. `PcmHolds` claims the loudest sample only of periods without it, and of
  the others no more than that the peak is not too high;
- `app_write_opus_packet` ignores what `fflush` says (`app.c:114`), so its 0 means
  nothing for the dump; and after a torn record another that is written puts the
  reader out of step. `DumpHolds` promises the packets before a torn record
  always, and exactly the whole ones if nothing is written behind it.

### Fairness

`Fairness` of `AppRuntime`: each thread keeps taking steps (weak fairness of
`MainStep`, `NetStep`, `PlaybackStep`, `CaptureStep`): sleeps, joins of ended
threads, reads and writes of the sound device return. `NetExits` is fair by
itself, since the thread tests `running` after each `lws_service` of at most 50
ms, whatever the traffic. Nothing is assumed of the user, of faults, or of the
server; `HealthySpec`, used where a property is about a server that behaves,
adds that it answers a hello (strongly fair: connections may come and go before
it does) and finishes what it has started to say.

`Fairness` of `EventQueue`: threads run; an unlocked mutex is granted in the
end (strong fairness of the lock steps, which glibc does not promise in theory
but a scheduler delivers); the main loop calls pop again.

`Spec` of `PlaybackThread`: the thread runs (so a write returns), a push that has
begun ends with its signal, a joined thread is noticed. No stop, block or end is
forced.

`Fairness` of `ClientThreads`: a call that has begun goes on, also in the capture
thread; the network thread runs; and, as in `AppRuntime`, traffic does not keep
it in its loop. Failures are not forced.

`Spec` of `Bootstrap`: the main thread runs and a forked child reaches exec.
System calls are not forced to fail, curl is not forced to end (it has no time
limit), the user is not forced to anything: `StopHonoured` therefore excepts a
curl that stays for ever, and `OtaReturns` starts where it has ended.

## 4. Properties

Of the running client (`AppProperties`):

- `UploadBacked`: while `upload_enabled` is set the main thread's other fields
  agree: a session_id, an open dump file, the capture flag, and a session that is
  uploading or sleeping out an error. It does not say that audio stays with its
  round; it does not (`AudioAfterHello`).
- `UploadingIsUploading`: a session in UPLOADING_AUDIO uploads, or an ERROR is
  on its way.
- `HandshakeBacked`: a session waiting for the server's hello has something to
  wait for, or has been sent a hello that could not be read. There is no timeout,
  so the second is for ever (`HandshakeEnds`); the property says that there is no
  other way to get stuck.
- `RestIsGenuine`: READY without a connection (`RestIsConnected`) or without a
  session_id, and IDLE with a client, are passing states only, again with the
  exception of a hello that could not be read.
- `RoundEndBacked`: a round that waits for PLAYBACK_FINISHED will get it.
- `NothingStranded`: pending messages on an open connection have a callback due.
- `TeardownSafe`, `StopEnds`: nothing is freed under a running thread; a stop
  request ends the program.
- `ErrorRecovers`: an ERROR_BACKOFF leads to a session that can be used (READY,
  with a session_id, on a connection that nobody is about to end) or to one of two
  dead ends (`Stranded`): a restart that failed and a hello that could not be read.
  `RoundEnds`: a finished round leaves PLAYING_TTS, with a device that works.

Of the queue (`EventQueue`): `RingInv`, `NoLostWakeup`, `ImplementsFifo`,
`Delivers` (pops go on succeeding, or the queue stays empty, or a handler waits
for its own thread).

Of playback (`AudioBuffer`, `PlaybackThread`): `RingInOrder`, blocks lie whole and
in order; `NoLostWakeup`; `LentIntact`, a lent slot is overwritten only by the
block that fills the ring; `Served`, every stop is answered, every block taken,
destroy returns; `ImplementsPlayback`.

Of the client's threads (`ClientThreads`, `ClientTrace`): `TextsKept`, the room
made in one critical section is there in the next, and texts come out in order,
across restarts, each once; `SomebodyWillAsk`, no message waits on an open
connection unseen; `PointersSound`: no wake-up of the main thread uses a freed
pointer before a failure, nobody does before a failure or a stop of the client
(`SafeUntilStopped`; after a stop it happens, `NothingFreedIsUsed`), and a joined
thread leaves no pointer behind (`JoinedIsClean`);
`Served`, a stop returns and what is queued goes out; `ImplementsClient`.

Of received messages (`FrameAssembly`): `MessagesWhole`, what is delivered is what
was sent, and damage ends with the next message of its kind.

Of the process (`Bootstrap`, `OtaFetch`): `ThreadsBacked`, a thread finds what it
uses, also after a failed start; `ConnectsWhenTold`, no connection before an OTA
answer that asks for no activation; `GivesBack`, descriptors, child and modules;
`VerdictSound`, success rests on all curl said, and curl is not cut off; `Ends`.

Of one-call algorithms (`MCPure`): `ConfigHolds`, each field has its last value
and a file is accepted exactly when `config_validate`'s checks pass (the design asks
for more, `ConfigDesigned`); `DumpHolds`, what is whole in a dump is read;
`PcmHolds`, the peak, the start threshold and the write loop, which gives up only on
an answer it cannot go on from; `PacketHolds`, what is decoded is played at its own
rate and none is lost to a buffer.

Every property of a passing run has a mutant (the definitions marked "Mutant")
that a plausible slip in the code would produce and that violates it.

## 5. Proofs

All theorems are about every value of the constants: capacities, sizes, sets of
producers, any number of presses, messages, starts, stops and faults, and inputs
of any length. Every safety invariant that a run checks is proved, two of them
under a hypothesis (7 and 8), and so are the three refinements. The assumptions
are the named `ASSUME`s of the modules, which say no more than that capacities and
sizes are positive, bounds are naturals, and `Events` is the set of the program's
events; in `EventQueue` also that the main thread is not one of the producers and
that the mark of a free mutex, `Nobody`, is not a thread; in `ClientTrace` that
every text is one of the four the program sends; in `MCPure` that no size handed
to `audio_playback_compute_start_threshold` is beyond what a `size_t` holds. TLC
evaluates them in the runs.

### The running client: `AppProofs`

1. `TypeCorrect`: `Spec => []TypeOK`. The lemma `StepIsOperations` shows that
   every step of the program uses each component through one of its operations;
   one lemma per component shows that these keep its type; `AppTypeStep` does
   the same for the main loop. The invariant is strengthened by `CapInv`: the
   silence count reaches its limit only on the way to the timeout.
2. `UploadIsBacked`: `Spec => []UploadBacked`. Inductive with `UploadInv`: ABORT
   and RETURN_TO_WAKE, which clear the session_id and change the state, have
   switched the upload off before they start to wait for the network thread.
3. `PendingIsServed`: `Spec => []NothingStranded`, which is inductive, from
   `StepIsOperations`.
4. `TeardownIsSafe`: `Spec => []TeardownSafe`. The heart is `Tracked`: where
   there is a network thread, `client_started` is set. ABORT and RETURN_TO_WAKE
   clear it, so the invariant must know (`StoppedBefore`) that by then the
   thread has been stopped and joined; `ThreadsEnded` records the joins.
5. `UploadingIsGenuine`: `Spec => []UploadingIsUploading`. Needs that an ERROR
   once raised stays on its way until it is handled (`ErrorStays`), that the
   main loop holds an event only while it handles it, and that the handler of
   ERROR has left UPLOADING_AUDIO before it switches the upload off.

`ComponentsAreUsedAsSpecified`: `Spec => EvSpec /\ PbSpec /\ ClientSpec`, from
`StepIsOperations`. With `QueueIsFifo`, `PlaybackIsAbstract` and
`ThreadsAreTheClient` below, what the application model does to its queue, its
playback and its client is what the detailed models are shown to implement.

### Events under way: `AppProofs`, second half

`pending` is the event in the main loop's hands followed by the queue. Three
patterns of it matter: an event with no ERROR behind it (`Fresh`), a
WS_CONNECTED without a hello behind it (`Unanswered`), and a tts/stop that no
hello precedes (`Orphan`). The lemmas `Appended...` and `Removed` say what a push
and a handled event do to each; `EndedIsOver`, that an ERROR at the end leaves
none. So the proofs need to look at few steps: one that fails raises ERROR and
is done (`ConnFails`, `RestFails`), one that neither touches the connection nor
raises or handles one of its events keeps everything (`ConnKept`, `RestKept`).

6. `HandshakesAreBacked`: `Spec => []HandshakeBacked`, under all faults, unreadable
   hellos included: these are the case that `unheard` names. A
   session can enter HANDSHAKING on the WS_CONNECTED of a connection that has
   gone. The invariant `ConnInv` says why this does no harm: a fresh event is one
   of the connection there is (`FreshInv`), since the end of a connection puts
   an ERROR behind its events; and as long as a WS_CONNECTED is unanswered the
   server has at most got the hello (`ServerInv`). `Excused` are the cases with
   nothing to promise: an event was refused, or a stop has been requested, after
   which the end of a connection is not reported. `PlaceInv` says where the main
   thread can be with the client stopped.
7. `RestsAreConnected`: `Spec => []RestIsConnected`, under all faults, and
   `RestsAreGenuine`: `Spec => []RestIsGenuine` if `"nosid" \notin Faults`.
   `app_reset_to_idle` takes an open socket for READY. It is right because a
   tts/stop that ends a round, fresh or remembered in `tts_done`, was sent by a
   server that had greeted this connection (`DoneInv`), and that server's HELLO,
   with the session_id, came first (`SidInv`). One invariant serves both
   theorems: what it says of the session_id it says of `Identified`, "there
   is one, or hellos may lack it, or that of this connection could not be read". The hypothesis of the second cannot be dropped:
   TLC finds READY without an id if a hello may come without one.
8. `RoundsAreTold`: `Spec => []RoundEndBacked` if `"device" \notin Faults`: a
   tts/stop that finds a block queued leaves a playback thread that has still to
   report. The hypothesis cannot be dropped: a device that fails loses the block
   without an event (section 3).

### Components

9. `EventQueueProofs`: `TypeCorrect`; `RingIsSound`, for which `RingInv` has the
   discipline of the mutex with a handler that runs on top of its holder;
   `NoWakeupIsLost`; and `QueueIsFifo`: `Spec => ImplementsFifo`, where the queue
   is the `count` events from `head` on, around the end of the array.
10. `PlaybackProofs`: `TypeCorrect`, `BlocksInOrder`, `NoWakeupIsLost` (from
   `WaitInv`, which says what the wait condition found and what can have changed
   since), `LentBlockIsIntact` (from `LentInv`: the lent slot is the one before
   the first), and `PlaybackIsAbstract`: `Spec => ImplementsPlayback`. The step
   simulation needs `WaitInv` as well: a thread that goes for a block finds one.
11. `ClientThreadsProofs`: `TypeCorrect`; `TextsAreKept`, from `TextsFit`
   (`RoomInv`: between making room and storing only the network thread takes
   texts) and `TextsInOrder` (`OrderInv`: what is out, in hand and waiting are
   increasing, follow each other, and together are all that was queued and not
   lost); `PointersAreSound` (`ThreadInv`, `PlaceInv`, and `LivingInv`, which says what the
   threads' looks have found while nothing has failed and nobody has stopped);
   `PendingIsAskedFor`; and `ThreadsAreTheClient`: `TraceSpec => ImplementsClient`.
   There the steps that map to a stutter are `Quiet`; the simulation of the others
   needs `ThreadInv` (a client that starts has no thread) and `TraceInv` (a
   connection that is being made has not been served; there is always room
   for a text). `TraceIsThreads` carries the other theorems over to `TraceSpec`.
12. `FrameProofs`: `TypeCorrect` and `MessagesArriveWhole`. `Sound` says what a
   buffer may hold at any moment: no hole inside a message, nothing of a message
   to come, and, unless it is hurt, just what has arrived of its own.
13. `BootstrapProofs`: `TypeCorrect`, `ThreadsAreBacked`, `ConnectsOnlyWhenTold`,
   `GivenBack`, `VerdictIsSound`. `OtaInv` says which descriptors and which child
   `ota_fetch` has at each step, and that its response is the first bytes that
   left the pipe; `StageInv`, `LiveInv` and `ToldInv`, what exists and what was
   decided at each stage of `main`.

14. `PureProofs`: `FilesAreRead`, `DumpsReadBack`, `SamplesAreCounted` and
   `PacketsArePlayed`: `Spec => []P` for the four properties of `MCPure`, whose
   states are the inputs, so that nothing is inductive but the data. The theorems
   about the algorithms themselves are behind them: `ConfigIsLoaded`,
   `DumpIsRead`, `BlockWritten`, `PacketPlays`, `PeakOfPeriod`, `StartThreshold`.
   Induction over data comes from the library's fact that the naturals are well
   founded, which takes no operator: a set without the numbers a property holds of
   has no least element (`Induction`). A fold is the last value of a sequence of
   values (`FoldTrace`), and the induction goes along that, on the invariant of
   the loop: `Agrees` (the fields are those of the last assignments so far),
   `ReadsBack` (what a reader gets from here on), `Loop` (frames written and
   offered), `Decoding` (which decoder there is after so many hellos).

The invariants were checked by TLC on the instances of section 3 before they
were proved.

### Only model-checked

- The liveness properties (`StopEnds`, `ErrorRecovers`, `RoundEnds`, `Delivers`,
  both `Served`, `Ends`): the prover has no ENABLED, so no fairness. For the same
  reason the refinements are of the abstract specifications' safety part, which
  is all they state.
- That a hypothesis is needed: `RestIsGenuine` is false of servers without
  session_ids, `RoundEndBacked` of broken sound devices; see 7 and 8.
- The nine violated sentences of section 3.

## 6. Not modelled, and what is left

Not modelled, for good: logging; JSON text, with cJSON; the header lines of the
handshake (`xiaozhi_client.c:119-163`) and TLS; ALSA's parameters, and ALSA and
libwebsockets beyond their use; the codecs' arithmetic and the encoder's state;
the WAV header of the dump tool; the Snowboy detector and the older dashboard
server, which the Makefile does not build.

What could come next: an abstract peer for `FrameAssembly` to refine, so that
received messages, too, are composed with the application; and clocks, without
which nothing is said of how long a recovery takes.
