-------------------------------- MODULE MCPure --------------------------------
(***************************************************************************)
(* The algorithms that run to completion in one call - reading the         *)
(* configuration, writing and reading the dump, arithmetic on samples, the *)
(* way of a packet to the device - on bounded inputs.  A state is an       *)
(* input; a property holds when it holds of every input.                   *)
(***************************************************************************)
EXTENDS ConfigFile, OpusDump, OpusCodec, Pcm, FiniteSets, Functions

CONSTANTS ExtraLines,   \* bound: lines after those of the given file
          MaxSample,    \* bound: samples of a period
          MaxPackets,   \* bound: packets of a dump
          MaxSize,      \* bound: sizes given to the threshold
          MaxFrames,    \* bound: frames of a block
          MaxAnswers,   \* bound: calls a device answers
          MaxHellos     \* bound: hellos that have come

ASSUME BoundsAssumption ==
    /\ {ExtraLines, MaxSample, MaxPackets, MaxSize, MaxFrames, MaxAnswers, MaxHellos} \subseteq Nat
    /\ MaxSize <= SizeMax

VARIABLE input

Init == input = [of |-> "none"]

SeqsUpTo(S, n) == UNION {[1..k -> S] : k \in 0..n}

-----------------------------------------------------------------------------
Line == [first |-> "other", close |-> FALSE, eq |-> FALSE, name |-> "", value |-> [len |-> 0, atoi |-> 0]]
Section(s) == [Line EXCEPT !.first = "[", !.close = TRUE, !.name = s]
Assign(k, len, n) == [Line EXCEPT !.eq = TRUE, !.name = k, !.value = [len |-> len, atoi |-> n]]

(* The lines the program cannot do without. *)
Given == <<Section("ota"), Assign("url", 20, 0), Assign("app_version", 5, 2),
           Section("board"), Assign("type", 8, 0), Assign("name", 9, 0)>>

(* Lines that follow: sections known and unknown, keys two sections share, *)
(* values that are empty, too long, no number or no positive one.          *)
MoreLines ==
    {Section("ota"), Section("server"), Section("misc"),
     Assign("url", 0, 0), Assign("url", 300, 0), Assign("type", 3, 0),
     Assign("protocol_version", 1, 3), Assign("protocol_version", 2, -1),
     Assign("protocol_version", 3, 0), Assign("unheard_of", 4, 7),
     [Line EXCEPT !.first = "[", !.eq = TRUE],
     [Section("ota") EXCEPT !.first = "#"], [Section("server") EXCEPT !.eq = TRUE],
     Line, [Line EXCEPT !.first = "none"]}

LoadConfig == \E base \in {Given, <<>>}, more \in SeqsUpTo(MoreLines, ExtraLines) :
    input' = [of |-> "config", lines |-> base \o more]

Period == \E pcm \in SeqsUpTo(-Half..(Half - 1), MaxSample) : input' = [of |-> "period", pcm |-> pcm]

Threshold == \E buffer, period, periods \in 0..MaxSize :
    input' = [of |-> "threshold", buffer |-> buffer, period |-> period, periods |-> periods]

(* Packets of every length from 0 to the first that is refused, on a disk  *)
(* that takes nothing of a record, part of its header or of its packet, or *)
(* all; the bytes of a packet are all different from those of the next.    *)
PacketOf(len, b) == [i \in 1..len |-> b]
Rooms == 0..3 \cup {Base * Base + 1}
Dumped == \E sizes \in SeqsUpTo([len : 0..(Base * Base), room : Rooms], MaxPackets) :
    input' = [of |-> "dump",
              calls |-> [i \in DOMAIN sizes |-> [packet |-> PacketOf(sizes[i].len, i % Base),
                                                 room |-> sizes[i].room]]]

(* Frames, nothing, an interruption, an error that is not recovered, and   *)
(* the two that are if the stream can be prepared.                         *)
Answers == [rc : {EAGAIN, EIO} \cup 0..MaxFrames, prepared : {FALSE}]
           \cup [rc : {EPIPE, ESTRPIPE}, prepared : BOOLEAN]

Block == \E frames \in 0..MaxFrames, channels \in 0..2, device \in SeqsUpTo(Answers, MaxAnswers) :
    input' = [of |-> "block", frames |-> frames, channels |-> channels, device |-> device]

(* Rates libopus takes and rates it does not, and none. *)
Packet == \E ms \in {20, 60, 80, 120},
             hellos \in SeqsUpTo([rate : {0, 16000, 24000, 44100, 48000}, channels : {0, 1, 2, 3}],
                                 MaxHellos) :
    input' = [of |-> "packet", hellos |-> hellos, ms |-> ms]

Next == input.of = "none" /\ (Packet \/ LoadConfig \/ Period \/ Threshold \/ Dumped \/ Block)

Spec == Init /\ [][Next]_input

-----------------------------------------------------------------------------
(* A configuration file gives every field its last value or its default,   *)
(* and is accepted exactly when those values pass the checks (config.c).   *)
ConfigHolds ==
    input.of = "config" => /\ LoadsTheLastValue(input.lines)
                           /\ AcceptsTheChecked(input.lines)

(* What the first design calls a configuration error is refused            *)
(* (config_validate).                                                      *)
ConfigDesigned == input.of = "config" => RefusesAsDesigned(input.lines)

(* A dump cut off anywhere reads back as the packets that are whole in it  *)
(* (app_write_opus_packet, tools/decode_opus_dump.c).                      *)
DumpHolds == input.of = "dump" => DumpReadsBack(input.calls)

(* The peak of a period without the lowest sample is its largest magnitude,*)
(* the start threshold is exact for every size, and a block reaches the    *)
(* device once and in order (max_abs_sample,                               *)
(* audio_playback_compute_start_threshold, audio_playback_write_all_frames). *)
PcmHolds ==
    /\ input.of = "period" => PeakIsMax(input.pcm)
    /\ input.of = "threshold" => ThresholdExact(input.buffer, input.period, input.periods)
    /\ input.of = "block" => WritesEachFrameOnce(input.frames, input.channels, input.device)

(* A decoded packet is played at the rate it was decoded at, and none is   *)
(* lost to a buffer too small for it (app_update_decoder_from_hello,       *)
(* opus_decode_frame, app_client_on_binary, audio_playback_enqueue).       *)
PacketHolds ==
    input.of = "packet" => /\ PlaysAtItsSpeed(input.hellos, input.ms)
                           /\ SizesAgree(input.hellos, input.ms)
=============================================================================
