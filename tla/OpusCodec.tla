------------------------------ MODULE OpusCodec ------------------------------
(***************************************************************************)
(* The way of a received packet: the decoder that the hellos of successive *)
(* connections rebuild (app_update_decoder_from_hello), the wrappers of    *)
(* opus_codec.c, and the block that app_client_on_binary makes of a        *)
(* packet.  A packet is its duration; the codec itself is libopus.         *)
(***************************************************************************)
EXTENDS Integers, Sequences, SequencesExt

(* External: what opus_decoder_create accepts. *)
opus_decoder_create(rate, channels) ==
    rate \in {8000, 12000, 16000, 24000, 48000} /\ channels \in {1, 2}

NoDecoder == [made |-> FALSE, rate |-> 0, channels |-> 0]

(* What becomes of *dec, which opus_decoder_wrapper_destroy has zeroed. *)
opus_decoder_wrapper_init(rate, channels) ==
    IF rate > 0 /\ channels > 0 /\ opus_decoder_create(rate, channels)
    THEN [made |-> TRUE, rate |-> rate, channels |-> channels]
    ELSE NoDecoder

(* app->decoder and app->decoder_sample_rate after app_init_runtime_modules. *)
FirstDecoder == [dec |-> opus_decoder_wrapper_init(24000, 1), rate |-> 24000]

(* Mutant: the new rate is not noted. *)
app_update_decoder_from_hello_KeepsRate(app, hello) ==
    LET rate == IF hello.rate > 0 THEN hello.rate ELSE app.rate
        channels == IF hello.channels > 0 THEN hello.channels ELSE 1
    IN  IF rate = app.rate /\ channels = 1 THEN app
        ELSE [app EXCEPT !.dec = opus_decoder_wrapper_init(rate, channels)]

(* A hello without audio parameters means the present rate, and mono. *)
app_update_decoder_from_hello(app, hello) ==
    LET rate == IF hello.rate > 0 THEN hello.rate ELSE app.rate
        channels == IF hello.channels > 0 THEN hello.channels ELSE 1
        dec == opus_decoder_wrapper_init(rate, channels)
    IN  IF rate = app.rate /\ channels = 1 THEN app
        ELSE [dec |-> dec, rate |-> IF dec.made THEN rate ELSE app.rate]

AfterHellos(hellos) == FoldLeft(app_update_decoder_from_hello, FirstDecoder, hellos)

PcmRoom == 4096         \* samples in pcm of app_client_on_binary

BlockRoom == 8192       \* bytes of a playback block (max_frame_bytes)

(* Frames per channel, or -1.  libopus refuses what does not fit. *)
opus_decode_frame(dec, ms, capacity) ==
    LET frames == (dec.rate * ms) \div 1000
    IN  IF dec.made /\ dec.channels > 0 /\ frames <= capacity \div dec.channels
        THEN frames ELSE -1

(* audio_playback_enqueue, with the one channel app_init configures. *)
BlockBytes(dec, frames) == frames * 2

(* The blocks enqueued for a packet: one, or none. *)
app_client_on_binary(app, ms) ==
    LET frames == opus_decode_frame(app.dec, ms, PcmRoom)
    IN  IF frames > 0 /\ BlockBytes(app.dec, frames) <= BlockRoom
        THEN <<[bytes |-> BlockBytes(app.dec, frames), rate |-> app.rate]>>
        ELSE <<>>

-----------------------------------------------------------------------------
(* Whatever hellos have come, good ones and ones libopus refuses, a packet *)
(* that is decoded is tagged with the rate it was decoded at, and from a   *)
(* mono decoder its block holds the whole of it: the device plays it at    *)
(* its own speed (app_update_decoder_from_hello, app_client_on_binary).    *)
PlaysAtItsSpeed(hellos, ms) ==
    LET app == AfterHellos(hellos)
        blocks == app_client_on_binary(app, ms)
    IN  \A i \in DOMAIN blocks :
            /\ blocks[i].rate = app.dec.rate
            /\ app.dec.channels = 1 =>
                  (blocks[i].bytes \div 2) * 1000 = ms * blocks[i].rate

(* The three sizes fit one another: no decoded packet is refused by the    *)
(* playback queue for its size, and with a mono decoder none of up to 80   *)
(* ms is refused by the decoder for lack of room, at any rate.             *)
SizesAgree(hellos, ms) ==
    LET app == AfterHellos(hellos)
        frames == opus_decode_frame(app.dec, ms, PcmRoom)
    IN  /\ frames > 0 => app_client_on_binary(app, ms) # <<>>
        /\ app.dec.made /\ app.dec.channels = 1 /\ ms <= 80 => frames > 0
=============================================================================
