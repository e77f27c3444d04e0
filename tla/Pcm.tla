--------------------------------- MODULE Pcm ---------------------------------
(***************************************************************************)
(* The arithmetic on samples and frames: max_abs_sample and the silence    *)
(* account of audio_capture.c, the start threshold and the write loop of   *)
(* audio_playback.c.  Widths are parameters.                               *)
(***************************************************************************)
EXTENDS Integers, Sequences, SequencesExt, FiniteSetsExt

CONSTANTS Half,         \* a sample lies in -Half..Half-1 (int16_t: 32768)
          SizeMax       \* the largest size_t

ASSUME PcmAssumption == Half \in Nat \ {0} /\ SizeMax \in Nat \ {0}

(* A cast to the sample type. *)
Wrap(x) == ((x + Half) % (2 * Half)) - Half

(* The loop of max_abs_sample: the absolute value is cast before it is     *)
(* compared.                                                               *)
max_abs_sample(pcm) ==
    FoldLeft(LAMBDA peak, s :
                LET a == Wrap(IF s < 0 THEN -s ELSE s) IN IF a > peak THEN a ELSE peak,
             0, pcm)

Magnitude(s) == IF s < 0 THEN -s ELSE s

(* The peak that decides about silence is never louder than the period is, *)
(* and is its largest magnitude - of a period without the sample -Half.    *)
(* Nothing is claimed for one with it: its magnitude overflows the type,   *)
(* and a wave cut off at the bottom rail can pass for silence              *)
(* (max_abs_sample).                                                       *)
PeakIsMax(pcm) ==
    LET peak == max_abs_sample(pcm)
        magnitudes == {Magnitude(pcm[i]) : i \in DOMAIN pcm} \cup {0}
    IN  /\ peak \in magnitudes
        /\ (\A i \in DOMAIN pcm : pcm[i] # -Half) => peak = Max(magnitudes)

-----------------------------------------------------------------------------
(* When the device starts to play. *)
audio_playback_compute_start_threshold(buffer, period, periods) ==
    CASE buffer = 0 -> 0
      [] buffer # 0 /\ (period = 0 \/ periods = 0) -> buffer
      [] buffer # 0 /\ period # 0 /\ periods # 0 ->
            LET requested == (period * periods) % (SizeMax + 1)
            IN  IF period > SizeMax \div periods THEN buffer
                ELSE IF requested < buffer THEN requested ELSE buffer

(* The device never waits for more frames than its buffer holds (it would  *)
(* never start), never starts before the wanted periods are there if they  *)
(* fit, and starts on a full buffer otherwise - for every size_t, also     *)
(* where the product overflows (audio_playback_compute_start_threshold).   *)
ThresholdExact(buffer, period, periods) ==
    audio_playback_compute_start_threshold(buffer, period, periods) =
        IF period = 0 \/ periods = 0 THEN buffer ELSE Min({buffer, period * periods})

-----------------------------------------------------------------------------
(* The write loop.  A device is the sequence of what its calls answer: rc  *)
(* is a number of frames it takes if that many are offered, 0, or a        *)
(* negative error number, and prepared whether the stream can be prepared  *)
(* again after it; after its last answer the device blocks.                *)

EINTR == -4
EIO == -5
EAGAIN == -11
EPIPE == -32
ESTRPIPE == -86

(* EAGAIN and EINTR are over by themselves.  snd_pcm_recover knows what to *)
(* do about an underrun and a suspended stream, and fails for every other  *)
(* error, or when the stream cannot be prepared.                           *)
audio_playback_alsa_recover(answer) ==
    IF \/ answer.rc \in {EAGAIN, EINTR}
       \/ answer.rc \in {EPIPE, ESTRPIPE} /\ answer.prepared
    THEN 0 ELSE -1

(* Mutant: the pointer moves by frames, not by samples. *)
Offered_ByFrames(written, channels, n) == [i \in 1..(n * channels) |-> written + i - 1]

(* The samples a call for n frames reads, `written' frames into the block. *)
Offered(written, channels, n) ==
    [i \in 1..(n * channels) |-> written * channels + i - 1]

(* One turn of the loop, which runs as long as rc is 1. *)
WriteTurn(frames, channels, loop, answer) ==
    LET n == Min({answer.rc, frames - loop.written})
    IN  IF loop.rc # 1 THEN loop
        ELSE IF answer.rc > 0
        THEN [rc |-> IF loop.written + n < frames THEN 1 ELSE 0,
              written |-> loop.written + n,
              took |-> loop.took \o Offered(loop.written, channels, n)]
        ELSE IF answer.rc < 0 /\ audio_playback_alsa_recover(answer) = 0 THEN loop
        ELSE [loop EXCEPT !.rc = -1]

(* The return value (1 if the last call blocks), and the samples the       *)
(* device has taken.                                                       *)
audio_playback_write_all_frames(frames, channels, device) ==
    IF frames = 0 \/ channels = 0 THEN [rc |-> -1, written |-> 0, took |-> <<>>]
    ELSE FoldLeft(LAMBDA loop, answer : WriteTurn(frames, channels, loop, answer),
                  [rc |-> 1, written |-> 0, took |-> <<>>], device)

(* An answer the loop cannot go on from: nothing taken without an error,   *)
(* or an error that is neither an interruption nor one that a prepared     *)
(* stream is over.                                                         *)
Fatal(answer) == /\ answer.rc <= 0
                 /\ answer.rc \notin {EAGAIN, EINTR}
                 /\ answer.rc \in {EPIPE, ESTRPIPE} => ~answer.prepared

(* Through short writes, interruptions, underruns and suspends the device  *)
(* gets the samples of the block once, in order and from the first; the    *)
(* loop says 0 when all of them are written and only then, and it gives up *)
(* only on an answer it cannot go on from                                  *)
(* (audio_playback_write_all_frames, audio_playback_alsa_recover).         *)
WritesEachFrameOnce(frames, channels, device) ==
    LET r == audio_playback_write_all_frames(frames, channels, device)
    IN  /\ r.took = [i \in 1..Len(r.took) |-> i - 1]
        /\ (r.rc = 0) <=> (frames > 0 /\ channels > 0 /\ Len(r.took) = frames * channels)
        /\ r.rc = -1 /\ frames > 0 /\ channels > 0 => \E i \in DOMAIN device : Fatal(device[i])
=============================================================================
