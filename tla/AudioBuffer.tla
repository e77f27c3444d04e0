----------------------------- MODULE AudioBuffer -----------------------------
(***************************************************************************)
(* src/audio_buffer.c: a ring of preallocated blocks behind a mutex.  A    *)
(* block is Chunks pieces, each named by the number of the block it was    *)
(* copied from, so that a half overwritten block can be told.  The copy of *)
(* a push is drawn out over several steps because a popped block is a      *)
(* pointer into the ring: whoever popped it reads it without the mutex.    *)
(***************************************************************************)
EXTENDS Integers

CONSTANTS PbCap,        \* buffer->capacity
          Chunks        \* in how many pieces a block is copied and read

ASSUME BufferAssumption == PbCap \in Nat \ {0} /\ Chunks \in Nat \ {0}

VARIABLES slots,        \* buffer->blocks[i].data
          head, tail, count,
          copying,      \* pieces copied by the push that holds the mutex, or -1
          accepted      \* history: how many blocks were pushed

bufVars == <<slots, head, tail, count, copying, accepted>>

Indices == 0..PbCap-1
Whole(n) == [c \in 1..Chunks |-> n]

BufTypeOK ==
    /\ slots \in [Indices -> [1..Chunks -> Nat]]
    /\ head \in Indices /\ tail \in Indices /\ count \in 0..PbCap
    /\ copying \in 0..Chunks \cup {-1}
    /\ accepted \in Nat

audio_buffer_init ==
    /\ slots = [i \in Indices |-> Whole(0)]
    /\ head = 0 /\ tail = 0 /\ count = 0
    /\ copying = -1
    /\ accepted = 0

(* buffer->mutex can be had. *)
BufFree == copying = -1

(* audio_buffer_push: the lock and the test for a free block ... *)
PushRefused == BufFree /\ count = PbCap /\ UNCHANGED bufVars

(* Mutant: the test allows one block too many. *)
PushBegin_NoCheck ==
    /\ BufFree
    /\ copying' = 0
    /\ UNCHANGED <<slots, head, tail, count, accepted>>

PushBegin ==
    /\ BufFree /\ count < PbCap
    /\ copying' = 0
    /\ UNCHANGED <<slots, head, tail, count, accepted>>

(* ... the memcpy ... *)
PushCopy ==
    /\ copying \in 0..Chunks-1
    /\ slots' = [slots EXCEPT ![tail][copying + 1] = accepted + 1]
    /\ copying' = copying + 1
    /\ UNCHANGED <<head, tail, count, accepted>>

(* Mutant: the index does not wrap. *)
PushEnd_NoWrap ==
    /\ copying = Chunks
    /\ tail' = tail + 1
    /\ count' = count + 1
    /\ accepted' = accepted + 1
    /\ copying' = -1
    /\ UNCHANGED <<slots, head>>

(* ... and the end of the critical section. *)
PushEnd ==
    /\ copying = Chunks
    /\ tail' = (tail + 1) % PbCap
    /\ count' = count + 1
    /\ accepted' = accepted + 1
    /\ copying' = -1
    /\ UNCHANGED <<slots, head>>

(* The number of the block at the head, if the ring is in order. *)
HeadBlock == accepted - count + 1

(* Mutant: the index moves before the block is read. *)
PopSlot_Advanced == (head + 1) % PbCap

(* audio_buffer_pop of a ring that is not empty lends out a slot ... *)
PopSlot == head

(* ... and gives it back to the producer in the same critical section. *)
audio_buffer_pop ==
    /\ BufFree /\ count > 0
    /\ head' = (head + 1) % PbCap
    /\ count' = count - 1
    /\ UNCHANGED <<slots, tail, copying, accepted>>

-----------------------------------------------------------------------------
(***************************************************************************)
(* The ring holds the last count accepted blocks, whole and in the order   *)
(* of the pushes, also while the next one is being copied in.              *)
(***************************************************************************)
RingInOrder ==
    \A i \in 1..count :
        slots[(head + i - 1) % PbCap] = Whole(accepted - count + i)
=============================================================================
