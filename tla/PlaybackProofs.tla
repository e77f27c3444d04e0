---------------------------- MODULE PlaybackProofs ---------------------------
(***************************************************************************)
(* Proofs, for every size of the ring and of a block and any number of     *)
(* blocks and stops, about the playback of PlaybackThread: its type        *)
(* invariant; that the ring keeps whole blocks in order; that no wake-up   *)
(* is lost; that the block being played is intact until the ring fills up; *)
(* and that, step by step, the whole implements AudioPlayback.             *)
(***************************************************************************)
EXTENDS PlaybackThread, RingLemmas, TLAPS

-----------------------------------------------------------------------------
(* The inductive invariant.                                                *)

(* A push copies into a ring with a free block; a block is played piece by *)
(* piece up to its last one.                                               *)
TypeInv ==
    /\ TypeOK
    /\ count <= accepted
    /\ ~BufFree => count < PbCap
    /\ pc \in {"open", "write"} => written < Chunks

(* The producer's index is count slots ahead of the consumer's, and what a *)
(* push has copied so far is where it belongs.                             *)
RingInv ==
    /\ TypeInv
    /\ tail = (head + count) % PbCap
    /\ \A c \in 1..copying : slots[tail][c] = accepted + 1
    /\ RingInOrder

(* pb->mutex is held from the lock to the wait or the end of the critical  *)
(* section, and what the wait condition found is still so, but for a block *)
(* whose signal is yet to come.  A thread that goes for a block finds one. *)
WaitInv ==
    /\ TypeInv
    /\ locked <=> pc \in {"test", "sleep"}
    /\ pc \in {"sleep", "wait"} => /\ count = 0 \/ signalling
                                   /\ ~stop_requested /\ pbRunning
    /\ pc = "awake" => count > 0 \/ stop_requested
    /\ pc = "clear" => stop_requested
    /\ pc = "take" => count > 0

(* The lent slot is the one before the ring's first. *)
LentInv ==
    /\ LentIntact
    /\ pc \in {"open", "write"} => head = (lent.slot + 1) % PbCap

-----------------------------------------------------------------------------
(* Lemmas about the ring.                                                  *)

(* One slot on from a slot of the ring is a slot of the ring. *)
LEMMA NextIndex ==
    ASSUME NEW i \in Indices
    PROVE  (i + 1) % PbCap \in Indices
<1>1. i + 1 \in 0..2*PbCap-1
  BY BufferAssumption DEF Indices
<1> QED
  BY <1>1, Wrapped, BufferAssumption DEF Indices

(* The block at the head of a ring in order. *)
LEMMA HeadSlot ==
    ASSUME TypeInv, RingInOrder, count > 0
    PROVE  slots[head] = Whole(HeadBlock) /\ HeadBlock \in Nat
<1>1. (head + 1 - 1) % PbCap = head
  <2>1. head \in Nat /\ head \in 0..2*PbCap-1 /\ head < PbCap
    BY BufferAssumption DEF TypeInv, TypeOK, BufTypeOK, Indices
  <2>2. head % PbCap = head
    BY <2>1, Wrapped, BufferAssumption
  <2> QED
    BY <2>1, <2>2
<1>2. 1 \in 1..count /\ accepted \in Nat /\ count \in Nat
  BY BufferAssumption DEF TypeInv, TypeOK, BufTypeOK
<1> QED
  BY <1>1, <1>2 DEF RingInOrder, HeadBlock, TypeInv

(* With room for one more, the producer's slot is not the one before the   *)
(* ring's first.                                                           *)
LEMMA LentSlotIsLast ==
    ASSUME NEW i \in Indices, NEW c \in Nat, c + 1 < PbCap
    PROVE  (((i + 1) % PbCap) + c) % PbCap # i
<1>0. \A x \in 0..2*PbCap-1 : x % PbCap = IF x < PbCap THEN x ELSE x - PbCap
  BY Wrapped, BufferAssumption
<1>1. PbCap \in Nat /\ i \in Nat /\ i < PbCap
  BY BufferAssumption DEF Indices
<1>2. i + 1 \in 0..2*PbCap-1
  BY <1>1
<1>3. PICK m \in Nat : m = (i + 1) % PbCap /\ m < PbCap /\ (m = i + 1 \/ m = i + 1 - PbCap)
  BY <1>0, <1>1, <1>2
<1>4. PICK k \in Nat : k = m + c /\ k \in 0..2*PbCap-1
  BY <1>1, <1>3
<1>5. k % PbCap = IF k < PbCap THEN k ELSE k - PbCap
  BY <1>0, <1>1, <1>4
<1> QED
  BY <1>1, <1>3, <1>4, <1>5

-----------------------------------------------------------------------------
(* Types.                                                                  *)

(* The steps of the playback thread that leave the ring alone. *)
Playback == \/ LockMutex \/ Doze \/ Sleep \/ Awake \/ LookAtStop \/ Stop
            \/ OpenDevice \/ OpenFails \/ WriteFrames \/ WriteFails
            \/ LookAtQueue \/ Notify \/ Close \/ Spurious

(* So do these of the other threads. *)
Asking == audio_playback_request_stop \/ audio_playback_destroy \/ Joined \/ SignalPushed

(* All the steps there are. *)
LEMMA Steps ==
    ASSUME [Next]_vars
    PROVE  \/ Offer \/ Copy \/ Pushed \/ Take
           \/ Playback \/ Asking \/ UNCHANGED vars
  BY DEF Next, Producer, Thread, Playback, Asking

(* The thread and its callers touch the ring by pushes and pops alone. *)
LEMMA RingUntouched ==
    ASSUME Playback \/ Asking \/ UNCHANGED vars
    PROVE  UNCHANGED bufVars
  BY DEF Playback, Asking, vars, LockMutex, Doze, Sleep, Awake, LookAtStop, Stop,
         OpenDevice, OpenFails, WriteFrames, WriteFails, LookAtQueue, Notify,
         Close, Spurious, audio_playback_request_stop, audio_playback_destroy,
         Joined, SignalPushed

(* The types hold at the start ... *)
LEMMA TypeInit == Init => TypeInv
<1> SUFFICES ASSUME Init PROVE TypeInv
  OBVIOUS
<1>1. 0 \in Indices /\ 0 \in 0..PbCap /\ 0 \in 0..Chunks /\ -1 \in 0..Chunks \cup {-1}
  BY BufferAssumption DEF Indices
<1>2. slots \in [Indices -> [1..Chunks -> Nat]]
  BY DEF Init, audio_buffer_init, Whole
<1>3. offers \in 0..MaxBlocks /\ stops \in 0..MaxStops
  BY ThreadAssumption DEF Init
<1>4. BufTypeOK /\ BufFree /\ count <= accepted
  BY <1>1, <1>2 DEF Init, audio_buffer_init, BufTypeOK, BufFree
<1> QED
  BY <1>1, <1>3, <1>4 DEF Init, TypeInv, TypeOK

(* ... and every step keeps them. *)
LEMMA TypeStep == ASSUME TypeInv, [Next]_vars PROVE TypeInv'
<1> USE BufferAssumption, ThreadAssumption
<1>1. CASE Offer
  <2>1. copying' \in 0..Chunks \cup {-1} /\ (copying' # -1 => count < PbCap)
    BY <1>1 DEF TypeInv, TypeOK, BufTypeOK, BufFree, Offer, PushBegin, PushRefused, bufVars
  <2>2. UNCHANGED <<slots, head, tail, count, accepted>>
    BY <1>1 DEF Offer, PushBegin, PushRefused, bufVars
  <2>3. BufTypeOK' /\ count' <= accepted' /\ (~BufFree' => count' < PbCap)
    BY <2>1, <2>2 DEF TypeInv, TypeOK, BufTypeOK, BufFree
  <2>4. /\ UNCHANGED <<pc, locked, lent, written, device, flags, stops>>
        /\ offers' \in 0..MaxBlocks
    BY <1>1 DEF TypeInv, TypeOK, Offer, Producing, flags
  <2> QED
    BY <2>3, <2>4 DEF TypeInv, TypeOK, flags
<1>2. CASE Copy
  <2>1. slots' \in [Indices -> [1..Chunks -> Nat]]
    <3> DEFINE block == [slots[tail] EXCEPT ![copying + 1] = accepted + 1]
    <3>1. /\ slots \in [Indices -> [1..Chunks -> Nat]] /\ tail \in Indices /\ accepted + 1 \in Nat
      BY DEF TypeInv, TypeOK, BufTypeOK
    <3>2. slots[tail] \in [1..Chunks -> Nat]
      BY <3>1
    <3>3. block \in [1..Chunks -> Nat]
      BY ONLY <3>1, <3>2
    <3>4. slots' = [slots EXCEPT ![tail] = block]
      BY <1>2 DEF Copy, PushCopy
    <3> HIDE DEF block
    <3> QED
      BY ONLY <3>1, <3>3, <3>4
  <2>2. copying' \in 0..Chunks /\ copying # -1
    BY <1>2 DEF Copy, PushCopy
  <2>3. UNCHANGED <<head, tail, count, accepted>>
    BY <1>2 DEF Copy, PushCopy
  <2>4. BufTypeOK' /\ count' <= accepted' /\ (~BufFree' => count' < PbCap)
    BY <2>1, <2>2, <2>3 DEF TypeInv, TypeOK, BufTypeOK, BufFree
  <2>5. UNCHANGED <<pc, locked, lent, written, device, flags, bounds>>
    BY <1>2 DEF Copy, Producing, flags, bounds
  <2> QED
    BY <2>4, <2>5 DEF TypeInv, TypeOK, flags, bounds
<1>3. CASE Pushed
  <2>1. tail' \in Indices
    BY <1>3, NextIndex DEF TypeInv, TypeOK, BufTypeOK, Pushed, PushEnd
  <2>2. count' = count + 1 /\ count < PbCap /\ accepted' = accepted + 1
    BY <1>3 DEF TypeInv, BufFree, Pushed, PushEnd
  <2>3. copying' = -1 /\ UNCHANGED <<slots, head>>
    BY <1>3 DEF Pushed, PushEnd
  <2>4. BufTypeOK' /\ count' <= accepted' /\ BufFree'
    BY <2>1, <2>2, <2>3 DEF TypeInv, TypeOK, BufTypeOK, BufFree
  <2>5. /\ UNCHANGED <<pc, locked, lent, written, device, stop_requested, pbRunning, freed, bounds>>
        /\ signalling' = TRUE
    BY <1>3 DEF Pushed, Producing, bounds
  <2> QED
    BY <2>4, <2>5 DEF TypeInv, TypeOK, bounds
<1>4. CASE Take
  <2>1. head' \in Indices
    BY <1>4, NextIndex DEF TypeInv, TypeOK, BufTypeOK, Take, audio_buffer_pop
  <2>2. lent' \in [slot : Indices, block : Nat]
    BY <1>4 DEF TypeInv, TypeOK, BufTypeOK, Take, audio_buffer_pop, PopSlot, HeadBlock
  <2>3. /\ count > 0 /\ count' = count - 1 /\ BufFree
        /\ UNCHANGED <<slots, tail, copying, accepted>>
    BY <1>4 DEF Take, audio_buffer_pop
  <2>4. BufTypeOK' /\ count' <= accepted' /\ BufFree'
    BY <2>1, <2>3 DEF TypeInv, TypeOK, BufTypeOK, BufFree
  <2>5. /\ pc' = "open" /\ written' = 0
        /\ UNCHANGED <<locked, device, flags, bounds>>
    BY <1>4 DEF Take, Goto, Playing, flags
  <2>6. 0 \in 0..Chunks /\ 0 < Chunks
    OBVIOUS
  <2> QED
    BY <2>2, <2>4, <2>5, <2>6 DEF TypeInv, TypeOK, flags, bounds
<1>5. CASE Playback
  <2>1. UNCHANGED bufVars
    BY <1>5, RingUntouched
  <2>2. CASE WriteFrames
    BY <2>1, <2>2 DEF TypeInv, TypeOK, BufTypeOK, BufFree, bufVars, WriteFrames, Playing, bounds
  <2>3. CASE ~WriteFrames
    <3>1. BufTypeOK' /\ count' <= accepted' /\ BufFree' = BufFree
      BY <2>1 DEF TypeInv, TypeOK, BufTypeOK, BufFree, bufVars
    <3>2. CASE LockMutex \/ Doze \/ Sleep \/ Awake \/ Spurious
      BY <2>1, <3>1, <3>2 DEF TypeInv, TypeOK, bufVars, LockMutex, Doze, Sleep, Awake, Spurious,
                              Goto, Quiet, Playing, bounds
    <3>3. CASE LookAtStop \/ Stop \/ OpenDevice \/ OpenFails
      BY <2>1, <3>1, <3>3 DEF TypeInv, TypeOK, bufVars, LookAtStop, Stop, OpenDevice, OpenFails,
                              Goto, Quiet, Playing, bounds
    <3>4. CASE WriteFails \/ LookAtQueue \/ Notify \/ Close
      BY <2>1, <3>1, <3>4 DEF TypeInv, TypeOK, bufVars, WriteFails, LookAtQueue, Notify, Close,
                              Goto, Quiet, Playing, bounds
    <3> QED
      BY <1>5, <2>3, <3>2, <3>3, <3>4 DEF Playback
  <2> QED
    BY <2>2, <2>3
<1>6. CASE Asking
  <2>1. BufTypeOK' /\ count' <= accepted' /\ (~BufFree' => count' < PbCap)
        /\ UNCHANGED <<lent, written>>
    BY <1>6, RingUntouched DEF TypeInv, TypeOK, BufTypeOK, BufFree, bufVars, Asking, Producing,
        audio_playback_request_stop, audio_playback_destroy, Joined, SignalPushed
  <2>2. CASE audio_playback_request_stop
    BY <2>1, <2>2 DEF TypeInv, TypeOK, Signal, audio_playback_request_stop
  <2>3. CASE audio_playback_destroy
    BY <2>1, <2>3 DEF TypeInv, TypeOK, Signal, audio_playback_destroy, bounds
  <2>4. CASE Joined
    BY <2>1, <2>4 DEF TypeInv, TypeOK, Joined, bounds
  <2>5. CASE SignalPushed
    BY <2>1, <2>5 DEF TypeInv, TypeOK, Signal, SignalPushed, Producing
  <2> QED
    BY <1>6, <2>2, <2>3, <2>4, <2>5 DEF Asking
<1>7. CASE UNCHANGED vars
  <2>1. UNCHANGED bufVars /\ UNCHANGED <<pc, locked, lent, written, device>>
        /\ UNCHANGED flags /\ UNCHANGED bounds
    BY <1>7 DEF vars
  <2> QED
    BY <2>1 DEF TypeInv, TypeOK, BufTypeOK, BufFree, bufVars, flags, bounds
<1> QED
  BY <1>1, <1>2, <1>3, <1>4, <1>5, <1>6, <1>7, Steps

(* The temporal part of every proof below. *)
LEMMA SpecIsSafe == Spec => Init /\ [][Next]_vars
  BY PTL DEF Spec

(* The ring's indices and counter stay in range, and the threads at places *)
(* of src/audio_playback.c.                                                *)
THEOREM TypeCorrect == Spec => []TypeOK
<1>1. TypeInv => TypeOK
  BY DEF TypeInv
<1> QED
  BY <1>1, TypeInit, TypeStep, SpecIsSafe, PTL

-----------------------------------------------------------------------------
(* The ring keeps whole blocks in order.                                   *)

(* The ring is in order at the start ... *)
LEMMA RingInit == Init => RingInv
<1> SUFFICES ASSUME Init PROVE RingInv
  OBVIOUS
<1>1. TypeInv
  BY TypeInit
<1>2. (0 + 0) % PbCap = 0
  BY BufferAssumption
<1> QED
  BY <1>1, <1>2 DEF Init, audio_buffer_init, RingInv, RingInOrder

(* ... and every step keeps it so. *)
LEMMA RingStep == ASSUME RingInv, [Next]_vars PROVE RingInv'
<1> USE BufferAssumption DEF Indices
<1>a. TypeInv' /\ TypeInv
  BY TypeStep DEF RingInv
<1>b. /\ head \in Indices /\ tail \in Indices /\ count \in 0..PbCap /\ accepted \in Nat
      /\ slots \in [Indices -> [1..Chunks -> Nat]]
      /\ tail = (head + count) % PbCap
  BY <1>a DEF RingInv, TypeInv, TypeOK, BufTypeOK
<1>1. CASE Offer
  <2>1. UNCHANGED <<slots, head, tail, count, accepted>>
    BY <1>1 DEF Offer, PushBegin, PushRefused, bufVars
  <2>2. \A c \in 1..copying' : slots[tail][c] = accepted + 1
    BY <1>1 DEF RingInv, Offer, PushBegin, PushRefused, bufVars
  <2> QED
    BY <1>a, <2>1, <2>2 DEF RingInv, RingInOrder
<1>2. CASE Copy
  <2>1. /\ copying \in 0..Chunks-1 /\ copying' = copying + 1
        /\ slots' = [slots EXCEPT ![tail][copying + 1] = accepted + 1]
        /\ UNCHANGED <<head, tail, count, accepted>>
    BY <1>2 DEF Copy, PushCopy
  <2>2. count < PbCap
    BY <1>a, <2>1 DEF TypeInv, BufFree
  <2>3. \A c \in 1..copying' : slots'[tail'][c] = accepted' + 1
    <3>1. slots'[tail] = [slots[tail] EXCEPT ![copying + 1] = accepted + 1]
      BY <1>b, <2>1
    <3>2. slots[tail] \in [1..Chunks -> Nat]
      BY <1>b
    <3>3. ASSUME NEW c \in 1..copying PROVE slots'[tail][c] = accepted + 1
      <4>1. slots[tail][c] = accepted + 1
        BY <3>3 DEF RingInv
      <4>2. c \in 1..Chunks /\ c # copying + 1
        BY <2>1
      <4> QED
        BY <3>1, <3>2, <4>1, <4>2
    <3>4. slots'[tail][copying + 1] = accepted + 1
      <4>1. copying + 1 \in 1..Chunks
        BY <2>1
      <4> QED
        BY <3>1, <3>2, <4>1
    <3>5. \A c \in 1..copying' : c \in 1..copying \/ c = copying + 1
      BY <2>1
    <3> QED
      BY <2>1, <3>3, <3>4, <3>5
  <2>4. ASSUME NEW i \in 1..count
        PROVE  slots'[(head + i - 1) % PbCap] = slots[(head + i - 1) % PbCap]
    <3>1. PbCap \in Nat \ {0} /\ head \in 0..PbCap-1 /\ count \in 0..PbCap-1
      BY <1>b, <2>2
    <3>2. (head + i - 1) % PbCap # tail
      BY <1>b, <3>1, FreeSlot
    <3> QED
      BY <1>b, <2>1, <3>2
  <2> QED
    BY <1>a, <1>b, <2>1, <2>3, <2>4 DEF RingInv, RingInOrder
<1>3. CASE Pushed
  <2>1. /\ copying = Chunks /\ copying' = -1
        /\ tail' = (tail + 1) % PbCap /\ count' = count + 1 /\ accepted' = accepted + 1
        /\ UNCHANGED <<slots, head>>
    BY <1>3 DEF Pushed, PushEnd
  <2>2. count \in 0..PbCap-1
    BY <1>a, <1>b, <2>1 DEF TypeInv, BufFree
  <2>3. tail' = (head' + count') % PbCap
    BY <1>b, <2>1, <2>2, WrapEnd
  <2>4. slots[tail] = Whole(accepted + 1)
    BY <1>b, <2>1 DEF RingInv, Whole
  <2>5. ASSUME NEW i \in 1..count'
        PROVE  slots'[(head' + i - 1) % PbCap] = Whole(accepted' - count' + i)
    <3>1. CASE i = count + 1
      <4>1. head + i - 1 = head + count /\ accepted' - count' + i = accepted + 1
        BY <1>b, <2>1, <3>1
      <4> QED
        BY <1>b, <2>1, <2>4, <4>1
    <3>2. CASE i # count + 1
      <4>1. i \in 1..count /\ accepted' - count' + i = accepted - count + i
        BY <1>b, <2>1, <3>2
      <4> QED
        BY <2>1, <4>1 DEF RingInv, RingInOrder
    <3> QED
      BY <3>1, <3>2
  <2>6. \A c \in 1..copying' : slots'[tail'][c] = accepted' + 1
    BY <2>1
  <2> QED
    BY <1>a, <2>3, <2>5, <2>6 DEF RingInv, RingInOrder
<1>4. CASE Take
  <2>1. /\ count > 0 /\ copying = -1
        /\ head' = (head + 1) % PbCap /\ count' = count - 1
        /\ UNCHANGED <<slots, tail, copying, accepted>>
    BY <1>4 DEF Take, audio_buffer_pop, BufFree
  <2>2. tail' = (head' + count') % PbCap
    <3>1. PbCap \in Nat \ {0} /\ head \in 0..PbCap-1 /\ count \in 1..PbCap
      BY <1>b, <2>1
    <3>2. (((head + 1) % PbCap) + (count - 1)) % PbCap = (head + count) % PbCap
      BY <3>1, WrapStart
    <3> QED
      BY <1>b, <2>1, <3>2
  <2>3. ASSUME NEW i \in 1..count'
        PROVE  slots'[(head' + i - 1) % PbCap] = Whole(accepted' - count' + i)
    <3>1. /\ i + 1 \in 1..count /\ i \in 1..PbCap-1
          /\ accepted' - count' + i = accepted - count + (i + 1)
      BY <1>b, <2>1
    <3>2. (head' + i - 1) % PbCap = (head + (i + 1) - 1) % PbCap
      BY <1>b, <2>1, <3>1, NextSlot
    <3> QED
      BY <2>1, <3>1, <3>2 DEF RingInv, RingInOrder
  <2>4. \A c \in 1..copying' : slots'[tail'][c] = accepted' + 1
    BY <2>1
  <2> QED
    BY <1>a, <2>2, <2>3, <2>4 DEF RingInv, RingInOrder
<1>5. CASE Playback \/ Asking \/ UNCHANGED vars
  <2>1. UNCHANGED bufVars
    BY <1>5, RingUntouched
  <2> QED
    BY <1>a, <2>1 DEF RingInv, RingInOrder, bufVars
<1> QED
  BY <1>1, <1>2, <1>3, <1>4, <1>5, Steps

(* Blocks leave audio_buffer in the order they came in, none twice and     *)
(* none missing, and each as a whole, also while the next is copied in.    *)
THEOREM BlocksInOrder == Spec => []RingInOrder
<1>1. RingInv => RingInOrder
  BY DEF RingInv
<1> QED
  BY <1>1, RingInit, RingStep, SpecIsSafe, PTL

-----------------------------------------------------------------------------
(* The playback thread is woken.                                           *)

(* Nobody waits at the start ... *)
LEMMA WaitInit == Init => WaitInv
  BY TypeInit DEF Init, audio_buffer_init, WaitInv

(* ... and every step leaves the condition as the waiting thread found it. *)
LEMMA WaitStep == ASSUME WaitInv, [Next]_vars PROVE WaitInv'
<1>a. TypeInv' /\ TypeInv
  BY TypeStep DEF WaitInv
<1>b. /\ count \in Nat /\ locked \in BOOLEAN /\ signalling \in BOOLEAN
      /\ stop_requested \in BOOLEAN /\ pbRunning \in BOOLEAN
  BY <1>a, BufferAssumption DEF TypeInv, TypeOK, BufTypeOK
<1>1. CASE Offer \/ Copy
  BY <1>1, <1>a DEF WaitInv, Offer, Copy, PushBegin, PushRefused, PushCopy, bufVars, Producing
<1>2. CASE Pushed
  BY <1>2, <1>a, <1>b DEF WaitInv, Pushed, PushEnd, Producing
<1>3. CASE SignalPushed
  BY <1>3, <1>a, <1>b DEF WaitInv, SignalPushed, Signal, bufVars, Producing
<1>4. CASE audio_playback_request_stop \/ audio_playback_destroy \/ Joined
  BY <1>4, <1>a, <1>b DEF WaitInv, audio_playback_request_stop, audio_playback_destroy, Joined,
      Signal, bufVars
<1>5. CASE LockMutex \/ Doze \/ Sleep \/ Awake \/ Spurious
  BY <1>5, <1>a, <1>b DEF WaitInv, LockMutex, Doze, Sleep, Awake, Spurious, MustWait, Goto,
      Quiet, Playing, bufVars
<1>6. CASE LookAtStop \/ Stop
  BY <1>6, <1>a, <1>b DEF WaitInv, LookAtStop, Stop, Goto, Quiet, Playing, bufVars
<1>7. CASE Take
  BY <1>7, <1>a, <1>b DEF WaitInv, Take, audio_buffer_pop, Goto, Playing
<1>8. CASE \/ OpenDevice \/ OpenFails \/ WriteFrames \/ WriteFails
           \/ LookAtQueue \/ Notify \/ Close
  BY <1>8, <1>a, <1>b DEF WaitInv, OpenDevice, OpenFails, WriteFrames, WriteFails, LookAtQueue,
      Notify, Close, Goto, Quiet, Playing, bufVars
<1>9. CASE UNCHANGED vars
  BY <1>9, <1>a DEF WaitInv, vars, flags, bufVars
<1> QED
  BY <1>1, <1>2, <1>3, <1>4, <1>5, <1>6, <1>7, <1>8, <1>9 DEF Next, Producer, Thread

(* While the playback thread is in pthread_cond_wait, no stop is requested *)
(* and the end has not come, and a queued block is one whose signal is yet *)
(* to come from audio_playback_enqueue.                                    *)
THEOREM NoWakeupIsLost == Spec => []NoLostWakeup
<1>1. WaitInv => NoLostWakeup
  BY DEF WaitInv, NoLostWakeup
<1> QED
  BY <1>1, WaitInit, WaitStep, SpecIsSafe, PTL

-----------------------------------------------------------------------------
(* The block being played.                                                 *)

(* Nothing is lent at the start ... *)
LEMMA LentInit == Init => LentInv
  BY DEF Init, LentInv, LentIntact

(* ... and only a push into the last free slot spoils what is. *)
LEMMA LentStep == ASSUME RingInv, LentInv, [Next]_vars PROVE LentInv'
<1> USE BufferAssumption DEF Indices
<1>a. /\ TypeInv /\ TypeInv'
      /\ head \in Indices /\ tail \in Indices /\ count \in Nat /\ lent.slot \in Indices
      /\ slots \in [Indices -> [1..Chunks -> Nat]]
      /\ written \in Nat /\ Chunks \in Nat
      /\ tail = (head + count) % PbCap
  <2>1. TypeInv /\ TypeInv'
    BY TypeStep DEF RingInv
  <2>2. lent \in [slot : Indices, block : Nat] /\ written \in 0..Chunks /\ BufTypeOK
    BY <2>1 DEF TypeInv, TypeOK
  <2>3. head \in Indices /\ tail \in Indices /\ count \in 0..PbCap
        /\ slots \in [Indices -> [1..Chunks -> Nat]]
    BY <2>2 DEF BufTypeOK
  <2>4. count \in Nat /\ written \in Nat /\ Chunks \in Nat /\ lent.slot \in Indices
    BY <2>2, <2>3
  <2>5. tail = (head + count) % PbCap
    BY DEF RingInv
  <2> QED
    BY <2>1, <2>3, <2>4, <2>5
<1>1. CASE Offer
  <2>1. InRing' < PbCap => InRing < PbCap
    BY <1>1, <1>a DEF Offer, PushBegin, PushRefused, InRing, BufFree, bufVars
  <2> QED
    BY <1>1, <2>1 DEF LentInv, LentIntact, Offer, PushBegin, PushRefused, bufVars, Producing
<1>2. CASE Copy
  <2>1. /\ copying \in 0..Chunks-1 /\ copying' \in 1..Chunks
        /\ slots' = [slots EXCEPT ![tail][copying + 1] = accepted + 1]
        /\ UNCHANGED <<head, count, pc, lent, written>>
    BY <1>2 DEF Copy, PushCopy, Producing
  <2>2. InRing = count + 1 /\ InRing' = count + 1
    BY <2>1 DEF InRing, BufFree
  <2>3. ASSUME pc \in {"open", "write"}, count + 1 < PbCap PROVE tail # lent.slot
    BY <1>a, <2>3, LentSlotIsLast DEF LentInv
  <2>4. ASSUME pc \in {"open", "write"}, count + 1 < PbCap
        PROVE  slots'[lent.slot] = slots[lent.slot]
    BY <1>a, <2>1, <2>3, <2>4
  <2>5. LentIntact'
    BY <2>1, <2>2, <2>4 DEF LentInv, LentIntact
  <2> QED
    BY <2>1, <2>5 DEF LentInv
<1>3. CASE Pushed
  <2>1. /\ copying = Chunks /\ copying' = -1 /\ count' = count + 1
        /\ UNCHANGED <<slots, head, pc, lent, written>>
    BY <1>3 DEF Pushed, PushEnd, Producing
  <2>2. InRing' = InRing
    BY <1>a, <2>1 DEF InRing, BufFree
  <2> QED
    BY <2>1, <2>2 DEF LentInv, LentIntact
<1>4. CASE Take
  <2>1. /\ count > 0
        /\ lent' = [slot |-> head, block |-> HeadBlock] /\ written' = 0
        /\ head' = (head + 1) % PbCap /\ slots' = slots
    BY <1>4 DEF Take, audio_buffer_pop, PopSlot
  <2>2. slots[head] = Whole(HeadBlock)
    BY <1>a, <2>1, HeadSlot DEF RingInv
  <2>3. \A c \in written'+1..Chunks : slots'[lent'.slot][c] = lent'.block
    BY <2>1, <2>2 DEF Whole
  <2> QED
    BY <2>1, <2>3 DEF LentInv, LentIntact
<1>5. CASE Playback \/ Asking \/ UNCHANGED vars
  <2>1. UNCHANGED bufVars
    BY <1>5, RingUntouched
  <2>2. /\ pc' \in {"open", "write"} => pc \in {"open", "write"}
        /\ UNCHANGED lent
        /\ written' \in {written, written + 1}
    BY <1>5 DEF Playback, Asking, vars, LockMutex, Doze, Sleep, Awake, LookAtStop, Stop,
       OpenDevice, OpenFails, WriteFrames, WriteFails, LookAtQueue, Notify,
       Close, Spurious, audio_playback_request_stop, audio_playback_destroy,
       Joined, SignalPushed, Signal, Goto, Quiet, Producing
  <2>3. InRing' = InRing /\ slots' = slots /\ head' = head
    BY <2>1 DEF InRing, BufFree, bufVars
  <2>4. \A c \in written'+1..Chunks : c \in written+1..Chunks
    <3>1. CASE written' = written
      BY <3>1
    <3>2. CASE written' = written + 1
      BY <1>a, <3>2
    <3> QED
      BY <2>2, <3>1, <3>2
  <2> QED
    BY <2>2, <2>3, <2>4 DEF LentInv, LentIntact
<1> QED
  BY <1>1, <1>2, <1>3, <1>4, <1>5, Steps

(* What is still to be written of the block audio_buffer_pop lent out is   *)
(* what was pushed, although its slot may be used again, until a push goes *)
(* into the last free slot.                                                *)
THEOREM LentBlockIsIntact == Spec => []LentIntact
<1>1. LentInv => LentIntact
  BY DEF LentInv
<1> QED
  BY <1>1, RingInit, RingStep, LentInit, LentStep, SpecIsSafe, PTL

-----------------------------------------------------------------------------
(* The refinement.                                                         *)

(* Where the application sees the playback thread. *)
absPc == CASE pc \in {"lock", "test", "sleep", "wait"} -> "wait"
           [] pc \in {"awake", "clear"} -> "awake"
           [] pc \in {"open", "write", "size"} -> "write"
           [] pc \in {"close", "exited"} -> "exited"
           [] OTHER -> pc

(* The start is a start of AudioPlayback ... *)
LEMMA InitRefines == Init => Abstract!PbInit
  BY DEF Init, audio_buffer_init, Abstract!PbInit

(* ... and every step is a step of it or none. *)
LEMMA StepRefines ==
    ASSUME WaitInv, [Next]_vars
    PROVE  [Abstract!PbNext]_Abstract!pbVars
<1>a. TypeInv
  BY DEF WaitInv
<1>b. count \in 0..PbCap /\ PbCap \in Nat
  BY <1>a, BufferAssumption DEF TypeInv, TypeOK, BufTypeOK
<1> USE DEF Abstract!PbNext, Abstract!pbVars
<1>1. CASE \/ Offer \/ Copy \/ SignalPushed \/ Joined \/ LockMutex \/ Doze \/ Sleep
           \/ Spurious \/ OpenDevice \/ Close \/ UNCHANGED vars
  <2>1. absPc' = absPc
    BY <1>1 DEF absPc, Offer, Copy, SignalPushed, Signal, Joined, LockMutex, Doze, Sleep, Spurious,
        OpenDevice, Close, Goto, vars
  <2>2. UNCHANGED <<count, stop_requested, pbRunning>>
    BY <1>1 DEF Offer, PushBegin, PushRefused, Copy, PushCopy, SignalPushed, Joined, LockMutex, Doze,
        Sleep, Spurious, OpenDevice, Close, Producing, Quiet, Playing, bufVars, vars, flags
  <2> QED
    BY <2>1, <2>2 DEF absPc
<1>2. CASE Pushed
  <2>1. absPc' = absPc /\ count < PbCap
    BY <1>2, <1>a, BufferAssumption DEF absPc, Pushed, PushEnd, TypeInv, BufFree
  <2>2. Abstract!audio_playback_enqueue
    BY <1>2, <2>1 DEF Abstract!audio_playback_enqueue, absPc, Pushed, PushEnd, Producing
  <2> QED
    BY <2>2
<1>3. CASE audio_playback_request_stop
  <2>1. absPc' = absPc
    BY <1>3 DEF absPc, audio_playback_request_stop, Signal
  <2>2. Abstract!audio_playback_request_stop
    BY <1>3, <2>1
    DEF Abstract!audio_playback_request_stop, audio_playback_request_stop, absPc, bufVars
  <2> QED
    BY <2>2
<1>4. CASE audio_playback_destroy
  <2>1. absPc' = absPc
    BY <1>4 DEF absPc, audio_playback_destroy, Signal
  <2>2. Abstract!audio_playback_destroy
    BY <1>4, <2>1
    DEF Abstract!audio_playback_destroy, audio_playback_destroy, absPc, bufVars
  <2> QED
    BY <2>2
<1>5. CASE Awake
  <2>1. Abstract!PbWake
    BY <1>5, <1>b DEF Awake, MustWait, Goto, Quiet, Playing, bufVars, Abstract!PbWake
  <2> QED
    BY <2>1
<1>6. CASE LookAtStop
  <2>1. CASE stop_requested
    <3>1. UNCHANGED <<absPc, count, stop_requested, pbRunning>>
      BY <1>6, <2>1 DEF LookAtStop, Goto, Quiet, Playing, bufVars, absPc
    <3> QED
      BY <3>1 DEF absPc
  <2>2. CASE ~stop_requested
    <3>1. Abstract!PbProceeds
      BY <1>6, <2>2 DEF LookAtStop, Goto, Quiet, Playing, bufVars, Abstract!PbProceeds
    <3> QED
      BY <3>1
  <2> QED
    BY <2>1, <2>2
<1>7. CASE Stop
  <2>1. Abstract!PbStopped
    BY <1>7 DEF Stop, WaitInv, Goto, Playing, bufVars, Abstract!PbStopped
  <2> QED
    BY <2>1
<1>8. CASE Take
  <2>1. Abstract!PbTake
    BY <1>8, <1>b DEF Take, audio_buffer_pop, Goto, Playing, Abstract!PbTake
  <2> QED
    BY <2>1
<1>9. CASE OpenFails \/ WriteFails
  <2>1. Abstract!PbDeviceFails
    BY <1>9 DEF OpenFails, WriteFails, Goto, Quiet, Playing, bufVars, Abstract!PbDeviceFails
  <2> QED
    BY <2>1
<1>10. CASE WriteFrames
  <2>1. UNCHANGED <<absPc, count, stop_requested, pbRunning>>
    BY <1>10 DEF WriteFrames, Playing, bufVars, absPc
  <2> QED
    BY <2>1 DEF absPc
<1>11. CASE LookAtQueue
  <2>1. Abstract!PbWritten
    BY <1>11 DEF LookAtQueue, Goto, Quiet, Playing, bufVars, Abstract!PbWritten
  <2> QED
    BY <2>1
<1>12. CASE Notify
  <2>1. Abstract!PbNotify
    BY <1>12 DEF Notify, Goto, Quiet, Playing, bufVars, Abstract!PbNotify
  <2> QED
    BY <2>1
<1> QED
  BY <1>1, <1>2, <1>3, <1>4, <1>5, <1>6, <1>7, <1>8, <1>9, <1>10, <1>11, <1>12
  DEF Next, Producer, Thread

(* What AppRuntime takes src/audio_playback.c for is what it does: every   *)
(* step of the ring, the wait, the stop flag and the device is one step of *)
(* AudioPlayback or none.                                                  *)
THEOREM PlaybackIsAbstract == Spec => ImplementsPlayback
<1>1. WaitInv /\ [Next]_vars => [Abstract!PbNext]_Abstract!pbVars
  BY StepRefines
<1> QED
  BY <1>1, InitRefines, WaitInit, WaitStep, SpecIsSafe, PTL
  DEF ImplementsPlayback, Abstract!PbSpec

=============================================================================
