------------------------------ MODULE RingLemmas -----------------------------
(***************************************************************************)
(* Lemmas about rings of n slots, whose indices wrap around with %, as in  *)
(* src/event_queue.c and src/audio_buffer.c, and about the sequences they  *)
(* stand for.                                                              *)
(***************************************************************************)
EXTENDS Integers, Sequences, TLAPS

(* An index that went around at most once is brought back by a subtraction.*)
LEMMA Wrapped ==
    ASSUME NEW n \in Nat \ {0}, NEW x \in 0..2*n-1
    PROVE  x % n = IF x < n THEN x ELSE x - n
  OBVIOUS

(* Moving the end of a stretch of the ring by one slot, after or before    *)
(* going around, is the same.                                              *)
LEMMA WrapEnd ==
    ASSUME NEW n \in Nat \ {0}, NEW h \in 0..n-1, NEW c \in 0..n-1
    PROVE  (((h + c) % n) + 1) % n = (h + (c + 1)) % n
<1>0. \A x \in 0..2*n-1 : x % n = IF x < n THEN x ELSE x - n
  BY Wrapped
<1>1. n \in Nat /\ h \in Nat /\ c \in Nat /\ h < n /\ c < n
  OBVIOUS
<1>2. h + c \in 0..2*n-1 /\ h + (c + 1) \in 0..2*n-1
  BY <1>1
<1>3. /\ (h + c) % n = IF h + c < n THEN h + c ELSE h + c - n
      /\ (h + (c + 1)) % n = IF h + (c + 1) < n THEN h + (c + 1) ELSE h + (c + 1) - n
  <2> DEFINE x == h + c
             y == h + (c + 1)
  <2>1. x \in 0..2*n-1 /\ y \in 0..2*n-1
    BY <1>2
  <2> HIDE DEF x, y
  <2>2. x % n = IF x < n THEN x ELSE x - n
    BY ONLY <1>0, <2>1
  <2>3. y % n = IF y < n THEN y ELSE y - n
    BY ONLY <1>0, <2>1
  <2> QED
    BY ONLY <2>2, <2>3 DEF x, y
<1>4. PICK m \in Nat : m = (h + c) % n /\ m < n
  BY <1>1, <1>3
<1>5. (m + 1) % n = IF m + 1 < n THEN m + 1 ELSE m + 1 - n
  BY <1>0, <1>1, <1>4
<1> QED
  BY <1>1, <1>3, <1>4, <1>5

(* Shortening it by its first slot leaves its end where it is. *)
LEMMA WrapStart ==
    ASSUME NEW n \in Nat \ {0}, NEW h \in 0..n-1, NEW c \in 1..n
    PROVE  (((h + 1) % n) + (c - 1)) % n = (h + c) % n
<1>0. \A x \in 0..2*n-1 : x % n = IF x < n THEN x ELSE x - n
  BY Wrapped
<1>1. n \in Nat /\ h \in Nat /\ c \in Nat /\ h < n /\ c <= n /\ c > 0
  OBVIOUS
<1>2. h + c \in 0..2*n-1 /\ h + 1 \in 0..2*n-1
  BY <1>1
<1>3. /\ (h + c) % n = IF h + c < n THEN h + c ELSE h + c - n
      /\ (h + 1) % n = IF h + 1 < n THEN h + 1 ELSE h + 1 - n
  <2> DEFINE x == h + c
             y == h + 1
  <2>1. x \in 0..2*n-1 /\ y \in 0..2*n-1
    BY <1>2
  <2> HIDE DEF x, y
  <2>2. x % n = IF x < n THEN x ELSE x - n
    BY ONLY <1>0, <2>1
  <2>3. y % n = IF y < n THEN y ELSE y - n
    BY ONLY <1>0, <2>1
  <2> QED
    BY ONLY <2>2, <2>3 DEF x, y
<1>4. PICK m \in Nat : m = (h + 1) % n /\ m < n
  BY <1>1, <1>3
<1>5. PICK d \in Nat : d = c - 1 /\ d < n
  BY <1>1
<1>6. (m + d) % n = IF m + d < n THEN m + d ELSE m + d - n
  BY <1>0, <1>1, <1>4, <1>5
<1> QED
  BY <1>1, <1>3, <1>4, <1>5, <1>6

(* The slot the producer writes to is none of those in use. *)
LEMMA FreeSlot ==
    ASSUME NEW n \in Nat \ {0}, NEW h \in 0..n-1, NEW c \in 0..n-1, NEW i \in 1..c
    PROVE  (h + i - 1) % n # (h + c) % n
<1>0. \A x \in 0..2*n-1 : x % n = IF x < n THEN x ELSE x - n
  BY Wrapped
<1>1. n \in Nat /\ h \in Nat /\ c \in Nat /\ i \in Nat
      /\ h < n /\ c < n /\ i > 0 /\ i <= c
  OBVIOUS
<1>2. h + c \in 0..2*n-1 /\ h + i - 1 \in 0..2*n-1
  BY <1>1
<1>3. (h + c) % n = IF h + c < n THEN h + c ELSE h + c - n
  BY ONLY <1>0, <1>2
<1>4. (h + i - 1) % n = IF h + i - 1 < n THEN h + i - 1 ELSE h + i - 1 - n
  BY ONLY <1>0, <1>2
<1> QED
  BY <1>1, <1>3, <1>4

(* The next slot after the first is the first slot of the rest. *)
LEMMA NextSlot ==
    ASSUME NEW n \in Nat \ {0}, NEW h \in 0..n-1, NEW i \in 1..n-1
    PROVE  (((h + 1) % n) + i - 1) % n = (h + (i + 1) - 1) % n
<1>0. \A x \in 0..2*n-1 : x % n = IF x < n THEN x ELSE x - n
  BY Wrapped
<1>1. n \in Nat /\ h \in Nat /\ i \in Nat /\ h < n /\ i < n /\ i > 0
  OBVIOUS
<1>2. h + i \in 0..2*n-1 /\ h + 1 \in 0..2*n-1
  BY <1>1
<1>3. /\ (h + i) % n = IF h + i < n THEN h + i ELSE h + i - n
      /\ (h + 1) % n = IF h + 1 < n THEN h + 1 ELSE h + 1 - n
  <2> DEFINE x == h + i
             y == h + 1
  <2>1. x \in 0..2*n-1 /\ y \in 0..2*n-1
    BY <1>2
  <2> HIDE DEF x, y
  <2>2. x % n = IF x < n THEN x ELSE x - n
    BY ONLY <1>0, <2>1
  <2>3. y % n = IF y < n THEN y ELSE y - n
    BY ONLY <1>0, <2>1
  <2> QED
    BY ONLY <2>2, <2>3 DEF x, y
<1>4. PICK m \in Nat : m = (h + 1) % n /\ m < n
  BY <1>1, <1>3
<1>5. PICK k \in Nat : k = m + i - 1 /\ k \in 0..2*n-1
  BY <1>1, <1>4
<1>6. k % n = IF k < n THEN k ELSE k - n
  BY <1>0, <1>1, <1>5
<1>7. k % n = (h + i) % n
  BY <1>1, <1>3, <1>4, <1>5, <1>6
<1>8. h + (i + 1) - 1 = h + i
  BY <1>1
<1> QED
  BY <1>4, <1>5, <1>7, <1>8

-----------------------------------------------------------------------------
(* A sequence is the function of its indices. *)
LEMMA SeqIsFunction ==
    ASSUME NEW S, NEW s \in Seq(S)
    PROVE  s = [i \in 1..Len(s) |-> s[i]]
  OBVIOUS

(* The tail of a sequence is the sequence shifted by one. *)
LEMMA TailIs ==
    ASSUME NEW S, NEW s \in Seq(S), s # <<>>
    PROVE  Tail(s) = [i \in 1..(Len(s) - 1) |-> s[i + 1]]
<1>1. Len(s) \in Nat \ {0}
  OBVIOUS
<1>2. Tail(s) \in Seq(S) /\ Len(Tail(s)) = Len(s) - 1
  BY <1>1
<1>3. \A i \in 1..(Len(s) - 1) : Tail(s)[i] = s[i + 1]
  BY <1>1
<1>4. Tail(s) = [i \in 1..Len(Tail(s)) |-> Tail(s)[i]]
  <2> DEFINE t == Tail(s)
  <2> HIDE DEF t
  <2>1. t \in Seq(S)
    BY <1>2 DEF t
  <2>2. t = [i \in 1..Len(t) |-> t[i]]
    BY <2>1, SeqIsFunction
  <2> QED
    BY <2>2 DEF t
<1> QED
  BY <1>2, <1>3, <1>4

=============================================================================
