------------------------------ MODULE FrameProofs -----------------------------
(***************************************************************************)
(* Proofs about the assembly of received messages, for every size of the   *)
(* buffers and of an event, every number and length of messages and every  *)
(* way the network cuts them up.  The inductive invariant Sound says what  *)
(* a buffer may hold at any moment; text and binary have the same one.     *)
(***************************************************************************)
EXTENDS FrameAssembly, SequenceTheorems, TLAPS

-----------------------------------------------------------------------------
(* The invariants.                                                         *)

(* Units of the same message follow each other. *)
Joined(s) ==
    \A i \in 1..Len(s) - 1 :
        s[i][1] = s[i+1][1] => s[i+1][2] = s[i][2] + 1

(* None of the units is of a message yet to come. *)
Known(s) == \A i \in 1..Len(s) : s[i][1] <= msg.id

(* If the last one is of the message under way, nothing came behind it.    *)
UpToDate(s, k) ==
    msg.kind = k /\ s # <<>> /\ s[Len(s)][1] = msg.id => s[Len(s)][2] = sent

(* A buffer that is not hurt holds what has arrived of its message.        *)
Faithful(s, k) ==
    k \notin hurt => s = IF msg.kind = k THEN Units(msg, 0, sent) ELSE <<>>

Sound(s, k) == Joined(s) /\ Known(s) /\ UpToDate(s, k) /\ Faithful(s, k)

(* What the types leave out: a message under way has a number and a        *)
(* length, and no more of it has arrived than there is.                    *)
MsgInv ==
    /\ sent <= msg.len
    /\ msg.kind # "none" => msg.id >= 1 /\ msg.len >= 1

BufferInv == Sound(recvText, "text") /\ Sound(recvBinary, "binary")

(* The types, those of the state and those of what the application is told.*)
OutTypeOK ==
    /\ out.call \in {"none", "on_text", "on_binary", "on_error"}
    /\ out.data \in Seq(Unit) /\ out.hurt \in BOOLEAN
    /\ out.call = "on_text" => Len(out.data) < EventCap

OutInv == OutTypeOK /\ MessagesWhole

StateTypeOK ==
    /\ open \in BOOLEAN
    /\ msg \in [kind : Kinds \cup {"none"}, id : 0..MaxMessages, len : 0..MaxLen]
    /\ sent \in 0..MaxLen
    /\ recvText \in Seq(Unit) /\ Len(recvText) < RecvCap
    /\ recvBinary \in Seq(Unit) /\ Len(recvBinary) <= RecvCap
    /\ hurt \subseteq Kinds
    /\ drops \in 0..MaxDrops

Inv == StateTypeOK /\ MsgInv /\ BufferInv /\ OutInv

-----------------------------------------------------------------------------
(* Sequences of units.                                                     *)

(* A piece of a message: so many units of it, one after the other. *)
LEMMA UnitsAre ==
    ASSUME NEW m, m.id \in 1..MaxMessages,
           NEW a \in Nat, NEW b \in Nat, a <= b, b <= MaxLen
    PROVE  /\ Units(m, a, b) \in Seq(Unit)
           /\ Len(Units(m, a, b)) = b - a
           /\ \A i \in 1..(b - a) : Units(m, a, b)[i] = <<m.id, a + i>>
           /\ Joined(Units(m, a, b))
<1> DEFINE n == b - a
           u == [i \in 1..n |-> <<m.id, a + i>>]
<1>1. n \in Nat /\ Units(m, a, b) = u
    BY DEF Units
<1>2. \A i \in 1..n : <<m.id, a + i>> \in Unit
    BY FrameAssumption DEF Unit
<1>3. u \in Seq(Unit) /\ Len(u) = n
  <2>1. u \in [1..n -> Unit] /\ n \in Nat
      BY <1>1, <1>2
  <2> HIDE DEF u, n
  <2> QED BY <2>1
<1>4. \A i \in 1..n : u[i] = <<m.id, a + i>>
    OBVIOUS
<1>5. Joined(u)
  <2> SUFFICES ASSUME NEW i \in 1..Len(u) - 1
               PROVE  u[i+1][2] = u[i][2] + 1
      BY DEF Joined
  <2>1. i \in 1..n /\ i + 1 \in 1..n /\ i \in Nat
      BY <1>1, <1>3
  <2>2. u[i] = <<m.id, a + i>> /\ u[i+1] = <<m.id, a + (i + 1)>>
      BY <1>4, <2>1
  <2> QED BY <2>1, <2>2
<1> QED BY <1>1, <1>3, <1>4, <1>5

(* What has arrived and what arrives next.                                 *)
LEMMA UnitsAppended ==
    ASSUME NEW m, m.id \in 1..MaxMessages,
           NEW a \in Nat, NEW b \in Nat, a <= b, b <= MaxLen
    PROVE  Units(m, 0, a) \o Units(m, a, b) = Units(m, 0, b)
<1> DEFINE s == Units(m, 0, a)
           t == Units(m, a, b)
           u == Units(m, 0, b)
<1>1. /\ s \in Seq(Unit) /\ Len(s) = a /\ \A i \in 1..a : s[i] = <<m.id, 0 + i>>
      /\ t \in Seq(Unit) /\ Len(t) = b - a
      /\ \A i \in 1..(b - a) : t[i] = <<m.id, a + i>>
      /\ u \in Seq(Unit) /\ Len(u) = b /\ \A i \in 1..b : u[i] = <<m.id, 0 + i>>
  <2>1. a - 0 = a /\ b - 0 = b /\ a <= MaxLen /\ 0 <= a /\ 0 <= b /\ 0 \in Nat
      BY FrameAssumption
  <2>2. /\ s \in Seq(Unit) /\ Len(s) = a - 0
        /\ \A i \in 1..(a - 0) : s[i] = <<m.id, 0 + i>>
      BY <2>1, UnitsAre
  <2>3. /\ u \in Seq(Unit) /\ Len(u) = b - 0
        /\ \A i \in 1..(b - 0) : u[i] = <<m.id, 0 + i>>
      BY <2>1, UnitsAre
  <2>4. /\ t \in Seq(Unit) /\ Len(t) = b - a
        /\ \A i \in 1..(b - a) : t[i] = <<m.id, a + i>>
      BY UnitsAre
  <2> HIDE DEF s, t, u
  <2> QED BY <2>1, <2>2, <2>3, <2>4
<1> HIDE DEF s, t, u
<1>2. /\ s \o t \in Seq(Unit) /\ Len(s \o t) = b
      /\ \A i \in 1..b : (s \o t)[i] = IF i <= a THEN s[i] ELSE t[i - a]
  <2>1. Len(s) + Len(t) = b
      BY <1>1
  <2>2. /\ s \o t \in Seq(Unit) /\ Len(s \o t) = Len(s) + Len(t)
        /\ \A i \in 1..Len(s) + Len(t) :
              (s \o t)[i] = IF i <= Len(s) THEN s[i] ELSE t[i - Len(s)]
      BY <1>1, ConcatProperties
  <2> QED BY <1>1, <2>1, <2>2
<1>3. \A i \in 1..b : (s \o t)[i] = u[i]
  <2> SUFFICES ASSUME NEW i \in 1..b PROVE (s \o t)[i] = u[i]
      OBVIOUS
  <2>0. u[i] = <<m.id, 0 + i>>
      BY <1>1
  <2>1. CASE i <= a
    <3>1. i \in 1..a
        BY <2>1
    <3> QED BY <1>1, <1>2, <2>0, <2>1, <3>1
  <2>2. CASE ~(i <= a)
    <3>1. i - a \in 1..(b - a) /\ a + (i - a) = 0 + i
        BY <2>2
    <3>2. t[i - a] = <<m.id, a + (i - a)>>
        BY <1>1, <3>1
    <3> QED BY <1>2, <2>0, <2>2, <3>1, <3>2
  <2> QED BY <2>1, <2>2
<1>4. s \o t = u
    BY <1>1, <1>2, <1>3, SeqEqual
<1> QED BY <1>4 DEF s, t, u

(* Two runs without a hole, with none between them, make one.              *)
LEMMA JoinedConcat ==
    ASSUME NEW s \in Seq(Unit), NEW t \in Seq(Unit), Joined(s), Joined(t),
           s # <<>> /\ t # <<>> /\ s[Len(s)][1] = t[1][1]
              => t[1][2] = s[Len(s)][2] + 1
    PROVE  Joined(s \o t)
<1> DEFINE r == s \o t
           a == Len(s)
           b == Len(t)
<1>1. /\ a \in Nat /\ b \in Nat /\ Len(r) = a + b
      /\ \A i \in 1..(a + b) : r[i] = IF i <= a THEN s[i] ELSE t[i - a]
    BY ConcatProperties
<1>2. (a > 0 => s # <<>>) /\ (b > 0 => t # <<>>)
    OBVIOUS
<1> SUFFICES ASSUME NEW i \in 1..Len(r) - 1, r[i][1] = r[i+1][1]
             PROVE  r[i+1][2] = r[i][2] + 1
    BY DEF Joined
<1> HIDE DEF r, a, b
<1>3. i \in 1..(a + b) /\ i + 1 \in 1..(a + b) /\ i \in Nat
    BY <1>1
<1>4. CASE i + 1 <= a
  <2>1. r[i] = s[i] /\ r[i+1] = s[i+1] /\ i \in 1..a - 1
      BY <1>1, <1>3, <1>4
  <2> QED BY <2>1 DEF Joined, a
<1>5. CASE i = a
  <2>1. r[i] = s[a] /\ r[i+1] = t[1] /\ a > 0 /\ b > 0
      BY <1>1, <1>3, <1>5
  <2> QED BY <1>2, <2>1 DEF a
<1>6. CASE i > a
  <2>1. PICK j \in Nat : j = i - a /\ j \in 1..b - 1
      BY <1>1, <1>3, <1>6
  <2>2. r[i] = t[j] /\ r[i+1] = t[j+1]
    <3>1. (i + 1) - a = j + 1
        BY <1>1, <1>3, <2>1
    <3> QED BY <1>1, <1>3, <1>6, <2>1, <3>1
  <2> QED BY <2>1, <2>2 DEF Joined, b
<1> QED BY <1>1, <1>3, <1>4, <1>5, <1>6

(* Cutting the end off leaves no hole.                                     *)
LEMMA JoinedPrefix ==
    ASSUME NEW s \in Seq(Unit), Joined(s), NEW n \in Nat, n <= Len(s)
    PROVE  /\ SubSeq(s, 1, n) \in Seq(Unit) /\ Len(SubSeq(s, 1, n)) = n
           /\ Joined(SubSeq(s, 1, n))
           /\ IsPrefix(SubSeq(s, 1, n), s)
<1> DEFINE r == SubSeq(s, 1, n)
<1>1. \A i \in 1..n : s[i] \in Unit
    OBVIOUS
<1>2. r \in Seq(Unit) /\ Len(r) = n /\ \A i \in 1..n : r[i] = s[i]
    BY <1>1
<1>3. Joined(r)
    BY <1>2 DEF Joined
<1>4. SubSeq(r, 1, Len(r)) = r
    BY <1>2, SubSeqFull
<1>5. IsPrefix(r, s)
    BY <1>2, <1>4 DEF IsPrefix
<1> QED BY <1>2, <1>3, <1>5

(* An empty buffer holds nothing that could be wrong. *)
LEMMA EmptyIsSound ==
    /\ <<>> \in Seq(Unit) /\ Len(<<>>) = 0
    /\ Joined(<<>>) /\ Known(<<>>)
    /\ \A k : UpToDate(<<>>, k)
    BY DEF Joined, Known, UpToDate

-----------------------------------------------------------------------------
(* What the application is told.                                           *)

(* What was told stays right until something else is told. *)
LEMMA OutKept == OutInv /\ UNCHANGED out => OutInv'
    BY DEF OutInv, OutTypeOK, MessagesWhole, BinaryWhole, TextWhole, NoHoles, Delivered

(* An error says nothing about a message. *)
LEMMA ErrorTold ==
    ASSUME Call("on_error", <<>>)
    PROVE  OutInv'
<1>1. out'.call = "on_error" /\ out'.data = <<>> /\ out'.hurt \in BOOLEAN
    BY DEF Call
<1>2. <<>> \in Seq(Unit)
    BY EmptyIsSound
<1> QED BY <1>1, <1>2
        DEF OutInv, OutTypeOK, MessagesWhole, BinaryWhole, TextWhole, NoHoles, Delivered

(* A text is cut off behind, if at all.                                    *)
LEMMA TextTold ==
    ASSUME NEW all \in Seq(Unit), Joined(all), msg.len \in Nat,
           Call("on_text", app_push_event(all)),
           msg.kind \notin hurt => all = WholeOf(msg) /\ Len(all) = msg.len
    PROVE  OutInv'
<1> DEFINE d == app_push_event(all)
<1>0. EventCap \in Nat \ {0} /\ Len(all) \in Nat
    BY FrameAssumption
<1>1. /\ d \in Seq(Unit) /\ Joined(d) /\ Len(d) < EventCap
      /\ IsPrefix(d, all)
      /\ Len(d) < Len(all) => Len(d) = EventCap - 1
  <2>1. CASE Len(all) < EventCap
    <3>1. d = all /\ IsPrefix(all, all)
        BY <1>0, <2>1 DEF app_push_event, IsPrefix
    <3> QED BY <1>0, <2>1, <3>1
  <2>2. CASE ~(Len(all) < EventCap)
    <3>1. d = SubSeq(all, 1, EventCap - 1) /\ EventCap - 1 \in Nat
          /\ EventCap - 1 <= Len(all)
        BY <1>0, <2>2 DEF app_push_event
    <3>2. /\ d \in Seq(Unit) /\ Len(d) = EventCap - 1 /\ Joined(d)
          /\ IsPrefix(d, all)
        BY <3>1, JoinedPrefix
    <3> QED BY <1>0, <3>2
  <2> QED BY <2>1, <2>2
<1>2. /\ out'.call = "on_text" /\ out'.data = d /\ out'.of = msg
      /\ out'.hurt = (msg.kind \in hurt)
    BY DEF Call
<1> HIDE DEF d
<1>3. OutTypeOK'
    BY <1>1, <1>2 DEF OutTypeOK
<1>4. TextWhole'
    BY <1>1, <1>2 DEF TextWhole
<1>5. BinaryWhole' /\ NoHoles'
    BY <1>1, <1>2 DEF BinaryWhole, NoHoles, Joined
<1> QED BY <1>3, <1>4, <1>5 DEF OutInv, MessagesWhole

(* A binary message is handed over as it lies in the buffer. *)
LEMMA BinaryTold ==
    ASSUME NEW all \in Seq(Unit), Joined(all), Call("on_binary", all),
           msg.kind \notin hurt => all = WholeOf(msg)
    PROVE  OutInv'
<1>1. /\ out'.call = "on_binary" /\ out'.data = all /\ out'.of = msg
      /\ out'.hurt = (msg.kind \in hurt)
    BY DEF Call
<1>2. OutTypeOK'
    BY <1>1 DEF OutTypeOK
<1>3. BinaryWhole'
    BY <1>1 DEF BinaryWhole
<1>4. TextWhole' /\ NoHoles'
    BY <1>1 DEF TextWhole, NoHoles, Joined
<1> QED BY <1>2, <1>3, <1>4 DEF OutInv, MessagesWhole

-----------------------------------------------------------------------------
(* What a buffer holds once the next units are behind the others.          *)

(* What arrives continues what the buffer holds. *)
LEMMA Appended ==
    ASSUME StateTypeOK, MsgInv,
           NEW k, msg.kind = k, k # "none",
           NEW buf \in Seq(Unit), Sound(buf, k),
           NEW n \in Nat, sent + n <= msg.len
    PROVE  LET data == Units(msg, sent, sent + n)
               all == buf \o data
           IN  /\ data \in Seq(Unit) /\ Len(data) = n
               /\ all \in Seq(Unit) /\ Len(all) = Len(buf) + n
               /\ Joined(all) /\ Known(all)
               /\ n > 0 => all # <<>> /\ all[Len(all)] = <<msg.id, sent + n>>
               /\ k \notin hurt => all = Units(msg, 0, sent + n)
<1> DEFINE data == Units(msg, sent, sent + n)
           all == buf \o data
<1>0. /\ msg.id \in 1..MaxMessages /\ sent \in Nat /\ sent + n \in Nat
      /\ sent <= sent + n /\ sent + n <= MaxLen /\ sent <= MaxLen
      /\ (sent + n) - sent = n /\ 0 \in Nat /\ 0 <= sent /\ msg.id \in Nat
    BY FrameAssumption DEF StateTypeOK, MsgInv
<1>1. /\ data \in Seq(Unit) /\ Len(data) = (sent + n) - sent /\ Joined(data)
      /\ \A i \in 1..((sent + n) - sent) : data[i] = <<msg.id, sent + i>>
    BY <1>0, UnitsAre
<1>2. k \notin hurt => all = Units(msg, 0, sent + n)
  <2>1. Units(msg, 0, sent) \o data = Units(msg, 0, sent + n)
      BY <1>0, UnitsAppended
  <2> QED BY <2>1 DEF Sound, Faithful
<1> HIDE DEF data
<1>3. Len(data) = n /\ \A i \in 1..n : data[i] = <<msg.id, sent + i>>
    BY <1>0, <1>1
<1>4. /\ all \in Seq(Unit) /\ Len(all) = Len(buf) + Len(data)
      /\ \A i \in 1..Len(buf) + Len(data) :
            all[i] = IF i <= Len(buf) THEN buf[i] ELSE data[i - Len(buf)]
    BY <1>1, ConcatProperties
<1>5. Joined(all)
  <2>1. ASSUME buf # <<>>, data # <<>>, buf[Len(buf)][1] = data[1][1]
        PROVE  data[1][2] = buf[Len(buf)][2] + 1
    <3>1. n > 0 /\ 1 \in 1..n
        BY <1>1, <1>3, <2>1
    <3>2. data[1] = <<msg.id, sent + 1>>
        BY <1>3, <3>1
    <3>3. buf[Len(buf)][2] = sent
        BY <2>1, <3>2 DEF Sound, UpToDate
    <3> QED BY <3>2, <3>3
  <2> QED BY <1>1, <2>1, JoinedConcat DEF Sound
<1> HIDE DEF all
<1>6. Known(all)
  <2> SUFFICES ASSUME NEW i \in 1..Len(all) PROVE all[i][1] <= msg.id
      BY DEF Known
  <2>0. Len(buf) \in Nat /\ i \in 1..Len(buf) + n
      BY <1>3, <1>4
  <2>1. CASE i <= Len(buf)
    <3>1. all[i] = buf[i] /\ i \in 1..Len(buf)
        BY <1>3, <1>4, <2>0, <2>1
    <3> QED BY <3>1 DEF Sound, Known
  <2>2. CASE ~(i <= Len(buf))
    <3>1. i - Len(buf) \in 1..n
        BY <2>0, <2>2
    <3>2. all[i] = data[i - Len(buf)]
        BY <1>3, <1>4, <2>0, <2>2
    <3>3. data[i - Len(buf)] = <<msg.id, sent + (i - Len(buf))>>
        BY <1>3, <3>1
    <3> QED BY <1>0, <3>2, <3>3
  <2> QED BY <2>1, <2>2
<1>7. ASSUME n > 0 PROVE all # <<>> /\ all[Len(all)] = <<msg.id, sent + n>>
  <2>1. /\ Len(buf) \in Nat /\ Len(all) = Len(buf) + n /\ Len(all) \in 1..Len(buf) + n
        /\ ~(Len(all) <= Len(buf)) /\ Len(all) - Len(buf) = n /\ n \in 1..n
      BY <1>3, <1>4, <1>7
  <2>2. all[Len(all)] = data[n]
      BY <1>3, <1>4, <2>1
  <2>3. all # <<>>
      BY <1>4, <2>1
  <2> QED BY <1>3, <2>1, <2>2, <2>3
<1> QED BY <1>1, <1>2, <1>3, <1>4, <1>5, <1>6, <1>7 DEF all, data

-----------------------------------------------------------------------------
(* The steps.                                                              *)

(* A RECEIVE callback moves the message under way on by n units. *)
LEMMA ReceiveMoves ==
    ASSUME StateTypeOK, MsgInv, NEW n \in 0..MaxLen, NEW last \in BOOLEAN,
           Receive(n, last)
    PROVE  /\ n \in Nat /\ sent + n <= msg.len /\ (last => sent + n = msg.len)
           /\ (~last => n > 0)
           /\ msg'.id = msg.id /\ MsgInv' /\ msg.len \in Nat
           /\ msg' \in [kind : Kinds \cup {"none"}, id : 0..MaxMessages, len : 0..MaxLen]
           /\ sent' \in 0..MaxLen /\ open' = open /\ drops' = drops
           /\ last => msg'.kind = "none"
           /\ ~last => msg' = msg /\ sent' = sent + n
           /\ hurt' = HurtAfter(n, last)
<1>1. /\ n \in Nat /\ sent + n <= msg.len /\ sent \in Nat /\ msg.len \in 0..MaxLen
      /\ msg.id \in 0..MaxMessages /\ MaxLen \in Nat
    BY FrameAssumption DEF Receive, StateTypeOK
<1>2. /\ (last => sent + n = msg.len) /\ (~last => n > 0)
      /\ open' = open /\ drops' = drops /\ hurt' = HurtAfter(n, last)
    BY DEF Receive
<1>3. CASE last
  <2>1. msg' = [kind |-> "none", id |-> msg.id, len |-> 0] /\ sent' = 0
      BY <1>3 DEF Receive, Between
  <2> QED BY <1>1, <1>2, <1>3, <2>1 DEF MsgInv
<1>4. CASE ~last
  <2>1. msg' = msg /\ sent' = sent + n
      BY <1>4 DEF Receive
  <2> QED BY <1>1, <1>2, <1>4, <2>1 DEF MsgInv, StateTypeOK
<1> QED BY <1>3, <1>4

(* A callback with a piece of a text.                                      *)
LEMMA TextReceived ==
    ASSUME Inv, NEW n \in 0..MaxLen, NEW last \in BOOLEAN,
           Receive(n, last), msg.kind = "text"
    PROVE  Inv'
<1> DEFINE data == Units(msg, sent, sent + n)
           all == recvText \o data
<1>0. /\ StateTypeOK /\ MsgInv /\ OutInv /\ Sound(recvText, "text")
      /\ Sound(recvBinary, "binary")
    BY DEF Inv, BufferInv
<1>1. /\ n \in Nat /\ sent + n <= msg.len /\ (last => sent + n = msg.len)
      /\ (~last => n > 0)
      /\ msg'.id = msg.id /\ MsgInv' /\ msg.len \in Nat
      /\ msg' \in [kind : Kinds \cup {"none"}, id : 0..MaxMessages, len : 0..MaxLen]
      /\ sent' \in 0..MaxLen /\ open' = open /\ drops' = drops
      /\ last => msg'.kind = "none"
      /\ ~last => msg' = msg /\ sent' = sent + n
      /\ hurt' = HurtAfter(n, last)
    BY <1>0, ReceiveMoves
<1>2. receive_text(data, last) /\ recvBinary' = recvBinary
    BY DEF Receive
<1>3. /\ data \in Seq(Unit) /\ Len(data) = n
      /\ all \in Seq(Unit) /\ Len(all) = Len(recvText) + n
      /\ Joined(all) /\ Known(all)
      /\ n > 0 => all # <<>> /\ all[Len(all)] = <<msg.id, sent + n>>
      /\ "text" \notin hurt => all = Units(msg, 0, sent + n)
  <2>1. recvText \in Seq(Unit) /\ Sound(recvText, "text") /\ msg.kind = "text" /\ "text" # "none"
      BY <1>0 DEF StateTypeOK
  <2>2. StateTypeOK /\ MsgInv /\ n \in Nat /\ sent + n <= msg.len
      BY <1>0, <1>1
  <2> HIDE DEF data, all
  <2> QED BY ONLY <2>1, <2>2, Appended DEF data, all
<1> HIDE DEF data, all
<1>4. /\ hurt' \subseteq Kinds /\ ("binary" \in hurt' <=> "binary" \in hurt)
      /\ last => "text" \notin hurt'
      /\ ~last /\ ~TextFits(n) => "text" \in hurt'
      /\ ~last /\ TextFits(n) => hurt' = hurt
    BY <1>0, <1>1 DEF HurtAfter, Overflows, StateTypeOK, Kinds
<1>5. msg'.kind # "binary"
    BY <1>1
<1>6. Sound(recvBinary, "binary")'
    BY <1>0, <1>1, <1>2, <1>4, <1>5 DEF Sound, Joined, Known, UpToDate, Faithful
<1>7. CASE ~TextFits(n)
  <2>1. recvText' = <<>> /\ Call("on_error", <<>>)
      BY <1>2, <1>3, <1>7 DEF receive_text
  <2>2. Sound(recvText, "text")'
      BY <1>1, <1>4, <1>7, <2>1 DEF Sound, Joined, Known, UpToDate, Faithful
  <2>3. OutInv'
      BY <2>1, ErrorTold
  <2>4. StateTypeOK'
      BY <1>0, <1>1, <1>2, <1>4, <2>1, EmptyIsSound, FrameAssumption DEF StateTypeOK
  <2> QED BY <1>1, <1>6, <2>2, <2>3, <2>4 DEF Inv, BufferInv
<1>8. CASE TextFits(n) /\ last
  <2>1. recvText' = <<>> /\ Call("on_text", app_push_event(all))
      BY <1>2, <1>3, <1>8 DEF receive_text, all
  <2>2. Sound(recvText, "text")'
    <3>1. msg'.kind # "text"
        BY <1>1, <1>8
    <3> QED BY <2>1, <3>1 DEF Sound, Joined, Known, UpToDate, Faithful
  <2>3. msg.kind \notin hurt => all = WholeOf(msg) /\ Len(all) = msg.len
    <3>1. msg.len - 0 = msg.len /\ msg.id \in 1..MaxMessages /\ msg.len <= MaxLen
          /\ 0 <= msg.len /\ 0 \in Nat
        BY <1>0, <1>1 DEF StateTypeOK, MsgInv
    <3>2. Len(Units(msg, 0, msg.len)) = msg.len
        BY <1>1, <3>1, UnitsAre
    <3> QED BY <1>1, <1>3, <1>8, <3>2 DEF WholeOf
  <2>4. OutInv'
      BY <1>1, <1>3, <2>1, <2>3, TextTold
  <2>5. StateTypeOK'
      BY <1>0, <1>1, <1>2, <1>4, <2>1, EmptyIsSound, FrameAssumption DEF StateTypeOK
  <2> QED BY <1>1, <1>6, <2>2, <2>4, <2>5 DEF Inv, BufferInv
<1>9. CASE TextFits(n) /\ ~last
  <2>1. recvText' = all /\ UNCHANGED out
      BY <1>2, <1>3, <1>9 DEF receive_text, all
  <2>2. Sound(recvText, "text")'
    <3>1. Joined(all) /\ Known(recvText)'
        BY <1>1, <1>3, <2>1 DEF Known
    <3>2. UpToDate(recvText, "text")'
        BY <1>1, <1>3, <1>9, <2>1 DEF UpToDate
    <3>3. Faithful(recvText, "text")'
        BY <1>1, <1>3, <1>4, <1>9, <2>1 DEF Faithful
    <3> QED BY <2>1, <3>1, <3>2, <3>3 DEF Sound
  <2>3. OutInv'
      BY <1>0, <2>1, OutKept
  <2>4. StateTypeOK'
      BY <1>0, <1>1, <1>2, <1>3, <1>4, <1>9, <2>1 DEF StateTypeOK, TextFits
  <2> QED BY <1>1, <1>6, <2>2, <2>3, <2>4 DEF Inv, BufferInv
<1> QED BY <1>7, <1>8, <1>9

(* A callback with a fragment of a binary message.                         *)
LEMMA BinaryReceived ==
    ASSUME Inv, NEW n \in 0..MaxLen, NEW last \in BOOLEAN,
           Receive(n, last), msg.kind = "binary"
    PROVE  Inv'
<1> DEFINE data == Units(msg, sent, sent + n)
           all == recvBinary \o data
<1>0. /\ StateTypeOK /\ MsgInv /\ OutInv /\ Sound(recvText, "text")
      /\ Sound(recvBinary, "binary")
    BY DEF Inv, BufferInv
<1>1. /\ n \in Nat /\ sent + n <= msg.len /\ (last => sent + n = msg.len)
      /\ (~last => n > 0)
      /\ msg'.id = msg.id /\ MsgInv' /\ msg.len \in Nat
      /\ msg' \in [kind : Kinds \cup {"none"}, id : 0..MaxMessages, len : 0..MaxLen]
      /\ sent' \in 0..MaxLen /\ open' = open /\ drops' = drops
      /\ last => msg'.kind = "none"
      /\ ~last => msg' = msg /\ sent' = sent + n
      /\ hurt' = HurtAfter(n, last)
    BY <1>0, ReceiveMoves
<1>2. feed_binary_fragment(data, last) /\ recvText' = recvText
    BY DEF Receive
<1>3. /\ data \in Seq(Unit) /\ Len(data) = n
      /\ all \in Seq(Unit) /\ Len(all) = Len(recvBinary) + n
      /\ Joined(all) /\ Known(all)
      /\ n > 0 => all # <<>> /\ all[Len(all)] = <<msg.id, sent + n>>
      /\ "binary" \notin hurt => all = Units(msg, 0, sent + n)
  <2>1. recvBinary \in Seq(Unit) /\ "binary" # "none"
      BY <1>0 DEF StateTypeOK
  <2> QED BY <1>0, <1>1, <2>1, Appended
<1> HIDE DEF data, all
<1>4. /\ hurt' \subseteq Kinds /\ ("text" \in hurt' <=> "text" \in hurt)
      /\ last /\ "binary" \notin hurt' => n # 0 \/ recvBinary = <<>>
      /\ ~last /\ ~BinaryFits(n) => "binary" \in hurt'
      /\ ~last /\ BinaryFits(n) => hurt' = hurt
    BY <1>0, <1>1 DEF HurtAfter, Overflows, StateTypeOK, Kinds
<1>5. msg'.kind # "text"
    BY <1>1
<1>6. Sound(recvText, "text")'
    BY <1>0, <1>1, <1>2, <1>4, <1>5 DEF Sound, Joined, Known, UpToDate, Faithful
<1>7. n = 0 <=> data = <<>>
    BY <1>3
<1>8. CASE n = 0
  <2>1. recvBinary' = recvBinary /\ Call("on_error", <<>>) /\ last
      BY <1>1, <1>2, <1>7, <1>8 DEF feed_binary_fragment
  <2>2. Sound(recvBinary, "binary")'
    <3>1. msg'.kind # "binary"
        BY <1>1, <2>1
    <3> QED BY <1>0, <1>1, <1>4, <1>8, <2>1, <3>1
            DEF Sound, Joined, Known, UpToDate, Faithful
  <2>3. OutInv'
      BY <2>1, ErrorTold
  <2>4. StateTypeOK'
      BY <1>0, <1>1, <1>2, <1>4, <2>1 DEF StateTypeOK
  <2> QED BY <1>1, <1>6, <2>2, <2>3, <2>4 DEF Inv, BufferInv
<1>9. CASE n # 0 /\ ~BinaryFits(n)
  <2>1. recvBinary' = <<>> /\ Call("on_error", <<>>)
      BY <1>2, <1>3, <1>7, <1>9 DEF feed_binary_fragment
  <2>2. Sound(recvBinary, "binary")'
      BY <1>1, <1>4, <1>9, <2>1 DEF Sound, Joined, Known, UpToDate, Faithful
  <2>3. OutInv'
      BY <2>1, ErrorTold
  <2>4. StateTypeOK'
      BY <1>0, <1>1, <1>2, <1>4, <2>1, EmptyIsSound, FrameAssumption DEF StateTypeOK
  <2> QED BY <1>1, <1>6, <2>2, <2>3, <2>4 DEF Inv, BufferInv
<1>10. CASE n # 0 /\ BinaryFits(n) /\ last
  <2>1. recvBinary' = <<>> /\ Call("on_binary", all)
      BY <1>2, <1>3, <1>7, <1>10 DEF feed_binary_fragment, all
  <2>2. Sound(recvBinary, "binary")'
    <3>1. msg'.kind # "binary"
        BY <1>1, <1>10
    <3> QED BY <2>1, <3>1 DEF Sound, Joined, Known, UpToDate, Faithful
  <2>3. msg.kind \notin hurt => all = WholeOf(msg)
      BY <1>1, <1>3, <1>10 DEF WholeOf
  <2>4. OutInv'
      BY <1>3, <2>1, <2>3, BinaryTold
  <2>5. StateTypeOK'
      BY <1>0, <1>1, <1>2, <1>4, <2>1, EmptyIsSound, FrameAssumption DEF StateTypeOK
  <2> QED BY <1>1, <1>6, <2>2, <2>4, <2>5 DEF Inv, BufferInv
<1>11. CASE n # 0 /\ BinaryFits(n) /\ ~last
  <2>1. recvBinary' = all /\ UNCHANGED out
      BY <1>2, <1>3, <1>7, <1>11 DEF feed_binary_fragment, all
  <2>2. Sound(recvBinary, "binary")'
    <3>1. Joined(all) /\ Known(recvBinary)'
        BY <1>1, <1>3, <2>1 DEF Known
    <3>2. UpToDate(recvBinary, "binary")'
        BY <1>1, <1>3, <1>11, <2>1 DEF UpToDate
    <3>3. Faithful(recvBinary, "binary")'
        BY <1>1, <1>3, <1>4, <1>11, <2>1 DEF Faithful
    <3> QED BY <2>1, <3>1, <3>2, <3>3 DEF Sound
  <2>3. OutInv'
      BY <1>0, <2>1, OutKept
  <2>4. StateTypeOK'
      BY <1>0, <1>1, <1>2, <1>3, <1>4, <1>11, <2>1 DEF StateTypeOK, BinaryFits
  <2> QED BY <1>1, <1>6, <2>2, <2>3, <2>4 DEF Inv, BufferInv
<1> QED BY <1>8, <1>9, <1>10, <1>11

(* The connection is made or lost, and the server begins a message.        *)
LEMMA ConnectionMoves ==
    ASSUME Inv, Connect \/ Lose \/ UNCHANGED vars
    PROVE  Inv'
<1>0. StateTypeOK /\ MsgInv /\ BufferInv /\ OutInv
    BY DEF Inv
<1>1. OutInv' /\ UNCHANGED <<recvText, recvBinary>>
    BY <1>0, OutKept DEF Connect, Lose, vars
<1>2. CASE Connect \/ UNCHANGED vars
    BY <1>0, <1>1, <1>2
       DEF Connect, vars, Inv, StateTypeOK, MsgInv, BufferInv, Sound, Joined,
           Known, UpToDate, Faithful, Units
<1>3. CASE Lose
  <2>1. /\ msg' = [kind |-> "none", id |-> msg.id, len |-> 0] /\ sent' = 0
        /\ open' = FALSE /\ drops' \in 0..MaxDrops
      BY <1>0, <1>3, FrameAssumption DEF Lose, Between, StateTypeOK
  <2>2. hurt' = IF msg.kind # "none" THEN hurt \cup {msg.kind} ELSE hurt
      BY <1>3 DEF Lose
  <2>3. StateTypeOK' /\ MsgInv'
    <3>1. /\ msg.id \in 0..MaxMessages /\ 0 \in 0..MaxLen /\ hurt' \subseteq Kinds
          /\ msg.kind \in Kinds \cup {"none"}
        BY <1>0, <2>2, FrameAssumption DEF StateTypeOK
    <3>2. msg' \in [kind : Kinds \cup {"none"}, id : 0..MaxMessages, len : 0..MaxLen]
        BY <2>1, <3>1
    <3>3. MsgInv'
        BY <2>1, <3>2 DEF MsgInv
    <3>4. sent' \in 0..MaxLen /\ open' \in BOOLEAN
        BY <2>1, <3>1
    <3>5. StateTypeOK'
        BY <1>0, <1>1, <2>1, <3>1, <3>2, <3>4 DEF StateTypeOK
    <3> QED BY <3>3, <3>5
  <2>4. \A k \in Kinds : k \notin hurt' => k \notin hurt /\ msg.kind # k
      BY <2>2 DEF Kinds
  <2>5. Sound(recvText, "text")'
      BY <1>0, <1>1, <2>1, <2>4
         DEF BufferInv, Sound, Joined, Known, UpToDate, Faithful, Kinds
  <2>6. Sound(recvBinary, "binary")'
      BY <1>0, <1>1, <2>1, <2>4
         DEF BufferInv, Sound, Joined, Known, UpToDate, Faithful, Kinds
  <2> QED BY <1>1, <2>3, <2>5, <2>6 DEF Inv, BufferInv
<1> QED BY <1>2, <1>3

(* No unit of a new message can be in a buffer.                            *)
LEMMA BeginningMoves ==
    ASSUME Inv, NEW k \in Kinds, NEW n \in 1..MaxLen, ServerBegins(k, n)
    PROVE  Inv'
<1>0. StateTypeOK /\ MsgInv /\ BufferInv /\ OutInv
    BY DEF Inv
<1>1. /\ OutInv' /\ UNCHANGED <<recvText, recvBinary, hurt, open, drops>>
      /\ msg.kind = "none" /\ msg.id < MaxMessages
      /\ msg' = [kind |-> k, id |-> msg.id + 1, len |-> n] /\ sent' = 0
    BY <1>0, OutKept DEF ServerBegins
<1>2. msg.id \in Nat /\ MaxLen \in Nat /\ MaxMessages \in Nat
    BY <1>0, FrameAssumption DEF StateTypeOK
<1>3. StateTypeOK' /\ MsgInv'
    BY <1>0, <1>1, <1>2 DEF StateTypeOK, MsgInv
<1>4. ASSUME NEW s \in Seq(Unit), NEW q \in Kinds, Sound(s, q)
      PROVE  /\ \A i \in 1..Len(s) : s[i][1] < msg.id + 1
             /\ q \notin hurt => s = <<>>
  <2>1. q \notin hurt => s = <<>>
      BY <1>1, <1>4 DEF Sound, Faithful, Kinds
  <2>2. \A i \in 1..Len(s) : s[i][1] <= msg.id /\ s[i] \in Unit
      BY <1>4 DEF Sound, Known
  <2>3. \A u \in Unit : u[1] \in Int
      BY DEF Unit
  <2> QED BY <1>2, <2>1, <2>2, <2>3
<1>5. Units(msg', 0, 0) = <<>>
    BY DEF Units
<1>6. Sound(recvText, "text")'
  <2>1. recvText \in Seq(Unit) /\ Sound(recvText, "text") /\ "text" \in Kinds
      BY <1>0 DEF StateTypeOK, BufferInv, Kinds
  <2>2. /\ \A i \in 1..Len(recvText) : recvText[i][1] < msg'.id
        /\ "text" \notin hurt => recvText = <<>>
      BY <1>1, <1>4, <2>1
  <2>3. \A i \in 1..Len(recvText) : recvText[i][1] <= msg'.id /\ recvText[i][1] # msg'.id
    <3>1. \A i \in 1..Len(recvText) : recvText[i][1] \in Int
        BY <2>1 DEF Unit
    <3> QED BY <1>1, <1>2, <2>2, <3>1
  <2>4. recvText # <<>> => Len(recvText) \in 1..Len(recvText)
      BY <2>1
  <2> QED BY <1>1, <1>5, <2>1, <2>2, <2>3, <2>4
          DEF Sound, Joined, Known, UpToDate, Faithful
<1>7. Sound(recvBinary, "binary")'
  <2>1. /\ recvBinary \in Seq(Unit) /\ Sound(recvBinary, "binary")
        /\ "binary" \in Kinds
      BY <1>0 DEF StateTypeOK, BufferInv, Kinds
  <2>2. /\ \A i \in 1..Len(recvBinary) : recvBinary[i][1] < msg'.id
        /\ "binary" \notin hurt => recvBinary = <<>>
      BY <1>1, <1>4, <2>1
  <2>3. \A i \in 1..Len(recvBinary) :
           recvBinary[i][1] <= msg'.id /\ recvBinary[i][1] # msg'.id
    <3>1. \A i \in 1..Len(recvBinary) : recvBinary[i][1] \in Int
        BY <2>1 DEF Unit
    <3> QED BY <1>1, <1>2, <2>2, <3>1
  <2>4. recvBinary # <<>> => Len(recvBinary) \in 1..Len(recvBinary)
      BY <2>1
  <2> QED BY <1>1, <1>5, <2>1, <2>2, <2>3, <2>4
          DEF Sound, Joined, Known, UpToDate, Faithful
<1> QED BY <1>1, <1>3, <1>6, <1>7 DEF Inv, BufferInv

-----------------------------------------------------------------------------
(* The buffers are sound at any moment, whatever the network does. *)
THEOREM Inductive == Spec => []Inv
<1>1. Init => Inv
  <2> SUFFICES ASSUME Init PROVE Inv
      OBVIOUS
  <2>1. StateTypeOK /\ MsgInv
    <3>1. /\ 0 \in 0..MaxMessages /\ 0 \in 0..MaxLen /\ MaxDrops \in 0..MaxDrops
          /\ 0 < RecvCap /\ 0 <= RecvCap
        BY FrameAssumption
    <3>2. msg = [kind |-> "none", id |-> 0, len |-> 0]
        BY DEF Init, Between
    <3>3. msg \in [kind : Kinds \cup {"none"}, id : 0..MaxMessages, len : 0..MaxLen]
        BY <3>1, <3>2
    <3>4. MsgInv
        BY <3>2 DEF MsgInv, Init
    <3>5. /\ recvText \in Seq(Unit) /\ Len(recvText) < RecvCap
          /\ recvBinary \in Seq(Unit) /\ Len(recvBinary) <= RecvCap
        BY <3>1, EmptyIsSound DEF Init
    <3>6. StateTypeOK
        BY <3>1, <3>3, <3>5 DEF Init, StateTypeOK
    <3> QED BY <3>4, <3>6
  <2>2. BufferInv
      BY EmptyIsSound DEF Init, BufferInv, Sound, Faithful, Between
  <2>3. OutInv
    <3>1. out.call = "none" /\ out.data = <<>> /\ out.hurt = FALSE
        BY DEF Init, Nothing
    <3> QED BY <3>1, EmptyIsSound
            DEF OutInv, OutTypeOK, MessagesWhole, BinaryWhole, TextWhole, NoHoles, Delivered
  <2> QED BY <2>1, <2>2, <2>3 DEF Inv
<1>2. Inv /\ [Next]_vars => Inv'
  <2> SUFFICES ASSUME Inv, [Next]_vars PROVE Inv'
      OBVIOUS
  <2>1. CASE Connect \/ Lose \/ UNCHANGED vars
      BY <2>1, ConnectionMoves
  <2>2. ASSUME NEW k \in Kinds, NEW n \in 1..MaxLen, ServerBegins(k, n) PROVE Inv'
      BY <2>2, BeginningMoves
  <2>3. ASSUME NEW n \in 0..MaxLen, NEW last \in BOOLEAN, Receive(n, last) PROVE Inv'
    <3>1. msg.kind \in Kinds
        BY <2>3 DEF Receive, Inv, StateTypeOK
    <3> QED BY <2>3, <3>1, TextReceived, BinaryReceived DEF Kinds
  <2> QED BY <2>1, <2>2, <2>3 DEF Next
<1> QED BY <1>1, <1>2, PTL DEF Spec

-----------------------------------------------------------------------------
(* recv_text_len and recv_binary_len stay within the buffers, whatever     *)
(* arrives, and the text in an event leaves room for its terminating zero. *)
THEOREM TypeCorrect == Spec => []TypeOK
<1>1. Inv => TypeOK
    BY DEF Inv, OutInv, StateTypeOK, OutTypeOK, TypeOK
<1> QED BY <1>1, Inductive, PTL

(* The callbacks deliver what the server sent, to the last unit of a       *)
(* binary message and to the size of an event of a text; what a lost       *)
(* connection, an overflow or an empty last fragment spoils is the message *)
(* it happens in or the next of its kind, and even that has no hole.       *)
THEOREM MessagesArriveWhole == Spec => []MessagesWhole
<1>1. Inv => MessagesWhole
    BY DEF Inv, OutInv
<1> QED BY <1>1, Inductive, PTL
=============================================================================
