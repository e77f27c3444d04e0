---------------------------- MODULE FrameAssembly ----------------------------
(***************************************************************************)
(* How the client puts received messages together: the RECEIVE case of     *)
(* xiaozhi_client_callback, xiaozhi_client_feed_binary_fragment, and the   *)
(* copy into an event in app_push_event.  A message is a run of units; a   *)
(* RECEIVE callback brings some of them.  recv_text_len and                *)
(* recv_binary_len belong to the client object, not to the connection.     *)
(***************************************************************************)
EXTENDS Naturals, Sequences, SequencesExt

CONSTANTS RecvCap,      \* units in recv_text and recv_binary (4096 bytes)
          EventCap,     \* units in event.text (1024 bytes)
          MaxLen,       \* bound: length of a message
          MaxMessages,  \* bound: messages the server sends
          MaxDrops      \* bound: connections lost

ASSUME FrameAssumption ==
    /\ RecvCap \in Nat \ {0} /\ EventCap \in Nat \ {0}
    /\ MaxLen \in Nat /\ MaxMessages \in Nat /\ MaxDrops \in Nat

VARIABLES open,         \* a connection is established
          msg,          \* external: the message the server is sending
          sent,         \* how much of it has arrived
          recvText, recvBinary, \* what the two buffers hold
          out,          \* the last thing the callbacks told the application
          hurt,         \* history: kinds whose current or next message is spoilt
          drops

vars == <<open, msg, sent, recvText, recvBinary, out, hurt, drops>>

Kinds == {"text", "binary"}
Unit == (1..MaxMessages) \X (1..MaxLen)

(* No message is under way; its number is that of the last one. *)
Between(n) == [kind |-> "none", id |-> n, len |-> 0]

Units(m, a, b) == [i \in 1..(b - a) |-> <<m.id, a + i>>]
WholeOf(m) == Units(m, 0, m.len)

Nothing == [call |-> "none", of |-> Between(0), data |-> <<>>, hurt |-> FALSE]

TypeOK ==
    /\ open \in BOOLEAN
    /\ msg \in [kind : Kinds \cup {"none"}, id : 0..MaxMessages, len : 0..MaxLen]
    /\ sent \in 0..MaxLen
    /\ recvText \in Seq(Unit) /\ Len(recvText) < RecvCap
    /\ recvBinary \in Seq(Unit) /\ Len(recvBinary) <= RecvCap
    /\ out.call \in {"none", "on_text", "on_binary", "on_error"}
    /\ out.data \in Seq(Unit) /\ out.hurt \in BOOLEAN
    /\ out.call = "on_text" => Len(out.data) < EventCap
    /\ hurt \subseteq Kinds
    /\ drops \in 0..MaxDrops

Init ==
    /\ open = FALSE /\ msg = Between(0) /\ sent = 0
    /\ recvText = <<>> /\ recvBinary = <<>>
    /\ out = Nothing /\ hurt = {} /\ drops = MaxDrops

-----------------------------------------------------------------------------
(* The connection.                                                         *)

Connect == ~open /\ open' = TRUE
           /\ UNCHANGED <<msg, sent, recvText, recvBinary, out, hurt, drops>>

(* CLOSED or a stop of the client: the rest of the message never comes.    *)
(* The buffers keep what they have.                                        *)
Lose == /\ open /\ drops > 0
        /\ open' = FALSE
        /\ drops' = drops - 1
        /\ hurt' = IF msg.kind # "none" THEN hurt \cup {msg.kind} ELSE hurt
        /\ msg' = Between(msg.id) /\ sent' = 0
        /\ UNCHANGED <<recvText, recvBinary, out>>

(* External: the server begins a message. *)
ServerBegins(k, n) ==
    /\ open /\ msg.kind = "none" /\ msg.id < MaxMessages
    /\ msg' = [kind |-> k, id |-> msg.id + 1, len |-> n] /\ sent' = 0
    /\ UNCHANGED <<open, recvText, recvBinary, out, hurt, drops>>

-----------------------------------------------------------------------------
(* The application's callbacks.                                            *)

Call(f, data) == out' = [call |-> f, of |-> msg, data |-> data,
                         hurt |-> msg.kind \in hurt]

(* Mutant: the terminating zero has no place. *)
app_push_event_NoZero(text) ==
    IF Len(text) <= EventCap THEN text ELSE SubSeq(text, 1, EventCap)

(* snprintf into event.text: one place is for the terminating zero.        *)
app_push_event(text) ==
    IF Len(text) < EventCap THEN text ELSE SubSeq(text, 1, EventCap - 1)

-----------------------------------------------------------------------------
(* One RECEIVE callback with n units; last: the message is complete.       *)

TextFits(n) == Len(recvText) + n < RecvCap

(* Mutant: the length is not reset after an overflow. *)
receive_text_KeepsRest(data, last) ==
    IF ~TextFits(Len(data))
    THEN UNCHANGED recvText /\ Call("on_error", <<>>)
    ELSE LET all == recvText \o data
         IN  IF last
             THEN recvText' = <<>> /\ Call("on_text", app_push_event(all))
             ELSE recvText' = all /\ UNCHANGED out

receive_text(data, last) ==
    IF ~TextFits(Len(data))
    THEN recvText' = <<>> /\ Call("on_error", <<>>)
    ELSE LET all == recvText \o data
         IN  IF last
             THEN recvText' = <<>> /\ Call("on_text", app_push_event(all))
             ELSE recvText' = all /\ UNCHANGED out

BinaryFits(n) == Len(recvBinary) + n <= RecvCap

(* An empty fragment is an error whatever the buffer holds, and leaves it. *)
feed_binary_fragment(data, last) ==
    IF data = <<>>
    THEN UNCHANGED recvBinary /\ Call("on_error", <<>>)
    ELSE IF ~BinaryFits(Len(data))
    THEN recvBinary' = <<>> /\ Call("on_error", <<>>)
    ELSE LET all == recvBinary \o data
         IN  IF last
             THEN recvBinary' = <<>> /\ Call("on_binary", all)
             ELSE recvBinary' = all /\ UNCHANGED out

(* A complete message heals what an earlier one spoilt; one that overflows *)
(* on the way, or ends in an empty fragment and leaves its units behind,   *)
(* spoils what is delivered next.                                          *)
Overflows(n) == IF msg.kind = "text" THEN ~TextFits(n) ELSE ~BinaryFits(n)

HurtAfter(n, last) ==
    IF last
    THEN IF msg.kind = "binary" /\ n = 0 /\ recvBinary # <<>>
         THEN hurt \cup {"binary"} ELSE hurt \ {msg.kind}
    ELSE IF Overflows(n) THEN hurt \cup {msg.kind} ELSE hurt

Receive(n, last) ==
    /\ msg.kind # "none" /\ sent + n <= msg.len
    /\ last => sent + n = msg.len
    /\ ~last => n > 0
    /\ LET data == Units(msg, sent, sent + n)
       IN  IF msg.kind = "binary"
           THEN feed_binary_fragment(data, last) /\ UNCHANGED recvText
           ELSE receive_text(data, last) /\ UNCHANGED recvBinary
    /\ hurt' = HurtAfter(n, last)
    /\ IF last THEN msg' = Between(msg.id) /\ sent' = 0
               ELSE sent' = sent + n /\ UNCHANGED msg
    /\ UNCHANGED <<open, drops>>

Next == \/ Connect \/ Lose
        \/ \E k \in Kinds, n \in 1..MaxLen : ServerBegins(k, n)
        \/ \E n \in 0..MaxLen, last \in BOOLEAN : Receive(n, last)

Spec == Init /\ [][Next]_vars

-----------------------------------------------------------------------------
Delivered == out.call \in {"on_text", "on_binary"}

(***************************************************************************)
(* A binary message is delivered as it was sent, and the damage a lost     *)
(* connection, an overflow or an empty last fragment does is confined to   *)
(* the message it happens in or the next one of its kind.                  *)
(***************************************************************************)
BinaryWhole ==
    out.call = "on_binary" /\ ~out.hurt => out.data = WholeOf(out.of)

(***************************************************************************)
(* So is a text, up to the size of an event: a longer one reaches the JSON *)
(* parser cut off.                                                         *)
(***************************************************************************)
TextWhole ==
    out.call = "on_text" /\ ~out.hurt =>
        /\ IsPrefix(out.data, WholeOf(out.of))
        /\ Len(out.data) < out.of.len => Len(out.data) = EventCap - 1

(***************************************************************************)
(* Even a spoilt message has no hole in it: what an overflow leaves out is *)
(* the beginning, not the middle.                                          *)
(***************************************************************************)
NoHoles ==
    Delivered => \A i \in 1..Len(out.data) - 1 :
        out.data[i][1] = out.data[i+1][1] => out.data[i+1][2] = out.data[i][2] + 1

(***************************************************************************)
(* The application gets what the server sent, except where a connection    *)
(* was lost, a buffer ran over or a last fragment was empty.               *)
(***************************************************************************)
MessagesWhole == BinaryWhole /\ TextWhole /\ NoHoles
=============================================================================
