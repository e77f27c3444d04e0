------------------------------- MODULE OpusDump -------------------------------
(***************************************************************************)
(* The file of uploaded packets: app_write_opus_packet of app.c writes it, *)
(* tools/decode_opus_dump.c reads it.  A record is the length in two       *)
(* digits and the packet; a byte is a number below Base.                   *)
(***************************************************************************)
EXTENDS Integers, Sequences, SequencesExt

CONSTANT Base       \* 256
ASSUME BaseAssumption == Base \in Nat /\ Base > 1

Header(len) == <<len % Base, (len \div Base) % Base>>

(* One call, when the disk has room for `room' bytes.  stdio takes the     *)
(* whole record into its empty buffer; what fflush cannot write of it is   *)
(* dropped, and nobody looks at its answer: the call returns 0 for any     *)
(* packet of a length that it takes.                                       *)
app_write_opus_packet(file, packet, room) ==
    LET record == Header(Len(packet)) \o packet
    IN  IF Len(packet) \notin 1..(Base * Base - 1) THEN file
        ELSE file \o SubSeq(record, 1, Min({room, Len(record)}))

(* The dump of a round: the file, the packets that are in it whole up to   *)
(* the first torn record, and whether there is one - at the end, or inside,*)
(* with something written behind it.                                       *)
Dump(calls) ==
    FoldLeft(LAMBDA d, c :
                LET file == app_write_opus_packet(d.file, c.packet, c.room)
                    more == Len(file) - Len(d.file)
                IN  IF more = 0 THEN d
                    ELSE IF d.torn # "no"
                    THEN [file |-> file, whole |-> d.whole, torn |-> "inside"]
                    ELSE IF more < Len(c.packet) + 2
                    THEN [file |-> file, whole |-> d.whole, torn |-> "end"]
                    ELSE [file |-> file, whole |-> Append(d.whole, c.packet), torn |-> "no"],
             [file |-> <<>>, whole |-> <<>>, torn |-> "no"], calls)

(* Mutant: the last, incomplete packet is decoded as well. *)
decode_opus_dump_KeepsCut(file) ==
    LET from[pos \in 0..Len(file)] ==
            IF pos + 2 >= Len(file) THEN <<>>
            ELSE LET len == file[pos + 1] + Base * file[pos + 2]
                 IN  IF len = 0 THEN from[pos + 2]
                     ELSE IF pos + 2 + len > Len(file)
                     THEN <<SubSeq(file, pos + 3, Len(file))>>
                     ELSE <<SubSeq(file, pos + 3, pos + 2 + len)>> \o from[pos + 2 + len]
    IN  from[0]

-----------------------------------------------------------------------------
(* The reading loop of decode_opus_dump: a record with length 0 is passed  *)
(* over, a header or a packet that is cut off ends it.                     *)
decode_opus_dump(file) ==
    LET from[pos \in 0..Len(file)] ==
            IF pos + 2 > Len(file) THEN <<>>
            ELSE LET len == file[pos + 1] + Base * file[pos + 2]
                 IN  IF len = 0 THEN from[pos + 2]
                     ELSE IF pos + 2 + len > Len(file) THEN <<>>
                     ELSE <<SubSeq(file, pos + 3, pos + 2 + len)>> \o from[pos + 2 + len]
    IN  from[0]

-----------------------------------------------------------------------------
(* A dump that stops anywhere - the process dies, or the disk is full from *)
(* some byte on, in the middle of a header or of a packet - reads back as  *)
(* the packets that have reached the disk whole, in their order, and as    *)
(* nothing else.  Behind a record that was torn, on a disk that has room   *)
(* again, anything may be read, but all that was written before it is kept.*)
DumpReadsBack(calls) ==
    LET d == Dump(calls)
        read == decode_opus_dump(d.file)
    IN  /\ IsPrefix(d.whole, read)
        /\ d.torn # "inside" => read = d.whole
=============================================================================
