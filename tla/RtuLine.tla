------------------------------ MODULE RtuLine ------------------------------
(***************************************************************************)
(* One frame on a serial line, by content: a station serializes it, the    *)
(* line may flip some of its bits, and the other end reads it through      *)
(* read_rtu_frame as the bytes come in or through deserialize(), with the  *)
(* checksum verified or not, or forwards it as a generic packet.  The      *)
(* order in which frames and noise follow each other is RtuSplitter's and  *)
(* RtuStream's.                                                            *)
(***************************************************************************)
EXTENDS Adu

CONSTANTS
    Packets,    \* what stations serialize: a slave id and a PDU, and the side
                \* that reads it
    Flips,      \* the sets of places, in the order of transmission, whose bits
                \* the line may flip
    Following   \* the bytes that may come behind the frame

VARIABLES
    stage,      \* how far the frame is
    sent,       \* the packet the station built
    line,       \* the bytes on the line
    flipped,    \* the places of the bits the line flipped (history)
    side,       \* the class that read it
    verified,   \* whether it was read with verify_crc
    outcome,    \* what deserialize() returned or raised
    held,       \* the bytes a reader holds so far
    read        \* what read_rtu_frame said of them

\* A packet is of a class the side that reads it has, with a value for each field.
ASSUME LineAssumption ==
    /\ \A packet \in Packets :
          LET class == ClassOf(packet.pdu)
          IN /\ packet \in [slave_id : Int, pdu : Pdus, crc : Seq(Octet),
                            side : {"request", "response"}]
             /\ packet.pdu.id = class.id
             /\ class = PduClass(packet.side, <<WireCode(packet.pdu)>>)
             /\ Len(packet.pdu.fields) = Len(class.widths)
             /\ class.item = 0 => packet.pdu.tail = <<>>
    /\ Following \subseteq Seq(Octet)

lineVars == <<stage, sent, line, flipped, side, verified, outcome, held, read>>
readVars == <<side, verified, outcome, held, read>>

Nothing == Raises("nothing")

LineInit ==
    /\ stage = "idle"
    /\ sent \in Packets
    /\ line = <<>> /\ flipped = {}
    /\ side = "either" /\ verified = TRUE /\ outcome = Nothing
    /\ held = <<>> /\ read = Wants(MinRtuFrame)

\* serialize() of a packet of either class.
Send ==
    /\ stage = "idle"
    /\ \/ /\ RtuPacks(sent)
          /\ line' = SerializeRtu(sent)
          /\ stage' = "sent"
          /\ UNCHANGED outcome
       \/ /\ ~ RtuPacks(sent)
          /\ outcome' = Raises("ModbusPacketError")
          /\ stage' = "refused"
          /\ UNCHANGED line
    /\ UNCHANGED <<sent, flipped, side, verified, held, read>>

\* The line sends the low bit of a byte first.
Damaged(bytes, places) ==
    [k \in DOMAIN bytes |->
        ByteOf(SymDiff(Bits[bytes[k]], {p - 8 * (k - 1) : p \in places \cap 8 * (k - 1) .. 8 * k - 1}))]

Damage(places) ==
    /\ stage = "sent"
    /\ places # {} /\ places \subseteq 0 .. 8 * Len(line) - 1
    /\ line' = Damaged(line, places)
    /\ flipped' = places
    /\ stage' = "damaged"
    /\ UNCHANGED <<sent, readVars>>

\* deserialize(), of the class for the side or of the generic packet.
Receive(as, verify) ==
    /\ stage \in {"sent", "damaged"}
    /\ as \in {sent.side, "either"}
    /\ stage' = "received"
    /\ side' = as /\ verified' = verify
    /\ outcome' = CASE as = "request"  -> ModbusRtuRequest(line, verify)
                    [] as = "response" -> ModbusRtuResponse(line, verify)
                    [] as = "either"   -> ModbusRtuPacket(line, verify)
    /\ UNCHANGED <<sent, line, flipped, held, read>>

\* A gateway sends on what it read, if that packs: a damaged response may count
\* other bits than it has.
Forward ==
    /\ stage = "received"
    /\ outcome.raises = "nothing"
    /\ \/ /\ RtuPacks(outcome.packet)
          /\ line' = SerializeRtu(outcome.packet)
          /\ stage' = "forwarded"
          /\ UNCHANGED outcome
       \/ /\ ~ RtuPacks(outcome.packet)
          /\ outcome' = Raises("ModbusPacketError")
          /\ stage' = "withheld"
          /\ UNCHANGED line
    /\ UNCHANGED <<sent, flipped, side, verified, held, read>>

\* The first n bytes of the frame and of what follows it are there.
Arrive(n, following) ==
    /\ stage = "sent"
    /\ stage' = "held"
    /\ held' = SubSeq(line \o following, 1, n)
    /\ read' = ReadRtuFrame(held', sent.side)
    /\ UNCHANGED <<sent, line, flipped, side, verified, outcome>>

LineNext ==
    \/ Send
    \/ \E places \in Flips : Damage(places)
    \/ \E as \in {"request", "response", "either"}, verify \in BOOLEAN : Receive(as, verify)
    \/ Forward
    \/ \E following \in Following :
          \E n \in 0 .. Len(line) + Len(following) : Arrive(n, following)

LineSpec == LineInit /\ [][LineNext]_lineVars

-----------------------------------------------------------------------------
\* The remainder of the division of a polynomial over GF(2), given by the
\* exponents of its terms, by x^16 + x^15 + x^2 + 1.
Remainder(terms, degree) ==
    LET rest[k \in 0 .. degree - 16] ==
            IF k = 0 THEN terms
            ELSE LET top == degree - k
                     before == rest[k - 1]
                 IN IF top \in before
                    THEN SymDiff(before, {top, top - 1, top - 14, top - 16}) ELSE before
    IN rest[degree - 16]

\* The checksum of the serial line guide: the bytes low bit first are the
\* coefficients of a polynomial, its first sixteen inverted, times x^16.
Polynomial(bytes) ==
    LET ones == {p \in 0 .. 8 * Len(bytes) - 1 : (p % 8) \in Bits[bytes[p \div 8 + 1]]}
    IN {8 * Len(bytes) + 15 - p : p \in SymDiff(ones, 0 .. 15)}

\* calc_crc16: what the bitwise loop leaves in the register is the remainder
\* of that division, for every frame that is sent.
ChecksumIsTheRemainder ==
    stage = "sent" =>
        LET body == FirstBytes(line)
        IN {15 - k : k \in CalcCrc16(body)} = Remainder(Polynomial(body), 8 * Len(body) + 16)

\* What is sent is what is read, by the class for its side, and a gateway sends
\* on the very bytes that were sent, whichever class it reads with; the generic
\* packet keeps even damaged bytes as they are; and whatever was read, verified
\* or not, is sent on with a checksum that agrees with it, unless damage has made
\* a response one that does not pack.
WhatIsReadWasSent ==
    /\ (stage = "received" /\ flipped = {}) =>
          /\ outcome.raises = "nothing"
          /\ side = sent.side => /\ outcome.packet.slave_id = sent.slave_id
                                 /\ outcome.packet.pdu = sent.pdu
    /\ stage = "forwarded" =>
          /\ ValidateCrc(line)
          /\ flipped = {} => line = SerializeRtu(sent)
          /\ (side = "either" /\ flipped # {}) =>
                FirstBytes(line) = FirstBytes(Damaged(SerializeRtu(sent), flipped))
    /\ stage = "withheld" => flipped # {} /\ side = "response"

Unread == outcome.raises = "ModbusPacketError"

\* Flipped bits within sixteen in a row, however many, never go unnoticed.
BurstsAreReported ==
    (stage = "received" /\ flipped # {} /\ verified) =>
        Unread \/ \E p, q \in flipped : p - q > 15

\* Nor do two, however far apart, in a frame below 4096 bytes; in a longer one
\* the polynomial divides a difference of two places.
PairsAreReported ==
    (stage = "received" /\ flipped # {} /\ verified /\ Len(line) < 4096) =>
        Unread \/ Cardinality(flipped) > 2

\* A damaged frame that is verified is not read.
DamageIsReported == BurstsAreReported /\ PairsAreReported

\* The header of the frame says how long it is: its count is that of its items,
\* and a diagnostic sub-function that is read as five bytes has one data word.
LengthStated(pdu) ==
    /\ TailMatches(pdu)
    /\ ClassOf(pdu).rule = "sub" /\ pdu.fields[1] \in SubFunctions \ {EchoSubFunction} =>
          Len(pdu.tail) = 1

\* read_rtu_frame finds the frame when all of it is there, exactly as long as
\* it is whatever follows it, and on less asks for bytes of it and never for one
\* beyond it: a reader that reads what it is told to never takes a byte of the
\* next frame.  A layout that states no size is reported as such at the latest
\* when the frame is whole.
TheFrameIsFound ==
    (stage = "held" /\ LengthStated(sent.pdu)) =>
        IF ExpectedSize(ClassOf(sent.pdu), Tail(line)) = Unsizable
        THEN \/ read = NoFrame(FALSE)
             \/ read.incomplete /\ Len(held) < Len(line)
        ELSE IF Len(held) < Len(line)
             THEN read.incomplete /\ read.wanted \in 1 .. Len(line) - Len(held)
             ELSE read = Found(Len(line))

(***************************************************************************)
(* RtuFraming, over the layouts of the classes a side reads function codes *)
(* as: the reader that RtuSplitter and RtuStream are built on.             *)
(***************************************************************************)
LayoutFor(reader) ==
    [code \in 0 .. 255 |->
        LET class == PduClass(reader, <<code>>)
        IN [kind |-> CASE class.item = 0 -> "fixed"
                       [] class.item > 0 /\ class.counts -> "counted"
                       [] OTHER -> "none",
            head |-> HeadSize(class)]]

Framing(reader) == INSTANCE RtuFraming WITH Layout <- LayoutFor(reader), CrcSize <- CrcSize

\* The bytes of a frame and of what follows it, as RtuFraming marks them.
Marked(bytes) ==
    [k \in DOMAIN bytes |->
        [value |-> bytes[k], frame |-> IF k <= Len(line) THEN 1 ELSE 0, pos |-> k,
         of |-> Len(line)]]

\* read_rtu_frame, with the classes it really asks and the checksum it really
\* computes, answers every prefix as the abstract reader does, which knows a
\* layout by its kind and a checksum by what it accepts; where a frame's count is
\* not that of its items, the bytes it counts may pass for a frame by chance.
\* (Diagnostics, whose size depends on the sub-function, is a layout the abstract
\* reader has not.)
ReaderIsAbstracted ==
    (stage = "held" /\ ClassOf(sent.pdu).rule # "sub") =>
        LET abstract == Framing(sent.side)!ReadRtuFrame(Marked(held))
        IN \/ read = abstract
           \/ /\ ~ TailMatches(sent.pdu)
              /\ abstract = NoFrame(TRUE)
              /\ read.found /\ ValidateCrc(SubSeq(held, 1, read.length))

=============================================================================
