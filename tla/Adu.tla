-------------------------------- MODULE Adu --------------------------------
(***************************************************************************)
(* The application data units (adu/tcp.py, adu/rtu.py) and the size-driven *)
(* reader of RTU frames (read_rtu_frame in transport/rtu.py), down to the  *)
(* bytes.  What a call returns or raises is an outcome.                    *)
(*                                                                         *)
(* A side is the class that reads a PDU: "request", "response", or         *)
(* "either" for the generic packet, which does not interpret it.           *)
(*                                                                         *)
(* A definition introduced as a mutant is the one after it with a mistake  *)
(* in it; nothing here uses one.                                           *)
(***************************************************************************)
EXTENDS Pdu, Errors

Returns(packet) == [raises |-> "nothing", packet |-> packet]
Raises(class) == [raises |-> class]

\* _pdu_class(), the parser's dispatch, and the base class of the generic packet.
PduClass(side, stream) ==
    CASE side = "request"  -> RequestClass(stream)
      [] side = "response" -> ResponseClass(stream)
      [] side = "either"   -> ModbusPdu

PduParses(side, stream) == stream # <<>> /\ Unpacks(PduClass(side, stream), stream)
ParsedPdu(side, stream) == Deserialize(PduClass(side, stream), stream)

-----------------------------------------------------------------------------
(* The TCP ADU: the MBAP header ahead of the PDU. *)

HeaderSize == 7

Headers == [trans_id : Int, prot_id : Int, length : Int, unit_id : Int]

HeaderPacks(header) ==
    /\ Fits(header.trans_id, 2) /\ Fits(header.prot_id, 2)
    /\ Fits(header.length, 2) /\ Fits(header.unit_id, 1)

SerializeHeader(header) ==
    BigEndian(header.trans_id, 2) \o BigEndian(header.prot_id, 2)
      \o BigEndian(header.length, 2) \o BigEndian(header.unit_id, 1)

DeserializeHeader(stream) ==
    [trans_id |-> Number(SubSeq(stream, 1, 2)), prot_id |-> Number(SubSeq(stream, 3, 4)),
     length |-> Number(SubSeq(stream, 5, 6)), unit_id |-> stream[7]]

\* violations() of a header: LIMITS.
HeaderConforms(header) == header.prot_id = 0

\* The header unpacks, and validate_mbap_length: its length field counts the
\* unit identifier and the PDU.
HeaderHolds(stream) ==
    /\ Len(stream) >= HeaderSize
    /\ Len(stream) = HeaderSize + DeserializeHeader(stream).length - 1

TcpPacks(packet) == HeaderPacks(packet.header) /\ Packs(packet.pdu)
SerializeTcp(packet) == SerializeHeader(packet.header) \o Serialize(packet.pdu)

PduBytes(stream) == SubSeq(stream, HeaderSize + 1, Len(stream))

DeserializeTcp(stream, side) ==
    IF HeaderHolds(stream) /\ PduParses(side, PduBytes(stream))
    THEN Returns([header |-> DeserializeHeader(stream), pdu |-> ParsedPdu(side, PduBytes(stream))])
    ELSE Raises("ModbusPacketError")

ModbusTcpPacket(stream) == DeserializeTcp(stream, "either")
ModbusTcpResponse(stream) == DeserializeTcp(stream, "response")

\* A PDU that will not parse behind a header that did has its own class, which
\* carries the header and the function code; an empty PDU names none.
ModbusTcpRequest(stream) ==
    IF HeaderHolds(stream) /\ PduBytes(stream) # <<>> /\ ~ PduParses("request", PduBytes(stream))
    THEN [raises |-> "ModbusPduParseError", header |-> DeserializeHeader(stream),
          fc |-> PduBytes(stream)[1]]
    ELSE DeserializeTcp(stream, "request")

-----------------------------------------------------------------------------
(* The RTU ADU: the slave id ahead of the PDU, the checksum after it.  A   *)
(* register is the set of the places of its one bits.                      *)

Bits == [n \in 0 .. 255 |-> {k \in 0 .. 7 : (n \div 2 ^ k) % 2 = 1}]
ByteOf(bits) ==
    LET value(k) == IF k \in bits THEN 2 ^ k ELSE 0
    IN value(0) + value(1) + value(2) + value(3) + value(4) + value(5) + value(6) + value(7)

\* The generator 0xA001.
Generator == {0, 13, 15}

\* Mutant: the generator is folded in before the shift.
FoldThenShift(crc) ==
    {k - 1 : k \in (IF 0 \in crc THEN SymDiff(crc, Generator) ELSE crc) \ {0}}

\* One turn of the inner loop.
Shift(crc) ==
    LET shifted == {k - 1 : k \in crc \ {0}}
    IN IF 0 \in crc THEN SymDiff(shifted, Generator) ELSE shifted

\* A byte is folded in, and the register turned eight times.
AddByte(crc, byte) ==
    LET turned[turns \in 0 .. 8] == IF turns = 0 THEN SymDiff(crc, Bits[byte])
                                    ELSE Shift(turned[turns - 1])
    IN turned[8]

CalcCrc16(stream) ==
    LET crc[n \in 0 .. Len(stream)] == IF n = 0 THEN 0 .. 15
                                       ELSE AddByte(crc[n - 1], stream[n])
    IN crc[Len(stream)]

\* CRC_FMT: the low byte first.
CrcSize == 2
PackCrc(crc) == <<ByteOf(crc \cap 0 .. 7), ByteOf({k - 8 : k \in crc \ 0 .. 7})>>

FirstBytes(stream) == SubSeq(stream, 1, Len(stream) - CrcSize)
LastBytes(stream) == SubSeq(stream, Len(stream) - CrcSize + 1, Len(stream))

ValidateCrc(stream) ==
    /\ Len(stream) >= 2 + CrcSize
    /\ PackCrc(CalcCrc16(FirstBytes(stream))) = LastBytes(stream)

RtuPacks(packet) == Fits(packet.slave_id, 1) /\ Packs(packet.pdu)

\* Mutant: the checksum the packet was read with is sent again.
SerializeAsRead(packet) ==
    <<packet.slave_id>> \o Serialize(packet.pdu) \o packet.crc

\* The checksum is computed anew, whatever the packet holds.
SerializeRtu(packet) ==
    LET body == <<packet.slave_id>> \o Serialize(packet.pdu)
    IN body \o PackCrc(CalcCrc16(body))

\* Mutant: a corrupt frame is read whether or not that was asked for.
DeserializeUnchecked(stream, side, verify) ==
    IF Len(stream) >= CrcSize /\ PduParses(side, Tail(FirstBytes(stream)))
    THEN Returns([slave_id |-> stream[1], pdu |-> ParsedPdu(side, Tail(FirstBytes(stream))),
                  crc |-> LastBytes(stream)])
    ELSE Raises("ModbusPacketError")

\* deserialize() of the class for a side.  A stream of fewer than three bytes
\* has no PDU between the slave id and the checksum.
DeserializeRtu(stream, side, verify) ==
    IF /\ verify => ValidateCrc(stream)
       /\ Len(stream) > 1 + CrcSize
       /\ PduParses(side, Tail(FirstBytes(stream)))
    THEN Returns([slave_id |-> stream[1], pdu |-> ParsedPdu(side, Tail(FirstBytes(stream))),
                  crc |-> LastBytes(stream)])
    ELSE Raises("ModbusPacketError")

ModbusRtuRequest(stream, verify) == DeserializeRtu(stream, "request", verify)
ModbusRtuResponse(stream, verify) == DeserializeRtu(stream, "response", verify)
ModbusRtuPacket(stream, verify) == DeserializeRtu(stream, "either", verify)

-----------------------------------------------------------------------------
(* read_rtu_frame(). *)

MinRtuFrame == 2 + CrcSize

\* RtuRead.
Found(length) ==
    [found |-> TRUE, length |-> length, incomplete |-> FALSE, wanted |-> 0, sizable |-> TRUE]
Wants(n) ==
    [found |-> FALSE, length |-> 0, incomplete |-> TRUE, wanted |-> n, sizable |-> TRUE]
NoFrame(sizable) ==
    [found |-> FALSE, length |-> 0, incomplete |-> FALSE, wanted |-> 0, sizable |-> sizable]

ReadRtuFrame(stream, side) ==
    IF Len(stream) < MinRtuFrame THEN Wants(MinRtuFrame - Len(stream))
    ELSE LET size == ExpectedSize(PduClass(side, Tail(stream)), Tail(stream))
             end == 1 + size + CrcSize
         IN CASE size = Unsizable -> NoFrame(FALSE)
              [] size = NeedsMore -> Wants(1)
              [] size >= 0 /\ Len(stream) < end -> Wants(end - Len(stream))
              [] OTHER -> IF ModbusRtuPacket(SubSeq(stream, 1, end), TRUE).raises = "nothing"
                          THEN Found(end) ELSE NoFrame(TRUE)

=============================================================================
