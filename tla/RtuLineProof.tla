---------------------------- MODULE RtuLineProof ----------------------------
(***************************************************************************)
(* RtuLine's invariants, for every packet, damage and bytes that follow.   *)
(*                                                                         *)
(* The first part is about frames: that one can be taken apart again, and  *)
(* where its header says it ends.  It takes from the checksum only that it *)
(* has two bytes.  The second part is about the checksum.                  *)
(***************************************************************************)
EXTENDS RtuLine, ExchangeProof, FiniteSetTheorems, WellFoundedInduction

-----------------------------------------------------------------------------
(* A slave id, a PDU's bytes and the checksum.                             *)

LEMMA ByteIs == \A bits : ByteOf(bits) \in Octet
  <1> SUFFICES ASSUME NEW bits PROVE ByteOf(bits) \in Octet
    OBVIOUS
  <1> DEFINE value(k) == IF k \in bits THEN 2 ^ k ELSE 0
  <1>1. /\ value(0) \in {0, 1} /\ value(1) \in {0, 2} /\ value(2) \in {0, 4}
        /\ value(3) \in {0, 8} /\ value(4) \in {0, 16} /\ value(5) \in {0, 32}
        /\ value(6) \in {0, 64} /\ value(7) \in {0, 128}
    OBVIOUS
  <1>2. ByteOf(bits) = value(0) + value(1) + value(2) + value(3)
                         + value(4) + value(5) + value(6) + value(7)
    BY DEF ByteOf
  <1> HIDE DEF value
  <1>3. PICK n : n = ByteOf(bits)
    OBVIOUS
  <1>4. n \in Int /\ 0 <= n /\ n <= 255
    BY <1>1, <1>2, <1>3
  <1> QED
    BY <1>3, <1>4, OctetIs

LEMMA PackIs == \A crc : PackCrc(crc) \in Seq(Octet) /\ Len(PackCrc(crc)) = 2
  <1> SUFFICES ASSUME NEW crc PROVE PackCrc(crc) \in Seq(Octet) /\ Len(PackCrc(crc)) = 2
    OBVIOUS
  <1>1. PICK a, b : a \in Octet /\ b \in Octet /\ PackCrc(crc) = <<a, b>>
    BY ByteIs DEF PackCrc
  <1> QED
    BY <1>1

\* A frame: where each part of it is, and that it is taken apart into what it
\* was put together from.
InFrame(id, bytes, frame) ==
    /\ bytes \in Seq(Octet) /\ frame \in Seq(Octet)
    /\ Len(bytes) \in Nat /\ Len(bytes) >= 1 /\ bytes # <<>>
    /\ Len(frame) = 3 + Len(bytes)
    /\ frame[1] = id /\ \A i \in 1 .. Len(bytes) : frame[1 + i] = bytes[i]
    /\ FirstBytes(frame) = <<id>> \o bytes /\ Tail(FirstBytes(frame)) = bytes
    /\ FirstBytes(frame) \in Seq(Octet)
    /\ LastBytes(frame) = PackCrc(CalcCrc16(FirstBytes(frame)))
    /\ ValidateCrc(frame)

LEMMA BytesOfFrame ==
    ASSUME NEW id, Fits(id, 1), NEW bytes \in Seq(Octet), bytes # <<>>,
           NEW body, body = <<id>> \o bytes,
           NEW frame, frame = body \o PackCrc(CalcCrc16(body))
    PROVE  InFrame(id, bytes, frame)
  <1>1. PICK s : s = <<id>>
    OBVIOUS
  <1>2. s \in Seq(Octet) /\ Len(s) = 1 /\ s[1] = id
    BY <1>1, FitsIs, OctetIs
  <1>3. PICK c : c = PackCrc(CalcCrc16(body))
    OBVIOUS
  <1>4. c \in Seq(Octet) /\ Len(c) = 2
    BY <1>3, PackIs
  <1>5. Len(bytes) \in Nat /\ Len(bytes) >= 1
    BY EmptySeq, LenProperties
  <1>6. body = s \o bytes /\ frame = body \o c
    BY <1>1, <1>3
  <1>7. /\ body \in Seq(Octet) /\ Len(body) = 1 + Len(bytes) /\ body[1] = id
        /\ \A i \in 1 .. Len(bytes) : body[1 + i] = bytes[i]
    <2>1. /\ s \o bytes \in Seq(Octet) /\ Len(s \o bytes) = Len(s) + Len(bytes)
          /\ \A i \in 1 .. Len(s) : (s \o bytes)[i] = s[i]
          /\ \A i \in 1 .. Len(bytes) : (s \o bytes)[Len(s) + i] = bytes[i]
      BY <1>2, Beside
    <2> QED
      BY <1>2, <1>6, <2>1
  <1>8. /\ frame \in Seq(Octet) /\ Len(frame) = Len(body) + 2 /\ Len(body) \in Nat
        /\ \A i \in 1 .. Len(body) : frame[i] = body[i]
        /\ \A i \in 1 .. 2 : frame[Len(body) + i] = c[i]
    <2>1. /\ body \o c \in Seq(Octet) /\ Len(body \o c) = Len(body) + Len(c)
          /\ Len(body) \in Nat
          /\ \A i \in 1 .. Len(body) : (body \o c)[i] = body[i]
          /\ \A i \in 1 .. Len(c) : (body \o c)[Len(body) + i] = c[i]
      BY <1>4, <1>7, Beside
    <2> QED
      BY <1>4, <1>6, <2>1
  <1>9. FirstBytes(frame) = body
    <2>1. FirstBytes(frame) = SubSeq(frame, 1, Len(body))
      <3>1. Len(frame) - 2 = Len(body)
        BY ONLY <1>8
      <3>2. FirstBytes(frame) = SubSeq(frame, 1, Len(frame) - 2)
        BY ONLY DEF FirstBytes, CrcSize
      <3> QED
        BY ONLY <3>1, <3>2
    <2>2. SubSeq(frame, 1, Len(body)) = [i \in 1 .. Len(body) |-> frame[1 + i - 1]]
      BY <1>8
    <2>3. \A i \in 1 .. Len(body) : frame[1 + i - 1] = body[i]
      <3> SUFFICES ASSUME NEW i \in 1 .. Len(body) PROVE frame[1 + i - 1] = body[i]
        OBVIOUS
      <3>1. 1 + i - 1 = i
        OBVIOUS
      <3> QED
        BY <1>8, <3>1
    <2>4. body = [i \in 1 .. Len(body) |-> body[i]]
      BY <1>7
    <2> QED
      BY <2>1, <2>2, <2>3, <2>4
  <1>10. LastBytes(frame) = c
    <2>1. LastBytes(frame) = SubSeq(frame, Len(body) + 1, Len(body) + 2)
      <3>1. Len(frame) - CrcSize + 1 = Len(body) + 1 /\ Len(frame) = Len(body) + 2
        BY <1>8 DEF CrcSize
      <3> QED
        BY <3>1 DEF LastBytes
    <2>2. SubSeq(frame, Len(body) + 1, Len(body) + 2)
             = [i \in 1 .. 2 |-> frame[Len(body) + 1 + i - 1]]
      BY <1>8
    <2>3. \A i \in 1 .. 2 : frame[Len(body) + 1 + i - 1] = c[i]
      <3> SUFFICES ASSUME NEW i \in 1 .. 2 PROVE frame[Len(body) + 1 + i - 1] = c[i]
        OBVIOUS
      <3>1. Len(body) + 1 + i - 1 = Len(body) + i
        BY <1>8
      <3> QED
        BY <1>8, <3>1
    <2>4. c = [i \in 1 .. 2 |-> c[i]]
      BY <1>4
    <2> QED
      BY <2>1, <2>2, <2>3, <2>4
  <1>11. Tail(body) = bytes
    <2>1. /\ Tail(body) \in Seq(Octet) /\ Len(Tail(body)) = Len(bytes)
          /\ \A i \in 1 .. Len(bytes) : Tail(body)[i] = body[i + 1]
      BY <1>5, <1>7
    <2>2. \A i \in 1 .. Len(bytes) : Tail(body)[i] = bytes[i]
      <3> SUFFICES ASSUME NEW i \in 1 .. Len(bytes) PROVE Tail(body)[i] = bytes[i]
        OBVIOUS
      <3>1. i + 1 = 1 + i
        OBVIOUS
      <3> QED
        BY <1>7, <2>1, <3>1
    <2> QED
      BY <2>1, <2>2
  <1>12. ValidateCrc(frame)
    <2>1. Len(frame) >= 2 + 2
      BY <1>5, <1>7, <1>8
    <2> QED
      BY <1>3, <1>9, <1>10, <2>1 DEF ValidateCrc, CrcSize
  <1>13. \A i \in 1 .. Len(bytes) : frame[1 + i] = bytes[i]
    <2> SUFFICES ASSUME NEW i \in 1 .. Len(bytes) PROVE frame[1 + i] = bytes[i]
      OBVIOUS
    <2>1. 1 + i \in 1 .. Len(body)
      BY <1>5, <1>7
    <2> QED
      BY <1>7, <1>8, <2>1
  <1>14. frame[1] = id
    <2>1. 1 \in 1 .. Len(body)
      BY <1>5, <1>7
    <2> QED
      BY <1>7, <1>8, <2>1
  <1>15. Len(frame) = 3 + Len(bytes)
    BY <1>5, <1>7, <1>8
  <1> QED
    BY <1>3, <1>5, <1>7, <1>8, <1>15, <1>9, <1>10, <1>11, <1>12, <1>13, <1>14
  DEF InFrame

-----------------------------------------------------------------------------
(* A packet there and back.                                                *)

\* What a station sends: a PDU of a class that the side reads its code as.
Sends(class, packet) ==
    /\ class \in Known /\ ClassOf(packet.pdu) = class /\ packet.pdu.id = class.id
    /\ Shaped(packet.pdu)
    /\ packet.side \in {"request", "response"}
    /\ class = PduClass(packet.side, <<WireCode(packet.pdu)>>)

LEMMA PacketsAre == \A packet \in Packets : \E class : Sends(class, packet)
  <1> SUFFICES ASSUME NEW packet \in Packets PROVE \E class : Sends(class, packet)
    OBVIOUS
  <1>1. PICK pdu, class : pdu = packet.pdu /\ class = ClassOf(pdu)
    OBVIOUS
  <1>2. /\ pdu \in Pdus /\ packet.side \in {"request", "response"}
        /\ pdu.id = class.id
        /\ class = PduClass(packet.side, <<WireCode(pdu)>>)
        /\ Len(pdu.fields) = Len(class.widths)
        /\ class.item = 0 => pdu.tail = <<>>
    BY <1>1, LineAssumption
  <1>3. class \in Known
    BY <1>1, LookupOr DEF ClassOf, Known
  <1> QED
    BY <1>1, <1>2, <1>3 DEF Sends, Shaped

LEMMA ClassByCode ==
    ASSUME NEW to, NEW stream
    PROVE  PduClass(to, stream) = PduClass(to, <<stream[1]>>)
  BY DEF PduClass, RequestClass, ResponseClass

LEMMA FrameOfPacket ==
    ASSUME NEW packet, NEW class, Sends(class, packet), RtuPacks(packet),
           NEW bytes, bytes = Serialize(packet.pdu),
           NEW frame, frame = SerializeRtu(packet)
    PROVE  /\ InFrame(packet.slave_id, bytes, frame)
           /\ Len(bytes) = HeadSize(class) + class.item * Len(packet.pdu.tail)
           /\ bytes[1] = WireCode(packet.pdu) /\ PduClass(packet.side, bytes) = class
           /\ Unpacks(class, bytes) /\ Deserialize(class, bytes) = packet.pdu
  <1>1. PICK pdu : pdu = packet.pdu
    OBVIOUS
  <1>2. class \in Known /\ pdu.id = class.id /\ Shaped(pdu) /\ Packs(pdu)
    BY <1>1 DEF Sends, RtuPacks
  <1>3. /\ bytes \in Seq(Octet) /\ PduLen(pdu) \in Nat /\ 1 <= PduLen(pdu)
        /\ PduLen(pdu) = HeadSize(class) + class.item * Len(pdu.tail)
        /\ Len(bytes) = PduLen(pdu) /\ bytes[1] = WireCode(pdu)
        /\ Unpacks(class, bytes) /\ Deserialize(class, bytes) = pdu
    BY <1>1, <1>2, PduBack
  <1>4. bytes # <<>>
    <2>1. PICK n : n = PduLen(pdu)
      OBVIOUS
    <2>4. PduLen(pdu) \in Nat /\ 1 <= PduLen(pdu) /\ Len(bytes) = PduLen(pdu)
      BY ONLY <1>3
    <2>2. n \in Nat /\ 1 <= n /\ Len(bytes) = n
      BY ONLY <2>1, <2>4
    <2>3. Len(bytes) # 0
      BY ONLY <2>2
    <2> QED
      BY <2>3, EmptySeq
  <1>5. PICK body : body = <<packet.slave_id>> \o bytes
    OBVIOUS
  <1>6. Fits(packet.slave_id, 1) /\ frame = body \o PackCrc(CalcCrc16(body))
    BY <1>5 DEF RtuPacks, SerializeRtu
  <1>7. InFrame(packet.slave_id, bytes, frame)
    BY <1>3, <1>4, <1>5, <1>6, BytesOfFrame
  <1>8. PduClass(packet.side, bytes) = class
    <2>1. PduClass(packet.side, bytes) = PduClass(packet.side, <<bytes[1]>>)
      BY ClassByCode
    <2> QED
      BY <1>1, <1>3, <2>1 DEF Sends
  <1> QED
    BY <1>1, <1>3, <1>7, <1>8

\* What is sent is what is read: deserialize() is the inverse of serialize().
LEMMA ReadBack ==
    ASSUME NEW packet, NEW class, Sends(class, packet), RtuPacks(packet),
           NEW frame, frame = SerializeRtu(packet), NEW verify \in BOOLEAN
    PROVE  /\ DeserializeRtu(frame, packet.side, verify) =
                 Returns([slave_id |-> packet.slave_id, pdu |-> packet.pdu,
                          crc |-> LastBytes(frame)])
           /\ DeserializeRtu(frame, "either", verify).raises = "nothing"
  <1>1. PICK bytes, to : bytes = Serialize(packet.pdu) /\ to = packet.side
    OBVIOUS
  <1>2. /\ InFrame(packet.slave_id, bytes, frame)
        /\ PduClass(to, bytes) = class
        /\ Unpacks(class, bytes) /\ Deserialize(class, bytes) = packet.pdu
    BY <1>1, FrameOfPacket
  <1>3. /\ ValidateCrc(frame) /\ Len(frame) > 1 + CrcSize /\ Tail(FirstBytes(frame)) = bytes
        /\ frame[1] = packet.slave_id /\ bytes # <<>> /\ bytes \in Seq(Octet)
    BY <1>2 DEF InFrame, CrcSize
  <1>4. PduParses(to, bytes) /\ ParsedPdu(to, bytes) = packet.pdu
    BY <1>2, <1>3 DEF PduParses, ParsedPdu
  <1>5. DeserializeRtu(frame, to, verify) =
           Returns([slave_id |-> packet.slave_id, pdu |-> packet.pdu, crc |-> LastBytes(frame)])
    BY <1>3, <1>4 DEF DeserializeRtu
  <1>6. PduParses("either", bytes)
    <2>1. Unpacks(ModbusPdu, bytes)
      BY <1>3, GenericBack
    <2>2. PduClass("either", bytes) = ModbusPdu
      BY DEF PduClass
    <2> QED
      BY <1>3, <2>1, <2>2 DEF PduParses
  <1>7. DeserializeRtu(frame, "either", verify).raises = "nothing"
    BY <1>3, <1>6 DEF DeserializeRtu, Returns
  <1> QED
    BY <1>1, <1>5, <1>7

\* What the class for a side reads, whatever the bytes: a PDU that packs, unless
\* it is sized by a count that may not be that of its items.
LEMMA ReadPacks ==
    ASSUME NEW to \in {"request", "response", "either"},
           NEW bytes \in Seq(Octet), bytes # <<>>,
           NEW class, class = PduClass(to, bytes), Unpacks(class, bytes),
           NEW pdu, pdu = Deserialize(class, bytes)
    PROVE  /\ class \in Known /\ pdu.id = class.id /\ Shaped(pdu)
           /\ SizedByCount(class) \/ Packs(pdu)
           /\ to # "response" => ~ SizedByCount(class)
  <1>1. PICK code : code = bytes[1]
    OBVIOUS
  <1>2. /\ Len(bytes) \in Nat /\ Len(bytes) >= 1 /\ code \in Octet
        /\ code \in Int /\ 0 <= code /\ code <= 255
    BY <1>1, EmptySeq, LenProperties, OctetIs
  <1>3. /\ class \in Known
        /\ class = ModbusError => code >= 128
        /\ to # "response" => ~ SizedByCount(class)
    <2>1. CASE to = "request"
      <3>1. class = Lookup(code)
        BY <1>1, <2>1 DEF PduClass, RequestClass
      <3>2. class \in Requests \/ class = ModbusPdu
        BY <1>2, <3>1, RequestClassIs
      <3>3. class.id \in Int /\ class.id <= 43
        <4>1. \A c \in Requests : c.id \in Int /\ c.id <= 43
          BY ONLY Sides
        <4>2. ModbusPdu.id = 0
          BY ONLY Ids
        <4> QED
          BY ONLY <3>2, <4>1, <4>2
      <3>4. class.id # 32768 /\ class.id # 32769 /\ class.id # 32770
        BY ONLY <3>3
      <3>7. ModbusError.id = 32768 /\ ModbusResponseFC1.id = 32769 /\ ModbusResponseFC2.id = 32770
        BY Ids
      <3>5. class # ModbusError /\ ~ SizedByCount(class)
        BY ONLY <3>4, <3>7 DEF SizedByCount
      <3>6. class \in Known
        BY <3>2, RegistryIs DEF Known
      <3> QED
        BY <3>5, <3>6
    <2>2. CASE to = "either"
      <3>1. class = ModbusPdu
        BY <2>2 DEF PduClass
      <3> QED
        BY <3>1, Ids DEF SizedByCount, Known
    <2>3. CASE to = "response"
      <3>1. class = IF code >= 128 THEN ModbusError ELSE Lookup(Rsp(code))
        BY <1>1, <2>3 DEF PduClass, ResponseClass
      <3>2. PICK v : v = Rsp(code)
        OBVIOUS
      <3>3. CASE code >= 128
        BY <2>3, <3>1, <3>3 DEF Known
      <3>4. CASE ~ (code >= 128)
        <4>1. class = Lookup(v)
          BY <3>1, <3>2, <3>4
        <4>2. v # 32768 \/ class # ModbusError
          <5>1. \A c \in Registry : c # ModbusError
            BY Sides, Ids, RegistryIs
          <5> QED
            BY <4>1, <5>1, LookupOr, Ids
        <4>3. \A c \in Registry : c.id # ModbusError.id
          <5>1. ModbusError.id = 32768
            BY ONLY Ids
          <5>2. /\ \A c \in Requests : c.id \in Int /\ c.id <= 43
                /\ \A c \in Responses : c.id \in Int /\ 32769 <= c.id
            BY ONLY Sides
          <5>3. \A c \in Requests : c.id # ModbusError.id
            BY ONLY <5>1, <5>2
          <5>4. \A c \in Responses : c.id # ModbusError.id
            BY ONLY <5>1, <5>2
          <5> QED
            BY ONLY <5>3, <5>4, RegistryIs
        <4>4. ModbusPdu.id # ModbusError.id
          BY ONLY Ids
        <4>5. \A c \in Registry \cup {ModbusPdu} : c # ModbusError
          BY ONLY <4>3, <4>4
        <4> QED
          BY <2>3, <4>1, <4>5, LookupOr DEF Known
      <3> QED
        BY <3>3, <3>4
    <2> QED
      BY <2>1, <2>2, <2>3
  <1>4. CASE class = ModbusError
    <2>1. /\ class.widths = <<1>> /\ class.item = 0 /\ class.id = 32768 /\ ModbusError.id = 32768
          /\ FieldEnds(<<1>>)[1] = 2 /\ FieldEnds(<<1>>)[0] = 1
      <3>1. PICK w : w = <<1>>
        OBVIOUS
      <3>2. Len(w) = 1 /\ Len(w) <= 5 /\ w \in Seq(Width)
        BY <3>1, Heads
      <3>3. FieldEnds(w)[0] = 1
        BY ONLY <3>2, EndsAre
      <3>4. FieldEnds(w)[1] = 2
        BY <3>1, Heads
      <3> QED
        BY <1>4, <3>1, <3>3, <3>4, Places, Ids
    <2>2. Len(bytes) = 2 /\ bytes[2] \in Octet
      <3>1. HeadSize(class) = 2
        <4>1. Len(class.widths) = 1
          BY <2>1
        <4> QED
          BY <2>1, <4>1 DEF HeadSize
      <3>2. Len(bytes) - HeadSize(class) = 0
        BY <2>1 DEF Unpacks
      <3>3. Len(bytes) = 2
        BY ONLY <1>2, <3>1, <3>2
      <3> QED
        BY ONLY <3>3, bytes \in Seq(Octet)
    <2>4. Number(SubSeq(bytes, 2, 2)) = bytes[2]
      <3>1. PICK z : z = 2
        OBVIOUS
      <3>2. 1 \in Nat /\ 1 \in Width /\ z = 1 + 1 /\ z <= Len(bytes)
        BY <2>2, <3>1 DEF Width
      <3>3. Number(SubSeq(bytes, 1 + 1, z)) = bytes[z]
        BY ONLY <3>2, PartFits, bytes \in Seq(Octet)
      <3> QED
        BY <3>1, <3>3
    <2>3. PICK fields, tail :
             /\ fields = [k \in DOMAIN class.widths |->
                             Number(SubSeq(bytes, FieldEnds(class.widths)[k - 1] + 1,
                                           FieldEnds(class.widths)[k]))]
             /\ tail = IF class.item = 0 THEN <<>>
                       ELSE [k \in 1 .. (Len(bytes) - HeadSize(class)) \div class.item |->
                               Number(SubSeq(bytes, HeadSize(class) + (k - 1) * class.item + 1,
                                             HeadSize(class) + k * class.item))]
      OBVIOUS
    <2>5. pdu = [id |-> 32768, fc |-> code - 128, fields |-> fields, tail |-> <<>>]
      <3>1. pdu = [id |-> class.id,
                   fc |-> IF class.id = ModbusError.id THEN bytes[1] - 128 ELSE bytes[1],
                   fields |-> fields, tail |-> tail]
        BY ONLY <2>3, pdu = Deserialize(class, bytes) DEF Deserialize
      <3>2. tail = <<>>
        BY ONLY <2>1, <2>3
      <3> QED
        BY ONLY <1>1, <2>1, <3>1, <3>2
    <2>6. fields = [k \in 1 .. 1 |-> bytes[2]]
      <3>1. DOMAIN class.widths = 1 .. 1
        BY <2>1
      <3>2. \A k \in 1 .. 1 : Number(SubSeq(bytes, FieldEnds(<<1>>)[k - 1] + 1,
                                           FieldEnds(<<1>>)[k])) = bytes[2]
        <4> SUFFICES ASSUME NEW k \in 1 .. 1
                     PROVE  Number(SubSeq(bytes, FieldEnds(<<1>>)[k - 1] + 1,
                                          FieldEnds(<<1>>)[k])) = bytes[2]
          OBVIOUS
        <4>1. k = 1 /\ k - 1 = 0 /\ 1 + 1 = 2
          OBVIOUS
        <4> QED
          BY <2>1, <2>4, <4>1
      <3>3. fields = [k \in 1 .. 1 |-> Number(SubSeq(bytes, FieldEnds(<<1>>)[k - 1] + 1,
                                                     FieldEnds(<<1>>)[k]))]
        BY ONLY <2>1, <2>3, <3>1
      <3> QED
        BY ONLY <3>2, <3>3
    <2>7. fields = <<bytes[2]>> /\ bytes[2] \in Int /\ fields \in Seq(Int)
      <3>1. bytes[2] \in Int
        BY <2>2, OctetIs
      <3>2. fields = <<bytes[2]>>
        BY ONLY <2>6
      <3> QED
        BY ONLY <3>1, <3>2
    <2>8. code - 128 \in Nat /\ code - 128 + 128 = code
      BY <1>2, <1>3, <1>4
    <2>9. ClassOf(pdu) = class
      BY <1>4, <2>1, <2>5 DEF ClassOf
    <2>10. pdu.id = 32768 /\ pdu.fc = code - 128 /\ pdu.fields = fields /\ pdu.tail = <<>>
      BY ONLY <2>5
    <2>11. Shaped(pdu)
      <3>1. pdu \in Pdus
        BY ONLY <2>5, <2>7, <2>8 DEF Pdus
      <3>2. Len(pdu.fields) = 1 /\ Len(<<1>>) = 1
        BY <2>7, <2>10
      <3> QED
        BY <2>1, <2>10, <2>9, <3>1, <3>2 DEF Shaped
    <2>12. Fits(WireCode(pdu), 1)
      <3>1. WireCode(pdu) = code
        BY <2>1, <2>10, <2>8 DEF WireCode
      <3> QED
        BY <1>2, <3>1, FitsIs
    <2>13. Fits(bytes[2], 1)
      BY <2>2, OctetIs, FitsIs
    <2>14. ~ SizedByCount(class)
      BY <2>1, Ids DEF SizedByCount
    <2>15. Packs(pdu)
      <3>1. \A k \in DOMAIN class.widths : Fits(pdu.fields[k], class.widths[k])
        BY <2>1, <2>7, <2>10, <2>13
      <3>2. \A k \in DOMAIN pdu.tail : Fits(pdu.tail[k], class.item)
        BY <2>10
      <3> QED
        BY <2>9, <2>12, <2>14, <3>1, <3>2 DEF Packs
    <2> QED
      BY <1>3, <2>1, <2>10, <2>11, <2>15
  <1>5. CASE class # ModbusError
    <2>1. /\ Layout(class) /\ class.id \in Nat /\ class.id # ModbusError.id
      <3>1. class \in Registry \/ class = ModbusPdu
        BY <1>3, <1>5 DEF Known
      <3>2. \A c \in Registry : c.id # 32768
        BY Sides, RegistryIs
      <3>3. class.id # ModbusError.id
        <4>1. ModbusPdu.id = 0 /\ ModbusError.id = 32768
          BY ONLY Ids
        <4> QED
          BY ONLY <3>1, <3>2, <4>1
      <3> QED
        BY <3>1, <3>3, Layouts
    <2>2. /\ pdu.id = class.id /\ pdu.fc = code /\ pdu \in Pdus
          /\ Len(pdu.fields) = Len(class.widths)
          /\ \A k \in 1 .. Len(class.widths) : Fits(pdu.fields[k], class.widths[k])
          /\ class.item = 0 => pdu.tail = <<>>
          /\ \A k \in 1 .. Len(pdu.tail) : Fits(pdu.tail[k], class.item)
      BY <1>1, <2>1, DeserializeShapes
    <2>3. ClassOf(pdu) = class
      BY <1>3, <2>2, KnownIs
    <2>4. Shaped(pdu)
      BY <2>2, <2>3 DEF Shaped
    <2>5. ASSUME ~ SizedByCount(class) PROVE Packs(pdu)
      <3>1. Fits(WireCode(pdu), 1)
        <4>1. WireCode(pdu) = code
          BY <1>2, <2>1, <2>2 DEF WireCode
        <4> QED
          BY <1>2, <4>1, FitsIs
      <3>2. DOMAIN class.widths = 1 .. Len(class.widths) /\ DOMAIN pdu.tail = 1 .. Len(pdu.tail)
        <4>1. class.widths \in Seq(Width) /\ pdu.tail \in Seq(Int)
          BY <2>1, <2>2 DEF Layout, Pdus
        <4> QED
          BY <4>1
      <3> QED
        BY <2>2, <2>3, <2>5, <3>1, <3>2 DEF Packs
    <2> QED
      BY <1>3, <2>2, <2>4, <2>5
  <1> QED
    BY <1>4, <1>5


-----------------------------------------------------------------------------
(* What is read, sent on.                                                  *)

LEMMA PartsOf ==
    ASSUME NEW stream \in Seq(Octet), Len(stream) > 3
    PROVE  LET bytes == Tail(FirstBytes(stream))
           IN /\ bytes \in Seq(Octet) /\ bytes # <<>> /\ stream[1] \in Octet
              /\ FirstBytes(stream) = <<stream[1]>> \o bytes
  <1>1. PICK n : n = Len(stream)
    OBVIOUS
  <1>2. n \in Int /\ n > 3
    BY <1>1
  <1>3. PICK body : body = SubSeq(stream, 1, n - 2)
    OBVIOUS
  <1>4. FirstBytes(stream) = body
    BY <1>1, <1>3 DEF FirstBytes, CrcSize
  <1>5. /\ body \in Seq(Octet) /\ Len(body) = n - 2
        /\ \A i \in 1 .. n - 2 : body[i] = stream[i]
    BY ONLY <1>1, <1>2, <1>3, stream \in Seq(Octet)
  <1>6. PICK bytes : bytes = Tail(body)
    OBVIOUS
  <1>7. body # <<>>
    BY ONLY <1>2, <1>5
  <1>8. /\ bytes \in Seq(Octet) /\ Len(bytes) = n - 3
        /\ \A i \in 1 .. n - 3 : bytes[i] = body[i + 1]
    BY ONLY <1>2, <1>5, <1>6, <1>7
  <1>9. stream[1] \in Octet /\ body[1] = stream[1] /\ bytes # <<>>
    BY ONLY <1>1, <1>2, <1>5, <1>8, stream \in Seq(Octet)
  <1>10. body = <<stream[1]>> \o bytes
    <2>1. PICK s : s = <<stream[1]>>
      OBVIOUS
    <2>2. s \in Seq(Octet) /\ Len(s) = 1 /\ s[1] = stream[1]
      BY <1>9, <2>1
    <2>3. /\ s \o bytes \in Seq(Octet) /\ Len(s \o bytes) = Len(s) + Len(bytes)
          /\ \A i \in 1 .. Len(s) : (s \o bytes)[i] = s[i]
          /\ \A i \in 1 .. Len(bytes) : (s \o bytes)[Len(s) + i] = bytes[i]
      BY <1>8, <2>2, Beside
    <2>4. PICK t : t = s \o bytes
      OBVIOUS
    <2>5. /\ t \in Seq(Octet) /\ Len(t) = n - 2 /\ t[1] = body[1]
          /\ \A i \in 1 .. n - 3 : t[1 + i] = body[i + 1]
      BY ONLY <1>2, <1>8, <1>9, <2>2, <2>3, <2>4
    <2>6. \A i \in 1 .. n - 2 : t[i] = body[i]
      <3> SUFFICES ASSUME NEW i \in 1 .. n - 2 PROVE t[i] = body[i]
        OBVIOUS
      <3>1. CASE i = 1
        BY ONLY <2>5, <3>1
      <3>2. CASE i # 1
        <4>1. PICK j : j = i - 1
          OBVIOUS
        <4>2. j \in 1 .. n - 3 /\ i = 1 + j /\ i = j + 1
          BY ONLY <1>2, <3>2, <4>1, i \in 1 .. n - 2
        <4> QED
          BY ONLY <2>5, <4>2
      <3> QED
        BY ONLY <3>1, <3>2
    <2>7. t = body
      BY ONLY <1>2, <1>5, <2>5, <2>6
    <2> QED
      BY <2>1, <2>4, <2>7
  <1> QED
    BY <1>4, <1>6, <1>8, <1>9, <1>10

\* A gateway serializes what it read, unless it is a response whose count is not
\* that of its items; the checksum is that of what it sends, and the generic
\* packet sends the bytes it came with.
LEMMA SentOn ==
    ASSUME NEW stream \in Seq(Octet), NEW to \in {"request", "response", "either"},
           NEW verify \in BOOLEAN,
           NEW returned, returned = DeserializeRtu(stream, to, verify),
           returned.raises = "nothing",
           NEW packet, packet = returned.packet
    PROVE  /\ to # "response" => RtuPacks(packet)
           /\ RtuPacks(packet) =>
                 /\ ValidateCrc(SerializeRtu(packet))
                 /\ to = "either" =>
                       /\ FirstBytes(SerializeRtu(packet)) = FirstBytes(stream)
                       /\ SerializeRtu(packet) =
                             FirstBytes(stream) \o PackCrc(CalcCrc16(FirstBytes(stream)))
  <1>1. PICK bytes : bytes = Tail(FirstBytes(stream))
    OBVIOUS
  <1>2. PICK class : class = PduClass(to, bytes)
    OBVIOUS
  <1>3. PICK pdu : pdu = Deserialize(class, bytes)
    OBVIOUS
  <1>4. /\ Len(stream) > 3 /\ Unpacks(class, bytes)
        /\ packet = [slave_id |-> stream[1], pdu |-> pdu, crc |-> LastBytes(stream)]
    <2>1. Raises("ModbusPacketError").raises # "nothing"
      BY DEF Raises
    <2>2. 1 + CrcSize = 3
      BY DEF CrcSize
    <2>3. Len(stream) > 1 + CrcSize /\ PduParses(to, bytes)
      BY <1>1, <2>1 DEF DeserializeRtu
    <2>4. returned = Returns([slave_id |-> stream[1], pdu |-> ParsedPdu(to, bytes),
                              crc |-> LastBytes(stream)])
      BY <1>1, <2>1 DEF DeserializeRtu
    <2>5. ParsedPdu(to, bytes) = pdu /\ Unpacks(class, bytes)
      BY <1>2, <1>3, <2>3 DEF ParsedPdu, PduParses
    <2> QED
      BY <2>2, <2>3, <2>4, <2>5 DEF Returns
  <1>5. /\ bytes \in Seq(Octet) /\ bytes # <<>> /\ stream[1] \in Octet
        /\ FirstBytes(stream) = <<stream[1]>> \o bytes
    BY <1>1, <1>4, PartsOf
  <1>6. packet.slave_id = stream[1] /\ packet.pdu = pdu /\ Fits(stream[1], 1)
    BY <1>4, <1>5, OctetIs, FitsIs
  <1>7. /\ class \in Known /\ pdu.id = class.id /\ Shaped(pdu)
        /\ SizedByCount(class) \/ Packs(pdu)
        /\ to # "response" => ~ SizedByCount(class)
    BY <1>2, <1>3, <1>4, <1>5, ReadPacks
  <1>8. to # "response" => RtuPacks(packet)
    BY <1>6, <1>7 DEF RtuPacks
  <1>9. ASSUME RtuPacks(packet)
        PROVE  /\ ValidateCrc(SerializeRtu(packet))
               /\ to = "either" =>
                     /\ FirstBytes(SerializeRtu(packet)) = FirstBytes(stream)
                     /\ SerializeRtu(packet) =
                           FirstBytes(stream) \o PackCrc(CalcCrc16(FirstBytes(stream)))
    <2>1. PICK b : b = Serialize(pdu)
      OBVIOUS
    <2>2. Packs(pdu)
      BY <1>6, <1>9 DEF RtuPacks
    <2>3. b \in Seq(Octet) /\ PduLen(pdu) \in Nat /\ 1 <= PduLen(pdu) /\ Len(b) = PduLen(pdu)
      BY <1>7, <2>1, <2>2, PduBack
    <2>4. b # <<>>
      BY ONLY <2>3
    <2>5. PICK body, frame : body = <<stream[1]>> \o b /\ frame = body \o PackCrc(CalcCrc16(body))
      OBVIOUS
    <2>6. SerializeRtu(packet) = frame
      BY <1>6, <2>1, <2>5 DEF SerializeRtu
    <2>7. InFrame(stream[1], b, frame)
      BY <1>6, <2>3, <2>4, <2>5, BytesOfFrame
    <2>8. ValidateCrc(frame) /\ FirstBytes(frame) = <<stream[1]>> \o b
      BY <2>7 DEF InFrame
    <2>9. ASSUME to = "either" PROVE b = bytes
      <3>1. class = ModbusPdu
        BY <1>2, <2>9 DEF PduClass
      <3> QED
        BY <1>3, <1>5, <2>1, <3>1, GenericBack
    <2> QED
      BY <1>5, <2>5, <2>6, <2>8, <2>9
  <1> QED
    BY <1>8, <1>9

LEMMA DamagedIs ==
    ASSUME NEW bytes \in Seq(Octet), NEW places
    PROVE  Damaged(bytes, places) \in Seq(Octet) /\ Len(Damaged(bytes, places)) = Len(bytes)
  <1>1. DOMAIN bytes = 1 .. Len(bytes) /\ Len(bytes) \in Nat
    OBVIOUS
  <1>2. PICK f : f = [k \in 1 .. Len(bytes) |->
                        ByteOf(SymDiff(Bits[bytes[k]],
                           {p - 8 * (k - 1) : p \in places \cap 8 * (k - 1) .. 8 * k - 1}))]
    OBVIOUS
  <1>3. Damaged(bytes, places) = f
    BY <1>1, <1>2 DEF Damaged
  <1>4. \A k \in 1 .. Len(bytes) : f[k] \in Octet
    BY <1>2, ByteIs
  <1>5. f \in Seq(Octet) /\ Len(f) = Len(bytes)
    <2>1. f \in [1 .. Len(bytes) -> Octet]
      BY ONLY <1>2, <1>4
    <2> QED
      BY ONLY <1>1, <2>1
  <1> QED
    BY <1>3, <1>5

-----------------------------------------------------------------------------
(* The frame on its way.                                                   *)

Stages ==
    {"idle", "refused", "sent", "damaged", "received", "forwarded", "withheld", "held"}

\* The frame as it reached the other end.
Arrived == IF flipped = {} THEN SerializeRtu(sent) ELSE Damaged(SerializeRtu(sent), flipped)

\* What deserialize() made of it.
AsRead == DeserializeRtu(Arrived, side, verified)

\* A frame is on the line as it was sent until the line damages it; one that is
\* sent on was read first.
InTheFrame == flipped # {} => flipped \subseteq 0 .. 8 * Len(SerializeRtu(sent)) - 1

OnTheLine ==
    /\ stage \in {"idle", "refused", "sent", "held"} => flipped = {}
    /\ stage = "damaged" => flipped # {}
    /\ stage \in {"sent", "damaged", "received", "held"} => line = Arrived

WasRead ==
    stage \in {"received", "forwarded", "withheld"} =>
        /\ side \in {sent.side, "either"} /\ verified \in BOOLEAN
        /\ stage = "received" => outcome = AsRead
        /\ stage # "received" => AsRead.raises = "nothing"
        /\ stage = "forwarded" => RtuPacks(AsRead.packet) /\ line = SerializeRtu(AsRead.packet)
        /\ stage = "withheld" => ~ RtuPacks(AsRead.packet)

IsHeld ==
    stage = "held" =>
        \E following \in Following : \E n \in 0 .. Len(line) + Len(following) :
            /\ held = SubSeq(line \o following, 1, n)
            /\ read = ReadRtuFrame(held, sent.side)

LineInv ==
    /\ stage \in Stages /\ sent \in Packets
    /\ stage \notin {"idle", "refused"} => RtuPacks(sent)
    /\ InTheFrame /\ OnTheLine /\ WasRead /\ IsHeld

LEMMA LineInitInv == LineInit => LineInv
  BY DEF LineInit, LineInv, InTheFrame, Stages, OnTheLine, WasRead, IsHeld

LEMMA SendInv == LineInv /\ Send => LineInv'
  BY DEF LineInv, InTheFrame, Stages, OnTheLine, WasRead, IsHeld, Send, Arrived

LEMMA DamageInv == \A places : LineInv /\ Damage(places) => LineInv'
  BY DEF LineInv, InTheFrame, Stages, OnTheLine, WasRead, IsHeld, Damage, readVars, Arrived

LEMMA ReceiveInv ==
    ASSUME LineInv, NEW as, NEW verify \in BOOLEAN, Receive(as, verify)
    PROVE  LineInv'
  <1>1. as \in {"request", "response", "either"} /\ as \in {sent.side, "either"}
    <2>1. \E class : Sends(class, sent)
      BY PacketsAre DEF LineInv
    <2> QED
      BY <2>1 DEF Receive, Sends
  <1>2. outcome' = DeserializeRtu(line, as, verify)
    BY <1>1 DEF Receive, ModbusRtuRequest, ModbusRtuResponse, ModbusRtuPacket
  <1>3. /\ stage \in {"sent", "damaged"} /\ stage' = "received"
        /\ side' = as /\ verified' = verify
        /\ sent' = sent /\ line' = line /\ flipped' = flipped
    BY DEF Receive
  <1>4. line = Arrived /\ Arrived' = Arrived
    BY <1>3 DEF LineInv, OnTheLine, Arrived
  <1>5. outcome' = AsRead'
    BY <1>2, <1>3, <1>4 DEF AsRead
  <1>6. OnTheLine'
    BY <1>3, <1>4 DEF OnTheLine
  <1>7. WasRead'
    BY <1>1, <1>3, <1>5 DEF WasRead
  <1>8. IsHeld'
    BY <1>3 DEF IsHeld
  <1>9. InTheFrame'
    BY <1>3 DEF LineInv, InTheFrame
  <1> QED
    BY <1>3, <1>6, <1>7, <1>8, <1>9 DEF LineInv, Stages

LEMMA ForwardInv == LineInv /\ Forward => LineInv'
  <1> SUFFICES ASSUME LineInv, Forward PROVE LineInv'
    OBVIOUS
  <1>1. /\ stage = "received" /\ outcome.raises = "nothing"
        /\ sent' = sent /\ flipped' = flipped /\ side' = side /\ verified' = verified
        /\ \/ RtuPacks(outcome.packet) /\ line' = SerializeRtu(outcome.packet)
              /\ stage' = "forwarded"
           \/ ~ RtuPacks(outcome.packet) /\ stage' = "withheld"
    BY DEF Forward
  <1>2. Arrived' = Arrived /\ AsRead' = AsRead /\ outcome = AsRead
    BY <1>1 DEF LineInv, WasRead, Arrived, AsRead
  <1>3. WasRead'
    BY <1>1, <1>2 DEF LineInv, WasRead
  <1>4. OnTheLine' /\ IsHeld'
    BY <1>1 DEF OnTheLine, IsHeld
  <1>5. InTheFrame'
    BY <1>1 DEF LineInv, InTheFrame
  <1> QED
    BY <1>1, <1>3, <1>4, <1>5 DEF LineInv, Stages

LEMMA ArriveInv ==
    ASSUME LineInv, NEW following \in Following, NEW n \in 0 .. Len(line) + Len(following),
           Arrive(n, following)
    PROVE  LineInv'
  <1>1. /\ stage = "sent" /\ stage' = "held"
        /\ held' = SubSeq(line \o following, 1, n) /\ read' = ReadRtuFrame(held', sent.side)
        /\ sent' = sent /\ line' = line /\ flipped' = flipped
        /\ side' = side /\ verified' = verified /\ outcome' = outcome
    BY DEF Arrive
  <1>2. Arrived' = Arrived
    BY <1>1 DEF Arrived
  <1>3. OnTheLine' /\ WasRead'
    BY <1>1, <1>2 DEF LineInv, OnTheLine, WasRead
  <1>4. IsHeld'
    BY <1>1 DEF IsHeld
  <1>5. InTheFrame'
    BY <1>1 DEF LineInv, InTheFrame
  <1> QED
    BY <1>1, <1>3, <1>4, <1>5 DEF LineInv, Stages

LEMMA LineStutters == LineInv /\ UNCHANGED lineVars => LineInv'
  BY DEF LineInv, InTheFrame, OnTheLine, WasRead, IsHeld, lineVars, Arrived, AsRead

LEMMA LineStep == LineInv /\ [LineNext]_lineVars => LineInv'
  <1> SUFFICES ASSUME LineInv, [LineNext]_lineVars PROVE LineInv'
    OBVIOUS
  <1>1. CASE Send
    BY <1>1, SendInv
  <1>2. CASE \E places \in Flips : Damage(places)
    BY <1>2, DamageInv
  <1>3. CASE \E as \in {"request", "response", "either"}, verify \in BOOLEAN :
                Receive(as, verify)
    BY <1>3, ReceiveInv
  <1>4. CASE Forward
    BY <1>4, ForwardInv
  <1>5. CASE \E following \in Following :
                \E n \in 0 .. Len(line) + Len(following) : Arrive(n, following)
    BY <1>5, ArriveInv
  <1>6. CASE UNCHANGED lineVars
    BY <1>6, LineStutters
  <1> QED
    BY <1>1, <1>2, <1>3, <1>4, <1>5, <1>6 DEF LineNext

\* The inductive invariant: what is on the line, and that whatever was read, sent
\* on or held is what deserialize() and read_rtu_frame() make of it.
THEOREM LineIsAsWritten == LineSpec => []LineInv
  BY LineInitInv, LineStep, PTL DEF LineSpec

\* The class for the side that reads it takes a frame back to the packet that was
\* serialized, the generic packet sends on the bytes it read, and what a gateway
\* sends on carries a checksum of its own, whatever damage it was read with.
THEOREM SentIsRead == LineSpec => []WhatIsReadWasSent
  <1>1. ASSUME LineInv PROVE WhatIsReadWasSent
    <2>1. PICK class : Sends(class, sent)
      BY <1>1, PacketsAre DEF LineInv
    <2>2. sent.side \in {"request", "response"}
      BY <2>1 DEF Sends
    <2>3. PICK frame : frame = SerializeRtu(sent)
      OBVIOUS
    <2>4. ASSUME stage \in {"received", "forwarded", "withheld"}
          PROVE  /\ RtuPacks(sent) /\ verified \in BOOLEAN
                 /\ side \in {"request", "response", "either"} /\ side \in {sent.side, "either"}
                 /\ Arrived \in Seq(Octet)
      <3>1. RtuPacks(sent) /\ verified \in BOOLEAN /\ side \in {sent.side, "either"}
        BY <1>1, <2>4 DEF LineInv, WasRead
      <3>2. PICK bytes : bytes = Serialize(sent.pdu)
        OBVIOUS
      <3>3. InFrame(sent.slave_id, bytes, frame)
        BY <2>1, <2>3, <3>1, <3>2, FrameOfPacket
      <3>4. frame \in Seq(Octet)
        BY <3>3 DEF InFrame
      <3>5. Arrived \in Seq(Octet)
        BY <2>3, <3>4, DamagedIs DEF Arrived
      <3> QED
        BY <2>2, <3>1, <3>5
    <2>5. ASSUME stage = "received", flipped = {}
          PROVE  /\ outcome.raises = "nothing"
                 /\ side = sent.side => /\ outcome.packet.slave_id = sent.slave_id
                                        /\ outcome.packet.pdu = sent.pdu
      <3>1. outcome = DeserializeRtu(frame, side, verified)
        BY <1>1, <2>3, <2>5 DEF LineInv, WasRead, AsRead, Arrived
      <3>2. /\ DeserializeRtu(frame, sent.side, verified) =
                  Returns([slave_id |-> sent.slave_id, pdu |-> sent.pdu,
                           crc |-> LastBytes(frame)])
            /\ DeserializeRtu(frame, "either", verified).raises = "nothing"
        BY <2>1, <2>3, <2>4, <2>5, ReadBack
      <3> QED
        BY <2>4, <2>5, <3>1, <3>2 DEF Returns
    <2>6. ASSUME stage = "forwarded"
          PROVE  /\ ValidateCrc(line)
                 /\ side = "either" => FirstBytes(line) = FirstBytes(Arrived)
      <3>1. /\ AsRead.raises = "nothing" /\ RtuPacks(AsRead.packet)
            /\ line = SerializeRtu(AsRead.packet)
        BY <1>1, <2>6 DEF LineInv, WasRead
      <3>2. PICK returned, packet : returned = AsRead /\ packet = returned.packet
        OBVIOUS
      <3> QED
        BY <2>4, <2>6, <3>1, <3>2, SentOn DEF AsRead
    <2>7. ASSUME stage = "withheld" PROVE flipped # {} /\ side = "response"
      <3>1. AsRead.raises = "nothing" /\ ~ RtuPacks(AsRead.packet)
        BY <1>1, <2>7 DEF LineInv, WasRead
      <3>2. PICK returned, packet : returned = AsRead /\ packet = returned.packet
        OBVIOUS
      <3>3. side = "response"
        BY <2>4, <2>7, <3>1, <3>2, SentOn DEF AsRead
      <3>4. sent.side = "response"
        BY <2>4, <2>7, <3>3
      <3>5. ASSUME flipped = {} PROVE FALSE
        <4>1. returned = DeserializeRtu(frame, sent.side, verified)
          BY <2>3, <3>2, <3>3, <3>4, <3>5 DEF AsRead, Arrived
        <4>2. returned = Returns([slave_id |-> sent.slave_id, pdu |-> sent.pdu,
                                  crc |-> LastBytes(frame)])
          BY <2>1, <2>3, <2>4, <2>7, <4>1, ReadBack
        <4>3. packet.slave_id = sent.slave_id /\ packet.pdu = sent.pdu
          BY <3>2, <4>2 DEF Returns
        <4> QED
          BY <2>4, <2>7, <3>1, <3>2, <4>3 DEF RtuPacks
      <3> QED
        BY <3>3, <3>5
    <2>9. ASSUME stage = "forwarded", flipped = {} PROVE line = SerializeRtu(sent)
      <3>1. /\ AsRead.raises = "nothing" /\ RtuPacks(AsRead.packet)
            /\ line = SerializeRtu(AsRead.packet)
        BY <1>1, <2>9 DEF LineInv, WasRead
      <3>2. PICK returned, packet : returned = AsRead /\ packet = returned.packet
        OBVIOUS
      <3>3. returned = DeserializeRtu(frame, side, verified)
        BY <2>3, <2>9, <3>2 DEF AsRead, Arrived
      <3>4. CASE side = sent.side
        <4>1. returned = Returns([slave_id |-> sent.slave_id, pdu |-> sent.pdu,
                                  crc |-> LastBytes(frame)])
          BY <2>1, <2>3, <2>4, <2>9, <3>3, <3>4, ReadBack
        <4>2. packet.slave_id = sent.slave_id /\ packet.pdu = sent.pdu
          BY <3>2, <4>1 DEF Returns
        <4> QED
          BY <3>1, <3>2, <4>2 DEF SerializeRtu
      <3>5. CASE side = "either"
        <4>1. PICK bytes, body : bytes = Serialize(sent.pdu) /\ body = <<sent.slave_id>> \o bytes
          OBVIOUS
        <4>2. InFrame(sent.slave_id, bytes, frame)
          BY <2>1, <2>3, <2>4, <2>9, <4>1, FrameOfPacket
        <4>3. FirstBytes(frame) = body /\ frame \in Seq(Octet)
          BY <4>1, <4>2 DEF InFrame
        <4>4. SerializeRtu(packet) = body \o PackCrc(CalcCrc16(body))
          BY <2>4, <2>9, <3>1, <3>2, <3>3, <3>5, <4>3, SentOn
        <4>5. frame = body \o PackCrc(CalcCrc16(body))
          BY <2>3, <4>1 DEF SerializeRtu
        <4> QED
          BY <2>3, <3>1, <3>2, <4>4, <4>5
      <3> QED
        BY <2>4, <2>9, <3>4, <3>5
    <2>8. stage = "forwarded" /\ flipped # {} => Arrived = Damaged(SerializeRtu(sent), flipped)
      BY DEF Arrived
    <2> QED
      BY <2>5, <2>6, <2>7, <2>8, <2>9 DEF WhatIsReadWasSent
  <1> QED
    BY <1>1, LineIsAsWritten, PTL


-----------------------------------------------------------------------------
(* Where a frame says it ends.                                             *)

\* The classes by the size expected_size() gives: that of the fields, what a count
\* behind them adds, the one of a sub-function, or none.
FixedKind ==
    {ModbusRequestFC1, ModbusRequestFC2, ModbusRequestFC3, ModbusRequestFC4,
     ModbusRequestFC5, ModbusResponseFC5, ModbusRequestFC6, ModbusResponseFC6,
     ModbusRequestFC7, ModbusResponseFC7, ModbusResponseFC15, ModbusResponseFC16,
     ModbusRequestFC22, ModbusResponseFC22, ModbusError}

CountedKind ==
    {ModbusResponseFC1, ModbusResponseFC2, ModbusResponseFC3, ModbusResponseFC4,
     ModbusRequestFC15, ModbusRequestFC16, ModbusRequestFC23, ModbusResponseFC23}

SubKind ==
    {ModbusRequestFC8, ModbusResponseFC8}

OpenKind ==
    {ModbusRequestFC43, ModbusResponseFC43, ModbusPdu}

LEMMA FixedKindIs ==
    \A class \in FixedKind : class.item = 0 /\ class.counts = FALSE /\ class.rule # "sub"
  BY DEF FixedKind, Fixed, Open, ModbusRequestFC1, ModbusRequestFC2, ModbusRequestFC3,
         ModbusRequestFC4, ModbusRequestFC5, ModbusResponseFC5, ModbusRequestFC6,
         ModbusResponseFC6, ModbusRequestFC7, ModbusResponseFC7, ModbusResponseFC15,
         ModbusResponseFC16, ModbusRequestFC22, ModbusResponseFC22, ModbusError

LEMMA CountedKindIs ==
    \A class \in CountedKind :
        /\ class.item \in {1, 2} /\ class.counts = TRUE /\ class.rule # "sub"
        /\ class.widths \in {<< 1 >>, <<2, 2, 1>>, <<2, 2, 2, 2, 1>>}
  <1>1. \A id, widths, item, limits, rule :
           /\ Counted(id, widths, item, limits, rule).counts = TRUE
           /\ Counted(id, widths, item, limits, rule).rule = rule
    BY DEF Fixed, Counted
  <1>2. \A class \in CountedKind : class.counts = TRUE /\ class.rule # "sub"
    BY <1>1
    DEF CountedKind, ModbusResponseFC1, ModbusResponseFC2, ModbusResponseFC3,
        ModbusResponseFC4, ModbusRequestFC15, ModbusRequestFC16, ModbusRequestFC23,
        ModbusResponseFC23
  <1>3. \A class \in CountedKind : class.item \in {1, 2}
    BY Places DEF CountedKind
  <1>4. \A class \in CountedKind :
           class.widths \in {<< 1 >>, <<2, 2, 1>>, <<2, 2, 2, 2, 1>>}
    BY Places DEF CountedKind
  <1> QED
    BY <1>2, <1>3, <1>4

LEMMA SubKindIs ==
    \A class \in SubKind :
        /\ class.item = 2 /\ class.counts = FALSE /\ class.rule = "sub"
        /\ class.widths = << 2 >>
  BY DEF SubKind, Fixed, Open, ModbusRequestFC8, ModbusResponseFC8

LEMMA OpenKindIs ==
    \A class \in OpenKind : class.item = 1 /\ class.counts = FALSE /\ class.rule # "sub"
  BY DEF OpenKind, Fixed, Open, ModbusRequestFC43, ModbusResponseFC43, ModbusPdu

LEMMA KindsAre == Known = FixedKind \cup CountedKind \cup SubKind \cup OpenKind
  BY RegistryIs DEF Known, Requests, Responses, FixedKind, CountedKind, SubKind, OpenKind

LEMMA WordAt ==
    ASSUME NEW b \in Seq(Octet), Len(b) >= 3
    PROVE  Number(SubSeq(b, 2, 3)) = b[2] * 256 + b[3]
  <1>1. PICK s : s = SubSeq(b, 2, 3)
    OBVIOUS
  <1>2. Len(b) \in Int
    OBVIOUS
  <1>3. Len(s) = 2 /\ s[1] = b[2] /\ s[2] = b[3]
    BY ONLY <1>1, <1>2, b \in Seq(Octet), Len(b) >= 3
  <1> QED
    BY <1>1, <1>3 DEF Number

\* Where the fields that say how long a PDU is are in its bytes.
LEMMA StatingFields ==
    ASSUME NEW class \in Known, NEW bytes \in Seq(Octet), HeadSize(class) <= Len(bytes),
           NEW pdu, Deserialize(class, bytes) = pdu,
           NEW h, h = HeadSize(class), NEW last, last = Len(class.widths)
    PROVE  /\ class \in CountedKind =>
                 /\ h \in Nat /\ h >= 2 /\ pdu.fields[last] = bytes[h] /\ bytes[h] \in Octet
           /\ class \in SubKind =>
                 h = 3 /\ pdu.fields[1] = bytes[2] * 256 + bytes[3]
  <1>1. PICK w, ends : w = class.widths /\ ends = FieldEnds(w)
    OBVIOUS
  <1>2. w \in Seq(Width) /\ Len(w) <= 5 /\ last = Len(w) /\ h = ends[last]
    <2>1. Layout(class)
      BY Layouts DEF Known
    <2> QED
      BY <1>1, <2>1 DEF Layout, HeadSize
  <1>3. ends[0] = 1 /\ \A k \in 1 .. Len(w) : ends[k] = ends[k - 1] + w[k]
    BY ONLY <1>1, <1>2, EndsAre
  <1>4. \A k \in 1 .. Len(w) :
           pdu.fields[k] = Number(SubSeq(bytes, ends[k - 1] + 1, ends[k]))
    <2>1. DOMAIN class.widths = 1 .. Len(w)
      BY <1>1, <1>2
    <2>2. pdu.fields = [k \in DOMAIN class.widths |->
                           Number(SubSeq(bytes, FieldEnds(class.widths)[k - 1] + 1,
                                         FieldEnds(class.widths)[k]))]
      BY DEF Deserialize
    <2> QED
      BY ONLY <1>1, <2>1, <2>2
  <1>5. ASSUME class \in CountedKind
        PROVE  h \in Nat /\ h >= 2 /\ pdu.fields[last] = bytes[h] /\ bytes[h] \in Octet
    <2>1. w \in {<< 1 >>, <<2, 2, 1>>, <<2, 2, 2, 2, 1>>}
      BY <1>1, <1>5, CountedKindIs
    <2>2. \/ last = 1 /\ Len(w) = 1 /\ w[1] = 1 /\ h = 2
          \/ last = 3 /\ Len(w) = 3 /\ w[3] = 1 /\ h = 6
          \/ last = 5 /\ Len(w) = 5 /\ w[5] = 1 /\ h = 10
      <3>1. FieldEnds(<< 1 >>)[1] = 2 /\ FieldEnds(<<2, 2, 1>>)[3] = 6
            /\ FieldEnds(<<2, 2, 2, 2, 1>>)[5] = 10
        BY Heads
      <3>2. CASE w = << 1 >>
        <4>1. Len(w) = 1 /\ w[1] = 1
          BY ONLY <3>2
        <4> QED
          BY ONLY <1>1, <1>2, <3>1, <3>2, <4>1
      <3>3. CASE w = <<2, 2, 1>>
        <4>1. Len(w) = 3 /\ w[3] = 1
          BY ONLY <3>3
        <4> QED
          BY ONLY <1>1, <1>2, <3>1, <3>3, <4>1
      <3>4. CASE w = <<2, 2, 2, 2, 1>>
        <4>1. Len(w) = 5 /\ w[5] = 1
          BY ONLY <3>4
        <4> QED
          BY ONLY <1>1, <1>2, <3>1, <3>4, <4>1
      <3> QED
        BY ONLY <2>1, <3>2, <3>3, <3>4
    <2>3. h \in Nat /\ h >= 2 /\ last \in 1 .. Len(w) /\ w[last] = 1
      BY ONLY <2>2
    <2>4. PICK a : a = ends[last - 1]
      OBVIOUS
    <2>5. h = a + 1
      BY ONLY <1>2, <1>3, <2>3, <2>4
    <2>6. a \in Nat
      <3>1. last - 1 \in 0 .. Len(w)
        BY ONLY <2>2
      <3> QED
        BY ONLY <1>1, <1>2, <2>4, <3>1, EndsAscend
    <2>7. Number(SubSeq(bytes, a + 1, h)) = bytes[h]
      <3>1. 1 \in Width /\ h <= Len(bytes)
        BY DEF Width
      <3> QED
        BY ONLY <2>5, <2>6, <3>1, PartFits, bytes \in Seq(Octet)
    <2>8. pdu.fields[last] = Number(SubSeq(bytes, a + 1, h))
      BY ONLY <1>2, <1>4, <2>3, <2>4
    <2>9. bytes[h] \in Octet
      BY ONLY <2>3, bytes \in Seq(Octet), HeadSize(class) <= Len(bytes), h = HeadSize(class)
    <2> QED
      BY ONLY <2>3, <2>7, <2>8, <2>9
  <1>6. ASSUME class \in SubKind
        PROVE  h = 3 /\ pdu.fields[1] = bytes[2] * 256 + bytes[3]
    <2>1. w = << 2 >>
      BY <1>1, <1>6, SubKindIs
    <2>2. Len(w) = 1 /\ w[1] = 2
      BY ONLY <2>1
    <2>3. ends[0] = 1 /\ ends[1] = 3 /\ h = 3
      <3>1. ends[1] = ends[1 - 1] + w[1]
        BY ONLY <1>3, <2>2
      <3>2. 1 - 1 = 0
        OBVIOUS
      <3> QED
        BY ONLY <1>2, <1>3, <2>2, <3>1, <3>2
    <2>4. pdu.fields[1] = Number(SubSeq(bytes, ends[1 - 1] + 1, ends[1]))
      BY ONLY <1>4, <2>2
    <2>5. ends[1 - 1] + 1 = 2
      BY ONLY <2>3
    <2>6. Number(SubSeq(bytes, 2, 3)) = bytes[2] * 256 + bytes[3]
      <3>1. Len(bytes) >= 3
        BY <2>3
      <3> QED
        BY <3>1, WordAt
    <2> QED
      BY ONLY <2>3, <2>4, <2>5, <2>6
  <1> QED
    BY <1>5, <1>6

\* A layout that states no size: without a count, or a diagnostic sub-function
\* that is not one of the sized ones.
Unstated(class, pdu) ==
    \/ class \in OpenKind
    \/ class \in SubKind /\ pdu.fields[1] \notin SubFunctions \ {EchoSubFunction}

\* What expected_size() makes of the first bytes of a PDU: the size is that of
\* the fields, five for a sized sub-function, or what the count adds, once it
\* is there.
SizeIs(class, pdu, prefix, size) ==
    /\ Unstated(class, pdu) => size = Unsizable
    /\ class \in FixedKind => size = HeadSize(class)
    /\ class \in SubKind /\ ~ Unstated(class, pdu) => size = 5
    /\ class \in CountedKind =>
          \/ size = NeedsMore /\ Len(prefix) < HeadSize(class)
          \/ /\ Len(prefix) >= HeadSize(class)
             /\ size = HeadSize(class) + pdu.fields[Len(class.widths)]
             /\ pdu.fields[Len(class.widths)] \in Octet
             /\ prefix[HeadSize(class)] = pdu.fields[Len(class.widths)]

LEMMA SizeOfPrefix ==
    ASSUME NEW class \in Known, NEW bytes \in Seq(Octet), HeadSize(class) <= Len(bytes),
           NEW pdu, Deserialize(class, bytes) = pdu,
           NEW prefix \in Seq(Octet), Len(prefix) >= 3,
           \A i \in 1 .. Len(bytes) : i <= Len(prefix) => prefix[i] = bytes[i],
           NEW size, size = ExpectedSize(class, prefix)
    PROVE  SizeIs(class, pdu, prefix, size)
  <1>1. PICK h, last : h = HeadSize(class) /\ last = Len(class.widths)
    OBVIOUS
  <1>2. /\ class \in CountedKind =>
              /\ h \in Nat /\ h >= 2 /\ pdu.fields[last] = bytes[h] /\ bytes[h] \in Octet
        /\ class \in SubKind => h = 3 /\ pdu.fields[1] = bytes[2] * 256 + bytes[3]
    BY <1>1, StatingFields
  <1>3. Len(bytes) \in Int /\ Len(prefix) \in Int /\ h <= Len(bytes)
    BY <1>1
  <1>4. CASE class \in OpenKind
    <2>1. class.item = 1 /\ class.counts = FALSE /\ class.rule # "sub"
      BY <1>4, OpenKindIs
    <2>2. size = Unsizable
      BY <2>1 DEF ExpectedSize
    <2>3. class \notin FixedKind /\ class \notin SubKind /\ class \notin CountedKind
      BY <2>1, FixedKindIs, SubKindIs, CountedKindIs
    <2> QED
      BY <2>2, <2>3 DEF SizeIs
  <1>5. CASE class \in FixedKind
    <2>1. class.item = 0 /\ class.counts = FALSE /\ class.rule # "sub"
      BY <1>5, FixedKindIs
    <2>2. size = HeadSize(class)
      BY <2>1 DEF ExpectedSize
    <2>3. class \notin OpenKind /\ class \notin SubKind /\ class \notin CountedKind
      BY <2>1, OpenKindIs, SubKindIs, CountedKindIs
    <2> QED
      BY <2>2, <2>3 DEF SizeIs, Unstated
  <1>6. CASE class \in SubKind
    <2>1. class.item = 2 /\ class.counts = FALSE /\ class.rule = "sub"
      BY <1>6, SubKindIs
    <2>2. Number(SubSeq(prefix, 2, 3)) = pdu.fields[1]
      <3>1. Number(SubSeq(prefix, 2, 3)) = prefix[2] * 256 + prefix[3]
        BY WordAt
      <3>2. prefix[2] = bytes[2] /\ prefix[3] = bytes[3]
        BY <1>2, <1>3, <1>6
      <3> QED
        BY <1>2, <1>6, <3>1, <3>2
    <2>3. size = DiagnosticSize(prefix)
      BY <2>1 DEF ExpectedSize
    <2>4. ~ (Len(prefix) < 3)
      BY <1>3
    <2>5. size = IF pdu.fields[1] \in SubFunctions \ {EchoSubFunction} THEN 5 ELSE Unsizable
      BY <2>2, <2>3, <2>4 DEF DiagnosticSize
    <2>6. class \notin OpenKind /\ class \notin FixedKind /\ class \notin CountedKind
      BY <2>1, OpenKindIs, FixedKindIs, CountedKindIs
    <2> QED
      BY <1>6, <2>5, <2>6 DEF SizeIs, Unstated
  <1>7. CASE class \in CountedKind
    <2>1. class.item \in {1, 2} /\ class.counts = TRUE /\ class.rule # "sub"
      BY <1>7, CountedKindIs
    <2>2. size = IF Len(prefix) < h THEN NeedsMore ELSE h + prefix[h]
      BY <1>1, <2>1 DEF ExpectedSize
    <2>3. ASSUME Len(prefix) >= h PROVE prefix[h] = pdu.fields[last]
      BY <1>2, <1>3, <1>7, <2>3
    <2>4. class \notin OpenKind /\ class \notin FixedKind /\ class \notin SubKind
      BY <2>1, OpenKindIs, FixedKindIs, SubKindIs
    <2>5. \/ size = NeedsMore /\ Len(prefix) < h
          \/ /\ Len(prefix) >= h /\ size = h + pdu.fields[last] /\ pdu.fields[last] \in Octet
             /\ prefix[h] = pdu.fields[last]
      <3>1. h \in Nat /\ pdu.fields[last] \in Octet
        BY <1>2, <1>7
      <3> QED
        BY ONLY <1>3, <2>2, <2>3, <3>1
    <2> QED
      BY <1>1, <2>4, <2>5 DEF SizeIs, Unstated
  <1> QED
    BY <1>4, <1>5, <1>6, <1>7, KindsAre

-----------------------------------------------------------------------------
(* A reader that holds the first bytes.                                    *)

\* The frame a reader holds bytes of, and what it says of them.
Holding(class, bytes) ==
    /\ Sends(class, sent) /\ RtuPacks(sent)
    /\ InFrame(sent.slave_id, bytes, line) /\ bytes[1] = WireCode(sent.pdu)
    /\ Len(bytes) = HeadSize(class) + class.item * Len(sent.pdu.tail)
    /\ HeadSize(class) \in Nat /\ HeadSize(class) <= Len(bytes)
    /\ Deserialize(class, bytes) = sent.pdu
    /\ held \in Seq(Octet) /\ Len(held) \in Nat
    /\ \A i \in 1 .. Len(line) : i <= Len(held) => held[i] = line[i]
    /\ Len(line) <= Len(held) => SubSeq(held, 1, Len(line)) = line
    /\ read = ReadRtuFrame(held, sent.side)

LEMMA FirstOf ==
    ASSUME NEW frame \in Seq(Octet), NEW behind \in Seq(Octet),
           NEW n \in 0 .. Len(frame) + Len(behind),
           NEW stream, stream = SubSeq(frame \o behind, 1, n)
    PROVE  /\ stream \in Seq(Octet) /\ Len(stream) = n /\ n \in Nat
           /\ \A i \in 1 .. Len(frame) : i <= n => stream[i] = frame[i]
           /\ Len(frame) <= n => SubSeq(stream, 1, Len(frame)) = frame
  <1>1. PICK all : all = frame \o behind
    OBVIOUS
  <1>2. /\ all \in Seq(Octet) /\ Len(all) = Len(frame) + Len(behind)
        /\ Len(frame) \in Nat /\ Len(behind) \in Nat
        /\ \A i \in 1 .. Len(frame) : all[i] = frame[i]
    BY ONLY <1>1, Beside, frame \in Seq(Octet), behind \in Seq(Octet)
  <1>3. n \in Nat /\ n <= Len(all) /\ stream = SubSeq(all, 1, n)
    BY <1>1, <1>2
  <1>4. /\ stream \in Seq(Octet) /\ Len(stream) = n
        /\ \A i \in 1 .. n : stream[i] = all[i]
    BY ONLY <1>2, <1>3
  <1>5. \A i \in 1 .. Len(frame) : i <= n => stream[i] = frame[i]
    BY ONLY <1>2, <1>3, <1>4
  <1>6. ASSUME Len(frame) <= n PROVE SubSeq(stream, 1, Len(frame)) = frame
    <2>1. PICK s, m : s = SubSeq(stream, 1, m) /\ m = Len(frame)
      OBVIOUS
    <2>2. m \in Nat /\ m <= Len(stream)
      BY ONLY <1>2, <1>4, <1>6, <2>1
    <2>3. s \in Seq(Octet) /\ Len(s) = m /\ \A i \in 1 .. m : s[i] = stream[i]
      BY ONLY <1>4, <2>1, <2>2
    <2>4. \A i \in 1 .. m : s[i] = frame[i]
      BY ONLY <1>3, <1>4, <1>5, <2>1, <2>2, <2>3
    <2>5. s = frame
      BY ONLY <2>1, <2>2, <2>3, <2>4, frame \in Seq(Octet)
    <2> QED
      BY ONLY <2>1, <2>5
  <1> QED
    BY ONLY <1>3, <1>4, <1>5, <1>6

LEMMA HoldingIs ==
    ASSUME LineInv, stage = "held"
    PROVE  \E class, bytes : Holding(class, bytes)
  <1>1. PICK class : Sends(class, sent)
    BY PacketsAre DEF LineInv
  <1>2. RtuPacks(sent) /\ line = SerializeRtu(sent)
    BY DEF LineInv, OnTheLine, Arrived
  <1>3. PICK bytes : bytes = Serialize(sent.pdu)
    OBVIOUS
  <1>4. /\ InFrame(sent.slave_id, bytes, line)
        /\ Len(bytes) = HeadSize(class) + class.item * Len(sent.pdu.tail)
        /\ bytes[1] = WireCode(sent.pdu) /\ Deserialize(class, bytes) = sent.pdu
    BY <1>1, <1>2, <1>3, FrameOfPacket
  <1>10. PICK following \in Following : \E n \in 0 .. Len(line) + Len(following) :
            held = SubSeq(line \o following, 1, n) /\ read = ReadRtuFrame(held, sent.side)
    BY DEF LineInv, IsHeld
  <1>5. PICK n \in 0 .. Len(line) + Len(following) :
           held = SubSeq(line \o following, 1, n) /\ read = ReadRtuFrame(held, sent.side)
    BY <1>10
  <1>6. line \in Seq(Octet) /\ following \in Seq(Octet)
    BY <1>4, LineAssumption DEF InFrame
  <1>7. /\ held \in Seq(Octet) /\ Len(held) = n /\ n \in Nat
        /\ \A i \in 1 .. Len(line) : i <= n => held[i] = line[i]
        /\ Len(line) <= n => SubSeq(held, 1, Len(line)) = line
    BY ONLY <1>5, <1>6, FirstOf
  <1>8. HeadSize(class) \in Nat /\ HeadSize(class) <= Len(bytes)
    <2>1. class \in Known /\ sent.pdu.id = class.id /\ Shaped(sent.pdu)
      BY <1>1 DEF Sends
    <2>2. Layout(class) /\ HeadSize(class) \in Nat
      BY <2>1, KnownIs
    <2>3. class.item \in {0, 1, 2} /\ Len(sent.pdu.tail) \in Nat
      BY <2>1, <2>2 DEF Layout, Shaped, Pdus
    <2>4. PICK item, tail, h : item = class.item /\ tail = Len(sent.pdu.tail) /\ h = HeadSize(class)
      OBVIOUS
    <2>5. h <= h + item * tail
      BY ONLY <2>2, <2>3, <2>4
    <2> QED
      BY ONLY <1>4, <2>2, <2>4, <2>5
  <1>9. Holding(class, bytes)
    BY <1>1, <1>2, <1>4, <1>5, <1>7, <1>8 DEF Holding
  <1> QED
    BY <1>9

\* Any bytes that begin as the frame does, as soon as the function code is there,
\* state the size of the PDU that was sent.
LEMMA SizeHeld ==
    ASSUME NEW class, NEW bytes, Holding(class, bytes),
           NEW stream \in Seq(Octet), Len(stream) >= 4,
           \A i \in 1 .. Len(line) : i <= Len(stream) => stream[i] = line[i],
           NEW rest, rest = Tail(stream)
    PROVE  /\ PduClass(sent.side, rest) = class
           /\ rest \in Seq(Octet) /\ Len(rest) = Len(stream) - 1
           /\ \A i \in 1 .. Len(rest) : rest[i] = stream[i + 1]
           /\ SizeIs(class, sent.pdu, rest, ExpectedSize(class, rest))
  <1>1. Len(stream) \in Nat /\ stream # <<>>
    <2>1. Len(stream) \in Nat
      OBVIOUS
    <2> QED
      BY <2>1, EmptySeq
  <1>2. /\ rest \in Seq(Octet) /\ Len(rest) = Len(stream) - 1 /\ Len(rest) >= 3
        /\ \A i \in 1 .. Len(rest) : rest[i] = stream[i + 1]
    BY ONLY <1>1, stream \in Seq(Octet), Len(stream) >= 4, rest = Tail(stream)
  <1>3. /\ Len(bytes) \in Nat /\ Len(bytes) >= 1 /\ Len(line) = 3 + Len(bytes)
        /\ bytes \in Seq(Octet)
        /\ \A i \in 1 .. Len(bytes) : line[1 + i] = bytes[i]
    BY DEF Holding, InFrame
  <1>4. \A i \in 1 .. Len(bytes) : i <= Len(rest) => rest[i] = bytes[i]
    <2> SUFFICES ASSUME NEW i \in 1 .. Len(bytes), i <= Len(rest) PROVE rest[i] = bytes[i]
      OBVIOUS
    <2>1. i \in 1 .. Len(rest) /\ i + 1 \in 1 .. Len(line) /\ i + 1 <= Len(stream) /\ i + 1 = 1 + i
      BY ONLY <1>1, <1>2, <1>3, i \in 1 .. Len(bytes), i <= Len(rest)
    <2> QED
      BY <1>2, <1>3, <2>1
  <1>5. PduClass(sent.side, rest) = class
    <2>1. rest[1] = WireCode(sent.pdu)
      <3>1. 1 \in 1 .. Len(bytes) /\ 1 <= Len(rest)
        BY ONLY <1>2, <1>3, <1>1
      <3> QED
        BY <1>4, <3>1 DEF Holding
    <2>2. PduClass(sent.side, rest) = PduClass(sent.side, <<rest[1]>>)
      BY ClassByCode
    <2> QED
      BY <2>1, <2>2 DEF Holding, Sends
  <1>6. PICK size, pdu : size = ExpectedSize(class, rest) /\ pdu = sent.pdu
    OBVIOUS
  <1>7. class \in Known /\ HeadSize(class) <= Len(bytes) /\ Deserialize(class, bytes) = pdu
    BY <1>6 DEF Holding, Sends
  <1>8. SizeIs(class, pdu, rest, size)
    BY ONLY <1>2, <1>3, <1>4, <1>6, <1>7, SizeOfPrefix
  <1> QED
    BY <1>2, <1>5, <1>6, <1>8

-----------------------------------------------------------------------------
(* The frame is found.                                                     *)

\* Where the header says how long the frame is, expected_size() does: all of the
\* PDU, or that too little of it is there.
LEMMA StatedSize ==
    ASSUME NEW class, NEW bytes, Holding(class, bytes), LengthStated(sent.pdu),
           ~ Unstated(class, sent.pdu),
           NEW prefix, Len(prefix) \in Nat, NEW size, SizeIs(class, sent.pdu, prefix, size)
    PROVE  size = Len(bytes) \/ (size = NeedsMore /\ Len(prefix) < Len(bytes))
  <1>1. PICK pdu, h, item, tail, last :
           /\ pdu = sent.pdu /\ h = HeadSize(class) /\ item = class.item
           /\ tail = Len(pdu.tail) /\ last = Len(class.widths)
    OBVIOUS
  <1>2. /\ class \in Known /\ ClassOf(pdu) = class /\ Shaped(pdu)
        /\ Len(bytes) = h + item * tail /\ h \in Nat /\ h <= Len(bytes)
        /\ bytes \in Seq(Octet) /\ Deserialize(class, bytes) = pdu
    BY <1>1 DEF Holding, Sends, InFrame
  <1>3. tail \in Nat
    BY <1>1, <1>2 DEF Shaped, Pdus
  <1>4. CASE class \in FixedKind
    <2>1. size = h /\ item = 0
      BY <1>1, <1>4, FixedKindIs DEF SizeIs
    <2> QED
      BY ONLY <1>2, <1>3, <2>1
  <1>5. CASE class \in SubKind
    <2>1. size = 5 /\ item = 2 /\ class.rule = "sub"
      BY <1>1, <1>5, SubKindIs DEF SizeIs
    <2>2. h = 3
      BY <1>1, <1>2, <1>5, StatingFields
    <2>3. tail = 1
      BY <1>1, <1>2, <1>5, <2>1 DEF LengthStated, Unstated
    <2> QED
      BY ONLY <1>2, <2>1, <2>2, <2>3
  <1>6. CASE class \in CountedKind
    <2>1. class.counts = TRUE
      BY <1>6, CountedKindIs
    <2>2. pdu.fields[last] = item * tail
      BY <1>1, <1>2, <2>1 DEF LengthStated, TailMatches
    <2>3. \/ size = NeedsMore /\ Len(prefix) < h
          \/ size = h + pdu.fields[last]
      BY <1>1, <1>6 DEF SizeIs
    <2>4. PICK n : n = item * tail
      OBVIOUS
    <2>5. item \in {1, 2}
      BY <1>1, <1>6, CountedKindIs
    <2>6. n \in Nat
      BY ONLY <1>3, <2>4, <2>5
    <2> QED
      BY ONLY <1>2, <2>2, <2>3, <2>4, <2>6, Len(prefix) \in Nat
  <1>7. class \notin OpenKind
    BY DEF Unstated
  <1> QED
    BY <1>2, <1>4, <1>5, <1>6, <1>7, KindsAre

\* What read_rtu_frame says once the function code is there: by the size the
\* bytes state, and by the checksum when they are as many.
SaidOf(stream, m, size, said) ==
    LET end == 1 + size + 2
        accepted == ModbusRtuPacket(SubSeq(stream, 1, end), TRUE).raises = "nothing"
    IN /\ size = Unsizable => said = NoFrame(FALSE)
       /\ size = NeedsMore => said = Wants(1)
       /\ size \in Nat /\ m < end => said = Wants(end - m)
       /\ size \in Nat /\ ~ (m < end) =>
             said = IF accepted THEN Found(end) ELSE NoFrame(TRUE)

LEMMA Said ==
    ASSUME NEW to, NEW class, NEW stream, NEW m \in Nat, m = Len(stream), m >= 4,
           NEW rest, rest = Tail(stream), PduClass(to, rest) = class,
           NEW size, size = ExpectedSize(class, rest)
    PROVE  SaidOf(stream, m, size, ReadRtuFrame(stream, to))
  <1>1. PICK end, said : end = 1 + size + 2 /\ said = ReadRtuFrame(stream, to)
    OBVIOUS
  <1>2. said = CASE size = Unsizable -> NoFrame(FALSE)
                 [] size = NeedsMore -> Wants(1)
                 [] size >= 0 /\ m < end -> Wants(end - m)
                 [] OTHER -> IF ModbusRtuPacket(SubSeq(stream, 1, end), TRUE).raises = "nothing"
                             THEN Found(end) ELSE NoFrame(TRUE)
    <2>1. ~ (Len(stream) < 2 + 2)
      OBVIOUS
    <2> QED
      BY <1>1, <2>1 DEF ReadRtuFrame, MinRtuFrame, CrcSize
  <1>3. ASSUME size = Unsizable PROVE said = NoFrame(FALSE)
    <2>1. size # NeedsMore /\ ~ (size >= 0)
      BY ONLY <1>3 DEF NeedsMore, Unsizable
    <2> QED
      BY ONLY <1>2, <1>3, <2>1
  <1>4. ASSUME size = NeedsMore PROVE said = Wants(1)
    <2>1. size # Unsizable /\ ~ (size >= 0)
      BY ONLY <1>4 DEF NeedsMore, Unsizable
    <2> QED
      BY ONLY <1>2, <1>4, <2>1
  <1>5. ASSUME size \in Nat
        PROVE  /\ m < end => said = Wants(end - m)
               /\ ~ (m < end) =>
                     said = IF ModbusRtuPacket(SubSeq(stream, 1, end), TRUE).raises = "nothing"
                            THEN Found(end) ELSE NoFrame(TRUE)
    <2>1. size # Unsizable /\ size # NeedsMore /\ size >= 0
      BY ONLY <1>5 DEF NeedsMore, Unsizable
    <2> QED
      BY ONLY <1>2, <2>1
  <1> QED
    BY <1>1, <1>3, <1>4, <1>5 DEF SaidOf

\* A reader that does what read_rtu_frame tells it to has the whole frame and
\* none of what follows it.
THEOREM FrameIsFound == LineSpec => []TheFrameIsFound
  <1>1. ASSUME LineInv PROVE TheFrameIsFound
    <2> SUFFICES ASSUME stage = "held", LengthStated(sent.pdu)
                 PROVE  IF ExpectedSize(ClassOf(sent.pdu), Tail(line)) = Unsizable
                        THEN \/ read = NoFrame(FALSE)
                             \/ read.incomplete /\ Len(held) < Len(line)
                        ELSE IF Len(held) < Len(line)
                             THEN /\ read.incomplete
                                  /\ read.wanted \in 1 .. Len(line) - Len(held)
                             ELSE read = Found(Len(line))
      BY DEF TheFrameIsFound
    <2>1. PICK class, bytes : Holding(class, bytes)
      BY <1>1, HoldingIs
    <2>2. PICK L, m, b : L = Len(line) /\ m = Len(held) /\ b = Len(bytes)
      OBVIOUS
    <2>3. /\ line \in Seq(Octet) /\ b \in Nat /\ b >= 1 /\ L = 3 + b
          /\ held \in Seq(Octet) /\ m \in Nat
          /\ \A i \in 1 .. Len(line) : i <= Len(held) => held[i] = line[i]
          /\ L <= m => SubSeq(held, 1, L) = line
          /\ read = ReadRtuFrame(held, sent.side) /\ ClassOf(sent.pdu) = class
      BY <2>1, <2>2 DEF Holding, Sends, InFrame
    <2>4. PICK whole, full : whole = Tail(line) /\ full = ExpectedSize(class, whole)
      OBVIOUS
    <2>5. SizeIs(class, sent.pdu, whole, full) /\ Len(whole) = L - 1
      <3>1. Len(line) >= 4
        BY ONLY <2>2, <2>3
      <3> QED
        BY <2>1, <2>2, <2>3, <2>4, <3>1, SizeHeld
    <2>6. full = Unsizable <=> Unstated(class, sent.pdu)
      <3>1. Unstated(class, sent.pdu) => full = Unsizable
        BY <2>5 DEF SizeIs
      <3>2. ASSUME ~ Unstated(class, sent.pdu) PROVE full # Unsizable
        <4>1. full = b \/ full = NeedsMore
          BY <2>1, <2>2, <2>3, <2>5, <3>2, StatedSize
        <4> QED
          BY ONLY <2>3, <4>1 DEF NeedsMore, Unsizable
      <3> QED
        BY <3>1, <3>2
    <2>7. CASE m < 4
      <3>1. read = Wants(4 - m)
        BY <2>2, <2>3, <2>7 DEF ReadRtuFrame, MinRtuFrame, CrcSize
      <3>2. read.incomplete /\ read.wanted = 4 - m
        BY <3>1 DEF Wants
      <3>3. m < L /\ 4 - m \in 1 .. L - m
        BY ONLY <2>3, <2>7
      <3> QED
        BY <2>2, <3>2, <3>3
    <2>8. CASE ~ (m < 4)
      <3>1. PICK rest, size, end : /\ rest = Tail(held) /\ size = ExpectedSize(class, rest)
                                   /\ end = 1 + size + 2
        OBVIOUS
      <3>2. /\ PduClass(sent.side, rest) = class /\ Len(rest) = m - 1
            /\ SizeIs(class, sent.pdu, rest, size)
        <4>1. Len(held) >= 4
          BY ONLY <2>2, <2>3, <2>8
        <4> QED
          BY <2>1, <2>2, <2>3, <3>1, <4>1, SizeHeld
      <3>3. SaidOf(held, m, size, read)
        <4>1. m >= 4
          BY ONLY <2>3, <2>8
        <4> QED
          BY <2>2, <2>3, <3>1, <3>2, <4>1, Said
      <3>4. CASE Unstated(class, sent.pdu)
        <4>1. size = Unsizable
          BY <3>2, <3>4 DEF SizeIs
        <4>2. read = NoFrame(FALSE)
          BY <3>3, <4>1 DEF SaidOf
        <4> QED
          BY <2>3, <2>4, <2>6, <3>4, <4>2
      <3>5. CASE ~ Unstated(class, sent.pdu)
        <4>1. size = b \/ (size = NeedsMore /\ m - 1 < b)
          <5>1. Len(rest) \in Nat
            BY ONLY <2>3, <2>8, <3>2
          <5> QED
            BY <2>1, <2>2, <3>2, <3>5, <5>1, StatedSize
        <4>2. IF m < L THEN read.incomplete /\ read.wanted \in 1 .. L - m
              ELSE read = Found(L)
          <5>1. CASE size = NeedsMore /\ m - 1 < b
            <6>2. read = Wants(1)
              BY <3>3, <5>1 DEF SaidOf
            <6>3. read.incomplete /\ read.wanted = 1
              BY <6>2 DEF Wants
            <6>4. m < L /\ 1 \in 1 .. L - m
              BY ONLY <2>3, <5>1
            <6> QED
              BY ONLY <6>3, <6>4
          <5>2. CASE size = b
            <6>1. size \in Nat
              BY ONLY <2>3, <5>2
            <6>2. end = L
              BY ONLY <2>3, <3>1, <5>2
            <6>3. CASE m < L
              <7>1. read = Wants(L - m)
                BY <3>1, <3>3, <6>1, <6>2, <6>3 DEF SaidOf
              <7>2. read.incomplete /\ read.wanted = L - m
                BY <7>1 DEF Wants
              <7>3. L - m \in 1 .. L - m
                BY ONLY <2>3, <6>3
              <7> QED
                BY ONLY <6>3, <7>2, <7>3
            <6>4. CASE ~ (m < L)
              <7>1. SubSeq(held, 1, end) = line
                BY <2>2, <2>3, <6>2, <6>4
              <7>2. ModbusRtuPacket(line, TRUE).raises = "nothing"
                <8>1. RtuPacks(sent) /\ Sends(class, sent) /\ line = SerializeRtu(sent)
                  BY <1>1, <2>1 DEF Holding, LineInv, OnTheLine, Arrived
                <8> QED
                  BY <8>1, ReadBack DEF ModbusRtuPacket
              <7>4. read = Found(L)
                BY <3>1, <3>3, <6>1, <6>2, <6>4, <7>1, <7>2 DEF SaidOf
              <7> QED
                BY <6>4, <7>4
            <6> QED
              BY ONLY <6>3, <6>4
          <5> QED
            BY ONLY <4>1, <5>1, <5>2
        <4> QED
          BY <2>2, <2>3, <2>4, <2>6, <3>5, <4>2
      <3> QED
        BY <3>4, <3>5
    <2> QED
      BY <2>7, <2>8
  <1> QED
    BY <1>1, LineIsAsWritten, PTL

-----------------------------------------------------------------------------
(* The reader RtuSplitter and RtuStream are built on.                      *)

IsMarked(bytes, m, marked) ==
    /\ marked \in Seq([value : Octet, frame : {0, 1}, pos : Nat, of : Nat])
    /\ Len(marked) = m
    /\ \A k \in 1 .. m : /\ marked[k].value = bytes[k] /\ marked[k].pos = k
                         /\ marked[k].of = Len(line)
                         /\ k <= Len(line) => marked[k].frame = 1

LEMMA MarkedIs ==
    ASSUME NEW bytes \in Seq(Octet), Len(line) \in Nat,
           NEW m \in Nat, m = Len(bytes), NEW marked, marked = Marked(bytes)
    PROVE  IsMarked(bytes, m, marked)
  <1>1. marked = [k \in 1 .. m |->
                     [value |-> bytes[k], frame |-> IF k <= Len(line) THEN 1 ELSE 0, pos |-> k,
                      of |-> Len(line)]]
    BY DEF Marked
  <1>2. \A k \in 1 .. m : bytes[k] \in Octet
    OBVIOUS
  <1>3. marked \in [1 .. m -> [value : Octet, frame : {0, 1}, pos : Nat, of : Nat]]
    BY ONLY <1>1, <1>2, m \in Nat, Len(line) \in Nat
  <1>4. marked \in Seq([value : Octet, frame : {0, 1}, pos : Nat, of : Nat]) /\ Len(marked) = m
    <2>1. PICK S : S = [value : Octet, frame : {0, 1}, pos : Nat, of : Nat]
      OBVIOUS
    <2>2. marked \in [1 .. m -> S]
      BY ONLY <1>3, <2>1
    <2>3. marked \in Seq(S) /\ Len(marked) = m
      BY ONLY <2>2, m \in Nat
    <2> QED
      BY ONLY <2>1, <2>3
  <1>5. \A k \in 1 .. m : /\ marked[k].value = bytes[k] /\ marked[k].pos = k
                          /\ marked[k].of = Len(line)
                          /\ k <= Len(line) => marked[k].frame = 1
    BY ONLY <1>1
  <1> QED
    BY <1>4, <1>5 DEF IsMarked

\* A checksum, as RtuFraming takes it: that of the bytes of the frame.
LEMMA MarkedChecksum ==
    ASSUME NEW bytes \in Seq(Octet), Len(line) \in Nat,
           NEW m \in Nat, m = Len(bytes), NEW marked, marked = Marked(bytes),
           NEW reader, NEW end \in Nat, end >= 4, end <= m
    PROVE  Framing(reader)!ChecksumHolds(SubSeq(marked, 1, end)) <=> end = Len(line)
  <1>1. /\ marked \in Seq([value : Octet, frame : {0, 1}, pos : Nat, of : Nat])
        /\ Len(marked) = m
        /\ \A k \in 1 .. m : /\ marked[k].value = bytes[k] /\ marked[k].pos = k
                             /\ marked[k].of = Len(line)
                             /\ k <= Len(line) => marked[k].frame = 1
    <2>1. IsMarked(bytes, m, marked)
      BY MarkedIs
    <2> QED
      BY ONLY <2>1 DEF IsMarked
  <1>2. PICK s : s = SubSeq(marked, 1, end)
    OBVIOUS
  <1>3. Len(s) = end /\ \A k \in 1 .. end : s[k] = marked[k]
    <2>1. PICK R : R = [value : Octet, frame : {0, 1}, pos : Nat, of : Nat]
      OBVIOUS
    <2>2. marked \in Seq(R) /\ end <= Len(marked)
      BY ONLY <1>1, <2>1, end <= m
    <2> QED
      BY ONLY <1>2, <2>2, end \in Nat
  <1>4. \A k \in 1 .. end : /\ s[k].pos = k /\ s[k].of = Len(line)
                            /\ k <= Len(line) => s[k].frame = 1
    BY ONLY <1>1, <1>3, m \in Nat, end \in Nat, end <= m
  <1>5. 1 \in 1 .. end
    BY ONLY end \in Nat, end >= 4
  <1>6. Framing(reader)!ChecksumHolds(s) <=>
           /\ Len(s) >= 4 /\ s[1].frame # 0 /\ s[1].of = Len(s)
           /\ \A k \in 1 .. Len(s) : s[k].frame = s[1].frame /\ s[k].pos = k
    BY DEF Framing!ChecksumHolds, Framing!MinFrame, CrcSize
  <1>7. ASSUME end = Len(line)
        PROVE  /\ Len(s) >= 4 /\ s[1].frame # 0 /\ s[1].of = Len(s)
               /\ \A k \in 1 .. Len(s) : s[k].frame = s[1].frame /\ s[k].pos = k
    BY ONLY <1>3, <1>4, <1>5, <1>7, end \in Nat, end >= 4
  <1>8. s[1].of = Len(s) => end = Len(line)
    BY ONLY <1>3, <1>4, <1>5
  <1> QED
    BY <1>2, <1>6, <1>7, <1>8

\* What RtuFraming makes of bytes that would be a frame of a given length.
Abstracts(m, end) ==
    IF m < end THEN Wants(end - m) ELSE IF end = Len(line) THEN Found(end) ELSE NoFrame(TRUE)

AbstractSaid(class, bytes, m, h, abstract) ==
    /\ m < 4 => abstract = Wants(4 - m)
    /\ m >= 4 /\ class \in OpenKind => abstract = NoFrame(FALSE)
    /\ m >= 4 /\ class \in FixedKind => abstract = Abstracts(m, 1 + h + 2)
    /\ m >= 4 /\ class \in CountedKind =>
          abstract = IF m < 1 + h THEN Wants(1) ELSE Abstracts(m, 1 + h + 2 + bytes[1 + h])

LEMMA AbstractIs ==
    ASSUME NEW reader, NEW class \in Known, NEW bytes \in Seq(Octet),
           Len(line) \in Nat, NEW m \in Nat, m = Len(bytes),
           m >= 4 => class = PduClass(reader, <<bytes[2]>>),
           NEW h \in Nat, h = HeadSize(class), h >= 1,
           NEW abstract, abstract = Framing(reader)!ReadRtuFrame(Marked(bytes))
    PROVE  AbstractSaid(class, bytes, m, h, abstract)
  <1>1. PICK marked : marked = Marked(bytes)
    OBVIOUS
  <1>2. /\ Len(marked) = m
        /\ \A k \in 1 .. m : marked[k].value = bytes[k]
    BY <1>1, MarkedIs DEF IsMarked
  <1>3. Framing(reader)!MinFrame = 4
    BY DEF Framing!MinFrame, CrcSize
  <1>4. /\ \A n : Framing(reader)!Wants(n) = Wants(n) /\ Framing(reader)!Found(n) = Found(n)
        /\ \A sizable : Framing(reader)!NoFrame(sizable) = NoFrame(sizable)
    BY DEF Framing!Wants, Framing!Found, Framing!NoFrame, Wants, Found, NoFrame
  <1>5. ASSUME m < 4 PROVE abstract = Wants(4 - m)
    BY <1>1, <1>2, <1>3, <1>4, <1>5 DEF Framing!ReadRtuFrame
  <1>6. ASSUME m >= 4
        PROVE  /\ class \in OpenKind => abstract = NoFrame(FALSE)
               /\ class \in FixedKind => abstract = Abstracts(m, 1 + h + 2)
               /\ class \in CountedKind =>
                     abstract = IF m < 1 + h THEN Wants(1)
                                ELSE Abstracts(m, 1 + h + 2 + bytes[1 + h])
    <2>1. PICK layout : layout = LayoutFor(reader)[marked[2].value]
      OBVIOUS
    <2>2. layout = [kind |-> CASE class.item = 0 -> "fixed"
                               [] class.item > 0 /\ class.counts -> "counted"
                               [] OTHER -> "none",
                    head |-> h]
      <3>1. marked[2].value = bytes[2] /\ bytes[2] \in 0 .. 255
        <4>1. 2 \in 1 .. m
          BY ONLY <1>6, m \in Nat
        <4>2. bytes[2] \in Octet
          BY <4>1
        <4> QED
          BY <1>2, <4>1, <4>2 DEF Octet
      <3> QED
        BY <1>6, <2>1, <3>1 DEF LayoutFor
    <2>3. ~ (m < 4)
      BY ONLY <1>6, m \in Nat
    <2>4. PICK end : end = Framing(reader)!FrameLength(marked)
      OBVIOUS
    <2>5. end = 1 + layout.head + 2
                  + IF layout.kind = "counted" THEN marked[1 + layout.head].value ELSE 0
      BY <2>1, <2>4 DEF Framing!FrameLength, CrcSize
    <2>6. abstract =
             CASE layout.kind = "none" -> NoFrame(FALSE)
               [] layout.kind = "counted" /\ m < 1 + layout.head -> Wants(1)
               [] OTHER -> IF m < end THEN Wants(end - m)
                           ELSE IF Framing(reader)!ChecksumHolds(SubSeq(marked, 1, end))
                                THEN Found(end) ELSE NoFrame(TRUE)
      <3>1. ~ (Len(marked) < Framing(reader)!MinFrame)
        BY <1>2, <1>3, <2>3
      <3>2. abstract =
               CASE layout.kind = "none" -> Framing(reader)!NoFrame(FALSE)
                 [] layout.kind = "counted" /\ Len(marked) < 1 + layout.head ->
                       Framing(reader)!Wants(1)
                 [] OTHER ->
                       IF Len(marked) < end THEN Framing(reader)!Wants(end - Len(marked))
                       ELSE IF Framing(reader)!ChecksumHolds(SubSeq(marked, 1, end))
                            THEN Framing(reader)!Found(end) ELSE Framing(reader)!NoFrame(TRUE)
        BY ONLY <1>1, <2>1, <2>4, <3>1,
           abstract = Framing(reader)!ReadRtuFrame(Marked(bytes)) DEF Framing!ReadRtuFrame
      <3>3. /\ Framing(reader)!Wants(1) = Wants(1) /\ Framing(reader)!Found(end) = Found(end)
            /\ Framing(reader)!Wants(end - Len(marked)) = Wants(end - Len(marked))
            /\ Framing(reader)!NoFrame(FALSE) = NoFrame(FALSE)
            /\ Framing(reader)!NoFrame(TRUE) = NoFrame(TRUE)
        BY <1>4
      <3>4. Len(marked) = m
        BY <1>2
      <3> QED
        BY ONLY <3>2, <3>3, <3>4
    <2>7. ASSUME end \in Nat, end >= 4
          PROVE  (IF m < end THEN Wants(end - m)
                  ELSE IF Framing(reader)!ChecksumHolds(SubSeq(marked, 1, end))
                       THEN Found(end) ELSE NoFrame(TRUE)) = Abstracts(m, end)
      <3>1. CASE m < end
        BY <3>1 DEF Abstracts
      <3>2. CASE ~ (m < end)
        <4>1. end <= m
          BY ONLY <2>7, <3>2, m \in Nat
        <4>2. Framing(reader)!ChecksumHolds(SubSeq(marked, 1, end)) <=> end = Len(line)
          BY <1>1, <2>7, <4>1, MarkedChecksum
        <4> QED
          BY <3>2, <4>2 DEF Abstracts
      <3> QED
        BY <3>1, <3>2
    <2>8. ASSUME class \in OpenKind PROVE abstract = NoFrame(FALSE)
      <3>1. class.item = 1 /\ class.counts = FALSE
        BY <2>8, OpenKindIs
      <3>2. layout.kind = "none"
        BY ONLY <2>2, <3>1
      <3> QED
        BY ONLY <2>6, <3>2
    <2>9. ASSUME class \in FixedKind PROVE abstract = Abstracts(m, 1 + h + 2)
      <3>1. class.item = 0 /\ class.counts = FALSE
        BY <2>9, FixedKindIs
      <3>2. layout.kind = "fixed" /\ layout.head = h
        BY ONLY <2>2, <3>1
      <3>3. end = 1 + h + 2 /\ end \in Nat /\ end >= 4
        BY ONLY <2>5, <3>2, h \in Nat, h >= 1
      <3>4. abstract = IF m < end THEN Wants(end - m)
                       ELSE IF Framing(reader)!ChecksumHolds(SubSeq(marked, 1, end))
                            THEN Found(end) ELSE NoFrame(TRUE)
        BY ONLY <2>6, <3>2
      <3> QED
        BY ONLY <2>7, <3>3, <3>4
    <2>10. ASSUME class \in CountedKind
           PROVE  abstract = IF m < 1 + h THEN Wants(1)
                             ELSE Abstracts(m, 1 + h + 2 + bytes[1 + h])
      <3>1. class.item \in {1, 2} /\ class.counts = TRUE
        BY <2>10, CountedKindIs
      <3>2. layout.kind = "counted" /\ layout.head = h
        <4>1. ~ (class.item = 0) /\ class.item > 0
          BY ONLY <3>1
        <4> QED
          BY ONLY <2>2, <3>1, <4>1
      <3>3. CASE m < 1 + h
        BY ONLY <2>6, <3>2, <3>3
      <3>4. CASE ~ (m < 1 + h)
        <4>1. PICK c : c = bytes[1 + h]
          OBVIOUS
        <4>2. 1 + h \in 1 .. m
          BY ONLY <3>4, m \in Nat, h \in Nat
        <4>3. c \in Nat
          <5>1. c \in Octet
            BY <4>1, <4>2
          <5> QED
            BY <5>1, OctetIs
        <4>4. marked[1 + h].value = c
          BY <1>2, <4>1, <4>2
        <4>5. end = 1 + h + 2 + c /\ end \in Nat /\ end >= 4
          BY ONLY <2>5, <3>2, <4>3, <4>4, h \in Nat, h >= 1
        <4>6. abstract = IF m < end THEN Wants(end - m)
                         ELSE IF Framing(reader)!ChecksumHolds(SubSeq(marked, 1, end))
                              THEN Found(end) ELSE NoFrame(TRUE)
          BY ONLY <2>6, <3>2, <3>4
        <4> QED
          BY ONLY <2>7, <3>4, <4>1, <4>5, <4>6
      <3> QED
        BY ONLY <3>3, <3>4
    <2> QED
      BY <2>8, <2>9, <2>10
  <1> QED
    BY <1>5, <1>6 DEF AbstractSaid

\* read_rtu_frame answers as RtuFraming's reader does: what RtuSplitter and
\* RtuStream are proved of is the reader there is.
THEOREM AbstractionIsSound == LineSpec => []ReaderIsAbstracted
  <1>1. ASSUME LineInv PROVE ReaderIsAbstracted
    <2> SUFFICES ASSUME stage = "held", ClassOf(sent.pdu).rule # "sub",
                        NEW abstract, abstract = Framing(sent.side)!ReadRtuFrame(Marked(held))
                 PROVE  \/ read = abstract
                        \/ /\ ~ TailMatches(sent.pdu)
                           /\ abstract = NoFrame(TRUE)
                           /\ read.found /\ ValidateCrc(SubSeq(held, 1, read.length))
      BY DEF ReaderIsAbstracted
    <2>1. PICK class, bytes : Holding(class, bytes)
      BY <1>1, HoldingIs
    <2>2. PICK L, m, b, h, to, pdu :
             /\ L = Len(line) /\ m = Len(held) /\ b = Len(bytes) /\ h = HeadSize(class)
             /\ to = sent.side /\ pdu = sent.pdu
      OBVIOUS
    <2>3. /\ line \in Seq(Octet) /\ b \in Nat /\ b >= 1 /\ L = 3 + b
          /\ held \in Seq(Octet) /\ m \in Nat
          /\ \A i \in 1 .. Len(line) : i <= Len(held) => held[i] = line[i]
          /\ L <= m => SubSeq(held, 1, L) = line
          /\ read = ReadRtuFrame(held, to) /\ ClassOf(pdu) = class
          /\ class \in Known /\ pdu.id = class.id /\ h \in Nat
          /\ b = h + class.item * Len(pdu.tail)
      BY <2>1, <2>2 DEF Holding, Sends, InFrame
    <2>4. h >= 1
      BY <2>2, <2>3, KnownIs
    <2>5. ModbusRtuPacket(line, TRUE).raises = "nothing"
      <3>1. RtuPacks(sent) /\ Sends(class, sent) /\ line = SerializeRtu(sent)
        BY <1>1, <2>1 DEF Holding, LineInv, OnTheLine, Arrived
      <3> QED
        BY <3>1, ReadBack DEF ModbusRtuPacket
    <2>8. /\ class \in Known /\ held \in Seq(Octet) /\ Len(line) \in Nat
          /\ m \in Nat /\ m = Len(held) /\ h \in Nat /\ h = HeadSize(class) /\ h >= 1
          /\ abstract = Framing(to)!ReadRtuFrame(Marked(held))
      <3>1. L \in Nat
        BY ONLY <2>3
      <3> QED
        BY <2>2, <2>3, <2>4, <3>1
    <2>6. CASE m < 4
      <3>1. read = Wants(4 - m)
        BY <2>2, <2>3, <2>6 DEF ReadRtuFrame, MinRtuFrame, CrcSize
      <3>2. abstract = Wants(4 - m)
        <4>1. m >= 4 => class = PduClass(to, <<held[2]>>)
          BY ONLY <2>3, <2>6
        <4>2. AbstractSaid(class, held, m, h, abstract)
          BY ONLY <2>8, <4>1, AbstractIs
        <4> QED
          BY ONLY <2>6, <4>2 DEF AbstractSaid
      <3> QED
        BY <3>1, <3>2
    <2>7. CASE ~ (m < 4)
      <3>1. PICK rest, size : rest = Tail(held) /\ size = ExpectedSize(class, rest)
        OBVIOUS
      <3>2. m >= 4 /\ L \in Nat
        BY ONLY <2>3, <2>7
      <3>3. /\ PduClass(to, rest) = class /\ Len(rest) = m - 1
            /\ \A i \in 1 .. Len(rest) : rest[i] = held[i + 1]
            /\ SizeIs(class, pdu, rest, size)
        <4>1. /\ held \in Seq(Octet) /\ Len(held) >= 4 /\ rest = Tail(held)
              /\ \A i \in 1 .. Len(line) : i <= Len(held) => held[i] = line[i]
          BY ONLY <2>2, <2>3, <3>1, <3>2
        <4>2. /\ PduClass(sent.side, rest) = class /\ Len(rest) = Len(held) - 1
              /\ \A i \in 1 .. Len(rest) : rest[i] = held[i + 1]
              /\ SizeIs(class, sent.pdu, rest, ExpectedSize(class, rest))
          BY ONLY <2>1, <4>1, SizeHeld
        <4> QED
          BY ONLY <2>2, <3>1, <4>2
      <3>4. SaidOf(held, m, size, read)
        BY <2>2, <2>3, <3>1, <3>2, <3>3, Said
      <3>5. class = PduClass(to, <<held[2]>>)
        <4>1. 1 \in 1 .. Len(rest) /\ 1 + 1 = 2
          BY ONLY <2>3, <3>2, <3>3
        <4>2. rest[1] = held[2]
          BY ONLY <3>3, <4>1
        <4>3. PduClass(to, rest) = PduClass(to, <<rest[1]>>)
          BY ClassByCode
        <4> QED
          BY <3>3, <4>2, <4>3
      <3>6. /\ class \in OpenKind => abstract = NoFrame(FALSE)
            /\ class \in FixedKind => abstract = Abstracts(m, 1 + h + 2)
            /\ class \in CountedKind =>
                  abstract = IF m < 1 + h THEN Wants(1)
                             ELSE Abstracts(m, 1 + h + 2 + held[1 + h])
        <4>1. m >= 4 => class = PduClass(to, <<held[2]>>)
          BY ONLY <3>5
        <4>2. AbstractSaid(class, held, m, h, abstract)
          BY ONLY <2>8, <4>1, AbstractIs
        <4> QED
          BY ONLY <3>2, <4>2 DEF AbstractSaid
      <3>7. ASSUME NEW end \in Nat, size \in Nat, end = 1 + size + 2, abstract = Abstracts(m, end),
                   end = L \/ ~ TailMatches(pdu)
            PROVE  \/ read = abstract
                   \/ /\ ~ TailMatches(pdu) /\ abstract = NoFrame(TRUE)
                      /\ read.found /\ ValidateCrc(SubSeq(held, 1, read.length))
        <4>1. CASE m < end
          BY <3>4, <3>7, <4>1 DEF SaidOf, Abstracts
        <4>2. CASE ~ (m < end)
          <5>1. read = IF ModbusRtuPacket(SubSeq(held, 1, end), TRUE).raises = "nothing"
                       THEN Found(end) ELSE NoFrame(TRUE)
            BY <3>4, <3>7, <4>2 DEF SaidOf
          <5>2. abstract = IF end = L THEN Found(end) ELSE NoFrame(TRUE)
            BY <2>2, <3>7, <4>2 DEF Abstracts
          <5>3. CASE end = L
            <6>1. L <= m
              BY ONLY <2>3, <4>2, <5>3
            <6> QED
              BY <2>3, <2>5, <5>1, <5>2, <5>3, <6>1
          <5>4. CASE end # L
            <6>1. CASE ModbusRtuPacket(SubSeq(held, 1, end), TRUE).raises = "nothing"
              <7>1. read.found /\ read.length = end
                BY <5>1, <6>1 DEF Found
              <7>2. ValidateCrc(SubSeq(held, 1, end))
                BY <6>1 DEF ModbusRtuPacket, DeserializeRtu, Raises
              <7> QED
                BY <3>7, <5>2, <5>4, <7>1, <7>2
            <6>2. CASE ModbusRtuPacket(SubSeq(held, 1, end), TRUE).raises # "nothing"
              BY <5>1, <5>2, <5>4, <6>2
            <6> QED
              BY <6>1, <6>2
          <5> QED
            BY <5>3, <5>4
        <4> QED
          BY <4>1, <4>2
      <3>8. CASE class \in OpenKind
        <4>1. size = Unsizable
          BY <3>3, <3>8 DEF SizeIs, Unstated
        <4> QED
          BY <3>4, <3>6, <3>8, <4>1 DEF SaidOf
      <3>9. CASE class \in FixedKind
        <4>1. size = h
          BY <2>2, <3>3, <3>9 DEF SizeIs
        <4>2. class.item = 0 /\ Len(pdu.tail) \in Nat
          <5>1. Len(pdu.tail) \in Nat
            BY <2>1, <2>2 DEF Holding, Sends, Shaped, Pdus
          <5> QED
            BY <3>9, <5>1, FixedKindIs
        <4>3. PICK end : end = 1 + h + 2
          OBVIOUS
        <4>4. end \in Nat /\ size \in Nat /\ end = 1 + size + 2 /\ end = L
          BY ONLY <2>3, <4>1, <4>2, <4>3
        <4> QED
          BY <2>2, <3>6, <3>7, <3>9, <4>3, <4>4
      <3>10. CASE class \in CountedKind
        <4>1. PICK c : c = pdu.fields[Len(class.widths)]
          OBVIOUS
        <4>2. \/ size = NeedsMore /\ m - 1 < h
              \/ /\ m - 1 >= h /\ size = h + c /\ c \in Octet /\ rest[h] = c
          BY <2>2, <3>3, <3>10, <4>1 DEF SizeIs
        <4>3. CASE size = NeedsMore /\ m - 1 < h
          <5>1. m < 1 + h
            BY ONLY <2>3, <4>3
          <5>2. read = Wants(1)
            BY <3>4, <4>3 DEF SaidOf
          <5> QED
            BY <3>6, <3>10, <5>1, <5>2
        <4>4. CASE m - 1 >= h /\ size = h + c /\ c \in Octet /\ rest[h] = c
          <5>1. ~ (m < 1 + h) /\ h \in 1 .. Len(rest) /\ h + 1 = 1 + h
            BY ONLY <2>3, <2>4, <3>3, <4>4
          <5>2. held[1 + h] = c
            BY ONLY <3>3, <4>4, <5>1
          <5>3. PICK end : end = 1 + h + 2 + c
            OBVIOUS
          <5>4. c \in Nat
            BY <4>4, OctetIs
          <5>5. end \in Nat /\ size \in Nat /\ end = 1 + size + 2
            BY ONLY <2>3, <4>4, <5>3, <5>4
          <5>6. abstract = Abstracts(m, end)
            BY <3>6, <3>10, <5>1, <5>2, <5>3
          <5>7. ASSUME TailMatches(pdu) PROVE end = L
            <6>1. c = class.item * Len(pdu.tail)
              BY <2>3, <3>10, <4>1, <5>7, CountedKindIs DEF TailMatches
            <6>2. b = h + c
              BY ONLY <2>3, <6>1
            <6> QED
              BY ONLY <2>3, <5>3, <5>4, <6>2
          <5> QED
            BY <2>2, <3>7, <5>5, <5>6, <5>7
        <4> QED
          BY <4>2, <4>3, <4>4
      <3>11. class \notin SubKind
        BY <2>2, <2>3, SubKindIs
      <3> QED
        BY <2>3, <3>8, <3>9, <3>10, <3>11, KindsAre
    <2> QED
      BY <2>6, <2>7
  <1> QED
    BY <1>1, LineIsAsWritten, PTL

-----------------------------------------------------------------------------
(* Counting up, and functions that are defined by it.                      *)

LEMMA LeastNumber ==
    ASSUME NEW T \in SUBSET Nat, T # {}
    PROVE  \E n \in T : \A m \in T : n <= m
  <1> DEFINE R == {ss \in Nat \X Nat : ss[1] < ss[2]}
  <1>1. IsWellFoundedOn(R, Nat)
    BY NatLessThanWellFounded DEF OpToRel
  <1>2. PICK x \in T : \A y \in T : ~(<<y, x>> \in R)
    <2>1. T \subseteq Nat
      OBVIOUS
    <2> HIDE DEF R
    <2> QED
      BY ONLY <1>1, WFMin, <2>1, T # {}
  <1>3. ASSUME NEW y \in T
        PROVE  x <= y
    <2>1. x \in Nat /\ y \in Nat
      OBVIOUS
    <2>2. y < x => <<y, x>> \in R
      BY <2>1
    <2>3. ~(<<y, x>> \in R)
      BY <1>2
    <2> HIDE DEF R
    <2> QED
      BY <2>1, <2>2, <2>3
  <1> QED
    BY <1>3

LEMMA CountsUp ==
    ASSUME NEW N \in Nat, NEW S, 0 \in S, \A n \in 0 .. N : n \in S /\ n < N => n + 1 \in S
    PROVE  \A n \in 0 .. N : n \in S
  <1> SUFFICES ASSUME NEW e \in 0 .. N, e \notin S PROVE FALSE
    OBVIOUS
  <1>1. PICK T : T = {n \in 0 .. N : n \notin S}
    OBVIOUS
  <1>2. T \in SUBSET Nat /\ T # {}
    BY <1>1
  <1>3. PICK n \in T : \A m \in T : n <= m
    BY ONLY <1>2, LeastNumber
  <1>4. n \in 0 .. N /\ n \notin S /\ n # 0
    BY <1>1, <1>3
  <1>5. PICK p : p = n - 1
    OBVIOUS
  <1>6. p \in 0 .. N /\ p < N /\ p + 1 = n /\ ~ (n <= p)
    BY ONLY <1>4, <1>5, N \in Nat
  <1>7. p \in S
    BY ONLY <1>1, <1>3, <1>6
  <1> QED
    BY <1>4, <1>6, <1>7

\* A function that begins with a value and goes on by a rule.
Steps(f, first, rule, n) == f[0] = first /\ \A k \in 1 .. n : f[k] = rule[k][f[k - 1]]

LEMMA StepsExist ==
    ASSUME NEW N \in Nat, NEW R, NEW first \in R, NEW rule \in [1 .. N -> [R -> R]]
    PROVE  \E f \in [0 .. N -> R] : Steps(f, first, rule, N)
  <1>1. PICK S : S = {n \in 0 .. N : \E f \in [0 .. n -> R] : Steps(f, first, rule, n)}
    OBVIOUS
  <1>2. 0 \in S
    <2>1. PICK f : f = [k \in 0 .. 0 |-> first]
      OBVIOUS
    <2>2. f \in [0 .. 0 -> R] /\ f[0] = first
      BY ONLY <2>1, first \in R
    <2>3. Steps(f, first, rule, 0)
      BY ONLY <2>2 DEF Steps
    <2> QED
      BY ONLY <1>1, <2>2, <2>3, N \in Nat
  <1>3. ASSUME NEW n \in 0 .. N, n \in S, n < N PROVE n + 1 \in S
    <2>1. PICK f \in [0 .. n -> R] : Steps(f, first, rule, n)
      BY <1>1, <1>3
    <2>2. PICK m : m = n + 1
      OBVIOUS
    <2>3. /\ n \in Nat /\ m \in 1 .. N /\ m \in 0 .. N /\ m - 1 = n
          /\ n \in 0 .. n /\ 0 \in 0 .. n /\ 0 # m /\ m \notin 0 .. n
      BY ONLY <1>3, <2>2, N \in Nat
    <2>4. PICK v : v = rule[m][f[n]]
      OBVIOUS
    <2>5. v \in R
      <3>1. rule[m] \in [R -> R] /\ f[n] \in R
        BY ONLY <2>1, <2>3, rule \in [1 .. N -> [R -> R]]
      <3> QED
        BY ONLY <2>4, <3>1
    <2>6. PICK g : g = [k \in 0 .. m |-> IF k = m THEN v ELSE f[k]]
      OBVIOUS
    <2>7. /\ \A k \in 0 .. n : k \in 0 .. m /\ k # m
          /\ \A k \in 0 .. m : k # m => k \in 0 .. n
          /\ m \in 0 .. m
      BY ONLY <2>2, <2>3
    <2>8. (\A k \in 0 .. n : g[k] = f[k]) /\ g[m] = v
      BY ONLY <2>6, <2>7
    <2>9. g \in [0 .. m -> R]
      BY ONLY <2>1, <2>5, <2>6, <2>7
    <2>10. Steps(g, first, rule, m)
      <3>1. g[0] = first
        BY <2>1, <2>3, <2>8 DEF Steps
      <3>2. ASSUME NEW k \in 1 .. m PROVE g[k] = rule[k][g[k - 1]]
        <4>1. CASE k = m
          BY ONLY <2>3, <2>4, <2>8, <4>1
        <4>2. CASE k # m
          <5>1. k \in 1 .. n /\ k \in 0 .. n /\ k - 1 \in 0 .. n
            BY ONLY <2>2, <2>3, <3>2, <4>2
          <5>2. f[k] = rule[k][f[k - 1]]
            BY <2>1, <5>1 DEF Steps
          <5> QED
            BY ONLY <2>8, <5>1, <5>2
        <4> QED
          BY ONLY <4>1, <4>2
      <3> QED
        BY <3>1, <3>2 DEF Steps
    <2> QED
      BY ONLY <1>1, <2>2, <2>3, <2>9, <2>10
  <1>4. N \in S
    <2>1. \A n \in 0 .. N : n \in S /\ n < N => n + 1 \in S
      BY <1>3
    <2>2. \A n \in 0 .. N : n \in S
      BY ONLY <1>2, <2>1, CountsUp, N \in Nat
    <2> QED
      BY <2>2
  <1> QED
    BY <1>1, <1>4

-----------------------------------------------------------------------------
(* The register, and one step of the division.                             *)

LEMMA DiffIs ==
    \A A, B, x : x \in SymDiff(A, B) <=> (x \in A /\ x \notin B) \/ (x \in B /\ x \notin A)
  BY DEF SymDiff

\* The bits the generator turns over.
Turns(S, j) == 0 \in S /\ j \in Generator

LEMMA ShiftIs ==
    ASSUME NEW S \in SUBSET Nat
    PROVE  /\ Shift(S) \in SUBSET Nat
           /\ \A j \in Nat : j \in Shift(S) <=> \/ j + 1 \in S /\ ~ Turns(S, j)
                                                \/ j + 1 \notin S /\ Turns(S, j)
  <1>1. PICK shifted : shifted = {k - 1 : k \in S \ {0}}
    OBVIOUS
  <1>2. \A j \in Nat : j \in shifted <=> j + 1 \in S
    <2> SUFFICES ASSUME NEW j \in Nat PROVE j \in shifted <=> j + 1 \in S
      OBVIOUS
    <2>1. ASSUME j \in shifted PROVE j + 1 \in S
      <3>1. PICK k \in S \ {0} : j = k - 1
        BY <1>1, <2>1
      <3>2. k \in Nat /\ k = j + 1
        BY <3>1
      <3> QED
        BY <3>2
    <2>2. ASSUME j + 1 \in S PROVE j \in shifted
      <3>1. PICK k : k = j + 1
        OBVIOUS
      <3>2. k \in S \ {0} /\ j = k - 1
        BY <2>2, <3>1
      <3> QED
        BY <1>1, <3>2
    <2> QED
      BY <2>1, <2>2
  <1>3. shifted \subseteq Nat
    BY <1>1
  <1>4. Shift(S) = IF 0 \in S THEN SymDiff(shifted, Generator) ELSE shifted
    BY <1>1 DEF Shift
  <1>5. Generator \subseteq Nat
    BY DEF Generator
  <1>6. Shift(S) \in SUBSET Nat
    <2>1. \A j : j \in SymDiff(shifted, Generator) => j \in shifted \/ j \in Generator
      BY ONLY DiffIs
    <2>2. SymDiff(shifted, Generator) \in SUBSET Nat
      BY ONLY <1>3, <1>5, <2>1
    <2> QED
      BY ONLY <1>3, <1>4, <2>2
  <1>7. ASSUME NEW j \in Nat
        PROVE  j \in Shift(S) <=> \/ j + 1 \in S /\ ~ Turns(S, j)
                                  \/ j + 1 \notin S /\ Turns(S, j)
    BY <1>2, <1>4, DiffIs DEF Turns
  <1> QED
    BY <1>6, <1>7

\* Two sets of places are one when they have the same members.
LEMMA SamePlaces ==
    ASSUME NEW A \in SUBSET Nat, NEW B \in SUBSET Nat, \A j \in Nat : j \in A <=> j \in B
    PROVE  A = B
  OBVIOUS

LEMMA ShiftStays ==
    ASSUME NEW S \in SUBSET (0 .. 15)
    PROVE  Shift(S) \in SUBSET (0 .. 15)
  <1>1. S \in SUBSET Nat
    OBVIOUS
  <1>2. ASSUME NEW j \in Shift(S) PROVE j \in 0 .. 15
    <2>1. j \in Nat /\ (j + 1 \in S \/ Turns(S, j))
      BY <1>1, ShiftIs
    <2>2. CASE j + 1 \in S
      BY <2>1, <2>2
    <2>3. CASE Turns(S, j)
      BY <2>3 DEF Turns, Generator
    <2> QED
      BY <2>1, <2>2, <2>3
  <1> QED
    BY <1>2

\* The bits behind those that are in the register come nearer as it turns.
Up(B) == {j + 1 : j \in B}

LEMMA UpIs ==
    ASSUME NEW B \in SUBSET Nat
    PROVE  /\ Up(B) \in SUBSET Nat /\ 0 \notin Up(B)
           /\ \A j \in Nat : j + 1 \in Up(B) <=> j \in B
  <1>1. ASSUME NEW j \in Nat PROVE j + 1 \in Up(B) <=> j \in B
    <2>1. ASSUME j + 1 \in Up(B) PROVE j \in B
      <3>1. PICK k \in B : j + 1 = k + 1
        BY <2>1 DEF Up
      <3>2. k \in Nat /\ k = j
        BY <3>1
      <3> QED
        BY <3>2
    <2>2. ASSUME j \in B PROVE j + 1 \in Up(B)
      BY <2>2 DEF Up
    <2> QED
      BY <2>1, <2>2
  <1>2. Up(B) \in SUBSET Nat /\ 0 \notin Up(B)
    BY DEF Up
  <1> QED
    BY <1>1, <1>2

LEMMA DiffStays ==
    \A A, B : A \in SUBSET Nat /\ B \in SUBSET Nat => SymDiff(A, B) \in SUBSET Nat
  BY DiffIs

LEMMA ShiftBrings ==
    ASSUME NEW A \in SUBSET Nat, NEW B \in SUBSET Nat
    PROVE  Shift(SymDiff(A, Up(B))) = SymDiff(Shift(A), B)
  <1>1. PICK U, S : U = Up(B) /\ S = SymDiff(A, U)
    OBVIOUS
  <1>2. U \in SUBSET Nat /\ 0 \notin U /\ \A j \in Nat : j + 1 \in U <=> j \in B
    BY <1>1, UpIs
  <1>3. S \in SUBSET Nat /\ Shift(A) \in SUBSET Nat
    BY <1>1, <1>2, DiffStays, ShiftIs
  <1>4. Shift(S) \in SUBSET Nat /\ SymDiff(Shift(A), B) \in SUBSET Nat
    BY <1>3, ShiftIs, DiffStays
  <1>5. 0 \in S <=> 0 \in A
    BY <1>1, <1>2, DiffIs
  <1>6. ASSUME NEW j \in Nat PROVE j \in Shift(S) <=> j \in SymDiff(Shift(A), B)
    <2>1. j + 1 \in S <=> \/ j + 1 \in A /\ j \notin B
                          \/ j \in B /\ j + 1 \notin A
      BY <1>1, <1>2, DiffIs
    <2>2. Turns(S, j) <=> Turns(A, j)
      BY <1>5 DEF Turns
    <2>3. j \in Shift(S) <=> \/ j + 1 \in S /\ ~ Turns(S, j)
                             \/ j + 1 \notin S /\ Turns(S, j)
      BY <1>3, ShiftIs
    <2>4. j \in Shift(A) <=> \/ j + 1 \in A /\ ~ Turns(A, j)
                             \/ j + 1 \notin A /\ Turns(A, j)
      BY ShiftIs
    <2>5. j \in SymDiff(Shift(A), B) <=> \/ j \in Shift(A) /\ j \notin B
                                         \/ j \in B /\ j \notin Shift(A)
      BY DiffIs
    <2> QED
      BY ONLY <2>1, <2>2, <2>3, <2>4, <2>5
  <1>7. Shift(S) = SymDiff(Shift(A), B)
    BY ONLY <1>4, <1>6, SamePlaces
  <1> QED
    BY <1>1, <1>7

\* One step of the division: the highest term that may be left, if it is, goes.
Divide(before, top) ==
    IF top \in before THEN SymDiff(before, {top, top - 1, top - 14, top - 16}) ELSE before

\* The terms of a register whose place 0 is that of the highest power.
Terms(S, top) == {top - j : j \in S}

LEMMA TermsAre ==
    ASSUME NEW S \in SUBSET Nat, NEW top \in Int
    PROVE  /\ Terms(S, top) \in SUBSET Int
           /\ \A j \in Int : top - j \in Terms(S, top) <=> j \in S
  <1>1. ASSUME NEW j \in Int PROVE top - j \in Terms(S, top) <=> j \in S
    <2>1. ASSUME top - j \in Terms(S, top) PROVE j \in S
      <3>1. PICK k \in S : top - j = top - k
        BY <2>1 DEF Terms
      <3>2. k \in Int /\ k = j
        BY <3>1
      <3> QED
        BY <3>2
    <2>2. ASSUME j \in S PROVE top - j \in Terms(S, top)
      BY <2>2 DEF Terms
    <2> QED
      BY <2>1, <2>2
  <1>2. Terms(S, top) \in SUBSET Int
    BY DEF Terms
  <1> QED
    BY <1>1, <1>2

\* A turn of the register is a step of the division.
LEMMA ShiftDivides ==
    ASSUME NEW S \in SUBSET Nat, NEW top \in Int
    PROVE  Divide(Terms(S, top), top) = Terms(Shift(S), top - 1)
  <1>1. PICK before, after, next, T :
           /\ before = Terms(S, top) /\ after = Divide(before, top)
           /\ T = Shift(S) /\ next = Terms(T, top - 1)
    OBVIOUS
  <1>2. /\ before \in SUBSET Int /\ \A j \in Int : top - j \in before <=> j \in S
    BY <1>1, TermsAre
  <1>3. T \in SUBSET Nat /\ \A j \in Nat : j \in T <=> \/ j + 1 \in S /\ ~ Turns(S, j)
                                                       \/ j + 1 \notin S /\ Turns(S, j)
    BY <1>1, ShiftIs
  <1>4. next \in SUBSET Int /\ \A j \in Int : (top - 1) - j \in next <=> j \in T
    <2>1. PICK low : low = top - 1
      OBVIOUS
    <2>2. low \in Int /\ next = Terms(T, low)
      BY <1>1, <2>1
    <2>3. Terms(T, low) \in SUBSET Int /\ \A j \in Int : low - j \in Terms(T, low) <=> j \in T
      BY ONLY <1>3, <2>2, TermsAre
    <2> QED
      BY ONLY <2>1, <2>2, <2>3
  <1>5. PICK turned : turned = {top, top - 1, top - 14, top - 16}
    OBVIOUS
  <1>6. top \in before <=> 0 \in S
    <2>1. top - 0 = top
      OBVIOUS
    <2> QED
      BY <1>2, <2>1
  <1>7. after = IF 0 \in S THEN SymDiff(before, turned) ELSE before
    BY <1>1, <1>5, <1>6 DEF Divide
  <1>8. after \in SUBSET Int
    <2>1. turned \in SUBSET Int
      BY <1>5
    <2>2. SymDiff(before, turned) \in SUBSET Int
      BY <1>2, <2>1, DiffIs
    <2> QED
      BY <1>2, <1>7, <2>2
  <1>9. ASSUME NEW e \in Int PROVE e \in after <=> e \in next
    <2>1. PICK j : j = (top - 1) - e
      OBVIOUS
    <2>2. j \in Int /\ j + 1 \in Int /\ e = (top - 1) - j /\ e = top - (j + 1)
      BY <2>1
    <2>3. e \in before <=> j + 1 \in S
      BY <1>2, <2>2
    <2>4. e \in next <=> j \in T
      BY <1>4, <2>2
    <2>5. e \in turned <=> j \in {-1, 0, 13, 15}
      BY ONLY <1>5, <2>1, top \in Int, e \in Int
    <2>6. e \in after <=> \/ j + 1 \in S /\ ~ (0 \in S /\ j \in {-1, 0, 13, 15})
                          \/ j + 1 \notin S /\ 0 \in S /\ j \in {-1, 0, 13, 15}
      BY <1>7, <2>3, <2>5, DiffIs
    <2>7. CASE j \in Nat
      <3>1. j \in {-1, 0, 13, 15} <=> j \in Generator
        BY <2>7 DEF Generator
      <3>2. j \in T <=> \/ j + 1 \in S /\ ~ Turns(S, j)
                        \/ j + 1 \notin S /\ Turns(S, j)
        BY <1>3, <2>7
      <3> QED
        BY <2>4, <2>6, <3>1, <3>2 DEF Turns
    <2>8. CASE j = -1
      <3>1. j + 1 = 0 /\ j \in {-1, 0, 13, 15} /\ j \notin Nat
        BY ONLY <2>8
      <3>2. j \notin T
        BY ONLY <1>3, <3>1
      <3> QED
        BY ONLY <2>4, <2>6, <3>1, <3>2
    <2>9. CASE j < -1
      <3>1. j + 1 \notin Nat /\ j \notin Nat /\ j \notin {-1, 0, 13, 15}
        BY ONLY <2>2, <2>9
      <3>2. j \notin T /\ j + 1 \notin S
        BY <1>3, <3>1
      <3> QED
        BY ONLY <2>4, <2>6, <3>1, <3>2
    <2> QED
      BY ONLY <2>2, <2>7, <2>8, <2>9
  <1>10. after = next
    BY ONLY <1>4, <1>8, <1>9
  <1> QED
    BY <1>1, <1>10

-----------------------------------------------------------------------------
(* calc_crc16 and the division, as functions of how far they are.          *)

\* Eight turns.
Eight(S) == Shift(Shift(Shift(Shift(Shift(Shift(Shift(Shift(S))))))))

LEMMA EightStays ==
    ASSUME NEW S \in SUBSET (0 .. 15)
    PROVE  Eight(S) \in SUBSET (0 .. 15)
  <1>1. PICK a, b, c, d : a = Shift(S) /\ b = Shift(a) /\ c = Shift(b) /\ d = Shift(c)
    OBVIOUS
  <1>2. PICK e, f, g, h : e = Shift(d) /\ f = Shift(e) /\ g = Shift(f) /\ h = Shift(g)
    OBVIOUS
  <1>3. a \in SUBSET (0 .. 15) /\ b \in SUBSET (0 .. 15)
    BY <1>1, ShiftStays
  <1>4. c \in SUBSET (0 .. 15) /\ d \in SUBSET (0 .. 15)
    BY <1>1, <1>3, ShiftStays
  <1>5. e \in SUBSET (0 .. 15) /\ f \in SUBSET (0 .. 15)
    BY <1>2, <1>4, ShiftStays
  <1>6. g \in SUBSET (0 .. 15) /\ h \in SUBSET (0 .. 15)
    BY <1>2, <1>5, ShiftStays
  <1>7. Eight(S) = h
    BY ONLY <1>1, <1>2 DEF Eight
  <1> QED
    BY ONLY <1>6, <1>7

LEMMA BitsAre ==
    ASSUME NEW v \in Octet
    PROVE  Bits[v] \in SUBSET (0 .. 7)
  BY DEF Bits, Octet

LEMMA AddByteIs ==
    ASSUME NEW crc \in SUBSET (0 .. 15), NEW v \in Octet
    PROVE  /\ AddByte(crc, v) = Eight(SymDiff(crc, Bits[v]))
           /\ AddByte(crc, v) \in SUBSET (0 .. 15)
  <1> DEFINE F(t) == [turns \in 0 .. 8 |-> IF turns = 0 THEN SymDiff(crc, Bits[v])
                                           ELSE Shift(t[turns - 1])]
  <1>1. PICK R, s : R = SUBSET (0 .. 15) /\ s = SymDiff(crc, Bits[v])
    OBVIOUS
  <1>2. s \in R
    <2>1. Bits[v] \in SUBSET (0 .. 15)
      <3>1. \A j \in 0 .. 7 : j \in 0 .. 15
        OBVIOUS
      <3> QED
        BY ONLY <3>1, BitsAre, v \in Octet
    <2> QED
      BY ONLY <1>1, <2>1, DiffIs, crc \in SUBSET (0 .. 15)
  <1>3. \A r \in R : Shift(r) \in R
    BY ONLY <1>1, ShiftStays
  <1>4. PICK rule : rule = [k \in 1 .. 8 |-> [r \in R |-> Shift(r)]]
    OBVIOUS
  <1>5. rule \in [1 .. 8 -> [R -> R]]
    BY ONLY <1>3, <1>4
  <1>6. PICK f \in [0 .. 8 -> R] : Steps(f, s, rule, 8)
    <2>1. PICK N : N = 8
      OBVIOUS
    <2>2. N \in Nat /\ rule \in [1 .. N -> [R -> R]]
      BY ONLY <1>5, <2>1
    <2>3. \E f \in [0 .. N -> R] : Steps(f, s, rule, N)
      BY ONLY <1>2, <2>2, StepsExist
    <2> QED
      BY ONLY <2>1, <2>3
  <1>7. \A k \in 0 .. 8 : f[k] = IF k = 0 THEN s ELSE Shift(f[k - 1])
    <2> SUFFICES ASSUME NEW k \in 0 .. 8, k # 0 PROVE f[k] = Shift(f[k - 1])
      BY <1>6 DEF Steps
    <2>1. k \in 1 .. 8 /\ k - 1 \in 0 .. 8
      BY ONLY k \in 0 .. 8, k # 0
    <2>2. f[k] = rule[k][f[k - 1]] /\ f[k - 1] \in R
      BY <1>6, <2>1 DEF Steps
    <2> QED
      BY ONLY <1>4, <2>1, <2>2
  <1>8. f = F(f)
    BY ONLY <1>1, <1>6, <1>7
  <1> DEFINE h == CHOOSE t : t = F(t)
  <1>9. h = F(h)
    BY ONLY <1>8
  <1>10. AddByte(crc, v) = h[8]
    BY DEF AddByte
  <1> HIDE DEF h
  <1>11. /\ h[0] = s /\ h[1] = Shift(h[0]) /\ h[2] = Shift(h[1]) /\ h[3] = Shift(h[2])
         /\ h[4] = Shift(h[3]) /\ h[5] = Shift(h[4]) /\ h[6] = Shift(h[5])
         /\ h[7] = Shift(h[6]) /\ h[8] = Shift(h[7])
    <2>1. \A k \in 0 .. 8 : h[k] = IF k = 0 THEN s ELSE Shift(h[k - 1])
      BY ONLY <1>1, <1>9
    <2> QED
      BY ONLY <2>1
  <1>12. h[8] = Eight(s)
    BY ONLY <1>11 DEF Eight
  <1>13. Eight(s) \in R
    BY ONLY <1>1, <1>2, EightStays
  <1> QED
    BY <1>1, <1>10, <1>12, <1>13

\* The register after each byte.
Registers(stream, crc) ==
    /\ crc[0] = 0 .. 15
    /\ \A n \in 0 .. Len(stream) : crc[n] \in SUBSET (0 .. 15)
    /\ \A n \in 1 .. Len(stream) : crc[n] = Eight(SymDiff(crc[n - 1], Bits[stream[n]]))
    /\ CalcCrc16(stream) = crc[Len(stream)]

LEMMA RegistersAre ==
    ASSUME NEW stream \in Seq(Octet)
    PROVE  \E crc : Registers(stream, crc)
  <1> DEFINE F(c) == [n \in 0 .. Len(stream) |->
                         IF n = 0 THEN 0 .. 15 ELSE AddByte(c[n - 1], stream[n])]
  <1>1. PICK L, R : L = Len(stream) /\ R = SUBSET (0 .. 15)
    OBVIOUS
  <1>2. L \in Nat /\ 0 .. 15 \in R
    BY <1>1
  <1>3. PICK rule : rule = [n \in 1 .. L |-> [r \in R |-> AddByte(r, stream[n])]]
    OBVIOUS
  <1>4. \A n \in 1 .. L : \A r \in R :
           AddByte(r, stream[n]) \in R /\ AddByte(r, stream[n]) = Eight(SymDiff(r, Bits[stream[n]]))
    <2> SUFFICES ASSUME NEW n \in 1 .. L, NEW r \in R
                 PROVE  /\ AddByte(r, stream[n]) \in R
                        /\ AddByte(r, stream[n]) = Eight(SymDiff(r, Bits[stream[n]]))
      OBVIOUS
    <2>1. PICK v : v = stream[n]
      OBVIOUS
    <2>2. v \in Octet
      BY <1>1, <2>1
    <2> QED
      BY <1>1, <2>1, <2>2, AddByteIs
  <1>5. rule \in [1 .. L -> [R -> R]]
    BY ONLY <1>3, <1>4
  <1>6. PICK f \in [0 .. L -> R] : Steps(f, 0 .. 15, rule, L)
    BY ONLY <1>2, <1>5, StepsExist
  <1>7. \A n \in 0 .. L : f[n] = IF n = 0 THEN 0 .. 15 ELSE AddByte(f[n - 1], stream[n])
    <2> SUFFICES ASSUME NEW n \in 0 .. L, n # 0 PROVE f[n] = AddByte(f[n - 1], stream[n])
      BY <1>6 DEF Steps
    <2>1. n \in 1 .. L /\ n - 1 \in 0 .. L
      BY ONLY <1>2, n \in 0 .. L, n # 0
    <2>2. f[n] = rule[n][f[n - 1]] /\ f[n - 1] \in R
      BY <1>6, <2>1 DEF Steps
    <2> QED
      BY ONLY <1>3, <2>1, <2>2
  <1>8. f = F(f)
    BY <1>1, <1>6, <1>7
  <1> DEFINE h == CHOOSE c : c = F(c)
  <1>9. h = F(h)
    BY <1>8
  <1>10. CalcCrc16(stream) = h[L]
    BY <1>1 DEF CalcCrc16
  <1> HIDE DEF h
  <1>11. \A n \in 0 .. L : h[n] = IF n = 0 THEN 0 .. 15 ELSE AddByte(h[n - 1], stream[n])
    BY <1>1, <1>9
  <1>12. PICK S : S = {n \in 0 .. L : h[n] \in R}
    OBVIOUS
  <1>13. 0 \in S
    BY ONLY <1>2, <1>11, <1>12
  <1>14. ASSUME NEW n \in 0 .. L, n \in S, n < L PROVE n + 1 \in S
    <2>1. PICK m : m = n + 1
      OBVIOUS
    <2>2. m \in 1 .. L /\ m \in 0 .. L /\ m # 0 /\ m - 1 = n
      BY ONLY <1>2, <1>14, <2>1
    <2>3. h[m] = AddByte(h[n], stream[m]) /\ h[n] \in R
      BY ONLY <1>11, <1>12, <1>14, <2>2
    <2>4. h[m] \in R
      BY ONLY <1>4, <2>2, <2>3
    <2> QED
      BY ONLY <1>12, <2>1, <2>2, <2>4
  <1>15. \A n \in 0 .. L : n \in S
    <2>1. \A n \in 0 .. L : n \in S /\ n < L => n + 1 \in S
      BY <1>14
    <2> QED
      BY ONLY <1>2, <1>13, <2>1, CountsUp
  <1>16. \A n \in 0 .. L : h[n] \in R
    BY ONLY <1>12, <1>15
  <1>17. \A n \in 1 .. L : h[n] = Eight(SymDiff(h[n - 1], Bits[stream[n]]))
    <2> SUFFICES ASSUME NEW n \in 1 .. L
                 PROVE  h[n] = Eight(SymDiff(h[n - 1], Bits[stream[n]]))
      OBVIOUS
    <2>1. n \in 0 .. L /\ n # 0 /\ n - 1 \in 0 .. L
      BY ONLY <1>2, n \in 1 .. L
    <2> QED
      BY ONLY <1>4, <1>11, <1>16, <2>1, n \in 1 .. L
  <1>18. h[0] = 0 .. 15
    BY ONLY <1>2, <1>11
  <1> QED
    BY <1>1, <1>10, <1>16, <1>17, <1>18 DEF Registers

\* What is left after each step of a division.
LEMMA RemainderIs ==
    ASSUME NEW terms \in SUBSET Int, NEW degree, NEW N \in Nat, degree = N + 16
    PROVE  \E rest : /\ rest[0] = terms
                     /\ \A k \in 1 .. N : rest[k] = Divide(rest[k - 1], degree - k)
                     /\ Remainder(terms, degree) = rest[N]
  <1> DEFINE F(r) == [k \in 0 .. degree - 16 |->
                        IF k = 0 THEN terms
                        ELSE LET top == degree - k
                                 before == r[k - 1]
                             IN IF top \in before
                                THEN SymDiff(before, {top, top - 1, top - 14, top - 16})
                                ELSE before]
             R == SUBSET Int
  <1>1. degree - 16 = N /\ degree \in Int
    OBVIOUS
  <1>2. \A k \in Int : \A r \in R : Divide(r, degree - k) \in R
    <2> SUFFICES ASSUME NEW k \in Int, NEW r \in R PROVE Divide(r, degree - k) \in R
      OBVIOUS
    <2>1. PICK top, turned : /\ top = degree - k
                             /\ turned = {top, top - 1, top - 14, top - 16}
      OBVIOUS
    <2>2. turned \in SUBSET Int
      BY <1>1, <2>1
    <2>3. SymDiff(r, turned) \in SUBSET Int
      BY <2>2, DiffIs
    <2> QED
      BY <2>1, <2>3 DEF Divide
  <1>3. PICK rule : rule = [k \in 1 .. N |-> [r \in R |-> Divide(r, degree - k)]]
    OBVIOUS
  <1>4. rule \in [1 .. N -> [R -> R]]
    <2>1. \A k \in 1 .. N : k \in Int
      OBVIOUS
    <2> HIDE DEF R
    <2> QED
      BY ONLY <1>2, <1>3, <2>1
  <1>5. PICK f \in [0 .. N -> R] : Steps(f, terms, rule, N)
    <2>1. terms \in R
      OBVIOUS
    <2> HIDE DEF R
    <2> QED
      BY ONLY <1>4, <2>1, StepsExist, N \in Nat
  <1>6. \A k \in 0 .. N : f[k] = IF k = 0 THEN terms ELSE Divide(f[k - 1], degree - k)
    <2> HIDE DEF R
    <2> SUFFICES ASSUME NEW k \in 0 .. N, k # 0 PROVE f[k] = Divide(f[k - 1], degree - k)
      BY <1>5 DEF Steps
    <2>1. k \in 1 .. N /\ k - 1 \in 0 .. N
      BY ONLY N \in Nat, k \in 0 .. N, k # 0
    <2>2. f[k] = rule[k][f[k - 1]] /\ f[k - 1] \in R
      BY <1>5, <2>1 DEF Steps
    <2> QED
      BY ONLY <1>3, <2>1, <2>2
  <1>7. f = F(f)
    <2> HIDE DEF R
    <2>1. f = [k \in 0 .. N |-> IF k = 0 THEN terms ELSE Divide(f[k - 1], degree - k)]
      BY ONLY <1>5, <1>6
    <2> QED
      BY ONLY <1>1, <2>1 DEF Divide
  <1> DEFINE h == CHOOSE r : r = F(r)
  <1>8. h = F(h)
    BY <1>7
  <1>9. Remainder(terms, degree) = h[N]
    BY <1>1 DEF Remainder
  <1> HIDE DEF h
  <1>10. \A k \in 0 .. N : h[k] = IF k = 0 THEN terms ELSE Divide(h[k - 1], degree - k)
    BY ONLY <1>1, <1>8 DEF Divide
  <1>11. h[0] = terms /\ \A k \in 1 .. N : h[k] = Divide(h[k - 1], degree - k)
    <2>1. 0 \in 0 .. N /\ \A k \in 1 .. N : k \in 0 .. N /\ k # 0
      OBVIOUS
    <2> QED
      BY ONLY <1>10, <2>1
  <1> QED
    BY <1>9, <1>11

-----------------------------------------------------------------------------
(* The checksum is the remainder of the division.                          *)

\* Eight bits come nearer.
UpEight(B) == Up(Up(Up(Up(Up(Up(Up(Up(B))))))))

LEMMA UpEightIs ==
    ASSUME NEW B \in SUBSET Nat
    PROVE  \A j \in Nat : j \in UpEight(B) <=> j >= 8 /\ j - 8 \in B
  <1>1. PICK a, b, c, d : a = Up(B) /\ b = Up(a) /\ c = Up(b) /\ d = Up(c)
    OBVIOUS
  <1>2. PICK e, f, g, h : e = Up(d) /\ f = Up(e) /\ g = Up(f) /\ h = Up(g)
    OBVIOUS
  <1>3. /\ a \in SUBSET Nat /\ b \in SUBSET Nat /\ c \in SUBSET Nat /\ d \in SUBSET Nat
        /\ e \in SUBSET Nat /\ f \in SUBSET Nat /\ g \in SUBSET Nat /\ h \in SUBSET Nat
    BY <1>1, <1>2, UpIs
  <1>4. /\ \A j \in Nat : j + 1 \in a <=> j \in B
        /\ \A j \in Nat : j + 1 \in b <=> j \in a
        /\ \A j \in Nat : j + 1 \in c <=> j \in b
        /\ \A j \in Nat : j + 1 \in d <=> j \in c
        /\ \A j \in Nat : j + 1 \in e <=> j \in d
        /\ \A j \in Nat : j + 1 \in f <=> j \in e
        /\ \A j \in Nat : j + 1 \in g <=> j \in f
        /\ \A j \in Nat : j + 1 \in h <=> j \in g
    BY ONLY <1>1, <1>2, <1>3, UpIs, B \in SUBSET Nat
  <1>5. /\ 0 \notin a /\ 0 \notin b /\ 0 \notin c /\ 0 \notin d
        /\ 0 \notin e /\ 0 \notin f /\ 0 \notin g /\ 0 \notin h
    BY ONLY <1>1, <1>2, <1>3, UpIs, B \in SUBSET Nat
  <1>6. UpEight(B) = h
    BY ONLY <1>1, <1>2 DEF UpEight
  <1>7. ASSUME NEW j \in Nat PROVE j + 8 \in h <=> j \in B
    <2>1. /\ j + 4 \in d <=> j \in B
      <3>1. PICK x, y, z : x = j + 1 /\ y = x + 1 /\ z = y + 1
        OBVIOUS
      <3>2. x \in Nat /\ y \in Nat /\ z \in Nat /\ z + 1 = j + 4
        BY ONLY <3>1, j \in Nat
      <3> QED
        BY ONLY <1>4, <3>1, <3>2, j \in Nat
    <2>2. PICK k : k = j + 4
      OBVIOUS
    <2>3. k \in Nat /\ k + 4 = j + 8
      BY ONLY <2>2, j \in Nat
    <2>4. k + 4 \in h <=> k \in d
      <3>1. PICK x, y, z : x = k + 1 /\ y = x + 1 /\ z = y + 1
        OBVIOUS
      <3>2. x \in Nat /\ y \in Nat /\ z \in Nat /\ z + 1 = k + 4
        BY ONLY <3>1, <2>3
      <3> QED
        BY ONLY <1>4, <2>3, <3>1, <3>2
    <2> QED
      BY ONLY <2>1, <2>2, <2>3, <2>4
  <1>8. ASSUME NEW j \in Nat, j < 8 PROVE j \notin h
    <2>1. 0 + 1 = 1 /\ 1 + 1 = 2 /\ 2 + 1 = 3 /\ 3 + 1 = 4 /\ 4 + 1 = 5 /\ 5 + 1 = 6 /\ 6 + 1 = 7
      OBVIOUS
    <2>2. /\ 1 \notin b /\ 1 \notin c /\ 1 \notin d /\ 1 \notin e /\ 1 \notin f /\ 1 \notin g
          /\ 1 \notin h
      BY ONLY <1>4, <1>5, <2>1
    <2>3. 2 \notin c /\ 2 \notin d /\ 2 \notin e /\ 2 \notin f /\ 2 \notin g /\ 2 \notin h
      BY ONLY <1>4, <2>1, <2>2
    <2>4. 3 \notin d /\ 3 \notin e /\ 3 \notin f /\ 3 \notin g /\ 3 \notin h
      BY ONLY <1>4, <2>1, <2>3
    <2>5. 4 \notin e /\ 4 \notin f /\ 4 \notin g /\ 4 \notin h
      BY ONLY <1>4, <2>1, <2>4
    <2>6. 5 \notin f /\ 5 \notin g /\ 5 \notin h
      BY ONLY <1>4, <2>1, <2>5
    <2>7. 6 \notin g /\ 6 \notin h
      BY ONLY <1>4, <2>1, <2>6
    <2>8. 7 \notin h
      BY ONLY <1>4, <2>1, <2>7
    <2>9. j \in {0, 1, 2, 3, 4, 5, 6, 7}
      BY ONLY j \in Nat, j < 8
    <2> QED
      BY ONLY <1>5, <2>2, <2>3, <2>4, <2>5, <2>6, <2>7, <2>8, <2>9
  <1> SUFFICES ASSUME NEW j \in Nat PROVE j \in h <=> j >= 8 /\ j - 8 \in B
    BY <1>6
  <1>9. CASE j < 8
    BY <1>8, <1>9
  <1>10. CASE ~ (j < 8)
    <2>1. PICK i : i = j - 8
      OBVIOUS
    <2>2. i \in Nat /\ i + 8 = j /\ j >= 8
      BY ONLY <1>10, <2>1, j \in Nat
    <2>3. i + 8 \in h <=> i \in B
      BY ONLY <1>7, <2>2
    <2> QED
      BY ONLY <2>1, <2>2, <2>3
  <1> QED
    BY ONLY <1>9, <1>10

LEMMA EightBrings ==
    ASSUME NEW A \in SUBSET Nat, NEW B \in SUBSET Nat
    PROVE  Eight(SymDiff(A, UpEight(B))) = SymDiff(Eight(A), B)
  <1>1. PICK b1, b2, b3, b4 : b1 = Up(B) /\ b2 = Up(b1) /\ b3 = Up(b2) /\ b4 = Up(b3)
    OBVIOUS
  <1>2. PICK b5, b6, b7, b8 : b5 = Up(b4) /\ b6 = Up(b5) /\ b7 = Up(b6) /\ b8 = Up(b7)
    OBVIOUS
  <1>3. PICK a1, a2, a3, a4 : a1 = Shift(A) /\ a2 = Shift(a1) /\ a3 = Shift(a2) /\ a4 = Shift(a3)
    OBVIOUS
  <1>4. PICK a5, a6, a7, a8 : a5 = Shift(a4) /\ a6 = Shift(a5) /\ a7 = Shift(a6) /\ a8 = Shift(a7)
    OBVIOUS
  <1>5. /\ b1 \in SUBSET Nat /\ b2 \in SUBSET Nat /\ b3 \in SUBSET Nat /\ b4 \in SUBSET Nat
        /\ b5 \in SUBSET Nat /\ b6 \in SUBSET Nat /\ b7 \in SUBSET Nat
    BY ONLY <1>1, <1>2, UpIs, B \in SUBSET Nat
  <1>6. /\ a1 \in SUBSET Nat /\ a2 \in SUBSET Nat /\ a3 \in SUBSET Nat /\ a4 \in SUBSET Nat
        /\ a5 \in SUBSET Nat /\ a6 \in SUBSET Nat /\ a7 \in SUBSET Nat
    BY ONLY <1>3, <1>4, ShiftIs, A \in SUBSET Nat
  <1>7. UpEight(B) = b8
    BY ONLY <1>1, <1>2 DEF UpEight
  <1>8. Eight(A) = a8
    BY ONLY <1>3, <1>4 DEF Eight
  <1>9. Shift(SymDiff(A, b8)) = SymDiff(a1, b7)
    BY ONLY <1>2, <1>3, <1>5, ShiftBrings, A \in SUBSET Nat
  <1>10. Shift(SymDiff(a1, b7)) = SymDiff(a2, b6)
    BY ONLY <1>2, <1>3, <1>5, <1>6, ShiftBrings
  <1>11. Shift(SymDiff(a2, b6)) = SymDiff(a3, b5)
    BY ONLY <1>2, <1>3, <1>5, <1>6, ShiftBrings
  <1>12. Shift(SymDiff(a3, b5)) = SymDiff(a4, b4)
    BY ONLY <1>2, <1>3, <1>5, <1>6, ShiftBrings
  <1>13. Shift(SymDiff(a4, b4)) = SymDiff(a5, b3)
    BY ONLY <1>1, <1>4, <1>5, <1>6, ShiftBrings
  <1>14. Shift(SymDiff(a5, b3)) = SymDiff(a6, b2)
    BY ONLY <1>1, <1>4, <1>5, <1>6, ShiftBrings
  <1>15. Shift(SymDiff(a6, b2)) = SymDiff(a7, b1)
    BY ONLY <1>1, <1>4, <1>5, <1>6, ShiftBrings
  <1>16. Shift(SymDiff(a7, b1)) = SymDiff(a8, B)
    BY ONLY <1>1, <1>4, <1>6, ShiftBrings, B \in SUBSET Nat
  <1>17. Eight(SymDiff(A, b8)) = SymDiff(a8, B)
    BY ONLY <1>9, <1>10, <1>11, <1>12, <1>13, <1>14, <1>15, <1>16 DEF Eight
  <1> QED
    BY ONLY <1>7, <1>8, <1>17

LEMMA EightDivides ==
    ASSUME NEW S \in SUBSET Nat, NEW top \in Int, NEW rest, NEW k \in Int,
           rest[k] = Terms(S, top),
           \A i \in 1 .. 8 : rest[k + i] = Divide(rest[k + i - 1], top + 1 - i)
    PROVE  rest[k + 8] = Terms(Eight(S), top - 8)
  <1>1. ASSUME NEW T \in SUBSET Nat, NEW i \in 1 .. 8, rest[k + i - 1] = Terms(T, top + 1 - i)
        PROVE  /\ rest[k + i] = Terms(Shift(T), top - i) /\ Shift(T) \in SUBSET Nat
    <2>1. PICK high : high = top + 1 - i
      OBVIOUS
    <2>2. high \in Int /\ high - 1 = top - i
      BY ONLY <2>1, top \in Int, i \in 1 .. 8
    <2>3. rest[k + i] = Divide(Terms(T, high), high)
      BY <1>1, <2>1
    <2>4. Divide(Terms(T, high), high) = Terms(Shift(T), high - 1)
      BY ONLY <2>2, ShiftDivides, T \in SUBSET Nat
    <2>5. Shift(T) \in SUBSET Nat
      BY ONLY ShiftIs, T \in SUBSET Nat
    <2> QED
      BY ONLY <2>2, <2>3, <2>4, <2>5
  <1>2. PICK a1, a2, a3, a4 : a1 = Shift(S) /\ a2 = Shift(a1) /\ a3 = Shift(a2) /\ a4 = Shift(a3)
    OBVIOUS
  <1>3. PICK a5, a6, a7, a8 : a5 = Shift(a4) /\ a6 = Shift(a5) /\ a7 = Shift(a6) /\ a8 = Shift(a7)
    OBVIOUS
  <1>4. /\ k + 1 - 1 = k /\ k + 2 - 1 = k + 1 /\ k + 3 - 1 = k + 2 /\ k + 4 - 1 = k + 3
        /\ k + 5 - 1 = k + 4 /\ k + 6 - 1 = k + 5 /\ k + 7 - 1 = k + 6 /\ k + 8 - 1 = k + 7
        /\ top + 1 - 1 = top /\ top + 1 - 2 = top - 1 /\ top + 1 - 3 = top - 2
        /\ top + 1 - 4 = top - 3 /\ top + 1 - 5 = top - 4 /\ top + 1 - 6 = top - 5
        /\ top + 1 - 7 = top - 6 /\ top + 1 - 8 = top - 7
    OBVIOUS
  <1>5. /\ 1 \in 1 .. 8 /\ 2 \in 1 .. 8 /\ 3 \in 1 .. 8 /\ 4 \in 1 .. 8
        /\ 5 \in 1 .. 8 /\ 6 \in 1 .. 8 /\ 7 \in 1 .. 8 /\ 8 \in 1 .. 8
    OBVIOUS
  <1>6. rest[k + 1] = Terms(a1, top - 1) /\ a1 \in SUBSET Nat
    BY <1>1, <1>2, <1>4, <1>5
  <1>7. rest[k + 2] = Terms(a2, top - 2) /\ a2 \in SUBSET Nat
    BY <1>1, <1>2, <1>4, <1>5, <1>6
  <1>8. rest[k + 3] = Terms(a3, top - 3) /\ a3 \in SUBSET Nat
    BY <1>1, <1>2, <1>4, <1>5, <1>7
  <1>9. rest[k + 4] = Terms(a4, top - 4) /\ a4 \in SUBSET Nat
    BY <1>1, <1>2, <1>4, <1>5, <1>8
  <1>10. rest[k + 5] = Terms(a5, top - 5) /\ a5 \in SUBSET Nat
    BY <1>1, <1>3, <1>4, <1>5, <1>9
  <1>11. rest[k + 6] = Terms(a6, top - 6) /\ a6 \in SUBSET Nat
    BY <1>1, <1>3, <1>4, <1>5, <1>10
  <1>12. rest[k + 7] = Terms(a7, top - 7) /\ a7 \in SUBSET Nat
    BY <1>1, <1>3, <1>4, <1>5, <1>11
  <1>13. rest[k + 8] = Terms(a8, top - 8)
    BY <1>1, <1>3, <1>4, <1>5, <1>12
  <1>14. Eight(S) = a8
    BY ONLY <1>2, <1>3 DEF Eight
  <1> QED
    BY ONLY <1>13, <1>14

\* The places of the one bits of bytes, and of those that follow the first n.
Ones(bytes) == {p \in 0 .. 8 * Len(bytes) - 1 : (p % 8) \in Bits[bytes[p \div 8 + 1]]}
Later(bytes, n) == {p \in Nat : p + 8 * n \in Ones(bytes)}

LEMMA LaterStays ==
    \A bytes, n : Later(bytes, n) \in SUBSET Nat
  BY DEF Later

LEMMA PlaceOf ==
    ASSUME NEW n \in Nat, NEW j \in 0 .. 7, NEW p, p = j + 8 * n
    PROVE  p \in Nat /\ p % 8 = j /\ p \div 8 = n
  OBVIOUS

LEMMA UpEightStays ==
    ASSUME NEW B \in SUBSET Nat
    PROVE  UpEight(B) \in SUBSET Nat
  <1>1. PICK a, b, c, d : a = Up(B) /\ b = Up(a) /\ c = Up(b) /\ d = Up(c)
    OBVIOUS
  <1>2. PICK e, f, g, h : e = Up(d) /\ f = Up(e) /\ g = Up(f) /\ h = Up(g)
    OBVIOUS
  <1>3. a \in SUBSET Nat /\ b \in SUBSET Nat /\ c \in SUBSET Nat /\ d \in SUBSET Nat
    BY ONLY <1>1, UpIs, B \in SUBSET Nat
  <1>4. e \in SUBSET Nat /\ f \in SUBSET Nat /\ g \in SUBSET Nat /\ h \in SUBSET Nat
    BY ONLY <1>2, <1>3, UpIs
  <1>5. UpEight(B) = h
    BY ONLY <1>1, <1>2 DEF UpEight
  <1> QED
    BY ONLY <1>4, <1>5

\* The bits after n bytes are those of the next, and behind them the rest.
LEMMA LaterIs ==
    ASSUME NEW bytes \in Seq(Octet), NEW n \in 0 .. Len(bytes) - 1
    PROVE  Later(bytes, n) = SymDiff(Bits[bytes[n + 1]], UpEight(Later(bytes, n + 1)))
  <1>1. PICK L, m, v : L = Len(bytes) /\ m = n + 1 /\ v = bytes[m]
    OBVIOUS
  <1>2. L \in Nat /\ n \in Nat /\ m \in 1 .. L /\ n < L
    BY <1>1
  <1>3. v \in Octet
    BY <1>1, <1>2
  <1>4. PICK now, next, up, B : /\ now = Later(bytes, n) /\ next = Later(bytes, m)
                                /\ up = UpEight(next) /\ B = Bits[v]
    OBVIOUS
  <1>5. now \in SUBSET Nat /\ next \in SUBSET Nat /\ B \in SUBSET (0 .. 7)
    BY <1>3, <1>4, LaterStays, BitsAre
  <1>6. \A j \in Nat : j \in up <=> j >= 8 /\ j - 8 \in next
    BY ONLY <1>4, <1>5, UpEightIs
  <1>7. PICK O : O = Ones(bytes)
    OBVIOUS
  <1>8. /\ \A j \in Nat : j \in now <=> j + 8 * n \in O
        /\ \A j \in Nat : j \in next <=> j + 8 * m \in O
    BY <1>4, <1>7 DEF Later
  <1>9. ASSUME NEW j \in Nat PROVE j \in now <=> (j \in B /\ j \notin up) \/ (j \in up /\ j \notin B)
    <2>1. CASE j < 8
      <3>1. j \in 0 .. 7 /\ j \notin up
        BY <1>6, <2>1
      <3>2. PICK p : p = j + 8 * n
        OBVIOUS
      <3>3. p % 8 = j /\ p \div 8 = n
        BY ONLY <1>2, <3>1, <3>2, PlaceOf
      <3>4. p \in 0 .. 8 * L - 1
        BY ONLY <1>2, <3>1, <3>2
      <3>5. p \in O <=> j \in Bits[bytes[n + 1]]
        BY <1>1, <1>7, <3>3, <3>4 DEF Ones
      <3> QED
        BY <1>1, <1>4, <1>8, <3>1, <3>2, <3>5
    <2>2. CASE ~ (j < 8)
      <3>1. j \notin B
        BY <1>5, <2>2
      <3>2. PICK i : i = j - 8
        OBVIOUS
      <3>3. i \in Nat /\ j >= 8 /\ i + 8 * m = j + 8 * n
        BY ONLY <1>1, <1>2, <2>2, <3>2, j \in Nat
      <3>4. j \in up <=> i \in next
        BY ONLY <1>6, <3>2, <3>3, j \in Nat
      <3>5. i \in next <=> j + 8 * n \in O
        BY ONLY <1>8, <3>3
      <3> QED
        BY ONLY <1>8, <3>1, <3>4, <3>5, j \in Nat
    <2> QED
      BY ONLY <2>1, <2>2
  <1>10. PICK D : D = SymDiff(B, up)
    OBVIOUS
  <1>11. \A j : j \in D <=> (j \in B /\ j \notin up) \/ (j \in up /\ j \notin B)
    BY ONLY <1>10, DiffIs
  <1>12. D \in SUBSET Nat
    <2>1. up \in SUBSET Nat
      BY ONLY <1>4, <1>5, UpEightStays
    <2>2. \A j : j \in B => j \in Nat
      BY ONLY <1>5
    <2> QED
      BY ONLY <1>11, <2>1, <2>2
  <1>13. now = D
    BY ONLY <1>5, <1>9, <1>11, <1>12, SamePlaces
  <1> QED
    BY <1>1, <1>4, <1>10, <1>13

LEMMA LaterEnds ==
    ASSUME NEW bytes \in Seq(Octet)
    PROVE  Later(bytes, Len(bytes)) = {} /\ Later(bytes, 0) = Ones(bytes)
  <1>1. Len(bytes) \in Nat
    OBVIOUS
  <1>2. Ones(bytes) \in SUBSET (0 .. 8 * Len(bytes) - 1)
    BY DEF Ones
  <1>3. \A p \in Nat : p + 8 * Len(bytes) \notin Ones(bytes)
    <2> SUFFICES ASSUME NEW p \in Nat PROVE p + 8 * Len(bytes) \notin Ones(bytes)
      OBVIOUS
    <2>1. ~ (p + 8 * Len(bytes) \in 0 .. 8 * Len(bytes) - 1)
      BY ONLY <1>1, p \in Nat
    <2> QED
      BY <1>2, <2>1
  <1>4. \A p \in Ones(bytes) : p \in Nat /\ p + 8 * 0 = p
    BY <1>1, <1>2
  <1>5. \A p \in Nat : p + 8 * 0 = p
    OBVIOUS
  <1> QED
    BY <1>3, <1>4, <1>5 DEF Later

LEMMA DiffAssociates ==
    \A A, B, C : SymDiff(SymDiff(A, B), C) = SymDiff(A, SymDiff(B, C))
  BY DiffIs

LEMMA DiffIsEither ==
    \A A, B : /\ SymDiff(A, B) = SymDiff(B, A)
             /\ SymDiff(A, {}) = A /\ SymDiff({}, A) = A /\ SymDiff(A, A) = {}
  BY DiffIs

\* The register and the bits still to come are turned together: a byte that is
\* folded in has come near.
LEMMA ByteTurns ==
    ASSUME NEW bytes \in Seq(Octet), NEW crc, Registers(bytes, crc),
           NEW n \in 0 .. Len(bytes) - 1
    PROVE  Eight(SymDiff(crc[n], Later(bytes, n))) = SymDiff(crc[n + 1], Later(bytes, n + 1))
  <1>1. PICK N, m : N = Len(bytes) /\ m = n + 1
    OBVIOUS
  <1>2. N \in Nat /\ n \in 0 .. N /\ m \in 1 .. N /\ m - 1 = n
    BY ONLY <1>1, bytes \in Seq(Octet), n \in 0 .. Len(bytes) - 1
  <1>3. PICK B, rest, up : /\ B = Bits[bytes[m]] /\ rest = Later(bytes, m)
                           /\ up = UpEight(rest)
    OBVIOUS
  <1>4. Later(bytes, n) = SymDiff(B, up)
    BY ONLY <1>1, <1>3, LaterIs, bytes \in Seq(Octet), n \in 0 .. Len(bytes) - 1
  <1>5. PICK A : A = SymDiff(crc[n], B)
    OBVIOUS
  <1>6. SymDiff(crc[n], Later(bytes, n)) = SymDiff(A, up)
    BY ONLY <1>4, <1>5, DiffAssociates
  <1>7. A \in SUBSET Nat
    <2>1. bytes[m] \in Octet
      BY <1>1, <1>2
    <2>2. B \in SUBSET (0 .. 7)
      BY ONLY <1>3, <2>1, BitsAre
    <2>3. crc[n] \in SUBSET (0 .. 15)
      BY <1>1, <1>2 DEF Registers
    <2>4. B \in SUBSET Nat
      BY ONLY <2>2
    <2>5. crc[n] \in SUBSET Nat
      <3>1. \A x \in crc[n] : x \in 0 .. 15
        BY ONLY <2>3
      <3>2. \A x \in crc[n] : x \in Nat
        BY ONLY <3>1
      <3> QED
        BY ONLY <3>2
    <2> QED
      BY ONLY <1>5, <2>4, <2>5, DiffStays
  <1>8. rest \in SUBSET Nat
    BY ONLY <1>3, LaterStays
  <1>9. Eight(SymDiff(A, up)) = SymDiff(Eight(A), rest)
    BY ONLY <1>3, <1>7, <1>8, EightBrings
  <1>10. crc[m] = Eight(A)
    BY <1>1, <1>2, <1>3, <1>5 DEF Registers
  <1> QED
    BY ONLY <1>1, <1>3, <1>6, <1>9, <1>10

\* What is left after each step of a division by the generator.
Division(rest, terms, degree, N) ==
    /\ rest[0] = terms
    /\ \A k \in 1 .. N : rest[k] = Divide(rest[k - 1], degree - k)
    /\ Remainder(terms, degree) = rest[N]

LEMMA DivisionIs ==
    ASSUME NEW terms \in SUBSET Int, NEW degree, NEW N \in Nat, degree = N + 16
    PROVE  \E rest : Division(rest, terms, degree, N)
  BY RemainderIs DEF Division

\* What the loop leaves is what the division leaves, whatever the bytes.
LEMMA LoopDivides ==
    ASSUME NEW body \in Seq(Octet)
    PROVE  Terms(CalcCrc16(body), 15) = Remainder(Polynomial(body), 8 * Len(body) + 16)
  <1>1. PICK N, M, O, terms : /\ N = Len(body) /\ M = 8 * N /\ O = Ones(body)
                              /\ terms = Polynomial(body)
    OBVIOUS
  <1>2. N \in Nat /\ M \in Nat
    BY ONLY <1>1, body \in Seq(Octet)
  <1>3. PICK crc : Registers(body, crc)
    BY RegistersAre
  <1>4. PICK L : L = [n \in 0 .. N |-> Later(body, n)]
    OBVIOUS
  <1>5. \A n \in 0 .. N : L[n] \in SUBSET Nat
    BY ONLY <1>4, LaterStays
  <1>6. L[N] = {} /\ L[0] = O
    BY <1>1, <1>2, <1>4, LaterEnds
  <1>7. \A n \in 0 .. N : crc[n] \in SUBSET Nat
    <2>1. \A n \in 0 .. N : crc[n] \in SUBSET (0 .. 15)
      BY <1>1, <1>3 DEF Registers
    <2> QED
      BY <2>1
  <1>8. ASSUME NEW n \in 0 .. N, n < N
        PROVE  Eight(SymDiff(crc[n], L[n])) = SymDiff(crc[n + 1], L[n + 1])
    <2>1. n \in 0 .. Len(body) - 1 /\ n + 1 \in 0 .. N
      BY ONLY <1>1, <1>2, <1>8
    <2>2. Eight(SymDiff(crc[n], Later(body, n))) = SymDiff(crc[n + 1], Later(body, n + 1))
      BY ONLY <1>3, <2>1, ByteTurns, body \in Seq(Octet)
    <2> QED
      BY ONLY <1>4, <1>8, <2>1, <2>2
  <1>9. PICK S : S = [n \in 0 .. N |-> SymDiff(crc[n], L[n])]
    OBVIOUS
  <1>10. \A n \in 0 .. N : S[n] \in SUBSET Nat
    BY ONLY <1>5, <1>7, <1>9, DiffStays
  <1>11. \A n \in 0 .. N : n < N => Eight(S[n]) = S[n + 1]
    <2> SUFFICES ASSUME NEW n \in 0 .. N, n < N PROVE Eight(S[n]) = S[n + 1]
      OBVIOUS
    <2>1. n + 1 \in 0 .. N
      BY ONLY <1>2, n \in 0 .. N, n < N
    <2>2. S[n] = SymDiff(crc[n], L[n]) /\ S[n + 1] = SymDiff(crc[n + 1], L[n + 1])
      BY ONLY <1>9, <2>1, n \in 0 .. N
    <2> QED
      BY ONLY <1>8, <2>2, n \in 0 .. N, n < N
  <1>12. terms = Terms(S[0], M + 15)
    <2>1. Polynomial(body) = Terms(SymDiff(Ones(body), 0 .. 15), 8 * Len(body) + 15)
      <3>1. PICK X, t : X = SymDiff(Ones(body), 0 .. 15) /\ t = 8 * Len(body) + 15
        OBVIOUS
      <3>2. \A e : e \in Polynomial(body) <=> \E p \in X : e = t - p
        <4>1. Polynomial(body) = {8 * Len(body) + 15 - p : p \in SymDiff(Ones(body), 0 .. 15)}
          BY DEF Polynomial, Ones
        <4>2. X \in SUBSET Nat
          <5>1. Ones(body) \in SUBSET Nat /\ 0 .. 15 \in SUBSET Nat
            BY <1>2 DEF Ones
          <5> QED
            BY ONLY <3>1, <5>1, DiffStays
        <4>3. \A p \in X : 8 * Len(body) + 15 - p = t - p
          BY ONLY <1>1, <1>2, <3>1, <4>2
        <4> QED
          BY ONLY <3>1, <4>1, <4>3
      <3>3. \A e : e \in Terms(X, t) <=> \E p \in X : e = t - p
        BY ONLY DEF Terms
      <3> QED
        BY ONLY <3>1, <3>2, <3>3
    <2>2. crc[0] = 0 .. 15
      BY <1>3 DEF Registers
    <2>3. S[0] = SymDiff(0 .. 15, O)
      <3>1. 0 \in 0 .. N
        BY ONLY <1>2
      <3> QED
        BY ONLY <1>6, <1>9, <2>2, <3>1
    <2>4. SymDiff(0 .. 15, O) = SymDiff(O, 0 .. 15)
      BY ONLY DiffIsEither
    <2>5. terms = Terms(SymDiff(O, 0 .. 15), M + 15)
      BY ONLY <1>1, <2>1
    <2> QED
      BY ONLY <2>3, <2>4, <2>5
  <1>13. PICK rest : /\ rest[0] = terms
                     /\ \A k \in 1 .. M : rest[k] = Divide(rest[k - 1], (M + 16) - k)
                     /\ Remainder(terms, M + 16) = rest[M]
    <2>1. PICK d : d = M + 16
      OBVIOUS
    <2>2. terms \in SUBSET Int
      <3>1. 0 \in 0 .. N /\ M + 15 \in Int
        BY ONLY <1>2
      <3>2. S[0] \in SUBSET Nat
        BY ONLY <1>10, <3>1
      <3>3. PICK first, t : first = S[0] /\ t = M + 15
        OBVIOUS
      <3>4. Terms(first, t) \in SUBSET Int
        <4>1. first \in SUBSET Nat /\ t \in Int
          BY ONLY <3>1, <3>2, <3>3
        <4> QED
          BY ONLY <4>1, TermsAre
      <3> QED
        BY ONLY <1>12, <3>3, <3>4
    <2>3. PICK rest : Division(rest, terms, d, M)
      BY ONLY <1>2, <2>1, <2>2, DivisionIs
    <2> QED
      BY ONLY <2>1, <2>3 DEF Division
  <1>14. PICK Good : Good = {n \in 0 .. N : rest[8 * n] = Terms(S[n], M + 15 - 8 * n)}
    OBVIOUS
  <1>15. 0 \in Good
    <2>1. 8 * 0 = 0 /\ M + 15 - 8 * 0 = M + 15 /\ 0 \in 0 .. N
      BY ONLY <1>2
    <2> QED
      BY ONLY <1>12, <1>13, <1>14, <2>1
  <1>16. \A n \in 0 .. N : n \in Good /\ n < N => n + 1 \in Good
    <2> SUFFICES ASSUME NEW n \in 0 .. N, n \in Good, n < N PROVE n + 1 \in Good
      OBVIOUS
    <2>1. PICK k, top : k = 8 * n /\ top = M + 15 - k
      OBVIOUS
    <2>2. /\ k \in Int /\ top \in Int /\ 8 * (n + 1) = k + 8 /\ M + 15 - (k + 8) = top - 8
          /\ k >= 0 /\ k + 8 <= M /\ n + 1 \in 0 .. N
      BY ONLY <1>1, <1>2, <2>1, n \in 0 .. N, n < N
    <2>3. rest[k] = Terms(S[n], top)
      BY ONLY <1>14, <2>1, n \in Good
    <2>4. \A i \in 1 .. 8 : rest[k + i] = Divide(rest[k + i - 1], top + 1 - i)
      <3> SUFFICES ASSUME NEW i \in 1 .. 8
                   PROVE  rest[k + i] = Divide(rest[k + i - 1], top + 1 - i)
        OBVIOUS
      <3>1. PICK j : j = k + i
        OBVIOUS
      <3>2. j \in 1 .. M /\ (M + 16) - j = top + 1 - i /\ j - 1 = k + i - 1
        BY ONLY <1>2, <2>1, <2>2, <3>1, i \in 1 .. 8
      <3>3. rest[j] = Divide(rest[j - 1], (M + 16) - j)
        BY ONLY <1>13, <3>2
      <3> QED
        BY ONLY <3>1, <3>2, <3>3
    <2>5. S[n] \in SUBSET Nat
      BY ONLY <1>10, n \in 0 .. N
    <2>6. rest[k + 8] = Terms(Eight(S[n]), top - 8)
      BY ONLY <2>2, <2>3, <2>4, <2>5, EightDivides
    <2>7. Eight(S[n]) = S[n + 1]
      BY ONLY <1>11, n \in 0 .. N, n < N
    <2> QED
      BY ONLY <1>14, <2>2, <2>6, <2>7
  <1>17. N \in Good
    <2>1. \A n \in 0 .. N : n \in Good
      BY ONLY <1>2, <1>15, <1>16, CountsUp
    <2>2. N \in 0 .. N
      BY ONLY <1>2
    <2> QED
      BY ONLY <2>1, <2>2
  <1>18. rest[M] = Terms(S[N], 15)
    <2>1. M + 15 - 8 * N = 15 /\ N \in 0 .. N
      BY ONLY <1>1, <1>2
    <2> QED
      BY ONLY <1>1, <1>14, <1>17, <2>1
  <1>19. S[N] = CalcCrc16(body)
    <2>1. crc[N] = CalcCrc16(body)
      BY <1>1, <1>3 DEF Registers
    <2>2. S[N] = SymDiff(crc[N], L[N]) /\ SymDiff(crc[N], {}) = crc[N]
      <3>1. N \in 0 .. N
        BY ONLY <1>2
      <3>2. SymDiff(crc[N], {}) = crc[N]
        BY ONLY DiffIsEither
      <3> QED
        BY ONLY <1>9, <3>1, <3>2
    <2> QED
      BY ONLY <1>6, <2>1, <2>2
  <1> QED
    BY <1>1, <1>13, <1>18, <1>19

\* calc_crc16: the checksum of every frame that is sent is the remainder of the
\* division the serial line guide describes, of frames of any length.
THEOREM ChecksumIsRemainder == LineSpec => []ChecksumIsTheRemainder
  <1>1. LineInv => ChecksumIsTheRemainder
    <2> SUFFICES ASSUME LineInv, stage = "sent"
                 PROVE  {15 - k : k \in CalcCrc16(FirstBytes(line))}
                          = Remainder(Polynomial(FirstBytes(line)), 8 * Len(FirstBytes(line)) + 16)
      BY DEF ChecksumIsTheRemainder
    <2>1. FirstBytes(line) \in Seq(Octet)
      <3>1. PICK class : Sends(class, sent)
        BY PacketsAre DEF LineInv
      <3>2. PICK bytes, frame : bytes = Serialize(sent.pdu) /\ frame = SerializeRtu(sent)
        OBVIOUS
      <3>3. RtuPacks(sent) /\ line = frame
        BY <3>2 DEF LineInv, OnTheLine, Arrived
      <3>4. InFrame(sent.slave_id, bytes, frame)
        BY ONLY <3>1, <3>2, <3>3, FrameOfPacket
      <3> QED
        BY <3>3, <3>4 DEF InFrame
    <2>2. Terms(CalcCrc16(FirstBytes(line)), 15)
            = Remainder(Polynomial(FirstBytes(line)), 8 * Len(FirstBytes(line)) + 16)
      BY <2>1, LoopDivides
    <2> QED
      BY <2>2 DEF Terms
  <1> QED
    BY <1>1, LineIsAsWritten, PTL

-----------------------------------------------------------------------------
(* Flipped bits within sixteen in a row.                                   *)

LEMMA BitsOfByte ==
    ASSUME NEW S \in SUBSET (0 .. 7)
    PROVE  Bits[ByteOf(S)] = S
  <1>1. PICK n : n = ByteOf(S)
    OBVIOUS
  <1>2. n \in 0 .. 255
    BY <1>1, ByteIs DEF Octet
  <1>3. PICK b \in [0 .. 7 -> {0, 1}] : \A k \in 0 .. 7 : b[k] = 1 <=> k \in S
    <2>1. PICK b : b = [k \in 0 .. 7 |-> IF k \in S THEN 1 ELSE 0]
      OBVIOUS
    <2> QED
      BY <2>1
  <1>4. PICK b0, b1, b2, b3, b4, b5, b6, b7 :
           /\ b0 = b[0] /\ b1 = b[1] /\ b2 = b[2] /\ b3 = b[3]
           /\ b4 = b[4] /\ b5 = b[5] /\ b6 = b[6] /\ b7 = b[7]
    OBVIOUS
  <1>5. /\ b0 \in {0, 1} /\ b1 \in {0, 1} /\ b2 \in {0, 1} /\ b3 \in {0, 1}
        /\ b4 \in {0, 1} /\ b5 \in {0, 1} /\ b6 \in {0, 1} /\ b7 \in {0, 1}
        /\ b0 = 1 <=> 0 \in S
        /\ b1 = 1 <=> 1 \in S
        /\ b2 = 1 <=> 2 \in S
        /\ b3 = 1 <=> 3 \in S
        /\ b4 = 1 <=> 4 \in S
        /\ b5 = 1 <=> 5 \in S
        /\ b6 = 1 <=> 6 \in S
        /\ b7 = 1 <=> 7 \in S
    BY ONLY <1>3, <1>4
  <1>6. /\ 2 ^ 0 = 1 /\ 2 ^ 1 = 2 /\ 2 ^ 2 = 4 /\ 2 ^ 3 = 8
        /\ 2 ^ 4 = 16 /\ 2 ^ 5 = 32 /\ 2 ^ 6 = 64 /\ 2 ^ 7 = 128
    OBVIOUS
  <1>7. n = b0 + 2 * b1 + 4 * b2 + 8 * b3 + 16 * b4 + 32 * b5 + 64 * b6 + 128 * b7
    <2> DEFINE value(k) == IF k \in S THEN 2 ^ k ELSE 0
    <2>1. n = value(0) + value(1) + value(2) + value(3)
                + value(4) + value(5) + value(6) + value(7)
      BY <1>1 DEF ByteOf
    <2>2. /\ value(0) = b0 /\ value(1) = 2 * b1 /\ value(2) = 4 * b2 /\ value(3) = 8 * b3
          /\ value(4) = 16 * b4 /\ value(5) = 32 * b5 /\ value(6) = 64 * b6
          /\ value(7) = 128 * b7
      BY ONLY <1>5, <1>6
    <2> HIDE DEF value
    <2> QED
      BY ONLY <1>5, <2>1, <2>2
  <1>8. PICK q1, q2, q3, q4, q5, q6, q7 :
           /\ q1 = b1 + 2 * b2 + 4 * b3 + 8 * b4 + 16 * b5 + 32 * b6 + 64 * b7
           /\ q2 = b2 + 2 * b3 + 4 * b4 + 8 * b5 + 16 * b6 + 32 * b7
           /\ q3 = b3 + 2 * b4 + 4 * b5 + 8 * b6 + 16 * b7
           /\ q4 = b4 + 2 * b5 + 4 * b6 + 8 * b7
           /\ q5 = b5 + 2 * b6 + 4 * b7
           /\ q6 = b6 + 2 * b7
           /\ q7 = b7
    OBVIOUS
  <1>9. /\ n \div 1 = n /\ n \div 2 = q1 /\ n \div 4 = q2 /\ n \div 8 = q3
        /\ n \div 16 = q4 /\ n \div 32 = q5 /\ n \div 64 = q6 /\ n \div 128 = q7
    BY ONLY <1>5, <1>7, <1>8
  <1>10. /\ n % 2 = b0 /\ q1 % 2 = b1 /\ q2 % 2 = b2 /\ q3 % 2 = b3
         /\ q4 % 2 = b4 /\ q5 % 2 = b5 /\ q6 % 2 = b6 /\ q7 % 2 = b7
    BY ONLY <1>5, <1>7, <1>8
  <1>11. \A k \in 0 .. 7 : (n \div 2 ^ k) % 2 = 1 <=> k \in S
    <2> DEFINE Agrees(k) == (n \div 2 ^ k) % 2 = 1 <=> k \in S
    <2>1. Agrees(0)
      BY ONLY <1>5, <1>6, <1>9, <1>10
    <2>2. Agrees(1)
      BY ONLY <1>5, <1>6, <1>9, <1>10
    <2>3. Agrees(2)
      BY ONLY <1>5, <1>6, <1>9, <1>10
    <2>4. Agrees(3)
      BY ONLY <1>5, <1>6, <1>9, <1>10
    <2>5. Agrees(4)
      BY ONLY <1>5, <1>6, <1>9, <1>10
    <2>6. Agrees(5)
      BY ONLY <1>5, <1>6, <1>9, <1>10
    <2>7. Agrees(6)
      BY ONLY <1>5, <1>6, <1>9, <1>10
    <2>8. Agrees(7)
      BY ONLY <1>5, <1>6, <1>9, <1>10
    <2> HIDE DEF Agrees
    <2>9. \A k \in 0 .. 7 : Agrees(k)
      <3>1. \A k \in 0 .. 7 : k \in {0, 1, 2, 3, 4, 5, 6, 7}
        OBVIOUS
      <3> QED
        BY ONLY <2>1, <2>2, <2>3, <2>4, <2>5, <2>6, <2>7, <2>8, <3>1
    <2> QED
      BY ONLY <2>9 DEF Agrees
  <1>12. Bits[n] = {k \in 0 .. 7 : (n \div 2 ^ k) % 2 = 1}
    BY ONLY <1>2 DEF Bits
  <1>13. Bits[n] = S
    BY ONLY <1>11, <1>12, S \in SUBSET (0 .. 7)
  <1> QED
    BY ONLY <1>1, <1>13

\* The turning of a register is linear, and loses nothing that is in it.
LEMMA ShiftAdds ==
    ASSUME NEW A \in SUBSET Nat, NEW B \in SUBSET Nat
    PROVE  Shift(SymDiff(A, B)) = SymDiff(Shift(A), Shift(B))
  <1>1. PICK C, D, a, b : /\ C = SymDiff(A, B) /\ a = Shift(A) /\ b = Shift(B)
                          /\ D = SymDiff(a, b)
    OBVIOUS
  <1>2. a \in SUBSET Nat /\ b \in SUBSET Nat
    BY ONLY <1>1, ShiftIs, A \in SUBSET Nat, B \in SUBSET Nat
  <1>3. C \in SUBSET Nat /\ D \in SUBSET Nat
    BY ONLY <1>1, <1>2, DiffStays, A \in SUBSET Nat, B \in SUBSET Nat
  <1>4. Shift(C) \in SUBSET Nat
    BY ONLY <1>3, ShiftIs
  <1>5. ASSUME NEW j \in Nat PROVE j \in Shift(C) <=> j \in D
    <2>1. j \in Shift(C) <=> \/ j + 1 \in C /\ ~ Turns(C, j)
                             \/ j + 1 \notin C /\ Turns(C, j)
      BY ONLY <1>3, ShiftIs, j \in Nat
    <2>2. j \in a <=> \/ j + 1 \in A /\ ~ Turns(A, j)
                      \/ j + 1 \notin A /\ Turns(A, j)
      BY ONLY <1>1, ShiftIs, j \in Nat, A \in SUBSET Nat
    <2>3. j \in b <=> \/ j + 1 \in B /\ ~ Turns(B, j)
                      \/ j + 1 \notin B /\ Turns(B, j)
      BY ONLY <1>1, ShiftIs, j \in Nat, B \in SUBSET Nat
    <2>4. \A x : x \in C <=> (x \in A /\ x \notin B) \/ (x \in B /\ x \notin A)
      BY ONLY <1>1, DiffIs
    <2>5. j \in D <=> (j \in a /\ j \notin b) \/ (j \in b /\ j \notin a)
      BY ONLY <1>1, DiffIs
    <2>6. /\ j + 1 \in C <=> \/ j + 1 \in A /\ j + 1 \notin B
                             \/ j + 1 \in B /\ j + 1 \notin A
          /\ Turns(C, j) <=> \/ Turns(A, j) /\ ~ Turns(B, j)
                             \/ Turns(B, j) /\ ~ Turns(A, j)
      BY ONLY <2>4 DEF Turns
    <2> QED
      BY ONLY <2>1, <2>2, <2>3, <2>5, <2>6
  <1>6. Shift(C) = D
    BY ONLY <1>3, <1>4, <1>5, SamePlaces
  <1> QED
    BY ONLY <1>1, <1>6

LEMMA ShiftKeeps ==
    ASSUME NEW S \in SUBSET (0 .. 15), S # {}
    PROVE  Shift(S) # {}
  <1>1. S \in SUBSET Nat
    OBVIOUS
  <1>2. CASE 0 \in S
    <2>1. 15 + 1 \notin S /\ Turns(S, 15)
      BY <1>2 DEF Turns, Generator
    <2> QED
      BY <1>1, <2>1, ShiftIs
  <1>3. CASE 0 \notin S
    <2>1. PICK k \in S : TRUE
      OBVIOUS
    <2>2. PICK j : j = k - 1
      OBVIOUS
    <2>3. j \in Nat /\ j + 1 \in S /\ ~ Turns(S, j)
      BY <1>3, <2>1, <2>2 DEF Turns
    <2> QED
      BY <1>1, <2>3, ShiftIs
  <1> QED
    BY <1>2, <1>3

LEMMA ShiftNothing == Shift({}) = {} /\ Eight({}) = {}
  <1>1. Shift({}) = {}
    BY DEF Shift
  <1> QED
    BY <1>1 DEF Eight

\* A register, turned time after time.
Turned(f, first, N) ==
    /\ \A k \in 0 .. N : f[k] \in SUBSET Nat
    /\ f[0] = first /\ \A k \in 0 .. N : k < N => f[k + 1] = Shift(f[k])

LEMMA TurnedExists ==
    ASSUME NEW first \in SUBSET Nat, NEW N \in Nat
    PROVE  \E f : Turned(f, first, N)
  <1>1. PICK R : R = SUBSET Nat
    OBVIOUS
  <1>2. PICK rule : rule = [k \in 1 .. N |-> [r \in R |-> Shift(r)]]
    OBVIOUS
  <1>3. \A r \in R : Shift(r) \in R
    BY ONLY <1>1, ShiftIs
  <1>4. rule \in [1 .. N -> [R -> R]]
    BY ONLY <1>2, <1>3
  <1>5. PICK f \in [0 .. N -> R] : Steps(f, first, rule, N)
    BY ONLY <1>1, <1>4, StepsExist, N \in Nat, first \in SUBSET Nat
  <1>6. ASSUME NEW k \in 0 .. N, k < N PROVE f[k + 1] = Shift(f[k])
    <2>1. PICK m : m = k + 1
      OBVIOUS
    <2>2. m \in 1 .. N /\ m - 1 = k
      BY ONLY <1>6, <2>1, N \in Nat
    <2>3. f[m] = rule[m][f[k]] /\ f[k] \in R
      BY <1>5, <2>2 DEF Steps
    <2> QED
      BY ONLY <1>2, <2>1, <2>2, <2>3
  <1>7. f[0] = first /\ \A k \in 0 .. N : f[k] \in SUBSET Nat
    BY <1>1, <1>5 DEF Steps
  <1> QED
    BY <1>6, <1>7 DEF Turned

LEMMA TurnedAdds ==
    ASSUME NEW N \in Nat, NEW A, NEW B, NEW f, NEW g, NEW h,
           Turned(f, A, N), Turned(g, B, N), Turned(h, SymDiff(A, B), N)
    PROVE  h[N] = SymDiff(f[N], g[N])
  <1>1. PICK S : S = {k \in 0 .. N : h[k] = SymDiff(f[k], g[k])}
    OBVIOUS
  <1>2. 0 \in S
    BY <1>1 DEF Turned
  <1>3. ASSUME NEW k \in 0 .. N, k \in S, k < N PROVE k + 1 \in S
    <2>1. k + 1 \in 0 .. N
      BY ONLY <1>3, N \in Nat
    <2>2. /\ f[k + 1] = Shift(f[k]) /\ g[k + 1] = Shift(g[k]) /\ h[k + 1] = Shift(h[k])
          /\ f[k] \in SUBSET Nat /\ g[k] \in SUBSET Nat
      BY <1>3 DEF Turned
    <2>3. h[k] = SymDiff(f[k], g[k])
      BY ONLY <1>1, <1>3
    <2>4. Shift(SymDiff(f[k], g[k])) = SymDiff(Shift(f[k]), Shift(g[k]))
      BY ONLY <2>2, ShiftAdds
    <2> QED
      BY ONLY <1>1, <2>1, <2>2, <2>3, <2>4
  <1>4. \A k \in 0 .. N : k \in S
    <2>1. \A k \in 0 .. N : k \in S /\ k < N => k + 1 \in S
      BY <1>3
    <2> QED
      BY ONLY <1>2, <2>1, CountsUp, N \in Nat
  <1>5. N \in 0 .. N
    OBVIOUS
  <1> QED
    BY ONLY <1>1, <1>4, <1>5

\* A burst: it comes near, and then what is in the register never is nothing.
LEMMA BurstStays ==
    ASSUME NEW N \in Nat, NEW P, P \subseteq 0 .. N - 1, P # {},
           \A p, q \in P : p - q <= 15,
           NEW h, Turned(h, P, N)
    PROVE  h[N] # {}
  <1>1. P \in SUBSET Nat
    OBVIOUS
  <1>2. PICK m \in P : \A p \in P : m <= p
    BY ONLY <1>1, LeastNumber, P # {}
  <1>3. m \in Nat /\ m < N /\ \A p \in P : p \in Nat /\ m <= p /\ p - m <= 15
    BY <1>1, <1>2
  <1>4. PICK S : S = {k \in 0 .. N : /\ k <= m => \A j \in Nat : j \in h[k] <=> j + k \in P
                                     /\ k >= m => h[k] \in SUBSET (0 .. 15) /\ h[k] # {}}
    OBVIOUS
  <1>5. ASSUME NEW H \in SUBSET Nat, \A j \in Nat : j \in H <=> j + m \in P
        PROVE  H \in SUBSET (0 .. 15) /\ H # {}
    <2>1. 0 \in H
      <3>1. 0 \in Nat /\ 0 + m = m
        BY ONLY <1>3
      <3> QED
        BY ONLY <1>2, <1>5, <3>1
    <2>2. ASSUME NEW j \in H PROVE j \in 0 .. 15
      <3>1. j \in Nat /\ j + m \in P
        BY ONLY <1>5, <2>2
      <3>2. (j + m) - m <= 15
        BY ONLY <1>3, <3>1
      <3> QED
        BY ONLY <1>3, <3>1, <3>2
    <2> QED
      BY ONLY <2>1, <2>2
  <1>6. 0 \in S
    <2>1. h[0] = P /\ P \in SUBSET Nat
      BY <1>1 DEF Turned
    <2>2. \A j \in Nat : j \in P <=> j + 0 \in P
      OBVIOUS
    <2>3. 0 >= m => P \in SUBSET (0 .. 15) /\ P # {}
      <3>1. 0 >= m => m = 0
        BY ONLY <1>3
      <3> QED
        BY ONLY <1>5, <2>1, <2>2, <3>1
    <2>4. 0 \in 0 .. N
      OBVIOUS
    <2> QED
      BY ONLY <1>4, <2>1, <2>2, <2>3, <2>4
  <1>7. ASSUME NEW k \in 0 .. N, k \in S, k < N PROVE k + 1 \in S
    <2>1. k + 1 \in 0 .. N /\ k \in Nat
      BY ONLY <1>7, N \in Nat
    <2>2. h[k] \in SUBSET Nat /\ h[k + 1] = Shift(h[k])
      BY <1>7 DEF Turned
    <2>3. CASE k < m
      <3>1. \A j \in Nat : j \in h[k] <=> j + k \in P
        BY ONLY <1>3, <1>4, <1>7, <2>1, <2>3
      <3>2. 0 \notin h[k]
        <4>1. 0 + k = k /\ k \notin P
          BY ONLY <1>3, <2>1, <2>3
        <4> QED
          BY ONLY <3>1, <4>1
      <3>3. ASSUME NEW j \in Nat PROVE j \in h[k + 1] <=> j + (k + 1) \in P
        <4>1. j \in h[k + 1] <=> j + 1 \in h[k]
          BY <2>2, <3>2, ShiftIs DEF Turns
        <4>2. j + 1 \in Nat /\ (j + 1) + k = j + (k + 1)
          BY ONLY <2>1, j \in Nat
        <4> QED
          BY ONLY <3>1, <4>1, <4>2
      <3>4. h[k + 1] \in SUBSET Nat
        BY ONLY <2>2, ShiftIs
      <3>5. k + 1 >= m => h[k + 1] \in SUBSET (0 .. 15) /\ h[k + 1] # {}
        <4>1. k + 1 >= m => k + 1 = m
          BY ONLY <1>3, <2>1, <2>3
        <4> QED
          BY ONLY <1>5, <3>3, <3>4, <4>1
      <3> QED
        BY ONLY <1>4, <2>1, <3>3, <3>5
    <2>4. CASE ~ (k < m)
      <3>1. k >= m /\ ~ (k + 1 <= m)
        BY ONLY <1>3, <2>1, <2>4
      <3>2. h[k] \in SUBSET (0 .. 15) /\ h[k] # {}
        BY ONLY <1>4, <1>7, <3>1
      <3>3. h[k + 1] \in SUBSET (0 .. 15) /\ h[k + 1] # {}
        BY ONLY <2>2, <3>2, ShiftStays, ShiftKeeps
      <3> QED
        BY ONLY <1>4, <2>1, <3>1, <3>3
    <2> QED
      BY ONLY <2>3, <2>4
  <1>8. \A k \in 0 .. N : k \in S
    <2>1. \A k \in 0 .. N : k \in S /\ k < N => k + 1 \in S
      BY <1>7
    <2> QED
      BY ONLY <1>6, <2>1, CountsUp, N \in Nat
  <1>9. N \in 0 .. N /\ N >= m
    BY ONLY <1>3, N \in Nat
  <1> QED
    BY ONLY <1>4, <1>8, <1>9

LEMMA EightTurns ==
    ASSUME NEW f, NEW first, NEW N \in Nat, Turned(f, first, N),
           NEW k \in Nat, k + 8 <= N
    PROVE  f[k + 8] = Eight(f[k])
  <1>1. /\ k \in 0 .. N /\ k + 1 \in 0 .. N /\ k + 2 \in 0 .. N /\ k + 3 \in 0 .. N
        /\ k + 4 \in 0 .. N /\ k + 5 \in 0 .. N /\ k + 6 \in 0 .. N /\ k + 7 \in 0 .. N
        /\ k < N /\ k + 1 < N /\ k + 2 < N /\ k + 3 < N
        /\ k + 4 < N /\ k + 5 < N /\ k + 6 < N /\ k + 7 < N
        /\ (k + 1) + 1 = k + 2 /\ (k + 2) + 1 = k + 3 /\ (k + 3) + 1 = k + 4
        /\ (k + 4) + 1 = k + 5 /\ (k + 5) + 1 = k + 6 /\ (k + 6) + 1 = k + 7
        /\ (k + 7) + 1 = k + 8
    OBVIOUS
  <1>2. \A n \in 0 .. N : n < N => f[n + 1] = Shift(f[n])
    BY DEF Turned
  <1>3. f[k + 1] = Shift(f[k]) /\ f[k + 2] = Shift(f[k + 1])
    BY ONLY <1>1, <1>2
  <1>4. f[k + 3] = Shift(f[k + 2]) /\ f[k + 4] = Shift(f[k + 3])
    BY ONLY <1>1, <1>2
  <1>5. f[k + 5] = Shift(f[k + 4]) /\ f[k + 6] = Shift(f[k + 5])
    BY ONLY <1>1, <1>2
  <1>6. f[k + 7] = Shift(f[k + 6]) /\ f[k + 8] = Shift(f[k + 7])
    BY ONLY <1>1, <1>2
  <1> QED
    BY ONLY <1>3, <1>4, <1>5, <1>6 DEF Eight

\* The register after some of the bytes is that of a frame of only those.
LEMMA RegistersOfFirst ==
    ASSUME NEW stream \in Seq(Octet), NEW first \in Seq(Octet), NEW crc, NEW early,
           Registers(stream, crc), Registers(first, early),
           Len(first) <= Len(stream), \A n \in 1 .. Len(first) : first[n] = stream[n]
    PROVE  crc[Len(first)] = CalcCrc16(first)
  <1>1. PICK N : N = Len(first)
    OBVIOUS
  <1>2. N \in Nat /\ Len(stream) \in Nat /\ N <= Len(stream)
    BY <1>1
  <1>3. PICK S : S = {n \in 0 .. N : crc[n] = early[n]}
    OBVIOUS
  <1>4. 0 \in S
    <2>1. crc[0] = 0 .. 15 /\ early[0] = 0 .. 15
      BY DEF Registers
    <2>2. 0 \in 0 .. N
      BY ONLY <1>2
    <2> QED
      BY ONLY <1>3, <2>1, <2>2
  <1>5. ASSUME NEW n \in 0 .. N, n \in S, n < N PROVE n + 1 \in S
    <2>1. PICK m : m = n + 1
      OBVIOUS
    <2>2. m \in 0 .. N /\ m \in 1 .. N /\ m \in 1 .. Len(stream) /\ m - 1 = n
      BY ONLY <1>2, <1>5, <2>1
    <2>3. /\ crc[m] = Eight(SymDiff(crc[n], Bits[stream[m]]))
          /\ early[m] = Eight(SymDiff(early[n], Bits[first[m]]))
          /\ first[m] = stream[m]
      BY <1>1, <2>2 DEF Registers
    <2>4. crc[n] = early[n]
      BY ONLY <1>3, <1>5
    <2> QED
      BY ONLY <1>3, <2>1, <2>2, <2>3, <2>4
  <1>6. \A n \in 0 .. N : n \in S
    <2>1. \A n \in 0 .. N : n \in S /\ n < N => n + 1 \in S
      BY <1>5
    <2> QED
      BY ONLY <1>2, <1>4, <2>1, CountsUp
  <1>7. crc[N] = early[N]
    BY ONLY <1>2, <1>3, <1>6
  <1>8. early[N] = CalcCrc16(first)
    BY <1>1 DEF Registers
  <1> QED
    BY ONLY <1>1, <1>7, <1>8

\* The bits of a frame behind the register at its start.
Whole(frame) == SymDiff(0 .. 15, Ones(frame))

LEMMA WholeIs ==
    ASSUME NEW frame \in Seq(Octet)
    PROVE  Whole(frame) \in SUBSET Nat
  <1>1. Ones(frame) \in SUBSET Nat /\ 0 .. 15 \in SUBSET Nat
    BY DEF Ones
  <1> QED
    BY ONLY <1>1, DiffStays DEF Whole

\* Turned to its end, a frame whose checksum agrees leaves nothing.
LEMMA ValidEnds ==
    ASSUME NEW frame \in Seq(Octet), ValidateCrc(frame),
           NEW N, N = 8 * Len(frame), NEW f, Turned(f, Whole(frame), N)
    PROVE  f[N] = {}
  <1>1. PICK L, body, n : L = Len(frame) /\ body = FirstBytes(frame) /\ n = L - 2
    OBVIOUS
  <1>2. L \in Nat /\ n \in Nat /\ L = n + 2 /\ n + 1 \in 1 .. L /\ n + 2 \in 1 .. L /\ N \in Nat
    BY <1>1 DEF ValidateCrc, CrcSize
  <1>3. body = SubSeq(frame, 1, n)
    BY <1>1 DEF FirstBytes, CrcSize
  <1>4. body \in Seq(Octet) /\ Len(body) = n /\ \A i \in 1 .. n : body[i] = frame[i]
    BY ONLY <1>1, <1>2, <1>3, frame \in Seq(Octet)
  <1>5. PICK crc : Registers(frame, crc)
    BY ONLY RegistersAre, frame \in Seq(Octet)
  <1>6. PICK early : Registers(body, early)
    BY ONLY <1>4, RegistersAre
  <1>7. PICK R : R = CalcCrc16(body)
    OBVIOUS
  <1>8. crc[n] = R
    <2>1. Len(body) <= Len(frame) /\ \A i \in 1 .. Len(body) : body[i] = frame[i]
      BY ONLY <1>1, <1>2, <1>4
    <2>2. crc[Len(body)] = CalcCrc16(body)
      BY ONLY <1>4, <1>5, <1>6, <2>1, RegistersOfFirst, frame \in Seq(Octet)
    <2> QED
      BY ONLY <1>4, <1>7, <2>2
  <1>9. PICK low, high : low = R \cap 0 .. 7 /\ high = {k - 8 : k \in R \ 0 .. 7}
    OBVIOUS
  <1>10. R \in SUBSET (0 .. 15)
    <2>1. n \in 0 .. Len(frame)
      BY ONLY <1>1, <1>2
    <2> QED
      BY ONLY <1>5, <1>8, <2>1 DEF Registers
  <1>11. low \in SUBSET (0 .. 7) /\ high \in SUBSET (0 .. 7)
    BY ONLY <1>9, <1>10
  <1>12. frame[n + 1] = ByteOf(low) /\ frame[n + 2] = ByteOf(high)
    <2>1. PICK s : s = LastBytes(frame)
      OBVIOUS
    <2>2. s = SubSeq(frame, n + 1, L)
      <3>1. L - 2 + 1 = n + 1
        BY ONLY <1>1, <1>2
      <3> QED
        BY <1>1, <2>1, <3>1 DEF LastBytes, CrcSize
    <2>3. s[1] = frame[n + 1] /\ s[2] = frame[n + 2]
      BY ONLY <1>1, <1>2, <2>2, frame \in Seq(Octet)
    <2>4. s = PackCrc(R)
      BY <1>1, <1>7, <2>1 DEF ValidateCrc
    <2>5. s = <<ByteOf(low), ByteOf(high)>>
      BY <1>9, <2>4 DEF PackCrc
    <2> QED
      BY ONLY <2>3, <2>5
  <1>13. Bits[frame[n + 1]] = low /\ Bits[frame[n + 2]] = high
    BY ONLY <1>11, <1>12, BitsOfByte
  <1>14. crc[n + 1] = Eight(SymDiff(R, low)) /\ crc[n + 2] = Eight(SymDiff(crc[n + 1], high))
    <2>1. (n + 1) - 1 = n /\ (n + 2) - 1 = n + 1
      BY ONLY <1>2
    <2>2. \A k \in 1 .. L : crc[k] = Eight(SymDiff(crc[k - 1], Bits[frame[k]]))
      BY ONLY <1>1, <1>5 DEF Registers
    <2> QED
      BY ONLY <1>2, <1>8, <1>13, <2>1, <2>2
  <1>15. crc[n + 1] = high
    <2>1. high \in SUBSET Nat
      BY ONLY <1>11
    <2>2. PICK up : up = UpEight(high)
      OBVIOUS
    <2>3. up \in SUBSET Nat /\ \A j \in Nat : j \in up <=> j >= 8 /\ j - 8 \in high
      BY ONLY <2>1, <2>2, UpEightIs, UpEightStays
    <2>4. SymDiff(R, low) = up
      <3>1. PICK D : D = SymDiff(R, low)
        OBVIOUS
      <3>2. \A j : j \in D <=> j \in R /\ j \notin 0 .. 7
        BY ONLY <1>9, <3>1, DiffIs
      <3>3. D \in SUBSET Nat
        <4>1. \A j : j \in R => j \in Nat
          BY ONLY <1>10
        <4> QED
          BY ONLY <3>2, <4>1
      <3>4. ASSUME NEW j \in Nat PROVE j \in D <=> j \in up
        <4>1. ASSUME j \in D PROVE j \in up
          <5>1. j >= 8 /\ j \in R /\ j \notin 0 .. 7
            BY ONLY <3>2, <4>1, j \in Nat
          <5>2. j - 8 \in high
            BY ONLY <1>9, <5>1
          <5> QED
            BY ONLY <2>3, <5>1, <5>2, j \in Nat
        <4>2. ASSUME j \in up PROVE j \in D
          <5>1. j >= 8 /\ j - 8 \in high
            BY ONLY <2>3, <4>2, j \in Nat
          <5>2. PICK k \in R \ 0 .. 7 : j - 8 = k - 8
            BY ONLY <1>9, <5>1
          <5>3. k \in Nat
            BY ONLY <1>10, <5>2
          <5>4. k = j
            BY ONLY <5>2, <5>3, j \in Nat
          <5> QED
            BY ONLY <3>2, <5>2, <5>4
        <4> QED
          BY ONLY <4>1, <4>2
      <3> QED
        BY ONLY <2>3, <3>1, <3>3, <3>4, SamePlaces
    <2>5. SymDiff({}, up) = up
      BY ONLY DiffIsEither
    <2>6. Eight(SymDiff({}, up)) = SymDiff(Eight({}), high)
      <3>1. {} \in SUBSET Nat
        OBVIOUS
      <3> QED
        BY ONLY <2>1, <2>2, <3>1, EightBrings
    <2>7. SymDiff({}, high) = high
      BY ONLY DiffIsEither
    <2> QED
      BY ONLY <1>14, <2>4, <2>5, <2>6, <2>7, ShiftNothing
  <1>16. crc[L] = {}
    <2>1. SymDiff(high, high) = {}
      BY ONLY DiffIsEither
    <2> QED
      BY ONLY <1>2, <1>14, <1>15, <2>1, ShiftNothing
  <1>17. PICK S : S = {k \in 0 .. L : f[8 * k] = SymDiff(crc[k], Later(frame, k))}
    OBVIOUS
  <1>18. 0 \in S
    <2>1. crc[0] = 0 .. 15
      BY ONLY <1>5 DEF Registers
    <2>2. f[0] = Whole(frame)
      BY DEF Turned
    <2>3. Later(frame, 0) = Ones(frame)
      BY ONLY LaterEnds, frame \in Seq(Octet)
    <2>4. 0 \in 0 .. L /\ 8 * 0 = 0
      BY ONLY <1>2
    <2> QED
      BY ONLY <1>17, <2>1, <2>2, <2>3, <2>4 DEF Whole
  <1>19. ASSUME NEW k \in 0 .. L, k \in S, k < L PROVE k + 1 \in S
    <2>1. PICK i : i = 8 * k
      OBVIOUS
    <2>2. /\ i \in Nat /\ i + 8 <= N /\ 8 * (k + 1) = i + 8
          /\ k \in 0 .. Len(frame) - 1 /\ k + 1 \in 0 .. L
      BY ONLY <1>1, <1>2, <1>19, <2>1, N = 8 * Len(frame)
    <2>3. f[i + 8] = Eight(f[i])
      BY ONLY <1>2, <2>2, EightTurns, Turned(f, Whole(frame), N)
    <2>4. Eight(SymDiff(crc[k], Later(frame, k))) = SymDiff(crc[k + 1], Later(frame, k + 1))
      BY ONLY <1>5, <2>2, ByteTurns, frame \in Seq(Octet)
    <2>5. f[i] = SymDiff(crc[k], Later(frame, k))
      BY ONLY <1>17, <1>19, <2>1
    <2> QED
      BY ONLY <1>17, <2>2, <2>3, <2>4, <2>5
  <1>20. L \in S
    <2>1. \A k \in 0 .. L : k \in S /\ k < L => k + 1 \in S
      BY <1>19
    <2>2. \A k \in 0 .. L : k \in S
      BY ONLY <1>2, <1>18, <2>1, CountsUp
    <2> QED
      BY ONLY <1>2, <2>2
  <1>21. Later(frame, L) = {}
    BY ONLY <1>1, LaterEnds, frame \in Seq(Octet)
  <1>22. f[8 * L] = SymDiff(crc[L], Later(frame, L))
    BY ONLY <1>17, <1>20
  <1>23. SymDiff({}, {}) = {}
    BY ONLY DiffIsEither
  <1> QED
    BY ONLY <1>1, <1>16, <1>21, <1>22, <1>23, N = 8 * Len(frame)

LEMMA OnesOfDamaged ==
    ASSUME NEW frame \in Seq(Octet), NEW places, places \subseteq 0 .. 8 * Len(frame) - 1
    PROVE  Ones(Damaged(frame, places)) = SymDiff(Ones(frame), places)
  <1>1. PICK L, other : L = Len(frame) /\ other = Damaged(frame, places)
    OBVIOUS
  <1>2. L \in Nat /\ other \in Seq(Octet) /\ Len(other) = L
    BY <1>1, DamagedIs
  <1>3. PICK O, D, E : /\ O = Ones(frame) /\ D = SymDiff(O, places) /\ E = Ones(other)
    OBVIOUS
  <1>4. O \in SUBSET Nat /\ E \in SUBSET Nat /\ places \in SUBSET Nat
    BY <1>1, <1>2, <1>3 DEF Ones
  <1>5. D \in SUBSET Nat
    BY ONLY <1>3, <1>4, DiffStays
  <1>6. \A x : x \in D <=> (x \in O /\ x \notin places) \/ (x \in places /\ x \notin O)
    BY ONLY <1>3, DiffIs
  <1>7. ASSUME NEW p \in Nat PROVE p \in E <=> p \in D
    <2>1. CASE p \notin 0 .. 8 * L - 1
      <3>1. p \notin places /\ p \notin O /\ p \notin E
        BY <1>1, <1>2, <1>3, <2>1 DEF Ones
      <3> QED
        BY ONLY <1>6, <3>1
    <2>2. CASE p \in 0 .. 8 * L - 1
      <3>1. PICK j, q, k : j = p % 8 /\ q = p \div 8 /\ k = q + 1
        OBVIOUS
      <3>2. /\ j \in 0 .. 7 /\ q \in Nat /\ k \in 1 .. L /\ p = j + 8 * q /\ k - 1 = q
        BY ONLY <1>2, <2>2, <3>1
      <3>3. PICK v, Q : /\ v = frame[k]
                        /\ Q = {i - 8 * (k - 1) : i \in places \cap 8 * (k - 1) .. 8 * k - 1}
        OBVIOUS
      <3>4. v \in Octet /\ Bits[v] \in SUBSET (0 .. 7)
        BY <1>1, <3>2, <3>3, BitsAre
      <3>5. Q \in SUBSET (0 .. 7)
        <4> SUFFICES ASSUME NEW e \in Q PROVE e \in 0 .. 7
          OBVIOUS
        <4>1. PICK i \in places \cap 8 * (k - 1) .. 8 * k - 1 : e = i - 8 * (k - 1)
          BY ONLY <3>3, e \in Q
        <4> QED
          BY ONLY <3>2, <4>1
      <3>6. j \in Q <=> p \in places
        <4>1. ASSUME j \in Q PROVE p \in places
          <5>1. PICK i \in places \cap 8 * (k - 1) .. 8 * k - 1 : j = i - 8 * (k - 1)
            BY ONLY <3>3, <4>1
          <5>2. i = p
            BY ONLY <3>2, <5>1
          <5> QED
            BY ONLY <5>1, <5>2
        <4>2. ASSUME p \in places PROVE j \in Q
          <5>1. p \in 8 * (k - 1) .. 8 * k - 1 /\ j = p - 8 * (k - 1)
            BY ONLY <3>2
          <5> QED
            BY ONLY <3>3, <4>2, <5>1
        <4> QED
          BY ONLY <4>1, <4>2
      <3>7. other[k] = ByteOf(SymDiff(Bits[v], Q))
        <4>1. k \in DOMAIN frame
          BY <1>1, <3>2
        <4> QED
          BY <1>1, <3>3, <4>1 DEF Damaged
      <3>8. Bits[other[k]] = SymDiff(Bits[v], Q)
        <4>1. SymDiff(Bits[v], Q) \in SUBSET (0 .. 7)
          <5>1. PICK A, B : A = Bits[v] /\ B = SymDiff(A, Q)
            OBVIOUS
          <5>2. \A x : x \in B => x \in A \/ x \in Q
            BY ONLY <5>1, DiffIs
          <5>3. \A x : x \in B => x \in 0 .. 7
            BY ONLY <3>4, <3>5, <5>1, <5>2
          <5> QED
            BY ONLY <5>1, <5>3
        <4> QED
          BY ONLY <3>7, <4>1, BitsOfByte
      <3>9. p \in O <=> j \in Bits[v]
        BY <1>1, <1>3, <2>2, <3>1, <3>3 DEF Ones
      <3>10. p \in E <=> j \in Bits[other[k]]
        BY <1>2, <1>3, <2>2, <3>1 DEF Ones
      <3> QED
        BY ONLY <1>6, <3>6, <3>8, <3>9, <3>10, DiffIs
    <2> QED
      BY ONLY <2>1, <2>2
  <1>8. E = D
    BY ONLY <1>4, <1>5, <1>7, SamePlaces
  <1> QED
    BY ONLY <1>1, <1>3, <1>8

\* Damage that goes unnoticed leaves nothing in a register of its own.
LEMMA UnnoticedLeaves ==
    ASSUME NEW frame \in Seq(Octet), ValidateCrc(frame),
           NEW places, places \subseteq 0 .. 8 * Len(frame) - 1,
           ValidateCrc(Damaged(frame, places))
    PROVE  \E g : Turned(g, places, 8 * Len(frame)) /\ g[8 * Len(frame)] = {}
  <1>1. PICK other, N : other = Damaged(frame, places) /\ N = 8 * Len(frame)
    OBVIOUS
  <1>2. N \in Nat /\ other \in Seq(Octet) /\ N = 8 * Len(other)
    BY <1>1, DamagedIs
  <1>3. Whole(other) = SymDiff(Whole(frame), places)
    <2>1. PICK O : O = Ones(frame)
      OBVIOUS
    <2>2. Ones(other) = SymDiff(O, places)
      BY ONLY <1>1, <2>1, OnesOfDamaged, frame \in Seq(Octet),
              places \subseteq 0 .. 8 * Len(frame) - 1
    <2>3. SymDiff(0 .. 15, SymDiff(O, places)) = SymDiff(SymDiff(0 .. 15, O), places)
      BY ONLY DiffAssociates
    <2> QED
      BY ONLY <2>1, <2>2, <2>3 DEF Whole
  <1>4. PICK f : Turned(f, Whole(frame), N)
    BY ONLY <1>2, WholeIs, TurnedExists, frame \in Seq(Octet)
  <1>5. PICK g : Turned(g, places, N)
    <2>1. places \in SUBSET Nat
      OBVIOUS
    <2> QED
      BY ONLY <1>2, <2>1, TurnedExists
  <1>6. PICK h : Turned(h, Whole(other), N)
    BY ONLY <1>2, WholeIs, TurnedExists
  <1>7. f[N] = {}
    BY ONLY <1>1, <1>4, ValidEnds, frame \in Seq(Octet), ValidateCrc(frame)
  <1>8. h[N] = {}
    BY ONLY <1>1, <1>2, <1>6, ValidEnds, ValidateCrc(Damaged(frame, places))
  <1>9. h[N] = SymDiff(f[N], g[N])
    BY ONLY <1>2, <1>3, <1>4, <1>5, <1>6, TurnedAdds
  <1>10. g[N] = {}
    BY ONLY <1>7, <1>8, <1>9, DiffIsEither
  <1> QED
    BY ONLY <1>1, <1>5, <1>10

LEMMA BurstIsFound ==
    ASSUME NEW frame \in Seq(Octet), ValidateCrc(frame),
           NEW places, places \subseteq 0 .. 8 * Len(frame) - 1, places # {},
           \A p, q \in places : p - q <= 15
    PROVE  ~ ValidateCrc(Damaged(frame, places))
  <1> SUFFICES ASSUME ValidateCrc(Damaged(frame, places)) PROVE FALSE
    OBVIOUS
  <1>1. PICK N : N = 8 * Len(frame)
    OBVIOUS
  <1>2. N \in Nat
    BY <1>1
  <1>3. PICK g : Turned(g, places, N) /\ g[N] = {}
    BY ONLY <1>1, UnnoticedLeaves, frame \in Seq(Octet), ValidateCrc(frame),
            places \subseteq 0 .. 8 * Len(frame) - 1, ValidateCrc(Damaged(frame, places))
  <1>4. g[N] # {}
    BY ONLY <1>1, <1>2, <1>3, BurstStays, places # {},
            places \subseteq 0 .. 8 * Len(frame) - 1, \A p, q \in places : p - q <= 15
  <1> QED
    BY ONLY <1>3, <1>4

\* validate_crc: a frame of any length in which the line has flipped bits within
\* sixteen in a row, however many of them, is not read by a class that verifies it.
THEOREM BurstsReported == LineSpec => []BurstsAreReported
  <1>1. ASSUME LineInv PROVE BurstsAreReported
    <2> SUFFICES ASSUME stage = "received", flipped # {}, verified,
                        \A p, q \in flipped : ~ (p - q > 15)
                 PROVE  Unread
      BY DEF BurstsAreReported
    <2>1. PICK class : Sends(class, sent)
      BY <1>1, PacketsAre DEF LineInv
    <2>2. PICK bytes, frame : bytes = Serialize(sent.pdu) /\ frame = SerializeRtu(sent)
      OBVIOUS
    <2>3. RtuPacks(sent)
      BY <1>1 DEF LineInv
    <2>4. InFrame(sent.slave_id, bytes, frame)
      BY ONLY <2>1, <2>2, <2>3, FrameOfPacket
    <2>5. frame \in Seq(Octet) /\ ValidateCrc(frame)
      BY ONLY <2>4 DEF InFrame
    <2>6. flipped \subseteq 0 .. 8 * Len(frame) - 1
      BY <1>1, <2>2 DEF LineInv, InTheFrame
    <2>7. \A p, q \in flipped : p - q <= 15
      <3>1. \A p \in flipped : p \in Int
        BY ONLY <2>5, <2>6
      <3> QED
        BY <3>1
    <2>8. ~ ValidateCrc(Damaged(frame, flipped))
      BY ONLY <2>5, <2>6, <2>7, BurstIsFound, flipped # {}
    <2>9. outcome = DeserializeRtu(Damaged(frame, flipped), side, verified)
      BY <1>1, <2>2 DEF LineInv, WasRead, AsRead, Arrived
    <2>10. outcome = Raises("ModbusPacketError")
      BY ONLY <2>8, <2>9, verified DEF DeserializeRtu
    <2> QED
      BY <2>10 DEF Unread, Raises
  <1> QED
    BY <1>1, LineIsAsWritten, PTL

-----------------------------------------------------------------------------
(* Two flipped bits: how many turns it takes until one is again what it was. *)

\* A turned register satisfies what its beginning satisfies.
Recurs(u, N, a, b) ==
    \A k \in Nat : k + a <= N => u[k + a] = SymDiff(u[k + b], u[k])

LEMMA RecursOn ==
    ASSUME NEW N \in Nat, NEW first, NEW u, Turned(u, first, N),
           NEW a \in Nat, NEW b \in Nat, b <= a, a <= N, u[a] = SymDiff(u[b], u[0])
    PROVE  Recurs(u, N, a, b)
  <1>1. PICK M : M = N - a
    OBVIOUS
  <1>2. M \in Nat /\ M + a = N
    BY ONLY <1>1, N \in Nat, a \in Nat, a <= N
  <1>3. PICK S : S = {k \in 0 .. M : u[k + a] = SymDiff(u[k + b], u[k])}
    OBVIOUS
  <1>4. 0 \in S
    <2>1. 0 \in 0 .. M /\ 0 + a = a /\ 0 + b = b
      BY ONLY <1>2, a \in Nat, b \in Nat
    <2> QED
      BY ONLY <1>3, <2>1, u[a] = SymDiff(u[b], u[0])
  <1>5. ASSUME NEW k \in 0 .. M, k \in S, k < M PROVE k + 1 \in S
    <2>1. PICK i, j : i = k + a /\ j = k + b
      OBVIOUS
    <2>2. /\ k + 1 \in 0 .. M /\ (k + 1) + a = i + 1 /\ (k + 1) + b = j + 1
          /\ i \in 0 .. N /\ j \in 0 .. N /\ k \in 0 .. N /\ i < N /\ j < N /\ k < N
      BY ONLY <1>2, <1>5, <2>1, N \in Nat, a \in Nat, b \in Nat, b <= a
    <2>3. \A n \in 0 .. N : u[n] \in SUBSET Nat /\ (n < N => u[n + 1] = Shift(u[n]))
      BY DEF Turned
    <2>4. u[i] = SymDiff(u[j], u[k])
      BY ONLY <1>3, <1>5, <2>1
    <2>5. PICK A, B : A = u[j] /\ B = u[k]
      OBVIOUS
    <2>6. A \in SUBSET Nat /\ B \in SUBSET Nat
      BY ONLY <2>2, <2>3, <2>5
    <2>7. Shift(SymDiff(A, B)) = SymDiff(Shift(A), Shift(B))
      BY ONLY <2>6, ShiftAdds
    <2>8. /\ u[i + 1] = Shift(SymDiff(A, B))
          /\ u[j + 1] = Shift(A) /\ u[k + 1] = Shift(B)
      BY ONLY <2>2, <2>3, <2>4, <2>5
    <2> QED
      BY ONLY <1>3, <2>2, <2>7, <2>8
  <1>6. \A k \in 0 .. M : k \in S
    <2>1. \A k \in 0 .. M : k \in S /\ k < M => k + 1 \in S
      BY <1>5
    <2> QED
      BY ONLY <1>2, <1>4, <2>1, CountsUp
  <1>7. ASSUME NEW k \in Nat, k + a <= N PROVE u[k + a] = SymDiff(u[k + b], u[k])
    <2>1. k \in 0 .. M
      BY ONLY <1>2, <1>7, N \in Nat, a \in Nat
    <2> QED
      BY ONLY <1>3, <1>6, <2>1
  <1> QED
    BY <1>7 DEF Recurs

LEMMA DiffCancels ==
    \A A, B, C : SymDiff(SymDiff(A, B), SymDiff(B, C)) = SymDiff(A, C)
  <1> SUFFICES ASSUME NEW A, NEW B, NEW C
               PROVE  SymDiff(SymDiff(A, B), SymDiff(B, C)) = SymDiff(A, C)
    OBVIOUS
  <1>1. SymDiff(SymDiff(A, B), SymDiff(B, C)) = SymDiff(A, SymDiff(B, SymDiff(B, C)))
    BY ONLY DiffAssociates
  <1>2. SymDiff(B, SymDiff(B, C)) = SymDiff(SymDiff(B, B), C)
    BY ONLY DiffAssociates
  <1>3. SymDiff(B, B) = {} /\ SymDiff({}, C) = C
    BY ONLY DiffIsEither
  <1> QED
    BY ONLY <1>1, <1>2, <1>3

\* Squares of sums are sums of squares.
LEMMA RecursTwice ==
    ASSUME NEW N \in Nat, NEW u, NEW a \in Nat, NEW b \in Nat, b <= a, Recurs(u, N, a, b),
           NEW c, NEW d, c = 2 * a, d = 2 * b
    PROVE  Recurs(u, N, c, d)
  <1> SUFFICES ASSUME NEW k \in Nat, k + c <= N
               PROVE  u[k + c] = SymDiff(u[k + d], u[k])
    BY DEF Recurs
  <1>1. PICK i, j : i = k + a /\ j = k + b
    OBVIOUS
  <1>2. /\ i \in Nat /\ j \in Nat /\ i + a = k + c /\ j + b = k + d /\ i + b = j + a
        /\ i + a <= N /\ j + a <= N /\ k + a <= N
    BY ONLY <1>1, a \in Nat, b \in Nat, k \in Nat, N \in Nat, b <= a, c = 2 * a, d = 2 * b,
            k + c <= N
  <1>3. \A n \in Nat : n + a <= N => u[n + a] = SymDiff(u[n + b], u[n])
    BY DEF Recurs
  <1>4. u[k + c] = SymDiff(u[i + b], u[i]) /\ u[i] = SymDiff(u[j], u[k])
    BY ONLY <1>1, <1>2, <1>3, k \in Nat
  <1>5. u[i + b] = SymDiff(u[k + d], u[j])
    BY ONLY <1>2, <1>3
  <1> QED
    BY ONLY <1>4, <1>5, DiffCancels

\* What a register that differs from the next in no more than the last place
\* comes to: the powers of x of a polynomial with three terms.
Beginning(u) ==
    /\ u[0] = {13, 15}
    /\ \A n \in 0 .. 14 : (14 \in u[n] <=> n = 1) /\ (13 \in u[n] <=> n \in {0, 2, 14})
    /\ u[15] = SymDiff(u[1], u[0])

LEMMA BeginningIs ==
    ASSUME NEW N \in Nat, 15 <= N, NEW u, Turned(u, {13, 15}, N)
    PROVE  Beginning(u)
  <1>1. \A n \in 0 .. N : u[n] \in SUBSET Nat /\ (n < N => u[n + 1] = Shift(u[n]))
    BY DEF Turned
  <1>2. u[0] = {13, 15}
    BY DEF Turned
  <1>3. PICK S : S = {n \in 0 .. 13 : \A j \in Nat : j \in u[n] <=> j + n = 13 \/ j + n = 15}
    OBVIOUS
  <1>4. 0 \in S
    BY ONLY <1>2, <1>3
  <1>5. ASSUME NEW n \in 0 .. 13, n \in S, n < 13 PROVE n + 1 \in S
    <2>1. n \in 0 .. N /\ n < N /\ n + 1 \in 0 .. 13
      BY ONLY <1>5, N \in Nat, 15 <= N
    <2>2. \A j \in Nat : j \in u[n] <=> j + n = 13 \/ j + n = 15
      BY ONLY <1>3, <1>5
    <2>3. 0 \notin u[n]
      BY ONLY <1>5, <2>2
    <2>4. u[n + 1] = Shift(u[n]) /\ u[n] \in SUBSET Nat
      BY ONLY <1>1, <2>1
    <2>5. \A j \in Nat : j \in u[n + 1] <=> j + 1 \in u[n]
      BY <2>3, <2>4, ShiftIs DEF Turns
    <2>6. ASSUME NEW j \in Nat PROVE j \in u[n + 1] <=> j + (n + 1) = 13 \/ j + (n + 1) = 15
      <3>1. j + 1 \in Nat /\ (j + 1) + n = j + (n + 1)
        BY ONLY <2>1
      <3> QED
        BY ONLY <2>2, <2>5, <3>1
    <2> QED
      BY ONLY <1>3, <2>1, <2>6
  <1>6. \A n \in 0 .. 13 : n \in S
    <2>1. \A n \in 0 .. 13 : n \in S /\ n < 13 => n + 1 \in S
      BY <1>5
    <2>2. 13 \in Nat
      OBVIOUS
    <2> QED
      BY ONLY <1>4, <2>1, <2>2, CountsUp
  <1>7. \A n \in 0 .. 13, j \in Nat : j \in u[n] <=> j + n = 13 \/ j + n = 15
    BY ONLY <1>3, <1>6
  <1>8. \A j \in Nat : j \in u[13] <=> j = 0 \/ j = 2
    BY ONLY <1>7
  <1>9. /\ u[13] \in SUBSET Nat /\ u[14] = Shift(u[13]) /\ u[14] \in SUBSET Nat
        /\ u[15] = Shift(u[14]) /\ u[15] \in SUBSET Nat /\ u[1] \in SUBSET Nat
    <2>1. /\ 13 \in 0 .. N /\ 13 < N /\ 14 \in 0 .. N /\ 14 < N /\ 15 \in 0 .. N /\ 1 \in 0 .. N
          /\ 13 + 1 = 14 /\ 14 + 1 = 15
      BY ONLY N \in Nat, 15 <= N
    <2> QED
      BY ONLY <1>1, <2>1
  <1>10. ASSUME NEW j \in Nat PROVE j \in u[14] <=> j \in {0, 1, 13, 15}
    <2>1. j \in u[14] <=> \/ j + 1 \in u[13] /\ ~ Turns(u[13], j)
                          \/ j + 1 \notin u[13] /\ Turns(u[13], j)
      BY ONLY <1>9, ShiftIs, j \in Nat
    <2>2. Turns(u[13], j) <=> j \in {0, 13, 15}
      <3>1. 0 \in u[13]
        BY ONLY <1>8
      <3> QED
        BY <3>1 DEF Turns, Generator
    <2>3. j + 1 \in u[13] <=> j = 1
      BY ONLY <1>8, j \in Nat
    <2> QED
      BY ONLY <2>1, <2>2, <2>3
  <1>11. ASSUME NEW j \in Nat PROVE j \in u[15] <=> j \in {12, 13, 14, 15}
    <2>1. j \in u[15] <=> \/ j + 1 \in u[14] /\ ~ Turns(u[14], j)
                          \/ j + 1 \notin u[14] /\ Turns(u[14], j)
      BY ONLY <1>9, ShiftIs, j \in Nat
    <2>2. Turns(u[14], j) <=> j \in {0, 13, 15}
      <3>1. 0 \in u[14]
        BY ONLY <1>10
      <3> QED
        BY <3>1 DEF Turns, Generator
    <2>3. j + 1 \in u[14] <=> j \in {0, 12, 14}
      <3>1. j + 1 \in u[14] <=> j + 1 \in {0, 1, 13, 15}
        BY ONLY <1>10, j \in Nat
      <3> QED
        BY ONLY <3>1, j \in Nat
    <2> QED
      BY ONLY <2>1, <2>2, <2>3
  <1>12. u[15] = SymDiff(u[1], u[0])
    <2>1. PICK D : D = SymDiff(u[1], u[0])
      OBVIOUS
    <2>2. \A j : j \in D <=> (j \in u[1] /\ j \notin u[0]) \/ (j \in u[0] /\ j \notin u[1])
      BY ONLY <2>1, DiffIs
    <2>3. \A j \in Nat : j \in u[1] <=> j \in {12, 14}
      BY ONLY <1>7
    <2>4. D \in SUBSET Nat
      BY ONLY <1>2, <1>9, <2>2
    <2>5. \A j \in Nat : j \in D <=> j \in {12, 13, 14, 15}
      BY ONLY <1>2, <2>2, <2>3
    <2>6. PICK C : C = u[15]
      OBVIOUS
    <2>7. C \in SUBSET Nat /\ \A j \in Nat : j \in C <=> j \in {12, 13, 14, 15}
      BY ONLY <1>9, <1>11, <2>6
    <2>8. C = D
      BY ONLY <2>4, <2>5, <2>7, SamePlaces
    <2> QED
      BY ONLY <2>1, <2>6, <2>8
  <1>13. ASSUME NEW n \in 0 .. 14
         PROVE  (14 \in u[n] <=> n = 1) /\ (13 \in u[n] <=> n \in {0, 2, 14})
    <2>1. CASE n = 14
      BY ONLY <1>10, <2>1
    <2>2. CASE n # 14
      <3>1. n \in 0 .. 13
        BY ONLY <1>13, <2>2
      <3> QED
        BY ONLY <1>7, <3>1
    <2> QED
      BY ONLY <2>1, <2>2
  <1> QED
    BY ONLY <1>2, <1>12, <1>13 DEF Beginning

LEMMA RecursAre ==
    ASSUME NEW N \in Nat, 32767 <= N, NEW u, Turned(u, {13, 15}, N)
    PROVE  /\ Recurs(u, N, 15, 1) /\ Recurs(u, N, 30, 2) /\ Recurs(u, N, 60, 4)
           /\ Recurs(u, N, 120, 8)
           /\ Recurs(u, N, 510, 6) /\ Recurs(u, N, 1020, 12) /\ Recurs(u, N, 4080, 48)
           /\ Recurs(u, N, 32640, 384)
  <1>1. Recurs(u, N, 15, 1)
    <2>1. 15 <= N /\ 15 \in Nat /\ 1 \in Nat /\ 1 <= 15
      BY ONLY N \in Nat, 32767 <= N
    <2>2. u[15] = SymDiff(u[1], u[0])
      BY <2>1, BeginningIs DEF Beginning
    <2> QED
      BY ONLY <2>1, <2>2, RecursOn, N \in Nat, Turned(u, {13, 15}, N)
  <1>2. /\ Recurs(u, N, 30, 2) /\ Recurs(u, N, 60, 4) /\ Recurs(u, N, 120, 8)
        /\ Recurs(u, N, 240, 16)
    <2>1. Recurs(u, N, 30, 2)
      <3>1. 30 = 2 * 15 /\ 2 = 2 * 1 /\ 15 \in Nat /\ 1 \in Nat /\ 1 <= 15
        OBVIOUS
      <3> QED
        BY ONLY <1>1, <3>1, RecursTwice, N \in Nat
    <2>2. Recurs(u, N, 60, 4)
      <3>1. 60 = 2 * 30 /\ 4 = 2 * 2 /\ 30 \in Nat /\ 2 \in Nat /\ 2 <= 30
        OBVIOUS
      <3> QED
        BY ONLY <2>1, <3>1, RecursTwice, N \in Nat
    <2>3. Recurs(u, N, 120, 8)
      <3>1. 120 = 2 * 60 /\ 8 = 2 * 4 /\ 60 \in Nat /\ 4 \in Nat /\ 4 <= 60
        OBVIOUS
      <3> QED
        BY ONLY <2>2, <3>1, RecursTwice, N \in Nat
    <2>4. Recurs(u, N, 240, 16)
      <3>1. 240 = 2 * 120 /\ 16 = 2 * 8 /\ 120 \in Nat /\ 8 \in Nat /\ 8 <= 120
        OBVIOUS
      <3> QED
        BY ONLY <2>3, <3>1, RecursTwice, N \in Nat
    <2> QED
      BY ONLY <2>1, <2>2, <2>3, <2>4
  <1>3. Recurs(u, N, 255, 3)
    <2> SUFFICES ASSUME NEW k \in Nat, k + 255 <= N
                 PROVE  u[k + 255] = SymDiff(u[k + 3], u[k])
      BY DEF Recurs
    <2>1. u[k + 255] = SymDiff(u[k + 31], u[k + 15])
      <3>1. PICK i : i = k + 15
        OBVIOUS
      <3>2. i \in Nat /\ i + 240 = k + 255 /\ i + 16 = k + 31 /\ i + 240 <= N
        BY ONLY <3>1, k \in Nat, k + 255 <= N, N \in Nat
      <3> QED
        BY ONLY <1>2, <3>1, <3>2 DEF Recurs
    <2>2. u[k + 31] = SymDiff(u[k + 3], u[k + 1])
      <3>1. PICK i : i = k + 1
        OBVIOUS
      <3>2. i \in Nat /\ i + 30 = k + 31 /\ i + 2 = k + 3 /\ i + 30 <= N
        BY ONLY <3>1, k \in Nat, k + 255 <= N, N \in Nat
      <3> QED
        BY ONLY <1>2, <3>1, <3>2 DEF Recurs
    <2>3. u[k + 15] = SymDiff(u[k + 1], u[k])
      <3>1. k + 15 <= N
        BY ONLY k \in Nat, k + 255 <= N, N \in Nat
      <3> QED
        BY ONLY <1>1, <3>1, k \in Nat DEF Recurs
    <2> QED
      BY ONLY <2>1, <2>2, <2>3, DiffCancels
  <1>4. /\ Recurs(u, N, 510, 6) /\ Recurs(u, N, 1020, 12)
        /\ Recurs(u, N, 2040, 24) /\ Recurs(u, N, 4080, 48)
    <2>1. Recurs(u, N, 510, 6)
      <3>1. 510 = 2 * 255 /\ 6 = 2 * 3 /\ 255 \in Nat /\ 3 \in Nat /\ 3 <= 255
        OBVIOUS
      <3> QED
        BY ONLY <1>3, <3>1, RecursTwice, N \in Nat
    <2>2. Recurs(u, N, 1020, 12)
      <3>1. 1020 = 2 * 510 /\ 12 = 2 * 6 /\ 510 \in Nat /\ 6 \in Nat /\ 6 <= 510
        OBVIOUS
      <3> QED
        BY ONLY <2>1, <3>1, RecursTwice, N \in Nat
    <2>3. Recurs(u, N, 2040, 24)
      <3>1. 2040 = 2 * 1020 /\ 24 = 2 * 12 /\ 1020 \in Nat /\ 12 \in Nat /\ 12 <= 1020
        OBVIOUS
      <3> QED
        BY ONLY <2>2, <3>1, RecursTwice, N \in Nat
    <2>4. Recurs(u, N, 4080, 48)
      <3>1. 4080 = 2 * 2040 /\ 48 = 2 * 24 /\ 2040 \in Nat /\ 24 \in Nat /\ 24 <= 2040
        OBVIOUS
      <3> QED
        BY ONLY <2>3, <3>1, RecursTwice, N \in Nat
    <2> QED
      BY ONLY <2>1, <2>2, <2>3, <2>4
  <1>5. Recurs(u, N, 32640, 384)
    <2>1. Recurs(u, N, 8160, 96)
      <3>1. 8160 = 2 * 4080 /\ 96 = 2 * 48 /\ 4080 \in Nat /\ 48 \in Nat /\ 48 <= 4080
        OBVIOUS
      <3> QED
        BY ONLY <1>4, <3>1, RecursTwice, N \in Nat
    <2>2. Recurs(u, N, 16320, 192)
      <3>1. 16320 = 2 * 8160 /\ 192 = 2 * 96 /\ 8160 \in Nat /\ 96 \in Nat /\ 96 <= 8160
        OBVIOUS
      <3> QED
        BY ONLY <2>1, <3>1, RecursTwice, N \in Nat
    <2>3. 32640 = 2 * 16320 /\ 384 = 2 * 192 /\ 16320 \in Nat /\ 192 \in Nat /\ 192 <= 16320
      OBVIOUS
    <2> QED
      BY ONLY <2>2, <2>3, RecursTwice, N \in Nat
  <1> QED
    BY ONLY <1>1, <1>2, <1>4, <1>5

LEMMA RecursAt ==
    ASSUME NEW N, NEW u, NEW a, NEW b, Recurs(u, N, a, b),
           NEW k \in Nat, k + a <= N, NEW n, n = k + a, NEW m, m = k + b
    PROVE  u[n] = SymDiff(u[m], u[k])
  BY DEF Recurs

\* x^32767 is 1, and its roots are not.
LEMMA BackAgain ==
    ASSUME NEW N \in Nat, 32767 <= N, NEW u, Turned(u, {13, 15}, N)
    PROVE  u[32767] = u[0]
  <1>1. /\ Recurs(u, N, 15, 1) /\ Recurs(u, N, 30, 2) /\ Recurs(u, N, 60, 4)
        /\ Recurs(u, N, 120, 8)
        /\ Recurs(u, N, 510, 6) /\ Recurs(u, N, 1020, 12) /\ Recurs(u, N, 4080, 48)
        /\ Recurs(u, N, 32640, 384)
    BY ONLY RecursAre, N \in Nat, 32767 <= N, Turned(u, {13, 15}, N)
  <1>2. u[32767] = SymDiff(u[511], u[127])
    <2>1. 127 \in Nat /\ 127 + 32640 <= N /\ 32767 = 127 + 32640 /\ 511 = 127 + 384
      BY ONLY N \in Nat, 32767 <= N
    <2> QED
      BY ONLY <1>1, <2>1, RecursAt
  <1>3. u[511] = SymDiff(u[7], u[1])
    <2>1. 1 \in Nat /\ 1 + 510 <= N /\ 511 = 1 + 510 /\ 7 = 1 + 6
      BY ONLY N \in Nat, 32767 <= N
    <2> QED
      BY ONLY <1>1, <2>1, RecursAt
  <1>4. u[127] = SymDiff(u[15], u[7])
    <2>1. 7 \in Nat /\ 7 + 120 <= N /\ 127 = 7 + 120 /\ 15 = 7 + 8
      BY ONLY N \in Nat, 32767 <= N
    <2> QED
      BY ONLY <1>1, <2>1, RecursAt
  <1>5. u[15] = SymDiff(u[1], u[0])
    <2>1. 15 <= N
      BY ONLY N \in Nat, 32767 <= N
    <2> QED
      BY <2>1, BeginningIs DEF Beginning
  <1>6. SymDiff(u[7], u[1]) = SymDiff(u[1], u[7]) /\ SymDiff(u[15], u[7]) = SymDiff(u[7], u[15])
    BY ONLY DiffIsEither
  <1>7. u[32767] = SymDiff(u[1], u[15])
    BY ONLY <1>2, <1>3, <1>4, <1>6, DiffCancels
  <1>8. SymDiff(u[1], SymDiff(u[1], u[0])) = SymDiff(SymDiff(u[1], u[1]), u[0])
    BY ONLY DiffAssociates
  <1>9. SymDiff(u[1], u[1]) = {} /\ SymDiff({}, u[0]) = u[0]
    BY ONLY DiffIsEither
  <1> QED
    BY ONLY <1>5, <1>7, <1>8, <1>9

LEMMA NotBack ==
    ASSUME NEW N \in Nat, 32767 <= N, NEW u, Turned(u, {13, 15}, N)
    PROVE  u[217] # u[0] /\ u[1057] # u[0] /\ u[4681] # u[0]
  <1>1. /\ Recurs(u, N, 15, 1) /\ Recurs(u, N, 30, 2) /\ Recurs(u, N, 60, 4)
        /\ Recurs(u, N, 120, 8)
        /\ Recurs(u, N, 510, 6) /\ Recurs(u, N, 1020, 12) /\ Recurs(u, N, 4080, 48)
        /\ Recurs(u, N, 32640, 384)
    BY ONLY RecursAre, N \in Nat, 32767 <= N, Turned(u, {13, 15}, N)
  <1>2. u[37] = SymDiff(u[9], u[7])
    <2>1. 7 \in Nat /\ 7 + 30 <= N /\ 37 = 7 + 30 /\ 9 = 7 + 2
      BY ONLY N \in Nat, 32767 <= N
    <2> QED
      BY ONLY <1>1, <2>1, RecursAt
  <1>3. u[19] = SymDiff(u[5], u[4])
    <2>1. 4 \in Nat /\ 4 + 15 <= N /\ 19 = 4 + 15 /\ 5 = 4 + 1
      BY ONLY N \in Nat, 32767 <= N
    <2> QED
      BY ONLY <1>1, <2>1, RecursAt
  <1>4. u[97] = SymDiff(u[41], u[37])
    <2>1. 37 \in Nat /\ 37 + 60 <= N /\ 97 = 37 + 60 /\ 41 = 37 + 4
      BY ONLY N \in Nat, 32767 <= N
    <2> QED
      BY ONLY <1>1, <2>1, RecursAt
  <1>5. u[41] = SymDiff(u[13], u[11])
    <2>1. 11 \in Nat /\ 11 + 30 <= N /\ 41 = 11 + 30 /\ 13 = 11 + 2
      BY ONLY N \in Nat, 32767 <= N
    <2> QED
      BY ONLY <1>1, <2>1, RecursAt
  <1>6. Beginning(u)
    <2>1. 15 <= N
      BY ONLY N \in Nat, 32767 <= N
    <2> QED
      BY ONLY <2>1, BeginningIs, N \in Nat, Turned(u, {13, 15}, N)
  <1>7. \A n \in 0 .. 14 : (14 \in u[n] <=> n = 1) /\ (13 \in u[n] <=> n \in {0, 2, 14})
    BY ONLY <1>6 DEF Beginning
  <1>8. u[15] = SymDiff(u[1], u[0])
    BY ONLY <1>6 DEF Beginning
  <1>9. u[217] = SymDiff(u[105], u[97])
    <2>1. 97 \in Nat /\ 97 + 120 <= N /\ 217 = 97 + 120 /\ 105 = 97 + 8
      BY ONLY N \in Nat, 32767 <= N
    <2> QED
      BY ONLY <1>1, <2>1, RecursAt
  <1>10. u[105] = SymDiff(u[49], u[45])
    <2>1. 45 \in Nat /\ 45 + 60 <= N /\ 105 = 45 + 60 /\ 49 = 45 + 4
      BY ONLY N \in Nat, 32767 <= N
    <2> QED
      BY ONLY <1>1, <2>1, RecursAt
  <1>11. u[49] = SymDiff(u[21], u[19])
    <2>1. 19 \in Nat /\ 19 + 30 <= N /\ 49 = 19 + 30 /\ 21 = 19 + 2
      BY ONLY N \in Nat, 32767 <= N
    <2> QED
      BY ONLY <1>1, <2>1, RecursAt
  <1>12. u[21] = SymDiff(u[7], u[6])
    <2>1. 6 \in Nat /\ 6 + 15 <= N /\ 21 = 6 + 15 /\ 7 = 6 + 1
      BY ONLY N \in Nat, 32767 <= N
    <2> QED
      BY ONLY <1>1, <2>1, RecursAt
  <1>13. u[45] = SymDiff(u[17], u[15])
    <2>1. 15 \in Nat /\ 15 + 30 <= N /\ 45 = 15 + 30 /\ 17 = 15 + 2
      BY ONLY N \in Nat, 32767 <= N
    <2> QED
      BY ONLY <1>1, <2>1, RecursAt
  <1>14. u[17] = SymDiff(u[3], u[2])
    <2>1. 2 \in Nat /\ 2 + 15 <= N /\ 17 = 2 + 15 /\ 3 = 2 + 1
      BY ONLY N \in Nat, 32767 <= N
    <2> QED
      BY ONLY <1>1, <2>1, RecursAt
  <1>15. 14 \in u[217]
    BY ONLY <1>2, <1>3, <1>4, <1>5, <1>9, <1>10, <1>11, <1>12, <1>13, <1>14, <1>7, <1>8, DiffIs
  <1>16. u[1057] = SymDiff(u[49], u[37])
    <2>1. 37 \in Nat /\ 37 + 1020 <= N /\ 1057 = 37 + 1020 /\ 49 = 37 + 12
      BY ONLY N \in Nat, 32767 <= N
    <2> QED
      BY ONLY <1>1, <2>1, RecursAt
  <1>17. 13 \notin u[1057]
    BY ONLY <1>16, <1>11, <1>12, <1>2, <1>3, <1>7, <1>8, DiffIs
  <1>18. u[4681] = SymDiff(u[649], u[601])
    <2>1. 601 \in Nat /\ 601 + 4080 <= N /\ 4681 = 601 + 4080 /\ 649 = 601 + 48
      BY ONLY N \in Nat, 32767 <= N
    <2> QED
      BY ONLY <1>1, <2>1, RecursAt
  <1>19. u[649] = SymDiff(u[145], u[139])
    <2>1. 139 \in Nat /\ 139 + 510 <= N /\ 649 = 139 + 510 /\ 145 = 139 + 6
      BY ONLY N \in Nat, 32767 <= N
    <2> QED
      BY ONLY <1>1, <2>1, RecursAt
  <1>20. u[601] = SymDiff(u[97], u[91])
    <2>1. 91 \in Nat /\ 91 + 510 <= N /\ 601 = 91 + 510 /\ 97 = 91 + 6
      BY ONLY N \in Nat, 32767 <= N
    <2> QED
      BY ONLY <1>1, <2>1, RecursAt
  <1>21. u[145] = SymDiff(u[33], u[25])
    <2>1. 25 \in Nat /\ 25 + 120 <= N /\ 145 = 25 + 120 /\ 33 = 25 + 8
      BY ONLY N \in Nat, 32767 <= N
    <2> QED
      BY ONLY <1>1, <2>1, RecursAt
  <1>22. u[139] = SymDiff(u[27], u[19])
    <2>1. 19 \in Nat /\ 19 + 120 <= N /\ 139 = 19 + 120 /\ 27 = 19 + 8
      BY ONLY N \in Nat, 32767 <= N
    <2> QED
      BY ONLY <1>1, <2>1, RecursAt
  <1>23. u[91] = SymDiff(u[35], u[31])
    <2>1. 31 \in Nat /\ 31 + 60 <= N /\ 91 = 31 + 60 /\ 35 = 31 + 4
      BY ONLY N \in Nat, 32767 <= N
    <2> QED
      BY ONLY <1>1, <2>1, RecursAt
  <1>24. u[35] = SymDiff(u[7], u[5])
    <2>1. 5 \in Nat /\ 5 + 30 <= N /\ 35 = 5 + 30 /\ 7 = 5 + 2
      BY ONLY N \in Nat, 32767 <= N
    <2> QED
      BY ONLY <1>1, <2>1, RecursAt
  <1>25. u[31] = SymDiff(u[3], u[1])
    <2>1. 1 \in Nat /\ 1 + 30 <= N /\ 31 = 1 + 30 /\ 3 = 1 + 2
      BY ONLY N \in Nat, 32767 <= N
    <2> QED
      BY ONLY <1>1, <2>1, RecursAt
  <1>26. u[33] = SymDiff(u[5], u[3])
    <2>1. 3 \in Nat /\ 3 + 30 <= N /\ 33 = 3 + 30 /\ 5 = 3 + 2
      BY ONLY N \in Nat, 32767 <= N
    <2> QED
      BY ONLY <1>1, <2>1, RecursAt
  <1>27. u[25] = SymDiff(u[11], u[10])
    <2>1. 10 \in Nat /\ 10 + 15 <= N /\ 25 = 10 + 15 /\ 11 = 10 + 1
      BY ONLY N \in Nat, 32767 <= N
    <2> QED
      BY ONLY <1>1, <2>1, RecursAt
  <1>28. u[27] = SymDiff(u[13], u[12])
    <2>1. 12 \in Nat /\ 12 + 15 <= N /\ 27 = 12 + 15 /\ 13 = 12 + 1
      BY ONLY N \in Nat, 32767 <= N
    <2> QED
      BY ONLY <1>1, <2>1, RecursAt
  <1>29. 14 \in u[4681]
    BY ONLY <1>2, <1>3, <1>4, <1>5, <1>18, <1>19, <1>20, <1>21, <1>22, <1>23, <1>24, <1>25, <1>26, <1>27, <1>28, <1>7, <1>8, DiffIs
  <1> QED
    BY ONLY <1>15, <1>17, <1>29, <1>7

\* What comes back after e turns comes back after any number of times e.
LEMMA ComesBack ==
    ASSUME NEW N \in Nat, NEW first, NEW u, Turned(u, first, N),
           NEW e \in 1 .. N, u[e] = u[0]
    PROVE  \A q, r \in Nat : e * q + r <= N => u[e * q + r] = u[r]
  <1>1. PICK M : M = N - e
    OBVIOUS
  <1>2. M \in Nat /\ M + e = N
    BY ONLY <1>1, N \in Nat, e \in 1 .. N
  <1>3. PICK S : S = {k \in 0 .. M : u[k + e] = u[k]}
    OBVIOUS
  <1>4. 0 \in S
    <2>1. 0 \in 0 .. M /\ 0 + e = e
      BY ONLY <1>2, e \in 1 .. N
    <2> QED
      BY ONLY <1>3, <2>1, u[e] = u[0]
  <1>5. ASSUME NEW k \in 0 .. M, k \in S, k < M PROVE k + 1 \in S
    <2>1. PICK i : i = k + e
      OBVIOUS
    <2>2. /\ k + 1 \in 0 .. M /\ (k + 1) + e = i + 1
          /\ i \in 0 .. N /\ k \in 0 .. N /\ i < N /\ k < N
      BY ONLY <1>2, <1>5, <2>1, N \in Nat, e \in 1 .. N
    <2>3. u[i + 1] = Shift(u[i]) /\ u[k + 1] = Shift(u[k])
      BY ONLY <2>2, Turned(u, first, N) DEF Turned
    <2> QED
      BY ONLY <1>3, <1>5, <2>1, <2>2, <2>3
  <1>6. \A k \in 0 .. M : u[k + e] = u[k]
    <2>1. \A k \in 0 .. M : k \in S /\ k < M => k + 1 \in S
      BY <1>5
    <2>2. \A k \in 0 .. M : k \in S
      BY ONLY <1>2, <1>4, <2>1, CountsUp
    <2> QED
      BY ONLY <1>3, <2>2
  <1> SUFFICES ASSUME NEW q \in Nat, NEW r \in Nat, e * q + r <= N
               PROVE  u[e * q + r] = u[r]
    OBVIOUS
  <1>7. PICK T : T = {p \in 0 .. q : u[e * p + r] = u[r]}
    OBVIOUS
  <1>8. 0 \in T
    <2>1. 0 \in 0 .. q /\ e * 0 + r = r
      BY ONLY q \in Nat, r \in Nat, e \in 1 .. N
    <2> QED
      BY ONLY <1>7, <2>1
  <1>9. ASSUME NEW p \in 0 .. q, p \in T, p < q PROVE p + 1 \in T
    <2>1. PICK k : k = e * p + r
      OBVIOUS
    <2>2. k \in Nat /\ e * (p + 1) + r = k + e /\ p + 1 \in 0 .. q
      BY ONLY <1>9, <2>1, q \in Nat, r \in Nat, e \in 1 .. N, N \in Nat
    <2>3. k + e <= N
      <3>1. PICK t : t = q - (p + 1)
        OBVIOUS
      <3>2. t \in Nat /\ q = (p + 1) + t
        BY ONLY <1>9, <3>1, q \in Nat
      <3>3. e * q = e * (p + 1) + e * t
        BY ONLY <1>9, <3>2, e \in 1 .. N, N \in Nat
      <3>4. e * t \in Nat
        BY ONLY <3>2, e \in 1 .. N, N \in Nat
      <3>5. e * q \in Int /\ e * (p + 1) \in Int
        BY ONLY <1>9, e \in 1 .. N, N \in Nat, q \in Nat
      <3> QED
        BY ONLY <2>2, <3>3, <3>4, <3>5, e * q + r <= N, r \in Nat, N \in Nat, e \in 1 .. N
    <2>4. k \in 0 .. M
      BY ONLY <1>2, <2>2, <2>3, e \in 1 .. N, N \in Nat
    <2> QED
      BY ONLY <1>6, <1>7, <1>9, <2>1, <2>2, <2>4
  <1>10. \A p \in 0 .. q : p \in T
    <2>1. \A p \in 0 .. q : p \in T /\ p < q => p + 1 \in T
      BY <1>9
    <2> QED
      BY ONLY <1>8, <2>1, CountsUp, q \in Nat
  <1>11. q \in 0 .. q
    BY ONLY q \in Nat
  <1> QED
    BY ONLY <1>7, <1>10, <1>11

\* The number of turns, which is 7 * 31 * 151, and its greatest divisors.
Period == 32767
Factors(e, q, p, m) == e * q = p * m
Root(n) == n = 217 \/ n = 1057 \/ n = 4681

LEMMA SevenDivides ==
    ASSUME NEW e \in Nat, NEW q \in Nat, NEW m \in Nat, Factors(e, q, 7, m)
    PROVE  (\E k \in Nat : e = 7 * k) \/ (\E k \in Nat : q = 7 * k)
  <1>1. PICK a, i : a = e \div 7 /\ i = e % 7
    OBVIOUS
  <1>2. a \in Nat /\ i \in 0 .. 6 /\ e = 7 * a + i
    BY ONLY <1>1, e \in Nat
  <1>3. PICK t : t = m - a * q
    OBVIOUS
  <1>4. t \in Int /\ i * q = 7 * t
    <2>1. e * q = 7 * (a * q) + i * q
      BY ONLY <1>2, q \in Nat
    <2>2. a * q \in Int /\ i * q \in Int
      BY ONLY <1>2, q \in Nat
    <2> QED
      BY ONLY <1>3, <2>1, <2>2, Factors(e, q, 7, m), m \in Nat DEF Factors
  <1>5. CASE i = 0
    BY ONLY <1>2, <1>5
  <1>6. CASE i # 0
    <2>1. PICK k : k = q \div 7
      OBVIOUS
    <2>2. k \in Nat /\ q = 7 * k
      BY ONLY <1>2, <1>4, <1>6, <2>1, q \in Nat
    <2> QED
      BY ONLY <2>2
  <1> QED
    BY ONLY <1>5, <1>6

LEMMA InverseOf ==
    ASSUME NEW i \in 1 .. 30
    PROVE  \E s \in 1 .. 30, v \in 0 .. 30 : s * i = 31 * v + 1
  OBVIOUS

LEMMA ThirtyOneDivides ==
    ASSUME NEW e \in Nat, NEW q \in Nat, NEW m \in Nat, Factors(e, q, 31, m)
    PROVE  (\E k \in Nat : e = 31 * k) \/ (\E k \in Nat : q = 31 * k)
  <1>1. PICK a, i : a = e \div 31 /\ i = e % 31
    OBVIOUS
  <1>2. a \in Nat /\ i \in 0 .. 30 /\ e = 31 * a + i
    BY ONLY <1>1, e \in Nat
  <1>3. PICK t : t = m - a * q
    OBVIOUS
  <1>4. t \in Int /\ i * q = 31 * t
    <2>1. e * q = 31 * (a * q) + i * q
      BY ONLY <1>2, q \in Nat
    <2>2. a * q \in Int /\ i * q \in Int
      BY ONLY <1>2, q \in Nat
    <2> QED
      BY ONLY <1>3, <2>1, <2>2, Factors(e, q, 31, m), m \in Nat DEF Factors
  <1>5. CASE i = 0
    BY ONLY <1>2, <1>5
  <1>6. CASE i # 0
    <2>1. i \in 1 .. 30
      BY ONLY <1>2, <1>6
    <2>2. PICK s \in 1 .. 30, v \in 0 .. 30 : s * i = 31 * v + 1
      BY ONLY <2>1, InverseOf
    <2>3. s * (i * q) = 31 * (v * q) + q
      <3>1. s * (i * q) = (s * i) * q
        BY ONLY <2>1, <2>2, q \in Nat
      <3>2. (31 * v + 1) * q = 31 * (v * q) + q
        BY ONLY <2>2, q \in Nat
      <3> QED
        BY ONLY <2>2, <3>1, <3>2
    <2>4. PICK k : k = s * t - v * q
      OBVIOUS
    <2>5. s * (31 * t) = 31 * (s * t)
      BY ONLY <1>4, <2>2
    <2>6. s * t \in Int /\ v * q \in Int
      BY ONLY <1>4, <2>2, q \in Nat
    <2>7. k \in Int /\ q = 31 * k
      BY ONLY <1>4, <2>3, <2>4, <2>5, <2>6, q \in Nat
    <2> QED
      BY ONLY <2>7, q \in Nat
  <1> QED
    BY ONLY <1>5, <1>6

LEMMA DivisorsAre ==
    ASSUME NEW e \in Nat, e < Period, NEW q \in Nat, e * q = Period
    PROVE  \E m \in Nat : Root(e * m)
  <1>0. e * q = 32767 /\ e < 32767
    BY ONLY e < Period, e * q = Period DEF Period
  <1>1. CASE \E k \in Nat : q = 7 * k
    <2>1. PICK k \in Nat : q = 7 * k
      BY ONLY <1>1
    <2>2. e * (7 * k) = 7 * (e * k) /\ e * k \in Int
      BY ONLY <2>1, e \in Nat
    <2>3. e * k = 4681
      BY ONLY <2>1, <2>2, <1>0
    <2> QED
      BY ONLY <2>1, <2>3 DEF Root
  <1>2. CASE \E k \in Nat : e = 7 * k
    <2>1. PICK c \in Nat : e = 7 * c
      BY ONLY <1>2
    <2>2. (7 * c) * q = 7 * (c * q) /\ c * q \in Int
      BY ONLY <2>1, q \in Nat
    <2>3. c * q = 4681 /\ 4681 = 31 * 151
      BY ONLY <2>1, <2>2, <1>0
    <2>4. CASE \E k \in Nat : q = 31 * k
      <3>1. PICK k \in Nat : q = 31 * k
        BY ONLY <2>4
      <3>2. e * (31 * k) = 31 * (e * k) /\ e * k \in Int
        BY ONLY <3>1, e \in Nat
      <3>3. e * k = 1057
        BY ONLY <3>1, <3>2, <1>0
      <3> QED
        BY ONLY <3>1, <3>3 DEF Root
    <2>5. CASE \E k \in Nat : c = 31 * k
      <3>1. PICK k \in Nat : c = 31 * k
        BY ONLY <2>5
      <3>2. (31 * k) * q = 31 * (k * q) /\ k * q \in Int
        BY ONLY <3>1, q \in Nat
      <3>3. k * q = 151
        BY ONLY <2>3, <3>1, <3>2
      <3>4. k = 1
        <4>1. k # 0 /\ q # 0 /\ q # 1
          BY ONLY <2>1, <3>1, <3>3, <1>0, e \in Nat, q \in Nat
        <4>2. CASE k \in 2 .. 12
          BY ONLY <3>3, <4>2, q \in Nat
        <4>3. CASE q \in 2 .. 12
          BY ONLY <3>1, <3>3, <4>3
        <4>4. CASE k >= 13 /\ q >= 13
          <5>1. PICK x, y : x = k - 13 /\ y = q - 13
            OBVIOUS
          <5>2. x \in Nat /\ y \in Nat /\ k = x + 13 /\ q = y + 13
            BY ONLY <3>1, <4>4, <5>1, q \in Nat
          <5>3. x * y \in Nat /\ k * q = x * y + 13 * x + 13 * y + 169
            BY ONLY <5>2
          <5> QED
            BY ONLY <3>3, <5>2, <5>3
        <4> QED
          BY ONLY <3>1, <4>1, <4>2, <4>3, <4>4, q \in Nat
      <3>5. e * 1 = 217 /\ 1 \in Nat
        BY ONLY <2>1, <3>1, <3>4
      <3> QED
        BY ONLY <3>5 DEF Root
    <2>6. PICK m : m = 151
      OBVIOUS
    <2>7. m \in Nat /\ Factors(c, q, 31, m)
      BY ONLY <2>3, <2>6 DEF Factors
    <2>8. (\E k \in Nat : c = 31 * k) \/ (\E k \in Nat : q = 31 * k)
      <3>1. c \in Nat
        BY ONLY <2>1
      <3> QED
        BY ONLY <2>7, <3>1, ThirtyOneDivides, q \in Nat
    <2> QED
      BY ONLY <2>4, <2>5, <2>8
  <1> QED
    <2>1. PICK m : m = 4681
      OBVIOUS
    <2>2. m \in Nat /\ Factors(e, q, 7, m)
      BY ONLY <1>0, <2>1 DEF Factors
    <2>3. (\E k \in Nat : e = 7 * k) \/ (\E k \in Nat : q = 7 * k)
      BY ONLY <2>2, SevenDivides, e \in Nat, q \in Nat
    <2> QED
      BY ONLY <1>1, <1>2, <2>3

\* The order of x: what two flipped bits leave is itself again after 32767 turns.
LEMMA OrderIs ==
    ASSUME NEW N \in Nat, Period <= N, NEW u, Turned(u, {13, 15}, N),
           NEW d \in Nat, d # 0, d < Period
    PROVE  u[d] # u[0]
  <1> SUFFICES ASSUME u[d] = u[0] PROVE FALSE
    OBVIOUS
  <1>0. 32767 <= N /\ Period = 32767
    BY DEF Period
  <1>1. PICK E : E = {k \in Nat : k # 0 /\ k < Period /\ u[k] = u[0]}
    OBVIOUS
  <1>2. PICK e \in E : \A k \in E : e <= k
    <2>1. E \in SUBSET Nat /\ E # {}
      BY ONLY <1>1, d \in Nat, d # 0, d < Period, u[d] = u[0]
    <2> QED
      BY ONLY <2>1, LeastNumber
  <1>3. e \in Nat /\ e # 0 /\ e < Period /\ u[e] = u[0] /\ e \in 1 .. N
    <2>1. e \in Nat /\ e # 0 /\ e < Period /\ u[e] = u[0]
      BY ONLY <1>1, <1>2
    <2> QED
      BY ONLY <1>0, <2>1, N \in Nat
  <1>4. \A q, r \in Nat : e * q + r <= N => u[e * q + r] = u[r]
    BY ONLY <1>3, ComesBack, N \in Nat, Turned(u, {13, 15}, N)
  <1>5. PICK R : R = {r \in Nat : \E q \in Nat : e * q + r = Period}
    OBVIOUS
  <1>6. PICK r \in R : \A s \in R : r <= s
    <2>1. Period \in R
      <3>1. e * 0 + Period = Period /\ Period \in Nat /\ 0 \in Nat
        BY ONLY <1>0, <1>3
      <3> QED
        BY ONLY <1>5, <3>1
    <2>2. R \in SUBSET Nat /\ R # {}
      BY ONLY <1>5, <2>1
    <2> QED
      BY ONLY <2>2, LeastNumber
  <1>7. PICK q \in Nat : e * q + r = Period
    BY ONLY <1>5, <1>6
  <1>8. r \in Nat /\ r < e
    <2>1. r \in Nat
      BY ONLY <1>5, <1>6
    <2>2. CASE r >= e
      <3>1. PICK s : s = r - e
        OBVIOUS
      <3>2. s \in Nat /\ r = s + e /\ ~ (r <= s)
        BY ONLY <1>3, <2>1, <2>2, <3>1
      <3>3. e * (q + 1) = e * q + e /\ e * q \in Int
        BY ONLY <1>3, <1>7
      <3>4. e * (q + 1) + s = Period /\ q + 1 \in Nat
        BY ONLY <1>0, <1>3, <1>7, <3>2, <3>3
      <3>5. s \in R
        BY ONLY <1>5, <3>2, <3>4
      <3> QED
        BY ONLY <1>6, <3>2, <3>5
    <2> QED
      BY ONLY <1>3, <2>1, <2>2
  <1>9. u[r] = u[0]
    <2>1. u[Period] = u[0]
      BY ONLY <1>0, BackAgain, N \in Nat, Turned(u, {13, 15}, N)
    <2>2. e * q + r <= N
      BY ONLY <1>7, N \in Nat, Period <= N
    <2>3. u[e * q + r] = u[r]
      BY ONLY <1>4, <1>7, <1>8, <2>2
    <2> QED
      BY ONLY <1>7, <2>1, <2>3
  <1>10. r = 0
    <2> SUFFICES ASSUME r # 0 PROVE FALSE
      OBVIOUS
    <2>1. r \in Nat /\ r < Period /\ ~ (e <= r)
      BY ONLY <1>0, <1>3, <1>8
    <2>2. r \in E
      BY ONLY <1>1, <1>9, <2>1, r # 0
    <2> QED
      BY ONLY <1>2, <2>1, <2>2
  <1>11. e * q = Period
    <2>1. e * q \in Int
      BY ONLY <1>3, <1>7
    <2> QED
      BY ONLY <1>0, <1>7, <1>10, <2>1
  <1>12. PICK m \in Nat : e * m = 217 \/ e * m = 1057 \/ e * m = 4681
    <2>1. \E m \in Nat : Root(e * m)
      BY ONLY <1>3, <1>7, <1>11, DivisorsAre
    <2> QED
      BY ONLY <2>1 DEF Root
  <1>13. e * m + 0 = e * m /\ e * m + 0 <= N /\ 0 \in Nat
    BY ONLY <1>0, <1>12, N \in Nat
  <1>14. u[e * m] = u[0]
    BY ONLY <1>4, <1>12, <1>13
  <1>15. u[217] # u[0] /\ u[1057] # u[0] /\ u[4681] # u[0]
    BY ONLY <1>0, NotBack, N \in Nat, Turned(u, {13, 15}, N)
  <1> QED
    BY ONLY <1>12, <1>14, <1>15

LEMMA TurnedFrom ==
    ASSUME NEW N \in Nat, NEW first, NEW f, Turned(f, first, N), NEW a \in 0 .. N,
           NEW M, M = N - a, NEW g, g = [k \in 0 .. M |-> f[k + a]]
    PROVE  Turned(g, f[a], M)
  <1>1. M \in Nat /\ M + a = N
    BY ONLY N \in Nat, a \in 0 .. N, M = N - a
  <1>2. \A k \in 0 .. N : f[k] \in SUBSET Nat /\ (k < N => f[k + 1] = Shift(f[k]))
    BY DEF Turned
  <1>3. \A k \in 0 .. M : g[k] = f[k + a]
    BY ONLY g = [k \in 0 .. M |-> f[k + a]]
  <1>4. ASSUME NEW k \in 0 .. M
        PROVE  g[k] \in SUBSET Nat /\ (k < M => g[k + 1] = Shift(g[k]))
    <2>1. PICK n : n = k + a
      OBVIOUS
    <2>2. n \in 0 .. N /\ (k + 1) + a = n + 1 /\ (k < M => n < N /\ k + 1 \in 0 .. M)
      BY ONLY <1>1, <2>1, N \in Nat, a \in 0 .. N, k \in 0 .. M
    <2>3. g[k] = f[n]
      BY ONLY <1>3, <2>1, k \in 0 .. M
    <2>4. k < M => g[k + 1] = f[n + 1]
      BY ONLY <1>3, <2>2
    <2> QED
      BY ONLY <1>2, <2>2, <2>3, <2>4
  <1>5. g[0] = f[a]
    <2>1. 0 \in 0 .. M /\ 0 + a = a
      BY ONLY <1>1, a \in 0 .. N
    <2> QED
      BY ONLY <1>3, <2>1
  <1> QED
    BY <1>4, <1>5 DEF Turned

\* The register is turned in one way.
LEMMA TurnedIsOne ==
    ASSUME NEW N \in Nat, NEW M \in Nat, N <= M, NEW first, NEW f, NEW g,
           Turned(f, first, N), Turned(g, first, M)
    PROVE  f[N] = g[N]
  <1>1. PICK S : S = {k \in 0 .. N : f[k] = g[k]}
    OBVIOUS
  <1>2. 0 \in S
    BY <1>1 DEF Turned
  <1>3. ASSUME NEW k \in 0 .. N, k \in S, k < N PROVE k + 1 \in S
    <2>1. k \in 0 .. M /\ k < M /\ k + 1 \in 0 .. N
      BY ONLY <1>3, N \in Nat, M \in Nat, N <= M
    <2>2. f[k + 1] = Shift(f[k]) /\ g[k + 1] = Shift(g[k])
      BY <1>3, <2>1 DEF Turned
    <2> QED
      BY ONLY <1>1, <1>3, <2>1, <2>2
  <1>4. \A k \in 0 .. N : k \in S
    <2>1. \A k \in 0 .. N : k \in S /\ k < N => k + 1 \in S
      BY <1>3
    <2> QED
      BY ONLY <1>2, <2>1, CountsUp, N \in Nat
  <1>5. N \in 0 .. N
    OBVIOUS
  <1> QED
    BY ONLY <1>1, <1>4, <1>5

\* What is in the register stays in it, and never becomes nothing.
LEMMA RegisterStays ==
    ASSUME NEW N \in Nat, NEW first \in SUBSET (0 .. 15), NEW f, Turned(f, first, N)
    PROVE  f[N] \in SUBSET (0 .. 15) /\ (first # {} => f[N] # {})
  <1>1. PICK S : S = {k \in 0 .. N : f[k] \in SUBSET (0 .. 15) /\ (first # {} => f[k] # {})}
    OBVIOUS
  <1>2. 0 \in S
    BY <1>1 DEF Turned
  <1>3. ASSUME NEW k \in 0 .. N, k \in S, k < N PROVE k + 1 \in S
    <2>1. k + 1 \in 0 .. N
      BY ONLY <1>3, N \in Nat
    <2>2. f[k + 1] = Shift(f[k])
      BY <1>3 DEF Turned
    <2>3. f[k] \in SUBSET (0 .. 15) /\ (first # {} => f[k] # {})
      BY ONLY <1>1, <1>3
    <2>4. Shift(f[k]) \in SUBSET (0 .. 15) /\ (first # {} => Shift(f[k]) # {})
      BY ONLY <2>3, ShiftStays, ShiftKeeps
    <2> QED
      BY ONLY <1>1, <2>1, <2>2, <2>4
  <1>4. \A k \in 0 .. N : k \in S
    <2>1. \A k \in 0 .. N : k \in S /\ k < N => k + 1 \in S
      BY <1>3
    <2> QED
      BY ONLY <1>2, <2>1, CountsUp, N \in Nat
  <1>5. N \in 0 .. N
    OBVIOUS
  <1> QED
    BY ONLY <1>1, <1>4, <1>5

\* A single bit to come comes near.
LEMMA BitComes ==
    ASSUME NEW p \in Nat, NEW f, Turned(f, {p}, p)
    PROVE  f[p] = {0}
  <1>1. PICK S : S = {k \in 0 .. p : \A j \in Nat : j \in f[k] <=> j + k = p}
    OBVIOUS
  <1>2. 0 \in S
    <2>1. f[0] = {p}
      BY DEF Turned
    <2>2. \A j \in Nat : j \in {p} <=> j + 0 = p
      BY ONLY p \in Nat
    <2>3. 0 \in 0 .. p
      BY ONLY p \in Nat
    <2> QED
      BY ONLY <1>1, <2>1, <2>2, <2>3
  <1>3. ASSUME NEW k \in 0 .. p, k \in S, k < p PROVE k + 1 \in S
    <2>1. k + 1 \in 0 .. p /\ k \in Nat
      BY ONLY <1>3, p \in Nat
    <2>2. f[k] \in SUBSET Nat /\ f[k + 1] = Shift(f[k])
      BY <1>3 DEF Turned
    <2>3. \A j \in Nat : j \in f[k] <=> j + k = p
      BY ONLY <1>1, <1>3
    <2>4. 0 \notin f[k]
      BY ONLY <1>3, <2>1, <2>3
    <2>5. \A j \in Nat : j \in f[k + 1] <=> j + 1 \in f[k]
      BY <2>2, <2>4, ShiftIs DEF Turns
    <2>6. ASSUME NEW j \in Nat PROVE j \in f[k + 1] <=> j + (k + 1) = p
      <3>1. j + 1 \in Nat /\ (j + 1) + k = j + (k + 1)
        BY ONLY <2>1, j \in Nat
      <3> QED
        BY ONLY <2>3, <2>5, <3>1
    <2> QED
      BY ONLY <1>1, <2>1, <2>6
  <1>4. \A k \in 0 .. p : k \in S
    <2>1. \A k \in 0 .. p : k \in S /\ k < p => k + 1 \in S
      BY <1>3
    <2> QED
      BY ONLY <1>2, <2>1, CountsUp, p \in Nat
  <1>5. \A j \in Nat : j \in f[p] <=> j + p = p
    <2>1. p \in 0 .. p
      BY ONLY p \in Nat
    <2> QED
      BY ONLY <1>1, <1>4, <2>1
  <1>6. f[p] \in SUBSET Nat
    BY DEF Turned
  <1>7. \A j \in Nat : j \in f[p] <=> j \in {0}
    BY ONLY <1>5, p \in Nat
  <1>8. {0} \in SUBSET Nat
    OBVIOUS
  <1> QED
    BY ONLY <1>6, <1>7, <1>8, SamePlaces

\* The first place of the register, turned fewer times than the order, is another.
LEMMA BitIsAnother ==
    ASSUME NEW d \in Nat, d # 0, d < Period, NEW f, Turned(f, {0}, d)
    PROVE  f[d] # {0}
  <1> SUFFICES ASSUME f[d] = {0} PROVE FALSE
    OBVIOUS
  <1>1. PICK N, M : N = Period /\ M = N + 1
    OBVIOUS
  <1>2. /\ N \in Nat /\ M \in Nat /\ d \in 0 .. N /\ d + 1 \in 0 .. M /\ d <= M /\ d \in 0 .. M
        /\ d < M /\ Period <= N /\ 0 \in 0 .. M /\ 0 < M /\ 0 + 1 = 1 /\ 0 \in 0 .. N
        /\ 1 \in 0 .. M /\ \A k \in 0 .. N : k \in 0 .. M /\ k < M /\ k + 1 \in 0 .. M
    <2>1. Period \in Nat /\ 0 < Period
      BY ONLY DEF Period
    <2> QED
      BY ONLY <1>1, <2>1, d \in Nat, d < Period
  <1>3. PICK F : Turned(F, {0}, M)
    <2>1. {0} \in SUBSET Nat
      OBVIOUS
    <2> QED
      BY ONLY <1>2, <2>1, TurnedExists
  <1>4. \A k \in 0 .. M : F[k] \in SUBSET Nat /\ (k < M => F[k + 1] = Shift(F[k]))
    BY <1>3 DEF Turned
  <1>5. F[0] = {0} /\ F[d] = {0}
    <2>1. F[0] = {0}
      BY <1>3 DEF Turned
    <2>2. f[d] = F[d]
      BY ONLY <1>2, <1>3, TurnedIsOne, d \in Nat, Turned(f, {0}, d)
    <2> QED
      BY ONLY <2>1, <2>2, f[d] = {0}
  <1>6. F[d + 1] = F[1]
    BY ONLY <1>2, <1>4, <1>5
  <1>7. PICK u : u = [k \in 0 .. N |-> SymDiff(F[k], F[k + 1])]
    OBVIOUS
  <1>8. \A k \in 0 .. N : u[k] = SymDiff(F[k], F[k + 1])
    BY ONLY <1>7
  <1>9. u[0] = {13, 15}
    <2>1. PICK A, D : A = F[1] /\ D = SymDiff({0}, A)
      OBVIOUS
    <2>2. {0} \in SUBSET Nat /\ A = Shift({0})
      BY ONLY <1>2, <1>4, <1>5, <2>1
    <2>3. A \in SUBSET Nat
      BY ONLY <2>2, ShiftIs
    <2>4. ASSUME NEW j \in Nat PROVE j \in A <=> j \in {0, 13, 15}
      <3>1. j \in A <=> \/ j + 1 \in {0} /\ ~ Turns({0}, j)
                        \/ j + 1 \notin {0} /\ Turns({0}, j)
        BY ONLY <2>2, ShiftIs, j \in Nat
      <3>2. j + 1 \notin {0} /\ (Turns({0}, j) <=> j \in {0, 13, 15})
        BY ONLY j \in Nat DEF Turns, Generator
      <3> QED
        BY ONLY <3>1, <3>2
    <2>5. D \in SUBSET Nat
      BY ONLY <2>1, <2>2, <2>3, DiffStays
    <2>6. \A j : j \in D <=> (j \in {0} /\ j \notin A) \/ (j \in A /\ j \notin {0})
      BY ONLY <2>1, DiffIs
    <2>7. \A j \in Nat : j \in D <=> j \in {13, 15}
      BY ONLY <2>4, <2>6
    <2>8. {13, 15} \in SUBSET Nat
      OBVIOUS
    <2>9. D = {13, 15}
      BY ONLY <2>5, <2>7, <2>8, SamePlaces
    <2> QED
      BY ONLY <1>2, <1>5, <1>8, <2>1, <2>9
  <1>10. ASSUME NEW k \in 0 .. N
         PROVE  u[k] \in SUBSET Nat /\ (k < N => u[k + 1] = Shift(u[k]))
    <2>1. PICK A, B : A = F[k] /\ B = F[k + 1]
      OBVIOUS
    <2>2. A \in SUBSET Nat /\ B \in SUBSET Nat /\ B = Shift(A) /\ u[k] = SymDiff(A, B)
      BY ONLY <1>2, <1>4, <1>8, <2>1, k \in 0 .. N
    <2>3. u[k] \in SUBSET Nat
      BY ONLY <2>2, DiffStays
    <2>4. ASSUME k < N PROVE u[k + 1] = Shift(u[k])
      <3>1. k + 1 \in 0 .. N
        BY ONLY <1>2, <2>4, k \in 0 .. N
      <3>2. F[(k + 1) + 1] = Shift(B) /\ u[k + 1] = SymDiff(B, F[(k + 1) + 1])
        BY ONLY <1>2, <1>4, <1>8, <2>1, <3>1
      <3>3. Shift(SymDiff(A, B)) = SymDiff(Shift(A), Shift(B))
        BY ONLY <2>2, ShiftAdds
      <3> QED
        BY ONLY <2>2, <3>2, <3>3
    <2> QED
      BY ONLY <2>3, <2>4
  <1>11. Turned(u, {13, 15}, N)
    BY <1>9, <1>10 DEF Turned
  <1>12. u[d] = u[0]
    <2>1. u[d] = SymDiff(F[d], F[d + 1]) /\ u[0] = SymDiff(F[0], F[1])
      BY ONLY <1>2, <1>8
    <2> QED
      BY ONLY <1>5, <1>6, <2>1
  <1> QED
    BY ONLY <1>2, <1>11, <1>12, OrderIs, d \in Nat, d # 0, d < Period

\* A pair: when the second comes near, the first has become something else.
LEMMA PairStays ==
    ASSUME NEW N \in Nat, NEW p \in Nat, NEW q \in Nat, p < q, q < N, q - p < Period,
           NEW h, Turned(h, {p, q}, N)
    PROVE  h[N] # {}
  <1>1. PICK d, M : d = q - p /\ M = N - q
    OBVIOUS
  <1>2. /\ d \in Nat /\ d # 0 /\ d < Period /\ M \in Nat /\ q \in 0 .. N /\ p \in 0 .. q /\ p <= q
        /\ q <= N /\ d + p = q /\ M + q = N
    BY ONLY <1>1, N \in Nat, p \in Nat, q \in Nat, p < q, q < N, q - p < Period
  <1>3. PICK f : Turned(f, {p}, q)
    <2>1. {p} \in SUBSET Nat
      BY ONLY p \in Nat
    <2> QED
      BY ONLY <2>1, TurnedExists, q \in Nat
  <1>4. PICK g : Turned(g, {q}, q)
    <2>1. {q} \in SUBSET Nat
      BY ONLY q \in Nat
    <2> QED
      BY ONLY <2>1, TurnedExists, q \in Nat
  <1>5. g[q] = {0}
    BY ONLY <1>4, BitComes, q \in Nat
  <1>6. f[p] = {0}
    <2>1. PICK e : Turned(e, {p}, p)
      <3>1. {p} \in SUBSET Nat
        BY ONLY p \in Nat
      <3> QED
        BY ONLY <3>1, TurnedExists, p \in Nat
    <2>2. e[p] = {0}
      BY ONLY <2>1, BitComes, p \in Nat
    <2>3. e[p] = f[p]
      BY ONLY <1>2, <1>3, <2>1, TurnedIsOne, p \in Nat, q \in Nat
    <2> QED
      BY ONLY <2>2, <2>3
  <1>7. f[q] # {0} /\ f[q] \in SUBSET (0 .. 15)
    <2>1. PICK e : e = [k \in 0 .. d |-> f[k + p]]
      OBVIOUS
    <2>2. Turned(e, f[p], d)
      BY ONLY <1>1, <1>2, <1>3, <2>1, TurnedFrom, q \in Nat
    <2>3. Turned(e, {0}, d)
      BY ONLY <1>6, <2>2
    <2>4. e[d] = f[q]
      <3>1. d \in 0 .. d
        BY ONLY <1>2
      <3> QED
        BY ONLY <1>2, <2>1, <3>1
    <2>5. e[d] # {0}
      BY ONLY <1>2, <2>3, BitIsAnother
    <2>6. {0} \in SUBSET (0 .. 15)
      OBVIOUS
    <2>7. e[d] \in SUBSET (0 .. 15)
      BY ONLY <1>2, <2>3, <2>6, RegisterStays
    <2> QED
      BY ONLY <2>4, <2>5, <2>7
  <1>8. PICK c : Turned(c, {p, q}, q)
    <2>1. {p, q} \in SUBSET Nat
      BY ONLY p \in Nat, q \in Nat
    <2> QED
      BY ONLY <2>1, TurnedExists, q \in Nat
  <1>9. h[q] = SymDiff(f[q], {0})
    <2>1. SymDiff({p}, {q}) = {p, q}
      <3>1. \A x : x \in SymDiff({p}, {q}) <=> x \in {p, q}
        <4>1. p # q
          BY ONLY p \in Nat, q \in Nat, p < q
        <4> QED
          BY ONLY <4>1, DiffIs
      <3> QED
        BY ONLY <3>1
    <2>2. Turned(c, SymDiff({p}, {q}), q)
      BY ONLY <1>8, <2>1
    <2>3. c[q] = SymDiff(f[q], g[q])
      BY ONLY <1>3, <1>4, <2>2, TurnedAdds, q \in Nat
    <2>4. c[q] = h[q]
      BY ONLY <1>2, <1>8, TurnedIsOne, q \in Nat, N \in Nat, Turned(h, {p, q}, N)
    <2> QED
      BY ONLY <1>5, <2>3, <2>4
  <1>10. h[q] \in SUBSET (0 .. 15) /\ h[q] # {}
    <2>1. PICK A, D : A = f[q] /\ D = SymDiff(A, {0})
      OBVIOUS
    <2>2. \A x : x \in D <=> (x \in A /\ x \notin {0}) \/ (x \in {0} /\ x \notin A)
      BY ONLY <2>1, DiffIs
    <2>3. A \in SUBSET (0 .. 15) /\ A # {0}
      BY ONLY <1>7, <2>1
    <2>4. D \in SUBSET (0 .. 15)
      <3>1. \A x : x \in D => x \in A \/ x \in {0}
        BY ONLY <2>2
      <3>2. 0 \in 0 .. 15
        OBVIOUS
      <3>3. \A x : x \in D => x \in 0 .. 15
        BY ONLY <2>3, <3>1, <3>2
      <3> QED
        BY ONLY <3>3
    <2>5. D # {}
      <3> SUFFICES ASSUME D = {} PROVE FALSE
        OBVIOUS
      <3>1. \A x : x \in A <=> x \in {0}
        BY ONLY <2>2, D = {}
      <3>2. A = {0}
        BY ONLY <3>1
      <3> QED
        BY ONLY <2>3, <3>2
    <2> QED
      BY ONLY <1>9, <2>1, <2>4, <2>5
  <1>11. PICK e : e = [k \in 0 .. M |-> h[k + q]]
    OBVIOUS
  <1>12. Turned(e, h[q], M)
    BY ONLY <1>1, <1>2, <1>11, TurnedFrom, N \in Nat, Turned(h, {p, q}, N)
  <1>13. e[M] # {}
    BY ONLY <1>2, <1>10, <1>12, RegisterStays
  <1>14. e[M] = h[N]
    <2>1. M \in 0 .. M
      BY ONLY <1>2
    <2> QED
      BY ONLY <1>2, <1>11, <2>1
  <1> QED
    BY ONLY <1>13, <1>14

Short(bytes) == Len(bytes) < 4096

LEMMA PairIsFound ==
    ASSUME NEW frame \in Seq(Octet), ValidateCrc(frame), Short(frame),
           NEW p \in Nat, NEW q \in Nat, p < q, q < 8 * Len(frame)
    PROVE  ~ ValidateCrc(Damaged(frame, {p, q}))
  <1> SUFFICES ASSUME ValidateCrc(Damaged(frame, {p, q})) PROVE FALSE
    OBVIOUS
  <1>1. PICK N, places : N = 8 * Len(frame) /\ places = {p, q}
    OBVIOUS
  <1>2. Len(frame) \in Nat
    BY ONLY frame \in Seq(Octet)
  <1>3. N \in Nat /\ q < N /\ q - p < Period /\ places \subseteq 0 .. N - 1
    BY ONLY <1>1, <1>2, Short(frame), p \in Nat, q \in Nat, p < q, q < 8 * Len(frame)
       DEF Period, Short
  <1>4. PICK g : Turned(g, places, N) /\ g[N] = {}
    BY ONLY <1>1, <1>3, UnnoticedLeaves, frame \in Seq(Octet), ValidateCrc(frame),
            ValidateCrc(Damaged(frame, {p, q}))
  <1>5. g[N] # {}
    BY ONLY <1>1, <1>3, <1>4, PairStays, p \in Nat, q \in Nat, p < q
  <1> QED
    BY ONLY <1>4, <1>5

\* No more than two places, of which two are given.
LEMMA OnlyTwo ==
    ASSUME NEW n \in Int, NEW P, P \subseteq 0 .. n, ~ (Cardinality(P) > 2),
           NEW p \in P, NEW q \in P, p # q
    PROVE  P = {p, q}
  <1>1. IsFiniteSet(P)
    <2>1. IsFiniteSet(0 .. n)
      BY FS_Interval
    <2> QED
      BY <2>1, FS_Subset
  <1>2. ASSUME NEW r \in P, r \notin {p, q} PROVE FALSE
    <2>1. IsFiniteSet({p}) /\ Cardinality({p}) = 1
      BY ONLY FS_Singleton
    <2>2. IsFiniteSet({p} \cup {q}) /\ Cardinality({p} \cup {q}) = 2
      <3>1. q \notin {p}
        BY ONLY p # q
      <3> QED
        BY ONLY <2>1, <3>1, FS_AddElement
    <2>3. Cardinality(({p} \cup {q}) \cup {r}) = 3
      <3>1. r \notin {p} \cup {q}
        BY ONLY <1>2
      <3> QED
        BY ONLY <2>2, <3>1, FS_AddElement
    <2>4. (({p} \cup {q}) \cup {r}) \in SUBSET P
      BY ONLY <1>2, p \in P, q \in P
    <2>5. 3 <= Cardinality(P)
      BY ONLY <1>1, <2>3, <2>4, FS_Subset
    <2>6. Cardinality(P) \in Nat
      BY ONLY <1>1, FS_CardinalityType
    <2> QED
      BY ONLY <2>5, <2>6, ~ (Cardinality(P) > 2)
  <1> QED
    BY <1>2

\* validate_crc: and no frame below 4096 bytes in which it flipped two, at any
\* distance.
THEOREM DamageReported == LineSpec => []DamageIsReported
  <1>1. ASSUME LineInv, BurstsAreReported PROVE DamageIsReported
    <2> SUFFICES ASSUME stage = "received", flipped # {}, verified, Short(line),
                        ~ (Cardinality(flipped) > 2)
                 PROVE  Unread
      BY <1>1 DEF DamageIsReported, PairsAreReported, Short
    <2>1. CASE \A p, q \in flipped : ~ (p - q > 15)
      BY <1>1, <2>1 DEF BurstsAreReported
    <2>2. CASE \E p, q \in flipped : p - q > 15
      <3>1. PICK q \in flipped, p \in flipped : q - p > 15
        BY <2>2
      <3>2. PICK class : Sends(class, sent)
        BY <1>1, PacketsAre DEF LineInv
      <3>3. PICK bytes, frame : bytes = Serialize(sent.pdu) /\ frame = SerializeRtu(sent)
        OBVIOUS
      <3>4. RtuPacks(sent)
        BY <1>1 DEF LineInv
      <3>5. InFrame(sent.slave_id, bytes, frame)
        BY ONLY <3>2, <3>3, <3>4, FrameOfPacket
      <3>6. frame \in Seq(Octet) /\ ValidateCrc(frame) /\ Len(frame) \in Nat
        BY ONLY <3>5 DEF InFrame
      <3>7. flipped \subseteq 0 .. 8 * Len(frame) - 1
        BY <1>1, <3>3 DEF LineInv, InTheFrame
      <3>8. p \in Nat /\ q \in Nat /\ p < q /\ p # q /\ q < 8 * Len(frame)
        BY ONLY <3>1, <3>6, <3>7
      <3>9. flipped = {p, q}
        <4>1. PICK n : n = 8 * Len(frame) - 1
          OBVIOUS
        <4>2. n \in Int
          BY ONLY <3>6, <4>1
        <4> QED
          BY ONLY <3>1, <3>7, <3>8, <4>1, <4>2, OnlyTwo, ~ (Cardinality(flipped) > 2)
      <3>10. line = Damaged(frame, flipped)
        BY <1>1, <3>3 DEF LineInv, OnTheLine, Arrived
      <3>11. Short(frame)
        BY ONLY <3>6, <3>10, DamagedIs, Short(line) DEF Short
      <3>12. ~ ValidateCrc(Damaged(frame, {p, q}))
        BY ONLY <3>6, <3>8, <3>11, PairIsFound
      <3>13. outcome = DeserializeRtu(Damaged(frame, flipped), side, verified)
        BY <1>1, <3>3 DEF LineInv, WasRead, AsRead, Arrived
      <3>14. outcome = Raises("ModbusPacketError")
        BY ONLY <3>9, <3>12, <3>13, verified DEF DeserializeRtu
      <3> QED
        BY <3>14 DEF Unread, Raises
    <2> QED
      BY <2>1, <2>2
  <1> QED
    BY <1>1, LineIsAsWritten, BurstsReported, PTL
=============================================================================
