-------------------------------- MODULE Pdu --------------------------------
(***************************************************************************)
(* The protocol data units (pdu/*.py): what each class lays out, packs,    *)
(* unpacks, sizes from a prefix and finds to be a violation.  A class is   *)
(* its declarations; the methods every class repeats are one operator      *)
(* each.  Bytes are numbers from 0 to 255.                                 *)
(*                                                                         *)
(* A definition introduced as a mutant is the one after it with a mistake  *)
(* in it; nothing here uses one.                                           *)
(***************************************************************************)
EXTENDS Integers, Sequences, FiniteSets, SequencesExt

(***************************************************************************)
(* A class: PDU_ID, the widths in bytes of PDU_FIELDS, the width of an     *)
(* item of PDU_TAIL (0: no tail), whether the last field is PDU_COUNT,     *)
(* LIMITS, and the rule its violations() adds.                             *)
(***************************************************************************)
Rsp(fc) == 32768 + fc

Bound(at, low, high) == [at |-> at, low |-> low, high |-> high]

Fixed(id, widths, limits, rule) ==
    [id |-> id, widths |-> widths, item |-> 0, counts |-> FALSE,
     limits |-> limits, rule |-> rule]

Counted(id, widths, item, limits, rule) ==
    [Fixed(id, widths, limits, rule) EXCEPT !.item = item, !.counts = TRUE]

Open(id, widths, item, limits, rule) ==
    [Fixed(id, widths, limits, rule) EXCEPT !.item = item]

\* The base class, and the answer that reports an exception.
ModbusPdu   == Open(0, <<>>, 1, {}, "none")
ModbusError == Fixed(Rsp(0), <<1>>, {}, "none")

ModbusRequestFC1  == Fixed(1, <<2, 2>>, {Bound(2, 1, 2000)}, "none")
ModbusResponseFC1 == Counted(Rsp(1), <<1>>, 1, {}, "tail")
ModbusRequestFC2  == Fixed(2, <<2, 2>>, {Bound(2, 1, 2000)}, "none")
ModbusResponseFC2 == Counted(Rsp(2), <<1>>, 1, {}, "tail")
ModbusRequestFC5  == Fixed(5, <<2, 2>>, {}, "coil")
ModbusResponseFC5 == Fixed(Rsp(5), <<2, 2>>, {}, "coil")
ModbusRequestFC15  == Counted(15, <<2, 2, 1>>, 1, {Bound(2, 1, 1968)}, "bits")
ModbusResponseFC15 == Fixed(Rsp(15), <<2, 2>>, {Bound(2, 1, 1968)}, "none")

ModbusRequestFC3  == Fixed(3, <<2, 2>>, {Bound(2, 1, 125)}, "none")
ModbusResponseFC3 == Counted(Rsp(3), <<1>>, 2, {}, "tail")
ModbusRequestFC4  == Fixed(4, <<2, 2>>, {Bound(2, 1, 125)}, "none")
ModbusResponseFC4 == Counted(Rsp(4), <<1>>, 2, {}, "tail")
ModbusRequestFC6  == Fixed(6, <<2, 2>>, {}, "none")
ModbusResponseFC6 == Fixed(Rsp(6), <<2, 2>>, {}, "none")
ModbusRequestFC16  == Counted(16, <<2, 2, 1>>, 2, {Bound(2, 1, 123)}, "words")
ModbusResponseFC16 == Fixed(Rsp(16), <<2, 2>>, {Bound(2, 1, 123)}, "none")
ModbusRequestFC22  == Fixed(22, <<2, 2, 2>>, {}, "none")
ModbusResponseFC22 == Fixed(Rsp(22), <<2, 2, 2>>, {}, "none")
ModbusRequestFC23  == Counted(23, <<2, 2, 2, 2, 1>>, 2,
                              {Bound(2, 1, 125), Bound(4, 1, 121)}, "words")
ModbusResponseFC23 == Counted(Rsp(23), <<1>>, 2, {}, "tail")

ModbusRequestFC7  == Fixed(7, <<>>, {}, "none")
ModbusResponseFC7 == Fixed(Rsp(7), <<1>>, {}, "none")
ModbusRequestFC8  == Open(8, <<2>>, 2, {}, "sub")
ModbusResponseFC8 == Open(Rsp(8), <<2>>, 2, {}, "sub")

ModbusRequestFC43  == Open(43, <<1>>, 1, {Bound(1, 14, 14)}, "none")
ModbusResponseFC43 == Open(Rsp(43), <<1>>, 1, {Bound(1, 14, 14)}, "none")

\* The classes the modules register with ModbusPduParser as they are imported.
Registry ==
    {ModbusRequestFC1, ModbusResponseFC1, ModbusRequestFC2, ModbusResponseFC2,
     ModbusRequestFC3, ModbusResponseFC3, ModbusRequestFC4, ModbusResponseFC4,
     ModbusRequestFC5, ModbusResponseFC5, ModbusRequestFC6, ModbusResponseFC6,
     ModbusRequestFC7, ModbusResponseFC7, ModbusRequestFC8, ModbusResponseFC8,
     ModbusRequestFC15, ModbusResponseFC15, ModbusRequestFC16, ModbusResponseFC16,
     ModbusRequestFC22, ModbusResponseFC22, ModbusRequestFC23, ModbusResponseFC23,
     ModbusRequestFC43, ModbusResponseFC43}

\* _registry.get(id, ModbusPdu).
Lookup(id) ==
    IF \E class \in Registry : class.id = id
    THEN CHOOSE class \in Registry : class.id = id
    ELSE ModbusPdu

ClassOf(pdu) == IF pdu.id = ModbusError.id THEN ModbusError ELSE Lookup(pdu.id)

(***************************************************************************)
(* A PDU: its class, the values of its fields and the items of its tail.   *)
(***************************************************************************)
Octet == 0 .. 255
Pdus == [id : Nat, fc : Nat, fields : Seq(Int), tail : Seq(Int)]

Pdu(class, fields, tail) ==
    [id |-> class.id, fc |-> class.id % 32768, fields |-> fields, tail |-> tail]

Exception(fc, code) ==
    [id |-> ModbusError.id, fc |-> fc, fields |-> <<code>>, tail |-> <<>>]

Fits(value, width) == value \in 0 .. 256 ^ width - 1

BigEndian(value, width) == IF width = 1 THEN <<value>> ELSE <<value \div 256, value % 256>>

\* Mutant: the bytes in the other order.
LittleEndian(bytes) ==
    IF Len(bytes) = 1 THEN bytes[1] ELSE bytes[2] * 256 + bytes[1]

Number(bytes) == IF Len(bytes) = 1 THEN bytes[1] ELSE bytes[1] * 256 + bytes[2]

\* The function code on the wire: an exception carries the error mask.
WireCode(pdu) == pdu.fc + IF pdu.id = ModbusError.id THEN 128 ELSE 0

\* Where the fields of a class end: the function code, then one field after
\* the other without padding.
FieldEnds(widths) ==
    LET ends[k \in 0 .. Len(widths)] == IF k = 0 THEN 1 ELSE ends[k - 1] + widths[k]
    IN ends

\* struct.calcsize of the part of PDU_FORMAT before the tail.
HeadSize(class) == FieldEnds(class.widths)[Len(class.widths)]

\* The responses to FC1 and FC2 size their format by the count field, every
\* other class by the items it has.
SizedByCount(class) == class.id \in {ModbusResponseFC1.id, ModbusResponseFC2.id}

\* len(pdu).
PduLen(pdu) ==
    LET class == ClassOf(pdu)
    IN HeadSize(class) + IF SizedByCount(class) THEN pdu.fields[1]
                         ELSE class.item * Len(pdu.tail)

\* serialize() returns rather than raising ModbusPacketError: struct.pack has
\* a value for every code of the format, and each is in range.
Packs(pdu) ==
    LET class == ClassOf(pdu) IN
    /\ Fits(WireCode(pdu), 1)
    /\ \A k \in DOMAIN class.widths : Fits(pdu.fields[k], class.widths[k])
    /\ \A k \in DOMAIN pdu.tail : Fits(pdu.tail[k], class.item)
    /\ SizedByCount(class) => pdu.fields[1] = Len(pdu.tail)

Serialize(pdu) ==
    LET class == ClassOf(pdu)
    IN <<WireCode(pdu)>>
       \o FlattenSeq([k \in DOMAIN class.widths |-> BigEndian(pdu.fields[k], class.widths[k])])
       \o [k \in 1 .. class.item * Len(pdu.tail) |->
             BigEndian(pdu.tail[(k - 1) \div class.item + 1], class.item)
                      [((k - 1) % class.item) + 1]]

\* deserialize() returns rather than raising: the stream is the head and whole
\* items of the tail, which no count field is compared with.
Unpacks(class, stream) ==
    LET rest == Len(stream) - HeadSize(class)
    IN IF class.item = 0 THEN rest = 0 ELSE rest >= 0 /\ rest % class.item = 0

Deserialize(class, stream) ==
    LET ends == FieldEnds(class.widths)
        head == HeadSize(class)
    IN [id |-> class.id,
        fc |-> IF class.id = ModbusError.id THEN stream[1] - 128 ELSE stream[1],
        fields |-> [k \in DOMAIN class.widths |->
                       Number(SubSeq(stream, ends[k - 1] + 1, ends[k]))],
        tail |-> IF class.item = 0 THEN <<>>
                 ELSE [k \in 1 .. (Len(stream) - head) \div class.item |->
                         Number(SubSeq(stream, head + (k - 1) * class.item + 1,
                                       head + k * class.item))]]

(***************************************************************************)
(* ModbusPduParser: the class the function code names reads the stream.    *)
(***************************************************************************)
RequestClass(stream) == Lookup(stream[1])

ResponseClass(stream) ==
    IF stream[1] >= 128 THEN ModbusError ELSE Lookup(Rsp(stream[1]))

Parses(stream, class) == stream # <<>> /\ Unpacks(class, stream)

(***************************************************************************)
(* expected_size(): the size a prefix of a PDU states, NeedsMore where it  *)
(* stops short of saying (None), Unsizable where the layout states none    *)
(* (ModbusPacketError).                                                    *)
(***************************************************************************)
NeedsMore == -1
Unsizable == -2

\* Section 6.8.1's table, and the sub-function that echoes what it was sent.
SubFunctions == 0 .. 4 \cup 10 .. 18 \cup {20}
EchoSubFunction == 0

DiagnosticSize(prefix) ==
    CASE Len(prefix) < 3 -> NeedsMore
      [] Number(SubSeq(prefix, 2, 3)) \in SubFunctions \ {EchoSubFunction} -> 5
      [] OTHER -> Unsizable

\* Mutant: the count is taken for the whole size.
CountIsSize(class, prefix) ==
    IF class.item = 0 THEN HeadSize(class)
    ELSE IF Len(prefix) < HeadSize(class) THEN NeedsMore ELSE prefix[HeadSize(class)]

ExpectedSize(class, prefix) ==
    CASE class.rule = "sub" -> DiagnosticSize(prefix)
      [] class.rule # "sub" /\ class.item = 0 -> HeadSize(class)
      [] class.rule # "sub" /\ class.item > 0 /\ ~class.counts -> Unsizable
      [] OTHER -> IF Len(prefix) < HeadSize(class) THEN NeedsMore
                  ELSE HeadSize(class) + prefix[HeadSize(class)]

(***************************************************************************)
(* violations(): LIMITS, and the rule that ties fields together.           *)
(***************************************************************************)
RuleHolds(pdu) ==
    LET class == ClassOf(pdu)
        n == Len(class.widths)
    IN CASE class.rule = "coil"  -> pdu.fields[2] \in {0, 65280}
         [] class.rule = "tail"  -> pdu.fields[1] = class.item * Len(pdu.tail)
         [] class.rule = "bits"  -> pdu.fields[n] = (pdu.fields[n - 1] + 7) \div 8
         [] class.rule = "words" -> pdu.fields[n] = 2 * pdu.fields[n - 1]
         [] class.rule = "sub"   -> pdu.fields[1] \in SubFunctions
         [] OTHER -> TRUE

Conforming(pdu) ==
    /\ \A bound \in ClassOf(pdu).limits : pdu.fields[bound.at] \in bound.low .. bound.high
    /\ RuleHolds(pdu)

\* The tail is as long as the count ahead of it says.
TailMatches(pdu) ==
    LET class == ClassOf(pdu)
    IN class.counts => pdu.fields[Len(class.widths)] = class.item * Len(pdu.tail)

=============================================================================
