----------------------------- MODULE RtuFraming -----------------------------
(***************************************************************************)
(* How an RTU reader finds a frame at the head of the bytes it holds       *)
(* (read_rtu_frame in transport/rtu.py): the function code says how long   *)
(* the frame would be, and the checksum at that boundary whether it is one.*)
(*                                                                         *)
(* A byte has its value and, as history, the frame it was sent in (noise is*)
(* of frame 0), its place there and the length of that frame.  A checksum  *)
(* is taken to accept exactly the bytes of a frame that was sent.          *)
(*                                                                         *)
(* A definition introduced as a mutant is the one after it with a mistake  *)
(* in it; nothing here uses one.                                           *)
(***************************************************************************)
EXTENDS Integers, Sequences

CONSTANTS
    Layout,    \* of each byte value, what expected_size() of the class it names
               \* as a function code returns: fixed and counted layouts have a
               \* head, a counted one ends it with the count of bytes after it
    CrcSize    \* CRC_SIZE (2): a bound, the bytes of a checksum

Values == DOMAIN Layout

ASSUME FramingAssumption ==
    /\ Layout \in [Values -> [kind : {"fixed", "counted", "none"}, head : Nat \ {0}]]
    /\ Values \subseteq Nat /\ 0 \in Values
    /\ CrcSize \in Nat \ {0}

Byte == [value : Values, frame : Nat, pos : Nat, of : Nat]

\* MIN_RTU_FRAME: a slave id, a function code and the checksum.
MinFrame == 1 + 1 + CrcSize

\* ModbusRtuPacket.deserialize accepts these bytes.
ChecksumHolds(bytes) ==
    /\ Len(bytes) >= MinFrame
    /\ bytes[1].frame # 0
    /\ bytes[1].of = Len(bytes)
    /\ \A k \in 1 .. Len(bytes) : /\ bytes[k].frame = bytes[1].frame
                                  /\ bytes[k].pos = k

\* RtuRead.
Found(length) ==
    [found |-> TRUE, length |-> length, incomplete |-> FALSE, wanted |-> 0, sizable |-> TRUE]
Wants(n) ==
    [found |-> FALSE, length |-> 0, incomplete |-> TRUE, wanted |-> n, sizable |-> TRUE]

\* Mutant: what no class sizes is waited for.
NoFrameYet(sizable) == Wants(1)

NoFrame(sizable) ==
    [found |-> FALSE, length |-> 0, incomplete |-> FALSE, wanted |-> 0, sizable |-> sizable]

\* The bytes a frame would have that starts where these do; its count field is
\* among them where there is one.
FrameLength(bytes) ==
    LET layout == Layout[bytes[2].value]
    IN 1 + layout.head + CrcSize
         + IF layout.kind = "counted" THEN bytes[1 + layout.head].value ELSE 0

ReadRtuFrame(bytes) ==
    IF Len(bytes) < MinFrame THEN Wants(MinFrame - Len(bytes))
    ELSE LET layout == Layout[bytes[2].value] IN
         CASE layout.kind = "none" -> NoFrame(FALSE)
           [] layout.kind = "counted" /\ Len(bytes) < 1 + layout.head -> Wants(1)
           [] OTHER ->
                LET end == FrameLength(bytes) IN
                IF Len(bytes) < end THEN Wants(end - Len(bytes))
                ELSE IF ChecksumHolds(SubSeq(bytes, 1, end)) THEN Found(end)
                ELSE NoFrame(TRUE)

From(bytes, k) == SubSeq(bytes, k, Len(bytes))

\* The frames that are whole in some bytes and that a reader can size.
FramesIn(bytes) ==
    {bytes[k].frame : k \in
        {i \in 1 .. Len(bytes) :
            /\ bytes[i].frame # 0 /\ bytes[i].pos = 1
            /\ i + bytes[i].of - 1 <= Len(bytes)
            /\ LET frame == SubSeq(bytes, i, i + bytes[i].of - 1)
               IN ChecksumHolds(frame) /\ ReadRtuFrame(frame).found}}

=============================================================================
