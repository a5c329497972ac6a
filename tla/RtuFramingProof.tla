-------------------------- MODULE RtuFramingProof --------------------------
(***************************************************************************)
(* Facts about the framing of RTU bytes that the proofs of the splitter    *)
(* and of the stream share: what a verdict says about the bytes it is      *)
(* given, that more bytes do not change it, and that a frame nothing has   *)
(* been taken of is found.                                                 *)
(***************************************************************************)
EXTENDS RtuFraming, SequenceTheorems, TLAPS

\* A frame that is whole and that a reader can size starts at place k.
WholeAt(bytes, k) ==
    /\ bytes[k].frame # 0 /\ bytes[k].pos = 1
    /\ k + bytes[k].of - 1 <= Len(bytes)
    /\ ChecksumHolds(SubSeq(bytes, k, k + bytes[k].of - 1))
    /\ ReadRtuFrame(SubSeq(bytes, k, k + bytes[k].of - 1)).found

\* The header is there and names a layout: FrameLength is what it announces.
Sized(bytes) ==
    /\ Len(bytes) >= MinFrame
    /\ Layout[bytes[2].value].kind # "none"
    /\ Layout[bytes[2].value].kind = "counted" => Len(bytes) >= 1 + Layout[bytes[2].value].head

\* b is what c begins with.
Begins(b, c) == Len(b) <= Len(c) /\ \A k \in 1 .. Len(b) : b[k] = c[k]

LEMMA FramesAre ==
    ASSUME NEW bytes
    PROVE  FramesIn(bytes) = {bytes[k].frame : k \in {i \in 1 .. Len(bytes) : WholeAt(bytes, i)}}
  BY DEF FramesIn, WholeAt

\* A part of some bytes.
LEMMA PartOfBytes ==
    ASSUME NEW c \in Seq(Byte), NEW a \in Nat \ {0}, NEW b \in Nat, b <= Len(c)
    PROVE  /\ SubSeq(c, a, b) \in Seq(Byte)
           /\ Len(SubSeq(c, a, b)) = IF a <= b THEN b - a + 1 ELSE 0
           /\ \A k \in 1 .. b - a + 1 : SubSeq(c, a, b)[k] = c[a + k - 1]
  <1>1. \A i \in a .. b : c[i] \in Byte
    BY ElementOfSeq
  <1> QED
    BY <1>1, SubSeqProperties

\* The same by the number of bytes before it.
LEMMA LinePart ==
    ASSUME NEW l \in Seq(Byte), NEW g \in Nat, NEW f \in Nat, g <= f, f <= Len(l)
    PROVE  /\ SubSeq(l, g + 1, f) \in Seq(Byte)
           /\ Len(SubSeq(l, g + 1, f)) = f - g
           /\ \A k \in 1 .. f - g : SubSeq(l, g + 1, f)[k] = l[g + k]
  <1>1. g + 1 \in Nat \ {0} /\ f - (g + 1) + 1 = f - g
    OBVIOUS
  <1>2. /\ SubSeq(l, g + 1, f) \in Seq(Byte)
        /\ Len(SubSeq(l, g + 1, f)) = IF g + 1 <= f THEN f - (g + 1) + 1 ELSE 0
        /\ \A k \in 1 .. f - (g + 1) + 1 : SubSeq(l, g + 1, f)[k] = l[g + 1 + k - 1]
    BY <1>1, PartOfBytes
  <1>3. Len(SubSeq(l, g + 1, f)) = f - g
    BY <1>1, <1>2
  <1>4. ASSUME NEW k \in 1 .. f - g
        PROVE  SubSeq(l, g + 1, f)[k] = l[g + k]
    <2>1. g + 1 + k - 1 = g + k /\ k \in 1 .. f - (g + 1) + 1
      OBVIOUS
    <2> QED
      BY <1>2, <2>1
  <1> QED
    BY <1>2, <1>3, <1>4

\* Some bytes cut in two.
LEMMA CutInTwo ==
    ASSUME NEW s \in Seq(Byte), NEW n \in 0 .. Len(s)
    PROVE  /\ SubSeq(s, 1, n) \in Seq(Byte)
           /\ Len(SubSeq(s, 1, n)) = n
           /\ \A k \in 1 .. n : SubSeq(s, 1, n)[k] = s[k]
           /\ From(s, n + 1) \in Seq(Byte)
           /\ Len(From(s, n + 1)) = Len(s) - n
           /\ \A k \in 1 .. Len(s) - n : From(s, n + 1)[k] = s[n + k]
           /\ SubSeq(s, 1, n) \o From(s, n + 1) = s
  <1>0. Len(s) \in Nat /\ n \in Nat /\ n <= Len(s) /\ 0 <= n
    OBVIOUS
  <1> DEFINE p == SubSeq(s, 0 + 1, n)
             q == SubSeq(s, n + 1, Len(s))
  <1>1. /\ p \in Seq(Byte) /\ Len(p) = n - 0
        /\ \A k \in 1 .. n - 0 : p[k] = s[0 + k]
    BY <1>0, LinePart
  <1>2. /\ q \in Seq(Byte) /\ Len(q) = Len(s) - n
        /\ \A k \in 1 .. Len(s) - n : q[k] = s[n + k]
    BY <1>0, LinePart
  <1> HIDE DEF p, q
  <1>3. Len(p) = n /\ \A k \in 1 .. n : p[k] = s[k]
    BY <1>0, <1>1
  <1>4. /\ p \o q \in Seq(Byte)
        /\ Len(p \o q) = Len(p) + Len(q)
        /\ \A k \in 1 .. Len(p) + Len(q) :
              (p \o q)[k] = IF k <= Len(p) THEN p[k] ELSE q[k - Len(p)]
    BY <1>1, <1>2, ConcatProperties
  <1>5. Len(p) + Len(q) = Len(s)
    BY <1>0, <1>2, <1>3
  <1>6. ASSUME NEW k \in 1 .. Len(s)
        PROVE  (p \o q)[k] = s[k]
    <2>1. CASE k <= n
      BY <2>1, <1>0, <1>3, <1>4, <1>5
    <2>2. CASE ~(k <= n)
      <3>1. k - n \in 1 .. Len(s) - n /\ n + (k - n) = k
        BY <2>2, <1>0
      <3> QED
        BY <2>2, <3>1, <1>2, <1>3, <1>4, <1>5
    <2> QED
      BY <2>1, <2>2
  <1>7. p \o q = s
    BY <1>4, <1>5, <1>6, SeqEqual
  <1>8. p = SubSeq(s, 1, n) /\ q = From(s, n + 1)
    BY DEF p, q, From
  <1> QED
    BY <1>1, <1>2, <1>3, <1>7, <1>8

\* The types of the pieces of a byte and of a layout.
LEMMA ByteType ==
    ASSUME NEW bytes \in Seq(Byte), NEW k \in 1 .. Len(bytes)
    PROVE  /\ bytes[k] \in Byte
           /\ bytes[k].value \in Nat /\ bytes[k].value \in Values
           /\ bytes[k].frame \in Nat /\ bytes[k].pos \in Nat /\ bytes[k].of \in Nat
           /\ Layout[bytes[k].value].head \in Nat \ {0}
           /\ Layout[bytes[k].value].kind \in {"fixed", "counted", "none"}
  <1>1. bytes[k] \in Byte
    BY ElementOfSeq
  <1>2. bytes[k].value \in Values /\ bytes[k].value \in Nat
    BY <1>1, FramingAssumption DEF Byte
  <1>3. Layout[bytes[k].value] \in [kind : {"fixed", "counted", "none"}, head : Nat \ {0}]
    BY <1>2, FramingAssumption
  <1> QED
    BY <1>1, <1>2, <1>3 DEF Byte

\* A header announces a length no shorter than the least frame.
LEMMA LengthAnnounced ==
    ASSUME NEW bytes \in Seq(Byte), Sized(bytes)
    PROVE  FrameLength(bytes) \in Nat /\ FrameLength(bytes) >= MinFrame
  <1>0. CrcSize \in Nat \ {0} /\ MinFrame \in Nat /\ MinFrame >= 3
    BY FramingAssumption DEF MinFrame
  <1>1. Len(bytes) \in Nat /\ 2 \in 1 .. Len(bytes)
    BY <1>0 DEF Sized
  <1> DEFINE layout == Layout[bytes[2].value]
  <1>2. layout.head \in Nat \ {0}
    BY <1>1, ByteType
  <1>3. CASE layout.kind = "counted"
    <2>1. 1 + layout.head \in 1 .. Len(bytes)
      BY <1>1, <1>2, <1>3 DEF Sized
    <2>2. bytes[1 + layout.head].value \in Nat
      BY <2>1, ByteType
    <2>3. FrameLength(bytes) = 1 + layout.head + CrcSize + bytes[1 + layout.head].value
      BY <1>3 DEF FrameLength
    <2> HIDE DEF layout
    <2> QED
      BY <1>0, <1>2, <2>2, <2>3 DEF MinFrame
  <1>4. CASE layout.kind # "counted"
    <2>1. FrameLength(bytes) = 1 + layout.head + CrcSize
      BY <1>0, <1>2, <1>4 DEF FrameLength
    <2> HIDE DEF layout
    <2> QED
      BY <1>0, <1>2, <2>1 DEF MinFrame
  <1> QED
    BY <1>3, <1>4

\* What the verdicts say.
LEMMA Verdicts ==
    ASSUME NEW bytes \in Seq(Byte)
    PROVE  /\ ReadRtuFrame(bytes).found \in BOOLEAN
           /\ ReadRtuFrame(bytes).incomplete \in BOOLEAN
           /\ ReadRtuFrame(bytes).sizable \in BOOLEAN
           /\ ReadRtuFrame(bytes).found <=>
                 /\ Sized(bytes) /\ FrameLength(bytes) <= Len(bytes)
                 /\ ChecksumHolds(SubSeq(bytes, 1, FrameLength(bytes)))
           /\ ReadRtuFrame(bytes).found =>
                 /\ ReadRtuFrame(bytes) = Found(FrameLength(bytes))
                 /\ ~ReadRtuFrame(bytes).incomplete
                 /\ ReadRtuFrame(bytes).sizable
           /\ ReadRtuFrame(bytes).incomplete <=>
                 \/ Len(bytes) < MinFrame
                 \/ /\ Layout[bytes[2].value].kind = "counted"
                    /\ Len(bytes) < 1 + Layout[bytes[2].value].head
                 \/ Sized(bytes) /\ Len(bytes) < FrameLength(bytes)
           /\ ReadRtuFrame(bytes).incomplete => ReadRtuFrame(bytes).wanted \in Nat
           /\ ~ReadRtuFrame(bytes).found /\ ~ReadRtuFrame(bytes).incomplete =>
                 /\ Sized(bytes) => ReadRtuFrame(bytes) = NoFrame(TRUE)
                 /\ ~Sized(bytes) => ReadRtuFrame(bytes) = NoFrame(FALSE)
  <1>0. CrcSize \in Nat \ {0} /\ MinFrame \in Nat /\ MinFrame >= 3 /\ Len(bytes) \in Nat
    BY FramingAssumption DEF MinFrame
  <1> DEFINE layout == Layout[bytes[2].value]
             end == FrameLength(bytes)
             r == ReadRtuFrame(bytes)
  <1>1. CASE Len(bytes) < MinFrame
    <2>1. r = Wants(MinFrame - Len(bytes)) /\ ~Sized(bytes) /\ MinFrame - Len(bytes) \in Nat
      BY <1>0, <1>1 DEF ReadRtuFrame, Sized
    <2> QED
      BY <2>1, <1>1 DEF Wants
  <1>2. CASE Len(bytes) >= MinFrame
    <2>0. layout.kind \in {"fixed", "counted", "none"} /\ layout.head \in Nat
      BY <1>0, <1>2, ByteType
    <2>a. ReadRtuFrame(bytes) =
            CASE layout.kind = "none" -> NoFrame(FALSE)
              [] layout.kind = "counted" /\ Len(bytes) < 1 + layout.head -> Wants(1)
              [] OTHER ->
                   IF Len(bytes) < end THEN Wants(end - Len(bytes))
                   ELSE IF ChecksumHolds(SubSeq(bytes, 1, end)) THEN Found(end)
                   ELSE NoFrame(TRUE)
      <3>1. ~(Len(bytes) < MinFrame)
        BY <1>0, <1>2
      <3> QED
        BY <3>1, Zenon DEF ReadRtuFrame
    <2>1. CASE layout.kind = "none"
      <3>1. r = NoFrame(FALSE)
        BY <2>a, <2>1
      <3>2. ~Sized(bytes)
        BY <2>1 DEF Sized
      <3> QED
        BY <3>1, <3>2, <2>1, <1>0, <1>2 DEF NoFrame
    <2>2. CASE layout.kind = "counted" /\ Len(bytes) < 1 + layout.head
      <3>1. r = Wants(1)
        BY <2>a, <2>2
      <3>2. ~Sized(bytes)
        BY <1>0, <2>0, <2>2 DEF Sized
      <3> QED
        BY <3>1, <3>2, <2>2 DEF Wants
    <2>3. CASE layout.kind # "none" /\ ~(layout.kind = "counted" /\ Len(bytes) < 1 + layout.head)
      <3>1. Sized(bytes) /\ end \in Nat
        BY <1>0, <1>2, <2>0, <2>3, LengthAnnounced DEF Sized
      <3>2. r = IF Len(bytes) < end THEN Wants(end - Len(bytes))
                ELSE IF ChecksumHolds(SubSeq(bytes, 1, end)) THEN Found(end)
                ELSE NoFrame(TRUE)
        BY <2>a, <2>3
      <3>3. CASE Len(bytes) < end
        <4>1. r = Wants(end - Len(bytes)) /\ end - Len(bytes) \in Nat
          BY <3>2, <3>3, <3>1, <1>0
        <4> QED
          BY <4>1, <3>1, <3>3, <1>0 DEF Wants
      <3>4. CASE ~(Len(bytes) < end) /\ ChecksumHolds(SubSeq(bytes, 1, end))
        <4>1. r = Found(end)
          BY <3>2, <3>4
        <4> QED
          BY <4>1, <3>1, <3>4, <1>0, <1>2, <2>3 DEF Found
      <3>5. CASE ~(Len(bytes) < end) /\ ~ChecksumHolds(SubSeq(bytes, 1, end))
        <4>1. r = NoFrame(TRUE)
          BY <3>2, <3>5
        <4> QED
          BY <4>1, <3>1, <3>5, <1>0, <1>2, <2>3 DEF NoFrame
      <3> QED
        BY <3>3, <3>4, <3>5
    <2> QED
      BY <2>0, <2>1, <2>2, <2>3
  <1>3. Len(bytes) < MinFrame \/ Len(bytes) >= MinFrame
    BY <1>0
  <1> QED
    BY <1>1, <1>2, <1>3

\* More bytes do not change what a header announces.
LEMMA SameHeader ==
    ASSUME NEW b \in Seq(Byte), NEW c \in Seq(Byte), Begins(b, c), Sized(b)
    PROVE  Sized(c) /\ FrameLength(c) = FrameLength(b)
  <1>0. CrcSize \in Nat \ {0} /\ MinFrame \in Nat /\ MinFrame >= 3
        /\ Len(b) \in Nat /\ Len(c) \in Nat /\ Len(b) <= Len(c)
    BY FramingAssumption DEF MinFrame, Begins
  <1>1. 2 \in 1 .. Len(b) /\ b[2] = c[2]
    BY <1>0 DEF Sized, Begins
  <1>2. Layout[b[2].value].head \in Nat \ {0}
    BY <1>1, ByteType
  <1>3. Sized(c)
    BY <1>0, <1>1, <1>2 DEF Sized
  <1>4. CASE Layout[b[2].value].kind = "counted"
    <2>1. 1 + Layout[b[2].value].head \in 1 .. Len(b)
      BY <1>0, <1>2, <1>4 DEF Sized
    <2>2. b[1 + Layout[b[2].value].head] = c[1 + Layout[b[2].value].head]
      BY <2>1 DEF Begins
    <2> QED
      BY <1>1, <1>3, <2>2 DEF FrameLength
  <1>5. CASE Layout[b[2].value].kind # "counted"
    BY <1>1, <1>3, <1>5 DEF FrameLength
  <1> QED
    BY <1>4, <1>5

\* Nor do they change the first bytes.
LEMMA SameStart ==
    ASSUME NEW b \in Seq(Byte), NEW c \in Seq(Byte), Begins(b, c),
           NEW n \in Nat, n <= Len(b)
    PROVE  SubSeq(b, 1, n) = SubSeq(c, 1, n)
  <1>0. Len(b) \in Nat /\ Len(c) \in Nat /\ n <= Len(c) /\ 1 \in Nat \ {0}
    BY DEF Begins
  <1>1. /\ SubSeq(b, 1, n) \in Seq(Byte)
        /\ Len(SubSeq(b, 1, n)) = IF 1 <= n THEN n - 1 + 1 ELSE 0
        /\ \A k \in 1 .. n - 1 + 1 : SubSeq(b, 1, n)[k] = b[1 + k - 1]
    BY <1>0, PartOfBytes
  <1>2. /\ SubSeq(c, 1, n) \in Seq(Byte)
        /\ Len(SubSeq(c, 1, n)) = IF 1 <= n THEN n - 1 + 1 ELSE 0
        /\ \A k \in 1 .. n - 1 + 1 : SubSeq(c, 1, n)[k] = c[1 + k - 1]
    BY <1>0, PartOfBytes
  <1>3. ASSUME NEW k \in 1 .. Len(SubSeq(b, 1, n))
        PROVE  SubSeq(b, 1, n)[k] = SubSeq(c, 1, n)[k]
    <2>1. k \in 1 .. n - 1 + 1 /\ k \in 1 .. Len(b) /\ 1 + k - 1 = k
      BY <1>0, <1>1
    <2>2. b[k] = c[k]
      BY <2>1 DEF Begins
    <2> QED
      BY <1>1, <1>2, <2>1, <2>2
  <1> QED
    BY <1>1, <1>2, <1>3, SeqEqual

\* A verdict that is not "incomplete" stands whatever comes after.
LEMMA VerdictStands ==
    ASSUME NEW b \in Seq(Byte), NEW c \in Seq(Byte), Begins(b, c),
           ~ReadRtuFrame(b).incomplete
    PROVE  ReadRtuFrame(c) = ReadRtuFrame(b)
  <1>0. CrcSize \in Nat \ {0} /\ MinFrame \in Nat /\ MinFrame >= 3
        /\ Len(b) \in Nat /\ Len(c) \in Nat /\ Len(b) <= Len(c)
    BY FramingAssumption DEF MinFrame, Begins
  <1>1. /\ Len(b) >= MinFrame
        /\ ~(/\ Layout[b[2].value].kind = "counted"
             /\ Len(b) < 1 + Layout[b[2].value].head)
        /\ ~(Sized(b) /\ Len(b) < FrameLength(b))
    <2>1. ~(\/ Len(b) < MinFrame
            \/ /\ Layout[b[2].value].kind = "counted"
               /\ Len(b) < 1 + Layout[b[2].value].head
            \/ Sized(b) /\ Len(b) < FrameLength(b))
      BY Verdicts
    <2> QED
      BY <1>0, <2>1
  <1>2. 2 \in 1 .. Len(b) /\ b[2] = c[2]
    BY <1>0, <1>1 DEF Begins
  <1>3. Layout[b[2].value].head \in Nat \ {0}
    BY <1>2, ByteType
  <1>4. CASE Sized(b)
    <2>1. Sized(c) /\ FrameLength(c) = FrameLength(b) /\ FrameLength(b) \in Nat
      BY <1>4, SameHeader, LengthAnnounced
    <2>2. FrameLength(b) <= Len(b) /\ FrameLength(c) <= Len(c)
      BY <1>0, <1>1, <1>4, <2>1
    <2>3. SubSeq(b, 1, FrameLength(b)) = SubSeq(c, 1, FrameLength(c))
      BY <2>1, <2>2, SameStart
    <2>4. ReadRtuFrame(b).found <=> ReadRtuFrame(c).found
      BY <1>4, <2>1, <2>2, <2>3, Verdicts
    <2>5. ~ReadRtuFrame(c).incomplete
      <3>1. ~(Len(c) < MinFrame) /\ ~(Len(c) < FrameLength(c))
        BY <1>0, <1>1, <2>1, <2>2
      <3>2. ~(/\ Layout[c[2].value].kind = "counted"
             /\ Len(c) < 1 + Layout[c[2].value].head)
        BY <1>0, <1>2, <1>3, <2>1 DEF Sized
      <3> QED
        BY <3>1, <3>2, Verdicts
    <2> QED
      BY <1>4, <2>1, <2>4, <2>5, Verdicts
  <1>5. CASE ~Sized(b)
    <2>1. Layout[b[2].value].kind = "none"
      BY <1>0, <1>1, <1>3, <1>5 DEF Sized
    <2>2. ~Sized(c)
      BY <1>2, <2>1 DEF Sized
    <2>3. ~ReadRtuFrame(c).incomplete
      <3>1. ~(Len(c) < MinFrame)
        BY <1>0, <1>1
      <3> QED
        BY <3>1, <1>2, <2>1, <2>2, Verdicts
    <2> QED
      BY <1>5, <2>2, <2>3, Verdicts
  <1> QED
    BY <1>4, <1>5

\* What the bytes of a checked frame are.
LEMMA CheckedBytes ==
    ASSUME NEW c \in Seq(Byte), NEW n \in Nat, n <= Len(c), n >= 1,
           ChecksumHolds(SubSeq(c, 1, n))
    PROVE  /\ n >= MinFrame
           /\ c[1].frame # 0 /\ c[1].of = n
           /\ \A k \in 1 .. n : c[k].frame = c[1].frame /\ c[k].pos = k
  <1>1. /\ Len(SubSeq(c, 1, n)) = n
        /\ \A k \in 1 .. n : SubSeq(c, 1, n)[k] = c[k]
    <2>1. /\ Len(SubSeq(c, 1, n)) = IF 1 <= n THEN n - 1 + 1 ELSE 0
          /\ \A k \in 1 .. n - 1 + 1 : SubSeq(c, 1, n)[k] = c[1 + k - 1]
      BY PartOfBytes
    <2> QED
      BY <2>1
  <1>2. 1 \in 1 .. n
    OBVIOUS
  <1> QED
    BY <1>1, <1>2 DEF ChecksumHolds

\* A whole frame at the head is one the reader finds, once enough of it is there.
LEMMA HeadIsFound ==
    ASSUME NEW b \in Seq(Byte), NEW c \in Seq(Byte), Begins(b, c), Len(c) >= 1,
           WholeAt(c, 1), ~ReadRtuFrame(b).incomplete
    PROVE  /\ ReadRtuFrame(b).found
           /\ ReadRtuFrame(b).length = c[1].of
           /\ c[1].of <= Len(b) /\ c[1].of >= MinFrame
  <1> DEFINE n == c[1].of
             whole == SubSeq(c, 1, n)
  <1>0. CrcSize \in Nat \ {0} /\ MinFrame \in Nat /\ MinFrame >= 3
        /\ Len(b) \in Nat /\ Len(c) \in Nat /\ Len(b) <= Len(c)
    BY FramingAssumption DEF MinFrame, Begins
  <1>1. n \in Nat
    BY <1>0, ByteType
  <1>2. /\ n <= Len(c)
        /\ ChecksumHolds(whole) /\ ReadRtuFrame(whole).found
    <2>1. 1 + n - 1 = n
      BY <1>1
    <2> QED
      BY <1>0, <1>1, <2>1 DEF WholeAt
  <1>3. /\ whole \in Seq(Byte)
        /\ Len(whole) = n /\ n >= MinFrame
        /\ \A k \in 1 .. n : whole[k] = c[k]
    <2>1. /\ whole \in Seq(Byte)
          /\ Len(whole) = IF 1 <= n THEN n - 1 + 1 ELSE 0
          /\ \A k \in 1 .. n - 1 + 1 : whole[k] = c[1 + k - 1]
      BY <1>0, <1>1, <1>2, PartOfBytes
    <2>2. Len(whole) >= MinFrame
      BY <1>2 DEF ChecksumHolds
    <2> QED
      BY <1>0, <1>1, <2>1, <2>2
  <1>4. /\ ReadRtuFrame(whole) = Found(n)
        /\ ~ReadRtuFrame(whole).incomplete
    <2> DEFINE l == FrameLength(whole)
    <2>1. /\ Sized(whole) /\ l <= Len(whole) /\ ChecksumHolds(SubSeq(whole, 1, l))
          /\ ReadRtuFrame(whole) = Found(l) /\ ~ReadRtuFrame(whole).incomplete
      BY <1>2, <1>3, Verdicts
    <2>2. l \in Nat /\ l >= 1
      <3>1. l \in Nat /\ l >= MinFrame
        BY <1>3, <2>1, LengthAnnounced
      <3> QED
        BY ONLY <1>0, <3>1
    <2>3. whole[1].of = l
      BY <1>3, <2>1, <2>2, CheckedBytes
    <2>4. whole[1] = c[1]
      BY <1>0, <1>1, <1>3
    <2> QED
      BY <2>1, <2>3, <2>4
  <1>5. CASE Len(b) >= n
    <2>1. Begins(whole, b)
      BY <1>0, <1>1, <1>3, <1>5 DEF Begins
    <2>2. ReadRtuFrame(b) = Found(n)
      BY <1>3, <1>4, <2>1, VerdictStands
    <2> QED
      BY <2>2, <1>3, <1>5 DEF Found
  <1>6. CASE Len(b) < n
    <2>1. Begins(b, whole)
      BY <1>0, <1>1, <1>3, <1>6 DEF Begins
    <2>2. ReadRtuFrame(b) = Found(n)
      BY <1>3, <1>4, <2>1, VerdictStands
    <2>3. n <= Len(b)
      <3>1. ReadRtuFrame(b).found /\ ReadRtuFrame(b).length = n
        BY <2>2 DEF Found
      <3>2. ReadRtuFrame(b) = Found(FrameLength(b)) /\ FrameLength(b) <= Len(b)
        BY <3>1, Verdicts
      <3> QED
        BY <3>1, <3>2 DEF Found
    <2> QED
      BY <2>3, <1>0, <1>1, <1>6
  <1>7. Len(b) >= n \/ Len(b) < n
    BY <1>0, <1>1
  <1> QED
    BY <1>5, <1>6, <1>7

\* What a found frame is.
LEMMA FoundIs ==
    ASSUME NEW b \in Seq(Byte), ReadRtuFrame(b).found
    PROVE  LET n == ReadRtuFrame(b).length
           IN /\ n \in Nat /\ n >= MinFrame /\ n >= 1 /\ n <= Len(b)
              /\ ChecksumHolds(SubSeq(b, 1, n))
              /\ b[1].frame # 0 /\ b[1].of = n /\ b[1].frame \in Nat
              /\ \A k \in 1 .. n : b[k].frame = b[1].frame /\ b[k].pos = k
  <1> DEFINE n == ReadRtuFrame(b).length
  <1>0. CrcSize \in Nat \ {0} /\ MinFrame \in Nat /\ MinFrame >= 3 /\ Len(b) \in Nat
    BY FramingAssumption DEF MinFrame
  <1>1. /\ ReadRtuFrame(b) = Found(FrameLength(b)) /\ Sized(b)
        /\ FrameLength(b) <= Len(b)
        /\ ChecksumHolds(SubSeq(b, 1, FrameLength(b)))
    BY Verdicts
  <1>2. n = FrameLength(b)
    BY <1>1 DEF Found
  <1>3. n \in Nat /\ n >= MinFrame /\ n >= 1
    BY <1>0, <1>1, <1>2, LengthAnnounced
  <1>4. /\ b[1].frame # 0 /\ b[1].of = n
        /\ \A k \in 1 .. n : b[k].frame = b[1].frame /\ b[k].pos = k
    <2>1. n <= Len(b) /\ ChecksumHolds(SubSeq(b, 1, n))
      BY <1>1, <1>2
    <2> HIDE DEF n
    <2> QED
      BY <1>3, <2>1, CheckedBytes
  <1>5. b[1].frame \in Nat
    <2>1. 1 \in 1 .. Len(b)
      BY <1>0, <1>1, <1>2, <1>3
    <2> QED
      BY <2>1, ByteType
  <1> QED
    BY <1>1, <1>2, <1>3, <1>4, <1>5

\* Where the whole frames of a part are, and those of a sequence of bytes that
\* begins with others.
LEMMA WholeInPart ==
    ASSUME NEW c \in Seq(Byte), NEW a \in Nat \ {0}, NEW b \in Nat, b <= Len(c),
           NEW k \in Nat \ {0}, a + k - 1 <= b
    PROVE  /\ SubSeq(c, a, b)[k] = c[a + k - 1]
           /\ WholeAt(SubSeq(c, a, b), k) <=>
                 /\ WholeAt(c, a + k - 1)
                 /\ a + k - 1 + c[a + k - 1].of - 1 <= b
  <1> DEFINE p == SubSeq(c, a, b)
             i == a + k - 1
             n == c[i].of
  <1>0. Len(c) \in Nat /\ i \in Nat \ {0} /\ i \in 1 .. Len(c)
    OBVIOUS
  <1>1. /\ p \in Seq(Byte)
        /\ Len(p) = b - a + 1 /\ Len(p) \in Nat
        /\ \A j \in 1 .. b - a + 1 : p[j] = c[a + j - 1]
    <2>1. a <= b
      OBVIOUS
    <2> QED
      BY <2>1, PartOfBytes
  <1>2. p[k] = c[i] /\ k \in 1 .. Len(p)
    BY <1>1
  <1>3. n \in Nat
    BY <1>0, ByteType
  <1>4. k + n - 1 <= Len(p) <=> i + n - 1 <= b
    <2>1. n \in Nat /\ Len(p) = b - a + 1
      BY <1>1, <1>3
    <2> HIDE DEF p, n
    <2> QED
      BY <2>1
  <1>5. CASE i + n - 1 <= b
    <2>1. SubSeq(p, k, k + n - 1) = SubSeq(c, i, i + n - 1)
      <3> DEFINE e == k + n - 1
                 f == i + n - 1
      <3>1. e \in Nat /\ f \in Nat /\ e <= Len(p) /\ f <= Len(c)
            /\ e - k + 1 = n /\ f - i + 1 = n /\ (k <= e <=> n >= 1) /\ (i <= f <=> n >= 1)
        <4> HIDE DEF n, p
        <4> QED
          BY <1>0, <1>1, <1>3, <1>4, <1>5
      <3>2. /\ SubSeq(p, k, e) \in Seq(Byte)
            /\ Len(SubSeq(p, k, e)) = IF k <= e THEN e - k + 1 ELSE 0
            /\ \A j \in 1 .. e - k + 1 : SubSeq(p, k, e)[j] = p[k + j - 1]
        <4> HIDE DEF e, p
        <4> QED
          BY <1>1, <3>1, PartOfBytes
      <3>3. /\ SubSeq(c, i, f) \in Seq(Byte)
            /\ Len(SubSeq(c, i, f)) = IF i <= f THEN f - i + 1 ELSE 0
            /\ \A j \in 1 .. f - i + 1 : SubSeq(c, i, f)[j] = c[i + j - 1]
        <4> HIDE DEF f, i
        <4> QED
          BY <1>0, <3>1, PartOfBytes
      <3>4. ASSUME NEW j \in 1 .. n
            PROVE  p[k + j - 1] = c[i + j - 1]
        <4>1. k + j - 1 \in 1 .. b - a + 1 /\ a + (k + j - 1) - 1 = i + j - 1
          <5>1. n \in Nat /\ i + n - 1 <= b /\ j \in 1 .. n /\ i = a + k - 1
            BY <1>3, <1>5
          <5> HIDE DEF n, i
          <5> QED
            BY <5>1
        <4>2. p[k + j - 1] = c[a + (k + j - 1) - 1]
          BY <4>1, <1>1
        <4> QED
          BY <4>1, <4>2
      <3> HIDE DEF n, e, f, p, i
      <3>5. Len(SubSeq(p, k, e)) = Len(SubSeq(c, i, f))
            /\ Len(SubSeq(p, k, e)) = IF n >= 1 THEN n ELSE 0
        BY <3>1, <3>2, <3>3
      <3>6. ASSUME NEW j \in 1 .. Len(SubSeq(p, k, e))
            PROVE  SubSeq(p, k, e)[j] = SubSeq(c, i, f)[j]
        <4>1. j \in 1 .. n
          BY <3>5, <1>3
        <4> QED
          BY <4>1, <3>1, <3>2, <3>3, <3>4
      <3>7. SubSeq(p, k, e) = SubSeq(c, i, f)
        BY <3>2, <3>3, <3>5, <3>6, SeqEqual
      <3> QED
        BY <3>7 DEF e, f, i
    <2>2. i + n - 1 <= Len(c)
      <3> HIDE DEF n, i
      <3> QED
        BY <1>0, <1>3, <1>5
    <2> QED
      BY <1>2, <1>4, <1>5, <2>1, <2>2 DEF WholeAt
  <1>6. CASE ~(i + n - 1 <= b)
    BY <1>2, <1>4, <1>6 DEF WholeAt
  <1> QED
    BY <1>2, <1>5, <1>6

LEMMA WholeInMore ==
    ASSUME NEW b \in Seq(Byte), NEW c \in Seq(Byte), Begins(b, c),
           NEW k \in 1 .. Len(b), WholeAt(b, k)
    PROVE  WholeAt(c, k) /\ c[k] = b[k]
  <1>0. Len(b) \in Nat /\ Len(c) \in Nat /\ Len(b) <= Len(c)
    BY DEF Begins
  <1>1. SubSeq(c, 1, Len(b)) = b
    <2>1. SubSeq(b, 1, Len(b)) = SubSeq(c, 1, Len(b))
      BY <1>0, SameStart
    <2>2. /\ SubSeq(b, 1, Len(b)) \in Seq(Byte)
          /\ Len(SubSeq(b, 1, Len(b))) = IF 1 <= Len(b) THEN Len(b) - 1 + 1 ELSE 0
          /\ \A j \in 1 .. Len(b) - 1 + 1 : SubSeq(b, 1, Len(b))[j] = b[1 + j - 1]
      BY <1>0, PartOfBytes
    <2>3. Len(SubSeq(b, 1, Len(b))) = Len(b)
          /\ \A j \in 1 .. Len(b) : SubSeq(b, 1, Len(b))[j] = b[j]
      BY <1>0, <2>2
    <2>4. SubSeq(b, 1, Len(b)) = b
      BY <2>2, <2>3, SeqEqual
    <2> QED
      BY <2>1, <2>4
  <1>2. 1 + k - 1 = k /\ k \in Nat \ {0} /\ 1 + k - 1 <= Len(b)
    BY <1>0
  <1>3. WholeAt(SubSeq(c, 1, Len(b)), k) => WholeAt(c, 1 + k - 1)
    BY <1>0, <1>2, WholeInPart
  <1> QED
    BY <1>1, <1>2, <1>3 DEF Begins

\* Bytes that are not waited for are there.
LEMMA HasBytes ==
    ASSUME NEW b \in Seq(Byte), ~ReadRtuFrame(b).incomplete
    PROVE  Len(b) >= MinFrame /\ Len(b) >= 1 /\ b # <<>>
  <1>0. CrcSize \in Nat \ {0} /\ MinFrame \in Nat /\ MinFrame >= 3 /\ Len(b) \in Nat
    BY FramingAssumption DEF MinFrame
  <1>1. ~(Len(b) < MinFrame)
    BY Verdicts
  <1>2. Len(<<>>) = 0
    OBVIOUS
  <1> QED
    BY <1>0, <1>1, <1>2

=============================================================================
