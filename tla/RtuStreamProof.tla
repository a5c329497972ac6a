--------------------------- MODULE RtuStreamProof ---------------------------
(***************************************************************************)
(* What module RtuStream guarantees for every layout, every traffic on the *)
(* line and every number of requests.                                      *)
(***************************************************************************)
EXTENDS RtuStream, RtuFramingProof

-----------------------------------------------------------------------------
(* The types. *)

\* The bytes of a frame under its number.
LEMMA LabelledIs ==
    ASSUME NEW values \in Seq(Values), NEW n \in Nat
    PROVE  /\ Labelled(values, n) \in Seq(Byte)
           /\ Len(Labelled(values, n)) = Len(values)
           /\ Len(values) \in Nat
           /\ \A k \in 1 .. Len(values) :
                 Labelled(values, n)[k].frame = n /\ Labelled(values, n)[k].pos = k
  <1>1. Len(values) \in Nat /\ \A k \in 1 .. Len(values) : values[k] \in Values
    BY ElementOfSeq
  <1>2. \A k \in 1 .. Len(values) :
           [value |-> values[k], frame |-> n, pos |-> k, of |-> Len(values)] \in Byte
    BY <1>1 DEF Byte
  <1>3. Labelled(values, n) \in [1 .. Len(values) -> Byte]
    BY <1>2 DEF Labelled
  <1>4. Labelled(values, n) \in Seq(Byte) /\ Len(Labelled(values, n)) = Len(values)
    BY <1>1, <1>3, SeqDef, LenProperties
  <1> QED
    BY <1>1, <1>4 DEF Labelled

\* What the transceiver puts before the reader is as long as what was written,
\* and is that or noise.
LEMMA EchoesAre ==
    ASSUME NEW bytes \in Seq(Byte), NEW e \in EchoesOf(bytes)
    PROVE  /\ e \in Seq(Byte) /\ Len(e) = Len(bytes)
           /\ e = bytes \/ \A k \in 1 .. Len(e) : e[k].frame = 0
  <1> DEFINE zeros == [k \in 1 .. Len(bytes) |-> 0]
  <1>1. Len(bytes) \in Nat /\ 0 \in Values /\ 0 \in Nat
    BY FramingAssumption
  <1>2. zeros \in [1 .. Len(bytes) -> Values]
    BY <1>1
  <1>3. zeros \in Seq(Values) /\ Len(zeros) = Len(bytes)
    BY <1>1, <1>2, SeqDef, LenProperties
  <1> HIDE DEF zeros
  <1>4. /\ Labelled(zeros, 0) \in Seq(Byte)
        /\ Len(Labelled(zeros, 0)) = Len(bytes)
        /\ \A k \in 1 .. Len(bytes) : Labelled(zeros, 0)[k].frame = 0
    BY <1>1, <1>3, LabelledIs
  <1>5. e = bytes \/ e = Labelled(zeros, 0)
    BY DEF EchoesOf, zeros
  <1> QED
    BY <1>4, <1>5

\* The numbers of frames.
LEMMA FrameNumbers ==
    ASSUME NEW n \in Nat
    PROVE  EchoNo(n) \in Nat /\ ReplyNo(n) \in Nat /\ EchoNo(n) = 100 + 2 * n
           /\ ReplyNo(n) = 101 + 2 * n /\ EchoNo(n) # 0 /\ ReplyNo(n) # 0
  BY DEF EchoNo, ReplyNo

LEMMA TypeInit == Init => TypeOK
  <1> SUFFICES ASSUME Init PROVE TypeOK
    OBVIOUS
  <1>1. line \in Seq(Byte)
    BY StreamAssumption DEF Init
  <1>2. replies \subseteq Nat
    <2>1. \A k \in 1 .. Len(line) : line[k].frame \in Nat
      BY <1>1, ByteType
    <2> QED
      BY <2>1 DEF Init
  <1>3. /\ <<>> \in Seq(Byte) /\ <<>> \in Seq(Nat) /\ Len(<<>>) <= Len(<<>>)
        /\ 0 \in 0 .. MaxSends
    BY StreamAssumption
  <1> QED
    BY <1>1, <1>2, <1>3 DEF Init, TypeOK

LEMMA Typed ==
    ASSUME TypeOK
    PROVE  /\ line \in Seq(Byte) /\ inbox \in Seq(Byte) /\ buffer \in Seq(Byte)
           /\ heard \in Seq(Byte) /\ message \in Seq(Values)
           /\ Len(line) \in Nat /\ Len(inbox) \in Nat /\ Len(buffer) \in Nat
           /\ Len(heard) \in Nat /\ Len(message) \in Nat /\ Len(heard) <= Len(message)
           /\ sends \in Nat /\ got \in Seq(Nat) /\ Len(got) \in Nat
           /\ MaxFrame \in Nat /\ MaxSends \in Nat
           /\ sends <= MaxSends
           /\ echo \in BOOLEAN /\ settled \in BOOLEAN /\ astray \in BOOLEAN
           /\ replies \subseteq Nat
  <1>1. message \in Seq(Values)
    <2>1. <<>> \in Seq(Values)
      OBVIOUS
    <2> QED
      BY <2>1, StreamAssumption DEF TypeOK
  <1>2. MaxFrame \in Nat /\ MaxSends \in Nat /\ echo \in BOOLEAN
    BY StreamAssumption DEF TypeOK
  <1> QED
    BY <1>1, <1>2 DEF TypeOK

\* What receive() returns: the first of the bytes held, as a frame.
LEMMA ReturnedFrame ==
    ASSUME NEW b \in Seq(Byte), NEW n,
           \/ ReadRtuFrame(b).found /\ n = ReadRtuFrame(b).length
           \/ ChecksumHolds(b) /\ n = Len(b)
    PROVE  /\ n \in Nat /\ n >= MinFrame /\ n >= 1 /\ n <= Len(b) /\ n \in 0 .. Len(b)
           /\ b[1].frame # 0 /\ b[1].frame \in Nat /\ b[1].pos = 1 /\ b[1].of = n
           /\ \A k \in 1 .. n : b[k].frame = b[1].frame /\ b[k].pos = k
  <1>0. MinFrame \in Nat /\ MinFrame >= 3 /\ Len(b) \in Nat
    BY FramingAssumption DEF MinFrame
  <1>1. /\ n \in Nat /\ n >= MinFrame /\ n <= Len(b)
        /\ b[1].frame # 0 /\ b[1].of = n
        /\ \A k \in 1 .. n : b[k].frame = b[1].frame /\ b[k].pos = k
    <2>1. CASE ReadRtuFrame(b).found /\ n = ReadRtuFrame(b).length
      BY <2>1, FoundIs
    <2>2. CASE ChecksumHolds(b) /\ n = Len(b)
      BY <1>0, <2>2 DEF ChecksumHolds
    <2> QED
      BY <2>1, <2>2
  <1>2. 1 \in 1 .. n /\ 1 \in 1 .. Len(b) /\ n \in 0 .. Len(b)
    BY <1>0, <1>1
  <1> QED
    BY <1>0, <1>1, <1>2, ByteType

\* What a read of the port moves.
LEMMA PortMoves ==
    ASSUME NEW s \in Seq(Byte), NEW b \in Seq(Byte), NEW n \in 1 .. Len(s)
    PROVE  /\ n \in 0 .. Len(s)
           /\ SubSeq(s, 1, n) \in Seq(Byte) /\ Len(SubSeq(s, 1, n)) = n
           /\ From(s, n + 1) \in Seq(Byte)
           /\ b \o SubSeq(s, 1, n) \in Seq(Byte)
           /\ Len(b \o SubSeq(s, 1, n)) = Len(b) + n
  <1>1. n \in 0 .. Len(s)
    OBVIOUS
  <1>2. /\ SubSeq(s, 1, n) \in Seq(Byte) /\ Len(SubSeq(s, 1, n)) = n
        /\ From(s, n + 1) \in Seq(Byte)
    BY <1>1, CutInTwo
  <1> QED
    BY <1>1, <1>2, ConcatProperties

LEMMA ReturnTypes ==
    ASSUME TypeOK, NEW n,
           \/ ReadRtuFrame(buffer).found /\ n = ReadRtuFrame(buffer).length
           \/ ChecksumHolds(buffer) /\ n = Len(buffer),
           Return(n)
    PROVE  buffer' \in Seq(Byte) /\ got' \in Seq(Nat) /\ result' = "frame" /\ pc' = "idle"
  <1>1. buffer \in Seq(Byte) /\ got \in Seq(Nat)
    BY Typed
  <1>2. n \in 0 .. Len(buffer) /\ buffer[1].frame \in Nat
    BY <1>1, ReturnedFrame
  <1>3. From(buffer, n + 1) \in Seq(Byte)
    BY <1>1, <1>2, CutInTwo
  <1>4. Append(got, buffer[1].frame) \in Seq(Nat)
    BY <1>1, <1>2, AppendProperties
  <1> QED
    BY <1>3, <1>4 DEF Return

LEMMA WrittenTypes ==
    ASSUME TypeOK, NEW frame \in Sends, NEW n \in 0 .. Len(frame), sends' \in Nat,
           Written(frame, SubSeq(Labelled(frame, EchoNo(sends')), 1, n))
    PROVE  line' \in Seq(Byte) /\ inbox' \in Seq(Byte) /\ replies' \subseteq Nat
  <1>0. /\ line \in Seq(Byte) /\ inbox \in Seq(Byte) /\ echo \in BOOLEAN /\ replies \subseteq Nat
        /\ EchoNo(sends') \in Nat /\ ReplyNo(sends') \in Nat /\ frame \in Seq(Values)
    BY Typed, FrameNumbers, StreamAssumption
  <1> DEFINE bytes == SubSeq(Labelled(frame, EchoNo(sends')), 1, n)
  <1>1. bytes \in Seq(Byte)
    BY <1>0, LabelledIs, CutInTwo
  <1> HIDE DEF bytes
  <1>2. inbox' \in Seq(Byte)
    <2>1. CASE echo
      <3>1. PICK e \in EchoesOf(bytes) : inbox' = inbox \o e
        BY <2>1 DEF Written, bytes
      <3>2. e \in Seq(Byte)
        BY <1>1, EchoesAre
      <3> QED
        BY <1>0, <3>1, <3>2, ConcatProperties
    <2>2. CASE ~echo
      BY <1>0, <2>2 DEF Written
    <2> QED
      BY <1>0, <2>1, <2>2
  <1>3. line' \in Seq(Byte) /\ replies' \subseteq Nat
    <2>1. CASE UNCHANGED <<line, replies>>
      BY <1>0, <2>1
    <2>2. CASE /\ \E answer \in Answers : line' = line \o Labelled(answer, ReplyNo(sends'))
               /\ replies' = replies \cup {ReplyNo(sends')}
      <3>1. PICK answer \in Answers : line' = line \o Labelled(answer, ReplyNo(sends'))
        BY <2>2
      <3>2. Labelled(answer, ReplyNo(sends')) \in Seq(Byte)
        BY <1>0, LabelledIs, StreamAssumption
      <3> QED
        BY <1>0, <2>2, <3>1, <3>2, ConcatProperties
    <2> QED
      BY <2>1, <2>2 DEF Written
  <1> QED
    BY <1>2, <1>3

\* A whole frame is the first bytes of it, all of them.
LEMMA WholeFrame ==
    ASSUME NEW frame \in Sends, NEW n \in Nat
    PROVE  SubSeq(Labelled(frame, n), 1, Len(frame)) = Labelled(frame, n)
           /\ Len(frame) \in 0 .. Len(frame)
  <1> DEFINE s == Labelled(frame, n)
  <1>1. s \in Seq(Byte) /\ Len(s) = Len(frame) /\ Len(frame) \in Nat
    BY LabelledIs, StreamAssumption
  <1> HIDE DEF s
  <1>2. Len(frame) \in 0 .. Len(s)
    BY <1>1
  <1>3. /\ SubSeq(s, 1, Len(frame)) \in Seq(Byte)
        /\ Len(SubSeq(s, 1, Len(frame))) = Len(frame)
        /\ \A k \in 1 .. Len(frame) : SubSeq(s, 1, Len(frame))[k] = s[k]
    BY <1>1, <1>2, CutInTwo
  <1>4. SubSeq(s, 1, Len(frame)) = s
    BY <1>1, <1>3, SeqEqual
  <1> QED
    BY <1>1, <1>4 DEF s

LEMMA TypeStep == TypeOK /\ [Next]_vars => TypeOK'
  <1> SUFFICES ASSUME TypeOK, [Next]_vars PROVE TypeOK'
    OBVIOUS
  <1>0. /\ line \in Seq(Byte) /\ inbox \in Seq(Byte) /\ buffer \in Seq(Byte)
        /\ heard \in Seq(Byte) /\ message \in Seq(Values)
        /\ Len(line) \in Nat /\ Len(inbox) \in Nat /\ Len(buffer) \in Nat
        /\ Len(heard) \in Nat /\ Len(message) \in Nat /\ Len(heard) <= Len(message)
        /\ sends \in Nat /\ got \in Seq(Nat)
        /\ MaxFrame \in Nat /\ MaxSends \in Nat
        /\ replies \subseteq Nat
    BY Typed
  <1>e. <<>> \in Seq(Byte) /\ Len(<<>>) = 0
    OBVIOUS
  <1>1. CASE Arrive
    <2>1. Head(line) \in Byte /\ Tail(line) \in Seq(Byte)
      BY <1>0, <1>1, HeadTailProperties DEF Arrive
    <2>2. Append(inbox, Head(line)) \in Seq(Byte)
      BY <1>0, <2>1, AppendProperties
    <2> QED
      BY <1>1, <2>1, <2>2 DEF Arrive, TypeOK, callVars
  <1>2. CASE Receive \/ NoSizeStated \/ WantMore \/ ReadQuiet
    BY <1>2 DEF Receive, NoSizeStated, WantMore, ReadQuiet, TypeOK, callVars
  <1>3. CASE TakeFrame \/ ScanFinds
    <2>1. buffer' \in Seq(Byte) /\ got' \in Seq(Nat) /\ result' = "frame" /\ pc' = "idle"
      BY <1>3, ReturnTypes DEF TakeFrame, ScanFinds
    <2> QED
      BY <1>3, <2>1 DEF TakeFrame, ScanFinds, TypeOK, callVars
  <1>4. CASE Discard \/ ScanDiscards
    <2>1. buffer # <<>>
      <3>1. CASE Discard
        BY <1>0, <3>1, HasBytes DEF Discard
      <3>2. CASE ScanDiscards
        <4>1. Len(buffer) >= MinFrame /\ MinFrame >= 3 /\ MinFrame \in Nat
          BY <3>2, FramingAssumption DEF ScanDiscards, MinFrame
        <4> QED
          BY <1>e, <4>1
      <3> QED
        BY <1>4, <3>1, <3>2
    <2>2. Tail(buffer) \in Seq(Byte)
      BY <1>0, <2>1, HeadTailProperties
    <2> QED
      BY <1>4, <2>2 DEF Discard, ScanDiscards, TypeOK, callVars
  <1>5. CASE ReadWanted \/ ReadToSilence
    <2>1. PICK n \in 1 .. Len(inbox) : buffer' = buffer \o SubSeq(inbox, 1, n)
                                       /\ inbox' = From(inbox, n + 1)
      BY <1>5 DEF ReadWanted, ReadToSilence, Readable, First, PortReads
    <2>2. buffer' \in Seq(Byte) /\ inbox' \in Seq(Byte)
      BY <1>0, <2>1, PortMoves
    <2> QED
      BY <1>5, <2>2 DEF ReadWanted, ReadToSilence, TypeOK, callVars
  <1>6. CASE JudgeSilence
    <2>1. CASE ChecksumHolds(buffer)
      <3>1. buffer' \in Seq(Byte) /\ got' \in Seq(Nat) /\ result' = "frame" /\ pc' = "idle"
        BY <1>6, <2>1, ReturnTypes DEF JudgeSilence
      <3> QED
        BY <1>6, <3>1 DEF JudgeSilence, TypeOK, callVars
    <2>2. CASE ~ChecksumHolds(buffer)
      BY <1>6, <2>2 DEF JudgeSilence, TypeOK, callVars
    <2> QED
      BY <2>1, <2>2
  <1>7. CASE ScanFails
    BY <1>e, <1>7 DEF ScanFails, TypeOK, callVars
  <1>8. ASSUME NEW frame \in Sends, Send(frame) PROVE TypeOK'
    <2>1. /\ sends < MaxSends /\ sends' = sends + 1 /\ message' = frame /\ heard' = <<>>
          /\ settled' = (settled /\ replies \subseteq Returned)
      BY <1>8 DEF Send, Call
    <2>2. sends' \in Nat /\ sends' \in 0 .. MaxSends
      BY <1>0, <2>1
    <2>3. line' \in Seq(Byte) /\ inbox' \in Seq(Byte) /\ replies' \subseteq Nat
      <3>1. EchoNo(sends') \in Nat
        BY <2>2, FrameNumbers
      <3>2. Written(frame, SubSeq(Labelled(frame, EchoNo(sends')), 1, Len(frame)))
            /\ Len(frame) \in 0 .. Len(frame)
        BY <1>8, <3>1, WholeFrame DEF Send
      <3> QED
        BY <2>2, <3>2, WrittenTypes
    <2>4. Len(heard') <= Len(message')
      <3>1. Len(frame) \in Nat
        BY StreamAssumption
      <3> QED
        BY <1>e, <2>1, <3>1
    <2>5. pc' \in {"idle", "receive", "read", "silence", "scan", "echo", "drain"}
          /\ result' \in {"none", "frame", "timeout", "garbage", "sent", "collision", "failed"}
      BY <1>8 DEF Send, TypeOK
    <2>6. message' \in Sends \cup {<<>>} /\ heard' \in Seq(Byte) /\ settled' \in BOOLEAN
      BY <1>e, <2>1
    <2> QED
      BY <1>8, <2>2, <2>3, <2>4, <2>5, <2>6 DEF Send, TypeOK
  <1>9. ASSUME NEW frame \in Sends, SendFails(frame) PROVE TypeOK'
    <2>1. /\ sends < MaxSends /\ sends' = sends + 1 /\ message' = frame /\ heard' = <<>>
          /\ settled' = (settled /\ replies \subseteq Returned)
      BY <1>9 DEF SendFails, Call
    <2>2. sends' \in Nat /\ sends' \in 0 .. MaxSends
      BY <1>0, <2>1
    <2>3. PICK n \in 0 .. Len(frame) :
             /\ Written(frame, SubSeq(Labelled(frame, EchoNo(sends')), 1, n))
             /\ astray' = (astray \/ (echo /\ n > 0))
      BY <1>9 DEF SendFails
    <2>4. line' \in Seq(Byte) /\ inbox' \in Seq(Byte) /\ replies' \subseteq Nat
      BY <2>2, <2>3, WrittenTypes
    <2>5. Len(heard') <= Len(message')
      <3>1. Len(frame) \in Nat
        BY StreamAssumption
      <3> QED
        BY <1>e, <2>1, <3>1
    <2>6. message' \in Sends \cup {<<>>} /\ heard' \in Seq(Byte)
          /\ settled' \in BOOLEAN /\ astray' \in BOOLEAN
      BY <1>e, <2>1, <2>3
    <2> QED
      BY <1>9, <2>2, <2>4, <2>5, <2>6 DEF SendFails, TypeOK
  <1>10. CASE ReadEcho
    <2>1. PICK n \in 1 .. Len(inbox) : /\ n <= Len(message) - Len(heard)
                                       /\ heard' = heard \o SubSeq(inbox, 1, n)
                                       /\ inbox' = From(inbox, n + 1)
      BY <1>10 DEF ReadEcho, Readable, First, PortReads
    <2>2. heard' \in Seq(Byte) /\ inbox' \in Seq(Byte) /\ Len(heard') = Len(heard) + n
      BY <1>0, <2>1, PortMoves
    <2>3. Len(heard') <= Len(message)
      BY <1>0, <2>1, <2>2
    <2> QED
      BY <1>10, <2>2, <2>3 DEF ReadEcho, TypeOK
  <1>11. CASE JudgeEcho
    <2>1. heard' = <<>> /\ message' = message
      BY <1>11 DEF JudgeEcho
    <2>2. heard' \in Seq(Byte) /\ Len(heard') <= Len(message')
      BY <1>0, <1>e, <2>1
    <2>3. /\ pc' \in {"idle", "receive", "read", "silence", "scan", "echo", "drain"}
          /\ result' \in {"none", "frame", "timeout", "garbage", "sent", "collision", "failed"}
          /\ astray' \in BOOLEAN
      BY <1>11 DEF JudgeEcho, TypeOK
    <2> QED
      BY <1>11, <2>2, <2>3 DEF JudgeEcho, TypeOK
  <1>12. CASE Drain
    <2>1. CASE \E n \in Readable(MaxFrame) : PortReads(n) /\ UNCHANGED <<buffer, pc, result, astray>>
      <3>1. PICK n \in 1 .. Len(inbox) : inbox' = From(inbox, n + 1)
                                         /\ UNCHANGED <<buffer, pc, result, astray>>
        BY <2>1 DEF Readable, PortReads
      <3>2. inbox' \in Seq(Byte)
        BY <1>0, <3>1, PortMoves
      <3> QED
        BY <1>12, <3>1, <3>2 DEF Drain, TypeOK
    <2>2. CASE /\ buffer' = <<>> /\ pc' = "idle" /\ result' = "collision"
               /\ astray' = FALSE /\ UNCHANGED inbox
      BY <1>12, <1>e, <2>2 DEF Drain, TypeOK
    <2> QED
      BY <1>12, <2>1, <2>2 DEF Drain
  <1>13. CASE ReadFails
    <2>1. heard' = <<>> /\ message' = message
      BY <1>13 DEF ReadFails
    <2>2. heard' \in Seq(Byte) /\ Len(heard') <= Len(message')
      BY <1>0, <1>e, <2>1
    <2>3. astray' \in BOOLEAN
      BY <1>13 DEF ReadFails, TypeOK
    <2> QED
      BY <1>13, <2>2, <2>3 DEF ReadFails, TypeOK
  <1>14. CASE UNCHANGED vars
    BY <1>14 DEF vars, TypeOK
  <1> QED
    BY <1>1, <1>2, <1>3, <1>4, <1>5, <1>6, <1>7, <1>8, <1>9, <1>10, <1>11, <1>12, <1>13, <1>14
    DEF Next, Receiving, Sending

\* The port's bytes, the buffer and what send() reads back keep their types, and
\* no more of an echo is ever read than was written.
THEOREM RtuStreamTypes == Spec => []TypeOK
  <1> QED
    BY TypeInit, TypeStep, PTL DEF Spec

-----------------------------------------------------------------------------
(* receive() keeps whole frames.                                           *)

\* The frames that begin after the first n bytes.
LEMMA LaterFrames ==
    ASSUME NEW b \in Seq(Byte), NEW n \in 0 .. Len(b), NEW k \in 1 .. Len(b), k > n,
           WholeAt(b, k)
    PROVE  b[k].frame \in FramesIn(From(b, n + 1))
  <1> DEFINE p == SubSeq(b, n + 1, Len(b))
  <1>0. Len(b) \in Nat /\ n \in Nat /\ n + 1 \in Nat \ {0} /\ k - n \in Nat \ {0}
        /\ n + 1 + (k - n) - 1 = k /\ k <= Len(b) /\ k \in Nat
    OBVIOUS
  <1>1. k + b[k].of - 1 <= Len(b)
    BY DEF WholeAt
  <1> DEFINE j == k - n
  <1>2. j \in Nat \ {0} /\ n + 1 + j - 1 = k /\ n + 1 + j - 1 <= Len(b)
    BY <1>0
  <1> HIDE DEF j
  <1>3. /\ p[j] = b[n + 1 + j - 1]
        /\ WholeAt(p, j) <=>
              /\ WholeAt(b, n + 1 + j - 1)
              /\ n + 1 + j - 1 + b[n + 1 + j - 1].of - 1 <= Len(b)
    BY <1>0, <1>2, WholeInPart
  <1>4. WholeAt(p, j) /\ p[j] = b[k]
    BY <1>1, <1>2, <1>3
  <1>5. Len(p) = Len(b) - n
    BY <1>0, LinePart
  <1>6. j \in 1 .. Len(p)
    BY <1>0, <1>2, <1>5 DEF j
  <1>7. b[k].frame \in FramesIn(p)
    <2> HIDE DEF p
    <2> QED
      BY <1>4, <1>6, FramesAre
  <1> QED
    BY <1>7 DEF From

LEMMA ReturnKeepsFrames ==
    ASSUME NEW b \in Seq(Byte), NEW n,
           \/ ReadRtuFrame(b).found /\ n = ReadRtuFrame(b).length
           \/ ChecksumHolds(b) /\ n = Len(b),
           NEW f \in FramesIn(b)
    PROVE  f = b[1].frame \/ f \in FramesIn(From(b, n + 1))
  <1>1. PICK k \in 1 .. Len(b) : WholeAt(b, k) /\ f = b[k].frame
    BY FramesAre
  <1>2. /\ n \in 0 .. Len(b) /\ n \in Nat
        /\ \A j \in 1 .. n : b[j].frame = b[1].frame /\ b[j].pos = j
    BY ReturnedFrame
  <1>3. CASE k <= n
    <2>1. k \in 1 .. n
      BY <1>2, <1>3
    <2> QED
      BY <1>1, <1>2, <2>1
  <1>4. CASE ~(k <= n)
    <2>1. k > n
      BY <1>2, <1>4
    <2> QED
      BY <1>1, <1>2, <2>1, LaterFrames
  <1> QED
    BY <1>3, <1>4

\* A whole frame that leads the bytes is found.
LEMMA LeadingFrame ==
    ASSUME NEW b \in Seq(Byte), Len(b) >= 1, WholeAt(b, 1)
    PROVE  ReadRtuFrame(b).found
  <1> DEFINE n == b[1].of
             whole == SubSeq(b, 1, n)
  <1>1. n \in Nat /\ 1 + n - 1 = n
    <2>1. 1 \in 1 .. Len(b)
      OBVIOUS
    <2>2. n \in Nat
      BY <2>1, ByteType
    <2> HIDE DEF n
    <2> QED
      BY <2>2
  <1>2. n <= Len(b) /\ ReadRtuFrame(whole).found
    BY <1>1 DEF WholeAt
  <1>3. n \in 0 .. Len(b)
    BY <1>1, <1>2
  <1>4. whole \in Seq(Byte) /\ Len(whole) = n /\ \A k \in 1 .. n : whole[k] = b[k]
    BY <1>3, CutInTwo
  <1>5. Begins(whole, b)
    <2> HIDE DEF whole, n
    <2> QED
      BY <1>2, <1>4 DEF Begins
  <1>6. ~ReadRtuFrame(whole).incomplete
    BY <1>2, <1>4, Verdicts
  <1>7. ReadRtuFrame(b) = ReadRtuFrame(whole)
    BY <1>4, <1>5, <1>6, VerdictStands
  <1> QED
    BY <1>2, <1>7

LEMMA DiscardKeepsFrames ==
    ASSUME NEW b \in Seq(Byte), b # <<>>, ~ReadRtuFrame(b).found, NEW f \in FramesIn(b)
    PROVE  f \in FramesIn(Tail(b))
  <1>1. PICK k \in 1 .. Len(b) : WholeAt(b, k) /\ f = b[k].frame
    BY FramesAre
  <1>2. k # 1 /\ Len(b) >= 1
    <2>1. Len(b) >= 1
      BY <1>1
    <2> QED
      BY <1>1, <2>1, LeadingFrame
  <1>3. k > 1 /\ 1 \in 0 .. Len(b)
    BY <1>1, <1>2
  <1>4. Tail(b) = From(b, 1 + 1)
    BY TailIsSubSeq DEF From
  <1> QED
    BY <1>1, <1>3, <1>4, LaterFrames

LEMMA ReadKeepsFrames ==
    ASSUME NEW b \in Seq(Byte), NEW t \in Seq(Byte), NEW f \in FramesIn(b)
    PROVE  f \in FramesIn(b \o t)
  <1>1. PICK k \in 1 .. Len(b) : WholeAt(b, k) /\ f = b[k].frame
    BY FramesAre
  <1>2. /\ b \o t \in Seq(Byte) /\ Len(b \o t) = Len(b) + Len(t)
        /\ Len(b) \in Nat /\ Len(t) \in Nat
        /\ \A j \in 1 .. Len(b) + Len(t) :
              (b \o t)[j] = IF j <= Len(b) THEN b[j] ELSE t[j - Len(b)]
    BY ConcatProperties
  <1>3. Begins(b, b \o t) /\ k \in 1 .. Len(b \o t)
    BY <1>2 DEF Begins
  <1>4. WholeAt(b \o t, k) /\ (b \o t)[k] = b[k]
    BY <1>1, <1>2, <1>3, WholeInMore
  <1> QED
    BY <1>1, <1>3, <1>4, FramesAre

LEMMA FewBytesHoldNone ==
    ASSUME NEW b \in Seq(Byte), Len(b) < MinFrame
    PROVE  FramesIn(b) = {}
  <1> SUFFICES ASSUME NEW k \in 1 .. Len(b), WholeAt(b, k) PROVE FALSE
    BY FramesAre
  <1> DEFINE n == b[k].of
             whole == SubSeq(b, k, k + n - 1)
  <1>0. MinFrame \in Nat /\ MinFrame >= 3 /\ Len(b) \in Nat /\ k \in Nat \ {0}
    BY FramingAssumption DEF MinFrame
  <1>1. n \in Nat
    BY ByteType
  <1>2. k + n - 1 <= Len(b) /\ ChecksumHolds(whole)
    BY DEF WholeAt
  <1>3. Len(whole) >= MinFrame
    BY <1>2 DEF ChecksumHolds
  <1> DEFINE e == k + n - 1
  <1>4. Len(SubSeq(b, k, e)) = IF k <= e THEN e - k + 1 ELSE 0
    <2>1. e \in Nat /\ e <= Len(b)
      <3> HIDE DEF n
      <3> QED
        BY <1>0, <1>1, <1>2
    <2> HIDE DEF e
    <2> QED
      BY <1>0, <2>1, PartOfBytes
  <1>5. Len(whole) = IF k <= e THEN e - k + 1 ELSE 0
    BY <1>4
  <1>6. e \in Int /\ e <= Len(b)
    <2> HIDE DEF n
    <2> QED
      BY <1>0, <1>1, <1>2
  <1> HIDE DEF e, whole
  <1> QED
    BY <1>0, <1>3, <1>5, <1>6

\* receive() never drops a whole frame a reader can size, whatever it does about
\* the noise, the silences and the false headers around it.
THEOREM ReceiveKeepsFrames == Spec => KeepsWholeFrames
  <1>1. TypeOK /\ Receiving =>
            FramesIn(buffer) \subseteq FramesIn(buffer') \cup {got'[k] : k \in 1 .. Len(got')}
    <2> SUFFICES ASSUME TypeOK, Receiving, NEW f \in FramesIn(buffer)
                 PROVE  f \in FramesIn(buffer') \cup {got'[k] : k \in 1 .. Len(got')}
      OBVIOUS
    <2>0. /\ inbox \in Seq(Byte) /\ buffer \in Seq(Byte) /\ got \in Seq(Nat)
      BY Typed
    <2>1. ASSUME NEW n, Return(n),
                 \/ ReadRtuFrame(buffer).found /\ n = ReadRtuFrame(buffer).length
                 \/ ChecksumHolds(buffer) /\ n = Len(buffer)
          PROVE  f \in FramesIn(buffer') \cup {got'[k] : k \in 1 .. Len(got')}
      <3>1. buffer' = From(buffer, n + 1) /\ got' = Append(got, buffer[1].frame)
        BY <2>1 DEF Return
      <3>2. f = buffer[1].frame \/ f \in FramesIn(From(buffer, n + 1))
        BY <2>0, <2>1, ReturnKeepsFrames
      <3>3. buffer[1].frame \in Nat
        BY <2>0, <2>1, ReturnedFrame
      <3> DEFINE a == buffer[1].frame
      <3> HIDE DEF a
      <3>4. Len(Append(got, a)) = Len(got) + 1 /\ Append(got, a)[Len(got) + 1] = a
        BY <2>0, <3>3, AppendProperties DEF a
      <3>5. Len(got) + 1 \in 1 .. Len(Append(got, a))
        BY <2>0, <3>4
      <3> QED
        BY <3>1, <3>2, <3>4, <3>5 DEF a
    <2>2. CASE UNCHANGED buffer
      BY <2>2
    <2>3. CASE TakeFrame \/ ScanFinds
      BY <2>1, <2>3 DEF TakeFrame, ScanFinds
    <2>4. CASE Discard \/ ScanDiscards
      <3>1. buffer # <<>>
        <4>1. MinFrame \in Nat /\ MinFrame >= 3 /\ Len(<<>>) = 0
          BY FramingAssumption DEF MinFrame
        <4>2. ScanDiscards => Len(buffer) >= MinFrame
          BY DEF ScanDiscards
        <4>3. Discard => buffer # <<>>
          BY <2>0, HasBytes DEF Discard
        <4> QED
          BY <2>4, <4>1, <4>2, <4>3
      <3>2. ~ReadRtuFrame(buffer).found /\ buffer' = Tail(buffer)
        BY <2>4 DEF Discard, ScanDiscards
      <3> QED
        BY <2>0, <3>1, <3>2, DiscardKeepsFrames
    <2>5. CASE ReadWanted \/ ReadToSilence
      <3>1. PICK n \in 1 .. Len(inbox) : buffer' = buffer \o SubSeq(inbox, 1, n)
        BY <2>5 DEF ReadWanted, ReadToSilence, Readable, First, PortReads
      <3>2. SubSeq(inbox, 1, n) \in Seq(Byte)
        BY <2>0, <3>1, PortMoves
      <3> QED
        BY <2>0, <3>1, <3>2, ReadKeepsFrames
    <2>6. CASE JudgeSilence
      BY <2>1, <2>2, <2>6 DEF JudgeSilence
    <2>7. CASE ScanFails
      BY <2>0, <2>7, FewBytesHoldNone DEF ScanFails
    <2> QED
      BY <2>2, <2>3, <2>4, <2>5, <2>6, <2>7 DEF Receiving, NoSizeStated, WantMore, ReadQuiet
  <1>2. TypeOK /\ [Next]_vars =>
            [Receiving => FramesIn(buffer) \subseteq
                             FramesIn(buffer') \cup {got'[k] : k \in 1 .. Len(got')}]_vars
    BY <1>1
  <1> QED
    BY <1>2, RtuStreamTypes, PTL DEF Spec, KeepsWholeFrames

-----------------------------------------------------------------------------
(* The order of the frames.                                                *)

\* A number some echo has.
IsEcho(f) == \E n \in 1 .. MaxSends : f = EchoNo(n)

\* Frame g may be returned after f: another frame, and one put on the line
\* later where both are the other end's.
Later(f, g) == f # g /\ (~IsEcho(f) /\ ~IsEcho(g) => f < g)

\* The frames that begin among some bytes come in their order; those of s come
\* before those of t; what has been returned, g, comes before those of s.
InLine(s) ==
    \A i, j \in 1 .. Len(s) :
        i < j /\ Starts(s[i]) /\ Starts(s[j]) => Later(s[i].frame, s[j].frame)
Ahead(s, t) ==
    \A i \in 1 .. Len(s) : \A j \in 1 .. Len(t) :
        Starts(s[i]) /\ Starts(t[j]) => Later(s[i].frame, t[j].frame)
Past(g, s) ==
    \A i \in 1 .. Len(g) : \A j \in 1 .. Len(s) :
        Starts(s[j]) => Later(g[i], s[j].frame)

\* No frame of s has a number above n.
UpTo(s, n) == \A k \in 1 .. Len(s) : s[k].frame <= n

\* The bytes of p are some of those of s, in the order they have there.
Thinned(p, s) ==
    \E at \in [1 .. Len(p) -> 1 .. Len(s)] :
        /\ \A k \in 1 .. Len(p) : p[k] = s[at[k]]
        /\ \A j, k \in 1 .. Len(p) : j < k => at[j] < at[k]

LEMMA ThinnedOrder ==
    ASSUME NEW p \in Seq(Byte), NEW s \in Seq(Byte), Thinned(p, s)
    PROVE  /\ InLine(s) => InLine(p)
           /\ \A t : Ahead(s, t) => Ahead(p, t)
           /\ \A t : Ahead(t, s) => Ahead(t, p)
           /\ \A g : Past(g, s) => Past(g, p)
           /\ \A n : UpTo(s, n) => UpTo(p, n)
  <1>1. PICK at \in [1 .. Len(p) -> 1 .. Len(s)] :
           /\ \A k \in 1 .. Len(p) : p[k] = s[at[k]]
           /\ \A j, k \in 1 .. Len(p) : j < k => at[j] < at[k]
    BY DEF Thinned
  <1>2. \A k \in 1 .. Len(p) : at[k] \in 1 .. Len(s) /\ p[k] = s[at[k]]
    BY <1>1
  <1>3. InLine(s) => InLine(p)
    BY <1>1, <1>2 DEF InLine
  <1>4. \A t : Ahead(s, t) => Ahead(p, t)
    BY <1>2 DEF Ahead
  <1>5. \A t : Ahead(t, s) => Ahead(t, p)
    BY <1>2 DEF Ahead
  <1>6. \A g : Past(g, s) => Past(g, p)
    BY <1>2 DEF Past
  <1>7. \A n : UpTo(s, n) => UpTo(p, n)
    BY <1>2 DEF UpTo
  <1> QED
    BY <1>3, <1>4, <1>5, <1>6, <1>7

\* Cut in two, the parts are each in line and one behind the other.
LEMMA PartsThin ==
    ASSUME NEW s \in Seq(Byte), NEW n \in 0 .. Len(s)
    PROVE  /\ Thinned(SubSeq(s, 1, n), s) /\ Thinned(From(s, n + 1), s)
           /\ InLine(s) => Ahead(SubSeq(s, 1, n), From(s, n + 1))
  <1> DEFINE p == SubSeq(s, 1, n)
             q == From(s, n + 1)
  <1>0. Len(s) \in Nat /\ n \in Nat
    OBVIOUS
  <1>1. /\ p \in Seq(Byte) /\ Len(p) = n /\ \A k \in 1 .. n : p[k] = s[k]
        /\ q \in Seq(Byte) /\ Len(q) = Len(s) - n
        /\ \A k \in 1 .. Len(s) - n : q[k] = s[n + k]
    BY CutInTwo
  <1> HIDE DEF p, q
  <1>2. Thinned(p, s)
    <2> DEFINE at == [k \in 1 .. Len(p) |-> k]
    <2>1. at \in [1 .. Len(p) -> 1 .. Len(s)]
      BY <1>0, <1>1
    <2>2. \A k \in 1 .. Len(p) : p[k] = s[at[k]]
      BY <1>1
    <2>3. \A j, k \in 1 .. Len(p) : j < k => at[j] < at[k]
      OBVIOUS
    <2> HIDE DEF at
    <2> QED
      BY <2>1, <2>2, <2>3 DEF Thinned
  <1>3. Thinned(q, s)
    <2> DEFINE at == [k \in 1 .. Len(q) |-> n + k]
    <2>1. at \in [1 .. Len(q) -> 1 .. Len(s)]
      BY <1>0, <1>1
    <2>2. \A k \in 1 .. Len(q) : q[k] = s[at[k]]
      BY <1>1
    <2>3. \A j, k \in 1 .. Len(q) : j < k => at[j] < at[k]
      BY <1>0, <1>1
    <2> HIDE DEF at
    <2> QED
      BY <2>1, <2>2, <2>3 DEF Thinned
  <1>4. ASSUME InLine(s), NEW i \in 1 .. Len(p), NEW j \in 1 .. Len(q),
               Starts(p[i]), Starts(q[j])
        PROVE  Later(p[i].frame, q[j].frame)
    <2>1. i \in 1 .. Len(s) /\ n + j \in 1 .. Len(s) /\ i < n + j
          /\ p[i] = s[i] /\ q[j] = s[n + j]
      BY <1>0, <1>1
    <2> QED
      BY <1>4, <2>1 DEF InLine
  <1> QED
    BY <1>2, <1>3, <1>4 DEF Ahead, p, q

\* Put together, they are in line again.
LEMMA JoinedOrder ==
    ASSUME NEW s \in Seq(Byte), NEW t \in Seq(Byte)
    PROVE  /\ InLine(s) /\ InLine(t) /\ Ahead(s, t) => InLine(s \o t)
           /\ \A u : Ahead(s, u) /\ Ahead(t, u) => Ahead(s \o t, u)
           /\ \A u : Ahead(u, s) /\ Ahead(u, t) => Ahead(u, s \o t)
           /\ \A g : Past(g, s) /\ Past(g, t) => Past(g, s \o t)
           /\ \A n : UpTo(s, n) /\ UpTo(t, n) => UpTo(s \o t, n)
  <1>1. /\ s \o t \in Seq(Byte) /\ Len(s \o t) = Len(s) + Len(t)
        /\ Len(s) \in Nat /\ Len(t) \in Nat
        /\ \A k \in 1 .. Len(s) + Len(t) :
              (s \o t)[k] = IF k <= Len(s) THEN s[k] ELSE t[k - Len(s)]
    BY ConcatProperties
  <1> DEFINE st == s \o t
  <1>2. \A k \in 1 .. Len(st) :
           \/ k \in 1 .. Len(s) /\ st[k] = s[k]
           \/ k - Len(s) \in 1 .. Len(t) /\ st[k] = t[k - Len(s)] /\ ~(k \in 1 .. Len(s))
    BY <1>1
  <1>3. Len(s) \in Nat /\ Len(t) \in Nat /\ Len(st) \in Nat
    BY <1>1
  <1> HIDE DEF st
  <1>4. ASSUME InLine(s), InLine(t), Ahead(s, t),
               NEW i \in 1 .. Len(st), NEW j \in 1 .. Len(st), i < j,
               Starts(st[i]), Starts(st[j])
        PROVE  Later(st[i].frame, st[j].frame)
    <2>1. CASE i \in 1 .. Len(s) /\ j \in 1 .. Len(s)
      BY <1>2, <1>4, <2>1 DEF InLine
    <2>2. CASE i \in 1 .. Len(s) /\ ~(j \in 1 .. Len(s))
      BY <1>2, <1>4, <2>2 DEF Ahead
    <2>3. CASE ~(i \in 1 .. Len(s))
      <3>1. ~(j \in 1 .. Len(s)) /\ i - Len(s) < j - Len(s)
        BY <1>3, <1>4, <2>3
      <3>2. i - Len(s) \in 1 .. Len(t) /\ st[i] = t[i - Len(s)]
            /\ j - Len(s) \in 1 .. Len(t) /\ st[j] = t[j - Len(s)]
        BY <1>2, <2>3, <3>1
      <3> QED
        BY <1>4, <3>1, <3>2 DEF InLine
    <2> QED
      BY <2>1, <2>2, <2>3
  <1>5. InLine(s) /\ InLine(t) /\ Ahead(s, t) => InLine(st)
    BY <1>4 DEF InLine
  <1>6. \A u : Ahead(s, u) /\ Ahead(t, u) => Ahead(st, u)
    BY <1>2 DEF Ahead
  <1>7. \A u : Ahead(u, s) /\ Ahead(u, t) => Ahead(u, st)
    BY <1>2 DEF Ahead
  <1>8. \A g : Past(g, s) /\ Past(g, t) => Past(g, st)
    BY <1>2 DEF Past
  <1>9. \A n : UpTo(s, n) /\ UpTo(t, n) => UpTo(st, n)
    BY <1>2 DEF UpTo
  <1> QED
    BY <1>5, <1>6, <1>7, <1>8, <1>9 DEF st

\* The frames returned (g), and those that begin among the bytes held (b), in
\* the port (i) and still on the line (l), come in this order; no number is above n.
Queued(g, b, i, l, n) ==
    /\ \A j, k \in 1 .. Len(g) : j < k => Later(g[j], g[k])
    /\ \A k \in 1 .. Len(g) : g[k] <= n
    /\ Past(g, b) /\ Past(g, i) /\ Past(g, l)
    /\ InLine(b) /\ InLine(i) /\ InLine(l)
    /\ Ahead(b, i) /\ Ahead(b, l) /\ Ahead(i, l)
    /\ UpTo(b, n) /\ UpTo(i, n) /\ UpTo(l, n)

\* Bytes may go.
LEMMA QueueThins ==
    ASSUME NEW g, NEW n, NEW b \in Seq(Byte), NEW i \in Seq(Byte), NEW l \in Seq(Byte),
           NEW c \in Seq(Byte), Thinned(c, b),
           NEW j \in Seq(Byte), Thinned(j, i),
           Queued(g, b, i, l, n)
    PROVE  Queued(g, c, j, l, n)
  <1>1. /\ InLine(c) /\ Past(g, c) /\ UpTo(c, n)
        /\ Ahead(c, i) /\ Ahead(c, l)
    BY ThinnedOrder DEF Queued
  <1>2. /\ InLine(j) /\ Past(g, j) /\ UpTo(j, n)
        /\ Ahead(c, j) /\ Ahead(j, l)
    BY <1>1, ThinnedOrder DEF Queued
  <1> QED
    BY <1>1, <1>2 DEF Queued

LEMMA AllThin ==
    ASSUME NEW s \in Seq(Byte)
    PROVE  Thinned(s, s) /\ Thinned(<<>>, s) /\ (s # <<>> => Thinned(Tail(s), s))
  <1>0. Len(s) \in Nat /\ 0 \in 0 .. Len(s) /\ Len(s) \in 0 .. Len(s)
    OBVIOUS
  <1>1. SubSeq(s, 1, 0) = <<>>
    BY SubSeqEmpty
  <1>2. Thinned(<<>>, s)
    BY <1>0, <1>1, PartsThin
  <1>3. SubSeq(s, 1, Len(s)) = s
    <2>1. /\ SubSeq(s, 1, Len(s)) \in Seq(Byte) /\ Len(SubSeq(s, 1, Len(s))) = Len(s)
          /\ \A k \in 1 .. Len(s) : SubSeq(s, 1, Len(s))[k] = s[k]
      BY <1>0, CutInTwo
    <2> QED
      BY <2>1, SeqEqual
  <1>4. Thinned(s, s)
    BY <1>0, <1>3, PartsThin
  <1>5. ASSUME s # <<>> PROVE Thinned(Tail(s), s)
    <2>1. Tail(s) = From(s, 1 + 1) /\ 1 \in 0 .. Len(s)
      BY <1>5, <1>0, TailIsSubSeq, EmptySeq DEF From
    <2> QED
      BY <2>1, PartsThin
  <1> QED
    BY <1>2, <1>4, <1>5

\* The port hands over its first bytes.
LEMMA QueueReads ==
    ASSUME NEW g, NEW n, NEW b \in Seq(Byte), NEW i \in Seq(Byte), NEW l \in Seq(Byte),
           NEW k \in 0 .. Len(i), Queued(g, b, i, l, n)
    PROVE  Queued(g, b \o SubSeq(i, 1, k), From(i, k + 1), l, n)
  <1> DEFINE p == SubSeq(i, 1, k)
             q == From(i, k + 1)
  <1>1. p \in Seq(Byte) /\ q \in Seq(Byte)
    BY CutInTwo
  <1>2. Thinned(p, i) /\ Thinned(q, i) /\ Ahead(p, q)
    BY PartsThin DEF Queued
  <1> HIDE DEF p, q
  <1>3. /\ InLine(p) /\ Past(g, p) /\ UpTo(p, n) /\ Ahead(b, p) /\ Ahead(p, l)
    BY <1>1, <1>2, ThinnedOrder DEF Queued
  <1>4. /\ InLine(q) /\ Past(g, q) /\ UpTo(q, n) /\ Ahead(b, q) /\ Ahead(q, l)
    BY <1>1, <1>2, ThinnedOrder DEF Queued
  <1>5. /\ InLine(b \o p) /\ Past(g, b \o p) /\ UpTo(b \o p, n)
        /\ Ahead(b \o p, q) /\ Ahead(b \o p, l)
    BY <1>1, <1>2, <1>3, <1>4, JoinedOrder DEF Queued
  <1> QED
    BY <1>4, <1>5 DEF Queued, p, q

\* A byte arrives at the port.
LEMMA QueueArrives ==
    ASSUME NEW g, NEW n, NEW b \in Seq(Byte), NEW i \in Seq(Byte), NEW l \in Seq(Byte),
           l # <<>>, Queued(g, b, i, l, n)
    PROVE  Queued(g, b, Append(i, Head(l)), Tail(l), n)
  <1>0. Len(l) \in Nat \ {0} /\ 1 \in 0 .. Len(l)
    BY EmptySeq
  <1> DEFINE p == SubSeq(l, 1, 1)
             q == From(l, 1 + 1)
  <1>1. /\ p \in Seq(Byte) /\ Len(p) = 1 /\ p[1] = l[1]
        /\ q \in Seq(Byte)
    BY <1>0, CutInTwo
  <1>2. Thinned(p, l) /\ Thinned(q, l) /\ Ahead(p, q)
    BY <1>0, PartsThin DEF Queued
  <1>3. q = Tail(l)
    BY TailIsSubSeq DEF From
  <1>4. Append(i, Head(l)) = i \o p
    <2>1. Head(l) = l[1] /\ Head(l) \in Byte
      BY HeadTailProperties
    <2>2. p = <<l[1]>>
      <3> HIDE DEF p
      <3> QED
        BY <1>1
    <2> QED
      BY <2>1, <2>2, AppendIsConcat
  <1> HIDE DEF p, q
  <1>5. /\ InLine(p) /\ Past(g, p) /\ UpTo(p, n) /\ Ahead(b, p) /\ Ahead(i, p)
    BY <1>1, <1>2, ThinnedOrder DEF Queued
  <1>6. /\ InLine(q) /\ Past(g, q) /\ UpTo(q, n) /\ Ahead(b, q) /\ Ahead(i, q)
    BY <1>1, <1>2, ThinnedOrder DEF Queued
  <1>7. /\ InLine(i \o p) /\ Past(g, i \o p) /\ UpTo(i \o p, n)
        /\ Ahead(b, i \o p) /\ Ahead(i \o p, q)
    BY <1>1, <1>2, <1>5, <1>6, JoinedOrder DEF Queued
  <1> QED
    BY <1>3, <1>4, <1>6, <1>7 DEF Queued

\* receive() returns the frame that leads the buffer.
LEMMA QueueReturns ==
    ASSUME NEW g \in Seq(Nat), NEW n, NEW b \in Seq(Byte), NEW i \in Seq(Byte),
           NEW l \in Seq(Byte), NEW k,
           \/ ReadRtuFrame(b).found /\ k = ReadRtuFrame(b).length
           \/ ChecksumHolds(b) /\ k = Len(b),
           Queued(g, b, i, l, n)
    PROVE  Queued(Append(g, b[1].frame), From(b, k + 1), i, l, n)
  <1> DEFINE f == b[1].frame
             h == Append(g, f)
             c == From(b, k + 1)
  <1>1. /\ k \in 0 .. Len(b) /\ k >= 1 /\ k \in Nat /\ f \in Nat /\ Starts(b[1])
        /\ 1 \in 1 .. Len(b) /\ Len(b) \in Nat
    BY ReturnedFrame DEF Starts
  <1>2. /\ c \in Seq(Byte) /\ Len(c) = Len(b) - k
        /\ \A j \in 1 .. Len(b) - k : c[j] = b[k + j]
    BY <1>1, CutInTwo
  <1>3. Thinned(c, b) /\ Thinned(i, i)
    BY <1>1, PartsThin, AllThin
  <1>4. Queued(g, c, i, l, n)
    <2> HIDE DEF c
    <2> QED
      BY <1>2, <1>3, QueueThins
  <1>5. /\ \A j \in 1 .. Len(c) : Starts(c[j]) => Later(f, c[j].frame)
        /\ \A j \in 1 .. Len(i) : Starts(i[j]) => Later(f, i[j].frame)
        /\ \A j \in 1 .. Len(l) : Starts(l[j]) => Later(f, l[j].frame)
        /\ \A j \in 1 .. Len(g) : Later(g[j], f)
        /\ f <= n
    <2>1. \A j \in 1 .. Len(c) : k + j \in 1 .. Len(b) /\ 1 < k + j /\ c[j] = b[k + j]
      <3> HIDE DEF f, c
      <3> QED
        BY <1>1, <1>2
    <2>2. \A j \in 1 .. Len(c) : Starts(c[j]) => Later(f, c[j].frame)
      <3> HIDE DEF c
      <3> QED
        BY <1>1, <2>1 DEF Queued, InLine
    <2> QED
      BY <1>1, <2>2 DEF Queued, Ahead, Past, UpTo
  <1> HIDE DEF f, c
  <1>6. /\ Len(h) = Len(g) + 1 /\ Len(g) \in Nat
        /\ \A j \in 1 .. Len(g) : h[j] = g[j]
        /\ h[Len(g) + 1] = f
    BY <1>1, AppendProperties
  <1> HIDE DEF h
  <1>7. \A j \in 1 .. Len(h) : (j \in 1 .. Len(g) /\ h[j] = g[j]) \/ (j = Len(g) + 1 /\ h[j] = f)
    <2> SUFFICES ASSUME NEW j \in 1 .. Len(h)
                 PROVE  (j \in 1 .. Len(g) /\ h[j] = g[j]) \/ (j = Len(g) + 1 /\ h[j] = f)
      OBVIOUS
    <2>1. j \in 1 .. Len(g) \/ j = Len(g) + 1
      BY <1>6
    <2>2. CASE j \in 1 .. Len(g)
      BY <1>6, <2>2
    <2>3. CASE j = Len(g) + 1
      BY <1>6, <2>3
    <2> QED
      BY <2>1, <2>2, <2>3
  <1>8. \A j, m \in 1 .. Len(h) : j < m => Later(h[j], h[m])
    <2> SUFFICES ASSUME NEW j \in 1 .. Len(h), NEW m \in 1 .. Len(h), j < m
                 PROVE  Later(h[j], h[m])
      OBVIOUS
    <2>1. j \in 1 .. Len(g) /\ h[j] = g[j]
      BY <1>6, <1>7
    <2> QED
      BY <1>5, <1>7, <2>1, <1>4 DEF Queued
  <1>9. \A j \in 1 .. Len(h) : h[j] <= n
    BY <1>4, <1>5, <1>7 DEF Queued
  <1>10. Past(h, c) /\ Past(h, i) /\ Past(h, l)
    BY <1>4, <1>5, <1>7 DEF Queued, Past
  <1> QED
    BY <1>4, <1>8, <1>9, <1>10 DEF Queued, f, h, c

\* All bytes of s are of frame f, and in their places.
Whole(s, f) == \A k \in 1 .. Len(s) : s[k].frame = f /\ s[k].pos = k

\* The port takes an echo (e) and the device puts a reply on the line (r): both
\* behind what is there, under numbers nothing has had.
LEMMA QueueSends ==
    ASSUME NEW g \in Seq(Nat), NEW b \in Seq(Byte), NEW i \in Seq(Byte), NEW l \in Seq(Byte),
           NEW e \in Seq(Byte), NEW r \in Seq(Byte),
           NEW n \in Nat, NEW f \in Nat, NEW m \in Nat, n < f, f < m, IsEcho(f),
           Whole(e, f) \/ \A k \in 1 .. Len(e) : e[k].frame = 0,
           Whole(r, m),
           Queued(g, b, i, l, n)
    PROVE  Queued(g, b, i \o e, l \o r, m)
  <1>1. \A s \in Seq(Byte) : UpTo(s, n) => UpTo(s, m)
    <2> SUFFICES ASSUME NEW s \in Seq(Byte), UpTo(s, n), NEW k \in 1 .. Len(s)
                 PROVE  s[k].frame <= m
      BY DEF UpTo
    <2>1. s[k].frame <= n /\ s[k].frame \in Nat
      BY ByteType DEF UpTo
    <2> QED
      BY <2>1
  <1>2. \A j \in 1 .. Len(g) : g[j] \in Nat /\ g[j] <= n
    <2> SUFFICES ASSUME NEW j \in 1 .. Len(g) PROVE g[j] \in Nat /\ g[j] <= n
      OBVIOUS
    <2>1. g[j] \in Nat
      BY ElementOfSeq
    <2> QED
      BY <2>1 DEF Queued
  <1>3. ASSUME NEW s \in Seq(Byte), UpTo(s, n), NEW j \in 1 .. Len(s)
        PROVE  s[j].frame \in Nat /\ s[j].frame <= n
    BY <1>3, ByteType DEF UpTo
  <1>e. /\ \A k \in 1 .. Len(e) : Starts(e[k]) => e[k].frame = f /\ k = 1
        /\ UpTo(e, m) /\ InLine(e)
    <2>1. \A k \in 1 .. Len(e) : (Starts(e[k]) => e[k].frame = f /\ k = 1) /\ e[k].frame <= m
      BY DEF Whole, Starts
    <2> QED
      BY <2>1 DEF UpTo, InLine
  <1>r. /\ \A k \in 1 .. Len(r) : Starts(r[k]) => r[k].frame = m /\ k = 1
        /\ UpTo(r, m) /\ InLine(r)
    <2>1. \A k \in 1 .. Len(r) : (Starts(r[k]) => r[k].frame = m /\ k = 1) /\ r[k].frame <= m
      BY DEF Whole, Starts
    <2> QED
      BY <2>1 DEF UpTo, InLine
  <1>4. \A a \in Nat : a <= n => Later(a, f) /\ Later(a, m) /\ Later(f, a)
    <2> SUFFICES ASSUME NEW a \in Nat, a <= n PROVE Later(a, f) /\ Later(a, m) /\ Later(f, a)
      OBVIOUS
    <2>1. a < f /\ a < m /\ a # f /\ a # m
      OBVIOUS
    <2> QED
      BY <2>1 DEF Later
  <1>5. Later(f, m)
    BY DEF Later
  <1>6. Past(g, e) /\ Past(g, r)
    BY <1>2, <1>4, <1>e, <1>r DEF Past
  <1>7. ASSUME NEW s \in Seq(Byte), UpTo(s, n)
        PROVE  Ahead(s, e) /\ Ahead(s, r) /\ Ahead(e, s)
    BY <1>3, <1>4, <1>7, <1>e, <1>r DEF Ahead
  <1>8. Ahead(e, r)
    BY <1>5, <1>e, <1>r DEF Ahead
  <1>9. UpTo(b, n) /\ UpTo(i, n) /\ UpTo(l, n)
    BY DEF Queued
  <1>10. /\ InLine(i \o e) /\ Past(g, i \o e) /\ UpTo(i \o e, m)
         /\ Ahead(b, i \o e) /\ Ahead(i \o e, l) /\ Ahead(i \o e, r)
    BY <1>1, <1>6, <1>7, <1>8, <1>9, <1>e, JoinedOrder DEF Queued
  <1>11. i \o e \in Seq(Byte)
    BY ConcatProperties
  <1> DEFINE ie == i \o e
  <1> HIDE DEF ie
  <1>12. /\ InLine(l \o r) /\ Past(g, l \o r) /\ UpTo(l \o r, m)
         /\ Ahead(b, l \o r) /\ Ahead(ie, l \o r)
    BY <1>1, <1>6, <1>7, <1>9, <1>10, <1>r, JoinedOrder DEF Queued, ie
  <1>13. \A j \in 1 .. Len(g) : g[j] <= m
    BY <1>2
  <1> QED
    BY <1>1, <1>9, <1>10, <1>12, <1>13 DEF Queued, ie

\* What write() puts before the reader (e), and the device on the line (r).
LEMMA WrittenIs ==
    ASSUME TypeOK, NEW frame \in Sends, NEW n \in 0 .. Len(frame), sends' \in Nat,
           Written(frame, SubSeq(Labelled(frame, EchoNo(sends')), 1, n))
    PROVE  \E e \in Seq(Byte), r \in Seq(Byte) :
              /\ inbox' = inbox \o e /\ Len(e) = (IF echo THEN n ELSE 0)
              /\ Whole(e, EchoNo(sends')) \/ \A k \in 1 .. Len(e) : e[k].frame = 0
              /\ line' = line \o r /\ Whole(r, ReplyNo(sends'))
              /\ replies' = replies \/ replies' = replies \cup {ReplyNo(sends')}
              /\ r # <<>> => ReplyNo(sends') \in replies'
  <1>0. /\ line \in Seq(Byte) /\ inbox \in Seq(Byte) /\ echo \in BOOLEAN
        /\ EchoNo(sends') \in Nat /\ ReplyNo(sends') \in Nat /\ frame \in Seq(Values)
        /\ Len(frame) \in Nat /\ n \in Nat
    BY Typed, FrameNumbers, StreamAssumption
  <1>n. <<>> \in Seq(Byte) /\ Len(<<>>) = 0 /\ (\A f : Whole(<<>>, f))
        /\ inbox \o <<>> = inbox /\ line \o <<>> = line
    BY <1>0, ConcatEmptySeq DEF Whole
  <1> DEFINE label == Labelled(frame, EchoNo(sends'))
             bytes == SubSeq(label, 1, n)
  <1>1. /\ label \in Seq(Byte) /\ Len(label) = Len(frame)
        /\ \A k \in 1 .. Len(frame) : label[k].frame = EchoNo(sends') /\ label[k].pos = k
    BY <1>0, LabelledIs
  <1> HIDE DEF label
  <1>2. bytes \in Seq(Byte) /\ Len(bytes) = n /\ \A k \in 1 .. n : bytes[k] = label[k]
    BY <1>0, <1>1, CutInTwo
  <1>3. Whole(bytes, EchoNo(sends'))
    <2> HIDE DEF bytes
    <2> QED
      BY <1>0, <1>1, <1>2 DEF Whole
  <1>4. Written(frame, bytes)
    BY DEF label
  <1> HIDE DEF bytes
  <1>5. \E e \in Seq(Byte) :
           /\ inbox' = inbox \o e /\ Len(e) = (IF echo THEN n ELSE 0)
           /\ Whole(e, EchoNo(sends')) \/ \A k \in 1 .. Len(e) : e[k].frame = 0
    <2>1. CASE echo
      <3>1. PICK e \in EchoesOf(bytes) : inbox' = inbox \o e
        BY <1>4, <2>1 DEF Written
      <3>2. e \in Seq(Byte) /\ Len(e) = n /\ (e = bytes \/ \A k \in 1 .. Len(e) : e[k].frame = 0)
        BY <1>2, EchoesAre
      <3> QED
        BY <1>3, <2>1, <3>1, <3>2
    <2>2. CASE ~echo
      <3> DEFINE none == <<>>
      <3>1. inbox' = inbox \o none
        BY <1>4, <1>n, <2>2 DEF Written
      <3>2. none \in Seq(Byte) /\ Len(none) = 0 /\ Whole(none, EchoNo(sends'))
        BY <1>n
      <3> HIDE DEF none
      <3> QED
        BY <2>2, <3>1, <3>2
    <2> QED
      BY <1>0, <2>1, <2>2
  <1>6. \E r \in Seq(Byte) :
           /\ line' = line \o r /\ Whole(r, ReplyNo(sends'))
           /\ replies' = replies \/ replies' = replies \cup {ReplyNo(sends')}
           /\ r # <<>> => ReplyNo(sends') \in replies'
    <2>1. CASE UNCHANGED <<line, replies>>
      BY <1>n, <2>1
    <2>2. CASE /\ \E answer \in Answers : line' = line \o Labelled(answer, ReplyNo(sends'))
               /\ replies' = replies \cup {ReplyNo(sends')}
      <3>1. PICK answer \in Answers : line' = line \o Labelled(answer, ReplyNo(sends'))
        BY <2>2
      <3> DEFINE r == Labelled(answer, ReplyNo(sends'))
      <3>2. r \in Seq(Byte) /\ Whole(r, ReplyNo(sends'))
        BY <1>0, LabelledIs, StreamAssumption DEF Whole
      <3> QED
        BY <2>2, <3>1, <3>2
    <2> QED
      BY <1>4, <2>1, <2>2 DEF Written
  <1> QED
    BY <1>5, <1>6

\* The frames returned, and those still to come, are in order, and no reply
\* passes for an echo.
OrderInv ==
    /\ Queued(got, buffer, inbox, line, ReplyNo(sends))
    /\ \A r \in replies : ~IsEcho(r)

\* A number of the line or of a reply is not an echo's.
LEMMA NotAnEcho ==
    /\ \A n \in Nat : n <= EchoNo(0) => ~IsEcho(n)
    /\ \A n \in Nat : ~IsEcho(ReplyNo(n))
    /\ ~IsEcho(0)
    /\ \A n \in 1 .. MaxSends : IsEcho(EchoNo(n))
  <1>0. MaxSends \in Nat
    BY StreamAssumption
  <1>1. \A n \in Nat : n <= EchoNo(0) => ~IsEcho(n)
    BY <1>0 DEF IsEcho, EchoNo
  <1>2. \A n \in Nat : ~IsEcho(ReplyNo(n))
    BY <1>0 DEF IsEcho, EchoNo, ReplyNo
  <1>3. ~IsEcho(0)
    BY <1>0 DEF IsEcho, EchoNo
  <1>4. \A n \in 1 .. MaxSends : IsEcho(EchoNo(n))
    BY DEF IsEcho
  <1> QED
    BY <1>1, <1>2, <1>3, <1>4

LEMMA OrderInit == Init => OrderInv
  <1> SUFFICES ASSUME Init PROVE OrderInv
    OBVIOUS
  <1>1. line \in Lines /\ line \in Seq(Byte)
    BY StreamAssumption DEF Init
  <1>2. \A k \in 1 .. Len(line) :
           line[k].frame \in Nat /\ line[k].frame <= EchoNo(0) /\ ~IsEcho(line[k].frame)
    <2>1. \A k \in 1 .. Len(line) : line[k].frame \in Nat
      BY <1>1, ByteType
    <2>2. \A k \in 1 .. Len(line) : line[k].frame <= EchoNo(0)
      BY <1>1, StreamAssumption
    <2> QED
      BY <2>1, <2>2, NotAnEcho
  <1>3. InLine(line)
    <2>1. \A j, k \in 1 .. Len(line) :
             j < k /\ Starts(line[j]) /\ Starts(line[k]) => line[j].frame < line[k].frame
      BY <1>1, StreamAssumption
    <2>2. ASSUME NEW j \in 1 .. Len(line), NEW k \in 1 .. Len(line), j < k,
                 Starts(line[j]), Starts(line[k])
          PROVE  Later(line[j].frame, line[k].frame)
      <3>1. line[j].frame < line[k].frame
        BY <2>1, <2>2
      <3> QED
        BY <1>2, <3>1 DEF Later
    <2> QED
      BY <2>2 DEF InLine
  <1>4. UpTo(line, ReplyNo(sends))
    <2>1. sends = 0
      BY DEF Init
    <2>2. \A a \in Nat : a <= EchoNo(0) => a <= ReplyNo(0)
      BY DEF EchoNo, ReplyNo
    <2> QED
      BY <1>2, <2>1, <2>2 DEF UpTo
  <1>5. Len(<<>>) = 0 /\ buffer = <<>> /\ inbox = <<>> /\ got = <<>>
    BY DEF Init
  <1>6. Queued(got, buffer, inbox, line, ReplyNo(sends))
    BY <1>3, <1>4, <1>5 DEF Queued, InLine, Ahead, Past, UpTo
  <1>7. \A r \in replies : ~IsEcho(r)
    BY <1>2 DEF Init
  <1> QED
    BY <1>6, <1>7 DEF OrderInv

\* A call of send() or a write cut short keeps the order.
LEMMA OrderOfWritten ==
    ASSUME TypeOK, OrderInv, NEW frame \in Sends, NEW n \in 0 .. Len(frame),
           sends < MaxSends, sends' = sends + 1, UNCHANGED <<buffer, got>>,
           Written(frame, SubSeq(Labelled(frame, EchoNo(sends')), 1, n))
    PROVE  OrderInv'
  <1>0. /\ line \in Seq(Byte) /\ inbox \in Seq(Byte) /\ buffer \in Seq(Byte) /\ got \in Seq(Nat)
        /\ sends \in Nat /\ MaxSends \in Nat
    BY Typed
  <1>1. sends' \in Nat /\ sends' \in 1 .. MaxSends
    BY <1>0
  <1>2. PICK e \in Seq(Byte), r \in Seq(Byte) :
           /\ inbox' = inbox \o e
           /\ Whole(e, EchoNo(sends')) \/ \A k \in 1 .. Len(e) : e[k].frame = 0
           /\ line' = line \o r /\ Whole(r, ReplyNo(sends'))
           /\ replies' = replies \/ replies' = replies \cup {ReplyNo(sends')}
    BY <1>1, WrittenIs
  <1>3. /\ ReplyNo(sends) \in Nat /\ EchoNo(sends') \in Nat /\ ReplyNo(sends') \in Nat
        /\ ReplyNo(sends) < EchoNo(sends') /\ EchoNo(sends') < ReplyNo(sends')
    BY <1>0, <1>1 DEF EchoNo, ReplyNo
  <1>4. IsEcho(EchoNo(sends')) /\ ~IsEcho(ReplyNo(sends'))
    BY <1>1, NotAnEcho
  <1>5. Queued(got, buffer, inbox \o e, line \o r, ReplyNo(sends'))
    BY <1>0, <1>2, <1>3, <1>4, QueueSends DEF OrderInv
  <1> QED
    BY <1>2, <1>4, <1>5 DEF OrderInv

LEMMA OrderStep == TypeOK /\ OrderInv /\ [Next]_vars => OrderInv'
  <1> SUFFICES ASSUME TypeOK, OrderInv, [Next]_vars PROVE OrderInv'
    OBVIOUS
  <1>0. /\ line \in Seq(Byte) /\ inbox \in Seq(Byte) /\ buffer \in Seq(Byte) /\ got \in Seq(Nat)
        /\ sends \in Nat
    BY Typed
  <1>q. Queued(got, buffer, inbox, line, ReplyNo(sends))
    BY DEF OrderInv
  <1>t. /\ Thinned(buffer, buffer) /\ Thinned(inbox, inbox) /\ Thinned(<<>>, buffer)
        /\ <<>> \in Seq(Byte)
    BY <1>0, AllThin
  <1>1. CASE Arrive
    <2>1. Queued(got, buffer, Append(inbox, Head(line)), Tail(line), ReplyNo(sends))
      BY <1>0, <1>1, <1>q, QueueArrives DEF Arrive
    <2> QED
      BY <1>1, <2>1 DEF Arrive, OrderInv, callVars
  <1>2. CASE UNCHANGED <<line, inbox, buffer, got, sends, replies>>
    BY <1>2 DEF OrderInv
  <1>3. ASSUME NEW n, Return(n), UNCHANGED <<line, inbox, callVars>>,
               \/ ReadRtuFrame(buffer).found /\ n = ReadRtuFrame(buffer).length
               \/ ChecksumHolds(buffer) /\ n = Len(buffer)
        PROVE  OrderInv'
    <2>1. Queued(Append(got, buffer[1].frame), From(buffer, n + 1), inbox, line, ReplyNo(sends))
      BY <1>0, <1>3, <1>q, QueueReturns
    <2> QED
      BY <1>3, <2>1 DEF Return, OrderInv, callVars
  <1>4. CASE TakeFrame \/ ScanFinds
    BY <1>3, <1>4 DEF TakeFrame, ScanFinds
  <1>5. CASE Discard \/ ScanDiscards \/ ScanFails
    <2>1. Thinned(buffer', buffer) /\ buffer' \in Seq(Byte)
      <3>1. CASE ScanFails
        BY <1>t, <3>1 DEF ScanFails
      <3>2. CASE Discard \/ ScanDiscards
        <4>1. buffer # <<>>
          <5>1. MinFrame \in Nat /\ MinFrame >= 3 /\ Len(<<>>) = 0
            BY FramingAssumption DEF MinFrame
          <5>2. ScanDiscards => Len(buffer) >= MinFrame
            BY DEF ScanDiscards
          <5>3. Discard => buffer # <<>>
            BY <1>0, HasBytes DEF Discard
          <5> QED
            BY <3>2, <5>1, <5>2, <5>3
        <4>2. Thinned(Tail(buffer), buffer) /\ Tail(buffer) \in Seq(Byte)
          BY <1>0, <4>1, AllThin, HeadTailProperties
        <4> QED
          BY <3>2, <4>2 DEF Discard, ScanDiscards
      <3> QED
        BY <1>5, <3>1, <3>2
    <2>2. Queued(got, buffer', inbox, line, ReplyNo(sends))
      BY <1>0, <1>q, <1>t, <2>1, QueueThins
    <2> QED
      BY <1>5, <2>2 DEF Discard, ScanDiscards, ScanFails, OrderInv, callVars
  <1>6. CASE ReadWanted \/ ReadToSilence
    <2>1. PICK n \in 1 .. Len(inbox) : buffer' = buffer \o SubSeq(inbox, 1, n)
                                       /\ inbox' = From(inbox, n + 1)
      BY <1>6 DEF ReadWanted, ReadToSilence, Readable, First, PortReads
    <2>2. n \in 0 .. Len(inbox)
      OBVIOUS
    <2>3. Queued(got, buffer \o SubSeq(inbox, 1, n), From(inbox, n + 1), line, ReplyNo(sends))
      BY <1>0, <1>q, <2>2, QueueReads
    <2> QED
      BY <1>6, <2>1, <2>3 DEF ReadWanted, ReadToSilence, OrderInv, callVars
  <1>7. CASE JudgeSilence
    BY <1>2, <1>3, <1>7 DEF JudgeSilence, callVars
  <1>8. ASSUME NEW frame \in Sends, Send(frame) PROVE OrderInv'
    <2>1. sends < MaxSends /\ sends' = sends + 1 /\ UNCHANGED <<buffer, got>>
      BY <1>8 DEF Send, Call
    <2>2. sends' \in Nat
      BY <1>0, <2>1
    <2>3. EchoNo(sends') \in Nat
      BY <2>2, FrameNumbers
    <2>4. Written(frame, SubSeq(Labelled(frame, EchoNo(sends')), 1, Len(frame)))
          /\ Len(frame) \in 0 .. Len(frame)
      BY <1>8, <2>3, WholeFrame DEF Send
    <2> QED
      BY <2>1, <2>4, OrderOfWritten
  <1>9. ASSUME NEW frame \in Sends, SendFails(frame) PROVE OrderInv'
    <2>1. sends < MaxSends /\ sends' = sends + 1 /\ UNCHANGED <<buffer, got>>
      BY <1>9 DEF SendFails, Call
    <2>2. PICK n \in 0 .. Len(frame) :
             Written(frame, SubSeq(Labelled(frame, EchoNo(sends')), 1, n))
      BY <1>9 DEF SendFails
    <2> QED
      BY <2>1, <2>2, OrderOfWritten
  <1>10. ASSUME NEW n \in 1 .. Len(inbox), PortReads(n),
                UNCHANGED <<line, buffer, got, sends, replies>>
         PROVE  OrderInv'
    <2>1. n \in 0 .. Len(inbox)
      OBVIOUS
    <2>2. Thinned(From(inbox, n + 1), inbox) /\ From(inbox, n + 1) \in Seq(Byte)
      BY <1>0, <2>1, PartsThin, CutInTwo
    <2>3. Queued(got, buffer, From(inbox, n + 1), line, ReplyNo(sends))
      BY <1>0, <1>q, <1>t, <2>2, QueueThins
    <2> QED
      BY <1>10, <2>3 DEF PortReads, OrderInv
  <1>11. CASE ReadEcho
    BY <1>10, <1>11 DEF ReadEcho, Readable
  <1>12. CASE Drain
    <2>1. CASE /\ \E n \in Readable(MaxFrame) : PortReads(n)
               /\ UNCHANGED <<buffer, pc, result, astray>>
      BY <1>10, <1>12, <2>1 DEF Drain, Readable
    <2>2. CASE buffer' = <<>> /\ UNCHANGED inbox
      <3>1. Queued(got, <<>>, inbox, line, ReplyNo(sends))
        BY <1>0, <1>q, <1>t, QueueThins
      <3> QED
        BY <1>12, <2>2, <3>1 DEF Drain, OrderInv
    <2> QED
      BY <1>12, <2>1, <2>2 DEF Drain
  <1> QED
    BY <1>1, <1>2, <1>4, <1>5, <1>6, <1>7, <1>8, <1>9, <1>11, <1>12
    DEF Next, Receiving, Sending, Receive, NoSizeStated, WantMore, ReadQuiet, JudgeEcho,
        ReadFails, vars, callVars

\* Frames are returned once each, and the other end's in the order it sent them.
THEOREM FramesInOrder == Spec => []InOrder
  <1>1. TypeOK /\ OrderInv => InOrder
    <2> SUFFICES ASSUME TypeOK, OrderInv,
                        NEW i \in 1 .. Len(got), NEW j \in 1 .. Len(got), i < j
                 PROVE  /\ got[i] # got[j]
                        /\ {got[i], got[j]} \subseteq replies => got[i] < got[j]
      BY DEF InOrder
    <2>1. Later(got[i], got[j])
      BY DEF OrderInv, Queued
    <2> QED
      BY <2>1 DEF OrderInv, Later
  <1> QED
    BY <1>1, OrderInit, OrderStep, RtuStreamTypes, PTL DEF Spec

-----------------------------------------------------------------------------
(* The echo.                                                               *)

\* No byte of s is of an echo; all that are, are among some w in a row.
NoEcho(s) == \A k \in 1 .. Len(s) : ~IsEcho(s[k].frame)

EchoWithin(s, w) ==
    \E p \in Nat : \A k \in 1 .. Len(s) : IsEcho(s[k].frame) => k \in p + 1 .. p + w

\* Unless it went astray, an echo is before send() only, which reads as many
\* bytes as it has: those it has read, and those it will find, hold one echo.
EchoInv ==
    /\ NoEcho(line)
    /\ ~astray => NoEcho(buffer)
    /\ ~astray /\ pc \notin {"echo", "drain"} => NoEcho(inbox)
    /\ pc = "echo" => sends >= 1
    /\ ~astray /\ pc = "echo" => EchoWithin(heard \o inbox, Len(message))

LEMMA EchoParts ==
    ASSUME NEW s \in Seq(Byte), NEW n \in 0 .. Len(s), NoEcho(s)
    PROVE  NoEcho(SubSeq(s, 1, n)) /\ NoEcho(From(s, n + 1))
  <1> DEFINE p == SubSeq(s, 1, n)
             q == From(s, n + 1)
  <1>0. Len(s) \in Nat /\ n \in Nat
    OBVIOUS
  <1>1. /\ Len(p) = n /\ \A k \in 1 .. n : p[k] = s[k]
        /\ Len(q) = Len(s) - n /\ \A k \in 1 .. Len(s) - n : q[k] = s[n + k]
    BY CutInTwo
  <1> HIDE DEF p, q
  <1>2. NoEcho(p)
    <2>1. \A k \in 1 .. Len(p) : k \in 1 .. Len(s) /\ p[k] = s[k]
      BY <1>0, <1>1
    <2> QED
      BY <2>1 DEF NoEcho
  <1>3. NoEcho(q)
    <2>1. \A k \in 1 .. Len(q) : n + k \in 1 .. Len(s) /\ q[k] = s[n + k]
      BY <1>0, <1>1
    <2> QED
      BY <2>1 DEF NoEcho
  <1> QED
    BY <1>2, <1>3 DEF p, q

LEMMA EchoJoined ==
    ASSUME NEW s \in Seq(Byte), NEW t \in Seq(Byte), NoEcho(t)
    PROVE  /\ NoEcho(s) => NoEcho(s \o t)
           /\ \A w : EchoWithin(s, w) => EchoWithin(s \o t, w)
  <1> DEFINE st == s \o t
  <1>1. /\ Len(st) = Len(s) + Len(t) /\ Len(s) \in Nat /\ Len(t) \in Nat
        /\ \A k \in 1 .. Len(s) + Len(t) : st[k] = IF k <= Len(s) THEN s[k] ELSE t[k - Len(s)]
    BY ConcatProperties
  <1> HIDE DEF st
  <1>2. \A k \in 1 .. Len(st) :
           \/ k \in 1 .. Len(s) /\ st[k] = s[k]
           \/ k - Len(s) \in 1 .. Len(t) /\ st[k] = t[k - Len(s)]
    BY <1>1
  <1>3. \A k \in 1 .. Len(st) : IsEcho(st[k].frame) => k \in 1 .. Len(s) /\ st[k] = s[k]
    BY <1>2 DEF NoEcho
  <1>4. NoEcho(s) => NoEcho(st)
    BY <1>3 DEF NoEcho
  <1>5. \A w : EchoWithin(s, w) => EchoWithin(st, w)
    BY <1>3 DEF EchoWithin
  <1> QED
    BY <1>4, <1>5 DEF st

\* Bytes without an echo, and then no more than w others.
LEMMA EchoBehind ==
    ASSUME NEW s \in Seq(Byte), NEW t \in Seq(Byte), NoEcho(s)
    PROVE  EchoWithin(s \o t, Len(t))
  <1> DEFINE st == s \o t
  <1>1. /\ Len(st) = Len(s) + Len(t) /\ Len(s) \in Nat /\ Len(t) \in Nat
        /\ \A k \in 1 .. Len(s) + Len(t) : st[k] = IF k <= Len(s) THEN s[k] ELSE t[k - Len(s)]
    BY ConcatProperties
  <1> HIDE DEF st
  <1>2. \A k \in 1 .. Len(st) :
           \/ k \in 1 .. Len(s) /\ st[k] = s[k]
           \/ k \in Len(s) + 1 .. Len(s) + Len(t)
    BY <1>1
  <1>3. \A k \in 1 .. Len(st) : IsEcho(st[k].frame) => k \in Len(s) + 1 .. Len(s) + Len(t)
    BY <1>2 DEF NoEcho
  <1> QED
    BY <1>1, <1>3 DEF EchoWithin, st

\* What is left of an echo that fills the bytes read: nothing.
LEMMA EchoIsRead ==
    ASSUME NEW h \in Seq(Byte), NEW i \in Seq(Byte), EchoWithin(h \o i, Len(h)),
           \A k \in 1 .. Len(h) : IsEcho(h[k].frame)
    PROVE  NoEcho(i)
  <1> DEFINE hi == h \o i
  <1>1. /\ Len(hi) = Len(h) + Len(i) /\ Len(h) \in Nat /\ Len(i) \in Nat
        /\ \A k \in 1 .. Len(h) + Len(i) : hi[k] = IF k <= Len(h) THEN h[k] ELSE i[k - Len(h)]
    BY ConcatProperties
  <1> HIDE DEF hi
  <1>2. PICK p \in Nat :
           \A k \in 1 .. Len(hi) : IsEcho(hi[k].frame) => k \in p + 1 .. p + Len(h)
    BY DEF EchoWithin, hi
  <1> SUFFICES ASSUME NEW k \in 1 .. Len(i), IsEcho(i[k].frame) PROVE FALSE
    BY DEF NoEcho
  <1>3. Len(h) + k \in 1 .. Len(hi) /\ hi[Len(h) + k] = i[k]
    <2>1. Len(h) + k \in 1 .. Len(h) + Len(i) /\ ~(Len(h) + k <= Len(h))
          /\ Len(h) + k - Len(h) = k
      BY <1>1
    <2> QED
      BY <1>1, <2>1
  <1>4. Len(h) + k \in p + 1 .. p + Len(h)
    BY <1>2, <1>3
  <1>5. CASE Len(h) = 0
    BY <1>4, <1>5
  <1>6. CASE Len(h) >= 1
    <2>1. 1 \in 1 .. Len(h) /\ 1 \in 1 .. Len(hi) /\ hi[1] = h[1]
      BY <1>1, <1>6
    <2>2. IsEcho(hi[1].frame)
      BY <2>1
    <2>3. 1 \in p + 1 .. p + Len(h)
      BY <1>2, <2>1, <2>2
    <2> QED
      BY <1>1, <1>4, <2>3
  <1> QED
    BY <1>1, <1>5, <1>6

LEMMA Grouping ==
    ASSUME NEW a \in Seq(Byte), NEW b \in Seq(Byte), NEW c \in Seq(Byte)
    PROVE  (a \o b) \o c = a \o (b \o c) /\ a \o b \in Seq(Byte)
  <1>1. (a \o b) \o c = a \o (b \o c)
    BY ConcatAssociative
  <1> QED
    BY <1>1, ConcatProperties

\* Reading on in the echo leaves the bytes read and those in the port together.
LEMMA ReadOn ==
    ASSUME NEW h \in Seq(Byte), NEW s \in Seq(Byte), NEW n \in 0 .. Len(s)
    PROVE  (h \o SubSeq(s, 1, n)) \o From(s, n + 1) = h \o s
  <1> DEFINE p == SubSeq(s, 1, n)
             q == From(s, n + 1)
  <1>1. p \in Seq(Byte) /\ q \in Seq(Byte)
    BY CutInTwo
  <1>2. p \o q = s
    BY CutInTwo
  <1> HIDE DEF p, q
  <1>3. (h \o p) \o q = h \o (p \o q)
    BY <1>1, Grouping
  <1> QED
    BY <1>2, <1>3 DEF p, q

LEMMA EchoInit == Init => EchoInv
  <1> SUFFICES ASSUME Init PROVE EchoInv
    OBVIOUS
  <1>1. line \in Lines /\ line \in Seq(Byte)
    BY StreamAssumption DEF Init
  <1>2. \A k \in 1 .. Len(line) : line[k].frame \in Nat /\ line[k].frame <= EchoNo(0)
    <2>1. \A k \in 1 .. Len(line) : line[k].frame \in Nat
      BY <1>1, ByteType
    <2>2. \A k \in 1 .. Len(line) : line[k].frame <= EchoNo(0)
      BY <1>1, StreamAssumption
    <2> QED
      BY <2>1, <2>2
  <1>3. NoEcho(line)
    BY <1>2, NotAnEcho DEF NoEcho
  <1>4. NoEcho(<<>>)
    BY DEF NoEcho
  <1>5. buffer = <<>> /\ inbox = <<>> /\ pc = "idle"
    BY DEF Init
  <1> QED
    BY <1>3, <1>4, <1>5 DEF EchoInv

\* A write between two calls, whole or cut short.
LEMMA EchoOfWritten ==
    ASSUME TypeOK, EchoInv, NEW frame \in Sends, NEW n \in 0 .. Len(frame),
           pc = "idle", sends < MaxSends, sends' = sends + 1, UNCHANGED buffer,
           Written(frame, SubSeq(Labelled(frame, EchoNo(sends')), 1, n))
    PROVE  /\ sends' >= 1 /\ NoEcho(line')
           /\ ~astray => NoEcho(buffer')
           /\ ~astray /\ (~echo \/ n = 0) => NoEcho(inbox')
           /\ ~astray /\ echo => EchoWithin(inbox', n)
  <1>0. /\ line \in Seq(Byte) /\ inbox \in Seq(Byte) /\ sends \in Nat /\ MaxSends \in Nat
        /\ echo \in BOOLEAN /\ inbox \o <<>> = inbox
    BY Typed, ConcatEmptySeq
  <1>1. sends' \in Nat /\ sends' >= 1
    BY <1>0
  <1>2. PICK e \in Seq(Byte), r \in Seq(Byte) :
           /\ inbox' = inbox \o e /\ Len(e) = (IF echo THEN n ELSE 0)
           /\ line' = line \o r /\ Whole(r, ReplyNo(sends'))
    BY <1>1, WrittenIs
  <1>3. NoEcho(r)
    BY <1>1, <1>2, NotAnEcho DEF NoEcho, Whole
  <1>4. NoEcho(line')
    <2>1. NoEcho(line)
      BY DEF EchoInv
    <2> QED
      BY <1>0, <1>2, <1>3, <2>1, EchoJoined
  <1>5. ~astray => NoEcho(inbox) /\ NoEcho(buffer)
    BY DEF EchoInv
  <1>6. ASSUME ~astray, ~echo \/ n = 0 PROVE NoEcho(inbox')
    <2>1. Len(e) = 0
      BY <1>2, <1>6
    <2>2. NoEcho(e)
      BY <2>1 DEF NoEcho
    <2> QED
      BY <1>0, <1>2, <1>5, <1>6, <2>2, EchoJoined
  <1>7. ASSUME ~astray, echo PROVE EchoWithin(inbox', n)
    <2>1. EchoWithin(inbox \o e, Len(e))
      BY <1>0, <1>2, <1>5, <1>7, EchoBehind
    <2> QED
      BY <1>2, <1>7, <2>1
  <1> QED
    BY <1>1, <1>4, <1>5, <1>6, <1>7

LEMMA EchoStep == TypeOK /\ EchoInv /\ [Next]_vars => EchoInv'
  <1> SUFFICES ASSUME TypeOK, EchoInv, [Next]_vars PROVE EchoInv'
    OBVIOUS
  <1>0. /\ line \in Seq(Byte) /\ inbox \in Seq(Byte) /\ buffer \in Seq(Byte)
        /\ heard \in Seq(Byte) /\ message \in Seq(Values)
        /\ Len(heard) \in Nat /\ Len(message) \in Nat
        /\ sends \in Nat /\ astray \in BOOLEAN /\ echo \in BOOLEAN
    BY Typed
  <1>e. NoEcho(<<>>) /\ <<>> \in Seq(Byte)
    BY DEF NoEcho
  <1>l. NoEcho(line)
    BY DEF EchoInv
  <1>1. CASE Arrive
    <2>0. line # <<>> /\ inbox' = Append(inbox, Head(line)) /\ line' = Tail(line)
          /\ UNCHANGED <<buffer, pc, message, heard, sends, astray>>
      BY <1>1 DEF Arrive, callVars
    <2>1. Len(line) \in Nat \ {0} /\ 1 \in 0 .. Len(line)
      BY <1>0, <2>0, EmptySeq
    <2> DEFINE p == SubSeq(line, 1, 1)
    <2>2. p \in Seq(Byte) /\ Len(p) = 1 /\ p[1] = line[1]
      BY <1>0, <2>1, CutInTwo
    <2>3. Tail(line) = From(line, 1 + 1)
      BY <1>0, <2>0, TailIsSubSeq DEF From
    <2>4. NoEcho(p) /\ NoEcho(line')
      BY <1>0, <1>l, <2>0, <2>1, <2>3, EchoParts
    <2>5. Append(inbox, Head(line)) = inbox \o p
      <3>1. Head(line) = line[1] /\ Head(line) \in Byte
        BY <1>0, <2>0, HeadTailProperties
      <3>2. p = <<line[1]>>
        <4> HIDE DEF p
        <4> QED
          BY <2>2
      <3> QED
        BY <1>0, <3>1, <3>2, AppendIsConcat
    <2> HIDE DEF p
    <2>6. NoEcho(inbox) => NoEcho(inbox')
      BY <1>0, <2>0, <2>2, <2>4, <2>5, EchoJoined
    <2>7. ASSUME EchoWithin(heard \o inbox, Len(message))
          PROVE  EchoWithin(heard' \o inbox', Len(message'))
      <3>1. (heard \o inbox) \o p = heard \o (inbox \o p) /\ heard \o inbox \in Seq(Byte)
        BY <1>0, <2>2, Grouping
      <3>2. EchoWithin((heard \o inbox) \o p, Len(message))
        BY <2>2, <2>4, <2>7, <3>1, EchoJoined
      <3> QED
        BY <2>0, <2>5, <3>1, <3>2
    <2> QED
      BY <2>0, <2>4, <2>6, <2>7 DEF EchoInv
  <1>2. CASE /\ UNCHANGED <<line, inbox, sends, astray>>
             /\ buffer' = buffer \/ (~astray => NoEcho(buffer'))
             /\ pc \notin {"echo", "drain"} /\ pc' \notin {"echo", "drain"}
    BY <1>2 DEF EchoInv
  <1>3. ASSUME NEW n, Return(n), UNCHANGED <<line, inbox, callVars>>, astray' = astray,
               \/ ReadRtuFrame(buffer).found /\ n = ReadRtuFrame(buffer).length
               \/ ChecksumHolds(buffer) /\ n = Len(buffer),
               pc \notin {"echo", "drain"}
        PROVE  EchoInv'
    <2>1. n \in 0 .. Len(buffer)
      BY <1>0, <1>3, ReturnedFrame
    <2>2. ~astray => NoEcho(buffer')
      BY <1>0, <1>3, <2>1, EchoParts DEF EchoInv, Return
    <2> QED
      BY <1>2, <1>3, <2>2 DEF Return, callVars
  <1>4. CASE TakeFrame \/ ScanFinds
    BY <1>3, <1>4 DEF TakeFrame, ScanFinds, callVars
  <1>5. CASE Discard \/ ScanDiscards \/ ScanFails
    <2>1. ~astray => NoEcho(buffer')
      <3>1. CASE ScanFails
        BY <1>e, <3>1 DEF ScanFails
      <3>2. CASE Discard \/ ScanDiscards
        <4>1. buffer # <<>>
          <5>1. MinFrame \in Nat /\ MinFrame >= 3 /\ Len(<<>>) = 0
            BY FramingAssumption DEF MinFrame
          <5>2. ScanDiscards => Len(buffer) >= MinFrame
            BY DEF ScanDiscards
          <5>3. Discard => buffer # <<>>
            BY <1>0, HasBytes DEF Discard
          <5> QED
            BY <3>2, <5>1, <5>2, <5>3
        <4>2. Tail(buffer) = From(buffer, 1 + 1) /\ 1 \in 0 .. Len(buffer)
          BY <1>0, <4>1, EmptySeq, TailIsSubSeq DEF From
        <4>3. NoEcho(buffer) => NoEcho(Tail(buffer))
          BY <1>0, <4>2, EchoParts
        <4> QED
          BY <3>2, <4>3 DEF Discard, ScanDiscards, EchoInv
      <3> QED
        BY <1>5, <3>1, <3>2
    <2> QED
      BY <1>2, <1>5, <2>1 DEF Discard, ScanDiscards, ScanFails, callVars
  <1>6. CASE ReadWanted \/ ReadToSilence
    <2>1. PICK n \in 1 .. Len(inbox) : buffer' = buffer \o SubSeq(inbox, 1, n)
                                       /\ inbox' = From(inbox, n + 1)
      BY <1>6 DEF ReadWanted, ReadToSilence, Readable, First, PortReads
    <2>2. n \in 0 .. Len(inbox) /\ SubSeq(inbox, 1, n) \in Seq(Byte)
      BY <1>0, PortMoves
    <2>3. /\ UNCHANGED <<line, sends, astray>>
          /\ pc \notin {"echo", "drain"} /\ pc' \notin {"echo", "drain"}
      BY <1>6 DEF ReadWanted, ReadToSilence, callVars
    <2>4. ~astray => NoEcho(buffer) /\ NoEcho(inbox)
      BY <2>3 DEF EchoInv
    <2>5. ~astray => NoEcho(buffer') /\ NoEcho(inbox')
      BY <1>0, <2>1, <2>2, <2>4, EchoParts, EchoJoined
    <2> QED
      BY <2>3, <2>5, <1>l DEF EchoInv
  <1>7. CASE JudgeSilence
    <2>1. CASE ChecksumHolds(buffer)
      BY <1>3, <1>7, <2>1 DEF JudgeSilence, callVars
    <2>2. CASE ~ChecksumHolds(buffer)
      BY <1>2, <1>7, <2>2 DEF JudgeSilence, callVars
    <2> QED
      BY <2>1, <2>2
  <1>8. ASSUME NEW frame \in Sends, Send(frame) PROVE EchoInv'
    <2>1. /\ pc = "idle" /\ sends < MaxSends /\ sends' = sends + 1
          /\ message' = frame /\ heard' = <<>>
          /\ UNCHANGED <<buffer, astray>>
          /\ IF echo THEN pc' = "echo" ELSE pc' = "idle"
      BY <1>8 DEF Send, Call
    <2>2. sends' \in Nat
      BY <1>0, <2>1
    <2>3. EchoNo(sends') \in Nat
      BY <2>2, FrameNumbers
    <2>4. Written(frame, SubSeq(Labelled(frame, EchoNo(sends')), 1, Len(frame)))
          /\ Len(frame) \in 0 .. Len(frame)
      BY <1>8, <2>3, WholeFrame DEF Send
    <2>5. /\ sends' >= 1 /\ NoEcho(line')
          /\ ~astray => NoEcho(buffer')
          /\ ~astray /\ ~echo => NoEcho(inbox')
          /\ ~astray /\ echo => EchoWithin(inbox', Len(frame))
      BY <2>1, <2>4, EchoOfWritten
    <2>6. heard' \o inbox' = inbox'
      <3>1. inbox' \in Seq(Byte)
        BY <2>2, <2>4, WrittenTypes
      <3> QED
        BY <2>1, <3>1, ConcatEmptySeq
    <2> QED
      BY <2>1, <2>5, <2>6 DEF EchoInv
  <1>9. ASSUME NEW frame \in Sends, SendFails(frame) PROVE EchoInv'
    <2>1. pc = "idle" /\ sends < MaxSends /\ sends' = sends + 1 /\ UNCHANGED <<buffer, pc>>
      BY <1>9 DEF SendFails, Call
    <2>2. PICK n \in 0 .. Len(frame) :
             /\ Written(frame, SubSeq(Labelled(frame, EchoNo(sends')), 1, n))
             /\ astray' = (astray \/ (echo /\ n > 0))
      BY <1>9 DEF SendFails
    <2>3. /\ NoEcho(line')
          /\ ~astray => NoEcho(buffer')
          /\ ~astray /\ (~echo \/ n = 0) => NoEcho(inbox')
      BY <2>1, <2>2, EchoOfWritten
    <2>4. ~astray' => ~astray /\ (~echo \/ n = 0)
      <3>1. n = 0 \/ n > 0
        <4>1. Len(frame) \in Nat
          BY StreamAssumption
        <4> QED
          BY <4>1
      <3> QED
        BY <2>2, <3>1
    <2> QED
      BY <2>1, <2>3, <2>4 DEF EchoInv
  <1>10. CASE ReadEcho
    <2>1. PICK n \in 1 .. Len(inbox) : heard' = heard \o SubSeq(inbox, 1, n)
                                       /\ inbox' = From(inbox, n + 1)
      BY <1>10 DEF ReadEcho, Readable, First, PortReads
    <2>2. n \in 0 .. Len(inbox)
      OBVIOUS
    <2>3. heard' \o inbox' = heard \o inbox
      BY <1>0, <2>1, <2>2, ReadOn
    <2> QED
      BY <1>10, <2>3 DEF ReadEcho, EchoInv
  <1>11. CASE JudgeEcho
    <2>1. CASE ValuesOf(heard) = message
      <3>1. /\ pc = "echo" /\ pc' = "idle" /\ UNCHANGED <<line, inbox, buffer, sends>>
            /\ astray' = (astray \/ \E k \in 1 .. Len(heard) : heard[k].frame # EchoNo(sends))
        BY <1>11, <2>1 DEF JudgeEcho
      <3>2. Len(heard) = Len(message)
        <4>1. Len(ValuesOf(heard)) = Len(heard)
          BY <1>0, LenProperties DEF ValuesOf
        <4> QED
          BY <2>1, <4>1
      <3>3. sends \in 1 .. MaxSends
        <4>1. sends >= 1 /\ sends <= MaxSends /\ MaxSends \in Nat
          BY <3>1, Typed DEF EchoInv
        <4> QED
          BY <1>0, <4>1
      <3>4. ASSUME ~astray' PROVE NoEcho(inbox)
        <4>1. ~astray /\ \A k \in 1 .. Len(heard) : heard[k].frame = EchoNo(sends)
          BY <3>1, <3>4
        <4>2. \A k \in 1 .. Len(heard) : IsEcho(heard[k].frame)
          BY <3>3, <4>1, NotAnEcho
        <4>3. EchoWithin(heard \o inbox, Len(heard))
          BY <3>1, <3>2, <4>1 DEF EchoInv
        <4> QED
          BY <1>0, <4>2, <4>3, EchoIsRead
      <3> QED
        BY <3>1, <3>4 DEF EchoInv
    <2>2. CASE ValuesOf(heard) # message
      BY <1>11, <2>2 DEF JudgeEcho, EchoInv
    <2> QED
      BY <2>1, <2>2
  <1>12. CASE Drain
    <2>0. pc = "drain" /\ UNCHANGED <<line, sends>>
      BY <1>12 DEF Drain
    <2>1. CASE UNCHANGED <<buffer, pc, result, astray>>
      BY <2>0, <2>1 DEF EchoInv
    <2>2. CASE Quiet /\ buffer' = <<>> /\ pc' = "idle" /\ UNCHANGED inbox
      BY <1>e, <2>0, <2>2 DEF Quiet, EchoInv
    <2> QED
      BY <1>12, <2>1, <2>2 DEF Drain
  <1>13. CASE ReadFails
    <2>1. /\ pc' = "idle" /\ UNCHANGED <<line, inbox, buffer, sends>>
          /\ astray' = (astray \/ pc \in {"echo", "drain"})
      BY <1>13 DEF ReadFails
    <2> QED
      BY <2>1 DEF EchoInv
  <1>14. CASE Receive \/ NoSizeStated \/ WantMore \/ ReadQuiet
    BY <1>2, <1>14 DEF Receive, NoSizeStated, WantMore, ReadQuiet, callVars
  <1>15. CASE UNCHANGED vars
    BY <1>15 DEF vars, EchoInv
  <1> QED
    BY <1>1, <1>4, <1>5, <1>6, <1>7, <1>8, <1>9, <1>10, <1>11, <1>12, <1>13, <1>14, <1>15
    DEF Next, Receiving, Sending

\* With the echo read back no byte of it is ever held as a reply's; the port's
\* failures, and replies that pass for the echo, are what it takes.
THEOREM EchoesStayOut == Spec => []EchoStaysOut
  <1>1. TypeOK /\ EchoInv => EchoStaysOut
    <2> SUFFICES ASSUME TypeOK, EchoInv, ~astray,
                        NEW k \in 1 .. Len(buffer), NEW n \in 1 .. sends,
                        buffer[k].frame = EchoNo(n)
                 PROVE  FALSE
      BY DEF EchoStaysOut
    <2>1. n \in 1 .. MaxSends
      BY Typed
    <2>2. ~IsEcho(buffer[k].frame)
      BY DEF EchoInv, NoEcho
    <2> QED
      BY <2>1, <2>2 DEF IsEcho
  <1> QED
    BY <1>1, EchoInit, EchoStep, RtuStreamTypes, PTL DEF Spec

-----------------------------------------------------------------------------
(* The reply.                                                              *)

\* The frames among s are echoes and frames the other end sent (those of rs).
Known(s, rs) ==
    \A k \in 1 .. Len(s) : s[k].frame # 0 /\ ~IsEcho(s[k].frame) => s[k].frame \in rs

\* Bytes are of echoes and replies.  A caller who waits for each reply has them
\* all but the last one, and that one when receive() has returned one since.
CurrentInv ==
    /\ Known(buffer, replies) /\ Known(inbox, replies) /\ Known(line, replies)
    /\ settled /\ sends > 0 => replies \subseteq Returned \cup {ReplyNo(sends)}
    /\ pc \notin {"echo", "drain"} /\ result = "frame" /\ sends > 0 /\ settled /\ ~astray
          => got[Len(got)] = ReplyNo(sends)

LEMMA KnownParts ==
    ASSUME NEW s \in Seq(Byte), NEW n \in 0 .. Len(s), NEW rs, Known(s, rs)
    PROVE  Known(SubSeq(s, 1, n), rs) /\ Known(From(s, n + 1), rs)
  <1> DEFINE p == SubSeq(s, 1, n)
             q == From(s, n + 1)
  <1>0. Len(s) \in Nat /\ n \in Nat
    OBVIOUS
  <1>1. /\ Len(p) = n /\ \A k \in 1 .. n : p[k] = s[k]
        /\ Len(q) = Len(s) - n /\ \A k \in 1 .. Len(s) - n : q[k] = s[n + k]
    BY CutInTwo
  <1> HIDE DEF p, q
  <1>2. Known(p, rs)
    <2>1. \A k \in 1 .. Len(p) : k \in 1 .. Len(s) /\ p[k] = s[k]
      BY <1>0, <1>1
    <2> QED
      BY <2>1 DEF Known
  <1>3. Known(q, rs)
    <2>1. \A k \in 1 .. Len(q) : n + k \in 1 .. Len(s) /\ q[k] = s[n + k]
      BY <1>0, <1>1
    <2> QED
      BY <2>1 DEF Known
  <1> QED
    BY <1>2, <1>3 DEF p, q

LEMMA KnownJoined ==
    ASSUME NEW s \in Seq(Byte), NEW t \in Seq(Byte), NEW rs, Known(s, rs), Known(t, rs)
    PROVE  Known(s \o t, rs)
  <1> DEFINE st == s \o t
  <1>1. /\ Len(st) = Len(s) + Len(t) /\ Len(s) \in Nat /\ Len(t) \in Nat
        /\ \A k \in 1 .. Len(s) + Len(t) : st[k] = IF k <= Len(s) THEN s[k] ELSE t[k - Len(s)]
    BY ConcatProperties
  <1> HIDE DEF st
  <1>2. \A k \in 1 .. Len(st) :
           \/ k \in 1 .. Len(s) /\ st[k] = s[k]
           \/ k - Len(s) \in 1 .. Len(t) /\ st[k] = t[k - Len(s)]
    BY <1>1
  <1> QED
    BY <1>2 DEF Known, st

LEMMA CurrentInit == Init => CurrentInv
  <1> SUFFICES ASSUME Init PROVE CurrentInv
    OBVIOUS
  <1>1. Known(line, replies)
    BY DEF Init, Known
  <1>2. Len(<<>>) = 0 /\ buffer = <<>> /\ inbox = <<>> /\ sends = 0 /\ result = "none"
    BY DEF Init
  <1> QED
    BY <1>1, <1>2 DEF CurrentInv, Known

\* A call of send() is made with every reply returned, or nothing is said of it.
LEMMA CurrentOfWritten ==
    ASSUME TypeOK, CurrentInv, NEW frame \in Sends, NEW n \in 0 .. Len(frame),
           sends < MaxSends, sends' = sends + 1,
           settled' = (settled /\ replies \subseteq Returned),
           UNCHANGED <<buffer, got>>, pc' \in {"echo", "drain"} \/ result' # "frame",
           Written(frame, SubSeq(Labelled(frame, EchoNo(sends')), 1, n))
    PROVE  CurrentInv'
  <1>0. /\ line \in Seq(Byte) /\ inbox \in Seq(Byte) /\ sends \in Nat
    BY Typed
  <1>1. sends' \in Nat /\ sends' > 0
    BY <1>0
  <1>2. PICK e \in Seq(Byte), r \in Seq(Byte) :
           /\ inbox' = inbox \o e
           /\ Whole(e, EchoNo(sends')) \/ \A k \in 1 .. Len(e) : e[k].frame = 0
           /\ line' = line \o r /\ Whole(r, ReplyNo(sends'))
           /\ replies' = replies \/ replies' = replies \cup {ReplyNo(sends')}
           /\ r # <<>> => ReplyNo(sends') \in replies'
    BY <1>1, WrittenIs
  <1>3. \A s : Known(s, replies) => Known(s, replies')
    BY <1>2 DEF Known
  <1>4. Known(e, replies')
    <2>1. sends' \in 1 .. MaxSends
      BY <1>0, <1>1, Typed
    <2>2. IsEcho(EchoNo(sends'))
      BY <2>1, NotAnEcho
    <2> QED
      BY <1>2, <2>2 DEF Known, Whole
  <1>5. Known(r, replies')
    <2>1. \A k \in 1 .. Len(r) : r # <<>>
      BY EmptySeq
    <2> QED
      BY <1>2, <2>1 DEF Known, Whole
  <1>6. Known(inbox', replies') /\ Known(line', replies') /\ Known(buffer', replies')
    BY <1>0, <1>2, <1>3, <1>4, <1>5, KnownJoined DEF CurrentInv
  <1>7. settled' => replies' \subseteq Returned' \cup {ReplyNo(sends')}
    <2>1. Returned' = Returned
      BY DEF Returned
    <2> QED
      BY <1>2, <2>1
  <1> QED
    BY <1>6, <1>7 DEF CurrentInv

\* The frame returned is a reply not returned before.
LEMMA CurrentOfReturn ==
    ASSUME TypeOK, OrderInv, EchoInv, CurrentInv, NEW n, Return(n),
           UNCHANGED <<line, inbox, callVars>>,
           \/ ReadRtuFrame(buffer).found /\ n = ReadRtuFrame(buffer).length
           \/ ChecksumHolds(buffer) /\ n = Len(buffer)
    PROVE  CurrentInv'
  <1>0. buffer \in Seq(Byte) /\ got \in Seq(Nat) /\ Len(got) \in Nat
    BY Typed
  <1> DEFINE f == buffer[1].frame
  <1>1. /\ n \in 0 .. Len(buffer) /\ f # 0 /\ f \in Nat /\ Starts(buffer[1])
        /\ 1 \in 1 .. Len(buffer)
    BY <1>0, ReturnedFrame DEF Starts
  <1>2. \A k \in 1 .. Len(got) : got[k] # f
    BY <1>1 DEF OrderInv, Queued, Past, Later
  <1>3. ~astray => f \in replies
    BY <1>1 DEF EchoInv, NoEcho, CurrentInv, Known
  <1>4. ~astray /\ settled /\ sends > 0 => f = ReplyNo(sends)
    BY <1>2, <1>3 DEF CurrentInv, Returned
  <1>5. got' = Append(got, f) /\ buffer' = From(buffer, n + 1)
    BY DEF Return
  <1>6. Known(buffer', replies')
    BY <1>0, <1>1, <1>5, KnownParts DEF CurrentInv, callVars
  <1> HIDE DEF f
  <1>7. /\ Len(got') = Len(got) + 1 /\ got'[Len(got) + 1] = f
        /\ \A k \in 1 .. Len(got) : got'[k] = got[k]
    BY <1>0, <1>1, <1>5, AppendProperties
  <1>8. Returned \subseteq Returned'
    <2>1. \A k \in 1 .. Len(got) : k \in 1 .. Len(got') /\ got'[k] = got[k]
      BY <1>0, <1>7
    <2> QED
      BY <2>1 DEF Returned
  <1>9. got'[Len(got')] = f
    BY <1>7
  <1> QED
    BY <1>4, <1>6, <1>8, <1>9 DEF CurrentInv, callVars

LEMMA CurrentStep ==
    TypeOK /\ OrderInv /\ EchoInv /\ CurrentInv /\ [Next]_vars => CurrentInv'
  <1> SUFFICES ASSUME TypeOK, OrderInv, EchoInv, CurrentInv, [Next]_vars PROVE CurrentInv'
    OBVIOUS
  <1>0. /\ line \in Seq(Byte) /\ inbox \in Seq(Byte) /\ buffer \in Seq(Byte)
    BY Typed
  <1>e. Known(<<>>, replies)
    BY DEF Known
  <1>k. Known(buffer, replies) /\ Known(inbox, replies) /\ Known(line, replies)
    BY DEF CurrentInv
  \* The reply a caller has is the one it had; bytes move, or go.
  <1>1. ASSUME Known(buffer', replies) /\ Known(inbox', replies) /\ Known(line', replies),
               UNCHANGED <<sends, replies, settled, got>>,
               \/ UNCHANGED <<pc, result, astray>>
               \/ result' # "frame"
               \/ /\ UNCHANGED <<result, astray>>
                  /\ pc \notin {"echo", "drain"} \/ pc' \in {"echo", "drain"}
        PROVE  CurrentInv'
    BY <1>1 DEF CurrentInv, Returned
  <1>2. CASE Arrive
    <2>0. line # <<>> /\ inbox' = Append(inbox, Head(line)) /\ line' = Tail(line)
          /\ UNCHANGED <<buffer, pc, result, astray, sends, replies, settled, got>>
      BY <1>2 DEF Arrive, callVars
    <2>1. Len(line) \in Nat \ {0} /\ 1 \in 0 .. Len(line)
      BY <1>0, <2>0, EmptySeq
    <2> DEFINE p == SubSeq(line, 1, 1)
    <2>2. p \in Seq(Byte) /\ Len(p) = 1 /\ p[1] = line[1]
      BY <1>0, <2>1, CutInTwo
    <2>3. Tail(line) = From(line, 1 + 1)
      BY <1>0, <2>0, TailIsSubSeq DEF From
    <2>4. Known(p, replies) /\ Known(line', replies)
      BY <1>0, <1>k, <2>0, <2>1, <2>3, KnownParts
    <2>5. Append(inbox, Head(line)) = inbox \o p
      <3>1. Head(line) = line[1] /\ Head(line) \in Byte
        BY <1>0, <2>0, HeadTailProperties
      <3>2. p = <<line[1]>>
        <4> HIDE DEF p
        <4> QED
          BY <2>2
      <3> QED
        BY <1>0, <3>1, <3>2, AppendIsConcat
    <2> HIDE DEF p
    <2>6. Known(inbox', replies)
      BY <1>0, <1>k, <2>0, <2>2, <2>4, <2>5, KnownJoined
    <2> QED
      BY <1>1, <1>k, <2>0, <2>4, <2>6
  <1>3. CASE TakeFrame \/ ScanFinds
    BY <1>3, CurrentOfReturn DEF TakeFrame, ScanFinds
  <1>4. CASE Discard \/ ScanDiscards
    <2>1. buffer # <<>>
      <3>1. MinFrame \in Nat /\ MinFrame >= 3 /\ Len(<<>>) = 0
        BY FramingAssumption DEF MinFrame
      <3>2. ScanDiscards => Len(buffer) >= MinFrame
        BY DEF ScanDiscards
      <3>3. Discard => buffer # <<>>
        BY <1>0, HasBytes DEF Discard
      <3> QED
        BY <1>4, <3>1, <3>2, <3>3
    <2>2. Tail(buffer) = From(buffer, 1 + 1) /\ 1 \in 0 .. Len(buffer)
      BY <1>0, <2>1, EmptySeq, TailIsSubSeq DEF From
    <2>3. Known(Tail(buffer), replies)
      BY <1>0, <1>k, <2>2, KnownParts
    <2> QED
      BY <1>1, <1>4, <1>k, <2>3 DEF Discard, ScanDiscards, callVars
  <1>5. CASE ScanFails
    BY <1>1, <1>5, <1>e, <1>k DEF ScanFails, callVars
  <1>6. CASE ReadWanted \/ ReadToSilence
    <2>1. PICK n \in 1 .. Len(inbox) : buffer' = buffer \o SubSeq(inbox, 1, n)
                                       /\ inbox' = From(inbox, n + 1)
      BY <1>6 DEF ReadWanted, ReadToSilence, Readable, First, PortReads
    <2>2. n \in 0 .. Len(inbox) /\ SubSeq(inbox, 1, n) \in Seq(Byte)
      BY <1>0, PortMoves
    <2>3. Known(buffer', replies) /\ Known(inbox', replies)
      BY <1>0, <1>k, <2>1, <2>2, KnownParts, KnownJoined
    <2> QED
      BY <1>1, <1>6, <1>k, <2>3 DEF ReadWanted, ReadToSilence, callVars
  <1>7. CASE JudgeSilence
    <2>1. CASE ChecksumHolds(buffer)
      BY <1>7, <2>1, CurrentOfReturn DEF JudgeSilence
    <2>2. CASE ~ChecksumHolds(buffer)
      BY <1>1, <1>7, <1>k, <2>2 DEF JudgeSilence, callVars
    <2> QED
      BY <2>1, <2>2
  <1>8. ASSUME NEW frame \in Sends, Send(frame) PROVE CurrentInv'
    <2>1. /\ sends < MaxSends /\ sends' = sends + 1
          /\ settled' = (settled /\ replies \subseteq Returned)
          /\ UNCHANGED <<buffer, got>>
          /\ pc' \in {"echo", "drain"} \/ result' # "frame"
      BY <1>8 DEF Send, Call
    <2>2. sends' \in Nat
      BY <2>1, Typed
    <2>3. EchoNo(sends') \in Nat
      BY <2>2, FrameNumbers
    <2>4. Written(frame, SubSeq(Labelled(frame, EchoNo(sends')), 1, Len(frame)))
          /\ Len(frame) \in 0 .. Len(frame)
      BY <1>8, <2>3, WholeFrame DEF Send
    <2> QED
      BY <2>1, <2>4, CurrentOfWritten
  <1>9. ASSUME NEW frame \in Sends, SendFails(frame) PROVE CurrentInv'
    <2>1. /\ sends < MaxSends /\ sends' = sends + 1
          /\ settled' = (settled /\ replies \subseteq Returned)
          /\ UNCHANGED <<buffer, got>> /\ result' # "frame"
      BY <1>9 DEF SendFails, Call
    <2>2. PICK n \in 0 .. Len(frame) :
             Written(frame, SubSeq(Labelled(frame, EchoNo(sends')), 1, n))
      BY <1>9 DEF SendFails
    <2> QED
      BY <2>1, <2>2, CurrentOfWritten
  <1>10. ASSUME NEW n \in 1 .. Len(inbox), PortReads(n) PROVE Known(inbox', replies)
    <2>1. n \in 0 .. Len(inbox)
      OBVIOUS
    <2> QED
      BY <1>0, <1>10, <1>k, <2>1, KnownParts DEF PortReads
  <1>11. CASE ReadEcho
    BY <1>1, <1>10, <1>11, <1>k DEF ReadEcho, Readable
  <1>12. CASE Drain
    <2>1. CASE /\ \E n \in Readable(MaxFrame) : PortReads(n)
               /\ UNCHANGED <<buffer, pc, result, astray>>
      BY <1>1, <1>10, <1>12, <1>k, <2>1 DEF Drain, Readable
    <2>2. CASE buffer' = <<>> /\ result' = "collision" /\ UNCHANGED inbox
      BY <1>1, <1>12, <1>e, <1>k, <2>2 DEF Drain
    <2> QED
      BY <1>12, <2>1, <2>2 DEF Drain
  <1>13. CASE JudgeEcho
    BY <1>1, <1>13, <1>k DEF JudgeEcho
  <1>14. CASE ReadFails
    BY <1>1, <1>14, <1>k DEF ReadFails
  <1>15. CASE Receive \/ NoSizeStated \/ WantMore \/ ReadQuiet
    BY <1>1, <1>15, <1>k DEF Receive, NoSizeStated, WantMore, ReadQuiet, callVars
  <1>16. CASE UNCHANGED vars
    BY <1>1, <1>16, <1>k DEF vars
  <1> QED
    BY <1>2, <1>3, <1>4, <1>5, <1>6, <1>7, <1>8, <1>9, <1>11, <1>12, <1>13, <1>14, <1>15, <1>16
    DEF Next, Receiving, Sending

\* A caller who waits for each reply before the next request, and lost no echo,
\* has the reply to that request, never an earlier one or a part of two.
THEOREM RepliesAreCurrent == Spec => []ReplyIsCurrent
  <1>1. CurrentInv => ReplyIsCurrent
    BY DEF CurrentInv, ReplyIsCurrent
  <1> QED
    BY <1>1, CurrentInit, CurrentStep, OrderInit, OrderStep, EchoInit, EchoStep,
       RtuStreamTypes, PTL DEF Spec

=============================================================================
