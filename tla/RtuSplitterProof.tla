-------------------------- MODULE RtuSplitterProof --------------------------
(***************************************************************************)
(* What module RtuSplitter guarantees for every layout, every line and     *)
(* pieces of every size.                                                   *)
(***************************************************************************)
EXTENDS RtuSplitter, RtuFramingProof, NaturalsInduction, WellFoundedInduction

\* The step of a pass at byte k, and that some function is a pass.
PassStep(bytes, pass, k) ==
    LET read == ReadRtuFrame(From(bytes, k)) IN
    IF read.found
    THEN [pass[k + read.length] EXCEPT !.found = <<bytes[k].frame>> \o @]
    ELSE IF read.incomplete
    THEN [found |-> <<>>, dropped |-> 0, held |-> From(bytes, k)]
    ELSE [pass[k + 1] EXCEPT !.dropped = @ + 1]

IsPass(bytes, pass) == pass = [k \in 1 .. Len(bytes) + 1 |-> PassStep(bytes, pass, k)]

LEMMA PassIsChosen ==
    ASSUME NEW bytes
    PROVE  PassOver(bytes) = CHOOSE pass : IsPass(bytes, pass)
  BY DEF PassOver, IsPass, PassStep

-----------------------------------------------------------------------------
(* Parts of a line. *)

\* Without its first bytes.
LEMMA DropFirst ==
    ASSUME NEW l \in Seq(Byte), NEW g \in Nat, NEW f \in Nat, g <= f, f <= Len(l),
           NEW n \in 0 .. f - g
    PROVE  From(SubSeq(l, g + 1, f), n + 1) = SubSeq(l, g + n + 1, f)
  <1> DEFINE p == SubSeq(l, g + 1, f)
             q == SubSeq(l, g + n + 1, f)
  <1>1. /\ p \in Seq(Byte) /\ Len(p) = f - g
        /\ \A k \in 1 .. f - g : p[k] = l[g + k]
    BY LinePart
  <1>2. g + n \in Nat /\ g + n <= f
    OBVIOUS
  <1>3. /\ q \in Seq(Byte) /\ Len(q) = f - (g + n)
        /\ \A k \in 1 .. f - (g + n) : q[k] = l[g + n + k]
    BY <1>2, LinePart
  <1> HIDE DEF p, q
  <1>4. n \in Nat /\ f - g \in Nat /\ n <= f - g /\ f - g <= Len(p)
    BY <1>1
  <1>5. /\ SubSeq(p, n + 1, f - g) \in Seq(Byte)
        /\ Len(SubSeq(p, n + 1, f - g)) = f - g - n
        /\ \A k \in 1 .. f - g - n : SubSeq(p, n + 1, f - g)[k] = p[n + k]
    BY <1>1, <1>4, LinePart
  <1>6. ASSUME NEW k \in 1 .. f - g - n
        PROVE  SubSeq(p, n + 1, f - g)[k] = q[k]
    <2>1. n + k \in 1 .. f - g /\ g + (n + k) = g + n + k /\ k \in 1 .. f - (g + n)
      OBVIOUS
    <2> QED
      BY <1>1, <1>3, <1>5, <2>1
  <1>7. Len(q) = f - g - n
    BY <1>3
  <1>8. SubSeq(p, n + 1, f - g) = q
    BY <1>3, <1>5, <1>6, <1>7, SeqEqual
  <1> QED
    BY <1>1, <1>8 DEF From, p, q

\* With the bytes that follow.
LEMMA AddNext ==
    ASSUME NEW l \in Seq(Byte), NEW g \in Nat, NEW f \in Nat, NEW e \in Nat,
           g <= f, f <= e, e <= Len(l)
    PROVE  /\ SubSeq(l, g + 1, f) \o SubSeq(l, f + 1, e) = SubSeq(l, g + 1, e)
           /\ Begins(SubSeq(l, g + 1, f), SubSeq(l, g + 1, e))
  <1> DEFINE p == SubSeq(l, g + 1, f)
             q == SubSeq(l, f + 1, e)
             r == SubSeq(l, g + 1, e)
  <1>1. /\ p \in Seq(Byte) /\ Len(p) = f - g
        /\ \A k \in 1 .. f - g : p[k] = l[g + k]
    BY LinePart
  <1>2. /\ q \in Seq(Byte) /\ Len(q) = e - f
        /\ \A k \in 1 .. e - f : q[k] = l[f + k]
    BY LinePart
  <1>3. /\ r \in Seq(Byte) /\ Len(r) = e - g
        /\ \A k \in 1 .. e - g : r[k] = l[g + k]
    <2>1. g <= e
      OBVIOUS
    <2> QED
      BY <2>1, LinePart
  <1> HIDE DEF p, q, r
  <1>4. /\ p \o q \in Seq(Byte)
        /\ Len(p \o q) = Len(p) + Len(q)
        /\ \A k \in 1 .. Len(p) + Len(q) :
              (p \o q)[k] = IF k <= Len(p) THEN p[k] ELSE q[k - Len(p)]
    BY <1>1, <1>2, ConcatProperties
  <1>5. Len(p) + Len(q) = e - g
    BY <1>1, <1>2
  <1>6. ASSUME NEW k \in 1 .. e - g
        PROVE  (p \o q)[k] = r[k]
    <2>1. CASE k <= f - g
      <3>1. k \in 1 .. f - g
        BY <2>1
      <3> QED
        BY <3>1, <1>1, <1>3, <1>4, <1>5
    <2>2. CASE ~(k <= f - g)
      <3>1. k - (f - g) \in 1 .. e - f /\ f + (k - (f - g)) = g + k
        BY <2>2
      <3> QED
        BY <3>1, <2>2, <1>1, <1>2, <1>3, <1>4, <1>5
    <2> QED
      BY <2>1, <2>2
  <1>7. p \o q = r
    BY <1>3, <1>4, <1>5, <1>6, SeqEqual
  <1>8. Begins(p, r)
    <2>1. Len(p) <= Len(r) /\ \A k \in 1 .. f - g : k \in 1 .. e - g
      BY <1>1, <1>3
    <2> QED
      BY <1>1, <1>3, <2>1 DEF Begins
  <1> QED
    BY <1>7, <1>8 DEF p, q, r

-----------------------------------------------------------------------------
(* The types. *)

LEMMA TypeInit == Init => TypeOK
  <1> SUFFICES ASSUME Init PROVE TypeOK
    OBVIOUS
  <1>1. line \in Seq(Byte) /\ Len(line) \in Nat
    BY SplitterAssumption DEF Init
  <1>2. 0 \in 0 .. Len(line) /\ 0 \in 0 .. 0
    BY <1>1
  <1>3. <<>> \in Seq(Byte) /\ <<>> \in Seq(Nat) /\ 0 \in Nat
    OBVIOUS
  <1> QED
    BY <1>1, <1>2, <1>3, Zenon DEF Init, TypeOK

LEMMA TypeStep == TypeOK /\ [Next]_vars => TypeOK'
  <1> SUFFICES ASSUME TypeOK, [Next]_vars PROVE TypeOK'
    OBVIOUS
  <1>0. /\ line \in Seq(Byte) /\ Len(line) \in Nat /\ buffer \in Seq(Byte)
        /\ Len(buffer) \in Nat
        /\ fed \in Nat /\ start \in Nat /\ fed <= Len(line) /\ start <= fed
    BY DEF TypeOK
  <1>1. CASE Push
    <2>1. PICK n \in 1 .. MaxPush :
             /\ fed + n <= Len(line)
             /\ buffer' = buffer \o SubSeq(line, fed + 1, fed + n)
             /\ fed' = fed + n
      BY <1>1 DEF Push
    <2>2. n \in Nat
      BY SplitterAssumption
    <2>3. fed + n \in Nat /\ fed <= fed + n
      BY <1>0, <2>2
    <2>4. SubSeq(line, fed + 1, fed + n) \in Seq(Byte)
      BY <1>0, <2>1, <2>3, LinePart
    <2>5. buffer' \in Seq(Byte)
      BY <1>0, <2>1, <2>4, ConcatProperties
    <2>6. fed' \in 0 .. Len(line) /\ start \in 0 .. fed'
      BY <1>0, <2>1, <2>2
    <2> QED
      BY <1>1, <2>5, <2>6 DEF Push, TypeOK
  <1>2. CASE TakeFrame
    <2>1. ReadRtuFrame(buffer).found
      BY <1>2 DEF TakeFrame
    <2> DEFINE n == ReadRtuFrame(buffer).length
    <2>2. n \in Nat /\ n <= Len(buffer) /\ buffer[1].frame \in Nat
      BY <1>0, <2>1, FoundIs
    <2>3. From(buffer, n + 1) \in Seq(Byte)
      <3> HIDE DEF n
      <3> QED
        BY <1>0, <2>2, LinePart DEF From
    <2>4. Append(found, buffer[1].frame) \in Seq(Nat)
      BY <2>2, AppendProperties DEF TypeOK
    <2> QED
      BY <1>2, <2>3, <2>4 DEF TakeFrame, TypeOK
  <1>3. CASE Discard
    <2>1. ~ReadRtuFrame(buffer).incomplete
      BY <1>3 DEF Discard
    <2>2. Len(buffer) >= 1 /\ buffer # <<>>
      BY <1>0, <2>1, HasBytes
    <2>3. Tail(buffer) \in Seq(Byte)
      BY <1>0, <2>2, HeadTailProperties
    <2> QED
      BY <1>3, <2>3 DEF Discard, TypeOK
  <1>4. CASE PushReturns
    BY <1>4 DEF PushReturns, TypeOK
  <1>5. CASE Reset
    <2>1. <<>> \in Seq(Byte) /\ <<>> \in Seq(Nat)
      OBVIOUS
    <2>2. fed \in 0 .. fed
      BY <1>0
    <2> QED
      BY <1>5, <2>1, <2>2 DEF Reset, TypeOK
  <1>6. CASE UNCHANGED vars
    BY <1>6 DEF vars, TypeOK
  <1> QED
    BY <1>1, <1>2, <1>3, <1>4, <1>5, <1>6 DEF Next

THEOREM SplitterTypes == Spec => []TypeOK
  <1> QED
    BY TypeInit, TypeStep, PTL DEF Spec

-----------------------------------------------------------------------------
(* What is held. *)

\* The bytes taken, as frames or as noise.
Gone == fed - Len(buffer)

\* What is held is what has been pushed and not taken, and between calls it is
\* not decided yet.
HeldInv ==
    /\ TypeOK
    /\ start <= Gone
    /\ buffer = SubSeq(line, Gone + 1, fed)
    /\ ~taking => ReadRtuFrame(buffer).incomplete

LEMMA HeldTypes ==
    ASSUME HeldInv
    PROVE  /\ line \in Seq(Byte) /\ Len(line) \in Nat /\ buffer \in Seq(Byte)
           /\ Len(buffer) \in Nat
           /\ fed \in Nat /\ start \in Nat /\ fed <= Len(line) /\ start <= fed
           /\ Gone \in Nat /\ start <= Gone /\ Gone <= fed /\ Len(buffer) = fed - Gone
           /\ resyncs \in Nat /\ found \in Seq(Nat) /\ taking \in BOOLEAN
           /\ buffer = SubSeq(line, Gone + 1, fed)
           /\ \A k \in 1 .. fed - Gone : buffer[k] = line[Gone + k]
  <1>1. /\ line \in Seq(Byte) /\ Len(line) \in Nat /\ buffer \in Seq(Byte)
        /\ Len(buffer) \in Nat
        /\ fed \in Nat /\ start \in Nat /\ fed <= Len(line) /\ start <= fed
        /\ resyncs \in Nat /\ found \in Seq(Nat) /\ taking \in BOOLEAN
    BY DEF HeldInv, TypeOK
  <1>2. Gone \in Nat /\ start <= Gone /\ Gone <= fed /\ Len(buffer) = fed - Gone
    BY <1>1 DEF HeldInv, Gone
  <1>3. buffer = SubSeq(line, Gone + 1, fed)
    BY DEF HeldInv
  <1>4. \A k \in 1 .. fed - Gone : buffer[k] = line[Gone + k]
    BY <1>1, <1>2, <1>3, LinePart
  <1> QED
    BY <1>1, <1>2, <1>3, <1>4

\* Nothing is incomplete but what is held between calls.
LEMMA NothingIsIncomplete == ReadRtuFrame(<<>>).incomplete
  <1>1. <<>> \in Seq(Byte) /\ Len(<<>>) = 0
    OBVIOUS
  <1>2. Len(<<>>) < MinFrame
    BY <1>1, FramingAssumption DEF MinFrame
  <1> QED
    BY <1>1, <1>2, Verdicts

LEMMA HeldInit == Init => HeldInv
  <1> SUFFICES ASSUME Init PROVE HeldInv
    OBVIOUS
  <1>1. /\ fed = 0 /\ start = 0 /\ buffer = <<>> /\ Len(buffer) = 0 /\ TypeOK
    BY TypeInit DEF Init
  <1>2. Gone = 0
    <2>1. fed = 0 /\ Len(buffer) = 0
      BY <1>1
    <2> QED
      BY ONLY <2>1 DEF Gone
  <1>3. SubSeq(line, 1, 0) = <<>>
    OBVIOUS
  <1> QED
    BY <1>1, <1>2, <1>3, NothingIsIncomplete DEF HeldInv

\* What each action does to it.
LEMMA HeldMoves ==
    ASSUME HeldInv
    PROVE  /\ Push =>
                 /\ fed' \in Nat /\ fed <= fed' /\ fed' <= Len(line) /\ Gone' = Gone
                 /\ buffer' = SubSeq(line, Gone + 1, fed')
           /\ TakeFrame =>
                 LET n == ReadRtuFrame(buffer).length
                 IN /\ n \in Nat /\ 1 <= n /\ Gone + n <= fed /\ Gone' = Gone + n
                    /\ buffer' = SubSeq(line, Gone + n + 1, fed)
           /\ Discard =>
                 /\ Gone + 1 <= fed /\ Gone' = Gone + 1
                 /\ buffer' = SubSeq(line, Gone + 1 + 1, fed)
           /\ PushReturns \/ UNCHANGED vars => Gone' = Gone
           /\ Reset => Gone' = fed
  <1>0. /\ line \in Seq(Byte) /\ Len(line) \in Nat /\ buffer \in Seq(Byte)
        /\ Len(buffer) \in Nat
        /\ fed \in Nat /\ start \in Nat /\ fed <= Len(line) /\ start <= fed
        /\ Gone \in Nat /\ start <= Gone /\ Gone <= fed /\ Len(buffer) = fed - Gone
        /\ buffer = SubSeq(line, Gone + 1, fed)
    BY HeldTypes
  <1>1. ASSUME Push
        PROVE  /\ fed' \in Nat /\ fed <= fed' /\ fed' <= Len(line) /\ Gone' = Gone
               /\ buffer' = SubSeq(line, Gone + 1, fed')
    <2>1. PICK n \in 1 .. MaxPush :
             /\ fed + n <= Len(line)
             /\ buffer' = buffer \o SubSeq(line, fed + 1, fed + n)
             /\ fed' = fed + n
      BY <1>1 DEF Push
    <2>2. n \in Nat
      BY SplitterAssumption
    <2>3. fed + n \in Nat /\ fed <= fed + n /\ Gone <= fed + n
      BY <1>0, <2>2
    <2>4. buffer' = SubSeq(line, Gone + 1, fed + n)
      BY SMTT(30), <1>0, <2>1, <2>3, AddNext
    <2>5. Len(buffer') = fed + n - Gone
      BY <1>0, <2>1, <2>3, <2>4, LinePart
    <2>6. Gone' = Gone
      BY <1>0, <2>1, <2>2, <2>5 DEF Gone
    <2> QED
      BY <2>1, <2>3, <2>4, <2>6
  <1>2. ASSUME TakeFrame
        PROVE  LET n == ReadRtuFrame(buffer).length
               IN /\ n \in Nat /\ 1 <= n /\ Gone + n <= fed /\ Gone' = Gone + n
                  /\ buffer' = SubSeq(line, Gone + n + 1, fed)
    <2> DEFINE n == ReadRtuFrame(buffer).length
    <2>1. n \in Nat /\ n >= 1 /\ n <= Len(buffer)
      BY <1>0, <1>2, FoundIs DEF TakeFrame
    <2>2. buffer' = From(buffer, n + 1) /\ fed' = fed
      BY <1>2 DEF TakeFrame
    <2> HIDE DEF n
    <2>3. n \in 0 .. fed - Gone /\ Gone + n \in Nat /\ Gone + n <= fed
      BY <1>0, <2>1
    <2>4. buffer' = SubSeq(line, Gone + n + 1, fed)
      BY ZenonT(40), <1>0, <2>2, <2>3, DropFirst
    <2>5. Len(buffer') = fed - (Gone + n)
      BY <1>0, <2>3, <2>4, LinePart
    <2>6. Gone' = Gone + n
      <3>1. Gone' = fed' - Len(buffer')
        BY DEF Gone
      <3> QED
        BY <1>0, <2>1, <2>2, <2>5, <3>1
    <2> QED
      BY <2>1, <2>3, <2>4, <2>6 DEF n
  <1>3. ASSUME Discard
        PROVE  /\ Gone + 1 <= fed /\ Gone' = Gone + 1
               /\ buffer' = SubSeq(line, Gone + 1 + 1, fed)
    <2>1. Len(buffer) >= 1 /\ buffer # <<>> /\ fed' = fed
      BY <1>0, <1>3, HasBytes DEF Discard
    <2>2. buffer' = From(buffer, 1 + 1)
      BY <1>0, <1>3, <2>1, TailIsSubSeq DEF Discard, From
    <2>3. 1 \in 0 .. fed - Gone /\ Gone + 1 \in Nat /\ Gone + 1 <= fed
      BY <1>0, <2>1
    <2>4. buffer' = SubSeq(line, Gone + 1 + 1, fed)
      BY ZenonT(40), <1>0, <2>2, <2>3, DropFirst
    <2>5. Len(buffer') = fed - (Gone + 1)
      BY <1>0, <2>3, <2>4, LinePart
    <2>6. Gone' = Gone + 1
      BY <1>0, <2>1, <2>3, <2>5 DEF Gone
    <2> QED
      BY <2>3, <2>4, <2>6
  <1>4. ASSUME PushReturns \/ UNCHANGED vars PROVE Gone' = Gone
    BY <1>4 DEF PushReturns, vars, Gone
  <1>5. ASSUME Reset PROVE Gone' = fed
    <2>1. Len(buffer') = 0 /\ fed' = fed
      BY <1>5 DEF Reset
    <2> QED
      BY <1>0, <2>1 DEF Gone
  <1> QED
    BY <1>1, <1>2, <1>3, <1>4, <1>5

LEMMA HeldStep == HeldInv /\ [Next]_vars => HeldInv'
  <1> SUFFICES ASSUME HeldInv, [Next]_vars PROVE HeldInv'
    OBVIOUS
  <1>0. /\ line \in Seq(Byte) /\ Len(line) \in Nat
        /\ fed \in Nat /\ start \in Nat /\ fed <= Len(line) /\ start <= fed
        /\ Gone \in Nat /\ start <= Gone /\ Gone <= fed
        /\ buffer = SubSeq(line, Gone + 1, fed)
    BY HeldTypes
  <1>t. TypeOK'
    BY TypeStep DEF HeldInv
  <1>1. CASE Push
    <2>1. Gone' = Gone /\ buffer' = SubSeq(line, Gone + 1, fed')
      BY <1>1, HeldMoves
    <2> QED
      BY <1>t, <1>0, <1>1, <2>1 DEF Push, HeldInv
  <1>2. CASE TakeFrame
    <2> DEFINE n == ReadRtuFrame(buffer).length
    <2>1. n \in Nat /\ 1 <= n /\ Gone' = Gone + n /\ buffer' = SubSeq(line, Gone + n + 1, fed)
      BY <1>2, HeldMoves
    <2>2. UNCHANGED <<line, start, fed, taking>> /\ taking
      BY <1>2 DEF TakeFrame
    <2> HIDE DEF n
    <2>3. start' <= Gone'
      BY <1>0, <2>1, <2>2
    <2> QED
      BY <1>t, <2>1, <2>2, <2>3 DEF HeldInv
  <1>3. CASE Discard
    <2>1. Gone' = Gone + 1 /\ buffer' = SubSeq(line, Gone + 1 + 1, fed)
      BY <1>3, HeldMoves
    <2>2. UNCHANGED <<line, start, fed, taking>> /\ taking
      BY <1>3 DEF Discard
    <2>3. start' <= Gone'
      BY <1>0, <2>1, <2>2
    <2> QED
      BY <1>t, <2>1, <2>2, <2>3 DEF HeldInv
  <1>4. CASE PushReturns
    BY <1>4, <1>t DEF PushReturns, HeldInv, Gone
  <1>5. CASE Reset
    <2>1. buffer' = <<>> /\ start' = fed /\ UNCHANGED <<line, fed>>
      BY <1>5 DEF Reset
    <2>2. Gone' = fed
      BY <1>5, HeldMoves
    <2>3. SubSeq(line, fed + 1, fed) = <<>>
      BY <1>0, SubSeqEmpty
    <2>4. start' <= Gone'
      BY <1>0, <2>1, <2>2
    <2> QED
      BY <1>t, <2>1, <2>2, <2>3, <2>4, NothingIsIncomplete DEF HeldInv
  <1>6. CASE UNCHANGED vars
    BY <1>6 DEF vars, HeldInv, TypeOK, Gone
  <1> QED
    BY <1>1, <1>2, <1>3, <1>4, <1>5, <1>6 DEF Next

\* Bytes that are waited on are fewer than some header announces.
LEMMA WaitedIsBounded ==
    ASSUME NEW b \in Seq(Byte), ReadRtuFrame(b).incomplete
    PROVE  \E code, count \in Values : Len(b) < 1 + Layout[code].head + count + CrcSize
  <1>0. CrcSize \in Nat \ {0} /\ MinFrame = 2 + CrcSize /\ Len(b) \in Nat
    BY FramingAssumption DEF MinFrame
  <1>1. CASE Len(b) < MinFrame
    <2>1. 0 \in Values /\ Layout[0].head \in Nat \ {0}
      BY FramingAssumption
    <2>2. Len(b) < 1 + Layout[0].head + 0 + CrcSize
      BY <1>0, <1>1, <2>1
    <2> QED
      BY <2>1, <2>2
  <1>2. CASE Len(b) >= MinFrame
    <2>1. 2 \in 1 .. Len(b)
      BY <1>0, <1>2
    <2> DEFINE code == b[2].value
               head == Layout[code].head
    <2>2. code \in Values /\ code \in Nat /\ head \in Nat \ {0}
      BY <2>1, ByteType
    <2>3. CASE Len(b) < 1 + head
      <3>1. Len(b) < 1 + head + code + CrcSize
        BY <1>0, <2>2, <2>3
      <3> QED
        BY <2>2, <3>1
    <2>4. CASE Sized(b) /\ Len(b) < FrameLength(b) /\ Layout[code].kind = "counted"
      <3> DEFINE count == b[1 + head].value
      <3>1. 1 + head \in 1 .. Len(b)
        BY <1>0, <2>2, <2>4 DEF Sized
      <3>2. count \in Values /\ count \in Nat
        BY <3>1, ByteType
      <3>3. FrameLength(b) = 1 + head + CrcSize + count
        BY <2>4 DEF FrameLength
      <3>4. Len(b) < 1 + head + count + CrcSize
        <4> HIDE DEF head, count
        <4> QED
          BY <1>0, <2>2, <2>4, <3>2, <3>3
      <3> QED
        BY <2>2, <3>2, <3>4
    <2>5. CASE Sized(b) /\ Len(b) < FrameLength(b) /\ Layout[code].kind # "counted"
      <3>1. FrameLength(b) = 1 + head + CrcSize + 0
        BY <2>5 DEF FrameLength
      <3>2. Len(b) < 1 + head + code + CrcSize
        <4> HIDE DEF head, code
        <4> QED
          BY <1>0, <2>2, <2>5, <3>1
      <3> QED
        BY <2>2, <3>2
    <2>6. ~(Len(b) < MinFrame)
      BY <1>0, <1>2
    <2> QED
      BY <2>3, <2>4, <2>5, <2>6, Verdicts
  <1> QED
    BY <1>0, <1>1, <1>2

\* The splitter's memory stays bounded: what it holds between calls of push() is
\* shorter than some frame a header can announce, so a stream that never frames
\* cannot make the buffer grow.
THEOREM BufferIsBounded == Spec => []HeldIsBounded
  <1>1. HeldInv => HeldIsBounded
    <2> SUFFICES ASSUME HeldInv, ~taking
                 PROVE  \E code, count \in Values :
                           Len(buffer) < 1 + Layout[code].head + count + CrcSize
      BY DEF HeldIsBounded
    <2>1. buffer \in Seq(Byte) /\ ReadRtuFrame(buffer).incomplete
      BY DEF HeldInv, TypeOK
    <2> QED
      BY <2>1, WaitedIsBounded
  <1> QED
    BY <1>1, HeldInit, HeldStep, PTL DEF Spec

-----------------------------------------------------------------------------
(* A pass over all the bytes at once.                                      *)

\* A set of natural numbers has a least one: with it, what holds of each byte
\* if it holds of those behind it holds of all of them.
LEMMA LeastNumber ==
    ASSUME NEW T \in SUBSET Nat, T # {}
    PROVE  \E n \in T : \A m \in T : n <= m
  <1> DEFINE R == {ss \in Nat \X Nat : ss[1] < ss[2]}
  <1>1. IsWellFoundedOn(R, Nat)
    BY NatLessThanWellFounded DEF OpToRel
  <1>2. PICK x \in T : \A y \in T : ~(<<y, x>> \in R)
    <2>1. T \subseteq Nat
      OBVIOUS
    <2> HIDE DEF R
    <2> QED
      BY ONLY <1>1, WFMin, <2>1, T # {}
  <1>3. ASSUME NEW y \in T
        PROVE  x <= y
    <2>1. x \in Nat /\ y \in Nat
      OBVIOUS
    <2>2. y < x => <<y, x>> \in R
      BY <2>1
    <2>3. ~(<<y, x>> \in R)
      BY <1>2
    <2> HIDE DEF R
    <2> QED
      BY <2>1, <2>2, <2>3
  <1> QED
    BY <1>3

Passed == [found : Seq(Nat), dropped : Nat, held : Seq(Byte)]

LEMMA FromHere ==
    ASSUME NEW bytes \in Seq(Byte), NEW k \in 1 .. Len(bytes) + 1
    PROVE  /\ From(bytes, k) \in Seq(Byte)
           /\ Len(From(bytes, k)) = Len(bytes) - k + 1
           /\ k <= Len(bytes) => From(bytes, k)[1] = bytes[k]
  <1>1. k - 1 \in Nat /\ k - 1 <= Len(bytes) /\ Len(bytes) \in Nat /\ (k - 1) + 1 = k
    OBVIOUS
  <1>2. /\ SubSeq(bytes, (k - 1) + 1, Len(bytes)) \in Seq(Byte)
        /\ Len(SubSeq(bytes, (k - 1) + 1, Len(bytes))) = Len(bytes) - (k - 1)
        /\ \A j \in 1 .. Len(bytes) - (k - 1) :
              SubSeq(bytes, (k - 1) + 1, Len(bytes))[j] = bytes[(k - 1) + j]
    BY <1>1, LinePart
  <1>3. k <= Len(bytes) => 1 \in 1 .. Len(bytes) - (k - 1)
    BY <1>1
  <1> QED
    BY <1>1, <1>2, <1>3 DEF From

\* A step of the pass looks at what later bytes come to, and at nothing else.
LEMMA PassStepIs ==
    ASSUME NEW bytes \in Seq(Byte), NEW k \in 1 .. Len(bytes) + 1, NEW P, NEW Q,
           \A j \in k + 1 .. Len(bytes) + 1 : P[j] \in Passed /\ Q[j] = P[j]
    PROVE  PassStep(bytes, P, k) \in Passed /\ PassStep(bytes, Q, k) = PassStep(bytes, P, k)
  <1> DEFINE b == From(bytes, k)
  <1>1. b \in Seq(Byte) /\ Len(b) = Len(bytes) - k + 1 /\ Len(bytes) \in Nat
    BY FromHere
  <1>2. CASE ReadRtuFrame(b).found
    <2> DEFINE n == ReadRtuFrame(b).length
    <2>1. n \in Nat /\ n >= 1 /\ n <= Len(b) /\ b[1].frame \in Nat
      BY <1>1, <1>2, FoundIs
    <2>2. k + n \in k + 1 .. Len(bytes) + 1 /\ k <= Len(bytes)
      <3> HIDE DEF n, b
      <3> QED
        BY <1>1, <2>1
    <2>3. bytes[k].frame \in Nat
      BY <2>1, <2>2, FromHere
    <2>4. <<bytes[k].frame>> \in Seq(Nat)
      BY <2>3
    <2>5. P[k + n] \in Passed /\ Q[k + n] = P[k + n]
      BY <2>2
    <2>6. <<bytes[k].frame>> \o P[k + n].found \in Seq(Nat)
      BY <2>4, <2>5, ConcatProperties DEF Passed
    <2>7. [P[k + n] EXCEPT !.found = <<bytes[k].frame>> \o @] \in Passed
      BY <2>5, <2>6 DEF Passed
    <2> QED
      BY <1>2, <2>5, <2>7 DEF PassStep
  <1>3. CASE ~ReadRtuFrame(b).found /\ ReadRtuFrame(b).incomplete
    <2>1. [found |-> <<>>, dropped |-> 0, held |-> b] \in Passed
      BY <1>1 DEF Passed
    <2> QED
      BY <1>3, <2>1 DEF PassStep
  <1>4. CASE ~ReadRtuFrame(b).found /\ ~ReadRtuFrame(b).incomplete
    <2>1. Len(b) >= 1
      BY <1>1, <1>4, HasBytes
    <2>2. k + 1 \in k + 1 .. Len(bytes) + 1
      <3> HIDE DEF b
      <3> QED
        BY <1>1, <2>1
    <2>3. P[k + 1] \in Passed /\ Q[k + 1] = P[k + 1]
      BY <2>2
    <2>4. P[k + 1].dropped + 1 \in Nat
      BY <2>3 DEF Passed
    <2>5. [P[k + 1] EXCEPT !.dropped = @ + 1] \in Passed
      BY <2>3, <2>4 DEF Passed
    <2> QED
      BY <1>4, <2>3, <2>5 DEF PassStep
  <1> QED
    BY <1>2, <1>3, <1>4

\* There is such a pass.
LEMMA PassExists ==
    ASSUME NEW bytes \in Seq(Byte)
    PROVE  \E P \in [1 .. Len(bytes) + 1 -> Passed] : IsPass(bytes, P)
  <1> DEFINE L == Len(bytes) + 1
             Solves(P, m) == \A k \in L + 1 - m .. L : P[k] = PassStep(bytes, P, k)
             Up == {m \in 0 .. L : \E P \in [1 .. L -> Passed] : Solves(P, m)}
             T == {m \in 0 .. L : m \notin Up}
  <1>1. L \in Nat \ {0} /\ Len(bytes) \in Nat
    OBVIOUS
  <1>2. 0 \in Up
    <2>1. [found |-> <<>>, dropped |-> 0, held |-> <<>>] \in Passed
      BY DEF Passed
    <2>2. [k \in 1 .. L |-> [found |-> <<>>, dropped |-> 0, held |-> <<>>]] \in [1 .. L -> Passed]
      BY <2>1
    <2>3. L + 1 - 0 .. L = {} /\ 0 \in 0 .. L
      BY <1>1
    <2>4. Solves([k \in 1 .. L |-> [found |-> <<>>, dropped |-> 0, held |-> <<>>]], 0)
      BY <2>3
    <2> QED
      BY <2>2, <2>3, <2>4
  <1>3. ASSUME NEW m \in 0 .. L, m \in Up, m # L
        PROVE  m + 1 \in Up
    <2> DEFINE k == L - m
    <2>1. k \in 1 .. Len(bytes) + 1 /\ k \in 1 .. L /\ k \in Nat /\ m \in Nat
          /\ L + 1 - m = k + 1 /\ L + 1 - (m + 1) = k /\ m + 1 \in 0 .. L
      BY <1>1, <1>3
    <2>2. PICK P \in [1 .. L -> Passed] : Solves(P, m)
      BY <1>3
    <2> DEFINE Q == [P EXCEPT ![k] = PassStep(bytes, P, k)]
    <2> HIDE DEF k
    <2>3. \A j \in k + 1 .. L : P[j] \in Passed /\ j \in 1 .. L /\ j # k
      BY <1>1, <2>1
    <2>4. PassStep(bytes, P, k) \in Passed
      BY <2>1, <2>3, PassStepIs
    <2>5. Q \in [1 .. L -> Passed] /\ Q[k] = PassStep(bytes, P, k)
      BY <2>1, <2>4
    <2>6. \A j \in k + 1 .. L : Q[j] = P[j]
      BY <2>1, <2>3
    <2> HIDE DEF Q
    <2>7. ASSUME NEW i \in k .. L
          PROVE  Q[i] = PassStep(bytes, Q, i)
      <3>1. i \in 1 .. Len(bytes) + 1 /\ i \in Nat
        BY <1>1, <2>1
      <3>2. \A j \in i + 1 .. Len(bytes) + 1 : j \in k + 1 .. L
        BY <1>1, <2>1, <3>1
      <3>3. \A j \in i + 1 .. Len(bytes) + 1 : P[j] \in Passed /\ Q[j] = P[j]
        BY <2>3, <2>6, <3>2
      <3>4. PassStep(bytes, Q, i) = PassStep(bytes, P, i)
        BY <3>1, <3>3, PassStepIs
      <3>5. CASE i = k
        BY <2>5, <3>4, <3>5
      <3>6. CASE i # k
        <4>1. i \in k + 1 .. L
          BY <1>1, <2>1, <3>6
        <4>2. P[i] = PassStep(bytes, P, i)
          BY <2>1, <2>2, <4>1
        <4> QED
          BY <2>6, <3>4, <4>1, <4>2
      <3> QED
        BY <3>5, <3>6
    <2>8. Solves(Q, m + 1)
      BY <2>1, <2>7
    <2> HIDE DEF Solves
    <2> QED
      BY <2>1, <2>5, <2>8
  <1>4. T = {}
    <2> SUFFICES ASSUME T # {} PROVE FALSE
      OBVIOUS
    <2>1. T \in SUBSET Nat
      BY <1>1
    <2>2. PICK n \in T : \A m \in T : n <= m
      <3> HIDE DEF T
      <3> QED
        BY <2>1, LeastNumber
    <2> HIDE DEF Up
    <2>3. n \in 0 .. L /\ n \notin Up
      BY <2>2
    <2>4. n # 0
      BY <1>2, <2>3
    <2>5. n - 1 \in 0 .. L /\ n - 1 # L /\ (n - 1) + 1 = n /\ ~(n <= n - 1)
      BY <1>1, <2>3, <2>4
    <2>6. n - 1 \in Up
      BY <2>2, <2>5
    <2> QED
      BY <1>3, <2>3, <2>5, <2>6
  <1>5. L \in Up
    <2>1. L \in 0 .. L
      BY <1>1
    <2> HIDE DEF Up
    <2> QED
      BY <1>4, <2>1
  <1>6. PICK P \in [1 .. L -> Passed] : Solves(P, L)
    BY <1>5
  <1>7. \A k \in 1 .. L : P[k] = PassStep(bytes, P, k)
    <2>1. L + 1 - L = 1
      BY <1>1
    <2> QED
      BY <1>6, <2>1
  <1>8. P = [k \in 1 .. L |-> PassStep(bytes, P, k)]
    BY <1>6, <1>7
  <1> QED
    BY <1>8 DEF IsPass

\* PassOver is one.
LEMMA PassOverIs ==
    ASSUME NEW bytes \in Seq(Byte)
    PROVE  /\ PassOver(bytes) \in [1 .. Len(bytes) + 1 -> Passed]
           /\ \A k \in 1 .. Len(bytes) + 1 :
                 PassOver(bytes)[k] = PassStep(bytes, PassOver(bytes), k)
  <1> DEFINE L == Len(bytes) + 1
             Q == PassOver(bytes)
  <1>1. L \in Nat \ {0} /\ Len(bytes) \in Nat
    OBVIOUS
  <1>2. PICK P \in [1 .. L -> Passed] : IsPass(bytes, P)
    BY PassExists
  <1>3. IsPass(bytes, Q)
    <2>1. IsPass(bytes, CHOOSE pass : IsPass(bytes, pass))
      BY <1>2
    <2> QED
      BY <2>1, PassIsChosen
  <1>4. /\ Q = [k \in 1 .. L |-> Q[k]]
        /\ \A k \in 1 .. L : Q[k] = PassStep(bytes, Q, k)
    <2> HIDE DEF Q
    <2> QED
      BY <1>3 DEF IsPass
  <1>5. \A k \in 1 .. L : P[k] = PassStep(bytes, P, k)
    BY <1>2 DEF IsPass
  <1> HIDE DEF Q
  <1> DEFINE T == {m \in 0 .. Len(bytes) : Q[L - m] # P[L - m]}
  <1>6. T = {}
    <2> SUFFICES ASSUME T # {} PROVE FALSE
      OBVIOUS
    <2>1. T \in SUBSET Nat
      BY <1>1
    <2>2. PICK n \in T : \A m \in T : n <= m
      <3> HIDE DEF T
      <3> QED
        BY <2>1, LeastNumber
    <2> DEFINE k == L - n
    <2>3. n \in 0 .. Len(bytes) /\ k \in 1 .. Len(bytes) + 1 /\ k \in 1 .. L /\ Q[k] # P[k]
      BY <1>1, <2>2
    <2>4. ASSUME NEW j \in k + 1 .. Len(bytes) + 1
          PROVE  P[j] \in Passed /\ Q[j] = P[j]
      <3>1. L - j \in 0 .. Len(bytes) /\ ~(n <= L - j) /\ L - (L - j) = j /\ j \in 1 .. L
        BY <1>1, <2>3
      <3>2. ~(L - j \in T)
        BY <2>2, <3>1
      <3> QED
        BY <1>2, <3>1, <3>2
    <2> HIDE DEF k
    <2>5. PassStep(bytes, Q, k) = PassStep(bytes, P, k)
      BY <2>3, <2>4, PassStepIs
    <2> QED
      BY <1>4, <1>5, <2>3, <2>5
  <1>7. \A k \in 1 .. L : Q[k] = P[k]
    <2> SUFFICES ASSUME NEW k \in 1 .. L PROVE Q[k] = P[k]
      OBVIOUS
    <2>1. L - k \in 0 .. Len(bytes) /\ L - (L - k) = k
      BY <1>1
    <2> QED
      BY <1>6, <2>1
  <1>8. Q \in [1 .. L -> Passed]
    BY <1>2, <1>4, <1>7
  <1> QED
    BY <1>4, <1>8 DEF Q

\* What a pass over the bytes l[s + 1 .. e] comes to from byte g + 1 on, where the
\* bytes as far as f are enough for a verdict.
PassGoesOn(l, s, g, f, e) ==
    LET b == SubSeq(l, g + 1, f)
        P == PassOver(SubSeq(l, s + 1, e))
        n == ReadRtuFrame(b).length
    IN /\ P \in [1 .. e - s + 1 -> Passed]
       /\ ReadRtuFrame(b).found =>
             /\ g + n <= f
             /\ P[g + n - s + 1] \in Passed
             /\ P[g - s + 1] = [P[g + n - s + 1] EXCEPT !.found = <<b[1].frame>> \o @]
       /\ ~ReadRtuFrame(b).found /\ ~ReadRtuFrame(b).incomplete =>
             /\ g + 1 <= f
             /\ P[g + 1 - s + 1] \in Passed
             /\ P[g - s + 1] = [P[g + 1 - s + 1] EXCEPT !.dropped = @ + 1]
       /\ ReadRtuFrame(b).incomplete /\ e = f =>
             P[g - s + 1] = [found |-> <<>>, dropped |-> 0, held |-> b]

LEMMA PassMoves ==
    ASSUME NEW l \in Seq(Byte), NEW s \in Nat, NEW g \in Nat, NEW f \in Nat, NEW e \in Nat,
           s <= g, g <= f, f <= e, e <= Len(l)
    PROVE  PassGoesOn(l, s, g, f, e)
  <1> SUFFICES ASSUME NEW b, b = SubSeq(l, g + 1, f),
                      NEW P, P = PassOver(SubSeq(l, s + 1, e))
               PROVE  /\ P \in [1 .. e - s + 1 -> Passed]
                      /\ ReadRtuFrame(b).found =>
                            /\ g + ReadRtuFrame(b).length <= f
                            /\ P[g + ReadRtuFrame(b).length - s + 1] \in Passed
                            /\ P[g - s + 1] = [P[g + ReadRtuFrame(b).length - s + 1]
                                                  EXCEPT !.found = <<b[1].frame>> \o @]
                      /\ ~ReadRtuFrame(b).found /\ ~ReadRtuFrame(b).incomplete =>
                            /\ g + 1 <= f
                            /\ P[g + 1 - s + 1] \in Passed
                            /\ P[g - s + 1] = [P[g + 1 - s + 1] EXCEPT !.dropped = @ + 1]
                      /\ ReadRtuFrame(b).incomplete /\ e = f =>
                            P[g - s + 1] = [found |-> <<>>, dropped |-> 0, held |-> b]
    BY DEF PassGoesOn
  <1> DEFINE p == SubSeq(l, s + 1, e)
             k == g - s + 1
             c == From(p, k)
  <1>1. p \in Seq(Byte) /\ Len(p) = e - s
    <2>1. s <= e
      OBVIOUS
    <2> QED
      BY <2>1, LinePart
  <1>2. b \in Seq(Byte) /\ Len(b) = f - g /\ \A j \in 1 .. f - g : b[j] = l[g + j]
    BY LinePart
  <1>3. P \in [1 .. e - s + 1 -> Passed] /\ \A j \in 1 .. e - s + 1 : P[j] = PassStep(p, P, j)
    <2> HIDE DEF p
    <2> QED
      BY <1>1, PassOverIs DEF p
  <1>4. k \in 1 .. e - s + 1 /\ g - s \in 0 .. e - s
    OBVIOUS
  <1>5. c = SubSeq(l, g + 1, e)
    <2>1. From(p, (g - s) + 1) = SubSeq(l, s + (g - s) + 1, e)
      <3> DEFINE n == g - s
      <3>1. s <= e /\ n \in 0 .. e - s
        OBVIOUS
      <3> HIDE DEF n
      <3>2. From(SubSeq(l, s + 1, e), n + 1) = SubSeq(l, s + n + 1, e)
        BY <3>1, DropFirst
      <3> QED
        BY <3>2 DEF n
    <2>2. s + (g - s) + 1 = g + 1
      OBVIOUS
    <2> QED
      BY <2>1, <2>2
  <1>6. Begins(b, c) /\ c \in Seq(Byte) /\ Len(c) = e - g
        /\ \A j \in 1 .. e - g : c[j] = l[g + j]
    <2>1. g <= e
      OBVIOUS
    <2>2. Begins(b, SubSeq(l, g + 1, e))
      BY AddNext
    <2>3. /\ SubSeq(l, g + 1, e) \in Seq(Byte) /\ Len(SubSeq(l, g + 1, e)) = e - g
          /\ \A j \in 1 .. e - g : SubSeq(l, g + 1, e)[j] = l[g + j]
      BY <2>1, LinePart
    <2> HIDE DEF c
    <2> QED
      BY <1>5, <2>2, <2>3
  <1>7. P[k] = PassStep(p, P, k)
    BY <1>3, <1>4
  <1> HIDE DEF c
  <1>8. ~ReadRtuFrame(b).incomplete => ReadRtuFrame(c) = ReadRtuFrame(b)
    BY <1>2, <1>6, VerdictStands
  <1>9. ASSUME ReadRtuFrame(b).found
        PROVE  /\ g + ReadRtuFrame(b).length <= f
               /\ P[g + ReadRtuFrame(b).length - s + 1] \in Passed
               /\ P[g - s + 1] = [P[g + ReadRtuFrame(b).length - s + 1]
                                     EXCEPT !.found = <<b[1].frame>> \o @]
    <2> DEFINE n == ReadRtuFrame(b).length
    <2>1. n \in Nat /\ n >= 1 /\ n <= Len(b)
      BY <1>2, <1>9, FoundIs
    <2>2. ReadRtuFrame(c).found /\ ReadRtuFrame(c).length = n
      BY <1>2, <1>8, <1>9, Verdicts
    <2>3. P[k] = [P[k + n] EXCEPT !.found = <<p[k].frame>> \o @]
      BY <1>7, <2>2 DEF PassStep, c
    <2> HIDE DEF n
    <2>4. g + n <= f /\ k + n = g + n - s + 1 /\ g + n - s + 1 \in 1 .. e - s + 1
          /\ 1 \in 1 .. f - g /\ k \in 1 .. e - s /\ s + k = g + 1
      BY <1>2, <2>1
    <2>5. p[k] = b[1]
      <3>1. s <= e
        OBVIOUS
      <3>2. p[k] = l[s + k]
        BY <2>4, <3>1, LinePart
      <3>3. b[1] = l[g + 1]
        BY <1>2, <2>4
      <3> QED
        BY <2>4, <3>2, <3>3
    <2>6. P[g + n - s + 1] \in Passed
      BY <1>3, <2>4
    <2> QED
      BY <2>3, <2>4, <2>5, <2>6 DEF n
  <1>10. ASSUME ~ReadRtuFrame(b).found, ~ReadRtuFrame(b).incomplete
         PROVE  /\ g + 1 <= f
                /\ P[g + 1 - s + 1] \in Passed
                /\ P[g - s + 1] = [P[g + 1 - s + 1] EXCEPT !.dropped = @ + 1]
    <2>1. Len(b) >= 1
      BY <1>2, <1>10, HasBytes
    <2>2. P[k] = [P[k + 1] EXCEPT !.dropped = @ + 1]
      BY <1>7, <1>8, <1>10 DEF PassStep, c
    <2>3. g + 1 <= f /\ k + 1 = g + 1 - s + 1 /\ g + 1 - s + 1 \in 1 .. e - s + 1
      BY <1>2, <2>1
    <2> QED
      BY <1>3, <2>2, <2>3
  <1>11. ASSUME ReadRtuFrame(b).incomplete, e = f
         PROVE  P[g - s + 1] = [found |-> <<>>, dropped |-> 0, held |-> b]
    <2>1. c = b
      BY <1>5, <1>11 DEF c
    <2>2. ~ReadRtuFrame(b).found
      BY <1>2, <1>11, Verdicts
    <2> QED
      BY <1>7, <1>11, <2>1, <2>2 DEF PassStep, c
  <1> QED
    BY <1>3, <1>9, <1>10, <1>11

-----------------------------------------------------------------------------
(* No frame is lost. *)

\* A frame of the line that begins among the bytes taken has been returned.
\* That it may not have arrived in full when it is taken apart is why this
\* speaks of the whole line: no byte of a frame is ever dropped on a verdict.
TakenInv ==
    \A i \in start + 1 .. Gone :
        WholeAt(line, i) => \E k \in 1 .. Len(found) : found[k] = line[i].frame

\* A frame that begins where the undecided bytes of a line do is what they
\* are found to be.
LEMMA LineHead ==
    ASSUME NEW l \in Seq(Byte), NEW g \in Nat, NEW f \in Nat, g < f, f <= Len(l),
           WholeAt(l, g + 1), ~ReadRtuFrame(SubSeq(l, g + 1, f)).incomplete
    PROVE  ReadRtuFrame(SubSeq(l, g + 1, f)).found
  <1> DEFINE b == SubSeq(l, g + 1, f)
             c == SubSeq(l, g + 1, Len(l))
  <1>1. g <= f /\ g <= Len(l) /\ Len(l) \in Nat /\ Len(l) <= Len(l)
    OBVIOUS
  <1>2. b \in Seq(Byte) /\ c \in Seq(Byte) /\ Len(c) = Len(l) - g
    BY <1>1, LinePart
  <1>3. Begins(b, c)
    BY <1>1, AddNext
  <1>4. WholeAt(c, 1)
    <2>1. g + 1 \in Nat \ {0} /\ 1 \in Nat \ {0} /\ g + 1 + 1 - 1 = g + 1
          /\ g + 1 + 1 - 1 <= Len(l)
      BY <1>1
    <2>2. WholeAt(c, 1) <=> /\ WholeAt(l, g + 1 + 1 - 1)
                            /\ g + 1 + 1 - 1 + l[g + 1 + 1 - 1].of - 1 <= Len(l)
      BY <1>1, <2>1, WholeInPart
    <2>3. g + 1 + l[g + 1].of - 1 <= Len(l)
      BY DEF WholeAt
    <2> QED
      BY <2>1, <2>2, <2>3
  <1>5. Len(c) >= 1
    BY <1>1, <1>2
  <1> HIDE DEF b, c
  <1>6. ReadRtuFrame(b).found
    <2>1. ~ReadRtuFrame(b).incomplete
      BY DEF b
    <2> QED
      BY <1>2, <1>3, <1>4, <1>5, <2>1, HeadIsFound
  <1> QED
    BY <1>6 DEF b

LEMMA TakenStep == HeldInv /\ TakenInv /\ [Next]_vars => TakenInv'
  <1> SUFFICES ASSUME HeldInv, TakenInv, [Next]_vars PROVE TakenInv'
    OBVIOUS
  <1>0. /\ line \in Seq(Byte) /\ Len(line) \in Nat /\ buffer \in Seq(Byte)
        /\ fed \in Nat /\ start \in Nat /\ fed <= Len(line) /\ start <= fed
        /\ Gone \in Nat /\ start <= Gone /\ Gone <= fed /\ Len(buffer) = fed - Gone
        /\ buffer = SubSeq(line, Gone + 1, fed)
        /\ found \in Seq(Nat)
        /\ \A k \in 1 .. fed - Gone : buffer[k] = line[Gone + k]
    BY HeldTypes
  <1>1. CASE Push \/ PushReturns \/ UNCHANGED vars
    <2>1. Gone' = Gone /\ UNCHANGED <<line, start, found>>
      BY <1>1, HeldMoves DEF Push, PushReturns, vars
    <2> QED
      BY <2>1 DEF TakenInv
  <1>2. CASE TakeFrame
    <2> DEFINE n == ReadRtuFrame(buffer).length
    <2>1. n \in Nat /\ 1 <= n /\ Gone + n <= fed /\ Gone' = Gone + n
      BY <1>2, HeldMoves
    <2>2. /\ buffer[1].frame \in Nat
          /\ \A k \in 1 .. n : buffer[k].frame = buffer[1].frame /\ buffer[k].pos = k
      BY <1>0, <1>2, FoundIs DEF TakeFrame
    <2>3. found' = Append(found, buffer[1].frame) /\ UNCHANGED <<line, start>>
      BY <1>2 DEF TakeFrame
    <2>4. /\ Len(found') = Len(found) + 1 /\ Len(found) \in Nat
          /\ \A k \in 1 .. Len(found) : found'[k] = found[k]
          /\ found'[Len(found) + 1] = buffer[1].frame
      <3> DEFINE a == buffer[1].frame
      <3>1. a \in Nat
        BY <2>2
      <3> HIDE DEF a
      <3>2. /\ Len(Append(found, a)) = Len(found) + 1
            /\ \A k \in 1 .. Len(found) : Append(found, a)[k] = found[k]
            /\ Append(found, a)[Len(found) + 1] = a
        BY <1>0, <3>1, AppendProperties
      <3>3. found' = Append(found, a) /\ Len(found) \in Nat
        BY <1>0, <2>3 DEF a
      <3> QED
        BY <3>2, <3>3 DEF a
    <2> HIDE DEF n
    <2>5. ASSUME NEW i \in start + 1 .. Gone + n, WholeAt(line, i)
          PROVE  \E k \in 1 .. Len(found') : found'[k] = line[i].frame
      <3>1. CASE i <= Gone
        <4>1. i \in start + 1 .. Gone
          BY <1>0, <3>1
        <4>2. PICK k \in 1 .. Len(found) : found[k] = line[i].frame
          BY <2>5, <4>1 DEF TakenInv
        <4>3. k \in 1 .. Len(found')
          BY <2>4, <4>2
        <4> QED
          BY <2>4, <4>2, <4>3
      <3>2. CASE ~(i <= Gone)
        <4>1. i - Gone \in 1 .. n /\ i - Gone \in 1 .. fed - Gone /\ Gone + (i - Gone) = i
          BY <1>0, <2>1, <3>2
        <4>2. line[i] = buffer[i - Gone]
          BY <1>0, <4>1
        <4>3. line[i].frame = buffer[1].frame
          BY <2>2, <4>1, <4>2
        <4>4. Len(found) + 1 \in 1 .. Len(found')
          BY <2>4
        <4> QED
          BY <2>4, <4>3, <4>4
      <3> QED
        BY <3>1, <3>2
    <2> QED
      BY <2>1, <2>3, <2>5 DEF TakenInv
  <1>3. CASE Discard
    <2>1. Gone + 1 <= fed /\ Gone' = Gone + 1 /\ UNCHANGED <<line, start, found>>
      BY <1>3, HeldMoves DEF Discard
    <2>2. ~WholeAt(line, Gone + 1)
      <3>1. Gone < fed
        BY <1>0, <2>1
      <3>2. ~ReadRtuFrame(buffer).found /\ ~ReadRtuFrame(buffer).incomplete
        BY <1>3 DEF Discard
      <3> QED
        BY <1>0, <3>1, <3>2, LineHead
    <2>3. \A i \in start + 1 .. Gone + 1 : i = Gone + 1 \/ i \in start + 1 .. Gone
      BY <1>0
    <2> QED
      BY <2>1, <2>2, <2>3 DEF TakenInv
  <1>5. CASE Reset
    <2>1. Gone' = fed /\ start' = fed
      BY <1>5, HeldMoves DEF Reset
    <2>2. start' + 1 .. Gone' = {}
      BY <1>0, <2>1
    <2> QED
      BY <2>2 DEF TakenInv
  <1> QED
    BY <1>1, <1>2, <1>3, <1>5 DEF Next

LEMMA TakenInit == Init => TakenInv
  <1> SUFFICES ASSUME Init PROVE TakenInv
    OBVIOUS
  <1>1. start = 0 /\ fed = 0 /\ Len(buffer) = 0
    BY DEF Init
  <1>2. start + 1 .. Gone = {}
    BY ONLY <1>1 DEF Gone
  <1> QED
    BY <1>2 DEF TakenInv

\* The splitter loses no frame: whatever noise surrounds a whole frame it can
\* size, and however the bytes were cut into pushes, the frame is returned by
\* _take() or still held.
THEOREM FramesComeOut == Spec => []NoFrameIsLost
  <1>1. HeldInv /\ TakenInv => NoFrameIsLost
    <2> SUFFICES ASSUME HeldInv, TakenInv, NEW f \in FramesIn(Pushed)
                 PROVE  \/ \E k \in 1 .. Len(found) : found[k] = f
                        \/ f \in FramesIn(buffer)
      BY DEF NoFrameIsLost
    <2>0. /\ line \in Seq(Byte) /\ Len(line) \in Nat /\ buffer \in Seq(Byte)
          /\ fed \in Nat /\ start \in Nat /\ fed <= Len(line) /\ start <= fed
          /\ Gone \in Nat /\ start <= Gone /\ Gone <= fed /\ Len(buffer) = fed - Gone
          /\ buffer = SubSeq(line, Gone + 1, fed)
      BY HeldTypes
    <2>1. PICK j \in 1 .. Len(Pushed) : WholeAt(Pushed, j) /\ f = Pushed[j].frame
      BY FramesAre
    <2> DEFINE i == start + j
    <2>2. Len(Pushed) = fed - start
      BY <2>0, LinePart DEF Pushed
    <2>3. i \in start + 1 .. fed /\ j \in Nat \ {0} /\ start + 1 + j - 1 = i
          /\ start + 1 + j - 1 <= fed /\ start + 1 \in Nat \ {0}
      BY <2>0, <2>2
    <2>4. WholeAt(line, i) /\ i + line[i].of - 1 <= fed /\ Pushed[j] = line[i]
      <3>1. /\ Pushed[j] = line[start + 1 + j - 1]
            /\ WholeAt(Pushed, j) <=>
                  /\ WholeAt(line, start + 1 + j - 1)
                  /\ start + 1 + j - 1 + line[start + 1 + j - 1].of - 1 <= fed
        BY <2>0, <2>3, WholeInPart DEF Pushed
      <3> HIDE DEF i
      <3> QED
        BY <2>1, <2>3, <3>1
    <2> HIDE DEF i
    <2>5. CASE i <= Gone
      <3>1. i \in start + 1 .. Gone
        BY <2>0, <2>3, <2>5
      <3> QED
        BY <2>1, <2>4, <3>1 DEF TakenInv
    <2>6. CASE ~(i <= Gone)
      <3> DEFINE k == i - Gone
      <3>1. k \in Nat \ {0} /\ Gone + 1 + k - 1 = i /\ Gone + 1 + k - 1 <= fed
            /\ Gone + 1 \in Nat \ {0} /\ k \in 1 .. Len(buffer)
        BY <2>0, <2>3, <2>6
      <3> HIDE DEF k
      <3>2. /\ SubSeq(line, Gone + 1, fed)[k] = line[Gone + 1 + k - 1]
            /\ WholeAt(SubSeq(line, Gone + 1, fed), k) <=>
                  /\ WholeAt(line, Gone + 1 + k - 1)
                  /\ Gone + 1 + k - 1 + line[Gone + 1 + k - 1].of - 1 <= fed
        BY <2>0, <3>1, WholeInPart
      <3>3. WholeAt(buffer, k) /\ buffer[k].frame = f
        BY <2>0, <2>1, <2>4, <3>1, <3>2
      <3> QED
        BY <3>1, <3>3, FramesAre
    <2> QED
      BY <2>5, <2>6
  <1> QED
    BY <1>1, HeldInit, HeldStep, TakenInit, TakenStep, PTL DEF Spec

-----------------------------------------------------------------------------
(* The cuts do not matter. *)

\* What has been found and dropped is what one pass over the bytes since the
\* last reset finds and drops before it comes to those held; and so it is for a
\* pass over these bytes and more of the line, which is what carries it
\* through the next push.
ScanInv ==
    \A e \in fed .. Len(line) :
        LET pass == PassOver(SubSeq(line, start + 1, e))
            rest == pass[Gone - start + 1]
        IN pass[1] = [found |-> found \o rest.found,
                      dropped |-> resyncs + rest.dropped,
                      held |-> rest.held]

LEMMA FoundNext ==
    ASSUME NEW s \in Seq(Nat), NEW t \in Seq(Nat), NEW a \in Nat
    PROVE  s \o (<<a>> \o t) = Append(s, a) \o t
  <1>1. <<a>> \in Seq(Nat)
    OBVIOUS
  <1>2. Append(s, a) = s \o <<a>>
    BY AppendIsConcat
  <1> QED
    BY SMTT(30), <1>1, <1>2, ConcatAssociative

\* Nothing has been taken: a pass comes to what it comes to.
LEMMA NothingTaken ==
    ASSUME NEW r \in Passed
    PROVE  r = [found |-> <<>> \o r.found, dropped |-> 0 + r.dropped, held |-> r.held]
  <1>1. <<>> \o r.found = r.found
    BY ConcatEmptySeq DEF Passed
  <1>2. 0 + r.dropped = r.dropped
    BY DEF Passed
  <1> QED
    BY <1>1, <1>2 DEF Passed

LEMMA FreshScan ==
    ASSUME NEW l \in Seq(Byte), NEW s \in Nat, NEW e \in Nat, s <= e, e <= Len(l)
    PROVE  LET pass == PassOver(SubSeq(l, s + 1, e))
           IN pass[1] = [found |-> <<>> \o pass[1].found,
                         dropped |-> 0 + pass[1].dropped,
                         held |-> pass[1].held]
  <1> DEFINE p == SubSeq(l, s + 1, e)
  <1>1. p \in Seq(Byte) /\ Len(p) = e - s
    BY LinePart
  <1>2. 1 \in 1 .. e - s + 1
    OBVIOUS
  <1> HIDE DEF p
  <1>3. PassOver(p) \in [1 .. Len(p) + 1 -> Passed]
    BY <1>1, PassOverIs
  <1>4. PassOver(p)[1] \in Passed
    BY <1>1, <1>2, <1>3
  <1>5. PassOver(p)[1] = [found |-> <<>> \o PassOver(p)[1].found,
                          dropped |-> 0 + PassOver(p)[1].dropped,
                          held |-> PassOver(p)[1].held]
    BY <1>4, NothingTaken
  <1> QED
    BY <1>5 DEF p

LEMMA ScanInit == Init => ScanInv
  <1> SUFFICES ASSUME Init PROVE ScanInv
    OBVIOUS
  <1>1. line \in Seq(Byte) /\ Len(line) \in Nat
    BY SplitterAssumption DEF Init
  <1>2. start = 0 /\ fed = 0 /\ Len(buffer) = 0
    BY DEF Init
  <1>3. Gone - start + 1 = 1
    BY ONLY <1>2 DEF Gone
  <1>4. ASSUME NEW e \in 0 .. Len(line)
        PROVE  LET pass == PassOver(SubSeq(line, 0 + 1, e))
               IN pass[1] = [found |-> <<>> \o pass[1].found,
                             dropped |-> 0 + pass[1].dropped,
                             held |-> pass[1].held]
    <2>1. e \in Nat /\ 0 \in Nat /\ 0 <= e /\ e <= Len(line)
      BY <1>1
    <2> QED
      BY <1>1, <2>1, FreshScan
  <1>5. found = <<>> /\ resyncs = 0 /\ start = 0 /\ fed = 0
    BY DEF Init
  <1> QED
    BY <1>3, <1>4, <1>5 DEF ScanInv

LEMMA ScanStep == HeldInv /\ HeldInv' /\ ScanInv /\ [Next]_vars => ScanInv'
  <1> SUFFICES ASSUME HeldInv, HeldInv', ScanInv, [Next]_vars PROVE ScanInv'
    OBVIOUS
  <1>0. /\ line \in Seq(Byte) /\ Len(line) \in Nat /\ buffer \in Seq(Byte)
        /\ fed \in Nat /\ start \in Nat /\ fed <= Len(line) /\ start <= fed
        /\ Gone \in Nat /\ start <= Gone /\ Gone <= fed /\ Len(buffer) = fed - Gone
        /\ buffer = SubSeq(line, Gone + 1, fed)
        /\ found \in Seq(Nat) /\ resyncs \in Nat
    BY HeldTypes
  <1>a. ASSUME NEW e \in fed .. Len(line)
        PROVE  LET P == PassOver(SubSeq(line, start + 1, e))
               IN /\ ReadRtuFrame(buffer).found =>
                        /\ P[Gone + ReadRtuFrame(buffer).length - start + 1] \in Passed
                        /\ P[Gone - start + 1] =
                              [P[Gone + ReadRtuFrame(buffer).length - start + 1]
                                  EXCEPT !.found = <<buffer[1].frame>> \o @]
                  /\ ~ReadRtuFrame(buffer).found /\ ~ReadRtuFrame(buffer).incomplete =>
                        /\ P[Gone + 1 - start + 1] \in Passed
                        /\ P[Gone - start + 1] = [P[Gone + 1 - start + 1] EXCEPT !.dropped = @ + 1]
    <2>1. e \in Nat /\ fed <= e /\ e <= Len(line)
      BY <1>0
    <2>2. PassGoesOn(line, start, Gone, fed, e)
      BY <1>0, <2>1, PassMoves
    <2> QED
      BY <1>0, <2>2 DEF PassGoesOn
  <1>b. ASSUME NEW e \in fed .. Len(line)
        PROVE  LET P == PassOver(SubSeq(line, start + 1, e))
               IN P[1] = [found |-> found \o P[Gone - start + 1].found,
                          dropped |-> resyncs + P[Gone - start + 1].dropped,
                          held |-> P[Gone - start + 1].held]
    BY DEF ScanInv
  <1>1. CASE Push \/ PushReturns \/ UNCHANGED vars
    <2>1. Gone' = Gone /\ UNCHANGED <<line, start, found, resyncs>>
      BY <1>1, HeldMoves DEF Push, PushReturns, vars
    <2>2. fed' .. Len(line) \subseteq fed .. Len(line)
      <3>1. fed' \in Nat /\ fed <= fed'
        BY <1>0, <1>1, HeldMoves DEF PushReturns, vars
      <3> QED
        BY <1>0, <3>1
    <2> QED
      BY <2>1, <2>2 DEF ScanInv
  <1>2. CASE TakeFrame
    <2> DEFINE n == ReadRtuFrame(buffer).length
               a == buffer[1].frame
    <2>1. Gone' = Gone + n
      BY <1>2, HeldMoves
    <2>2. ReadRtuFrame(buffer).found /\ found' = Append(found, a)
          /\ UNCHANGED <<line, start, fed, resyncs>>
      BY <1>2 DEF TakeFrame
    <2>3. a \in Nat
      BY <1>0, <2>2, FoundIs
    <2>4. ASSUME NEW e \in fed .. Len(line)
          PROVE  LET P == PassOver(SubSeq(line, start + 1, e))
                 IN P[1] = [found |-> found' \o P[Gone' - start + 1].found,
                            dropped |-> resyncs + P[Gone' - start + 1].dropped,
                            held |-> P[Gone' - start + 1].held]
      <3> DEFINE P == PassOver(SubSeq(line, start + 1, e))
                 r == P[Gone + n - start + 1]
                 q == P[Gone - start + 1]
      <3>1. r \in Passed /\ q = [r EXCEPT !.found = <<a>> \o @]
        BY <1>a, <2>2
      <3>2. P[1] = [found |-> found \o q.found,
                    dropped |-> resyncs + q.dropped, held |-> q.held]
        BY <1>b
      <3>3. r = P[Gone' - start + 1]
        <4>1. Gone' - start + 1 = Gone + n - start + 1
          <5>1. n \in Nat /\ Gone' = Gone + n
            BY <1>2, HeldMoves
          <5> HIDE DEF n
          <5> QED
            BY <1>0, <5>1
        <4> QED
          BY <4>1, Zenon
      <3> HIDE DEF r, q, a, P
      <3>4. q.found = <<a>> \o r.found /\ q.dropped = r.dropped /\ q.held = r.held
        BY <3>1 DEF Passed
      <3>5. found \o (<<a>> \o r.found) = Append(found, a) \o r.found
        BY <1>0, <2>3, <3>1, FoundNext DEF Passed
      <3>6. P[1] = [found |-> found' \o r.found,
                    dropped |-> resyncs + r.dropped, held |-> r.held]
        BY <2>2, <3>2, <3>4, <3>5 DEF a
      <3> QED
        BY <3>3, <3>6 DEF P
    <2> QED
      BY <2>2, <2>4 DEF ScanInv
  <1>3. CASE Discard
    <2>1. Gone' = Gone + 1
      BY <1>3, HeldMoves
    <2>2. /\ ~ReadRtuFrame(buffer).found /\ ~ReadRtuFrame(buffer).incomplete
          /\ resyncs' = resyncs + 1
          /\ UNCHANGED <<line, start, fed, found>>
      BY <1>3 DEF Discard
    <2>4. ASSUME NEW e \in fed .. Len(line)
          PROVE  LET P == PassOver(SubSeq(line, start + 1, e))
                 IN P[1] = [found |-> found \o P[Gone' - start + 1].found,
                            dropped |-> resyncs' + P[Gone' - start + 1].dropped,
                            held |-> P[Gone' - start + 1].held]
      <3> DEFINE P == PassOver(SubSeq(line, start + 1, e))
                 r == P[Gone + 1 - start + 1]
                 q == P[Gone - start + 1]
      <3>1. r \in Passed /\ q = [r EXCEPT !.dropped = @ + 1]
        BY <1>a, <2>2
      <3>2. P[1] = [found |-> found \o q.found,
                    dropped |-> resyncs + q.dropped, held |-> q.held]
        BY <1>b
      <3>3. r = P[Gone' - start + 1]
        <4>1. Gone' - start + 1 = Gone + 1 - start + 1
          BY <1>0, <2>1
        <4> QED
          BY <4>1, Zenon
      <3> HIDE DEF r, q, P
      <3>4. q.found = r.found /\ q.dropped = r.dropped + 1 /\ q.held = r.held
        BY <3>1 DEF Passed
      <3>5. resyncs + (r.dropped + 1) = (resyncs + 1) + r.dropped
        <4>1. r.dropped \in Nat /\ resyncs \in Nat
          BY <1>0, <3>1 DEF Passed
        <4> QED
          BY ONLY <4>1
      <3>6. P[1] = [found |-> found \o r.found,
                    dropped |-> resyncs' + r.dropped, held |-> r.held]
        BY <2>2, <3>2, <3>4, <3>5
      <3> QED
        BY <3>3, <3>6 DEF P
    <2> QED
      BY <2>2, <2>4 DEF ScanInv
  <1>4. CASE Reset
    <2>1. Gone' = start' /\ found' = <<>> /\ resyncs' = 0
      BY <1>4, HeldMoves DEF Reset
    <2>2. UNCHANGED <<line, fed>> /\ start' = fed /\ Gone' - start' + 1 = 1
      BY <1>0, <1>4, <2>1 DEF Reset
    <2>3. ASSUME NEW e \in fed .. Len(line)
          PROVE  LET after == PassOver(SubSeq(line, fed + 1, e))
                 IN after[1] = [found |-> <<>> \o after[1].found,
                                dropped |-> 0 + after[1].dropped,
                                held |-> after[1].held]
      <3>1. e \in Nat /\ fed <= e /\ e <= Len(line)
        BY <1>0
      <3> QED
        BY <1>0, <3>1, FreshScan
    <2> QED
      BY <2>1, <2>2, <2>3 DEF ScanInv
  <1> QED
    BY <1>1, <1>2, <1>3, <1>4 DEF Next

\* Reading in pieces is invisible: whatever sizes the bytes since the last reset
\* were pushed in, push() has returned the frames, counted the bytes dropped and
\* kept the bytes that one push of them all would have.
THEOREM PiecesAreInvisible == Spec => []CutsDoNotMatter
  <1>1. HeldInv /\ ScanInv => CutsDoNotMatter
    <2> SUFFICES ASSUME HeldInv, ScanInv, ~taking
                 PROVE  /\ found = OnePass.found
                        /\ resyncs = OnePass.dropped
                        /\ buffer = OnePass.held
      BY DEF CutsDoNotMatter
    <2>1. /\ line \in Seq(Byte) /\ Len(line) \in Nat /\ buffer \in Seq(Byte)
          /\ fed \in Nat /\ start \in Nat /\ fed <= Len(line) /\ start <= fed
          /\ Gone \in Nat /\ start <= Gone /\ Gone <= fed
          /\ buffer = SubSeq(line, Gone + 1, fed)
          /\ found \in Seq(Nat) /\ resyncs \in Nat
      BY HeldTypes
    <2> DEFINE pass == PassOver(SubSeq(line, start + 1, fed))
    <2>2. pass[Gone - start + 1] = [found |-> <<>>, dropped |-> 0, held |-> buffer]
      <3>1. ReadRtuFrame(buffer).incomplete /\ fed <= fed
        BY <2>1 DEF HeldInv
      <3>2. PassGoesOn(line, start, Gone, fed, fed)
        BY <2>1, <3>1, PassMoves
      <3> QED
        BY <2>1, <3>1, <3>2 DEF PassGoesOn
    <2>3. pass[1] = [found |-> found \o pass[Gone - start + 1].found,
                     dropped |-> resyncs + pass[Gone - start + 1].dropped,
                     held |-> pass[Gone - start + 1].held]
      <3>1. fed \in fed .. Len(line)
        BY <2>1
      <3> QED
        BY <3>1 DEF ScanInv
    <2>4. OnePass = pass[1]
      BY DEF OnePass, Pushed
    <2> HIDE DEF pass
    <2>5. /\ pass[1].found = found \o <<>>
          /\ pass[1].dropped = resyncs + 0
          /\ pass[1].held = buffer
      BY <2>2, <2>3
    <2>6. found \o <<>> = found /\ resyncs + 0 = resyncs
      BY <2>1, ConcatEmptySeq
    <2> QED
      BY <2>4, <2>5, <2>6
  <1> QED
    BY <1>1, HeldInit, HeldStep, ScanInit, ScanStep, PTL DEF Spec

=============================================================================
