----------------------------- MODULE StreamProof -----------------------------
(***************************************************************************)
(* What module Stream guarantees for every number of threads and packets:  *)
(* its invariants first, and then that it implements module Channel.       *)
(***************************************************************************)
EXTENDS Stream, SequenceTheorems, TLAPS

ByteAt(m, p) == [msg |-> m, pos |-> p]

\* Fragment f is a part of message m, from where it begins on.
PartOf(f, m) ==
    /\ f # <<>>
    /\ f[1].pos \in Nat \ {0}
    /\ \A k \in 1 .. Len(f) : f[k] = ByteAt(m, f[1].pos + k - 1)

\* The fragments F are parts of message m, each going on where the one before
\* it ends, up to its last byte.
Tiles(F, m, last) ==
    \A i \in 1 .. Len(F) :
        /\ PartOf(F[i], m)
        /\ F[i][1].pos + Len(F[i]) - 1 <= last
        /\ i = Len(F) => F[i][1].pos + Len(F[i]) - 1 = last
        /\ i < Len(F) => F[i + 1][1].pos = F[i][1].pos + Len(F[i])

\* A packet as it is serialized.
LEMMA SerializedIs ==
    ASSUME NEW m \in Nat \ {0}, NEW p \in Packets
    PROVE  /\ Serialized(m, p) \in Seq(Byte)
           /\ Len(Serialized(m, p)) = HeaderSize + PduLength[p]
           /\ HeaderSize + PduLength[p] \in Nat \ {0}
           /\ PduLength[p] \in Nat
           /\ \A k \in 1 .. HeaderSize + PduLength[p] :
                 Serialized(m, p)[k] = [msg |-> m, pos |-> k]
  <1>1. PduLength[p] \in Nat /\ HeaderSize + PduLength[p] \in Nat \ {0}
    BY StreamAssumption, ElementOfSeq DEF Packets
  <1>2. \A k \in 1 .. HeaderSize + PduLength[p] : [msg |-> m, pos |-> k] \in Byte
    BY <1>1 DEF Byte
  <1>3. Serialized(m, p) \in [1 .. HeaderSize + PduLength[p] -> Byte]
    BY <1>2 DEF Serialized
  <1>4. /\ Serialized(m, p) \in Seq(Byte)
        /\ Len(Serialized(m, p)) = HeaderSize + PduLength[p]
    BY <1>1, <1>3, SeqDef, LenProperties
  <1> QED
    BY <1>1, <1>4 DEF Serialized

\* Products the solver does not find by itself.
LEMMA OneMore ==
    ASSUME NEW a \in Nat, NEW b \in Nat
    PROVE  a * b \in Nat /\ (a + 1) * b = a * b + b
  OBVIOUS

\* The pieces of the PDU are not empty and cover it: where each begins, and
\* that the last one ends where the PDU does.
LEMMA PieceBounds ==
    ASSUME NEW L \in Nat, NEW size \in Nat \ {0}
    PROVE  /\ (L + size - 1) \div size \in Nat
           /\ \A k \in 1 .. (L + size - 1) \div size :
                 /\ (k - 1) * size \in Nat /\ k * size \in Nat
                 /\ (k - 1) * size + 1 <= L
                 /\ k * size = (k - 1) * size + size
                 /\ (k < (L + size - 1) \div size => k * size < L)
                 /\ (k = (L + size - 1) \div size => k * size >= L)
           /\ ((L + size - 1) \div size = 0) => L = 0
  <1> DEFINE n == L + size - 1
             q == n \div size
  <1>1. n \in Nat
    OBVIOUS
  <1>2. q \in Nat /\ q * size <= n /\ n < q * size + size
    <2> HIDE DEF n
    <2> QED BY <1>1
  <1> HIDE DEF q
  <1>3. ASSUME NEW k \in 1 .. q
        PROVE  /\ (k - 1) * size \in Nat /\ k * size \in Nat
               /\ (k - 1) * size + 1 <= L
               /\ k * size = (k - 1) * size + size
               /\ (k < q => k * size < L)
               /\ (k = q => k * size >= L)
    <2>1. k \in Nat /\ q - k \in Nat /\ k - 1 \in Nat
      BY <1>2
    <2>2. (k - 1) * size \in Nat /\ k * size \in Nat /\ k * size = (k - 1) * size + size
      BY <2>1
    <2>3. (q - k) * size \in Nat /\ q * size = (q - k) * size + k * size
      BY <2>1, <1>2
    <2>4. k < q => (q - k) * size >= size
      <3>1. SUFFICES ASSUME k < q PROVE (q - k) * size >= size
        OBVIOUS
      <3>2. q - k - 1 \in Nat
        BY <3>1, <2>1, <1>2
      <3>3. /\ (q - k - 1) * size \in Nat
            /\ (q - k - 1 + 1) * size = (q - k - 1) * size + size
        BY <3>2, OneMore
      <3>4. q - k - 1 + 1 = q - k
        BY <2>1, <1>2
      <3> QED BY <3>3, <3>4, <2>3
    <2>5. q * size \in Nat
      BY <1>2
    <2> HIDE DEF n
    <2>6. n = L + size - 1
      BY DEF n
    <2> QED BY <2>1, <2>2, <2>3, <2>4, <2>5, <2>6, <1>1, <1>2
  <1>4. q = 0 => L = 0
    BY <1>2
  <1> QED
    BY <1>2, <1>3, <1>4 DEF q

\* The bytes a to b of a message.
LEMMA Cut ==
    ASSUME NEW m \in Nat \ {0}, NEW f \in Seq(Byte), NEW o \in Nat,
           \A k \in 1 .. Len(f) : f[k] = ByteAt(m, o + k),
           NEW a \in 1 .. Len(f), NEW b \in a .. Len(f)
    PROVE  /\ SubSeq(f, a, b) \in Seq(Byte)
           /\ Len(SubSeq(f, a, b)) = b - a + 1
           /\ SubSeq(f, a, b)[1].pos = o + a
           /\ PartOf(SubSeq(f, a, b), m)
  <1> DEFINE g == SubSeq(f, a, b)
  <1>1. /\ Len(f) \in Nat /\ a \in Nat /\ b \in Nat /\ 1 <= a /\ a <= b /\ b <= Len(f)
        /\ \A i \in a .. b : f[i] \in Byte
    BY ElementOfSeq
  <1>2. /\ g \in Seq(Byte)
        /\ Len(g) = b - a + 1
        /\ \A k \in 1 .. b - a + 1 : g[k] = f[a + k - 1]
    BY <1>1, SubSeqProperties
  <1> HIDE DEF g
  <1>3. ASSUME NEW k \in 1 .. b - a + 1 PROVE g[k] = ByteAt(m, o + a + k - 1)
    <2>1. a + k - 1 \in 1 .. Len(f) /\ o + (a + k - 1) = o + a + k - 1
      BY <1>1
    <2> QED
      BY <1>2, <2>1
  <1>4. g[1].pos = o + a
    <2>1. 1 \in 1 .. b - a + 1 /\ o + a + 1 - 1 = o + a
      BY <1>1
    <2>2. g[1] = ByteAt(m, o + a)
      BY <1>3, <2>1
    <2> QED
      BY <2>2 DEF ByteAt
  <1>5. g # <<>>
    BY <1>1, <1>2
  <1>6. PartOf(g, m)
    BY <1>1, <1>2, <1>3, <1>4, <1>5 DEF PartOf
  <1> QED
    BY <1>2, <1>4, <1>6 DEF g

\* The same of the first bytes of a whole message.
LEMMA CutFront ==
    ASSUME NEW m \in Nat \ {0}, NEW f \in Seq(Byte),
           \A k \in 1 .. Len(f) : f[k] = ByteAt(m, k),
           NEW b \in 1 .. Len(f)
    PROVE  /\ SubSeq(f, 1, b) \in Seq(Byte) /\ Len(SubSeq(f, 1, b)) = b
           /\ SubSeq(f, 1, b)[1].pos = 1 /\ PartOf(SubSeq(f, 1, b), m)
  <1>1. Len(f) \in Nat /\ b \in Nat /\ 1 \in 1 .. Len(f)
    OBVIOUS
  <1>2. ASSUME NEW o \in Nat, o = 0, NEW a \in 1 .. Len(f), a = 1
        PROVE  /\ SubSeq(f, a, b) \in Seq(Byte) /\ Len(SubSeq(f, a, b)) = b - a + 1
               /\ SubSeq(f, a, b)[1].pos = o + a /\ PartOf(SubSeq(f, a, b), m)
    <2>1. \A k \in 1 .. Len(f) : f[k] = ByteAt(m, o + k)
      BY <1>1, <1>2
    <2>2. b \in a .. Len(f)
      BY <1>1, <1>2
    <2> QED
      BY <2>1, <2>2, Cut
  <1>3. /\ SubSeq(f, 1, b) \in Seq(Byte) /\ Len(SubSeq(f, 1, b)) = b - 1 + 1
        /\ SubSeq(f, 1, b)[1].pos = 0 + 1 /\ PartOf(SubSeq(f, 1, b), m)
    BY <1>1, <1>2
  <1> QED
    BY <1>1, <1>3

\* ModbusFragmenter.fragment() cuts a message up without losing, repeating or
\* moving a byte of it, for every size it accepts.
LEMMA FragmentsTile ==
    ASSUME NEW m \in Nat \ {0}, NEW p \in Packets, NEW size \in Nat
    PROVE  /\ Fragments(Serialized(m, p), size) \in Seq(Seq(Byte))
           /\ Fragments(Serialized(m, p), size) # <<>>
           /\ Fragments(Serialized(m, p), size)[1][1].pos = 1
           /\ Tiles(Fragments(Serialized(m, p), size), m, HeaderSize + PduLength[p])
  <1> DEFINE M == Serialized(m, p)
             N == HeaderSize + PduLength[p]
             L == PduLength[p]
             F == Fragments(M, size)
  <1>1. /\ M \in Seq(Byte) /\ Len(M) = N /\ L \in Nat
        /\ N \in Nat \ {0} /\ HeaderSize \in Nat \ {0} /\ N = HeaderSize + L
        /\ \A k \in 1 .. N : M[k] = ByteAt(m, k)
    BY SerializedIs, StreamAssumption DEF ByteAt
  <1> HIDE DEF M, N, L
  <1>2. CASE size = 0
    <2>1. F = <<M>> /\ Len(F) = 1 /\ F[1] = M /\ F \in Seq(Seq(Byte))
      BY <1>1, <1>2 DEF Fragments
    <2>2. M # <<>> /\ M[1].pos = 1
      BY <1>1 DEF ByteAt
    <2>3. PartOf(M, m)
      BY <1>1, <2>2 DEF PartOf
    <2>4. Tiles(F, m, N)
      BY SMTT(30), <1>1, <2>1, <2>2, <2>3 DEF Tiles
    <2> QED
      BY <2>1, <2>2, <2>4 DEF M, N
  <1>3. CASE size # 0
    <2> DEFINE h == SubSeq(M, 1, HeaderSize)
               rest == SubSeq(M, HeaderSize + 1, N)
               n == (L + size - 1) \div size
               P == Pieces(rest, size)
    <2>1. /\ h \in Seq(Byte) /\ Len(h) = HeaderSize /\ h[1].pos = 1
          /\ PartOf(h, m)
      <3>1. HeaderSize \in 1 .. Len(M) /\ \A k \in 1 .. Len(M) : M[k] = ByteAt(m, k)
        BY <1>1
      <3> QED
        BY <3>1, <1>1, CutFront
    <2>2. /\ rest \in Seq(Byte) /\ Len(rest) = L
          /\ \A k \in 1 .. L : rest[k] = ByteAt(m, HeaderSize + k)
      <3>1. \A i \in HeaderSize + 1 .. N : M[i] \in Byte
        BY <1>1, ElementOfSeq
      <3>2. /\ rest \in Seq(Byte)
            /\ Len(rest) = IF HeaderSize + 1 <= N THEN N - (HeaderSize + 1) + 1 ELSE 0
            /\ \A k \in 1 .. N - (HeaderSize + 1) + 1 :
                  rest[k] = M[HeaderSize + 1 + k - 1]
        BY <1>1, <3>1, SubSeqProperties
      <3> QED
        BY <1>1, <3>2
    <2> HIDE DEF h, rest
    <2> DEFINE cut(k) == k * size
               end(k) == IF k = n THEN L ELSE cut(k)
    <2>3. /\ n \in Nat
          /\ (n = 0) => L = 0
          /\ \A k \in 1 .. n :
                 /\ cut(k - 1) \in Nat /\ end(k) \in Nat
                 /\ cut(k - 1) + 1 <= end(k)
                 /\ end(k) <= L
                 /\ (k < n => end(k) = cut(k))
                 /\ (k = n => end(k) = L)
                 /\ Smaller(cut(k), L) = end(k)
      <3>1. /\ n \in Nat
            /\ (n = 0) => L = 0
            /\ \A k \in 1 .. n :
                   /\ cut(k - 1) \in Nat /\ cut(k) \in Nat
                   /\ cut(k - 1) + 1 <= L
                   /\ cut(k) = cut(k - 1) + size
                   /\ (k < n => cut(k) < L)
                   /\ (k = n => cut(k) >= L)
        BY <1>1, <1>3, PieceBounds
      <3> HIDE DEF n, cut
      <3> QED
        BY <1>1, <1>3, <3>1 DEF Smaller
    <2>4. Len(P) = n /\ \A k \in 1 .. n : P[k] = SubSeq(rest, cut(k - 1) + 1, end(k))
      <3>1. P = [k \in 1 .. n |-> SubSeq(rest, cut(k - 1) + 1, Smaller(cut(k), L))]
        BY <2>2 DEF Pieces
      <3> HIDE DEF n, P, end, cut
      <3>2. \A k \in 1 .. n : P[k] = SubSeq(rest, cut(k - 1) + 1, Smaller(cut(k), L))
        BY <3>1
      <3>3. P \in [1 .. n -> {P[k] : k \in 1 .. n}]
        BY <3>1
      <3>4. Len(P) = n
        BY <2>3, <3>3, SeqDef, LenProperties
      <3> QED
        BY <2>3, <3>2, <3>4
    <2>5. cut(0) = 0
      BY <1>3
    <2>6. P \in [1 .. n -> {P[k] : k \in 1 .. n}]
      BY <2>2 DEF Pieces
    <2> HIDE DEF P, n, cut, end
    <2>7. ASSUME NEW k \in 1 .. n
          PROVE  /\ P[k] \in Seq(Byte) /\ PartOf(P[k], m)
                 /\ Len(P[k]) = end(k) - cut(k - 1)
                 /\ P[k][1].pos = HeaderSize + cut(k - 1) + 1
      <3> DEFINE a == cut(k - 1) + 1
      <3>1. /\ a \in 1 .. Len(rest) /\ end(k) \in a .. Len(rest)
            /\ end(k) - a + 1 = end(k) - cut(k - 1)
            /\ HeaderSize + a = HeaderSize + cut(k - 1) + 1
        <4>1. /\ cut(k - 1) \in Nat /\ end(k) \in Nat
              /\ cut(k - 1) + 1 <= end(k) /\ end(k) <= L
          BY <2>3
        <4>2. L \in Nat /\ HeaderSize \in Nat /\ Len(rest) = L
          BY <1>1, <2>2
        <4> QED
          BY <4>1, <4>2
      <3>2. P[k] = SubSeq(rest, a, end(k))
        BY <2>4
      <3> HIDE DEF a
      <3>3. \A j \in 1 .. Len(rest) : rest[j] = ByteAt(m, HeaderSize + j)
        BY <2>2
      <3>4. HeaderSize \in Nat /\ rest \in Seq(Byte)
        BY <1>1, <2>2
      <3>5. /\ SubSeq(rest, a, end(k)) \in Seq(Byte)
            /\ Len(SubSeq(rest, a, end(k))) = end(k) - a + 1
            /\ SubSeq(rest, a, end(k))[1].pos = HeaderSize + a
            /\ PartOf(SubSeq(rest, a, end(k)), m)
        BY <3>1, <3>3, <3>4, Cut
      <3> QED
        BY <3>1, <3>2, <3>5
    <2>8. /\ F \in Seq(Seq(Byte)) /\ Len(F) = n + 1 /\ F[1] = h
          /\ \A k \in 1 .. n : F[k + 1] = P[k]
      <3>1. F = <<h>> \o P
        BY <1>1, <1>3 DEF Fragments, h, rest, P
      <3>2. <<h>> \in Seq(Seq(Byte)) /\ Len(<<h>>) = 1 /\ <<h>>[1] = h
        BY <2>1
      <3>3. P \in Seq(Seq(Byte))
        <4>1. \A k \in 1 .. n : P[k] \in Seq(Byte)
          BY <2>7
        <4>2. P \in [1 .. n -> Seq(Byte)]
          BY <2>6, <4>1
        <4> QED
          BY <2>3, <4>2, SeqDef
      <3> HIDE DEF F
      <3>4. /\ F \in Seq(Seq(Byte))
            /\ Len(F) = 1 + n
            /\ \A i \in 1 .. 1 + n : F[i] = IF i <= 1 THEN <<h>>[i] ELSE P[i - 1]
        BY <3>1, <3>2, <2>4, <3>3, ConcatProperties
      <3>5. ASSUME NEW k \in 1 .. n PROVE F[k + 1] = P[k]
        <4>1. k + 1 \in 1 .. 1 + n /\ ~(k + 1 <= 1) /\ k + 1 - 1 = k
          BY <2>3
        <4> QED
          BY <3>4, <4>1
      <3> QED
        BY <2>3, <3>2, <3>4, <3>5
    <2> HIDE DEF F
    <2>9. ASSUME NEW i \in 1 .. Len(F)
          PROVE  /\ PartOf(F[i], m)
                 /\ F[i][1].pos + Len(F[i]) - 1 <= N
                 /\ i = Len(F) => F[i][1].pos + Len(F[i]) - 1 = N
                 /\ i < Len(F) => F[i + 1][1].pos = F[i][1].pos + Len(F[i])
      <3>1. CASE i = 1
        <4>1. PartOf(F[i], m) /\ F[i][1].pos = 1 /\ Len(F[i]) = HeaderSize
          BY <2>1, <2>8, <3>1
        <4>2. n > 0 => F[i + 1][1].pos = HeaderSize + 1
          <5>1. SUFFICES ASSUME n > 0 PROVE F[2][1].pos = HeaderSize + 1
            BY <3>1
          <5>2. 1 \in 1 .. n /\ 1 - 1 = 0 /\ 1 + 1 = 2
            BY <2>3, <5>1
          <5>3. F[2] = P[1]
            BY <2>8, <5>2
          <5>4. P[1][1].pos = HeaderSize + cut(1 - 1) + 1
            BY <2>7, <5>2
          <5> QED
            BY <1>1, <2>5, <5>2, <5>3, <5>4
        <4>3. n \in Nat /\ Len(F) = n + 1 /\ ((n = 0) => L = 0)
          BY <2>3, <2>8
        <4>4. (i = Len(F)) <=> (n = 0)
          BY <3>1, <4>3
        <4> QED
          BY <1>1, <3>1, <4>1, <4>2, <4>3, <4>4
      <3>2. ASSUME NEW k \in 1 .. n, i = k + 1
            PROVE  /\ PartOf(F[i], m)
                   /\ F[i][1].pos + Len(F[i]) - 1 <= N
                   /\ i = Len(F) => F[i][1].pos + Len(F[i]) - 1 = N
                   /\ i < Len(F) => F[i + 1][1].pos = F[i][1].pos + Len(F[i])
        <4>1. F[i] = P[k]
          BY <2>8, <3>2
        <4>2. /\ PartOf(F[i], m)
              /\ Len(F[i]) = end(k) - cut(k - 1)
              /\ F[i][1].pos = HeaderSize + cut(k - 1) + 1
          BY <2>7, <4>1
        <4>3. ASSUME k < n PROVE F[i + 1][1].pos = HeaderSize + cut(k) + 1
          <5>1. k + 1 \in 1 .. n /\ k + 1 - 1 = k
            BY <2>3, <4>3
          <5>2. F[k + 1 + 1] = P[k + 1] /\ P[k + 1][1].pos = HeaderSize + cut(k) + 1
            BY <2>7, <2>8, <5>1
          <5> QED
            BY <3>2, <5>2
        <4>4. /\ cut(k - 1) \in Nat /\ end(k) \in Nat /\ end(k) <= L
              /\ (k < n => end(k) = cut(k))
              /\ (k = n => end(k) = L)
          BY <2>3
        <4>5. k \in Nat /\ k <= n /\ n \in Nat /\ Len(F) = n + 1
          BY <2>3, <2>8
        <4>6. i = Len(F) <=> k = n
          BY <3>2, <4>5
        <4>7. F[i][1].pos + Len(F[i]) - 1 = HeaderSize + end(k)
          <5> HIDE DEF L, N
          <5> QED
            BY <1>1, <4>2, <4>4
        <4>8. F[i][1].pos + Len(F[i]) - 1 <= N
          BY <1>1, <4>4, <4>7
        <4>9. i < Len(F) => F[i + 1][1].pos = F[i][1].pos + Len(F[i])
          BY <1>1, <4>2, <4>3, <4>4, <4>5, <4>6
        <4> QED
          BY <1>1, <4>2, <4>4, <4>5, <4>6, <4>7, <4>8, <4>9
      <3>3. i # 1 => \E k \in 1 .. n : i = k + 1
        <4>1. i # 1 => i - 1 \in 1 .. n /\ i = i - 1 + 1
          BY <2>3, <2>8
        <4> QED
          BY <4>1
      <3> QED
        BY <3>1, <3>2, <3>3
    <2>10. Tiles(F, m, N)
      BY <2>9 DEF Tiles
    <2>11. F # <<>> /\ F[1][1].pos = 1
      BY <2>1, <2>3, <2>8
    <2> QED
      BY <2>8, <2>10, <2>11 DEF F, M, N
  <1> QED
    BY <1>1, <1>2, <1>3

-----------------------------------------------------------------------------
(* Types. *)

LEMMA WiderSeq ==
    ASSUME NEW S, NEW T, S \subseteq T, NEW q \in Seq(S)
    PROVE  q \in Seq(T)
  <1>1. /\ Len(q) \in Nat /\ q \in [1 .. Len(q) -> S]
    BY LenProperties
  <1>2. q \in [1 .. Len(q) -> T]
    BY <1>1
  <1> QED
    BY <1>1, <1>2, SeqDef

\* The bytes of a message carry its number, so what is found is one of those
\* sent.
LEMMA MessageOfType ==
    ASSUME TypeOK, NEW bytes
    PROVE  MessageOf(bytes) \in 0 .. Len(sent)
  <1>1. ASSUME NEW m \in 1 .. Len(sent), bytes = Serialized(m, sent[m])
        PROVE  bytes[1].msg \in 1 .. Len(sent)
    <2>1. sent[m] \in Packets /\ m \in Nat \ {0} /\ Len(sent) \in Nat
      BY ElementOfSeq DEF TypeOK
    <2>2. 1 \in 1 .. HeaderSize + PduLength[sent[m]]
      BY <2>1, SerializedIs
    <2>3. bytes[1] = [msg |-> m, pos |-> 1]
      BY <1>1, <2>1, <2>2, SerializedIs
    <2> QED
      BY <2>3
  <1>2. Len(sent) \in Nat
    BY DEF TypeOK
  <1> QED
    BY <1>1, <1>2 DEF MessageOf, Mangled

LEMMA DeclaredType ==
    ASSUME TypeOK, NEW bytes, NEW length \in Declared(bytes)
    PROVE  length \in Int
  <1>1. ASSUME NEW m \in 1 .. Len(sent) PROVE PduLength[sent[m]] \in Nat
    <2>1. sent[m] \in Packets
      BY ElementOfSeq DEF TypeOK
    <2> QED
      BY <2>1, SerializedIs
  <1>2. HeaderSize \in Nat
    BY StreamAssumption
  <1> QED
    BY <1>1, <1>2 DEF Declared

LEMMA TypeInit == Init => TypeOK
  <1> SUFFICES ASSUME Init PROVE TypeOK
    OBVIOUS
  <1>1. <<>> \in Seq(0 .. Len(sent)) /\ <<>> \in Seq(Byte) /\ <<>> \in Seq(Packets)
        /\ <<>> \in Seq(Seq(Byte))
    OBVIOUS
  <1>2. 0 \in 0 .. MaxRuns /\ 1 \in Nat \ {0}
    BY StreamAssumption
  <1>3. /\ spc \in [Senders -> {"idle", "acquire", "locked"}]
        /\ runs \in [Senders \cup Readers -> 0 .. MaxRuns]
        /\ lock \in Senders \cup {NoThread}
        /\ {sendFrag, frag, readFrag, rfrag} \subseteq FragSizes
        /\ {sendStop, readStop} \subseteq BOOLEAN
        /\ next \in [Senders -> Nat \ {0}]
    BY <1>2 DEF Init
  <1>4. /\ todo \in [Senders -> Seq(Seq(Byte))]
        /\ sent \in Seq(Packets)
        /\ wire \in Seq(Byte) /\ written \in Seq(Byte)
        /\ packets \in Seq(0 .. Len(sent))
    BY <1>1 DEF Init
  <1>5. /\ link \in {"up", "closed"}
        /\ rpc \in [Readers -> {"idle", "loop", "header", "pdu", "append"}]
        /\ buffer \in [Readers -> Seq(Byte)]
        /\ need \in [Readers -> Nat] /\ pdu \in [Readers -> Nat]
        /\ late \in [Readers -> Nat]
    BY <1>1 DEF Init
  <1> QED
    BY <1>3, <1>4, <1>5 DEF TypeOK

LEMMA TypeStep == TypeOK /\ [Next]_vars => TypeOK'
  <1> SUFFICES ASSUME TypeOK, [Next]_vars PROVE TypeOK'
    OBVIOUS
  <1> USE StreamAssumption DEF TypeOK
  <1>1. ASSUME NEW s \in Senders, SendRun(s) PROVE TypeOK'
    <2>1. runs' \in [Senders \cup Readers -> 0 .. MaxRuns]
      <3>1. s \in Senders \cup Readers /\ runs[s] + 1 \in 0 .. MaxRuns
        BY <1>1 DEF SendRun
      <3> QED
        BY <1>1, <3>1 DEF SendRun
    <2> QED
      BY <1>1, <2>1 DEF SendRun, readerVars
  <1>2. ASSUME NEW s \in Senders, SendLock(s) PROVE TypeOK'
    BY <1>2 DEF SendLock, readerVars
  <1>3. ASSUME NEW s \in Senders, SendPacket(s) PROVE TypeOK'
    <2>1. next[s] \in Packets /\ frag \in Nat /\ Len(sent) + 1 \in Nat \ {0}
      <3>1. frag \in FragSizes
        OBVIOUS
      <3> QED
        BY <1>3, <3>1 DEF SendPacket
    <2>2. Fragments(Serialized(Len(sent) + 1, next[s]), frag) \in Seq(Seq(Byte))
      BY <2>1, FragmentsTile
    <2>3. /\ sent' \in Seq(Packets) /\ Len(sent') = Len(sent) + 1
          /\ todo' \in [Senders -> Seq(Seq(Byte))]
          /\ next' \in [Senders -> Nat \ {0}]
      <3>1. todo' \in [Senders -> Seq(Seq(Byte))]
        BY <1>3, <2>2 DEF SendPacket
      <3>2. next' \in [Senders -> Nat \ {0}]
        BY SMTT(30), <1>3 DEF SendPacket
      <3> QED
        BY SMTT(30), <1>3, <2>1, <3>1, <3>2, AppendProperties DEF SendPacket
    <2>4. packets' \in Seq(0 .. Len(sent'))
      <3>1. 0 .. Len(sent) \subseteq 0 .. Len(sent')
        BY <2>3
      <3> QED
        BY <1>3, <3>1, WiderSeq DEF SendPacket, readerVars
    <2> QED
      BY <1>3, <2>3, <2>4 DEF SendPacket, readerVars
  <1>4. ASSUME NEW s \in Senders, SendFragment(s) PROVE TypeOK'
    <2>1. Head(todo[s]) \in Seq(Byte) /\ Tail(todo[s]) \in Seq(Seq(Byte))
      BY <1>4, HeadTailProperties DEF SendFragment
    <2>2. ASSUME NEW n \in 1 .. Len(Head(todo[s]))
          PROVE  /\ wire \o SubSeq(Head(todo[s]), 1, n) \in Seq(Byte)
                 /\ written \o SubSeq(Head(todo[s]), 1, n) \in Seq(Byte)
      <3>1. SubSeq(Head(todo[s]), 1, n) \in Seq(Byte)
        BY <2>1, ElementOfSeq, SubSeqProperties
      <3> QED
        BY <3>1, ConcatProperties
    <2>3. wire' \in Seq(Byte) /\ written' \in Seq(Byte)
      <3>1. PICK n \in 1 .. Len(Head(todo[s])) :
               /\ wire' = wire \o SubSeq(Head(todo[s]), 1, n)
               /\ written' = written \o SubSeq(Head(todo[s]), 1, n)
        BY <1>4 DEF SendFragment
      <3> QED
        BY <2>2, <3>1
    <2>4. todo' \in [Senders -> Seq(Seq(Byte))]
      BY <1>4, <2>1 DEF SendFragment
    <2> QED
      BY <1>4, <2>3, <2>4 DEF SendFragment, readerVars
  <1>5. ASSUME NEW s \in Senders, SendEnds(s) PROVE TypeOK'
    <2>1. todo' \in [Senders -> Seq(Seq(Byte))]
      <3>1. <<>> \in Seq(Seq(Byte))
        OBVIOUS
      <3> QED
        BY <1>5, <3>1 DEF SendEnds
    <2> QED
      BY <1>5, <2>1 DEF SendEnds, readerVars
  <1>6. ASSUME NEW size \in FragSizes, SendSetFrag(size) PROVE TypeOK'
    BY <1>6 DEF SendSetFrag, readerVars
  <1>7. ASSUME SendStop PROVE TypeOK'
    BY <1>7 DEF SendStop, readerVars
  <1>8. ASSUME Close PROVE TypeOK'
    BY <1>8 DEF Close, senderVars, readerVars
  <1>9. ASSUME NEW r \in Readers, ReadRun(r) PROVE TypeOK'
    <2>1. runs' \in [Senders \cup Readers -> 0 .. MaxRuns]
      <3>1. r \in Senders \cup Readers /\ runs[r] + 1 \in 0 .. MaxRuns
        BY SMTT(30), <1>9 DEF ReadRun
      <3> QED
        BY <1>9, <3>1 DEF ReadRun
    <2> QED
      BY <1>9, <2>1 DEF ReadRun, senderVars
  <1>10. ASSUME NEW r \in Readers, ReadLoop(r) PROVE TypeOK'
    <2>1. buffer' \in [Readers -> Seq(Byte)] /\ need' \in [Readers -> Nat]
      <3>1. <<>> \in Seq(Byte) /\ HeaderSize \in Nat
        OBVIOUS
      <3>2. buffer' = buffer \/ buffer' = [buffer EXCEPT ![r] = <<>>]
        BY <1>10 DEF ReadLoop
      <3>3. need' = need \/ need' = [need EXCEPT ![r] = HeaderSize]
        BY <1>10 DEF ReadLoop
      <3>4. buffer' \in [Readers -> Seq(Byte)]
        BY <3>1, <3>2
      <3>5. need' \in [Readers -> Nat]
        BY <3>1, <3>3
      <3> QED
        BY <3>4, <3>5
    <2> QED
      BY <1>10, <2>1 DEF ReadLoop, senderVars
  <1>11. ASSUME NEW r \in Readers, Recv(r) PROVE TypeOK'
    <2>1. ASSUME NEW n \in 1 .. Smaller(need[r], Len(wire))
          PROVE  /\ buffer[r] \o SubSeq(wire, 1, n) \in Seq(Byte)
                 /\ SubSeq(wire, n + 1, Len(wire)) \in Seq(Byte)
                 /\ need[r] - n \in Nat
      <3>1. n \in Nat /\ n <= need[r] /\ n <= Len(wire) /\ Len(wire) \in Nat
        BY DEF Smaller
      <3>2. \A i \in 1 .. Len(wire) : wire[i] \in Byte
        BY ElementOfSeq
      <3>3. SubSeq(wire, 1, n) \in Seq(Byte) /\ SubSeq(wire, n + 1, Len(wire)) \in Seq(Byte)
        BY SMTT(30), <3>1, <3>2, SubSeqProperties
      <3>4. buffer[r] \o SubSeq(wire, 1, n) \in Seq(Byte)
        BY <3>3, ConcatProperties
      <3> QED
        BY SMTT(30), <3>1, <3>3, <3>4
    <2>2. /\ buffer' \in [Readers -> Seq(Byte)] /\ wire' \in Seq(Byte)
          /\ need' \in [Readers -> Nat]
      <3>1. PICK n \in 1 .. Smaller(need[r], Len(wire)) :
               /\ buffer' = [buffer EXCEPT ![r] = @ \o SubSeq(wire, 1, n)]
               /\ wire' = SubSeq(wire, n + 1, Len(wire))
               /\ need' = [need EXCEPT ![r] = @ - n]
        BY <1>11 DEF Recv
      <3> QED
        BY <2>1, <3>1
    <2> QED
      BY <1>11, <2>2 DEF Recv, senderVars
  <1>12. ASSUME NEW r \in Readers, ReadHeader(r) PROVE TypeOK'
    <2>1. \A length \in Declared(buffer[r]) : length \in Int
      BY DeclaredType
    <2>2. rpc' \in [Readers -> {"idle", "loop", "header", "pdu", "append"}]
      BY ZenonT(40), <1>12 DEF ReadHeader
    <2>3. pdu' \in [Readers -> Nat]
      <3>1. pdu' = pdu \/ \E length \in Nat : pdu' = [pdu EXCEPT ![r] = length]
        BY <1>12, <2>1 DEF ReadHeader
      <3> QED
        BY <3>1
    <2> QED
      BY <1>12, <2>2, <2>3 DEF ReadHeader, senderVars
  <1>13. ASSUME NEW r \in Readers, ReadChunk(r) PROVE TypeOK'
    <2>1. rfrag \in Int /\ Chunk(pdu[r]) \in Nat /\ pdu[r] - Chunk(pdu[r]) \in Nat
      <3>1. rfrag \in FragSizes /\ pdu[r] \in Nat
        OBVIOUS
      <3>2. rfrag \in Nat
        BY <1>13, <3>1 DEF ReadChunk
      <3> QED
        BY SMTT(30), <3>1, <3>2 DEF Chunk, Smaller
    <2>2. pdu' \in [Readers -> Nat] /\ need' \in [Readers -> Nat]
      BY <1>13, <2>1 DEF ReadChunk
    <2> QED
      BY <1>13, <2>2 DEF ReadChunk, senderVars
  <1>14. ASSUME NEW r \in Readers, ReadMessage(r) PROVE TypeOK'
    BY <1>14 DEF ReadMessage, senderVars
  <1>15. ASSUME NEW r \in Readers, ReadAppend(r) PROVE TypeOK'
    <2>1. packets' \in Seq(0 .. Len(sent'))
      <3>1. MessageOf(buffer[r]) \in 0 .. Len(sent)
        BY MessageOfType
      <3>2. Append(packets, MessageOf(buffer[r])) \in Seq(0 .. Len(sent))
        BY <3>1, AppendProperties
      <3> QED
        BY <1>15, <3>2 DEF ReadAppend, senderVars
    <2>2. late' \in [Readers -> Nat]
      BY SMTT(30), <1>15 DEF ReadAppend
    <2>3. rpc' \in [Readers -> {"idle", "loop", "header", "pdu", "append"}]
      BY <1>15 DEF ReadAppend
    <2> QED
      BY <1>15, <2>1, <2>2, <2>3 DEF ReadAppend, senderVars
  <1>16. ASSUME NEW r \in Readers, ReadEnds(r) PROVE TypeOK'
    BY <1>16 DEF ReadEnds, senderVars
  <1>17. ASSUME NEW size \in FragSizes, ReadSetFrag(size) PROVE TypeOK'
    BY <1>17 DEF ReadSetFrag, senderVars
  <1>18. ASSUME ReadStop PROVE TypeOK'
    BY <1>18 DEF ReadStop, senderVars
  <1>19. CASE UNCHANGED vars
    BY <1>19 DEF vars, senderVars, readerVars
  <1> QED
    BY <1>1, <1>2, <1>3, <1>4, <1>5, <1>6, <1>7, <1>8, <1>9, <1>10, <1>11,
       <1>12, <1>13, <1>14, <1>15, <1>16, <1>17, <1>18, <1>19
    DEF Next, Sending, Reading, SendReturns, SendRaises

\* The types of the stream's state hold of every reachable state.
THEOREM StreamTypes == Spec => []TypeOK
  BY TypeInit, TypeStep, PTL DEF Spec

-----------------------------------------------------------------------------
(* The sender's lock, and what is sent under it. *)

\* A thread in the middle of run_once() is the one with the lock, and only it
\* has fragments left to send.
Holding == \A s \in Senders : /\ spc[s] = "locked" <=> lock = s
                              /\ spc[s] # "locked" => todo[s] = <<>>

\* The last packet sent is the one before the next of the thread that has the
\* lock, once that has sent one.
Continues == \A s \in Senders :
                 spc[s] = "locked" /\ next[s] # 1 =>
                     sent # <<>> /\ sent[Len(sent)] = next[s] - 1

LockInv == Holding /\ Continues /\ RunsDoNotMix

LEMMA LockInit == Init => LockInv
  BY StreamAssumption DEF Init, LockInv, Holding, Continues, RunsDoNotMix

LEMMA LockStep == TypeOK /\ LockInv /\ [Next]_vars => LockInv'
  <1> SUFFICES ASSUME TypeOK, LockInv, [Next]_vars PROVE LockInv'
    OBVIOUS
  <1> USE DEF LockInv
  <1>1. ASSUME NEW s \in Senders, SendRun(s) PROVE LockInv'
    BY <1>1 DEF SendRun, Holding, Continues, RunsDoNotMix, TypeOK
  <1>2. ASSUME NEW s \in Senders, SendLock(s) PROVE LockInv'
    <2>1. \A t \in Senders : spc[t] # "locked" /\ t # NoThread
      BY <1>2, StreamAssumption DEF SendLock, Holding
    <2>2. \A t \in Senders : /\ (spc'[t] = "locked") <=> (t = s)
                             /\ t = s => next'[t] = 1
      BY <1>2, <2>1 DEF SendLock, TypeOK
    <2> QED
      BY <1>2, <2>1, <2>2 DEF SendLock, Holding, Continues, RunsDoNotMix
  <1>3. ASSUME NEW s \in Senders, SendPacket(s) PROVE LockInv'
    <2>1. /\ sent' = Append(sent, next[s]) /\ sent \in Seq(Packets)
          /\ next[s] \in Packets /\ next[s] \in Nat /\ Len(sent) \in Nat
          /\ lock = s /\ spc[s] = "locked"
      BY <1>3 DEF SendPacket, Holding, TypeOK
    <2>2. /\ Len(sent') = Len(sent) + 1 /\ sent' # <<>>
          /\ sent'[Len(sent) + 1] = next[s]
          /\ \A k \in 1 .. Len(sent) : sent'[k] = sent[k]
      BY <2>1, AppendProperties
    <2>3. \A t \in Senders : spc[t] = "locked" <=> t = s
      BY <2>1 DEF Holding
    <2>4. Holding'
      BY <1>3, <2>3 DEF SendPacket, Holding, TypeOK
    <2>5. next'[s] = next[s] + 1 /\ spc' = spc
      BY <1>3 DEF SendPacket, TypeOK
    <2>6. Continues'
      BY <2>1, <2>2, <2>3, <2>5 DEF Continues
    <2>7. RunsDoNotMix'
      <3>1. ASSUME NEW k \in 1 .. Len(sent') - 1
            PROVE  sent'[k + 1] \in {sent'[k] + 1, 1}
        <4>1. CASE k = Len(sent)
          <5>1. k \in 1 .. Len(sent) /\ k + 1 = Len(sent) + 1 /\ sent # <<>>
            BY <2>1, <2>2, <4>1
          <5>2. sent[k] \in Nat
            BY <2>1, <5>1, ElementOfSeq DEF Packets
          <5>3. sent[k] = next[s] - 1 \/ next[s] = 1
            BY <2>1, <4>1 DEF Continues
          <5> QED
            BY <2>1, <2>2, <5>1, <5>2, <5>3
        <4>2. CASE k # Len(sent)
          <5>1. k \in 1 .. Len(sent) - 1 /\ k \in 1 .. Len(sent) /\ k + 1 \in 1 .. Len(sent)
            BY <2>1, <2>2, <4>2
          <5> QED
            BY <2>2, <5>1 DEF RunsDoNotMix
        <4> QED
          BY <4>1, <4>2
      <3> QED
        BY <3>1 DEF RunsDoNotMix
    <2> QED
      BY <2>4, <2>6, <2>7
  <1>4. ASSUME NEW s \in Senders, SendFragment(s) PROVE LockInv'
    BY <1>4 DEF SendFragment, Holding, Continues, RunsDoNotMix, TypeOK
  <1>5. ASSUME NEW s \in Senders, SendEnds(s) PROVE LockInv'
    <2>1. \A t \in Senders : spc'[t] # "locked" /\ todo'[t] = <<>> /\ t # NoThread
      BY <1>5, StreamAssumption DEF SendEnds, Holding, TypeOK
    <2> QED
      BY <1>5, <2>1 DEF SendEnds, Holding, Continues, RunsDoNotMix
  <1>6. ASSUME UNCHANGED <<spc, lock, next, todo, sent>> PROVE LockInv'
    BY <1>6 DEF Holding, Continues, RunsDoNotMix
  <1>7. ASSUME NEW r \in Readers, ReadRun(r) \/ Reading(r) PROVE LockInv'
    BY <1>6, <1>7 DEF ReadRun, Reading, ReadLoop, Recv, ReadHeader, ReadChunk,
       ReadMessage, ReadAppend, ReadEnds, senderVars
  <1> QED
    BY <1>1, <1>2, <1>3, <1>4, <1>5, <1>6, <1>7
    DEF Next, Sending, SendReturns, SendRaises, SendSetFrag, ReadSetFrag,
        SendStop, ReadStop, Close, vars, senderVars

\* One run_once() of the sender sends its packets without a packet of another
\* in between, however many threads call it.
THEOREM RunsStayApart == Spec => []RunsDoNotMix
  BY TypeInit, TypeStep, LockInit, LockStep, PTL DEF Spec, LockInv

-----------------------------------------------------------------------------
(* The receiver's stop event. *)

\* A thread inside a message has appended none since stop(), so it appends at
\* most that one.
SeenInv == \A r \in Readers :
               /\ ~readStop => late[r] = 0
               /\ rpc[r] \in {"header", "pdu", "append"} => late[r] = 0
               /\ late[r] <= 1

LEMMA SeenInit == Init => SeenInv
  BY DEF Init, SeenInv

LEMMA SeenStep == TypeOK /\ SeenInv /\ [Next]_vars => SeenInv'
  <1> SUFFICES ASSUME TypeOK, SeenInv, [Next]_vars PROVE SeenInv'
    OBVIOUS
  <1>1. ASSUME NEW r \in Readers, ReadRun(r) PROVE SeenInv'
    BY <1>1 DEF ReadRun, SeenInv, TypeOK
  <1>2. ASSUME NEW r \in Readers, ReadLoop(r) PROVE SeenInv'
    BY <1>2 DEF ReadLoop, SeenInv, TypeOK
  <1>3. ASSUME NEW r \in Readers, Recv(r) \/ ReadChunk(r) PROVE SeenInv'
    BY <1>3 DEF Recv, ReadChunk, SeenInv
  <1>4. ASSUME NEW r \in Readers, ReadHeader(r) PROVE SeenInv'
    <2>1. UNCHANGED <<readStop, late>>
      BY <1>4 DEF ReadHeader
    <2>2. \A t \in Readers : rpc'[t] \in {"header", "pdu", "append"} =>
                               rpc[t] \in {"header", "pdu", "append"}
      BY <1>4 DEF ReadHeader, TypeOK
    <2> QED
      BY <2>1, <2>2 DEF SeenInv
  <1>5. ASSUME NEW r \in Readers, ReadMessage(r) PROVE SeenInv'
    BY <1>5 DEF ReadMessage, SeenInv, TypeOK
  <1>6. ASSUME NEW r \in Readers, ReadAppend(r) PROVE SeenInv'
    BY <1>6 DEF ReadAppend, SeenInv, TypeOK
  <1>7. ASSUME NEW r \in Readers, ReadEnds(r) PROVE SeenInv'
    BY <1>7 DEF ReadEnds, SeenInv, TypeOK
  <1>8. CASE ReadStop
    BY <1>8 DEF ReadStop, SeenInv
  <1>9. ASSUME UNCHANGED <<rpc, readStop, late>> PROVE SeenInv'
    BY <1>9 DEF SeenInv
  <1>10. ASSUME NEW s \in Senders, SendRun(s) \/ Sending(s) PROVE SeenInv'
    BY <1>9, <1>10 DEF SendRun, Sending, SendLock, SendPacket, SendFragment,
       SendReturns, SendRaises, SendEnds, readerVars
  <1> QED
    BY <1>1, <1>2, <1>3, <1>4, <1>5, <1>6, <1>7, <1>8, <1>9, <1>10
    DEF Next, Reading, SendSetFrag, ReadSetFrag, SendStop, Close, vars, readerVars

\* stop() ends each thread's loop at the next message boundary: at most the
\* message it is reading is still appended.
THEOREM StopIsSeen == Spec => []StopsAtTheBoundary
  <1>1. SeenInv => StopsAtTheBoundary
    BY DEF SeenInv, StopsAtTheBoundary
  <1> QED
    BY TypeInit, TypeStep, SeenInit, SeenStep, <1>1, PTL DEF Spec

-----------------------------------------------------------------------------
(* Bytes written one message after the other: w is what was written, len how  *)
(* long each message sent is.                                              *)

\* Every byte is one of a message sent.
OfMessages(w, len) ==
    \A k \in 1 .. Len(w) : /\ w[k].msg \in DOMAIN len
                           /\ w[k].pos \in 1 .. len[w[k].msg]

\* Byte b, written d places after a, stands that far from it in their message,
\* or there is room for all that the message of a still needs.
Apart(a, b, d, len) ==
    \/ a.msg = b.msg /\ b.pos = a.pos + d
    \/ a.msg < b.msg /\ d > len[a.msg] - a.pos

AllApart(w, len) ==
    \A i, j \in 1 .. Len(w) : i < j => Apart(w[i], w[j], j - i, len)

\* Byte b may come right after a: the body of FramesAreWhole.
Follows(a, b, len) ==
    \/ b.msg = a.msg /\ b.pos = a.pos + 1
    \/ b.msg = a.msg + 1 /\ b.pos = 1 /\ a.pos = len[a.msg]

AllFollow(w, len) ==
    \A k \in 1 .. Len(w) - 1 : Follows(w[k], w[k + 1], len)

Ordered(w, len) == /\ OfMessages(w, len)
                   /\ AllApart(w, len)
                   /\ AllFollow(w, len)
                   /\ w # <<>> => w[1] = ByteAt(1, 1)

\* The messages up to m are written to the last byte of it, and no more.
EndsWith(w, len, m) == IF m = 0 THEN w = <<>>
                       ELSE w # <<>> /\ w[Len(w)] = ByteAt(m, len[m])

\* Byte p of message m is the one to be written next.
GoesOnAt(w, len, m, p) ==
    \/ p = 1 /\ EndsWith(w, len, m - 1)
    \/ p > 1 /\ w # <<>> /\ w[Len(w)] = ByteAt(m, p - 1)

\* One more part of the message that is being sent.
LEMMA Extended ==
    ASSUME NEW m \in Nat \ {0}, NEW len \in [1 .. m -> Nat \ {0}],
           NEW w \in Seq(Byte), Ordered(w, len),
           NEW f \in Seq(Byte), PartOf(f, m), f[1].pos + Len(f) - 1 <= len[m],
           GoesOnAt(w, len, m, f[1].pos)
    PROVE  /\ Ordered(w \o f, len)
           /\ w \o f # <<>>
           /\ (w \o f)[Len(w \o f)] = ByteAt(m, f[1].pos + Len(f) - 1)
  <1> DEFINE p == f[1].pos
             L == Len(w)
             v == w \o f
  <1>1. p \in Nat \ {0} /\ L \in Nat /\ Len(f) \in Nat \ {0} /\ len[m] \in Nat
    BY DEF PartOf
  <1>2. /\ Len(v) = L + Len(f) /\ v \in Seq(Byte)
        /\ \A k \in 1 .. L + Len(f) : v[k] = IF k <= L THEN w[k] ELSE f[k - L]
    BY ConcatProperties
  <1>3. ASSUME NEW i \in 1 .. Len(f)
        PROVE  v[L + i] = ByteAt(m, p + i - 1) /\ p + i - 1 \in 1 .. len[m]
    <2>1. L + i \in 1 .. L + Len(f) /\ ~(L + i <= L) /\ L + i - L = i
      BY <1>1
    <2>2. v[L + i] = f[i]
      BY <1>2, <2>1
    <2> QED
      BY SMTT(30), <1>1, <2>2 DEF PartOf
  <1>4. \A x, y : ByteAt(x, y).msg = x /\ ByteAt(x, y).pos = y
    BY DEF ByteAt
  <1>5. ASSUME NEW k \in 1 .. L
        PROVE  /\ v[k] = w[k] /\ w[k].msg \in 1 .. m
               /\ w[k].pos \in Nat \ {0} /\ len[w[k].msg] \in Nat
               /\ w[k].pos <= len[w[k].msg]
    <2>1. k \in 1 .. L + Len(f) /\ k <= L
      BY <1>1
    <2>2. v[k] = w[k]
      BY <1>2, <2>1
    <2>3. w[k].msg \in 1 .. m /\ w[k].pos \in 1 .. len[w[k].msg]
      BY DEF Ordered, OfMessages
    <2> QED
      BY <2>2, <2>3
  <1>6. /\ L = 0 => m = 1 /\ p = 1
        /\ L > 0 => \/ w[L].msg = m /\ w[L].pos = p - 1 /\ p > 1
                    \/ /\ w[L].msg = m - 1 /\ w[L].pos = len[m - 1]
                       /\ p = 1 /\ m - 1 \in 1 .. m
    <2>1. L = 0 <=> w = <<>>
      OBVIOUS
    <2>2. CASE p = 1 /\ EndsWith(w, len, m - 1)
      BY <1>1, <1>4, <2>1, <2>2 DEF EndsWith
    <2>3. CASE p > 1 /\ w # <<>> /\ w[Len(w)] = ByteAt(m, p - 1)
      BY <1>1, <1>4, <2>1, <2>3
    <2> QED
      BY <2>2, <2>3 DEF GoesOnAt
  <1>7. Ordered(w, len)
    OBVIOUS
  <1>8. w # <<>> <=> L # 0
    OBVIOUS
  <1> HIDE DEF p, L, v
  <1>9. OfMessages(v, len)
    <2>1. ASSUME NEW k \in 1 .. Len(v)
          PROVE  v[k].msg \in 1 .. m /\ v[k].pos \in 1 .. len[v[k].msg]
      <3>1. CASE k \in 1 .. L
        BY <1>5, <3>1
      <3>2. CASE k \notin 1 .. L
        <4>1. k - L \in 1 .. Len(f) /\ L + (k - L) = k
          BY <1>1, <1>2, <3>2
        <4> QED
          BY <1>3, <1>4, <4>1
      <3> QED
        BY <3>1, <3>2
    <2> QED
      BY <2>1 DEF OfMessages
  \* Where a byte of f stands relative to one before f.
  <1>10. ASSUME NEW k \in 1 .. L, NEW i \in 1 .. Len(f)
         PROVE  Apart(w[k], ByteAt(m, p + i - 1), L + i - k, len)
    <2>1. L \in 1 .. L /\ L > 0 /\ k \in Nat /\ i \in Nat \ {0} /\ k <= L
      BY <1>1
    <2>2. /\ w[k].msg \in Nat /\ w[k].pos \in Nat /\ len[w[k].msg] \in Nat
          /\ w[k].pos <= len[w[k].msg]
      BY <1>5
    <2>3. w[L].msg \in Nat /\ w[L].pos \in Nat
      BY <1>5, <2>1
    <2>4. k = L \/ Apart(w[k], w[L], L - k, len)
      BY <1>7, <2>1 DEF Ordered, AllApart, L
    <2>5. \/ w[L].msg = m /\ w[L].pos = p - 1
          \/ w[L].msg = m - 1 /\ w[L].pos = len[m - 1] /\ p = 1
      BY <1>6, <2>1
    <2> DEFINE a == w[k].pos
               x == w[k].msg
               b == w[L].pos
               y == w[L].msg
               l == len[w[k].msg]
               e == len[m - 1]
    <2>6. /\ a \in Nat /\ b \in Nat /\ x \in Nat /\ y \in Nat /\ l \in Nat /\ a <= l
          /\ (k = L) => x = y /\ a = b
          /\ (x = m - 1) => l = e
      BY <2>2, <2>3
    <2>7. \/ k = L
          \/ x = y /\ b = a + (L - k)
          \/ x < y /\ L - k > l - a
      BY <2>4 DEF Apart
    <2>8. \/ y = m /\ b = p - 1
          \/ y = m - 1 /\ b = e /\ p = 1
      BY <2>5
    <2> HIDE DEF a, b, x, y, l, e
    <2>9. \/ x = m /\ p + i - 1 = a + (L + i - k)
          \/ x < m /\ L + i - k > l - a
      BY <1>1, <2>1, <2>6, <2>7, <2>8
    <2> QED
      BY <1>4, <2>9 DEF Apart, a, x, l
  <1>11. AllApart(v, len)
    <2>1. ASSUME NEW i \in 1 .. Len(v), NEW j \in 1 .. Len(v), i < j
          PROVE  Apart(v[i], v[j], j - i, len)
      <3>1. CASE j \in 1 .. L
        <4>1. i \in 1 .. L
          BY <1>1, <2>1, <3>1
        <4>2. Apart(w[i], w[j], j - i, len)
          BY <1>7, <2>1, <3>1, <4>1 DEF Ordered, AllApart, L
        <4> QED
          BY <1>5, <3>1, <4>1, <4>2
      <3>2. CASE j \notin 1 .. L
        <4>1. j - L \in 1 .. Len(f) /\ L + (j - L) = j
          BY <1>1, <1>2, <3>2
        <4>2. v[j] = ByteAt(m, p + (j - L) - 1)
          BY <1>3, <4>1
        <4>3. CASE i \in 1 .. L
          <5>1. Apart(w[i], ByteAt(m, p + (j - L) - 1), L + (j - L) - i, len)
            BY <1>10, <4>1, <4>3
          <5>2. L + (j - L) - i = j - i /\ v[i] = w[i]
            BY <1>1, <1>5, <4>1, <4>3
          <5> QED
            BY <4>2, <5>1, <5>2
        <4>4. CASE i \notin 1 .. L
          <5>1. i - L \in 1 .. Len(f) /\ L + (i - L) = i
            BY <1>1, <1>2, <4>4
          <5>2. v[i] = ByteAt(m, p + (i - L) - 1)
            BY <1>3, <5>1
          <5>3. p + (j - L) - 1 = p + (i - L) - 1 + (j - i)
            BY <1>1, <4>1, <5>1
          <5> QED
            BY <1>4, <4>2, <5>2, <5>3 DEF Apart
        <4> QED
          BY <4>3, <4>4
      <3> QED
        BY <3>1, <3>2
    <2> QED
      BY <2>1 DEF AllApart
  <1>12. AllFollow(v, len)
    <2>1. ASSUME NEW k \in 1 .. Len(v) - 1 PROVE Follows(v[k], v[k + 1], len)
      <3>1. CASE k + 1 \in 1 .. L
        <4>1. k \in 1 .. L - 1 /\ k \in 1 .. L
          BY <1>1, <1>2, <3>1
        <4>2. Follows(w[k], w[k + 1], len)
          BY <1>7, <4>1 DEF Ordered, AllFollow, L
        <4> QED
          BY <1>5, <3>1, <4>1, <4>2
      <3>2. CASE k = L
        <4>1. 1 \in 1 .. Len(f) /\ k \in 1 .. L /\ L > 0 /\ p + 1 - 1 = p
          BY <1>1, <3>2
        <4>2. v[k + 1] = ByteAt(m, p) /\ v[k] = w[L]
          BY <1>3, <1>5, <3>2, <4>1
        <4>3. \/ w[L].msg = m /\ w[L].pos = p - 1
              \/ w[L].msg = m - 1 /\ w[L].pos = len[m - 1] /\ p = 1
          BY <1>6, <4>1
        <4>4. p = p - 1 + 1 /\ m = m - 1 + 1
          BY <1>1
        <4>5. v[k + 1].msg = m /\ v[k + 1].pos = p /\ v[k] = w[L]
          BY <1>4, <4>2
        <4>6. CASE w[L].msg = m /\ w[L].pos = p - 1
          BY <4>4, <4>5, <4>6 DEF Follows
        <4>7. CASE w[L].msg = m - 1 /\ w[L].pos = len[m - 1] /\ p = 1
          BY <4>4, <4>5, <4>7 DEF Follows
        <4> QED
          BY <4>3, <4>6, <4>7
      <3>3. CASE k + 1 \notin 1 .. L /\ k # L
        <4>1. /\ k - L \in 1 .. Len(f) /\ L + (k - L) = k
              /\ k + 1 - L \in 1 .. Len(f) /\ L + (k + 1 - L) = k + 1
          <5>1. k \in Nat /\ k >= 1 /\ k <= L + Len(f) - 1 /\ k > L
            BY <1>1, <1>2, <3>3
          <5> QED
            BY SMTT(30), <1>1, <5>1
        <4>2. /\ v[k] = ByteAt(m, p + (k - L) - 1)
              /\ v[k + 1] = ByteAt(m, p + (k + 1 - L) - 1)
          BY <1>3, <4>1
        <4>3. p + (k + 1 - L) - 1 = p + (k - L) - 1 + 1
          <5>1. k \in Int
            BY <1>1, <1>2
          <5> QED
            BY <1>1, <5>1
        <4> QED
          BY <1>4, <4>2, <4>3 DEF Follows
      <3> QED
        BY <3>1, <3>2, <3>3
    <2> QED
      BY <2>1 DEF AllFollow
  <1>13. v # <<>> /\ v[Len(v)] = ByteAt(m, p + Len(f) - 1)
    <2>1. Len(f) \in 1 .. Len(f) /\ Len(v) > 0
      BY <1>1, <1>2
    <2> QED
      BY <1>2, <1>3, <2>1
  <1>14. v[1] = ByteAt(1, 1)
    <2>1. CASE L = 0
      <3>1. 1 \in 1 .. Len(f) /\ L + 1 = 1 /\ p + 1 - 1 = p
        BY <1>1, <2>1
      <3> QED
        BY <1>3, <1>6, <2>1, <3>1
    <2>2. CASE L # 0
      <3>1. 1 \in 1 .. L
        BY <1>1, <2>2
      <3> QED
        BY <1>5, <1>7, <1>8, <2>2, <3>1 DEF Ordered
    <2> QED
      BY <2>1, <2>2
  <1> QED
    BY <1>9, <1>11, <1>12, <1>13, <1>14 DEF Ordered, p, v

\* One more message sent, none of it written yet.
LEMMA OneMoreMessage ==
    ASSUME NEW n \in Nat, NEW len \in [1 .. n -> Nat \ {0}],
           NEW more \in [1 .. n + 1 -> Nat \ {0}],
           \A m \in 1 .. n : more[m] = len[m],
           NEW w \in Seq(Byte), Ordered(w, len)
    PROVE  /\ Ordered(w, more)
           /\ EndsWith(w, len, n) => GoesOnAt(w, more, n + 1, 1)
  <1>1. \A k \in 1 .. Len(w) :
           /\ w[k].msg \in 1 .. n /\ w[k].msg \in 1 .. n + 1
           /\ more[w[k].msg] = len[w[k].msg]
    BY DEF Ordered, OfMessages
  <1>2. OfMessages(w, more)
    BY <1>1 DEF Ordered, OfMessages
  <1>3. AllApart(w, more)
    BY <1>1 DEF Ordered, AllApart, Apart
  <1>4. AllFollow(w, more)
    <2>1. \A k \in 1 .. Len(w) - 1 : k \in 1 .. Len(w)
      OBVIOUS
    <2> QED
      BY <1>1, <2>1 DEF Ordered, AllFollow, Follows
  <1>5. EndsWith(w, len, n) => EndsWith(w, more, n)
    <2>1. n # 0 => n \in 1 .. n
      OBVIOUS
    <2> QED
      BY <2>1 DEF EndsWith
  <1>6. n + 1 - 1 = n
    OBVIOUS
  <1> QED
    BY <1>2, <1>3, <1>4, <1>5, <1>6 DEF Ordered, GoesOnAt

\* What is left of a message once its next fragment is sent.
LEMMA FragmentSent ==
    ASSUME NEW m, NEW last \in Nat, NEW F \in Seq(Seq(Byte)), F # <<>>,
           Tiles(F, m, last)
    PROVE  /\ Head(F) = F[1] /\ F[1] \in Seq(Byte) /\ PartOf(F[1], m)
           /\ F[1][1].pos + Len(F[1]) - 1 <= last
           /\ Tail(F) \in Seq(Seq(Byte)) /\ Tiles(Tail(F), m, last)
           /\ IF Tail(F) = <<>> THEN F[1][1].pos + Len(F[1]) - 1 = last
              ELSE /\ Tail(F)[1][1].pos = F[1][1].pos + Len(F[1])
                   /\ Tail(F)[1][1].pos > 1
  <1>1. /\ Head(F) = F[1] /\ F[1] \in Seq(Byte) /\ Len(F) \in Nat \ {0}
        /\ Tail(F) \in Seq(Seq(Byte)) /\ Len(Tail(F)) = Len(F) - 1
        /\ \A i \in 1 .. Len(Tail(F)) : Tail(F)[i] = F[i + 1]
    <2>1. Len(F) \in Nat \ {0}
      OBVIOUS
    <2>2. Head(F) = F[1]
      OBVIOUS
    <2> QED
      BY <2>1, <2>2, HeadTailProperties
  <1> DEFINE T == Tail(F)
  <1> HIDE DEF T
  <1>2. ASSUME NEW i \in 1 .. Len(T)
        PROVE  /\ T[i] = F[i + 1] /\ i + 1 \in 1 .. Len(F)
               /\ (i = Len(T) <=> i + 1 = Len(F))
               /\ (i < Len(T) => T[i + 1] = F[i + 1 + 1])
               /\ (i < Len(T) <=> i + 1 < Len(F))
    BY <1>1 DEF T
  <1>3. Tiles(T, m, last)
    <2>1. ASSUME NEW i \in 1 .. Len(T)
          PROVE  /\ PartOf(T[i], m)
                 /\ T[i][1].pos + Len(T[i]) - 1 <= last
                 /\ i = Len(T) => T[i][1].pos + Len(T[i]) - 1 = last
                 /\ i < Len(T) => T[i + 1][1].pos = T[i][1].pos + Len(T[i])
      BY <1>2 DEF Tiles
    <2> QED
      BY <2>1 DEF Tiles
  <1>4. 1 \in 1 .. Len(F)
    BY <1>1
  <1>5. /\ PartOf(F[1], m) /\ F[1][1].pos + Len(F[1]) - 1 <= last
        /\ 1 = Len(F) => F[1][1].pos + Len(F[1]) - 1 = last
        /\ 1 < Len(F) => F[1 + 1][1].pos = F[1][1].pos + Len(F[1])
    BY <1>4 DEF Tiles
  <1>6. (T = <<>>) <=> (Len(F) = 1)
    <2>1. T \in Seq(Seq(Byte)) /\ Len(T) = Len(F) - 1 /\ Len(F) \in Nat
      BY <1>1 DEF T
    <2>2. (T = <<>>) <=> (Len(T) = 0)
      BY <2>1, EmptySeq
    <2> QED
      BY <2>1, <2>2
  <1>7. ASSUME T # <<>>
        PROVE  T[1][1].pos = F[1][1].pos + Len(F[1]) /\ T[1][1].pos > 1
    <2>1. 1 \in 1 .. Len(T) /\ 1 < Len(F)
      BY SMTT(30), <1>1, <1>6, <1>7 DEF T
    <2>2. T[1] = F[1 + 1]
      BY <1>2, <2>1
    <2>3. F[1][1].pos \in Nat \ {0} /\ Len(F[1]) \in Nat \ {0}
      BY <1>1, <1>5 DEF PartOf
    <2>4. F[1][1].pos + Len(F[1]) > 1
      BY <2>3
    <2>5. T[1][1].pos = F[1][1].pos + Len(F[1])
      BY <1>5, <2>1, <2>2
    <2> QED
      BY <2>4, <2>5
  <1> QED
    BY <1>1, <1>3, <1>5, <1>6, <1>7 DEF T

-----------------------------------------------------------------------------
(* What the socket is given. *)

\* The bytes of each message sent.
Lengths == [m \in 1 .. Len(sent) |-> HeaderSize + PduLength[sent[m]]]

\* While the connection is up, what is still to be sent of a message goes on
\* where the bytes written end; with nothing left, they end with the message.
EdgeInv ==
    link = "up" =>
        /\ (\A s \in Senders : todo[s] = <<>>) =>
               EndsWith(written, Lengths, Len(sent))
        /\ \A s \in Senders :
              todo[s] # <<>> =>
                  /\ sent # <<>>
                  /\ Tiles(todo[s], Len(sent), Lengths[Len(sent)])
                  /\ GoesOnAt(written, Lengths, Len(sent), todo[s][1][1].pos)

WrittenInv == Ordered(written, Lengths) /\ EdgeInv

LEMMA LengthsType ==
    ASSUME TypeOK
    PROVE  Lengths \in [1 .. Len(sent) -> Nat \ {0}]
  <1>1. ASSUME NEW m \in 1 .. Len(sent)
        PROVE  HeaderSize + PduLength[sent[m]] \in Nat \ {0}
    <2>1. sent[m] \in Packets
      BY ElementOfSeq DEF TypeOK
    <2> QED
      BY <2>1, SerializedIs
  <1> QED
    BY <1>1 DEF Lengths

LEMMA WrittenInit == Init => WrittenInv
  BY DEF Init, WrittenInv, EdgeInv, Ordered, OfMessages, AllApart, AllFollow, EndsWith

LEMMA WrittenStep ==
    ASSUME ~ShortSends
    PROVE  TypeOK /\ LockInv /\ WrittenInv /\ [Next]_vars => WrittenInv'
  <1> SUFFICES ASSUME TypeOK, LockInv, WrittenInv, [Next]_vars PROVE WrittenInv'
    OBVIOUS
  <1>1. ASSUME NEW s \in Senders, SendPacket(s) PROVE WrittenInv'
    <2> DEFINE n == Len(sent)
               p == next[s]
               F == Fragments(Serialized(n + 1, p), frag)
    <2>1. /\ n \in Nat /\ sent \in Seq(Packets) /\ p \in Packets /\ frag \in Nat
          /\ sent' = Append(sent, p) /\ todo[s] = <<>>
          /\ UNCHANGED <<written, link>> /\ spc[s] = "locked"
      <3>1. frag \in FragSizes
        BY DEF TypeOK
      <3> QED
        BY <1>1, <3>1, StreamAssumption DEF SendPacket, TypeOK
    <2>2. /\ Len(sent') = n + 1 /\ sent'[n + 1] = p /\ sent' # <<>>
          /\ \A m \in 1 .. n : sent'[m] = sent[m]
      BY <2>1, AppendProperties
    <2>3. /\ F \in Seq(Seq(Byte)) /\ F # <<>> /\ F[1][1].pos = 1
          /\ Tiles(F, n + 1, HeaderSize + PduLength[p])
      <3>1. n + 1 \in Nat \ {0}
        BY <2>1
      <3> QED
        BY <2>1, <3>1, FragmentsTile
    <2> HIDE DEF F, p
    <2>4. todo' = [todo EXCEPT ![s] = F]
      BY <1>1 DEF SendPacket, F, p
    <2>5. \A t \in Senders : /\ todo[t] = <<>>
                             /\ todo'[t] = IF t = s THEN F ELSE <<>>
      BY <2>1, <2>4 DEF LockInv, Holding, TypeOK
    <2>6. /\ Lengths \in [1 .. n -> Nat \ {0}]
          /\ Lengths' \in [1 .. n + 1 -> Nat \ {0}]
          /\ \A m \in 1 .. n : Lengths'[m] = Lengths[m]
          /\ Lengths'[n + 1] = HeaderSize + PduLength[p]
      <3>1. Lengths \in [1 .. n -> Nat \ {0}]
        BY LengthsType
      <3>2. HeaderSize + PduLength[p] \in Nat \ {0}
        BY <2>1, SerializedIs
      <3>3. \A m \in 1 .. n : Lengths[m] = HeaderSize + PduLength[sent[m]]
        BY DEF Lengths
      <3>4. Lengths' = [m \in 1 .. n + 1 |-> HeaderSize + PduLength[sent'[m]]]
        BY <2>2 DEF Lengths
      <3>5. \A m \in 1 .. n + 1 : m \in 1 .. n \/ m = n + 1
        BY <2>1
      <3>6. \A m \in 1 .. n : m \in 1 .. n + 1
        BY <2>1
      <3>7. n + 1 \in 1 .. n + 1
        BY <2>1
      <3> HIDE DEF n
      <3>8. /\ \A m \in 1 .. n : Lengths'[m] = Lengths[m]
            /\ Lengths'[n + 1] = HeaderSize + PduLength[p]
        BY <2>2, <3>3, <3>4, <3>6, <3>7
      <3>9. \A m \in 1 .. n + 1 : Lengths'[m] \in Nat \ {0}
        BY <3>1, <3>2, <3>5, <3>8
      <3> QED
        BY <3>1, <3>4, <3>8, <3>9
    <2>7. written \in Seq(Byte) /\ Ordered(written, Lengths) /\ s \in Senders
      BY DEF TypeOK, WrittenInv
    <2>8. /\ Ordered(written, Lengths')
          /\ EndsWith(written, Lengths, n) => GoesOnAt(written, Lengths', n + 1, 1)
      <3> DEFINE len == Lengths
                 more == Lengths'
      <3> HIDE DEF len, more, n
      <3>1. /\ len \in [1 .. n -> Nat \ {0}] /\ more \in [1 .. n + 1 -> Nat \ {0}]
            /\ \A m \in 1 .. n : more[m] = len[m]
            /\ Ordered(written, len) /\ n \in Nat /\ written \in Seq(Byte)
        BY <2>1, <2>6, <2>7 DEF len, more
      <3>2. /\ Ordered(written, more)
            /\ EndsWith(written, len, n) => GoesOnAt(written, more, n + 1, 1)
        BY <3>1, OneMoreMessage
      <3> QED
        BY <3>2 DEF len, more
    <2>9. link = "up" => EndsWith(written, Lengths, n)
      BY <2>5 DEF WrittenInv, EdgeInv
    <2>10. EdgeInv'
      BY <2>1, <2>2, <2>3, <2>5, <2>6, <2>8, <2>9 DEF EdgeInv
    <2> QED
      BY <2>1, <2>8, <2>10 DEF WrittenInv
  <1>2. ASSUME NEW s \in Senders, SendFragment(s) PROVE WrittenInv'
    <2> DEFINE m == Len(sent)
               F == todo[s]
               f == F[1]
               p == f[1].pos
    <2>1. /\ F \in Seq(Seq(Byte)) /\ F # <<>> /\ link = "up" /\ sent # <<>>
          /\ m \in Nat \ {0} /\ written \in Seq(Byte) /\ spc[s] = "locked"
          /\ UNCHANGED <<sent, link>> /\ todo' = [todo EXCEPT ![s] = Tail(F)]
      BY <1>2 DEF SendFragment, TypeOK, WrittenInv, EdgeInv
    <2>2. /\ Tiles(F, m, Lengths[m])
          /\ GoesOnAt(written, Lengths, m, p)
          /\ Ordered(written, Lengths)
      BY <2>1 DEF WrittenInv, EdgeInv
    <2>3. Lengths \in [1 .. m -> Nat \ {0}] /\ Lengths[m] \in Nat /\ Lengths' = Lengths
      <3>1. Lengths \in [1 .. m -> Nat \ {0}]
        BY LengthsType
      <3>2. m \in 1 .. m
        BY <2>1
      <3> HIDE DEF m
      <3>3. Lengths' = Lengths
        BY <2>1 DEF Lengths
      <3> QED
        BY <3>1, <3>2, <3>3
    <2> HIDE DEF m, F, f
    <2>4. /\ Head(F) = f /\ f \in Seq(Byte) /\ PartOf(f, m)
          /\ p + Len(f) - 1 <= Lengths[m]
          /\ Tail(F) \in Seq(Seq(Byte)) /\ Tiles(Tail(F), m, Lengths[m])
          /\ IF Tail(F) = <<>> THEN p + Len(f) - 1 = Lengths[m]
             ELSE Tail(F)[1][1].pos = p + Len(f) /\ Tail(F)[1][1].pos > 1
      BY <2>1, <2>2, <2>3, FragmentSent DEF f
    <2>5. written' = written \o f
      <3>1. SubSeq(f, 1, Len(f)) = f
        BY <2>4
      <3> QED
        BY <1>2, <2>4, <3>1 DEF SendFragment, F
    <2>6. /\ Ordered(written', Lengths)
          /\ written' # <<>>
          /\ written'[Len(written')] = ByteAt(m, p + Len(f) - 1)
      BY <2>1, <2>2, <2>3, <2>4, <2>5, Extended
    <2>7. \A t \in Senders : todo'[t] = IF t = s THEN Tail(F) ELSE <<>>
      BY <2>1 DEF LockInv, Holding, TypeOK
    <2>8. CASE Tail(F) = <<>>
      <3>1. EndsWith(written', Lengths, m)
        BY <2>1, <2>4, <2>6, <2>8 DEF EndsWith
      <3>2. \A t \in Senders : todo'[t] = <<>>
        BY <2>7, <2>8
      <3>3. EdgeInv'
        BY <2>1, <2>3, <3>1, <3>2 DEF EdgeInv, m
      <3> QED
        BY <2>3, <2>6, <3>3 DEF WrittenInv
    <2>9. CASE Tail(F) # <<>>
      <3>1. p \in Nat /\ Len(f) \in Nat
        BY <2>4 DEF PartOf
      <3>2. GoesOnAt(written', Lengths, m, Tail(F)[1][1].pos)
        <4> DEFINE q == Tail(F)[1][1].pos
        <4>1. q = p + Len(f) /\ q > 1
          BY <2>4, <2>9
        <4> HIDE DEF q, p
        <4>2. q - 1 = p + Len(f) - 1
          BY <3>1, <4>1
        <4>3. written' # <<>> /\ written'[Len(written')] = ByteAt(m, q - 1)
          BY <2>6, <4>2
        <4> QED
          BY <4>1, <4>3 DEF GoesOnAt, q
      <3>3. ~ \A t \in Senders : todo'[t] = <<>>
        BY <2>7, <2>9
      <3>4. \A t \in Senders : todo'[t] # <<>> => todo'[t] = Tail(F)
        BY <2>7
      <3>5. EdgeInv'
        BY <2>1, <2>3, <2>4, <3>2, <3>3, <3>4 DEF EdgeInv, m
      <3> QED
        BY <2>3, <2>6, <3>5 DEF WrittenInv
    <2> QED
      BY <2>8, <2>9
  <1>3. ASSUME UNCHANGED <<sent, written>> PROVE Ordered(written, Lengths)'
    BY <1>3 DEF WrittenInv, Ordered, OfMessages, AllApart, Apart, AllFollow, Follows, Lengths
  <1>4. ASSUME UNCHANGED <<todo, sent, written, link>> PROVE WrittenInv'
    <2>1. Lengths' = Lengths
      BY <1>4 DEF Lengths
    <2> QED
      BY <1>4, <2>1 DEF WrittenInv, EdgeInv
  <1>5. ASSUME NEW s \in Senders, SendEnds(s), todo[s] = <<>> PROVE WrittenInv'
    BY <1>4, <1>5 DEF SendEnds, TypeOK
  <1>6. ASSUME NEW s \in Senders, SendRaises(s) PROVE WrittenInv'
    <2>1. CASE todo[s] = <<>>
      BY <1>5, <1>6, <2>1 DEF SendRaises
    <2>2. CASE link = "closed"
      BY <1>3, <1>6, <2>2 DEF SendRaises, SendEnds, WrittenInv, EdgeInv
    <2> QED
      BY <1>6, <2>1, <2>2 DEF SendRaises
  <1>7. CASE Close
    BY <1>3, <1>7 DEF Close, senderVars, WrittenInv, EdgeInv
  <1>8. ASSUME NEW s \in Senders, SendRun(s) \/ SendLock(s) PROVE WrittenInv'
    BY <1>4, <1>8 DEF SendRun, SendLock
  <1>9. ASSUME NEW r \in Readers, ReadRun(r) \/ Reading(r) PROVE WrittenInv'
    BY <1>4, <1>9 DEF ReadRun, Reading, ReadLoop, Recv, ReadHeader, ReadChunk,
       ReadMessage, ReadAppend, ReadEnds, senderVars
  <1> QED
    BY <1>1, <1>2, <1>4, <1>5, <1>6, <1>7, <1>8, <1>9
    DEF Next, Sending, SendReturns, SendSetFrag, ReadSetFrag, SendStop, ReadStop,
        vars, senderVars

\* What the socket is given is whole messages, one after the other and each
\* once, up to the one being sent, with any number of threads sending and the
\* connection closed at any moment: provided that the socket takes whole
\* fragments (run MCStreamShort shows what happens when it does not).
THEOREM FramesStayWhole ==
    ASSUME ~ShortSends
    PROVE  Spec => []FramesAreWhole
  <1>1. TypeOK /\ WrittenInv => FramesAreWhole
    <2> SUFFICES ASSUME TypeOK, WrittenInv PROVE FramesAreWhole
      OBVIOUS
    <2>1. \A k \in 1 .. Len(written) - 1 : k \in 1 .. Len(written)
      BY DEF TypeOK
    <2>2. \A k \in 1 .. Len(written) - 1 :
             Lengths[written[k].msg] = HeaderSize + PduLength[sent[written[k].msg]]
      BY <2>1 DEF WrittenInv, Ordered, OfMessages, Lengths
    <2> QED
      BY <2>2 DEF WrittenInv, Ordered, AllFollow, Follows, FramesAreWhole
  <1> QED
    BY TypeInit, TypeStep, LockInit, LockStep, WrittenInit, WrittenStep, <1>1,
       PTL DEF Spec

-----------------------------------------------------------------------------
(***************************************************************************)
(* Module Stream implements module Channel: what the receiver collects is  *)
(* what was sent, whole, once each and in order.                           *)
(*                                                                         *)
(* The proof places the reading thread in the bytes written: at the end of *)
(* as many messages as it has appended, and so many bytes further as it    *)
(* has read of the next.  Pairwise distances (AllApart) stand in for an    *)
(* induction over the bytes of a message.                                  *)
(***************************************************************************)

-----------------------------------------------------------------------------
(* Where a message begins. *)

\* The first n bytes are the first c messages.
CompleteAt(w, len, c, n) ==
    IF c = 0 THEN n = 0 ELSE n > 0 /\ w[n] = ByteAt(c, len[c])

\* After c whole messages come the bytes of the next, as many as it has.
LEMMA MessageAt ==
    ASSUME NEW N \in Nat, NEW len \in [1 .. N -> Nat \ {0}],
           NEW w \in Seq(Byte), Ordered(w, len),
           NEW c \in Nat, NEW n \in 0 .. Len(w), CompleteAt(w, len, c, n),
           NEW i \in Nat \ {0}, n + i <= Len(w)
    PROVE  /\ c + 1 \in 1 .. N
           /\ i <= len[c + 1] => w[n + i] = ByteAt(c + 1, i)
  <1>1. ASSUME NEW k \in 1 .. Len(w)
        PROVE  /\ w[k] = ByteAt(w[k].msg, w[k].pos)
               /\ w[k].msg \in 1 .. N /\ w[k].pos \in Nat
               /\ len[w[k].msg] \in Nat /\ w[k].pos <= len[w[k].msg]
    <2>1. w[k] \in Byte
      BY ElementOfSeq
    <2>2. w[k].msg \in 1 .. N /\ w[k].pos \in 1 .. len[w[k].msg]
      BY DEF Ordered, OfMessages
    <2> QED
      BY <2>1, <2>2 DEF Byte, ByteAt
  <1>2. n + 1 \in 1 .. Len(w) /\ n + i \in 1 .. Len(w) /\ Len(w) \in Nat
    OBVIOUS
  <1>3. w[n + 1] = ByteAt(c + 1, 1)
    <2>1. CASE c = 0
      <3>1. n = 0 /\ w # <<>>
        BY <1>2, <2>1 DEF CompleteAt
      <3> QED
        BY <2>1, <3>1 DEF Ordered
    <2>2. CASE c # 0
      <3>1. n \in 1 .. Len(w) - 1 /\ n \in 1 .. Len(w) /\ w[n] = ByteAt(c, len[c])
        BY <1>2, <2>2 DEF CompleteAt
      <3>2. w[n].msg = c /\ w[n].pos = len[c]
        BY <3>1 DEF ByteAt
      <3>3. Follows(w[n], w[n + 1], len)
        BY <3>1 DEF Ordered, AllFollow
      <3>4. ~(w[n + 1].msg = c /\ w[n + 1].pos = len[c] + 1)
        <4>1. ASSUME w[n + 1].msg = c, w[n + 1].pos = len[c] + 1 PROVE FALSE
          <5>1. w[n + 1].pos <= len[c] /\ len[c] \in Nat
            BY <1>1, <1>2, <4>1
          <5> QED
            BY <4>1, <5>1
        <4> QED
          BY <4>1
      <3>5. w[n + 1].msg = c + 1 /\ w[n + 1].pos = 1
        BY <3>2, <3>3, <3>4 DEF Follows
      <3> QED
        BY <1>1, <1>2, <3>5
    <2> QED
      BY <2>1, <2>2
  <1>4. w[n + 1].msg = c + 1 /\ w[n + 1].pos = 1
    BY <1>3 DEF ByteAt
  <1>5. c + 1 \in 1 .. N /\ len[c + 1] \in Nat
    BY <1>1, <1>2, <1>4
  <1>6. ASSUME i <= len[c + 1] PROVE w[n + i] = ByteAt(c + 1, i)
    <2>1. CASE i = 1
      BY <1>3, <2>1
    <2>2. CASE i # 1
      <3>1. n + 1 < n + i /\ n + i - (n + 1) = i - 1
        BY <2>2
      <3>2. Apart(w[n + 1], w[n + i], i - 1, len)
        BY <1>2, <3>1 DEF Ordered, AllApart
      <3>3. ~(i - 1 > len[c + 1] - 1) /\ 1 + (i - 1) = i
        BY <1>5, <1>6
      <3>4. w[n + i].msg = c + 1 /\ w[n + i].pos = i
        BY <1>4, <3>2, <3>3 DEF Apart
      <3> QED
        BY <1>1, <1>2, <3>4
    <2> QED
      BY <2>1, <2>2
  <1> QED
    BY <1>5, <1>6

-----------------------------------------------------------------------------
(* Where the reading thread is. *)

\* The bytes the reader has taken off the connection.
Taken == Len(written) - Len(wire)

\* What is on its way is what was written and not taken yet.
WireInv == /\ Len(wire) <= Len(written)
           /\ \A k \in 1 .. Len(wire) : wire[k] = written[Taken + k]

PacketsInv == /\ Len(packets) <= Len(sent)
              /\ \A k \in 1 .. Len(packets) : packets[k] = k

\* Nothing comes any more.
Dead == link = "closed" /\ wire = <<>>

\* The thread has taken whole messages.
Between == CompleteAt(written, Lengths, Len(packets), Taken)

\* The thread has taken whole messages and then what is in its buffer: the
\* first bytes of the next.
Within(r) ==
    /\ Len(buffer[r]) <= Taken
    /\ CompleteAt(written, Lengths, Len(packets), Taken - Len(buffer[r]))
    /\ \A k \in 1 .. Len(buffer[r]) : buffer[r][k] = ByteAt(Len(packets) + 1, k)
    /\ buffer[r] # <<>> => Len(packets) + 1 <= Len(sent)

\* What the message it is in has.
Whole == Lengths[Len(packets) + 1]

PlaceInv ==
    \A r \in Readers :
        /\ rpc[r] \in {"idle", "loop"} => Between \/ Dead
        /\ rpc[r] = "header" =>
              /\ Len(buffer[r]) + need[r] = HeaderSize
              /\ Within(r) \/ (Dead /\ buffer[r] = <<>>)
        /\ rpc[r] = "pdu" =>
              /\ Within(r) /\ buffer[r] # <<>>
              /\ Len(buffer[r]) + need[r] + pdu[r] = Whole
        /\ rpc[r] = "append" =>
              /\ Within(r) /\ buffer[r] # <<>>
              /\ Len(buffer[r]) = Whole

CaptureInv == WireInv /\ PacketsInv /\ PlaceInv

LEMMA CaptureInit == Init => CaptureInv
  <1> SUFFICES ASSUME Init PROVE CaptureInv
    OBVIOUS
  <1>1. Len(written) = 0 /\ Len(wire) = 0 /\ Len(packets) = 0 /\ Len(sent) = 0
    BY DEF Init
  <1>2. Taken = 0
    BY <1>1 DEF Taken
  <1>3. Between
    BY <1>1, <1>2 DEF Between, CompleteAt
  <1> QED
    BY <1>1, <1>3 DEF Init, CaptureInv, WireInv, PacketsInv, PlaceInv

\* Nothing of that is disturbed by messages being sent and bytes written.
LEMMA WritingIsSafe ==
    ASSUME TypeOK, CaptureInv,
           UNCHANGED <<rpc, buffer, need, pdu, packets>>,
           Taken' = Taken, WireInv', Dead => Dead', Len(sent) <= Len(sent'),
           \A k \in 1 .. Len(written) : written'[k] = written[k],
           \A m \in 1 .. Len(sent) : Lengths'[m] = Lengths[m],
           Len(sent') \in Nat
    PROVE  CaptureInv'
  <1>1. /\ Len(packets) \in Nat /\ Len(sent) \in Nat /\ Len(written) \in Nat
        /\ Len(wire) \in Nat /\ Taken \in Nat /\ Taken <= Len(written)
        /\ Len(packets) <= Len(sent)
    BY DEF TypeOK, CaptureInv, WireInv, Taken, PacketsInv
  <1>2. ASSUME NEW n \in 0 .. Taken
        PROVE  CompleteAt(written, Lengths, Len(packets), n)
                  => CompleteAt(written', Lengths', Len(packets), n)
    <2>1. n > 0 => n \in 1 .. Len(written)
      BY <1>1
    <2>2. Len(packets) # 0 => Len(packets) \in 1 .. Len(sent)
      BY <1>1
    <2> QED
      BY <2>1, <2>2 DEF CompleteAt
  <1>3. Between => Between'
    <2>1. Taken \in 0 .. Taken
      BY <1>1
    <2> QED
      BY <1>2, <2>1 DEF Between
  <1>4. ASSUME NEW r \in Readers PROVE Within(r) => Within(r)'
    <2>1. Len(buffer[r]) \in Nat
      BY DEF TypeOK
    <2>2. Len(buffer[r]) <= Taken => Taken - Len(buffer[r]) \in 0 .. Taken
      BY <1>1, <2>1
    <2>3. Len(packets) + 1 <= Len(sent) => Len(packets) + 1 <= Len(sent')
      BY <1>1
    <2> QED
      BY <1>2, <2>2, <2>3 DEF Within
  <1>5. ASSUME NEW r \in Readers, Within(r), buffer[r] # <<>> PROVE Whole' = Whole
    <2>1. Len(packets) + 1 \in 1 .. Len(sent)
      BY <1>1, <1>5 DEF Within
    <2> QED
      BY <2>1 DEF Whole
  <1>6. PlaceInv'
    BY <1>3, <1>4, <1>5 DEF CaptureInv, PlaceInv
  <1>7. PacketsInv'
    BY <1>1 DEF CaptureInv, PacketsInv
  <1> QED
    BY <1>6, <1>7 DEF CaptureInv

\* What is sent stays as long as it is.
LEMMA SentGrows ==
    ASSUME TypeOK, NEW s \in Senders, SendPacket(s)
    PROVE  /\ Len(sent') = Len(sent) + 1
           /\ \A m \in 1 .. Len(sent) : sent'[m] = sent[m]
           /\ \A m \in 1 .. Len(sent) : Lengths'[m] = Lengths[m]
  <1>1. /\ sent \in Seq(Packets) /\ next[s] \in Packets
        /\ sent' = Append(sent, next[s]) /\ Len(sent) \in Nat
    BY DEF SendPacket, TypeOK
  <1>2. Len(sent') = Len(sent) + 1 /\ \A m \in 1 .. Len(sent) : sent'[m] = sent[m]
    BY <1>1, AppendProperties
  <1>3. \A m \in 1 .. Len(sent) : m \in 1 .. Len(sent')
    BY <1>1, <1>2
  <1> QED
    BY <1>2, <1>3 DEF Lengths

LEMMA SenderStep ==
    ASSUME TypeOK, TypeOK', CaptureInv,
           NEW s \in Senders, SendRun(s) \/ Sending(s)
    PROVE  CaptureInv'
  <1>1. /\ Len(sent) \in Nat /\ Len(written) \in Nat /\ Len(wire) \in Nat
        /\ Len(sent') \in Nat /\ Len(wire) <= Len(written)
    <2>1. sent \in Seq(Packets) /\ written \in Seq(Byte) /\ wire \in Seq(Byte)
      BY DEF TypeOK
    <2>2. sent' \in Seq(Packets)
      BY DEF TypeOK
    <2> QED
      BY <2>1, <2>2, LenProperties DEF CaptureInv, WireInv
  <1>2. UNCHANGED <<rpc, buffer, need, pdu, packets, link>>
    BY DEF SendRun, Sending, SendLock, SendPacket, SendFragment, SendReturns,
       SendRaises, SendEnds, readerVars
  <1>3. CASE SendFragment(s)
    <2>1. PICK n \in 1 .. Len(Head(todo[s])) :
             /\ wire' = wire \o SubSeq(Head(todo[s]), 1, n)
             /\ written' = written \o SubSeq(Head(todo[s]), 1, n)
      BY <1>3 DEF SendFragment
    <2> DEFINE x == SubSeq(Head(todo[s]), 1, n)
    <2>2. x \in Seq(Byte)
      <3>1. Head(todo[s]) \in Seq(Byte)
        BY <1>3, HeadTailProperties DEF SendFragment, TypeOK
      <3> QED
        BY <3>1, ElementOfSeq, SubSeqProperties
    <2> HIDE DEF x
    <2>3. /\ Len(wire') = Len(wire) + Len(x) /\ Len(written') = Len(written) + Len(x)
          /\ Len(x) \in Nat
          /\ \A k \in 1 .. Len(wire) + Len(x) :
                wire'[k] = IF k <= Len(wire) THEN wire[k] ELSE x[k - Len(wire)]
          /\ \A k \in 1 .. Len(written) + Len(x) :
                written'[k] = IF k <= Len(written) THEN written[k] ELSE x[k - Len(written)]
      <3>1. wire' = wire \o x /\ written' = written \o x
        BY <2>1 DEF x
      <3>2. wire \in Seq(Byte) /\ written \in Seq(Byte) /\ Len(x) \in Nat
        BY <2>2 DEF TypeOK
      <3>3. /\ Len(wire') = Len(wire) + Len(x)
            /\ \A k \in 1 .. Len(wire) + Len(x) :
                  wire'[k] = IF k <= Len(wire) THEN wire[k] ELSE x[k - Len(wire)]
        BY <2>2, <3>1, <3>2, ConcatProperties
      <3>4. /\ Len(written') = Len(written) + Len(x)
            /\ \A k \in 1 .. Len(written) + Len(x) :
                  written'[k] = IF k <= Len(written) THEN written[k]
                                ELSE x[k - Len(written)]
        BY <2>2, <3>1, <3>2, ConcatProperties
      <3> QED
        BY <3>2, <3>3, <3>4
    <2>4. Taken' = Taken
      BY <1>1, <2>3 DEF Taken
    <2>5. \A k \in 1 .. Len(written) : written'[k] = written[k]
      BY <1>1, <2>3
    <2>6. WireInv'
      <3>1. ASSUME NEW k \in 1 .. Len(wire') PROVE wire'[k] = written'[Taken' + k]
        <4>1. CASE k <= Len(wire)
          <5>1. k \in 1 .. Len(wire) /\ k \in 1 .. Len(wire) + Len(x)
            BY <1>1, <2>3, <4>1
          <5>2. Taken + k \in 1 .. Len(written)
            BY <1>1, <5>1 DEF Taken
          <5>3. wire'[k] = wire[k] /\ wire[k] = written[Taken + k]
            BY <2>3, <4>1, <5>1 DEF CaptureInv, WireInv
          <5> QED
            BY <2>4, <2>5, <5>2, <5>3
        <4>2. CASE ~(k <= Len(wire))
          <5>1. k \in 1 .. Len(wire) + Len(x) /\ k \in Nat
            BY <2>3
          <5>2. /\ Taken \in Nat /\ Taken + k \in 1 .. Len(written) + Len(x)
                /\ ~(Taken + k <= Len(written))
                /\ Taken + k - Len(written) = k - Len(wire)
            BY <1>1, <2>3, <4>2, <5>1 DEF Taken
          <5>3. wire'[k] = x[k - Len(wire)]
            BY <2>3, <4>2, <5>1
          <5>4. \A j \in 1 .. Len(written) + Len(x) :
                   ~(j <= Len(written)) => written'[j] = x[j - Len(written)]
            BY <2>3
          <5>5. written'[Taken + k] = x[Taken + k - Len(written)]
            BY <1>1, <5>1, <5>2, <5>4
          <5> QED
            BY <2>4, <5>2, <5>3, <5>5
        <4> QED
          BY <4>1, <4>2
      <3>2. Len(wire') <= Len(written')
        BY <1>1, <2>3
      <3> QED
        BY <3>1, <3>2 DEF WireInv
    <2>7. ~Dead
      BY <1>3 DEF SendFragment, Dead
    <2>8. sent' = sent /\ Lengths' = Lengths
      BY <1>3 DEF SendFragment, Lengths
    <2> QED
      BY <1>1, <1>2, <2>4, <2>5, <2>6, <2>7, <2>8, WritingIsSafe
  <1>4. CASE ~SendFragment(s)
    <2>1. UNCHANGED <<wire, written>>
      BY <1>4 DEF SendRun, Sending, SendLock, SendPacket, SendReturns, SendRaises,
         SendEnds
    <2>2. Taken' = Taken /\ WireInv' /\ Dead' = Dead
      BY <1>2, <2>1 DEF CaptureInv, WireInv, Taken, Dead
    <2>3. /\ Len(sent) <= Len(sent')
          /\ \A m \in 1 .. Len(sent) : Lengths'[m] = Lengths[m]
      <3>1. CASE SendPacket(s)
        BY <1>1, <3>1, SentGrows
      <3>2. CASE ~SendPacket(s)
        <4>1. sent' = sent
          BY <1>4, <3>2 DEF SendRun, Sending, SendLock, SendReturns, SendRaises, SendEnds
        <4>2. Lengths' = Lengths
          BY <4>1 DEF Lengths
        <4> QED
          BY <1>1, <4>1, <4>2
      <3> QED
        BY <3>1, <3>2
    <2> QED
      BY <1>1, <1>2, <2>1, <2>2, <2>3, WritingIsSafe
  <1> QED
    BY <1>3, <1>4

\* No step of this kind moves the reader or a byte.
LEMMA OtherStep ==
    ASSUME TypeOK, CaptureInv,
           UNCHANGED <<rpc, buffer, need, pdu, packets, wire, written, sent>>,
           link = "closed" => link' = "closed"
    PROVE  CaptureInv'
  <1>1. Taken' = Taken /\ WireInv' /\ (Dead => Dead') /\ Lengths' = Lengths
    BY DEF CaptureInv, WireInv, Taken, Dead, Lengths
  <1>2. Len(sent) \in Nat /\ Len(sent') \in Nat /\ Len(sent) <= Len(sent')
    BY DEF TypeOK
  <1> QED
    BY <1>1, <1>2, WritingIsSafe

-----------------------------------------------------------------------------
(* The reader's steps, with one reading thread. *)

\* What the thread knows of the message it is in.
LEMMA InMessage ==
    ASSUME TypeOK, WrittenInv, CaptureInv, NEW r \in Readers, Within(r),
           NEW i \in Nat \ {0}, Taken - Len(buffer[r]) + i <= Len(written)
    PROVE  /\ Len(packets) + 1 \in 1 .. Len(sent)
           /\ i <= Whole => written[Taken - Len(buffer[r]) + i] =
                               ByteAt(Len(packets) + 1, i)
  <1> DEFINE n == Taken - Len(buffer[r])
             c == Len(packets)
             len == Lengths
             N == Len(sent)
  <1>1. len \in [1 .. N -> Nat \ {0}]
    BY LengthsType
  <1>2. /\ written \in Seq(Byte) /\ N \in Nat /\ c \in Nat
        /\ Ordered(written, len) /\ CompleteAt(written, len, c, n)
    BY DEF TypeOK, WrittenInv, Within
  <1>3. n \in 0 .. Len(written) /\ n + i <= Len(written)
    BY DEF TypeOK, Within, Taken
  <1> HIDE DEF n, c, len, N
  <1>4. /\ c + 1 \in 1 .. N
        /\ i <= len[c + 1] => written[n + i] = ByteAt(c + 1, i)
    BY SMTT(30), <1>1, <1>2, <1>3, MessageAt
  <1> QED
    BY <1>4 DEF n, c, len, N, Whole

\* The header of a message, then its PDU.
LEMMA WholeIs ==
    ASSUME TypeOK, Len(packets) + 1 \in 1 .. Len(sent)
    PROVE  /\ Whole = HeaderSize + PduLength[sent[Len(packets) + 1]]
           /\ HeaderSize \in Nat \ {0}
           /\ PduLength[sent[Len(packets) + 1]] \in Nat
           /\ sent[Len(packets) + 1] \in Packets
  <1>1. sent[Len(packets) + 1] \in Packets
    BY ElementOfSeq DEF TypeOK
  <1> QED
    BY <1>1, SerializedIs, StreamAssumption DEF Whole, Lengths

\* A step that takes no byte and appends nothing leaves the reader where it was.
LEMMA StaysThere ==
    ASSUME CaptureInv, UNCHANGED <<written, wire, sent, packets, link>>
    PROVE  /\ WireInv' /\ PacketsInv'
           /\ Between' = Between /\ Dead' = Dead /\ Whole' = Whole
           /\ \A r \in Readers : buffer'[r] = buffer[r] => Within(r)' = Within(r)
  <1>1. Taken' = Taken /\ Lengths' = Lengths
    BY DEF Taken, Lengths
  <1> QED
    BY <1>1 DEF CaptureInv, WireInv, PacketsInv, Between, Dead, Whole, Within

\* With a whole message in the buffer, deserialize() finds that message.
LEMMA MessageFound ==
    ASSUME TypeOK, WrittenInv, CaptureInv, NEW r \in Readers,
           Within(r), buffer[r] # <<>>, Len(buffer[r]) = Whole
    PROVE  /\ MessageOf(buffer[r]) = Len(packets) + 1
           /\ Len(packets) + 1 \in 1 .. Len(sent)
           /\ CompleteAt(written, Lengths, Len(packets) + 1, Taken)
  <1> DEFINE c == Len(packets) + 1
             b == buffer[r]
  <1>1. /\ c \in 1 .. Len(sent) /\ c \in Nat \ {0} /\ Len(b) \in Nat \ {0}
        /\ b \in Seq(Byte)
    BY DEF Within, TypeOK
  <1>2. /\ Len(b) = HeaderSize + PduLength[sent[c]] /\ sent[c] \in Packets
        /\ HeaderSize + PduLength[sent[c]] \in Nat \ {0}
    BY <1>1, WholeIs
  <1>3. b = Serialized(c, sent[c])
    <2>1. \A k \in 1 .. Len(b) : b[k] = [msg |-> c, pos |-> k]
      BY DEF Within, ByteAt
    <2>2. /\ Serialized(c, sent[c]) \in Seq(Byte)
          /\ Len(Serialized(c, sent[c])) = Len(b)
          /\ \A k \in 1 .. Len(b) : Serialized(c, sent[c])[k] = [msg |-> c, pos |-> k]
      BY <1>1, <1>2, SerializedIs
    <2> DEFINE M == Serialized(c, sent[c])
    <2> HIDE DEF b, M
    <2>3. /\ b \in Seq(Byte) /\ M \in Seq(Byte) /\ Len(b) = Len(M)
          /\ \A k \in 1 .. Len(b) : b[k] = M[k]
      BY <1>1, <2>1, <2>2 DEF M
    <2>4. b = M
      BY <2>3, SeqEqual
    <2> QED
      BY <2>4 DEF M
  <1>4. b[1].msg = c
    <2>1. 1 \in 1 .. Len(b)
      BY <1>1
    <2>2. b[1] = ByteAt(c, 1)
      BY <2>1 DEF Within
    <2> QED
      BY <2>2 DEF ByteAt
  <1>5. CompleteAt(written, Lengths, c, Taken)
    <2>1. /\ Taken - Len(b) + Len(b) = Taken /\ Taken \in Nat \ {0}
          /\ Taken <= Len(written)
      BY <1>1 DEF TypeOK, Within, Taken, CaptureInv, WireInv
    <2>2. written[Taken] = ByteAt(c, Len(b)) /\ Len(b) = Lengths[c]
      <3>1. Taken - Len(b) + Len(b) <= Len(written) /\ Len(b) <= Whole
        BY <1>1, <2>1
      <3>2. written[Taken - Len(b) + Len(b)] = ByteAt(c, Len(b))
        BY <1>1, <3>1, InMessage
      <3> QED
        BY <2>1, <3>2 DEF Whole
    <2> QED
      BY <1>1, <2>1, <2>2 DEF CompleteAt
  <1> HIDE DEF b, c
  <1>6. MessageOf(b) = c
    BY <1>1, <1>3, <1>4 DEF MessageOf
  <1> QED
    BY <1>1, <1>5, <1>6 DEF b, c

\* The header of a message declares the length of its PDU.
LEMMA HeaderFound ==
    ASSUME TypeOK, CaptureInv, NEW r \in Readers,
           Within(r), Len(buffer[r]) = HeaderSize
    PROVE  /\ Len(packets) + 1 \in 1 .. Len(sent)
           /\ Declared(buffer[r]) = {PduLength[sent[Len(packets) + 1]]}
  <1> DEFINE c == Len(packets) + 1
             b == buffer[r]
  <1>1. /\ c \in 1 .. Len(sent) /\ c \in Nat \ {0} /\ b \in Seq(Byte)
        /\ HeaderSize \in Nat \ {0} /\ \A k \in 1 .. HeaderSize : b[k] = [msg |-> c, pos |-> k]
    BY SMTT(30), StreamAssumption DEF Within, TypeOK, ByteAt
  <1> DEFINE H(m) == SubSeq(Serialized(m, sent[m]), 1, HeaderSize)
  <1>2. ASSUME NEW m \in 1 .. Len(sent)
        PROVE  /\ H(m) \in Seq(Byte) /\ Len(H(m)) = HeaderSize
               /\ \A k \in 1 .. HeaderSize : H(m)[k] = [msg |-> m, pos |-> k]
    <2>1. m \in Nat \ {0} /\ sent[m] \in Packets
      BY ElementOfSeq DEF TypeOK
    <2> DEFINE M == Serialized(m, sent[m])
    <2>2. /\ M \in Seq(Byte) /\ Len(M) = HeaderSize + PduLength[sent[m]]
          /\ PduLength[sent[m]] \in Nat
          /\ \A k \in 1 .. HeaderSize + PduLength[sent[m]] : M[k] = [msg |-> m, pos |-> k]
      BY <2>1, SerializedIs
    <2> HIDE DEF M
    <2>3. \A k \in 1 .. HeaderSize : k \in 1 .. HeaderSize + PduLength[sent[m]] /\ 1 + k - 1 = k
      BY <1>1, <2>2
    <2>4. \A k \in 1 .. HeaderSize : M[k] \in Byte
      BY <2>2, <2>3, ElementOfSeq
    <2>5. /\ SubSeq(M, 1, HeaderSize) \in Seq(Byte)
          /\ Len(SubSeq(M, 1, HeaderSize)) = IF 1 <= HeaderSize THEN HeaderSize - 1 + 1 ELSE 0
          /\ \A k \in 1 .. HeaderSize - 1 + 1 : SubSeq(M, 1, HeaderSize)[k] = M[1 + k - 1]
      BY <1>1, <2>4, SubSeqProperties
    <2>6. HeaderSize - 1 + 1 = HeaderSize /\ 1 <= HeaderSize
      BY <1>1
    <2> HIDE DEF H
    <2>7. H(m) = SubSeq(M, 1, HeaderSize)
      BY DEF H, M
    <2> QED
      BY <2>2, <2>3, <2>5, <2>6, <2>7
  <1>3. b = H(c)
    <2> HIDE DEF b, c, H
    <2>1. Len(b) = HeaderSize
      BY DEF b
    <2> QED
      BY <1>1, <1>2, <2>1, SeqEqual
  <1>4. ASSUME NEW m \in 1 .. Len(sent), b = H(m) PROVE m = c
    <2>1. 1 \in 1 .. HeaderSize
      BY <1>1
    <2>2. b[1] = [msg |-> c, pos |-> 1] /\ H(m)[1] = [msg |-> m, pos |-> 1]
      BY <1>1, <1>2, <2>1
    <2>3. [msg |-> c, pos |-> 1].msg = c /\ [msg |-> m, pos |-> 1].msg = m
      OBVIOUS
    <2> QED
      BY <1>4, <2>2, <2>3
  <1>5. {m \in 1 .. Len(sent) : b = H(m)} = {c}
    BY <1>1, <1>3, <1>4
  <1>6. Declared(b) = {PduLength[sent[c]]}
    BY <1>5 DEF Declared
  <1> QED
    BY <1>1, <1>6

\* Bytes taken off the connection are the next ones of the message.
LEMMA RecvStep ==
    ASSUME TypeOK, WrittenInv, CaptureInv, NEW r \in Readers, Recv(r),
           \A t \in Readers : t = r
    PROVE  CaptureInv'
  <1> DEFINE b == buffer[r]
             c == Len(packets) + 1
  <1>1. PICK n \in 1 .. Smaller(need[r], Len(wire)) :
           /\ buffer' = [buffer EXCEPT ![r] = @ \o SubSeq(wire, 1, n)]
           /\ wire' = SubSeq(wire, n + 1, Len(wire))
           /\ need' = [need EXCEPT ![r] = @ - n]
    BY DEF Recv
  <1>2. /\ need[r] \in Nat /\ Len(wire) \in Nat /\ Len(written) \in Nat
        /\ Len(b) \in Nat /\ wire \in Seq(Byte) /\ b \in Seq(Byte)
        /\ pdu[r] \in Nat /\ Len(packets) \in Nat
    BY DEF TypeOK
  <1>3. n \in Nat \ {0} /\ n <= need[r] /\ n <= Len(wire)
    BY <1>2 DEF Smaller
  <1>4. /\ UNCHANGED <<rpc, pdu, packets, written, sent, link>>
        /\ rpc[r] \in {"header", "pdu"}
    BY DEF Recv, senderVars
  <1>5. /\ Within(r)
        /\ rpc[r] = "header" => Len(b) + need[r] = HeaderSize
        /\ rpc[r] = "pdu" => Len(b) + need[r] + pdu[r] = Whole
    <2>1. wire # <<>>
      BY <1>2, <1>3
    <2> QED
      BY <1>4, <2>1 DEF CaptureInv, PlaceInv, Dead
  <1>6. /\ SubSeq(wire, 1, n) \in Seq(Byte) /\ Len(SubSeq(wire, 1, n)) = n
        /\ \A k \in 1 .. n : SubSeq(wire, 1, n)[k] = wire[k]
        /\ Len(wire') = Len(wire) - n
        /\ \A k \in 1 .. Len(wire) - n : wire'[k] = wire[n + k]
    <2>1. \A k \in 1 .. Len(wire) : wire[k] \in Byte
      BY <1>2, ElementOfSeq
    <2>2. /\ \A k \in 1 .. n : wire[k] \in Byte
          /\ \A k \in n + 1 .. Len(wire) : wire[k] \in Byte
      BY <1>2, <1>3, <2>1
    <2>3. /\ SubSeq(wire, 1, n) \in Seq(Byte)
          /\ Len(SubSeq(wire, 1, n)) = IF 1 <= n THEN n - 1 + 1 ELSE 0
          /\ \A k \in 1 .. n - 1 + 1 : SubSeq(wire, 1, n)[k] = wire[1 + k - 1]
      BY <1>3, <2>2, SubSeqProperties
    <2>4. /\ Len(wire') = IF n + 1 <= Len(wire) THEN Len(wire) - (n + 1) + 1 ELSE 0
          /\ \A k \in 1 .. Len(wire) - (n + 1) + 1 : wire'[k] = wire[n + 1 + k - 1]
      <3>1. n + 1 \in Int /\ Len(wire) \in Int
        BY <1>2, <1>3
      <3> QED
        BY <1>1, <2>2, <3>1, SubSeqProperties
    <2>5. /\ n - 1 + 1 = n /\ 1 <= n
          /\ Len(wire) - (n + 1) + 1 = Len(wire) - n
          /\ n + 1 > Len(wire) => Len(wire) - n = 0
      BY <1>2, <1>3
    <2>6. \A k \in 1 .. n : 1 + k - 1 = k
      BY <1>3
    <2>7. \A k \in 1 .. Len(wire) - n : n + 1 + k - 1 = n + k
      BY <1>2, <1>3
    <2>8. /\ Len(SubSeq(wire, 1, n)) = n
          /\ \A k \in 1 .. n : SubSeq(wire, 1, n)[k] = wire[k]
      <3> DEFINE x == SubSeq(wire, 1, n)
      <3> HIDE DEF x
      <3>1. Len(x) = n
        BY <2>3, <2>5 DEF x
      <3>2. \A k \in 1 .. n : x[k] = wire[1 + k - 1]
        BY <2>3, <2>5 DEF x
      <3>3. \A k \in 1 .. n : x[k] = wire[k]
        BY <2>6, <3>2
      <3> QED
        BY <3>1, <3>3 DEF x
    <2>9. \A k \in 1 .. Len(wire) - n : wire'[k] = wire[n + 1 + k - 1]
      BY <2>4, <2>5
    <2>10. \A k \in 1 .. Len(wire) - n : wire'[k] = wire[n + k]
      BY <2>7, <2>9
    <2>11. Len(wire') = Len(wire) - n
      <3>1. CASE n + 1 <= Len(wire)
        BY <2>4, <2>5, <3>1
      <3>2. CASE ~(n + 1 <= Len(wire))
        <4>1. Len(wire') = 0 /\ n + 1 > Len(wire)
          BY <1>2, <1>3, <2>4, <3>2
        <4> QED
          BY <2>5, <4>1
      <3> QED
        BY <3>1, <3>2
    <2> QED
      BY <2>3, <2>8, <2>10, <2>11
  <1>7. Taken \in Nat /\ Taken' = Taken + n /\ Taken + n <= Len(written)
    BY <1>2, <1>3, <1>4, <1>6 DEF Taken, CaptureInv, WireInv
  <1>8. WireInv'
    <2>1. ASSUME NEW k \in 1 .. Len(wire') PROVE wire'[k] = written'[Taken' + k]
      <3>1. n + k \in 1 .. Len(wire) /\ Taken + (n + k) = Taken' + k
        BY <1>2, <1>3, <1>6, <1>7
      <3>2. wire[n + k] = written[Taken + (n + k)]
        BY <3>1 DEF CaptureInv, WireInv
      <3> QED
        BY <1>4, <1>6, <3>1, <3>2
    <2>2. Len(wire') <= Len(written')
      BY <1>2, <1>3, <1>4, <1>6 DEF CaptureInv, WireInv
    <2> QED
      BY <2>1, <2>2 DEF WireInv
  <1>9. Len(b) <= Taken
    BY <1>5 DEF Within
  \* The bytes taken now, and where they were written.
  <1>10. ASSUME NEW k \in 1 .. n
         PROVE  /\ c \in 1 .. Len(sent)
                /\ Len(b) + k <= Whole => wire[k] = ByteAt(c, Len(b) + k)
    <2>1. /\ Len(b) + k \in Nat \ {0} /\ Taken - Len(b) + (Len(b) + k) = Taken + k
          /\ Taken + k <= Len(written) /\ k \in 1 .. Len(wire)
      <3> HIDE DEF b
      <3> QED
        BY <1>2, <1>3, <1>7
    <2>2. wire[k] = written[Taken + k]
      BY <2>1 DEF CaptureInv, WireInv
    <2>3. Taken - Len(b) + (Len(b) + k) <= Len(written)
      BY <2>1
    <2>4. /\ c \in 1 .. Len(sent)
          /\ Len(b) + k <= Whole =>
                written[Taken - Len(b) + (Len(b) + k)] = ByteAt(c, Len(b) + k)
      BY <1>5, <2>1, <2>3, InMessage
    <2> QED
      BY <2>1, <2>2, <2>4
  <1>11. /\ c \in 1 .. Len(sent) /\ Whole \in Nat
         /\ Len(b) + n <= Whole
         /\ \A k \in 1 .. n : wire[k] = ByteAt(c, Len(b) + k)
    <2>1. 1 \in 1 .. n
      BY <1>3
    <2>2. c \in 1 .. Len(sent)
      BY <1>10, <2>1
    <2>3. /\ Whole = HeaderSize + PduLength[sent[c]]
          /\ HeaderSize \in Nat /\ PduLength[sent[c]] \in Nat
      BY <2>2, WholeIs
    <2>4. Len(b) + n <= Whole /\ Whole \in Nat
      <3> DEFINE x == Len(b)
                 y == need[r]
                 z == pdu[r]
                 l == PduLength[sent[c]]
                 full == Whole
      <3>1. /\ x \in Nat /\ y \in Nat /\ z \in Nat /\ n \in Nat /\ n <= y
            /\ l \in Nat /\ HeaderSize \in Nat /\ full = HeaderSize + l
        BY <1>2, <1>3, <2>3
      <3>2. x + y = HeaderSize \/ x + y + z = full
        BY <1>4, <1>5
      <3> HIDE DEF x, y, z, l, full
      <3>3. x + n <= full /\ full \in Nat
        BY <3>1, <3>2
      <3> QED
        BY <3>3 DEF x, full
    <2>5. \A k \in 1 .. n : Len(b) + k <= Whole
      BY <1>2, <1>3, <2>4
    <2> QED
      BY <1>10, <2>2, <2>4, <2>5
  <1> HIDE DEF b, c
  <1> DEFINE d == buffer'[r]
  <1>12. /\ Len(d) = Len(b) + n /\ d # <<>>
         /\ \A k \in 1 .. Len(b) : d[k] = b[k]
         /\ \A k \in 1 .. n : d[Len(b) + k] = wire[k]
    <2>1. d = b \o SubSeq(wire, 1, n)
      BY <1>1 DEF TypeOK, b
    <2> HIDE DEF d
    <2>2. /\ d \in Seq(Byte) /\ Len(d) = Len(b) + n
          /\ \A k \in 1 .. Len(b) + n :
                d[k] = IF k <= Len(b) THEN b[k] ELSE SubSeq(wire, 1, n)[k - Len(b)]
      BY <1>2, <1>6, <2>1, ConcatProperties
    <2>3. \A k \in 1 .. Len(b) : k \in 1 .. Len(b) + n /\ k <= Len(b)
      BY <1>2, <1>3
    <2>4. \A k \in 1 .. n : /\ Len(b) + k \in 1 .. Len(b) + n
                            /\ ~(Len(b) + k <= Len(b)) /\ Len(b) + k - Len(b) = k
      BY <1>2, <1>3
    <2>5. d # <<>>
      BY <1>2, <1>3, <2>2
    <2>6. \A k \in 1 .. n : d[Len(b) + k] = wire[k]
      BY <1>6, <2>2, <2>4
    <2> QED
      BY <2>2, <2>3, <2>5, <2>6
  <1>13. Within(r)'
    <2>1. ASSUME NEW k \in 1 .. Len(d) PROVE d[k] = ByteAt(c, k)
      <3>1. CASE k \in 1 .. Len(b)
        BY <1>5, <1>12, <3>1 DEF Within, b, c
      <3>2. CASE k \notin 1 .. Len(b)
        <4>1. k - Len(b) \in 1 .. n /\ Len(b) + (k - Len(b)) = k
          BY <1>2, <1>3, <1>12, <3>2
        <4> QED
          BY <1>11, <1>12, <4>1
      <3> QED
        BY <3>1, <3>2
    <2>2. Len(d) <= Taken' /\ Taken' - Len(d) = Taken - Len(b)
      BY <1>2, <1>3, <1>7, <1>9, <1>12
    <2>3. CompleteAt(written, Lengths, Len(packets), Taken - Len(b))
      BY <1>5 DEF Within, b
    <2>4. Lengths' = Lengths
      BY <1>4 DEF Lengths
    <2>5. c <= Len(sent)
      BY <1>11
    <2> HIDE DEF d
    <2>6. /\ Len(d) <= Taken'
          /\ CompleteAt(written', Lengths', Len(packets'), Taken' - Len(d))
          /\ \A k \in 1 .. Len(d) : d[k] = ByteAt(Len(packets') + 1, k)
          /\ d # <<>> => Len(packets') + 1 <= Len(sent')
      BY <1>4, <2>1, <2>2, <2>3, <2>4, <2>5 DEF c
    <2> QED
      BY <2>6 DEF Within, d
  <1>14. Whole' = Whole /\ need'[r] = need[r] - n
    BY <1>1, <1>4 DEF Whole, Lengths, TypeOK
  <1>15. /\ Len(d) + need'[r] = Len(b) + need[r]
         /\ Len(d) + need'[r] + pdu[r] = Len(b) + need[r] + pdu[r]
    <2> HIDE DEF d
    <2> QED
      BY <1>2, <1>3, <1>12, <1>14
  <1>16. PlaceInv'
    BY <1>4, <1>5, <1>12, <1>13, <1>14, <1>15 DEF PlaceInv, b
  <1>17. PacketsInv'
    BY <1>4 DEF CaptureInv, PacketsInv
  <1> QED
    BY <1>8, <1>16, <1>17 DEF CaptureInv

\* The message in the buffer is the next one, and appended as that.
LEMMA AppendStep ==
    ASSUME TypeOK, WrittenInv, CaptureInv, NEW r \in Readers, ReadAppend(r),
           \A t \in Readers : t = r
    PROVE  /\ CaptureInv'
           /\ packets' = Append(packets, Len(packets) + 1)
           /\ Len(packets) + 1 \in 1 .. Len(sent)
           /\ UNCHANGED sent
  <1>1. Within(r) /\ buffer[r] # <<>> /\ Len(buffer[r]) = Whole
    BY DEF ReadAppend, CaptureInv, PlaceInv
  <1>2. /\ MessageOf(buffer[r]) = Len(packets) + 1
        /\ Len(packets) + 1 \in 1 .. Len(sent)
        /\ CompleteAt(written, Lengths, Len(packets) + 1, Taken)
    BY <1>1, MessageFound
  <1>3. /\ UNCHANGED <<written, wire, sent, link>> /\ rpc'[r] = "loop"
        /\ packets' = Append(packets, Len(packets) + 1)
    BY <1>2 DEF ReadAppend, senderVars, TypeOK
  <1>4. /\ Len(packets) \in Nat /\ Len(packets') = Len(packets) + 1
        /\ packets'[Len(packets) + 1] = Len(packets) + 1
        /\ \A k \in 1 .. Len(packets) : packets'[k] = packets[k]
    <2>1. packets \in Seq(0 .. Len(sent)) /\ Len(packets) + 1 \in 0 .. Len(sent)
      BY <1>2 DEF TypeOK
    <2> QED
      BY <1>3, <2>1, AppendProperties
  <1>5. Taken' = Taken /\ Lengths' = Lengths
    BY <1>3 DEF Taken, Lengths
  <1>6. WireInv'
    BY <1>3, <1>5 DEF CaptureInv, WireInv
  <1>7. PacketsInv'
    <2>1. Len(packets') <= Len(sent')
      BY <1>2, <1>3, <1>4
    <2>2. ASSUME NEW k \in 1 .. Len(packets') PROVE packets'[k] = k
      <3>1. k \in 1 .. Len(packets) \/ k = Len(packets) + 1
        BY <1>4
      <3> QED
        BY <1>4, <3>1 DEF CaptureInv, PacketsInv
    <2> QED
      BY <2>1, <2>2 DEF PacketsInv
  <1>8. Between'
    BY <1>2, <1>3, <1>4, <1>5 DEF Between
  <1>9. PlaceInv'
    BY <1>3, <1>8 DEF PlaceInv
  <1> QED
    BY <1>2, <1>3, <1>6, <1>7, <1>9 DEF CaptureInv

LEMMA ReaderStep ==
    ASSUME TypeOK, WrittenInv, CaptureInv, NEW r \in Readers,
           ReadRun(r) \/ Reading(r), \A t \in Readers : t = r
    PROVE  CaptureInv'
  <1>1. CASE Recv(r)
    BY <1>1, RecvStep
  <1>2. CASE ReadAppend(r)
    BY <1>2, AppendStep
  <1>3. CASE ~Recv(r) /\ ~ReadAppend(r)
    <2>1. UNCHANGED <<written, wire, sent, packets, link>>
      BY <1>3 DEF ReadRun, Reading, ReadLoop, ReadHeader, ReadChunk, ReadMessage,
         ReadEnds, senderVars
    <2>2. /\ WireInv' /\ PacketsInv'
          /\ Between' = Between /\ Dead' = Dead /\ Whole' = Whole
          /\ buffer'[r] = buffer[r] => Within(r)' = Within(r)
      BY <2>1, StaysThere
    <2>3. /\ rpc[r] \in {"idle", "loop"} => Between \/ Dead
          /\ rpc[r] = "header" =>
                /\ Len(buffer[r]) + need[r] = HeaderSize
                /\ Within(r) \/ (Dead /\ buffer[r] = <<>>)
          /\ rpc[r] = "pdu" =>
                /\ Within(r) /\ buffer[r] # <<>>
                /\ Len(buffer[r]) + need[r] + pdu[r] = Whole
          /\ rpc[r] = "append" => Within(r)
      BY DEF CaptureInv, PlaceInv
    <2>4. /\ Len(buffer[r]) \in Nat /\ need[r] \in Nat /\ pdu[r] \in Nat
          /\ HeaderSize \in Nat \ {0}
      BY StreamAssumption DEF TypeOK
    <2>5. CASE ReadRun(r)
      BY <2>2, <2>3, <2>5 DEF ReadRun, TypeOK, CaptureInv, PlaceInv
    <2>6. CASE ReadLoop(r)
      <3>1. CASE readStop
        BY <2>2, <2>3, <2>6, <3>1 DEF ReadLoop, TypeOK, CaptureInv, PlaceInv
      <3>2. CASE ~readStop
        <4>1. /\ rpc'[r] = "header" /\ buffer'[r] = <<>> /\ need'[r] = HeaderSize
              /\ rpc[r] = "loop"
          BY <2>6, <3>2 DEF ReadLoop, TypeOK
        <4>2. Between => Within(r)'
          <5>1. Taken \in Nat /\ Taken' = Taken /\ Taken - 0 = Taken /\ Lengths' = Lengths
            BY <2>1 DEF Taken, Lengths, TypeOK, CaptureInv, WireInv
          <5> QED
            BY <2>1, <4>1, <5>1 DEF Between, Within
        <4>3. Len(<<>>) + HeaderSize = HeaderSize
          BY <2>4
        <4> QED
          BY <2>2, <2>3, <4>1, <4>2, <4>3 DEF CaptureInv, PlaceInv
      <3> QED
        BY <3>1, <3>2
    <2>7. CASE ReadHeader(r)
      <3>1. Len(buffer[r]) = HeaderSize /\ buffer[r] # <<>> /\ Within(r)
        BY <2>3, <2>4, <2>7 DEF ReadHeader
      <3> DEFINE l == PduLength[sent[Len(packets) + 1]]
      <3>2. Declared(buffer[r]) = {l} /\ l \in Nat /\ Whole = HeaderSize + l
        BY <3>1, HeaderFound, WholeIs
      <3>3. /\ rpc'[r] = "pdu" /\ pdu'[r] = l
            /\ UNCHANGED <<buffer, need>> /\ need[r] = 0
        BY <2>7, <3>2 DEF ReadHeader, TypeOK
      <3> HIDE DEF l
      <3>4. HeaderSize + 0 + l = HeaderSize + l
        BY <2>4, <3>2
      <3> QED
        BY <2>2, <3>1, <3>2, <3>3, <3>4 DEF CaptureInv, PlaceInv
    <2>8. CASE ReadChunk(r)
      <3>1. /\ rpc' = rpc /\ rpc[r] = "pdu" /\ buffer' = buffer /\ need[r] = 0
            /\ need'[r] = Chunk(pdu[r]) /\ pdu'[r] = pdu[r] - Chunk(pdu[r])
        BY <2>8 DEF ReadChunk, TypeOK
      <3>2. Chunk(pdu[r]) \in Int
        <4>1. rfrag \in Int
          BY StreamAssumption DEF TypeOK
        <4> QED
          BY <2>4, <4>1 DEF Chunk, Smaller
      <3>3. Len(buffer[r]) + need'[r] + pdu'[r] = Len(buffer[r]) + need[r] + pdu[r]
        BY <2>4, <3>1, <3>2
      <3> QED
        BY <2>2, <2>3, <3>1, <3>3 DEF CaptureInv, PlaceInv
    <2>9. CASE ReadMessage(r)
      <3>1. /\ Within(r) /\ buffer[r] # <<>> /\ Len(buffer[r]) = Whole
        BY <2>3, <2>4, <2>9 DEF ReadMessage
      <3>2. MessageOf(buffer[r]) # Mangled
        BY <3>1, MessageFound DEF Mangled, TypeOK
      <3>3. rpc'[r] = "append" /\ buffer' = buffer
        BY <2>9, <3>2 DEF ReadMessage, TypeOK
      <3> QED
        BY <2>2, <3>1, <3>3 DEF CaptureInv, PlaceInv
    <2>10. CASE ReadEnds(r)
      <3>1. rpc'[r] = "idle" /\ Dead
        BY <2>10 DEF ReadEnds, TypeOK, Dead
      <3> QED
        BY <2>2, <3>1 DEF CaptureInv, PlaceInv
    <2> QED
      BY <1>3, <2>5, <2>6, <2>7, <2>8, <2>9, <2>10 DEF Reading
  <1> QED
    BY <1>1, <1>2, <1>3

\* One thread reads at a time: the bytes of a message are not shared between
\* two, which the lock of run_once() does not see to.
OneReader == \A r, q \in Readers : r = q

LEMMA CaptureStep ==
    ASSUME OneReader
    PROVE  TypeOK /\ TypeOK' /\ WrittenInv /\ CaptureInv /\ [Next]_vars
              => CaptureInv'
  <1> SUFFICES ASSUME TypeOK, TypeOK', WrittenInv, CaptureInv, [Next]_vars
               PROVE  CaptureInv'
    OBVIOUS
  <1>1. ASSUME NEW s \in Senders, SendRun(s) \/ Sending(s) PROVE CaptureInv'
    BY <1>1, SenderStep
  <1>2. ASSUME NEW r \in Readers, ReadRun(r) \/ Reading(r) PROVE CaptureInv'
    BY <1>2, ReaderStep DEF OneReader
  <1>3. ASSUME /\ UNCHANGED <<rpc, buffer, need, pdu, packets, wire, written, sent>>
               /\ link = "closed" => link' = "closed"
        PROVE  CaptureInv'
    BY <1>3, OtherStep
  <1> QED
    BY <1>1, <1>2, <1>3
    DEF Next, SendSetFrag, ReadSetFrag, SendStop, ReadStop, Close, vars,
        senderVars, readerVars

-----------------------------------------------------------------------------
(* The refinement. *)

\* What a receiver with the packets q has of the messages m.
Received(q, m) == [k \in 1 .. Len(q) |-> IF q[k] = Mangled THEN Mangled ELSE m[q[k]]]

Delivered == Received(packets, sent)

LEMMA ReceivedIs ==
    ASSUME NEW m \in Seq(Packets), NEW q \in Seq(0 .. Len(m)),
           Len(q) <= Len(m), \A k \in 1 .. Len(q) : q[k] = k
    PROVE  /\ Received(q, m) = [k \in 1 .. Len(q) |-> m[k]]
           /\ Received(q, m) \in Seq(Packets)
           /\ Len(Received(q, m)) = Len(q)
  <1>1. /\ Len(q) \in Nat /\ Len(m) \in Nat
        /\ \A k \in 1 .. Len(q) : k \in 1 .. Len(m) /\ k # Mangled
    BY DEF Mangled
  <1>2. Received(q, m) = [k \in 1 .. Len(q) |-> m[k]]
    BY <1>1 DEF Received
  <1>3. \A k \in 1 .. Len(q) : m[k] \in Packets
    BY <1>1, ElementOfSeq
  <1>4. Received(q, m) \in [1 .. Len(q) -> Packets]
    BY <1>2, <1>3
  <1> QED
    BY <1>1, <1>2, <1>4, SeqDef, LenProperties

LEMMA RefinementInit == Init => Capture!Init
  BY DEF Init, Capture!Init

LEMMA RefinementStep ==
    ASSUME OneReader
    PROVE  TypeOK /\ TypeOK' /\ WrittenInv /\ CaptureInv /\ CaptureInv' /\ [Next]_vars
              => [Capture!Next]_Capture!vars
  <1> SUFFICES ASSUME TypeOK, TypeOK', WrittenInv, CaptureInv, CaptureInv',
                      [Next]_vars
               PROVE  [Capture!Next]_Capture!vars
    OBVIOUS
  <1>1. /\ Delivered = [k \in 1 .. Len(packets) |-> sent[k]]
        /\ Delivered \in Seq(Packets) /\ Len(Delivered) = Len(packets)
    BY ReceivedIs DEF TypeOK, CaptureInv, PacketsInv, Delivered
  <1>2. /\ Delivered' = [k \in 1 .. Len(packets') |-> sent'[k]]
        /\ Delivered' \in Seq(Packets) /\ Len(Delivered') = Len(packets')
    <2>1. /\ sent' \in Seq(Packets) /\ packets' \in Seq(0 .. Len(sent'))
          /\ Len(packets') <= Len(sent')
          /\ \A k \in 1 .. Len(packets') : packets'[k] = k
      BY DEF TypeOK, CaptureInv, PacketsInv
    <2> QED
      BY <2>1, ReceivedIs DEF Delivered
  <1>3. ASSUME NEW s \in Senders, SendPacket(s)
        PROVE  Delivered' = Delivered /\ next[s] \in Packets /\ sent' = Append(sent, next[s])
    <2>1. \A m \in 1 .. Len(sent) : sent'[m] = sent[m]
      BY <1>3, SentGrows
    <2>2. packets' = packets /\ \A k \in 1 .. Len(packets) : k \in 1 .. Len(sent)
      BY <1>3 DEF SendPacket, readerVars, CaptureInv, PacketsInv, TypeOK
    <2>3. \A k \in 1 .. Len(packets) : sent'[k] = sent[k]
      BY <2>1, <2>2
    <2> QED
      BY <1>1, <1>2, <1>3, <2>2, <2>3 DEF SendPacket
  <1>4. ASSUME NEW r \in Readers, ReadAppend(r)
        PROVE  /\ Delivered' = Append(Delivered, sent[Len(Delivered) + 1])
               /\ Len(Delivered) < Len(sent) /\ sent' = sent
    <2>1. /\ packets' = Append(packets, Len(packets) + 1)
          /\ Len(packets) + 1 \in 1 .. Len(sent) /\ sent' = sent
      BY <1>4, AppendStep DEF OneReader
    <2>2. /\ packets \in Seq(0 .. Len(sent)) /\ Len(packets) \in Nat
          /\ Len(packets) + 1 \in 0 .. Len(sent) /\ Len(sent) \in Nat
      <3>1. packets \in Seq(0 .. Len(sent)) /\ sent \in Seq(Packets)
        BY DEF TypeOK
      <3>2. Len(packets) \in Nat /\ Len(sent) \in Nat
        BY <3>1
      <3> QED
        BY <2>1, <3>1, <3>2
    <2>3. Len(packets') = Len(packets) + 1
      BY <2>1, <2>2, AppendProperties
    <2>4. sent[Len(packets) + 1] \in Packets
      BY <2>1, ElementOfSeq DEF TypeOK
    <2> DEFINE d == Append(Delivered, sent[Len(Delivered) + 1])
    <2>5. /\ d \in Seq(Packets) /\ Len(d) = Len(packets) + 1
          /\ \A k \in 1 .. Len(packets) : d[k] = Delivered[k]
          /\ d[Len(packets) + 1] = sent[Len(packets) + 1]
      BY <1>1, <2>4, AppendProperties
    <2>6. \A k \in 1 .. Len(packets) + 1 : Delivered'[k] = sent[k]
      BY <1>2, <2>1, <2>3
    <2>7. \A k \in 1 .. Len(packets) + 1 : d[k] = sent[k]
      <3>1. \A k \in 1 .. Len(packets) + 1 : k \in 1 .. Len(packets) \/ k = Len(packets) + 1
        BY <2>2
      <3>2. \A k \in 1 .. Len(packets) : d[k] = sent[k]
        BY <1>1, <2>5
      <3> QED
        BY <2>5, <3>1, <3>2
    <2> HIDE DEF d
    <2>8. Delivered' = d
      BY <1>2, <2>3, <2>5, <2>6, <2>7, SeqEqual
    <2>9. Len(Delivered) < Len(sent)
      BY <1>1, <2>1, <2>2
    <2> QED
      BY <2>1, <2>8, <2>9 DEF d
  <1>5. ASSUME UNCHANGED <<sent, packets>> PROVE Delivered' = Delivered
    BY <1>5 DEF Delivered
  <1>6. ASSUME NEW s \in Senders, SendPacket(s) PROVE [Capture!Next]_Capture!vars
    BY <1>3, <1>6 DEF Capture!Next, Capture!Send, Delivered, Received
  <1>7. ASSUME NEW r \in Readers, ReadAppend(r) PROVE [Capture!Next]_Capture!vars
    BY <1>4, <1>7 DEF Capture!Next, Capture!Deliver, Delivered, Received
  <1>8. ASSUME UNCHANGED <<sent, packets>> PROVE [Capture!Next]_Capture!vars
    BY <1>5, <1>8 DEF Capture!vars, Delivered, Received
  <1> QED
    BY <1>6, <1>7, <1>8
    DEF Next, Sending, SendRun, SendLock, SendFragment, SendReturns, SendRaises,
        SendEnds, SendSetFrag, SendStop, Close, Reading, ReadRun, ReadLoop, Recv,
        ReadHeader, ReadChunk, ReadMessage, ReadEnds, ReadSetFrag, ReadStop,
        vars, senderVars, readerVars

\* The receiver ends up with the messages that were sent, whole, once each and
\* in order, for any number of sending threads, every fragment size on either
\* side, and the connection closed or either end stopped at any moment: one
\* reading thread, and a socket that takes whole fragments.
THEOREM StreamImplementsChannel ==
    ASSUME ~ShortSends, OneReader
    PROVE  Spec => CapturesWhatIsSent
  <1> DEFINE Inv == TypeOK /\ LockInv /\ WrittenInv /\ CaptureInv
  <1>1. Init => Inv
    BY TypeInit, LockInit, WrittenInit, CaptureInit
  <1>2. Inv /\ [Next]_vars => Inv'
    BY TypeStep, LockStep, WrittenStep, CaptureStep
  <1>3. Inv /\ Inv' /\ [Next]_vars => [Capture!Next]_Capture!vars
    BY RefinementStep
  <1> HIDE DEF Inv
  <1>4. Spec => []Inv
    BY <1>1, <1>2, PTL DEF Spec
  <1> QED
    BY <1>3, <1>4, RefinementInit, PTL DEF Spec, CapturesWhatIsSent, Capture!Spec

=============================================================================
