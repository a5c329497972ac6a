---------------------------- MODULE ExchangeProof ----------------------------
(***************************************************************************)
(* Exchange's invariants, for every call, header and frame.                *)
(*                                                                         *)
(* The first half is about the codecs: that a class lays its fields out    *)
(* one after the other, that Serialize and Deserialize are inverse for     *)
(* every class, that the parser finds the class again, and the same of the *)
(* header and of a whole frame.  With them a step of Exchange is a matter  *)
(* of which class answers which.                                           *)
(***************************************************************************)
EXTENDS Exchange, SequenceTheorems, TLAPS

\* The widths of a field.
Width == {1, 2}

-----------------------------------------------------------------------------
(* Numbers.                                                                *)

LEMMA FitsIs ==
    ASSUME NEW v
    PROVE  /\ Fits(v, 1) => v \in Int /\ 0 <= v /\ v <= 255
           /\ Fits(v, 2) => v \in Int /\ 0 <= v /\ v <= 65535
           /\ v \in Int /\ 0 <= v /\ v <= 255 => Fits(v, 1)
           /\ v \in Int /\ 0 <= v /\ v <= 65535 => Fits(v, 2)
  <1> DEFINE m == 256 ^ 1
             n == 256 ^ 2
  <1>1. Fits(v, 1) <=> v \in 0 .. m - 1
    BY DEF Fits
  <1>2. Fits(v, 2) <=> v \in 0 .. n - 1
    BY DEF Fits
  <1>3. m = 256 /\ n = 65536
    OBVIOUS
  <1> HIDE DEF m, n
  <1>4. ASSUME Fits(v, 1) PROVE v \in Int /\ 0 <= v /\ v <= 255
    BY <1>1, <1>3, <1>4
  <1>5. ASSUME Fits(v, 2) PROVE v \in Int /\ 0 <= v /\ v <= 65535
    <2>1. n \in Int
      BY <1>3
    <2>2. v \in Int /\ 0 <= v /\ v <= n - 1
      BY <1>2, <1>5, <2>1
    <2> QED
      BY <1>3, <2>2
  <1>6. ASSUME v \in Int, 0 <= v, v <= 255 PROVE Fits(v, 1)
    BY <1>1, <1>3, <1>6
  <1>7. ASSUME v \in Int, 0 <= v, v <= 65535 PROVE Fits(v, 2)
    <2>1. n \in Int
      BY <1>3
    <2>2. v <= n - 1
      BY <1>3, <1>7
    <2>3. v \in 0 .. n - 1
      BY ONLY <1>7, <2>1, <2>2
    <2> QED
      BY <1>2, <2>3
  <1> QED
    BY <1>4, <1>5, <1>6, <1>7

LEMMA OctetIs == \A v : v \in Octet <=> v \in Int /\ 0 <= v /\ v <= 255
  <1> SUFFICES ASSUME NEW v PROVE v \in Octet <=> v \in Int /\ 0 <= v /\ v <= 255
    OBVIOUS
  <1>1. PICK n \in Int : n = 255 /\ Octet = 0 .. n
    BY DEF Octet
  <1>2. v \in 0 .. n <=> v \in Int /\ 0 <= v /\ v <= n
    BY <1>1
  <1> QED
    BY <1>1, <1>2

\* The two bytes of a word, and the word of two bytes.
LEMMA WordSplits ==
    ASSUME NEW v \in Int, 0 <= v, v <= 65535,
           NEW a, a = v \div 256, NEW b, b = v % 256
    PROVE  a \in Octet /\ b \in Octet /\ a * 256 + b = v
  <1>1. a \in Int /\ 0 <= a /\ a <= 255
    OBVIOUS
  <1>2. b \in Int /\ 0 <= b /\ b <= 255
    OBVIOUS
  <1>3. a * 256 + b = v
    OBVIOUS
  <1> QED
    BY <1>1, <1>2, <1>3, OctetIs

LEMMA WordJoins ==
    ASSUME NEW a \in Octet, NEW b \in Octet
    PROVE  /\ (a * 256 + b) \div 256 = a /\ (a * 256 + b) % 256 = b
           /\ a * 256 + b \in Int /\ 0 <= a * 256 + b /\ a * 256 + b <= 65535
  <1>1. a \in Int /\ 0 <= a /\ a <= 255 /\ b \in Int /\ 0 <= b /\ b <= 255
    BY OctetIs
  <1> QED
    BY <1>1

LEMMA BigEndianIs ==
    ASSUME NEW w \in Width, NEW v, Fits(v, w)
    PROVE  /\ BigEndian(v, w) \in Seq(Octet) /\ Len(BigEndian(v, w)) = w
           /\ Number(BigEndian(v, w)) = v
  <1>1. CASE w = 1
    <2>1. v \in Octet
      BY <1>1, FitsIs, OctetIs
    <2> QED
      BY <1>1, <2>1 DEF BigEndian, Number
  <1>2. CASE w = 2
    <2>1. v \in Int /\ 0 <= v /\ v <= 65535
      BY <1>2, FitsIs
    <2>2. PICK a, b : a = v \div 256 /\ b = v % 256 /\ BigEndian(v, w) = <<a, b>>
      BY <1>2 DEF BigEndian
    <2>3. a \in Octet /\ b \in Octet /\ a * 256 + b = v
      BY <2>1, <2>2, WordSplits
    <2>4. <<a, b>> \in Seq(Octet) /\ Len(<<a, b>>) = 2 /\ Number(<<a, b>>) = v
      BY <2>3 DEF Number
    <2> QED
      BY <1>2, <2>2, <2>4
  <1> QED
    BY <1>1, <1>2 DEF Width

LEMMA NumberIs ==
    ASSUME NEW b \in Seq(Octet), NEW w \in Width, Len(b) = w
    PROVE  Fits(Number(b), w) /\ BigEndian(Number(b), w) = b /\ Number(b) \in Int
  <1>1. CASE w = 1
    <2>1. b[1] \in Octet /\ b = <<b[1]>>
      BY <1>1
    <2>2. Number(b) = b[1] /\ BigEndian(b[1], 1) = <<b[1]>>
      BY <1>1 DEF Number, BigEndian
    <2>3. Fits(b[1], 1) /\ b[1] \in Int
      BY <2>1, OctetIs, FitsIs
    <2> QED
      BY <1>1, <2>1, <2>2, <2>3
  <1>2. CASE w = 2
    <2>1. b[1] \in Octet /\ b[2] \in Octet
      BY <1>2, ElementOfSeq
    <2>2. PICK x \in Octet, y \in Octet : x = b[1] /\ y = b[2]
      BY <2>1
    <2>3. b = <<x, y>>
      BY <1>2, <2>2
    <2> DEFINE n == x * 256 + y
    <2>4. Number(b) = n
      BY <1>2, <2>2 DEF Number
    <2>5. n \div 256 = x /\ n % 256 = y /\ n \in Int /\ 0 <= n /\ n <= 65535
      BY WordJoins
    <2>6. BigEndian(n, 2) = <<n \div 256, n % 256>>
      BY DEF BigEndian
    <2> HIDE DEF n
    <2>7. Fits(n, 2)
      BY <2>5, FitsIs
    <2> QED
      BY ONLY <1>2, <2>3, <2>4, <2>5, <2>6, <2>7
  <1> QED
    BY <1>1, <1>2 DEF Width

-----------------------------------------------------------------------------
(* How a class lays a PDU out.                                             *)

\* What every class is: at most five fields of one or two bytes each, and a
\* tail of such items or none.
Layout(class) ==
    /\ class.widths \in Seq(Width) /\ Len(class.widths) <= 5
    /\ class.item \in {0, 1, 2}

LEMMA EndsAre ==
    ASSUME NEW w \in Seq(Width), Len(w) <= 5
    PROVE  /\ FieldEnds(w)[0] = 1
           /\ \A k \in 1 .. Len(w) : FieldEnds(w)[k] = FieldEnds(w)[k - 1] + w[k]
  <1> DEFINE F(e) == [k \in 0 .. Len(w) |-> IF k = 0 THEN 1 ELSE e[k - 1] + w[k]]
             g == [k \in 0 .. Len(w) |->
                     IF k = 0 THEN 1
                     ELSE IF k = 1 THEN 1 + w[1]
                     ELSE IF k = 2 THEN 1 + w[1] + w[2]
                     ELSE IF k = 3 THEN 1 + w[1] + w[2] + w[3]
                     ELSE IF k = 4 THEN 1 + w[1] + w[2] + w[3] + w[4]
                     ELSE 1 + w[1] + w[2] + w[3] + w[4] + w[5]]
  <1>0. Len(w) \in Nat
    OBVIOUS
  <1>1. g = F(g)
    <2>1. ASSUME NEW k \in 0 .. Len(w) PROVE g[k] = IF k = 0 THEN 1 ELSE g[k - 1] + w[k]
      <3>1. k \in Nat /\ k <= 5 /\ (k # 0 => k - 1 \in 0 .. Len(w))
        BY <1>0
      <3>2. CASE k = 0
        BY <3>2, <1>0
      <3>3. CASE k = 1
        BY <3>3, <1>0
      <3>4. CASE k = 2
        BY <3>4, <1>0
      <3>5. CASE k = 3
        BY <3>5, <1>0
      <3>6. CASE k = 4
        BY <3>6, <1>0
      <3>7. CASE k = 5
        BY <3>7, <1>0
      <3> QED
        BY <3>1, <3>2, <3>3, <3>4, <3>5, <3>6, <3>7
    <2> HIDE DEF g
    <2>2. \A k \in 0 .. Len(w) : g[k] = F(g)[k]
      BY <2>1
    <2>3. g = [k \in 0 .. Len(w) |-> g[k]]
      BY DEF g
    <2> QED
      BY <2>2, <2>3
  <1> HIDE DEF g
  <1> DEFINE h == CHOOSE e : e = F(e)
  <1>2. h = F(h)
    BY <1>1
  <1>3. FieldEnds(w) = h
    BY DEF FieldEnds
  <1> HIDE DEF h
  <1>4. \A k \in 0 .. Len(w) : h[k] = F(h)[k]
    BY <1>2
  <1> QED
    BY <1>0, <1>3, <1>4

\* The ends ascend from the function code to the head's last byte.
LEMMA EndsAscend ==
    ASSUME NEW w \in Seq(Width), Len(w) <= 5
    PROVE  /\ \A k \in 0 .. Len(w) : /\ FieldEnds(w)[k] \in Nat /\ 1 <= FieldEnds(w)[k]
                                     /\ FieldEnds(w)[k] <= FieldEnds(w)[Len(w)]
           /\ FieldEnds(w)[Len(w)] <= 11
  <1> DEFINE e == FieldEnds(w)
             n == Len(w)
  <1>1. e[0] = 1 /\ \A k \in 1 .. n : e[k] = e[k - 1] + w[k]
    BY EndsAre
  <1>2. n \in Nat /\ n <= 5 /\ \A k \in 1 .. n : w[k] = 1 \/ w[k] = 2
    BY ElementOfSeq DEF Width
  <1> HIDE DEF e, n
  <1>3. ASSUME NEW i \in Nat, NEW k \in Nat, k = i + 1, k <= n, e[i] \in Nat
        PROVE  e[k] \in Nat /\ e[i] <= e[k] /\ e[k] <= e[i] + 2
    <2>1. k \in 1 .. n /\ k - 1 = i
      BY <1>2, <1>3
    <2>2. e[k] = e[i] + w[k] /\ (w[k] = 1 \/ w[k] = 2)
      BY <1>1, <1>2, <2>1
    <2> QED
      BY <1>3, <2>2
  <1>4. 1 <= n => e[1] \in Nat /\ 1 <= e[1] /\ e[0] <= e[1] /\ e[1] <= 3
    BY <1>1, <1>3
  <1>5. 2 <= n => e[2] \in Nat /\ 1 <= e[2] /\ e[1] <= e[2] /\ e[2] <= 5
    BY <1>2, <1>3, <1>4
  <1>6. 3 <= n => e[3] \in Nat /\ 1 <= e[3] /\ e[2] <= e[3] /\ e[3] <= 7
    BY <1>2, <1>3, <1>5
  <1>7. 4 <= n => e[4] \in Nat /\ 1 <= e[4] /\ e[3] <= e[4] /\ e[4] <= 9
    BY <1>2, <1>3, <1>6
  <1>8. 5 <= n => e[5] \in Nat /\ 1 <= e[5] /\ e[4] <= e[5] /\ e[5] <= 11
    BY <1>2, <1>3, <1>7
  <1>9. e[n] <= 11 /\ \A k \in Nat : k <= n => e[k] \in Nat /\ 1 <= e[k] /\ e[k] <= e[n]
    <2>1. n = 0 \/ n = 1 \/ n = 2 \/ n = 3 \/ n = 4 \/ n = 5
      BY <1>2
    <2>2. ASSUME NEW k \in Nat, k <= n PROVE k = 0 \/ k = 1 \/ k = 2 \/ k = 3 \/ k = 4 \/ k = 5
      BY <1>2, <2>2
    <2>3. \A k \in Nat : k <= n => e[k] \in Nat /\ 1 <= e[k]
      BY <1>1, <1>4, <1>5, <1>6, <1>7, <1>8, <2>2
    <2>4. 5 <= n => e[5] <= e[n]
      BY <1>8, <2>1
    <2>5. 4 <= n => e[4] <= e[n]
      BY <1>8, <2>1, <2>3, <2>4
    <2>6. 3 <= n => e[3] <= e[n]
      BY <1>7, <2>1, <2>3, <2>5
    <2>7. 2 <= n => e[2] <= e[n]
      BY <1>6, <2>1, <2>3, <2>6
    <2>8. 1 <= n => e[1] <= e[n]
      BY <1>5, <2>1, <2>3, <2>7
    <2>9. e[0] <= e[n]
      BY <1>4, <2>1, <2>3, <2>8
    <2>10. \A k \in Nat : k <= n => e[k] <= e[n]
      BY <2>2, <2>4, <2>5, <2>6, <2>7, <2>8, <2>9
    <2>11. e[n] <= 11
      BY <1>1, <1>4, <1>5, <1>6, <1>7, <1>8, <2>1
    <2> QED
      BY <2>3, <2>10, <2>11
  <1> QED
    BY <1>2, <1>9 DEF e, n

\* The first i of the sequences s, one after the other, end at the places e.
Joined(f, s, e, i) ==
    /\ f \in Seq(Octet) /\ Len(f) = e[i] - 1
    /\ \A k \in 1 .. i : \A j \in 1 .. Len(s[k]) :
          e[k - 1] - 1 + j \in 1 .. Len(f) /\ f[e[k - 1] - 1 + j] = s[k][j]

LEMMA JoinOne ==
    ASSUME NEW s \in Seq(Seq(Octet)), NEW n \in Nat, n = Len(s),
           NEW e, \A k \in 0 .. n : e[k] \in Nat /\ 1 <= e[k],
           \A k \in 1 .. n : e[k] = e[k - 1] + Len(s[k]),
           NEW i \in Nat, NEW m \in 1 .. n, i = m - 1, NEW f, Joined(f, s, e, i)
    PROVE  Joined(f \o s[m], s, e, m)
  <1> DEFINE g == f \o s[m]
  <1>1. s[m] \in Seq(Octet) /\ f \in Seq(Octet)
    BY ElementOfSeq DEF Joined
  <1>2. /\ g \in Seq(Octet) /\ Len(g) = Len(f) + Len(s[m])
        /\ \A k \in 1 .. Len(f) + Len(s[m]) :
              g[k] = IF k <= Len(f) THEN f[k] ELSE s[m][k - Len(f)]
    BY <1>1, ConcatProperties
  <1> HIDE DEF g
  <1>3. Len(f) = e[i] - 1 /\ e[i] \in Nat /\ 1 <= e[i] /\ e[m] = e[i] + Len(s[m])
    BY DEF Joined
  <1>4. Len(f) \in Nat /\ Len(s[m]) \in Nat
    BY <1>1
  <1>5. ASSUME NEW k \in 1 .. m, NEW j \in 1 .. Len(s[k])
        PROVE  e[k - 1] - 1 + j \in 1 .. Len(g) /\ g[e[k - 1] - 1 + j] = s[k][j]
    <2>1. CASE k = m
      <3>1. e[k - 1] - 1 + j = Len(f) + j /\ j \in 1 .. Len(s[m])
        BY <1>3, <2>1
      <3>2. /\ Len(f) + j \in 1 .. Len(f) + Len(s[m]) /\ ~(Len(f) + j <= Len(f))
            /\ Len(f) + j - Len(f) = j
        BY <3>1, <1>4
      <3>3. g[Len(f) + j] = s[m][j] /\ Len(f) + j \in 1 .. Len(g)
        BY <3>2, <1>2
      <3> QED
        BY <3>1, <3>3, <2>1
    <2>2. CASE k # m
      <3>1. k \in 1 .. i
        BY <2>2
      <3>2. e[k - 1] - 1 + j \in 1 .. Len(f) /\ f[e[k - 1] - 1 + j] = s[k][j]
        BY <3>1 DEF Joined
      <3> DEFINE x == e[k - 1] - 1 + j
      <3> HIDE DEF x
      <3>3. x \in 1 .. Len(f) /\ x \in 1 .. Len(f) + Len(s[m]) /\ x <= Len(f)
        BY <3>2, <1>4 DEF x
      <3>4. g[x] = f[x] /\ x \in 1 .. Len(g)
        BY <3>3, <1>2
      <3> QED
        BY <3>2, <3>4 DEF x
    <2> QED
      BY <2>1, <2>2
  <1>6. Len(g) = e[m] - 1
    BY <1>2, <1>3, <1>4
  <1> QED
    BY <1>2, <1>5, <1>6 DEF Joined, g

\* FlattenSeq joins what a class has fields for.
LEMMA Flattened ==
    ASSUME NEW s \in Seq(Seq(Octet)), NEW n \in Nat, n = Len(s), n <= 5,
           NEW e, e[0] = 1, \A k \in 0 .. n : e[k] \in Nat /\ 1 <= e[k],
           \A k \in 1 .. n : e[k] = e[k - 1] + Len(s[k])
    PROVE  Joined(FlattenSeq(s), s, e, n)
  <1> DEFINE F(g) == [i \in 1 .. Len(s) |-> IF i = 1 THEN s[i] ELSE g[i - 1] \o s[i]]
             c1 == s[1]
             c2 == c1 \o s[2]
             c3 == c2 \o s[3]
             c4 == c3 \o s[4]
             c5 == c4 \o s[5]
             c == [i \in 1 .. Len(s) |-> IF i = 1 THEN c1 ELSE IF i = 2 THEN c2
                                         ELSE IF i = 3 THEN c3 ELSE IF i = 4 THEN c4 ELSE c5]
             h == CHOOSE g : g = F(g)
  <1>1. c2 = c1 \o s[2] /\ c3 = c2 \o s[3] /\ c4 = c3 \o s[4] /\ c5 = c4 \o s[5]
    OBVIOUS
  <1>2. c1 = s[1]
    OBVIOUS
  <1> HIDE DEF c1, c2, c3, c4, c5
  <1>3. ASSUME NEW i \in 1 .. n PROVE c[i] = IF i = 1 THEN s[i] ELSE c[i - 1] \o s[i]
    <2>1. i = 1 \/ i = 2 \/ i = 3 \/ i = 4 \/ i = 5
      OBVIOUS
    <2> QED
      BY <1>1, <1>2, <2>1
  <1>4. c = [i \in 1 .. Len(s) |-> c[i]]
    OBVIOUS
  <1> HIDE DEF c
  <1>5. c = F(c)
    BY <1>3, <1>4
  <1>6. h = F(h)
    BY <1>5
  <1> HIDE DEF h
  <1>7. \A i \in 1 .. n : h[i] = IF i = 1 THEN s[i] ELSE h[i - 1] \o s[i]
    BY <1>6
  <1>8. FlattenSeq(s) = IF n = 0 THEN s ELSE h[n]
    BY DEF FlattenSeq, h
  <1>9. 1 <= n => Joined(h[1], s, e, 1)
    <2> SUFFICES ASSUME 1 <= n PROVE Joined(h[1], s, e, 1)
      OBVIOUS
    <2>0. 1 \in 1 .. n
      OBVIOUS
    <2>1. h[1] = s[1] /\ s[1] \in Seq(Octet) /\ e[1] = e[0] + Len(s[1])
      BY <1>7, <2>0, ElementOfSeq
    <2>2. \A k \in 1 .. 1 : k = 1 /\ k - 1 = 0
      OBVIOUS
    <2>3. Len(s[1]) \in Nat
      BY <2>1
    <2>4. Len(h[1]) = e[1] - 1
      BY <2>1, <2>3
    <2>5. \A j \in 1 .. Len(s[1]) : e[0] - 1 + j \in 1 .. Len(h[1]) /\ h[1][e[0] - 1 + j] = s[1][j]
      BY <2>1, <2>3
    <2> QED
      BY <2>1, <2>2, <2>4, <2>5 DEF Joined
  <1>10. ASSUME NEW i \in Nat, NEW m \in Nat, m = i + 1, 1 <= i, m <= n, Joined(h[i], s, e, i)
         PROVE  Joined(h[m], s, e, m)
    <2>1. m \in 1 .. n /\ i = m - 1 /\ m # 1
      BY <1>10
    <2>2. h[m] = h[i] \o s[m]
      BY <1>7, <2>1
    <2> QED
      BY <1>10, <2>1, <2>2, JoinOne
  <1>11. 2 <= n => Joined(h[2], s, e, 2)
    BY <1>9, <1>10
  <1>12. 3 <= n => Joined(h[3], s, e, 3)
    BY <1>11, <1>10
  <1>13. 4 <= n => Joined(h[4], s, e, 4)
    BY <1>12, <1>10
  <1>14. 5 <= n => Joined(h[5], s, e, 5)
    BY <1>13, <1>10
  <1>15. CASE n = 0
    <2>1. FlattenSeq(s) = s /\ s = <<>>
      BY <1>8, <1>15, EmptySeq
    <2>2. <<>> \in Seq(Octet) /\ Len(<<>>) = 0
      OBVIOUS
    <2>3. \A k \in 1 .. n : FALSE
      BY <1>15
    <2>4. Joined(<<>>, s, e, n)
      BY <2>2, <2>3, <1>15 DEF Joined
    <2> QED
      BY <2>1, <2>4
  <1>16. CASE n # 0
    <2>1. \A i \in Nat : i # 0 /\ i <= 5 => i = 1 \/ i = 2 \/ i = 3 \/ i = 4 \/ i = 5
      OBVIOUS
    <2>2. n = 1 \/ n = 2 \/ n = 3 \/ n = 4 \/ n = 5
      BY <1>16, <2>1
    <2> QED
      BY <1>8, <1>9, <1>11, <1>12, <1>13, <1>14, <1>16, <2>2
  <1> QED
    BY <1>15, <1>16

\* The items of a tail, one after the other.
Items(item, tail) ==
    [k \in 1 .. item * Len(tail) |->
        BigEndian(tail[(k - 1) \div item + 1], item)[((k - 1) % item) + 1]]

LEMMA ItemsAre ==
    ASSUME NEW item \in {0, 1, 2}, NEW tail \in Seq(Int), item = 0 => tail = <<>>,
           \A k \in 1 .. Len(tail) : Fits(tail[k], item)
    PROVE  /\ Items(item, tail) \in Seq(Octet)
           /\ Len(Items(item, tail)) = item * Len(tail)
           /\ \A k \in 1 .. Len(tail) : \A j \in 1 .. item :
                 Items(item, tail)[(k - 1) * item + j] = BigEndian(tail[k], item)[j]
  <1> DEFINE T == Items(item, tail)
             N == Len(tail)
             L == item * N
  <1>0. N \in Nat
    OBVIOUS
  <1>1. CASE item = 0
    <2>1. N = 0 /\ L = 0
      BY <1>1
    <2>2. T = <<>>
      <3>1. T = [k \in 1 .. 0 |->
                   BigEndian(tail[(k - 1) \div item + 1], item)[((k - 1) % item) + 1]]
        BY <2>1 DEF Items
      <3> QED
        BY <3>1
    <2>3. T \in Seq(Octet) /\ Len(T) = L /\ \A k \in 1 .. N : FALSE
      BY <2>1, <2>2
    <2> QED
      BY <2>3
  <1>2. CASE item = 1
    <2>1. ASSUME NEW k \in 1 .. N
          PROVE  /\ k \in 1 .. item * N /\ (k - 1) \div item + 1 = k /\ ((k - 1) % item) + 1 = 1
                 /\ BigEndian(tail[k], item)[1] \in Octet
      <3>1. k \in 1 .. item * N /\ (k - 1) \div item + 1 = k /\ ((k - 1) % item) + 1 = 1
        BY <1>0, <1>2
      <3>2. BigEndian(tail[k], 1) \in Seq(Octet) /\ Len(BigEndian(tail[k], 1)) = 1
        BY <1>2, BigEndianIs DEF Width
      <3> QED
        BY <1>2, <3>1, <3>2
    <2>2. item * N = N
      BY <1>0, <1>2
    <2>3. \A k \in 1 .. N : T[k] = BigEndian(tail[k], item)[1] /\ T[k] \in Octet
      BY <2>1, <2>2 DEF Items
    <2>4. T = [k \in 1 .. N |-> T[k]]
      BY <2>2 DEF Items
    <2> HIDE DEF T
    <2>5. T \in Seq(Octet) /\ Len(T) = N
      BY <1>0, <2>3, <2>4
    <2>6. ASSUME NEW k \in 1 .. N, NEW j \in 1 .. item
          PROVE  T[(k - 1) * item + j] = BigEndian(tail[k], item)[j]
      <3>1. j = 1 /\ (k - 1) * item + j = k
        BY <1>0, <1>2
      <3> QED
        BY <2>3, <3>1
    <2> QED
      BY <2>2, <2>5, <2>6 DEF T
  <1>3. CASE item = 2
    <2>1. ASSUME NEW k \in 1 .. 2 * N, NEW q, NEW r, q = (k - 1) \div 2, r = (k - 1) % 2
          PROVE  /\ q + 1 \in 1 .. N /\ r + 1 \in 1 .. 2 /\ 2 * q + r + 1 = k
      BY <1>0, <2>1
    <2>2. ASSUME NEW k \in 1 .. N
          PROVE  BigEndian(tail[k], 2) \in Seq(Octet) /\ Len(BigEndian(tail[k], 2)) = 2
      BY <1>3, BigEndianIs DEF Width
    <2>3. T = [k \in 1 .. 2 * N |-> BigEndian(tail[(k - 1) \div 2 + 1], 2)[((k - 1) % 2) + 1]]
      BY <1>3 DEF Items
    <2> HIDE DEF T
    <2>4. ASSUME NEW k \in 1 .. 2 * N
          PROVE  T[k] \in Octet
      <3>1. PICK q, r : q = (k - 1) \div 2 /\ r = (k - 1) % 2
                        /\ T[k] = BigEndian(tail[q + 1], 2)[r + 1]
        BY <2>3
      <3>2. q + 1 \in 1 .. N /\ r + 1 \in 1 .. 2
        BY <2>1, <3>1
      <3> QED
        BY <2>2, <3>1, <3>2, ElementOfSeq
    <2>5. T \in Seq(Octet) /\ Len(T) = 2 * N
      BY <1>0, <2>3, <2>4
    <2>6. ASSUME NEW k \in 1 .. N, NEW j \in 1 .. 2
          PROVE  T[(k - 1) * 2 + j] = BigEndian(tail[k], 2)[j]
      <3>1. PICK i : i = (k - 1) * 2 + j /\ i \in 1 .. 2 * N
        BY <1>0
      <3>2. PICK q, r : q = (i - 1) \div 2 /\ r = (i - 1) % 2
                        /\ T[i] = BigEndian(tail[q + 1], 2)[r + 1]
        BY <2>3, <3>1
      <3>3. q + 1 = k /\ r + 1 = j
        <4>1. k \in Int /\ (j = 1 \/ j = 2)
          BY <1>0
        <4>2. CASE j = 1
          BY <3>1, <3>2, <4>1, <4>2
        <4>3. CASE j = 2
          BY <3>1, <3>2, <4>1, <4>3
        <4> QED
          BY <4>1, <4>2, <4>3
      <3> QED
        BY <3>1, <3>2, <3>3
    <2> QED
      BY <1>3, <2>5, <2>6 DEF T
  <1> QED
    BY <1>1, <1>2, <1>3

-----------------------------------------------------------------------------
(* Serialize and Deserialize.                                              *)

\* A PDU has what its class has places for.
Shaped(pdu) ==
    /\ pdu \in Pdus
    /\ Len(pdu.fields) = Len(ClassOf(pdu).widths)
    /\ ClassOf(pdu).item = 0 => pdu.tail = <<>>

\* Where a PDU's code, fields and items are in its bytes.
Laid(pdu, class, bytes) ==
    LET ends == FieldEnds(class.widths)
        head == HeadSize(class)
    IN /\ bytes \in Seq(Octet)
       /\ Len(bytes) = head + class.item * Len(pdu.tail)
       /\ bytes[1] = WireCode(pdu)
       /\ \A k \in 1 .. Len(class.widths) : \A j \in 1 .. class.widths[k] :
             bytes[ends[k - 1] + j] = BigEndian(pdu.fields[k], class.widths[k])[j]
       /\ \A k \in 1 .. Len(pdu.tail) : \A j \in 1 .. class.item :
             bytes[head + (k - 1) * class.item + j] = BigEndian(pdu.tail[k], class.item)[j]

LEMMA Beside ==
    ASSUME NEW s \in Seq(Octet), NEW t \in Seq(Octet)
    PROVE  /\ s \o t \in Seq(Octet) /\ Len(s \o t) = Len(s) + Len(t)
           /\ Len(s) \in Nat /\ Len(t) \in Nat
           /\ \A i \in 1 .. Len(s) : (s \o t)[i] = s[i]
           /\ \A i \in 1 .. Len(t) : (s \o t)[Len(s) + i] = t[i]
  <1>1. Len(s) \in Nat /\ Len(t) \in Nat
    OBVIOUS
  <1>2. /\ s \o t \in Seq(Octet) /\ Len(s \o t) = Len(s) + Len(t)
        /\ \A i \in 1 .. Len(s) + Len(t) : (s \o t)[i] =
              IF i <= Len(s) THEN s[i] ELSE t[i - Len(s)]
    BY ConcatProperties
  <1>3. ASSUME NEW i \in 1 .. Len(s) PROVE (s \o t)[i] = s[i]
    BY <1>1, <1>2
  <1>4. ASSUME NEW i \in 1 .. Len(t) PROVE (s \o t)[Len(s) + i] = t[i]
    <2>1. /\ Len(s) + i \in 1 .. Len(s) + Len(t) /\ ~ (Len(s) + i <= Len(s))
          /\ Len(s) + i - Len(s) = i
      BY <1>1
    <2> QED
      BY <1>2, <2>1
  <1> QED
    BY <1>1, <1>2, <1>3, <1>4

LEMMA SerializeLays ==
    ASSUME NEW pdu, NEW class, class = ClassOf(pdu), Layout(class), Shaped(pdu), Packs(pdu)
    PROVE  Laid(pdu, class, Serialize(pdu))
  <1> DEFINE w == class.widths
             n == Len(w)
             e == FieldEnds(w)
             s == [k \in DOMAIN w |-> BigEndian(pdu.fields[k], w[k])]
             c == <<WireCode(pdu)>>
             f == FlattenSeq(s)
             a == c \o f
             t == Items(class.item, pdu.tail)
             b == a \o t
  <1>1. /\ w \in Seq(Width) /\ n \in Nat /\ n <= 5 /\ DOMAIN w = 1 .. n
        /\ \A k \in 1 .. n : w[k] \in Width
    BY ElementOfSeq DEF Layout
  <1>2. /\ e[0] = 1 /\ \A k \in 1 .. n : e[k] = e[k - 1] + w[k]
        /\ \A k \in 0 .. n : e[k] \in Nat /\ 1 <= e[k]
        /\ HeadSize(class) = e[n]
    BY <1>1, EndsAre, EndsAscend DEF HeadSize
  <1>3. WireCode(pdu) \in Octet
    BY FitsIs, OctetIs DEF Packs
  <1>4. \A k \in 1 .. n : Fits(pdu.fields[k], w[k])
    BY <1>1 DEF Packs
  <1>5. \A k \in 1 .. Len(pdu.tail) : Fits(pdu.tail[k], class.item)
    BY DEF Packs, Shaped, Pdus
  <1>6. /\ s \in Seq(Seq(Octet)) /\ Len(s) = n
        /\ \A k \in 1 .. n : s[k] = BigEndian(pdu.fields[k], w[k]) /\ Len(s[k]) = w[k]
    <2>1. \A k \in 1 .. n : BigEndian(pdu.fields[k], w[k]) \in Seq(Octet)
                            /\ Len(BigEndian(pdu.fields[k], w[k])) = w[k]
      BY <1>1, <1>4, BigEndianIs
    <2> QED
      BY <1>1, <2>1
  <1>7. Serialize(pdu) = b
    BY DEF Serialize, Items
  <1>8. HeadSize(class) = e[n] /\ class.item \in {0, 1, 2} /\ pdu.tail \in Seq(Int)
    BY <1>2 DEF Layout, Shaped, Pdus
  <1>t. /\ t \in Seq(Octet) /\ Len(t) = class.item * Len(pdu.tail)
        /\ \A k \in 1 .. Len(pdu.tail) : \A j \in 1 .. class.item :
              t[(k - 1) * class.item + j] = BigEndian(pdu.tail[k], class.item)[j]
    BY <1>5, <1>8, ItemsAre DEF Shaped
  <1> HIDE DEF e, s, t
  <1>9. Joined(f, s, e, n)
    <2>1. \A k \in 1 .. n : e[k] = e[k - 1] + Len(s[k])
      BY <1>2, <1>6
    <2> QED
      BY <1>1, <1>2, <1>6, <2>1, Flattened
  <1>10. c \in Seq(Octet) /\ Len(c) = 1 /\ c[1] = WireCode(pdu)
    BY <1>3
  <1> HIDE DEF c, f
  <1>11. /\ a \in Seq(Octet) /\ Len(a) = e[n] /\ a[1] = WireCode(pdu)
         /\ Len(f) \in Nat /\ \A i \in 1 .. Len(f) : a[1 + i] = f[i]
    <2>1. f \in Seq(Octet) /\ Len(f) = e[n] - 1 /\ Len(f) \in Nat
      BY <1>9 DEF Joined
    <2>2. /\ a \in Seq(Octet) /\ Len(a) = 1 + Len(f) /\ a[1] = c[1]
          /\ \A i \in 1 .. Len(f) : a[1 + i] = f[i]
      <3>1. /\ a \in Seq(Octet) /\ Len(a) = Len(c) + Len(f)
            /\ \A i \in 1 .. Len(c) : a[i] = c[i]
            /\ \A i \in 1 .. Len(f) : a[Len(c) + i] = f[i]
        BY <2>1, <1>10, Beside
      <3>2. 1 \in 1 .. Len(c)
        BY <1>10
      <3> HIDE DEF a
      <3> QED
        BY <1>10, <3>1, <3>2
    <2>3. 1 + Len(f) = e[n]
      BY <2>1, <1>1, <1>2
    <2> QED
      BY <2>1, <2>2, <2>3, <1>10
  <1> HIDE DEF a
  <1>12. /\ b \in Seq(Octet) /\ Len(b) = Len(a) + Len(t) /\ Len(a) \in Nat /\ Len(t) \in Nat
         /\ \A i \in 1 .. Len(a) : b[i] = a[i]
         /\ \A i \in 1 .. Len(t) : b[Len(a) + i] = t[i]
    BY <1>t, <1>11, Beside
  <1> HIDE DEF b
  <1>13. b[1] = WireCode(pdu)
    <2>1. n \in 0 .. n
      BY <1>1
    <2>2. 1 \in 1 .. Len(a)
      BY <2>1, <1>2, <1>11
    <2> QED
      BY <2>2, <1>11, <1>12
  <1>14. ASSUME NEW k \in 1 .. n, NEW j \in 1 .. w[k]
         PROVE  b[e[k - 1] + j] = BigEndian(pdu.fields[k], w[k])[j]
    <2>1. e[k - 1] - 1 + j \in 1 .. Len(f) /\ f[e[k - 1] - 1 + j] = s[k][j]
      BY <1>6, <1>9 DEF Joined
    <2>2. PICK i : i = e[k - 1] - 1 + j
      OBVIOUS
    <2>3. k - 1 \in 0 .. n /\ w[k] \in Nat
      BY <1>1 DEF Width
    <2>4. e[k - 1] + j = 1 + i /\ i \in 1 .. Len(f)
      <3>1. e[k - 1] \in Nat /\ j \in Int
        BY <1>2, <2>3
      <3> QED
        BY <3>1, <2>1, <2>2
    <2>5. 1 + i \in 1 .. Len(a)
      <3>1. Len(f) = e[n] - 1
        BY <1>9 DEF Joined
      <3>2. Len(f) \in Nat /\ Len(a) \in Nat /\ Len(a) = Len(f) + 1
        BY <3>1, <1>11, <1>12
      <3> QED
        BY <3>2, <2>4
    <2>6. b[1 + i] = a[1 + i] /\ a[1 + i] = f[i]
      BY <1>11, <1>12, <2>4, <2>5
    <2> QED
      BY <1>6, <2>1, <2>2, <2>4, <2>6
  <1>15. ASSUME NEW k \in 1 .. Len(pdu.tail), NEW j \in 1 .. class.item
         PROVE  b[e[n] + (k - 1) * class.item + j] = BigEndian(pdu.tail[k], class.item)[j]
    <2>1. PICK i : i = (k - 1) * class.item + j
      OBVIOUS
    <2>2. Len(pdu.tail) \in Nat
      BY <1>8
    <2>3. i \in 1 .. class.item * Len(pdu.tail) /\ e[n] + (k - 1) * class.item + j = e[n] + i
      <3>1. e[n] \in Nat /\ k \in Int /\ 1 <= k /\ k <= Len(pdu.tail) /\ j \in Int
        BY <1>1, <1>2, <2>2
      <3> DEFINE T == Len(pdu.tail)
      <3>2. CASE class.item = 1
        BY <2>1, <2>2, <3>1, <3>2
      <3>3. CASE class.item = 2
        <4>1. /\ i = (k - 1) * 2 + j
              /\ class.item * T = 2 * T /\ T \in Nat
              /\ e[n] + (k - 1) * class.item + j = e[n] + (k - 1) * 2 + j
          BY <2>1, <2>2, <3>1, <3>3
        <4>2. i \in Int
          BY <2>1, <3>1, <3>3
        <4>3. 1 <= i /\ i <= 2 * T
          BY <2>1, <2>2, <3>1, <3>3
        <4>4. e[n] + (k - 1) * 2 + j = e[n] + i
          <5>1. PICK d : d = e[n]
            OBVIOUS
          <5>2. d \in Nat /\ k \in Int /\ j \in Int /\ i = (k - 1) * 2 + j
            BY <3>1, <4>1, <5>1
          <5>3. d + (k - 1) * 2 + j = d + i
            BY ONLY <5>2
          <5> QED
            BY <5>1, <5>3
        <4> HIDE DEF T
        <4>5. i \in 1 .. 2 * T
          BY <4>1, <4>2, <4>3
        <4> QED
          BY <4>1, <4>4, <4>5 DEF T
      <3>4. class.item # 0
        OBVIOUS
      <3> QED
        BY <1>8, <3>2, <3>3, <3>4
    <2>4. b[e[n] + i] = t[i]
      <3>1. i \in 1 .. Len(t) /\ Len(a) = e[n]
        BY <2>3, <1>t, <1>11
      <3> QED
        BY <3>1, <1>12
    <2> QED
      BY <2>1, <2>3, <2>4, <1>t
  <1> QED
    BY <1>7, <1>8, <1>t, <1>11, <1>12, <1>13, <1>14, <1>15 DEF Laid, e

\* A number is read from where it was packed.
LEMMA NumberAt ==
    ASSUME NEW bytes \in Seq(Octet), NEW a \in Nat, NEW w \in Width, NEW z, z = a + w,
           z <= Len(bytes), NEW v, Fits(v, w),
           \A j \in 1 .. w : bytes[a + j] = BigEndian(v, w)[j]
    PROVE  Number(SubSeq(bytes, a + 1, z)) = v
  <1> DEFINE s == SubSeq(bytes, a + 1, z)
             u == BigEndian(v, w)
  <1>1. u \in Seq(Octet) /\ Len(u) = w /\ Number(u) = v
    BY BigEndianIs
  <1>2. w \in Nat /\ 1 <= w /\ Len(bytes) \in Nat /\ z \in Nat /\ a + 1 \in Int
    BY DEF Width
  <1>3. \A i \in a + 1 .. z : bytes[i] \in Octet
    BY <1>2, ElementOfSeq
  <1>4. /\ s \in Seq(Octet) /\ Len(s) = IF a + 1 <= z THEN z - (a + 1) + 1 ELSE 0
        /\ \A i \in 1 .. z - (a + 1) + 1 : s[i] = bytes[a + 1 + i - 1]
    BY <1>2, <1>3, SubSeqProperties
  <1> HIDE DEF s, u
  <1>5. Len(s) = w /\ z - (a + 1) + 1 = w
    BY <1>2, <1>4
  <1>6. \A i \in 1 .. w : s[i] = u[i]
    <2> SUFFICES ASSUME NEW i \in 1 .. w PROVE s[i] = u[i]
      OBVIOUS
    <2>1. s[i] = bytes[a + 1 + i - 1] /\ a + 1 + i - 1 = a + i
      BY <1>2, <1>4, <1>5
    <2> QED
      BY <2>1 DEF u
  <1>7. s = u
    BY <1>1, <1>4, <1>5, <1>6
  <1> QED
    BY <1>1, <1>7 DEF s

\* What a class packs it unpacks.
LEMMA DeserializeBack ==
    ASSUME NEW pdu, NEW class, class = ClassOf(pdu), Layout(class), Shaped(pdu), Packs(pdu),
           pdu.id = class.id
    PROVE  /\ Unpacks(class, Serialize(pdu))
           /\ Deserialize(class, Serialize(pdu)) = pdu
  <1> DEFINE w == class.widths
             n == Len(w)
             e == FieldEnds(w)
             h == HeadSize(class)
             item == class.item
             b == Serialize(pdu)
             T == Len(pdu.tail)
             fields == [k \in DOMAIN w |-> Number(SubSeq(b, e[k - 1] + 1, e[k]))]
             tail == [k \in 1 .. (Len(b) - h) \div item |->
                         Number(SubSeq(b, h + (k - 1) * item + 1, h + k * item))]
  <1>1. /\ w \in Seq(Width) /\ n \in Nat /\ n <= 5 /\ DOMAIN w = 1 .. n
        /\ \A k \in 1 .. n : w[k] \in Width /\ w[k] \in Nat
        /\ item \in {0, 1, 2}
    BY ElementOfSeq DEF Layout, Width
  <1>2. /\ \A k \in 1 .. n : e[k] = e[k - 1] + w[k]
        /\ \A k \in 0 .. n : e[k] \in Nat /\ 1 <= e[k] /\ e[k] <= h
    BY <1>1, EndsAre, EndsAscend DEF HeadSize
  <1>3. h \in Nat
    <2>1. h = e[n] /\ n \in 0 .. n
      BY <1>1 DEF HeadSize
    <2> QED
      BY <2>1, <1>2
  <1>4. /\ \A k \in 1 .. n : Fits(pdu.fields[k], w[k])
        /\ \A k \in 1 .. T : Fits(pdu.tail[k], item)
    <2>1. \A k \in 1 .. n : Fits(pdu.fields[k], w[k])
      BY <1>1 DEF Packs
    <2>2. \A k \in 1 .. T : Fits(pdu.tail[k], item)
      BY DEF Packs, Shaped, Pdus
    <2> QED
      BY <2>1, <2>2
  <1>5. /\ pdu = [id |-> pdu.id, fc |-> pdu.fc, fields |-> pdu.fields, tail |-> pdu.tail]
        /\ pdu.fc \in Nat /\ pdu.fields \in Seq(Int) /\ pdu.tail \in Seq(Int)
        /\ Len(pdu.fields) = n /\ T \in Nat
    BY DEF Shaped, Pdus
  <1>6. Laid(pdu, class, b)
    BY SerializeLays
  <1>7. /\ b \in Seq(Octet) /\ Len(b) = h + item * T /\ b[1] = WireCode(pdu)
        /\ \A k \in 1 .. n : \A j \in 1 .. w[k] :
               b[e[k - 1] + j] = BigEndian(pdu.fields[k], w[k])[j]
        /\ \A k \in 1 .. T : \A j \in 1 .. item :
              b[h + (k - 1) * item + j] = BigEndian(pdu.tail[k], item)[j]
    BY <1>6 DEF Laid
  <1>8. Deserialize(class, b) =
           [id |-> class.id,
            fc |-> IF class.id = ModbusError.id THEN b[1] - 128 ELSE b[1],
            fields |-> fields,
            tail |-> IF item = 0 THEN <<>> ELSE tail]
    BY DEF Deserialize
  <1>9. Unpacks(class, b) <=> IF item = 0 THEN Len(b) - h = 0
                              ELSE Len(b) - h >= 0 /\ (Len(b) - h) % item = 0
    BY DEF Unpacks
  <1> HIDE DEF b, e, h
  <1>10. (IF class.id = ModbusError.id THEN b[1] - 128 ELSE b[1]) = pdu.fc
    BY <1>5, <1>7 DEF WireCode
  <1>11. fields = pdu.fields
    <2>1. ASSUME NEW k \in 1 .. n PROVE fields[k] = pdu.fields[k]
      <3>1. /\ e[k - 1] \in Nat /\ e[k] = e[k - 1] + w[k] /\ e[k] <= Len(b)
            /\ w[k] \in Width /\ Fits(pdu.fields[k], w[k])
        <4>1. e[k] <= h /\ e[k] \in Nat /\ e[k - 1] \in Nat
          <5>1. k \in 0 .. n /\ k - 1 \in 0 .. n
            BY <1>1
          <5> QED
            BY <1>2, <5>1
        <4>2. h <= Len(b) /\ Len(b) \in Nat
          BY <1>1, <1>3, <1>5, <1>7
        <4>3. e[k] <= Len(b)
          BY <1>3, <4>1, <4>2
        <4> QED
          BY <1>1, <1>2, <1>4, <4>1, <4>3
      <3>2. \A j \in 1 .. w[k] : b[e[k - 1] + j] = BigEndian(pdu.fields[k], w[k])[j]
        BY <1>7
      <3>3. PICK a, z, v, x : a = e[k - 1] /\ z = e[k] /\ v = pdu.fields[k] /\ x = w[k]
        OBVIOUS
      <3>4. /\ a \in Nat /\ z = a + x /\ z <= Len(b) /\ x \in Width /\ Fits(v, x)
            /\ \A j \in 1 .. x : b[a + j] = BigEndian(v, x)[j]
            /\ b \in Seq(Octet)
        BY <1>7, <3>1, <3>2, <3>3
      <3>5. Number(SubSeq(b, a + 1, z)) = v
        BY ONLY <3>4, NumberAt
      <3>6. fields[k] = Number(SubSeq(b, a + 1, z))
        BY <1>1, <3>3
      <3> QED
        BY <3>3, <3>5, <3>6
    <2>2. fields = [k \in 1 .. n |-> fields[k]]
      BY <1>1
    <2> HIDE DEF fields
    <2>3. pdu.fields = [k \in 1 .. n |-> pdu.fields[k]]
      BY <1>5
    <2>4. [k \in 1 .. n |-> fields[k]] = [k \in 1 .. n |-> pdu.fields[k]]
      BY <2>1
    <2> QED
      BY ONLY <2>2, <2>3, <2>4
  <1>12. (Len(b) - h) \div item = T \/ item = 0
    BY <1>1, <1>3, <1>5, <1>7
  <1>13. (IF item = 0 THEN <<>> ELSE tail) = pdu.tail
    <2>1. CASE item = 0
      BY <2>1 DEF Shaped
    <2>2. CASE item # 0
      <3>1. ASSUME NEW k \in 1 .. T
            PROVE  Number(SubSeq(b, h + (k - 1) * item + 1, h + k * item)) = pdu.tail[k]
        <4>1. PICK a : a = h + (k - 1) * item
          OBVIOUS
        <4>2. PICK z : z = h + k * item
          OBVIOUS
        <4>3. a \in Nat /\ z = a + item /\ z <= Len(b) /\ item \in Width
          <5>1. h \in Nat /\ T \in Nat /\ k \in Nat /\ 1 <= k /\ k <= T
            BY <1>3, <1>5
          <5>2. CASE item = 1
            <6>1. Len(b) = h + T /\ a = h + (k - 1) /\ z = h + k
              BY <1>7, <4>1, <4>2, <5>1, <5>2
            <6> QED
              BY <5>1, <5>2, <6>1 DEF Width
          <5>3. CASE item = 2
            <6>1. Len(b) = h + 2 * T /\ a = h + (k - 1) * 2 /\ z = h + k * 2
              BY <1>7, <4>1, <4>2, <5>1, <5>3
            <6>2. a \in Nat /\ z = a + 2 /\ z <= Len(b)
              BY ONLY <5>1, <6>1
            <6> QED
              BY <5>3, <6>2 DEF Width
          <5> QED
            BY <1>1, <2>2, <5>2, <5>3
        <4>4. \A j \in 1 .. item : b[a + j] = BigEndian(pdu.tail[k], item)[j]
          BY <1>7, <4>1
        <4>5. PICK v : v = pdu.tail[k]
          OBVIOUS
        <4>6. /\ Fits(v, item) /\ b \in Seq(Octet)
              /\ \A j \in 1 .. item : b[a + j] = BigEndian(v, item)[j]
          BY <1>4, <1>7, <4>4, <4>5
        <4> HIDE DEF item
        <4>7. Number(SubSeq(b, a + 1, z)) = v
          BY ONLY <4>3, <4>6, NumberAt
        <4> QED
          BY <4>1, <4>2, <4>5, <4>7
      <3>2. tail = [k \in 1 .. T |-> Number(SubSeq(b, h + (k - 1) * item + 1, h + k * item))]
        BY <1>12, <2>2
      <3>3. tail = [k \in 1 .. T |-> pdu.tail[k]]
        BY <3>1, <3>2
      <3>4. pdu.tail = [k \in 1 .. T |-> pdu.tail[k]]
        BY <1>5
      <3>5. tail = pdu.tail
        BY ONLY <3>3, <3>4
      <3> QED
        BY <2>2, <3>5
    <2> QED
      BY <2>1, <2>2
  <1>14. Unpacks(class, b)
    <2>1. CASE item = 0
      BY <1>3, <1>5, <1>7, <1>9, <2>1
    <2>2. CASE item = 1
      BY <1>3, <1>5, <1>7, <1>9, <2>2
    <2>3. CASE item = 2
      BY <1>3, <1>5, <1>7, <1>9, <2>3
    <2> QED
      BY <1>1, <2>1, <2>2, <2>3
  <1> HIDE DEF fields, tail
  <1>15. Deserialize(class, b) = pdu
    BY <1>5, <1>8, <1>10, <1>11, <1>13
  <1> QED
    BY <1>14, <1>15 DEF b

\* A part of the bytes holds a number of its width.
LEMMA PartFits ==
    ASSUME NEW bytes \in Seq(Octet), NEW a \in Nat, NEW w \in Width, NEW z, z = a + w,
           z <= Len(bytes)
    PROVE  /\ Fits(Number(SubSeq(bytes, a + 1, z)), w)
           /\ Number(SubSeq(bytes, a + 1, z)) \in Int
           /\ w = 1 => Number(SubSeq(bytes, a + 1, z)) = bytes[z]
  <1> DEFINE s == SubSeq(bytes, a + 1, z)
  <1>1. w \in Nat /\ 1 <= w /\ Len(bytes) \in Nat /\ z \in Nat /\ a + 1 \in Int
    BY DEF Width
  <1>2. \A i \in a + 1 .. z : bytes[i] \in Octet
    BY <1>1, ElementOfSeq
  <1>3. /\ s \in Seq(Octet) /\ Len(s) = IF a + 1 <= z THEN z - (a + 1) + 1 ELSE 0
        /\ \A i \in 1 .. z - (a + 1) + 1 : s[i] = bytes[a + 1 + i - 1]
    BY <1>1, <1>2, SubSeqProperties
  <1> HIDE DEF s
  <1>4. Len(s) = w
    BY <1>1, <1>3
  <1>5. w = 1 => Number(s) = bytes[z]
    <2> SUFFICES ASSUME w = 1 PROVE Number(s) = bytes[z]
      OBVIOUS
    <2>1. s[1] = bytes[z]
      BY <1>1, <1>3
    <2> QED
      BY <1>4, <2>1 DEF Number
  <1> QED
    BY <1>3, <1>4, <1>5, NumberIs DEF s

\* What a class unpacks fits its places, whatever the bytes.
LEMMA DeserializeShapes ==
    ASSUME NEW bytes \in Seq(Octet), bytes # <<>>,
           NEW class, Layout(class), class.id \in Nat, class.id # ModbusError.id,
           Unpacks(class, bytes),
           NEW pdu, pdu = Deserialize(class, bytes)
    PROVE  /\ pdu.id = class.id /\ pdu.fc = bytes[1] /\ pdu \in Pdus
           /\ Len(pdu.fields) = Len(class.widths)
           /\ \A k \in 1 .. Len(class.widths) : Fits(pdu.fields[k], class.widths[k])
           /\ class.item = 0 => pdu.tail = <<>>
           /\ \A k \in 1 .. Len(pdu.tail) : Fits(pdu.tail[k], class.item)
           /\ Len(bytes) = HeadSize(class) + class.item * Len(pdu.tail)
           /\ class.widths = <<>> /\ class.item = 1 =>
                 \A k \in 1 .. Len(pdu.tail) : pdu.tail[k] = bytes[k + 1]
  <1> DEFINE w == class.widths
             n == Len(w)
             e == FieldEnds(w)
             h == HeadSize(class)
             item == class.item
             T == IF item = 0 THEN 0 ELSE (Len(bytes) - h) \div item
             fields == [k \in 1 .. n |-> Number(SubSeq(bytes, e[k - 1] + 1, e[k]))]
             tail == [k \in 1 .. T |->
                         Number(SubSeq(bytes, h + (k - 1) * item + 1, h + k * item))]
  <1>1. /\ w \in Seq(Width) /\ n \in Nat /\ n <= 5 /\ DOMAIN w = 1 .. n
        /\ \A k \in 1 .. n : w[k] \in Width /\ w[k] \in Nat
        /\ item \in {0, 1, 2}
    BY ElementOfSeq DEF Layout, Width
  <1>2. /\ \A k \in 1 .. n : e[k] = e[k - 1] + w[k]
        /\ \A k \in 0 .. n : e[k] \in Nat /\ 1 <= e[k] /\ e[k] <= h
    BY <1>1, EndsAre, EndsAscend DEF HeadSize
  <1>3. h \in Nat /\ Len(bytes) \in Nat /\ (w = <<>> => h = 1)
    <2>1. h = e[n] /\ n \in 0 .. n /\ (w = <<>> => n = 0)
      BY <1>1 DEF HeadSize
    <2>2. e[0] = 1
      BY <1>1, EndsAre
    <2> QED
      BY <2>1, <2>2, <1>2
  <1>4. /\ T \in Nat /\ Len(bytes) = h + item * T
    <2>1. IF item = 0 THEN Len(bytes) - h = 0
          ELSE Len(bytes) - h >= 0 /\ (Len(bytes) - h) % item = 0
      BY DEF Unpacks
    <2> HIDE DEF h
    <2>2. CASE item = 0
      BY <1>3, <2>1, <2>2
    <2>3. CASE item = 1
      BY <1>3, <2>1, <2>3
    <2>4. CASE item = 2
      BY <1>3, <2>1, <2>4
    <2> QED
      BY <1>1, <2>2, <2>3, <2>4
  <1>5. pdu = [id |-> class.id, fc |-> bytes[1], fields |-> fields, tail |-> tail]
    <2>1. pdu = [id |-> class.id, fc |-> bytes[1],
                 fields |-> [k \in DOMAIN w |-> Number(SubSeq(bytes, e[k - 1] + 1, e[k]))],
                 tail |-> IF item = 0 THEN <<>>
                          ELSE [k \in 1 .. (Len(bytes) - h) \div item |->
                                  Number(SubSeq(bytes, h + (k - 1) * item + 1, h + k * item))]]
      BY DEF Deserialize
    <2>2. CASE item = 0
      <3>1. tail = <<>>
        BY <2>2
      <3> QED
        BY <1>1, <2>1, <2>2, <3>1
    <2>3. CASE item # 0
      BY <1>1, <2>1, <2>3
    <2> QED
      BY <2>2, <2>3
  <1>6. bytes[1] \in Nat
    <2>1. 1 \in 1 .. Len(bytes)
      BY <1>3, EmptySeq
    <2>2. bytes[1] \in Octet
      BY <2>1, ElementOfSeq
    <2> QED
      BY <2>2, OctetIs
  <1> HIDE DEF e, h, T
  <1>7. ASSUME NEW k \in 1 .. n PROVE Fits(fields[k], w[k]) /\ fields[k] \in Int
    <2>1. e[k - 1] \in Nat /\ e[k] = e[k - 1] + w[k] /\ w[k] \in Width /\ e[k] <= h /\ e[k] \in Nat
      BY <1>1, <1>2
    <2>2. h <= Len(bytes)
      BY <1>1, <1>3, <1>4
    <2>3. e[k] <= Len(bytes)
      BY <1>3, <2>1, <2>2
    <2>4. PICK a, z, x : a = e[k - 1] /\ z = e[k] /\ x = w[k]
      OBVIOUS
    <2>5. a \in Nat /\ z = a + x /\ z <= Len(bytes) /\ x \in Width
      BY <2>1, <2>3, <2>4
    <2>6. Fits(Number(SubSeq(bytes, a + 1, z)), x) /\ Number(SubSeq(bytes, a + 1, z)) \in Int
      BY <2>5, PartFits
    <2>7. fields[k] = Number(SubSeq(bytes, a + 1, z))
      BY <2>4
    <2> QED
      BY <2>4, <2>6, <2>7
  <1>8. ASSUME NEW k \in 1 .. T
        PROVE  /\ Fits(tail[k], item) /\ tail[k] \in Int
               /\ w = <<>> /\ item = 1 => tail[k] = bytes[k + 1]
    <2>1. PICK a, z : a = h + (k - 1) * item /\ z = h + k * item
      OBVIOUS
    <2>2. CASE item = 0
      BY <2>2 DEF T
    <2>3. CASE item # 0
      <3>1. a \in Nat /\ z = a + item /\ z <= Len(bytes) /\ item \in Width
            /\ (item = 1 => z = h + k)
        <4>1. CASE item = 1
          BY <1>3, <1>4, <2>1, <4>1 DEF Width
        <4>2. CASE item = 2
          BY <1>3, <1>4, <2>1, <4>2 DEF Width
        <4> QED
          BY <1>1, <2>3, <4>1, <4>2
      <3>2. tail[k] = Number(SubSeq(bytes, a + 1, z))
        BY <2>1
      <3> HIDE DEF tail, item
      <3>3. Fits(tail[k], item) /\ tail[k] \in Int /\ (item = 1 => tail[k] = bytes[z])
        BY <3>1, <3>2, PartFits
      <3>4. w = <<>> /\ item = 1 => z = k + 1
        BY <1>3, <3>1
      <3> QED
        BY <3>3, <3>4
    <2> QED
      BY <2>2, <2>3
  <1>9. /\ fields \in Seq(Int) /\ Len(fields) = n /\ tail \in Seq(Int) /\ Len(tail) = T
    <2>1. fields = [k \in 1 .. n |-> fields[k]] /\ tail = [k \in 1 .. T |-> tail[k]]
      OBVIOUS
    <2> HIDE DEF fields, tail
    <2>2. n \in Nat /\ T \in Nat /\ \A k \in 1 .. n : fields[k] \in Int
      BY <1>1, <1>4, <1>7
    <2>3. \A k \in 1 .. T : tail[k] \in Int
      BY <1>8
    <2>4. fields \in Seq(Int) /\ Len(fields) = n
      <3>1. fields \in [1 .. n -> Int]
        BY <2>1, <2>2
      <3> QED
        BY ONLY <2>2, <3>1
    <2>5. tail \in Seq(Int) /\ Len(tail) = T
      <3>1. tail \in [1 .. T -> Int]
        BY <2>1, <2>3
      <3> QED
        BY ONLY <2>2, <3>1
    <2> QED
      BY <2>4, <2>5
  <1>10. item = 0 => tail = <<>>
    <2>1. item = 0 => Len(tail) = 0
      BY <1>9 DEF T
    <2> QED
      BY <1>9, <2>1, EmptySeq
  <1> HIDE DEF fields, tail
  <1>11. pdu \in Pdus
    BY <1>5, <1>6, <1>9 DEF Pdus
  <1>12. pdu.fields = fields /\ pdu.tail = tail /\ pdu.id = class.id /\ pdu.fc = bytes[1]
    BY <1>5
  <1> QED
    BY <1>4, <1>7, <1>8, <1>9, <1>10, <1>11, <1>12 DEF h

-----------------------------------------------------------------------------
(* The classes.                                                            *)

\* Each class has the identifier it is registered under.
LEMMA Ids ==
    /\ ModbusRequestFC1.id = 1 /\ ModbusResponseFC1.id = 32769
    /\ ModbusRequestFC2.id = 2 /\ ModbusResponseFC2.id = 32770
    /\ ModbusRequestFC3.id = 3 /\ ModbusResponseFC3.id = 32771
    /\ ModbusRequestFC4.id = 4 /\ ModbusResponseFC4.id = 32772
    /\ ModbusRequestFC5.id = 5 /\ ModbusResponseFC5.id = 32773
    /\ ModbusRequestFC6.id = 6 /\ ModbusResponseFC6.id = 32774
    /\ ModbusRequestFC7.id = 7 /\ ModbusResponseFC7.id = 32775
    /\ ModbusRequestFC8.id = 8 /\ ModbusResponseFC8.id = 32776
    /\ ModbusRequestFC15.id = 15 /\ ModbusResponseFC15.id = 32783
    /\ ModbusRequestFC16.id = 16 /\ ModbusResponseFC16.id = 32784
    /\ ModbusRequestFC22.id = 22 /\ ModbusResponseFC22.id = 32790
    /\ ModbusRequestFC23.id = 23 /\ ModbusResponseFC23.id = 32791
    /\ ModbusRequestFC43.id = 43 /\ ModbusResponseFC43.id = 32811
    /\ ModbusPdu.id = 0 /\ ModbusError.id = 32768
  BY DEF Fixed, Counted, Open, Rsp,
         ModbusRequestFC1, ModbusResponseFC1, ModbusRequestFC2, ModbusResponseFC2,
         ModbusRequestFC3, ModbusResponseFC3, ModbusRequestFC4, ModbusResponseFC4,
         ModbusRequestFC5, ModbusResponseFC5, ModbusRequestFC6, ModbusResponseFC6,
         ModbusRequestFC7, ModbusResponseFC7, ModbusRequestFC8, ModbusResponseFC8,
         ModbusRequestFC15, ModbusResponseFC15, ModbusRequestFC16, ModbusResponseFC16,
         ModbusRequestFC22, ModbusResponseFC22, ModbusRequestFC23, ModbusResponseFC23,
         ModbusRequestFC43, ModbusResponseFC43, ModbusPdu, ModbusError

\* What each class has fields and items for.
LEMMA Places ==
    /\ ModbusRequestFC1.widths = <<2, 2>> /\ ModbusRequestFC1.item = 0
    /\ ModbusResponseFC1.widths = <<1>> /\ ModbusResponseFC1.item = 1
    /\ ModbusRequestFC2.widths = <<2, 2>> /\ ModbusRequestFC2.item = 0
    /\ ModbusResponseFC2.widths = <<1>> /\ ModbusResponseFC2.item = 1
    /\ ModbusRequestFC3.widths = <<2, 2>> /\ ModbusRequestFC3.item = 0
    /\ ModbusResponseFC3.widths = <<1>> /\ ModbusResponseFC3.item = 2
    /\ ModbusRequestFC4.widths = <<2, 2>> /\ ModbusRequestFC4.item = 0
    /\ ModbusResponseFC4.widths = <<1>> /\ ModbusResponseFC4.item = 2
    /\ ModbusRequestFC5.widths = <<2, 2>> /\ ModbusRequestFC5.item = 0
    /\ ModbusResponseFC5.widths = <<2, 2>> /\ ModbusResponseFC5.item = 0
    /\ ModbusRequestFC6.widths = <<2, 2>> /\ ModbusRequestFC6.item = 0
    /\ ModbusResponseFC6.widths = <<2, 2>> /\ ModbusResponseFC6.item = 0
    /\ ModbusRequestFC7.widths = <<>> /\ ModbusRequestFC7.item = 0
    /\ ModbusResponseFC7.widths = <<1>> /\ ModbusResponseFC7.item = 0
    /\ ModbusRequestFC8.widths = <<2>> /\ ModbusRequestFC8.item = 2
    /\ ModbusResponseFC8.widths = <<2>> /\ ModbusResponseFC8.item = 2
    /\ ModbusRequestFC15.widths = <<2, 2, 1>> /\ ModbusRequestFC15.item = 1
    /\ ModbusResponseFC15.widths = <<2, 2>> /\ ModbusResponseFC15.item = 0
    /\ ModbusRequestFC16.widths = <<2, 2, 1>> /\ ModbusRequestFC16.item = 2
    /\ ModbusResponseFC16.widths = <<2, 2>> /\ ModbusResponseFC16.item = 0
    /\ ModbusRequestFC22.widths = <<2, 2, 2>> /\ ModbusRequestFC22.item = 0
    /\ ModbusResponseFC22.widths = <<2, 2, 2>> /\ ModbusResponseFC22.item = 0
    /\ ModbusRequestFC23.widths = <<2, 2, 2, 2, 1>> /\ ModbusRequestFC23.item = 2
    /\ ModbusResponseFC23.widths = <<1>> /\ ModbusResponseFC23.item = 2
    /\ ModbusRequestFC43.widths = <<1>> /\ ModbusRequestFC43.item = 1
    /\ ModbusResponseFC43.widths = <<1>> /\ ModbusResponseFC43.item = 1
    /\ ModbusPdu.widths = <<>> /\ ModbusPdu.item = 1
    /\ ModbusError.widths = <<1>> /\ ModbusError.item = 0
  BY DEF Fixed, Counted, Open,
         ModbusRequestFC1, ModbusResponseFC1, ModbusRequestFC2, ModbusResponseFC2,
         ModbusRequestFC3, ModbusResponseFC3, ModbusRequestFC4, ModbusResponseFC4,
         ModbusRequestFC5, ModbusResponseFC5, ModbusRequestFC6, ModbusResponseFC6,
         ModbusRequestFC7, ModbusResponseFC7, ModbusRequestFC8, ModbusResponseFC8,
         ModbusRequestFC15, ModbusResponseFC15, ModbusRequestFC16, ModbusResponseFC16,
         ModbusRequestFC22, ModbusResponseFC22, ModbusRequestFC23, ModbusResponseFC23,
         ModbusRequestFC43, ModbusResponseFC43, ModbusPdu, ModbusError

\* The head of up to five fields.
LEMMA HeadIs ==
    ASSUME NEW w \in Seq(Width), Len(w) <= 5
    PROVE  /\ Len(w) = 0 => FieldEnds(w)[0] = 1
           /\ Len(w) = 1 => FieldEnds(w)[1] = 1 + w[1]
           /\ Len(w) = 2 => FieldEnds(w)[2] = 1 + w[1] + w[2]
           /\ Len(w) = 3 => FieldEnds(w)[3] = 1 + w[1] + w[2] + w[3]
           /\ Len(w) = 5 => FieldEnds(w)[5] = 1 + w[1] + w[2] + w[3] + w[4] + w[5]
  <1> DEFINE e == FieldEnds(w)
  <1>1. e[0] = 1 /\ Len(w) \in Nat
    BY EndsAre
  <1>2. ASSUME NEW k \in Nat, NEW i \in Nat, k = i + 1, k <= Len(w) PROVE e[k] = e[i] + w[k]
    <2>1. k \in 1 .. Len(w) /\ k - 1 = i
      BY <1>1, <1>2
    <2> QED
      BY <2>1, EndsAre
  <1> HIDE DEF e
  <1>3. 1 <= Len(w) => e[1] = e[0] + w[1]
    BY <1>2
  <1>4. 2 <= Len(w) => e[2] = e[1] + w[2]
    BY <1>2
  <1>5. 3 <= Len(w) => e[3] = e[2] + w[3]
    BY <1>2
  <1>6. 4 <= Len(w) => e[4] = e[3] + w[4]
    BY <1>2
  <1>7. 5 <= Len(w) => e[5] = e[4] + w[5]
    BY <1>2
  <1> QED
    BY <1>1, <1>3, <1>4, <1>5, <1>6, <1>7 DEF e

\* The widths there are, and the heads they come to.
LEMMA Heads ==
    /\ <<>> \in Seq(Width) /\ <<1>> \in Seq(Width) /\ <<2>> \in Seq(Width)
    /\ <<2, 2>> \in Seq(Width) /\ <<2, 2, 1>> \in Seq(Width)
    /\ <<2, 2, 2>> \in Seq(Width) /\ <<2, 2, 2, 2, 1>> \in Seq(Width)
    /\ FieldEnds(<<>>)[0] = 1 /\ FieldEnds(<<1>>)[1] = 2 /\ FieldEnds(<<2>>)[1] = 3
    /\ FieldEnds(<<2, 2>>)[2] = 5 /\ FieldEnds(<<2, 2, 1>>)[3] = 6
    /\ FieldEnds(<<2, 2, 2>>)[3] = 7 /\ FieldEnds(<<2, 2, 2, 2, 1>>)[5] = 10
  <1>1. /\ <<>> \in Seq(Width) /\ <<1>> \in Seq(Width) /\ <<2>> \in Seq(Width)
        /\ <<2, 2>> \in Seq(Width) /\ <<2, 2, 1>> \in Seq(Width)
        /\ <<2, 2, 2>> \in Seq(Width) /\ <<2, 2, 2, 2, 1>> \in Seq(Width)
    BY DEF Width
  <1>2. /\ Len(<<>>) = 0 /\ Len(<<1>>) = 1 /\ Len(<<2>>) = 1 /\ Len(<<2, 2>>) = 2
        /\ Len(<<2, 2, 1>>) = 3 /\ Len(<<2, 2, 2>>) = 3 /\ Len(<<2, 2, 2, 2, 1>>) = 5
    OBVIOUS
  <1>3. FieldEnds(<<>>)[0] = 1
    <2>1. PICK w : w = <<>>
      OBVIOUS
    <2>2. w \in Seq(Width) /\ Len(w) = 0 /\ Len(w) <= 5
      BY <1>1, <1>2, <2>1
    <2>3. FieldEnds(w)[0] = 1
      BY ONLY <2>2, HeadIs, Zenon
    <2> QED
      BY <2>1, <2>3
  <1>4. FieldEnds(<<1>>)[1] = 2
    <2>1. PICK w : w = <<1>>
      OBVIOUS
    <2>2. w \in Seq(Width) /\ Len(w) = 1 /\ Len(w) <= 5 /\ w[1] = 1
      BY <1>1, <1>2, <2>1
    <2>3. FieldEnds(w)[1] = 1 + w[1]
      BY ONLY <2>2, HeadIs, Zenon
    <2> QED
      BY <2>1, <2>2, <2>3
  <1>5. FieldEnds(<<2>>)[1] = 3
    <2>1. PICK w : w = <<2>>
      OBVIOUS
    <2>2. w \in Seq(Width) /\ Len(w) = 1 /\ Len(w) <= 5 /\ w[1] = 2
      BY <1>1, <1>2, <2>1
    <2>3. FieldEnds(w)[1] = 1 + w[1]
      BY ONLY <2>2, HeadIs, Zenon
    <2> QED
      BY <2>1, <2>2, <2>3
  <1>6. FieldEnds(<<2, 2>>)[2] = 5
    <2>1. PICK w : w = <<2, 2>>
      OBVIOUS
    <2>2. w \in Seq(Width) /\ Len(w) = 2 /\ Len(w) <= 5 /\ w[1] = 2 /\ w[2] = 2
      BY <1>1, <1>2, <2>1
    <2>3. FieldEnds(w)[2] = 1 + w[1] + w[2]
      BY ONLY <2>2, HeadIs, Zenon
    <2> QED
      BY <2>1, <2>2, <2>3
  <1>7. FieldEnds(<<2, 2, 1>>)[3] = 6
    <2>1. PICK w : w = <<2, 2, 1>>
      OBVIOUS
    <2>2. w \in Seq(Width) /\ Len(w) = 3 /\ Len(w) <= 5 /\ w[1] = 2 /\ w[2] = 2 /\ w[3] = 1
      BY <1>1, <1>2, <2>1
    <2>3. FieldEnds(w)[3] = 1 + w[1] + w[2] + w[3]
      BY ONLY <2>2, HeadIs, Zenon
    <2> QED
      BY <2>1, <2>2, <2>3
  <1>8. FieldEnds(<<2, 2, 2>>)[3] = 7
    <2>1. PICK w : w = <<2, 2, 2>>
      OBVIOUS
    <2>2. w \in Seq(Width) /\ Len(w) = 3 /\ Len(w) <= 5 /\ w[1] = 2 /\ w[2] = 2 /\ w[3] = 2
      BY <1>1, <1>2, <2>1
    <2>3. FieldEnds(w)[3] = 1 + w[1] + w[2] + w[3]
      BY ONLY <2>2, HeadIs, Zenon
    <2> QED
      BY <2>1, <2>2, <2>3
  <1>9. FieldEnds(<<2, 2, 2, 2, 1>>)[5] = 10
    <2>1. PICK w : w = <<2, 2, 2, 2, 1>>
      OBVIOUS
    <2>2. /\ w \in Seq(Width) /\ Len(w) = 5 /\ Len(w) <= 5
          /\ w[1] = 2 /\ w[2] = 2 /\ w[3] = 2 /\ w[4] = 2 /\ w[5] = 1
      BY <1>1, <1>2, <2>1
    <2>3. FieldEnds(w)[5] = 1 + w[1] + w[2] + w[3] + w[4] + w[5]
      BY ONLY <2>2, HeadIs, Zenon
    <2> QED
      BY <2>1, <2>2, <2>3
  <1> QED
    BY <1>1, <1>2, <1>3, <1>4, <1>5, <1>6, <1>7, <1>8, <1>9

Requests ==
    {ModbusRequestFC1, ModbusRequestFC2, ModbusRequestFC3, ModbusRequestFC4,
     ModbusRequestFC5, ModbusRequestFC6, ModbusRequestFC7, ModbusRequestFC8,
     ModbusRequestFC15, ModbusRequestFC16, ModbusRequestFC22, ModbusRequestFC23,
     ModbusRequestFC43}

Responses ==
    {ModbusResponseFC1, ModbusResponseFC2, ModbusResponseFC3, ModbusResponseFC4,
     ModbusResponseFC5, ModbusResponseFC6, ModbusResponseFC7, ModbusResponseFC8,
     ModbusResponseFC15, ModbusResponseFC16, ModbusResponseFC22, ModbusResponseFC23,
     ModbusResponseFC43}

LEMMA RegistryIs == Registry = Requests \cup Responses
  BY DEF Registry, Requests, Responses

LEMMA Layouts ==
    \A class \in Registry \cup {ModbusPdu, ModbusError} : Layout(class) /\ class.id \in Nat
  <1>1. Layout(ModbusRequestFC1)
    BY Places, Heads DEF Layout
  <1>2. Layout(ModbusRequestFC2)
    BY Places, Heads DEF Layout
  <1>3. Layout(ModbusRequestFC3)
    BY Places, Heads DEF Layout
  <1>4. Layout(ModbusRequestFC4)
    BY Places, Heads DEF Layout
  <1>5. Layout(ModbusRequestFC5)
    BY Places, Heads DEF Layout
  <1>6. Layout(ModbusRequestFC6)
    BY Places, Heads DEF Layout
  <1>7. Layout(ModbusRequestFC7)
    BY Places, Heads DEF Layout
  <1>8. Layout(ModbusRequestFC8)
    BY Places, Heads DEF Layout
  <1>9. Layout(ModbusRequestFC15)
    BY Places, Heads DEF Layout
  <1>10. Layout(ModbusRequestFC16)
    BY Places, Heads DEF Layout
  <1>11. Layout(ModbusRequestFC22)
    BY Places, Heads DEF Layout
  <1>12. Layout(ModbusRequestFC23)
    BY Places, Heads DEF Layout
  <1>13. Layout(ModbusRequestFC43)
    BY Places, Heads DEF Layout
  <1>14. Layout(ModbusResponseFC1)
    BY Places, Heads DEF Layout
  <1>15. Layout(ModbusResponseFC2)
    BY Places, Heads DEF Layout
  <1>16. Layout(ModbusResponseFC3)
    BY Places, Heads DEF Layout
  <1>17. Layout(ModbusResponseFC4)
    BY Places, Heads DEF Layout
  <1>18. Layout(ModbusResponseFC5)
    BY Places, Heads DEF Layout
  <1>19. Layout(ModbusResponseFC6)
    BY Places, Heads DEF Layout
  <1>20. Layout(ModbusResponseFC7)
    BY Places, Heads DEF Layout
  <1>21. Layout(ModbusResponseFC8)
    BY Places, Heads DEF Layout
  <1>22. Layout(ModbusResponseFC15)
    BY Places, Heads DEF Layout
  <1>23. Layout(ModbusResponseFC16)
    BY Places, Heads DEF Layout
  <1>24. Layout(ModbusResponseFC22)
    BY Places, Heads DEF Layout
  <1>25. Layout(ModbusResponseFC23)
    BY Places, Heads DEF Layout
  <1>26. Layout(ModbusResponseFC43)
    BY Places, Heads DEF Layout
  <1>27. Layout(ModbusPdu)
    BY Places, Heads DEF Layout
  <1>28. Layout(ModbusError)
    BY Places, Heads DEF Layout
  <1> QED
    <2>1. \A class \in Requests : Layout(class) /\ class.id \in Nat
      BY <1>1, <1>2, <1>3, <1>4, <1>5, <1>6, <1>7, <1>8, <1>9, <1>10, <1>11, <1>12,
         <1>13, Ids
      DEF Requests
    <2>2. \A class \in Responses : Layout(class) /\ class.id \in Nat
      BY <1>14, <1>15, <1>16, <1>17, <1>18, <1>19, <1>20, <1>21, <1>22, <1>23, <1>24,
         <1>25, <1>26, Ids
      DEF Responses
    <2> QED
      BY <1>27, <1>28, <2>1, <2>2, Ids, RegistryIs

\* Requests are known by their function code, responses by that and an offset.
LEMMA Sides ==
    /\ \A class \in Requests : class.id \in Int /\ 1 <= class.id /\ class.id <= 43
    /\ \A class \in Responses : class.id \in Int /\ 32769 <= class.id /\ class.id <= 32811
  BY Ids DEF Requests, Responses

\* No two classes are registered under one identifier.
LEMMA LookupIs == \A class \in Registry : Lookup(class.id) = class
  <1>1. \A c, d \in Requests : c.id = d.id => c = d
    BY SMTT(60), Ids DEF Requests
  <1>2. \A c, d \in Responses : c.id = d.id => c = d
    BY SMTT(60), Ids DEF Responses
  <1>3. \A c, d \in Registry : c.id = d.id => c = d
    BY <1>1, <1>2, Sides, RegistryIs
  <1> QED
    BY <1>3 DEF Lookup

LEMMA LookupOr ==
    ASSUME NEW v
    PROVE  \/ Lookup(v) \in Registry /\ Lookup(v).id = v
           \/ Lookup(v) = ModbusPdu /\ \A class \in Registry : class.id # v
  BY DEF Lookup

\* A PDU is of the class it was made of.
LEMMA ClassOfIs ==
    ASSUME NEW pdu
    PROVE  /\ \A class \in Registry : pdu.id = class.id => ClassOf(pdu) = class
           /\ pdu.id = 0 => ClassOf(pdu) = ModbusPdu
           /\ pdu.id = 32768 => ClassOf(pdu) = ModbusError
  <1>1. \A class \in Registry : class.id # 0 /\ class.id # 32768
    BY Sides, RegistryIs
  <1>2. Lookup(0) = ModbusPdu
    BY <1>1, LookupOr
  <1>3. ModbusError.id = 32768
    BY Ids
  <1> QED
    BY <1>1, <1>2, <1>3, LookupIs DEF ClassOf

\* The class a request's function code names.
LEMMA RequestClassIs ==
    ASSUME NEW v \in Octet
    PROVE  \/ Lookup(v) \in Requests /\ Lookup(v).id = v /\ v <= 43
           \/ Lookup(v) = ModbusPdu
  <1>1. v \in Int /\ v <= 255
    BY OctetIs
  <1>2. CASE Lookup(v) \in Registry /\ Lookup(v).id = v
    <2>1. Lookup(v) \notin Responses
      BY <1>1, <1>2, Sides
    <2> QED
      BY <1>2, <2>1, Sides, RegistryIs
  <1> QED
    BY <1>2, LookupOr

-----------------------------------------------------------------------------
(* The header, and a whole frame.                                          *)

LEMMA HeaderBytes ==
    ASSUME NEW header \in Headers, HeaderPacks(header)
    PROVE  LET s == SerializeHeader(header)
               t == BigEndian(header.trans_id, 2)
               p == BigEndian(header.prot_id, 2)
               l == BigEndian(header.length, 2)
           IN /\ s \in Seq(Octet) /\ Len(s) = 7
              /\ s[1] = t[1] /\ s[2] = t[2] /\ s[3] = p[1] /\ s[4] = p[2]
              /\ s[5] = l[1] /\ s[6] = l[2] /\ s[7] = header.unit_id
  <1> DEFINE t == BigEndian(header.trans_id, 2)
             p == BigEndian(header.prot_id, 2)
             l == BigEndian(header.length, 2)
             u == BigEndian(header.unit_id, 1)
  <1>1. /\ t \in Seq(Octet) /\ Len(t) = 2 /\ p \in Seq(Octet) /\ Len(p) = 2
        /\ l \in Seq(Octet) /\ Len(l) = 2 /\ u \in Seq(Octet) /\ Len(u) = 1
    BY BigEndianIs DEF HeaderPacks, Width
  <1>2. u[1] = header.unit_id
    BY DEF BigEndian
  <1>3. SerializeHeader(header) = ((t \o p) \o l) \o u
    BY DEF SerializeHeader
  <1> HIDE DEF t, p, l, u
  <1> DEFINE a == t \o p
             b == a \o l
             c == b \o u
  <1>4. /\ a \in Seq(Octet) /\ Len(a) = 4
        /\ a[1] = t[1] /\ a[2] = t[2] /\ a[3] = p[1] /\ a[4] = p[2]
    <2>1. /\ a \in Seq(Octet) /\ Len(a) = Len(t) + Len(p)
          /\ \A i \in 1 .. Len(t) : a[i] = t[i]
          /\ \A i \in 1 .. Len(p) : a[Len(t) + i] = p[i]
      BY <1>1, Beside
    <2> HIDE DEF a
    <2> QED
      BY <1>1, <2>1
  <1> HIDE DEF a
  <1>5. /\ b \in Seq(Octet) /\ Len(b) = 6 /\ b[5] = l[1] /\ b[6] = l[2]
        /\ \A i \in 1 .. 4 : b[i] = a[i]
    <2>1. /\ b \in Seq(Octet) /\ Len(b) = Len(a) + Len(l)
          /\ \A i \in 1 .. Len(a) : b[i] = a[i]
          /\ \A i \in 1 .. Len(l) : b[Len(a) + i] = l[i]
      BY <1>1, <1>4, Beside
    <2> HIDE DEF b
    <2> QED
      BY <1>1, <1>4, <2>1
  <1> HIDE DEF b
  <1>6. /\ c \in Seq(Octet) /\ Len(c) = 7 /\ c[7] = u[1]
        /\ \A i \in 1 .. 6 : c[i] = b[i]
    <2>1. /\ c \in Seq(Octet) /\ Len(c) = Len(b) + Len(u)
          /\ \A i \in 1 .. Len(b) : c[i] = b[i]
          /\ \A i \in 1 .. Len(u) : c[Len(b) + i] = u[i]
      BY <1>1, <1>5, Beside
    <2> HIDE DEF c
    <2> QED
      BY <1>1, <1>5, <2>1
  <1>7. SerializeHeader(header) = c
    BY <1>3 DEF a, b
  <1> HIDE DEF c
  <1> QED
    BY <1>2, <1>4, <1>5, <1>6, <1>7 DEF t, p, l

-----------------------------------------------------------------------------
(* A PDU and a frame there and back.                                       *)

Known == Registry \cup {ModbusPdu, ModbusError}

LEMMA KnownIs ==
    ASSUME NEW class \in Known, NEW pdu, pdu.id = class.id
    PROVE  /\ ClassOf(pdu) = class /\ Layout(class)
           /\ SizedByCount(class) => class.item = 1
           /\ HeadSize(class) \in Nat /\ 1 <= HeadSize(class)
  <1>1. ClassOf(pdu) = class
    BY ClassOfIs, Ids DEF Known
  <1>2. Layout(class)
    BY Layouts DEF Known
  <1>3. SizedByCount(class) => class.item = 1
    <2>1. ModbusResponseFC1 \in Registry /\ ModbusResponseFC2 \in Registry
      BY DEF Registry
    <2>2. SizedByCount(class) => class \in {ModbusResponseFC1, ModbusResponseFC2}
      BY <1>1, <2>1, ClassOfIs DEF SizedByCount
    <2> QED
      BY <2>2, Places
  <1>4. HeadSize(class) \in Nat /\ 1 <= HeadSize(class)
    <2>1. PICK w : w = class.widths
      OBVIOUS
    <2>2. w \in Seq(Width) /\ Len(w) <= 5 /\ Len(w) \in 0 .. Len(w)
      BY <1>2, <2>1 DEF Layout
    <2>3. FieldEnds(w)[Len(w)] \in Nat /\ 1 <= FieldEnds(w)[Len(w)]
      BY <2>2, EndsAscend
    <2> QED
      BY <2>1, <2>3 DEF HeadSize
  <1> QED
    BY <1>1, <1>2, <1>3, <1>4

LEMMA PduBack ==
    ASSUME NEW class \in Known, NEW pdu, pdu.id = class.id, Shaped(pdu), Packs(pdu)
    PROVE  /\ Serialize(pdu) \in Seq(Octet)
           /\ PduLen(pdu) \in Nat /\ 1 <= PduLen(pdu)
           /\ PduLen(pdu) = HeadSize(class) + class.item * Len(pdu.tail)
           /\ Len(Serialize(pdu)) = PduLen(pdu)
           /\ Serialize(pdu)[1] = WireCode(pdu)
           /\ Unpacks(class, Serialize(pdu))
           /\ Deserialize(class, Serialize(pdu)) = pdu
  <1>1. /\ ClassOf(pdu) = class /\ Layout(class)
        /\ SizedByCount(class) => class.item = 1
        /\ HeadSize(class) \in Nat /\ 1 <= HeadSize(class)
    BY KnownIs
  <1>2. Laid(pdu, class, Serialize(pdu))
    BY <1>1, SerializeLays
  <1>3. Unpacks(class, Serialize(pdu)) /\ Deserialize(class, Serialize(pdu)) = pdu
    BY <1>1, DeserializeBack
  <1>4. /\ Serialize(pdu) \in Seq(Octet) /\ Serialize(pdu)[1] = WireCode(pdu)
        /\ Len(Serialize(pdu)) = HeadSize(class) + class.item * Len(pdu.tail)
    BY <1>2 DEF Laid
  <1>5. class.item \in {0, 1, 2} /\ Len(pdu.tail) \in Nat
    BY <1>1 DEF Layout, Shaped, Pdus
  <1>6. PduLen(pdu) = HeadSize(class) + class.item * Len(pdu.tail)
    <2>1. SizedByCount(class) => pdu.fields[1] = Len(pdu.tail)
      BY <1>1 DEF Packs
    <2>2. PduLen(pdu) = HeadSize(class) + IF SizedByCount(class) THEN pdu.fields[1]
                                          ELSE class.item * Len(pdu.tail)
      BY <1>1 DEF PduLen
    <2>3. CASE SizedByCount(class)
      BY <1>1, <1>5, <2>1, <2>2, <2>3
    <2>4. CASE ~ SizedByCount(class)
      BY <2>2, <2>4
    <2> QED
      BY <2>3, <2>4
  <1>7. PICK n : n = HeadSize(class) + class.item * Len(pdu.tail)
    OBVIOUS
  <1>8. n \in Nat /\ 1 <= n
    BY <1>1, <1>5, <1>7
  <1> QED
    BY <1>3, <1>4, <1>6, <1>7, <1>8

\* The bytes of a header, read.
LEMMA HeaderRead ==
    ASSUME NEW header \in Headers, HeaderPacks(header),
           NEW bytes \in Seq(Octet), Len(bytes) >= 7,
           \A i \in 1 .. 7 : bytes[i] = SerializeHeader(header)[i]
    PROVE  DeserializeHeader(bytes) = header
  <1> DEFINE s == SerializeHeader(header)
             t == BigEndian(header.trans_id, 2)
             p == BigEndian(header.prot_id, 2)
             l == BigEndian(header.length, 2)
  <1>1. /\ s[1] = t[1] /\ s[2] = t[2] /\ s[3] = p[1] /\ s[4] = p[2]
        /\ s[5] = l[1] /\ s[6] = l[2] /\ s[7] = header.unit_id
    BY HeaderBytes
  <1>2. /\ bytes[1] = t[1] /\ bytes[2] = t[2] /\ bytes[3] = p[1] /\ bytes[4] = p[2]
        /\ bytes[5] = l[1] /\ bytes[6] = l[2] /\ bytes[7] = header.unit_id
    BY <1>1
  <1> HIDE DEF s
  <1>3. ASSUME NEW a \in {0, 2, 4}, NEW v, Fits(v, 2),
               bytes[a + 1] = BigEndian(v, 2)[1], bytes[a + 2] = BigEndian(v, 2)[2]
        PROVE  Number(SubSeq(bytes, a + 1, a + 2)) = v
    <2>1. PICK w, z : w = 2 /\ z = a + w
      OBVIOUS
    <2>2. \A j \in 1 .. w : bytes[a + j] = BigEndian(v, w)[j]
      <3> SUFFICES ASSUME NEW j \in 1 .. w PROVE bytes[a + j] = BigEndian(v, w)[j]
        OBVIOUS
      <3>1. j = 1 \/ j = 2
        BY <2>1
      <3> QED
        BY <1>3, <2>1, <3>1
    <2>3. a \in Nat /\ w \in Width /\ z <= Len(bytes) /\ Fits(v, w)
      BY <1>3, <2>1 DEF Width
    <2>4. Number(SubSeq(bytes, a + 1, z)) = v
      BY <2>1, <2>2, <2>3, NumberAt
    <2> QED
      BY <2>1, <2>4
  <1>4. Number(SubSeq(bytes, 1, 2)) = header.trans_id
    BY <1>2, <1>3 DEF HeaderPacks
  <1>5. Number(SubSeq(bytes, 3, 4)) = header.prot_id
    BY <1>2, <1>3 DEF HeaderPacks
  <1>6. Number(SubSeq(bytes, 5, 6)) = header.length
    BY <1>2, <1>3 DEF HeaderPacks
  <1>7. header = [trans_id |-> header.trans_id, prot_id |-> header.prot_id,
                  length |-> header.length, unit_id |-> header.unit_id]
    BY DEF Headers
  <1> QED
    BY <1>2, <1>4, <1>5, <1>6, <1>7 DEF DeserializeHeader

\* A frame: header and PDU are where they were put.
LEMMA FrameIs ==
    ASSUME NEW header \in Headers, HeaderPacks(header), NEW bytes \in Seq(Octet),
           header.length = Len(bytes) + 1,
           NEW frame, frame = SerializeHeader(header) \o bytes
    PROVE  /\ frame \in Seq(Octet) /\ Len(frame) = 7 + Len(bytes)
           /\ HeaderHolds(frame)
           /\ DeserializeHeader(frame) = header
           /\ PduBytes(frame) = bytes
  <1> DEFINE s == SerializeHeader(header)
  <1>1. s \in Seq(Octet) /\ Len(s) = 7
    BY HeaderBytes
  <1>2. frame = s \o bytes
    OBVIOUS
  <1> HIDE DEF s
  <1>3. /\ frame \in Seq(Octet) /\ Len(frame) = Len(s) + Len(bytes) /\ Len(bytes) \in Nat
        /\ \A i \in 1 .. Len(s) : frame[i] = s[i]
        /\ \A i \in 1 .. Len(bytes) : frame[Len(s) + i] = bytes[i]
    <2>1. /\ s \o bytes \in Seq(Octet) /\ Len(s \o bytes) = Len(s) + Len(bytes)
          /\ Len(bytes) \in Nat
          /\ \A i \in 1 .. Len(s) : (s \o bytes)[i] = s[i]
          /\ \A i \in 1 .. Len(bytes) : (s \o bytes)[Len(s) + i] = bytes[i]
      BY <1>1, Beside
    <2> QED
      BY <1>2, <2>1
  <1>4. Len(frame) = 7 + Len(bytes)
    BY <1>1, <1>3
  <1>5. DeserializeHeader(frame) = header
    <2>1. Len(frame) >= 7 /\ \A i \in 1 .. 7 : frame[i] = SerializeHeader(header)[i]
      BY <1>1, <1>3, <1>4 DEF s
    <2> QED
      BY <1>3, <2>1, HeaderRead
  <1>6. PduBytes(frame) = bytes
    <2>1. PduBytes(frame) = SubSeq(frame, 8, 7 + Len(bytes))
      BY <1>4 DEF PduBytes, HeaderSize
    <2>2. \A i \in 1 .. Len(bytes) : frame[7 + i] = bytes[i]
      BY <1>1, <1>3
    <2>3. SubSeq(frame, 8, 7 + Len(bytes)) = [i \in 1 .. Len(bytes) |-> frame[8 + i - 1]]
      BY <1>3, <1>4
    <2>4. \A i \in 1 .. Len(bytes) : frame[8 + i - 1] = bytes[i]
      <3> SUFFICES ASSUME NEW i \in 1 .. Len(bytes) PROVE frame[8 + i - 1] = bytes[i]
        OBVIOUS
      <3>1. 8 + i - 1 = 7 + i
        OBVIOUS
      <3> QED
        BY <2>2, <3>1
    <2>5. bytes = [i \in 1 .. Len(bytes) |-> bytes[i]]
      OBVIOUS
    <2> QED
      BY <2>1, <2>3, <2>4, <2>5
  <1>7. HeaderHolds(frame)
    BY <1>3, <1>4, <1>5 DEF HeaderHolds, HeaderSize
  <1> QED
    BY <1>3, <1>4, <1>5, <1>6, <1>7

\* A header that holds is the one its frame begins with.
LEMMA HeaderBack ==
    ASSUME NEW stream \in Seq(Octet), HeaderHolds(stream)
    PROVE  LET header == DeserializeHeader(stream)
               bytes == PduBytes(stream)
           IN /\ header \in Headers /\ HeaderPacks(header)
              /\ bytes \in Seq(Octet) /\ Len(bytes) \in Nat
              /\ Len(stream) = 7 + Len(bytes) /\ header.length = Len(bytes) + 1
              /\ SerializeHeader(header) \o bytes = stream
  <1> DEFINE header == DeserializeHeader(stream)
             bytes == PduBytes(stream)
             s == SerializeHeader(header)
  <1>1. Len(stream) \in Nat /\ Len(stream) >= 7 /\ Len(stream) = 7 + header.length - 1
    BY DEF HeaderHolds, HeaderSize
  <1>2. ASSUME NEW a \in {0, 2, 4}
        PROVE  LET v == Number(SubSeq(stream, a + 1, a + 2))
               IN /\ Fits(v, 2) /\ v \in Int
                  /\ BigEndian(v, 2)[1] = stream[a + 1] /\ BigEndian(v, 2)[2] = stream[a + 2]
    <2>1. PICK b : b = SubSeq(stream, a + 1, a + 2)
      OBVIOUS
    <2>2. PICK w : w = 2
      OBVIOUS
    <2>3. b \in Seq(Octet) /\ Len(b) = w /\ w \in Width
          /\ b[1] = stream[a + 1] /\ b[2] = stream[a + 2]
      BY <1>1, <2>1, <2>2 DEF Width
    <2>4. Fits(Number(b), w) /\ BigEndian(Number(b), w) = b /\ Number(b) \in Int
      BY <2>3, NumberIs
    <2> QED
      BY <2>1, <2>2, <2>3, <2>4
  <1>3. /\ header.trans_id = Number(SubSeq(stream, 1, 2))
        /\ header.prot_id = Number(SubSeq(stream, 3, 4))
        /\ header.length = Number(SubSeq(stream, 5, 6))
        /\ header.unit_id = stream[7]
    BY DEF DeserializeHeader
  <1>4. stream[7] \in Int /\ Fits(stream[7], 1)
    <2>1. stream[7] \in Octet
      BY <1>1
    <2> QED
      BY <2>1, OctetIs, FitsIs
  <1>5. LET t == BigEndian(header.trans_id, 2)
            p == BigEndian(header.prot_id, 2)
            l == BigEndian(header.length, 2)
        IN /\ Fits(header.trans_id, 2) /\ header.trans_id \in Int
           /\ Fits(header.prot_id, 2) /\ header.prot_id \in Int
           /\ Fits(header.length, 2) /\ header.length \in Int
           /\ t[1] = stream[1] /\ t[2] = stream[2] /\ p[1] = stream[3] /\ p[2] = stream[4]
           /\ l[1] = stream[5] /\ l[2] = stream[6]
    <2>1. LET v == Number(SubSeq(stream, 1, 2))
          IN /\ Fits(v, 2) /\ v \in Int
             /\ BigEndian(v, 2)[1] = stream[1] /\ BigEndian(v, 2)[2] = stream[2]
      BY <1>2
    <2>2. LET v == Number(SubSeq(stream, 3, 4))
          IN /\ Fits(v, 2) /\ v \in Int
             /\ BigEndian(v, 2)[1] = stream[3] /\ BigEndian(v, 2)[2] = stream[4]
      BY <1>2
    <2>3. LET v == Number(SubSeq(stream, 5, 6))
          IN /\ Fits(v, 2) /\ v \in Int
             /\ BigEndian(v, 2)[1] = stream[5] /\ BigEndian(v, 2)[2] = stream[6]
      BY <1>2
    <2> QED
      BY <1>3, <2>1, <2>2, <2>3
  <1>6. header \in Headers /\ HeaderPacks(header)
    BY <1>3, <1>4, <1>5 DEF Headers, HeaderPacks, DeserializeHeader
  <1>7. /\ s \in Seq(Octet) /\ Len(s) = 7 /\ \A i \in 1 .. 7 : s[i] = stream[i]
    <2>1. LET t == BigEndian(header.trans_id, 2)
              p == BigEndian(header.prot_id, 2)
              l == BigEndian(header.length, 2)
          IN /\ s \in Seq(Octet) /\ Len(s) = 7
             /\ s[1] = t[1] /\ s[2] = t[2] /\ s[3] = p[1] /\ s[4] = p[2]
             /\ s[5] = l[1] /\ s[6] = l[2] /\ s[7] = header.unit_id
      BY <1>6, HeaderBytes
    <2>2. /\ s[1] = stream[1] /\ s[2] = stream[2] /\ s[3] = stream[3] /\ s[4] = stream[4]
          /\ s[5] = stream[5] /\ s[6] = stream[6] /\ s[7] = stream[7]
      BY <1>3, <1>5, <2>1
    <2> HIDE DEF s
    <2> QED
      BY <2>1, <2>2
  <1>8. bytes = SubSeq(stream, 8, Len(stream))
    BY DEF PduBytes, HeaderSize
  <1> HIDE DEF header, bytes, s
  <1>9. /\ bytes \in Seq(Octet) /\ Len(bytes) \in Nat /\ Len(stream) = 7 + Len(bytes)
        /\ \A i \in 1 .. Len(bytes) : bytes[i] = stream[7 + i]
    <2>1. PICK n : n = Len(stream)
      OBVIOUS
    <2>2. n \in Nat /\ 8 \in 1 .. n + 1 /\ n \in 7 .. n /\ n - 8 + 1 = n - 7
      BY <1>1, <2>1
    <2>3. /\ bytes \in Seq(Octet) /\ Len(bytes) = n - 8 + 1
          /\ \A i \in 1 .. n - 8 + 1 : bytes[i] = stream[8 + i - 1]
      BY <1>8, <2>1, <2>2, SubSeqProperties
    <2>4. Len(bytes) \in Nat /\ Len(stream) = 7 + Len(bytes)
      BY <2>1, <2>2, <2>3
    <2>5. ASSUME NEW i \in 1 .. Len(bytes) PROVE bytes[i] = stream[7 + i]
      <3>1. i \in 1 .. n - 8 + 1 /\ 8 + i - 1 = 7 + i
        BY <2>3
      <3> QED
        BY <2>3, <3>1
    <2> QED
      BY <2>3, <2>4, <2>5
  <1>10. header.length = Len(bytes) + 1
    BY <1>1, <1>5, <1>9
  <1>11. s \o bytes = stream
    <2>1. /\ s \o bytes \in Seq(Octet) /\ Len(s \o bytes) = Len(stream)
          /\ \A i \in 1 .. 7 : (s \o bytes)[i] = s[i]
          /\ \A i \in 1 .. Len(bytes) : (s \o bytes)[7 + i] = bytes[i]
      <3>1. /\ s \o bytes \in Seq(Octet) /\ Len(s \o bytes) = Len(s) + Len(bytes)
            /\ \A i \in 1 .. Len(s) : (s \o bytes)[i] = s[i]
            /\ \A i \in 1 .. Len(bytes) : (s \o bytes)[Len(s) + i] = bytes[i]
        BY <1>7, <1>9, Beside
      <3> QED
        BY <1>7, <1>9, <3>1
    <2>2. PICK u : u = s \o bytes
      OBVIOUS
    <2>3. ASSUME NEW i \in 1 .. Len(stream) PROVE u[i] = stream[i]
      <3>1. CASE i <= 7
        <4>1. i \in 1 .. 7
          BY <1>1, <3>1
        <4> QED
          BY <1>7, <2>1, <2>2, <4>1
      <3>2. CASE i > 7
        <4>1. PICK j : j = i - 7
          OBVIOUS
        <4>2. j \in 1 .. Len(bytes) /\ i = 7 + j
          BY <1>9, <3>2, <4>1
        <4> QED
          BY <1>9, <2>1, <2>2, <4>2
      <3> QED
        BY <3>1, <3>2
    <2>4. u \in Seq(Octet) /\ Len(u) = Len(stream)
      BY <2>1, <2>2
    <2>5. u = stream
      BY <2>3, <2>4
    <2> QED
      BY <2>2, <2>5
  <1> QED
    BY <1>6, <1>9, <1>10, <1>11 DEF header, bytes, s

\* The generic class forwards what it cannot interpret.
LEMMA GenericBack ==
    ASSUME NEW bytes \in Seq(Octet), bytes # <<>>
    PROVE  /\ Unpacks(ModbusPdu, bytes)
           /\ Serialize(Deserialize(ModbusPdu, bytes)) = bytes
           /\ Packs(Deserialize(ModbusPdu, bytes))
  <1>1. /\ ModbusPdu.widths = <<>> /\ ModbusPdu.item = 1 /\ ModbusPdu.id = 0
        /\ ModbusError.id = 32768 /\ ModbusPdu \in Known
    BY Places, Ids DEF Known
  <1>2. HeadSize(ModbusPdu) = 1
    BY <1>1, Heads DEF HeadSize
  <1>3. Len(bytes) \in Nat /\ Len(bytes) >= 1
    BY EmptySeq, LenProperties
  <1>4. Unpacks(ModbusPdu, bytes)
    BY <1>1, <1>2, <1>3 DEF Unpacks
  <1>5. PICK class : class = ModbusPdu
    OBVIOUS
  <1>6. PICK pdu : pdu = Deserialize(class, bytes)
    OBVIOUS
  <1>7. Layout(class) /\ class.id \in Nat
    BY <1>5, Layouts
  <1>8. /\ pdu.id = class.id /\ pdu.fc = bytes[1] /\ pdu \in Pdus
        /\ Len(pdu.fields) = Len(class.widths)
        /\ \A k \in 1 .. Len(pdu.tail) : Fits(pdu.tail[k], class.item)
        /\ Len(bytes) = HeadSize(class) + class.item * Len(pdu.tail)
        /\ \A k \in 1 .. Len(pdu.tail) : pdu.tail[k] = bytes[k + 1]
    BY <1>1, <1>4, <1>5, <1>6, <1>7, DeserializeShapes
  <1>9. ClassOf(pdu) = class
    BY <1>1, <1>5, <1>8, KnownIs
  <1>10. Shaped(pdu)
    BY <1>1, <1>5, <1>8, <1>9 DEF Shaped
  <1>11. WireCode(pdu) = bytes[1] /\ bytes[1] \in Octet
    <2>1. bytes[1] \in Octet /\ bytes[1] \in Int
      BY <1>3, OctetIs
    <2> QED
      BY <1>1, <1>5, <1>8, <2>1 DEF WireCode
  <1>12. Packs(pdu)
    <2>1. Fits(WireCode(pdu), 1)
      BY <1>11, OctetIs, FitsIs
    <2>2. ~ SizedByCount(class)
      <3>1. class.id = 0
        BY <1>1, <1>5
      <3> QED
        BY <3>1, Ids DEF SizedByCount
    <2>3. \A k \in DOMAIN pdu.tail : Fits(pdu.tail[k], class.item)
      <3>1. pdu.tail \in Seq(Int)
        BY <1>8 DEF Pdus
      <3>2. DOMAIN pdu.tail = 1 .. Len(pdu.tail)
        BY <3>1
      <3> QED
        BY <1>8, <3>2
    <2>4. \A k \in DOMAIN class.widths : Fits(pdu.fields[k], class.widths[k])
      BY <1>1, <1>5
    <2> QED
      BY <1>9, <2>1, <2>2, <2>3, <2>4 DEF Packs
  <1>13. Laid(pdu, class, Serialize(pdu))
    BY <1>7, <1>9, <1>10, <1>12, SerializeLays
  <1>14. PICK b : b = Serialize(pdu)
    OBVIOUS
  <1>15. /\ b \in Seq(Octet) /\ Len(b) = 1 + Len(pdu.tail) /\ b[1] = bytes[1]
         /\ Len(bytes) = 1 + Len(pdu.tail) /\ Len(pdu.tail) \in Nat
    BY <1>1, <1>2, <1>5, <1>8, <1>11, <1>13, <1>14 DEF Laid, Pdus
  <1>16. ASSUME NEW k \in 1 .. Len(pdu.tail) PROVE b[1 + k] = bytes[1 + k]
    <2>1. \A j \in 1 .. class.item :
             b[HeadSize(class) + (k - 1) * class.item + j] = BigEndian(pdu.tail[k], class.item)[j]
      BY <1>13, <1>14 DEF Laid
    <2>2. b[1 + (k - 1) * 1 + 1] = BigEndian(pdu.tail[k], 1)[1]
      <3>1. class.item = 1 /\ HeadSize(class) = 1
        BY ONLY <1>1, <1>2, <1>5
      <3>2. 1 \in 1 .. class.item
        BY ONLY <3>1
      <3> QED
        BY ONLY <2>1, <3>1, <3>2
    <2>3. BigEndian(pdu.tail[k], 1)[1] = pdu.tail[k]
      BY DEF BigEndian
    <2>4. 1 + (k - 1) * 1 + 1 = 1 + k /\ k + 1 = 1 + k
      OBVIOUS
    <2> QED
      BY <1>8, <2>2, <2>3, <2>4
  <1>17. ASSUME NEW i \in 1 .. Len(bytes) PROVE b[i] = bytes[i]
    <2>1. CASE i = 1
      BY <1>15, <2>1
    <2>2. CASE i # 1
      <3>1. PICK k : k = i - 1
        OBVIOUS
      <3>2. k \in 1 .. Len(pdu.tail) /\ i = 1 + k
        BY <1>15, <2>2, <3>1
      <3> QED
        BY <1>16, <3>2
    <2> QED
      BY <2>1, <2>2
  <1>18. b = bytes
    <2>1. Len(b) = Len(bytes)
      BY <1>15
    <2> QED
      BY <1>15, <1>17, <2>1
  <1> QED
    BY <1>4, <1>5, <1>6, <1>12, <1>14, <1>18

\* A generic packet between the two forwards every frame as it came.
LEMMA ForwardsAsItCame ==
    ASSUME NEW bytes \in Seq(Octet), HeaderHolds(bytes), PduBytes(bytes) # <<>>
    PROVE  SerializeTcp(ModbusTcpPacket(bytes).packet) = bytes
  <1>1. PICK s : s = PduBytes(bytes)
    OBVIOUS
  <1>2. s \in Seq(Octet) /\ s # <<>>
    BY <1>1, HeaderBack
  <1>3. Unpacks(ModbusPdu, s) /\ Serialize(Deserialize(ModbusPdu, s)) = s
    BY <1>2, GenericBack
  <1>4. PduClass("either", s) = ModbusPdu
    BY DEF PduClass
  <1>5. ModbusTcpPacket(bytes).packet =
           [header |-> DeserializeHeader(bytes), pdu |-> Deserialize(ModbusPdu, s)]
    BY <1>1, <1>2, <1>3, <1>4 DEF ModbusTcpPacket, DeserializeTcp, PduParses, ParsedPdu, Returns
  <1>6. SerializeTcp(ModbusTcpPacket(bytes).packet) = SerializeHeader(DeserializeHeader(bytes)) \o s
    BY <1>3, <1>5 DEF SerializeTcp
  <1> QED
    BY <1>1, <1>6, HeaderBack

\* A PDU of a class, framed under a header, and the bytes of that.
Frames(class, pdu, header, packet, frame) ==
    /\ class \in Known /\ pdu.id = class.id /\ Shaped(pdu)
    /\ header \in Headers
    /\ packet = Framed(header, pdu) /\ TcpPacks(packet)
    /\ frame = SerializeTcp(packet)

\* Where all of it is in the bytes.
Carried(class, pdu, header, packet, frame) ==
    /\ packet \in [header : Headers, pdu : Pdus] /\ packet.pdu = pdu
    /\ packet.header = [header EXCEPT !.length = PduLen(pdu) + 1]
    /\ frame \in Seq(Octet) /\ Len(frame) = 7 + PduLen(pdu)
    /\ PduLen(pdu) \in Nat /\ 1 <= PduLen(pdu)
    /\ PduLen(pdu) = HeadSize(class) + class.item * Len(pdu.tail)
    /\ HeaderHolds(frame) /\ DeserializeHeader(frame) = packet.header
    /\ PduBytes(frame) # <<>> /\ PduBytes(frame)[1] = WireCode(pdu)
    /\ Unpacks(class, PduBytes(frame)) /\ Deserialize(class, PduBytes(frame)) = pdu

LEMMA PacketIs ==
    ASSUME NEW class, NEW pdu, NEW header, NEW packet, NEW frame,
           Frames(class, pdu, header, packet, frame)
    PROVE  Carried(class, pdu, header, packet, frame)
  <1>1. /\ packet = [header |-> [header EXCEPT !.length = PduLen(pdu) + 1], pdu |-> pdu]
        /\ packet.pdu = pdu /\ packet.header = [header EXCEPT !.length = PduLen(pdu) + 1]
    BY DEF Framed, Frames
  <1>2. Packs(pdu) /\ HeaderPacks(packet.header)
    BY <1>1 DEF TcpPacks, Frames
  <1>3. PICK s : s = Serialize(pdu)
    OBVIOUS
  <1>4. /\ s \in Seq(Octet) /\ Len(s) = PduLen(pdu) /\ s[1] = WireCode(pdu)
        /\ PduLen(pdu) \in Nat /\ 1 <= PduLen(pdu)
        /\ PduLen(pdu) = HeadSize(class) + class.item * Len(pdu.tail)
        /\ Unpacks(class, s) /\ Deserialize(class, s) = pdu
    BY <1>2, <1>3, PduBack DEF Frames
  <1>5. PICK h : h = packet.header
    OBVIOUS
  <1>6. h \in Headers /\ HeaderPacks(h) /\ h.length = Len(s) + 1
    BY <1>1, <1>2, <1>4, <1>5 DEF Headers, Frames
  <1>7. frame = SerializeHeader(h) \o s
    BY <1>1, <1>3, <1>5 DEF SerializeTcp, Frames
  <1>8. /\ frame \in Seq(Octet) /\ Len(frame) = 7 + Len(s) /\ HeaderHolds(frame)
        /\ DeserializeHeader(frame) = h /\ PduBytes(frame) = s
    BY <1>4, <1>6, <1>7, FrameIs
  <1>9. packet \in [header : Headers, pdu : Pdus]
    BY <1>1, <1>5, <1>6 DEF Shaped, Frames
  <1>10. s # <<>>
    BY <1>4
  <1> QED
    BY <1>1, <1>4, <1>5, <1>8, <1>9, <1>10 DEF Carried

LEMMA RequestBack ==
    ASSUME NEW class \in Requests, NEW pdu, NEW header, NEW packet, NEW frame,
           Frames(class, pdu, header, packet, frame), pdu.fc = class.id
    PROVE  ModbusTcpRequest(frame) = Returns(packet)
  <1>1. class \in Known /\ class \in Registry
    BY RegistryIs DEF Known
  <1>2. PICK s : s = PduBytes(frame)
    OBVIOUS
  <1>3. /\ packet.pdu = pdu /\ HeaderHolds(frame) /\ DeserializeHeader(frame) = packet.header
        /\ s # <<>> /\ s[1] = WireCode(pdu) /\ Unpacks(class, s) /\ Deserialize(class, s) = pdu
    <2>1. Carried(class, pdu, header, packet, frame)
      BY PacketIs
    <2> QED
      BY <1>2, <2>1 DEF Carried
  <1>4. PduClass("request", s) = class
    <2>1. class.id \in Int /\ class.id <= 43
      BY Sides
    <2>2. WireCode(pdu) = class.id
      BY <2>1, Ids DEF WireCode, Frames
    <2>3. RequestClass(s) = class
      BY <1>1, <1>3, <2>2, LookupIs DEF RequestClass
    <2> QED
      BY <2>3 DEF PduClass
  <1>5. packet = [header |-> packet.header, pdu |-> pdu]
    BY DEF Framed, Frames
  <1> QED
    BY <1>2, <1>3, <1>4, <1>5 DEF ModbusTcpRequest, DeserializeTcp, PduParses, ParsedPdu, Returns

\* An answer: of a class of its own for a function code, or an exception.
Answers(class, pdu) ==
    /\ class \in Responses \cup {ModbusError}
    /\ pdu.id = class.id /\ Shaped(pdu)
    /\ class \in Responses => pdu.fc = class.id - 32768

LEMMA AnswerIs ==
    ASSUME NEW class, NEW pdu, Answers(class, pdu)
    PROVE  /\ class \in Known /\ pdu.fc \in Nat
           /\ class \in Responses => pdu.fc <= 43 /\ WireCode(pdu) = pdu.fc
           /\ class = ModbusError => WireCode(pdu) = pdu.fc + 128
  <1>1. class \in Known
    BY RegistryIs DEF Known, Answers
  <1>2. pdu.fc \in Nat
    BY DEF Answers, Shaped, Pdus
  <1>3. ASSUME class \in Responses PROVE pdu.fc <= 43 /\ WireCode(pdu) = pdu.fc
    <2>1. class.id \in Int /\ 32769 <= class.id /\ class.id <= 32811 /\ pdu.fc = class.id - 32768
      BY <1>3, Sides DEF Answers
    <2>2. pdu.id # ModbusError.id
      BY <2>1, Ids DEF Answers
    <2> QED
      BY <1>2, <2>1, <2>2 DEF WireCode
  <1>4. ASSUME class = ModbusError PROVE WireCode(pdu) = pdu.fc + 128
    BY <1>4 DEF Answers, WireCode
  <1> QED
    BY <1>1, <1>2, <1>3, <1>4

LEMMA AnswerBack ==
    ASSUME NEW class, NEW pdu, Answers(class, pdu), NEW header, NEW packet, NEW frame,
           Frames(class, pdu, header, packet, frame)
    PROVE  ModbusTcpResponse(frame) = Returns(packet)
  <1>1. class \in Known /\ pdu.id = class.id /\ Shaped(pdu) /\ pdu.fc \in Nat
    BY AnswerIs DEF Answers
  <1>2. PICK s : s = PduBytes(frame)
    OBVIOUS
  <1>3. /\ packet.pdu = pdu /\ HeaderHolds(frame) /\ DeserializeHeader(frame) = packet.header
        /\ s # <<>> /\ s[1] = WireCode(pdu) /\ Unpacks(class, s) /\ Deserialize(class, s) = pdu
    <2>1. Carried(class, pdu, header, packet, frame)
      BY PacketIs
    <2> QED
      BY <1>2, <2>1 DEF Carried
  <1>4. ResponseClass(s) = class
    <2>1. CASE class \in Responses
      <3>1. s[1] = pdu.fc /\ pdu.fc <= 43 /\ pdu.fc = class.id - 32768 /\ class \in Registry
        BY <1>3, <2>1, AnswerIs, RegistryIs DEF Answers
      <3>2. Rsp(s[1]) = class.id /\ ~ (s[1] >= 128)
        BY <1>1, <2>1, <3>1, Sides DEF Rsp
      <3> QED
        BY <3>1, <3>2, LookupIs DEF ResponseClass
    <2>2. CASE class = ModbusError
      <3>1. s[1] >= 128
        BY <1>1, <1>3, <2>2, AnswerIs
      <3> QED
        BY <2>2, <3>1 DEF ResponseClass
    <2> QED
      BY <2>1, <2>2 DEF Answers
  <1>5. PduClass("response", s) = class
    BY <1>4 DEF PduClass
  <1>6. packet = [header |-> packet.header, pdu |-> pdu]
    BY DEF Framed, Frames
  <1> QED
    BY <1>2, <1>3, <1>5, <1>6 DEF ModbusTcpResponse, DeserializeTcp, PduParses, ParsedPdu, Returns

\* A PDU of a class, as the factories make it.
LEMMA PduIs ==
    ASSUME NEW class \in Requests \cup Responses, NEW fields \in Seq(Int), NEW tail \in Seq(Int),
           Len(fields) = Len(class.widths), class.item = 0 => tail = <<>>,
           NEW pdu, pdu = Pdu(class, fields, tail)
    PROVE  /\ pdu.id = class.id /\ pdu.fields = fields /\ pdu.tail = tail /\ Shaped(pdu)
           /\ class \in Requests => pdu.fc = class.id
           /\ class \in Responses => pdu.fc = class.id - 32768 /\ Answers(class, pdu)
  <1>1. /\ pdu = [id |-> class.id, fc |-> class.id % 32768, fields |-> fields, tail |-> tail]
        /\ pdu.id = class.id /\ pdu.fields = fields /\ pdu.tail = tail
        /\ pdu.fc = class.id % 32768
    BY DEF Pdu
  <1>2. class \in Known /\ class.id \in Nat
    BY RegistryIs, Layouts DEF Known
  <1>3. ClassOf(pdu) = class
    BY <1>1, <1>2, KnownIs
  <1>4. class \in Requests => pdu.fc = class.id
    <2>1. ASSUME class \in Requests PROVE class.id % 32768 = class.id
      <3>1. PICK n : n = class.id
        OBVIOUS
      <3>2. n \in Int /\ 1 <= n /\ n <= 43
        BY <2>1, <3>1, Sides
      <3>3. n % 32768 = n
        BY ONLY <3>2
      <3> QED
        BY <3>1, <3>3
    <2> QED
      BY <1>1, <2>1
  <1>5. class \in Responses => pdu.fc = class.id - 32768
    <2>1. ASSUME class \in Responses PROVE class.id % 32768 = class.id - 32768
      <3>1. PICK n : n = class.id
        OBVIOUS
      <3>2. n \in Int /\ 32769 <= n /\ n <= 32811
        BY <2>1, <3>1, Sides
      <3>3. n % 32768 = n - 32768
        BY ONLY <3>2
      <3> QED
        BY <3>1, <3>3
    <2> QED
      BY <1>1, <2>1
  <1>6. pdu.fc \in Nat
    BY <1>2, <1>4, <1>5, Sides
  <1>7. pdu \in Pdus
    BY <1>1, <1>2, <1>6 DEF Pdus
  <1>8. Shaped(pdu)
    BY <1>1, <1>3, <1>7 DEF Shaped
  <1> QED
    BY <1>1, <1>4, <1>5, <1>8 DEF Answers

LEMMA ExceptionIs ==
    ASSUME NEW fc \in Nat, NEW code \in Int, NEW pdu, pdu = Exception(fc, code)
    PROVE  /\ Answers(ModbusError, pdu) /\ pdu.fc = fc /\ pdu.id = 32768
           /\ pdu.fields = <<code>> /\ pdu.tail = <<>>
  <1>1. /\ pdu = [id |-> 32768, fc |-> fc, fields |-> <<code>>, tail |-> <<>>]
        /\ pdu.id = 32768 /\ pdu.fields = <<code>> /\ pdu.tail = <<>> /\ pdu.fc = fc
    BY Ids DEF Exception
  <1>2. pdu \in Pdus
    BY <1>1 DEF Pdus
  <1>3. ClassOf(pdu) = ModbusError
    BY <1>1, ClassOfIs
  <1>4. Len(pdu.fields) = Len(ModbusError.widths) /\ ModbusError \notin Responses
    BY <1>1, Places, Sides, Ids
  <1> QED
    BY <1>1, <1>2, <1>3, <1>4, Ids DEF Answers, Shaped

-----------------------------------------------------------------------------
(* What the factories make.                                                *)

LEMMA LookedUp ==
    /\ Lookup(1) = ModbusRequestFC1 /\ Lookup(Rsp(1)) = ModbusResponseFC1
    /\ Lookup(2) = ModbusRequestFC2 /\ Lookup(Rsp(2)) = ModbusResponseFC2
    /\ Lookup(3) = ModbusRequestFC3 /\ Lookup(Rsp(3)) = ModbusResponseFC3
    /\ Lookup(4) = ModbusRequestFC4 /\ Lookup(Rsp(4)) = ModbusResponseFC4
    /\ Lookup(5) = ModbusRequestFC5 /\ Lookup(Rsp(5)) = ModbusResponseFC5
    /\ Lookup(6) = ModbusRequestFC6 /\ Lookup(Rsp(6)) = ModbusResponseFC6
    /\ Lookup(7) = ModbusRequestFC7 /\ Lookup(Rsp(7)) = ModbusResponseFC7
    /\ Lookup(8) = ModbusRequestFC8 /\ Lookup(Rsp(8)) = ModbusResponseFC8
    /\ Lookup(15) = ModbusRequestFC15 /\ Lookup(Rsp(15)) = ModbusResponseFC15
    /\ Lookup(16) = ModbusRequestFC16 /\ Lookup(Rsp(16)) = ModbusResponseFC16
    /\ Lookup(22) = ModbusRequestFC22 /\ Lookup(Rsp(22)) = ModbusResponseFC22
    /\ Lookup(23) = ModbusRequestFC23 /\ Lookup(Rsp(23)) = ModbusResponseFC23
    /\ Lookup(43) = ModbusRequestFC43 /\ Lookup(Rsp(43)) = ModbusResponseFC43
  <1>1. \A n \in Int : Rsp(n) = 32768 + n
    BY DEF Rsp
  <1>2. Lookup(1) = ModbusRequestFC1 /\ Lookup(Rsp(1)) = ModbusResponseFC1
    <2>1. ModbusRequestFC1 \in Registry /\ ModbusResponseFC1 \in Registry
      BY DEF Registry
    <2> QED
      BY <1>1, <2>1, Ids, LookupIs
  <1>3. Lookup(2) = ModbusRequestFC2 /\ Lookup(Rsp(2)) = ModbusResponseFC2
    <2>1. ModbusRequestFC2 \in Registry /\ ModbusResponseFC2 \in Registry
      BY DEF Registry
    <2> QED
      BY <1>1, <2>1, Ids, LookupIs
  <1>4. Lookup(3) = ModbusRequestFC3 /\ Lookup(Rsp(3)) = ModbusResponseFC3
    <2>1. ModbusRequestFC3 \in Registry /\ ModbusResponseFC3 \in Registry
      BY DEF Registry
    <2> QED
      BY <1>1, <2>1, Ids, LookupIs
  <1>5. Lookup(4) = ModbusRequestFC4 /\ Lookup(Rsp(4)) = ModbusResponseFC4
    <2>1. ModbusRequestFC4 \in Registry /\ ModbusResponseFC4 \in Registry
      BY DEF Registry
    <2> QED
      BY <1>1, <2>1, Ids, LookupIs
  <1>6. Lookup(5) = ModbusRequestFC5 /\ Lookup(Rsp(5)) = ModbusResponseFC5
    <2>1. ModbusRequestFC5 \in Registry /\ ModbusResponseFC5 \in Registry
      BY DEF Registry
    <2> QED
      BY <1>1, <2>1, Ids, LookupIs
  <1>7. Lookup(6) = ModbusRequestFC6 /\ Lookup(Rsp(6)) = ModbusResponseFC6
    <2>1. ModbusRequestFC6 \in Registry /\ ModbusResponseFC6 \in Registry
      BY DEF Registry
    <2> QED
      BY <1>1, <2>1, Ids, LookupIs
  <1>8. Lookup(7) = ModbusRequestFC7 /\ Lookup(Rsp(7)) = ModbusResponseFC7
    <2>1. ModbusRequestFC7 \in Registry /\ ModbusResponseFC7 \in Registry
      BY DEF Registry
    <2> QED
      BY <1>1, <2>1, Ids, LookupIs
  <1>9. Lookup(8) = ModbusRequestFC8 /\ Lookup(Rsp(8)) = ModbusResponseFC8
    <2>1. ModbusRequestFC8 \in Registry /\ ModbusResponseFC8 \in Registry
      BY DEF Registry
    <2> QED
      BY <1>1, <2>1, Ids, LookupIs
  <1>10. Lookup(15) = ModbusRequestFC15 /\ Lookup(Rsp(15)) = ModbusResponseFC15
    <2>1. ModbusRequestFC15 \in Registry /\ ModbusResponseFC15 \in Registry
      BY DEF Registry
    <2> QED
      BY <1>1, <2>1, Ids, LookupIs
  <1>11. Lookup(16) = ModbusRequestFC16 /\ Lookup(Rsp(16)) = ModbusResponseFC16
    <2>1. ModbusRequestFC16 \in Registry /\ ModbusResponseFC16 \in Registry
      BY DEF Registry
    <2> QED
      BY <1>1, <2>1, Ids, LookupIs
  <1>12. Lookup(22) = ModbusRequestFC22 /\ Lookup(Rsp(22)) = ModbusResponseFC22
    <2>1. ModbusRequestFC22 \in Registry /\ ModbusResponseFC22 \in Registry
      BY DEF Registry
    <2> QED
      BY <1>1, <2>1, Ids, LookupIs
  <1>13. Lookup(23) = ModbusRequestFC23 /\ Lookup(Rsp(23)) = ModbusResponseFC23
    <2>1. ModbusRequestFC23 \in Registry /\ ModbusResponseFC23 \in Registry
      BY DEF Registry
    <2> QED
      BY <1>1, <2>1, Ids, LookupIs
  <1>14. Lookup(43) = ModbusRequestFC43 /\ Lookup(Rsp(43)) = ModbusResponseFC43
    <2>1. ModbusRequestFC43 \in Registry /\ ModbusResponseFC43 \in Registry
      BY DEF Registry
    <2> QED
      BY <1>1, <2>1, Ids, LookupIs
  <1> QED
    BY <1>2, <1>3, <1>4, <1>5, <1>6, <1>7, <1>8,
       <1>9, <1>10, <1>11, <1>12, <1>13, <1>14

LEMMA ReadsIs ==
    \A class \in {ModbusRequestFC1, ModbusRequestFC2, ModbusRequestFC3, ModbusRequestFC4} :
        class \in Requests /\ Len(class.widths) = 2 /\ class.item = 0
  <1>1. /\ ModbusRequestFC1 \in Requests /\ Len(ModbusRequestFC1.widths) = 2
        /\ ModbusRequestFC2 \in Requests /\ Len(ModbusRequestFC2.widths) = 2
        /\ ModbusRequestFC3 \in Requests /\ Len(ModbusRequestFC3.widths) = 2
        /\ ModbusRequestFC4 \in Requests /\ Len(ModbusRequestFC4.widths) = 2
    BY Places DEF Requests
  <1> QED
    BY <1>1, Places

LEMMA SinglesIs ==
    \A class \in {ModbusRequestFC5, ModbusRequestFC6} :
        class \in Requests /\ Len(class.widths) = 2 /\ class.item = 0
  <1>1. /\ ModbusRequestFC5 \in Requests /\ Len(ModbusRequestFC5.widths) = 2
        /\ ModbusRequestFC6 \in Requests /\ Len(ModbusRequestFC6.widths) = 2
    BY Places DEF Requests
  <1> QED
    BY <1>1, Places

\* A request as its factory makes it.
Asks(class, pdu) ==
    /\ class \in Requests
    /\ pdu.id = class.id /\ pdu.fc = class.id /\ Shaped(pdu)

LEMMA AsksIs ==
    ASSUME NEW class \in Requests, NEW fields \in Seq(Int), NEW tail \in Seq(Int),
           NEW n \in Nat, Len(fields) = n, Len(class.widths) = n, class.item = 0 => tail = <<>>
    PROVE  Asks(class, Pdu(class, fields, tail))
  <1>1. PICK pdu : pdu = Pdu(class, fields, tail)
    OBVIOUS
  <1>2. /\ pdu.id = class.id /\ pdu.fields = fields /\ pdu.tail = tail /\ Shaped(pdu)
        /\ class \in Requests => pdu.fc = class.id
        /\ class \in Responses => pdu.fc = class.id - 32768 /\ Answers(class, pdu)
    BY <1>1, PduIs
  <1>3. Asks(class, pdu)
    BY <1>2 DEF Asks
  <1> QED
    BY <1>1, <1>3

LEMMA CreateAsks ==
    ASSUME NEW call \in Calls, Refusal(call) = "nothing"
    PROVE  /\ TcpPacks(Framed(CallHeader, Create(call)))
           /\ \E class \in Requests : Asks(class, Create(call))
  <1>1. /\ call.fc \in Int /\ call.readAddress \in Int /\ call.readCount \in Int
        /\ call.writeAddress \in Int /\ call.writeCount \in Int /\ call.values \in Seq(Int)
        /\ call.andMask \in Int /\ call.orMask \in Int
    BY ExchangeAssumption DEF Arguments
  <1>2. /\ call.fc \in 1 .. 7 \cup {15, 16, 22, 23, 43}
        /\ ~ (call.fc \in {5, 6} /\ call.values = <<>>)
        /\ ~ (call.fc = 15 /\ Len(call.values) < CoilBytes(call))
        /\ TcpPacks(Framed(CallHeader, Create(call)))
    BY DEF Refusal
  <1>3. CASE call.fc \in 1 .. 4
    <2>1. PICK class : class = Lookup(call.fc)
      OBVIOUS
    <2>2. class \in Requests /\ Len(class.widths) = 2 /\ class.item = 0
      <3>1. call.fc = 1 \/ call.fc = 2 \/ call.fc = 3 \/ call.fc = 4
        BY <1>1, <1>3
      <3>2. class \in {ModbusRequestFC1, ModbusRequestFC2, ModbusRequestFC3, ModbusRequestFC4}
        BY <2>1, <3>1, LookedUp
      <3> QED
        BY <3>2, ReadsIs
    <2>3. PICK fields, none : fields = <<call.readAddress, call.readCount>> /\ none = <<>>
      OBVIOUS
    <2>4. Create(call) = Pdu(class, fields, none)
      <3>1. Create(call) = CreateReadReq(call)
        BY <1>1, <1>3 DEF Create
      <3> QED
        BY <2>1, <2>3, <3>1 DEF CreateReadReq
    <2>5. /\ fields \in Seq(Int) /\ Len(fields) = 2 /\ none \in Seq(Int)
          /\ class.item = 0 => none = <<>>
      BY <1>1, <2>3
    <2>6. Asks(class, Pdu(class, fields, none))
      <3>1. /\ class \in Requests /\ Len(class.widths) = 2
            /\ fields \in Seq(Int) /\ Len(fields) = 2 /\ none \in Seq(Int)
            /\ class.item = 0 => none = <<>>
        BY <2>2, <2>5
      <3>2. PICK n : n = 2
        OBVIOUS
      <3>3. n \in Nat /\ Len(class.widths) = n /\ Len(fields) = n
        BY <3>1, <3>2
      <3> QED
        BY ONLY <3>1, <3>3, AsksIs
    <2> QED
      BY <1>2, <2>2, <2>4, <2>6
  <1>4. CASE call.fc \in {5, 6}
    <2>1. PICK class : class = Lookup(call.fc)
      OBVIOUS
    <2>2. class \in Requests /\ Len(class.widths) = 2 /\ class.item = 0
      <3>1. class \in {ModbusRequestFC5, ModbusRequestFC6}
        BY <1>4, <2>1, LookedUp
      <3> QED
        BY <3>1, SinglesIs
    <2>3. PICK fields, none : fields = <<call.writeAddress, call.values[1]>> /\ none = <<>>
      OBVIOUS
    <2>4. Create(call) = Pdu(class, fields, none)
      <3>1. Create(call) = CreateSingleReq(call)
        BY <1>1, <1>4 DEF Create
      <3> QED
        BY <2>1, <2>3, <3>1 DEF CreateSingleReq
    <2>5. /\ fields \in Seq(Int) /\ Len(fields) = 2 /\ none \in Seq(Int)
          /\ class.item = 0 => none = <<>>
      <3>1. call.values[1] \in Int
        BY <1>1, <1>2, <1>4
      <3> QED
        BY <1>1, <2>3, <3>1
    <2>6. Asks(class, Pdu(class, fields, none))
      <3>1. /\ class \in Requests /\ Len(class.widths) = 2
            /\ fields \in Seq(Int) /\ Len(fields) = 2 /\ none \in Seq(Int)
            /\ class.item = 0 => none = <<>>
        BY <2>2, <2>5
      <3>2. PICK n : n = 2
        OBVIOUS
      <3>3. n \in Nat /\ Len(class.widths) = n /\ Len(fields) = n
        BY <3>1, <3>2
      <3> QED
        BY ONLY <3>1, <3>3, AsksIs
    <2> QED
      BY <1>2, <2>2, <2>4, <2>6
  <1>5. CASE call.fc = 7
    <2>1. PICK none : none = <<>>
      OBVIOUS
    <2>2. Create(call) = Pdu(ModbusRequestFC7, none, none)
      BY <1>5, <2>1 DEF Create, CreateFc7Req
    <2>3. /\ ModbusRequestFC7 \in Requests /\ Len(ModbusRequestFC7.widths) = 0
          /\ none \in Seq(Int) /\ Len(none) = 0
      BY <2>1, Places DEF Requests
    <2>4. Asks(ModbusRequestFC7, Pdu(ModbusRequestFC7, none, none))
      BY <2>1, <2>3, AsksIs
    <2> QED
      BY <1>2, <2>2, <2>3, <2>4
  <1>6. CASE call.fc = 15
    <2>1. PICK n, tail : n = CoilBytes(call) /\ tail = SubSeq(call.values, 1, n)
      OBVIOUS
    <2>2. PICK fields : fields = <<call.writeAddress, call.writeCount, n>>
      OBVIOUS
    <2>3. Create(call) = Pdu(ModbusRequestFC15, fields, tail)
      BY <1>6, <2>1, <2>2 DEF Create, CreateFc15Req
    <2>4. n \in Int
      BY <1>1, <2>1 DEF CoilBytes
    <2>5. tail \in Seq(Int)
      <3>1. n <= Len(call.values)
        BY <1>1, <1>2, <1>6, <2>1, <2>4
      <3>2. \A i \in 1 .. n : call.values[i] \in Int
        BY <1>1, <2>4, <3>1
      <3> QED
        BY <2>1, <2>4, <3>2, SubSeqProperties
    <2>6. fields \in Seq(Int) /\ Len(fields) = 3
      BY <1>1, <2>2, <2>4
    <2>7. ModbusRequestFC15 \in Requests /\ Len(ModbusRequestFC15.widths) = 3
          /\ ModbusRequestFC15.item # 0
      BY Places DEF Requests
    <2>8. Asks(ModbusRequestFC15, Pdu(ModbusRequestFC15, fields, tail))
      BY <2>5, <2>6, <2>7, AsksIs
    <2> QED
      BY <1>2, <2>3, <2>7, <2>8
  <1>7. CASE call.fc = 16
    <2>1. PICK fields : fields = <<call.writeAddress, call.writeCount, 2 * call.writeCount>>
      OBVIOUS
    <2>2. Create(call) = Pdu(ModbusRequestFC16, fields, call.values)
      BY <1>7, <2>1 DEF Create, CreateFc16Req
    <2>3. fields \in Seq(Int) /\ Len(fields) = 3
      BY <1>1, <2>1
    <2>4. ModbusRequestFC16 \in Requests /\ Len(ModbusRequestFC16.widths) = 3
          /\ ModbusRequestFC16.item # 0
      BY Places DEF Requests
    <2>5. Asks(ModbusRequestFC16, Pdu(ModbusRequestFC16, fields, call.values))
      BY <1>1, <2>3, <2>4, AsksIs
    <2> QED
      BY <1>2, <2>2, <2>4, <2>5
  <1>8. CASE call.fc = 22
    <2>1. PICK fields, none :
             fields = <<call.writeAddress, call.andMask, call.orMask>> /\ none = <<>>
      OBVIOUS
    <2>2. Create(call) = Pdu(ModbusRequestFC22, fields, none)
      BY <1>8, <2>1 DEF Create, CreateFc22Req
    <2>3. /\ fields \in Seq(Int) /\ Len(fields) = 3 /\ none \in Seq(Int)
          /\ ModbusRequestFC22.item = 0 => none = <<>>
      BY <1>1, <2>1
    <2>4. ModbusRequestFC22 \in Requests /\ Len(ModbusRequestFC22.widths) = 3
      BY Places DEF Requests
    <2>5. Asks(ModbusRequestFC22, Pdu(ModbusRequestFC22, fields, none))
      BY ONLY <2>3, <2>4, AsksIs
    <2> QED
      BY <1>2, <2>2, <2>4, <2>5
  <1>9. CASE call.fc = 23
    <2>1. PICK fields : fields = <<call.readAddress, call.readCount, call.writeAddress,
                                   call.writeCount, 2 * call.writeCount>>
      OBVIOUS
    <2>2. Create(call) = Pdu(ModbusRequestFC23, fields, call.values)
      BY <1>9, <2>1 DEF Create, CreateFc23Req
    <2>3. fields \in Seq(Int) /\ Len(fields) = 5
      BY <1>1, <2>1
    <2>4. ModbusRequestFC23 \in Requests /\ Len(ModbusRequestFC23.widths) = 5
          /\ ModbusRequestFC23.item # 0
      BY Places DEF Requests
    <2>5. Asks(ModbusRequestFC23, Pdu(ModbusRequestFC23, fields, call.values))
      BY <1>1, <2>3, <2>4, AsksIs
    <2> QED
      BY <1>2, <2>2, <2>4, <2>5
  <1>10. CASE call.fc = 43
    <2>1. PICK fields, tail : fields = <<14>> /\ tail = [k \in 1 .. 10 |-> k]
      OBVIOUS
    <2>2. Create(call) = Pdu(ModbusRequestFC43, fields, tail)
      BY <1>10, <2>1 DEF Create, CreateFc43Req
    <2>3. fields \in Seq(Int) /\ Len(fields) = 1 /\ tail \in Seq(Int)
      BY <2>1
    <2>4. ModbusRequestFC43 \in Requests /\ Len(ModbusRequestFC43.widths) = 1
          /\ ModbusRequestFC43.item # 0
      BY Places DEF Requests
    <2>5. Asks(ModbusRequestFC43, Pdu(ModbusRequestFC43, fields, tail))
      BY <2>3, <2>4, AsksIs
    <2> QED
      BY <1>2, <2>2, <2>4, <2>5
  <1> QED
    BY <1>1, <1>2, <1>3, <1>4, <1>5, <1>6, <1>7, <1>8, <1>9, <1>10

\* What each class adds to violations().
LEMMA Limits ==
    /\ ModbusRequestFC1.limits = {Bound(2, 1, 2000)}
    /\ ModbusRequestFC2.limits = {Bound(2, 1, 2000)}
    /\ ModbusRequestFC3.limits = {Bound(2, 1, 125)}
    /\ ModbusRequestFC4.limits = {Bound(2, 1, 125)}
    /\ ModbusRequestFC15.limits = {Bound(2, 1, 1968)}
    /\ ModbusRequestFC16.limits = {Bound(2, 1, 123)}
    /\ ModbusRequestFC23.limits = {Bound(2, 1, 125), Bound(4, 1, 121)}
    /\ ModbusRequestFC43.limits = {Bound(1, 14, 14)}
    /\ ModbusResponseFC15.limits = {Bound(2, 1, 1968)}
    /\ ModbusResponseFC16.limits = {Bound(2, 1, 123)}
    /\ ModbusResponseFC43.limits = {Bound(1, 14, 14)}
    /\ ModbusResponseFC1.limits = {} /\ ModbusResponseFC2.limits = {}
    /\ ModbusResponseFC3.limits = {} /\ ModbusResponseFC4.limits = {}
    /\ ModbusResponseFC5.limits = {} /\ ModbusResponseFC6.limits = {}
    /\ ModbusResponseFC7.limits = {} /\ ModbusResponseFC22.limits = {}
    /\ ModbusResponseFC23.limits = {}
  BY DEF Fixed, Counted, Open,
         ModbusRequestFC1, ModbusResponseFC1, ModbusRequestFC2, ModbusResponseFC2,
         ModbusRequestFC3, ModbusResponseFC3, ModbusRequestFC4, ModbusResponseFC4,
         ModbusResponseFC5, ModbusResponseFC6, ModbusResponseFC7,
         ModbusRequestFC15, ModbusResponseFC15, ModbusRequestFC16, ModbusResponseFC16,
         ModbusResponseFC22, ModbusRequestFC23, ModbusResponseFC23,
         ModbusRequestFC43, ModbusResponseFC43

LEMMA Rules ==
    /\ ModbusRequestFC5.rule = "coil" /\ ModbusResponseFC5.rule = "coil"
    /\ ModbusResponseFC1.rule = "tail" /\ ModbusResponseFC2.rule = "tail"
    /\ ModbusResponseFC3.rule = "tail" /\ ModbusResponseFC4.rule = "tail"
    /\ ModbusResponseFC23.rule = "tail"
    /\ ModbusResponseFC6.rule = "none" /\ ModbusResponseFC7.rule = "none"
    /\ ModbusResponseFC15.rule = "none" /\ ModbusResponseFC16.rule = "none"
    /\ ModbusResponseFC22.rule = "none" /\ ModbusResponseFC43.rule = "none"
  BY DEF Fixed, Counted, Open,
         ModbusResponseFC1, ModbusResponseFC2, ModbusResponseFC3, ModbusResponseFC4,
         ModbusRequestFC5, ModbusResponseFC5, ModbusResponseFC6, ModbusResponseFC7,
         ModbusResponseFC15, ModbusResponseFC16, ModbusResponseFC22, ModbusResponseFC23,
         ModbusResponseFC43

LEMMA Bounded ==
    ASSUME NEW pdu, NEW at, NEW low \in Int, NEW high \in Int,
           Bound(at, low, high) \in ClassOf(pdu).limits, Conforming(pdu)
    PROVE  pdu.fields[at] \in Int /\ low <= pdu.fields[at] /\ pdu.fields[at] <= high
  <1>1. PICK bound \in ClassOf(pdu).limits : bound = Bound(at, low, high)
    OBVIOUS
  <1>2. bound.at = at /\ bound.low = low /\ bound.high = high
    BY <1>1 DEF Bound
  <1>3. pdu.fields[bound.at] \in bound.low .. bound.high
    BY DEF Conforming
  <1> QED
    BY <1>2, <1>3

LEMMA WithinBound ==
    ASSUME NEW pdu, NEW at, NEW low \in Int, NEW high \in Int,
           ClassOf(pdu).limits = {Bound(at, low, high)}, ClassOf(pdu).rule = "none",
           pdu.fields[at] \in Int, low <= pdu.fields[at], pdu.fields[at] <= high
    PROVE  Conforming(pdu)
  <1>1. ASSUME NEW bound \in ClassOf(pdu).limits
        PROVE  pdu.fields[bound.at] \in bound.low .. bound.high
    <2>1. bound.at = at /\ bound.low = low /\ bound.high = high
      BY DEF Bound
    <2> QED
      BY <2>1
  <1>2. RuleHolds(pdu)
    BY DEF RuleHolds
  <1> QED
    BY <1>1, <1>2 DEF Conforming

LEMMA NoBound ==
    ASSUME NEW pdu, ClassOf(pdu).limits = {}
    PROVE  /\ ClassOf(pdu).rule = "none" => Conforming(pdu)
           /\ ClassOf(pdu).rule = "coil" /\ pdu.fields[2] \in {0, 65280} => Conforming(pdu)
           /\ ClassOf(pdu).rule = "tail" /\ pdu.fields[1] = ClassOf(pdu).item * Len(pdu.tail)
                 => Conforming(pdu)
  <1>1. ClassOf(pdu).rule = "none" => RuleHolds(pdu)
    BY DEF RuleHolds
  <1>2. ClassOf(pdu).rule = "coil" /\ pdu.fields[2] \in {0, 65280} => RuleHolds(pdu)
    BY DEF RuleHolds
  <1>3. ClassOf(pdu).rule = "tail" /\ pdu.fields[1] = ClassOf(pdu).item * Len(pdu.tail)
           => RuleHolds(pdu)
    BY DEF RuleHolds
  <1> QED
    BY <1>1, <1>2, <1>3 DEF Conforming

\* An answer packs when its fields and items fit.
LEMMA AnswerPacks ==
    ASSUME NEW class \in Responses, NEW pdu, Answers(class, pdu),
           NEW n \in Nat, n = Len(class.widths),
           \A k \in 1 .. n : Fits(pdu.fields[k], class.widths[k]),
           \A k \in 1 .. Len(pdu.tail) : Fits(pdu.tail[k], class.item),
           SizedByCount(class) => pdu.fields[1] = Len(pdu.tail)
    PROVE  Packs(pdu) /\ PduLen(pdu) = HeadSize(class) + class.item * Len(pdu.tail)
  <1>1. /\ class \in Known /\ pdu.id = class.id /\ Shaped(pdu)
        /\ pdu.fc \in Nat /\ pdu.fc <= 43 /\ WireCode(pdu) = pdu.fc
    BY AnswerIs DEF Answers
  <1>2. ClassOf(pdu) = class /\ Layout(class)
    BY <1>1, KnownIs
  <1>3. Fits(WireCode(pdu), 1)
    BY <1>1, FitsIs
  <1>4. DOMAIN class.widths = 1 .. n /\ DOMAIN pdu.tail = 1 .. Len(pdu.tail)
    BY <1>1, <1>2 DEF Layout, Shaped, Pdus
  <1>5. Packs(pdu)
    BY <1>2, <1>3, <1>4 DEF Packs
  <1> QED
    BY <1>1, <1>5, PduBack

\* An answer that reads: a count of bytes, and that many.
LEMMA CountedIs ==
    ASSUME NEW class \in Responses, class.widths = << 1 >>, class.item \in Width,
           class.limits = {}, class.rule = "tail",
           NEW n \in Nat, NEW value, Fits(value, class.item), value \in Int,
           NEW count, count = class.item * n,
           NEW pdu, pdu = Pdu(class, <<count>>, Repeated(value, n))
    PROVE  /\ Answers(class, pdu)
           /\ count <= 255 =>
                 Packs(pdu) /\ PduLen(pdu) = 2 + count /\ Conforming(pdu)
  <1>1. count \in Nat /\ class.item \in {1, 2}
    BY DEF Width
  <1>2. PICK fields, tail : fields = <<count>> /\ tail = Repeated(value, n)
    OBVIOUS
  <1>3. /\ fields \in Seq(Int) /\ Len(fields) = 1 /\ fields[1] = count
        /\ tail \in Seq(Int) /\ Len(tail) = n /\ \A k \in 1 .. n : tail[k] = value
    BY <1>1, <1>2 DEF Repeated
  <1>4. Len(class.widths) = 1 /\ class.item # 0
    BY <1>1
  <1>5. /\ pdu.id = class.id /\ pdu.fields = fields /\ pdu.tail = tail
        /\ Answers(class, pdu)
    <2>1. pdu = Pdu(class, fields, tail)
      BY <1>2
    <2>2. /\ class \in Requests \cup Responses /\ fields \in Seq(Int) /\ tail \in Seq(Int)
          /\ Len(fields) = Len(class.widths) /\ (class.item = 0 => tail = <<>>)
      BY <1>3, <1>4
    <2>3. class \in Responses
      OBVIOUS
    <2> QED
      BY ONLY <2>1, <2>2, <2>3, PduIs
  <1>6. class \in Known /\ ClassOf(pdu) = class /\ (SizedByCount(class) => class.item = 1)
    BY <1>5, AnswerIs, KnownIs
  <1>7. HeadSize(class) = 2
    BY <1>4, Heads DEF HeadSize
  <1>8. ASSUME count <= 255
        PROVE  Packs(pdu) /\ PduLen(pdu) = 2 + count
    <2>1. Fits(count, 1)
      BY <1>1, <1>8, FitsIs
    <2>2. \A k \in 1 .. 1 : Fits(pdu.fields[k], class.widths[k])
      BY <1>3, <1>5, <2>1
    <2>3. \A k \in 1 .. Len(pdu.tail) : Fits(pdu.tail[k], class.item)
      BY <1>3, <1>5
    <2>4. SizedByCount(class) => pdu.fields[1] = Len(pdu.tail)
      BY <1>3, <1>5, <1>6
    <2>5. Packs(pdu) /\ PduLen(pdu) = HeadSize(class) + class.item * Len(pdu.tail)
      BY <1>4, <1>5, <2>2, <2>3, <2>4, AnswerPacks
    <2> QED
      BY <1>3, <1>5, <1>7, <2>5
  <1>9. Conforming(pdu)
    BY <1>3, <1>5, <1>6, NoBound
  <1> QED
    BY <1>5, <1>8, <1>9

\* An answer that repeats fields of the request.
LEMMA EchoIs ==
    ASSUME NEW class \in Responses, class.item = 0, NEW n \in Nat, n = Len(class.widths),
           NEW fields \in Seq(Int), Len(fields) = n,
           \A k \in 1 .. n : Fits(fields[k], class.widths[k]),
           NEW pdu, pdu = Pdu(class, fields, <<>>)
    PROVE  /\ Answers(class, pdu) /\ pdu.fields = fields /\ ClassOf(pdu) = class
           /\ Packs(pdu) /\ PduLen(pdu) = HeadSize(class)
  <1>1. PICK none : none = <<>>
    OBVIOUS
  <1>2. none \in Seq(Int) /\ Len(none) = 0 /\ class.item = 0 => none = <<>>
    BY <1>1
  <1>3. pdu.id = class.id /\ pdu.fields = fields /\ pdu.tail = none /\ Answers(class, pdu)
    <2>1. pdu = Pdu(class, fields, none)
      BY <1>1
    <2>2. /\ class \in Requests \cup Responses /\ fields \in Seq(Int) /\ none \in Seq(Int)
          /\ Len(fields) = Len(class.widths) /\ (class.item = 0 => none = <<>>)
      BY <1>1
    <2>3. class \in Responses
      OBVIOUS
    <2> QED
      BY ONLY <2>1, <2>2, <2>3, PduIs
  <1>4. class \in Known /\ ClassOf(pdu) = class /\ (SizedByCount(class) => class.item = 1)
        /\ HeadSize(class) \in Nat
    BY <1>3, AnswerIs, KnownIs
  <1>5. Packs(pdu) /\ PduLen(pdu) = HeadSize(class) + class.item * Len(pdu.tail)
    <2>1. \A k \in 1 .. n : Fits(pdu.fields[k], class.widths[k])
      BY <1>3
    <2>2. Len(pdu.tail) = 0 /\ ~ SizedByCount(class)
      BY <1>1, <1>3, <1>4
    <2>3. \A k \in 1 .. Len(pdu.tail) : Fits(pdu.tail[k], class.item)
      BY <2>2
    <2> QED
      BY <1>3, <2>1, <2>2, <2>3, AnswerPacks
  <1> QED
    BY <1>1, <1>3, <1>4, <1>5

-----------------------------------------------------------------------------
(* What the server reads, and what it makes of it.                         *)

\* A request the server could read, of a class it has.
Heard(class, frame, header, pdu) ==
    /\ frame \in Seq(Octet) /\ HeaderHolds(frame) /\ PduBytes(frame) # <<>>
    /\ header = DeserializeHeader(frame) /\ header \in Headers /\ HeaderPacks(header)
    /\ header.length = Len(PduBytes(frame)) + 1 /\ Len(frame) = 7 + Len(PduBytes(frame))
    /\ \/ class \in Requests /\ class.id = PduBytes(frame)[1]
       \/ class = ModbusPdu
    /\ pdu.id = class.id /\ pdu.fc = PduBytes(frame)[1] /\ pdu \in Pdus /\ pdu.fc <= 255
    /\ Len(pdu.fields) = Len(class.widths)
    /\ \A k \in 1 .. Len(class.widths) : Fits(pdu.fields[k], class.widths[k])
    /\ class.item = 0 => pdu.tail = <<>>
    /\ \A k \in 1 .. Len(pdu.tail) : Fits(pdu.tail[k], class.item)
    /\ Len(PduBytes(frame)) = HeadSize(class) + class.item * Len(pdu.tail)

Nameless(frame) == ~ HeaderHolds(frame) \/ PduBytes(frame) = <<>>

Unparsable(frame) ==
    /\ HeaderHolds(frame) /\ PduBytes(frame) # <<>>
    /\ PduBytes(frame)[1] \in Nat /\ PduBytes(frame)[1] <= 43

LEMMA RequestIsRead ==
    ASSUME NEW frame \in Seq(Octet)
    PROVE  \/ /\ Nameless(frame)
              /\ ModbusTcpRequest(frame) = Raises("ModbusPacketError")
           \/ /\ Unparsable(frame)
              /\ ModbusTcpRequest(frame) =
                    [raises |-> "ModbusPduParseError", header |-> DeserializeHeader(frame),
                     fc |-> PduBytes(frame)[1]]
           \/ \E class, header, pdu :
                 /\ Heard(class, frame, header, pdu)
                 /\ ModbusTcpRequest(frame) = Returns([header |-> header, pdu |-> pdu])
  <1>1. CASE Nameless(frame)
    <2>1. ModbusTcpRequest(frame) = DeserializeTcp(frame, "request")
      BY <1>1 DEF Nameless, ModbusTcpRequest
    <2>2. DeserializeTcp(frame, "request") = Raises("ModbusPacketError")
      BY <1>1 DEF Nameless, DeserializeTcp, PduParses
    <2> QED
      BY <1>1, <2>1, <2>2
  <1>2. CASE ~ Nameless(frame)
    <2>1. HeaderHolds(frame) /\ PduBytes(frame) # <<>>
      BY <1>2 DEF Nameless
    <2>2. PICK bytes, header : bytes = PduBytes(frame) /\ header = DeserializeHeader(frame)
      OBVIOUS
    <2>3. /\ header \in Headers /\ HeaderPacks(header)
          /\ bytes \in Seq(Octet) /\ Len(bytes) \in Nat /\ bytes # <<>>
          /\ Len(frame) = 7 + Len(bytes) /\ header.length = Len(bytes) + 1
      BY <2>1, <2>2, HeaderBack
    <2>4. bytes[1] \in Octet /\ bytes[1] \in Nat /\ bytes[1] <= 255
      <3>1. bytes[1] \in Octet
        BY <2>3
      <3> QED
        BY <3>1, OctetIs
    <2>5. PICK class : class = Lookup(bytes[1])
      OBVIOUS
    <2>6. \/ class \in Requests /\ class.id = bytes[1] /\ bytes[1] <= 43
          \/ class = ModbusPdu
      BY <2>4, <2>5, RequestClassIs
    <2>7. PduClass("request", bytes) = class
      BY <2>5 DEF PduClass, RequestClass
    <2>8. CASE Unpacks(class, bytes)
      <3>1. PICK pdu : pdu = Deserialize(class, bytes)
        OBVIOUS
      <3>2. Layout(class) /\ class.id \in Nat /\ class.id # ModbusError.id
        <4>1. ASSUME class \in Requests PROVE class.id # ModbusError.id /\ class \in Registry
          <5>1. class.id <= 43 /\ class.id \in Int
            BY <4>1, Sides
          <5> QED
            <6>1. class.id # 32768
              BY ONLY <5>1
            <6>2. ModbusError.id = 32768
              BY Ids
            <6> QED
              BY <4>1, <6>1, <6>2, RegistryIs
        <4>2. ModbusPdu.id # ModbusError.id
          BY Ids
        <4>3. class \in Registry \cup {ModbusPdu, ModbusError}
          BY <2>6, <4>1
        <4> QED
          BY <2>6, <4>1, <4>2, <4>3, Layouts
      <3>3. /\ pdu.id = class.id /\ pdu.fc = bytes[1] /\ pdu \in Pdus
            /\ Len(pdu.fields) = Len(class.widths)
            /\ \A k \in 1 .. Len(class.widths) : Fits(pdu.fields[k], class.widths[k])
            /\ class.item = 0 => pdu.tail = <<>>
            /\ \A k \in 1 .. Len(pdu.tail) : Fits(pdu.tail[k], class.item)
            /\ Len(bytes) = HeadSize(class) + class.item * Len(pdu.tail)
        BY <2>3, <2>8, <3>1, <3>2, DeserializeShapes
      <3>4. Heard(class, frame, header, pdu)
        BY <2>1, <2>2, <2>3, <2>4, <2>6, <3>3 DEF Heard
      <3>5. ModbusTcpRequest(frame) = Returns([header |-> header, pdu |-> pdu])
        BY <2>1, <2>2, <2>7, <2>8, <3>1
        DEF ModbusTcpRequest, DeserializeTcp, PduParses, ParsedPdu
      <3> QED
        BY <3>4, <3>5
    <2>9. CASE ~ Unpacks(class, bytes)
      <3>1. bytes[1] <= 43
        BY <2>3, <2>6, <2>9, GenericBack
      <3>2. Unparsable(frame)
        BY <2>1, <2>2, <2>4, <3>1 DEF Unparsable
      <3>3. ModbusTcpRequest(frame) = [raises |-> "ModbusPduParseError",
                                       header |-> DeserializeHeader(frame),
                                       fc |-> PduBytes(frame)[1]]
        BY <2>1, <2>2, <2>7, <2>9 DEF ModbusTcpRequest, PduParses
      <3> QED
        BY <3>2, <3>3
    <2> QED
      BY <2>8, <2>9
  <1> QED
    BY <1>1, <1>2

\* An answer that packs, into the length a header can tell.
Sendable(frame, pdu, rsp) ==
    /\ Packs(rsp)
    /\ \/ PduLen(rsp) <= 257
       \/ pdu.id = 43 /\ PduLen(rsp) = Len(PduBytes(frame))

\* An answer to a request: an exception, or of the class of its function code.
\* It is sendable but for a read too wide, and a conforming request has it in a
\* frame of 260 bytes or of its own length.
Suits(frame, pdu, rsp) ==
    \E class :
        /\ Answers(class, rsp) /\ rsp.fc = pdu.fc
        /\ class = ModbusError => rsp = Exception(pdu.fc, SlaveDeviceFailure)
        /\ class # ModbusError =>
              /\ pdu.id \notin {0, 8} /\ rsp.id = Rsp(pdu.id)
              /\ ReadTooWide(pdu) \/ Sendable(frame, pdu, rsp)
              /\ Conforming(pdu) =>
                    /\ Packs(rsp) /\ Conforming(rsp)
                    /\ \/ PduLen(rsp) <= 253
                       \/ pdu.id = 43 /\ PduLen(rsp) = Len(PduBytes(frame))

LEMMA ExceptionSuits ==
    ASSUME NEW frame, NEW pdu, pdu.fc \in Nat, NEW rsp, rsp = CreateErrRsp(pdu.fc)
    PROVE  Suits(frame, pdu, rsp)
  <1>1. PICK fc, code : fc = pdu.fc /\ code = SlaveDeviceFailure
    OBVIOUS
  <1>2. rsp = Exception(fc, code) /\ fc \in Nat /\ code \in Int
    BY <1>1 DEF CreateErrRsp, SlaveDeviceFailure
  <1>3. Answers(ModbusError, rsp) /\ rsp.fc = fc
    BY <1>2, ExceptionIs
  <1> QED
    BY <1>1, <1>2, <1>3 DEF Suits

LEMMA HeardIs ==
    ASSUME NEW class \in Requests, NEW frame, NEW header, NEW pdu,
           Heard(class, frame, header, pdu)
    PROVE  /\ pdu.id = class.id /\ pdu.fc = class.id /\ ClassOf(pdu) = class
           /\ pdu.fields \in Seq(Int) /\ pdu.tail \in Seq(Int)
  <1>1. pdu.id = class.id /\ pdu.fc = class.id
    <2>1. class # ModbusPdu
      BY Sides, Ids
    <2> QED
      BY <2>1 DEF Heard
  <1>2. class \in Known
    BY RegistryIs DEF Known
  <1>3. ClassOf(pdu) = class
    BY <1>1, <1>2, KnownIs
  <1>4. pdu \in Pdus
    BY DEF Heard
  <1> QED
    BY <1>1, <1>3, <1>4 DEF Pdus

\* The answer of a class to the request of that function code.
LEMMA ResponseSuits ==
    ASSUME NEW class \in Requests, NEW frame, NEW header, NEW pdu,
           Heard(class, frame, header, pdu),
           NEW made \in Responses, made.id = Rsp(class.id), class.id # 8,
           NEW rsp, Answers(made, rsp), ReadTooWide(pdu) \/ Sendable(frame, pdu, rsp),
           Conforming(pdu) =>
               /\ Packs(rsp) /\ Conforming(rsp)
               /\ PduLen(rsp) <= 253 \/ (pdu.id = 43 /\ PduLen(rsp) = Len(PduBytes(frame)))
    PROVE  Suits(frame, pdu, rsp)
  <1>1. pdu.id = class.id /\ pdu.fc = class.id
    BY HeardIs
  <1>2. class.id \in Int /\ 1 <= class.id
    BY Sides
  <1>3. rsp.id = made.id /\ rsp.fc = made.id - 32768
    BY DEF Answers
  <1>4. made.id = 32768 + class.id
    BY <1>2 DEF Rsp
  <1>5. rsp.fc = pdu.fc /\ rsp.id = Rsp(pdu.id) /\ pdu.id \notin {0, 8}
    BY <1>1, <1>2, <1>3, <1>4
  <1>6. made # ModbusError
    BY Sides, Ids
  <1> QED
    BY <1>5, <1>6 DEF Suits

LEMMA ReadSuits ==
    ASSUME NEW class \in Requests, NEW frame, NEW header, NEW pdu,
           Heard(class, frame, header, pdu),
           NEW made \in Responses, made.id = Rsp(class.id), class.id # 8,
           made.widths = << 1 >>, made.item \in Width, made.limits = {}, made.rule = "tail",
           NEW n \in Nat, NEW value, Fits(value, made.item), value \in Int,
           NEW count, count = made.item * n,
           ReadTooWide(pdu) \/ count <= 255, Conforming(pdu) => count <= 251,
           NEW rsp, rsp = Pdu(made, <<count>>, Repeated(value, n))
    PROVE  Suits(frame, pdu, rsp)
  <1>1. /\ Answers(made, rsp)
        /\ count <= 255 => Packs(rsp) /\ PduLen(rsp) = 2 + count /\ Conforming(rsp)
    BY CountedIs
  <1>2. count \in Nat
    BY DEF Width
  <1>3. Conforming(pdu) => Packs(rsp) /\ Conforming(rsp) /\ PduLen(rsp) <= 253
    BY <1>1, <1>2
  <1>4. ReadTooWide(pdu) \/ Sendable(frame, pdu, rsp)
    BY <1>1, <1>2 DEF Sendable
  <1> QED
    BY <1>1, <1>3, <1>4, ResponseSuits

LEMMA EchoSuits ==
    ASSUME NEW class \in Requests, NEW frame, NEW header, NEW pdu,
           Heard(class, frame, header, pdu),
           NEW made \in Responses, made.id = Rsp(class.id), class.id # 8,
           made.item = 0, NEW n \in Nat, n = Len(made.widths), HeadSize(made) <= 253,
           NEW fields \in Seq(Int), Len(fields) = n,
           \A k \in 1 .. n : Fits(fields[k], made.widths[k]),
           NEW rsp, rsp = Pdu(made, fields, <<>>),
           (Conforming(pdu) /\ rsp.fields = fields /\ ClassOf(rsp) = made) => Conforming(rsp)
    PROVE  Suits(frame, pdu, rsp)
  <1>1. /\ Answers(made, rsp) /\ rsp.fields = fields /\ ClassOf(rsp) = made
        /\ Packs(rsp) /\ PduLen(rsp) = HeadSize(made)
    BY EchoIs
  <1>2. Conforming(pdu) => Packs(rsp) /\ Conforming(rsp) /\ PduLen(rsp) <= 253
    BY <1>1
  <1>3. PduLen(rsp) \in Nat
    BY <1>1, AnswerIs, PduBack DEF Answers
  <1>4. Sendable(frame, pdu, rsp)
    BY <1>1, <1>3 DEF Sendable
  <1> QED
    BY <1>1, <1>2, <1>4, ResponseSuits

\* A field of a request.
LEMMA FieldIs ==
    ASSUME NEW class, NEW frame, NEW header, NEW pdu, Heard(class, frame, header, pdu),
           NEW k \in 1 .. Len(class.widths), class.widths[k] = 2
    PROVE  pdu.fields[k] \in Int /\ 0 <= pdu.fields[k] /\ pdu.fields[k] <= 65535
  <1>1. Fits(pdu.fields[k], 2)
    BY DEF Heard
  <1> QED
    BY <1>1, FitsIs

\* What a read that is not too wide asks for.
LEMMA WidthOfReads ==
    ASSUME NEW pdu, NEW asked \in Int, asked = pdu.fields[2]
    PROVE  /\ pdu.id \in {1, 2} => ReadTooWide(pdu) \/ asked <= 2040
           /\ pdu.id \in {3, 4, 23} => ReadTooWide(pdu) \/ asked <= 127
  <1>1. pdu.id \in {1, 2} => ReadTooWide(pdu) \/ asked <= 2040
    BY Ids DEF ReadTooWide
  <1>2. pdu.id \in {3, 4, 23} => ReadTooWide(pdu) \/ asked <= 127
    BY Ids DEF ReadTooWide
  <1> QED
    BY <1>1, <1>2

LEMMA Suits1 ==
    ASSUME NEW frame, NEW header, NEW pdu, Heard(ModbusRequestFC1, frame, header, pdu),
           NEW rsp, rsp = Dispatch(pdu)
    PROVE  Suits(frame, pdu, rsp)
  <1>1. PICK class, made : class = ModbusRequestFC1 /\ made = ModbusResponseFC1
    OBVIOUS
  <1>2. /\ class \in Requests /\ made \in Responses /\ Heard(class, frame, header, pdu)
        /\ class.id = 1 /\ class.id # 8
    BY <1>1, Ids DEF Requests, Responses
  <1>3. made.id = Rsp(class.id)
    BY <1>1, Ids DEF Rsp
  <1>4. /\ pdu.id = 1 /\ pdu.fc = 1 /\ ClassOf(pdu) = class
        /\ pdu.fields \in Seq(Int) /\ pdu.tail \in Seq(Int)
    BY <1>2, HeardIs
  <1>5. /\ made.widths = <<1>> /\ made.item = 1 /\ made.item \in Width
        /\ made.limits = {} /\ made.rule = "tail"
    BY <1>1, Places, Limits, Rules DEF Width
  <1>6. PICK asked : asked = pdu.fields[2]
    OBVIOUS
  <1>7. asked \in Int /\ 0 <= asked /\ asked <= 65535
    <2>1. 2 \in 1 .. Len(class.widths) /\ class.widths[2] = 2
      BY <1>1, Places
    <2> QED
      BY <1>2, <1>6, <2>1, FieldIs
  <1>8. (Conforming(pdu) => asked <= 2000) /\ (ReadTooWide(pdu) \/ asked <= 2040)
    <2>1. Bound(2, 1, 2000) \in ClassOf(pdu).limits
      BY <1>1, <1>4, Limits
    <2>2. ReadTooWide(pdu) \/ asked <= 2040
      BY <1>4, <1>6, <1>7, WidthOfReads
    <2> QED
      BY <1>6, <2>1, <2>2, Bounded
  <1>9. PICK n, count, value : n = (asked + 7) \div 8 /\ count = made.item * n /\ value = 255
    OBVIOUS
  <1>10. /\ n \in Nat /\ count = n /\ value \in Int
         /\ ReadTooWide(pdu) \/ count <= 255
         /\ Conforming(pdu) => count <= 251
    BY <1>5, <1>7, <1>8, <1>9
  <1>11. Fits(value, made.item)
    BY <1>5, <1>9, FitsIs
  <1>12. rsp = Pdu(made, <<count>>, Repeated(value, n))
    <2>1. Lookup(Rsp(pdu.fc)) = made
      BY <1>1, <1>4, LookedUp
    <2>2. rsp = CreateBitsRsp(pdu)
      BY <1>4 DEF Dispatch
    <2>3. CreateBitsRsp(pdu) = Pdu(Lookup(Rsp(pdu.fc)), <<n>>, Repeated(value, n))
      BY <1>6, <1>9 DEF CreateBitsRsp
    <2> QED
      BY <1>10, <2>1, <2>2, <2>3
  <1> QED
    BY <1>2, <1>3, <1>5, <1>9, <1>10, <1>11, <1>12, ReadSuits

LEMMA Suits2 ==
    ASSUME NEW frame, NEW header, NEW pdu, Heard(ModbusRequestFC2, frame, header, pdu),
           NEW rsp, rsp = Dispatch(pdu)
    PROVE  Suits(frame, pdu, rsp)
  <1>1. PICK class, made : class = ModbusRequestFC2 /\ made = ModbusResponseFC2
    OBVIOUS
  <1>2. /\ class \in Requests /\ made \in Responses /\ Heard(class, frame, header, pdu)
        /\ class.id = 2 /\ class.id # 8
    BY <1>1, Ids DEF Requests, Responses
  <1>3. made.id = Rsp(class.id)
    BY <1>1, Ids DEF Rsp
  <1>4. /\ pdu.id = 2 /\ pdu.fc = 2 /\ ClassOf(pdu) = class
        /\ pdu.fields \in Seq(Int) /\ pdu.tail \in Seq(Int)
    BY <1>2, HeardIs
  <1>5. /\ made.widths = <<1>> /\ made.item = 1 /\ made.item \in Width
        /\ made.limits = {} /\ made.rule = "tail"
    BY <1>1, Places, Limits, Rules DEF Width
  <1>6. PICK asked : asked = pdu.fields[2]
    OBVIOUS
  <1>7. asked \in Int /\ 0 <= asked /\ asked <= 65535
    <2>1. 2 \in 1 .. Len(class.widths) /\ class.widths[2] = 2
      BY <1>1, Places
    <2> QED
      BY <1>2, <1>6, <2>1, FieldIs
  <1>8. (Conforming(pdu) => asked <= 2000) /\ (ReadTooWide(pdu) \/ asked <= 2040)
    <2>1. Bound(2, 1, 2000) \in ClassOf(pdu).limits
      BY <1>1, <1>4, Limits
    <2>2. ReadTooWide(pdu) \/ asked <= 2040
      BY <1>4, <1>6, <1>7, WidthOfReads
    <2> QED
      BY <1>6, <2>1, <2>2, Bounded
  <1>9. PICK n, count, value : n = (asked + 7) \div 8 /\ count = made.item * n /\ value = 255
    OBVIOUS
  <1>10. /\ n \in Nat /\ count = n /\ value \in Int
         /\ ReadTooWide(pdu) \/ count <= 255
         /\ Conforming(pdu) => count <= 251
    BY <1>5, <1>7, <1>8, <1>9
  <1>11. Fits(value, made.item)
    BY <1>5, <1>9, FitsIs
  <1>12. rsp = Pdu(made, <<count>>, Repeated(value, n))
    <2>1. Lookup(Rsp(pdu.fc)) = made
      BY <1>1, <1>4, LookedUp
    <2>2. rsp = CreateBitsRsp(pdu)
      BY <1>4 DEF Dispatch
    <2>3. CreateBitsRsp(pdu) = Pdu(Lookup(Rsp(pdu.fc)), <<n>>, Repeated(value, n))
      BY <1>6, <1>9 DEF CreateBitsRsp
    <2> QED
      BY <1>10, <2>1, <2>2, <2>3
  <1> QED
    BY <1>2, <1>3, <1>5, <1>9, <1>10, <1>11, <1>12, ReadSuits

LEMMA Suits3 ==
    ASSUME NEW frame, NEW header, NEW pdu, Heard(ModbusRequestFC3, frame, header, pdu),
           NEW rsp, rsp = Dispatch(pdu)
    PROVE  Suits(frame, pdu, rsp)
  <1>1. PICK class, made : class = ModbusRequestFC3 /\ made = ModbusResponseFC3
    OBVIOUS
  <1>2. /\ class \in Requests /\ made \in Responses /\ Heard(class, frame, header, pdu)
        /\ class.id = 3 /\ class.id # 8
    BY <1>1, Ids DEF Requests, Responses
  <1>3. made.id = Rsp(class.id)
    BY <1>1, Ids DEF Rsp
  <1>4. /\ pdu.id = 3 /\ pdu.fc = 3 /\ ClassOf(pdu) = class
        /\ pdu.fields \in Seq(Int) /\ pdu.tail \in Seq(Int)
    BY <1>2, HeardIs
  <1>5. /\ made.widths = <<1>> /\ made.item = 2 /\ made.item \in Width
        /\ made.limits = {} /\ made.rule = "tail"
    BY <1>1, Places, Limits, Rules DEF Width
  <1>6. PICK asked : asked = pdu.fields[2]
    OBVIOUS
  <1>7. asked \in Int /\ 0 <= asked /\ asked <= 65535
    <2>1. 2 \in 1 .. Len(class.widths) /\ class.widths[2] = 2
      BY <1>1, Places
    <2> QED
      BY <1>2, <1>6, <2>1, FieldIs
  <1>8. (Conforming(pdu) => asked <= 125) /\ (ReadTooWide(pdu) \/ asked <= 127)
    <2>1. Bound(2, 1, 125) \in ClassOf(pdu).limits
      BY <1>1, <1>4, Limits
    <2>2. ReadTooWide(pdu) \/ asked <= 127
      BY <1>4, <1>6, <1>7, WidthOfReads
    <2> QED
      BY <1>6, <2>1, <2>2, Bounded
  <1>9. PICK n, count, value : n = asked /\ count = made.item * n /\ value = 65535
    OBVIOUS
  <1>10. /\ n \in Nat /\ count = 2 * n /\ value \in Int
         /\ ReadTooWide(pdu) \/ count <= 255
         /\ Conforming(pdu) => count <= 251
    BY <1>5, <1>7, <1>8, <1>9
  <1>11. Fits(value, made.item)
    BY <1>5, <1>9, FitsIs
  <1>12. rsp = Pdu(made, <<count>>, Repeated(value, n))
    <2>1. Lookup(Rsp(pdu.fc)) = made
      BY <1>1, <1>4, LookedUp
    <2>2. rsp = CreateRegistersRsp(pdu)
      BY <1>4 DEF Dispatch
    <2>3. CreateRegistersRsp(pdu) = Pdu(Lookup(Rsp(pdu.fc)), <<2 * n>>, Repeated(value, n))
      BY <1>6, <1>9 DEF CreateRegistersRsp
    <2> QED
      BY <1>10, <2>1, <2>2, <2>3
  <1> QED
    BY <1>2, <1>3, <1>5, <1>9, <1>10, <1>11, <1>12, ReadSuits

LEMMA Suits4 ==
    ASSUME NEW frame, NEW header, NEW pdu, Heard(ModbusRequestFC4, frame, header, pdu),
           NEW rsp, rsp = Dispatch(pdu)
    PROVE  Suits(frame, pdu, rsp)
  <1>1. PICK class, made : class = ModbusRequestFC4 /\ made = ModbusResponseFC4
    OBVIOUS
  <1>2. /\ class \in Requests /\ made \in Responses /\ Heard(class, frame, header, pdu)
        /\ class.id = 4 /\ class.id # 8
    BY <1>1, Ids DEF Requests, Responses
  <1>3. made.id = Rsp(class.id)
    BY <1>1, Ids DEF Rsp
  <1>4. /\ pdu.id = 4 /\ pdu.fc = 4 /\ ClassOf(pdu) = class
        /\ pdu.fields \in Seq(Int) /\ pdu.tail \in Seq(Int)
    BY <1>2, HeardIs
  <1>5. /\ made.widths = <<1>> /\ made.item = 2 /\ made.item \in Width
        /\ made.limits = {} /\ made.rule = "tail"
    BY <1>1, Places, Limits, Rules DEF Width
  <1>6. PICK asked : asked = pdu.fields[2]
    OBVIOUS
  <1>7. asked \in Int /\ 0 <= asked /\ asked <= 65535
    <2>1. 2 \in 1 .. Len(class.widths) /\ class.widths[2] = 2
      BY <1>1, Places
    <2> QED
      BY <1>2, <1>6, <2>1, FieldIs
  <1>8. (Conforming(pdu) => asked <= 125) /\ (ReadTooWide(pdu) \/ asked <= 127)
    <2>1. Bound(2, 1, 125) \in ClassOf(pdu).limits
      BY <1>1, <1>4, Limits
    <2>2. ReadTooWide(pdu) \/ asked <= 127
      BY <1>4, <1>6, <1>7, WidthOfReads
    <2> QED
      BY <1>6, <2>1, <2>2, Bounded
  <1>9. PICK n, count, value : n = asked /\ count = made.item * n /\ value = 65535
    OBVIOUS
  <1>10. /\ n \in Nat /\ count = 2 * n /\ value \in Int
         /\ ReadTooWide(pdu) \/ count <= 255
         /\ Conforming(pdu) => count <= 251
    BY <1>5, <1>7, <1>8, <1>9
  <1>11. Fits(value, made.item)
    BY <1>5, <1>9, FitsIs
  <1>12. rsp = Pdu(made, <<count>>, Repeated(value, n))
    <2>1. Lookup(Rsp(pdu.fc)) = made
      BY <1>1, <1>4, LookedUp
    <2>2. rsp = CreateRegistersRsp(pdu)
      BY <1>4 DEF Dispatch
    <2>3. CreateRegistersRsp(pdu) = Pdu(Lookup(Rsp(pdu.fc)), <<2 * n>>, Repeated(value, n))
      BY <1>6, <1>9 DEF CreateRegistersRsp
    <2> QED
      BY <1>10, <2>1, <2>2, <2>3
  <1> QED
    BY <1>2, <1>3, <1>5, <1>9, <1>10, <1>11, <1>12, ReadSuits

LEMMA Suits23 ==
    ASSUME NEW frame, NEW header, NEW pdu, Heard(ModbusRequestFC23, frame, header, pdu),
           NEW rsp, rsp = Dispatch(pdu)
    PROVE  Suits(frame, pdu, rsp)
  <1>1. PICK class, made : class = ModbusRequestFC23 /\ made = ModbusResponseFC23
    OBVIOUS
  <1>2. /\ class \in Requests /\ made \in Responses /\ Heard(class, frame, header, pdu)
        /\ class.id = 23 /\ class.id # 8
    BY <1>1, Ids DEF Requests, Responses
  <1>3. made.id = Rsp(class.id)
    BY <1>1, Ids DEF Rsp
  <1>4. /\ pdu.id = 23 /\ pdu.fc = 23 /\ ClassOf(pdu) = class
        /\ pdu.fields \in Seq(Int) /\ pdu.tail \in Seq(Int)
    BY <1>2, HeardIs
  <1>5. /\ made.widths = <<1>> /\ made.item = 2 /\ made.item \in Width
        /\ made.limits = {} /\ made.rule = "tail"
    BY <1>1, Places, Limits, Rules DEF Width
  <1>6. PICK asked : asked = pdu.fields[2]
    OBVIOUS
  <1>7. asked \in Int /\ 0 <= asked /\ asked <= 65535
    <2>1. 2 \in 1 .. Len(class.widths) /\ class.widths[2] = 2
      BY <1>1, Places
    <2> QED
      BY <1>2, <1>6, <2>1, FieldIs
  <1>8. (Conforming(pdu) => asked <= 125) /\ (ReadTooWide(pdu) \/ asked <= 127)
    <2>1. Bound(2, 1, 125) \in ClassOf(pdu).limits
      BY <1>1, <1>4, Limits
    <2>2. ReadTooWide(pdu) \/ asked <= 127
      BY <1>4, <1>6, <1>7, WidthOfReads
    <2> QED
      BY <1>6, <2>1, <2>2, Bounded
  <1>9. PICK n, count, value : n = asked /\ count = made.item * n /\ value = 65535
    OBVIOUS
  <1>10. /\ n \in Nat /\ count = 2 * n /\ value \in Int
         /\ ReadTooWide(pdu) \/ count <= 255
         /\ Conforming(pdu) => count <= 251
    BY <1>5, <1>7, <1>8, <1>9
  <1>11. Fits(value, made.item)
    BY <1>5, <1>9, FitsIs
  <1>12. rsp = Pdu(made, <<count>>, Repeated(value, n))
    <2>1. rsp = CreateFc23Rsp(pdu)
      BY <1>4 DEF Dispatch
    <2>2. CreateFc23Rsp(pdu) = Pdu(made, <<2 * n>>, Repeated(value, n))
      BY <1>1, <1>6, <1>9 DEF CreateFc23Rsp
    <2> QED
      BY <1>10, <2>1, <2>2
  <1> QED
    BY <1>2, <1>3, <1>5, <1>9, <1>10, <1>11, <1>12, ReadSuits

LEMMA Suits5 ==
    ASSUME NEW frame, NEW header, NEW pdu, Heard(ModbusRequestFC5, frame, header, pdu),
           NEW rsp, rsp = Dispatch(pdu)
    PROVE  Suits(frame, pdu, rsp)
  <1>1. PICK class, made : class = ModbusRequestFC5 /\ made = ModbusResponseFC5
    OBVIOUS
  <1>2. /\ class \in Requests /\ made \in Responses /\ Heard(class, frame, header, pdu)
        /\ class.id = 5 /\ class.id # 8
    BY <1>1, Ids DEF Requests, Responses
  <1>3. made.id = Rsp(class.id)
    BY <1>1, Ids DEF Rsp
  <1>4. /\ pdu.id = 5 /\ pdu.fc = 5 /\ ClassOf(pdu) = class
        /\ pdu.fields \in Seq(Int) /\ pdu.tail \in Seq(Int)
    BY <1>2, HeardIs
  <1>5. /\ made.widths = <<2, 2>> /\ made.item = 0 /\ Len(made.widths) = 2
        /\ made.limits = {} /\ made.rule = "coil"
    BY <1>1, Places, Limits, Rules
  <1>6. HeadSize(made) = 5
    BY <1>5, Heads DEF HeadSize
  <1>7. PICK fields : fields = pdu.fields
    OBVIOUS
  <1>8. /\ fields \in Seq(Int) /\ Len(fields) = 2
        /\ \A k \in 1 .. 2 : fields[k] = pdu.fields[k]
        /\ \A k \in 1 .. 2 : Fits(fields[k], made.widths[k])
    <2>1. /\ Len(pdu.fields) = 2
          /\ \A k \in 1 .. 2 : Fits(pdu.fields[k], class.widths[k])
      <3>1. Len(class.widths) = 2
        BY <1>1, Places
      <3> QED
        BY <1>2, <3>1 DEF Heard
    <2>2. /\ fields \in Seq(Int) /\ Len(fields) = 2
          /\ \A k \in 1 .. 2 : fields[k] = pdu.fields[k]
      BY <1>4, <1>7, <2>1
    <2>3. \A k \in 1 .. 2 : made.widths[k] = class.widths[k]
      BY <1>1, <1>5, Places
    <2> QED
      BY <2>1, <2>2, <2>3
  <1>9. rsp = Pdu(made, fields, <<>>)
    <2>1. Lookup(Rsp(pdu.fc)) = made
      BY <1>1, <1>4, LookedUp
    <2> QED
      BY <1>4, <1>7, <2>1 DEF Dispatch, CreateEchoRsp
  <1>10. (Conforming(pdu) /\ rsp.fields = fields /\ ClassOf(rsp) = made) => Conforming(rsp)
    <2>1. Conforming(pdu) => pdu.fields[2] \in {0, 65280}
      <3>1. class.rule = "coil"
        BY <1>1, Rules
      <3> QED
        BY <1>4, <3>1 DEF Conforming, RuleHolds
    <2> QED
      BY <1>5, <1>8, <2>1, NoBound
  <1>11. PICK n : n = 2
    OBVIOUS
  <1>12. /\ n \in Nat /\ n = Len(made.widths) /\ Len(fields) = n
         /\ \A k \in 1 .. n : Fits(fields[k], made.widths[k])
         /\ HeadSize(made) <= 253 /\ made.item = 0 /\ fields \in Seq(Int)
    BY <1>5, <1>6, <1>8, <1>11
  <1> QED
    BY ONLY <1>2, <1>3, <1>9, <1>10, <1>12, EchoSuits

LEMMA Suits6 ==
    ASSUME NEW frame, NEW header, NEW pdu, Heard(ModbusRequestFC6, frame, header, pdu),
           NEW rsp, rsp = Dispatch(pdu)
    PROVE  Suits(frame, pdu, rsp)
  <1>1. PICK class, made : class = ModbusRequestFC6 /\ made = ModbusResponseFC6
    OBVIOUS
  <1>2. /\ class \in Requests /\ made \in Responses /\ Heard(class, frame, header, pdu)
        /\ class.id = 6 /\ class.id # 8
    BY <1>1, Ids DEF Requests, Responses
  <1>3. made.id = Rsp(class.id)
    BY <1>1, Ids DEF Rsp
  <1>4. /\ pdu.id = 6 /\ pdu.fc = 6 /\ ClassOf(pdu) = class
        /\ pdu.fields \in Seq(Int) /\ pdu.tail \in Seq(Int)
    BY <1>2, HeardIs
  <1>5. /\ made.widths = <<2, 2>> /\ made.item = 0 /\ Len(made.widths) = 2
        /\ made.limits = {} /\ made.rule = "none"
    BY <1>1, Places, Limits, Rules
  <1>6. HeadSize(made) = 5
    BY <1>5, Heads DEF HeadSize
  <1>7. PICK fields : fields = pdu.fields
    OBVIOUS
  <1>8. /\ fields \in Seq(Int) /\ Len(fields) = 2
        /\ \A k \in 1 .. 2 : fields[k] = pdu.fields[k]
        /\ \A k \in 1 .. 2 : Fits(fields[k], made.widths[k])
    <2>1. /\ Len(pdu.fields) = 2
          /\ \A k \in 1 .. 2 : Fits(pdu.fields[k], class.widths[k])
      <3>1. Len(class.widths) = 2
        BY <1>1, Places
      <3> QED
        BY <1>2, <3>1 DEF Heard
    <2>2. /\ fields \in Seq(Int) /\ Len(fields) = 2
          /\ \A k \in 1 .. 2 : fields[k] = pdu.fields[k]
      BY <1>4, <1>7, <2>1
    <2>3. \A k \in 1 .. 2 : made.widths[k] = class.widths[k]
      BY <1>1, <1>5, Places
    <2> QED
      BY <2>1, <2>2, <2>3
  <1>9. rsp = Pdu(made, fields, <<>>)
    <2>1. Lookup(Rsp(pdu.fc)) = made
      BY <1>1, <1>4, LookedUp
    <2> QED
      BY <1>4, <1>7, <2>1 DEF Dispatch, CreateEchoRsp
  <1>10. (Conforming(pdu) /\ rsp.fields = fields /\ ClassOf(rsp) = made) => Conforming(rsp)
    BY <1>5, NoBound
  <1>11. PICK n : n = 2
    OBVIOUS
  <1>12. /\ n \in Nat /\ n = Len(made.widths) /\ Len(fields) = n
         /\ \A k \in 1 .. n : Fits(fields[k], made.widths[k])
         /\ HeadSize(made) <= 253 /\ made.item = 0 /\ fields \in Seq(Int)
    BY <1>5, <1>6, <1>8, <1>11
  <1> QED
    BY ONLY <1>2, <1>3, <1>9, <1>10, <1>12, EchoSuits

LEMMA Suits22 ==
    ASSUME NEW frame, NEW header, NEW pdu, Heard(ModbusRequestFC22, frame, header, pdu),
           NEW rsp, rsp = Dispatch(pdu)
    PROVE  Suits(frame, pdu, rsp)
  <1>1. PICK class, made : class = ModbusRequestFC22 /\ made = ModbusResponseFC22
    OBVIOUS
  <1>2. /\ class \in Requests /\ made \in Responses /\ Heard(class, frame, header, pdu)
        /\ class.id = 22 /\ class.id # 8
    BY <1>1, Ids DEF Requests, Responses
  <1>3. made.id = Rsp(class.id)
    BY <1>1, Ids DEF Rsp
  <1>4. /\ pdu.id = 22 /\ pdu.fc = 22 /\ ClassOf(pdu) = class
        /\ pdu.fields \in Seq(Int) /\ pdu.tail \in Seq(Int)
    BY <1>2, HeardIs
  <1>5. /\ made.widths = <<2, 2, 2>> /\ made.item = 0 /\ Len(made.widths) = 3
        /\ made.limits = {} /\ made.rule = "none"
    BY <1>1, Places, Limits, Rules
  <1>6. HeadSize(made) = 7
    BY <1>5, Heads DEF HeadSize
  <1>7. PICK fields : fields = pdu.fields
    OBVIOUS
  <1>8. /\ fields \in Seq(Int) /\ Len(fields) = 3
        /\ \A k \in 1 .. 3 : fields[k] = pdu.fields[k]
        /\ \A k \in 1 .. 3 : Fits(fields[k], made.widths[k])
    <2>1. /\ Len(pdu.fields) = 3
          /\ \A k \in 1 .. 3 : Fits(pdu.fields[k], class.widths[k])
      <3>1. Len(class.widths) = 3
        BY <1>1, Places
      <3> QED
        BY <1>2, <3>1 DEF Heard
    <2>2. /\ fields \in Seq(Int) /\ Len(fields) = 3
          /\ \A k \in 1 .. 3 : fields[k] = pdu.fields[k]
      BY <1>4, <1>7, <2>1
    <2>3. \A k \in 1 .. 3 : made.widths[k] = class.widths[k]
      BY <1>1, <1>5, Places
    <2> QED
      BY <2>1, <2>2, <2>3
  <1>9. rsp = Pdu(made, fields, <<>>)
    <2>1. Lookup(Rsp(pdu.fc)) = made
      BY <1>1, <1>4, LookedUp
    <2> QED
      BY <1>4, <1>7, <2>1 DEF Dispatch, CreateEchoRsp
  <1>10. (Conforming(pdu) /\ rsp.fields = fields /\ ClassOf(rsp) = made) => Conforming(rsp)
    BY <1>5, NoBound
  <1>11. PICK n : n = 3
    OBVIOUS
  <1>12. /\ n \in Nat /\ n = Len(made.widths) /\ Len(fields) = n
         /\ \A k \in 1 .. n : Fits(fields[k], made.widths[k])
         /\ HeadSize(made) <= 253 /\ made.item = 0 /\ fields \in Seq(Int)
    BY <1>5, <1>6, <1>8, <1>11
  <1> QED
    BY ONLY <1>2, <1>3, <1>9, <1>10, <1>12, EchoSuits

LEMMA Suits15 ==
    ASSUME NEW frame, NEW header, NEW pdu, Heard(ModbusRequestFC15, frame, header, pdu),
           NEW rsp, rsp = Dispatch(pdu)
    PROVE  Suits(frame, pdu, rsp)
  <1>1. PICK class, made : class = ModbusRequestFC15 /\ made = ModbusResponseFC15
    OBVIOUS
  <1>2. /\ class \in Requests /\ made \in Responses /\ Heard(class, frame, header, pdu)
        /\ class.id = 15 /\ class.id # 8
    BY <1>1, Ids DEF Requests, Responses
  <1>3. made.id = Rsp(class.id)
    BY <1>1, Ids DEF Rsp
  <1>4. /\ pdu.id = 15 /\ pdu.fc = 15 /\ ClassOf(pdu) = class
        /\ pdu.fields \in Seq(Int) /\ pdu.tail \in Seq(Int)
    BY <1>2, HeardIs
  <1>5. /\ made.widths = <<2, 2>> /\ made.item = 0 /\ Len(made.widths) = 2
        /\ made.limits = {Bound(2, 1, 1968)} /\ made.rule = "none"
    BY <1>1, Places, Limits, Rules
  <1>6. HeadSize(made) = 5
    BY <1>5, Heads DEF HeadSize
  <1>7. PICK fields : fields = SubSeq(pdu.fields, 1, 2)
    OBVIOUS
  <1>8. /\ fields \in Seq(Int) /\ Len(fields) = 2
        /\ \A k \in 1 .. 2 : fields[k] = pdu.fields[k]
        /\ \A k \in 1 .. 2 : Fits(fields[k], made.widths[k])
    <2>1. /\ Len(pdu.fields) = 3
          /\ \A k \in 1 .. 3 : Fits(pdu.fields[k], class.widths[k])
      <3>1. Len(class.widths) = 3
        BY <1>1, Places
      <3> QED
        BY <1>2, <3>1 DEF Heard
    <2>2. /\ fields \in Seq(Int) /\ Len(fields) = 2
          /\ \A k \in 1 .. 2 : fields[k] = pdu.fields[k]
      BY <1>4, <1>7, <2>1
    <2>3. \A k \in 1 .. 2 : made.widths[k] = class.widths[k]
      BY <1>1, <1>5, Places
    <2> QED
      BY <2>1, <2>2, <2>3
  <1>9. rsp = Pdu(made, fields, <<>>)
    <2>1. Lookup(Rsp(pdu.fc)) = made
      BY <1>1, <1>4, LookedUp
    <2> QED
      BY <1>4, <1>7, <2>1 DEF Dispatch, CreateRangeRsp
  <1>10. (Conforming(pdu) /\ rsp.fields = fields /\ ClassOf(rsp) = made) => Conforming(rsp)
    <2> SUFFICES ASSUME Conforming(pdu), rsp.fields = fields, ClassOf(rsp) = made
                 PROVE  Conforming(rsp)
      OBVIOUS
    <2>1. Bound(2, 1, 1968) \in ClassOf(pdu).limits
      BY <1>1, <1>4, Limits
    <2>2. PICK high : high = 1968
      OBVIOUS
    <2>3. pdu.fields[2] \in Int /\ 1 <= pdu.fields[2] /\ pdu.fields[2] <= high /\ high \in Int
      BY <2>1, <2>2, Bounded
    <2>4. rsp.fields[2] = pdu.fields[2]
      BY <1>8
    <2> QED
      BY <1>5, <2>2, <2>3, <2>4, WithinBound
  <1>11. PICK n : n = 2
    OBVIOUS
  <1>12. /\ n \in Nat /\ n = Len(made.widths) /\ Len(fields) = n
         /\ \A k \in 1 .. n : Fits(fields[k], made.widths[k])
         /\ HeadSize(made) <= 253 /\ made.item = 0 /\ fields \in Seq(Int)
    BY <1>5, <1>6, <1>8, <1>11
  <1> QED
    BY ONLY <1>2, <1>3, <1>9, <1>10, <1>12, EchoSuits

LEMMA Suits16 ==
    ASSUME NEW frame, NEW header, NEW pdu, Heard(ModbusRequestFC16, frame, header, pdu),
           NEW rsp, rsp = Dispatch(pdu)
    PROVE  Suits(frame, pdu, rsp)
  <1>1. PICK class, made : class = ModbusRequestFC16 /\ made = ModbusResponseFC16
    OBVIOUS
  <1>2. /\ class \in Requests /\ made \in Responses /\ Heard(class, frame, header, pdu)
        /\ class.id = 16 /\ class.id # 8
    BY <1>1, Ids DEF Requests, Responses
  <1>3. made.id = Rsp(class.id)
    BY <1>1, Ids DEF Rsp
  <1>4. /\ pdu.id = 16 /\ pdu.fc = 16 /\ ClassOf(pdu) = class
        /\ pdu.fields \in Seq(Int) /\ pdu.tail \in Seq(Int)
    BY <1>2, HeardIs
  <1>5. /\ made.widths = <<2, 2>> /\ made.item = 0 /\ Len(made.widths) = 2
        /\ made.limits = {Bound(2, 1, 123)} /\ made.rule = "none"
    BY <1>1, Places, Limits, Rules
  <1>6. HeadSize(made) = 5
    BY <1>5, Heads DEF HeadSize
  <1>7. PICK fields : fields = SubSeq(pdu.fields, 1, 2)
    OBVIOUS
  <1>8. /\ fields \in Seq(Int) /\ Len(fields) = 2
        /\ \A k \in 1 .. 2 : fields[k] = pdu.fields[k]
        /\ \A k \in 1 .. 2 : Fits(fields[k], made.widths[k])
    <2>1. /\ Len(pdu.fields) = 3
          /\ \A k \in 1 .. 3 : Fits(pdu.fields[k], class.widths[k])
      <3>1. Len(class.widths) = 3
        BY <1>1, Places
      <3> QED
        BY <1>2, <3>1 DEF Heard
    <2>2. /\ fields \in Seq(Int) /\ Len(fields) = 2
          /\ \A k \in 1 .. 2 : fields[k] = pdu.fields[k]
      BY <1>4, <1>7, <2>1
    <2>3. \A k \in 1 .. 2 : made.widths[k] = class.widths[k]
      BY <1>1, <1>5, Places
    <2> QED
      BY <2>1, <2>2, <2>3
  <1>9. rsp = Pdu(made, fields, <<>>)
    <2>1. Lookup(Rsp(pdu.fc)) = made
      BY <1>1, <1>4, LookedUp
    <2> QED
      BY <1>4, <1>7, <2>1 DEF Dispatch, CreateRangeRsp
  <1>10. (Conforming(pdu) /\ rsp.fields = fields /\ ClassOf(rsp) = made) => Conforming(rsp)
    <2> SUFFICES ASSUME Conforming(pdu), rsp.fields = fields, ClassOf(rsp) = made
                 PROVE  Conforming(rsp)
      OBVIOUS
    <2>1. Bound(2, 1, 123) \in ClassOf(pdu).limits
      BY <1>1, <1>4, Limits
    <2>2. PICK high : high = 123
      OBVIOUS
    <2>3. pdu.fields[2] \in Int /\ 1 <= pdu.fields[2] /\ pdu.fields[2] <= high /\ high \in Int
      BY <2>1, <2>2, Bounded
    <2>4. rsp.fields[2] = pdu.fields[2]
      BY <1>8
    <2> QED
      BY <1>5, <2>2, <2>3, <2>4, WithinBound
  <1>11. PICK n : n = 2
    OBVIOUS
  <1>12. /\ n \in Nat /\ n = Len(made.widths) /\ Len(fields) = n
         /\ \A k \in 1 .. n : Fits(fields[k], made.widths[k])
         /\ HeadSize(made) <= 253 /\ made.item = 0 /\ fields \in Seq(Int)
    BY <1>5, <1>6, <1>8, <1>11
  <1> QED
    BY ONLY <1>2, <1>3, <1>9, <1>10, <1>12, EchoSuits

LEMMA Suits7 ==
    ASSUME NEW frame, NEW header, NEW pdu, Heard(ModbusRequestFC7, frame, header, pdu),
           NEW rsp, rsp = Dispatch(pdu)
    PROVE  Suits(frame, pdu, rsp)
  <1>1. PICK class, made : class = ModbusRequestFC7 /\ made = ModbusResponseFC7
    OBVIOUS
  <1>2. /\ class \in Requests /\ made \in Responses /\ Heard(class, frame, header, pdu)
        /\ class.id = 7 /\ class.id # 8
    BY <1>1, Ids DEF Requests, Responses
  <1>3. made.id = Rsp(class.id)
    BY <1>1, Ids DEF Rsp
  <1>4. /\ pdu.id = 7 /\ pdu.fc = 7 /\ ClassOf(pdu) = class
        /\ pdu.fields \in Seq(Int) /\ pdu.tail \in Seq(Int)
    BY <1>2, HeardIs
  <1>5. /\ made.widths = <<1>> /\ made.item = 0 /\ Len(made.widths) = 1
        /\ made.limits = {} /\ made.rule = "none"
    BY <1>1, Places, Limits, Rules
  <1>6. HeadSize(made) = 2
    BY <1>5, Heads DEF HeadSize
  <1>7. PICK fields : fields = <<0>>
    OBVIOUS
  <1>8. /\ fields \in Seq(Int) /\ Len(fields) = 1
        /\ \A k \in 1 .. 1 : Fits(fields[k], made.widths[k])
    <2>1. Fits(0, 1)
      BY FitsIs
    <2> QED
      BY <1>5, <1>7, <2>1
  <1>9. rsp = Pdu(made, fields, <<>>)
    BY <1>1, <1>4, <1>7 DEF Dispatch, CreateFc7Rsp
  <1>10. (Conforming(pdu) /\ rsp.fields = fields /\ ClassOf(rsp) = made) => Conforming(rsp)
    BY <1>5, NoBound
  <1>11. PICK n : n = 1
    OBVIOUS
  <1>12. /\ n \in Nat /\ n = Len(made.widths) /\ Len(fields) = n
         /\ \A k \in 1 .. n : Fits(fields[k], made.widths[k])
         /\ HeadSize(made) <= 253 /\ made.item = 0 /\ fields \in Seq(Int)
    BY <1>5, <1>6, <1>8, <1>11
  <1> QED
    BY ONLY <1>2, <1>3, <1>9, <1>10, <1>12, EchoSuits

LEMMA Suits43 ==
    ASSUME NEW frame, NEW header, NEW pdu, Heard(ModbusRequestFC43, frame, header, pdu),
           NEW rsp, rsp = Dispatch(pdu)
    PROVE  Suits(frame, pdu, rsp)
  <1>1. PICK class, made : class = ModbusRequestFC43 /\ made = ModbusResponseFC43
    OBVIOUS
  <1>2. /\ class \in Requests /\ made \in Responses /\ Heard(class, frame, header, pdu)
        /\ class.id = 43 /\ class.id # 8
    BY <1>1, Ids DEF Requests, Responses
  <1>3. made.id = Rsp(class.id)
    BY <1>1, Ids DEF Rsp
  <1>4. /\ pdu.id = 43 /\ pdu.fc = 43 /\ ClassOf(pdu) = class
        /\ pdu.fields \in Seq(Int) /\ pdu.tail \in Seq(Int)
    BY <1>2, HeardIs
  <1>5. /\ made.widths = <<1>> /\ made.item = 1 /\ Len(made.widths) = 1
        /\ made.limits = {Bound(1, 14, 14)} /\ made.rule = "none"
    BY <1>1, Places, Limits, Rules
  <1>6. class.widths = <<1>> /\ class.item = 1 /\ Len(class.widths) = 1
    BY <1>1, Places
  <1>7. HeadSize(made) = 2 /\ HeadSize(class) = 2
    BY <1>5, <1>6, Heads DEF HeadSize
  <1>8. PICK fields, tail : fields = pdu.fields /\ tail = pdu.tail
    OBVIOUS
  <1>9. rsp = Pdu(made, fields, tail)
    BY <1>1, <1>4, <1>8 DEF Dispatch, CreateFc43Rsp
  <1>10. /\ fields \in Seq(Int) /\ tail \in Seq(Int) /\ Len(fields) = 1
         /\ \A k \in 1 .. 1 : Fits(fields[k], made.widths[k])
         /\ \A k \in 1 .. Len(tail) : Fits(tail[k], made.item)
         /\ Len(PduBytes(frame)) = 2 + Len(tail)
    <2>1. /\ Len(pdu.fields) = 1 /\ Fits(pdu.fields[1], 1)
          /\ \A k \in 1 .. Len(pdu.tail) : Fits(pdu.tail[k], 1)
          /\ Len(PduBytes(frame)) = 2 + Len(pdu.tail)
      BY <1>2, <1>4, <1>6, <1>7 DEF Heard
    <2> QED
      BY <1>4, <1>5, <1>8, <2>1
  <1>11. /\ rsp.id = made.id /\ rsp.fields = fields /\ rsp.tail = tail /\ Answers(made, rsp)
    <2>1. /\ made \in Requests \cup Responses /\ Len(fields) = Len(made.widths)
          /\ (made.item = 0 => tail = <<>>) /\ made \in Responses
      BY <1>2, <1>5, <1>10
    <2> QED
      BY ONLY <1>9, <1>10, <2>1, PduIs
  <1>12. made \in Known /\ ClassOf(rsp) = made
    BY <1>11, AnswerIs, KnownIs
  <1>13. Packs(rsp) /\ PduLen(rsp) = Len(PduBytes(frame))
    <2>1. ~ SizedByCount(made)
      BY <1>1, Ids DEF SizedByCount
    <2>2. \A k \in 1 .. 1 : Fits(rsp.fields[k], made.widths[k])
      BY <1>10, <1>11
    <2>3. \A k \in 1 .. Len(rsp.tail) : Fits(rsp.tail[k], made.item)
      BY <1>10, <1>11
    <2>4. Packs(rsp) /\ PduLen(rsp) = HeadSize(made) + made.item * Len(rsp.tail)
      BY <1>2, <1>5, <1>11, <2>1, <2>2, <2>3, AnswerPacks
    <2> QED
      BY <1>5, <1>7, <1>10, <1>11, <2>4
  <1>14. ASSUME Conforming(pdu) PROVE Conforming(rsp)
    <2>1. Bound(1, 14, 14) \in ClassOf(pdu).limits
      BY <1>1, <1>4, Limits
    <2>2. pdu.fields[1] \in Int /\ 14 <= pdu.fields[1] /\ pdu.fields[1] <= 14
      BY <1>14, <2>1, Bounded
    <2>3. rsp.fields[1] = pdu.fields[1]
      BY <1>8, <1>11
    <2>4. PICK low : low = 14
      OBVIOUS
    <2>5. /\ ClassOf(rsp).limits = {Bound(1, low, low)} /\ ClassOf(rsp).rule = "none"
          /\ low \in Int /\ rsp.fields[1] \in Int /\ low <= rsp.fields[1] /\ rsp.fields[1] <= low
      BY <1>5, <1>12, <2>2, <2>3, <2>4
    <2> QED
      BY ONLY <2>5, WithinBound
  <1>15. Sendable(frame, pdu, rsp)
    BY <1>4, <1>13 DEF Sendable
  <1> QED
    BY <1>2, <1>3, <1>4, <1>11, <1>13, <1>14, <1>15, ResponseSuits

LEMMA DispatchSuits ==
    ASSUME NEW class, NEW frame, NEW header, NEW pdu, Heard(class, frame, header, pdu),
           NEW rsp, rsp = Dispatch(pdu)
    PROVE  /\ Suits(frame, pdu, rsp)
           /\ pdu.id \in {0, 8} => rsp = Exception(pdu.fc, SlaveDeviceFailure)
  <1>1. pdu.fc \in Nat
    BY DEF Heard, Pdus
  <1>2. pdu.id \in {0, 8} => rsp = CreateErrRsp(pdu.fc)
    BY DEF Dispatch
  <1>3. pdu.id \in {0, 8} => rsp = Exception(pdu.fc, SlaveDeviceFailure)
    BY <1>2 DEF CreateErrRsp
  <1>4. pdu.id \in {0, 8} => Suits(frame, pdu, rsp)
    BY <1>1, <1>2, ExceptionSuits
  <1>5. class = ModbusPdu \/ class = ModbusRequestFC8 => pdu.id \in {0, 8}
    BY Ids DEF Heard
  <1>6. CASE class = ModbusRequestFC1
    BY <1>3, <1>6, Suits1
  <1>7. CASE class = ModbusRequestFC2
    BY <1>3, <1>7, Suits2
  <1>8. CASE class = ModbusRequestFC3
    BY <1>3, <1>8, Suits3
  <1>9. CASE class = ModbusRequestFC4
    BY <1>3, <1>9, Suits4
  <1>10. CASE class = ModbusRequestFC5
    BY <1>3, <1>10, Suits5
  <1>11. CASE class = ModbusRequestFC6
    BY <1>3, <1>11, Suits6
  <1>12. CASE class = ModbusRequestFC7
    BY <1>3, <1>12, Suits7
  <1>13. CASE class = ModbusRequestFC15
    BY <1>3, <1>13, Suits15
  <1>14. CASE class = ModbusRequestFC16
    BY <1>3, <1>14, Suits16
  <1>15. CASE class = ModbusRequestFC22
    BY <1>3, <1>15, Suits22
  <1>16. CASE class = ModbusRequestFC23
    BY <1>3, <1>16, Suits23
  <1>17. CASE class = ModbusRequestFC43
    BY <1>3, <1>17, Suits43
  <1> QED
    BY <1>3, <1>4, <1>5, <1>6, <1>7, <1>8, <1>9, <1>10, <1>11,
       <1>12, <1>13, <1>14, <1>15, <1>16, <1>17
    DEF Heard, Requests

-----------------------------------------------------------------------------
(* The answer, and what becomes of it.                                     *)

LEMMA FramedPacks ==
    ASSUME NEW header \in Headers, HeaderPacks(header),
           NEW pdu, Packs(pdu), PduLen(pdu) \in Nat, PduLen(pdu) <= 65534,
           NEW packet, packet = Framed(header, pdu)
    PROVE  TcpPacks(packet)
  <1>1. PICK n : n = PduLen(pdu) + 1
    OBVIOUS
  <1>2. Fits(n, 2)
    BY <1>1, FitsIs
  <1>3. packet = [header |-> [header EXCEPT !.length = n], pdu |-> pdu]
    BY <1>1 DEF Framed
  <1>4. /\ packet.header.trans_id = header.trans_id /\ packet.header.prot_id = header.prot_id
        /\ packet.header.length = n /\ packet.header.unit_id = header.unit_id
        /\ packet.pdu = pdu
    BY <1>3 DEF Headers
  <1> QED
    BY <1>2, <1>4 DEF TcpPacks, HeaderPacks

LEMMA ExceptionPacks ==
    ASSUME NEW fc \in Nat, fc < 128, NEW code \in Nat, code <= 255,
           NEW pdu, pdu = Exception(fc, code)
    PROVE  Packs(pdu) /\ PduLen(pdu) = 2
  <1>1. /\ Answers(ModbusError, pdu) /\ pdu.fc = fc /\ pdu.fields = <<code>> /\ pdu.tail = <<>>
        /\ pdu.id = 32768
    BY ExceptionIs
  <1>2. PICK class : class = ModbusError
    OBVIOUS
  <1>3. class.id = 32768 /\ class.widths = <<1>> /\ class.item = 0 /\ class \in Known
    BY <1>2, Ids, Places DEF Known
  <1>4. ClassOf(pdu) = class /\ (SizedByCount(class) => class.item = 1)
    BY <1>1, <1>3, KnownIs
  <1>5. WireCode(pdu) = fc + 128
    BY <1>1, <1>2, AnswerIs
  <1>6. Packs(pdu)
    <2>1. Fits(WireCode(pdu), 1) /\ Fits(code, 1)
      BY <1>5, FitsIs
    <2>2. \A k \in DOMAIN class.widths : Fits(pdu.fields[k], class.widths[k])
      BY <1>1, <1>3, <2>1
    <2>3. \A k \in DOMAIN pdu.tail : Fits(pdu.tail[k], class.item)
      BY <1>1
    <2> QED
      BY <1>3, <1>4, <2>1, <2>2, <2>3 DEF Packs
  <1>7. PduLen(pdu) = HeadSize(class) + class.item * Len(pdu.tail)
    <2>1. class \in Known /\ pdu.id = class.id /\ Shaped(pdu)
      BY <1>1, <1>3 DEF Answers
    <2> QED
      BY <1>6, <2>1, PduBack
  <1>8. HeadSize(class) = 2
    <2>1. Len(class.widths) = 1
      BY <1>3
    <2> QED
      BY <1>3, <2>1, Heads DEF HeadSize
  <1> QED
    BY <1>1, <1>3, <1>6, <1>7, <1>8

\* A reply to a request that was read; one to a request that could not be.
Told(frame, packet, sent) ==
    \E class, header, pdu, rsp :
        /\ Heard(class, frame, header, pdu)
        /\ packet = [header |-> header, pdu |-> pdu]
        /\ ModbusTcpRequest(frame) = Returns(packet)
        /\ sent = Framed(header, rsp)
        /\ Suits(frame, pdu, rsp)
        /\ pdu.id \in {0, 8} => rsp = Exception(pdu.fc, SlaveDeviceFailure)

Warned(frame, sent) ==
    /\ Unparsable(frame)
    /\ ModbusTcpRequest(frame).raises # "nothing"
    /\ sent = Framed(DeserializeHeader(frame), Exception(PduBytes(frame)[1], IllegalDataValue))

\* What the two have in common.
Echoes(class, frame, rsp, sent) ==
    /\ Answers(class, rsp) /\ rsp.fc = PduBytes(frame)[1]
    /\ sent = Framed(DeserializeHeader(frame), rsp)
    /\ DeserializeHeader(frame) \in Headers /\ HeaderPacks(DeserializeHeader(frame))

LEMMA WarnedEchoes ==
    ASSUME NEW frame \in Seq(Octet), NEW sent, Warned(frame, sent)
    PROVE  /\ \E class, rsp : Echoes(class, frame, rsp, sent)
           /\ TcpPacks(sent) /\ sent.pdu = Exception(PduBytes(frame)[1], IllegalDataValue)
  <1>1. PICK header, fc, code, rsp :
           /\ header = DeserializeHeader(frame) /\ fc = PduBytes(frame)[1]
           /\ code = IllegalDataValue /\ rsp = Exception(fc, code)
    OBVIOUS
  <1>2. sent = Framed(header, rsp) /\ fc \in Nat /\ fc <= 43 /\ HeaderHolds(frame)
    BY <1>1 DEF Warned, Unparsable
  <1>3. header \in Headers /\ HeaderPacks(header)
    BY <1>1, <1>2, HeaderBack
  <1>4. code \in Nat /\ code \in Int /\ code <= 255 /\ fc < 128
    BY <1>1, <1>2 DEF IllegalDataValue
  <1>5. Answers(ModbusError, rsp) /\ rsp.fc = fc
    BY <1>1, <1>2, <1>4, ExceptionIs
  <1>6. Packs(rsp) /\ PduLen(rsp) = 2
    BY <1>1, <1>2, <1>4, ExceptionPacks
  <1>7. TcpPacks(sent)
    BY <1>2, <1>3, <1>6, FramedPacks
  <1>8. Echoes(ModbusError, frame, rsp, sent)
    BY <1>1, <1>2, <1>3, <1>5 DEF Echoes
  <1>9. sent.pdu = rsp
    BY <1>2 DEF Framed
  <1> QED
    BY <1>1, <1>7, <1>8, <1>9

LEMMA ToldEchoes ==
    ASSUME NEW frame, NEW packet, NEW sent, Told(frame, packet, sent)
    PROVE  /\ \E class, rsp : Echoes(class, frame, rsp, sent)
           /\ packet \in [header : Headers, pdu : Pdus]
           /\ ModbusTcpRequest(frame) = Returns(packet)
           /\ packet.pdu.id \in {0, 8} => sent.pdu = Exception(packet.pdu.fc, SlaveDeviceFailure)
  <1>1. PICK class, header, pdu, rsp :
           /\ Heard(class, frame, header, pdu)
           /\ packet = [header |-> header, pdu |-> pdu]
           /\ ModbusTcpRequest(frame) = Returns(packet)
           /\ sent = Framed(header, rsp)
           /\ Suits(frame, pdu, rsp)
           /\ pdu.id \in {0, 8} => rsp = Exception(pdu.fc, SlaveDeviceFailure)
    BY DEF Told
  <1>2. PICK made : Answers(made, rsp) /\ rsp.fc = pdu.fc
    BY <1>1 DEF Suits
  <1>3. /\ header = DeserializeHeader(frame) /\ header \in Headers /\ HeaderPacks(header)
        /\ pdu.fc = PduBytes(frame)[1] /\ pdu \in Pdus
    BY <1>1 DEF Heard
  <1>4. Echoes(made, frame, rsp, sent)
    BY <1>1, <1>2, <1>3 DEF Echoes
  <1>5. packet.pdu = pdu /\ sent.pdu = rsp
    BY <1>1 DEF Framed
  <1> QED
    BY <1>1, <1>3, <1>4, <1>5

\* A reply that goes out is read, and says what it answers.
LEMMA EchoIsRead ==
    ASSUME NEW class, NEW frame, NEW rsp, NEW sent, Echoes(class, frame, rsp, sent),
           TcpPacks(sent), NEW bytes, bytes = SerializeTcp(sent)
    PROVE  /\ bytes \in Seq(Octet) /\ bytes # <<>>
           /\ ModbusTcpResponse(bytes) = Returns(sent)
           /\ sent.pdu = rsp /\ Len(bytes) = 7 + PduLen(rsp)
           /\ PduLen(rsp) \in Nat /\ 1 <= PduLen(rsp)
           /\ DeserializeHeader(bytes)
                = [DeserializeHeader(frame) EXCEPT !.length = PduLen(rsp) + 1]
           /\ sent.header = DeserializeHeader(bytes)
           /\ PduBytes(bytes)[1] % 128 = PduBytes(frame)[1] % 128
  <1>1. PICK header : header = DeserializeHeader(frame)
    OBVIOUS
  <1>2. /\ Answers(class, rsp) /\ rsp.fc = PduBytes(frame)[1] /\ header \in Headers
        /\ sent = Framed(header, rsp)
    BY <1>1 DEF Echoes
  <1>3. class \in Known /\ rsp.fc \in Nat /\ rsp.id = class.id /\ Shaped(rsp)
    BY <1>2, AnswerIs DEF Answers
  <1>4. Frames(class, rsp, header, sent, bytes)
    BY <1>2, <1>3 DEF Frames
  <1>5. Carried(class, rsp, header, sent, bytes)
    BY <1>4, PacketIs
  <1>6. ModbusTcpResponse(bytes) = Returns(sent)
    BY <1>2, <1>4, AnswerBack
  <1>7. WireCode(rsp) % 128 = rsp.fc % 128
    <2>1. PICK c, f : c = WireCode(rsp) /\ f = rsp.fc
      OBVIOUS
    <2>2. c = f \/ c = f + 128
      BY <1>2, <2>1, AnswerIs DEF Answers
    <2>3. c \in Int /\ c <= 255
      <3>1. Fits(c, 1)
        BY <1>2, <2>1 DEF TcpPacks, Packs, Framed
      <3> QED
        BY <3>1, FitsIs
    <2>4. f \in Nat
      BY <1>3, <2>1
    <2>5. CASE c = f
      BY <2>1, <2>5
    <2>6. CASE c = f + 128
      <3>1. f < 128
        BY <2>3, <2>4, <2>6
      <3>2. (f + 128) % 128 = f /\ f % 128 = f
        BY ONLY <2>4, <3>1
      <3> QED
        BY <2>1, <2>6, <3>2
    <2> QED
      BY <2>2, <2>5, <2>6
  <1>8. bytes # <<>>
    <2>1. Len(bytes) = 7 + PduLen(rsp) /\ PduLen(rsp) \in Nat
      BY <1>5 DEF Carried
    <2> QED
      BY <2>1
  <1> QED
    BY <1>1, <1>2, <1>5, <1>6, <1>7, <1>8 DEF Carried

\* An answer to a conforming request packs and conforms.
LEMMA ToldConforms ==
    ASSUME NEW frame, NEW packet, NEW sent, Told(frame, packet, sent),
           Conforming(packet.pdu), sent.pdu.id # ModbusError.id
    PROVE  /\ TcpPacks(sent) /\ Conforming(sent.pdu) /\ sent.pdu.id = Rsp(packet.pdu.id)
           /\ packet.header = DeserializeHeader(frame)
           /\ \/ PduLen(sent.pdu) <= 253
              \/ packet.pdu.id = 43 /\ 7 + PduLen(sent.pdu) = Len(frame)
  <1>1. PICK class, header, pdu, rsp :
           /\ Heard(class, frame, header, pdu)
           /\ packet = [header |-> header, pdu |-> pdu]
           /\ sent = Framed(header, rsp)
           /\ Suits(frame, pdu, rsp)
    BY DEF Told
  <1>2. PICK made :
           /\ Answers(made, rsp)
           /\ made # ModbusError =>
                 /\ pdu.id \notin {0, 8} /\ rsp.id = Rsp(pdu.id)
                 /\ Conforming(pdu) =>
                       /\ Packs(rsp) /\ Conforming(rsp)
                       /\ \/ PduLen(rsp) <= 253
                          \/ pdu.id = 43 /\ PduLen(rsp) = Len(PduBytes(frame))
    BY <1>1 DEF Suits
  <1>3. packet.pdu = pdu /\ packet.header = header /\ sent.pdu = rsp
    BY <1>1 DEF Framed
  <1>4. rsp.id = made.id /\ Shaped(rsp)
    BY <1>2 DEF Answers
  <1>5. made # ModbusError
    BY <1>3, <1>4
  <1>6. /\ Packs(rsp) /\ Conforming(rsp) /\ rsp.id = Rsp(pdu.id)
        /\ \/ PduLen(rsp) <= 253
           \/ pdu.id = 43 /\ PduLen(rsp) = Len(PduBytes(frame))
    BY <1>2, <1>3, <1>5
  <1>7. /\ header = DeserializeHeader(frame) /\ header \in Headers /\ HeaderPacks(header)
        /\ header.length = Len(PduBytes(frame)) + 1 /\ Len(frame) = 7 + Len(PduBytes(frame))
        /\ frame \in Seq(Octet) /\ HeaderHolds(frame)
    BY <1>1 DEF Heard
  <1>8. made \in Known
    BY <1>2, AnswerIs
  <1>9. PduLen(rsp) \in Nat
    BY <1>4, <1>6, <1>8, PduBack
  <1>10. PduLen(rsp) <= 65534
    <2>1. header.length <= 65535
      BY <1>7, FitsIs DEF HeaderPacks
    <2>2. Len(PduBytes(frame)) \in Nat
      BY <1>7, HeaderBack
    <2> QED
      BY <1>6, <1>7, <1>9, <2>1, <2>2
  <1>11. TcpPacks(sent)
    BY <1>1, <1>6, <1>7, <1>9, <1>10, FramedPacks
  <1> QED
    BY <1>3, <1>6, <1>7, <1>11

\* A reply that does not pack.
LEMMA ToldDrops ==
    ASSUME NEW frame, NEW packet, NEW sent, Told(frame, packet, sent), ~ TcpPacks(sent)
    PROVE  ReadTooWide(packet.pdu) \/ packet.pdu.fc >= 128
  <1>1. PICK class, header, pdu, rsp :
           /\ Heard(class, frame, header, pdu)
           /\ packet = [header |-> header, pdu |-> pdu]
           /\ sent = Framed(header, rsp)
           /\ Suits(frame, pdu, rsp)
    BY DEF Told
  <1>2. PICK made :
           /\ Answers(made, rsp)
           /\ made = ModbusError => rsp = Exception(pdu.fc, SlaveDeviceFailure)
           /\ made # ModbusError => ReadTooWide(pdu) \/ Sendable(frame, pdu, rsp)
    BY <1>1 DEF Suits
  <1>3. packet.pdu = pdu /\ sent.pdu = rsp
    BY <1>1 DEF Framed
  <1>4. header \in Headers /\ HeaderPacks(header) /\ pdu.fc \in Nat
    BY <1>1 DEF Heard, Pdus
  <1>5. CASE made = ModbusError
    <2>1. PICK code, fc : code = SlaveDeviceFailure /\ fc = pdu.fc
      OBVIOUS
    <2>2. code \in Nat /\ code <= 255 /\ rsp = Exception(fc, code) /\ fc \in Nat
      BY <1>2, <1>4, <1>5, <2>1 DEF SlaveDeviceFailure
    <2>3. fc < 128 => Packs(rsp) /\ PduLen(rsp) = 2
      BY <2>2, ExceptionPacks
    <2>4. fc < 128 => TcpPacks(sent)
      BY <1>1, <1>4, <2>3, FramedPacks
    <2> QED
      BY <1>3, <1>4, <2>1, <2>4
  <1>6. CASE made # ModbusError
    <2> SUFFICES ASSUME ~ ReadTooWide(pdu) PROVE FALSE
      BY <1>3
    <2>1. /\ Packs(rsp)
          /\ \/ PduLen(rsp) <= 257
             \/ pdu.id = 43 /\ PduLen(rsp) = Len(PduBytes(frame))
      BY <1>2, <1>6 DEF Sendable
    <2>2. PduLen(rsp) \in Nat
      BY <1>2, <2>1, AnswerIs, PduBack DEF Answers
    <2>3. PduLen(rsp) <= 65534
      <3>1. header.length = Len(PduBytes(frame)) + 1 /\ frame \in Seq(Octet) /\ HeaderHolds(frame)
        BY <1>1 DEF Heard
      <3>2. header.length <= 65535
        BY <1>4, FitsIs DEF HeaderPacks
      <3>3. Len(PduBytes(frame)) \in Nat
        BY <3>1, HeaderBack
      <3> QED
        BY <2>1, <2>2, <3>1, <3>2, <3>3
    <2> QED
      BY <1>1, <1>4, <2>1, <2>2, <2>3, FramedPacks
  <1> QED
    BY <1>5, <1>6

-----------------------------------------------------------------------------
(* The invariant: at every phase, what the bytes and packets of the later  *)
(* ones have to do with the bytes the server received.                     *)

Phases == {"idle", "refused", "sent", "answered", "dropped", "done"}

\* Before the server has read anything.
Unanswered ==
    phase \in {"idle", "refused", "sent"} =>
        heard = NoPacket /\ reply = NoPacket /\ back = <<>>

\* What the client packed, the server reads.
RequestCarried ==
    /\ phase = "idle" => request = NoPacket
    /\ request # NoPacket => ModbusTcpRequest(wire) = Returns(request)

\* A reply went out.
Replied ==
    phase \in {"answered", "done"} =>
        /\ TcpPacks(reply) /\ back = SerializeTcp(reply)
        /\ \/ Told(wire, heard, reply)
           \/ Warned(wire, reply) /\ heard = NoPacket

\* The data handler raised on a request that was read.
Failed(frame, packet) ==
    /\ packet \in [header : Headers, pdu : Pdus]
    /\ ModbusTcpRequest(frame) = Returns(packet)

\* None did.
Dropped ==
    phase = "dropped" =>
        /\ back = <<>>
        /\ \/ /\ Nameless(wire) /\ ModbusTcpRequest(wire).raises # "nothing"
              /\ heard = NoPacket /\ raised = "ModbusPacketError"
           \/ /\ Told(wire, heard, reply) /\ ~ TcpPacks(reply)
              /\ raised = "ModbusSlaveDeviceFailureError"
           \/ Failed(wire, heard) /\ reply = NoPacket /\ raised = HandlersOwn

ExchangeInv ==
    /\ phase \in Phases /\ wire \in Seq(Octet)
    /\ Unanswered /\ RequestCarried /\ Replied /\ Dropped
    /\ phase = "done" => answer = reply

LEMMA InitInv == Init => ExchangeInv
  <1> SUFFICES ASSUME Init PROVE ExchangeInv
    OBVIOUS
  <1>1. wire \in Seq(Octet)
    BY DEF Init
  <1> QED
    BY <1>1 DEF Init, ExchangeInv, Phases, Unanswered, RequestCarried, Replied, Dropped

LEMMA SendRequestKeeps ==
    ASSUME ExchangeInv, NEW call \in Calls, SendRequest(call)
    PROVE  ExchangeInv'
  <1>1. /\ TcpPacks(Framed(CallHeader, Create(call)))
        /\ \E class \in Requests : Asks(class, Create(call))
    BY CreateAsks DEF SendRequest
  <1>2. PICK class \in Requests : Asks(class, Create(call))
    BY <1>1
  <1>3. PICK pdu, header, packet, frame :
           /\ pdu = Create(call) /\ header = CallHeader
           /\ packet = Framed(header, pdu) /\ frame = SerializeTcp(packet)
    OBVIOUS
  <1>4. Frames(class, pdu, header, packet, frame) /\ pdu.fc = class.id
    BY <1>1, <1>2, <1>3, ExchangeAssumption, RegistryIs DEF Frames, Asks, Known
  <1>5. ModbusTcpRequest(frame) = Returns(packet)
    BY <1>4, RequestBack
  <1>6. frame \in Seq(Octet)
    BY <1>4, PacketIs DEF Carried
  <1>7. /\ phase = "idle" /\ phase' = "sent" /\ request' = packet /\ wire' = frame
        /\ UNCHANGED <<heard, reply, back, answer, raised>>
    BY <1>3 DEF SendRequest
  <1>8. heard = NoPacket /\ reply = NoPacket /\ back = <<>>
    BY <1>7 DEF ExchangeInv, Unanswered
  <1> QED
    BY <1>5, <1>6, <1>7, <1>8
    DEF ExchangeInv, Phases, Unanswered, RequestCarried, Replied, Dropped

LEMMA SendRaisesKeeps ==
    ASSUME ExchangeInv, NEW call \in Calls, SendRaises(call)
    PROVE  ExchangeInv'
  BY DEF SendRaises, ExchangeInv, Phases, Unanswered, RequestCarried, Replied, Dropped

LEMMA SendRawKeeps ==
    ASSUME ExchangeInv, NEW frame \in RawFrames, SendRaw(frame)
    PROVE  ExchangeInv'
  <1>1. frame \in Seq(Octet)
    BY ExchangeAssumption
  <1> QED
    BY <1>1 DEF SendRaw, ExchangeInv, Phases, Unanswered, RequestCarried, Replied, Dropped

LEMMA OnDataKeeps ==
    ASSUME ExchangeInv, NEW works \in BOOLEAN, OnData(works)
    PROVE  ExchangeInv'
  <1>1. /\ phase = "sent" /\ wire' = wire /\ request' = request
        /\ heard' = ModbusTcpRequest(wire).packet
        /\ ModbusTcpRequest(wire).raises = "nothing"
        /\ Reply(heard'.header,
                 IF works THEN Dispatch(heard'.pdu) ELSE CreateErrRsp(heard'.pdu.fc), TRUE)
    BY DEF OnData
  <1>2. PICK class, header, pdu :
           /\ Heard(class, wire, header, pdu)
           /\ ModbusTcpRequest(wire) = Returns([header |-> header, pdu |-> pdu])
    <2>1. wire \in Seq(Octet)
      BY DEF ExchangeInv
    <2>2. Raises("ModbusPacketError").raises # "nothing"
      BY DEF Raises
    <2> QED
      BY <1>1, <2>1, <2>2, RequestIsRead
  <1>3. PICK packet : packet = [header |-> header, pdu |-> pdu]
    OBVIOUS
  <1>4. heard' = packet /\ heard'.header = header /\ heard'.pdu = pdu
        /\ ModbusTcpRequest(wire) = Returns(packet)
    BY <1>1, <1>2, <1>3 DEF Returns
  <1>5. PICK rsp : rsp = IF works THEN Dispatch(pdu) ELSE CreateErrRsp(pdu.fc)
    OBVIOUS
  <1>6. /\ Suits(wire, pdu, rsp)
        /\ pdu.id \in {0, 8} => rsp = Exception(pdu.fc, SlaveDeviceFailure)
    <2>1. pdu.fc \in Nat
      BY <1>2 DEF Heard, Pdus
    <2>2. CASE works
      BY <1>2, <1>5, <2>2, DispatchSuits
    <2>3. CASE ~ works
      BY <1>5, <2>1, <2>3, ExceptionSuits DEF CreateErrRsp
    <2> QED
      BY <2>2, <2>3
  <1>7. Reply(header, rsp, TRUE)
    BY <1>1, <1>4, <1>5
  <1>8. PICK sent : sent = Framed(header, rsp)
    OBVIOUS
  <1>9. Told(wire, packet, sent)
    BY <1>2, <1>3, <1>4, <1>6, <1>8 DEF Told
  <1>10. /\ reply' = sent
         /\ \/ TcpPacks(sent) /\ phase' = "answered" /\ back' = SerializeTcp(sent)
            \/ /\ ~ TcpPacks(sent) /\ phase' = "dropped" /\ back' = back
               /\ raised' = "ModbusSlaveDeviceFailureError"
    BY <1>7, <1>8 DEF Reply
  <1>11. back = <<>>
    BY <1>1 DEF ExchangeInv, Unanswered
  <1> QED
    BY <1>1, <1>4, <1>9, <1>10, <1>11
    DEF ExchangeInv, Phases, Unanswered, RequestCarried, Replied, Dropped

LEMMA HandlerRaisesKeeps ==
    ASSUME ExchangeInv, HandlerRaises
    PROVE  ExchangeInv'
  <1>1. /\ phase = "sent" /\ phase' = "dropped" /\ wire' = wire /\ request' = request
        /\ heard' = ModbusTcpRequest(wire).packet
        /\ ModbusTcpRequest(wire).raises = "nothing"
        /\ raised' = HandlersOwn /\ reply' = reply /\ back' = back
    BY DEF HandlerRaises
  <1>2. PICK class, header, pdu :
           /\ Heard(class, wire, header, pdu)
           /\ ModbusTcpRequest(wire) = Returns([header |-> header, pdu |-> pdu])
    <2>1. wire \in Seq(Octet)
      BY DEF ExchangeInv
    <2>2. Raises("ModbusPacketError").raises # "nothing"
      BY DEF Raises
    <2> QED
      BY <1>1, <2>1, <2>2, RequestIsRead
  <1>3. PICK packet : packet = [header |-> header, pdu |-> pdu]
    OBVIOUS
  <1>4. heard' = packet /\ ModbusTcpRequest(wire) = Returns(packet)
    BY <1>1, <1>2, <1>3 DEF Returns
  <1>5. packet \in [header : Headers, pdu : Pdus]
    BY <1>2, <1>3 DEF Heard
  <1>6. Failed(wire, packet)
    BY <1>4, <1>5 DEF Failed
  <1>7. reply = NoPacket /\ back = <<>>
    BY <1>1 DEF ExchangeInv, Unanswered
  <1> QED
    BY <1>1, <1>4, <1>6, <1>7
    DEF ExchangeInv, Phases, Unanswered, RequestCarried, Replied, Dropped

LEMMA OnUnparsableKeeps ==
    ASSUME ExchangeInv, OnUnparsable
    PROVE  ExchangeInv'
  <1>1. /\ phase = "sent" /\ wire' = wire /\ request' = request /\ heard' = heard
        /\ IsA(ModbusTcpRequest(wire).raises, "ModbusPduParseError")
        /\ Reply(ModbusTcpRequest(wire).header,
                 Exception(ModbusTcpRequest(wire).fc, IllegalDataValue), FALSE)
    BY DEF OnUnparsable
  <1>2. /\ ~ IsA("ModbusPacketError", "ModbusPduParseError")
        /\ ~ IsA("nothing", "ModbusPduParseError")
    BY DEF IsA, Base
  <1>3. wire \in Seq(Octet)
    BY DEF ExchangeInv
  <1>4. /\ Unparsable(wire)
        /\ ModbusTcpRequest(wire) =
              [raises |-> "ModbusPduParseError", header |-> DeserializeHeader(wire),
               fc |-> PduBytes(wire)[1]]
    <2>1. Raises("ModbusPacketError").raises = "ModbusPacketError"
      BY DEF Raises
    <2>2. \A packet : Returns(packet).raises = "nothing"
      BY DEF Returns
    <2> QED
      BY <1>1, <1>2, <1>3, <2>1, <2>2, RequestIsRead
  <1>5. PICK sent : sent = Framed(DeserializeHeader(wire),
                                  Exception(PduBytes(wire)[1], IllegalDataValue))
    OBVIOUS
  <1>6. Warned(wire, sent)
    BY <1>4, <1>5 DEF Warned
  <1>7. TcpPacks(sent)
    BY <1>3, <1>6, WarnedEchoes
  <1>8. Reply(DeserializeHeader(wire), Exception(PduBytes(wire)[1], IllegalDataValue), FALSE)
    <2>1. /\ ModbusTcpRequest(wire).header = DeserializeHeader(wire)
          /\ ModbusTcpRequest(wire).fc = PduBytes(wire)[1]
      BY <1>4
    <2> QED
      BY <1>1, <2>1
  <1>9. reply' = sent /\ phase' = "answered" /\ back' = SerializeTcp(sent)
    BY <1>5, <1>7, <1>8 DEF Reply
  <1>10. heard = NoPacket
    BY <1>1 DEF ExchangeInv, Unanswered
  <1> QED
    BY <1>1, <1>6, <1>7, <1>9, <1>10
    DEF ExchangeInv, Phases, Unanswered, RequestCarried, Replied, Dropped

LEMMA OnUnreadableKeeps ==
    ASSUME ExchangeInv, OnUnreadable
    PROVE  ExchangeInv'
  <1>1. /\ phase = "sent" /\ phase' = "dropped"
        /\ ModbusTcpRequest(wire).raises # "nothing"
        /\ ~ IsA(ModbusTcpRequest(wire).raises, "ModbusPduParseError")
        /\ raised' = ModbusTcpRequest(wire).raises
        /\ UNCHANGED <<request, wire, heard, reply, back, answer>>
    BY DEF OnUnreadable
  <1>2. IsA("ModbusPduParseError", "ModbusPduParseError")
    BY DEF IsA
  <1>3. Nameless(wire) /\ ModbusTcpRequest(wire) = Raises("ModbusPacketError")
    <2>1. wire \in Seq(Octet)
      BY DEF ExchangeInv
    <2>2. \A packet : Returns(packet).raises = "nothing"
      BY DEF Returns
    <2>3. PICK read : read = ModbusTcpRequest(wire)
      OBVIOUS
    <2>4. \/ Nameless(wire) /\ read = Raises("ModbusPacketError")
          \/ read.raises = "ModbusPduParseError"
          \/ read.raises = "nothing"
      <3>1. \/ Nameless(wire) /\ read = Raises("ModbusPacketError")
            \/ read = [raises |-> "ModbusPduParseError", header |-> DeserializeHeader(wire),
                       fc |-> PduBytes(wire)[1]]
            \/ \E packet : read = Returns(packet)
        BY <2>1, <2>3, RequestIsRead
      <3> QED
        BY <2>2, <3>1
    <2> QED
      BY <1>1, <1>2, <2>3, <2>4
  <1>4. ModbusTcpRequest(wire).raises = "ModbusPacketError"
    BY <1>3 DEF Raises
  <1>5. heard = NoPacket /\ back = <<>>
    BY <1>1 DEF ExchangeInv, Unanswered
  <1> QED
    BY <1>1, <1>3, <1>4, <1>5
    DEF ExchangeInv, Phases, Unanswered, RequestCarried, Replied, Dropped

LEMMA RepliedEchoes ==
    ASSUME ExchangeInv, phase \in {"answered", "done"}
    PROVE  /\ TcpPacks(reply) /\ back = SerializeTcp(reply)
           /\ \E class, rsp : Echoes(class, wire, rsp, reply)
  <1>1. wire \in Seq(Octet)
    BY DEF ExchangeInv
  <1>2. /\ TcpPacks(reply) /\ back = SerializeTcp(reply)
        /\ Told(wire, heard, reply) \/ Warned(wire, reply)
    BY DEF ExchangeInv, Replied
  <1> QED
    BY <1>1, <1>2, ToldEchoes, WarnedEchoes

LEMMA WaitResponseKeeps ==
    ASSUME ExchangeInv, WaitResponse
    PROVE  ExchangeInv'
  <1>1. phase = "answered"
    BY DEF WaitResponse
  <1>2. PICK class, rsp : Echoes(class, wire, rsp, reply)
    BY <1>1, RepliedEchoes
  <1>3. ModbusTcpResponse(back) = Returns(reply)
    <2>1. TcpPacks(reply) /\ back = SerializeTcp(reply)
      BY <1>1, RepliedEchoes
    <2> QED
      BY <1>2, <2>1, EchoIsRead
  <1>4. /\ answer' = reply /\ phase' = "done"
        /\ UNCHANGED <<request, wire, heard, reply, back, raised>>
    BY <1>3 DEF WaitResponse, Returns
  <1> QED
    BY <1>1, <1>4 DEF ExchangeInv, Phases, Unanswered, RequestCarried, Replied, Dropped

LEMMA NextInv == ExchangeInv /\ [Next]_vars => ExchangeInv'
  <1> SUFFICES ASSUME ExchangeInv, [Next]_vars PROVE ExchangeInv'
    OBVIOUS
  <1>1. ASSUME NEW call \in Calls, SendRequest(call) PROVE ExchangeInv'
    BY <1>1, SendRequestKeeps
  <1>2. ASSUME NEW call \in Calls, SendRaises(call) PROVE ExchangeInv'
    BY <1>2, SendRaisesKeeps
  <1>3. ASSUME NEW frame \in RawFrames, SendRaw(frame) PROVE ExchangeInv'
    BY <1>3, SendRawKeeps
  <1>4. ASSUME NEW works \in BOOLEAN, OnData(works) PROVE ExchangeInv'
    BY <1>4, OnDataKeeps
  <1>5. CASE OnUnparsable
    BY <1>5, OnUnparsableKeeps
  <1>6. CASE OnUnreadable
    BY <1>6, OnUnreadableKeeps
  <1>7. CASE WaitResponse
    BY <1>7, WaitResponseKeeps
  <1>9. CASE HandlerRaises
    BY <1>9, HandlerRaisesKeeps
  <1>8. CASE UNCHANGED vars
    BY <1>8 DEF vars, ExchangeInv, Phases, Unanswered, RequestCarried, Replied, Dropped
  <1> QED
    BY <1>1, <1>2, <1>3, <1>4, <1>5, <1>6, <1>7, <1>8, <1>9 DEF Next

LEMMA Invariance == Spec => []ExchangeInv
  <1>1. Init => ExchangeInv
    BY InitInv
  <1>2. ExchangeInv /\ [Next]_vars => ExchangeInv'
    BY NextInv
  <1> QED
    BY <1>1, <1>2, PTL DEF Spec

-----------------------------------------------------------------------------
(* The properties.                                                         *)

\* What the phase says of the packet the server read.
LEMMA WhatWasHeard ==
    ASSUME ExchangeInv
    PROVE  /\ heard # NoPacket =>
                 /\ phase \in {"answered", "dropped", "done"}
                 /\ Told(wire, heard, reply) \/ raised = HandlersOwn
           /\ phase \in {"answered", "dropped", "done"} =>
                 \/ Told(wire, heard, reply)
                 \/ Failed(wire, heard)
                 \/ heard = NoPacket /\ ModbusTcpRequest(wire).raises # "nothing"
           /\ back # <<>> => phase \in {"answered", "done"}
  BY DEF ExchangeInv, Phases, Unanswered, Replied, Dropped, Warned

\* What one side packs the other unpacks, for every call, every frame and every
\* answer: serialize() and deserialize() of all 28 classes are inverse through
\* the header, its length field and the parser's dispatch.
THEOREM NothingIsLost == Spec => []NothingIsLostOnTheWire
  <1>1. ExchangeInv => NothingIsLostOnTheWire
    <2> SUFFICES ASSUME ExchangeInv PROVE NothingIsLostOnTheWire
      OBVIOUS
    <2>1. (request # NoPacket /\ phase \in {"answered", "dropped", "done", "unread"})
             => heard = request
      <3> SUFFICES ASSUME request # NoPacket, phase \in {"answered", "dropped", "done", "unread"}
                   PROVE  heard = request
        OBVIOUS
      <3>1. ModbusTcpRequest(wire) = Returns(request) /\ phase \in Phases
        BY DEF ExchangeInv, RequestCarried
      <3>2. Returns(request).raises = "nothing" /\ Returns(request).packet = request
        BY DEF Returns
      <3>3. Told(wire, heard, reply) \/ Failed(wire, heard)
        BY <3>1, <3>2, WhatWasHeard DEF Phases
      <3>4. ModbusTcpRequest(wire) = Returns(heard)
        BY <3>3, ToldEchoes DEF Failed
      <3> QED
        BY <3>1, <3>4 DEF Returns
    <2>2. phase # "unread" /\ (phase = "done" => answer = reply)
      BY DEF ExchangeInv, Phases
    <2>3. wire \in Seq(Octet) /\ back \in Seq(Octet)
      <3>1. CASE back = <<>>
        BY <3>1 DEF ExchangeInv
      <3>2. CASE back # <<>>
        <4>1. phase \in {"answered", "done"}
          BY <3>2, WhatWasHeard
        <4>2. back \in Seq(Octet)
          BY <4>1, RepliedEchoes, EchoIsRead
        <4> QED
          BY <4>2 DEF ExchangeInv
      <3> QED
        BY <3>1, <3>2
    <2>4. \A bytes \in {wire, back} :
             (HeaderHolds(bytes) /\ PduBytes(bytes) # <<>>) =>
                 SerializeTcp(ModbusTcpPacket(bytes).packet) = bytes
      BY <2>3, ForwardsAsItCame
    <2> QED
      BY <2>1, <2>2, <2>4 DEF NothingIsLostOnTheWire
  <1> QED
    BY <1>1, Invariance, PTL

\* A conforming request the server does not fail has a conforming answer of its
\* own function code, in a frame an ADU may have or of the request's length.
THEOREM ConformingAnswered == Spec => []ConformingIsAnswered
  <1>1. ExchangeInv => ConformingIsAnswered
    <2> SUFFICES ASSUME ExchangeInv, heard # NoPacket, raised # HandlersOwn,
                        Conforming(heard.pdu), reply.pdu.id # ModbusError.id
                 PROVE  /\ reply.pdu.id = Rsp(heard.pdu.id)
                        /\ Conforming(reply.pdu)
                        /\ HeaderConforms(heard.header) => HeaderConforms(reply.header)
                        /\ Len(back) > HeaderSize
                        /\ \/ Len(back) <= 260
                           \/ heard.pdu.id = ModbusRequestFC43.id /\ Len(back) = Len(wire)
      BY DEF ConformingIsAnswered
    <2>1. Told(wire, heard, reply) /\ phase \in {"answered", "dropped", "done"}
      BY WhatWasHeard
    <2>2. /\ TcpPacks(reply) /\ Conforming(reply.pdu) /\ reply.pdu.id = Rsp(heard.pdu.id)
          /\ heard.header = DeserializeHeader(wire)
          /\ \/ PduLen(reply.pdu) <= 253
             \/ heard.pdu.id = 43 /\ 7 + PduLen(reply.pdu) = Len(wire)
      BY <2>1, ToldConforms
    <2>3. phase # "dropped"
      <3>1. phase = "dropped" =>
               heard = NoPacket \/ ~ TcpPacks(reply) \/ raised = HandlersOwn
        BY DEF ExchangeInv, Dropped
      <3> QED
        BY <2>2, <3>1
    <2>4. phase \in {"answered", "done"}
      BY <2>1, <2>3
    <2>5. PICK class, rsp : Echoes(class, wire, rsp, reply)
      BY <2>4, RepliedEchoes
    <2>6. /\ reply.pdu = rsp /\ Len(back) = 7 + PduLen(rsp)
          /\ PduLen(rsp) \in Nat /\ 1 <= PduLen(rsp)
          /\ DeserializeHeader(back) = [DeserializeHeader(wire) EXCEPT !.length = PduLen(rsp) + 1]
          /\ reply.header = DeserializeHeader(back)
      <3>1. TcpPacks(reply) /\ back = SerializeTcp(reply)
        BY <2>4, RepliedEchoes
      <3> QED
        BY <2>5, <3>1, EchoIsRead
    <2>7. HeaderConforms(heard.header) => HeaderConforms(reply.header)
      <3>1. DeserializeHeader(wire) \in Headers
        BY <2>5 DEF Echoes
      <3> QED
        BY <2>2, <2>6, <3>1 DEF HeaderConforms, Headers
    <2>8. Len(back) > HeaderSize
      BY <2>6 DEF HeaderSize
    <2>9. \/ Len(back) <= 260
          \/ heard.pdu.id = ModbusRequestFC43.id /\ Len(back) = Len(wire)
      BY <2>2, <2>6, Ids
    <2> QED
      BY <2>2, <2>7, <2>8, <2>9
  <1> QED
    BY <1>1, Invariance, PTL

\* An answer carries the identifiers and the function code of what it answers.
THEOREM AnswersAsked == Spec => []AnswersTheRequest
  <1>1. ExchangeInv => AnswersTheRequest
    <2> SUFFICES ASSUME ExchangeInv, back # <<>>
                 PROVE  /\ [DeserializeHeader(back) EXCEPT !.length = 0]
                              = [DeserializeHeader(wire) EXCEPT !.length = 0]
                        /\ PduBytes(back)[1] % 128 = PduBytes(wire)[1] % 128
      BY DEF AnswersTheRequest
    <2>1. phase \in {"answered", "done"}
      BY WhatWasHeard
    <2>2. PICK class, rsp : Echoes(class, wire, rsp, reply)
      BY <2>1, RepliedEchoes
    <2>3. /\ DeserializeHeader(back) = [DeserializeHeader(wire) EXCEPT !.length = PduLen(rsp) + 1]
          /\ PduBytes(back)[1] % 128 = PduBytes(wire)[1] % 128
      <3>1. TcpPacks(reply) /\ back = SerializeTcp(reply)
        BY <2>1, RepliedEchoes
      <3> QED
        BY <2>2, <3>1, EchoIsRead
    <2>4. DeserializeHeader(wire) \in Headers
      BY <2>2 DEF Echoes
    <2>5. [DeserializeHeader(back) EXCEPT !.length = 0]
             = [DeserializeHeader(wire) EXCEPT !.length = 0]
      BY <2>3, <2>4 DEF Headers
    <2> QED
      BY <2>3, <2>5
  <1> QED
    BY <1>1, Invariance, PTL

\* A peer is told which of the two was wrong, its PDU or the server.
THEOREM FaultsReported == Spec => []FaultsAreReported
  <1>1. ExchangeInv => FaultsAreReported
    <2> SUFFICES ASSUME ExchangeInv, phase = "done"
                 PROVE  /\ heard = NoPacket =>
                              answer.pdu = Exception(PduBytes(wire)[1], IllegalDataValue)
                        /\ heard # NoPacket /\ heard.pdu.id \in {ModbusPdu.id, ModbusRequestFC8.id} =>
                              answer.pdu = Exception(heard.pdu.fc, SlaveDeviceFailure)
      BY DEF FaultsAreReported
    <2>1. /\ answer = reply /\ wire \in Seq(Octet)
          /\ Told(wire, heard, reply) \/ (Warned(wire, reply) /\ heard = NoPacket)
      BY DEF ExchangeInv, Replied
    <2>2. Told(wire, heard, reply) => heard # NoPacket
      BY ToldEchoes, ExchangeAssumption
    <2>3. heard = NoPacket => reply.pdu = Exception(PduBytes(wire)[1], IllegalDataValue)
      BY <2>1, <2>2, WarnedEchoes
    <2>4. (heard # NoPacket /\ heard.pdu.id \in {0, 8})
             => reply.pdu = Exception(heard.pdu.fc, SlaveDeviceFailure)
      BY <2>1, ToldEchoes
    <2> QED
      BY <2>1, <2>3, <2>4, Ids
  <1> QED
    BY <1>1, Invariance, PTL

\* A connection is dropped only for a frame that names nothing to echo, for a
\* data handler that raised, or for an answer that does not pack, which only a
\* read of more than a count byte can tell and a function code with the error
\* mask have; whatever the quantities, the frames and the handler's results.
THEOREM DropCaused == Spec => []DropHasCause
  <1>1. ExchangeInv => DropHasCause
    <2> SUFFICES ASSUME ExchangeInv, phase = "dropped"
                 PROVE  \/ /\ raised = "ModbusPacketError"
                           /\ ~ HeaderHolds(wire) \/ PduBytes(wire) = <<>>
                        \/ raised = HandlersOwn /\ heard # NoPacket /\ reply = NoPacket
                        \/ /\ raised = "ModbusSlaveDeviceFailureError" /\ heard # NoPacket
                           /\ ReadTooWide(heard.pdu) \/ heard.pdu.fc >= 128
      BY DEF DropHasCause
    <2>1. \/ Nameless(wire) /\ raised = "ModbusPacketError"
          \/ /\ Told(wire, heard, reply) /\ ~ TcpPacks(reply)
             /\ raised = "ModbusSlaveDeviceFailureError"
          \/ Failed(wire, heard) /\ reply = NoPacket /\ raised = HandlersOwn
      BY DEF ExchangeInv, Dropped
    <2>2. Told(wire, heard, reply) \/ Failed(wire, heard) => heard # NoPacket
      BY ToldEchoes, ExchangeAssumption DEF Failed
    <2>3. Told(wire, heard, reply) /\ ~ TcpPacks(reply)
             => ReadTooWide(heard.pdu) \/ heard.pdu.fc >= 128
      BY ToldDrops
    <2> QED
      BY <2>1, <2>2, <2>3 DEF Nameless
  <1> QED
    BY <1>1, Invariance, PTL

=============================================================================
