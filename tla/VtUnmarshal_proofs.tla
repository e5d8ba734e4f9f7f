-------------------------- MODULE VtUnmarshal_proofs --------------------------
(***************************************************************************)
(* What SizeVT counts is what MarshalVT writes, byte for byte and for      *)
(* every message; a varint is read as it was written; no decoder reads     *)
(* behind the slice it was given or leaves a message its type does not     *)
(* allow; whoever reuses the buffer is not seen where bytes are the        *)
(* message's own; and wherever the bytes are a list of fields, the         *)
(* decoders hold what the fields read so far say.                          *)
(***************************************************************************)
EXTENDS VtUnmarshal, Foundations, SequenceTheorems, TLAPS

------------------------------------------------------------------------------
(* SizeVT and MarshalVT *)

\* Weight is the function its recursive equation describes.
LEMMA WeightDef ==
  /\ Weight \in [Nat -> Nat \ {0}]
  /\ Weight[0] = 1
  /\ \A n \in Nat : Weight[n + 1] = 128 * Weight[n]
<1> DEFINE S == Nat \ {0}
           h == [n \in Nat |-> [x \in S |-> 128 * x]]
<1>1. 1 \in S /\ h \in [Nat -> [S -> S]]
  <2>1. \A x \in S : 128 * x \in S
    OBVIOUS
  <2> QED BY <2>1
<1>2. \E f \in [Nat -> S] : Iterates(f, 1, h)
  <2> HIDE DEF S, h
  <2> QED BY <1>1, RecursionOnNat, Zenon
<1>3. PICK f \in [Nat -> S] : Iterates(f, 1, h)
  BY <1>2
<1>4. f[0] = 1 /\ \A n \in Nat : f[n + 1] = 128 * f[n]
  <2>1. \A n \in Nat : f[n + 1] = h[n][f[n]]
    BY <1>3 DEF Iterates
  <2> QED BY <1>3, <2>1 DEF Iterates
<1>5. f = [k \in Nat |-> IF k = 0 THEN 1 ELSE 128 * f[k - 1]]
  <2>1. ASSUME NEW k \in Nat PROVE f[k] = IF k = 0 THEN 1 ELSE 128 * f[k - 1]
    <3>1. k = 0 \/ (k - 1 \in Nat /\ (k - 1) + 1 = k)
      OBVIOUS
    <3> QED BY <1>4, <3>1
  <2>2. f = [k \in Nat |-> f[k]]
    BY <1>3
  <2> QED BY <2>1, <2>2
<1>6. Weight = [k \in Nat |-> IF k = 0 THEN 1 ELSE 128 * Weight[k - 1]]
  <2>1. \E g : g = [k \in Nat |-> IF k = 0 THEN 1 ELSE 128 * g[k - 1]]
    BY <1>5
  <2> QED BY <2>1 DEF Weight
<1> DEFINE T == {k \in Nat : Weight[k] \in S}
<1>7. Weight[0] = 1 /\ \A n \in Nat : Weight[n + 1] = 128 * Weight[n]
  <2>1. \A n \in Nat : n + 1 \in Nat /\ n + 1 # 0 /\ (n + 1) - 1 = n
    OBVIOUS
  <2> QED BY <1>6, <2>1
<1>8. \A k \in Nat : k \in T
  <2>1. 0 \in T
    BY <1>7
  <2>2. ASSUME NEW n \in Nat, n \in T PROVE n + 1 \in T
    BY <1>7, <2>2
  <2> HIDE DEF T
  <2> QED BY <2>1, <2>2, NaturalInduction
<1>9. Weight = [k \in Nat |-> Weight[k]]
  BY <1>6
<1>10. \A k \in Nat : Weight[k] \in S
  BY <1>8
<1> QED BY <1>7, <1>9, <1>10

\* So is VarintBytes: what is behind seven bits is smaller.
LEMMA VarintBytesDef ==
  /\ VarintBytes \in [Nat -> Seq(Byte)]
  /\ \A n \in Nat :
       VarintBytes[n] = IF n < 128 THEN <<n>>
                        ELSE <<(n % 128) + 128>> \o VarintBytes[n \div 128]
<1> DEFINE S == Seq(Byte)
           a == [n \in Nat |-> IF n < 128 THEN <<n>> ELSE <<>>]
           d == [n \in Nat |-> n \div 128]
           h == [n \in Nat |-> [x \in S |-> <<(n % 128) + 128>> \o x]]
           E(f) == \A n \in Nat : f[n] = IF n < 128 THEN <<n>>
                                         ELSE <<(n % 128) + 128>> \o f[n \div 128]
<1>1. a \in [Nat -> S]
  <2>1. ASSUME NEW n \in Nat, n < 128 PROVE <<n>> \in S
    BY <2>1 DEF Byte
  <2> QED BY <2>1
<1>2. d \in [Nat -> Nat] /\ \A n \in Nat : n >= 128 => d[n] < n
  OBVIOUS
<1>3. h \in [Nat -> [S -> S]]
  <2>1. ASSUME NEW n \in Nat, NEW x \in S PROVE <<(n % 128) + 128>> \o x \in S
    <3>1. (n % 128) + 128 \in Byte
      BY DEF Byte
    <3>2. <<(n % 128) + 128>> \in S
      BY <3>1
    <3> QED BY <3>2, ConcatProperties, Zenon
  <2> QED BY <2>1
<1>4. \E f \in [Nat -> S] : Descends(f, 128, a, d, h)
  <2>1. 128 \in Nat \ {0}
    OBVIOUS
  <2> HIDE DEF S, a, d, h
  <2> QED BY <1>1, <1>2, <1>3, <2>1, DescentOnNat, Zenon
<1>5. PICK f \in [Nat -> S] : Descends(f, 128, a, d, h)
  BY <1>4
<1>6. E(f)
  <2>1. ASSUME NEW n \in Nat
        PROVE  f[n] = IF n < 128 THEN <<n>> ELSE <<(n % 128) + 128>> \o f[n \div 128]
    <3>1. f[n] = IF n < 128 THEN a[n] ELSE h[n][f[d[n]]]
      BY <1>5 DEF Descends
    <3>2. d[n] = n \div 128 /\ n \div 128 \in Nat
      OBVIOUS
    <3>3. f[n \div 128] \in S
      BY <3>2
    <3>4. h[n][f[d[n]]] = <<(n % 128) + 128>> \o f[n \div 128]
      BY <3>2, <3>3
    <3>5. n < 128 => a[n] = <<n>>
      OBVIOUS
    <3> HIDE DEF a, h, d, S
    <3> QED BY <3>1, <3>4, <3>5
  <2> QED BY <2>1
<1> DEFINE D(g) == g = [n \in Nat |-> IF n < 128 THEN <<n>>
                                      ELSE <<(n % 128) + 128>> \o g[n \div 128]]
<1>7. D(f)
  <2>1. f = [n \in Nat |-> f[n]]
    BY <1>5
  <2> QED BY <1>6, <2>1
<1>8. D(VarintBytes)
  <2>1. \E g : D(g)
    <3> HIDE DEF D
    <3> QED BY <1>7
  <2> QED BY <2>1, ZenonT(40) DEF VarintBytes
<1>9. E(VarintBytes)
  BY <1>8
<1> DEFINE T == {m \in Nat : \A n \in Nat : n < m => VarintBytes[n] \in S}
<1>10. ASSUME NEW m \in Nat, m \in T PROVE m + 1 \in T
  <2>1. ASSUME NEW n \in Nat, n < m + 1 PROVE VarintBytes[n] \in S
    <3>1. CASE n < 128
      <4>1. VarintBytes[n] = <<n>>
        BY <1>9, <3>1
      <4>2. n \in Byte
        BY <3>1 DEF Byte
      <4> QED BY <4>1, <4>2
    <3>2. CASE ~(n < 128)
      <4>1. n \div 128 \in Nat /\ n \div 128 < m /\ (n % 128) + 128 \in Byte
        BY <2>1, <3>2 DEF Byte
      <4>2. VarintBytes[n \div 128] \in S /\ <<(n % 128) + 128>> \in S
        BY <1>10, <4>1
      <4>3. VarintBytes[n] = <<(n % 128) + 128>> \o VarintBytes[n \div 128]
        BY <1>9, <3>2
      <4> QED BY <4>2, <4>3
    <3> QED BY <3>1, <3>2
  <2> QED BY <2>1
<1>11. \A m \in Nat : m \in T
  <2>1. 0 \in T
    OBVIOUS
  <2> HIDE DEF T
  <2> QED BY <1>10, <2>1, NaturalInduction
<1>12. ASSUME NEW n \in Nat PROVE VarintBytes[n] \in S
  <2>1. n + 1 \in T /\ n < n + 1
    <3> HIDE DEF T
    <3> QED BY <1>11
  <2> QED BY <2>1
<1>13. VarintBytes = [n \in Nat |-> VarintBytes[n]]
  BY <1>8
<1> QED BY <1>9, <1>12, <1>13

\* The first byte and the others.
LEMMA VarintBytesStep ==
  ASSUME NEW n \in Nat
  PROVE  /\ VarintBytes[n] \in Seq(Byte)
         /\ n < 128 => VarintBytes[n] = <<n>>
         /\ n >= 128 =>
              VarintBytes[n] = <<(n % 128) + 128>> \o VarintBytes[n \div 128]
<1>1. VarintBytes[n] \in Seq(Byte)
  BY VarintBytesDef
<1>2. VarintBytes[n] = IF n < 128 THEN <<n>>
                       ELSE <<(n % 128) + 128>> \o VarintBytes[n \div 128]
  BY VarintBytesDef, Zenon
<1>3. n >= 128 <=> ~(n < 128)
  OBVIOUS
<1> QED BY <1>1, <1>2, <1>3, Zenon

\* A number of k groups of seven bits takes k bytes (EncodeVarint).
LEMMA VarintLength ==
  ASSUME NEW k \in Nat \ {0}, NEW n \in Nat, n < Weight[k],
         k > 1 => n >= Weight[k - 1]
  PROVE  Len(VarintBytes[n]) = k
<1> DEFINE T == {j \in Nat : \A i \in Nat :
                   i < Weight[j + 1] /\ (j > 0 => i >= Weight[j])
                     => Len(VarintBytes[i]) = j + 1}
<1>0. Weight[1] = 128
  <2>1. Weight[0 + 1] = 128 * Weight[0]
    BY WeightDef
  <2> QED BY <2>1, WeightDef
<1>1. 0 \in T
  <2>1. ASSUME NEW i \in Nat, i < Weight[0 + 1] PROVE Len(VarintBytes[i]) = 0 + 1
    <3>0. i < 128
      BY <1>0, <2>1
    <3>1. VarintBytes[i] = <<i>>
      BY <3>0, VarintBytesStep, Zenon
    <3> QED BY <3>1
  <2> QED BY <2>1
<1>2. ASSUME NEW j \in Nat, j \in T PROVE j + 1 \in T
  <2>1. ASSUME NEW i \in Nat, i < Weight[(j + 1) + 1], i >= Weight[j + 1]
        PROVE  Len(VarintBytes[i]) = (j + 1) + 1
    <3>1. /\ Weight[(j + 1) + 1] = 128 * Weight[j + 1]
          /\ Weight[j + 1] = 128 * Weight[j]
          /\ Weight[j] \in Nat \ {0} /\ Weight[j + 1] \in Nat
      BY WeightDef
    <3>2. i >= 128
      BY <2>1, <3>1
    <3>3. /\ i \div 128 \in Nat /\ i \div 128 < Weight[j + 1]
          /\ i \div 128 >= Weight[j]
      BY <2>1, <3>1
    <3>4. Len(VarintBytes[i \div 128]) = j + 1
      BY <1>2, <3>3
    <3>5. VarintBytes[i] = <<(i % 128) + 128>> \o VarintBytes[i \div 128]
      BY <3>2, VarintBytesStep
    <3>6. VarintBytes[i \div 128] \in Seq(Byte)
      BY <3>3, VarintBytesStep, Zenon
    <3>7. Len(VarintBytes[i]) = 1 + Len(VarintBytes[i \div 128])
      <4>1. (i % 128) + 128 \in Byte
        BY DEF Byte
      <4> QED BY <3>5, <3>6, <4>1
    <3> QED BY <3>4, <3>7
  <2> QED BY <2>1
<1>3. \A j \in Nat : j \in T
  <2> HIDE DEF T
  <2> QED BY <1>1, <1>2, NaturalInduction
<1>4. k - 1 \in Nat /\ (k - 1) + 1 = k
  OBVIOUS
<1>5. k - 1 \in T
  <2> HIDE DEF T
  <2> QED BY <1>3, <1>4
<1> QED BY <1>4, <1>5

\* What a number takes as a varint.
Sized(bytes, size) == bytes \in Seq(Byte) /\ Len(bytes) = size

\* EncodeVarint writes the bytes that SizeOfVarint counts.
LEMMA SizeOfVarintIsExact ==
  ASSUME NEW v \in Int
  PROVE  /\ Sized(EncodeVarint(v), SizeOfVarint(v)) /\ SizeOfVarint(v) \in Nat
         /\ SizeOfVarint(v) \in 1..MaxGroups
<1> DEFINE n == v % Word64
           Fit(k) == n < Weight[k] /\ (k > 1 => n >= Weight[k - 1])
           T == {k \in Nat \ {0} : n < Weight[k]}
<1>1. n \in Nat /\ n < Word64
  BY WordsAssumption
<1>2. n < Weight[MaxGroups]
  <2>1. Weight[MaxGroups] \in Nat
    BY WordsAssumption, WeightDef
  <2> HIDE DEF n
  <2> QED BY <1>1, <2>1, WordsAssumption
<1> HIDE DEF n
<1>3. PICK k \in T : \A j \in T : k <= j
  <2>1. T \in SUBSET Nat /\ T # {}
    BY <1>2, WordsAssumption
  <2> HIDE DEF T
  <2> QED BY <2>1, LeastNatural
<1>4. k \in 1..MaxGroups /\ Fit(k)
  <2>1. MaxGroups \in T
    BY <1>2, WordsAssumption
  <2>2. k <= MaxGroups /\ k \in Nat \ {0} /\ n < Weight[k]
    BY <1>3, <2>1
  <2>3. ASSUME k > 1 PROVE n >= Weight[k - 1]
    <3>1. k - 1 \in Nat \ {0} /\ ~(k <= k - 1)
      BY <2>2, <2>3
    <3>2. k - 1 \notin T
      BY <1>3, <3>1
    <3>3. Weight[k - 1] \in Nat
      BY <3>1, WeightDef
    <3> QED BY <1>1, <3>1, <3>2, <3>3
  <2> QED BY <2>2, <2>3, WordsAssumption
<1> DEFINE s == SizeOfVarint(v)
<1>5. s \in 1..MaxGroups /\ Fit(s)
  BY <1>4 DEF SizeOfVarint, n
<1> HIDE DEF s
<1>6. Len(VarintBytes[n]) = s
  BY <1>1, <1>5, VarintLength, WordsAssumption
<1>7. VarintBytes[n] \in Seq(Byte)
  BY <1>1, VarintBytesStep
<1> QED BY <1>5, <1>6, <1>7, WordsAssumption DEF s, n, Sized, EncodeVarint

LEMMA NothingIsSized == Sized(<<>>, 0)
BY DEF Sized

\* What is written one behind the other takes the sum.
LEMMA SizedConcat ==
  ASSUME NEW s, NEW t, NEW m, NEW n, Sized(s, m), Sized(t, n)
  PROVE  Sized(s \o t, m + n)
BY DEF Sized

LEMMA SizesAreNumbers ==
  ASSUME NEW s, NEW n, Sized(s, n)
  PROVE  n \in Nat
BY DEF Sized

\* A tag takes one byte up to field 15 and two up to field 35.
TagSize(num) == IF num < 16 THEN 1 ELSE 2

LEMMA TagIsSized ==
  ASSUME NEW num \in 1..35, NEW wire \in 0..5
  PROVE  Sized(Tag(num, wire), TagSize(num))
<1> DEFINE n == 8 * num + wire
<1>1. n \in Nat /\ n < 512 /\ (n < 128 <=> num < 16)
  OBVIOUS
<1>2. 512 < Word64 /\ Word64 \in Nat
  BY WordsAssumption
<1> HIDE DEF n
<1>3. n % Word64 = n
  BY <1>1, <1>2
<1>4. Tag(num, wire) = VarintBytes[n]
  BY <1>3 DEF Tag, EncodeVarint, n
<1>5. Weight[1] = 128 /\ Weight[2] = 128 * 128
  <2>1. Weight[0 + 1] = 128 * Weight[0] /\ Weight[1 + 1] = 128 * Weight[1]
    BY WeightDef
  <2> QED BY <2>1, WeightDef
<1>8. VarintBytes[n] \in Seq(Byte)
  BY <1>1, VarintBytesStep, Zenon
<1>6. CASE num < 16
  <2>0. 1 \in Nat \ {0} /\ n < Weight[1] /\ (1 > 1 => n >= Weight[1 - 1])
    BY <1>1, <1>5, <1>6
  <2>1. Len(VarintBytes[n]) = 1
    BY <1>1, <2>0, VarintLength, ZenonT(40)
  <2> QED BY <1>4, <1>6, <1>8, <2>1 DEF Sized, TagSize
<1>7. CASE ~(num < 16)
  <2>0. 2 \in Nat \ {0} /\ n < Weight[2] /\ (2 > 1 => n >= Weight[2 - 1])
    BY <1>1, <1>5, <1>7
  <2>1. Len(VarintBytes[n]) = 2
    BY <1>1, <2>0, VarintLength, ZenonT(40)
  <2> QED BY <1>4, <1>7, <1>8, <2>1 DEF Sized, TagSize
<1> QED BY <1>6, <1>7

\* A length and what it stands in front of.
LEMMA PrefixedIsSized ==
  ASSUME NEW num \in 1..35, NEW bytes, NEW size, Sized(bytes, size)
  PROVE  Sized(Prefixed(num, bytes), Delimited(TagSize(num), size))
<1> DEFINE t == Tag(num, 2)
           e == EncodeVarint(Len(bytes))
           c == SizeOfVarint(size)
           g == TagSize(num)
<1>1. Sized(t, g)
  BY TagIsSized
<1>2. Len(bytes) = size /\ size \in Nat
  BY DEF Sized
<1>3. Sized(e, c)
  BY <1>2, SizeOfVarintIsExact
<1>4. g \in Nat
  BY DEF TagSize
<1> HIDE DEF t, e, c, g
<1>5. Sized((t \o e) \o bytes, (g + c) + size)
  BY <1>1, <1>3, SizedConcat
<1>6. (g + c) + size = (g + size) + c
  BY <1>2, <1>3, <1>4, SizesAreNumbers
<1> QED BY <1>5, <1>6 DEF Prefixed, Delimited, t, e, c, g

\* The totals of a loop over a list: what FlattenSeq joins and ListSize counts.
Joins(r, s, n) ==
  /\ r[0] = <<>>
  /\ \A k \in 1..n : r[k] = r[k - 1] \o s[k]

LEMMA FlattenDef ==
  ASSUME NEW S, NEW n \in Nat, NEW s \in [1..n -> Seq(S)]
  PROVE  \E r \in [Nat -> Seq(S)] : Joins(r, s, n) /\ FlattenSeq(s) = r[n]
<1> DEFINE X == Seq(S)
           h == [k \in Nat |-> [x \in X |-> IF k + 1 \in 1..n THEN x \o s[k + 1] ELSE x]]
           D(g) == g = [i \in 1..n |-> IF i = 1 THEN s[i] ELSE g[i - 1] \o s[i]]
<1>1. h \in [Nat -> [X -> X]] /\ <<>> \in X
  <2>1. ASSUME NEW k \in Nat, NEW x \in X
        PROVE  (IF k + 1 \in 1..n THEN x \o s[k + 1] ELSE x) \in X
    <3>1. k + 1 \in 1..n => s[k + 1] \in Seq(S)
      OBVIOUS
    <3> QED BY <3>1
  <2> QED BY <2>1
<1>2. PICK r \in [Nat -> X] : Iterates(r, <<>>, h)
  <2> HIDE DEF X, h
  <2> QED BY <1>1, RecursionOnNat, Zenon
<1>3. r[0] = <<>>
  BY <1>2 DEF Iterates
<1>4. ASSUME NEW k \in 1..n PROVE r[k] = r[k - 1] \o s[k]
  <2>1. k - 1 \in Nat /\ (k - 1) + 1 = k
    OBVIOUS
  <2>2. r[(k - 1) + 1] = h[k - 1][r[k - 1]]
    BY <1>2, <2>1 DEF Iterates
  <2>3. r[k - 1] \in X
    BY <2>1
  <2>4. h[k - 1][r[k - 1]] = r[k - 1] \o s[k]
    BY <2>1, <2>3
  <2> HIDE DEF h
  <2> QED BY <2>1, <2>2, <2>4
<1> HIDE DEF h
<1>5. s \in Seq(Seq(S)) /\ Len(s) = n
  OBVIOUS
<1>6. CASE n = 0
  <2>1. s = <<>>
    BY <1>5, <1>6, EmptySeq
  <2>2. FlattenSeq(s) = s
    BY <1>5, <1>6 DEF FlattenSeq
  <2> QED BY <1>3, <1>4, <1>6, <2>1, <2>2 DEF Joins
<1>7. CASE n # 0
  <2>1. r[1] = s[1]
    <3>1. 1 \in 1..n /\ s[1] \in Seq(S)
      BY <1>7
    <3>2. r[1] = r[1 - 1] \o s[1]
      BY <1>4, <3>1
    <3>3. 1 - 1 = 0
      OBVIOUS
    <3>4. <<>> \o s[1] = s[1]
      BY <3>1
    <3> QED BY <1>3, <3>2, <3>3, <3>4
  <2> DEFINE g == [i \in 1..n |-> r[i]]
  <2>2. D(g)
    <3>1. ASSUME NEW i \in 1..n
          PROVE  g[i] = IF i = 1 THEN s[i] ELSE g[i - 1] \o s[i]
      <4>1. CASE i = 1
        BY <2>1, <4>1
      <4>2. CASE i # 1
        <5>1. i - 1 \in 1..n
          BY <4>2
        <5> QED BY <1>4, <4>2, <5>1
      <4> QED BY <4>1, <4>2
    <3> QED BY <3>1
  <2> DEFINE f == CHOOSE e : D(e)
  <2>3. D(f)
    <3> HIDE DEF D
    <3> QED BY <2>2
  <2>4. FlattenSeq(s) = f[n]
    BY <1>5, <1>7 DEF FlattenSeq
  <2> HIDE DEF f
  <2>5. f[1] = s[1] /\ \A i \in 1..n : i # 1 => f[i] = f[i - 1] \o s[i]
    <3>1. 1 \in 1..n
      BY <1>7
    <3> QED BY <2>3, <3>1
  <2> DEFINE T == {k \in 0..(n - 1) : f[k + 1] = r[k + 1]}
  <2>6. 0 \in T
    BY <1>7, <2>1, <2>5
  <2>7. ASSUME NEW k \in 0..((n - 1) - 1), k \in T PROVE k + 1 \in T
    <3>1. (k + 1) + 1 \in 1..n /\ (k + 1) + 1 # 1 /\ ((k + 1) + 1) - 1 = k + 1
          /\ k + 1 \in 0..(n - 1)
      OBVIOUS
    <3>2. f[(k + 1) + 1] = f[((k + 1) + 1) - 1] \o s[(k + 1) + 1]
      BY <2>5, <3>1
    <3>3. r[(k + 1) + 1] = r[((k + 1) + 1) - 1] \o s[(k + 1) + 1]
      BY <1>4, <3>1
    <3>4. f[k + 1] = r[k + 1]
      BY <2>7
    <3> QED BY <3>1, <3>2, <3>3, <3>4
  <2>8. n - 1 \in Nat /\ n - 1 \in 0..(n - 1) /\ (n - 1) + 1 = n
    BY <1>7
  <2>9. n - 1 \in T
    <3> HIDE DEF T
    <3> QED BY <2>6, <2>7, <2>8, BoundedInduction
  <2>10. f[n] = r[n]
    BY <2>8, <2>9
  <2> QED BY <1>3, <1>4, <2>4, <2>10 DEF Joins
<1> QED BY <1>6, <1>7

Adds(r, sizes, tag, n) ==
  /\ r[0] = 0
  /\ \A k \in 1..n : r[k] = r[k - 1] + Delimited(tag, sizes[k])

LEMMA ListSizeDef ==
  ASSUME NEW n \in Nat, NEW sizes \in [1..n -> Nat], NEW tag \in Nat
  PROVE  \E r \in [Nat -> Nat] : Adds(r, sizes, tag, n) /\ ListSize(sizes, tag) = r[n]
<1> DEFINE h == [k \in Nat |-> [x \in Nat |-> IF k + 1 \in 1..n
                                             THEN x + Delimited(tag, sizes[k + 1]) ELSE x]]
           D(g) == g = [i \in 0..n |-> IF i = 0 THEN 0
                                       ELSE g[i - 1] + Delimited(tag, sizes[i])]
<1>0. ASSUME NEW k \in 1..n PROVE Delimited(tag, sizes[k]) \in Nat
  <2>1. sizes[k] \in Nat
    OBVIOUS
  <2>2. SizeOfVarint(sizes[k]) \in Nat
    BY <2>1, SizeOfVarintIsExact
  <2> QED BY <2>1, <2>2 DEF Delimited
<1>1. h \in [Nat -> [Nat -> Nat]]
  <2>1. ASSUME NEW k \in Nat, NEW x \in Nat
        PROVE  (IF k + 1 \in 1..n THEN x + Delimited(tag, sizes[k + 1]) ELSE x) \in Nat
    BY <1>0
  <2> QED BY <2>1
<1>2. PICK r \in [Nat -> Nat] : Iterates(r, 0, h)
  <2>1. 0 \in Nat
    OBVIOUS
  <2> HIDE DEF h
  <2> QED BY <1>1, <2>1, RecursionOnNat, Zenon
<1>3. r[0] = 0
  BY <1>2 DEF Iterates
<1>4. ASSUME NEW k \in 1..n PROVE r[k] = r[k - 1] + Delimited(tag, sizes[k])
  <2>1. k - 1 \in Nat /\ (k - 1) + 1 = k
    OBVIOUS
  <2>2. r[(k - 1) + 1] = h[k - 1][r[k - 1]]
    BY <1>2, <2>1 DEF Iterates
  <2>3. r[k - 1] \in Nat
    BY <2>1
  <2>4. h[k - 1][r[k - 1]] = r[k - 1] + Delimited(tag, sizes[k])
    BY <2>1, <2>3
  <2> HIDE DEF h
  <2> QED BY <2>1, <2>2, <2>4
<1> HIDE DEF h
<1>5. Len(sizes) = n
  OBVIOUS
<1> DEFINE g == [i \in 0..n |-> r[i]]
<1>6. D(g)
  <2>1. ASSUME NEW i \in 0..n
        PROVE  g[i] = IF i = 0 THEN 0 ELSE g[i - 1] + Delimited(tag, sizes[i])
    <3>1. CASE i = 0
      BY <1>3, <3>1
    <3>2. CASE i # 0
      <4>1. i - 1 \in 0..n /\ i \in 1..n
        BY <3>2
      <4>2. g[i - 1] = r[i - 1] /\ g[i] = r[i]
        BY <4>1
      <4> QED BY <1>4, <3>2, <4>1, <4>2
    <3> QED BY <3>1, <3>2
  <2> QED BY <2>1
<1> HIDE DEF g
<1> DEFINE f == CHOOSE e : D(e)
<1>7. D(f)
  <2> HIDE DEF D
  <2> QED BY <1>6
<1>8. ListSize(sizes, tag) = f[n]
  BY <1>5 DEF ListSize
<1> HIDE DEF f
<1>9. f[0] = 0 /\ \A i \in 1..n : f[i] = f[i - 1] + Delimited(tag, sizes[i])
  <2>1. \A i \in 0..n : f[i] = IF i = 0 THEN 0 ELSE f[i - 1] + Delimited(tag, sizes[i])
    BY <1>7
  <2>2. 0 \in 0..n /\ \A i \in 1..n : i \in 0..n /\ i # 0
    OBVIOUS
  <2> QED BY <2>1, <2>2
<1> DEFINE T == {k \in 0..n : f[k] = r[k]}
<1>10. 0 \in T
  BY <1>3, <1>9
<1>11. ASSUME NEW k \in 0..(n - 1), k \in T PROVE k + 1 \in T
  <2>1. k + 1 \in 1..n /\ k + 1 \in 0..n /\ (k + 1) - 1 = k
    OBVIOUS
  <2>2. /\ f[k + 1] = f[(k + 1) - 1] + Delimited(tag, sizes[k + 1])
        /\ r[k + 1] = r[(k + 1) - 1] + Delimited(tag, sizes[k + 1])
    BY <1>4, <1>9, <2>1
  <2> QED BY <1>11, <2>1, <2>2
<1>12. n \in T
  <2>1. n \in 0..n
    OBVIOUS
  <2> HIDE DEF T
  <2>2. \A k \in 0..n : k \in T
    BY <1>10, <1>11, BoundedInduction
  <2> QED BY <2>1, <2>2
<1>13. f[n] = r[n]
  BY <1>12
<1> QED BY <1>3, <1>4, <1>8, <1>13 DEF Adds

\* A list of parts, each behind its tag and length.
LEMMA ListIsSized ==
  ASSUME NEW n \in Nat, NEW num \in 1..35, NEW parts, NEW sizes \in [1..n -> Nat],
         \A k \in 1..n : Sized(parts[k], sizes[k])
  PROVE  Sized(FlattenSeq([k \in 1..n |-> Prefixed(num, parts[k])]),
               ListSize(sizes, TagSize(num)))
<1> DEFINE s == [k \in 1..n |-> Prefixed(num, parts[k])]
           g == TagSize(num)
<1>1. ASSUME NEW k \in 1..n PROVE Sized(s[k], Delimited(g, sizes[k]))
  <2>1. Sized(Prefixed(num, parts[k]), Delimited(g, sizes[k]))
    BY PrefixedIsSized
  <2>2. s[k] = Prefixed(num, parts[k])
    OBVIOUS
  <2> HIDE DEF s, g
  <2> QED BY <2>1, <2>2
<1>2. s \in [1..n -> Seq(Byte)]
  <2>1. ASSUME NEW k \in 1..n PROVE Prefixed(num, parts[k]) \in Seq(Byte)
    <3> HIDE DEF g
    <3> QED BY <1>1 DEF Sized
  <2> QED BY <2>1
<1>3. g \in Nat
  BY DEF TagSize
<1> HIDE DEF s, g
<1>4. PICK r \in [Nat -> Seq(Byte)] : Joins(r, s, n) /\ FlattenSeq(s) = r[n]
  BY <1>2, FlattenDef, Zenon
<1>5. PICK t \in [Nat -> Nat] : Adds(t, sizes, g, n) /\ ListSize(sizes, g) = t[n]
  BY <1>3, ListSizeDef, Zenon
<1> DEFINE T == {k \in 0..n : Sized(r[k], t[k])}
<1>6. 0 \in T
  BY <1>4, <1>5, NothingIsSized DEF Joins, Adds
<1>7. ASSUME NEW k \in 0..(n - 1), k \in T PROVE k + 1 \in T
  <2>1. k + 1 \in 1..n /\ k + 1 \in 0..n /\ (k + 1) - 1 = k
    OBVIOUS
  <2>2. /\ r[k + 1] = r[k] \o s[k + 1]
        /\ t[k + 1] = t[k] + Delimited(g, sizes[k + 1])
    BY <1>4, <1>5, <2>1 DEF Joins, Adds
  <2>3. Sized(r[k], t[k])
    BY <1>7
  <2>4. Sized(s[k + 1], Delimited(g, sizes[k + 1]))
    BY <1>1, <2>1
  <2>5. Sized(r[k + 1], t[k + 1])
    BY <2>2, <2>3, <2>4, SizedConcat
  <2> QED BY <2>1, <2>5
<1>8. n \in T
  <2>1. n \in 0..n
    OBVIOUS
  <2> HIDE DEF T
  <2>2. \A k \in 0..n : k \in T
    BY <1>6, <1>7, BoundedInduction
  <2> QED BY <2>1, <2>2
<1>9. Sized(r[n], t[n])
  BY <1>8
<1> QED BY <1>4, <1>5, <1>9 DEF s, g

\* A text, a number and a flag, when they are there.
LEMMA TextIsSized ==
  ASSUME NEW m, NEW num \in 1..35, NEW f, f \in DOMAIN m => m[f] \in Seq(Byte)
  PROVE  Sized(Text(m, num, f), TextSize(m, TagSize(num), f))
<1>1. CASE f \in DOMAIN m
  <2>1. Sized(m[f], Len(m[f]))
    BY <1>1 DEF Sized
  <2>2. Sized(Prefixed(num, m[f]), Delimited(TagSize(num), Len(m[f])))
    BY <2>1, PrefixedIsSized
  <2> QED BY <1>1, <2>2 DEF Text, TextSize
<1>2. CASE f \notin DOMAIN m
  BY <1>2, NothingIsSized DEF Text, TextSize
<1> QED BY <1>1, <1>2

LEMMA NonEmptyIsSized ==
  ASSUME NEW m, NEW num \in 1..15, NEW f, m[f] \in Seq(Byte)
  PROVE  Sized(NonEmpty(m, num, f), NonEmptySize(m, f))
<1>1. CASE m[f] # <<>>
  <2>1. Sized(m[f], Len(m[f])) /\ num \in 1..35 /\ TagSize(num) = 1
    BY DEF Sized, TagSize
  <2>2. Sized(Prefixed(num, m[f]), Delimited(TagSize(num), Len(m[f])))
    BY <2>1, PrefixedIsSized
  <2> QED BY <1>1, <2>1, <2>2 DEF NonEmpty, NonEmptySize
<1>2. CASE m[f] = <<>>
  BY <1>2, NothingIsSized DEF NonEmpty, NonEmptySize
<1> QED BY <1>1, <1>2

LEMMA NumberIsSized ==
  ASSUME NEW m, NEW num \in 1..35, NEW f, f \in DOMAIN m => m[f] \in Int
  PROVE  Sized(Number(m, num, f), IntSize(m, TagSize(num), f))
<1>1. CASE f \in DOMAIN m
  <2>1. Sized(EncodeVarint(m[f]), SizeOfVarint(m[f]))
    BY <1>1, SizeOfVarintIsExact
  <2>2. Sized(Tag(num, 0), TagSize(num))
    BY TagIsSized
  <2>3. Sized(Tag(num, 0) \o EncodeVarint(m[f]), TagSize(num) + SizeOfVarint(m[f]))
    BY <2>1, <2>2, SizedConcat
  <2> QED BY <1>1, <2>3 DEF Number, IntSize
<1>2. CASE f \notin DOMAIN m
  BY <1>2, NothingIsSized DEF Number, IntSize
<1> QED BY <1>1, <1>2

LEMMA BoolIsSized ==
  ASSUME NEW m, NEW num \in 16..35, NEW f
  PROVE  Sized(Bool(m, num, f), BoolSize(m, f))
<1>1. CASE f \in DOMAIN m
  <2> DEFINE b == <<IF m[f] THEN 1 ELSE 0>>
  <2>1. Sized(b, 1)
    BY DEF Sized, Byte
  <2>2. Sized(Tag(num, 0), 2)
    <3>1. num \in 1..35 /\ TagSize(num) = 2
      BY DEF TagSize
    <3> QED BY <3>1, TagIsSized
  <2>3. Sized(Tag(num, 0) \o b, 2 + 1)
    <3> HIDE DEF b
    <3> QED BY <2>1, <2>2, SizedConcat
  <2> QED BY <1>1, <2>3 DEF Bool, BoolSize
<1>2. CASE f \notin DOMAIN m
  BY <1>2, NothingIsSized DEF Bool, BoolSize
<1> QED BY <1>1, <1>2

\* The fields that are always there.
LEMMA AlwaysThere ==
  /\ \A type \in Types : "unknown" \in DOMAIN Empty(type)
  /\ "trace_ids" \in DOMAIN Empty("AppTrace")
  /\ {"key", "val"} \subseteq DOMAIN Empty("KeyVal")
  /\ "attributes" \in DOMAIN Empty("AppInfo")
  /\ {"subject", "reply_to", "payload"} \subseteq DOMAIN Empty("NatsMessage")
  /\ "payload" \in DOMAIN Empty("ZmtpMessage")
BY DEF Types, Empty

Other(f) == f \notin Counts \cup Flags \cup Nested \cup {"trace_ids"}

\* A field of text, shorter and longer tags.
LEMMA TextField ==
  ASSUME NEW type, NEW m, IsFlat(type, m), NEW f, Other(f)
  PROVE  /\ f \in DOMAIN Empty(type) => m[f] \in Seq(Byte)
         /\ \A num \in 1..15 : Sized(Text(m, num, f), TextSize(m, 1, f))
         /\ \A num \in 16..35 : Sized(Text(m, num, f), TextSize(m, 2, f))
<1>1. f \in DOMAIN m => m[f] \in Seq(Byte)
  BY DEF IsFlat, Other
<1>2. f \in DOMAIN Empty(type) => f \in DOMAIN m
  BY DEF IsFlat
<1>3. ASSUME NEW num \in 1..15 PROVE num \in 1..35 /\ TagSize(num) = 1
  BY DEF TagSize
<1>4. ASSUME NEW num \in 16..35 PROVE num \in 1..35 /\ TagSize(num) = 2
  BY DEF TagSize
<1>5. ASSUME NEW num \in 1..35 PROVE Sized(Text(m, num, f), TextSize(m, TagSize(num), f))
  BY <1>1, TextIsSized
<1>6. ASSUME NEW num \in 1..15 PROVE Sized(Text(m, num, f), TextSize(m, 1, f))
  BY <1>3, <1>5, Zenon
<1>7. ASSUME NEW num \in 16..35 PROVE Sized(Text(m, num, f), TextSize(m, 2, f))
  BY <1>4, <1>5, Zenon
<1> QED BY <1>1, <1>2, <1>6, <1>7, Zenon

LEMMA NumberField ==
  ASSUME NEW type, NEW m, IsFlat(type, m), NEW f \in Counts
  PROVE  /\ \A num \in 1..15 : Sized(Number(m, num, f), IntSize(m, 1, f))
         /\ \A num \in 16..35 : Sized(Number(m, num, f), IntSize(m, 2, f))
<1>1. f \in DOMAIN m => m[f] \in Int
  BY DEF IsFlat
<1>3. ASSUME NEW num \in 1..15 PROVE num \in 1..35 /\ TagSize(num) = 1
  BY DEF TagSize
<1>4. ASSUME NEW num \in 16..35 PROVE num \in 1..35 /\ TagSize(num) = 2
  BY DEF TagSize
<1>5. ASSUME NEW num \in 1..35 PROVE Sized(Number(m, num, f), IntSize(m, TagSize(num), f))
  BY <1>1, NumberIsSized
<1>6. ASSUME NEW num \in 1..15 PROVE Sized(Number(m, num, f), IntSize(m, 1, f))
  BY <1>3, <1>5, Zenon
<1>7. ASSUME NEW num \in 16..35 PROVE Sized(Number(m, num, f), IntSize(m, 2, f))
  BY <1>4, <1>5, Zenon
<1> QED BY <1>6, <1>7, Zenon

LEMMA UnknownIsSized ==
  ASSUME NEW type \in Types, NEW m, IsFlat(type, m)
  PROVE  Sized(m.unknown, Len(m.unknown))
<1>1. Other("unknown")
  BY DEF Other, Counts, Flags, Nested
<1>2. m["unknown"] \in Seq(Byte)
  BY <1>1, AlwaysThere, TextField, Zenon
<1> QED BY <1>2 DEF Sized

LEMMA TheOthers ==
  \A f \in {"version", "type", "domain", "resource", "endpoint", "exception", "result",
            "trace_id", "span_id", "parent_span_id", "x_request_id",
            "http_proxy_client", "key", "val", "protocol_str", "biz_code",
            "biz_scenario", "biz_response_code", "subject", "reply_to", "payload",
            "match_pattern", "unknown"} : Other(f)
BY DEF Other, Counts, Flags, Nested

LEMMA RequestIsSized ==
  ASSUME NEW m, IsFlat("AppRequest", m)
  PROVE  Sized(AppRequest_MarshalVT(m), AppRequest_SizeVT(m))
<1>1. /\ Other("version") /\ Other("type") /\ Other("domain")
      /\ Other("resource") /\ Other("endpoint")
  BY TheOthers
<1>2. 1 \in 1..15 /\ 2 \in 1..15 /\ 3 \in 1..15 /\ 4 \in 1..15 /\ 5 \in 1..15
  OBVIOUS
<1>3. Sized(Text(m, 1, "version"), TextSize(m, 1, "version"))
  BY <1>1, <1>2, TextField, Zenon
<1>4. Sized(Text(m, 2, "type"), TextSize(m, 1, "type"))
  BY <1>1, <1>2, TextField, Zenon
<1>5. Sized(Text(m, 3, "domain"), TextSize(m, 1, "domain"))
  BY <1>1, <1>2, TextField, Zenon
<1>6. Sized(Text(m, 4, "resource"), TextSize(m, 1, "resource"))
  BY <1>1, <1>2, TextField, Zenon
<1>7. Sized(Text(m, 5, "endpoint"), TextSize(m, 1, "endpoint"))
  BY <1>1, <1>2, TextField, Zenon
<1>8. Sized(m.unknown, Len(m.unknown))
  BY UnknownIsSized DEF Types
<1> QED BY <1>3, <1>4, <1>5, <1>6, <1>7, <1>8, SizedConcat
        DEF AppRequest_MarshalVT, AppRequest_SizeVT

LEMMA ResponseIsSized ==
  ASSUME NEW m, IsFlat("AppResponse", m)
  PROVE  Sized(AppResponse_MarshalVT(m), AppResponse_SizeVT(m))
<1>1. Other("exception") /\ Other("result") /\ Other("type") /\ Other("endpoint")
  BY TheOthers
<1>2. /\ 1 \in 1..15 /\ 2 \in 1..15 /\ 3 \in 1..15 /\ 4 \in 1..15 /\ 5 \in 1..15
      /\ 6 \in 1..15
  OBVIOUS
<1>3. "status" \in Counts /\ "code" \in Counts
  BY DEF Counts
<1>4. Sized(Number(m, 1, "status"), IntSize(m, 1, "status"))
  BY <1>2, <1>3, NumberField, Zenon
<1>5. Sized(Number(m, 2, "code"), IntSize(m, 1, "code"))
  BY <1>2, <1>3, NumberField, Zenon
<1>6. Sized(Text(m, 3, "exception"), TextSize(m, 1, "exception"))
  BY <1>1, <1>2, TextField, Zenon
<1>7. Sized(Text(m, 4, "result"), TextSize(m, 1, "result"))
  BY <1>1, <1>2, TextField, Zenon
<1>8. Sized(Text(m, 5, "type"), TextSize(m, 1, "type"))
  BY <1>1, <1>2, TextField, Zenon
<1>9. Sized(Text(m, 6, "endpoint"), TextSize(m, 1, "endpoint"))
  BY <1>1, <1>2, TextField, Zenon
<1>10. Sized(m.unknown, Len(m.unknown))
  BY UnknownIsSized DEF Types
<1> QED BY <1>4, <1>5, <1>6, <1>7, <1>8, <1>9, <1>10, SizedConcat
        DEF AppResponse_MarshalVT, AppResponse_SizeVT

LEMMA TraceIsSized ==
  ASSUME NEW m, IsFlat("AppTrace", m)
  PROVE  Sized(AppTrace_MarshalVT(m), AppTrace_SizeVT(m))
<1>1. /\ Other("trace_id") /\ Other("span_id") /\ Other("parent_span_id")
      /\ Other("x_request_id") /\ Other("http_proxy_client")
  BY TheOthers
<1>2. /\ 1 \in 1..15 /\ 2 \in 1..15 /\ 3 \in 1..15 /\ 4 \in 1..15 /\ 5 \in 1..15
      /\ 6 \in 1..35 /\ TagSize(6) = 1
  BY DEF TagSize
<1>3. Sized(Text(m, 1, "trace_id"), TextSize(m, 1, "trace_id"))
  BY <1>1, <1>2, TextField, Zenon
<1>4. Sized(Text(m, 2, "span_id"), TextSize(m, 1, "span_id"))
  BY <1>1, <1>2, TextField, Zenon
<1>5. Sized(Text(m, 3, "parent_span_id"), TextSize(m, 1, "parent_span_id"))
  BY <1>1, <1>2, TextField, Zenon
<1>6. Sized(Text(m, 4, "x_request_id"), TextSize(m, 1, "x_request_id"))
  BY <1>1, <1>2, TextField, Zenon
<1>7. Sized(Text(m, 5, "http_proxy_client"), TextSize(m, 1, "http_proxy_client"))
  BY <1>1, <1>2, TextField, Zenon
<1> DEFINE ids == m.trace_ids
           n == Len(ids)
           sizes == [k \in 1..n |-> Len(ids[k])]
<1>8. ids \in Seq(Seq(Byte))
  BY AlwaysThere DEF IsFlat
<1>9. n \in Nat /\ DOMAIN ids = 1..n
  BY <1>8
<1>10. ASSUME NEW k \in 1..n PROVE Sized(ids[k], sizes[k]) /\ Len(ids[k]) \in Nat
  <2>1. ids[k] \in Seq(Byte)
    BY <1>8, <1>9
  <2> HIDE DEF ids
  <2> QED BY <2>1 DEF Sized
<1>11. sizes \in [1..n -> Nat]
  BY <1>10
<1>12. Sized(FlattenSeq([k \in DOMAIN m.trace_ids |-> Prefixed(6, m.trace_ids[k])]),
             ListSize([k \in DOMAIN m.trace_ids |-> Len(m.trace_ids[k])], 1))
  <2>1. [k \in DOMAIN m.trace_ids |-> Len(m.trace_ids[k])] = sizes
    BY <1>9
  <2>2. [k \in DOMAIN m.trace_ids |-> Prefixed(6, m.trace_ids[k])]
          = [k \in 1..n |-> Prefixed(6, ids[k])]
    BY <1>9
  <2>3. \A k \in 1..n : Sized(ids[k], sizes[k])
    BY <1>10
  <2> HIDE DEF sizes, n, ids
  <2>4. Sized(FlattenSeq([k \in 1..n |-> Prefixed(6, ids[k])]),
              ListSize(sizes, TagSize(6)))
    BY <1>2, <1>9, <1>11, <2>3, ListIsSized, Zenon
  <2> QED BY <1>2, <2>1, <2>2, <2>4, Zenon
<1>13. Sized(m.unknown, Len(m.unknown))
  BY UnknownIsSized DEF Types
<1> DEFINE b == FlattenSeq([k \in DOMAIN m.trace_ids |-> Prefixed(6, m.trace_ids[k])])
           c == ListSize([k \in DOMAIN m.trace_ids |-> Len(m.trace_ids[k])], 1)
<1>14. Sized(b, c)
  BY <1>12
<1>15. /\ AppTrace_MarshalVT(m) =
            Text(m, 1, "trace_id") \o Text(m, 2, "span_id") \o Text(m, 3, "parent_span_id")
              \o Text(m, 4, "x_request_id") \o Text(m, 5, "http_proxy_client")
              \o b \o m.unknown
       /\ AppTrace_SizeVT(m) =
            TextSize(m, 1, "trace_id") + TextSize(m, 1, "span_id")
              + TextSize(m, 1, "parent_span_id") + TextSize(m, 1, "x_request_id")
              + TextSize(m, 1, "http_proxy_client") + c + Len(m.unknown)
  BY DEF AppTrace_MarshalVT, AppTrace_SizeVT
<1> HIDE DEF b, c
<1> QED BY <1>3, <1>4, <1>5, <1>6, <1>7, <1>13, <1>14, <1>15, SizedConcat

LEMMA KeyValIsSized ==
  ASSUME NEW m, m = Nil \/ IsFlat("KeyVal", m)
  PROVE  Sized(KeyVal_MarshalVT(m), KeyVal_SizeVT(m))
<1>1. CASE m = Nil
  BY <1>1, NothingIsSized DEF KeyVal_MarshalVT, KeyVal_SizeVT
<1>2. CASE m # Nil
  <2>1. IsFlat("KeyVal", m) /\ 1 \in 1..15 /\ 2 \in 1..15
    BY <1>2
  <2>2. Other("key") /\ Other("val")
    BY TheOthers
  <2>3. "key" \in DOMAIN Empty("KeyVal") /\ "val" \in DOMAIN Empty("KeyVal")
    BY AlwaysThere
  <2>4. m["key"] \in Seq(Byte) /\ m["val"] \in Seq(Byte)
    BY <2>1, <2>2, <2>3, TextField, Zenon
  <2>5. /\ Sized(NonEmpty(m, 1, "key"), NonEmptySize(m, "key"))
        /\ Sized(NonEmpty(m, 2, "val"), NonEmptySize(m, "val"))
    BY <2>1, <2>4, NonEmptyIsSized, Zenon
  <2>6. Sized(m.unknown, Len(m.unknown))
    BY <2>1, UnknownIsSized DEF Types
  <2> QED BY <1>2, <2>5, <2>6, SizedConcat DEF KeyVal_MarshalVT, KeyVal_SizeVT
<1> QED BY <1>1, <1>2

LEMMA NatsIsSized ==
  ASSUME NEW m, IsFlat("NatsMessage", m)
  PROVE  Sized(NatsMessage_MarshalVT(m), NatsMessage_SizeVT(m))
<1>1. 1 \in 1..15 /\ 2 \in 1..15 /\ 3 \in 1..15
  OBVIOUS
<1>2. Other("subject") /\ Other("reply_to") /\ Other("payload")
  BY TheOthers
<1>3. /\ "subject" \in DOMAIN Empty("NatsMessage")
      /\ "reply_to" \in DOMAIN Empty("NatsMessage")
      /\ "payload" \in DOMAIN Empty("NatsMessage")
  BY AlwaysThere
<1>4. m["subject"] \in Seq(Byte) /\ m["reply_to"] \in Seq(Byte) /\ m["payload"] \in Seq(Byte)
  BY <1>2, <1>3, TextField, Zenon
<1>5. /\ Sized(NonEmpty(m, 1, "subject"), NonEmptySize(m, "subject"))
      /\ Sized(NonEmpty(m, 2, "reply_to"), NonEmptySize(m, "reply_to"))
      /\ Sized(NonEmpty(m, 3, "payload"), NonEmptySize(m, "payload"))
  BY <1>1, <1>4, NonEmptyIsSized, Zenon
<1>6. Sized(m.unknown, Len(m.unknown))
  BY UnknownIsSized DEF Types
<1> QED BY <1>5, <1>6, SizedConcat DEF NatsMessage_MarshalVT, NatsMessage_SizeVT

\* A sum in another order.
LEMMA SumsCommute ==
  ASSUME NEW a \in Nat, NEW b \in Nat, NEW c \in Nat
  PROVE  a + b + c = b + a + c
OBVIOUS

LEMMA ZmtpIsSized ==
  ASSUME NEW m, IsFlat("ZmtpMessage", m)
  PROVE  /\ Sized(ZmtpMessage_MarshalVT(m), ZmtpMessage_SizeVT(m))
         /\ Sized(ZmtpMessage_MarshalVTStrict(m), ZmtpMessage_SizeVT(m))
<1> DEFINE q == IF "match_pattern" \in DOMAIN m
                THEN ZmtpMessage_MatchPattern_SizeVT(m.match_pattern) ELSE 0
<1>1. Sized(Subscription(m), q)
  <2>1. CASE "match_pattern" \in DOMAIN m
    <3>1. m.match_pattern \in Seq(Byte)
      BY <2>1, TheOthers DEF IsFlat, Other
    <3>2. 1 \in 1..35 /\ TagSize(1) = 1 /\ Sized(m.match_pattern, Len(m.match_pattern))
      BY <3>1 DEF TagSize, Sized
    <3>3. Sized(Prefixed(1, m.match_pattern), Delimited(1, Len(m.match_pattern)))
      BY <3>2, PrefixedIsSized
    <3> QED BY <2>1, <3>3 DEF Subscription, ZmtpMessage_MatchPattern_MarshalVT,
                ZmtpMessage_MatchPattern_SizeVT
  <2>2. CASE "match_pattern" \notin DOMAIN m
    BY <2>2, NothingIsSized DEF Subscription
  <2> QED BY <2>1, <2>2
<1>2. Sized(NonEmpty(m, 2, "payload"), NonEmptySize(m, "payload"))
  <2>1. Other("payload") /\ "payload" \in DOMAIN Empty("ZmtpMessage") /\ 2 \in 1..15
    BY TheOthers, AlwaysThere
  <2>2. m["payload"] \in Seq(Byte)
    BY <2>1, TextField, Zenon
  <2> QED BY <2>1, <2>2, NonEmptyIsSized, Zenon
<1>3. Sized(m.unknown, Len(m.unknown))
  BY UnknownIsSized DEF Types
<1> DEFINE p == NonEmptySize(m, "payload")
           u == Len(m.unknown)
<1>4. ZmtpMessage_SizeVT(m) = q + p + u
  BY DEF ZmtpMessage_SizeVT
<1>5. q \in Nat /\ p \in Nat /\ u \in Nat
  <2> HIDE DEF q, p, u
  <2> QED BY <1>1, <1>2, <1>3, SizesAreNumbers DEF q, p, u
<1>6. Sized(NonEmpty(m, 2, "payload"), p) /\ Sized(m.unknown, u)
  BY <1>2, <1>3
<1> HIDE DEF q, p, u
<1>7. Sized(ZmtpMessage_MarshalVT(m), p + q + u)
  BY <1>1, <1>6, SizedConcat DEF ZmtpMessage_MarshalVT
<1>8. Sized(ZmtpMessage_MarshalVTStrict(m), q + p + u)
  BY <1>1, <1>6, SizedConcat DEF ZmtpMessage_MarshalVTStrict
<1> QED BY <1>4, <1>5, <1>7, <1>8, SumsCommute

LEMMA OneofIsSized ==
  ASSUME NEW m, IsMessage("AppInfo", m)
  PROVE  Sized(Info(m), InfoSize(m))
<1>0. 10 \in 1..35 /\ 11 \in 1..35 /\ TagSize(10) = 1 /\ TagSize(11) = 1
  BY DEF TagSize
<1>1. CASE "req" \in DOMAIN m
  <2>1. "resp" \notin DOMAIN m /\ (m.req = Nil \/ IsFlat("AppRequest", m.req))
    BY <1>1 DEF IsMessage
  <2>2. Sized(AppInfo_Req_MarshalVT(m.req), AppInfo_Req_SizeVT(m.req))
    <3>1. CASE m.req = Nil
      BY <3>1, NothingIsSized DEF AppInfo_Req_MarshalVT, AppInfo_Req_SizeVT
    <3>2. CASE m.req # Nil
      <4>1. Sized(AppRequest_MarshalVT(m.req), AppRequest_SizeVT(m.req))
        BY <2>1, <3>2, RequestIsSized
      <4>2. Sized(Prefixed(10, AppRequest_MarshalVT(m.req)),
                  Delimited(1, AppRequest_SizeVT(m.req)))
        BY <1>0, <4>1, PrefixedIsSized
      <4> QED BY <3>2, <4>2 DEF AppInfo_Req_MarshalVT, AppInfo_Req_SizeVT
    <3> QED BY <3>1, <3>2
  <2>3. Info(m) = AppInfo_Req_MarshalVT(m.req)
    BY <1>1, <2>1 DEF Info
  <2>4. InfoSize(m) = AppInfo_Req_SizeVT(m.req) + 0
    BY <1>1, <2>1 DEF InfoSize
  <2>5. AppInfo_Req_SizeVT(m.req) \in Nat
    BY <2>2, SizesAreNumbers
  <2>6. InfoSize(m) = AppInfo_Req_SizeVT(m.req)
    BY <2>4, <2>5
  <2> QED BY <2>2, <2>3, <2>6
<1>2. CASE "req" \notin DOMAIN m /\ "resp" \in DOMAIN m
  <2>1. m.resp = Nil \/ IsFlat("AppResponse", m.resp)
    BY <1>2 DEF IsMessage
  <2>2. Sized(AppInfo_Resp_MarshalVT(m.resp), AppInfo_Resp_SizeVT(m.resp))
    <3>1. CASE m.resp = Nil
      BY <3>1, NothingIsSized DEF AppInfo_Resp_MarshalVT, AppInfo_Resp_SizeVT
    <3>2. CASE m.resp # Nil
      <4>1. Sized(AppResponse_MarshalVT(m.resp), AppResponse_SizeVT(m.resp))
        BY <2>1, <3>2, ResponseIsSized
      <4>2. Sized(Prefixed(11, AppResponse_MarshalVT(m.resp)),
                  Delimited(1, AppResponse_SizeVT(m.resp)))
        BY <1>0, <4>1, PrefixedIsSized
      <4> QED BY <3>2, <4>2 DEF AppInfo_Resp_MarshalVT, AppInfo_Resp_SizeVT
    <3> QED BY <3>1, <3>2
  <2>3. Info(m) = AppInfo_Resp_MarshalVT(m.resp)
    BY <1>2 DEF Info
  <2>4. InfoSize(m) = 0 + AppInfo_Resp_SizeVT(m.resp)
    BY <1>2 DEF InfoSize
  <2>5. AppInfo_Resp_SizeVT(m.resp) \in Nat
    BY <2>2, SizesAreNumbers
  <2>6. InfoSize(m) = AppInfo_Resp_SizeVT(m.resp)
    BY <2>4, <2>5
  <2> QED BY <2>2, <2>3, <2>6
<1>3. CASE "req" \notin DOMAIN m /\ "resp" \notin DOMAIN m
  BY <1>3, NothingIsSized DEF Info, InfoSize
<1> QED BY <1>1, <1>2, <1>3

LEMMA AttributesAreSized ==
  ASSUME NEW m, IsMessage("AppInfo", m)
  PROVE  Sized(FlattenSeq([k \in DOMAIN m.attributes |->
                             Prefixed(31, KeyVal_MarshalVT(m.attributes[k]))]),
               ListSize([k \in DOMAIN m.attributes |-> KeyVal_SizeVT(m.attributes[k])], 2))
<1> DEFINE kvs == m.attributes
           n == Len(kvs)
           parts == [k \in 1..n |-> KeyVal_MarshalVT(kvs[k])]
           sizes == [k \in 1..n |-> KeyVal_SizeVT(kvs[k])]
<1>1. kvs \in Seq(Range(kvs)) /\ \A k \in DOMAIN kvs : kvs[k] = Nil \/ IsFlat("KeyVal", kvs[k])
  BY DEF IsMessage
<1>2. n \in Nat /\ DOMAIN kvs = 1..n
  <2> HIDE DEF kvs
  <2> QED BY <1>1
<1>3. ASSUME NEW k \in 1..n
      PROVE  Sized(KeyVal_MarshalVT(kvs[k]), KeyVal_SizeVT(kvs[k]))
  <2>1. kvs[k] = Nil \/ IsFlat("KeyVal", kvs[k])
    BY <1>1, <1>2
  <2> HIDE DEF kvs, n
  <2> QED BY <2>1, KeyValIsSized
<1>4. sizes \in [1..n -> Nat] /\ \A k \in 1..n : Sized(parts[k], sizes[k])
  <2>1. ASSUME NEW k \in 1..n PROVE KeyVal_SizeVT(kvs[k]) \in Nat
    <3> HIDE DEF kvs, n
    <3> QED BY <1>3, SizesAreNumbers
  <2> HIDE DEF kvs, n
  <2> QED BY <1>3, <2>1
<1>5. /\ [k \in DOMAIN kvs |-> Prefixed(31, KeyVal_MarshalVT(kvs[k]))]
           = [k \in 1..n |-> Prefixed(31, parts[k])]
      /\ [k \in DOMAIN kvs |-> KeyVal_SizeVT(kvs[k])] = sizes
  <2> HIDE DEF kvs, n
  <2> QED BY <1>2
<1>6. 31 \in 1..35 /\ TagSize(31) = 2
  BY DEF TagSize
<1> HIDE DEF kvs, n, parts, sizes
<1>7. Sized(FlattenSeq([k \in 1..n |-> Prefixed(31, parts[k])]), ListSize(sizes, TagSize(31)))
  BY <1>2, <1>4, <1>6, ListIsSized, Zenon
<1>8. Sized(FlattenSeq([k \in DOMAIN kvs |-> Prefixed(31, KeyVal_MarshalVT(kvs[k]))]),
            ListSize([k \in DOMAIN kvs |-> KeyVal_SizeVT(kvs[k])], 2))
  BY <1>5, <1>6, <1>7, Zenon
<1> QED BY <1>8 DEF kvs

LEMMA RestIsSized ==
  ASSUME NEW m, IsMessage("AppInfo", m)
  PROVE  Sized(Rest(m), RestSize(m))
<1>1. IsFlat("AppInfo", m) /\ ("trace" \in DOMAIN m => IsFlat("AppTrace", m.trace))
  BY DEF IsMessage
<1>2. /\ Other("protocol_str") /\ Other("biz_code") /\ Other("biz_scenario")
      /\ Other("biz_response_code") /\ "biz_type" \in Counts
  BY TheOthers DEF Counts
<1>3. /\ 12 \in 1..35 /\ TagSize(12) = 1 /\ 13 \in 1..15
      /\ 21 \in 16..35 /\ 22 \in 16..35 /\ 23 \in 16..35
      /\ 32 \in 16..35 /\ 33 \in 16..35 /\ 34 \in 16..35 /\ 35 \in 16..35
  BY DEF TagSize
<1> DEFINE t == IF "trace" \in DOMAIN m THEN Prefixed(12, AppTrace_MarshalVT(m.trace))
                ELSE <<>>
           u == IF "trace" \in DOMAIN m THEN Delimited(1, AppTrace_SizeVT(m.trace)) ELSE 0
           a == FlattenSeq([k \in DOMAIN m.attributes |->
                              Prefixed(31, KeyVal_MarshalVT(m.attributes[k]))])
           b == ListSize([k \in DOMAIN m.attributes |-> KeyVal_SizeVT(m.attributes[k])], 2)
<1>4. Sized(t, u)
  <2>1. CASE "trace" \in DOMAIN m
    <3>1. Sized(AppTrace_MarshalVT(m.trace), AppTrace_SizeVT(m.trace))
      BY <1>1, <2>1, TraceIsSized
    <3>2. Sized(Prefixed(12, AppTrace_MarshalVT(m.trace)),
                Delimited(1, AppTrace_SizeVT(m.trace)))
      BY <1>3, <3>1, PrefixedIsSized
    <3> QED BY <2>1, <3>2
  <2>2. CASE "trace" \notin DOMAIN m
    BY <2>2, NothingIsSized
  <2> QED BY <2>1, <2>2
<1>5. Sized(a, b)
  BY AttributesAreSized
<1>6. /\ Rest(m) = t \o Text(m, 13, "protocol_str")
                     \o Bool(m, 21, "is_end") \o Bool(m, 22, "is_async")
                     \o Bool(m, 23, "is_reversed") \o a
                     \o Number(m, 32, "biz_type") \o Text(m, 33, "biz_code")
                     \o Text(m, 34, "biz_scenario") \o Text(m, 35, "biz_response_code")
      /\ RestSize(m) = u + TextSize(m, 1, "protocol_str")
                         + BoolSize(m, "is_end") + BoolSize(m, "is_async")
                         + BoolSize(m, "is_reversed") + b + BizSize(m)
  BY DEF Rest, RestSize
<1> HIDE DEF t, u, a, b
<1>7. /\ Sized(Text(m, 13, "protocol_str"), TextSize(m, 1, "protocol_str"))
      /\ Sized(Text(m, 33, "biz_code"), TextSize(m, 2, "biz_code"))
  BY <1>1, <1>2, <1>3, TextField, Zenon
<1>8. /\ Sized(Text(m, 34, "biz_scenario"), TextSize(m, 2, "biz_scenario"))
      /\ Sized(Text(m, 35, "biz_response_code"), TextSize(m, 2, "biz_response_code"))
  BY <1>1, <1>2, <1>3, TextField, Zenon
<1>9. Sized(Number(m, 32, "biz_type"), IntSize(m, 2, "biz_type"))
  BY <1>1, <1>2, <1>3, NumberField, Zenon
<1>10. /\ Sized(Bool(m, 21, "is_end"), BoolSize(m, "is_end"))
       /\ Sized(Bool(m, 22, "is_async"), BoolSize(m, "is_async"))
       /\ Sized(Bool(m, 23, "is_reversed"), BoolSize(m, "is_reversed"))
  BY <1>3, BoolIsSized, Zenon
<1> DEFINE k1 == IntSize(m, 2, "biz_type")
           k2 == TextSize(m, 2, "biz_code")
           k3 == TextSize(m, 2, "biz_scenario")
           k4 == TextSize(m, 2, "biz_response_code")
           front == t \o Text(m, 13, "protocol_str")
                      \o Bool(m, 21, "is_end") \o Bool(m, 22, "is_async")
                      \o Bool(m, 23, "is_reversed") \o a
           fore == u + TextSize(m, 1, "protocol_str")
                     + BoolSize(m, "is_end") + BoolSize(m, "is_async")
                     + BoolSize(m, "is_reversed") + b
<1>11. Sized(front, fore)
  BY <1>4, <1>5, <1>7, <1>10, SizedConcat
<1>12. /\ Rest(m) = front \o Number(m, 32, "biz_type") \o Text(m, 33, "biz_code")
                      \o Text(m, 34, "biz_scenario") \o Text(m, 35, "biz_response_code")
       /\ RestSize(m) = fore + (k1 + k2 + k3 + k4)
  BY <1>6 DEF BizSize
<1> HIDE DEF front, fore
<1>13. Sized(Rest(m), fore + k1 + k2 + k3 + k4)
  BY <1>7, <1>8, <1>9, <1>11, <1>12, SizedConcat
<1>14. fore \in Nat /\ k1 \in Nat /\ k2 \in Nat /\ k3 \in Nat /\ k4 \in Nat
  BY <1>7, <1>8, <1>9, <1>11, SizesAreNumbers
<1> HIDE DEF k1, k2, k3, k4
<1>15. fore + k1 + k2 + k3 + k4 = fore + (k1 + k2 + k3 + k4)
  BY <1>14
<1> QED BY <1>12, <1>13, <1>15

LEMMA AppInfoIsSized ==
  ASSUME NEW m, IsMessage("AppInfo", m)
  PROVE  /\ Sized(AppInfo_MarshalVT(m), AppInfo_SizeVT(m))
         /\ Sized(AppInfo_MarshalVTStrict(m), AppInfo_SizeVT(m))
<1>1. IsFlat("AppInfo", m)
  BY DEF IsMessage
<1>2. /\ "req_len" \in Counts /\ "resp_len" \in Counts /\ "request_id" \in Counts
      /\ 1 \in 1..15 /\ 2 \in 1..15 /\ 3 \in 1..15
  BY DEF Counts
<1> DEFINE x == IntSize(m, 1, "req_len")
           y == IntSize(m, 1, "resp_len")
           z == IntSize(m, 1, "request_id")
           i == InfoSize(m)
           r == RestSize(m)
           u == Len(m.unknown)
<1>3. /\ Sized(Number(m, 1, "req_len"), x)
      /\ Sized(Number(m, 2, "resp_len"), y)
      /\ Sized(Number(m, 3, "request_id"), z)
  BY <1>1, <1>2, NumberField, Zenon
<1>4. Sized(Info(m), i) /\ Sized(Rest(m), r) /\ Sized(m.unknown, u)
  BY <1>1, OneofIsSized, RestIsSized, UnknownIsSized DEF Types
<1>5. AppInfo_SizeVT(m) = x + y + z + i + r + u
  BY DEF AppInfo_SizeVT
<1>6. /\ AppInfo_MarshalVT(m) = Lengths(m) \o Rest(m) \o Info(m) \o m.unknown
      /\ AppInfo_MarshalVTStrict(m) = Lengths(m) \o Info(m) \o Rest(m) \o m.unknown
  BY DEF AppInfo_MarshalVT, AppInfo_MarshalVTStrict
<1> HIDE DEF x, y, z, i, r, u
<1>7. Sized(Lengths(m), x + y + z)
  BY <1>3, SizedConcat DEF Lengths
<1> DEFINE w == x + y + z
<1>8. Sized(Lengths(m), w)
  BY <1>7
<1>9. AppInfo_SizeVT(m) = w + i + r + u
  BY <1>5
<1> HIDE DEF w
<1>10. i \in Nat /\ r \in Nat /\ w \in Nat /\ u \in Nat
  BY <1>4, <1>8, SizesAreNumbers
<1>11. Sized(AppInfo_MarshalVT(m), w + r + i + u)
  BY <1>4, <1>6, <1>8, SizedConcat
<1>12. Sized(AppInfo_MarshalVTStrict(m), w + i + r + u)
  BY <1>4, <1>6, <1>8, SizedConcat
<1>13. w + r + i + u = w + i + r + u
  BY <1>10
<1> QED BY <1>9, <1>11, <1>12, <1>13

\* What MarshalToSizedBufferVT writes of a message, in either order of fields,
\* is as long as SizeVT says, and bytes.
LEMMA WrittenIsSized ==
  ASSUME NEW type \in Types, NEW m, IsMessage(type, m), NEW strict \in BOOLEAN
  PROVE  Sized(Written(type, strict, m), SizeVT(type, m))
<1>1. IsFlat(type, m)
  BY DEF IsMessage
<1>2. CASE type = "AppRequest"
  BY <1>1, <1>2, RequestIsSized DEF Written, SizeVT
<1>3. CASE type = "AppResponse"
  BY <1>1, <1>3, ResponseIsSized DEF Written, SizeVT
<1>4. CASE type = "AppTrace"
  BY <1>1, <1>4, TraceIsSized DEF Written, SizeVT
<1>5. CASE type = "KeyVal"
  BY <1>1, <1>5, KeyValIsSized DEF Written, SizeVT
<1>6. CASE type = "AppInfo"
  BY <1>6, AppInfoIsSized DEF Written, SizeVT
<1>7. CASE type = "NatsMessage"
  BY <1>1, <1>7, NatsIsSized DEF Written, SizeVT
<1>8. CASE type = "ZmtpMessage"
  BY <1>1, <1>8, ZmtpIsSized DEF Written, SizeVT
<1> QED BY <1>2, <1>3, <1>4, <1>5, <1>6, <1>7, <1>8 DEF Types

\* The buffer of SizeVT bytes is filled to its first byte, so that what MarshalVT
\* returns is what was written: no zeros in front of it, and no panic
\* (WasmPluginApi_vtproto.pb.go:897-906).
THEOREM MarshalIsWhole ==
  ASSUME NEW type \in Types, NEW m, IsMessage(type, m), NEW strict \in BOOLEAN
  PROVE  MarshalVT(type, strict, m) = Written(type, strict, m)
<1> DEFINE b == Written(type, strict, m)
           n == SizeVT(type, m)
<1>1. b \in Seq(Byte) /\ Len(b) = n /\ n \in Nat
  <2>1. Sized(b, n)
    BY WrittenIsSized
  <2> HIDE DEF b, n
  <2> QED BY <2>1 DEF Sized
<1>2. MarshalVT(type, strict, m) =
        IF n - Len(b) < 0 THEN <<>>
        ELSE SubSeq([k \in 1..(n - Len(b)) |-> 0] \o b, 1, Len(b))
  BY DEF MarshalVT
<1> HIDE DEF b, n
<1>3. n - Len(b) = 0 /\ ~(n - Len(b) < 0)
  BY <1>1
<1>4. [k \in 1..(n - Len(b)) |-> 0] = <<>>
  BY <1>3
<1>5. <<>> \o b = b /\ SubSeq(b, 1, Len(b)) = b
  BY <1>1
<1>6. MarshalVT(type, strict, m) = SubSeq(<<>> \o b, 1, Len(b))
  BY <1>2, <1>3, <1>4, Zenon
<1> QED BY <1>5, <1>6 DEF b

\* What is sent are messages.
SentInv ==
  /\ sent.type \in Types
  /\ \A k \in DOMAIN sent.messages : IsMessage(sent.type, sent.messages[k])

LEMMA SentInit == Init => SentInv
<1>. SUFFICES ASSUME Init PROVE SentInv
  OBVIOUS
<1>1. CASE \E s \in Sent : sent = s
  BY <1>1, InputAssumption DEF SentInv
<1>2. CASE \E r \in Raw : sent = [type |-> r.type, messages |-> <<>>]
  <2>1. PICK r \in Raw : sent = [type |-> r.type, messages |-> <<>>]
    BY <1>2
  <2>2. sent.messages = <<>> /\ sent.type \in Types
    BY <2>1, InputAssumption
  <2>3. DOMAIN sent.messages = {}
    BY <2>2
  <2>. QED
    BY <2>2, <2>3 DEF SentInv
<1>. QED
  BY <1>1, <1>2 DEF Init

LEMMA InputsStay == [Next]_vars => UNCHANGED inputVars
BY DEF Next, Decode, Fail, NextField, BadTag, ReadTag, WrongWireType, BadVarint,
       ReadNumber, BadLength, ReadText, EnterMessage, LeaveMessage, SkipUnknown,
       BadUnknown, Return, Reuse, vars, inputVars

\* Each message is as long on the wire as SizeVT says, in either order of fields,
\* whatever is in it: the prefix the caller puts in front of it and the buffer it
\* is given are right (WasmPluginApi_vtproto.pb.go:897-906, serde.go:441-449).
THEOREM SizeIsAlwaysExact == Spec => []SizeIsExact
<1>1. SentInv /\ [Next]_vars => SentInv'
  BY InputsStay DEF SentInv, inputVars
<1>2. SentInv => SizeIsExact
  <2>. SUFFICES ASSUME SentInv PROVE SizeIsExact
    OBVIOUS
  <2>1. ASSUME NEW k \in DOMAIN sent.messages, NEW strict \in BOOLEAN
        PROVE  SizeVT(sent.type, sent.messages[k])
                 = Len(Written(sent.type, strict, sent.messages[k]))
    <3>1. sent.type \in Types /\ IsMessage(sent.type, sent.messages[k])
      BY DEF SentInv
    <3>2. Sized(Written(sent.type, strict, sent.messages[k]),
                SizeVT(sent.type, sent.messages[k]))
      BY <3>1, WrittenIsSized
    <3>. QED
      BY <3>2 DEF Sized
  <2>. QED
    BY <2>1 DEF SizeIsExact
<1>. QED
  BY SentInit, <1>1, <1>2, PTL DEF Spec

------------------------------------------------------------------------------
(* The slices of the decoders *)

\* InBounds alone is not inductive: an error goes back from any depth to the
\* outermost slice at once, and an unknown field is skipped from its tag.
BoundsInv ==
  /\ buf \in Seq(Byte)
  /\ ends \in Seq(Nat) /\ Len(ends) >= 1
  /\ \A k \in 1..Len(ends) :
       /\ ends[k] <= ends[1]
       /\ ends[k] <= (IF k = 1 THEN Len(buf) ELSE ends[k - 1])
  /\ iNdEx \in 0..ends[Len(ends)]
  /\ field.pre \in Nat

\* The byte behind a varint is at most the end of the slice (the test of
\* iNdEx against l in front of each byte, WasmPluginApi_vtproto.pb.go:2850).
LEMMA VarintEnds ==
  ASSUME NEW p \in Nat, l \in Nat, VarintOk(p)
  PROVE  After(p) \in p + 1..l
<1>1. LastGroup(p) \in Groups(p)
  BY DEF VarintOk, LastGroup
<1>2. LastGroup(p) \in 0..MaxGroups - 1 /\ p + LastGroup(p) < l
  BY <1>1 DEF Groups
<1>3. LastGroup(p) \in Nat
  BY <1>2, WordsAssumption
<1>4. QED
  BY <1>2, <1>3 DEF After

\* l is a place of the buffer and the position is in front of it.
LEMMA Positions ==
  ASSUME BoundsInv
  PROVE  /\ l \in Nat /\ iNdEx \in Nat /\ iNdEx <= l
         /\ l <= ends[1] /\ ends[1] \in Nat
BY DEF BoundsInv, l

\* Where a call goes on in its own slice, everything else stays.
LEMMA GoesOn ==
  ASSUME BoundsInv, UNCHANGED <<buf, field, ends>>, iNdEx' \in 0..l
  PROVE  BoundsInv'
BY DEF BoundsInv, l

LEMMA Fails ==
  ASSUME BoundsInv, Fail
  PROVE  BoundsInv'
<1>1. ends' = <<ends[1]>> /\ iNdEx' = iNdEx /\ buf' = buf /\ field' = field
  BY DEF Fail
<1>2. Len(ends') = 1 /\ ends'[1] = ends[1]
  BY <1>1
<1>3. ends' \in Seq(Nat)
  BY <1>1, Positions
<1>4. iNdEx' \in 0..ends'[1]
  BY <1>1, <1>2, Positions
<1>5. ends[1] <= Len(buf)
  BY DEF BoundsInv
<1>6. QED
  BY <1>1, <1>2, <1>3, <1>4, <1>5, Positions DEF BoundsInv

\* A nested slice begins behind the length and ends within the slice around
\* it (postIndex, WasmPluginApi_vtproto.pb.go:2948-2957).
LEMMA Enters ==
  ASSUME BoundsInv, EnterMessage
  PROVE  BoundsInv'
<1>1. /\ VarintOk(iNdEx) /\ length \in 0..(l - start)
      /\ ends' = Append(ends, start + length)
      /\ iNdEx' = start /\ buf' = buf /\ field' = field
  BY DEF EnterMessage, Counted, LengthOk, NextField
<1>2. start \in iNdEx + 1..l
  BY <1>1, VarintEnds, Positions DEF start
<1>. DEFINE e == start + length
<1>3. e \in Nat /\ e <= l /\ start \in Nat /\ start <= e
  BY <1>1, <1>2, Positions
<1>. HIDE DEF e
<1>4. ends' = Append(ends, e)
  BY <1>1 DEF e
<1>5. ends \in Seq(Nat) /\ Len(ends) \in Nat /\ Len(ends) >= 1
  BY DEF BoundsInv
<1>6. /\ ends' \in Seq(Nat) /\ Len(ends') = Len(ends) + 1
      /\ ends'[Len(ends')] = e
      /\ \A k \in 1..Len(ends) : ends'[k] = ends[k]
  BY <1>3, <1>4, <1>5
<1>7. ASSUME NEW k \in 1..Len(ends')
      PROVE  /\ ends'[k] <= ends'[1]
             /\ ends'[k] <= (IF k = 1 THEN Len(buf') ELSE ends'[k - 1])
  <2>1. CASE k \in 1..Len(ends)
    <3>1. ends'[k] = ends[k] /\ ends'[1] = ends[1]
      BY <1>5, <1>6, <2>1
    <3>2. k # 1 => k - 1 \in 1..Len(ends)
      BY <1>5, <2>1
    <3>3. k # 1 => ends'[k - 1] = ends[k - 1]
      BY <1>6, <3>2
    <3>4. QED
      BY <1>1, <2>1, <3>1, <3>3 DEF BoundsInv
  <2>2. CASE k = Len(ends) + 1
    <3>1. ends'[k] = e /\ ends'[1] = ends[1] /\ ends'[k - 1] = l /\ k # 1
      BY <1>5, <1>6, <2>2 DEF l
    <3>2. QED
      BY <1>3, <3>1, Positions
  <2>3. QED
    BY <1>5, <1>6, <2>1, <2>2
<1>8. iNdEx' \in 0..ends'[Len(ends')]
  BY <1>1, <1>3, <1>6
<1>9. QED
  BY <1>1, <1>5, <1>6, <1>7, <1>8 DEF BoundsInv

LEMMA Leaves ==
  ASSUME BoundsInv, LeaveMessage
  PROVE  BoundsInv'
<1>1. ends' = <<ends[1]>> /\ iNdEx' = iNdEx /\ buf' = buf /\ field' = field
  BY DEF LeaveMessage, NextField
<1>2. Len(ends') = 1 /\ ends'[1] = ends[1]
  BY <1>1
<1>3. ends' \in Seq(Nat)
  BY <1>1, Positions
<1>4. iNdEx' \in 0..ends'[1]
  BY <1>1, <1>2, Positions
<1>5. ends[1] <= Len(buf)
  BY DEF BoundsInv
<1>6. QED
  BY <1>1, <1>2, <1>3, <1>4, <1>5, Positions DEF BoundsInv

\* What arrives are bytes: the beginning of what a writer made, or of Raw.
LEMMA BytesArrive == Init => buf \in Seq(Byte)
<1>. SUFFICES ASSUME Init PROVE buf \in Seq(Byte)
  OBVIOUS
<1>1. ASSUME NEW s \in Sent, NEW strict \in BOOLEAN
      PROVE  FlattenSeq([k \in DOMAIN s.messages |->
                           MarshalVT(s.type, strict, s.messages[k])]) \in Seq(Byte)
  <2>. DEFINE n == Len(s.messages)
              e == [k \in 1..n |-> MarshalVT(s.type, strict, s.messages[k])]
  <2>1. /\ s.type \in Types /\ s.messages \in Seq(Range(s.messages))
        /\ \A k \in DOMAIN s.messages : IsMessage(s.type, s.messages[k])
    BY InputAssumption
  <2>2. n \in Nat /\ DOMAIN s.messages = 1..n
    BY <2>1
  <2>3. ASSUME NEW k \in 1..n
        PROVE  MarshalVT(s.type, strict, s.messages[k]) \in Seq(Byte)
    <3>1. IsMessage(s.type, s.messages[k])
      BY <2>1, <2>2
    <3>2. Sized(Written(s.type, strict, s.messages[k]), SizeVT(s.type, s.messages[k]))
      BY <2>1, <3>1, WrittenIsSized
    <3>3. MarshalVT(s.type, strict, s.messages[k]) = Written(s.type, strict, s.messages[k])
      BY <2>1, <3>1, MarshalIsWhole
    <3>. QED
      BY <3>2, <3>3 DEF Sized
  <2>4. e \in [1..n -> Seq(Byte)]
    BY <2>3
  <2>5. e = [k \in DOMAIN s.messages |-> MarshalVT(s.type, strict, s.messages[k])]
    BY <2>2
  <2>. HIDE DEF e, n
  <2>6. PICK r \in [Nat -> Seq(Byte)] : Joins(r, e, n) /\ FlattenSeq(e) = r[n]
    BY <2>2, <2>4, FlattenDef, Zenon
  <2>7. FlattenSeq(e) \in Seq(Byte)
    BY <2>2, <2>6
  <2>. QED
    BY <2>5, <2>7
<1>2. CASE \E r \in Raw : buf = r.bytes
  BY <1>2, InputAssumption
<1>3. CASE \E all \in Seq(Byte) : \E n \in 0..Len(all) : buf = SubSeq(all, 1, n)
  BY <1>3
<1>4. \/ \E r \in Raw : buf = r.bytes
      \/ \E all \in Seq(Byte) : \E n \in 0..Len(all) : buf = SubSeq(all, 1, n)
  <2>1. CASE \E r \in Raw : buf = r.bytes
    BY <2>1
  <2>2. CASE ~\E r \in Raw : buf = r.bytes
    <3>1. PICK s \in Sent, strict \in BOOLEAN :
            \E n \in 0..Len(FlattenSeq([k \in DOMAIN s.messages |->
                                         MarshalVT(s.type, strict, s.messages[k])])) :
              buf = SubSeq(FlattenSeq([k \in DOMAIN s.messages |->
                                         MarshalVT(s.type, strict, s.messages[k])]), 1, n)
      BY <2>2 DEF Init
    <3>. DEFINE all == FlattenSeq([k \in DOMAIN s.messages |->
                                     MarshalVT(s.type, strict, s.messages[k])])
    <3>2. all \in Seq(Byte)
      BY <1>1
    <3>3. \E n \in 0..Len(all) : buf = SubSeq(all, 1, n)
      BY <3>1
    <3>. HIDE DEF all
    <3>. QED
      BY <3>2, <3>3
  <2>. QED
    BY <2>1, <2>2
<1>. QED
  BY <1>2, <1>3, <1>4

\* Every decoder starts with its whole slice in front of it.
LEMMA BoundsInit == Init => BoundsInv
<1>. SUFFICES ASSUME Init PROVE BoundsInv
  OBVIOUS
<1>1. buf \in Seq(Byte) /\ iNdEx = 0 /\ field = NoField /\ ends = <<Len(buf)>>
  BY BytesArrive DEF Init
<1>2. Len(buf) \in Nat
  BY <1>1
<1>3. ends \in Seq(Nat) /\ Len(ends) = 1 /\ ends[1] = Len(buf)
  BY <1>1, <1>2
<1>4. field.pre = 0
  BY <1>1 DEF NoField
<1>5. QED
  BY <1>1, <1>2, <1>3, <1>4 DEF BoundsInv

LEMMA BoundsNext == BoundsInv /\ [Next]_vars => BoundsInv'
<1>. SUFFICES ASSUME BoundsInv, [Next]_vars PROVE BoundsInv'
  OBVIOUS
<1>. USE Positions
<1>1. CASE BadTag \/ WrongWireType \/ BadVarint \/ BadLength \/ BadUnknown
  BY <1>1, Fails DEF BadTag, WrongWireType, BadVarint, BadLength, BadUnknown
<1>2. CASE ReadTag
  <2>1. /\ After(iNdEx) \in iNdEx + 1..l
        /\ iNdEx' = After(iNdEx) /\ UNCHANGED <<buf, ends>>
        /\ field' = [num |-> TagNum, wire |-> TagWire, pre |-> iNdEx]
    BY <1>2, VarintEnds DEF ReadTag, TagOk
  <2>2. field'.pre \in Nat
    BY <2>1
  <2>3. iNdEx' \in 0..l
    BY <2>1
  <2>4. QED
    BY <2>1, <2>2, <2>3 DEF BoundsInv, l
<1>3. CASE ReadNumber
  <2>1. After(iNdEx) \in iNdEx + 1..l
    BY <1>3, VarintEnds DEF ReadNumber
  <2>2. UNCHANGED <<buf, field, ends>> /\ iNdEx' \in 0..l
    BY <1>3, <2>1 DEF ReadNumber, NextField
  <2>3. QED
    BY <2>2, GoesOn
<1>4. CASE ReadText
  <2>1. start \in iNdEx + 1..l
    BY <1>4, VarintEnds DEF ReadText, Counted, start
  <2>2. length \in 0..(l - start)
    BY <1>4 DEF ReadText, LengthOk
  <2>3. UNCHANGED <<buf, field, ends>> /\ iNdEx' = start + length
    BY <1>4 DEF ReadText, NextField
  <2>4. iNdEx' \in 0..l
    BY <2>1, <2>2, <2>3
  <2>5. QED
    BY <2>3, <2>4, GoesOn
<1>5. CASE EnterMessage
  BY <1>5, Enters
<1>6. CASE LeaveMessage
  BY <1>6, Leaves
<1>7. CASE SkipUnknown
  <2>1. Skip(field.pre) \in field.pre..l /\ field.pre \in Nat
    BY <1>7 DEF SkipUnknown, BoundsInv
  <2>2. UNCHANGED <<buf, field, ends>> /\ iNdEx' = Skip(field.pre)
    BY <1>7 DEF SkipUnknown, NextField
  <2>3. iNdEx' \in 0..l
    BY <2>1, <2>2
  <2>4. QED
    BY <2>2, <2>3, GoesOn
<1>8. CASE Return
  <2>1. UNCHANGED <<buf, field, ends, iNdEx>>
    BY <1>8 DEF Return
  <2>2. iNdEx' \in 0..l
    BY <2>1
  <2>3. QED
    BY <2>1, <2>2, GoesOn
<1>9. CASE Reuse
  <2>1. /\ buf' = [k \in DOMAIN buf |-> 255 - buf[k]]
        /\ UNCHANGED <<iNdEx, field, ends>>
    BY <1>9 DEF Reuse
  <2>2. buf \in Seq(Byte)
    BY DEF BoundsInv
  <2>3. buf' = [k \in 1..Len(buf) |-> 255 - buf[k]]
    BY <2>1, <2>2
  <2>4. ASSUME NEW k \in 1..Len(buf)
        PROVE  255 - buf[k] \in Byte
    <3>1. buf[k] \in Byte
      BY <2>2
    <3>2. \A b \in Byte : 255 - b \in Byte
      BY DEF Byte
    <3>3. QED
      BY <3>1, <3>2
  <2>5. buf' \in Seq(Byte) /\ Len(buf') = Len(buf)
    BY <2>2, <2>3, <2>4
  <2>6. QED
    BY <2>1, <2>5 DEF BoundsInv
<1>10. CASE UNCHANGED vars
  BY <1>10 DEF BoundsInv, vars
<1>11. QED
  BY <1>1, <1>2, <1>3, <1>4, <1>5, <1>6, <1>7, <1>8, <1>9, <1>10
  DEF Next, Decode

LEMMA BoundsImply == BoundsInv => InBounds
<1>. SUFFICES ASSUME BoundsInv PROVE InBounds
  OBVIOUS
<1>1. DOMAIN ends = 1..Len(ends)
  BY DEF BoundsInv
<1>2. QED
  BY <1>1 DEF BoundsInv, InBounds, l

\* Whatever is sent, whatever its bytes are and wherever they are cut, no
\* decoder reads behind its slice, and no slice reaches out of the one it was
\* made of (WasmPluginApi_vtproto.pb.go:2840-3317).
THEOREM DecoderInBounds == Spec => []InBounds
<1>1. BoundsInv /\ [Next]_vars => BoundsInv'
  BY BoundsNext
<1>2. QED
  BY BoundsInit, <1>1, BoundsImply, PTL DEF Spec

------------------------------------------------------------------------------
(* The cases of the decoders *)

Scalars == {"int32", "uint32", "bool"}

\* What the tables say of a case: its kind and its field go together.
CaseFits(type, case) ==
  /\ case[1] \in Scalars \cup {"string", "strings", "message", "messages", "oneof"}
  /\ case[1] \in Scalars => case[2] \in Counts \cup Flags
  /\ case[1] = "string" => Other(case[2]) /\ case[2] # "unknown"
  /\ case[1] = "strings" => case[2] = "trace_ids" /\ type = "AppTrace"
  /\ case[1] = "message" => case[2] = "trace" /\ type = "AppInfo"
  /\ case[1] = "messages" => case[2] = "attributes" /\ type = "AppInfo"
  /\ case[1] = "oneof" => case[2] \in {"req", "resp"} /\ type = "AppInfo"

LEMMA RequestCases ==
  /\ DOMAIN AppRequest_UnmarshalVT = 1..5
  /\ AppRequest_UnmarshalVT[1] = <<"string", "version">>
  /\ AppRequest_UnmarshalVT[2] = <<"string", "type">>
  /\ AppRequest_UnmarshalVT[3] = <<"string", "domain">>
  /\ AppRequest_UnmarshalVT[4] = <<"string", "resource">>
  /\ AppRequest_UnmarshalVT[5] = <<"string", "endpoint">>
BY DEF AppRequest_UnmarshalVT, Strings

LEMMA ResponseCases ==
  /\ DOMAIN AppResponse_UnmarshalVT = 1..6
  /\ AppResponse_UnmarshalVT[1] = <<"int32", "status">>
  /\ AppResponse_UnmarshalVT[2] = <<"int32", "code">>
  /\ AppResponse_UnmarshalVT[3] = <<"string", "exception">>
  /\ AppResponse_UnmarshalVT[4] = <<"string", "result">>
  /\ AppResponse_UnmarshalVT[5] = <<"string", "type">>
  /\ AppResponse_UnmarshalVT[6] = <<"string", "endpoint">>
BY DEF AppResponse_UnmarshalVT, Strings

LEMMA TraceCases ==
  /\ DOMAIN AppTrace_UnmarshalVT = 1..6
  /\ AppTrace_UnmarshalVT[1] = <<"string", "trace_id">>
  /\ AppTrace_UnmarshalVT[2] = <<"string", "span_id">>
  /\ AppTrace_UnmarshalVT[3] = <<"string", "parent_span_id">>
  /\ AppTrace_UnmarshalVT[4] = <<"string", "x_request_id">>
  /\ AppTrace_UnmarshalVT[5] = <<"string", "http_proxy_client">>
  /\ AppTrace_UnmarshalVT[6] = <<"strings", "trace_ids">>
BY DEF AppTrace_UnmarshalVT, Strings

LEMMA KeyValCases ==
  /\ DOMAIN KeyVal_UnmarshalVT = 1..2
  /\ KeyVal_UnmarshalVT[1] = <<"string", "key">>
  /\ KeyVal_UnmarshalVT[2] = <<"string", "val">>
BY DEF KeyVal_UnmarshalVT, Strings

LEMMA NatsCases ==
  /\ DOMAIN NatsMessage_UnmarshalVT = 1..3
  /\ NatsMessage_UnmarshalVT[1] = <<"string", "subject">>
  /\ NatsMessage_UnmarshalVT[2] = <<"string", "reply_to">>
  /\ NatsMessage_UnmarshalVT[3] = <<"string", "payload">>
BY DEF NatsMessage_UnmarshalVT, Strings

LEMMA ZmtpCases ==
  /\ DOMAIN ZmtpMessage_UnmarshalVT = 1..2
  /\ ZmtpMessage_UnmarshalVT[1] = <<"string", "match_pattern">>
  /\ ZmtpMessage_UnmarshalVT[2] = <<"string", "payload">>
BY DEF ZmtpMessage_UnmarshalVT, Strings

LEMMA InfoCases ==
  /\ DOMAIN AppInfo_UnmarshalVT = 1..3 \cup 10..13 \cup 21..23 \cup 31..35
  /\ AppInfo_UnmarshalVT[1] = <<"uint32", "req_len">>
  /\ AppInfo_UnmarshalVT[2] = <<"uint32", "resp_len">>
  /\ AppInfo_UnmarshalVT[3] = <<"uint32", "request_id">>
  /\ AppInfo_UnmarshalVT[10] = <<"oneof", "req">>
  /\ AppInfo_UnmarshalVT[11] = <<"oneof", "resp">>
  /\ AppInfo_UnmarshalVT[12] = <<"message", "trace">>
  /\ AppInfo_UnmarshalVT[13] = <<"string", "protocol_str">>
  /\ AppInfo_UnmarshalVT[21] = <<"bool", "is_end">>
  /\ AppInfo_UnmarshalVT[22] = <<"bool", "is_async">>
  /\ AppInfo_UnmarshalVT[23] = <<"bool", "is_reversed">>
  /\ AppInfo_UnmarshalVT[31] = <<"messages", "attributes">>
  /\ AppInfo_UnmarshalVT[32] = <<"uint32", "biz_type">>
  /\ AppInfo_UnmarshalVT[33] = <<"string", "biz_code">>
  /\ AppInfo_UnmarshalVT[34] = <<"string", "biz_scenario">>
  /\ AppInfo_UnmarshalVT[35] = <<"string", "biz_response_code">>
BY DEF AppInfo_UnmarshalVT

\* A case of text, and of anything else.
LEMMA TextCase ==
  ASSUME NEW type, NEW f, Other(f), f # "unknown"
  PROVE  CaseFits(type, <<"string", f>>)
BY DEF CaseFits, Scalars

LEMMA ScalarCase ==
  ASSUME NEW type, NEW k \in Scalars, NEW f \in Counts \cup Flags
  PROVE  CaseFits(type, <<k, f>>)
BY DEF CaseFits, Scalars

LEMMA CasesFit ==
  ASSUME NEW type \in Types, NEW n \in DOMAIN Cases(type)
  PROVE  CaseFits(type, Cases(type)[n])
<1> USE TheOthers
<1>1. CASE type = "AppRequest"
  <2>1. Cases(type) = AppRequest_UnmarshalVT
    BY <1>1 DEF Cases
  <2>2. n \in {1, 2, 3, 4, 5}
    BY <2>1, RequestCases
  <2>3. \E f \in {"version", "type", "domain", "resource", "endpoint"} :
          Cases(type)[n] = <<"string", f>>
    BY <2>1, <2>2, RequestCases
  <2> QED BY <2>3, TextCase
<1>2. CASE type = "AppResponse"
  <2>1. Cases(type) = AppResponse_UnmarshalVT
    BY <1>2 DEF Cases
  <2>2. n \in {1, 2, 3, 4, 5, 6}
    BY <2>1, ResponseCases
  <2>3. \/ \E f \in {"exception", "result", "type", "endpoint"} :
             Cases(type)[n] = <<"string", f>>
        \/ \E f \in {"status", "code"} : Cases(type)[n] = <<"int32", f>>
    BY <2>1, <2>2, ResponseCases
  <2> QED BY <2>3, TextCase, ScalarCase DEF Scalars, Counts
<1>3. CASE type = "AppTrace"
  <2>1. Cases(type) = AppTrace_UnmarshalVT
    BY <1>3 DEF Cases
  <2>2. n \in {1, 2, 3, 4, 5, 6}
    BY <2>1, TraceCases
  <2>3. \/ \E f \in {"trace_id", "span_id", "parent_span_id", "x_request_id",
                     "http_proxy_client"} : Cases(type)[n] = <<"string", f>>
        \/ Cases(type)[n] = <<"strings", "trace_ids">>
    BY <2>1, <2>2, TraceCases
  <2>4. CaseFits(type, <<"strings", "trace_ids">>)
    BY <1>3 DEF CaseFits, Scalars
  <2> QED BY <2>3, <2>4, TextCase
<1>4. CASE type = "KeyVal"
  <2>1. Cases(type) = KeyVal_UnmarshalVT
    BY <1>4 DEF Cases
  <2>2. n \in {1, 2}
    BY <2>1, KeyValCases
  <2>3. \E f \in {"key", "val"} : Cases(type)[n] = <<"string", f>>
    BY <2>1, <2>2, KeyValCases
  <2> QED BY <2>3, TextCase
<1>5. CASE type = "AppInfo"
  <2>1. Cases(type) = AppInfo_UnmarshalVT
    BY <1>5 DEF Cases
  <2>2. n \in {1, 2, 3, 10, 11, 12, 13, 21, 22, 23, 31, 32, 33, 34, 35}
    BY <2>1, InfoCases
  <2>3. CASE n \in {13, 33, 34, 35}
    <3>1. \E f \in {"protocol_str", "biz_code", "biz_scenario", "biz_response_code"} :
            Cases(type)[n] = <<"string", f>>
      BY <2>1, <2>3, InfoCases
    <3> QED BY <3>1, TextCase
  <2>4. CASE n \in {1, 2, 3, 21, 22, 23, 32}
    <3>1. \E f \in {"req_len", "resp_len", "request_id", "is_end", "is_async",
                    "is_reversed", "biz_type"}, k \in {"uint32", "bool"} :
            Cases(type)[n] = <<k, f>>
      BY <2>1, <2>4, InfoCases
    <3> QED BY <3>1, ScalarCase DEF Scalars, Counts, Flags
  <2>5. CASE n \in {10, 11, 12, 31}
    <3>1. Cases(type)[n] \in {<<"oneof", "req">>, <<"oneof", "resp">>,
                              <<"message", "trace">>, <<"messages", "attributes">>}
      BY <2>1, <2>5, InfoCases
    <3> QED BY <1>5, <3>1 DEF CaseFits, Scalars
  <2> QED BY <2>2, <2>3, <2>4, <2>5
<1>6. CASE type = "NatsMessage"
  <2>1. Cases(type) = NatsMessage_UnmarshalVT
    BY <1>6 DEF Cases
  <2>2. n \in {1, 2, 3}
    BY <2>1, NatsCases
  <2>3. \E f \in {"subject", "reply_to", "payload"} : Cases(type)[n] = <<"string", f>>
    BY <2>1, <2>2, NatsCases
  <2> QED BY <2>3, TextCase
<1>7. CASE type = "ZmtpMessage"
  <2>1. Cases(type) = ZmtpMessage_UnmarshalVT
    BY <1>7 DEF Cases
  <2>2. n \in {1, 2}
    BY <2>1, ZmtpCases
  <2>3. \E f \in {"match_pattern", "payload"} : Cases(type)[n] = <<"string", f>>
    BY <2>1, <2>2, ZmtpCases
  <2> QED BY <2>3, TextCase
<1> QED BY <1>1, <1>2, <1>3, <1>4, <1>5, <1>6, <1>7 DEF Types

\* The names a message may have.
Names(type) == {Cases(type)[n][2] : n \in DOMAIN Cases(type)} \cup {"unknown"}

LEMMA EmptyFits ==
  ASSUME NEW type \in Types
  PROVE  Fits(type, Empty(type))
<1>1. DOMAIN Empty(type) \subseteq Names(type)
  <2>1. CASE type = "AppRequest"
    BY <2>1 DEF Empty, Names
  <2>2. CASE type = "AppResponse"
    BY <2>2 DEF Empty, Names
  <2>3. CASE type = "AppTrace"
    <3>1. Cases(type)[6][2] = "trace_ids" /\ 6 \in DOMAIN Cases(type)
      BY <2>3, TraceCases DEF Cases
    <3> QED BY <2>3, <3>1 DEF Empty, Names
  <2>4. CASE type = "KeyVal"
    <3>1. /\ Cases(type)[1][2] = "key" /\ 1 \in DOMAIN Cases(type)
          /\ Cases(type)[2][2] = "val" /\ 2 \in DOMAIN Cases(type)
      BY <2>4, KeyValCases DEF Cases
    <3> QED BY <2>4, <3>1 DEF Empty, Names
  <2>5. CASE type = "AppInfo"
    <3>1. Cases(type)[31][2] = "attributes" /\ 31 \in DOMAIN Cases(type)
      BY <2>5, InfoCases DEF Cases
    <3> QED BY <2>5, <3>1 DEF Empty, Names
  <2>6. CASE type = "NatsMessage"
    <3>1. /\ Cases(type)[1][2] = "subject" /\ 1 \in DOMAIN Cases(type)
          /\ Cases(type)[2][2] = "reply_to" /\ 2 \in DOMAIN Cases(type)
          /\ Cases(type)[3][2] = "payload" /\ 3 \in DOMAIN Cases(type)
      BY <2>6, NatsCases DEF Cases
    <3> QED BY <2>6, <3>1 DEF Empty, Names
  <2>7. CASE type = "ZmtpMessage"
    <3>1. Cases(type)[2][2] = "payload" /\ 2 \in DOMAIN Cases(type)
      BY <2>7, ZmtpCases DEF Cases
    <3> QED BY <2>7, <3>1 DEF Empty, Names
  <2> QED BY <2>1, <2>2, <2>3, <2>4, <2>5, <2>6, <2>7 DEF Types
<1>2. ~({"req", "resp"} \subseteq DOMAIN Empty(type))
  BY DEF Types, Empty
<1> QED BY <1>1, <1>2 DEF Fits, Names

------------------------------------------------------------------------------
(* A varint is a number *)

LEMMA ProductsAreNumbers == \A a, b \in Nat : a * b \in Nat
OBVIOUS

\* The groups of a varint whose bytes are there (the loop that ORs them together,
\* WasmPluginApi_vtproto.pb.go:2845-2859).
LEMMA GroupsAreNumbers ==
  ASSUME BoundsInv, NEW p \in Nat, VarintOk(p)
  PROVE  /\ LastGroup(p) \in 0..(MaxGroups - 1)
         /\ \A k \in 0..LastGroup(p) : (buf[p + k + 1] % 128) * Weight[k] \in Nat
<1> DEFINE g == LastGroup(p)
           d(k) == (buf[p + k + 1] % 128) * Weight[k]
<1>1. g \in 0..(MaxGroups - 1) /\ p + g < l
  <2>1. g \in Groups(p)
    BY DEF VarintOk, LastGroup
  <2> HIDE DEF g
  <2> QED BY <2>1 DEF Groups
<1>2. l \in Nat /\ l <= Len(buf) /\ buf \in Seq(Byte)
  <2>1. 1 \in 1..Len(ends) /\ ends[1] <= (IF 1 = 1 THEN Len(buf) ELSE ends[1 - 1])
    BY DEF BoundsInv
  <2> QED BY <2>1, Positions DEF BoundsInv
<1> HIDE DEF g
<1>3. ASSUME NEW k \in 0..g PROVE d(k) \in Nat
  <2>1. p + k + 1 \in 1..Len(buf) /\ k \in Nat
    BY <1>1, <1>2, WordsAssumption
  <2>2. buf[p + k + 1] \in Nat
    BY <1>2, <2>1 DEF Byte
  <2>3. buf[p + k + 1] % 128 \in Nat
    BY <2>2
  <2>4. Weight[k] \in Nat
    BY <2>1, WeightDef
  <2> QED BY <2>3, <2>4, ProductsAreNumbers
<1> QED BY <1>1, <1>3 DEF g, d

\* What the loop makes of them: w[k] is what the groups from the kth on give.
LEMMA VarintValue ==
  ASSUME BoundsInv, NEW p \in Nat, VarintOk(p)
  PROVE  \E w : /\ Varint(p) = w[0] % Word64
                /\ \A k \in 0..MaxGroups :
                     w[k] = IF k > LastGroup(p) THEN 0
                            ELSE (buf[p + k + 1] % 128) * Weight[k] + w[k + 1]
<1> DEFINE g == LastGroup(p)
           d(k) == (buf[p + k + 1] % 128) * Weight[k]
           D(v) == v = [k \in 0..MaxGroups |-> IF k > g THEN 0 ELSE d(k) + v[k + 1]]
           h == [n \in Nat |-> [x \in Nat |->
                   IF MaxGroups - (n + 1) \in 0..g THEN d(MaxGroups - (n + 1)) + x ELSE 0]]
<1>1. g \in 0..(MaxGroups - 1)
  BY GroupsAreNumbers
<1>3. ASSUME NEW k \in 0..g PROVE d(k) \in Nat
  BY GroupsAreNumbers
<1> HIDE DEF g
<1> HIDE DEF d
<1>4. h \in [Nat -> [Nat -> Nat]]
  <2>1. ASSUME NEW n \in Nat, NEW x \in Nat
        PROVE  (IF MaxGroups - (n + 1) \in 0..g
                THEN d(MaxGroups - (n + 1)) + x ELSE 0) \in Nat
    BY <1>3
  <2> QED BY <2>1
<1>5. PICK r \in [Nat -> Nat] : Iterates(r, 0, h)
  <2>1. 0 \in Nat
    OBVIOUS
  <2> HIDE DEF h
  <2> QED BY <1>4, <2>1, RecursionOnNat, Zenon
<1>6. r[0] = 0 /\ \A n \in Nat :
        r[n + 1] = IF MaxGroups - (n + 1) \in 0..g
                   THEN d(MaxGroups - (n + 1)) + r[n] ELSE 0
  <2>1. r[0] = 0 /\ \A n \in Nat : r[n + 1] = h[n][r[n]]
    <3> HIDE DEF h
    <3> QED BY <1>5 DEF Iterates
  <2>2. \A n \in Nat : r[n] \in Nat
    BY <1>5
  <2> QED BY <2>1, <2>2
<1> HIDE DEF h
<1> DEFINE v == [k \in 0..MaxGroups |-> r[MaxGroups - k]]
<1>7. D(v)
  <2>1. ASSUME NEW k \in 0..MaxGroups
        PROVE  v[k] = IF k > g THEN 0 ELSE d(k) + v[k + 1]
    <3>1. CASE k = MaxGroups
      <4>1. v[k] = 0 /\ k > g
        BY <1>1, <1>6, <3>1, WordsAssumption
      <4> QED BY <4>1
    <3>2. CASE k # MaxGroups
      <4> DEFINE n == MaxGroups - (k + 1)
      <4>1. /\ n \in Nat /\ MaxGroups - (n + 1) = k /\ n + 1 = MaxGroups - k
            /\ k + 1 \in 0..MaxGroups
        BY <3>2, WordsAssumption
      <4>2. v[k] = r[n + 1] /\ v[k + 1] = r[n]
        BY <4>1
      <4>3. r[n + 1] = IF k \in 0..g THEN d(k) + r[n] ELSE 0
        BY <1>6, <4>1
      <4>4. k \in 0..g <=> ~(k > g)
        BY <1>1, WordsAssumption
      <4> QED BY <4>2, <4>3, <4>4
    <3> QED BY <3>1, <3>2
  <2> QED BY <2>1
<1> HIDE DEF v
<1> DEFINE w == CHOOSE e : D(e)
<1>8. D(w)
  <2> HIDE DEF D
  <2> QED BY <1>7
<1>9. Varint(p) = w[0] % Word64
  BY DEF Varint, g, d
<1> HIDE DEF w
<1>10. ASSUME NEW k \in 0..MaxGroups
       PROVE  w[k] = IF k > g THEN 0 ELSE d(k) + w[k + 1]
  BY <1>8
<1> QED BY <1>9, <1>10 DEF g, d

LEMMA VarintIsNumber ==
  ASSUME BoundsInv, NEW p \in Nat, VarintOk(p)
  PROVE  Varint(p) \in Nat
<1> DEFINE g == LastGroup(p)
           d(k) == (buf[p + k + 1] % 128) * Weight[k]
<1>1. g \in 0..(MaxGroups - 1)
  BY GroupsAreNumbers
<1>3. ASSUME NEW k \in 0..g PROVE d(k) \in Nat
  BY GroupsAreNumbers
<1>8. PICK w : /\ Varint(p) = w[0] % Word64
               /\ \A k \in 0..MaxGroups : w[k] = IF k > g THEN 0 ELSE d(k) + w[k + 1]
  BY VarintValue
<1> HIDE DEF g, d
<1> DEFINE T == {n \in 0..MaxGroups : w[MaxGroups - n] \in Nat}
<1>10. ASSUME NEW k \in 0..MaxGroups
       PROVE  w[k] = IF k > g THEN 0 ELSE d(k) + w[k + 1]
  BY <1>8
<1>11. MaxGroups \in Nat /\ MaxGroups \in 0..MaxGroups
  BY WordsAssumption
<1>12. 0 \in T
  <2>1. MaxGroups - 0 = MaxGroups /\ MaxGroups > g /\ 0 \in 0..MaxGroups
    BY <1>1, <1>11
  <2>2. w[MaxGroups] = 0
    BY <1>10, <1>11, <2>1
  <2> QED BY <2>1, <2>2
<1>13. ASSUME NEW n \in 0..(MaxGroups - 1), n \in T PROVE n + 1 \in T
  <2> DEFINE k == MaxGroups - (n + 1)
  <2>1. k \in 0..MaxGroups /\ k + 1 = MaxGroups - n /\ n + 1 \in 0..MaxGroups
    BY <1>11
  <2>2. w[k + 1] \in Nat
    BY <1>13, <2>1
  <2>3. w[k] = IF k > g THEN 0 ELSE d(k) + w[k + 1]
    BY <1>10, <2>1
  <2>4. ~(k > g) => d(k) \in Nat
    BY <1>1, <1>3, <2>1, WordsAssumption
  <2>5. w[k] \in Nat
    <3> HIDE DEF k
    <3> QED BY <2>2, <2>3, <2>4
  <2> QED BY <2>1, <2>5
<1>14. \A n \in 0..MaxGroups : n \in T
  <2> HIDE DEF T
  <2> QED BY <1>11, <1>12, <1>13, BoundedInduction
<1>15. w[0] \in Nat
  <2>1. MaxGroups \in T /\ MaxGroups - MaxGroups = 0
    <3> HIDE DEF T
    <3> QED BY <1>11, <1>14
  <2> QED BY <2>1
<1> QED BY <1>8, <1>15, WordsAssumption

------------------------------------------------------------------------------
(* Reading what was written *)

\* The bytes s are n in groups of seven bits, q[i] being what is left of n
\* behind i of them; the last byte alone is below 128.
IsGroups(s, n, q) ==
  /\ q[0] = n /\ q[Len(s)] = 0
  /\ \A i \in 0..Len(s) - 1 :
       /\ q[i] = (s[i + 1] % 128) + 128 * q[i + 1]
       /\ s[i + 1] >= 128 <=> i < Len(s) - 1

LEMMA VarintGroups ==
  ASSUME NEW n \in Nat
  PROVE  /\ VarintBytes[n] \in Seq(Byte) /\ VarintBytes[n] # <<>>
         /\ \E q \in [0..Len(VarintBytes[n]) -> Nat] : IsGroups(VarintBytes[n], n, q)
<1> DEFINE Ok(i) == \E q \in [0..Len(VarintBytes[i]) -> Nat] :
                       VarintBytes[i] # <<>> /\ IsGroups(VarintBytes[i], i, q)
           T == {m \in Nat : \A i \in Nat : i < m => Ok(i)}
<1>1. ASSUME NEW i \in Nat, i < 128 PROVE Ok(i)
  <2> DEFINE q == [k \in 0..1 |-> IF k = 0 THEN i ELSE 0]
  <2>1. VarintBytes[i] = <<i>>
    BY <1>1, VarintBytesStep, Zenon
  <2>2. q \in [0..1 -> Nat] /\ q[0] = i /\ q[1] = 0
    OBVIOUS
  <2>3. Len(<<i>>) = 1 /\ <<i>>[1] = i /\ <<i>> # <<>> /\ i % 128 = i
    BY <1>1
  <2> HIDE DEF q
  <2>4. IsGroups(<<i>>, i, q)
    BY <1>1, <2>2, <2>3 DEF IsGroups
  <2> QED BY <2>1, <2>2, <2>3, <2>4
<1>2. ASSUME NEW i \in Nat, i >= 128, Ok(i \div 128) PROVE Ok(i)
  <2> DEFINE j == i \div 128
             s == VarintBytes[j]
             b == (i % 128) + 128
             t == <<b>> \o s
  <2>1. j \in Nat /\ b \in Byte /\ b >= 128 /\ i = (b % 128) + 128 * j
    BY <1>2 DEF Byte
  <2>2. s \in Seq(Byte) /\ VarintBytes[i] = t
    BY <1>2, <2>1, VarintBytesStep, ZenonT(40)
  <2>3. PICK r \in [0..Len(s) -> Nat] : s # <<>> /\ IsGroups(s, j, r)
    BY <1>2
  <2> HIDE DEF j, s, b
  <2>4. /\ t \in Seq(Byte) /\ Len(t) = Len(s) + 1 /\ Len(s) \in Nat
        /\ Len(s) >= 1 /\ t[1] = b /\ \A k \in 1..Len(s) : t[k + 1] = s[k]
    BY <2>1, <2>2, <2>3
  <2> HIDE DEF t
  <2> DEFINE q == [k \in 0..Len(t) |-> IF k = 0 THEN i ELSE r[k - 1]]
  <2>5. q \in [0..Len(t) -> Nat]
    <3>1. \A k \in 0..Len(t) : k # 0 => k - 1 \in 0..Len(s)
      BY <2>4
    <3> QED BY <3>1
  <2>6. /\ q[0] = i
        /\ \A k \in 0..Len(s) : q[k + 1] = r[k]
    BY <2>4
  <2> HIDE DEF q
  <2>7. q[Len(t)] = 0
    BY <2>3, <2>4, <2>6 DEF IsGroups
  <2>8. ASSUME NEW k \in 0..Len(t) - 1
        PROVE  /\ q[k] = (t[k + 1] % 128) + 128 * q[k + 1]
               /\ t[k + 1] >= 128 <=> k < Len(t) - 1
    <3>1. CASE k = 0
      <4>1. q[1] = j
        BY <2>3, <2>4, <2>6 DEF IsGroups
      <4> QED BY <2>1, <2>4, <2>6, <3>1, <4>1
    <3>2. CASE k # 0
      <4> DEFINE h == k - 1
      <4>1. h \in 0..Len(s) - 1 /\ h + 1 = k /\ h \in 0..Len(s) /\ k \in 0..Len(s)
        BY <2>4, <3>2
      <4>2. q[k] = r[h] /\ q[k + 1] = r[k] /\ t[k + 1] = s[k]
        BY <2>4, <2>6, <4>1
      <4>3. /\ r[h] = (s[h + 1] % 128) + 128 * r[h + 1]
            /\ s[h + 1] >= 128 <=> h < Len(s) - 1
        BY <2>3, <4>1 DEF IsGroups
      <4>4. h < Len(s) - 1 <=> k < Len(t) - 1
        BY <2>4, <4>1
      <4> QED BY <4>1, <4>2, <4>3, <4>4
    <3> QED BY <3>1, <3>2
  <2>9. IsGroups(t, i, q)
    BY <2>6, <2>7, <2>8 DEF IsGroups
  <2>10. t # <<>>
    BY <2>4
  <2> QED BY <2>2, <2>5, <2>9, <2>10
<1> HIDE DEF Ok
<1>3. ASSUME NEW m \in Nat, m \in T PROVE m + 1 \in T
  <2>1. ASSUME NEW i \in Nat, i < m + 1 PROVE Ok(i)
    <3>1. CASE i < 128
      BY <1>1, <3>1
    <3>2. CASE i >= 128
      <4>1. i \div 128 \in Nat /\ i \div 128 < m
        BY <2>1, <3>2
      <4> QED BY <1>2, <1>3, <3>2, <4>1
    <3> QED BY <3>1, <3>2
  <2> QED BY <2>1
<1>4. \A m \in Nat : m \in T
  <2>1. 0 \in T
    OBVIOUS
  <2> HIDE DEF T
  <2> QED BY <1>3, <2>1, NaturalInduction
<1>5. Ok(n)
  <2>1. n + 1 \in Nat /\ n < n + 1
    OBVIOUS
  <2>2. n + 1 \in T
    <3> HIDE DEF T
    <3> QED BY <1>4, <2>1
  <2> QED BY <2>1, <2>2
<1> QED BY <1>5, VarintBytesStep DEF Ok

LEMMA Weighed ==
  ASSUME NEW W \in Nat, NEW x \in Nat, NEW y \in Nat
  PROVE  x * W + (128 * W) * y = W * (x + 128 * y)
OBVIOUS

\* The loop that reads a varint (WasmPluginApi_vtproto.pb.go:2845-2859) gives what
\* protohelpers.EncodeVarint wrote there and goes on behind it; where the varint
\* is cut it gives an error, never another number.
THEOREM VarintsAreReadBack ==
  ASSUME BoundsInv, NEW v \in Int, NEW p \in Nat, StandsAt(buf, p, EncodeVarint(v))
  PROVE  /\ p + SizeOfVarint(v) <= l =>
              /\ VarintOk(p) /\ After(p) = p + SizeOfVarint(v)
              /\ Varint(p) = v % Word64
         /\ p + SizeOfVarint(v) > l => ~VarintOk(p)
<1> DEFINE n == v % Word64
           s == EncodeVarint(v)
           L == SizeOfVarint(v)
<1>1. n \in Nat /\ n % Word64 = n
  BY WordsAssumption
<1>2. s = VarintBytes[n]
  BY DEF EncodeVarint
<1>3. s \in Seq(Byte) /\ Len(s) = L /\ L \in 1..MaxGroups
  BY SizeOfVarintIsExact DEF Sized
<1> HIDE DEF n, s, L
<1>4. PICK q \in [0..L -> Nat] : IsGroups(s, n, q)
  BY <1>1, <1>2, <1>3, VarintGroups
<1>5. l \in Nat /\ l <= Len(buf) /\ Len(buf) \in Nat /\ buf \in Seq(Byte)
  <2>1. 1 \in 1..Len(ends) /\ ends[1] <= (IF 1 = 1 THEN Len(buf) ELSE ends[1 - 1])
    BY DEF BoundsInv
  <2> QED BY <2>1, Positions DEF BoundsInv
<1>6. MaxGroups \in Nat /\ L \in Nat \ {0}
  BY <1>3, WordsAssumption
<1>7. ASSUME NEW k \in 0..L - 1, p + k < l
      PROVE  /\ buf[p + k + 1] = s[k + 1]
             /\ buf[p + k + 1] >= 128 <=> k < L - 1
             /\ buf[p + k + 1] \in Nat
  <2>1. k + 1 \in 1..Len(s) /\ p + (k + 1) <= Len(buf) /\ p + (k + 1) = p + k + 1
    BY <1>3, <1>5, <1>6, <1>7
  <2>2. buf[p + k + 1] = s[k + 1]
    <3>1. StandsAt(buf, p, s)
      BY DEF s
    <3> QED BY <2>1, <3>1 DEF StandsAt
  <2>3. s[k + 1] >= 128 <=> k < L - 1
    <3>1. \A i \in 0..L - 1 : s[i + 1] >= 128 <=> i < L - 1
      BY <1>3, <1>4 DEF IsGroups
    <3> QED BY <3>1
  <2>4. s[k + 1] \in Nat
    <3>1. s[k + 1] \in Byte
      BY <1>3, <2>1
    <3> QED BY <3>1 DEF Byte
  <2> QED BY <2>2, <2>3, <2>4
\* A group that ends is the last one.
<1>8. ASSUME NEW g \in Groups(p) PROVE g = L - 1 /\ p + L <= l
  <2>1. /\ g \in 0..MaxGroups - 1 /\ p + g < l /\ buf[p + g + 1] < 128
        /\ \A j \in 0..g - 1 : buf[p + j + 1] >= 128
    BY <1>8 DEF Groups
  <2>2. ~(g < L - 1)
    BY <1>6, <1>7, <2>1
  <2>3. ~(g > L - 1)
    <3> SUFFICES ASSUME g > L - 1 PROVE FALSE
      OBVIOUS
    <3>1. L - 1 \in 0..g - 1 /\ L - 1 \in 0..L - 1 /\ p + (L - 1) < l
      BY <1>5, <1>6, <2>1
    <3>2. buf[p + (L - 1) + 1] >= 128
      BY <2>1, <3>1
    <3>3. buf[p + (L - 1) + 1] >= 128 <=> L - 1 < L - 1
      BY <1>7, <3>1
    <3> QED BY <1>6, <3>2, <3>3
  <2> QED BY <1>5, <1>6, <2>1, <2>2, <2>3
<1>9. ASSUME p + L > l PROVE ~VarintOk(p)
  BY <1>5, <1>6, <1>8, <1>9 DEF VarintOk
<1>10. ASSUME p + L <= l
       PROVE  VarintOk(p) /\ After(p) = p + L /\ Varint(p) = n
  <2>1. \A k \in 0..L - 1 : p + k < l
    BY <1>5, <1>6, <1>10
  <2>2. L - 1 \in Groups(p)
    <3>1. L - 1 \in 0..MaxGroups - 1 /\ L - 1 \in 0..L - 1
      BY <1>3, <1>6
    <3>2. buf[p + (L - 1) + 1] < 128
      BY <1>7, <2>1, <3>1
    <3>3. \A j \in 0..(L - 1) - 1 : buf[p + j + 1] >= 128
      BY <1>6, <1>7, <2>1
    <3> QED BY <2>1, <3>1, <3>2, <3>3 DEF Groups
  <2>3. VarintOk(p)
    BY <2>2 DEF VarintOk
  <2>4. LastGroup(p) = L - 1
    <3>1. LastGroup(p) \in Groups(p)
      BY <2>2 DEF LastGroup
    <3> QED BY <1>8, <3>1
  <2>5. After(p) = p + L
    BY <1>6, <2>4 DEF After
  <2>6. PICK w : /\ Varint(p) = w[0] % Word64
                 /\ \A k \in 0..MaxGroups :
                      w[k] = IF k > L - 1 THEN 0
                             ELSE (buf[p + k + 1] % 128) * Weight[k] + w[k + 1]
    BY <2>3, <2>4, VarintValue
  <2> DEFINE T == {i \in 0..L : w[L - i] = Weight[L - i] * q[L - i]}
  <2>7. 0 \in T
    <3>1. L \in 0..MaxGroups /\ L - 0 = L /\ L > L - 1 /\ 0 \in 0..L
      BY <1>3, <1>6
    <3>2. w[L] = 0 /\ q[L] = 0
      BY <1>3, <1>4, <2>6, <3>1 DEF IsGroups
    <3>3. Weight[L] \in Nat
      BY <1>6, WeightDef
    <3> QED BY <3>1, <3>2, <3>3
  <2>8. ASSUME NEW i \in 0..(L - 1), i \in T PROVE i + 1 \in T
    <3> DEFINE k == L - (i + 1)
    <3>1. /\ k \in 0..L - 1 /\ k + 1 = L - i /\ i + 1 \in 0..L /\ k \in Nat
          /\ k \in 0..MaxGroups /\ ~(k > L - 1) /\ k + 1 \in 0..L
      BY <1>3, <1>6
    <3>2. w[k + 1] = Weight[k + 1] * q[k + 1]
      BY <2>8, <3>1
    <3> HIDE DEF k
    <3>3. w[k] = (buf[p + k + 1] % 128) * Weight[k] + w[k + 1]
      BY <2>6, <3>1
    <3>4. /\ buf[p + k + 1] = s[k + 1] /\ s[k + 1] % 128 \in Nat
      BY <1>7, <2>1, <3>1
    <3>5. q[k] = (s[k + 1] % 128) + 128 * q[k + 1]
      BY <1>3, <1>4, <3>1 DEF IsGroups
    <3>6. Weight[k] \in Nat /\ Weight[k + 1] = 128 * Weight[k]
      BY <3>1, WeightDef
    <3>7. q[k + 1] \in Nat
      BY <1>4, <3>1
    <3>8. (s[k + 1] % 128) * Weight[k] + (128 * Weight[k]) * q[k + 1]
            = Weight[k] * ((s[k + 1] % 128) + 128 * q[k + 1])
      BY <3>4, <3>6, <3>7, Weighed
    <3>9. w[k] = Weight[k] * q[k]
      <4>1. w[k] = (s[k + 1] % 128) * Weight[k] + (128 * Weight[k]) * q[k + 1]
        BY <3>2, <3>3, <3>4, <3>6, Zenon
      <4> QED BY <3>5, <3>8, <4>1, Zenon
    <3> QED BY <3>1, <3>9 DEF k
  <2>9. \A i \in 0..L : i \in T
    <3> HIDE DEF T
    <3> QED BY <1>6, <2>7, <2>8, BoundedInduction
  <2>10. w[0] = n
    <3>1. L \in T /\ L - L = 0
      <4> HIDE DEF T
      <4> QED BY <1>6, <2>9
    <3>2. w[0] = Weight[0] * q[0] /\ q[0] = n /\ Weight[0] = 1
      BY <1>4, <3>1, WeightDef DEF IsGroups
    <3> QED BY <1>1, <3>2
  <2> QED BY <1>1, <2>3, <2>5, <2>6, <2>10
<1> QED BY <1>9, <1>10 DEF n, L

------------------------------------------------------------------------------
(* Sequences of whatever they hold *)

IsSequence(s) == s \in Seq(Range(s))

\* Elements of any set at all.
LEMMA SeqsAre ==
  ASSUME NEW S, NEW s \in Seq(S)
  PROVE  IsSequence(s)
<1>1. s \in [1..Len(s) -> Range(s)] /\ Len(s) \in Nat
  BY DEF Range
<1> QED BY <1>1 DEF IsSequence

LEMMA AppendIsSequence ==
  ASSUME NEW s, IsSequence(s), NEW x
  PROVE  /\ IsSequence(Append(s, x)) /\ Len(Append(s, x)) = Len(s) + 1
         /\ DOMAIN s = 1..Len(s) /\ Len(s) \in Nat
         /\ DOMAIN Append(s, x) = 1..(Len(s) + 1)
         /\ \A k \in 1..Len(s) : Append(s, x)[k] = s[k]
         /\ Append(s, x)[Len(s) + 1] = x
<1> DEFINE S == Range(s) \cup {x}
<1>1. s \in Seq(Range(s))
  BY DEF IsSequence
<1>2. s \in [1..Len(s) -> Range(s)] /\ Len(s) \in Nat
  BY <1>1
<1>3. s \in Seq(S)
  BY <1>2
<1> HIDE DEF S
<1>4. x \in S
  BY DEF S
<1>5. /\ Append(s, x) \in Seq(S) /\ Len(Append(s, x)) = Len(s) + 1
      /\ \A k \in 1..Len(s) : Append(s, x)[k] = s[k]
      /\ Append(s, x)[Len(s) + 1] = x
  BY <1>3, <1>4, AppendProperties
<1>6. DOMAIN Append(s, x) = 1..(Len(s) + 1) /\ DOMAIN s = 1..Len(s)
  BY <1>2, <1>3, <1>5
<1>7. IsSequence(Append(s, x))
  BY <1>5, SeqsAre
<1> QED BY <1>2, <1>5, <1>6, <1>7

LEMMA AppendKeeps ==
  ASSUME NEW s, IsSequence(s), NEW x, NEW k \in 1..Len(s)
  PROVE  Append(s, x)[k] = s[k]
BY AppendIsSequence

LEMMA AppendAdds ==
  ASSUME NEW s, IsSequence(s), NEW x
  PROVE  Append(s, x)[Len(s) + 1] = x
BY AppendIsSequence

LEMMA FrontIsSequence ==
  ASSUME NEW s, IsSequence(s)
  PROVE  /\ IsSequence(Front(s))
         /\ \A k \in DOMAIN Front(s) : k \in DOMAIN s /\ Front(s)[k] = s[k]
<1>1. s \in Seq(Range(s))
  BY DEF IsSequence
<1>2. /\ Front(s) \in Seq(Range(s))
      /\ \A k \in DOMAIN Front(s) : k \in DOMAIN s /\ Front(s)[k] = s[k]
  BY <1>1 DEF Front
<1> QED BY <1>2, SeqsAre

------------------------------------------------------------------------------
(* What a decoded message holds.  A text is one of C, and what is copied   *)
(* whatever the decoder is, of bytes.                                      *)

IsAFunction(m) == m = [f \in DOMAIN m |-> m[f]]

TextGood(C, m) ==
  /\ IsAFunction(m)
  /\ \A f \in DOMAIN m : Other(f) => m[f] \in Seq(C)
  /\ "trace_ids" \in DOMAIN m => m.trace_ids \in Seq(Seq(C))
  /\ "unknown" \in DOMAIN m => m.unknown \in Seq(Byte)

GoodFlat(C, type, m) == Fits(type, m) /\ TextGood(C, m)

Inner == {"req", "resp", "trace"}

Good(C, type, m) ==
  /\ GoodFlat(C, type, m)
  /\ type = "AppInfo" =>
       /\ \A f \in Inner \cap DOMAIN m : GoodFlat(C, TypeOf[f], m[f])
       /\ IsSequence(m.attributes)
       /\ \A k \in DOMAIN m.attributes : GoodFlat(C, "KeyVal", m.attributes[k])

\* p is m with v in its field f.
IsPut(p, m, f, v) ==
  /\ IsAFunction(p)
  /\ DOMAIN p = DOMAIN m \cup {f}
  /\ p[f] = v
  /\ \A g \in DOMAIN m : g # f => p[g] = m[g]

LEMMA PutSays ==
  ASSUME NEW m, NEW f, NEW v
  PROVE  IsPut(Put(m, f, v), m, f, v)
BY DEF Put, IsPut, IsAFunction

LEMMA NamesAreKinds ==
  /\ \A f \in Nested : ~Other(f) /\ f # "trace_ids" /\ f # "unknown"
  /\ \A f \in Counts \cup Flags : ~Other(f) /\ f # "trace_ids" /\ f # "unknown" /\ f \notin Nested
  /\ ~Other("trace_ids") /\ "trace_ids" \notin Nested
  /\ Other("unknown") /\ "unknown" \notin Nested
  /\ \A f : Other(f) => f \notin Nested
BY DEF Other, Nested, Counts, Flags

LEMMA AlwaysUnknown ==
  ASSUME NEW type \in Types, NEW m, Fits(type, m)
  PROVE  "unknown" \in DOMAIN m
BY AlwaysThere DEF Fits

\* A text, a list of texts, a number or a flag is set.
LEMMA PutFlat ==
  ASSUME NEW C, NEW type \in Types, NEW m, GoodFlat(C, type, m),
         NEW f \in Names(type), f \notin Nested, f # "unknown", NEW v,
         Other(f) => v \in Seq(C), f = "trace_ids" => v \in Seq(Seq(C))
  PROVE  GoodFlat(C, type, Put(m, f, v))
<1> DEFINE p == Put(m, f, v)
<1>0. IsPut(p, m, f, v)
  BY PutSays, Zenon
<1> HIDE DEF p
<1>1. /\ DOMAIN p = DOMAIN m \cup {f} /\ p[f] = v
      /\ \A g \in DOMAIN m : g # f => p[g] = m[g]
      /\ IsAFunction(p)
  BY <1>0 DEF IsPut
<1> HIDE DEF p
<1>2. Fits(type, p)
  <2>1. f \notin {"req", "resp"}
    BY DEF Nested
  <2>2. Fits(type, m)
    BY DEF GoodFlat
  <2> QED BY <1>1, <2>1, <2>2 DEF Fits, Names
<1>3. TextGood(C, p)
  <2>1. TextGood(C, m)
    BY DEF GoodFlat
  <2>2. ASSUME NEW g \in DOMAIN p, Other(g) PROVE p[g] \in Seq(C)
    BY <1>1, <2>1, <2>2 DEF TextGood
  <2>3. "trace_ids" \in DOMAIN p => p["trace_ids"] \in Seq(Seq(C))
    BY <1>1, <2>1 DEF TextGood
  <2>4. "unknown" \in DOMAIN p => p["unknown"] \in Seq(Byte)
    BY <1>1, <2>1 DEF TextGood
  <2> QED BY <1>1, <2>2, <2>3, <2>4 DEF TextGood
<1> QED BY <1>2, <1>3 DEF GoodFlat, p

LEMMA AlwaysAttributes ==
  ASSUME NEW m, Fits("AppInfo", m)
  PROVE  "attributes" \in DOMAIN m
BY AlwaysThere DEF Fits

LEMMA PutGood ==
  ASSUME NEW C, NEW type \in Types, NEW m, Good(C, type, m),
         NEW f \in Names(type), f \notin Nested, f # "unknown", NEW v,
         Other(f) => v \in Seq(C), f = "trace_ids" => v \in Seq(Seq(C))
  PROVE  Good(C, type, Put(m, f, v))
<1> DEFINE p == Put(m, f, v)
<1>0. IsPut(p, m, f, v)
  BY PutSays, Zenon
<1>1. /\ DOMAIN p = DOMAIN m \cup {f}
      /\ \A g \in DOMAIN m : g # f => p[g] = m[g]
  <2> HIDE DEF p
  <2> QED BY <1>0 DEF IsPut
<1>2. GoodFlat(C, type, p)
  BY PutFlat DEF Good
<1> HIDE DEF p
<1>3. ASSUME type = "AppInfo"
      PROVE  /\ \A g \in Inner \cap DOMAIN p : GoodFlat(C, TypeOf[g], p[g])
             /\ IsSequence(p.attributes)
             /\ \A k \in DOMAIN p.attributes : GoodFlat(C, "KeyVal", p.attributes[k])
  <2>1. "attributes" \in DOMAIN m
    BY <1>3, AlwaysAttributes DEF Good, GoodFlat
  <2>2. p["attributes"] = m["attributes"]
    BY <1>1, <2>1 DEF Nested
  <2>3. \A g \in Inner \cap DOMAIN p : g \in DOMAIN m /\ p[g] = m[g]
    BY <1>1 DEF Nested, Inner
  <2> QED BY <1>3, <2>2, <2>3 DEF Good
<1> QED BY <1>2, <1>3 DEF Good, p

\* An unknown field is kept.
LEMMA KeepFlat ==
  ASSUME NEW C, NEW type \in Types, NEW m, GoodFlat(C, type, m),
         NEW s \in Seq(Byte), Byte \subseteq C
  PROVE  GoodFlat(C, type, [m EXCEPT !.unknown = @ \o s])
<1> DEFINE p == [m EXCEPT !.unknown = @ \o s]
<1>1. "unknown" \in DOMAIN m /\ m.unknown \in Seq(Byte)
  BY AlwaysUnknown DEF GoodFlat, TextGood
<1>2. DOMAIN p = DOMAIN m /\ p.unknown = m.unknown \o s /\ IsAFunction(p)
  BY <1>1 DEF IsAFunction
<1>3. \A g \in DOMAIN m : g # "unknown" => p[g] = m[g]
  OBVIOUS
<1>4. p.unknown \in Seq(Byte) /\ p.unknown \in Seq(C)
  <2>1. m.unknown \o s \in Seq(Byte)
    BY <1>1
  <2>2. \A t \in Seq(Byte) : t \in Seq(C)
    OBVIOUS
  <2> HIDE DEF p
  <2> QED BY <1>2, <2>1, <2>2
<1> HIDE DEF p
<1>5. Fits(type, p)
  BY <1>2 DEF Fits, GoodFlat
<1>6. TextGood(C, p)
  <2>1. TextGood(C, m)
    BY DEF GoodFlat
  <2>2. ASSUME NEW g \in DOMAIN p, Other(g) PROVE p[g] \in Seq(C)
    BY <1>2, <1>3, <1>4, <2>1, <2>2 DEF TextGood
  <2>3. "trace_ids" \in DOMAIN p => p["trace_ids"] \in Seq(Seq(C))
    BY <1>2, <1>3, <2>1 DEF TextGood
  <2> QED BY <1>2, <1>4, <2>2, <2>3 DEF TextGood
<1> QED BY <1>5, <1>6 DEF GoodFlat, p

LEMMA KeepGood ==
  ASSUME NEW C, NEW type \in Types, NEW m, Good(C, type, m),
         NEW s \in Seq(Byte), Byte \subseteq C
  PROVE  Good(C, type, [m EXCEPT !.unknown = @ \o s])
<1> DEFINE p == [m EXCEPT !.unknown = @ \o s]
<1>1. DOMAIN p = DOMAIN m /\ \A g \in DOMAIN m : g # "unknown" => p[g] = m[g]
  OBVIOUS
<1>2. GoodFlat(C, type, p)
  BY KeepFlat DEF Good
<1> HIDE DEF p
<1>3. ASSUME type = "AppInfo"
      PROVE  /\ \A g \in Inner \cap DOMAIN p : GoodFlat(C, TypeOf[g], p[g])
             /\ IsSequence(p.attributes)
             /\ \A k \in DOMAIN p.attributes : GoodFlat(C, "KeyVal", p.attributes[k])
  <2>1. "attributes" \in DOMAIN m
    BY <1>3, AlwaysAttributes DEF Good, GoodFlat
  <2>2. p["attributes"] = m["attributes"]
    BY <1>1, <2>1
  <2>3. \A g \in Inner \cap DOMAIN p : g \in DOMAIN m /\ p[g] = m[g]
    BY <1>1 DEF Inner
  <2> QED BY <1>3, <2>2, <2>3 DEF Good
<1> QED BY <1>2, <1>3 DEF Good, p

LEMMA EmptyGood ==
  ASSUME NEW C, NEW type \in Types
  PROVE  Good(C, type, Empty(type))
<1>1. Fits(type, Empty(type))
  BY EmptyFits
<1>2. \A f \in DOMAIN Empty(type) : Empty(type)[f] = <<>>
  BY DEF Types, Empty
<1>3. \A f \in Inner : f \notin DOMAIN Empty(type)
  BY DEF Types, Empty, Inner
<1>4. "attributes" \in DOMAIN Empty("AppInfo")
  BY AlwaysThere
<1> DEFINE m == Empty(type)
<1> HIDE DEF m
<1>5. <<>> \in Seq(C) /\ <<>> \in Seq(Seq(C)) /\ <<>> \in Seq(Byte)
  OBVIOUS
<1>6. TextGood(C, m)
  <2>1. IsAFunction(m)
    BY DEF m, Types, Empty, IsAFunction
  <2> QED BY <1>2, <1>5, <2>1 DEF TextGood, m
<1>7. IsSequence(<<>>) /\ DOMAIN <<>> = {}
  <2>1. IsSequence(<<>>)
    BY <1>5, SeqsAre, Zenon
  <2>2. DOMAIN <<>> = {}
    OBVIOUS
  <2> QED BY <2>1, <2>2
<1>8. type = "AppInfo" => m.attributes = <<>>
  BY <1>2, <1>4 DEF m
<1> QED BY <1>1, <1>3, <1>6, <1>7, <1>8 DEF Good, GoodFlat, m

LEMMA InnerTypes ==
  /\ \A f \in Nested : TypeOf[f] \in Types /\ TypeOf[f] # "AppInfo"
  /\ TypeOf["attributes"] = "KeyVal"
  /\ Inner \subseteq Nested /\ Nested = Inner \cup {"attributes"} /\ "attributes" \notin Inner
  /\ "AppInfo" \in Types /\ "KeyVal" \in Types
BY DEF Nested, TypeOf, Types, Inner

\* A decoded message goes into its field; another case of the oneof leaves.
LEMMA AttachGood ==
  ASSUME NEW C, NEW m, Good(C, "AppInfo", m), NEW f \in Nested, f \in Names("AppInfo"),
         NEW child, GoodFlat(C, TypeOf[f], child)
  PROVE  Good(C, "AppInfo", Attach(m, f, child))
<1> DEFINE p == Attach(m, f, child)
<1>0. /\ Fits("AppInfo", m) /\ TextGood(C, m)
      /\ "attributes" \in DOMAIN m /\ "unknown" \in DOMAIN m
      /\ IsSequence(m.attributes)
      /\ \A k \in DOMAIN m.attributes : GoodFlat(C, "KeyVal", m.attributes[k])
      /\ \A g \in Inner \cap DOMAIN m : GoodFlat(C, TypeOf[g], m[g])
  BY AlwaysAttributes, AlwaysUnknown, InnerTypes DEF Good, GoodFlat
<1>1. CASE f = "attributes"
  <2> DEFINE a == Append(Front(m.attributes), child)
  <2>1. p = [m EXCEPT !.attributes = a]
    BY <1>1 DEF Attach
  <2>2. /\ DOMAIN p = DOMAIN m /\ p["attributes"] = a
        /\ \A g \in DOMAIN m : g # "attributes" => p[g] = m[g]
        /\ IsAFunction(p)
    BY <1>0, <2>1 DEF IsAFunction
  <2>3. IsSequence(a) /\ \A k \in DOMAIN a : GoodFlat(C, "KeyVal", a[k])
    <3> DEFINE s == Front(m.attributes)
    <3>1. IsSequence(s) /\ \A k \in DOMAIN s : GoodFlat(C, "KeyVal", s[k])
      BY <1>0, FrontIsSequence
    <3>2. GoodFlat(C, "KeyVal", child)
      BY <1>1, InnerTypes
    <3> HIDE DEF s
    <3>3. /\ IsSequence(Append(s, child)) /\ DOMAIN s = 1..Len(s) /\ Len(s) \in Nat
          /\ DOMAIN Append(s, child) = 1..(Len(s) + 1)
          /\ \A k \in 1..Len(s) : Append(s, child)[k] = s[k]
          /\ Append(s, child)[Len(s) + 1] = child
      BY <3>1, AppendIsSequence
    <3>4. ASSUME NEW k \in 1..(Len(s) + 1)
          PROVE  GoodFlat(C, "KeyVal", Append(s, child)[k])
      <4>1. k \in 1..Len(s) \/ k = Len(s) + 1
        BY <3>3
      <4> QED BY <3>1, <3>2, <3>3, <4>1
    <3>5. IsSequence(Append(s, child)) /\ \A k \in DOMAIN Append(s, child) :
            GoodFlat(C, "KeyVal", Append(s, child)[k])
      BY <3>3, <3>4
    <3> QED BY <3>5 DEF s
  <2> HIDE DEF p, a
  <2>4. Fits("AppInfo", p)
    BY <1>0, <2>2 DEF Fits
  <2>5. TextGood(C, p)
    BY <1>0, <2>2, NamesAreKinds, InnerTypes DEF TextGood
  <2>6. \A g \in Inner \cap DOMAIN p : GoodFlat(C, TypeOf[g], p[g])
    BY <1>0, <2>2, InnerTypes
  <2> QED BY <2>2, <2>3, <2>4, <2>5, <2>6 DEF Good, GoodFlat, p
<1>2. CASE f # "attributes"
  <2>0. f \in Inner
    BY <1>2, InnerTypes
  <2> DEFINE q == IF f \in {"req", "resp"} THEN [g \in DOMAIN m \ {"req", "resp"} |-> m[g]]
                  ELSE m
  <2>1. p = Put(q, f, child)
    BY <1>2 DEF Attach
  <2>2. /\ DOMAIN q \subseteq DOMAIN m /\ \A g \in DOMAIN q : q[g] = m[g]
        /\ \A g \in DOMAIN m : g \notin {"req", "resp"} => g \in DOMAIN q
        /\ f \in {"req", "resp"} => "req" \notin DOMAIN q /\ "resp" \notin DOMAIN q
        /\ f \notin {"req", "resp"} => DOMAIN q = DOMAIN m
    OBVIOUS
  <2> HIDE DEF q
  <2>3. /\ DOMAIN p = DOMAIN q \cup {f} /\ p[f] = child
        /\ \A g \in DOMAIN q : g # f => p[g] = m[g]
        /\ IsAFunction(p)
    <3>1. IsPut(Put(q, f, child), q, f, child)
      BY PutSays, Zenon
    <3> HIDE DEF p
    <3>2. IsPut(p, q, f, child)
      BY <2>1, <3>1, Zenon
    <3> QED BY <2>2, <3>2 DEF IsPut
  <2> HIDE DEF p
  <2>4. Fits("AppInfo", p)
    <3>1. DOMAIN Empty("AppInfo") \subseteq DOMAIN p
      <4>1. \A g \in DOMAIN Empty("AppInfo") : g \notin {"req", "resp"}
        BY DEF Empty
      <4> QED BY <1>0, <2>2, <2>3, <4>1 DEF Fits
    <3>2. DOMAIN p \subseteq Names("AppInfo")
      BY <1>0, <2>2, <2>3 DEF Fits, Names
    <3>3. ~({"req", "resp"} \subseteq DOMAIN p)
      <4>1. CASE f \in {"req", "resp"}
        BY <2>2, <2>3, <4>1
      <4>2. CASE f \notin {"req", "resp"}
        BY <1>0, <2>2, <2>3, <4>2 DEF Fits
      <4> QED BY <4>1, <4>2
    <3> QED BY <3>1, <3>2, <3>3 DEF Fits, Names
  <2>5. TextGood(C, p)
    <3>1. \A g \in DOMAIN p : g # f => g \in DOMAIN m /\ p[g] = m[g]
      BY <2>2, <2>3
    <3> QED BY <1>0, <2>3, <3>1, NamesAreKinds DEF TextGood
  <2>6. ASSUME NEW g \in Inner \cap DOMAIN p PROVE GoodFlat(C, TypeOf[g], p[g])
    BY <1>0, <2>2, <2>3
  <2>7. p["attributes"] = m["attributes"]
    BY <1>0, <1>2, <2>2, <2>3
  <2> QED BY <1>0, <2>4, <2>5, <2>6, <2>7 DEF Good, GoodFlat, p
<1> QED BY <1>1, <1>2

\* An empty attribute behind the others.
LEMMA NewAttributeGood ==
  ASSUME NEW C, NEW m, Good(C, "AppInfo", m)
  PROVE  Good(C, "AppInfo",
              Put(m, "attributes", Append(m["attributes"], Empty("KeyVal"))))
<1> DEFINE s == m["attributes"]
           child == Empty("KeyVal")
           a == Append(s, child)
           p == Put(m, "attributes", a)
<1>0. /\ Fits("AppInfo", m) /\ TextGood(C, m) /\ "attributes" \in DOMAIN m
      /\ IsSequence(s)
      /\ \A k \in DOMAIN s : GoodFlat(C, "KeyVal", s[k])
      /\ \A g \in Inner \cap DOMAIN m : GoodFlat(C, TypeOf[g], m[g])
  BY AlwaysAttributes DEF Good, GoodFlat
<1>1. GoodFlat(C, "KeyVal", child)
  BY EmptyGood, InnerTypes DEF Good
<1> HIDE DEF child, s
<1>3. /\ IsSequence(a) /\ DOMAIN s = 1..Len(s) /\ Len(s) \in Nat
      /\ DOMAIN a = 1..(Len(s) + 1)
      /\ \A k \in 1..Len(s) : a[k] = s[k]
      /\ a[Len(s) + 1] = child
  BY <1>0, AppendIsSequence
<1> HIDE DEF a
<1>4. ASSUME NEW k \in DOMAIN a PROVE GoodFlat(C, "KeyVal", a[k])
  <2>1. k \in 1..Len(s) \/ k = Len(s) + 1
    BY <1>3
  <2> QED BY <1>0, <1>1, <1>3, <2>1
<1>5. /\ DOMAIN p = DOMAIN m /\ p["attributes"] = a
      /\ \A g \in DOMAIN m : g # "attributes" => p[g] = m[g]
      /\ IsAFunction(p)
  <2>1. IsPut(p, m, "attributes", a)
    BY PutSays, Zenon
  <2> HIDE DEF p
  <2> QED BY <1>0, <2>1 DEF IsPut
<1> HIDE DEF p
<1>6. Fits("AppInfo", p)
  BY <1>0, <1>5 DEF Fits
<1>7. TextGood(C, p)
  BY <1>0, <1>5, NamesAreKinds, InnerTypes DEF TextGood
<1>8. \A g \in Inner \cap DOMAIN p : GoodFlat(C, TypeOf[g], p[g])
  BY <1>0, <1>5, InnerTypes
<1>9. Good(C, "AppInfo", p)
  BY <1>3, <1>4, <1>5, <1>6, <1>7, <1>8 DEF Good, GoodFlat
<1> QED BY <1>9 DEF p, a, s, child

------------------------------------------------------------------------------
(* What the calls hold *)

\* What a byte of text is: a place of the buffer, or its value.
Chars == IF unsafe THEN Byte \cup {Place(k) : k \in 1..Len(buf)} ELSE Byte

IsCall(c) ==
  /\ DOMAIN c = {"type", "into", "inPlace", "msg"} /\ IsAFunction(c)
  /\ c.type \in Types
  /\ Good(Chars, c.type, c.msg)

\* One call, or an AppInfo and what is decoded into one of its fields.
StackInv ==
  /\ IsSequence(stack)
  /\ Len(stack) \in {1, 2} /\ Len(ends) = Len(stack)
  /\ \A k \in 1..Len(stack) : IsCall(stack[k])
  /\ Len(stack) = 2 =>
       /\ pc \in {"tag", "field"}
       /\ stack[1].type = "AppInfo"
       /\ stack[2].into \in Nested \cap Names("AppInfo")
       /\ stack[2].type = TypeOf[stack[2].into]

LEMMA CharsAre ==
  /\ Byte \subseteq Chars
  /\ UNCHANGED <<unsafe, buf>> => Chars' = Chars
<1>1. Byte \subseteq Chars
  BY DEF Chars
<1>2. ASSUME UNCHANGED <<unsafe, buf>> PROVE Chars' = Chars
  <2>1. unsafe' = unsafe /\ buf' = buf
    BY <1>2
  <2> QED BY <2>1 DEF Chars
<1> QED BY <1>1, <1>2

LEMMA TopIsACall ==
  ASSUME StackInv
  PROVE  /\ top = stack[Len(stack)] /\ IsCall(top)
         /\ DOMAIN stack = 1..Len(stack)
         /\ top.type = "AppInfo" => Len(stack) = 1
<1>1. Len(stack) \in 1..Len(stack)
  BY DEF StackInv
<1>2. DOMAIN stack = 1..Len(stack)
  <2>1. stack \in Seq(Range(stack))
    BY DEF StackInv, IsSequence
  <2> QED BY <2>1
<1>3. Len(stack) = 2 => top.type # "AppInfo"
  BY InnerTypes DEF StackInv, top
<1> QED BY <1>1, <1>2, <1>3 DEF StackInv, top

\* A sequence of one and of two.
LEMMA OneCall ==
  ASSUME NEW c
  PROVE  IsSequence(<<c>>) /\ Len(<<c>>) = 1 /\ <<c>>[1] = c
<1>1. <<c>> \in Seq({c})
  OBVIOUS
<1> QED BY <1>1, SeqsAre

\* The message of a call is exchanged.
LEMMA WithMessage ==
  ASSUME NEW c, IsCall(c), NEW m, Good(Chars, c.type, m)
  PROVE  /\ IsCall([c EXCEPT !.msg = m])
         /\ [c EXCEPT !.msg = m].type = c.type
         /\ [c EXCEPT !.msg = m].into = c.into
<1> DEFINE d == [c EXCEPT !.msg = m]
<1>1. /\ DOMAIN d = DOMAIN c /\ IsAFunction(d)
      /\ d.msg = m /\ d.type = c.type /\ d.into = c.into
  BY DEF IsCall, IsAFunction
<1> HIDE DEF d
<1>2. IsCall(d)
  BY <1>1 DEF IsCall
<1> QED BY <1>1, <1>2 DEF d

\* The innermost call goes on with another message.
LEMMA TopSet ==
  ASSUME StackInv, NEW m, Good(Chars, top.type, m),
         SetTop(m), UNCHANGED <<unsafe, buf, ends>>, pc' \in {"tag", "field"}
  PROVE  StackInv'
<1> DEFINE n == Len(stack)
           d == [stack[n] EXCEPT !.msg = m]
<1>1. stack \in Seq(Range(stack)) /\ n \in {1, 2} /\ DOMAIN stack = 1..n
  BY TopIsACall DEF StackInv, IsSequence
<1>2. /\ IsCall(d) /\ d.type = stack[n].type /\ d.into = stack[n].into
  BY TopIsACall, WithMessage DEF top
<1>3. stack' = [stack EXCEPT ![n] = d]
  BY DEF SetTop
<1> HIDE DEF d
<1>4. /\ stack' \in Seq(Range(stack) \cup {d}) /\ Len(stack') = n
      /\ stack'[n] = d /\ \A k \in 1..n : k # n => stack'[k] = stack[k]
  BY <1>1, <1>3 DEF Range
<1>5. IsSequence(stack')
  BY <1>4, SeqsAre
<1>6. ASSUME NEW k \in 1..n PROVE IsCall(stack[k])'
  <2> DEFINE c == stack'[k]
  <2>1. IsCall(c)
    BY <1>2, <1>4 DEF StackInv
  <2>2. Chars' = Chars
    BY CharsAre
  <2>3. /\ DOMAIN c = {"type", "into", "inPlace", "msg"} /\ IsAFunction(c)
        /\ c.type \in Types /\ Good(Chars', c.type, c.msg)
    BY <2>1, <2>2 DEF IsCall
  <2> QED BY <2>3 DEF IsCall
<1>7. Len(ends') = n
  BY DEF StackInv
<1>8. n = 2 => /\ stack'[1] = stack[1] /\ stack'[2].into = stack[2].into
               /\ stack'[2].type = stack[2].type
  BY <1>2, <1>4
<1>9. n = 2 => /\ stack'[1].type = "AppInfo"
               /\ stack'[2].into \in Nested \cap Names("AppInfo")
               /\ stack'[2].type = TypeOf[stack'[2].into]
  BY <1>8 DEF StackInv
<1> HIDE DEF n
<1> QED BY <1>1, <1>4, <1>5, <1>6, <1>7, <1>9 DEF StackInv

\* One call is left, perhaps with another message.
LEMMA OneLeft ==
  ASSUME UNCHANGED <<unsafe, buf>>, NEW c, IsCall(c), stack' = <<c>>, Len(ends') = 1
  PROVE  StackInv'
<1>1. IsSequence(stack') /\ Len(stack') = 1 /\ stack'[1] = c
  BY OneCall
<1>2. IsCall(stack[1])'
  <2>1. Chars' = Chars
    BY CharsAre
  <2>2. /\ DOMAIN c = {"type", "into", "inPlace", "msg"} /\ IsAFunction(c)
        /\ c.type \in Types /\ Good(Chars', c.type, c.msg)
    BY <2>1 DEF IsCall
  <2> QED BY <1>1, <2>2 DEF IsCall
<1>3. ASSUME NEW k \in 1..Len(stack') PROVE IsCall(stack[k])'
  <2>1. k = 1
    BY <1>1
  <2> QED BY <1>2, <2>1
<1> QED BY <1>1, <1>3 DEF StackInv

\* What is decoded goes into the message around it.
LEMMA AttachesTop ==
  ASSUME StackInv, Len(stack) = 2
  PROVE  /\ IsCall(stack[1])
         /\ IsCall([stack[1] EXCEPT !.msg = Attach(@, top.into, top.msg)])
<1>1. /\ IsCall(stack[1]) /\ IsCall(stack[2]) /\ top = stack[2]
      /\ stack[1].type = "AppInfo"
      /\ stack[2].into \in Nested /\ stack[2].into \in Names("AppInfo")
      /\ stack[2].type = TypeOf[stack[2].into]
  BY DEF StackInv, top
<1>2. /\ Good(Chars, "AppInfo", stack[1].msg)
      /\ GoodFlat(Chars, TypeOf[stack[2].into], stack[2].msg)
  BY <1>1 DEF IsCall, Good
<1>3. Good(Chars, "AppInfo", Attach(stack[1].msg, stack[2].into, stack[2].msg))
  BY <1>1, <1>2, AttachGood
<1>4. IsCall([stack[1] EXCEPT !.msg = Attach(stack[1].msg, stack[2].into, stack[2].msg)])
  BY <1>1, <1>3, WithMessage
<1> QED BY <1>1, <1>4

LEMMA FailStack ==
  ASSUME StackInv, Fail
  PROVE  StackInv'
<1>1. /\ UNCHANGED <<unsafe, buf>> /\ ends' = <<ends[1]>>
      /\ stack' = IF Len(stack) = 1 THEN stack
                  ELSE IF top.inPlace
                  THEN <<[stack[1] EXCEPT !.msg = Attach(@, top.into, top.msg)]>>
                  ELSE <<stack[1]>>
  BY DEF Fail, inputVars
<1>2. Len(ends') = 1
  BY <1>1
<1>3. CASE Len(stack) = 1
  <2>1. IsCall(stack[1]) /\ stack = <<stack[1]>>
    BY <1>3 DEF StackInv, IsSequence
  <2>2. stack' = <<stack[1]>>
    BY <1>1, <1>3, <2>1
  <2> QED BY <1>1, <1>2, <2>1, <2>2, OneLeft
<1>4. CASE Len(stack) = 2
  <2>1. /\ IsCall(stack[1])
        /\ IsCall([stack[1] EXCEPT !.msg = Attach(@, top.into, top.msg)])
    BY <1>4, AttachesTop
  <2>2. \/ stack' = <<[stack[1] EXCEPT !.msg = Attach(@, top.into, top.msg)]>>
        \/ stack' = <<stack[1]>>
    BY <1>1, <1>4
  <2> DEFINE d == [stack[1] EXCEPT !.msg = Attach(@, top.into, top.msg)]
  <2>3. IsCall(d) /\ (stack' = <<d>> \/ stack' = <<stack[1]>>)
    BY <2>1, <2>2
  <2> HIDE DEF d
  <2> QED BY <1>1, <1>2, <2>1, <2>3, OneLeft
<1> QED BY <1>3, <1>4 DEF StackInv

LEMMA LeaveStack ==
  ASSUME StackInv, LeaveMessage
  PROVE  StackInv'
<1>1. Len(stack) = 2
  BY DEF StackInv, LeaveMessage
<1> DEFINE d == [stack[1] EXCEPT !.msg = Attach(@, top.into, top.msg)]
<1>2. IsCall(d)
  BY <1>1, AttachesTop
<1>3. stack' = <<d>> /\ ends' = <<ends[1]>> /\ UNCHANGED <<unsafe, buf>>
  BY DEF LeaveMessage, NextField, inputVars
<1> HIDE DEF d
<1>4. Len(ends') = 1
  BY <1>3
<1> QED BY <1>2, <1>3, <1>4, OneLeft

\* What the case of a known field says.
LEMMA KnownCase ==
  ASSUME StackInv, Known
  PROVE  /\ name \in Names(top.type)
         /\ kind \in Scalars \cup {"string", "strings", "message", "messages", "oneof"}
         /\ kind \in Scalars => name \in Counts \cup Flags
         /\ kind = "string" => Other(name) /\ name # "unknown"
         /\ kind = "strings" => name = "trace_ids" /\ top.type = "AppTrace"
         /\ kind = "message" => name = "trace" /\ top.type = "AppInfo"
         /\ kind = "messages" => name = "attributes" /\ top.type = "AppInfo"
         /\ kind = "oneof" => name \in {"req", "resp"} /\ top.type = "AppInfo"
<1> DEFINE type == top.type
           n == field.num
<1>1. type \in Types /\ n \in DOMAIN Cases(type)
  BY TopIsACall DEF Known, IsCall
<1>2. kind = Cases(type)[n][1] /\ name = Cases(type)[n][2]
  BY DEF kind, name
<1> HIDE DEF type, n
<1>3. CaseFits(type, Cases(type)[n])
  BY <1>1, CasesFit
<1>4. name \in Names(type)
  BY <1>1, <1>2 DEF Names
<1>5. CaseFits(type, Cases(type)[n]) /\ name \in Names(type)
  BY <1>3, <1>4
<1> QED BY <1>2, <1>5 DEF CaseFits, type

LEMMA NumberStack ==
  ASSUME StackInv, ReadNumber
  PROVE  StackInv'
<1>1. /\ Known /\ WireType(kind) = 0
      /\ SetTop(Put(top.msg, name, NumberOf(Varint(iNdEx))))
      /\ UNCHANGED <<unsafe, buf, ends>> /\ pc' = "tag"
  BY DEF ReadNumber, NextField, Expected, inputVars
<1>2. kind \in Scalars
  BY <1>1 DEF WireType, Scalars
<1>3. name \in Names(top.type) /\ name \in Counts \cup Flags
  BY <1>1, <1>2, KnownCase
<1>4. name \notin Nested /\ name # "unknown" /\ ~Other(name) /\ name # "trace_ids"
  BY <1>3, NamesAreKinds
<1>5. top.type \in Types /\ Good(Chars, top.type, top.msg)
  BY TopIsACall DEF IsCall
<1> DEFINE v == NumberOf(Varint(iNdEx))
<1>6. SetTop(Put(top.msg, name, v))
  BY <1>1
<1> HIDE DEF v
<1>7. Good(Chars, top.type, Put(top.msg, name, v))
  BY <1>3, <1>4, <1>5, PutGood
<1> QED BY <1>1, <1>6, <1>7, TopSet

\* The bytes of a text, in place or not.
LEMMA SlicesAre ==
  ASSUME buf \in Seq(Byte), NEW lo \in Nat, NEW hi \in Nat, lo <= hi, hi <= Len(buf)
  PROVE  Slice(lo, hi) \in Seq(Chars)
<1>1. ASSUME NEW k \in 1..(hi - lo)
      PROVE  (IF unsafe THEN Place(lo + k) ELSE buf[lo + k]) \in Chars
  <2>1. lo + k \in 1..Len(buf)
    OBVIOUS
  <2> QED BY <2>1 DEF Chars
<1>2. Slice(lo, hi) \in [1..(hi - lo) -> Chars]
  BY <1>1 DEF Slice
<1>3. hi - lo \in Nat
  OBVIOUS
<1> QED BY <1>2, <1>3

LEMMA TextStack ==
  ASSUME BoundsInv, StackInv, ReadText
  PROVE  StackInv'
<1> DEFINE s == Slice(start, start + length)
           v == IF kind = "strings" THEN Append(top.msg[name], s) ELSE s
<1>1. /\ Known /\ VarintOk(iNdEx) /\ length \in 0..(l - start)
      /\ kind \in {"string", "strings"}
      /\ SetTop(Put(top.msg, name, v))
      /\ UNCHANGED <<unsafe, buf, ends>> /\ pc' = "tag"
  BY DEF ReadText, Counted, LengthOk, NextField, Expected, inputVars
<1>2. s \in Seq(Chars)
  <2>1. start \in iNdEx + 1..l
    BY <1>1, VarintEnds, Positions DEF start
  <2>2. ends[1] <= Len(buf) /\ buf \in Seq(Byte)
    BY DEF BoundsInv
  <2>3. /\ start \in Nat /\ start + length \in Nat
        /\ start <= start + length /\ start + length <= Len(buf)
    BY <1>1, <2>1, <2>2, Positions
  <2> QED BY <2>2, <2>3, SlicesAre
<1> HIDE DEF s
<1>3. top.type \in Types /\ Good(Chars, top.type, top.msg)
  BY TopIsACall DEF IsCall
<1>4. /\ name \in Names(top.type)
      /\ kind = "string" => Other(name) /\ name # "unknown"
      /\ kind = "strings" => name = "trace_ids" /\ top.type = "AppTrace"
  BY <1>1, KnownCase
<1>5. CASE kind = "string"
  <2>1. v = s /\ name \notin Nested /\ name # "trace_ids" /\ name # "unknown"
    BY <1>4, <1>5, NamesAreKinds
  <2> HIDE DEF v
  <2>2. Good(Chars, top.type, Put(top.msg, name, v))
    BY <1>2, <1>3, <1>4, <2>1, PutGood
  <2> QED BY <1>1, <2>2, TopSet
<1>6. CASE kind = "strings"
  <2>1. "trace_ids" \in DOMAIN top.msg
    BY <1>3, <1>4, <1>6, AlwaysThere DEF Good, GoodFlat, Fits
  <2>2. top.msg["trace_ids"] \in Seq(Seq(Chars))
    BY <1>3, <2>1 DEF Good, GoodFlat, TextGood
  <2>3. v \in Seq(Seq(Chars))
    BY <1>2, <1>4, <1>6, <2>2
  <2>4. name \notin Nested /\ name # "unknown" /\ ~Other(name)
    BY <1>4, <1>6, NamesAreKinds
  <2> HIDE DEF v
  <2>5. Good(Chars, top.type, Put(top.msg, name, v))
    BY <1>3, <1>4, <2>3, <2>4, PutGood
  <2> QED BY <1>1, <2>5, TopSet
<1> QED BY <1>1, <1>5, <1>6

LEMMA UnknownStack ==
  ASSUME BoundsInv, StackInv, SkipUnknown
  PROVE  StackInv'
<1> DEFINE s == SubSeq(buf, field.pre + 1, Skip(field.pre))
           e == Skip(field.pre)
<1>1. /\ e \in field.pre..l
      /\ SetTop([top.msg EXCEPT !.unknown = @ \o s])
      /\ UNCHANGED <<unsafe, buf, ends>> /\ pc' = "tag"
  BY DEF SkipUnknown, NextField, inputVars
<1> HIDE DEF e
<1>2. s \in Seq(Byte)
  <2>1. ends[1] <= Len(buf) /\ buf \in Seq(Byte) /\ field.pre \in Nat
    BY DEF BoundsInv
  <2>2. e \in Nat /\ e <= Len(buf) /\ field.pre + 1 \in Nat /\ 1 <= field.pre + 1
    BY <1>1, <2>1, Positions
  <2>3. SubSeq(buf, field.pre + 1, e) \in Seq(Byte)
    BY <2>1, <2>2
  <2> QED BY <2>3 DEF e
<1> HIDE DEF s
<1>3. top.type \in Types /\ Good(Chars, top.type, top.msg)
  BY TopIsACall DEF IsCall
<1>4. Good(Chars, top.type, [top.msg EXCEPT !.unknown = @ \o s])
  BY <1>2, <1>3, CharsAre, KeepGood
<1> QED BY <1>1, <1>4, TopSet

LEMMA EnterStack ==
  ASSUME BoundsInv, StackInv, EnterMessage
  PROVE  StackInv'
<1> DEFINE there == kind # "messages" /\ name \in DOMAIN top.msg
           outer == IF kind = "messages"
                    THEN Put(top.msg, name, Append(top.msg[name], Empty("KeyVal")))
                    ELSE top.msg
           msg   == IF there THEN top.msg[name] ELSE Empty(TypeOf[name])
           call  == [type    |-> TypeOf[name],
                     into    |-> name,
                     inPlace |-> there \/ kind # "oneof",
                     msg     |-> msg]
           d     == [stack[1] EXCEPT !.msg = outer]
<1>1. /\ Known /\ kind \in {"message", "messages", "oneof"}
      /\ stack' = Append([stack EXCEPT ![Len(stack)].msg = outer], call)
      /\ ends' = Append(ends, start + length)
      /\ UNCHANGED <<unsafe, buf>> /\ pc' = "tag"
  BY DEF EnterMessage, Counted, Expected, NextField, inputVars
<1>2. /\ top.type = "AppInfo" /\ name \in Names("AppInfo")
      /\ kind = "message" => name = "trace"
      /\ kind = "messages" => name = "attributes"
      /\ kind = "oneof" => name \in {"req", "resp"}
  BY <1>1, KnownCase
<1>3. /\ Len(stack) = 1 /\ top = stack[1] /\ IsCall(stack[1]) /\ IsSequence(stack)
      /\ Good(Chars, "AppInfo", top.msg) /\ Len(ends) = 1
  <2>1. Len(stack) = 1 /\ top = stack[1] /\ IsCall(top)
    BY <1>2, TopIsACall
  <2> QED BY <1>2, <2>1 DEF StackInv, IsCall
<1>4. name \in Nested /\ (kind # "messages" => name \in Inner)
  BY <1>1, <1>2 DEF Nested, Inner
<1>5. Good(Chars, "AppInfo", outer)
  BY <1>2, <1>3, NewAttributeGood
<1>6. Good(Chars, TypeOf[name], msg)
  <2>1. TypeOf[name] \in Types /\ TypeOf[name] # "AppInfo"
    BY <1>4, InnerTypes
  <2>2. CASE there
    <3>1. GoodFlat(Chars, TypeOf[name], top.msg[name])
      BY <1>3, <1>4, <2>2 DEF Good
    <3> QED BY <2>1, <2>2, <3>1 DEF Good
  <2>3. CASE ~there
    BY <2>1, <2>3, EmptyGood
  <2> QED BY <2>2, <2>3
<1> HIDE DEF outer, msg
<1>7. IsCall(d) /\ d.type = "AppInfo"
  BY <1>2, <1>3, <1>5, WithMessage
<1>8. IsCall(call) /\ call.type = TypeOf[name] /\ call.into = name
  <2>1. TypeOf[name] \in Types
    BY <1>4, InnerTypes
  <2> QED BY <1>6, <2>1 DEF IsCall, IsAFunction
<1>9. [stack EXCEPT ![Len(stack)].msg = outer] = <<d>>
  <2>1. stack \in Seq(Range(stack)) /\ Len(stack) = 1 /\ DOMAIN stack = {1}
    BY <1>3 DEF IsSequence
  <2>2. [stack EXCEPT ![Len(stack)].msg = outer] = [stack EXCEPT ![1] = d]
    BY <2>1
  <2> HIDE DEF d
  <2>3. <<d>> \in Seq({d}) /\ Len(<<d>>) = 1 /\ <<d>>[1] = d
    OBVIOUS
  <2>4. /\ [stack EXCEPT ![1] = d] \in Seq(Range(stack) \cup {d})
        /\ Len([stack EXCEPT ![1] = d]) = 1 /\ [stack EXCEPT ![1] = d][1] = d
    BY <2>1
  <2> DEFINE e == [stack EXCEPT ![1] = d]
  <2>5. e \in [1..1 -> Range(stack) \cup {d}] /\ e[1] = d
    BY <2>4
  <2>6. <<d>> \in [1..1 -> {d}]
    BY <2>3
  <2>7. e = <<d>>
    <3> HIDE DEF e
    <3> QED BY <2>3, <2>5, <2>6
  <2> QED BY <2>2, <2>7, Zenon
<1> HIDE DEF call, d
<1>10. stack' = Append(<<d>>, call)
  BY <1>1, <1>9, Zenon
<1>11. IsSequence(stack') /\ Len(stack') = 2 /\ stack'[1] = d /\ stack'[2] = call
  <2>1. IsSequence(<<d>>) /\ Len(<<d>>) = 1 /\ <<d>>[1] = d
    BY OneCall
  <2> DEFINE o == <<d>>
  <2>2. IsSequence(o) /\ Len(o) = 1 /\ o[1] = d /\ stack' = Append(o, call)
    BY <1>10, <2>1
  <2> HIDE DEF o
  <2>3. IsSequence(Append(o, call)) /\ Len(Append(o, call)) = Len(o) + 1
    BY <2>2, AppendIsSequence
  <2>4. Append(o, call)[1] = o[1]
    <3>1. 1 \in 1..Len(o)
      BY <2>2
    <3> QED BY <2>2, <3>1, AppendKeeps
  <2>5. Append(o, call)[Len(o) + 1] = call
    BY <2>2, AppendAdds
  <2> QED BY <2>2, <2>3, <2>4, <2>5
<1>12. ASSUME NEW k \in 1..2 PROVE IsCall(stack[k])'
  <2> DEFINE c == stack'[k]
  <2>1. IsCall(c)
    BY <1>7, <1>8, <1>11
  <2>2. Chars' = Chars
    BY <1>1, CharsAre
  <2>3. /\ DOMAIN c = {"type", "into", "inPlace", "msg"} /\ IsAFunction(c)
        /\ c.type \in Types /\ Good(Chars', c.type, c.msg)
    BY <2>1, <2>2 DEF IsCall
  <2> QED BY <2>3 DEF IsCall
<1>13. Len(ends') = 2
  <2>1. ends \in Seq(Nat)
    BY DEF BoundsInv
  <2>2. IsSequence(ends)
    BY <2>1, SeqsAre
  <2>3. Len(Append(ends, start + length)) = Len(ends) + 1
    BY <2>2, AppendIsSequence
  <2> QED BY <1>1, <1>3, <2>3
<1> QED BY <1>1, <1>2, <1>4, <1>7, <1>8, <1>11, <1>12, <1>13 DEF StackInv

------------------------------------------------------------------------------
(* Clones, and what is read when the buffer changes *)

\* Text that is its own bytes, in whatever message it stands.
Still(m) ==
  /\ TextGood(Byte, m)
  /\ \A f \in Inner \cap DOMAIN m : TextGood(Byte, m[f])
  /\ "attributes" \in DOMAIN m =>
       /\ IsSequence(m.attributes)
       /\ \A k \in DOMAIN m.attributes : TextGood(Byte, m.attributes[k])

LEMMA BytesStay ==
  ASSUME NEW s \in Seq(Byte)
  PROVE  Bytes(s) = s
<1>1. ASSUME NEW k \in DOMAIN s PROVE ByteAt(s[k]) = s[k]
  BY DEF ByteAt, Byte
<1>2. Bytes(s) = [k \in DOMAIN s |-> s[k]]
  BY <1>1 DEF Bytes
<1>3. s = [k \in DOMAIN s |-> s[k]]
  OBVIOUS
<1> QED BY <1>2, <1>3, Zenon

\* Bytes(x) are bytes of their own, wherever those of x are.
LEMMA BytesAre ==
  ASSUME buf \in Seq(Byte), NEW s \in Seq(Chars)
  PROVE  Bytes(s) \in Seq(Byte)
<1>1. ASSUME NEW c \in Chars PROVE ByteAt(c) \in Byte
  <2>1. CASE c \in Byte
    BY <2>1 DEF ByteAt, Byte
  <2>2. CASE c \notin Byte
    <3>1. PICK k \in 1..Len(buf) : c = Place(k)
      BY <2>2 DEF Chars
    <3>2. c >= 256 /\ c - 256 = k
      BY <3>1 DEF Place
    <3>3. ByteAt(c) = buf[k]
      BY <3>2 DEF ByteAt
    <3> QED BY <3>3
  <2> QED BY <2>1, <2>2
<1>2. Len(s) \in Nat /\ DOMAIN s = 1..Len(s) /\ \A k \in 1..Len(s) : s[k] \in Chars
  OBVIOUS
<1>3. Bytes(s) \in [1..Len(s) -> Byte]
  BY <1>1, <1>2 DEF Bytes
<1> QED BY <1>2, <1>3

LEMMA FlatReadsItself ==
  ASSUME NEW m, TextGood(Byte, m)
  PROVE  ReadFlat(m) = m
<1> DEFINE r(f) == IF f \in Counts \cup Flags \cup Nested THEN m[f]
                   ELSE IF f = "trace_ids" THEN [k \in DOMAIN m[f] |-> Bytes(m[f][k])]
                   ELSE Bytes(m[f])
<1>1. ASSUME NEW f \in DOMAIN m PROVE r(f) = m[f]
  <2>1. CASE f = "trace_ids"
    <3>1. m[f] \in Seq(Seq(Byte))
      BY <2>1 DEF TextGood
    <3>2. ASSUME NEW k \in DOMAIN m[f] PROVE Bytes(m[f][k]) = m[f][k]
      <4>1. m[f][k] \in Seq(Byte)
        BY <3>1
      <4> QED BY <4>1, BytesStay
    <3>3. [k \in DOMAIN m[f] |-> Bytes(m[f][k])] = [k \in DOMAIN m[f] |-> m[f][k]]
      BY <3>2
    <3>4. m[f] = [k \in DOMAIN m[f] |-> m[f][k]]
      BY <3>1
    <3>5. f \notin Counts \cup Flags \cup Nested
      BY <2>1 DEF Counts, Flags, Nested
    <3> QED BY <2>1, <3>3, <3>4, <3>5, Zenon
  <2>2. CASE Other(f)
    <3>1. Bytes(m[f]) = m[f]
      BY <2>2, BytesStay DEF TextGood
    <3> QED BY <2>2, <3>1 DEF Other
  <2>3. CASE ~Other(f) /\ f # "trace_ids"
    BY <2>3 DEF Other
  <2> QED BY <2>1, <2>2, <2>3
<1>2. ReadFlat(m) = [f \in DOMAIN m |-> r(f)]
  BY DEF ReadFlat
<1> HIDE DEF r
<1>3. [f \in DOMAIN m |-> r(f)] = [f \in DOMAIN m |-> m[f]]
  BY <1>1
<1> QED BY <1>2, <1>3, Zenon DEF TextGood, IsAFunction

\* Text that is its own bytes reads the same, whatever the buffer holds.
LEMMA StillReadsItself ==
  ASSUME NEW m, Still(m)
  PROVE  Read(m) = m
<1> DEFINE r(f) == IF f \in {"req", "resp", "trace"} THEN ReadFlat(m[f])
                   ELSE IF f = "attributes"
                   THEN [k \in DOMAIN m[f] |-> ReadFlat(m[f][k])]
                   ELSE ReadFlat(m)[f]
<1>1. ASSUME NEW f \in DOMAIN m PROVE r(f) = m[f]
  <2>1. CASE f \in {"req", "resp", "trace"}
    <3>1. TextGood(Byte, m[f])
      BY <2>1 DEF Still, Inner
    <3>2. ReadFlat(m[f]) = m[f]
      BY <3>1, FlatReadsItself
    <3> QED BY <2>1, <3>2
  <2>2. CASE f = "attributes"
    <3> DEFINE s == m[f]
    <3>1. IsSequence(s) /\ \A k \in DOMAIN s : TextGood(Byte, s[k])
      BY <2>2 DEF Still
    <3>2. r(f) = [k \in DOMAIN s |-> ReadFlat(s[k])]
      BY <2>2
    <3> HIDE DEF s, r
    <3>3. \A k \in DOMAIN s : ReadFlat(s[k]) = s[k]
      BY <3>1, FlatReadsItself
    <3>4. [k \in DOMAIN s |-> ReadFlat(s[k])] = [k \in DOMAIN s |-> s[k]]
      BY <3>3
    <3>5. s = [k \in DOMAIN s |-> s[k]]
      BY <3>1 DEF IsSequence
    <3> QED BY <3>2, <3>4, <3>5, Zenon DEF s
  <2>3. CASE f \notin {"req", "resp", "trace", "attributes"}
    <3>1. ReadFlat(m) = m
      BY FlatReadsItself DEF Still
    <3> QED BY <2>3, <3>1
  <2> QED BY <2>1, <2>2, <2>3
<1>2. Read(m) = [f \in DOMAIN m |-> r(f)]
  BY DEF Read
<1> HIDE DEF r
<1>3. [f \in DOMAIN m |-> r(f)] = [f \in DOMAIN m |-> m[f]]
  BY <1>1
<1> QED BY <1>2, <1>3, Zenon DEF Still, TextGood, IsAFunction

\* What a clone holds: unknownFields and payload of its own.
OwnBytes(c) ==
  /\ "unknown" \in DOMAIN c /\ c.unknown \in Seq(Byte)
  /\ "payload" \in DOMAIN c => c.payload \in Seq(Byte)

LEMMA CopiesAre ==
  ASSUME buf \in Seq(Byte), NEW m, TextGood(Chars, m), "unknown" \in DOMAIN m,
         NEW shared, NEW own, "unknown" \in own, own \subseteq {"payload", "unknown"},
         "payload" \in shared => "payload" \in own
  PROVE  /\ OwnBytes(Copies(m, shared, own))
         /\ ~unsafe => TextGood(Byte, Copies(m, shared, own))
         /\ DOMAIN Copies(m, shared, own) \subseteq shared \cup own
<1> DEFINE c == Copies(m, shared, own)
<1>1. /\ DOMAIN c = Present(m, shared \cup own) /\ IsAFunction(c)
      /\ \A f \in DOMAIN c : c[f] = IF f \in own THEN Bytes(m[f]) ELSE m[f]
  BY DEF Copies, IsAFunction
<1>2. \A f \in own : f \in DOMAIN m => m[f] \in Seq(Chars)
  BY DEF TextGood, Other, Counts, Flags, Nested
<1> HIDE DEF c
<1>3. \A f \in own : f \in DOMAIN m => c[f] \in Seq(Byte) /\ f \in DOMAIN c
  BY <1>1, <1>2, BytesAre DEF Present
<1>4. OwnBytes(c)
  BY <1>1, <1>3 DEF OwnBytes, Present
<1>5. ASSUME ~unsafe PROVE TextGood(Byte, c)
  <2>1. Chars = Byte
    BY <1>5 DEF Chars
  <2>2. \A f \in DOMAIN c : f \in DOMAIN m /\ (f \notin own => c[f] = m[f])
    BY <1>1 DEF Present
  <2>3. \A f \in DOMAIN c : Other(f) => c[f] \in Seq(Byte)
    BY <1>3, <2>1, <2>2 DEF TextGood
  <2>4. "trace_ids" \in DOMAIN c => c["trace_ids"] \in Seq(Seq(Byte))
    BY <2>1, <2>2 DEF TextGood
  <2>5. "unknown" \in DOMAIN c => c["unknown"] \in Seq(Byte)
    BY <1>4 DEF OwnBytes
  <2> QED BY <1>1, <2>3, <2>4, <2>5 DEF TextGood
<1>6. DOMAIN c \subseteq shared \cup own
  BY <1>1 DEF Present
<1> QED BY <1>4, <1>5, <1>6 DEF c

LEMMA TablesAreSeqs ==
  ASSUME NEW S, NEW n \in Nat, NEW a \in [1..n -> S]
  PROVE  IsSequence(a)
<1>1. a \in Seq(S)
  OBVIOUS
<1> QED BY <1>1, SeqsAre

\* A clone without messages in it.
LEMMA FlatClone ==
  ASSUME buf \in Seq(Byte), NEW m, TextGood(Chars, m), "unknown" \in DOMAIN m,
         NEW shared, NEW own, "unknown" \in own, own \subseteq {"payload", "unknown"},
         "payload" \in shared => "payload" \in own, shared \cap Nested = {}
  PROVE  /\ OwnBytes(Copies(m, shared, own))
         /\ ~unsafe => Still(Copies(m, shared, own))
<1> DEFINE c == Copies(m, shared, own)
<1>1. /\ OwnBytes(c) /\ (~unsafe => TextGood(Byte, c))
      /\ DOMAIN c \subseteq shared \cup own
  BY CopiesAre
<1> HIDE DEF c
<1>2. DOMAIN c \cap Nested = {}
  BY <1>1 DEF Nested
<1>3. ~unsafe => Still(c)
  BY <1>1, <1>2 DEF Still, Inner, Nested
<1> QED BY <1>1, <1>3 DEF c

LEMMA InfoClone ==
  ASSUME buf \in Seq(Byte), NEW m, Good(Chars, "AppInfo", m)
  PROVE  OwnBytes(AppInfo_CloneVT(m)) /\ (~unsafe => Still(AppInfo_CloneVT(m)))
<1> DEFINE flat == Copies(m, {"req_len", "resp_len", "request_id", "protocol_str",
                              "is_end", "is_async", "is_reversed", "biz_type",
                              "biz_code", "biz_scenario", "biz_response_code"},
                          {"unknown"})
           as == [k \in DOMAIN m.attributes |-> KeyVal_CloneVT(m.attributes[k])]
           c == AppInfo_CloneVT(m)
<1>1. /\ TextGood(Chars, m) /\ "unknown" \in DOMAIN m
      /\ IsSequence(m.attributes)
      /\ \A k \in DOMAIN m.attributes :
           GoodFlat(Chars, "KeyVal", m.attributes[k])
      /\ \A f \in Inner \cap DOMAIN m : GoodFlat(Chars, TypeOf[f], m[f])
  BY AlwaysUnknown, InnerTypes DEF Good, GoodFlat
<1>2. /\ OwnBytes(flat) /\ (~unsafe => TextGood(Byte, flat))
      /\ DOMAIN flat \cap (Nested \cup {"payload"}) = {}
  <2>1. /\ OwnBytes(flat) /\ (~unsafe => TextGood(Byte, flat))
        /\ DOMAIN flat \subseteq {"req_len", "resp_len", "request_id", "protocol_str",
                              "is_end", "is_async", "is_reversed", "biz_type",
                              "biz_code", "biz_scenario", "biz_response_code"}
                            \cup {"unknown"}
    BY <1>1, CopiesAre
  <2> HIDE DEF flat
  <2> QED BY <2>1 DEF Nested
<1>3. /\ DOMAIN c = DOMAIN flat \cup Present(m, Nested) /\ IsAFunction(c)
      /\ \A f \in DOMAIN c : c[f] = CASE f = "req" -> AppRequest_CloneVT(m.req)
                                      [] f = "resp" -> AppResponse_CloneVT(m.resp)
                                      [] f = "trace" -> AppTrace_CloneVT(m.trace)
                                      [] f = "attributes" -> as
                                      [] OTHER -> flat[f]
  BY DEF AppInfo_CloneVT, IsAFunction
<1> HIDE DEF c, flat, as
<1>4. \A f \in DOMAIN flat : f \in DOMAIN c /\ c[f] = flat[f]
  BY <1>2, <1>3 DEF Nested
<1>5. OwnBytes(c)
  <2>1. "payload" \notin DOMAIN c
    BY <1>2, <1>3 DEF Present, Nested
  <2> QED BY <1>2, <1>4, <2>1 DEF OwnBytes
<1>6. ASSUME ~unsafe PROVE Still(c)
  <2>1. TextGood(Byte, c)
    <3>1. \A f \in DOMAIN c : f \notin Nested => f \in DOMAIN flat
      BY <1>3 DEF Present
    <3>2. TextGood(Byte, flat)
      BY <1>2, <1>6
    <3> QED BY <1>3, <1>4, <3>1, <3>2, NamesAreKinds DEF TextGood
  <2>2. ASSUME NEW f \in Inner \cap DOMAIN c PROVE TextGood(Byte, c[f])
    <3>1. f \in Inner \cap DOMAIN m
      BY <1>2, <1>3, InnerTypes DEF Present
    <3>2. GoodFlat(Chars, TypeOf[f], m[f]) /\ TypeOf[f] \in Types
      BY <1>1, <3>1, InnerTypes
    <3>3. TextGood(Chars, m[f]) /\ "unknown" \in DOMAIN m[f]
      BY <3>2, AlwaysUnknown DEF GoodFlat
    <3>4. CASE f = "req"
      <4>1. c[f] = AppRequest_CloneVT(m[f])
        BY <1>3, <3>4
      <4>2. TextGood(Byte, AppRequest_CloneVT(m[f]))
        BY <1>6, <3>3, CopiesAre DEF AppRequest_CloneVT
      <4> QED BY <4>1, <4>2
    <3>5. CASE f = "resp"
      <4>1. c[f] = AppResponse_CloneVT(m[f])
        BY <1>3, <3>5
      <4>2. TextGood(Byte, AppResponse_CloneVT(m[f]))
        BY <1>6, <3>3, CopiesAre DEF AppResponse_CloneVT
      <4> QED BY <4>1, <4>2
    <3>6. CASE f = "trace"
      <4>1. c[f] = AppTrace_CloneVT(m[f])
        BY <1>3, <3>6
      <4>2. TextGood(Byte, AppTrace_CloneVT(m[f]))
        BY <1>6, <3>3, CopiesAre DEF AppTrace_CloneVT
      <4> QED BY <4>1, <4>2
    <3> QED BY <3>4, <3>5, <3>6 DEF Inner
  <2>3. IsSequence(as) /\ \A k \in DOMAIN as : TextGood(Byte, as[k])
    <3> DEFINE s == m.attributes
    <3>1. s \in Seq(Range(s)) /\ \A k \in DOMAIN s : GoodFlat(Chars, "KeyVal", s[k])
      BY <1>1 DEF IsSequence
    <3>2. as = [k \in DOMAIN s |-> KeyVal_CloneVT(s[k])]
      BY DEF as
    <3> HIDE DEF s
    <3>3. Len(s) \in Nat /\ DOMAIN s = 1..Len(s)
      BY <3>1
    <3> DEFINE T == {KeyVal_CloneVT(s[k]) : k \in 1..Len(s)}
    <3>4. as \in [1..Len(s) -> T]
      BY <3>2, <3>3
    <3>5. IsSequence(as)
      <4> HIDE DEF T
      <4> DEFINE n == Len(s)
      <4>1. n \in Nat /\ as \in [1..n -> T]
        BY <3>3, <3>4
      <4> HIDE DEF n
      <4> QED BY <4>1, TablesAreSeqs
    <3>6. ASSUME NEW k \in DOMAIN s PROVE TextGood(Byte, KeyVal_CloneVT(s[k]))
      <4>1. TextGood(Chars, s[k]) /\ "unknown" \in DOMAIN s[k]
        BY <3>1, AlwaysUnknown, InnerTypes DEF GoodFlat
      <4> QED BY <1>6, <4>1, CopiesAre DEF KeyVal_CloneVT
    <3> QED BY <3>2, <3>5, <3>6
  <2>4. "attributes" \in DOMAIN c => c["attributes"] = as
    BY <1>3
  <2> QED BY <2>1, <2>2, <2>3, <2>4 DEF Still
<1> QED BY <1>5, <1>6 DEF c

\* Whatever the message is, its clone has bytes of its own in unknownFields and
\* payload, and shares none of the buffer if the message does not.
LEMMA CloneIs ==
  ASSUME buf \in Seq(Byte), NEW type \in Types, NEW m, Good(Chars, type, m)
  PROVE  OwnBytes(CloneVT(type, m)) /\ (~unsafe => Still(CloneVT(type, m)))
<1>1. TextGood(Chars, m) /\ "unknown" \in DOMAIN m
  BY AlwaysUnknown DEF Good, GoodFlat
<1>2. CASE type = "AppRequest"
  BY <1>1, <1>2, FlatClone DEF CloneVT, AppRequest_CloneVT, Nested
<1>3. CASE type = "AppResponse"
  BY <1>1, <1>3, FlatClone DEF CloneVT, AppResponse_CloneVT, Nested
<1>4. CASE type = "AppTrace"
  BY <1>1, <1>4, FlatClone DEF CloneVT, AppTrace_CloneVT, Nested
<1>5. CASE type = "KeyVal"
  BY <1>1, <1>5, FlatClone DEF CloneVT, KeyVal_CloneVT, Nested
<1>6. CASE type = "AppInfo"
  BY <1>6, InfoClone DEF CloneVT
<1>7. CASE type = "NatsMessage"
  BY <1>1, <1>7, FlatClone DEF CloneVT, NatsMessage_CloneVT, Nested
<1>8. CASE type = "ZmtpMessage"
  BY <1>1, <1>8, FlatClone DEF CloneVT, ZmtpMessage_CloneVT, Nested
<1> QED BY <1>2, <1>3, <1>4, <1>5, <1>6, <1>7, <1>8 DEF Types

\* The messages of the calls, too.
LEMMA GoodIsStill ==
  ASSUME NEW type \in Types, NEW m, Good(Byte, type, m)
  PROVE  Still(m)
<1>1. TextGood(Byte, m) /\ Fits(type, m)
  BY DEF Good, GoodFlat
<1>2. CASE type = "AppInfo"
  BY <1>2 DEF Good, GoodFlat, Still
<1>3. CASE type # "AppInfo"
  <2>1. \A f \in Nested : f \notin Names(type)
    <3>1. ASSUME NEW n \in DOMAIN Cases(type) PROVE Cases(type)[n][2] \notin Nested
      BY <1>3, CasesFit, NamesAreKinds DEF CaseFits
    <3> QED BY <3>1 DEF Names, Nested
  <2>2. DOMAIN m \cap Nested = {}
    BY <1>1, <2>1 DEF Fits, Names
  <2> QED BY <1>1, <2>2 DEF Still, Inner, Nested
<1> QED BY <1>2, <1>3

\* A clone is there when the call returned.
CloneInv ==
  IF pc \in {"done", "reused"} THEN OwnBytes(clone) /\ (~unsafe => Still(clone))
  ELSE clone = <<>>

TypeInv ==
  /\ BoundsInv /\ StackInv /\ CloneInv
  /\ cut \in BOOLEAN /\ unsafe \in BOOLEAN
  /\ pc \in {"tag", "field", "done", "error", "reused"}
  /\ field \in [num: Nat, wire: 0..7, pre: Nat]

LEMMA TypeInit == Init => TypeInv
<1>. SUFFICES ASSUME Init PROVE TypeInv
  OBVIOUS
<1>1. sent.type \in Types
  BY SentInit DEF SentInv
<1>2. /\ pc = "tag" /\ unsafe \in BOOLEAN /\ field = NoField /\ clone = <<>>
      /\ ends = <<Len(buf)>>
      /\ stack = <<[type |-> sent.type, into |-> "", inPlace |-> TRUE,
                    msg |-> Empty(sent.type)]>>
  BY DEF Init
<1>3. cut \in BOOLEAN
  <2>1. CASE cut = FALSE
    BY <2>1
  <2>2. CASE cut # FALSE
    <3>1. PICK s \in Sent, strict \in BOOLEAN :
            \E n \in 0..Len(FlattenSeq([k \in DOMAIN s.messages |->
                                         MarshalVT(s.type, strict, s.messages[k])])) :
              cut = (n < Len(FlattenSeq([k \in DOMAIN s.messages |->
                                           MarshalVT(s.type, strict, s.messages[k])])))
      BY <2>2 DEF Init
    <3>. DEFINE len == Len(FlattenSeq([k \in DOMAIN s.messages |->
                                         MarshalVT(s.type, strict, s.messages[k])]))
    <3>2. PICK n \in 0..len : cut = (n < len)
      BY <3>1
    <3>. HIDE DEF len
    <3>3. CASE n < len
      BY <3>2, <3>3
    <3>4. CASE ~(n < len)
      BY <3>2, <3>4
    <3>. QED
      BY <3>3, <3>4
  <2>. QED
    BY <2>1, <2>2
<1>. DEFINE c == [type |-> sent.type, into |-> "", inPlace |-> TRUE,
                  msg |-> Empty(sent.type)]
<1>4. IsCall(c)
  <2>1. Good(Chars, sent.type, Empty(sent.type))
    BY <1>1, EmptyGood
  <2>. QED
    BY <1>1, <2>1 DEF IsCall, IsAFunction
<1>5. stack = <<c>>
  BY <1>2
<1>. HIDE DEF c
<1>6. IsSequence(stack) /\ Len(stack) = 1 /\ stack[1] = c
  BY <1>5, OneCall
<1>7. Len(ends) = 1
  BY <1>2
<1>8. StackInv
  BY <1>4, <1>6, <1>7 DEF StackInv
<1>9. CloneInv
  BY <1>2 DEF CloneInv
<1>10. field \in [num: Nat, wire: 0..7, pre: Nat]
  <2>1. NoField \in [num: Nat, wire: 0..7, pre: Nat]
    BY DEF NoField
  <2>. QED
    BY <1>2, <2>1
<1>. QED
  BY <1>2, <1>3, <1>8, <1>9, <1>10, BoundsInit DEF TypeInv

\* A tag is a positive number and three bits.
LEMMA TagIsTyped ==
  ASSUME BoundsInv, ReadTag
  PROVE  field' \in [num: Nat, wire: 0..7, pre: Nat]
<1>1. VarintOk(iNdEx) /\ TagNum > 0 /\ iNdEx \in Nat
  BY Positions DEF ReadTag, TagOk
<1>. DEFINE v == Varint(iNdEx)
<1>2. v \in Nat
  BY <1>1, VarintIsNumber
<1>3. TagNum = Signed32(v \div 8) /\ TagWire = v % 8
  BY DEF TagNum, TagWire
<1>. HIDE DEF v
<1>4. v \div 8 \in Nat /\ v % 8 \in 0..7
  BY <1>2
<1>5. Signed32(v \div 8) \in Int
  <2>1. Word32 \in Nat /\ Word32 > 0
    BY WordsAssumption
  <2>2. (v \div 8) % Word32 \in Nat
    BY <1>4, <2>1
  <2>. QED
    BY <2>1, <2>2 DEF Signed32
<1>6. TagNum \in Nat
  BY <1>1, <1>3, <1>5
<1>. QED
  BY <1>1, <1>3, <1>4, <1>6 DEF ReadTag

\* The owner of the buffer leaves as many bytes in it.
LEMMA ReuseStack ==
  ASSUME BoundsInv, StackInv, Reuse
  PROVE  StackInv'
<1>1. /\ buf \in Seq(Byte) /\ buf' = [k \in DOMAIN buf |-> 255 - buf[k]]
      /\ UNCHANGED <<unsafe, ends, stack>> /\ pc = "done"
  BY DEF BoundsInv, Reuse, inputVars
<1>2. Len(buf') = Len(buf)
  <2>1. Len(buf) \in Nat /\ DOMAIN buf = 1..Len(buf)
    BY <1>1
  <2>2. buf' = [k \in 1..Len(buf) |-> 255 - buf[k]]
    BY <1>1, <2>1
  <2>. QED
    BY <2>1, <2>2
<1>3. Chars' = Chars
  BY <1>1, <1>2 DEF Chars
<1>4. \A k \in 1..Len(stack) : IsCall(stack[k])'
  BY <1>1, <1>3 DEF StackInv, IsCall
<1>5. Len(stack) # 2
  BY <1>1 DEF StackInv
<1>. QED
  BY <1>1, <1>4, <1>5 DEF StackInv

LEMMA StackNext ==
  ASSUME BoundsInv, StackInv, Next
  PROVE  StackInv'
<1>1. CASE BadTag \/ WrongWireType \/ BadVarint \/ BadLength \/ BadUnknown
  BY <1>1, FailStack
  DEF BadTag, WrongWireType, BadVarint, BadLength, BadUnknown
<1>2. CASE ReadTag \/ Return
  <2>1. /\ UNCHANGED <<unsafe, buf, ends, stack>>
        /\ pc' = "field" \/ Len(stack) = 1
    BY <1>2 DEF ReadTag, Return, inputVars, StackInv
  <2>2. Chars' = Chars
    BY <2>1, CharsAre
  <2>3. \A k \in 1..Len(stack) : IsCall(stack[k])'
    BY <2>1, <2>2 DEF StackInv, IsCall
  <2>. QED
    BY <2>1, <2>3 DEF StackInv
<1>3. CASE ReadNumber
  BY <1>3, NumberStack
<1>4. CASE ReadText
  BY <1>4, TextStack
<1>5. CASE EnterMessage
  BY <1>5, EnterStack
<1>6. CASE LeaveMessage
  BY <1>6, LeaveStack
<1>7. CASE SkipUnknown
  BY <1>7, UnknownStack
<1>8. CASE Reuse
  BY <1>8, ReuseStack
<1>. QED
  BY <1>1, <1>2, <1>3, <1>4, <1>5, <1>6, <1>7, <1>8 DEF Next, Decode

LEMMA CloneNext ==
  ASSUME BoundsInv, StackInv, CloneInv, Next
  PROVE  CloneInv'
<1>1. CASE Return
  <2>1. clone' = CloneVT(top.type, top.msg) /\ unsafe' = unsafe /\ pc' = "done"
    BY <1>1 DEF Return, inputVars
  <2>2. top.type \in Types /\ Good(Chars, top.type, top.msg) /\ buf \in Seq(Byte)
    BY TopIsACall DEF IsCall, BoundsInv
  <2>3. /\ OwnBytes(CloneVT(top.type, top.msg))
        /\ ~unsafe => Still(CloneVT(top.type, top.msg))
    BY <2>2, CloneIs
  <2>4. OwnBytes(clone') /\ (~unsafe' => Still(clone'))
    BY <2>1, <2>3
  <2>. QED
    BY <2>1, <2>4 DEF CloneInv
<1>2. CASE Reuse
  BY <1>2 DEF Reuse, CloneInv, inputVars, OwnBytes, Still
<1>3. CASE Next /\ ~Return /\ ~Reuse
  <2>1. /\ clone' = clone /\ pc \in {"tag", "field"} /\ pc' \in {"tag", "field", "error"}
    BY <1>3 DEF Next, Decode, BadTag, ReadTag, WrongWireType, BadVarint, ReadNumber,
                BadLength, ReadText, EnterMessage, LeaveMessage, SkipUnknown,
                BadUnknown, Known, Expected, Counted, Unknown, NextField, Fail
  <2>. QED
    BY <2>1 DEF CloneInv
<1>. QED
  BY <1>1, <1>2, <1>3

LEMMA TypeNext == TypeInv /\ [Next]_vars => TypeInv'
<1>. SUFFICES ASSUME TypeInv, [Next]_vars PROVE TypeInv'
  OBVIOUS
<1>1. CASE Next
  <2>1. BoundsInv' /\ StackInv' /\ CloneInv'
    BY <1>1, BoundsNext, StackNext, CloneNext DEF TypeInv
  <2>2. cut' = cut /\ unsafe' = unsafe
    BY <1>1, InputsStay DEF inputVars
  <2>3. pc' \in {"tag", "field", "done", "error", "reused"}
    BY <1>1 DEF Next, Decode, Fail, NextField, BadTag, ReadTag, WrongWireType,
                BadVarint, ReadNumber, BadLength, ReadText, EnterMessage,
                LeaveMessage, SkipUnknown, BadUnknown, Return, Reuse
  <2>4. ReadTag \/ field' = field
    BY <1>1 DEF Next, Decode, Fail, NextField, BadTag, WrongWireType,
                BadVarint, ReadNumber, BadLength, ReadText, EnterMessage,
                LeaveMessage, SkipUnknown, BadUnknown, Return, Reuse
  <2>5. field' \in [num: Nat, wire: 0..7, pre: Nat]
    BY <2>4, TagIsTyped DEF TypeInv
  <2>. QED
    BY <2>1, <2>2, <2>3, <2>5 DEF TypeInv
<1>2. CASE UNCHANGED vars
  <2>1. Chars' = Chars
    BY <1>2, CharsAre DEF vars
  <2>2. StackInv'
    BY <1>2, <2>1 DEF vars, TypeInv, StackInv, IsCall
  <2>3. BoundsInv'
    BY <1>2, BoundsNext DEF TypeInv
  <2>4. CloneInv'
    BY <1>2 DEF vars, TypeInv, CloneInv, OwnBytes, Still
  <2>. QED
    BY <1>2, <2>2, <2>3, <2>4 DEF vars, TypeInv
<1>. QED
  BY <1>1, <1>2

\* A decoder never leaves a message with a field of another type or with both
\* cases of its oneof, an error within a nested call leaves the outer call alone,
\* and a clone is there when the call returned
\* (WasmPluginApi_vtproto.pb.go:2840-3317).
THEOREM DecoderTypeCorrect == Spec => []TypeOK
<1>1. TypeInv => TypeOK
  <2>. SUFFICES ASSUME TypeInv PROVE TypeOK
    OBVIOUS
  <2>1. \A k \in DOMAIN buf : buf[k] \in Byte
    BY DEF TypeInv, BoundsInv
  <2>2. /\ Len(stack) \in {1, 2} /\ Len(ends) = Len(stack)
        /\ pc \in {"done", "error", "reused"} => Len(stack) = 1
    BY DEF TypeInv, StackInv
  <2>3. \A k \in DOMAIN stack : Fits(stack[k].type, stack[k].msg)
    BY TopIsACall DEF TypeInv, StackInv, IsCall, Good, GoodFlat
  <2>4. (clone # <<>>) = (pc \in {"done", "reused"})
    <3>1. pc \in {"done", "reused"} => "unknown" \in DOMAIN clone
      BY DEF TypeInv, CloneInv, OwnBytes
    <3>2. DOMAIN <<>> = {}
      OBVIOUS
    <3>3. pc \notin {"done", "reused"} => clone = <<>>
      BY DEF TypeInv, CloneInv
    <3>. QED
      BY <3>1, <3>2, <3>3
  <2>. QED
    BY <2>1, <2>2, <2>3, <2>4 DEF TypeInv, TypeOK
<1>. QED
  BY TypeInit, TypeNext, <1>1, PTL DEF Spec

\* What is read of a safe decoder's message and clone, and of the unknown fields
\* and the payload of any clone, is in no buffer.
OwnText ==
  /\ ~unsafe => Read(top.msg) = top.msg
  /\ pc \in {"done", "reused"} =>
       /\ ~unsafe => Read(clone) = clone
       /\ Bytes(clone.unknown) = clone.unknown
       /\ "payload" \in DOMAIN clone => Bytes(clone.payload) = clone.payload

LEMMA TypeInvGivesOwnText == TypeInv => OwnText
<1>. SUFFICES ASSUME TypeInv PROVE OwnText
  OBVIOUS
<1>1. ASSUME ~unsafe PROVE Read(top.msg) = top.msg
  <2>1. top.type \in Types /\ Good(Byte, top.type, top.msg)
    BY <1>1, TopIsACall DEF TypeInv, IsCall, Chars
  <2>2. Still(top.msg)
    BY <2>1, GoodIsStill
  <2>. QED
    BY <2>2, StillReadsItself
<1>2. ASSUME pc \in {"done", "reused"}
      PROVE  /\ ~unsafe => Read(clone) = clone
             /\ Bytes(clone.unknown) = clone.unknown
             /\ "payload" \in DOMAIN clone => Bytes(clone.payload) = clone.payload
  <2>1. OwnBytes(clone) /\ (~unsafe => Still(clone))
    BY <1>2 DEF TypeInv, CloneInv
  <2>2. ~unsafe => Read(clone) = clone
    BY <2>1, StillReadsItself
  <2>. QED
    BY <2>1, <2>2, BytesStay DEF OwnBytes
<1>. QED
  BY <1>1, <1>2 DEF OwnText

\* Whoever reuses the buffer once the call returned changes nothing that is read
\* in a message of the safe decoder or in its clone, nor in the payload and the
\* unknown fields of a clone of the unsafe decoder's message
\* (WasmPluginApi_vtproto.pb.go:247-290, 5049-5101).
ReuseIsNotSeen ==
  [][pc = "done" =>
       /\ ~unsafe => /\ Read(top.msg)' = Read(top.msg)
                     /\ Read(clone)' = Read(clone)
       /\ Bytes(clone.unknown)' = Bytes(clone.unknown)
       /\ "payload" \in DOMAIN clone =>
            Bytes(clone.payload)' = Bytes(clone.payload)]_vars

THEOREM ReuseIsNeverSeen == Spec => ReuseIsNotSeen
<1>1. OwnText /\ OwnText' /\ [Next]_vars =>
        [pc = "done" =>
           /\ ~unsafe => /\ Read(top.msg)' = Read(top.msg)
                         /\ Read(clone)' = Read(clone)
           /\ Bytes(clone.unknown)' = Bytes(clone.unknown)
           /\ "payload" \in DOMAIN clone =>
                Bytes(clone.payload)' = Bytes(clone.payload)]_vars
  <2>. SUFFICES ASSUME OwnText, OwnText', Next, pc = "done"
       PROVE  /\ ~unsafe => /\ Read(top.msg)' = Read(top.msg)
                            /\ Read(clone)' = Read(clone)
              /\ Bytes(clone.unknown)' = Bytes(clone.unknown)
              /\ "payload" \in DOMAIN clone =>
                   Bytes(clone.payload)' = Bytes(clone.payload)
    OBVIOUS
  <2>1. Reuse
    BY DEF Next, Decode, BadTag, ReadTag, WrongWireType, BadVarint, ReadNumber,
           BadLength, ReadText, EnterMessage, LeaveMessage, SkipUnknown,
           BadUnknown, Known, Expected, Counted, Unknown, Return
  <2>2. UNCHANGED <<unsafe, stack, clone>> /\ pc' = "reused"
    BY <2>1 DEF Reuse, inputVars
  <2>3. top' = top
    BY <2>2 DEF top
  <2>4. ~unsafe => Read(top.msg)' = top'.msg /\ Read(clone)' = clone'
    BY <2>2 DEF OwnText
  <2>5. /\ Bytes(clone.unknown)' = clone'.unknown
        /\ "payload" \in DOMAIN clone => Bytes(clone.payload)' = clone'.payload
    BY <2>2 DEF OwnText
  <2>6. /\ ~unsafe => Read(top.msg) = top.msg /\ Read(clone) = clone
        /\ Bytes(clone.unknown) = clone.unknown
        /\ "payload" \in DOMAIN clone => Bytes(clone.payload) = clone.payload
    BY DEF OwnText
  <2>. QED
    BY <2>2, <2>3, <2>4, <2>5, <2>6
<1>. QED
  BY TypeInit, TypeNext, TypeInvGivesOwnText, <1>1, PTL DEF Spec, ReuseIsNotSeen

------------------------------------------------------------------------------
(* Bytes as a list of fields, and the messages between them *)

\* 2^31
Half == Word32 \div 2

\* What the assumption on the words says of 2^31.
LEMMA HalfWord ==
  /\ Word32 \in Nat \ {0} /\ Word64 \in Nat \ {0} /\ Word32 <= Word64
  /\ Half \in Nat /\ Half > 255 /\ Word32 = 2 * Half
  /\ \E k \in Int : Word64 = k * Word32
<1>1. Word32 \in Nat \ {0} /\ Word64 \in Nat \ {0} /\ Word32 <= Word64 /\ Word32 > 512
  BY WordsAssumption
<1>2. Half \in Nat /\ Half > 255 /\ Word32 = 2 * Half
  BY <1>1, WordsAssumption DEF Half
<1>3. \E k \in Int : Word64 = k * Word32
  <2>1. Word64 = Word32 * (Word64 \div Word32) + (Word64 % Word32) /\ Word64 \div Word32 \in Int
    BY <1>1, DividesOut
  <2> DEFINE k == Word64 \div Word32
  <2>2. k \in Int /\ Word64 = Word32 * k + 0
    BY <2>1, WordsAssumption
  <2> HIDE DEF k
  <2>3. Word64 = k * Word32
    BY <1>1, <2>2
  <2> QED BY <2>2, <2>3
<1> QED BY <1>1, <1>2, <1>3

\* A number of 32 bits with a sign, sent as one of 64 bits, comes back
\* (int32(uint64(v)) and its inverse, WasmPluginApi_vtproto.pb.go:3021-3036).
LEMMA SignedBack ==
  ASSUME NEW v \in -Half..(Half - 1)
  PROVE  Signed32(v % Word64) = v
<1> USE HalfWord
<1> DEFINE w == v % Word64
           u == w % Word32
<1>1. v \in Int
  OBVIOUS
<1>2. CASE v >= 0
  <2>1. w = v
    <3>1. v \in 0..(Word64 - 1)
      BY <1>2
    <3> QED BY <3>1, SmallMod
  <2>2. u = v
    <3>1. v \in 0..(Word32 - 1)
      BY <1>2
    <3> QED BY <2>1, <3>1, SmallMod
  <2> HIDE DEF w
  <2> HIDE DEF u
  <2>3. u < Half
    BY <2>2
  <2> QED BY <2>2, <2>3 DEF Signed32, Half, u, w
<1>3. CASE v < 0
  <2>1. w = v + Word64
    <3>1. v + Word64 \in 0..(Word64 - 1)
      BY <1>3
    <3>2. (v + Word64) % Word64 = v + Word64
      BY <3>1, SmallMod
    <3>3. (v + Word64) % Word64 = v % Word64
      BY <1>1, ModOfOneMore, Zenon
    <3> QED BY <3>2, <3>3
  <2>2. u = v + Word32
    <3>1. PICK k \in Int : Word64 = k * Word32
      BY HalfWord
    <3>2. (v + k * Word32) % Word32 = v % Word32
      BY <1>1, <3>1, ModOfMultiple, Zenon
    <3>7. w % Word32 = v % Word32
      BY <2>1, <3>1, <3>2, Zenon
    <3>3. v + Word32 \in 0..(Word32 - 1)
      BY <1>3
    <3>4. (v + Word32) % Word32 = v + Word32
      BY <3>3, SmallMod
    <3>5. (v + Word32) % Word32 = v % Word32
      BY <1>1, ModOfOneMore, Zenon
    <3> QED BY <3>7, <3>4, <3>5
  <2> HIDE DEF w
  <2> HIDE DEF u
  <2>3. ~(u < Half) /\ u - Word32 = v
    BY <2>2, <1>3
  <2> QED BY <2>3 DEF Signed32, Half, u, w
<1> QED BY <1>2, <1>3

\* Nothing of a small number is lost.
LEMMA SmallBack ==
  ASSUME NEW v \in 0..(Half - 1)
  PROVE  Signed32(v) = v /\ Signed32(v % Word64) = v /\ v % Word64 = v
<1> USE HalfWord
<1>1. v \in 0..(Word64 - 1) /\ v \in -Half..(Half - 1)
  OBVIOUS
<1>2. v % Word64 = v
  BY <1>1, SmallMod
<1>3. Signed32(v % Word64) = v
  BY <1>1, SignedBack
<1> QED BY <1>2, <1>3

\* A uint32 is what its varint is cut down to.
LEMMA WordBack ==
  ASSUME NEW v \in 0..(Word32 - 1)
  PROVE  v % Word64 = v /\ (v % Word64) % Word32 = v
<1> USE HalfWord
<1>1. v \in 0..(Word64 - 1)
  OBVIOUS
<1>2. v % Word64 = v /\ v % Word32 = v
  BY <1>1, SmallMod
<1> QED BY <1>2

\* The number a field of kind k gets from a varint.
NumberAs(k, w) ==
  CASE k = "uint32" -> w % Word32
    [] k = "int32" -> Signed32(w)
    [] k = "bool" -> w % Word32 # 0

\* The kind and the name of the n-th case of a decoder's switch.
KindOf(type, n) == Cases(type)[n][1]
NameOf(type, n) == Cases(type)[n][2]

\* What stands behind the tag of a field this schema does not know.
Payload(wire, s) ==
  \/ wire = 0 /\ \E x \in Int : s = EncodeVarint(x)
  \/ wire = 1 /\ s \in Seq(Byte) /\ Len(s) = 8
  \/ wire = 2 /\ \E t \in Seq(Byte) : Len(t) < Half /\ s = EncodeVarint(Len(t)) \o t
  \/ wire \in {3, 4} /\ s = <<>>
  \/ wire = 5 /\ s \in Seq(Byte) /\ Len(s) = 4

\* A tag and what follows it.
Encoded(v, body) == EncodeVarint(v) \o body

\* A length-delimited payload is a text behind its length.
LEMMA PayloadText ==
  ASSUME NEW body, Payload(2, body)
  PROVE  \E t \in Seq(Byte) : Len(t) < Half /\ body = EncodeVarint(Len(t)) \o t
BY DEF Payload

\* The places D of b where fields begin, and its end.
Spans(b, D) == D \subseteq 0..Len(b) /\ 0 \in D /\ Len(b) \in D

\* From p to q, the next place of D, a field of b with the tag v.
Framed(b, D, p, v, body, q) ==
  /\ v \in 0..(Word64 - 1) /\ body \in Seq(Byte)
  /\ q = p + Len(Encoded(v, body)) /\ q \in D
  /\ StandsAt(b, p, Encoded(v, body))
  /\ \A r \in D : r <= p \/ r >= q

\* A field alone, or a group: d is how many groups are open at a place.
Nests(e, d) ==
  /\ Spans(e, DOMAIN d) /\ d[0] = 0 /\ d[Len(e)] = 0
  /\ \A p \in DOMAIN d : d[p] \in Nat /\ (d[p] = 0 => p \in {0, Len(e)})
  /\ \A p \in DOMAIN d \ {Len(e)} : \E v, body, q :
       /\ Framed(e, DOMAIN d, p, v, body, q)
       /\ Payload(v % 8, body)
       /\ d[q] = CASE v % 8 = 3 -> d[p] + 1
                   [] v % 8 = 4 -> d[p] - 1
                   [] OTHER -> d[p]

\* A field of a schema newer than this one.
NewerField(type, v, body) ==
  /\ v \div 8 \in 1..(Half - 1) /\ v % 8 # 4
  /\ v \div 8 \notin DOMAIN Cases(type)
  /\ \E d : Nests(Encoded(v, body), d)

\* The message m with s behind its unknown fields.
Keeping(m, s) == [m EXCEPT !.unknown = @ \o s]

\* Reading the field makes n of the message m.
FlatStep(type, m, v, body, n) ==
  \/ \E f \in DOMAIN Cases(type), x \in Int :
       /\ KindOf(type, f) \in Scalars
       /\ v = 8 * f /\ body = EncodeVarint(x)
       /\ n = Put(m, NameOf(type, f), NumberAs(KindOf(type, f), x % Word64))
  \/ \E f \in DOMAIN Cases(type), s \in Seq(Byte) :
       /\ KindOf(type, f) \in {"string", "strings"}
       /\ v = 8 * f + 2 /\ Len(s) < Half /\ body = EncodeVarint(Len(s)) \o s
       /\ n = Put(m, NameOf(type, f),
                  IF KindOf(type, f) = "strings" THEN Append(m[NameOf(type, f)], s) ELSE s)
  \/ /\ NewerField(type, v, body)
     /\ n = Keeping(m, Encoded(v, body))

\* M[p] is the message when the decoder of b is at p, between two fields.
FlatMarks(type, b, M) ==
  /\ Spans(b, DOMAIN M)
  /\ \A p \in DOMAIN M \ {Len(b)} : \E v, body, q :
       /\ Framed(b, DOMAIN M, p, v, body, q)
       /\ FlatStep(type, M[p], v, body, M[q])

\* What a nested call begins with, and what its caller holds meanwhile.
Begun(type, f, m) ==
  IF KindOf(type, f) # "messages" /\ NameOf(type, f) \in DOMAIN m
  THEN m[NameOf(type, f)] ELSE Empty(TypeOf[NameOf(type, f)])

\* The message with the nested one its decoder makes room for.
Opened(type, f, m) ==
  IF KindOf(type, f) = "messages"
  THEN Put(m, NameOf(type, f), Append(m[NameOf(type, f)], Empty("KeyVal")))
  ELSE m

\* A nested message in between m and n.
NestedStep(type, m, v, body, n) ==
  \E f \in DOMAIN Cases(type), s \in Seq(Byte) : \E N :
    /\ KindOf(type, f) \in {"message", "messages", "oneof"}
    /\ v = 8 * f + 2 /\ Len(s) < Half /\ body = EncodeVarint(Len(s)) \o s
    /\ FlatMarks(TypeOf[NameOf(type, f)], s, N) /\ N[0] = Begun(type, f, m)
    /\ n = Attach(Opened(type, f, m), NameOf(type, f), N[Len(s)])

\* One field takes the message from m to n.
Step(type, m, v, body, n) ==
  FlatStep(type, m, v, body, n) \/ NestedStep(type, m, v, body, n)

\* M[p] is what the message of the bytes b is at the place p between two fields.
Marks(type, b, M) ==
  /\ Spans(b, DOMAIN M)
  /\ \A p \in DOMAIN M \ {Len(b)} : \E v, body, q :
       /\ Framed(b, DOMAIN M, p, v, body, q)
       /\ Step(type, M[p], v, body, M[q])

\* Between what is there at least and what may be there.
Between(lows, highs, m) ==
  /\ \A w \in lows : PartFlat(w, m)
  /\ \A w \in highs : PartOf(m, w)

\* Decoding b makes n of m, never leaving the bounds.
Reaches(lows, highs, type, b, m, n, M) ==
  /\ Marks(type, b, M) /\ M[0] = m /\ M[Len(b)] = n
  /\ \A p \in DOMAIN M : Between(lows, highs, M[p])

\* The bytes b take m to n, and pass only what lies between the bounds.
Leads(lows, highs, type, b, m, n) == \E M : Reaches(lows, highs, type, b, m, n, M)

\* How long a field is.
LEMMA EncodedIs ==
  ASSUME NEW v \in Int, NEW body \in Seq(Byte)
  PROVE  /\ Encoded(v, body) \in Seq(Byte) /\ Len(Encoded(v, body)) \in Nat
         /\ Len(Encoded(v, body)) = SizeOfVarint(v) + Len(body)
         /\ SizeOfVarint(v) \in Nat \ {0} /\ Len(Encoded(v, body)) >= 1
<1> DEFINE t == EncodeVarint(v)
           g == SizeOfVarint(v)
<1>1. t \in Seq(Byte) /\ Len(t) = g /\ g \in 1..MaxGroups
  BY SizeOfVarintIsExact DEF Sized
<1> HIDE DEF t, g
<1>2. g \in Nat \ {0}
  BY <1>1, WordsAssumption
<1>3. t \o body \in Seq(Byte) /\ Len(t \o body) = Len(t) + Len(body)
  BY <1>1
<1> QED BY <1>1, <1>2, <1>3 DEF Encoded, t, g

\* The places of two encodings one behind the other.
Shifted(k, D) == {k + q : q \in D}

\* The marks of one sequence followed by those of another.
Joined(k, M, N) ==
  [p \in DOMAIN M \cup Shifted(k, DOMAIN N) |-> IF p \in DOMAIN M THEN M[p] ELSE N[p - k]]

\* Where the marks of a concatenation stand.
LEMMA JoinedIs ==
  ASSUME NEW b \in Seq(Byte), NEW c \in Seq(Byte), NEW M, NEW N,
         Spans(b, DOMAIN M), Spans(c, DOMAIN N), M[Len(b)] = N[0]
  PROVE  /\ Spans(b \o c, DOMAIN Joined(Len(b), M, N))
         /\ \A p \in DOMAIN M : p \in DOMAIN Joined(Len(b), M, N)
                                /\ Joined(Len(b), M, N)[p] = M[p]
         /\ \A q \in DOMAIN N : Len(b) + q \in DOMAIN Joined(Len(b), M, N)
                                /\ Joined(Len(b), M, N)[Len(b) + q] = N[q]
         /\ \A p \in DOMAIN Joined(Len(b), M, N) :
              p \in DOMAIN M \/ \E q \in DOMAIN N : p = Len(b) + q
         /\ Len(b \o c) = Len(b) + Len(c)
<1> DEFINE k == Len(b)
           J == Joined(k, M, N)
<1>1. k \in Nat /\ Len(c) \in Nat /\ Len(b \o c) = k + Len(c)
  OBVIOUS
<1>2. DOMAIN M \subseteq 0..k /\ 0 \in DOMAIN M /\ k \in DOMAIN M
  BY DEF Spans
<1>3. DOMAIN N \subseteq 0..Len(c) /\ 0 \in DOMAIN N /\ Len(c) \in DOMAIN N
  BY DEF Spans
<1>4. DOMAIN J = DOMAIN M \cup Shifted(k, DOMAIN N)
  BY DEF Joined
<1>5. \A p \in DOMAIN M : p \in DOMAIN J /\ J[p] = M[p]
  BY DEF Joined
<1>6. ASSUME NEW q \in DOMAIN N PROVE k + q \in DOMAIN J /\ J[k + q] = N[q]
  <2>1. k + q \in DOMAIN J
    BY <1>4 DEF Shifted
  <2>2. q \in Nat /\ (k + q) - k = q
    BY <1>1, <1>3
  <2>3. CASE q = 0
    <3>1. k + q = k
      BY <1>1, <2>3
    <3> HIDE DEF k, J
    <3> QED BY <1>2, <1>5, <2>1, <2>3, <3>1 DEF k
  <2>4. CASE q # 0
    <3>1. k + q \notin DOMAIN M
      BY <1>1, <1>2, <2>2, <2>4
    <3>2. J[k + q] = N[(k + q) - k]
      BY <2>1, <3>1 DEF Joined
    <3> QED BY <2>1, <2>2, <3>2
  <2> QED BY <2>3, <2>4
<1>7. \A p \in DOMAIN J : p \in DOMAIN M \/ \E q \in DOMAIN N : p = k + q
  BY <1>4 DEF Shifted
<1>8. Spans(b \o c, DOMAIN J)
  <2>1. DOMAIN J \subseteq 0..(k + Len(c))
    BY <1>1, <1>2, <1>3, <1>7
  <2>2. 0 \in DOMAIN J /\ k + Len(c) \in DOMAIN J
    BY <1>2, <1>3, <1>5, <1>6
  <2> HIDE DEF J, k
  <2> QED BY <1>1, <2>1, <2>2 DEF Spans
<1> QED BY <1>1, <1>5, <1>6, <1>7, <1>8

\* A field of the first half is a field of the whole,
LEMMA FramedInFirst ==
  ASSUME NEW b \in Seq(Byte), NEW c \in Seq(Byte), NEW D, NEW E,
         Spans(b, D), Spans(b \o c, E), D \subseteq E,
         \A r \in E : r \in D \/ r >= Len(b),
         NEW p \in D, NEW v, NEW body, NEW q, Framed(b, D, p, v, body, q)
  PROVE  Framed(b \o c, E, p, v, body, q)
<1> DEFINE e == Encoded(v, body)
<1>1. /\ v \in 0..(Word64 - 1) /\ body \in Seq(Byte) /\ q = p + Len(e) /\ q \in D
      /\ StandsAt(b, p, e) /\ \A r \in D : r <= p \/ r >= q
  BY DEF Framed
<1>2. e \in Seq(Byte)
  BY <1>1, EncodedIs, HalfWord
<1> HIDE DEF e
<1>3. p \in Nat /\ q \in E /\ q <= Len(b) /\ Len(b) \in Nat
  BY <1>1 DEF Spans
<1>4. StandsAt(b \o c, p, e)
  <2>1. Begins(b, b \o c) /\ b \o c \in Seq(Byte)
    BY ConcatParts, Zenon
  <2> QED BY <1>1, <1>2, <1>3, <2>1, StandsInWhole
<1>5. \A r \in E : r <= p \/ r >= q
  BY <1>1, <1>3 DEF Spans
<1> QED BY <1>1, <1>3, <1>4, <1>5 DEF Framed, e

\* and so is one of the second, further back.
LEMMA FramedInSecond ==
  ASSUME NEW b \in Seq(Byte), NEW c \in Seq(Byte), NEW D, NEW E,
         Spans(c, D), Spans(b \o c, E), \A r \in D : Len(b) + r \in E,
         \A r \in E : r <= Len(b) \/ \E q \in D : r = Len(b) + q,
         NEW p \in D, NEW v, NEW body, NEW q, Framed(c, D, p, v, body, q)
  PROVE  Framed(b \o c, E, Len(b) + p, v, body, Len(b) + q)
<1> DEFINE e == Encoded(v, body)
           k == Len(b)
<1>1. /\ v \in 0..(Word64 - 1) /\ body \in Seq(Byte) /\ q = p + Len(e) /\ q \in D
      /\ StandsAt(c, p, e) /\ \A r \in D : r <= p \/ r >= q
  BY DEF Framed
<1>2. e \in Seq(Byte) /\ Len(e) \in Nat
  BY <1>1, EncodedIs, HalfWord
<1> HIDE DEF e
<1>3. p \in Nat /\ k \in Nat /\ D \subseteq Nat
  BY DEF Spans
<1>4. k + q = (k + p) + Len(e) /\ k + q \in E
  BY <1>1, <1>2, <1>3
<1>5. StandsAt(b \o c, k + p, e)
  <2>1. StandsAt(b \o c, k, c) /\ Len(b \o c) = k + Len(c)
    BY ConcatParts, Zenon
  <2>2. ASSUME NEW i \in 1..Len(e), (k + p) + i <= Len(b \o c)
        PROVE  (b \o c)[(k + p) + i] = e[i]
    <3>1. p + i \in 1..Len(c) /\ (k + p) + i = k + (p + i)
      BY <1>2, <1>3, <2>1, <2>2
    <3>2. c[p + i] = e[i]
      BY <1>1, <3>1 DEF StandsAt
    <3> DEFINE j == p + i
    <3>3. j \in 1..Len(c) /\ k + j <= Len(b \o c)
      BY <2>2, <3>1
    <3> HIDE DEF j
    <3>4. (b \o c)[k + j] = c[j]
      BY <2>1, <3>3 DEF StandsAt
    <3> QED BY <3>1, <3>2, <3>4 DEF j
  <2> QED BY <2>2 DEF StandsAt
<1>6. ASSUME NEW r \in E PROVE r <= k + p \/ r >= k + q
  <2>1. CASE r <= k
    BY <1>3, <2>1 DEF Spans
  <2>2. CASE \E i \in D : r = k + i
    BY <1>1, <1>3, <2>2
  <2> QED BY <2>1, <2>2
<1> QED BY <1>1, <1>4, <1>5, <1>6 DEF Framed, e, k

\* Fields of one encoding, and fields of the one behind it.
LEMMA MarksThen ==
  ASSUME NEW type, NEW b \in Seq(Byte), NEW c \in Seq(Byte), NEW M, NEW N,
         Marks(type, b, M), Marks(type, c, N), M[Len(b)] = N[0]
  PROVE  Marks(type, b \o c, Joined(Len(b), M, N))
<1> DEFINE k == Len(b)
           J == Joined(k, M, N)
<1>1. Spans(b, DOMAIN M) /\ Spans(c, DOMAIN N)
  BY DEF Marks
<1>2. /\ Spans(b \o c, DOMAIN J)
      /\ \A p \in DOMAIN M : p \in DOMAIN J /\ J[p] = M[p]
      /\ \A q \in DOMAIN N : k + q \in DOMAIN J /\ J[k + q] = N[q]
      /\ \A p \in DOMAIN J : p \in DOMAIN M \/ \E q \in DOMAIN N : p = k + q
      /\ Len(b \o c) = k + Len(c)
  BY <1>1, JoinedIs
<1> HIDE DEF J
<1>3. k \in Nat /\ Len(c) \in Nat /\ DOMAIN M \subseteq 0..k /\ DOMAIN N \subseteq 0..Len(c)
  BY <1>1 DEF Spans
<1>4. ASSUME NEW p \in DOMAIN J \ {Len(b \o c)}
      PROVE  \E v, body, q :
               Framed(b \o c, DOMAIN J, p, v, body, q) /\ Step(type, J[p], v, body, J[q])
  <2>1. CASE p \in DOMAIN M /\ p # k
    <3>1. PICK v, body, q : Framed(b, DOMAIN M, p, v, body, q) /\ Step(type, M[p], v, body, M[q])
      BY <2>1 DEF Marks
    <3>2. q \in DOMAIN M
      BY <3>1 DEF Framed
    <3>3. \A r \in DOMAIN J : r \in DOMAIN M \/ r >= Len(b)
      BY <1>2, <1>3
    <3>4. Framed(b \o c, DOMAIN J, p, v, body, q)
      BY <1>1, <1>2, <2>1, <3>1, <3>3, FramedInFirst
    <3> QED BY <1>2, <2>1, <3>1, <3>2, <3>4
  <2>2. CASE ~(p \in DOMAIN M /\ p # k)
    <3>1. PICK r \in DOMAIN N : p = k + r
      <4>1. CASE p = k
        BY <1>1, <1>3, <4>1 DEF Spans
      <4> QED BY <1>2, <2>2, <4>1
    <3>2. r # Len(c)
      BY <1>2, <3>1
    <3>3. PICK v, body, q : Framed(c, DOMAIN N, r, v, body, q) /\ Step(type, N[r], v, body, N[q])
      BY <3>2 DEF Marks
    <3>4. q \in DOMAIN N
      BY <3>3 DEF Framed
    <3>5. \A i \in DOMAIN J : i <= Len(b) \/ \E j \in DOMAIN N : i = Len(b) + j
      BY <1>2, <1>3
    <3>6. Framed(b \o c, DOMAIN J, Len(b) + r, v, body, Len(b) + q)
      BY <1>1, <1>2, <3>3, <3>5, FramedInSecond
    <3>7. J[k + r] = N[r] /\ J[k + q] = N[q]
      BY <1>2, <3>4
    <3>8. Framed(b \o c, DOMAIN J, p, v, body, k + q) /\ Step(type, J[p], v, body, J[k + q])
      BY <3>1, <3>3, <3>6, <3>7
    <3> QED BY <3>8
  <2> QED BY <2>1, <2>2
<1> QED BY <1>2, <1>4 DEF Marks, J

\* What leads to n and what leads on from n, one behind the other.
LEMMA LeadsThen ==
  ASSUME NEW lows, NEW highs, NEW type, NEW b \in Seq(Byte), NEW c \in Seq(Byte),
         NEW m, NEW n, NEW o,
         Leads(lows, highs, type, b, m, n), Leads(lows, highs, type, c, n, o)
  PROVE  Leads(lows, highs, type, b \o c, m, o)
<1>1. PICK M : Reaches(lows, highs, type, b, m, n, M)
  BY DEF Leads
<1>2. PICK N : Reaches(lows, highs, type, c, n, o, N)
  BY DEF Leads
<1> DEFINE J == Joined(Len(b), M, N)
<1>3. /\ Marks(type, b, M) /\ M[0] = m /\ M[Len(b)] = n
      /\ \A p \in DOMAIN M : Between(lows, highs, M[p])
  BY <1>1 DEF Reaches
<1>4. /\ Marks(type, c, N) /\ N[0] = n /\ N[Len(c)] = o
      /\ \A p \in DOMAIN N : Between(lows, highs, N[p])
  BY <1>2 DEF Reaches
<1>5. Spans(b, DOMAIN M) /\ Spans(c, DOMAIN N)
  BY <1>3, <1>4 DEF Marks
<1>6. Marks(type, b \o c, J)
  BY <1>3, <1>4, MarksThen
<1>7. /\ \A p \in DOMAIN M : p \in DOMAIN J /\ J[p] = M[p]
      /\ \A q \in DOMAIN N : Len(b) + q \in DOMAIN J /\ J[Len(b) + q] = N[q]
      /\ \A p \in DOMAIN J : p \in DOMAIN M \/ \E q \in DOMAIN N : p = Len(b) + q
      /\ Len(b \o c) = Len(b) + Len(c)
  BY <1>3, <1>4, <1>5, JoinedIs
<1> HIDE DEF J
<1>8. J[0] = m /\ J[Len(b \o c)] = o
  BY <1>3, <1>4, <1>5, <1>7 DEF Spans
<1>9. \A p \in DOMAIN J : Between(lows, highs, J[p])
  BY <1>3, <1>4, <1>7
<1> QED BY <1>6, <1>8, <1>9 DEF Leads, Reaches

\* No bytes lead nowhere.
LEMMA LeadsNothing ==
  ASSUME NEW lows, NEW highs, NEW type, NEW m, Between(lows, highs, m)
  PROVE  Leads(lows, highs, type, <<>>, m, m)
<1> DEFINE M == [p \in {0} |-> m]
<1>1. Len(<<>>) = 0
  OBVIOUS
<1>2. DOMAIN M = {0} /\ M[0] = m
  OBVIOUS
<1> HIDE DEF M
<1>3. Marks(type, <<>>, M)
  BY <1>1, <1>2 DEF Marks, Spans
<1> QED BY <1>1, <1>2, <1>3 DEF Leads, Reaches

\* One field leads where its step goes.
LEMMA LeadsStep ==
  ASSUME NEW lows, NEW highs, NEW type, NEW m, NEW n,
         NEW v \in 0..(Word64 - 1), NEW body \in Seq(Byte),
         Step(type, m, v, body, n), Between(lows, highs, m), Between(lows, highs, n)
  PROVE  Leads(lows, highs, type, Encoded(v, body), m, n)
<1> DEFINE b == Encoded(v, body)
           k == Len(b)
           M == [p \in {0, k} |-> IF p = 0 THEN m ELSE n]
<1>1. b \in Seq(Byte) /\ k \in Nat /\ k >= 1
  BY HalfWord, EncodedIs
<1>2. DOMAIN M = {0, k} /\ M[0] = m /\ M[k] = n
  BY <1>1
<1> HIDE DEF M
<1>3. Spans(b, DOMAIN M)
  BY <1>1, <1>2 DEF Spans
<1>4. StandsAt(b, 0, b)
  BY <1>1 DEF StandsAt
<1>5. Framed(b, DOMAIN M, 0, v, body, k)
  BY <1>1, <1>2, <1>4 DEF Framed
<1>6. ASSUME NEW p \in DOMAIN M \ {Len(b)}
      PROVE  \E x, t, q : Framed(b, DOMAIN M, p, x, t, q) /\ Step(type, M[p], x, t, M[q])
  <2>1. p = 0
    BY <1>2
  <2> QED BY <1>2, <1>5, <2>1
<1>7. Marks(type, b, M)
  BY <1>3, <1>6 DEF Marks
<1> QED BY <1>2, <1>7 DEF Leads, Reaches

\* No message stands in a message that is not an AppInfo.
LEMMA FlatTypes ==
  ASSUME NEW type \in Types, type # "AppInfo", NEW b, NEW M, Marks(type, b, M)
  PROVE  FlatMarks(type, b, M)
<1>1. ASSUME NEW m, NEW v, NEW body, NEW n, Step(type, m, v, body, n)
      PROVE  FlatStep(type, m, v, body, n)
  <2>1. ~NestedStep(type, m, v, body, n)
    <3>1. \A f \in DOMAIN Cases(type) : KindOf(type, f) \notin {"message", "messages", "oneof"}
      BY CasesFit DEF CaseFits, KindOf
    <3> QED BY <3>1 DEF NestedStep
  <2> QED BY <1>1, <2>1 DEF Step
<1> QED BY <1>1 DEF Marks, FlatMarks

\* The marks of a nested message are marks.
LEMMA FlatAreMarks ==
  ASSUME NEW type, NEW b, NEW M, FlatMarks(type, b, M)
  PROVE  Marks(type, b, M)
BY DEF Marks, FlatMarks, Step

------------------------------------------------------------------------------
(* What is read of a message in a buffer B *)

\* What a byte, own or shared, reads as in B; ReadIn below is Read with the
\* buffer as a parameter.
ByteIn(B, c) == IF c >= 256 THEN B[c - 256] ELSE c

BytesIn(B, s) == [k \in DOMAIN s |-> ByteIn(B, s[k])]

FlatField(B, f, v) ==
  IF f \in Counts \cup Flags \cup Nested THEN v
  ELSE IF f = "trace_ids" THEN [k \in DOMAIN v |-> BytesIn(B, v[k])]
  ELSE BytesIn(B, v)

FlatIn(B, m) == [f \in DOMAIN m |-> FlatField(B, f, m[f])]

ReadField(B, f, v) ==
  IF f \in Inner THEN FlatIn(B, v)
  ELSE IF f = "attributes" THEN [k \in DOMAIN v |-> FlatIn(B, v[k])]
  ELSE FlatField(B, f, v)

ReadIn(B, m) == [f \in DOMAIN m |-> ReadField(B, f, m[f])]

\* Read is ReadIn of the buffer there is.
LEMMA ReadIs ==
  ASSUME NEW m
  PROVE  Read(m) = ReadIn(buf, m) /\ ReadFlat(m) = FlatIn(buf, m)
<1>1. ASSUME NEW s PROVE Bytes(s) = BytesIn(buf, s)
  BY DEF Bytes, BytesIn, ByteAt, ByteIn
<1>2. ASSUME NEW p PROVE ReadFlat(p) = FlatIn(buf, p)
  BY <1>1 DEF ReadFlat, FlatIn, FlatField
<1>3. ASSUME NEW f \in DOMAIN m
      PROVE  (IF f \in {"req", "resp", "trace"} THEN ReadFlat(m[f])
              ELSE IF f = "attributes" THEN [k \in DOMAIN m[f] |-> ReadFlat(m[f][k])]
              ELSE ReadFlat(m)[f]) = ReadField(buf, f, m[f])
  <2>1. ReadFlat(m)[f] = FlatField(buf, f, m[f])
    BY <1>2 DEF FlatIn
  <2>2. ReadFlat(m[f]) = FlatIn(buf, m[f])
    BY <1>2
  <2>3. [k \in DOMAIN m[f] |-> ReadFlat(m[f][k])] = [k \in DOMAIN m[f] |-> FlatIn(buf, m[f][k])]
    BY <1>2
  <2> QED BY <2>1, <2>2, <2>3 DEF ReadField, Inner
<1>4. Read(m) = ReadIn(buf, m)
  BY <1>3 DEF Read, ReadIn
<1> QED BY <1>2, <1>4

\* Field by field.
LEMMA ReadHas ==
  ASSUME NEW B, NEW m
  PROVE  /\ DOMAIN ReadIn(B, m) = DOMAIN m
         /\ \A f \in DOMAIN m : ReadIn(B, m)[f] = ReadField(B, f, m[f])
         /\ DOMAIN FlatIn(B, m) = DOMAIN m
         /\ \A f \in DOMAIN m : FlatIn(B, m)[f] = FlatField(B, f, m[f])
BY DEF ReadIn, FlatIn

\* A field that was set reads as what it was set to.
LEMMA ReadOfPut ==
  ASSUME NEW B, NEW m, NEW f, NEW v
  PROVE  ReadIn(B, Put(m, f, v)) = Put(ReadIn(B, m), f, ReadField(B, f, v))
<1> DEFINE p == Put(m, f, v)
           r == ReadIn(B, m)
           x == ReadField(B, f, v)
<1>1. DOMAIN p = DOMAIN m \cup {f} /\ \A g \in DOMAIN p : p[g] = IF g = f THEN v ELSE m[g]
  BY DEF Put
<1>2. DOMAIN r = DOMAIN m /\ \A g \in DOMAIN m : r[g] = ReadField(B, g, m[g])
  BY ReadHas
<1>3. Put(r, f, x) = [g \in DOMAIN r \cup {f} |-> IF g = f THEN x ELSE r[g]]
  BY DEF Put
<1> HIDE DEF p, r
<1>4. ReadIn(B, p) = [g \in DOMAIN m \cup {f} |-> ReadField(B, g, p[g])]
  BY <1>1 DEF ReadIn
<1>5. ASSUME NEW g \in DOMAIN m \cup {f}
      PROVE  ReadField(B, g, p[g]) = IF g = f THEN x ELSE r[g]
  BY <1>1, <1>2
<1> HIDE DEF x
<1>6. [g \in DOMAIN m \cup {f} |-> ReadField(B, g, p[g])]
        = [g \in DOMAIN m \cup {f} |-> IF g = f THEN x ELSE r[g]]
  BY <1>5
<1>7. Put(r, f, x) = [g \in DOMAIN m \cup {f} |-> IF g = f THEN x ELSE r[g]]
  BY <1>2, <1>3
<1>8. ReadIn(B, p) = Put(r, f, x)
  BY <1>4, <1>6, <1>7, Zenon
<1> QED BY <1>8 DEF p, r, x

\* Bytes of one's own read as themselves.
LEMMA OwnBytesRead ==
  ASSUME NEW B, NEW s \in Seq(Byte)
  PROVE  BytesIn(B, s) = s
<1>1. ASSUME NEW k \in DOMAIN s PROVE ByteIn(B, s[k]) = s[k]
  BY DEF ByteIn, Byte
<1>2. BytesIn(B, s) = [k \in DOMAIN s |-> s[k]]
  BY <1>1 DEF BytesIn
<1> QED BY <1>2

\* So does a message of them.
LEMMA OwnFlatRead ==
  ASSUME NEW B, NEW m, TextGood(Byte, m)
  PROVE  FlatIn(B, m) = m
<1>1. ASSUME NEW f \in DOMAIN m PROVE FlatField(B, f, m[f]) = m[f]
  <2>1. CASE f = "trace_ids"
    <3>1. m[f] \in Seq(Seq(Byte))
      BY <2>1 DEF TextGood
    <3>2. \A k \in DOMAIN m[f] : BytesIn(B, m[f][k]) = m[f][k]
      BY <3>1, OwnBytesRead
    <3>3. [k \in DOMAIN m[f] |-> BytesIn(B, m[f][k])] = [k \in DOMAIN m[f] |-> m[f][k]]
      BY <3>2
    <3>4. m[f] = [k \in DOMAIN m[f] |-> m[f][k]]
      BY <3>1
    <3>5. f \notin Counts \cup Flags \cup Nested
      BY <2>1 DEF Counts, Flags, Nested
    <3> QED BY <2>1, <3>3, <3>4, <3>5, Zenon DEF FlatField
  <2>2. CASE Other(f)
    <3>1. BytesIn(B, m[f]) = m[f]
      BY <2>2, OwnBytesRead DEF TextGood
    <3> QED BY <2>2, <3>1 DEF Other, FlatField
  <2>3. CASE ~Other(f) /\ f # "trace_ids"
    BY <2>3 DEF Other, FlatField
  <2> QED BY <2>1, <2>2, <2>3
<1>2. [f \in DOMAIN m |-> FlatField(B, f, m[f])] = [f \in DOMAIN m |-> m[f]]
  BY <1>1
<1>3. m = [f \in DOMAIN m |-> m[f]]
  BY DEF TextGood, IsAFunction
<1> QED BY <1>2, <1>3, Zenon DEF FlatIn

\* Unknown bytes that were appended read as appended.
LEMMA ReadKept ==
  ASSUME NEW B, NEW m, "unknown" \in DOMAIN m, m.unknown \in Seq(Byte), NEW s \in Seq(Byte)
  PROVE  ReadIn(B, Keeping(m, s)) = Keeping(ReadIn(B, m), s)
<1> DEFINE p == [m EXCEPT !.unknown = @ \o s]
           r == ReadIn(B, m)
           q == [r EXCEPT !.unknown = @ \o s]
<1>1. DOMAIN p = DOMAIN m /\ \A g \in DOMAIN m : p[g] = IF g = "unknown" THEN m.unknown \o s ELSE m[g]
  OBVIOUS
<1>2. DOMAIN r = DOMAIN m /\ \A g \in DOMAIN m : r[g] = ReadField(B, g, m[g])
  BY ReadHas
<1>3. q = [g \in DOMAIN r |-> IF g = "unknown" THEN r.unknown \o s ELSE r[g]]
  OBVIOUS
<1>4. \A u \in Seq(Byte) : ReadField(B, "unknown", u) = u
  BY OwnBytesRead, NamesAreKinds, InnerTypes DEF ReadField, FlatField, Other
<1> HIDE DEF p, q, r
<1>5. m.unknown \o s \in Seq(Byte) /\ r.unknown = m.unknown
  BY <1>2, <1>4
<1>6. ASSUME NEW g \in DOMAIN m
      PROVE  ReadField(B, g, p[g]) = IF g = "unknown" THEN r.unknown \o s ELSE r[g]
  BY <1>1, <1>2, <1>4, <1>5
<1>7. ReadIn(B, p) = [g \in DOMAIN m |-> ReadField(B, g, p[g])]
  BY <1>1 DEF ReadIn
<1>8. [g \in DOMAIN m |-> ReadField(B, g, p[g])]
        = [g \in DOMAIN m |-> IF g = "unknown" THEN r.unknown \o s ELSE r[g]]
  BY <1>6
<1>9. q = [g \in DOMAIN m |-> IF g = "unknown" THEN r.unknown \o s ELSE r[g]]
  BY <1>2, <1>3
<1>10. ReadIn(B, p) = q
  BY <1>7, <1>8, <1>9, Zenon
<1> QED BY <1>10 DEF p, q, r, Keeping

\* The parts of a list that grows are read one by one.
LEMMA TextsRead ==
  ASSUME NEW B, NEW a, IsSequence(a), NEW s
  PROVE  ReadField(B, "trace_ids", Append(a, s))
           = Append(ReadField(B, "trace_ids", a), BytesIn(B, s))
<1> DEFINE A == Append(a, s)
           r == [k \in DOMAIN a |-> BytesIn(B, a[k])]
           R == Append(r, BytesIn(B, s))
           n == Len(a)
<1>1. /\ DOMAIN a = 1..n /\ n \in Nat /\ DOMAIN A = 1..(n + 1)
      /\ \A k \in 1..n : A[k] = a[k]
      /\ A[n + 1] = s
  BY AppendIsSequence
<1>2. \A v : ReadField(B, "trace_ids", v) = [k \in DOMAIN v |-> BytesIn(B, v[k])]
  BY DEF ReadField, FlatField, Inner, Counts, Flags, Nested
<1> HIDE DEF n
<1>3. IsSequence(r) /\ Len(r) = n
  <2> DEFINE T == {BytesIn(B, a[k]) : k \in 1..n}
  <2>1. r \in [1..n -> T]
    BY <1>1
  <2> HIDE DEF T, r
  <2>2. IsSequence(r)
    BY <1>1, <2>1, TablesAreSeqs
  <2> QED BY <1>1, <2>1, <2>2 DEF IsSequence
<1>4. DOMAIN r = 1..n /\ \A k \in 1..n : r[k] = BytesIn(B, a[k])
  BY <1>1
<1> DEFINE b == BytesIn(B, s)
<1>9. R = Append(r, b)
  OBVIOUS
<1> HIDE DEF r, A, R, b
<1>5. /\ IsSequence(R) /\ DOMAIN R = 1..(n + 1)
      /\ \A k \in 1..n : R[k] = r[k]
      /\ R[n + 1] = b
  BY <1>3, <1>9, AppendIsSequence
<1>6. R = [k \in 1..(n + 1) |-> R[k]]
  BY <1>1, <1>5 DEF IsSequence
<1>7. ASSUME NEW k \in 1..(n + 1) PROVE BytesIn(B, A[k]) = R[k]
  <2>1. k \in 1..n \/ k = n + 1
    BY <1>1
  <2> QED BY <1>1, <1>4, <1>5, <2>1 DEF b
<1>8. [k \in 1..(n + 1) |-> BytesIn(B, A[k])] = [k \in 1..(n + 1) |-> R[k]]
  BY <1>7
<1>10. ReadField(B, "trace_ids", A) = R
  BY <1>1, <1>2, <1>6, <1>8, Zenon
<1>11. ReadField(B, "trace_ids", a) = r
  BY <1>2 DEF r
<1> QED BY <1>9, <1>10, <1>11 DEF A, b

\* The list of messages, each as it reads.
ReadList(B, a) == [k \in DOMAIN a |-> FlatIn(B, a[k])]

\* A list of messages is read message by message.
LEMMA ReadListIs ==
  ASSUME NEW B, NEW a, IsSequence(a)
  PROVE  /\ IsSequence(ReadList(B, a)) /\ Len(ReadList(B, a)) = Len(a)
         /\ DOMAIN ReadList(B, a) = 1..Len(a) /\ DOMAIN a = 1..Len(a) /\ Len(a) \in Nat
         /\ \A k \in 1..Len(a) : ReadList(B, a)[k] = FlatIn(B, a[k])
         /\ ReadField(B, "attributes", a) = ReadList(B, a)
<1> DEFINE n == Len(a)
           r == ReadList(B, a)
           T == {FlatIn(B, a[k]) : k \in 1..n}
<1>1. n \in Nat /\ DOMAIN a = 1..n
  BY DEF IsSequence
<1>2. r \in [1..n -> T]
  BY <1>1 DEF ReadList
<1>3. \A k \in 1..n : r[k] = FlatIn(B, a[k])
  BY <1>1 DEF ReadList
<1>4. ReadField(B, "attributes", a) = r
  BY InnerTypes DEF ReadField, ReadList
<1> HIDE DEF n, r, T
<1>5. IsSequence(r)
  BY <1>1, <1>2, TablesAreSeqs
<1>6. Len(r) = n
  BY <1>1, <1>2, <1>5 DEF IsSequence
<1>7. n = Len(a) /\ r = ReadList(B, a)
  BY DEF n, r
<1>8. DOMAIN r = 1..n
  BY <1>2
<1> QED BY <1>1, <1>3, <1>4, <1>5, <1>6, <1>7, <1>8

\* One more message is read behind the others.
LEMMA MessagesRead ==
  ASSUME NEW B, NEW a, IsSequence(a), NEW c
  PROVE  ReadList(B, Append(a, c)) = Append(ReadList(B, a), FlatIn(B, c))
<1> DEFINE A == Append(a, c)
           n == Len(a)
           r == ReadList(B, a)
           b == FlatIn(B, c)
           R == Append(r, b)
<1>1. /\ DOMAIN a = 1..n /\ n \in Nat /\ DOMAIN A = 1..(n + 1)
      /\ \A k \in 1..n : A[k] = a[k]
      /\ A[n + 1] = c
  BY AppendIsSequence
<1>2. IsSequence(r) /\ Len(r) = n /\ \A k \in 1..n : r[k] = FlatIn(B, a[k])
  BY ReadListIs
<1>3. R = Append(r, b) /\ b = FlatIn(B, c)
  OBVIOUS
<1> HIDE DEF r, A, R, b, n
<1>5. /\ IsSequence(R) /\ DOMAIN R = 1..(n + 1)
      /\ \A k \in 1..n : R[k] = r[k]
      /\ R[n + 1] = b
  BY <1>2, <1>3, AppendIsSequence
<1>6. R = [k \in 1..(n + 1) |-> R[k]]
  BY <1>1, <1>5 DEF IsSequence
<1>7. ASSUME NEW k \in 1..(n + 1) PROVE FlatIn(B, A[k]) = R[k]
  <2>1. k \in 1..n \/ k = n + 1
    BY <1>1
  <2> QED BY <1>1, <1>2, <1>3, <1>5, <2>1
<1>8. [k \in 1..(n + 1) |-> FlatIn(B, A[k])] = [k \in 1..(n + 1) |-> R[k]]
  BY <1>7
<1>10. ReadList(B, A) = R
  BY <1>1, <1>6, <1>8, Zenon DEF ReadList
<1> QED BY <1>10 DEF A, b, r, R

\* Without the last message.
LEMMA FrontRead ==
  ASSUME NEW B, NEW a, IsSequence(a), a # <<>>
  PROVE  ReadList(B, Front(a)) = Front(ReadList(B, a))
<1> DEFINE n == Len(a)
           r == ReadList(B, a)
           F == Front(a)
           G == Front(r)
<1>1. n \in Nat /\ n >= 1 /\ DOMAIN a = 1..n /\ a \in Seq(Range(a))
  BY DEF IsSequence
<1>2. r \in Seq(Range(r)) /\ Len(r) = n /\ \A k \in 1..n : r[k] = FlatIn(B, a[k])
  BY ReadListIs DEF IsSequence
<1>3. F = SubSeq(a, 1, n - 1)
  BY DEF Front
<1>4. G = SubSeq(r, 1, n - 1)
  BY <1>2 DEF Front
<1> HIDE DEF n, r, F, G
<1>5. DOMAIN F = 1..(n - 1) /\ \A k \in 1..(n - 1) : F[k] = a[k]
  BY <1>1, <1>3 DEF n
<1>6. /\ DOMAIN G = 1..(n - 1) /\ \A k \in 1..(n - 1) : G[k] = r[k]
      /\ G = [k \in 1..(n - 1) |-> G[k]]
  BY <1>1, <1>2, <1>4
<1>7. \A k \in 1..(n - 1) : FlatIn(B, F[k]) = G[k]
  BY <1>1, <1>2, <1>5, <1>6
<1>8. [k \in 1..(n - 1) |-> FlatIn(B, F[k])] = [k \in 1..(n - 1) |-> G[k]]
  BY <1>7
<1>9. ReadList(B, F) = G
  BY <1>5, <1>6, <1>8, Zenon DEF ReadList
<1> QED BY <1>9 DEF F, G, r

\* A nested message that was attached reads as attached.
LEMMA ReadAttached ==
  ASSUME NEW B, NEW m, NEW f \in Nested, NEW child, "attributes" \in DOMAIN m,
         IsSequence(m.attributes), f = "attributes" => m.attributes # <<>>
  PROVE  ReadIn(B, Attach(m, f, child)) = Attach(ReadIn(B, m), f, FlatIn(B, child))
<1> DEFINE r == ReadIn(B, m)
           c == FlatIn(B, child)
           a == m.attributes
<1>1. DOMAIN r = DOMAIN m /\ \A g \in DOMAIN m : r[g] = ReadField(B, g, m[g])
  BY ReadHas
<1>2. CASE f = "attributes"
  <2> DEFINE p == Attach(m, f, child)
             x == Append(Front(a), child)
             q == Attach(r, f, c)
             y == Append(Front(r.attributes), c)
  <2>1. p = [m EXCEPT !.attributes = x]
    BY <1>2 DEF Attach
  <2>2. q = [r EXCEPT !.attributes = y]
    BY <1>2 DEF Attach
  <2>3. ReadField(B, "attributes", x) = y
    <3>1. IsSequence(Front(a))
      BY FrontIsSequence
    <3>2. IsSequence(x)
      BY <3>1, AppendIsSequence
    <3>3. ReadField(B, "attributes", x) = ReadList(B, x)
      <4> HIDE DEF x
      <4> QED BY <3>2, ReadListIs
    <3>4. ReadList(B, x) = Append(ReadList(B, Front(a)), c)
      BY <3>1, MessagesRead
    <3>5. ReadList(B, Front(a)) = Front(ReadList(B, a))
      BY <1>2, FrontRead
    <3>6. r.attributes = ReadList(B, a)
      BY <1>1, ReadListIs
    <3> QED BY <3>3, <3>4, <3>5, <3>6, Zenon
  <2> HIDE DEF x, y, r
  <2>4. DOMAIN p = DOMAIN m /\ \A g \in DOMAIN m : p[g] = IF g = "attributes" THEN x ELSE m[g]
    BY <2>1
  <2>5. q = [g \in DOMAIN m |-> IF g = "attributes" THEN y ELSE r[g]]
    BY <1>1, <2>2
  <2> HIDE DEF p, q
  <2>6. \A g \in DOMAIN m : ReadField(B, g, p[g]) = IF g = "attributes" THEN y ELSE r[g]
    BY <1>1, <2>3, <2>4
  <2>7. [g \in DOMAIN m |-> ReadField(B, g, p[g])]
          = [g \in DOMAIN m |-> IF g = "attributes" THEN y ELSE r[g]]
    BY <2>6
  <2>8. ReadIn(B, p) = q
    BY <2>4, <2>5, <2>7, Zenon DEF ReadIn
  <2> QED BY <2>8 DEF p, q, r
<1>3. CASE f # "attributes"
  <2>0. f \in Inner /\ ReadField(B, f, child) = c
    BY <1>3, InnerTypes DEF ReadField
  <2>1. CASE f \in {"req", "resp"}
    <3> DEFINE D == DOMAIN m \ {"req", "resp"}
               o == [g \in D |-> m[g]]
               s == [g \in DOMAIN r \ {"req", "resp"} |-> r[g]]
    <3>1. Attach(m, f, child) = Put(o, f, child) /\ Attach(r, f, c) = Put(s, f, c)
      BY <2>1, <1>3 DEF Attach
    <3>2. ReadIn(B, o) = s
      <4>1. ReadIn(B, o) = [g \in D |-> ReadField(B, g, m[g])]
        BY DEF ReadIn
      <4>2. s = [g \in D |-> r[g]]
        BY <1>1
      <4> HIDE DEF r
      <4>3. [g \in D |-> ReadField(B, g, m[g])] = [g \in D |-> r[g]]
        BY <1>1
      <4> QED BY <4>1, <4>2, <4>3, Zenon
    <3> HIDE DEF o, s, r, c
    <3>3. ReadIn(B, Put(o, f, child)) = Put(ReadIn(B, o), f, ReadField(B, f, child))
      BY ReadOfPut
    <3>4. ReadIn(B, Attach(m, f, child)) = Attach(r, f, c)
      BY <2>0, <3>1, <3>2, <3>3
    <3> QED BY <3>4 DEF r, c
  <2>2. CASE f \notin {"req", "resp"}
    <3>1. Attach(m, f, child) = Put(m, f, child) /\ Attach(r, f, c) = Put(r, f, c)
      BY <2>2, <1>3 DEF Attach
    <3> QED BY <2>0, <3>1, ReadOfPut
  <2> QED BY <2>1, <2>2
<1> QED BY <1>2, <1>3

\* What a nested call begins with reads as it would in the message that is read.
LEMMA ReadBegun ==
  ASSUME NEW B, NEW type \in Types, NEW f \in DOMAIN Cases(type), NEW m,
         KindOf(type, f) \in {"message", "messages", "oneof"},
         "attributes" \in DOMAIN m, IsSequence(m.attributes)
  PROVE  /\ FlatIn(B, Begun(type, f, m)) = Begun(type, f, ReadIn(B, m))
         /\ ReadIn(B, Opened(type, f, m)) = Opened(type, f, ReadIn(B, m))
<1> DEFINE g == NameOf(type, f)
           k == KindOf(type, f)
           r == ReadIn(B, m)
<1>1. DOMAIN r = DOMAIN m /\ \A h \in DOMAIN m : r[h] = ReadField(B, h, m[h])
  BY ReadHas
<1>2. /\ k = "messages" => g = "attributes"
      /\ k # "messages" => g \in Inner
      /\ g \in Nested
  <2>1. CaseFits(type, Cases(type)[f])
    BY CasesFit
  <2> QED BY <2>1 DEF CaseFits, KindOf, NameOf, Inner, Nested
<1>3. \A t \in Types : FlatIn(B, Empty(t)) = Empty(t)
  <2>1. \A t \in Types : TextGood(Byte, Empty(t))
    BY EmptyGood DEF Good, GoodFlat
  <2> QED BY <2>1, OwnFlatRead
<1>4. TypeOf[g] \in Types /\ "KeyVal" \in Types
  BY <1>2, InnerTypes
<1>5. FlatIn(B, Begun(type, f, m)) = Begun(type, f, r)
  <2>1. CASE k # "messages" /\ g \in DOMAIN m
    <3>1. r[g] = FlatIn(B, m[g])
      BY <1>1, <1>2, <2>1 DEF ReadField
    <3> HIDE DEF g, k, r
    <3> QED BY <1>1, <2>1, <3>1 DEF Begun, g, k
  <2>2. CASE ~(k # "messages" /\ g \in DOMAIN m)
    <3>1. Begun(type, f, m) = Empty(TypeOf[g])
      BY <2>2 DEF Begun
    <3>2. Begun(type, f, r) = Empty(TypeOf[g])
      BY <1>1, <2>2 DEF Begun
    <3> QED BY <1>3, <1>4, <3>1, <3>2
  <2> QED BY <2>1, <2>2
<1>6. ReadIn(B, Opened(type, f, m)) = Opened(type, f, r)
  <2>1. CASE k = "messages"
    <3> DEFINE a == m.attributes
               e == Empty("KeyVal")
               x == Append(a, e)
    <3>1. Opened(type, f, m) = Put(m, "attributes", x)
      BY <1>2, <2>1 DEF Opened
    <3>2. Opened(type, f, r) = Put(r, "attributes", Append(r.attributes, e))
      BY <1>2, <2>1 DEF Opened
    <3>3. ReadIn(B, Put(m, "attributes", x)) = Put(r, "attributes", ReadField(B, "attributes", x))
      BY ReadOfPut
    <3>4. IsSequence(x)
      BY AppendIsSequence
    <3>5. ReadField(B, "attributes", x) = ReadList(B, x)
      <4> HIDE DEF x
      <4> QED BY <3>4, ReadListIs
    <3>6. ReadList(B, x) = Append(ReadList(B, a), FlatIn(B, e))
      BY MessagesRead
    <3>7. FlatIn(B, e) = e
      BY <1>3, <1>4
    <3>8. r.attributes = ReadList(B, a)
      BY <1>1, ReadListIs
    <3> QED BY <3>1, <3>2, <3>3, <3>5, <3>6, <3>7, <3>8, Zenon
  <2>2. CASE k # "messages"
    BY <2>2 DEF Opened
  <2> QED BY <2>1, <2>2
<1> QED BY <1>5, <1>6

\* A message without messages in it.
LEMMA ReadFlatMessage ==
  ASSUME NEW B, NEW m, DOMAIN m \cap Nested = {}
  PROVE  ReadIn(B, m) = FlatIn(B, m)
<1>1. \A f \in DOMAIN m : ReadField(B, f, m[f]) = FlatField(B, f, m[f])
  BY InnerTypes DEF ReadField
<1> QED BY <1>1 DEF ReadIn, FlatIn

\* A nested message nests nothing.
LEMMA NothingNested ==
  ASSUME NEW type \in Types, type # "AppInfo", NEW m, Fits(type, m)
  PROVE  DOMAIN m \cap Nested = {}
<1>1. ASSUME NEW n \in DOMAIN Cases(type) PROVE Cases(type)[n][2] \notin Nested
  BY CasesFit, NamesAreKinds DEF CaseFits
<1>2. \A f \in Nested : f \notin Names(type)
  BY <1>1 DEF Names, Nested
<1> QED BY <1>2 DEF Fits, Names

\* A text reads as the bytes it was sent as, in place or not.
LEMMA SliceReads ==
  ASSUME buf \in Seq(Byte), NEW p \in Nat, NEW s \in Seq(Byte), StandsAt(buf, p, s),
         p + Len(s) <= Len(buf)
  PROVE  /\ BytesIn(buf, Slice(p, p + Len(s))) = s
         /\ SubSeq(buf, p + 1, p + Len(s)) = s
<1> DEFINE n == Len(s)
           a == Slice(p, p + n)
<1>1. n \in Nat /\ (p + n) - p = n /\ s = [k \in 1..n |-> s[k]]
  OBVIOUS
<1>2. \A k \in 1..n : buf[p + k] = s[k] /\ buf[p + k] \in Byte
  <2>1. ASSUME NEW k \in 1..n PROVE buf[p + k] = s[k] /\ buf[p + k] \in Byte
    <3>1. p + k <= Len(buf) /\ p + k \in 1..Len(buf)
      BY <1>1
    <3> QED BY <3>1 DEF StandsAt
  <2> QED BY <2>1
<1>3. DOMAIN a = 1..n /\ \A k \in 1..n : a[k] = IF unsafe THEN Place(p + k) ELSE buf[p + k]
  BY <1>1 DEF Slice
<1> HIDE DEF n, a
<1>4. ASSUME NEW k \in 1..n PROVE ByteIn(buf, a[k]) = s[k]
  <2>1. CASE unsafe
    <3>1. a[k] = 256 + (p + k)
      BY <1>3, <2>1 DEF Place
    <3>2. a[k] >= 256 /\ a[k] - 256 = p + k
      BY <1>1, <3>1
    <3> QED BY <1>2, <3>2 DEF ByteIn
  <2>2. CASE ~unsafe
    <3>1. a[k] = s[k] /\ s[k] \in Byte
      BY <1>2, <1>3, <2>2
    <3>2. ~(a[k] >= 256)
      BY <3>1 DEF Byte
    <3> QED BY <3>1, <3>2 DEF ByteIn
  <2> QED BY <2>1, <2>2
<1>5. BytesIn(buf, a) = [k \in 1..n |-> s[k]]
  BY <1>3, <1>4 DEF BytesIn
<1> DEFINE o == SubSeq(buf, p + 1, p + n)
<1>6. o = s
  <2>1. /\ o = [k \in 1..((p + n) - (p + 1) + 1) |-> buf[k + (p + 1) - 1]]
    BY <1>1
  <2>2. (p + n) - (p + 1) + 1 = n /\ \A k \in 1..n : k + (p + 1) - 1 = p + k
    BY <1>1
  <2>3. o = [k \in 1..n |-> buf[p + k]]
    BY <2>1, <2>2
  <2> HIDE DEF o
  <2>4. [k \in 1..n |-> buf[p + k]] = [k \in 1..n |-> s[k]]
    BY <1>2
  <2> QED BY <1>1, <2>3, <2>4, Zenon DEF n
<1>7. BytesIn(buf, a) = s
  BY <1>1, <1>5, Zenon DEF n
<1> QED BY <1>6, <1>7 DEF n, a

------------------------------------------------------------------------------
(* The fields this schema does not know *)

\* What the loop of Skip does at q with d groups open, where f says what it does
\* further on (protohelpers.Skip, protohelpers.go:48-114).
Onward(f, r, d) == IF d = 0 THEN r ELSE IF r >= l THEN -1 ELSE f[r][d]

\* The alternatives of Skip by wire type, and Skip as a table of places and
\* depths.
SkipBy(f, w, n, d) ==
  CASE w = 0 -> IF VarintOk(n) THEN Onward(f, After(n), d) ELSE -1
    [] w = 1 -> Onward(f, n + 8, d)
    [] w = 2 -> IF VarintOk(n) /\ Signed32(Varint(n)) >= 0
                THEN Onward(f, After(n) + Signed32(Varint(n)), d)
                ELSE -1
    [] w = 3 -> Onward(f, n, d + 1)
    [] w = 4 -> IF d = 0 THEN -1 ELSE Onward(f, n, d - 1)
    [] w = 5 -> Onward(f, n + 4, d)
    [] OTHER -> -1

Skipping(f, q, d) ==
  IF q >= l \/ ~VarintOk(q) THEN -1 ELSE SkipBy(f, Varint(q) % 8, After(q), d)

SkipTable(f) == f = [q \in 0..Len(buf) |-> [d \in Nat |-> Skipping(f, q, d)]]

\* Skip looks its table up.
LEMMA SkipReads ==
  ASSUME NEW p
  PROVE  Skip(p) = (CHOOSE f : SkipTable(f))[p][0]
BY DEF Skip, SkipTable, Skipping, SkipBy, Onward

\* A varint that is there ends in the slice.
LEMMA VarintFacts ==
  ASSUME BoundsInv, NEW q \in Nat, VarintOk(q)
  PROVE  /\ After(q) \in Nat /\ After(q) > q /\ After(q) <= l
         /\ Varint(q) \in Nat /\ Varint(q) % 8 \in 0..7
         /\ Signed32(Varint(q)) \in Int
<1>1. After(q) \in q + 1..l /\ l \in Nat
  BY Positions, VarintEnds
<1>2. Varint(q) \in Nat
  BY VarintIsNumber
<1> DEFINE w == Varint(q)
<1>3. w \in Nat
  BY <1>2
<1> HIDE DEF w
<1>4. w % 8 \in 0..7 /\ w % Word32 \in Nat
  BY <1>3, HalfWord
<1>5. Signed32(w) \in Int
  BY <1>4, HalfWord DEF Signed32
<1> QED BY <1>1, <1>3, <1>4, <1>5 DEF w

\* The slice ends in the buffer.
LEMMA BufferEnds ==
  ASSUME BoundsInv
  PROVE  l \in Nat /\ l <= Len(buf) /\ Len(buf) \in Nat /\ buf \in Seq(Byte)
<1>1. 1 \in 1..Len(ends) /\ ends[1] <= (IF 1 = 1 THEN Len(buf) ELSE ends[1 - 1])
  BY DEF BoundsInv
<1> QED BY <1>1, Positions DEF BoundsInv

\* What it does at q depends on what it does behind q alone.
LEMMA SkipsAhead ==
  ASSUME BoundsInv, NEW f \in [0..Len(buf) -> [Nat -> Int]],
         NEW g \in [0..Len(buf) -> [Nat -> Int]], NEW q \in 0..Len(buf), NEW d \in Nat,
         \A r \in 0..Len(buf) : r > q => f[r] = g[r]
  PROVE  Skipping(f, q, d) \in Int /\ Skipping(f, q, d) = Skipping(g, q, d)
<1>0. l \in Nat /\ l <= Len(buf) /\ Len(buf) \in Nat /\ -1 \in Int
  BY BufferEnds
<1>1. ASSUME NEW r \in Int, r > q, NEW e \in Nat
      PROVE  Onward(f, r, e) \in Int /\ Onward(f, r, e) = Onward(g, r, e)
  <2>1. CASE e = 0 \/ r >= l
    BY <1>0, <2>1 DEF Onward
  <2>2. CASE ~(e = 0 \/ r >= l)
    <3>1. r \in 0..Len(buf)
      BY <1>0, <1>1, <2>2
    <3>2. Onward(f, r, e) = f[r][e] /\ Onward(g, r, e) = g[r][e]
      BY <2>2 DEF Onward
    <3>3. f[r] = g[r] /\ f[r] \in [Nat -> Int]
      BY <1>1, <3>1
    <3> QED BY <3>2, <3>3
  <2> QED BY <2>1, <2>2
<1>2. CASE q >= l \/ ~VarintOk(q)
  <2>1. Skipping(f, q, d) = -1 /\ Skipping(g, q, d) = -1
    BY <1>2 DEF Skipping
  <2> QED BY <1>0, <2>1
<1>3. CASE ~(q >= l \/ ~VarintOk(q))
  <2> DEFINE w == Varint(q) % 8
             n == After(q)
             o == After(n)
             s == Signed32(Varint(n))
  <2>1. n \in Int /\ n > q /\ w \in 0..7 /\ q \in Nat /\ n \in Nat
    BY <1>3, VarintFacts
  <2>2. VarintOk(n) => o \in Int /\ o > q /\ s \in Int
    BY <2>1, VarintFacts
  <2>3. Skipping(f, q, d) = SkipBy(f, w, n, d) /\ Skipping(g, q, d) = SkipBy(g, w, n, d)
    BY <1>3 DEF Skipping
  <2> HIDE DEF w, n
  <2> SUFFICES SkipBy(f, w, n, d) \in Int /\ SkipBy(f, w, n, d) = SkipBy(g, w, n, d)
    BY <2>3
  <2>4. CASE w = 0
    <3>1. \A h : SkipBy(h, w, n, d) = IF VarintOk(n) THEN Onward(h, o, d) ELSE -1
      BY <2>4 DEF SkipBy
    <3> HIDE DEF o
    <3>2. VarintOk(n) => Onward(f, o, d) \in Int /\ Onward(f, o, d) = Onward(g, o, d)
      BY <1>1, <2>2
    <3> QED BY <1>0, <3>1, <3>2
  <2>5. CASE w = 1
    <3>1. \A h : SkipBy(h, w, n, d) = Onward(h, n + 8, d)
      BY <2>5 DEF SkipBy
    <3>2. n + 8 \in Int /\ n + 8 > q
      BY <2>1
    <3> QED BY <1>1, <3>1, <3>2
  <2>6. CASE w = 2
    <3>1. \A h : SkipBy(h, w, n, d) = IF VarintOk(n) /\ s >= 0 THEN Onward(h, o + s, d) ELSE -1
      BY <2>6 DEF SkipBy
    <3> HIDE DEF o, s
    <3>2. VarintOk(n) /\ s >= 0 => o + s \in Int /\ o + s > q
      BY <2>1, <2>2
    <3>3. VarintOk(n) /\ s >= 0
            => Onward(f, o + s, d) \in Int /\ Onward(f, o + s, d) = Onward(g, o + s, d)
      BY <1>1, <3>2
    <3> QED BY <1>0, <3>1, <3>3
  <2>7. CASE w = 3
    <3>1. \A h : SkipBy(h, w, n, d) = Onward(h, n, d + 1)
      BY <2>7 DEF SkipBy
    <3>2. d + 1 \in Nat
      OBVIOUS
    <3> QED BY <1>1, <2>1, <3>1, <3>2
  <2>8. CASE w = 4
    <3>1. \A h : SkipBy(h, w, n, d) = IF d = 0 THEN -1 ELSE Onward(h, n, d - 1)
      BY <2>8 DEF SkipBy
    <3>2. d # 0 => d - 1 \in Nat
      OBVIOUS
    <3>3. d # 0 => Onward(f, n, d - 1) \in Int /\ Onward(f, n, d - 1) = Onward(g, n, d - 1)
      BY <1>1, <2>1, <3>2
    <3> QED BY <1>0, <3>1, <3>3
  <2>9. CASE w = 5
    <3>1. \A h : SkipBy(h, w, n, d) = Onward(h, n + 4, d)
      BY <2>9 DEF SkipBy
    <3>2. n + 4 \in Int /\ n + 4 > q
      BY <2>1
    <3> QED BY <1>1, <3>1, <3>2
  <2>10. CASE w \in {6, 7}
    <3>0. w # 0 /\ w # 1 /\ w # 2 /\ w # 3 /\ w # 4 /\ w # 5
      BY <2>10
    <3>1. \A h : SkipBy(h, w, n, d) = -1
      BY <3>0, Zenon DEF SkipBy
    <3> QED BY <1>0, <3>1
  <2> QED BY <2>1, <2>4, <2>5, <2>6, <2>7, <2>8, <2>9, <2>10
<1> QED BY <1>2, <1>3

\* The table exists, and is what Skip reads.
LEMMA SkipIs ==
  ASSUME BoundsInv
  PROVE  \E f :
           /\ \A q \in 0..Len(buf), d \in Nat : f[q][d] = Skipping(f, q, d)
           /\ \A p \in 0..Len(buf) : Skip(p) = f[p][0]
<1> DEFINE D == 0..Len(buf)
           S == [Nat -> Int]
           F == [D -> S]
           next(f) == [q \in D |-> [d \in Nat |-> Skipping(f, q, d)]]
           H == [f \in F |-> next(f)]
           rank == [q \in D |-> Len(buf) - q]
           a == [q \in D |-> [d \in Nat |-> 0]]
<1>0. Len(buf) \in Nat
  BY BufferEnds
<1>1. ASSUME NEW f \in F PROVE next(f) \in F
  BY <1>1, SkipsAhead
<1>2. H \in [F -> F]
  <2> HIDE DEF F, next
  <2> QED BY <1>1
<1>3. rank \in [D -> Nat] /\ a \in F
  BY <1>0
<1>4. ASSUME NEW q \in D, NEW f \in F, NEW g \in F,
             \A r \in D : rank[r] < rank[q] => f[r] = g[r]
      PROVE  H[f][q] = H[g][q]
  <2>1. \A r \in D : r > q => f[r] = g[r]
    BY <1>0, <1>4
  <2>2. \A d \in Nat : Skipping(f, q, d) = Skipping(g, q, d)
    BY <2>1, SkipsAhead
  <2>3. H[f][q] = [d \in Nat |-> Skipping(f, q, d)] /\ H[g][q] = [d \in Nat |-> Skipping(g, q, d)]
    OBVIOUS
  <2> QED BY <2>2, <2>3
<1>5. \E f \in F : f = H[f]
  <2> HIDE DEF D, S, H, rank, a
  <2>1. H \in [[D -> S] -> [D -> S]] /\ a \in [D -> S] /\ rank \in [D -> Nat]
    BY <1>2, <1>3
  <2>2. FromBelow(D, S, rank, H)
    BY <1>4 DEF FromBelow
  <2>3. \E f \in [D -> S] : Repeats(f, H)
    <3>1. H \in [[D -> S] -> [D -> S]]
      BY <2>1
    <3>2. a \in [D -> S]
      BY <2>1
    <3>3. rank \in [D -> Nat]
      BY <2>1
    <3> QED BY <3>1, <3>2, <3>3, <2>2, RankedRecursion, Zenon
  <2> QED BY <2>3 DEF Repeats, F
<1>6. \E f : SkipTable(f)
  BY <1>5 DEF SkipTable
<1> DEFINE t == CHOOSE f : SkipTable(f)
<1>7. SkipTable(t)
  BY <1>6
<1>8. \A p \in D : Skip(p) = t[p][0]
  BY SkipReads
<1> HIDE DEF t
<1>9. ASSUME NEW q \in D, NEW d \in Nat PROVE t[q][d] = Skipping(t, q, d)
  <2>1. t = [x \in D |-> [y \in Nat |-> Skipping(t, x, y)]]
    BY <1>7 DEF SkipTable
  <2>2. t[q] = [y \in Nat |-> Skipping(t, q, y)]
    <3> DEFINE row(x) == [y \in Nat |-> Skipping(t, x, y)]
    <3>1. t = [x \in D |-> row(x)]
      BY <2>1
    <3> HIDE DEF row
    <3>2. t[q] = row(q)
      BY <3>1
    <3> QED BY <3>2 DEF row
  <2> DEFINE u == t[q]
             entry(y) == Skipping(t, q, y)
  <2>3. u = [y \in Nat |-> entry(y)]
    BY <2>2
  <2> HIDE DEF u, entry
  <2>4. u[d] = entry(d)
    BY <2>3
  <2> QED BY <2>4 DEF u, entry
<1> QED BY <1>8, <1>9

\* Where a part stands, its parts stand.
LEMMA PartOfPart ==
  ASSUME NEW b, NEW p \in Nat, NEW e \in Seq(Byte), StandsAt(b, p, e),
         NEW r \in Nat, NEW part \in Seq(Byte), StandsAt(e, r, part), r + Len(part) <= Len(e),
         Len(b) \in Nat
  PROVE  StandsAt(b, p + r, part)
<1>1. ASSUME NEW k \in 1..Len(part), (p + r) + k <= Len(b)
      PROVE  b[(p + r) + k] = part[k]
  <2> DEFINE i == r + k
  <2>1. i \in 1..Len(e) /\ i <= Len(e) /\ (p + r) + k = p + i
    BY <1>1
  <2>2. e[i] = part[k]
    BY <2>1 DEF StandsAt
  <2> HIDE DEF i
  <2>3. b[p + i] = e[i]
    BY <1>1, <2>1 DEF StandsAt
  <2> QED BY <2>1, <2>2, <2>3
<1> QED BY <1>1 DEF StandsAt

\* A tag in the buffer is read as it was written, or cut off.
LEMMA TagIsReadBack ==
  ASSUME BoundsInv, NEW v \in 0..(Word64 - 1), NEW body \in Seq(Byte), NEW x \in Nat,
         StandsAt(buf, x, Encoded(v, body))
  PROVE  /\ x + SizeOfVarint(v) <= l
              => VarintOk(x) /\ After(x) = x + SizeOfVarint(v) /\ Varint(x) = v
         /\ x + SizeOfVarint(v) > l => ~VarintOk(x)
         /\ StandsAt(buf, x + SizeOfVarint(v), body)
         /\ x + Len(Encoded(v, body)) = (x + SizeOfVarint(v)) + Len(body)
         /\ SizeOfVarint(v) \in Nat \ {0} /\ Len(body) \in Nat /\ l \in Nat
<1> DEFINE t == EncodeVarint(v)
           g == SizeOfVarint(v)
<1>1. v \in Int /\ v % Word64 = v
  BY HalfWord, SmallMod
<1>2. t \in Seq(Byte) /\ Len(t) = g /\ g \in Nat \ {0}
  BY <1>1, EncodedIs, SizeOfVarintIsExact DEF Sized
<1>3. StandsAt(buf, x, t) /\ StandsAt(buf, x + Len(t), body)
  <2>1. StandsAt(buf, x, t \o body) /\ buf \in Seq(Byte)
    BY DEF Encoded, BoundsInv
  <2> HIDE DEF t
  <2> QED BY <1>2, <2>1, HalvesOfPart, Zenon
<1>4. /\ x + g <= l => VarintOk(x) /\ After(x) = x + g /\ Varint(x) = v % Word64
      /\ x + g > l => ~VarintOk(x)
  BY <1>1, <1>3, VarintsAreReadBack, Zenon
<1>5. x + Len(Encoded(v, body)) = (x + g) + Len(body)
  <2>1. Len(Encoded(v, body)) = g + Len(body) /\ Len(body) \in Nat
    BY <1>1, EncodedIs
  <2> HIDE DEF g
  <2> QED BY <1>2, <2>1
<1>6. l \in Nat
  BY Positions
<1> HIDE DEF g, t
<1>7. /\ x + g <= l => VarintOk(x) /\ After(x) = x + g /\ Varint(x) = v
      /\ x + g > l => ~VarintOk(x)
      /\ StandsAt(buf, x + g, body)
  BY <1>1, <1>2, <1>3, <1>4
<1> QED BY <1>2, <1>5, <1>6, <1>7 DEF g

\* One field, of a group or alone, is passed, or it is cut.
LEMMA SkipsOneField ==
  ASSUME BoundsInv, NEW v \in 0..(Word64 - 1), NEW body \in Seq(Byte), NEW x \in Nat, x < l,
         StandsAt(buf, x, Encoded(v, body)), Payload(v % 8, body), NEW f,
         NEW d \in Nat, NEW e \in Nat,
         e = CASE v % 8 = 3 -> d + 1 [] v % 8 = 4 -> d - 1 [] OTHER -> d
  PROVE  \/ Skipping(f, x, d) = Onward(f, x + Len(Encoded(v, body)), e)
         \/ Skipping(f, x, d) = -1 /\ x + Len(Encoded(v, body)) > l
<1> DEFINE n == x + SizeOfVarint(v)
           y == x + Len(Encoded(v, body))
           w == v % 8
           s == Skipping(f, x, d)
<1>1. /\ n <= l => VarintOk(x) /\ After(x) = n /\ Varint(x) = v
      /\ n > l => ~VarintOk(x)
      /\ StandsAt(buf, n, body)
      /\ y = n + Len(body) /\ n \in Nat /\ Len(body) \in Nat /\ l \in Nat
  <2>1. /\ n <= l => VarintOk(x) /\ After(x) = n /\ Varint(x) = v
        /\ n > l => ~VarintOk(x)
        /\ StandsAt(buf, n, body)
        /\ y = n + Len(body)
        /\ SizeOfVarint(v) \in Nat \ {0} /\ Len(body) \in Nat /\ l \in Nat
    BY TagIsReadBack, Zenon
  <2>2. n \in Nat
    BY <2>1
  <2> QED BY <2>1, <2>2, Zenon
<1>2. n > l => s = -1 /\ y > l
  <2>1. n > l => s = -1
    BY <1>1 DEF Skipping
  <2> HIDE DEF n, y, s
  <2> QED BY <1>1, <2>1
<1>3. n <= l => s = SkipBy(f, w, n, d)
  <2>1. ~(x >= l)
    BY <1>1
  <2> QED BY <1>1, <2>1 DEF Skipping
<1> HIDE DEF n, y, w, s
<1> SUFFICES ASSUME n <= l PROVE s = Onward(f, y, e) \/ (s = -1 /\ y > l)
  BY <1>1, <1>2 DEF s, y
<1>4. w \in 0..7
  BY DEF w
<1>5. Payload(w, body) /\ e = CASE w = 3 -> d + 1 [] w = 4 -> d - 1 [] OTHER -> d
  BY DEF w
<1>6. CASE w = 0
  <2>1. PICK z \in Int : body = EncodeVarint(z)
    BY <1>5, <1>6 DEF Payload
  <2>2. /\ n + Len(body) <= l => VarintOk(n) /\ After(n) = n + Len(body)
        /\ n + Len(body) > l => ~VarintOk(n)
    <3>1. Len(body) = SizeOfVarint(z)
      BY <2>1, SizeOfVarintIsExact DEF Sized
    <3>2. StandsAt(buf, n, EncodeVarint(z)) /\ n \in Nat
      BY <1>1, <2>1
    <3>3. /\ n + SizeOfVarint(z) <= l => VarintOk(n) /\ After(n) = n + SizeOfVarint(z)
          /\ n + SizeOfVarint(z) > l => ~VarintOk(n)
      BY <3>2, VarintsAreReadBack
    <3> QED BY <3>1, <3>3
  <2>3. s = IF VarintOk(n) THEN Onward(f, After(n), d) ELSE -1
    BY <1>3, <1>6 DEF SkipBy
  <2>4. e = d
    BY <1>5, <1>6
  <2> QED BY <1>1, <2>2, <2>3, <2>4
<1>7. CASE w = 1
  <2>1. Len(body) = 8 /\ e = d
    BY <1>5, <1>7 DEF Payload
  <2>2. s = Onward(f, n + 8, d)
    BY <1>3, <1>7 DEF SkipBy
  <2> QED BY <1>1, <2>1, <2>2
<1>8. CASE w = 2
  <2>0. Payload(2, body)
    BY <1>5, <1>8
  <2>1. PICK t \in Seq(Byte) : Len(t) < Half /\ body = EncodeVarint(Len(t)) \o t
    BY <2>0, PayloadText
  <2> DEFINE k == Len(t)
  <2>2. k \in 0..(Half - 1) /\ k \in 0..(Word64 - 1) /\ body = Encoded(k, t)
    <3>1. k \in Nat /\ k < Half
      BY <2>1
    <3>2. body = Encoded(k, t)
      BY <2>1 DEF Encoded
    <3>3. Half \in Nat /\ Half <= Word64 /\ Word64 \in Nat
      <4>1. Half \in Nat /\ Word32 = 2 * Half /\ Word32 <= Word64 /\ Word64 \in Nat
        BY HalfWord
      <4> QED BY <4>1
    <3>4. k \in 0..(Half - 1) /\ k \in 0..(Word64 - 1)
      <4> HIDE DEF k
      <4> QED BY <3>1, <3>3
    <3> QED BY <3>2, <3>4
  <2>3. /\ n + SizeOfVarint(k) <= l
              => VarintOk(n) /\ After(n) = n + SizeOfVarint(k) /\ Varint(n) = k
        /\ n + SizeOfVarint(k) > l => ~VarintOk(n)
        /\ n + Len(body) = (n + SizeOfVarint(k)) + k
        /\ SizeOfVarint(k) \in Nat
    BY <1>1, <2>2, TagIsReadBack
  <2>4. Signed32(k) = k /\ k \in Nat
    BY <2>2, SmallBack
  <2>5. s = IF VarintOk(n) /\ Signed32(Varint(n)) >= 0
            THEN Onward(f, After(n) + Signed32(Varint(n)), d) ELSE -1
    BY <1>3, <1>8 DEF SkipBy
  <2>6. e = d
    BY <1>5, <1>8
  <2> HIDE DEF k
  <2>7. CASE n + SizeOfVarint(k) <= l
    <3>1. VarintOk(n) /\ Signed32(Varint(n)) = k /\ After(n) + k = y
      BY <1>1, <2>3, <2>4, <2>7
    <3> QED BY <2>4, <2>5, <2>6, <3>1
  <2>8. CASE n + SizeOfVarint(k) > l
    <3>1. s = -1
      BY <2>3, <2>5, <2>8
    <3> DEFINE a == n + SizeOfVarint(k)
    <3>2. a > l /\ a \in Nat /\ y = a + k
      BY <1>1, <2>3, <2>8
    <3> HIDE DEF a
    <3>3. y > l
      BY <1>1, <2>4, <3>2
    <3> QED BY <3>1, <3>3
  <2> QED BY <1>1, <2>3, <2>7, <2>8
<1>9. CASE w = 3
  <2>1. Len(body) = 0 /\ e = d + 1
    BY <1>5, <1>9 DEF Payload
  <2>2. s = Onward(f, n, d + 1)
    BY <1>3, <1>9 DEF SkipBy
  <2> QED BY <1>1, <2>1, <2>2
<1>10. CASE w = 4
  <2>1. Len(body) = 0 /\ e = d - 1
    BY <1>5, <1>10 DEF Payload
  <2>2. s = IF d = 0 THEN -1 ELSE Onward(f, n, d - 1)
    BY <1>3, <1>10 DEF SkipBy
  <2> QED BY <1>1, <2>1, <2>2
<1>11. CASE w = 5
  <2>1. Len(body) = 4 /\ e = d
    BY <1>5, <1>11 DEF Payload
  <2>2. s = Onward(f, n + 4, d)
    BY <1>3, <1>11 DEF SkipBy
  <2> QED BY <1>1, <2>1, <2>2
<1>12. CASE w \in {6, 7}
  BY <1>5, <1>12 DEF Payload
<1> QED BY <1>4, <1>6, <1>7, <1>8, <1>9, <1>10, <1>11, <1>12

\* protohelpers.Skip goes to the end of a field, groups and all, and gives an
\* error or a place behind the slice when the field is cut
\* (protohelpers.go:48-114).
THEOREM SkipIsExact ==
  ASSUME BoundsInv, NEW e \in Seq(Byte), Len(e) >= 1, NEW D, Nests(e, D),
         NEW p \in Nat, p < l, StandsAt(buf, p, e)
  PROVE  /\ p + Len(e) <= l => Skip(p) = p + Len(e)
         /\ p + Len(e) > l => Skip(p) \notin p..l
<1> DEFINE n == Len(e)
           Right(x) == IF p + n <= l THEN x = p + n ELSE x \notin p..l
           P == DOMAIN D
<1>1. /\ n \in Nat /\ l \in Nat /\ l <= Len(buf) /\ Len(buf) \in Nat
      /\ P \subseteq 0..n /\ 0 \in P /\ n \in P /\ D[0] = 0 /\ D[n] = 0
      /\ \A r \in P : D[r] \in Nat /\ (D[r] = 0 => r \in {0, n})
  BY BufferEnds DEF Nests, Spans
<1>2. PICK f : /\ \A q \in 0..Len(buf), d \in Nat : f[q][d] = Skipping(f, q, d)
               /\ \A q \in 0..Len(buf) : Skip(q) = f[q][0]
  BY SkipIs
<1> DEFINE T == {k \in 0..n : \A r \in P : r >= n - k /\ r # n /\ p + r < l => Right(f[p + r][D[r]])}
<1>3. 0 \in T
  BY <1>1
<1>4. ASSUME NEW k \in 0..(n - 1), k \in T PROVE k + 1 \in T
  <2>1. ASSUME NEW r \in P, r >= n - (k + 1), r # n, p + r < l
        PROVE  Right(f[p + r][D[r]])
    <3>1. PICK v, body, q :
            /\ Framed(e, P, r, v, body, q)
            /\ Payload(v % 8, body)
            /\ D[q] = CASE v % 8 = 3 -> D[r] + 1
                        [] v % 8 = 4 -> D[r] - 1
                        [] OTHER -> D[r]
      BY <2>1 DEF Nests
    <3>2. /\ v \in 0..(Word64 - 1) /\ body \in Seq(Byte) /\ q = r + Len(Encoded(v, body))
          /\ q \in P /\ StandsAt(e, r, Encoded(v, body))
      BY <3>1 DEF Framed
    <3> DEFINE c == Encoded(v, body)
    <3>3. c \in Seq(Byte) /\ Len(c) \in Nat /\ Len(c) >= 1 /\ r \in Nat /\ q \in Nat /\ q <= n
      BY <1>1, <3>2, HalfWord, EncodedIs
    <3>4. StandsAt(buf, p + r, c)
      BY <1>1, <3>2, <3>3, PartOfPart
    <3> DEFINE x == p + r
               y == p + q
    <3>5. x \in Nat /\ x \in 0..Len(buf) /\ x < l /\ y = x + Len(c) /\ q > r
      <4> HIDE DEF n, P, c
      <4>1. q = r + Len(c)
        BY <3>2 DEF c
      <4> QED BY <1>1, <2>1, <4>1, <3>3
    <3>6. D[r] \in Nat /\ D[q] \in Nat
      BY <1>1, <3>2
    <3>7. f[x][D[r]] = Skipping(f, x, D[r])
      BY <1>2, <3>5, <3>6
    <3>12. x = p + r
      OBVIOUS
    <3> HIDE DEF x, y
    <3>8. \/ Skipping(f, x, D[r]) = Onward(f, x + Len(c), D[q])
          \/ Skipping(f, x, D[r]) = -1 /\ x + Len(c) > l
      BY <3>1, <3>2, <3>4, <3>5, <3>6, SkipsOneField DEF x
    <3> HIDE DEF c
    <3>9. Right(Onward(f, y, D[q]))
      <4>1. CASE D[q] = 0
        <5>1. q = n
          BY <1>1, <3>2, <3>3, <3>5, <4>1
        <5>2. Onward(f, y, D[q]) = p + n /\ p + n \in Nat
          BY <1>1, <4>1, <5>1 DEF Onward, y
        <5> HIDE DEF n
        <5> QED BY <1>1, <5>2
      <4>2. CASE D[q] # 0 /\ y >= l
        <5>1. Onward(f, y, D[q]) = -1
          BY <4>2 DEF Onward
        <5>2. q # n
          BY <1>1, <4>2
        <5>3. p + n > l
          <6> HIDE DEF n
          <6> QED BY <1>1, <3>3, <4>2, <5>2 DEF y
        <5> HIDE DEF n
        <5> QED BY <1>1, <5>1, <5>3
      <4>3. CASE D[q] # 0 /\ ~(y >= l)
        <5>1. Onward(f, y, D[q]) = f[y][D[q]]
          BY <4>3 DEF Onward
        <5>2. q # n /\ q >= n - k /\ p + q < l
          BY <1>1, <2>1, <3>3, <3>5, <4>3 DEF y
        <5> QED BY <1>4, <3>2, <5>1, <5>2 DEF y
      <4> QED BY <4>1, <4>2, <4>3
    <3>10. CASE Skipping(f, x, D[r]) = Onward(f, x + Len(c), D[q])
      BY <3>5, <3>7, <3>9, <3>10 DEF x
    <3>11. CASE Skipping(f, x, D[r]) = -1 /\ x + Len(c) > l
      <4>1. p + n > l
        BY <1>1, <3>3, <3>5, <3>11 DEF x, y
      <4>2. f[p + r][D[r]] = -1
        BY <3>7, <3>11 DEF x
      <4> DEFINE z == f[p + r][D[r]]
      <4> HIDE DEF n, z
      <4> QED BY <1>1, <4>1, <4>2 DEF z
    <3> QED BY <3>8, <3>10, <3>11
  <2> QED BY <1>1, <2>1
<1>5. n \in T
  <2>1. \A k \in 0..n : k \in T
    <3> HIDE DEF T
    <3> QED BY <1>1, <1>3, <1>4, BoundedInduction
  <2> QED BY <1>1, <2>1
<1>6. Right(f[p + 0][D[0]])
  BY <1>1, <1>5
<1>7. Skip(p) = f[p][0]
  BY <1>1, <1>2
<1> QED BY <1>1, <1>6, <1>7

\* The field numbers of the schema.
LEMMA CaseNumbers ==
  ASSUME NEW type \in Types
  PROVE  DOMAIN Cases(type) \subseteq 1..35
<1>1. CASE type = "AppRequest"
  BY <1>1, RequestCases DEF Cases
<1>2. CASE type = "AppResponse"
  BY <1>2, ResponseCases DEF Cases
<1>3. CASE type = "AppTrace"
  BY <1>3, TraceCases DEF Cases
<1>4. CASE type = "KeyVal"
  BY <1>4 DEF Cases, KeyVal_UnmarshalVT, Strings
<1>5. CASE type = "AppInfo"
  BY <1>5 DEF Cases, AppInfo_UnmarshalVT
<1>6. CASE type = "NatsMessage"
  BY <1>6 DEF Cases, NatsMessage_UnmarshalVT, Strings
<1>7. CASE type = "ZmtpMessage"
  BY <1>7 DEF Cases, ZmtpMessage_UnmarshalVT, Strings
<1> QED BY <1>1, <1>2, <1>3, <1>4, <1>5, <1>6, <1>7 DEF Types

\* A tag falls apart into its number and its wire type.
LEMMA TagNumbers ==
  ASSUME NEW f \in 1..35, NEW w \in 0..7
  PROVE  /\ 8 * f + w \in 0..(Word64 - 1) /\ f \in 1..(Half - 1)
         /\ (8 * f + w) \div 8 = f /\ (8 * f + w) % 8 = w
<1>1. Half > 255 /\ Half \in Nat /\ Word64 > 511 /\ Word64 \in Nat
  <2>1. Half \in Nat /\ Half > 255 /\ Word32 = 2 * Half /\ Word32 <= Word64 /\ Word64 \in Nat
    BY HalfWord
  <2> QED BY <2>1
<1>2. (8 * f + w) \div 8 = f /\ (8 * f + w) % 8 = w
  OBVIOUS
<1> QED BY <1>1, <1>2

\* The tags of the cases of a decoder.
LEMMA TagsOfCases ==
  ASSUME NEW type \in Types, NEW f \in DOMAIN Cases(type)
  PROVE  /\ f \in 1..(Half - 1)
         /\ 8 * f \in 0..(Word64 - 1) /\ (8 * f) \div 8 = f /\ (8 * f) % 8 = 0
         /\ 8 * f + 2 \in 0..(Word64 - 1) /\ (8 * f + 2) \div 8 = f /\ (8 * f + 2) % 8 = 2
<1>1. f \in 1..35
  BY CaseNumbers
<1>2. 8 * f + 0 = 8 * f
  BY <1>1
<1>3. /\ 8 * f + 0 \in 0..(Word64 - 1) /\ f \in 1..(Half - 1)
      /\ (8 * f + 0) \div 8 = f /\ (8 * f + 0) % 8 = 0
  BY <1>1, TagNumbers
<1>4. 8 * f + 2 \in 0..(Word64 - 1) /\ (8 * f + 2) \div 8 = f /\ (8 * f + 2) % 8 = 2
  BY <1>1, TagNumbers
<1> QED BY <1>2, <1>3, <1>4

\* A field that was written has a number and a wire type a decoder takes.
LEMMA StepTag ==
  ASSUME NEW type \in Types, NEW m, NEW v, NEW body, NEW n, Step(type, m, v, body, n)
  PROVE  v \div 8 \in 1..(Half - 1) /\ v % 8 # 4
<1>1. ASSUME NEW f \in DOMAIN Cases(type)
      PROVE  /\ (8 * f) \div 8 \in 1..(Half - 1) /\ (8 * f) % 8 # 4
             /\ (8 * f + 2) \div 8 \in 1..(Half - 1) /\ (8 * f + 2) % 8 # 4
  BY TagsOfCases
<1>2. CASE \E f \in DOMAIN Cases(type) : v = 8 * f \/ v = 8 * f + 2
  BY <1>1, <1>2
<1>3. CASE NewerField(type, v, body)
  BY <1>3 DEF NewerField
<1> QED BY <1>2, <1>3 DEF Step, FlatStep, NestedStep

\* The decoder reads the tag of the field it stands at.
LEMMA TagOfField ==
  ASSUME BoundsInv, NEW v \in 0..(Word64 - 1), NEW body \in Seq(Byte),
         v \div 8 \in 1..(Half - 1), v % 8 # 4, StandsAt(buf, iNdEx, Encoded(v, body))
  PROVE  /\ iNdEx + SizeOfVarint(v) <= l =>
              /\ TagOk /\ TagNum = v \div 8 /\ TagWire = v % 8
              /\ After(iNdEx) = iNdEx + SizeOfVarint(v)
         /\ iNdEx + SizeOfVarint(v) > l => ~TagOk
<1> DEFINE y == iNdEx + SizeOfVarint(v)
<1>1. iNdEx \in Nat
  BY Positions
<1>2. /\ y <= l => VarintOk(iNdEx) /\ After(iNdEx) = y /\ Varint(iNdEx) = v
      /\ y > l => ~VarintOk(iNdEx)
  BY <1>1, TagIsReadBack
<1> DEFINE u == v \div 8
<1>3. Signed32(u) = u /\ u > 0
  <2>1. u \in 1..(Half - 1) /\ Half \in Nat
    BY HalfWord
  <2> HIDE DEF u
  <2>2. u \in 0..(Half - 1) /\ u > 0
    BY <2>1
  <2> QED BY <2>2, SmallBack
<1> HIDE DEF y, u
<1>4. y <= l => TagWire = v % 8 /\ TagNum = u
  BY <1>2, <1>3 DEF TagWire, TagNum, u
<1>5. y > l => ~TagOk
  BY <1>2 DEF TagOk
<1>6. y <= l => TagOk
  BY <1>2, <1>3, <1>4 DEF TagOk
<1> QED BY <1>2, <1>4, <1>5, <1>6 DEF y, u

------------------------------------------------------------------------------
(* One field of a message of a type, of which v and body are the bytes *)

\* The tag is read, and the value is next.
Behind(p, v, body) ==
  /\ field = [num |-> v \div 8, wire |-> v % 8, pre |-> p]
  /\ iNdEx = p + SizeOfVarint(v)

\* What a field without an end in the slice does.
CutOff(y) == Fail /\ y > l

\* What the field makes of the message, read in the buffer.
Becomes(y, n) ==
  \E m : SetTop(m) /\ UNCHANGED ends /\ NextField(y) /\ ReadIn(buf, m) = n

\* The cases of a known field.
LEMMA KnownField ==
  ASSUME pc = "field", NEW f, field.num = f, f \in DOMAIN Cases(top.type)
  PROVE  /\ Known /\ ~Unknown
         /\ kind = KindOf(top.type, f) /\ name = NameOf(top.type, f)
BY DEF Known, Unknown, kind, name, KindOf, NameOf

\* What steps of Decode there are in a field.
LEMMA InAField ==
  ASSUME pc = "field", Decode
  PROVE  \/ WrongWireType \/ BadVarint \/ ReadNumber \/ BadLength \/ ReadText
         \/ EnterMessage \/ SkipUnknown \/ BadUnknown
BY DEF Decode, BadTag, ReadTag, LeaveMessage, Return

\* A number, a flag or a count in the case it belongs to.
LEMMA ScalarField ==
  ASSUME TypeInv, pc = "field", Decode, NEW f \in DOMAIN Cases(top.type),
         KindOf(top.type, f) \in Scalars, NEW x \in Int, field.num = f, field.wire = 0,
         StandsAt(buf, iNdEx, EncodeVarint(x))
  PROVE  \/ CutOff(iNdEx + SizeOfVarint(x))
         \/ Becomes(iNdEx + SizeOfVarint(x),
                    Put(ReadIn(buf, top.msg), NameOf(top.type, f),
                        NumberAs(KindOf(top.type, f), x % Word64)))
<1> DEFINE y == iNdEx + SizeOfVarint(x)
           k == KindOf(top.type, f)
           g == NameOf(top.type, f)
           m == top.msg
<1>1. Known /\ ~Unknown /\ kind = k /\ name = g
  BY KnownField
<1>2. k \in Scalars /\ WireType(kind) = 0
  BY <1>1 DEF Scalars, WireType
<1>3. iNdEx \in Nat /\ l \in Nat
  BY Positions DEF TypeInv
<1>4. /\ y <= l => VarintOk(iNdEx) /\ After(iNdEx) = y /\ Varint(iNdEx) = x % Word64
      /\ y > l => ~VarintOk(iNdEx)
  <2>1. BoundsInv
    BY DEF TypeInv
  <2> QED BY <1>3, <2>1, VarintsAreReadBack
<1>5. g \in Counts \cup Flags
  BY <1>1, <1>2, KnownCase DEF TypeInv
<1> DEFINE v == NumberAs(k, x % Word64)
<1>6. y <= l => NumberOf(Varint(iNdEx)) = v
  BY <1>1, <1>4 DEF NumberOf, NumberAs
<1>7. y \in Int
  <2>1. SizeOfVarint(x) \in Nat
    BY SizeOfVarintIsExact
  <2> QED BY <1>3, <2>1
<1>8. BadVarint \/ ReadNumber
  BY <1>1, <1>2, InAField DEF WrongWireType, BadLength, ReadText, EnterMessage, Counted,
                             Expected, SkipUnknown, BadUnknown
<1> HIDE DEF y, v, g, k, m
<1>9. CASE BadVarint
  <2>1. ~VarintOk(iNdEx) /\ Fail
    BY <1>9 DEF BadVarint
  <2>2. y > l
    BY <1>3, <1>4, <1>7, <2>1
  <2> QED BY <2>1, <2>2 DEF CutOff, y
<1>10. CASE ReadNumber
  <2>1. y <= l
    BY <1>3, <1>4, <1>7, <1>10 DEF ReadNumber
  <2>2. SetTop(Put(m, g, v)) /\ UNCHANGED ends /\ NextField(y)
    BY <1>1, <1>4, <1>6, <1>10, <2>1 DEF ReadNumber, m
  <2>3. ReadField(buf, g, v) = v
    BY <1>5, NamesAreKinds, InnerTypes DEF ReadField, FlatField
  <2>4. ReadIn(buf, Put(m, g, v)) = Put(ReadIn(buf, m), g, v)
    BY <2>3, ReadOfPut
  <2> QED BY <2>2, <2>4 DEF Becomes, y, v, g, k, m
<1> QED BY <1>8, <1>9, <1>10

\* The length in front of a text or a message.
LEMMA LengthOfField ==
  ASSUME BoundsInv, NEW s \in Seq(Byte), Len(s) < Half,
         StandsAt(buf, iNdEx, EncodeVarint(Len(s)) \o s)
  PROVE  LET n == SizeOfVarint(Len(s))
             y == (iNdEx + n) + Len(s)
         IN  /\ y <= l => /\ VarintOk(iNdEx) /\ LengthOk /\ length = Len(s)
                          /\ start = iNdEx + n /\ start + length = y
             /\ y > l => ~VarintOk(iNdEx) \/ ~LengthOk
             /\ StandsAt(buf, iNdEx + n, s)
             /\ n \in Nat /\ Len(s) \in Nat /\ l \in Nat /\ iNdEx \in Nat
             /\ iNdEx + Len(EncodeVarint(Len(s)) \o s) = y
<1> DEFINE k == Len(s)
           n == SizeOfVarint(k)
           y == (iNdEx + n) + k
<1>1. iNdEx \in Nat /\ l \in Nat
  BY Positions
<1>2. k \in Nat /\ k \in 0..(Half - 1) /\ k \in 0..(Word64 - 1)
  <2>1. k \in Nat /\ k < Half
    OBVIOUS
  <2>2. Half \in Nat /\ Half <= Word64 /\ Word64 \in Nat
    <3>1. Half \in Nat /\ Word32 = 2 * Half /\ Word32 <= Word64 /\ Word64 \in Nat
      BY HalfWord
    <3> QED BY <3>1
  <2> HIDE DEF k
  <2> QED BY <2>1, <2>2
<1>3. StandsAt(buf, iNdEx, Encoded(k, s))
  BY DEF Encoded
<1>4. /\ iNdEx + n <= l => VarintOk(iNdEx) /\ After(iNdEx) = iNdEx + n /\ Varint(iNdEx) = k
      /\ iNdEx + n > l => ~VarintOk(iNdEx)
      /\ StandsAt(buf, iNdEx + n, s)
      /\ iNdEx + Len(Encoded(k, s)) = (iNdEx + n) + k
      /\ n \in Nat
  BY <1>1, <1>2, <1>3, TagIsReadBack
<1>5. Signed32(k) = k
  BY <1>2, SmallBack
<1> HIDE DEF k, n
<1>6. iNdEx + n <= l => /\ length = k /\ start = iNdEx + n
                        /\ (LengthOk <=> y <= l)
  <2>1. iNdEx + n <= l => length = k /\ start = iNdEx + n
    BY <1>4, <1>5 DEF length, start
  <2>2. ASSUME iNdEx + n <= l PROVE LengthOk <=> y <= l
    <3>1. LengthOk <=> k \in 0..(l - (iNdEx + n))
      BY <2>1, <2>2 DEF LengthOk
    <3> QED BY <1>1, <1>2, <1>4, <3>1
  <2> QED BY <2>1, <2>2
<1>7. y <= l => iNdEx + n <= l
  BY <1>1, <1>2, <1>4
<1>8. y \in Int
  BY <1>1, <1>2, <1>4
<1> HIDE DEF y
<1>9. y <= l => VarintOk(iNdEx) /\ LengthOk /\ length = k /\ start = iNdEx + n /\ start + length = y
  BY <1>4, <1>6, <1>7 DEF y
<1>10. y > l => ~VarintOk(iNdEx) \/ ~LengthOk
  BY <1>1, <1>4, <1>6, <1>8
<1>11. iNdEx + Len(EncodeVarint(k) \o s) = y
  BY <1>4 DEF Encoded, y
<1> QED BY <1>1, <1>2, <1>4, <1>9, <1>10, <1>11 DEF k, n, y

\* A text in the case it belongs to.
LEMMA TextInField ==
  ASSUME TypeInv, pc = "field", Decode, NEW f \in DOMAIN Cases(top.type),
         KindOf(top.type, f) \in {"string", "strings"}, NEW s \in Seq(Byte), Len(s) < Half,
         field.num = f, field.wire = 2, StandsAt(buf, iNdEx, EncodeVarint(Len(s)) \o s)
  PROVE  LET y == iNdEx + Len(EncodeVarint(Len(s)) \o s)
             r == ReadIn(buf, top.msg)
             g == NameOf(top.type, f)
         IN  \/ CutOff(y)
             \/ Becomes(y, Put(r, g, IF KindOf(top.type, f) = "strings" THEN Append(r[g], s)
                                     ELSE s))
<1> DEFINE y == iNdEx + Len(EncodeVarint(Len(s)) \o s)
           k == KindOf(top.type, f)
           g == NameOf(top.type, f)
           m == top.msg
           r == ReadIn(buf, m)
           p == iNdEx + SizeOfVarint(Len(s))
           w == IF k = "strings" THEN Append(r[g], s) ELSE s
<1>1. Known /\ ~Unknown /\ kind = k /\ name = g
  BY KnownField
<1>2. k \in {"string", "strings"} /\ WireType(kind) = 2 /\ field.wire = 2
  BY <1>1 DEF WireType
<1>3. BoundsInv /\ buf \in Seq(Byte) /\ l <= Len(buf) /\ Len(buf) \in Nat
  BY BufferEnds DEF TypeInv
<1>4. /\ y <= l => /\ VarintOk(iNdEx) /\ LengthOk /\ length = Len(s)
                   /\ start = p /\ start + length = y
      /\ y > l => ~VarintOk(iNdEx) \/ ~LengthOk
      /\ StandsAt(buf, p, s)
      /\ p \in Nat /\ Len(s) \in Nat /\ l \in Nat /\ iNdEx \in Nat
      /\ y = p + Len(s)
  BY <1>3, LengthOfField
<1>5. /\ k = "string" => Other(g)
      /\ k = "strings" => g = "trace_ids" /\ top.type = "AppTrace"
  BY <1>1, KnownCase DEF TypeInv
<1>6. BadVarint \/ BadLength \/ ReadText
  BY <1>1, <1>2, InAField DEF WrongWireType, ReadNumber, EnterMessage, Counted,
                             Expected, SkipUnknown, BadUnknown
<1>7. Good(Chars, top.type, m) /\ top.type \in Types
  BY TopIsACall DEF TypeInv, IsCall
<1> HIDE DEF y, k, g, m, p, r, w
<1>8. CASE BadVarint \/ BadLength
  <2>1. Fail /\ (~VarintOk(iNdEx) \/ ~LengthOk)
    BY <1>8 DEF BadVarint, BadLength
  <2>2. y > l
    BY <1>4, <2>1
  <2> QED BY <2>1, <2>2 DEF CutOff, y
<1>9. CASE ReadText
  <2> DEFINE a == Slice(p, p + Len(s))
             x == IF k = "strings" THEN Append(m[g], a) ELSE a
  <2>1. VarintOk(iNdEx) /\ LengthOk
    BY <1>9 DEF ReadText, Counted
  <2>2. y <= l /\ y \in Nat
    BY <1>4, <2>1
  <2>3. start = p /\ start + length = p + Len(s) /\ p + Len(s) = y
    BY <1>4, <2>2
  <2>4. SetTop(Put(m, g, x)) /\ UNCHANGED ends /\ NextField(y)
    <3>1. /\ SetTop(LET s_1 == Slice(start, start + length)
                    IN  Put(m, g, IF kind = "strings" THEN Append(m[g], s_1) ELSE s_1))
          /\ UNCHANGED ends /\ NextField(start + length)
      BY <1>1, <1>9 DEF ReadText, m
    <3> QED BY <1>1, <2>3, <3>1
  <2>5. BytesIn(buf, a) = s
    BY <1>3, <1>4, <2>2, SliceReads
  <2> HIDE DEF a
  <2>6. ReadField(buf, g, x) = w
    <3>1. CASE k = "string"
      <4>1. ReadField(buf, g, a) = BytesIn(buf, a)
        BY <1>5, <3>1, InnerTypes, NamesAreKinds DEF ReadField, FlatField, Other
      <4> QED BY <2>5, <3>1, <4>1 DEF w
    <3>2. CASE k = "strings"
      <4>1. g = "trace_ids" /\ "trace_ids" \in DOMAIN m
        BY <1>5, <1>7, <3>2, AlwaysThere DEF Good, GoodFlat, Fits
      <4>2. m[g] \in Seq(Seq(Chars))
        BY <1>7, <4>1 DEF Good, GoodFlat, TextGood
      <4>3. IsSequence(m[g])
        BY <4>2, SeqsAre
      <4>4. ReadField(buf, g, Append(m[g], a)) = Append(ReadField(buf, g, m[g]), BytesIn(buf, a))
        BY <4>1, <4>3, TextsRead
      <4>5. r[g] = ReadField(buf, g, m[g])
        BY <4>1, ReadHas DEF r
      <4> QED BY <2>5, <3>2, <4>4, <4>5 DEF w
    <3> QED BY <1>2, <3>1, <3>2
  <2> HIDE DEF x
  <2>7. ReadIn(buf, Put(m, g, x)) = Put(r, g, w)
    BY <2>6, ReadOfPut DEF r
  <2>8. Becomes(y, Put(r, g, w))
    BY <2>4, <2>7 DEF Becomes
  <2> QED BY <2>8 DEF y, r, g, w, k, m
<1> QED BY <1>6, <1>8, <1>9

\* The call that decodes the nested message s, which ends at y.
Opens(f, s, y) ==
  /\ top.type = "AppInfo" /\ y <= l /\ Len(stack) = 1
  /\ StandsAt(buf, y - Len(s), s) /\ y - Len(s) \in Nat
  /\ Len(stack') = 2
  /\ stack'[1] = [stack[1] EXCEPT !.msg = Opened(top.type, f, top.msg)]
  /\ stack'[2].type = TypeOf[NameOf(top.type, f)]
  /\ stack'[2].into = NameOf(top.type, f)
  /\ stack'[2].msg = Begun(top.type, f, top.msg)
  /\ ends' = Append(ends, y) /\ NextField(y - Len(s))

\* What a call puts on the stack.
LEMMA EnterShape ==
  ASSUME NEW d, NEW c, IsSequence(stack), Len(stack) = 1,
         stack' = Append([stack EXCEPT ![Len(stack)].msg = d], c)
  PROVE  Len(stack') = 2 /\ stack'[1] = [stack[1] EXCEPT !.msg = d] /\ stack'[2] = c
<1> DEFINE a == [stack[1] EXCEPT !.msg = d]
           e == [stack EXCEPT ![1] = a]
<1>1. stack \in Seq(Range(stack)) /\ Len(stack) = 1 /\ DOMAIN stack = {1}
  BY DEF IsSequence
<1>2. [stack EXCEPT ![Len(stack)].msg = d] = e
  BY <1>1
<1>3. e \in Seq(Range(stack) \cup {a}) /\ Len(e) = 1 /\ e[1] = a
  <2> HIDE DEF a
  <2> QED BY <1>1
<1> HIDE DEF a, e
<1>4. IsSequence(e) /\ stack' = Append(e, c)
  BY <1>2, <1>3, SeqsAre
<1>5. Len(Append(e, c)) = Len(e) + 1
  BY <1>4, AppendIsSequence
<1>6. Append(e, c)[1] = e[1]
  <2>1. 1 \in 1..Len(e)
    BY <1>3
  <2> QED BY <1>4, <2>1, AppendKeeps
<1>7. Append(e, c)[Len(e) + 1] = c
  BY <1>4, AppendAdds
<1> QED BY <1>3, <1>4, <1>5, <1>6, <1>7 DEF a

\* A nested message in the case it belongs to.
LEMMA MessageInField ==
  ASSUME TypeInv, pc = "field", Decode, NEW f \in DOMAIN Cases(top.type),
         KindOf(top.type, f) \in {"message", "messages", "oneof"},
         NEW s \in Seq(Byte), Len(s) < Half,
         field.num = f, field.wire = 2, StandsAt(buf, iNdEx, EncodeVarint(Len(s)) \o s)
  PROVE  LET y == iNdEx + Len(EncodeVarint(Len(s)) \o s)
         IN  CutOff(y) \/ Opens(f, s, y)
<1> DEFINE y == iNdEx + Len(EncodeVarint(Len(s)) \o s)
           k == KindOf(top.type, f)
           g == NameOf(top.type, f)
           m == top.msg
           p == iNdEx + SizeOfVarint(Len(s))
<1>1. Known /\ ~Unknown /\ kind = k /\ name = g
  BY KnownField
<1>2. k \in {"message", "messages", "oneof"} /\ WireType(kind) = 2 /\ field.wire = 2
  BY <1>1 DEF WireType
<1>3. BoundsInv
  BY DEF TypeInv
<1>4. /\ y <= l => /\ VarintOk(iNdEx) /\ LengthOk /\ length = Len(s)
                   /\ start = p /\ start + length = y
      /\ y > l => ~VarintOk(iNdEx) \/ ~LengthOk
      /\ StandsAt(buf, p, s)
      /\ p \in Nat /\ Len(s) \in Nat /\ l \in Nat /\ iNdEx \in Nat
      /\ y = p + Len(s)
  BY <1>3, LengthOfField
<1>5. top.type = "AppInfo"
  BY <1>1, <1>2, KnownCase DEF TypeInv
<1>6. BadVarint \/ BadLength \/ EnterMessage
  BY <1>1, <1>2, InAField DEF WrongWireType, ReadNumber, ReadText, Counted,
                             Expected, SkipUnknown, BadUnknown
<1>7. Len(stack) = 1 /\ IsSequence(stack)
  BY <1>5, TopIsACall DEF TypeInv, StackInv
<1>10. y \in Nat /\ p = y - Len(s)
  <2> DEFINE n == Len(s)
  <2>1. y = p + n /\ n \in Nat /\ p \in Nat
    BY <1>4
  <2> HIDE DEF n, y, p
  <2>2. y \in Nat /\ p = y - n
    BY <2>1
  <2> QED BY <2>2 DEF n
<1> HIDE DEF y, k, g, m, p
<1>8. CASE BadVarint \/ BadLength
  <2>1. Fail /\ (~VarintOk(iNdEx) \/ ~LengthOk)
    BY <1>8 DEF BadVarint, BadLength
  <2>2. y > l
    BY <1>4, <1>10, <2>1
  <2> QED BY <2>1, <2>2 DEF CutOff, y
<1>9. CASE EnterMessage
  <2> DEFINE there == k # "messages" /\ g \in DOMAIN m
             outer == IF k = "messages" THEN Put(m, g, Append(m[g], Empty("KeyVal"))) ELSE m
             call  == [type    |-> TypeOf[g],
                       into    |-> g,
                       inPlace |-> there \/ k # "oneof",
                       msg     |-> IF there THEN m[g] ELSE Empty(TypeOf[g])]
  <2>1. VarintOk(iNdEx) /\ LengthOk
    BY <1>9 DEF EnterMessage, Counted
  <2>2. y <= l
    BY <1>4, <1>10, <2>1
  <2>3. start = p /\ start + length = y
    BY <1>4, <2>2
  <2>4. stack' = Append([stack EXCEPT ![Len(stack)].msg = outer], call)
    BY <1>1, <1>9 DEF EnterMessage, m
  <2>5. outer = Opened(top.type, f, m) /\ call.msg = Begun(top.type, f, m)
    BY DEF Opened, Begun, k, g
  <2>6. call.type = TypeOf[g] /\ call.into = g
    OBVIOUS
  <2> HIDE DEF outer, call
  <2>7. Len(stack') = 2 /\ stack'[1] = [stack[1] EXCEPT !.msg = outer] /\ stack'[2] = call
    BY <1>7, <2>4, EnterShape
  <2>8. ends' = Append(ends, y) /\ NextField(p)
    BY <1>9, <2>3 DEF EnterMessage
  <2>9. Opens(f, s, y)
    BY <1>4, <1>5, <1>7, <1>10, <2>2, <2>5, <2>6, <2>7, <2>8 DEF Opens, g, m
  <2> QED BY <2>9 DEF y
<1> QED BY <1>6, <1>8, <1>9

\* A field no case of the switch is for.
LEMMA NewerInField ==
  ASSUME TypeInv, pc = "field", Decode, NEW v \in 0..(Word64 - 1), NEW body \in Seq(Byte),
         NEW p \in Nat, NewerField(top.type, v, body), Behind(p, v, body),
         StandsAt(buf, p, Encoded(v, body))
  PROVE  LET y == p + Len(Encoded(v, body))
         IN  \/ CutOff(y)
             \/ Becomes(y, Keeping(ReadIn(buf, top.msg), Encoded(v, body)))
<1> DEFINE e == Encoded(v, body)
           y == p + Len(e)
           m == top.msg
<1>1. Unknown /\ ~Known /\ field.pre = p
  BY DEF NewerField, Behind, Unknown, Known
<1>2. BoundsInv /\ buf \in Seq(Byte) /\ l <= Len(buf) /\ Len(buf) \in Nat /\ l \in Nat
  BY BufferEnds DEF TypeInv
<1>3. e \in Seq(Byte) /\ Len(e) \in Nat /\ Len(e) >= 1
  BY HalfWord, EncodedIs
<1>4. p < l
  <2>1. iNdEx = p + SizeOfVarint(v) /\ SizeOfVarint(v) \in Nat \ {0}
    BY EncodedIs DEF Behind
  <2>2. iNdEx <= l
    BY <1>2, Positions
  <2> QED BY <1>2, <2>1, <2>2
<1>5. /\ y <= l => Skip(p) = y
      /\ y > l => Skip(p) \notin p..l
  <2>1. PICK D : Nests(e, D)
    BY DEF NewerField
  <2>2. StandsAt(buf, p, e)
    OBVIOUS
  <2> HIDE DEF e
  <2> QED BY <1>2, <1>3, <1>4, <2>1, <2>2, SkipIsExact
<1>6. SkipUnknown \/ BadUnknown
  BY <1>1, InAField DEF WrongWireType, ReadNumber, ReadText, EnterMessage, BadVarint,
                        BadLength, Counted, Expected
<1>7. Good(Chars, top.type, m) /\ top.type \in Types
  BY TopIsACall DEF TypeInv, IsCall
<1>8. y \in Nat /\ y >= p
  BY <1>3
<1>9. StandsAt(buf, p, e)
  OBVIOUS
<1> HIDE DEF e, m
<1>10. CASE BadUnknown
  <2>1. Fail /\ Skip(p) \notin p..l
    BY <1>1, <1>10 DEF BadUnknown
  <2>2. y > l
    BY <1>2, <1>5, <1>8, <2>1
  <2> QED BY <2>1, <2>2 DEF CutOff, e
<1>11. CASE SkipUnknown
  <2>1. Skip(p) \in p..l
    BY <1>1, <1>11 DEF SkipUnknown
  <2>2. y <= l /\ Skip(p) = y
    BY <1>2, <1>5, <1>8, <2>1
  <2>3. SubSeq(buf, p + 1, y) = e
    BY <1>2, <1>3, <1>9, <2>2, SliceReads
  <2>4. /\ SetTop(Keeping(m, e))
        /\ UNCHANGED ends /\ NextField(y)
    BY <1>1, <1>11, <2>2, <2>3 DEF SkipUnknown, m, Keeping
  <2>5. "unknown" \in DOMAIN m /\ m.unknown \in Seq(Byte)
    BY <1>7, AlwaysUnknown DEF Good, GoodFlat, TextGood
  <2>6. ReadIn(buf, Keeping(m, e)) = Keeping(ReadIn(buf, m), e)
    <3>1. "unknown" \in DOMAIN m
      BY <2>5
    <3>2. m.unknown \in Seq(Byte)
      BY <2>5
    <3>3. e \in Seq(Byte)
      BY <1>3
    <3> QED BY <3>1, <3>2, <3>3, ReadKept, Zenon
  <2>7. Becomes(y, Keeping(ReadIn(buf, m), e))
    BY <2>4, <2>6 DEF Becomes
  <2> QED BY <2>7 DEF e, m
<1> QED BY <1>6, <1>10, <1>11

\* The field is a message, for whose fields a call is made.
Nesting(y, m, n) ==
  \E f \in DOMAIN Cases("AppInfo"), s \in Seq(Byte) : \E C :
    /\ KindOf("AppInfo", f) \in {"message", "messages", "oneof"}
    /\ Opens(f, s, y)
    /\ FlatMarks(TypeOf[NameOf("AppInfo", f)], s, C) /\ C[0] = Begun("AppInfo", f, m)
    /\ n = Attach(Opened("AppInfo", f, m), NameOf("AppInfo", f), C[Len(s)])

\* Whatever the field is, it is read as a whole or it is cut.
LEMMA FieldStep ==
  ASSUME TypeInv, pc = "field", Decode, NEW v \in 0..(Word64 - 1), NEW body \in Seq(Byte),
         NEW p \in Nat, Behind(p, v, body), StandsAt(buf, p, Encoded(v, body)),
         NEW n, Step(top.type, ReadIn(buf, top.msg), v, body, n)
  PROVE  LET y == p + Len(Encoded(v, body))
         IN  CutOff(y) \/ Becomes(y, n) \/ Nesting(y, ReadIn(buf, top.msg), n)
<1> DEFINE y == p + Len(Encoded(v, body))
           m == ReadIn(buf, top.msg)
           type == top.type
<1>1. BoundsInv /\ type \in Types
  BY TopIsACall DEF TypeInv, IsCall
<1>2. StandsAt(buf, iNdEx, body) /\ y = iNdEx + Len(body)
  <2>1. /\ StandsAt(buf, p + SizeOfVarint(v), body)
        /\ p + Len(Encoded(v, body)) = (p + SizeOfVarint(v)) + Len(body)
    BY <1>1, TagIsReadBack
  <2> QED BY <2>1 DEF Behind
<1>3. field.num = v \div 8 /\ field.wire = v % 8
  BY DEF Behind
<1>4. ASSUME NEW f \in DOMAIN Cases(type)
      PROVE  /\ (8 * f) \div 8 = f /\ (8 * f) % 8 = 0
             /\ (8 * f + 2) \div 8 = f /\ (8 * f + 2) % 8 = 2
  BY <1>1, TagsOfCases
<1>5. CASE \E f \in DOMAIN Cases(type), x \in Int :
             /\ KindOf(type, f) \in Scalars
             /\ v = 8 * f /\ body = EncodeVarint(x)
             /\ n = Put(m, NameOf(type, f), NumberAs(KindOf(type, f), x % Word64))
  <2>1. PICK f \in DOMAIN Cases(type), x \in Int :
             /\ KindOf(type, f) \in Scalars
             /\ v = 8 * f /\ body = EncodeVarint(x)
             /\ n = Put(m, NameOf(type, f), NumberAs(KindOf(type, f), x % Word64))
    BY <1>5
  <2>2. field.num = f /\ field.wire = 0
    BY <1>3, <1>4, <2>1
  <2>3. y = iNdEx + SizeOfVarint(x)
    <3>1. Len(body) = SizeOfVarint(x)
      BY <2>1, SizeOfVarintIsExact DEF Sized
    <3> QED BY <1>2, <3>1
  <2>4. CutOff(iNdEx + SizeOfVarint(x)) \/ Becomes(iNdEx + SizeOfVarint(x), n)
    BY <1>2, <2>1, <2>2, ScalarField
  <2> QED BY <2>3, <2>4
<1>6. CASE \E f \in DOMAIN Cases(type), s \in Seq(Byte) :
             /\ KindOf(type, f) \in {"string", "strings"}
             /\ v = 8 * f + 2 /\ Len(s) < Half /\ body = EncodeVarint(Len(s)) \o s
             /\ n = Put(m, NameOf(type, f),
                        IF KindOf(type, f) = "strings" THEN Append(m[NameOf(type, f)], s) ELSE s)
  <2>1. PICK f \in DOMAIN Cases(type), s \in Seq(Byte) :
             /\ KindOf(type, f) \in {"string", "strings"}
             /\ v = 8 * f + 2 /\ Len(s) < Half /\ body = EncodeVarint(Len(s)) \o s
             /\ n = Put(m, NameOf(type, f),
                        IF KindOf(type, f) = "strings" THEN Append(m[NameOf(type, f)], s) ELSE s)
    BY <1>6
  <2>2. field.num = f /\ field.wire = 2
    BY <1>3, <1>4, <2>1
  <2>3. StandsAt(buf, iNdEx, EncodeVarint(Len(s)) \o s)
    BY <1>2, <2>1
  <2>4. \/ CutOff(iNdEx + Len(EncodeVarint(Len(s)) \o s))
        \/ Becomes(iNdEx + Len(EncodeVarint(Len(s)) \o s), n)
    BY <2>1, <2>2, <2>3, TextInField
  <2> QED BY <1>2, <2>1, <2>4
<1>7. CASE NewerField(type, v, body) /\ n = Keeping(m, Encoded(v, body))
  <2>1. CutOff(y) \/ Becomes(y, Keeping(m, Encoded(v, body)))
    BY <1>7, NewerInField
  <2> QED BY <1>7, <2>1
<1>8. CASE NestedStep(type, m, v, body, n)
  <2>1. PICK f \in DOMAIN Cases(type), s \in Seq(Byte) : \E C :
            /\ KindOf(type, f) \in {"message", "messages", "oneof"}
            /\ v = 8 * f + 2 /\ Len(s) < Half /\ body = EncodeVarint(Len(s)) \o s
            /\ FlatMarks(TypeOf[NameOf(type, f)], s, C) /\ C[0] = Begun(type, f, m)
            /\ n = Attach(Opened(type, f, m), NameOf(type, f), C[Len(s)])
    BY <1>8 DEF NestedStep
  <2>2. field.num = f /\ field.wire = 2
    BY <1>3, <1>4, <2>1
  <2>3. StandsAt(buf, iNdEx, EncodeVarint(Len(s)) \o s)
    BY <1>2, <2>1
  <2>4. y = iNdEx + Len(EncodeVarint(Len(s)) \o s)
    BY <1>2, <2>1
  <2>5. \/ CutOff(iNdEx + Len(EncodeVarint(Len(s)) \o s))
        \/ Opens(f, s, iNdEx + Len(EncodeVarint(Len(s)) \o s))
    BY <2>1, <2>2, <2>3, MessageInField
  <2>6. CutOff(y) \/ Opens(f, s, y)
    BY <2>4, <2>5
  <2> HIDE DEF y, m
  <2>7. ASSUME ~CutOff(y) PROVE Nesting(y, m, n)
    <3>1. type = "AppInfo" /\ f \in DOMAIN Cases("AppInfo")
      BY <2>6, <2>7 DEF Opens
    <3> QED BY <2>1, <2>6, <2>7, <3>1 DEF Nesting
  <2> QED BY <2>7 DEF y, m
<1> QED BY <1>5, <1>6, <1>7, <1>8 DEF Step, FlatStep

------------------------------------------------------------------------------
(* The innermost call in its slice *)

\* Between two fields, or behind a tag, of s that begins at o.
At(o, s, N) ==
  \E p \in DOMAIN N :
    /\ ReadIn(buf, top.msg) = N[p]
    /\ \/ pc = "tag" /\ iNdEx = o + p
       \/ /\ pc = "field"
          /\ \E v, body, q : /\ Framed(s, DOMAIN N, p, v, body, q)
                             /\ Step(top.type, N[p], v, body, N[q])
                             /\ Behind(o + p, v, body)

\* The next field is cut.
Stuck(o, N) ==
  /\ Fail
  /\ \E p \in DOMAIN N : /\ ReadIn(buf, top.msg) = N[p] /\ o + p < l
                         /\ \A r \in DOMAIN N : r <= p \/ o + r > l

\* The call goes on.
Moves(o, s, N) ==
  /\ Len(stack') = Len(stack)
  /\ \A k \in 1..Len(stack) : stack'[k].type = stack[k].type /\ stack'[k].into = stack[k].into
  /\ \A k \in 1..(Len(stack) - 1) : stack'[k] = stack[k]
  /\ UNCHANGED <<ends, buf, inputVars>> /\ pc' \in {"tag", "field"}
  /\ At(o, s, N)'

\* It makes one of its own, and will go on at the end of that.
Descending(o, N) ==
  \E p \in DOMAIN N, q \in DOMAIN N :
    ReadIn(buf, top.msg) = N[p] /\ Nesting(o + q, N[p], N[q])

\* The innermost call is at the end of its slice.
Ending(o, N) ==
  /\ LeaveMessage \/ Return
  /\ \E p \in DOMAIN N : ReadIn(buf, top.msg) = N[p] /\ iNdEx = o + p /\ iNdEx = l

\* A step within the innermost call leaves the others.
LEMMA TopMoves ==
  ASSUME StackInv, NEW m, SetTop(m)
  PROVE  /\ Len(stack') = Len(stack) /\ top'.msg = m /\ top'.type = top.type
         /\ \A k \in 1..Len(stack) : stack'[k].type = stack[k].type /\ stack'[k].into = stack[k].into
         /\ \A k \in 1..(Len(stack) - 1) : stack'[k] = stack[k]
<1> DEFINE n == Len(stack)
           d == [stack[n] EXCEPT !.msg = m]
<1>1. stack \in Seq(Range(stack)) /\ n \in {1, 2} /\ DOMAIN stack = 1..n
  BY DEF StackInv, IsSequence
<1>2. IsCall(stack[n])
  BY <1>1 DEF StackInv
<1>3. d.msg = m /\ d.type = stack[n].type /\ d.into = stack[n].into
  BY <1>2 DEF IsCall
<1>4. stack' = [stack EXCEPT ![n] = d]
  BY Zenon DEF SetTop
<1> HIDE DEF d
<1>5. Len(stack') = n /\ stack'[n] = d /\ \A k \in 1..n : k # n => stack'[k] = stack[k]
  <2> DEFINE e == [stack EXCEPT ![n] = d]
  <2>1. e \in Seq(Range(stack) \cup {d}) /\ Len(e) = n
    BY <1>1
  <2>2. e[n] = d /\ \A k \in 1..n : k # n => e[k] = stack[k]
    BY <1>1
  <2> QED BY <1>4, <2>1, <2>2
<1>6. top' = d
  BY <1>5 DEF top
<1>7. top'.msg = m /\ top'.type = top.type
  <2>1. top = stack[n]
    BY DEF top
  <2> QED BY <1>3, <1>6, <2>1
<1>8. ASSUME NEW k \in 1..n PROVE stack'[k].type = stack[k].type /\ stack'[k].into = stack[k].into
  BY <1>3, <1>5
<1>9. ASSUME NEW k \in 1..(n - 1) PROVE stack'[k] = stack[k]
  <2>1. k \in 1..n /\ k # n
    <3> HIDE DEF n
    <3> QED BY <1>1
  <2> QED BY <1>5, <2>1
<1> QED BY <1>5, <1>7, <1>8, <1>9

\* Which steps a tag that was read leads to.
LEMMA FieldSteps ==
  ASSUME \/ WrongWireType \/ BadVarint \/ ReadNumber \/ BadLength \/ ReadText
         \/ EnterMessage \/ SkipUnknown \/ BadUnknown
  PROVE  pc = "field"
<1>1. Known \/ Unknown => pc = "field"
  BY DEF Known, Unknown
<1>2. Expected \/ Counted => Known
  BY DEF Expected, Counted
<1> QED BY <1>1, <1>2 DEF WrongWireType, BadVarint, ReadNumber, BadLength, ReadText,
                          EnterMessage, SkipUnknown, BadUnknown, Counted

\* Which steps are taken between two fields.
LEMMA TagSteps ==
  ASSUME pc = "tag", Decode
  PROVE  BadTag \/ ReadTag \/ LeaveMessage \/ Return
<1>1. pc # "field"
  OBVIOUS
<1> QED BY <1>1, FieldSteps DEF Decode

\* Between two fields the tag of the next one is read, or the call ends.
LEMMA TagStep ==
  ASSUME TypeInv, NEW o \in Nat, NEW s \in Seq(Byte), NEW N, Marks(top.type, s, N),
         StandsAt(buf, o, s), l <= o + Len(s), At(o, s, N), pc = "tag", Decode
  PROVE  Stuck(o, N) \/ Moves(o, s, N) \/ Ending(o, N)
<1>1. PICK p \in DOMAIN N : ReadIn(buf, top.msg) = N[p] /\ iNdEx = o + p
  BY DEF At
<1>2. BoundsInv /\ StackInv /\ iNdEx <= l /\ l \in Nat /\ iNdEx \in Nat /\ top.type \in Types
  BY TopIsACall, Positions DEF TypeInv, IsCall
<1>3. DOMAIN N \subseteq 0..Len(s) /\ Len(s) \in Nat /\ Len(s) \in DOMAIN N /\ p \in Nat
  BY DEF Marks, Spans
<1>4. CASE iNdEx = l
  <2>1. LeaveMessage \/ Return
    BY <1>2, <1>4, TagSteps DEF BadTag, ReadTag
  <2> QED BY <1>1, <1>4, <2>1 DEF Ending
<1>5. CASE iNdEx < l
  <2>1. BadTag \/ ReadTag
    <3>1. iNdEx # l
      BY <1>2, <1>5
    <3> QED BY <3>1, TagSteps DEF LeaveMessage, Return
  <2>2. p # Len(s)
    BY <1>1, <1>2, <1>3, <1>5
  <2>3. PICK v, body, q : Framed(s, DOMAIN N, p, v, body, q) /\ Step(top.type, N[p], v, body, N[q])
    BY <2>2 DEF Marks
  <2>4. /\ v \in 0..(Word64 - 1) /\ body \in Seq(Byte) /\ q = p + Len(Encoded(v, body))
        /\ q \in DOMAIN N /\ StandsAt(s, p, Encoded(v, body))
        /\ \A r \in DOMAIN N : r <= p \/ r >= q
    BY <2>3 DEF Framed
  <2>5. /\ Encoded(v, body) \in Seq(Byte)
        /\ Len(Encoded(v, body)) = SizeOfVarint(v) + Len(body)
        /\ SizeOfVarint(v) \in Nat \ {0} /\ Len(body) \in Nat
    BY <2>4, HalfWord, EncodedIs
  <2>6. StandsAt(buf, iNdEx, Encoded(v, body))
    <3>1. p + Len(Encoded(v, body)) <= Len(s)
      BY <1>3, <2>4
    <3>2. Len(buf) \in Nat
      BY <1>2, BufferEnds
    <3> QED BY <1>1, <1>3, <2>4, <2>5, <3>1, <3>2, PartOfPart
  <2>7. v \div 8 \in 1..(Half - 1) /\ v % 8 # 4
    BY <1>2, <2>3, StepTag
  <2>8. /\ iNdEx + SizeOfVarint(v) <= l =>
              /\ TagOk /\ TagNum = v \div 8 /\ TagWire = v % 8
              /\ After(iNdEx) = iNdEx + SizeOfVarint(v)
        /\ iNdEx + SizeOfVarint(v) > l => ~TagOk
    BY <1>2, <2>4, <2>6, <2>7, TagOfField
  <2>9. iNdEx + SizeOfVarint(v) \in Nat /\ o + q >= iNdEx + SizeOfVarint(v)
    <3> DEFINE a == Len(Encoded(v, body))
               c == SizeOfVarint(v)
               d == Len(body)
    <3>1. q = p + a /\ a = c + d /\ c \in Nat /\ d \in Nat
      BY <2>4, <2>5
    <3> HIDE DEF a, c, d
    <3>2. iNdEx = o + p /\ o \in Nat /\ p \in Nat
      BY <1>1, <1>3
    <3> DEFINE x == o + p
    <3>3. x \in Nat /\ iNdEx = x
      BY <3>2
    <3>4. o + q = x + a
      BY <3>1, <3>2
    <3> HIDE DEF x
    <3>5. iNdEx + c \in Nat /\ o + q >= iNdEx + c
      BY <3>1, <3>3, <3>4
    <3> QED BY <3>5 DEF c
  <2>10. CASE BadTag
    <3>1. Fail /\ iNdEx + SizeOfVarint(v) > l
      BY <1>2, <2>8, <2>9, <2>10 DEF BadTag
    <3>2. o + q > l /\ o + p < l
      BY <1>1, <1>2, <1>3, <1>5, <2>4, <2>9, <3>1
    <3>3. \A r \in DOMAIN N : r <= p \/ o + r > l
      BY <1>2, <1>3, <2>4, <3>2
    <3> QED BY <1>1, <3>1, <3>2, <3>3 DEF Stuck
  <2>11. CASE ReadTag
    <3>1. TagOk
      BY <2>11 DEF ReadTag
    <3>2. iNdEx + SizeOfVarint(v) <= l
      BY <1>2, <2>8, <2>9, <3>1
    <3>3. /\ field' = [num |-> v \div 8, wire |-> v % 8, pre |-> o + p]
          /\ iNdEx' = (o + p) + SizeOfVarint(v)
          /\ pc' = "field" /\ UNCHANGED <<inputVars, buf, ends, stack>>
      BY <1>1, <2>8, <2>11, <3>2 DEF ReadTag
    <3>4. Behind(o + p, v, body)'
      BY <3>3 DEF Behind
    <3>5. top' = top
      BY <3>3 DEF top
    <3>6. ReadIn(buf', top'.msg) = N[p] /\ Step(top'.type, N[p], v, body, N[q])
      BY <1>1, <2>3, <3>3, <3>5
    <3>7. At(o, s, N)'
      BY <2>3, <3>3, <3>4, <3>6 DEF At
    <3> QED BY <3>3, <3>7 DEF Moves
  <2> QED BY <2>1, <2>10, <2>11
<1> QED BY <1>2, <1>4, <1>5

\* Behind a tag the field is read, or it is cut.
LEMMA ValueStep ==
  ASSUME TypeInv, NEW o \in Nat, NEW s \in Seq(Byte), NEW N, Marks(top.type, s, N),
         StandsAt(buf, o, s), l <= o + Len(s), At(o, s, N), pc = "field", Decode
  PROVE  Stuck(o, N) \/ Moves(o, s, N) \/ Descending(o, N)
<1>1. PICK p \in DOMAIN N :
        /\ ReadIn(buf, top.msg) = N[p]
        /\ \E v, body, q : /\ Framed(s, DOMAIN N, p, v, body, q)
                           /\ Step(top.type, N[p], v, body, N[q])
                           /\ Behind(o + p, v, body)
  BY DEF At
<1>2. PICK v, body, q : /\ Framed(s, DOMAIN N, p, v, body, q)
                        /\ Step(top.type, N[p], v, body, N[q])
                        /\ Behind(o + p, v, body)
  BY <1>1
<1>3. BoundsInv /\ StackInv /\ iNdEx <= l /\ l \in Nat /\ iNdEx \in Nat /\ top.type \in Types
  BY TopIsACall, Positions DEF TypeInv, IsCall
<1>4. DOMAIN N \subseteq 0..Len(s) /\ Len(s) \in Nat /\ p \in Nat
  BY DEF Marks, Spans
<1>5. /\ v \in 0..(Word64 - 1) /\ body \in Seq(Byte) /\ q = p + Len(Encoded(v, body))
      /\ q \in DOMAIN N /\ StandsAt(s, p, Encoded(v, body))
      /\ \A r \in DOMAIN N : r <= p \/ r >= q
  BY <1>2 DEF Framed
<1>6. /\ Encoded(v, body) \in Seq(Byte) /\ Len(Encoded(v, body)) \in Nat
      /\ SizeOfVarint(v) \in Nat \ {0}
  BY <1>5, HalfWord, EncodedIs
<1> DEFINE e == Encoded(v, body)
           y == (o + p) + Len(e)
<1>7. StandsAt(buf, o + p, e) /\ o + p \in Nat
  <2>1. p + Len(e) <= Len(s)
    BY <1>4, <1>5
  <2>2. Len(buf) \in Nat
    BY <1>3, BufferEnds
  <2> QED BY <1>4, <1>5, <1>6, <2>1, <2>2, PartOfPart
<1>8. CutOff(y) \/ Becomes(y, N[q]) \/ Nesting(y, N[p], N[q])
  <2>1. Step(top.type, ReadIn(buf, top.msg), v, body, N[q])
    BY <1>1, <1>2
  <2>2. CutOff(y) \/ Becomes(y, N[q]) \/ Nesting(y, ReadIn(buf, top.msg), N[q])
    BY <1>2, <1>5, <1>7, <2>1, FieldStep
  <2> QED BY <1>1, <2>2
<1>9. y = o + q /\ o + p < l
  <2>1. q = p + Len(e)
    BY <1>5
  <2>2. iNdEx = (o + p) + SizeOfVarint(v)
    BY <1>2 DEF Behind
  <2>3. Len(e) \in Nat /\ SizeOfVarint(v) \in Nat \ {0}
    BY <1>6
  <2> DEFINE a == Len(e)
             c == SizeOfVarint(v)
  <2>4. q = p + a /\ y = (o + p) + a /\ iNdEx = (o + p) + c /\ a \in Nat /\ c \in Nat \ {0}
    BY <2>1, <2>2, <2>3
  <2> HIDE DEF a, c, y, e
  <2>5. p \in Nat /\ o \in Nat /\ l \in Nat /\ iNdEx <= l
    BY <1>3, <1>4
  <2> QED BY <2>4, <2>5
<1> HIDE DEF e, y
<1>10. CASE CutOff(y)
  <2>1. Fail /\ o + q > l
    BY <1>9, <1>10 DEF CutOff
  <2>2. \A r \in DOMAIN N : r <= p \/ o + r > l
    BY <1>3, <1>4, <1>5, <2>1
  <2> QED BY <1>1, <1>9, <2>1, <2>2 DEF Stuck
<1>11. CASE Becomes(y, N[q])
  <2>1. PICK m : SetTop(m) /\ UNCHANGED ends /\ NextField(o + q) /\ ReadIn(buf, m) = N[q]
    BY <1>9, <1>11 DEF Becomes
  <2>2. /\ Len(stack') = Len(stack) /\ top'.msg = m
        /\ \A k \in 1..Len(stack) : stack'[k].type = stack[k].type /\ stack'[k].into = stack[k].into
        /\ \A k \in 1..(Len(stack) - 1) : stack'[k] = stack[k]
    BY <1>3, <2>1, TopMoves
  <2>3. iNdEx' = o + q /\ pc' = "tag" /\ UNCHANGED <<inputVars, buf, field, clone>>
    BY <2>1 DEF NextField
  <2>4. At(o, s, N)'
    <3>1. ReadIn(buf', top'.msg) = N[q]
      BY <2>1, <2>2, <2>3
    <3> QED BY <1>5, <2>3, <3>1 DEF At
  <2> QED BY <2>1, <2>2, <2>3, <2>4 DEF Moves
<1>12. CASE Nesting(y, N[p], N[q])
  BY <1>1, <1>5, <1>9, <1>12 DEF Descending
<1> QED BY <1>8, <1>10, <1>11, <1>12

------------------------------------------------------------------------------
(* A clone is the message, when that holds its own bytes *)

\* The fields of each type.
LEMMA NamesOfTypes ==
  /\ Names("AppRequest") = {"version", "type", "domain", "resource", "endpoint", "unknown"}
  /\ Names("AppResponse") = {"status", "code", "exception", "result", "type", "endpoint",
                             "unknown"}
  /\ Names("AppTrace") = {"trace_id", "span_id", "parent_span_id", "x_request_id",
                          "http_proxy_client", "trace_ids", "unknown"}
  /\ Names("KeyVal") = {"key", "val", "unknown"}
  /\ Names("AppInfo") = {"req_len", "resp_len", "request_id", "req", "resp", "trace",
                         "protocol_str", "is_end", "is_async", "is_reversed", "attributes",
                         "biz_type", "biz_code", "biz_scenario", "biz_response_code",
                         "unknown"}
  /\ Names("NatsMessage") = {"subject", "reply_to", "payload", "unknown"}
  /\ Names("ZmtpMessage") = {"match_pattern", "payload", "unknown"}
<1>1. Names("AppRequest") = {"version", "type", "domain", "resource", "endpoint", "unknown"}
  <2>1. Names("AppRequest") = {AppRequest_UnmarshalVT[n][2] : n \in 1..5} \cup {"unknown"}
    BY RequestCases DEF Names, Cases
  <2>2. 1..5 = {1, 2, 3, 4, 5}
    OBVIOUS
  <2> QED BY <2>1, <2>2, RequestCases
<1>2. Names("AppResponse") = {"status", "code", "exception", "result", "type", "endpoint",
                              "unknown"}
  <2>1. Names("AppResponse") = {AppResponse_UnmarshalVT[n][2] : n \in 1..6} \cup {"unknown"}
    BY ResponseCases DEF Names, Cases
  <2>2. 1..6 = {1, 2, 3, 4, 5, 6}
    OBVIOUS
  <2> QED BY <2>1, <2>2, ResponseCases
<1>3. Names("AppTrace") = {"trace_id", "span_id", "parent_span_id", "x_request_id",
                           "http_proxy_client", "trace_ids", "unknown"}
  <2>1. Names("AppTrace") = {AppTrace_UnmarshalVT[n][2] : n \in 1..6} \cup {"unknown"}
    BY TraceCases DEF Names, Cases
  <2>2. 1..6 = {1, 2, 3, 4, 5, 6}
    OBVIOUS
  <2> QED BY <2>1, <2>2, TraceCases
<1>4. Names("KeyVal") = {"key", "val", "unknown"}
  <2>1. Names("KeyVal") = {KeyVal_UnmarshalVT[n][2] : n \in 1..2} \cup {"unknown"}
    BY KeyValCases DEF Names, Cases
  <2>2. 1..2 = {1, 2}
    OBVIOUS
  <2> QED BY <2>1, <2>2, KeyValCases
<1>5. Names("AppInfo") = {"req_len", "resp_len", "request_id", "req", "resp", "trace",
                          "protocol_str", "is_end", "is_async", "is_reversed", "attributes",
                          "biz_type", "biz_code", "biz_scenario", "biz_response_code",
                          "unknown"}
  <2>1. Names("AppInfo") = {AppInfo_UnmarshalVT[n][2] :
                              n \in 1..3 \cup 10..13 \cup 21..23 \cup 31..35} \cup {"unknown"}
    BY InfoCases DEF Names, Cases
  <2>2. 1..3 \cup 10..13 \cup 21..23 \cup 31..35
          = {1, 2, 3, 10, 11, 12, 13, 21, 22, 23, 31, 32, 33, 34, 35}
    OBVIOUS
  <2> DEFINE D == {1, 2, 3, 10, 11, 12, 13, 21, 22, 23, 31, 32, 33, 34, 35}
  <2>3. Names("AppInfo") = {AppInfo_UnmarshalVT[n][2] : n \in D} \cup {"unknown"}
    BY <2>1, <2>2
  <2> QED BY <2>3, InfoCases
<1>6. Names("NatsMessage") = {"subject", "reply_to", "payload", "unknown"}
  <2>1. Names("NatsMessage") = {NatsMessage_UnmarshalVT[n][2] : n \in 1..3} \cup {"unknown"}
    BY NatsCases DEF Names, Cases
  <2>2. 1..3 = {1, 2, 3}
    OBVIOUS
  <2> QED BY <2>1, <2>2, NatsCases
<1>7. Names("ZmtpMessage") = {"match_pattern", "payload", "unknown"}
  <2>1. Names("ZmtpMessage") = {ZmtpMessage_UnmarshalVT[n][2] : n \in 1..2} \cup {"unknown"}
    BY ZmtpCases DEF Names, Cases
  <2>2. 1..2 = {1, 2}
    OBVIOUS
  <2> QED BY <2>1, <2>2, ZmtpCases
<1> QED BY <1>1, <1>2, <1>3, <1>4, <1>5, <1>6, <1>7

\* A copy of one's own bytes is the same.
LEMMA CopiesSame ==
  ASSUME NEW m, TextGood(Byte, m), NEW shared, NEW own, own \subseteq {"payload", "unknown"},
         DOMAIN m \subseteq shared \cup own
  PROVE  Copies(m, shared, own) = m
<1>1. Present(m, shared \cup own) = DOMAIN m
  BY DEF Present
<1>2. ASSUME NEW f \in DOMAIN m PROVE (IF f \in own THEN Bytes(m[f]) ELSE m[f]) = m[f]
  <2>1. CASE f \in own
    <3>1. Other(f)
      BY <2>1, TheOthers
    <3>2. Bytes(m[f]) = m[f]
      BY <3>1, BytesStay DEF TextGood
    <3> QED BY <3>2
  <2> QED BY <2>1
<1>3. Copies(m, shared, own) = [f \in DOMAIN m |-> IF f \in own THEN Bytes(m[f]) ELSE m[f]]
  BY <1>1 DEF Copies
<1>4. [f \in DOMAIN m |-> IF f \in own THEN Bytes(m[f]) ELSE m[f]] = [f \in DOMAIN m |-> m[f]]
  BY <1>2
<1> QED BY <1>3, <1>4, Zenon DEF TextGood, IsAFunction

\* The clone of a nested message that holds its own bytes is that message.
LEMMA FlatCloneSame ==
  ASSUME NEW type \in Types, type # "AppInfo", NEW m, GoodFlat(Byte, type, m)
  PROVE  CloneVT(type, m) = m
<1>1. TextGood(Byte, m) /\ DOMAIN m \subseteq Names(type)
  BY DEF GoodFlat, Fits, Names
<1>2. CASE type = "AppRequest"
  BY <1>1, <1>2, NamesOfTypes, CopiesSame DEF CloneVT, AppRequest_CloneVT
<1>3. CASE type = "AppResponse"
  BY <1>1, <1>3, NamesOfTypes, CopiesSame DEF CloneVT, AppResponse_CloneVT
<1>4. CASE type = "AppTrace"
  BY <1>1, <1>4, NamesOfTypes, CopiesSame DEF CloneVT, AppTrace_CloneVT
<1>5. CASE type = "KeyVal"
  BY <1>1, <1>5, NamesOfTypes, CopiesSame DEF CloneVT, KeyVal_CloneVT
<1>7. CASE type = "NatsMessage"
  BY <1>1, <1>7, NamesOfTypes, CopiesSame DEF CloneVT, NatsMessage_CloneVT
<1>8. CASE type = "ZmtpMessage"
  BY <1>1, <1>8, NamesOfTypes, CopiesSame DEF CloneVT, ZmtpMessage_CloneVT
<1> QED BY <1>2, <1>3, <1>4, <1>5, <1>7, <1>8 DEF Types

\* The same of each that a message may hold.
LEMMA InnerClones ==
  ASSUME NEW f \in Nested, NEW m, GoodFlat(Byte, TypeOf[f], m)
  PROVE  /\ f = "req" => AppRequest_CloneVT(m) = m
         /\ f = "resp" => AppResponse_CloneVT(m) = m
         /\ f = "trace" => AppTrace_CloneVT(m) = m
         /\ f = "attributes" => KeyVal_CloneVT(m) = m
<1>1. CloneVT(TypeOf[f], m) = m
  BY InnerTypes, FlatCloneSame
<1>2. /\ f = "req" => TypeOf[f] = "AppRequest"
      /\ f = "resp" => TypeOf[f] = "AppResponse"
      /\ f = "trace" => TypeOf[f] = "AppTrace"
      /\ f = "attributes" => TypeOf[f] = "KeyVal"
  BY DEF TypeOf
<1> QED BY <1>1, <1>2 DEF CloneVT

\* The same of an AppInfo.
LEMMA InfoCloneSame ==
  ASSUME NEW m, Good(Byte, "AppInfo", m)
  PROVE  AppInfo_CloneVT(m) = m
<1> DEFINE N == {"req_len", "resp_len", "request_id", "protocol_str", "is_end", "is_async",
                 "is_reversed", "biz_type", "biz_code", "biz_scenario", "biz_response_code"}
           flat == Copies(m, N, {"unknown"})
           as == [k \in DOMAIN m.attributes |-> KeyVal_CloneVT(m.attributes[k])]
           c == AppInfo_CloneVT(m)
<1>1. /\ TextGood(Byte, m) /\ "unknown" \in DOMAIN m /\ "attributes" \in DOMAIN m
      /\ IsSequence(m.attributes)
      /\ \A k \in DOMAIN m.attributes : GoodFlat(Byte, "KeyVal", m.attributes[k])
      /\ \A f \in Inner \cap DOMAIN m : GoodFlat(Byte, TypeOf[f], m[f])
      /\ DOMAIN m \subseteq Names("AppInfo")
  BY AlwaysUnknown, AlwaysAttributes, InnerTypes DEF Good, GoodFlat, Fits, Names
<1>2. c = [f \in DOMAIN flat \cup Present(m, Nested) |->
             CASE f = "req" -> AppRequest_CloneVT(m.req)
               [] f = "resp" -> AppResponse_CloneVT(m.resp)
               [] f = "trace" -> AppTrace_CloneVT(m.trace)
               [] f = "attributes" -> as
               [] OTHER -> flat[f]]
  BY DEF AppInfo_CloneVT
<1>3. as = m.attributes
  <2> DEFINE s == m.attributes
  <2>1. IsSequence(s) /\ \A k \in DOMAIN s : GoodFlat(Byte, TypeOf["attributes"], s[k])
    BY <1>1, InnerTypes
  <2>2. as = [k \in DOMAIN s |-> KeyVal_CloneVT(s[k])]
    OBVIOUS
  <2> HIDE DEF as, s
  <2>3. \A k \in DOMAIN s : KeyVal_CloneVT(s[k]) = s[k]
    BY <2>1, InnerClones, InnerTypes
  <2>4. [k \in DOMAIN s |-> KeyVal_CloneVT(s[k])] = [k \in DOMAIN s |-> s[k]]
    BY <2>3
  <2>5. s = [k \in DOMAIN s |-> s[k]]
    BY <2>1 DEF IsSequence
  <2> QED BY <2>2, <2>4, <2>5, Zenon DEF s
<1>4. /\ DOMAIN flat = DOMAIN m \cap (N \cup {"unknown"})
      /\ \A f \in DOMAIN flat : flat[f] = m[f]
  <2>1. flat = [f \in DOMAIN m \cap (N \cup {"unknown"}) |->
                  IF f \in {"unknown"} THEN Bytes(m[f]) ELSE m[f]]
    BY DEF Copies, Present
  <2>2. Bytes(m.unknown) = m.unknown
    BY <1>1, BytesStay DEF TextGood
  <2> HIDE DEF N, flat
  <2> QED BY <2>1, <2>2
<1>5. DOMAIN flat \cup Present(m, Nested) = DOMAIN m
  <2>1. DOMAIN m \subseteq N \cup {"unknown"} \cup Nested
    BY <1>1, NamesOfTypes DEF Nested
  <2> HIDE DEF N, flat
  <2> QED BY <1>4, <2>1 DEF Present
<1>6. \A f \in Nested : f \notin N \cup {"unknown"}
  BY DEF Nested
<1> HIDE DEF N, flat, as, c
<1>7. ASSUME NEW f \in DOMAIN m
      PROVE  (CASE f = "req" -> AppRequest_CloneVT(m.req)
               [] f = "resp" -> AppResponse_CloneVT(m.resp)
               [] f = "trace" -> AppTrace_CloneVT(m.trace)
               [] f = "attributes" -> as
               [] OTHER -> flat[f]) = m[f]
  <2>1. CASE f = "req"
    <3>1. AppRequest_CloneVT(m.req) = m.req
      BY <1>1, <2>1, InnerClones DEF Inner, Nested
    <3> QED BY <2>1, <3>1
  <2>2. CASE f = "resp"
    <3>1. AppResponse_CloneVT(m.resp) = m.resp
      BY <1>1, <2>2, InnerClones DEF Inner, Nested
    <3> QED BY <2>2, <3>1
  <2>3. CASE f = "trace"
    <3>1. AppTrace_CloneVT(m.trace) = m.trace
      BY <1>1, <2>3, InnerClones DEF Inner, Nested
    <3> QED BY <2>3, <3>1
  <2>4. CASE f = "attributes"
    BY <1>3, <2>4
  <2>5. CASE f \notin Nested
    <3>1. f # "req" /\ f # "resp" /\ f # "trace" /\ f # "attributes"
      BY <2>5 DEF Nested
    <3>2. f \in DOMAIN flat
      BY <1>5, <2>5 DEF Present
    <3> QED BY <1>4, <3>1, <3>2
  <2> QED BY <2>1, <2>2, <2>3, <2>4, <2>5 DEF Nested
<1>8. c = [f \in DOMAIN m |-> m[f]]
  BY <1>2, <1>5, <1>7
<1> QED BY <1>1, <1>8, Zenon DEF TextGood, IsAFunction, c

\* The same of every message.
LEMMA CloneSame ==
  ASSUME NEW type \in Types, NEW m, Good(Byte, type, m)
  PROVE  CloneVT(type, m) = m
<1>1. CASE type = "AppInfo"
  BY <1>1, InfoCloneSame DEF CloneVT
<1>2. CASE type # "AppInfo"
  BY <1>2, FlatCloneSame DEF Good
<1> QED BY <1>1, <1>2

\* The bytes a clone owns are those of the message.
LEMMA CopiesOwn ==
  ASSUME NEW m, NEW shared, NEW own, "unknown" \in own, "unknown" \in DOMAIN m,
         "payload" \in shared => "payload" \in own
  PROVE  /\ Copies(m, shared, own).unknown = Bytes(m.unknown)
         /\ "payload" \in DOMAIN Copies(m, shared, own) =>
              /\ "payload" \in DOMAIN m
              /\ Copies(m, shared, own).payload = Bytes(m.payload)
<1> DEFINE c == Copies(m, shared, own)
<1>1. /\ DOMAIN c = Present(m, shared \cup own)
      /\ \A f \in DOMAIN c : c[f] = IF f \in own THEN Bytes(m[f]) ELSE m[f]
  BY DEF Copies
<1> HIDE DEF c
<1>2. c.unknown = Bytes(m.unknown)
  BY <1>1 DEF Present
<1>3. ASSUME "payload" \in DOMAIN c PROVE "payload" \in DOMAIN m /\ c.payload = Bytes(m.payload)
  BY <1>1, <1>3 DEF Present
<1> QED BY <1>2, <1>3 DEF c

\* A text, its bytes looked up in B.
OwnIn(c, m) ==
  /\ c.unknown = Bytes(m.unknown)
  /\ "payload" \in DOMAIN c => "payload" \in DOMAIN m /\ c.payload = Bytes(m.payload)

\* A clone reads as what was cloned.
LEMMA CloneOwns ==
  ASSUME NEW type \in Types, NEW m, "unknown" \in DOMAIN m
  PROVE  OwnIn(CloneVT(type, m), m)
<1>1. ASSUME NEW shared, NEW own, "unknown" \in own, "payload" \in shared => "payload" \in own
      PROVE  OwnIn(Copies(m, shared, own), m)
  BY <1>1, CopiesOwn DEF OwnIn
<1>2. CASE type = "AppRequest"
  BY <1>1, <1>2 DEF CloneVT, AppRequest_CloneVT
<1>3. CASE type = "AppResponse"
  BY <1>1, <1>3 DEF CloneVT, AppResponse_CloneVT
<1>4. CASE type = "AppTrace"
  BY <1>1, <1>4 DEF CloneVT, AppTrace_CloneVT
<1>5. CASE type = "KeyVal"
  BY <1>1, <1>5 DEF CloneVT, KeyVal_CloneVT
<1>6. CASE type = "AppInfo"
  <2> DEFINE N == {"req_len", "resp_len", "request_id", "protocol_str", "is_end", "is_async",
                 "is_reversed", "biz_type", "biz_code", "biz_scenario", "biz_response_code"}
             flat == Copies(m, N, {"unknown"})
             as == [k \in DOMAIN m.attributes |-> KeyVal_CloneVT(m.attributes[k])]
             c == AppInfo_CloneVT(m)
  <2>1. c = [f \in DOMAIN flat \cup Present(m, Nested) |->
               CASE f = "req" -> AppRequest_CloneVT(m.req)
                 [] f = "resp" -> AppResponse_CloneVT(m.resp)
                 [] f = "trace" -> AppTrace_CloneVT(m.trace)
                 [] f = "attributes" -> as
                 [] OTHER -> flat[f]]
    BY DEF AppInfo_CloneVT
  <2>2. "unknown" \in DOMAIN flat
    BY DEF Copies, Present
  <2>3. "payload" \notin DOMAIN flat
    BY DEF Copies, Present
  <2>4. OwnIn(flat, m)
    BY <1>1
  <2> HIDE DEF flat, as, c
  <2>5. c.unknown = flat.unknown
    BY <2>1, <2>2
  <2>6. "payload" \notin DOMAIN c
    BY <2>1, <2>3 DEF Present, Nested
  <2>7. OwnIn(c, m)
    BY <2>4, <2>5, <2>6 DEF OwnIn
  <2>8. CloneVT(type, m) = c
    BY <1>6 DEF CloneVT, c
  <2> QED BY <2>7, <2>8
<1>7. CASE type = "NatsMessage"
  BY <1>1, <1>7 DEF CloneVT, NatsMessage_CloneVT
<1>8. CASE type = "ZmtpMessage"
  BY <1>1, <1>8 DEF CloneVT, ZmtpMessage_CloneVT
<1> QED BY <1>2, <1>3, <1>4, <1>5, <1>6, <1>7, <1>8 DEF Types

------------------------------------------------------------------------------
(* What the decoder of b, of which the first bytes are in the buffer, is   *)
(* at: M[p] is what it should hold at the place p between two fields.      *)

\* The outermost call decodes what was sent.
Outermost == ends[1] = Len(buf) /\ stack[1].type = sent.type

\* What the decoders of the bytes b hold, by how far they are.
Arrived(b) ==
  /\ b \in Seq(Byte) /\ Len(buf) <= Len(b)
  /\ cut = (Len(buf) < Len(b))
  /\ pc # "reused" => StandsAt(buf, 0, b)

\* The innermost call is at a mark of its message.
Reading(b, M) == pc \in {"tag", "field"} /\ Len(stack) = 1 /\ At(0, b, M)

\* In the message t, which ends at y: its field f makes n of m.
Inside(f, t, C, m, n, y) ==
  LET g == NameOf("AppInfo", f)
  IN  /\ KindOf("AppInfo", f) \in {"message", "messages", "oneof"}
      /\ FlatMarks(TypeOf[g], t, C)
      /\ n = Attach(Opened("AppInfo", f, m), g, C[Len(t)])
      /\ ReadIn(buf, stack[1].msg) = Opened("AppInfo", f, m)
      /\ stack[2].into = g
      /\ g = "attributes" => stack[1].msg.attributes # <<>>
      /\ ends[2] = y /\ y - Len(t) \in Nat /\ StandsAt(buf, y - Len(t), t)
      /\ At(y - Len(t), t, C)

\* The calls below it wait at theirs.
Within(M) ==
  /\ pc \in {"tag", "field"} /\ Len(stack) = 2
  /\ \E p \in DOMAIN M, q \in DOMAIN M, f \in DOMAIN Cases("AppInfo"), t \in Seq(Byte) :
       \E C : Inside(f, t, C, M[p], M[q], q)

\* An error, in the field that is cut.
StoppedAt(M) ==
  /\ pc = "error"
  /\ \E p \in DOMAIN M : /\ p < Len(buf) /\ ReadIn(buf, top.msg) = M[p]
                         /\ \A r \in DOMAIN M : r <= p \/ r > Len(buf)

\* The message and its clone, whoever has the buffer now.
ReadThrough(M) ==
  /\ pc \in {"done", "reused"} /\ Len(buf) \in DOMAIN M
  /\ pc = "done" => ReadIn(buf, top.msg) = M[Len(buf)]
  /\ ~unsafe => top.msg = M[Len(buf)] /\ clone = M[Len(buf)]
  /\ clone.unknown = M[Len(buf)].unknown
  /\ "payload" \in DOMAIN clone =>
       "payload" \in DOMAIN M[Len(buf)] /\ clone.payload = M[Len(buf)].payload

\* The decoders are on the way the marks describe.
Tracks(b, M) == Reading(b, M) \/ Within(M) \/ StoppedAt(M) \/ ReadThrough(M)

\* What was sent does not change while it is decoded.
LEMMA OutermostNext ==
  ASSUME BoundsInv, StackInv, Outermost, [Next]_vars
  PROVE  Outermost'
<1>1. /\ ends \in Seq(Nat) /\ Len(ends) >= 1 /\ Len(stack) \in {1, 2} /\ IsSequence(stack)
      /\ ends[1] = Len(buf) /\ stack[1].type = sent.type /\ buf \in Seq(Byte)
  BY DEF BoundsInv, StackInv, Outermost
<1>2. sent' = sent
  BY InputsStay DEF inputVars
<1>3. CASE Fail
  <2>1. ends' = <<ends[1]>> /\ buf' = buf
    BY <1>3 DEF Fail
  <2>2. stack'[1].type = stack[1].type
    <3> DEFINE d == [stack[1] EXCEPT !.msg = Attach(@, top.into, top.msg)]
    <3>1. stack' = stack \/ stack' = <<d>> \/ stack' = <<stack[1]>>
      BY <1>3 DEF Fail
    <3>2. d.type = stack[1].type
      <4>1. IsCall(stack[1])
        BY <1>1 DEF StackInv
      <4> QED BY <4>1 DEF IsCall
    <3> HIDE DEF d
    <3> QED BY <3>1, <3>2
  <2> QED BY <1>1, <1>2, <2>1, <2>2 DEF Outermost
<1>4. CASE LeaveMessage
  <2>1. ends' = <<ends[1]>> /\ buf' = buf
    BY <1>4 DEF LeaveMessage, NextField
  <2>2. stack'[1].type = stack[1].type
    <3>1. IsCall(stack[1])
      BY <1>1 DEF StackInv
    <3> QED BY <1>4, <3>1 DEF IsCall, LeaveMessage
  <2> QED BY <1>1, <1>2, <2>1, <2>2 DEF Outermost
<1>5. CASE \E m : SetTop(m) /\ UNCHANGED <<ends, buf>>
  <2>1. PICK m : SetTop(m) /\ UNCHANGED <<ends, buf>>
    BY <1>5
  <2>2. 1 \in 1..Len(stack)
    BY <1>1
  <2>3. stack'[1].type = stack[1].type
    BY <2>1, <2>2, TopMoves
  <2> QED BY <1>1, <1>2, <2>1, <2>3 DEF Outermost
<1>6. CASE EnterMessage
  <2>1. PICK d, c, e : /\ stack' = Append([stack EXCEPT ![Len(stack)].msg = d], c)
                       /\ ends' = Append(ends, e)
    BY <1>6 DEF EnterMessage
  <2>2. buf' = buf
    BY <1>6 DEF EnterMessage, NextField
  <2>3. kind \in {"message", "messages", "oneof"} /\ Known
    BY <1>6 DEF EnterMessage, Counted, Expected
  <2>4. top.type = "AppInfo"
    BY <2>3, KnownCase
  <2>5. Len(stack) = 1
    BY <2>4, TopIsACall
  <2>6. stack'[1] = [stack[1] EXCEPT !.msg = d]
    BY <1>1, <2>1, <2>5, EnterShape
  <2>7. stack'[1].type = stack[1].type
    <3>1. IsCall(stack[1])
      BY <1>1 DEF StackInv
    <3> QED BY <2>6, <3>1 DEF IsCall
  <2>9. ends'[1] = ends[1]
    <3>1. ends \in Seq(Nat \cup {e}) /\ e \in Nat \cup {e} /\ 1 \in 1..Len(ends)
      BY <1>1
    <3> QED BY <2>1, <3>1
  <2> QED BY <1>1, <1>2, <2>2, <2>7, <2>9 DEF Outermost
<1>7. CASE UNCHANGED <<ends, stack, buf>>
  BY <1>1, <1>2, <1>7 DEF Outermost
<1>8. CASE Reuse
  <2>1. ends' = ends /\ stack' = stack /\ buf' = [k \in DOMAIN buf |-> 255 - buf[k]]
    BY <1>8 DEF Reuse
  <2>2. Len(buf') = Len(buf)
    <3>1. Len(buf) \in Nat /\ DOMAIN buf = 1..Len(buf)
      BY <1>1
    <3>2. buf' = [k \in 1..Len(buf) |-> 255 - buf[k]]
      BY <2>1, <3>1
    <3> QED BY <3>1, <3>2
  <2> QED BY <1>1, <1>2, <2>1, <2>2 DEF Outermost
<1>9. \/ Fail \/ LeaveMessage \/ (\E m : SetTop(m) /\ UNCHANGED <<ends, buf>>) \/ EnterMessage
      \/ UNCHANGED <<ends, stack, buf>> \/ Reuse
  <2>1. ReadNumber \/ ReadText \/ SkipUnknown => \E m : SetTop(m) /\ UNCHANGED <<ends, buf>>
    BY DEF ReadNumber, ReadText, SkipUnknown, NextField
  <2>2. BadTag \/ WrongWireType \/ BadVarint \/ BadLength \/ BadUnknown => Fail
    BY DEF BadTag, WrongWireType, BadVarint, BadLength, BadUnknown
  <2>3. ReadTag \/ Return \/ UNCHANGED vars => UNCHANGED <<ends, stack, buf>>
    BY DEF ReadTag, Return, vars
  <2> QED BY <2>1, <2>2, <2>3 DEF Next, Decode
<1> QED BY <1>3, <1>4, <1>5, <1>6, <1>7, <1>8, <1>9

\* What has arrived stays so, whoever reuses the buffer.
LEMMA ArrivedNext ==
  ASSUME BoundsInv, NEW b, Arrived(b), [Next]_vars
  PROVE  Arrived(b)'
<1>1. cut' = cut
  BY InputsStay DEF inputVars
<1>2. CASE Reuse
  <2>1. pc' = "reused" /\ buf' = [k \in DOMAIN buf |-> 255 - buf[k]] /\ buf \in Seq(Byte)
    BY <1>2 DEF Reuse, BoundsInv
  <2>2. Len(buf') = Len(buf)
    <3>1. Len(buf) \in Nat /\ DOMAIN buf = 1..Len(buf)
      BY <2>1
    <3>2. buf' = [k \in 1..Len(buf) |-> 255 - buf[k]]
      BY <2>1, <3>1
    <3> QED BY <3>1, <3>2
  <2> QED BY <1>1, <2>1, <2>2 DEF Arrived
<1>3. CASE ~Reuse
  <2>1. buf' = buf /\ (pc = "reused" => pc' = "reused")
    BY <1>3 DEF Next, Decode, Fail, NextField, BadTag, ReadTag, WrongWireType,
                BadVarint, ReadNumber, BadLength, ReadText, EnterMessage,
                LeaveMessage, SkipUnknown, BadUnknown, Return, vars,
                Known, Expected, Counted, Unknown
  <2> QED BY <1>1, <2>1 DEF Arrived
<1> QED BY <1>2, <1>3

\* A message with a nested one begun.
LEMMA AppendedLast ==
  ASSUME NEW S, NEW s \in Seq(S), NEW x \in S
  PROVE  Append(s, x)[Len(s) + 1] = x
OBVIOUS

\* A call of a nested decoder keeps on the way.
LEMMA GoesDown ==
  ASSUME TypeInv, TypeInv', NEW M, DOMAIN M \subseteq Nat,
         NEW p \in DOMAIN M, NEW q \in DOMAIN M,
         ReadIn(buf, top.msg) = M[p], Nesting(q, M[p], M[q])
  PROVE  Within(M)'
<1>1. PICK f \in DOMAIN Cases("AppInfo"), t \in Seq(Byte) : \E C :
        /\ KindOf("AppInfo", f) \in {"message", "messages", "oneof"}
        /\ Opens(f, t, q)
        /\ FlatMarks(TypeOf[NameOf("AppInfo", f)], t, C) /\ C[0] = Begun("AppInfo", f, M[p])
        /\ M[q] = Attach(Opened("AppInfo", f, M[p]), NameOf("AppInfo", f), C[Len(t)])
  BY DEF Nesting
<1>2. PICK C :
        /\ KindOf("AppInfo", f) \in {"message", "messages", "oneof"}
        /\ Opens(f, t, q)
        /\ FlatMarks(TypeOf[NameOf("AppInfo", f)], t, C) /\ C[0] = Begun("AppInfo", f, M[p])
        /\ M[q] = Attach(Opened("AppInfo", f, M[p]), NameOf("AppInfo", f), C[Len(t)])
  BY <1>1
<1> DEFINE g == NameOf("AppInfo", f)
           m == top.msg
           y == q - Len(t)
<1>3. /\ top.type = "AppInfo" /\ Len(stack) = 1
      /\ StandsAt(buf, y, t) /\ y \in Nat
      /\ Len(stack') = 2
      /\ stack'[1] = [stack[1] EXCEPT !.msg = Opened("AppInfo", f, m)]
      /\ stack'[2].type = TypeOf[g] /\ stack'[2].into = g
      /\ stack'[2].msg = Begun("AppInfo", f, m)
      /\ ends' = Append(ends, q) /\ NextField(y)
  BY <1>2 DEF Opens
<1>4. /\ iNdEx' = y /\ pc' = "tag" /\ buf' = buf
  BY <1>3 DEF NextField
<1>5. /\ IsCall(top) /\ top = stack[1] /\ Good(Chars, "AppInfo", m)
      /\ "attributes" \in DOMAIN m /\ IsSequence(m.attributes)
  BY <1>3, TopIsACall, AlwaysAttributes DEF TypeInv, IsCall, Good, GoodFlat
<1>6. stack'[1].msg = Opened("AppInfo", f, m)
  BY <1>3, <1>5 DEF IsCall
<1>7. /\ FlatIn(buf, Begun("AppInfo", f, m)) = Begun("AppInfo", f, M[p])
      /\ ReadIn(buf, Opened("AppInfo", f, m)) = Opened("AppInfo", f, M[p])
  BY <1>2, <1>5, InnerTypes, ReadBegun
<1>8. g \in Nested /\ (g = "attributes" => KindOf("AppInfo", f) = "messages")
  <2>1. CaseFits("AppInfo", Cases("AppInfo")[f])
    BY InnerTypes, CasesFit
  <2> QED BY <1>2, <2>1 DEF CaseFits, KindOf, NameOf, Nested
<1>9. TypeOf[g] \in Types /\ TypeOf[g] # "AppInfo"
  BY <1>8, InnerTypes
<1>10. top' = stack'[2]
  BY <1>3 DEF top
<1>11. ReadIn(buf', top'.msg) = C[0]
  <2>1. IsCall(top)'
    BY TopIsACall, PTL DEF TypeInv
  <2>2. Good(Chars', TypeOf[g], top'.msg)
    BY <1>3, <1>10, <2>1 DEF IsCall
  <2>3. DOMAIN top'.msg \cap Nested = {}
    BY <1>9, <2>2, NothingNested DEF Good, GoodFlat
  <2>4. ReadIn(buf, top'.msg) = FlatIn(buf, top'.msg)
    BY <2>3, ReadFlatMessage
  <2> QED BY <1>2, <1>3, <1>4, <1>7, <1>10, <2>4
<1>12. 0 \in DOMAIN C
  BY <1>2 DEF FlatMarks, Spans
<1> HIDE DEF y
<1>13. At(y, t, C)'
  <2>1. iNdEx' = y + 0
    <3>1. y + 0 = y
      BY <1>3
    <3> QED BY <1>4, <3>1
  <2> QED BY <1>4, <1>11, <1>12, <2>1 DEF At
<1>14. ends'[2] = q
  <2>1. ends \in Seq(Nat) /\ Len(ends) = 1
    BY <1>3 DEF TypeInv, BoundsInv, StackInv
  <2>2. q \in Nat
    OBVIOUS
  <2>3. Append(ends, q)[Len(ends) + 1] = q
    BY <2>1, <2>2, AppendedLast
  <2>4. Append(ends, q)[2] = q
    <3>1. Len(ends) + 1 = 2
      BY <2>1
    <3> QED BY <2>3, <3>1, Zenon
  <2> QED BY <1>3, <2>4
<1>15. ASSUME g = "attributes" PROVE stack'[1].msg.attributes # <<>>
  <2>1. KindOf("AppInfo", f) = "messages"
    BY <1>8, <1>15
  <2>2. Opened("AppInfo", f, m) = Put(m, "attributes", Append(m.attributes, Empty("KeyVal")))
    BY <1>15, <2>1 DEF Opened
  <2>3. stack'[1].msg.attributes = Append(m.attributes, Empty("KeyVal"))
    BY <1>6, <2>2 DEF Put
  <2>4. Len(Append(m.attributes, Empty("KeyVal"))) = Len(m.attributes) + 1 /\ Len(m.attributes) \in Nat
    BY <1>5 DEF IsSequence
  <2>5. Len(<<>>) = 0
    OBVIOUS
  <2>6. Append(m.attributes, Empty("KeyVal")) # <<>>
    <3> DEFINE a == Append(m.attributes, Empty("KeyVal"))
    <3>1. Len(a) # 0
      BY <2>4
    <3> HIDE DEF a
    <3>2. a # <<>>
      BY <2>5, <3>1
    <3> QED BY <3>2 DEF a
  <2> HIDE DEF m
  <2> QED BY <2>3, <2>6
<1>16. Inside(f, t, C, M[p], M[q], q)'
  <2>1. ReadIn(buf', stack'[1].msg) = Opened("AppInfo", f, M[p])
    BY <1>4, <1>6, <1>7
  <2>2. ends'[2] = q /\ y \in Nat /\ StandsAt(buf', y, t)
    BY <1>3, <1>4, <1>14
  <2>3. g = "attributes" => stack'[1].msg.attributes # <<>>
    BY <1>15
  <2> QED BY <1>2, <1>3, <1>13, <2>1, <2>2, <2>3 DEF Inside, y
<1> QED BY <1>3, <1>4, <1>16 DEF Within

\* A step of the outermost call keeps on the way.
LEMMA ReadingStep ==
  ASSUME TypeInv, TypeInv', Outermost, NEW b, Arrived(b), NEW M, Marks(sent.type, b, M),
         Reading(b, M), Decode
  PROVE  Tracks(b, M)'
<1>1. /\ Len(stack) = 1 /\ pc \in {"tag", "field"} /\ At(0, b, M) /\ b \in Seq(Byte)
      /\ StandsAt(buf, 0, b) /\ Len(buf) <= Len(b)
  BY DEF Reading, Arrived
<1>2. /\ top = stack[1] /\ top.type = sent.type /\ l = Len(buf) /\ Len(ends) = 1
      /\ Len(buf) \in Nat /\ top.type \in Types /\ Good(Chars, top.type, top.msg)
  BY <1>1, TopIsACall, BufferEnds DEF Outermost, top, l, TypeInv, StackInv, IsCall
<1>3. Marks(top.type, b, M) /\ l <= 0 + Len(b)
  BY <1>1, <1>2
<1>4. DOMAIN M \subseteq Nat /\ \A p \in DOMAIN M : 0 + p = p
  BY DEF Marks, Spans
<1>5. Stuck(0, M) \/ Moves(0, b, M) \/ Ending(0, M) \/ Descending(0, M)
  <2>1. CASE pc = "tag"
    BY <1>1, <1>3, <2>1, TagStep
  <2>2. CASE pc = "field"
    BY <1>1, <1>3, <2>2, ValueStep
  <2> QED BY <1>1, <2>1, <2>2
<1>6. CASE Stuck(0, M)
  <2>1. PICK p \in DOMAIN M : /\ ReadIn(buf, top.msg) = M[p] /\ 0 + p < l
                              /\ \A r \in DOMAIN M : r <= p \/ 0 + r > l
    BY <1>6 DEF Stuck
  <2>2. pc' = "error" /\ stack' = stack /\ buf' = buf
    BY <1>1, <1>6 DEF Stuck, Fail
  <2>3. top' = top
    BY <2>2 DEF top
  <2>4. p < Len(buf) /\ \A r \in DOMAIN M : r <= p \/ r > Len(buf)
    BY <1>2, <1>4, <2>1
  <2>5. StoppedAt(M)'
    BY <2>1, <2>2, <2>3, <2>4 DEF StoppedAt
  <2> QED BY <2>5 DEF Tracks
<1>7. CASE Moves(0, b, M)
  BY <1>1, <1>7 DEF Moves, Reading, Tracks
<1>8. CASE Descending(0, M)
  <2>1. PICK p \in DOMAIN M, q \in DOMAIN M :
          ReadIn(buf, top.msg) = M[p] /\ Nesting(0 + q, M[p], M[q])
    BY <1>8 DEF Descending
  <2>2. Nesting(q, M[p], M[q])
    BY <1>4, <2>1
  <2> QED BY <1>4, <2>1, <2>2, GoesDown DEF Tracks
<1>9. CASE Ending(0, M)
  <2>1. PICK p \in DOMAIN M : ReadIn(buf, top.msg) = M[p] /\ iNdEx = 0 + p /\ iNdEx = l
    BY <1>9 DEF Ending
  <2>2. Return
    BY <1>2, <1>9 DEF Ending, LeaveMessage
  <2>3. /\ pc' = "done" /\ clone' = CloneVT(top.type, top.msg)
        /\ UNCHANGED <<inputVars, buf, iNdEx, field, ends, stack>>
    BY <2>2 DEF Return
  <2>4. top' = top /\ p = Len(buf) /\ buf' = buf /\ unsafe' = unsafe
    BY <1>2, <1>4, <2>1, <2>3 DEF top, inputVars
  <2>5. Len(buf) \in DOMAIN M /\ M[Len(buf)] = ReadIn(buf, top.msg)
    BY <2>1, <2>4
  <2>6. "unknown" \in DOMAIN top.msg /\ top.msg.unknown \in Seq(Byte)
    BY <1>2, AlwaysUnknown DEF Good, GoodFlat, TextGood
  <2>7. OwnIn(clone', top.msg)
    BY <1>2, <2>3, <2>6, CloneOwns
  <2>8. ASSUME ~unsafe PROVE top.msg = M[Len(buf)] /\ clone' = M[Len(buf)]
    <3>1. Good(Byte, top.type, top.msg)
      BY <1>2, <2>8 DEF Chars
    <3>2. Read(top.msg) = top.msg
      BY <2>8, TypeInvGivesOwnText DEF OwnText
    <3>3. clone' = top.msg
      BY <1>2, <2>3, <3>1, CloneSame
    <3> QED BY <2>5, <3>2, <3>3, ReadIs
  <2>9. \A s : Bytes(s) = BytesIn(buf, s)
    BY DEF Bytes, BytesIn, ByteAt, ByteIn
  <2> DEFINE n == M[Len(buf)]
  <2>10. \A f \in {"unknown", "payload"} :
          f \in DOMAIN top.msg => f \in DOMAIN n /\ n[f] = BytesIn(buf, top.msg[f])
    <3>1. \A v : \A f \in {"unknown", "payload"} : ReadField(buf, f, v) = BytesIn(buf, v)
      BY TheOthers, InnerTypes, NamesAreKinds DEF ReadField, FlatField, Other
    <3> QED BY <2>5, <3>1, ReadHas
  <2>11. clone'.unknown = n.unknown
    BY <2>6, <2>7, <2>9, <2>10 DEF OwnIn
  <2>12. "payload" \in DOMAIN clone' => "payload" \in DOMAIN n /\ clone'.payload = n.payload
    BY <2>7, <2>9, <2>10 DEF OwnIn
  <2>13. ReadThrough(M)'
    BY <2>3, <2>4, <2>5, <2>8, <2>11, <2>12 DEF ReadThrough
  <2> QED BY <2>13 DEF Tracks
<1> QED BY <1>5, <1>6, <1>7, <1>8, <1>9

\* A step of a nested call does.
LEMMA WithinStep ==
  ASSUME TypeInv, NEW b, NEW M, Marks(sent.type, b, M), Within(M), Decode
  PROVE  Tracks(b, M)'
<1>1. PICK p \in DOMAIN M, q \in DOMAIN M, f \in DOMAIN Cases("AppInfo"), t \in Seq(Byte) :
        \E C : Inside(f, t, C, M[p], M[q], q)
  BY DEF Within
<1>2. PICK C : Inside(f, t, C, M[p], M[q], q)
  BY <1>1
<1> DEFINE g == NameOf("AppInfo", f)
           o == q - Len(t)
<1>3. /\ KindOf("AppInfo", f) \in {"message", "messages", "oneof"}
      /\ FlatMarks(TypeOf[g], t, C)
      /\ M[q] = Attach(Opened("AppInfo", f, M[p]), g, C[Len(t)])
      /\ ReadIn(buf, stack[1].msg) = Opened("AppInfo", f, M[p])
      /\ stack[2].into = g
      /\ g = "attributes" => stack[1].msg.attributes # <<>>
      /\ ends[2] = q /\ o \in Nat /\ StandsAt(buf, o, t)
      /\ At(o, t, C)
  BY <1>2 DEF Inside
<1>4. /\ Len(stack) = 2 /\ pc \in {"tag", "field"} /\ Len(ends) = 2
      /\ top = stack[2] /\ l = q /\ top.type = TypeOf[g] /\ g \in Nested
      /\ IsCall(stack[1]) /\ stack[1].type = "AppInfo"
      /\ IsCall(stack[2])
  BY <1>3 DEF Within, TypeInv, StackInv, top, l
<1>5. TypeOf[g] \in Types /\ TypeOf[g] # "AppInfo"
  BY <1>4, InnerTypes
<1>6. Marks(top.type, t, C)
  BY <1>3, <1>4, FlatAreMarks
<1>7. q \in Nat /\ Len(t) \in Nat /\ o + Len(t) = q /\ DOMAIN M \subseteq Nat
  <2>1. DOMAIN M \subseteq Nat
    BY DEF Marks, Spans
  <2> QED BY <2>1
<1>8. Len(t) \in DOMAIN C /\ DOMAIN C \subseteq 0..Len(t)
  BY <1>3 DEF FlatMarks, Spans
<1> HIDE DEF o, g
<1>9. l <= o + Len(t)
  BY <1>4, <1>7
<1>10. Stuck(o, C) \/ Moves(o, t, C) \/ Ending(o, C) \/ Descending(o, C)
  <2>1. CASE pc = "tag"
    BY <1>3, <1>6, <1>9, <2>1, TagStep
  <2>2. CASE pc = "field"
    BY <1>3, <1>6, <1>9, <2>2, ValueStep
  <2> QED BY <1>4, <2>1, <2>2
<1>11. ~Stuck(o, C)
  <2> SUFFICES ASSUME Stuck(o, C) PROVE FALSE
    OBVIOUS
  <2>1. PICK r \in DOMAIN C : o + r < l /\ \A i \in DOMAIN C : i <= r \/ o + i > l
    BY DEF Stuck
  <2>2. Len(t) <= r
    BY <1>4, <1>7, <1>8, <2>1
  <2> QED BY <1>3, <1>4, <1>7, <1>8, <2>1, <2>2
<1>12. ~Descending(o, C)
  <2> SUFFICES ASSUME Descending(o, C) PROVE FALSE
    OBVIOUS
  <2>1. top.type = "AppInfo"
    BY DEF Descending, Nesting, Opens
  <2> QED BY <1>4, <1>5, <2>1
<1>13. CASE Moves(o, t, C)
  <2>1. /\ Len(stack') = 2 /\ pc' \in {"tag", "field"} /\ At(o, t, C)'
        /\ stack'[2].into = stack[2].into /\ stack'[1] = stack[1]
        /\ ends' = ends /\ buf' = buf
    <3>1. 1 \in 1..(Len(stack) - 1) /\ 2 \in 1..Len(stack)
      BY <1>4
    <3> QED BY <1>4, <1>13, <3>1 DEF Moves
  <2>2. Inside(f, t, C, M[p], M[q], q)'
    BY <1>3, <2>1 DEF Inside, o, g
  <2>3. Within(M)'
    BY <2>1, <2>2 DEF Within
  <2> QED BY <2>3 DEF Tracks
<1>14. CASE Ending(o, C)
  <2>1. PICK r \in DOMAIN C : ReadIn(buf, top.msg) = C[r] /\ iNdEx = o + r /\ iNdEx = l
    BY <1>14 DEF Ending
  <2>2. LeaveMessage
    BY <1>4, <1>14 DEF Ending, Return
  <2>3. r = Len(t)
    BY <1>3, <1>4, <1>7, <1>8, <2>1
  <2> DEFINE m == stack[1].msg
             c == top.msg
             n == Attach(m, g, c)
             d == [stack[1] EXCEPT !.msg = n]
  <2>4. /\ stack' = <<d>> /\ pc' = "tag" /\ iNdEx' = iNdEx /\ buf' = buf
    BY <1>3, <1>4, <2>2 DEF LeaveMessage, NextField
  <2>5. d.msg = n
    BY <1>4 DEF IsCall
  <2>6. /\ "attributes" \in DOMAIN m /\ IsSequence(m.attributes)
        /\ DOMAIN c \cap Nested = {}
    <3>1. Good(Chars, "AppInfo", m) /\ Good(Chars, top.type, c)
      BY <1>4 DEF IsCall
    <3>2. DOMAIN c \cap Nested = {}
      BY <1>4, <1>5, <3>1, NothingNested DEF Good, GoodFlat
    <3> QED BY <3>1, <3>2, AlwaysAttributes DEF Good, GoodFlat
  <2>7. ReadIn(buf, n) = Attach(ReadIn(buf, m), g, FlatIn(buf, c))
    BY <1>3, <1>4, <2>6, ReadAttached
  <2>8. FlatIn(buf, c) = C[Len(t)]
    BY <2>1, <2>3, <2>6, ReadFlatMessage
  <2>9. ReadIn(buf, n) = M[q]
    BY <1>3, <2>7, <2>8
  <2> HIDE DEF d, n
  <2>10. Len(stack') = 1 /\ stack'[1] = d
    BY <2>4, OneCall
  <2>11. top' = d
    BY <2>10 DEF top
  <2>12. iNdEx' = 0 + q
    BY <1>4, <1>7, <2>1, <2>4
  <2>13. ReadIn(buf', top'.msg) = M[q]
    BY <2>4, <2>5, <2>9, <2>11
  <2>14. At(0, b, M)'
    BY <2>4, <2>12, <2>13 DEF At
  <2> QED BY <2>4, <2>10, <2>14 DEF Reading, Tracks
<1> QED BY <1>10, <1>11, <1>12, <1>13, <1>14

\* Nothing else disturbs it.
LEMMA TracksStay ==
  ASSUME UNCHANGED vars, NEW b, NEW M, Tracks(b, M)
  PROVE  Tracks(b, M)'
<1>1. UNCHANGED <<sent, cut, buf, unsafe, pc, iNdEx, field, ends, stack, clone>>
  BY DEF vars
<1>2. top' = top
  BY <1>1 DEF top
<1>3. ASSUME NEW o, NEW s, NEW N, At(o, s, N) PROVE At(o, s, N)'
  <2>1. \A p, v, body : Behind(o + p, v, body) => Behind(o + p, v, body)'
    BY <1>1 DEF Behind
  <2> QED BY <1>1, <1>2, <1>3, <2>1 DEF At
<1>4. Reading(b, M) => Reading(b, M)'
  BY <1>1, <1>3 DEF Reading
<1>5. ASSUME NEW f, NEW t, NEW C, NEW m, NEW n, NEW y, Inside(f, t, C, m, n, y)
      PROVE  Inside(f, t, C, m, n, y)'
  <2>1. At(y - Len(t), t, C) => At(y - Len(t), t, C)'
    BY <1>3
  <2> QED BY <1>1, <1>5, <2>1 DEF Inside
<1>6. Within(M) => Within(M)'
  BY <1>1, <1>5 DEF Within
<1>7. StoppedAt(M) => StoppedAt(M)'
  BY <1>1, <1>2 DEF StoppedAt
<1>8. ReadThrough(M) => ReadThrough(M)'
  BY <1>1, <1>2 DEF ReadThrough
<1> QED BY <1>4, <1>6, <1>7, <1>8 DEF Tracks

\* When a decoder runs.
LEMMA DecodeNeeds ==
  ASSUME Decode
  PROVE  pc \in {"tag", "field"}
BY DEF Decode, BadTag, ReadTag, WrongWireType, BadVarint, ReadNumber, BadLength, ReadText,
       EnterMessage, LeaveMessage, SkipUnknown, BadUnknown, Return, Known, Expected, Counted,
       Unknown

\* The decoders keep to the way the marks describe.
LEMMA TracksNext ==
  ASSUME TypeInv, TypeInv', Outermost, NEW b, Arrived(b), NEW M, Marks(sent.type, b, M),
         Tracks(b, M), [Next]_vars
  PROVE  Tracks(b, M)'
<1>1. CASE UNCHANGED vars
  BY <1>1, TracksStay
<1>2. CASE Decode
  <2>1. Reading(b, M) \/ Within(M)
    BY <1>2, DecodeNeeds DEF Tracks, StoppedAt, ReadThrough
  <2> QED BY <1>2, <2>1, ReadingStep, WithinStep
<1>3. CASE Reuse
  <2>1. /\ pc = "done" /\ pc' = "reused" /\ buf' = [k \in DOMAIN buf |-> 255 - buf[k]]
        /\ UNCHANGED <<inputVars, iNdEx, field, ends, stack, clone>> /\ buf \in Seq(Byte)
    BY <1>3 DEF Reuse, TypeInv, BoundsInv
  <2>2. Len(buf') = Len(buf)
    <3>1. Len(buf) \in Nat /\ DOMAIN buf = 1..Len(buf)
      BY <2>1
    <3>2. buf' = [k \in 1..Len(buf) |-> 255 - buf[k]]
      BY <2>1, <3>1
    <3> QED BY <3>1, <3>2
  <2>3. ReadThrough(M)
    BY <2>1 DEF Tracks, Reading, Within, StoppedAt
  <2>4. top' = top /\ unsafe' = unsafe
    BY <2>1 DEF top, inputVars
  <2>5. ReadThrough(M)'
    BY <2>1, <2>2, <2>3, <2>4 DEF ReadThrough
  <2> QED BY <2>5 DEF Tracks
<1> QED BY <1>1, <1>2, <1>3 DEF Next

\* What was sent, by one writer or the other.
SentBy(strict) ==
  FlattenSeq([k \in DOMAIN sent.messages |-> Written(sent.type, strict, sent.messages[k])])

\* The decoder of what was sent is where it should be, and holds what it
\* should there.
DecodeInv ==
  sent.messages # <<>> =>
    \E strict \in BOOLEAN : \E b :
      /\ b = SentBy(strict) /\ Arrived(b)
      /\ \A M : Marks(sent.type, b, M) /\ M[0] = Empty(sent.type) => Tracks(b, M)

\* The empty message reads as itself.
LEMMA EmptyReads ==
  ASSUME NEW type \in Types
  PROVE  ReadIn(buf, Empty(type)) = Empty(type)
<1> DEFINE m == Empty(type)
<1>1. Good(Byte, type, m)
  BY EmptyGood
<1>2. Still(m)
  <2> HIDE DEF m
  <2> QED BY <1>1, GoodIsStill
<1> HIDE DEF m
<1>3. Read(m) = m
  BY <1>2, StillReadsItself
<1> QED BY <1>3, ReadIs DEF m

LEMMA SentBytes ==
  ASSUME SentInv, sent \in Sent, NEW strict \in BOOLEAN
  PROVE  /\ SentBy(strict) \in Seq(Byte)
         /\ SentBy(strict) = FlattenSeq([k \in DOMAIN sent.messages |->
                                MarshalVT(sent.type, strict, sent.messages[k])])
<1> DEFINE n == Len(sent.messages)
           e == [k \in 1..n |-> Written(sent.type, strict, sent.messages[k])]
<1>1. /\ sent.type \in Types /\ sent.messages \in Seq(Range(sent.messages))
      /\ \A k \in DOMAIN sent.messages : IsMessage(sent.type, sent.messages[k])
  BY InputAssumption
<1>2. n \in Nat /\ DOMAIN sent.messages = 1..n
  BY <1>1
<1>3. ASSUME NEW k \in 1..n
      PROVE  /\ Written(sent.type, strict, sent.messages[k]) \in Seq(Byte)
             /\ MarshalVT(sent.type, strict, sent.messages[k])
                  = Written(sent.type, strict, sent.messages[k])
  <2>1. IsMessage(sent.type, sent.messages[k])
    BY <1>1, <1>2
  <2>2. Sized(Written(sent.type, strict, sent.messages[k]), SizeVT(sent.type, sent.messages[k]))
    BY <1>1, <2>1, WrittenIsSized
  <2> QED BY <1>1, <2>1, <2>2, MarshalIsWhole DEF Sized
<1>4. e \in [1..n -> Seq(Byte)]
  BY <1>3
<1>5. e = [k \in DOMAIN sent.messages |-> Written(sent.type, strict, sent.messages[k])]
  BY <1>2
<1>6. e = [k \in DOMAIN sent.messages |-> MarshalVT(sent.type, strict, sent.messages[k])]
  BY <1>2, <1>3
<1> HIDE DEF e, n
<1>7. PICK r \in [Nat -> Seq(Byte)] : Joins(r, e, n) /\ FlattenSeq(e) = r[n]
  BY <1>2, <1>4, FlattenDef, Zenon
<1>8. FlattenSeq(e) \in Seq(Byte)
  BY <1>2, <1>7
<1>9. SentBy(strict) = FlattenSeq(e)
  BY <1>5 DEF SentBy
<1> QED BY <1>6, <1>8, <1>9

\* At the start.
LEMMA OutermostInit == Init => Outermost
<1> SUFFICES ASSUME Init PROVE Outermost
  OBVIOUS
<1>1. /\ ends = <<Len(buf)>>
      /\ stack = <<[type |-> sent.type, into |-> "", inPlace |-> TRUE,
                    msg |-> Empty(sent.type)]>>
  BY DEF Init
<1> QED BY <1>1 DEF Outermost

\* At the start the decoder holds the empty message.
LEMMA DecodeInit == Init => DecodeInv
<1> SUFFICES ASSUME Init, sent.messages # <<>> PROVE DecodeInv
  BY DEF DecodeInv
<1>1. PICK s \in Sent, strict \in BOOLEAN :
        LET all == FlattenSeq([k \in DOMAIN s.messages |->
                                 MarshalVT(s.type, strict, s.messages[k])])
        IN  \E n \in 0..Len(all) :
              sent = s /\ cut = (n < Len(all)) /\ buf = SubSeq(all, 1, n)
  <2>1. \A r \in Raw : sent # [type |-> r.type, messages |-> <<>>]
    OBVIOUS
  <2> QED BY <2>1 DEF Init
<1> DEFINE all == SentBy(strict)
<1>2. SentInv /\ sent \in Sent
  BY <1>1, SentInit
<1>3. /\ all \in Seq(Byte)
      /\ all = FlattenSeq([k \in DOMAIN sent.messages |->
                             MarshalVT(sent.type, strict, sent.messages[k])])
  BY <1>2, SentBytes
<1>4. PICK n \in 0..Len(all) : cut = (n < Len(all)) /\ buf = SubSeq(all, 1, n)
  BY <1>1, <1>3
<1> HIDE DEF all
<1>5. /\ pc = "tag" /\ iNdEx = 0
      /\ stack = <<[type |-> sent.type, into |-> "", inPlace |-> TRUE,
                    msg |-> Empty(sent.type)]>>
  BY DEF Init
<1>6. Len(buf) = n /\ n \in Nat /\ Len(all) \in Nat /\ n <= Len(all)
      /\ \A k \in 1..n : buf[k] = all[k]
  BY <1>3, <1>4
<1>7. StandsAt(buf, 0, all)
  BY <1>6 DEF StandsAt
<1>8. Arrived(all)
  BY <1>3, <1>4, <1>6, <1>7 DEF Arrived
<1>9. Len(stack) = 1 /\ top.msg = Empty(sent.type) /\ sent.type \in Types
  BY <1>2, <1>5 DEF top, SentInv
<1>10. ASSUME NEW M, Marks(sent.type, all, M), M[0] = Empty(sent.type) PROVE Tracks(all, M)
  <2>1. 0 \in DOMAIN M
    BY <1>10 DEF Marks, Spans
  <2>2. ReadIn(buf, Empty(sent.type)) = Empty(sent.type)
    BY <1>9, EmptyReads, Zenon
  <2>3. ReadIn(buf, top.msg) = M[0]
    BY <1>9, <1>10, <2>2, Zenon
  <2>4. iNdEx = 0 + 0
    <3>1. iNdEx = 0
      BY <1>5
    <3> QED BY <3>1
  <2>5. At(0, all, M)
    BY <1>5, <2>1, <2>3, <2>4 DEF At
  <2> QED BY <1>5, <1>9, <2>5 DEF Tracks, Reading
<1> QED BY <1>8, <1>10 DEF DecodeInv, all

\* Every step keeps it.
LEMMA DecodeNext ==
  ASSUME TypeInv, TypeInv', Outermost, DecodeInv, [Next]_vars
  PROVE  DecodeInv'
<1>1. sent' = sent
  BY InputsStay DEF inputVars
<1> SUFFICES ASSUME sent.messages # <<>> PROVE DecodeInv'
  BY <1>1 DEF DecodeInv
<1>2. PICK strict \in BOOLEAN : \E b :
      /\ b = SentBy(strict) /\ Arrived(b)
      /\ \A M : Marks(sent.type, b, M) /\ M[0] = Empty(sent.type) => Tracks(b, M)
  BY DEF DecodeInv
<1>3. PICK b :
      /\ b = SentBy(strict) /\ Arrived(b)
      /\ \A M : Marks(sent.type, b, M) /\ M[0] = Empty(sent.type) => Tracks(b, M)
  BY <1>2
<1>4. SentBy(strict)' = b
  BY <1>1, <1>3 DEF SentBy
<1>5. Arrived(b)'
  BY <1>3, ArrivedNext DEF TypeInv
<1>6. ASSUME NEW M, Marks(sent.type, b, M)', (M[0] = Empty(sent.type))'
      PROVE  Tracks(b, M)'
  <2>1. Marks(sent.type, b, M) /\ M[0] = Empty(sent.type)
    BY <1>1, <1>6
  <2>2. Tracks(b, M)
    BY <1>3, <2>1
  <2> QED BY <1>3, <2>1, <2>2, TracksNext
<1> QED BY <1>4, <1>5, <1>6 DEF DecodeInv

------------------------------------------------------------------------------
(* The decoders hold what they have read *)

\* Everything that holds at each step.
ReadInv ==
  /\ TypeInv /\ Outermost /\ SentInv /\ DecodeInv
  /\ sent.messages # <<>> => sent \in Sent

\* At the start.
LEMMA ReadInit == Init => ReadInv
<1> SUFFICES ASSUME Init PROVE ReadInv
  OBVIOUS
<1>1. TypeInv /\ Outermost /\ SentInv /\ DecodeInv
  BY TypeInit, OutermostInit, SentInit, DecodeInit
<1>2. ASSUME sent.messages # <<>> PROVE sent \in Sent
  <2>1. \A r \in Raw : sent # [type |-> r.type, messages |-> <<>>]
    BY <1>2
  <2> QED BY <2>1 DEF Init
<1> QED BY <1>1, <1>2 DEF ReadInv

\* Every step keeps it.
LEMMA ReadNext ==
  ASSUME ReadInv, [Next]_vars
  PROVE  ReadInv'
<1>1. TypeInv /\ Outermost /\ SentInv /\ DecodeInv
  BY DEF ReadInv
<1>2. TypeInv'
  BY <1>1, TypeNext
<1>3. Outermost'
  BY <1>1, OutermostNext DEF TypeInv
<1>4. sent' = sent
  BY InputsStay DEF inputVars
<1>5. SentInv'
  BY <1>1, <1>4 DEF SentInv
<1>6. DecodeInv'
  BY <1>1, <1>2, DecodeNext
<1> QED BY <1>2, <1>3, <1>4, <1>5, <1>6 DEF ReadInv

\* Whatever was sent and wherever it is cut: between two fields a decoder
\* holds exactly what the fields before its position mean, also within a
\* message in a field, and once it has returned with an error, what the whole
\* fields before the one that is cut mean (WasmPluginApi_vtproto.pb.go:2840-3317).
THEOREM DecoderHoldsWhatItRead == Spec => []DecodeInv
<1>1. ReadInv /\ [Next]_vars => ReadInv'
  BY ReadNext
<1>2. ReadInv => DecodeInv
  BY DEF ReadInv
<1> QED BY ReadInit, <1>1, <1>2, PTL DEF Spec

==============================================================================
