-------------------------- MODULE LengthCodecProofs -------------------------
(***************************************************************************)
(* readLen inverts writeLen for every length that fits into 32 bits.  Then *)
(* what the proofs about reading and writing need to know of the codes of  *)
(* several words put together: FlattenSeq joins its sequences one by one.  *)
(***************************************************************************)
EXTENDS LengthCodec, SequencesExt, WellFoundedInduction, SequenceTheorems, TLAPS

\* Splitting off the last byte of a number loses nothing.
LEMMA LastByte == ASSUME NEW l \in Nat PROVE (l \div 256) * 256 + (l % 256) = l
  OBVIOUS

\* Shifting by 16 or 24 bits is shifting by 8 bits two or three times.
LEMMA RepeatedShift ==
    ASSUME NEW l \in Nat
    PROVE  /\ (l \div 256) \div 256 = l \div 65536
           /\ (l \div 65536) \div 256 = l \div 16777216
  OBVIOUS

\* Two and three shifts put the pieces of a number together again.
LEMMA Reassembled ==
    ASSUME NEW l \in Nat
    PROVE  /\ Shifted(Shifted(l \div 65536, ByteAt(l, 256)), l % 256) = l
           /\ Shifted(Shifted(Shifted(l \div 16777216, ByteAt(l, 65536)),
                              ByteAt(l, 256)), l % 256) = l
<1>1. Shifted(l \div 256, l % 256) = l
  BY LastByte DEF Shifted
<1>2. Shifted(l \div 65536, ByteAt(l, 256)) = l \div 256
  BY RepeatedShift DEF Shifted, ByteAt
<1>3. Shifted(l \div 16777216, ByteAt(l, 65536)) = l \div 65536
  BY RepeatedShift DEF Shifted, ByteAt
<1> QED
  BY <1>1, <1>2, <1>3

\* readLen gives back every length writeLen was given.
THEOREM LengthRoundTrip == \A l \in Lengths : RoundTrip(l)
<1> SUFFICES ASSUME NEW l \in Lengths PROVE RoundTrip(l)
  OBVIOUS
<1>1. l \in Nat /\ l < 4294967296
  BY SMT DEF Lengths
<1>2. CASE l < 128
  <2>1. WriteLen(l) = <<l>>
    BY <1>1, <1>2 DEF WriteLen
  <2> QED
    BY <1>1, <1>2, <2>1 DEF RoundTrip, ReadLen, MoreBytes, FirstPart
<1>3. CASE 128 <= l /\ l < 16384
  <2>1. WriteLen(l) = <<128 + l \div 256, l % 256>>
    BY <1>1, <1>3 DEF WriteLen
  <2>2. l \div 256 \in 0 .. 63
    BY <1>1, <1>3
  <2>3. MoreBytes(128 + l \div 256) = 1 /\ FirstPart(128 + l \div 256) = l \div 256
    BY <2>2 DEF MoreBytes, FirstPart
  <2> QED
    BY <1>1, <2>1, <2>3, LastByte DEF RoundTrip, ReadLen, Shifted
<1>4. CASE 16384 <= l /\ l < 2097152
  <2>1. WriteLen(l) = <<192 + l \div 65536, ByteAt(l, 256), l % 256>>
    BY <1>1, <1>4 DEF WriteLen
  <2>2. l \div 65536 \in 0 .. 31
    BY <1>1, <1>4
  <2>3. MoreBytes(192 + l \div 65536) = 2 /\ FirstPart(192 + l \div 65536) = l \div 65536
    BY <2>2 DEF MoreBytes, FirstPart
  <2> QED
    BY <1>1, <2>1, <2>3, Reassembled DEF RoundTrip, ReadLen
<1>5. CASE 2097152 <= l /\ l < 268435456
  <2>1. WriteLen(l) = <<224 + l \div 16777216, ByteAt(l, 65536), ByteAt(l, 256), l % 256>>
    BY <1>1, <1>5 DEF WriteLen
  <2>2. l \div 16777216 \in 0 .. 15
    BY <1>1, <1>5
  <2>3. /\ MoreBytes(224 + l \div 16777216) = 3
        /\ FirstPart(224 + l \div 16777216) = l \div 16777216
    BY <2>2 DEF MoreBytes, FirstPart
  <2> QED
    BY <1>1, <2>1, <2>3, Reassembled DEF RoundTrip, ReadLen
<1>6. CASE 268435456 <= l
  <2>1. WriteLen(l) = <<240, ByteAt(l, 16777216), ByteAt(l, 65536), ByteAt(l, 256), l % 256>>
    BY <1>1, <1>6 DEF WriteLen
  <2>2. ByteAt(l, 16777216) = l \div 16777216
    BY <1>1 DEF ByteAt
  <2>3. MoreBytes(240) = 4
    BY DEF MoreBytes
  <2> QED
    BY <1>1, <2>1, <2>2, <2>3, Reassembled DEF RoundTrip, ReadLen
<1> QED
  BY <1>1, <1>2, <1>3, <1>4, <1>5, <1>6
-----------------------------------------------------------------------------

\* Induction over the naturals, for a set of numbers.
LEMMA NumbersByInduction ==
    ASSUME NEW S \in SUBSET Nat, 0 \in S, \A n \in S : n + 1 \in S
    PROVE  S = Nat
<1> DEFINE T == Nat \ S
           R == OpToRel(<, Nat)
<1> SUFFICES ASSUME T # {} PROVE FALSE
  OBVIOUS
<1>1. IsWellFoundedOn(R, Nat)
  BY NatLessThanWellFounded
<1>2. \A x, y \in Nat : x < y => <<x, y>> \in R
  BY DEF OpToRel
<1> HIDE DEF R
<1>3. PICK x \in T : \A y \in T : ~(<<y, x>> \in R)
  BY <1>1, WFMin
<1>4. x # 0 /\ x - 1 \in Nat /\ x - 1 < x
  OBVIOUS
<1>5. x - 1 \notin T
  BY <1>2, <1>3, <1>4
<1>6. (x - 1) + 1 \in S
  BY <1>4, <1>5
<1> QED
  BY <1>4, <1>6

\* The function that FlattenSeq defines by recursion.
Joined(ss, n, f) ==
    f = [i \in 1 .. n |-> IF i = 1 THEN ss[i] ELSE f[i - 1] \o ss[i]]

\* There is such a function for every sequence.
LEMMA JoinedExists ==
    ASSUME NEW ss, NEW n \in Nat PROVE \E f : Joined(ss, n, f)
<1> DEFINE S == {m \in Nat : \E f : Joined(ss, m, f)}
<1>1. 0 \in S
  <2>1. Joined(ss, 0, [i \in {} |-> i])
    BY DEF Joined
  <2> QED
    BY <2>1
<1>2. ASSUME NEW m \in S PROVE m + 1 \in S
  <2>1. PICK f : Joined(ss, m, f)
    OBVIOUS
  <2> DEFINE g == [i \in 1 .. m + 1 |->
                      IF i <= m THEN f[i] ELSE IF i = 1 THEN ss[i] ELSE f[i - 1] \o ss[i]]
  <2>2. \A i \in 1 .. m + 1 : g[i] = IF i = 1 THEN ss[i] ELSE g[i - 1] \o ss[i]
    <3> SUFFICES ASSUME NEW i \in 1 .. m + 1
                 PROVE  g[i] = IF i = 1 THEN ss[i] ELSE g[i - 1] \o ss[i]
      OBVIOUS
    <3>1. CASE i <= m
      <4>1. g[i] = f[i]
        BY <3>1
      <4>3. i \in 1 .. m
        BY <3>1
      <4>4. f[i] = IF i = 1 THEN ss[i] ELSE f[i - 1] \o ss[i]
        <5> HIDE DEF g
        <5> QED
          BY <2>1, <4>3 DEF Joined
      <4>2. i # 1 => g[i - 1] = f[i - 1]
        BY <3>1
      <4> QED
        BY <4>1, <4>2, <4>4
    <3>2. CASE i = m + 1
      <4>1. i # 1 => g[i - 1] = f[i - 1]
        BY <3>2
      <4>2. g[i] = IF i = 1 THEN ss[i] ELSE f[i - 1] \o ss[i]
        BY <3>2
      <4> QED
        BY <4>1, <4>2
    <3> QED
      BY <3>1, <3>2
  <2>3. Joined(ss, m + 1, g)
    <3>1. g = [i \in 1 .. m + 1 |-> g[i]]
      OBVIOUS
    <3> HIDE DEF g
    <3>2. g = [i \in 1 .. m + 1 |-> IF i = 1 THEN ss[i] ELSE g[i - 1] \o ss[i]]
      BY ONLY <2>2, <3>1, Zenon
    <3> QED
      BY ONLY <3>2 DEF Joined
  <2> QED
    BY <2>3
<1>3. S = Nat
  <2> HIDE DEF S
  <2>1. S \in SUBSET Nat
    BY DEF S
  <2> QED
    BY <1>1, <1>2, <2>1, NumbersByInduction
<1> QED
  BY <1>3

\* FlattenSeq returns the last value of such a function.
LEMMA FlattenIsJoined ==
    ASSUME NEW ss, NEW n \in Nat, n # 0, Len(ss) = n
    PROVE  \E f : Joined(ss, n, f) /\ FlattenSeq(ss) = f[n]
<1> DEFINE f == CHOOSE g : g = [i \in 1 .. Len(ss) |-> IF i = 1 THEN ss[i] ELSE g[i - 1] \o ss[i]]
<1>1. FlattenSeq(ss) = f[Len(ss)]
  BY DEF FlattenSeq
<1>2. \E g : g = [i \in 1 .. Len(ss) |-> IF i = 1 THEN ss[i] ELSE g[i - 1] \o ss[i]]
  BY JoinedExists DEF Joined
<1>3. f = [i \in 1 .. Len(ss) |-> IF i = 1 THEN ss[i] ELSE f[i - 1] \o ss[i]]
  BY <1>2
<1> QED
  BY <1>1, <1>3 DEF Joined
-----------------------------------------------------------------------------

\* Nothing joined is nothing.
LEMMA FlattenEmpty == FlattenSeq(<<>>) = <<>>
  BY DEF FlattenSeq

\* Two such functions agree as far as their sequences do.
Agree(f, g, n) == \A i \in 1 .. n : f[i] = g[i]

\* So do the functions, then.
LEMMA JoinedAgree ==
    ASSUME NEW ss, NEW tt, NEW n \in Nat, NEW m \in Nat, NEW f, NEW g,
           Joined(ss, n, f), Joined(tt, m, g), n <= m, Agree(ss, tt, n)
    PROVE  Agree(f, g, n)
<1> USE DEF Agree
<1> DEFINE S == {k \in Nat : k \in 1 .. n => f[k] = g[k]}
<1>0. \A i \in 1 .. n : f[i] = IF i = 1 THEN ss[i] ELSE f[i - 1] \o ss[i]
  BY DEF Joined
<1>1. \A i \in 1 .. m : g[i] = IF i = 1 THEN tt[i] ELSE g[i - 1] \o tt[i]
  BY DEF Joined
<1>2. 0 \in S
  OBVIOUS
<1>3. ASSUME NEW k \in S PROVE k + 1 \in S
  <2> SUFFICES ASSUME k + 1 \in 1 .. n PROVE f[k + 1] = g[k + 1]
    OBVIOUS
  <2>0. k + 1 \in 1 .. m /\ ss[k + 1] = tt[k + 1] /\ (k + 1) - 1 = k
    OBVIOUS
  <2>1. CASE k # 0
    <3>1. f[k] = g[k] /\ k + 1 # 1
      BY <2>1
    <3>2. f[k + 1] = f[k] \o ss[k + 1] /\ g[k + 1] = g[k] \o tt[k + 1]
      BY <1>0, <1>1, <2>0, <3>1
    <3> QED
      BY <2>0, <3>1, <3>2, Zenon
  <2>2. CASE k = 0
    BY <1>0, <1>1, <2>0, <2>2
  <2> QED
    BY <2>1, <2>2
<1>4. S = Nat
  <2> HIDE DEF S
  <2>1. S \in SUBSET Nat
    BY DEF S
  <2> QED
    BY <1>2, <1>3, <2>1, NumbersByInduction
<1> QED
  BY <1>4

\* Every value of the function is a sequence of the elements joined.
LEMMA JoinedType ==
    ASSUME NEW B, NEW n \in Nat, NEW ss \in Seq(Seq(B)), n = Len(ss), NEW f, Joined(ss, n, f)
    PROVE  \A i \in 1 .. n : f[i] \in Seq(B)
<1> DEFINE S == {k \in Nat : k \in 1 .. n => f[k] \in Seq(B)}
<1>0. \A i \in 1 .. n : f[i] = IF i = 1 THEN ss[i] ELSE f[i - 1] \o ss[i]
  BY DEF Joined
<1>1. \A i \in 1 .. n : ss[i] \in Seq(B)
  OBVIOUS
<1>2. 0 \in S
  OBVIOUS
<1>3. ASSUME NEW k \in S PROVE k + 1 \in S
  <2>1. CASE k + 1 \in 1 .. n /\ k # 0
    <3>1. f[k] \in Seq(B) /\ k + 1 # 1 /\ (k + 1) - 1 = k
      BY <2>1
    <3>2. f[k + 1] = f[k] \o ss[k + 1]
      BY <1>0, <2>1, <3>1
    <3>3. f[k + 1] \in Seq(B)
      BY <1>1, <2>1, <3>1, <3>2, ConcatProperties
    <3> QED
      BY <3>3
  <2>2. CASE k + 1 \in 1 .. n /\ k = 0
    BY <1>0, <1>1, <2>2
  <2> QED
    BY <2>1, <2>2
<1>4. S = Nat
  <2> HIDE DEF S
  <2>1. S \in SUBSET Nat
    BY DEF S
  <2> QED
    BY <1>2, <1>3, <2>1, NumbersByInduction
<1> QED
  BY <1>4

\* Sequences of bytes (or of anything) are joined to such a sequence.
LEMMA FlattenType ==
    ASSUME NEW B, NEW ss \in Seq(Seq(B)) PROVE FlattenSeq(ss) \in Seq(B)
<1>1. CASE ss = <<>>
  <2>1. FlattenSeq(ss) = <<>>
    BY <1>1, FlattenEmpty, Zenon
  <2> QED
    BY <2>1
<1>2. CASE ss # <<>>
  <2>1. Len(ss) \in Nat /\ Len(ss) # 0
    BY <1>2
  <2>2. PICK f : Joined(ss, Len(ss), f) /\ FlattenSeq(ss) = f[Len(ss)]
    BY <2>1, FlattenIsJoined
  <2>3. f[Len(ss)] \in Seq(B)
    BY <2>1, <2>2, JoinedType
  <2> QED
    BY <2>2, <2>3
<1> QED
  BY <1>1, <1>2

\* One sequence more goes to the end.
LEMMA FlattenLonger ==
    ASSUME NEW B, NEW ss \in Seq(Seq(B)), NEW s \in Seq(B), NEW tt,
           NEW n \in Nat, NEW m \in Nat, n = Len(ss), m = Len(tt), m = n + 1, tt[m] = s,
           Agree(ss, tt, n)
    PROVE  FlattenSeq(tt) = FlattenSeq(ss) \o s
<1>1. m # 0 /\ n <= m /\ m \in 1 .. m
  OBVIOUS
<1>2. PICK g : Joined(tt, m, g) /\ FlattenSeq(tt) = g[m]
  BY <1>1, FlattenIsJoined
<1>3. \A i \in 1 .. m : g[i] = IF i = 1 THEN tt[i] ELSE g[i - 1] \o tt[i]
  BY <1>2 DEF Joined
<1>4. CASE n = 0
  <2>1. ss = <<>>
    BY <1>4, EmptySeq
  <2>2. FlattenSeq(ss) = <<>>
    BY <2>1, FlattenEmpty, Zenon
  <2>3. g[m] = s
    BY <1>3, <1>4
  <2> QED
    BY <1>2, <2>2, <2>3
<1>5. CASE n # 0
  <2>1. PICK f : Joined(ss, n, f) /\ FlattenSeq(ss) = f[n]
    BY <1>5, FlattenIsJoined
  <2>2. Agree(f, g, n)
    BY <1>1, <1>2, <2>1, JoinedAgree, Zenon
  <2>3. n \in 1 .. n /\ m # 1 /\ m - 1 = n
    BY <1>5
  <2>4. g[m] = g[m - 1] \o tt[m]
    BY <1>1, <1>3, <2>3, Zenon
  <2>5. f[n] = g[n]
    BY <2>2, <2>3, Zenon DEF Agree
  <2> QED
    BY <1>2, <2>1, <2>3, <2>4, <2>5, Zenon
<1> QED
  BY <1>4, <1>5

\* Appending a sequence appends its elements.
LEMMA FlattenAppend ==
    ASSUME NEW B, NEW ss \in Seq(Seq(B)), NEW s \in Seq(B)
    PROVE  FlattenSeq(Append(ss, s)) = FlattenSeq(ss) \o s
<1> DEFINE tt == Append(ss, s)
           n == Len(ss)
<1>1. n \in Nat /\ Len(tt) = n + 1 /\ tt[n + 1] = s /\ Agree(ss, tt, n)
  BY DEF Agree
<1> HIDE DEF tt
<1>2. FlattenSeq(tt) = FlattenSeq(ss) \o s
  <2> DEFINE m == n + 1
  <2>1. m \in Nat /\ m = Len(tt) /\ m = n + 1 /\ tt[m] = s
    BY <1>1
  <2> HIDE DEF m
  <2> QED
    BY <1>1, <2>1, FlattenLonger
<1> QED
  BY <1>2 DEF tt

\* The first sequence comes first.
LEMMA FlattenCons ==
    ASSUME NEW B, NEW s \in Seq(B), NEW ss \in Seq(Seq(B))
    PROVE  FlattenSeq(<<s>> \o ss) = s \o FlattenSeq(ss)
<1> DEFINE tt == <<s>> \o ss
           n == Len(ss)
<1>1. n \in Nat /\ Len(tt) = n + 1 /\ n + 1 \in Nat /\ n + 1 # 0 /\ tt \in Seq(Seq(B))
  OBVIOUS
<1>2. tt[1] = s /\ \A i \in 1 .. n : tt[i + 1] = ss[i]
  OBVIOUS
<1> HIDE DEF tt
<1>3. PICK g : Joined(tt, n + 1, g) /\ FlattenSeq(tt) = g[n + 1]
  BY <1>1, FlattenIsJoined
<1>4. \A i \in 1 .. n + 1 : g[i] = IF i = 1 THEN tt[i] ELSE g[i - 1] \o tt[i]
  BY <1>3 DEF Joined
<1>5. CASE n = 0
  <2>1. ss = <<>> /\ FlattenSeq(ss) = <<>>
    BY <1>5, FlattenEmpty
  <2>2. g[n + 1] = s
    BY <1>2, <1>4, <1>5
  <2> QED
    BY <1>3, <2>1, <2>2 DEF tt
<1>6. CASE n # 0
  <2>1. PICK f : Joined(ss, n, f) /\ FlattenSeq(ss) = f[n]
    BY <1>1, <1>6, FlattenIsJoined
  <2>2. \A i \in 1 .. n : f[i] = IF i = 1 THEN ss[i] ELSE f[i - 1] \o ss[i]
    BY <2>1 DEF Joined
  <2>3. \A i \in 1 .. n : f[i] \in Seq(B)
    <3> HIDE DEF n
    <3> QED
      BY <1>1, <2>1, JoinedType DEF n
  <2> DEFINE S == {k \in Nat : k \in 1 .. n => g[k + 1] = s \o f[k]}
  <2>4. 0 \in S
    OBVIOUS
  <2>5. ASSUME NEW k \in S PROVE k + 1 \in S
    <3> SUFFICES ASSUME k + 1 \in 1 .. n PROVE g[(k + 1) + 1] = s \o f[k + 1]
      OBVIOUS
    <3>1. /\ k \in Nat /\ (k + 1) + 1 \in 1 .. n + 1 /\ (k + 1) + 1 # 1
          /\ ((k + 1) + 1) - 1 = k + 1 /\ (k + 1) - 1 = k
      OBVIOUS
    <3>2. g[(k + 1) + 1] = g[k + 1] \o ss[k + 1]
      BY <1>2, <1>4, <3>1
    <3>3. CASE k = 0
      <4>1. g[1] = s /\ f[1] = ss[1]
        <5>1. 1 \in 1 .. n + 1 /\ 1 \in 1 .. n
          BY ONLY <1>1, <1>6
        <5> QED
          BY <5>1, <1>2, <1>4, <2>2, Zenon
      <4>2. k + 1 = 1
        BY <3>3
      <4> QED
        BY <3>2, <4>1, <4>2, Zenon
    <3>4. CASE k # 0
      <4>0. k \in 1 .. n /\ k + 1 # 1
        <5>1. k \in Nat /\ k # 0 /\ n \in Nat /\ k + 1 \in 1 .. n
          BY <1>1, <3>4
        <5> QED
          BY ONLY <5>1
      <4>1. g[k + 1] = s \o f[k] /\ k \in 1 .. n /\ k + 1 # 1
        BY <4>0, Zenon
      <4>2. f[k + 1] = f[k] \o ss[k + 1]
        BY <2>2, <3>1, <4>1
      <4>3. f[k] \in Seq(B) /\ ss[k + 1] \in Seq(B)
        BY <2>3, <4>1
      <4>4. (s \o f[k]) \o ss[k + 1] = s \o (f[k] \o ss[k + 1])
        <5> DEFINE a == f[k]
                   b == ss[k + 1]
        <5>1. s \in Seq(B) /\ a \in Seq(B) /\ b \in Seq(B)
          BY <4>3
        <5> HIDE DEF a, b, S, n
        <5>2. (s \o a) \o b = s \o (a \o b)
          BY ONLY <5>1, ConcatAssociative
        <5> QED
          BY <5>2 DEF a, b
      <4> QED
        BY <3>2, <4>1, <4>2, <4>4
    <3> QED
      BY <3>3, <3>4
  <2>6. S = Nat
    <3> HIDE DEF S
    <3>1. S \in SUBSET Nat
      BY DEF S
    <3> QED
      BY <2>4, <2>5, <3>1, NumbersByInduction
  <2>7. g[n + 1] = s \o f[n]
    <3>1. n \in 1 .. n
      BY <1>1, <1>6
    <3>2. n \in S
      BY <1>1, <2>6, Zenon
    <3> QED
      BY <3>1, <3>2, Zenon
  <2> QED
    BY <1>3, <2>1, <2>7 DEF tt
<1> QED
  BY <1>5, <1>6\* The value of the first p bytes of a code, as readLen puts it together.
Value(c, p) ==
    IF p = 1 THEN FirstPart(c[1])
    ELSE IF p = 2 THEN Shifted(FirstPart(c[1]), c[2])
    ELSE IF p = 3 THEN Shifted(Shifted(FirstPart(c[1]), c[2]), c[3])
    ELSE IF p = 4 THEN Shifted(Shifted(Shifted(FirstPart(c[1]), c[2]), c[3]), c[4])
    ELSE Shifted(Shifted(Shifted(Shifted(FirstPart(c[1]), c[2]), c[3]), c[4]), c[5])

\* writeLen writes one to five bytes, whatever the length.
LEMMA CodeType ==
    ASSUME NEW l \in Nat
    PROVE  /\ WriteLen(l) \in Seq(Byte)
           /\ Len(WriteLen(l)) \in 1 .. 5
<1>1. l \in Nat
  OBVIOUS
<1>2. CASE l < 128
  <2>1. WriteLen(l) = <<l>>
    BY <1>1, <1>2, SMT DEF WriteLen
  <2>2. l \in Byte
    BY <1>1, <1>2, SMT DEF Byte
  <2> QED
    BY <2>1, <2>2
<1>3. CASE 128 <= l /\ l < 16384
  <2>1. WriteLen(l) = <<128 + l \div 256, l % 256>>
    BY <1>1, <1>3, SMT DEF WriteLen
  <2>2. 128 + l \div 256 \in Byte /\ l % 256 \in Byte
    BY <1>1, <1>3, SMT DEF Byte
  <2> QED
    BY <2>1, <2>2
<1>4. CASE 16384 <= l /\ l < 2097152
  <2>1. WriteLen(l) = <<192 + l \div 65536, ByteAt(l, 256), l % 256>>
    BY <1>1, <1>4, SMT DEF WriteLen
  <2>2. 192 + l \div 65536 \in Byte /\ ByteAt(l, 256) \in Byte /\ l % 256 \in Byte
    BY <1>1, <1>4, SMT DEF Byte, ByteAt
  <2> QED
    BY <2>1, <2>2
<1>5. CASE 2097152 <= l /\ l < 268435456
  <2>1. WriteLen(l) = <<224 + l \div 16777216, ByteAt(l, 65536), ByteAt(l, 256), l % 256>>
    BY <1>1, <1>5, SMT DEF WriteLen
  <2>2. /\ 224 + l \div 16777216 \in Byte /\ ByteAt(l, 65536) \in Byte
        /\ ByteAt(l, 256) \in Byte /\ l % 256 \in Byte
    BY <1>1, <1>5, SMT DEF Byte, ByteAt
  <2> QED
    BY <2>1, <2>2
<1>6. CASE 268435456 <= l
  <2>1. WriteLen(l) = <<240, ByteAt(l, 16777216), ByteAt(l, 65536), ByteAt(l, 256), l % 256>>
    BY <1>1, <1>6, SMT DEF WriteLen
  <2>2. /\ 240 \in Byte /\ ByteAt(l, 16777216) \in Byte /\ ByteAt(l, 65536) \in Byte
        /\ ByteAt(l, 256) \in Byte /\ l % 256 \in Byte
    BY <1>1, <1>6, SMT DEF Byte, ByteAt
  <2> QED
    BY <2>1, <2>2
<1> QED
  BY <1>1, <1>2, <1>3, <1>4, <1>5, <1>6

\* What the provers need of a byte.
LEMMA BytesAreNumbers == \A b \in Byte : b \in Nat /\ b < 256
  BY DEF Byte

\* An element of a sequence is in the set the sequence is over.
LEMMA ElementIn ==
    ASSUME NEW B, NEW s \in Seq(B), NEW i \in 1 .. Len(s) PROVE s[i] \in B
  OBVIOUS

\* Reading the code of l byte by byte gives l.
LEMMA CodeValue ==
    ASSUME NEW l \in Lengths, NEW n, NEW c, c = WriteLen(l), n = Len(c)
    PROVE  /\ n = 1 + MoreBytes(c[1])
           /\ Value(c, n) = l
           /\ \A p \in 1 .. n - 1 : Value(c, p + 1) = Shifted(Value(c, p), c[p + 1])
<1>1. RoundTrip(l)
  BY LengthRoundTrip
<1>2. c \in Seq(Byte) /\ n \in 1 .. 5
  <2>1. l \in Nat
    BY DEF Lengths
  <2> QED
    BY <2>1, CodeType
<1>3. n = 1 + MoreBytes(c[1]) /\ ReadLen(c) = l
  BY <1>1 DEF RoundTrip
<1>4. \A p \in 1 .. n - 1 : Value(c, p + 1) = Shifted(Value(c, p), c[p + 1])
  <2> SUFFICES ASSUME NEW p \in 1 .. n - 1
               PROVE  Value(c, p + 1) = Shifted(Value(c, p), c[p + 1])
    OBVIOUS
  <2>1. p \in 1 .. 4
    BY ONLY <1>2, p \in 1 .. n - 1
  <2> QED
    BY ONLY <2>1 DEF Value
<1>5. Value(c, n) = l
  <2>1. MoreBytes(c[1]) \in 0 .. 4
    BY <1>2, <1>3 DEF MoreBytes
  <2>2. CASE MoreBytes(c[1]) = 4
    <3>1. n = 5
      BY ONLY <1>3, <2>2
    <3>2. 1 \in 1 .. n /\ 2 \in 1 .. n
      BY ONLY <3>1
    <3>3. c[1] \in Byte /\ c[2] \in Byte
      BY <1>2, <3>2, ElementIn, Zenon
    <3>4. c[1] \in Nat /\ c[2] \in Nat
      BY <3>3, BytesAreNumbers, Zenon
    <3>5. FirstPart(c[1]) = 0
      BY ONLY <2>2, <3>4 DEF MoreBytes, FirstPart
    <3>6. Shifted(0, c[2]) = c[2]
      BY ONLY <3>4 DEF Shifted
    <3>7. ReadLen(c) = Shifted(Shifted(Shifted(c[2], c[3]), c[4]), c[5])
      BY ONLY <2>2 DEF ReadLen
    <3>8. Value(c, 5) = Shifted(Shifted(Shifted(Shifted(0, c[2]), c[3]), c[4]), c[5])
      BY ONLY <3>5 DEF Value
    <3> QED
      BY <1>3, <3>1, <3>6, <3>7, <3>8
  <2>3. CASE MoreBytes(c[1]) \in 0 .. 3
    <3>1. Value(c, n) = ReadLen(c)
      BY ONLY <1>3, <2>3 DEF ReadLen, Value
    <3> QED
      BY <1>3, <3>1
  <2> QED
    BY <2>1, <2>2, <2>3
<1> QED
  BY <1>3, <1>4, <1>5

-----------------------------------------------------------------------------

\* The sequence without its first j elements.
Behind(s, j) == SubSeq(s, j + 1, Len(s))

\* What is left is a sequence of the same kind, shorter by j.
LEMMA BehindType ==
    ASSUME NEW B, NEW s \in Seq(B), NEW j \in 0 .. Len(s)
    PROVE  Behind(s, j) \in Seq(B) /\ Len(Behind(s, j)) = Len(s) - j
  BY DEF Behind

\* It begins with the next element.
LEMMA BehindStep ==
    ASSUME NEW B, NEW s \in Seq(B), NEW j \in Nat, j < Len(s)
    PROVE  Behind(s, j) = <<s[j + 1]>> \o Behind(s, j + 1)
  BY DEF Behind

\* Behind nothing there is everything.
LEMMA BehindStart ==
    ASSUME NEW B, NEW s \in Seq(B)
    PROVE  Behind(s, 0) = s
  BY DEF Behind

\* Behind the whole sequence there is nothing.
LEMMA BehindEnd ==
    ASSUME NEW B, NEW s \in Seq(B)
    PROVE  Behind(s, Len(s)) = <<>>
  BY DEF Behind

\* Taking p and then k elements off is taking p + k off.
LEMMA BehindBehind ==
    ASSUME NEW B, NEW s \in Seq(B), NEW p \in Nat, NEW k \in Nat, p + k <= Len(s)
    PROVE  Behind(Behind(s, p), k) = Behind(s, p + k)
  BY DEF Behind

\* Behind its first part a sequence is the second one.
LEMMA BehindFirst ==
    ASSUME NEW B, NEW a \in Seq(B), NEW b \in Seq(B)
    PROVE  /\ Behind(a \o b, Len(a)) = b
           /\ SubSeq(a \o b, 1, Len(a)) = a
           /\ Len(a \o b) = Len(a) + Len(b)
<1> DEFINE c == a \o b
           m == Len(a)
<1>1. /\ c \in Seq(B) /\ Len(c) = m + Len(b) /\ m \in Nat /\ Len(b) \in Nat
      /\ \A i \in 1 .. m : c[i] = a[i]
      /\ \A i \in 1 .. Len(b) : c[m + i] = b[i]
  OBVIOUS
<1> HIDE DEF c
<1>2. Behind(c, m) = b
  <2> DEFINE t == SubSeq(c, m + 1, Len(c))
  <2>1. t \in Seq(B) /\ Len(t) = Len(b) /\ \A i \in 1 .. Len(b) : t[i] = c[m + i]
    BY <1>1
  <2> HIDE DEF t
  <2>2. /\ t \in Seq(B) /\ b \in Seq(B) /\ Len(t) = Len(b)
        /\ \A i \in 1 .. Len(b) : t[i] = b[i]
    BY <1>1, <2>1
  <2>3. t = b
    BY ONLY <2>2
  <2> QED
    BY <2>3 DEF Behind, t
<1>3. SubSeq(c, 1, m) = a
  BY <1>1
<1> QED
  BY <1>1, <1>2, <1>3 DEF c

\* A part of what is behind q is a part of the whole.
LEMMA PartBehind ==
    ASSUME NEW B, NEW s \in Seq(B), NEW q \in Nat, NEW l \in Nat, q + l <= Len(s)
    PROVE  SubSeq(s, q + 1, q + l) = SubSeq(Behind(s, q), 1, l)
<1> DEFINE b == Behind(s, q)
           t == SubSeq(s, q + 1, q + l)
           v == SubSeq(b, 1, l)
<1>1. b \in Seq(B) /\ Len(b) = Len(s) - q /\ \A i \in 1 .. Len(s) - q : b[i] = s[q + i]
  BY DEF Behind
<1> HIDE DEF b
<1>2. t \in Seq(B) /\ Len(t) = l /\ \A i \in 1 .. l : t[i] = s[q + i]
  OBVIOUS
<1>3. v \in Seq(B) /\ Len(v) = l /\ \A i \in 1 .. l : v[i] = b[i]
  BY <1>1
<1> HIDE DEF t, v
<1>4. /\ t \in Seq(B) /\ v \in Seq(B) /\ Len(t) = l /\ Len(v) = l
      /\ \A i \in 1 .. l : t[i] = v[i]
  BY <1>1, <1>2, <1>3
<1>5. t = v
  BY ONLY <1>4
<1> QED
  BY <1>5 DEF t, v, b

\* The next sequence comes first in what is left, joined.
LEMMA FlattenBehind ==
    ASSUME NEW B, NEW ss \in Seq(Seq(B)), NEW j \in Nat, j < Len(ss)
    PROVE  FlattenSeq(Behind(ss, j)) = ss[j + 1] \o FlattenSeq(Behind(ss, j + 1))
<1>1. j + 1 \in 1 .. Len(ss) /\ j + 1 \in 0 .. Len(ss)
  OBVIOUS
<1>2. ss[j + 1] \in Seq(B)
  BY <1>1, ElementIn
<1>3. Behind(ss, j + 1) \in Seq(Seq(B))
  BY <1>1, BehindType, Zenon
<1>4. Behind(ss, j) = <<ss[j + 1]>> \o Behind(ss, j + 1)
  BY BehindStep, Zenon
<1> QED
  BY <1>2, <1>3, <1>4, FlattenCons, Zenon

\* d is a beginning of b.
Begins(d, b) == Len(d) <= Len(b) /\ \A i \in 1 .. Len(d) : d[i] = b[i]

\* Taking k elements off both leaves a beginning of what is left.
LEMMA BeginsBehind ==
    ASSUME NEW B, NEW d \in Seq(B), NEW a \in Seq(B), NEW b \in Seq(B),
           Begins(d, a \o b), NEW k \in Nat, k <= Len(a), k <= Len(d)
    PROVE  /\ Begins(Behind(d, k), Behind(a, k) \o b)
           /\ Len(d) = Len(a \o b) => Len(Behind(d, k)) = Len(Behind(a, k) \o b)
<1> DEFINE n == Len(d)
           m == Len(a)
           c == a \o b
           e == Behind(d, k)
           f == Behind(a, k)
           g == f \o b
<1>1. n \in Nat /\ m \in Nat /\ Len(b) \in Nat
  OBVIOUS
<1>2. c \in Seq(B) /\ Len(c) = m + Len(b)
      /\ \A i \in 1 .. Len(c) : c[i] = IF i <= m THEN a[i] ELSE b[i - m]
  BY ConcatProperties
<1>3. e \in Seq(B) /\ Len(e) = n - k /\ \A i \in 1 .. n - k : e[i] = d[k + i]
  BY DEF Behind
<1>4. f \in Seq(B) /\ Len(f) = m - k /\ \A i \in 1 .. m - k : f[i] = a[k + i]
  BY DEF Behind
<1> HIDE DEF e, f
<1>5. g \in Seq(B) /\ Len(g) = (m - k) + Len(b)
      /\ \A i \in 1 .. Len(g) : g[i] = IF i <= m - k THEN f[i] ELSE b[i - (m - k)]
  BY <1>1, <1>4, ConcatProperties
<1>6. n <= m + Len(b) /\ \A i \in 1 .. n : d[i] = c[i]
  BY <1>2 DEF Begins
<1> HIDE DEF c, g, n, m
<1>7. ASSUME NEW i \in 1 .. n - k PROVE e[i] = g[i]
  <2> DEFINE ki == k + i
  <2>0. ki \in 1 .. n /\ ki = k + i
    BY <1>1
  <2> HIDE DEF ki
  <2>1. e[i] = d[ki] /\ d[ki] = c[ki]
    BY <1>3, <1>6, <2>0, Zenon
  <2>2. c[ki] = IF ki <= m THEN a[ki] ELSE b[ki - m]
    BY <1>1, <1>2, <1>6, <2>0
  <2>3. g[i] = IF i <= m - k THEN f[i] ELSE b[i - (m - k)]
    BY <1>1, <1>5, <1>6
  <2>4. CASE i <= m - k
    <3>1. f[i] = a[ki]
      BY <1>4, <2>0, <2>4
    <3>2. ki <= m
      BY <1>1, <2>0, <2>4
    <3> QED
      BY <2>1, <2>2, <2>3, <2>4, <3>1, <3>2, Zenon
  <2>5. CASE ~(i <= m - k)
    <3>1. i - (m - k) = ki - m /\ ~(ki <= m)
      BY <1>1, <2>0, <2>5
    <3> QED
      BY <2>1, <2>2, <2>3, <2>5, <3>1, Zenon
  <2> QED
    BY <2>4, <2>5
<1>8. Begins(e, g)
  <2>1. n - k <= (m - k) + Len(b)
    BY <1>1, <1>6
  <2> QED
    BY <1>3, <1>5, <1>7, <2>1 DEF Begins
<1>9. n = Len(c) => Len(e) = Len(g)
  BY <1>1, <1>2, <1>3, <1>5
<1> QED
  BY <1>8, <1>9 DEF c, e, f, g, n

\* The elements taken off are the same.
LEMMA BeginsSame ==
    ASSUME NEW B, NEW d \in Seq(B), NEW a \in Seq(B), NEW b \in Seq(B),
           Begins(d, a \o b), NEW k \in Nat, k <= Len(a), k <= Len(d)
    PROVE  SubSeq(d, 1, k) = SubSeq(a, 1, k)
<1> DEFINE n == Len(d)
           m == Len(a)
           c == a \o b
<1>1. n \in Nat /\ m \in Nat /\ Len(b) \in Nat
  OBVIOUS
<1>2. Len(c) = m + Len(b)
      /\ \A i \in 1 .. Len(c) : c[i] = IF i <= m THEN a[i] ELSE b[i - m]
  BY ConcatProperties
<1>3. \A i \in 1 .. n : d[i] = c[i]
  BY DEF Begins
<1> HIDE DEF c, n, m
<1>4. ASSUME NEW i \in 1 .. k PROVE d[i] = a[i]
  <2>1. i \in 1 .. n /\ i \in 1 .. m + Len(b) /\ i <= m
    BY <1>1 DEF n, m
  <2> QED
    BY <1>2, <1>3, <2>1, Zenon
<1> QED
  BY <1>4

\* A beginning of a beginning is a beginning.
LEMMA BeginsCut ==
    ASSUME NEW B, NEW d \in Seq(B), NEW b \in Seq(B), Begins(d, b), NEW k \in 0 .. Len(d)
    PROVE  SubSeq(d, 1, k) \in Seq(B) /\ Begins(SubSeq(d, 1, k), b)
  BY DEF Begins

\* Everything behind the first k elements, after those, is the whole sequence.
LEMMA Divided ==
    ASSUME NEW B, NEW s \in Seq(B), NEW k \in Nat, k <= Len(s)
    PROVE  s = SubSeq(s, 1, k) \o Behind(s, k)
<1> DEFINE n == Len(s)
           a == SubSeq(s, 1, k)
           b == Behind(s, k)
           c == a \o b
<1>1. n \in Nat /\ k <= n /\ s \in Seq(B)
  OBVIOUS
<1>2. a \in Seq(B) /\ Len(a) = k /\ \A i \in 1 .. k : a[i] = s[i]
  OBVIOUS
<1>3. b \in Seq(B) /\ Len(b) = n - k /\ \A i \in 1 .. n - k : b[i] = s[k + i]
  BY DEF Behind
<1> HIDE DEF a, b
<1>4. c \in Seq(B) /\ Len(c) = k + (n - k)
      /\ \A i \in 1 .. Len(c) : c[i] = IF i <= k THEN a[i] ELSE b[i - k]
  <2>1. /\ c \in Seq(B) /\ Len(c) = Len(a) + Len(b)
        /\ \A i \in 1 .. Len(c) : c[i] = IF i <= Len(a) THEN a[i] ELSE b[i - Len(a)]
    <3>1. a \in Seq(B) /\ b \in Seq(B)
      BY <1>2, <1>3
    <3> QED
      BY ONLY <3>1
  <2> HIDE DEF c, n
  <2> QED
    BY ONLY <1>2, <1>3, <2>1, Zenon
<1> HIDE DEF c, n
<1>5. Len(c) = n
  BY ONLY <1>1, <1>4, k \in Nat
<1>6. ASSUME NEW i \in 1 .. n PROVE c[i] = s[i]
  <2>1. c[i] = IF i <= k THEN a[i] ELSE b[i - k]
    BY <1>4, <1>5, Zenon
  <2>2. CASE i <= k
    <3>1. i \in 1 .. k
      BY <1>1, <2>2
    <3> QED
      BY <1>2, <2>1, <2>2, <3>1, Zenon
  <2>3. CASE ~(i <= k)
    <3>1. i - k \in 1 .. n - k /\ k + (i - k) = i
      BY <1>1, <2>3
    <3>2. b[i - k] = s[k + (i - k)]
      BY <1>3, <3>1, Zenon
    <3> QED
      BY <2>1, <2>3, <3>1, <3>2, Zenon
  <2> QED
    BY <2>2, <2>3
<1>7. c = [i \in 1 .. n |-> c[i]] /\ s = [i \in 1 .. n |-> s[i]]
  <2>1. Len(s) = n
    BY DEF n
  <2> QED
    BY ONLY <1>1, <1>4, <1>5, <2>1
<1> QED
  BY <1>6, <1>7, Zenon DEF c, a, b

\* One element more at the end of a listing.
LEMMA Longer ==
    ASSUME NEW B, NEW k \in Nat, NEW g, \A i \in 1 .. k + 1 : g[i] \in B
    PROVE  [i \in 1 .. k |-> g[i]] \o <<g[k + 1]>> = [i \in 1 .. k + 1 |-> g[i]]
<1> DEFINE p == [i \in 1 .. k |-> g[i]]
           q == [i \in 1 .. k + 1 |-> g[i]]
           x == g[k + 1]
<1>1. p \in Seq(B) /\ Len(p) = k /\ x \in B
  OBVIOUS
<1>2. p \o <<x>> = [i \in 1 .. k + 1 |-> IF i <= k THEN p[i] ELSE x]
  <2> HIDE DEF p, x
  <2> QED
    BY <1>1
<1>3. \A i \in 1 .. k + 1 : (IF i <= k THEN p[i] ELSE x) = g[i]
  OBVIOUS
<1> QED
  BY <1>2, <1>3, Zenon

\* Joining sequences of one element each puts their elements side by side.
LEMMA FlattenSingles ==
    ASSUME NEW B, NEW ss \in Seq(Seq(B)), \A i \in 1 .. Len(ss) : Len(ss[i]) = 1
    PROVE  FlattenSeq(ss) = [i \in 1 .. Len(ss) |-> ss[i][1]]
<1>1. CASE ss = <<>>
  <2>1. FlattenSeq(ss) = <<>>
    BY <1>1, FlattenEmpty, Zenon
  <2>2. <<>> = [i \in 1 .. Len(ss) |-> ss[i][1]]
    BY <1>1
  <2> QED
    BY <2>1, <2>2, Zenon
<1>2. CASE ss # <<>>
  <2> DEFINE m == Len(ss)
  <2>1. m \in Nat /\ m # 0
    BY <1>2
  <2>2. \A i \in 1 .. m : ss[i] = <<ss[i][1]>> /\ ss[i][1] \in B
    OBVIOUS
  <2>3. PICK f : Joined(ss, m, f) /\ FlattenSeq(ss) = f[m]
    BY <2>1, FlattenIsJoined
  <2> HIDE DEF m
  <2>4. \A i \in 1 .. m : f[i] = IF i = 1 THEN ss[i] ELSE f[i - 1] \o ss[i]
    BY <2>3 DEF Joined
  <2> DEFINE Firsts(k) == [i \in 1 .. k |-> ss[i][1]]
             S == {k \in Nat : k \in 1 .. m => f[k] = Firsts(k)}
  <2>5. 0 \in S
    OBVIOUS
  <2>6. ASSUME NEW k \in S PROVE k + 1 \in S
    <3> SUFFICES ASSUME k + 1 \in 1 .. m PROVE f[k + 1] = Firsts(k + 1)
      OBVIOUS
    <3>1. CASE k = 0
      <4>1. f[1] = ss[1] /\ ss[1] = <<ss[1][1]>>
        BY <2>2, <2>4, <3>1
      <4>2. Firsts(1) = <<ss[1][1]>>
        OBVIOUS
      <4>3. k + 1 = 1
        BY <3>1
      <4> QED
        BY <4>1, <4>2, <4>3, Zenon
    <3>2. CASE k # 0
      <4>1. k \in 1 .. m /\ k + 1 # 1 /\ (k + 1) - 1 = k /\ k \in Nat
        BY <2>1, <3>2
      <4>2. f[k] = Firsts(k)
        BY <4>1, Zenon
      <4>3. f[k + 1] = f[k] \o ss[k + 1] /\ ss[k + 1] = <<ss[k + 1][1]>>
        BY <2>2, <2>4, <4>1
      <4>4. Firsts(k) \o <<ss[k + 1][1]>> = Firsts(k + 1)
        <5> DEFINE g == [i \in 1 .. m |-> ss[i][1]]
        <5>1. \A i \in 1 .. k + 1 : i \in 1 .. m /\ g[i] = ss[i][1]
          BY <2>1, <4>1
        <5>2. \A i \in 1 .. k + 1 : g[i] \in B
          BY <2>2, <5>1, Zenon
        <5>3. Firsts(k) = [i \in 1 .. k |-> g[i]] /\ Firsts(k + 1) = [i \in 1 .. k + 1 |-> g[i]]
              /\ g[k + 1] = ss[k + 1][1]
          BY <4>1, <5>1
        <5> HIDE DEF g
        <5>4. [i \in 1 .. k |-> g[i]] \o <<g[k + 1]>> = [i \in 1 .. k + 1 |-> g[i]]
          BY <4>1, <5>2, Longer
        <5> QED
          BY <5>3, <5>4, Zenon
      <4> QED
        BY <4>2, <4>3, <4>4, Zenon
    <3> QED
      BY <3>1, <3>2
  <2>7. S = Nat
    <3> HIDE DEF S
    <3>1. S \in SUBSET Nat
      BY DEF S
    <3> QED
      BY <2>5, <2>6, <3>1, NumbersByInduction
  <2>8. f[m] = Firsts(m)
    <3>1. m \in 1 .. m
      BY <2>1
    <3>2. m \in S
      BY <2>1, <2>7, Zenon
    <3> QED
      BY <3>1, <3>2, Zenon
  <2> QED
    BY <2>3, <2>8, Zenon DEF m
<1> QED
  BY <1>1, <1>2
=============================================================================
