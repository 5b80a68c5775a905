--------------------------- MODULE ApiWriteProofs ---------------------------
(***************************************************************************)
(* writeSentence puts the coding of the sentence on the wire, however send *)
(* divides the words, as long as every character is a single byte: then    *)
(* writeStr's count of the bytes send took is a count of characters.       *)
(* A device that goes through the bytes by the lengths it reads finds the  *)
(* sentence, if no word is too long for its length.                        *)
(*                                                                         *)
(* The invariant: what is on the wire, and the rest of the word being      *)
(* written and of the words behind it, is the coding of the sentence.      *)
(***************************************************************************)
EXTENDS ApiWrite, LengthCodecProofs

\* What goes over the wire.
Bytes == Seq(Byte)

\* ASCII text: a character is one byte.
SingleBytes ==
    \A s \in Sentences : \A i \in 1 .. Len(s) : \A j \in 1 .. Len(s[i]) : Len(s[i][j]) = 1

\* A word of such characters, and its bytes.
IsWord(w) == w \in Seq(Bytes) /\ \A j \in 1 .. Len(w) : Len(w[j]) = 1

\* The bytes of such a word are its characters, as many as the word has.
LEMMA WordBytes ==
    ASSUME NEW w, IsWord(w)
    PROVE  /\ Utf8(w) = [j \in 1 .. Len(w) |-> w[j][1]]
           /\ Utf8(w) \in Bytes /\ Len(Utf8(w)) = Len(w) /\ Len(w) \in Nat
<1>1. w \in Seq(Seq(Byte)) /\ \A j \in 1 .. Len(w) : Len(w[j]) = 1
  BY DEF IsWord, Bytes
<1>2. Utf8(w) = [j \in 1 .. Len(w) |-> w[j][1]]
  BY <1>1, FlattenSingles DEF Utf8
<1>3. \A j \in 1 .. Len(w) : w[j][1] \in Byte
  BY <1>1
<1>4. Len(w) \in Nat
  BY <1>1
<1> DEFINE m == Len(w)
           u == [j \in 1 .. m |-> w[j][1]]
<1>5. u \in Seq(Byte) /\ Len(u) = m
  <2> HIDE DEF m
  <2>1. m \in Nat /\ \A j \in 1 .. m : w[j][1] \in Byte
    BY <1>3, <1>4 DEF m
  <2> QED
    BY <2>1
<1> QED
  BY <1>2, <1>4, <1>5, Zenon DEF Bytes

\* The words one after the other, the empty word at the end.
Word(s, i) == IF i > Len(s) THEN <<>> ELSE s[i]
Codes(s) == [i \in 1 .. Len(s) + 1 |-> WriteLen(Len(Word(s, i))) \o Utf8(Word(s, i))]

\* A sentence of such words.
IsSentence(s) == s \in Seq(Seq(Bytes)) /\ \A i \in 1 .. Len(s) : IsWord(s[i])

\* The empty word that ends a sentence is one.
LEMMA EmptyWord == IsWord(<<>>) /\ Utf8(<<>>) = <<>>
  BY FlattenEmpty DEF IsWord, Utf8

\* Every word of a sentence is one, the final empty word too.
LEMMA WordIsWord ==
    ASSUME NEW s, IsSentence(s), NEW i \in 1 .. Len(s) + 1
    PROVE  IsWord(Word(s, i))
<1>1. Len(s) \in Nat
  BY DEF IsSentence
<1>2. CASE i > Len(s)
  BY <1>2, EmptyWord DEF Word
<1>3. CASE ~(i > Len(s))
  <2>1. i \in 1 .. Len(s)
    BY <1>1, <1>3
  <2> QED
    BY <1>3, <2>1 DEF Word, IsSentence
<1> QED
  BY <1>2, <1>3

\* The codes of a sentence are byte sequences, one more than it has words.
LEMMA CodesType ==
    ASSUME NEW s, IsSentence(s)
    PROVE  /\ Codes(s) \in Seq(Bytes) /\ Len(Codes(s)) = Len(s) + 1 /\ Len(s) \in Nat
<1>1. Len(s) \in Nat
  BY DEF IsSentence
<1> DEFINE m == Len(s) + 1
           Code(i) == WriteLen(Len(Word(s, i))) \o Utf8(Word(s, i))
<1>2. ASSUME NEW i \in 1 .. m PROVE Code(i) \in Bytes
  <2>1. Utf8(Word(s, i)) \in Bytes /\ Len(Word(s, i)) \in Nat
    BY <1>2, WordIsWord, WordBytes
  <2>2. WriteLen(Len(Word(s, i))) \in Bytes
    BY <2>1, CodeType DEF Bytes
  <2> QED
    BY ONLY <2>1, <2>2 DEF Bytes
<1>3. m \in Nat
  BY <1>1
<1> DEFINE f == [i \in 1 .. m |-> Code(i)]
<1>4. f \in Seq(Bytes) /\ Len(f) = m
  <2> HIDE DEF m, Code
  <2> QED
    BY ONLY <1>2, <1>3
<1> QED
  BY <1>1, <1>4 DEF Codes

\* The coding of the sentence is its codes, joined.
LEMMA OnWireIsCodes ==
    ASSUME NEW s, IsSentence(s)
    PROVE  OnWire(s) = FlattenSeq(Codes(s)) /\ OnWire(s) \in Bytes
<1>1. Codes(s) \in Seq(Bytes) /\ Len(Codes(s)) = Len(s) + 1 /\ Len(s) \in Nat
  BY CodesType
<1> DEFINE f == [i \in DOMAIN s |-> WordOnWire(s[i])]
           g == Codes(s)
           m == Len(s)
<1>2. DOMAIN s = 1 .. m
  BY DEF IsSentence
<1>3. \A i \in 1 .. m : f[i] = g[i]
  <2> SUFFICES ASSUME NEW i \in 1 .. m PROVE f[i] = g[i]
    OBVIOUS
  <2>1. ~(i > m) /\ i \in 1 .. m + 1
    BY <1>1
  <2>2. Utf8(s[i]) \in Bytes /\ Len(Utf8(s[i])) = Len(s[i])
    BY WordBytes DEF IsSentence
  <2>3. f[i] = WordOnWire(s[i])
    BY <1>2
  <2>4. g[i] = WriteLen(Len(s[i])) \o Utf8(s[i])
    BY <2>1 DEF Codes, Word
  <2> QED
    BY <2>2, <2>3, <2>4, Zenon DEF WordOnWire
<1>4. g[m + 1] = WriteLen(0)
  <2>1. m + 1 \in 1 .. m + 1 /\ m + 1 > m
    BY <1>1
  <2>2. g[m + 1] = WriteLen(Len(<<>>)) \o Utf8(<<>>)
    BY <2>1 DEF Codes, Word
  <2>3. WriteLen(0) \in Bytes
    BY CodeType DEF Bytes
  <2>4. WriteLen(0) \o <<>> = WriteLen(0) /\ Len(<<>>) = 0
    BY <2>3 DEF Bytes
  <2> QED
    BY <2>2, <2>4, EmptyWord, Zenon
<1>5. f \in Seq(Bytes) /\ Len(f) = m
  <2>1. \A i \in 1 .. m : g[i] \in Bytes
    BY <1>1
  <2>2. \A i \in 1 .. m : f[i] \in Bytes
    BY <1>3, <2>1, Zenon
  <2>3. f = [i \in 1 .. m |-> f[i]] /\ m \in Nat
    BY <1>1, <1>2
  <2> HIDE DEF f, m
  <2> QED
    BY ONLY <2>2, <2>3
<1> HIDE DEF f, g
<1>6. FlattenSeq(g) = FlattenSeq(f) \o WriteLen(0)
  <2>1. WriteLen(0) \in Seq(Byte)
    BY CodeType
  <2>2. f \in Seq(Seq(Byte))
    BY <1>5 DEF Bytes
  <2>3. Agree(f, g, m)
    BY <1>3 DEF Agree
  <2> DEFINE k == m + 1
  <2>4. k \in Nat /\ k = Len(g) /\ g[k] = WriteLen(0) /\ m \in Nat /\ m = Len(f)
    BY <1>1, <1>4, <1>5 DEF g
  <2>5. k = m + 1
    OBVIOUS
  <2> HIDE DEF k, m
  <2> QED
    BY <2>1, <2>2, <2>3, <2>4, <2>5, FlattenLonger
<1>7. OnWire(s) = FlattenSeq(f) \o WriteLen(0)
  BY DEF OnWire, f
<1>8. FlattenSeq(g) \in Bytes
  BY <1>1, FlattenType DEF Bytes, g
<1> QED
  BY <1>6, <1>7, <1>8, Zenon DEF g
-----------------------------------------------------------------------------
\* What is left of the sentence behind the word being written, and the rest of its bytes.
LaterWords == FlattenSeq(Behind(Codes(words), next))
Unsent == Behind(Utf8(ThisWord), n)

\* The counter never passes the word and the index never passes the final ''.
TypeOK ==
    /\ words \in Sentences
    /\ next \in 1 .. Len(words) + 1
    /\ n \in 0 .. Len(ThisWord)
    /\ state \in {"length", "text", "done", "raised"}
    /\ wire \in Bytes

\* Before a length the codes of this and the later words are to come,
AtLength ==
    state = "length" => wire \o FlattenSeq(Behind(Codes(words), next - 1)) = OnWire(words)

\* in a word the bytes that send has not taken and the later words,
InText == state = "text" => wire \o (Unsent \o LaterWords) = OnWire(words)

\* and nothing when writeSentence has returned.
AtEnd == state = "done" => wire = OnWire(words)

\* Wherever a broken connection ends it, a beginning is on the wire.
Beginning == \E rest \in Bytes : wire \o rest = OnWire(words)

\* The inductive invariant.
WInv == TypeOK /\ AtLength /\ InText /\ AtEnd /\ Beginning

\* What writeSentence is given is a sentence of such words.
LEMMA SentencesAreSentences ==
    ASSUME SingleBytes PROVE \A s \in Sentences : IsSentence(s)
<1> SUFFICES ASSUME NEW s \in Sentences PROVE IsSentence(s)
  OBVIOUS
<1>1. s \in Seq(Seq(Bytes \ {<<>>}))
  BY SentencesAssumption DEF Bytes
<1>2. s \in Seq(Seq(Bytes))
  BY <1>1
<1>3. ASSUME NEW i \in 1 .. Len(s) PROVE IsWord(s[i])
  <2>1. s[i] \in Seq(Bytes)
    BY <1>2
  <2>2. \A j \in 1 .. Len(s[i]) : Len(s[i][j]) = 1
    BY DEF SingleBytes
  <2> QED
    BY <2>1, <2>2 DEF IsWord
<1> QED
  BY <1>2, <1>3 DEF IsSentence

\* The word being written, its bytes, and the codes still to come.
LEMMA ThisWordHere ==
    ASSUME SingleBytes, TypeOK
    PROVE  /\ IsSentence(words) /\ Len(words) \in Nat /\ ThisWord = Word(words, next)
           /\ IsWord(ThisWord) /\ Utf8(ThisWord) \in Bytes
           /\ Len(Utf8(ThisWord)) = Len(ThisWord) /\ Len(ThisWord) \in Nat
           /\ WriteLen(Len(ThisWord)) \in Bytes /\ LaterWords \in Bytes
           /\ FlattenSeq(Behind(Codes(words), next - 1))
                = (WriteLen(Len(ThisWord)) \o Utf8(ThisWord)) \o LaterWords
<1>1. IsSentence(words) /\ next \in 1 .. Len(words) + 1
  BY SentencesAreSentences DEF TypeOK
<1>2. ThisWord = Word(words, next)
  BY DEF ThisWord, Word
<1>3. IsWord(ThisWord)
  BY <1>1, <1>2, WordIsWord
<1>4. Utf8(ThisWord) \in Bytes /\ Len(Utf8(ThisWord)) = Len(ThisWord) /\ Len(ThisWord) \in Nat
  BY <1>3, WordBytes
<1>5. WriteLen(Len(ThisWord)) \in Bytes
  BY <1>4, CodeType DEF Bytes
<1>6. Codes(words) \in Seq(Bytes) /\ Len(Codes(words)) = Len(words) + 1 /\ Len(words) \in Nat
  BY <1>1, CodesType
<1>7. Codes(words)[next] = WriteLen(Len(ThisWord)) \o Utf8(ThisWord)
  BY <1>1, <1>2 DEF Codes
<1> DEFINE k == next - 1
<1>8. k \in Nat /\ k < Len(Codes(words)) /\ k + 1 = next /\ next \in 0 .. Len(Codes(words))
  BY <1>1, <1>6
<1> HIDE DEF k
<1>9. FlattenSeq(Behind(Codes(words), k))
        = Codes(words)[k + 1] \o FlattenSeq(Behind(Codes(words), k + 1))
  BY <1>6, <1>8, FlattenBehind DEF Bytes
<1>10. LaterWords \in Bytes
  <2>1. Behind(Codes(words), next) \in Seq(Bytes)
    BY <1>6, <1>8, BehindType, Zenon
  <2> QED
    BY <2>1, FlattenType DEF LaterWords, Bytes
<1>11. FlattenSeq(Behind(Codes(words), k))
         = (WriteLen(Len(ThisWord)) \o Utf8(ThisWord)) \o LaterWords
  BY <1>7, <1>8, <1>9, Zenon DEF LaterWords
<1> QED
  BY <1>1, <1>2, <1>3, <1>4, <1>5, <1>6, <1>10, <1>11, Zenon DEF k

\* Byte sequences joined in either order are the same.
LEMMA ThreeJoined ==
    ASSUME NEW a \in Bytes, NEW b \in Bytes, NEW d \in Bytes
    PROVE  (a \o b) \o d = a \o (b \o d) /\ a \o b \in Bytes
  BY DEF Bytes

\* Before the first length the whole coding is to come.
LEMMA WInvInit == ASSUME SingleBytes, Init PROVE WInv
<1>1. IsSentence(words)
  BY SentencesAreSentences DEF Init
<1>2. /\ Codes(words) \in Seq(Bytes) /\ Len(words) \in Nat
      /\ OnWire(words) = FlattenSeq(Codes(words)) /\ OnWire(words) \in Bytes
  BY <1>1, CodesType, OnWireIsCodes
<1>3. next = 1 /\ n = 0 /\ state = "length" /\ wire = <<>> /\ words \in Sentences
  BY DEF Init
<1>4. IsWord(ThisWord)
  BY <1>1, <1>2, <1>3, WordIsWord DEF ThisWord, Word
<1>5. Len(ThisWord) \in Nat
  BY <1>4 DEF IsWord
<1>6. TypeOK
  BY <1>2, <1>3, <1>5 DEF TypeOK, Bytes
<1>7. wire \o OnWire(words) = OnWire(words)
  BY <1>2, <1>3 DEF Bytes
<1>8. Behind(Codes(words), next - 1) = Codes(words)
  BY <1>2, <1>3, BehindStart
<1> QED
  BY <1>2, <1>3, <1>6, <1>7, <1>8 DEF WInv, AtLength, InText, AtEnd, Beginning

\* WriteLength moves the length from what is to come onto the wire.
LEMMA LengthStep == ASSUME SingleBytes, WInv, WriteLength PROVE WInv'
<1> DEFINE a == WriteLen(Len(ThisWord))
           u == Utf8(ThisWord)
           e == LaterWords
<1>1. TypeOK /\ AtLength
  BY DEF WInv
<1>2. /\ Len(ThisWord) \in Nat /\ a \in Bytes /\ u \in Bytes /\ e \in Bytes
      /\ FlattenSeq(Behind(Codes(words), next - 1)) = (a \o u) \o e
  BY <1>1, ThisWordHere
<1>3. /\ state = "length" /\ wire' = wire \o a /\ n' = 0 /\ state' = "text"
      /\ words' = words /\ next' = next
  BY DEF WriteLength
<1>4. wire \in Bytes
  BY <1>1 DEF TypeOK
<1>5. wire \o ((a \o u) \o e) = OnWire(words)
  BY <1>1, <1>2, <1>3, Zenon DEF AtLength
<1>6. ThisWord' = ThisWord /\ LaterWords' = LaterWords
  BY <1>3 DEF ThisWord, LaterWords
<1>7. Unsent' = u
  BY <1>2, <1>3, <1>6, BehindStart DEF Unsent, Bytes
<1> HIDE DEF a, u, e
<1>8. (wire \o a) \o (u \o e) = wire \o ((a \o u) \o e)
  <2>0. a \in Bytes /\ u \in Bytes /\ e \in Bytes /\ wire \in Bytes
    BY <1>2, <1>4
  <2>1. (a \o u) \o e = a \o (u \o e) /\ u \o e \in Bytes
    BY ONLY <2>0 DEF Bytes
  <2> DEFINE r == u \o e
  <2>2. r \in Bytes
    BY <2>1
  <2> HIDE DEF r
  <2>3. (wire \o a) \o r = wire \o (a \o r)
    <3>1. wire \in Seq(Byte) /\ a \in Seq(Byte) /\ r \in Seq(Byte)
      BY <2>0, <2>2 DEF Bytes
    <3> QED
      BY ONLY <3>1, SMTT(20)
  <2> QED
    BY <2>1, <2>3, Zenon DEF r
<1>9. wire' \in Bytes /\ u \o e \in Bytes
  BY <1>2, <1>3, <1>4, ThreeJoined
<1>10. TypeOK'
  BY <1>1, <1>2, <1>3, <1>6, <1>9 DEF TypeOK
<1>11. wire' \o (u \o e) = OnWire(words')
  BY <1>3, <1>5, <1>8, Zenon
<1>12. InText'
  BY <1>6, <1>7, <1>11, Zenon DEF InText, e
<1>13. Beginning'
  BY <1>9, <1>11 DEF Beginning
<1> QED
  BY <1>3, <1>10, <1>12, <1>13 DEF WInv, AtLength, AtEnd

\* The bytes of the rest of a word are the rest of its bytes.
LEMMA RestOfWord ==
    ASSUME NEW w, IsWord(w), NEW k \in 0 .. Len(w)
    PROVE  Utf8(SubSeq(w, k + 1, Len(w))) = Behind(Utf8(w), k)
<1> DEFINE r == SubSeq(w, k + 1, Len(w))
           m == Len(w)
<1>1. w \in Seq(Bytes) /\ m \in Nat
  BY DEF IsWord
<1>2. r \in Seq(Bytes) /\ Len(r) = m - k /\ \A j \in 1 .. m - k : r[j] = w[k + j]
  BY <1>1
<1> HIDE DEF r
<1>3. ASSUME NEW j \in 1 .. m - k PROVE k + j \in 1 .. m /\ Len(r[j]) = 1
  <2>1. k + j \in 1 .. m
    BY <1>1
  <2> QED
    BY <1>2, <2>1 DEF IsWord
<1>4. IsWord(r)
  BY <1>2, <1>3 DEF IsWord
<1>5. Utf8(r) = [j \in 1 .. m - k |-> r[j][1]]
  BY <1>2, <1>4, WordBytes
<1>6. Utf8(w) = [j \in 1 .. m |-> w[j][1]] /\ Utf8(w) \in Bytes /\ Len(Utf8(w)) = m
  BY WordBytes
<1> DEFINE u == Utf8(w)
<1>7. Behind(u, k) = [j \in 1 .. m - k |-> u[k + j]]
  <2> HIDE DEF u, m
  <2>1. u \in Seq(Byte) /\ Len(u) = m
    BY <1>6 DEF u, Bytes
  <2> QED
    BY <1>1, <2>1 DEF Behind, m
<1>8. \A j \in 1 .. m - k : u[k + j] = r[j][1]
  BY <1>2, <1>3, <1>6
<1> QED
  BY <1>5, <1>7, <1>8, Zenon DEF r

\* SendPiece moves the piece that send took, as n counts single bytes.
LEMMA PieceStep == ASSUME SingleBytes, WInv, SendPiece PROVE WInv'
<1> DEFINE u == Utf8(ThisWord)
           r == Behind(u, n)
           e == LaterWords
<1>1. TypeOK /\ InText
  BY DEF WInv
<1>2. /\ IsWord(ThisWord) /\ Len(ThisWord) \in Nat /\ u \in Bytes /\ Len(u) = Len(ThisWord)
      /\ e \in Bytes
  BY <1>1, ThisWordHere
<1>3. state = "text" /\ UNCHANGED <<words, next, state>> /\ n < Len(ThisWord)
  BY DEF SendPiece
<1>4. wire \in Bytes /\ n \in 0 .. Len(ThisWord)
  BY <1>1 DEF TypeOK
<1>5. Utf8(SubSeq(ThisWord, n + 1, Len(ThisWord))) = r
  BY <1>2, <1>4, RestOfWord
<1>6. r \in Bytes /\ Len(r) = Len(ThisWord) - n
  BY <1>2, <1>4, BehindType DEF Bytes
<1> HIDE DEF r
<1>7. PICK k \in 1 .. Len(r) : wire' = wire \o SubSeq(r, 1, k) /\ n' = n + k
  BY <1>5 DEF SendPiece
<1> DEFINE a == SubSeq(r, 1, k)
           b == Behind(r, k)
<1>8. k \in Nat /\ k <= Len(r) /\ n \in Nat /\ n + k \in 0 .. Len(ThisWord)
  BY <1>2, <1>4, <1>6
<1>9. a \in Bytes /\ b \in Bytes /\ r = a \o b
  <2>1. a \in Bytes /\ b \in Bytes
    BY <1>6, <1>8 DEF Bytes, Behind
  <2>2. r = SubSeq(r, 1, k) \o Behind(r, k)
    BY <1>6, <1>8, Divided DEF Bytes
  <2> QED
    BY <2>1, <2>2
<1>10. b = Behind(u, n + k)
  <2>1. n + k <= Len(u)
    BY <1>2, <1>8
  <2> QED
    BY <1>2, <1>8, <2>1, BehindBehind DEF r, Bytes
<1>11. ThisWord' = ThisWord /\ LaterWords' = e
  BY <1>3 DEF ThisWord, LaterWords
<1>12. Unsent' = b
  BY <1>7, <1>10, <1>11, Zenon DEF Unsent
<1>13. wire \o (r \o e) = OnWire(words)
  BY <1>1, <1>3 DEF InText, Unsent, r
<1> HIDE DEF a, b, e, u
<1>14. (wire \o a) \o (b \o e) = wire \o ((a \o b) \o e)
  <2>0. a \in Bytes /\ b \in Bytes /\ e \in Bytes /\ wire \in Bytes
    BY <1>2, <1>4, <1>9
  <2>1. (a \o b) \o e = a \o (b \o e) /\ b \o e \in Bytes
    BY ONLY <2>0 DEF Bytes
  <2> DEFINE t == b \o e
  <2>2. t \in Bytes
    BY <2>1
  <2> HIDE DEF t
  <2>3. (wire \o a) \o t = wire \o (a \o t)
    <3>1. wire \in Seq(Byte) /\ a \in Seq(Byte) /\ t \in Seq(Byte)
      BY <2>0, <2>2 DEF Bytes
    <3> QED
      BY ONLY <3>1, SMTT(20)
  <2> QED
    BY <2>1, <2>3, Zenon DEF t
<1>15. wire' \o (b \o e) = OnWire(words') /\ wire' \in Bytes /\ b \o e \in Bytes
  <2>1. wire' = wire \o a
    BY <1>7 DEF a
  <2>2. wire' \o (b \o e) = OnWire(words)
    BY <1>9, <1>13, <1>14, <2>1, Zenon
  <2> QED
    BY <1>2, <1>3, <1>4, <1>9, <2>1, <2>2, ThreeJoined
<1>16. TypeOK'
  BY <1>1, <1>3, <1>7, <1>8, <1>11, <1>15 DEF TypeOK
<1>17. InText'
  BY <1>11, <1>12, <1>15, Zenon DEF InText
<1>18. Beginning'
  BY <1>15 DEF Beginning
<1> QED
  BY <1>3, <1>16, <1>17, <1>18 DEF WInv, AtLength, AtEnd

\* WordWritten leaves nothing of the word behind, and nothing at all at the end.
LEMMA WrittenStep == ASSUME SingleBytes, WInv, WordWritten PROVE WInv'
<1> DEFINE u == Utf8(ThisWord)
           e == LaterWords
<1>1. TypeOK /\ InText /\ Beginning
  BY DEF WInv
<1>2. /\ IsSentence(words) /\ IsWord(ThisWord) /\ Len(ThisWord) \in Nat /\ u \in Bytes
      /\ Len(u) = Len(ThisWord) /\ e \in Bytes /\ Len(words) \in Nat
  BY <1>1, ThisWordHere
<1>3. state = "text" /\ n >= Len(ThisWord) /\ n' = 0 /\ words' = words /\ wire' = wire
  BY DEF WordWritten
<1>4. wire \in Bytes /\ n \in 0 .. Len(ThisWord) /\ next \in 1 .. Len(words) + 1
  BY <1>1 DEF TypeOK
<1>5. n = Len(u)
  BY <1>2, <1>3, <1>4
<1>6. Unsent = <<>>
  BY <1>2, <1>5, BehindEnd DEF Unsent, Bytes
<1>7. wire \o e = OnWire(words)
  <2>1. <<>> \o e = e
    BY <1>2 DEF Bytes
  <2>2. wire \o (Unsent \o e) = OnWire(words)
    BY <1>1, <1>3 DEF InText
  <2> QED
    BY <1>6, <2>1, <2>2, Zenon
<1>8. Beginning'
  BY <1>1, <1>3 DEF Beginning
<1>9. Codes(words) \in Seq(Bytes) /\ Len(Codes(words)) = Len(words) + 1
  BY <1>2, CodesType
<1>10. CASE next > Len(words)
  <2>1. state' = "done" /\ next' = next
    BY <1>10 DEF WordWritten
  <2>2. next = Len(Codes(words))
    BY <1>2, <1>4, <1>9, <1>10
  <2>3. e = <<>>
    BY <1>9, <2>2, BehindEnd, FlattenEmpty, Zenon DEF LaterWords
  <2>4. wire = OnWire(words)
    <3>1. wire \o <<>> = wire
      BY <1>4 DEF Bytes
    <3> QED
      BY <1>7, <2>3, <3>1, Zenon
  <2>5. ThisWord' = ThisWord
    BY <1>3, <2>1 DEF ThisWord
  <2>6. TypeOK'
    BY <1>1, <1>2, <1>3, <2>1, <2>5 DEF TypeOK
  <2> QED
    BY <1>3, <1>8, <2>1, <2>4, <2>6 DEF WInv, AtLength, InText, AtEnd
<1>11. CASE ~(next > Len(words))
  <2>1. state' = "length" /\ next' = next + 1
    BY <1>11 DEF WordWritten
  <2>2. next' \in 1 .. Len(words) + 1 /\ next' - 1 = next
    BY <1>2, <1>4, <1>11, <2>1
  <2>3. IsWord(Word(words, next'))
    BY <1>2, <2>2, WordIsWord
  <2>4. ThisWord' = Word(words, next')
    BY <1>3 DEF ThisWord, Word
  <2>5. Len(ThisWord') \in Nat
    BY <2>3, <2>4 DEF IsWord
  <2>6. TypeOK'
    BY <1>1, <1>3, <2>1, <2>2, <2>5 DEF TypeOK
  <2>7. AtLength'
    BY <1>3, <1>7, <2>2, Zenon DEF AtLength, LaterWords
  <2> QED
    BY <1>8, <2>1, <2>6, <2>7 DEF WInv, InText, AtEnd
<1> QED
  BY <1>10, <1>11

\* No step breaks the invariant; a broken connection changes nothing on the wire.
LEMMA WInvStep == ASSUME SingleBytes, WInv, [Next]_vars PROVE WInv'
<1>1. CASE WriteLength
  BY <1>1, LengthStep
<1>2. CASE SendPiece
  BY <1>2, PieceStep
<1>3. CASE WordWritten
  BY <1>3, WrittenStep
<1>4. CASE SendFails
  <2>1. ThisWord' = ThisWord
    BY <1>4 DEF SendFails, ThisWord
  <2> QED
    BY <1>4, <2>1 DEF SendFails, WInv, TypeOK, AtLength, InText, AtEnd, Beginning
<1>5. CASE UNCHANGED vars
  <2>1. ThisWord' = ThisWord /\ LaterWords' = LaterWords /\ Unsent' = Unsent
    BY <1>5 DEF vars, ThisWord, LaterWords, Unsent
  <2> QED
    BY <1>5, <2>1 DEF vars, WInv, TypeOK, AtLength, InText, AtEnd, Beginning
<1> QED
  BY <1>1, <1>2, <1>3, <1>4, <1>5 DEF Next, Write

\* The invariant holds throughout, for any sentences of single-byte characters.
LEMMA WInvAlways == ASSUME SingleBytes PROVE Spec => []WInv
<1>1. Init => WInv
  BY WInvInit
<1>2. WInv /\ [Next]_vars => WInv'
  BY WInvStep
<1> QED
  BY <1>1, <1>2, PTL DEF Spec

\* However send divides the words, a finished sentence is on the wire as the
\* device expects it, and an unfinished one as a beginning of that
\* (writeSentence, writeWord, writeStr; characters of one byte each).
THEOREM DeviceGetsSentence == ASSUME SingleBytes PROVE Spec => []WellFormed
<1>1. WInv => WellFormed
  <2> SUFFICES ASSUME WInv PROVE WellFormed
    OBVIOUS
  <2>1. PICK rest \in Bytes : wire \o rest = OnWire(words)
    BY DEF WInv, Beginning
  <2>2. wire \in Bytes
    BY DEF WInv, TypeOK
  <2>3. IsPrefix(wire, wire \o rest)
    <3> HIDE <2>1
    <3> QED
      BY <2>2 DEF IsPrefix, Bytes
  <2>4. state = "done" => wire = OnWire(words)
    BY DEF WInv, AtEnd
  <2> QED
    BY <2>1, <2>3, <2>4, Zenon DEF WellFormed
<1> QED
  BY <1>1, WInvAlways, PTL
-----------------------------------------------------------------------------
\* A length can be read back from the code that stands before other bytes.
LEMMA LengthAhead ==
    ASSUME NEW l \in Lengths, NEW r \in Bytes, NEW d, d = WriteLen(l) \o r
    PROVE  1 + MoreBytes(d[1]) = Len(WriteLen(l)) /\ ReadLen(d) = l /\ Len(d) >= 1
<1> DEFINE c == WriteLen(l)
           size == Len(c)
<1>1. c \in Seq(Byte) /\ size \in 1 .. 5
  <2>1. l \in Nat
    BY DEF Lengths
  <2> QED
    BY <2>1, CodeType
<1>2. size = 1 + MoreBytes(c[1]) /\ ReadLen(c) = l
  BY LengthRoundTrip DEF RoundTrip
<1>3. Len(d) >= size /\ \A i \in 1 .. size : d[i] = c[i]
  <2>1. c \in Seq(Byte) /\ r \in Seq(Byte) /\ d = c \o r /\ size = Len(c)
    BY <1>1 DEF Bytes
  <2> HIDE DEF c, size
  <2> QED
    BY ONLY <2>1
<1> HIDE DEF c, size
<1>4. d[1] = c[1] /\ MoreBytes(c[1]) \in 0 .. 4 /\ Len(d) >= 1
  <2>1. 1 \in 1 .. size
    BY ONLY <1>1
  <2>2. MoreBytes(c[1]) \in 0 .. 4
    BY ONLY <1>1 DEF MoreBytes
  <2>3. Len(d) >= 1
    BY <1>1, <1>3
  <2> QED
    BY <1>3, <2>1, <2>2, <2>3
<1>5. \A i \in 1 .. 1 + MoreBytes(c[1]) : d[i] = c[i]
  BY <1>2, <1>3
<1>6. ReadLen(d) = ReadLen(c)
  <2>1. MoreBytes(c[1]) \in {0, 1, 2, 3, 4}
    BY <1>4
  <2>2. d[1] = c[1] /\ \A i \in 1 .. 1 + MoreBytes(c[1]) : d[i] = c[i]
    BY <1>4, <1>5
  <2> QED
    BY ONLY <2>1, <2>2 DEF ReadLen
<1> QED
  BY <1>2, <1>4, <1>6 DEF c, size

\* No word is longer than a length can tell.
ShortWords == \A s \in Sentences : \A i \in 1 .. Len(s) : Len(s[i]) \in Lengths

\* Where the code of the i-th word begins, and what is on the wire from there.
Rest(i) == FlattenSeq(Behind(Codes(words), i - 1))
Position(i) == Len(wire) - Len(Rest(i)) + 1

\* What is written when writeSentence has returned.
Written == SingleBytes /\ ShortWords /\ TypeOK /\ wire = OnWire(words)

\* The rest of the wire is the code of a word, its bytes and the rest behind it.
LEMMA RestOfWire ==
    ASSUME Written, NEW i \in 1 .. Len(words) + 1
    PROVE  LET w == Word(words, i) IN
           /\ Len(words) \in Nat /\ Len(w) \in Lengths /\ Utf8(w) \in Bytes
           /\ Len(Utf8(w)) = Len(w) /\ WriteLen(Len(w)) \in Bytes
           /\ Rest(i) \in Bytes /\ Rest(i + 1) \in Bytes
           /\ Rest(i) = WriteLen(Len(w)) \o (Utf8(w) \o Rest(i + 1))
<1> DEFINE w == Word(words, i)
           c == Codes(words)
<1>1. IsSentence(words) /\ words \in Sentences
  BY SentencesAreSentences DEF Written, TypeOK
<1>2. c \in Seq(Bytes) /\ Len(c) = Len(words) + 1 /\ Len(words) \in Nat
  BY <1>1, CodesType
<1>3. IsWord(w)
  BY <1>1, WordIsWord
<1>4. Utf8(w) \in Bytes /\ Len(Utf8(w)) = Len(w) /\ Len(w) \in Nat
  BY <1>3, WordBytes
<1>5. Len(w) \in Lengths
  <2>1. CASE i > Len(words)
    <3>1. Len(w) = 0
      BY <2>1 DEF Word
    <3> QED
      BY <3>1 DEF Lengths
  <2>2. CASE ~(i > Len(words))
    <3>1. i \in 1 .. Len(words) /\ w = words[i]
      BY <1>2, <2>2 DEF Word
    <3> QED
      BY <1>1, <3>1 DEF Written, ShortWords
  <2> QED
    BY <2>1, <2>2
<1>6. WriteLen(Len(w)) \in Bytes
  BY <1>4, CodeType DEF Bytes
<1> DEFINE k == i - 1
<1>7. k \in Nat /\ k < Len(c) /\ k + 1 = i /\ k \in 0 .. Len(c) /\ k + 1 \in 0 .. Len(c)
  BY <1>2
<1>8. c[i] = WriteLen(Len(w)) \o Utf8(w)
  BY <1>2 DEF Codes
<1> HIDE DEF c, k, w
<1>9. Behind(c, k) \in Seq(Bytes) /\ Behind(c, k + 1) \in Seq(Bytes)
  BY <1>2, <1>7, BehindType, Zenon
<1>10. FlattenSeq(Behind(c, k)) \in Bytes /\ FlattenSeq(Behind(c, k + 1)) \in Bytes
  BY <1>9, FlattenType DEF Bytes
<1>11. FlattenSeq(Behind(c, k)) = c[k + 1] \o FlattenSeq(Behind(c, k + 1))
  BY <1>2, <1>7, FlattenBehind DEF Bytes
<1>12. Rest(i) = FlattenSeq(Behind(c, k))
  BY DEF Rest, c, k
<1>13. Rest(i + 1) = FlattenSeq(Behind(c, k + 1))
  <2>1. (i + 1) - 1 = k + 1
    BY <1>7
  <2> QED
    BY <2>1, Zenon DEF Rest, c
<1>14. Rest(i) = (WriteLen(Len(w)) \o Utf8(w)) \o Rest(i + 1)
  BY <1>7, <1>8, <1>11, <1>12, <1>13, Zenon
<1> DEFINE a == WriteLen(Len(w))
           u == Utf8(w)
           r == Rest(i + 1)
<1>15. a \in Bytes /\ u \in Bytes /\ r \in Bytes
  BY <1>4, <1>6, <1>10, <1>13
<1>16. Rest(i) = (a \o u) \o r
  BY <1>14
<1> HIDE DEF a, u, r
<1>17. (a \o u) \o r = a \o (u \o r)
  <2>1. a \in Seq(Byte) /\ u \in Seq(Byte) /\ r \in Seq(Byte)
    BY <1>15 DEF Bytes
  <2> QED
    BY ONLY <2>1
<1>18. Rest(i) = a \o (u \o r)
  BY <1>16, <1>17, Zenon
<1> QED
  BY <1>2, <1>4, <1>5, <1>6, <1>10, <1>12, <1>13, <1>18, Zenon DEF a, u, r, w

\* The rest is on the wire at its position.
LEMMA RestStands ==
    ASSUME Written
    PROVE  \A i \in 1 .. Len(words) + 2 :
              /\ Position(i) \in Nat /\ Position(i) >= 1
              /\ Behind(wire, Position(i) - 1) = Rest(i)
<1> DEFINE At(i) == /\ Position(i) \in Nat /\ Position(i) >= 1
                    /\ Behind(wire, Position(i) - 1) = Rest(i)
           S == {j \in Nat : j <= Len(words) + 1 => At(j + 1)}
           m == Len(words)
<1>0. m \in Nat /\ wire \in Bytes
  <2>1. 1 \in 1 .. Len(words) + 1 \/ Len(words) \notin Nat
    OBVIOUS
  <2>2. IsSentence(words)
    BY SentencesAreSentences DEF Written, TypeOK
  <2> QED
    BY <2>2 DEF Written, TypeOK, IsSentence
<1>1. 0 \in S
  <2>1. Codes(words) \in Seq(Bytes) /\ OnWire(words) = FlattenSeq(Codes(words))
    <3>1. IsSentence(words)
      BY SentencesAreSentences DEF Written, TypeOK
    <3> QED
      BY <3>1, CodesType, OnWireIsCodes
  <2>2. Behind(Codes(words), 0) = Codes(words)
    BY <2>1, BehindStart, Zenon
  <2>3. Rest(1) = wire
    BY <2>1, <2>2 DEF Rest, Written
  <2>4. Position(1) = 1
    BY <1>0, <2>3 DEF Position, Bytes
  <2>5. Behind(wire, 0) = wire
    BY <1>0, BehindStart, Zenon DEF Bytes
  <2> QED
    BY <2>3, <2>4, <2>5
<1>2. ASSUME NEW j \in S PROVE j + 1 \in S
  <2> SUFFICES ASSUME j + 1 <= m + 1 PROVE At(j + 2)
    BY DEF S
  <2> DEFINE i == j + 1
             w == Word(words, i)
             a == WriteLen(Len(w))
             u == Utf8(w)
             c == a \o u
             r == Rest(i + 1)
             p == Position(i)
  <2>1. i \in 1 .. m + 1 /\ At(i) /\ i + 1 = j + 2
    BY <1>0
  <2>2. a \in Bytes /\ u \in Bytes /\ r \in Bytes /\ Rest(i) = a \o (u \o r)
    BY <2>1, RestOfWire
  <2>3. c \in Seq(Byte) /\ r \in Seq(Byte) /\ Rest(i) = c \o r
    <3>1. a \in Seq(Byte) /\ u \in Seq(Byte) /\ r \in Seq(Byte)
      BY <2>2 DEF Bytes
    <3> HIDE DEF a, u, r
    <3>2. (a \o u) \o r = a \o (u \o r) /\ a \o u \in Seq(Byte)
      BY ONLY <3>1
    <3> QED
      BY <2>2, <3>1, <3>2, Zenon
  <2> HIDE DEF c, r
  <2>4. /\ Behind(Rest(i), Len(c)) = r /\ Len(Rest(i)) = Len(c) + Len(r)
        /\ Len(c) \in Nat /\ Len(r) \in Nat
    <3>1. Behind(c \o r, Len(c)) = r /\ Len(c \o r) = Len(c) + Len(r)
      BY ONLY <2>3, BehindFirst, Zenon
    <3>2. Len(c) \in Nat /\ Len(r) \in Nat
      BY ONLY <2>3
    <3> QED
      BY <2>3, <3>1, <3>2, Zenon
  <2>5. Position(i + 1) = p + Len(c) /\ Len(wire) \in Nat
    BY <1>0, <2>1, <2>4 DEF Position, Bytes, r
  <2>6. Behind(wire, p - 1) = Rest(i) /\ p - 1 \in Nat /\ (p - 1) + Len(c) <= Len(wire)
    BY <1>0, <2>1, <2>4, <2>5 DEF Position, Bytes
  <2>7. Behind(Behind(wire, p - 1), Len(c)) = Behind(wire, (p - 1) + Len(c))
    BY <1>0, <2>4, <2>6, BehindBehind DEF Bytes
  <2>8. Behind(wire, Position(i + 1) - 1) = r
    <3>1. Position(i + 1) - 1 = (p - 1) + Len(c)
      BY <2>1, <2>4, <2>5
    <3> QED
      BY <2>4, <2>6, <2>7, <3>1, Zenon
  <2>9. Position(i + 1) \in Nat /\ Position(i + 1) >= 1
    BY <2>1, <2>4, <2>5
  <2>10. At(i + 1)
    BY <2>8, <2>9 DEF r
  <2> QED
    BY <2>1, <2>10
<1>3. S = Nat
  BY <1>1, <1>2, NumbersByInduction
<1> SUFFICES ASSUME NEW i \in 1 .. m + 2 PROVE At(i)
  OBVIOUS
<1>4. i - 1 \in S /\ i - 1 <= m + 1 /\ (i - 1) + 1 = i
  <2>1. i - 1 \in Nat /\ i - 1 <= m + 1 /\ (i - 1) + 1 = i
    BY <1>0
  <2> QED
    BY <1>3, <2>1, Zenon
<1>5. At((i - 1) + 1)
  BY <1>4
<1> QED
  BY <1>4, <1>5
\* At the position of a word the device reads its length and its bytes, and goes on at
\* the next position.
LEMMA WordReadBack ==
    ASSUME Written, NEW i \in 1 .. Len(words) + 1
    PROVE  LET p == Position(i)
               first == p + LengthBytes(p)
           IN
           /\ From(p) = Rest(i)
           /\ Position(i + 1) = p + LengthBytes(p) + ReadLen(From(p))
           /\ SubSeq(wire, first, first + ReadLen(From(p)) - 1) = Utf8(Word(words, i))
<1> DEFINE w == Word(words, i)
           l == Len(w)
           a == WriteLen(l)
           u == Utf8(w)
           r == Rest(i + 1)
           p == Position(i)
           size == Len(a)
           d == Rest(i)
<1>1. /\ Len(words) \in Nat /\ l \in Lengths /\ u \in Bytes /\ Len(u) = l /\ a \in Bytes
      /\ r \in Bytes /\ d \in Bytes /\ d = a \o (u \o r)
  BY RestOfWire
<1>2. wire \in Bytes
  BY DEF Written, TypeOK
<1>3. p \in Nat /\ p >= 1 /\ Behind(wire, p - 1) = d
  <2>1. i \in 1 .. Len(words) + 2
    BY ONLY <1>1, i \in 1 .. Len(words) + 1
  <2> QED
    BY <2>1, RestStands, Zenon
<1>4. From(p) = d
  <2>1. (p - 1) + 1 = p
    BY <1>3
  <2> QED
    BY <1>3, <2>1, Zenon DEF From, Behind
<1> HIDE DEF p, d, a, u, r, l, w
<1>5. l \in Nat /\ size \in Nat
  BY <1>1 DEF Lengths, Bytes
<1>6. u \o r \in Bytes /\ Len(u \o r) = l + Len(r) /\ Len(r) \in Nat
  <2>1. u \in Seq(Byte) /\ r \in Seq(Byte) /\ Len(u) = l
    BY <1>1 DEF Bytes
  <2> QED
    BY ONLY <2>1 DEF Bytes
<1>7. 1 + MoreBytes(d[1]) = size /\ ReadLen(d) = l /\ Len(d) >= 1
  BY <1>1, <1>6, LengthAhead DEF a
<1>8. wire[p] = d[1]
  <2>1. d = SubSeq(wire, p, Len(wire)) /\ p \in Nat /\ p >= 1 /\ Len(d) >= 1 /\ wire \in Seq(Byte)
    BY <1>2, <1>3, <1>4, <1>7 DEF From, Bytes
  <2> QED
    BY ONLY <2>1
<1>9. LengthBytes(p) = size
  BY <1>7, <1>8, Zenon DEF LengthBytes
<1>10. Behind(d, size) = u \o r /\ Len(d) = size + Len(u \o r) /\ SubSeq(u \o r, 1, l) = u
  <2>1. a \in Seq(Byte) /\ u \o r \in Seq(Byte) /\ u \in Seq(Byte) /\ r \in Seq(Byte)
    BY <1>1, <1>6 DEF Bytes
  <2>2. Behind(a \o (u \o r), Len(a)) = u \o r /\ Len(a \o (u \o r)) = Len(a) + Len(u \o r)
    BY ONLY <2>1, BehindFirst, Zenon
  <2>3. SubSeq(u \o r, 1, Len(u)) = u
    BY ONLY <2>1, BehindFirst, Zenon
  <2> QED
    BY <1>1, <2>2, <2>3, Zenon
<1>11. Len(d) = size + (l + Len(r)) /\ Len(d) = Len(wire) - (p - 1) /\ Len(wire) \in Nat
  <2>1. Len(wire) \in Nat /\ p = Len(wire) - Len(d) + 1 /\ Len(d) \in Nat
    BY <1>1, <1>2 DEF p, d, Position, Bytes
  <2> QED
    BY <1>6, <1>10, <2>1
<1>12. Position(i + 1) = p + size + l
  <2>1. Position(i + 1) = Len(wire) - Len(r) + 1
    BY DEF Position, r
  <2> QED
    BY <1>3, <1>5, <1>6, <1>11, <2>1
<1> DEFINE q == (p - 1) + size
<1>13. q \in Nat /\ q + l <= Len(wire) /\ (p - 1) + size <= Len(wire) /\ p - 1 \in Nat
       /\ p + size = q + 1 /\ p + size + l - 1 = q + l
  BY <1>3, <1>5, <1>6, <1>11
<1>14. Behind(wire, q) = u \o r
  <2>1. Behind(Behind(wire, p - 1), size) = Behind(wire, q)
    BY <1>2, <1>5, <1>13, BehindBehind DEF Bytes
  <2> QED
    BY <1>3, <1>10, <2>1, Zenon
<1> HIDE DEF q, size
<1>15. SubSeq(wire, q + 1, q + l) = u
  <2>1. SubSeq(wire, q + 1, q + l) = SubSeq(Behind(wire, q), 1, l)
    BY <1>2, <1>5, <1>13, PartBehind DEF Bytes
  <2> QED
    BY <1>10, <1>14, <2>1, Zenon
<1>16. SubSeq(wire, p + LengthBytes(p), p + LengthBytes(p) + ReadLen(From(p)) - 1) = u
  <2>1. p + LengthBytes(p) = q + 1 /\ p + LengthBytes(p) + ReadLen(From(p)) - 1 = q + l
    BY <1>4, <1>7, <1>9, <1>13
  <2> QED
    BY <1>15, <2>1, Zenon
<1>17. Position(i + 1) = p + LengthBytes(p) + ReadLen(From(p))
  BY <1>4, <1>7, <1>9, <1>12, Zenon
<1> QED
  BY <1>4, <1>16, <1>17, Zenon DEF p, d, u, w

\* The first code begins with the first byte; behind the last word is the zero length.
LEMMA FirstAndLast ==
    ASSUME Written
    PROVE  Position(1) = 1 /\ Rest(Len(words) + 1) = <<0>>
<1>1. /\ Codes(words) \in Seq(Bytes) /\ Len(Codes(words)) = Len(words) + 1 /\ Len(words) \in Nat
      /\ OnWire(words) = FlattenSeq(Codes(words)) /\ OnWire(words) \in Bytes
  <2>1. IsSentence(words)
    BY SentencesAreSentences DEF Written, TypeOK
  <2> QED
    BY <2>1, CodesType, OnWireIsCodes
<1>2. Position(1) = 1
  <2>1. Behind(Codes(words), 1 - 1) = Codes(words)
    BY <1>1, BehindStart
  <2>2. Rest(1) = wire
    BY <1>1, <2>1, Zenon DEF Rest, Written
  <2>3. wire \in Seq(Byte)
    BY DEF Written, TypeOK, Bytes
  <2> QED
    BY <2>2, <2>3 DEF Position
<1>3. Rest(Len(words) + 2) = <<>>
  <2>1. Behind(Codes(words), Len(Codes(words))) = <<>>
    BY <1>1, BehindEnd, Zenon
  <2>2. (Len(words) + 2) - 1 = Len(Codes(words))
    BY <1>1
  <2> QED
    BY <2>1, <2>2, FlattenEmpty, Zenon DEF Rest
<1>4. Rest(Len(words) + 1) = <<0>>
  <2> DEFINE i == Len(words) + 1
  <2>1. i \in 1 .. Len(words) + 1 /\ i + 1 = Len(words) + 2 /\ i > Len(words)
    BY <1>1
  <2>2. Word(words, i) = <<>>
    BY <2>1 DEF Word
  <2>3. Rest(i) = WriteLen(Len(Word(words, i))) \o (Utf8(Word(words, i)) \o Rest(i + 1))
    BY <2>1, RestOfWire
  <2>4. Rest(i) = WriteLen(Len(<<>>)) \o (<<>> \o <<>>)
    BY <1>3, <2>1, <2>2, <2>3, EmptyWord
  <2>5. WriteLen(0) = <<0>> /\ Len(<<>>) = 0 /\ <<>> \o <<>> = <<>> /\ <<0>> \o <<>> = <<0>>
    BY SMT DEF WriteLen
  <2> QED
    BY <2>4, <2>5, Zenon
<1> QED
  BY <1>2, <1>4

\* The function by which DeviceReadsBack goes through the wire.
Steps(f) ==
    f = [i \in 1 .. Len(words) + 1 |->
            IF i = 1 THEN 1
            ELSE f[i - 1] + LengthBytes(f[i - 1]) + ReadLen(From(f[i - 1]))]

\* One there is, as each position is the one before it, a length and a word further.
LEMMA StepsExist == ASSUME Written PROVE \E f : Steps(f)
<1> DEFINE m == Len(words)
           f == [i \in 1 .. m + 1 |-> Position(i)]
           g == [i \in 1 .. m + 1 |->
                    IF i = 1 THEN 1
                    ELSE f[i - 1] + LengthBytes(f[i - 1]) + ReadLen(From(f[i - 1]))]
<1>1. m \in Nat
  BY SentencesAreSentences DEF Written, TypeOK, IsSentence
<1>2. ASSUME NEW i \in 1 .. m + 1 PROVE f[i] = g[i]
  <2>1. CASE i = 1
    BY <1>2, <2>1, FirstAndLast
  <2>2. CASE i # 1
    <3> DEFINE k == i - 1
    <3>1. k \in 1 .. m + 1 /\ k + 1 = i
      BY <1>1, <2>2
    <3>2. Position(k + 1) = Position(k) + LengthBytes(Position(k)) + ReadLen(From(Position(k)))
      BY <3>1, WordReadBack, Zenon
    <3>3. f[i] = Position(k + 1) /\ f[k] = Position(k)
      BY <3>1
    <3>4. g[i] = f[k] + LengthBytes(f[k]) + ReadLen(From(f[k]))
      BY <2>2
    <3> QED
      BY <3>2, <3>3, <3>4, Zenon
  <2> QED
    BY <2>1, <2>2
<1>3. f = g
  <2>1. DOMAIN f = 1 .. m + 1 /\ DOMAIN g = 1 .. m + 1
    OBVIOUS
  <2> HIDE DEF m
  <2>2. f = [i \in 1 .. m + 1 |-> f[i]] /\ g = [i \in 1 .. m + 1 |-> g[i]]
    OBVIOUS
  <2> HIDE DEF f, g
  <2> QED
    BY ONLY <1>2, <2>2
<1> HIDE DEF f
<1>4. Steps(f)
  BY <1>3, Zenon DEF Steps
<1> QED
  BY <1>4

\* It goes from each code to the next.
LEMMA StepsArePositions ==
    ASSUME Written, NEW f, Steps(f)
    PROVE  \A i \in 1 .. Len(words) + 1 : f[i] = Position(i)
<1> DEFINE m == Len(words)
           S == {j \in Nat : j <= m => f[j + 1] = Position(j + 1)}
<1>1. m \in Nat
  BY SentencesAreSentences DEF Written, TypeOK, IsSentence
<1>2. \A i \in 1 .. m + 1 :
        f[i] = IF i = 1 THEN 1
               ELSE f[i - 1] + LengthBytes(f[i - 1]) + ReadLen(From(f[i - 1]))
  BY DEF Steps
<1>3. 0 \in S
  <2>1. 1 \in 1 .. m + 1 /\ 0 + 1 = 1
    BY <1>1
  <2>2. f[1] = 1
    BY <1>2, <2>1
  <2> QED
    BY <2>1, <2>2, FirstAndLast
<1>4. ASSUME NEW j \in S PROVE j + 1 \in S
  <2> SUFFICES ASSUME j + 1 <= m PROVE f[j + 2] = Position(j + 2)
    BY DEF S
  <2> DEFINE k == j + 1
  <2>1. k \in 1 .. m + 1 /\ k + 1 \in 1 .. m + 1 /\ k + 1 # 1 /\ (k + 1) - 1 = k /\ k + 1 = j + 2
    BY <1>1
  <2>2. f[k] = Position(k)
    BY <1>1
  <2> HIDE DEF k
  <2>3. f[k + 1] = f[k] + LengthBytes(f[k]) + ReadLen(From(f[k]))
    BY <1>2, <2>1
  <2>4. Position(k + 1) = Position(k) + LengthBytes(Position(k)) + ReadLen(From(Position(k)))
    BY <2>1, WordReadBack, Zenon
  <2> QED
    BY <2>1, <2>2, <2>3, <2>4, Zenon
<1>5. S = Nat
  BY <1>3, <1>4, NumbersByInduction
<1> SUFFICES ASSUME NEW i \in 1 .. m + 1 PROVE f[i] = Position(i)
  OBVIOUS
<1>6. i - 1 \in Nat /\ i - 1 <= m /\ (i - 1) + 1 = i
  BY <1>1
<1>7. i - 1 \in S
  BY <1>5, <1>6
<1> HIDE DEF m
<1> QED
  BY <1>6, <1>7

\* What the device cuts out of the bytes of a finished sentence by the lengths it reads
\* is the sentence, word for word, and the zero length behind it: writeLen and writeStr
\* agree on where a word ends, for any sentence of single-byte characters.
THEOREM DeviceReadsSentence ==
    ASSUME SingleBytes, ShortWords PROVE Spec => []DeviceReadsBack
<1>1. WInv => DeviceReadsBack
  <2> SUFFICES ASSUME WInv, state = "done" PROVE DeviceReadsBack
    BY DEF DeviceReadsBack
  <2>1. Written
    BY DEF Written, WInv, AtEnd
  <2> DEFINE f == CHOOSE f : Steps(f)
  <2>2. Steps(f)
    BY <2>1, StepsExist
  <2>3. \A i \in 1 .. Len(words) + 1 : f[i] = Position(i)
    BY <2>1, <2>2, StepsArePositions
  <2>4. Len(words) \in Nat /\ DOMAIN words = 1 .. Len(words)
    BY <2>1, SentencesAreSentences DEF Written, TypeOK, IsSentence
  <2>5. ASSUME NEW i \in DOMAIN words
        PROVE  LET first == f[i] + LengthBytes(f[i])
               IN SubSeq(wire, first, first + ReadLen(From(f[i])) - 1) = Utf8(words[i])
    <3>1. i \in 1 .. Len(words) + 1 /\ ~(i > Len(words))
      BY <2>4
    <3>2. Word(words, i) = words[i]
      BY <3>1 DEF Word
    <3>3. f[i] = Position(i)
      BY <2>3, <3>1
    <3> HIDE DEF f
    <3> QED
      BY <2>1, <3>1, <3>2, <3>3, WordReadBack, Zenon
  <2>6. From(f[Len(words) + 1]) = <<0>>
    <3>1. Len(words) + 1 \in 1 .. Len(words) + 1
      BY <2>4
    <3>2. f[Len(words) + 1] = Position(Len(words) + 1)
      BY <2>3, <3>1
    <3> HIDE DEF f
    <3> QED
      BY <2>1, <3>1, <3>2, WordReadBack, FirstAndLast, Zenon
  <2> QED
    BY <2>5, <2>6 DEF DeviceReadsBack, Steps
<1> QED
  BY <1>1, WInvAlways, PTL
=============================================================================
