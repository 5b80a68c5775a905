---------------------------- MODULE ApiReadProofs ---------------------------
(***************************************************************************)
(* readSentence delivers the sentences of a reply whole and in order,      *)
(* however recv divides them and wherever the connection ends: ApiRead     *)
(* implements the safety part of SentenceChannel.                          *)
(*                                                                         *)
(* As long as no piece has been torn out of a word, the bytes that are     *)
(* still to be received are the rest of the reply's coding behind what     *)
(* has been read (or a beginning of that rest, once the connection has     *)
(* ended), and what has been read is a beginning of the reply.             *)
(***************************************************************************)
EXTENDS ApiRead, LengthCodecProofs

\* What is sent and received.
Bytes == Seq(Byte)

\* The codes of the words of a sentence, and of the sentences of a reply.
Codes(s) == [j \in DOMAIN s |-> EncodeWord(s[j])]
SentenceCodes(r) == [i \in DOMAIN r |-> EncodeSentence(r[i])]

\* What the device sends after k sentences and j words of the next one.
Rest(r, k, j) ==
    IF k = Len(r) THEN <<>>
    ELSE (FlattenSeq(Behind(Codes(r[k + 1]), j)) \o <<0>>)
            \o FlattenSeq(Behind(SentenceCodes(r), k + 1))

\* A sentence as the device sends it: no empty word, none too long, none that begins raw.
IsSentence(s) ==
    /\ s \in Seq(Bytes)
    /\ \A j \in 1 .. Len(s) : Len(s[j]) \in Lengths /\ Len(s[j]) # 0 /\ s[j][1] < 128

\* The code of a zero length is one zero byte.
LEMMA ZeroLength == WriteLen(0) = <<0>> /\ <<0>> \in Bytes
<1>1. WriteLen(0) = <<0>> /\ 0 \in Byte
  BY SMT DEF WriteLen, Byte
<1> QED
  BY <1>1 DEF Bytes

\* The code of a word is a sequence of bytes.
LEMMA WordCode ==
    ASSUME NEW w \in Bytes, Len(w) \in Lengths PROVE EncodeWord(w) \in Bytes
<1>1. WriteLen(Len(w)) \in Bytes
  BY CodeType DEF Bytes
<1> QED
  BY <1>1 DEF EncodeWord, Bytes

\* So are the codes of the words of a sentence, one for each.
LEMMA WordCodes ==
    ASSUME NEW s, IsSentence(s)
    PROVE  /\ Codes(s) \in Seq(Bytes) /\ Len(Codes(s)) = Len(s)
           /\ \A j \in 1 .. Len(s) : Codes(s)[j] = EncodeWord(s[j])
<1>1. \A j \in 1 .. Len(s) : EncodeWord(s[j]) \in Bytes
  <2> SUFFICES ASSUME NEW j \in 1 .. Len(s) PROVE EncodeWord(s[j]) \in Bytes
    OBVIOUS
  <2>1. s[j] \in Bytes /\ Len(s[j]) \in Lengths
    BY DEF IsSentence
  <2> QED
    BY <2>1, WordCode
<1>2. s \in Seq(Bytes)
  BY DEF IsSentence
<1>3. DOMAIN s = 1 .. Len(s) /\ Len(s) \in Nat
  BY <1>2
<1> QED
  BY <1>1, <1>3 DEF Codes

\* A sentence is coded by the codes of its words and a zero length.
LEMMA SentenceCode ==
    ASSUME NEW s, IsSentence(s)
    PROVE  /\ EncodeSentence(s) = FlattenSeq(Behind(Codes(s), 0)) \o <<0>>
           /\ EncodeSentence(s) \in Bytes
<1>1. Codes(s) \in Seq(Bytes)
  BY WordCodes, Zenon
<1>2. Behind(Codes(s), 0) = Codes(s)
  BY <1>1, BehindStart, Zenon
<1>3. FlattenSeq(Codes(s)) \in Bytes
  BY <1>1, FlattenType DEF Bytes
<1>4. <<0>> \in Bytes
  BY ZeroLength
<1>5. EncodeSentence(s) = FlattenSeq(Codes(s)) \o <<0>>
  BY ZeroLength, Zenon DEF EncodeSentence, Codes
<1>6. FlattenSeq(Codes(s)) \o <<0>> \in Bytes
  BY ONLY <1>3, <1>4 DEF Bytes
<1> QED
  BY <1>2, <1>5, <1>6, Zenon

\* The codes of the sentences of a reply, one for each.
LEMMA ReplyCodes ==
    ASSUME NEW r \in Seq(Seq(Bytes)), \A k \in 1 .. Len(r) : IsSentence(r[k])
    PROVE  /\ SentenceCodes(r) \in Seq(Bytes) /\ Len(SentenceCodes(r)) = Len(r)
           /\ \A k \in 1 .. Len(r) : SentenceCodes(r)[k] = EncodeSentence(r[k])
<1>1. \A k \in 1 .. Len(r) : EncodeSentence(r[k]) \in Bytes
  BY SentenceCode
<1>2. DOMAIN r = 1 .. Len(r) /\ Len(r) \in Nat
  OBVIOUS
<1> QED
  BY <1>1, <1>2 DEF SentenceCodes

\* A reply of such sentences.
Sound(r) == r \in Seq(Seq(Bytes)) /\ \A k \in 1 .. Len(r) : IsSentence(r[k])

\* Every reply the device may send is of this form.
LEMMA RepliesAreSound == \A r \in Replies : Sound(r)
<1> SUFFICES ASSUME NEW r \in Replies PROVE Sound(r)
  OBVIOUS
<1>1. IsReply(r)
  BY RepliesAssumption
<1>2. r \in Seq(Seq(Bytes \ {<<>>}))
  BY <1>1 DEF IsReply, Bytes
<1>3. r \in Seq(Seq(Bytes))
  BY <1>2
<1>4. ASSUME NEW k \in 1 .. Len(r) PROVE IsSentence(r[k])
  <2>1. r[k] \in Seq(Bytes \ {<<>>})
    BY <1>2
  <2>2. ASSUME NEW j \in 1 .. Len(r[k])
        PROVE  Len(r[k][j]) \in Lengths /\ Len(r[k][j]) # 0 /\ r[k][j][1] < 128
    <3>1. r[k][j] \in Bytes /\ r[k][j] # <<>>
      BY <2>1
    <3>2. Len(r[k][j]) # 0
      BY <3>1 DEF Bytes
    <3>3. k \in DOMAIN r /\ j \in DOMAIN r[k]
      BY <1>2, <2>1
    <3> QED
      BY <1>1, <3>2, <3>3, Zenon DEF IsReply
  <2>3. r[k] \in Seq(Bytes)
    BY <2>1
  <2> QED
    BY <2>2, <2>3 DEF IsSentence
<1> QED
  BY <1>3, <1>4 DEF Sound

\* What is left of several codes, joined, is a sequence of the same kind.
LEMMA FlattenBehindType ==
    ASSUME NEW B, NEW ss \in Seq(Seq(B)), NEW j \in 0 .. Len(ss)
    PROVE  FlattenSeq(Behind(ss, j)) \in Seq(B)
<1>1. Behind(ss, j) \in Seq(Seq(B))
  BY BehindType, Zenon
<1> QED
  BY <1>1, FlattenType, Zenon

\* What is left of a reply is a sequence of bytes.
LEMMA RestType ==
    ASSUME NEW r, Sound(r), NEW k \in 0 .. Len(r),
           NEW j, k # Len(r) => j \in 0 .. Len(r[k + 1])
    PROVE  Rest(r, k, j) \in Bytes
<1>1. CASE k = Len(r)
  BY <1>1 DEF Rest, Bytes
<1>2. CASE k # Len(r)
  <2>1. k + 1 \in 1 .. Len(r) /\ k + 1 \in 0 .. Len(r)
    BY <1>2 DEF Sound
  <2>2. IsSentence(r[k + 1])
    BY <2>1 DEF Sound
  <2>3. /\ SentenceCodes(r) \in Seq(Bytes) /\ Len(SentenceCodes(r)) = Len(r)
        /\ Codes(r[k + 1]) \in Seq(Bytes) /\ Len(Codes(r[k + 1])) = Len(r[k + 1])
    BY <2>2, WordCodes, ReplyCodes DEF Sound
  <2>4. FlattenSeq(Behind(Codes(r[k + 1]), j)) \in Bytes
    BY <1>2, <2>3, FlattenBehindType, Zenon DEF Bytes
  <2>5. FlattenSeq(Behind(SentenceCodes(r), k + 1)) \in Bytes
    BY <2>1, <2>3, FlattenBehindType, Zenon DEF Bytes
  <2>6. <<0>> \in Bytes
    BY ZeroLength
  <2>7. (FlattenSeq(Behind(Codes(r[k + 1]), j)) \o <<0>>)
           \o FlattenSeq(Behind(SentenceCodes(r), k + 1)) \in Bytes
    BY ONLY <2>4, <2>5, <2>6 DEF Bytes
  <2> QED
    BY <1>2, <2>7, Zenon DEF Rest
<1> QED
  BY <1>1, <1>2

\* Inside a sentence it begins with the code of the next word.
LEMMA RestWord ==
    ASSUME NEW r, Sound(r), NEW k \in Nat, k < Len(r),
           NEW j \in Nat, j < Len(r[k + 1]), NEW w, w = r[k + 1][j + 1]
    PROVE  /\ w \in Bytes /\ Len(w) \in Lengths /\ Len(w) # 0 /\ w[1] < 128
           /\ Rest(r, k, j + 1) \in Bytes
           /\ Rest(r, k, j) = WriteLen(Len(w)) \o (w \o Rest(r, k, j + 1))
<1> DEFINE s == r[k + 1]
<1>1. k + 1 \in 1 .. Len(r) /\ k + 1 \in 0 .. Len(r) /\ k \in 0 .. Len(r) /\ k # Len(r)
  BY DEF Sound
<1>2. IsSentence(s)
  BY <1>1 DEF Sound
<1>3. j + 1 \in 1 .. Len(s) /\ j + 1 \in 0 .. Len(s)
  BY <1>2 DEF IsSentence
<1>4. w \in Bytes /\ Len(w) \in Lengths /\ Len(w) # 0 /\ w[1] < 128
  BY <1>2, <1>3 DEF IsSentence
<1>5. Rest(r, k, j + 1) \in Bytes
  BY <1>1, <1>3, RestType, Zenon
<1> DEFINE a == WriteLen(Len(w))
           b == FlattenSeq(Behind(Codes(s), j + 1))
           c == FlattenSeq(Behind(SentenceCodes(r), k + 1))
<1>6. Codes(s) \in Seq(Bytes) /\ Len(Codes(s)) = Len(s) /\ Codes(s)[j + 1] = EncodeWord(w)
  BY <1>2, <1>3, WordCodes, Zenon
<1>7. FlattenSeq(Behind(Codes(s), j)) = EncodeWord(w) \o b
  <2>1. j < Len(Codes(s))
    BY <1>6
  <2>2. FlattenSeq(Behind(Codes(s), j)) = Codes(s)[j + 1] \o FlattenSeq(Behind(Codes(s), j + 1))
    BY <1>6, <2>1, FlattenBehind, Zenon DEF Bytes
  <2> QED
    BY <1>6, <2>2, Zenon
<1>8. Rest(r, k, j) = (((a \o w) \o b) \o <<0>>) \o c
  BY <1>1, <1>7, Zenon DEF Rest, EncodeWord
<1>9. Rest(r, k, j + 1) = (b \o <<0>>) \o c
  BY <1>1, Zenon DEF Rest
<1>10. SentenceCodes(r) \in Seq(Bytes) /\ Len(SentenceCodes(r)) = Len(r)
  BY ReplyCodes DEF Sound
<1>11. a \in Bytes /\ b \in Bytes /\ c \in Bytes /\ w \in Bytes /\ <<0>> \in Bytes
  <2>1. b \in Bytes
    BY <1>3, <1>6, FlattenBehindType, Zenon DEF Bytes
  <2>2. c \in Bytes
    BY <1>1, <1>10, FlattenBehindType, Zenon DEF Bytes
  <2>3. a \in Bytes
    <3>1. Len(w) \in Nat
      BY ONLY <1>4 DEF Lengths
    <3> QED
      BY <3>1, CodeType, Zenon DEF Bytes
  <2>4. <<0>> \in Bytes
    BY ZeroLength, Zenon
  <2> QED
    BY <1>4, <2>1, <2>2, <2>3, <2>4, Zenon
<1>12. (((a \o w) \o b) \o <<0>>) \o c = a \o (w \o ((b \o <<0>>) \o c))
  <2> HIDE DEF a, b, c
  <2> DEFINE z == <<0>>
             p == a \o w
             q == b \o z
             t == q \o c
  <2>1. a \in Bytes /\ b \in Bytes /\ c \in Bytes /\ w \in Bytes /\ z \in Bytes
    BY <1>11
  <2> HIDE DEF z
  <2>2. p \in Bytes /\ q \in Bytes /\ t \in Bytes
    BY ONLY <2>1 DEF Bytes
  <2>3. (p \o b) \o z = p \o (b \o z)
    <3>1. p \in Bytes /\ b \in Bytes /\ z \in Bytes
      BY <2>1, <2>2
    <3> HIDE DEF p, q, t, s
    <3> QED
      BY ONLY <3>1 DEF Bytes
  <2>4. (p \o q) \o c = p \o (q \o c)
    <3>1. p \in Bytes /\ q \in Bytes /\ c \in Bytes
      BY <2>1, <2>2
    <3> HIDE DEF p, q, t, s
    <3> QED
      BY ONLY <3>1 DEF Bytes
  <2>5. (a \o w) \o t = a \o (w \o t)
    <3>1. a \in Bytes /\ w \in Bytes /\ t \in Bytes
      BY <2>1, <2>2
    <3> HIDE DEF p, q, t, s
    <3> QED
      BY ONLY <3>1 DEF Bytes
  <2>6. (((a \o w) \o b) \o z) \o c = a \o (w \o ((b \o z) \o c))
    BY <2>3, <2>4, <2>5, Zenon
  <2> QED
    BY <2>6 DEF z
<1> QED
  BY <1>4, <1>5, <1>8, <1>9, <1>12, Zenon

\* At the end of a sentence it begins with a zero, and the next sentence follows.
LEMMA RestEnd ==
    ASSUME NEW r, Sound(r), NEW k \in Nat, k < Len(r), NEW j, j = Len(r[k + 1])
    PROVE  /\ Rest(r, k + 1, 0) \in Bytes
           /\ Rest(r, k, j) = <<0>> \o Rest(r, k + 1, 0)
<1> DEFINE s == r[k + 1]
           m == k + 1
<1>1. m \in 1 .. Len(r) /\ m \in 0 .. Len(r) /\ k # Len(r) /\ Len(r) \in Nat
  BY DEF Sound
<1>2. IsSentence(s)
  BY <1>1 DEF Sound
<1>3. Codes(s) \in Seq(Bytes) /\ Len(Codes(s)) = j
  BY <1>2, WordCodes, Zenon
<1>4. FlattenSeq(Behind(Codes(s), j)) = <<>>
  BY <1>3, BehindEnd, FlattenEmpty, Zenon
<1>5. SentenceCodes(r) \in Seq(Bytes) /\ Len(SentenceCodes(r)) = Len(r)
  BY ReplyCodes DEF Sound
<1>6. <<0>> \in Bytes
  BY ZeroLength
<1>7. <<>> \o <<0>> = <<0>>
  OBVIOUS
<1>8. Rest(r, k, j) = <<0>> \o FlattenSeq(Behind(SentenceCodes(r), m))
  BY <1>1, <1>4, <1>7, Zenon DEF Rest
<1>9. FlattenSeq(Behind(SentenceCodes(r), m)) = Rest(r, m, 0)
  <2>1. CASE m = Len(r)
    <3>1. FlattenSeq(Behind(SentenceCodes(r), m)) = <<>>
      BY <1>5, <2>1, BehindEnd, FlattenEmpty, Zenon
    <3> QED
      BY <2>1, <3>1, Zenon DEF Rest
  <2>2. CASE m # Len(r)
    <3> DEFINE t == r[m + 1]
    <3>1. m + 1 \in 1 .. Len(r) /\ m \in Nat /\ m < Len(r)
      BY <1>1, <2>2
    <3>2. IsSentence(t)
      BY <3>1 DEF Sound
    <3>3. SentenceCodes(r)[m + 1] = EncodeSentence(t)
      BY <3>1, ReplyCodes DEF Sound
    <3>4. FlattenSeq(Behind(SentenceCodes(r), m))
            = EncodeSentence(t) \o FlattenSeq(Behind(SentenceCodes(r), m + 1))
      BY <1>5, <3>1, <3>3, FlattenBehind, Zenon DEF Bytes
    <3>5. EncodeSentence(t) = FlattenSeq(Behind(Codes(t), 0)) \o <<0>>
      BY <3>2, SentenceCode, Zenon
    <3> QED
      BY <2>2, <3>4, <3>5, Zenon DEF Rest
  <2> QED
    BY <2>1, <2>2
<1>10. Rest(r, m, 0) \in Bytes
  <2>1. m # Len(r) => 0 \in 0 .. Len(r[m + 1])
    <3> SUFFICES ASSUME m # Len(r) PROVE 0 \in 0 .. Len(r[m + 1])
      OBVIOUS
    <3>1. m + 1 \in 1 .. Len(r)
      BY <1>1
    <3>2. IsSentence(r[m + 1])
      BY <3>1 DEF Sound
    <3> QED
      BY <3>2 DEF IsSentence
  <2> QED
    BY <1>1, <2>1, RestType, Zenon
<1> QED
  BY <1>8, <1>9, <1>10, Zenon

\* Before anything has been sent it is the coding of the whole reply.
LEMMA RestStart ==
    ASSUME NEW r, Sound(r)
    PROVE  Rest(r, 0, 0) = Encode(r) /\ Encode(r) \in Bytes
<1>1. SentenceCodes(r) \in Seq(Bytes) /\ Len(SentenceCodes(r)) = Len(r) /\ Len(r) \in Nat
  BY ReplyCodes DEF Sound
<1>2. Encode(r) = FlattenSeq(SentenceCodes(r))
  BY Zenon DEF Encode, SentenceCodes
<1>3. Encode(r) \in Bytes
  BY <1>1, <1>2, FlattenType DEF Bytes
<1>4. Behind(SentenceCodes(r), 0) = SentenceCodes(r)
  BY <1>1, BehindStart, Zenon
<1>5. CASE 0 = Len(r)
  <2>1. SentenceCodes(r) = <<>>
    BY <1>1, <1>5, EmptySeq
  <2> QED
    BY <1>2, <1>3, <1>5, <2>1, FlattenEmpty, Zenon DEF Rest
<1>6. CASE 0 # Len(r)
  <2> DEFINE t == r[0 + 1]
  <2>1. 0 + 1 \in 1 .. Len(r) /\ 0 < Len(r)
    BY <1>1, <1>6
  <2>2. IsSentence(t)
    BY <2>1 DEF Sound
  <2>3. SentenceCodes(r)[0 + 1] = EncodeSentence(t)
    BY <2>1, ReplyCodes DEF Sound
  <2>4. FlattenSeq(Behind(SentenceCodes(r), 0))
          = EncodeSentence(t) \o FlattenSeq(Behind(SentenceCodes(r), 0 + 1))
    <3>1. 0 \in Nat /\ 0 < Len(SentenceCodes(r))
      BY <1>1, <2>1
    <3> QED
      BY <1>1, <2>3, <3>1, FlattenBehind, Zenon DEF Bytes
  <2>5. EncodeSentence(t) = FlattenSeq(Behind(Codes(t), 0)) \o <<0>>
    BY <2>2, SentenceCode, Zenon
  <2> QED
    BY <1>2, <1>3, <1>4, <1>6, <2>4, <2>5, Zenon DEF Rest
<1> QED
  BY <1>5, <1>6

\* A word as readWord returns it.
Text == [text : Bytes, raw : BOOLEAN]

\* While readLen or readStr wants more bytes, it wants at least one.
Positive == (phase = "more" => left # 0) /\ (phase = "word" => left # 0)

\* Both parts of a sequence of bytes that recv divides are such sequences.
LEMMA TailOfBytes ==
    ASSUME NEW d \in Bytes, NEW k \in Nat, k <= Len(d)
    PROVE  SubSeq(d, k + 1, Len(d)) \in Bytes /\ SubSeq(d, 1, k) \in Bytes
  BY DEF Bytes

\* A first byte announces at most four more, and contributes a number.
LEMMA MoreBytesType == \A c \in Byte : MoreBytes(c) \in 0 .. 4 /\ FirstPart(c) \in Nat
<1> SUFFICES ASSUME NEW c \in Byte PROVE MoreBytes(c) \in 0 .. 4 /\ FirstPart(c) \in Nat
  OBVIOUS
<1>1. c \in 0 .. 255
  BY DEF Byte
<1>2. MoreBytes(c) \in 0 .. 4
  BY ONLY <1>1 DEF MoreBytes
<1>3. FirstPart(c) \in Nat
  BY ONLY <1>1 DEF FirstPart
<1> QED
  BY <1>2, <1>3

\* The next byte, when there is one.
LEMMA HeadOfBytes ==
    ASSUME NEW d \in Bytes, d # <<>>
    PROVE  Head(d) \in Byte /\ Head(d) = d[1] /\ 1 <= Len(d) /\ Len(d) \in Nat
  BY DEF Bytes

\* After the length of a word or of the end of a sentence, every variable has its type.
LEMMA LengthReadType ==
    ASSUME TypeOK, NEW l \in Nat, LengthRead(l), torn' = torn
    PROVE  /\ phase' \in {"len", "word"} /\ left' \in Nat /\ length' \in Nat
           /\ ret' \in Seq(Byte) /\ sentence' \in Seq(Text) /\ got' \in Seq(Seq(Text))
           /\ IsPrefix(whole', got') /\ (~torn' => whole' = got')
           /\ (phase' = "word" => left' # 0)
<1>0. sentence \in Seq(Text) /\ got \in Seq(Seq(Text)) /\ ret \in Seq(Byte)
      /\ IsPrefix(whole, got) /\ (~torn => whole = got)
  BY DEF TypeOK, Text, Bytes
<1>1. CASE l = 0
  <2>1. /\ got' = Append(got, sentence) /\ sentence' = <<>>
        /\ whole' = (IF torn THEN whole ELSE got')
        /\ phase' = "len" /\ left' = 0 /\ length' = 0 /\ ret' = ret
    BY <1>1 DEF LengthRead
  <2>2. got' \in Seq(Seq(Text)) /\ sentence' \in Seq(Text)
    BY <1>0, <2>1
  <2>3. IsPrefix(whole, got') /\ IsPrefix(got', got')
    <3>1. IsPrefix(whole, Append(got, sentence))
      BY <1>0 DEF IsPrefix
    <3>2. IsPrefix(got', got')
      BY <2>2 DEF IsPrefix
    <3> QED
      BY <2>1, <3>1, <3>2
  <2> QED
    BY <1>0, <2>1, <2>2, <2>3
<1>2. CASE l # 0
  <2>1. phase' = "word" /\ left' = l /\ length' = 0 /\ ret' = <<>>
        /\ UNCHANGED <<got, whole, sentence>>
    BY <1>2 DEF LengthRead
  <2> QED
    BY <1>0, <1>2, <2>1
<1> QED
  BY <1>1, <1>2

\* Types and pending counts after readLen has read its first byte.
LEMMA TypeFirst == ASSUME TypeOK, Positive, ReadFirst PROVE TypeOK' /\ Positive'
<1> DEFINE c == Head(data)
<1>0. data \in Bytes /\ data # <<>>
  BY DEF TypeOK, Bytes, ReadFirst
<1>1. c \in Byte /\ 1 <= Len(data)
  BY <1>0, HeadOfBytes, Zenon
<1>2. data' \in Bytes
  BY <1>0, <1>1, TailOfBytes DEF ReadFirst, Received
<1>3. MoreBytes(c) \in Nat /\ FirstPart(c) \in Nat
  BY <1>1, MoreBytesType
<1>4. sent' = sent /\ open' = open /\ torn' = torn
  BY DEF ReadFirst
<1> HIDE DEF c
<1>5. CASE MoreBytes(c) = 0
  <2>1. LengthRead(FirstPart(c))
    BY <1>5 DEF ReadFirst, c
  <2>2. /\ phase' \in {"len", "word"} /\ left' \in Nat /\ length' \in Nat
        /\ ret' \in Seq(Byte) /\ sentence' \in Seq(Text) /\ got' \in Seq(Seq(Text))
        /\ IsPrefix(whole', got') /\ (~torn' => whole' = got')
        /\ (phase' = "word" => left' # 0)
    BY <1>3, <1>4, <2>1, LengthReadType
  <2> QED
    BY <1>2, <1>4, <2>2 DEF TypeOK, Positive, Text, Bytes
<1>6. CASE MoreBytes(c) # 0
  <2>1. phase' = "more" /\ left' = MoreBytes(c) /\ length' = FirstPart(c)
        /\ UNCHANGED <<ret, sentence, got, whole>>
    BY <1>6 DEF ReadFirst, c
  <2> QED
    BY <1>2, <1>3, <1>4, <1>6, <2>1 DEF TypeOK, Positive, Bytes
<1> QED
  BY <1>5, <1>6

\* Types and pending counts after a further byte of a length.
LEMMA TypeMore == ASSUME TypeOK, Positive, ReadMore PROVE TypeOK' /\ Positive'
<1> DEFINE c == Shifted(length, Head(data))
<1>0. data \in Bytes /\ data # <<>> /\ length \in Nat /\ left \in Nat /\ left # 0
  BY DEF TypeOK, Bytes, ReadMore, Positive
<1>1. Head(data) \in Byte /\ 1 <= Len(data)
  BY <1>0, HeadOfBytes, Zenon
<1>2. data' \in Bytes
  BY <1>0, <1>1, TailOfBytes DEF ReadMore, Received
<1>3. c \in Nat
  BY <1>0, <1>1, BytesAreNumbers DEF Shifted
<1>4. sent' = sent /\ open' = open /\ torn' = torn /\ phase = "more"
  BY DEF ReadMore
<1> HIDE DEF c
<1>5. CASE left = 1
  <2>1. LengthRead(c)
    BY <1>5 DEF ReadMore, c
  <2>2. /\ phase' \in {"len", "word"} /\ left' \in Nat /\ length' \in Nat
        /\ ret' \in Seq(Byte) /\ sentence' \in Seq(Text) /\ got' \in Seq(Seq(Text))
        /\ IsPrefix(whole', got') /\ (~torn' => whole' = got')
        /\ (phase' = "word" => left' # 0)
    BY <1>3, <1>4, <2>1, LengthReadType
  <2> QED
    BY <1>2, <1>4, <2>2 DEF TypeOK, Positive, Text, Bytes
<1>6. CASE left # 1
  <2>1. left' = left - 1 /\ length' = c /\ UNCHANGED <<phase, ret, sentence, got, whole>>
    BY <1>6 DEF ReadMore, c
  <2>2. left' \in Nat /\ left' # 0
    BY <1>0, <1>6, <2>1
  <2> QED
    BY <1>2, <1>3, <1>4, <2>1, <2>2 DEF TypeOK, Positive, Bytes
<1> QED
  BY <1>5, <1>6

\* Types and pending counts after a piece of a word.
LEMMA TypePiece == ASSUME TypeOK, Positive, ReadPiece PROVE TypeOK' /\ Positive'
<1>1. PICK k \in 1 .. left :
        /\ k <= Len(data)
        /\ Received(k)
        /\ IF SubSeq(data, 1, k)[1] >= 128
           THEN WordRead(SubSeq(data, 1, k), TRUE)
           ELSE IF k = left
           THEN WordRead(ret \o SubSeq(data, 1, k), FALSE)
           ELSE ret' = ret \o SubSeq(data, 1, k) /\ left' = left - k
                /\ UNCHANGED <<phase, sentence>>
        /\ torn' = (torn \/ (SubSeq(data, 1, k)[1] >= 128 /\ (ret # <<>> \/ k < left)))
  BY DEF ReadPiece
<1>2. UNCHANGED <<sent, open, length, got, whole>> /\ phase = "word"
  BY DEF ReadPiece
<1> DEFINE piece == SubSeq(data, 1, k)
<1>3. data \in Bytes /\ ret \in Bytes /\ sentence \in Seq(Text) /\ left \in Nat
  BY DEF TypeOK, Bytes, Text
<1>4. k \in Nat /\ k <= left
  BY <1>3
<1>5. piece \in Bytes /\ data' \in Bytes
  BY <1>1, <1>3, <1>4, TailOfBytes DEF Received
<1>6. ret \o piece \in Bytes
  BY ONLY <1>3, <1>5 DEF Bytes
<1> HIDE DEF piece
<1>7. ret' \in Bytes /\ sentence' \in Seq(Text) /\ left' \in Nat
      /\ phase' \in {"len", "word"} /\ (phase' = "word" => left' # 0)
  <2>1. ASSUME NEW text \in Bytes, NEW raw \in BOOLEAN, WordRead(text, raw)
        PROVE  ret' \in Bytes /\ sentence' \in Seq(Text) /\ left' \in Nat /\ phase' = "len"
    <3>1. [text |-> text, raw |-> raw] \in Text
      BY DEF Text
    <3>2. sentence' \in Seq(Text)
      BY <1>3, <2>1, <3>1 DEF WordRead
    <3> QED
      BY <2>1, <3>2 DEF WordRead, Bytes
  <2>2. \/ WordRead(piece, TRUE)
        \/ WordRead(ret \o piece, FALSE)
        \/ ret' = ret \o piece /\ left' = left - k /\ k # left /\ UNCHANGED <<phase, sentence>>
    BY <1>1 DEF piece
  <2>3. CASE ret' = ret \o piece /\ left' = left - k /\ k # left /\ UNCHANGED <<phase, sentence>>
    BY <1>2, <1>3, <1>4, <1>6, <2>3
  <2> QED
    BY <1>5, <1>6, <2>1, <2>2, <2>3
<1>8. torn' \in BOOLEAN /\ (~torn' => ~torn)
  BY <1>1 DEF TypeOK
<1>9. IsPrefix(whole', got') /\ (~torn' => whole' = got')
  BY <1>2, <1>8 DEF TypeOK
<1> QED
  BY <1>2, <1>5, <1>7, <1>8, <1>9 DEF TypeOK, Positive, Text, Bytes

\* Types in the initial states.
LEMMA TypeInit == Init => TypeOK /\ Positive
<1> SUFFICES ASSUME Init PROVE TypeOK /\ Positive
  OBVIOUS
<1>1. Sound(sent)
  BY RepliesAreSound DEF Init
<1>2. data \in Seq(Byte)
  BY <1>1, RestStart DEF Init, Bytes
<1>3. IsPrefix(whole, got)
  BY DEF IsPrefix, Init
<1>4. /\ sentence \in Seq([text : Seq(Byte), raw : BOOLEAN])
      /\ got \in Seq(Seq([text : Seq(Byte), raw : BOOLEAN])) /\ ret \in Seq(Byte)
  BY DEF Init
<1>5. Positive /\ left \in Nat /\ length \in Nat /\ open \in BOOLEAN /\ torn \in BOOLEAN
      /\ sent \in Replies /\ phase \in {"len", "more", "word", "raised"} /\ whole = got
  BY DEF Init, Positive
<1> QED
  BY <1>2, <1>3, <1>4, <1>5, Zenon DEF TypeOK

\* Types after any step.
LEMMA TypeStep == TypeOK /\ Positive /\ [Next]_vars => TypeOK' /\ Positive'
<1> SUFFICES ASSUME TypeOK, Positive, [Next]_vars PROVE TypeOK' /\ Positive'
  OBVIOUS
<1>1. CASE ReadFirst
  BY <1>1, TypeFirst
<1>2. CASE ReadMore
  BY <1>2, TypeMore
<1>3. CASE ReadPiece
  BY <1>3, TypePiece
<1>4. CASE ReadClosed
  BY <1>4 DEF ReadClosed, TypeOK, Positive
<1>5. CASE Close
  <2>1. PICK k \in 0 .. Len(data) : data' = SubSeq(data, 1, k)
    BY <1>5 DEF Close
  <2>2. data \in Bytes /\ k \in Nat /\ k <= Len(data)
    BY DEF TypeOK, Bytes
  <2>3. data' \in Bytes
    BY <2>1, <2>2, TailOfBytes
  <2> QED
    BY <1>5, <2>3 DEF Close, TypeOK, Positive, Bytes
<1>6. CASE UNCHANGED vars
  BY <1>6 DEF vars, TypeOK, Positive
<1> QED
  BY <1>1, <1>2, <1>3, <1>4, <1>5, <1>6 DEF Next, Read

\* What has arrived, d, is a beginning of b, and all of b as long as the connection is up.
Arrives(d, b, up) == b \in Bytes /\ Begins(d, b) /\ (up => Len(d) = Len(b))

\* The sentence being read, the word being read, and what follows that word.
Current == sent[Len(got) + 1]
CurrentWord == Current[Len(sentence) + 1]
After == Rest(sent, Len(got), Len(sentence) + 1)

\* There is a word left to be read in the sentence being read.
InsideSentence == Len(got) < Len(sent) /\ Len(sentence) < Len(Current)

\* The sentences returned are the first ones of the reply,
GotIsSent ==
    Len(got) <= Len(sent) /\ \A i \in 1 .. Len(got) : got[i] = AsRead(sent)[i]

\* the words read are the first ones of the sentence after them.
SentenceIsSent ==
    /\ Len(got) = Len(sent) => sentence = <<>>
    /\ Len(got) # Len(sent) =>
          /\ Len(sentence) <= Len(Current)
          /\ \A i \in 1 .. Len(sentence) : sentence[i] = Word(Current[i])

\* Before a length: what arrives next is the rest of the reply.
AtLength == phase = "len" => Arrives(data, Rest(sent, Len(got), Len(sentence)), open)

\* Inside a length: the value read so far, the rest of the code, the word, the rest.
InLength ==
    phase = "more" =>
        LET c == WriteLen(Len(CurrentWord))
            p == Len(c) - left
        IN /\ InsideSentence
           /\ p \in 1 .. Len(c) - 1 /\ length = Value(c, p)
           /\ Arrives(data, Behind(c, p) \o (CurrentWord \o After), open)

\* Inside a word: the part read so far, the rest of the word, the rest of the reply.
InWord ==
    phase = "word" =>
        /\ InsideSentence
        /\ left + Len(ret) = Len(CurrentWord)
        /\ ret = SubSeq(CurrentWord, 1, Len(ret))
        /\ Arrives(data, Behind(CurrentWord, Len(ret)) \o After, open)

\* The reader is where the device believes it to be.
OnTrack == GotIsSent /\ SentenceIsSent /\ AtLength /\ InLength /\ InWord

\* Receiving k bytes of the next part a: they are the first k of a, the rest follows.
LEMMA ArrivesBehind ==
    ASSUME NEW d \in Bytes, NEW a \in Bytes, NEW b \in Bytes, NEW up,
           Arrives(d, a \o b, up), NEW k \in Nat, k <= Len(a), k <= Len(d)
    PROVE  /\ Arrives(Behind(d, k), Behind(a, k) \o b, up)
           /\ SubSeq(d, 1, k) = SubSeq(a, 1, k)
<1>1. Begins(d, a \o b) /\ (up => Len(d) = Len(a \o b))
  BY DEF Arrives
<1>2. /\ Begins(Behind(d, k), Behind(a, k) \o b)
      /\ Len(d) = Len(a \o b) => Len(Behind(d, k)) = Len(Behind(a, k) \o b)
  BY <1>1, BeginsBehind DEF Bytes
<1>3. SubSeq(d, 1, k) = SubSeq(a, 1, k)
  BY <1>1, BeginsSame DEF Bytes
<1>4. Behind(a, k) \in Bytes
  BY DEF Behind, Bytes
<1>5. Behind(a, k) \o b \in Bytes
  BY ONLY <1>4, b \in Bytes DEF Bytes
<1> QED
  BY <1>1, <1>2, <1>3, <1>5 DEF Arrives

\* Two consecutive pieces put together.
LEMMA PartsJoin ==
    ASSUME NEW B, NEW s \in Seq(B), NEW p \in Nat, NEW k \in Nat, p + k <= Len(s)
    PROVE  SubSeq(s, 1, p) \o SubSeq(Behind(s, p), 1, k) = SubSeq(s, 1, p + k)
  BY DEF Behind

\* Joining at the ends of a sequence.
LEMMA EndJoin ==
    ASSUME NEW B, NEW s \in Seq(B), NEW t \in Seq(B)
    PROVE  Behind(s, Len(s)) \o t = t /\ Behind(s, 0) \o t = s \o t
<1>1. Behind(s, Len(s)) = <<>> /\ Behind(s, 0) = s
  BY BehindStart, BehindEnd
<1>2. <<>> \o t = t
  OBVIOUS
<1> QED
  BY <1>1, <1>2, Zenon

\* The reader begins with the reply.
LEMMA TrackInit == ASSUME Init PROVE OnTrack
<1>1. Sound(sent)
  BY RepliesAreSound DEF Init
<1>2. Len(got) = 0 /\ Len(sentence) = 0 /\ sentence = <<>> /\ got = <<>> /\ phase = "len"
      /\ data = Encode(sent)
  BY DEF Init
<1>3. Len(sent) \in Nat /\ \A k \in 1 .. Len(sent) : Len(sent[k]) \in Nat
  BY <1>1 DEF Sound, IsSentence
<1>4. GotIsSent
  BY <1>2, <1>3 DEF GotIsSent
<1>5. SentenceIsSent
  BY <1>2, <1>3 DEF SentenceIsSent, Current
<1>6. Rest(sent, Len(got), Len(sentence)) = data /\ data \in Bytes
  BY <1>1, <1>2, RestStart
<1>7. Arrives(data, data, open)
  BY <1>6 DEF Arrives, Begins, Bytes
<1>8. AtLength
  BY <1>6, <1>7 DEF AtLength
<1> QED
  BY <1>2, <1>4, <1>5, <1>8 DEF OnTrack, InLength, InWord

\* What the type invariant says, in the form the following proofs use.
LEMMA Counts ==
    ASSUME TypeOK
    PROVE  /\ Sound(sent) /\ Len(sent) \in Nat /\ Len(got) \in Nat /\ Len(sentence) \in Nat
           /\ data \in Bytes /\ ret \in Bytes /\ left \in Nat
           /\ \A k \in 1 .. Len(sent) : Len(sent[k]) \in Nat
<1>1. sent \in Replies /\ Sound(sent)
  BY RepliesAreSound DEF TypeOK
<1>2. sentence \in Seq(Text) /\ got \in Seq(Seq(Text)) /\ data \in Bytes /\ ret \in Bytes
      /\ left \in Nat
  BY DEF TypeOK, Text, Bytes
<1>3. Len(got) \in Nat /\ Len(sentence) \in Nat
  BY ONLY <1>2
<1>4. Len(sent) \in Nat /\ \A k \in 1 .. Len(sent) : Len(sent[k]) \in Nat
  BY <1>1 DEF Sound, IsSentence
<1> QED
  BY <1>1, <1>2, <1>3, <1>4

\* Inside a sentence: the word being read, its code, and what follows.
LEMMA WordHere ==
    ASSUME TypeOK, InsideSentence
    PROVE  /\ CurrentWord \in Bytes /\ Len(CurrentWord) \in Lengths /\ Len(CurrentWord) # 0
           /\ CurrentWord[1] < 128
           /\ After \in Bytes /\ CurrentWord \o After \in Bytes
           /\ WriteLen(Len(CurrentWord)) \in Bytes /\ Len(WriteLen(Len(CurrentWord))) \in 1 .. 5
           /\ Rest(sent, Len(got), Len(sentence))
                = WriteLen(Len(CurrentWord)) \o (CurrentWord \o After)
<1>1. Sound(sent) /\ Len(got) \in Nat /\ Len(sentence) \in Nat
  BY Counts
<1>2. Len(got) < Len(sent) /\ Len(sentence) < Len(sent[Len(got) + 1])
  BY DEF InsideSentence, Current
<1>3. /\ CurrentWord \in Bytes /\ Len(CurrentWord) \in Lengths /\ Len(CurrentWord) # 0
      /\ CurrentWord[1] < 128 /\ After \in Bytes
      /\ Rest(sent, Len(got), Len(sentence))
           = WriteLen(Len(CurrentWord)) \o (CurrentWord \o After)
  <2> DEFINE k == Len(got)
             j == Len(sentence)
             w == sent[k + 1][j + 1]
  <2>1. w = CurrentWord /\ Rest(sent, k, j + 1) = After
    BY DEF CurrentWord, Current, After
  <2> HIDE DEF w
  <2>2. /\ w \in Bytes /\ Len(w) \in Lengths /\ Len(w) # 0 /\ w[1] < 128
        /\ Rest(sent, k, j + 1) \in Bytes
        /\ Rest(sent, k, j) = WriteLen(Len(w)) \o (w \o Rest(sent, k, j + 1))
    BY <1>1, <1>2, RestWord, Zenon DEF w
  <2> QED
    BY <2>1, <2>2, Zenon
<1>4. CurrentWord \o After \in Bytes
  BY ONLY <1>3 DEF Bytes
<1>5. WriteLen(Len(CurrentWord)) \in Bytes /\ Len(WriteLen(Len(CurrentWord))) \in 1 .. 5
  BY <1>3, CodeType DEF Bytes
<1> QED
  BY <1>3, <1>4, <1>5

\* Receiving the first byte of the next part.
LEMMA FirstByte ==
    ASSUME NEW d \in Bytes, NEW a \in Bytes, NEW b \in Bytes, NEW up,
           Arrives(d, a \o b, up), 1 <= Len(a), d # <<>>
    PROVE  /\ Arrives(Behind(d, 1), Behind(a, 1) \o b, up)
           /\ Head(d) = a[1]
<1>1. 1 <= Len(d) /\ Head(d) = d[1] /\ Len(d) \in Nat /\ Len(a) \in Nat
  BY DEF Bytes
<1>2. /\ Arrives(Behind(d, 1), Behind(a, 1) \o b, up)
      /\ SubSeq(d, 1, 1) = SubSeq(a, 1, 1)
  BY <1>1, ArrivesBehind
<1>3. SubSeq(d, 1, 1)[1] = d[1] /\ SubSeq(a, 1, 1)[1] = a[1]
  BY <1>1 DEF Bytes
<1> QED
  BY <1>1, <1>2, <1>3

\* The length of the word is complete: the word itself comes next.
LEMMA WordBegins ==
    ASSUME TypeOK, GotIsSent, SentenceIsSent, InsideSentence, sent' = sent,
           LengthRead(Len(CurrentWord)), Arrives(data', CurrentWord \o After, open')
    PROVE  OnTrack'
<1>1. CurrentWord \in Bytes /\ Len(CurrentWord) # 0 /\ After \in Bytes
  BY WordHere
<1>2. phase' = "word" /\ left' = Len(CurrentWord) /\ ret' = <<>>
      /\ UNCHANGED <<got, sentence>>
  BY <1>1 DEF LengthRead
<1>3. Current' = Current /\ CurrentWord' = CurrentWord /\ After' = After
  BY <1>2 DEF Current, CurrentWord, After
<1>4. InsideSentence' /\ GotIsSent' /\ SentenceIsSent'
  BY <1>2, <1>3 DEF InsideSentence, GotIsSent, SentenceIsSent
<1>5. Behind(CurrentWord, 0) \o After = CurrentWord \o After
  BY <1>1, EndJoin DEF Bytes
<1>6. Len(ret') = 0 /\ left' + 0 = Len(CurrentWord) /\ ret' = SubSeq(CurrentWord, 1, 0)
  BY <1>1, <1>2 DEF Bytes
<1>7. InWord'
  BY <1>3, <1>4, <1>5, <1>6 DEF InWord
<1> QED
  BY <1>2, <1>4, <1>7 DEF OnTrack, AtLength, InLength

\* A sentence has been read to its end: it is the one that was sent.
LEMMA SentenceIsWhole ==
    ASSUME TypeOK, GotIsSent, SentenceIsSent, Len(got) # Len(sent),
           Len(sentence) = Len(Current)
    PROVE  sentence = AsRead(sent)[Len(got) + 1]
<1>1. Sound(sent) /\ Len(got) \in Nat /\ Len(sent) \in Nat /\ Len(got) <= Len(sent)
  BY Counts DEF GotIsSent
<1>2. Len(got) + 1 \in 1 .. Len(sent)
  BY <1>1
<1>3. IsSentence(Current)
  BY <1>1, <1>2 DEF Sound, Current
<1>4. DOMAIN sent = 1 .. Len(sent)
  BY <1>1 DEF Sound
<1>5. AsRead(sent)[Len(got) + 1] = [j \in DOMAIN Current |-> Word(Current[j])]
  BY <1>2, <1>4 DEF AsRead, Current
<1>6. DOMAIN Current = 1 .. Len(Current)
  BY <1>3 DEF IsSentence
<1>7. \A i \in 1 .. Len(Current) : sentence[i] = Word(Current[i])
  BY DEF SentenceIsSent
<1>8. sentence \in Seq(Text)
  BY DEF TypeOK, Text, Bytes
<1>9. sentence = [j \in 1 .. Len(Current) |-> sentence[j]]
  <2> DEFINE n == Len(Current)
  <2>1. Len(sentence) = n
    OBVIOUS
  <2> HIDE DEF n
  <2>2. sentence = [j \in 1 .. n |-> sentence[j]]
    BY ONLY <1>8, <2>1
  <2> QED
    BY <2>2 DEF n
<1>10. sentence = [j \in 1 .. Len(Current) |-> Word(Current[j])]
  BY <1>7, <1>9, Zenon
<1> QED
  BY <1>5, <1>6, <1>10, Zenon

\* Joining at the ends of a sequence of bytes.
LEMMA EndOfBytes ==
    ASSUME NEW a \in Bytes, NEW b \in Bytes
    PROVE  Behind(a, Len(a)) \o b = b /\ Behind(a, 0) \o b = a \o b
  BY EndJoin DEF Bytes

\* The first byte of a length keeps the reader on track.
LEMMA TrackFirst ==
    ASSUME TypeOK, OnTrack, ReadFirst PROVE OnTrack'
<1>0. GotIsSent /\ SentenceIsSent /\ AtLength
  BY DEF OnTrack
<1>1. /\ Sound(sent) /\ Len(sent) \in Nat /\ Len(got) \in Nat /\ Len(sentence) \in Nat
      /\ data \in Bytes /\ \A k \in 1 .. Len(sent) : Len(sent[k]) \in Nat
  BY Counts
<1>2. /\ phase = "len" /\ data # <<>> /\ data' = Behind(data, 1) /\ sent' = sent /\ open' = open
      /\ torn' = torn
  BY DEF ReadFirst, Received, Behind
<1>3. Arrives(data, Rest(sent, Len(got), Len(sentence)), open)
  BY <1>0, <1>2 DEF AtLength
<1>4. Len(got) < Len(sent)
  <2> SUFFICES ASSUME Len(got) = Len(sent) PROVE FALSE
    BY <1>0, <1>1 DEF GotIsSent
  <2>1. Rest(sent, Len(got), Len(sentence)) = <<>>
    BY DEF Rest
  <2>2. Len(data) <= Len(<<>>)
    BY <1>3, <2>1 DEF Arrives, Begins
  <2> QED
    BY <1>1, <1>2, <2>2 DEF Bytes
<1>5. Len(got) + 1 \in 1 .. Len(sent) /\ Len(got) # Len(sent) /\ Len(Current) \in Nat
      /\ Len(sentence) <= Len(Current)
  BY <1>0, <1>1, <1>4 DEF Current, SentenceIsSent
<1>6. CASE Len(sentence) = Len(Current)
  <2> DEFINE next == Rest(sent, Len(got) + 1, 0)
  <2>1. Rest(sent, Len(got), Len(sentence)) = <<0>> \o next /\ next \in Bytes
    BY <1>1, <1>4, <1>6, RestEnd, Zenon DEF Current
  <2>2. <<0>> \in Bytes /\ Len(<<0>>) = 1 /\ <<0>>[1] = 0
    BY ZeroLength
  <2> HIDE DEF next
  <2>3. Arrives(Behind(data, 1), Behind(<<0>>, 1) \o next, open) /\ Head(data) = 0
    <3> DEFINE z == <<0>>
    <3>1. z \in Bytes /\ 1 <= Len(z) /\ z[1] = 0 /\ Arrives(data, z \o next, open)
      BY <1>3, <2>1, <2>2
    <3> HIDE DEF z
    <3>2. Arrives(Behind(data, 1), Behind(z, 1) \o next, open) /\ Head(data) = z[1]
      BY <1>1, <1>2, <2>1, <3>1, FirstByte, Zenon
    <3> QED
      BY <3>1, <3>2 DEF z
  <2>4. Behind(<<0>>, 1) \o next = next
    BY <2>1, <2>2, EndOfBytes
  <2>5. MoreBytes(0) = 0 /\ FirstPart(0) = 0
    BY DEF MoreBytes, FirstPart
  <2>6. LengthRead(0)
    BY <2>3, <2>5, Zenon DEF ReadFirst
  <2>7. got' = Append(got, sentence) /\ sentence' = <<>> /\ phase' = "len"
    BY <2>6 DEF LengthRead
  <2>8. sentence = AsRead(sent)[Len(got) + 1]
    BY <1>0, <1>5, <1>6, SentenceIsWhole
  <2>9. got \in Seq(Seq(Text)) /\ sentence \in Seq(Text)
    BY DEF TypeOK, Text, Bytes
  <2>10. Len(got') = Len(got) + 1 /\ got'[Len(got) + 1] = sentence
         /\ \A i \in 1 .. Len(got) : got'[i] = got[i]
    BY <2>7, <2>9
  <2>11. GotIsSent'
    <3>1. Len(got') <= Len(sent)
      BY <1>1, <1>4, <2>10
    <3>2. \A i \in 1 .. Len(got) : got[i] = AsRead(sent)[i]
      BY <1>0 DEF GotIsSent
    <3>3. ASSUME NEW i \in 1 .. Len(got') PROVE got'[i] = AsRead(sent)[i]
      <4>1. i = Len(got) + 1 \/ i \in 1 .. Len(got)
        BY <1>1, <2>10
      <4> QED
        BY <2>8, <2>10, <3>2, <4>1, Zenon
    <3> QED
      BY <1>2, <3>1, <3>3 DEF GotIsSent
  <2>12. Len(sentence') = 0
    BY <2>7
  <2>13. SentenceIsSent'
    <3>1. Len(got') # Len(sent) => Len(Current') \in Nat
      BY <1>1, <1>2, <1>4, <2>10 DEF Current
    <3> QED
      BY <1>2, <2>7, <2>12, <3>1 DEF SentenceIsSent
  <2>14. Arrives(data', Rest(sent', Len(got'), Len(sentence')), open')
    BY <1>2, <2>3, <2>4, <2>10, <2>12, Zenon DEF next
  <2> QED
    BY <2>7, <2>11, <2>13, <2>14 DEF OnTrack, AtLength, InLength, InWord
<1>7. CASE Len(sentence) < Len(Current)
  <2> DEFINE w == CurrentWord
             c == WriteLen(Len(w))
             X == w \o After
  <2>1. InsideSentence
    BY <1>4, <1>7 DEF InsideSentence
  <2>2. /\ w \in Bytes /\ Len(w) \in Lengths /\ Len(w) # 0 /\ After \in Bytes /\ X \in Bytes
        /\ c \in Bytes /\ Len(c) \in 1 .. 5
        /\ Rest(sent, Len(got), Len(sentence)) = c \o X
    BY <2>1, WordHere
  <2> DEFINE n == Len(c)
  <2>3. n \in 1 .. 5 /\ n = 1 + MoreBytes(c[1]) /\ Value(c, n) = Len(w)
    BY <2>2, CodeValue
  <2> HIDE DEF w, c, X, n
  <2>8. 1 <= Len(c)
    <3>1. 1 <= n
      BY ONLY <2>3
    <3> QED
      BY <3>1 DEF n
  <2>4. Arrives(data', Behind(c, 1) \o X, open') /\ Head(data) = c[1]
    <3>1. Arrives(data, c \o X, open)
      BY <1>3, <2>2, Zenon
    <3> QED
      BY <1>1, <1>2, <2>2, <2>8, <3>1, FirstByte, Zenon
  <2>5. Value(c, 1) = FirstPart(c[1])
    BY DEF Value
  <2>6. CASE MoreBytes(c[1]) = 0
    <3>1. n = 1 /\ FirstPart(c[1]) = Len(w)
      BY <2>3, <2>5, <2>6
    <3>2. Behind(c, n) \o X = X
      BY <2>2, EndOfBytes, Zenon DEF n
    <3>3. LengthRead(Len(w))
      BY <2>4, <2>6, <3>1, Zenon DEF ReadFirst
    <3>4. Arrives(data', X, open')
      BY <2>4, <3>1, <3>2, Zenon
    <3> QED
      BY <1>0, <1>2, <2>1, <3>3, <3>4, WordBegins DEF w, X
  <2>7. CASE MoreBytes(c[1]) # 0
    <3>1. /\ phase' = "more" /\ left' = MoreBytes(c[1]) /\ length' = FirstPart(c[1])
          /\ UNCHANGED <<ret, sentence, got, whole>>
      BY <2>4, <2>7 DEF ReadFirst
    <3>2. n - left' = 1 /\ 1 \in 1 .. n - 1
      <4>1. MoreBytes(c[1]) \in 0 .. 4
        BY DEF MoreBytes
      <4> QED
        BY ONLY <2>3, <2>7, <3>1, <4>1
    <3>3. Current' = Current /\ CurrentWord' = CurrentWord /\ After' = After
      BY <1>2, <3>1 DEF Current, CurrentWord, After
    <3>4. InsideSentence' /\ GotIsSent' /\ SentenceIsSent'
      BY <1>0, <1>2, <2>1, <3>1, <3>3 DEF InsideSentence, GotIsSent, SentenceIsSent
    <3>5. /\ n - left' \in 1 .. n - 1 /\ length' = Value(c, n - left')
          /\ Arrives(data', Behind(c, n - left') \o X, open')
      BY <2>4, <2>5, <3>1, <3>2
    <3>6. InLength'
      BY <3>3, <3>4, <3>5, Zenon DEF InLength, c, w, X, n
    <3> QED
      BY <3>1, <3>4, <3>6 DEF OnTrack, AtLength, InWord
  <2> QED
    BY <2>6, <2>7
<1> QED
  BY <1>1, <1>5, <1>6, <1>7

\* So does a further byte of a length,
LEMMA TrackMore ==
    ASSUME TypeOK, Positive, OnTrack, ReadMore PROVE OnTrack'
<1>0. GotIsSent /\ SentenceIsSent /\ InLength
  BY DEF OnTrack
<1>1. data \in Bytes /\ left \in Nat /\ left # 0
  BY Counts DEF Positive, ReadMore
<1>2. /\ phase = "more" /\ data # <<>> /\ data' = Behind(data, 1) /\ sent' = sent /\ open' = open
      /\ torn' = torn
  BY DEF ReadMore, Received, Behind
<1> DEFINE w == CurrentWord
           c == WriteLen(Len(w))
           X == w \o After
           n == Len(c)
           p == n - left
<1>3. /\ InsideSentence /\ p \in 1 .. n - 1 /\ length = Value(c, p)
      /\ Arrives(data, Behind(c, p) \o X, open)
  BY <1>0, <1>2, Zenon DEF InLength
<1>4. /\ w \in Bytes /\ Len(w) \in Lengths /\ Len(w) # 0 /\ After \in Bytes /\ X \in Bytes
      /\ c \in Bytes
  BY <1>3, WordHere
<1>5. /\ n \in 1 .. 5 /\ Value(c, n) = Len(w)
      /\ \A i \in 1 .. n - 1 : Value(c, i + 1) = Shifted(Value(c, i), c[i + 1])
  <2>1. n \in 1 .. 5
    BY <1>3, WordHere
  <2> QED
    BY <1>4, <2>1, CodeValue
<1>6. n = Len(c) /\ p = n - left
  OBVIOUS
<1> HIDE DEF w, c, X, n, p
<1>7. p \in Nat /\ p + 1 \in 1 .. n /\ p + 1 <= n
  BY ONLY <1>3, <1>5
<1>8. /\ Arrives(data', Behind(c, p + 1) \o X, open')
      /\ Head(data) = c[p + 1]
  <2> DEFINE a == Behind(c, p)
  <2>1. a \in Bytes /\ 1 <= Len(a) /\ a[1] = c[p + 1]
    <3>1. p <= Len(c) /\ p + 1 <= Len(c)
      BY <1>6, <1>7
    <3> QED
      BY ONLY <1>4, <1>7, <3>1 DEF Behind, Bytes
  <2>2. Behind(a, 1) = Behind(c, p + 1)
    <3>1. p + 1 <= Len(c)
      BY <1>6, <1>7
    <3> QED
      BY <1>4, <1>7, <3>1, BehindBehind DEF Bytes
  <2> HIDE DEF a
  <2>3. Arrives(data, a \o X, open)
    BY <1>3 DEF a
  <2>4. Arrives(Behind(data, 1), Behind(a, 1) \o X, open) /\ Head(data) = a[1]
    BY <1>1, <1>2, <1>4, <2>1, <2>3, FirstByte, Zenon
  <2> QED
    BY <1>2, <2>1, <2>2, <2>4, Zenon
<1>9. Shifted(length, Head(data)) = Value(c, p + 1)
  BY <1>3, <1>5, <1>8, Zenon
<1>10. CASE left = 1
  <2>1. p + 1 = n
    BY ONLY <1>5, <1>6, <1>10
  <2>2. LengthRead(Len(w))
    BY <1>5, <1>9, <1>10, <2>1, Zenon DEF ReadMore
  <2>3. Behind(c, n) \o X = X
    BY <1>4, <1>6, EndOfBytes, Zenon
  <2>4. Arrives(data', X, open')
    BY <1>8, <2>1, <2>3, Zenon
  <2> QED
    BY <1>0, <1>2, <1>3, <2>2, <2>4, WordBegins DEF w, X
<1>11. CASE left # 1
  <2>1. left' = left - 1 /\ length' = Value(c, p + 1)
        /\ UNCHANGED <<phase, ret, sentence, got, whole>>
    BY <1>9, <1>11 DEF ReadMore
  <2>2. n - left' = p + 1 /\ p + 1 \in 1 .. n - 1
    BY ONLY <1>1, <1>5, <1>6, <1>7, <1>11, <2>1
  <2>3. Current' = Current /\ CurrentWord' = CurrentWord /\ After' = After
    BY <1>2, <2>1 DEF Current, CurrentWord, After
  <2>4. InsideSentence' /\ GotIsSent' /\ SentenceIsSent'
    BY <1>0, <1>2, <1>3, <2>1, <2>3 DEF InsideSentence, GotIsSent, SentenceIsSent
  <2>5. /\ n - left' \in 1 .. n - 1 /\ length' = Value(c, n - left')
        /\ Arrives(data', Behind(c, n - left') \o X, open')
    BY <1>8, <2>1, <2>2
  <2>6. InLength'
    BY <2>3, <2>4, <2>5, Zenon DEF InLength, c, w, X, n
  <2> QED
    BY <1>2, <2>1, <2>4, <2>6 DEF OnTrack, AtLength, InWord
<1> QED
  BY <1>10, <1>11

\* a piece of a word that is not torn out of it,
LEMMA TrackPiece ==
    ASSUME TypeOK, Positive, OnTrack, ReadPiece, ~torn' PROVE OnTrack'
<1>0. GotIsSent /\ SentenceIsSent /\ InWord
  BY DEF OnTrack
<1>1. PICK k \in 1 .. left :
        /\ k <= Len(data)
        /\ Received(k)
        /\ IF SubSeq(data, 1, k)[1] >= 128
           THEN WordRead(SubSeq(data, 1, k), TRUE)
           ELSE IF k = left
           THEN WordRead(ret \o SubSeq(data, 1, k), FALSE)
           ELSE ret' = ret \o SubSeq(data, 1, k) /\ left' = left - k
                /\ UNCHANGED <<phase, sentence>>
        /\ torn' = (torn \/ (SubSeq(data, 1, k)[1] >= 128 /\ (ret # <<>> \/ k < left)))
  BY DEF ReadPiece
<1>2. /\ UNCHANGED <<sent, open, length, got, whole>> /\ phase = "word"
      /\ data' = Behind(data, k)
  BY <1>1 DEF ReadPiece, Received, Behind
<1>3. data \in Bytes /\ left \in Nat /\ ret \in Bytes /\ Len(sentence) \in Nat
  BY Counts
<1> DEFINE w == CurrentWord
           n == Len(w)
           m == Len(ret)
           piece == SubSeq(data, 1, k)
<1>4. /\ InsideSentence /\ left + m = n /\ ret = SubSeq(w, 1, m)
      /\ Arrives(data, Behind(w, m) \o After, open)
  BY <1>0, <1>2 DEF InWord
<1>5. w \in Bytes /\ w[1] < 128 /\ After \in Bytes
  BY <1>4, WordHere
<1>6. m \in Nat /\ n \in Nat /\ n = Len(w) /\ m = Len(ret)
  BY <1>3, <1>5 DEF Bytes
<1> HIDE DEF w, n, m, piece
<1>7. k \in Nat /\ 1 <= k /\ k <= left /\ m + k <= n /\ m <= n
  BY <1>3, <1>4, <1>6
<1> DEFINE a == Behind(w, m)
<1>8. a \in Bytes /\ Len(a) = left /\ a[1] = w[m + 1]
  <2>1. left + m = n
    BY <1>4
  <2>2. w \in Seq(Byte) /\ m + 1 <= n
    BY <1>5, <1>6, <1>7 DEF Bytes
  <2>3. a \in Seq(Byte) /\ Len(a) = n - m /\ a[1] = w[m + 1]
    BY ONLY <1>6, <2>2 DEF Behind
  <2>4. n - m = left
    BY ONLY <1>3, <1>6, <2>1
  <2>5. a \in Bytes
    BY <2>3 DEF Bytes
  <2> QED
    BY ONLY <2>3, <2>4, <2>5, Zenon
<1>9. Behind(a, k) = Behind(w, m + k) /\ SubSeq(w, 1, m) \o SubSeq(a, 1, k) = SubSeq(w, 1, m + k)
  BY <1>5, <1>6, <1>7, BehindBehind, PartsJoin DEF Bytes
<1> HIDE DEF a
<1>10. Arrives(data', Behind(w, m + k) \o After, open') /\ piece = SubSeq(a, 1, k)
  <2>1. Arrives(data, a \o After, open) /\ k <= Len(a)
    BY <1>4, <1>7, <1>8 DEF a
  <2> QED
    <3>1. k <= Len(data)
      BY <1>1
    <3>2. /\ Arrives(Behind(data, k), Behind(a, k) \o After, open)
          /\ SubSeq(data, 1, k) = SubSeq(a, 1, k)
      BY <1>3, <1>5, <1>7, <1>8, <2>1, <3>1, ArrivesBehind
    <3>3. data' = Behind(data, k) /\ Behind(a, k) = Behind(w, m + k) /\ open' = open
      BY <1>2, <1>9
    <3> QED
      BY ONLY <3>2, <3>3, Zenon DEF piece
<1>11. piece[1] = w[m + 1]
  BY <1>7, <1>8, <1>10 DEF Bytes
<1>12. ret \o piece = SubSeq(w, 1, m + k)
  BY <1>4, <1>9, <1>10, Zenon
<1>13. ~(piece[1] >= 128)
  <2> SUFFICES ASSUME piece[1] >= 128 PROVE FALSE
    OBVIOUS
  <2>1. ret = <<>>
    BY <1>1 DEF piece
  <2>2. m = 0
    BY <1>6, <2>1
  <2>3. piece[1] = w[1]
    BY <1>11, <2>2
  <2>4. w[1] \in Byte
    BY <1>5, <1>6, <1>7, ElementIn DEF Bytes
  <2> QED
    BY <1>5, <2>3, <2>4, BytesAreNumbers
<1>14. CASE k = left
  <2>1. WordRead(ret \o piece, FALSE)
    BY <1>1, <1>13, <1>14 DEF piece
  <2>2. m + k = n
    BY ONLY <1>4, <1>6, <1>7, <1>14, <1>3
  <2>3. ret \o piece = w
    BY <1>5, <1>6, <1>12, <2>2 DEF Bytes
  <2>4. sentence' = Append(sentence, Word(w)) /\ phase' = "len"
    BY <2>1, <2>3 DEF WordRead, Word
  <2>5. sentence \in Seq(Text)
    BY DEF TypeOK, Text, Bytes
  <2>6. /\ Len(sentence') = Len(sentence) + 1 /\ sentence'[Len(sentence) + 1] = Word(w)
        /\ \A i \in 1 .. Len(sentence) : sentence'[i] = sentence[i]
    BY <2>4, <2>5
  <2>7. Current' = Current
    BY <1>2 DEF Current
  <2>8. Len(got) # Len(sent) /\ Len(sentence') <= Len(Current)
    <3>1. Len(got) < Len(sent) /\ Len(sentence) < Len(Current)
      BY <1>4 DEF InsideSentence
    <3>2. /\ Len(sent) \in Nat /\ Len(got) \in Nat
          /\ \A i \in 1 .. Len(sent) : Len(sent[i]) \in Nat
      BY Counts
    <3>3. Len(got) + 1 \in 1 .. Len(sent)
      BY ONLY <3>1, <3>2
    <3>4. Len(Current) \in Nat
      BY <3>2, <3>3 DEF Current
    <3> QED
      BY <1>3, <2>6, <3>1, <3>2, <3>4
  <2>9. SentenceIsSent'
    <3>1. \A i \in 1 .. Len(sentence) : sentence[i] = Word(Current[i])
      BY <1>0, <2>8 DEF SentenceIsSent
    <3>2. ASSUME NEW i \in 1 .. Len(sentence') PROVE sentence'[i] = Word(Current[i])
      <4>1. i = Len(sentence) + 1 \/ i \in 1 .. Len(sentence)
        BY <1>3, <2>6
      <4> QED
        BY <2>6, <3>1, <4>1, Zenon DEF w, CurrentWord
    <3> QED
      BY <1>2, <2>7, <2>8, <3>2 DEF SentenceIsSent
  <2>10. Behind(w, n) \o After = After
    BY <1>5, <1>6, EndOfBytes, Zenon
  <2>11. Rest(sent', Len(got'), Len(sentence')) = After
    BY <1>2, <2>6 DEF After
  <2>12. AtLength'
    BY <1>10, <2>2, <2>10, <2>11, Zenon DEF AtLength
  <2> QED
    BY <1>0, <1>2, <2>4, <2>9, <2>12 DEF OnTrack, GotIsSent, InLength, InWord
<1>15. CASE k # left
  <2>1. ret' = ret \o piece /\ left' = left - k /\ UNCHANGED <<phase, sentence>>
    BY <1>1, <1>13, <1>15 DEF piece
  <2>2. Current' = Current /\ CurrentWord' = w /\ After' = After
    BY <1>2, <2>1 DEF Current, CurrentWord, After, w
  <2>3. InsideSentence' /\ GotIsSent' /\ SentenceIsSent'
    BY <1>0, <1>2, <1>4, <2>1, <2>2 DEF InsideSentence, GotIsSent, SentenceIsSent
  <2>4. ret' = SubSeq(w, 1, m + k) /\ Len(ret') = m + k
    BY <1>5, <1>6, <1>7, <1>12, <2>1 DEF Bytes
  <2>5. left' + (m + k) = n
    <3>1. left + m = n
      BY <1>4
    <3> QED
      BY ONLY <1>3, <1>6, <1>7, <2>1, <3>1
  <2>6. InWord'
    BY <1>6, <1>10, <2>2, <2>3, <2>4, <2>5, Zenon DEF InWord
  <2> QED
    BY <1>2, <2>1, <2>3, <2>6 DEF OnTrack, AtLength, InLength
<1> QED
  BY <1>14, <1>15

\* and the end of the connection, which takes only bytes from the end.
LEMMA TrackClose ==
    ASSUME TypeOK, OnTrack, Close PROVE OnTrack'
<1>0. GotIsSent /\ SentenceIsSent /\ AtLength /\ InLength /\ InWord
  BY DEF OnTrack
<1>1. /\ UNCHANGED <<sent, phase, left, length, ret, sentence, got>> /\ open' = FALSE
      /\ \E k \in 0 .. Len(data) : data' = SubSeq(data, 1, k)
  BY DEF Close
<1>2. data \in Bytes
  BY Counts
<1>3. ASSUME NEW b, Arrives(data, b, open) PROVE Arrives(data', b, open')
  <2>1. b \in Bytes /\ Begins(data, b)
    BY <1>3 DEF Arrives
  <2>2. Begins(data', b)
    BY <1>1, <1>2, <2>1, BeginsCut DEF Bytes
  <2> QED
    BY <1>1, <2>1, <2>2 DEF Arrives
<1>4. Current' = Current /\ CurrentWord' = CurrentWord /\ After' = After
  BY <1>1 DEF Current, CurrentWord, After
<1>5. InsideSentence' = InsideSentence /\ GotIsSent' /\ SentenceIsSent'
  BY <1>0, <1>1, <1>4 DEF InsideSentence, GotIsSent, SentenceIsSent
<1>6. AtLength'
  BY <1>0, <1>1, <1>3 DEF AtLength
<1>7. InLength'
  BY <1>0, <1>1, <1>3, <1>4, <1>5 DEF InLength
<1>8. InWord'
  BY <1>0, <1>1, <1>3, <1>4, <1>5 DEF InWord
<1> QED
  BY <1>5, <1>6, <1>7, <1>8 DEF OnTrack

\* readStr raises on an empty recv only.
RaisedWhenClosed == phase = "raised" => ~open

\* The inductive invariant.
RInv == TypeOK /\ Positive /\ RaisedWhenClosed /\ (~torn => OnTrack)

\* The invariant holds initially,
LEMMA RInvInit == Init => RInv
  BY TypeInit, TrackInit DEF RInv, RaisedWhenClosed, Init

\* The reader raises only when the connection has ended.
LEMMA RaisedStep ==
    ASSUME RaisedWhenClosed, TypeOK, [Next]_vars PROVE RaisedWhenClosed'
<1>1. CASE ReadFirst
  <2>1. phase' # "raised"
    BY <1>1 DEF ReadFirst, LengthRead
  <2> QED
    BY <2>1 DEF RaisedWhenClosed
<1>2. CASE ReadMore
  <2>1. phase' # "raised"
    BY <1>2 DEF ReadMore, LengthRead
  <2> QED
    BY <2>1 DEF RaisedWhenClosed
<1>3. CASE ReadPiece
  <2>1. phase' # "raised"
    BY <1>3 DEF ReadPiece, WordRead
  <2> QED
    BY <2>1 DEF RaisedWhenClosed
<1>4. CASE ReadClosed
  BY <1>4 DEF ReadClosed, RaisedWhenClosed
<1>5. CASE Close
  BY <1>5 DEF Close, RaisedWhenClosed
<1>6. CASE UNCHANGED vars
  BY <1>6 DEF vars, RaisedWhenClosed
<1> QED
  BY <1>1, <1>2, <1>3, <1>4, <1>5, <1>6 DEF Next, Read

\* Every step that tears no word keeps the reader on track.
LEMMA TrackStep ==
    ASSUME RInv, [Next]_vars, ~torn' PROVE OnTrack'
<1>0. TypeOK /\ Positive /\ (~torn => OnTrack)
  BY DEF RInv
<1>1. CASE ReadFirst
  BY <1>0, <1>1, TrackFirst DEF ReadFirst
<1>2. CASE ReadMore
  BY <1>0, <1>2, TrackMore DEF ReadMore
<1>3. CASE ReadPiece
  <2>1. ~torn
    BY <1>3 DEF ReadPiece
  <2> QED
    BY <1>0, <1>3, <2>1, TrackPiece
<1>4. CASE ReadClosed
  <2>1. ~torn /\ phase' = "raised"
        /\ UNCHANGED <<sent, data, open, left, length, ret, sentence, got>>
    BY <1>4 DEF ReadClosed
  <2>2. GotIsSent /\ SentenceIsSent
    BY <1>0, <2>1 DEF OnTrack
  <2>3. GotIsSent' /\ SentenceIsSent'
    BY <2>1, <2>2 DEF GotIsSent, SentenceIsSent, Current
  <2> QED
    BY <2>1, <2>3 DEF OnTrack, AtLength, InLength, InWord
<1>5. CASE Close
  BY <1>0, <1>5, TrackClose DEF Close
<1>6. CASE UNCHANGED vars
  <2>1. ~torn /\ OnTrack
    BY <1>0, <1>6 DEF vars
  <2>2. GotIsSent' /\ SentenceIsSent'
    BY <1>6, <2>1 DEF vars, OnTrack, GotIsSent, SentenceIsSent, Current
  <2>3. Current' = Current /\ CurrentWord' = CurrentWord /\ After' = After
        /\ InsideSentence' = InsideSentence
    BY <1>6 DEF vars, Current, CurrentWord, After, InsideSentence
  <2>4. AtLength' /\ InLength' /\ InWord'
    BY <1>6, <2>1, <2>3 DEF vars, OnTrack, AtLength, InLength, InWord
  <2> QED
    BY <2>2, <2>4 DEF OnTrack
<1> QED
  BY <1>1, <1>2, <1>3, <1>4, <1>5, <1>6 DEF Next, Read

\* every step preserves it,
LEMMA RInvStep == RInv /\ [Next]_vars => RInv'
  BY TypeStep, RaisedStep, TrackStep DEF RInv

\* and so it holds in every state.
LEMMA RInvAlways == Spec => []RInv
  BY RInvInit, RInvStep, PTL DEF Spec

\* Every variable stays within its range, for any replies.
THEOREM TypeCorrect == Spec => []TypeOK
<1>1. RInv => TypeOK
  BY DEF RInv
<1> QED
  BY <1>1, RInvAlways, PTL

\* While the connection is up and no word has been torn, readSentence has returned
\* every sentence of the reply as soon as all bytes have been received.
NothingIsLost == open /\ ~torn /\ data = <<>> => got = AsRead(sent) /\ sentence = <<>>

\* readSentence loses, invents and reorders nothing: what the callers have when the
\* last byte is read is the reply, word for word.
THEOREM RepliesArriveWhole == Spec => []NothingIsLost
<1>1. RInv => NothingIsLost
  <2> SUFFICES ASSUME RInv, open, ~torn, data = <<>> PROVE got = AsRead(sent) /\ sentence = <<>>
    BY DEF NothingIsLost
  <2>0. /\ TypeOK /\ Positive /\ RaisedWhenClosed
        /\ GotIsSent /\ SentenceIsSent /\ AtLength /\ InLength /\ InWord
    BY DEF RInv, OnTrack
  <2>1. /\ Sound(sent) /\ Len(sent) \in Nat /\ Len(got) \in Nat /\ Len(sentence) \in Nat
        /\ left \in Nat /\ \A k \in 1 .. Len(sent) : Len(sent[k]) \in Nat
    BY <2>0, Counts
  <2>2. ASSUME NEW b, Arrives(data, b, open) PROVE Len(b) = 0
    BY <2>2 DEF Arrives
  <2>3. ASSUME NEW a \in Bytes, NEW b \in Bytes, Len(a) # 0 PROVE Len(a \o b) # 0
    BY <2>3 DEF Bytes
  <2>4. phase # "more"
    <3> SUFFICES ASSUME phase = "more" PROVE FALSE
      OBVIOUS
    <3> DEFINE w == CurrentWord
               c == WriteLen(Len(w))
               p == Len(c) - left
    <3>1. InsideSentence /\ p \in 1 .. Len(c) - 1 /\ Arrives(data, Behind(c, p) \o (w \o After), open)
      BY <2>0 DEF InLength
    <3>2. c \in Bytes /\ w \o After \in Bytes
      BY <2>0, <3>1, WordHere
    <3> HIDE DEF w, c, p
    <3>3. Behind(c, p) \in Bytes /\ Len(Behind(c, p)) # 0
      BY <3>1, <3>2 DEF Behind, Bytes
    <3>4. Len(Behind(c, p) \o (w \o After)) = 0
      BY <2>2, <3>1, Zenon
    <3>5. Len(Behind(c, p) \o (w \o After)) # 0
      BY <2>3, <3>2, <3>3
    <3> QED
      BY <3>4, <3>5, Zenon
  <2>5. phase # "word"
    <3> SUFFICES ASSUME phase = "word" PROVE FALSE
      OBVIOUS
    <3> DEFINE w == CurrentWord
               m == Len(ret)
    <3>1. /\ InsideSentence /\ left + m = Len(w) /\ Arrives(data, Behind(w, m) \o After, open)
      BY <2>0 DEF InWord
    <3>2. w \in Bytes /\ After \in Bytes /\ m \in Nat /\ left # 0
      BY <2>0, <3>1, WordHere, Counts DEF Positive, Bytes
    <3> HIDE DEF w, m
    <3>3. Behind(w, m) \in Bytes /\ Len(Behind(w, m)) # 0
      BY <2>1, <3>1, <3>2 DEF Behind, Bytes
    <3>4. Len(Behind(w, m) \o After) = 0
      BY <2>2, <3>1, Zenon
    <3>5. Len(Behind(w, m) \o After) # 0
      BY <2>3, <3>2, <3>3
    <3> QED
      BY <3>4, <3>5, Zenon
  <2>6. phase = "len"
    BY <2>0, <2>4, <2>5 DEF TypeOK, RaisedWhenClosed
  <2>7. Len(Rest(sent, Len(got), Len(sentence))) = 0
    BY <2>0, <2>2, <2>6 DEF AtLength
  <2>8. Len(got) = Len(sent)
    <3> SUFFICES ASSUME Len(got) # Len(sent) PROVE FALSE
      OBVIOUS
    <3>1. Len(got) < Len(sent) /\ Len(got) + 1 \in 1 .. Len(sent)
      BY <2>0, <2>1 DEF GotIsSent
    <3>2. Len(sentence) <= Len(Current) /\ Len(Current) \in Nat
      BY <2>0, <2>1, <3>1 DEF SentenceIsSent, Current
    <3>3. CASE Len(sentence) = Len(Current)
      <4>1. /\ Rest(sent, Len(got), Len(sentence)) = <<0>> \o Rest(sent, Len(got) + 1, 0)
            /\ Rest(sent, Len(got) + 1, 0) \in Bytes
        BY <2>1, <3>1, <3>3, RestEnd, Zenon DEF Current
      <4>2. <<0>> \in Bytes /\ Len(<<0>>) # 0
        BY ZeroLength
      <4> QED
        BY <2>3, <2>7, <4>1, <4>2, Zenon
    <3>4. CASE Len(sentence) < Len(Current)
      <4>1. InsideSentence
        BY <3>1, <3>4 DEF InsideSentence
      <4> DEFINE c == WriteLen(Len(CurrentWord))
                 X == CurrentWord \o After
      <4>2. /\ c \in Bytes /\ Len(c) \in 1 .. 5 /\ X \in Bytes
            /\ Rest(sent, Len(got), Len(sentence)) = c \o X
        BY <2>0, <4>1, WordHere
      <4> DEFINE m == Len(c)
      <4> HIDE DEF c, X, m
      <4>3. Len(c) # 0
        <5>1. m \in 1 .. 5
          BY <4>2 DEF m
        <5> QED
          BY ONLY <5>1 DEF m
      <4> QED
        BY <2>3, <2>7, <4>2, <4>3
    <3> QED
      BY <2>1, <3>2, <3>3, <3>4
  <2>9. sentence = <<>>
    BY <2>0, <2>8 DEF SentenceIsSent
  <2>10. got \in Seq(Seq(Text))
    BY <2>0 DEF TypeOK, Text, Bytes
  <2>11. got = [i \in 1 .. Len(sent) |-> got[i]]
    <3> DEFINE n == Len(sent)
    <3>1. Len(got) = n
      BY <2>8
    <3> HIDE DEF n
    <3>2. got = [i \in 1 .. n |-> got[i]]
      BY ONLY <2>10, <3>1
    <3> QED
      BY <3>2 DEF n
  <2>12. \A i \in 1 .. Len(sent) : got[i] = AsRead(sent)[i]
    BY <2>0, <2>8 DEF GotIsSent
  <2>13. AsRead(sent) = [i \in 1 .. Len(sent) |-> AsRead(sent)[i]]
    <3>1. DOMAIN sent = 1 .. Len(sent)
      BY <2>1 DEF Sound
    <3> QED
      BY <3>1 DEF AsRead
  <2> QED
    BY <2>9, <2>11, <2>12, <2>13, Zenon
<1> QED
  BY <1>1, RInvAlways, PTL

\* The end of a sentence delivers it; the length of a word is an inner step.
LEMMA LengthDelivers ==
    ASSUME RInv, RInv', phase # "raised", sent' = sent, torn' = torn,
           NEW l, LengthRead(l)
    PROVE  [Channel!Next]_(Channel!vars)
<1>1. phase' # "raised"
  BY DEF LengthRead
<1>2. CASE whole' = whole
  BY <1>1, <1>2 DEF Channel!vars
<1>3. CASE whole' # whole
  <2>1. ~torn /\ got' = Append(got, sentence) /\ whole' = got'
    BY <1>3 DEF LengthRead
  <2>2. whole = got /\ got \in Seq(Seq(Text)) /\ sentence \in Seq(Text)
    BY <2>1 DEF RInv, TypeOK, Text, Bytes
  <2>3. GotIsSent' /\ Len(sent) \in Nat /\ Sound(sent)
    BY <2>1, Counts DEF RInv, OnTrack
  <2>4. Len(got') = Len(got) + 1 /\ got'[Len(got) + 1] = sentence /\ Len(got) \in Nat
    BY <2>1, <2>2
  <2>5. Len(got') <= Len(sent) /\ \A i \in 1 .. Len(got') : got'[i] = AsRead(sent)[i]
    BY <2>3 DEF GotIsSent
  <2>6. sentence = AsRead(sent)[Len(got) + 1] /\ Len(got) < Len(sent)
    <3>1. Len(got) + 1 \in 1 .. Len(got')
      BY <2>4
    <3>2. got'[Len(got) + 1] = AsRead(sent)[Len(got) + 1]
      BY <2>5, <3>1, Zenon
    <3>3. Len(got) < Len(sent)
      BY ONLY <2>3, <2>4, <2>5
    <3> QED
      BY <2>4, <3>2, <3>3
  <2>7. Len(AsRead(sent)) = Len(sent)
    <3>1. sent \in Seq(Seq(Bytes))
      BY <2>3 DEF Sound
    <3> QED
      BY <3>1 DEF AsRead
  <2>8. Channel!Deliver
    BY <1>1, <2>1, <2>2, <2>6, <2>7 DEF Channel!Deliver
  <2> QED
    BY <2>8 DEF Channel!Next
<1> QED
  BY <1>2, <1>3

\* Every step of the reader is a step of the channel or leaves it alone.
LEMMA ChannelStep ==
    ASSUME RInv, RInv', [Next]_vars PROVE [Channel!Next]_(Channel!vars)
<1>1. CASE ReadFirst
  <2>1. phase = "len" /\ sent' = sent /\ torn' = torn
    BY <1>1 DEF ReadFirst
  <2>2. CASE MoreBytes(Head(data)) = 0
    BY <1>1, <2>1, <2>2, LengthDelivers DEF ReadFirst
  <2>3. CASE MoreBytes(Head(data)) # 0
    <3>1. phase' = "more" /\ whole' = whole
      BY <1>1, <2>3 DEF ReadFirst
    <3> QED
      BY <2>1, <3>1 DEF Channel!vars
  <2> QED
    BY <2>2, <2>3
<1>2. CASE ReadMore
  <2>1. phase = "more" /\ sent' = sent /\ torn' = torn
    BY <1>2 DEF ReadMore
  <2>2. CASE left = 1
    BY <1>2, <2>1, <2>2, LengthDelivers DEF ReadMore
  <2>3. CASE left # 1
    <3>1. phase' = phase /\ whole' = whole
      BY <1>2, <2>3 DEF ReadMore
    <3> QED
      BY <2>1, <3>1 DEF Channel!vars
  <2> QED
    BY <2>2, <2>3
<1>3. CASE ReadPiece
  <2>1. phase = "word" /\ phase' # "raised" /\ sent' = sent /\ whole' = whole
        /\ (torn => torn')
    BY <1>3 DEF ReadPiece, WordRead
  <2>2. torn \in BOOLEAN /\ torn' \in BOOLEAN
    BY DEF RInv, TypeOK
  <2>3. CASE torn' = torn
    BY <2>1, <2>3 DEF Channel!vars
  <2>4. CASE torn' # torn
    <3>1. ~torn /\ torn'
      BY <2>1, <2>2, <2>4
    <3>2. Channel!Break
      BY <2>1, <3>1 DEF Channel!Break
    <3> QED
      BY <3>2 DEF Channel!Next
  <2> QED
    BY <2>3, <2>4
<1>4. CASE ReadClosed
  <2>1. phase # "raised" /\ phase' = "raised" /\ torn' = torn /\ sent' = sent /\ whole' = whole
    BY <1>4 DEF ReadClosed
  <2>2. torn \in BOOLEAN
    BY DEF RInv, TypeOK
  <2>3. CASE torn
    BY <2>1, <2>3 DEF Channel!vars
  <2>4. CASE ~torn
    <3>1. Channel!Break
      BY <2>1, <2>4 DEF Channel!Break
    <3> QED
      BY <3>1 DEF Channel!Next
  <2> QED
    BY <2>3, <2>4
<1>5. CASE Close
  BY <1>5 DEF Close, Channel!vars
<1>6. CASE UNCHANGED vars
  BY <1>6 DEF vars, Channel!vars
<1> QED
  BY <1>1, <1>2, <1>3, <1>4, <1>5, <1>6 DEF Next, Read

\* Whatever recv returns and wherever the connection ends, the callers of readSentence see
\* a channel of whole sentences in order, up to the first break.
THEOREM ReaderIsChannel == Spec => Channel!Safety
<1>1. Init => Channel!Init
  BY DEF Init, Channel!Init
<1>2. RInv /\ RInv' /\ [Next]_vars => [Channel!Next]_(Channel!vars)
  BY ChannelStep
<1> QED
  BY <1>1, <1>2, RInvAlways, PTL DEF Spec, Channel!Safety
=============================================================================
