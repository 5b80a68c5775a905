------------------------------- MODULE ApiRead ------------------------------
(***************************************************************************)
(* How ApiRos.readSentence cuts sentences out of the byte stream: readLen, *)
(* readStr and readWord over a socket whose recv returns any part of what  *)
(* has arrived.  A reply is a sequence of sentences, a sentence a sequence *)
(* of words, a word a sequence of bytes.                                   *)
(*                                                                         *)
(* readStr collects the pieces recv returns, but hands out a piece that    *)
(* begins with a byte of 128 or more at once and as it is, without the     *)
(* pieces before it: the word is then a bytes object (raw) and not a str.  *)
(***************************************************************************)
EXTENDS LengthCodec, SequencesExt

CONSTANTS
    Replies,   \* the replies the device may send
    MayClose   \* TRUE: the connection may end before the reply does

\* A word is at most as long as its length can tell, and begins with '!', '=' or '.'.
IsReply(reply) ==
    /\ reply \in Seq(Seq(Seq(Byte) \ {<<>>}))
    /\ \A i \in DOMAIN reply : \A j \in DOMAIN reply[i] :
        Len(reply[i][j]) \in Lengths /\ reply[i][j][1] < 128
ASSUME RepliesAssumption == \A reply \in Replies : IsReply(reply)
ASSUME MayCloseAssumption == MayClose \in BOOLEAN

VARIABLES
    sent,      \* the reply
    data,      \* its bytes that have not been received
    open,      \* the connection is up
    phase,     \* "len", "more", "word", or "raised"
    left,      \* bytes still to be read of a length or a word
    length,    \* the part of a length read so far
    ret,       \* the part of a word read so far
    sentence,  \* the words of the sentence being read
    got,       \* the sentences returned by readSentence
    torn,      \* a piece from inside a word was returned as a word
    whole      \* the sentences returned before that

vars == <<sent, data, open, phase, left, length, ret, sentence, got, torn, whole>>

\* The words as readSentence should return them, none of them raw.
Word(b) == [text |-> b, raw |-> FALSE]
AsRead(reply) == [i \in DOMAIN reply |-> [j \in DOMAIN reply[i] |-> Word(reply[i][j])]]

\* The device's side of the coding.
EncodeWord(w) == WriteLen(Len(w)) \o w
EncodeSentence(s) ==
    FlattenSeq([j \in DOMAIN s |-> EncodeWord(s[j])]) \o WriteLen(0)
Encode(reply) == FlattenSeq([i \in DOMAIN reply |-> EncodeSentence(reply[i])])

-----------------------------------------------------------------------------
Received(k) == data' = SubSeq(data, k + 1, Len(data))

\* readLen is done: a word of l bytes follows, or the sentence ends.
LengthRead(l) ==
    IF l = 0
    THEN /\ got' = Append(got, sentence) /\ sentence' = <<>>
         /\ whole' = IF torn THEN whole ELSE got'
         /\ phase' = "len" /\ left' = 0 /\ length' = 0
         /\ UNCHANGED ret
    ELSE /\ phase' = "word" /\ left' = l /\ length' = 0 /\ ret' = <<>>
         /\ UNCHANGED <<got, whole, sentence>>

\* The first byte of a length.
ReadFirst ==
    /\ phase = "len" /\ data # <<>>
    /\ Received(1)
    /\ LET c == Head(data) IN
        IF MoreBytes(c) = 0
        THEN LengthRead(FirstPart(c))
        ELSE /\ phase' = "more" /\ left' = MoreBytes(c) /\ length' = FirstPart(c)
             /\ UNCHANGED <<ret, sentence, got, whole>>
    /\ UNCHANGED <<sent, open, torn>>

\* A further byte of a length.
ReadMore ==
    /\ phase = "more" /\ data # <<>>
    /\ Received(1)
    /\ LET c == Shifted(length, Head(data)) IN
        IF left = 1
        THEN LengthRead(c)
        ELSE /\ left' = left - 1 /\ length' = c
             /\ UNCHANGED <<phase, ret, sentence, got, whole>>
    /\ UNCHANGED <<sent, open, torn>>

WordRead(text, raw) ==
    /\ sentence' = Append(sentence, [text |-> text, raw |-> raw])
    /\ phase' = "len" /\ left' = 0 /\ ret' = <<>>

\* Faulty variants: recv is asked for the whole length again; only the last piece
\* of a word is kept.
ReadPieceOfLength ==
    /\ phase = "word"
    /\ \E k \in 1 .. left + Len(ret) :
        /\ k <= Len(data) /\ Received(k)
        /\ IF k = left THEN WordRead(ret \o SubSeq(data, 1, k), FALSE)
           ELSE ret' = ret \o SubSeq(data, 1, k) /\ left' = left - k
                /\ UNCHANGED <<phase, sentence>>
    /\ UNCHANGED <<sent, open, length, got, whole, torn>>

ReadLastPieceOnly ==
    /\ phase = "word"
    /\ \E k \in 1 .. left :
        /\ k <= Len(data) /\ Received(k)
        /\ IF k = left THEN WordRead(SubSeq(data, 1, k), FALSE)
           ELSE ret' = SubSeq(data, 1, k) /\ left' = left - k
                /\ UNCHANGED <<phase, sentence>>
    /\ UNCHANGED <<sent, open, length, got, whole, torn>>

\* recv inside readStr returns a piece of k bytes.
ReadPiece ==
    /\ phase = "word"
    /\ \E k \in 1 .. left :
        LET piece == SubSeq(data, 1, k) IN
        /\ k <= Len(data)
        /\ Received(k)
        /\ IF piece[1] >= 128
           THEN WordRead(piece, TRUE)
           ELSE IF k = left
           THEN WordRead(ret \o piece, FALSE)
           ELSE ret' = ret \o piece /\ left' = left - k /\ UNCHANGED <<phase, sentence>>
        /\ torn' = (torn \/ (piece[1] >= 128 /\ (ret # <<>> \/ k < left)))
    /\ UNCHANGED <<sent, open, length, got, whole>>

\* recv returns b'': RuntimeError.
ReadClosed ==
    /\ phase # "raised" /\ data = <<>> /\ ~open
    /\ phase' = "raised"
    /\ UNCHANGED <<sent, data, open, left, length, ret, sentence, got, torn, whole>>

\* The connection ends; bytes that were on their way may be lost.
Close ==
    /\ MayClose /\ open
    /\ open' = FALSE
    /\ \E k \in 0 .. Len(data) : data' = SubSeq(data, 1, k)
    /\ UNCHANGED <<sent, phase, left, length, ret, sentence, got, torn, whole>>

-----------------------------------------------------------------------------
Init ==
    /\ sent \in Replies
    /\ data = Encode(sent)
    /\ open = TRUE
    /\ phase = "len" /\ left = 0 /\ length = 0
    /\ ret = <<>> /\ sentence = <<>>
    /\ got = <<>> /\ torn = FALSE /\ whole = <<>>

Read == ReadFirst \/ ReadMore \/ ReadPiece \/ ReadClosed

Next == Read \/ Close

\* The agent keeps reading; bytes that were sent arrive.
Spec == Init /\ [][Next]_vars /\ WF_vars(Read)

-----------------------------------------------------------------------------
\* Every variable stays within its range.
TypeOK ==
    /\ sent \in Replies
    /\ data \in Seq(Byte)
    /\ open \in BOOLEAN
    /\ phase \in {"len", "more", "word", "raised"}
    /\ left \in Nat /\ length \in Nat
    /\ ret \in Seq(Byte)
    /\ sentence \in Seq([text : Seq(Byte), raw : BOOLEAN])
    /\ got \in Seq(Seq([text : Seq(Byte), raw : BOOLEAN]))
    /\ torn \in BOOLEAN
    /\ IsPrefix(whole, got) /\ (~torn => whole = got)

\* However recv divides the bytes and wherever the connection ends, the reader is
\* a channel of whole sentences, until a piece of a word begins with a non-ASCII byte:
\* text with such bytes arrives intact as long as recv does not divide it there.
Channel == INSTANCE SentenceChannel
             WITH sent <- AsRead(sent), delivered <- whole,
                  broken <- (phase = "raised" \/ torn)
ImplementsChannel == Channel!Spec
=============================================================================
