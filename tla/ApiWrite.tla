------------------------------ MODULE ApiWrite ------------------------------
(***************************************************************************)
(* How ApiRos.writeSentence puts a sentence on the wire: the length of     *)
(* each word, its bytes, and a zero length at the end.  A word is a        *)
(* sequence of characters, a character the sequence of its UTF-8 bytes;    *)
(* send takes any part of what it is given.                                *)
(*                                                                         *)
(* writeStr counts what send took in bytes and cuts the string by          *)
(* characters, and writeWord announces the number of characters: for ASCII *)
(* the counts are the same.                                                *)
(***************************************************************************)
EXTENDS LengthCodec, SequencesExt

CONSTANT Sentences   \* the sentences to be written (sequences of words)

ASSUME SentencesAssumption == Sentences \subseteq Seq(Seq(Seq(Byte) \ {<<>>}))

VARIABLES
    words,   \* the sentence
    next,    \* index of the word being written; Len(words) + 1 is the final ''
    n,       \* the counter of writeStr, 0 before the length is written
    state,   \* "length", "text", "done" or "raised"
    wire     \* the bytes the socket has taken

vars == <<words, next, n, state, wire>>

Utf8(chars) == FlattenSeq(chars)

\* The word being written; the last one is empty.
ThisWord == IF next > Len(words) THEN <<>> ELSE words[next]

\* writeLen; each byte is sent by a call of its own and send takes it whole.
WriteLength ==
    /\ state = "length"
    /\ wire' = wire \o WriteLen(Len(ThisWord))
    /\ n' = 0 /\ state' = "text"
    /\ UNCHANGED <<words, next>>

\* Faulty variants: every call of send counts as one; what send took is not counted.
SendPieceCountsCalls ==
    /\ state = "text" /\ n < Len(ThisWord)
    /\ LET rest == Utf8(SubSeq(ThisWord, n + 1, Len(ThisWord))) IN
        \E k \in 1 .. Len(rest) : wire' = wire \o SubSeq(rest, 1, k)
    /\ n' = n + 1
    /\ UNCHANGED <<words, next, state>>

SendPieceDoesNotCount ==
    /\ state = "text" /\ n < Len(ThisWord)
    /\ UNCHANGED vars

\* One round of the loop in writeStr: send(bytes(str[n:])) takes k bytes.
SendPiece ==
    /\ state = "text" /\ n < Len(ThisWord)
    /\ LET rest == Utf8(SubSeq(ThisWord, n + 1, Len(ThisWord))) IN
        \E k \in 1 .. Len(rest) :
            /\ wire' = wire \o SubSeq(rest, 1, k)
            /\ n' = n + k
    /\ UNCHANGED <<words, next, state>>

\* The loop ends: the next word, then the empty word, then the sentence is out.
WordWritten ==
    /\ state = "text" /\ n >= Len(ThisWord)
    /\ IF next > Len(words)
       THEN state' = "done" /\ UNCHANGED next
       ELSE state' = "length" /\ next' = next + 1
    /\ n' = 0
    /\ UNCHANGED <<words, wire>>

\* send fails on a broken connection, or returns 0 and writeStr raises.
SendFails ==
    /\ state \in {"length", "text"}
    /\ state' = "raised"
    /\ UNCHANGED <<words, next, n, wire>>

Init ==
    /\ words \in Sentences
    /\ next = 1 /\ n = 0 /\ state = "length" /\ wire = <<>>

Write == WriteLength \/ SendPiece \/ WordWritten

Next == Write \/ SendFails

Spec == Init /\ [][Next]_vars /\ WF_vars(Write)

-----------------------------------------------------------------------------
\* What the device has to receive: byte counts, bytes, and a zero length.
WordOnWire(w) == WriteLen(Len(Utf8(w))) \o Utf8(w)
OnWire(s) == FlattenSeq([i \in DOMAIN s |-> WordOnWire(s[i])]) \o WriteLen(0)

\* CHANGELOG.MD 2.5.2 lists multibyte characters in API calls as fixed: at every
\* moment the device has received the beginning of the sentence's coding, however
\* send divides the words, and all of it when writeSentence returns.
WellFormed ==
    /\ IsPrefix(wire, OnWire(words))
    /\ state = "done" => wire = OnWire(words)

\* The sentence a device cuts out of the bytes by reading lengths is the sentence
\* written: word for word, then a zero length, and nothing behind it.
From(k) == SubSeq(wire, k, Len(wire))
LengthBytes(k) == 1 + MoreBytes(wire[k])
DeviceReadsBack ==
    state = "done" =>
        LET start[i \in 1 .. Len(words) + 1] ==
                IF i = 1 THEN 1
                ELSE start[i - 1] + LengthBytes(start[i - 1]) + ReadLen(From(start[i - 1]))
        IN /\ \A i \in DOMAIN words :
                LET b == Utf8(words[i])
                    first == start[i] + LengthBytes(start[i])
                IN SubSeq(wire, first, first + ReadLen(From(start[i])) - 1) = b
           /\ From(start[Len(words) + 1]) = <<0>>

\* writeSentence comes to an end: each round of the loop sends at least one byte.
Returns == <>(state \in {"done", "raised"})
=============================================================================
