---------------------------- MODULE LengthCodec -----------------------------
(***************************************************************************)
(* The word length coding of the RouterOS API, as ApiRos.writeLen and      *)
(* ApiRos.readLen compute it: one to five bytes, the number of further     *)
(* bytes being told by the leading bits of the first.  The masks of the    *)
(* source work on disjoint bits, so they are additions here.               *)
(***************************************************************************)
EXTENDS Naturals, Sequences

Byte == 0 .. 255
\* What fits into 32 bits.
Lengths == {l \in Nat : l \div 65536 < 65536}

\* The lowest byte of l shifted right by 8, 16, 24 bits.
ByteAt(l, unit) == (l \div unit) % 256

\* Faulty variant: the first boundary is one too high.
WriteLenOffByOne(l) ==
    CASE l <= 128 -> <<l>>
      [] 128 < l /\ l < 16384 -> <<128 + l \div 256, l % 256>>
      [] OTHER -> <<192 + l \div 65536, ByteAt(l, 256), l % 256>>

\* writeLen; from 2^28 on the length follows a byte of its own.
WriteLen(l) ==
    CASE l < 128 -> <<l>>
      [] 128 <= l /\ l < 16384 -> <<128 + l \div 256, l % 256>>
      [] 16384 <= l /\ l < 2097152 ->
            <<192 + l \div 65536, ByteAt(l, 256), l % 256>>
      [] 2097152 <= l /\ l < 268435456 ->
            <<224 + l \div 16777216, ByteAt(l, 65536), ByteAt(l, 256), l % 256>>
      [] OTHER ->
            <<240, ByteAt(l, 16777216), ByteAt(l, 65536), ByteAt(l, 256), l % 256>>

\* How many bytes readLen reads behind a first byte c.
MoreBytes(c) ==
    CASE c < 128 -> 0
      [] 128 <= c /\ c < 192 -> 1
      [] 192 <= c /\ c < 224 -> 2
      [] 224 <= c /\ c < 240 -> 3
      [] 240 <= c /\ c < 248 -> 4
      [] OTHER -> 0

\* What is left of the first byte once its leading bits are masked out.  The
\* control bytes 248 .. 255 pass unmasked.
FirstPart(c) ==
    CASE 128 <= c /\ c < 192 -> c - 128
      [] 192 <= c /\ c < 224 -> c - 192
      [] 224 <= c /\ c < 240 -> c - 224
      [] 240 <= c /\ c < 248 -> 0
      [] OTHER -> c

\* c <<= 8, c += next byte.
Shifted(c, b) == c * 256 + b

\* readLen of a complete code.
ReadLen(b) ==
    LET c == FirstPart(b[1]) IN
    CASE MoreBytes(b[1]) = 0 -> c
      [] MoreBytes(b[1]) = 1 -> Shifted(c, b[2])
      [] MoreBytes(b[1]) = 2 -> Shifted(Shifted(c, b[2]), b[3])
      [] MoreBytes(b[1]) = 3 -> Shifted(Shifted(Shifted(c, b[2]), b[3]), b[4])
      [] OTHER -> Shifted(Shifted(Shifted(b[2], b[3]), b[4]), b[5])

\* What the peer relies on: the first byte tells how long the code is, and the
\* length read is the length written.
RoundTrip(l) ==
    /\ Len(WriteLen(l)) = 1 + MoreBytes(WriteLen(l)[1])
    /\ ReadLen(WriteLen(l)) = l
=============================================================================
