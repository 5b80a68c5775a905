------------------------------ MODULE MCApiRead -----------------------------
(***************************************************************************)
(* Small replies for ApiRead.  Bytes: 65 and 66 are ASCII letters, 195 169 *)
(* is an e with acute accent in UTF-8.                                     *)
(***************************************************************************)
EXTENDS ApiRead

A == 65
B == 66
Done == << <<A>> >>
Long == [i \in 1 .. 128 |-> IF i < 128 THEN A ELSE B]

\* Rows of several words, a word whose length takes two bytes, no row at all.
AsciiReplies ==
    { <<Done>>,
      << <<<<A, B>>, <<A, A, B>>>>, Done >>,
      << <<<<B>>, <<A>>>>, <<<<A, B, A, B>>>>, Done >>,
      << <<<<A>>, Long>>, Done >> }

\* A word with an accented letter in the middle, one with two at its end.
MultibyteReplies ==
    { << <<<<A>>, <<A, 195, 169, B>>>>, Done >>,
      << <<<<B>>, <<B, A, 195, 169, 195, 169>>>>, <<<<A>>, <<B>>>>, Done >> }

AllReplies == AsciiReplies \cup MultibyteReplies
=============================================================================
