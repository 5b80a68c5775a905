----------------------------- MODULE MCApiWrite -----------------------------
(***************************************************************************)
(* Small sentences for ApiWrite: a character is the sequence of its bytes. *)
(***************************************************************************)
EXTENDS ApiWrite

a == <<97>>
b == <<98>>
e == <<195, 169>>   \* e with acute accent

Long(k) == [i \in 1 .. k |-> IF i % 3 = 0 THEN a ELSE b]

\* A command, a login of three words, and words around the first boundary of the coding.
AsciiSentences == { << <<a, b, a>> >>, << <<a>>, <<b, a>>, <<b, b, a, a>> >>, <<Long(127)>>,
                    <<Long(128)>> }

\* A login with an accented letter in the password.
MultibyteSentences == { << <<a>>, <<b, e, a>> >> }
=============================================================================
