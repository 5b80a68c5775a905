---------------------------- MODULE MCBgpSessions ---------------------------
(***************************************************************************)
(* Names for BgpSessions: two that share no beginning, and two of which    *)
(* one is the beginning of the other (peer and peer2).                     *)
(***************************************************************************)
EXTENDS BgpSessions

UnrelatedNames == { <<"p">>, <<"q", "2">> }
PrefixNames == { <<"p">>, <<"p", "2">> }
SuffixChars == {"-1", "-2"}
=============================================================================
