--------------------------- MODULE SentenceChannel --------------------------
(***************************************************************************)
(* What the connection to the device promises to the callers of            *)
(* readSentence: the sentences of a reply one by one, whole and in order,  *)
(* until all have been delivered or the connection breaks.                 *)
(***************************************************************************)
EXTENDS Naturals, Sequences

VARIABLES
    sent,       \* the sentences of the reply
    delivered,  \* those readSentence has returned
    broken      \* readSentence has raised

vars == <<sent, delivered, broken>>

Init == delivered = <<>> /\ broken = FALSE

Deliver ==
    /\ ~broken /\ Len(delivered) < Len(sent)
    /\ delivered' = Append(delivered, sent[Len(delivered) + 1])
    /\ UNCHANGED <<sent, broken>>

Break == ~broken /\ broken' = TRUE /\ UNCHANGED <<sent, delivered>>

Next == Deliver \/ Break

\* What it never does, and what it does in the end.
Safety == Init /\ [][Next]_vars

Spec == Safety /\ WF_vars(Deliver)
=============================================================================
