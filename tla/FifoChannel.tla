----------------------------- MODULE FifoChannel -----------------------------
(***************************************************************************)
(* What one direction of an ordered channel promises: messages are         *)
(* delivered in the order they were sent, each once, none skipped.         *)
(***************************************************************************)
EXTENDS Sequences, Naturals

CONSTANT Msgs

VARIABLES sent, delivered

Init == sent = <<>> /\ delivered = <<>>

Send(m) == sent' = Append(sent, m) /\ UNCHANGED delivered

Deliver ==
    /\ Len(delivered) < Len(sent)
    /\ delivered' = Append(delivered, sent[Len(delivered) + 1])
    /\ UNCHANGED sent

Next == Deliver \/ \E m \in Msgs : Send(m)

Spec == Init /\ [][Next]_<<sent, delivered>>
=============================================================================
