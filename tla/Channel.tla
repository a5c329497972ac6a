------------------------------- MODULE Channel -------------------------------
(***************************************************************************)
(* What a stream promises: messages are sent one after the other and       *)
(* delivered whole, once each, in the order they were sent.                *)
(***************************************************************************)
EXTENDS Naturals, Sequences

CONSTANT Message

VARIABLES
    sent,       \* the messages sent, oldest first
    delivered   \* the messages received

vars == <<sent, delivered>>

Init == sent = <<>> /\ delivered = <<>>

Send == /\ \E m \in Message : sent' = Append(sent, m)
        /\ UNCHANGED delivered

Deliver == /\ Len(delivered) < Len(sent)
           /\ delivered' = Append(delivered, sent[Len(delivered) + 1])
           /\ UNCHANGED sent

Next == Send \/ Deliver

Spec == Init /\ [][Next]_vars

=============================================================================
