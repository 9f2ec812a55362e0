------------------------------- MODULE Channel -------------------------------
(***************************************************************************)
(* What RCDevice and the Sofia thread expect of a pipe between them:       *)
(* every message that was sent is handled once, whole and in order; one    *)
(* wake-up of the reader may handle several.                               *)
(***************************************************************************)
EXTENDS Integers, Sequences

CONSTANT Messages

VARIABLES
    sent,       \* the messages sent so far
    handled     \* the messages the reader's handler was called with

vars == <<sent, handled>>

Init == sent = <<>> /\ handled = <<>>

Send == \E m \in Messages : sent' = Append(sent, m) /\ UNCHANGED handled

Handle ==
    /\ \E n \in Len(handled) + 1..Len(sent) : handled' = SubSeq(sent, 1, n)
    /\ UNCHANGED sent

Next == Send \/ Handle

Spec == Init /\ [][Next]_vars
=============================================================================
