---------------------------- MODULE MessageChannel ----------------------------
(***************************************************************************)
(* What control framing promises: the messages of one direction of a       *)
(* connection come out as they went in, in their order, up to the first     *)
(* one the protocol does not allow.  docs/03-control-protocol.md:7-25,45.   *)
(***************************************************************************)
EXTENDS Naturals, Sequences

CONSTANTS
    Messages,   \* all that a peer may put on the connection
    Legal       \* the messages the protocol allows

VARIABLES
    sent,       \* the messages put on the connection
    received    \* the messages handed to the reader

vars == <<sent, received>>

Init == sent = <<>> /\ received = <<>>

Send == \E m \in Messages : sent' = Append(sent, m) /\ UNCHANGED received

Deliver ==
    /\ Len(received) < Len(sent)
    /\ sent[Len(received) + 1] \in Legal
    /\ received' = Append(received, sent[Len(received) + 1])
    /\ UNCHANGED sent

Next == Send \/ Deliver

Spec == Init /\ [][Next]_vars
================================================================================
