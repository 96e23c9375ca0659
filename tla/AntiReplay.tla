------------------------------ MODULE AntiReplay ------------------------------
(***************************************************************************)
(* What a replay window promises, without a bitmap: of the sequence        *)
(* numbers delivered under one key, each is accepted at most once, and one *)
(* is turned away only because it was accepted before or because it lies   *)
(* Window or more behind one that was.                                     *)
(***************************************************************************)
EXTENDS Naturals

CONSTANTS
    Window,     \* how far behind the newest sequence a packet may be
    MaxSeq      \* the largest sequence number

VARIABLES
    seen,       \* the sequence numbers accepted so far
    decision    \* the answer to the last delivery

Seqs == 0..MaxSeq

Init ==
    /\ seen = {}
    /\ decision = "NONE"

TooOld(seq) == \E h \in seen : seq + Window <= h

Deliver(seq) ==
    \/ /\ seq \notin seen /\ ~TooOld(seq)
       /\ decision' = "ACCEPTED"
       /\ seen' = seen \union {seq}
    \/ /\ TooOld(seq)
       /\ decision' = "TOO_OLD"
       /\ UNCHANGED seen
    \/ /\ seq \in seen /\ ~TooOld(seq)
       /\ decision' = "DUPLICATE"
       /\ UNCHANGED seen

Next == \E seq \in Seqs : Deliver(seq)

Spec == Init /\ [][Next]_<<seen, decision>>
================================================================================
