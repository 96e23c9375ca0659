----------------------------- MODULE ReplayWindow -----------------------------
(***************************************************************************)
(* gm_replay_window_accept (shared/core/gm_media.cpp) over one bit per     *)
(* sequence number: bit d tells whether highest - d was accepted.          *)
(* ReplayWords refines the bits into the array of 64-bit words of the code *)
(* and this module implements AntiReplay.                                  *)
(***************************************************************************)
EXTENDS Naturals

CONSTANTS
    Window,     \* GM_REPLAY_WINDOW_BITS
    MaxSeq      \* UINT64_MAX

ASSUME WindowAssumption == Window \in Nat \ {0} /\ MaxSeq \in Nat

VARIABLES
    initialized,
    highest,    \* highest_sequence
    bitmap,
    decision,   \* out_result of the last call
    seen        \* history: the sequence numbers accepted so far

vars == <<initialized, highest, bitmap, decision, seen>>

Seqs == 0..MaxSeq
Bits == 0..(Window - 1)

NoBitsButOne == [d \in Bits \union {Window} |-> FALSE]      \* fault: one bit too many
NoBits == [d \in Bits |-> FALSE]

\* gm_replay_window_init
Init ==
    /\ initialized = FALSE
    /\ highest = 0
    /\ bitmap = NoBits
    /\ decision = "NONE"
    /\ seen = {}

ShiftedTooFar(n) == [d \in Bits |-> d > n /\ bitmap[d - n]]     \* fault: loses the newest
ShiftedCleared(n) == NoBits                                 \* fault: forgets the whole window

\* The bitmap after the newest sequence number moved up by n: what falls off the end is gone.
Shifted(n) == [d \in Bits |-> d >= n /\ bitmap[d - n]]

BehindShort(seq) == highest - seq >= Window - 1             \* fault: one bit is never tested

\* The packet lies outside the window.
Behind(seq) == highest - seq >= Window

Accepted(seq) ==
    /\ decision' = "ACCEPTED"
    /\ seen' = seen \union {seq}

Rejected(why) ==
    /\ decision' = why
    /\ UNCHANGED <<initialized, highest, bitmap, seen>>

First(seq) ==
    /\ ~initialized
    /\ initialized' = TRUE
    /\ highest' = seq
    /\ bitmap' = [NoBits EXCEPT ![0] = TRUE]
    /\ Accepted(seq)

Newer(seq) ==
    /\ initialized /\ seq > highest
    /\ highest' = seq
    /\ bitmap' = [Shifted(seq - highest) EXCEPT ![0] = TRUE]
    /\ Accepted(seq)
    /\ UNCHANGED initialized

Older(seq) ==
    /\ initialized /\ seq <= highest
    /\ \/ /\ Behind(seq)
          /\ Rejected("TOO_OLD")
       \/ /\ ~Behind(seq)
          /\ bitmap[highest - seq]
          /\ Rejected("DUPLICATE")
       \/ /\ ~Behind(seq)
          /\ ~bitmap[highest - seq]
          /\ bitmap' = [bitmap EXCEPT ![highest - seq] = TRUE]
          /\ Accepted(seq)
          /\ UNCHANGED <<initialized, highest>>

\* gm_replay_window_accept
Accept(seq) == First(seq) \/ Newer(seq) \/ Older(seq)

Next == \E seq \in Seqs : Accept(seq)

Spec == Init /\ [][Next]_vars

-------------------------------------------------------------------------------
\* Every field stays in its range.
TypeOK ==
    /\ initialized \in BOOLEAN
    /\ highest \in Seqs
    /\ bitmap \in [Bits -> BOOLEAN]
    /\ decision \in {"NONE", "ACCEPTED", "DUPLICATE", "TOO_OLD"}
    /\ seen \subseteq Seqs

\* gm_media.cpp:219-255: inside the window the bitmap remembers exactly the sequence
\* numbers accepted, however the deliveries were reordered or jumped ahead.
BitmapIsHistory ==
    /\ initialized <=> seen # {}
    /\ initialized => highest \in seen
    /\ \A seq \in seen : seq <= highest
    /\ initialized => \A d \in Bits : bitmap[d] <=> d <= highest /\ highest - d \in seen

\* gm_media.cpp:219-255: no sequence number is accepted twice under one key, so no packet
\* is rendered twice and no authenticated packet is counted twice.
AcceptedOnce ==
    [][\A seq \in Seqs : Accept(seq) /\ decision' = "ACCEPTED" => seq \notin seen]_vars

Promise == INSTANCE AntiReplay

\* gm_media.cpp:219-255: nothing is turned away that is neither a repeat nor too old.
ImplementsAntiReplay == Promise!Spec
================================================================================
