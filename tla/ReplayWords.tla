------------------------------ MODULE ReplayWords ------------------------------
(***************************************************************************)
(* The bitmap of gm_replay_window as the code keeps it: an array of words  *)
(* shifted across word boundaries by shift_bitmap_left                     *)
(* (shared/core/gm_media.cpp).  The code has 16 words of 64 bits; a run    *)
(* takes fewer and narrower ones, with the same boundaries between them.   *)
(***************************************************************************)
EXTENDS Naturals

CONSTANTS
    Words,      \* 16
    WordBits,   \* 64
    MaxSeq      \* UINT64_MAX

ASSUME WordAssumption == Words \in Nat \ {0} /\ WordBits \in Nat \ {0} /\ MaxSeq \in Nat

VARIABLES initialized, highest, words, decision, seen

vars == <<initialized, highest, words, decision, seen>>

Window == Words * WordBits
Index == 0..(Words - 1)
Positions == 0..(WordBits - 1)

\* fault: the last word is skipped
ClearedButLast == [index \in Index \ {Words - 1} |-> [pos \in Positions |-> FALSE]]

\* clear_bitmap
Cleared == [index \in Index |-> [pos \in Positions |-> FALSE]]

\* get_bit and set_bit: bit d is bit d % 64 of word d / 64.
Bit(w, d) == w[d \div WordBits][d % WordBits]

WithBitOfFirstWord(w, d) == [w EXCEPT ![0][d % WordBits] = TRUE]    \* fault: ignores the word
WithBit(w, d) == [w EXCEPT ![d \div WordBits][d % WordBits] = TRUE]

\* word << n and word >> n
ShiftLeft(word, n) == [pos \in Positions |-> pos >= n /\ word[pos - n]]
ShiftRight(word, n) == [pos \in Positions |-> pos + n < WordBits /\ word[pos + n]]
Either(left, right) == [pos \in Positions |-> left[pos] \/ right[pos]]

\* fault: the bits that cross into the next word are lost
ShiftWithinWords(w, shift) ==
    LET wordShift == shift \div WordBits
        bitShift == shift % WordBits
    IN  [index \in Index |->
            IF index >= wordShift THEN ShiftLeft(w[index - wordShift], bitShift)
            ELSE Cleared[index]]

\* shift_bitmap_left.  The loop runs from the last word down and reads words at or below
\* the one it writes, so every word is computed from the bitmap as it was.
ShiftBitmapLeft(w, shift) ==
    LET wordShift == shift \div WordBits
        bitShift == shift % WordBits
        Carry(index) ==
            IF bitShift # 0 /\ index > wordShift
            THEN ShiftRight(w[index - wordShift - 1], WordBits - bitShift)
            ELSE Cleared[index]
    IN  IF shift >= Window THEN Cleared
        ELSE [index \in Index |->
                IF index >= wordShift
                THEN Either(ShiftLeft(w[index - wordShift], bitShift), Carry(index))
                ELSE Cleared[index]]

Init ==
    /\ initialized = FALSE
    /\ highest = 0
    /\ words = Cleared
    /\ decision = "NONE"
    /\ seen = {}


\* The packet lies outside the window.
Behind(seq) == highest - seq >= Window

\* gm_replay_window_accept: the words and the answer after one delivery.
Accept(seq) ==
    \/ /\ ~initialized
       /\ initialized' = TRUE
       /\ highest' = seq
       /\ words' = WithBit(Cleared, 0)
       /\ decision' = "ACCEPTED"
       /\ seen' = seen \union {seq}
    \/ /\ initialized /\ seq > highest
       /\ highest' = seq
       /\ words' = WithBit(ShiftBitmapLeft(words, seq - highest), 0)
       /\ decision' = "ACCEPTED"
       /\ seen' = seen \union {seq}
       /\ UNCHANGED initialized
    \/ /\ initialized /\ seq <= highest /\ Behind(seq)
       /\ decision' = "TOO_OLD"
       /\ UNCHANGED <<initialized, highest, words, seen>>
    \/ /\ initialized /\ seq <= highest /\ ~Behind(seq)
       /\ Bit(words, highest - seq)
       /\ decision' = "DUPLICATE"
       /\ UNCHANGED <<initialized, highest, words, seen>>
    \/ /\ initialized /\ seq <= highest /\ ~Behind(seq)
       /\ ~Bit(words, highest - seq)
       /\ words' = WithBit(words, highest - seq)
       /\ decision' = "ACCEPTED"
       /\ seen' = seen \union {seq}
       /\ UNCHANGED <<initialized, highest>>

Next == \E seq \in 0..MaxSeq : Accept(seq)

Spec == Init /\ [][Next]_vars

-------------------------------------------------------------------------------
\* The same window with the words read as one row of bits.
Row == INSTANCE ReplayWindow WITH
    bitmap <- [d \in 0..(Window - 1) |-> Bit(words, d)]

\* gm_media.cpp:91-111: shifting word by word, with carries, is shifting the row of bits.
ImplementsReplayWindow == Row!Spec
================================================================================
