--------------------------- MODULE ReplayWordsProofs ---------------------------
(***************************************************************************)
(* The array of words is the row of bits, for every number and every width  *)
(* of words: what MediaWindowProofs shows of the row holds of the array.   *)
(***************************************************************************)
EXTENDS ReplayWords, Integers, TLAPS

Bitmaps == [Index -> [Positions -> BOOLEAN]]
RowBits == 0..(Window - 1)
RowOf(w) == [d \in RowBits |-> Bit(w, d)]

\* Quotient and remainder by the width of a word.
LEMMA Place ==
    ASSUME NEW d \in Nat
    PROVE  /\ d \div WordBits \in Nat /\ d % WordBits \in Positions
           /\ d = WordBits * (d \div WordBits) + (d % WordBits)
BY WordAssumption DEF Positions

\* There is one such quotient and one such remainder.
LEMMA OnePlace ==
    ASSUME NEW q \in Nat, NEW p \in Positions
    PROVE  /\ WordBits * q + p \in Nat
           /\ (WordBits * q + p) \div WordBits = q /\ (WordBits * q + p) % WordBits = p
BY WordAssumption DEF Positions

\* The words hold the bits of the window, all of them and no others.
LEMMA PlaceInRow ==
    ASSUME NEW q \in Nat, NEW p \in Positions
    PROVE  q \in Index <=> WordBits * q + p \in RowBits
BY WordAssumption DEF Positions, Index, RowBits, Window

\* A bit of the row lies in one of the words.
LEMMA BitPlace ==
    ASSUME NEW d \in RowBits
    PROVE  /\ d \in Nat /\ d \div WordBits \in Index /\ d % WordBits \in Positions
           /\ d = WordBits * (d \div WordBits) + (d % WordBits)
<1>1. d \in Nat
    BY WordAssumption DEF RowBits, Window
<1>2. /\ d \div WordBits \in Nat /\ d % WordBits \in Positions
      /\ d = WordBits * (d \div WordBits) + (d % WordBits)
    BY <1>1, Place
<1> QED
    BY <1>1, <1>2, PlaceInRow

\* A row is a bitmap of the row's length, and empty when the words are.
LEMMA RowTyped ==
    /\ \A w \in Bitmaps : RowOf(w) \in [RowBits -> BOOLEAN]
    /\ Cleared \in Bitmaps /\ RowOf(Cleared) = [d \in RowBits |-> FALSE]
<1>1. ASSUME NEW w \in Bitmaps PROVE RowOf(w) \in [RowBits -> BOOLEAN]
    BY BitPlace DEF RowOf, Bit, Bitmaps
<1>2. Cleared \in Bitmaps
    BY DEF Cleared, Bitmaps
<1>3. ASSUME NEW d \in RowBits PROVE Bit(Cleared, d) = FALSE
    BY BitPlace DEF Bit, Cleared
<1> QED
    BY <1>1, <1>2, <1>3 DEF RowOf

\* set_bit sets that bit of the row.
LEMMA SetBit ==
    ASSUME NEW w \in Bitmaps, NEW d \in RowBits
    PROVE  /\ WithBit(w, d) \in Bitmaps
           /\ RowOf(WithBit(w, d)) = [RowOf(w) EXCEPT ![d] = TRUE]
<1>1. PICK q, p : q = d \div WordBits /\ p = d % WordBits
    OBVIOUS
<1>2. q \in Index /\ p \in Positions /\ d = WordBits * q + p
    BY <1>1, BitPlace
<1>3. WithBit(w, d) = [w EXCEPT ![q] = [w[q] EXCEPT ![p] = TRUE]]
    BY <1>1 DEF WithBit
<1>4. WithBit(w, d) \in Bitmaps
    <2>1. PICK word : word = [w[q] EXCEPT ![p] = TRUE]
        OBVIOUS
    <2>2. w[q] \in [Positions -> BOOLEAN]
        BY <1>2 DEF Bitmaps
    <2>3. word \in [Positions -> BOOLEAN]
        BY <1>2, <2>1, <2>2
    <2>4. [w EXCEPT ![q] = word] \in Bitmaps
        BY <1>2, <2>3 DEF Bitmaps
    <2> QED
        BY <1>3, <2>1, <2>4
<1>5. ASSUME NEW e \in RowBits
      PROVE  Bit(WithBit(w, d), e) = IF e = d THEN TRUE ELSE Bit(w, e)
    <2>1. PICK k, m : k = e \div WordBits /\ m = e % WordBits
        OBVIOUS
    <2>2. k \in Index /\ m \in Positions /\ e = WordBits * k + m
        BY <2>1, BitPlace
    <2>3. Bit(WithBit(w, d), e) = WithBit(w, d)[k][m] /\ Bit(w, e) = w[k][m]
        BY <2>1 DEF Bit
    <2>4. e = d <=> k = q /\ m = p
        BY <1>1, <1>2, <2>1, <2>2
    <2>5. WithBit(w, d)[k][m] = IF k = q /\ m = p THEN TRUE ELSE w[k][m]
        BY <1>2, <1>3, <2>2 DEF Bitmaps
    <2> QED
        BY <2>3, <2>4, <2>5
<1>6. RowOf(WithBit(w, d)) = [e \in RowBits |-> IF e = d THEN TRUE ELSE Bit(w, e)]
    BY <1>5 DEF RowOf
<1>7. [RowOf(w) EXCEPT ![d] = TRUE] = [e \in RowBits |-> IF e = d THEN TRUE ELSE Bit(w, e)]
    BY DEF RowOf
<1> QED
    BY <1>4, <1>6, <1>7

\* Where the bit comes from that is d after a shift: the word it lies in, and the one below it.
LEMMA ShiftedFrom ==
    ASSUME NEW i \in Index, NEW p \in Positions, NEW j \in Index, NEW b \in Positions,
           NEW d, NEW s, d = WordBits * i + p, s = WordBits * j + b
    PROVE  /\ d >= s <=> (i > j \/ (i = j /\ p >= b))
           /\ i >= j /\ p >= b => d - s = WordBits * (i - j) + (p - b)
           /\ i > j /\ p < b => d - s = WordBits * (i - j - 1) + (p + (WordBits - b))
<1>1. i \in Nat /\ j \in Nat /\ p \in Nat /\ b \in Nat /\ WordBits \in Nat /\ p < WordBits /\ b < WordBits
    BY WordAssumption DEF Index, Positions
<1>2. PICK k \in Int : k = i - j
    BY <1>1
<1>3. WordBits * i = WordBits * j + WordBits * k /\ i = j + k
    BY <1>1, <1>2
<1>4. PICK u, v : u = WordBits * j /\ v = WordBits * k
    OBVIOUS
<1>5. u \in Nat /\ v \in Int /\ d = u + v + p /\ s = u + b
    BY <1>1, <1>2, <1>3, <1>4
<1>6. /\ k = 0 => v = 0
      /\ k >= 1 => v >= WordBits
      /\ k <= -1 => v <= -WordBits
      /\ WordBits * (k - 1) = v - WordBits
    BY <1>1, <1>2, <1>4
<1>7. d >= s <=> (i > j \/ (i = j /\ p >= b))
    BY <1>1, <1>2, <1>3, <1>5, <1>6
<1>8. d - s = v + p - b /\ d - s = (v - WordBits) + (p + (WordBits - b))
    BY <1>1, <1>5
<1> QED
    BY <1>1, <1>2, <1>4, <1>6, <1>7, <1>8

\* A bit of a word is there.
LEMMA InBitmap ==
    ASSUME NEW w \in Bitmaps, NEW i \in Index, NEW p \in Positions, NEW j \in Index, NEW b \in Positions
    PROVE  /\ i >= j /\ p >= b =>
                  /\ i - j \in Index /\ p - b \in Positions
                  /\ w[i - j][p - b] \in BOOLEAN
           /\ i > j /\ p < b =>
                  /\ i - j - 1 \in Index /\ p + (WordBits - b) \in Positions
                  /\ w[i - j - 1][p + (WordBits - b)] \in BOOLEAN
<1>1. \A k \in Index, m \in Positions : w[k][m] \in BOOLEAN
    BY DEF Bitmaps
<1>2. i >= j /\ p >= b => i - j \in Index /\ p - b \in Positions
    BY WordAssumption DEF Index, Positions
<1>3. i > j /\ p < b => i - j - 1 \in Index /\ p + (WordBits - b) \in Positions
    BY WordAssumption DEF Index, Positions
<1> QED
    BY <1>1, <1>2, <1>3

\* shift_bitmap_left moves the row: what crosses into the next word is carried over, what
\* leaves the last one is gone.
LEMMA ShiftMovesRow ==
    ASSUME NEW w \in Bitmaps, NEW s \in Nat
    PROVE  /\ ShiftBitmapLeft(w, s) \in Bitmaps
           /\ RowOf(ShiftBitmapLeft(w, s)) = [d \in RowBits |-> d >= s /\ RowOf(w)[d - s]]
<1>1. CASE s >= Window
    <2>1. ShiftBitmapLeft(w, s) = Cleared
        BY <1>1 DEF ShiftBitmapLeft
    <2>2. \A d \in RowBits : ~(d >= s)
        BY <1>1, WordAssumption DEF RowBits, Window
    <2>3. [d \in RowBits |-> d >= s /\ RowOf(w)[d - s]] = [d \in RowBits |-> FALSE]
        BY <2>2
    <2> QED
        BY <2>1, <2>3, RowTyped
<1>2. CASE ~(s >= Window)
    <2>1. s \in RowBits
        BY <1>2, WordAssumption DEF RowBits, Window
    <2>2. PICK j, b : j = s \div WordBits /\ b = s % WordBits
        OBVIOUS
    <2>3. j \in Index /\ b \in Positions /\ s = WordBits * j + b
        BY <2>1, <2>2, BitPlace
    <2>4. PICK moved : moved = ShiftBitmapLeft(w, s)
        OBVIOUS
    <2> DEFINE Carry(i) == IF b # 0 /\ i > j THEN ShiftRight(w[i - j - 1], WordBits - b)
                           ELSE Cleared[i]
    <2>5. moved = [i \in Index |-> IF i >= j THEN Either(ShiftLeft(w[i - j], b), Carry(i))
                                   ELSE Cleared[i]]
        BY <1>2, <2>2, <2>4 DEF ShiftBitmapLeft
    <2>6. \A i \in Index, p \in Positions :
              /\ i \in Nat /\ j \in Nat /\ p \in Nat /\ b \in Nat /\ WordBits \in Nat
              /\ p < WordBits /\ b < WordBits /\ Cleared[i][p] = FALSE
        BY <2>3, WordAssumption DEF Index, Positions, Cleared
    <2>7. ASSUME NEW i \in Index, NEW p \in Positions, i < j
          PROVE  moved[i][p] = FALSE
        <3>1. ~(i >= j)
            BY <2>6, <2>7
        <3>2. moved[i] = Cleared[i]
            BY <2>5, <3>1
        <3> QED
            BY <2>6, <3>2
    <2>8. ASSUME NEW i \in Index, NEW p \in Positions, i >= j
          PROVE  /\ moved[i][p] = (ShiftLeft(w[i - j], b)[p] \/ Carry(i)[p])
                 /\ ShiftLeft(w[i - j], b)[p] = (p >= b /\ w[i - j][p - b])
        <3>1. moved[i] = Either(ShiftLeft(w[i - j], b), Carry(i))
            BY <2>5, <2>8
        <3>2. moved[i][p] = (ShiftLeft(w[i - j], b)[p] \/ Carry(i)[p])
            BY <3>1 DEF Either
        <3> QED
            BY <3>2 DEF ShiftLeft
    <2>9. ASSUME NEW i \in Index, NEW p \in Positions, i >= j, p >= b
          PROVE  moved[i][p] = w[i - j][p - b]
        <3>1. w[i - j][p - b] \in BOOLEAN
            BY <2>3, <2>9, InBitmap
        <3>2. ShiftLeft(w[i - j], b)[p] = w[i - j][p - b]
            BY <2>8, <2>9, <3>1
        <3>3. Carry(i)[p] = FALSE
            <4>1. CASE b # 0 /\ i > j
                <5>1. ~(p + (WordBits - b) < WordBits)
                    BY <2>6, <2>9
                <5> QED
                    BY <4>1, <5>1 DEF ShiftRight
            <4> QED
                BY <2>6, <4>1
        <3> QED
            BY <2>8, <2>9, <3>1, <3>2, <3>3
    <2>10. ASSUME NEW i \in Index, NEW p \in Positions, i >= j, p < b
           PROVE  moved[i][p] = Carry(i)[p] /\ Carry(i)[p] \in BOOLEAN
        <3>1. ~(p >= b)
            BY <2>6, <2>10
        <3>2. (p >= b /\ w[i - j][p - b]) = FALSE
            BY <3>1
        <3>3. ShiftLeft(w[i - j], b)[p] = FALSE
            BY <2>8, <2>10, <3>2
        <3>4. Carry(i)[p] \in BOOLEAN
            BY <2>6 DEF ShiftRight
        <3> QED
            BY <2>8, <2>10, <3>3, <3>4
    <2>11. ASSUME NEW i \in Index, NEW p \in Positions, i = j, p < b
           PROVE  moved[i][p] = FALSE
        <3>1. i >= j /\ ~(i > j)
            BY <2>6, <2>11
        <3>2. Carry(i)[p] = FALSE
            BY <2>6, <3>1
        <3> QED
            BY <2>10, <2>11, <3>1, <3>2
    <2>12. ASSUME NEW i \in Index, NEW p \in Positions, i > j, p < b
           PROVE  moved[i][p] = w[i - j - 1][p + (WordBits - b)]
        <3>1. /\ p + (WordBits - b) < WordBits /\ b # 0 /\ i >= j
              /\ w[i - j - 1][p + (WordBits - b)] \in BOOLEAN
            BY <2>3, <2>6, <2>12, InBitmap
        <3>2. Carry(i)[p] = w[i - j - 1][p + (WordBits - b)]
            BY <2>12, <3>1 DEF ShiftRight
        <3> QED
            BY <2>10, <2>12, <3>1, <3>2
    <2>13. moved \in Bitmaps
        <3>1. ASSUME NEW i \in Index, NEW p \in Positions PROVE moved[i][p] \in BOOLEAN
            <4>1. i < j \/ (i = j /\ p < b) \/ (i >= j /\ p >= b) \/ (i > j /\ p < b)
                BY <2>6
            <4>2. CASE i < j \/ (i = j /\ p < b)
                BY <2>7, <2>11, <4>2
            <4>3. CASE i >= j /\ p >= b
                BY <2>3, <2>9, <4>3, InBitmap
            <4>4. CASE i > j /\ p < b
                BY <2>3, <2>12, <4>4, InBitmap
            <4> QED
                BY <4>1, <4>2, <4>3, <4>4
        <3>2. ASSUME NEW i \in Index PROVE moved[i] = [p \in Positions |-> moved[i][p]]
            BY <2>5 DEF Either, Cleared
        <3>3. \A i \in Index : moved[i] \in [Positions -> BOOLEAN]
            BY <3>1, <3>2
        <3> QED
            BY <2>5, <3>3 DEF Bitmaps
    <2>14. ASSUME NEW d \in RowBits
           PROVE  Bit(moved, d) = (d >= s /\ RowOf(w)[d - s])
        <3>1. PICK i, p : i = d \div WordBits /\ p = d % WordBits
            OBVIOUS
        <3>2. i \in Index /\ p \in Positions /\ d = WordBits * i + p /\ Bit(moved, d) = moved[i][p]
            BY <3>1, BitPlace DEF Bit
        <3>3. /\ d >= s <=> (i > j \/ (i = j /\ p >= b))
              /\ i >= j /\ p >= b => d - s = WordBits * (i - j) + (p - b)
              /\ i > j /\ p < b => d - s = WordBits * (i - j - 1) + (p + (WordBits - b))
            BY <2>3, <3>2, ShiftedFrom
        <3>4. d >= s => RowOf(w)[d - s] = Bit(w, d - s)
            BY <2>1, WordAssumption DEF RowBits, RowOf, Window
        <3>5. CASE i < j \/ (i = j /\ p < b)
            <4>1. ~(d >= s)
                BY <2>6, <3>2, <3>3, <3>5
            <4>2. (d >= s /\ RowOf(w)[d - s]) = FALSE
                BY <4>1
            <4> QED
                BY <2>7, <2>11, <3>2, <3>5, <4>2
        <3>6. CASE i >= j /\ p >= b
            <4>1. d >= s /\ d - s = WordBits * (i - j) + (p - b)
                BY <2>6, <3>2, <3>3, <3>6
            <4>2. i - j \in Index /\ p - b \in Positions /\ w[i - j][p - b] \in BOOLEAN
                BY <2>3, <3>2, <3>6, InBitmap
            <4>3. Bit(w, d - s) = w[i - j][p - b]
                <5>1. i - j \in Nat
                    BY <4>2, WordAssumption DEF Index
                <5> QED
                    BY <4>1, <4>2, <5>1, OnePlace DEF Bit
            <4>4. moved[i][p] = w[i - j][p - b]
                BY <2>9, <3>2, <3>6
            <4>5. RowOf(w)[d - s] = w[i - j][p - b]
                BY <3>4, <4>1, <4>3
            <4>6. (d >= s /\ RowOf(w)[d - s]) = w[i - j][p - b]
                BY <4>1, <4>2, <4>5
            <4> QED
                BY <3>2, <4>4, <4>6
        <3>7. CASE i > j /\ p < b
            <4>1. d >= s /\ d - s = WordBits * (i - j - 1) + (p + (WordBits - b))
                BY <3>3, <3>7
            <4>2. /\ i - j - 1 \in Index /\ p + (WordBits - b) \in Positions
                  /\ w[i - j - 1][p + (WordBits - b)] \in BOOLEAN
                BY <2>3, <3>2, <3>7, InBitmap
            <4>3. Bit(w, d - s) = w[i - j - 1][p + (WordBits - b)]
                <5>1. i - j - 1 \in Nat
                    BY <4>2, WordAssumption DEF Index
                <5> QED
                    BY <4>1, <4>2, <5>1, OnePlace DEF Bit
            <4>4. moved[i][p] = w[i - j - 1][p + (WordBits - b)]
                BY <2>12, <3>2, <3>7
            <4>5. RowOf(w)[d - s] = w[i - j - 1][p + (WordBits - b)]
                BY <3>4, <4>1, <4>3
            <4>6. (d >= s /\ RowOf(w)[d - s]) = w[i - j - 1][p + (WordBits - b)]
                BY <4>1, <4>2, <4>5
            <4> QED
                BY <3>2, <4>4, <4>6
        <3> QED
            <4>1. i < j \/ (i = j /\ p < b) \/ (i >= j /\ p >= b) \/ (i > j /\ p < b)
                BY <2>6, <3>2
            <4> QED
                BY <3>5, <3>6, <3>7, <4>1
    <2>15. RowOf(moved) = [d \in RowBits |-> d >= s /\ RowOf(w)[d - s]]
        <3>1. RowOf(moved) = [d \in RowBits |-> Bit(moved, d)]
            BY DEF RowOf
        <3> QED
            BY <2>14, <3>1
    <2> QED
        BY <2>4, <2>13, <2>15
<1> QED
    BY <1>1, <1>2

-------------------------------------------------------------------------------
\* The words are words, and the highest sequence number is a number.
WordsTyped == words \in Bitmaps /\ highest \in Nat /\ initialized \in BOOLEAN

\* A delivery does to the row what gm_replay_window_accept does to the words, and answers alike.
LEMMA AcceptsAlike ==
    ASSUME WordsTyped, NEW seq \in 0..MaxSeq, Accept(seq)
    PROVE  WordsTyped' /\ Row!Accept(seq)
<1>1. seq \in Nat /\ highest \in Nat /\ words \in Bitmaps /\ Window \in Nat \ {0} /\ 0 \in RowBits
    BY WordAssumption DEF WordsTyped, Window, RowBits
<1>2. CASE ~initialized /\ initialized' = TRUE /\ highest' = seq /\ words' = WithBit(Cleared, 0)
           /\ decision' = "ACCEPTED" /\ seen' = seen \union {seq}
    <2>1. words' \in Bitmaps /\ RowOf(words') = [RowOf(Cleared) EXCEPT ![0] = TRUE]
        BY <1>1, <1>2, SetBit, RowTyped
    <2>2. RowOf(words') = [Row!NoBits EXCEPT ![0] = TRUE]
        BY <2>1, RowTyped DEF Row!NoBits, Row!Bits, RowBits
    <2>3. Row!First(seq)
        BY <1>2, <2>2 DEF Row!First, Row!Accepted, RowOf, RowBits
    <2> QED
        BY <1>1, <1>2, <2>1, <2>3 DEF WordsTyped, Row!Accept
<1>3. CASE initialized /\ seq > highest /\ highest' = seq
           /\ words' = WithBit(ShiftBitmapLeft(words, seq - highest), 0)
           /\ decision' = "ACCEPTED" /\ seen' = seen \union {seq} /\ UNCHANGED initialized
    <2>1. PICK n, moved : n = seq - highest /\ moved = ShiftBitmapLeft(words, n)
        OBVIOUS
    <2>2. n \in Nat
        BY <1>1, <1>3, <2>1
    <2>3. moved \in Bitmaps /\ RowOf(moved) = [d \in RowBits |-> d >= n /\ RowOf(words)[d - n]]
        BY <1>1, <2>1, <2>2, ShiftMovesRow
    <2>4. words' \in Bitmaps /\ RowOf(words') = [RowOf(moved) EXCEPT ![0] = TRUE]
        BY <1>1, <1>3, <2>1, <2>3, SetBit
    <2>5. RowOf(moved) = Row!Shifted(n)
        BY <2>3 DEF Row!Shifted, Row!Bits, RowOf, RowBits
    <2>6. RowOf(words') = [Row!Shifted(seq - highest) EXCEPT ![0] = TRUE]
        BY <2>1, <2>4, <2>5
    <2>7. Row!Newer(seq)
        BY <1>3, <2>6 DEF Row!Newer, Row!Accepted, RowOf, RowBits
    <2> QED
        BY <1>1, <1>3, <2>4, <2>7 DEF WordsTyped, Row!Accept
<1>4. CASE initialized /\ seq <= highest /\ Behind(seq) /\ decision' = "TOO_OLD"
           /\ UNCHANGED <<initialized, highest, words, seen>>
    <2>1. Row!Older(seq)
        BY <1>4 DEF Behind, Row!Older, Row!Behind, Row!Rejected
    <2> QED
        BY <1>4, <2>1 DEF WordsTyped, Row!Accept
<1>5. ASSUME seq <= highest, ~Behind(seq)
      PROVE  highest - seq \in RowBits /\ RowOf(words)[highest - seq] = Bit(words, highest - seq)
    <2>1. highest - seq \in RowBits
        BY <1>1, <1>5 DEF Behind, RowBits
    <2> QED
        BY <2>1 DEF RowOf
<1>6. CASE initialized /\ seq <= highest /\ ~Behind(seq) /\ Bit(words, highest - seq)
           /\ decision' = "DUPLICATE" /\ UNCHANGED <<initialized, highest, words, seen>>
    <2>1. Row!Older(seq)
        BY <1>5, <1>6 DEF Behind, Row!Older, Row!Behind, Row!Rejected, RowOf, RowBits
    <2> QED
        BY <1>6, <2>1 DEF WordsTyped, Row!Accept
<1>7. CASE initialized /\ seq <= highest /\ ~Behind(seq) /\ ~Bit(words, highest - seq)
           /\ words' = WithBit(words, highest - seq) /\ decision' = "ACCEPTED"
           /\ seen' = seen \union {seq} /\ UNCHANGED <<initialized, highest>>
    <2>1. words' \in Bitmaps /\ RowOf(words') = [RowOf(words) EXCEPT ![highest - seq] = TRUE]
        BY <1>1, <1>5, <1>7, SetBit
    <2>2. Row!Older(seq)
        BY <1>5, <1>7, <2>1 DEF Behind, Row!Older, Row!Behind, Row!Accepted, RowOf, RowBits
    <2> QED
        BY <1>7, <2>1, <2>2 DEF WordsTyped, Row!Accept
<1> QED
    BY <1>2, <1>3, <1>4, <1>6, <1>7 DEF Accept

\* gm_media.cpp:91-111 and 219-255: for every number and every width of words, the array that
\* is shifted word by word with carries is the window of single bits.
THEOREM WordsImplementRow == Spec => ImplementsReplayWindow
<1>1. Init => WordsTyped /\ Row!Init
    <2> SUFFICES ASSUME Init PROVE WordsTyped /\ Row!Init
        OBVIOUS
    <2>1. words = Cleared /\ Cleared \in Bitmaps
        BY RowTyped DEF Init
    <2>2. RowOf(words) = Row!NoBits
        BY <2>1, RowTyped DEF Row!NoBits, Row!Bits, RowBits
    <2> QED
        BY <2>1, <2>2 DEF Init, WordsTyped, Row!Init, RowOf, RowBits
<1>2. WordsTyped /\ [Next]_vars => WordsTyped' /\ [Row!Next]_(Row!vars)
    <2> SUFFICES ASSUME WordsTyped, [Next]_vars PROVE WordsTyped' /\ [Row!Next]_(Row!vars)
        OBVIOUS
    <2>1. ASSUME NEW seq \in 0..MaxSeq, Accept(seq)
          PROVE  WordsTyped' /\ Row!Next
        BY <2>1, AcceptsAlike DEF Row!Next, Row!Seqs
    <2>2. CASE UNCHANGED vars
        BY <2>2 DEF vars, WordsTyped, Row!vars
    <2> QED
        BY <2>1, <2>2 DEF Next
<1> QED
    BY <1>1, <1>2, PTL DEF Spec, ImplementsReplayWindow, Row!Spec
================================================================================
