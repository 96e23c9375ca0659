--------------------------- MODULE MediaWindowProofs ---------------------------
(***************************************************************************)
(* Proofs about the two windows of a media receiver (gm_media.cpp):        *)
(* ReplayWindow for every window size and every range of sequence numbers, *)
(* EpochWindow for every range of epochs and of the clock and every grace  *)
(* period.  The two share no state; a theorem is about the one or the      *)
(* other specification.                                                    *)
(***************************************************************************)
EXTENDS ReplayWindow, EpochWindow, TLAPS

-------------------------------------------------------------------------------
(* The replay window *)


\* One bit set in a bitmap leaves a bitmap.
LEMMA SetBit ==
    ASSUME NEW map \in [Bits -> BOOLEAN], NEW d \in Bits
    PROVE  [map EXCEPT ![d] = TRUE] \in [Bits -> BOOLEAN]
OBVIOUS

\* gm_replay_window_accept keeps every field in its range.
LEMMA StepTyped == ASSUME TypeOK, [Next]_vars PROVE TypeOK'
<1>1. 0 \in Bits /\ NoBits \in [Bits -> BOOLEAN]
  BY WindowAssumption DEF Bits, NoBits
<1>2. ASSUME NEW seq \in Seqs, First(seq) PROVE TypeOK'
  <2>1. bitmap' \in [Bits -> BOOLEAN]
    BY <1>1, <1>2, SetBit DEF First
  <2> QED BY <1>2, <2>1 DEF First, Accepted, TypeOK
<1>3. ASSUME NEW seq \in Seqs, Newer(seq) PROVE TypeOK'
  <2>1. Shifted(seq - highest) \in [Bits -> BOOLEAN]
    BY DEF Shifted
  <2>2. bitmap' \in [Bits -> BOOLEAN]
    BY <1>1, <1>3, <2>1, SetBit DEF Newer
  <2> QED BY <1>3, <2>2 DEF Newer, Accepted, TypeOK
<1>4. ASSUME NEW seq \in Seqs, Older(seq) PROVE TypeOK'
  <2>1. CASE \E why \in {"TOO_OLD", "DUPLICATE"} : Rejected(why)
    BY <2>1 DEF Rejected, TypeOK
  <2>2. CASE /\ ~Behind(seq) /\ bitmap' = [bitmap EXCEPT ![highest - seq] = TRUE]
             /\ Accepted(seq) /\ UNCHANGED <<initialized, highest>>
    <3>1. highest - seq \in Bits
      BY <1>4, <2>2, WindowAssumption DEF Older, Behind, Bits, TypeOK, Seqs
    <3>2. bitmap' \in [Bits -> BOOLEAN]
      BY <2>2, <3>1, SetBit DEF TypeOK
    <3> QED BY <2>2, <3>2 DEF Accepted, TypeOK
  <2> QED BY <1>4, <2>1, <2>2 DEF Older
<1>5. CASE UNCHANGED vars
  BY <1>5 DEF vars, TypeOK
<1> QED BY <1>2, <1>3, <1>4, <1>5 DEF Next, Accept

\* The window starts in its range.
LEMMA InitTyped == ASSUME Init PROVE TypeOK /\ BitmapIsHistory
<1>1. TypeOK
  <2>1. highest \in Seqs /\ seen \subseteq Seqs
    BY WindowAssumption DEF Init, Seqs
  <2>2. bitmap \in [Bits -> BOOLEAN]
    BY DEF Init, NoBits
  <2> QED BY <2>1, <2>2 DEF Init, TypeOK
<1> QED BY <1>1 DEF Init, BitmapIsHistory

\* Every field of the replay window stays in its range.
THEOREM TypeCorrect == Spec => []TypeOK
BY InitTyped, StepTyped, PTL DEF Spec

\* The first sequence number: a window with nothing but it.
LEMMA FirstRemembers ==
    ASSUME TypeOK, BitmapIsHistory, NEW seq \in Seqs, First(seq) PROVE BitmapIsHistory'
<1>1. seen = {} /\ seen' = {seq} /\ highest' = seq /\ initialized' = TRUE
  BY DEF First, Accepted, BitmapIsHistory
<1>2. \A d \in Bits : bitmap'[d] <=> d = 0
  BY WindowAssumption DEF First, NoBits, Bits
<1>3. \A d \in Bits : d <= seq /\ seq - d \in {seq} <=> d = 0
  BY WindowAssumption DEF Bits, Seqs
<1> QED BY <1>1, <1>2, <1>3 DEF BitmapIsHistory, Seqs

\* A newer sequence number: the row of bits moves up with it.
LEMMA NewerRemembers ==
    ASSUME TypeOK, BitmapIsHistory, NEW seq \in Seqs, Newer(seq) PROVE BitmapIsHistory'
<1> USE WindowAssumption DEF Bits, Seqs
<1>1. /\ seen' = seen \union {seq} /\ highest' = seq /\ seq > highest
      /\ initialized /\ initialized' = initialized
  BY DEF Newer, Accepted
<1>2. highest \in Nat /\ seen \subseteq Nat /\ \A old \in seen : old <= highest
  BY DEF TypeOK, BitmapIsHistory
<1>3. \A d \in Bits : bitmap'[d] <=> d = 0 \/ (d >= seq - highest /\ bitmap[d - (seq - highest)])
  BY DEF Newer, Shifted
<1>4. ASSUME NEW d \in Bits PROVE bitmap'[d] <=> d <= seq /\ seq - d \in seen \union {seq}
  <2>1. CASE d = 0
    BY <1>3, <2>1
  <2>2. CASE d # 0 /\ d < seq - highest
    <3>1. d <= seq => seq - d > highest /\ seq - d # seq
      BY <1>1, <1>2, <2>2
    <3> QED BY <1>2, <1>3, <2>2, <3>1
  <2>3. CASE d # 0 /\ d >= seq - highest
    <3>1. d - (seq - highest) \in Bits
      BY <1>1, <1>2, <2>3
    <3>2. highest - (d - (seq - highest)) = seq - d /\ seq - d # seq
      BY <1>1, <1>2, <2>3
    <3>3. d - (seq - highest) <= highest <=> d <= seq
      BY <1>1, <1>2, <2>3
    <3>4. bitmap[d - (seq - highest)] <=> d <= seq /\ seq - d \in seen
      BY <1>1, <3>1, <3>2, <3>3 DEF BitmapIsHistory
    <3>5. bitmap'[d] <=> bitmap[d - (seq - highest)]
      BY <1>3, <2>3
    <3>6. seq - d \in seen \union {seq} <=> seq - d \in seen
      BY <3>2
    <3> QED BY <3>4, <3>5, <3>6
  <2> QED BY <1>1, <1>2, <2>1, <2>2, <2>3
<1>5. \A old \in seen' : old <= highest'
  BY <1>1, <1>2
<1>6. seen' # {} /\ highest' \in seen'
  BY <1>1
<1> HIDE DEF Bits, Seqs
<1> QED BY <1>1, <1>4, <1>5, <1>6 DEF BitmapIsHistory

\* An older sequence number is turned away, or its bit was clear and is set.
LEMMA OlderRemembers ==
    ASSUME TypeOK, BitmapIsHistory, NEW seq \in Seqs, Older(seq) PROVE BitmapIsHistory'
<1>1. CASE \E why \in {"TOO_OLD", "DUPLICATE"} : Rejected(why)
  BY <1>1 DEF Rejected, BitmapIsHistory
<1>2. CASE /\ ~Behind(seq) /\ bitmap' = [bitmap EXCEPT ![highest - seq] = TRUE]
           /\ Accepted(seq) /\ UNCHANGED <<initialized, highest>>
  <2> USE WindowAssumption DEF Bits, Seqs
  <2>1. highest \in Nat /\ seq <= highest /\ initialized /\ highest - seq \in Bits
    BY <1>2 DEF TypeOK, Older, Behind
  <2>2. \A d \in Bits : bitmap'[d] <=> d = highest - seq \/ bitmap[d]
    BY <1>2, <2>1 DEF TypeOK
  <2>3. \A d \in Bits : d = highest - seq <=> d <= highest /\ highest - d = seq
    BY <2>1
  <2>4. seen' = seen \union {seq}
    BY <1>2 DEF Accepted
  <2> QED BY <1>2, <2>1, <2>2, <2>3, <2>4 DEF BitmapIsHistory
<1> QED BY <1>1, <1>2 DEF Older

\* The bitmap is the history of the window, whatever the order of the deliveries.
THEOREM Safety == Spec => [](TypeOK /\ BitmapIsHistory)
<1>1. ASSUME TypeOK, BitmapIsHistory, [Next]_vars PROVE BitmapIsHistory'
  <2>1. CASE UNCHANGED vars
    BY <1>1, <2>1 DEF vars, BitmapIsHistory
  <2> QED BY <1>1, <2>1, FirstRemembers, NewerRemembers, OlderRemembers DEF Next, Accept
<1> QED BY <1>1, InitTyped, StepTyped, PTL DEF Spec

\* Where a sequence number stands to the history decides its answer.
LEMMA AnswerIsRight ==
    ASSUME TypeOK, BitmapIsHistory, NEW seq \in Seqs, Accept(seq)
    PROVE  \/ Accepted(seq) /\ seq \notin seen /\ ~Promise!TooOld(seq)
           \/ Rejected("TOO_OLD") /\ Promise!TooOld(seq)
           \/ Rejected("DUPLICATE") /\ seq \in seen /\ ~Promise!TooOld(seq)
<1> USE WindowAssumption DEF Bits, Seqs
<1>1. seen \subseteq Nat /\ highest \in Nat
  BY DEF TypeOK
<1>2. CASE First(seq)
  BY <1>2 DEF First, BitmapIsHistory, Promise!TooOld
<1>3. CASE Newer(seq)
  BY <1>1, <1>3 DEF Newer, BitmapIsHistory, Promise!TooOld
<1>4. CASE Older(seq)
  <2>1. initialized /\ seq <= highest
    BY <1>4 DEF Older
  <2>2. Behind(seq) <=> Promise!TooOld(seq)
    BY <1>1, <2>1 DEF Behind, BitmapIsHistory, Promise!TooOld
  <2>3. ASSUME ~Behind(seq) PROVE bitmap[highest - seq] <=> seq \in seen
    <3>1. highest - seq \in Bits /\ highest - seq <= highest /\ highest - (highest - seq) = seq
      BY <1>1, <2>1, <2>3 DEF Behind
    <3> QED BY <2>1, <3>1 DEF BitmapIsHistory
  <2> QED BY <1>4, <2>2, <2>3 DEF Older
<1> QED BY <1>2, <1>3, <1>4 DEF Accept

\* gm_replay_window_accept: no sequence number is accepted a second time.
THEOREM NeverAcceptedTwice == Spec => AcceptedOnce
<1>1. ASSUME TypeOK, BitmapIsHistory
      PROVE \A seq \in Seqs : Accept(seq) /\ decision' = "ACCEPTED" => seq \notin seen
  BY <1>1, AnswerIsRight DEF Rejected
<1>2. TypeOK /\ BitmapIsHistory /\ [Next]_vars =>
        [\A seq \in Seqs : Accept(seq) /\ decision' = "ACCEPTED" => seq \notin seen]_vars
  BY <1>1
<1> QED BY <1>2, Safety, PTL DEF Spec, AcceptedOnce

\* gm_replay_window_accept: the bitmap window implements the window without a bitmap.
THEOREM WindowImplementsAntiReplay == Spec => ImplementsAntiReplay
<1>1. Init => Promise!Init
  BY DEF Init, Promise!Init
<1>2. ASSUME TypeOK, BitmapIsHistory, [Next]_vars
      PROVE [Promise!Next]_<<seen, decision>>
  <2>1. ASSUME NEW seq \in Seqs, Accept(seq) PROVE Promise!Deliver(seq)
    BY <1>2, <2>1, AnswerIsRight DEF Accepted, Rejected, Promise!Deliver
  <2>2. CASE UNCHANGED vars
    BY <2>2 DEF vars
  <2> QED BY <1>2, <2>1, <2>2 DEF Next, Promise!Next, Promise!Seqs, Seqs
<1> QED BY <1>1, <1>2, Safety, PTL DEF Spec, ImplementsAntiReplay, Promise!Spec

-------------------------------------------------------------------------------
(* The key epoch window *)


\* gm_epoch_window_begin_rekey and the clock keep every field in its range.
LEMMA EpochStepTyped == ASSUME EpochTypeOK, [EpochNext]_epochVars PROVE EpochTypeOK'
<1> USE EpochAssumption DEF EpochTypeOK, Epochs, Times, Never
<1>1. CASE Tick
  BY <1>1 DEF Tick
<1>2. ASSUME NEW e \in Epochs, BeginRekey(e) PROVE EpochTypeOK'
  <2>1. expires' \in Times
    BY <1>2 DEF BeginRekey, Expiry
  <2>2. replacedAt' \in [Epochs -> Times \union {Never}]
    BY <1>2 DEF BeginRekey
  <2> QED BY <1>2, <2>1, <2>2 DEF BeginRekey
<1>3. CASE UNCHANGED epochVars
  BY <1>3 DEF epochVars
<1> QED BY <1>1, <1>2, <1>3 DEF EpochNext

\* Every field of the epoch window stays in its range; the expiry never overflows the
\* 64-bit clock.
THEOREM EpochTypeCorrect == EpochSpec => []EpochTypeOK
<1>1. ASSUME EpochInit PROVE EpochTypeOK
  <2>1. current \in Epochs /\ now \in Times /\ previous \in 0..MaxEpoch /\ expires \in Times
    BY <1>1, EpochAssumption DEF EpochInit, Epochs, Times
  <2>2. hasPrevious \in BOOLEAN
    BY <1>1 DEF EpochInit
  <2>3. replacedAt \in [Epochs -> Times \union {Never}]
    BY <1>1 DEF EpochInit
  <2> QED BY <2>1, <2>2, <2>3 DEF EpochTypeOK
<1> QED BY <1>1, EpochStepTyped, PTL DEF EpochSpec

\* A rekey makes the current epoch the previous one, with its replacement time and expiry.
LEMMA RekeyKeepsInvariant ==
    ASSUME EpochTypeOK, EpochIInv, NEW e \in Epochs, BeginRekey(e) PROVE EpochIInv'
<1> USE EpochAssumption DEF EpochTypeOK, Epochs, Times, Never
<1>1. /\ e = current + 1 /\ current' = e /\ previous' = current /\ hasPrevious' = TRUE
      /\ now' = now /\ expires' = Expiry
  BY DEF BeginRekey, NextEpoch
<1>2. replacedAt' = [replacedAt EXCEPT ![current] = now]
  BY DEF BeginRekey
<1>3. \A f \in Epochs : replacedAt'[f] = IF f = current THEN now ELSE replacedAt[f]
  BY <1>2
<1>4. \A f \in Epochs : replacedAt'[f] # Never => f < current' /\ replacedAt'[f] <= now'
  BY <1>1, <1>3 DEF EpochIInv
<1>5. \A f \in Epochs : f + 1 = current' => f = current
  BY <1>1
<1>6. \A f \in Epochs : hasPrevious' /\ f + 1 = current' =>
        /\ previous' = f
        /\ replacedAt'[f] # Never
        /\ expires' = IF replacedAt'[f] > MaxTime - Grace THEN MaxTime
                      ELSE replacedAt'[f] + Grace
  BY <1>1, <1>3, <1>5 DEF Expiry
<1> QED BY <1>1, <1>4, <1>6 DEF EpochIInv

\* The strengthening is inductive.
LEMMA EpochStepSafe == ASSUME EpochTypeOK, EpochIInv, [EpochNext]_epochVars PROVE EpochIInv'
<1>1. CASE Tick
  BY <1>1, EpochAssumption DEF Tick, EpochIInv, EpochTypeOK, Epochs, Times, Never
<1>2. CASE UNCHANGED epochVars
  BY <1>2 DEF epochVars, EpochIInv
<1> QED BY <1>1, <1>2, RekeyKeepsInvariant DEF EpochNext

\* The inductive invariant of the grace period.
THEOREM EpochSafety == EpochSpec => [](EpochTypeOK /\ EpochIInv)
<1>1. EpochInit => EpochIInv
  BY EpochAssumption DEF EpochInit, EpochIInv, Epochs, Times, Never
<1> QED BY <1>1, EpochTypeCorrect, EpochStepSafe, PTL DEF EpochSpec

\* gm_epoch_window_accept: an old epoch is accepted exactly during the grace period that
\* follows its replacement.
THEOREM GraceAlwaysExact == EpochSpec => []GraceIsExact
<1>1. EpochTypeOK /\ EpochIInv => GraceIsExact
  <2> SUFFICES ASSUME EpochTypeOK, EpochIInv, NEW e \in Epochs
               PROVE Acceptance(e) = "PREVIOUS_GRACE" <=>
                        /\ e + 1 = current
                        /\ replacedAt[e] # Never
                        /\ now <= replacedAt[e] + Grace
    BY DEF GraceIsExact
  <2> USE EpochAssumption DEF EpochTypeOK, Epochs, Times, Never
  <2>1. Acceptance(e) = "PREVIOUS_GRACE" <=> e # current /\ InGrace(e)
    BY DEF Acceptance
  <2>2. CASE ~hasPrevious
    BY <2>1, <2>2 DEF InGrace, EpochIInv
  <2>3. CASE hasPrevious /\ e + 1 # current
    BY <2>1, <2>3 DEF InGrace, EpochIInv
  <2>4. CASE hasPrevious /\ e + 1 = current
    <3>1. /\ previous = e /\ replacedAt[e] # Never
          /\ expires = IF replacedAt[e] > MaxTime - Grace THEN MaxTime ELSE replacedAt[e] + Grace
      BY <2>4 DEF EpochIInv
    <3>2. replacedAt[e] \in Times
      BY <3>1
    <3>3. now <= expires <=> now <= replacedAt[e] + Grace
      BY <3>1, <3>2
    <3> QED BY <2>1, <2>4, <3>1, <3>3 DEF InGrace
  <2> QED BY <2>2, <2>3, <2>4
<1> QED BY <1>1, EpochSafety, PTL

\* gm_epoch_window_begin_rekey: no later rekey brings back an epoch that was refused.
THEOREM RetiredForGood == EpochSpec => EpochsRetireForGood
<1>1. ASSUME EpochTypeOK, [EpochNext]_epochVars, NEW e \in Epochs, e <= current,
             Acceptance(e) = "REJECTED"
      PROVE Acceptance(e)' = "REJECTED"
  <2> USE EpochAssumption DEF EpochTypeOK, Epochs, Times, Never
  <2>1. e # current /\ ~InGrace(e)
    BY <1>1 DEF Acceptance
  <2>2. CASE Tick
    <3>1. e # current' /\ ~InGrace(e)'
      BY <1>1, <2>1, <2>2 DEF Tick, InGrace
    <3> QED BY <3>1 DEF Acceptance
  <2>3. ASSUME NEW f \in Epochs, BeginRekey(f) PROVE e # current' /\ ~InGrace(e)'
    BY <1>1, <2>1, <2>3 DEF BeginRekey, NextEpoch, InGrace
  <2>4. CASE UNCHANGED epochVars
    BY <1>1, <2>1, <2>4 DEF epochVars, Acceptance, InGrace
  <2> QED BY <1>1, <2>2, <2>3, <2>4 DEF EpochNext, Acceptance
<1>2. EpochTypeOK /\ [EpochNext]_epochVars =>
        [\A e \in Epochs :
            e <= current /\ Acceptance(e) = "REJECTED" => Acceptance(e)' = "REJECTED"]_epochVars
  BY <1>1
<1> QED BY <1>2, EpochTypeCorrect, PTL DEF EpochSpec, EpochsRetireForGood
================================================================================
