------------------------------ MODULE EpochWindow ------------------------------
(***************************************************************************)
(* gm_epoch_window (shared/core/gm_media.cpp): which key epochs a media    *)
(* receiver accepts.  gm_epoch_window_begin_rekey moves to the next epoch  *)
(* and keeps the replaced one for a grace period; gm_epoch_window_accept   *)
(* only reads.  The code takes the time as an argument; the caller's       *)
(* monotonic clock is the variable now.                                    *)
(***************************************************************************)
EXTENDS Naturals

CONSTANTS
    MaxEpoch,   \* UINT32_MAX
    MaxTime,    \* UINT64_MAX nanoseconds
    Grace       \* kRekeyGraceNs, five seconds

ASSUME EpochAssumption ==
    /\ MaxEpoch \in Nat \ {0}
    /\ MaxTime \in Nat
    /\ Grace \in 0..MaxTime

VARIABLES
    current,        \* current_epoch
    previous,       \* previous_epoch
    hasPrevious,    \* has_previous_epoch
    expires,        \* previous_epoch_expires_ns
    now,
    replacedAt      \* history: when each epoch was replaced

epochVars == <<current, previous, hasPrevious, expires, now, replacedAt>>

Epochs == 1..MaxEpoch
Times == 0..MaxTime
Never == MaxTime + 1

\* gm_epoch_window_init with any epoch but zero
EpochInit ==
    /\ current \in Epochs
    /\ previous = 0
    /\ hasPrevious = FALSE
    /\ expires = 0
    /\ now \in Times
    /\ replacedAt = [e \in Epochs |-> Never]

NextEpochAny(e) == e # current                                  \* fault: any other epoch will do

\* The epoch after current; past the top the sum is zero, which is rejected.
NextEpoch(e) == e = (IF current = MaxEpoch THEN 0 ELSE current + 1) /\ e # 0

ExpiryUnchecked == now + Grace                                  \* fault: leaves the range
ExpiryWrapped == (now + Grace) % (MaxTime + 1)                  \* fault: wraps at the top

\* When the replaced epoch ends; the sum stays at the top of the clock's range.
Expiry == IF now > MaxTime - Grace THEN MaxTime ELSE now + Grace

\* gm_epoch_window_begin_rekey; another epoch than the next one is GM_BAD_MESSAGE.
BeginRekey(e) ==
    /\ NextEpoch(e)
    /\ previous' = current
    /\ current' = e
    /\ hasPrevious' = TRUE
    /\ expires' = Expiry
    /\ replacedAt' = [replacedAt EXCEPT ![current] = now]
    /\ UNCHANGED now

\* Time passes, by any amount, up to the end of the clock.
Tick ==
    /\ \E t \in Times : t > now /\ now' = t
    /\ UNCHANGED <<current, previous, hasPrevious, expires, replacedAt>>

EpochNext == Tick \/ \E e \in Epochs : BeginRekey(e)

EpochSpec == EpochInit /\ [][EpochNext]_epochVars

InGrace(e) == hasPrevious /\ e = previous /\ now <= expires

\* gm_epoch_window_accept
Acceptance(e) ==
    IF e = current THEN "CURRENT"
    ELSE IF InGrace(e) THEN "PREVIOUS_GRACE" ELSE "REJECTED"

-------------------------------------------------------------------------------
\* Every field stays in its range, the expiry within the clock's.
EpochTypeOK ==
    /\ current \in Epochs
    /\ previous \in 0..MaxEpoch
    /\ hasPrevious \in BOOLEAN
    /\ expires \in Times
    /\ now \in Times
    /\ replacedAt \in [Epochs -> Times \union {Never}]

\* What the grace period rests on: the previous epoch is the one below the current
\* one, and it ends Grace after its replacement unless the clock's range ends first.
EpochIInv ==
    /\ \A e \in Epochs : replacedAt[e] # Never => e < current /\ replacedAt[e] <= now
    /\ \A e \in Epochs : hasPrevious /\ e + 1 = current =>
            /\ previous = e
            /\ replacedAt[e] # Never
            /\ expires = IF replacedAt[e] > MaxTime - Grace THEN MaxTime
                         ELSE replacedAt[e] + Grace
    /\ hasPrevious => previous \in Epochs /\ previous + 1 = current
    /\ ~hasPrevious => \A e \in Epochs : replacedAt[e] = Never

\* gm_media.cpp:279-285,302-306: packets of an old epoch are accepted exactly while it is
\* the last one replaced and no more than Grace has passed since, also at the end of the
\* clock's range, where the expiry saturates.
GraceIsExact ==
    \A e \in Epochs :
        Acceptance(e) = "PREVIOUS_GRACE" <=>
            /\ e + 1 = current
            /\ replacedAt[e] # Never
            /\ now <= replacedAt[e] + Grace

\* gm_media.cpp:276,298-307: an epoch once refused stays refused, whatever is rekeyed
\* later: a key that was erased is never asked for again.
EpochsRetireForGood ==
    [][\A e \in Epochs :
        e <= current /\ Acceptance(e) = "REJECTED" => Acceptance(e)' = "REJECTED"]_epochVars
================================================================================
