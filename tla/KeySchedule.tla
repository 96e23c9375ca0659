------------------------------ MODULE KeySchedule ------------------------------
(***************************************************************************)
(* What one authenticated control session promises to the media plane.     *)
(*                                                                         *)
(* Media keys are derived from the TLS exporter, a stream ID and a key     *)
(* epoch, and packet sequence numbers restart with every epoch, so a pair  *)
(* <<stream, epoch>> names one key and must be given out once.  This is    *)
(* the abstract specification: keys are handed out in increasing order,    *)
(* audio may begin only on a key whose UDP path was proven, and closing    *)
(* ends the key.  ControlSession (shared/core/gm_state.cpp) implements it. *)
(***************************************************************************)
EXTENDS Naturals

CONSTANTS
    MaxStream,      \* the largest stream ID; the only one that may come back
    MaxEpoch,       \* the largest key epoch
    FirstEpoch      \* the epoch a stream starts with

VARIABLES
    used,           \* every key handed out so far, as <<stream, epoch>>
    current,        \* the set holding the key in use: empty or a singleton
    proven,         \* the UDP path of the current key has been validated
    flowing         \* audio is authorised

vars == <<used, current, proven, flowing>>

Keys == (1..MaxStream) \X (1..MaxEpoch)

Init ==
    /\ used = {}
    /\ current = {}
    /\ proven = FALSE
    /\ flowing = FALSE

\* A key nobody has had; the last stream ID comes back, and its keys with it.
Fresh(key) == key \notin used \/ key[1] = MaxStream

\* A new stream gets an ID above every earlier one; at the very top of the ID
\* space the last one is all that is left.
Open(stream) ==
    /\ current = {}
    /\ \A key \in used : key[1] < stream \/ stream = MaxStream
    /\ current' = {<<stream, FirstEpoch>>}
    /\ used' = used \union current'
    /\ proven' = FALSE
    /\ UNCHANGED flowing

\* A rekey moves to the next epoch, which is new, and needs a new path proof.
Rekey ==
    /\ \E key \in current :
        /\ key[2] < MaxEpoch
        /\ Fresh(<<key[1], key[2] + 1>>)
        /\ current' = {<<key[1], key[2] + 1>>}
    /\ used' = used \union current'
    /\ proven' = FALSE
    /\ UNCHANGED flowing

Prove ==
    /\ current # {}
    /\ proven' = TRUE
    /\ UNCHANGED <<used, current, flowing>>

Start ==
    /\ proven
    /\ flowing' = TRUE
    /\ UNCHANGED <<used, current, proven>>

Stop ==
    /\ flowing' = FALSE
    /\ UNCHANGED <<used, current, proven>>

Close ==
    /\ current' = {}
    /\ proven' = FALSE
    /\ flowing' = FALSE
    /\ UNCHANGED used

Next ==
    \/ \E stream \in 1..MaxStream : Open(stream)
    \/ Rekey \/ Prove \/ Start \/ Stop \/ Close

Spec == Init /\ [][Next]_vars
================================================================================
