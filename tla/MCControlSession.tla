--------------------------- MODULE MCControlSession ---------------------------
(***************************************************************************)
(* Small instances of ControlSession.  Stream IDs start one below the top  *)
(* of the ID space, so a run reaches an ordinary close and reopen, the     *)
(* last stream ID, and the point where it comes back; key epochs start two *)
(* below the top, so the last epoch and a rekey after it are reached too.  *)
(***************************************************************************)
EXTENDS ControlSession, TLC

MCFirstStreamId == MaxU32 - 1

MCFirstKeyEpoch == MaxU32 - 2

\* Parameters and timestamps are only ever compared for equality.
Symmetry == Permutations(StreamParams) \union Permutations(Timestamps)
================================================================================
