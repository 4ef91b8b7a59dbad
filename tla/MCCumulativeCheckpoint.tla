------------------------- MODULE MCCumulativeCheckpoint -------------------------
(* Small instances of CumulativeCheckpoint. *)
EXTENDS CumulativeCheckpoint, TLC

InterchangeableCalls == Permutations(Calls)
===============================================================================
