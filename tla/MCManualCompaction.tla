------------------------ MODULE MCManualCompaction ------------------------
(* Two callers of TEST_CompactRange, for TLC.                              *)
EXTENDS ManualCompaction, TLC

CONSTANTS c1, c2

CallerSymmetry == Permutations({c1, c2})
=============================================================================
