--------------------------- MODULE MCSignTaskRun ---------------------------
(* Small instances of SignTaskRun for TLC. *)
EXTENDS SignTaskRun, TLC

Symmetry == Permutations(Runs \ Scheduled)
=============================================================================
