--------------------------- MODULE MCDaemonCycles ---------------------------
(* TLC instance of DaemonCycles. *)
EXTENDS DaemonCycles, TLC

RunSymmetry == Permutations(Runs)
=============================================================================
