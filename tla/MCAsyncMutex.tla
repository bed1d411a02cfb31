---------------------------- MODULE MCAsyncMutex ----------------------------
(* TLC instance of AsyncMutex. *)
EXTENDS AsyncMutex, TLC

CallSymmetry == Permutations(Calls)
=============================================================================
