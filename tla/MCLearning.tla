------------------------------ MODULE MCLearning ------------------------------
EXTENDS Learning, TLC

CONSTANTS t1, t2, t3, q, stop, low, out

MCPoolOf == [t \in Traded |-> q]
\* Trades of three kinds; gains and losses that leave a lesson.
MCFee == (stop :> 4) @@ (low :> 5) @@ (out :> 9)
MCOrganic == (stop :> 50) @@ (low :> 66) @@ (out :> 80)
MCFees == (stop :> FALSE) @@ (low :> TRUE) @@ (out :> TRUE)
MCWhy == (stop :> "stop loss") @@ (low :> "low yield") @@ (out :> "out of range")
MCResults == (stop :> {-8}) @@ (low :> {6}) @@ (out :> {6})

Symmetric == Permutations(Traded)
=============================================================================
