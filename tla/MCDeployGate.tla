------------------------------ MODULE MCDeployGate ------------------------------
EXTENDS DeployGate, TLC

CONSTANTS a, b, c, mint, coin, l1, l2

\* Two pools of one token and a third; two wallet positions in two pools.
MCToken == (a :> mint) @@ (b :> mint) @@ (c :> coin)
MCLeadPool == (l1 :> a) @@ (l2 :> b)

\* The two pools of one token, with the wallet positions in them, change places.
Symmetric == {(a :> b) @@ (b :> a) @@ (l1 :> l2) @@ (l2 :> l1)}
=============================================================================
