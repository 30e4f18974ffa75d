------------------------------ MODULE MCPosStock ------------------------------
EXTENDS PosStock, TLC

MCId == 1..4
Line(f) == [i \in MCId |-> IF i \in DOMAIN f THEN f[i] ELSE Unset]
MCOpening == {[v \in 1..3 |-> 1]}
\* One of an item, two items, an item and one that is not there, one that is
\* another seller's.
MCBaskets == {Line(1 :> 2), Line(<<1, 1>>), Line(2 :> 1 @@ 4 :> 1), Line(1 :> 1 @@ 3 :> 1),
              Line(4 :> 1)}
\* One variant is counted below zero.
MCSheets == {Line(1 :> 3 @@ 2 :> -2)}
MCSymmetry == Permutations(Worker)
=============================================================================
