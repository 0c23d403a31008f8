------------------------- MODULE MCProjectRollback -------------------------
(***************************************************************************)
(* Instances of ProjectRollback for TLC: members on different assets, so   *)
(* that their application sequences are not comparable.                    *)
(***************************************************************************)
EXTENDS ProjectRollback, TLC

CONSTANTS m1, m2, p1, p2, h1, h2

PlannedOrder == (m1 :> 1) @@ (m2 :> 2)
SameOrder    == (m1 :> 0) @@ (m2 :> 0)
Applied      == (m1 :> 1) @@ (m2 :> 1)
Everything   == {Members}
=============================================================================
