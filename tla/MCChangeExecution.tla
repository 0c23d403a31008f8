------------------------- MODULE MCChangeExecution -------------------------
(***************************************************************************)
(* Instances of ChangeExecution for TLC.  In the runs with two CRs both    *)
(* target the same asset, so that they share a rollback stack.             *)
(***************************************************************************)
EXTENDS ChangeExecution, TLC

CONSTANTS c1, c2, a1, p1, p2, t1, t2

OneAsset   == [c \in CRs |-> {a1}]

TaskSymmetry == Permutations(Tasks)
=============================================================================
