------------------------- MODULE MCRunbookExecution -------------------------
(***************************************************************************)
(* Instances of RunbookExecution for TLC.                                  *)
(***************************************************************************)
EXTENDS RunbookExecution

CONSTANTS p1, p2

Plain == [type |-> "change", n |-> 1, fail |-> "abort", to |-> {}, late |-> "never"]

Change(how)       == [Plain EXCEPT !.fail = how]
Parallel(n, how)  == [Plain EXCEPT !.type = "parallel_group", !.n = n, !.fail = how]
Condition(to)     == [Plain EXCEPT !.type = "condition", !.to = to]
Checkpoint(late)  == [Plain EXCEPT !.type = "human_checkpoint", !.n = 0, !.late = late]

\* A failure that is passed, a timeout that goes on, a group; a way back to a
\* step that is done; a timeout and a failure that end the runbook.
Books == { <<Change("continue"), Checkpoint("continue"), Parallel(2, "rollback_all")>>,
           <<Change("continue"), Condition({1, 3}), Change("abort")>>,
           <<Checkpoint("abort"), Change("rollback_all")>> }

ShortBooks == { <<Parallel(2, "continue"), Checkpoint("continue")>>,
                <<Change("abort"), Condition({1, 3})>> }
=============================================================================
