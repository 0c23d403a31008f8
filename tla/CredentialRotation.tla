-------------------------- MODULE CredentialRotation --------------------------
(***************************************************************************)
(* A credential_rotation CR: its steps run one after the other, a failure  *)
(* pauses the CR, an operator retries or skips the failed step or rolls    *)
(* the CR back, and the rollback undoes the steps the run records as       *)
(* completed.                                                              *)
(*                                                                         *)
(* execution_runs.result is a plain JSON column.  execute_steps keeps one  *)
(* list of steps, changes it in place and assigns {"steps": steps} after   *)
(* every change; the ORM compares the new dictionary with the old one,     *)
(* which holds the same list, and writes nothing once result has this      *)
(* shape.  So the row is modelled with the shape of its result.            *)
(*                                                                         *)
(* The model begins where ExecuteChangeWorkflow (see ChangeExecution)      *)
(* calls execute_steps.  A crash is one of the process that runs the CR's  *)
(* coroutines.  A step's call may fail before or after it took effect: its *)
(* connector timed out, or the commit that follows it in the same try      *)
(* failed.  What the workflow does when execute_steps itself raises is in  *)
(* ChangeExecution; here only a resumed execution raises.                  *)
(***************************************************************************)
EXTENDS Naturals, FiniteSets

CONSTANTS
  NSteps,        \* steps of the CR
  Execs,         \* slots for coroutines of execute_steps
  FirstExec,     \* the one the workflow calls
  MaxRequests,   \* bound on requests
  MaxCrashes     \* bound on crashes

ASSUME RotationAssumption ==
  /\ NSteps \in Nat /\ FirstExec \in Execs
  /\ MaxRequests \in Nat /\ MaxCrashes \in Nat

VARIABLES
  cr,        \* change_requests.status
  run,       \* status of the CR's forward run
  saved,     \* result of that run: its shape and the steps' statuses
  exec,      \* exec[e]: the coroutine of execute_steps in slot e
  undo,      \* the manual rollback: request, and execute_cr_rollback
  live,      \* the steps whose effect is in place in the infrastructure
  effects,   \* effects[i]: how often step i took effect and was not undone
  up, crashes, requests,
  half,      \* history: the steps whose failed call left its effect behind
  overlap,   \* history: a rollback began while an execution was under way
  relapsed   \* history: a resumed execution failed again or raised

state   == <<cr, run, saved, exec, undo, live, effects>>
vars    == <<state, up, crashes, requests, half, overlap, relapsed>>
-----------------------------------------------------------------------------
Steps      == 1..NSteps
StepStatus == {"pending", "executing", "completed", "failed", "skipped"}
CRStatus   == {"executing", "paused", "completed", "failed", "rolled_back",
               "rolled_back_with_warnings"}
Table      == [Steps -> StepStatus]
Fresh      == [i \in Steps |-> "pending"]

\* Shapes of result: NULL, {"steps": ...}, the same with "paused" and
\* "current_step", {"execution": {"steps": ...}}.
Shape  == {"null", "steps", "paused", "execution"}

NoExec == [pc |-> "off", flow |-> FALSE, mem |-> Fresh, shape |-> "null", cur |-> 0]
NoUndo == [pc |-> "off", todo |-> {}, warned |-> FALSE]

Executing == \E e \in Execs : exec[e].pc # "off"
Unsettled(t) == {i \in Steps : t[i] \in {"pending", "executing"}}
Recorded     == {i \in Steps : saved.st[i] = "completed"}

IsFirst(i, S) == i \in S /\ \A j \in S : i <= j
IsLast(i, S)  == i \in S /\ \A j \in S : j <= i

\* run.result = {"steps": t} and a commit, where the session has loaded or
\* assigned a result of the given shape.
Assign(shape, t) ==
  saved' = IF shape = "steps" THEN saved ELSE [shape |-> "steps", st |-> t]

Run(e, r) == exec' = [exec EXCEPT ![e] = r]
-----------------------------------------------------------------------------
(* execute_steps.                                                          *)

\* Mutant: the steps start afresh.
LoadedStepsFresh == Fresh

\* current_result.get("steps") or the steps of the desired outcome
LoadedSteps == IF saved.shape \in {"steps", "paused"} THEN saved.st ELSE Fresh

Load(e) ==
  /\ exec[e].pc = "load"
  /\ Run(e, [exec[e] EXCEPT !.pc = "next", !.mem = LoadedSteps, !.shape = saved.shape])
  /\ UNCHANGED <<cr, run, saved, undo, live, effects, up, crashes, requests, half, overlap, relapsed>>

BeginStep(e) ==
  LET x == exec[e] IN
  /\ x.pc = "next"
  /\ \E i \in Steps :
       /\ IsFirst(i, Unsettled(x.mem))
       /\ Assign(x.shape, [x.mem EXCEPT ![i] = "executing"])
       /\ Run(e, [x EXCEPT !.pc = "act", !.mem[i] = "executing", !.shape = "steps", !.cur = i])
  /\ UNCHANGED <<cr, run, undo, live, effects, up, crashes, requests, half, overlap, relapsed>>

TakesEffect(i) ==
  /\ live' = live \cup {i}
  /\ effects' = [effects EXCEPT ![i] = @ + 1]

StepOk(e) ==
  LET x == exec[e]
      i == x.cur IN
  /\ x.pc = "act"
  /\ TakesEffect(i)
  /\ Assign(x.shape, [x.mem EXCEPT ![i] = "completed"])
  /\ Run(e, [x EXCEPT !.pc = "next", !.mem[i] = "completed"])
  /\ UNCHANGED <<cr, run, undo, up, crashes, requests, half, overlap, relapsed>>

\* The step is failed, whether or not its call took effect, and the CR paused;
\* the workflow still has to store the result, a resumed execution is over.
StepFail(e) ==
  LET x == exec[e]
      i == x.cur IN
  /\ x.pc = "act"
  /\ Assign(x.shape, [x.mem EXCEPT ![i] = "failed"])
  /\ cr' = "paused"
  /\ Run(e, IF x.flow THEN [x EXCEPT !.pc = "store", !.mem[i] = "failed"] ELSE NoExec)
  /\ relapsed' = (relapsed \/ ~x.flow)
  /\ \/ TakesEffect(i) /\ half' = half \cup {i}
     \/ UNCHANGED <<live, effects, half>>
  /\ UNCHANGED <<run, undo, up, crashes, requests, overlap>>

\* Mutant: the result keeps the shape it has.
FinishResultForgotten(t) == UNCHANGED saved

\* run_completed.result = {"execution": ...}
FinishResult(t) == saved' = [shape |-> "execution", st |-> t]

\* All steps are done: the CR, and the run if it is still open, are completed.
Finish(e) ==
  LET x == exec[e] IN
  /\ x.pc = "next" /\ Unsettled(x.mem) = {}
  /\ cr' = "completed"
  /\ IF run \in {"running", "pending"}
     THEN run' = "completed" /\ FinishResult(x.mem)
     ELSE UNCHANGED <<run, saved>>
  /\ Run(e, IF x.flow THEN [x EXCEPT !.pc = "complete"] ELSE NoExec)
  /\ UNCHANGED <<undo, live, effects, up, crashes, requests, half, overlap, relapsed>>

\* _resume_execution: what execute_steps raises outside a step fails the CR.
ResumeFail(e) ==
  /\ exec[e].pc \in {"load", "next"} /\ ~exec[e].flow
  /\ cr' = "failed"
  /\ Run(e, NoExec)
  /\ relapsed' = TRUE
  /\ UNCHANGED <<run, saved, undo, live, effects, up, crashes, requests, half, overlap>>
-----------------------------------------------------------------------------
(* What ExecuteChangeWorkflow does with the result.                        *)

\* Mutant: the result is not stored with the run.
StorePausedEmpty(e) ==
  /\ exec[e].pc = "store"
  /\ run' = "running"
  /\ Run(e, NoExec)
  /\ UNCHANGED <<cr, saved, undo, live, effects, up, crashes, requests, half, overlap, relapsed>>

StorePaused(e) ==
  /\ exec[e].pc = "store"
  /\ run' = "running"
  /\ saved' = [shape |-> "paused", st |-> exec[e].mem]
  /\ Run(e, NoExec)
  /\ UNCHANGED <<cr, undo, live, effects, up, crashes, requests, half, overlap, relapsed>>

\* update_change_request_status, once more
StoreCompleted(e) ==
  /\ exec[e].pc = "complete"
  /\ cr' = "completed"
  /\ Run(e, [exec[e] EXCEPT !.pc = "completerun"])
  /\ UNCHANGED <<run, saved, undo, live, effects, up, crashes, requests, half, overlap, relapsed>>

StoreCompletedRun(e) ==
  /\ exec[e].pc = "completerun"
  /\ run' = "completed"
  /\ saved' = [shape |-> "execution", st |-> exec[e].mem]
  /\ Run(e, NoExec)
  /\ UNCHANGED <<cr, undo, live, effects, up, crashes, requests, half, overlap, relapsed>>
-----------------------------------------------------------------------------
(* Requests.  retry-step and skip-step hold the CR's row FOR UPDATE.       *)

Serve == up /\ requests < MaxRequests /\ requests' = requests + 1

MayResume == cr = "paused"

FailedSteps == IF saved.shape \in {"steps", "paused"}
               THEN {i \in Steps : saved.st[i] = "failed"} ELSE {}

Resumed(e) == exec[e].pc = "off" /\ Run(e, [NoExec EXCEPT !.pc = "load"])

RetryStep(e) ==
  /\ Serve /\ MayResume
  /\ \E i \in Steps : /\ IsFirst(i, FailedSteps)
                      /\ Assign(saved.shape, [saved.st EXCEPT ![i] = "pending"])
  /\ cr' = "executing"
  /\ Resumed(e)
  /\ UNCHANGED <<run, undo, live, effects, up, crashes, half, overlap, relapsed>>

SkipStep(e) ==
  /\ Serve /\ MayResume
  /\ \E i \in Steps :
       LET t == [saved.st EXCEPT ![i] = "skipped"] IN
       /\ IsFirst(i, FailedSteps)
       /\ Assign(saved.shape, t)
       /\ \/ Unsettled(t) = {} /\ cr' = "completed" /\ run' = "completed" /\ UNCHANGED exec
          \/ Unsettled(t) # {} /\ cr' = "executing" /\ Resumed(e) /\ UNCHANGED run
  /\ UNCHANGED <<undo, live, effects, up, crashes, half, overlap, relapsed>>

\* POST /rollback reads the status without a lock ...
RollbackRequest ==
  /\ Serve /\ undo.pc = "off"
  /\ cr \in {"completed", "failed", "paused"}
  /\ undo' = [NoUndo EXCEPT !.pc = "start"]
  /\ UNCHANGED <<cr, run, saved, exec, live, effects, up, crashes, half, overlap, relapsed>>

RollbackStart ==
  /\ undo.pc = "start"
  /\ cr' = "executing"
  /\ undo' = [NoUndo EXCEPT !.pc = "load"]
  /\ overlap' = (overlap \/ Executing)
  /\ UNCHANGED <<run, saved, exec, live, effects, up, crashes, requests, half, relapsed>>

\* ... and execute_filo_rollback takes the steps that the run records.
RollbackLoad ==
  /\ undo.pc = "load"
  /\ undo' = [undo EXCEPT !.pc = "undo", !.todo = Recorded]
  /\ UNCHANGED <<cr, run, saved, exec, live, effects, up, crashes, requests, half, overlap, relapsed>>

RollbackStep ==
  /\ undo.pc = "undo"
  /\ \E i \in Steps :
       /\ IsLast(i, undo.todo)
       /\ \/ /\ live' = live \ {i}
             /\ effects' = [effects EXCEPT ![i] = 0]
             /\ undo' = [undo EXCEPT !.todo = @ \ {i}]
          \/ /\ undo' = [undo EXCEPT !.todo = @ \ {i}, !.warned = TRUE]
             /\ UNCHANGED <<live, effects>>
  /\ UNCHANGED <<cr, run, saved, exec, up, crashes, requests, half, overlap, relapsed>>

\* Mutant: warnings do not show.
RollbackStatusClean == "rolled_back"

RollbackStatus == IF undo.warned THEN "rolled_back_with_warnings" ELSE "rolled_back"

RollbackEnd ==
  /\ undo.pc = "undo" /\ undo.todo = {}
  /\ cr' = RollbackStatus
  /\ undo' = NoUndo
  /\ UNCHANGED <<run, saved, exec, live, effects, up, crashes, requests, half, overlap, relapsed>>

\* What execute_cr_rollback raises (a connector it cannot resolve) fails the CR.
RollbackFail ==
  /\ undo.pc \in {"load", "undo"}
  /\ cr' = "failed"
  /\ undo' = NoUndo
  /\ UNCHANGED <<run, saved, exec, live, effects, up, crashes, requests, half, overlap, relapsed>>
-----------------------------------------------------------------------------
Crash ==
  /\ up /\ crashes < MaxCrashes
  /\ up' = FALSE
  /\ crashes' = crashes + 1
  /\ exec' = [e \in Execs |-> NoExec]
  /\ undo' = NoUndo
  /\ UNCHANGED <<cr, run, saved, live, effects, requests, half, overlap, relapsed>>

\* Mutant: startup does not scrub.
ScrubNothing == UNCHANGED cr

Scrub == cr' = IF cr = "executing" THEN "failed" ELSE cr

Restart ==
  /\ ~up
  /\ up' = TRUE
  /\ Scrub
  /\ UNCHANGED <<run, saved, exec, undo, live, effects, crashes, requests, half, overlap, relapsed>>
-----------------------------------------------------------------------------
Init ==
  /\ cr = "executing"
  /\ run = "pending"
  /\ saved = [shape |-> "null", st |-> Fresh]
  /\ exec = [[e \in Execs |-> NoExec] EXCEPT ![FirstExec] = [NoExec EXCEPT !.pc = "load", !.flow = TRUE]]
  /\ undo = NoUndo
  /\ live = {}
  /\ effects = [i \in Steps |-> 0]
  /\ up = TRUE /\ crashes = 0 /\ requests = 0
  /\ half = {} /\ overlap = FALSE /\ relapsed = FALSE

ExecStep(e) ==
  \/ Load(e) \/ BeginStep(e) \/ StepOk(e) \/ StepFail(e) \/ Finish(e) \/ ResumeFail(e)
  \/ StorePaused(e) \/ StoreCompleted(e) \/ StoreCompletedRun(e)

UndoStep == RollbackStart \/ RollbackLoad \/ RollbackStep \/ RollbackEnd \/ RollbackFail

Next ==
  \/ \E e \in Execs : ExecStep(e) \/ RetryStep(e) \/ SkipStep(e)
  \/ RollbackRequest \/ UndoStep
  \/ Crash \/ Restart

Spec == Init /\ [][Next]_vars

(***************************************************************************)
(* The event loop keeps running its ready coroutines and the supervisor    *)
(* restarts the process.  Requests have no fairness.                       *)
(***************************************************************************)
Fairness ==
  /\ \A e \in Execs : WF_vars(ExecStep(e))
  /\ WF_vars(UndoStep)
  /\ WF_vars(Restart)

FairSpec == Spec /\ Fairness
-----------------------------------------------------------------------------
(* Properties.                                                             *)

ExecType == [pc : {"off", "load", "next", "act", "store", "complete", "completerun"},
             flow : BOOLEAN, mem : Table, shape : Shape, cur : 0..NSteps]

\* The rows hold values of their columns' types.
TypeOK ==
  /\ cr \in CRStatus
  /\ run \in {"pending", "running", "completed"}
  /\ saved \in [shape : Shape, st : Table]
  /\ exec \in [Execs -> ExecType]
  /\ undo \in [pc : {"off", "start", "load", "undo"}, todo : SUBSET Steps, warned : BOOLEAN]
  /\ live \subseteq Steps /\ half \subseteq Steps
  /\ effects \in [Steps -> Nat]
  /\ up \in BOOLEAN /\ overlap \in BOOLEAN /\ relapsed \in BOOLEAN
  /\ crashes \in 0..MaxCrashes /\ requests \in 0..MaxRequests

\* No credential is rotated twice: whatever retries and skips two operators
\* send, at most one execution goes on, and a step takes effect a second time
\* only when its first call took effect and then failed, which retry-step
\* cannot know.
AppliedOnce ==
  /\ \A i \in Steps : effects[i] <= IF i \in half THEN 2 ELSE 1
  /\ Cardinality({e \in Execs : exec[e].pc # "off"}) <= 1

\* The run records every step in place but those a failed call left behind, and
\* none that is not in place.
RecordsWhatIsLive ==
  /\ Recorded \subseteq live
  /\ live \subseteq Recorded \cup half

\* A completed CR can be undone: the run records the steps that are in place,
\* and none that is still to do.  (Not if a rollback began while an execution was
\* under way.)
CompletedIsRecorded ==
  (cr = "completed" /\ ~overlap) =>
     /\ RecordsWhatIsLive
     /\ Unsettled(saved.st) = {} /\ \A i \in Steps : saved.st[i] # "failed"

\* A paused CR can be resumed: the run records the steps in place and one failed
\* step for retry-step and skip-step to find.  Four cases are left out: the
\* workflow has yet to store the result; a crash before it could; a rollback
\* that began while an execution was under way; a second failure, which is
\* never stored.
PausedIsResumable ==
  (cr = "paused" /\ up /\ ~Executing /\ crashes = 0 /\ ~overlap /\ ~relapsed) =>
     /\ RecordsWhatIsLive
     /\ \E i \in Steps : IsFirst(i, FailedSteps) /\ IsLast(i, FailedSteps)

\* rolled_back without warnings means that all that is left in place is what a
\* failed call left behind and no run records as completed, also when an
\* earlier rollback of the CR raised half-way.  (After a crash, an overlap or a
\* second failure the run records fewer steps than were completed, and more is
\* left.)
RolledBackIsUndone ==
  (cr = "rolled_back" /\ crashes = 0 /\ ~overlap /\ ~relapsed) => live \subseteq half \ Recorded

\* An execution or a rollback under way ends: completed, paused, failed or
\* rolled back.
ExecutingEnds == cr = "executing" ~> cr # "executing"
=============================================================================
