----------------------- MODULE CredentialRotationProofs -----------------------
(***************************************************************************)
(* Theorems about CredentialRotation, for any number of steps, requests,   *)
(* crashes and coroutines.                                                 *)
(***************************************************************************)
EXTENDS CredentialRotation, TLAPS, FiniteSetTheorems

(***************************************************************************)
(* The inductive invariant.  A table of steps, in memory or in the row, is *)
(* judged by three questions: does it own up to every step that took       *)
(* effect, but for the one time a failed call may have, is it in step with *)
(* the infrastructure, which steps does it call failed.                    *)
(***************************************************************************)
OwnsUp(t)    == \A i \in Steps : t[i] # "completed" =>
                  effects[i] <= 1 /\ (i \notin half => effects[i] = 0)
InStep(t)    == \A i \in Steps : /\ t[i] = "completed" => i \in live
                                 /\ i \in live => t[i] = "completed" \/ i \in half
NoFailed(t)  == \A i \in Steps : t[i] # "failed"
OneFailed(t) == \E i \in Steps : \A j \in Steps : t[j] = "failed" <=> j = i
Settled(t)   == \A i \in Steps : t[i] \notin {"pending", "executing"}

\* One execution at a time, and none in a process that is down.
OneExecution ==
  /\ \A e, f \in Execs : exec[e].pc # "off" /\ exec[f].pc # "off" => e = f
  /\ ~up => crashes > 0 /\ undo.pc = "off" /\ \A e \in Execs : exec[e].pc = "off"

\* Only the workflow's own pause leaves a failed step in the row, and the first
\* resumption takes it out again: so there is never a second resumption.
SavedOK ==
  /\ saved.shape = "steps" => NoFailed(saved.st)
  /\ saved.shape = "paused" =>
       /\ \A e \in Execs : exec[e].pc = "off"
       /\ run = "running"
       /\ OwnsUp(saved.st) /\ OneFailed(saved.st)
       /\ ~overlap /\ cr = "paused" => InStep(saved.st)

LoadOK(x) ==
  x.pc = "load" =>
    /\ saved.shape \in {"null", "steps"} /\ run \in {"pending", "running"}
    /\ OwnsUp(LoadedSteps) /\ NoFailed(LoadedSteps)
    /\ x.flow => half = {}
    /\ ~overlap => InStep(LoadedSteps) /\ cr = "executing"

WorkOK(x) ==
  x.pc \in {"next", "act"} =>
    /\ x.shape \in {"null", "steps"} /\ run \in {"pending", "running"}
    /\ OwnsUp(x.mem) /\ NoFailed(x.mem)
    /\ x.flow => half = {}
    /\ ~overlap => InStep(x.mem) /\ cr = "executing"
    /\ x.pc = "act" => x.shape = "steps" /\ x.cur \in Steps /\ x.mem[x.cur] = "executing"

StoreOK(x) ==
  /\ x.pc = "store" =>
       /\ OwnsUp(x.mem) /\ OneFailed(x.mem)
       /\ ~overlap => InStep(x.mem) /\ cr = "paused"
  /\ x.pc \in {"complete", "completerun"} =>
       /\ NoFailed(x.mem) /\ Settled(x.mem)
       /\ ~overlap => InStep(x.mem) /\ cr = "completed" /\ saved.st = x.mem

ExecOK == \A e \in Execs : LoadOK(exec[e]) /\ WorkOK(exec[e]) /\ StoreOK(exec[e])

\* The row, or a failed call, accounts for all that is in place.
Covered == \A i \in live : saved.st[i] = "completed" \/ i \in half

\* What the CR's status says, as long as no rollback ran into an execution.
StatusOK ==
  /\ ~overlap =>
       /\ cr = "completed" => InStep(saved.st) /\ Settled(saved.st) /\ NoFailed(saved.st)
       /\ crashes = 0 /\ cr = "executing" =>
            undo.pc \in {"load", "undo"} \/ \E e \in Execs : exec[e].pc # "off"
       /\ crashes = 0 /\ cr = "paused" /\ ~relapsed =>
            saved.shape = "paused" \/ \E e \in Execs : exec[e].pc # "off"
       /\ crashes = 0 /\ cr = "failed" /\ ~relapsed => Covered
       /\ crashes = 0 /\ cr = "rolled_back" /\ ~relapsed => live \subseteq half \ Recorded

\* A rollback that has started has the CR to itself, and has in its hands all that
\* is in place.
UndoOK ==
  /\ undo.pc = "start" => cr \notin {"rolled_back", "rolled_back_with_warnings"}
  /\ undo.pc \in {"load", "undo"} /\ ~overlap =>
       cr = "executing" /\ \A e \in Execs : exec[e].pc = "off"
  /\ ~overlap /\ crashes = 0 /\ ~relapsed =>
       /\ undo.pc \in {"load", "undo"} => Covered
       /\ undo.pc = "undo" /\ ~undo.warned =>
            \A i \in live : i \in undo.todo \/ (i \in half /\ saved.st[i] # "completed")

IInv == TypeOK /\ OneExecution /\ SavedOK /\ ExecOK /\ StatusOK /\ UndoOK
-----------------------------------------------------------------------------
(* Types.                                                                  *)

LEMMA NoExecType == NoExec \in ExecType /\ Fresh \in Table
  BY RotationAssumption DEF NoExec, ExecType, Fresh, Table, StepStatus, Shape

\* The changes execute_steps makes to its table.
LEMMA TableType ==
  ASSUME NEW t \in Table, NEW i \in Steps, NEW s \in StepStatus
  PROVE  [t EXCEPT ![i] = s] \in Table
  BY DEF Table

LEMMA AssignType ==
  ASSUME TypeOK, NEW shape, NEW t \in Table, Assign(shape, t)
  PROVE  saved' \in [shape : Shape, st : Table]
  BY DEF TypeOK, Assign, Shape

LEMMA RunType ==
  ASSUME TypeOK, NEW e \in Execs, NEW r \in ExecType, Run(e, r)
  PROVE  exec' \in [Execs -> ExecType]
  BY DEF TypeOK, Run

LEMMA LoadType ==
  ASSUME TypeOK, NEW e \in Execs, Load(e) PROVE TypeOK'
<1>1. [exec[e] EXCEPT !.pc = "next", !.mem = LoadedSteps, !.shape = saved.shape] \in ExecType
  BY NoExecType DEF TypeOK, ExecType, LoadedSteps
<1>2. exec' \in [Execs -> ExecType]
  BY <1>1, RunType DEF Load
<1> QED
  BY <1>2 DEF Load, TypeOK

LEMMA BeginStepType ==
  ASSUME TypeOK, NEW e \in Execs, BeginStep(e) PROVE TypeOK'
<1>1. PICK i \in Steps :
        /\ Assign(exec[e].shape, [exec[e].mem EXCEPT ![i] = "executing"])
        /\ Run(e, [exec[e] EXCEPT !.pc = "act", !.mem[i] = "executing", !.shape = "steps", !.cur = i])
  BY DEF BeginStep
<1>2. [exec[e].mem EXCEPT ![i] = "executing"] \in Table
  BY TableType DEF TypeOK, ExecType, StepStatus
<1>3. [exec[e] EXCEPT !.pc = "act", !.mem[i] = "executing", !.shape = "steps", !.cur = i] \in ExecType
  <2>1. i \in 0..NSteps
    BY RotationAssumption DEF Steps
  <2> QED
    BY <1>2, <2>1, ZenonT(30) DEF TypeOK, ExecType, Shape
<1>4. exec' \in [Execs -> ExecType]
  BY <1>1, <1>3, RunType
<1>5. saved' \in [shape : Shape, st : Table]
  BY <1>1, <1>2, AssignType
<1> QED
  BY <1>4, <1>5 DEF BeginStep, TypeOK

LEMMA StepOkType ==
  ASSUME TypeOK, NEW e \in Execs, exec[e].cur \in Steps, StepOk(e) PROVE TypeOK'
<1> DEFINE i == exec[e].cur
<1>1. /\ Assign(exec[e].shape, [exec[e].mem EXCEPT ![i] = "completed"])
      /\ Run(e, [exec[e] EXCEPT !.pc = "next", !.mem[i] = "completed"])
  BY DEF StepOk
<1>2. [exec[e].mem EXCEPT ![i] = "completed"] \in Table
  BY TableType DEF TypeOK, ExecType, StepStatus
<1>3. [exec[e] EXCEPT !.pc = "next", !.mem[i] = "completed"] \in ExecType
  BY <1>2, ZenonT(30) DEF TypeOK, ExecType
<1>4. exec' \in [Execs -> ExecType]
  BY <1>1, <1>3, RunType
<1>5. saved' \in [shape : Shape, st : Table]
  BY <1>1, <1>2, AssignType
<1>6. live' \subseteq Steps /\ effects' \in [Steps -> Nat]
  BY DEF StepOk, TakesEffect, TypeOK
<1> QED
  BY <1>4, <1>5, <1>6 DEF StepOk, TypeOK

LEMMA StepFailType ==
  ASSUME TypeOK, NEW e \in Execs, exec[e].cur \in Steps, StepFail(e) PROVE TypeOK'
<1> DEFINE i == exec[e].cur
<1>1. /\ Assign(exec[e].shape, [exec[e].mem EXCEPT ![i] = "failed"])
      /\ Run(e, IF exec[e].flow THEN [exec[e] EXCEPT !.pc = "store", !.mem[i] = "failed"] ELSE NoExec)
  BY DEF StepFail
<1>2. [exec[e].mem EXCEPT ![i] = "failed"] \in Table
  BY TableType DEF TypeOK, ExecType, StepStatus
<1>3. [exec[e] EXCEPT !.pc = "store", !.mem[i] = "failed"] \in ExecType
  BY <1>2, ZenonT(30) DEF TypeOK, ExecType
<1>4. exec' \in [Execs -> ExecType]
  BY <1>1, <1>3, NoExecType, RunType
<1>5. saved' \in [shape : Shape, st : Table]
  BY <1>1, <1>2, AssignType
<1>6. relapsed' \in BOOLEAN
  BY DEF StepFail, TypeOK
<1>7. live' \subseteq Steps /\ half' \subseteq Steps /\ effects' \in [Steps -> Nat]
  BY DEF StepFail, TakesEffect, TypeOK
<1> QED
  BY <1>4, <1>5, <1>6, <1>7 DEF StepFail, TypeOK, CRStatus

LEMMA EndType ==
  ASSUME TypeOK, NEW e \in Execs,
         Finish(e) \/ StorePaused(e) \/ StoreCompleted(e) \/ StoreCompletedRun(e)
  PROVE  TypeOK'
<1>1. \A p \in {"complete", "completerun"} : [exec[e] EXCEPT !.pc = p] \in ExecType
  BY DEF TypeOK, ExecType
<1>2. exec' \in [Execs -> ExecType]
  BY <1>1, NoExecType, RunType DEF Finish, StorePaused, StoreCompleted, StoreCompletedRun
<1>3. \A s \in Shape : [shape |-> s, st |-> exec[e].mem] \in [shape : Shape, st : Table]
  BY DEF TypeOK, ExecType
<1>4. saved' \in [shape : Shape, st : Table]
  BY <1>3 DEF TypeOK, Shape, Finish, FinishResult, StorePaused, StoreCompleted, StoreCompletedRun
<1>5. cr' \in CRStatus /\ run' \in {"pending", "running", "completed"}
  BY DEF TypeOK, CRStatus, Finish, StorePaused, StoreCompleted, StoreCompletedRun
<1>6. UNCHANGED <<undo, live, effects, up, crashes, requests, half, overlap, relapsed>>
  BY DEF Finish, StorePaused, StoreCompleted, StoreCompletedRun
<1> QED
  BY <1>2, <1>4, <1>5, <1>6 DEF TypeOK

LEMMA ResumeFailType == ASSUME TypeOK, NEW e \in Execs, ResumeFail(e) PROVE TypeOK'
<1>1. exec' \in [Execs -> ExecType]
  BY NoExecType, RunType DEF ResumeFail
<1> QED
  BY <1>1 DEF ResumeFail, TypeOK, CRStatus

LEMMA ServeType == TypeOK /\ Serve => requests' \in 0..MaxRequests
  BY RotationAssumption DEF TypeOK, Serve

LEMMA ResumeType ==
  ASSUME TypeOK, NEW e \in Execs, RetryStep(e) \/ SkipStep(e) PROVE TypeOK'
<1>1. [NoExec EXCEPT !.pc = "load"] \in ExecType
  BY NoExecType DEF ExecType
<1>2. exec' \in [Execs -> ExecType]
  BY <1>1, RunType DEF RetryStep, SkipStep, Resumed, TypeOK
<1>3. \A i \in Steps : \A s \in {"pending", "skipped"} : [saved.st EXCEPT ![i] = s] \in Table
  BY TableType DEF TypeOK, StepStatus
<1>4. saved' \in [shape : Shape, st : Table]
  BY <1>3, AssignType DEF RetryStep, SkipStep
<1>5. cr' \in CRStatus /\ run' \in {"pending", "running", "completed"}
  BY DEF TypeOK, CRStatus, RetryStep, SkipStep
<1>6. requests' \in 0..MaxRequests
  BY ServeType DEF RetryStep, SkipStep
<1>7. UNCHANGED <<undo, live, effects, up, crashes, half, overlap, relapsed>>
  BY DEF RetryStep, SkipStep
<1> QED
  BY <1>2, <1>4, <1>5, <1>6, <1>7 DEF TypeOK

LEMMA UndoType == ASSUME TypeOK, RollbackRequest \/ UndoStep PROVE TypeOK'
<1> DEFINE U == [pc : {"off", "start", "load", "undo"}, todo : SUBSET Steps, warned : BOOLEAN]
<1>1. NoUndo \in U /\ [NoUndo EXCEPT !.pc = "start"] \in U /\ [NoUndo EXCEPT !.pc = "load"] \in U
  BY DEF NoUndo
<1>2. CASE RollbackRequest
  BY <1>1, <1>2, ServeType DEF RollbackRequest, TypeOK
<1>3. CASE RollbackStart
  <2>1. overlap' \in BOOLEAN
    BY <1>3 DEF RollbackStart, TypeOK
  <2> QED
    BY <1>1, <1>3, <2>1 DEF RollbackStart, TypeOK, CRStatus
<1>4. CASE RollbackLoad
  <2>1. [undo EXCEPT !.pc = "undo", !.todo = Recorded] \in U
    BY DEF TypeOK, Recorded
  <2> QED
    BY <1>4, <2>1 DEF RollbackLoad, TypeOK
<1>5. CASE RollbackStep
  <2>1. PICK i \in Steps :
          \/ /\ live' = live \ {i} /\ effects' = [effects EXCEPT ![i] = 0]
             /\ undo' = [undo EXCEPT !.todo = @ \ {i}]
          \/ /\ undo' = [undo EXCEPT !.todo = @ \ {i}, !.warned = TRUE]
             /\ UNCHANGED <<live, effects>>
    BY <1>5 DEF RollbackStep
  <2>2. undo' \in U
    BY <2>1 DEF TypeOK
  <2>3. live' \subseteq Steps /\ effects' \in [Steps -> Nat]
    BY <2>1 DEF TypeOK
  <2> QED
    BY <1>5, <2>2, <2>3 DEF RollbackStep, TypeOK
<1>6. CASE RollbackEnd
  BY <1>1, <1>6 DEF RollbackEnd, RollbackStatus, TypeOK, CRStatus
<1>7. CASE RollbackFail
  BY <1>1, <1>7 DEF RollbackFail, TypeOK, CRStatus
<1> QED
  BY <1>2, <1>3, <1>4, <1>5, <1>6, <1>7 DEF UndoStep

LEMMA ProcessType == ASSUME TypeOK, Crash \/ Restart PROVE TypeOK'
<1>1. CASE Crash
  <2>1. crashes' \in 0..MaxCrashes
    BY <1>1, RotationAssumption DEF Crash, TypeOK
  <2>2. undo' \in [pc : {"off", "start", "load", "undo"}, todo : SUBSET Steps, warned : BOOLEAN]
    BY <1>1 DEF Crash, NoUndo
  <2>3. up' \in BOOLEAN
    BY <1>1 DEF Crash
  <2> QED
    BY <1>1, <2>1, <2>2, <2>3, NoExecType DEF Crash, TypeOK
<1>2. CASE Restart
  BY <1>2 DEF Restart, Scrub, TypeOK, CRStatus
<1> QED
  BY <1>1, <1>2
-----------------------------------------------------------------------------
(* The steps of an execution.                                              *)

\* Who executes, executes alone; and the row is not that of a paused CR.
LEMMA Alone ==
  ASSUME IInv, NEW e \in Execs, exec[e].pc # "off"
  PROVE  /\ \A f \in Execs : f # e => exec[f].pc = "off"
         /\ saved.shape # "paused" /\ up
         /\ undo.pc \in {"load", "undo"} => overlap
         /\ LoadOK(exec[e]) /\ WorkOK(exec[e]) /\ StoreOK(exec[e])
  BY DEF IInv, TypeOK, OneExecution, SavedOK, UndoOK, Covered, Recorded, ExecOK

\* The other coroutines are off after its step too.
LEMMA AloneAfter ==
  ASSUME IInv, NEW e \in Execs, exec[e].pc # "off", NEW r, Run(e, r), UNCHANGED <<up, crashes, undo>>
  PROVE  /\ exec'[e] = r
         /\ \A f \in Execs : f # e => exec'[f].pc = "off"
         /\ OneExecution'
         /\ ExecOK' <=> LoadOK(exec[e])' /\ WorkOK(exec[e])' /\ StoreOK(exec[e])'
<1>1. \A f \in Execs : f # e => exec'[f].pc = "off"
  BY Alone DEF Run, IInv, TypeOK
<1>2. exec'[e] = r
  BY DEF Run, IInv, TypeOK
<1>3. OneExecution'
  BY <1>1, Alone DEF OneExecution
<1>4. \A f \in Execs : f # e => LoadOK(exec[f])' /\ WorkOK(exec[f])' /\ StoreOK(exec[f])'
  BY <1>1 DEF LoadOK, WorkOK, StoreOK
<1> QED
  BY <1>1, <1>2, <1>3, <1>4 DEF ExecOK

\* No rollback is under way on its own while an execution is.
LEMMA AloneUndo ==
  ASSUME IInv, NEW e \in Execs, exec[e].pc # "off", UNCHANGED <<undo, overlap>>,
         cr' \in {cr, "executing", "paused", "completed", "failed"}
  PROVE  UndoOK'
  BY Alone DEF IInv, UndoOK, Covered, Recorded

LEMMA LoadInv == ASSUME IInv, NEW e \in Execs, Load(e) PROVE IInv'
<1> DEFINE r == [exec[e] EXCEPT !.pc = "next", !.mem = LoadedSteps, !.shape = saved.shape]
<1>1. /\ exec[e].pc = "load" /\ Run(e, r)
      /\ UNCHANGED <<cr, run, saved, undo, live, effects, up, crashes, half, overlap, relapsed>>
  BY DEF Load
<1>2. /\ exec'[e] = r /\ OneExecution'
      /\ ExecOK' <=> LoadOK(exec[e])' /\ WorkOK(exec[e])' /\ StoreOK(exec[e])'
  BY <1>1, AloneAfter
<1>3. /\ exec'[e].pc = "next" /\ exec'[e].mem = LoadedSteps /\ exec'[e].shape = saved.shape
      /\ exec'[e].flow = exec[e].flow
  BY <1>2 DEF IInv, TypeOK, ExecType
<1>4. TypeOK'
  BY LoadType DEF IInv
<1>5. SavedOK'
  BY <1>1, Alone DEF SavedOK, IInv, NoFailed
<1>6. ExecOK'
  <2>1. LoadOK(exec[e])
    BY <1>1, Alone
  <2>2. WorkOK(exec[e])'
    BY <1>1, <1>3, <2>1 DEF LoadOK, WorkOK, OwnsUp, NoFailed, InStep
  <2> QED
    BY <1>2, <1>3, <2>2 DEF LoadOK, StoreOK
<1>7. StatusOK'
  BY <1>1, <1>3 DEF IInv, StatusOK, Covered, Recorded, InStep, Settled, NoFailed
<1>8. UndoOK'
  BY <1>1, AloneUndo
<1> QED
  BY <1>2, <1>4, <1>5, <1>6, <1>7, <1>8 DEF IInv

LEMMA BeginStepInv == ASSUME IInv, NEW e \in Execs, BeginStep(e) PROVE IInv'
<1>1. PICK i \in Steps :
        /\ i \in Unsettled(exec[e].mem)
        /\ Assign(exec[e].shape, [exec[e].mem EXCEPT ![i] = "executing"])
        /\ Run(e, [exec[e] EXCEPT !.pc = "act", !.mem[i] = "executing", !.shape = "steps", !.cur = i])
  BY DEF BeginStep, IsFirst
<1>2. /\ exec[e].pc = "next"
      /\ UNCHANGED <<cr, run, undo, live, effects, up, crashes, half, overlap, relapsed>>
  BY DEF BeginStep
<1>3. /\ exec'[e] = [exec[e] EXCEPT !.pc = "act", !.mem[i] = "executing", !.shape = "steps", !.cur = i]
      /\ OneExecution'
      /\ ExecOK' <=> LoadOK(exec[e])' /\ WorkOK(exec[e])' /\ StoreOK(exec[e])'
  BY <1>1, <1>2, AloneAfter
<1>4. /\ exec'[e].pc = "act" /\ exec'[e].cur = i /\ exec'[e].shape = "steps"
      /\ exec'[e].flow = exec[e].flow
      /\ exec'[e].mem = [exec[e].mem EXCEPT ![i] = "executing"]
      /\ exec[e].mem[i] \in {"pending", "executing"} /\ exec[e].mem \in [Steps -> StepStatus]
  BY <1>1, <1>3 DEF IInv, TypeOK, ExecType, Table, Unsettled
<1>5. TypeOK'
  BY BeginStepType DEF IInv
<1>6. WorkOK(exec[e])
  BY <1>2, Alone
<1>7. /\ \A j \in Steps : exec'[e].mem[j] = "completed" <=> exec[e].mem[j] = "completed"
      /\ NoFailed(exec[e].mem)'
  BY <1>2, <1>4, <1>6 DEF WorkOK, NoFailed
<1>8. SavedOK'
  BY <1>1, <1>2, <1>4, <1>6, <1>7, Alone DEF SavedOK, IInv, Assign, NoFailed, WorkOK
<1>9. ExecOK'
  <2>1. WorkOK(exec[e])'
    BY <1>2, <1>4, <1>6, <1>7 DEF WorkOK, OwnsUp, InStep
  <2> QED
    BY <1>3, <1>4, <2>1 DEF LoadOK, StoreOK
<1>10. StatusOK'
  BY <1>2, <1>4, <1>6 DEF IInv, StatusOK, Covered, Recorded, WorkOK
<1>11. UndoOK'
  BY <1>2, AloneUndo
<1> QED
  BY <1>3, <1>5, <1>8, <1>9, <1>10, <1>11 DEF IInv

LEMMA StepOkInv == ASSUME IInv, NEW e \in Execs, StepOk(e) PROVE IInv'
<1> DEFINE i == exec[e].cur
<1>1. /\ exec[e].pc = "act" /\ live' = live \cup {i} /\ effects' = [effects EXCEPT ![i] = @ + 1]
      /\ Assign(exec[e].shape, [exec[e].mem EXCEPT ![i] = "completed"])
      /\ Run(e, [exec[e] EXCEPT !.pc = "next", !.mem[i] = "completed"])
      /\ UNCHANGED <<cr, run, undo, up, crashes, half, overlap, relapsed>>
  BY DEF StepOk, TakesEffect
<1>2. WorkOK(exec[e])
  BY <1>1, Alone
<1>3. i \in Steps /\ exec[e].mem[i] = "executing" /\ saved' = saved
  BY <1>1, <1>2 DEF WorkOK, Assign
<1>4. /\ exec'[e] = [exec[e] EXCEPT !.pc = "next", !.mem[i] = "completed"]
      /\ OneExecution'
      /\ ExecOK' <=> LoadOK(exec[e])' /\ WorkOK(exec[e])' /\ StoreOK(exec[e])'
  BY <1>1, AloneAfter
<1>5. /\ exec'[e].pc = "next" /\ exec'[e].shape = exec[e].shape /\ exec'[e].flow = exec[e].flow
      /\ exec'[e].mem = [exec[e].mem EXCEPT ![i] = "completed"]
      /\ exec[e].mem \in [Steps -> StepStatus]
  BY <1>4 DEF IInv, TypeOK, ExecType, Table
<1>6. TypeOK'
  BY <1>3, StepOkType DEF IInv
<1>7. SavedOK'
  BY <1>1, <1>3, Alone DEF SavedOK, IInv, NoFailed
<1>8. ExecOK'
  <2>1. /\ \A j \in Steps : j # i => exec'[e].mem[j] = exec[e].mem[j] /\ effects'[j] = effects[j]
        /\ exec'[e].mem[i] = "completed"
    BY <1>1, <1>3, <1>5 DEF IInv, TypeOK
  <2>2. WorkOK(exec[e])'
    BY <1>1, <1>2, <1>3, <1>5, <2>1 DEF WorkOK, OwnsUp, NoFailed, InStep
  <2> QED
    BY <1>4, <1>5, <2>2 DEF LoadOK, StoreOK
<1>9. StatusOK'
  BY <1>1, <1>2, <1>5 DEF IInv, StatusOK, Covered, Recorded, WorkOK
<1>10. UndoOK'
  BY <1>1, AloneUndo
<1> QED
  BY <1>4, <1>6, <1>7, <1>8, <1>9, <1>10 DEF IInv

LEMMA StepFailInv == ASSUME IInv, NEW e \in Execs, StepFail(e) PROVE IInv'
<1> DEFINE i == exec[e].cur
           r == IF exec[e].flow THEN [exec[e] EXCEPT !.pc = "store", !.mem[i] = "failed"] ELSE NoExec
<1>1. /\ exec[e].pc = "act" /\ cr' = "paused" /\ Run(e, r)
      /\ Assign(exec[e].shape, [exec[e].mem EXCEPT ![i] = "failed"])
      /\ UNCHANGED <<run, undo, up, crashes, overlap>>
  BY DEF StepFail
<1>2. WorkOK(exec[e])
  BY <1>1, Alone
<1>3. i \in Steps /\ exec[e].mem[i] = "executing" /\ saved' = saved
  BY <1>1, <1>2 DEF WorkOK, Assign
<1>4. /\ exec'[e] = r /\ OneExecution'
      /\ ExecOK' <=> LoadOK(exec[e])' /\ WorkOK(exec[e])' /\ StoreOK(exec[e])'
  BY <1>1, AloneAfter
<1>5. TypeOK'
  BY <1>3, StepFailType DEF IInv
<1>6. SavedOK'
  BY <1>1, <1>3, Alone DEF SavedOK, IInv, NoFailed
<1>7. UndoOK'
  BY <1>1, AloneUndo
<1>8. CASE exec[e].flow
  <2>1. /\ exec'[e].pc = "store" /\ exec'[e].mem = [exec[e].mem EXCEPT ![i] = "failed"]
        /\ exec[e].mem \in [Steps -> StepStatus]
    BY <1>4, <1>8 DEF IInv, TypeOK, ExecType, Table
  <2>2. OneFailed(exec[e].mem)'
    BY <1>1, <1>2, <1>3, <2>1 DEF OneFailed, WorkOK, NoFailed
  <2>3. /\ half = {}
        /\ \/ live' = live \cup {i} /\ effects' = [effects EXCEPT ![i] = @ + 1] /\ half' = {i}
           \/ UNCHANGED <<live, effects, half>>
    BY <1>1, <1>2, <1>8 DEF WorkOK, StepFail, TakesEffect
  <2>4. OwnsUp(exec[e].mem) /\ (~overlap => InStep(exec[e].mem))
    BY <1>1, <1>2 DEF WorkOK
  <2>5. OwnsUp(exec[e].mem)'
    BY <1>3, <2>1, <2>3, <2>4 DEF OwnsUp, IInv, TypeOK
  <2>6. ~overlap => InStep(exec[e].mem)'
    BY <1>3, <2>1, <2>3, <2>4 DEF InStep
  <2>7. StoreOK(exec[e])'
    BY <1>1, <2>1, <2>2, <2>5, <2>6 DEF StoreOK
  <2>8. ExecOK'
    BY <1>4, <2>1, <2>7 DEF LoadOK, WorkOK
  <2>9. StatusOK'
    BY <1>1, <2>1 DEF StatusOK
  <2> QED
    BY <1>4, <1>5, <1>6, <1>7, <2>8, <2>9 DEF IInv
<1>9. CASE ~exec[e].flow
  <2>1. exec'[e].pc = "off"
    BY <1>4, <1>9 DEF NoExec
  <2>2. relapsed' = (relapsed \/ ~exec[e].flow)
    BY DEF StepFail
  <2>3. ExecOK'
    BY <1>4, <2>1 DEF LoadOK, WorkOK, StoreOK
  <2>4. StatusOK'
    BY <1>1, <1>9, <2>2 DEF StatusOK, Covered, Recorded
  <2> QED
    BY <1>4, <1>5, <1>6, <1>7, <2>3, <2>4 DEF IInv
<1> QED
  BY <1>8, <1>9

LEMMA FinishInv == ASSUME IInv, NEW e \in Execs, Finish(e) PROVE IInv'
<1> DEFINE r == IF exec[e].flow THEN [exec[e] EXCEPT !.pc = "complete"] ELSE NoExec
<1>1. /\ exec[e].pc = "next" /\ cr' = "completed" /\ Run(e, r) /\ Unsettled(exec[e].mem) = {}
      /\ UNCHANGED <<undo, live, effects, up, crashes, half, overlap, relapsed>>
  BY DEF Finish
<1>2. WorkOK(exec[e])
  BY <1>1, Alone
<1>3. saved' = [shape |-> "execution", st |-> exec[e].mem]
  BY <1>1, <1>2 DEF Finish, WorkOK, FinishResult
<1>4. /\ exec'[e] = r /\ OneExecution'
      /\ ExecOK' <=> LoadOK(exec[e])' /\ WorkOK(exec[e])' /\ StoreOK(exec[e])'
  BY <1>1, AloneAfter
<1>5. TypeOK'
  BY EndType DEF IInv
<1>6. SavedOK'
  BY <1>3 DEF SavedOK
<1>7. /\ saved'.st = exec[e].mem
      /\ Settled(exec[e].mem) /\ NoFailed(exec[e].mem)
      /\ ~overlap => \A j \in Steps : /\ exec[e].mem[j] = "completed" => j \in live
                                      /\ j \in live => exec[e].mem[j] = "completed" \/ j \in half
  BY <1>1, <1>2, <1>3 DEF WorkOK, Unsettled, Settled, InStep
<1>8. ExecOK'
  <2>1. exec'[e].pc = "off" \/ (exec'[e].pc = "complete" /\ exec'[e].mem = exec[e].mem)
    BY <1>4 DEF NoExec, IInv, TypeOK, ExecType
  <2> QED
    BY <1>1, <1>4, <1>7, <2>1 DEF LoadOK, WorkOK, StoreOK, Settled, NoFailed, InStep
<1>9. StatusOK'
  BY <1>1, <1>7 DEF StatusOK, Covered, Recorded, InStep, Settled, NoFailed
<1>10. UndoOK'
  BY <1>1, AloneUndo
<1> QED
  BY <1>4, <1>5, <1>6, <1>8, <1>9, <1>10 DEF IInv

LEMMA ResumeFailInv == ASSUME IInv, NEW e \in Execs, ResumeFail(e) PROVE IInv'
<1>1. /\ exec[e].pc \in {"load", "next"} /\ cr' = "failed" /\ Run(e, NoExec) /\ relapsed'
      /\ UNCHANGED <<run, saved, undo, live, effects, up, crashes, half, overlap>>
  BY DEF ResumeFail
<1>2. /\ exec'[e] = NoExec /\ OneExecution'
      /\ ExecOK' <=> LoadOK(exec[e])' /\ WorkOK(exec[e])' /\ StoreOK(exec[e])'
  BY <1>1, AloneAfter
<1>3. TypeOK'
  BY ResumeFailType DEF IInv
<1>4. SavedOK'
  BY <1>1, Alone DEF SavedOK, IInv, NoFailed
<1>5. ExecOK'
  BY <1>2 DEF NoExec, LoadOK, WorkOK, StoreOK
<1>6. StatusOK'
  BY <1>1 DEF StatusOK
<1>7. UndoOK'
  BY <1>1, AloneUndo
<1> QED
  BY <1>2, <1>3, <1>4, <1>5, <1>6, <1>7 DEF IInv

LEMMA StorePausedInv == ASSUME IInv, NEW e \in Execs, StorePaused(e) PROVE IInv'
<1>1. /\ exec[e].pc = "store" /\ run' = "running" /\ Run(e, NoExec)
      /\ saved' = [shape |-> "paused", st |-> exec[e].mem]
      /\ UNCHANGED <<cr, undo, live, effects, up, crashes, half, overlap, relapsed>>
  BY DEF StorePaused
<1>2. StoreOK(exec[e])
  BY <1>1, Alone
<1>3. /\ exec'[e] = NoExec /\ OneExecution'
      /\ \A f \in Execs : f # e => exec'[f].pc = "off"
      /\ ExecOK' <=> LoadOK(exec[e])' /\ WorkOK(exec[e])' /\ StoreOK(exec[e])'
  BY <1>1, AloneAfter
<1>4. TypeOK'
  BY EndType DEF IInv
<1>5. \A f \in Execs : exec'[f].pc = "off"
  BY <1>3 DEF NoExec
<1>6. saved'.shape = "paused" /\ saved'.st = exec[e].mem
  BY <1>1
<1>7. SavedOK'
  BY <1>1, <1>2, <1>5, <1>6 DEF SavedOK, StoreOK, OwnsUp, OneFailed, InStep
<1>8. ExecOK'
  BY <1>5 DEF ExecOK, LoadOK, WorkOK, StoreOK
<1>9. StatusOK'
  BY <1>1, <1>2, <1>6 DEF IInv, StatusOK, Covered, Recorded, StoreOK
<1>10. UndoOK'
  BY <1>1, AloneUndo
<1> QED
  BY <1>3, <1>4, <1>7, <1>8, <1>9, <1>10 DEF IInv

LEMMA StoreCompletedInv ==
  ASSUME IInv, NEW e \in Execs, StoreCompleted(e) \/ StoreCompletedRun(e) PROVE IInv'
<1>1. /\ exec[e].pc \in {"complete", "completerun"}
      /\ UNCHANGED <<undo, live, effects, up, crashes, half, overlap, relapsed>>
      /\ cr' \in {cr, "completed"}
  BY DEF StoreCompleted, StoreCompletedRun
<1>2. StoreOK(exec[e])
  BY <1>1, Alone
<1>3. PICK r \in {NoExec, [exec[e] EXCEPT !.pc = "completerun"]} : Run(e, r)
  BY DEF StoreCompleted, StoreCompletedRun
<1>4. /\ exec'[e] = r /\ OneExecution'
      /\ ExecOK' <=> LoadOK(exec[e])' /\ WorkOK(exec[e])' /\ StoreOK(exec[e])'
  BY <1>1, <1>3, AloneAfter
<1>5. TypeOK'
  BY EndType DEF IInv
<1>6. saved' = saved \/ saved' = [shape |-> "execution", st |-> exec[e].mem]
  BY DEF StoreCompleted, StoreCompletedRun
<1>7. /\ exec'[e].pc \in {"off", "completerun"}
      /\ exec'[e].pc = "completerun" => exec'[e].mem = exec[e].mem
  BY <1>3, <1>4 DEF NoExec, IInv, TypeOK, ExecType
<1>8. ~overlap => /\ InStep(exec[e].mem) /\ cr' = "completed" /\ saved'.st = exec[e].mem
                  /\ Settled(exec[e].mem) /\ NoFailed(exec[e].mem)
  BY <1>1, <1>2, <1>6 DEF StoreOK
<1>9. SavedOK'
  <2>1. saved' = saved \/ saved'.shape = "execution"
    BY <1>6
  <2> QED
    BY <1>1, <2>1, Alone DEF SavedOK, IInv, NoFailed
<1>10. ExecOK'
  BY <1>1, <1>2, <1>4, <1>7, <1>8 DEF LoadOK, WorkOK, StoreOK, Settled, NoFailed, InStep
<1>11. StatusOK'
  BY <1>1, <1>8 DEF StatusOK, Settled, NoFailed, InStep
<1>12. UndoOK'
  BY <1>1, AloneUndo
<1> QED
  BY <1>4, <1>5, <1>9, <1>10, <1>11, <1>12 DEF IInv
-----------------------------------------------------------------------------
(* Requests.                                                               *)

\* retry-step and skip-step find a failed step only in the row of a paused CR,
\* and then nothing is under way.
LEMMA ResumeFinds ==
  ASSUME IInv, NEW i \in Steps, IsFirst(i, FailedSteps)
  PROVE  /\ saved.shape = "paused" /\ saved.st[i] = "failed"
         /\ \A f \in Execs : exec[f].pc = "off"
         /\ \A j \in Steps : j # i => saved.st[j] # "failed"
<1>1. i \in FailedSteps
  BY DEF IsFirst
<1>2. saved.shape \in {"steps", "paused"} /\ saved.st[i] = "failed"
  BY <1>1 DEF FailedSteps
<1> QED
  BY <1>2 DEF IInv, SavedOK, NoFailed, OneFailed

\* The table the resumed execution will load.
LEMMA ResumedTable ==
  ASSUME IInv, NEW i \in Steps, IsFirst(i, FailedSteps), NEW s \in {"pending", "skipped"},
         cr = "paused", Assign(saved.shape, [saved.st EXCEPT ![i] = s]),
         UNCHANGED <<live, effects, half, overlap>>
  PROVE  /\ saved'.shape = "steps" /\ saved'.st = [saved.st EXCEPT ![i] = s]
         /\ OwnsUp(saved.st)' /\ NoFailed(saved.st)'
         /\ ~overlap => InStep(saved.st)'
<1>1. /\ saved.shape = "paused" /\ saved.st[i] = "failed"
      /\ \A j \in Steps : j # i => saved.st[j] # "failed"
  BY ResumeFinds
<1>2. saved' = [shape |-> "steps", st |-> [saved.st EXCEPT ![i] = s]]
  BY <1>1 DEF Assign
<1>3. saved.st \in [Steps -> StepStatus]
  BY DEF IInv, TypeOK, Table
<1>4. saved'.shape = "steps" /\ saved'.st = [saved.st EXCEPT ![i] = s]
  BY <1>2
<1>5. /\ OwnsUp(saved.st)
      /\ ~overlap => InStep(saved.st)
  BY <1>1 DEF IInv, SavedOK
<1> QED
  BY <1>1, <1>3, <1>4, <1>5 DEF OwnsUp, NoFailed, InStep

LEMMA ResumedInv ==
  ASSUME IInv, TypeOK', NEW e \in Execs, NEW i \in Steps, NEW s \in {"pending", "skipped"},
         IsFirst(i, FailedSteps), up, cr = "paused", Resumed(e), cr' = "executing",
         Assign(saved.shape, [saved.st EXCEPT ![i] = s]),
         UNCHANGED <<run, undo, live, effects, up, crashes, half, overlap, relapsed>>
  PROVE  IInv'
<1>1. /\ saved.shape = "paused" /\ \A f \in Execs : exec[f].pc = "off"
  BY ResumeFinds
<1>2. /\ exec'[e].pc = "load" /\ ~exec'[e].flow
      /\ \A f \in Execs : f # e => exec'[f].pc = "off"
  BY <1>1 DEF Resumed, Run, NoExec, IInv, TypeOK
<1>3. /\ saved'.shape = "steps" /\ OwnsUp(saved.st)' /\ NoFailed(saved.st)'
      /\ ~overlap => InStep(saved.st)'
  BY ResumedTable
<1>4. OneExecution'
  BY <1>2 DEF OneExecution
<1>5. SavedOK'
  BY <1>3 DEF SavedOK
<1>6. ExecOK'
  <2>1. LoadedSteps' = saved'.st
    BY <1>3 DEF LoadedSteps
  <2>2. run = "running"
    BY <1>1 DEF IInv, SavedOK
  <2>3. LoadOK(exec[e])'
    BY <1>2, <1>3, <2>1, <2>2 DEF LoadOK, OwnsUp, NoFailed, InStep
  <2> QED
    BY <1>2, <2>3 DEF ExecOK, LoadOK, WorkOK, StoreOK
<1>7. StatusOK'
  BY <1>2 DEF StatusOK, Covered, Recorded
<1>8. UndoOK'
  BY DEF IInv, UndoOK, Covered, Recorded
<1> QED
  BY <1>4, <1>5, <1>6, <1>7, <1>8 DEF IInv

LEMMA RetryStepInv == ASSUME IInv, NEW e \in Execs, RetryStep(e) PROVE IInv'
<1>1. TypeOK'
  BY ResumeType DEF IInv
<1>2. PICK i \in Steps : IsFirst(i, FailedSteps) /\ Assign(saved.shape, [saved.st EXCEPT ![i] = "pending"])
  BY DEF RetryStep
<1>3. /\ up /\ cr = "paused" /\ Resumed(e) /\ cr' = "executing"
      /\ UNCHANGED <<run, undo, live, effects, up, crashes, half, overlap, relapsed>>
  BY DEF RetryStep, Serve, MayResume
<1> QED
  BY <1>1, <1>2, <1>3, ResumedInv

LEMMA SkipStepInv == ASSUME IInv, NEW e \in Execs, SkipStep(e) PROVE IInv'
<1>1. TypeOK'
  BY ResumeType DEF IInv
<1>2. PICK i \in Steps :
        /\ IsFirst(i, FailedSteps) /\ Assign(saved.shape, [saved.st EXCEPT ![i] = "skipped"])
        /\ \/ /\ Unsettled([saved.st EXCEPT ![i] = "skipped"]) = {}
              /\ cr' = "completed" /\ UNCHANGED exec
           \/ cr' = "executing" /\ Resumed(e) /\ UNCHANGED run
  BY DEF SkipStep
<1>3. /\ up /\ cr = "paused"
      /\ UNCHANGED <<undo, live, effects, up, crashes, half, overlap, relapsed>>
  BY DEF SkipStep, Serve, MayResume
<1>4. CASE cr' = "executing" /\ Resumed(e) /\ UNCHANGED run
  BY <1>1, <1>2, <1>3, <1>4, ResumedInv
<1>5. CASE Unsettled([saved.st EXCEPT ![i] = "skipped"]) = {} /\ cr' = "completed" /\ UNCHANGED exec
  <2>1. \A f \in Execs : exec'[f].pc = "off"
    BY <1>2, <1>5, ResumeFinds
  <2>2. /\ saved'.shape = "steps" /\ saved'.st = [saved.st EXCEPT ![i] = "skipped"]
        /\ NoFailed(saved.st)'
        /\ ~overlap => InStep(saved.st)'
    BY <1>2, <1>3, ResumedTable
  <2>3. Settled(saved.st)'
    BY <1>5, <2>2 DEF Settled, Unsettled
  <2>4. OneExecution'
    BY <1>3, <2>1 DEF OneExecution
  <2>5. SavedOK'
    BY <2>2 DEF SavedOK
  <2>6. ExecOK'
    BY <2>1 DEF ExecOK, LoadOK, WorkOK, StoreOK
  <2>7. StatusOK'
    BY <1>3, <1>5, <2>2, <2>3 DEF StatusOK, Covered, Recorded
  <2>8. UndoOK'
    BY <1>3, <1>5 DEF IInv, UndoOK, Covered, Recorded
  <2> QED
    BY <1>1, <2>4, <2>5, <2>6, <2>7, <2>8 DEF IInv
<1> QED
  BY <1>2, <1>4, <1>5
-----------------------------------------------------------------------------
(* The rollback.                                                           *)

LEMMA RollbackRequestInv == ASSUME IInv, RollbackRequest PROVE IInv'
<1>1. /\ undo'.pc = "start" /\ up /\ cr \in {"completed", "failed", "paused"} /\ undo.pc = "off"
      /\ UNCHANGED <<cr, run, saved, exec, live, effects, up, crashes, half, overlap, relapsed>>
  BY DEF RollbackRequest, Serve, NoUndo
<1>2. TypeOK'
  BY UndoType DEF IInv
<1>3. OneExecution' /\ SavedOK'
  BY <1>1 DEF IInv, OneExecution, SavedOK, NoFailed, OwnsUp, OneFailed, InStep
<1>4. ExecOK'
  BY <1>1 DEF IInv, ExecOK, LoadOK, WorkOK, StoreOK, LoadedSteps, NoFailed, OwnsUp, OneFailed,
              InStep, Settled
<1>5. StatusOK'
  BY <1>1 DEF IInv, StatusOK, Covered, Recorded, NoFailed, InStep, Settled
<1>6. UndoOK'
  BY <1>1 DEF UndoOK, Covered, Recorded
<1> QED
  BY <1>2, <1>3, <1>4, <1>5, <1>6 DEF IInv

LEMMA RollbackStartInv == ASSUME IInv, RollbackStart PROVE IInv'
<1>1. /\ undo.pc = "start" /\ undo'.pc = "load" /\ cr' = "executing"
      /\ UNCHANGED <<run, saved, exec, live, effects, up, crashes, half, relapsed>>
  BY DEF RollbackStart, NoUndo
<1>2. ~overlap' => ~overlap /\ \A e \in Execs : exec[e].pc = "off"
  BY DEF RollbackStart, Executing
<1>3. TypeOK'
  BY UndoType DEF IInv, UndoStep
<1>4. OneExecution'
  BY <1>1 DEF IInv, OneExecution
<1>5. SavedOK'
  BY <1>1 DEF IInv, SavedOK, NoFailed, OwnsUp, OneFailed
<1>6. ExecOK'
  <2>1. CASE overlap'
    BY <1>1, <2>1 DEF IInv, ExecOK, LoadOK, WorkOK, StoreOK, LoadedSteps, NoFailed, OwnsUp,
                      OneFailed, Settled
  <2>2. CASE ~overlap'
    BY <1>1, <1>2, <2>2 DEF ExecOK, LoadOK, WorkOK, StoreOK
  <2> QED
    BY <2>1, <2>2
<1>7. StatusOK'
  BY <1>1 DEF StatusOK, Covered, Recorded
<1>8. UndoOK'
  <2>1. ASSUME ~overlap', crashes = 0, ~relapsed PROVE Covered
    <3>1. ~overlap /\ \A e \in Execs : exec[e].pc = "off"
      BY <1>2, <2>1
    <3>2. cr \in {"completed", "paused", "failed"}
      BY <1>1, <2>1, <3>1 DEF IInv, TypeOK, CRStatus, StatusOK, UndoOK
    <3>3. CASE cr = "failed"
      BY <2>1, <3>1, <3>3 DEF IInv, StatusOK
    <3>4. CASE cr \in {"completed", "paused"}
      <4>1. InStep(saved.st)
        BY <2>1, <3>1, <3>4 DEF IInv, StatusOK, SavedOK
      <4> QED
        BY <4>1 DEF InStep, Covered, IInv, TypeOK
    <3> QED
      BY <3>2, <3>3, <3>4
  <2> QED
    BY <1>1, <1>2, <2>1 DEF UndoOK, Covered, Recorded
<1> QED
  BY <1>3, <1>4, <1>5, <1>6, <1>7, <1>8 DEF IInv

LEMMA RollbackLoadInv == ASSUME IInv, RollbackLoad PROVE IInv'
<1>1. /\ undo.pc = "load" /\ undo'.pc = "undo" /\ undo'.todo = Recorded
      /\ UNCHANGED <<cr, run, saved, exec, live, effects, up, crashes, half, overlap, relapsed>>
  BY DEF RollbackLoad, IInv, TypeOK
<1>2. TypeOK'
  BY UndoType DEF IInv, UndoStep
<1>3. OneExecution' /\ SavedOK'
  BY <1>1 DEF IInv, OneExecution, SavedOK, NoFailed, OwnsUp, OneFailed, InStep
<1>4. ExecOK'
  BY <1>1 DEF IInv, ExecOK, LoadOK, WorkOK, StoreOK, LoadedSteps, NoFailed, OwnsUp, OneFailed,
              InStep, Settled
<1>5. StatusOK'
  BY <1>1 DEF IInv, StatusOK, Covered, Recorded, NoFailed, InStep, Settled
<1>6. UndoOK'
  BY <1>1 DEF IInv, TypeOK, UndoOK, Covered, Recorded
<1> QED
  BY <1>2, <1>3, <1>4, <1>5, <1>6 DEF IInv

LEMMA RollbackStepInv == ASSUME IInv, RollbackStep PROVE IInv'
<1>1. /\ undo.pc = "undo"
      /\ UNCHANGED <<cr, run, saved, exec, up, crashes, half, overlap, relapsed>>
  BY DEF RollbackStep
<1>2. PICK i \in Steps :
        \/ /\ live' = live \ {i} /\ effects' = [effects EXCEPT ![i] = 0]
           /\ undo' = [undo EXCEPT !.todo = @ \ {i}]
        \/ /\ undo' = [undo EXCEPT !.todo = @ \ {i}, !.warned = TRUE]
           /\ UNCHANGED <<live, effects>>
  BY DEF RollbackStep
<1>3. /\ undo'.pc = "undo" /\ \A j \in Steps : effects'[j] = effects[j] \/ effects'[j] = 0
      /\ \/ live' = live \ {i} /\ undo'.todo = undo.todo \ {i} /\ undo'.warned = undo.warned
         \/ undo'.warned
      /\ live' \subseteq live
  BY <1>1, <1>2 DEF IInv, TypeOK
<1>4. TypeOK'
  BY UndoType DEF IInv, UndoStep
<1>5. ~overlap => cr = "executing" /\ \A e \in Execs : exec[e].pc = "off"
  BY <1>1 DEF IInv, UndoOK, Covered, Recorded
<1>6. OneExecution'
  BY <1>1, <1>3 DEF IInv, OneExecution
<1>7. SavedOK'
  <2>1. OwnsUp(saved.st) => OwnsUp(saved.st)'
    BY <1>1, <1>3 DEF OwnsUp
  <2> QED
    BY <1>1, <1>5, <2>1 DEF IInv, SavedOK, NoFailed, OneFailed
<1>8. ExecOK'
  <2>1. \A e \in Execs : OwnsUp(exec[e].mem) => OwnsUp(exec[e].mem)'
    BY <1>1, <1>3 DEF OwnsUp
  <2>2. OwnsUp(LoadedSteps) => OwnsUp(LoadedSteps)'
    BY <1>1, <1>3 DEF OwnsUp, LoadedSteps
  <2>3. CASE overlap
    BY <1>1, <2>1, <2>2, <2>3 DEF IInv, ExecOK, LoadOK, WorkOK, StoreOK, LoadedSteps, NoFailed,
                                  OneFailed, Settled
  <2>4. CASE ~overlap
    BY <1>1, <1>5, <2>4 DEF ExecOK, LoadOK, WorkOK, StoreOK
  <2> QED
    BY <2>3, <2>4
<1>9. StatusOK'
  BY <1>1, <1>3, <1>5 DEF IInv, StatusOK, Covered, Recorded
<1>10. UndoOK'
  BY <1>1, <1>3, <1>5 DEF IInv, UndoOK, Covered, Recorded
<1> QED
  BY <1>4, <1>6, <1>7, <1>8, <1>9, <1>10 DEF IInv

LEMMA RollbackEndInv == ASSUME IInv, RollbackEnd PROVE IInv'
<1>1. /\ undo.pc = "undo" /\ undo.todo = {} /\ undo'.pc = "off" /\ cr' = RollbackStatus
      /\ UNCHANGED <<run, saved, exec, live, effects, up, crashes, half, overlap, relapsed>>
  BY DEF RollbackEnd, NoUndo
<1>2. cr' \in {"rolled_back", "rolled_back_with_warnings"} /\ (cr' = "rolled_back" => ~undo.warned)
  BY <1>1 DEF RollbackStatus
<1>3. TypeOK'
  BY UndoType DEF IInv, UndoStep
<1>4. ~overlap => \A e \in Execs : exec[e].pc = "off"
  BY <1>1 DEF IInv, UndoOK, Covered, Recorded
<1>5. OneExecution' /\ SavedOK'
  BY <1>1, <1>2 DEF IInv, OneExecution, SavedOK, NoFailed, OwnsUp, OneFailed
<1>6. ExecOK'
  <2>1. CASE overlap
    BY <1>1, <2>1 DEF IInv, ExecOK, LoadOK, WorkOK, StoreOK, LoadedSteps, NoFailed, OwnsUp,
                      OneFailed, Settled
  <2>2. CASE ~overlap
    BY <1>1, <1>4, <2>2 DEF ExecOK, LoadOK, WorkOK, StoreOK
  <2> QED
    BY <2>1, <2>2
<1>7. StatusOK'
  <2>1. ~overlap /\ crashes = 0 /\ ~relapsed /\ cr' = "rolled_back" =>
          live \subseteq half \ Recorded
    BY <1>1, <1>2 DEF IInv, UndoOK, Covered, Recorded
  <2> QED
    BY <1>1, <1>2, <2>1 DEF StatusOK, Covered, Recorded
<1>8. UndoOK'
  BY <1>1 DEF UndoOK, Covered, Recorded
<1> QED
  BY <1>3, <1>5, <1>6, <1>7, <1>8 DEF IInv

LEMMA RollbackFailInv == ASSUME IInv, RollbackFail PROVE IInv'
<1>1. /\ undo.pc \in {"load", "undo"} /\ undo'.pc = "off" /\ cr' = "failed"
      /\ UNCHANGED <<run, saved, exec, live, effects, up, crashes, half, overlap, relapsed>>
  BY DEF RollbackFail, NoUndo
<1>2. TypeOK'
  BY UndoType DEF IInv, UndoStep
<1>3. ~overlap => \A e \in Execs : exec[e].pc = "off"
  BY <1>1 DEF IInv, UndoOK
<1>4. OneExecution' /\ SavedOK'
  BY <1>1 DEF IInv, OneExecution, SavedOK, NoFailed, OwnsUp, OneFailed
<1>5. ExecOK'
  <2>1. CASE overlap
    BY <1>1, <2>1 DEF IInv, ExecOK, LoadOK, WorkOK, StoreOK, LoadedSteps, NoFailed, OwnsUp,
                      OneFailed, Settled
  <2>2. CASE ~overlap
    BY <1>1, <1>3, <2>2 DEF ExecOK, LoadOK, WorkOK, StoreOK
  <2> QED
    BY <2>1, <2>2
<1>6. StatusOK'
  BY <1>1 DEF IInv, StatusOK, UndoOK, Covered
<1>7. UndoOK'
  BY <1>1 DEF UndoOK
<1> QED
  BY <1>2, <1>4, <1>5, <1>6, <1>7 DEF IInv
-----------------------------------------------------------------------------
(* The process.                                                            *)

LEMMA CrashInv == ASSUME IInv, Crash PROVE IInv'
<1>1. /\ crashes' > 0 /\ undo'.pc = "off" /\ \A e \in Execs : exec'[e].pc = "off"
      /\ UNCHANGED <<cr, run, saved, live, effects, half, overlap, relapsed>>
  BY DEF Crash, NoUndo, NoExec, IInv, TypeOK
<1>2. TypeOK'
  BY ProcessType DEF IInv
<1>3. OneExecution' /\ SavedOK'
  BY <1>1 DEF IInv, OneExecution, SavedOK, NoFailed, OwnsUp, OneFailed, InStep
<1>4. ExecOK'
  BY <1>1 DEF ExecOK, LoadOK, WorkOK, StoreOK
<1>5. StatusOK'
  <2>1. crashes' # 0
    BY <1>1
  <2> QED
    BY <1>1, <2>1 DEF IInv, StatusOK, Covered, Recorded, NoFailed, InStep, Settled
<1>6. UndoOK'
  BY <1>1 DEF UndoOK, Covered, Recorded
<1> QED
  BY <1>2, <1>3, <1>4, <1>5, <1>6 DEF IInv

LEMMA RestartInv == ASSUME IInv, Restart PROVE IInv'
<1>1. /\ up' /\ cr' = (IF cr = "executing" THEN "failed" ELSE cr)
      /\ UNCHANGED <<run, saved, exec, undo, live, effects, crashes, half, overlap, relapsed>>
  BY DEF Restart, Scrub
<1>2. crashes > 0 /\ undo.pc = "off" /\ \A e \in Execs : exec[e].pc = "off"
  BY DEF Restart, IInv, OneExecution
<1>3. TypeOK'
  BY ProcessType DEF IInv
<1>4. OneExecution' /\ SavedOK'
  BY <1>1, <1>2 DEF IInv, OneExecution, SavedOK, NoFailed, OwnsUp, OneFailed, InStep
<1>5. ExecOK'
  BY <1>1, <1>2 DEF ExecOK, LoadOK, WorkOK, StoreOK
<1>6. StatusOK'
  <2>1. crashes' # 0 /\ crashes' > 0
    BY <1>1, <1>2
  <2> QED
    BY <1>1, <2>1 DEF IInv, StatusOK, Covered, Recorded, NoFailed, InStep, Settled
<1>7. UndoOK'
  BY <1>1, <1>2 DEF UndoOK, Covered, Recorded
<1> QED
  BY <1>3, <1>4, <1>5, <1>6, <1>7 DEF IInv
-----------------------------------------------------------------------------
LEMMA InitInv == Init => IInv
<1> SUFFICES ASSUME Init PROVE IInv
  OBVIOUS
<1> DEFINE x == [NoExec EXCEPT !.pc = "load", !.flow = TRUE]
<1>1. x \in ExecType
  BY NoExecType DEF ExecType
<1>2. exec \in [Execs -> ExecType]
  BY <1>1, NoExecType, RotationAssumption DEF Init
<1>3. TypeOK
  <2>1. crashes \in 0..MaxCrashes /\ requests \in 0..MaxRequests /\ effects \in [Steps -> Nat]
    BY RotationAssumption DEF Init
  <2>2. up \in BOOLEAN /\ overlap \in BOOLEAN /\ relapsed \in BOOLEAN
    BY DEF Init
  <2>3. saved \in [shape : Shape, st : Table]
    BY NoExecType DEF Init, Shape
  <2>4. undo \in [pc : {"off", "start", "load", "undo"}, todo : SUBSET Steps, warned : BOOLEAN]
    BY DEF Init, NoUndo
  <2> QED
    BY <1>2, <2>1, <2>2, <2>3, <2>4 DEF Init, TypeOK, CRStatus
<1>4. /\ exec[FirstExec].pc = "load" /\ FirstExec \in Execs
      /\ \A e \in Execs : e # FirstExec => exec[e].pc = "off"
  BY RotationAssumption DEF Init, NoExec
<1>5. /\ saved.shape = "null" /\ LoadedSteps = Fresh /\ undo.pc = "off"
      /\ \A i \in Steps : Fresh[i] = "pending" /\ effects[i] = 0 /\ i \notin live
  BY DEF Init, LoadedSteps, Fresh, NoUndo
<1>6. OneExecution /\ SavedOK /\ UndoOK
  BY <1>4, <1>5 DEF Init, OneExecution, SavedOK, UndoOK, Covered, Recorded
<1>7. ExecOK
  <2>1. LoadOK(exec[FirstExec])
    BY <1>5 DEF Init, LoadOK, OwnsUp, NoFailed, InStep
  <2> QED
    BY <1>4, <2>1 DEF ExecOK, LoadOK, WorkOK, StoreOK
<1>8. StatusOK
  BY <1>4 DEF Init, StatusOK, Covered, Recorded
<1> QED
  BY <1>3, <1>6, <1>7, <1>8 DEF IInv

LEMMA StepInv == IInv /\ [Next]_vars => IInv'
<1> SUFFICES ASSUME IInv, [Next]_vars PROVE IInv'
  OBVIOUS
<1>1. CASE UNCHANGED vars
  BY <1>1 DEF vars, state, IInv, TypeOK, OneExecution, SavedOK, ExecOK, StatusOK, Covered, Recorded, UndoOK, LoadOK,
              WorkOK, StoreOK, LoadedSteps, NoFailed, OwnsUp, OneFailed, InStep, Settled
<1>2. ASSUME NEW e \in Execs, ExecStep(e) PROVE IInv'
  BY <1>2, LoadInv, BeginStepInv, StepOkInv, StepFailInv, FinishInv, ResumeFailInv, StorePausedInv,
     StoreCompletedInv DEF ExecStep
<1>3. ASSUME NEW e \in Execs, RetryStep(e) \/ SkipStep(e) PROVE IInv'
  BY <1>3, RetryStepInv, SkipStepInv
<1>4. CASE RollbackRequest \/ UndoStep
  BY <1>4, RollbackRequestInv, RollbackStartInv, RollbackLoadInv, RollbackStepInv, RollbackEndInv,
     RollbackFailInv
     DEF UndoStep
<1>5. CASE Crash \/ Restart
  BY <1>5, CrashInv, RestartInv
<1> QED
  BY <1>1, <1>2, <1>3, <1>4, <1>5 DEF Next

LEMMA Invariance == Spec => []IInv
  BY InitInv, StepInv, PTL DEF Spec
-----------------------------------------------------------------------------
\* A step has taken effect twice only if one of its calls failed and had.
EffectsOnce == \A i \in Steps : effects[i] <= 2 /\ (i \notin half => effects[i] <= 1)

\* An execution acts only on a step that its table does not call completed, and
\* the table owns up to all that took effect but for what a failed call left.
LEMMA EffectsStep == IInv /\ EffectsOnce /\ [Next]_vars => EffectsOnce'
<1> SUFFICES ASSUME IInv, EffectsOnce, [Next]_vars PROVE EffectsOnce'
  OBVIOUS
<1>1. effects \in [Steps -> Nat]
  BY DEF IInv, TypeOK
<1>2. ASSUME NEW e \in Execs, StepOk(e) \/ StepFail(e) PROVE EffectsOnce'
  <2> DEFINE i == exec[e].cur
  <2>1. /\ exec[e].pc = "act"
        /\ \/ effects' = [effects EXCEPT ![i] = @ + 1] /\ (half' = half \/ half' = half \cup {i})
           \/ UNCHANGED <<effects, half>>
    BY <1>2 DEF StepOk, StepFail, TakesEffect
  <2>2. WorkOK(exec[e])
    BY <2>1, Alone
  <2>3. i \in Steps /\ effects[i] <= 1 /\ (i \notin half => effects[i] = 0)
    BY <2>1, <2>2 DEF WorkOK, OwnsUp
  <2>4. \A j \in Steps : effects'[j] = effects[j] \/ (j = i /\ effects'[j] = effects[j] + 1)
    BY <1>1, <2>1
  <2>5. half \subseteq half' /\ effects[i] \in Nat
    BY <1>1, <2>1, <2>3
  <2> QED
    BY <1>1, <2>3, <2>4, <2>5 DEF EffectsOnce
<1>3. CASE RollbackStep
  <2>1. PICK i \in Steps : effects' \in {effects, [effects EXCEPT ![i] = 0]} /\ half' = half
    BY <1>3 DEF RollbackStep
  <2> QED
    BY <1>1, <2>1 DEF EffectsOnce
<1>4. CASE UNCHANGED <<effects, half>>
  BY <1>4 DEF EffectsOnce
<1>5. \/ \E e \in Execs : StepOk(e) \/ StepFail(e)
      \/ RollbackStep
      \/ UNCHANGED <<effects, half>>
  BY DEF Next, vars, state, ExecStep, UndoStep, Load, BeginStep, Finish, ResumeFail, StorePaused,
         StoreCompleted, StoreCompletedRun, RetryStep, SkipStep, RollbackRequest, RollbackStart,
         RollbackLoad, RollbackEnd, RollbackFail, Crash, Restart
<1> QED
  BY <1>2, <1>3, <1>4, <1>5

LEMMA InStepRecords == TypeOK /\ InStep(saved.st) => RecordsWhatIsLive
<1> SUFFICES ASSUME TypeOK, InStep(saved.st) PROVE RecordsWhatIsLive
  OBVIOUS
<1>1. Recorded \subseteq live
  <2>1. \A i \in Steps : saved.st[i] = "completed" => i \in live
    BY DEF InStep
  <2> QED
    BY <2>1 DEF Recorded
<1>2. live \subseteq Recorded \cup half
  BY DEF Recorded, InStep, TypeOK
<1> QED
  BY <1>1, <1>2 DEF RecordsWhatIsLive

\* Every variable keeps its type.
THEOREM TypeCorrect == Spec => []TypeOK
<1>1. IInv => TypeOK
  BY DEF IInv
<1> QED
  BY <1>1, Invariance, PTL

\* execute_steps never runs twice at once, and a step takes effect a second time
\* only after a call of it that took effect and failed, whatever retry-step,
\* skip-step and rollback are sent, and when.
THEOREM RotatedOnce == Spec => []AppliedOnce
<1>1. Init => EffectsOnce
  BY DEF Init, EffectsOnce
<1>2. IInv /\ EffectsOnce => AppliedOnce
  <2> SUFFICES ASSUME IInv, EffectsOnce PROVE AppliedOnce
    OBVIOUS
  <2> DEFINE A == {e \in Execs : exec[e].pc # "off"}
  <2>1. A = {} \/ \E e : A = {e}
    BY DEF IInv, OneExecution
  <2>2. Cardinality(A) = 0 \/ Cardinality(A) = 1
    BY <2>1, FS_EmptySet, FS_Singleton
  <2>3. Cardinality(A) <= 1
    BY <2>2
  <2>4. \A i \in Steps : effects[i] <= IF i \in half THEN 2 ELSE 1
    BY DEF EffectsOnce
  <2> QED
    BY <2>3, <2>4 DEF AppliedOnce
<1> QED
  BY <1>1, <1>2, EffectsStep, Invariance, PTL DEF Spec

\* A completed CR can be undone: the run's row names the steps in place, all but
\* those a failed call left behind.
THEOREM CompletedCanBeUndone == Spec => []CompletedIsRecorded
<1>1. ASSUME IInv, cr = "completed", ~overlap
      PROVE  /\ RecordsWhatIsLive
             /\ Unsettled(saved.st) = {} /\ \A i \in Steps : saved.st[i] # "failed"
  <2>1. InStep(saved.st) /\ Settled(saved.st) /\ NoFailed(saved.st)
    BY <1>1 DEF IInv, StatusOK
  <2>2. RecordsWhatIsLive
    BY <1>1, <2>1, InStepRecords DEF IInv
  <2> QED
    BY <2>1, <2>2 DEF Settled, NoFailed, Unsettled
<1>2. IInv => CompletedIsRecorded
  BY <1>1 DEF CompletedIsRecorded
<1> QED
  BY <1>2, Invariance, PTL

\* A paused CR can be resumed: the row names the steps in place and the one failed
\* step that retry-step and skip-step look for.
THEOREM PausedCanBeResumed == Spec => []PausedIsResumable
<1>1. IInv => PausedIsResumable
  <2> SUFFICES ASSUME IInv, cr = "paused", ~Executing, crashes = 0, ~overlap, ~relapsed
               PROVE  /\ RecordsWhatIsLive
                      /\ \E i \in Steps : IsFirst(i, FailedSteps) /\ IsLast(i, FailedSteps)
    BY DEF PausedIsResumable
  <2>1. saved.shape = "paused" /\ InStep(saved.st) /\ OneFailed(saved.st)
    BY DEF IInv, StatusOK, Covered, Recorded, SavedOK, Executing
  <2>2. RecordsWhatIsLive
    BY <2>1, InStepRecords DEF IInv
  <2>3. PICK i \in Steps : \A j \in Steps : saved.st[j] = "failed" <=> j = i
    BY <2>1 DEF OneFailed
  <2>4. FailedSteps = {i}
    BY <2>1, <2>3 DEF FailedSteps
  <2>5. i <= i
    BY RotationAssumption DEF Steps
  <2> QED
    BY <2>2, <2>4, <2>5 DEF IsFirst, IsLast
<1> QED
  BY <1>1, Invariance, PTL

\* rolled_back without warnings means that nothing of the rotation is in place but
\* what a failed call left behind.
THEOREM RolledBackUndidTheRecorded == Spec => []RolledBackIsUndone
<1>1. IInv => RolledBackIsUndone
  BY DEF IInv, StatusOK, Covered, Recorded, RolledBackIsUndone
<1> QED
  BY <1>1, Invariance, PTL
=============================================================================
