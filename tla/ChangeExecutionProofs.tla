------------------------ MODULE ChangeExecutionProofs ------------------------
(***************************************************************************)
(* Theorems about ChangeExecution, for every set of CRs, assets, processes *)
(* and coroutines and every bound.                                         *)
(***************************************************************************)
EXTENDS ChangeExecution, TLAPS

\* A slot without a coroutine has the type of one.
LEMMA IdleType == Idle \in TaskType /\ Idle.pc = "idle" /\ Idle.run = 0 /\ Idle.stamp = 0
  BY ConstantsAssumption DEF Idle, TaskType, PC, Status, NoTodo

\* A rollback never ends in flight or approved.
LEMMA ResultsAreOutcomes == RollbackResults \subseteq RollbackOutcome
  BY ConstantsAssumption

\* Every initial state has the right types.
LEMMA InitType == Init => TypeOK
<1> SUFFICES ASSUME Init PROVE TypeOK
  OBVIOUS
<1>1. status \in [CRs -> Status] /\ seq \in [CRs -> Nat] /\ nruns \in 0..MaxRuns
  BY ConstantsAssumption DEF Init, Status
<1>2. runs \in [1..MaxRuns -> RunType]
  BY DEF Init, NoRun, RunType, RunKind, RunStatus
<1>3. task \in [Tasks -> TaskType] /\ \A t \in Tasks : task[t].pc = "idle"
  BY IdleType DEF Init
<1>4. up \in [Procs -> BOOLEAN] /\ raced \in BOOLEAN /\ doubled \subseteq CRs /\ lost \subseteq CRs
  BY Zenon DEF Init
<1>5. crashes \in 0..MaxCrashes
  BY ConstantsAssumption DEF Init
<1> QED
  BY <1>1, <1>2, <1>3, <1>4, <1>5 DEF TypeOK, Busy

\* A coroutine's new state has the type of one, and so have all of them.
LEMMA BecomeType ==
  ASSUME TypeOK, NEW t \in Tasks, NEW r \in TaskType, Busy(r), Become(t, r)
  PROVE  task' \in [Tasks -> TaskType] /\ \A u \in Tasks : Busy(task'[u])
  BY DEF TypeOK, Become

LEMMA GotoType ==
  ASSUME TypeOK, NEW t \in Tasks, ~At(t, "idle"), ~At(t, "rallnext"),
         NEW loc \in PC, Goto(t, loc)
  PROVE  task' \in [Tasks -> TaskType] /\ \A u \in Tasks : Busy(task'[u])
<1>1. [task[t] EXCEPT !.pc = loc] \in TaskType /\ Busy([task[t] EXCEPT !.pc = loc])
  BY DEF TypeOK, TaskType, Busy, At
<1> QED
  BY <1>1, BecomeType DEF Goto

LEMMA FinishType ==
  ASSUME TypeOK, NEW t \in Tasks, Finish(t)
  PROVE  task' \in [Tasks -> TaskType] /\ \A u \in Tasks : Busy(task'[u])
  BY IdleType, BecomeType DEF Finish, Busy

LEMMA SetRunType ==
  ASSUME TypeOK, NEW t \in Tasks, NEW st \in RunStatus, SetRun(t, st)
  PROVE  runs' \in [1..MaxRuns -> RunType]
  BY DEF TypeOK, SetRun, RunType

LEMMA AddRunType ==
  ASSUME TypeOK, NEW c \in CRs, NEW kind \in RunKind, NEW st \in RunStatus,
         AddRun(c, kind, st)
  PROVE  runs' \in [1..MaxRuns -> RunType] /\ nruns' \in 0..MaxRuns
  BY ConstantsAssumption DEF TypeOK, AddRun, RunType

\* A coroutine's step keeps the types.
LEMMA TaskStepType ==
  ASSUME TypeOK, NEW t \in Tasks, TaskStep(t) PROVE TypeOK'
<1> USE DEF At
<1>1. CASE Start(t)
  BY <1>1, GotoType, AddRunType DEF TypeOK, Start, Busy, NoteDouble, PC, RunKind, RunStatus
<1>2. CASE CancelCommit(t)
  BY <1>2, FinishType DEF TypeOK, CancelCommit, SetStatus, Status
<1>3. CASE Load(t)
  <2>1. PICK i \in 1..nruns : Become(t, [task[t] EXCEPT !.pc = "begin", !.run = i])
    BY <1>3 DEF Load
  <2>2. [task[t] EXCEPT !.pc = "begin", !.run = i] \in TaskType
    <3>1. i \in 0..MaxRuns
      BY ConstantsAssumption DEF TypeOK
    <3>2. task[t] \in TaskType
      BY DEF TypeOK
    <3> QED
      BY <3>1, <3>2 DEF TaskType, PC
  <2>3. Busy([task[t] EXCEPT !.pc = "begin", !.run = i])
    BY <1>3 DEF TypeOK, TaskType, Busy, Load
  <2> QED
    BY <1>3, <2>1, <2>2, <2>3, BecomeType DEF TypeOK, Load
<1>4. CASE Begin(t)
  BY <1>4, GotoType DEF TypeOK, Begin, SetStatus, Status, InFlight, PC
<1>5. CASE PreflightPass(t)
  BY <1>5, GotoType DEF TypeOK, PreflightPass, PC
<1>6. CASE PreflightFail(t)
  BY <1>6, GotoType DEF TypeOK, PreflightFail, SetStatus, Status, PC
<1>7. CASE ExecuteOk(t)
  BY <1>7, GotoType DEF TypeOK, ExecuteOk, SetStatus, Status, InFlight, PC
<1>8. CASE ExecuteFail(t)
  BY <1>8, GotoType DEF TypeOK, ExecuteFail, SetStatus, Status, PC
<1>9. CASE HookRaise(t)
  BY <1>9, FinishType DEF TypeOK, Busy, HookRaise, Vanish
<1>10. CASE FailRun(t)
  BY <1>10, FinishType, SetRunType DEF TypeOK, FailRun, RunStatus
<1>11. CASE VerifyPass(t)
  BY <1>11, GotoType DEF TypeOK, VerifyPass, PC
<1>12. CASE VerifyFail(t)
  BY <1>12, GotoType, SetRunType DEF TypeOK, VerifyFail, RunStatus, PC
<1>13. CASE ReadSequence(t)
  <2> DEFINE c == task[t].cr
  <2>1. PICK n \in {seq[d] + 1 : d \in Peers(c)} \cup {1} :
             Become(t, [task[t] EXCEPT !.pc = "complete", !.stamp = n])
    BY <1>13 DEF ReadSequence
  <2>2. n \in Nat
    <3>1. \A d \in Peers(c) : seq[d] + 1 \in Nat
      BY DEF Peers, TypeOK
    <3> QED
      BY <2>1, <3>1
  <2> DEFINE r == [task[t] EXCEPT !.pc = "complete", !.stamp = n]
  <2>3. r \in TaskType /\ Busy(r)
    BY <1>13, <2>2, ZenonT(30) DEF TypeOK, TaskType, PC, Busy, ReadSequence
  <2>4. task' \in [Tasks -> TaskType] /\ \A u \in Tasks : Busy(task'[u])
    BY <2>1, <2>3, BecomeType
  <2>5. raced' \in BOOLEAN
    BY <1>13, Zenon DEF ReadSequence
  <2> QED
    BY <1>13, <2>4, <2>5 DEF TypeOK, ReadSequence
<1>14. CASE Complete(t)
  <2> DEFINE r == [task[t] EXCEPT !.pc = "completerun", !.stamp = 0, !.saw = "approved"]
  <2>1. r \in TaskType /\ Busy(r)
    BY <1>14, ZenonT(30) DEF TypeOK, TaskType, PC, Status, Busy, Complete
  <2>2. task' \in [Tasks -> TaskType] /\ \A u \in Tasks : Busy(task'[u])
    BY <1>14, <2>1, BecomeType DEF Complete
  <2>3. status' \in [CRs -> Status] /\ seq' \in [CRs -> Nat]
    BY <1>14 DEF TypeOK, Complete, SetStatus, Status, TaskType
  <2> QED
    BY <1>14, <2>2, <2>3 DEF TypeOK, Complete
<1>15. CASE CompleteRun(t)
  BY <1>15, FinishType, SetRunType DEF TypeOK, CompleteRun, RunStatus
<1>16. CASE AutoRollback(t)
  <2>1. PICK o \in RollbackOutcome : /\ SetStatus(task[t].cr, o)
                                    /\ Become(t, [task[t] EXCEPT !.pc = "autorollbackrun",
                                                                 !.saw = o])
    BY <1>16, ResultsAreOutcomes DEF AutoRollback
  <2> DEFINE r == [task[t] EXCEPT !.pc = "autorollbackrun", !.saw = o]
  <2>2. r \in TaskType /\ Busy(r)
    BY <1>16, ZenonT(30) DEF TypeOK, TaskType, PC, Status, Busy, AutoRollback
  <2>3. task' \in [Tasks -> TaskType] /\ \A u \in Tasks : Busy(task'[u])
    BY <2>1, <2>2, BecomeType
  <2> QED
    BY <1>16, <2>1, <2>3 DEF TypeOK, AutoRollback, SetStatus, Status
<1>17. CASE AutoRollbackRaise(t)
  BY <1>17, FinishType DEF TypeOK, Busy, AutoRollbackRaise, Vanish
<1>18. CASE AutoRollbackRun(t)
  BY <1>18, FinishType, SetRunType DEF TypeOK, AutoRollbackRun, RunStatus
<1>19. CASE RollbackStart(t)
  <2> DEFINE r == [task[t] EXCEPT !.pc = "rbexec", !.run = nruns + 1]
  <2>1. task[t].cr \in CRs
    BY <1>19 DEF TypeOK, Busy, RollbackStart
  <2>2. r \in TaskType /\ Busy(r)
    <3>1. nruns + 1 \in 0..MaxRuns
      BY <1>19, ConstantsAssumption DEF TypeOK, RollbackStart, AddRun
    <3> QED
      BY <1>19, <3>1, ZenonT(30) DEF TypeOK, TaskType, PC, Busy, RollbackStart
  <2>3. task' \in [Tasks -> TaskType] /\ \A u \in Tasks : Busy(task'[u])
    BY <1>19, <2>2, BecomeType DEF RollbackStart
  <2>4. runs' \in [1..MaxRuns -> RunType] /\ nruns' \in 0..MaxRuns
    BY <1>19, <2>1, AddRunType DEF RollbackStart, RunKind, RunStatus
  <2>5. status' \in [CRs -> Status] /\ doubled' \subseteq CRs
    BY <1>19, <2>1 DEF TypeOK, RollbackStart, SetStatus, Status, InFlight, NoteDouble
  <2> QED
    BY <1>19, <2>3, <2>4, <2>5 DEF TypeOK, RollbackStart
<1>20. CASE RollbackExec(t)
  <2>1. PICK o \in RollbackOutcome : SetStatus(task[t].cr, o)
    BY <1>20, ResultsAreOutcomes DEF RollbackExec
  <2> QED
    BY <1>20, <2>1, GotoType DEF TypeOK, RollbackExec, SetStatus, Status, PC
<1>21. CASE RollbackRaise(t)
  BY <1>21, FinishType, SetRunType DEF TypeOK, RollbackRaise, SetStatus, Status, RunStatus
<1>22. CASE RollbackRun(t)
  BY <1>22, FinishType, SetRunType DEF TypeOK, RollbackRun, RunStatus
<1>23. CASE McpRollbackExec(t)
  <2>1. status' \in [CRs -> Status]
    BY <1>23, ResultsAreOutcomes DEF TypeOK, McpRollbackExec, SetStatus, Status
  <2> QED
    BY <1>23, <2>1, FinishType DEF TypeOK, McpRollbackExec
<1>24. CASE RollbackAllMark(t)
  <2>1. PICK c \in CRs : /\ SetStatus(c, "executing")
                        /\ Become(t, [task[t] EXCEPT !.pc = "rallexec", !.cr = c,
                                                     !.todo[c] = 0])
    BY <1>24 DEF RollbackAllMark
  <2> DEFINE r == [task[t] EXCEPT !.pc = "rallexec", !.cr = c, !.todo[c] = 0]
  <2>2. r \in TaskType /\ Busy(r)
    BY <1>24, ZenonT(30) DEF TypeOK, TaskType, PC, Busy, RollbackAllMark
  <2>3. task' \in [Tasks -> TaskType] /\ \A u \in Tasks : Busy(task'[u])
    BY <2>1, <2>2, BecomeType
  <2> QED
    BY <1>24, <2>1, <2>3 DEF TypeOK, RollbackAllMark, SetStatus, Status, InFlight
<1>25. CASE RollbackAllExec(t)
  <2>1. PICK o \in RollbackOutcome : SetStatus(task[t].cr, o)
    BY <1>25, ResultsAreOutcomes DEF RollbackAllExec
  <2> QED
    BY <1>25, <2>1, GotoType DEF TypeOK, RollbackAllExec, SetStatus, Status, PC
<1>26. CASE RollbackAllForce(t)
  <2> DEFINE r == [task[t] EXCEPT !.pc = "rallnext", !.cr = NoCR]
  <2>1. r \in TaskType /\ Busy(r)
    BY <1>26, ZenonT(30) DEF TypeOK, TaskType, PC, Busy, RollbackAllForce
  <2>2. task' \in [Tasks -> TaskType] /\ \A u \in Tasks : Busy(task'[u])
    BY <1>26, <2>1, BecomeType, FinishType DEF RollbackAllForce
  <2>3. status' \in [CRs -> Status] /\ seq' \in [CRs -> Nat]
    BY <1>26 DEF TypeOK, RollbackAllForce, SetStatus, Status, RollbackOutcome
  <2> QED
    BY <1>26, <2>2, <2>3 DEF TypeOK, RollbackAllForce
<1>27. CASE RollbackAllRaise(t)
  BY <1>27, FinishType DEF TypeOK, RollbackAllRaise, SetStatus, Status
<1>28. CASE LoadCompletion(t)
  <2> DEFINE r(loc) == [task[t] EXCEPT !.pc = loc, !.saw = status[task[t].cr]]
  <2>1. \A loc \in {"readmax", "complete"} : r(loc) \in TaskType /\ Busy(r(loc))
    <3>1. task[t] \in TaskType /\ Busy(task[t]) /\ At(t, "stamp")
      BY <1>28 DEF TypeOK, LoadCompletion
    <3>2. task[t].cr \in CRs /\ task[t].proc \in Procs /\ status[task[t].cr] \in Status
      BY <3>1 DEF TypeOK, Busy
    <3>3. \A loc \in {"readmax", "complete"} : r(loc) \in TaskType
      BY <3>1, <3>2 DEF TaskType, PC
    <3>4. \A loc : r(loc).cr = task[t].cr /\ r(loc).proc = task[t].proc
      BY <3>1 DEF TaskType
    <3> QED
      BY <3>2, <3>3, <3>4 DEF Busy
  <2>2. task' \in [Tasks -> TaskType] /\ \A u \in Tasks : Busy(task'[u])
    BY <1>28, <2>1, BecomeType DEF LoadCompletion
  <2> QED
    BY <1>28, <2>2 DEF TypeOK, LoadCompletion
<1> QED
  BY <1>1, <1>2, <1>3, <1>4, <1>5, <1>6, <1>7, <1>8, <1>9, <1>10, <1>11, <1>12, <1>13, <1>14,
     <1>15, <1>16, <1>17, <1>18, <1>19, <1>20, <1>21, <1>22, <1>23, <1>24, <1>25, <1>26, <1>27, <1>28
  DEF TaskStep, WorkflowStep, RollbackStep

\* A new coroutine has the type of one.
LEMMA SpawnType ==
  ASSUME TypeOK, NEW t \in Tasks, NEW p \in Procs, NEW c \in CRs, NEW loc \in PC,
         Spawn(t, p, c, loc)
  PROVE  task' \in [Tasks -> TaskType] /\ \A u \in Tasks : Busy(task'[u])
<1> DEFINE r == [Idle EXCEPT !.pc = loc, !.cr = c, !.proc = p]
<1>1. r \in TaskType /\ Busy(r)
  BY IdleType DEF TaskType, Busy
<1> QED
  BY <1>1, BecomeType DEF Spawn

\* A request that finds a free slot keeps the types.
LEMMA RequestType ==
  ASSUME TypeOK, NEW t \in Tasks, NEW p \in Procs, Request(t, p) PROVE TypeOK'
<1>1. ASSUME NEW c \in CRs, ExecuteCheck(t, p, c) PROVE TypeOK'
  BY <1>1, SpawnType DEF TypeOK, ExecuteCheck, PC
<1>2. ASSUME NEW c \in CRs, CancelCheck(t, p, c) PROVE TypeOK'
  BY <1>2, SpawnType DEF TypeOK, CancelCheck, PC
<1>3. ASSUME NEW c \in CRs, RollbackCheck(t, p, c) PROVE TypeOK'
  BY <1>3, SpawnType DEF TypeOK, RollbackCheck, PC
<1>4. ASSUME NEW c \in CRs, McpRollbackCheck(t, p, c) PROVE TypeOK'
  BY <1>4, SpawnType DEF TypeOK, McpRollbackCheck, PC
<1>5. ASSUME NEW a \in Assets, RollbackAllSelect(t, p, a) PROVE TypeOK'
  <2> DEFINE applied == [c \in CRs |->
        IF status[c] = "completed" /\ a \in AssetsOf[c] THEN seq[c] ELSE 0]
             r == [Idle EXCEPT !.pc = "rallnext", !.proc = p, !.todo = applied]
  <2>1. applied \in [CRs -> Nat]
    BY DEF TypeOK
  <2> HIDE DEF applied
  <2>2. r \in TaskType /\ Busy(r)
    BY <2>1, IdleType DEF TaskType, Busy, PC
  <2>3. task' \in [Tasks -> TaskType] /\ \A u \in Tasks : Busy(task'[u])
    BY <1>5, <2>2, BecomeType DEF RollbackAllSelect, applied
  <2> QED
    BY <1>5, <2>3 DEF TypeOK, RollbackAllSelect
<1> QED
  BY <1>1, <1>2, <1>3, <1>4, <1>5 DEF Request

\* Every step keeps the types.
LEMMA NextType == TypeOK /\ [Next]_vars => TypeOK'
<1> SUFFICES ASSUME TypeOK, [Next]_vars PROVE TypeOK'
  OBVIOUS
<1>1. ASSUME NEW t \in Tasks, TaskStep(t) PROVE TypeOK'
  BY <1>1, TaskStepType
<1>2. ASSUME NEW t \in Tasks, NEW p \in Procs, Request(t, p) PROVE TypeOK'
  BY <1>2, RequestType
<1>3. CASE CleanupStuck
  BY <1>3 DEF TypeOK, CleanupStuck, FailInFlight, Status
<1>4. ASSUME NEW p \in Procs, Crash(p) PROVE TypeOK'
  <2>1. task' \in [Tasks -> TaskType] /\ \A u \in Tasks : Busy(task'[u])
    BY <1>4, IdleType DEF TypeOK, Crash, Busy
  <2>2. crashes' \in 0..MaxCrashes /\ up' \in [Procs -> BOOLEAN]
    BY <1>4, ConstantsAssumption DEF TypeOK, Crash
  <2> QED
    BY <1>4, <2>1, <2>2 DEF TypeOK, Crash
<1>5. ASSUME NEW p \in Procs, Restart(p) PROVE TypeOK'
  BY <1>5 DEF TypeOK, Restart, FailInFlight, Status
<1>6. CASE UNCHANGED vars
  BY <1>6 DEF TypeOK, vars
<1> QED
  BY <1>1, <1>2, <1>3, <1>4, <1>5, <1>6 DEF Next

\* The rows and the coroutines always have the types the code relies on.
THEOREM TypeCorrect == Spec => []TypeOK
  BY InitType, NextType, PTL DEF Spec
-----------------------------------------------------------------------------
(* A CR in flight has an owner.                                            *)

\* Only an exception that nobody catches loses a workflow.
LEMMA LostTaskStep ==
  ASSUME NEW t \in Tasks, TaskStep(t)
  PROVE  HookRaise(t) \/ AutoRollbackRaise(t) \/ lost' = lost
<1>1. CASE Start(t) \/ CancelCommit(t)
  BY <1>1 DEF Start, CancelCommit
<1>2. CASE WorkflowStep(t)
  BY <1>2 DEF WorkflowStep, Load, Begin, PreflightPass, PreflightFail, ExecuteOk, ExecuteFail,
     FailRun, VerifyPass, VerifyFail, LoadCompletion, ReadSequence, Complete, CompleteRun,
     AutoRollback, AutoRollbackRun
<1>3. CASE RollbackStep(t)
  BY <1>3 DEF RollbackStep, RollbackStart, RollbackExec, RollbackRaise, RollbackRun,
     McpRollbackExec, RollbackAllMark, RollbackAllExec, RollbackAllForce, RollbackAllRaise
<1> QED
  BY <1>1, <1>2, <1>3 DEF TaskStep

LEMMA LostChanges ==
  ASSUME [Next]_vars
  PROVE  (\E t \in Tasks : HookRaise(t) \/ AutoRollbackRaise(t)) \/ lost' = lost
<1>1. ASSUME NEW t \in Tasks, NEW p \in Procs, Request(t, p) PROVE lost' = lost
  BY <1>1 DEF Request, ExecuteCheck, CancelCheck, RollbackCheck, McpRollbackCheck,
     RollbackAllSelect
<1>2. CASE CleanupStuck \/ \E p \in Procs : Crash(p) \/ Restart(p)
  BY <1>2 DEF CleanupStuck, Crash, Restart
<1>3. CASE UNCHANGED vars
  BY <1>3 DEF vars
<1> QED
  BY <1>1, <1>2, <1>3, LostTaskStep DEF Next

\* ... and what is lost stays lost.
LEMMA LostGrows ==
  ASSUME NEW t \in Tasks, TaskStep(t) PROVE lost \subseteq lost'
  BY LostTaskStep DEF HookRaise, AutoRollbackRaise, Vanish

\* A step of one coroutine keeps InFlightHasOwner when each CR that is then in
\* flight is owned by that coroutine afterwards, or was in flight and not
\* owned by it before.
LEMMA OwnerKept ==
  ASSUME TypeOK, InFlightHasOwner, NEW t \in Tasks, NEW r, Become(t, r), up' = up,
         lost \subseteq lost',
         \A c \in CRs \ lost' : status'[c] \in InFlight =>
           \/ r.cr = c /\ Owns(r)
           \/ status[c] \in InFlight /\ ~(task[t].cr = c /\ Owns(task[t]))
  PROVE  InFlightHasOwner'
<1> SUFFICES ASSUME NEW c \in CRs \ lost', status'[c] \in InFlight,
                    \A p \in Procs : up[p]
             PROVE  \E u \in Tasks : task'[u].cr = c /\ Owns(task'[u])
  BY DEF InFlightHasOwner
<1>1. task'[t] = r /\ \A u \in Tasks : u # t => task'[u] = task[u]
  BY DEF TypeOK, Become
<1>2. CASE r.cr = c /\ Owns(r)
  BY <1>1, <1>2
<1>3. CASE status[c] \in InFlight /\ ~(task[t].cr = c /\ Owns(task[t]))
  <2>1. PICK u \in Tasks : task[u].cr = c /\ Owns(task[u])
    BY <1>3 DEF InFlightHasOwner
  <2>2. u # t
    BY <2>1, <1>3
  <2> QED
    BY <1>1, <2>1, <2>2
<1> QED
  BY <1>2, <1>3

\* The fields that a move or an end of a coroutine leaves.
LEMMA GotoFields ==
  ASSUME TypeOK, NEW t \in Tasks, NEW loc
  PROVE  LET r == [task[t] EXCEPT !.pc = loc] IN
         /\ r.pc = loc /\ r.cr = task[t].cr /\ r.saw = task[t].saw
         /\ r.run = task[t].run /\ r.stamp = task[t].stamp /\ r.todo = task[t].todo
  BY DEF TypeOK, TaskType

\* A coroutine's step leaves no CR in flight without an owner.
LEMMA TaskStepOwner ==
  ASSUME TypeOK, InFlightHasOwner, NEW t \in Tasks, TaskStep(t)
  PROVE  InFlightHasOwner'
<1> DEFINE c0 == task[t].cr
           G(loc) == [task[t] EXCEPT !.pc = loc]
           Kept(r) == \A c \in CRs \ lost' : status'[c] \in InFlight =>
                        \/ r.cr = c /\ Owns(r)
                        \/ status[c] \in InFlight /\ ~(c0 = c /\ Owns(task[t]))
<1> USE DEF At
<1>t. status \in [CRs -> Status] /\ task[t] \in TaskType /\ Idle.pc = "idle"
  BY IdleType DEF TypeOK
<1>l. lost \subseteq lost'
  BY LostGrows
<1>1. CASE Start(t)
  <2>1. Kept(G("load"))
    BY <1>1, <1>t, GotoFields DEF Start, Owns, Owning, InFlight
  <2> QED
    BY <1>1, <2>1, OwnerKept DEF Start, Goto
<1>2. CASE CancelCommit(t)
  <2>1. Kept(Idle)
    BY <1>2, <1>t DEF CancelCommit, Owns, Owning, InFlight, SetStatus
  <2> QED
    BY <1>2, <2>1, OwnerKept DEF CancelCommit, Finish
<1>3. CASE Load(t)
  <2>1. PICK i \in 1..nruns : Become(t, [task[t] EXCEPT !.pc = "begin", !.run = i])
    BY <1>3 DEF Load
  <2>2. Kept([task[t] EXCEPT !.pc = "begin", !.run = i])
    BY <1>3, <1>t DEF Load, TaskType, Owns, Owning
  <2> QED
    BY <1>3, <2>1, <2>2, OwnerKept DEF Load
<1>4. CASE Begin(t)
  <2>1. Kept(G("preflight"))
    BY <1>4, <1>t, GotoFields DEF Begin, Owns, Owning, InFlight, SetStatus
  <2> QED
    BY <1>4, <2>1, OwnerKept DEF Begin, Goto
<1>5. CASE PreflightPass(t)
  <2>1. Kept(G("execute"))
    BY <1>5, <1>t, GotoFields DEF PreflightPass, Owns, Owning, InFlight
  <2> QED
    BY <1>5, <2>1, OwnerKept DEF PreflightPass, Goto
<1>6. CASE PreflightFail(t)
  <2>1. Kept(G("failrun"))
    BY <1>6, <1>t, GotoFields DEF PreflightFail, Owns, Owning, InFlight, SetStatus
  <2> QED
    BY <1>6, <2>1, OwnerKept DEF PreflightFail, Goto
<1>7. CASE ExecuteOk(t)
  <2>1. CASE Goto(t, "stamp") /\ UNCHANGED status
    <3>1. Kept(G("stamp"))
      BY <1>7, <1>t, <2>1, GotoFields DEF Owns, Owning
    <3> QED
      BY <1>7, <2>1, <3>1, OwnerKept DEF ExecuteOk, Goto
  <2>2. CASE Goto(t, "verify") /\ SetStatus(c0, "verifying")
    <3>1. Kept(G("verify"))
      BY <1>7, <1>t, <2>2, GotoFields DEF Owns, Owning, SetStatus
    <3> QED
      BY <1>7, <2>2, <3>1, OwnerKept DEF ExecuteOk, Goto
  <2> QED
    BY <1>7, <2>1, <2>2 DEF ExecuteOk
<1>8. CASE ExecuteFail(t)
  <2>1. Kept(G("failrun"))
    BY <1>8, <1>t, GotoFields DEF ExecuteFail, Owns, Owning, InFlight, SetStatus
  <2> QED
    BY <1>8, <2>1, OwnerKept DEF ExecuteFail, Goto
<1>9. CASE HookRaise(t)
  <2>1. Kept(Idle)
    BY <1>9, <1>t DEF HookRaise, Vanish, Owns, Owning, InFlight
  <2> QED
    BY <1>9, <1>l, <2>1, OwnerKept DEF HookRaise, Vanish, Finish
<1>10. CASE FailRun(t)
  <2>1. Kept(Idle)
    BY <1>10, <1>t DEF FailRun, Owns, Owning, InFlight
  <2> QED
    BY <1>10, <2>1, OwnerKept DEF FailRun, Finish
<1>11. CASE VerifyPass(t)
  <2>1. Kept(G("stamp"))
    BY <1>11, <1>t, GotoFields DEF VerifyPass, Owns, Owning, InFlight
  <2> QED
    BY <1>11, <2>1, OwnerKept DEF VerifyPass, Goto
<1>12. CASE VerifyFail(t)
  <2>1. Kept(G("autorollback"))
    BY <1>12, <1>t, GotoFields DEF VerifyFail, Owns, Owning, InFlight
  <2> QED
    BY <1>12, <2>1, OwnerKept DEF VerifyFail, Goto
<1>13. CASE ReadSequence(t)
  <2>1. PICK n : Become(t, [task[t] EXCEPT !.pc = "complete", !.stamp = n])
    BY <1>13 DEF ReadSequence
  <2>2. Kept([task[t] EXCEPT !.pc = "complete", !.stamp = n])
    BY <1>13, <1>t DEF ReadSequence, Owns, Owning, TaskType
  <2> QED
    BY <1>13, <2>1, <2>2, OwnerKept DEF ReadSequence
<1>14. CASE Complete(t)
  <2> DEFINE r == [task[t] EXCEPT !.pc = "completerun", !.stamp = 0, !.saw = "approved"]
  <2>1. Kept(r)
    BY <1>14, <1>t DEF Complete, Owns, Owning, InFlight, SetStatus, TaskType
  <2> QED
    BY <1>14, <2>1, OwnerKept DEF Complete
<1>15. CASE CompleteRun(t)
  <2>1. Kept(Idle)
    BY <1>15, <1>t DEF CompleteRun, Owns, Owning, InFlight
  <2> QED
    BY <1>15, <2>1, OwnerKept DEF CompleteRun, Finish
<1>16. CASE AutoRollback(t)
  <2>1. PICK o \in RollbackOutcome : /\ SetStatus(c0, o)
                                    /\ Become(t, [task[t] EXCEPT !.pc = "autorollbackrun",
                                                                 !.saw = o])
    BY <1>16, ResultsAreOutcomes DEF AutoRollback
  <2>2. Kept([task[t] EXCEPT !.pc = "autorollbackrun", !.saw = o])
    BY <1>t, <2>1 DEF Owns, Owning, InFlight, SetStatus, RollbackOutcome, TaskType
  <2> QED
    BY <1>16, <2>1, <2>2, OwnerKept DEF AutoRollback
<1>17. CASE AutoRollbackRaise(t)
  <2>1. Kept(Idle)
    BY <1>17, <1>t DEF AutoRollbackRaise, Vanish, Owns, Owning, InFlight
  <2> QED
    BY <1>17, <1>l, <2>1, OwnerKept DEF AutoRollbackRaise, Vanish, Finish
<1>18. CASE AutoRollbackRun(t)
  <2>1. Kept(Idle)
    BY <1>18, <1>t DEF AutoRollbackRun, Owns, Owning, InFlight
  <2> QED
    BY <1>18, <2>1, OwnerKept DEF AutoRollbackRun, Finish
<1>19. CASE RollbackStart(t)
  <2> DEFINE r == [task[t] EXCEPT !.pc = "rbexec", !.run = nruns + 1]
  <2>1. Kept(r)
    BY <1>19, <1>t DEF RollbackStart, Owns, Owning, InFlight, SetStatus, TaskType
  <2> QED
    BY <1>19, <2>1, OwnerKept DEF RollbackStart
<1>20. CASE RollbackExec(t)
  <2>1. Kept(G("rbrun"))
    BY <1>20, <1>t, GotoFields, ResultsAreOutcomes DEF RollbackExec, Owns, Owning, InFlight, SetStatus, RollbackOutcome
  <2> QED
    BY <1>20, <2>1, OwnerKept DEF RollbackExec, Goto
<1>21. CASE RollbackRaise(t)
  <2>1. Kept(Idle)
    BY <1>21, <1>t DEF RollbackRaise, Owns, Owning, InFlight, SetStatus
  <2> QED
    BY <1>21, <2>1, OwnerKept DEF RollbackRaise, Finish
<1>22. CASE RollbackRun(t)
  <2>1. Kept(Idle)
    BY <1>22, <1>t DEF RollbackRun, Owns, Owning, InFlight
  <2> QED
    BY <1>22, <2>1, OwnerKept DEF RollbackRun, Finish
<1>23. CASE McpRollbackExec(t)
  <2>1. Kept(Idle)
    BY <1>23, <1>t, ResultsAreOutcomes DEF McpRollbackExec, Owns, Owning, InFlight, SetStatus, RollbackOutcome
  <2> QED
    BY <1>23, <2>1, OwnerKept DEF McpRollbackExec, Finish
<1>24. CASE RollbackAllMark(t)
  <2>1. PICK c \in CRs : /\ SetStatus(c, "executing")
                        /\ Become(t, [task[t] EXCEPT !.pc = "rallexec", !.cr = c,
                                                     !.todo[c] = 0])
    BY <1>24 DEF RollbackAllMark
  <2>2. Kept([task[t] EXCEPT !.pc = "rallexec", !.cr = c, !.todo[c] = 0])
    BY <1>24, <1>t, <2>1 DEF RollbackAllMark, Owns, Owning, InFlight, SetStatus, TaskType
  <2> QED
    BY <1>24, <2>1, <2>2, OwnerKept DEF RollbackAllMark
<1>25. CASE RollbackAllExec(t)
  <2>1. Kept(G("rallforce"))
    BY <1>25, <1>t, GotoFields DEF RollbackAllExec, Owns, Owning, InFlight, SetStatus, RollbackOutcome
  <2> QED
    BY <1>25, <2>1, OwnerKept DEF RollbackAllExec, Goto
<1>26. CASE RollbackAllForce(t)
  <2> DEFINE r == [task[t] EXCEPT !.pc = "rallnext", !.cr = NoCR]
  <2>1. Kept(r) /\ Kept(Idle)
    BY <1>26, <1>t DEF RollbackAllForce, Owns, Owning, InFlight, SetStatus, TaskType
  <2> QED
    BY <1>26, <2>1, OwnerKept DEF RollbackAllForce, Finish
<1>27. CASE RollbackAllRaise(t)
  <2>1. Kept(Idle)
    BY <1>27, <1>t DEF RollbackAllRaise, Owns, Owning, InFlight, SetStatus
  <2> QED
    BY <1>27, <2>1, OwnerKept DEF RollbackAllRaise, Finish
<1>28. CASE LoadCompletion(t)
  <2> DEFINE r(loc) == [task[t] EXCEPT !.pc = loc, !.saw = status[c0]]
  <2>1. \A loc \in {"readmax", "complete"} : Kept(r(loc))
    BY <1>28, <1>t DEF LoadCompletion, Owns, Owning, InFlight, TaskType
  <2> QED
    BY <1>28, <2>1, OwnerKept DEF LoadCompletion
<1> QED
  BY <1>1, <1>2, <1>3, <1>4, <1>5, <1>6, <1>7, <1>8, <1>9, <1>10, <1>11, <1>12, <1>13, <1>14,
     <1>15, <1>16, <1>17, <1>18, <1>19, <1>20, <1>21, <1>22, <1>23, <1>24, <1>25, <1>26, <1>27, <1>28
  DEF TaskStep, WorkflowStep, RollbackStep

\* A request occupies a free slot, which owned nothing.
LEMMA RequestOwner ==
  ASSUME TypeOK, InFlightHasOwner, NEW t \in Tasks, NEW p \in Procs, Request(t, p)
  PROVE  InFlightHasOwner'
<1>1. ~Owns(task[t]) /\ UNCHANGED <<status, up, lost>> /\ \E r : Become(t, r)
  BY DEF Request, ExecuteCheck, CancelCheck, RollbackCheck, McpRollbackCheck, Spawn,
         RollbackAllSelect, At, Owns, Owning
<1> QED
  BY <1>1, OwnerKept

\* Every step keeps every CR in flight owned.
LEMMA NextOwner == TypeOK /\ InFlightHasOwner /\ [Next]_vars => InFlightHasOwner'
<1> SUFFICES ASSUME TypeOK, InFlightHasOwner, [Next]_vars PROVE InFlightHasOwner'
  OBVIOUS
<1>1. ASSUME NEW t \in Tasks, TaskStep(t) PROVE InFlightHasOwner'
  BY <1>1, TaskStepOwner
<1>2. ASSUME NEW t \in Tasks, NEW p \in Procs, Request(t, p) PROVE InFlightHasOwner'
  BY <1>2, RequestOwner
<1>3. ASSUME FailInFlight PROVE InFlightHasOwner'
  BY <1>3 DEF InFlightHasOwner, FailInFlight, InFlight
<1>4. ASSUME NEW p \in Procs, Crash(p) PROVE InFlightHasOwner'
  <2>1. ~up'[p]
    BY <1>4 DEF TypeOK, Crash
  <2> QED
    BY <2>1 DEF InFlightHasOwner
<1>5. CASE UNCHANGED vars
  BY <1>5 DEF InFlightHasOwner, vars
<1> QED
  BY <1>1, <1>2, <1>3, <1>4, <1>5 DEF Next, CleanupStuck, Restart

\* A CR that shows executing or verifying always has a coroutine that will
\* settle it, or a dead process whose restart will, unless an exception that no
\* workflow guards lost one of its workflows.
THEOREM InFlightOwned == Spec => []InFlightHasOwner
<1>1. Init => InFlightHasOwner
  BY DEF Init, InFlightHasOwner, InFlight
<1> QED
  BY <1>1, NextOwner, TypeCorrect, PTL DEF Spec
-----------------------------------------------------------------------------
(* The rollback stack.                                                     *)

\* Only a coroutine that is about to commit a completion carries a stamp.
StampOnlyAtComplete == \A t \in Tasks : ~At(t, "complete") => task[t].stamp = 0

\* The stamp that a coroutine is about to commit is above its whole stack.
StampAbove ==
  \A t \in Tasks : (At(t, "complete") /\ task[t].stamp # 0) =>
    \A d \in Peers(task[t].cr) : seq[d] < task[t].stamp

\* No two coroutines are about to commit to the same stack.
NoOverlap ==
  \A t, u \in Tasks :
    (At(t, "complete") /\ At(u, "complete") /\ task[t].stamp # 0 /\ task[u].stamp # 0) =>
      task[u].cr \notin Peers(task[t].cr)

\* SeqDistinct is not inductive: what is read must still be true when it is
\* committed.
StackInv == StampOnlyAtComplete /\ (~raced => StampAbove /\ NoOverlap /\ SeqDistinct)

\* Sharing an asset is symmetric.
LEMMA PeersSymmetric ==
  ASSUME NEW c \in CRs, NEW d \in CRs, d \in Peers(c) PROVE c \in Peers(d)
  BY DEF Peers

\* A step after which the coroutine that takes it carries no stamp, and which
\* leaves the sequences, keeps the stack.
LEMMA StackKept ==
  ASSUME TypeOK, StackInv, NEW t \in Tasks, NEW r, Become(t, r),
         r.stamp = 0, UNCHANGED <<seq, raced>>
  PROVE  StackInv'
<1>1. task'[t] = r /\ \A u \in Tasks : u # t => task'[u] = task[u]
  BY DEF TypeOK, Become
<1>2. StampOnlyAtComplete'
  BY <1>1 DEF StackInv, StampOnlyAtComplete, At
<1>3. ASSUME ~raced PROVE StampAbove' /\ NoOverlap' /\ SeqDistinct'
  <2>1. StampAbove'
    BY <1>1, <1>3 DEF StackInv, StampAbove, At, Peers
  <2>2. NoOverlap'
    BY <1>1, <1>3 DEF StackInv, NoOverlap, At, Peers
  <2>3. SeqDistinct'
    BY <1>3 DEF StackInv, SeqDistinct, Peers
  <2> QED
    BY <2>1, <2>2, <2>3
<1> QED
  BY <1>2, <1>3 DEF StackInv

\* The steps that neither read nor write a sequence.
OffStack(t) ==
  \/ Start(t) \/ CancelCommit(t) \/ Load(t) \/ Begin(t) \/ PreflightPass(t)
  \/ PreflightFail(t) \/ ExecuteOk(t) \/ ExecuteFail(t) \/ HookRaise(t)
  \/ FailRun(t) \/ VerifyPass(t) \/ VerifyFail(t) \/ CompleteRun(t)
  \/ AutoRollback(t) \/ AutoRollbackRaise(t) \/ AutoRollbackRun(t)
  \/ RollbackStart(t) \/ RollbackExec(t) \/ RollbackRaise(t) \/ RollbackRun(t)
  \/ McpRollbackExec(t) \/ RollbackAllMark(t) \/ RollbackAllExec(t)
  \/ RollbackAllRaise(t) \/ LoadCompletion(t)

LEMMA OffStackStep ==
  ASSUME TypeOK, StackInv, NEW t \in Tasks, OffStack(t)
  PROVE  StackInv'
<1> USE DEF At
<1>t. /\ task[t] \in TaskType
      /\ Idle.pc = "idle" /\ Idle.stamp = 0
      /\ ~At(t, "complete") => task[t].stamp = 0
  BY IdleType DEF TypeOK, StackInv, StampOnlyAtComplete
<1>1. ASSUME NEW loc \in PC, Goto(t, loc), ~At(t, "complete"), UNCHANGED <<seq, raced>>
      PROVE  StackInv'
  <2> DEFINE r == [task[t] EXCEPT !.pc = loc]
  <2>1. r.stamp = 0 /\ Become(t, r)
    BY <1>1, <1>t DEF Goto, TaskType
  <2> QED
    BY <1>1, <2>1, StackKept
<1>2. ASSUME Finish(t), UNCHANGED <<seq, raced>> PROVE StackInv'
  BY <1>2, <1>t, StackKept DEF Finish
<1>3. CASE Start(t)
  BY <1>3, <1>1 DEF Start, PC
<1>4. CASE CancelCommit(t)
  BY <1>4, <1>2 DEF CancelCommit
<1>5. CASE Load(t)
  <2>1. PICK i \in 1..nruns : Become(t, [task[t] EXCEPT !.pc = "begin", !.run = i])
    BY <1>5 DEF Load
  <2> DEFINE r == [task[t] EXCEPT !.pc = "begin", !.run = i]
  <2>2. r.stamp = 0
    BY <1>5, <1>t DEF Load, TaskType
  <2> QED
    BY <1>5, <2>1, <2>2, StackKept DEF Load
<1>6. CASE Begin(t)
  BY <1>6, <1>1 DEF Begin, PC
<1>7. CASE PreflightPass(t)
  BY <1>7, <1>1 DEF PreflightPass, PC
<1>8. CASE PreflightFail(t)
  BY <1>8, <1>1 DEF PreflightFail, PC
<1>9. CASE ExecuteOk(t)
  BY <1>9, <1>1 DEF ExecuteOk, PC
<1>10. CASE ExecuteFail(t)
  BY <1>10, <1>1 DEF ExecuteFail, PC
<1>11. CASE HookRaise(t)
  BY <1>11, <1>2 DEF HookRaise, Vanish
<1>12. CASE FailRun(t)
  BY <1>12, <1>2 DEF FailRun
<1>13. CASE VerifyPass(t)
  BY <1>13, <1>1 DEF VerifyPass, PC
<1>14. CASE VerifyFail(t)
  BY <1>14, <1>1 DEF VerifyFail, PC
<1>15. CASE CompleteRun(t)
  BY <1>15, <1>2 DEF CompleteRun
<1>16. CASE AutoRollback(t)
  <2>1. PICK o \in RollbackOutcome :
          Become(t, [task[t] EXCEPT !.pc = "autorollbackrun", !.saw = o])
    BY <1>16, ResultsAreOutcomes DEF AutoRollback
  <2> DEFINE r == [task[t] EXCEPT !.pc = "autorollbackrun", !.saw = o]
  <2>2. r.stamp = 0
    BY <1>16, <1>t DEF AutoRollback, TaskType
  <2> QED
    BY <1>16, <2>1, <2>2, StackKept DEF AutoRollback
<1>17. CASE AutoRollbackRaise(t)
  BY <1>17, <1>2 DEF AutoRollbackRaise, Vanish
<1>18. CASE AutoRollbackRun(t)
  BY <1>18, <1>2 DEF AutoRollbackRun
<1>19. CASE RollbackStart(t)
  <2>1. Become(t, [task[t] EXCEPT !.pc = "rbexec", !.run = nruns + 1])
    BY <1>19 DEF RollbackStart
  <2> DEFINE r == [task[t] EXCEPT !.pc = "rbexec", !.run = nruns + 1]
  <2>2. r.stamp = 0
    BY <1>19, <1>t DEF RollbackStart, TaskType
  <2> QED
    BY <1>19, <2>1, <2>2, StackKept DEF RollbackStart
<1>20. CASE RollbackExec(t)
  BY <1>20, <1>1 DEF RollbackExec, PC
<1>21. CASE RollbackRaise(t)
  BY <1>21, <1>2 DEF RollbackRaise
<1>22. CASE RollbackRun(t)
  BY <1>22, <1>2 DEF RollbackRun
<1>23. CASE McpRollbackExec(t)
  BY <1>23, <1>2 DEF McpRollbackExec
<1>24. CASE RollbackAllMark(t)
  <2>1. PICK c \in CRs :
          Become(t, [task[t] EXCEPT !.pc = "rallexec", !.cr = c, !.todo[c] = 0])
    BY <1>24 DEF RollbackAllMark
  <2> DEFINE r == [task[t] EXCEPT !.pc = "rallexec", !.cr = c, !.todo[c] = 0]
  <2>2. r.stamp = 0
    BY <1>24, <1>t DEF RollbackAllMark, TaskType
  <2> QED
    BY <1>24, <2>1, <2>2, StackKept DEF RollbackAllMark
<1>25. CASE RollbackAllExec(t)
  BY <1>25, <1>1 DEF RollbackAllExec, PC
<1>26. CASE RollbackAllRaise(t)
  BY <1>26, <1>2 DEF RollbackAllRaise
<1>27. CASE LoadCompletion(t)
  <2> DEFINE r(loc) == [task[t] EXCEPT !.pc = loc, !.saw = status[task[t].cr]]
  <2>1. \A loc \in {"readmax", "complete"} : r(loc).stamp = 0
    BY <1>27, <1>t DEF LoadCompletion, TaskType
  <2> QED
    BY <1>27, <2>1, StackKept DEF LoadCompletion
<1> QED
  BY <1>3, <1>4, <1>5, <1>6, <1>7, <1>8, <1>9, <1>10, <1>11, <1>12, <1>13, <1>14,
     <1>15, <1>16, <1>17, <1>18, <1>19, <1>20, <1>21, <1>22, <1>23, <1>24, <1>25, <1>26, <1>27
  DEF OffStack

\* Reading the maximum: nobody else is between a read and its commit, unless
\* the step records the race.
LEMMA ReadSequenceStack ==
  ASSUME TypeOK, StackInv, NEW t \in Tasks, ReadSequence(t)
  PROVE  StackInv'
<1> DEFINE c == task[t].cr
<1> USE DEF At
<1>1. c \in CRs /\ task[t] \in TaskType /\ seq \in [CRs -> Nat]
  BY DEF TypeOK, Busy, ReadSequence
<1>2. PICK n : /\ \A d \in Peers(c) : seq[d] < n
               /\ Become(t, [task[t] EXCEPT !.pc = "complete", !.stamp = n])
  BY DEF ReadSequence, TopOfStack
<1> DEFINE r == [task[t] EXCEPT !.pc = "complete", !.stamp = n]
<1>3. r.pc = "complete" /\ r.cr = c /\ r.stamp = n
  BY <1>1 DEF TaskType
<1>4. task'[t] = r /\ \A u \in Tasks : u # t => task'[u] = task[u]
  BY <1>2 DEF TypeOK, Become
<1> HIDE DEF r
<1>5. StampOnlyAtComplete'
  BY <1>3, <1>4 DEF StackInv, StampOnlyAtComplete
<1>6. ASSUME ~raced' PROVE StampAbove' /\ NoOverlap' /\ SeqDistinct'
  <2>1. ~raced /\ seq' = seq
    BY <1>6 DEF ReadSequence
  <2>2. \A u \in Tasks : (At(u, "complete") /\ task[u].stamp # 0) =>
                            task[u].cr \notin Peers(c)
    BY <1>6 DEF ReadSequence, Locked
  <2>3. StampAbove'
    BY <1>2, <1>3, <1>4, <2>1 DEF StackInv, StampAbove, Peers
  <2>4. NoOverlap'
    <3> SUFFICES ASSUME NEW u \in Tasks, NEW v \in Tasks,
                        task'[u].pc = "complete", task'[v].pc = "complete",
                        task'[u].stamp # 0, task'[v].stamp # 0
                 PROVE  task'[v].cr \notin Peers(task'[u].cr)
      BY DEF NoOverlap, Peers
    <3>1. CASE u = t /\ v = t
      BY <1>3, <1>4, <3>1 DEF Peers
    <3>2. CASE u = t /\ v # t
      BY <1>3, <1>4, <2>2, <3>2
    <3>3. CASE u # t /\ v = t
      <4>1. task[u].cr \notin Peers(c) /\ task'[u] = task[u] /\ task'[v].cr = c
        BY <1>3, <1>4, <2>2, <3>3
      <4>2. task[u].cr \in CRs
        BY <1>4, <3>3 DEF TypeOK, Busy
      <4> QED
        BY <4>1, <4>2, <1>1, PeersSymmetric
    <3>4. CASE u # t /\ v # t
      BY <1>4, <2>1, <3>4 DEF StackInv, NoOverlap
    <3> QED
      BY <3>1, <3>2, <3>3, <3>4
  <2>5. SeqDistinct'
    BY <2>1 DEF StackInv, SeqDistinct, Peers
  <2> QED
    BY <2>3, <2>4, <2>5
<1> QED
  BY <1>5, <1>6 DEF StackInv

\* Committing the completion pushes the CR on top.
LEMMA CompleteStack ==
  ASSUME TypeOK, StackInv, NEW t \in Tasks, Complete(t)
  PROVE  StackInv'
<1> DEFINE c == task[t].cr
           r == [task[t] EXCEPT !.pc = "completerun", !.stamp = 0, !.saw = "approved"]
<1> USE DEF At
<1>1. c \in CRs /\ task[t] \in TaskType /\ seq \in [CRs -> Nat]
  BY DEF TypeOK, Busy, Complete
<1>2. r.pc = "completerun" /\ r.stamp = 0
  BY <1>1 DEF TaskType
<1>3. task'[t] = r /\ \A u \in Tasks : u # t => task'[u] = task[u]
  BY DEF TypeOK, Become, Complete
<1>4. CASE task[t].stamp = 0
  BY <1>2, <1>4, StackKept DEF Complete
<1>5. CASE task[t].stamp # 0
  <2>1. seq' = [seq EXCEPT ![c] = task[t].stamp] /\ raced' = raced
    BY <1>5 DEF Complete
  <2>2. StampOnlyAtComplete'
    BY <1>2, <1>3 DEF StackInv, StampOnlyAtComplete
  <2>3. ASSUME ~raced PROVE StampAbove' /\ NoOverlap' /\ SeqDistinct'
    <3>1. \A d \in Peers(c) : seq[d] < task[t].stamp
      BY <1>5, <2>3 DEF StackInv, StampAbove, Complete
    <3>2. StampAbove'
      <4> SUFFICES ASSUME NEW u \in Tasks, task'[u].pc = "complete", task'[u].stamp # 0,
                          NEW d \in Peers(task'[u].cr)
                   PROVE  seq'[d] < task'[u].stamp
        BY DEF StampAbove, Peers
      <4>1. u # t /\ task'[u] = task[u]
        BY <1>2, <1>3
      <4>2. task[u].cr \in CRs /\ d \in CRs
        BY <4>1 DEF TypeOK, Busy, Peers
      <4>3. d # c
        <5>1. c \notin Peers(task[u].cr)
          BY <4>1, <1>5, <2>3 DEF StackInv, NoOverlap, Complete
        <5> QED
          BY <4>1, <5>1
      <4> QED
        BY <4>1, <4>2, <4>3, <2>1, <2>3 DEF StackInv, StampAbove
    <3>3. NoOverlap'
      <4>1. \A u \in Tasks : task'[u].stamp # 0 => u # t /\ task'[u] = task[u]
        BY <1>2, <1>3
      <4> QED
        BY <4>1, <2>3 DEF StackInv, NoOverlap, Peers
    <3>4. SeqDistinct'
      <4> SUFFICES ASSUME NEW e \in CRs, NEW d \in Peers(e), seq'[e] # 0
                   PROVE  seq'[e] # seq'[d]
        BY DEF SeqDistinct, Peers
      <4>1. d \in CRs /\ d # e /\ e \in Peers(d)
        BY PeersSymmetric DEF Peers
      <4>2. CASE e = c
        BY <4>1, <4>2, <2>1, <3>1, <1>1 DEF TaskType
      <4>3. CASE d = c
        BY <4>1, <4>3, <2>1, <3>1, <1>1 DEF TaskType
      <4>4. CASE e # c /\ d # c
        BY <4>1, <4>4, <2>1, <2>3, <1>1 DEF StackInv, SeqDistinct
      <4> QED
        BY <4>2, <4>3, <4>4
    <3> QED
      BY <3>2, <3>3, <3>4
  <2> QED
    BY <2>1, <2>2, <2>3 DEF StackInv
<1> QED
  BY <1>4, <1>5

\* Rollback-all pops a CR.
LEMMA ForceStack ==
  ASSUME TypeOK, StackInv, NEW t \in Tasks, RollbackAllForce(t)
  PROVE  StackInv'
<1> DEFINE c == task[t].cr
<1> USE DEF At
<1>1. /\ c \in CRs /\ task[t] \in TaskType /\ seq \in [CRs -> Nat] /\ task[t].stamp = 0
      /\ Idle.pc = "idle" /\ Idle.stamp = 0
  BY IdleType DEF TypeOK, Busy, RollbackAllForce, StackInv, StampOnlyAtComplete
<1>2. PICK r : Become(t, r) /\ r.stamp = 0
  <2> DEFINE next == [task[t] EXCEPT !.pc = "rallnext", !.cr = NoCR]
  <2>1. next.pc # "complete" /\ next.stamp = 0
    BY <1>1 DEF TaskType
  <2>2. Become(t, next) \/ Become(t, Idle)
    BY DEF RollbackAllForce, Finish
  <2> HIDE DEF next
  <2> QED
    BY <1>1, <2>1, <2>2
<1>3. task'[t] = r /\ \A u \in Tasks : u # t => task'[u] = task[u]
  BY <1>2 DEF TypeOK, Become
<1>4. seq' = [seq EXCEPT ![c] = 0] /\ raced' = raced
  BY DEF RollbackAllForce
<1>5. StampOnlyAtComplete'
  BY <1>2, <1>3 DEF StackInv, StampOnlyAtComplete
<1>6. ASSUME ~raced PROVE StampAbove' /\ NoOverlap' /\ SeqDistinct'
  <2>1. StampAbove'
    <3> SUFFICES ASSUME NEW u \in Tasks, task'[u].pc = "complete", task'[u].stamp # 0,
                        NEW d \in Peers(task'[u].cr)
                 PROVE  seq'[d] < task'[u].stamp
      BY DEF StampAbove, Peers
    <3>1. task'[u] = task[u] /\ task[u].stamp \in Nat /\ d \in CRs
      BY <1>2, <1>3 DEF TypeOK, TaskType, Peers
    <3> QED
      BY <3>1, <1>1, <1>4, <1>6 DEF StackInv, StampAbove
  <2>2. NoOverlap'
    BY <1>2, <1>3, <1>6 DEF StackInv, NoOverlap, Peers
  <2>3. SeqDistinct'
    BY <1>1, <1>4, <1>6 DEF StackInv, SeqDistinct, Peers
  <2> QED
    BY <2>1, <2>2, <2>3
<1> QED
  BY <1>4, <1>5, <1>6 DEF StackInv

\* Every step keeps the stack.
LEMMA NextStack == TypeOK /\ StackInv /\ [Next]_vars => StackInv'
<1> SUFFICES ASSUME TypeOK, StackInv, [Next]_vars PROVE StackInv'
  OBVIOUS
<1>1. ASSUME NEW t \in Tasks, TaskStep(t) PROVE StackInv'
  BY <1>1, OffStackStep, ReadSequenceStack, CompleteStack, ForceStack
  DEF TaskStep, WorkflowStep, RollbackStep, OffStack
<1>2. ASSUME NEW t \in Tasks, NEW p \in Procs, Request(t, p) PROVE StackInv'
  <2>1. UNCHANGED <<seq, raced>>
    BY <1>2 DEF Request, ExecuteCheck, CancelCheck, RollbackCheck, McpRollbackCheck,
                RollbackAllSelect
  <2>2. ASSUME NEW c \in CRs, NEW loc \in PC \ {"complete"}, Spawn(t, p, c, loc)
        PROVE  StackInv'
    <3> DEFINE r == [Idle EXCEPT !.pc = loc, !.cr = c, !.proc = p]
    <3>1. r.stamp = 0 /\ Become(t, r)
      BY <2>2, IdleType DEF Spawn, TaskType
    <3> QED
      BY <2>1, <3>1, StackKept
  <2>3. ASSUME NEW a \in Assets, RollbackAllSelect(t, p, a) PROVE StackInv'
    <3>1. PICK todo : Become(t, [Idle EXCEPT !.pc = "rallnext", !.proc = p, !.todo = todo])
      BY <2>3 DEF RollbackAllSelect
    <3> DEFINE r == [Idle EXCEPT !.pc = "rallnext", !.proc = p, !.todo = todo]
    <3>2. r.stamp = 0
      BY IdleType DEF TaskType
    <3> QED
      BY <2>1, <3>1, <3>2, StackKept
  <2> QED
    BY <1>2, <2>2, <2>3 DEF Request, ExecuteCheck, CancelCheck, RollbackCheck,
                            McpRollbackCheck, PC
<1>3. CASE UNCHANGED <<task, seq, raced>>
  BY <1>3 DEF StackInv, StampOnlyAtComplete, StampAbove, NoOverlap, SeqDistinct, At, Peers
<1>4. ASSUME NEW p \in Procs, Crash(p) PROVE StackInv'
  <2>1. \A u \in Tasks : task'[u] = task[u] \/ (task'[u].pc = "idle" /\ task'[u].stamp = 0)
    BY <1>4, IdleType DEF Crash
  <2>2. UNCHANGED <<seq, raced>>
    BY <1>4 DEF Crash
  <2>3. StampOnlyAtComplete'
    BY <2>1 DEF StackInv, StampOnlyAtComplete, At
  <2>4. ASSUME ~raced PROVE StampAbove' /\ NoOverlap' /\ SeqDistinct'
    <3>1. StampAbove'
      BY <2>1, <2>2, <2>4 DEF StackInv, StampAbove, At, Peers
    <3>2. NoOverlap'
      BY <2>1, <2>4 DEF StackInv, NoOverlap, At, Peers
    <3>3. SeqDistinct'
      BY <2>2, <2>4 DEF StackInv, SeqDistinct, Peers
    <3> QED
      BY <3>1, <3>2, <3>3
  <2> QED
    BY <2>2, <2>3, <2>4 DEF StackInv
<1> QED
  BY <1>1, <1>2, <1>3, <1>4 DEF Next, CleanupStuck, Restart, vars

LEMMA StackInvariant == Spec => []StackInv
<1>1. Init => StackInv
  BY IdleType DEF Init, StackInv, StampOnlyAtComplete, StampAbove, NoOverlap, SeqDistinct, At, Peers
<1> QED
  BY <1>1, NextStack, TypeCorrect, PTL DEF Spec

\* CRs that share an asset have different positions on its stack, as long as
\* no two completions on it overlapped.
THEOREM StackPositionsDistinct == Spec => []SeqDistinct
<1>1. StackInv => SeqDistinct
  BY DEF StackInv, SeqDistinct
<1> QED
  BY <1>1, StackInvariant, PTL

\* A change is pushed on top of everything that is applied to its assets, as
\* long as no two completions overlapped.
THEOREM PushedOnTop == Spec => StampOnTop
<1> DEFINE OnTop == ~raced => \A c \in CRs :
              (seq[c] = 0 /\ seq'[c] # 0) => \A d \in Peers(c) : seq[d] < seq'[c]
<1>1. TypeOK /\ StackInv /\ [Next]_vars => [OnTop]_vars
  <2> SUFFICES ASSUME TypeOK, StackInv, Next, ~raced, NEW c \in CRs,
                      seq[c] = 0, seq'[c] # 0, NEW d \in Peers(c)
               PROVE  seq[d] < seq'[c]
    BY Zenon DEF OnTop
  <2>1. seq' # seq
    OBVIOUS
  <2>2. PICK t \in Tasks : Complete(t) \/ RollbackAllForce(t)
    BY <2>1, ZenonT(30) DEF Next, TaskStep, WorkflowStep, RollbackStep, Request, CleanupStuck, Crash,
       Restart, Start, CancelCommit, Load, Begin, PreflightPass, PreflightFail, ExecuteOk,
       ExecuteFail, HookRaise, Vanish, FailRun, VerifyPass, VerifyFail, LoadCompletion, ReadSequence,
       CompleteRun,
       AutoRollback, AutoRollbackRaise, AutoRollbackRun, RollbackStart, RollbackExec,
       RollbackRaise, RollbackRun, McpRollbackExec, RollbackAllMark, RollbackAllExec,
       RollbackAllRaise, ExecuteCheck, CancelCheck, RollbackCheck, McpRollbackCheck,
       RollbackAllSelect
  <2>3. ~RollbackAllForce(t)
    BY DEF RollbackAllForce, TypeOK
  <2>4. task[t].stamp # 0 /\ c = task[t].cr /\ seq'[c] = task[t].stamp
    BY <2>2, <2>3 DEF Complete, TypeOK
  <2> QED
    BY <2>2, <2>3, <2>4 DEF StackInv, StampAbove, Complete
<1> QED
  BY <1>1, TypeCorrect, StackInvariant, PTL DEF Spec, StampOnTop
-----------------------------------------------------------------------------
(* The life cycle that ChangeLifecycle promises.                           *)

\* Where a coroutine is that has not written to its CR, or has none.
Early == {"idle", "starting", "load", "begin", "cancel", "rallnext"}

\* A coroutine past these has a CR that is not approved any more, although the
\* check that it made is long ago: this is what makes its writes legal.
BegunInv == \A t \in Tasks : task[t].pc \notin Early => status[task[t].cr] # "approved"

\* What a step may do to the status of any CR.
StatusMoves ==
  \A c \in CRs : status'[c] # status[c] =>
    /\ status'[c] # "approved"
    /\ status[c] = "approved" => status'[c] \in {"executing", "rejected"}

\* Coroutine t goes on as r, and the rows move as they may.
Moved(t, r) == Become(t, r) /\ StatusMoves /\ (r.pc \in Early \/ status'[r.cr] # "approved")

LEMMA BegunKept ==
  ASSUME TypeOK, BegunInv, NEW t \in Tasks, NEW r, Moved(t, r)
  PROVE  BegunInv'
<1> SUFFICES ASSUME NEW u \in Tasks, task'[u].pc \notin Early
             PROVE  status'[task'[u].cr] # "approved"
  BY DEF BegunInv
<1>1. task'[t] = r /\ (u # t => task'[u] = task[u])
  BY DEF TypeOK, Moved, Become
<1>2. CASE u = t
  BY <1>1, <1>2 DEF Moved
<1>3. CASE u # t
  <2>1. task[u].cr \in CRs /\ status[task[u].cr] # "approved"
    BY <1>1, <1>3 DEF TypeOK, Busy, BegunInv, Early
  <2> QED
    BY <1>1, <1>3, <2>1 DEF Moved, StatusMoves
<1> QED
  BY <1>2, <1>3

\* A status is written to one CR.
LEMMA WriteMoves ==
  ASSUME TypeOK, NEW c \in CRs, NEW s, status' = [status EXCEPT ![c] = s],
         s # "approved", s \in {"executing", "rejected"} \/ status[c] # "approved"
  PROVE  StatusMoves /\ status'[c] # "approved"
  BY DEF TypeOK, StatusMoves

\* A coroutine's step moves the status of its CR along the life cycle.
LEMMA TaskStepBegun ==
  ASSUME TypeOK, BegunInv, NEW t \in Tasks, TaskStep(t)
  PROVE  \E r : Moved(t, r)
<1> USE DEF At, Moved
<1>t. /\ task[t] \in TaskType /\ Busy(task[t])
      /\ task[t].pc \notin Early => task[t].cr \in CRs /\ status[task[t].cr] # "approved"
  BY DEF TypeOK, BegunInv, Busy, Early
<1>i. Idle.pc \in Early
  BY IdleType DEF Early
<1>s. UNCHANGED status => StatusMoves
  BY DEF StatusMoves
<1>g. \A loc : LET r == [task[t] EXCEPT !.pc = loc] IN r.pc = loc /\ r.cr = task[t].cr
  BY GotoFields
<1>m. ASSUME NEW loc, Become(t, [task[t] EXCEPT !.pc = loc]), StatusMoves,
             status'[task[t].cr] # "approved"
      PROVE  \E r : Moved(t, r)
  <2>1. PICK r : r = [task[t] EXCEPT !.pc = loc]
    OBVIOUS
  <2>2. r.cr = task[t].cr
    BY <2>1, GotoFields
  <2>3. Moved(t, r)
    BY <1>m, <2>1, <2>2
  <2> QED
    BY <2>3
<1>1. CASE Start(t)
  BY <1>1, <1>g, <1>s DEF Start, Goto, Early
<1>2. CASE CancelCommit(t)
  <2>1. task[t].cr \in CRs
    BY <1>2, <1>t DEF CancelCommit, Busy
  <2> QED
    BY <1>2, <1>i, <2>1, WriteMoves DEF CancelCommit, SetStatus, Finish
<1>3. CASE Load(t)
  <2>1. PICK i \in 1..nruns : Become(t, [task[t] EXCEPT !.pc = "begin", !.run = i])
    BY <1>3 DEF Load
  <2>2. [task[t] EXCEPT !.pc = "begin", !.run = i].pc \in Early
    BY <1>t DEF TaskType, Early
  <2> QED
    BY <1>3, <1>s, <2>1, <2>2 DEF Load
<1>4. CASE Begin(t)
  <2>1. task[t].cr \in CRs
    BY <1>4, <1>t DEF Begin, Busy
  <2>2. StatusMoves /\ status'[task[t].cr] # "approved"
    BY <1>4, <2>1, WriteMoves DEF Begin, SetStatus
  <2> QED
    BY <1>4, <1>m, <2>2 DEF Begin, Goto
<1>5. CASE PreflightPass(t) \/ VerifyPass(t) \/ VerifyFail(t)
  <2>1. /\ task[t].pc \notin Early /\ UNCHANGED status
        /\ \E loc : Become(t, [task[t] EXCEPT !.pc = loc])
    BY <1>5 DEF PreflightPass, VerifyPass, VerifyFail, Goto, Early
  <2> QED
    BY <1>m, <1>s, <1>t, <2>1
<1>6. CASE PreflightFail(t) \/ ExecuteFail(t)
  <2>1. /\ task[t].pc \notin Early /\ SetStatus(task[t].cr, "failed")
        /\ Become(t, [task[t] EXCEPT !.pc = "failrun"])
    BY <1>6 DEF PreflightFail, ExecuteFail, Goto, Early
  <2>2. StatusMoves /\ status'[task[t].cr] # "approved"
    BY <1>t, <2>1, WriteMoves DEF SetStatus
  <2> QED
    BY <1>m, <2>1, <2>2
<1>7. CASE ExecuteOk(t)
  <2>1. task[t].pc \notin Early
    BY <1>7 DEF ExecuteOk, Early
  <2>2. CASE Goto(t, "stamp") /\ UNCHANGED status
    BY <1>m, <1>s, <1>t, <2>1, <2>2 DEF Goto
  <2>3. CASE Goto(t, "verify") /\ SetStatus(task[t].cr, "verifying")
    <3>1. StatusMoves /\ status'[task[t].cr] # "approved"
      BY <1>t, <2>1, <2>3, WriteMoves DEF SetStatus
    <3> QED
      BY <1>m, <2>3, <3>1 DEF Goto
  <2> QED
    BY <1>7, <2>2, <2>3 DEF ExecuteOk
<1>8. CASE \/ HookRaise(t) \/ FailRun(t) \/ CompleteRun(t) \/ AutoRollbackRaise(t)
           \/ AutoRollbackRun(t) \/ RollbackRun(t)
  BY <1>8, <1>i, <1>s DEF HookRaise, Vanish, FailRun, CompleteRun, AutoRollbackRaise, AutoRollbackRun,
     RollbackRun, Finish
<1>9. CASE LoadCompletion(t)
  <2>1. PICK loc : /\ Become(t, [task[t] EXCEPT !.pc = loc, !.saw = status[task[t].cr]])
                   /\ task[t].pc \notin Early /\ UNCHANGED status
    BY <1>9 DEF LoadCompletion, Early
  <2>2. [task[t] EXCEPT !.pc = loc, !.saw = status[task[t].cr]].cr = task[t].cr
    BY <1>t DEF TaskType
  <2> QED
    BY <1>s, <1>t, <2>1, <2>2
<1>10. CASE ReadSequence(t)
  <2>1. PICK n : /\ Become(t, [task[t] EXCEPT !.pc = "complete", !.stamp = n])
                 /\ task[t].pc \notin Early /\ UNCHANGED status
    BY <1>10 DEF ReadSequence, Early
  <2>2. [task[t] EXCEPT !.pc = "complete", !.stamp = n].cr = task[t].cr
    BY <1>t DEF TaskType
  <2> QED
    BY <1>s, <1>t, <2>1, <2>2
<1>11. CASE Complete(t)
  <2>1. /\ Become(t, [task[t] EXCEPT !.pc = "completerun", !.stamp = 0, !.saw = "approved"])
        /\ task[t].pc \notin Early
        /\ UNCHANGED status \/ status' = [status EXCEPT ![task[t].cr] = "completed"]
    BY <1>11 DEF Complete, Early
  <2>2. [task[t] EXCEPT !.pc = "completerun", !.stamp = 0, !.saw = "approved"].cr = task[t].cr
    BY <1>t DEF TaskType
  <2>3. StatusMoves /\ status'[task[t].cr] # "approved"
    BY <1>s, <1>t, <2>1, WriteMoves
  <2> QED
    BY <2>1, <2>2, <2>3
<1>12. CASE AutoRollback(t)
  <2>1. PICK o \in RollbackOutcome : /\ SetStatus(task[t].cr, o) /\ task[t].pc \notin Early
                                    /\ Become(t, [task[t] EXCEPT !.pc = "autorollbackrun",
                                                                 !.saw = o])
    BY <1>12, ResultsAreOutcomes DEF AutoRollback, Early
  <2>2. [task[t] EXCEPT !.pc = "autorollbackrun", !.saw = o].cr = task[t].cr
    BY <1>t DEF TaskType
  <2>3. StatusMoves /\ status'[task[t].cr] # "approved"
    BY <1>t, <2>1, WriteMoves DEF SetStatus, RollbackOutcome
  <2> QED
    BY <2>1, <2>2, <2>3
<1>13. CASE RollbackStart(t)
  <2>1. /\ task[t].pc \notin Early /\ SetStatus(task[t].cr, "executing")
        /\ Become(t, [task[t] EXCEPT !.pc = "rbexec", !.run = nruns + 1])
    BY <1>13 DEF RollbackStart, Early
  <2>2. [task[t] EXCEPT !.pc = "rbexec", !.run = nruns + 1].cr = task[t].cr
    BY <1>t DEF TaskType
  <2>3. StatusMoves /\ status'[task[t].cr] # "approved"
    BY <1>t, <2>1, WriteMoves DEF SetStatus
  <2> QED
    BY <2>1, <2>2, <2>3
<1>14. CASE RollbackExec(t) \/ RollbackAllExec(t)
  <2>1. PICK o \in RollbackOutcome : /\ SetStatus(task[t].cr, o) /\ task[t].pc \notin Early
                                    /\ \E loc : Become(t, [task[t] EXCEPT !.pc = loc])
    BY <1>14, ResultsAreOutcomes DEF RollbackExec, RollbackAllExec, Goto, Early
  <2>2. StatusMoves /\ status'[task[t].cr] # "approved"
    BY <1>t, <2>1, WriteMoves DEF SetStatus, RollbackOutcome
  <2> QED
    BY <1>m, <2>1, <2>2
<1>15. CASE RollbackRaise(t) \/ RollbackAllRaise(t)
  <2>1. task[t].pc \notin Early /\ SetStatus(task[t].cr, "failed") /\ Finish(t)
    BY <1>15 DEF RollbackRaise, RollbackAllRaise, Early
  <2>2. StatusMoves
    BY <1>t, <2>1, WriteMoves DEF SetStatus
  <2> QED
    BY <1>i, <2>1, <2>2 DEF Finish
<1>16. CASE McpRollbackExec(t)
  <2>1. task[t].pc \notin Early /\ Finish(t)
    BY <1>16 DEF McpRollbackExec, Early
  <2>2. StatusMoves
    BY <1>16, <1>s, <1>t, <2>1, WriteMoves, ResultsAreOutcomes DEF McpRollbackExec, SetStatus, RollbackOutcome
  <2> QED
    BY <1>i, <2>1, <2>2 DEF Finish
<1>17. CASE RollbackAllMark(t)
  <2>1. PICK c \in CRs : /\ SetStatus(c, "executing")
                        /\ Become(t, [task[t] EXCEPT !.pc = "rallexec", !.cr = c,
                                                     !.todo[c] = 0])
    BY <1>17 DEF RollbackAllMark
  <2>2. [task[t] EXCEPT !.pc = "rallexec", !.cr = c, !.todo[c] = 0].cr = c
    BY <1>t DEF TaskType
  <2>3. StatusMoves /\ status'[c] # "approved"
    BY <2>1, WriteMoves DEF SetStatus
  <2> QED
    BY <2>1, <2>2, <2>3
<1>18. CASE RollbackAllForce(t)
  <2>1. /\ task[t].pc \notin Early /\ SetStatus(task[t].cr, "rolled_back")
        /\ \/ Finish(t)
           \/ Become(t, [task[t] EXCEPT !.pc = "rallnext", !.cr = NoCR])
    BY <1>18 DEF RollbackAllForce, Early
  <2>2. [task[t] EXCEPT !.pc = "rallnext", !.cr = NoCR].pc \in Early
    BY <1>t DEF TaskType, Early
  <2>3. StatusMoves
    BY <1>t, <2>1, WriteMoves DEF SetStatus
  <2> QED
    BY <1>i, <2>1, <2>2, <2>3 DEF Finish
<1> QED
  BY <1>1, <1>2, <1>3, <1>4, <1>5, <1>6, <1>7, <1>8, <1>9, <1>10, <1>11, <1>12, <1>13, <1>14,
     <1>15, <1>16, <1>17, <1>18
  DEF TaskStep, WorkflowStep, RollbackStep

\* A request that is about to write has checked that its CR is not approved.
LEMMA RequestBegun ==
  ASSUME TypeOK, BegunInv, NEW t \in Tasks, NEW p \in Procs, Request(t, p)
  PROVE  \E r : Moved(t, r)
<1>1. StatusMoves /\ UNCHANGED status
  BY DEF Request, ExecuteCheck, CancelCheck, RollbackCheck, McpRollbackCheck,
         RollbackAllSelect, StatusMoves
<1>2. ASSUME NEW loc, NEW c, Become(t, [Idle EXCEPT !.pc = loc, !.cr = c, !.proc = p]),
             loc \in Early \/ status'[c] # "approved"
      PROVE  \E r : Moved(t, r)
  <2>1. PICK r : r = [Idle EXCEPT !.pc = loc, !.cr = c, !.proc = p]
    OBVIOUS
  <2>2. r.pc = loc /\ r.cr = c
    BY <2>1 DEF Idle
  <2>3. Moved(t, r)
    BY <1>1, <1>2, <2>1, <2>2 DEF Moved
  <2> QED
    BY <2>3
<1>3. ASSUME NEW c \in CRs, ExecuteCheck(t, p, c) \/ CancelCheck(t, p, c)
      PROVE  \E r : Moved(t, r)
  BY <1>2, <1>3 DEF ExecuteCheck, CancelCheck, Spawn, Early
<1>4. ASSUME NEW c \in CRs, RollbackCheck(t, p, c) \/ McpRollbackCheck(t, p, c)
      PROVE  \E r : Moved(t, r)
  <2>1. /\ status'[c] # "approved"
        /\ \E loc : Become(t, [Idle EXCEPT !.pc = loc, !.cr = c, !.proc = p])
    BY <1>1, <1>4 DEF RollbackCheck, McpRollbackCheck, Spawn, Rollbackable
  <2> QED
    BY <1>2, <2>1
<1>5. ASSUME NEW a \in Assets, RollbackAllSelect(t, p, a)
      PROVE  \E r : Moved(t, r)
  <2>1. PICK f : Become(t, [Idle EXCEPT !.pc = "rallnext", !.proc = p, !.todo = f])
    BY <1>5 DEF RollbackAllSelect
  <2>2. [Idle EXCEPT !.pc = "rallnext", !.proc = p, !.todo = f].pc \in Early
    BY DEF Idle, Early
  <2> QED
    BY <1>1, <2>1, <2>2 DEF Moved
<1> QED
  BY <1>3, <1>4, <1>5 DEF Request

LEMMA NextBegun == TypeOK /\ BegunInv /\ [Next]_vars => BegunInv' /\ StatusMoves
<1> SUFFICES ASSUME TypeOK, BegunInv, [Next]_vars PROVE BegunInv' /\ StatusMoves
  OBVIOUS
<1>1. ASSUME NEW t \in Tasks, NEW r, Moved(t, r) PROVE BegunInv' /\ StatusMoves
  BY <1>1, BegunKept DEF Moved
<1>2. ASSUME FailInFlight, UNCHANGED task PROVE BegunInv' /\ StatusMoves
  <2>1. StatusMoves
    BY <1>2 DEF FailInFlight, StatusMoves, InFlight, TypeOK
  <2> QED
    BY <1>2, <2>1 DEF BegunInv, StatusMoves, TypeOK, Busy, Early
<1>3. ASSUME NEW p \in Procs, Crash(p) PROVE BegunInv' /\ StatusMoves
  <2>1. UNCHANGED status /\ \A u \in Tasks : task'[u] \in {Idle, task[u]}
    BY <1>3 DEF Crash
  <2> QED
    BY <2>1, IdleType DEF BegunInv, StatusMoves, Early
<1>4. CASE UNCHANGED vars
  BY <1>4 DEF BegunInv, StatusMoves, vars
<1> QED
  BY <1>1, <1>2, <1>3, <1>4, TaskStepBegun, RequestBegun DEF Next, CleanupStuck, Restart

\* A CR whose workflow vanished had been begun.
LostBegun == \A c \in lost : status[c] # "approved"

LEMMA NextLost ==
  ASSUME TypeOK, BegunInv, [Next]_vars
  PROVE  lost \subseteq lost' /\ \A c \in lost' \ lost : status[c] # "approved"
<1>1. ASSUME NEW t \in Tasks, HookRaise(t) \/ AutoRollbackRaise(t)
      PROVE  lost' = lost \cup {task[t].cr} /\ status[task[t].cr] # "approved"
  BY <1>1 DEF HookRaise, AutoRollbackRaise, Vanish, At, BegunInv, Early
<1>2. (\E t \in Tasks : HookRaise(t) \/ AutoRollbackRaise(t)) \/ lost' = lost
  BY LostChanges
<1> QED
  BY <1>1, <1>2

\* The detailed specification implements the abstract one, fairness apart:
\* whatever the coroutines of however many processes do, an approved CR is begun
\* or rejected, and nothing that has left approved comes back to it.
THEOREM LifecycleImplemented == Spec => Lifecycle!Spec
<1>1. Init => Lifecycle!Init
  BY DEF Init, Lifecycle!Init, LifeStatus
<1>2. Init => BegunInv /\ LostBegun
  BY IdleType DEF Init, BegunInv, LostBegun, Early
<1>3. TypeOK /\ TypeOK' /\ BegunInv /\ LostBegun /\ [Next]_vars
        => [Lifecycle!Next]_LifeStatus
  <2> SUFFICES ASSUME TypeOK, TypeOK', BegunInv, LostBegun, [Next]_vars PROVE Lifecycle!Next
    OBVIOUS
  <2>1. StatusMoves
    BY NextBegun
  <2>2. status \in [CRs -> Status] /\ status' \in [CRs -> Status]
    BY DEF TypeOK
  <2>3. Lifecycle!Status = Status \cup {"abandoned"} /\ "approved" \notin InFlight
    BY DEF Status, InFlight, RollbackOutcome, Lifecycle!Status, Lifecycle!InFlight, Lifecycle!Settled
  <2>4. \A c \in CRs : status[c] = "approved" => c \notin lost'
    BY NextLost DEF LostBegun
  <2>5. LifeStatus' \in [CRs -> Lifecycle!Status]
    BY <2>2, <2>3 DEF LifeStatus
  <2>6. ASSUME NEW c \in CRs, LifeStatus'[c] # LifeStatus[c]
        PROVE  Lifecycle!MayBecome(LifeStatus[c], LifeStatus'[c])
    <3>1. /\ LifeStatus[c] = IF c \in lost /\ status[c] \in InFlight THEN "abandoned" ELSE status[c]
          /\ LifeStatus'[c] = IF c \in lost' /\ status'[c] \in InFlight
                              THEN "abandoned" ELSE status'[c]
      BY DEF LifeStatus
    <3>2. LifeStatus'[c] # "approved"
      BY <2>1, <2>3, <2>6, <3>1 DEF StatusMoves
    <3>3. ASSUME LifeStatus[c] = "approved" PROVE LifeStatus'[c] \in {"executing", "rejected"}
      BY <2>1, <2>4, <2>6, <3>1, <3>3 DEF StatusMoves
    <3> QED
      BY <2>5, <3>2, <3>3 DEF Lifecycle!MayBecome
  <2> QED
    BY <2>5, <2>6 DEF Lifecycle!Next
<1>4. TypeOK /\ BegunInv /\ LostBegun /\ [Next]_vars => BegunInv' /\ LostBegun'
  <2> SUFFICES ASSUME TypeOK, BegunInv, LostBegun, [Next]_vars PROVE BegunInv' /\ LostBegun'
    OBVIOUS
  <2>1. BegunInv' /\ StatusMoves
    BY NextBegun
  <2>2. lost' \subseteq CRs
    BY NextType DEF TypeOK
  <2>3. \A c \in lost' : status[c] # "approved"
    BY NextLost DEF LostBegun
  <2> QED
    BY <2>1, <2>2, <2>3 DEF LostBegun, StatusMoves
<1> QED
  BY <1>1, <1>2, <1>3, <1>4, TypeCorrect, PTL DEF Spec, Lifecycle!Spec
-----------------------------------------------------------------------------
(* A run that is open has an owner.                                        *)

Closed   == {"completed", "failed", "rolled_back"}
Workflow == {"begin", "preflight", "execute", "verify", "stamp", "readmax", "complete",
             "completerun", "failrun", "autorollback", "autorollbackrun"}
OnRun    == Workflow \cup {"rbexec", "rbrun"}

\* A coroutine in state r reports to a run of its own CR.  That of a workflow
\* is one of an execution, unless a second run was added before it looked; the
\* one it rolls back automatically does not go back to pending.
HoldsRun(r) ==
  /\ r.pc \in OnRun => r.run \in 1..nruns /\ runs[r.run].cr = r.cr
  /\ r.pc \notin OnRun => r.run = 0
  /\ r.pc \in Workflow /\ r.cr \notin doubled => runs[r.run].kind = "exec"
  /\ r.pc \in {"autorollback", "autorollbackrun"} =>
       runs[r.run].st \in Closed \cup {"rolling_back"}

Latest(i, c) == \A j \in 1..nruns : runs[j].cr = c => j <= i

\* A workflow that has yet to look its run up is going to find an execution.
FindsExec(t) ==
  At(t, "load") /\ task[t].cr \notin doubled =>
    \A i \in 1..nruns :
      runs[i].cr = task[t].cr /\ Latest(i, task[t].cr) => runs[i].kind = "exec"

\* RunHasOwner lets a workflow that has yet to look its run up stand for every
\* run of the CR; it will only find the latest.
Attended(i) ==
  LET c == runs[i].cr IN
  (crashes = 0 /\ c \notin doubled \cup lost /\ runs[i].st \notin Closed) =>
    \/ \E t \in Tasks : task[t].cr = c /\ (task[t].run = i \/ (At(t, "load") /\ Latest(i, c)))
    \/ runs[i].kind = "exec" /\ runs[i].st = "rolling_back"

RunInv ==
  /\ \A t \in Tasks : HoldsRun(task[t]) /\ FindsExec(t)
  /\ \A i \in 1..nruns : Attended(i)

\* The rows stay, but for the status of the run that t reports to.
RunsKept(t) ==
  /\ UNCHANGED <<nruns, doubled, crashes>> /\ lost \subseteq lost'
  /\ \A i \in 1..nruns :
       /\ runs'[i].cr = runs[i].cr /\ runs'[i].kind = runs[i].kind
       /\ \/ runs'[i].st = runs[i].st
          \/ i = task[t].run /\ runs'[i].st \in Closed \cup {"rolling_back"}

\* Coroutine t, as r, lets go of its run only when nobody need close it.
LetsGo(t, r) ==
  \/ r.run = task[t].run /\ r.cr = task[t].cr
  \/ task[t].run = 0
  \/ runs'[task[t].run].st \in Closed
  \/ task[t].cr \in lost' \cup doubled
  \/ runs'[task[t].run].kind = "exec" /\ runs'[task[t].run].st = "rolling_back"

LEMMA RunKept ==
  ASSUME TypeOK, RunInv, NEW t \in Tasks, NEW r, Become(t, r), RunsKept(t), LetsGo(t, r),
         HoldsRun(r)', task[t].pc # "load", r.pc # "load"
  PROVE  RunInv'
<1>1. task'[t] = r /\ \A u \in Tasks : u # t => task'[u] = task[u]
  BY DEF TypeOK, Become
<1>2. nruns' = nruns /\ nruns \in Nat /\ doubled' = doubled /\ crashes' = crashes
  BY ConstantsAssumption DEF TypeOK, RunsKept
<1>3. \A i \in 1..nruns : /\ runs'[i].cr = runs[i].cr /\ runs'[i].kind = runs[i].kind
                          /\ \/ runs'[i].st = runs[i].st
                             \/ i = task[t].run /\ runs'[i].st \in Closed \cup {"rolling_back"}
  BY DEF RunsKept
<1>l. lost \subseteq lost'
  BY DEF RunsKept
<1>4. ASSUME NEW i, NEW c PROVE Latest(i, c)' <=> Latest(i, c)
  BY <1>2, <1>3 DEF Latest
<1>5. ASSUME NEW u \in Tasks PROVE HoldsRun(task[u])'
  <2>1. CASE u = t
    BY <1>1, <2>1 DEF HoldsRun
  <2>2. CASE u # t
    <3>1. PICK x : x = task[u] /\ task'[u] = x
      BY <1>1, <2>2
    <3>2. HoldsRun(x)
      BY <3>1 DEF RunInv
    <3>3. Workflow \subseteq OnRun /\ {"autorollback", "autorollbackrun"} \subseteq OnRun
      BY DEF Workflow, OnRun
    <3>4. /\ x.pc \in OnRun => x.run \in 1..nruns /\ runs[x.run].cr = x.cr
          /\ x.pc \notin OnRun => x.run = 0
          /\ x.pc \in Workflow /\ x.cr \notin doubled => runs[x.run].kind = "exec"
          /\ x.pc \in {"autorollback", "autorollbackrun"} =>
               runs[x.run].st \in Closed \cup {"rolling_back"}
      BY <3>2 DEF HoldsRun
    <3>5. /\ x.pc \in OnRun => x.run \in 1..nruns' /\ runs'[x.run].cr = x.cr
          /\ x.pc \notin OnRun => x.run = 0
          /\ x.pc \in Workflow /\ x.cr \notin doubled' => runs'[x.run].kind = "exec"
          /\ x.pc \in {"autorollback", "autorollbackrun"} =>
               runs'[x.run].st \in Closed \cup {"rolling_back"}
      BY <1>2, <1>3, <3>3, <3>4
    <3> QED
      BY <3>1, <3>5 DEF HoldsRun
  <2> QED
    BY <2>1, <2>2
<1>6. ASSUME NEW u \in Tasks PROVE FindsExec(u)'
  <2>1. CASE u = t
    BY <1>1, <2>1 DEF FindsExec, At
  <2>2. CASE u # t
    <3>1. task'[u] = task[u] /\ FindsExec(u)
      BY <1>1, <2>2 DEF RunInv
    <3> QED
      BY <1>2, <1>3, <1>4, <3>1 DEF FindsExec, At
  <2> QED
    BY <2>1, <2>2
<1>7. ASSUME NEW i \in 1..nruns PROVE Attended(i)'
  <2>c. PICK c : c = runs[i].cr /\ runs'[i].cr = c
    BY <1>3
  <2> SUFFICES ASSUME crashes = 0, c \notin doubled \cup lost', runs'[i].st \notin Closed
               PROVE  \/ \E u \in Tasks : /\ task'[u].cr = c
                                          /\ task'[u].run = i \/ (task'[u].pc = "load" /\ Latest(i, c)')
                      \/ runs'[i].kind = "exec" /\ runs'[i].st = "rolling_back"
    BY <1>2, <2>c DEF Attended, At, Latest
  <2>1. CASE i = task[t].run
    <3>1. task[t].cr = c /\ i # 0
      BY <1>2, <2>1, <2>c DEF RunInv, HoldsRun
    <3>2. \/ r.run = i /\ r.cr = c
          \/ runs'[i].kind = "exec" /\ runs'[i].st = "rolling_back"
      BY <1>3, <2>1, <3>1 DEF LetsGo
    <3> QED
      BY <1>1, <3>2
  <2>2. CASE i # task[t].run
    <3>1. runs'[i].st = runs[i].st /\ runs'[i].kind = runs[i].kind
      BY <1>3, <2>2
    <3>2. \/ \E u \in Tasks : /\ task[u].cr = c
                              /\ task[u].run = i \/ (task[u].pc = "load" /\ Latest(i, c))
          \/ runs[i].kind = "exec" /\ runs[i].st = "rolling_back"
      BY <1>l, <2>c, <3>1 DEF RunInv, Attended, At
    <3>3. ASSUME NEW u \in Tasks, task[u].cr = c,
                 task[u].run = i \/ (task[u].pc = "load" /\ Latest(i, c))
          PROVE  /\ task'[u].cr = c
                 /\ task'[u].run = i \/ (task'[u].pc = "load" /\ Latest(i, c)')
      <4>1. u # t
        BY <2>2, <3>3
      <4> QED
        BY <1>1, <1>4, <3>3, <4>1
    <3> QED
      BY <3>1, <3>2, <3>3
  <2> QED
    BY <2>1, <2>2
<1> QED
  BY <1>2, <1>5, <1>6, <1>7 DEF RunInv

\* A coroutine moves on and keeps its run.
LEMMA RunStepOn ==
  ASSUME TypeOK, RunInv, NEW t \in Tasks, NEW r, Become(t, r), RunsKept(t),
         r.run = task[t].run, r.cr = task[t].cr, task[t].pc \in OnRun, r.pc \in OnRun,
         r.pc \in Workflow => task[t].pc \in Workflow,
         r.pc \in {"autorollback", "autorollbackrun"} =>
           \/ task[t].pc \in {"autorollback", "autorollbackrun"}
           \/ runs'[task[t].run].st \in Closed \cup {"rolling_back"}
  PROVE  RunInv'
<1>1. HoldsRun(task[t]) /\ task[t].pc # "load" /\ r.pc # "load"
  BY DEF RunInv, OnRun, Workflow
<1>2. /\ task[t].run \in 1..nruns /\ runs[task[t].run].cr = task[t].cr
      /\ task[t].pc \in Workflow /\ task[t].cr \notin doubled => runs[task[t].run].kind = "exec"
      /\ task[t].pc \in {"autorollback", "autorollbackrun"} =>
           runs[task[t].run].st \in Closed \cup {"rolling_back"}
  BY <1>1 DEF HoldsRun
<1>3. /\ nruns' = nruns /\ doubled' = doubled
      /\ runs'[task[t].run].cr = runs[task[t].run].cr
      /\ runs'[task[t].run].kind = runs[task[t].run].kind
      /\ \/ runs'[task[t].run].st = runs[task[t].run].st
         \/ runs'[task[t].run].st \in Closed \cup {"rolling_back"}
  BY <1>2 DEF RunsKept
<1>4. HoldsRun(r)'
  BY <1>2, <1>3 DEF HoldsRun
<1>5. LetsGo(t, r)
  BY DEF LetsGo
<1> QED
  BY <1>1, <1>4, <1>5, RunKept

\* A coroutine without a run, or done with it, ends or goes on without one.
LEMMA RunStepOff ==
  ASSUME TypeOK, RunInv, NEW t \in Tasks, NEW r, Become(t, r), RunsKept(t), LetsGo(t, r),
         r.run = 0, r.pc \notin OnRun, r.pc # "load", task[t].pc # "load"
  PROVE  RunInv'
<1>1. HoldsRun(r)'
  BY DEF HoldsRun, OnRun, Workflow
<1> QED
  BY <1>1, RunKept

LEMMA RunFinish ==
  ASSUME TypeOK, RunInv, NEW t \in Tasks, Finish(t), RunsKept(t), task[t].pc # "load",
         \/ task[t].pc \notin OnRun
         \/ runs'[task[t].run].st \in Closed
         \/ task[t].cr \in lost'
         \/ /\ task[t].pc \in Workflow
            /\ runs'[task[t].run].st = "rolling_back"
  PROVE  RunInv'
<1>1. Idle.run = 0 /\ Idle.pc \notin OnRun /\ Idle.pc # "load"
  BY IdleType DEF OnRun, Workflow
<1>2. LetsGo(t, Idle)
  <2>1. /\ task[t].pc \notin OnRun => task[t].run = 0
        /\ task[t].pc \in OnRun => task[t].run \in 1..nruns
        /\ task[t].pc \in Workflow /\ task[t].cr \notin doubled => runs[task[t].run].kind = "exec"
    BY DEF RunInv, HoldsRun
  <2>2. task[t].pc \in Workflow => task[t].pc \in OnRun
    BY DEF OnRun
  <2>3. task[t].pc \in OnRun => runs'[task[t].run].kind = runs[task[t].run].kind
    BY <2>1 DEF RunsKept
  <2> QED
    BY <2>1, <2>2, <2>3 DEF LetsGo
<1> QED
  BY <1>1, <1>2, RunStepOff DEF Finish

LEMMA SetRunKeeps ==
  ASSUME TypeOK, RunInv, NEW t \in Tasks, task[t].pc \in OnRun,
         NEW st \in Closed \cup {"rolling_back"},
         SetRun(t, st), UNCHANGED <<nruns, doubled, crashes, lost>>
  PROVE  RunsKept(t) /\ runs'[task[t].run].st = st
<1>1. task[t].run \in 1..nruns
  BY DEF RunInv, HoldsRun
<1>2. nruns \in 0..MaxRuns /\ runs \in [1..MaxRuns -> RunType]
  BY DEF TypeOK
<1>3. task[t].run \in 1..MaxRuns /\ 1..nruns \subseteq 1..MaxRuns
  BY <1>1, <1>2, ConstantsAssumption
<1>4. /\ runs'[task[t].run] = [runs[task[t].run] EXCEPT !.st = st]
      /\ \A i \in 1..MaxRuns : i # task[t].run => runs'[i] = runs[i]
  BY <1>2, <1>3 DEF SetRun
<1>5. /\ runs'[task[t].run].st = st /\ runs'[task[t].run].cr = runs[task[t].run].cr
      /\ runs'[task[t].run].kind = runs[task[t].run].kind
  BY <1>2, <1>3, <1>4 DEF RunType
<1> QED
  BY <1>3, <1>4, <1>5 DEF RunsKept

LEMMA SameRunsKeep ==
  ASSUME NEW t \in Tasks, UNCHANGED <<runs, nruns, doubled, crashes, lost>>
  PROVE  RunsKept(t)
  BY DEF RunsKept

\* A handler inserts a run.  Whoever was going to look for the latest run of the
\* CR is noted in doubled.
LEMMA RunAdded ==
  ASSUME TypeOK, RunInv, NEW t \in Tasks, NEW r, Become(t, r),
         NEW c \in CRs, NEW kind, NEW st, AddRun(c, kind, st), NoteDouble(c),
         UNCHANGED <<crashes, lost>>,
         task[t].pc \notin OnRun, task[t].pc # "load", task[t].cr = c, r.cr = c,
         \/ r.pc = "load" /\ r.run = 0 /\ kind = "exec"
         \/ r.pc = "rbexec" /\ r.run = nruns + 1
  PROVE  RunInv'
<1>1. task'[t] = r /\ \A u \in Tasks : u # t => task'[u] = task[u]
  BY DEF TypeOK, Become
<1>2. /\ nruns \in Nat /\ nruns' = nruns + 1 /\ nruns + 1 \in 1..MaxRuns /\ 1..nruns \subseteq 1..MaxRuns
      /\ runs \in [1..MaxRuns -> RunType]
  BY ConstantsAssumption DEF TypeOK, AddRun
<1>3. /\ runs'[nruns + 1] = [cr |-> c, kind |-> kind, st |-> st]
      /\ \A i \in 1..nruns : runs'[i] = runs[i]
  BY <1>2 DEF AddRun
<1>4. runs'[nruns + 1].cr = c /\ runs'[nruns + 1].kind = kind
  BY <1>3
<1>5. /\ doubled \subseteq doubled' /\ doubled' \subseteq doubled \cup {c}
      /\ \A u \in Tasks : task[u].pc = "load" /\ task[u].cr = c => c \in doubled'
  BY DEF NoteDouble, At
<1>6. task[t].run = 0 /\ "load" \notin OnRun /\ "rbexec" \in OnRun /\ "rbexec" \notin Workflow
  BY DEF RunInv, HoldsRun, OnRun, Workflow
<1>7. ASSUME NEW u \in Tasks PROVE HoldsRun(task[u])'
  <2>1. CASE u = t
    BY <1>1, <1>2, <1>4, <1>6, <2>1 DEF HoldsRun, OnRun, Workflow
  <2>2. CASE u # t
    <3>1. PICK x : x = task[u] /\ task'[u] = x
      BY <1>1, <2>2
    <3>2. Workflow \subseteq OnRun /\ {"autorollback", "autorollbackrun"} \subseteq OnRun
      BY DEF Workflow, OnRun
    <3>3. /\ x.pc \in OnRun => x.run \in 1..nruns /\ runs[x.run].cr = x.cr
          /\ x.pc \notin OnRun => x.run = 0
          /\ x.pc \in Workflow /\ x.cr \notin doubled => runs[x.run].kind = "exec"
          /\ x.pc \in {"autorollback", "autorollbackrun"} =>
               runs[x.run].st \in Closed \cup {"rolling_back"}
      BY <3>1 DEF RunInv, HoldsRun
    <3>4. x.pc \in OnRun => x.run \in 1..nruns' /\ runs'[x.run] = runs[x.run]
      BY <1>2, <1>3, <3>3
    <3>5. /\ x.pc \in OnRun => x.run \in 1..nruns' /\ runs'[x.run].cr = x.cr
          /\ x.pc \notin OnRun => x.run = 0
          /\ x.pc \in Workflow /\ x.cr \notin doubled' => runs'[x.run].kind = "exec"
          /\ x.pc \in {"autorollback", "autorollbackrun"} =>
               runs'[x.run].st \in Closed \cup {"rolling_back"}
      BY <1>5, <3>2, <3>3, <3>4
    <3> QED
      BY <3>1, <3>5 DEF HoldsRun
  <2> QED
    BY <2>1, <2>2
<1>8. ASSUME NEW i \in 1..nruns, NEW d, Latest(i, d)' PROVE Latest(i, d)
  BY <1>2, <1>3, <1>8 DEF Latest
<1>9. ASSUME NEW i \in 1..nruns, NEW d, d # c, Latest(i, d) PROVE Latest(i, d)'
  <2> SUFFICES ASSUME NEW j \in 1..nruns', runs'[j].cr = d PROVE j <= i
    BY DEF Latest
  <2>1. j \in 1..nruns /\ runs[j].cr = d
    BY <1>2, <1>3, <1>4, <1>9
  <2> QED
    BY <1>9, <2>1 DEF Latest
<1>10. ASSUME NEW u \in Tasks PROVE FindsExec(u)'
  <2> SUFFICES ASSUME task'[u].pc = "load", task'[u].cr \notin doubled', NEW i \in 1..nruns',
                      runs'[i].cr = task'[u].cr,
                      \A j \in 1..nruns' : runs'[j].cr = task'[u].cr => j <= i
               PROVE  runs'[i].kind = "exec"
    BY DEF FindsExec, At, Latest
  <2>1. CASE u = t
    <3>1. kind = "exec" /\ task'[u].cr = c
      BY <1>1, <2>1
    <3>2. nruns + 1 <= i
      BY <1>2, <1>4, <3>1
    <3>3. i = nruns + 1
      BY <1>2, <3>2
    <3> QED
      BY <1>4, <3>1, <3>3
  <2>2. CASE u # t
    <3>1. task'[u] = task[u] /\ task[u].cr # c /\ task[u].cr \notin doubled
      BY <1>1, <1>5, <2>2
    <3>2. i \in 1..nruns /\ runs'[i] = runs[i]
      BY <1>2, <1>3, <1>4, <3>1
    <3>3. \A j \in 1..nruns : runs[j].cr = task[u].cr => j <= i
      BY <1>2, <1>3, <3>1
    <3> QED
      BY <3>1, <3>2, <3>3 DEF RunInv, FindsExec, At, Latest
  <2> QED
    BY <2>1, <2>2
<1>11. ASSUME NEW i \in 1..nruns' PROVE Attended(i)'
  <2>1. CASE i = nruns + 1
    <3>1. runs'[i].cr = c /\ task'[t].cr = c
      BY <1>1, <1>4, <2>1
    <3>2. Latest(i, c)'
      BY <1>2, <2>1 DEF Latest
    <3>3. task'[t].run = i \/ (task'[t].pc = "load" /\ Latest(i, c)')
      BY <1>1, <2>1, <3>2
    <3> QED
      BY <3>1, <3>3 DEF Attended, At, Latest
  <2>2. CASE i # nruns + 1
    <3>i. i \in 1..nruns
      BY <1>2, <2>2
    <3>c. PICK d : d = runs[i].cr /\ runs'[i] = runs[i]
      BY <1>3, <3>i
    <3> SUFFICES ASSUME crashes = 0, d \notin doubled' \cup lost', runs[i].st \notin Closed
                 PROVE  \/ \E u \in Tasks : /\ task'[u].cr = d
                                            /\ task'[u].run = i \/ (task'[u].pc = "load" /\ Latest(i, d)')
                        \/ runs[i].kind = "exec" /\ runs[i].st = "rolling_back"
      BY <3>c DEF Attended, At, Latest
    <3>1. \/ \E u \in Tasks : /\ task[u].cr = d
                              /\ task[u].run = i \/ (task[u].pc = "load" /\ Latest(i, d))
          \/ runs[i].kind = "exec" /\ runs[i].st = "rolling_back"
      BY <1>5, <3>i, <3>c DEF RunInv, Attended, At
    <3>2. ASSUME NEW u \in Tasks, task[u].cr = d,
                 task[u].run = i \/ (task[u].pc = "load" /\ Latest(i, d))
          PROVE  /\ task'[u].cr = d
                 /\ task'[u].run = i \/ (task'[u].pc = "load" /\ Latest(i, d)')
      <4>1. u # t
        BY <1>2, <1>6, <3>2, <3>i
      <4>2. task[u].pc = "load" => d # c
        BY <1>5, <3>2
      <4> QED
        BY <1>1, <1>9, <3>2, <3>i, <4>1, <4>2
    <3> QED
      BY <3>1, <3>2
  <2> QED
    BY <2>1, <2>2
<1> QED
  BY <1>7, <1>10, <1>11 DEF RunInv

\* A workflow looks its run up: the one run that it stood for.
LEMMA RunLoaded ==
  ASSUME TypeOK, RunInv, NEW t \in Tasks, Load(t)
  PROVE  RunInv'
<1>1. PICK i \in 1..nruns : /\ runs[i].cr = task[t].cr /\ Latest(i, task[t].cr)
                            /\ Become(t, [task[t] EXCEPT !.pc = "begin", !.run = i])
  BY DEF Load, Latest
<1>2. /\ task[t] \in TaskType /\ task[t].pc = "load" /\ nruns \in Nat
      /\ UNCHANGED <<runs, nruns, doubled, crashes, lost>>
  BY ConstantsAssumption DEF Load, At, TypeOK
<1>3. PICK r : r = [task[t] EXCEPT !.pc = "begin", !.run = i]
  OBVIOUS
<1>4. r.pc = "begin" /\ r.run = i /\ r.cr = task[t].cr
  BY <1>2, <1>3 DEF TaskType
<1>5. task'[t] = r /\ \A u \in Tasks : u # t => task'[u] = task[u]
  BY <1>1, <1>3 DEF TypeOK, Become
<1>6. task[t].run = 0 /\ FindsExec(t)
  BY <1>2 DEF RunInv, HoldsRun, OnRun, Workflow
<1>7. ASSUME NEW u \in Tasks PROVE HoldsRun(task[u])' /\ FindsExec(u)'
  <2>1. CASE u = t
    <3>1. task[t].cr \notin doubled => runs[i].kind = "exec"
      BY <1>1, <1>2, <1>6 DEF FindsExec, At
    <3> QED
      BY <1>1, <1>2, <1>4, <1>5, <2>1, <3>1 DEF HoldsRun, FindsExec, At, OnRun, Workflow
  <2>2. CASE u # t
    BY <1>2, <1>5, <2>2 DEF RunInv, HoldsRun, FindsExec, At, Latest
  <2> QED
    BY <2>1, <2>2
<1>8. ASSUME NEW j \in 1..nruns PROVE Attended(j)'
  <2>c. PICK c : c = runs[j].cr /\ runs' = runs
    BY <1>2
  <2>l. Latest(j, c)' <=> Latest(j, c)
    BY <1>2 DEF Latest
  <2> SUFFICES ASSUME crashes = 0, c \notin doubled \cup lost, runs[j].st \notin Closed
               PROVE  \/ \E u \in Tasks : /\ task'[u].cr = c
                                          /\ task'[u].run = j \/ (task'[u].pc = "load" /\ Latest(j, c)')
                      \/ runs[j].kind = "exec" /\ runs[j].st = "rolling_back"
    BY <1>2, <2>c DEF Attended, At, Latest
  <2>1. \/ \E u \in Tasks : /\ task[u].cr = c
                            /\ task[u].run = j \/ (task[u].pc = "load" /\ Latest(j, c))
        \/ runs[j].kind = "exec" /\ runs[j].st = "rolling_back"
    BY <2>c DEF RunInv, Attended, At
  <2>2. ASSUME NEW u \in Tasks, task[u].cr = c,
               task[u].run = j \/ (task[u].pc = "load" /\ Latest(j, c))
        PROVE  /\ task'[u].cr = c
               /\ task'[u].run = j \/ (task'[u].pc = "load" /\ Latest(j, c)')
    <3>1. CASE u = t
      <4>1. Latest(j, c)
        BY <1>2, <1>6, <2>2, <3>1
      <4>2. i <= j /\ j <= i
        BY <1>1, <2>2, <2>c, <3>1, <4>1 DEF Latest
      <4>3. i = j
        BY <1>2, <4>2
      <4> QED
        BY <1>4, <1>5, <2>2, <3>1, <4>3
    <3>2. CASE u # t
      BY <1>5, <2>2, <2>l, <3>2
    <3> QED
      BY <3>1, <3>2
  <2> QED
    BY <2>1, <2>2
<1> QED
  BY <1>2, <1>7, <1>8 DEF RunInv

\* A coroutine's step leaves no run open behind its back.
LEMMA TaskStepRun ==
  ASSUME TypeOK, RunInv, NEW t \in Tasks, TaskStep(t)
  PROVE  RunInv'
<1> USE DEF At
<1>t. task[t] \in TaskType /\ Busy(task[t]) /\ HoldsRun(task[t])
  BY DEF TypeOK, RunInv
<1>p. Workflow \subseteq OnRun /\ "load" \notin OnRun
  BY DEF OnRun, Workflow
<1>1. CASE Start(t)
  <2>1. PICK r : r = [task[t] EXCEPT !.pc = "load"]
    OBVIOUS
  <2>2. /\ r.pc = "load" /\ r.run = task[t].run /\ r.cr = task[t].cr /\ task[t].cr \in CRs
        /\ task[t].pc \notin OnRun /\ task[t].run = 0
    BY <1>1, <1>t, <2>1, GotoFields DEF Start, Busy, HoldsRun, OnRun, Workflow
  <2> QED
    BY <1>1, <2>1, <2>2, RunAdded DEF Start, Goto
<1>2. CASE RollbackStart(t)
  <2>1. PICK r : r = [task[t] EXCEPT !.pc = "rbexec", !.run = nruns + 1]
    OBVIOUS
  <2>2. /\ r.pc = "rbexec" /\ r.run = nruns + 1 /\ r.cr = task[t].cr /\ task[t].cr \in CRs
        /\ task[t].pc \notin OnRun
    BY <1>2, <1>t, <2>1 DEF RollbackStart, Busy, OnRun, Workflow, TaskType
  <2> QED
    BY <1>2, <2>1, <2>2, RunAdded DEF RollbackStart
<1>3. CASE Load(t)
  BY <1>3, RunLoaded
<1>4. CASE \/ Begin(t) \/ PreflightPass(t) \/ PreflightFail(t) \/ ExecuteOk(t) \/ ExecuteFail(t)
           \/ VerifyPass(t)
  <2>1. PICK loc \in {"preflight", "execute", "failrun", "stamp", "verify"} :
             Become(t, [task[t] EXCEPT !.pc = loc])
    BY <1>4 DEF Begin, PreflightPass, PreflightFail, ExecuteOk, ExecuteFail, VerifyPass, Goto
  <2>2. task[t].pc \in Workflow /\ UNCHANGED <<runs, nruns, doubled, crashes, lost>>
    BY <1>4 DEF Begin, PreflightPass, PreflightFail, ExecuteOk, ExecuteFail, VerifyPass, Workflow
  <2>3. PICK r : r = [task[t] EXCEPT !.pc = loc]
    OBVIOUS
  <2>4. /\ r.pc \in Workflow /\ r.pc \notin {"autorollback", "autorollbackrun"}
        /\ r.run = task[t].run /\ r.cr = task[t].cr
    BY <2>3, GotoFields DEF Workflow
  <2> QED
    BY <1>p, <2>1, <2>2, <2>3, <2>4, RunStepOn, SameRunsKeep
<1>5. CASE VerifyFail(t)
  <2>1. task[t].pc \in Workflow /\ SetRun(t, "rolling_back") /\ UNCHANGED <<nruns, doubled, crashes, lost>>
    BY <1>5 DEF VerifyFail, Workflow
  <2>2. RunsKept(t) /\ runs'[task[t].run].st = "rolling_back"
    BY <1>p, <2>1, SetRunKeeps
  <2>3. PICK r : r = [task[t] EXCEPT !.pc = "autorollback"]
    OBVIOUS
  <2>4. r.pc \in Workflow /\ r.run = task[t].run /\ r.cr = task[t].cr
    BY <2>3, GotoFields DEF Workflow
  <2> QED
    BY <1>5, <1>p, <2>1, <2>2, <2>3, <2>4, RunStepOn DEF VerifyFail, Goto
<1>6. CASE LoadCompletion(t)
  <2>1. PICK loc \in {"readmax", "complete"} :
             Become(t, [task[t] EXCEPT !.pc = loc, !.saw = status[task[t].cr]])
    BY <1>6 DEF LoadCompletion
  <2>2. task[t].pc \in Workflow /\ UNCHANGED <<runs, nruns, doubled, crashes, lost>>
    BY <1>6 DEF LoadCompletion, Workflow
  <2>3. PICK r : r = [task[t] EXCEPT !.pc = loc, !.saw = status[task[t].cr]]
    OBVIOUS
  <2>4. /\ r.pc \in Workflow /\ r.pc \notin {"autorollback", "autorollbackrun"}
        /\ r.run = task[t].run /\ r.cr = task[t].cr
    BY <1>t, <2>3 DEF Workflow, TaskType
  <2> QED
    BY <1>p, <2>1, <2>2, <2>3, <2>4, RunStepOn, SameRunsKeep
<1>7. CASE ReadSequence(t)
  <2>1. PICK n : Become(t, [task[t] EXCEPT !.pc = "complete", !.stamp = n])
    BY <1>7 DEF ReadSequence
  <2>2. task[t].pc \in Workflow /\ UNCHANGED <<runs, nruns, doubled, crashes, lost>>
    BY <1>7 DEF ReadSequence, Workflow
  <2>3. PICK r : r = [task[t] EXCEPT !.pc = "complete", !.stamp = n]
    OBVIOUS
  <2>4. /\ r.pc \in Workflow /\ r.pc \notin {"autorollback", "autorollbackrun"}
        /\ r.run = task[t].run /\ r.cr = task[t].cr
    BY <1>t, <2>3 DEF Workflow, TaskType
  <2> QED
    BY <1>p, <2>1, <2>2, <2>3, <2>4, RunStepOn, SameRunsKeep
<1>8. CASE Complete(t)
  <2>1. PICK r : r = [task[t] EXCEPT !.pc = "completerun", !.stamp = 0, !.saw = "approved"]
    OBVIOUS
  <2>2. task[t].pc \in Workflow /\ UNCHANGED <<runs, nruns, doubled, crashes, lost>> /\ Become(t, r)
    BY <1>8, <2>1 DEF Complete, Workflow
  <2>3. /\ r.pc \in Workflow /\ r.pc \notin {"autorollback", "autorollbackrun"}
        /\ r.run = task[t].run /\ r.cr = task[t].cr
    BY <1>t, <2>1 DEF Workflow, TaskType
  <2> QED
    BY <1>p, <2>2, <2>3, RunStepOn, SameRunsKeep
<1>9. CASE AutoRollback(t)
  <2>1. PICK o : Become(t, [task[t] EXCEPT !.pc = "autorollbackrun", !.saw = o])
    BY <1>9 DEF AutoRollback
  <2>2. /\ task[t].pc \in Workflow /\ task[t].pc = "autorollback"
        /\ UNCHANGED <<runs, nruns, doubled, crashes, lost>>
    BY <1>9 DEF AutoRollback, Workflow
  <2>3. PICK r : r = [task[t] EXCEPT !.pc = "autorollbackrun", !.saw = o]
    OBVIOUS
  <2>4. r.pc \in Workflow /\ r.run = task[t].run /\ r.cr = task[t].cr
    BY <1>t, <2>3 DEF Workflow, TaskType
  <2> QED
    BY <1>p, <2>1, <2>2, <2>3, <2>4, RunStepOn, SameRunsKeep
<1>10. CASE RollbackExec(t)
  <2>1. PICK r : r = [task[t] EXCEPT !.pc = "rbrun"]
    OBVIOUS
  <2>2. task[t].pc \in OnRun /\ UNCHANGED <<runs, nruns, doubled, crashes, lost>> /\ Become(t, r)
    BY <1>10, <2>1 DEF RollbackExec, OnRun, Goto
  <2>3. r.pc \in OnRun /\ r.pc = "rbrun" /\ r.run = task[t].run /\ r.cr = task[t].cr
    BY <2>1, GotoFields DEF OnRun
  <2>4. r.pc \notin Workflow /\ r.pc \notin {"autorollback", "autorollbackrun"}
    BY <2>3 DEF Workflow
  <2> QED
    BY <2>2, <2>3, <2>4, RunStepOn, SameRunsKeep
<1>11. CASE FailRun(t) \/ CompleteRun(t) \/ RollbackRaise(t) \/ RollbackRun(t)
  <2>1. PICK st \in Closed : SetRun(t, st)
    BY <1>11 DEF FailRun, CompleteRun, RollbackRaise, RollbackRun, Closed
  <2>2. task[t].pc \in OnRun /\ Finish(t) /\ UNCHANGED <<nruns, doubled, crashes, lost>>
    BY <1>11 DEF FailRun, CompleteRun, RollbackRaise, RollbackRun, OnRun, Workflow
  <2>3. RunsKept(t) /\ runs'[task[t].run].st = st
    BY <2>1, <2>2, SetRunKeeps
  <2> QED
    BY <1>p, <2>2, <2>3, RunFinish
<1>12. CASE HookRaise(t) \/ AutoRollbackRaise(t)
  <2>1. /\ Finish(t) /\ task[t].cr \in lost' /\ task[t].pc # "load" /\ RunsKept(t)
    BY <1>12 DEF HookRaise, AutoRollbackRaise, Vanish, RunsKept
  <2> QED
    BY <2>1, RunFinish
<1>13. CASE AutoRollbackRun(t)
  <2>1. /\ task[t].pc \in Workflow /\ Finish(t) /\ UNCHANGED <<nruns, doubled, crashes, lost>>
        /\ runs[task[t].run].st \in Closed \cup {"rolling_back"}
    BY <1>13, <1>t DEF AutoRollbackRun, Workflow, HoldsRun
  <2>2. CASE SetRun(t, "rolled_back")
    <3>1. RunsKept(t) /\ runs'[task[t].run].st \in Closed
      BY <1>p, <2>1, <2>2, SetRunKeeps DEF Closed
    <3> QED
      BY <1>p, <2>1, <3>1, RunFinish
  <2>3. CASE UNCHANGED runs
    BY <1>p, <2>1, <2>3, RunFinish, SameRunsKeep
  <2> QED
    BY <1>13, <2>2, <2>3 DEF AutoRollbackRun
<1>14. CASE \/ CancelCommit(t) \/ McpRollbackExec(t) \/ RollbackAllRaise(t)
            \/ (RollbackAllForce(t) /\ Finish(t))
  <2>1. /\ Finish(t) /\ task[t].pc \notin OnRun /\ task[t].pc # "load"
        /\ UNCHANGED <<runs, nruns, doubled, crashes, lost>>
    BY <1>14 DEF CancelCommit, McpRollbackExec, RollbackAllRaise, RollbackAllForce, OnRun, Workflow
  <2> QED
    BY <2>1, RunFinish, SameRunsKeep
<1>15. CASE \/ RollbackAllMark(t) \/ RollbackAllExec(t)
            \/ (RollbackAllForce(t) /\ Become(t, [task[t] EXCEPT !.pc = "rallnext", !.cr = NoCR]))
  <2>1. PICK r : /\ Become(t, r)
                 /\ \/ \E c \in CRs : r = [task[t] EXCEPT !.pc = "rallexec", !.cr = c, !.todo[c] = 0]
                    \/ r = [task[t] EXCEPT !.pc = "rallforce"]
                    \/ r = [task[t] EXCEPT !.pc = "rallnext", !.cr = NoCR]
    BY <1>15 DEF RollbackAllMark, RollbackAllExec, Goto
  <2>2. r.run = task[t].run /\ r.pc \in {"rallexec", "rallforce", "rallnext"}
    BY <1>t, <2>1 DEF TaskType
  <2>3. /\ task[t].pc \notin OnRun /\ task[t].pc # "load"
        /\ UNCHANGED <<runs, nruns, doubled, crashes, lost>>
    BY <1>15 DEF RollbackAllMark, RollbackAllExec, RollbackAllForce, OnRun, Workflow
  <2>4. task[t].run = 0
    BY <1>t, <2>3 DEF HoldsRun
  <2>5. r.pc \notin OnRun /\ r.pc # "load" /\ LetsGo(t, r)
    BY <2>2, <2>4 DEF OnRun, Workflow, LetsGo
  <2> QED
    BY <2>1, <2>2, <2>3, <2>4, <2>5, RunStepOff, SameRunsKeep
<1>16. CASE RollbackAllForce(t)
  BY <1>14, <1>15, <1>16 DEF RollbackAllForce
<1> QED
  BY <1>1, <1>2, <1>3, <1>4, <1>5, <1>6, <1>7, <1>8, <1>9, <1>10, <1>11, <1>12, <1>13, <1>14,
     <1>15, <1>16
  DEF TaskStep, WorkflowStep, RollbackStep

\* A request takes a free slot, which had no run, and has none itself.
LEMMA RequestRun ==
  ASSUME TypeOK, RunInv, NEW t \in Tasks, NEW p \in Procs, Request(t, p)
  PROVE  RunInv'
<1>1. PICK r : /\ Become(t, r)
               /\ \/ \E c \in CRs, loc \in {"starting", "cancel", "rbcheck", "mcprb"} :
                       r = [Idle EXCEPT !.pc = loc, !.cr = c, !.proc = p]
                  \/ \E f : r = [Idle EXCEPT !.pc = "rallnext", !.proc = p, !.todo = f]
  BY DEF Request, ExecuteCheck, CancelCheck, RollbackCheck, McpRollbackCheck, Spawn,
         RollbackAllSelect
<1>2. r.run = 0 /\ r.pc \in {"starting", "cancel", "rbcheck", "mcprb", "rallnext"}
  BY <1>1 DEF Idle
<1>3. task[t].pc = "idle" /\ UNCHANGED <<runs, nruns, doubled, crashes, lost>>
  BY DEF Request, ExecuteCheck, CancelCheck, RollbackCheck, McpRollbackCheck, Spawn,
         RollbackAllSelect, At
<1>4. task[t].run = 0
  BY <1>3 DEF RunInv, HoldsRun, OnRun, Workflow
<1>5. r.pc \notin OnRun /\ r.pc # "load" /\ LetsGo(t, r)
  BY <1>2, <1>4 DEF OnRun, Workflow, LetsGo
<1> QED
  BY <1>1, <1>2, <1>3, <1>5, RunStepOff, SameRunsKeep

LEMMA NextRun == TypeOK /\ RunInv /\ [Next]_vars => RunInv'
<1> SUFFICES ASSUME TypeOK, RunInv, [Next]_vars PROVE RunInv'
  OBVIOUS
<1>1. ASSUME UNCHANGED <<runs, nruns, task, crashes, doubled, lost>> PROVE RunInv'
  BY <1>1 DEF RunInv, HoldsRun, FindsExec, Attended, Latest, At
<1>2. ASSUME NEW p \in Procs, Crash(p) PROVE RunInv'
  <2>1. /\ crashes' # 0 /\ UNCHANGED <<runs, nruns, doubled>>
        /\ \A u \in Tasks : task'[u] \in {Idle, task[u]}
    BY <1>2, ConstantsAssumption DEF Crash, TypeOK
  <2>2. ASSUME NEW u \in Tasks PROVE HoldsRun(task[u])' /\ FindsExec(u)'
    <3>1. CASE task'[u] = Idle
      BY <3>1, IdleType DEF HoldsRun, FindsExec, At, OnRun, Workflow
    <3>2. CASE task'[u] = task[u]
      BY <2>1, <3>2 DEF RunInv, HoldsRun, FindsExec, At, Latest
    <3> QED
      BY <2>1, <3>1, <3>2
  <2>3. \A i \in 1..nruns' : Attended(i)'
    BY <2>1 DEF Attended
  <2> QED
    BY <2>2, <2>3 DEF RunInv
<1> QED
  BY <1>1, <1>2, TaskStepRun, RequestRun DEF Next, CleanupStuck, Restart, vars

\* While no process crashed, every run that is open, of a CR that was not started
\* twice at once and lost no workflow, has a coroutine that will close it.
THEOREM OpenRunsOwned == Spec => []RunHasOwner
<1>1. Init => RunInv
  BY IdleType DEF Init, RunInv, HoldsRun, FindsExec, At, OnRun, Workflow
<1>2. RunInv => RunHasOwner
  BY DEF RunInv, Attended, Closed, RunHasOwner
<1> QED
  BY <1>1, <1>2, NextRun, TypeCorrect, PTL DEF Spec
=============================================================================
