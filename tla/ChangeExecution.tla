--------------------------- MODULE ChangeExecution ---------------------------
(***************************************************************************)
(* Execution and rollback of approved change requests (CRs).               *)
(*                                                                         *)
(* The PostgreSQL rows are shared state: the status and                    *)
(* application_sequence columns of change_requests, and the                *)
(* execution_runs table.  Everything else is an asyncio coroutine of one   *)
(* of the uvicorn worker processes: a request handler, a workflow or a     *)
(* rollback.  A coroutine's step is one database commit together with the  *)
(* code up to the next await; between its steps every other coroutine, of  *)
(* the same process or of another one, may run.  None of these selects a   *)
(* row FOR UPDATE: it is locked from the UPDATE that the ORM flushes to    *)
(* the commit.  A crash of a process loses its coroutines and keeps the rows.  *)
(*                                                                         *)
(* How a CR becomes "approved" is the subject of ApprovalFlow; here every  *)
(* CR starts there.  Change types that pause (credential and certificate   *)
(* rotation, cluster upgrade) are not modelled in this module.             *)
(***************************************************************************)
EXTENDS Naturals, FiniteSets

CONSTANTS
  CRs,               \* change requests
  NoCR,              \* "no change request": value of an idle slot
  Assets,            \* inventory
  AssetsOf,          \* AssetsOf[c]: target_asset_ids of c
  NoVerify,          \* CRs of the types that skip verification
  Unguarded,         \* CRs of the types that have a metadata hook, called outside try
  Scheduled,         \* CRs whose execute_at has passed
  Procs,             \* uvicorn worker processes
  NoProc,            \* "no process": value of an idle slot
  Tasks,             \* slots for coroutines (bounds how many are live at once)
  PreflightResults,  \* values of all_passed that run_preflight_checks returns
  VerifyResults,     \* values of all_passed that run_verification_checks returns
  RollbackResults,   \* statuses that a rollback determines from its steps' outcomes
  MaxRuns,           \* bound on rows of execution_runs
  MaxCrashes         \* bound on process crashes

VARIABLES
  status,   \* status[c]: change_requests.status
  seq,      \* seq[c]: change_requests.application_sequence, 0 for NULL
  runs,     \* runs[i]: the i-th row of execution_runs by started_at
  nruns,    \* number of rows of execution_runs
  task,     \* task[t]: the coroutine in slot t
  up,       \* up[p]: worker process p is running
  crashes,  \* crashes so far
  raced,    \* history: two sequence assignments on a common asset overlapped
  doubled,  \* history: CRs that got a run while a workflow had yet to load its own
  lost      \* history: CRs one of whose workflows vanished in an exception

vars == <<status, seq, runs, nruns, task, up, crashes, raced, doubled, lost>>
-----------------------------------------------------------------------------
(* Values.                                                                 *)

RollbackOutcome == {"rolled_back", "rollback_partial", "rollback_failed"}
InFlight        == {"executing", "verifying"}
Status          == {"approved", "completed", "failed", "paused", "rejected"}
                     \cup InFlight \cup RollbackOutcome

ASSUME ConstantsAssumption ==
  /\ NoCR \notin CRs
  /\ NoProc \notin Procs
  /\ AssetsOf \in [CRs -> SUBSET Assets]
  /\ NoVerify \subseteq CRs /\ Unguarded \subseteq CRs /\ Scheduled \subseteq CRs
  /\ PreflightResults \subseteq BOOLEAN /\ VerifyResults \subseteq BOOLEAN
  /\ RollbackResults \subseteq RollbackOutcome
  /\ MaxRuns \in Nat /\ MaxCrashes \in Nat

RunStatus == {"pending", "running", "completed", "failed", "rolling_back",
              "rolled_back"}
RunKind   == {"exec", "rollback"}
NoRun     == [cr |-> NoCR, kind |-> "exec", st |-> "pending"]

\* Where a coroutine is: what it does next.
PC == {"idle",
       "starting", "load", "begin", "preflight", "execute", "verify",
       "stamp", "readmax", "complete", "completerun", "failrun",
       "autorollback", "autorollbackrun",
       "rbcheck", "rbexec", "rbrun", "mcprb",
       "rallnext", "rallexec", "rallforce", "cancel"}

NoTodo == [c \in CRs |-> 0]
Idle   == [pc |-> "idle", cr |-> NoCR, proc |-> NoProc, run |-> 0,
           stamp |-> 0, saw |-> "approved", todo |-> NoTodo]

\* CRs other than c with a target asset in common with c.
Peers(c) == {d \in CRs \ {c} : AssetsOf[d] \cap AssetsOf[c] # {}}

HasRun(c) == \E i \in 1..nruns : runs[i].cr = c
-----------------------------------------------------------------------------
(* Coroutines.                                                             *)

At(t, loc) == task[t].pc = loc
Become(t, r) == task' = [task EXCEPT ![t] = r]
Goto(t, loc) == Become(t, [task[t] EXCEPT !.pc = loc])
Finish(t) == Become(t, Idle)

\* The workflow raises outside any try: the runner logs it, and nothing is left
\* that would settle the CR or its run.
Vanish(t) ==
  /\ Finish(t)
  /\ lost' = lost \cup {task[t].cr}
  /\ UNCHANGED <<status, seq, runs, nruns, up, crashes, raced, doubled>>

\* A free slot of a running process begins a coroutine about c.
Spawn(t, p, c, loc) ==
  /\ At(t, "idle") /\ up[p]
  /\ Become(t, [Idle EXCEPT !.pc = loc, !.cr = c, !.proc = p])

\* Rows that handlers past their checks are going to insert.
Reserved == Cardinality({t \in Tasks : task[t].pc \in {"starting", "rbcheck"}})
RoomForRun == nruns + Reserved < MaxRuns

\* db.add(ExecutionRun(...)); the new row is the latest by started_at.
AddRun(c, kind, st) ==
  /\ nruns < MaxRuns
  /\ nruns' = nruns + 1
  /\ runs' = [runs EXCEPT ![nruns + 1] = [cr |-> c, kind |-> kind, st |-> st]]

\* The row of c is locked: a completion flushed its UPDATE to read the maximum
\* sequence in the same transaction, and has not committed.
Locked(c) == \E t \in Tasks : At(t, "complete") /\ task[t].stamp # 0 /\ task[t].cr = c

SetStatus(c, s) == ~Locked(c) /\ status' = [status EXCEPT ![c] = s]

\* update_execution_run_status on the row the workflow loaded
SetRun(t, st) == runs' = [runs EXCEPT ![task[t].run] = [@ EXCEPT !.st = st]]

\* c gets a run while another workflow of c is about to look its own run up.
NoteDouble(c) ==
  doubled' = IF \E t \in Tasks : At(t, "load") /\ task[t].cr = c
             THEN doubled \cup {c} ELSE doubled
-----------------------------------------------------------------------------
(* Starting an execution: POST /execute, the MCP tool and the scheduled-CR *)
(* worker all read status = approved in their own session, and then call   *)
(* ChangeExecutionService.start, which inserts the run and creates the     *)
(* workflow task.  Neither changes the CR's status.                        *)

\* Mutant: a CR that has a run is never started again.
ExecuteCheckOnce(t, p, c) ==
  /\ status[c] = "approved" /\ ~HasRun(c) /\ RoomForRun
  /\ Spawn(t, p, c, "starting")
  /\ UNCHANGED <<status, seq, runs, nruns, up, crashes, raced, doubled, lost>>

ExecuteCheck(t, p, c) ==
  /\ status[c] = "approved" /\ RoomForRun
  /\ Spawn(t, p, c, "starting")
  /\ UNCHANGED <<status, seq, runs, nruns, up, crashes, raced, doubled, lost>>

\* execute_scheduled_crs: every minute, in every worker process
ScheduledCheck(t, p, c) == c \in Scheduled /\ ExecuteCheck(t, p, c)

Start(t) ==
  LET c == task[t].cr IN
  /\ At(t, "starting")
  /\ AddRun(c, "exec", "pending")
  /\ NoteDouble(c)
  /\ Goto(t, "load")
  /\ UNCHANGED <<status, seq, up, crashes, raced, lost>>
-----------------------------------------------------------------------------
(* ExecuteChangeWorkflow.                                                  *)

\* load_change_request_and_plan: the run is the CR's latest row
Load(t) ==
  /\ At(t, "load")
  /\ \E i \in 1..nruns :
       /\ runs[i].cr = task[t].cr
       /\ \A j \in 1..nruns : runs[j].cr = task[t].cr => j <= i
       /\ Become(t, [task[t] EXCEPT !.pc = "begin", !.run = i])
  /\ UNCHANGED <<status, seq, runs, nruns, up, crashes, raced, doubled, lost>>

Begin(t) ==
  /\ At(t, "begin")
  /\ SetStatus(task[t].cr, "executing")
  /\ Goto(t, "preflight")
  /\ UNCHANGED <<seq, runs, nruns, up, crashes, raced, doubled, lost>>

PreflightPass(t) ==
  /\ At(t, "preflight") /\ TRUE \in PreflightResults
  /\ Goto(t, "execute")
  /\ UNCHANGED <<status, seq, runs, nruns, up, crashes, raced, doubled, lost>>

PreflightFail(t) ==
  /\ At(t, "preflight") /\ FALSE \in PreflightResults
  /\ SetStatus(task[t].cr, "failed")
  /\ Goto(t, "failrun")
  /\ UNCHANGED <<seq, runs, nruns, up, crashes, raced, doubled, lost>>

\* The executor succeeded, and so did the metadata hooks of the change type.
ExecuteOk(t) ==
  LET c == task[t].cr IN
  /\ At(t, "execute")
  /\ \/ c \in NoVerify /\ Goto(t, "stamp") /\ UNCHANGED status
     \/ c \notin NoVerify /\ Goto(t, "verify") /\ SetStatus(c, "verifying")
  /\ UNCHANGED <<seq, runs, nruns, up, crashes, raced, doubled, lost>>

\* Mutant: the run is marked failed, the CR is not.
ExecuteFailRunOnly(t) ==
  /\ At(t, "execute")
  /\ Goto(t, "failrun")
  /\ UNCHANGED <<status, seq, runs, nruns, up, crashes, raced, doubled, lost>>

\* The executor raised, or reported {"failed": True}.
ExecuteFail(t) ==
  /\ At(t, "execute")
  /\ SetStatus(task[t].cr, "failed")
  /\ Goto(t, "failrun")
  /\ UNCHANGED <<seq, runs, nruns, up, crashes, raced, doubled, lost>>

\* A metadata hook raised.
HookRaise(t) ==
  /\ At(t, "execute") /\ task[t].cr \in Unguarded
  /\ Vanish(t)

\* Mutant: the workflow returns without closing its run.
FailRunForgotten(t) ==
  /\ At(t, "failrun")
  /\ Finish(t)
  /\ UNCHANGED <<status, seq, runs, nruns, up, crashes, raced, doubled, lost>>

FailRun(t) ==
  /\ At(t, "failrun")
  /\ SetRun(t, "failed")
  /\ Finish(t)
  /\ UNCHANGED <<status, seq, nruns, up, crashes, raced, doubled, lost>>

VerifyPass(t) ==
  /\ At(t, "verify") /\ TRUE \in VerifyResults
  /\ Goto(t, "stamp")
  /\ UNCHANGED <<status, seq, runs, nruns, up, crashes, raced, doubled, lost>>

VerifyFail(t) ==
  /\ At(t, "verify") /\ FALSE \in VerifyResults
  /\ SetRun(t, "rolling_back")
  /\ Goto(t, "autorollback")
  /\ UNCHANGED <<status, seq, nruns, up, crashes, raced, doubled, lost>>

\* Mutant: one position too low.
TopOfStackOffByOne(c, n) ==
  /\ \A d \in Peers(c) : seq[d] <= n
  /\ n = 1 \/ \E d \in Peers(c) : n = seq[d]

\* Mutant: only changes that are still completed count.
TopOfStackCompleted(c, n) ==
  LET applied == {d \in Peers(c) : status[d] = "completed"} IN
  (\A d \in applied : seq[d] < n) /\ (n = 1 \/ \E d \in applied : n = seq[d] + 1)

\* n = (max(application_sequence) or 0) + 1 over the CRs that share an asset
\* with c.
TopOfStack(c, n) ==
  /\ \A d \in Peers(c) : seq[d] < n
  /\ n = 1 \/ \E d \in Peers(c) : n = seq[d] + 1

\* update_change_request_status(c, "completed") loads the CR; one that has a
\* sequence, or no target, gets none.
LoadCompletion(t) ==
  LET c == task[t].cr IN
  /\ At(t, "stamp")
  /\ \/ seq[c] = 0 /\ AssetsOf[c] # {}
        /\ Become(t, [task[t] EXCEPT !.pc = "readmax", !.saw = status[c]])
     \/ (seq[c] # 0 \/ AssetsOf[c] = {})
        /\ Become(t, [task[t] EXCEPT !.pc = "complete", !.saw = status[c]])
  /\ UNCHANGED <<status, seq, runs, nruns, up, crashes, raced, doubled, lost>>

\* The query for the maximum first flushes the UPDATE of the CR, which locks it.
ReadSequence(t) ==
  LET c == task[t].cr IN
  /\ At(t, "readmax") /\ ~Locked(c)
  /\ \E n \in {seq[d] + 1 : d \in Peers(c)} \cup {1} :
       TopOfStack(c, n) /\ Become(t, [task[t] EXCEPT !.pc = "complete", !.stamp = n])
  /\ raced' = (raced \/ \E d \in Peers(c) : Locked(d))
  /\ UNCHANGED <<status, seq, runs, nruns, up, crashes, doubled, lost>>

\* The commit.  The ORM writes only the columns that differ from what it loaded.
Complete(t) ==
  LET c == task[t].cr IN
  /\ At(t, "complete") /\ (task[t].stamp = 0 => ~Locked(c))
  /\ status' = IF task[t].saw = "completed" THEN status
               ELSE [status EXCEPT ![c] = "completed"]
  /\ seq' = IF task[t].stamp = 0 THEN seq ELSE [seq EXCEPT ![c] = task[t].stamp]
  /\ Become(t, [task[t] EXCEPT !.pc = "completerun", !.stamp = 0, !.saw = "approved"])
  /\ UNCHANGED <<runs, nruns, up, crashes, raced, doubled, lost>>

CompleteRun(t) ==
  /\ At(t, "completerun")
  /\ SetRun(t, "completed")
  /\ Finish(t)
  /\ UNCHANGED <<status, seq, nruns, up, crashes, raced, doubled, lost>>

\* Verification failed: roll back, and record the truthful outcome.
AutoRollback(t) ==
  /\ At(t, "autorollback")
  /\ \E o \in RollbackResults :
       /\ SetStatus(task[t].cr, o)
       /\ Become(t, [task[t] EXCEPT !.pc = "autorollbackrun", !.saw = o])
  /\ UNCHANGED <<seq, runs, nruns, up, crashes, raced, doubled, lost>>

\* rollback_change raised: only the call of the executor is guarded, not the
\* loading of the CR and its connectors nor the special types' rollbacks.
AutoRollbackRaise(t) ==
  /\ At(t, "autorollback")
  /\ Vanish(t)

\* Mutant: the CR's status is written to the run without the conversion.
AutoRollbackRunUnchecked(t) ==
  /\ At(t, "autorollbackrun")
  /\ SetRun(t, task[t].saw)
  /\ Finish(t)
  /\ UNCHANGED <<status, seq, nruns, up, crashes, raced, doubled, lost>>

\* ExecutionStatus has no rollback_partial and no rollback_failed: for those
\* the conversion raises, and the row keeps rolling_back.
AutoRollbackRun(t) ==
  /\ At(t, "autorollbackrun")
  /\ IF task[t].saw = "rolled_back" THEN SetRun(t, "rolled_back") ELSE UNCHANGED runs
  /\ Finish(t)
  /\ UNCHANGED <<status, seq, nruns, up, crashes, raced, doubled, lost>>
-----------------------------------------------------------------------------
(* Rollback of one CR: POST /rollback and the MCP tool.                    *)

Rollbackable == {"completed", "failed", "paused"}

\* The FILO check: a later change on a common asset is still completed.
Blocked(c) ==
  /\ seq[c] # 0
  /\ \E d \in Peers(c) : seq[d] > seq[c] /\ status[d] = "completed"

RollbackCheck(t, p, c) ==
  /\ status[c] \in Rollbackable /\ ~Blocked(c) /\ HasRun(c) /\ RoomForRun
  /\ Spawn(t, p, c, "rbcheck")
  /\ UNCHANGED <<status, seq, runs, nruns, up, crashes, raced, doubled, lost>>

\* There is no status rolling_back, so the CR shows executing.
RollbackStart(t) ==
  LET c == task[t].cr IN
  /\ At(t, "rbcheck")
  /\ AddRun(c, "rollback", "rolling_back")
  /\ SetStatus(c, "executing")
  /\ NoteDouble(c)
  /\ Become(t, [task[t] EXCEPT !.pc = "rbexec", !.run = nruns + 1])
  /\ UNCHANGED <<seq, up, crashes, raced, lost>>

\* execute_cr_rollback determines the status from the step outcomes.
RollbackExec(t) ==
  /\ At(t, "rbexec")
  /\ \E o \in RollbackResults : SetStatus(task[t].cr, o)
  /\ Goto(t, "rbrun")
  /\ UNCHANGED <<seq, runs, nruns, up, crashes, raced, doubled, lost>>

RollbackRaise(t) ==
  /\ At(t, "rbexec")
  /\ SetStatus(task[t].cr, "failed")
  /\ SetRun(t, "failed")
  /\ Finish(t)
  /\ UNCHANGED <<seq, nruns, up, crashes, raced, doubled, lost>>

\* The run is rolled_back whatever the outcome was.
RollbackRun(t) ==
  /\ At(t, "rbrun")
  /\ SetRun(t, "rolled_back")
  /\ Finish(t)
  /\ UNCHANGED <<status, seq, nruns, up, crashes, raced, doubled, lost>>

\* The MCP tool has neither the FILO check nor a run of its own.
McpRollbackCheck(t, p, c) ==
  /\ status[c] \in {"completed", "failed"}
  /\ Spawn(t, p, c, "mcprb")
  /\ UNCHANGED <<status, seq, runs, nruns, up, crashes, raced, doubled, lost>>

McpRollbackExec(t) ==
  /\ At(t, "mcprb")
  /\ \/ \E o \in RollbackResults : SetStatus(task[t].cr, o)
     \/ UNCHANGED status
  /\ Finish(t)
  /\ UNCHANGED <<seq, runs, nruns, up, crashes, raced, doubled, lost>>
-----------------------------------------------------------------------------
(* POST /assets/{asset_id}/rollback-all: one coroutine that unwinds the    *)
(* CRs it selected, the greatest application_sequence first.               *)

RollbackAllSelect(t, p, a) ==
  LET applied == [c \in CRs |->
        IF status[c] = "completed" /\ a \in AssetsOf[c] THEN seq[c] ELSE 0] IN
  /\ At(t, "idle") /\ up[p]
  /\ applied # NoTodo
  /\ Become(t, [Idle EXCEPT !.pc = "rallnext", !.proc = p, !.todo = applied])
  /\ UNCHANGED <<status, seq, runs, nruns, up, crashes, raced, doubled, lost>>

RollbackAllMark(t) ==
  /\ At(t, "rallnext")
  /\ \E c \in CRs :
       /\ task[t].todo[c] # 0
       /\ \A d \in CRs : task[t].todo[d] <= task[t].todo[c]
       /\ SetStatus(c, "executing")
       /\ Become(t, [task[t] EXCEPT !.pc = "rallexec", !.cr = c, !.todo[c] = 0])
  /\ UNCHANGED <<seq, runs, nruns, up, crashes, raced, doubled, lost>>

RollbackAllExec(t) ==
  /\ At(t, "rallexec")
  /\ \E o \in RollbackResults : SetStatus(task[t].cr, o)
  /\ Goto(t, "rallforce")
  /\ UNCHANGED <<seq, runs, nruns, up, crashes, raced, doubled, lost>>

\* Whatever execute_cr_rollback recorded, the CR becomes rolled_back and
\* leaves the stack.
RollbackAllForce(t) ==
  LET c == task[t].cr IN
  /\ At(t, "rallforce")
  /\ SetStatus(c, "rolled_back")
  /\ seq' = [seq EXCEPT ![c] = 0]
  /\ IF task[t].todo = NoTodo
     THEN Finish(t)
     ELSE Become(t, [task[t] EXCEPT !.pc = "rallnext", !.cr = NoCR])
  /\ UNCHANGED <<runs, nruns, up, crashes, raced, doubled, lost>>

RollbackAllRaise(t) ==
  /\ At(t, "rallexec")
  /\ SetStatus(task[t].cr, "failed")
  /\ Finish(t)
  /\ UNCHANGED <<seq, runs, nruns, up, crashes, raced, doubled, lost>>
-----------------------------------------------------------------------------
(* Operators' other requests, and the process life cycle.                  *)

CancelCheck(t, p, c) ==
  /\ status[c] = "approved"
  /\ Spawn(t, p, c, "cancel")
  /\ UNCHANGED <<status, seq, runs, nruns, up, crashes, raced, doubled, lost>>

CancelCommit(t) ==
  /\ At(t, "cancel")
  /\ SetStatus(task[t].cr, "rejected")
  /\ Finish(t)
  /\ UNCHANGED <<seq, runs, nruns, up, crashes, raced, doubled, lost>>

\* UPDATE change_requests SET status = 'failed' WHERE status is in flight
FailInFlight ==
  /\ \A c \in CRs : status[c] \in InFlight => ~Locked(c)
  /\ status' = [c \in CRs |-> IF status[c] \in InFlight THEN "failed" ELSE status[c]]

CleanupStuck ==
  /\ \E p \in Procs : up[p]
  /\ \E c \in CRs : status[c] \in InFlight
  /\ FailInFlight
  /\ UNCHANGED <<seq, runs, nruns, task, up, crashes, raced, doubled, lost>>

Crash(p) ==
  /\ up[p] /\ crashes < MaxCrashes
  /\ up' = [up EXCEPT ![p] = FALSE]
  /\ crashes' = crashes + 1
  /\ task' = [t \in Tasks |-> IF task[t].proc = p THEN Idle ELSE task[t]]
  /\ UNCHANGED <<status, seq, runs, nruns, raced, doubled, lost>>

\* Mutant: startup does not scrub.
RestartWithoutScrub(p) ==
  /\ ~up[p]
  /\ up' = [up EXCEPT ![p] = TRUE]
  /\ UNCHANGED <<status, seq, runs, nruns, task, crashes, raced, doubled, lost>>

\* The supervisor restarts the process; startup scrubs before it serves.
Restart(p) ==
  /\ ~up[p]
  /\ up' = [up EXCEPT ![p] = TRUE]
  /\ FailInFlight
  /\ UNCHANGED <<seq, runs, nruns, task, crashes, raced, doubled, lost>>
-----------------------------------------------------------------------------
Init ==
  /\ status = [c \in CRs |-> "approved"]
  /\ seq = [c \in CRs |-> 0]
  /\ runs = [i \in 1..MaxRuns |-> NoRun]
  /\ nruns = 0
  /\ task = [t \in Tasks |-> Idle]
  /\ up = [p \in Procs |-> TRUE]
  /\ crashes = 0
  /\ raced = FALSE
  /\ doubled = {} /\ lost = {}

WorkflowStep(t) ==
  \/ Load(t) \/ Begin(t) \/ PreflightPass(t) \/ PreflightFail(t)
  \/ ExecuteOk(t) \/ ExecuteFail(t) \/ HookRaise(t) \/ FailRun(t)
  \/ VerifyPass(t) \/ VerifyFail(t)
  \/ LoadCompletion(t) \/ ReadSequence(t) \/ Complete(t) \/ CompleteRun(t)
  \/ AutoRollback(t) \/ AutoRollbackRaise(t) \/ AutoRollbackRun(t)

RollbackStep(t) ==
  \/ RollbackStart(t) \/ RollbackExec(t) \/ RollbackRaise(t) \/ RollbackRun(t)
  \/ McpRollbackExec(t)
  \/ RollbackAllMark(t) \/ RollbackAllExec(t) \/ RollbackAllForce(t)
  \/ RollbackAllRaise(t)

TaskStep(t) == Start(t) \/ CancelCommit(t) \/ WorkflowStep(t) \/ RollbackStep(t)

Request(t, p) ==
  \/ \E c \in CRs : \/ ExecuteCheck(t, p, c) \/ CancelCheck(t, p, c)
                    \/ RollbackCheck(t, p, c) \/ McpRollbackCheck(t, p, c)
  \/ \E a \in Assets : RollbackAllSelect(t, p, a)

Next ==
  \/ \E t \in Tasks : TaskStep(t)
  \/ \E t \in Tasks, p \in Procs : Request(t, p)
  \/ CleanupStuck
  \/ \E p \in Procs : Crash(p) \/ Restart(p)

Spec == Init /\ [][Next]_vars

(***************************************************************************)
(* An event loop keeps running its ready coroutines, the container's       *)
(* restart policy restarts a dead process, and the scheduler polls for     *)
(* due CRs every minute.  Operators' requests have no fairness.            *)
(***************************************************************************)
Fairness ==
  /\ \A t \in Tasks : WF_vars(TaskStep(t))
  /\ \A p \in Procs : WF_vars(Restart(p))
  /\ \A c \in Scheduled :
       WF_vars(\E t \in Tasks, p \in Procs : ScheduledCheck(t, p, c))

FairSpec == Spec /\ Fairness
-----------------------------------------------------------------------------
(* Properties.                                                             *)

RunType  == [cr : CRs \cup {NoCR}, kind : RunKind, st : RunStatus]
TaskType == [pc : PC, cr : CRs \cup {NoCR}, proc : Procs \cup {NoProc},
             run : 0..MaxRuns, stamp : Nat, saw : Status, todo : [CRs -> Nat]]

Busy(r) ==
  /\ r.pc # "idle" => r.proc \in Procs
  /\ r.pc \notin {"idle", "rallnext"} => r.cr \in CRs

\* The columns hold values of their types, and a coroutine that works on a CR
\* names it and the process that runs it.
TypeOK ==
  /\ status \in [CRs -> Status]
  /\ seq \in [CRs -> Nat]
  /\ nruns \in 0..MaxRuns
  /\ runs \in [1..MaxRuns -> RunType]
  /\ task \in [Tasks -> TaskType]
  /\ \A t \in Tasks : Busy(task[t])
  /\ up \in [Procs -> BOOLEAN]
  /\ crashes \in 0..MaxCrashes
  /\ raced \in BOOLEAN
  /\ doubled \subseteq CRs /\ lost \subseteq CRs

\* A coroutine in state r is going to write a settled status to its CR.
Owning == {"preflight", "execute", "verify", "stamp", "autorollback",
           "rbexec", "rallexec", "rallforce"}
Owns(r) == r.pc \in Owning \/ (r.pc \in {"readmax", "complete"} /\ r.saw # "completed")

\* A CR that shows executing or verifying is never forgotten: some coroutine is
\* still going to settle it, or a worker process is down and its restart will
\* scrub it.  The one way out is an exception in a call that the workflow does
\* not guard (a metadata hook, the loading of what an automatic rollback needs):
\* such a CR is in `lost', and only a restart or an operator settles it.
InFlightHasOwner ==
  \A c \in CRs \ lost :
    status[c] \in InFlight =>
      \/ \E t \in Tasks : task[t].cr = c /\ Owns(task[t])
      \/ \E p \in Procs : ~up[p]

\* No run is left open behind its workflow's back: while no process crashed, no
\* start raced another start's lookup and no workflow vanished, every run that is
\* not settled belongs to a coroutine that will settle it.  The run of an automatic
\* rollback that was not clean stays rolling_back, since ExecutionStatus cannot
\* express it.
RunHasOwner ==
  \A i \in 1..nruns :
    LET c == runs[i].cr IN
    (crashes = 0 /\ c \notin doubled \cup lost
      /\ runs[i].st \notin {"completed", "failed", "rolled_back"}) =>
      \/ \E t \in Tasks : task[t].cr = c /\ (At(t, "load") \/ task[t].run = i)
      \/ runs[i].kind = "exec" /\ runs[i].st = "rolling_back"

\* The rollback stack is a stack: as long as no two completions on a common
\* asset overlapped, CRs that share an asset have different positions.
SeqDistinct ==
  ~raced => \A c \in CRs : \A d \in Peers(c) : seq[c] # 0 => seq[c] # seq[d]

\* ... and a change that is pushed goes on top of everything that is applied.
StampOnTop ==
  [][ ~raced => \A c \in CRs :
        (seq[c] = 0 /\ seq'[c] # 0) => \A d \in Peers(c) : seq[d] < seq'[c] ]_vars

\* A scheduled CR that is due is started (or cancelled), also when the process
\* that had picked it up crashes before the workflow's first status update.
ScheduledStarts ==
  \A c \in Scheduled : status[c] = "approved" ~> status[c] # "approved"

\* What ChangeLifecycle calls abandoned: in flight after a workflow vanished.
LifeStatus == [c \in CRs |-> IF c \in lost /\ status[c] \in InFlight
                            THEN "abandoned" ELSE status[c]]
Lifecycle  == INSTANCE ChangeLifecycle WITH status <- LifeStatus

\* The workflows, rollbacks, restarts and crashes together implement the life
\* cycle that the rest of the system relies on: an approved CR is only ever begun
\* or rejected, is never approved again, and leaves the states in flight, unless
\* an unguarded exception abandons it.
ImplementsLifecycle == Lifecycle!FairSpec
=============================================================================
