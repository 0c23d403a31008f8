--------------------------- MODULE ProjectRollback ---------------------------
(***************************************************************************)
(* The project-wide rollback: rows of project_rollbacks with their steps,  *)
(* the requests that create, pause, resume and decide them, and the        *)
(* background coroutine (the driver) that unwinds the steps one by one.    *)
(*                                                                         *)
(* A request reads in its session, and commits later what differs from     *)
(* what it read; a driver likewise refreshes and commits.  Every uvicorn   *)
(* worker process has its own set _ACTIVE_ROLLBACKS, so one process never  *)
(* runs two drivers of one rollback and two processes may.                 *)
(*                                                                         *)
(* One project is modelled.  The rollback of a member CR is one of the     *)
(* outcomes of execute_cr_rollback (see ChangeExecution).  rollback_kind   *)
(* and backup_cr_id only choose what that call is given; they are left out.*)
(***************************************************************************)
EXTENDS Integers, FiniteSets, Sequences

CONSTANTS
  Members,       \* the project's CRs
  PlanOrder,     \* PlanOrder[c]: sequence_order of the membership
  AppSeq,        \* AppSeq[c]: application_sequence, 0 for NULL
  Unfinished,    \* members that are still executing at first
  Selections,    \* the cr_ids a REST request may ask for
  NoCR,          \* "no CR"
  Procs,         \* worker processes
  NoProc,        \* "no process"
  Handlers,      \* slots for requests in progress
  MaxRollbacks,  \* bound on rows of project_rollbacks
  MaxRequests,   \* bound on requests
  MaxCrashes     \* bound on crashes

ASSUME ProjectAssumption ==
  /\ NoCR \notin Members /\ NoProc \notin Procs
  /\ IsFiniteSet(Members)
  /\ PlanOrder \in [Members -> Int] /\ AppSeq \in [Members -> Nat]
  /\ Unfinished \subseteq Members /\ Selections \subseteq SUBSET Members
  /\ MaxRollbacks \in Nat /\ MaxRequests \in Nat /\ MaxCrashes \in Nat

VARIABLES
  project,   \* projects.status
  status,    \* status[c]: change_requests.status
  rollback,  \* rollback[r]: status of the r-th row of project_rollbacks
  steps,     \* steps[r]: its rows of project_rollback_steps
  nrb,       \* rows of project_rollbacks
  driver,    \* driver[p][r]: _run_rollback(r) in process p
  wake,      \* wake[p]: rollbacks for which p has a _run_rollback yet to begin
  handler,   \* handler[h]: the request in slot h
  up,        \* up[p]: process p is running
  crashes,   \* crashes so far
  requests,  \* requests so far
  twin,      \* history: rollbacks that had drivers in two processes at once
  disturbed, \* history: rollbacks with a decision on a step that awaited none, or
             \* to which a second resume added its steps once more
  dropped    \* rollbacks that a decision, or a resume that met a driver about to
             \* leave, set going without a driver, and no driver was started since

rows     == <<project, status, rollback, steps, nrb>>
history  == <<twin, disturbed, dropped>>
vars     == <<rows, driver, wake, handler, up, crashes, requests, history>>
-----------------------------------------------------------------------------
Rollbacks == 1..MaxRollbacks

\* ProjectRollbackStatus without "failed", which nothing assigns; "none" is a
\* row that does not exist yet.
RollbackStatus == {"none", "pending", "running", "paused", "awaiting_user", "completed"}
StepStatus     == {"pending", "running", "skipped", "completed", "awaiting_user"}
Settled        == {"completed", "skipped"}
\* "unwound": one of the outcomes of execute_cr_rollback, which nothing here
\* tells apart
CRStatus       == {"executing", "completed", "failed", "unwound"}
Decision       == {"skip", "mark_done", "retry"}

Off  == [pc |-> "off", saw |-> "none", todo |-> {}, cur |-> 0, old |-> "pending", ok |-> FALSE]
Free == [pc |-> "free", proc |-> NoProc, rb |-> 0, sel |-> {}, saw |-> "none",
         cur |-> 0, old |-> "pending", act |-> "skip"]

Leaving == [Off EXCEPT !.pc = "leave"]

Driving(p, r) == driver[p][r].pc # "off"

\* Some driver of r is at work, or about to begin.
Driven(r) == \E p \in Procs : r \in wake[p] \/ (Driving(p, r) /\ driver[p][r].pc # "leave")
-----------------------------------------------------------------------------
(* The order of the steps: sorted(..., reverse=True), in which members     *)
(* with equal keys keep the order of project.members.                      *)

\* project.members as a session may load it, each member with its row: ordered
\* by sequence_order, which nothing keeps unique; equal ones come in any order.
MemberRows ==
  {row \in [Members -> 1..Cardinality(Members)] :
     \A c, d \in Members : /\ row[c] = row[d] => c = d
                           /\ PlanOrder[c] < PlanOrder[d] => row[c] < row[d]}

\* The pairs <<c, d>> with c before d among the steps of initiate.
BeforeByKey(row) ==
  LET key(m) == IF AppSeq[m] # 0 THEN <<1, AppSeq[m]>> ELSE <<0, PlanOrder[m]>>
      before(c, d) == \/ key(c)[1] > key(d)[1]
                      \/ key(c)[1] = key(d)[1] /\ key(c)[2] > key(d)[2]
                      \/ key(c) = key(d) /\ row[c] < row[d]
  IN {w \in Members \X Members : before(w[1], w[2])}

\* ... and among the steps of an automatic rollback.
BeforeByPlan(row) ==
  {w \in Members \X Members : \/ PlanOrder[w[1]] > PlanOrder[w[2]]
                              \/ PlanOrder[w[1]] = PlanOrder[w[2]] /\ row[w[1]] < row[w[2]]}

\* The step rows for the members S in an order: sequence_order is a member's
\* position.
StepRows(S, before) ==
  LET pos(c) == 1 + Cardinality({d \in S : <<d, c>> \in before}) IN
  [i \in 1..Cardinality(S) |->
     [cr |-> CHOOSE c \in S : pos(c) = i, pos |-> i, st |-> "pending"]]

Eligible == {c \in Members : status[c] = "completed"}
-----------------------------------------------------------------------------
(* Requests.                                                               *)

Serve(h, p, rec) ==
  /\ handler[h].pc = "free" /\ up[p] /\ requests < MaxRequests
  /\ requests' = requests + 1
  /\ handler' = [handler EXCEPT ![h] = [rec EXCEPT !.proc = p]]
  /\ UNCHANGED <<rows, driver, wake, up, crashes, history>>

Reply(h) == handler' = [handler EXCEPT ![h] = Free]

\* asyncio.ensure_future(_run_rollback(r))
EnsureDriver(p, r) == wake' = [wake EXCEPT ![p] = @ \cup {r}]

\* The latest of the rollbacks with a status in S.
Latest(r, S) ==
  /\ r \in 1..nrb /\ rollback[r] \in S
  /\ \A q \in 1..nrb : rollback[q] \in S => q <= r

\* POST /rollback: refused while the project is rolling back
InitiateRequest(h, p) ==
  /\ project # "rolling_back"
  /\ \E sel \in Selections :
       Serve(h, p, [Free EXCEPT !.pc = "initiate", !.sel = Eligible \cap sel, !.saw = project])

\* rollback_project (MCP): no such refusal.  to_cr_id, if given, is a completed
\* member, and leaves out the CRs planned before it.
McpInitiateRequest(h, p) ==
  \E sel \in {Eligible} \cup {{c \in Eligible : PlanOrder[c] >= PlanOrder[first]} :
                                first \in Eligible} :
    Serve(h, p, [Free EXCEPT !.pc = "initiate", !.sel = sel, !.saw = project])

Initiate(h) ==
  LET r == nrb + 1 IN
  /\ handler[h].pc = "initiate" /\ nrb < MaxRollbacks
  /\ nrb' = r
  /\ rollback' = [rollback EXCEPT ![r] = "pending"]
  /\ \E row \in MemberRows :
       steps' = [steps EXCEPT ![r] = StepRows(handler[h].sel, BeforeByKey(row))]
  /\ project' = IF handler[h].saw = "rolling_back" THEN project ELSE "rolling_back"
  /\ EnsureDriver(handler[h].proc, r)
  /\ Reply(h)
  /\ UNCHANGED <<status, driver, up, crashes, requests, history>>

\* A member's execution ends; a failure calls on_cr_failed, which looks for a
\* rollback that is under way.
MemberEnds(h, p, c) ==
  /\ handler[h].pc = "free" /\ up[p]
  /\ status[c] = "executing"
  /\ \E s \in {"completed", "failed"} :
       /\ status' = [status EXCEPT ![c] = s]
       /\ handler' = IF s = "failed" /\ ~\E r \in 1..nrb :
                           rollback[r] \in {"running", "paused", "awaiting_user"}
                     THEN [handler EXCEPT ![h] = [Free EXCEPT !.pc = "auto", !.proc = p]]
                     ELSE handler
  /\ UNCHANGED <<project, rollback, steps, nrb, driver, wake, up, crashes, requests, history>>

\* initiate_auto: a rollback without steps, for an operator to resume
InitiateAuto(h) ==
  /\ handler[h].pc = "auto" /\ nrb < MaxRollbacks
  /\ nrb' = nrb + 1
  /\ rollback' = [rollback EXCEPT ![nrb + 1] = "awaiting_user"]
  /\ Reply(h)
  /\ UNCHANGED <<project, status, steps, driver, wake, up, crashes, requests, history>>

PauseRequest(h, p) ==
  \E r \in Rollbacks :
    Latest(r, {"running"}) /\ Serve(h, p, [Free EXCEPT !.pc = "pause", !.rb = r])

Pause(h) ==
  /\ handler[h].pc = "pause"
  /\ rollback' = [rollback EXCEPT ![handler[h].rb] = "paused"]
  /\ Reply(h)
  /\ UNCHANGED <<project, status, steps, nrb, driver, wake, up, crashes, requests, history>>

\* The rollback and its steps are loaded; for a rollback without steps also
\* the project's members (sel).
ResumeRequest(h, p) ==
  \E r \in Rollbacks :
    /\ Latest(r, {"paused", "awaiting_user"})
    /\ Serve(h, p, [Free EXCEPT !.pc = "resume", !.rb = r, !.saw = project,
                      !.cur = Len(steps[r]), !.sel = IF steps[r] = <<>> THEN Eligible ELSE {}])

\* _populate_steps_for_auto_rollback adds its rows to whatever is there.
Resume(h) ==
  LET r == handler[h].rb IN
  /\ handler[h].pc = "resume"
  /\ IF handler[h].cur = 0
     THEN /\ \E row \in MemberRows :
               steps' = [steps EXCEPT ![r] = @ \o StepRows(handler[h].sel, BeforeByPlan(row))]
          /\ project' = IF handler[h].saw = "rolling_back" THEN project ELSE "rolling_back"
     ELSE UNCHANGED <<steps, project>>
  /\ rollback' = [rollback EXCEPT ![r] = "running"]
  /\ EnsureDriver(handler[h].proc, r)
  /\ disturbed' = IF handler[h].cur = 0 /\ (steps[r] # <<>> \/ \E p \in Procs : Driving(p, r))
                  THEN disturbed \cup {r} ELSE disturbed
  /\ Reply(h)
  /\ UNCHANGED <<status, nrb, driver, up, crashes, requests, twin, dropped>>

\* Any step may be decided, whatever its status.
DecisionRequest(h, p) ==
  \E r \in 1..nrb, act \in Decision : \E i \in 1..Len(steps[r]) :
    Serve(h, p, [Free EXCEPT !.pc = "decide", !.rb = r, !.cur = i, !.act = act,
                   !.old = steps[r][i].st, !.saw = rollback[r]])

\* A driver is started only if the rollback was not running when it was read.  A
\* step that failed leaves it running, without a driver: RecordStep.
StepDecision(h) ==
  LET r   == handler[h].rb
      i   == handler[h].cur
      new == CASE handler[h].act = "skip"      -> "skipped"
               [] handler[h].act = "mark_done" -> "completed"
               [] handler[h].act = "retry"     -> "pending"
  IN
  /\ handler[h].pc = "decide"
  /\ steps' = IF handler[h].old = new THEN steps ELSE [steps EXCEPT ![r][i].st = new]
  /\ IF handler[h].saw # "running"
     THEN EnsureDriver(handler[h].proc, r) /\ UNCHANGED dropped
     ELSE /\ dropped' = IF Driven(r) THEN dropped ELSE dropped \cup {r}
          /\ UNCHANGED wake
  /\ disturbed' = IF steps[r][i].st # "awaiting_user" THEN disturbed \cup {r} ELSE disturbed
  /\ Reply(h)
  /\ UNCHANGED <<project, status, rollback, nrb, driver, up, crashes, requests, twin>>
-----------------------------------------------------------------------------
(* The driver: _run_rollback and _run_rollback_inner.                      *)

Drive(p, r, rec) == driver' = [driver EXCEPT ![p][r] = rec]

Enter(p, r) ==
  /\ r \in wake[p]
  /\ wake' = [wake EXCEPT ![p] = @ \ {r}]
  /\ IF Driving(p, r)
     THEN /\ UNCHANGED <<driver, twin>>
          /\ dropped' = IF driver[p][r].pc = "leave" THEN dropped \cup {r} ELSE dropped
     ELSE /\ Drive(p, r, [Off EXCEPT !.pc = "load"])
          /\ twin' = IF \E q \in Procs \ {p} : Driving(q, r) THEN twin \cup {r} ELSE twin
          /\ dropped' = dropped \ {r}
  /\ UNCHANGED <<rows, handler, up, crashes, requests, disturbed>>

Load(p, r) ==
  /\ driver[p][r].pc = "load"
  /\ Drive(p, r, [Off EXCEPT !.pc = "begin", !.saw = rollback[r], !.todo = 1..Len(steps[r])])
  /\ UNCHANGED <<rows, wake, handler, up, crashes, requests, history>>

\* status = running, also over a pause; only a status that differs from the
\* loaded one is written
Begin(p, r) ==
  /\ driver[p][r].pc = "begin"
  /\ rollback' = IF driver[p][r].saw = "running" THEN rollback
                 ELSE [rollback EXCEPT ![r] = "running"]
  /\ Drive(p, r, [driver[p][r] EXCEPT !.pc = "next", !.saw = "running"])
  /\ UNCHANGED <<project, status, steps, nrb, wake, handler, up, crashes, requests, history>>

\* Mutant: any step that is left.
IsNextUnordered(p, r, i) == i \in driver[p][r].todo

\* The next of the loaded steps by sequence_order.
IsNext(p, r, i) ==
  /\ i \in driver[p][r].todo
  /\ \A j \in driver[p][r].todo : steps[r][i].pos <= steps[r][j].pos

\* A step the driver passes over.
Behind(s) == s \in Settled

\* Mutant: the loop does not advance.
PassedNever(d, i) == d

\* The loop goes on to the step after i.
Passed(d, i) == [d EXCEPT !.pc = "next", !.todo = @ \ {i}, !.ok = FALSE]

\* The refresh of the rollback and of the step, and the checks on them.
NextStep(p, r) ==
  /\ driver[p][r].pc = "next"
  /\ \E i \in driver[p][r].todo :
       LET d == [driver[p][r] EXCEPT !.saw = rollback[r]]
           s == steps[r][i].st IN
       /\ IsNext(p, r, i)
       /\ Drive(p, r, IF rollback[r] = "paused" THEN Leaving
                      ELSE IF Behind(s) THEN Passed(d, i)
                      ELSE IF s = "awaiting_user" THEN Leaving
                      ELSE [d EXCEPT !.pc = "mark", !.cur = i, !.old = s])
  /\ UNCHANGED <<rows, wake, handler, up, crashes, requests, history>>

MarkRunning(p, r) ==
  LET d == driver[p][r] IN
  /\ d.pc = "mark"
  /\ steps' = IF d.old = "running" THEN steps ELSE [steps EXCEPT ![r][d.cur].st = "running"]
  /\ Drive(p, r, [d EXCEPT !.pc = "exec"])
  /\ UNCHANGED <<project, status, rollback, nrb, wake, handler, up, crashes, requests, history>>

\* execute_cr_rollback commits the CR's status and returns, whatever the
\* outcome; or it raises before that.
ExecuteStep(p, r) ==
  LET d == driver[p][r] IN
  /\ d.pc = "exec"
  /\ \/ /\ status' = [status EXCEPT ![steps[r][d.cur].cr] = "unwound"]
        /\ Drive(p, r, [d EXCEPT !.pc = "record", !.ok = TRUE])
     \/ Drive(p, r, [d EXCEPT !.pc = "record", !.ok = FALSE]) /\ UNCHANGED status
  /\ UNCHANGED <<project, rollback, steps, nrb, wake, handler, up, crashes, requests, history>>

\* What the driver records of a step whose rollback returned (ok) or raised.
StepResult(ok) == IF ok THEN "completed" ELSE "awaiting_user"

RecordStep(p, r) ==
  LET d == driver[p][r] IN
  /\ d.pc = "record"
  /\ steps' = [steps EXCEPT ![r][d.cur].st = StepResult(d.ok)]
  /\ Drive(p, r, IF StepResult(d.ok) = "completed" THEN Passed(d, d.cur)
                 ELSE Leaving)
  /\ UNCHANGED <<project, status, rollback, nrb, wake, handler, up, crashes, requests, history>>

\* Mutant: the project stays as it is.
CompleteProjectForgotten == UNCHANGED project

\* The end of a rollback releases the project.
CompleteProject == project' = "in_progress"

\* All loaded steps are behind: the rollback is completed, over a pause too.
CompleteRollback(p, r) ==
  /\ driver[p][r].pc = "next" /\ driver[p][r].todo = {}
  /\ rollback' = IF driver[p][r].saw = "completed" THEN rollback
                 ELSE [rollback EXCEPT ![r] = "completed"]
  /\ CompleteProject
  /\ Drive(p, r, Leaving)
  /\ UNCHANGED <<status, steps, nrb, wake, handler, up, crashes, requests, history>>

\* The session is closed and the rollback leaves _ACTIVE_ROLLBACKS.
Leave(p, r) ==
  /\ driver[p][r].pc = "leave"
  /\ Drive(p, r, Off)
  /\ UNCHANGED <<rows, wake, handler, up, crashes, requests, history>>
-----------------------------------------------------------------------------
(* The process life cycle.                                                 *)

Crash(p) ==
  /\ up[p] /\ crashes < MaxCrashes
  /\ up' = [up EXCEPT ![p] = FALSE]
  /\ crashes' = crashes + 1
  /\ driver' = [driver EXCEPT ![p] = [r \in Rollbacks |-> Off]]
  /\ wake' = [wake EXCEPT ![p] = {}]
  /\ handler' = [h \in Handlers |-> IF handler[h].proc = p THEN Free ELSE handler[h]]
  /\ UNCHANGED <<rows, requests, history>>

\* Mutant: startup resumes nothing.
InterruptedNone == {}

\* resume_interrupted: a rollback that never began is still pending, and is
\* not among them.
Interrupted == {r \in Rollbacks : rollback[r] = "running"}

\* Startup scrubs the CRs in flight, then starts a driver for every
\* interrupted rollback.
Restart(p) ==
  /\ ~up[p]
  /\ up' = [up EXCEPT ![p] = TRUE]
  /\ status' = [c \in Members |-> IF status[c] = "executing" THEN "failed" ELSE status[c]]
  /\ wake' = [wake EXCEPT ![p] = Interrupted]
  /\ UNCHANGED <<project, rollback, steps, nrb, driver, handler, crashes, requests, history>>
-----------------------------------------------------------------------------
Init ==
  /\ project = "in_progress"
  /\ status = [c \in Members |-> IF c \in Unfinished THEN "executing" ELSE "completed"]
  /\ rollback = [r \in Rollbacks |-> "none"]
  /\ steps = [r \in Rollbacks |-> <<>>]
  /\ nrb = 0
  /\ driver = [p \in Procs |-> [r \in Rollbacks |-> Off]]
  /\ wake = [p \in Procs |-> {}]
  /\ handler = [h \in Handlers |-> Free]
  /\ up = [p \in Procs |-> TRUE]
  /\ crashes = 0
  /\ requests = 0
  /\ twin = {} /\ disturbed = {} /\ dropped = {}

Request(h, p) ==
  \/ InitiateRequest(h, p) \/ McpInitiateRequest(h, p)
  \/ PauseRequest(h, p) \/ ResumeRequest(h, p) \/ DecisionRequest(h, p)
  \/ \E c \in Members : MemberEnds(h, p, c)

HandlerStep(h) ==
  Initiate(h) \/ InitiateAuto(h) \/ Pause(h) \/ Resume(h) \/ StepDecision(h)

DriverStep(p, r) ==
  \/ Enter(p, r) \/ Load(p, r) \/ Begin(p, r) \/ NextStep(p, r)
  \/ MarkRunning(p, r) \/ ExecuteStep(p, r) \/ RecordStep(p, r)
  \/ CompleteRollback(p, r) \/ Leave(p, r)

Next ==
  \/ \E h \in Handlers : HandlerStep(h)
  \/ \E h \in Handlers, p \in Procs : Request(h, p)
  \/ \E p \in Procs, r \in Rollbacks : DriverStep(p, r)
  \/ \E p \in Procs : Crash(p) \/ Restart(p)

Spec == Init /\ [][Next]_vars

(***************************************************************************)
(* An event loop keeps running its ready coroutines, and the container's   *)
(* restart policy restarts a dead process.  Requests have no fairness.     *)
(***************************************************************************)
Fairness ==
  /\ \A h \in Handlers : WF_vars(HandlerStep(h))
  /\ \A p \in Procs, r \in Rollbacks : WF_vars(DriverStep(p, r))
  /\ \A p \in Procs : WF_vars(Restart(p))

FairSpec == Spec /\ Fairness
-----------------------------------------------------------------------------
(* Properties.                                                             *)

StepType   == [cr : Members, pos : Nat, st : StepStatus]
DriverType == [pc : {"off", "load", "begin", "next", "mark", "exec", "record", "leave"},
               saw : RollbackStatus, todo : SUBSET Nat, cur : Nat, old : StepStatus,
               ok : BOOLEAN]
HandlerType == [pc : {"free", "initiate", "auto", "pause", "resume", "decide"},
                proc : Procs \cup {NoProc}, rb : 0..MaxRollbacks, sel : SUBSET Members,
                saw : RollbackStatus \cup {"in_progress", "rolling_back"},
                cur : Nat, old : StepStatus, act : Decision]

\* The rows hold values of their columns' types.
TypeOK ==
  /\ project \in {"in_progress", "rolling_back"}
  /\ status \in [Members -> CRStatus]
  /\ rollback \in [Rollbacks -> RollbackStatus]
  /\ steps \in [Rollbacks -> Seq(StepType)]
  /\ nrb \in 0..MaxRollbacks
  /\ driver \in [Procs -> [Rollbacks -> DriverType]]
  /\ wake \in [Procs -> SUBSET Rollbacks]
  /\ handler \in [Handlers -> HandlerType]
  /\ up \in [Procs -> BOOLEAN]
  /\ crashes \in 0..MaxCrashes /\ requests \in 0..MaxRequests
  /\ twin \subseteq Rollbacks /\ disturbed \subseteq Rollbacks /\ dropped \subseteq Rollbacks

Undisturbed(r) == r \notin twin \cup disturbed

\* The project is unwound in the order of its steps and completely: through pauses,
\* resumes, failures, retries and crashes, a step is touched only when all steps
\* before it are completed or skipped, and the rollback reports completed only
\* when all of them are.  (Drivers in two processes, and requests that change steps
\* behind the driver's back, are the exceptions.)
UnwindsInOrder ==
  \A r \in 1..nrb : Undisturbed(r) =>
    \A i \in 1..Len(steps[r]) :
      \/ steps[r][i].st \in Settled
      \/ /\ rollback[r] # "completed"
         /\ \A j \in 1..Len(steps[r]) : steps[r][i].pos < steps[r][j].pos =>
              steps[r][j].st \notin {"running", "completed", "awaiting_user"}

\* A rollback that reports running is run by some driver, has a step that waits
\* for a decision, or will be taken up by the restart of a process that is down;
\* one that is pending likewise, but for a crash, since startup takes up running
\* ones only.  Two exceptions, the first on the ordinary path: a failed step leaves
\* the rollback running, so the decision on it starts no driver, and nothing runs
\* the rollback (`dropped') until it is paused and resumed or a process restarts;
\* and of two drivers in two processes (`twin') one may take a step from the other.
RunningIsDriven ==
  \A r \in 1..nrb :
    (rollback[r] \in {"running"} \cup (IF crashes = 0 THEN {"pending"} ELSE {})
      /\ r \notin dropped \cup twin) =>
      \/ Driven(r)
      \/ \E i \in 1..Len(steps[r]) : steps[r][i].st = "awaiting_user"
      \/ \E p \in Procs : ~up[p]

\* A project never stays rolling_back, and closed to further rollbacks, after its
\* last rollback has completed.
RollingBackHasRollback ==
  project = "rolling_back" => \E r \in 1..nrb : rollback[r] # "completed"

\* A running rollback gets somewhere, through a crash of the process that drives
\* it: it ends, is paused, or waits for a decision.  What the decision on a failed
\* step does is the exception: it leaves the rollback running and dropped, see
\* RunningIsDriven; once resumed, it gets somewhere again.  A rollback that had
\* drivers in two processes at once is exempt as well.
RollbackEnds ==
  \A r \in Rollbacks :
    rollback[r] = "running" ~>
      \/ rollback[r] # "running"
      \/ \E i \in 1..Len(steps[r]) : steps[r][i].st = "awaiting_user"
      \/ r \in dropped \cup twin
=============================================================================
