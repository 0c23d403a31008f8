-------------------------- MODULE RunbookExecution --------------------------
(***************************************************************************)
(* One execution of a runbook: its row, its rows of runbook_step_results   *)
(* and the change requests its steps fire.                                 *)
(*                                                                         *)
(* Every worker process ticks the execution every 30 seconds.  A tick      *)
(* loads the execution and its step results, works on the current step,    *)
(* and commits at the end the columns that differ from what it loaded;     *)
(* firing a CR commits in the middle.  Nothing keeps the ticks of two      *)
(* processes apart: max_instances = 1 is per process, and the step results *)
(* have no unique key.                                                     *)
(*                                                                         *)
(* A fired CR is executed by ChangeExecution, of which only the promise    *)
(* ChangeLifecycle is used here.  A step that reads the statuses of its    *)
(* CRs reads them as of its commit.  Maintenance windows and roles, which  *)
(* decide whether a trigger or a resume is allowed, are left out.          *)
(***************************************************************************)
EXTENDS Naturals, FiniteSets, Sequences

CONSTANTS
  Runbooks,     \* runbooks that may be triggered: sequences of steps
  Procs,        \* worker processes
  Outcomes,     \* the ends of CRs that are considered
  MaxCRs,       \* bound on CRs fired
  MaxRequests,  \* bound on operators' requests
  MaxRework,    \* bound on changes to CRs that were settled
  MaxCrashes    \* bound on crashes

\* A step: its type, the number of its CRs (1 for a change), on_failure, the
\* steps a condition may go to, on_timeout.
StepType == [type : {"change", "parallel_group", "condition", "human_checkpoint"},
             n : Nat, fail : {"abort", "continue", "rollback_all"},
             to : SUBSET Nat, late : {"abort", "continue", "never"}]

VARIABLES
  book,      \* runbook_snapshot
  est,       \* runbook_executions.status, "none" before the trigger
  cur,       \* runbook_executions.current_step
  rows,      \* runbook_step_results
  status,    \* status[c]: change_requests.status of the c-th CR fired
  of,        \* of[c]: <<step, child>> for which c was fired
  tick,      \* tick[p]: the tick of process p
  request,   \* the operator's request in progress
  up, crashes, requests, rework,
  overlap,   \* history: ticks of two processes were under way at once
  dead       \* history: CRs fired by a tick that did not live to record them

rowsv   == <<book, est, cur, rows>>
crs     == <<status, of>>
bounds  == <<up, crashes, requests, rework>>
history == <<overlap, dead>>
vars    == <<rowsv, crs, tick, request, bounds, history>>
-----------------------------------------------------------------------------
CRs  == 1..MaxCRs
Life == INSTANCE ChangeLifecycle

ASSUME RunbookAssumption ==
  /\ Runbooks \subseteq Seq(StepType)
  /\ Outcomes \subseteq Life!Settled \cup {"abandoned"}
  /\ MaxCRs \in Nat /\ MaxRequests \in Nat /\ MaxRework \in Nat /\ MaxCrashes \in Nat

Active  == {"running", "waiting_human"}
ExecutionStatus  == {"none", "completed", "failed", "rolled_back"} \cup Active
StepStatus == {"pending", "running", "waiting_human", "completed", "failed"}

NoTick    == [pc |-> "off", est |-> "none", cur |-> 0, row |-> 0, st |-> "pending",
              crs |-> <<>>, fired |-> <<>>]
NoRequest == [pc |-> "off", cur |-> 0, est |-> "none"]

Fired == 1..Len(of)

Step(p)  == book[tick[p].cur]
AtEnd(p) == tick[p].cur \notin 1..Len(book)
AtStep(p, types, st) ==
  tick[p].pc = "act" /\ ~AtEnd(p) /\ Step(p).type \in types /\ tick[p].st = st
Fires == {"change", "parallel_group"}
-----------------------------------------------------------------------------
(* A tick.                                                                 *)

\* The execution and its step results are loaded; the step's result is one of
\* the rows with its number, in no particular order, or is yet to be added.
TickBegin(p) ==
  /\ up[p] /\ tick[p].pc = "off" /\ est \in Active
  /\ LET mine == {i \in 1..Len(rows) : rows[i].step = cur}
         rec  == [NoTick EXCEPT !.pc = "act", !.est = est, !.cur = cur]
     IN \/ mine = {} /\ tick' = [tick EXCEPT ![p] = rec]
        \/ \E i \in mine :
             tick' = [tick EXCEPT ![p] = [rec EXCEPT !.row = i, !.st = rows[i].st,
                                                      !.crs = rows[i].crs]]
  /\ overlap' = (overlap \/ \E q \in Procs \ {p} : tick[q].pc # "off")
  /\ UNCHANGED <<rowsv, crs, request, bounds, dead>>

\* The row of the step, added if this tick has not yet done so, with status s
\* and, if not empty, the CRs ids.
PutRow(p, s, ids) ==
  rows' = IF tick[p].row = 0
          THEN Append(rows, [step |-> tick[p].cur, st |-> s, crs |-> ids])
          ELSE LET r == rows[tick[p].row] IN
               [rows EXCEPT ![tick[p].row] =
                  [r EXCEPT !.st = IF s = tick[p].st THEN r.st ELSE s,
                            !.crs = IF ids = tick[p].crs THEN r.crs ELSE ids]]

\* Mutant: the current step is advanced from where it is by now.
PutExecutionRelative(p, s, n) ==
  /\ est' = IF s = tick[p].est THEN est ELSE s
  /\ cur' = IF n = tick[p].cur THEN cur ELSE cur + (n - tick[p].cur)

\* Columns of the execution that differ from what the tick loaded.
PutExecution(p, s, n) ==
  /\ est' = IF s = tick[p].est THEN est ELSE s
  /\ cur' = IF n = tick[p].cur THEN cur ELSE n

EndTick(p) == tick' = [tick EXCEPT ![p] = NoTick]

\* The step is done with: go to step n, the execution's status left as it is.
Advance(p, ids, n) ==
  /\ PutRow(p, "completed", ids)
  /\ PutExecution(p, tick[p].est, n)

\* The step failed: _handle_step_failure.  rollback_all rolls nothing back.
FailStep(p, ids) ==
  LET how == Step(p).fail IN
  /\ PutRow(p, "failed", ids)
  /\ \/ how = "abort" /\ PutExecution(p, "failed", tick[p].cur)
     \/ how = "continue" /\ PutExecution(p, tick[p].est, tick[p].cur + 1)
     \/ how = "rollback_all" /\ PutExecution(p, "rolled_back", tick[p].cur)

TickComplete(p) ==
  /\ tick[p].pc = "act" /\ AtEnd(p)
  /\ PutExecution(p, "completed", tick[p].cur)
  /\ EndTick(p)
  /\ UNCHANGED <<book, rows, crs, request, bounds, history>>

\* create_and_execute_runbook_cr: the CR and its run are committed, with the
\* step's row still pending, and the workflow task is created.
FireChild(p) ==
  LET t == tick[p]
      c == Len(of) + 1 IN
  /\ AtStep(p, Fires, "pending") /\ Len(t.fired) < Step(p).n /\ c \in CRs
  /\ of' = Append(of, <<t.cur, Len(t.fired) + 1>>)
  /\ PutRow(p, "pending", <<>>)
  /\ tick' = [tick EXCEPT ![p] = [t EXCEPT !.row = IF @ = 0 THEN Len(rows) + 1 ELSE @,
                                           !.fired = Append(@, c)]]
  /\ UNCHANGED <<book, est, cur, status, request, bounds, history>>

\* Mutant: the CRs fired before the one that was blocked are forgotten.
FireBlockedForgets(p) ==
  /\ AtStep(p, Fires, "pending") /\ Len(tick[p].fired) < Step(p).n
  /\ FailStep(p, <<>>)
  /\ EndTick(p)
  /\ UNCHANGED <<book, crs, request, bounds, history>>

\* ValueError: unknown change type, or the safety review blocked the plan.  The
\* CRs fired before are recorded.
FireBlocked(p) ==
  /\ AtStep(p, Fires, "pending") /\ Len(tick[p].fired) < Step(p).n
  /\ FailStep(p, tick[p].fired)
  /\ EndTick(p)
  /\ UNCHANGED <<book, crs, request, bounds, history>>

\* Any other exception is logged by tick_all_executions, which then commits.
FireRaises(p) ==
  /\ AtStep(p, Fires, "pending") /\ Len(tick[p].fired) < Step(p).n
  /\ PutRow(p, "pending", <<>>)
  /\ dead' = dead \cup {tick[p].fired[i] : i \in 1..Len(tick[p].fired)}
  /\ EndTick(p)
  /\ UNCHANGED <<book, est, cur, crs, request, bounds, overlap>>

\* Mutant: the step stays pending.
FiredStatusPending == "pending"

\* What the step's result becomes when its CRs are fired.
FiredStatus == "running"

RecordFired(p) ==
  /\ AtStep(p, Fires, "pending") /\ Len(tick[p].fired) = Step(p).n
  /\ PutRow(p, FiredStatus, tick[p].fired)
  /\ EndTick(p)
  /\ UNCHANGED <<book, est, cur, crs, request, bounds, history>>

\* Mutant: only success is an end.
EndedWell(c) == status[c] = "completed"

\* The CR's status is one of those the tick takes for an end.
Ended(c) == status[c] \in {"completed", "failed", "rejected", "rolled_back"}

\* A running step: wait until all its CRs have ended.
PollCRs(p) ==
  LET t   == tick[p]
      ids == {t.crs[i] : i \in 1..Len(t.crs)} IN
  /\ AtStep(p, Fires, "running")
  /\ \/ /\ \E c \in ids : ~Ended(c)
        /\ UNCHANGED <<est, cur, rows>>
     \/ /\ \A c \in ids : Ended(c)
        /\ IF \A c \in ids : status[c] = "completed"
           THEN Advance(p, t.crs, t.cur + 1) ELSE FailStep(p, t.crs)
  /\ EndTick(p)
  /\ UNCHANGED <<book, crs, request, bounds, history>>

\* The expression is evaluated, or its evaluation raises.
EvalCondition(p) ==
  /\ AtStep(p, {"condition"}, "pending")
  /\ \/ \E n \in Step(p).to : Advance(p, <<>>, n)
     \/ FailStep(p, <<>>)
  /\ EndTick(p)
  /\ UNCHANGED <<book, crs, request, bounds, history>>

OpenCheckpoint(p) ==
  /\ AtStep(p, {"human_checkpoint"}, "pending")
  /\ PutRow(p, "waiting_human", <<>>)
  /\ PutExecution(p, "waiting_human", tick[p].cur)
  /\ EndTick(p)
  /\ UNCHANGED <<book, crs, request, bounds, history>>

\* Mutant: the execution stays waiting_human.
TimeOutStillWaiting(p) ==
  /\ AtStep(p, {"human_checkpoint"}, "waiting_human")
  /\ \/ /\ Step(p).late = "abort"
        /\ PutRow(p, "failed", <<>>) /\ PutExecution(p, "failed", tick[p].cur)
     \/ Step(p).late = "continue" /\ Advance(p, <<>>, tick[p].cur + 1)
  /\ EndTick(p)
  /\ UNCHANGED <<book, crs, request, bounds, history>>

\* timeout_hours are over.
TimeOut(p) ==
  /\ AtStep(p, {"human_checkpoint"}, "waiting_human")
  /\ \/ /\ Step(p).late = "abort"
        /\ PutRow(p, "failed", <<>>) /\ PutExecution(p, "failed", tick[p].cur)
     \/ /\ Step(p).late = "continue"
        /\ PutRow(p, "completed", <<>>) /\ PutExecution(p, "running", tick[p].cur + 1)
  /\ EndTick(p)
  /\ UNCHANGED <<book, crs, request, bounds, history>>

\* Nothing to do: the checkpoint still waits, or the step's result is closed (a
\* condition went back to it).
TickIdle(p) ==
  /\ tick[p].pc = "act" /\ ~AtEnd(p)
  /\ \/ AtStep(p, {"human_checkpoint"}, "waiting_human")
     \/ tick[p].st \in {"completed", "failed"}
  /\ EndTick(p)
  /\ UNCHANGED <<rowsv, crs, request, bounds, history>>
-----------------------------------------------------------------------------
(* Requests: the execution is loaded, and the change committed later.      *)

Trigger ==
  /\ est = "none"
  /\ book' \in Runbooks
  /\ est' = "running" /\ cur' = 1
  /\ UNCHANGED <<rows, crs, tick, request, bounds, history>>

Request(loc, from) ==
  /\ \E p \in Procs : up[p]
  /\ request.pc = "off" /\ requests < MaxRequests /\ est \in from
  /\ request' = [pc |-> loc, cur |-> cur, est |-> est]
  /\ requests' = requests + 1
  /\ UNCHANGED <<rowsv, crs, tick, up, crashes, rework, history>>

CheckpointRequest == \E loc \in {"resume", "abortstep"} : Request(loc, {"waiting_human"})
AbortRequest      == Request("abort", Active)

Answer == request' = NoRequest

\* The rows the request's query may return.
Waiting(k) == {i \in 1..Len(rows) : rows[i].step = k /\ rows[i].st = "waiting_human"}

\* resume_checkpoint(action = resume), or abort; refused unless there is exactly
\* one waiting result for the step
ResumeCheckpoint ==
  /\ request.pc \in {"resume", "abortstep"}
  /\ \/ \E k \in {rows[i].step : i \in 1..Len(rows)} : \E i \in Waiting(k) :
          /\ Waiting(k) = {i}
          /\ IF request.pc = "resume"
             THEN /\ rows' = [rows EXCEPT ![i].st = "completed"]
                  /\ est' = "running"
                  /\ cur' = IF k + 1 = request.cur THEN cur ELSE k + 1
             ELSE /\ rows' = [rows EXCEPT ![i].st = "failed"]
                  /\ est' = "failed"
                  /\ UNCHANGED cur
     \/ UNCHANGED <<est, cur, rows>>
  /\ Answer
  /\ UNCHANGED <<book, crs, tick, bounds, history>>

\* abort_execution: more than one result of the step makes the query raise
AbortExecution ==
  LET mine == {i \in 1..Len(rows) : rows[i].step = request.cur} IN
  /\ request.pc = "abort"
  /\ \/ Cardinality(mine) > 1 /\ UNCHANGED <<est, rows>>
     \/ /\ Cardinality(mine) <= 1
        /\ est' = "failed"
        /\ rows' = [i \in 1..Len(rows) |->
                      IF i \in mine THEN [rows[i] EXCEPT !.st = "failed"] ELSE rows[i]]
  /\ Answer
  /\ UNCHANGED <<book, cur, crs, tick, bounds, history>>
-----------------------------------------------------------------------------
(* The fired CRs, and the processes.                                       *)

CRBecomes(c, s) ==
  /\ c \in Fired /\ s # status[c]
  /\ Life!MayBecome(status[c], s)
  /\ status' = [status EXCEPT ![c] = s]
  /\ IF status[c] \in Life!Settled
     THEN rework < MaxRework /\ rework' = rework + 1 ELSE UNCHANGED rework
  /\ UNCHANGED <<rowsv, of, tick, request, up, crashes, requests, history>>

CRStep(c) == \E s \in {"executing"} \cup Outcomes : CRBecomes(c, s)

Crash(p) ==
  /\ up[p] /\ crashes < MaxCrashes
  /\ up' = [up EXCEPT ![p] = FALSE]
  /\ crashes' = crashes + 1
  /\ tick' = [tick EXCEPT ![p] = NoTick]
  /\ dead' = dead \cup {tick[p].fired[i] : i \in 1..Len(tick[p].fired)}
  /\ request' \in {request, NoRequest}
  /\ UNCHANGED <<rowsv, crs, requests, rework, overlap>>

Restart(p) ==
  /\ ~up[p]
  /\ up' = [up EXCEPT ![p] = TRUE]
  /\ UNCHANGED <<rowsv, crs, tick, request, crashes, requests, rework, history>>
-----------------------------------------------------------------------------
Init ==
  /\ book = <<>> /\ est = "none" /\ cur = 0 /\ rows = <<>>
  /\ Life!Init /\ of = <<>>
  /\ tick = [p \in Procs |-> NoTick]
  /\ request = NoRequest
  /\ up = [p \in Procs |-> TRUE]
  /\ crashes = 0 /\ requests = 0 /\ rework = 0
  /\ overlap = FALSE /\ dead = {}

\* What a tick does once it has begun.
TickWork(p) ==
  \/ TickComplete(p) \/ FireChild(p) \/ FireBlocked(p) \/ FireRaises(p)
  \/ RecordFired(p) \/ PollCRs(p) \/ EvalCondition(p) \/ OpenCheckpoint(p)
  \/ TimeOut(p) \/ TickIdle(p)

RequestStep == ResumeCheckpoint \/ AbortExecution

Next ==
  \/ Trigger \/ CheckpointRequest \/ AbortRequest \/ RequestStep
  \/ \E p \in Procs : TickBegin(p) \/ TickWork(p) \/ Crash(p) \/ Restart(p)
  \/ \E c \in CRs : CRStep(c)

Spec == Init /\ [][Next]_vars

(***************************************************************************)
(* The scheduler of a running process begins a tick every 30 seconds, an   *)
(* event loop keeps running its coroutines, a dead process is restarted.   *)
(* A CR in flight leaves that state, as ChangeLifecycle promises; nothing  *)
(* says that an approved one is begun.  Planning a CR does not fail for    *)
(* ever with an exception.                                                 *)
(***************************************************************************)
Settling(c) == CRStep(c) /\ status[c] \in Life!InFlight /\ status'[c] \notin Life!InFlight

Fairness ==
  /\ \A p \in Procs : /\ WF_vars(TickBegin(p) \/ TickWork(p) \/ Restart(p))
                      /\ SF_vars(FireChild(p) \/ FireBlocked(p))
  /\ WF_vars(RequestStep)
  /\ \A c \in CRs : WF_vars(Settling(c))

FairSpec == Spec /\ Fairness
-----------------------------------------------------------------------------
(* Properties.                                                             *)

TickType == [pc : {"off", "act"}, est : ExecutionStatus, cur : Nat, row : Nat,
             st : StepStatus, crs : Seq(CRs), fired : Seq(CRs)]

\* The rows hold values of their columns' types.
TypeOK ==
  /\ book \in Runbooks \cup {<<>>}
  /\ est \in ExecutionStatus /\ cur \in Nat
  /\ rows \in Seq([step : Nat, st : StepStatus, crs : Seq(CRs)])
  /\ status \in [CRs -> Life!Status]
  /\ of \in Seq(Nat \X Nat) /\ Len(of) <= MaxCRs
  /\ tick \in [Procs -> TickType]
  /\ request \in [pc : {"off", "resume", "abortstep", "abort"}, cur : Nat, est : ExecutionStatus]
  /\ up \in [Procs -> BOOLEAN] /\ overlap \in BOOLEAN /\ dead \subseteq CRs
  /\ crashes \in 0..MaxCrashes /\ requests \in 0..MaxRequests /\ rework \in 0..MaxRework

\* A runbook makes each of its changes once, whatever operators do to it
\* meanwhile and wherever conditions jump.  (The exceptions: the CRs of a tick
\* that died or raised are fired again, and ticks of two processes may both fire.)
FiredOnce ==
  ~overlap => \A c, d \in Fired \ dead : of[c] = of[d] => c = d

\* The execution knows every CR it fired: a parallel group that is blocked half
\* way or aborted meanwhile still records the CRs that are on their way.  (With
\* the exceptions of FiredOnce.)
FiredIsRecorded ==
  ~overlap => \A c \in Fired \ dead :
     \/ \E i \in 1..Len(rows) : \E j \in 1..Len(rows[i].crs) : rows[i].crs[j] = c
     \/ \E p \in Procs : \E j \in 1..Len(tick[p].fired) : tick[p].fired[j] = c

\* No step is skipped: every step before the current one was at least begun, also
\* when ticks of two processes both move the execution on.  (Where a condition
\* jumps, steps may be skipped on purpose.)
NoStepSkipped ==
  (est \in Active \cup {"completed"} /\ \A k \in 1..Len(book) : book[k].type # "condition") =>
     \A k \in 1..(cur - 1) : \E i \in 1..Len(rows) : rows[i].step = k /\ rows[i].st # "pending"

\* An execution that waits for a human has exactly one waiting result, the one
\* of its current step: the operator can answer it.  (Ticks of two processes may
\* leave two.)
WaitingIsResumable ==
  (est = "waiting_human" /\ ~overlap) =>
     \E i \in Waiting(cur) : {j \in 1..Len(rows) : rows[j].st = "waiting_human"} = {i}

\* What keeps a running execution waiting for ever: a CR that was not begun, was
\* abandoned, is paused, or was rolled back in part; a step that was left before.
Stalled ==
  \E i \in 1..Len(rows) :
    /\ rows[i].step = cur
    /\ \/ rows[i].st \in {"completed", "failed"}
       \/ \E j \in 1..Len(rows[i].crs) :
            status[rows[i].crs[j]] \in
              {"approved", "abandoned", "paused", "rollback_partial", "rollback_failed"}

\* A running execution goes on: it leaves its step, ends, asks a human, or is
\* held up by a CR.
RunbookAdvances ==
  \A k \in UNION {1..Len(b) : b \in Runbooks} :
    (est = "running" /\ cur = k) ~> (est # "running" \/ cur # k \/ Stalled)
=============================================================================
