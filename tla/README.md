# Verification of Nexplane's change control

Nexplane plans, approves, executes and rolls back changes to infrastructure. This
directory holds TLA+ models of the part that decides *whether, when and in which order*
a change request (CR) is carried out, undone, paused and resumed, and of the two channels
to managed hosts, with TLC configurations and TLAPS proofs.
`PROJECT.json` maps every definition to the lines of source it stands for.

## 1. The system

A FastAPI backend (`src/backend/app`) over PostgreSQL, a React frontend, a Go agent
(`src/agent`) on managed hosts, and an MCP server for language models. There is no queue
and no workflow engine: a workflow is an asyncio task of the uvicorn process that served
the request. `docker-compose.yml` runs one worker process, `docker-compose.prod.yml` two.
The database rows are the only state that survives a process. Hardly any handler locks a
row: the requests that resume a paused CR (`retry-step`, `skip-step`, `retry-verify`,
`skip-verify`, `resume-node-upgrade`, `skip-node`) select it `FOR UPDATE`, and the models give
them one atomic action; nothing else does.

| Component | State | Operations | Interacts with |
|---|---|---|---|
| approval and planning (`routers/change_requests.py`, `mcp_tools/change_requests.py`, `services/change_plan_service.py`, `services/safety_engine.py`) | `change_requests.status`, `risk_level`; `change_plans`; `approvals` | plan, submit, approve, reject, bulk approve, cancel, over REST and MCP | execution (reads `approved`), freeze, windows |
| execution (`services/change_execution_service.py`, `workflows/`) | `status`, `application_sequence`, `execution_runs`, asyncio tasks | start (REST, MCP, scheduler), preflight, execute, verify, complete, fail, automatic rollback | executors, rollback, project rollback |
| rollback (`services/rollback_executor.py`, `routers/assets.py`) | same rows | manual, MCP, whole-asset rollback | execution |
| startup and scheduler (`main.py`, `workers/`) | process life | scrub of orphaned CRs, poll of due CRs, cleanup | execution |
| freeze and maintenance windows (`compliance/freeze.py`, `routers/maintenance_windows.py`) | windows, clock | gates | approval, start of execution |
| project rollback (`services/project_rollback_service.py`) | `projects.status`, `project_rollbacks`, their steps; per process `_ACTIVE_ROLLBACKS` | initiate (REST, MCP, failed member), pause, resume, step decision, driver, resume at startup | rollback of each member CR |
| runbooks (`services/runbook_executor.py`, `services/runbook_service.py`) | `runbook_executions`, `runbook_step_results` | trigger, tick every 30 s in every process, answer a checkpoint, abort | creates, starts and polls CRs |
| pausing change types (`services/credential_rotation_executor.py`, `..._fanout_executor.py`, `certificate_rotation_executor.py`, `k8s_cluster_upgrade_executor.py`) | `paused` CRs, the JSON column `execution_runs.result` | execute, pause, retry, skip, resume, roll back | execution, rollback, connectors |
| agent jobs (`routers/agent.py`, `_dispatch.py`, `src/agent/poller`) | `agent_jobs`, the agent's loop | dispatch, long poll, run, post the result, time out | executors, agent |
| reverse tunnel (`tunnel/`, `src/agent/tunnel`) | configuration rows; in memory: sessions, registry, stream counts | configure, connect, register, dial, close, unregister | SOCKS proxy, port forwards, agent |
| agent binary (`src/agent`) | the service loop, the tunnel supervisor | as above; commands | backend over HTTP |
| fleet batches, recurring jobs and escalations | batches, cron entries | create CRs | approval, execution |
| planning engine and catalog | none | generate steps and text | planning |
| connectors and executors | none of their own | calls to external systems | execution |
| audit, notifications, secrets | append-only rows | write | everything |
| web frontend | none of its own | calls the routes | everything |

What is hard here is the gap between a check and the commit that relies on it: a handler
reads a row, awaits, and commits; a workflow commits a dozen times with I/O between; a
process may die between any two commits, and another process serves requests meanwhile.
Two things of the ORM (SQLAlchemy) add to it: a session writes only the columns that differ
from what it loaded, and a JSON column counts as changed only when an assigned value differs
from the loaded one, which it does not when both hold the same list.
The properties that make the components correct: a CR in flight and an open run always
have someone who will settle them; only approved CRs execute, and execute what was
approved; changes on an asset are undone in the reverse of the order in which they were
applied; a status tells the truth about the infrastructure; no step, command or credential
change takes effect twice; whatever is paused or waits for a person can be answered.
`PROJECT.json` lists the hazards with the lines where they bite.

## 2. Modules

| Module | Contents | Properties that matter most |
|---|---|---|
| `ChangeLifecycle` | abstract specification: what may happen to the status of an approved CR | |
| `ChangeExecution` | executions, rollbacks, cancellation, scrub and crash over several CRs, processes and coroutines; implements `ChangeLifecycle` | `InFlightHasOwner`, `RunHasOwner`, `SeqDistinct`, `ImplementsLifecycle` |
| `ApprovalFlow` | one CR from draft to the start of its execution | `RanWhatWasApproved`, `GrantedByApprover` |
| `ProjectRollback` | the rollback of a project, its drivers and its operators | `UnwindsInOrder`, `RunningIsDriven`, `RollbackEnds` |
| `RunbookExecution` | one execution of a runbook, on top of `ChangeLifecycle` | `FiredOnce`, `NoStepSkipped`, `RunbookAdvances` |
| `CredentialRotation` | a credential rotation, step by step | `AppliedOnce`, `CompletedIsRecorded`, `RolledBackIsUndone` |
| `RotationCampaign` | certificate rotation, credential fan-out and cluster upgrade over a list of items | `PushedOnce`, `CompletedIsVerified`, `RollbackFindsChanges` |
| `AgentJobs` | jobs between dispatcher, backend and agent, with lost messages | `RunsOnce`, `DispatchTruthful`, `JobSettles` |
| `Tunnel` | the reverse tunnel of one agent | `OnlineUnlessEvicted`, `CountIsExact`, `TakesEffectUnlessEvicted` |
| `ChangeExecutionProofs`, `ApprovalFlowProofs`, `ProjectRollbackProofs`, `RunbookExecutionProofs`, `CredentialRotationProofs`, `RotationCampaignProofs`, `AgentJobsProofs`, `TunnelProofs` | theorems about the module of that name, each with its inductive invariant (section 4) | |
| `MC...` | the instances for TLC | |

How they fit together. `ApprovalFlow` ends where `ChangeExecution` begins: CRs that are
`approved`. `ChangeExecution` calls an executor and gets an outcome; for the change types
that pause, `CredentialRotation` and `RotationCampaign` begin at that call, and for the
ones that run on a host `AgentJobs` is what happens during it. `ProjectRollback` uses the
outcome of a CR's rollback. `RunbookExecution` instantiates `ChangeLifecycle` for the CRs it
fires, so that it relies on nothing `ChangeExecution` was not shown to provide.

One action is one database commit with the code around it, or one read whose result
outlives an `await`. Definitions commented *Mutant* are not part of a specification; each
shows that a property notices the mistake.

Several properties hold only outside a race or fault that the code does not handle. Each
such exception is a history variable, set by the step at which the race happens and read by
nothing but properties; a property that mentions one says in its comment which behaviour is
excluded, and section 6 says what happens then.

### ChangeExecution

`status`, `seq` and `runs` are the columns `status`, `application_sequence` and the rows
of `execution_runs`; `task[t]` is a coroutine with its program counter and its local
variables (the run it loaded, the status and sequence it read).

* `ExecuteCheck`/`Start`: the callers read `approved` and then insert the run; neither
  changes the status. `ScheduledCheck` is the worker that polls for due CRs.
* `Load` ... `CompleteRun`: `execute_change_workflow`. `Load` takes the latest run of the
  CR. Completion has three steps. `LoadCompletion` reads the row. The query for the
  maximum makes the session flush, so `ReadSequence` locks the CR's row (`Locked`) until
  `Complete` commits; other writers of that row wait. Readers do not.
* Where the session writes a status that it loaded in the same step, the ORM's rule that
  only changed columns are written makes no difference; where the load is an earlier step
  (`Complete`) the model keeps what was loaded in `saw`.
* `HookRaise` (a metadata hook, for the change types in `Unguarded`) and
  `AutoRollbackRaise` (what an automatic rollback loads before it calls an executor, for every
  change type): calls outside any `try`. The runner logs the exception and the task is gone
  (`Vanish`).
* `RollbackCheck` ... `RollbackRun`: `POST /rollback`; `McpRollback...`: the MCP tool;
  `RollbackAll...`: `POST /assets/{id}/rollback-all`. A rollback ends in one of the three
  outcomes of `_determine_rollback_status` or raises.
* `Crash`/`Restart`: a process loses its coroutines; its restart scrubs in-flight CRs of
  the whole database.

History variables: `raced` (two sequence assignments overlapped) and `doubled` (a CR got a
run while another of its workflows was about to look its run up), `lost` (CRs one of whose
workflows vanished). They guard properties that hold outside those races.

`ImplementsLifecycle` is `ChangeLifecycle!FairSpec`, for every CR, with `status` mapped to
itself, but for a CR in flight that is in `lost`, which maps to `abandoned` (`LifeStatus`).
Whatever coroutines, crashes and scrubs do, an approved CR is begun or rejected and never
becomes approved again, and a CR in flight settles unless it is abandoned.

Not in this module: what executors do (success, failure or exception), the change types
that pause, audit events and notifications, organizations (all CRs belong to one). Both
check services return success today; the models also let them fail.

### ApprovalFlow

`status`, `risk`, `plan` (a generation number) and `votes` are the CR, its plan and its
approvals; `req[h]` is a request with what it read. `...Read` is a handler up to its last
check and `...Commit` the rest. What follows from the ORM matters here: planning a CR that
was read as `planned` stores a plan and does not write the status. The DELETE of approvals
takes the rows it finds at `PlanRead` (`doomed`) and is undone if planning fails. The MCP
submission of a draft has four steps: read, plan and commit, refresh, commit. A freeze and
a maintenance window are Boolean clocks that change at any time. `granter`, `granted` and
`ran` record who let the CR through, the plan that request had read, and the plan that was
executed; `late` collects the operations that committed although the status was not the one
they had read any more (`Overtaken`). Three properties read it: which overlaps break them is
part of their statement, and every other overlap has to keep them.

Not in this module: CRs that other services create as already approved (scheduled
reversals, recurring jobs, runbooks), the priority escalation, and the score and contents
of a plan: any risk in `Risks` may come out of planning.

### ProjectRollback

`project`, `status`, `rollback`, `steps` are the rows; `driver[p][r]` is `_run_rollback(r)`
in process `p`, and `wake[p]` the calls of it that were scheduled and have not begun.
`_ACTIVE_ROLLBACKS` is not a variable of its own: it holds `r` in process `p` exactly while
`driver[p][r]` is not off, which `Enter` tests and `Leave` ends.

* `InitiateRequest`/`Initiate`, `McpInitiateRequest`, `MemberEnds`/`InitiateAuto`: the three
  ways a rollback begins, each a read and a later commit; the steps are sorted by
  application sequence; those of an automatic rollback, which its first resume adds, by
  plan order.
* `Pause`, `Resume`, `StepDecision`: write what differs from what the request read.
* `Enter` ... `Leave`: the driver. It refreshes rollback and step before each step, marks
  the step running, calls the rollback of the CR, records the result, and completes the
  rollback and releases the project at the end.
* `Crash`/`Restart`: `resume_interrupted` takes up the rows that are `running`.

History: `twin` (drivers of one rollback in two processes), `disturbed` (a decision on a
step that awaited none, or steps added twice by a second resume), `dropped` (a running
rollback without a driver). The last is no rare race. A failed step leaves its rollback
`running` (`project_rollback_service.py:360-369`) and ends the driver; the decision on that
step writes the step and starts no driver (`:278-280`), so that the ordinary answer to a
failed step leaves the rollback `running` and nobody at it, until someone pauses and resumes
it or a process restarts. A resume that meets a driver about to return has the same effect.
`RunningIsDriven` and `RollbackEnds` exempt a rollback as long as it is `dropped`, and not
beyond: a resume or a restart takes it out.

### RunbookExecution

`est`, `cur`, `rows` are the execution and its step results; `tick[p]` is the tick of
process `p` with what it loaded. `TickBegin` loads; then one of `FireChild` (a CR is created
and started in its own commits), `FireBlocked` and `FireRaises` (the two ways firing fails),
`RecordFired`, `PollCRs`, `EvalCondition`, `OpenCheckpoint`, `TimeOut`, `TickIdle` and
`TickComplete` works on the current step, for the four step types and the three failure
policies. Operators answer a checkpoint or abort. `CRStep` is a step of `ChangeLifecycle`.

History: `overlap` (ticks of two processes at once) and `dead` (CRs fired by a tick that
died or raised before it recorded them). A CR may be abandoned, as `ChangeLifecycle` allows:
its runbook then waits (`Stalled`).

### CredentialRotation

`saved` is the JSON result of the run with its shape, because the shape decides what the
ORM writes: `execute_steps` changes one list in place and assigns `{"steps": steps}`, and
`Assign` writes nothing once the loaded result has that shape. `exec[e]` is a coroutine of
`execute_steps` with its list in memory, `undo` the manual rollback, and `live`/`effects`
are what is really in place. `RetryStep`, `SkipStep` and the rollback read the run; the
workflow's own last writes (`paused`, completion) come after `execute_steps` returned.
A step that fails may have taken effect (`StepFail`): the connector may raise after the fact,
and the commit behind the call is inside the same `try`. An exception outside a step fails
the CR (`ResumeFail`), as does one of the rollback (`RollbackFail`).

History: `half` (steps that took effect in a call that failed), `overlap` (a rollback began
during an execution) and `relapsed` (a resumed execution failed again, which is never
stored). What is in `half` and not recorded as completed nobody undoes: `AppliedOnce` and
`RolledBackIsUndone` say how far that goes.

### RotationCampaign

One module for the three change types that prepare, push to a list of items and verify;
`kind` picks the preparation, what a failure does, and the requests. `main` is the
workflow's run. The fan-out executor looks for a running run, finds none (the workflow's is
still pending) and adds one: `own`. What an executor reports of an item (`upd`, `ver`) and
what happened to it (`applied`, `pushes`) are independent. The fan-out looks up connectors
outside its `try` blocks (`FanoutRaises`); an exception of a rollback fails the CR
(`RollbackRaises`).

History: `vouched`/`waived` (items that were verified, or waived by an operator), `unseen`
(a re-scan failed and was taken for an empty one), `misrouted` (a resumed CR was handed to
`execute_steps`), `overlap`.

### AgentJobs

`job`, `owner` are rows of `agent_jobs`; `wait[j]` is the dispatcher; `handler[h]` a poll or
a result post being served; `agent[a]` the service loop, which does one thing at a time.
Faults: a request or response is lost, the agent crashes, the backend crashes. A poll whose
client is gone keeps looking for a job and may take one (`lost`); two polls may find the
same job, and the second puts it back to `running` (`crossed`).

### Tunnel

`config` is the row, `running`/`current` the agent's supervisor, `conn[c]` a connection in
the relay with the allowlist it loaded (`rules`), `registry`/`count` the entry of
`TunnelManager`, `dial[d]` a dial and the stream it returned. After a change of the
allowlist the supervisor starts a connection at once, while the cancelled one is still in
its blocking read, so two connections overlap and the end of the older one unregisters the
agent. `AgentRejects` are allowlists that the backend's parser accepts and the agent's does
not: `Run` returns at once and for good, and the supervisor, which does not look at what it
returns, takes the tunnel for running.

History: `evicted` (the current connection lost its entry to an older one), `straddled` (a
stream ended on the entry of another session), `reverted` (a change was taken back before
the supervisor noticed it).

## 3. Runs

| Run | Instance | Properties |
|---|---|---|
| `exec_two` | 2 CRs on one asset, 2 coroutines, 1 process, 3 runs, 1 crash | `TypeOK`, `RunHasOwner`, `InFlightHasOwner`, `SeqDistinct`, `StampOnTop` |
| `exec_live` | 1 scheduled CR, 2 coroutines, 2 processes, 1 crash, fair | `ImplementsLifecycle`, `ScheduledStarts` |
| `approval` | 2 overlapping requests, 3 users, 2 risks, 2 plans, 2 votes | `TypeOK`, `GrantedByApprover`, `SubmittedHasPlan`, `RanWhatWasApproved`, `AwaitingUnsatisfied`, `LifecycleForward` |
| `project_live` | 2 members with one `sequence_order`, 1 process, 4 requests, 1 crash, fair | `RunningIsDriven`, `RollingBackHasRollback`, `RollbackEnds` |
| `project_two` | 2 members, 2 processes, 3 requests, 1 crash | `UnwindsInOrder` |
| `runbook_live` | 3 runbooks, 1 process, 3 CRs, 1 crash, fair | `WaitingIsResumable`, `RunbookAdvances` |
| `runbook_two` | short runbooks, 2 processes, 2 CRs, 1 crash | `FiredOnce`, `FiredIsRecorded`, `NoStepSkipped` |
| `rotation` | 4 steps, 6 requests, 1 crash, fair | `AppliedOnce`, `CompletedIsRecorded`, `PausedIsResumable`, `RolledBackIsUndone`, `ExecutingEnds` |
| `campaign` | 3 change types, 2 items, 4 requests, 1 crash, fair | `PushedOnce`, `CompletedIsVerified`, `RollbackFindsChanges`, `RolledBackIsUndone`, `ExecutingEnds` |
| `campaign_retry` | certificate rotation, 1 request | `RetryVerifies`: violated |
| `agent` | 1 agent, 2 requests at once, 2 jobs, 3 faults, fair | `RunsOnce`, `DispatchTruthful`, `RunningIsHeld`, `JobSettles` |
| `tunnel` | 2 connections, 3 allowlists of which the agent rejects one, 2 dials, limit 1, 2 changes, 1 fault, fair | `CountIsExact`, `OnlineUnlessEvicted`, `NobodyHangs`, `TakesEffectUnlessEvicted` |

Six modules' runs leave their `TypeOK` out: it is proved for every instance (section 4).

`campaign_retry` is the one run that is expected to fail. `POST /retry-verify` promises to
"re-run Phase 5 verification"; `_resume_execution` hands every change type but the fan-out
to `execute_steps` of the credential rotation, which finds no steps, completes the CR and
replaces the run's result. A paused certificate rotation is thereby completed with
dependents that were never verified, and a later rollback finds none of them.

*Bounds.* Two coroutines (processes, connections, executions) are the least for which any
of the races happens, and every race listed in the hazards is between two; one crash is
enough to fall between any two commits.
`exec_two`: a third run row is needed for a start, a second start and a rollback. Verification
has both results there and preflight only one, `exec_live` has it the other way round, and
each has a clean rollback and one that is not.
`approval`: two plan generations tell "the plan that was approved" from "the plan there
is"; a critical one needs an approver and an admin, a medium one takes a single vote; two
votes are the most that any requirement needs. Two requests at once are the least that
overlap, and while one is under way the other slot serves any number, one after the other.
Project: two members have an order; four requests are an initiation, a pause, a resume and
a decision. Runbooks: the three books contain every step type, every failure policy and a
jump, and three CRs are a parallel group of two and a change. `rotation`: four steps put a
completed, a skipped, a failed and a pending step side by side; six requests are enough for
every step to fail, be retried or skipped, and a rollback. `campaign`: two items tell
"some" from "all". `agent`: two jobs are an order, three faults a lost poll, a lost result
and a crash. `tunnel`: with a limit of one the second dial is refused.
`Reserved`, `Pending` and the other room-keeping guards keep a bound from stopping a handler
half way. Deadlock is not checked: once everything is settled and the bounds are used up
the system has nothing left to do. Coroutines are interchangeable, and so are request slots:
`exec_two` and `approval` use symmetry; the runs with liveness properties do not.

The runs have between 89 thousand (`runbook_live`) and 3.3 million (`project_two`) distinct
states; `rotation` has 127 thousand, `exec_live`, `project_live`, `tunnel` and `campaign` 330
to 490 thousand, `exec_two`, `runbook_two` and `approval` 2.4 to 2.8 million.

*Fairness.* Nothing is assumed of users: requests, configuration changes, votes and faults
have no fairness.

* An event loop keeps running its ready tasks, and every awaited call of the modelled code
  has a timeout or an answer: `WF` of the steps of a coroutine, a handler, a driver, a
  rollback. The container's restart policy restarts a process: `WF` of `Restart`.
* The scheduler polls for due CRs every minute (`ScheduledCheck`) and ticks runbooks every
  30 seconds (`TickBegin`): `WF`.
* `RunbookExecution`: planning and starting a CR do not raise for ever (`SF` of `FireChild`
  and `FireBlocked` against `FireRaises`); a CR in flight settles (`Settling`), which is
  what `ChangeLifecycle` promises and `exec_live` checks.
* `AgentJobs`: the service loop goes on after every error, and a network that keeps
  failing for ever is excluded by the bound on faults: `SF` of the agent's step, since an
  outage of the backend disables and enables it again.
* `Tunnel`: the supervisor's ticker applies the configuration and reconnects; a cancelled
  connection leaves its read after 30 seconds; a caller that reads end-of-file closes its
  stream. A caller whose stream is alive need not close it.

## 4. Proofs

For all values of the constants: any number of CRs, assets, processes, coroutines, users,
requests, members, runbooks, steps, items, agents, jobs, connections and faults (the theorems
do not depend on the bounds of the runs). Each model names its assumption on its constants
(`ConstantsAssumption`, `ApprovalAssumption`, `ProjectAssumption`, ...), which the proofs
cite and TLC evaluates on every run. They give the constants their types; the ones
that say more are that a project has finitely many members and that `tunnel_max_concurrent`
is not 0 (`agent_tunnel_admin.py` stores `max(1, ...)`). Nothing keeps `sequence_order` unique,
so nothing is assumed of it: members that share one are loaded in any order (`MemberRows`).

Every invariant that a run checks is proved, and both action properties. Each inductive
invariant below was checked with TLC on the instance of its run before it was proved. A proof
module has one lemma per action, or per group of actions with the same effect; what an
action leaves alone is the subject of frame lemmas (`OwnerKept`, `RunKept`, `DriverGoesInv`,
`QuietInv`, ...), so that an action's own lemma is about what it changes.

`ChangeExecutionProofs`

* `TypeCorrect`. Inductive as it stands: `TypeOK` includes that a busy coroutine names its
  CR and process.
* `InFlightOwned`: `Spec => []InFlightHasOwner`. Inductive together with `TypeOK`. A step
  that puts a CR in flight leaves a coroutine at an owning location; a step that leaves
  the owning locations writes a settled status, or takes the CR to `lost`; a crash makes a
  process down; a restart scrubs every CR.
* `StackPositionsDistinct`, `PushedOnTop`. `SeqDistinct` is not inductive: a completion
  holds a number it has read and not yet written. `StackInv` adds that such a number is
  held only at `complete` (`StampOnlyAtComplete`), that it is above all the numbers of its
  peers (`StampAbove`), and that no two peers hold one at the same time (`NoOverlap`), the
  last two as long as `raced` is false.
* `LifecycleImplemented`: `Spec => Lifecycle!Spec`, the safety half of the refinement. `BegunInv`
  says that a coroutine past its first write works on a CR that is not approved any more; then
  no write can be one that `ChangeLifecycle` forbids.
* `OpenRunsOwned`: `RunHasOwner` lets a workflow that has yet to look its run up stand for
  any run of its CR, which is too weak: it finds only the latest. `RunInv` says so
  (`Attended`), and that a coroutine reports to a run of its own CR (`HoldsRun`), that of a
  workflow being an execution unless the CR is in `doubled` (`FindsExec`).

`ApprovalFlowProofs`

* `TypeCorrect`, with `VotersInv` (a request that votes has a user).
* `OnlyGranted`: `GrantInv` adds that a request about to grant was made by an approver and
  that a request about to execute follows a grant.
* `PlanBeforeApproval`: `PlanInv` adds that a request about to submit, or to plan again, read
  a plan, and that a draft has none.
* `OnlyOvertakenGoBack`: `SawInv` adds that what a request read is a status its check lets
  through (`MayHaveRead`); a request that was not overtaken finds it still there.
* `RunsTheApproved`, for any number of overlapping requests. The key is `PastInv`: while no
  planning request commits late, a CR that was submitted is never a draft or planned again.
  So a planning request in time finds nobody who has read more than a plan (`PlanInTime`),
  and an approval under way is about the plan there is (`RunInv`).
* `AwaitsWithReason`: `AwaitInv` adds that a CR has no vote before it is submitted, and that
  a request about to vote read the risk there is. Each vote is then counted by the request
  that adds it.

All of them rest on two lemmas: a step of the first kind writes its own slot only, with a
request that has been checked against the row (`RequestReads`), and one of the second kind
answers its request and records whether it was late (`CommitAnswered`).

`ProjectRollbackProofs`

* `StepsInOrder`: the operator that lays out the steps returns each selected member once, in
  the sort order of the code, for any set of members. It rests on `Linear`: both orders are
  strict and total, because members with equal keys keep the rows they were loaded in.
* `UnwoundInOrder`, `RunningRollbackIsDriven` (of the rollbacks that are neither `dropped` nor
  `twin`), `RollingBackIsExplained`, `TypeCorrect`. The invariant is a conjunction over the
  rollbacks: a row that does not exist is untouched; a driver holds steps of its own rollback;
  outside `twin` there is one driver, and the rollback it holds is running or paused; a
  rollback that is to run is driven; and as long as it is undisturbed, whatever the driver no
  longer holds is settled and nothing behind the first unsettled step was touched (`InOrder`,
  `DriverInOrder`), which is what survives a crash between any two commits of the driver.

`RunbookExecutionProofs`

* `StepsNotSkipped` holds however ticks of several processes overlap: wherever a step number
  is kept (in the execution, in a result, in the memory of a tick) every step before it has a
  result that was begun (`InOrder`), and results are never taken away nor become pending
  again (`Grow`).
* `ChangesFiredOnce`, `FiredAreKnown`, `CheckpointAnswerable` rest on `Alone`, which holds until
  ticks overlap: one tick, one result per step, a tick's copy of its result is up to date,
  every CR that was fired is in a result or in the hands of the tick that will record it
  (`Recorded`), and a tick that may fire has fired all the CRs of its step (`Fresher`).
* The actions that end a tick are reduced to three effects (`Leaves`, `Raises`, `Settles`),
  the requests to one (`Closes`); the invariant is proved once for each.

`CredentialRotationProofs`

* `RotatedOnce`, `CompletedCanBeUndone`, `PausedCanBeResumed`, `RolledBackUndidTheRecorded`,
  `TypeCorrect`. The invariant judges every table of steps, in memory and in the row, by
  whether it owns up to each step that took effect (`OwnsUp`) and whether it is in step with
  what is in place (`InStep`). The first holds always, which gives `AppliedOnce`; the second
  until a rollback overlaps. Both exempt what is in `half`: a step that took effect in a call
  that failed and is not recorded as completed. So `AppliedOnce` bounds its effects by two,
  and a rollback undoes what was recorded. The row is the difficult one, since the ORM drops
  writes: `SavedOK` says that only a first pause leaves a failed step in it, so that there is
  never a second resumption to lose one.

`RotationCampaignProofs`

* `ItemsPushedOnce`: only the workflow pushes. A resumption of a fan-out finds no pending item
  in the result it loads, and one of another change type never reaches the push, since it is
  misrouted.
* `CompletedWasVerified`: results are honest (`Honest`: an item is called verified only if it
  was), `vouched` only grows, and a CR is completed on a result without unverified items
  (`CompleteOK`).
* `ChangesAreFound`: the result of a certificate rotation has all the items whenever the CR is
  paused or completed and was not misrouted (`CertOK`); every result of a fan-out, in memory
  and in its two runs, says the same of what was pushed once the workflow has pushed
  (`FanoutOK`), which is why it does not matter which of them a rollback reads.
* `RolledBackWasUndone`: what the runs report as changed is what a rollback that did not
  overlap finds in the result it reads (`ReportedFound`, from the two above), it has the CR to
  itself, and what is in place and was found is still to be undone or was skipped (`UndoOK`).
* All of it needs the control part: outside `overlap` at most one coroutine is active and the
  status is a function of where it is (`StatusAt`).

`AgentJobsProofs`

* `CommandsRunOnce`, `DispatchTellsTruth`, `RunningHeld`, `TypeCorrect`. `HoldInv` says who
  holds a job: a request that is still awaited is the one its agent waits for, so of all the
  polls an agent has abandoned only one can hand it a job; a job it is about to run was not
  run; a result under way is what the agent made of the job.

`TunnelProofs`

* `NobodyWaitsForever`, `AcceptedIsOnline`, `ActiveCountIsExact`, `TypeCorrect`. Together
  they are inductive but for two facts: a connection that is not registered has no dials
  (`DialsNamed`), and the dials of a connection are finitely many (`DialsFinite`), without
  which adding one to the count would mean nothing.

Only model-checked: the liveness properties (`ScheduledStarts`, `RollbackEnds`,
`RunbookAdvances`, `ExecutingEnds`, `JobSettles`, `TakesEffectUnlessEvicted`) and the fair half
of `ImplementsLifecycle`. Fairness and ENABLED are beyond the prover.

## 5. What is left

*To prove next.* What the liveness properties rest on and the prover can reach: that a coroutine,
driver or tick that has work has a step to take, and that no step takes it back (the decreasing
measures); that a runbook's CRs, as `RunbookExecution` steps them, are a behaviour of
`ChangeLifecycle`.

*Not modelled, and why.* Most of the repository's lines have no state of their own.

* Connectors and executors, more than a thousand files: calls to external systems, straight
  line code that succeeds, fails or raises. Their callers are modelled with all three.
* Planning engine, catalog and templates: tables and text.
* CRUD routers (assets, vulnerability, compliance, users and the rest), MCP wrappers of
  modelled services, the frontend, image building: one read or one write per request.
* Fleet batches: the dispatch builds `AgentJob` rows with columns the model class does not
  have, so there is no behaviour to be faithful to.
* Recurring jobs and escalations: cron arithmetic and further creators of CRs, which enter
  in a state the models start from.
* Of the modelled components: the score and content of a plan, batch creation of CRs,
  editing of runbooks and the cron trigger, registration of agents and signatures, the
  tunnel's frames, flow control, tokens and the idle reaper of listeners, audit events and
  notifications.

## 6. Divergences for which no run is kept

The models contain these behaviours; each was seen in a TLC trace or follows from one
action. They are why the properties above have the exceptions they have.

Execution and approval

* `routers/change_requests.py:571`: the first-in-last-out check looks for later CRs that
  are `completed`, so a rollback is accepted below a change whose rollback failed, although
  the comment at :560 asks for strict order.
* `workflows/activities.py:77`: completions that overlap read the same maximum and get the
  same `application_sequence`; `models/change_request.py:728` calls it monotonic (`raced`).
* `main.py:194`: a restarting process fails the CRs in flight of the other process, and
  `docker-compose.prod.yml:60` starts two.
* `workflows/execute_change_workflow.py:49`: a CR cancelled after the start of its workflow
  is set to `executing` all the same.
* `routers/assets.py:499`: rollback-all writes `rolled_back` over the outcome of a failed
  rollback (`SAFE_EXECUTION_CONTRACT.md:235`).
* A double start (a double click, the schedulers of two processes) makes both workflows
  report to the later run; the earlier one stays `pending` (`doubled`).
* A metadata hook that raises leaves its CR `executing` until a restart (`HookRaise`), and an
  automatic rollback that raises leaves its CR as it is (`AutoRollbackRaise`); both are in
  `lost`.
* `routers/change_requests.py:263`: a request checks the CR it has read and commits later. A
  planning request that is overtaken by an approval or by a start replaces the plan, so that
  the one that runs is not the one that was approved, and one that overlaps a cancellation
  brings the CR back. `approval` contains these runs: `LifecycleForward` lets a CR go back
  only by the commit of a request that was overtaken, and `RanWhatWasApproved` and
  `AwaitingUnsatisfied` hold until a commit of the kinds they name is `late`.
* `services/scheduler_service.py:324`: nothing promotes a CR that is queued for a
  maintenance window, which `ChangeRequestDetail.tsx:420` announces.
* A freeze is a gate of `POST /execute` only: the MCP tool and the scheduler start an
  approved CR during one.

Project rollback and runbooks

* A rollback that is still `pending` when its process dies is never taken up, since
  startup looks for `running` ones; `docs/product/ARCHITECTURE_MAP.md:132` says rollbacks
  resume.
* A decision on a failed step starts no driver, nor does a resume that meets one about to
  return: the rollback stays `running` and stands still (`dropped`). Two processes may drive
  one rollback (`twin`); a crash during a step rolls its CR back a second time; a pause
  between a resume and the driver's first commit is overwritten.
* `project_rollback_service.py:132` sorts members of different assets by numbers that
  count per asset.
* Ticks of two processes fire a step's CRs twice; a tick that dies or raises after firing
  fires again; a CR that ends `rollback_failed`, `rollback_partial` or `paused` holds its
  runbook up for ever (`Stalled`).

Rotations

* `credential_rotation_executor.py:59` "Updates ExecutionRun.result after every step": the
  in-place list makes the ORM write the first assignment and none after it, so a crash, or
  a second failure after a resume, leaves fewer completed steps on record than there are.
* `credential_rotation_executor.py:113`: a step that took effect and then failed, in the
  connector or in the commit behind it, is executed a second time by a retry, and neither a
  skip nor a rollback undoes it (`half`).
* A fan-out that is resumed and succeeds completes its run and leaves the CR `executing`.
* Retry, resume and skip of a paused cluster upgrade go to `execute_steps` too, and its
  retry-verify is always refused; its rollback after completion reads nothing.
* A re-scan that fails during the verification of a fan-out counts as verified, and a
  failed rotation of the credential itself is ignored.
* The rollback of a certificate dependent of kind Kubernetes secret claims success.

Tunnel

* `routers/agent.py:162-165` says that "changing the allowlist takes effect within one poll
  interval, without a restart": the end of the old connection removes the entry of the new
  one, and the agent stays offline while connected (`evicted`). A change that is taken back
  before the supervisor sees it may leave the allowlist in between in force (`reverted`).
* `routers/agent_tunnel_admin.py:6-9` says that entries are "validated on write with the same
  parser the relay + agent enforce, so a bad rule is rejected up front". The agent's
  `ParseAllowlist` (`allowlist.go:28`) refuses a blank entry and `10.0.0.0/33`, which
  `parse_allowlist` (`authorizer.py:80-95`) lets through, and `Run` then returns for good
  (`tunnel.go:41-44`). Of such an allowlist `TakesEffectUnlessEvicted` says no more
  than that the tunnel is down.
