---------------------------- MODULE ApprovalFlow ----------------------------
(***************************************************************************)
(* The life of one change request from draft to the start of its           *)
(* execution: planning, submission, approval and rejection, through the    *)
(* REST routes and through the MCP tools, together with the gates of the   *)
(* routes that start it.                                                   *)
(*                                                                         *)
(* A request handler reads the row and checks it, and commits later; none  *)
(* of these handlers selects FOR UPDATE, so that a request may commit what *)
(* its check would refuse by now.  An action ...Read is everything up to   *)
(* the last check, an action ...Commit the rest.  What the ORM commits is  *)
(* the columns whose value differs from the one it read.                   *)
(***************************************************************************)
EXTENDS Naturals, FiniteSets

CONSTANTS
  Users,              \* users of the organization
  NoUser,             \* "no user"
  Role,               \* Role[u]: users.role
  Requester,          \* change_requests.requester_id
  Handlers,           \* slots for requests being served
  Risks,              \* risk levels that score_change_request can assign
  WindowsConfigured,  \* the organization has an enabled maintenance window
  HardWindow,         \* ... with hard enforcement
  Emergency,          \* the CR has priority emergency
  MaxPlans,           \* bound on plan generations
  MaxVotes            \* bound on rows of approvals

RiskLevel == {"low", "medium", "high", "critical"}
UserRole  == {"admin", "security_operator", "approver", "auditor"}

ASSUME ApprovalAssumption ==
  /\ NoUser \notin Users /\ Requester \in Users
  /\ Role \in [Users -> UserRole]
  /\ Risks \subseteq RiskLevel
  /\ {WindowsConfigured, HardWindow, Emergency} \subseteq BOOLEAN
  /\ MaxPlans \in Nat /\ MaxVotes \in Nat

VARIABLES
  status,    \* change_requests.status
  risk,      \* change_requests.risk_level
  plan,      \* generation of the CR's change_plans row, 0 when it has none
  votes,     \* rows of approvals
  nvotes,    \* rows of approvals inserted so far
  req,       \* req[h]: the request in slot h, with what it has read
  frozen,    \* a change freeze is active
  open,      \* a maintenance window is open
  granter,   \* history: who moved the CR to approved or queued last
  granted,   \* history: the plan generation that request had read
  ran,       \* history: the plan generation whose execution started last
  late       \* history: the operations that committed although the status was no
             \* longer the one they had read

vars == <<status, risk, plan, votes, nvotes, req, frozen, open,
          granter, granted, ran, late>>
row     == <<status, risk, plan>>
table   == <<votes, nvotes>>
clock   == <<frozen, open>>
history == <<granter, granted, ran>>
-----------------------------------------------------------------------------
Status   == {"draft", "planned", "awaiting_approval", "approved",
             "queued_for_maintenance", "executing", "rejected"}
Decision == {"approved", "rejected"}
Op == {"idle", "plan", "submit", "approve", "reject", "bulk", "cancel", "execute",
       "mcpplan", "mcprefresh", "mcpsubmit", "mcpapprove", "mcpreject"}

Idle == [op |-> "idle", user |-> NoUser, decision |-> "approved", saw |-> "draft",
         plan |-> 0, risk |-> "medium", doomed |-> {}]

Approvers == {u \in Users : Role[u] \in {"approver", "admin"}}

\* check_approval_requirements: an admin counts for every role and is enough
\* alone; low takes no plain approver, high and critical must include an admin.
\* (Two rows of one user count twice, as the code has it.)
Satisfied(r, rows) ==
  LET approved == {v \in rows : v.decision = "approved"}
      given    == {Role[v.user] : v \in approved}
      roles    == IF "admin" \in given THEN given \cup {"approver", "security_operator"}
                  ELSE given
      needed   == IF "admin" \in roles \/ r \in {"low", "medium"} THEN 1 ELSE 2
  IN /\ Cardinality(approved) >= needed
     /\ r = "low" => roles \cap {"security_operator", "admin"} # {}
     /\ r = "medium" => roles \cap {"approver", "admin"} # {}
     /\ r \in {"high", "critical"} => {"approver", "admin"} \subseteq roles
-----------------------------------------------------------------------------
(* Handlers.                                                               *)

At(h, op) == req[h].op = op
Become(h, r) == req' = [req EXCEPT ![h] = r]
Finish(h) == Become(h, Idle)

\* (Of the columns it reads, the ones its commit uses.)
Reading(op, u, d) ==
  [op |-> op, user |-> u, decision |-> d, saw |-> status,
   plan |-> IF op \in {"plan", "mcpplan", "approve", "bulk", "mcpapprove"} THEN plan ELSE 0,
   risk |-> IF op \in {"plan", "mcpplan", "approve"} THEN risk ELSE "medium", doomed |-> {}]

\* A free slot reads the CR; nothing is written yet.
Read(h, r) == At(h, "idle") /\ Become(h, r) /\ UNCHANGED <<row, table, clock, history>>

\* Bounds, counting what requests under way are going to insert.
Pending(ops) == Cardinality({h \in Handlers : req[h].op \in ops})
RoomForPlan == plan + Pending({"plan", "mcpplan"}) < MaxPlans
RoomForVote == nvotes + Pending({"approve", "reject", "mcpapprove", "mcpreject"}) < MaxVotes

\* The row of approvals that request h inserts.
Vote(h) == [id |-> nvotes + 1, user |-> req[h].user, decision |-> req[h].decision]
AddVote(h) == votes' = votes \cup {Vote(h)} /\ nvotes' = nvotes + 1

Grant(h) == granter' = req[h].user /\ granted' = req[h].plan /\ ran' = ran

\* The status has changed since request h read it, or, for an MCP submission, since
\* the CR was planned.
Overtaken(h) == status # IF At(h, "mcpsubmit") THEN "planned" ELSE req[h].saw
-----------------------------------------------------------------------------
(* Planning and submission.                                                *)

\* POST /plan.  The DELETE takes the rows of approvals it finds now.
PlanRead(h) ==
  /\ status \in {"draft", "planned"} /\ RoomForPlan
  /\ Read(h, [Reading("plan", NoUser, "approved") EXCEPT !.doomed = {v.id : v \in votes}])

\* plan_cr: a plan, in place of the one it read, a risk and status planned.
\* change_request_id is unique in change_plans: of two first plans one fails.
StorePlan(h) ==
  /\ req[h].plan = 0 => plan = 0
  /\ plan' = plan + 1
  /\ \E r \in Risks : risk' = IF r = req[h].risk THEN risk ELSE r
  /\ status' = IF req[h].saw = "planned" THEN status ELSE "planned"

PlanCommit(h) ==
  /\ At(h, "plan")
  /\ StorePlan(h)
  /\ votes' = {v \in votes : v.id \notin req[h].doomed}
  /\ Finish(h)
  /\ UNCHANGED <<nvotes, clock, history>>

\* The safety review blocked the plan, or the INSERT found another plan: the
\* session is rolled back, the DELETE with it.
PlanFail(h) ==
  /\ req[h].op \in {"plan", "mcpplan"}
  /\ Finish(h)
  /\ UNCHANGED <<row, table, clock, history>>

SubmitRead(h) ==
  /\ status = "planned" /\ plan # 0
  /\ Read(h, Reading("submit", NoUser, "approved"))

SubmitCommit(h) ==
  /\ At(h, "submit")
  /\ status' = "awaiting_approval"
  /\ Finish(h)
  /\ UNCHANGED <<risk, plan, table, clock, history>>

\* Mutant: a draft is submitted without a plan.
McpSubmitReadUnplanned(h) ==
  /\ status \in {"draft", "planned"} /\ RoomForPlan
  /\ Read(h, Reading("mcpsubmit", NoUser, "approved"))

\* The MCP tool submits a draft too, and then plans it first.
McpSubmitRead(h) ==
  /\ \/ status = "draft" /\ RoomForPlan /\ Read(h, Reading("mcpplan", NoUser, "approved"))
     \/ status = "planned" /\ Read(h, Reading("mcpsubmit", NoUser, "approved"))

McpPlanCommit(h) ==
  /\ At(h, "mcpplan")
  /\ StorePlan(h)
  /\ Become(h, [req[h] EXCEPT !.op = "mcprefresh"])
  /\ UNCHANGED <<table, clock, history>>

McpRefresh(h) ==
  /\ At(h, "mcprefresh")
  /\ Become(h, Reading("mcpsubmit", NoUser, "approved"))
  /\ UNCHANGED <<row, table, clock, history>>

McpSubmitCommit(h) ==
  /\ At(h, "mcpsubmit")
  /\ status' = IF req[h].saw = "awaiting_approval" THEN status ELSE "awaiting_approval"
  /\ Finish(h)
  /\ UNCHANGED <<risk, plan, table, clock, history>>
-----------------------------------------------------------------------------
(* Approval and rejection.                                                 *)

\* POST /approve, with either decision
ApproveRead(h, u, d) ==
  /\ ~frozen /\ RoomForVote
  /\ status = "awaiting_approval" /\ u \in Approvers
  /\ \A v \in votes : v.user # u
  /\ Read(h, Reading("approve", u, d))

\* Mutant: the requirements are checked before the new row is flushed.
ApproveCommitUnflushed(h) ==
  /\ At(h, "approve")
  /\ AddVote(h)
  /\ IF req[h].decision = "approved" /\ Satisfied(req[h].risk, votes)
     THEN Grant(h) /\ status' = "approved"
     ELSE UNCHANGED <<status, history>>
  /\ Finish(h)
  /\ UNCHANGED <<risk, plan, clock>>

\* Mutant: a status that ChangeRequestStatus does not have.
ApproveCommitQueued(h) ==
  /\ At(h, "approve")
  /\ AddVote(h)
  /\ IF req[h].decision = "approved" /\ Satisfied(req[h].risk, votes')
     THEN Grant(h) /\ status' = IF WindowsConfigured /\ ~open THEN "queued" ELSE "approved"
     ELSE UNCHANGED <<status, history>>
  /\ Finish(h)
  /\ UNCHANGED <<risk, plan, clock>>

\* The requirements are checked against all rows, and the risk that was read.
ApproveCommit(h) ==
  /\ At(h, "approve")
  /\ AddVote(h)
  /\ IF req[h].decision = "approved" /\ Satisfied(req[h].risk, votes')
     THEN /\ Grant(h)
          /\ status' = IF WindowsConfigured /\ ~open THEN "queued_for_maintenance"
                       ELSE "approved"
     ELSE UNCHANGED <<status, history>>
  /\ Finish(h)
  /\ UNCHANGED <<risk, plan, clock>>

RejectRead(h, u) ==
  /\ status = "awaiting_approval" /\ u \in Approvers /\ RoomForVote
  /\ Read(h, Reading("reject", u, "rejected"))

RejectCommit(h) ==
  /\ At(h, "reject")
  /\ AddVote(h)
  /\ status' = "rejected"
  /\ Finish(h)
  /\ UNCHANGED <<risk, plan, clock, history>>

\* Mutant: the role is not looked at.
BulkReadAnyone(h, u, d) ==
  /\ status = "awaiting_approval"
  /\ ~(risk = "critical" /\ d = "approved")
  /\ Read(h, Reading("bulk", u, d))

\* POST /bulk-approve inserts no row of approvals and checks no requirements.
BulkRead(h, u, d) ==
  /\ status = "awaiting_approval" /\ u \in Approvers
  /\ ~(risk = "critical" /\ d = "approved")
  /\ Read(h, Reading("bulk", u, d))

BulkCommit(h) ==
  /\ At(h, "bulk")
  /\ status' = req[h].decision
  /\ IF req[h].decision = "approved" THEN Grant(h) ELSE UNCHANGED history
  /\ Finish(h)
  /\ UNCHANGED <<risk, plan, table, clock>>

Cancelable == {"draft", "planned", "awaiting_approval", "approved",
               "queued_for_maintenance"}

CancelRead(h, u) ==
  /\ status \in Cancelable
  /\ u = Requester \/ u \in Approvers
  /\ Read(h, Reading("cancel", NoUser, "rejected"))

CancelCommit(h) ==
  /\ At(h, "cancel")
  /\ status' = "rejected"
  /\ Finish(h)
  /\ UNCHANGED <<risk, plan, table, clock, history>>

\* Mutant: a CR that was rejected can be approved after all.
McpApproveReadRejected(h, u) ==
  /\ u \in Approvers /\ u # Requester /\ RoomForVote
  /\ status \in {"draft", "awaiting_approval", "rejected"}
  /\ Read(h, Reading("mcpapprove", u, "approved"))

\* The MCP tool approves drafts as well, whatever the requirements say.
McpApproveRead(h, u) ==
  /\ u \in Approvers /\ u # Requester /\ RoomForVote
  /\ status \in {"draft", "awaiting_approval"}
  /\ Read(h, Reading("mcpapprove", u, "approved"))

McpApproveCommit(h) ==
  /\ At(h, "mcpapprove")
  /\ AddVote(h)
  /\ Grant(h)
  /\ status' = "approved"
  /\ Finish(h)
  /\ UNCHANGED <<risk, plan, clock>>

\* ... and rejects in any status.
McpRejectRead(h, u) ==
  /\ u \in Approvers /\ RoomForVote
  /\ Read(h, Reading("mcpreject", u, "rejected"))

McpRejectCommit(h) ==
  /\ At(h, "mcpreject")
  /\ AddVote(h)
  /\ status' = IF req[h].saw = "rejected" THEN status ELSE "rejected"
  /\ Finish(h)
  /\ UNCHANGED <<risk, plan, clock, history>>
-----------------------------------------------------------------------------
(* Starting the execution.                                                 *)

\* is_in_maintenance_window: an open window with hard enforcement blocks.
HardBlocked == WindowsConfigured /\ HardWindow /\ open

\* POST /execute.
ExecuteRead(h) ==
  /\ ~frozen
  /\ status = "approved" /\ risk # "critical"
  /\ HardBlocked => Emergency
  /\ Read(h, Reading("execute", NoUser, "approved"))

\* Mutant: a CR that awaits approval is started too.
StartReadUnapproved(h) ==
  /\ status \in {"awaiting_approval", "approved"}
  /\ Read(h, Reading("execute", NoUser, "approved"))

\* The MCP tool and the scheduled-CR worker check the status only.
StartRead(h) ==
  /\ status = "approved"
  /\ Read(h, Reading("execute", NoUser, "approved"))

\* ChangeExecutionService.start and the first steps of the workflow, which
\* reads the plan of that moment (ChangeExecution has them one by one).
ExecuteCommit(h) ==
  /\ At(h, "execute")
  /\ status' = "executing"
  /\ ran' = plan
  /\ Finish(h)
  /\ UNCHANGED <<risk, plan, table, clock, granter, granted>>
-----------------------------------------------------------------------------
(* Time.                                                                   *)

\* require_no_active_freeze finds a freeze from now on, or none any more.
FreezeTick == frozen' = ~frozen /\ UNCHANGED <<row, table, req, open, history>>

\* is_window_open_for_org changes its answer.  No CR is promoted when it does: the
\* body of promote_queued_changes is empty, and no job calls it.
WindowTick == WindowsConfigured /\ open' = ~open
                /\ UNCHANGED <<row, table, req, frozen, history>>
-----------------------------------------------------------------------------
Init ==
  /\ status = "draft" /\ risk = "medium" /\ plan = 0
  /\ votes = {} /\ nvotes = 0
  /\ req = [h \in Handlers |-> Idle]
  /\ frozen = FALSE /\ open = FALSE
  /\ granter = NoUser /\ granted = 0 /\ ran = 0
  /\ late = {}

Commit(h) ==
  /\ \/ PlanCommit(h) \/ SubmitCommit(h) \/ McpPlanCommit(h) \/ McpSubmitCommit(h)
     \/ ApproveCommit(h) \/ RejectCommit(h) \/ BulkCommit(h) \/ CancelCommit(h)
     \/ McpApproveCommit(h) \/ McpRejectCommit(h) \/ ExecuteCommit(h)
  /\ late' = IF Overtaken(h) THEN late \cup {req[h].op} ELSE late

Request(h) ==
  \/ PlanRead(h) \/ SubmitRead(h) \/ McpSubmitRead(h)
  \/ ExecuteRead(h) \/ StartRead(h) \/ PlanFail(h) \/ McpRefresh(h)
  \/ \E u \in Users :
       \/ RejectRead(h, u) \/ CancelRead(h, u)
       \/ McpApproveRead(h, u) \/ McpRejectRead(h, u)
       \/ \E d \in Decision : ApproveRead(h, u, d) \/ BulkRead(h, u, d)

Next ==
  \/ \E h \in Handlers : Commit(h)
  \/ (\E h \in Handlers : Request(h)) /\ UNCHANGED late
  \/ (FreezeTick \/ WindowTick) /\ UNCHANGED late

Spec == Init /\ [][Next]_vars
-----------------------------------------------------------------------------
(* Properties.                                                             *)

VoteType == [id : 1..nvotes, user : Users, decision : Decision]
ReqType  == [op : Op, user : Users \cup {NoUser}, decision : Decision, saw : Status,
             plan : Nat, risk : RiskLevel, doomed : SUBSET Nat]

\* The columns hold values of their types.
TypeOK ==
  /\ status \in Status /\ risk \in RiskLevel /\ plan \in Nat
  /\ nvotes \in Nat /\ votes \subseteq VoteType
  /\ req \in [Handlers -> ReqType]
  /\ frozen \in BOOLEAN /\ open \in BOOLEAN
  /\ granter \in Users \cup {NoUser} /\ granted \in Nat /\ ran \in Nat
  /\ late \subseteq Op

\* However requests overlap, a CR that was approved, is queued or executes was
\* let through by a user with the role of an approver or an admin.
GrantedByApprover ==
  status \in {"approved", "queued_for_maintenance", "executing"} => granter \in Approvers

\* However requests overlap, a CR that awaits approval has a plan to look at.
SubmittedHasPlan ==
  status \in {"planned", "awaiting_approval"} => plan # 0

\* What executes is the plan the approver's request had before it, however requests
\* overlap; unless a planning request replaced the plan after the CR had moved on,
\* or an MCP approval of a draft was overtaken by its planning.
RanWhatWasApproved ==
  (status = "executing" /\ late \cap {"plan", "mcpplan", "mcpapprove"} = {}) => ran = granted

\* No CR waits for an approval it already has (the approver could not vote again):
\* of requests that overlap, the vote that completes the requirements also moves
\* the CR on.  Unless a planning request changed the risk after the vote, or a
\* second submission moved a CR back that was approved meanwhile.
AwaitingUnsatisfied ==
  (status = "awaiting_approval" /\ late \cap {"plan", "mcpplan", "submit", "mcpsubmit"} = {}) =>
    ~Satisfied(risk, votes)

Stage == [s \in Status |-> CASE s = "draft" -> 0
                             [] s = "planned" -> 1
                             [] s = "awaiting_approval" -> 2
                             [] s \in {"approved", "queued_for_maintenance"} -> 3
                             [] s = "executing" -> 4
                             [] s = "rejected" -> 5]

\* ARCHITECTURE_MAP.md:173 draws the lifecycle as a path: a CR goes back to an
\* earlier stage, or leaves the rejected ones, only by the commit of a request that
\* was overtaken.  (So planning revives a CR that was cancelled meanwhile.)
LifecycleForward ==
  [][ \/ Stage[status'] >= Stage[status]
      \/ \E h \in Handlers : Overtaken(h) /\ req'[h] # req[h] ]_vars
=============================================================================
