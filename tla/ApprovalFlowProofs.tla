-------------------------- MODULE ApprovalFlowProofs --------------------------
(***************************************************************************)
(* Proofs about ApprovalFlow, for any number of overlapping requests.      *)
(***************************************************************************)
EXTENDS ApprovalFlow, FiniteSetTheorems, TLAPS

\* Requests that insert a row of approvals or decide in bulk, and those that can
\* approve.
Voting   == {"approve", "reject", "mcpapprove", "mcpreject", "bulk"}
Granting == {"approve", "bulk", "mcpapprove"}

\* The statuses in which a request passes its check, by its operation.
MayHaveRead ==
  [op \in Op |->
     CASE op = "plan" -> {"draft", "planned"}
       [] op = "mcpplan" -> {"draft"}
       [] op = "submit" -> {"planned"}
       [] op \in {"approve", "reject", "bulk"} -> {"awaiting_approval"}
       [] op = "mcpapprove" -> {"draft", "awaiting_approval"}
       [] op = "cancel" -> Cancelable
       [] op = "execute" -> {"approved"}
       [] OTHER -> Status]

LEMMA ReadValues ==
  /\ MayHaveRead["plan"] = {"draft", "planned"} /\ MayHaveRead["mcpplan"] = {"draft"}
  /\ MayHaveRead["submit"] = {"planned"}
  /\ \A op \in {"approve", "reject", "bulk"} : MayHaveRead[op] = {"awaiting_approval"}
  /\ MayHaveRead["mcpapprove"] = {"draft", "awaiting_approval"}
  /\ MayHaveRead["cancel"] = Cancelable /\ MayHaveRead["execute"] = {"approved"}
  BY DEF MayHaveRead, Op

\* What request r, just checked in slot h, has read and made sure of.
Checked(h, r) ==
  /\ r.op \notin {"idle", "mcprefresh"} /\ r.saw = status
  /\ status \in MayHaveRead[r.op]
  /\ r.op = "submit" => plan # 0
  /\ r.op = "mcpsubmit" => status = "planned" \/ At(h, "mcprefresh")
  /\ r.op \in Voting => r.user \in Users
  /\ r.op \in Granting => r.user \in Approvers /\ r.plan = plan
  /\ r.op = "approve" => r.risk = risk
  /\ r.op = "mcpreject" => r.decision = "rejected"

LEMMA IdleType == Idle \in ReqType
  BY DEF Idle, ReqType, Op, Decision, Status, RiskLevel

LEMMA ReadingType ==
  ASSUME TypeOK, NEW op \in Op, NEW u \in Users \cup {NoUser}, NEW d \in Decision
  PROVE  Reading(op, u, d) \in ReqType
<1>1. (IF op \in {"plan", "mcpplan", "approve", "bulk", "mcpapprove"} THEN plan ELSE 0) \in Nat
  BY DEF TypeOK
<1>2. (IF op \in {"plan", "mcpplan", "approve"} THEN risk ELSE "medium") \in RiskLevel
  BY DEF TypeOK, RiskLevel
<1> QED BY <1>1, <1>2 DEF TypeOK, Reading, ReqType

\* A step of the first kind writes nothing but its own slot, which is free
\* afterwards or holds a request that has been checked against the row.
LEMMA RequestReads ==
  ASSUME TypeOK, NEW h \in Handlers, Request(h)
  PROVE  /\ UNCHANGED <<row, table, clock, history>>
         /\ \E r \in ReqType : Become(h, r) /\ (r = Idle \/ Checked(h, r))
<1> DEFINE Good(r) == r \in ReqType /\ Read(h, r) /\ Checked(h, r)
<1> USE ReadValues DEF Checked, Voting, Granting, Op, Decision
<1>1. \A op \in Op, u \in Users \cup {NoUser}, d \in Decision : Reading(op, u, d) \in ReqType
  BY ReadingType
<1>2. status \in Status BY DEF TypeOK
<1>3. ASSUME PlanRead(h) PROVE \E r : Good(r)
  <2> DEFINE r == [Reading("plan", NoUser, "approved") EXCEPT !.doomed = {v.id : v \in votes}]
  <2>1. {v.id : v \in votes} \in SUBSET Nat BY DEF TypeOK, VoteType
  <2>2. r \in ReqType BY <1>1, <2>1 DEF Reading, ReqType
  <2>3. Read(h, r) /\ Checked(h, r) BY <1>3 DEF PlanRead, Reading
  <2> QED BY <2>2, <2>3
<1>4. ASSUME SubmitRead(h) PROVE Good(Reading("submit", NoUser, "approved"))
  BY <1>1, <1>4 DEF SubmitRead, Reading
<1>5. ASSUME McpSubmitRead(h)
      PROVE  \E op \in {"mcpplan", "mcpsubmit"} : Good(Reading(op, NoUser, "approved"))
  <2>1. MayHaveRead["mcpsubmit"] = Status BY DEF MayHaveRead
  <2> QED BY <1>1, <1>2, <1>5, <2>1 DEF McpSubmitRead, Reading
<1>6. ASSUME ExecuteRead(h) \/ StartRead(h) PROVE Good(Reading("execute", NoUser, "approved"))
  BY <1>1, <1>6 DEF ExecuteRead, StartRead, Reading
<1>7. ASSUME NEW u \in Users, RejectRead(h, u) PROVE Good(Reading("reject", u, "rejected"))
  BY <1>1, <1>7 DEF RejectRead, Reading
<1>8. ASSUME NEW u \in Users, CancelRead(h, u) PROVE Good(Reading("cancel", NoUser, "rejected"))
  BY <1>1, <1>8 DEF CancelRead, Reading
<1>9. ASSUME NEW u \in Users, McpApproveRead(h, u)
      PROVE  Good(Reading("mcpapprove", u, "approved"))
  BY <1>1, <1>9 DEF McpApproveRead, Reading
<1>10. ASSUME NEW u \in Users, McpRejectRead(h, u)
       PROVE  Good(Reading("mcpreject", u, "rejected"))
  <2>1. MayHaveRead["mcpreject"] = Status BY DEF MayHaveRead
  <2> QED BY <1>1, <1>2, <1>10, <2>1 DEF McpRejectRead, Reading
<1>11. ASSUME NEW u \in Users, NEW d \in Decision, ApproveRead(h, u, d)
       PROVE  Good(Reading("approve", u, d))
  BY <1>1, <1>11 DEF ApproveRead, Reading
<1>12. ASSUME NEW u \in Users, NEW d \in Decision, BulkRead(h, u, d)
       PROVE  Good(Reading("bulk", u, d))
  BY <1>1, <1>12, <1>2 DEF BulkRead, Reading, Approvers
<1>13. ASSUME PlanFail(h)
       PROVE  /\ UNCHANGED <<row, table, clock, history>>
              /\ \E r \in ReqType : Become(h, r) /\ (r = Idle \/ Checked(h, r))
  BY <1>13, IdleType DEF PlanFail, Finish
<1>14. ASSUME McpRefresh(h)
       PROVE  /\ UNCHANGED <<row, table, clock, history>>
              /\ \E r \in ReqType : Become(h, r) /\ (r = Idle \/ Checked(h, r))
  <2> DEFINE r == Reading("mcpsubmit", NoUser, "approved")
  <2>1. MayHaveRead["mcpsubmit"] = Status BY DEF MayHaveRead
  <2>2. r \in ReqType BY <1>1
  <2>3. Checked(h, r) BY <1>2, <1>14, <2>1 DEF McpRefresh, Reading
  <2> QED BY <1>14, <2>2, <2>3 DEF McpRefresh
<1>15. ASSUME NEW r, Good(r)
       PROVE  /\ UNCHANGED <<row, table, clock, history>>
              /\ \E s \in ReqType : Become(h, s) /\ (s = Idle \/ Checked(h, s))
  <2>1. UNCHANGED <<row, table, clock, history>> /\ Become(h, r) BY <1>15 DEF Read
  <2> QED BY <1>15, <2>1
<1> HIDE DEF Good
<1> QED BY <1>3, <1>4, <1>5, <1>6, <1>7, <1>8, <1>9, <1>10, <1>11, <1>12, <1>13, <1>14, <1>15
        DEF Request

\* A step of the second kind answers a request, or takes it past its plan, and
\* records it when it was late.
LEMMA CommitAnswered ==
  ASSUME NEW h \in Handlers, Commit(h)
  PROVE  /\ req[h].op \notin {"idle", "mcprefresh"}
         /\ \/ Finish(h)
            \/ At(h, "mcpplan") /\ Become(h, [req[h] EXCEPT !.op = "mcprefresh"])
         /\ late \subseteq late'
         /\ Overtaken(h) => req[h].op \in late'
<1>1. late \subseteq late' /\ (Overtaken(h) => req[h].op \in late')
  BY DEF Commit
<1>2. CASE McpPlanCommit(h) BY <1>1, <1>2 DEF McpPlanCommit, At
<1>3. CASE ~McpPlanCommit(h)
  BY <1>1, <1>3
  DEF At, Commit, PlanCommit, SubmitCommit, McpSubmitCommit, ApproveCommit, RejectCommit,
      BulkCommit, CancelCommit, McpApproveCommit, McpRejectCommit, ExecuteCommit
<1> QED BY <1>2, <1>3
-----------------------------------------------------------------------------
(* Types.                                                                  *)

LEMMA VoteTyped ==
  ASSUME TypeOK, NEW h \in Handlers, req[h].user \in Users, AddVote(h)
  PROVE  nvotes' \in Nat /\ (votes \subseteq VoteType)'
<1>1. req[h] \in ReqType BY DEF TypeOK
<1>2. Vote(h) \in [id : 1..(nvotes + 1), user : Users, decision : Decision]
  BY <1>1 DEF Vote, ReqType, TypeOK
<1>3. votes \subseteq [id : 1..(nvotes + 1), user : Users, decision : Decision]
  BY DEF TypeOK, VoteType
<1> QED BY <1>2, <1>3 DEF AddVote, VoteType, TypeOK

\* Requests that insert a row of approvals, and approvals in bulk, have a user.
VotersInv == \A h \in Handlers : req[h].op \in Voting => req[h].user \in Users

LEMMA StorePlanType ==
  ASSUME TypeOK, ApprovalAssumption, NEW h \in Handlers, StorePlan(h)
  PROVE  status' \in Status /\ risk' \in RiskLevel /\ plan' \in Nat
  BY DEF TypeOK, StorePlan, ApprovalAssumption, Status

LEMMA TypeStep ==
  ASSUME TypeOK, VotersInv, ApprovalAssumption, [Next]_vars
  PROVE  TypeOK' /\ VotersInv'
<1> USE DEF Become, Finish, At
<1>1. ASSUME NEW h \in Handlers, Request(h), UNCHANGED late PROVE TypeOK' /\ VotersInv'
  <2>1. PICK r \in ReqType : Become(h, r) /\ (r = Idle \/ Checked(h, r))
    BY <1>1, RequestReads
  <2>2. UNCHANGED <<row, table, clock, history>> BY <1>1, RequestReads
  <2>3. r.op \in Voting => r.user \in Users BY <2>1 DEF Checked, Idle, Voting
  <2>4. req' \in [Handlers -> ReqType] BY <2>1 DEF TypeOK
  <2>5. VotersInv' BY <2>1, <2>3 DEF VotersInv, TypeOK
  <2> QED BY <1>1, <2>2, <2>4, <2>5 DEF TypeOK, VoteType, row, table, clock, history
<1>2. ASSUME NEW h \in Handlers, Commit(h) PROVE TypeOK' /\ VotersInv'
  <2>a. req[h] \in ReqType BY DEF TypeOK
  <2>0. VotersInv' /\ req' \in [Handlers -> ReqType]
    <3>1. CASE Finish(h) BY <3>1, IdleType DEF VotersInv, TypeOK, Idle, Voting
    <3>2. CASE Become(h, [req[h] EXCEPT !.op = "mcprefresh"])
      BY <3>2, <2>a DEF VotersInv, TypeOK, ReqType, Op, Voting
    <3> QED BY <1>2, <3>1, <3>2, CommitAnswered
  <2>b. late' \subseteq Op BY <1>2, <2>a DEF Commit, ReqType, TypeOK
  <2> USE DEF Voting
  <2>1. CASE PlanCommit(h)
    BY <2>0, <2>b, <2>1, StorePlanType DEF PlanCommit, TypeOK, VoteType, clock, history
  <2>2. CASE SubmitCommit(h) \/ McpSubmitCommit(h) \/ CancelCommit(h)
    BY <2>0, <2>b, <2>2
    DEF SubmitCommit, McpSubmitCommit, CancelCommit, TypeOK, VoteType, Status, table, clock, history
  <2>3. CASE McpPlanCommit(h)
    BY <2>0, <2>b, <2>3, StorePlanType DEF McpPlanCommit, TypeOK, VoteType, table, clock, history
  <2>4. CASE ApproveCommit(h)
    BY <2>0, <2>b, <2>4, <2>a, VoteTyped
    DEF ApproveCommit, TypeOK, VotersInv, Grant, Status, ReqType, clock, history
  <2>5. CASE RejectCommit(h) \/ McpRejectCommit(h)
    BY <2>0, <2>b, <2>5, <2>a, VoteTyped
    DEF RejectCommit, McpRejectCommit, TypeOK, VotersInv, Status, ReqType, clock, history
  <2>6. CASE McpApproveCommit(h)
    BY <2>0, <2>b, <2>6, <2>a, VoteTyped
    DEF McpApproveCommit, TypeOK, VotersInv, Grant, Status, ReqType, clock, history
  <2>7. CASE BulkCommit(h)
    BY <2>0, <2>b, <2>7, <2>a
    DEF BulkCommit, TypeOK, VotersInv, Grant, Status, Decision, ReqType, VoteType, table, clock,
        history
  <2>8. CASE ExecuteCommit(h)
    BY <2>0, <2>b, <2>8 DEF ExecuteCommit, TypeOK, VoteType, Status, table, clock
  <2> QED BY <1>2, <2>1, <2>2, <2>3, <2>4, <2>5, <2>6, <2>7, <2>8 DEF Commit
<1>3. CASE ((FreezeTick \/ WindowTick) /\ UNCHANGED late) \/ UNCHANGED vars
  BY <1>3 DEF FreezeTick, WindowTick, vars, TypeOK, VotersInv, VoteType, row, table, clock, history
<1> QED BY <1>1, <1>2, <1>3 DEF Next

\* Type correctness: no handler stores a value its column cannot hold.
THEOREM TypeCorrect == Spec => []TypeOK
<1>1. Init => TypeOK /\ VotersInv
  <2> SUFFICES ASSUME Init PROVE TypeOK /\ VotersInv OBVIOUS
  <2>1. req \in [Handlers -> ReqType] BY IdleType DEF Init
  <2>2. VotersInv BY DEF Init, VotersInv, Idle, Voting
  <2> QED BY <2>1, <2>2 DEF Init, TypeOK, Status, RiskLevel
<1>2. TypeOK /\ VotersInv /\ [Next]_vars => (TypeOK /\ VotersInv)'
  BY TypeStep, ApprovalAssumption
<1> QED BY <1>1, <1>2, PTL DEF Spec
-----------------------------------------------------------------------------
(* Who grants, and what there is to grant.                                 *)

(***************************************************************************)
(* Why GrantedByApprover holds although a commit does not look at the row  *)
(* again: whoever is going to grant had the role when the request was      *)
(* checked, and whoever is going to execute saw the status approved, after *)
(* which the last granter never ceases to be an approver.                  *)
(***************************************************************************)
GrantInv ==
  /\ GrantedByApprover
  /\ \A h \in Handlers : req[h].op \in Granting => req[h].user \in Approvers
  /\ \A h \in Handlers : At(h, "execute") => granter \in Approvers

LEMMA GrantStep ==
  ASSUME TypeOK, GrantInv, [Next]_vars
  PROVE  GrantInv'
<1> USE DEF GrantInv, GrantedByApprover, Become, Finish, At, Granting
<1>1. ASSUME NEW h \in Handlers, Request(h) PROVE GrantInv'
  <2>1. PICK r \in ReqType : Become(h, r) /\ (r = Idle \/ Checked(h, r))
    BY <1>1, RequestReads
  <2>2. UNCHANGED <<row, history>> BY <1>1, RequestReads
  <2>3. /\ r.op \in Granting => r.user \in Approvers
        /\ r.op = "execute" => status = "approved"
    BY <2>1, ReadValues DEF Checked, Idle
  <2> QED BY <2>1, <2>2, <2>3 DEF TypeOK, row, history
<1>2. ASSUME NEW h \in Handlers, Commit(h) PROVE GrantInv'
  <2> USE DEF Idle, Grant, row, history, TypeOK
  <2>1. CASE PlanCommit(h) BY <2>1 DEF PlanCommit, StorePlan
  <2>2. CASE SubmitCommit(h) \/ McpSubmitCommit(h) \/ CancelCommit(h)
    BY <2>2 DEF SubmitCommit, McpSubmitCommit, CancelCommit
  <2>3. CASE McpPlanCommit(h) BY <2>3 DEF McpPlanCommit, StorePlan, ReqType
  <2>4. CASE ApproveCommit(h) BY <2>4 DEF ApproveCommit
  <2>5. CASE RejectCommit(h) \/ McpRejectCommit(h) BY <2>5 DEF RejectCommit, McpRejectCommit
  <2>6. CASE McpApproveCommit(h) BY <2>6 DEF McpApproveCommit
  <2>7. CASE BulkCommit(h) BY <2>7 DEF BulkCommit, ReqType, Decision
  <2>8. CASE ExecuteCommit(h) BY <2>8 DEF ExecuteCommit
  <2> QED BY <1>2, <2>1, <2>2, <2>3, <2>4, <2>5, <2>6, <2>7, <2>8 DEF Commit
<1>3. CASE FreezeTick \/ WindowTick \/ UNCHANGED vars
  BY <1>3 DEF FreezeTick, WindowTick, vars, row, history
<1> QED BY <1>1, <1>2, <1>3 DEF Next

\* However requests overlap, only what an approver or an admin let through is
\* approved, queued or executed.
THEOREM OnlyGranted == Spec => []GrantedByApprover
<1>1. Init => GrantInv
  BY DEF Init, GrantInv, GrantedByApprover, At, Idle, Granting
<1>2. TypeOK /\ GrantInv /\ [Next]_vars => GrantInv'
  BY GrantStep
<1>3. GrantInv => GrantedByApprover
  BY DEF GrantInv
<1> QED BY <1>1, <1>2, <1>3, TypeCorrect, PTL DEF Spec

(***************************************************************************)
(* A request that is going to submit, or to plan again, read a plan, and   *)
(* plans are never deleted; a draft has none, because the first plan also  *)
(* sets the status.                                                        *)
(***************************************************************************)
PlanInv ==
  /\ SubmittedHasPlan
  /\ status = "draft" => plan = 0
  /\ \A h \in Handlers :
       /\ req[h].op \in {"submit", "mcprefresh", "mcpsubmit"} => plan # 0
       /\ req[h].op \in {"plan", "mcpplan"} /\ req[h].saw = "planned" => plan # 0

LEMMA PlanStep ==
  ASSUME TypeOK, PlanInv, [Next]_vars
  PROVE  PlanInv'
<1> USE DEF PlanInv, SubmittedHasPlan, Become, Finish, At
<1>1. ASSUME NEW h \in Handlers, Request(h) PROVE PlanInv'
  <2>1. PICK r \in ReqType : Become(h, r) /\ (r = Idle \/ Checked(h, r))
    BY <1>1, RequestReads
  <2>2. UNCHANGED row BY <1>1, RequestReads
  <2>3. /\ r.op \in {"submit", "mcprefresh", "mcpsubmit"} => plan # 0
        /\ r.saw = "planned" => status = "planned"
    BY <2>1 DEF Checked, Idle
  <2> QED BY <2>1, <2>2, <2>3 DEF TypeOK, row
<1>2. ASSUME NEW h \in Handlers, Commit(h) PROVE PlanInv'
  <2> USE DEF Idle, row, TypeOK
  <2>1. CASE PlanCommit(h) BY <2>1 DEF PlanCommit, StorePlan
  <2>2. CASE SubmitCommit(h) \/ McpSubmitCommit(h) \/ CancelCommit(h)
    BY <2>2 DEF SubmitCommit, McpSubmitCommit, CancelCommit
  <2>3. CASE McpPlanCommit(h) BY <2>3 DEF McpPlanCommit, StorePlan, ReqType
  <2>4. CASE ApproveCommit(h) BY <2>4 DEF ApproveCommit
  <2>5. CASE RejectCommit(h) \/ McpRejectCommit(h) BY <2>5 DEF RejectCommit, McpRejectCommit
  <2>6. CASE McpApproveCommit(h) BY <2>6 DEF McpApproveCommit
  <2>7. CASE BulkCommit(h) BY <2>7 DEF BulkCommit, ReqType, Decision
  <2>8. CASE ExecuteCommit(h) BY <2>8 DEF ExecuteCommit
  <2> QED BY <1>2, <2>1, <2>2, <2>3, <2>4, <2>5, <2>6, <2>7, <2>8 DEF Commit
<1>3. CASE FreezeTick \/ WindowTick \/ UNCHANGED vars
  BY <1>3 DEF FreezeTick, WindowTick, vars, row
<1> QED BY <1>1, <1>2, <1>3 DEF Next

LEMMA PlanInit == Init => PlanInv
  BY DEF Init, PlanInv, SubmittedHasPlan, Idle, At

\* However requests overlap, what is planned or awaits approval has a plan.
THEOREM PlanBeforeApproval == Spec => []SubmittedHasPlan
<1>1. TypeOK /\ PlanInv /\ [Next]_vars => PlanInv'
  BY PlanStep
<1>2. PlanInv => SubmittedHasPlan
  BY DEF PlanInv
<1> QED BY <1>1, <1>2, PlanInit, TypeCorrect, PTL DEF Spec
-----------------------------------------------------------------------------
(* Which way a CR moves.                                                   *)

LEMMA StageValues ==
  /\ Stage["draft"] = 0 /\ Stage["planned"] = 1 /\ Stage["awaiting_approval"] = 2
  /\ Stage["approved"] = 3 /\ Stage["queued_for_maintenance"] = 3
  /\ Stage["executing"] = 4 /\ Stage["rejected"] = 5
  /\ \A s \in Status : Stage[s] \in 0..5
  BY DEF Stage, Status

\* What a request read is a status in which its check lets it through.
SawInv ==
  \A h \in Handlers :
    req[h].op \notin {"idle", "mcprefresh"} => req[h].saw \in MayHaveRead[req[h].op]

LEMMA SawStep ==
  ASSUME TypeOK, SawInv, [Next]_vars
  PROVE  SawInv'
<1> USE DEF SawInv, Become, Finish, At, TypeOK
<1>1. ASSUME NEW h \in Handlers, Request(h) PROVE SawInv'
  <2>1. PICK r \in ReqType : Become(h, r) /\ (r = Idle \/ Checked(h, r))
    BY <1>1, RequestReads
  <2> QED BY <2>1 DEF Checked, Idle
<1>2. ASSUME NEW h \in Handlers, Commit(h) PROVE SawInv'
  <2>1. CASE Finish(h) BY <2>1 DEF Idle
  <2>2. CASE Become(h, [req[h] EXCEPT !.op = "mcprefresh"]) BY <2>2 DEF ReqType
  <2> QED BY <1>2, <2>1, <2>2, CommitAnswered
<1>3. CASE FreezeTick \/ WindowTick \/ UNCHANGED vars
  BY <1>3 DEF FreezeTick, WindowTick, vars
<1> QED BY <1>1, <1>2, <1>3 DEF Next

LEMMA SawInit == Init => SawInv
  BY DEF Init, SawInv, Idle

LEMMA ForwardCommit ==
  ASSUME TypeOK, SawInv, NEW h \in Handlers, Commit(h), ~Overtaken(h)
  PROVE  Stage[status'] >= Stage[status]
<1> USE StageValues, ReadValues DEF At, Overtaken
<1>0. status \in Status /\ req[h] \in ReqType BY DEF TypeOK
<1>a. At(h, "mcpsubmit") => status = "planned" OBVIOUS
<1>b. ASSUME ~At(h, "mcpsubmit"), req[h].op \notin {"idle", "mcprefresh"}
      PROVE  status = req[h].saw /\ status \in MayHaveRead[req[h].op]
  BY <1>b DEF SawInv
<1>1. CASE PlanCommit(h) BY <1>0, <1>b, <1>1 DEF PlanCommit, StorePlan
<1>2. CASE SubmitCommit(h) BY <1>0, <1>b, <1>2 DEF SubmitCommit
<1>3. CASE McpSubmitCommit(h) BY <1>0, <1>a, <1>3 DEF McpSubmitCommit
<1>4. CASE McpPlanCommit(h) BY <1>0, <1>b, <1>4 DEF McpPlanCommit, StorePlan
<1>5. CASE ApproveCommit(h) BY <1>0, <1>b, <1>5 DEF ApproveCommit
<1>6. CASE RejectCommit(h) \/ McpRejectCommit(h) \/ CancelCommit(h)
  <2>1. status' = status \/ status' = "rejected"
    BY <1>6 DEF RejectCommit, McpRejectCommit, CancelCommit
  <2> QED BY <1>0, <2>1
<1>7. CASE McpApproveCommit(h) BY <1>0, <1>b, <1>7 DEF McpApproveCommit
<1>8. CASE BulkCommit(h) BY <1>0, <1>b, <1>8 DEF BulkCommit, ReqType, Decision
<1>9. CASE ExecuteCommit(h) BY <1>0, <1>b, <1>9 DEF ExecuteCommit
<1> QED BY <1>1, <1>2, <1>3, <1>4, <1>5, <1>6, <1>7, <1>8, <1>9 DEF Commit

\* A commit always changes the slot of its request.
LEMMA CommitWrites ==
  ASSUME TypeOK, NEW h \in Handlers, Commit(h)
  PROVE  req'[h] # req[h]
<1>1. req[h].op # "idle" BY CommitAnswered DEF At
<1>2. CASE Finish(h) BY <1>1, <1>2 DEF Finish, Become, Idle, TypeOK
<1>3. CASE At(h, "mcpplan") /\ Become(h, [req[h] EXCEPT !.op = "mcprefresh"])
  BY <1>3 DEF Become, At, TypeOK, ReqType
<1> QED BY <1>2, <1>3, CommitAnswered

LEMMA ForwardStep ==
  ASSUME TypeOK, SawInv, [Next]_vars
  PROVE  \/ Stage[status'] >= Stage[status]
         \/ \E h \in Handlers : Overtaken(h) /\ req'[h] # req[h]
<1>0. Stage[status] \in 0..5 BY StageValues DEF TypeOK
<1>1. ASSUME NEW h \in Handlers, Request(h) PROVE Stage[status'] >= Stage[status]
  BY <1>0, <1>1, RequestReads DEF row
<1>2. CASE FreezeTick \/ WindowTick \/ UNCHANGED vars
  BY <1>0, <1>2 DEF FreezeTick, WindowTick, vars, row
<1> QED BY <1>1, <1>2, ForwardCommit, CommitWrites DEF Next

\* However requests overlap, it takes the commit of a request that was overtaken to
\* move a CR back along its lifecycle.
THEOREM OnlyOvertakenGoBack == Spec => LifecycleForward
<1>1. TypeOK /\ SawInv /\ [Next]_vars => SawInv'
  BY SawStep
<1>2. TypeOK /\ SawInv /\ [Next]_vars =>
        [\/ Stage[status'] >= Stage[status]
         \/ \E h \in Handlers : Overtaken(h) /\ req'[h] # req[h]]_vars
  BY ForwardStep
<1> QED BY <1>1, <1>2, SawInit, TypeCorrect, PTL DEF Spec, LifecycleForward
-----------------------------------------------------------------------------
(* What is executed.                                                       *)

Early == {"draft", "planned"}

(***************************************************************************)
(* The heart of the matter: while no planning request commits late, a CR   *)
(* that has been submitted is never a draft or planned again, and so the   *)
(* row that plans change is one that no request past planning has read.    *)
(***************************************************************************)
PastInv ==
  late \cap {"plan", "mcpplan"} = {} =>
    \A h \in Handlers : req[h].saw \notin Early => status \notin Early

\* A planning request in time finds what it read, and so nobody has read more.
LEMMA PlanInTime ==
  ASSUME TypeOK, SawInv, NEW h \in Handlers, Commit(h), req[h].op \in {"plan", "mcpplan"},
         late' \cap {"plan", "mcpplan"} = {}
  PROVE  status \in Early /\ status = req[h].saw
<1>1. ~Overtaken(h) BY CommitAnswered
<1>2. status = req[h].saw BY <1>1 DEF Overtaken, At
<1> QED BY <1>2, ReadValues DEF SawInv, Early

LEMMA PastStep ==
  ASSUME TypeOK, SawInv, PastInv, [Next]_vars
  PROVE  /\ PastInv'
         /\ late' \cap {"plan", "mcpplan"} = {} /\ status \notin Early => status' \notin Early
<1> USE DEF PastInv, Become, Finish, At, TypeOK
<1>1. ASSUME NEW h \in Handlers, Request(h), UNCHANGED late
      PROVE  PastInv' /\ UNCHANGED status
  <2>1. PICK r \in ReqType : Become(h, r) /\ (r = Idle \/ Checked(h, r))
    BY <1>1, RequestReads
  <2>2. UNCHANGED status BY <1>1, RequestReads DEF row
  <2>3. r.saw = status \/ r.saw \in Early BY <2>1 DEF Checked, Idle, Early
  <2> QED BY <1>1, <2>1, <2>2, <2>3
<1>2. ASSUME NEW h \in Handlers, Commit(h), late' \cap {"plan", "mcpplan"} = {}
      PROVE  PastInv' /\ (status \notin Early => status' \notin Early)
  <2>1. late \cap {"plan", "mcpplan"} = {} BY <1>2, CommitAnswered
  <2>2. status \notin Early => status' \notin Early
    <3>0. req[h] \in ReqType OBVIOUS
    <3>1. CASE req[h].op \in {"plan", "mcpplan"} BY <1>2, <3>1, PlanInTime
    <3>2. CASE req[h].op \notin {"plan", "mcpplan"}
      <4>1. status' = status \/ status' \in Status \ Early
        BY <1>2, <3>0, <3>2
        DEF Commit, PlanCommit, SubmitCommit, McpPlanCommit, McpSubmitCommit, ApproveCommit,
            RejectCommit, BulkCommit, CancelCommit, McpApproveCommit, McpRejectCommit,
            ExecuteCommit, Early, Status, ReqType, Decision
      <4> QED BY <4>1
    <3> QED BY <3>1, <3>2
  <2>3. ASSUME NEW g \in Handlers, req'[g].saw \notin Early PROVE status \notin Early
    <3>1. req'[g].saw = req[g].saw
      <4>1. CASE Finish(h) BY <2>3, <4>1 DEF Idle, Early
      <4>2. CASE Become(h, [req[h] EXCEPT !.op = "mcprefresh"]) BY <4>2 DEF ReqType
      <4> QED BY <1>2, <4>1, <4>2, CommitAnswered
    <3> QED BY <2>1, <2>3, <3>1
  <2> QED BY <2>2, <2>3
<1>3. ASSUME NEW h \in Handlers, Commit(h), late' \cap {"plan", "mcpplan"} # {} PROVE PastInv'
  BY <1>3
<1>4. CASE ((FreezeTick \/ WindowTick) /\ UNCHANGED late) \/ UNCHANGED vars
  BY <1>4 DEF FreezeTick, WindowTick, vars, row
<1> QED BY <1>1, <1>2, <1>3, <1>4 DEF Next

LEMMA PastInit == Init => PastInv
  BY DEF Init, PastInv, Idle, Early

\* While a CR is approved, the plan it has is the one that was approved, and an
\* approval under way is about that plan too.
RunInv ==
  /\ \A h \in Handlers : At(h, "mcpapprove") /\ req[h].saw = "draft" => req[h].plan = 0
  /\ late \cap {"plan", "mcpplan", "mcpapprove"} = {} =>
       /\ status \in {"approved", "queued_for_maintenance", "executing"} => granted = plan
       /\ status = "executing" => ran = plan
       /\ \A h \in Handlers :
            /\ req[h].op \in Granting /\ req[h].saw # "draft" => req[h].plan = plan
            /\ At(h, "execute") => granted = plan

LEMMA RunStep ==
  ASSUME TypeOK, SawInv, PlanInv, PastInv, RunInv, [Next]_vars
  PROVE  RunInv'
<1> DEFINE InTime == late \cap {"plan", "mcpplan", "mcpapprove"} = {}
<1> USE DEF RunInv, Become, Finish, At, TypeOK, Granting
<1>1. ASSUME NEW h \in Handlers, Request(h), UNCHANGED late PROVE RunInv'
  <2>1. PICK r \in ReqType : Become(h, r) /\ (r = Idle \/ Checked(h, r))
    BY <1>1, RequestReads
  <2>2. UNCHANGED <<row, history>> BY <1>1, RequestReads
  <2>3. /\ r.op = "mcpapprove" /\ r.saw = "draft" => r.plan = 0
        /\ r.op \in Granting => r.plan = plan
        /\ r.op = "execute" => status = "approved"
    BY <2>1, ReadValues DEF Checked, Idle, PlanInv
  <2> QED BY <1>1, <2>1, <2>2, <2>3 DEF row, history
<1>2. ASSUME NEW h \in Handlers, Commit(h) PROVE RunInv'
  <2>0. /\ req[h] \in ReqType /\ plan \in Nat
        /\ \A g \in Handlers : req'[g] = req[g] \/ req'[g].op \in {"idle", "mcprefresh"}
    <3>1. CASE Finish(h) BY <3>1 DEF Idle
    <3>2. CASE Become(h, [req[h] EXCEPT !.op = "mcprefresh"]) BY <3>2 DEF ReqType
    <3> QED BY <1>2, <3>1, <3>2, CommitAnswered
  <2>1. \A g \in Handlers : req'[g].op = "mcpapprove" /\ req'[g].saw = "draft" => req'[g].plan = 0
    BY <2>0
  <2>2. ASSUME InTime'
        PROVE  /\ (status \in {"approved", "queued_for_maintenance", "executing"} => granted = plan)'
               /\ (status = "executing" => ran = plan)'
               /\ \A g \in Handlers :
                    /\ req'[g].op \in Granting /\ req'[g].saw # "draft" => req'[g].plan = plan'
                    /\ req'[g].op = "execute" => granted' = plan'
    <3>1. InTime /\ late' \cap {"plan", "mcpplan"} = {} BY <1>2, <2>2, CommitAnswered
    <3>2. CASE PlanCommit(h) \/ McpPlanCommit(h)
      <4>1. req[h].op \in {"plan", "mcpplan"} BY <3>2 DEF PlanCommit, McpPlanCommit
      <4>2. status \in Early /\ status = req[h].saw BY <1>2, <3>1, <4>1, PlanInTime
      <4>3. status' = "planned" BY <3>2, <4>2 DEF PlanCommit, McpPlanCommit, StorePlan, Early
      <4>4. \A g \in Handlers : req[g].saw \in Early BY <3>1, <4>2 DEF PastInv
      <4>5. \A g \in Handlers : /\ req[g].op # "execute"
                                /\ req[g].op \in Granting => req[g].saw = "draft"
        BY <4>4, ReadValues DEF SawInv, Early
      <4> QED BY <2>0, <4>3, <4>5
    <3>3. CASE UNCHANGED <<plan, history>> /\ (status' = status \/ status' \in {"awaiting_approval", "rejected"})
      BY <2>0, <3>1, <3>3 DEF history
    <3>4. CASE Grant(h) /\ UNCHANGED plan /\ req[h].op \in Granting
               /\ status' \in {"approved", "queued_for_maintenance"}
      <4>1. CASE req[h].saw # "draft"
        <5>1. granted' = plan' BY <3>1, <3>4, <4>1 DEF Grant
        <5> QED BY <2>0, <3>1, <3>4, <5>1
      <4>2. CASE req[h].saw = "draft"
        <5>1. At(h, "mcpapprove") BY <3>4, <4>2, ReadValues DEF SawInv
        <5>2. status = "draft" BY <1>2, <2>2, <4>2, <5>1, CommitAnswered DEF Overtaken
        <5>3. granted' = plan' BY <3>4, <4>2, <5>1, <5>2 DEF Grant, PlanInv
        <5> QED BY <2>0, <3>1, <3>4, <5>3
      <4> QED BY <4>1, <4>2
    <3>5. CASE ExecuteCommit(h)
      BY <2>0, <3>1, <3>5 DEF ExecuteCommit
    <3>6. CASE SubmitCommit(h) \/ McpSubmitCommit(h) \/ RejectCommit(h) \/ CancelCommit(h)
               \/ McpRejectCommit(h)
      BY <3>3, <3>6 DEF SubmitCommit, McpSubmitCommit, RejectCommit, CancelCommit, McpRejectCommit
    <3>7. CASE ApproveCommit(h) BY <3>3, <3>4, <3>7 DEF ApproveCommit
    <3>8. CASE McpApproveCommit(h) BY <3>4, <3>8 DEF McpApproveCommit
    <3>9. CASE BulkCommit(h)
      <4>1. CASE req[h].decision = "approved" BY <3>4, <3>9, <4>1 DEF BulkCommit
      <4>2. CASE req[h].decision # "approved"
        <5>1. status' = "rejected" BY <2>0, <3>9, <4>2 DEF BulkCommit, ReqType, Decision
        <5> QED BY <3>3, <3>9, <4>2, <5>1 DEF BulkCommit
      <4> QED BY <4>1, <4>2
    <3> QED BY <1>2, <3>2, <3>5, <3>6, <3>7, <3>8, <3>9 DEF Commit
  <2> QED BY <2>1, <2>2
<1>3. CASE ((FreezeTick \/ WindowTick) /\ UNCHANGED late) \/ UNCHANGED vars
  BY <1>3 DEF FreezeTick, WindowTick, vars, row, history
<1> QED BY <1>1, <1>2, <1>3 DEF Next

\* However requests overlap, what executes is the plan that was approved, unless a
\* planning request or an MCP approval committed after the CR had moved on.
THEOREM RunsTheApproved == Spec => []RanWhatWasApproved
<1> DEFINE Inv == PlanInv /\ SawInv /\ PastInv /\ RunInv
<1>1. Init => Inv
  <2>1. Init => RunInv BY DEF Init, RunInv, Idle, At, Granting
  <2> QED BY <2>1, PlanInit, SawInit, PastInit
<1>2. TypeOK /\ Inv /\ [Next]_vars => Inv'
  BY PlanStep, SawStep, PastStep, RunStep
<1>3. Inv => RanWhatWasApproved
  BY DEF RunInv, RanWhatWasApproved
<1> QED BY <1>1, <1>2, <1>3, TypeCorrect, PTL DEF Spec
-----------------------------------------------------------------------------
(* What is still to be approved.                                           *)

(***************************************************************************)
(* Why nobody waits for an approval that is already there: a CR gets its   *)
(* first vote while it awaits approval, so there is none when it is        *)
(* submitted; from then on each vote is counted, with the risk the CR has, *)
(* by the request that adds it.                                            *)
(***************************************************************************)
AwaitInv ==
  /\ \A h \in Handlers : At(h, "mcpreject") => req[h].decision = "rejected"
  /\ late \cap {"plan", "mcpplan", "submit", "mcpsubmit"} = {} =>
       /\ status = "awaiting_approval" => ~Satisfied(risk, votes)
       /\ status \in Early => votes = {}
       /\ \A h \in Handlers : At(h, "approve") => req[h].risk = risk

\* Without a vote no requirement is met.
LEMMA NoVotesUnsatisfied == ASSUME NEW r PROVE ~Satisfied(r, {})
<1>1. {v \in {} : v.decision = "approved"} = {}
  OBVIOUS
<1>2. Cardinality({}) = 0
  BY FS_EmptySet
<1>3. ~(0 >= 1) /\ ~(0 >= 2)
  OBVIOUS
<1> QED
  BY <1>1, <1>2, <1>3 DEF Satisfied

\* A vote against does not count.
LEMMA RejectionUncounted ==
  ASSUME NEW r, NEW rows, NEW v, v.decision # "approved", ~Satisfied(r, rows)
  PROVE  ~Satisfied(r, rows \cup {v})
<1>1. {w \in rows \cup {v} : w.decision = "approved"} = {w \in rows : w.decision = "approved"}
  OBVIOUS
<1> QED
  BY <1>1 DEF Satisfied

LEMMA AwaitCommit ==
  ASSUME TypeOK, SawInv, PastInv, AwaitInv, NEW h \in Handlers, Commit(h),
         late' \cap {"plan", "mcpplan", "submit", "mcpsubmit"} = {}
  PROVE  /\ (status = "awaiting_approval" => ~Satisfied(risk, votes))'
         /\ (status \in Early => votes = {})'
         /\ risk' # risk => status \in Early
<1> USE DEF At, row, table, Early
<1>0. /\ req[h] \in ReqType /\ status \in Status
      /\ late \cap {"plan", "mcpplan"} = {} /\ late' \cap {"plan", "mcpplan"} = {}
      /\ status = "awaiting_approval" => ~Satisfied(risk, votes)
      /\ status \in Early => votes = {}
      /\ Overtaken(h) => req[h].op \in late'
      /\ At(h, "mcpreject") => req[h].decision = "rejected"
      /\ At(h, "approve") => req[h].risk = risk
  BY CommitAnswered DEF AwaitInv, TypeOK
<1>a. ASSUME req[h].saw \notin Early PROVE status \notin Early
  BY <1>0, <1>a DEF PastInv
<1>1. CASE PlanCommit(h) \/ McpPlanCommit(h)
  <2>1. req[h].op \in {"plan", "mcpplan"} BY <1>1 DEF PlanCommit, McpPlanCommit
  <2>2. status \in Early /\ status = req[h].saw BY <1>0, <2>1, PlanInTime
  <2>3. status' = "planned" /\ votes' \subseteq votes
    BY <1>1, <2>2 DEF PlanCommit, McpPlanCommit, StorePlan
  <2> QED BY <1>0, <2>2, <2>3
<1>2. CASE SubmitCommit(h) \/ McpSubmitCommit(h)
  <2>1. req[h].op \in {"submit", "mcpsubmit"} /\ UNCHANGED <<risk, votes>>
        /\ status' \in {status, "awaiting_approval"}
    BY <1>2 DEF SubmitCommit, McpSubmitCommit
  <2>2. status = "planned"
    BY <1>0, <2>1, ReadValues DEF Overtaken, SawInv
  <2>3. ~Satisfied(risk, votes) /\ votes = {} BY <1>0, <2>2, NoVotesUnsatisfied
  <2> QED BY <2>1, <2>3
<1>3. CASE ApproveCommit(h)
  <2>0. status \notin Early BY <1>3, <1>a, ReadValues DEF ApproveCommit, SawInv
  <2>1. /\ UNCHANGED risk /\ req[h].risk = risk
        /\ votes' = votes \cup {Vote(h)} /\ Vote(h).decision = req[h].decision
    BY <1>0, <1>3 DEF ApproveCommit, AddVote, Vote
  <2>2. CASE req[h].decision = "approved" /\ Satisfied(req[h].risk, votes')
    <3>1. status' \in {"approved", "queued_for_maintenance"}
      BY <1>3, <2>2 DEF ApproveCommit
    <3> QED BY <2>1, <3>1
  <2>3. CASE ~(req[h].decision = "approved" /\ Satisfied(req[h].risk, votes'))
    <3>1. status' = status
      BY <1>3, <2>3 DEF ApproveCommit
    <3>2. CASE req[h].decision = "approved"
      <4>1. ~Satisfied(risk', votes')
        BY <2>1, <2>3, <3>2
      <4> QED BY <2>0, <2>1, <3>1, <4>1
    <3>3. CASE req[h].decision # "approved"
      <4>1. status = "awaiting_approval" => ~Satisfied(risk, votes \cup {Vote(h)})
        BY <1>0, <2>1, <3>3, RejectionUncounted
      <4> QED BY <2>0, <2>1, <3>1, <4>1
    <3> QED BY <3>2, <3>3
  <2> QED BY <2>2, <2>3
<1>4. CASE McpRejectCommit(h)
  <2>1. /\ UNCHANGED risk /\ votes' = votes \cup {Vote(h)} /\ Vote(h).decision # "approved"
    BY <1>0, <1>4 DEF McpRejectCommit, AddVote, Vote
  <2>2. CASE req[h].saw = "rejected"
    <3>1. status' = status /\ status \notin Early BY <1>a, <1>4, <2>2 DEF McpRejectCommit
    <3>2. status = "awaiting_approval" => ~Satisfied(risk, votes \cup {Vote(h)})
      BY <1>0, <2>1, RejectionUncounted
    <3> QED BY <2>1, <3>1, <3>2
  <2>3. CASE req[h].saw # "rejected"
    <3>1. status' = "rejected" BY <1>4, <2>3 DEF McpRejectCommit
    <3> QED BY <2>1, <3>1
  <2> QED BY <2>2, <2>3
<1>5. CASE RejectCommit(h) \/ CancelCommit(h) \/ McpApproveCommit(h) \/ BulkCommit(h)
           \/ ExecuteCommit(h)
  <2>1. status' \in {"rejected", "approved", "executing"} /\ UNCHANGED risk
    BY <1>0, <1>5 DEF RejectCommit, CancelCommit, McpApproveCommit, BulkCommit, ExecuteCommit,
                      ReqType, Decision
  <2> QED BY <2>1
<1> QED BY <1>1, <1>2, <1>3, <1>4, <1>5 DEF Commit

LEMMA AwaitStep ==
  ASSUME TypeOK, SawInv, PastInv, AwaitInv, [Next]_vars
  PROVE  AwaitInv'
<1> USE DEF AwaitInv, At, TypeOK, Become, Finish
<1>1. ASSUME NEW h \in Handlers, Request(h), UNCHANGED late PROVE AwaitInv'
  <2>1. PICK r \in ReqType : Become(h, r) /\ (r = Idle \/ Checked(h, r))
    BY <1>1, RequestReads
  <2>2. UNCHANGED <<status, risk, votes>> BY <1>1, RequestReads DEF row, table
  <2>3. /\ r.op = "approve" => r.risk = risk
        /\ r.op = "mcpreject" => r.decision = "rejected"
    BY <2>1 DEF Checked, Idle
  <2>4. \A g \in Handlers : req'[g] = req[g] \/ req'[g] = r BY <2>1
  <2> QED BY <1>1, <2>2, <2>3, <2>4
<1>2. ASSUME NEW h \in Handlers, Commit(h) PROVE AwaitInv'
  <2>1. \A g \in Handlers : req'[g] = req[g] \/ req'[g].op \in {"idle", "mcprefresh"}
    <3>1. CASE Finish(h) BY <3>1 DEF Idle
    <3>2. CASE Become(h, [req[h] EXCEPT !.op = "mcprefresh"]) BY <3>2 DEF ReqType
    <3> QED BY <1>2, <3>1, <3>2, CommitAnswered
  <2>2. ASSUME late' \cap {"plan", "mcpplan", "submit", "mcpsubmit"} = {},
               NEW g \in Handlers, req'[g].op = "approve"
        PROVE  req'[g].risk = risk'
    <3>1. req'[g] = req[g] /\ req[g].op = "approve" BY <2>1, <2>2
    <3>2. late \cap {"plan", "mcpplan", "submit", "mcpsubmit"} = {} BY <1>2, <2>2, CommitAnswered
    <3>3. req[g].risk = risk BY <3>1, <3>2
    <3>4. req[g].saw = "awaiting_approval" BY <3>1, ReadValues DEF SawInv
    <3>5. status \notin Early BY <3>2, <3>4 DEF PastInv, Early
    <3>6. risk' = risk BY <1>2, <2>2, <3>5, AwaitCommit
    <3> QED BY <3>1, <3>3, <3>6
  <2>3. late' \cap {"plan", "mcpplan", "submit", "mcpsubmit"} = {} =>
          /\ (status = "awaiting_approval" => ~Satisfied(risk, votes))'
          /\ (status \in Early => votes = {})'
    BY <1>2, AwaitCommit
  <2>4. \A g \in Handlers : req'[g].op = "mcpreject" => req'[g].decision = "rejected"
    BY <2>1
  <2> QED BY <2>2, <2>3, <2>4
<1>3. CASE ((FreezeTick \/ WindowTick) /\ UNCHANGED late) \/ UNCHANGED vars
  BY <1>3 DEF FreezeTick, WindowTick, vars, row, table
<1> QED BY <1>1, <1>2, <1>3 DEF Next

\* However requests overlap, a CR that awaits approval lacks one, unless a planning
\* request or a submission committed after the CR had moved on.
THEOREM AwaitsWithReason == Spec => []AwaitingUnsatisfied
<1> DEFINE Inv == SawInv /\ PastInv /\ AwaitInv
<1>1. Init => Inv
  <2>1. Init => AwaitInv BY DEF Init, AwaitInv, Idle, At
  <2> QED BY <2>1, SawInit, PastInit
<1>2. TypeOK /\ Inv /\ [Next]_vars => Inv'
  BY SawStep, PastStep, AwaitStep
<1>3. Inv => AwaitingUnsatisfied
  BY DEF AwaitInv, AwaitingUnsatisfied
<1> QED BY <1>1, <1>2, <1>3, TypeCorrect, PTL DEF Spec
=============================================================================
