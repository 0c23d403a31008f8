--------------------------- MODULE RotationCampaign ---------------------------
(***************************************************************************)
(* The change types that work through a list of items in phases and pause: *)
(* certificate_rotation (dependents), credential_rotation_fanout           *)
(* (consumers) and k8s_cluster_upgrade (nodes).  After the preparation the *)
(* change is pushed to every item, then verified; a failure pauses the CR, *)
(* and an operator retries, waives or rolls back.                          *)
(*                                                                         *)
(* The state of the campaign is execution_runs.result.  The run the        *)
(* workflow was started with is still pending, and the fan-out executor    *)
(* looks for a running one: it adds a run of its own and keeps its result  *)
(* there.  The others use the workflow's run.                              *)
(*                                                                         *)
(* What an executor reports of an item and whether the item was changed    *)
(* are independent.  The items are not discovered one by one: a scan finds *)
(* them all or, where its errors are swallowed, none.  The model begins    *)
(* where ExecuteChangeWorkflow (see ChangeExecution) calls the executor.   *)
(***************************************************************************)
EXTENDS Naturals, FiniteSets, Sequences

CONSTANTS
  Kinds,        \* change types: "certificate", "fanout", "k8s"
  NItems,       \* items of the campaign
  Execs,        \* slots for coroutines that execute the CR
  FirstExec,    \* the one that ExecuteChangeWorkflow is
  MaxRequests,  \* bound on requests
  MaxCrashes    \* bound on crashes

ASSUME CampaignAssumption ==
  /\ Kinds \subseteq {"certificate", "fanout", "k8s"}
  /\ NItems \in Nat /\ FirstExec \in Execs
  /\ MaxRequests \in Nat /\ MaxCrashes \in Nat

VARIABLES
  kind,       \* change_requests.change_type
  cr,         \* change_requests.status
  main,       \* the workflow's run: status and result
  own,        \* the run the fan-out executor adds
  exec,       \* exec[e]: the coroutine in slot e
  undo,       \* the manual rollback
  applied,    \* items that carry the new certificate, credential or version
  pushes,     \* pushes[i]: how often an execution changed item i
  up, crashes, requests,
  vouched,    \* history: items that were verified, or waived by an operator
  waived,     \* history: the ones that were waived
  unseen,     \* history: the re-scan of a verification failed and found nothing
  misrouted,  \* history: a resumed CR was handed to the wrong executor
  overlap     \* history: a request was accepted while an execution was under way

rows    == <<cr, main, own>>
infra   == <<applied, pushes>>
env     == <<kind, up, crashes>>
history == <<vouched, waived, unseen, misrouted, overlap>>
vars    == <<env, rows, exec, undo, infra, requests, history>>
-----------------------------------------------------------------------------
Items == 1..NItems

\* The phases before the first item is touched, each with its commit.
Preparation == [certificate |-> <<"scan", "snapshot", "rotate">>,
                fanout      |-> <<"rotate", "scan">>,
                k8s         |-> <<"preflight", "control_plane">>]

\* The result: how much is prepared, the items, what was reported of each.
None    == [i \in Items |-> "none"]
Blank   == [done |-> 0, items |-> {}, upd |-> None, ver |-> None, phase |-> "prepare",
            paused |-> FALSE, wrapped |-> FALSE]
NoRun   == [st |-> "absent", res |-> Blank]
NoExec  == [pc |-> "off", flow |-> FALSE, run |-> "main", rec |-> Blank, todo |-> {}]
NoUndo  == [pc |-> "off", ran |-> FALSE, todo |-> {}, read |-> {}, warned |-> FALSE, blind |-> {}]

Executing == \E e \in Execs : exec[e].pc # "off"
Run(e, r) == exec' = [exec EXCEPT ![e] = r]

IsFirst(i, S) == i \in S /\ \A j \in S : i <= j
IsLast(i, S)  == i \in S /\ \A j \in S : j <= i

\* A commit of a run's status and result.
Write(run, st, r) ==
  IF run = "own" THEN own' = [st |-> st, res |-> r] /\ UNCHANGED main
                 ELSE main' = [st |-> st, res |-> r] /\ UNCHANGED own

\* Mutant: nothing is written.
PersistNothing(run, r) == UNCHANGED <<main, own>>

\* run.result = r and a commit; a new run is inserted with the first one.
Persist(run, r) ==
  Write(run, IF run = "main" THEN main.st ELSE IF own.st = "absent" THEN "running" ELSE own.st, r)
-----------------------------------------------------------------------------
(* Preparation.                                                            *)

\* Mutant: every item again.
PendingAll(r) == r.items

\* The items without an update_result.
Pending(r) == {i \in r.items : r.upd[i] = "none"}

\* The run the executor works on: the latest running one, or a new one.  (A second
\* new one would have the workflow_id of the first, which is unique; a resumed CR
\* always has a running one.)
Target == IF kind = "fanout" /\ (own.st = "running" \/ main.st # "running") THEN "own" ELSE "main"

\* The executor goes on from what the run says.
Load(e) ==
  LET r == IF Target = "own" THEN own.res ELSE main.res IN
  /\ exec[e].pc = "load" /\ (exec[e].flow \/ kind = "fanout")
  /\ Run(e, [exec[e] EXCEPT !.pc = [prepare |-> "prepare", update |-> "push", verify |-> "verify"][r.phase],
                            !.run = Target, !.rec = r, !.todo = Pending(r)])
  /\ UNCHANGED <<env, rows, undo, infra, requests, history>>

\* What a scan may find.  The one of the fan-out swallows errors.
Found == IF kind = "fanout" THEN {Items, {}} ELSE {Items}

\* A phase is done.  The rotation of the fan-out may also fail unnoticed.
Prepare(e) ==
  LET x == exec[e]
      phases == Preparation[kind]
      k == x.rec.done + 1 IN
  /\ x.pc = "prepare"
  /\ \E found \in IF phases[k] = "scan" THEN Found ELSE {x.rec.items} :
       LET r == [x.rec EXCEPT !.done = k, !.items = found,
                   !.phase = IF k = Len(phases) THEN "update" ELSE "prepare"] IN
       /\ Persist(x.run, r)
       /\ Run(e, [x EXCEPT !.rec = r, !.pc = IF k = Len(phases) THEN "push" ELSE "prepare",
                           !.todo = IF k < Len(phases) THEN {} ELSE IF kind = "k8s" THEN Items
                                    ELSE Pending(r)])
  /\ UNCHANGED <<env, cr, undo, infra, requests, history>>

\* A dry run of an upgrade ends after the preflight.
DryRun(e) ==
  LET x == exec[e] IN
  /\ x.pc = "prepare" /\ kind = "k8s" /\ x.rec.done = 0
  /\ Persist(x.run, x.rec)
  /\ Run(e, [x EXCEPT !.pc = "complete"])
  /\ UNCHANGED <<env, cr, undo, infra, requests, history>>

\* The certificate cannot be issued, the preflight or the control plane fails.
PrepareFails(e) ==
  LET x == exec[e]
      k == x.rec.done + 1 IN
  /\ x.pc = "prepare"
  /\ kind = "k8s" \/ (kind = "certificate" /\ Preparation[kind][k] = "rotate")
  /\ IF kind = "k8s" THEN Persist(x.run, x.rec) ELSE UNCHANGED <<main, own>>
  /\ Run(e, [x EXCEPT !.pc = "failcr", !.todo = {}])
  /\ UNCHANGED <<env, cr, undo, infra, requests, history>>

\* The fan-out raises: it looks up its connectors outside its try blocks.  What it has
\* not committed is lost.  In the workflow this is an exception of the executor;
\* _resume_execution fails the CR.
FanoutRaises(e) ==
  LET x == exec[e] IN
  /\ kind = "fanout" /\ x.pc \in {"prepare", "push", "verify"}
  /\ IF x.flow THEN Run(e, [NoExec EXCEPT !.pc = "failcr", !.flow = TRUE]) /\ UNCHANGED cr
               ELSE Run(e, NoExec) /\ cr' = "failed"
  /\ UNCHANGED <<env, main, own, undo, infra, requests, history>>
-----------------------------------------------------------------------------
(* Update: the items one after the other, and one commit for all of them.  *)

\* What may be reported of an item.
Reports == {"ok", "error"} \cup (IF kind = "k8s" THEN {"failed"} ELSE {})

\* The change reaches the item, or does not.
ReachOrMiss(i) ==
  \/ applied' = applied \cup {i} /\ pushes' = [pushes EXCEPT ![i] = @ + 1]
  \/ UNCHANGED infra

\* A node that does not drain ("error"), or cannot be cordoned ("failed"), ends
\* the pool.
Push(e) ==
  LET x == exec[e] IN
  /\ x.pc = "push"
  /\ \E i \in Items, u \in Reports :
       /\ IsFirst(i, x.todo)
       /\ Run(e, [x EXCEPT !.rec.upd[i] = u,
                           !.todo = IF kind = "k8s" /\ u # "ok" THEN {} ELSE @ \ {i}])
       /\ ReachOrMiss(i)
  /\ UNCHANGED <<env, rows, undo, requests, history>>

UpdateFailed(r) == \E i \in Items : r.upd[i] = "error"

\* All items are through.  With a failure the result is marked paused; the
\* executors of the fan-out and of the upgrade have a commit of their own for
\* the CR's status, the other leaves it to the workflow.
Pushed(e) ==
  LET x == exec[e]
      r == [x.rec EXCEPT !.phase = IF UpdateFailed(x.rec) THEN "update" ELSE "verify",
                         !.paused = UpdateFailed(x.rec),
                         !.items = IF kind = "k8s" THEN Items ELSE @] IN
  /\ x.pc = "push" /\ x.todo = {}
  /\ Persist(x.run, IF kind = "certificate" THEN [r EXCEPT !.paused = FALSE] ELSE r)
  /\ Run(e, [x EXCEPT !.rec = r,
                      !.pc = IF ~r.paused THEN "verify"
                             ELSE IF kind = "certificate" THEN "store" ELSE "pause"])
  /\ UNCHANGED <<env, cr, undo, infra, requests, history>>
-----------------------------------------------------------------------------
(* Verification.                                                           *)

Unverified(r) == {i \in r.items : r.ver[i] \notin {"ok", "skipped"}}

\* Mutant: items that were updated without an error are not looked at.
VerdictTrusting(r, i) == IF r.upd[i] = "ok" THEN {"ok"} ELSE {"bad"}

\* A probe that answers tells the truth; it may fail to answer.
Verdict(r, i) == IF i \in applied THEN {"ok", "bad"} ELSE {"bad"}

\* Items without a verdict are probed.  The fan-out scans once more, and takes
\* a scan that fails for one that finds nothing.
Verify(e) ==
  LET x == exec[e]
      open == {i \in x.rec.items : x.rec.ver[i] = "none"} IN
  /\ x.pc = "verify"
  /\ \E v \in [open -> {"ok", "bad"}], blind \in (IF kind = "fanout" THEN BOOLEAN ELSE {FALSE}) :
       /\ \A i \in open : IF blind THEN v[i] = "ok" ELSE v[i] \in Verdict(x.rec, i)
       /\ Run(e, [x EXCEPT !.rec.ver = [i \in Items |-> IF i \in open THEN v[i] ELSE @[i]],
                           !.pc = "verified"])
       /\ vouched' = vouched \cup {i \in open : v[i] = "ok"}
       /\ unseen' = (unseen \/ blind)
  /\ UNCHANGED <<env, rows, undo, infra, requests, waived, misrouted, overlap>>

VerifyFailed(e) ==
  LET x == exec[e]
      r == [x.rec EXCEPT !.paused = TRUE] IN
  /\ x.pc = "verified" /\ Unverified(x.rec) # {}
  /\ Persist(x.run, IF kind = "certificate" THEN x.rec ELSE r)
  /\ Run(e, [x EXCEPT !.rec = r, !.pc = IF kind = "certificate" THEN "store" ELSE "pause"])
  /\ UNCHANGED <<env, cr, undo, infra, requests, history>>

\* Only the certificate executor sets the CR's status as well.
Verified(e) ==
  LET x == exec[e] IN
  /\ x.pc = "verified" /\ Unverified(x.rec) = {}
  /\ IF kind = "certificate"
     THEN cr' = "completed" /\ main' = [st |-> "completed", res |-> x.rec] /\ UNCHANGED own
     ELSE UNCHANGED cr /\ (IF kind = "fanout" THEN Write(x.run, "completed", x.rec) ELSE Persist(x.run, x.rec))
  /\ Run(e, IF x.flow THEN [x EXCEPT !.pc = "complete"] ELSE NoExec)
  /\ UNCHANGED <<env, undo, infra, requests, history>>

Pause(e) ==
  /\ exec[e].pc = "pause"
  /\ cr' = "paused"
  /\ Run(e, IF exec[e].flow THEN [exec[e] EXCEPT !.pc = "store"] ELSE NoExec)
  /\ UNCHANGED <<env, main, own, undo, infra, requests, history>>
-----------------------------------------------------------------------------
(* What ExecuteChangeWorkflow does with the result.                        *)

Store(e) ==
  /\ exec[e].pc = "store"
  /\ main' = [st |-> "running", res |-> exec[e].rec]
  /\ Run(e, [exec[e] EXCEPT !.pc = "storepaused"])
  /\ UNCHANGED <<env, cr, own, undo, infra, requests, history>>

StorePaused(e) ==
  /\ exec[e].pc = "storepaused"
  /\ cr' = "paused"
  /\ Run(e, NoExec)
  /\ UNCHANGED <<env, main, own, undo, infra, requests, history>>

StoreCompleted(e) ==
  /\ exec[e].pc = "complete"
  /\ cr' = "completed"
  /\ Run(e, [exec[e] EXCEPT !.pc = "completerun"])
  /\ UNCHANGED <<env, main, own, undo, infra, requests, history>>

StoreCompletedRun(e) ==
  /\ exec[e].pc = "completerun"
  /\ main' = [st |-> "completed", res |-> [exec[e].rec EXCEPT !.wrapped = TRUE]]
  /\ Run(e, NoExec)
  /\ UNCHANGED <<env, cr, own, undo, infra, requests, history>>

\* The run and the CR are failed, in this order for an upgrade and in the other
\* for an exception, whose run keeps nothing but the error.
StoreFailed(e) ==
  /\ exec[e].pc \in {"failcr", "failrun"}
  /\ IF (exec[e].pc = "failcr") = (kind = "k8s")
     THEN main' = [st |-> "failed", res |-> IF kind = "k8s" THEN exec[e].rec ELSE Blank] /\ UNCHANGED cr
     ELSE cr' = "failed" /\ UNCHANGED main
  /\ Run(e, IF exec[e].pc = "failcr" THEN [exec[e] EXCEPT !.pc = "failrun"] ELSE NoExec)
  /\ UNCHANGED <<env, own, undo, infra, requests, history>>
-----------------------------------------------------------------------------
(* Requests.  They hold the CR's row FOR UPDATE and use the latest run; once *)
(* there is a rollback's run, it is the latest and has no items.             *)

Serve == up /\ requests < MaxRequests /\ requests' = requests + 1

Latest == IF own.st # "absent" THEN own ELSE main

MayResume == cr = "paused" /\ ~undo.ran

Resumed(e) == exec[e].pc = "off" /\ Run(e, [NoExec EXCEPT !.pc = "load"])

PutLatest(st, r) == Write(IF own.st # "absent" THEN "own" ELSE "main", st, r)

RetryVerify(e) ==
  LET r == Latest.res IN
  /\ Serve /\ MayResume /\ kind \in {"certificate", "fanout"}
  /\ Unverified(r) # {}
  /\ PutLatest("running", [r EXCEPT !.paused = FALSE,
                             !.ver = [i \in Items |-> IF i \in Unverified(r) THEN "none" ELSE @[i]]])
  /\ cr' = "executing"
  /\ Resumed(e)
  /\ overlap' = (overlap \/ Executing)
  /\ UNCHANGED <<env, undo, infra, vouched, waived, unseen, misrouted>>

SkipVerify ==
  LET r == Latest.res IN
  /\ Serve /\ MayResume /\ kind \in {"certificate", "fanout"}
  /\ Unverified(r) # {}
  /\ PutLatest("completed", [r EXCEPT !.paused = FALSE,
                               !.ver = [i \in Items |-> IF i \in Unverified(r) THEN "skipped" ELSE @[i]]])
  /\ cr' = "completed"
  /\ vouched' = vouched \cup Unverified(r)
  /\ waived' = waived \cup Unverified(r)
  /\ overlap' = (overlap \/ Executing)
  /\ UNCHANGED <<env, exec, undo, infra, unseen, misrouted>>

ResumeNodeUpgrade(e) ==
  /\ Serve /\ cr = "paused" /\ kind = "k8s"
  /\ cr' = "executing"
  /\ Resumed(e)
  /\ overlap' = (overlap \/ Executing)
  /\ UNCHANGED <<env, main, own, undo, infra, vouched, waived, unseen, misrouted>>

\* The pool is paused at a node.
SkipNode(e) ==
  LET r == main.res
      blocked == {i \in r.items : r.upd[i] = "error"} IN
  /\ Serve /\ MayResume /\ kind = "k8s" /\ blocked # {}
  /\ main' = [main EXCEPT !.res = [r EXCEPT !.paused = FALSE,
                !.upd = [i \in Items |-> IF i \in blocked THEN "skipped" ELSE @[i]]]]
  /\ cr' = "executing"
  /\ Resumed(e)
  /\ overlap' = (overlap \/ Executing)
  /\ UNCHANGED <<env, own, undo, infra, vouched, waived, unseen, misrouted>>

\* _resume_execution calls execute_steps for every change type but the fan-out.
\* It finds no steps, completes the CR, and replaces the result of the run.
ResumeSteps(e) ==
  /\ exec[e].pc = "load" /\ ~exec[e].flow /\ kind # "fanout"
  /\ cr' = "completed"
  /\ main' = IF main.st \in {"running", "pending"} THEN [st |-> "completed", res |-> Blank] ELSE main
  /\ Run(e, NoExec)
  /\ misrouted' = TRUE
  /\ UNCHANGED <<env, own, undo, infra, requests, vouched, waived, unseen, overlap>>
-----------------------------------------------------------------------------
(* Manual rollback: POST /rollback, execute_cr_rollback.                   *)

RollbackRequest ==
  /\ Serve /\ undo.pc = "off"
  /\ cr \in {"completed", "failed", "paused"}
  /\ undo' = [NoUndo EXCEPT !.pc = "start", !.ran = undo.ran]
  /\ UNCHANGED <<env, rows, exec, infra, history>>

RollbackStart ==
  /\ undo.pc = "start"
  /\ cr' = "executing"
  /\ undo' = [undo EXCEPT !.pc = "load", !.ran = TRUE]
  /\ overlap' = (overlap \/ Executing)
  /\ UNCHANGED <<env, main, own, exec, infra, requests, vouched, waived, unseen, misrouted>>

\* Mutant: the rollback's own run, which has no result, is not left out.
RollbackResultLatest ==
  IF own.st = "completed" THEN own.res ELSE IF main.st = "completed" THEN main.res ELSE Blank

\* The latest completed run, or else the latest that is not a rollback's.
RollbackResult ==
  IF own.st = "completed" THEN own.res ELSE IF main.st = "completed" THEN main.res ELSE Latest.res

\* What the rollback of the change type takes from it: every dependent, the
\* consumers that were updated, or the nodes of a pool that succeeded or
\* paused.  Only the first looks into the result as the workflow wraps it.
ToUndo(r) ==
  CASE kind = "certificate" -> r.items
    [] kind = "fanout"      -> IF r.wrapped THEN {} ELSE {i \in r.items : r.upd[i] = "ok"}
    [] kind = "k8s"         -> IF r.wrapped \/ (\E i \in Items : r.upd[i] \in {"failed", "skipped"})
                               THEN {} ELSE r.items

RollbackLoad ==
  LET S == ToUndo(RollbackResult) IN
  /\ undo.pc = "load"
  /\ undo' = [undo EXCEPT !.pc = "undo", !.todo = S, !.read = S]
  /\ UNCHANGED <<env, rows, exec, infra, requests, history>>

\* An item is undone, or there is a warning; or it is taken for undone although it
\* is not (a restored secret's result is not looked at, a node is left as it is).
UndoItem(i) ==
  \/ /\ kind # "k8s"
     /\ applied' = applied \ {i}
     /\ undo' = [undo EXCEPT !.todo = @ \ {i}]
  \/ /\ undo' = [undo EXCEPT !.todo = @ \ {i}, !.warned = TRUE]
     /\ UNCHANGED applied
  \/ /\ kind # "fanout"
     /\ undo' = [undo EXCEPT !.todo = @ \ {i}, !.blind = @ \cup {i}]
     /\ UNCHANGED applied

\* The last item first.
RollbackStep ==
  /\ undo.pc = "undo"
  /\ \E i \in Items : IsLast(i, undo.todo) /\ UndoItem(i)
  /\ UNCHANGED <<env, rows, exec, pushes, requests, history>>

RollbackStatus == IF undo.warned THEN "rolled_back_with_warnings" ELSE "rolled_back"

RollbackEnd ==
  /\ undo.pc = "undo" /\ undo.todo = {}
  /\ cr' = RollbackStatus
  /\ undo' = [undo EXCEPT !.pc = "off"]
  /\ UNCHANGED <<env, main, own, exec, infra, requests, history>>

\* An exception ends the rollback, and the CR is failed.
RollbackRaises ==
  /\ undo.pc \in {"load", "undo"}
  /\ cr' = "failed"
  /\ undo' = [undo EXCEPT !.pc = "off"]
  /\ UNCHANGED <<env, main, own, exec, infra, requests, history>>
-----------------------------------------------------------------------------
Crash ==
  /\ up /\ crashes < MaxCrashes
  /\ up' = FALSE
  /\ crashes' = crashes + 1
  /\ exec' = [e \in Execs |-> NoExec]
  /\ undo' = [undo EXCEPT !.pc = "off"]
  /\ UNCHANGED <<kind, rows, infra, requests, history>>

\* Mutant: startup does not scrub.
ScrubNothing == UNCHANGED cr

Scrub == cr' = IF cr = "executing" THEN "failed" ELSE cr

Restart ==
  /\ ~up
  /\ up' = TRUE
  /\ Scrub
  /\ UNCHANGED <<kind, crashes, main, own, exec, undo, infra, requests, history>>
-----------------------------------------------------------------------------
Init ==
  /\ kind \in Kinds
  /\ cr = "executing"
  /\ main = [st |-> "pending", res |-> Blank]
  /\ own = NoRun
  /\ exec = [[e \in Execs |-> NoExec] EXCEPT ![FirstExec] = [NoExec EXCEPT !.pc = "load", !.flow = TRUE]]
  /\ undo = NoUndo
  /\ applied = {} /\ pushes = [i \in Items |-> 0]
  /\ up = TRUE /\ crashes = 0 /\ requests = 0
  /\ vouched = {} /\ waived = {}
  /\ unseen = FALSE /\ misrouted = FALSE /\ overlap = FALSE

ExecStep(e) ==
  \/ Load(e) \/ Prepare(e) \/ DryRun(e) \/ PrepareFails(e) \/ FanoutRaises(e)
  \/ Push(e) \/ Pushed(e) \/ Verify(e) \/ VerifyFailed(e) \/ Verified(e) \/ Pause(e)
  \/ Store(e) \/ StorePaused(e) \/ StoreCompleted(e) \/ StoreCompletedRun(e) \/ StoreFailed(e)
  \/ ResumeSteps(e)

UndoStep == RollbackStart \/ RollbackLoad \/ RollbackStep \/ RollbackEnd \/ RollbackRaises

Next ==
  \/ \E e \in Execs : ExecStep(e) \/ RetryVerify(e) \/ ResumeNodeUpgrade(e) \/ SkipNode(e)
  \/ SkipVerify \/ RollbackRequest \/ UndoStep
  \/ Crash \/ Restart

Spec == Init /\ [][Next]_vars

(***************************************************************************)
(* The event loop keeps running its ready coroutines, every call of an     *)
(* executor has a timeout, and the supervisor restarts the process.        *)
(* Requests have no fairness.                                              *)
(***************************************************************************)
Fairness ==
  /\ \A e \in Execs : WF_vars(ExecStep(e))
  /\ WF_vars(UndoStep)
  /\ WF_vars(Restart)

FairSpec == Spec /\ Fairness
-----------------------------------------------------------------------------
(* Properties.                                                             *)

ResultType == [done : 0..3, items : SUBSET Items, upd : [Items -> {"none", "ok", "error", "failed", "skipped"}],
               ver : [Items -> {"none", "ok", "bad", "skipped"}],
               phase : {"prepare", "update", "verify"}, paused : BOOLEAN, wrapped : BOOLEAN]
RunType    == [st : {"absent", "pending", "running", "completed", "failed"}, res : ResultType]

\* The rows hold values of their columns' types.
TypeOK ==
  /\ kind \in Kinds
  /\ cr \in {"executing", "paused", "completed", "failed", "rolled_back", "rolled_back_with_warnings"}
  /\ main \in RunType /\ own \in RunType
  /\ \A e \in Execs : exec[e].rec \in ResultType /\ exec[e].todo \subseteq Items
  /\ undo.todo \subseteq undo.read /\ undo.blind \subseteq undo.read /\ undo.read \subseteq Items
  /\ applied \subseteq Items /\ waived \subseteq vouched /\ vouched \subseteq Items
  /\ pushes \in [Items -> Nat]

\* No item is changed twice: retries, also ones that cross the workflow's late
\* "paused", go on where the recorded result says.
PushedOnce == \A i \in Items : pushes[i] <= 1

\* A CR that is completed was verified: every item that was changed answered the
\* probe or was waived by an operator, and what answered is in place.  (Unless the
\* re-scan failed unseen, the CR was resumed through execute_steps, or a request
\* overlapped another execution.)
CompletedIsVerified ==
  (cr = "completed" /\ ~misrouted /\ ~overlap) =>
    /\ Unverified(Latest.res) = {}
    /\ kind # "k8s" => \A i \in Items : pushes[i] > 0 => i \in vouched
    /\ \A i \in vouched \ waived : i \in applied \/ unseen

\* When a certificate or fan-out CR is paused or completed, a rollback finds every
\* item that was reported as changed, whichever run it reads and whatever crash
\* came before.
RollbackFindsChanges ==
  (cr \in {"paused", "completed"} /\ kind # "k8s" /\ ~misrouted) =>
    \A i \in Items : (\E r \in {main.res, own.res} \cup {exec[e].rec : e \in Execs} : r.upd[i] = "ok")
                      => i \in ToUndo(RollbackResult)

\* What the runs report as changed.
Reported == {i \in Items : main.res.upd[i] = "ok" \/ own.res.upd[i] = "ok"}

\* rolled_back without warnings means that no item a run reports as changed still
\* carries the change, whatever crashes, failed executions and broken off rollbacks
\* came before: the rollback has found all of them, in whichever run they are.  (But
\* for restored secrets whose result it does not look at, and for an upgrade, whose
\* rollback leaves the nodes as they are; and outside `misrouted' and `overlap'.)
RolledBackIsUndone ==
  (cr = "rolled_back" /\ kind # "k8s" /\ ~misrouted /\ ~overlap) =>
    Reported \cap applied \subseteq undo.blind

\* An execution or a rollback under way ends.  (A fan-out that is resumed and
\* succeeds completes its run and leaves the CR executing.)
ExecutingEnds ==
  (cr = "executing") ~> (cr # "executing" \/ (own.st = "completed" /\ ~Executing))
-----------------------------------------------------------------------------
(* What the documentation says and the code does not do.                   *)

\* routers/change_requests.py, retry_verify: "Re-run Phase 5 verification for all
\* failed dependents on a paused certificate_rotation CR": such a CR is completed
\* only when every dependent was verified, or waived by skip-verify.
RetryVerifies ==
  (cr = "completed" /\ ~overlap) => \A i \in Items : pushes[i] > 0 => i \in vouched
=============================================================================
