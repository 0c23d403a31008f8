------------------------ MODULE RunbookExecutionProofs ------------------------
(***************************************************************************)
(* Theorems about RunbookExecution, for any runbooks, any number of worker *)
(* processes and CRs, and any number of requests and crashes.              *)
(***************************************************************************)
EXTENDS RunbookExecution, TLAPS

(***************************************************************************)
(* The inductive invariant.                                                *)
(***************************************************************************)
RowType == [step : Nat, st : StepStatus, crs : Seq(CRs)]

\* Nothing exists before the trigger.
Fresh ==
  est = "none" =>
    /\ cur = 0 /\ rows = <<>> /\ of = <<>> /\ request.pc = "off"
    /\ \A p \in Procs : tick[p].pc = "off"

\* A result belongs to a step of the runbook; it has CRs only when it is no
\* longer pending and its step fires them, and waits only at a checkpoint.
ResultOK(k, st, ids) ==
  /\ k \in 1..Len(book)
  /\ st = "pending" \/ book[k].type \notin Fires => ids = <<>>
  /\ st = "waiting_human" => book[k].type = "human_checkpoint"

RowsOK == \A i \in 1..Len(rows) : ResultOK(rows[i].step, rows[i].st, rows[i].crs)

\* A tick holds the result of its step, and the CRs it fired for it.
TickOK(t) ==
  /\ t.pc = "off" => t = NoTick
  /\ t.pc = "act" =>
       /\ t.est \in Active
       /\ t.row \in 0..Len(rows)
       /\ t.row = 0 => t.st = "pending" /\ t.crs = <<>>
       /\ t.row # 0 => rows[t.row].step = t.cur /\ ResultOK(t.cur, t.st, t.crs)
       /\ t.fired # <<>> => t.st = "pending" /\ t.cur \in 1..Len(book) /\ book[t.cur].type \in Fires
       /\ \A j \in 1..Len(t.fired) : t.fired[j] \in Fired /\ of[t.fired[j]] = <<t.cur, j>>

TicksOK == \A p \in Procs : TickOK(tick[p])

\* Every step before k was begun.
Begun(k) == \E i \in 1..Len(rows) : rows[i].step = k /\ rows[i].st # "pending"
BegunTo(k) == \A j \in 1..(k - 1) : Begun(j)

NoCondition == \A k \in 1..Len(book) : book[k].type # "condition"

\* Wherever a step number is kept, the steps before it were begun.
InOrder ==
  NoCondition =>
    /\ BegunTo(cur)
    /\ \A i \in 1..Len(rows) : BegunTo(rows[i].step)
    /\ \A p \in Procs : tick[p].pc = "act" => BegunTo(tick[p].cur)

\* What holds as long as the ticks of two processes were never under way at once.
OneTick == \A p, q \in Procs : tick[p].pc = "act" /\ tick[q].pc = "act" => p = q

OneResult == \A i, j \in 1..Len(rows) : rows[i].step = rows[j].step => i = j

\* The tick's copy of the result is up to date, but for its status.
CopyOK(t) ==
  t.pc = "act" =>
    /\ t.row = 0 => \A i \in 1..Len(rows) : rows[i].step # t.cur
    /\ t.row # 0 => rows[t.row].crs = t.crs

InTick(c) == \E p \in Procs : \E j \in 1..Len(tick[p].fired) : tick[p].fired[j] = c
InRow(c)  == \E i \in 1..Len(rows) :
               /\ rows[i].step = of[c][1] /\ rows[i].st # "pending"
               /\ \E j \in 1..Len(rows[i].crs) : rows[i].crs[j] = c

\* A CR is in the hands of the tick that fired it, or recorded in a result that
\* is no longer pending.
Recorded == \A c \in Fired \ dead : InTick(c) \/ InRow(c)

\* The tick that may fire a step's CRs has fired all there are.
Fresher(t) ==
  t.pc = "act" /\ t.st = "pending" =>
    \A c \in Fired \ dead : of[c][1] = t.cur => \E j \in 1..Len(t.fired) : t.fired[j] = c

Distinct == \A c, d \in Fired \ dead : of[c] = of[d] => c = d

\* The results that wait for a human.
Wait(i) == i \in 1..Len(rows) /\ rows[i].st = "waiting_human"

WaitOK ==
  /\ est = "running" => \A i \in 1..Len(rows) : ~Wait(i)
  /\ est = "waiting_human" => \E i \in 1..Len(rows) : Wait(i) /\ rows[i].step = cur
  /\ \A i, j \in 1..Len(rows) : Wait(i) /\ Wait(j) => i = j

TickWaitOK(t) ==
  /\ t.pc = "act" /\ t.est = "running" => cur = t.cur /\ \A i \in 1..Len(rows) : ~Wait(i)
  /\ t.pc = "act" /\ t.est = "waiting_human" =>
       t.st = "waiting_human" /\ \A i \in 1..Len(rows) : Wait(i) => i = t.row

Alone ==
  ~overlap =>
    /\ OneTick /\ OneResult /\ Recorded /\ Distinct /\ WaitOK
    /\ \A p \in Procs : CopyOK(tick[p]) /\ Fresher(tick[p]) /\ TickWaitOK(tick[p])

IInv == TypeOK /\ Fresh /\ RowsOK /\ TicksOK /\ InOrder /\ Alone
-----------------------------------------------------------------------------
(***************************************************************************)
(* What the steps do to the results.                                       *)
(***************************************************************************)

\* Results are added, never taken away, keep their step, and never become
\* pending again.
Grow ==
  /\ rows' \in Seq(RowType)
  /\ Len(rows) <= Len(rows')
  /\ \A i \in 1..Len(rows) :
       /\ rows'[i].step = rows[i].step
       /\ rows'[i].st = "pending" => rows[i].st = "pending"

\* The tick t puts the k-th result, with status s and CRs ids.
PutAt(t, k, s, ids) ==
  /\ k = IF t.row = 0 THEN Len(rows) + 1 ELSE t.row
  /\ rows' \in Seq(RowType)
  /\ Len(rows') = IF t.row = 0 THEN Len(rows) + 1 ELSE Len(rows)
  /\ \A i \in 1..Len(rows') : i # k => i \in 1..Len(rows) /\ rows'[i] = rows[i]
  /\ rows'[k].step = t.cur
  /\ rows'[k].st = IF t.row # 0 /\ s = t.st THEN rows[k].st ELSE s
  /\ rows'[k].crs = IF t.row # 0 /\ ids = t.crs THEN rows[k].crs ELSE ids

\* A request closes results.
Close ==
  /\ rows' \in Seq(RowType) /\ Len(rows') = Len(rows)
  /\ \A i \in 1..Len(rows) :
       /\ rows'[i].step = rows[i].step /\ rows'[i].crs = rows[i].crs
       /\ rows'[i].st \in {rows[i].st, "completed", "failed"}

\* The three ways in which a tick ends: it leaves the results alone; it raises,
\* with its result pending; it settles its result.  Died(t) are its CRs.
Died(t) == {t.fired[i] : i \in 1..Len(t.fired)}

Leaves(t) ==
  /\ rows' = rows /\ dead' = dead \cup Died(t)
  /\ cur' = cur /\ est' \in {est, "completed"}

Raises(t, k) ==
  /\ t.st = "pending" /\ t.cur \in 1..Len(book)
  /\ PutAt(t, k, "pending", <<>>) /\ dead' = dead \cup Died(t)
  /\ cur' = cur /\ est' = est

Settles(t, k, s, ids) ==
  /\ PutAt(t, k, s, ids) /\ dead' = dead
  /\ s \in StepStatus \ {"pending", t.st} /\ ids \in Seq(CRs)
  /\ ResultOK(t.cur, s, ids)
  /\ ids = t.crs \/ (ids = t.fired /\ t.st = "pending")
  /\ t.fired = <<>> \/ ids = t.fired
  /\ cur' \in {cur, t.cur + 1} \/ (cur' \in Nat /\ ~NoCondition)
  /\ \/ s = "completed" /\ est' = IF t.est = "running" THEN est ELSE "running"
     \/ s = "failed" /\ est' \in {"failed", "rolled_back"}
     \/ s \in {"completed", "failed"} /\ est' = est /\ t.st # "waiting_human"
     \/ s = "running" /\ est' = est /\ t.st = "pending"
     \/ /\ s = "waiting_human" /\ t.st = "pending" /\ cur' = cur
        /\ est' = IF t.est = "waiting_human" THEN est ELSE "waiting_human"

LEMMA PutRowPutsAt ==
  ASSUME TypeOK, NEW p \in Procs, TickOK(tick[p]), tick[p].pc = "act",
         NEW t, t = tick[p], NEW s \in StepStatus, NEW ids \in Seq(CRs),
         PutRow(p, s, ids)
  PROVE  \E k \in Nat : PutAt(t, k, s, ids)
<1>1. /\ rows \in Seq(RowType) /\ t \in TickType /\ t.row \in 0..Len(rows)
      /\ t.row # 0 => rows[t.row].step = t.cur
  BY DEF TypeOK, TickOK, RowType
<1>2. CASE t.row = 0
  <2> DEFINE r == [step |-> t.cur, st |-> s, crs |-> ids]
  <2>1. r \in RowType
    BY <1>1 DEF RowType, TickType
  <2>2. rows' = Append(rows, r)
    BY <1>2 DEF PutRow
  <2> HIDE DEF r
  <2>3. /\ rows' \in Seq(RowType) /\ Len(rows') = Len(rows) + 1
        /\ rows'[Len(rows) + 1] = r
        /\ \A i \in 1..Len(rows') : i # Len(rows) + 1 => i \in 1..Len(rows) /\ rows'[i] = rows[i]
    BY <1>1, <2>1, <2>2
  <2>4. r.step = t.cur /\ r.st = s /\ r.crs = ids
    BY DEF r
  <2>5. PutAt(t, Len(rows) + 1, s, ids)
    BY <1>2, <2>3, <2>4 DEF PutAt
  <2> QED BY <1>1, <2>5
<1>3. CASE t.row # 0
  <2> DEFINE o == rows[t.row]
             r == [o EXCEPT !.st = IF s = t.st THEN o.st ELSE s,
                            !.crs = IF ids = t.crs THEN o.crs ELSE ids]
  <2>0. t.row \in 1..Len(rows) /\ rows[t.row] \in RowType
    BY <1>1, <1>3
  <2>1. r \in RowType
    BY <2>0 DEF RowType
  <2>2. rows' = [rows EXCEPT ![t.row] = r]
    BY <1>3 DEF PutRow
  <2>4. /\ r.step = rows[t.row].step
        /\ r.st = IF s = t.st THEN rows[t.row].st ELSE s
        /\ r.crs = IF ids = t.crs THEN rows[t.row].crs ELSE ids
    BY <2>0 DEF RowType
  <2> HIDE DEF r
  <2>3. /\ rows' \in Seq(RowType) /\ Len(rows') = Len(rows)
        /\ rows'[t.row] = r
        /\ \A i \in 1..Len(rows') : i # t.row => i \in 1..Len(rows) /\ rows'[i] = rows[i]
    BY <1>1, <2>0, <2>1, <2>2
  <2>5. PutAt(t, t.row, s, ids)
    BY <1>1, <1>3, <2>3, <2>4 DEF PutAt
  <2> QED BY <1>1, <2>5
<1> QED BY <1>2, <1>3

LEMMA PutAtGrows ==
  ASSUME TypeOK, NEW p \in Procs, TickOK(tick[p]), tick[p].pc = "act",
         NEW t, t = tick[p], NEW s, NEW ids, NEW k \in Nat, PutAt(t, k, s, ids),
         s # "pending" \/ s = t.st
  PROVE  Grow
<1>1. /\ rows \in Seq(RowType) /\ t.row \in 0..Len(rows)
      /\ t.row # 0 => rows[t.row].step = t.cur
  BY DEF TypeOK, TickOK, RowType
<1> QED BY <1>1 DEF PutAt, Grow

LEMMA CloseGrows ==
  ASSUME TypeOK, Close
  PROVE  Grow
<1>1. rows \in Seq(RowType)
  BY DEF TypeOK, RowType
<1>2. rows' \in Seq(RowType) /\ Len(rows') = Len(rows) /\ Len(rows) \in Nat
  BY <1>1 DEF Close
<1>3. ASSUME NEW i \in 1..Len(rows)
      PROVE  /\ rows'[i].step = rows[i].step
             /\ rows'[i].st = "pending" => rows[i].st = "pending"
  BY DEF Close
<1> QED BY <1>2, <1>3 DEF Grow

LEMMA SameGrows ==
  ASSUME TypeOK, rows' = rows
  PROVE  Grow
BY DEF TypeOK, RowType, Grow

LEMMA StillBegun ==
  ASSUME TypeOK, Grow, NEW k \in Nat, BegunTo(k)
  PROVE  BegunTo(k)'
<1>1. rows \in Seq(RowType) /\ rows' \in Seq(RowType)
  BY DEF TypeOK, RowType, Grow
<1> SUFFICES ASSUME NEW j \in 1..(k - 1)
             PROVE  Begun(j)'
  BY DEF BegunTo
<1>2. PICK i \in 1..Len(rows) : rows[i].step = j /\ rows[i].st # "pending"
  BY DEF BegunTo, Begun
<1>3. i \in 1..Len(rows')
  BY <1>1 DEF Grow
<1>4. rows'[i].step = j /\ rows'[i].st # "pending"
  BY <1>2 DEF Grow
<1> QED BY <1>3, <1>4 DEF Begun
-----------------------------------------------------------------------------
(***************************************************************************)
(* How a tick ends.                                                        *)
(***************************************************************************)
Still(p) == EndTick(p) /\ UNCHANGED <<book, crs, request, bounds, overlap>>

Ends(p, t) ==
  /\ Still(p)
  /\ \/ Leaves(t)
     \/ \E k \in Nat : Raises(t, k)
     \/ \E k \in Nat, s \in StepStatus, ids \in Seq(CRs) : Settles(t, k, s, ids)

\* What is known of a tick at a step of the given types.
LEMMA AtStepFacts ==
  ASSUME TypeOK, RowsOK, TicksOK, NEW p \in Procs, NEW t, t = tick[p],
         NEW types, NEW st, AtStep(p, types, st)
  PROVE  /\ t \in TickType /\ t.pc = "act" /\ t.cur \in 1..Len(book) /\ t.est \in Active
         /\ book \in Seq(StepType) /\ book[t.cur] \in StepType
         /\ book[t.cur].type \in types /\ t.st = st
         /\ ResultOK(t.cur, t.st, t.crs)
         /\ t.fired # <<>> => t.st = "pending" /\ book[t.cur].type \in Fires
<1>1. t \in TickType /\ book \in Seq(StepType)
  <2>1. <<>> \in Seq(StepType)
    OBVIOUS
  <2> QED BY <2>1, RunbookAssumption DEF TypeOK
<1>2. TickOK(t)
  BY DEF TicksOK
<1>3. t.pc = "act" /\ t.cur \in 1..Len(book) /\ book[t.cur].type \in types /\ t.st = st
  BY DEF AtStep, AtEnd, Step
<1>4. t.row = 0 => ResultOK(t.cur, t.st, t.crs)
  BY <1>2, <1>3 DEF TickOK, ResultOK
<1>5. t.row # 0 => ResultOK(t.cur, t.st, t.crs)
  BY <1>2, <1>3 DEF TickOK
<1>6. book[t.cur] \in StepType
  BY <1>1, <1>3
<1>7. t.est \in Active /\ (t.fired # <<>> => t.st = "pending" /\ book[t.cur].type \in Fires)
  BY <1>2, <1>3 DEF TickOK
<1> QED BY <1>1, <1>3, <1>4, <1>5, <1>6, <1>7

LEMMA FailStepSettles ==
  ASSUME TypeOK, RowsOK, TicksOK, NEW p \in Procs, NEW t, t = tick[p],
         NEW types, NEW st, AtStep(p, types, st), st \in {"pending", "running"},
         NEW ids \in Seq(CRs), FailStep(p, ids), dead' = dead,
         ids = t.crs \/ (ids = t.fired /\ st = "pending"),
         t.fired = <<>> \/ ids = t.fired,
         book[t.cur].type \notin Fires => ids = <<>>
  PROVE  \E k \in Nat, s \in StepStatus, i \in Seq(CRs) : Settles(t, k, s, i)
<1>1. /\ t \in TickType /\ t.pc = "act" /\ t.cur \in 1..Len(book) /\ t.est \in Active
      /\ book[t.cur] \in StepType /\ t.st = st
  BY AtStepFacts
<1>2. PutRow(p, "failed", ids) /\ "failed" \in StepStatus
  BY DEF FailStep, StepStatus
<1>3. PICK k \in Nat : PutAt(t, k, "failed", ids)
  BY <1>1, <1>2, PutRowPutsAt DEF TicksOK
<1>4. /\ cur' \in {cur, t.cur + 1}
      /\ \/ est' \in {"failed", "rolled_back"}
         \/ est' = est
  BY <1>1 DEF FailStep, Step, PutExecution, Active, TickType
<1>5. ResultOK(t.cur, "failed", ids)
  BY <1>1 DEF ResultOK
<1>6. Settles(t, k, "failed", ids)
  BY <1>1, <1>2, <1>3, <1>4, <1>5 DEF Settles
<1> QED BY <1>2, <1>6

LEMMA AdvanceSettles ==
  ASSUME TypeOK, RowsOK, TicksOK, NEW p \in Procs, NEW t, t = tick[p],
         NEW types, NEW st, AtStep(p, types, st), st \notin {"completed", "waiting_human"},
         NEW ids \in Seq(CRs), NEW n \in Nat, Advance(p, ids, n), dead' = dead,
         ids = t.crs, t.fired = <<>>,
         n = t.cur + 1 \/ ~NoCondition,
         book[t.cur].type \notin Fires => ids = <<>>
  PROVE  \E k \in Nat, s \in StepStatus, i \in Seq(CRs) : Settles(t, k, s, i)
<1>1. /\ t \in TickType /\ t.pc = "act" /\ t.cur \in 1..Len(book) /\ t.est \in Active
      /\ book[t.cur] \in StepType /\ t.st = st
  BY AtStepFacts
<1>2. PutRow(p, "completed", ids) /\ "completed" \in StepStatus
  BY DEF Advance, StepStatus
<1>3. PICK k \in Nat : PutAt(t, k, "completed", ids)
  BY <1>1, <1>2, PutRowPutsAt DEF TicksOK
<1>4. /\ cur' \in {cur, t.cur + 1} \/ (cur' \in Nat /\ ~NoCondition)
      /\ est' = est
  BY <1>1 DEF Advance, PutExecution, TypeOK
<1>5. ResultOK(t.cur, "completed", ids)
  BY <1>1 DEF ResultOK
<1>6. Settles(t, k, "completed", ids)
  BY <1>1, <1>2, <1>3, <1>4, <1>5 DEF Settles
<1> QED BY <1>2, <1>6

\* Every step that ends a tick does so in one of the three ways.
LEMMA EndCases ==
  ASSUME TypeOK, RowsOK, TicksOK, NEW p \in Procs, NEW t, t = tick[p],
         TickWork(p), ~FireChild(p)
  PROVE  t.pc = "act" /\ Ends(p, t)
<1> USE DEF Ends
<1>0. t \in TickType /\ TickOK(t) /\ <<>> \in Seq(CRs) /\ t.crs \in Seq(CRs) /\ t.fired \in Seq(CRs)
  <2>1. t \in TickType /\ TickOK(t)
    BY DEF TypeOK, TicksOK
  <2> QED BY <2>1 DEF TickType
<1>9. t.fired = <<>> => dead = dead \cup Died(t)
  BY DEF Died
<1>1. CASE TickComplete(p)
  <2>1. t.fired = <<>> /\ t.pc = "act"
    BY <1>0, <1>1 DEF TickComplete, AtEnd, TickOK
  <2>2. Leaves(t)
    BY <1>1, <1>9, <2>1 DEF TickComplete, PutExecution, Leaves, history, TickOK
  <2>3. Still(p)
    BY <1>1 DEF TickComplete, Still, history
  <2> QED BY <2>1, <2>2, <2>3
<1>2. CASE FireBlocked(p)
  <2>1. AtStep(p, Fires, "pending") /\ FailStep(p, t.fired) /\ dead' = dead /\ Still(p)
    BY <1>2 DEF FireBlocked, Still, history
  <2>2. book[t.cur].type \in Fires /\ t.pc = "act"
    BY <2>1, AtStepFacts
  <2> QED BY <1>0, <2>1, <2>2, FailStepSettles
<1>3. CASE FireRaises(p)
  <2>1. /\ AtStep(p, Fires, "pending") /\ PutRow(p, "pending", <<>>) /\ "pending" \in StepStatus
        /\ Still(p) /\ cur' = cur /\ est' = est /\ dead' = dead \cup Died(t)
    BY <1>3 DEF FireRaises, Still, Died, StepStatus
  <2>2. t.pc = "act" /\ t.st = "pending" /\ t.cur \in 1..Len(book)
    BY <2>1, AtStepFacts
  <2>3. PICK k \in Nat : PutAt(t, k, "pending", <<>>)
    BY <1>0, <2>1, <2>2, PutRowPutsAt
  <2>4. Raises(t, k)
    BY <2>1, <2>2, <2>3 DEF Raises
  <2> QED BY <2>1, <2>2, <2>4
<1>4. CASE RecordFired(p)
  <2>1. /\ AtStep(p, Fires, "pending") /\ PutRow(p, "running", t.fired) /\ "running" \in StepStatus
        /\ Still(p) /\ cur' = cur /\ est' = est /\ dead' = dead
    BY <1>4 DEF RecordFired, Still, FiredStatus, history, StepStatus
  <2>2. t.pc = "act" /\ t.st = "pending" /\ t.cur \in 1..Len(book) /\ book[t.cur].type \in Fires
    BY <2>1, AtStepFacts
  <2>3. PICK k \in Nat : PutAt(t, k, "running", t.fired)
    BY <1>0, <2>1, <2>2, PutRowPutsAt
  <2>4. ResultOK(t.cur, "running", t.fired)
    BY <2>2 DEF ResultOK
  <2>5. Settles(t, k, "running", t.fired)
    BY <1>0, <2>1, <2>2, <2>3, <2>4 DEF Settles
  <2> QED BY <1>0, <2>1, <2>2, <2>5
<1>5. CASE PollCRs(p)
  <2>1. AtStep(p, Fires, "running") /\ dead' = dead /\ Still(p)
    BY <1>5 DEF PollCRs, Still, history
  <2>2. t.pc = "act" /\ t.st = "running" /\ book[t.cur].type \in Fires /\ t.fired = <<>> /\ t.cur + 1 \in Nat
    BY <1>0, <2>1, AtStepFacts DEF TickType
  <2>3. CASE UNCHANGED <<est, cur, rows>>
    <3>1. Leaves(t)
      BY <1>9, <2>1, <2>2, <2>3 DEF Leaves
    <3> QED BY <2>1, <2>2, <3>1
  <2>4. CASE Advance(p, t.crs, t.cur + 1)
    BY <1>0, <2>1, <2>2, <2>4, AdvanceSettles
  <2>5. CASE FailStep(p, t.crs)
    BY <1>0, <2>1, <2>2, <2>5, FailStepSettles
  <2> QED BY <1>5, <2>3, <2>4, <2>5 DEF PollCRs
<1>6. CASE EvalCondition(p)
  <2>1. AtStep(p, {"condition"}, "pending") /\ dead' = dead /\ Still(p)
    BY <1>6 DEF EvalCondition, Still, history
  <2>2. /\ t.pc = "act" /\ t.st = "pending" /\ book[t.cur].type = "condition" /\ t.crs = <<>>
        /\ t.fired = <<>> /\ t.cur \in 1..Len(book) /\ book[t.cur] \in StepType
    BY <2>1, AtStepFacts DEF ResultOK, Fires
  <2>3. ASSUME NEW n \in Step(p).to, Advance(p, <<>>, n)
        PROVE  Ends(p, t)
    <3>1. n \in Nat
      BY <2>2 DEF StepType, Step
    <3>2. ~NoCondition
      BY <2>2 DEF NoCondition
    <3> QED BY <1>0, <2>1, <2>2, <2>3, <3>1, <3>2, AdvanceSettles
  <2>4. CASE FailStep(p, <<>>)
    BY <1>0, <2>1, <2>2, <2>4, FailStepSettles
  <2> QED BY <1>6, <2>2, <2>3, <2>4 DEF EvalCondition
<1>7. CASE OpenCheckpoint(p)
  <2>1. /\ AtStep(p, {"human_checkpoint"}, "pending") /\ PutRow(p, "waiting_human", <<>>)
        /\ "waiting_human" \in StepStatus /\ Still(p) /\ dead' = dead
        /\ cur' = cur /\ est' = IF t.est = "waiting_human" THEN est ELSE "waiting_human"
    BY <1>7 DEF OpenCheckpoint, PutExecution, Still, history, StepStatus
  <2>2. /\ t.pc = "act" /\ t.st = "pending" /\ t.cur \in 1..Len(book) /\ t.crs = <<>>
        /\ book[t.cur].type = "human_checkpoint" /\ t.fired = <<>>
    BY <2>1, AtStepFacts DEF ResultOK, Fires
  <2>3. PICK k \in Nat : PutAt(t, k, "waiting_human", <<>>)
    BY <1>0, <2>1, <2>2, PutRowPutsAt
  <2>4. ResultOK(t.cur, "waiting_human", <<>>)
    BY <2>2 DEF ResultOK
  <2>5. Settles(t, k, "waiting_human", <<>>)
    BY <1>0, <2>1, <2>2, <2>3, <2>4 DEF Settles
  <2> QED BY <1>0, <2>1, <2>2, <2>5
<1>8. CASE TimeOut(p)
  <2>1. AtStep(p, {"human_checkpoint"}, "waiting_human") /\ dead' = dead /\ Still(p)
    BY <1>8 DEF TimeOut, Still, history
  <2>2. /\ t.pc = "act" /\ t.st = "waiting_human" /\ t.cur \in 1..Len(book) /\ t.crs = <<>>
        /\ book[t.cur].type = "human_checkpoint" /\ t.fired = <<>> /\ t.est \in Active
        /\ t.cur + 1 \in Nat
    BY <1>0, <2>1, AtStepFacts, SMTT(30) DEF ResultOK, Fires, TickType
  <2>3. CASE PutRow(p, "failed", <<>>) /\ PutExecution(p, "failed", tick[p].cur)
    <3>1. "failed" \in StepStatus /\ cur' = cur /\ est' = "failed"
      BY <2>2, <2>3 DEF PutExecution, Active, StepStatus
    <3>2. PICK k \in Nat : PutAt(t, k, "failed", <<>>)
      BY <1>0, <2>2, <2>3, <3>1, PutRowPutsAt
    <3>3. ResultOK(t.cur, "failed", <<>>)
      BY <2>2 DEF ResultOK
    <3>4. Settles(t, k, "failed", <<>>)
      BY <1>0, <2>1, <2>2, <3>1, <3>2, <3>3 DEF Settles
    <3> QED BY <1>0, <2>1, <2>2, <3>1, <3>4
  <2>4. CASE PutRow(p, "completed", <<>>) /\ PutExecution(p, "running", tick[p].cur + 1)
    <3>1. /\ "completed" \in StepStatus /\ cur' \in {cur, t.cur + 1}
          /\ est' = IF t.est = "running" THEN est ELSE "running"
      BY <2>2, <2>4 DEF PutExecution, StepStatus
    <3>2. PICK k \in Nat : PutAt(t, k, "completed", <<>>)
      BY <1>0, <2>2, <2>4, <3>1, PutRowPutsAt
    <3>3. ResultOK(t.cur, "completed", <<>>)
      BY <2>2 DEF ResultOK
    <3>4. Settles(t, k, "completed", <<>>)
      BY <1>0, <2>1, <2>2, <3>1, <3>2, <3>3 DEF Settles
    <3> QED BY <1>0, <2>1, <2>2, <3>1, <3>4
  <2> QED BY <1>8, <2>3, <2>4 DEF TimeOut
<1>10. CASE TickIdle(p)
  <2>1. t.fired = <<>> /\ t.pc = "act"
    BY <1>0, <1>10 DEF TickIdle, AtStep, TickOK
  <2>2. Leaves(t)
    BY <1>9, <1>10, <2>1 DEF TickIdle, Leaves, history, rowsv
  <2>3. Still(p)
    BY <1>10 DEF TickIdle, Still, history, rowsv
  <2> QED BY <2>1, <2>2, <2>3
<1> QED BY <1>1, <1>2, <1>3, <1>4, <1>5, <1>6, <1>7, <1>8, <1>10 DEF TickWork
-----------------------------------------------------------------------------
(***************************************************************************)
(* Facts for every kind of step.                                           *)
(***************************************************************************)

\* The CRs fired before stay what they are.
FiredGrows == Len(of) <= Len(of') /\ \A c \in Fired : of'[c] = of[c]

LEMMA TickStays ==
  ASSUME TypeOK, Grow, book' = book, of' \in Seq(Nat \X Nat), FiredGrows,
         NEW u, u \in TickType, TickOK(u)
  PROVE  TickOK(u)'
<1>1. rows \in Seq(RowType) /\ rows' \in Seq(RowType) /\ of \in Seq(Nat \X Nat)
  BY DEF TypeOK, RowType, Grow
<1>2. SUFFICES ASSUME u.pc = "act"
               PROVE  TickOK(u)'
  BY DEF TickOK, TickType
<1>3. u.row \in 0..Len(rows') /\ (u.row # 0 => rows'[u.row].step = u.cur)
  BY <1>1, <1>2 DEF TickOK, Grow
<1>4. (u.row # 0 => ResultOK(u.cur, u.st, u.crs)') 
  BY <1>2 DEF TickOK, ResultOK
<1>5. u.fired # <<>> => u.st = "pending" /\ u.cur \in 1..Len(book') /\ book'[u.cur].type \in Fires
  BY <1>2 DEF TickOK
<1>6. ASSUME NEW j \in 1..Len(u.fired)
      PROVE  u.fired[j] \in Fired' /\ of'[u.fired[j]] = <<u.cur, j>>
  <2>1. u.fired[j] \in Fired /\ of[u.fired[j]] = <<u.cur, j>>
    BY <1>2 DEF TickOK
  <2>2. Fired \subseteq Fired'
    BY <1>1 DEF Fired, FiredGrows
  <2> QED BY <2>1, <2>2 DEF FiredGrows
<1>7. u.est \in Active /\ (u.row = 0 => u.st = "pending" /\ u.crs = <<>>)
  BY <1>2 DEF TickOK
<1> QED BY <1>2, <1>3, <1>4, <1>5, <1>6, <1>7 DEF TickOK

LEMMA OrderStays ==
  ASSUME TypeOK, TypeOK', InOrder, Grow, book' = book,
         NoCondition => BegunTo(cur)',
         \A i \in 1..Len(rows') :
           i \in 1..Len(rows) \/ \E q \in Procs : tick[q].pc = "act" /\ rows'[i].step = tick[q].cur,
         \A q \in Procs : tick'[q].pc = "act" =>
           tick'[q].cur = cur \/ (tick[q].pc = "act" /\ tick'[q].cur = tick[q].cur)
  PROVE  InOrder'
<1> SUFFICES ASSUME NoCondition'
             PROVE  /\ BegunTo(cur)'
                    /\ \A i \in 1..Len(rows') : BegunTo(rows[i].step)'
                    /\ \A q \in Procs : tick'[q].pc = "act" => BegunTo(tick[q].cur)'
  BY DEF InOrder
<1>1. NoCondition
  BY DEF NoCondition
<1>2. /\ rows \in Seq(RowType) /\ rows' \in Seq(RowType) /\ cur \in Nat
      /\ tick \in [Procs -> TickType] /\ tick' \in [Procs -> TickType]
  BY DEF TypeOK, RowType
<1>3. ASSUME NEW i \in 1..Len(rows')
      PROVE  BegunTo(rows[i].step)'
  <2>0. rows'[i] \in RowType
    BY <1>2
  <2>1. PICK n \in Nat : n = rows'[i].step
    BY <2>0 DEF RowType
  <2>2. CASE i \in 1..Len(rows)
    <3>1. n = rows[i].step
      BY <2>1, <2>2 DEF Grow
    <3>2. BegunTo(n)
      BY <1>1, <2>2, <3>1 DEF InOrder
    <3>3. BegunTo(n)'
      BY <3>2, StillBegun
    <3> QED BY <2>1, <3>3
  <2>3. CASE i \notin 1..Len(rows)
    <3>1. PICK q \in Procs : tick[q].pc = "act" /\ n = tick[q].cur
      BY <2>1, <2>3
    <3>2. BegunTo(n)
      BY <1>1, <3>1 DEF InOrder
    <3>3. BegunTo(n)'
      BY <3>2, StillBegun
    <3> QED BY <2>1, <3>3
  <2> QED BY <2>2, <2>3
<1>4. ASSUME NEW q \in Procs, tick'[q].pc = "act"
      PROVE  BegunTo(tick[q].cur)'
  <2>1. PICK n \in Nat : n = tick'[q].cur
    BY <1>2 DEF TickType
  <2>2. BegunTo(n)
    BY <1>1, <1>4, <2>1 DEF InOrder
  <2>3. BegunTo(n)'
    BY <2>2, StillBegun
  <2> QED BY <2>1, <2>3
<1> QED BY <1>1, <1>3, <1>4

\* A step that leaves the current step alone leaves what was begun before it.
LEMMA SameCurBegun ==
  ASSUME TypeOK, InOrder, Grow, cur' = cur, NoCondition
  PROVE  BegunTo(cur)'
<1>1. PICK n \in Nat : n = cur
  BY DEF TypeOK
<1>2. BegunTo(n)
  BY <1>1 DEF InOrder
<1>3. BegunTo(n)'
  BY <1>2, StillBegun
<1> QED BY <1>1, <1>3

\* The current step moves on from a step that has been begun.
LEMMA NextCurBegun ==
  ASSUME TypeOK, Grow, NEW n \in Nat, BegunTo(n), Begun(n)', cur' = n + 1
  PROVE  BegunTo(cur)'
<1>1. BegunTo(n)'
  BY StillBegun
<1>2. ASSUME NEW j \in 1..((n + 1) - 1)
      PROVE  Begun(j)'
  <2>1. CASE j = n
    BY <2>1
  <2>2. CASE j # n
    <3>1. j \in 1..(n - 1)
      BY <2>2
    <3> QED BY <1>1, <3>1 DEF BegunTo
  <2> QED BY <2>1, <2>2
<1> QED BY <1>2 DEF BegunTo
-----------------------------------------------------------------------------
(***************************************************************************)
(* A tick is over.                                                         *)
(***************************************************************************)
Gone(p, t) ==
  /\ EndTick(p) /\ UNCHANGED <<book, of, overlap>>
  /\ \/ Leaves(t) /\ (t.pc = "act" \/ est' = est)
     \/ t.pc = "act" /\ \E k \in Nat : Raises(t, k)
     \/ t.pc = "act" /\ \E k \in Nat, s \in StepStatus, ids \in Seq(CRs) : Settles(t, k, s, ids)

LEMMA GoneGrows ==
  ASSUME TypeOK, TicksOK, NEW p \in Procs, NEW t, t = tick[p], Gone(p, t)
  PROVE  Grow
<1>1. TickOK(t)
  BY DEF TicksOK
<1>2. CASE Leaves(t)
  BY <1>2, SameGrows DEF Leaves
<1>3. ASSUME NEW k \in Nat, Raises(t, k), t.pc = "act"
      PROVE  Grow
  BY <1>1, <1>3, PutAtGrows DEF Raises
<1>4. ASSUME NEW k \in Nat, NEW s \in StepStatus, NEW ids \in Seq(CRs), Settles(t, k, s, ids), t.pc = "act"
      PROVE  Grow
  BY <1>1, <1>4, PutAtGrows DEF Settles
<1> QED BY <1>2, <1>3, <1>4 DEF Gone

LEMMA GoneCur ==
  ASSUME TypeOK, NEW p \in Procs, NEW t, t = tick[p], Gone(p, t)
  PROVE  cur' \in Nat /\ est' \in ExecutionStatus /\ dead' \subseteq CRs
<1>1. cur \in Nat /\ est \in ExecutionStatus /\ dead \subseteq CRs /\ t \in TickType
  BY DEF TypeOK
<1>2. Died(t) \subseteq CRs /\ t.cur + 1 \in Nat
  BY <1>1 DEF Died, TickType
<1>3. CASE Leaves(t)
  BY <1>1, <1>2, <1>3 DEF Leaves, ExecutionStatus
<1>4. ASSUME NEW k \in Nat, Raises(t, k)
      PROVE  cur' \in Nat /\ est' \in ExecutionStatus /\ dead' \subseteq CRs
  BY <1>1, <1>2, <1>4 DEF Raises
<1>5. ASSUME NEW k \in Nat, NEW s \in StepStatus, NEW ids \in Seq(CRs), Settles(t, k, s, ids)
      PROVE  cur' \in Nat /\ est' \in ExecutionStatus /\ dead' \subseteq CRs
  BY <1>1, <1>2, <1>5 DEF Settles, ExecutionStatus, Active
<1> QED BY <1>3, <1>4, <1>5 DEF Gone

LEMMA GoneType ==
  ASSUME TypeOK, TicksOK, NEW p \in Procs, NEW t, t = tick[p], Gone(p, t)
  PROVE  tick' \in [Procs -> TickType] /\ rows' \in Seq(RowType)
<1>1. NoTick \in TickType
  BY DEF NoTick, TickType, ExecutionStatus, StepStatus, Active
<1>2. tick' \in [Procs -> TickType]
  BY <1>1 DEF TypeOK, Gone, EndTick
<1> QED BY <1>2, GoneGrows DEF Grow

LEMMA GoneRows ==
  ASSUME TypeOK, RowsOK, TicksOK, NEW p \in Procs, NEW t, t = tick[p], Gone(p, t)
  PROVE  RowsOK'
<1>1. TickOK(t) /\ rows \in Seq(RowType) /\ book' = book
  BY DEF TicksOK, TypeOK, RowType, Gone
<1>2. CASE rows' = rows
  BY <1>1, <1>2 DEF RowsOK, ResultOK
<1>3. ASSUME NEW k \in Nat, Raises(t, k), t.pc = "act"
      PROVE  RowsOK'
  <2>1. PutAt(t, k, "pending", <<>>) /\ t.st = "pending" /\ t.cur \in 1..Len(book)
    BY <1>3 DEF Raises
  <2>2. ASSUME NEW i \in 1..Len(rows')
        PROVE  ResultOK(rows[i].step, rows[i].st, rows[i].crs)'
    <3>1. CASE i # k
      BY <1>1, <2>1, <3>1 DEF PutAt, RowsOK, ResultOK
    <3>2. CASE i = k /\ t.row = 0
      BY <1>1, <2>1, <3>2 DEF PutAt, ResultOK
    <3>3. CASE i = k /\ t.row # 0
      <4>1. k \in 1..Len(rows) /\ rows[k].step = t.cur /\ t.crs = <<>>
        BY <1>1, <1>3, <2>1, <3>3 DEF TickOK, PutAt, ResultOK
      <4>2. rows'[i].step = t.cur /\ rows'[i].st = rows[k].st /\ rows'[i].crs = rows[k].crs
        BY <2>1, <3>3, <4>1 DEF PutAt
      <4>3. ResultOK(rows[k].step, rows[k].st, rows[k].crs)
        BY <4>1 DEF RowsOK
      <4> QED BY <1>1, <4>1, <4>2, <4>3 DEF ResultOK
    <3> QED BY <3>1, <3>2, <3>3
  <2> QED BY <2>2 DEF RowsOK
<1>4. ASSUME NEW k \in Nat, NEW s \in StepStatus, NEW ids \in Seq(CRs), Settles(t, k, s, ids), t.pc = "act"
      PROVE  RowsOK'
  <2>1. PutAt(t, k, s, ids) /\ ResultOK(t.cur, s, ids) /\ s # "pending" /\ s # t.st
    BY <1>4 DEF Settles
  <2>2. ASSUME NEW i \in 1..Len(rows')
        PROVE  ResultOK(rows[i].step, rows[i].st, rows[i].crs)'
    <3>1. CASE i # k
      BY <1>1, <2>1, <3>1 DEF PutAt, RowsOK, ResultOK
    <3>2. CASE i = k /\ t.row = 0
      BY <1>1, <2>1, <3>2 DEF PutAt, ResultOK
    <3>3. CASE i = k /\ t.row # 0
      <4>1. k \in 1..Len(rows) /\ rows[k].step = t.cur
        BY <1>1, <1>4, <2>1, <3>3 DEF TickOK, PutAt
      <4>2. rows'[i].step = t.cur /\ rows'[i].st = s /\ rows'[i].crs \in {ids, rows[k].crs}
        BY <2>1, <3>3, <4>1 DEF PutAt
      <4>3. ResultOK(rows[k].step, rows[k].st, rows[k].crs)
        BY <4>1 DEF RowsOK
      <4> QED BY <1>1, <2>1, <4>1, <4>2, <4>3 DEF ResultOK
    <3> QED BY <3>1, <3>2, <3>3
  <2> QED BY <2>2 DEF RowsOK
<1> QED BY <1>2, <1>3, <1>4 DEF Gone, Leaves

LEMMA GoneTicks ==
  ASSUME TypeOK, TicksOK, NEW p \in Procs, NEW t, t = tick[p], Gone(p, t)
  PROVE  TicksOK'
<1>1. Grow /\ of' \in Seq(Nat \X Nat) /\ FiredGrows /\ book' = book /\ tick \in [Procs -> TickType]
  BY GoneGrows DEF Gone, TypeOK, FiredGrows
<1>2. ASSUME NEW q \in Procs
      PROVE  TickOK(tick[q])'
  <2>1. CASE q = p
    <3>1. tick'[q] = NoTick
      BY <1>1, <2>1 DEF Gone, EndTick
    <3> QED BY <3>1 DEF TickOK, NoTick
  <2>2. CASE q # p
    <3>1. PICK u \in TickType : u = tick[q]
      BY <1>1
    <3>2. tick'[q] = u
      BY <2>2, <3>1 DEF Gone, EndTick
    <3>3. TickOK(u)'
      BY <1>1, <3>1, TickStays DEF TicksOK
    <3> QED BY <3>2, <3>3
  <2> QED BY <2>1, <2>2
<1> QED BY <1>2 DEF TicksOK

LEMMA GoneOrder ==
  ASSUME TypeOK, TypeOK', TicksOK, InOrder, NEW p \in Procs, NEW t, t = tick[p], Gone(p, t)
  PROVE  InOrder'
<1>1. /\ Grow /\ book' = book /\ TickOK(t) /\ tick \in [Procs -> TickType] /\ t \in TickType
      /\ rows \in Seq(RowType)
  BY GoneGrows DEF Gone, TypeOK, TicksOK, RowType
<1>2. NoCondition => BegunTo(cur)'
  <2> SUFFICES ASSUME NoCondition PROVE BegunTo(cur)'
    OBVIOUS
  <2>1. CASE cur' = cur
    BY <1>1, <2>1, SameCurBegun
  <2>2. ASSUME NEW k \in Nat, NEW s \in StepStatus, NEW ids \in Seq(CRs), Settles(t, k, s, ids),
               t.pc = "act", cur' # cur
        PROVE  BegunTo(cur)'
    <3>1. cur' = t.cur + 1 /\ t.cur \in Nat
      BY <1>1, <2>2 DEF Settles, TickType
    <3>2. BegunTo(t.cur)
      BY <2>2 DEF InOrder
    <3>3. k \in 1..Len(rows') /\ rows'[k].step = t.cur /\ rows'[k].st = s /\ s # "pending"
      BY <1>1, <2>2 DEF Settles, PutAt, TickOK
    <3>4. Begun(t.cur)'
      BY <3>3 DEF Begun
    <3> QED BY <1>1, <3>1, <3>2, <3>4, NextCurBegun
  <2> QED BY <2>1, <2>2 DEF Gone, Leaves, Raises
<1>3. ASSUME NEW i \in 1..Len(rows')
      PROVE  i \in 1..Len(rows) \/ (t.pc = "act" /\ rows'[i].step = t.cur)
  <2>1. CASE rows' = rows
    BY <2>1
  <2>2. ASSUME NEW k \in Nat, NEW s, NEW ids, PutAt(t, k, s, ids), t.pc = "act"
        PROVE  i \in 1..Len(rows) \/ (t.pc = "act" /\ rows'[i].step = t.cur)
    BY <2>2 DEF PutAt
  <2> QED BY <2>1, <2>2 DEF Gone, Leaves, Raises, Settles
<1>4. ASSUME NEW q \in Procs, tick'[q].pc = "act"
      PROVE  tick'[q].cur = cur \/ (tick[q].pc = "act" /\ tick'[q].cur = tick[q].cur)
  BY <1>1, <1>4 DEF Gone, EndTick, NoTick
<1> QED BY <1>1, <1>2, <1>3, <1>4, OrderStays

\* What is left when the only tick is over.
LEMMA GoneAlone ==
  ASSUME TypeOK, RowsOK, TicksOK, Alone, NEW p \in Procs, NEW t, t = tick[p], Gone(p, t)
  PROVE  Alone'
<1> SUFFICES ASSUME ~overlap'
             PROVE  /\ OneTick' /\ OneResult' /\ Recorded' /\ Distinct' /\ WaitOK'
                    /\ \A q \in Procs : CopyOK(tick[q])' /\ Fresher(tick[q])' /\ TickWaitOK(tick[q])'
  BY DEF Alone
<1>1. /\ TickOK(t) /\ rows \in Seq(RowType) /\ t \in TickType /\ tick \in [Procs -> TickType]
      /\ of' = of /\ ~overlap /\ rows' \in Seq(RowType)
  BY GoneType DEF TypeOK, TicksOK, RowType, Gone
<1>2. /\ OneTick /\ OneResult /\ Recorded /\ Distinct /\ WaitOK
      /\ CopyOK(t) /\ Fresher(t) /\ TickWaitOK(t)
  BY <1>1 DEF Alone
<1>3. CASE t.pc = "act"
  <2>1. ASSUME NEW q \in Procs
        PROVE  tick'[q].pc = "off" /\ tick'[q].fired = <<>>
    <3>1. CASE q = p
      BY <1>1, <3>1 DEF Gone, EndTick, NoTick
    <3>2. CASE q # p
      <4>1. tick'[q] = tick[q] /\ tick[q].pc \in {"off", "act"}
        BY <1>1, <3>2 DEF Gone, EndTick, TickType
      <4>2. tick[q].pc = "off"
        BY <1>2, <1>3, <3>2, <4>1 DEF OneTick
      <4>3. tick[q] = NoTick
        BY <4>2 DEF TicksOK, TickOK
      <4> QED BY <4>1, <4>2, <4>3 DEF NoTick
    <3> QED BY <3>1, <3>2
  <2>2. /\ OneTick'
        /\ \A q \in Procs : CopyOK(tick[q])' /\ Fresher(tick[q])' /\ TickWaitOK(tick[q])'
    BY <2>1 DEF OneTick, CopyOK, Fresher, TickWaitOK
  <2>3. ASSUME NEW c, InTick(c)
        PROVE  \E j \in 1..Len(t.fired) : t.fired[j] = c
    <3>1. PICK q \in Procs : \E j \in 1..Len(tick[q].fired) : tick[q].fired[j] = c
      BY <2>3 DEF InTick
    <3>2. CASE q = p
      BY <3>1, <3>2
    <3>3. CASE q # p
      <4>1. tick'[q] = tick[q]
        BY <1>1, <3>3 DEF Gone, EndTick
      <4> QED BY <2>1, <3>1, <4>1
    <3> QED BY <3>2, <3>3
  <2>4. CASE Leaves(t)
    <3>1. rows' = rows /\ dead' = dead \cup Died(t) /\ cur' = cur /\ est' \in {est, "completed"}
      BY <2>4 DEF Leaves
    <3>2. OneResult' /\ WaitOK'
      BY <1>2, <3>1 DEF OneResult, WaitOK, Wait
    <3>3. Distinct'
      BY <1>1, <1>2, <3>1 DEF Distinct, Fired
    <3>4. ASSUME NEW c \in Fired' \ dead'
          PROVE  InRow(c)'
      <4>1. c \in Fired \ dead /\ c \notin Died(t)
        BY <1>1, <3>1 DEF Fired
      <4>2. ~InTick(c)
        BY <2>3, <4>1 DEF Died
      <4>3. InRow(c)
        BY <1>2, <4>1, <4>2 DEF Recorded
      <4> QED BY <1>1, <3>1, <4>3 DEF InRow
    <3> QED BY <2>2, <3>2, <3>3, <3>4 DEF Recorded
  <2>5. ASSUME NEW k \in Nat, Raises(t, k)
        PROVE  OneResult' /\ Recorded' /\ Distinct' /\ WaitOK'
    <3>1. /\ PutAt(t, k, "pending", <<>>) /\ dead' = dead \cup Died(t) /\ cur' = cur /\ est' = est
          /\ t.st = "pending"
      BY <2>5 DEF Raises
    <3>2. t.crs = <<>>
      BY <1>1, <1>3, <3>1 DEF TickOK, ResultOK
    <3>3. ASSUME NEW i \in 1..Len(rows)
          PROVE  /\ i \in 1..Len(rows')
                 /\ rows'[i].step = rows[i].step /\ rows'[i].st = rows[i].st /\ rows'[i].crs = rows[i].crs
      BY <1>1, <1>3, <3>1, <3>2 DEF PutAt, TickOK
    <3>4. ASSUME NEW i \in 1..Len(rows'), i \notin 1..Len(rows)
          PROVE  i = k /\ t.row = 0 /\ rows'[i].step = t.cur /\ rows'[i].st = "pending"
      BY <1>1, <1>3, <3>1, <3>4 DEF PutAt, TickOK
    <3>5. OneResult'
      BY <1>2, <1>3, <3>3, <3>4 DEF OneResult, CopyOK
    <3>6. WaitOK'
      <4>1. \A i \in 1..Len(rows') : Wait(i)' => i \in 1..Len(rows) /\ Wait(i)
        BY <3>3, <3>4 DEF Wait
      <4>2. \A i \in 1..Len(rows) : Wait(i) => i \in 1..Len(rows') /\ Wait(i)'
        BY <3>3 DEF Wait
      <4> QED BY <1>2, <3>1, <3>3, <4>1, <4>2 DEF WaitOK
    <3>7. Distinct'
      BY <1>1, <1>2, <3>1 DEF Distinct, Fired
    <3>8. ASSUME NEW c \in Fired' \ dead'
          PROVE  InRow(c)'
      <4>1. c \in Fired \ dead /\ c \notin Died(t)
        BY <1>1, <3>1 DEF Fired
      <4>2. ~InTick(c)
        BY <2>3, <4>1 DEF Died
      <4>3. InRow(c)
        BY <1>2, <4>1, <4>2 DEF Recorded
      <4> QED BY <1>1, <3>3, <4>3 DEF InRow
    <3> QED BY <3>5, <3>6, <3>7, <3>8 DEF Recorded
  <2>6. ASSUME NEW k \in Nat, NEW s \in StepStatus, NEW ids \in Seq(CRs), Settles(t, k, s, ids)
        PROVE  OneResult' /\ Recorded' /\ Distinct' /\ WaitOK'
    <3>1. PutAt(t, k, s, ids) /\ dead' = dead /\ s # "pending" /\ s # t.st
      BY <2>6 DEF Settles
    <3>2. t.st = "pending" => t.crs = <<>>
      BY <1>1, <1>3, <3>1 DEF TickOK, ResultOK
    <3>3. ASSUME NEW i \in 1..Len(rows), i # k
          PROVE  i \in 1..Len(rows') /\ rows'[i] = rows[i]
      BY <1>1, <1>3, <3>1, <3>3 DEF PutAt, TickOK
    <3>4. ASSUME NEW i \in 1..Len(rows'), i # k
          PROVE  i \in 1..Len(rows) /\ rows'[i] = rows[i]
      BY <1>1, <1>3, <3>1, <3>4 DEF PutAt, TickOK
    <3>5. k \in 1..Len(rows') /\ rows'[k].step = t.cur /\ rows'[k].st = s
      BY <1>1, <1>3, <3>1 DEF PutAt, TickOK
    <3>6. \A i \in 1..Len(rows) : rows[i].step = t.cur => t.row # 0 /\ i = k
      <4>1. CASE t.row = 0
        BY <1>2, <1>3, <4>1 DEF CopyOK
      <4>2. CASE t.row # 0
        <5>1. k = t.row /\ k \in 1..Len(rows) /\ rows[k].step = t.cur
          BY <1>1, <1>3, <3>1, <4>2 DEF PutAt, TickOK
        <5> QED BY <1>2, <4>2, <5>1 DEF OneResult
      <4> QED BY <4>1, <4>2
    <3>7. OneResult'
      BY <1>2, <3>4, <3>5, <3>6 DEF OneResult
    <3>8. Distinct'
      BY <1>1, <1>2, <3>1 DEF Distinct, Fired
    <3>9. Recorded'
      <4> SUFFICES ASSUME NEW c \in Fired' \ dead'
                   PROVE  InRow(c)'
        BY DEF Recorded
      <4>1. c \in Fired \ dead
        BY <1>1, <3>1 DEF Fired
      <4>2. CASE InTick(c)
        <5>1. PICK j \in 1..Len(t.fired) : t.fired[j] = c
          BY <2>3, <4>2
        <5>2. t.fired # <<>> /\ of[c] = <<t.cur, j>>
          <6>1. of[t.fired[j]] = <<t.cur, j>>
            BY <1>1, <1>3 DEF TickOK
          <6>2. t.fired # <<>>
            OBVIOUS
          <6> QED BY <5>1, <6>1, <6>2
        <5>3. t.st = "pending" /\ ids = t.fired
          BY <1>1, <1>3, <2>6, <5>2 DEF Settles, TickOK
        <5>4. rows'[k].crs = t.fired
          BY <3>1, <3>2, <5>2, <5>3 DEF PutAt
        <5> QED BY <1>1, <3>1, <3>5, <5>1, <5>2, <5>4 DEF InRow
      <4>3. CASE InRow(c)
        <5>1. PICK i \in 1..Len(rows) :
                /\ rows[i].step = of[c][1] /\ rows[i].st # "pending"
                /\ \E j \in 1..Len(rows[i].crs) : rows[i].crs[j] = c
          BY <4>3 DEF InRow
        <5>2. CASE i # k
          BY <1>1, <3>3, <5>1, <5>2 DEF InRow
        <5>3. CASE i = k
          <6>1. t.row # 0 /\ k = t.row /\ rows[k].step = t.cur
            BY <1>1, <1>3, <3>1, <5>3 DEF PutAt, TickOK
          <6>2. rows[k].crs = t.crs /\ t.crs # <<>>
            BY <1>2, <1>3, <5>1, <5>3, <6>1 DEF CopyOK
          <6>3. ids = t.crs
            BY <2>6, <3>2, <6>2 DEF Settles
          <6>4. rows'[k].crs = rows[k].crs
            BY <3>1, <6>1, <6>3 DEF PutAt
          <6> QED BY <1>1, <3>1, <3>5, <5>1, <5>3, <6>1, <6>4 DEF InRow
        <5> QED BY <5>2, <5>3
      <4> QED BY <1>2, <4>1, <4>2, <4>3 DEF Recorded
    <3>10. WaitOK'
      <4>1. t.est \in {"running", "waiting_human"}
        BY <1>1, <1>3 DEF TickOK, Active
      <4>2. t.est = "running" => cur = t.cur /\ \A i \in 1..Len(rows) : ~Wait(i)
        BY <1>2, <1>3 DEF TickWaitOK
      <4>3. t.est = "waiting_human" =>
              t.st = "waiting_human" /\ t.row # 0 /\ k = t.row /\ \A i \in 1..Len(rows) : Wait(i) => i = k
        BY <1>1, <1>2, <1>3, <3>1 DEF TickWaitOK, TickOK, PutAt
      <4>4. \A i \in 1..Len(rows') : i # k => ~Wait(i)'
        BY <3>4, <4>1, <4>2, <4>3 DEF Wait
      <4>5. Wait(k)' <=> s = "waiting_human"
        BY <3>5 DEF Wait
      <4>6. CASE s = "waiting_human"
        <5>1. t.st = "pending" /\ cur' = cur /\ t.est = "running" /\ est' = "waiting_human"
          BY <2>6, <4>1, <4>3, <4>6 DEF Settles
        <5> QED BY <3>5, <4>2, <4>4, <4>5, <4>6, <5>1 DEF WaitOK
      <4>7. CASE s # "waiting_human"
        <5>1. \A i \in 1..Len(rows') : ~Wait(i)'
          BY <4>4, <4>5, <4>7
        <5>2. t.est = "running" => est # "waiting_human"
          BY <1>2, <4>2 DEF WaitOK
        <5>3. est' # "waiting_human"
          BY <2>6, <4>1, <4>3, <4>7, <5>2 DEF Settles
        <5> QED BY <5>1, <5>3 DEF WaitOK
      <4> QED BY <4>6, <4>7
    <3> QED BY <3>7, <3>8, <3>9, <3>10
  <2> QED BY <2>2, <2>4, <2>5, <2>6 DEF Gone
<1>4. CASE t.pc # "act"
  <2>1. t = NoTick
    BY <1>1, <1>4 DEF TickOK, TickType
  <2>2. tick' = tick
    BY <1>1, <2>1 DEF Gone, EndTick
  <2>3. Died(t) = {}
    BY <2>1 DEF Died, NoTick
  <2>4. rows' = rows /\ dead' = dead /\ cur' = cur /\ est' = est
    BY <1>4, <2>3 DEF Gone, Leaves
  <2>5. UNCHANGED <<rows, dead, cur, est, of, tick>>
    BY <1>1, <2>2, <2>4
  <2> QED BY <1>1, <2>5, SMTT(30) DEF Alone, OneTick, OneResult, Recorded, Distinct, WaitOK, CopyOK, Fresher,
                            TickWaitOK, InTick, InRow, Wait, Fired
<1> QED BY <1>3, <1>4
-----------------------------------------------------------------------------
(***************************************************************************)
(* A tick fires a CR.                                                      *)
(***************************************************************************)

\* The tick's copy after it has fired the CR c and put the k-th result.
Fires1(t, k, c) == [t EXCEPT !.row = k, !.fired = Append(t.fired, c)]

FireShape(p, t, k, c) ==
  /\ PutAt(t, k, "pending", <<>>) /\ k # 0
  /\ c = Len(of) + 1 /\ of' = Append(of, <<t.cur, Len(t.fired) + 1>>)
  /\ tick' = [tick EXCEPT ![p] = Fires1(t, k, c)]
  /\ t.pc = "act" /\ t.st = "pending" /\ t.crs = <<>> /\ t.est \in Active
  /\ t.cur \in 1..Len(book) /\ book[t.cur].type \in Fires
  /\ UNCHANGED <<book, est, cur, status, request, bounds, overlap, dead>>

LEMMA FireFacts ==
  ASSUME TypeOK, RowsOK, TicksOK, NEW p \in Procs, NEW t, t = tick[p], FireChild(p)
  PROVE  \E k \in Nat, c \in CRs : FireShape(p, t, k, c)
<1>1. AtStep(p, Fires, "pending")
  BY DEF FireChild
<1>2. /\ t \in TickType /\ t.pc = "act" /\ t.cur \in 1..Len(book) /\ t.est \in Active
      /\ book[t.cur].type \in Fires /\ t.st = "pending" /\ t.crs = <<>> /\ TickOK(t)
  BY <1>1, AtStepFacts DEF ResultOK, TicksOK
<1>3. PutRow(p, "pending", <<>>) /\ "pending" \in StepStatus /\ <<>> \in Seq(CRs)
  BY DEF FireChild, StepStatus
<1>4. PICK k \in Nat : PutAt(t, k, "pending", <<>>)
  BY <1>2, <1>3, PutRowPutsAt
<1>5. k # 0 /\ k = IF t.row = 0 THEN Len(rows) + 1 ELSE t.row
  BY <1>2, <1>4 DEF PutAt, TickOK, TypeOK
<1>6. PICK c \in CRs : c = Len(of) + 1
  BY DEF FireChild
<1>7. tick' = [tick EXCEPT ![p] = Fires1(t, k, c)]
  BY <1>5, <1>6 DEF FireChild, Fires1
<1> QED BY <1>2, <1>4, <1>5, <1>6, <1>7 DEF FireChild, FireShape, history

LEMMA FireInv ==
  ASSUME IInv, NEW p \in Procs, FireChild(p)
  PROVE  IInv'
<1>1. PICK t \in TickType : t = tick[p]
  BY DEF IInv, TypeOK
<1>2. TypeOK /\ RowsOK /\ TicksOK /\ Fresh /\ InOrder /\ Alone /\ TickOK(t)
  BY <1>1 DEF IInv, TicksOK
<1>0. PICK k \in Nat, c \in CRs : FireShape(p, t, k, c)
  BY <1>1, <1>2, FireFacts
<1>3. /\ PutAt(t, k, "pending", <<>>) /\ k # 0
      /\ c = Len(of) + 1 /\ of' = Append(of, <<t.cur, Len(t.fired) + 1>>)
      /\ tick' = [tick EXCEPT ![p] = Fires1(t, k, c)]
      /\ t.pc = "act" /\ t.st = "pending" /\ t.crs = <<>> /\ t.est \in Active
      /\ t.cur \in 1..Len(book) /\ book[t.cur].type \in Fires
      /\ UNCHANGED <<book, est, cur, status, request, bounds, overlap, dead>>
  BY <1>0 DEF FireShape
<1>4. PICK u \in TickType : u = Fires1(t, k, c)
  <2>1. Append(t.fired, c) \in Seq(CRs)
    BY <1>3 DEF TickType
  <2> QED BY <2>1 DEF Fires1, TickType
<1>5. /\ u.pc = "act" /\ u.est = t.est /\ u.cur = t.cur /\ u.row = k /\ u.st = "pending"
      /\ u.crs = <<>> /\ u.fired = Append(t.fired, c)
  BY <1>3, <1>4 DEF Fires1, TickType
<1>6. /\ tick \in [Procs -> TickType] /\ tick' = [tick EXCEPT ![p] = u] /\ tick'[p] = u
      /\ \A q \in Procs : q # p => tick'[q] = tick[q]
  BY <1>2, <1>3, <1>4 DEF TypeOK
<1>7. /\ of \in Seq(Nat \X Nat) /\ of' \in Seq(Nat \X Nat) /\ Len(of') = Len(of) + 1 /\ FiredGrows
      /\ Len(of') <= MaxCRs /\ of'[c] = <<t.cur, Len(t.fired) + 1>>
      /\ Fired' = Fired \cup {c} /\ c \notin Fired
  <2>1. of \in Seq(Nat \X Nat) /\ <<t.cur, Len(t.fired) + 1>> \in Nat \X Nat
    <3>1. t.fired \in Seq(CRs) /\ t.cur \in Nat
      BY DEF TickType
    <3>2. Len(t.fired) + 1 \in Nat
      BY <3>1
    <3> QED BY <1>2, <3>1, <3>2 DEF TypeOK
  <2>2. /\ of' \in Seq(Nat \X Nat) /\ Len(of') = Len(of) + 1
        /\ of'[Len(of) + 1] = <<t.cur, Len(t.fired) + 1>> /\ \A i \in 1..Len(of) : of'[i] = of[i]
    BY <1>3, <2>1
  <2>3. Fired' = Fired \cup {c} /\ c \notin Fired /\ FiredGrows
    BY <1>3, <2>1, <2>2 DEF Fired, FiredGrows
  <2>4. Len(of') <= MaxCRs
    BY <1>3, <2>2, RunbookAssumption DEF CRs
  <2> QED BY <1>3, <2>1, <2>2, <2>3, <2>4
<1>8. Grow /\ rows \in Seq(RowType) /\ rows' \in Seq(RowType)
  <2>1. Grow
    BY <1>1, <1>2, <1>3, PutAtGrows
  <2> QED BY <1>2, <2>1 DEF Grow, TypeOK, RowType
<1>9. ASSUME NEW i \in 1..Len(rows)
      PROVE  /\ i \in 1..Len(rows')
             /\ rows'[i].step = rows[i].step /\ rows'[i].st = rows[i].st /\ rows'[i].crs = rows[i].crs
  BY <1>2, <1>3, <1>8, SMTT(30) DEF PutAt, TickOK
<1>10. ASSUME NEW i \in 1..Len(rows'), i \notin 1..Len(rows)
       PROVE  /\ i = k /\ t.row = 0 /\ rows'[i].step = t.cur /\ rows'[i].st = "pending"
              /\ rows'[i].crs = <<>>
  BY <1>2, <1>3, <1>8, <1>10 DEF PutAt, TickOK
<1>11. k \in 1..Len(rows') /\ rows'[k].step = t.cur /\ (t.row # 0 => k = t.row /\ k \in 1..Len(rows))
  BY <1>2, <1>3, <1>8 DEF PutAt, TickOK
<1>12. TypeOK'
  BY <1>2, <1>3, <1>6, <1>7, <1>8 DEF TypeOK, RowType, bounds
<1>13. Fresh'
  BY <1>1, <1>2, <1>3 DEF Fresh
<1>14. RowsOK'
  <2> SUFFICES ASSUME NEW i \in 1..Len(rows')
               PROVE  ResultOK(rows[i].step, rows[i].st, rows[i].crs)'
    BY DEF RowsOK
  <2>1. CASE i \in 1..Len(rows)
    <3>1. ResultOK(rows[i].step, rows[i].st, rows[i].crs)
      BY <1>2, <2>1 DEF RowsOK
    <3> QED BY <1>3, <1>9, <2>1, <3>1 DEF ResultOK
  <2>2. CASE i \notin 1..Len(rows)
    BY <1>3, <1>10, <2>2 DEF ResultOK
  <2> QED BY <2>1, <2>2
<1>15. TicksOK'
  <2>1. ASSUME NEW q \in Procs, q # p
        PROVE  TickOK(tick[q])'
    <3>1. PICK v \in TickType : v = tick[q]
      BY <1>6
    <3>2. TickOK(v)'
      BY <1>2, <1>3, <1>7, <1>8, <3>1, TickStays DEF TicksOK
    <3> QED BY <1>6, <2>1, <3>1, <3>2
  <2>2. TickOK(u)'
    <3>1. ResultOK(u.cur, u.st, u.crs)'
      BY <1>3, <1>5 DEF ResultOK
    <3>2. ASSUME NEW j \in 1..Len(u.fired)
          PROVE  u.fired[j] \in Fired' /\ of'[u.fired[j]] = <<u.cur, j>>
      <4>1. t.fired \in Seq(CRs)
        BY DEF TickType
      <4>2. CASE j = Len(t.fired) + 1
        <5>1. u.fired[j] = c
          BY <1>5, <4>1, <4>2
        <5> QED BY <1>5, <1>7, <4>2, <5>1
      <4>3. CASE j # Len(t.fired) + 1
        <5>1. j \in 1..Len(t.fired) /\ u.fired[j] = t.fired[j]
          BY <1>5, <4>1, <4>3
        <5>2. t.fired[j] \in Fired /\ of[t.fired[j]] = <<t.cur, j>>
          BY <1>2, <1>3, <5>1 DEF TickOK
        <5> QED BY <1>5, <1>7, <5>1, <5>2 DEF FiredGrows
      <4> QED BY <4>2, <4>3
    <3>3. u.est \in Active /\ u.row \in 0..Len(rows') /\ u.row # 0 /\ rows'[u.row].step = u.cur
      BY <1>3, <1>5, <1>11
    <3> QED BY <1>3, <1>5, <3>1, <3>2, <3>3 DEF TickOK
  <2> QED BY <1>6, <2>1, <2>2 DEF TicksOK
<1>16. InOrder'
  <2>1. NoCondition => BegunTo(cur)'
    BY <1>2, <1>3, <1>8, SameCurBegun
  <2>2. \A i \in 1..Len(rows') :
          i \in 1..Len(rows) \/ \E q \in Procs : tick[q].pc = "act" /\ rows'[i].step = tick[q].cur
    BY <1>1, <1>3, <1>10
  <2>3. \A q \in Procs : tick'[q].pc = "act" =>
          tick'[q].cur = cur \/ (tick[q].pc = "act" /\ tick'[q].cur = tick[q].cur)
    BY <1>1, <1>3, <1>5, <1>6
  <2> QED BY <1>2, <1>3, <1>8, <1>12, <2>1, <2>2, <2>3, OrderStays
<1>17. Alone'
  <2> SUFFICES ASSUME ~overlap'
               PROVE  /\ OneTick' /\ OneResult' /\ Recorded' /\ Distinct' /\ WaitOK'
                      /\ \A q \in Procs : CopyOK(tick[q])' /\ Fresher(tick[q])' /\ TickWaitOK(tick[q])'
    BY DEF Alone
  <2>1. /\ OneTick /\ OneResult /\ Recorded /\ Distinct /\ WaitOK
        /\ CopyOK(t) /\ Fresher(t) /\ TickWaitOK(t)
    BY <1>1, <1>2, <1>3 DEF Alone
  <2>2. ASSUME NEW q \in Procs, q # p
        PROVE  tick'[q] = tick[q] /\ tick[q].pc = "off" /\ tick[q].fired = <<>>
    <3>1. tick[q].pc \in {"off", "act"}
      BY <1>6 DEF TickType
    <3>2. tick[q].pc = "off"
      BY <1>1, <1>3, <2>1, <2>2, <3>1 DEF OneTick
    <3> QED BY <1>2, <1>6, <2>2, <3>2 DEF TicksOK, TickOK, NoTick
  <2>3. OneTick'
    BY <2>2 DEF OneTick
  <2>4. OneResult'
    BY <1>3, <1>9, <1>10, <2>1 DEF OneResult, CopyOK
  <2>5. \A i \in 1..Len(rows') : Wait(i)' => i \in 1..Len(rows) /\ Wait(i)
    BY <1>9, <1>10 DEF Wait
  <2>6. \A i \in 1..Len(rows) : Wait(i) => i \in 1..Len(rows') /\ Wait(i)'
    BY <1>9 DEF Wait
  <2>7. WaitOK'
    BY <1>3, <1>9, <2>1, <2>5, <2>6 DEF WaitOK
  <2>8. TickWaitOK(u)'
    BY <1>3, <1>5, <2>1, <2>5 DEF TickWaitOK
  <2>9. CopyOK(u)'
    <3>1. rows'[k].crs = <<>>
      <4>1. CASE t.row = 0
        BY <1>3, <4>1 DEF PutAt
      <4>2. CASE t.row # 0
        BY <1>3, <1>9, <1>11, <2>1, <4>2 DEF CopyOK
      <4> QED BY <4>1, <4>2
    <3> QED BY <1>3, <1>5, <3>1 DEF CopyOK
  <2>10. t.fired \in Seq(CRs) /\ u.fired[Len(t.fired) + 1] = c /\ Len(u.fired) = Len(t.fired) + 1
         /\ \A j \in 1..Len(t.fired) : u.fired[j] = t.fired[j]
    BY <1>5 DEF TickType
  <2>11. Fresher(u)'
    <3> SUFFICES ASSUME NEW d \in Fired' \ dead', of'[d][1] = u.cur
                 PROVE  \E j \in 1..Len(u.fired) : u.fired[j] = d
      BY DEF Fresher
    <3>1. CASE d = c
      BY <2>10, <3>1
    <3>2. CASE d # c
      <4>1. d \in Fired \ dead /\ of[d][1] = t.cur
        BY <1>3, <1>5, <1>7, <3>2 DEF FiredGrows
      <4>2. PICK j \in 1..Len(t.fired) : t.fired[j] = d
        BY <1>3, <2>1, <4>1 DEF Fresher
      <4> QED BY <2>10, <4>2
    <3> QED BY <3>1, <3>2
  <2>12. ASSUME NEW d \in Fired \ dead
         PROVE  of'[d] = of[d] /\ of[d] # of'[c]
    <3>1. of'[d] = of[d]
      BY <1>7 DEF FiredGrows
    <3>2. ASSUME of[d] = of'[c]
          PROVE  FALSE
      <4>1. of[d] = <<t.cur, Len(t.fired) + 1>>
        BY <1>7, <3>2
      <4>2. of[d][1] = t.cur
        BY <4>1
      <4>3. PICK j \in 1..Len(t.fired) : t.fired[j] = d
        BY <1>3, <2>1, <4>2 DEF Fresher
      <4>4. of[d] = <<t.cur, j>>
        BY <1>2, <1>3, <4>3 DEF TickOK
      <4>5. j = Len(t.fired) + 1
        BY <4>1, <4>4
      <4> QED BY <2>10, <4>5
    <3> QED BY <3>1, <3>2
  <2>13. Distinct'
    <3> SUFFICES ASSUME NEW d \in Fired' \ dead', NEW e \in Fired' \ dead', of'[d] = of'[e]
                 PROVE  d = e
      BY DEF Distinct
    <3>1. d \in (Fired \ dead) \cup {c} /\ e \in (Fired \ dead) \cup {c}
      BY <1>3, <1>7
    <3>2. CASE d = c \/ e = c
      BY <2>12, <3>1, <3>2
    <3>3. CASE d # c /\ e # c
      BY <2>1, <2>12, <3>1, <3>3 DEF Distinct
    <3> QED BY <3>2, <3>3
  <2>14. Recorded'
    <3> SUFFICES ASSUME NEW d \in Fired' \ dead'
                 PROVE  InTick(d)' \/ InRow(d)'
      BY DEF Recorded
    <3>1. CASE d = c
      BY <1>6, <2>10, <3>1 DEF InTick
    <3>2. CASE d # c
      <4>1. d \in Fired \ dead
        BY <1>3, <1>7, <3>2
      <4>2. CASE InTick(d)
        <5>1. PICK q \in Procs : \E j \in 1..Len(tick[q].fired) : tick[q].fired[j] = d
          BY <4>2 DEF InTick
        <5>2. q = p
          BY <2>2, <5>1
        <5>3. \E j \in 1..Len(u.fired) : u.fired[j] = d
          BY <1>1, <2>10, <5>1, <5>2
        <5> QED BY <1>6, <5>3 DEF InTick
      <4>3. CASE InRow(d)
        BY <1>9, <2>12, <4>1, <4>3 DEF InRow
      <4> QED BY <2>1, <4>1, <4>2, <4>3 DEF Recorded
    <3> QED BY <3>1, <3>2
  <2>15. ASSUME NEW q \in Procs
         PROVE  CopyOK(tick[q])' /\ Fresher(tick[q])' /\ TickWaitOK(tick[q])'
    <3>1. CASE q = p
      BY <1>6, <2>8, <2>9, <2>11, <3>1
    <3>2. CASE q # p
      BY <2>2, <3>2 DEF CopyOK, Fresher, TickWaitOK
    <3> QED BY <3>1, <3>2
  <2> QED BY <2>3, <2>4, <2>7, <2>13, <2>14, <2>15
<1> QED BY <1>12, <1>13, <1>14, <1>15, <1>16, <1>17 DEF IInv
-----------------------------------------------------------------------------
(***************************************************************************)
(* The other steps.                                                        *)
(***************************************************************************)
LEMMA EndsInv ==
  ASSUME IInv, NEW p \in Procs, TickWork(p), ~FireChild(p)
  PROVE  IInv'
<1>1. PICK t \in TickType : t = tick[p]
  BY DEF IInv, TypeOK
<1>2. TypeOK /\ RowsOK /\ TicksOK /\ Fresh /\ InOrder /\ Alone
  BY DEF IInv
<1>3. t.pc = "act" /\ Ends(p, t)
  BY <1>1, <1>2, EndCases
<1>4. Gone(p, t) /\ UNCHANGED <<book, crs, request, bounds, overlap>>
  BY <1>3 DEF Ends, Still, Gone, crs
<1>5. TypeOK'
  <2>1. cur' \in Nat /\ est' \in ExecutionStatus /\ dead' \subseteq CRs
    BY <1>1, <1>2, <1>4, GoneCur
  <2>2. tick' \in [Procs -> TickType] /\ rows' \in Seq(RowType)
    BY <1>1, <1>2, <1>4, GoneType
  <2> QED BY <1>2, <1>4, <2>1, <2>2 DEF TypeOK, RowType, crs, bounds
<1>6. Fresh'
  <2>1. est # "none"
    BY <1>1, <1>2, <1>3 DEF Fresh
  <2>2. est' # "none"
    BY <1>3, <2>1 DEF Ends, Leaves, Raises, Settles
  <2> QED BY <2>2 DEF Fresh
<1>7. RowsOK' /\ TicksOK' /\ InOrder' /\ Alone'
  BY <1>1, <1>2, <1>4, <1>5, GoneRows, GoneTicks, GoneOrder, GoneAlone
<1> QED BY <1>5, <1>6, <1>7 DEF IInv

LEMMA CrashInv ==
  ASSUME IInv, NEW p \in Procs, Crash(p)
  PROVE  IInv'
<1>1. PICK t \in TickType : t = tick[p]
  BY DEF IInv, TypeOK
<1>2. TypeOK /\ RowsOK /\ TicksOK /\ Fresh /\ InOrder /\ Alone
  BY DEF IInv
<1>3. Gone(p, t) /\ est' = est /\ cur' = cur /\ rows' = rows
  BY <1>1 DEF Crash, Gone, Leaves, Died, EndTick, rowsv, crs
<1>4. TypeOK'
  <2>1. cur' \in Nat /\ est' \in ExecutionStatus /\ dead' \subseteq CRs
    BY <1>1, <1>2, <1>3, GoneCur
  <2>2. tick' \in [Procs -> TickType] /\ rows' \in Seq(RowType)
    BY <1>1, <1>2, <1>3, GoneType
  <2>3. request' \in [pc : {"off", "resume", "abortstep", "abort"}, cur : Nat, est : ExecutionStatus]
    BY <1>2 DEF Crash, TypeOK, NoRequest, ExecutionStatus
  <2>4. /\ up' \in [Procs -> BOOLEAN] /\ crashes' \in 0..MaxCrashes
        /\ UNCHANGED <<book, status, of, requests, rework, overlap>>
    BY <1>2, RunbookAssumption DEF Crash, TypeOK, rowsv, crs
  <2> QED BY <1>2, <2>1, <2>2, <2>3, <2>4 DEF TypeOK, RowType
<1>5. Fresh'
  <2> SUFFICES ASSUME est = "none"
               PROVE  /\ cur' = 0 /\ rows' = <<>> /\ of' = <<>> /\ request'.pc = "off"
                      /\ \A q \in Procs : tick'[q].pc = "off"
    BY <1>3 DEF Fresh
  <2>1. tick \in [Procs -> TickType]
    BY <1>2 DEF TypeOK
  <2> QED BY <1>2, <1>3, <2>1 DEF Fresh, Gone, EndTick, Crash, NoRequest, NoTick
<1>6. RowsOK' /\ TicksOK' /\ InOrder' /\ Alone'
  BY <1>1, <1>2, <1>3, <1>4, GoneRows, GoneTicks, GoneOrder, GoneAlone
<1> QED BY <1>4, <1>5, <1>6 DEF IInv

\* The rest of the invariant depends on these variables only.
LEMMA QuietInv ==
  ASSUME IInv, TypeOK', UNCHANGED <<rowsv, of, tick, overlap, dead>>,
         est = "none" => request'.pc = "off"
  PROVE  IInv'
<1>1. Fresh'
  BY DEF IInv, Fresh, rowsv
<1>2. RowsOK'
  BY DEF IInv, RowsOK, ResultOK, rowsv
<1>3. TicksOK'
  BY DEF IInv, TicksOK, TickOK, ResultOK, Fired, rowsv
<1>4. InOrder'
  BY DEF IInv, InOrder, BegunTo, Begun, NoCondition, rowsv
<1>5. Alone'
  BY SMTT(30) DEF IInv, Alone, OneTick, OneResult, Recorded, Distinct, WaitOK, CopyOK, Fresher,
         TickWaitOK, InTick, InRow, Wait, Fired, rowsv
<1> QED BY <1>1, <1>2, <1>3, <1>4, <1>5 DEF IInv

LEMMA RequestInv ==
  ASSUME IInv, NEW loc \in {"resume", "abortstep", "abort"},
         NEW from, from \subseteq Active, Request(loc, from)
  PROVE  IInv'
<1>1. TypeOK
  BY DEF IInv
<1>2. UNCHANGED <<rowsv, of, tick, overlap, dead>> /\ est # "none"
  BY DEF Request, crs, history, Active
<1>3. request' \in [pc : {"off", "resume", "abortstep", "abort"}, cur : Nat, est : ExecutionStatus]
  BY <1>1 DEF Request, TypeOK
<1>4. requests' \in 0..MaxRequests
  BY <1>1, RunbookAssumption DEF Request, TypeOK
<1>5. TypeOK'
  BY <1>1, <1>2, <1>3, <1>4 DEF Request, TypeOK, rowsv, crs, history
<1> QED BY <1>2, <1>5, QuietInv

LEMMA CRInv ==
  ASSUME IInv, NEW c \in CRs, CRStep(c)
  PROVE  IInv'
<1>1. TypeOK
  BY DEF IInv
<1>2. PICK s : CRBecomes(c, s)
  BY DEF CRStep
<1>3. /\ UNCHANGED <<rowsv, of, tick, request, up, crashes, requests, overlap, dead>>
      /\ status' \in [CRs -> Life!Status]
  BY <1>1, <1>2 DEF CRBecomes, TypeOK, Life!MayBecome, history
<1>4. rework' \in 0..MaxRework
  BY <1>1, <1>2, RunbookAssumption DEF CRBecomes, TypeOK
<1>5. TypeOK'
  BY <1>1, <1>3, <1>4 DEF TypeOK, rowsv
<1> QED BY <1>3, <1>5, QuietInv DEF IInv, Fresh

LEMMA RestartInv ==
  ASSUME IInv, NEW p \in Procs, Restart(p)
  PROVE  IInv'
<1>1. TypeOK
  BY DEF IInv
<1>2. UNCHANGED <<rowsv, of, tick, request, overlap, dead, status, crashes, requests, rework>>
      /\ up' \in [Procs -> BOOLEAN]
  BY <1>1 DEF Restart, TypeOK, crs, history
<1>3. TypeOK'
  BY <1>1, <1>2 DEF TypeOK, rowsv
<1> QED BY <1>2, <1>3, QuietInv DEF IInv, Fresh

LEMMA StutterInv ==
  ASSUME IInv, UNCHANGED vars
  PROVE  IInv'
<1>1. TypeOK'
  BY DEF IInv, TypeOK, vars, rowsv, crs, bounds, history
<1> QED BY <1>1, QuietInv DEF IInv, Fresh, vars, crs, history

LEMMA InitInv == Init => IInv
<1> SUFFICES ASSUME Init PROVE IInv
  OBVIOUS
<1>1. TypeOK
  <2>1. NoTick \in TickType
    BY DEF NoTick, TickType, ExecutionStatus, StepStatus, Active
  <2>2. status \in [CRs -> Life!Status]
    BY DEF Init, Life!Init, Life!Status
  <2>3. request \in [pc : {"off", "resume", "abortstep", "abort"}, cur : Nat, est : ExecutionStatus]
    BY DEF Init, NoRequest, ExecutionStatus
  <2>4. /\ rows \in Seq([step : Nat, st : StepStatus, crs : Seq(CRs)])
        /\ of \in Seq(Nat \X Nat) /\ Len(of) <= MaxCRs
    BY RunbookAssumption DEF Init
  <2>5. tick \in [Procs -> TickType]
    BY <2>1 DEF Init
  <2>6. book \in Runbooks \cup {<<>>} /\ est \in ExecutionStatus /\ cur \in Nat
    BY DEF Init, ExecutionStatus
  <2>7. /\ up \in [Procs -> BOOLEAN] /\ overlap \in BOOLEAN /\ dead \subseteq CRs
        /\ crashes \in 0..MaxCrashes /\ requests \in 0..MaxRequests /\ rework \in 0..MaxRework
    <3>1. overlap = FALSE /\ overlap \in BOOLEAN
      BY Zenon DEF Init
    <3>2. /\ crashes \in 0..MaxCrashes /\ requests \in 0..MaxRequests /\ rework \in 0..MaxRework
          /\ dead \subseteq CRs
      BY RunbookAssumption DEF Init
    <3>3. up \in [Procs -> BOOLEAN]
      BY DEF Init
    <3> QED BY <3>1, <3>2, <3>3
  <2> QED BY <2>2, <2>3, <2>4, <2>5, <2>6, <2>7 DEF TypeOK
<1>2. rows = <<>> /\ of = <<>> /\ cur = 0 /\ Len(rows) = 0 /\ Fired = {}
      /\ \A p \in Procs : tick[p] = NoTick
  BY DEF Init, Fired
<1>3. Fresh
  BY <1>2 DEF Init, Fresh, NoRequest, NoTick
<1>4. RowsOK /\ TicksOK
  BY <1>2 DEF RowsOK, TicksOK, TickOK, NoTick
<1>5. InOrder
  BY <1>2 DEF InOrder, BegunTo, NoTick
<1>6. OneTick /\ OneResult /\ Recorded /\ Distinct /\ WaitOK
  BY <1>2 DEF OneTick, OneResult, Recorded, Distinct, WaitOK, NoTick, Init
<1>7. \A p \in Procs : CopyOK(tick[p]) /\ Fresher(tick[p]) /\ TickWaitOK(tick[p])
  BY <1>2 DEF CopyOK, Fresher, TickWaitOK, NoTick
<1> QED BY <1>1, <1>3, <1>4, <1>5, <1>6, <1>7 DEF IInv, Alone

LEMMA TriggerInv ==
  ASSUME IInv, Trigger
  PROVE  IInv'
<1>1. TypeOK /\ Fresh /\ rows = <<>> /\ of = <<>> /\ \A p \in Procs : tick[p].pc = "off"
  BY DEF IInv, Trigger, Fresh
<1>2. /\ book' \in Runbooks /\ est' = "running" /\ cur' = 1
      /\ UNCHANGED <<rows, status, of, tick, request, up, crashes, requests, rework, overlap, dead>>
  BY DEF Trigger, crs, bounds, history
<1>3. TypeOK'
  BY <1>1, <1>2 DEF TypeOK, ExecutionStatus, Active
<1>4. Fresh'
  BY <1>2 DEF Fresh
<1>5. Len(rows') = 0 /\ Fired' = {} /\ \A p \in Procs : tick'[p] = NoTick
  BY <1>1, <1>2 DEF IInv, TicksOK, TickOK, Fired
<1>6. RowsOK' /\ TicksOK'
  BY <1>5 DEF RowsOK, TicksOK, TickOK, NoTick
<1>7. InOrder'
  BY <1>2, <1>5 DEF InOrder, BegunTo, NoTick
<1>8. OneTick' /\ OneResult' /\ Recorded' /\ Distinct' /\ WaitOK'
  BY <1>2, <1>5 DEF OneTick, OneResult, Recorded, Distinct, WaitOK, NoTick
<1>9. \A p \in Procs : CopyOK(tick[p])' /\ Fresher(tick[p])' /\ TickWaitOK(tick[p])'
  BY <1>5 DEF CopyOK, Fresher, TickWaitOK, NoTick
<1> QED BY <1>3, <1>4, <1>6, <1>7, <1>8, <1>9 DEF IInv, Alone

\* A tick begins: it takes the result of the current step, or there is none.
BeginsWith(u, i) ==
  /\ u.pc = "act" /\ u.est = est /\ u.cur = cur /\ u.fired = <<>> /\ u.row = i
  /\ \/ i = 0 /\ u.st = "pending" /\ u.crs = <<>> /\ \A j \in 1..Len(rows) : rows[j].step # cur
     \/ i \in 1..Len(rows) /\ rows[i].step = cur /\ u.st = rows[i].st /\ u.crs = rows[i].crs

LEMMA BeginFacts ==
  ASSUME TypeOK, NEW p \in Procs, TickBegin(p)
  PROVE  \E u \in TickType, i \in Nat :
           tick' = [tick EXCEPT ![p] = u] /\ BeginsWith(u, i)
<1> DEFINE mine == {i \in 1..Len(rows) : rows[i].step = cur}
           rec  == [NoTick EXCEPT !.pc = "act", !.est = est, !.cur = cur]
           got(i) == [rec EXCEPT !.row = i, !.st = rows[i].st, !.crs = rows[i].crs]
<1>1. rows \in Seq(RowType) /\ est \in ExecutionStatus /\ cur \in Nat
  BY DEF TypeOK, RowType
<1>2. /\ rec \in TickType /\ rec.pc = "act" /\ rec.est = est /\ rec.cur = cur /\ rec.fired = <<>>
      /\ rec.row = 0 /\ rec.st = "pending" /\ rec.crs = <<>>
  <2>1. <<>> \in Seq(CRs) /\ "pending" \in StepStatus /\ 0 \in Nat
    BY DEF StepStatus
  <2> QED BY <1>1, <2>1 DEF NoTick, TickType
<1>3. \/ mine = {} /\ tick' = [tick EXCEPT ![p] = rec]
      \/ \E i \in mine : tick' = [tick EXCEPT ![p] = got(i)]
  BY DEF TickBegin
<1>4. CASE mine = {} /\ tick' = [tick EXCEPT ![p] = rec]
  <2>1. BeginsWith(rec, 0)
    BY <1>2, <1>4 DEF BeginsWith
  <2> HIDE DEF rec
  <2>2. rec \in TickType /\ 0 \in Nat
    BY <1>2
  <2> QED BY <1>4, <2>1, <2>2
<1>5. ASSUME NEW i \in mine, tick' = [tick EXCEPT ![p] = got(i)]
      PROVE  \E u \in TickType, j \in Nat : tick' = [tick EXCEPT ![p] = u] /\ BeginsWith(u, j)
  <2>1. i \in 1..Len(rows) /\ rows[i].step = cur /\ rows[i] \in RowType /\ i \in Nat
    BY <1>1, <1>5
  <2>2. rows[i].st \in StepStatus /\ rows[i].crs \in Seq(CRs)
    BY <2>1 DEF RowType
  <2> HIDE DEF rec
  <2>3. /\ got(i) \in TickType /\ got(i).pc = "act" /\ got(i).est = est /\ got(i).cur = cur
        /\ got(i).fired = <<>> /\ got(i).row = i /\ got(i).st = rows[i].st /\ got(i).crs = rows[i].crs
    BY <1>2, <2>1, <2>2 DEF TickType
  <2> HIDE DEF got
  <2>4. BeginsWith(got(i), i)
    BY <2>1, <2>3 DEF BeginsWith
  <2> QED BY <1>5, <2>1, <2>3, <2>4
<1> QED BY <1>3, <1>4, <1>5

LEMMA BeginInv ==
  ASSUME IInv, NEW p \in Procs, TickBegin(p)
  PROVE  IInv'
<1>1. TypeOK /\ RowsOK /\ TicksOK /\ Fresh /\ InOrder /\ Alone
  BY DEF IInv
<1>2. /\ est \in Active /\ overlap' = (overlap \/ \E q \in Procs \ {p} : tick[q].pc # "off")
      /\ UNCHANGED <<rows, book, est, cur, of, status, request, up, crashes, requests, rework, dead>>
  BY DEF TickBegin, rowsv, crs, bounds
<1>3. PICK u \in TickType, i \in Nat : tick' = [tick EXCEPT ![p] = u] /\ BeginsWith(u, i)
  BY <1>1, BeginFacts
<1>4. /\ tick \in [Procs -> TickType] /\ tick'[p] = u /\ rows \in Seq(RowType)
      /\ \A q \in Procs : q # p => tick'[q] = tick[q]
  BY <1>1, <1>3 DEF TypeOK, RowType
<1>5. TypeOK'
  <2>1. tick' \in [Procs -> TickType] /\ overlap' \in BOOLEAN
    BY <1>1, <1>2, <1>3, <1>4 DEF TypeOK
  <2> QED BY <1>1, <1>2, <2>1 DEF TypeOK
<1>6. Fresh' /\ RowsOK'
  BY <1>1, <1>2 DEF Fresh, RowsOK, ResultOK, Active
<1>7. Grow /\ of' \in Seq(Nat \X Nat) /\ FiredGrows
  BY <1>1, <1>2, SameGrows DEF TypeOK, FiredGrows
<1>8. TicksOK'
  <2>1. ASSUME NEW q \in Procs, q # p
        PROVE  TickOK(tick[q])'
    <3>1. PICK v \in TickType : v = tick[q]
      BY <1>4
    <3>2. TickOK(v)'
      BY <1>1, <1>2, <1>7, <3>1, TickStays DEF TicksOK
    <3> QED BY <1>4, <2>1, <3>1, <3>2
  <2>2. TickOK(u)'
    <3>1. u.row # 0 => rows'[u.row].step = u.cur /\ ResultOK(u.cur, u.st, u.crs)'
      BY <1>1, <1>2, <1>3 DEF BeginsWith, RowsOK, ResultOK
    <3>2. u.row \in 0..Len(rows') /\ (u.row = 0 => u.st = "pending" /\ u.crs = <<>>)
      BY <1>2, <1>3, <1>4 DEF BeginsWith
    <3> QED BY <1>2, <1>3, <3>1, <3>2 DEF TickOK, BeginsWith
  <2> QED BY <1>4, <2>1, <2>2 DEF TicksOK
<1>9. InOrder'
  <2>1. NoCondition => BegunTo(cur)'
    BY <1>1, <1>2, <1>7, SameCurBegun
  <2>2. \A q \in Procs : tick'[q].pc = "act" =>
          tick'[q].cur = cur \/ (tick[q].pc = "act" /\ tick'[q].cur = tick[q].cur)
    BY <1>3, <1>4 DEF BeginsWith
  <2> QED BY <1>1, <1>2, <1>5, <1>7, <2>1, <2>2, OrderStays
<1>10. Alone'
  <2> SUFFICES ASSUME ~overlap'
               PROVE  /\ OneTick' /\ OneResult' /\ Recorded' /\ Distinct' /\ WaitOK'
                      /\ \A q \in Procs : CopyOK(tick[q])' /\ Fresher(tick[q])' /\ TickWaitOK(tick[q])'
    BY DEF Alone
  <2>1. OneTick /\ OneResult /\ Recorded /\ Distinct /\ WaitOK
    BY <1>1, <1>2 DEF Alone
  <2>2. ASSUME NEW q \in Procs, q # p
        PROVE  tick'[q] = tick[q] /\ tick[q].pc = "off" /\ tick[q].fired = <<>>
    <3>1. tick[q].pc = "off"
      BY <1>2, <2>2
    <3> QED BY <1>1, <1>4, <2>2, <3>1 DEF TicksOK, TickOK, NoTick
  <2>3. tick[p].fired = <<>>
    <3>1. tick[p].pc = "off" /\ TickOK(tick[p])
      BY <1>1 DEF TickBegin, TicksOK
    <3>2. tick[p] = NoTick
      BY <3>1 DEF TickOK
    <3> QED BY <3>2 DEF NoTick
  <2>4. \A c : ~InTick(c)
    BY <2>2, <2>3 DEF InTick
  <2>5. OneTick' /\ OneResult' /\ Distinct' /\ WaitOK'
    BY <1>2, <2>1, <2>2 DEF OneTick, OneResult, Distinct, WaitOK, Wait, Fired
  <2>6. Recorded'
    BY <1>2, <2>1, <2>4 DEF Recorded, InRow, Fired
  <2>7. CopyOK(u)'
    BY <1>2, <1>3 DEF CopyOK, BeginsWith
  <2>8. Fresher(u)'
    <3> SUFFICES ASSUME NEW c \in Fired' \ dead', of'[c][1] = u.cur, u.st = "pending"
                 PROVE  FALSE
      BY DEF Fresher
    <3>1. c \in Fired \ dead /\ of[c][1] = cur
      BY <1>2, <1>3 DEF Fired, BeginsWith
    <3>2. InRow(c)
      BY <2>1, <2>4, <3>1 DEF Recorded
    <3>3. PICK j \in 1..Len(rows) : rows[j].step = cur /\ rows[j].st # "pending"
      BY <3>1, <3>2 DEF InRow
    <3> QED BY <1>3, <2>1, <3>3 DEF BeginsWith, OneResult
  <2>9. TickWaitOK(u)'
    <3>1. \A j \in 1..Len(rows) : Wait(j)' <=> Wait(j)
      BY <1>2 DEF Wait
    <3>2. CASE u.est = "running"
      BY <1>2, <1>3, <2>1, <3>1, <3>2 DEF TickWaitOK, WaitOK, BeginsWith
    <3>3. CASE u.est = "waiting_human"
      <4>1. PICK j \in 1..Len(rows) : Wait(j) /\ rows[j].step = cur
        BY <1>3, <2>1, <3>3 DEF WaitOK, BeginsWith
      <4>2. i = j /\ u.st = "waiting_human" /\ u.row = j
        BY <1>3, <2>1, <4>1 DEF BeginsWith, OneResult, Wait
      <4> QED BY <1>2, <2>1, <3>1, <3>3, <4>1, <4>2 DEF TickWaitOK, WaitOK
    <3> QED BY <1>2, <1>3, <3>2, <3>3 DEF Active, BeginsWith
  <2>10. ASSUME NEW q \in Procs
         PROVE  CopyOK(tick[q])' /\ Fresher(tick[q])' /\ TickWaitOK(tick[q])'
    <3>1. CASE q = p
      BY <1>4, <2>7, <2>8, <2>9, <3>1
    <3>2. CASE q # p
      BY <2>2, <3>2 DEF CopyOK, Fresher, TickWaitOK
    <3> QED BY <3>1, <3>2
  <2> QED BY <2>5, <2>6, <2>10
<1> QED BY <1>5, <1>6, <1>8, <1>9, <1>10 DEF IInv

(***************************************************************************)
(* A request is carried out: it closes the results of its step and moves   *)
(* the execution, or only answers.                                         *)
(***************************************************************************)

\* Once results were closed, none waits, or the execution has failed and stays
\* where it is.
Closes ==
  /\ Close
  /\ \/ est' = "failed" /\ cur' = cur
     \/ /\ est' \in {"running", "failed"}
        /\ \E i \in 1..Len(rows) :
             /\ Wait(i) /\ rows'[i].st # "pending"
             /\ cur' \in {cur, rows[i].step + 1}
             /\ (\A j \in 1..Len(rows) : Wait(j) => j = i) =>
                  \A j \in 1..Len(rows) : rows'[j].st # "waiting_human"

LEMMA ClosesInv ==
  ASSUME IInv, Closes, UNCHANGED <<book, crs, tick, bounds, history>>,
         request' = NoRequest, est # "none"
  PROVE  IInv'
<1>1. TypeOK /\ RowsOK /\ TicksOK /\ Fresh /\ InOrder /\ Alone
  BY DEF IInv
<1>2. /\ rows \in Seq(RowType) /\ rows' \in Seq(RowType) /\ Len(rows') = Len(rows)
      /\ UNCHANGED <<book, status, of, tick, up, crashes, requests, rework, overlap, dead>>
  BY <1>1 DEF Closes, Close, TypeOK, RowType, crs, bounds, history
<1>3. ASSUME NEW i \in 1..Len(rows)
      PROVE  /\ rows'[i].step = rows[i].step /\ rows'[i].crs = rows[i].crs
             /\ rows'[i].st \in {rows[i].st, "completed", "failed"}
  BY DEF Closes, Close
<1>4. Grow
  BY <1>1, CloseGrows DEF Closes
<1>5. TypeOK'
  <2>1. est' \in ExecutionStatus
    BY DEF Closes, ExecutionStatus, Active
  <2>2. cur' \in Nat
    <3>1. cur \in Nat /\ \A i \in 1..Len(rows) : rows[i].step + 1 \in Nat
      <4>1. ASSUME NEW i \in 1..Len(rows)
            PROVE  rows[i].step \in Nat
        <5>1. rows[i] \in RowType
          BY <1>2
        <5> QED BY <5>1 DEF RowType
      <4> QED BY <1>1, <4>1, SMTT(30) DEF TypeOK
    <3> QED BY <3>1 DEF Closes
  <2>3. request' \in [pc : {"off", "resume", "abortstep", "abort"}, cur : Nat, est : ExecutionStatus]
    BY DEF NoRequest, ExecutionStatus
  <2> QED BY <1>1, <1>2, <2>1, <2>2, <2>3 DEF TypeOK, RowType
<1>6. Fresh'
  BY DEF Fresh, Closes
<1>7. RowsOK'
  <2> SUFFICES ASSUME NEW i \in 1..Len(rows)
               PROVE  ResultOK(rows[i].step, rows[i].st, rows[i].crs)'
    BY <1>2 DEF RowsOK
  <2>1. ResultOK(rows[i].step, rows[i].st, rows[i].crs)
    BY <1>1 DEF RowsOK
  <2> QED BY <1>2, <1>3, <2>1 DEF ResultOK
<1>8. TicksOK'
  <2>1. ASSUME NEW q \in Procs
        PROVE  TickOK(tick[q])'
    <3>1. PICK v \in TickType : v = tick[q]
      BY <1>1 DEF TypeOK
    <3>2. of' \in Seq(Nat \X Nat) /\ FiredGrows
      BY <1>1, <1>2 DEF TypeOK, FiredGrows
    <3>3. TickOK(v)'
      BY <1>1, <1>2, <1>4, <3>1, <3>2, TickStays DEF TicksOK
    <3> QED BY <1>2, <3>1, <3>3
  <2> QED BY <2>1 DEF TicksOK
<1>9. InOrder'
  <2>1. NoCondition => BegunTo(cur)'
    <3> SUFFICES ASSUME NoCondition PROVE BegunTo(cur)'
      OBVIOUS
    <3>1. CASE cur' = cur
      BY <1>1, <1>4, <3>1, SameCurBegun
    <3>2. CASE cur' # cur
      <4>1. PICK i \in 1..Len(rows) : Wait(i) /\ rows'[i].st # "pending" /\ cur' = rows[i].step + 1
        BY <3>2 DEF Closes
      <4>2. PICK n \in Nat : n = rows[i].step
        <5>1. rows[i] \in RowType
          BY <1>2
        <5> QED BY <5>1 DEF RowType
      <4>3. BegunTo(n)
        BY <1>1, <4>2 DEF InOrder
      <4>4. Begun(n)'
        BY <1>2, <1>3, <4>1, <4>2 DEF Begun
      <4> QED BY <1>1, <1>4, <4>1, <4>2, <4>3, <4>4, NextCurBegun
    <3> QED BY <3>1, <3>2
  <2> QED BY <1>1, <1>2, <1>4, <1>5, <2>1, OrderStays
<1>10. Alone'
  <2> SUFFICES ASSUME ~overlap'
               PROVE  /\ OneTick' /\ OneResult' /\ Recorded' /\ Distinct' /\ WaitOK'
                      /\ \A q \in Procs : CopyOK(tick[q])' /\ Fresher(tick[q])' /\ TickWaitOK(tick[q])'
    BY DEF Alone
  <2>1. OneTick /\ OneResult /\ Recorded /\ Distinct /\ WaitOK
        /\ \A q \in Procs : CopyOK(tick[q]) /\ Fresher(tick[q]) /\ TickWaitOK(tick[q])
    BY <1>1, <1>2 DEF Alone
  <2>2. OneTick' /\ Distinct'
    BY <1>2, <2>1 DEF OneTick, Distinct, Fired
  <2>3. OneResult'
    BY <1>2, <1>3, <2>1 DEF OneResult
  <2>4. Recorded'
    <3> SUFFICES ASSUME NEW c \in Fired \ dead
                 PROVE  InTick(c)' \/ InRow(c)'
      BY <1>2 DEF Recorded, Fired
    <3>1. CASE InTick(c)
      BY <1>2, <3>1 DEF InTick
    <3>2. CASE InRow(c)
      <4>1. PICK i \in 1..Len(rows) :
              /\ rows[i].step = of[c][1] /\ rows[i].st # "pending"
              /\ \E j \in 1..Len(rows[i].crs) : rows[i].crs[j] = c
        BY <3>2 DEF InRow
      <4>2. /\ i \in 1..Len(rows') /\ rows'[i].step = of'[c][1] /\ rows'[i].st # "pending"
            /\ rows'[i].crs = rows[i].crs
        BY <1>2, <1>3, <4>1
      <4> QED BY <4>1, <4>2 DEF InRow
    <3> QED BY <2>1, <3>1, <3>2 DEF Recorded
  <2>5. \A i \in 1..Len(rows) : Wait(i)' => Wait(i)
    BY <1>2, <1>3 DEF Wait
  <2>6. WaitOK'
    <3>1. \A i, j \in 1..Len(rows') : Wait(i)' /\ Wait(j)' => i = j
      BY <1>2, <2>1, <2>5 DEF WaitOK
    <3>2. est' = "running" => \A i \in 1..Len(rows') : ~Wait(i)'
      <4> SUFFICES ASSUME est' = "running" PROVE \A i \in 1..Len(rows) : ~Wait(i)'
        BY <1>2
      <4>1. PICK i \in 1..Len(rows) :
              /\ Wait(i)
              /\ (\A j \in 1..Len(rows) : Wait(j) => j = i) =>
                   \A j \in 1..Len(rows) : rows'[j].st # "waiting_human"
        BY DEF Closes
      <4>2. \A j \in 1..Len(rows) : Wait(j) => j = i
        BY <2>1, <4>1 DEF WaitOK
      <4> QED BY <4>1, <4>2 DEF Wait
    <3>3. est' # "waiting_human"
      BY DEF Closes
    <3> QED BY <3>1, <3>2, <3>3 DEF WaitOK
  <2>7. ASSUME NEW q \in Procs
        PROVE  CopyOK(tick[q])' /\ Fresher(tick[q])' /\ TickWaitOK(tick[q])'
    <3>1. PICK v \in TickType : v = tick[q]
      BY <1>1 DEF TypeOK
    <3>2. CopyOK(v) /\ Fresher(v) /\ TickWaitOK(v) /\ TickOK(v)
      BY <1>1, <2>1, <3>1 DEF TicksOK
    <3>3. CopyOK(v)'
      BY <1>2, <1>3, <3>2 DEF CopyOK, TickOK
    <3>4. Fresher(v)'
      BY <1>2, <3>2 DEF Fresher, Fired
    <3>5. TickWaitOK(v)'
      BY <1>2, <2>5, <3>2 DEF TickWaitOK, Closes
    <3> QED BY <1>2, <3>1, <3>3, <3>4, <3>5
  <2> QED BY <2>2, <2>3, <2>4, <2>6, <2>7
<1> QED BY <1>5, <1>6, <1>7, <1>8, <1>9, <1>10 DEF IInv

LEMMA AnswerInv ==
  ASSUME IInv, UNCHANGED <<rows, est, cur, book, crs, tick, bounds, history>>, request' = NoRequest
  PROVE  IInv'
<1>1. request' \in [pc : {"off", "resume", "abortstep", "abort"}, cur : Nat, est : ExecutionStatus]
      /\ request'.pc = "off"
  BY DEF NoRequest, ExecutionStatus
<1>2. UNCHANGED <<rows, est, cur, book, status, of, tick, up, crashes, requests, rework, overlap, dead>>
  BY DEF crs, bounds, history
<1>3. TypeOK'
  BY <1>1, <1>2 DEF IInv, TypeOK
<1> QED BY <1>1, <1>2, <1>3, QuietInv DEF rowsv

\* The i-th result, which waits, is closed.
LEMMA OneCloses ==
  ASSUME TypeOK, NEW i \in 1..Len(rows), Wait(i), NEW s \in {"completed", "failed"},
         rows' = [rows EXCEPT ![i].st = s]
  PROVE  /\ Close /\ rows'[i].st # "pending"
         /\ (\A j \in 1..Len(rows) : Wait(j) => j = i) =>
              \A j \in 1..Len(rows) : rows'[j].st # "waiting_human"
<1>0. rows \in Seq(RowType)
  BY DEF TypeOK, RowType
<1>1. rows \in Seq(RowType) /\ rows[i] \in RowType
  BY <1>0
<1> DEFINE r == [rows[i] EXCEPT !.st = s]
<1>2. r \in RowType /\ r.st = s /\ r.step = rows[i].step /\ r.crs = rows[i].crs
  BY <1>1 DEF RowType, StepStatus
<1>3. rows' = [rows EXCEPT ![i] = r]
  OBVIOUS
<1> HIDE DEF r
<1>4. /\ rows' \in Seq(RowType) /\ Len(rows') = Len(rows) /\ rows'[i] = r
      /\ \A j \in 1..Len(rows) : j # i => rows'[j] = rows[j]
  BY <1>1, <1>2, <1>3
<1>5. Close
  BY <1>2, <1>4 DEF Close
<1> QED BY <1>2, <1>4, <1>5 DEF Wait

LEMMA ResumeInv ==
  ASSUME IInv, ResumeCheckpoint
  PROVE  IInv'
<1>1. TypeOK /\ Fresh /\ est # "none"
  BY DEF IInv, Fresh, ResumeCheckpoint
<1>2. request' = NoRequest /\ UNCHANGED <<book, crs, tick, bounds, history>>
  BY DEF ResumeCheckpoint, Answer
<1>3. CASE UNCHANGED <<est, cur, rows>>
  BY <1>2, <1>3, AnswerInv
<1>4. ASSUME NEW k, NEW i \in Waiting(k),
             IF request.pc = "resume"
             THEN /\ rows' = [rows EXCEPT ![i].st = "completed"]
                  /\ est' = "running"
                  /\ cur' = IF k + 1 = request.cur THEN cur ELSE k + 1
             ELSE /\ rows' = [rows EXCEPT ![i].st = "failed"]
                  /\ est' = "failed"
                  /\ UNCHANGED cur
      PROVE  IInv'
  <2>1. i \in 1..Len(rows) /\ Wait(i) /\ rows[i].step = k
    BY DEF Waiting, Wait
  <2>2. /\ Close /\ rows'[i].st # "pending"
        /\ (\A j \in 1..Len(rows) : Wait(j) => j = i) =>
             \A j \in 1..Len(rows) : rows'[j].st # "waiting_human"
    <3>1. CASE rows' = [rows EXCEPT ![i].st = "completed"]
      BY <1>1, <2>1, <3>1, OneCloses
    <3>2. CASE rows' = [rows EXCEPT ![i].st = "failed"]
      BY <1>1, <2>1, <3>2, OneCloses
    <3> QED BY <1>4, <3>1, <3>2
  <2>3. est' \in {"running", "failed"} /\ cur' \in {cur, rows[i].step + 1}
    BY <1>4, <2>1
  <2>4. Closes
    BY <2>1, <2>2, <2>3 DEF Closes
  <2> QED BY <1>1, <1>2, <2>4, ClosesInv
<1> QED BY <1>3, <1>4 DEF ResumeCheckpoint

LEMMA AbortInv ==
  ASSUME IInv, AbortExecution
  PROVE  IInv'
<1>1. TypeOK /\ Fresh /\ est # "none" /\ rows \in Seq(RowType)
  BY DEF IInv, Fresh, AbortExecution, TypeOK, RowType
<1>2. request' = NoRequest /\ cur' = cur /\ UNCHANGED <<book, crs, tick, bounds, history>>
  BY DEF AbortExecution, Answer
<1>3. CASE UNCHANGED <<est, rows>>
  BY <1>2, <1>3, AnswerInv
<1> DEFINE mine == {i \in 1..Len(rows) : rows[i].step = request.cur}
           closed(i) == IF i \in mine THEN [rows[i] EXCEPT !.st = "failed"] ELSE rows[i]
<1>4. CASE est' = "failed" /\ rows' = [i \in 1..Len(rows) |-> closed(i)]
  <2>1. ASSUME NEW i \in 1..Len(rows)
        PROVE  /\ closed(i) \in RowType
               /\ closed(i).step = rows[i].step /\ closed(i).crs = rows[i].crs
               /\ closed(i).st \in {rows[i].st, "completed", "failed"}
    <3>1. rows[i] \in RowType
      BY <1>1
    <3> QED BY <3>1 DEF RowType, StepStatus
  <2> HIDE DEF closed
  <2>2. rows' \in Seq(RowType) /\ Len(rows') = Len(rows) /\ \A i \in 1..Len(rows) : rows'[i] = closed(i)
    BY <1>1, <1>4, <2>1
  <2>3. Closes
    BY <1>2, <1>4, <2>1, <2>2 DEF Closes, Close
  <2> QED BY <1>1, <1>2, <2>3, ClosesInv
<1> QED BY <1>3, <1>4 DEF AbortExecution

LEMMA NextInv == IInv /\ [Next]_vars => IInv'
<1> SUFFICES ASSUME IInv, [Next]_vars PROVE IInv'
  OBVIOUS
<1>1. CASE Trigger
  BY <1>1, TriggerInv
<1>2. CASE CheckpointRequest
  BY <1>2, RequestInv DEF CheckpointRequest, Active
<1>3. CASE AbortRequest
  BY <1>3, RequestInv DEF AbortRequest
<1>4. CASE RequestStep
  BY <1>4, ResumeInv, AbortInv DEF RequestStep
<1>5. ASSUME NEW p \in Procs, TickBegin(p)
      PROVE  IInv'
  BY <1>5, BeginInv
<1>6. ASSUME NEW p \in Procs, TickWork(p)
      PROVE  IInv'
  BY <1>6, FireInv, EndsInv
<1>7. ASSUME NEW p \in Procs, Crash(p)
      PROVE  IInv'
  BY <1>7, CrashInv
<1>8. ASSUME NEW p \in Procs, Restart(p)
      PROVE  IInv'
  BY <1>8, RestartInv
<1>9. ASSUME NEW c \in CRs, CRStep(c)
      PROVE  IInv'
  BY <1>9, CRInv
<1>10. CASE UNCHANGED vars
  BY <1>10, StutterInv
<1> QED BY <1>1, <1>2, <1>3, <1>4, <1>5, <1>6, <1>7, <1>8, <1>9, <1>10 DEF Next

LEMMA Invariant == Spec => []IInv
BY InitInv, NextInv, PTL DEF Spec
-----------------------------------------------------------------------------
(***************************************************************************)
(* The theorems.                                                           *)
(***************************************************************************)

\* The rows of the execution, of its step results and of its CRs, and the ticks
\* and requests under way, keep their types.
THEOREM TypeCorrect == Spec => []TypeOK
<1>1. IInv => TypeOK
  BY DEF IInv
<1> QED BY <1>1, Invariant, PTL

\* While no ticks of two processes overlapped, a runbook fires each of its changes
\* once, but for those of a tick that died or raised.
THEOREM ChangesFiredOnce == Spec => []FiredOnce
<1>1. IInv => FiredOnce
  BY DEF IInv, Alone, Distinct, FiredOnce
<1> QED BY <1>1, Invariant, PTL

\* While no ticks of two processes overlapped, every CR that was fired is in a
\* step result or in the hands of the tick that fires it.
THEOREM FiredAreKnown == Spec => []FiredIsRecorded
<1>1. IInv => FiredIsRecorded
  <2> SUFFICES ASSUME Recorded, NEW c \in Fired \ dead
               PROVE  \/ \E i \in 1..Len(rows) : \E j \in 1..Len(rows[i].crs) : rows[i].crs[j] = c
                      \/ \E p \in Procs : \E j \in 1..Len(tick[p].fired) : tick[p].fired[j] = c
    BY DEF IInv, Alone, FiredIsRecorded
  <2> QED BY DEF Recorded, InTick, InRow
<1> QED BY <1>1, Invariant, PTL

\* However the ticks of any number of processes, the operators' requests and the
\* crashes interleave, an execution without conditions never skips a step.
THEOREM StepsNotSkipped == Spec => []NoStepSkipped
<1>1. IInv => NoStepSkipped
  BY DEF IInv, InOrder, BegunTo, Begun, NoCondition, NoStepSkipped
<1> QED BY <1>1, Invariant, PTL

\* While no ticks of two processes overlapped, an execution that waits for a human
\* has exactly one result to answer, that of its current step, whatever timeouts,
\* answers and aborts crossed before.
THEOREM CheckpointAnswerable == Spec => []WaitingIsResumable
<1>1. IInv => WaitingIsResumable
  <2> SUFFICES ASSUME WaitOK, est = "waiting_human"
               PROVE  \E i \in Waiting(cur) : {j \in 1..Len(rows) : rows[j].st = "waiting_human"} = {i}
    BY DEF IInv, Alone, WaitingIsResumable
  <2>1. PICK i \in 1..Len(rows) : Wait(i) /\ rows[i].step = cur
    BY DEF WaitOK
  <2>2. i \in Waiting(cur)
    BY <2>1 DEF Waiting, Wait
  <2>3. {j \in 1..Len(rows) : rows[j].st = "waiting_human"} = {i}
    BY <2>1 DEF WaitOK, Wait
  <2> QED BY <2>2, <2>3
<1> QED BY <1>1, Invariant, PTL
=============================================================================
