------------------------ MODULE RotationCampaignProofs ------------------------
(***************************************************************************)
(* Theorems about RotationCampaign, for any number of items, requests,     *)
(* crashes and coroutines.                                                 *)
(***************************************************************************)
EXTENDS RotationCampaign, TLAPS

(***************************************************************************)
(* The inductive invariant.                                                *)
(***************************************************************************)
Early    == {"load", "prepare", "push", "verify", "verified", "pause"}
ExecPc   == {"off", "store", "storepaused", "complete", "completerun", "failcr", "failrun"} \cup Early
ExecType == [pc : ExecPc, flow : BOOLEAN, run : {"main", "own"}, rec : ResultType, todo : SUBSET Items]
UndoType == [pc : {"off", "start", "load", "undo"}, ran : BOOLEAN, todo : SUBSET Items,
             read : SUBSET Items, warned : BOOLEAN, blind : SUBSET Items]

Types ==
  /\ TypeOK
  /\ exec \in [Execs -> ExecType] /\ undo \in UndoType
  /\ up \in BOOLEAN /\ unseen \in BOOLEAN /\ misrouted \in BOOLEAN /\ overlap \in BOOLEAN

\* A process that is down runs nothing; requests find executions one at a time
\* unless they overlapped.
Alone ==
  /\ ~up => undo.pc = "off" /\ \A e \in Execs : exec[e].pc = "off"
  /\ ~overlap => \A e, f \in Execs : exec[e].pc # "off" /\ exec[f].pc # "off" => e = f

\* ExecuteChangeWorkflow runs once, in its slot, and nothing is asked of the CR
\* before it has left it.  The other coroutines are resumptions.
FlowOK ==
  \A e \in Execs : exec[e].pc # "off" =>
    /\ exec[e].flow => e = FirstExec
    /\ exec[e].flow /\ exec[e].pc \in Early \cup {"failcr"} =>
         ~overlap /\ ~misrouted /\ ~undo.ran /\ undo.pc = "off"
    /\ exec[e].flow /\ exec[e].pc \in {"failcr", "failrun"} =>
         /\ cr \notin {"paused", "completed"}
         /\ \A f \in Execs : exec[f].pc # "off" => f = e
    /\ ~exec[e].flow => exec[e].pc \in Early \ {"prepare"} /\ (kind # "fanout" => exec[e].pc = "load")

\* What the status says of the execution under way, unless requests overlapped.
StatusAt(pc) ==
  CASE pc \in Early \cup {"failcr"}         -> "executing"
    [] pc \in {"store", "storepaused"}      -> IF kind = "certificate" THEN "executing" ELSE "paused"
    [] pc = "complete"                      -> IF kind = "certificate" THEN "completed" ELSE "executing"
    [] pc = "completerun"                   -> "completed"
    [] pc = "failrun"                       -> IF kind = "k8s" THEN "executing" ELSE "failed"

StatusOK == ~overlap => \A e \in Execs : exec[e].pc # "off" => cr = StatusAt(exec[e].pc)

\* A rollback that did not overlap has the CR to itself, and still has to do what
\* is in place and not yet looked at.
UndoOK ==
  /\ cr \in {"rolled_back", "rolled_back_with_warnings"} => undo.pc = "off" /\ undo.ran
  /\ undo.pc \in {"load", "undo"} => undo.ran
  /\ undo.pc \in {"start", "load"} => undo.blind = {}
  /\ ~overlap =>
       /\ undo.ran => cr \notin {"paused", "completed"} /\ \A e \in Execs : exec[e].pc = "off"
       /\ undo.pc \in {"load", "undo"} => cr = "executing"
       /\ undo.pc = "undo" /\ ~undo.warned => applied \cap undo.read \subseteq undo.blind \cup undo.todo
       /\ undo.pc = "undo" /\ ~misrouted /\ kind # "k8s" => Reported \subseteq undo.read

\* Every result calls an item verified only when it was.
Honest(r) == \A i \in Items : r.ver[i] \in {"ok", "skipped"} => i \in vouched
HonestOK  == Honest(main.res) /\ Honest(own.res) /\ \A e \in Execs : Honest(exec[e].rec)

\* What was verified is in place until a rollback begins.
VouchOK == ~undo.ran => \A i \in vouched \ waived : i \in applied \/ unseen

\* Only the workflow pushes: nothing before it has prepared, each item it still
\* has to do for the first time.
Untouched == \A i \in Items : pushes[i] = 0
PushOK ==
  /\ PushedOnce
  /\ \A e \in Execs :
       /\ exec[e].flow /\ exec[e].pc = "load" => main = [st |-> "pending", res |-> Blank] /\ own = NoRun
       /\ exec[e].flow /\ exec[e].pc \in {"load", "prepare"} => Untouched
       /\ exec[e].flow /\ exec[e].pc = "prepare" =>
            /\ exec[e].rec.upd = None /\ exec[e].rec.phase = "prepare"
            /\ exec[e].rec.done < Len(Preparation[kind])
            /\ kind = "k8s" => exec[e].rec.items = {}
       /\ exec[e].pc = "push" => \A i \in exec[e].todo : pushes[i] = 0
       /\ exec[e].pc = "push" /\ ~exec[e].flow => exec[e].todo = {}

\* Certificates and upgrades use the workflow's run; every dependent is in it by
\* the time the CR is paused or completed.
MainOK ==
  kind # "fanout" => own = NoRun /\ \A e \in Execs : exec[e].pc # "off" => exec[e].run = "main"

CertOK ==
  kind = "certificate" =>
    /\ ~misrouted /\ cr \in {"paused", "completed"} => main.res.items = Items
    /\ ~misrouted => main.res.upd = None \/ main.res.items = Items
    /\ \A e \in Execs : exec[e].flow =>
         /\ exec[e].pc # "pause"
         /\ exec[e].pc = "prepare" /\ exec[e].rec.done > 0 => exec[e].rec.items = Items
         /\ exec[e].pc \in ExecPc \ {"off", "load", "prepare", "failcr", "failrun"} =>
              exec[e].rec.items = Items /\ (~misrouted => main.res.items = Items)

\* The fan-out: once the workflow has pushed, every result, in memory and in the
\* two runs, says the same of what was pushed.
ReadyRun == own.st # "absent" /\ own.res.phase # "prepare" /\ Pending(own.res) = {}
Like(r)  == ReadyRun /\ r.phase # "prepare" /\ r.upd = own.res.upd /\ r.items = own.res.items
LatePc   == {"verify", "verified", "pause", "store", "storepaused", "complete", "completerun"}
Late(x)  == x.pc \in LatePc \/ (x.pc = "push" /\ ~x.flow)
Sole     == own.st = "completed" /\ cr # "paused" /\ \A e \in Execs : exec[e].pc = "off" \/ exec[e].flow

Over     == own.st = "completed" /\ cr # "paused" /\ \A e \in Execs : exec[e].pc = "off"

FanoutExec(x) ==
  /\ ~x.rec.wrapped
  /\ x.pc \in {"off", "load"} => x.rec.upd = None
  /\ x.pc # "off" /\ ~x.flow => ReadyRun
  /\ Late(x) => Like(x.rec) /\ (x.run = "main" => main.st \in {"running", "completed"} /\ ~x.flow)
  /\ x.flow /\ x.pc \in {"prepare", "push"} => main.st = "pending" /\ x.run = "own" /\ own.res.upd = None
  /\ x.flow /\ x.pc = "push" =>
       /\ own.st # "absent" /\ own.res.items = x.rec.items /\ x.todo \subseteq x.rec.items
       /\ Pending(x.rec) \subseteq x.todo /\ x.rec.phase # "prepare"
       /\ \A i \in Items : x.rec.upd[i] # "none" => i \in x.rec.items
  /\ x.flow /\ x.pc \in {"verify", "failcr", "failrun"} => main.st = "pending"
  /\ x.pc \in {"failcr", "failrun"} => x.rec.upd = None
  /\ x.pc \in {"complete", "completerun"} => Sole

FanoutRuns ==
  /\ ~own.res.wrapped /\ main.st \in {"pending", "running", "completed", "failed"}
  /\ main.st \in {"pending", "failed"} => main.res.upd = None
  /\ own.st = "absent" => own.res.upd = None
  /\ main.st \in {"running", "completed"} => Like(main.res)
  /\ main.res.wrapped => Over
  /\ cr \in {"paused", "completed"} => ReadyRun
  /\ \A i \in Items : pushes[i] > 0 => i \in own.res.items
  /\ \A i \in Items : own.res.upd[i] # "none" => i \in own.res.items

FanoutOK == kind = "fanout" => FanoutRuns /\ \A e \in Execs : FanoutExec(exec[e])

\* A CR is completed on a result in which every item is verified.
CompleteOK ==
  /\ cr = "completed" /\ ~misrouted /\ ~overlap => Unverified(Latest.res) = {}
  /\ \A e \in Execs : exec[e].pc \in {"complete", "completerun"} =>
       Unverified(exec[e].rec) = {} /\ (~overlap => Unverified(Latest.res) = {})

ControlOK == Alone /\ FlowOK /\ StatusOK /\ UndoOK /\ RolledBackIsUndone

IInv ==
  /\ Types /\ ControlOK /\ HonestOK /\ VouchOK
  /\ PushOK /\ MainOK /\ CertOK /\ FanoutOK /\ CompleteOK
-----------------------------------------------------------------------------
(***************************************************************************)
(* Facts about the values.                                                 *)
(***************************************************************************)
CrType == {"executing", "paused", "completed", "failed", "rolled_back", "rolled_back_with_warnings"}

LEMMA BlankType == Blank \in ResultType
BY DEF Blank, None, ResultType

LEMMA NoExecType == NoExec \in ExecType
BY BlankType DEF NoExec, ExecType, ExecPc, Early

LEMMA NoRunType == NoRun \in RunType
BY BlankType DEF NoRun, RunType

LEMMA BlankFacts ==
  /\ Blank.upd = None /\ Blank.ver = None /\ Blank.done = 0 /\ Blank.items = {}
  /\ Blank.phase = "prepare" /\ ~Blank.wrapped
  /\ NoRun.st = "absent" /\ NoRun.res = Blank
  /\ NoExec.pc = "off" /\ ~NoExec.flow /\ NoExec.run = "main" /\ NoExec.rec = Blank /\ NoExec.todo = {}
BY DEF Blank, NoRun, NoExec

LEMMA PreparationFacts ==
  ASSUME Types
  PROVE  /\ kind \in {"certificate", "fanout", "k8s"}
         /\ Len(Preparation[kind]) = (IF kind = "certificate" THEN 3 ELSE 2)
         /\ kind = "certificate" => /\ Preparation[kind][1] = "scan" /\ Preparation[kind][2] = "snapshot"
                                    /\ Preparation[kind][3] = "rotate"
         /\ kind = "fanout" => Preparation[kind][1] = "rotate" /\ Preparation[kind][2] = "scan"
         /\ kind = "k8s" => Preparation[kind][1] = "preflight" /\ Preparation[kind][2] = "control_plane"
<1>1. kind \in {"certificate", "fanout", "k8s"}
  BY CampaignAssumption DEF Types, TypeOK
<1>2. CASE kind = "certificate"
  BY <1>2 DEF Preparation
<1>3. CASE kind = "fanout"
  BY <1>3 DEF Preparation
<1>4. CASE kind = "k8s"
  BY <1>4 DEF Preparation
<1> QED BY <1>1, <1>2, <1>3, <1>4

\* What a commit of a result does to the runs.
Keeps(run, r) ==
  \/ run = "main" /\ own' = own /\ main' = [st |-> main.st, res |-> r]
  \/ run = "own" /\ main' = main /\ own' = [st |-> IF own.st = "absent" THEN "running" ELSE own.st, res |-> r]

LEMMA PersistKeeps ==
  ASSUME NEW run \in {"main", "own"}, NEW r, Persist(run, r)
  PROVE  Keeps(run, r)
BY DEF Persist, Write, Keeps

LEMMA KeepsFacts ==
  ASSUME Types, NEW run \in {"main", "own"}, NEW r \in ResultType, Keeps(run, r)
  PROVE  /\ main' \in RunType /\ own' \in RunType
         /\ run = "main" => own' = own /\ main'.res = r /\ main'.st = main.st
         /\ run = "own" => /\ main' = main /\ own'.res = r
                           /\ own'.st = (IF own.st = "absent" THEN "running" ELSE own.st)
<1>1. main \in RunType /\ own \in RunType
  BY DEF Types, TypeOK
<1> QED BY <1>1 DEF Keeps, RunType

\* The coroutine e becomes y.
LEMMA MoveFacts ==
  ASSUME Types, NEW e \in Execs, NEW y \in ExecType, exec' = [exec EXCEPT ![e] = y]
  PROVE  /\ exec' \in [Execs -> ExecType] /\ exec'[e] = y
         /\ \A f \in Execs : f # e => exec'[f] = exec[f]
BY DEF Types
-----------------------------------------------------------------------------
(***************************************************************************)
(* What a step of a coroutine leaves alone: x becomes y.                   *)
(***************************************************************************)
Moves(e, x, y) ==
  /\ exec' = [exec EXCEPT ![e] = y]
  /\ x.pc # "off"
  /\ UNCHANGED <<kind, up, crashes, undo, requests, overlap>>

LEMMA TypesFrame ==
  ASSUME Types, NEW e \in Execs, NEW x, NEW y \in ExecType, Moves(e, x, y),
         cr' \in CrType, main' \in RunType, own' \in RunType,
         applied' \subseteq Items, pushes' \in [Items -> Nat],
         waived' = waived, vouched \subseteq vouched', vouched' \subseteq Items,
         unseen' \in BOOLEAN, misrouted' \in BOOLEAN
  PROVE  Types'
<1>1. exec' \in [Execs -> ExecType]
  BY MoveFacts DEF Moves
<1>2. \A f \in Execs : exec'[f].rec \in ResultType /\ exec'[f].todo \subseteq Items
  BY <1>1 DEF ExecType
<1>3. TypeOK'
  BY <1>2 DEF Types, TypeOK, Moves, CrType
<1> QED BY <1>1, <1>3 DEF Types, Moves

\* The status, the rollback and the other coroutines.
LEMMA ControlFrame ==
  ASSUME Types, ControlOK, NEW e \in Execs, NEW x, x = exec[e], NEW y \in ExecType, Moves(e, x, y),
         cr' \in {cr, "executing", "paused", "completed", "failed"},
         y.pc # "off" =>
           /\ y.flow = x.flow
           /\ y.flow /\ y.pc \in Early \cup {"failcr"} => x.pc \in Early /\ misrouted' = misrouted
           /\ y.flow /\ y.pc \in {"failcr", "failrun"} =>
                x.pc \in Early \cup {"failcr"} /\ cr' \notin {"paused", "completed"}
           /\ ~y.flow => y.pc \in Early \ {"prepare"} /\ kind = "fanout"
           /\ ~overlap => cr' = StatusAt(y.pc)
  PROVE  ControlOK'
<1>1. /\ exec' \in [Execs -> ExecType] /\ exec'[e] = y /\ \A f \in Execs : f # e => exec'[f] = exec[f]
      /\ exec \in [Execs -> ExecType] /\ exec[e].pc # "off"
  BY MoveFacts DEF Moves, Types
<1>2. UNCHANGED <<kind, up, undo, overlap>>
  BY DEF Moves
<1>3. Alone /\ FlowOK /\ StatusOK /\ UndoOK /\ RolledBackIsUndone
  BY DEF ControlOK
<1>4. Alone'
  BY <1>1, <1>2, <1>3 DEF Alone
<1>5. StatusOK'
  <2> SUFFICES ASSUME ~overlap, NEW f \in Execs, exec'[f].pc # "off"
               PROVE  cr' = StatusAt(exec'[f].pc)
    BY <1>2 DEF StatusOK, StatusAt
  <2>1. f = e
    BY <1>1, <1>3 DEF Alone
  <2> QED BY <1>1, <2>1
<1>6. UndoOK' /\ RolledBackIsUndone'
  <2>1. ~overlap => ~undo.ran
    BY <1>1, <1>3 DEF UndoOK
  <2>2. cr' \in {"rolled_back", "rolled_back_with_warnings"} => cr' = cr
    OBVIOUS
  <2> QED BY <1>2, <1>3, <2>1, <2>2 DEF UndoOK, RolledBackIsUndone
<1>7. FlowOK'
  <2> SUFFICES ASSUME NEW f \in Execs, exec'[f].pc # "off"
               PROVE
    /\ exec'[f].flow => f = FirstExec
    /\ exec'[f].flow /\ exec'[f].pc \in Early \cup {"failcr"} =>
         ~overlap' /\ ~misrouted' /\ ~undo'.ran /\ undo'.pc = "off"
    /\ exec'[f].flow /\ exec'[f].pc \in {"failcr", "failrun"} =>
         /\ cr' \notin {"paused", "completed"}
         /\ \A g \in Execs : exec'[g].pc # "off" => g = f
    /\ ~exec'[f].flow => exec'[f].pc \in Early \ {"prepare"} /\ (kind' # "fanout" => exec'[f].pc = "load")
    BY DEF FlowOK
  <2>0. /\ exec[e].flow => e = FirstExec
        /\ exec[e].flow /\ exec[e].pc \in Early \cup {"failcr"} =>
             ~overlap /\ ~misrouted /\ ~undo.ran /\ undo.pc = "off"
    BY <1>1, <1>3 DEF FlowOK
  <2>1. CASE f # e
    <3>1. exec'[f] = exec[f] /\ exec[f].pc # "off"
      BY <1>1, <2>1
    <3>2. /\ exec[f].flow => f = FirstExec
          /\ exec[f].flow /\ exec[f].pc \in Early \cup {"failcr"} => ~overlap
          /\ exec[f].flow /\ exec[f].pc \in {"failcr", "failrun"} =>
               \A g \in Execs : exec[g].pc # "off" => g = f
          /\ ~exec[f].flow => exec[f].pc \in Early \ {"prepare"} /\ (kind # "fanout" => exec[f].pc = "load")
      BY <1>3, <3>1 DEF FlowOK
    <3>3. overlap
      BY <1>1, <1>3, <2>1, <3>1 DEF Alone
    <3> QED BY <1>1, <1>2, <2>1, <3>1, <3>2, <3>3
  <2>2. CASE f = e
    <3>1. exec'[f] = y /\ y.pc # "off"
      BY <1>1, <2>2
    <3>2. y.flow /\ y.pc \in {"failcr", "failrun"} => \A g \in Execs : exec'[g].pc # "off" => g = f
      BY <1>1, <1>3, <2>0, <2>2, <3>1 DEF Alone
    <3>3. y.flow /\ y.pc \in Early \cup {"failcr"} =>
            ~overlap' /\ ~misrouted' /\ ~undo'.ran /\ undo'.pc = "off"
      BY <1>2, <2>0, <3>1
    <3> QED BY <1>2, <2>0, <2>2, <3>1, <3>2, <3>3
  <2> QED BY <2>1, <2>2
<1> QED BY <1>4, <1>5, <1>6, <1>7 DEF ControlOK

LEMMA HonestFrame ==
  ASSUME Types, HonestOK, NEW e \in Execs, NEW x, NEW y \in ExecType, Moves(e, x, y),
         vouched \subseteq vouched', Honest(y.rec)',
         main'.res = main.res \/ Honest(main.res)', own'.res = own.res \/ Honest(own.res)'
  PROVE  HonestOK'
<1>1. exec'[e] = y /\ \A f \in Execs : f # e => exec'[f] = exec[f]
  BY MoveFacts DEF Moves
<1>2. Honest(main.res)'
  BY DEF HonestOK, Honest
<1>3. Honest(own.res)'
  BY DEF HonestOK, Honest
<1>4. ASSUME NEW f \in Execs
      PROVE  Honest(exec[f].rec)'
  BY <1>1 DEF HonestOK, Honest
<1> QED BY <1>2, <1>3, <1>4 DEF HonestOK

LEMMA VouchFrame ==
  ASSUME VouchOK, undo' = undo, vouched' = vouched, waived' = waived, applied \subseteq applied',
         unseen => unseen'
  PROVE  VouchOK'
BY DEF VouchOK

LEMMA PushFrame ==
  ASSUME Types, ControlOK, PushOK, NEW e \in Execs, NEW x, x = exec[e], NEW y \in ExecType,
         Moves(e, x, y), pushes' = pushes,
         ~(y.flow /\ y.pc = "load"),
         y.flow /\ y.pc = "prepare" =>
           /\ x.flow /\ x.pc \in {"load", "prepare"}
           /\ y.rec.upd = None /\ y.rec.phase = "prepare" /\ y.rec.done < Len(Preparation[kind])
           /\ kind = "k8s" => y.rec.items = {},
         y.pc = "push" => /\ \A i \in y.todo : pushes[i] = 0
                          /\ ~y.flow => y.todo = {}
  PROVE  PushOK'
<1>1. /\ exec'[e] = y /\ \A f \in Execs : f # e => exec'[f] = exec[f]
      /\ UNCHANGED <<kind, overlap, undo>> /\ exec[e].pc # "off"
  BY MoveFacts DEF Moves
<1>2. ASSUME NEW f \in Execs, f # e, exec[f].flow
      PROVE  exec[f].pc \notin {"load", "prepare"}
  BY <1>1, <1>2 DEF ControlOK, Alone, FlowOK, Early
<1>3. PushedOnce'
  BY DEF PushOK, PushedOnce
<1>4. ASSUME NEW f \in Execs
      PROVE  /\ exec'[f].flow /\ exec'[f].pc = "load" => FALSE
             /\ exec'[f].flow /\ exec'[f].pc \in {"load", "prepare"} => Untouched'
             /\ exec'[f].flow /\ exec'[f].pc = "prepare" =>
                  /\ exec'[f].rec.upd = None /\ exec'[f].rec.phase = "prepare"
                  /\ exec'[f].rec.done < Len(Preparation[kind])
                  /\ kind = "k8s" => exec'[f].rec.items = {}
             /\ exec'[f].pc = "push" => \A i \in exec'[f].todo : pushes'[i] = 0
             /\ exec'[f].pc = "push" /\ ~exec'[f].flow => exec'[f].todo = {}
  <2>1. CASE f = e
    <3>1. exec'[f] = y /\ (x.flow /\ x.pc \in {"load", "prepare"} => Untouched')
      BY <1>1, <2>1 DEF PushOK, Untouched
    <3> QED BY <3>1
  <2>2. CASE f # e
    <3>1. exec'[f] = exec[f]
      BY <1>1, <2>2
    <3> QED BY <1>2, <2>2, <3>1 DEF PushOK
  <2> QED BY <2>1, <2>2
<1> QED BY <1>1, <1>3, <1>4 DEF PushOK

LEMMA MainFrame ==
  ASSUME Types, MainOK, NEW e \in Execs, NEW x, x = exec[e], NEW y \in ExecType, Moves(e, x, y),
         kind # "fanout" => own' = own /\ (y.pc = "off" \/ y.run = "main")
  PROVE  MainOK'
<1>1. exec'[e] = y /\ (\A f \in Execs : f # e => exec'[f] = exec[f]) /\ kind' = kind
  BY MoveFacts DEF Moves
<1> QED BY <1>1 DEF MainOK

LEMMA CertFrame ==
  ASSUME Types, ControlOK, CertOK, NEW e \in Execs, NEW x, x = exec[e], NEW y \in ExecType,
         Moves(e, x, y), misrouted => misrouted',
         kind = "certificate" =>
           /\ x.flow \/ misrouted'
           /\ ~misrouted' /\ cr' \in {"paused", "completed"} => main'.res.items = Items
           /\ ~misrouted' => main'.res.upd = None \/ main'.res.items = Items
           /\ y.flow => y.pc # "pause"
           /\ y.flow /\ y.pc = "prepare" /\ y.rec.done > 0 => y.rec.items = Items
           /\ y.flow /\ y.pc \in ExecPc \ {"off", "load", "prepare", "failcr", "failrun"} =>
                y.rec.items = Items /\ (~misrouted' => main'.res.items = Items)
  PROVE  CertOK'
<1> SUFFICES ASSUME kind = "certificate", NEW f \in Execs, exec'[f].flow
             PROVE  /\ exec'[f].pc # "pause"
                    /\ exec'[f].pc = "prepare" /\ exec'[f].rec.done > 0 => exec'[f].rec.items = Items
                    /\ exec'[f].pc \in ExecPc \ {"off", "load", "prepare", "failcr", "failrun"} =>
                         exec'[f].rec.items = Items /\ (~misrouted' => main'.res.items = Items)
  BY DEF CertOK, Moves
<1>1. exec'[e] = y /\ (\A g \in Execs : g # e => exec'[g] = exec[g]) /\ exec[e].pc # "off"
  BY MoveFacts DEF Moves
<1>2. CASE f = e
  BY <1>1, <1>2
<1>3. CASE f # e
  <2>1. exec'[f] = exec[f]
    BY <1>1, <1>3
  <2>2. exec[f].pc = "off" \/ ~x.flow
    BY <1>1, <1>3, <2>1 DEF ControlOK, FlowOK
  <2> QED BY <2>1, <2>2 DEF CertOK
<1> QED BY <1>2, <1>3

\* Once the workflow has pushed, nobody changes what was pushed.
OwnStays ==
  /\ ReadyRun => ReadyRun' /\ own'.res.upd = own.res.upd /\ own'.res.items = own.res.items
  /\ main.st \in {"running", "completed"} => main'.st \in {"running", "completed"}

LEMMA FanoutFrame ==
  ASSUME Types, ControlOK, FanoutOK, NEW e \in Execs, NEW x, x = exec[e], NEW y \in ExecType,
         Moves(e, x, y), kind = "fanout" => (overlap => OwnStays) /\ FanoutRuns' /\ FanoutExec(y)'
  PROVE  FanoutOK'
<1> SUFFICES ASSUME kind = "fanout", NEW f \in Execs
             PROVE  FanoutExec(exec[f])'
  BY DEF FanoutOK, Moves
<1>1. /\ exec'[e] = y /\ (\A g \in Execs : g # e => exec'[g] = exec[g]) /\ exec[e].pc # "off"
      /\ exec \in [Execs -> ExecType]
  BY MoveFacts DEF Moves, Types
<1>2. CASE f = e
  BY <1>1, <1>2
<1>3. CASE f # e
  <2>1. PICK z \in ExecType : z = exec[f] /\ exec'[f] = z
    BY <1>1, <1>3
  <2>2. FanoutExec(z) /\ (z.pc # "off" => OwnStays)
    BY <1>1, <1>3, <2>1 DEF FanoutOK, ControlOK, Alone
  <2>3. FanoutExec(z)'
    <3>1. z.pc = "off" \/ ~z.flow \/ z.pc \notin {"prepare", "push", "verify", "failcr", "failrun"}
      BY <1>1, <1>3, <2>1 DEF ControlOK, Alone, FlowOK, Early
    <3>2. z.pc \notin {"complete", "completerun"}
      <4> SUFFICES ASSUME z.pc \in {"complete", "completerun"} PROVE FALSE
        OBVIOUS
      <4>1. z.flow /\ f = FirstExec
        BY <2>1 DEF ControlOK, FlowOK, Early
      <4>2. exec[e].flow
        BY <1>1, <2>2 DEF FanoutExec, Sole
      <4>3. e = FirstExec
        BY <1>1, <4>2 DEF ControlOK, FlowOK
      <4> QED BY <1>3, <4>1, <4>3
    <3>3. z.pc # "off" /\ ~z.flow => ReadyRun'
      BY <2>2 DEF FanoutExec, OwnStays
    <3>4. Late(z)' => Like(z.rec)' /\ (z.run = "main" => main'.st \in {"running", "completed"} /\ ~z.flow)
      <4> SUFFICES ASSUME Late(z)'
                   PROVE  Like(z.rec)' /\ (z.run = "main" => main'.st \in {"running", "completed"} /\ ~z.flow)
        OBVIOUS
      <4>1. Like(z.rec) /\ (z.run = "main" => main.st \in {"running", "completed"} /\ ~z.flow) /\ z.pc # "off"
        BY <2>2 DEF FanoutExec, Late, LatePc
      <4> QED BY <2>2, <4>1 DEF Like, OwnStays
    <3>5. ~z.rec.wrapped /\ (z.pc \in {"off", "load", "failcr", "failrun"} => z.rec.upd = None)
      BY <2>2 DEF FanoutExec
    <3> QED BY <3>1, <3>2, <3>3, <3>4, <3>5 DEF FanoutExec
  <2> QED BY <2>1, <2>3
<1> QED BY <1>2, <1>3

LEMMA CompleteFrame ==
  ASSUME Types, ControlOK, CompleteOK, NEW e \in Execs, NEW x, x = exec[e], NEW y \in ExecType,
         Moves(e, x, y),
         cr' = "completed" /\ ~misrouted' /\ ~overlap => Unverified(Latest.res)' = {},
         y.pc \in {"complete", "completerun"} =>
           Unverified(y.rec) = {} /\ (~overlap => Unverified(Latest.res)' = {})
  PROVE  CompleteOK'
<1>1. /\ exec'[e] = y /\ (\A g \in Execs : g # e => exec'[g] = exec[g]) /\ exec[e].pc # "off"
      /\ overlap' = overlap
  BY MoveFacts DEF Moves
<1>2. ASSUME NEW f \in Execs, exec'[f].pc \in {"complete", "completerun"}
      PROVE  Unverified(exec[f].rec)' = {} /\ (~overlap' => Unverified(Latest.res)' = {})
  <2>1. CASE f = e
    BY <1>1, <1>2, <2>1 DEF Unverified
  <2>2. CASE f # e
    <3>1. exec'[f] = exec[f] /\ exec[f].pc # "off"
      BY <1>1, <1>2, <2>2
    <3>2. overlap
      BY <1>1, <2>2, <3>1 DEF ControlOK, Alone
    <3> QED BY <1>1, <1>2, <3>1, <3>2 DEF CompleteOK, Unverified
  <2> QED BY <2>1, <2>2
<1> QED BY <1>1, <1>2 DEF CompleteOK

\* What is known of a coroutine under way.
LEMMA ActiveFacts ==
  ASSUME IInv, NEW e \in Execs, NEW x, x = exec[e], x.pc # "off"
  PROVE  /\ x \in ExecType /\ x.rec \in ResultType /\ x.todo \subseteq Items /\ x.run \in {"main", "own"}
         /\ x.flow \in BOOLEAN /\ Honest(x.rec)
         /\ ~overlap => cr = StatusAt(x.pc)
         /\ x.flow /\ x.pc \in Early \cup {"failcr"} => ~overlap /\ ~misrouted /\ ~undo.ran
         /\ ~x.flow => x.pc \in Early \ {"prepare"} /\ (kind # "fanout" => x.pc = "load")
         /\ kind # "fanout" => x.run = "main" /\ own = NoRun
         /\ kind = "fanout" => FanoutRuns /\ FanoutExec(x) /\ ~main.res.wrapped
         /\ kind \in {"certificate", "fanout", "k8s"} /\ cr \in CrType
         /\ main \in RunType /\ own \in RunType
<1>1. x \in ExecType /\ cr \in CrType /\ main \in RunType /\ own \in RunType
  BY DEF IInv, Types, TypeOK, CrType
<1>2. kind \in {"certificate", "fanout", "k8s"}
  BY PreparationFacts DEF IInv
<1>3. x.rec \in ResultType /\ x.todo \subseteq Items /\ x.run \in {"main", "own"} /\ x.flow \in BOOLEAN
  BY <1>1 DEF ExecType
<1>4. /\ ~overlap => cr = StatusAt(x.pc)
      /\ x.flow /\ x.pc \in Early \cup {"failcr"} => ~overlap /\ ~misrouted /\ ~undo.ran
      /\ ~x.flow => x.pc \in Early \ {"prepare"} /\ (kind # "fanout" => x.pc = "load")
  BY DEF IInv, ControlOK, StatusOK, FlowOK
<1>5. Honest(x.rec) /\ (kind # "fanout" => x.run = "main" /\ own = NoRun)
  BY DEF IInv, HonestOK, MainOK
<1>6. kind = "fanout" => FanoutRuns /\ FanoutExec(x) /\ ~main.res.wrapped
  BY DEF IInv, FanoutOK, FanoutRuns, Over
<1> QED BY <1>1, <1>2, <1>3, <1>4, <1>5, <1>6

\* What a step has to show that leaves the items and the history alone.
ControlStep(x, y) ==
  /\ cr' \in {cr, "executing", "paused", "completed", "failed"}
  /\ y.pc # "off" =>
       /\ y.flow = x.flow
       /\ y.flow /\ y.pc \in Early \cup {"failcr"} => x.pc \in Early
       /\ y.flow /\ y.pc \in {"failcr", "failrun"} =>
            x.pc \in Early \cup {"failcr"} /\ cr' \notin {"paused", "completed"}
       /\ ~y.flow => y.pc \in Early \ {"prepare"} /\ kind = "fanout"
       /\ ~overlap => cr' = StatusAt(y.pc)

PushStep(x, y) ==
  /\ ~(y.flow /\ y.pc = "load")
  /\ y.flow /\ y.pc = "prepare" =>
       /\ x.flow /\ x.pc \in {"load", "prepare"}
       /\ y.rec.upd = None /\ y.rec.phase = "prepare" /\ y.rec.done < Len(Preparation[kind])
       /\ kind = "k8s" => y.rec.items = {}
  /\ y.pc = "push" => /\ \A i \in y.todo : pushes[i] = 0
                      /\ ~y.flow => y.todo = {}

CertStep(x, y) ==
  kind = "certificate" =>
    /\ x.flow
    /\ ~misrouted /\ cr' \in {"paused", "completed"} => main'.res.items = Items
    /\ ~misrouted => main'.res.upd = None \/ main'.res.items = Items
    /\ y.flow => y.pc # "pause"
    /\ y.flow /\ y.pc = "prepare" /\ y.rec.done > 0 => y.rec.items = Items
    /\ y.flow /\ y.pc \in ExecPc \ {"off", "load", "prepare", "failcr", "failrun"} =>
         y.rec.items = Items /\ (~misrouted => main'.res.items = Items)

CompleteStep(y) ==
  /\ cr' = "completed" /\ ~misrouted /\ ~overlap => Unverified(Latest.res)' = {}
  /\ y.pc \in {"complete", "completerun"} =>
       Unverified(y.rec) = {} /\ (~overlap => Unverified(Latest.res)' = {})

LEMMA StillInv ==
  ASSUME IInv, NEW e \in Execs, NEW x, x = exec[e], NEW y \in ExecType, Moves(e, x, y),
         UNCHANGED <<applied, pushes, vouched, waived, unseen, misrouted>>,
         main' \in RunType, own' \in RunType,
         Honest(y.rec), main'.res = main.res \/ Honest(main.res)', own'.res = own.res \/ Honest(own.res)',
         ControlStep(x, y), PushStep(x, y), CertStep(x, y), CompleteStep(y),
         kind # "fanout" => own' = own /\ (y.pc = "off" \/ y.run = "main"),
         kind = "fanout" => (overlap => OwnStays) /\ FanoutRuns' /\ FanoutExec(y)'
  PROVE  IInv'
<1>1. Types /\ ControlOK /\ HonestOK /\ VouchOK /\ PushOK /\ MainOK /\ CertOK /\ FanoutOK /\ CompleteOK
  BY DEF IInv
<1>2. Types'
  <2>1. cr' \in CrType /\ applied \subseteq Items /\ pushes \in [Items -> Nat] /\ vouched \subseteq Items
        /\ unseen \in BOOLEAN /\ misrouted \in BOOLEAN
    BY <1>1 DEF ControlStep, CrType, Types, TypeOK
  <2> QED BY <1>1, <2>1, TypesFrame
<1>3. ControlOK'
  <2>1. misrouted' = misrouted
    OBVIOUS
  <2> QED BY <1>1, <2>1, ControlFrame DEF ControlStep
<1>4. HonestOK'
  <2>1. Honest(y.rec)'
    BY DEF Honest
  <2> QED BY <1>1, <2>1, HonestFrame
<1>5. VouchOK'
  BY <1>1, VouchFrame DEF Moves
<1>6. PushOK'
  BY <1>1, PushFrame DEF PushStep
<1>7. MainOK'
  BY <1>1, MainFrame
<1>8. CertOK'
  BY <1>1, CertFrame DEF CertStep
<1>9. FanoutOK'
  BY <1>1, FanoutFrame
<1>10. CompleteOK'
  BY <1>1, CompleteFrame DEF CompleteStep
<1> QED BY <1>2, <1>3, <1>4, <1>5, <1>6, <1>7, <1>8, <1>9, <1>10 DEF IInv

\* The same items were pushed; and the same is known of them.
SamePush(q, r) == q.upd = r.upd /\ q.items = r.items /\ (q.phase = r.phase \/ q.phase # "prepare")
Same(q, r)     == SamePush(q, r) /\ q.ver = r.ver

\* A fan-out that has pushed stores its result r, or leaves a run as it is.
LateWrite(r) ==
  /\ main' = main \/ (main'.res = r /\ main'.st \in {"running", "completed"})
  /\ own' = own \/ (own'.res = r /\ own'.st # "absent" /\ ~r.wrapped)

LEMMA LateStep ==
  ASSUME IInv, kind = "fanout", NEW e \in Execs, NEW x, x = exec[e], Late(x),
         NEW y \in ExecType, Moves(e, x, y), pushes' = pushes, NEW r \in ResultType,
         SamePush(r, x.rec), r.wrapped => Over',
         main' \in RunType, own' \in RunType, LateWrite(r),
         \/ y = NoExec
         \/ /\ y.flow = x.flow /\ y.run = x.run /\ SamePush(y.rec, x.rec) /\ ~y.rec.wrapped /\ Late(y)
            /\ ~(y.flow /\ y.pc = "verify"),
         y.pc \in {"complete", "completerun"} => Sole'
  PROVE  OwnStays /\ FanoutRuns' /\ FanoutExec(y)'
<1>1. x.pc # "off" /\ x \in ExecType /\ x.rec \in ResultType /\ main \in RunType /\ own \in RunType
      /\ FanoutRuns /\ FanoutExec(x) /\ ~main.res.wrapped
  BY ActiveFacts DEF Late, LatePc
<1>2. Like(x.rec) /\ (x.run = "main" => main.st \in {"running", "completed"} /\ ~x.flow)
  BY <1>1 DEF FanoutExec
<1>3. ReadyRun /\ Like(r)
  BY <1>2 DEF Like, SamePush
<1>4. own'.res.upd = own.res.upd /\ own'.res.items = own.res.items /\ own'.res.phase # "prepare"
      /\ own'.st # "absent" /\ ~own'.res.wrapped
  <2>1. CASE own' = own
    BY <1>1, <1>3, <2>1 DEF ReadyRun, FanoutRuns
  <2>2. CASE own'.res = r /\ own'.st # "absent" /\ ~r.wrapped
    BY <1>3, <2>2 DEF Like
  <2> QED BY <2>1, <2>2 DEF LateWrite
<1>5. ReadyRun'
  <2>1. Pending(own.res)' = Pending(own.res)
    BY <1>4 DEF Pending
  <2> QED BY <1>3, <1>4, <2>1 DEF ReadyRun
<1>6. /\ main'.st \in {"pending", "running", "completed", "failed"}
      /\ main.st \in {"running", "completed"} => main'.st \in {"running", "completed"}
      /\ main'.st \in {"pending", "failed"} => main'.res.upd = None
      /\ main'.res.wrapped => Over'
      /\ main'.st \in {"running", "completed"} => Like(main.res)'
  <2>1. CASE main' = main
    BY <1>1, <1>4, <1>5, <2>1 DEF FanoutRuns, Like
  <2>2. CASE main'.res = r /\ main'.st \in {"running", "completed"}
    BY <1>3, <1>4, <1>5, <2>2 DEF Like
  <2> QED BY <2>1, <2>2 DEF LateWrite
<1>7. OwnStays
  BY <1>4, <1>5, <1>6 DEF OwnStays
<1>8. FanoutRuns'
  BY <1>1, <1>4, <1>5, <1>6 DEF FanoutRuns
<1>9. FanoutExec(y)'
  <2>1. CASE y = NoExec
    BY <2>1, BlankFacts DEF FanoutExec, Late, LatePc
  <2>2. CASE /\ y.flow = x.flow /\ y.run = x.run /\ SamePush(y.rec, x.rec) /\ ~y.rec.wrapped /\ Late(y)
             /\ ~(y.flow /\ y.pc = "verify")
    <3>1. Like(y.rec)'
      BY <1>2, <1>4, <1>5, <2>2 DEF Like, SamePush
    <3>2. y.run = "main" => main'.st \in {"running", "completed"} /\ ~y.flow
      BY <1>2, <1>6, <2>2
    <3>3. ~(y.flow /\ y.pc \in {"prepare", "push", "verify"}) /\ y.pc \notin {"failcr", "failrun"} /\ y.pc \notin {"off", "load"}
      BY <2>2 DEF Late, LatePc
    <3> QED BY <1>5, <2>2, <3>1, <3>2, <3>3 DEF FanoutExec
  <2> QED BY <2>1, <2>2
<1> QED BY <1>7, <1>8, <1>9

-----------------------------------------------------------------------------
(***************************************************************************)
(* The steps of a coroutine.                                               *)
(***************************************************************************)
LEMMA LoadInv ==
  ASSUME IInv, NEW e \in Execs, Load(e)
  PROVE  IInv'
<1>1. PICK x : x = exec[e]
  OBVIOUS
<1>2. x.pc = "load" /\ (x.flow \/ kind = "fanout")
  BY <1>1 DEF Load
<1>3. /\ x \in ExecType /\ x.flow \in BOOLEAN
      /\ ~overlap => cr = StatusAt(x.pc)
      /\ kind # "fanout" => own = NoRun
      /\ kind = "fanout" => FanoutRuns /\ FanoutExec(x) /\ ~main.res.wrapped
      /\ kind \in {"certificate", "fanout", "k8s"} /\ cr \in CrType
      /\ main \in RunType /\ own \in RunType
  BY <1>1, <1>2, ActiveFacts
<1>4. Types /\ HonestOK /\ PushOK /\ CertOK /\ CompleteOK
  BY DEF IInv
<1>5. PICK r \in ResultType : r = IF Target = "own" THEN own.res ELSE main.res
  BY <1>3 DEF RunType
<1>6. PICK y : y = [x EXCEPT !.pc = [prepare |-> "prepare", update |-> "push", verify |-> "verify"][r.phase],
                            !.run = Target, !.rec = r, !.todo = Pending(r)]
  OBVIOUS
<1>7. /\ exec' = [exec EXCEPT ![e] = y]
      /\ UNCHANGED <<kind, up, crashes, undo, requests, overlap, cr, main, own, applied, pushes,
                     vouched, waived, unseen, misrouted>>
  BY <1>1, <1>5, <1>6 DEF Load, Run, env, rows, infra, history
<1>8. r.phase \in {"prepare", "update", "verify"} /\ r.items \subseteq Items /\ Honest(r)
  BY <1>4, <1>5 DEF ResultType, HonestOK
<1>9. Target \in {"own", "main"} /\ (kind # "fanout" => Target = "main")
  BY DEF Target
<1>10. /\ y \in ExecType /\ y.flow = x.flow /\ y.run = Target /\ y.rec = r /\ y.todo = Pending(r)
       /\ y.pc = (IF r.phase = "prepare" THEN "prepare" ELSE IF r.phase = "update" THEN "push" ELSE "verify")
  <2>1. Pending(r) \subseteq Items
    BY <1>8 DEF Pending
  <2>2. PICK pc \in {"prepare", "push", "verify"} :
          /\ pc = [prepare |-> "prepare", update |-> "push", verify |-> "verify"][r.phase]
          /\ pc = (IF r.phase = "prepare" THEN "prepare" ELSE IF r.phase = "update" THEN "push" ELSE "verify")
    BY <1>8
  <2>3. y = [x EXCEPT !.pc = pc, !.run = Target, !.rec = r, !.todo = Pending(r)]
    BY <1>6, <2>2
  <2> QED BY <1>3, <1>9, <2>1, <2>2, <2>3 DEF ExecType, ExecPc, Early
<1>11. Moves(e, x, y)
  BY <1>2, <1>7 DEF Moves
<1>12. ASSUME x.flow
       PROVE  /\ r = Blank /\ y.pc = "prepare" /\ (kind = "fanout" => y.run = "own") /\ main.st = "pending"
              /\ own.res.upd = None
  <2>1. main = [st |-> "pending", res |-> Blank] /\ own = NoRun
    BY <1>1, <1>2, <1>4, <1>12 DEF PushOK
  <2>2. main.st = "pending" /\ main.res = Blank /\ own.st = "absent" /\ own.res = Blank
    BY <2>1, BlankFacts
  <2>3. r = Blank /\ r.phase = "prepare"
    BY <1>5, <2>2, BlankFacts
  <2> QED BY <1>10, <2>2, <2>3, BlankFacts DEF Target
<1>13. ASSUME ~x.flow
       PROVE  Like(r) /\ y.pc \in {"push", "verify"} /\ y.todo = {} /\ ~r.wrapped
              /\ (Target = "main" => main.st \in {"running", "completed"})
  <2>1. ReadyRun /\ FanoutRuns /\ ~main.res.wrapped
    BY <1>2, <1>3, <1>13 DEF FanoutExec
  <2>2. Target = "main" => main.st = "running"
    BY <1>2, <1>13 DEF Target
  <2>3. Like(r) /\ ~r.wrapped
    BY <1>5, <1>9, <2>1, <2>2 DEF FanoutRuns, Like, ReadyRun
  <2>4. Pending(r) = {}
    BY <2>3 DEF Like, ReadyRun, Pending
  <2> QED BY <1>8, <1>10, <2>2, <2>3, <2>4 DEF Like
<1>14. ControlStep(x, y)
  <2>1. y.pc \in Early /\ x.pc \in Early /\ StatusAt(y.pc) = "executing" /\ StatusAt(x.pc) = "executing"
    BY <1>2, <1>8, <1>10 DEF Early, StatusAt
  <2>2. y.pc \notin {"failcr", "failrun"}
    BY <1>8, <1>10
  <2>3. ~y.flow => y.pc # "prepare" /\ kind = "fanout"
    BY <1>2, <1>3, <1>10, <1>13
  <2> QED BY <1>3, <1>7, <1>10, <2>1, <2>2, <2>3 DEF ControlStep
<1>15. PushStep(x, y)
  <2>1. CASE x.flow
    <3>1. y.rec.upd = None /\ y.rec.phase = "prepare" /\ y.rec.done = 0 /\ y.rec.items = {}
      BY <1>10, <1>12, <2>1, BlankFacts
    <3>2. 0 < Len(Preparation[kind])
      BY <1>4, PreparationFacts
    <3>3. y.rec.done < Len(Preparation[kind])
      BY <3>1, <3>2
    <3> QED BY <1>2, <1>12, <2>1, <3>1, <3>3 DEF PushStep
  <2>2. CASE ~x.flow
    BY <1>10, <1>13, <2>2 DEF PushStep
  <2> QED BY <2>1, <2>2
<1>16. CertStep(x, y)
  <2> SUFFICES ASSUME kind = "certificate"
               PROVE  CertStep(x, y)
    BY DEF CertStep
  <2>1. x.flow /\ y.pc = "prepare" /\ y.rec.done = 0
    BY <1>2, <1>10, <1>12, BlankFacts
  <2>2. /\ ~misrouted /\ cr' \in {"paused", "completed"} => main'.res.items = Items
        /\ ~misrouted => main'.res.upd = None \/ main'.res.items = Items
    BY <1>4, <1>7 DEF CertOK
  <2> QED BY <2>1, <2>2 DEF CertStep
<1>17. CompleteStep(y)
  <2>1. Unverified(Latest.res)' = Unverified(Latest.res)
    BY <1>7 DEF Unverified, Latest
  <2> QED BY <1>4, <1>7, <1>8, <1>10, <2>1 DEF CompleteOK, CompleteStep
<1>18. kind = "fanout" => (overlap => OwnStays) /\ FanoutRuns' /\ FanoutExec(y)'
  <2> SUFFICES ASSUME kind = "fanout"
               PROVE  OwnStays /\ FanoutRuns' /\ FanoutExec(y)'
    OBVIOUS
  <2>1. OwnStays /\ FanoutRuns'
    <3>1. (ReadyRun <=> ReadyRun') /\ (Like(main.res) <=> Like(main.res)')
      BY <1>7 DEF ReadyRun, Like, Pending
    <3> QED BY <1>3, <1>7, <3>1 DEF FanoutRuns, OwnStays
  <2>2. CASE x.flow
    <3>1. /\ y.flow /\ y.pc = "prepare" /\ y.run = "own" /\ main'.st = "pending" /\ own'.res.upd = None
          /\ ~y.rec.wrapped
      BY <1>7, <1>10, <1>12, <2>2, BlankFacts
    <3> QED BY <2>1, <3>1 DEF FanoutExec, Late, LatePc
  <2>3. CASE ~x.flow
    <3>1. /\ ~y.flow /\ y.pc \in {"push", "verify"} /\ y.rec = r /\ ~r.wrapped
          /\ y.run = "main" => main'.st \in {"running", "completed"}
      BY <1>7, <1>10, <1>13, <2>3
    <3>2. Like(r)' /\ ReadyRun'
      BY <1>7, <1>13, <2>3 DEF Like, ReadyRun, Pending
    <3> QED BY <2>1, <3>1, <3>2 DEF FanoutExec, Late, LatePc
  <2> QED BY <2>2, <2>3
<1> QED BY <1>1, <1>3, <1>7, <1>8, <1>9, <1>10, <1>11, <1>14, <1>15, <1>16, <1>17, <1>18, StillInv

\* A coroutine that has pushed goes on with the result it has.
LEMMA LateInv ==
  ASSUME IInv, NEW e \in Execs, NEW x, x = exec[e], x.pc \in LatePc, NEW y \in ExecType, Moves(e, x, y),
         UNCHANGED <<applied, pushes, vouched, waived, unseen, misrouted>>,
         NEW r \in ResultType, Same(r, x.rec), main' \in RunType, own' \in RunType,
         main' = main \/ (main'.res = r /\ (kind = "fanout" => main'.st \in {"running", "completed"})),
         own' = own \/ (kind = "fanout" /\ own'.res = r /\ own'.st # "absent" /\ ~r.wrapped),
         kind = "fanout" /\ r.wrapped => Over',
         \/ y = NoExec
         \/ /\ y.flow = x.flow /\ y.run = x.run /\ Same(y.rec, x.rec) /\ y.pc \in LatePc \ {"verify"}
            /\ kind = "fanout" => ~y.rec.wrapped
            /\ kind = "certificate" => y.pc # "pause",
         kind = "fanout" /\ y.pc \in {"complete", "completerun"} => Sole',
         ControlStep(x, y), CompleteStep(y)
  PROVE  IInv'
<1>1. /\ x \in ExecType /\ x.rec \in ResultType /\ x.flow \in BOOLEAN /\ Honest(x.rec) /\ x.pc # "off"
      /\ ~x.flow => x.pc \in Early \ {"prepare"} /\ (kind # "fanout" => x.pc = "load")
      /\ kind # "fanout" => x.run = "main" /\ own = NoRun
      /\ kind \in {"certificate", "fanout", "k8s"}
  BY ActiveFacts DEF LatePc
<1>2. kind # "fanout" => x.flow
  BY <1>1 DEF LatePc
<1>3. Honest(y.rec) /\ Honest(r)
  <2>1. Honest(r)
    BY <1>1 DEF Same, SamePush, Honest
  <2>2. CASE y = NoExec
    BY <2>1, <2>2, BlankFacts DEF Honest, None
  <2>3. CASE Same(y.rec, x.rec)
    BY <1>1, <2>1, <2>3 DEF Same, SamePush, Honest
  <2> QED BY <2>2, <2>3
<1>4. (main'.res = main.res \/ Honest(main.res)') /\ (own'.res = own.res \/ Honest(own.res)')
  BY <1>3 DEF Honest
<1>5. y.pc = "off" \/ y.pc \in LatePc
  BY BlankFacts
<1>6. PushStep(x, y)
  BY <1>5 DEF PushStep, LatePc
<1>7. CertStep(x, y)
  <2> SUFFICES ASSUME kind = "certificate"
               PROVE  CertStep(x, y)
    BY DEF CertStep
  <2>1. x.flow /\ x.pc \in ExecPc \ {"off", "load", "prepare", "failcr", "failrun"}
    BY <1>2 DEF LatePc, ExecPc, Early
  <2>2. x.rec.items = Items /\ (~misrouted => main.res.items = Items)
    BY <2>1 DEF IInv, CertOK
  <2>3. ~misrouted => main'.res.items = Items
    BY <2>2 DEF Same, SamePush
  <2>4. y.pc = "off" \/ (y.rec.items = Items /\ y.pc # "pause" /\ y.pc # "prepare")
    BY <2>2, BlankFacts DEF Same, SamePush, LatePc
  <2> QED BY <2>1, <2>3, <2>4 DEF CertStep
<1>8. kind # "fanout" => own' = own /\ (y.pc = "off" \/ y.run = "main")
  BY <1>1, BlankFacts
<1>9. kind = "fanout" => (overlap => OwnStays) /\ FanoutRuns' /\ FanoutExec(y)'
  <2> SUFFICES ASSUME kind = "fanout"
               PROVE  OwnStays /\ FanoutRuns' /\ FanoutExec(y)'
    OBVIOUS
  <2>1. LateWrite(r) /\ Late(x) /\ SamePush(r, x.rec)
    BY DEF LateWrite, Late, Same
  <2>2. \/ y = NoExec
        \/ /\ y.flow = x.flow /\ y.run = x.run /\ SamePush(y.rec, x.rec) /\ ~y.rec.wrapped /\ Late(y)
           /\ ~(y.flow /\ y.pc = "verify")
    BY DEF Late, Same
  <2>3. pushes' = pushes
    OBVIOUS
  <2> QED BY <2>1, <2>2, <2>3, LateStep
<1> QED BY <1>3, <1>4, <1>6, <1>7, <1>8, <1>9, StillInv

LEMMA PauseInv ==
  ASSUME IInv, NEW e \in Execs, Pause(e)
  PROVE  IInv'
<1>1. PICK x : x = exec[e]
  OBVIOUS
<1>2. x.pc = "pause" /\ cr' = "paused"
  BY <1>1 DEF Pause
<1>3. /\ x \in ExecType /\ x.rec \in ResultType /\ x.flow \in BOOLEAN
      /\ kind # "fanout" => x.flow
      /\ kind = "fanout" => FanoutRuns /\ FanoutExec(x) /\ ~main.res.wrapped
      /\ main \in RunType /\ own \in RunType
  BY <1>1, <1>2, ActiveFacts
<1>4. PICK y : y = IF x.flow THEN [x EXCEPT !.pc = "store"] ELSE NoExec
  OBVIOUS
<1>5. /\ exec' = [exec EXCEPT ![e] = y]
      /\ UNCHANGED <<kind, up, crashes, undo, requests, overlap, main, own, applied, pushes,
                     vouched, waived, unseen, misrouted>>
  BY <1>1, <1>4 DEF Pause, Run, env, infra, history
<1>6. y \in ExecType
  BY <1>3, <1>4, NoExecType DEF ExecType, ExecPc
<1>7. /\ x.flow => y.pc = "store" /\ y.flow = x.flow /\ y.run = x.run /\ y.rec = x.rec
      /\ ~x.flow => y = NoExec
  BY <1>3, <1>4 DEF ExecType
<1>8. Moves(e, x, y)
  BY <1>2, <1>5 DEF Moves
<1>9. kind # "certificate"
  BY <1>1, <1>2, <1>3 DEF IInv, CertOK
<1>10. ControlStep(x, y)
  BY <1>2, <1>3, <1>7, <1>9, BlankFacts DEF ControlStep, StatusAt, Early
<1>11. CompleteStep(y)
  BY <1>2, <1>7, <1>3, BlankFacts DEF CompleteStep
<1>12. Same(x.rec, x.rec) /\ (kind = "fanout" => ~x.rec.wrapped) /\ x.pc \in LatePc /\ "store" \in LatePc
  BY <1>2, <1>3 DEF Same, SamePush, FanoutExec, LatePc
<1>13. y.pc \notin {"complete", "completerun"} /\ y.pc # "pause"
  BY <1>3, <1>7, BlankFacts
<1> QED BY <1>1, <1>3, <1>5, <1>6, <1>7, <1>8, <1>10, <1>11, <1>12, <1>13, LateInv

LEMMA StoreInv ==
  ASSUME IInv, NEW e \in Execs, Store(e)
  PROVE  IInv'
<1>1. PICK x : x = exec[e]
  OBVIOUS
<1>2. x.pc = "store" /\ main' = [st |-> "running", res |-> x.rec]
  BY <1>1 DEF Store
<1>3. /\ x \in ExecType /\ x.rec \in ResultType /\ x.flow \in BOOLEAN /\ x.flow
      /\ ~overlap => cr = StatusAt(x.pc)
      /\ kind = "fanout" => FanoutExec(x)
      /\ kind \in {"certificate", "fanout", "k8s"} /\ main \in RunType /\ own \in RunType
  BY <1>1, <1>2, ActiveFacts DEF Early
<1>4. PICK y : y = [x EXCEPT !.pc = "storepaused"]
  OBVIOUS
<1>5. /\ exec' = [exec EXCEPT ![e] = y]
      /\ UNCHANGED <<kind, up, crashes, undo, requests, overlap, cr, own, applied, pushes,
                     vouched, waived, unseen, misrouted>>
  BY <1>1, <1>4 DEF Store, Run, env, infra, history
<1>6. y \in ExecType /\ y.pc = "storepaused" /\ y.flow = x.flow /\ y.run = x.run /\ y.rec = x.rec
  BY <1>3, <1>4 DEF ExecType, ExecPc
<1>7. main' \in RunType /\ main'.res = x.rec /\ main'.st = "running"
  BY <1>2, <1>3 DEF RunType
<1>8. Moves(e, x, y)
  BY <1>2, <1>5 DEF Moves
<1>9. ControlStep(x, y)
  BY <1>2, <1>3, <1>5, <1>6 DEF ControlStep, StatusAt, Early
<1>10. CompleteStep(y)
  BY <1>2, <1>3, <1>5, <1>6 DEF CompleteStep, StatusAt, Early
<1>11. Same(x.rec, x.rec) /\ (kind = "fanout" => ~x.rec.wrapped) /\ x.pc \in LatePc /\ y.pc \in LatePc
  BY <1>2, <1>3, <1>6 DEF Same, SamePush, FanoutExec, LatePc
<1>12. y.pc \notin {"complete", "completerun"} /\ y.pc # "pause"
  BY <1>6
<1> QED BY <1>1, <1>3, <1>5, <1>6, <1>7, <1>8, <1>9, <1>10, <1>11, <1>12, LateInv

LEMMA StorePausedInv ==
  ASSUME IInv, NEW e \in Execs, StorePaused(e)
  PROVE  IInv'
<1>1. PICK x : x = exec[e]
  OBVIOUS
<1>2. x.pc = "storepaused" /\ cr' = "paused"
  BY <1>1 DEF StorePaused
<1>3. /\ x \in ExecType /\ x.rec \in ResultType
      /\ kind = "fanout" => FanoutExec(x)
      /\ main \in RunType /\ own \in RunType
  BY <1>1, <1>2, ActiveFacts
<1>4. /\ exec' = [exec EXCEPT ![e] = NoExec]
      /\ UNCHANGED <<kind, up, crashes, undo, requests, overlap, main, own, applied, pushes,
                     vouched, waived, unseen, misrouted>>
  BY DEF StorePaused, Run, env, infra, history
<1>5. NoExec \in ExecType /\ NoExec.pc = "off"
  BY NoExecType, BlankFacts
<1>6. Moves(e, x, NoExec)
  BY <1>2, <1>4 DEF Moves
<1>7. ControlStep(x, NoExec) /\ CompleteStep(NoExec)
  BY <1>2, <1>5 DEF ControlStep, CompleteStep
<1>8. Same(x.rec, x.rec) /\ (kind = "fanout" => ~x.rec.wrapped) /\ x.pc \in LatePc
  BY <1>2, <1>3 DEF Same, SamePush, FanoutExec, LatePc
<1> QED BY <1>1, <1>3, <1>4, <1>5, <1>6, <1>7, <1>8, LateInv

LEMMA StoreCompletedInv ==
  ASSUME IInv, NEW e \in Execs, StoreCompleted(e)
  PROVE  IInv'
<1>1. PICK x : x = exec[e]
  OBVIOUS
<1>2. x.pc = "complete" /\ cr' = "completed"
  BY <1>1 DEF StoreCompleted
<1>3. /\ x \in ExecType /\ x.rec \in ResultType /\ x.flow \in BOOLEAN /\ x.flow
      /\ kind = "fanout" => FanoutExec(x)
      /\ main \in RunType /\ own \in RunType
  BY <1>1, <1>2, ActiveFacts DEF Early
<1>4. PICK y : y = [x EXCEPT !.pc = "completerun"]
  OBVIOUS
<1>5. /\ exec' = [exec EXCEPT ![e] = y]
      /\ UNCHANGED <<kind, up, crashes, undo, requests, overlap, main, own, applied, pushes,
                     vouched, waived, unseen, misrouted>>
  BY <1>1, <1>4 DEF StoreCompleted, Run, env, infra, history
<1>6. y \in ExecType /\ y.pc = "completerun" /\ y.flow = x.flow /\ y.run = x.run /\ y.rec = x.rec
  BY <1>3, <1>4 DEF ExecType, ExecPc
<1>7. Moves(e, x, y)
  BY <1>2, <1>5 DEF Moves
<1>8. ControlStep(x, y)
  BY <1>2, <1>3, <1>6 DEF ControlStep, StatusAt, Early
<1>9. CompleteStep(y)
  <2>1. Unverified(x.rec) = {} /\ (~overlap => Unverified(Latest.res) = {})
    BY <1>1, <1>2 DEF IInv, CompleteOK
  <2>2. Unverified(Latest.res)' = Unverified(Latest.res)
    BY <1>5 DEF Unverified, Latest
  <2> QED BY <1>6, <2>1, <2>2 DEF CompleteStep
<1>10. kind = "fanout" => Sole'
  <2> SUFFICES ASSUME kind = "fanout"
               PROVE  Sole'
    OBVIOUS
  <2>1. Sole
    BY <1>2, <1>3 DEF FanoutExec
  <2>2. exec'[e] = y /\ \A f \in Execs : f # e => exec'[f] = exec[f]
    BY <1>5, <1>6, MoveFacts DEF IInv
  <2> QED BY <1>2, <1>3, <1>5, <1>6, <2>1, <2>2 DEF Sole
<1>11. Same(x.rec, x.rec) /\ (kind = "fanout" => ~x.rec.wrapped) /\ x.pc \in LatePc /\ y.pc \in LatePc
       /\ y.pc # "pause"
  BY <1>2, <1>3, <1>6 DEF Same, SamePush, FanoutExec, LatePc
<1> QED BY <1>1, <1>3, <1>5, <1>6, <1>7, <1>8, <1>9, <1>10, <1>11, LateInv

LEMMA StoreCompletedRunInv ==
  ASSUME IInv, NEW e \in Execs, StoreCompletedRun(e)
  PROVE  IInv'
<1>1. PICK x : x = exec[e]
  OBVIOUS
<1>2. x.pc = "completerun"
  BY <1>1 DEF StoreCompletedRun
<1>3. /\ x \in ExecType /\ x.rec \in ResultType /\ x.flow \in BOOLEAN /\ x.flow
      /\ kind = "fanout" => FanoutRuns /\ FanoutExec(x)
      /\ kind # "fanout" => own = NoRun
      /\ main \in RunType /\ own \in RunType
  BY <1>1, <1>2, ActiveFacts DEF Early
<1>4. PICK r : r = [x.rec EXCEPT !.wrapped = TRUE]
  OBVIOUS
<1>5. /\ exec' = [exec EXCEPT ![e] = NoExec] /\ main' = [st |-> "completed", res |-> r]
      /\ UNCHANGED <<kind, up, crashes, undo, requests, overlap, cr, own, applied, pushes,
                     vouched, waived, unseen, misrouted>>
  BY <1>1, <1>4 DEF StoreCompletedRun, Run, env, infra, history
<1>6. r \in ResultType /\ Same(r, x.rec)
  BY <1>3, <1>4 DEF ResultType, Same, SamePush
<1>7. main' \in RunType /\ main'.res = r /\ main'.st = "completed"
  BY <1>5, <1>6 DEF RunType
<1>8. NoExec \in ExecType /\ NoExec.pc = "off"
  BY NoExecType, BlankFacts
<1>9. Moves(e, x, NoExec)
  BY <1>2, <1>5 DEF Moves
<1>10. ControlStep(x, NoExec)
  BY <1>5, <1>8 DEF ControlStep
<1>11. CompleteStep(NoExec)
  <2>1. Unverified(x.rec) = {} /\ (~overlap => Unverified(Latest.res) = {})
    BY <1>1, <1>2 DEF IInv, CompleteOK
  <2>2. CASE kind = "fanout"
    <3>1. own.st # "absent"
      BY <1>2, <1>3, <2>2 DEF FanoutExec, Sole
    <3>2. Unverified(Latest.res)' = Unverified(Latest.res)
      BY <1>5, <3>1 DEF Unverified, Latest
    <3> QED BY <1>8, <2>1, <3>2 DEF CompleteStep
  <2>3. CASE kind # "fanout"
    <3>1. own'.st = "absent"
      BY <1>3, <1>5, <2>3, BlankFacts
    <3>2. Latest'.res = r
      BY <1>7, <3>1 DEF Latest
    <3>3. Unverified(Latest.res)' = {}
      BY <1>6, <2>1, <3>2 DEF Unverified, Same, SamePush
    <3> QED BY <1>8, <3>3 DEF CompleteStep
  <2> QED BY <2>2, <2>3
<1>12. kind = "fanout" => Over'
  <2> SUFFICES ASSUME kind = "fanout"
               PROVE  Over'
    OBVIOUS
  <2>1. Sole
    BY <1>2, <1>3 DEF FanoutExec
  <2>2. exec'[e] = NoExec /\ \A f \in Execs : f # e => exec'[f] = exec[f]
    BY <1>5, <1>8, MoveFacts DEF IInv
  <2>3. \A f \in Execs : exec[f].pc # "off" /\ exec[f].flow => f = FirstExec
    BY DEF IInv, ControlOK, FlowOK
  <2>4. e = FirstExec
    BY <1>1, <1>2, <1>3, <2>3
  <2> QED BY <1>5, <1>8, <2>1, <2>2, <2>3, <2>4 DEF Sole, Over
<1>13. x.pc \in LatePc /\ NoExec.pc \notin {"complete", "completerun"}
  BY <1>2, <1>8 DEF LatePc
<1> QED BY <1>1, <1>3, <1>5, <1>6, <1>7, <1>8, <1>9, <1>10, <1>11, <1>12, <1>13, LateInv

LEMMA VerifyFailedInv ==
  ASSUME IInv, NEW e \in Execs, VerifyFailed(e)
  PROVE  IInv'
<1>1. PICK x : x = exec[e]
  OBVIOUS
<1>2. x.pc = "verified"
  BY <1>1 DEF VerifyFailed
<1>3. /\ x \in ExecType /\ x.rec \in ResultType /\ x.flow \in BOOLEAN /\ x.run \in {"main", "own"}
      /\ ~overlap => cr = StatusAt(x.pc)
      /\ kind # "fanout" => x.flow /\ x.run = "main" /\ own = NoRun
      /\ kind = "fanout" => FanoutRuns /\ FanoutExec(x)
      /\ kind \in {"certificate", "fanout", "k8s"} /\ main \in RunType /\ own \in RunType
  BY <1>1, <1>2, ActiveFacts
<1>4. PICK r : r = [x.rec EXCEPT !.paused = TRUE]
  OBVIOUS
<1>5. PICK s : s = IF kind = "certificate" THEN x.rec ELSE r
  OBVIOUS
<1>6. PICK y : y = [x EXCEPT !.rec = r, !.pc = IF kind = "certificate" THEN "store" ELSE "pause"]
  OBVIOUS
<1>7. /\ exec' = [exec EXCEPT ![e] = y] /\ Persist(x.run, s)
      /\ UNCHANGED <<kind, up, crashes, undo, requests, overlap, cr, applied, pushes,
                     vouched, waived, unseen, misrouted>>
  BY <1>1, <1>4, <1>5, <1>6 DEF VerifyFailed, Run, env, infra, history
<1>8. /\ r \in ResultType /\ Same(r, x.rec) /\ r.wrapped = x.rec.wrapped
      /\ s \in ResultType /\ Same(s, x.rec) /\ s.wrapped = x.rec.wrapped
  BY <1>3, <1>4, <1>5 DEF ResultType, Same, SamePush
<1>9. /\ y \in ExecType /\ y.flow = x.flow /\ y.run = x.run /\ y.rec = r
      /\ y.pc = (IF kind = "certificate" THEN "store" ELSE "pause")
  BY <1>3, <1>6, <1>8 DEF ExecType, ExecPc, Early
<1>10. Keeps(x.run, s)
  BY <1>3, <1>7, PersistKeeps
<1>11. /\ main' \in RunType /\ own' \in RunType
       /\ x.run = "main" => own' = own /\ main'.res = s /\ main'.st = main.st
       /\ x.run = "own" => main' = main /\ own'.res = s /\ own'.st # "absent"
  BY <1>3, <1>8, <1>10, KeepsFacts DEF IInv
<1>12. Moves(e, x, y)
  BY <1>2, <1>7 DEF Moves
<1>13. ControlStep(x, y)
  BY <1>2, <1>3, <1>7, <1>9 DEF ControlStep, StatusAt, Early
<1>14. CompleteStep(y)
  BY <1>2, <1>3, <1>7, <1>9 DEF CompleteStep, StatusAt, Early
<1>15. x.pc \in LatePc /\ y.pc \in LatePc /\ y.pc \notin {"complete", "completerun"}
       /\ (kind = "certificate" => y.pc # "pause")
  BY <1>2, <1>9 DEF LatePc
<1>16. kind = "fanout" => ~x.rec.wrapped /\ (x.run = "main" => main.st \in {"running", "completed"})
  BY <1>3, <1>15 DEF FanoutExec, FanoutRuns, Late
<1> QED BY <1>1, <1>3, <1>7, <1>8, <1>9, <1>11, <1>12, <1>13, <1>14, <1>15, <1>16, LateInv

LEMMA VerifiedInv ==
  ASSUME IInv, NEW e \in Execs, Verified(e)
  PROVE  IInv'
<1>1. PICK x : x = exec[e]
  OBVIOUS
<1>2. x.pc = "verified" /\ Unverified(x.rec) = {} /\ x.pc \in LatePc
  BY <1>1 DEF Verified, LatePc
<1>3. /\ x \in ExecType /\ x.rec \in ResultType /\ x.flow \in BOOLEAN /\ x.run \in {"main", "own"}
      /\ ~overlap => cr = StatusAt(x.pc)
      /\ x.flow => ~overlap
      /\ kind # "fanout" => x.flow /\ x.run = "main" /\ own = NoRun
      /\ kind = "fanout" => FanoutRuns /\ FanoutExec(x)
      /\ kind \in {"certificate", "fanout", "k8s"} /\ main \in RunType /\ own \in RunType
  BY <1>1, <1>2, ActiveFacts DEF Early
<1>4. PICK y : y = IF x.flow THEN [x EXCEPT !.pc = "complete"] ELSE NoExec
  OBVIOUS
<1>5. /\ exec' = [exec EXCEPT ![e] = y]
      /\ UNCHANGED <<kind, up, crashes, undo, requests, overlap, applied, pushes,
                     vouched, waived, unseen, misrouted>>
  BY <1>1, <1>4 DEF Verified, Run, env, infra, history
<1>6. y \in ExecType
  BY <1>3, <1>4, NoExecType DEF ExecType, ExecPc
<1>7. /\ x.flow => y.pc = "complete" /\ y.flow = x.flow /\ y.run = x.run /\ y.rec = x.rec
      /\ ~x.flow => y = NoExec
  BY <1>3, <1>4 DEF ExecType
<1>8. Moves(e, x, y)
  BY <1>2, <1>5 DEF Moves
<1>9. Same(x.rec, x.rec) /\ "complete" \in LatePc /\ Late(x)
  BY <1>2 DEF Same, SamePush, LatePc, Late
<1>10. kind = "fanout" => /\ ~x.rec.wrapped
                          /\ x.run = "main" => main.st \in {"running", "completed"} /\ ~x.flow
  BY <1>3, <1>9 DEF FanoutExec
<1>11. /\ main' \in RunType /\ own' \in RunType
       /\ kind # "fanout" => own' = own /\ main'.res = x.rec
       /\ kind = "fanout" /\ x.run = "main" => own' = own /\ main'.res = x.rec /\ main'.st = "completed"
       /\ kind = "fanout" /\ x.run = "own" => main' = main /\ own'.res = x.rec /\ own'.st = "completed"
       /\ cr' = IF kind = "certificate" THEN "completed" ELSE cr
  <2>1. CASE kind = "certificate"
    <3>1. main' = [st |-> "completed", res |-> x.rec] /\ own' = own /\ cr' = "completed"
      BY <1>1, <2>1 DEF Verified
    <3> QED BY <1>3, <2>1, <3>1 DEF RunType
  <2>2. CASE kind = "fanout"
    <3>1. Write(x.run, "completed", x.rec) /\ cr' = cr
      BY <1>1, <2>2 DEF Verified
    <3>2. CASE x.run = "own"
      <4>1. own' = [st |-> "completed", res |-> x.rec] /\ main' = main
        BY <3>1, <3>2 DEF Write
      <4> QED BY <1>3, <2>2, <3>1, <3>2, <4>1 DEF RunType
    <3>3. CASE x.run = "main"
      <4>1. main' = [st |-> "completed", res |-> x.rec] /\ own' = own
        BY <3>1, <3>3 DEF Write
      <4> QED BY <1>3, <2>2, <3>1, <3>3, <4>1 DEF RunType
    <3> QED BY <1>3, <3>2, <3>3
  <2>3. CASE kind = "k8s"
    <3>1. Persist(x.run, x.rec) /\ cr' = cr
      BY <1>1, <2>3 DEF Verified
    <3>2. Keeps(x.run, x.rec)
      BY <1>3, <3>1, PersistKeeps
    <3> QED BY <1>3, <2>3, <3>1, <3>2, KeepsFacts DEF IInv
  <2> QED BY <1>3, <2>1, <2>2, <2>3
<1>12. ControlStep(x, y)
  BY <1>2, <1>3, <1>7, <1>11, BlankFacts DEF ControlStep, StatusAt, Early
<1>13. CompleteStep(y)
  <2>1. kind # "fanout" => own'.st = "absent"
    BY <1>3, <1>11, BlankFacts
  <2>2. x.flow => Latest'.res = x.rec
    BY <1>3, <1>10, <1>11, <2>1 DEF Latest
  <2>3. x.flow => Unverified(Latest.res)' = {}
    BY <1>2, <2>2 DEF Unverified
  <2>4. cr' = "completed" /\ ~overlap => x.flow
    BY <1>2, <1>3, <1>11 DEF StatusAt, Early
  <2> QED BY <1>2, <1>3, <1>7, <2>3, <2>4, BlankFacts DEF CompleteStep
<1>14. kind = "fanout" /\ y.pc \in {"complete", "completerun"} => Sole'
  <2> SUFFICES ASSUME kind = "fanout", y.pc \in {"complete", "completerun"}
               PROVE  Sole'
    OBVIOUS
  <2>1. x.flow /\ ~overlap
    BY <1>3, <1>7, BlankFacts
  <2>2. own'.st = "completed" /\ cr' # "paused"
    BY <1>2, <1>3, <1>10, <1>11, <2>1 DEF StatusAt, Early
  <2>3. exec'[e] = y /\ \A f \in Execs : f # e => exec'[f] = exec[f]
    BY <1>5, <1>6, MoveFacts DEF IInv
  <2>4. \A f \in Execs : f # e => exec[f].pc = "off"
    BY <1>1, <1>2, <2>1 DEF IInv, ControlOK, Alone
  <2> QED BY <1>7, <2>1, <2>2, <2>3, <2>4 DEF Sole
<1>15. kind = "fanout" /\ x.run = "own" => main' = main
  BY <1>11
<1>16. main' = main \/ (main'.res = x.rec /\ (kind = "fanout" => main'.st \in {"running", "completed"}))
  BY <1>3, <1>11
<1>17. own' = own \/ (kind = "fanout" /\ own'.res = x.rec /\ own'.st # "absent" /\ ~x.rec.wrapped)
  BY <1>3, <1>10, <1>11
<1>18. \/ y = NoExec
       \/ /\ y.flow = x.flow /\ y.run = x.run /\ Same(y.rec, x.rec) /\ y.pc \in LatePc \ {"verify"}
          /\ kind = "fanout" => ~y.rec.wrapped
          /\ kind = "certificate" => y.pc # "pause"
  BY <1>3, <1>7, <1>9, <1>10
<1> QED BY <1>1, <1>2, <1>3, <1>5, <1>6, <1>8, <1>9, <1>10, <1>11, <1>12, <1>13, <1>14, <1>16, <1>17,
           <1>18, LateInv

LEMMA VerifyInv ==
  ASSUME IInv, NEW e \in Execs, Verify(e)
  PROVE  IInv'
<1>1. PICK x : x = exec[e]
  OBVIOUS
<1>2. x.pc = "verify" /\ x.pc \in LatePc
  BY <1>1 DEF Verify, LatePc
<1>3. /\ x \in ExecType /\ x.rec \in ResultType /\ x.flow \in BOOLEAN /\ x.run \in {"main", "own"}
      /\ Honest(x.rec)
      /\ ~overlap => cr = StatusAt(x.pc)
      /\ kind # "fanout" => x.flow /\ x.run = "main" /\ own = NoRun
      /\ kind = "fanout" => FanoutRuns /\ FanoutExec(x) /\ ~main.res.wrapped
      /\ kind \in {"certificate", "fanout", "k8s"} /\ cr \in CrType /\ main \in RunType /\ own \in RunType
  BY <1>1, <1>2, ActiveFacts DEF Early
<1>4. Types /\ ControlOK /\ HonestOK /\ VouchOK /\ PushOK /\ MainOK /\ CertOK /\ FanoutOK /\ CompleteOK
  BY DEF IInv
<1>5. PICK open : open = {i \in x.rec.items : x.rec.ver[i] = "none"}
  OBVIOUS
<1>6. PICK v \in [open -> {"ok", "bad"}], blind \in BOOLEAN :
        /\ \A i \in open : IF blind THEN v[i] = "ok" ELSE v[i] \in Verdict(x.rec, i)
        /\ Run(e, [x EXCEPT !.rec.ver = [i \in Items |-> IF i \in open THEN v[i] ELSE x.rec.ver[i]],
                            !.pc = "verified"])
        /\ vouched' = vouched \cup {i \in open : v[i] = "ok"}
        /\ unseen' = (unseen \/ blind)
  <2>1. PICK v \in [open -> {"ok", "bad"}], blind \in (IF kind = "fanout" THEN BOOLEAN ELSE {FALSE}) :
          /\ \A i \in open : IF blind THEN v[i] = "ok" ELSE v[i] \in Verdict(x.rec, i)
          /\ Run(e, [x EXCEPT !.rec.ver = [i \in Items |-> IF i \in open THEN v[i] ELSE x.rec.ver[i]],
                              !.pc = "verified"])
          /\ vouched' = vouched \cup {i \in open : v[i] = "ok"}
          /\ unseen' = (unseen \/ blind)
    <3>1. open = {i \in exec[e].rec.items : exec[e].rec.ver[i] = "none"}
      BY <1>1, <1>5
    <3>2. \E v \in [open -> {"ok", "bad"}], blind \in (IF kind = "fanout" THEN BOOLEAN ELSE {FALSE}) :
            /\ \A i \in open : IF blind THEN v[i] = "ok" ELSE v[i] \in Verdict(exec[e].rec, i)
            /\ Run(e, [exec[e] EXCEPT !.rec.ver = [i \in Items |-> IF i \in open THEN v[i] ELSE @[i]],
                                      !.pc = "verified"])
            /\ vouched' = vouched \cup {i \in open : v[i] = "ok"}
            /\ unseen' = (unseen \/ blind)
      BY <3>1, Zenon DEF Verify
    <3> QED BY <1>1, <3>2
  <2>2. blind \in BOOLEAN
    OBVIOUS
  <2> QED BY <2>1, <2>2, Zenon
<1>7. PICK w : w = [i \in Items |-> IF i \in open THEN v[i] ELSE x.rec.ver[i]]
  OBVIOUS
<1>8. PICK r : r = [x.rec EXCEPT !.ver = w]
  OBVIOUS
<1>9. PICK y : y = [x EXCEPT !.rec = r, !.pc = "verified"]
  OBVIOUS
<1>10. /\ exec' = [exec EXCEPT ![e] = y]
       /\ UNCHANGED <<kind, up, crashes, undo, requests, overlap, cr, main, own, applied, pushes,
                      waived, misrouted>>
  <2>1. y = [x EXCEPT !.rec.ver = [i \in Items |-> IF i \in open THEN v[i] ELSE x.rec.ver[i]], !.pc = "verified"]
    BY <1>3, <1>7, <1>8, <1>9 DEF ExecType
  <2> QED BY <1>1, <1>6, <2>1 DEF Verify, Run, env, rows, infra
<1>11. open \subseteq Items /\ w \in [Items -> {"none", "ok", "bad", "skipped"}]
  BY <1>3, <1>5, <1>6, <1>7 DEF ResultType
<1>12. r \in ResultType /\ SamePush(r, x.rec) /\ r.ver = w /\ r.wrapped = x.rec.wrapped
  BY <1>3, <1>8, <1>11 DEF ResultType, SamePush
<1>13. y \in ExecType /\ y.pc = "verified" /\ y.flow = x.flow /\ y.run = x.run /\ y.rec = r
  BY <1>3, <1>9, <1>12 DEF ExecType, ExecPc, Early
<1>14. Moves(e, x, y)
  BY <1>2, <1>10 DEF Moves
<1>15. vouched \subseteq vouched' /\ vouched' \subseteq Items /\ unseen' \in BOOLEAN /\ (unseen => unseen')
  BY <1>4, <1>6, <1>11 DEF Types, TypeOK
<1>16. Types'
  BY <1>3, <1>4, <1>10, <1>13, <1>14, <1>15, TypesFrame DEF Types, TypeOK
<1>17. ControlOK'
  BY <1>1, <1>2, <1>3, <1>4, <1>10, <1>13, <1>14, ControlFrame DEF Early, StatusAt
<1>18. HonestOK'
  <2>1. Honest(r)'
    <3> SUFFICES ASSUME NEW i \in Items, r.ver[i] \in {"ok", "skipped"}
                 PROVE  i \in vouched'
      BY DEF Honest
    <3>1. CASE i \in open
      BY <1>6, <1>7, <1>12, <3>1
    <3>2. CASE i \notin open
      <4>1. x.rec.ver[i] \in {"ok", "skipped"}
        BY <1>7, <1>12, <3>2
      <4> QED BY <1>3, <1>15, <4>1 DEF Honest
    <3> QED BY <3>1, <3>2
  <2> QED BY <1>4, <1>10, <1>13, <1>14, <1>15, <2>1, HonestFrame
<1>19. VouchOK'
  <2> SUFFICES ASSUME ~undo.ran, NEW i \in vouched' \ waived
               PROVE  i \in applied \/ unseen'
    BY <1>10 DEF VouchOK
  <2>1. CASE i \in vouched
    BY <1>4, <1>15, <2>1 DEF VouchOK
  <2>2. CASE i \in open /\ v[i] = "ok"
    BY <1>6, <2>2 DEF Verdict
  <2> QED BY <1>6, <2>1, <2>2
<1>20. PushOK'
  BY <1>1, <1>4, <1>10, <1>13, <1>14, PushFrame
<1>21. MainOK'
  BY <1>1, <1>3, <1>4, <1>10, <1>13, <1>14, MainFrame
<1>22. CertOK'
  <2>1. kind = "certificate" => /\ x.flow
                                /\ x.rec.items = Items /\ (~misrouted => main.res.items = Items)
                                /\ ~misrouted /\ cr \in {"paused", "completed"} => main.res.items = Items
    BY <1>1, <1>2, <1>3, <1>4 DEF CertOK, ExecPc, Early
  <2>2. r.items = x.rec.items
    BY <1>12 DEF SamePush
  <2> QED BY <1>1, <1>4, <1>10, <1>13, <1>14, <2>1, <2>2, CertFrame
<1>23. FanoutOK'
  <2>1. ASSUME kind = "fanout"
        PROVE  OwnStays /\ FanoutRuns' /\ FanoutExec(y)'
    <3>1. SamePush(x.rec, x.rec) /\ ~x.rec.wrapped /\ LateWrite(x.rec) /\ Late(x) /\ Late(y)
      BY <1>2, <1>3, <1>10, <1>13, <2>1 DEF SamePush, FanoutExec, LateWrite, Late, LatePc
    <3>2. SamePush(y.rec, x.rec) /\ ~y.rec.wrapped /\ y.pc \notin {"complete", "completerun"}
      BY <1>12, <1>13, <3>1
    <3> QED BY <1>1, <1>3, <1>10, <1>13, <1>14, <2>1, <3>1, <3>2, LateStep
  <2> QED BY <1>1, <1>4, <1>13, <1>14, <2>1, FanoutFrame
<1>24. CompleteOK'
  <2>1. ~(cr' = "completed" /\ ~overlap)
    BY <1>2, <1>3, <1>10 DEF StatusAt, Early
  <2> QED BY <1>1, <1>4, <1>13, <1>14, <2>1, CompleteFrame
<1> QED BY <1>16, <1>17, <1>18, <1>19, <1>20, <1>21, <1>22, <1>23, <1>24 DEF IInv

LEMMA PushInv ==
  ASSUME IInv, NEW e \in Execs, Push(e)
  PROVE  IInv'
<1>1. PICK x : x = exec[e]
  OBVIOUS
<1>2. x.pc = "push"
  BY <1>1 DEF Push
<1>3. /\ x \in ExecType /\ x.rec \in ResultType /\ x.todo \subseteq Items /\ x.flow \in BOOLEAN
      /\ Honest(x.rec)
      /\ ~overlap => cr = StatusAt(x.pc)
      /\ x.flow => ~overlap
      /\ kind # "fanout" => x.run = "main" /\ own = NoRun
      /\ kind = "fanout" => FanoutRuns /\ FanoutExec(x)
      /\ kind \in {"certificate", "fanout", "k8s"} /\ cr \in CrType /\ main \in RunType /\ own \in RunType
  BY <1>1, <1>2, ActiveFacts DEF Early
<1>4. Types /\ ControlOK /\ HonestOK /\ VouchOK /\ PushOK /\ MainOK /\ CertOK /\ FanoutOK /\ CompleteOK
  BY DEF IInv
<1>5. PICK i \in Items, u \in Reports :
        /\ IsFirst(i, x.todo)
        /\ Run(e, [x EXCEPT !.rec.upd[i] = u,
                            !.todo = IF kind = "k8s" /\ u # "ok" THEN {} ELSE @ \ {i}])
        /\ ReachOrMiss(i)
  BY <1>1 DEF Push
<1>6. PICK w : w = [x.rec.upd EXCEPT ![i] = u]
  OBVIOUS
<1>7. PICK r : r = [x.rec EXCEPT !.upd = w]
  OBVIOUS
<1>8. PICK t : t = IF kind = "k8s" /\ u # "ok" THEN {} ELSE x.todo \ {i}
  OBVIOUS
<1>9. PICK y : y = [x EXCEPT !.rec = r, !.todo = t]
  OBVIOUS
<1>10. /\ exec' = [exec EXCEPT ![e] = y]
       /\ UNCHANGED <<kind, up, crashes, undo, requests, overlap, cr, main, own,
                      vouched, waived, unseen, misrouted>>
  <2>1. y = [x EXCEPT !.rec.upd[i] = u, !.todo = IF kind = "k8s" /\ u # "ok" THEN {} ELSE @ \ {i}]
    BY <1>3, <1>6, <1>7, <1>8, <1>9 DEF ExecType, ResultType
  <2> QED BY <1>1, <1>5, <2>1 DEF Push, Run, env, rows, history
<1>11. i \in x.todo /\ u \in {"ok", "error", "failed"} /\ t \subseteq x.todo \ {i}
  BY <1>5, <1>8 DEF IsFirst, Reports
<1>12. w \in [Items -> {"none", "ok", "error", "failed", "skipped"}] /\ w[i] = u
       /\ \A j \in Items : j # i => w[j] = x.rec.upd[j]
  BY <1>3, <1>6, <1>11 DEF ResultType
<1>13. /\ r \in ResultType /\ r.upd = w /\ r.items = x.rec.items /\ r.ver = x.rec.ver
       /\ r.phase = x.rec.phase /\ r.wrapped = x.rec.wrapped
  BY <1>3, <1>7, <1>12 DEF ResultType
<1>14. y \in ExecType /\ y.pc = "push" /\ y.flow = x.flow /\ y.run = x.run /\ y.rec = r /\ y.todo = t
  BY <1>2, <1>3, <1>9, <1>11, <1>13 DEF ExecType
<1>15. Moves(e, x, y)
  BY <1>2, <1>10 DEF Moves
<1>16. x.flow /\ ~overlap /\ pushes[i] = 0 /\ \A j \in x.todo : pushes[j] = 0
  BY <1>1, <1>2, <1>3, <1>4, <1>11 DEF PushOK
<1>17. /\ applied \subseteq applied' /\ applied' \subseteq Items /\ pushes' \in [Items -> Nat]
       /\ \A j \in Items : j # i => pushes'[j] = pushes[j]
       /\ pushes'[i] <= 1
  <2>1. applied \subseteq Items /\ pushes \in [Items -> Nat]
    BY <1>4 DEF Types, TypeOK
  <2>2. CASE applied' = applied \cup {i} /\ pushes' = [pushes EXCEPT ![i] = @ + 1]
    BY <1>16, <2>1, <2>2
  <2>3. CASE UNCHANGED infra
    BY <1>16, <2>1, <2>3 DEF infra
  <2> QED BY <1>5, <2>2, <2>3 DEF ReachOrMiss
<1>18. Types'
  BY <1>3, <1>4, <1>10, <1>14, <1>15, <1>17, TypesFrame DEF Types, TypeOK
<1>19. ControlOK'
  BY <1>1, <1>2, <1>3, <1>4, <1>10, <1>14, <1>15, <1>16, ControlFrame DEF Early, StatusAt
<1>20. HonestOK'
  BY <1>3, <1>4, <1>10, <1>13, <1>14, <1>15, HonestFrame DEF Honest
<1>21. VouchOK'
  BY <1>4, <1>10, <1>17, VouchFrame
<1>22. PushOK'
  <2>1. PushedOnce'
    <3> SUFFICES ASSUME NEW j \in Items
                 PROVE  pushes'[j] <= 1
      BY DEF PushedOnce
    <3>1. pushes[j] <= 1
      BY <1>4 DEF PushOK, PushedOnce
    <3> QED BY <1>17, <3>1
  <2>2. exec'[e] = y /\ \A f \in Execs : f # e => exec'[f] = exec[f] /\ exec[f].pc = "off"
    BY <1>1, <1>2, <1>4, <1>10, <1>14, <1>16, MoveFacts DEF ControlOK, Alone
  <2>3. \A j \in t : pushes'[j] = 0
    BY <1>3, <1>11, <1>16, <1>17
  <2>4. ASSUME NEW f \in Execs
        PROVE  /\ ~(exec'[f].flow /\ exec'[f].pc \in {"load", "prepare"})
               /\ exec'[f].pc = "push" => \A j \in exec'[f].todo : pushes'[j] = 0
               /\ exec'[f].pc = "push" /\ ~exec'[f].flow => exec'[f].todo = {}
    BY <1>14, <1>16, <2>2, <2>3
  <2> QED BY <2>1, <2>4 DEF PushOK
<1>23. MainOK'
  BY <1>1, <1>3, <1>4, <1>10, <1>14, <1>15, MainFrame
<1>24. CertOK'
  <2>1. kind = "certificate" => /\ x.rec.items = Items /\ (~misrouted => main.res.items = Items)
                                /\ ~misrouted /\ cr \in {"paused", "completed"} => main.res.items = Items
    BY <1>1, <1>2, <1>4, <1>16 DEF CertOK, ExecPc, Early
  <2> QED BY <1>1, <1>4, <1>10, <1>13, <1>14, <1>15, <1>16, <2>1, CertFrame
<1>25. FanoutOK'
  <2>1. ASSUME kind = "fanout"
        PROVE  FanoutRuns' /\ FanoutExec(y)'
    <3>1. /\ main.st = "pending" /\ x.run = "own" /\ own.res.upd = None /\ ~x.rec.wrapped
          /\ own.st # "absent" /\ own.res.items = x.rec.items /\ x.todo \subseteq x.rec.items
          /\ Pending(x.rec) \subseteq x.todo /\ x.rec.phase # "prepare"
          /\ \A j \in Items : x.rec.upd[j] # "none" => j \in x.rec.items
      BY <1>2, <1>3, <1>16, <2>1 DEF FanoutExec
    <3>2. FanoutRuns'
      <4>1. (ReadyRun <=> ReadyRun') /\ (Like(main.res) <=> Like(main.res)') /\ ~main.res.wrapped
        BY <1>1, <1>2, <1>3, <1>10, <2>1 DEF ReadyRun, Like, Pending, FanoutRuns, Over
      <4>2. \A j \in Items : pushes'[j] > 0 => j \in own'.res.items
        BY <1>3, <1>10, <1>11, <1>17, <2>1, <3>1 DEF FanoutRuns
      <4> QED BY <1>3, <1>10, <2>1, <4>1, <4>2 DEF FanoutRuns
    <3>3. t = x.todo \ {i}
      BY <1>8, <2>1
    <3>4. Pending(r) \subseteq t
      <4> SUFFICES ASSUME NEW j \in r.items, r.upd[j] = "none"
                   PROVE  j \in t
        BY DEF Pending
      <4>1. j # i /\ j \in Items
        BY <1>3, <1>11, <1>12, <1>13 DEF ResultType
      <4>2. j \in Pending(x.rec)
        BY <1>12, <1>13, <4>1 DEF Pending
      <4> QED BY <3>1, <3>3, <4>1, <4>2
    <3>5. \A j \in Items : r.upd[j] # "none" => j \in r.items
      BY <1>11, <1>12, <1>13, <3>1
    <3>6. /\ y.flow /\ y.pc = "push" /\ ~y.rec.wrapped /\ main'.st = "pending" /\ y.run = "own"
          /\ own'.res.upd = None /\ own'.st # "absent" /\ own'.res.items = y.rec.items
          /\ y.todo \subseteq y.rec.items /\ y.rec.phase # "prepare"
      BY <1>10, <1>11, <1>13, <1>14, <1>16, <3>1
    <3> QED BY <1>14, <3>2, <3>4, <3>5, <3>6 DEF FanoutExec, Late, LatePc
  <2> QED BY <1>1, <1>4, <1>14, <1>15, <1>16, <2>1, FanoutFrame
<1>26. CompleteOK'
  <2>1. ~(cr' = "completed" /\ ~overlap)
    BY <1>2, <1>3, <1>10 DEF StatusAt, Early
  <2> QED BY <1>1, <1>4, <1>14, <1>15, <2>1, CompleteFrame
<1> QED BY <1>18, <1>19, <1>20, <1>21, <1>22, <1>23, <1>24, <1>25, <1>26 DEF IInv

LEMMA PushedInv ==
  ASSUME IInv, NEW e \in Execs, Pushed(e)
  PROVE  IInv'
<1>1. PICK x : x = exec[e]
  OBVIOUS
<1>2. x.pc = "push" /\ x.todo = {}
  BY <1>1 DEF Pushed
<1>3. /\ x \in ExecType /\ x.rec \in ResultType /\ x.flow \in BOOLEAN /\ x.run \in {"main", "own"}
      /\ Honest(x.rec)
      /\ ~overlap => cr = StatusAt(x.pc)
      /\ x.flow => ~overlap
      /\ kind # "fanout" => x.flow /\ x.run = "main" /\ own = NoRun
      /\ kind = "fanout" => FanoutRuns /\ FanoutExec(x) /\ ~main.res.wrapped
      /\ kind \in {"certificate", "fanout", "k8s"} /\ main \in RunType /\ own \in RunType
  BY <1>1, <1>2, ActiveFacts DEF Early
<1>4. PICK failed \in BOOLEAN : failed = UpdateFailed(x.rec)
  BY DEF UpdateFailed
<1>5. PICK r : r = [x.rec EXCEPT !.phase = IF failed THEN "update" ELSE "verify", !.paused = failed,
                                 !.items = IF kind = "k8s" THEN Items ELSE @]
  OBVIOUS
<1>6. PICK s : s = IF kind = "certificate" THEN [r EXCEPT !.paused = FALSE] ELSE r
  OBVIOUS
<1>7. /\ r \in ResultType /\ r.upd = x.rec.upd /\ r.ver = x.rec.ver /\ r.phase # "prepare"
      /\ r.wrapped = x.rec.wrapped /\ r.paused = failed /\ (kind # "k8s" => r.items = x.rec.items)
  BY <1>3, <1>4, <1>5 DEF ResultType
<1>8. s \in ResultType /\ s.ver = x.rec.ver /\ s.items = r.items /\ (kind # "certificate" => s = r)
  BY <1>6, <1>7 DEF ResultType
<1>9. PICK y : y = [x EXCEPT !.rec = r, !.pc = IF ~failed THEN "verify"
                                               ELSE IF kind = "certificate" THEN "store" ELSE "pause"]
  OBVIOUS
<1>10. /\ exec' = [exec EXCEPT ![e] = y] /\ Persist(x.run, s)
       /\ UNCHANGED <<kind, up, crashes, undo, requests, overlap, cr, applied, pushes,
                      vouched, waived, unseen, misrouted>>
  BY <1>1, <1>4, <1>5, <1>6, <1>7, <1>9 DEF Pushed, Run, env, infra, history
<1>11. /\ y \in ExecType /\ y.flow = x.flow /\ y.run = x.run /\ y.rec = r
       /\ y.pc \in {"verify", "store", "pause"}
       /\ y.pc = "store" => kind = "certificate"
       /\ y.pc = "pause" => kind # "certificate"
  BY <1>3, <1>7, <1>9 DEF ExecType, ExecPc, Early
<1>12. Keeps(x.run, s)
  BY <1>3, <1>10, PersistKeeps
<1>13. /\ main' \in RunType /\ own' \in RunType
       /\ x.run = "main" => own' = own /\ main'.res = s /\ main'.st = main.st
       /\ x.run = "own" => main' = main /\ own'.res = s /\ own'.st # "absent"
  BY <1>3, <1>8, <1>12, KeepsFacts DEF IInv
<1>14. Moves(e, x, y)
  BY <1>2, <1>10 DEF Moves
<1>15. ControlStep(x, y)
  BY <1>2, <1>3, <1>10, <1>11 DEF ControlStep, StatusAt, Early
<1>16. CompleteStep(y)
  BY <1>2, <1>3, <1>10, <1>11 DEF CompleteStep, StatusAt, Early
<1>17. PushStep(x, y)
  BY <1>11 DEF PushStep
<1>18. CertStep(x, y)
  <2> SUFFICES ASSUME kind = "certificate"
               PROVE  CertStep(x, y)
    BY DEF CertStep
  <2>1. x.rec.items = Items
    BY <1>1, <1>2, <1>3 DEF IInv, CertOK, ExecPc, Early
  <2> QED BY <1>3, <1>7, <1>8, <1>11, <1>13, <2>1 DEF CertStep
<1>19. kind = "fanout" => (overlap => OwnStays) /\ FanoutRuns' /\ FanoutExec(y)'
  <2> SUFFICES ASSUME kind = "fanout"
               PROVE  (overlap => OwnStays) /\ FanoutRuns' /\ FanoutExec(y)'
    OBVIOUS
  <2>0. ~x.rec.wrapped /\ s = r /\ SamePush(r, x.rec)
    BY <1>3, <1>7, <1>8 DEF FanoutExec, SamePush
  <2>1. CASE ~x.flow
    <3>1. Late(x) /\ Late(y) /\ (x.run = "main" => main.st \in {"running", "completed"})
      BY <1>2, <1>3, <1>11, <2>1 DEF Late, LatePc, FanoutExec, FanoutRuns
    <3>2. LateWrite(r)
      BY <1>3, <1>7, <1>13, <2>0, <3>1 DEF LateWrite
    <3>3. pushes' = pushes /\ ~r.wrapped /\ SamePush(y.rec, x.rec) /\ y.pc \notin {"complete", "completerun"}
          /\ ~(y.flow /\ y.pc = "verify")
      BY <1>7, <1>10, <1>11, <2>0, <2>1
    <3> QED BY <1>1, <1>7, <1>11, <1>13, <1>14, <2>0, <3>1, <3>2, <3>3, LateStep
  <2>2. CASE x.flow
    <3>1. /\ main.st = "pending" /\ x.run = "own" /\ own.res.items = x.rec.items
          /\ Pending(x.rec) = {}
          /\ \A j \in Items : x.rec.upd[j] # "none" => j \in x.rec.items
      BY <1>2, <1>3, <2>2 DEF FanoutExec
    <3>2. main' = main /\ own'.res = r /\ own'.st # "absent" /\ r.items = x.rec.items
      BY <1>7, <1>13, <2>0, <3>1
    <3>3. ReadyRun'
      <4>1. Pending(own.res)' = {}
        BY <1>7, <3>1, <3>2 DEF Pending
      <4> QED BY <1>7, <3>2, <4>1 DEF ReadyRun
    <3>4. FanoutRuns'
      BY <1>3, <1>7, <1>10, <2>0, <3>1, <3>2, <3>3 DEF FanoutRuns
    <3>5. Like(y.rec)'
      BY <1>7, <1>11, <3>2, <3>3 DEF Like
    <3>6. FanoutExec(y)'
      BY <1>7, <1>11, <2>0, <2>2, <3>1, <3>2, <3>5 DEF FanoutExec
    <3> QED BY <1>3, <2>2, <3>4, <3>6
  <2> QED BY <1>3, <2>1, <2>2
<1>20. Honest(y.rec) /\ (main'.res = main.res \/ Honest(main.res)') /\ (own'.res = own.res \/ Honest(own.res)')
  <2>1. Honest(r) /\ Honest(s)
    BY <1>3, <1>7, <1>8 DEF Honest
  <2> QED BY <1>3, <1>10, <1>11, <1>13, <2>1 DEF Honest
<1> QED BY <1>1, <1>3, <1>10, <1>11, <1>13, <1>14, <1>15, <1>16, <1>17, <1>18, <1>19, <1>20, StillInv

LEMMA PrepareInv ==
  ASSUME IInv, NEW e \in Execs, Prepare(e)
  PROVE  IInv'
<1>1. PICK x : x = exec[e]
  OBVIOUS
<1>2. x.pc = "prepare"
  BY <1>1 DEF Prepare
<1>3. /\ x \in ExecType /\ x.rec \in ResultType /\ x.flow \in BOOLEAN /\ x.run \in {"main", "own"}
      /\ Honest(x.rec) /\ x.flow /\ ~overlap
      /\ cr = StatusAt(x.pc)
      /\ kind # "fanout" => x.run = "main" /\ own = NoRun
      /\ kind = "fanout" => FanoutRuns /\ FanoutExec(x) /\ ~main.res.wrapped
      /\ kind \in {"certificate", "fanout", "k8s"} /\ main \in RunType /\ own \in RunType
  BY <1>1, <1>2, ActiveFacts DEF Early
<1>4. /\ Untouched /\ x.rec.upd = None /\ x.rec.done < Len(Preparation[kind])
      /\ kind = "k8s" => x.rec.items = {}
      /\ kind = "certificate" /\ x.rec.done > 0 => x.rec.items = Items
  BY <1>1, <1>2, <1>3 DEF IInv, PushOK, CertOK
<1>5. PICK n : n = Len(Preparation[kind])
  OBVIOUS
<1>6. PICK k : k = x.rec.done + 1
  OBVIOUS
<1>7. k \in 1..n /\ n \in {2, 3} /\ x.rec.done \in 0..3 /\ k \in 0..3
  <2>1. n \in {2, 3} /\ x.rec.done \in 0..3
    BY <1>3, <1>5, PreparationFacts DEF IInv, ResultType
  <2>2. PICK d \in 0..3 : d = x.rec.done /\ d < n /\ k = d + 1
    BY <1>4, <1>5, <1>6, <2>1
  <2>3. k \in 1..n /\ k \in 0..3
    BY <2>1, <2>2
  <2> QED BY <2>1, <2>3
<1>8. PICK found \in IF Preparation[kind][k] = "scan" THEN Found ELSE {x.rec.items} :
        LET r == [x.rec EXCEPT !.done = k, !.items = found,
                    !.phase = IF k = n THEN "update" ELSE "prepare"] IN
        /\ Persist(x.run, r)
        /\ Run(e, [x EXCEPT !.rec = r, !.pc = IF k = n THEN "push" ELSE "prepare",
                            !.todo = IF k < n THEN {} ELSE IF kind = "k8s" THEN Items ELSE Pending(r)])
  BY <1>1, <1>5, <1>6, ZenonT(30) DEF Prepare
<1>9. PICK r : r = [x.rec EXCEPT !.done = k, !.items = found, !.phase = IF k = n THEN "update" ELSE "prepare"]
  OBVIOUS
<1>10. PICK y : y = [x EXCEPT !.rec = r, !.pc = IF k = n THEN "push" ELSE "prepare",
                              !.todo = IF k < n THEN {} ELSE IF kind = "k8s" THEN Items ELSE Pending(r)]
  OBVIOUS
<1>11. /\ exec' = [exec EXCEPT ![e] = y] /\ Persist(x.run, r)
       /\ UNCHANGED <<kind, up, crashes, undo, requests, overlap, cr, applied, pushes,
                      vouched, waived, unseen, misrouted>>
  BY <1>8, <1>9, <1>10 DEF Prepare, Run, env, infra, history
<1>12. /\ found \subseteq Items
       /\ kind = "k8s" => found = {}
       /\ kind = "certificate" => found = Items
  <2>1. x.rec.items \subseteq Items
    BY <1>3 DEF ResultType
  <2>2. CASE kind = "k8s"
    <3>1. k \in {1, 2}
      BY <1>5, <1>7, <2>2, PreparationFacts DEF IInv
    <3>2. Preparation[kind][k] # "scan"
      BY <2>2, <3>1, PreparationFacts DEF IInv
    <3> QED BY <1>4, <1>8, <2>2, <3>2
  <2>3. CASE kind = "certificate"
    <3>1. CASE k = 1
      <4>1. Preparation[kind][k] = "scan"
        BY <2>3, <3>1, PreparationFacts DEF IInv
      <4> QED BY <1>8, <2>3, <4>1 DEF Found
    <3>2. CASE k # 1
      <4>1. Preparation[kind][k] # "scan" /\ x.rec.done > 0
        <5>1. k \in {2, 3}
          BY <1>7, <3>2
        <5>2. Preparation[kind][k] # "scan"
          BY <2>3, <5>1, PreparationFacts DEF IInv
        <5> QED BY <1>6, <1>7, <5>1, <5>2
      <4> QED BY <1>4, <1>8, <2>3, <4>1
    <3> QED BY <3>1, <3>2
  <2>4. CASE kind = "fanout"
    BY <1>8, <2>1, <2>4 DEF Found
  <2> QED BY <1>3, <2>2, <2>3, <2>4
<1>13. /\ r \in ResultType /\ r.upd = None /\ r.ver = x.rec.ver /\ r.done = k /\ r.items = found
       /\ r.wrapped = x.rec.wrapped /\ r.phase = (IF k = n THEN "update" ELSE "prepare")
  BY <1>3, <1>4, <1>7, <1>9, <1>12 DEF ResultType
<1>14. Pending(r) = r.items /\ r.items \subseteq Items
  BY <1>12, <1>13 DEF Pending, None
<1>15. /\ y \in ExecType /\ y.flow = x.flow /\ y.run = x.run /\ y.rec = r
       /\ y.pc = (IF k = n THEN "push" ELSE "prepare")
       /\ kind = "fanout" /\ k = n => y.todo = r.items
  <2>1. PICK t \in SUBSET Items : /\ t = IF k < n THEN {} ELSE IF kind = "k8s" THEN Items ELSE Pending(r)
                                  /\ kind = "fanout" /\ k = n => t = r.items
    <3>1. ~(n < n)
      BY <1>7
    <3> QED BY <1>14, <3>1, ZenonT(30)
  <2>2. PICK pc \in {"push", "prepare"} : pc = IF k = n THEN "push" ELSE "prepare"
    OBVIOUS
  <2>3. y = [x EXCEPT !.rec = r, !.pc = pc, !.todo = t]
    BY <1>10, <2>1, <2>2
  <2> QED BY <1>3, <1>13, <2>1, <2>2, <2>3 DEF ExecType, ExecPc, Early
<1>16. Keeps(x.run, r)
  BY <1>3, <1>11, PersistKeeps
<1>17. /\ main' \in RunType /\ own' \in RunType
       /\ x.run = "main" => own' = own /\ main'.res = r /\ main'.st = main.st
       /\ x.run = "own" => main' = main /\ own'.res = r /\ own'.st # "absent"
  BY <1>3, <1>13, <1>16, KeepsFacts DEF IInv
<1>18. Moves(e, x, y)
  BY <1>2, <1>11 DEF Moves
<1>19. ControlStep(x, y)
  BY <1>2, <1>3, <1>11, <1>15 DEF ControlStep, StatusAt, Early
<1>20. CompleteStep(y)
  BY <1>2, <1>3, <1>11, <1>15 DEF CompleteStep, StatusAt, Early
<1>21. PushStep(x, y)
  <2>1. y.pc = "prepare" => y.rec.done < n
    BY <1>7, <1>13, <1>15
  <2>2. \A i \in y.todo : pushes[i] = 0
    BY <1>4, <1>15 DEF Untouched, ExecType
  <2> QED BY <1>2, <1>3, <1>5, <1>12, <1>13, <1>15, <2>1, <2>2 DEF PushStep
<1>22. CertStep(x, y)
  BY <1>3, <1>12, <1>13, <1>15, <1>17 DEF CertStep
<1>23. kind = "fanout" => (overlap => OwnStays) /\ FanoutRuns' /\ FanoutExec(y)'
  <2> SUFFICES ASSUME kind = "fanout"
               PROVE  FanoutRuns' /\ FanoutExec(y)'
    BY <1>3
  <2>1. main.st = "pending" /\ x.run = "own" /\ ~x.rec.wrapped
    BY <1>2, <1>3 DEF FanoutExec
  <2>2. main' = main /\ own'.res = r /\ own'.st # "absent"
    BY <1>17, <2>1
  <2>3. \A i \in Items : r.upd[i] = "none" /\ pushes'[i] = 0
    BY <1>4, <1>11, <1>13 DEF None, Untouched
  <2>4. cr' \notin {"paused", "completed"}
    BY <1>2, <1>3, <1>11 DEF StatusAt, Early
  <2>5. FanoutRuns'
    <3>1. /\ ~own'.res.wrapped /\ main'.st = "pending" /\ main'.res.upd = None /\ ~main'.res.wrapped
      BY <1>3, <1>13, <2>1, <2>2 DEF FanoutRuns
    <3>2. \A i \in Items : ~(pushes'[i] > 0) /\ own'.res.upd[i] = "none"
      BY <2>2, <2>3
    <3> QED BY <2>2, <2>4, <3>1, <3>2 DEF FanoutRuns
  <2>6. CASE k = n
    <3>1. /\ y.flow /\ y.pc = "push" /\ ~y.rec.wrapped /\ main'.st = "pending" /\ y.run = "own"
          /\ own'.res.upd = None /\ own'.st # "absent" /\ own'.res.items = y.rec.items
          /\ y.todo = y.rec.items /\ y.rec.phase # "prepare" /\ y.rec = r
      BY <1>3, <1>13, <1>15, <2>1, <2>2, <2>6
    <3> QED BY <1>14, <2>3, <2>5, <3>1 DEF FanoutExec, Late, LatePc
  <2>7. CASE k # n
    <3>1. /\ y.flow /\ y.pc = "prepare" /\ ~y.rec.wrapped /\ main'.st = "pending" /\ y.run = "own"
          /\ own'.res.upd = None
      BY <1>3, <1>13, <1>15, <2>1, <2>2, <2>7
    <3> QED BY <2>5, <3>1 DEF FanoutExec, Late, LatePc
  <2> QED BY <2>6, <2>7
<1>24. Honest(y.rec) /\ (main'.res = main.res \/ Honest(main.res)') /\ (own'.res = own.res \/ Honest(own.res)')
  <2>1. Honest(r)
    BY <1>3, <1>13 DEF Honest
  <2> QED BY <1>3, <1>11, <1>15, <1>17, <2>1 DEF Honest
<1> QED BY <1>1, <1>3, <1>11, <1>15, <1>17, <1>18, <1>19, <1>20, <1>21, <1>22, <1>23, <1>24, StillInv

LEMMA DryRunInv ==
  ASSUME IInv, NEW e \in Execs, DryRun(e)
  PROVE  IInv'
<1>1. PICK x : x = exec[e]
  OBVIOUS
<1>2. x.pc = "prepare" /\ kind = "k8s" /\ Persist(x.run, x.rec)
  BY <1>1 DEF DryRun
<1>3. /\ x \in ExecType /\ x.rec \in ResultType /\ x.flow \in BOOLEAN
      /\ Honest(x.rec) /\ x.flow /\ ~overlap /\ cr = StatusAt(x.pc)
      /\ x.run = "main" /\ own = NoRun /\ main \in RunType /\ own \in RunType
  BY <1>1, <1>2, ActiveFacts DEF Early
<1>4. PICK y : y = [x EXCEPT !.pc = "complete"]
  OBVIOUS
<1>5. /\ exec' = [exec EXCEPT ![e] = y]
      /\ UNCHANGED <<kind, up, crashes, undo, requests, overlap, cr, applied, pushes,
                     vouched, waived, unseen, misrouted>>
  BY <1>1, <1>4 DEF DryRun, Run, env, infra, history
<1>6. y \in ExecType /\ y.pc = "complete" /\ y.flow = x.flow /\ y.run = x.run /\ y.rec = x.rec
  BY <1>3, <1>4 DEF ExecType, ExecPc
<1>7. main' \in RunType /\ own' = own /\ main'.res = x.rec
  <2>1. Keeps(x.run, x.rec)
    BY <1>2, <1>3, PersistKeeps
  <2> QED BY <1>3, <2>1, KeepsFacts DEF IInv
<1>8. Moves(e, x, y)
  BY <1>2, <1>5 DEF Moves
<1>9. ControlStep(x, y)
  BY <1>2, <1>3, <1>5, <1>6 DEF ControlStep, StatusAt, Early
<1>10. CompleteStep(y)
  <2>1. x.rec.items = {}
    BY <1>1, <1>2, <1>3 DEF IInv, PushOK
  <2>2. Latest'.res = x.rec
    BY <1>3, <1>7, BlankFacts DEF Latest
  <2>3. Unverified(x.rec) = {} /\ Unverified(Latest.res)' = {}
    BY <2>1, <2>2 DEF Unverified
  <2> QED BY <1>6, <2>3 DEF CompleteStep
<1>11. PushStep(x, y) /\ CertStep(x, y)
  BY <1>2, <1>6 DEF PushStep, CertStep
<1>12. Honest(y.rec) /\ Honest(main.res)'
  BY <1>3, <1>5, <1>6, <1>7 DEF Honest
<1> QED BY <1>1, <1>2, <1>3, <1>5, <1>6, <1>7, <1>8, <1>9, <1>10, <1>11, <1>12, StillInv

LEMMA PrepareFailsInv ==
  ASSUME IInv, NEW e \in Execs, PrepareFails(e)
  PROVE  IInv'
<1>1. PICK x : x = exec[e]
  OBVIOUS
<1>2. x.pc = "prepare" /\ kind \in {"k8s", "certificate"}
  BY <1>1 DEF PrepareFails
<1>3. /\ x \in ExecType /\ x.rec \in ResultType /\ x.flow \in BOOLEAN
      /\ Honest(x.rec) /\ x.flow /\ ~overlap /\ cr = StatusAt(x.pc)
      /\ x.run = "main" /\ own = NoRun /\ main \in RunType /\ own \in RunType
  BY <1>1, <1>2, ActiveFacts DEF Early
<1>4. PICK y : y = [x EXCEPT !.pc = "failcr", !.todo = {}]
  OBVIOUS
<1>5. /\ exec' = [exec EXCEPT ![e] = y]
      /\ IF kind = "k8s" THEN Persist(x.run, x.rec) ELSE UNCHANGED <<main, own>>
      /\ UNCHANGED <<kind, up, crashes, undo, requests, overlap, cr, applied, pushes,
                     vouched, waived, unseen, misrouted>>
  BY <1>1, <1>4 DEF PrepareFails, Run, env, infra, history
<1>6. y \in ExecType /\ y.pc = "failcr" /\ y.flow = x.flow /\ y.run = x.run /\ y.rec = x.rec
  BY <1>3, <1>4 DEF ExecType, ExecPc
<1>7. main' \in RunType /\ own' = own /\ main'.res \in {main.res, x.rec}
  <2>1. CASE kind = "k8s"
    <3>1. Keeps(x.run, x.rec)
      BY <1>3, <1>5, <2>1, PersistKeeps
    <3> QED BY <1>3, <3>1, KeepsFacts DEF IInv
  <2>2. CASE kind # "k8s"
    BY <1>3, <1>5, <2>2
  <2> QED BY <2>1, <2>2
<1>8. Moves(e, x, y)
  BY <1>2, <1>5 DEF Moves
<1>9. cr' = "executing"
  BY <1>2, <1>3, <1>5 DEF StatusAt, Early
<1>10. ControlStep(x, y)
  BY <1>2, <1>3, <1>6, <1>9 DEF ControlStep, StatusAt, Early
<1>11. CompleteStep(y) /\ PushStep(x, y) /\ CertStep(x, y)
  <2>1. kind = "certificate" => (~misrouted => main'.res.upd = None \/ main'.res.items = Items)
    BY <1>5 DEF IInv, CertOK
  <2> QED BY <1>3, <1>6, <1>9, <2>1 DEF CompleteStep, PushStep, CertStep
<1>12. Honest(y.rec) /\ (main'.res = main.res \/ Honest(main.res)')
  BY <1>3, <1>5, <1>6, <1>7 DEF Honest
<1>13. kind # "fanout"
  BY <1>2
<1> QED BY <1>1, <1>3, <1>5, <1>6, <1>7, <1>8, <1>10, <1>11, <1>12, <1>13, StillInv

LEMMA StoreFailedInv ==
  ASSUME IInv, NEW e \in Execs, StoreFailed(e)
  PROVE  IInv'
<1>1. PICK x : x = exec[e]
  OBVIOUS
<1>2. x.pc \in {"failcr", "failrun"}
  BY <1>1 DEF StoreFailed
<1>3. /\ x \in ExecType /\ x.rec \in ResultType /\ x.flow \in BOOLEAN /\ x.flow
      /\ Honest(x.rec) /\ (~overlap => cr = StatusAt(x.pc))
      /\ kind # "fanout" => x.run = "main"
      /\ kind = "fanout" => FanoutRuns /\ FanoutExec(x) /\ ~main.res.wrapped
      /\ kind \in {"certificate", "fanout", "k8s"} /\ main \in RunType /\ own \in RunType
  BY <1>1, <1>2, ActiveFacts DEF Early
<1>4. cr \notin {"paused", "completed"}
  BY <1>1, <1>2, <1>3 DEF IInv, ControlOK, FlowOK
<1>5. PICK y : y = IF x.pc = "failcr" THEN [x EXCEPT !.pc = "failrun"] ELSE NoExec
  OBVIOUS
<1>6. /\ exec' = [exec EXCEPT ![e] = y]
      /\ IF (x.pc = "failcr") = (kind = "k8s")
         THEN main' = [st |-> "failed", res |-> IF kind = "k8s" THEN x.rec ELSE Blank] /\ cr' = cr
         ELSE cr' = "failed" /\ main' = main
      /\ UNCHANGED <<kind, up, crashes, undo, requests, overlap, own, applied, pushes,
                     vouched, waived, unseen, misrouted>>
  BY <1>1, <1>5 DEF StoreFailed, Run, env, infra, history
<1>7. /\ y \in ExecType
      /\ x.pc = "failcr" => y.pc = "failrun" /\ y.flow = x.flow /\ y.run = x.run /\ y.rec = x.rec
      /\ x.pc # "failcr" => y = NoExec
  BY <1>3, <1>5, NoExecType DEF ExecType, ExecPc
<1>8. /\ main' \in RunType /\ main'.res \in {main.res, x.rec, Blank}
      /\ cr' \in {cr, "failed"}
      /\ x.pc = "failcr" => cr' = IF kind = "k8s" THEN cr ELSE "failed"
  BY <1>2, <1>3, <1>6, BlankType DEF RunType
<1>9. Moves(e, x, y)
  BY <1>2, <1>6 DEF Moves
<1>10. ControlStep(x, y)
  <2>1. CASE x.pc = "failcr"
    BY <1>3, <1>4, <1>7, <1>8, <2>1 DEF ControlStep, StatusAt, Early
  <2>2. CASE x.pc # "failcr"
    BY <1>7, <1>8, <2>2, BlankFacts DEF ControlStep
  <2> QED BY <2>1, <2>2
<1>11. y.pc \in {"failrun", "off"}
  BY <1>7, BlankFacts
<1>12. CompleteStep(y) /\ PushStep(x, y) /\ CertStep(x, y)
  <2>1. kind = "certificate" => (~misrouted => main'.res.upd = None \/ main'.res.items = Items)
    BY <1>3, <1>6, BlankFacts DEF IInv, CertOK
  <2> QED BY <1>3, <1>4, <1>8, <1>11, <2>1 DEF CompleteStep, PushStep, CertStep
<1>13. Honest(Blank)
  BY BlankFacts DEF Honest, None
<1>14. Honest(y.rec) /\ (main'.res = main.res \/ Honest(main.res)')
  BY <1>3, <1>6, <1>7, <1>8, <1>13, BlankFacts DEF Honest
<1>15. kind # "fanout" => y.pc = "off" \/ y.run = "main"
  BY <1>3, <1>7, BlankFacts
<1>16. kind = "fanout" => (overlap => OwnStays) /\ FanoutRuns' /\ FanoutExec(y)'
  <2> SUFFICES ASSUME kind = "fanout"
               PROVE  OwnStays /\ FanoutRuns' /\ FanoutExec(y)'
    OBVIOUS
  <2>1. main.st = "pending" /\ x.rec.upd = None /\ ~x.rec.wrapped
    BY <1>2, <1>3 DEF FanoutExec
  <2>2. own' = own /\ (ReadyRun => ReadyRun')
    BY <1>6 DEF ReadyRun, Pending
  <2>3. /\ x.pc = "failcr" => main' = main
        /\ x.pc # "failcr" => main'.st = "failed" /\ main'.res = Blank
    BY <1>2, <1>6
  <2>4. main'.st \in {"pending", "failed"} /\ main'.res.upd = None /\ ~main'.res.wrapped
    BY <1>3, <2>1, <2>3, BlankFacts DEF FanoutRuns
  <2>5. OwnStays
    BY <2>1, <2>2 DEF OwnStays
  <2>6. FanoutRuns'
    BY <1>3, <1>4, <1>6, <1>8, <2>2, <2>4 DEF FanoutRuns
  <2>7. FanoutExec(y)'
    <3>1. CASE x.pc = "failcr"
      BY <1>3, <1>7, <2>1, <2>3, <3>1 DEF FanoutExec, Late, LatePc
    <3>2. CASE x.pc # "failcr"
      BY <1>7, <3>2, BlankFacts DEF FanoutExec, Late, LatePc
    <3> QED BY <3>1, <3>2
  <2> QED BY <2>5, <2>6, <2>7
<1>17. own'.res = own.res /\ own' \in RunType
  BY <1>3, <1>6
<1> QED BY <1>1, <1>3, <1>6, <1>7, <1>8, <1>9, <1>10, <1>12, <1>14, <1>15, <1>16, <1>17, StillInv

LEMMA FanoutRaisesInv ==
  ASSUME IInv, NEW e \in Execs, FanoutRaises(e)
  PROVE  IInv'
<1>1. PICK x : x = exec[e]
  OBVIOUS
<1>2. kind = "fanout" /\ x.pc \in {"prepare", "push", "verify"}
  BY <1>1 DEF FanoutRaises
<1>3. /\ x \in ExecType /\ x.flow \in BOOLEAN
      /\ x.flow => ~overlap /\ cr = StatusAt(x.pc)
      /\ FanoutRuns /\ FanoutExec(x) /\ ~main.res.wrapped
      /\ cr \in CrType /\ main \in RunType /\ own \in RunType
  BY <1>1, <1>2, ActiveFacts DEF Early
<1>4. PICK y : y = IF x.flow THEN [NoExec EXCEPT !.pc = "failcr", !.flow = TRUE] ELSE NoExec
  OBVIOUS
<1>5. /\ exec' = [exec EXCEPT ![e] = y] /\ cr' = (IF x.flow THEN cr ELSE "failed")
      /\ UNCHANGED <<kind, up, crashes, undo, requests, overlap, main, own, applied, pushes,
                     vouched, waived, unseen, misrouted>>
  BY <1>1, <1>4 DEF FanoutRaises, Run, env, infra, history
<1>6. /\ y \in ExecType /\ y.rec = Blank
      /\ x.flow => y.pc = "failcr" /\ y.flow
      /\ ~x.flow => y = NoExec
  <2>1. CASE x.flow
    BY <1>4, <2>1, BlankType DEF NoExec, ExecType, ExecPc
  <2>2. CASE ~x.flow
    BY <1>4, <2>2, NoExecType, BlankFacts
  <2> QED BY <1>3, <2>1, <2>2
<1>7. Moves(e, x, y)
  BY <1>2, <1>5 DEF Moves
<1>8. x.flow => cr' = "executing"
  BY <1>2, <1>3, <1>5 DEF StatusAt, Early
<1>9. ControlStep(x, y)
  <2>1. CASE x.flow
    BY <1>2, <1>3, <1>5, <1>6, <1>8, <2>1 DEF ControlStep, StatusAt, Early
  <2>2. CASE ~x.flow
    BY <1>5, <1>6, <2>2, BlankFacts DEF ControlStep
  <2> QED BY <1>3, <2>1, <2>2
<1>10. y.pc \in {"failcr", "off"} /\ cr' \notin {"paused", "completed"}
  BY <1>3, <1>5, <1>6, <1>8, BlankFacts
<1>11. CompleteStep(y) /\ PushStep(x, y) /\ CertStep(x, y)
  BY <1>2, <1>10 DEF CompleteStep, PushStep, CertStep
<1>12. Honest(y.rec)
  BY <1>6, BlankFacts DEF Honest, None
<1>13. OwnStays /\ FanoutRuns' /\ FanoutExec(y)'
  <2>1. ReadyRun <=> ReadyRun'
    BY <1>5 DEF ReadyRun, Pending
  <2>2. Like(main.res) <=> Like(main.res)'
    BY <1>5, <2>1 DEF Like
  <2>3. OwnStays
    BY <1>5, <2>1 DEF OwnStays
  <2>4. FanoutRuns'
    BY <1>3, <1>5, <1>10, <2>1, <2>2 DEF FanoutRuns
  <2>5. x.flow => main'.st = "pending"
    BY <1>2, <1>3, <1>5 DEF FanoutExec
  <2>6. FanoutExec(y)'
    <3>1. CASE x.flow
      BY <1>6, <2>5, <3>1, BlankFacts DEF FanoutExec, Late, LatePc
    <3>2. CASE ~x.flow
      BY <1>6, <3>2, BlankFacts DEF FanoutExec, Late, LatePc
    <3> QED BY <1>3, <3>1, <3>2
  <2> QED BY <2>3, <2>4, <2>6
<1> QED BY <1>1, <1>2, <1>3, <1>5, <1>6, <1>7, <1>9, <1>11, <1>12, <1>13, StillInv

LEMMA ResumeStepsInv ==
  ASSUME IInv, NEW e \in Execs, ResumeSteps(e)
  PROVE  IInv'
<1>1. PICK x : x = exec[e]
  OBVIOUS
<1>2. x.pc = "load" /\ ~x.flow /\ kind # "fanout" /\ cr' = "completed" /\ misrouted' = TRUE
  BY <1>1 DEF ResumeSteps
<1>3. Types /\ ControlOK /\ HonestOK /\ VouchOK /\ PushOK /\ MainOK /\ CertOK /\ FanoutOK /\ CompleteOK
  BY DEF IInv
<1>4. main \in RunType /\ own \in RunType
  BY <1>3 DEF Types, TypeOK
<1>5. /\ exec' = [exec EXCEPT ![e] = NoExec]
      /\ UNCHANGED <<kind, up, crashes, undo, requests, overlap, own, applied, pushes,
                     vouched, waived, unseen>>
  BY DEF ResumeSteps, Run, env, infra
<1>6. main' \in RunType /\ main'.res \in {main.res, Blank}
  <2>1. main' = main \/ main' = [st |-> "completed", res |-> Blank]
    BY DEF ResumeSteps
  <2> QED BY <1>4, <2>1, BlankType DEF RunType
<1>7. NoExec \in ExecType /\ NoExec.pc = "off" /\ NoExec.rec = Blank
  BY NoExecType, BlankFacts
<1>8. Moves(e, x, NoExec)
  BY <1>2, <1>5 DEF Moves
<1>9. Honest(Blank)'
  BY BlankFacts DEF Honest, None
<1>10. Types'
  BY <1>2, <1>3, <1>4, <1>5, <1>6, <1>7, <1>8, TypesFrame DEF Types, TypeOK, CrType
<1>11. ControlOK'
  BY <1>1, <1>2, <1>3, <1>7, <1>8, ControlFrame
<1>12. HonestOK'
  BY <1>3, <1>5, <1>6, <1>7, <1>8, <1>9, HonestFrame
<1>13. VouchOK'
  BY <1>3, <1>5, VouchFrame
<1>14. PushOK'
  BY <1>1, <1>3, <1>5, <1>7, <1>8, PushFrame
<1>15. MainOK'
  BY <1>1, <1>3, <1>5, <1>7, <1>8, MainFrame
<1>16. CertOK'
  BY <1>1, <1>2, <1>3, <1>7, <1>8, BlankFacts, CertFrame
<1>17. FanoutOK'
  BY <1>1, <1>2, <1>3, <1>7, <1>8, FanoutFrame
<1>18. CompleteOK'
  BY <1>1, <1>2, <1>3, <1>7, <1>8, CompleteFrame
<1> QED BY <1>10, <1>11, <1>12, <1>13, <1>14, <1>15, <1>16, <1>17, <1>18 DEF IInv

-----------------------------------------------------------------------------
(***************************************************************************)
(* The rollback, crashes and restarts: no coroutine moves, no result is    *)
(* written, and nothing becomes paused or completed.                       *)
(***************************************************************************)
LEMMA QuietInv ==
  ASSUME IInv, UNCHANGED <<kind, main, own, exec, pushes, vouched, waived, unseen, misrouted>>,
         cr' \in CrType, cr' \in {"paused", "completed"} => cr' = cr,
         overlap' \in BOOLEAN, overlap => overlap', up' \in BOOLEAN, undo' \in UndoType,
         undo'.todo \subseteq undo'.read, undo'.blind \subseteq undo'.read, applied' \subseteq Items,
         ControlOK', VouchOK'
  PROVE  IInv'
<1>1. Types /\ HonestOK /\ PushOK /\ MainOK /\ CertOK /\ FanoutOK /\ CompleteOK
  BY DEF IInv
<1>2. Types'
  <2>1. undo'.read \subseteq Items
    BY DEF UndoType
  <2> QED BY <1>1, <2>1 DEF Types, TypeOK, CrType
<1>3. HonestOK'
  BY <1>1 DEF HonestOK, Honest
<1>4. PushOK'
  <2>1. PushedOnce' /\ (Untouched <=> Untouched')
    BY <1>1 DEF PushOK, PushedOnce, Untouched
  <2> QED BY <1>1, <2>1 DEF PushOK
<1>5. MainOK' /\ CertOK'
  BY <1>1 DEF MainOK, CertOK
<1>6. FanoutOK'
  <2> SUFFICES ASSUME kind = "fanout"
               PROVE  FanoutRuns' /\ \A e \in Execs : FanoutExec(exec[e])'
    BY DEF FanoutOK
  <2>1. (ReadyRun <=> ReadyRun') /\ (Like(main.res) <=> Like(main.res)') /\ (Sole => Sole') /\ (Over => Over')
    BY DEF ReadyRun, Like, Pending, Sole, Over
  <2>2. FanoutRuns'
    BY <1>1, <2>1 DEF FanoutOK, FanoutRuns
  <2>3. ASSUME NEW e \in Execs
        PROVE  FanoutExec(exec[e])'
    <3>1. PICK z : z = exec[e] /\ exec'[e] = z /\ FanoutExec(z)
      BY <1>1 DEF FanoutOK
    <3>2. (Like(z.rec) <=> Like(z.rec)') /\ (Late(z) <=> Late(z)')
      BY <2>1 DEF Like, Late
    <3>3. Pending(z.rec)' = Pending(z.rec)
      BY DEF Pending
    <3>4. FanoutExec(z)'
      BY <2>1, <3>1, <3>2, <3>3 DEF FanoutExec
    <3> QED BY <3>1, <3>4
  <2> QED BY <2>2, <2>3
<1>7. CompleteOK'
  <2>1. Unverified(Latest.res)' = Unverified(Latest.res) /\ \A e \in Execs : Unverified(exec[e].rec)' = Unverified(exec[e].rec)
    BY DEF Unverified, Latest
  <2> QED BY <1>1, <2>1 DEF CompleteOK
<1> QED BY <1>2, <1>3, <1>4, <1>5, <1>6, <1>7 DEF IInv

\* While a rollback is requested or under way, and when the CR may be rolled back,
\* the workflow is at its end.
LEMMA FlowOver ==
  ASSUME IInv, undo.pc # "off" \/ cr \in {"completed", "failed", "paused"},
         NEW e \in Execs, exec[e].pc # "off", exec[e].flow
  PROVE  exec[e].pc \notin Early \cup {"failcr"}
<1> SUFFICES ASSUME exec[e].pc \in Early \cup {"failcr"}
             PROVE  FALSE
  OBVIOUS
<1>1. ~overlap /\ undo.pc = "off"
  BY DEF IInv, ControlOK, FlowOK
<1>2. cr = StatusAt(exec[e].pc)
  BY <1>1 DEF IInv, ControlOK, StatusOK
<1>3. cr = "executing"
  BY <1>2 DEF StatusAt, Early
<1> QED BY <1>1, <1>3

LEMMA RollbackRequestInv ==
  ASSUME IInv, RollbackRequest
  PROVE  IInv'
<1>1. /\ up /\ undo.pc = "off" /\ cr \in {"completed", "failed", "paused"}
      /\ undo' = [NoUndo EXCEPT !.pc = "start", !.ran = undo.ran]
      /\ UNCHANGED <<kind, main, own, exec, pushes, vouched, waived, unseen, misrouted, cr, overlap, up, applied>>
  BY DEF RollbackRequest, Serve, env, rows, infra, history
<1>2. Types /\ Alone /\ FlowOK /\ StatusOK /\ UndoOK /\ VouchOK
  BY DEF IInv, ControlOK
<1>3. /\ undo' \in UndoType /\ undo'.pc = "start" /\ undo'.ran = undo.ran
      /\ undo'.todo = {} /\ undo'.blind = {} /\ undo'.read = {}
  <2>1. undo.ran \in BOOLEAN
    BY <1>2 DEF Types, UndoType
  <2> QED BY <1>1, <2>1 DEF NoUndo, UndoType
<1>4. Alone'
  BY <1>1, <1>2 DEF Alone
<1>5. FlowOK'
  <2>1. \A e \in Execs : exec[e].pc # "off" /\ exec[e].flow => exec[e].pc \notin Early \cup {"failcr"}
    BY <1>1, FlowOver
  <2> QED BY <1>1, <1>2, <2>1 DEF FlowOK
<1>6. StatusOK'
  BY <1>1, <1>2 DEF StatusOK, StatusAt
<1>7. UndoOK' /\ RolledBackIsUndone'
  BY <1>1, <1>2, <1>3 DEF UndoOK, RolledBackIsUndone
<1>8. VouchOK'
  BY <1>1, <1>2, <1>3 DEF VouchOK
<1>9. cr' \in CrType /\ overlap' \in BOOLEAN /\ up' \in BOOLEAN /\ applied' \subseteq Items
  BY <1>1, <1>2 DEF Types, TypeOK, CrType
<1> QED BY <1>1, <1>3, <1>4, <1>5, <1>6, <1>7, <1>8, <1>9, QuietInv DEF ControlOK

LEMMA RollbackStartInv ==
  ASSUME IInv, RollbackStart
  PROVE  IInv'
<1>1. /\ undo.pc = "start" /\ cr' = "executing" /\ overlap' = (overlap \/ Executing)
      /\ undo' = [undo EXCEPT !.pc = "load", !.ran = TRUE]
      /\ UNCHANGED <<kind, main, own, exec, pushes, vouched, waived, unseen, misrouted, up, applied>>
  BY DEF RollbackStart, env, infra
<1>2. Types /\ Alone /\ FlowOK /\ StatusOK /\ UndoOK /\ VouchOK
  BY DEF IInv, ControlOK
<1>3. /\ undo' \in UndoType /\ undo'.pc = "load" /\ undo'.ran = TRUE /\ undo'.blind = {}
      /\ undo'.todo \subseteq undo'.read /\ undo'.blind \subseteq undo'.read
  BY <1>1, <1>2 DEF Types, TypeOK, UndoOK, UndoType
<1>4. overlap' \in BOOLEAN /\ (overlap => overlap') /\ (~overlap' => \A e \in Execs : exec[e].pc = "off")
  BY <1>1, <1>2 DEF Types, Executing
<1>5. Alone'
  BY <1>1, <1>2, <1>4 DEF Alone
<1>6. FlowOK'
  <2>1. \A e \in Execs : exec[e].pc # "off" /\ exec[e].flow => exec[e].pc \notin Early \cup {"failcr"}
    BY <1>1, FlowOver
  <2> QED BY <1>1, <1>2, <2>1 DEF FlowOK
<1>7. StatusOK'
  BY <1>1, <1>4 DEF StatusOK
<1>8. UndoOK' /\ RolledBackIsUndone'
  BY <1>1, <1>3, <1>4 DEF UndoOK, RolledBackIsUndone
<1>9. VouchOK'
  BY <1>3 DEF VouchOK
<1>10. cr' \in CrType /\ up' \in BOOLEAN /\ applied' \subseteq Items
  BY <1>1, <1>2 DEF Types, TypeOK, CrType
<1> QED BY <1>1, <1>3, <1>4, <1>5, <1>6, <1>7, <1>8, <1>9, <1>10, QuietInv DEF ControlOK

\* What is reported is found, in whichever run the rollback reads.
LEMMA ReportedFound ==
  ASSUME IInv, kind # "k8s", ~misrouted
  PROVE  Reported \subseteq ToUndo(RollbackResult)
<1> SUFFICES ASSUME NEW i \in Items, main.res.upd[i] = "ok" \/ own.res.upd[i] = "ok"
             PROVE  i \in ToUndo(RollbackResult)
  BY DEF Reported
<1>1. CASE kind = "certificate"
  <2>1. own.st = "absent" /\ own.res.upd = None
    BY <1>1, BlankFacts DEF IInv, MainOK
  <2>2. main.res.upd[i] = "ok"
    BY <2>1 DEF None
  <2>3. main.res.items = Items
    BY <1>1, <2>2 DEF IInv, CertOK, None
  <2>4. RollbackResult = main.res
    BY <2>1 DEF RollbackResult, Latest
  <2> QED BY <1>1, <2>3, <2>4 DEF ToUndo
<1>2. CASE kind = "fanout"
  <2>1. FanoutRuns
    BY <1>2 DEF IInv, FanoutOK
  <2>2. own.res.upd[i] = "ok"
    <3>1. main.st \in {"pending", "failed"} => main.res.upd[i] = "none"
      BY <2>1 DEF FanoutRuns, None
    <3> QED BY <2>1, <3>1 DEF FanoutRuns, Like
  <2>3. i \in own.res.items /\ own.st # "absent"
    BY <2>1, <2>2 DEF FanoutRuns, None
  <2>4. PICK r : r = RollbackResult
    OBVIOUS
  <2>5. r.upd = own.res.upd /\ r.items = own.res.items /\ ~r.wrapped
    <3>1. CASE r = own.res
      BY <2>1, <3>1 DEF FanoutRuns
    <3>2. CASE r = main.res /\ main.st = "completed" /\ own.st # "completed"
      BY <2>1, <3>2 DEF FanoutRuns, Like, Over
    <3> QED BY <2>3, <2>4, <3>1, <3>2 DEF RollbackResult, Latest
  <2> QED BY <1>2, <2>2, <2>3, <2>4, <2>5 DEF ToUndo
<1> QED BY <1>1, <1>2, PreparationFacts DEF IInv

LEMMA RollbackLoadInv ==
  ASSUME IInv, RollbackLoad
  PROVE  IInv'
<1>1. PICK S : S = ToUndo(RollbackResult)
  OBVIOUS
<1>2. /\ undo.pc = "load"
      /\ undo' = [undo EXCEPT !.pc = "undo", !.todo = S, !.read = S]
      /\ UNCHANGED <<kind, main, own, exec, pushes, vouched, waived, unseen, misrouted, cr, overlap, up, applied>>
  BY <1>1 DEF RollbackLoad, env, rows, infra, history
<1>3. Types /\ Alone /\ FlowOK /\ StatusOK /\ UndoOK /\ VouchOK
  BY DEF IInv, ControlOK
<1>4. S \subseteq Items
  <2>1. main.res \in ResultType /\ own.res \in ResultType
    BY <1>3 DEF Types, TypeOK, RunType
  <2>2. PICK r \in ResultType : r = RollbackResult
    BY <2>1 DEF RollbackResult, Latest
  <2>3. r.items \subseteq Items
    BY <2>2 DEF ResultType
  <2>4. kind \in {"certificate", "fanout", "k8s"}
    BY <1>3, PreparationFacts
  <2> QED BY <1>1, <2>2, <2>3, <2>4 DEF ToUndo
<1>5. /\ undo' \in UndoType /\ undo'.pc = "undo" /\ undo'.ran = undo.ran /\ undo'.blind = undo.blind
      /\ undo'.todo = S /\ undo'.read = S /\ undo.blind = {}
  BY <1>2, <1>3, <1>4 DEF Types, UndoOK, UndoType
<1>6. Alone'
  BY <1>2, <1>3 DEF Alone
<1>7. FlowOK'
  <2>1. \A e \in Execs : exec[e].pc # "off" /\ exec[e].flow => exec[e].pc \notin Early \cup {"failcr"}
    BY <1>2, FlowOver
  <2> QED BY <1>2, <1>3, <2>1 DEF FlowOK
<1>8. StatusOK'
  BY <1>2, <1>3 DEF StatusOK, StatusAt
<1>9. UndoOK' /\ RolledBackIsUndone'
  <2>1. ~misrouted /\ kind # "k8s" => Reported \subseteq undo'.read
    BY <1>1, <1>5, ReportedFound
  <2>2. Reported' = Reported
    BY <1>2 DEF Reported
  <2> QED BY <1>2, <1>3, <1>5, <2>1, <2>2 DEF UndoOK, RolledBackIsUndone
<1>10. VouchOK'
  BY <1>2, <1>3, <1>5 DEF VouchOK
<1>11. cr' \in CrType /\ overlap' \in BOOLEAN /\ up' \in BOOLEAN /\ applied' \subseteq Items
  BY <1>2, <1>3 DEF Types, TypeOK, CrType
<1> QED BY <1>2, <1>5, <1>6, <1>7, <1>8, <1>9, <1>10, <1>11, QuietInv DEF ControlOK

LEMMA RollbackStepInv ==
  ASSUME IInv, RollbackStep
  PROVE  IInv'
<1>1. PICK i \in Items : IsLast(i, undo.todo) /\ UndoItem(i)
  BY DEF RollbackStep
<1>2. /\ undo.pc = "undo" /\ i \in undo.todo
      /\ UNCHANGED <<kind, main, own, exec, pushes, vouched, waived, unseen, misrouted, cr, overlap, up>>
  BY <1>1 DEF RollbackStep, IsLast, env, rows, history
<1>3. Types /\ Alone /\ FlowOK /\ StatusOK /\ UndoOK /\ VouchOK
  BY DEF IInv, ControlOK
<1>4. /\ undo \in UndoType /\ undo.ran
      /\ undo.todo \subseteq undo.read /\ undo.blind \subseteq undo.read /\ undo.read \subseteq Items
      /\ applied \subseteq Items
  BY <1>2, <1>3 DEF Types, TypeOK, UndoOK
<1>5. /\ undo' \in UndoType /\ undo'.pc = undo.pc /\ undo'.ran = undo.ran /\ undo'.read = undo.read
      /\ undo'.todo = undo.todo \ {i} /\ applied' \subseteq applied
      /\ undo'.blind \subseteq undo.blind \cup {i} /\ undo.blind \subseteq undo'.blind
      /\ undo.warned => undo'.warned
      /\ ~undo'.warned => i \notin applied' \/ i \in undo'.blind
  <2>1. CASE applied' = applied \ {i} /\ undo' = [undo EXCEPT !.todo = @ \ {i}]
    BY <1>4, <2>1 DEF UndoType
  <2>2. CASE undo' = [undo EXCEPT !.todo = @ \ {i}, !.warned = TRUE] /\ applied' = applied
    BY <1>4, <2>2 DEF UndoType
  <2>3. CASE undo' = [undo EXCEPT !.todo = @ \ {i}, !.blind = @ \cup {i}] /\ applied' = applied
    BY <1>4, <2>3 DEF UndoType
  <2> QED BY <1>1, <2>1, <2>2, <2>3 DEF UndoItem
<1>6. Alone'
  BY <1>2, <1>3, <1>5 DEF Alone
<1>7. FlowOK'
  <2>1. \A e \in Execs : exec[e].pc # "off" /\ exec[e].flow => exec[e].pc \notin Early \cup {"failcr"}
    BY <1>2, FlowOver
  <2> QED BY <1>2, <1>3, <2>1 DEF FlowOK
<1>8. StatusOK'
  BY <1>2, <1>3 DEF StatusOK, StatusAt
<1>9. UndoOK' /\ RolledBackIsUndone'
  <2>1. ~overlap /\ ~undo'.warned => applied' \cap undo'.read \subseteq undo'.blind \cup undo'.todo
    <3> SUFFICES ASSUME ~overlap, ~undo'.warned, NEW j \in applied' \cap undo'.read
                 PROVE  j \in undo'.blind \cup undo'.todo
      OBVIOUS
    <3>1. applied \cap undo.read \subseteq undo.blind \cup undo.todo
      BY <1>2, <1>3, <1>5 DEF UndoOK
    <3> QED BY <1>5, <3>1
  <2>2. cr \notin {"rolled_back", "rolled_back_with_warnings"}
    BY <1>2, <1>3 DEF UndoOK
  <2>3. Reported' = Reported
    BY <1>2 DEF Reported
  <2> QED BY <1>2, <1>3, <1>4, <1>5, <2>1, <2>2, <2>3 DEF UndoOK, RolledBackIsUndone
<1>10. VouchOK'
  BY <1>4, <1>5 DEF VouchOK
<1>11. /\ cr' \in CrType /\ overlap' \in BOOLEAN /\ up' \in BOOLEAN /\ applied' \subseteq Items
       /\ undo'.todo \subseteq undo'.read /\ undo'.blind \subseteq undo'.read
  BY <1>2, <1>3, <1>4, <1>5 DEF Types, TypeOK, CrType
<1> QED BY <1>2, <1>5, <1>6, <1>7, <1>8, <1>9, <1>10, <1>11, QuietInv DEF ControlOK

LEMMA RollbackEndInv ==
  ASSUME IInv, RollbackEnd
  PROVE  IInv'
<1>1. /\ undo.pc = "undo" /\ undo.todo = {} /\ cr' = RollbackStatus
      /\ undo' = [undo EXCEPT !.pc = "off"]
      /\ UNCHANGED <<kind, main, own, exec, pushes, vouched, waived, unseen, misrouted, overlap, up, applied>>
  BY DEF RollbackEnd, env, infra, history
<1>2. Types /\ Alone /\ FlowOK /\ StatusOK /\ UndoOK /\ VouchOK
  BY DEF IInv, ControlOK
<1>3. /\ undo' \in UndoType /\ undo'.pc = "off" /\ undo'.ran = undo.ran /\ undo.ran
      /\ undo'.todo = undo.todo /\ undo'.read = undo.read /\ undo'.blind = undo.blind
      /\ undo'.todo \subseteq undo'.read /\ undo'.blind \subseteq undo'.read
  BY <1>1, <1>2 DEF Types, TypeOK, UndoOK, UndoType
<1>4. cr' \in {"rolled_back", "rolled_back_with_warnings"} /\ (cr' = "rolled_back" => ~undo.warned)
  BY <1>1 DEF RollbackStatus
<1>5. Alone'
  BY <1>1, <1>2, <1>3 DEF Alone
<1>6. FlowOK'
  <2>1. \A e \in Execs : exec[e].pc # "off" /\ exec[e].flow => exec[e].pc \notin Early \cup {"failcr"}
    BY <1>1, FlowOver
  <2> QED BY <1>1, <1>2, <1>4, <2>1 DEF FlowOK
<1>7. StatusOK'
  BY <1>1, <1>2, <1>3 DEF StatusOK, UndoOK
<1>8. UndoOK' /\ RolledBackIsUndone'
  <2>1. Reported' = Reported
    BY <1>1 DEF Reported
  <2> QED BY <1>1, <1>2, <1>3, <1>4, <2>1 DEF UndoOK, RolledBackIsUndone
<1>9. VouchOK'
  BY <1>3 DEF VouchOK
<1>10. cr' \in CrType /\ overlap' \in BOOLEAN /\ up' \in BOOLEAN /\ applied' \subseteq Items
  BY <1>1, <1>2, <1>4 DEF Types, TypeOK, CrType
<1> QED BY <1>1, <1>3, <1>4, <1>5, <1>6, <1>7, <1>8, <1>9, <1>10, QuietInv DEF ControlOK

LEMMA RollbackRaisesInv ==
  ASSUME IInv, RollbackRaises
  PROVE  IInv'
<1>1. /\ undo.pc \in {"load", "undo"} /\ cr' = "failed"
      /\ undo' = [undo EXCEPT !.pc = "off"]
      /\ UNCHANGED <<kind, main, own, exec, pushes, vouched, waived, unseen, misrouted, overlap, up, applied>>
  BY DEF RollbackRaises, env, infra, history
<1>2. Types /\ Alone /\ FlowOK /\ StatusOK /\ UndoOK /\ VouchOK
  BY DEF IInv, ControlOK
<1>3. /\ undo' \in UndoType /\ undo'.pc = "off" /\ undo'.ran = undo.ran /\ undo.ran
      /\ undo'.todo = undo.todo /\ undo'.read = undo.read /\ undo'.blind = undo.blind
      /\ undo'.todo \subseteq undo'.read /\ undo'.blind \subseteq undo'.read
  BY <1>1, <1>2 DEF Types, TypeOK, UndoOK, UndoType
<1>4. Alone'
  BY <1>1, <1>2, <1>3 DEF Alone
<1>5. FlowOK'
  <2>1. \A e \in Execs : exec[e].pc # "off" /\ exec[e].flow => exec[e].pc \notin Early \cup {"failcr"}
    BY <1>1, FlowOver
  <2> QED BY <1>1, <1>2, <2>1 DEF FlowOK
<1>6. StatusOK'
  BY <1>1, <1>2, <1>3 DEF StatusOK, UndoOK
<1>7. UndoOK' /\ RolledBackIsUndone'
  BY <1>1, <1>2, <1>3 DEF UndoOK, RolledBackIsUndone
<1>8. VouchOK'
  BY <1>3 DEF VouchOK
<1>9. cr' \in CrType /\ overlap' \in BOOLEAN /\ up' \in BOOLEAN /\ applied' \subseteq Items
  BY <1>1, <1>2 DEF Types, TypeOK, CrType
<1> QED BY <1>1, <1>3, <1>4, <1>5, <1>6, <1>7, <1>8, <1>9, QuietInv DEF ControlOK

LEMMA RestartInv ==
  ASSUME IInv, Restart
  PROVE  IInv'
<1>1. /\ ~up /\ up' = TRUE /\ cr' = (IF cr = "executing" THEN "failed" ELSE cr)
      /\ UNCHANGED <<kind, main, own, exec, undo, pushes, vouched, waived, unseen, misrouted, overlap, applied>>
  BY DEF Restart, Scrub, infra, history
<1>2. Types /\ Alone /\ FlowOK /\ UndoOK /\ VouchOK /\ RolledBackIsUndone
  BY DEF IInv, ControlOK
<1>3. undo.pc = "off" /\ \A e \in Execs : exec[e].pc = "off"
  BY <1>1, <1>2 DEF Alone
<1>4. Alone' /\ FlowOK' /\ StatusOK'
  BY <1>1, <1>3 DEF Alone, FlowOK, StatusOK
<1>5. UndoOK' /\ RolledBackIsUndone'
  <2>1. Reported' = Reported
    BY <1>1 DEF Reported
  <2> QED BY <1>1, <1>2, <1>3, <2>1 DEF UndoOK, RolledBackIsUndone
<1>6. VouchOK'
  BY <1>1, <1>2 DEF VouchOK
<1>7. cr' \in CrType /\ overlap' \in BOOLEAN /\ applied' \subseteq Items /\ undo' \in UndoType
      /\ undo'.todo \subseteq undo'.read /\ undo'.blind \subseteq undo'.read
  BY <1>1, <1>2 DEF Types, TypeOK, CrType
<1> QED BY <1>1, <1>4, <1>5, <1>6, <1>7, QuietInv DEF ControlOK

LEMMA CrashInv ==
  ASSUME IInv, Crash
  PROVE  IInv'
<1>1. /\ up' = FALSE /\ exec' = [e \in Execs |-> NoExec] /\ undo' = [undo EXCEPT !.pc = "off"]
      /\ UNCHANGED <<kind, cr, main, own, pushes, vouched, waived, unseen, misrouted, overlap, applied>>
  BY DEF Crash, rows, infra, history
<1>2. Types /\ UndoOK /\ RolledBackIsUndone /\ HonestOK /\ VouchOK /\ PushOK /\ MainOK /\ CertOK /\ FanoutOK
      /\ CompleteOK
  BY DEF IInv, ControlOK
<1>3. /\ undo' \in UndoType /\ undo'.pc = "off" /\ undo'.ran = undo.ran
      /\ undo'.todo = undo.todo /\ undo'.read = undo.read /\ undo'.blind = undo.blind
  BY <1>1, <1>2 DEF Types, UndoType
<1>4. /\ exec' \in [Execs -> ExecType]
      /\ \A e \in Execs : exec'[e].pc = "off" /\ ~exec'[e].flow /\ exec'[e].rec = Blank /\ exec'[e].todo = {}
  BY <1>1, NoExecType, BlankFacts
<1>5. Types'
  BY <1>1, <1>2, <1>3, <1>4, BlankType DEF Types, TypeOK
<1>6. ControlOK'
  <2>1. Alone' /\ FlowOK' /\ StatusOK'
    BY <1>3, <1>4 DEF Alone, FlowOK, StatusOK
  <2>2. UndoOK' /\ RolledBackIsUndone'
    <3>1. Reported' = Reported
      BY <1>1 DEF Reported
    <3> QED BY <1>1, <1>2, <1>3, <1>4, <3>1 DEF UndoOK, RolledBackIsUndone
  <2> QED BY <2>1, <2>2 DEF ControlOK
<1>7. HonestOK'
  <2>1. Honest(Blank)'
    BY BlankFacts DEF Honest, None
  <2> QED BY <1>1, <1>2, <1>4, <2>1 DEF HonestOK, Honest
<1>8. VouchOK'
  BY <1>1, <1>2, <1>3 DEF VouchOK
<1>9. PushOK'
  BY <1>1, <1>2, <1>4 DEF PushOK, PushedOnce
<1>10. MainOK' /\ CertOK'
  BY <1>1, <1>2, <1>4 DEF MainOK, CertOK
<1>11. FanoutOK'
  <2> SUFFICES ASSUME kind = "fanout"
               PROVE  FanoutRuns' /\ \A e \in Execs : FanoutExec(exec[e])'
    BY <1>1 DEF FanoutOK
  <2>1. (ReadyRun <=> ReadyRun') /\ (Like(main.res) <=> Like(main.res)') /\ (Over => Over')
    BY <1>1, <1>4 DEF ReadyRun, Like, Pending, Over
  <2>2. FanoutRuns'
    BY <1>1, <1>2, <2>1 DEF FanoutOK, FanoutRuns
  <2>3. ASSUME NEW e \in Execs
        PROVE  FanoutExec(exec[e])'
    <3>1. FanoutExec(NoExec)'
      BY BlankFacts DEF FanoutExec, Late, LatePc
    <3> QED BY <1>1, <3>1
  <2> QED BY <2>2, <2>3
<1>12. CompleteOK'
  <2>1. Unverified(Latest.res)' = Unverified(Latest.res)
    BY <1>1 DEF Unverified, Latest
  <2> QED BY <1>1, <1>2, <1>4, <2>1 DEF CompleteOK
<1> QED BY <1>5, <1>6, <1>7, <1>8, <1>9, <1>10, <1>11, <1>12 DEF IInv
-----------------------------------------------------------------------------
(***************************************************************************)
(* The requests to a paused CR.  One coroutine may be started; what was    *)
(* pushed stays as it is.                                                  *)
(***************************************************************************)
Resuming == [NoExec EXCEPT !.pc = "load"]

LEMMA RequestInv ==
  ASSUME IInv, NEW e \in Execs, up, cr = "paused", cr' \in {"executing", "completed"},
         overlap' = (overlap \/ Executing), UNCHANGED <<kind, up, undo, applied, pushes, unseen, misrouted>>,
         exec' = exec \/ (exec[e].pc = "off" /\ exec' = [exec EXCEPT ![e] = Resuming] /\ cr' = "executing"),
         vouched \subseteq vouched', vouched' \subseteq Items, waived' \subseteq vouched',
         vouched' \ waived' \subseteq vouched \ waived,
         main' \in RunType, own' \in RunType, Honest(main.res)', Honest(own.res)',
         kind # "fanout" => own' = own,
         kind = "certificate" => main'.res.items = main.res.items /\ main'.res.upd = main.res.upd,
         kind = "fanout" => /\ main' = main /\ own'.st # "absent" /\ SamePush(own'.res, own.res)
                            /\ own'.res.wrapped = own.res.wrapped,
         cr' = "completed" => Unverified(Latest.res)' = {}
  PROVE  IInv'
<1>1. /\ Types /\ Alone /\ FlowOK /\ StatusOK /\ UndoOK /\ HonestOK /\ VouchOK /\ PushOK
      /\ MainOK /\ CertOK /\ FanoutOK /\ CompleteOK
  BY DEF IInv, ControlOK
<1>2. /\ Resuming \in ExecType /\ Resuming.pc = "load" /\ ~Resuming.flow /\ Resuming.run = "main"
      /\ Resuming.rec = Blank /\ Resuming.todo = {}
  BY BlankType DEF Resuming, NoExec, ExecType, ExecPc, Early
<1>3. exec \in [Execs -> ExecType]
  BY <1>1 DEF Types
<1>4. /\ exec' \in [Execs -> ExecType]
      /\ \A f \in Execs : exec'[f] = exec[f] \/ (f = e /\ exec[f].pc = "off" /\ exec'[f] = Resuming)
      /\ cr' = "completed" => exec' = exec
  <2>1. CASE exec' = exec
    BY <1>3, <2>1
  <2>2. CASE exec[e].pc = "off" /\ exec' = [exec EXCEPT ![e] = Resuming] /\ cr' = "executing"
    BY <1>2, <1>3, <2>2
  <2> QED BY <2>1, <2>2
<1>5. overlap' \in BOOLEAN /\ (overlap => overlap') /\ (~overlap' => \A f \in Execs : exec[f].pc = "off")
  BY <1>1 DEF Types, Executing
<1>6. \A f \in Execs : exec[f].pc # "off" /\ exec[f].flow =>
        exec[f].pc \notin Early \cup {"failcr", "failrun"}
  <2>1. \A f \in Execs : exec[f].pc # "off" /\ exec[f].flow => exec[f].pc \notin Early \cup {"failcr"}
    BY FlowOver
  <2>2. \A f \in Execs : exec[f].pc # "off" /\ exec[f].flow => exec[f].pc # "failrun"
    BY <1>1 DEF FlowOK
  <2> QED BY <2>1, <2>2
<1>7. Types'
  <2>1. \A f \in Execs : exec'[f].rec \in ResultType /\ exec'[f].todo \subseteq Items
    BY <1>4 DEF ExecType
  <2> QED BY <1>1, <1>4, <1>5, <2>1 DEF Types, TypeOK
<1>8. ControlOK'
  <2>1. Alone'
    BY <1>4, <1>5 DEF Alone
  <2>2. FlowOK'
    <3> SUFFICES ASSUME NEW f \in Execs, exec'[f].pc # "off"
                 PROVE  /\ exec'[f].flow => f = FirstExec /\ exec'[f].pc \notin Early \cup {"failcr", "failrun"}
                        /\ ~exec'[f].flow => /\ exec'[f].pc \in Early \ {"prepare"}
                                             /\ kind # "fanout" => exec'[f].pc = "load"
      BY DEF FlowOK
    <3>1. CASE exec'[f] = exec[f]
      BY <1>1, <1>6, <3>1 DEF FlowOK
    <3>2. CASE exec'[f] = Resuming
      BY <1>2, <3>2 DEF Early
    <3> QED BY <1>4, <3>1, <3>2
  <2>3. StatusOK'
    <3> SUFFICES ASSUME ~overlap', NEW f \in Execs, exec'[f].pc # "off"
                 PROVE  cr' = StatusAt(exec[f].pc)'
      BY DEF StatusOK, StatusAt
    <3>1. exec'[f] = Resuming /\ cr' = "executing"
      BY <1>4, <1>5
    <3> QED BY <1>2, <3>1 DEF StatusAt, Early
  <2>4. UndoOK' /\ RolledBackIsUndone'
    <3>1. ~overlap => ~undo.ran
      BY <1>1 DEF UndoOK
    <3> QED BY <1>1, <1>5, <3>1 DEF UndoOK, RolledBackIsUndone
  <2> QED BY <2>1, <2>2, <2>3, <2>4 DEF ControlOK
<1>9. HonestOK'
  <2>1. Honest(Blank)'
    BY BlankFacts DEF Honest, None
  <2>2. ASSUME NEW f \in Execs
        PROVE  Honest(exec[f].rec)'
    <3>1. CASE exec'[f] = exec[f]
      BY <1>1, <3>1 DEF HonestOK, Honest
    <3>2. CASE exec'[f] = Resuming
      BY <1>2, <2>1, <3>2
    <3> QED BY <1>4, <3>1, <3>2
  <2> QED BY <2>2 DEF HonestOK
<1>10. VouchOK'
  BY <1>1 DEF VouchOK
<1>11. PushOK'
  <2>1. PushedOnce'
    BY <1>1 DEF PushOK, PushedOnce
  <2>2. ASSUME NEW f \in Execs
        PROVE  /\ ~(exec'[f].flow /\ exec'[f].pc \in {"load", "prepare"})
               /\ exec'[f].pc = "push" => \A i \in exec'[f].todo : pushes'[i] = 0
               /\ exec'[f].pc = "push" /\ ~exec'[f].flow => exec'[f].todo = {}
    <3>1. CASE exec'[f] = exec[f]
      BY <1>1, <1>6, <3>1 DEF PushOK, Early
    <3>2. CASE exec'[f] = Resuming
      BY <1>2, <3>2
    <3> QED BY <1>4, <3>1, <3>2
  <2> QED BY <2>1, <2>2 DEF PushOK
<1>12. MainOK'
  BY <1>1, <1>2, <1>4 DEF MainOK
<1>13. CertOK'
  <2> SUFFICES ASSUME kind = "certificate"
               PROVE  CertOK'
    BY DEF CertOK
  <2>1. /\ ~misrouted /\ cr' \in {"paused", "completed"} => main'.res.items = Items
        /\ ~misrouted => main'.res.upd = None \/ main'.res.items = Items
    BY <1>1 DEF CertOK
  <2>2. ASSUME NEW f \in Execs, exec'[f].flow
        PROVE  /\ exec'[f].pc # "pause"
               /\ exec'[f].pc = "prepare" /\ exec'[f].rec.done > 0 => exec'[f].rec.items = Items
               /\ exec'[f].pc \in ExecPc \ {"off", "load", "prepare", "failcr", "failrun"} =>
                    exec'[f].rec.items = Items /\ (~misrouted => main'.res.items = Items)
    <3>1. exec'[f] = exec[f]
      BY <1>2, <1>4, <2>2
    <3> QED BY <1>1, <2>2, <3>1 DEF CertOK
  <2> QED BY <2>1, <2>2 DEF CertOK
<1>14. FanoutOK'
  <2> SUFFICES ASSUME kind = "fanout"
               PROVE  FanoutRuns' /\ \A f \in Execs : FanoutExec(exec[f])'
    BY DEF FanoutOK
  <2>1. FanoutRuns /\ ReadyRun /\ ~main.res.wrapped
    BY <1>1 DEF FanoutOK, FanoutRuns, Over
  <2>2. /\ own'.res.upd = own.res.upd /\ own'.res.items = own.res.items /\ own'.res.phase # "prepare"
        /\ own'.st # "absent" /\ ~own'.res.wrapped
    BY <2>1 DEF FanoutRuns, SamePush, ReadyRun
  <2>3. ReadyRun'
    BY <2>1, <2>2 DEF ReadyRun, Pending
  <2>4. FanoutRuns'
    <3>1. Like(main.res) => Like(main.res)'
      BY <2>2, <2>3 DEF Like
    <3> QED BY <2>1, <2>2, <2>3, <3>1 DEF FanoutRuns
  <2>5. ASSUME NEW f \in Execs
        PROVE  FanoutExec(exec[f])'
    <3>1. CASE exec'[f] = Resuming
      <4>1. FanoutExec(Resuming)'
        BY <1>2, <2>3, BlankFacts DEF FanoutExec, Late, LatePc
      <4> QED BY <3>1, <4>1
    <3>2. CASE exec'[f] = exec[f]
      <4>1. PICK z : z = exec[f] /\ exec'[f] = z /\ FanoutExec(z)
        BY <1>1, <3>2 DEF FanoutOK
      <4>2. z.pc \notin {"complete", "completerun"}
        BY <4>1 DEF FanoutExec, Sole
      <4>3. ~(z.flow /\ z.pc \in {"prepare", "push", "verify", "failcr", "failrun"})
        BY <1>6, <4>1 DEF Early
      <4>4. Late(z)' => Like(z.rec)' /\ (z.run = "main" => main'.st \in {"running", "completed"} /\ ~z.flow)
        <5> SUFFICES ASSUME Late(z)'
                     PROVE  Like(z.rec)' /\ (z.run = "main" => main'.st \in {"running", "completed"} /\ ~z.flow)
          OBVIOUS
        <5>1. Like(z.rec) /\ (z.run = "main" => main.st \in {"running", "completed"} /\ ~z.flow)
          BY <4>1 DEF FanoutExec, Late
        <5> QED BY <2>2, <2>3, <5>1 DEF Like
      <4>5. ~z.rec.wrapped /\ (z.pc \in {"off", "load", "failcr", "failrun"} => z.rec.upd = None)
        BY <4>1 DEF FanoutExec
      <4>6. FanoutExec(z)'
        BY <2>3, <4>2, <4>3, <4>4, <4>5 DEF FanoutExec
      <4> QED BY <4>1, <4>6
    <3> QED BY <1>4, <3>1, <3>2
  <2> QED BY <2>4, <2>5
<1>15. CompleteOK'
  <2>1. ASSUME NEW f \in Execs, exec'[f].pc \in {"complete", "completerun"}
        PROVE  Unverified(exec[f].rec)' = {} /\ overlap'
    <3>1. exec'[f] = exec[f]
      BY <1>2, <1>4, <2>1
    <3> QED BY <1>1, <1>5, <2>1, <3>1 DEF CompleteOK, Unverified
  <2> QED BY <2>1 DEF CompleteOK
<1> QED BY <1>7, <1>8, <1>9, <1>10, <1>11, <1>12, <1>13, <1>14, <1>15 DEF IInv

\* The latest run, as a request writes it.
LEMMA PutLatestFacts ==
  ASSUME IInv, cr = "paused", NEW st \in {"running", "completed"}, NEW r \in ResultType, PutLatest(st, r)
  PROVE  /\ main' \in RunType /\ own' \in RunType /\ Latest'.res = r
         /\ main'.res \in {main.res, r} /\ own'.res \in {own.res, r}
         /\ kind # "fanout" => own' = own /\ Latest = main /\ main'.res = r
         /\ kind = "fanout" => main' = main /\ own'.st # "absent" /\ Latest = own /\ own'.res = r
<1>1. main \in RunType /\ own \in RunType
  BY DEF IInv, Types, TypeOK
<1>2. kind = "fanout" => own.st # "absent"
  BY DEF IInv, FanoutOK, FanoutRuns, ReadyRun
<1>3. kind # "fanout" => own.st = "absent"
  BY BlankFacts DEF IInv, MainOK
<1>4. CASE own.st # "absent"
  <2>1. own' = [st |-> st, res |-> r] /\ main' = main
    BY <1>4 DEF PutLatest, Write
  <2> QED BY <1>1, <1>3, <1>4, <2>1 DEF RunType, Latest
<1>5. CASE own.st = "absent"
  <2>1. main' = [st |-> st, res |-> r] /\ own' = own
    BY <1>5 DEF PutLatest, Write
  <2> QED BY <1>1, <1>2, <1>5, <2>1 DEF RunType, Latest
<1> QED BY <1>4, <1>5

LEMMA RetryVerifyInv ==
  ASSUME IInv, NEW e \in Execs, RetryVerify(e)
  PROVE  IInv'
<1>1. PICK r0 : r0 = Latest.res
  OBVIOUS
<1>2. PICK w : w = [i \in Items |-> IF i \in Unverified(r0) THEN "none" ELSE r0.ver[i]]
  OBVIOUS
<1>3. PICK r : r = [r0 EXCEPT !.paused = FALSE, !.ver = w]
  OBVIOUS
<1>4. r0 \in ResultType /\ Honest(r0)
  BY <1>1 DEF IInv, Types, TypeOK, RunType, Latest, HonestOK
<1>5. w \in [Items -> {"none", "ok", "bad", "skipped"}] /\ \A i \in Items : w[i] \in {"none", r0.ver[i]}
  BY <1>2, <1>4 DEF ResultType
<1>6. r \in ResultType /\ r.ver = w /\ r.items = r0.items /\ SamePush(r, r0) /\ r.wrapped = r0.wrapped
  BY <1>3, <1>4, <1>5 DEF ResultType, SamePush
<1>7. /\ up /\ cr = "paused" /\ cr' = "executing" /\ PutLatest("running", r)
      /\ exec[e].pc = "off" /\ exec' = [exec EXCEPT ![e] = Resuming]
      /\ overlap' = (overlap \/ Executing)
      /\ UNCHANGED <<kind, up, undo, applied, pushes, unseen, misrouted, vouched, waived>>
  <2>1. r = [r0 EXCEPT !.paused = FALSE, !.ver = [i \in Items |-> IF i \in Unverified(r0) THEN "none" ELSE @[i]]]
    BY <1>2, <1>3, <1>4 DEF ResultType
  <2> QED BY <1>1, <2>1 DEF RetryVerify, Serve, MayResume, Resumed, Resuming, Run, env, infra
<1>8. /\ main' \in RunType /\ own' \in RunType
      /\ main'.res \in {main.res, r} /\ own'.res \in {own.res, r}
      /\ kind # "fanout" => own' = own /\ Latest = main /\ main'.res = r
      /\ kind = "fanout" => main' = main /\ own'.st # "absent" /\ Latest = own /\ own'.res = r
  BY <1>6, <1>7, PutLatestFacts
<1>9. Honest(main.res)' /\ Honest(own.res)'
  <2>1. Honest(r)
    BY <1>4, <1>5, <1>6 DEF Honest
  <2> QED BY <1>7, <1>8, <2>1 DEF IInv, HonestOK, Honest
<1>10. vouched \subseteq Items /\ waived \subseteq vouched
  BY DEF IInv, Types, TypeOK
<1>11. kind = "certificate" => main'.res.items = main.res.items /\ main'.res.upd = main.res.upd
  BY <1>1, <1>6, <1>8 DEF SamePush
<1> QED BY <1>1, <1>6, <1>7, <1>8, <1>9, <1>10, <1>11, RequestInv

LEMMA SkipVerifyInv ==
  ASSUME IInv, SkipVerify
  PROVE  IInv'
<1>1. PICK r0 : r0 = Latest.res
  OBVIOUS
<1>2. PICK w : w = [i \in Items |-> IF i \in Unverified(r0) THEN "skipped" ELSE r0.ver[i]]
  OBVIOUS
<1>3. PICK r : r = [r0 EXCEPT !.paused = FALSE, !.ver = w]
  OBVIOUS
<1>4. r0 \in ResultType /\ Honest(r0) /\ Unverified(r0) \subseteq Items
  BY <1>1 DEF IInv, Types, TypeOK, RunType, Latest, HonestOK, ResultType, Unverified
<1>5. w \in [Items -> {"none", "ok", "bad", "skipped"}]
  BY <1>2, <1>4 DEF ResultType
<1>6. r \in ResultType /\ r.ver = w /\ r.items = r0.items /\ SamePush(r, r0) /\ r.wrapped = r0.wrapped
  BY <1>3, <1>4, <1>5 DEF ResultType, SamePush
<1>7. /\ up /\ cr = "paused" /\ cr' = "completed" /\ PutLatest("completed", r)
      /\ exec' = exec /\ overlap' = (overlap \/ Executing)
      /\ vouched' = vouched \cup Unverified(r0) /\ waived' = waived \cup Unverified(r0)
      /\ UNCHANGED <<kind, up, undo, applied, pushes, unseen, misrouted>>
  <2>1. r = [r0 EXCEPT !.paused = FALSE, !.ver = [i \in Items |-> IF i \in Unverified(r0) THEN "skipped" ELSE @[i]]]
    BY <1>2, <1>3, <1>4 DEF ResultType
  <2> QED BY <1>1, <2>1 DEF SkipVerify, Serve, MayResume, env, infra
<1>8. /\ main' \in RunType /\ own' \in RunType /\ Latest'.res = r
      /\ main'.res \in {main.res, r} /\ own'.res \in {own.res, r}
      /\ kind # "fanout" => own' = own /\ Latest = main /\ main'.res = r
      /\ kind = "fanout" => main' = main /\ own'.st # "absent" /\ Latest = own /\ own'.res = r
  BY <1>6, <1>7, PutLatestFacts
<1>9. Honest(main.res)' /\ Honest(own.res)'
  <2>1. Honest(r)'
    BY <1>2, <1>4, <1>6, <1>7 DEF Honest
  <2> QED BY <1>7, <1>8, <2>1 DEF IInv, HonestOK, Honest
<1>10. vouched \subseteq Items /\ waived \subseteq vouched
  BY DEF IInv, Types, TypeOK
<1>11. Unverified(Latest.res)' = {}
  <2>1. Unverified(r) = {}
    <3> SUFFICES ASSUME NEW i \in r.items
                 PROVE  r.ver[i] \in {"ok", "skipped"}
      BY DEF Unverified
    <3>1. i \in Items /\ i \in r0.items
      BY <1>4, <1>6 DEF ResultType
    <3>2. CASE i \in Unverified(r0)
      BY <1>2, <1>6, <3>1, <3>2
    <3>3. CASE i \notin Unverified(r0)
      BY <1>2, <1>6, <3>1, <3>3 DEF Unverified
    <3> QED BY <3>2, <3>3
  <2> QED BY <1>8, <2>1 DEF Unverified
<1>12. /\ vouched \subseteq vouched' /\ vouched' \subseteq Items /\ waived' \subseteq vouched'
       /\ vouched' \ waived' \subseteq vouched \ waived
  BY <1>4, <1>7, <1>10
<1>13. FirstExec \in Execs
  BY CampaignAssumption
<1>14. kind = "certificate" => main'.res.items = main.res.items /\ main'.res.upd = main.res.upd
  BY <1>1, <1>6, <1>8 DEF SamePush
<1> QED BY <1>1, <1>6, <1>7, <1>8, <1>9, <1>11, <1>12, <1>13, <1>14, RequestInv

LEMMA ResumeNodeUpgradeInv ==
  ASSUME IInv, NEW e \in Execs, ResumeNodeUpgrade(e)
  PROVE  IInv'
<1>1. /\ up /\ cr = "paused" /\ cr' = "executing" /\ kind = "k8s"
      /\ exec[e].pc = "off" /\ exec' = [exec EXCEPT ![e] = Resuming]
      /\ overlap' = (overlap \/ Executing)
      /\ UNCHANGED <<kind, up, undo, main, own, applied, pushes, unseen, misrouted, vouched, waived>>
  BY DEF ResumeNodeUpgrade, Serve, Resumed, Resuming, Run, env, infra
<1>2. main' \in RunType /\ own' \in RunType /\ vouched \subseteq Items /\ waived \subseteq vouched
  BY <1>1 DEF IInv, Types, TypeOK
<1>3. Honest(main.res)' /\ Honest(own.res)'
  BY <1>1 DEF IInv, HonestOK, Honest
<1> QED BY <1>1, <1>2, <1>3, RequestInv

LEMMA SkipNodeInv ==
  ASSUME IInv, NEW e \in Execs, SkipNode(e)
  PROVE  IInv'
<1>1. PICK r0 : r0 = main.res
  OBVIOUS
<1>2. PICK blocked : blocked = {i \in r0.items : r0.upd[i] = "error"}
  OBVIOUS
<1>3. PICK w : w = [i \in Items |-> IF i \in blocked THEN "skipped" ELSE r0.upd[i]]
  OBVIOUS
<1>4. PICK r : r = [r0 EXCEPT !.paused = FALSE, !.upd = w]
  OBVIOUS
<1>5. r0 \in ResultType /\ Honest(r0) /\ main \in RunType /\ own \in RunType
  BY <1>1 DEF IInv, Types, TypeOK, RunType, HonestOK
<1>6. w \in [Items -> {"none", "ok", "error", "failed", "skipped"}]
  BY <1>3, <1>5 DEF ResultType
<1>7. r \in ResultType /\ r.ver = r0.ver
  BY <1>4, <1>5, <1>6 DEF ResultType
<1>8. /\ up /\ cr = "paused" /\ cr' = "executing" /\ kind = "k8s" /\ main' = [main EXCEPT !.res = r]
      /\ exec[e].pc = "off" /\ exec' = [exec EXCEPT ![e] = Resuming]
      /\ overlap' = (overlap \/ Executing)
      /\ UNCHANGED <<kind, up, undo, own, applied, pushes, unseen, misrouted, vouched, waived>>
  <2>1. r = [r0 EXCEPT !.paused = FALSE, !.upd = [i \in Items |-> IF i \in blocked THEN "skipped" ELSE @[i]]]
    BY <1>3, <1>4, <1>5 DEF ResultType
  <2> QED BY <1>1, <1>2, <2>1 DEF SkipNode, Serve, MayResume, Resumed, Resuming, Run, env, infra
<1>9. main' \in RunType /\ main'.res = r
  BY <1>5, <1>7, <1>8 DEF RunType
<1>10. Honest(main.res)' /\ Honest(own.res)'
  <2>1. Honest(r)
    BY <1>5, <1>7 DEF Honest
  <2> QED BY <1>8, <1>9, <2>1 DEF IInv, HonestOK, Honest
<1>11. vouched \subseteq Items /\ waived \subseteq vouched
  BY DEF IInv, Types, TypeOK
<1> QED BY <1>5, <1>8, <1>9, <1>10, <1>11, RequestInv
-----------------------------------------------------------------------------
(***************************************************************************)
(* The theorems.                                                           *)
(***************************************************************************)
LEMMA InitInv == Init => IInv
<1> SUFFICES ASSUME Init
             PROVE  IInv
  OBVIOUS
<1>1. PICK x : x = [NoExec EXCEPT !.pc = "load", !.flow = TRUE]
  OBVIOUS
<1>2. /\ x \in ExecType /\ x.pc = "load" /\ x.flow = TRUE /\ x.run = "main" /\ x.rec = Blank /\ x.todo = {}
  BY <1>1, BlankType DEF NoExec, ExecType, ExecPc, Early
<1>3. /\ kind \in Kinds /\ cr = "executing" /\ main = [st |-> "pending", res |-> Blank] /\ own = NoRun
      /\ exec = [[e \in Execs |-> NoExec] EXCEPT ![FirstExec] = x]
      /\ undo = NoUndo /\ applied = {} /\ pushes = [i \in Items |-> 0] /\ up = TRUE
      /\ vouched = {} /\ waived = {} /\ unseen = FALSE /\ misrouted = FALSE /\ overlap = FALSE
  BY <1>1 DEF Init
<1>4. /\ exec \in [Execs -> ExecType]
      /\ \A e \in Execs : (e = FirstExec /\ exec[e] = x) \/ (e # FirstExec /\ exec[e] = NoExec)
  BY <1>2, <1>3, NoExecType, CampaignAssumption
<1>5. main \in RunType /\ own \in RunType /\ main.res = Blank /\ main.st = "pending"
      /\ own.st = "absent" /\ own.res = Blank
  BY <1>3, BlankType, NoRunType, BlankFacts DEF RunType
<1>6. /\ undo \in UndoType /\ undo.pc = "off" /\ ~undo.ran /\ undo.todo = {} /\ undo.read = {} /\ undo.blind = {}
  BY <1>3 DEF NoUndo, UndoType
<1>7. Types
  <2>1. \A e \in Execs : exec[e].rec \in ResultType /\ exec[e].todo \subseteq Items
    BY <1>4 DEF ExecType
  <2> QED BY <1>3, <1>4, <1>5, <1>6, <2>1 DEF Types, TypeOK
<1>8. ControlOK
  <2>1. Alone
    BY <1>3, <1>4, BlankFacts DEF Alone
  <2>2. FlowOK
    BY <1>2, <1>3, <1>4, <1>6, BlankFacts DEF FlowOK, Early
  <2>3. StatusOK
    BY <1>2, <1>3, <1>4, BlankFacts DEF StatusOK, StatusAt, Early
  <2>4. UndoOK /\ RolledBackIsUndone
    BY <1>3, <1>6 DEF UndoOK, RolledBackIsUndone
  <2> QED BY <2>1, <2>2, <2>3, <2>4 DEF ControlOK
<1>9. HonestOK
  BY <1>2, <1>4, <1>5, BlankFacts DEF HonestOK, Honest, None
<1>10. VouchOK
  BY <1>3 DEF VouchOK
<1>11. PushOK
  BY <1>2, <1>3, <1>4, BlankFacts DEF PushOK, PushedOnce, Untouched
<1>12. MainOK /\ CertOK
  BY <1>2, <1>3, <1>4, BlankFacts DEF MainOK, CertOK, ExecPc, Early
<1>13. FanoutOK
  <2>1. FanoutExec(x) /\ FanoutExec(NoExec)
    BY <1>2, BlankFacts DEF FanoutExec, Late, LatePc
  <2>2. FanoutRuns
    BY <1>3, <1>5, BlankFacts DEF FanoutRuns, None
  <2> QED BY <1>4, <2>1, <2>2 DEF FanoutOK
<1>14. CompleteOK
  BY <1>2, <1>3, <1>4, BlankFacts DEF CompleteOK
<1> QED BY <1>7, <1>8, <1>9, <1>10, <1>11, <1>12, <1>13, <1>14 DEF IInv

LEMMA StutterInv ==
  ASSUME IInv, UNCHANGED vars
  PROVE  IInv'
<1>1. UNCHANGED <<kind, up, cr, main, own, exec, undo, applied, pushes, vouched, waived, unseen, misrouted, overlap>>
  BY DEF vars, env, rows, infra, history
<1>2. Types /\ Alone /\ FlowOK /\ StatusOK /\ UndoOK /\ VouchOK /\ RolledBackIsUndone
  BY DEF IInv, ControlOK
<1>3. Alone' /\ FlowOK' /\ UndoOK' /\ RolledBackIsUndone' /\ VouchOK'
  BY <1>1, <1>2 DEF Alone, FlowOK, UndoOK, RolledBackIsUndone, VouchOK, Reported
<1>4. StatusOK'
  BY <1>1, <1>2 DEF StatusOK, StatusAt
<1>5. /\ cr' \in CrType /\ overlap' \in BOOLEAN /\ up' \in BOOLEAN /\ applied' \subseteq Items /\ undo' \in UndoType
      /\ undo'.todo \subseteq undo'.read /\ undo'.blind \subseteq undo'.read
  BY <1>1, <1>2 DEF Types, TypeOK, CrType
<1> QED BY <1>1, <1>3, <1>4, <1>5, QuietInv DEF ControlOK

LEMMA NextInv == IInv /\ [Next]_vars => IInv'
<1> SUFFICES ASSUME IInv, [Next]_vars
             PROVE  IInv'
  OBVIOUS
<1>1. ASSUME NEW e \in Execs, ExecStep(e)
      PROVE  IInv'
  BY <1>1, LoadInv, PrepareInv, DryRunInv, PrepareFailsInv, FanoutRaisesInv, PushInv, PushedInv, VerifyInv, VerifyFailedInv,
     VerifiedInv, PauseInv, StoreInv, StorePausedInv, StoreCompletedInv, StoreCompletedRunInv,
     StoreFailedInv, ResumeStepsInv DEF ExecStep
<1>2. ASSUME NEW e \in Execs, RetryVerify(e) \/ ResumeNodeUpgrade(e) \/ SkipNode(e)
      PROVE  IInv'
  BY <1>2, RetryVerifyInv, ResumeNodeUpgradeInv, SkipNodeInv
<1>3. CASE SkipVerify \/ RollbackRequest \/ UndoStep \/ Crash \/ Restart
  BY <1>3, SkipVerifyInv, RollbackRequestInv, RollbackStartInv, RollbackLoadInv, RollbackStepInv,
     RollbackEndInv, RollbackRaisesInv, CrashInv, RestartInv DEF UndoStep
<1>4. CASE UNCHANGED vars
  BY <1>4, StutterInv
<1> QED BY <1>1, <1>2, <1>3, <1>4 DEF Next

LEMMA Invariance == Spec => []IInv
<1> QED BY InitInv, NextInv, PTL DEF Spec

\* The rows, the coroutines and what is in place keep their types.
THEOREM TypeCorrect == Spec => []TypeOK
<1>1. IInv => TypeOK
  BY DEF IInv, Types
<1> QED BY <1>1, Invariance, PTL

\* No item is changed twice, whatever retries, overlapping requests, rollbacks and
\* crashes there are: only the workflow pushes, and each resumption finds every
\* item already reported in the result it loads.
THEOREM ItemsPushedOnce == Spec => []PushedOnce
<1>1. IInv => PushedOnce
  BY DEF IInv, PushOK
<1> QED BY <1>1, Invariance, PTL

\* A CR that is completed was verified: every item that was changed answered the
\* probe or was waived by an operator, and what answered is in place.
THEOREM CompletedWasVerified == Spec => []CompletedIsVerified
<1>1. IInv => CompletedIsVerified
  <2> SUFFICES ASSUME IInv, cr = "completed", ~misrouted, ~overlap
               PROVE  /\ Unverified(Latest.res) = {}
                      /\ kind # "k8s" => \A i \in Items : pushes[i] > 0 => i \in vouched
                      /\ \A i \in vouched \ waived : i \in applied \/ unseen
    BY DEF CompletedIsVerified
  <2>1. Unverified(Latest.res) = {}
    BY DEF IInv, CompleteOK
  <2>2. \A i \in vouched \ waived : i \in applied \/ unseen
    BY DEF IInv, ControlOK, UndoOK, VouchOK
  <2>3. ASSUME kind # "k8s", NEW i \in Items, pushes[i] > 0
        PROVE  i \in vouched
    <3>1. i \in Latest.res.items
      <4>1. CASE kind = "fanout"
        BY <2>3, <4>1 DEF IInv, FanoutOK, FanoutRuns, ReadyRun, Latest
      <4>2. CASE kind = "certificate"
        BY <4>2, BlankFacts DEF IInv, CertOK, MainOK, Latest
      <4> QED BY <2>3, <4>1, <4>2, PreparationFacts DEF IInv
    <3>2. Latest.res.ver[i] \in {"ok", "skipped"}
      BY <2>1, <3>1 DEF Unverified
    <3>3. Honest(Latest.res)
      BY DEF IInv, HonestOK, Latest
    <3> QED BY <3>2, <3>3 DEF Honest
  <2> QED BY <2>1, <2>2, <2>3
<1> QED BY <1>1, Invariance, PTL

\* When a certificate or fan-out CR is paused or completed, a rollback finds every
\* item that any result reports as changed.
THEOREM ChangesAreFound == Spec => []RollbackFindsChanges
<1>1. IInv => RollbackFindsChanges
  <2> SUFFICES ASSUME IInv, cr \in {"paused", "completed"}, kind # "k8s", ~misrouted, NEW i \in Items,
                      NEW r \in {main.res, own.res} \cup {exec[e].rec : e \in Execs}, r.upd[i] = "ok"
               PROVE  i \in ToUndo(RollbackResult)
    BY DEF RollbackFindsChanges
  <2>1. CASE kind = "certificate"
    <3>1. main.res.items = Items /\ own.st = "absent"
      BY <2>1, BlankFacts DEF IInv, CertOK, MainOK
    <3>2. RollbackResult = main.res
      BY <3>1 DEF RollbackResult, Latest
    <3> QED BY <2>1, <3>1, <3>2 DEF ToUndo
  <2>2. CASE kind = "fanout"
    <3>1. FanoutRuns /\ ReadyRun
      BY <2>2 DEF IInv, FanoutOK, FanoutRuns
    <3>2. own.res.upd[i] = "ok"
      <4>1. CASE r = own.res
        BY <4>1
      <4>2. CASE r = main.res
        <5>1. main.st \in {"pending", "failed"} => main.res.upd[i] = "none"
          BY <3>1 DEF FanoutRuns, None
        <5> QED BY <3>1, <4>2, <5>1 DEF FanoutRuns, Like
      <4>3. CASE r \in {exec[e].rec : e \in Execs}
        <5>1. PICK e \in Execs : r = exec[e].rec
          BY <4>3
        <5>2. PICK x : x = exec[e]
          OBVIOUS
        <5>3. FanoutExec(x)
          BY <2>2, <5>2 DEF IInv, FanoutOK
        <5>4. x.pc \notin {"off", "load"}
          BY <5>1, <5>2, <5>3 DEF FanoutExec, None
        <5>5. /\ x \in ExecType /\ x.flow \in BOOLEAN
              /\ ~overlap => cr = StatusAt(x.pc)
              /\ x.flow /\ x.pc \in Early \cup {"failcr"} => ~overlap
              /\ ~x.flow => x.pc \in Early \ {"prepare"}
          BY <5>2, <5>4, ActiveFacts
        <5>6. ~(x.flow /\ x.pc \in Early)
          BY <5>5 DEF StatusAt, Early
        <5>7. x.pc \notin {"failcr", "failrun"}
          BY <2>2, <5>2, <5>5 DEF IInv, ControlOK, FlowOK, Early
        <5>8. Late(x)
          BY <5>4, <5>5, <5>6, <5>7 DEF Late, LatePc, ExecType, ExecPc, Early
        <5> QED BY <5>1, <5>2, <5>3, <5>8 DEF FanoutExec, Like
      <4> QED BY <4>1, <4>2, <4>3
    <3>3. i \in own.res.items
      BY <3>1, <3>2 DEF FanoutRuns
    <3>4. PICK s : s = RollbackResult
      OBVIOUS
    <3>5. s.upd = own.res.upd /\ s.items = own.res.items /\ ~s.wrapped
      <4>1. CASE s = own.res
        BY <3>1, <4>1 DEF FanoutRuns
      <4>2. CASE s = main.res /\ main.st = "completed" /\ own.st # "completed"
        BY <3>1, <4>2 DEF FanoutRuns, Like, Over
      <4> QED BY <3>1, <3>4, <4>1, <4>2 DEF RollbackResult, Latest, ReadyRun
    <3> QED BY <2>2, <3>2, <3>3, <3>4, <3>5 DEF ToUndo
  <2> QED BY <2>1, <2>2, PreparationFacts DEF IInv
<1> QED BY <1>1, Invariance, PTL

\* rolled_back without warnings means that no item a run reports as changed still
\* carries the change, whatever crashes, failed executions and broken off rollbacks
\* came before: the rollback has found all of them, in whichever run they are.
THEOREM RolledBackWasUndone == Spec => []RolledBackIsUndone
<1>1. IInv => RolledBackIsUndone
  BY DEF IInv, ControlOK
<1> QED BY <1>1, Invariance, PTL
=============================================================================
