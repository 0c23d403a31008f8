------------------------ MODULE ProjectRollbackProofs ------------------------
(***************************************************************************)
(* Theorems about ProjectRollback, for any project, any number of          *)
(* rollbacks, requests in progress, processes and crashes.                 *)
(***************************************************************************)
EXTENDS ProjectRollback, TLAPS, FiniteSetTheorems, SequenceTheorems

(***************************************************************************)
(* The inductive invariant.                                                *)
(***************************************************************************)

\* A request in progress has a process, a rollback that exists and, to decide,
\* one of its steps.
HandlerOK ==
  \A h \in Handlers :
    /\ handler[h].pc # "free" => handler[h].proc \in Procs
    /\ handler[h].pc \in {"pause", "resume", "decide"} => handler[h].rb \in 1..nrb
    /\ handler[h].pc = "decide" => handler[h].cur \in 1..Len(steps[handler[h].rb])

\* A row that does not exist yet is untouched.
Untouched(r) ==
  nrb < r => /\ rollback[r] = "none" /\ steps[r] = <<>>
             /\ \A p \in Procs : ~Driving(p, r) /\ r \notin wake[p]

Held(p, r)   == driver[p][r].pc \in {"next", "mark", "exec", "record"}
AtStep(p, r) == driver[p][r].pc \in {"mark", "exec", "record"}

\* The steps a driver has in hand are steps of its rollback.
Indexed(r) ==
  \A p \in Procs :
    /\ driver[p][r].todo \subseteq 1..Len(steps[r])
    /\ AtStep(p, r) => driver[p][r].cur \in 1..Len(steps[r])

\* Unless there were twins, a rollback has one driver at most, which knows that
\* the rollback is running until it completes it or finds it paused.
SoleDriver(r) ==
  r \notin twin =>
    /\ \A p, q \in Procs : Driving(p, r) /\ Driving(q, r) => p = q
    /\ \A p \in Procs :
         /\ Held(p, r) => driver[p][r].saw = "running"
         /\ Held(p, r) \/ (driver[p][r].pc = "begin" /\ driver[p][r].saw = "running")
              => rollback[r] \in {"running", "paused"}

\* RunningIsDriven, for one rollback.
Attended(r) ==
  (rollback[r] \in {"running"} \cup (IF crashes = 0 THEN {"pending"} ELSE {})
    /\ r \notin dropped \cup twin) =>
      \/ Driven(r)
      \/ \E i \in 1..Len(steps[r]) : steps[r][i].st = "awaiting_user"
      \/ \E p \in Procs : ~up[p]

\* Undisturbed, the steps are unwound from the first to the last: the driver has
\* settled all steps that it has no longer in hand, and none behind the first
\* unsettled one has been touched.
InOrder(r) ==
  \A i \in 1..Len(steps[r]) :
    /\ steps[r][i].pos = i
    /\ \/ steps[r][i].st \in Settled
       \/ /\ rollback[r] # "completed"
          /\ \A j \in 1..Len(steps[r]) : i < j => steps[r][j].st \in {"pending", "skipped"}

DriverInOrder(p, r) ==
  LET d == driver[p][r] IN
  /\ d.pc = "begin" => d.todo = 1..Len(steps[r])
  /\ Held(p, r) => \A i \in 1..Len(steps[r]) : i \in d.todo \/ steps[r][i].st \in Settled
  /\ AtStep(p, r) => d.cur \in d.todo /\ \A j \in d.todo : d.cur <= j
  /\ d.pc = "mark" => d.old = steps[r][d.cur].st /\ d.old \in {"pending", "running"}
  /\ d.pc \in {"exec", "record"} => steps[r][d.cur].st = "running"

Ordered(r) == Undisturbed(r) => InOrder(r) /\ \A p \in Procs : DriverInOrder(p, r)

RowInv(r) == Untouched(r) /\ Indexed(r) /\ SoleDriver(r) /\ Attended(r) /\ Ordered(r)

IInv ==
  /\ TypeOK /\ HandlerOK /\ RollingBackHasRollback
  /\ \A p \in Procs : ~up[p] => crashes > 0
  /\ \A r \in Rollbacks : RowInv(r)
-----------------------------------------------------------------------------
(* The order of the steps.                                                 *)

\* A strict linear order of the members.
Linear(b) ==
  \A c, d, e \in Members :
    /\ <<c, c>> \notin b
    /\ c # d => <<c, d>> \in b \/ <<d, c>> \in b
    /\ <<c, d>> \in b /\ <<d, e>> \in b => <<c, e>> \in b

LEMMA PlanLinear == ASSUME NEW row \in MemberRows PROVE Linear(BeforeByPlan(row))
<1>1. \A c, d \in Members : row[c] \in Int /\ (row[c] = row[d] => c = d)
  BY DEF MemberRows
<1> QED
  BY <1>1, ProjectAssumption DEF Linear, BeforeByPlan

LEMMA KeyLinear == ASSUME NEW row \in MemberRows PROVE Linear(BeforeByKey(row))
<1> DEFINE k1(m) == IF AppSeq[m] # 0 THEN 1 ELSE 0
           k2(m) == IF AppSeq[m] # 0 THEN AppSeq[m] ELSE PlanOrder[m]
           B(c, d) == \/ k1(c) > k1(d)
                      \/ k1(c) = k1(d) /\ k2(c) > k2(d)
                      \/ k1(c) = k1(d) /\ k2(c) = k2(d) /\ row[c] < row[d]
<1>1. ASSUME NEW c \in Members, NEW d \in Members PROVE <<c, d>> \in BeforeByKey(row) <=> B(c, d)
  BY DEF BeforeByKey
<1>2. ASSUME NEW m \in Members
      PROVE  k1(m) \in Int /\ k2(m) \in Int /\ row[m] \in Int
  BY ProjectAssumption DEF MemberRows
<1>3. ASSUME NEW c \in Members, NEW d \in Members, NEW e \in Members
      PROVE  /\ ~B(c, c)
             /\ c # d => B(c, d) \/ B(d, c)
             /\ B(c, d) /\ B(d, e) => B(c, e)
  <2> HIDE DEF k1, k2
  <2>1. c # d => row[c] # row[d]
    BY DEF MemberRows
  <2> QED
    BY <1>2, <2>1
<1> HIDE DEF B
<1> QED
  BY <1>1, <1>3 DEF Linear

Before(S, b, c) == {d \in S : <<d, c>> \in b}
Position(S, b)  == [c \in S |-> 1 + Cardinality(Before(S, b, c))]

\* A member's position is smaller than that of a member after it.
LEMMA PositionsGrow ==
  ASSUME NEW S \in SUBSET Members, NEW b, Linear(b)
  PROVE  /\ IsFiniteSet(S) /\ Cardinality(S) \in Nat
         /\ Position(S, b) \in [S -> 1..Cardinality(S)]
         /\ \A c, d \in S : <<c, d>> \in b => Position(S, b)[c] < Position(S, b)[d]
<1>1. IsFiniteSet(S) /\ Cardinality(S) \in Nat
  BY ProjectAssumption, FS_Subset, FS_CardinalityType
<1>2. ASSUME NEW c \in S
      PROVE  /\ IsFiniteSet(Before(S, b, c)) /\ Cardinality(Before(S, b, c)) \in Nat
             /\ Cardinality(Before(S, b, c)) <= Cardinality(S) - 1
  <2>1. c \notin Before(S, b, c)
    BY DEF Before, Linear
  <2>2. Before(S, b, c) \in SUBSET (S \ {c})
    BY <2>1 DEF Before
  <2>3. IsFiniteSet(S \ {c}) /\ Cardinality(S \ {c}) = Cardinality(S) - 1
    BY <1>1, FS_RemoveElement
  <2> QED
    BY <2>2, <2>3, FS_Subset, FS_CardinalityType
<1>3. ASSUME NEW c \in S, NEW d \in S, <<c, d>> \in b
      PROVE  Cardinality(Before(S, b, c)) + 1 <= Cardinality(Before(S, b, d))
  <2>1. c \notin Before(S, b, c)
    BY DEF Before, Linear
  <2>2. Before(S, b, c) \cup {c} \in SUBSET Before(S, b, d)
    BY <1>3 DEF Before, Linear
  <2>3. Cardinality(Before(S, b, c) \cup {c}) = Cardinality(Before(S, b, c)) + 1
    BY <1>2, <2>1, FS_AddElement
  <2> QED
    BY <1>2, <2>2, <2>3, FS_Subset
<1>4. Position(S, b) \in [S -> 1..Cardinality(S)]
  BY <1>1, <1>2 DEF Position
<1>5. ASSUME NEW c \in S, NEW d \in S, <<c, d>> \in b
      PROVE  Position(S, b)[c] < Position(S, b)[d]
  BY <1>2, <1>3, <1>5 DEF Position
<1> QED
  BY <1>1, <1>4, <1>5

\* Every position is that of exactly one member.
LEMMA PositionsFilled ==
  ASSUME NEW S \in SUBSET Members, NEW b, Linear(b), NEW i \in 1..Cardinality(S)
  PROVE  \E c \in S : Position(S, b)[c] = i
<1> DEFINE f == Position(S, b)
           n == Cardinality(S)
<1>1. /\ IsFiniteSet(S) /\ n \in Nat /\ f \in [S -> 1..n]
      /\ \A c, d \in S : <<c, d>> \in b => f[c] < f[d]
  BY PositionsGrow
<1>2. \A c \in S : f[c] \in Nat
  BY <1>1
<1>3. \A c, d \in S : f[c] = f[d] => c = d
  <2> SUFFICES ASSUME NEW c \in S, NEW d \in S, f[c] = f[d], c # d PROVE FALSE
    OBVIOUS
  <2>1. <<c, d>> \in b \/ <<d, c>> \in b
    BY DEF Linear
  <2>2. f[c] < f[d] \/ f[d] < f[c]
    BY <1>1, <2>1
  <2> HIDE DEF f
  <2> QED
    BY <1>2, <2>2
<1>4. f \in Injection(S, 1..n)
  BY <1>1, <1>3 DEF Injection, IsInjective
<1>5. IsFiniteSet(1..n) /\ Cardinality(1..n) = n
  BY <1>1, FS_Interval
<1>6. f \in Surjection(S, 1..n)
  BY <1>4, <1>5, FS_Injection
<1> QED
  BY <1>6 DEF Surjection

LEMMA RowsInOrder ==
  ASSUME NEW S \in SUBSET Members, NEW b, Linear(b)
  PROVE  /\ StepRows(S, b) \in Seq(StepType) /\ Len(StepRows(S, b)) = Cardinality(S)
         /\ \A i \in 1..Cardinality(S) :
              /\ StepRows(S, b)[i].pos = i /\ StepRows(S, b)[i].st = "pending"
              /\ StepRows(S, b)[i].cr \in S
              /\ Position(S, b)[StepRows(S, b)[i].cr] = i
<1> DEFINE n == Cardinality(S)
           m(i) == CHOOSE c \in S : Position(S, b)[c] = i
           T == [i \in 1..n |-> [cr |-> m(i), pos |-> i, st |-> "pending"]]
<1>1. n \in Nat
  BY PositionsGrow
<1>2. \A c \in S : Position(S, b)[c] = 1 + Cardinality({d \in S : <<d, c>> \in b})
  BY DEF Position, Before
<1>3. ASSUME NEW i \in 1..n
      PROVE  /\ m(i) \in S /\ Position(S, b)[m(i)] = i
             /\ [cr |-> m(i), pos |-> i, st |-> "pending"] \in StepType
  <2>1. \E c \in S : Position(S, b)[c] = i
    BY PositionsFilled
  <2>2. m(i) \in S /\ Position(S, b)[m(i)] = i
    BY <2>1
  <2> QED
    BY <2>2, <1>1 DEF StepType, StepStatus
<1>4. ASSUME NEW i \in 1..n
      PROVE  (CHOOSE c \in S : 1 + Cardinality({d \in S : <<d, c>> \in b}) = i) = m(i)
  BY <1>2
<1>5. StepRows(S, b) = T
  BY <1>4 DEF StepRows
<1>6. T \in Seq(StepType) /\ Len(T) = n
  BY <1>1, <1>3
<1>7. \A i \in 1..n : T[i].pos = i /\ T[i].st = "pending" /\ T[i].cr = m(i)
  OBVIOUS
<1> HIDE DEF m, T
<1> QED
  BY <1>3, <1>5, <1>6, <1>7

\* The steps of a rollback are exactly the selected members, each once, in the
\* order that initiate and _populate_steps_for_auto_rollback sort by.
THEOREM StepsInOrder ==
  ASSUME NEW S \in SUBSET Members, NEW row \in MemberRows,
         NEW b \in {BeforeByKey(row), BeforeByPlan(row)}
  PROVE  /\ Len(StepRows(S, b)) = Cardinality(S)
         /\ {StepRows(S, b)[i].cr : i \in 1..Cardinality(S)} = S
         /\ \A i, j \in 1..Cardinality(S) :
              i < j => <<StepRows(S, b)[i].cr, StepRows(S, b)[j].cr>> \in b
<1> DEFINE t == StepRows(S, b)
           n == Cardinality(S)
           f == Position(S, b)
<1>1. Linear(b)
  BY PlanLinear, KeyLinear
<1>2. /\ n \in Nat /\ f \in [S -> 1..n]
      /\ \A c, d \in S : <<c, d>> \in b => f[c] < f[d]
  BY <1>1, PositionsGrow
<1>3. /\ Len(t) = n
      /\ \A i \in 1..n : t[i].cr \in S /\ f[t[i].cr] = i
  BY <1>1, RowsInOrder
<1>4. \A c, d \in S : f[c] = f[d] => c = d
  <2> SUFFICES ASSUME NEW c \in S, NEW d \in S, f[c] = f[d], c # d PROVE FALSE
    OBVIOUS
  <2>1. <<c, d>> \in b \/ <<d, c>> \in b
    BY <1>1 DEF Linear
  <2>2. f[c] < f[d] \/ f[d] < f[c]
    BY <1>2, <2>1
  <2>3. f[c] \in Nat
    BY <1>2
  <2> HIDE DEF f
  <2> QED
    BY <2>2, <2>3
<1> HIDE DEF t, n, f
<1>5. ASSUME NEW c \in S PROVE c = t[f[c]].cr /\ f[c] \in 1..n
  BY <1>2, <1>3, <1>4
<1>6. {t[i].cr : i \in 1..n} = S
  BY <1>3, <1>5
<1>7. ASSUME NEW i \in 1..n, NEW j \in 1..n, i < j PROVE <<t[i].cr, t[j].cr>> \in b
  <2>1. t[i].cr # t[j].cr /\ ~(f[t[j].cr] < f[t[i].cr])
    BY <1>2, <1>3, <1>7
  <2>2. t[i].cr \in S /\ t[j].cr \in S
    BY <1>3
  <2>3. <<t[j].cr, t[i].cr>> \notin b
    BY <1>2, <2>1, <2>2
  <2> QED
    BY <1>1, <2>1, <2>2, <2>3 DEF Linear
<1> QED
  BY <1>3, <1>6, <1>7 DEF t, n
-----------------------------------------------------------------------------
(* Effects of the model's operators on its nested rows.                    *)

LEMMA OffType == Off \in DriverType /\ Leaving \in DriverType
  BY DEF Off, Leaving, DriverType, RollbackStatus, StepStatus

LEMMA FreeType == Free \in HandlerType
  BY ProjectAssumption DEF Free, HandlerType, RollbackStatus, StepStatus, Decision

LEMMA DriveEffect ==
  ASSUME TypeOK, NEW p \in Procs, NEW r \in Rollbacks, NEW d \in DriverType, Drive(p, r, d)
  PROVE  /\ driver' \in [Procs -> [Rollbacks -> DriverType]]
         /\ driver'[p][r] = d
         /\ \A q \in Procs, s \in Rollbacks : q # p \/ s # r => driver'[q][s] = driver[q][s]
<1>1. driver' = [driver EXCEPT ![p] = [driver[p] EXCEPT ![r] = d]]
  BY DEF Drive
<1>2. [driver[p] EXCEPT ![r] = d] \in [Rollbacks -> DriverType]
  BY DEF TypeOK
<1> QED
  BY <1>1, <1>2 DEF TypeOK

SetStep(r, i, s) == steps' = [steps EXCEPT ![r][i].st = s]

LEMMA StepEffect ==
  ASSUME TypeOK, NEW r \in Rollbacks, NEW i \in 1..Len(steps[r]), NEW s \in StepStatus,
         SetStep(r, i, s)
  PROVE  /\ steps' \in [Rollbacks -> Seq(StepType)]
         /\ \A q \in Rollbacks : q # r => steps'[q] = steps[q]
         /\ Len(steps'[r]) = Len(steps[r])
         /\ \A j \in 1..Len(steps[r]) :
              /\ steps'[r][j].pos = steps[r][j].pos
              /\ steps'[r][j].st = IF j = i THEN s ELSE steps[r][j].st
<1> DEFINE x == [steps[r][i] EXCEPT !.st = s]
           t == [steps[r] EXCEPT ![i] = x]
<1>1. steps[r] \in Seq(StepType)
  BY DEF TypeOK
<1>2. steps[r][i] \in StepType
  BY <1>1, ElementOfSeq
<1>3. x \in StepType /\ x.pos = steps[r][i].pos /\ x.st = s
  BY <1>2 DEF StepType
<1>4. steps' = [steps EXCEPT ![r] = t]
  BY DEF SetStep
<1> HIDE DEF x
<1>5. /\ t \in Seq(StepType) /\ Len(t) = Len(steps[r])
      /\ \A j \in 1..Len(steps[r]) : t[j] = IF j = i THEN x ELSE steps[r][j]
  BY <1>1, <1>3, ExceptSeq
<1> HIDE DEF t
<1>6. steps'[r] = t /\ steps' \in [Rollbacks -> Seq(StepType)]
  BY <1>4, <1>5 DEF TypeOK
<1>7. \A q \in Rollbacks : q # r => steps'[q] = steps[q]
  BY <1>4 DEF TypeOK
<1> QED
  BY <1>3, <1>5, <1>6, <1>7

LEMMA WakeEffect ==
  ASSUME TypeOK, NEW p \in Procs, NEW r \in Rollbacks, EnsureDriver(p, r)
  PROVE  /\ wake' \in [Procs -> SUBSET Rollbacks]
         /\ r \in wake'[p]
         /\ \A q \in Procs : wake[q] \subseteq wake'[q]
         /\ \A q \in Procs, s \in Rollbacks : s # r => (s \in wake'[q] <=> s \in wake[q])
  BY DEF TypeOK, EnsureDriver

LEMMA RollbackEffect ==
  ASSUME TypeOK, NEW r \in Rollbacks, NEW s \in RollbackStatus,
         rollback' = [rollback EXCEPT ![r] = s]
  PROVE  /\ rollback' \in [Rollbacks -> RollbackStatus] /\ rollback'[r] = s
         /\ \A q \in Rollbacks : q # r => rollback'[q] = rollback[q]
  BY DEF TypeOK

\* What a step does not change of the other rollbacks.
Others(r) ==
  /\ \A q \in Rollbacks : q # r =>
       /\ rollback'[q] = rollback[q] /\ steps'[q] = steps[q]
       /\ \A p \in Procs : driver'[p][q] = driver[p][q] /\ (q \in wake'[p] <=> q \in wake[p])
       /\ q \in twin' <=> q \in twin
       /\ q \in disturbed' <=> q \in disturbed
       /\ q \in dropped' <=> q \in dropped
  /\ up' = up /\ crashes' = crashes /\ (nrb' = nrb \/ (nrb' = nrb + 1 /\ r = nrb + 1))

LEMMA OthersInv ==
  ASSUME TypeOK, NEW r \in Rollbacks, Others(r), NEW q \in Rollbacks, q # r, RowInv(q)
  PROVE  RowInv(q)'
<1>1. /\ rollback'[q] = rollback[q] /\ steps'[q] = steps[q]
      /\ \A p \in Procs : driver'[p][q] = driver[p][q] /\ (q \in wake'[p] <=> q \in wake[p])
      /\ q \in twin' <=> q \in twin
      /\ q \in disturbed' <=> q \in disturbed
      /\ q \in dropped' <=> q \in dropped
      /\ up' = up /\ crashes' = crashes
  BY DEF Others
<1>2. Untouched(q)'
  <2>1. nrb' < q => nrb < q
    BY DEF Others, TypeOK, Rollbacks
  <2> QED
    BY <1>1, <2>1 DEF RowInv, Untouched, Driving
<1>3. Indexed(q)'
  BY <1>1 DEF RowInv, Indexed, AtStep
<1>4. SoleDriver(q)'
  BY <1>1 DEF RowInv, SoleDriver, Held, Driving
<1>5. Attended(q)'
  BY <1>1 DEF RowInv, Attended, Driven, Driving
<1>6. Ordered(q)'
  BY <1>1 DEF RowInv, Ordered, Undisturbed, InOrder, DriverInOrder, Held, AtStep
<1> QED
  BY <1>2, <1>3, <1>4, <1>5, <1>6 DEF RowInv

LEMMA SameRowsInv ==
  ASSUME NEW q \in Rollbacks, RowInv(q),
         UNCHANGED <<rollback, steps, nrb, driver, wake, up, crashes, history>>
  PROVE  RowInv(q)'
  BY DEF history, RowInv, Untouched, Indexed, SoleDriver, Attended, Driven, Ordered, Undisturbed, InOrder,
         DriverInOrder, Held, AtStep, Driving

\* Requests in progress keep what they refer to.
LEMMA RequestsKept ==
  ASSUME IInv, nrb' \in {nrb, nrb + 1},
         \A q \in 1..nrb : Len(steps'[q]) \in Nat /\ Len(steps[q]) <= Len(steps'[q]),
         \A h \in Handlers : handler'[h] \in {handler[h], Free}
  PROVE  HandlerOK'
<1> SUFFICES ASSUME NEW h \in Handlers, handler'[h] = handler[h]
             PROVE  /\ handler[h].pc # "free" => handler[h].proc \in Procs
                    /\ handler[h].pc \in {"pause", "resume", "decide"} => handler[h].rb \in 1..nrb'
                    /\ handler[h].pc = "decide" => handler[h].cur \in 1..Len(steps'[handler[h].rb])
  BY DEF HandlerOK, Free
<1>1. nrb \in Nat /\ \A q \in 1..nrb : q \in 1..nrb' /\ Len(steps[q]) \in Nat
  <2>1. nrb \in Nat /\ \A q \in 1..nrb : q \in 1..nrb' /\ q \in Rollbacks
    BY ProjectAssumption DEF IInv, TypeOK, Rollbacks
  <2> QED
    BY <2>1, LenProperties DEF IInv, TypeOK
<1>2. handler[h].pc = "decide" => handler[h].cur \in 1..Len(steps'[handler[h].rb])
  <2> SUFFICES ASSUME handler[h].pc = "decide" PROVE handler[h].cur \in 1..Len(steps'[handler[h].rb])
    OBVIOUS
  <2>1. handler[h].rb \in 1..nrb /\ handler[h].cur \in 1..Len(steps[handler[h].rb])
    BY DEF IInv, HandlerOK
  <2> QED
    BY <1>1, <2>1
<1> QED
  BY <1>1, <1>2 DEF IInv, HandlerOK

LEMMA ReplyEffect ==
  ASSUME TypeOK, NEW h \in Handlers, Reply(h)
  PROVE  /\ handler' \in [Handlers -> HandlerType]
         /\ \A g \in Handlers : handler'[g] \in {handler[g], Free}
  BY FreeType DEF TypeOK, Reply
-----------------------------------------------------------------------------
(* Requests.                                                               *)

LEMMA ServeInv ==
  ASSUME IInv, NEW h \in Handlers, NEW p \in Procs, NEW rec \in HandlerType, Serve(h, p, rec),
         rec.pc \in {"pause", "resume", "decide"} => rec.rb \in 1..nrb,
         rec.pc = "decide" => rec.cur \in 1..Len(steps[rec.rb])
  PROVE  IInv'
<1>1. /\ requests < MaxRequests /\ requests' = requests + 1
      /\ handler' = [handler EXCEPT ![h] = [rec EXCEPT !.proc = p]]
      /\ UNCHANGED <<project, status, rollback, steps, nrb, driver, wake, up, crashes, history>>
  BY DEF Serve, rows
<1>2. [rec EXCEPT !.proc = p] \in HandlerType
  BY DEF HandlerType
<1>3. requests' \in 0..MaxRequests
  BY <1>1, ProjectAssumption DEF IInv, TypeOK
<1>4. TypeOK'
  BY <1>1, <1>2, <1>3 DEF IInv, TypeOK, history
<1>5. handler'[h].proc = p /\ handler'[h].pc = rec.pc /\ handler'[h].rb = rec.rb /\ handler'[h].cur = rec.cur
  BY <1>1 DEF IInv, TypeOK, HandlerType
<1>6. \A g \in Handlers : g # h => handler'[g] = handler[g]
  BY <1>1 DEF IInv, TypeOK
<1>7. HandlerOK'
  BY <1>1, <1>5, <1>6 DEF IInv, HandlerOK
<1>8. \A r \in Rollbacks : RowInv(r)'
  BY <1>1, SameRowsInv DEF IInv
<1> QED
  BY <1>1, <1>4, <1>7, <1>8 DEF IInv, RollingBackHasRollback

LEMMA RequestInv ==
  ASSUME IInv, NEW h \in Handlers, NEW p \in Procs,
         \/ InitiateRequest(h, p) \/ McpInitiateRequest(h, p)
         \/ PauseRequest(h, p) \/ ResumeRequest(h, p) \/ DecisionRequest(h, p)
  PROVE  IInv'
<1>1. nrb \in Nat /\ \A r \in 1..nrb : r \in Rollbacks /\ r \in 0..MaxRollbacks
  BY ProjectAssumption DEF IInv, TypeOK, Rollbacks
<1>2. Eligible \in SUBSET Members /\ project \in {"in_progress", "rolling_back"}
  BY DEF Eligible, IInv, TypeOK
<1>3. ASSUME NEW S \in SUBSET Members, Serve(h, p, [Free EXCEPT !.pc = "initiate", !.sel = S, !.saw = project])
      PROVE  IInv'
  <2>1. [Free EXCEPT !.pc = "initiate", !.sel = S, !.saw = project] \in HandlerType
    BY <1>2, FreeType DEF HandlerType
  <2> QED
    BY <1>3, <2>1, ServeInv DEF Free
<1>4. CASE InitiateRequest(h, p)
  <2>1. PICK sel \in Selections :
          Serve(h, p, [Free EXCEPT !.pc = "initiate", !.sel = Eligible \cap sel, !.saw = project])
    BY <1>4 DEF InitiateRequest
  <2>2. Eligible \cap sel \in SUBSET Members
    BY <1>2
  <2> QED
    BY <1>3, <2>1, <2>2
<1>5. CASE McpInitiateRequest(h, p)
  <2>1. PICK sel \in {Eligible} \cup {{c \in Eligible : PlanOrder[c] >= PlanOrder[first]} :
                                         first \in Eligible} :
          Serve(h, p, [Free EXCEPT !.pc = "initiate", !.sel = sel, !.saw = project])
    BY <1>5 DEF McpInitiateRequest
  <2>2. sel \in SUBSET Members
    BY <1>2
  <2> QED
    BY <1>3, <2>1, <2>2
<1>6. CASE PauseRequest(h, p)
  <2>1. PICK r \in 1..nrb : Serve(h, p, [Free EXCEPT !.pc = "pause", !.rb = r])
    BY <1>6 DEF PauseRequest, Latest
  <2>2. [Free EXCEPT !.pc = "pause", !.rb = r] \in HandlerType
    BY <1>1, FreeType DEF HandlerType
  <2> QED
    BY <2>1, <2>2, ServeInv DEF Free
<1>7. CASE ResumeRequest(h, p)
  <2>1. PICK r \in 1..nrb :
          Serve(h, p, [Free EXCEPT !.pc = "resume", !.rb = r, !.saw = project,
                         !.cur = Len(steps[r]), !.sel = IF steps[r] = <<>> THEN Eligible ELSE {}])
    BY <1>7 DEF ResumeRequest, Latest
  <2>2. Len(steps[r]) \in Nat
    BY <1>1, LenProperties DEF IInv, TypeOK
  <2>3. [Free EXCEPT !.pc = "resume", !.rb = r, !.saw = project,
           !.cur = Len(steps[r]), !.sel = IF steps[r] = <<>> THEN Eligible ELSE {}] \in HandlerType
    BY <1>1, <1>2, <2>2, FreeType DEF HandlerType
  <2> QED
    BY <2>1, <2>3, ServeInv DEF Free
<1>8. CASE DecisionRequest(h, p)
  <2>1. PICK r \in 1..nrb, act \in Decision : \E i \in 1..Len(steps[r]) :
          Serve(h, p, [Free EXCEPT !.pc = "decide", !.rb = r, !.cur = i, !.act = act,
                         !.old = steps[r][i].st, !.saw = rollback[r]])
    BY <1>8 DEF DecisionRequest
  <2>2. PICK i \in 1..Len(steps[r]) :
          Serve(h, p, [Free EXCEPT !.pc = "decide", !.rb = r, !.cur = i, !.act = act,
                         !.old = steps[r][i].st, !.saw = rollback[r]])
    BY <2>1
  <2>3. steps[r][i] \in StepType /\ Len(steps[r]) \in Nat
    BY <1>1, LenProperties, ElementOfSeq DEF IInv, TypeOK
  <2>4. steps[r][i].st \in StepStatus /\ i \in Nat /\ rollback[r] \in RollbackStatus
    <3>1. steps[r][i].st \in StepStatus
      BY <2>3 DEF StepType
    <3>2. i \in Nat
      BY <2>3
    <3> QED
      BY <1>1, <3>1, <3>2 DEF IInv, TypeOK
  <2>5. [Free EXCEPT !.pc = "decide", !.rb = r, !.cur = i, !.act = act,
           !.old = steps[r][i].st, !.saw = rollback[r]] \in HandlerType
    BY <1>1, <2>4, FreeType DEF HandlerType
  <2> QED
    BY <2>2, <2>5, ServeInv DEF Free
<1> QED
  BY <1>4, <1>5, <1>6, <1>7, <1>8

LEMMA MemberEndsInv ==
  ASSUME IInv, NEW h \in Handlers, NEW p \in Procs, NEW c \in Members, MemberEnds(h, p, c)
  PROVE  IInv'
<1> DEFINE x == [Free EXCEPT !.pc = "auto", !.proc = p]
<1>1. x \in HandlerType /\ x.pc = "auto" /\ x.proc = p
  BY FreeType DEF HandlerType, Free
<1>2. /\ status' \in [Members -> CRStatus]
      /\ handler' \in {handler, [handler EXCEPT ![h] = x]}
      /\ UNCHANGED <<project, rollback, steps, nrb, driver, wake, up, crashes, requests, history>>
  BY DEF MemberEnds, CRStatus, IInv, TypeOK
<1> HIDE DEF x
<1>3. \A g \in Handlers : handler'[g] \in {handler[g], x}
  BY <1>2 DEF IInv, TypeOK
<1>4. TypeOK'
  BY <1>1, <1>2 DEF IInv, TypeOK, history
<1>5. HandlerOK'
  BY <1>1, <1>2, <1>3 DEF IInv, HandlerOK
<1>6. \A r \in Rollbacks : RowInv(r)'
  BY <1>2, SameRowsInv DEF IInv
<1> QED
  BY <1>2, <1>4, <1>5, <1>6 DEF IInv, RollingBackHasRollback
-----------------------------------------------------------------------------
(* Steps that touch one rollback.                                          *)

LEMMA OneRow ==
  ASSUME IInv, NEW r \in Rollbacks, TypeOK', HandlerOK', RollingBackHasRollback', Others(r), RowInv(r)'
  PROVE  IInv'
<1>1. \A q \in Rollbacks : RowInv(q)'
  BY OthersInv DEF IInv
<1>2. up' = up /\ crashes' = crashes
  BY DEF Others
<1> QED
  BY <1>1, <1>2 DEF IInv

\* Only the end of a rollback, which releases the project, makes it completed.
LEMMA StillRollingBack ==
  ASSUME IInv, project' = project, nrb' = nrb,
         \A q \in Rollbacks : rollback'[q] = "completed" => rollback[q] = "completed"
  PROVE  RollingBackHasRollback'
<1>1. \A q \in 1..nrb : q \in Rollbacks
  BY ProjectAssumption DEF IInv, TypeOK, Rollbacks
<1> QED
  BY <1>1 DEF IInv, RollingBackHasRollback

LEMMA HandlerFacts ==
  ASSUME IInv, NEW h \in Handlers, handler[h].pc # "free"
  PROVE  /\ handler[h] \in HandlerType /\ handler[h].proc \in Procs /\ handler[h].sel \in SUBSET Members
         /\ handler[h].pc \in {"pause", "resume", "decide"} =>
              handler[h].rb \in Rollbacks /\ handler[h].rb \in 1..nrb /\ ~(nrb < handler[h].rb)
<1>1. handler[h] \in HandlerType
  BY DEF IInv, TypeOK
<1>2. handler[h].proc \in Procs /\ handler[h].sel \in SUBSET Members
  BY <1>1 DEF HandlerType, IInv, HandlerOK
<1>3. handler[h].pc \in {"pause", "resume", "decide"} => handler[h].rb \in 1..nrb
  BY DEF IInv, HandlerOK
<1>4. \A r \in 1..nrb : r \in Rollbacks /\ ~(nrb < r)
  BY ProjectAssumption DEF IInv, TypeOK, Rollbacks
<1> QED
  BY <1>1, <1>2, <1>3, <1>4

\* The rows of a rollback that begins.
LEMMA RowsPending ==
  ASSUME NEW S \in SUBSET Members, NEW b, Linear(b)
  PROVE  /\ StepRows(S, b) \in Seq(StepType) /\ Len(StepRows(S, b)) \in Nat
         /\ \A i \in 1..Len(StepRows(S, b)) :
              StepRows(S, b)[i].pos = i /\ StepRows(S, b)[i].st = "pending"
<1> DEFINE t == StepRows(S, b)
<1>1. /\ t \in Seq(StepType) /\ Len(t) = Cardinality(S)
      /\ \A i \in 1..Cardinality(S) : t[i].pos = i /\ t[i].st = "pending"
  BY RowsInOrder
<1> HIDE DEF t
<1>2. Len(t) \in Nat
  BY <1>1, LenProperties
<1> QED
  BY <1>1, <1>2 DEF t

LEMMA InitiateInv == ASSUME IInv, NEW h \in Handlers, Initiate(h) PROVE IInv'
<1>0. PICK r \in Rollbacks : r = nrb + 1
  BY ProjectAssumption DEF Initiate, IInv, TypeOK, Rollbacks
<1>a. PICK row \in MemberRows :
         steps' = [steps EXCEPT ![nrb + 1] = StepRows(handler[h].sel, BeforeByKey(row))]
  BY DEF Initiate
<1> DEFINE t == StepRows(handler[h].sel, BeforeByKey(row))
<1>1. /\ nrb < MaxRollbacks /\ nrb' = r /\ handler[h].pc = "initiate"
      /\ rollback' = [rollback EXCEPT ![r] = "pending"] /\ steps' = [steps EXCEPT ![r] = t]
      /\ project' \in {project, "rolling_back"}
      /\ EnsureDriver(handler[h].proc, r) /\ Reply(h)
      /\ UNCHANGED <<status, driver, up, crashes, requests, twin, disturbed, dropped>>
  BY <1>0, <1>a DEF Initiate, history
<1>2. handler[h].proc \in Procs /\ handler[h].sel \in SUBSET Members
  BY <1>1, HandlerFacts
<1>3. nrb \in Nat /\ r = nrb + 1 /\ r \in Rollbacks /\ nrb < r /\ r \in 0..MaxRollbacks /\ r \in 1..r /\ ~(r < r)
  BY <1>0, <1>1, ProjectAssumption DEF IInv, TypeOK, Rollbacks
<1>4. /\ t \in Seq(StepType) /\ Len(t) \in Nat
      /\ \A i \in 1..Len(t) : t[i].pos = i /\ t[i].st = "pending"
  BY <1>2, KeyLinear, RowsPending
<1>5. /\ wake' \in [Procs -> SUBSET Rollbacks] /\ r \in wake'[handler[h].proc]
      /\ \A p \in Procs, q \in Rollbacks : q # r => (q \in wake'[p] <=> q \in wake[p])
  BY <1>1, <1>2, <1>3, WakeEffect DEF IInv
<1>6. /\ handler' \in [Handlers -> HandlerType]
      /\ \A g \in Handlers : handler'[g] \in {handler[g], Free}
  BY <1>1, ReplyEffect DEF IInv
<1> HIDE DEF t
<1>7. /\ rollback' \in [Rollbacks -> RollbackStatus] /\ rollback'[r] = "pending"
      /\ steps' \in [Rollbacks -> Seq(StepType)] /\ steps'[r] = t
      /\ \A q \in Rollbacks : q # r => rollback'[q] = rollback[q] /\ steps'[q] = steps[q]
  BY <1>1, <1>3, <1>4 DEF IInv, TypeOK, RollbackStatus
<1>8. TypeOK'
  BY <1>1, <1>3, <1>5, <1>6, <1>7 DEF IInv, TypeOK
<1>9. HandlerOK'
  <2>1. \A q \in 1..nrb : q \in Rollbacks /\ q # r
    BY <1>3, ProjectAssumption DEF IInv, TypeOK, Rollbacks
  <2>2. \A q \in Rollbacks : Len(steps[q]) \in Nat
    BY LenProperties DEF IInv, TypeOK
  <2>3. \A q \in 1..nrb : Len(steps'[q]) \in Nat /\ Len(steps[q]) <= Len(steps'[q])
    BY <1>7, <2>1, <2>2
  <2>4. nrb' \in {nrb, nrb + 1}
    BY <1>1, <1>3
  <2> QED
    BY <1>6, <2>3, <2>4, RequestsKept
<1>10. RollingBackHasRollback'
  BY <1>1, <1>3, <1>7 DEF RollingBackHasRollback
<1>11. Others(r)
  BY <1>1, <1>3, <1>5, <1>7 DEF Others
<1>12. RowInv(r)'
  <2>1. \A p \in Procs : driver'[p][r].pc = "off" /\ driver'[p][r].todo \subseteq 1..Len(<<>>)
    BY <1>1, <1>3 DEF IInv, RowInv, Untouched, Indexed, Driving
  <2>2. Untouched(r)' /\ SoleDriver(r)'
    BY <1>1, <1>3, <2>1 DEF Untouched, SoleDriver, Held, Driving
  <2>3. Indexed(r)'
    <3>1. 1..Len(<<>>) \subseteq 1..Len(t)
      BY <1>4
    <3> QED
      BY <1>7, <2>1, <3>1 DEF Indexed, AtStep
  <2>4. Attended(r)'
    BY <1>2, <1>5 DEF Attended, Driven
  <2>5. Ordered(r)'
    BY <1>4, <1>7, <2>1 DEF Ordered, InOrder, DriverInOrder, Held, AtStep
  <2> QED
    BY <2>2, <2>3, <2>4, <2>5 DEF RowInv
<1> QED
  BY <1>3, <1>8, <1>9, <1>10, <1>11, <1>12, OneRow

LEMMA InitiateAutoInv == ASSUME IInv, NEW h \in Handlers, InitiateAuto(h) PROVE IInv'
<1>0. PICK r \in Rollbacks : r = nrb + 1
  BY ProjectAssumption DEF InitiateAuto, IInv, TypeOK, Rollbacks
<1>1. /\ nrb < MaxRollbacks /\ nrb' = r
      /\ rollback' = [rollback EXCEPT ![r] = "awaiting_user"] /\ Reply(h)
      /\ UNCHANGED <<project, status, steps, driver, wake, up, crashes, requests, twin, disturbed, dropped>>
  BY <1>0 DEF InitiateAuto, history
<1>2. nrb \in Nat /\ r = nrb + 1 /\ r \in Rollbacks /\ nrb < r /\ r \in 0..MaxRollbacks /\ r \in 1..r /\ ~(r < r)
  BY <1>0, <1>1, ProjectAssumption DEF IInv, TypeOK, Rollbacks
<1>3. /\ handler' \in [Handlers -> HandlerType]
      /\ \A g \in Handlers : handler'[g] \in {handler[g], Free}
  BY <1>1, ReplyEffect DEF IInv
<1>4. /\ rollback' \in [Rollbacks -> RollbackStatus] /\ rollback'[r] = "awaiting_user"
      /\ \A q \in Rollbacks : q # r => rollback'[q] = rollback[q]
  BY <1>1, <1>2, RollbackEffect DEF IInv, RollbackStatus
<1>5. TypeOK'
  BY <1>1, <1>2, <1>3, <1>4 DEF IInv, TypeOK
<1>6. HandlerOK'
  <2>1. \A q \in 1..nrb : q \in Rollbacks
    BY ProjectAssumption DEF IInv, TypeOK, Rollbacks
  <2>2. \A q \in 1..nrb : Len(steps[q]) \in Nat
    BY <2>1, LenProperties DEF IInv, TypeOK
  <2>3. \A q \in 1..nrb : Len(steps'[q]) \in Nat /\ Len(steps[q]) <= Len(steps'[q])
    BY <1>1, <2>2
  <2>4. nrb' \in {nrb, nrb + 1}
    BY <1>1, <1>2
  <2> QED
    BY <1>3, <2>3, <2>4, RequestsKept
<1>7. RollingBackHasRollback'
  BY <1>1, <1>2, <1>4 DEF RollingBackHasRollback
<1>8. Others(r)
  BY <1>1, <1>2, <1>4 DEF Others
<1>9. RowInv(r)'
  <2>1. /\ \A p \in Procs : driver'[p][r].pc = "off"
        /\ steps'[r] = <<>> /\ Indexed(r)
    BY <1>1, <1>2 DEF IInv, RowInv, Untouched, Driving
  <2>2. Untouched(r)' /\ SoleDriver(r)' /\ Attended(r)'
    BY <1>1, <1>2, <1>4, <2>1 DEF Untouched, SoleDriver, Held, Driving, Attended, Driven
  <2>3. Indexed(r)'
    BY <1>1, <2>1 DEF Indexed, AtStep
  <2>4. Ordered(r)'
    BY <2>1 DEF Ordered, InOrder, DriverInOrder, Held, AtStep
  <2> QED
    BY <2>2, <2>3, <2>4 DEF RowInv
<1> QED
  BY <1>2, <1>5, <1>6, <1>7, <1>8, <1>9, OneRow

LEMMA PauseInv == ASSUME IInv, NEW h \in Handlers, Pause(h) PROVE IInv'
<1>0. PICK r \in Rollbacks : r = handler[h].rb
  BY HandlerFacts DEF Pause
<1>1. /\ rollback' = [rollback EXCEPT ![r] = "paused"] /\ Reply(h) /\ handler[h].pc = "pause"
      /\ UNCHANGED <<project, status, steps, nrb, driver, wake, up, crashes, requests, twin, disturbed, dropped>>
  BY <1>0 DEF Pause, history
<1>2. r \in Rollbacks /\ ~(nrb < r)
  BY <1>0, <1>1, HandlerFacts
<1>3. /\ handler' \in [Handlers -> HandlerType]
      /\ \A g \in Handlers : handler'[g] \in {handler[g], Free}
  BY <1>1, ReplyEffect DEF IInv
<1>4. /\ rollback' \in [Rollbacks -> RollbackStatus] /\ rollback'[r] = "paused"
      /\ \A q \in Rollbacks : q # r => rollback'[q] = rollback[q]
  BY <1>1, <1>2, RollbackEffect DEF IInv, RollbackStatus
<1>5. TypeOK'
  BY <1>1, <1>3, <1>4 DEF IInv, TypeOK
<1>6. HandlerOK'
  <2>1. \A q \in 1..nrb : q \in Rollbacks
    BY ProjectAssumption DEF IInv, TypeOK, Rollbacks
  <2>2. \A q \in 1..nrb : Len(steps[q]) \in Nat
    BY <2>1, LenProperties DEF IInv, TypeOK
  <2> QED
    BY <1>1, <1>3, <2>2, RequestsKept
<1>7. RollingBackHasRollback'
  BY <1>1, <1>4, StillRollingBack
<1>8. Others(r)
  BY <1>1, <1>4 DEF Others
<1>9. RowInv(r)'
  <2> USE <1>1, <1>2, <1>4 DEF IInv, RowInv
  <2>1. Untouched(r)' /\ Attended(r)'
    BY DEF Untouched, Attended, Driven
  <2>2. Indexed(r)'
    BY DEF Indexed, AtStep
  <2>3. SoleDriver(r)'
    BY DEF SoleDriver, Held, Driving
  <2>4. Ordered(r)'
    BY DEF Ordered, Undisturbed, InOrder, DriverInOrder, Held, AtStep
  <2> QED
    BY <2>1, <2>2, <2>3, <2>4
<1> QED
  BY <1>2, <1>5, <1>6, <1>7, <1>8, <1>9, OneRow

\* Where a resume leaves the steps: as they are, or with new rows behind them.
LEMMA ResumeSteps ==
  ASSUME IInv, NEW h \in Handlers, Resume(h), NEW r \in Rollbacks, r = handler[h].rb
  PROVE  /\ steps' \in [Rollbacks -> Seq(StepType)]
         /\ \A q \in Rollbacks : q # r => steps'[q] = steps[q]
         /\ Len(steps[r]) <= Len(steps'[r]) /\ Len(steps'[r]) \in Nat /\ Len(steps[r]) \in Nat
         /\ handler[h].cur # 0 => steps' = steps
         /\ handler[h].cur = 0 /\ steps[r] = <<>> =>
              \A i \in 1..Len(steps'[r]) : steps'[r][i].pos = i /\ steps'[r][i].st = "pending"
<1>0. PICK row : handler[h].cur = 0 =>
        /\ row \in MemberRows
        /\ steps' = [steps EXCEPT ![r] = @ \o StepRows(handler[h].sel, BeforeByPlan(row))]
  BY DEF Resume
<1> DEFINE t == StepRows(handler[h].sel, BeforeByPlan(row))
           u == steps[r] \o t
<1>1. handler[h].sel \in SUBSET Members
  BY HandlerFacts DEF Resume
<1>2. handler[h].cur = 0 =>
        /\ t \in Seq(StepType) /\ Len(t) \in Nat
        /\ \A i \in 1..Len(t) : t[i].pos = i /\ t[i].st = "pending"
  BY <1>0, <1>1, PlanLinear, RowsPending
<1>3. steps[r] \in Seq(StepType) /\ Len(steps[r]) \in Nat
  BY LenProperties DEF IInv, TypeOK
<1>4. handler[h].cur # 0 => steps' = steps
  BY DEF Resume
<1>5. handler[h].cur = 0 => steps' = [steps EXCEPT ![r] = u]
  BY <1>0
<1> HIDE DEF t
<1>6. handler[h].cur = 0 => u \in Seq(StepType) /\ Len(u) = Len(steps[r]) + Len(t) /\ Len(u) \in Nat
  BY <1>2, <1>3, ConcatProperties
<1>7. handler[h].cur = 0 /\ steps[r] = <<>> => u = t
  BY <1>2, ConcatEmptySeq
<1> HIDE DEF u
<1>8. handler[h].cur = 0 => /\ steps' \in [Rollbacks -> Seq(StepType)] /\ steps'[r] = u
                            /\ \A q \in Rollbacks : q # r => steps'[q] = steps[q]
  BY <1>5, <1>6 DEF IInv, TypeOK
<1>9. CASE handler[h].cur = 0
  BY <1>2, <1>3, <1>6, <1>7, <1>8, <1>9
<1>10. CASE handler[h].cur # 0
  BY <1>3, <1>4, <1>10 DEF IInv, TypeOK
<1> QED
  BY <1>9, <1>10

LEMMA ResumeInv == ASSUME IInv, NEW h \in Handlers, Resume(h) PROVE IInv'
<1>0. PICK r \in Rollbacks : r = handler[h].rb
  BY HandlerFacts DEF Resume
<1>1. /\ rollback' = [rollback EXCEPT ![r] = "running"] /\ handler[h].pc = "resume"
      /\ project' \in {project, "rolling_back"}
      /\ EnsureDriver(handler[h].proc, r) /\ Reply(h)
      /\ disturbed' = IF handler[h].cur = 0 /\ (steps[r] # <<>> \/ \E p \in Procs : Driving(p, r))
                      THEN disturbed \cup {r} ELSE disturbed
      /\ UNCHANGED <<status, nrb, driver, up, crashes, requests, twin, dropped>>
  BY <1>0 DEF Resume
<1>2. r \in Rollbacks /\ ~(nrb < r) /\ r \in 1..nrb /\ handler[h].proc \in Procs
  BY <1>0, <1>1, HandlerFacts
<1>3. /\ steps' \in [Rollbacks -> Seq(StepType)]
      /\ \A q \in Rollbacks : q # r => steps'[q] = steps[q]
      /\ Len(steps[r]) <= Len(steps'[r]) /\ Len(steps'[r]) \in Nat /\ Len(steps[r]) \in Nat
      /\ handler[h].cur # 0 => steps' = steps
      /\ handler[h].cur = 0 /\ steps[r] = <<>> =>
           \A i \in 1..Len(steps'[r]) : steps'[r][i].pos = i /\ steps'[r][i].st = "pending"
  BY <1>0, ResumeSteps
<1>4. /\ handler' \in [Handlers -> HandlerType]
      /\ \A g \in Handlers : handler'[g] \in {handler[g], Free}
  BY <1>1, ReplyEffect DEF IInv
<1>5. /\ wake' \in [Procs -> SUBSET Rollbacks] /\ r \in wake'[handler[h].proc]
      /\ \A p \in Procs, q \in Rollbacks : q # r => (q \in wake'[p] <=> q \in wake[p])
  BY <1>1, <1>2, WakeEffect DEF IInv
<1>6. /\ rollback' \in [Rollbacks -> RollbackStatus] /\ rollback'[r] = "running"
      /\ \A q \in Rollbacks : q # r => rollback'[q] = rollback[q]
  BY <1>1, <1>2, RollbackEffect DEF IInv, RollbackStatus
<1>7. disturbed' \subseteq Rollbacks /\ \A q \in Rollbacks : q # r => (q \in disturbed' <=> q \in disturbed)
  BY <1>1, <1>2 DEF IInv, TypeOK
<1>8. TypeOK'
  BY <1>1, <1>3, <1>4, <1>5, <1>6, <1>7 DEF IInv, TypeOK
<1>9. HandlerOK'
  <2>1. \A q \in 1..nrb : q \in Rollbacks
    BY ProjectAssumption DEF IInv, TypeOK, Rollbacks
  <2>2. \A q \in 1..nrb : Len(steps[q]) \in Nat
    BY <2>1, LenProperties DEF IInv, TypeOK
  <2>3. \A q \in 1..nrb : Len(steps'[q]) \in Nat /\ Len(steps[q]) <= Len(steps'[q])
    BY <1>3, <2>1, <2>2
  <2> QED
    BY <1>1, <1>4, <2>3, RequestsKept
<1>10. RollingBackHasRollback'
  BY <1>1, <1>2, <1>6 DEF RollingBackHasRollback
<1>11. Others(r)
  BY <1>1, <1>3, <1>5, <1>6, <1>7 DEF Others
<1>12. RowInv(r)'
  <2>1. Untouched(r)' /\ Attended(r)'
    BY <1>1, <1>2, <1>5 DEF Untouched, Attended, Driven
  <2>2. Indexed(r)'
    <3>1. 1..Len(steps[r]) \subseteq 1..Len(steps'[r])
      BY <1>3
    <3> QED
      BY <1>1, <1>2, <3>1 DEF IInv, RowInv, Indexed, AtStep
  <2>3. SoleDriver(r)'
    BY <1>1, <1>2, <1>6 DEF IInv, RowInv, SoleDriver, Held, Driving
  <2>4. Ordered(r)'
    <3> SUFFICES ASSUME Undisturbed(r)' PROVE InOrder(r)' /\ \A p \in Procs : DriverInOrder(p, r)'
      BY DEF Ordered
    <3>1. Undisturbed(r) /\ ~(handler[h].cur = 0 /\ (steps[r] # <<>> \/ \E p \in Procs : Driving(p, r)))
      BY <1>1, <1>2 DEF Undisturbed, IInv, TypeOK
    <3>2. CASE handler[h].cur = 0
      <4>1. \A p \in Procs : driver'[p][r].pc = "off"
        BY <1>1, <3>1, <3>2 DEF Driving
      <4>2. InOrder(r)'
        BY <1>3, <1>6, <3>1, <3>2 DEF InOrder
      <4> QED
        BY <4>1, <4>2 DEF DriverInOrder, Held, AtStep
    <3>3. CASE handler[h].cur # 0
      BY <1>1, <1>2, <1>3, <1>6, <3>1, <3>3
         DEF IInv, RowInv, Ordered, InOrder, DriverInOrder, Held, AtStep
    <3> QED
      BY <3>2, <3>3
  <2> QED
    BY <2>1, <2>2, <2>3, <2>4 DEF RowInv
<1> QED
  BY <1>2, <1>8, <1>9, <1>10, <1>11, <1>12, OneRow

LEMMA StepDecisionInv == ASSUME IInv, NEW h \in Handlers, StepDecision(h) PROVE IInv'
<1>a. PICK r \in Rollbacks : r = handler[h].rb
  BY HandlerFacts DEF StepDecision
<1>b. PICK i \in 1..Len(steps[r]) : i = handler[h].cur
  BY <1>a DEF StepDecision, IInv, HandlerOK
<1>0. r = handler[h].rb /\ i = handler[h].cur
  BY <1>a, <1>b
<1>1. /\ Reply(h) /\ handler[h].pc = "decide"
      /\ disturbed' = IF steps[r][i].st # "awaiting_user" THEN disturbed \cup {r} ELSE disturbed
      /\ \/ EnsureDriver(handler[h].proc, r) /\ UNCHANGED dropped
         \/ /\ dropped' = IF Driven(r) THEN dropped ELSE dropped \cup {r}
            /\ UNCHANGED wake
      /\ UNCHANGED <<project, status, rollback, nrb, driver, up, crashes, requests, twin>>
  BY <1>0 DEF StepDecision
<1>2. PICK new \in {"skipped", "completed", "pending"} :
        steps' = steps \/ SetStep(r, i, new)
  <2>1. handler[h].act \in {"skip", "mark_done", "retry"}
    BY HandlerFacts DEF StepDecision, HandlerType, Decision
  <2>2. CASE handler[h].act = "skip"
    BY <1>0, <2>2 DEF StepDecision, SetStep
  <2>3. CASE handler[h].act = "mark_done"
    BY <1>0, <2>3 DEF StepDecision, SetStep
  <2>4. CASE handler[h].act = "retry"
    BY <1>0, <2>4 DEF StepDecision, SetStep
  <2> QED
    BY <2>1, <2>2, <2>3, <2>4
<1>3. /\ steps' \in [Rollbacks -> Seq(StepType)] /\ Len(steps'[r]) = Len(steps[r])
      /\ \A q \in Rollbacks : q # r => steps'[q] = steps[q]
      /\ \A j \in 1..Len(steps[r]) : /\ steps'[r][j].pos = steps[r][j].pos
                                     /\ j # i => steps'[r][j].st = steps[r][j].st
  <2>1. CASE steps' = steps
    BY <2>1 DEF IInv, TypeOK
  <2>2. CASE SetStep(r, i, new)
    <3>1. new \in StepStatus
      BY DEF StepStatus
    <3>2. TypeOK
      BY DEF IInv
    <3>3. /\ steps' \in [Rollbacks -> Seq(StepType)]
          /\ \A q \in Rollbacks : q # r => steps'[q] = steps[q]
          /\ Len(steps'[r]) = Len(steps[r])
          /\ \A j \in 1..Len(steps[r]) :
               /\ steps'[r][j].pos = steps[r][j].pos
               /\ steps'[r][j].st = IF j = i THEN new ELSE steps[r][j].st
      BY <2>2, <3>1, <3>2, StepEffect
    <3> QED
      BY <3>3
  <2> QED
    BY <1>2, <2>1, <2>2
<1>4. r \in 1..nrb /\ ~(nrb < r) /\ handler[h].proc \in Procs
  BY <1>0, <1>1, HandlerFacts
<1>5. /\ handler' \in [Handlers -> HandlerType]
      /\ \A g \in Handlers : handler'[g] \in {handler[g], Free}
  BY <1>1, ReplyEffect DEF IInv
<1>6. /\ wake' \in [Procs -> SUBSET Rollbacks]
      /\ \A p \in Procs, q \in Rollbacks : q # r => (q \in wake'[p] <=> q \in wake[p])
  BY <1>1, <1>4, WakeEffect DEF IInv, TypeOK
<1>7. /\ disturbed' \subseteq Rollbacks /\ dropped' \subseteq Rollbacks
      /\ \A q \in Rollbacks : q # r => /\ q \in disturbed' <=> q \in disturbed
                                       /\ q \in dropped' <=> q \in dropped
  BY <1>1 DEF IInv, TypeOK
<1>8. TypeOK'
  BY <1>1, <1>3, <1>5, <1>6, <1>7 DEF IInv, TypeOK
<1>9. HandlerOK'
  <2>1. \A q \in 1..nrb : q \in Rollbacks
    BY ProjectAssumption DEF IInv, TypeOK, Rollbacks
  <2>2. \A q \in Rollbacks : Len(steps[q]) \in Nat
    BY LenProperties DEF IInv, TypeOK
  <2>3. \A q \in 1..nrb : Len(steps'[q]) \in Nat /\ Len(steps[q]) <= Len(steps'[q])
    BY <1>3, <2>1, <2>2
  <2> QED
    BY <1>1, <1>5, <2>3, RequestsKept
<1>10. RollingBackHasRollback'
  BY <1>1, StillRollingBack
<1>11. Others(r)
  BY <1>1, <1>3, <1>6, <1>7 DEF Others
<1>12. RowInv(r)'
  <2>1. Untouched(r)'
    BY <1>1, <1>4 DEF Untouched
  <2>2. Indexed(r)'
    BY <1>1, <1>3 DEF IInv, RowInv, Indexed, AtStep
  <2>3. SoleDriver(r)'
    BY <1>1 DEF IInv, RowInv, SoleDriver, Held, Driving
  <2>4. Attended(r)'
    <3>1. CASE EnsureDriver(handler[h].proc, r)
      <4>1. r \in wake'[handler[h].proc]
        BY <1>4, <3>1, WakeEffect DEF IInv
      <4> QED
        BY <1>4, <4>1 DEF Attended, Driven
    <3>2. CASE Driven(r) /\ UNCHANGED wake
      BY <1>1, <3>2 DEF Attended, Driven, Driving
    <3>3. CASE r \in dropped'
      BY <3>3 DEF Attended, Driven
    <3> QED
      BY <1>1, <3>1, <3>2, <3>3
  <2>5. Ordered(r)'
    <3> SUFFICES ASSUME Undisturbed(r)' PROVE InOrder(r)' /\ \A p \in Procs : DriverInOrder(p, r)'
      BY DEF Ordered
    <3>1. Undisturbed(r) /\ steps[r][i].st = "awaiting_user"
      BY <1>1 DEF Undisturbed
    <3>2. InOrder(r) /\ \A p \in Procs : DriverInOrder(p, r)
      BY <3>1 DEF IInv, RowInv, Ordered
    <3>3. \A j \in 1..Len(steps[r]) : j \in Nat
      BY LenProperties DEF IInv, TypeOK
    <3>4. InOrder(r)'
      BY <1>1, <1>3, <3>1, <3>2, <3>3 DEF InOrder, Settled
    <3>5. ASSUME NEW p \in Procs PROVE DriverInOrder(p, r)'
      <4>1. DriverInOrder(p, r) /\ driver'[p][r] = driver[p][r]
        BY <1>1, <3>2
      <4>2. AtStep(p, r) => driver[p][r].cur \in 1..Len(steps[r])
        BY DEF IInv, RowInv, Indexed
      <4> QED
        BY <1>3, <3>1, <4>1, <4>2 DEF DriverInOrder, Held, AtStep, Settled
    <3> QED
      BY <3>4, <3>5
  <2> QED
    BY <2>1, <2>2, <2>3, <2>4, <2>5 DEF RowInv
<1> QED
  BY <1>8, <1>9, <1>10, <1>11, <1>12, OneRow
-----------------------------------------------------------------------------
(* The driver.                                                             *)

LEMMA DriverFacts ==
  ASSUME IInv, NEW p \in Procs, NEW r \in Rollbacks
  PROVE  /\ driver[p][r] \in DriverType
         /\ driver[p][r].todo \subseteq 1..Len(steps[r]) /\ Len(steps[r]) \in Nat
         /\ AtStep(p, r) => driver[p][r].cur \in 1..Len(steps[r])
         /\ Driving(p, r) => ~(nrb < r)
         /\ Driving(p, r) /\ r \notin twin => \A q \in Procs : q # p => driver[q][r].pc = "off"
<1>1. driver[p][r] \in DriverType /\ steps[r] \in Seq(StepType)
  BY DEF IInv, TypeOK
<1>2. Len(steps[r]) \in Nat
  BY <1>1, LenProperties
<1>3. RowInv(r)
  BY DEF IInv
<1> QED
  BY <1>1, <1>2, <1>3 DEF RowInv, Untouched, Indexed, SoleDriver, Driving

\* The driver of rollback r in process p takes a step, to the state d.  What has
\* to be shown of d and of the rows it leaves.
DriverGoes(p, r, d) ==
  /\ Drive(p, r, d)
  /\ UNCHANGED <<nrb, wake, handler, up, crashes, requests, history>>
  /\ \A q \in Rollbacks : q # r => rollback'[q] = rollback[q] /\ steps'[q] = steps[q]
  /\ Len(steps'[r]) = Len(steps[r])

LEMMA DriverGoesInv ==
  ASSUME IInv, NEW p \in Procs, NEW r \in Rollbacks, NEW d \in DriverType, Driving(p, r),
         DriverGoes(p, r, d),
         project' \in {"in_progress", "rolling_back"}, status' \in [Members -> CRStatus],
         rollback' \in [Rollbacks -> RollbackStatus], steps' \in [Rollbacks -> Seq(StepType)],
         RollingBackHasRollback',
         d.todo \subseteq 1..Len(steps[r]),
         d.pc \in {"mark", "exec", "record"} => d.cur \in 1..Len(steps[r]),
         r \notin twin =>
           /\ d.pc \in {"next", "mark", "exec", "record"} =>
                d.saw = "running" /\ rollback'[r] \in {"running", "paused"}
           /\ d.pc = "begin" /\ d.saw = "running" => rollback'[r] \in {"running", "paused"},
         d.pc \in {"off", "leave"} => Attended(r)',
         Undisturbed(r) => InOrder(r)' /\ DriverInOrder(p, r)'
  PROVE  IInv'
<1>1. /\ driver' \in [Procs -> [Rollbacks -> DriverType]]
      /\ driver'[p][r] = d
      /\ \A q \in Procs, s \in Rollbacks : q # p \/ s # r => driver'[q][s] = driver[q][s]
  BY DriveEffect DEF IInv, DriverGoes
<1>2. /\ UNCHANGED <<nrb, wake, handler, up, crashes, requests, twin, disturbed, dropped>>
      /\ \A q \in Rollbacks : q # r => rollback'[q] = rollback[q] /\ steps'[q] = steps[q]
      /\ Len(steps'[r]) = Len(steps[r])
  BY DEF DriverGoes, history
<1>3. TypeOK'
  BY <1>1, <1>2 DEF IInv, TypeOK
<1>4. HandlerOK'
  <2>1. \A q \in 1..nrb : q \in Rollbacks
    BY ProjectAssumption DEF IInv, TypeOK, Rollbacks
  <2>2. \A q \in Rollbacks : Len(steps[q]) \in Nat
    BY LenProperties DEF IInv, TypeOK
  <2>3. \A q \in 1..nrb : Len(steps'[q]) \in Nat /\ Len(steps[q]) <= Len(steps'[q])
    BY <1>2, <2>1, <2>2
  <2> QED
    BY <1>2, <2>3, RequestsKept
<1>5. Others(r)
  BY <1>1, <1>2 DEF Others
<1>6. ~(nrb < r) /\ (r \notin twin => \A q \in Procs : q # p => driver'[q][r].pc = "off")
  BY <1>1, DriverFacts, SMTT(30)
<1>7. Untouched(r)'
  BY <1>2, <1>6 DEF Untouched
<1>8. Indexed(r)'
  <2>1. \A q \in Procs : q # p =>
          /\ driver[q][r].todo \subseteq 1..Len(steps[r])
          /\ AtStep(q, r) => driver[q][r].cur \in 1..Len(steps[r])
    BY DriverFacts
  <2> QED
    BY <1>1, <1>2, <2>1 DEF Indexed, AtStep
<1>9. SoleDriver(r)'
  BY <1>1, <1>2, <1>6 DEF SoleDriver, Driving, Held
<1>10. Attended(r)'
  BY <1>1 DEF Attended, Driven, Driving
<1>11. Ordered(r)'
  <2>1. Undisturbed(r)' => Undisturbed(r) /\ r \notin twin
    BY <1>2 DEF Undisturbed
  <2>2. r \notin twin => \A q \in Procs : q # p => DriverInOrder(q, r)'
    BY <1>6 DEF DriverInOrder, Held, AtStep
  <2> QED
    BY <2>1, <2>2 DEF Ordered
<1> QED
  BY <1>3, <1>4, <1>5, <1>7, <1>8, <1>9, <1>10, <1>11, OneRow DEF RowInv

LEMMA EnterInv == ASSUME IInv, NEW p \in Procs, NEW r \in Rollbacks, Enter(p, r) PROVE IInv'
<1>1. /\ r \in wake[p] /\ wake' = [wake EXCEPT ![p] = @ \ {r}]
      /\ UNCHANGED <<project, status, rollback, steps, nrb, handler, up, crashes, requests, disturbed>>
  BY DEF Enter, rows
<1>2. /\ wake' \in [Procs -> SUBSET Rollbacks]
      /\ \A q \in Procs, s \in Rollbacks : s # r => (s \in wake'[q] <=> s \in wake[q])
      /\ \A q \in Procs : q # p => wake'[q] = wake[q]
  BY <1>1 DEF IInv, TypeOK
<1>3. ~(nrb < r) /\ RowInv(r)
  BY <1>1 DEF IInv, RowInv, Untouched
<1>4. HandlerOK' /\ RollingBackHasRollback'
  BY <1>1 DEF IInv, HandlerOK, RollingBackHasRollback
<1>5. CASE Driving(p, r)
  <2>1. /\ driver' = driver /\ twin' = twin
        /\ dropped' = IF driver[p][r].pc = "leave" THEN dropped \cup {r} ELSE dropped
    BY <1>5 DEF Enter
  <2>2. TypeOK'
    BY <1>1, <1>2, <2>1 DEF IInv, TypeOK
  <2>3. Others(r)
    BY <1>1, <1>2, <2>1 DEF Others
  <2>4. Untouched(r)'
    BY <1>1, <1>3 DEF Untouched
  <2>5. Indexed(r)' /\ SoleDriver(r)' /\ Ordered(r)'
    BY <1>1, <1>3, <2>1 DEF RowInv, Indexed, SoleDriver, Ordered, Undisturbed, InOrder,
                            DriverInOrder, Held, AtStep, Driving
  <2>6. Attended(r)'
    BY <1>5, <2>1 DEF Attended, Driven, Driving
  <2> QED
    BY <1>4, <2>2, <2>3, <2>4, <2>5, <2>6, OneRow DEF RowInv
<1>6. CASE ~Driving(p, r)
  <2> DEFINE d == [Off EXCEPT !.pc = "load"]
  <2>1. d \in DriverType /\ d.pc = "load" /\ d.todo = {}
    BY OffType DEF Off, DriverType
  <2>2. /\ Drive(p, r, d) /\ dropped' = dropped \ {r}
        /\ twin' = IF \E q \in Procs \ {p} : Driving(q, r) THEN twin \cup {r} ELSE twin
    BY <1>6 DEF Enter
  <2> HIDE DEF d
  <2>3. /\ driver' \in [Procs -> [Rollbacks -> DriverType]] /\ driver'[p][r] = d
        /\ \A q \in Procs, s \in Rollbacks : q # p \/ s # r => driver'[q][s] = driver[q][s]
    BY <2>1, <2>2, DriveEffect DEF IInv
  <2>4. /\ twin' \subseteq Rollbacks
        /\ \A q \in Rollbacks : q # r => (q \in twin' <=> q \in twin)
        /\ r \notin twin' => r \notin twin /\ \A q \in Procs : q # p => driver[q][r].pc = "off"
    BY <2>2 DEF IInv, TypeOK, Driving
  <2>5. TypeOK'
    BY <1>1, <1>2, <2>2, <2>3, <2>4 DEF IInv, TypeOK
  <2>6. Others(r)
    BY <1>1, <1>2, <2>2, <2>3, <2>4 DEF Others
  <2>7. Untouched(r)'
    BY <1>1, <1>3 DEF Untouched
  <2>8. Indexed(r)'
    BY <1>1, <1>3, <2>1, <2>3 DEF RowInv, Indexed, AtStep
  <2>9. SoleDriver(r)'
    BY <2>1, <2>3, <2>4 DEF SoleDriver, Held, Driving
  <2>10. Attended(r)'
    BY <2>1, <2>3 DEF Attended, Driven, Driving
  <2>11. Ordered(r)'
    <3> SUFFICES ASSUME Undisturbed(r)' PROVE InOrder(r)' /\ \A q \in Procs : DriverInOrder(q, r)'
      BY DEF Ordered
    <3>1. Undisturbed(r) /\ \A q \in Procs : q # p => driver'[q][r].pc = "off"
      BY <1>1, <2>3, <2>4 DEF Undisturbed
    <3>2. InOrder(r)'
      BY <1>1, <1>3, <3>1 DEF RowInv, Ordered, InOrder
    <3> QED
      BY <2>1, <2>3, <3>1, <3>2 DEF DriverInOrder, Held, AtStep
  <2> QED
    BY <1>4, <2>5, <2>6, <2>7, <2>8, <2>9, <2>10, <2>11, OneRow DEF RowInv
<1> QED
  BY <1>5, <1>6

LEMMA LoadInv == ASSUME IInv, NEW p \in Procs, NEW r \in Rollbacks, Load(p, r) PROVE IInv'
<1> DEFINE d == [Off EXCEPT !.pc = "begin", !.saw = rollback[r], !.todo = 1..Len(steps[r])]
<1>1. /\ driver[p][r].pc = "load" /\ Drive(p, r, d)
      /\ UNCHANGED <<project, status, rollback, steps, nrb, wake, handler, up, crashes, requests, history>>
  BY DEF Load, rows
<1>2. Driving(p, r)
  BY <1>1 DEF Driving
<1>3. Len(steps[r]) \in Nat
  BY DriverFacts
<1>4. 1..Len(steps[r]) \in SUBSET Nat /\ rollback[r] \in RollbackStatus
  BY <1>3 DEF IInv, TypeOK
<1>5. d \in DriverType /\ d.pc = "begin" /\ d.todo = 1..Len(steps[r]) /\ d.saw = rollback[r]
  BY <1>4, OffType DEF Off, DriverType
<1> HIDE DEF d
<1>6. DriverGoes(p, r, d) /\ driver'[p][r] = d
  BY <1>1, <1>5, DriveEffect DEF DriverGoes, IInv
<1>7. Undisturbed(r) => InOrder(r)' /\ DriverInOrder(p, r)'
  BY <1>1, <1>5, <1>6 DEF IInv, RowInv, Ordered, InOrder, DriverInOrder, Held, AtStep
<1>8. RollingBackHasRollback'
  BY <1>1, StillRollingBack
<1>9. /\ project' \in {"in_progress", "rolling_back"} /\ status' \in [Members -> CRStatus]
      /\ rollback' \in [Rollbacks -> RollbackStatus] /\ steps' \in [Rollbacks -> Seq(StepType)]
  BY <1>1 DEF IInv, TypeOK
<1> QED
  BY <1>1, <1>2, <1>5, <1>6, <1>7, <1>8, <1>9, DriverGoesInv

LEMMA BeginInv == ASSUME IInv, NEW p \in Procs, NEW r \in Rollbacks, Begin(p, r) PROVE IInv'
<1> DEFINE d == [driver[p][r] EXCEPT !.pc = "next", !.saw = "running"]
<1>1. /\ driver[p][r].pc = "begin" /\ Drive(p, r, d)
      /\ rollback' = IF driver[p][r].saw = "running" THEN rollback
                     ELSE [rollback EXCEPT ![r] = "running"]
      /\ UNCHANGED <<project, status, steps, nrb, wake, handler, up, crashes, requests, history>>
  BY DEF Begin
<1>2. /\ Driving(p, r) /\ driver[p][r] \in DriverType
      /\ driver[p][r].todo \subseteq 1..Len(steps[r])
  BY <1>1, DriverFacts DEF Driving
<1>3. d \in DriverType /\ d.pc = "next" /\ d.todo = driver[p][r].todo /\ d.saw = "running"
  BY <1>2 DEF DriverType, RollbackStatus
<1>4. /\ rollback' \in [Rollbacks -> RollbackStatus]
      /\ \A q \in Rollbacks : q # r => rollback'[q] = rollback[q]
      /\ rollback'[r] = IF driver[p][r].saw = "running" THEN rollback[r] ELSE "running"
  BY <1>1, RollbackEffect DEF IInv, TypeOK, RollbackStatus
<1> HIDE DEF d
<1>5. DriverGoes(p, r, d) /\ driver'[p][r] = d
  BY <1>1, <1>3, <1>4, DriveEffect DEF DriverGoes, IInv
<1>6. Undisturbed(r) => InOrder(r)' /\ DriverInOrder(p, r)'
  <2> SUFFICES ASSUME Undisturbed(r) PROVE InOrder(r)' /\ DriverInOrder(p, r)'
    OBVIOUS
  <2>1. InOrder(r) /\ driver[p][r].todo = 1..Len(steps[r])
    BY <1>1 DEF IInv, RowInv, Ordered, DriverInOrder
  <2>2. InOrder(r)'
    BY <1>1, <1>4, <2>1 DEF InOrder
  <2>3. DriverInOrder(p, r)'
    BY <1>1, <1>3, <1>5, <2>1 DEF DriverInOrder, Held, AtStep
  <2> QED
    BY <2>2, <2>3
<1>7. RollingBackHasRollback'
  BY <1>1, <1>4, StillRollingBack
<1>8. r \notin twin => rollback'[r] \in {"running", "paused"}
  BY <1>1, <1>4 DEF IInv, RowInv, SoleDriver
<1>9. /\ project' \in {"in_progress", "rolling_back"} /\ status' \in [Members -> CRStatus]
      /\ steps' \in [Rollbacks -> Seq(StepType)]
  BY <1>1 DEF IInv, TypeOK
<1> QED
  BY <1>2, <1>3, <1>4, <1>5, <1>6, <1>7, <1>8, <1>9, DriverGoesInv

LEMMA NextStepInv == ASSUME IInv, NEW p \in Procs, NEW r \in Rollbacks, NextStep(p, r) PROVE IInv'
<1> DEFINE x == [driver[p][r] EXCEPT !.saw = rollback[r]]
<1>1. PICK i \in driver[p][r].todo :
        /\ IsNext(p, r, i)
        /\ Drive(p, r, IF rollback[r] = "paused" THEN Leaving
                       ELSE IF Behind(steps[r][i].st) THEN Passed(x, i)
                       ELSE IF steps[r][i].st = "awaiting_user" THEN Leaving
                       ELSE [x EXCEPT !.pc = "mark", !.cur = i, !.old = steps[r][i].st])
  BY DEF NextStep
<1>2. /\ driver[p][r].pc = "next"
      /\ UNCHANGED <<project, status, rollback, steps, nrb, wake, handler, up, crashes, requests, history>>
  BY DEF NextStep, rows
<1>3. /\ Driving(p, r) /\ driver[p][r] \in DriverType /\ Len(steps[r]) \in Nat
      /\ driver[p][r].todo \subseteq 1..Len(steps[r]) /\ i \in 1..Len(steps[r])
  BY <1>2, DriverFacts DEF Driving
<1>4. steps[r][i].st \in StepStatus /\ rollback[r] \in RollbackStatus
  <2>1. steps[r][i] \in StepType
    BY <1>3, ElementOfSeq DEF IInv, TypeOK
  <2> QED
    BY <2>1 DEF StepType, IInv, TypeOK
<1>5. x \in DriverType /\ x.pc = "next" /\ x.todo = driver[p][r].todo /\ x.saw = rollback[r]
  BY <1>2, <1>3, <1>4 DEF DriverType
<1> HIDE DEF x
<1>6. RollingBackHasRollback'
  BY <1>2, StillRollingBack
<1>7. /\ project' \in {"in_progress", "rolling_back"} /\ status' \in [Members -> CRStatus]
      /\ rollback' \in [Rollbacks -> RollbackStatus] /\ steps' \in [Rollbacks -> Seq(StepType)]
  BY <1>2 DEF IInv, TypeOK
<1>8. /\ r \notin twin => rollback[r] \in {"running", "paused"}
      /\ Undisturbed(r) => InOrder(r)' /\ InOrder(r) /\ DriverInOrder(p, r) /\ r \notin twin
  BY <1>2 DEF IInv, RowInv, SoleDriver, Held, Ordered, InOrder, Undisturbed
<1>9. \A d \in DriverType : Drive(p, r, d) => DriverGoes(p, r, d) /\ driver'[p][r] = d
  BY <1>2, DriveEffect DEF DriverGoes, IInv
<1>10. CASE rollback[r] = "paused" \/ (rollback[r] # "paused" /\ steps[r][i].st = "awaiting_user")
  <2>1. Drive(p, r, Leaving)
    BY <1>1, <1>10 DEF Behind, Settled
  <2>2. Leaving \in DriverType /\ Leaving.pc = "leave" /\ Leaving.todo = {}
    BY OffType DEF Leaving, Off
  <2>3. DriverGoes(p, r, Leaving) /\ driver'[p][r] = Leaving
    BY <1>9, <2>1, <2>2
  <2>4. Attended(r)'
    BY <1>2, <1>3, <1>10 DEF Attended, Driven
  <2>5. DriverInOrder(p, r)'
    BY <2>2, <2>3 DEF DriverInOrder, Held, AtStep
  <2> HIDE DEF Leaving
  <2> QED
    BY <1>3, <1>6, <1>7, <1>8, <2>2, <2>3, <2>4, <2>5, DriverGoesInv
<1>11. CASE rollback[r] # "paused" /\ steps[r][i].st \in Settled
  <2> DEFINE d == Passed(x, i)
  <2>1. Drive(p, r, d)
    BY <1>1, <1>11 DEF Behind
  <2>2. d \in DriverType /\ d.pc = "next" /\ d.todo = driver[p][r].todo \ {i} /\ d.saw = rollback[r]
    BY <1>5 DEF Passed, DriverType
  <2> HIDE DEF d
  <2>3. DriverGoes(p, r, d) /\ driver'[p][r] = d
    BY <1>9, <2>1, <2>2
  <2>4. Undisturbed(r) => InOrder(r)' /\ DriverInOrder(p, r)'
    BY <1>2, <1>8, <1>11, <2>2, <2>3 DEF DriverInOrder, Held, AtStep
  <2>5. r \notin twin => d.saw = "running" /\ rollback'[r] \in {"running", "paused"}
    BY <1>2, <1>8, <1>11, <2>2
  <2> QED
    BY <1>3, <1>6, <1>7, <2>2, <2>3, <2>4, <2>5, DriverGoesInv
<1>12. CASE rollback[r] # "paused" /\ steps[r][i].st \in {"pending", "running"}
  <2> DEFINE d == [x EXCEPT !.pc = "mark", !.cur = i, !.old = steps[r][i].st]
  <2>1. Drive(p, r, d)
    BY <1>1, <1>12 DEF Behind, Settled
  <2>2. /\ d \in DriverType /\ d.pc = "mark" /\ d.todo = driver[p][r].todo /\ d.saw = rollback[r]
        /\ d.cur = i /\ d.old = steps[r][i].st
    <3>1. i \in Nat
      BY <1>3
    <3> QED
      BY <1>4, <1>5, <3>1 DEF DriverType
  <2> HIDE DEF d
  <2>3. DriverGoes(p, r, d) /\ driver'[p][r] = d
    BY <1>9, <2>1, <2>2
  <2>4. Undisturbed(r) => InOrder(r)' /\ DriverInOrder(p, r)'
    <3> SUFFICES ASSUME Undisturbed(r) PROVE DriverInOrder(p, r)'
      BY <1>8
    <3>1. InOrder(r) /\ DriverInOrder(p, r)
      BY <1>8
    <3>2. \A j \in driver[p][r].todo : i <= j
      BY <1>1, <1>3, <3>1 DEF IsNext, InOrder
    <3> QED
      BY <1>2, <1>12, <2>2, <2>3, <3>1, <3>2 DEF DriverInOrder, Held, AtStep
  <2>5. r \notin twin => d.saw = "running" /\ rollback'[r] \in {"running", "paused"}
    BY <1>2, <1>8, <1>12, <2>2
  <2> QED
    BY <1>3, <1>6, <1>7, <2>2, <2>3, <2>4, <2>5, DriverGoesInv
<1> QED
  BY <1>4, <1>10, <1>11, <1>12 DEF StepStatus, Settled

\* The facts of a driver at a step of its rollback.
LEMMA AtStepFacts ==
  ASSUME IInv, NEW p \in Procs, NEW r \in Rollbacks, AtStep(p, r)
  PROVE  /\ Driving(p, r) /\ driver[p][r] \in DriverType /\ Len(steps[r]) \in Nat
         /\ driver[p][r].cur \in 1..Len(steps[r]) /\ driver[p][r].todo \subseteq 1..Len(steps[r])
         /\ r \notin twin => driver[p][r].saw = "running" /\ rollback[r] \in {"running", "paused"}
         /\ Undisturbed(r) => InOrder(r) /\ DriverInOrder(p, r)
  BY DriverFacts DEF AtStep, Driving, Held, IInv, RowInv, SoleDriver, Ordered

\* A step that becomes running, completed or awaiting_user keeps the order, when it
\* is the first unsettled one.
LEMMA TouchInOrder ==
  ASSUME TypeOK, NEW r \in Rollbacks, NEW i \in 1..Len(steps[r]), InOrder(r), Len(steps[r]) \in Nat,
         steps[r][i].st \in {"pending", "running"}, rollback' = rollback,
         \A j \in 1..Len(steps[r]) : j < i => steps[r][j].st \in Settled,
         Len(steps'[r]) = Len(steps[r]),
         \A j \in 1..Len(steps[r]) : /\ steps'[r][j].pos = steps[r][j].pos
                                     /\ j # i => steps'[r][j].st = steps[r][j].st
  PROVE  InOrder(r)'
<1> SUFFICES ASSUME NEW k \in 1..Len(steps[r])
             PROVE  /\ steps'[r][k].pos = k
                    /\ \/ steps'[r][k].st \in Settled
                       \/ /\ rollback[r] # "completed"
                          /\ \A j \in 1..Len(steps[r]) :
                               k < j => steps'[r][j].st \in {"pending", "skipped"}
  BY DEF InOrder
<1>1. steps'[r][k].pos = k
  BY DEF InOrder
<1>2. rollback[r] # "completed" /\ \A j \in 1..Len(steps[r]) : i < j => steps[r][j].st \in {"pending", "skipped"}
  BY DEF InOrder, Settled
<1>3. CASE k < i
  BY <1>1, <1>3
<1>4. CASE k >= i
  BY <1>1, <1>2, <1>4
<1> QED
  BY <1>3, <1>4

LEMMA MarkRunningInv == ASSUME IInv, NEW p \in Procs, NEW r \in Rollbacks, MarkRunning(p, r) PROVE IInv'
<1> DEFINE d == [driver[p][r] EXCEPT !.pc = "exec"]
<1>1. /\ driver[p][r].pc = "mark" /\ Drive(p, r, d)
      /\ UNCHANGED <<project, status, rollback, nrb, wake, handler, up, crashes, requests, history>>
  BY DEF MarkRunning
<1>2. AtStep(p, r)
  BY <1>1 DEF AtStep
<1>3. PICK i \in 1..Len(steps[r]) : i = driver[p][r].cur
  BY <1>2, AtStepFacts
<1>4. IF driver[p][r].old = "running" THEN steps' = steps ELSE SetStep(r, i, "running")
  BY <1>3 DEF MarkRunning, SetStep
<1>5. /\ Driving(p, r) /\ driver[p][r] \in DriverType /\ driver[p][r].todo \subseteq 1..Len(steps[r])
      /\ r \notin twin => driver[p][r].saw = "running" /\ rollback[r] \in {"running", "paused"}
      /\ Undisturbed(r) => InOrder(r) /\ DriverInOrder(p, r)
      /\ Len(steps[r]) \in Nat
  BY <1>2, AtStepFacts
<1>6. /\ d \in DriverType /\ d.pc = "exec" /\ d.todo = driver[p][r].todo
      /\ d.saw = driver[p][r].saw /\ d.cur = i
  BY <1>3, <1>5 DEF DriverType
<1>7. /\ steps' \in [Rollbacks -> Seq(StepType)] /\ Len(steps'[r]) = Len(steps[r])
      /\ \A q \in Rollbacks : q # r => steps'[q] = steps[q]
      /\ \A j \in 1..Len(steps[r]) : /\ steps'[r][j].pos = steps[r][j].pos
                                     /\ j # i => steps'[r][j].st = steps[r][j].st
      /\ driver[p][r].old # "running" => steps'[r][i].st = "running"
      /\ driver[p][r].old = "running" => steps' = steps
  <2>1. CASE driver[p][r].old = "running"
    BY <1>4, <2>1 DEF IInv, TypeOK
  <2>2. CASE driver[p][r].old # "running"
    <3>1. SetStep(r, i, "running") /\ "running" \in StepStatus
      BY <1>4, <2>2 DEF StepStatus
    <3> QED
      BY <2>2, <3>1, StepEffect DEF IInv
  <2> QED
    BY <2>1, <2>2
<1> HIDE DEF d
<1>8. DriverGoes(p, r, d) /\ driver'[p][r] = d
  BY <1>1, <1>6, <1>7, DriveEffect DEF DriverGoes, IInv
<1>9. Undisturbed(r) => InOrder(r)' /\ DriverInOrder(p, r)'
  <2> SUFFICES ASSUME Undisturbed(r) PROVE InOrder(r)' /\ DriverInOrder(p, r)'
    OBVIOUS
  <2>1. InOrder(r) /\ DriverInOrder(p, r)
    BY <1>5
  <2>2. /\ i \in driver[p][r].todo /\ \A j \in driver[p][r].todo : i <= j
        /\ \A j \in 1..Len(steps[r]) : j \in driver[p][r].todo \/ steps[r][j].st \in Settled
        /\ driver[p][r].old = steps[r][i].st /\ steps[r][i].st \in {"pending", "running"}
    BY <1>1, <1>3, <2>1 DEF DriverInOrder, Held, AtStep
  <2>3. \A j \in 1..Len(steps[r]) : j < i => steps[r][j].st \in Settled
    BY <2>2
  <2>4. InOrder(r)'
    BY <1>1, <1>5, <1>7, <2>1, <2>2, <2>3, TouchInOrder DEF IInv
  <2>5. steps'[r][i].st = "running"
    BY <1>7, <2>2
  <2>6. DriverInOrder(p, r)'
    <3>1. driver'[p][r].pc = "exec" /\ driver'[p][r].cur = i /\ driver'[p][r].todo = driver[p][r].todo
      BY <1>6, <1>8
    <3>2. \A j \in 1..Len(steps'[r]) : j \in driver'[p][r].todo \/ steps'[r][j].st \in Settled
      <4> TAKE j \in 1..Len(steps'[r])
      <4>1. j \in 1..Len(steps[r])
        BY <1>7
      <4>2. CASE j = i
        BY <2>2, <3>1, <4>2
      <4>3. CASE j # i
        BY <1>7, <2>2, <3>1, <4>1, <4>3
      <4> QED
        BY <4>2, <4>3
    <3>3. /\ driver'[p][r].cur \in driver'[p][r].todo
          /\ \A j \in driver'[p][r].todo : driver'[p][r].cur <= j
          /\ steps'[r][driver'[p][r].cur].st = "running"
      BY <2>2, <2>5, <3>1
    <3> QED
      BY <3>1, <3>2, <3>3 DEF DriverInOrder
  <2> QED
    BY <2>4, <2>6
<1>10. RollingBackHasRollback'
  BY <1>1, StillRollingBack
<1>11. /\ project' \in {"in_progress", "rolling_back"} /\ status' \in [Members -> CRStatus]
       /\ rollback' \in [Rollbacks -> RollbackStatus]
  BY <1>1 DEF IInv, TypeOK
<1> QED
  BY <1>1, <1>5, <1>6, <1>7, <1>8, <1>9, <1>10, <1>11, DriverGoesInv

LEMMA ExecuteStepInv == ASSUME IInv, NEW p \in Procs, NEW r \in Rollbacks, ExecuteStep(p, r) PROVE IInv'
<1>1. PICK ok \in BOOLEAN : Drive(p, r, [driver[p][r] EXCEPT !.pc = "record", !.ok = ok])
  BY DEF ExecuteStep
<1> DEFINE d == [driver[p][r] EXCEPT !.pc = "record", !.ok = ok]
<1>2. /\ driver[p][r].pc = "exec" /\ Drive(p, r, d)
      /\ UNCHANGED <<project, rollback, steps, nrb, wake, handler, up, crashes, requests, history>>
  BY <1>1 DEF ExecuteStep
<1>3. status' \in [Members -> CRStatus]
  BY DEF ExecuteStep, IInv, TypeOK, CRStatus
<1>4. AtStep(p, r)
  BY <1>2 DEF AtStep
<1>5. /\ Driving(p, r) /\ driver[p][r] \in DriverType /\ driver[p][r].todo \subseteq 1..Len(steps[r])
      /\ driver[p][r].cur \in 1..Len(steps[r])
      /\ r \notin twin => driver[p][r].saw = "running" /\ rollback[r] \in {"running", "paused"}
      /\ Undisturbed(r) => InOrder(r) /\ DriverInOrder(p, r)
  BY <1>4, AtStepFacts
<1>6. /\ d \in DriverType /\ d.pc = "record" /\ d.todo = driver[p][r].todo
      /\ d.saw = driver[p][r].saw /\ d.cur = driver[p][r].cur
  BY <1>5 DEF DriverType
<1> HIDE DEF d
<1>7. DriverGoes(p, r, d) /\ driver'[p][r] = d
  BY <1>2, <1>6, DriveEffect DEF DriverGoes, IInv
<1>8. Undisturbed(r) => InOrder(r)' /\ DriverInOrder(p, r)'
  BY <1>2, <1>5, <1>6, <1>7 DEF InOrder, DriverInOrder, Held, AtStep
<1>9. RollingBackHasRollback'
  BY <1>2, StillRollingBack
<1>10. /\ project' \in {"in_progress", "rolling_back"} /\ steps' \in [Rollbacks -> Seq(StepType)]
       /\ rollback' \in [Rollbacks -> RollbackStatus]
  BY <1>2 DEF IInv, TypeOK
<1> QED
  BY <1>2, <1>3, <1>5, <1>6, <1>7, <1>8, <1>9, <1>10, DriverGoesInv

LEMMA RecordStepInv == ASSUME IInv, NEW p \in Procs, NEW r \in Rollbacks, RecordStep(p, r) PROVE IInv'
<1>1. /\ driver[p][r].pc = "record"
      /\ UNCHANGED <<project, status, rollback, nrb, wake, handler, up, crashes, requests, history>>
  BY DEF RecordStep
<1>2. AtStep(p, r)
  BY <1>1 DEF AtStep
<1>3. PICK i \in 1..Len(steps[r]) : i = driver[p][r].cur
  BY <1>2, AtStepFacts
<1>4. PICK s \in {"completed", "awaiting_user"} :
        /\ SetStep(r, i, s)
        /\ Drive(p, r, IF s = "completed" THEN Passed(driver[p][r], i) ELSE Leaving)
  BY <1>3 DEF RecordStep, SetStep, StepResult
<1>5. /\ Driving(p, r) /\ driver[p][r] \in DriverType /\ driver[p][r].todo \subseteq 1..Len(steps[r])
      /\ r \notin twin => driver[p][r].saw = "running" /\ rollback[r] \in {"running", "paused"}
      /\ Undisturbed(r) => InOrder(r) /\ DriverInOrder(p, r)
      /\ Len(steps[r]) \in Nat
  BY <1>2, AtStepFacts
<1>6. /\ steps' \in [Rollbacks -> Seq(StepType)] /\ Len(steps'[r]) = Len(steps[r])
      /\ \A q \in Rollbacks : q # r => steps'[q] = steps[q]
      /\ \A j \in 1..Len(steps[r]) : /\ steps'[r][j].pos = steps[r][j].pos
                                     /\ j # i => steps'[r][j].st = steps[r][j].st
      /\ steps'[r][i].st = s
  <2>1. s \in StepStatus
    BY DEF StepStatus
  <2> QED
    BY <1>4, <2>1, StepEffect DEF IInv
<1>7. Undisturbed(r) => /\ InOrder(r)' /\ r \notin twin
                        /\ \A j \in 1..Len(steps[r]) : j \in driver[p][r].todo \/ steps[r][j].st \in Settled
  <2> SUFFICES ASSUME Undisturbed(r)
               PROVE  /\ InOrder(r)' /\ r \notin twin
                      /\ \A j \in 1..Len(steps[r]) : j \in driver[p][r].todo \/ steps[r][j].st \in Settled
    OBVIOUS
  <2>1. InOrder(r) /\ DriverInOrder(p, r)
    BY <1>5
  <2>2. /\ i \in driver[p][r].todo /\ \A j \in driver[p][r].todo : i <= j
        /\ \A j \in 1..Len(steps[r]) : j \in driver[p][r].todo \/ steps[r][j].st \in Settled
        /\ steps[r][i].st = "running"
    BY <1>1, <1>3, <2>1 DEF DriverInOrder, Held, AtStep
  <2>3. \A j \in 1..Len(steps[r]) : j < i => steps[r][j].st \in Settled
    BY <2>2
  <2>4. InOrder(r)'
    BY <1>1, <1>5, <1>6, <2>1, <2>2, <2>3, TouchInOrder DEF IInv
  <2> QED
    BY <2>2, <2>4 DEF Undisturbed
<1>8. RollingBackHasRollback'
  BY <1>1, StillRollingBack
<1>9. /\ project' \in {"in_progress", "rolling_back"} /\ status' \in [Members -> CRStatus]
      /\ rollback' \in [Rollbacks -> RollbackStatus]
  BY <1>1 DEF IInv, TypeOK
<1>10. \A d \in DriverType : Drive(p, r, d) => DriverGoes(p, r, d) /\ driver'[p][r] = d
  BY <1>1, <1>6, DriveEffect DEF DriverGoes, IInv
<1>11. CASE s = "completed"
  <2> DEFINE d == Passed(driver[p][r], i)
  <2>1. d \in DriverType /\ d.pc = "next" /\ d.todo = driver[p][r].todo \ {i} /\ d.saw = driver[p][r].saw
    BY <1>5 DEF Passed, DriverType
  <2>2. Drive(p, r, d)
    BY <1>4, <1>11
  <2> HIDE DEF d
  <2>3. DriverGoes(p, r, d) /\ driver'[p][r] = d
    BY <1>10, <2>1, <2>2
  <2>4. Undisturbed(r) => InOrder(r)' /\ DriverInOrder(p, r)'
    BY <1>6, <1>7, <1>11, <2>1, <2>3 DEF DriverInOrder, Held, AtStep, Settled
  <2>5. /\ d.todo \subseteq 1..Len(steps[r])
        /\ r \notin twin => d.saw = "running" /\ rollback'[r] \in {"running", "paused"}
    BY <1>1, <1>5, <2>1
  <2> QED
    BY <1>5, <1>6, <1>8, <1>9, <2>1, <2>3, <2>4, <2>5, DriverGoesInv
<1>12. CASE s = "awaiting_user"
  <2>1. Leaving \in DriverType /\ Leaving.pc = "leave" /\ Leaving.todo = {}
    BY OffType DEF Leaving, Off
  <2>2. DriverGoes(p, r, Leaving) /\ driver'[p][r] = Leaving
    BY <1>4, <1>10, <1>12, <2>1
  <2>3. Attended(r)'
    BY <1>6, <1>12 DEF Attended, Driven
  <2>4. DriverInOrder(p, r)'
    BY <2>1, <2>2 DEF DriverInOrder, Held, AtStep
  <2> HIDE DEF Leaving
  <2> QED
    BY <1>5, <1>6, <1>7, <1>8, <1>9, <2>1, <2>2, <2>3, <2>4, DriverGoesInv
<1> QED
  BY <1>11, <1>12

LEMMA CompleteRollbackInv ==
  ASSUME IInv, NEW p \in Procs, NEW r \in Rollbacks, CompleteRollback(p, r) PROVE IInv'
<1>1. /\ driver[p][r].pc = "next" /\ driver[p][r].todo = {} /\ Drive(p, r, Leaving)
      /\ rollback' = IF driver[p][r].saw = "completed" THEN rollback
                     ELSE [rollback EXCEPT ![r] = "completed"]
      /\ project' = "in_progress"
      /\ UNCHANGED <<status, steps, nrb, wake, handler, up, crashes, requests, history>>
  BY DEF CompleteRollback, CompleteProject
<1>2. Driving(p, r)
  BY <1>1 DEF Driving
<1>3. Leaving \in DriverType /\ Leaving.pc = "leave" /\ Leaving.todo = {}
  BY OffType DEF Leaving, Off
<1> HIDE DEF Leaving
<1>4. /\ rollback' \in [Rollbacks -> RollbackStatus]
      /\ \A q \in Rollbacks : q # r => rollback'[q] = rollback[q]
      /\ driver[p][r].saw # "completed" => rollback'[r] = "completed"
  BY <1>1, RollbackEffect DEF IInv, TypeOK, RollbackStatus
<1>5. DriverGoes(p, r, Leaving) /\ driver'[p][r] = Leaving
  BY <1>1, <1>3, <1>4, DriveEffect DEF DriverGoes, IInv
<1>6. r \notin twin => rollback'[r] = "completed"
  BY <1>1, <1>4 DEF IInv, RowInv, SoleDriver, Held
<1>7. Attended(r)'
  <2>1. twin' = twin
    BY <1>1 DEF history
  <2> QED
    BY <1>6, <2>1 DEF Attended, Driven
<1>8. Undisturbed(r) => InOrder(r)' /\ DriverInOrder(p, r)'
  <2> SUFFICES ASSUME Undisturbed(r) PROVE InOrder(r)' /\ DriverInOrder(p, r)'
    OBVIOUS
  <2>1. InOrder(r) /\ \A i \in 1..Len(steps[r]) : steps[r][i].st \in Settled
    BY <1>1 DEF IInv, RowInv, Ordered, DriverInOrder, Held
  <2>2. InOrder(r)'
    BY <1>1, <2>1 DEF InOrder
  <2>3. DriverInOrder(p, r)'
    BY <1>3, <1>5 DEF DriverInOrder, Held, AtStep
  <2> QED
    BY <2>2, <2>3
<1>9. RollingBackHasRollback'
  BY <1>1 DEF RollingBackHasRollback
<1>10. /\ status' \in [Members -> CRStatus] /\ steps' \in [Rollbacks -> Seq(StepType)]
  BY <1>1 DEF IInv, TypeOK
<1> QED
  BY <1>1, <1>2, <1>3, <1>4, <1>5, <1>7, <1>8, <1>9, <1>10, DriverGoesInv

LEMMA LeaveInv == ASSUME IInv, NEW p \in Procs, NEW r \in Rollbacks, Leave(p, r) PROVE IInv'
<1>1. /\ driver[p][r].pc = "leave" /\ Drive(p, r, Off)
      /\ UNCHANGED <<project, status, rollback, steps, nrb, wake, handler, up, crashes, requests, history>>
  BY DEF Leave, rows
<1>2. Driving(p, r)
  BY <1>1 DEF Driving
<1>3. Off \in DriverType /\ Off.pc = "off" /\ Off.todo = {}
  BY OffType DEF Off
<1> HIDE DEF Off
<1>4. /\ DriverGoes(p, r, Off) /\ driver'[p][r] = Off
      /\ \A q \in Procs : q # p => driver'[q][r] = driver[q][r]
  BY <1>1, <1>3, DriveEffect DEF DriverGoes, IInv
<1>5. Attended(r)'
  <2>1. Attended(r)
    BY DEF IInv, RowInv
  <2>2. \A q \in Procs : Driving(q, r) /\ driver[q][r].pc # "leave" =>
                           (Driving(q, r) /\ driver[q][r].pc # "leave")'
    BY <1>1, <1>4 DEF Driving
  <2> QED
    BY <1>1, <2>1, <2>2 DEF Attended, Driven, history
<1>6. Undisturbed(r) => InOrder(r)' /\ DriverInOrder(p, r)'
  BY <1>1, <1>3, <1>4 DEF IInv, RowInv, Ordered, InOrder, DriverInOrder, Held, AtStep
<1>7. RollingBackHasRollback'
  BY <1>1, StillRollingBack
<1>8. /\ project' \in {"in_progress", "rolling_back"} /\ status' \in [Members -> CRStatus]
      /\ rollback' \in [Rollbacks -> RollbackStatus] /\ steps' \in [Rollbacks -> Seq(StepType)]
  BY <1>1 DEF IInv, TypeOK
<1> QED
  BY <1>2, <1>3, <1>4, <1>5, <1>6, <1>7, <1>8, DriverGoesInv
-----------------------------------------------------------------------------
(* Processes.                                                              *)

LEMMA CrashInv == ASSUME IInv, NEW p \in Procs, Crash(p) PROVE IInv'
<1>1. /\ up' = [up EXCEPT ![p] = FALSE] /\ crashes < MaxCrashes /\ crashes' = crashes + 1
      /\ driver' = [driver EXCEPT ![p] = [r \in Rollbacks |-> Off]]
      /\ wake' = [wake EXCEPT ![p] = {}]
      /\ handler' = [h \in Handlers |-> IF handler[h].proc = p THEN Free ELSE handler[h]]
      /\ UNCHANGED <<project, status, rollback, steps, nrb, requests, twin, disturbed, dropped>>
  BY DEF Crash, rows, history
<1>2. /\ \A r \in Rollbacks : driver'[p][r] = Off
      /\ \A q \in Procs : q # p => driver'[q] = driver[q] /\ wake'[q] = wake[q]
      /\ wake'[p] = {} /\ ~up'[p]
  BY <1>1 DEF IInv, TypeOK
<1>3. Off.pc = "off" /\ Off.todo = {}
  BY DEF Off
<1>4. TypeOK'
  <2>1. crashes' \in 0..MaxCrashes
    BY <1>1, ProjectAssumption DEF IInv, TypeOK
  <2>2. handler' \in [Handlers -> HandlerType]
    BY <1>1, FreeType DEF IInv, TypeOK
  <2>3. driver' \in [Procs -> [Rollbacks -> DriverType]]
    BY <1>1, OffType DEF IInv, TypeOK
  <2>4. wake' \in [Procs -> SUBSET Rollbacks] /\ up' \in [Procs -> BOOLEAN]
    BY <1>1 DEF IInv, TypeOK
  <2> QED
    BY <1>1, <2>1, <2>2, <2>3, <2>4 DEF IInv, TypeOK
<1>5. HandlerOK'
  <2>1. \A h \in Handlers : handler'[h] \in {handler[h], Free}
    BY <1>1
  <2>2. \A q \in 1..nrb : q \in Rollbacks
    BY ProjectAssumption DEF IInv, TypeOK, Rollbacks
  <2>3. \A q \in 1..nrb : Len(steps[q]) \in Nat
    BY <2>2, LenProperties DEF IInv, TypeOK
  <2> QED
    BY <1>1, <2>1, <2>3, RequestsKept
<1>6. RollingBackHasRollback'
  BY <1>1, StillRollingBack
<1>7. \A q \in Procs : ~up'[q] => crashes' > 0
  BY <1>1 DEF IInv, TypeOK
<1> HIDE DEF Off
<1>8. ASSUME NEW r \in Rollbacks PROVE RowInv(r)'
  <2>1. RowInv(r)
    BY DEF IInv
  <2>2. Untouched(r)'
    BY <1>1, <1>2, <1>3, <2>1 DEF RowInv, Untouched, Driving
  <2>3. Indexed(r)'
    BY <1>1, <1>2, <1>3, <2>1 DEF RowInv, Indexed, AtStep
  <2>4. SoleDriver(r)'
    BY <1>1, <1>2, <1>3, <2>1 DEF RowInv, SoleDriver, Held, Driving
  <2>5. Attended(r)'
    BY <1>2 DEF Attended, Driven
  <2>6. Ordered(r)'
    <3>1. Undisturbed(r)' => Undisturbed(r) /\ InOrder(r) /\ InOrder(r)'
      BY <1>1, <2>1 DEF RowInv, Ordered, Undisturbed, InOrder
    <3>2. Undisturbed(r)' => \A q \in Procs : q # p => DriverInOrder(q, r)'
      BY <1>1, <1>2, <2>1, <3>1 DEF RowInv, Ordered, DriverInOrder, Held, AtStep
    <3>3. DriverInOrder(p, r)'
      BY <1>2, <1>3 DEF DriverInOrder, Held, AtStep
    <3> QED
      BY <3>1, <3>2, <3>3 DEF Ordered
  <2> QED
    BY <2>2, <2>3, <2>4, <2>5, <2>6 DEF RowInv
<1> QED
  BY <1>4, <1>5, <1>6, <1>7, <1>8 DEF IInv

LEMMA RestartInv == ASSUME IInv, NEW p \in Procs, Restart(p) PROVE IInv'
<1>1. /\ ~up[p] /\ up' = [up EXCEPT ![p] = TRUE]
      /\ status' = [c \in Members |-> IF status[c] = "executing" THEN "failed" ELSE status[c]]
      /\ wake' = [wake EXCEPT ![p] = Interrupted]
      /\ UNCHANGED <<project, rollback, steps, nrb, driver, handler, crashes, requests, twin, disturbed, dropped>>
  BY DEF Restart, history
<1>2. crashes > 0 /\ crashes # 0
  BY <1>1 DEF IInv, TypeOK
<1>3. /\ wake'[p] = Interrupted /\ Interrupted \in SUBSET Rollbacks
      /\ \A q \in Procs : q # p => wake'[q] = wake[q]
  BY <1>1 DEF IInv, TypeOK, Interrupted
<1>4. TypeOK'
  <2>1. status' \in [Members -> CRStatus] /\ up' \in [Procs -> BOOLEAN] /\ wake' \in [Procs -> SUBSET Rollbacks]
    BY <1>1, <1>3 DEF IInv, TypeOK, CRStatus
  <2> QED
    BY <1>1, <2>1 DEF IInv, TypeOK
<1>5. HandlerOK' /\ RollingBackHasRollback'
  BY <1>1 DEF IInv, HandlerOK, RollingBackHasRollback
<1>6. \A q \in Procs : ~up'[q] => crashes' > 0
  BY <1>1, <1>2
<1>7. ASSUME NEW r \in Rollbacks PROVE RowInv(r)'
  <2>1. RowInv(r)
    BY DEF IInv
  <2>2. Untouched(r)'
    BY <1>1, <1>3, <2>1 DEF RowInv, Untouched, Driving, Interrupted
  <2>3. Indexed(r)' /\ SoleDriver(r)'
    BY <1>1, <2>1 DEF RowInv, Indexed, SoleDriver, AtStep, Held, Driving
  <2>4. Attended(r)'
    BY <1>1, <1>2, <1>3 DEF Attended, Driven, Interrupted
  <2>5. Ordered(r)'
    BY <1>1, <2>1 DEF RowInv, Ordered, Undisturbed, InOrder, DriverInOrder, Held, AtStep
  <2> QED
    BY <2>2, <2>3, <2>4, <2>5 DEF RowInv
<1> QED
  BY <1>4, <1>5, <1>6, <1>7 DEF IInv
-----------------------------------------------------------------------------
LEMMA InitInv == Init => IInv
<1> SUFFICES ASSUME Init PROVE IInv
  OBVIOUS
<1>1. TypeOK
  <2>1. nrb \in 0..MaxRollbacks /\ crashes \in 0..MaxCrashes /\ requests \in 0..MaxRequests
    BY ProjectAssumption DEF Init
  <2>2. steps \in [Rollbacks -> Seq(StepType)]
    BY EmptySeq DEF Init
  <2>3. driver \in [Procs -> [Rollbacks -> DriverType]] /\ handler \in [Handlers -> HandlerType]
    BY OffType, FreeType DEF Init
  <2>4. status \in [Members -> CRStatus] /\ rollback \in [Rollbacks -> RollbackStatus]
    BY DEF Init, CRStatus, RollbackStatus
  <2>5. up \in [Procs -> BOOLEAN] /\ wake \in [Procs -> SUBSET Rollbacks]
    BY DEF Init
  <2> QED
    BY <2>1, <2>2, <2>3, <2>4, <2>5 DEF Init, TypeOK
<1>2. HandlerOK /\ RollingBackHasRollback
  BY DEF Init, HandlerOK, RollingBackHasRollback, Free
<1>3. \A p \in Procs : up[p]
  BY DEF Init
<1>4. ASSUME NEW r \in Rollbacks PROVE RowInv(r)
  <2>1. /\ \A p \in Procs : driver[p][r].pc = "off" /\ driver[p][r].todo = {} /\ r \notin wake[p]
        /\ rollback[r] = "none" /\ steps[r] = <<>>
    BY DEF Init, Off
  <2>2. 1..Len(steps[r]) = {}
    BY <2>1
  <2> QED
    BY <2>1, <2>2 DEF RowInv, Untouched, Indexed, SoleDriver, Attended, Driven, Ordered, InOrder, DriverInOrder,
                      Held, AtStep, Driving
<1> QED
  BY <1>1, <1>2, <1>3, <1>4 DEF IInv

LEMMA StepInv == IInv /\ [Next]_vars => IInv'
<1> SUFFICES ASSUME IInv, [Next]_vars PROVE IInv'
  OBVIOUS
<1>1. CASE UNCHANGED vars
  <2>1. \A r \in Rollbacks : RowInv(r)'
    BY <1>1, SameRowsInv DEF IInv, vars, rows
  <2>2. TypeOK' /\ HandlerOK' /\ RollingBackHasRollback' /\ \A p \in Procs : ~up'[p] => crashes' > 0
    BY <1>1 DEF IInv, vars, rows, history, TypeOK, HandlerOK, RollingBackHasRollback
  <2> QED
    BY <2>1, <2>2 DEF IInv
<1>2. ASSUME NEW h \in Handlers, HandlerStep(h) PROVE IInv'
  BY <1>2, InitiateInv, InitiateAutoInv, PauseInv, ResumeInv, StepDecisionInv DEF HandlerStep
<1>3. ASSUME NEW h \in Handlers, NEW p \in Procs, Request(h, p) PROVE IInv'
  BY <1>3, RequestInv, MemberEndsInv DEF Request
<1>4. ASSUME NEW p \in Procs, NEW r \in Rollbacks, DriverStep(p, r) PROVE IInv'
  BY <1>4, EnterInv, LoadInv, BeginInv, NextStepInv, MarkRunningInv, ExecuteStepInv, RecordStepInv,
     CompleteRollbackInv, LeaveInv DEF DriverStep
<1>5. ASSUME NEW p \in Procs, Crash(p) \/ Restart(p) PROVE IInv'
  BY <1>5, CrashInv, RestartInv
<1> QED
  BY <1>1, <1>2, <1>3, <1>4, <1>5 DEF Next

LEMMA Invariance == Spec => []IInv
  BY InitInv, StepInv, PTL DEF Spec

\* Every variable keeps its type.
THEOREM TypeCorrect == Spec => []TypeOK
<1>1. IInv => TypeOK
  BY DEF IInv
<1> QED
  BY <1>1, Invariance, PTL

\* The project is unwound from its last change to its first and reported completed
\* only when all of it is, through pauses, retries, crashes and resume_interrupted.
THEOREM UnwoundInOrder == Spec => []UnwindsInOrder
<1>1. IInv => UnwindsInOrder
  <2> SUFFICES ASSUME IInv, NEW r \in 1..nrb, Undisturbed(r), NEW i \in 1..Len(steps[r])
               PROVE  \/ steps[r][i].st \in Settled
                      \/ /\ rollback[r] # "completed"
                         /\ \A j \in 1..Len(steps[r]) : steps[r][i].pos < steps[r][j].pos =>
                              steps[r][j].st \notin {"running", "completed", "awaiting_user"}
    BY DEF UnwindsInOrder
  <2>1. r \in Rollbacks
    BY ProjectAssumption DEF IInv, TypeOK, Rollbacks
  <2>2. InOrder(r)
    BY <2>1 DEF IInv, RowInv, Ordered
  <2> QED
    BY <2>2 DEF InOrder
<1> QED
  BY <1>1, Invariance, PTL

\* A running rollback is forgotten in two ways only, a decision that starts no
\* driver (`dropped') and two drivers at once (`twin'): otherwise _run_rollback is
\* at work on it or about to be, an operator has to decide, or the restart of a
\* process will take it up.
THEOREM RunningRollbackIsDriven == Spec => []RunningIsDriven
<1>1. IInv => RunningIsDriven
  <2> SUFFICES ASSUME IInv, NEW r \in 1..nrb PROVE Attended(r)
    BY DEF RunningIsDriven, Attended, Driven
  <2>1. r \in Rollbacks
    BY ProjectAssumption DEF IInv, TypeOK, Rollbacks
  <2> QED
    BY <2>1 DEF IInv, RowInv
<1> QED
  BY <1>1, Invariance, PTL

\* A project that is rolling_back has a rollback that is not completed.
THEOREM RollingBackIsExplained == Spec => []RollingBackHasRollback
<1>1. IInv => RollingBackHasRollback
  BY DEF IInv
<1> QED
  BY <1>1, Invariance, PTL
=============================================================================
