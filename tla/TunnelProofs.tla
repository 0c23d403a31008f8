---------------------------- MODULE TunnelProofs ----------------------------
(***************************************************************************)
(* Theorems about Tunnel, for any number of connections, allowlists and    *)
(* dials, every limit and any number of faults.                            *)
(***************************************************************************)
EXTENDS Tunnel, TLAPS, FiniteSetTheorems

LEMMA NoDialType == NoDial \in DialType
  BY DEF NoDial, DialType

\* A fault is counted within its bound.
LEMMA FaultType == TypeOK /\ Fault => faults' \in 0..MaxFaults
  BY TunnelAssumption DEF TypeOK, Fault

LEMMA InitType == Init => TypeOK
<1> SUFFICES ASSUME Init PROVE TypeOK
  OBVIOUS
<1>1. changes \in 0..MaxChanges /\ faults \in 0..MaxFaults /\ count \in Nat
  BY TunnelAssumption DEF Init
<1>2. evicted \in BOOLEAN /\ straddled \in BOOLEAN /\ reverted \in BOOLEAN
  BY DEF Init
<1>3. dial \in [Callers -> DialType]
  BY NoDialType DEF Init
<1> QED
  BY <1>1, <1>2, <1>3 DEF Init, TypeOK

LEMMA SupervisorType ==
  ASSUME TypeOK,
         \/ \E x \in Allowlists \cup {Off} : Configure(x)
         \/ Apply \/ Break \/ Crash \/ \E c \in Conns : Connect(c)
  PROVE  TypeOK'
<1> USE TunnelAssumption DEF TypeOK, agentVars, relayVars, bounds, history
<1>1. CASE \E x \in Allowlists \cup {Off} : Configure(x)
  BY <1>1 DEF Configure
<1>2. CASE Apply
  BY <1>2 DEF Apply, Wanted
<1>3. CASE Break
  <2>1. faults' \in 0..MaxFaults /\ evicted' \in BOOLEAN /\ reverted' \in BOOLEAN
    BY <1>3, FaultType DEF Break
  <2> QED
    BY <1>3, <2>1 DEF Break
<1>4. CASE Crash
  <2>1. faults' \in 0..MaxFaults
    BY <1>4, FaultType DEF Crash
  <2>2. evicted' \in BOOLEAN /\ straddled' \in BOOLEAN /\ reverted' \in BOOLEAN
    BY <1>4 DEF Crash
  <2>3. dial' \in [Callers -> DialType]
    BY <1>4, NoDialType DEF Crash
  <2> QED
    BY <1>4, <2>1, <2>2, <2>3 DEF Crash
<1>5. CASE \E c \in Conns : Connect(c)
  BY <1>5 DEF Connect, Goto
<1> QED
  BY <1>1, <1>2, <1>3, <1>4, <1>5

LEMMA RelayType ==
  ASSUME TypeOK, NEW c \in Conns, RelayStep(c) PROVE TypeOK'
<1> USE TunnelAssumption DEF TypeOK, agentVars, relayVars, bounds, history, Goto
<1>1. CASE Load(c)
  BY <1>1 DEF Load
<1>2. CASE Register(c)
  BY <1>2 DEF Register, CountAtStart
<1>3. CASE ReadLoopEnds(c)
  <2>1. \A d \in Callers :
          [dial[d] EXCEPT !.eof = TRUE, !.pc = IF @ = "opening" THEN "failing" ELSE @] \in DialType
    BY DEF DialType, Counted
  <2>2. dial' \in [Callers -> DialType]
    BY <1>3, <2>1 DEF ReadLoopEnds, Shutdown
  <2> QED
    BY <1>3, <2>2 DEF ReadLoopEnds
<1>4. CASE Unregister(c)
  BY <1>4 DEF Unregister, Removed
<1> QED
  BY <1>1, <1>2, <1>3, <1>4 DEF RelayStep

LEMMA DialingType ==
  ASSUME TypeOK, NEW d \in Callers,
         Dial(d) \/ DialStep(d) \/ RemoteClose(d) \/ Close(d) \/ Leak(d)
  PROVE  TypeOK'
<1> USE TunnelAssumption DEF TypeOK, agentVars, relayVars, bounds, history
<1>1. CASE Dial(d)
  <2>1. registry \in Conns => [pc |-> "opening", conn |-> registry, eof |-> FALSE] \in DialType
    BY DEF DialType, Counted
  <2>2. registry \in Conns
    BY <1>1 DEF Dial
  <2>3. dial' \in [Callers -> DialType]
    BY <1>1, <2>1, <2>2 DEF Dial
  <2>4. count' \in Nat
    BY <1>1 DEF Dial
  <2> QED
    BY <1>1, <2>3, <2>4 DEF Dial
<1>2. CASE DialOk(d) \/ DialReturns(d) \/ Leak(d) \/ RemoteClose(d)
  <2>1. /\ \A p \in Counted : [dial EXCEPT ![d].pc = p] \in [Callers -> DialType]
        /\ [dial EXCEPT ![d].eof = TRUE] \in [Callers -> DialType]
    BY DEF DialType
  <2> QED
    BY <1>2, <2>1, FaultType DEF DialOk, DialReturns, Leak, RemoteClose, Counted
<1>3. CASE DialFails(d) \/ Close(d)
  <2>1. count' \in Nat
    BY <1>3 DEF DialFails, Close, Release, Released
  <2>2. dial' \in [Callers -> DialType]
    BY <1>3, NoDialType DEF DialFails, Close, Release
  <2>3. straddled' \in BOOLEAN
    BY <1>3 DEF DialFails, Close, Release
  <2> QED
    BY <1>3, <2>1, <2>2, <2>3 DEF DialFails, Close, Release
<1>4. CASE Collect(d)
  BY <1>4, NoDialType DEF Collect
<1> QED
  BY <1>1, <1>2, <1>3, <1>4 DEF DialStep

LEMMA StepType == TypeOK /\ [Next]_vars => TypeOK'
<1> SUFFICES ASSUME TypeOK, [Next]_vars PROVE TypeOK'
  OBVIOUS
<1>1. CASE UNCHANGED vars
  BY <1>1 DEF TypeOK, vars, agentVars, relayVars, bounds, history
<1> QED
  BY <1>1, SupervisorType, RelayType, DialingType DEF Next

\* Every variable keeps its type.
THEOREM TypeCorrect == Spec => []TypeOK
  BY InitType, StepType, PTL DEF Spec
-----------------------------------------------------------------------------
(* The inductive invariant.                                                *)

\* A dial has a connection from its start on, and a connection that is not
\* registered yet has no dials.
DialsNamed ==
  \A d \in Callers :
    /\ dial[d].pc # "free" => dial[d].conn \in Conns
    /\ \A c \in Conns : conn[c] \in {"handshake", "loaded"} => dial[d].conn # c

\* Dials start one at a time: those of a connection can be counted.
DialsFinite == \A c \in Conns : IsFiniteSet(DialsOn(c))

IInv == TypeOK /\ DialsNamed /\ NobodyHangs /\ OnlineUnlessEvicted /\ DialsFinite /\ CountIsExact
-----------------------------------------------------------------------------
(* Dials name live connections, and none of them hangs.                    *)

DialsOK == DialsNamed /\ NobodyHangs

LEMMA SupervisorDials ==
  ASSUME TypeOK, DialsOK,
         \/ \E x \in Allowlists \cup {Off} : Configure(x)
         \/ Apply \/ Break \/ Crash \/ \E c \in Conns : Connect(c)
  PROVE  DialsOK'
<1>1. CASE \/ \E x \in Allowlists \cup {Off} : Configure(x)
           \/ Apply \/ Break
  <2>1. UNCHANGED <<conn, dial>>
    BY <1>1 DEF Configure, Apply, Break, relayVars
  <2> QED
    BY <2>1 DEF DialsOK, DialsNamed, NobodyHangs
<1>2. CASE Crash
  BY <1>2, TunnelAssumption DEF Crash, NoDial, DialsOK, DialsNamed, NobodyHangs
<1>3. ASSUME NEW c \in Conns, Connect(c) PROVE DialsOK'
  <2>1. /\ \A d \in Callers : dial[d].conn # c
        /\ conn' = [conn EXCEPT ![c] = "handshake"] /\ dial' = dial
    BY <1>3 DEF Connect, Goto
  <2> QED
    BY <2>1 DEF TypeOK, DialsOK, DialsNamed, NobodyHangs
<1> QED
  BY <1>1, <1>2, <1>3

LEMMA RelayDials ==
  ASSUME TypeOK, DialsOK, NEW c \in Conns, RelayStep(c) PROVE DialsOK'
<1> USE DEF TypeOK, Goto, DialsOK, DialsNamed, NobodyHangs
<1>1. CASE Load(c)
  BY <1>1 DEF Load
<1>2. CASE Register(c)
  BY <1>2 DEF Register
<1>3. CASE ReadLoopEnds(c)
  <2>1. conn[c] = "open" /\ conn' = [conn EXCEPT ![c] = "unwind"]
    BY <1>3 DEF ReadLoopEnds
  <2>2. ASSUME NEW d \in Callers
        PROVE  /\ dial'[d].conn = dial[d].conn
               /\ dial[d].conn # c => dial'[d] = dial[d]
               /\ dial[d].conn = c => dial'[d].eof /\ dial'[d].pc # "opening"
               /\ dial[d].pc = "free" <=> dial'[d].pc = "free"
    BY <1>3 DEF ReadLoopEnds, Shutdown, DialType
  <2> QED
    BY <2>1, <2>2
<1>4. CASE Unregister(c)
  BY <1>4 DEF Unregister
<1> QED
  BY <1>1, <1>2, <1>3, <1>4 DEF RelayStep

LEMMA DialingDials ==
  ASSUME TypeOK, DialsOK, OnlineUnlessEvicted, NEW d \in Callers,
         Dial(d) \/ DialStep(d) \/ RemoteClose(d) \/ Close(d) \/ Leak(d)
  PROVE  DialsOK'
<1> USE DEF TypeOK, DialsOK, DialsNamed, NobodyHangs
<1>1. conn' = conn
  BY DEF Dial, DialStep, DialOk, DialFails, DialReturns, Collect, RemoteClose, Close, Leak,
         Release, relayVars
<1>2. CASE Dial(d)
  <2>1. registry \in Conns
    BY <1>2 DEF Dial
  <2>2. CASE conn[registry] = "open"
    <3>1. dial' = [dial EXCEPT ![d] = [pc |-> "opening", conn |-> registry, eof |-> FALSE]]
      BY <1>2, <2>2 DEF Dial
    <3> QED
      BY <1>1, <2>1, <2>2, <3>1
  <2>3. CASE conn[registry] # "open"
    BY <1>1, <1>2, <2>3 DEF Dial
  <2> QED
    BY <2>2, <2>3
<1>3. CASE DialOk(d) \/ DialReturns(d)
  BY <1>1, <1>3 DEF DialOk, DialReturns, DialType
<1>4. CASE Leak(d) \/ RemoteClose(d)
  BY <1>1, <1>4 DEF Leak, RemoteClose, DialType
<1>5. CASE DialFails(d) \/ Close(d) \/ Collect(d)
  <2>1. dial' = [dial EXCEPT ![d] = NoDial]
    BY <1>5 DEF DialFails, Close, Collect, Release
  <2> QED
    BY <1>1, <2>1, TunnelAssumption DEF NoDial
<1> QED
  BY <1>2, <1>3, <1>4, <1>5 DEF DialStep
-----------------------------------------------------------------------------
(* The registry leads to a session that is not over.                       *)

LEMMA SupervisorOnline ==
  ASSUME TypeOK, OnlineUnlessEvicted,
         \/ \E x \in Allowlists \cup {Off} : Configure(x)
         \/ Apply \/ Break \/ Crash \/ \E c \in Conns : Connect(c)
  PROVE  OnlineUnlessEvicted'
<1> USE TunnelAssumption DEF TypeOK, OnlineUnlessEvicted
<1>1. CASE \E x \in Allowlists \cup {Off} : Configure(x)
  BY <1>1 DEF Configure, agentVars, relayVars
<1>2. CASE Apply \/ Break \/ Crash
  <2>1. current' = NoConn
    BY <1>2 DEF Apply, Break, Crash
  <2>2. (registry' = registry /\ conn' = conn) \/ registry' = NoConn
    BY <1>2 DEF Apply, Break, Crash, relayVars
  <2> QED
    BY <2>1, <2>2
<1>3. ASSUME NEW c \in Conns, Connect(c) PROVE OnlineUnlessEvicted'
  <2>1. /\ current' = c /\ conn' = [conn EXCEPT ![c] = "handshake"]
        /\ registry' = registry /\ registry # c
    BY <1>3 DEF Connect, Goto
  <2> QED
    BY <2>1
<1> QED
  BY <1>1, <1>2, <1>3

LEMMA RelayOnline ==
  ASSUME TypeOK, OnlineUnlessEvicted, NEW c \in Conns, RelayStep(c)
  PROVE  OnlineUnlessEvicted'
<1> USE TunnelAssumption DEF TypeOK, OnlineUnlessEvicted, Goto, agentVars, history
<1>1. CASE Load(c)
  <2>1. registry' = registry /\ registry # c /\ evicted' = evicted
    BY <1>1 DEF Load
  <2>2. \/ conn' = [conn EXCEPT ![c] = "none"] \/ conn' = [conn EXCEPT ![c] = "loaded"]
    BY <1>1 DEF Load
  <2>3. current' \in {current, NoConn}
    BY <1>1 DEF Load
  <2> QED
    BY <2>1, <2>2, <2>3
<1>2. CASE Register(c)
  <2>1. registry' = c /\ conn' = [conn EXCEPT ![c] = "open"] /\ current' = current
    BY <1>2 DEF Register
  <2>2. CASE c = current
    BY <2>1, <2>2
  <2>3. CASE c # current /\ current # NoConn /\ registry = current
    BY <1>2, <2>1, <2>3 DEF Register
  <2>4. CASE c # current /\ ~(current # NoConn /\ registry = current)
    <3>1. evicted' = evicted
      BY <1>2, <2>4 DEF Register
    <3> QED
      BY <2>1, <2>4, <3>1
  <2> QED
    BY <2>2, <2>3, <2>4
<1>3. CASE ReadLoopEnds(c)
  BY <1>3 DEF ReadLoopEnds
<1>4. CASE Unregister(c)
  <2>1. registry' = NoConn /\ conn' = [conn EXCEPT ![c] = "none"] /\ current' = current
    BY <1>4 DEF Unregister, Removed
  <2>2. ~evicted' => ~evicted /\ ~(current # NoConn /\ registry = current)
    BY <1>4 DEF Unregister
  <2> QED
    BY <2>1, <2>2
<1> QED
  BY <1>1, <1>2, <1>3, <1>4 DEF RelayStep

LEMMA DialingOnline ==
  ASSUME OnlineUnlessEvicted, NEW d \in Callers,
         Dial(d) \/ DialStep(d) \/ RemoteClose(d) \/ Close(d) \/ Leak(d)
  PROVE  OnlineUnlessEvicted'
<1>1. UNCHANGED <<current, evicted, conn, registry>>
  BY DEF Dial, DialStep, DialOk, DialFails, DialReturns, Collect, RemoteClose, Close, Leak,
         Release, agentVars, relayVars, history
<1> QED
  BY <1>1 DEF OnlineUnlessEvicted
-----------------------------------------------------------------------------
(* The count of the registered session.                                    *)

\* What the counting needs to know of a step that starts or ends no dial.
LEMMA SameDialsCount ==
  ASSUME DialsFinite, CountIsExact,
         \A c \in Conns : DialsOn(c)' = DialsOn(c),
         registry' = registry, count' = count, straddled' = straddled,
         registry \in Conns \cup {NoConn}
  PROVE  DialsFinite' /\ CountIsExact'
<1>1. DialsFinite'
  BY DEF DialsFinite
<1>2. CountIsExact'
  <2>1. registry # NoConn => Cardinality(DialsOn(registry))' = Cardinality(DialsOn(registry))
    OBVIOUS
  <2> QED
    BY <2>1 DEF CountIsExact
<1> QED
  BY <1>1, <1>2

LEMMA SupervisorCount ==
  ASSUME TypeOK, DialsFinite, CountIsExact,
         \/ \E x \in Allowlists \cup {Off} : Configure(x)
         \/ Apply \/ Break \/ Crash \/ \E c \in Conns : Connect(c)
  PROVE  DialsFinite' /\ CountIsExact'
<1>1. CASE \/ \E x \in Allowlists \cup {Off} : Configure(x)
           \/ Apply \/ Break \/ \E c \in Conns : Connect(c)
  <2>1. UNCHANGED <<dial, registry, count, straddled>>
    BY <1>1 DEF Configure, Apply, Break, Connect, relayVars, history
  <2>2. \A c \in Conns : DialsOn(c)' = DialsOn(c)
    BY <2>1 DEF DialsOn
  <2> QED
    BY <2>1, <2>2, SameDialsCount DEF TypeOK
<1>2. CASE Crash
  <2>1. \A c \in Conns : DialsOn(c)' = {}
    BY <1>2 DEF Crash, DialsOn, NoDial, Counted
  <2>2. DialsFinite'
    BY <2>1, FS_EmptySet DEF DialsFinite
  <2> QED
    BY <1>2, <2>2 DEF Crash, CountIsExact
<1> QED
  BY <1>1, <1>2

LEMMA RelayCount ==
  ASSUME TypeOK, DialsNamed, DialsFinite, CountIsExact, NEW c \in Conns, RelayStep(c)
  PROVE  DialsFinite' /\ CountIsExact'
<1> USE TunnelAssumption DEF TypeOK
<1>1. \A b \in Conns : DialsOn(b)' = DialsOn(b)
  <2>1. CASE ReadLoopEnds(c)
    <3>1. \A d \in Callers : /\ dial'[d].conn = dial[d].conn
                             /\ dial'[d].pc \in Counted <=> dial[d].pc \in Counted
      BY <2>1 DEF ReadLoopEnds, Shutdown, DialType, Counted
    <3> QED
      BY <3>1 DEF DialsOn
  <2>2. CASE ~ReadLoopEnds(c)
    <3>1. dial' = dial
      BY <2>2 DEF RelayStep, Load, Register, Unregister
    <3> QED
      BY <3>1 DEF DialsOn
  <2> QED
    BY <2>1, <2>2
<1>2. DialsFinite'
  BY <1>1 DEF DialsFinite
<1>3. CASE Load(c) \/ ReadLoopEnds(c)
  <2>1. UNCHANGED <<registry, count, straddled>>
    BY <1>3 DEF Load, ReadLoopEnds, history
  <2> QED
    BY <1>1, <2>1, SameDialsCount
<1>4. CASE Register(c)
  <2>1. DialsOn(c)' = {}
    BY <1>1, <1>4 DEF DialsNamed, DialsOn, Register
  <2>2. registry' = c /\ count' = 0
    BY <1>4 DEF Register, CountAtStart
  <2>3. Cardinality(DialsOn(registry))' = 0
    BY <2>1, <2>2, FS_EmptySet
  <2> QED
    BY <1>2, <2>2, <2>3 DEF CountIsExact
<1>5. CASE Unregister(c)
  BY <1>2, <1>5 DEF Unregister, Removed, CountIsExact
<1> QED
  BY <1>3, <1>4, <1>5 DEF RelayStep

LEMMA DialCount ==
  ASSUME TypeOK, DialsFinite, CountIsExact, NEW d \in Callers, Dial(d)
  PROVE  DialsFinite' /\ CountIsExact'
<1> USE TunnelAssumption DEF TypeOK
<1>1. /\ registry \in Conns /\ registry' = registry /\ straddled' = straddled
      /\ count < Limit /\ dial[d].pc = "free"
  BY DEF Dial, Room, history
<1>2. CASE conn[registry] = "open"
  <2>1. /\ dial' = [dial EXCEPT ![d] = [pc |-> "opening", conn |-> registry, eof |-> FALSE]]
        /\ count' = count + 1
    BY <1>2 DEF Dial
  <2>2. d \notin DialsOn(registry)
    BY <1>1 DEF DialsOn, Counted
  <2>3. DialsOn(registry)' = DialsOn(registry) \cup {d}
    BY <1>1, <2>1 DEF DialsOn, Counted
  <2>4. \A c \in Conns : c # registry => DialsOn(c)' = DialsOn(c)
    BY <1>1, <2>1 DEF DialsOn, Counted
  <2>5. /\ IsFiniteSet(DialsOn(registry))
        /\ Cardinality(DialsOn(registry)) \in Nat
        /\ IsFiniteSet(DialsOn(registry)')
        /\ Cardinality(DialsOn(registry)') = Cardinality(DialsOn(registry)) + 1
    BY <1>1, <2>2, <2>3, FS_AddElement, FS_CardinalityType DEF DialsFinite
  <2>6. DialsFinite'
    BY <1>1, <2>4, <2>5 DEF DialsFinite
  <2>7. CountIsExact'
    BY <1>1, <2>1, <2>5 DEF CountIsExact
  <2> QED
    BY <2>6, <2>7
<1>3. CASE conn[registry] # "open"
  <2>1. dial' = dial /\ count' = count
    BY <1>3 DEF Dial
  <2>2. \A c \in Conns : DialsOn(c)' = DialsOn(c)
    BY <2>1 DEF DialsOn
  <2> QED
    BY <1>1, <2>1, <2>2, SameDialsCount
<1> QED
  BY <1>2, <1>3

LEMMA ReleaseCount ==
  ASSUME TypeOK, DialsNamed, DialsFinite, CountIsExact, NEW d \in Callers,
         dial[d].pc \in Counted, Release(d)
  PROVE  DialsFinite' /\ CountIsExact'
<1> USE TunnelAssumption DEF TypeOK
<1>1. /\ dial' = [dial EXCEPT ![d] = NoDial] /\ registry' = registry
      /\ count' = (IF count > 0 THEN count - 1 ELSE 0)
  BY DEF Release, Released
<1>2. dial[d].conn \in Conns
  BY DEF DialsNamed, Counted
<1>3. \A c \in Conns : DialsOn(c)' = DialsOn(c) \ {d}
  BY <1>1 DEF DialsOn, NoDial, Counted
<1>4. DialsFinite'
  <2>1. ASSUME NEW c \in Conns PROVE IsFiniteSet(DialsOn(c) \ {d})
    BY FS_RemoveElement DEF DialsFinite
  <2> QED
    BY <1>3, <2>1 DEF DialsFinite
<1>5. CASE registry = dial[d].conn
  <2>1. d \in DialsOn(registry) /\ IsFiniteSet(DialsOn(registry))
    BY <1>2, <1>5 DEF DialsOn, DialsFinite
  <2>2. /\ Cardinality(DialsOn(registry)) \in Nat
        /\ Cardinality(DialsOn(registry) \ {d}) = Cardinality(DialsOn(registry)) - 1
        /\ Cardinality(DialsOn(registry) \ {d}) \in Nat
    BY <2>1, FS_RemoveElement, FS_CardinalityType
  <2>3. DialsOn(registry)' = DialsOn(registry) \ {d}
    BY <1>1, <1>2, <1>3, <1>5
  <2>4. straddled' = straddled
    BY <1>5 DEF Release
  <2> QED
    BY <1>1, <1>4, <2>2, <2>3, <2>4 DEF CountIsExact
<1>6. CASE registry # dial[d].conn /\ registry # NoConn
  <2>1. DialsOn(registry)' = DialsOn(registry)
    BY <1>1, <1>3, <1>6 DEF DialsOn
  <2>2. straddled'
    BY <1>6 DEF Release
  <2>3. Cardinality(DialsOn(registry)) \in Nat
    BY <1>6, FS_CardinalityType DEF DialsFinite
  <2> QED
    BY <1>1, <1>4, <2>1, <2>2, <2>3 DEF CountIsExact
<1>7. CASE registry = NoConn
  BY <1>1, <1>4, <1>7 DEF CountIsExact
<1> QED
  BY <1>5, <1>6, <1>7

LEMMA DialingCount ==
  ASSUME TypeOK, DialsNamed, OnlineUnlessEvicted, DialsFinite, CountIsExact, NEW d \in Callers,
         DialStep(d) \/ RemoteClose(d) \/ Close(d) \/ Leak(d)
  PROVE  DialsFinite' /\ CountIsExact'
<1> USE TunnelAssumption DEF TypeOK
<1>1. CASE DialFails(d) \/ Close(d)
  BY <1>1, ReleaseCount DEF DialFails, Close, Counted
<1>2. CASE DialOk(d) \/ DialReturns(d) \/ Leak(d) \/ RemoteClose(d)
  <2>1. UNCHANGED <<registry, count, straddled>>
    BY <1>2 DEF DialOk, DialReturns, Leak, RemoteClose, relayVars, history
  <2>2. \A e \in Callers : /\ dial'[e].conn = dial[e].conn
                           /\ dial'[e].pc \in Counted <=> dial[e].pc \in Counted
    BY <1>2 DEF DialOk, DialReturns, Leak, RemoteClose, DialType, Counted
  <2>3. \A c \in Conns : DialsOn(c)' = DialsOn(c)
    BY <2>2 DEF DialsOn
  <2> QED
    BY <2>1, <2>3, SameDialsCount
<1>3. CASE Collect(d)
  <2>1. /\ dial' = [dial EXCEPT ![d] = NoDial] /\ registry' = registry
        /\ count' = count /\ straddled' = straddled /\ registry # dial[d].conn
    BY <1>3 DEF Collect, relayVars, history, OnlineUnlessEvicted, DialsNamed
  <2>2. \A c \in Conns : DialsOn(c)' = DialsOn(c) \ {d}
    BY <2>1 DEF DialsOn, NoDial, Counted
  <2>3. DialsFinite'
    BY <2>2, FS_RemoveElement DEF DialsFinite
  <2>4. registry \in Conns => DialsOn(registry)' = DialsOn(registry)
    BY <2>1, <2>2 DEF DialsOn
  <2> QED
    BY <2>1, <2>3, <2>4 DEF CountIsExact
<1> QED
  BY <1>1, <1>2, <1>3 DEF DialStep
-----------------------------------------------------------------------------
LEMMA InitInv == Init => IInv
<1> SUFFICES ASSUME Init PROVE IInv
  OBVIOUS
<1>1. DialsNamed /\ NobodyHangs
  BY TunnelAssumption DEF Init, NoDial, DialsNamed, NobodyHangs
<1>2. OnlineUnlessEvicted /\ CountIsExact
  BY DEF Init, OnlineUnlessEvicted, CountIsExact
<1>3. \A c \in Conns : DialsOn(c) = {}
  BY DEF Init, NoDial, Counted, DialsOn
<1>4. DialsFinite
  BY <1>3, FS_EmptySet DEF DialsFinite
<1> QED
  BY <1>1, <1>2, <1>4, InitType DEF IInv

LEMMA StepInv == IInv /\ [Next]_vars => IInv'
<1> SUFFICES ASSUME IInv, [Next]_vars PROVE IInv'
  OBVIOUS
<1>1. TypeOK'
  BY StepType DEF IInv
<1>2. CASE UNCHANGED vars
  <2>1. UNCHANGED <<current, conn, registry, count, dial, evicted, straddled>>
    BY <1>2 DEF vars, agentVars, relayVars, history
  <2>2. \A c \in Conns : DialsOn(c)' = DialsOn(c)
    BY <2>1 DEF DialsOn
  <2>3. DialsFinite' /\ CountIsExact'
    BY <2>1, <2>2, SameDialsCount DEF IInv, TypeOK
  <2>4. DialsNamed' /\ NobodyHangs' /\ OnlineUnlessEvicted'
    BY <2>1 DEF IInv, DialsNamed, NobodyHangs, OnlineUnlessEvicted
  <2> QED
    BY <1>1, <2>3, <2>4 DEF IInv
<1>3. CASE \/ \E x \in Allowlists \cup {Off} : Configure(x)
           \/ Apply \/ Break \/ Crash \/ \E c \in Conns : Connect(c)
  BY <1>1, <1>3, SupervisorDials, SupervisorOnline, SupervisorCount DEF IInv, DialsOK
<1>4. ASSUME NEW c \in Conns, RelayStep(c) PROVE IInv'
  BY <1>1, <1>4, RelayDials, RelayOnline, RelayCount DEF IInv, DialsOK
<1>5. ASSUME NEW d \in Callers,
             Dial(d) \/ DialStep(d) \/ RemoteClose(d) \/ Close(d) \/ Leak(d)
      PROVE  IInv'
  BY <1>1, <1>5, DialingDials, DialingOnline, DialCount, DialingCount DEF IInv, DialsOK
<1> QED
  BY <1>2, <1>3, <1>4, <1>5 DEF Next

LEMMA Invariance == Spec => []IInv
  BY InitInv, StepInv, PTL DEF Spec

\* Nobody waits on a session that has ended: whatever overtakes it, the end of a
\* session (TunnelSession._shutdown) reaches every dial and every stream on it.
THEOREM NobodyWaitsForever == Spec => []NobodyHangs
<1>1. IInv => NobodyHangs
  BY DEF IInv
<1> QED
  BY <1>1, Invariance, PTL

\* TunnelManager's registry never leads to a session that is over, and holds the
\* accepted connection of the agent until an older one takes its entry.
THEOREM AcceptedIsOnline == Spec => []OnlineUnlessEvicted
<1>1. IInv => OnlineUnlessEvicted
  BY DEF IInv
<1> QED
  BY <1>1, Invariance, PTL

\* _active_count is at most the number of dials and streams of the registered
\* session, and exactly that until a stream of an earlier session ends on its
\* entry, for every tunnel_max_concurrent.
THEOREM ActiveCountIsExact == Spec => []CountIsExact
<1>1. IInv => CountIsExact
  BY DEF IInv
<1> QED
  BY <1>1, Invariance, PTL
=============================================================================
