------------------------------- MODULE Tunnel -------------------------------
(***************************************************************************)
(* The reverse tunnel of one agent: the supervisor that keeps the agent's  *)
(* connection in step with the configuration, the relay that serves a      *)
(* connection, the TunnelManager's registry, and the callers (SOCKS proxy, *)
(* port forwarder) that dial through it.                                   *)
(*                                                                         *)
(* The registry has one entry per agent; connections may overlap: after a  *)
(* change of the allowlist the agent starts a new one at once, while the   *)
(* cancelled one lingers in a blocking read for up to 30 seconds.          *)
(*                                                                         *)
(* An allowlist is a model value.  Frames and payloads are left out, but   *)
(* for the ones that open and end a stream.                                *)
(***************************************************************************)
EXTENDS Naturals, FiniteSets

CONSTANTS
  Conns,       \* slots for connections of the agent; a connection is its slot
  NoConn,      \* "no connection"
  Allowlists,  \* allowlists the administrator chooses from, none of them empty
  AgentRejects,\* the ones the backend's parser accepts and the agent's does not
  Off,         \* the tunnel is disabled
  Callers,     \* slots for dials
  Limit,       \* tunnel_max_concurrent
  MaxChanges,  \* bound on changes of the configuration
  MaxFaults    \* bound on broken connections, crashes and vanished clients

ASSUME TunnelAssumption ==
  /\ NoConn \notin Conns /\ Off \notin Allowlists
  /\ AgentRejects \subseteq Allowlists
  /\ Limit \in Nat \ {0} /\ MaxChanges \in Nat /\ MaxFaults \in Nat

VARIABLES
  config,    \* tunnel_enabled and tunnel_allowlist in the database
  running,   \* supervisor: the allowlist its tunnel was started with
  current,   \* the connection that tunnel uses
  conn,      \* conn[c]: where run_agent_tunnel is for connection c
  rules,     \* rules[c]: the allowlist the relay loaded for it, Off when it is over
  registry,  \* TunnelManager._sessions: the registered session
  count,     \* TunnelManager._active_count
  dial,      \* dial[d]: TunnelManager.dial in slot d, and the stream it returned
  changes,   \* changes of the configuration so far
  faults,    \* faults so far
  evicted,   \* history: the current connection lost its entry to an older one
  straddled, \* history: a stream ended on the entry of another session
  reverted   \* history: the configuration was changed and changed back before the
             \* supervisor noticed

agentVars == <<running, current>>
relayVars == <<conn, rules, registry, count>>
bounds    == <<changes, faults>>
history   == <<evicted, straddled, reverted>>
vars      == <<config, agentVars, relayVars, dial, bounds, history>>
-----------------------------------------------------------------------------
NoDial   == [pc |-> "free", conn |-> NoConn, eof |-> FALSE]
Counted  == {"opening", "failing", "audit", "held", "leaked"}
Fault    == faults < MaxFaults /\ faults' = faults + 1
Goto(c, pc) == conn' = [conn EXCEPT ![c] = pc]
DialsOn(c)  == {d \in Callers : dial[d].pc \in Counted /\ dial[d].conn = c}
-----------------------------------------------------------------------------
(* The configuration and the agent's supervisor.                           *)

\* PUT /agents/{id}/tunnel, which refuses to enable an empty allowlist; or the
\* enable_reverse_tunnel and disable_reverse_tunnel executors.
Configure(x) ==
  /\ x # config /\ changes < MaxChanges
  /\ config' = x
  /\ changes' = changes + 1
  /\ reverted' = (reverted \/ x = running)
  /\ UNCHANGED <<agentVars, relayVars, dial, faults, evicted, straddled>>

\* Mutant: a tunnel that is running is left as it is.
WantedKeeps(x) == IF x # Off /\ running # Off THEN running ELSE x

\* What the supervisor wants to run (desiredRunning: also nothing for an empty
\* allowlist, which is never configured).
Wanted(x) == x

\* The poll of the configuration.  The old tunnel is cancelled, not awaited.
Apply ==
  /\ running # Wanted(config)
  /\ running' = Wanted(config)
  /\ current' = NoConn
  /\ evicted' = FALSE /\ reverted' = FALSE
  /\ UNCHANGED <<config, relayVars, dial, bounds, straddled>>

\* ParseAllowlist.  On an error Run returns for good; the supervisor does not look
\* at what it returns, and takes the tunnel for running.
AgentAccepts(x) == x \notin AgentRejects

\* A token is fetched and the WebSocket dialled.
Connect(c) ==
  /\ running # Off /\ AgentAccepts(running) /\ current = NoConn
  /\ conn[c] = "none" /\ \A d \in Callers : dial[d].conn # c
  /\ current' = c
  /\ Goto(c, "handshake")
  /\ UNCHANGED <<config, running, rules, registry, count, dial, bounds, history>>

\* The agent loses its connection, and notices.
Break ==
  /\ current # NoConn /\ Fault
  /\ current' = NoConn
  /\ evicted' = FALSE /\ reverted' = FALSE
  /\ UNCHANGED <<config, running, relayVars, dial, changes, straddled>>
-----------------------------------------------------------------------------
(* run_agent_tunnel                                                        *)

\* The registration is loaded; the connection is refused if the tunnel is off.
Load(c) ==
  /\ conn[c] = "handshake"
  /\ IF config = Off
     THEN Goto(c, "none") /\ current' = (IF current = c THEN NoConn ELSE current)
          /\ UNCHANGED rules
     ELSE Goto(c, "loaded") /\ rules' = [rules EXCEPT ![c] = config]
          /\ UNCHANGED current
  /\ UNCHANGED <<config, running, registry, count, dial, bounds, history>>

\* Mutant: the count of the previous session is kept.
CountAtStartKept == count

\* TunnelManager.register
CountAtStart == 0

Register(c) ==
  /\ conn[c] = "loaded"
  /\ Goto(c, "open")
  /\ registry' = c
  /\ count' = CountAtStart
  /\ evicted' = (c # current /\ (evicted \/ (current # NoConn /\ registry = current)))
  /\ UNCHANGED <<config, agentVars, rules, dial, bounds, straddled, reverted>>

\* Mutant: the streams are left waiting.
ShutdownSilent(c) ==
  dial' = [d \in Callers |->
             IF dial[d].conn = c /\ dial[d].pc = "opening" THEN [dial[d] EXCEPT !.pc = "failing"]
             ELSE dial[d]]

\* TunnelSession._shutdown: every stream gets an end-of-file, and a dial that
\* waits for its answer an error.
Shutdown(c) ==
  dial' = [d \in Callers |->
             IF dial[d].conn # c THEN dial[d]
             ELSE [dial[d] EXCEPT !.eof = TRUE,
                                  !.pc = IF @ = "opening" THEN "failing" ELSE @]]

\* The read loop ends once the agent is gone.
ReadLoopEnds(c) ==
  /\ conn[c] = "open" /\ current # c
  /\ Goto(c, "unwind")
  /\ Shutdown(c)
  /\ UNCHANGED <<config, agentVars, rules, registry, count, bounds, history>>

\* Mutant: the entry stays.
RemovedNone(r) == r

\* TunnelManager.unregister, whichever session the entry is for.
Removed(r) == NoConn

Unregister(c) ==
  /\ conn[c] = "unwind"
  /\ Goto(c, "none")
  /\ rules' = [rules EXCEPT ![c] = Off]
  /\ registry' = Removed(registry)
  /\ count' = 0
  /\ evicted' = (evicted \/ (current # NoConn /\ registry = current))
  /\ UNCHANGED <<config, agentVars, dial, bounds, straddled, reverted>>
-----------------------------------------------------------------------------
(* TunnelManager.dial and the stream it returns.                           *)

Room == count < Limit

\* The session may have closed already: the dial then fails at once.
Dial(d) ==
  /\ dial[d].pc = "free"
  /\ registry # NoConn /\ Room
  /\ IF conn[registry] = "open"
     THEN /\ dial' = [dial EXCEPT ![d] = [pc |-> "opening", conn |-> registry, eof |-> FALSE]]
          /\ count' = count + 1
     ELSE UNCHANGED <<dial, count>>
  /\ UNCHANGED <<config, agentVars, conn, rules, registry, bounds, history>>

DialOk(d) ==
  /\ dial[d].pc = "opening"
  /\ dial' = [dial EXCEPT ![d].pc = "audit"]
  /\ UNCHANGED <<config, agentVars, relayVars, bounds, history>>

\* A place is given back, whichever session is registered by now.
Released == IF count > 0 THEN count - 1 ELSE 0

Release(d) ==
  /\ dial' = [dial EXCEPT ![d] = NoDial]
  /\ count' = Released
  /\ straddled' = (straddled \/ (registry # NoConn /\ registry # dial[d].conn))
  /\ UNCHANGED <<config, agentVars, conn, rules, registry, bounds, evicted, reverted>>

\* The agent answers OPEN_ERR, nobody answers within 10 seconds, or the session
\* ended.
DialFails(d) == dial[d].pc \in {"opening", "failing"} /\ Release(d)

\* The audit row is written, or 2 seconds have passed.
DialReturns(d) ==
  /\ dial[d].pc = "audit"
  /\ dial' = [dial EXCEPT ![d].pc = "held"]
  /\ UNCHANGED <<config, agentVars, relayVars, bounds, history>>

\* The destination closes the stream: the caller reads the end-of-file.
RemoteClose(d) ==
  /\ dial[d].pc \in {"audit", "held"} /\ ~dial[d].eof
  /\ dial' = [dial EXCEPT ![d].eof = TRUE]
  /\ UNCHANGED <<config, agentVars, relayVars, bounds, history>>

\* The caller's client is done, or the end-of-file was passed on to it.
Close(d) == dial[d].pc = "held" /\ Release(d)

\* The SOCKS client reset its connection during the dial: the reply to it raises
\* and nobody closes the stream.
Leak(d) ==
  /\ dial[d].pc = "audit" /\ Fault
  /\ dial' = [dial EXCEPT ![d].pc = "leaked"]
  /\ UNCHANGED <<config, agentVars, relayVars, changes, history>>

\* The leaked stream is garbage once its session is over.
Collect(d) ==
  /\ dial[d].pc = "leaked" /\ conn[dial[d].conn] = "none"
  /\ dial' = [dial EXCEPT ![d] = NoDial]
  /\ UNCHANGED <<config, agentVars, relayVars, bounds, history>>
-----------------------------------------------------------------------------
\* The process dies with its sessions and its callers.
Crash ==
  /\ Fault
  /\ conn' = [c \in Conns |-> "none"] /\ rules' = [c \in Conns |-> Off]
  /\ registry' = NoConn /\ count' = 0
  /\ dial' = [d \in Callers |-> NoDial]
  /\ current' = NoConn
  /\ evicted' = FALSE /\ straddled' = FALSE /\ reverted' = FALSE
  /\ UNCHANGED <<config, running, changes>>

Init ==
  /\ config \in Allowlists \cup {Off}
  /\ running = Off /\ current = NoConn
  /\ conn = [c \in Conns |-> "none"]
  /\ rules = [c \in Conns |-> Off]
  /\ registry = NoConn /\ count = 0
  /\ dial = [d \in Callers |-> NoDial]
  /\ changes = 0 /\ faults = 0
  /\ evicted = FALSE /\ straddled = FALSE /\ reverted = FALSE

RelayStep(c) == Load(c) \/ Register(c) \/ ReadLoopEnds(c) \/ Unregister(c)

DialStep(d)  == DialOk(d) \/ DialFails(d) \/ DialReturns(d) \/ Collect(d)

Next ==
  \/ \E x \in Allowlists \cup {Off} : Configure(x)
  \/ Apply \/ Break \/ Crash
  \/ \E c \in Conns : Connect(c) \/ RelayStep(c)
  \/ \E d \in Callers : Dial(d) \/ DialStep(d) \/ RemoteClose(d) \/ Close(d) \/ Leak(d)

Spec == Init /\ [][Next]_vars

(***************************************************************************)
(* The supervisor polls on a ticker, the agent reconnects with a backoff   *)
(* of at most 30 seconds, the WebSocket's keepalive ends the read loop of  *)
(* an agent that is gone, the dial and its audit row have timeouts, and    *)
(* the pumps close a stream that has ended.                                *)
(***************************************************************************)
Fairness ==
  /\ WF_vars(Apply)
  /\ WF_vars(\E c \in Conns : Connect(c))
  /\ \A c \in Conns : WF_vars(RelayStep(c))
  /\ \A d \in Callers : WF_vars(DialStep(d)) /\ WF_vars(dial[d].eof /\ Close(d))

FairSpec == Spec /\ Fairness
-----------------------------------------------------------------------------
(* Properties.                                                             *)

DialType == [pc : {"free"} \cup Counted, conn : Conns \cup {NoConn}, eof : BOOLEAN]

\* The variables hold values of their types.
TypeOK ==
  /\ config \in Allowlists \cup {Off} /\ running \in Allowlists \cup {Off}
  /\ current \in Conns \cup {NoConn} /\ registry \in Conns \cup {NoConn}
  /\ conn \in [Conns -> {"none", "handshake", "loaded", "open", "unwind"}]
  /\ rules \in [Conns -> Allowlists \cup {Off}]
  /\ count \in Nat
  /\ dial \in [Callers -> DialType]
  /\ changes \in 0..MaxChanges /\ faults \in 0..MaxFaults
  /\ evicted \in BOOLEAN /\ straddled \in BOOLEAN /\ reverted \in BOOLEAN

\* The count never exceeds the dials and streams of the registered session, so no
\* dial is refused for streams that are gone; and it is exact, so that the limit
\* is kept, until a stream of an earlier session ends on the new one's entry.
CountIsExact ==
  registry # NoConn =>
    /\ count <= Limit /\ count <= Cardinality(DialsOn(registry))
    /\ ~straddled => count = Cardinality(DialsOn(registry))

\* An agent whose connection was accepted can be dialled through it, unless the
\* end, or a late start, of an older connection took its entry; and the registry
\* never leads to a session that is over.
OnlineUnlessEvicted ==
  /\ (current # NoConn /\ ~evicted) => (conn[current] = "open" => registry = current)
  /\ registry # NoConn => conn[registry] \in {"open", "unwind"}

\* Nobody waits on a session that has ended: a dial waits for its answer only on
\* an open one, and the reader of any other stream has its end-of-file.
NobodyHangs ==
  \A d \in Callers :
    /\ dial[d].pc = "opening" => conn[dial[d].conn] = "open"
    /\ dial[d].pc \in {"audit", "held"} /\ conn[dial[d].conn] # "open" => dial[d].eof

\* The tunnel does what x asks for: it is offline when x disables it, or is an
\* allowlist the agent rejects; otherwise it is dialled through a session that
\* enforces x, as the agent does.  (A change that is taken back before the supervisor
\* notices may leave a session that has loaded the allowlist in between.)
InEffect(x) ==
  /\ running = x
  /\ IF x = Off \/ x \in AgentRejects THEN registry = NoConn
     ELSE registry # NoConn /\ (rules[registry] = x \/ reverted)

\* The last change of the configuration takes effect, and stays in effect once
\* there are no more faults, unless the session is evicted: whatever connections of
\* earlier configurations linger, start late or end late.  An allowlist that the PUT
\* accepts and the agent rejects takes an enabled tunnel offline for good.
TakesEffectUnlessEvicted ==
  (changes = MaxChanges) ~> [](evicted \/ InEffect(config))
=============================================================================
