------------------------------ MODULE AgentJobs ------------------------------
(***************************************************************************)
(* Jobs for the agent on a managed host: rows of agent_jobs, the executor  *)
(* that dispatches a job and waits for its result, the long poll with      *)
(* which the agent fetches it, and the agent that runs it and posts the    *)
(* result.                                                                 *)
(*                                                                         *)
(* The agent does one thing at a time and retries nothing but the poll.    *)
(* A request whose client is gone keeps being served: the agent may poll   *)
(* again while an abandoned poll of its own is still looking for a job.    *)
(* A handler reads the job in one step and commits in another.             *)
(*                                                                         *)
(* One asset is modelled, with the agents registered for it (re-deploys    *)
(* leave several).  What a command does is an outcome.                     *)
(***************************************************************************)
EXTENDS Naturals, FiniteSets

CONSTANTS
  Agents,      \* registrations for the asset
  NoAgent,     \* "no registration"
  Handlers,    \* slots for requests being served
  NoHandler,   \* "no request"
  MaxJobs,     \* bound on jobs
  MaxFaults    \* bound on lost messages, agent crashes and backend crashes

ASSUME AgentAssumption ==
  /\ NoAgent \notin Agents /\ NoHandler \notin Handlers
  /\ MaxJobs \in Nat /\ MaxFaults \in Nat

VARIABLES
  job,      \* job[j]: agent_jobs.status of the j-th job by created_at
  owner,    \* owner[j]: agent_registration_id
  wait,     \* wait[j]: dispatch_agent_job for job j, or what it came to
  handler,  \* handler[h]: the request in slot h
  agent,    \* agent[a]: what the agent is doing
  latest,   \* the registration with the greatest last_seen
  up,       \* the backend is running
  ran,      \* ran[j]: how often job j was executed
  outcome,  \* outcome[j]: what the agent made of job j
  faults,   \* faults so far
  lost,     \* history: jobs whose hand-out or result was lost
  crossed   \* history: jobs that two polls had found pending at once

rows    == <<job, owner>>
history == <<lost, crossed>>
vars    == <<rows, wait, handler, agent, latest, up, ran, outcome, faults, history>>
-----------------------------------------------------------------------------
Jobs      == 1..MaxJobs
Terminal  == {"completed", "failed"}
JobStatus == {"none", "pending", "running", "deleted"} \cup Terminal

Free == [pc |-> "free", agent |-> NoAgent, job |-> 0, st |-> "failed", live |-> FALSE]
Idle == [pc |-> "idle", job |-> 0, h |-> NoHandler]

Serve(h, r)  == handler' = [handler EXCEPT ![h] = r]
Turn(a, r)   == agent' = [agent EXCEPT ![a] = r]
Fault        == faults < MaxFaults /\ faults' = faults + 1

\* The request in slot h ends; its client, if it still waits, goes on with r.
Reply(h, r) ==
  /\ Serve(h, Free)
  /\ agent' = IF handler[h].live THEN [agent EXCEPT ![handler[h].agent] = r] ELSE agent
-----------------------------------------------------------------------------
(* The dispatcher.                                                         *)

\* A pending job for the registration that was seen last.
Dispatch(j) ==
  /\ up /\ latest # NoAgent
  /\ job[j] = "none" /\ \A i \in Jobs : i < j => job[i] # "none"
  /\ job' = [job EXCEPT ![j] = "pending"]
  /\ owner' = [owner EXCEPT ![j] = latest]
  /\ wait' = [wait EXCEPT ![j] = "waiting"]
  /\ UNCHANGED <<handler, agent, latest, up, ran, outcome, faults, history>>

\* Mutant: any end of the job is taken for success.
ReadResultLenient(s) == IF s = "deleted" THEN "failed" ELSE "completed"

\* What the dispatcher makes of a job that is neither pending nor running.
ReadResult(s) == IF s = "completed" THEN "completed" ELSE "failed"

DispatchEnd(j) ==
  /\ wait[j] = "waiting" /\ job[j] \in Terminal \cup {"deleted"}
  /\ wait' = [wait EXCEPT ![j] = ReadResult(job[j])]
  /\ UNCHANGED <<rows, handler, agent, latest, up, ran, outcome, faults, history>>

\* The job is left as it is.
DispatchTimeout(j) ==
  /\ wait[j] = "waiting"
  /\ wait' = [wait EXCEPT ![j] = "timeout"]
  /\ UNCHANGED <<rows, handler, agent, latest, up, ran, outcome, faults, history>>
-----------------------------------------------------------------------------
(* GET /agent/jobs/next.                                                   *)

AgentPoll(a, h) ==
  /\ up /\ agent[a].pc = "idle" /\ handler[h].pc = "free"
  /\ Turn(a, [Idle EXCEPT !.pc = "polling", !.h = h])
  /\ Serve(h, [Free EXCEPT !.pc = "look", !.agent = a, !.live = TRUE])
  /\ latest' = IF latest = NoAgent THEN latest ELSE a
  /\ UNCHANGED <<rows, wait, up, ran, outcome, faults, history>>

PendingFor(a) == {j \in Jobs : job[j] = "pending" /\ owner[j] = a}

PollFind(h) ==
  LET a == handler[h].agent IN
  /\ handler[h].pc = "look"
  /\ \E j \in PendingFor(a) :
       /\ \A i \in PendingFor(a) : j <= i
       /\ Serve(h, [handler[h] EXCEPT !.pc = "take", !.job = j])
       /\ crossed' = IF \E g \in Handlers : handler[g].pc = "take" /\ handler[g].job = j
                     THEN crossed \cup {j} ELSE crossed
  /\ UNCHANGED <<rows, wait, agent, latest, up, ran, outcome, faults, lost>>

\* 204 after 30 seconds without a job
PollNothing(h) ==
  /\ handler[h].pc = "look" /\ PendingFor(handler[h].agent) = {}
  /\ Reply(h, Idle)
  /\ UNCHANGED <<rows, wait, latest, up, ran, outcome, faults, history>>

\* Mutant: the job stays pending until its result arrives.
TakeJobLater(j) == UNCHANGED job

\* The job is marked running before the response is sent; the UPDATE of a
\* deleted row fails.
TakeJob(j) == job' = IF job[j] = "deleted" THEN job ELSE [job EXCEPT ![j] = "running"]

PollTake(h) ==
  LET j == handler[h].job IN
  /\ handler[h].pc = "take"
  /\ TakeJob(j)
  /\ Reply(h, IF job[j] = "deleted" THEN Idle ELSE [Idle EXCEPT !.pc = "exec", !.job = j])
  /\ lost' = IF handler[h].live THEN lost ELSE lost \cup {j}
  /\ UNCHANGED <<owner, wait, latest, up, ran, outcome, faults, crossed>>
-----------------------------------------------------------------------------
(* The agent.                                                              *)

\* The signature is verified and the command run; it succeeds or fails.
AgentRun(a) ==
  LET j == agent[a].job IN
  /\ agent[a].pc = "exec"
  /\ \E o \in Terminal : outcome' = [outcome EXCEPT ![j] = o]
  /\ ran' = [ran EXCEPT ![j] = @ + 1]
  /\ Turn(a, [agent[a] EXCEPT !.pc = "post"])
  /\ UNCHANGED <<rows, wait, handler, latest, up, faults, history>>

\* The signature does not match (the secret was rotated since the dispatch).
AgentReject(a) ==
  LET j == agent[a].job IN
  /\ agent[a].pc = "exec"
  /\ outcome' = [outcome EXCEPT ![j] = "failed"]
  /\ Turn(a, [agent[a] EXCEPT !.pc = "post"])
  /\ UNCHANGED <<rows, wait, handler, latest, up, ran, faults, history>>

AgentPost(a, h) ==
  LET j == agent[a].job IN
  /\ up /\ agent[a].pc = "post" /\ handler[h].pc = "free"
  /\ Serve(h, [pc |-> "check", agent |-> a, job |-> j, st |-> outcome[j], live |-> TRUE])
  /\ Turn(a, [agent[a] EXCEPT !.pc = "posting", !.h = h])
  /\ UNCHANGED <<rows, wait, latest, up, ran, outcome, faults, history>>

\* The result does not reach the backend; the agent logs it and goes on.
AgentPostFails(a) ==
  /\ agent[a].pc = "post"
  /\ up => Fault
  /\ ~up => UNCHANGED faults
  /\ lost' = lost \cup {agent[a].job}
  /\ Turn(a, Idle)
  /\ UNCHANGED <<rows, wait, handler, latest, up, ran, outcome, crossed>>
-----------------------------------------------------------------------------
(* POST /agent/jobs/{id}/result.                                           *)

PostCheck(h) ==
  /\ handler[h].pc = "check"
  /\ IF job[handler[h].job] \in Terminal \cup {"deleted"}
     THEN Reply(h, Idle)
     ELSE Serve(h, [handler[h] EXCEPT !.pc = "commit"]) /\ UNCHANGED agent
  /\ UNCHANGED <<rows, wait, latest, up, ran, outcome, faults, history>>

PostedStatus(h) == handler[h].st

\* Mutant: the answer is sent and nothing is stored.
PostCommitForgotten(h) ==
  /\ handler[h].pc = "commit"
  /\ Reply(h, Idle)
  /\ UNCHANGED <<rows, wait, latest, up, ran, outcome, faults, history>>

PostCommit(h) ==
  LET j == handler[h].job IN
  /\ handler[h].pc = "commit"
  /\ job' = IF job[j] = "deleted" THEN job ELSE [job EXCEPT ![j] = PostedStatus(h)]
  /\ Reply(h, Idle)
  /\ UNCHANGED <<owner, wait, latest, up, ran, outcome, faults, history>>
-----------------------------------------------------------------------------
(* Faults.                                                                 *)

\* The agent's HTTP client gives up, or the connection breaks, before the
\* response is there; the backend does not notice.
GiveUp(a) ==
  /\ agent[a].pc \in {"polling", "posting"} /\ Fault
  /\ handler' = [handler EXCEPT ![agent[a].h] = [@ EXCEPT !.live = FALSE]]
  /\ Turn(a, Idle)
  /\ UNCHANGED <<rows, wait, latest, up, ran, outcome, history>>

\* The agent dies, with whatever it is doing, and begins anew.
AgentCrash(a) ==
  /\ agent[a].pc \in {"exec", "post"} /\ Fault
  /\ lost' = lost \cup {agent[a].job}
  /\ ran' \in {ran, IF agent[a].pc = "exec" THEN [ran EXCEPT ![agent[a].job] = @ + 1] ELSE ran}
  /\ Turn(a, Idle)
  /\ UNCHANGED <<rows, wait, handler, latest, up, outcome, crossed>>

\* The backend dies with its dispatchers and handlers.
Crash ==
  /\ up /\ Fault
  /\ up' = FALSE
  /\ wait' = [j \in Jobs |-> IF wait[j] = "waiting" THEN "gone" ELSE wait[j]]
  /\ lost' = lost \cup {handler[h].job : h \in {g \in Handlers : handler[g].pc \in {"check", "commit"}}}
  /\ handler' = [h \in Handlers |-> Free]
  /\ agent' = [a \in Agents |-> IF agent[a].pc \in {"polling", "posting"} THEN Idle ELSE agent[a]]
  /\ UNCHANGED <<rows, latest, ran, outcome, crossed>>

Restart ==
  /\ ~up /\ up' = TRUE
  /\ UNCHANGED <<rows, wait, handler, agent, latest, ran, outcome, faults, history>>

\* DELETE /assets/{id} removes the registrations and their jobs.
DeleteAsset ==
  /\ up /\ latest # NoAgent
  /\ job' = [j \in Jobs |-> IF job[j] = "none" THEN "none" ELSE "deleted"]
  /\ latest' = NoAgent
  /\ UNCHANGED <<owner, wait, handler, agent, up, ran, outcome, faults, history>>
-----------------------------------------------------------------------------
Init ==
  /\ job = [j \in Jobs |-> "none"]
  /\ owner = [j \in Jobs |-> NoAgent]
  /\ wait = [j \in Jobs |-> "none"]
  /\ handler = [h \in Handlers |-> Free]
  /\ agent = [a \in Agents |-> Idle]
  /\ latest \in Agents
  /\ up = TRUE
  /\ ran = [j \in Jobs |-> 0]
  /\ outcome = [j \in Jobs |-> "none"]
  /\ faults = 0
  /\ lost = {} /\ crossed = {}

HandlerStep(h) ==
  PollFind(h) \/ PollNothing(h) \/ PollTake(h) \/ PostCheck(h) \/ PostCommit(h)

AgentStep(a) ==
  \/ AgentRun(a) \/ AgentReject(a) \/ AgentPostFails(a)
  \/ \E h \in Handlers : AgentPoll(a, h) \/ AgentPost(a, h)

Next ==
  \/ \E j \in Jobs : Dispatch(j) \/ DispatchEnd(j) \/ DispatchTimeout(j)
  \/ \E h \in Handlers : HandlerStep(h)
  \/ \E a \in Agents : AgentStep(a) \/ GiveUp(a) \/ AgentCrash(a)
  \/ Crash \/ Restart \/ DeleteAsset

Spec == Init /\ [][Next]_vars

(***************************************************************************)
(* The event loop serves its requests, the agent's service loop keeps      *)
(* polling and works off what it got, dead processes are restarted.  There *)
(* is a slot for every request.                                            *)
(***************************************************************************)
Fairness ==
  /\ \A h \in Handlers : WF_vars(HandlerStep(h))
  /\ \A a \in Agents : SF_vars(AgentStep(a))
  /\ WF_vars(Restart)

FairSpec == Spec /\ Fairness
-----------------------------------------------------------------------------
(* Properties.                                                             *)

HandlerType == [pc : {"free", "look", "take", "check", "commit"}, agent : Agents \cup {NoAgent},
                job : 0..MaxJobs, st : Terminal, live : BOOLEAN]
AgentType   == [pc : {"idle", "polling", "exec", "post", "posting"}, job : 0..MaxJobs,
                h : Handlers \cup {NoHandler}]

\* The rows hold values of their columns' types.
TypeOK ==
  /\ job \in [Jobs -> JobStatus]
  /\ owner \in [Jobs -> Agents \cup {NoAgent}]
  /\ wait \in [Jobs -> {"none", "waiting", "completed", "failed", "timeout", "gone"}]
  /\ handler \in [Handlers -> HandlerType]
  /\ agent \in [Agents -> AgentType]
  /\ latest \in Agents \cup {NoAgent}
  /\ up \in BOOLEAN
  /\ ran \in [Jobs -> Nat]
  /\ outcome \in [Jobs -> {"none"} \cup Terminal]
  /\ faults \in 0..MaxFaults
  /\ lost \subseteq Jobs /\ crossed \subseteq Jobs

\* No command is run twice: not through repeated and abandoned polls, crashes of
\* the agent or the backend, or lost responses.
RunsOnce == \A j \in Jobs : ran[j] <= 1

\* The change is told the truth: a dispatch that succeeds had its command run,
\* once and with success; one that reports a failure of the job had it fail,
\* unless the asset was deleted.
DispatchTruthful ==
  \A j \in Jobs :
    /\ wait[j] = "completed" => ran[j] = 1 /\ outcome[j] = "completed"
    /\ wait[j] = "failed" => outcome[j] = "failed" \/ job[j] = "deleted"

\* A running job is in somebody's hands: the agent has it, or its result is being
\* posted; unless a message or a process was lost, after which it stays running.
\* (Two polls that find one job may set it back to running behind its result.)
RunningIsHeld ==
  \A j \in Jobs : (job[j] = "running" /\ j \notin lost \cup crossed) =>
    \/ agent[owner[j]].job = j
    \/ \E h \in Handlers : handler[h].pc \in {"check", "commit"} /\ handler[h].job = j

\* A dispatched job comes to an end, also when the dispatcher no longer waits for
\* it, unless it was lost on the way.
JobSettles ==
  \A j \in Jobs :
    job[j] = "pending" ~> (job[j] \in Terminal \cup {"deleted"} \/ j \in lost \cup crossed)
=============================================================================
