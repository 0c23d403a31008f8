--------------------------- MODULE AgentJobsProofs ---------------------------
(***************************************************************************)
(* Theorems about AgentJobs, for every set of agents and request slots,    *)
(* every number of jobs and every number of faults.                        *)
(***************************************************************************)
EXTENDS AgentJobs, TLAPS

(***************************************************************************)
(* The inductive invariant says who holds a job.  A request that is still  *)
(* awaited is the one its agent waits for; so an agent never has two       *)
(* requests whose answer could hand it a job, however many it abandoned.   *)
(***************************************************************************)

\* A request names its agent and its job, and one that is awaited is awaited by
\* an agent that is at it.
HandlerOK(h) ==
  /\ handler[h].pc # "free" => handler[h].agent \in Agents
  /\ handler[h].pc \in {"take", "check", "commit"} => handler[h].job \in Jobs
  /\ handler[h].live =>
       /\ handler[h].pc # "free" /\ agent[handler[h].agent].h = h
       /\ handler[h].pc \in {"look", "take"} => agent[handler[h].agent].pc = "polling"
       /\ handler[h].pc \in {"check", "commit"} =>
            agent[handler[h].agent].pc = "posting" /\ agent[handler[h].agent].job = handler[h].job

\* An agent that has a job has one of its own, which was handed out; it has not
\* run it while it is about to, and has an outcome once it did.
AgentOK(a) ==
  /\ agent[a].pc \in {"idle", "polling"} => agent[a].job = 0
  /\ agent[a].pc \in {"exec", "post", "posting"} =>
       /\ agent[a].job \in Jobs /\ owner[agent[a].job] = a
       /\ job[agent[a].job] \notin {"none", "pending"}
  /\ agent[a].pc = "exec" => ran[agent[a].job] = 0 /\ outcome[agent[a].job] = "none"
  /\ agent[a].pc \in {"post", "posting"} => outcome[agent[a].job] \in Terminal
  /\ agent[a].pc \in {"polling", "posting"} =>
       /\ agent[a].h \in Handlers
       /\ handler[agent[a].h].live /\ handler[agent[a].h].agent = a
  /\ agent[a].pc = "posting" =>
       /\ handler[agent[a].h].pc \in {"check", "commit"}
       /\ handler[agent[a].h].job = agent[a].job

\* A poll that has found a job serves the job's agent; if it is awaited the job
\* was not run; and it found the job pending, which it still is unless another
\* poll had found it too.
TakeOK(h) ==
  handler[h].pc = "take" =>
    /\ owner[handler[h].job] = handler[h].agent /\ job[handler[h].job] # "none"
    /\ handler[h].live => ran[handler[h].job] = 0 /\ outcome[handler[h].job] = "none"
    /\ job[handler[h].job] \in {"pending", "deleted"} \/ handler[h].job \in crossed
    /\ \A g \in Handlers :
         (g # h /\ handler[g].pc = "take" /\ handler[g].job = handler[h].job) =>
            handler[h].job \in crossed

\* A result that is being stored is what the agent made of the job.
PostOK(h) ==
  handler[h].pc \in {"check", "commit"} =>
    /\ outcome[handler[h].job] = handler[h].st
    /\ job[handler[h].job] \notin {"none", "pending"}

\* A job that was not handed out was not run; a job that is done was; a job that
\* exists has an agent.
JobOK(j) ==
  /\ ran[j] <= 1
  /\ job[j] \in {"none", "pending"} => ran[j] = 0 /\ outcome[j] = "none"
  /\ job[j] \in Terminal => outcome[j] = job[j]
  /\ outcome[j] = "completed" => ran[j] = 1
  /\ job[j] # "none" => owner[j] \in Agents

HoldInv ==
  /\ \A h \in Handlers : HandlerOK(h) /\ TakeOK(h) /\ PostOK(h)
  /\ \A a \in Agents : AgentOK(a)
  /\ \A j \in Jobs : JobOK(j)

IInv == TypeOK /\ HoldInv /\ DispatchTruthful /\ RunningIsHeld

LEMMA FreeType == Free \in HandlerType
  BY AgentAssumption DEF Free, HandlerType, Terminal

LEMMA IdleType == Idle \in AgentType
  BY AgentAssumption DEF Idle, AgentType

LEMMA JobsType == \A j \in Jobs : j \in 0..MaxJobs /\ j # 0
  BY AgentAssumption DEF Jobs

\* The answer to a request keeps the types of requests and agents.
LEMMA ReplyType ==
  ASSUME TypeOK, NEW h \in Handlers, HandlerOK(h), NEW r \in AgentType, Reply(h, r)
  PROVE  handler' \in [Handlers -> HandlerType] /\ agent' \in [Agents -> AgentType]
  BY FreeType DEF TypeOK, Reply, Serve, HandlerOK

\* A new job was neither handed out nor run.
LEMMA DispatchInv ==
  ASSUME IInv, NEW j \in Jobs, Dispatch(j) PROVE IInv'
<1> USE AgentAssumption DEF IInv, HoldInv, rows, history, Free, Idle
<1>1. TypeOK'
  BY FreeType, IdleType DEF TypeOK, HandlerOK, AgentOK, HandlerType, AgentType, JobStatus, Terminal, Dispatch
<1>2. \A g \in Handlers : HandlerOK(g)'
  BY DEF TypeOK, HandlerOK, AgentOK, HandlerType, AgentType, Dispatch
<1>3. \A b \in Agents : AgentOK(b)'
  BY DEF TypeOK, HandlerOK, AgentOK, TakeOK, PostOK, Terminal, HandlerType, AgentType, Dispatch
<1>4. \A g \in Handlers : TakeOK(g)'
  BY DEF TypeOK, HandlerOK, AgentOK, TakeOK, PostOK, JobOK, Terminal, HandlerType, AgentType, Dispatch
<1>5. \A g \in Handlers : PostOK(g)'
  BY DEF TypeOK, HandlerOK, AgentOK, PostOK, JobOK, Terminal, HandlerType, AgentType, Dispatch
<1>6. \A i \in Jobs : JobOK(i)'
  BY DEF TypeOK, HandlerOK, AgentOK, TakeOK, PostOK, JobOK, Terminal, JobStatus, HandlerType, AgentType, Dispatch
<1>7. DispatchTruthful'
  BY DEF TypeOK, HandlerOK, AgentOK, JobOK, DispatchTruthful, Terminal, HandlerType, AgentType, Dispatch
<1>8. RunningIsHeld'
  BY DEF TypeOK, HandlerOK, AgentOK, TakeOK, PostOK, RunningIsHeld, Terminal, HandlerType, AgentType, Dispatch
<1> QED
  BY <1>1, <1>2, <1>3, <1>4, <1>5, <1>6, <1>7, <1>8

\* A dispatcher that reads the job's end reads what the agent made of it.
LEMMA DispatchEndInv ==
  ASSUME IInv, NEW j \in Jobs, DispatchEnd(j) PROVE IInv'
<1> USE AgentAssumption DEF IInv, HoldInv, rows, history, Free, Idle
<1>1. TypeOK'
  BY FreeType, IdleType DEF TypeOK, HandlerOK, AgentOK, HandlerType, AgentType, JobStatus, Terminal, DispatchEnd, ReadResult
<1>2. \A g \in Handlers : HandlerOK(g)'
  BY DEF TypeOK, HandlerOK, AgentOK, HandlerType, AgentType, DispatchEnd, ReadResult
<1>3. \A b \in Agents : AgentOK(b)'
  BY DEF TypeOK, HandlerOK, AgentOK, TakeOK, PostOK, Terminal, HandlerType, AgentType, DispatchEnd, ReadResult
<1>4. \A g \in Handlers : TakeOK(g)'
  BY DEF TypeOK, HandlerOK, AgentOK, TakeOK, PostOK, JobOK, Terminal, HandlerType, AgentType, DispatchEnd, ReadResult
<1>5. \A g \in Handlers : PostOK(g)'
  BY DEF TypeOK, HandlerOK, AgentOK, PostOK, JobOK, Terminal, HandlerType, AgentType, DispatchEnd, ReadResult
<1>6. \A i \in Jobs : JobOK(i)'
  BY DEF TypeOK, HandlerOK, AgentOK, TakeOK, PostOK, JobOK, Terminal, JobStatus, HandlerType, AgentType, DispatchEnd, ReadResult
<1>7. DispatchTruthful'
  BY DEF TypeOK, HandlerOK, AgentOK, JobOK, DispatchTruthful, Terminal, HandlerType, AgentType, DispatchEnd, ReadResult
<1>8. RunningIsHeld'
  BY DEF TypeOK, HandlerOK, AgentOK, TakeOK, PostOK, RunningIsHeld, Terminal, HandlerType, AgentType, DispatchEnd, ReadResult
<1> QED
  BY <1>1, <1>2, <1>3, <1>4, <1>5, <1>6, <1>7, <1>8

\* A dispatcher that gives up leaves the job alone.
LEMMA DispatchTimeoutInv ==
  ASSUME IInv, NEW j \in Jobs, DispatchTimeout(j) PROVE IInv'
<1> USE AgentAssumption DEF IInv, HoldInv, rows, history, Free, Idle
<1>1. TypeOK'
  BY FreeType, IdleType DEF TypeOK, HandlerOK, AgentOK, HandlerType, AgentType, JobStatus, Terminal, DispatchTimeout
<1>2. \A g \in Handlers : HandlerOK(g)'
  BY DEF TypeOK, HandlerOK, AgentOK, HandlerType, AgentType, DispatchTimeout
<1>3. \A b \in Agents : AgentOK(b)'
  BY DEF TypeOK, HandlerOK, AgentOK, TakeOK, PostOK, Terminal, HandlerType, AgentType, DispatchTimeout
<1>4. \A g \in Handlers : TakeOK(g)'
  BY DEF TypeOK, HandlerOK, AgentOK, TakeOK, PostOK, JobOK, Terminal, HandlerType, AgentType, DispatchTimeout
<1>5. \A g \in Handlers : PostOK(g)'
  BY DEF TypeOK, HandlerOK, AgentOK, PostOK, JobOK, Terminal, HandlerType, AgentType, DispatchTimeout
<1>6. \A i \in Jobs : JobOK(i)'
  BY DEF TypeOK, HandlerOK, AgentOK, TakeOK, PostOK, JobOK, Terminal, JobStatus, HandlerType, AgentType, DispatchTimeout
<1>7. DispatchTruthful'
  BY DEF TypeOK, HandlerOK, AgentOK, JobOK, DispatchTruthful, Terminal, HandlerType, AgentType, DispatchTimeout
<1>8. RunningIsHeld'
  BY DEF TypeOK, HandlerOK, AgentOK, TakeOK, PostOK, RunningIsHeld, Terminal, HandlerType, AgentType, DispatchTimeout
<1> QED
  BY <1>1, <1>2, <1>3, <1>4, <1>5, <1>6, <1>7, <1>8

\* An agent that polls waits for nothing else.
LEMMA AgentPollInv ==
  ASSUME IInv, NEW a \in Agents, NEW h \in Handlers, AgentPoll(a, h) PROVE IInv'
<1> USE AgentAssumption DEF IInv, HoldInv, rows, history, Free, Idle
<1>1. TypeOK'
  BY FreeType, IdleType DEF TypeOK, HandlerOK, AgentOK, HandlerType, AgentType, JobStatus, Terminal, AgentPoll, Serve, Turn
<1>2. \A g \in Handlers : HandlerOK(g)'
  BY DEF TypeOK, HandlerOK, AgentOK, HandlerType, AgentType, AgentPoll, Serve, Turn
<1>3. \A b \in Agents : AgentOK(b)'
  BY DEF TypeOK, HandlerOK, AgentOK, TakeOK, PostOK, Terminal, HandlerType, AgentType, AgentPoll, Serve, Turn
<1>4. \A g \in Handlers : TakeOK(g)'
  BY DEF TypeOK, HandlerOK, AgentOK, TakeOK, PostOK, JobOK, Terminal, HandlerType, AgentType, AgentPoll, Serve, Turn
<1>5. \A g \in Handlers : PostOK(g)'
  BY DEF TypeOK, HandlerOK, AgentOK, PostOK, JobOK, Terminal, HandlerType, AgentType, AgentPoll, Serve, Turn
<1>6. \A i \in Jobs : JobOK(i)'
  BY DEF TypeOK, HandlerOK, AgentOK, TakeOK, PostOK, JobOK, Terminal, JobStatus, HandlerType, AgentType, AgentPoll, Serve, Turn
<1>7. DispatchTruthful'
  BY DEF TypeOK, HandlerOK, AgentOK, JobOK, DispatchTruthful, Terminal, HandlerType, AgentType, AgentPoll, Serve, Turn
<1>8. RunningIsHeld'
  BY DEF TypeOK, HandlerOK, AgentOK, TakeOK, PostOK, RunningIsHeld, Terminal, HandlerType, AgentType, AgentPoll, Serve, Turn
<1> QED
  BY <1>1, <1>2, <1>3, <1>4, <1>5, <1>6, <1>7, <1>8

\* A job that is found is pending, so it was not run.
LEMMA PollFindInv ==
  ASSUME IInv, NEW h \in Handlers, PollFind(h) PROVE IInv'
<1> USE AgentAssumption DEF IInv, HoldInv, rows, history, Free, Idle
<1>1. TypeOK'
  <2>1. PICK j \in PendingFor(handler[h].agent) :
           /\ Serve(h, [handler[h] EXCEPT !.pc = "take", !.job = j])
           /\ crossed' = crossed \cup {j} \/ crossed' = crossed
    BY DEF PollFind
  <2>2. [handler[h] EXCEPT !.pc = "take", !.job = j] \in HandlerType
    <3>1. handler[h] \in HandlerType /\ j \in 0..MaxJobs
      BY JobsType DEF TypeOK, PendingFor
    <3> QED
      BY <3>1 DEF HandlerType
  <2> QED
    BY <2>1, <2>2 DEF TypeOK, PollFind, PendingFor, Serve
<1>2. \A g \in Handlers : HandlerOK(g)'
  BY DEF TypeOK, HandlerOK, AgentOK, HandlerType, AgentType, PollFind, PendingFor, Serve
<1>3. \A b \in Agents : AgentOK(b)'
  BY DEF TypeOK, HandlerOK, AgentOK, TakeOK, PostOK, Terminal, HandlerType, AgentType, PollFind, PendingFor, Serve
<1>4. \A g \in Handlers : TakeOK(g)'
  BY DEF TypeOK, HandlerOK, AgentOK, TakeOK, PostOK, JobOK, Terminal, HandlerType, AgentType, PollFind, PendingFor, Serve
<1>5. \A g \in Handlers : PostOK(g)'
  BY DEF TypeOK, HandlerOK, AgentOK, PostOK, JobOK, Terminal, HandlerType, AgentType, PollFind, PendingFor, Serve
<1>6. \A i \in Jobs : JobOK(i)'
  BY DEF TypeOK, HandlerOK, AgentOK, TakeOK, PostOK, JobOK, Terminal, JobStatus, HandlerType, AgentType, PollFind, PendingFor, Serve
<1>7. DispatchTruthful'
  BY DEF TypeOK, HandlerOK, AgentOK, JobOK, DispatchTruthful, Terminal, HandlerType, AgentType, PollFind, PendingFor, Serve
<1>8. RunningIsHeld'
  BY DEF TypeOK, HandlerOK, AgentOK, TakeOK, PostOK, RunningIsHeld, Terminal, HandlerType, AgentType, PollFind, PendingFor, Serve
<1> QED
  BY <1>1, <1>2, <1>3, <1>4, <1>5, <1>6, <1>7, <1>8

\* An empty answer hands out nothing.
LEMMA PollNothingInv ==
  ASSUME IInv, NEW h \in Handlers, PollNothing(h) PROVE IInv'
<1> USE AgentAssumption DEF IInv, HoldInv, rows, history, Free, Idle
<1>1. TypeOK'
  BY FreeType, IdleType DEF TypeOK, HandlerOK, AgentOK, HandlerType, AgentType, JobStatus, Terminal, PollNothing, Reply, Serve
<1>2. \A g \in Handlers : HandlerOK(g)'
  BY DEF TypeOK, HandlerOK, AgentOK, HandlerType, AgentType, PollNothing, Reply, Serve
<1>3. \A b \in Agents : AgentOK(b)'
  BY DEF TypeOK, HandlerOK, AgentOK, TakeOK, PostOK, Terminal, HandlerType, AgentType, PollNothing, Reply, Serve
<1>4. \A g \in Handlers : TakeOK(g)'
  BY DEF TypeOK, HandlerOK, AgentOK, TakeOK, PostOK, JobOK, Terminal, HandlerType, AgentType, PollNothing, Reply, Serve
<1>5. \A g \in Handlers : PostOK(g)'
  BY DEF TypeOK, HandlerOK, AgentOK, PostOK, JobOK, Terminal, HandlerType, AgentType, PollNothing, Reply, Serve
<1>6. \A i \in Jobs : JobOK(i)'
  BY DEF TypeOK, HandlerOK, AgentOK, TakeOK, PostOK, JobOK, Terminal, JobStatus, HandlerType, AgentType, PollNothing, Reply, Serve
<1>7. DispatchTruthful'
  BY DEF TypeOK, HandlerOK, AgentOK, JobOK, DispatchTruthful, Terminal, HandlerType, AgentType, PollNothing, Reply, Serve
<1>8. RunningIsHeld'
  BY DEF TypeOK, HandlerOK, AgentOK, TakeOK, PostOK, RunningIsHeld, Terminal, HandlerType, AgentType, PollNothing, Reply, Serve
<1> QED
  BY <1>1, <1>2, <1>3, <1>4, <1>5, <1>6, <1>7, <1>8

\* A job is handed to its agent only if the agent still waits, and then it was not
\* run.
LEMMA PollTakeInv ==
  ASSUME IInv, NEW h \in Handlers, PollTake(h) PROVE IInv'
<1> USE AgentAssumption DEF IInv, HoldInv, rows, history, Free, Idle
<1>1. TypeOK'
  <2> DEFINE r == IF job[handler[h].job] = "deleted" THEN Idle
                  ELSE [Idle EXCEPT !.pc = "exec", !.job = handler[h].job]
  <2>1. handler[h].job \in Jobs
    BY DEF HandlerOK, PollTake
  <2>2. r \in AgentType
    BY <2>1, JobsType, IdleType DEF AgentType
  <2>3. handler' \in [Handlers -> HandlerType] /\ agent' \in [Agents -> AgentType]
    BY <2>2, ReplyType DEF PollTake
  <2> QED
    BY <2>1, <2>3 DEF TypeOK, PollTake, TakeJob, JobStatus
<1>2. \A g \in Handlers : HandlerOK(g)'
  BY DEF TypeOK, HandlerOK, AgentOK, HandlerType, AgentType, PollTake, TakeJob, Reply, Serve
<1>3. \A b \in Agents : AgentOK(b)'
  BY DEF TypeOK, HandlerOK, AgentOK, TakeOK, PostOK, Terminal, HandlerType, AgentType, PollTake, TakeJob, Reply, Serve
<1>4. \A g \in Handlers : TakeOK(g)'
  BY DEF TypeOK, HandlerOK, AgentOK, TakeOK, PostOK, JobOK, Terminal, HandlerType, AgentType, PollTake, TakeJob, Reply, Serve
<1>5. \A g \in Handlers : PostOK(g)'
  BY DEF TypeOK, HandlerOK, AgentOK, PostOK, JobOK, Terminal, HandlerType, AgentType, PollTake, TakeJob, Reply, Serve
<1>6. \A i \in Jobs : JobOK(i)'
  BY DEF TypeOK, HandlerOK, AgentOK, TakeOK, PostOK, JobOK, Terminal, JobStatus, HandlerType, AgentType, PollTake, TakeJob, Reply, Serve
<1>7. DispatchTruthful'
  BY DEF TypeOK, HandlerOK, AgentOK, JobOK, DispatchTruthful, Terminal, HandlerType, AgentType, PollTake, TakeJob, Reply, Serve
<1>8. RunningIsHeld'
  <2> SUFFICES ASSUME NEW j \in Jobs, job'[j] = "running", j \notin lost' \cup crossed'
             PROVE  \/ agent'[owner'[j]].job = j
                    \/ \E g \in Handlers : handler'[g].pc \in {"check", "commit"} /\ handler'[g].job = j
    BY DEF RunningIsHeld
  <2>1. CASE j = handler[h].job
    BY <2>1 DEF TypeOK, HandlerOK, TakeOK, HandlerType, AgentType, PollTake, TakeJob, Reply, Serve
  <2>2. CASE j # handler[h].job
    <3>1. job[j] = "running" /\ j \notin lost \cup crossed /\ owner'[j] = owner[j]
      BY <2>2 DEF TypeOK, PollTake, TakeJob
    <3>2. CASE agent[owner[j]].job = j
      BY <2>2, <3>1, <3>2 DEF TypeOK, HandlerOK, AgentOK, HandlerType, AgentType, PollTake, Reply, Jobs
    <3>3. CASE \E g \in Handlers : handler[g].pc \in {"check", "commit"} /\ handler[g].job = j
      BY <3>3 DEF TypeOK, PollTake, Reply, Serve
    <3> QED
      BY <3>1, <3>2, <3>3 DEF RunningIsHeld
  <2> QED
    BY <2>1, <2>2
<1> QED
  BY <1>1, <1>2, <1>3, <1>4, <1>5, <1>6, <1>7, <1>8

\* The job that is run was not run before.
LEMMA AgentRunInv ==
  ASSUME IInv, NEW a \in Agents, AgentRun(a) PROVE IInv'
<1> USE AgentAssumption DEF IInv, HoldInv, rows, history, Free, Idle
<1>1. TypeOK'
  BY FreeType, IdleType DEF TypeOK, HandlerOK, AgentOK, HandlerType, AgentType, JobStatus, Terminal, AgentRun, Turn
<1>2. \A g \in Handlers : HandlerOK(g)'
  BY DEF TypeOK, HandlerOK, AgentOK, HandlerType, AgentType, AgentRun, Turn
<1>3. \A b \in Agents : AgentOK(b)'
  BY DEF TypeOK, HandlerOK, AgentOK, TakeOK, PostOK, Terminal, HandlerType, AgentType, AgentRun, Turn
<1>4. \A g \in Handlers : TakeOK(g)'
  BY DEF TypeOK, HandlerOK, AgentOK, TakeOK, PostOK, JobOK, Terminal, HandlerType, AgentType, AgentRun, Turn
<1>5. \A g \in Handlers : PostOK(g)'
  BY DEF TypeOK, HandlerOK, AgentOK, PostOK, JobOK, Terminal, HandlerType, AgentType, AgentRun, Turn
<1>6. \A i \in Jobs : JobOK(i)'
  BY DEF TypeOK, HandlerOK, AgentOK, TakeOK, PostOK, JobOK, Terminal, JobStatus, HandlerType, AgentType, AgentRun, Turn
<1>7. DispatchTruthful'
  BY DEF TypeOK, HandlerOK, AgentOK, JobOK, DispatchTruthful, Terminal, HandlerType, AgentType, AgentRun, Turn
<1>8. RunningIsHeld'
  BY DEF TypeOK, HandlerOK, AgentOK, TakeOK, PostOK, RunningIsHeld, Terminal, HandlerType, AgentType, AgentRun, Turn
<1> QED
  BY <1>1, <1>2, <1>3, <1>4, <1>5, <1>6, <1>7, <1>8

\* A job that is refused was not run before.
LEMMA AgentRejectInv ==
  ASSUME IInv, NEW a \in Agents, AgentReject(a) PROVE IInv'
<1> USE AgentAssumption DEF IInv, HoldInv, rows, history, Free, Idle
<1>1. TypeOK'
  BY FreeType, IdleType, SMTT(30) DEF TypeOK, HandlerOK, AgentOK, HandlerType, AgentType, JobStatus, Terminal, AgentReject, Turn
<1>2. \A g \in Handlers : HandlerOK(g)'
  BY DEF TypeOK, HandlerOK, AgentOK, HandlerType, AgentType, AgentReject, Turn
<1>3. \A b \in Agents : AgentOK(b)'
  BY DEF TypeOK, HandlerOK, AgentOK, TakeOK, PostOK, Terminal, HandlerType, AgentType, AgentReject, Turn
<1>4. \A g \in Handlers : TakeOK(g)'
  BY DEF TypeOK, HandlerOK, AgentOK, TakeOK, PostOK, JobOK, Terminal, HandlerType, AgentType, AgentReject, Turn
<1>5. \A g \in Handlers : PostOK(g)'
  BY DEF TypeOK, HandlerOK, AgentOK, PostOK, JobOK, Terminal, HandlerType, AgentType, AgentReject, Turn
<1>6. \A i \in Jobs : JobOK(i)'
  BY DEF TypeOK, HandlerOK, AgentOK, TakeOK, PostOK, JobOK, Terminal, JobStatus, HandlerType, AgentType, AgentReject, Turn
<1>7. DispatchTruthful'
  BY DEF TypeOK, HandlerOK, AgentOK, JobOK, DispatchTruthful, Terminal, HandlerType, AgentType, AgentReject, Turn
<1>8. RunningIsHeld'
  BY DEF TypeOK, HandlerOK, AgentOK, TakeOK, PostOK, RunningIsHeld, Terminal, HandlerType, AgentType, AgentReject, Turn
<1> QED
  BY <1>1, <1>2, <1>3, <1>4, <1>5, <1>6, <1>7, <1>8

\* What is posted is the outcome.
LEMMA AgentPostInv ==
  ASSUME IInv, NEW a \in Agents, NEW h \in Handlers, AgentPost(a, h) PROVE IInv'
<1> USE AgentAssumption DEF IInv, HoldInv, rows, history, Free, Idle
<1>1. TypeOK'
  <2> DEFINE j == agent[a].job
           q == [pc |-> "check", agent |-> a, job |-> j, st |-> outcome[j], live |-> TRUE]
  <2>1. q \in HandlerType
    BY DEF TypeOK, AgentOK, AgentType, HandlerType, AgentPost, Jobs
  <2>2. [agent[a] EXCEPT !.pc = "posting", !.h = h] \in AgentType
    BY DEF TypeOK, AgentType
  <2> QED
    BY <2>1, <2>2 DEF TypeOK, AgentPost, Serve, Turn
<1>2. \A g \in Handlers : HandlerOK(g)'
  BY DEF TypeOK, HandlerOK, AgentOK, HandlerType, AgentType, AgentPost, Serve, Turn
<1>3. \A b \in Agents : AgentOK(b)'
  BY DEF TypeOK, HandlerOK, AgentOK, TakeOK, PostOK, Terminal, HandlerType, AgentType, AgentPost, Serve, Turn
<1>4. \A g \in Handlers : TakeOK(g)'
  BY DEF TypeOK, HandlerOK, AgentOK, TakeOK, PostOK, JobOK, Terminal, HandlerType, AgentType, AgentPost, Serve, Turn
<1>5. \A g \in Handlers : PostOK(g)'
  BY DEF TypeOK, HandlerOK, AgentOK, PostOK, JobOK, Terminal, HandlerType, AgentType, AgentPost, Serve, Turn
<1>6. \A i \in Jobs : JobOK(i)'
  BY DEF TypeOK, HandlerOK, AgentOK, TakeOK, PostOK, JobOK, Terminal, JobStatus, HandlerType, AgentType, AgentPost, Serve, Turn
<1>7. DispatchTruthful'
  BY DEF TypeOK, HandlerOK, AgentOK, JobOK, DispatchTruthful, Terminal, HandlerType, AgentType, AgentPost, Serve, Turn
<1>8. RunningIsHeld'
  BY DEF TypeOK, HandlerOK, AgentOK, TakeOK, PostOK, RunningIsHeld, Terminal, HandlerType, AgentType, AgentPost, Serve, Turn
<1> QED
  BY <1>1, <1>2, <1>3, <1>4, <1>5, <1>6, <1>7, <1>8

\* A result that is not posted is lost.
LEMMA AgentPostFailsInv ==
  ASSUME IInv, NEW a \in Agents, AgentPostFails(a) PROVE IInv'
<1> USE AgentAssumption DEF IInv, HoldInv, rows, history, Free, Idle
<1>1. TypeOK'
  BY FreeType, IdleType DEF TypeOK, HandlerOK, AgentOK, HandlerType, AgentType, JobStatus, Terminal, AgentPostFails, Turn, Fault
<1>2. \A g \in Handlers : HandlerOK(g)'
  BY DEF TypeOK, HandlerOK, AgentOK, HandlerType, AgentType, AgentPostFails, Turn, Fault
<1>3. \A b \in Agents : AgentOK(b)'
  BY DEF TypeOK, HandlerOK, AgentOK, TakeOK, PostOK, Terminal, HandlerType, AgentType, AgentPostFails, Turn, Fault
<1>4. \A g \in Handlers : TakeOK(g)'
  BY DEF TypeOK, HandlerOK, AgentOK, TakeOK, PostOK, JobOK, Terminal, HandlerType, AgentType, AgentPostFails, Turn, Fault
<1>5. \A g \in Handlers : PostOK(g)'
  BY DEF TypeOK, HandlerOK, AgentOK, PostOK, JobOK, Terminal, HandlerType, AgentType, AgentPostFails, Turn, Fault
<1>6. \A i \in Jobs : JobOK(i)'
  BY DEF TypeOK, HandlerOK, AgentOK, TakeOK, PostOK, JobOK, Terminal, JobStatus, HandlerType, AgentType, AgentPostFails, Turn, Fault
<1>7. DispatchTruthful'
  BY DEF TypeOK, HandlerOK, AgentOK, JobOK, DispatchTruthful, Terminal, HandlerType, AgentType, AgentPostFails, Turn, Fault
<1>8. RunningIsHeld'
  BY DEF TypeOK, HandlerOK, AgentOK, TakeOK, PostOK, RunningIsHeld, Terminal, HandlerType, AgentType, AgentPostFails, Turn, Fault
<1> QED
  BY <1>1, <1>2, <1>3, <1>4, <1>5, <1>6, <1>7, <1>8

\* A result for a job that is done is dropped, any other will be stored.
LEMMA PostCheckInv ==
  ASSUME IInv, NEW h \in Handlers, PostCheck(h) PROVE IInv'
<1> USE AgentAssumption DEF IInv, HoldInv, rows, history, Free, Idle
<1>1. CASE job[handler[h].job] \in Terminal \cup {"deleted"}
  <2> USE <1>1
  <2>1. TypeOK'
    BY ReplyType, IdleType DEF TypeOK, PostCheck
  <2>2. \A g \in Handlers : HandlerOK(g)'
    BY DEF TypeOK, HandlerOK, AgentOK, HandlerType, AgentType, PostCheck, Reply, Serve
  <2>3. \A b \in Agents : AgentOK(b)'
    <3> SUFFICES ASSUME NEW b \in Agents PROVE AgentOK(b)'
      OBVIOUS
    <3>1. CASE handler[h].live /\ b = handler[h].agent
      BY <3>1 DEF TypeOK, HandlerOK, AgentOK, PostCheck, Reply, Serve
    <3>2. CASE ~(handler[h].live /\ b = handler[h].agent)
      <4>1. agent'[b] = agent[b]
        BY <3>2 DEF TypeOK, HandlerOK, PostCheck, Reply
      <4>2. agent[b].pc \in {"polling", "posting"} => agent[b].h # h
        BY <3>2 DEF AgentOK
      <4> QED
        BY <4>1, <4>2 DEF TypeOK, AgentOK, PostCheck, Reply, Serve
    <3> QED
      BY <3>1, <3>2
  <2>4. \A g \in Handlers : TakeOK(g)'
    BY SMTT(30) DEF TypeOK, HandlerOK, AgentOK, TakeOK, PostOK, JobOK, Terminal, HandlerType, AgentType, PostCheck, Reply, Serve
  <2>5. \A g \in Handlers : PostOK(g)'
    BY DEF TypeOK, HandlerOK, AgentOK, PostOK, JobOK, Terminal, HandlerType, AgentType, PostCheck, Reply, Serve
  <2>6. \A i \in Jobs : JobOK(i)'
    BY DEF TypeOK, HandlerOK, AgentOK, TakeOK, PostOK, JobOK, Terminal, JobStatus, HandlerType, AgentType, PostCheck, Reply, Serve
  <2>7. DispatchTruthful'
    BY DEF TypeOK, HandlerOK, AgentOK, JobOK, DispatchTruthful, Terminal, HandlerType, AgentType, PostCheck, Reply, Serve
  <2>8. RunningIsHeld'
    <3> SUFFICES ASSUME NEW j \in Jobs, job[j] = "running", j \notin lost \cup crossed
                 PROVE  \/ agent'[owner[j]].job = j
                        \/ \E g \in Handlers : handler'[g].pc \in {"check", "commit"} /\ handler'[g].job = j
      BY DEF RunningIsHeld, PostCheck
    <3>1. handler[h].job # j
      BY DEF Terminal
    <3>2. CASE agent[owner[j]].job = j
      BY <3>1, <3>2 DEF TypeOK, HandlerOK, JobOK, PostCheck, Reply
    <3>3. CASE \E g \in Handlers : handler[g].pc \in {"check", "commit"} /\ handler[g].job = j
      BY <3>1, <3>3 DEF TypeOK, PostCheck, Reply, Serve
    <3> QED
      BY <3>2, <3>3 DEF RunningIsHeld
  <2> QED
    BY <2>1, <2>2, <2>3, <2>4, <2>5, <2>6, <2>7, <2>8
<1>2. CASE job[handler[h].job] \notin Terminal \cup {"deleted"}
  <2> USE <1>2
  <2>1. TypeOK'
    <3>1. [handler[h] EXCEPT !.pc = "commit"] \in HandlerType
      BY DEF TypeOK, HandlerType
    <3> QED
      BY <3>1 DEF TypeOK, PostCheck, Serve
  <2>2. \A g \in Handlers : HandlerOK(g)'
    BY SMTT(30) DEF TypeOK, HandlerOK, AgentOK, HandlerType, AgentType, PostCheck, Serve
  <2>3. \A b \in Agents : AgentOK(b)'
    <3> SUFFICES ASSUME NEW b \in Agents PROVE AgentOK(b)'
      OBVIOUS
    <3>1. \A g \in Handlers : /\ handler'[g].live = handler[g].live
                              /\ handler'[g].agent = handler[g].agent
                              /\ handler'[g].job = handler[g].job
                              /\ handler[g].pc \in {"check", "commit"} => handler'[g].pc \in {"check", "commit"}
      BY DEF TypeOK, HandlerType, PostCheck, Serve
    <3> QED
      BY <3>1 DEF AgentOK, PostCheck
  <2>4. \A g \in Handlers : TakeOK(g)'
    BY SMTT(30) DEF TypeOK, HandlerOK, AgentOK, TakeOK, PostOK, JobOK, Terminal, HandlerType, AgentType, PostCheck, Serve
  <2>5. \A g \in Handlers : PostOK(g)'
    BY DEF TypeOK, HandlerOK, AgentOK, PostOK, JobOK, Terminal, HandlerType, AgentType, PostCheck, Serve
  <2>6. \A i \in Jobs : JobOK(i)'
    BY DEF TypeOK, HandlerOK, AgentOK, TakeOK, PostOK, JobOK, Terminal, JobStatus, HandlerType, AgentType, PostCheck, Serve
  <2>7. DispatchTruthful'
    BY DEF TypeOK, HandlerOK, AgentOK, JobOK, DispatchTruthful, Terminal, HandlerType, AgentType, PostCheck, Serve
  <2>8. RunningIsHeld'
    BY DEF TypeOK, HandlerOK, AgentOK, TakeOK, PostOK, RunningIsHeld, Terminal, HandlerType, AgentType, PostCheck, Serve
  <2> QED
    BY <2>1, <2>2, <2>3, <2>4, <2>5, <2>6, <2>7, <2>8
<1> QED
  BY <1>1, <1>2

\* The job's status becomes its outcome.
LEMMA PostCommitInv ==
  ASSUME IInv, NEW h \in Handlers, PostCommit(h) PROVE IInv'
<1> USE AgentAssumption DEF IInv, HoldInv, rows, history, Free, Idle
<1>1. TypeOK'
  BY FreeType, IdleType DEF TypeOK, HandlerOK, AgentOK, HandlerType, AgentType, JobStatus, Terminal, PostCommit, PostedStatus, Reply, Serve
<1>2. \A g \in Handlers : HandlerOK(g)'
  BY DEF TypeOK, HandlerOK, AgentOK, HandlerType, AgentType, PostCommit, PostedStatus, Reply, Serve
<1>3. \A b \in Agents : AgentOK(b)'
  BY DEF TypeOK, HandlerOK, AgentOK, TakeOK, PostOK, Terminal, HandlerType, AgentType, PostCommit, PostedStatus, Reply, Serve
<1>4. \A g \in Handlers : TakeOK(g)'
  BY DEF TypeOK, HandlerOK, AgentOK, TakeOK, PostOK, JobOK, Terminal, HandlerType, AgentType, PostCommit, PostedStatus, Reply, Serve
<1>5. \A g \in Handlers : PostOK(g)'
  BY DEF TypeOK, HandlerOK, AgentOK, PostOK, JobOK, Terminal, HandlerType, AgentType, PostCommit, PostedStatus, Reply, Serve
<1>6. \A i \in Jobs : JobOK(i)'
  BY DEF TypeOK, HandlerOK, AgentOK, TakeOK, PostOK, JobOK, Terminal, JobStatus, HandlerType, AgentType, PostCommit, PostedStatus, Reply, Serve
<1>7. DispatchTruthful'
  BY DEF TypeOK, HandlerOK, AgentOK, JobOK, DispatchTruthful, Terminal, HandlerType, AgentType, PostCommit, PostedStatus, Reply, Serve
<1>8. RunningIsHeld'
  BY DEF TypeOK, HandlerOK, AgentOK, TakeOK, PostOK, RunningIsHeld, Terminal, HandlerType, AgentType, PostCommit, PostedStatus, Reply, Serve
<1> QED
  BY <1>1, <1>2, <1>3, <1>4, <1>5, <1>6, <1>7, <1>8

\* A request that is abandoned will not hand a job to anyone.
LEMMA GiveUpInv ==
  ASSUME IInv, NEW a \in Agents, GiveUp(a) PROVE IInv'
<1> USE AgentAssumption DEF IInv, HoldInv, rows, history, Free, Idle
<1>1. TypeOK'
  <2>1. \A g \in Handlers : [handler[g] EXCEPT !.live = FALSE] \in HandlerType
    BY DEF TypeOK, HandlerType
  <2>2. faults' \in 0..MaxFaults
    BY DEF TypeOK, GiveUp, Fault
  <2> QED
    BY <2>1, <2>2, IdleType DEF TypeOK, GiveUp, Turn
<1>2. \A g \in Handlers : HandlerOK(g)'
  BY DEF TypeOK, HandlerOK, AgentOK, HandlerType, AgentType, GiveUp, Turn, Fault
<1>3. \A b \in Agents : AgentOK(b)'
  BY DEF TypeOK, HandlerOK, AgentOK, TakeOK, PostOK, Terminal, HandlerType, AgentType, GiveUp, Turn, Fault
<1>4. \A g \in Handlers : TakeOK(g)'
  BY DEF TypeOK, HandlerOK, AgentOK, TakeOK, PostOK, JobOK, Terminal, HandlerType, AgentType, GiveUp, Turn, Fault
<1>5. \A g \in Handlers : PostOK(g)'
  BY DEF TypeOK, HandlerOK, AgentOK, PostOK, JobOK, Terminal, HandlerType, AgentType, GiveUp, Turn, Fault
<1>6. \A i \in Jobs : JobOK(i)'
  BY DEF TypeOK, HandlerOK, AgentOK, TakeOK, PostOK, JobOK, Terminal, JobStatus, HandlerType, AgentType, GiveUp, Turn, Fault
<1>7. DispatchTruthful'
  BY DEF TypeOK, HandlerOK, AgentOK, JobOK, DispatchTruthful, Terminal, HandlerType, AgentType, GiveUp, Turn, Fault
<1>8. RunningIsHeld'
  BY DEF TypeOK, HandlerOK, AgentOK, TakeOK, PostOK, RunningIsHeld, Terminal, HandlerType, AgentType, GiveUp, Turn, Fault
<1> QED
  BY <1>1, <1>2, <1>3, <1>4, <1>5, <1>6, <1>7, <1>8

\* A job that an agent dies with is not handed out again.
LEMMA AgentCrashInv ==
  ASSUME IInv, NEW a \in Agents, AgentCrash(a) PROVE IInv'
<1> USE AgentAssumption DEF IInv, HoldInv, rows, history, Free, Idle
<1>1. TypeOK'
  BY FreeType, IdleType DEF TypeOK, HandlerOK, AgentOK, HandlerType, AgentType, JobStatus, Terminal, AgentCrash, Turn, Fault
<1>2. \A g \in Handlers : HandlerOK(g)'
  BY DEF TypeOK, HandlerOK, AgentOK, HandlerType, AgentType, AgentCrash, Turn, Fault
<1>3. \A b \in Agents : AgentOK(b)'
  BY DEF TypeOK, HandlerOK, AgentOK, TakeOK, PostOK, Terminal, HandlerType, AgentType, AgentCrash, Turn, Fault
<1>4. \A g \in Handlers : TakeOK(g)'
  BY DEF TypeOK, HandlerOK, AgentOK, TakeOK, PostOK, JobOK, Terminal, HandlerType, AgentType, AgentCrash, Turn, Fault
<1>5. \A g \in Handlers : PostOK(g)'
  BY DEF TypeOK, HandlerOK, AgentOK, PostOK, JobOK, Terminal, HandlerType, AgentType, AgentCrash, Turn, Fault
<1>6. \A i \in Jobs : JobOK(i)'
  BY DEF TypeOK, HandlerOK, AgentOK, TakeOK, PostOK, JobOK, Terminal, JobStatus, HandlerType, AgentType, AgentCrash, Turn, Fault
<1>7. DispatchTruthful'
  BY DEF TypeOK, HandlerOK, AgentOK, JobOK, DispatchTruthful, Terminal, HandlerType, AgentType, AgentCrash, Turn, Fault
<1>8. RunningIsHeld'
  BY DEF TypeOK, HandlerOK, AgentOK, TakeOK, PostOK, RunningIsHeld, Terminal, HandlerType, AgentType, AgentCrash, Turn, Fault
<1> QED
  BY <1>1, <1>2, <1>3, <1>4, <1>5, <1>6, <1>7, <1>8

\* What the backend was storing is lost, what it was handing out still pending.
LEMMA CrashInv ==
  ASSUME IInv, Crash PROVE IInv'
<1> USE AgentAssumption DEF IInv, HoldInv, rows, history, Free, Idle
<1>1. TypeOK'
  <2>1. handler' \in [Handlers -> HandlerType]
    BY FreeType DEF Crash
  <2>2. agent' \in [Agents -> AgentType]
    BY IdleType DEF TypeOK, Crash
  <2>3. lost' \subseteq Jobs
    BY DEF TypeOK, HandlerOK, Crash
  <2>4. faults' \in 0..MaxFaults
    BY DEF TypeOK, Crash, Fault
  <2>5. up' \in BOOLEAN
    BY DEF Crash
  <2> QED
    BY <2>1, <2>2, <2>3, <2>4, <2>5 DEF TypeOK, Crash
<1>2. \A g \in Handlers : HandlerOK(g)'
  BY DEF TypeOK, HandlerOK, AgentOK, HandlerType, AgentType, Crash, Fault
<1>3. \A b \in Agents : AgentOK(b)'
  BY DEF TypeOK, HandlerOK, AgentOK, TakeOK, PostOK, Terminal, HandlerType, AgentType, Crash, Fault
<1>4. \A g \in Handlers : TakeOK(g)'
  BY DEF TypeOK, HandlerOK, AgentOK, TakeOK, PostOK, JobOK, Terminal, HandlerType, AgentType, Crash, Fault
<1>5. \A g \in Handlers : PostOK(g)'
  BY DEF TypeOK, HandlerOK, AgentOK, PostOK, JobOK, Terminal, HandlerType, AgentType, Crash, Fault
<1>6. \A i \in Jobs : JobOK(i)'
  BY DEF TypeOK, HandlerOK, AgentOK, TakeOK, PostOK, JobOK, Terminal, JobStatus, HandlerType, AgentType, Crash, Fault
<1>7. DispatchTruthful'
  BY DEF TypeOK, HandlerOK, AgentOK, JobOK, DispatchTruthful, Terminal, HandlerType, AgentType, Crash, Fault
<1>8. RunningIsHeld'
  <2> SUFFICES ASSUME NEW j \in Jobs, job'[j] = "running", j \notin lost' \cup crossed'
             PROVE  agent'[owner'[j]].job = j
    BY DEF RunningIsHeld
  <2>1. job[j] = "running" /\ j \notin lost \cup crossed /\ owner'[j] = owner[j]
    BY DEF Crash
  <2>2. \A g \in Handlers : handler[g].pc \in {"check", "commit"} => handler[g].job # j
    BY DEF Crash
  <2>3. agent[owner[j]].job = j
    BY <2>1, <2>2 DEF RunningIsHeld
  <2>4. agent[owner[j]].pc \notin {"polling", "posting"}
    BY <2>1, <2>2, <2>3, JobsType DEF TypeOK, AgentOK, JobOK
  <2> QED
    BY <2>1, <2>3, <2>4 DEF TypeOK, JobOK, Crash
<1> QED
  BY <1>1, <1>2, <1>3, <1>4, <1>5, <1>6, <1>7, <1>8

\* A restart changes nothing but the backend.
LEMMA RestartInv ==
  ASSUME IInv, Restart PROVE IInv'
<1> USE AgentAssumption DEF IInv, HoldInv, rows, history, Free, Idle
<1>1. TypeOK'
  BY FreeType, IdleType DEF TypeOK, HandlerOK, AgentOK, HandlerType, AgentType, JobStatus, Terminal, Restart
<1>2. \A g \in Handlers : HandlerOK(g)'
  BY DEF TypeOK, HandlerOK, AgentOK, HandlerType, AgentType, Restart
<1>3. \A b \in Agents : AgentOK(b)'
  BY DEF TypeOK, HandlerOK, AgentOK, TakeOK, PostOK, Terminal, HandlerType, AgentType, Restart
<1>4. \A g \in Handlers : TakeOK(g)'
  BY DEF TypeOK, HandlerOK, AgentOK, TakeOK, PostOK, JobOK, Terminal, HandlerType, AgentType, Restart
<1>5. \A g \in Handlers : PostOK(g)'
  BY DEF TypeOK, HandlerOK, AgentOK, PostOK, JobOK, Terminal, HandlerType, AgentType, Restart
<1>6. \A i \in Jobs : JobOK(i)'
  BY DEF TypeOK, HandlerOK, AgentOK, TakeOK, PostOK, JobOK, Terminal, JobStatus, HandlerType, AgentType, Restart
<1>7. DispatchTruthful'
  BY DEF TypeOK, HandlerOK, AgentOK, JobOK, DispatchTruthful, Terminal, HandlerType, AgentType, Restart
<1>8. RunningIsHeld'
  BY DEF TypeOK, HandlerOK, AgentOK, TakeOK, PostOK, RunningIsHeld, Terminal, HandlerType, AgentType, Restart
<1> QED
  BY <1>1, <1>2, <1>3, <1>4, <1>5, <1>6, <1>7, <1>8

\* A deleted job is not handed out or finished.
LEMMA DeleteAssetInv ==
  ASSUME IInv, DeleteAsset PROVE IInv'
<1> USE AgentAssumption DEF IInv, HoldInv, rows, history, Free, Idle
<1>1. TypeOK'
  BY FreeType, IdleType DEF TypeOK, HandlerOK, AgentOK, HandlerType, AgentType, JobStatus, Terminal, DeleteAsset
<1>2. \A g \in Handlers : HandlerOK(g)'
  BY DEF TypeOK, HandlerOK, AgentOK, HandlerType, AgentType, DeleteAsset
<1>3. \A b \in Agents : AgentOK(b)'
  BY DEF TypeOK, HandlerOK, AgentOK, TakeOK, PostOK, Terminal, HandlerType, AgentType, DeleteAsset
<1>4. \A g \in Handlers : TakeOK(g)'
  BY DEF TypeOK, HandlerOK, AgentOK, TakeOK, PostOK, JobOK, Terminal, HandlerType, AgentType, DeleteAsset
<1>5. \A g \in Handlers : PostOK(g)'
  BY DEF TypeOK, HandlerOK, AgentOK, PostOK, JobOK, Terminal, HandlerType, AgentType, DeleteAsset
<1>6. \A i \in Jobs : JobOK(i)'
  BY DEF TypeOK, HandlerOK, AgentOK, TakeOK, PostOK, JobOK, Terminal, JobStatus, HandlerType, AgentType, DeleteAsset
<1>7. DispatchTruthful'
  BY DEF TypeOK, HandlerOK, AgentOK, JobOK, DispatchTruthful, Terminal, HandlerType, AgentType, DeleteAsset
<1>8. RunningIsHeld'
  BY DEF TypeOK, HandlerOK, AgentOK, TakeOK, PostOK, RunningIsHeld, Terminal, HandlerType, AgentType, DeleteAsset
<1> QED
  BY <1>1, <1>2, <1>3, <1>4, <1>5, <1>6, <1>7, <1>8

LEMMA InitInv == Init => IInv
<1> SUFFICES ASSUME Init PROVE IInv
  OBVIOUS
<1>1. TypeOK
  BY AgentAssumption, FreeType, IdleType DEF Init, TypeOK, JobStatus, Terminal
<1>2. HoldInv
  BY DEF Init, HoldInv, HandlerOK, AgentOK, TakeOK, PostOK, JobOK, Free, Idle, Terminal
<1>3. DispatchTruthful /\ RunningIsHeld
  BY DEF Init, DispatchTruthful, RunningIsHeld
<1> QED
  BY <1>1, <1>2, <1>3 DEF IInv

LEMMA StepInv == IInv /\ [Next]_vars => IInv'
<1> SUFFICES ASSUME IInv, [Next]_vars PROVE IInv'
  OBVIOUS
<1>1. CASE \E j \in Jobs : Dispatch(j) \/ DispatchEnd(j) \/ DispatchTimeout(j)
  BY <1>1, DispatchInv, DispatchEndInv, DispatchTimeoutInv
<1>2. CASE \E h \in Handlers : HandlerStep(h)
  BY <1>2, PollFindInv, PollNothingInv, PollTakeInv, PostCheckInv, PostCommitInv DEF HandlerStep
<1>3. CASE \E a \in Agents : AgentStep(a)
  BY <1>3, AgentRunInv, AgentRejectInv, AgentPostFailsInv, AgentPollInv, AgentPostInv DEF AgentStep
<1>4. CASE \E a \in Agents : GiveUp(a) \/ AgentCrash(a)
  BY <1>4, GiveUpInv, AgentCrashInv
<1>5. CASE Crash \/ Restart \/ DeleteAsset
  BY <1>5, CrashInv, RestartInv, DeleteAssetInv
<1>6. CASE UNCHANGED vars
  BY <1>6 DEF IInv, HoldInv, TypeOK, HandlerOK, AgentOK, TakeOK, PostOK, JobOK,
              DispatchTruthful, RunningIsHeld, vars, rows, history
<1> QED
  BY <1>1, <1>2, <1>3, <1>4, <1>5, <1>6 DEF Next

LEMMA Invariance == Spec => []IInv
  BY InitInv, StepInv, PTL DEF Spec

\* Every variable keeps its type; in particular a posted result is an end of a job.
THEOREM TypeCorrect == Spec => []TypeOK
<1>1. IInv => TypeOK
  BY DEF IInv
<1> QED
  BY <1>1, Invariance, PTL

\* No command is run twice, whatever polls are abandoned or repeated, whatever
\* messages are lost and whoever crashes (get_next_job, Poller.poll).
THEOREM CommandsRunOnce == Spec => []RunsOnce
<1>1. IInv => RunsOnce
  BY DEF IInv, HoldInv, JobOK, RunsOnce
<1> QED
  BY <1>1, Invariance, PTL

\* What dispatch_agent_job tells the change is what the agent made of the job.
THEOREM DispatchTellsTruth == Spec => []DispatchTruthful
<1>1. IInv => DispatchTruthful
  BY DEF IInv
<1> QED
  BY <1>1, Invariance, PTL

\* A running job is with its agent, or its result with the backend, unless it was
\* lost or two polls had found it.
THEOREM RunningHeld == Spec => []RunningIsHeld
<1>1. IInv => RunningIsHeld
  BY DEF IInv
<1> QED
  BY <1>1, Invariance, PTL
=============================================================================
