--------------------------- MODULE NodeLifecycle ---------------------------
(***************************************************************************)
(* How a node changes role: Node::promote, demote and restart              *)
(* (src/src/node.cpp) and the start and stop of the agents they exchange   *)
(* (src/src/follower/follower.cpp, src/src/leader/leader.cpp).             *)
(*                                                                         *)
(* A SET ROLES request is handled by a worker of the current agent, which  *)
(* starts restartThread; restartThread stops the current agent, waiting    *)
(* for its timers and its workers, then creates and starts the next one.   *)
(* The main thread starts the first agent.                                 *)
(***************************************************************************)
EXTENDS Integers, FiniteSets

CONSTANTS
  Worker,       \* the worker threads of an agent
  List,         \* lists of leaders
  MeIn,         \* the ones that this node is in
  MaxRequests   \* bound on the SET ROLES requests the node receives

ASSUME NodeAssumption ==
  MeIn \subseteq List /\ List # {} /\ MaxRequests \in Nat /\ IsFiniteSet(Worker)

\* Agents are numbered as they are created.
Agent == 1 .. MaxRequests + 1

VARIABLES
  isLeader, mNodes,     \* members of Node
  joinable,             \* restartThread.joinable()
  cur,                  \* Node::agent
  kind,                 \* "leader" or "follower", for each agent
  running,              \* IAgent::running
  server,               \* "off", "up", or "stopping": its workers are being joined
  timer,                \* the timer threads that run: "follower" (timer and
                        \* TestTimer) and "leader" (timerFun)
  pc, at, dying,        \* for main and restartThread: where in start or stop, of
                        \* which agent, and is it a stop before an exit?
  wpc, leaders,         \* for each worker: where in changeRole, and its argument
  requests,             \* SET ROLES requests received
  alive                 \* the process has not ended

nodeVars == <<isLeader, mNodes, joinable, cur>>
agentVars == <<kind, running, server, timer>>
threadVars == <<pc, at, dying>>
workerVars == <<wpc, leaders>>
vars == <<nodeVars, agentVars, threadVars, workerVars, requests, alive>>
-----------------------------------------------------------------------------
Thread == {"main", "restart"}
StartPc == {"serve", "select", "greet", "timers"}
StopPc == {"flags", "joinTimers", "stopServer", "joinWorkers", "joinLeaderTimer"}

Role == IF isLeader THEN "leader" ELSE "follower"

Init ==
  /\ isLeader \in BOOLEAN
  /\ mNodes \in List
  /\ joinable = FALSE
  /\ cur = 1
  /\ kind = [a \in Agent |-> Role]
  /\ running = [a \in Agent |-> FALSE]
  /\ server = [a \in Agent |-> "off"]
  /\ timer = [a \in Agent |-> {}]
  /\ pc = [t \in Thread |-> IF t = "main" THEN "serve" ELSE "idle"]
  /\ at = [t \in Thread |-> 1]
  /\ dying = [t \in Thread |-> FALSE]
  /\ wpc = [a \in Agent |-> [w \in Worker |-> "idle"]]
  /\ leaders = [a \in Agent |-> [w \in Worker |-> mNodes]]
  /\ requests = 0
  /\ alive = TRUE

Goto(t, k) == pc' = [pc EXCEPT ![t] = k]

\* start() failed: stop(), then exit(1).
GiveUp(t) == Goto(t, "flags") /\ dying' = [dying EXCEPT ![t] = TRUE]
-----------------------------------------------------------------------------
(* IAgent::start, Follower::start, Leader::start, by thread t.             *)

\* The server starts; then the helper processes do, or do not.
Serve(t) ==
  /\ alive
  /\ pc[t] = "serve"
  /\ running' = [running EXCEPT ![at[t]] = TRUE]
  /\ server' = [server EXCEPT ![at[t]] = "up"]
  /\ \/ Goto(t, "select") /\ UNCHANGED dying
     \/ GiveUp(t)
  /\ UNCHANGED <<nodeVars, kind, timer, at, workerVars, requests, alive>>

\* selectServer asks the node, not the agent, whether it is a leader.  A
\* follower agent of a node that is to be a leader has no server to greet, a
\* leader agent of a node that is to be a follower no list to choose from:
\* both fail.  Otherwise it depends on the network; a follower that reaches a
\* leader keeps the list it answers.
SelectServer(t) ==
  /\ alive
  /\ pc[t] = "select"
  /\ mNodes' \in IF isLeader \/ kind[at[t]] = "leader" THEN {mNodes} ELSE List
  /\ \/ kind[at[t]] = Role /\ Goto(t, "timers") /\ UNCHANGED dying
     \/ GiveUp(t)
  /\ UNCHANGED <<isLeader, joinable, cur, agentVars, at, workerVars, requests, alive>>

\* timer and TestTimer start, and Follower::start returns.
StartTimers(t) ==
  /\ alive
  /\ pc[t] = "timers"
  /\ timer' = [timer EXCEPT ![at[t]] = @ \cup {"follower"}]
  /\ Goto(t, IF kind[at[t]] = "leader" THEN "greet" ELSE "done")
  /\ UNCHANGED <<nodeVars, kind, running, server, at, dying, workerVars, requests, alive>>

\* Leader::start goes on with MHELLO to the leaders it was given, and starts
\* timerFun if one of them answered.
GreetLeaders(t) ==
  /\ alive
  /\ pc[t] = "greet"
  /\ \/ /\ timer' = [timer EXCEPT ![at[t]] = @ \cup {"leader"}]
        /\ Goto(t, "done")
        /\ UNCHANGED dying
     \/ GiveUp(t) /\ UNCHANGED timer
  /\ UNCHANGED <<nodeVars, kind, running, server, at, workerVars, requests, alive>>
-----------------------------------------------------------------------------
(* IAgent::stop, Follower::stop, Leader::stop, by thread t.                *)

\* Mutant: the threads are not told to end.
StopFlagsForgets(t) ==
  /\ alive
  /\ pc[t] = "flags"
  /\ Goto(t, "joinTimers")
  /\ UNCHANGED <<nodeVars, agentVars, at, dying, workerVars, requests, alive>>

StopFlags(t) ==
  /\ alive
  /\ pc[t] = "flags"
  /\ running' = [running EXCEPT ![at[t]] = FALSE]
  /\ Goto(t, "joinTimers")
  /\ UNCHANGED <<nodeVars, kind, server, timer, at, dying, workerVars, requests, alive>>

JoinTimers(t) ==
  /\ alive
  /\ pc[t] = "joinTimers"
  /\ "follower" \notin timer[at[t]]
  /\ Goto(t, "stopServer")
  /\ UNCHANGED <<nodeVars, agentVars, at, dying, workerVars, requests, alive>>

\* Mutant: without waiting for the workers.
StopServerAtOnce(t) ==
  /\ alive
  /\ pc[t] = "stopServer"
  /\ server' = [server EXCEPT ![at[t]] = IF @ = "up" THEN "stopping" ELSE @]
  /\ Goto(t, "joinLeaderTimer")
  /\ UNCHANGED <<nodeVars, kind, running, timer, at, dying, workerVars, requests, alive>>

\* Server::stop: no more requests are taken (another thread may be stopping the
\* same agent), ...
StopServer(t) ==
  /\ alive
  /\ pc[t] = "stopServer"
  /\ server' = [server EXCEPT ![at[t]] = IF @ = "up" THEN "stopping" ELSE @]
  /\ Goto(t, "joinWorkers")
  /\ UNCHANGED <<nodeVars, kind, running, timer, at, dying, workerVars, requests, alive>>

\* ... and the workers and the listener are joined.
JoinWorkers(t) ==
  /\ alive
  /\ pc[t] = "joinWorkers"
  /\ \A w \in Worker : wpc[at[t]][w] = "idle"
  /\ server' = [server EXCEPT ![at[t]] = "off"]
  /\ Goto(t, "joinLeaderTimer")
  /\ UNCHANGED <<nodeVars, kind, running, timer, at, dying, workerVars, requests, alive>>

\* Mutant: a failed start goes on with the next agent.
JoinLeaderTimerGoesOn(t) ==
  /\ alive
  /\ pc[t] = "joinLeaderTimer"
  /\ "leader" \notin timer[at[t]]
  /\ Goto(t, "create")
  /\ UNCHANGED <<nodeVars, agentVars, at, dying, workerVars, requests, alive>>

\* Leader::stop joins timerFunThread; stop() returns, before an exit or to
\* restart().
JoinLeaderTimer(t) ==
  /\ alive
  /\ pc[t] = "joinLeaderTimer"
  /\ "leader" \notin timer[at[t]]
  /\ IF dying[t]
       THEN alive' = FALSE /\ UNCHANGED pc
       ELSE Goto(t, "create") /\ UNCHANGED alive
  /\ UNCHANGED <<nodeVars, agentVars, at, dying, workerVars, requests>>

\* main and restartThread stop the same agent, and both join the same thread:
\* one of the joins throws, and nobody catches it.
DoubleJoin(t) ==
  /\ alive
  /\ \E u \in Thread \ {t} : at[u] = at[t] /\ pc[u] = pc[t]
  /\ \/ pc[t] = "joinTimers" /\ timer[at[t]] # {}
     \/ pc[t] = "joinWorkers"
  /\ alive' = FALSE
  /\ UNCHANGED <<nodeVars, agentVars, threadVars, workerVars, requests>>

\* Node::create, and the call of agent->start.
Create(t) ==
  /\ alive
  /\ pc[t] = "create"
  /\ cur' = cur + 1
  /\ kind' = [kind EXCEPT ![cur + 1] = Role]
  /\ at' = [at EXCEPT ![t] = cur + 1]
  /\ Goto(t, "serve")
  /\ UNCHANGED <<isLeader, mNodes, joinable, running, server, timer, dying, workerVars,
                 requests, alive>>
-----------------------------------------------------------------------------
(* The timers.                                                             *)

\* Mutant: timerFun does not test running.
TimerEndsFollower(a, k) ==
  /\ alive
  /\ k \in timer[a] \ {"leader"}
  /\ ~running[a]
  /\ timer' = [timer EXCEPT ![a] = @ \ {k}]
  /\ UNCHANGED <<nodeVars, kind, running, server, threadVars, workerVars, requests, alive>>

\* A timer thread leaves its loop.
TimerEnds(a, k) ==
  /\ alive
  /\ k \in timer[a]
  /\ ~running[a]
  /\ timer' = [timer EXCEPT ![a] = @ \ {k}]
  /\ UNCHANGED <<nodeVars, kind, running, server, threadVars, workerVars, requests, alive>>

\* Follower::timer asks its server for the leaders and keeps the answer.
TimerRefreshes(a) ==
  /\ alive
  /\ "follower" \in timer[a]
  /\ mNodes' \in List
  /\ UNCHANGED <<isLeader, joinable, cur, agentVars, threadVars, workerVars, requests, alive>>
-----------------------------------------------------------------------------
(* SET ROLES: a worker w of agent a in changeRole, promote or demote.      *)

WorkerAt(a, w, k) == wpc' = [wpc EXCEPT ![a][w] = k]

Request(a, w, l) ==
  /\ alive
  /\ server[a] = "up"
  /\ wpc[a][w] = "idle"
  /\ requests < MaxRequests
  /\ requests' = requests + 1
  /\ WorkerAt(a, w, "roles")
  /\ leaders' = [leaders EXCEPT ![a][w] = l]
  /\ UNCHANGED <<nodeVars, agentVars, threadVars, alive>>

\* A follower keeps every list and is promoted if it is in it; a leader keeps
\* a list that it is not in and is demoted.  A retained leader greets the others
\* (module Selector has the details) and ends the process if one does not answer.
ChangeRole(a, w) ==
  LET in == leaders[a][w] \in MeIn
      retained == kind[a] = "leader" /\ in
  IN  /\ alive
      /\ wpc[a][w] = "roles"
      /\ mNodes' = IF retained THEN mNodes ELSE leaders[a][w]
      /\ WorkerAt(a, w, IF in = (kind[a] = "follower") THEN "test" ELSE "idle")
      /\ alive' \in IF retained THEN BOOLEAN ELSE {TRUE}
      /\ UNCHANGED <<isLeader, joinable, cur, agentVars, threadVars, leaders, requests>>

\* Nothing to do if the node has the role, or is about to, ...
TestRole(a, w) ==
  /\ alive
  /\ wpc[a][w] = "test"
  /\ WorkerAt(a, w, IF isLeader = (kind[a] = "follower") THEN "idle" ELSE "flip")
  /\ UNCHANGED <<nodeVars, agentVars, threadVars, leaders, requests, alive>>

\* ... else the flag changes at once; isLeader is not atomic, so another worker
\* may be between the test and the assignment too.
FlipRole(a, w) ==
  /\ alive
  /\ wpc[a][w] = "flip"
  /\ isLeader' = (kind[a] = "follower")
  /\ WorkerAt(a, w, "join")
  /\ UNCHANGED <<mNodes, joinable, cur, agentVars, threadVars, leaders, requests, alive>>

\* Mutant: a change that finds a restart in progress is dropped.
JoinRestartDrops(a, w) ==
  /\ alive
  /\ wpc[a][w] = "join"
  /\ \/ ~joinable /\ WorkerAt(a, w, "spawn") /\ UNCHANGED <<joinable, pc>>
     \/ /\ joinable /\ pc["restart"] = "done"
        /\ WorkerAt(a, w, "spawn")
        /\ joinable' = FALSE
        /\ Goto("restart", "idle")
     \/ /\ joinable /\ pc["restart"] # "done"
        /\ WorkerAt(a, w, "idle")
        /\ UNCHANGED <<joinable, pc>>
  /\ UNCHANGED <<isLeader, mNodes, cur, agentVars, at, dying, leaders, requests, alive>>

\* Wait for the previous restart.  Two workers in the same join: the one that
\* comes second may throw.
JoinRestart(a, w) ==
  /\ alive
  /\ wpc[a][w] = "join"
  /\ \/ /\ ~joinable
        /\ WorkerAt(a, w, "spawn")
        /\ UNCHANGED <<joinable, pc, alive>>
     \/ /\ joinable /\ pc["restart"] = "done"
        /\ WorkerAt(a, w, "spawn")
        /\ joinable' = FALSE
        /\ Goto("restart", "idle")
        /\ UNCHANGED alive
     \/ /\ joinable /\ pc["restart"] = "done"
        /\ \E v \in Worker \ {w} : wpc[a][v] = "join"
        /\ alive' = FALSE
        /\ UNCHANGED <<joinable, pc, wpc>>
  /\ UNCHANGED <<isLeader, mNodes, cur, agentVars, at, dying, leaders, requests>>

\* Start restart(); assigning to a joinable thread terminates the process.
SpawnRestart(a, w) ==
  /\ alive
  /\ wpc[a][w] = "spawn"
  /\ IF joinable
       THEN alive' = FALSE /\ UNCHANGED <<joinable, pc, at, dying, wpc>>
       ELSE /\ joinable' = TRUE
            /\ Goto("restart", "flags")
            /\ at' = [at EXCEPT !["restart"] = cur]
            /\ dying' = [dying EXCEPT !["restart"] = FALSE]
            /\ WorkerAt(a, w, "idle")
            /\ UNCHANGED alive
  /\ UNCHANGED <<isLeader, mNodes, cur, agentVars, leaders, requests>>
-----------------------------------------------------------------------------
ThreadStep(t) ==
  \/ Serve(t) \/ SelectServer(t) \/ GreetLeaders(t) \/ StartTimers(t)
  \/ StopFlags(t) \/ JoinTimers(t) \/ StopServer(t) \/ JoinWorkers(t) \/ JoinLeaderTimer(t)
  \/ DoubleJoin(t) \/ Create(t)

WorkerStep(a, w) ==
  ChangeRole(a, w) \/ TestRole(a, w) \/ FlipRole(a, w) \/ JoinRestart(a, w) \/ SpawnRestart(a, w)

Next ==
  \/ \E t \in Thread : ThreadStep(t)
  \/ \E a \in Agent : \/ \E w \in Worker : \/ WorkerStep(a, w)
                                           \/ \E l \in List : Request(a, w, l)
                      \/ \E k \in {"follower", "leader"} : TimerEnds(a, k)
                      \/ TimerRefreshes(a)

Spec == Init /\ [][Next]_vars

\* Every thread is scheduled; sleeps, scripts and calls end.
Fairness ==
  /\ \A t \in Thread : WF_vars(ThreadStep(t))
  /\ \A a \in Agent : /\ \A w \in Worker : WF_vars(WorkerStep(a, w))
                      /\ \A k \in {"follower", "leader"} : WF_vars(TimerEnds(a, k))

FairSpec == Spec /\ Fairness
-----------------------------------------------------------------------------
(* Properties.                                                             *)

\* Every variable keeps to the values the code can give it; no more agents are
\* created than there were requests to change role.
TypeOK ==
  /\ isLeader \in BOOLEAN /\ mNodes \in List /\ joinable \in BOOLEAN
  /\ cur \in Agent
  /\ kind \in [Agent -> {"leader", "follower"}]
  /\ running \in [Agent -> BOOLEAN]
  /\ server \in [Agent -> {"off", "up", "stopping"}]
  /\ timer \in [Agent -> SUBSET {"follower", "leader"}]
  /\ pc \in [Thread -> StartPc \cup StopPc \cup {"idle", "create", "done"}]
  /\ at \in [Thread -> Agent]
  /\ dying \in [Thread -> BOOLEAN]
  /\ wpc \in [Agent -> [Worker -> {"idle", "roles", "test", "flip", "join", "spawn"}]]
  /\ leaders \in [Agent -> [Worker -> List]]
  /\ requests \in 0 .. MaxRequests
  /\ alive \in BOOLEAN

\* A former agent, which restart() never deletes, does not go on monitoring beside
\* the current one: its timers have been joined.  Only the first agent may have one
\* left, if main starts it after restartThread was through with its joins; it has
\* been told to end by then.
FormerAgentsStopped ==
  \A a \in Agent \ {cur} : ~running[a] /\ (a # 1 => timer[a] = {})

\* The agents never compete for the port: a server is started only when the
\* servers of all other agents have been stopped and their workers joined,
\* whichever threads are in start and stop.
OneServer ==
  [][\A a \in Agent : server[a] = "off" /\ server'[a] = "up" =>
       \A b \in Agent \ {a} : server[b] = "off"]_vars

\* No thread is changing the role of the node.
AtRest ==
  /\ alive
  /\ pc["main"] = "done" /\ pc["restart"] \in {"idle", "done"}
  /\ \A a \in Agent : \A w \in Worker : wpc[a][w] = "idle"

\* The agent has the role the node claims (isFollower) whenever no change is in
\* progress, however many requests came, to the old agent or to the new one
\* while it was starting.
RoleSettled == AtRest => kind[cur] = Role

\* "Promote to leader if follower", "demote to follower if leader": a change of
\* role that has begun ends, with the new agent or with the end of the process.
\* One deadlock of the code is left out: restartThread stops the agent whose
\* worker, with a second change, joins restartThread.
RoleChangeEnds ==
  (\E a \in Agent : \E w \in Worker : wpc[a][w] = "flip") ~>
    \/ AtRest \/ ~alive
    \/ /\ pc["restart"] = "joinWorkers"
       /\ \E w \in Worker : wpc[at["restart"]][w] = "join"
=============================================================================
