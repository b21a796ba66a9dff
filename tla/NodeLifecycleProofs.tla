------------------------ MODULE NodeLifecycleProofs ------------------------
(***************************************************************************)
(* Proofs about module NodeLifecycle, for any number of workers and of     *)
(* SET ROLES requests.                                                     *)
(*                                                                         *)
(* main and restartThread run start and stop at the same time, on the same *)
(* agent perhaps, and the workers of that agent change the role meanwhile. *)
(* The proofs rest on two facts: only the current agent has a server and   *)
(* busy workers (ServerInv), and restartThread has nobody's server before  *)
(* it when it starts one (RestartInv).  StopInv, at the end, follows its   *)
(* joins.                                                                  *)
(***************************************************************************)
EXTENDS NodeLifecycle, FiniteSetTheorems, TLAPS

\* main starts the first agent, and if it stops it, it ends the process; no other
\* thread does anything before that agent has its server.
MainInv ==
  /\ at["main"] = 1 /\ pc["main"] # "create"
  /\ pc["main"] \in StopPc => dying["main"]
  /\ pc["main"] = "serve" =>
       cur = 1 /\ pc["restart"] = "idle" /\ \A a \in Agent : server[a] = "off"

\* restartThread works on the current agent; when it has stopped that agent, and until
\* it has started the next, there is no server.
RestartInv ==
  /\ ~joinable => pc["restart"] = "idle"
  /\ pc["restart"] # "idle" => at["restart"] = cur
  /\ pc["restart"] = "create" => ~dying["restart"]
  /\ pc["restart"] \in {"joinLeaderTimer", "create",
    "serve"} => \A a \in Agent : server[a] = "off"

\* Only the current agent has a server, and a worker is busy only in a server.
ServerInv ==
  \A a \in Agent :
    /\ server[a] # "off" => a = cur
    /\ \A w \in Worker : wpc[a][w] # "idle" => server[a] # "off"

\* restartThread is on its way to create the next agent.
Restarting == pc["restart"] \in StopPc \cup {"create"}

\* If the agent has not the role of the node, a worker will restart it or it is
\* being restarted.
RoleInv ==
  alive /\ kind[cur] # Role =>
    Restarting \/ \E w \in Worker : wpc[cur][w] \in {"join", "spawn"}

\* Each agent but the first, the restart in progress and each busy worker has a
\* request of its own.
Handling == {x \in Agent \X Worker : wpc[x[1]][x[2]] # "idle"}

CountInv ==
  Cardinality(Handling) + (IF Restarting /\ ~dying["restart"] THEN 1 ELSE 0) + (cur - 1)
    <= requests

Inv == MainInv /\ RestartInv /\ ServerInv /\ RoleInv /\ CountInv
-----------------------------------------------------------------------------
\* The requests that the busy workers stand for can be counted.
LEMMA HandlingFinite == TypeOK => IsFiniteSet(Handling) /\ Cardinality(Handling) \in Nat
<1>1. IsFiniteSet(Agent) BY NodeAssumption, FS_Interval DEF Agent
<1>2. IsFiniteSet(Agent \X Worker) BY <1>1, NodeAssumption, FS_Product
<1>3. IsFiniteSet(Handling) BY <1>2, FS_Subset DEF Handling
<1> QED BY <1>3, FS_CardinalityType

\* restartThread alone creates agents, and there is a number left for the next one.
LEMMA CreateInRange ==
  ASSUME TypeOK, MainInv, RestartInv, CountInv, NEW t \in Thread, Create(t)
  PROVE  t = "restart" /\ cur + 1 \in Agent
<1>1. t = "restart" BY DEF Create, MainInv, Thread
<1>2. Restarting /\ ~dying["restart"] BY <1>1 DEF Create, Restarting, RestartInv
<1>3. cur \in Nat /\ requests \in 0 .. MaxRequests BY DEF TypeOK, Agent
<1>4. 1 + (cur - 1) <= requests BY <1>2, <1>3, HandlingFinite DEF CountInv
<1> QED BY <1>1, <1>3, <1>4, NodeAssumption DEF Agent, TypeOK

\* main ends the process with the agent it could not start; until the first server is
\* up there is no worker that could begin a restart.
LEMMA MainStep == TypeOK /\ MainInv /\ RestartInv /\ ServerInv /\ [Next]_vars => MainInv'
<1> SUFFICES ASSUME TypeOK, MainInv, RestartInv, ServerInv, [Next]_vars PROVE MainInv' OBVIOUS
<1> USE DEF TypeOK, MainInv, RestartInv, ServerInv, Thread, StartPc, StopPc, Goto, WorkerAt,
        nodeVars, agentVars, threadVars, workerVars
<1>1. ASSUME NEW t \in Thread, Serve(t) PROVE MainInv'
  BY <1>1 DEF Serve, GiveUp
<1>2. ASSUME NEW t \in Thread, SelectServer(t) PROVE MainInv'
  BY <1>2 DEF SelectServer, GiveUp
<1>3. ASSUME NEW t \in Thread, GreetLeaders(t) PROVE MainInv'
  BY <1>3 DEF GreetLeaders, GiveUp
<1>4. ASSUME NEW t \in Thread, StartTimers(t) PROVE MainInv'
  BY <1>4 DEF StartTimers
<1>5. ASSUME NEW t \in Thread, StopFlags(t) PROVE MainInv'
  BY <1>5 DEF StopFlags
<1>6. ASSUME NEW t \in Thread, JoinTimers(t) PROVE MainInv'
  BY <1>6 DEF JoinTimers
<1>7. ASSUME NEW t \in Thread, StopServer(t) PROVE MainInv'
  BY <1>7 DEF StopServer
<1>8. ASSUME NEW t \in Thread, JoinWorkers(t) PROVE MainInv'
  BY <1>8 DEF JoinWorkers
<1>9. ASSUME NEW t \in Thread, JoinLeaderTimer(t) PROVE MainInv'
  <2>1. CASE dying[t] BY <1>9, <2>1 DEF JoinLeaderTimer
  <2>2. CASE ~dying[t]
    <3>1. t = "restart" BY <1>9, <2>2 DEF JoinLeaderTimer
    <3> QED BY <1>9, <2>2, <3>1 DEF JoinLeaderTimer
  <2> QED BY <2>1, <2>2
<1>10. ASSUME NEW t \in Thread, DoubleJoin(t) PROVE MainInv'
  BY <1>10 DEF DoubleJoin
<1>11. ASSUME NEW t \in Thread, Create(t) PROVE MainInv'
  BY <1>11 DEF Create
<1>12. ASSUME NEW a \in Agent, NEW w \in Worker, ChangeRole(a, w) PROVE MainInv'
  BY <1>12 DEF ChangeRole
<1>13. ASSUME NEW a \in Agent, NEW w \in Worker, TestRole(a, w) PROVE MainInv'
  BY <1>13 DEF TestRole
<1>14. ASSUME NEW a \in Agent, NEW w \in Worker, FlipRole(a, w) PROVE MainInv'
  BY <1>14 DEF FlipRole
<1>15. ASSUME NEW a \in Agent, NEW w \in Worker, JoinRestart(a, w) PROVE MainInv'
  BY <1>15, ZenonT(60) DEF JoinRestart
<1>16. ASSUME NEW a \in Agent, NEW w \in Worker, SpawnRestart(a, w) PROVE MainInv'
  <2>1. CASE joinable BY <1>16, <2>1 DEF SpawnRestart
  <2>2. CASE ~joinable BY <1>16, <2>2 DEF SpawnRestart
  <2> QED BY <2>1, <2>2
<1>17. ASSUME NEW a \in Agent, NEW w \in Worker, NEW l \in List, Request(a, w, l) PROVE MainInv'
  BY <1>17 DEF Request
<1>18. ASSUME NEW a \in Agent, NEW k \in {"follower", "leader"}, TimerEnds(a, k) PROVE MainInv'
  BY <1>18 DEF TimerEnds
<1>19. ASSUME NEW a \in Agent, TimerRefreshes(a) PROVE MainInv'
  BY <1>19 DEF TimerRefreshes
<1>20. CASE UNCHANGED vars BY <1>20 DEF vars
<1> QED BY <1>1, <1>2, <1>3, <1>4, <1>5, <1>6, <1>7, <1>8, <1>9, <1>10, <1>11, <1>12,
      <1>13, <1>14, <1>15, <1>16, <1>17, <1>18, <1>19, <1>20
   DEF Next, ThreadStep, WorkerStep

\* restartThread is not started again before it was joined, and JoinWorkers turns off
\* the only server there is.
LEMMA RestartStep == TypeOK /\ MainInv /\ RestartInv /\ ServerInv /\ [Next]_vars => RestartInv'
<1> SUFFICES ASSUME TypeOK, MainInv, RestartInv, ServerInv, [Next]_vars PROVE RestartInv'
  OBVIOUS
<1> USE DEF TypeOK, MainInv, RestartInv, ServerInv, Thread, StartPc, StopPc, Goto, WorkerAt,
        nodeVars, agentVars, threadVars, workerVars
<1>1. ASSUME NEW t \in Thread, Serve(t) PROVE RestartInv'
  BY <1>1 DEF Serve, GiveUp
<1>2. ASSUME NEW t \in Thread, SelectServer(t) PROVE RestartInv'
  BY <1>2 DEF SelectServer, GiveUp
<1>3. ASSUME NEW t \in Thread, GreetLeaders(t) PROVE RestartInv'
  BY <1>3 DEF GreetLeaders, GiveUp
<1>4. ASSUME NEW t \in Thread, StartTimers(t) PROVE RestartInv'
  BY <1>4 DEF StartTimers
<1>5. ASSUME NEW t \in Thread, StopFlags(t) PROVE RestartInv'
  BY <1>5 DEF StopFlags
<1>6. ASSUME NEW t \in Thread, JoinTimers(t) PROVE RestartInv'
  BY <1>6 DEF JoinTimers
<1>7. ASSUME NEW t \in Thread, StopServer(t) PROVE RestartInv'
  BY <1>7 DEF StopServer
<1>8. ASSUME NEW t \in Thread, JoinWorkers(t) PROVE RestartInv'
  BY <1>8 DEF JoinWorkers
<1>9. ASSUME NEW t \in Thread, JoinLeaderTimer(t) PROVE RestartInv'
  <2>1. CASE dying[t] BY <1>9, <2>1 DEF JoinLeaderTimer
  <2>2. CASE ~dying[t]
    <3>1. t = "restart" BY <1>9, <2>2 DEF JoinLeaderTimer
    <3> QED BY <1>9, <2>2, <3>1 DEF JoinLeaderTimer
  <2> QED BY <2>1, <2>2
<1>10. ASSUME NEW t \in Thread, DoubleJoin(t) PROVE RestartInv'
  BY <1>10 DEF DoubleJoin
<1>11. ASSUME NEW t \in Thread, Create(t) PROVE RestartInv'
  BY <1>11 DEF Create
<1>12. ASSUME NEW a \in Agent, NEW w \in Worker, ChangeRole(a, w) PROVE RestartInv'
  BY <1>12 DEF ChangeRole
<1>13. ASSUME NEW a \in Agent, NEW w \in Worker, TestRole(a, w) PROVE RestartInv'
  BY <1>13 DEF TestRole
<1>14. ASSUME NEW a \in Agent, NEW w \in Worker, FlipRole(a, w) PROVE RestartInv'
  BY <1>14 DEF FlipRole
<1>15. ASSUME NEW a \in Agent, NEW w \in Worker, JoinRestart(a, w) PROVE RestartInv'
  <2>1. CASE ~joinable /\ WorkerAt(a, w, "spawn") /\ UNCHANGED <<joinable, pc, alive>>
    BY <1>15, <2>1 DEF JoinRestart
  <2>2. CASE /\ joinable /\ pc["restart"] = "done" /\ WorkerAt(a, w, "spawn")
             /\ joinable' = FALSE /\ Goto("restart", "idle") /\ UNCHANGED alive
    BY <1>15, <2>2 DEF JoinRestart
  <2>3. CASE alive' = FALSE /\ UNCHANGED <<joinable, pc, wpc>>
    BY <1>15, <2>3 DEF JoinRestart
  <2> QED BY <1>15, <2>1, <2>2, <2>3 DEF JoinRestart
<1>16. ASSUME NEW a \in Agent, NEW w \in Worker, SpawnRestart(a, w) PROVE RestartInv'
  <2>1. CASE joinable BY <1>16, <2>1 DEF SpawnRestart
  <2>2. CASE ~joinable BY <1>16, <2>2 DEF SpawnRestart
  <2> QED BY <2>1, <2>2
<1>17. ASSUME NEW a \in Agent, NEW w \in Worker, NEW l \in List, Request(a, w, l)
       PROVE  RestartInv'
  BY <1>17 DEF Request
<1>18. ASSUME NEW a \in Agent, NEW k \in {"follower", "leader"}, TimerEnds(a, k)
       PROVE  RestartInv'
  BY <1>18 DEF TimerEnds
<1>19. ASSUME NEW a \in Agent, TimerRefreshes(a) PROVE RestartInv'
  BY <1>19 DEF TimerRefreshes
<1>20. CASE UNCHANGED vars BY <1>20 DEF vars
<1> QED BY <1>1, <1>2, <1>3, <1>4, <1>5, <1>6, <1>7, <1>8, <1>9, <1>10, <1>11, <1>12,
      <1>13, <1>14, <1>15, <1>16, <1>17, <1>18, <1>19, <1>20
   DEF Next, ThreadStep, WorkerStep

\* A server is taken down only when its workers are idle, and requests are taken only
\* by a server that is up.
LEMMA ServerStep == TypeOK /\ MainInv /\ RestartInv /\ ServerInv /\ [Next]_vars => ServerInv'
<1> SUFFICES ASSUME TypeOK, MainInv, RestartInv, ServerInv, [Next]_vars PROVE ServerInv' OBVIOUS
<1> USE DEF TypeOK, MainInv, RestartInv, ServerInv, Thread, Goto, WorkerAt, nodeVars,
        agentVars, threadVars, workerVars
<1>1. ASSUME NEW t \in Thread, Serve(t) PROVE ServerInv'
  BY <1>1 DEF Serve, GiveUp
<1>2. ASSUME NEW t \in Thread, SelectServer(t) PROVE ServerInv'
  BY <1>2 DEF SelectServer, GiveUp
<1>3. ASSUME NEW t \in Thread, GreetLeaders(t) PROVE ServerInv'
  BY <1>3 DEF GreetLeaders, GiveUp
<1>4. ASSUME NEW t \in Thread, StartTimers(t) PROVE ServerInv'
  BY <1>4 DEF StartTimers
<1>5. ASSUME NEW t \in Thread, StopFlags(t) PROVE ServerInv'
  BY <1>5 DEF StopFlags
<1>6. ASSUME NEW t \in Thread, JoinTimers(t) PROVE ServerInv'
  BY <1>6 DEF JoinTimers
<1>7. ASSUME NEW t \in Thread, StopServer(t) PROVE ServerInv'
  BY <1>7 DEF StopServer
<1>8. ASSUME NEW t \in Thread, JoinWorkers(t) PROVE ServerInv'
  BY <1>8 DEF JoinWorkers
<1>9. ASSUME NEW t \in Thread, JoinLeaderTimer(t) PROVE ServerInv'
  BY <1>9 DEF JoinLeaderTimer
<1>10. ASSUME NEW t \in Thread, DoubleJoin(t) PROVE ServerInv'
  BY <1>10 DEF DoubleJoin
<1>11. ASSUME NEW t \in Thread, Create(t) PROVE ServerInv'
  BY <1>11 DEF Create
<1>12. ASSUME NEW a \in Agent, NEW w \in Worker, ChangeRole(a, w) PROVE ServerInv'
  BY <1>12 DEF ChangeRole
<1>13. ASSUME NEW a \in Agent, NEW w \in Worker, TestRole(a, w) PROVE ServerInv'
  BY <1>13 DEF TestRole
<1>14. ASSUME NEW a \in Agent, NEW w \in Worker, FlipRole(a, w) PROVE ServerInv'
  BY <1>14 DEF FlipRole
<1>15. ASSUME NEW a \in Agent, NEW w \in Worker, JoinRestart(a, w) PROVE ServerInv'
  <2>1. CASE ~joinable /\ WorkerAt(a, w, "spawn") /\ UNCHANGED <<joinable, pc, alive>>
    BY <1>15, <2>1 DEF JoinRestart
  <2>2. CASE /\ joinable /\ pc["restart"] = "done" /\ WorkerAt(a, w, "spawn")
             /\ joinable' = FALSE /\ Goto("restart", "idle") /\ UNCHANGED alive
    BY <1>15, <2>2 DEF JoinRestart
  <2>3. CASE alive' = FALSE /\ UNCHANGED <<joinable, pc, wpc>>
    BY <1>15, <2>3 DEF JoinRestart
  <2> QED BY <1>15, <2>1, <2>2, <2>3 DEF JoinRestart
<1>16. ASSUME NEW a \in Agent, NEW w \in Worker, SpawnRestart(a, w) PROVE ServerInv'
  <2>1. CASE joinable BY <1>16, <2>1 DEF SpawnRestart
  <2>2. CASE ~joinable BY <1>16, <2>2 DEF SpawnRestart
  <2> QED BY <2>1, <2>2
<1>17. ASSUME NEW a \in Agent, NEW w \in Worker, NEW l \in List, Request(a, w, l)
       PROVE  ServerInv'
  BY <1>17 DEF Request
<1>18. ASSUME NEW a \in Agent, NEW k \in {"follower", "leader"}, TimerEnds(a, k)
       PROVE  ServerInv'
  BY <1>18 DEF TimerEnds
<1>19. ASSUME NEW a \in Agent, TimerRefreshes(a) PROVE ServerInv'
  BY <1>19 DEF TimerRefreshes
<1>20. CASE UNCHANGED vars BY <1>20 DEF vars
<1> QED BY <1>1, <1>2, <1>3, <1>4, <1>5, <1>6, <1>7, <1>8, <1>9, <1>10, <1>11, <1>12,
      <1>13, <1>14, <1>15, <1>16, <1>17, <1>18, <1>19, <1>20
   DEF Next, ThreadStep, WorkerStep

\* FlipRole takes the role away from the current agent and leaves a worker at the join;
\* Create gives it to the next agent, the only other step that could matter.
LEMMA RoleStep ==
  TypeOK /\ MainInv /\ RestartInv /\ ServerInv /\ RoleInv /\ CountInv /\ [Next]_vars => RoleInv'
<1> SUFFICES ASSUME TypeOK, MainInv, RestartInv, ServerInv, RoleInv, CountInv, [Next]_vars
             PROVE RoleInv'
  OBVIOUS
<1> USE DEF TypeOK, MainInv, RestartInv, ServerInv, RoleInv, Role, Restarting, Thread,
        StartPc, StopPc, Goto, WorkerAt, nodeVars, agentVars, threadVars, workerVars
<1>1. ASSUME NEW t \in Thread, Serve(t) PROVE RoleInv'
  BY <1>1 DEF Serve, GiveUp
<1>2. ASSUME NEW t \in Thread, SelectServer(t) PROVE RoleInv'
  BY <1>2 DEF SelectServer, GiveUp
<1>3. ASSUME NEW t \in Thread, GreetLeaders(t) PROVE RoleInv'
  BY <1>3 DEF GreetLeaders, GiveUp
<1>4. ASSUME NEW t \in Thread, StartTimers(t) PROVE RoleInv'
  BY <1>4 DEF StartTimers
<1>5. ASSUME NEW t \in Thread, StopFlags(t) PROVE RoleInv'
  BY <1>5 DEF StopFlags
<1>6. ASSUME NEW t \in Thread, JoinTimers(t) PROVE RoleInv'
  BY <1>6 DEF JoinTimers
<1>7. ASSUME NEW t \in Thread, StopServer(t) PROVE RoleInv'
  BY <1>7 DEF StopServer
<1>8. ASSUME NEW t \in Thread, JoinWorkers(t) PROVE RoleInv'
  BY <1>8 DEF JoinWorkers
<1>9. ASSUME NEW t \in Thread, JoinLeaderTimer(t) PROVE RoleInv'
  BY <1>9 DEF JoinLeaderTimer
<1>10. ASSUME NEW t \in Thread, DoubleJoin(t) PROVE RoleInv'
  BY <1>10 DEF DoubleJoin
<1>11. ASSUME NEW t \in Thread, Create(t) PROVE RoleInv'
  <2>1. cur + 1 \in Agent BY <1>11, CreateInRange
  <2> QED BY <1>11, <2>1 DEF Create
<1>12. ASSUME NEW a \in Agent, NEW w \in Worker, ChangeRole(a, w) PROVE RoleInv'
  BY <1>12 DEF ChangeRole
<1>13. ASSUME NEW a \in Agent, NEW w \in Worker, TestRole(a, w) PROVE RoleInv'
  BY <1>13 DEF TestRole
<1>14. ASSUME NEW a \in Agent, NEW w \in Worker, FlipRole(a, w) PROVE RoleInv'
  BY <1>14 DEF FlipRole
<1>15. ASSUME NEW a \in Agent, NEW w \in Worker, JoinRestart(a, w) PROVE RoleInv'
  BY <1>15 DEF JoinRestart
<1>16. ASSUME NEW a \in Agent, NEW w \in Worker, SpawnRestart(a, w) PROVE RoleInv'
  BY <1>16 DEF SpawnRestart
<1>17. ASSUME NEW a \in Agent, NEW w \in Worker, NEW l \in List, Request(a, w, l) PROVE RoleInv'
  BY <1>17 DEF Request
<1>18. ASSUME NEW a \in Agent, NEW k \in {"follower", "leader"}, TimerEnds(a, k) PROVE RoleInv'
  BY <1>18 DEF TimerEnds
<1>19. ASSUME NEW a \in Agent, TimerRefreshes(a) PROVE RoleInv'
  BY <1>19 DEF TimerRefreshes
<1>20. CASE UNCHANGED vars BY <1>20 DEF vars
<1> QED BY <1>1, <1>2, <1>3, <1>4, <1>5, <1>6, <1>7, <1>8, <1>9, <1>10, <1>11, <1>12,
      <1>13, <1>14, <1>15, <1>16, <1>17, <1>18, <1>19, <1>20
   DEF Next, ThreadStep, WorkerStep

\* A worker that goes on in its handler has the same request, ...
LEMMA WorkerGoesOn ==
  ASSUME TypeOK, NEW a \in Agent, NEW w \in Worker, wpc[a][w] # "idle",
         NEW k, k # "idle", WorkerAt(a, w, k)
  PROVE  Handling' = Handling
<1>1. \A b \in Agent, v \in Worker : wpc'[b][v] = IF b = a /\ v = w THEN k ELSE wpc[b][v]
  BY DEF WorkerAt, TypeOK
<1> QED BY <1>1 DEF Handling

\* ... one that ends its handler has none, ...
LEMMA WorkerEnds ==
  ASSUME TypeOK, NEW a \in Agent, NEW w \in Worker, wpc[a][w] # "idle", WorkerAt(a, w, "idle")
  PROVE  Cardinality(Handling') = Cardinality(Handling) - 1
<1>1. \A b \in Agent, v \in Worker : wpc'[b][v] = IF b = a /\ v = w THEN "idle" ELSE wpc[b][v]
  BY DEF WorkerAt, TypeOK
<1>2. Handling' = Handling \ {<<a, w>>} /\ <<a, w>> \in Handling BY <1>1 DEF Handling
<1> QED BY <1>2, HandlingFinite, FS_RemoveElement

\* ... and one that begins has a new one.
LEMMA WorkerBegins ==
  ASSUME TypeOK, NEW a \in Agent, NEW w \in Worker, wpc[a][w] = "idle", WorkerAt(a, w, "roles")
  PROVE  Cardinality(Handling') = Cardinality(Handling) + 1
<1>1. \A b \in Agent, v \in Worker : wpc'[b][v] = IF b = a /\ v = w THEN "roles" ELSE wpc[b][v]
  BY DEF WorkerAt, TypeOK
<1>2. Handling' = Handling \cup {<<a, w>>} /\ <<a, w>> \notin Handling BY <1>1 DEF Handling
<1> QED BY <1>2, HandlingFinite, FS_AddElement

\* A request becomes a busy worker, a busy worker a restart and a restart an agent.
LEMMA CountStep == TypeOK /\ MainInv /\ RestartInv /\ CountInv /\ [Next]_vars => CountInv'
<1> SUFFICES ASSUME TypeOK, MainInv, RestartInv, CountInv, [Next]_vars PROVE CountInv' OBVIOUS
<1> USE DEF MainInv, RestartInv, CountInv, Restarting, Thread, StartPc, StopPc, Goto,
        nodeVars, agentVars, threadVars, workerVars
<1>n. Cardinality(Handling) \in Nat /\ cur \in Nat /\ requests \in Nat
  BY HandlingFinite, NodeAssumption DEF TypeOK, Agent
<1>b. pc \in [Thread -> StartPc \cup StopPc \cup {"idle", "create", "done"}]
      /\ dying \in [Thread -> BOOLEAN]
  BY DEF TypeOK
<1>1. ASSUME NEW t \in Thread, Serve(t) PROVE CountInv'
  <2>1. Handling' = Handling BY <1>1 DEF Serve, Handling
  <2> QED BY <1>1, <2>1, <1>n, <1>b DEF Serve, GiveUp
<1>2. ASSUME NEW t \in Thread, SelectServer(t) PROVE CountInv'
  <2>1. Handling' = Handling BY <1>2 DEF SelectServer, Handling
  <2> QED BY <1>2, <2>1, <1>n, <1>b DEF SelectServer, GiveUp
<1>3. ASSUME NEW t \in Thread, GreetLeaders(t) PROVE CountInv'
  <2>1. Handling' = Handling BY <1>3 DEF GreetLeaders, Handling
  <2> QED BY <1>3, <2>1, <1>n, <1>b DEF GreetLeaders, GiveUp
<1>4. ASSUME NEW t \in Thread, StartTimers(t) PROVE CountInv'
  <2>1. Handling' = Handling BY <1>4 DEF StartTimers, Handling
  <2> QED BY <1>4, <2>1, <1>n, <1>b DEF StartTimers
<1>5. ASSUME NEW t \in Thread, StopFlags(t) PROVE CountInv'
  <2>1. Handling' = Handling BY <1>5 DEF StopFlags, Handling
  <2> QED BY <1>5, <2>1, <1>n, <1>b DEF StopFlags
<1>6. ASSUME NEW t \in Thread, JoinTimers(t) PROVE CountInv'
  <2>1. Handling' = Handling BY <1>6 DEF JoinTimers, Handling
  <2> QED BY <1>6, <2>1, <1>n, <1>b DEF JoinTimers
<1>7. ASSUME NEW t \in Thread, StopServer(t) PROVE CountInv'
  <2>1. Handling' = Handling BY <1>7 DEF StopServer, Handling
  <2> QED BY <1>7, <2>1, <1>n, <1>b DEF StopServer
<1>8. ASSUME NEW t \in Thread, JoinWorkers(t) PROVE CountInv'
  <2>1. Handling' = Handling BY <1>8 DEF JoinWorkers, Handling
  <2> QED BY <1>8, <2>1, <1>n, <1>b DEF JoinWorkers
<1>9. ASSUME NEW t \in Thread, JoinLeaderTimer(t) PROVE CountInv'
  <2>1. Handling' = Handling BY <1>9 DEF JoinLeaderTimer, Handling
  <2> QED BY <1>9, <2>1, <1>n, <1>b DEF JoinLeaderTimer
<1>10. ASSUME NEW t \in Thread, DoubleJoin(t) PROVE CountInv'
  <2>1. Handling' = Handling BY <1>10 DEF DoubleJoin, Handling
  <2> QED BY <1>10, <2>1, <1>n, <1>b DEF DoubleJoin
<1>11. ASSUME NEW t \in Thread, Create(t) PROVE CountInv'
  <2>1. Handling' = Handling BY <1>11 DEF Create, Handling
  <2> QED BY <1>11, <2>1, <1>n, <1>b DEF Create
<1>12. ASSUME NEW a \in Agent, NEW w \in Worker, ChangeRole(a, w) PROVE CountInv'
  <2>1. CASE WorkerAt(a, w, "idle") BY <1>12, <2>1, <1>n, WorkerEnds DEF ChangeRole
  <2>2. CASE WorkerAt(a, w, "test")
    <3>1. Handling' = Handling BY <1>12, <2>2, WorkerGoesOn DEF ChangeRole
    <3> QED BY <1>12, <3>1, <1>n, <1>b DEF ChangeRole
  <2> QED BY <1>12, <2>1, <2>2 DEF ChangeRole
<1>13. ASSUME NEW a \in Agent, NEW w \in Worker, TestRole(a, w) PROVE CountInv'
  <2>1. CASE WorkerAt(a, w, "idle") BY <1>13, <2>1, <1>n, WorkerEnds DEF TestRole
  <2>2. CASE WorkerAt(a, w, "flip")
    <3>1. Handling' = Handling BY <1>13, <2>2, WorkerGoesOn DEF TestRole
    <3> QED BY <1>13, <3>1, <1>n, <1>b DEF TestRole
  <2> QED BY <1>13, <2>1, <2>2 DEF TestRole
<1>14. ASSUME NEW a \in Agent, NEW w \in Worker, FlipRole(a, w) PROVE CountInv'
  <2>1. Handling' = Handling BY <1>14, WorkerGoesOn DEF FlipRole
  <2> QED BY <1>14, <2>1, <1>n, <1>b DEF FlipRole
<1>15. ASSUME NEW a \in Agent, NEW w \in Worker, JoinRestart(a, w) PROVE CountInv'
  <2>1. CASE WorkerAt(a, w, "spawn")
    <3>1. Handling' = Handling BY <1>15, <2>1, WorkerGoesOn DEF JoinRestart
    <3> QED BY <1>15, <3>1, <1>n, <1>b DEF JoinRestart
  <2>2. CASE UNCHANGED <<joinable, pc, wpc>>
    <3>1. Handling' = Handling BY <2>2 DEF Handling
    <3> QED BY <1>15, <2>2, <3>1, <1>n, <1>b DEF JoinRestart
  <2> QED BY <1>15, <2>1, <2>2 DEF JoinRestart
<1>16. ASSUME NEW a \in Agent, NEW w \in Worker, SpawnRestart(a, w) PROVE CountInv'
  <2>1. CASE joinable
    <3>1. Handling' = Handling BY <1>16, <2>1 DEF SpawnRestart, Handling
    <3> QED BY <1>16, <2>1, <3>1, <1>n, <1>b DEF SpawnRestart
  <2>2. CASE ~joinable
    <3>1. Cardinality(Handling') = Cardinality(Handling) - 1
      BY <1>16, <2>2, WorkerEnds DEF SpawnRestart
    <3>2. ~Restarting BY <2>2
    <3> QED BY <1>16, <2>2, <3>1, <3>2, <1>n, <1>b DEF SpawnRestart
  <2> QED BY <2>1, <2>2
<1>17. ASSUME NEW a \in Agent, NEW w \in Worker, NEW l \in List, Request(a, w, l)
       PROVE  CountInv'
  <2>1. Cardinality(Handling') = Cardinality(Handling) + 1 BY <1>17, WorkerBegins DEF Request
  <2> QED BY <1>17, <2>1, <1>n, <1>b DEF Request
<1>18. ASSUME NEW a \in Agent, NEW k \in {"follower", "leader"}, TimerEnds(a, k) PROVE CountInv'
  <2>1. Handling' = Handling BY <1>18 DEF TimerEnds, Handling
  <2> QED BY <1>18, <2>1, <1>n, <1>b DEF TimerEnds
<1>19. ASSUME NEW a \in Agent, TimerRefreshes(a) PROVE CountInv'
  <2>1. Handling' = Handling BY <1>19 DEF TimerRefreshes, Handling
  <2> QED BY <1>19, <2>1, <1>n, <1>b DEF TimerRefreshes
<1>20. CASE UNCHANGED vars BY <1>20 DEF vars, Handling
<1> QED BY <1>1, <1>2, <1>3, <1>4, <1>5, <1>6, <1>7, <1>8, <1>9, <1>10, <1>11, <1>12,
      <1>13, <1>14, <1>15, <1>16, <1>17, <1>18, <1>19, <1>20
   DEF Next, ThreadStep, WorkerStep

\* Every action keeps the variables in their types, in particular cur.
LEMMA TypeStep == TypeOK /\ MainInv /\ RestartInv /\ CountInv /\ [Next]_vars => TypeOK'
<1> SUFFICES ASSUME TypeOK, MainInv, RestartInv, CountInv, [Next]_vars PROVE TypeOK' OBVIOUS
<1> USE NodeAssumption DEF TypeOK, Role, Thread, StartPc, StopPc, Goto, WorkerAt, nodeVars,
        agentVars, threadVars, workerVars
<1>1. ASSUME NEW t \in Thread, Serve(t) PROVE TypeOK'
  <2>1. pc' \in [Thread -> StartPc \cup StopPc \cup {"idle", "create", "done"}]
    BY <1>1 DEF Serve, GiveUp
  <2>2. dying' \in [Thread -> BOOLEAN]
    <3>1. dying' = dying \/ dying' = [dying EXCEPT ![t] = TRUE] BY <1>1 DEF Serve, GiveUp
    <3> QED BY <3>1
  <2>3. at[t] \in Agent OBVIOUS
  <2>4. /\ running' \in [Agent -> BOOLEAN] /\ server' \in [Agent -> {"off", "up", "stopping"}]
        /\ timer' \in [Agent -> SUBSET {"follower", "leader"}]
    BY <1>1, <2>3 DEF Serve
  <2> QED BY <1>1, <2>1, <2>2, <2>4 DEF Serve
<1>2. ASSUME NEW t \in Thread, SelectServer(t) PROVE TypeOK'
  <2>1. pc' \in [Thread -> StartPc \cup StopPc \cup {"idle", "create", "done"}]
    BY <1>2 DEF SelectServer, GiveUp
  <2>2. dying' \in [Thread -> BOOLEAN]
    <3>1. dying' = dying \/ dying' = [dying EXCEPT ![t] = TRUE] BY <1>2 DEF SelectServer, GiveUp
    <3> QED BY <3>1
  <2>3. at[t] \in Agent OBVIOUS
  <2>4. /\ running' \in [Agent -> BOOLEAN] /\ server' \in [Agent -> {"off", "up", "stopping"}]
        /\ timer' \in [Agent -> SUBSET {"follower", "leader"}]
    BY <1>2, <2>3 DEF SelectServer
  <2> QED BY <1>2, <2>1, <2>2, <2>4 DEF SelectServer
<1>3. ASSUME NEW t \in Thread, GreetLeaders(t) PROVE TypeOK'
  <2>1. pc' \in [Thread -> StartPc \cup StopPc \cup {"idle", "create", "done"}]
    BY <1>3 DEF GreetLeaders, GiveUp
  <2>2. dying' \in [Thread -> BOOLEAN]
    <3>1. dying' = dying \/ dying' = [dying EXCEPT ![t] = TRUE] BY <1>3 DEF GreetLeaders, GiveUp
    <3> QED BY <3>1
  <2>3. at[t] \in Agent OBVIOUS
  <2>4. /\ running' \in [Agent -> BOOLEAN] /\ server' \in [Agent -> {"off", "up", "stopping"}]
        /\ timer' \in [Agent -> SUBSET {"follower", "leader"}]
    BY <1>3, <2>3, SMTT(60) DEF GreetLeaders
  <2> QED BY <1>3, <2>1, <2>2, <2>4 DEF GreetLeaders
<1>4. ASSUME NEW t \in Thread, StartTimers(t) PROVE TypeOK'
  BY <1>4 DEF StartTimers
<1>5. ASSUME NEW t \in Thread, StopFlags(t) PROVE TypeOK'
  BY <1>5 DEF StopFlags
<1>6. ASSUME NEW t \in Thread, JoinTimers(t) PROVE TypeOK'
  BY <1>6 DEF JoinTimers
<1>7. ASSUME NEW t \in Thread, StopServer(t) PROVE TypeOK'
  BY <1>7 DEF StopServer
<1>8. ASSUME NEW t \in Thread, JoinWorkers(t) PROVE TypeOK'
  BY <1>8 DEF JoinWorkers
<1>9. ASSUME NEW t \in Thread, JoinLeaderTimer(t) PROVE TypeOK'
  <2>1. CASE dying[t] BY <1>9, <2>1 DEF JoinLeaderTimer
  <2>2. CASE ~dying[t] BY <1>9, <2>2 DEF JoinLeaderTimer
  <2> QED BY <2>1, <2>2
<1>10. ASSUME NEW t \in Thread, DoubleJoin(t) PROVE TypeOK'
  BY <1>10 DEF DoubleJoin
<1>11. ASSUME NEW t \in Thread, Create(t) PROVE TypeOK'
  <2>1. cur + 1 \in Agent BY <1>11, CreateInRange
  <2> QED BY <1>11, <2>1 DEF Create
<1>12. ASSUME NEW a \in Agent, NEW w \in Worker, ChangeRole(a, w) PROVE TypeOK'
  <2>1. wpc' \in [Agent -> [Worker -> {"idle", "roles", "test", "flip", "join", "spawn"}]]
    BY <1>12 DEF ChangeRole
  <2>2. leaders[a][w] \in List OBVIOUS
  <2>3. mNodes' \in List /\ alive' \in BOOLEAN BY <1>12, <2>2 DEF ChangeRole
  <2> QED BY <1>12, <2>1, <2>3 DEF ChangeRole
<1>13. ASSUME NEW a \in Agent, NEW w \in Worker, TestRole(a, w) PROVE TypeOK'
  BY <1>13 DEF TestRole
<1>14. ASSUME NEW a \in Agent, NEW w \in Worker, FlipRole(a, w) PROVE TypeOK'
  BY <1>14 DEF FlipRole
<1>15. ASSUME NEW a \in Agent, NEW w \in Worker, JoinRestart(a, w) PROVE TypeOK'
  <2>1. CASE WorkerAt(a, w, "spawn")
    <3>1. wpc' \in [Agent -> [Worker -> {"idle", "roles", "test", "flip", "join", "spawn"}]]
      BY <2>1
    <3>2. pc' = pc \/ pc' = [pc EXCEPT !["restart"] = "idle"] BY <1>15 DEF JoinRestart
    <3>3. pc' \in [Thread -> StartPc \cup StopPc \cup {"idle", "create", "done"}] BY <3>2
    <3> QED BY <1>15, <2>1, <3>1, <3>3 DEF JoinRestart
  <2>2. CASE alive' = FALSE /\ UNCHANGED <<joinable, pc, wpc>> BY <1>15, <2>2 DEF JoinRestart
  <2> QED BY <1>15, <2>1, <2>2 DEF JoinRestart
<1>16. ASSUME NEW a \in Agent, NEW w \in Worker, SpawnRestart(a, w) PROVE TypeOK'
  <2>1. CASE joinable BY <1>16, <2>1 DEF SpawnRestart
  <2>2. CASE ~joinable
    <3>0. /\ WorkerAt(a, w, "idle") /\ Goto("restart", "flags")
          /\ at' = [at EXCEPT !["restart"] = cur] /\ dying' = [dying EXCEPT !["restart"] = FALSE]
      BY <1>16, <2>2 DEF SpawnRestart
    <3>1. wpc' \in [Agent -> [Worker -> {"idle", "roles", "test", "flip", "join", "spawn"}]]
      BY <3>0
    <3>2. at' \in [Thread -> Agent] /\ dying' \in [Thread -> BOOLEAN] BY <3>0
    <3>3. pc' \in [Thread -> StartPc \cup StopPc \cup {"idle", "create", "done"}] BY <3>0
    <3> QED BY <1>16, <2>2, <3>1, <3>2, <3>3 DEF SpawnRestart
  <2> QED BY <2>1, <2>2
<1>17. ASSUME NEW a \in Agent, NEW w \in Worker, NEW l \in List, Request(a, w, l) PROVE TypeOK'
  BY <1>17 DEF Request
<1>18. ASSUME NEW a \in Agent, NEW k \in {"follower", "leader"}, TimerEnds(a, k) PROVE TypeOK'
  BY <1>18 DEF TimerEnds
<1>19. ASSUME NEW a \in Agent, TimerRefreshes(a) PROVE TypeOK'
  BY <1>19 DEF TimerRefreshes
<1>20. CASE UNCHANGED vars BY <1>20 DEF vars
<1> QED BY <1>1, <1>2, <1>3, <1>4, <1>5, <1>6, <1>7, <1>8, <1>9, <1>10, <1>11, <1>12,
      <1>13, <1>14, <1>15, <1>16, <1>17, <1>18, <1>19, <1>20
   DEF Next, ThreadStep, WorkerStep

\* The inductive invariant holds in every state of the specification.
LEMMA Invariance == Spec => [](TypeOK /\ Inv)
<1>1. Init => TypeOK /\ Inv
  <2> SUFFICES ASSUME Init PROVE TypeOK /\ Inv OBVIOUS
  <2>1. 1 \in Agent BY NodeAssumption DEF Agent
  <2>2. TypeOK
    <3>1. /\ kind \in [Agent -> {"leader", "follower"}] /\ running \in [Agent -> BOOLEAN]
          /\ server \in [Agent -> {"off", "up", "stopping"}]
          /\ timer \in [Agent -> SUBSET {"follower", "leader"}]
      BY DEF Init, Role
    <3>2. /\ pc \in [Thread -> StartPc \cup StopPc \cup {"idle", "create", "done"}]
          /\ at \in [Thread -> Agent] /\ dying \in [Thread -> BOOLEAN]
      BY <2>1 DEF Init, StartPc
    <3>3. /\ wpc \in [Agent -> [Worker -> {"idle", "roles", "test", "flip", "join", "spawn"}]]
          /\ leaders \in [Agent -> [Worker -> List]]
      BY DEF Init
    <3>4. requests \in 0 .. MaxRequests /\ cur \in Agent BY <2>1, NodeAssumption DEF Init
    <3>5. isLeader \in BOOLEAN /\ mNodes \in List /\ joinable \in BOOLEAN /\ alive \in BOOLEAN
      BY DEF Init
    <3> QED BY <3>1, <3>2, <3>3, <3>4, <3>5 DEF TypeOK
  <2>3. MainInv /\ RestartInv /\ ServerInv /\ RoleInv
    BY <2>1 DEF Init, MainInv, RestartInv, ServerInv, RoleInv, Role, Thread, StopPc
  <2>4. CountInv
    <3>1. Handling = {} BY DEF Init, Handling
    <3>2. Cardinality(Handling) = 0 BY <3>1, FS_EmptySet
    <3>3. ~Restarting BY DEF Init, Restarting, Thread, StopPc
    <3> QED BY <3>2, <3>3 DEF Init, CountInv
  <2> QED BY <2>2, <2>3, <2>4 DEF Inv
<1>2. TypeOK /\ Inv /\ [Next]_vars => (TypeOK /\ Inv)'
  BY TypeStep, MainStep, RestartStep, ServerStep, RoleStep, CountStep DEF Inv
<1> QED BY <1>1, <1>2, PTL DEF Spec
-----------------------------------------------------------------------------
\* The variables keep to their types: there are never more agents than requests to
\* change role, and one more.
THEOREM TypeCorrect == Spec => []TypeOK
<1> QED BY Invariance, PTL

\* When nothing is in progress the agent has the role of the node: a change of role that
\* comes while another restarts the agent is not lost (Node::promote, demote).
THEOREM RoleIsSettled == Spec => []RoleSettled
<1>1. TypeOK /\ Inv => RoleSettled
  BY DEF TypeOK, Inv, RoleInv, RoleSettled, AtRest, Restarting, StopPc
<1> QED BY <1>1, Invariance, PTL

\* A server is started only when no other agent has one, whichever of main and
\* restartThread starts it: the new agent finds the port free.
THEOREM OneServerAtATime == Spec => OneServer
<1>1. TypeOK /\ Inv /\ [Next]_vars =>
        [\A a \in Agent : server[a] = "off" /\ server'[a] = "up" =>
           \A b \in Agent \ {a} : server[b] = "off"]_vars
  <2> SUFFICES ASSUME TypeOK, Inv, [Next]_vars, NEW a \in Agent,
                      server[a] = "off", server'[a] = "up"
               PROVE  \A b \in Agent : server[b] = "off"
    OBVIOUS
  <2>1. ASSUME NEW t \in Thread, Serve(t) PROVE \A b \in Agent : server[b] = "off"
    BY <2>1 DEF Serve, Thread, Inv, MainInv, RestartInv
  <2>2. \/ \E t \in Thread : Serve(t) \/ StopServer(t) \/ JoinWorkers(t)
        \/ UNCHANGED server
    BY ZenonT(60) DEF Next, vars, nodeVars, agentVars, ThreadStep, WorkerStep, SelectServer, GreetLeaders,
           StartTimers, StopFlags, JoinTimers, JoinLeaderTimer, DoubleJoin, Create, ChangeRole,
           TestRole, FlipRole, JoinRestart, SpawnRestart, Request, TimerEnds, TimerRefreshes
  <2>3. ASSUME NEW t \in Thread, StopServer(t) \/ JoinWorkers(t) PROVE FALSE
    BY <2>3 DEF StopServer, JoinWorkers, TypeOK
  <2> QED BY <2>1, <2>2, <2>3
<1> QED BY <1>1, Invariance, PTL DEF Spec, OneServer

\* What restartThread has done to the current agent on its way, and its absence at
\* all others.
Stopped ==
  pc["restart"] \in {"joinTimers", "stopServer", "joinWorkers", "joinLeaderTimer", "create",
                     "serve"}
Joined == pc["restart"] \in {"stopServer", "joinWorkers", "joinLeaderTimer", "create"}

StopInv ==
  /\ FormerAgentsStopped
  /\ Stopped => ~running[cur]
  /\ cur # 1 /\ Joined => "follower" \notin timer[cur]
  /\ cur # 1 /\ pc["restart"] = "create" => timer[cur] = {}

\* The joins come before Create, and only main, at the first agent, starts threads
\* of an agent that restartThread is stopping.
LEMMA StopStep == TypeOK /\ TypeOK' /\ MainInv /\ RestartInv /\ StopInv /\ [Next]_vars => StopInv'
<1> SUFFICES ASSUME TypeOK, TypeOK', MainInv, RestartInv, StopInv, [Next]_vars PROVE StopInv'
  OBVIOUS
<1> USE DEF StopInv, FormerAgentsStopped, Stopped, Joined, Thread, Goto
<1>ty. /\ cur \in Agent /\ cur' \in Agent
       /\ running \in [Agent -> BOOLEAN]
       /\ timer \in [Agent -> SUBSET {"follower", "leader"}]
       /\ pc \in [Thread -> StartPc \cup StopPc \cup {"idle", "create", "done"}]
       /\ at \in [Thread -> Agent]
  BY DEF TypeOK
<1>at. /\ at["main"] = 1 /\ pc["main"] # "create"
       /\ pc["main"] = "serve" => cur = 1 /\ pc["restart"] = "idle"
       /\ pc["restart"] # "idle" => at["restart"] = cur
  BY DEF MainInv, RestartInv
<1>1. ASSUME NEW t \in Thread, Serve(t) PROVE StopInv'
  BY <1>1, <1>ty, <1>at DEF Serve, GiveUp, nodeVars
<1>2. ASSUME NEW t \in Thread, SelectServer(t) PROVE StopInv'
  BY <1>2, <1>ty DEF SelectServer, GiveUp, agentVars
<1>3. ASSUME NEW t \in Thread, StartTimers(t) \/ GreetLeaders(t) PROVE StopInv'
  <2>1. UNCHANGED <<cur, running>> /\ pc[t] \in {"timers", "greet"} /\
        \E k \in {"done", "greet", "flags"} : Goto(t, k)
    BY <1>3 DEF StartTimers, GreetLeaders, GiveUp, nodeVars
  <2>2. \A a \in Agent \ {at[t]} : timer'[a] = timer[a]
    BY <1>3, <1>ty DEF StartTimers, GreetLeaders, GiveUp
  <2>3. CASE t = "main"
    BY <2>1, <2>2, <2>3, <1>ty, <1>at
  <2>4. CASE t = "restart"
    BY <2>1, <2>2, <2>4, <1>ty, <1>at
  <2> QED BY <2>3, <2>4
<1>4. ASSUME NEW t \in Thread, StopFlags(t) PROVE StopInv'
  BY <1>4, <1>ty, <1>at DEF StopFlags, nodeVars
<1>5. ASSUME NEW t \in Thread, JoinTimers(t) PROVE StopInv'
  BY <1>5, <1>ty, <1>at DEF JoinTimers, nodeVars, agentVars
<1>6. ASSUME NEW t \in Thread, StopServer(t) \/ JoinWorkers(t) PROVE StopInv'
  BY <1>6, <1>ty DEF StopServer, JoinWorkers, nodeVars
<1>7. ASSUME NEW t \in Thread, JoinLeaderTimer(t) PROVE StopInv'
  <2>1. pc[t] = "joinLeaderTimer" /\ "leader" \notin timer[at[t]]
        /\ (UNCHANGED pc \/ Goto(t, "create")) /\ UNCHANGED <<cur, running, timer>>
    BY <1>7 DEF JoinLeaderTimer, nodeVars, agentVars
  <2>2. pc["restart"] = "joinLeaderTimer" /\ cur # 1 => "follower" \notin timer[cur]
    OBVIOUS
  <2>3. t = "restart" /\ cur # 1 => timer[cur] = {}
    BY <2>1, <2>2, <1>ty, <1>at
  <2> QED BY <2>1, <2>3, <1>ty
<1>8. ASSUME NEW t \in Thread, Create(t) PROVE StopInv'
  <2>1. t = "restart" BY <1>8, <1>at DEF Create
  <2>2. /\ pc["restart"] = "create" /\ cur' = cur + 1 /\ Goto("restart", "serve")
        /\ UNCHANGED <<running, timer>>
    BY <1>8, <2>1 DEF Create
  <2>3. cur + 1 # cur /\ cur + 1 \in Agent BY <1>ty, <2>2 DEF Agent
  <2>4. ~running[cur] /\ ~running[cur + 1] /\ (cur # 1 => timer[cur] = {})
    BY <2>2, <2>3
  <2> QED BY <2>2, <2>3, <2>4, <1>ty
<1>9. ASSUME NEW t \in Thread, DoubleJoin(t) PROVE StopInv'
  BY <1>9 DEF DoubleJoin, nodeVars, agentVars, threadVars
<1>10. ASSUME NEW a \in Agent, NEW w \in Worker, WorkerStep(a, w) PROVE StopInv'
  <2>1. UNCHANGED <<cur, running, timer>>
    BY <1>10 DEF WorkerStep, ChangeRole, TestRole, FlipRole, JoinRestart, SpawnRestart,
                 nodeVars, agentVars
  <2>2. UNCHANGED pc \/ Goto("restart", "idle") \/ Goto("restart", "flags")
    BY <1>10 DEF WorkerStep, ChangeRole, TestRole, FlipRole, JoinRestart, SpawnRestart,
                 threadVars
  <2> QED BY <2>1, <2>2, <1>ty
<1>11. ASSUME NEW a \in Agent, NEW w \in Worker, NEW l \in List, Request(a, w, l)
       PROVE  StopInv'
  BY <1>11 DEF Request, nodeVars, agentVars, threadVars
<1>12. ASSUME NEW a \in Agent, NEW k \in {"follower", "leader"}, TimerEnds(a, k)
       PROVE  StopInv'
  <2>1. UNCHANGED <<cur, running, pc>> /\ \A b \in Agent : timer'[b] \subseteq timer[b]
    BY <1>12, <1>ty DEF TimerEnds, nodeVars, threadVars
  <2> QED BY <2>1, <1>ty
<1>13. ASSUME NEW a \in Agent, TimerRefreshes(a) PROVE StopInv'
  BY <1>13 DEF TimerRefreshes, agentVars, threadVars
<1>14. CASE UNCHANGED vars BY <1>14 DEF vars, nodeVars, agentVars, threadVars
<1> QED BY <1>1, <1>2, <1>3, <1>4, <1>5, <1>6, <1>7, <1>8, <1>9, <1>10, <1>11, <1>12, <1>13,
           <1>14 DEF Next, ThreadStep

\* No thread of a former agent goes on once the next agent is created, except a timer
\* that main, still in start(), adds to the first agent: that one finds running
\* cleared.  For any number of workers and requests.
THEOREM FormersAreStopped == Spec => []FormerAgentsStopped
<1>1. Init => StopInv
  BY DEF Init, StopInv, FormerAgentsStopped, Stopped, Joined, Thread
<1>2. TypeOK /\ TypeOK' /\ Inv /\ StopInv /\ [Next]_vars => StopInv'
  BY StopStep DEF Inv
<1>3. StopInv => FormerAgentsStopped
  BY DEF StopInv
<1> QED BY <1>1, <1>2, <1>3, Invariance, PTL DEF Spec
=============================================================================
