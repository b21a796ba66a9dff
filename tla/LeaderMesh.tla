------------------------------ MODULE LeaderMesh ------------------------------
(***************************************************************************)
(* How the leaders learn of each other (leader.cpp, the MHELLO request of  *)
(* leader_connections.cpp, the table MMNodes of leader_storage.cpp) when a *)
(* list of new leaders reaches the nodes, each at its own time.            *)
(*                                                                         *)
(* A follower on the list restarts as a leader and greets the list, then   *)
(* its table; a leader on the list greets both from the worker thread that *)
(* handles the request; a leader that is not on it becomes a follower,     *)
(* which leaves MHELLO unanswered.  Rows of MMNodes are never deleted, and *)
(* outlive a change of role: the file is unlinked only by a new process.   *)
(***************************************************************************)
EXTENDS Integers, FiniteSets

CONSTANTS
  Node,            \* all nodes
  Threads,         \* workers of an agent
  Tries,           \* 5 in the code: greetings of an unanswering leader
  MaxLost,         \* bound on the greetings lost by the network
  None             \* no greetings, no call

Stage == {"given", "table"}
Job == [kind : {"start", "retain"}, stage : Stage, todo : SUBSET Node,
        tries : 0 .. Tries - 1, valid : BOOLEAN]
Call == [to : Node, at : {"sent", "added", "answered"},
         nodes : SUBSET Node]

ASSUME MeshAssumption ==
  /\ IsFiniteSet(Node)
  /\ {Threads, Tries, MaxLost} \subseteq Nat /\ Tries > 0
  /\ None \notin Job \cup Call

VARIABLES
  role,     \* role[n]: "follower", "restarting", "leader", "exited"
  table,    \* table[n]: MMNodes
  job,      \* job[n]: the greetings node n has to make
  call,     \* call[n]: the sendMHello node n is in
  first,    \* the leaders before
  list,     \* the leaders after
  rows,     \* rows[n]: MMNodes before
  told,     \* nodes that received the list
  lost      \* greetings the network lost

lists == <<first, list, rows>>
vars == <<role, table, job, call, lists, told, lost>>

\* Any leaders, any list of new ones, and any tables.  createTables of a leader
\* adds its own row, and a node that never was one has no table.  Earlier changes
\* leave the rows of former leaders; lost greetings, leaders without a row.
Init ==
  /\ first \in (SUBSET Node) \ {{}}
  /\ list \in (SUBSET Node) \ {{}}
  /\ rows \in [Node -> SUBSET Node]
  /\ \A n \in Node : n \in first \/ rows[n] # {} => n \in rows[n]
  /\ role = [n \in Node |-> IF n \in first THEN "leader" ELSE "follower"]
  /\ table = rows
  /\ job = [n \in Node |-> None]
  /\ call = [n \in Node |-> None]
  /\ told = {} /\ lost = 0

\* Mutant: a leader that stays keeps two workers busy.
BusyTwice(n) ==
  Cardinality({m \in Node : call[m] # None /\ call[m].to = n /\ call[m].at = "added"})
    + IF job[n] # None /\ job[n].kind = "retain" THEN 2 ELSE 0

Busy(n) ==     \* workers of n inside a handler
  Cardinality({m \in Node : call[m] # None /\ call[m].to = n /\ call[m].at = "added"})
    + IF job[n] # None /\ job[n].kind = "retain" THEN 1 ELSE 0
-----------------------------------------------------------------------------
(* changeRole of a follower and of a leader; Node::restart; Leader::start  *)

addMNode(n, new) == table' = [table EXCEPT ![n] = @ \cup new]

Greetings(kind, todo, valid) ==
  [kind |-> kind, stage |-> "given", todo |-> todo, tries |-> 0, valid |-> valid]

\* Before it calls changeRole, the handler needs a worker.
ChangeRole(n) ==
  /\ n \notin told /\ told' = told \cup {n}
  /\ job[n] = None /\ Busy(n) < Threads
  /\ \/ role[n] = "follower" /\ n \in list /\ role' = [role EXCEPT ![n] = "restarting"]
        /\ UNCHANGED job
     \/ role[n] = "leader" /\ n \notin list /\ role' = [role EXCEPT ![n] = "follower"]
        /\ UNCHANGED job
     \/ role[n] = "leader" /\ n \in list
        /\ job' = [job EXCEPT ![n] = Greetings("retain", list, TRUE)]
        /\ UNCHANGED role
     \/ role[n] = "follower" /\ n \notin list /\ UNCHANGED <<role, job>>
     \/ role[n] = "exited" /\ UNCHANGED <<role, job>>
  /\ UNCHANGED <<table, call, lists, lost>>

\* The new agent's createTables adds itself; its server is up before it greets.
Start(n) ==
  /\ role[n] = "restarting" /\ role' = [role EXCEPT ![n] = "leader"]
  /\ addMNode(n, {n})
  /\ job' = [job EXCEPT ![n] = Greetings("start", list \ {n}, list = {n})]
  /\ UNCHANGED <<call, lists, told, lost>>

Exit(n) == role' = [role EXCEPT ![n] = "exited"] /\ job' = [job EXCEPT ![n] = None]

\* Between the two loops start() gives up if nobody answered; the second loop
\* greets the table as it is now.
NextLoop(n) ==
  /\ job[n] # None /\ job[n].todo = {} /\ call[n] = None
  /\ \/ job[n].stage = "given" /\ ~job[n].valid /\ Exit(n)
     \/ /\ job[n].stage = "given" /\ job[n].valid
        /\ job' = [job EXCEPT ![n].stage = "table", ![n].todo = table[n] \ {n}]
        /\ UNCHANGED role
     \/ job[n].stage = "table" /\ job' = [job EXCEPT ![n] = None] /\ UNCHANGED role
  /\ UNCHANGED <<table, call, lists, told, lost>>
-----------------------------------------------------------------------------
(* sendMHello and the handler of MHELLO                                    *)

Greet(n) ==
  /\ job[n] # None /\ call[n] = None
  /\ \E k \in job[n].todo : call' = [call EXCEPT ![n] = [to |-> k, at |-> "sent", nodes |-> {}]]
  /\ UNCHANGED <<role, table, job, lists, told, lost>>

\* Mutant: the sender is not added.
AddForgets(n) ==
  /\ call[n] # None /\ call[n].at = "sent" /\ call[n].to # n
  /\ role[call[n].to] = "leader" /\ Busy(call[n].to) < Threads
  /\ call' = [call EXCEPT ![n].at = "added"]
  /\ UNCHANGED <<role, table, job, lists, told, lost>>

\* A worker of the leader that was called adds the sender to its table.
Add(n) ==
  /\ call[n] # None /\ call[n].at = "sent" /\ call[n].to # n
  /\ role[call[n].to] = "leader" /\ Busy(call[n].to) < Threads
  /\ call' = [call EXCEPT ![n].at = "added"]
  /\ addMNode(call[n].to, {n})
  /\ UNCHANGED <<role, job, lists, told, lost>>

\* It then reads the table, which other workers may have changed, and answers.
Reply(n) ==
  /\ call[n] # None /\ call[n].at = "added" /\ role[call[n].to] = "leader"
  /\ call' = [call EXCEPT ![n].at = "answered", ![n].nodes = table[call[n].to]]
  /\ UNCHANGED <<role, table, job, lists, told, lost>>

Done(n, valid) ==      \* with the leader just called
  job' = [job EXCEPT ![n].todo = @ \ {call[n].to}, ![n].tries = 0, ![n].valid = valid]

Answered(n) ==
  /\ call[n] # None /\ call[n].at = "answered"
  /\ addMNode(n, call[n].nodes)
  /\ Done(n, TRUE) /\ call' = [call EXCEPT ![n] = None]
  /\ UNCHANGED <<role, lists, told, lost>>

\* Mutant: an unanswering leader is greeted for ever.
NotAnsweredUncounted(n) ==
  /\ job' = [job EXCEPT ![n].tries = @ + 1] /\ UNCHANGED role
  /\ call' = [call EXCEPT ![n] = None] /\ UNCHANGED <<table, lists, told>>

\* Mutant: every leader has to answer at once.
NotAnsweredStrict(n) ==
  /\ Exit(n) /\ call' = [call EXCEPT ![n] = None] /\ UNCHANGED <<table, lists, told>>

\* start() tries again, and then goes on without; a leader that stays does not
\* mind a silent member of the list, but stops the agent and exits over a
\* silent row of its table.
NotAnswered(n) ==
  /\ \/ /\ job[n].kind = "start" /\ job[n].tries + 1 < Tries /\ UNCHANGED role
        /\ job' = [job EXCEPT ![n].tries = @ + 1]
     \/ /\ \/ job[n].kind = "start" /\ job[n].tries + 1 = Tries
           \/ job[n].kind = "retain" /\ job[n].stage = "given"
        /\ Done(n, job[n].valid) /\ UNCHANGED role
     \/ job[n].kind = "retain" /\ job[n].stage = "table" /\ Exit(n)
  /\ call' = [call EXCEPT ![n] = None] /\ UNCHANGED <<table, lists, told>>

\* Nobody listens, the process ends, or a follower closes without an answer;
\* or the leader that was called is the node itself, whose worker refuses.
Unanswered(n) ==
  /\ call[n] # None
  /\ \/ call[n].at \in {"sent", "added"} /\ role[call[n].to] # "leader"
     \/ call[n].to = n /\ Busy(n) < Threads
  /\ NotAnswered(n) /\ UNCHANGED lost

\* The connection breaks, before the request arrives or before the answer does.
Lose(n) ==
  /\ call[n] # None /\ call[n].at \in {"sent", "answered"} /\ lost < MaxLost
  /\ NotAnswered(n) /\ lost' = lost + 1
-----------------------------------------------------------------------------
Settled ==
  /\ told = Node
  /\ \A n \in Node : job[n] = None /\ call[n] = None /\ role[n] # "restarting"

Step(n) ==
  \/ ChangeRole(n) \/ Start(n) \/ NextLoop(n)
  \/ Greet(n) \/ Add(n) \/ Reply(n) \/ Answered(n) \/ Unanswered(n)

Next == \E n \in Node : Step(n) \/ Lose(n)

Spec == Init /\ [][Next]_vars
-----------------------------------------------------------------------------
\* The values the variables take; a greeting is tried at most Tries times.
TypeOK ==
  /\ role \in [Node -> {"follower", "restarting", "leader", "exited"}]
  /\ table \in [Node -> SUBSET Node]
  /\ job \in [Node -> Job \cup {None}]
  /\ call \in [Node -> Call \cup {None}]
  /\ {first, list, told} \subseteq SUBSET Node
  /\ rows \in [Node -> SUBSET Node]
  /\ lost \in 0 .. MaxLost

\* If no greeting was lost, the leaders that are left after a change of roles
\* all have each other in MMNodes, whatever they knew before and in whatever order
\* they restarted, greeted and gave up on each other: the leaders' broadcasts reach
\* them all, and a row that an earlier loss kept out has been made good.
MeshComplete ==
  Settled /\ lost = 0 =>
    \A m, n \in Node : role[m] = "leader" /\ role[n] = "leader" => m \in table[n]

\* The nodes on the list know of no node but of leaders that stay.
NoStaleRow == \A n \in list : rows[n] \subseteq first \cap list

\* If the network loses nothing and a leader stays, a leader exits, in Leader::start
\* or in Leader::changeRole, only if a node on the list came with a row of a node
\* that was no leader or is to be none any more: no order of the restarts and
\* greetings makes a leader greet, for its life, one that is not up.
ExitNeedsStaleRow ==
  lost = 0 /\ first \cap list # {} /\ NoStaleRow => \A n \in Node : role[n] # "exited"

\* Leaders that call each other from their worker threads never all wait for
\* each other's workers: with two workers one is always left to answer.
NoWaitCycle ==
  (\E n \in Node : job[n] # None) =>
    \E n \in Node :
      /\ job[n] # None
      /\ \/ call[n] = None \/ call[n].at # "sent"
         \/ role[call[n].to] # "leader" \/ Busy(call[n].to) < Threads
=============================================================================
