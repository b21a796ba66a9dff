----------------------------- MODULE Membership -----------------------------
(***************************************************************************)
(* Which leader monitors which follower, and which peers a follower knows: *)
(* Follower::selectServer, timer and checkServer (follower.cpp), HELLO,    *)
(* UPDATE and GET NODES (follower_connections.cpp, leader_connections.cpp),*)
(* Leader::timerFun (leader.cpp) and the tables Nodes and MNodes.          *)
(*                                                                         *)
(* The leaders stay leaders and know each other (module LeaderMesh); a     *)
(* leader's row for itself or for another leader is left out.              *)
(***************************************************************************)
EXTENDS Integers, FiniteSets

CONSTANTS
  Ldr, Flw,      \* the leaders and the followers
  Networks,      \* the leaders and the followers that may take part together
  Every,         \* 10 in the code: turns of the timer from one check to the next
  PurgeEvery,    \* 10 in the code: turns of a leader from one purge to the next
  MaxMoves,      \* bound on the changes to a closer leader
  MaxLost,       \* bound on the requests, answers and notices that are lost
  None

ASSUME MembershipAssumption ==
  Every \in Nat /\ Every > 1 /\ PurgeEvery \in Nat /\ PurgeEvery > 0
  /\ {MaxMoves, MaxLost} \subseteq Nat /\ None \notin Ldr
  /\ Networks \subseteq ((SUBSET Ldr) \ {{}}) \X SUBSET Flw

VARIABLES
  mesh,     \* the leaders of this network: MMNodes of each of them
  fpc,      \* fpc[f]: where the timer thread of follower f is
  iter,     \* iter[f] modulo Every; tries[f]: updates that failed in this turn
  tries,
  known,    \* known[f]: Node::mNodes
  cand,     \* cand[f]: res of selectServer
  srv,      \* srv[f]: nodeS
  answer,   \* answer[f]: the nodes in an answer on its way to f
  peers,    \* peers[f]: the table Nodes
  by,       \* by[l][f]: monitoredBy in the row of f in MNodes of l, if there is one
  old,      \* old[l]: followers of l whose row has not been renewed for long
  lpc,      \* lpc[l]: where timerFun of leader l is; turn[l]: its iter, modulo PurgeEvery
  turn,
  report,   \* report[l]: the followers in the report that l is sending
  notices,  \* NOTIFY UPDATE NODES on their way
  moves, lost

fvars == <<fpc, iter, tries, known, cand, srv, answer>>
lvars == <<by, old, lpc, turn, report>>
vars == <<mesh, fvars, peers, lvars, notices, moves, lost>>

\* The followers that take part are about to start, with one leader to contact.
Init ==
  /\ \E network \in Networks :
       /\ mesh = network[1]
       /\ fpc = [f \in Flw |-> IF f \in network[2] THEN "boot" ELSE "exited"]
  /\ iter = [f \in Flw |-> 0] /\ tries = [f \in Flw |-> 0]
  /\ known \in [Flw -> {{l} : l \in mesh}] /\ cand = [f \in Flw |-> {}]
  /\ srv = [f \in Flw |-> None] /\ answer = [f \in Flw |-> {}]
  /\ peers = [f \in Flw |-> {}]
  /\ by = [l \in Ldr |-> [f \in Flw |-> None]] /\ old = [l \in Ldr |-> {}]
  /\ lpc = [l \in Ldr |-> "turn"] /\ turn = [l \in Ldr |-> 0] /\ report = [l \in Ldr |-> {}]
  /\ notices = {} /\ moves = 0 /\ lost = 0

Own(l) == {f \in Flw : by[l][f] = l}         \* LeaderStorage::getNodes
Goto(f, place) == fpc' = [fpc EXCEPT ![f] = place]
Lose == lost < MaxLost /\ lost' = lost + 1

\* Mutant: the row of a node that is known keeps its time.
AddsOnce(l, f) ==
  by' = [by EXCEPT ![l][f] = l] /\ old' = [old EXCEPT ![l] = IF by[l][f] = l THEN @ ELSE @ \ {f}]

\* A row that leader l monitors itself, and that is new
addNode(l, f) ==
  by' = [by EXCEPT ![l][f] = l] /\ old' = [old EXCEPT ![l] = @ \ {f}]

\* The handler of UPDATE REPORT
Register(f) == addNode(srv[f], f) /\ UNCHANGED <<lpc, turn, report>>

\* The handler of HELLO adds the node and tells all its nodes, the new one
\* included, of the new one.
Welcome(l, f) ==
  /\ addNode(l, f)
  /\ notices' = notices \cup {[to |-> g, node |-> f, op |-> "add"] : g \in Own(l) \cup {f}}
-----------------------------------------------------------------------------
(* Follower::selectServer.  It is called by start ("boot"), after failed   *)
(* updates ("reselect") and by the check of the server ("move").           *)

Choosing == {"boot", "reselect", "move"}
Hello(why) == CASE why = "boot" -> "bootHello" [] why = "reselect" -> "reselectHello"
                [] why = "move" -> "moveHello"
Answer(hello) == CASE hello = "bootHello" -> "bootAnswer"
                   [] hello = "reselectHello" -> "reselectAnswer"
                   [] hello = "moveHello" -> "moveAnswer"
Hellos == {Hello(why) : why \in Choosing}
Answers == {Answer(h) : h \in Hellos}

\* Where the timer goes on: to GET NODES, as iter was reset; to a new turn.
After(why) == IF why \in {"reselect", "reselectHello", "reselectAnswer"} THEN "ask" ELSE "update"

\* A leader tells all leaders, and the node keeps the list.
requestMNodes(f) == known' = [known EXCEPT ![f] = mesh]

\* A leader it knows answers, or the candidates are those it knows.
selectServer(f) ==
  /\ fpc[f] \in Choosing /\ Goto(f, Hello(fpc[f]))
  /\ \/ requestMNodes(f) /\ cand' = [cand EXCEPT ![f] = mesh] /\ UNCHANGED lost
     \/ Lose /\ cand' = [cand EXCEPT ![f] = known[f]] /\ UNCHANGED known
  /\ UNCHANGED <<mesh, iter, tries, srv, answer, peers, lvars, notices, moves>>

\* The closest candidate is any of them: nodeS is set before it is greeted.  The
\* answer has the nodes of the leader, the new one included.
sendHello(f) ==
  /\ fpc[f] \in Hellos /\ cand[f] # {}
  /\ \E l \in cand[f] : srv' = [srv EXCEPT ![f] = l]
  /\ LET l == srv'[f] IN
     \/ /\ Welcome(l, f)
        /\ \/ /\ Goto(f, Answer(fpc[f])) /\ UNCHANGED <<cand, lost>>
              /\ answer' = [answer EXCEPT ![f] = Own(l) \cup {f}]
           \/ Lose /\ cand' = [cand EXCEPT ![f] = @ \ {l}] /\ UNCHANGED <<fpc, answer>>
     \/ /\ Lose /\ cand' = [cand EXCEPT ![f] = @ \ {l}]
        /\ UNCHANGED <<fpc, answer, by, old, notices>>
  /\ UNCHANGED <<mesh, iter, tries, known, peers, lpc, turn, report, moves>>

\* refreshNodes replaces the table by the list, which may be older than notices
\* that were handled in the meantime.
refreshNodes(f) ==
  /\ fpc[f] \in Answers /\ Goto(f, After(fpc[f]))
  /\ peers' = [peers EXCEPT ![f] = answer[f]] /\ answer' = [answer EXCEPT ![f] = {}]
  /\ cand' = [cand EXCEPT ![f] = {}]
  /\ UNCHANGED <<mesh, iter, tries, known, srv, lvars, notices, moves, lost>>

\* No candidate answered: start exits, the timer goes on with the last nodeS.
NoServer(f) ==
  /\ fpc[f] \in Hellos /\ cand[f] = {}
  /\ Goto(f, IF fpc[f] = "bootHello" THEN "exited" ELSE After(fpc[f]))
  /\ UNCHANGED <<mesh, iter, tries, known, cand, srv, answer, peers, lvars, notices, moves, lost>>
-----------------------------------------------------------------------------
(* Follower::timer                                                         *)

\* The turn ends with a sleep.
NextTurn(f) == Goto(f, "update") /\ iter' = [iter EXCEPT ![f] = (@ + 1) % Every]

\* After the update: GET NODES every Every turns, the check of the leader in the
\* turn before, or nothing.
sendUpdate(f) ==
  /\ fpc[f] = "update" /\ Register(f) /\ tries' = [tries EXCEPT ![f] = 0]
  /\ IF iter[f] \in {0, Every - 1}
     THEN Goto(f, IF iter[f] = 0 THEN "ask" ELSE "check") /\ UNCHANGED iter
     ELSE NextTurn(f)
  /\ UNCHANGED <<mesh, known, cand, srv, answer, peers, notices, moves, lost>>

\* Mutant: updates are repeated without limit.
UpdateRetries(f) ==
  /\ fpc[f] = "update" /\ Lose
  /\ Register(f) \/ UNCHANGED lvars
  /\ tries' = [tries EXCEPT ![f] = @ + 1]
  /\ UNCHANGED <<mesh, fpc, iter, known, cand, srv, answer, peers, notices, moves>>

\* The request or its answer is lost; after the second time another leader is
\* looked for, and iter starts again.
UpdateFails(f) ==
  /\ fpc[f] = "update" /\ Lose
  /\ Register(f) \/ UNCHANGED lvars
  /\ \/ tries[f] = 0 /\ tries' = [tries EXCEPT ![f] = 1] /\ UNCHANGED <<fpc, iter>>
     \/ tries[f] = 1 /\ tries' = [tries EXCEPT ![f] = 0] /\ Goto(f, "reselect")
        /\ iter' = [iter EXCEPT ![f] = 0]
  /\ UNCHANGED <<mesh, known, cand, srv, answer, peers, notices, moves>>

\* GET NODES; a failure is an empty list.
requestNodes(f) ==
  /\ fpc[f] = "ask" /\ Goto(f, "apply")
  /\ \/ answer' = [answer EXCEPT ![f] = Own(srv[f])] /\ UNCHANGED lost
     \/ Lose /\ answer' = [answer EXCEPT ![f] = {}]
  /\ UNCHANGED <<mesh, iter, tries, known, cand, srv, peers, lvars, notices, moves>>

\* Mutant: nodes that are gone are not removed.
AppliesAdditions(f) ==
  /\ fpc[f] = "apply" /\ NextTurn(f)
  /\ peers' = [peers EXCEPT ![f] = @ \cup answer[f]] /\ answer' = [answer EXCEPT ![f] = {}]
  /\ UNCHANGED <<mesh, tries, known, cand, srv, lvars, notices, moves, lost>>

\* The nodes of the answer are added, all others are removed.
updateNodes(f) ==
  /\ fpc[f] = "apply" /\ NextTurn(f)
  /\ peers' = [peers EXCEPT ![f] = answer[f]] /\ answer' = [answer EXCEPT ![f] = {}]
  /\ UNCHANGED <<mesh, tries, known, cand, srv, lvars, notices, moves, lost>>

\* The leader tells all leaders; another one may be closer.  Without an answer
\* checkServer reads the first element of an empty vector, which may end the
\* process; selectServer of an empty vector changes nothing.
checkServer(f) ==
  /\ fpc[f] = "check"
  /\ \/ requestMNodes(f) /\ NextTurn(f) /\ UNCHANGED <<moves, lost>>
     \/ /\ requestMNodes(f) /\ UNCHANGED lost
        /\ moves < MaxMoves /\ moves' = moves + 1
        /\ Goto(f, "move") /\ iter' = [iter EXCEPT ![f] = 0]
     \/ Lose /\ NextTurn(f) /\ UNCHANGED <<known, moves>>
     \/ Lose /\ Goto(f, "exited") /\ UNCHANGED <<known, iter, moves>>
  /\ UNCHANGED <<mesh, tries, cand, srv, answer, peers, lvars, notices>>

Follower(f) ==
  \/ selectServer(f) \/ sendHello(f) \/ refreshNodes(f) \/ NoServer(f)
  \/ sendUpdate(f) \/ UpdateFails(f) \/ requestNodes(f) \/ updateNodes(f)
  \/ checkServer(f)
-----------------------------------------------------------------------------
(* Leader::timerFun                                                        *)

\* It parses its own request instead of the answer, and so fails for every node
\* that it asks: what it returns are the nodes that have not sent an update.
sendRequestReport(l) == old[l]

\* All nodes are told to remove the ones that were asked.
sendRemoveNodes(l, ips) ==
  notices' = notices \cup {[to |-> g, node |-> f, op |-> "rem"] : g \in Own(l), f \in ips}

\* They keep being told until the row is deleted.  The report is read next.
timerFun(l) ==
  /\ l \in mesh /\ lpc[l] = "turn" /\ lpc' = [lpc EXCEPT ![l] = "report"]
  /\ sendRemoveNodes(l, sendRequestReport(l))
  /\ report' = [report EXCEPT ![l] = Own(l)]
  /\ UNCHANGED <<mesh, fvars, peers, by, old, turn, moves, lost>>

\* Mutant: old rows are kept.
KeepOldNodes(l, rows) == rows

\* removeOldNodes in every PurgeEvery-th turn; only rows that l monitors itself
\* are ever deleted.
removeOldNodes(l, rows) ==
  IF turn[l] = 0 THEN [f \in Flw |-> IF rows[f] = l /\ f \in old[l] THEN None ELSE rows[f]]
  ELSE rows

\* Leader k takes the sender of a report for the leader of every node in it.
addReport(k, l) == [f \in Flw |-> IF f \in report[l] THEN l ELSE by[k][f]]

\* The report goes to one other leader; one that does not answer is passed over.
sendMReport(l) ==
  /\ lpc[l] = "report" /\ lpc' = [lpc EXCEPT ![l] = "turn"]
  /\ turn' = [turn EXCEPT ![l] = (@ + 1) % PurgeEvery] /\ report' = [report EXCEPT ![l] = {}]
  /\ \E K \in SUBSET (mesh \ {l}) :
       /\ by' = [k \in Ldr |-> IF k = l THEN removeOldNodes(l, by[l])
                               ELSE IF k \in K THEN addReport(k, l) ELSE by[k]]
       /\ old' = [k \in Ldr |-> old[k] \cap {f \in Flw : by'[k][f] = k}]
       /\ \/ Cardinality(K) = 1 /\ UNCHANGED lost
          \/ K = {} /\ mesh # {l} /\ Lose
          \/ mesh = {l} /\ UNCHANGED lost
  /\ UNCHANGED <<mesh, fvars, peers, notices, moves>>

Leader(l) == timerFun(l) \/ sendMReport(l)

\* Three heartbeats pass without an update.  A follower that has l as its
\* server sends several in that time.
Age(l, f) ==
  /\ f \in Own(l) \ old[l] /\ (srv[f] # l \/ fpc[f] = "exited")
  /\ old' = [old EXCEPT ![l] = @ \cup {f}]
  /\ UNCHANGED <<mesh, fvars, peers, by, lpc, turn, report, notices, moves, lost>>

\* A worker of the follower handles a notice; the connections are independent,
\* so notices are handled in any order.
Notice(f) ==
  /\ \E m \in notices :
       /\ m.to = f /\ notices' = notices \ {m}
       /\ \/ /\ fpc[f] # "exited" /\ UNCHANGED lost
             /\ peers' = [peers EXCEPT ![f] = IF m.op = "add" THEN @ \cup {m.node} ELSE @ \ {m.node}]
          \/ fpc[f] = "exited" /\ UNCHANGED <<peers, lost>>
          \/ Lose /\ UNCHANGED peers
  /\ UNCHANGED <<mesh, fvars, lvars, moves>>

Next ==
  \/ \E f \in Flw : Follower(f) \/ Notice(f) \/ \E l \in Ldr : Age(l, f)
  \/ \E l \in Ldr : Leader(l)

Spec == Init /\ [][Next]_vars

\* The timers run, notices arrive or get lost, and time passes.
FairSpec ==
  /\ Spec
  /\ \A f \in Flw : WF_vars(Follower(f)) /\ WF_vars(Notice(f))
  /\ \A l \in Ldr : WF_vars(Leader(l)) /\ \A f \in Flw : WF_vars(Age(l, f))
-----------------------------------------------------------------------------
\* The values the variables take; an update is tried twice, a follower has a leader
\* to send to from its first HELLO on, and only a row that a leader monitors itself
\* is counted as old.
TypeOK ==
  /\ mesh \in SUBSET Ldr
  /\ fpc \in [Flw -> Choosing \cup Hellos \cup Answers
                \cup {"update", "ask", "apply", "check", "exited"}]
  /\ iter \in [Flw -> 0 .. Every - 1] /\ tries \in [Flw -> 0 .. 1]
  /\ known \in [Flw -> SUBSET Ldr] /\ cand \in [Flw -> SUBSET Ldr]
  /\ srv \in [Flw -> Ldr \cup {None}]
  /\ \A f \in Flw : srv[f] = None => fpc[f] \in {"boot", "bootHello", "exited"}
  /\ answer \in [Flw -> SUBSET Flw] /\ peers \in [Flw -> SUBSET Flw]
  /\ by \in [Ldr -> [Flw -> Ldr \cup {None}]]
  /\ old \in [Ldr -> SUBSET Flw] /\ \A l \in Ldr : old[l] \subseteq Own(l)
  /\ lpc \in [Ldr -> {"turn", "report"}] /\ turn \in [Ldr -> 0 .. PurgeEvery - 1]
  /\ report \in [Ldr -> SUBSET Flw]
  /\ notices \subseteq [to : Flw, node : Flw, op : {"add", "rem"}]
  /\ moves \in 0 .. MaxMoves /\ lost \in 0 .. MaxLost

\* removeOldNodes spares a follower that its leader has heard from: a row is
\* deleted when its follower sends to another leader or is gone or, after a loss,
\* has chosen this leader again and not reached it since (selectServer sets nodeS
\* before the HELLO, and keeps it when nobody answers).
PurgeSparesReporting ==
  [][\A l \in Ldr, f \in Flw :
       by[l][f] = l /\ by'[l][f] = None /\ srv[f] = l =>
         \/ fpc[f] = "exited"
         \/ lost > 0 /\ fpc[f] \notin Answers \cup {"check", "move"}]_vars

\* Once followers stop moving, every follower that runs is monitored by the
\* leader it reports to and by no other, for good: the rows and the reports of
\* former leaders, which still claim it, die out.
OneMonitor ==
  <>[](\A f \in Flw : fpc[f] # "exited" => {l \in Ldr : f \in Own(l)} = {srv[f]})

\* Once followers stop moving and messages stop being lost, every follower has
\* exactly the nodes of its leader in its table, whatever notices were lost or
\* overtook each other and whatever answers were out of date when they arrived.
PeersConverge ==
  <>[](\A f \in Flw : fpc[f] # "exited" => srv[f] # None /\ peers[f] = Own(srv[f]))
=============================================================================
