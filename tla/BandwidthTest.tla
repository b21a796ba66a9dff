--------------------------- MODULE BandwidthTest ---------------------------
(***************************************************************************)
(* The thread of a node that measures the bandwidth to its peers           *)
(* (Follower::TestTimer, testBandwidth, testBandwidthIperf,                *)
(* testBandwidthEstimate) against the thread that stops the agent          *)
(* (Follower::stop) and the handlers that change the table of nodes.       *)
(*                                                                         *)
(* A measure with iperf3 fills the link for a second, so that its result   *)
(* is used again as long as the light estimate of assolo_run is within 30% *)
(* of it: bandwidthState 0 -iperf-> 1 -estimate-> 2 -estimate-> 0, and     *)
(* 3 -iperf-> 0 after an estimate that failed.  An iperf3 server writes to *)
(* a pipe that its agent does not read: when it is full the server blocks, *)
(* and a client that is connected to it waits for ever.                    *)
(*                                                                         *)
(* Values, ports and addresses are left out; of the mean that is compared  *)
(* only whether there is one.  Pings and things are in module Reporting.   *)
(***************************************************************************)
EXTENDS Integers

CONSTANTS
  Peer,         \* the other nodes of the group
  Pipe,         \* the tests whose output fits in the pipe of an iperf3 server
  MaxChanges,   \* bound on additions to and removals from the table of nodes
  None          \* no peer

ASSUME BandwidthAssumption == Pipe \in Nat \ {0} /\ MaxChanges \in Nat /\ None \notin Peer

NoRow == -1     \* what getTestBandwidthState returns for a node without a row

VARIABLES
  bandwidthState,  \* of each peer in Nodes, or NoRow
  tested,          \* the peers with rows in Bandwidth
  reuses,          \* how often the last measure of a peer was saved again
  pc,              \* where TestTimer is
  todo,            \* the peers that are left in this round (ips)
  cur, state, old, \* the peer under test, its local state, and whether last.mean > 0
  again,           \* this is the second attempt
  fresh,           \* the result was measured by iperf3
  child,           \* the assolo_run process: "none", "running" or "over"
  pTest,           \* pTest is not NULL
  freed,           \* stop has deleted the ReadProc that TestTimer polls
  stopping,        \* where Follower::stop is: "no", "kill", "join" or "stopped"
  printed,         \* tests in the pipe of each peer's iperf3 server
  changes

test == <<pc, todo, cur, state, old, again, fresh>>
process == <<child, pTest, freed>>
table == <<bandwidthState, tested, reuses>>
vars == <<table, test, process, stopping, printed, changes>>

Init ==
  /\ bandwidthState \in [Peer -> {0, NoRow}] /\ tested = {} /\ reuses = [p \in Peer |-> 0]
  /\ pc = "sleep" /\ todo = {} /\ cur = None /\ state = NoRow
  /\ old = FALSE /\ again = FALSE /\ fresh = FALSE
  /\ child = "none" /\ pTest = FALSE /\ freed = FALSE
  /\ stopping = "no" /\ printed = [p \in Peer |-> 0] /\ changes = 0

running == stopping = "no"
-----------------------------------------------------------------------------
(* TestTimer                                                               *)

\* sleepFor ends, at once after stop; getLRBandwidth returns the nodes whose last
\* test is long ago, in random order.
Wake ==
  /\ pc = "sleep"
  /\ \/ ~running /\ pc' = "ended" /\ todo' = todo
     \/ running /\ pc' = "next"
        /\ todo' \in SUBSET {p \in Peer : bandwidthState[p] # NoRow}
  /\ UNCHANGED <<table, cur, state, old, again, fresh, process, stopping, printed, changes>>

RoundOver ==
  /\ pc = "next" /\ todo = {} /\ pc' = "sleep"
  /\ UNCHANGED <<table, todo, cur, state, old, again, fresh, process, stopping, printed, changes>>

\* The loop goes on after stop.
getTestBandwidthState(p) ==
  /\ pc = "next" /\ p \in todo /\ todo' = todo \ {p} /\ cur' = p /\ pc' = "test"
  /\ state' = bandwidthState[p] /\ old' = (bandwidthState[p] # NoRow /\ p \in tested)
  /\ again' = FALSE /\ fresh' = FALSE
  /\ UNCHANGED <<table, process, stopping, printed, changes>>

\* testBandwidth returns -1: a second attempt, in the state the first has left
Failed(s) ==
  /\ state' = s /\ again' = TRUE /\ pc' = IF again THEN "next" ELSE "test"
  /\ UNCHANGED <<table, todo, cur, old, fresh, stopping, changes>>

\* testBandwidth returns a bandwidth
Succeeded(s, measured) ==
  /\ state' = s /\ fresh' = measured /\ pc' = "save"
  /\ UNCHANGED <<table, todo, cur, old, again, stopping, changes>>

\* The peer does not answer the request to start, or its row is gone.
NoStart == pc = "test" /\ Failed(state) /\ UNCHANGED <<process, printed>>

\* popen starts a client
Iperf ==
  /\ pc = "test" /\ state \in {0, 3} /\ pc' = "iperf"
  /\ UNCHANGED <<table, todo, cur, state, old, again, fresh, process, stopping, printed, changes>>

\* Mutant: a server that blocks is not noticed.
IperfEndsAnyway ==
  /\ pc = "iperf" /\ printed' = [printed EXCEPT ![cur] = @ + 1]
  /\ Failed(state) \/ Succeeded(IF state = 0 THEN 1 ELSE 0, TRUE)
  /\ UNCHANGED process

\* The client ends unless its server is blocked.
IperfEnds ==
  /\ pc = "iperf" /\ printed[cur] < Pipe
  /\ printed' = [printed EXCEPT ![cur] = @ + 1]
  /\ Failed(state) \/ Succeeded(IF state = 0 THEN 1 ELSE 0, TRUE)
  /\ UNCHANGED process

\* new ReadProc: assolo_run runs, or could not be spawned
Spawn ==
  /\ pc = "test" /\ state \in {1, 2} /\ pc' = "lock"
  /\ child' \in {"running", "over"} /\ freed' = FALSE
  /\ UNCHANGED <<table, todo, cur, state, old, again, fresh, pTest, stopping, printed, changes>>

\* Under mTest: a test in progress would be a reason to give up.
LockTest ==
  /\ pc = "lock" /\ pTest' = TRUE
  /\ IF pTest THEN child' = "none" /\ Failed(3)
     ELSE /\ pc' = "wait"
          /\ UNCHANGED <<table, todo, cur, state, old, again, fresh, child, stopping, changes>>
  /\ UNCHANGED <<freed, printed>>

\* Mutant: a process that has ended is not noticed.
NowaitSpawned ==
  /\ pc = "wait" /\ freed /\ pc' = "read"
  /\ UNCHANGED <<table, todo, cur, state, old, again, fresh, process, stopping, printed, changes>>

\* nowaitproc does not return -1 any more: the process has ended or was never
\* spawned, or the object is deleted and whatever its memory holds ends the loop.
\* While the process runs the loop only sleeps, or spins after stop: no step.
nowaitproc ==
  /\ pc = "wait" /\ (child = "over" \/ freed) /\ pc' = "read"
  /\ UNCHANGED <<table, todo, cur, state, old, again, fresh, process, stopping, printed, changes>>

\* Mutant: an estimate is repeated until it fails.
EstimatedForEver ==
  /\ pc = "read" /\ pTest' = FALSE /\ child' = "none" /\ freed' = FALSE
  /\ (old /\ Succeeded(2, FALSE)) \/ Failed(3)
  /\ UNCHANGED printed

\* Mutant: pTest is not reset.
KeepsPTest ==
  /\ pc = "read" /\ child' = "none" /\ freed' = FALSE /\ UNCHANGED pTest
  /\ \/ old /\ Succeeded(IF state = 1 THEN 2 ELSE 0, FALSE)
     \/ Failed(3)
  /\ UNCHANGED printed

\* readoutput and the file it names; then pTest is deleted under mTest.  Without
\* an old result the quotient is infinite or no number, and the estimate fails.
Estimated ==
  /\ pc = "read" /\ pTest' = FALSE /\ child' = "none" /\ freed' = FALSE
  /\ \/ old /\ Succeeded(IF state = 1 THEN 2 ELSE 0, FALSE)
     \/ Failed(3)
  /\ UNCHANGED printed

\* The row of Bandwidth is inserted even if the node has left the table; the rows
\* of other peers that are older than the sixth of this one are deleted.
saveBandwidthTest ==
  /\ pc = "save" /\ pc' = "sleep"
  /\ \E outdated \in SUBSET (tested \ {cur}) : tested' = (tested \cup {cur}) \ outdated
  /\ bandwidthState' = [bandwidthState EXCEPT ![cur] = IF @ = NoRow THEN NoRow ELSE state]
  /\ reuses' = [reuses EXCEPT ![cur] = IF fresh THEN 0 ELSE @ + 1]
  /\ UNCHANGED <<todo, cur, state, old, again, fresh, process, stopping, printed, changes>>
-----------------------------------------------------------------------------
(* Follower::stop                                                          *)

\* running is false, the sleeper wakes everyone, the daemons are deleted.
Stop ==
  /\ stopping = "no" /\ stopping' = "kill"
  /\ UNCHANGED <<table, test, process, printed, changes>>

\* Under mTest: the destructor kills the process of a test in progress.
KillTest ==
  /\ stopping = "kill" /\ stopping' = "join" /\ pTest' = FALSE
  /\ freed' = (freed \/ pTest) /\ child' = IF pTest THEN "over" ELSE child
  /\ UNCHANGED <<table, test, printed, changes>>

\* Mutant: the test thread is not joined.
DetachTest ==
  /\ stopping = "join" /\ stopping' = "stopped"
  /\ UNCHANGED <<table, test, process, printed, changes>>

JoinTest ==
  /\ stopping = "join" /\ pc = "ended" /\ stopping' = "stopped"
  /\ UNCHANGED <<table, test, process, printed, changes>>
-----------------------------------------------------------------------------
(* The environment                                                         *)

\* assolo_run ends (module Assolo).
ChildEnds ==
  /\ child = "running" /\ child' = "over"
  /\ UNCHANGED <<table, test, pTest, freed, stopping, printed, changes>>

\* updateNodes, called by the timer or by the handler of a notification
updateNodes(p) ==
  /\ stopping # "stopped" /\ changes < MaxChanges /\ changes' = changes + 1
  /\ \/ bandwidthState[p] = NoRow /\ bandwidthState' = [bandwidthState EXCEPT ![p] = 0]
        /\ UNCHANGED tested
     \/ bandwidthState[p] # NoRow /\ bandwidthState' = [bandwidthState EXCEPT ![p] = NoRow]
        /\ tested' = tested \ {p}
  /\ UNCHANGED <<reuses, test, process, stopping, printed>>

\* The agent of the peer is replaced: its new iperf3 server has an empty pipe.
PeerRestarts(p) ==
  /\ printed[p] = Pipe /\ printed' = [printed EXCEPT ![p] = 0]
  /\ UNCHANGED <<table, test, process, stopping, changes>>
-----------------------------------------------------------------------------
Next ==
  \/ Wake \/ RoundOver \/ NoStart \/ Iperf \/ IperfEnds \/ Spawn \/ LockTest \/ nowaitproc
  \/ Estimated \/ saveBandwidthTest \/ Stop \/ KillTest \/ JoinTest \/ ChildEnds
  \/ \E p \in Peer : getTestBandwidthState(p) \/ updateNodes(p) \/ PeerRestarts(p)

Thread ==
  \/ Wake \/ RoundOver \/ NoStart \/ IperfEnds \/ Spawn \/ LockTest \/ nowaitproc
  \/ Estimated \/ saveBandwidthTest \/ \E p \in Peer : getTestBandwidthState(p)

Spec == Init /\ [][Next]_vars

\* Both threads go on, and a session of assolo_run ends.
FairSpec == Spec /\ WF_vars(Thread) /\ WF_vars(KillTest \/ JoinTest) /\ WF_vars(ChildEnds)
-----------------------------------------------------------------------------
\* Where the threads are, and what the tables hold.
TypeOK ==
  /\ bandwidthState \in [Peer -> {NoRow, 0, 1, 2, 3}] /\ tested \subseteq Peer
  /\ reuses \in [Peer -> Nat] /\ printed \in [Peer -> 0 .. Pipe]
  /\ pc \in {"sleep", "next", "test", "iperf", "lock", "wait", "read", "save", "ended"}
  /\ todo \subseteq Peer /\ cur \in Peer \cup {None} /\ state \in {NoRow, 0, 1, 2, 3}
  /\ {old, again, fresh, pTest, freed} \subseteq BOOLEAN
  /\ child \in {"none", "running", "over"}
  /\ stopping \in {"no", "kill", "join", "stopped"} /\ changes \in 0 .. MaxChanges

\* A measure is saved again at most twice before iperf3 measures anew, whatever
\* happens to the peer's row during the half minute that an estimate takes.
MeasuredAgain == \A p \in Peer : reuses[p] <= 2

\* An estimate is never refused because of an earlier one: pTest is NULL again
\* whether the test or stop has deleted the process.
EstimateNotRefused == pc = "lock" => ~pTest

\* When the agent has stopped, no assolo_run is left running, although one may be
\* spawned just after stop has looked for it.
NothingLeftRunning == stopping = "stopped" => child # "running" /\ ~pTest

\* stop returns, unless the test is connected to a server that is blocked.
StopReturns ==
  stopping = "kill" ~> (stopping = "stopped" \/ (pc = "iperf" /\ printed[cur] = Pipe))
=============================================================================
