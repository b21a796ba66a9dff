------------------------ MODULE BandwidthTestProofs ------------------------
(***************************************************************************)
(* Proofs about module BandwidthTest: its invariants hold for any peers,   *)
(* any size of the pipes and any number of changes to the table of nodes.  *)
(*                                                                         *)
(* The three safety properties are about variables that different threads  *)
(* write; the inductive invariant ties each of them to the place where     *)
(* TestTimer is.                                                           *)
(***************************************************************************)
EXTENDS BandwidthTest, TLAPS

\* The places at which a peer is under test.
Testing == {"test", "iperf", "lock", "wait", "read", "save"}

\* A peer is under test; iperf3 runs in the states 0 and 3, assolo_run in 1 and 2.
PlaceInv ==
  /\ pc \in Testing => cur \in Peer
  /\ pc = "iperf" => state \in {0, 3}
  /\ pc \in {"lock", "wait", "read"} => state \in {1, 2}

\* pTest is set while TestTimer polls or reads the process; the object is deleted
\* under its hands only there, and then the process is over; a process runs only
\* until the poll has seen it end.
ProcessInv ==
  /\ pTest => pc \in {"wait", "read"}
  /\ freed => pc \in {"wait", "read"} /\ child # "running"
  /\ child = "running" => pc \in {"lock", "wait"}
  /\ stopping = "stopped" => pc = "ended"

\* How often the measure of a peer in state s may have been saved again.
Budget(s) == IF s = 1 THEN 0 ELSE IF s = 2 THEN 1 ELSE 2

\* Neither the row of a peer nor the state of the test in progress allows more
\* estimates than are left; the row may have been deleted and added since the
\* state was read.
ReuseInv ==
  /\ \A p \in Peer : reuses[p] <= Budget(bandwidthState[p])
  /\ pc \in Testing \ {"save"} => reuses[cur] <= Budget(state)
  /\ pc = "save" /\ ~fresh => state # 1 /\ reuses[cur] + 1 <= Budget(state)

Inv == PlaceInv /\ ProcessInv /\ ReuseInv
-----------------------------------------------------------------------------
\* Each of the actions keeps every variable in its type.
LEMMA TypeStep == TypeOK /\ PlaceInv /\ [Next]_vars => TypeOK'
<1> SUFFICES ASSUME TypeOK, PlaceInv, [Next]_vars PROVE TypeOK' OBVIOUS
<1> USE BandwidthAssumption DEF TypeOK, PlaceInv, Testing, NoRow, table, test, process
<1>1. CASE Wake BY <1>1 DEF Wake, running
<1>2. CASE RoundOver BY <1>2 DEF RoundOver
<1>3. CASE NoStart BY <1>3 DEF NoStart, Failed
<1>4. CASE Iperf BY <1>4 DEF Iperf
<1>5. CASE IperfEnds
  <2>1. cur \in Peer /\ printed[cur] < Pipe /\ printed[cur] + 1 \in 0 .. Pipe
    BY <1>5 DEF IperfEnds
  <2>2. printed' \in [Peer -> 0 .. Pipe]
    BY <1>5, <2>1 DEF IperfEnds
  <2>3. CASE Failed(state) BY <1>5, <2>2, <2>3 DEF IperfEnds, Failed
  <2>4. CASE Succeeded(IF state = 0 THEN 1 ELSE 0, TRUE)
    BY <1>5, <2>2, <2>4 DEF IperfEnds, Succeeded
  <2> QED BY <1>5, <2>3, <2>4 DEF IperfEnds
<1>6. CASE Spawn BY <1>6 DEF Spawn
<1>7. CASE LockTest BY <1>7 DEF LockTest, Failed
<1>8. CASE nowaitproc BY <1>8 DEF nowaitproc
<1>9. CASE Estimated BY <1>9 DEF Estimated, Failed, Succeeded
<1>10. CASE saveBandwidthTest BY <1>10 DEF saveBandwidthTest
<1>11. CASE Stop BY <1>11 DEF Stop
<1>12. CASE KillTest BY <1>12 DEF KillTest
<1>13. CASE JoinTest BY <1>13 DEF JoinTest
<1>14. CASE ChildEnds BY <1>14 DEF ChildEnds
<1>15. ASSUME NEW p \in Peer, getTestBandwidthState(p) PROVE TypeOK'
  BY <1>15 DEF getTestBandwidthState
<1>16. ASSUME NEW p \in Peer, updateNodes(p) PROVE TypeOK'
  BY <1>16 DEF updateNodes
<1>17. ASSUME NEW p \in Peer, PeerRestarts(p) PROVE TypeOK'
  BY <1>17 DEF PeerRestarts
<1>18. CASE UNCHANGED vars BY <1>18 DEF vars
<1> QED BY <1>1, <1>2, <1>3, <1>4, <1>5, <1>6, <1>7, <1>8, <1>9, <1>10, <1>11, <1>12,
      <1>13, <1>14, <1>15, <1>16, <1>17, <1>18 DEF Next

\* The places keep their meaning: Failed goes back to "test", where any state is
\* possible, and only the guards of Iperf and Spawn lead on.
LEMMA PlaceStep == TypeOK /\ PlaceInv /\ [Next]_vars => PlaceInv'
<1> SUFFICES ASSUME TypeOK, PlaceInv, [Next]_vars PROVE PlaceInv' OBVIOUS
<1> USE DEF TypeOK, PlaceInv, Testing, NoRow, table, test, process
<1>1. CASE Wake BY <1>1 DEF Wake, running
<1>2. CASE RoundOver BY <1>2 DEF RoundOver
<1>3. CASE NoStart BY <1>3 DEF NoStart, Failed
<1>4. CASE Iperf BY <1>4 DEF Iperf
<1>5. CASE IperfEnds BY <1>5 DEF IperfEnds, Failed, Succeeded
<1>6. CASE Spawn BY <1>6 DEF Spawn
<1>7. CASE LockTest BY <1>7 DEF LockTest, Failed
<1>8. CASE nowaitproc BY <1>8 DEF nowaitproc
<1>9. CASE Estimated BY <1>9 DEF Estimated, Failed, Succeeded
<1>10. CASE saveBandwidthTest BY <1>10 DEF saveBandwidthTest
<1>11. CASE Stop BY <1>11 DEF Stop
<1>12. CASE KillTest BY <1>12 DEF KillTest
<1>13. CASE JoinTest BY <1>13 DEF JoinTest
<1>14. CASE ChildEnds BY <1>14 DEF ChildEnds
<1>15. ASSUME NEW p \in Peer, getTestBandwidthState(p) PROVE PlaceInv'
  BY <1>15 DEF getTestBandwidthState
<1>16. ASSUME NEW p \in Peer, updateNodes(p) PROVE PlaceInv'
  BY <1>16 DEF updateNodes
<1>17. ASSUME NEW p \in Peer, PeerRestarts(p) PROVE PlaceInv'
  BY <1>17 DEF PeerRestarts
<1>18. CASE UNCHANGED vars BY <1>18 DEF vars
<1> QED BY <1>1, <1>2, <1>3, <1>4, <1>5, <1>6, <1>7, <1>8, <1>9, <1>10, <1>11, <1>12,
      <1>13, <1>14, <1>15, <1>16, <1>17, <1>18 DEF Next

\* pTest, freed and the process stay tied to the place of TestTimer, although
\* KillTest and ChildEnds change them while it is anywhere.
LEMMA ProcessStep == TypeOK /\ ProcessInv /\ [Next]_vars => ProcessInv'
<1> SUFFICES ASSUME TypeOK, ProcessInv, [Next]_vars PROVE ProcessInv' OBVIOUS
<1> USE DEF TypeOK, ProcessInv, table, test, process
<1>1. CASE Wake BY <1>1 DEF Wake, running
<1>2. CASE RoundOver BY <1>2 DEF RoundOver
<1>3. CASE NoStart BY <1>3 DEF NoStart, Failed
<1>4. CASE Iperf BY <1>4 DEF Iperf
<1>5. CASE IperfEnds BY <1>5 DEF IperfEnds, Failed, Succeeded
<1>6. CASE Spawn BY <1>6 DEF Spawn
<1>7. CASE LockTest BY <1>7 DEF LockTest, Failed
<1>8. CASE nowaitproc BY <1>8 DEF nowaitproc
<1>9. CASE Estimated BY <1>9 DEF Estimated, Failed, Succeeded
<1>10. CASE saveBandwidthTest BY <1>10 DEF saveBandwidthTest
<1>11. CASE Stop BY <1>11 DEF Stop
<1>12. CASE KillTest BY <1>12 DEF KillTest
<1>13. CASE JoinTest BY <1>13 DEF JoinTest
<1>14. CASE ChildEnds BY <1>14 DEF ChildEnds
<1>15. ASSUME NEW p \in Peer, getTestBandwidthState(p) PROVE ProcessInv'
  BY <1>15 DEF getTestBandwidthState
<1>16. ASSUME NEW p \in Peer, updateNodes(p) PROVE ProcessInv'
  BY <1>16 DEF updateNodes
<1>17. ASSUME NEW p \in Peer, PeerRestarts(p) PROVE ProcessInv'
  BY <1>17 DEF PeerRestarts
<1>18. CASE UNCHANGED vars BY <1>18 DEF vars
<1> QED BY <1>1, <1>2, <1>3, <1>4, <1>5, <1>6, <1>7, <1>8, <1>9, <1>10, <1>11, <1>12,
      <1>13, <1>14, <1>15, <1>16, <1>17, <1>18 DEF Next

\* A test that was saved again has used up one of the estimates of the state it
\* leaves; updateNodes only ever gives a row the state 0, which iperf3 starts from.
LEMMA ReuseStep == TypeOK /\ PlaceInv /\ ReuseInv /\ [Next]_vars => ReuseInv'
<1> SUFFICES ASSUME TypeOK, PlaceInv, ReuseInv, [Next]_vars PROVE ReuseInv' OBVIOUS
<1> USE DEF TypeOK, PlaceInv, ReuseInv, Testing, Budget, NoRow, table, test, process
<1>1. CASE Wake BY <1>1 DEF Wake, running
<1>2. CASE RoundOver BY <1>2 DEF RoundOver
<1>3. CASE NoStart BY <1>3 DEF NoStart, Failed
<1>4. CASE Iperf BY <1>4 DEF Iperf
<1>5. CASE IperfEnds BY <1>5 DEF IperfEnds, Failed, Succeeded
<1>6. CASE Spawn BY <1>6 DEF Spawn
<1>7. CASE LockTest BY <1>7 DEF LockTest, Failed
<1>8. CASE nowaitproc BY <1>8 DEF nowaitproc
<1>9. CASE Estimated BY <1>9 DEF Estimated, Failed, Succeeded
<1>10. CASE saveBandwidthTest BY <1>10 DEF saveBandwidthTest
<1>11. CASE Stop BY <1>11 DEF Stop
<1>12. CASE KillTest BY <1>12 DEF KillTest
<1>13. CASE JoinTest BY <1>13 DEF JoinTest
<1>14. CASE ChildEnds BY <1>14 DEF ChildEnds
<1>15. ASSUME NEW p \in Peer, getTestBandwidthState(p) PROVE ReuseInv'
  BY <1>15 DEF getTestBandwidthState
<1>16. ASSUME NEW p \in Peer, updateNodes(p) PROVE ReuseInv'
  BY <1>16 DEF updateNodes
<1>17. ASSUME NEW p \in Peer, PeerRestarts(p) PROVE ReuseInv'
  BY <1>17 DEF PeerRestarts
<1>18. CASE UNCHANGED vars BY <1>18 DEF vars
<1> QED BY <1>1, <1>2, <1>3, <1>4, <1>5, <1>6, <1>7, <1>8, <1>9, <1>10, <1>11, <1>12,
      <1>13, <1>14, <1>15, <1>16, <1>17, <1>18 DEF Next

\* The inductive invariant holds in every state of the specification.
LEMMA Invariance == Spec => [](TypeOK /\ Inv)
<1>1. Init => TypeOK /\ Inv
  <2> SUFFICES ASSUME Init PROVE TypeOK /\ Inv OBVIOUS
  <2>1. TypeOK
    <3>1. bandwidthState \in [Peer -> {NoRow, 0, 1, 2, 3}] BY DEF Init
    <3>2. printed \in [Peer -> 0 .. Pipe] /\ changes \in 0 .. MaxChanges
      BY BandwidthAssumption DEF Init
    <3>3. {old, again, fresh, pTest, freed} \subseteq BOOLEAN BY DEF Init
    <3> QED BY <3>1, <3>2, <3>3 DEF Init, TypeOK, NoRow
  <2>2. PlaceInv /\ ProcessInv BY DEF Init, PlaceInv, ProcessInv, Testing
  <2>3. ReuseInv BY DEF Init, ReuseInv, Testing, Budget, NoRow
  <2> QED BY <2>1, <2>2, <2>3 DEF Inv
<1>2. TypeOK /\ Inv /\ [Next]_vars => (TypeOK /\ Inv)'
  BY TypeStep, PlaceStep, ProcessStep, ReuseStep DEF Inv
<1> QED BY <1>1, <1>2, PTL DEF Spec
-----------------------------------------------------------------------------
\* The variables of TestTimer, of the process and of the tables keep to their
\* types; in particular no iperf3 server is written to when its pipe is full.
THEOREM TypeCorrect == Spec => []TypeOK
<1> QED BY Invariance, PTL

\* However often the rows of peers are deleted and added again while estimates run,
\* a measure of iperf3 is saved again at most twice (testBandwidthEstimate).
THEOREM MeasureRenewed == Spec => []MeasuredAgain
<1>1. TypeOK /\ Inv => MeasuredAgain
  <2> SUFFICES ASSUME TypeOK, Inv, NEW p \in Peer PROVE reuses[p] <= 2
    BY DEF MeasuredAgain
  <2>1. reuses[p] \in Nat BY DEF TypeOK
  <2>2. reuses[p] <= Budget(bandwidthState[p]) BY DEF Inv, ReuseInv
  <2> QED BY <2>1, <2>2 DEF Budget
<1> QED BY <1>1, Invariance, PTL

\* testBandwidthEstimate never gives up because pTest is set: the test before it,
\* or stop, has reset it.
THEOREM EstimateAccepted == Spec => []EstimateNotRefused
<1>1. Inv => EstimateNotRefused
  BY DEF Inv, ProcessInv, EstimateNotRefused
<1> QED BY <1>1, Invariance, PTL

\* When Follower::stop has joined the test thread, no assolo_run is left and nothing
\* is left in pTest, also if the process was spawned after stop looked for one.
THEOREM StopLeavesNothing == Spec => []NothingLeftRunning
<1>1. Inv => NothingLeftRunning
  BY DEF Inv, ProcessInv, NothingLeftRunning
<1> QED BY <1>1, Invariance, PTL
=============================================================================
