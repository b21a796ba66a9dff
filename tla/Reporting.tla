----------------------------- MODULE Reporting -----------------------------
(***************************************************************************)
(* What a node tells its leader about its links: the tests that TestTimer  *)
(* saves (storage.cpp), the part of them that sendUpdate puts into a       *)
(* report, and the state that saveState keeps of what has been sent.       *)
(*                                                                         *)
(* The summary of the tests of a peer is "high" when their mean or their   *)
(* variance is above 9, "low" otherwise: that is what the queries tell     *)
(* apart.  With lastMeanL = -1 the condition (last - mean) / last > 10 is  *)
(* mean > 9; once lastMeanL is a mean it never holds, and a division by 0  *)
(* is NULL.  strftime(...) > time compares a text with a number, which is  *)
(* always true: the time of the last update does not matter.               *)
(*                                                                         *)
(* The hardware and the addresses are left out.                            *)
(***************************************************************************)
EXTENDS Integers

CONSTANTS
  Peer,        \* the nodes of the group
  Server,      \* the leaders
  Thing,       \* the things that may be plugged in
  MaxMoves,    \* bound on changes of the server
  None

VARIABLES
  Nodes,       \* the peers with a row
  last,        \* the peers whose lastMeanL is set
  lat, band,   \* the summary of the rows of a peer in Latency and Bandwidth, or None
  iots,        \* the rows of IoTs
  testing,     \* <<kind, peer>>: the test that TestTimer is waiting for, or None
  nodeS,       \* the server
  update,      \* the server that has acknowledged the last update, or None
  report,      \* the report on its way and what was there to report, or None
  answer,      \* the answer to it is POSITIVE
  failures,    \* updates that have failed in a row
  link,        \* what each server has: <<kind, peer>>, things
  moves

tables == <<Nodes, last, lat, band, iots>>
connection == <<nodeS, update, report, answer, failures, moves>>
vars == <<tables, testing, connection, link>>

Empty == [p \in Peer |-> None]

\* sendHello and refreshNodes: all rows go, the nodes of the group come.
refreshNodes(group) ==
  /\ Nodes' = group /\ last' = {} /\ lat' = Empty /\ band' = Empty /\ UNCHANGED iots

Init ==
  /\ Nodes \in SUBSET Peer /\ last = {} /\ lat = Empty /\ band = Empty /\ iots = {}
  /\ testing = None /\ nodeS \in Server /\ update = None /\ report = None
  /\ answer = FALSE /\ failures = 0 /\ moves = 0
  /\ link = [s \in Server |-> {}]
-----------------------------------------------------------------------------
(* TestTimer                                                               *)

\* discover finds the micro:bits that are plugged in; a row is never deleted.
testIoT(t) ==
  /\ testing = None /\ iots' = iots \cup {t}
  /\ UNCHANGED <<Nodes, last, lat, band, testing, connection, link>>

\* getLRLatency, getLRBandwidth: a node that has a row now
Test(kind, p) ==
  /\ testing = None /\ p \in Nodes /\ testing' = <<kind, p>>
  /\ UNCHANGED <<tables, connection, link>>

\* No answer to the pings, or no bandwidth: nothing is saved.
TestFails ==
  /\ testing # None /\ testing' = None
  /\ UNCHANGED <<tables, connection, link>>

\* A row is inserted, for a node that may have gone; the rows of every node that
\* are older than the 21st (6th) of this one are deleted.
Saved(rows, p, s, outdated) ==
  [q \in Peer |-> IF q = p THEN s ELSE IF q \in outdated THEN None ELSE rows[q]]

saveLatencyTest(s, outdated) ==
  /\ testing # None /\ testing[1] = "latency" /\ testing' = None
  /\ lat' = Saved(lat, testing[2], s, outdated)
  /\ UNCHANGED <<Nodes, last, band, iots, connection, link>>

saveBandwidthTest(s, outdated) ==
  /\ testing # None /\ testing[1] = "bandwidth" /\ testing' = None
  /\ band' = Saved(band, testing[2], s, outdated)
  /\ UNCHANGED <<Nodes, last, lat, iots, connection, link>>
-----------------------------------------------------------------------------
(* timer: sendUpdate                                                       *)

getLatency == {p \in Nodes \ last : lat[p] = "high"}
getBandwidth == {p \in Nodes \ last : band[p] = "high"}   \* it reads lastMeanL too

Measured ==
  ({"latency"} \X {p \in Nodes : lat[p] # None}) \cup ({"bandwidth"} \X {p \in Nodes : band[p] # None})

\* setLatency, setBandwidth, setIot
Report == ({"latency"} \X getLatency) \cup ({"bandwidth"} \X getBandwidth) \cup ({"thing"} \X iots)

\* Both branches read the same; only in the second the comment says all data.
sendUpdate ==
  /\ report = None
  /\ report' = [data |-> Report, all |-> nodeS # update, measured |-> Measured]
  /\ answer' = FALSE
  /\ UNCHANGED <<tables, testing, nodeS, update, failures, moves, link>>

\* The handler of UPDATE REPORT: addReportLatency, addReportBandwidth and
\* addReportIot, which replaces the things of the node.
Handler ==
  /\ report # None /\ ~answer /\ answer' = TRUE
  /\ link' = [link EXCEPT ![nodeS] = {d \in @ : d[1] # "thing"} \cup report.data]
  /\ UNCHANGED <<tables, testing, nodeS, update, report, failures, moves>>

\* saveState joins every node that has latencies with any row of Bandwidth; it
\* sets lastMeanL to the mean of now, which may not be what was sent.
saveState ==
  IF \E q \in Nodes : band[q] # None
  THEN last' = last \cup {p \in Nodes : lat[p] # None}
  ELSE UNCHANGED last

Acknowledged ==
  /\ report # None /\ answer /\ saveState
  /\ update' = nodeS /\ report' = None /\ answer' = FALSE /\ failures' = 0
  /\ UNCHANGED <<Nodes, lat, band, iots, testing, nodeS, moves, link>>

\* The connection fails, before or after the handler has run; once more.
UpdateFails ==
  /\ report # None /\ failures = 0 /\ failures' = 1 /\ report' = None /\ answer' = FALSE
  /\ UNCHANGED <<tables, testing, nodeS, update, moves, link>>

\* The second failure, or a leader that is nearer (checkServer): selectServer
Changes(s, group) ==
  /\ \/ report # None /\ failures = 1
     \/ report = None /\ failures = 0
  /\ moves < MaxMoves /\ moves' = moves + 1
  /\ nodeS' = s /\ refreshNodes(group) /\ report' = None /\ answer' = FALSE /\ failures' = 0
  /\ UNCHANGED <<testing, update, link>>

\* Of a notification or of requestNodes
updateNodes(p) ==
  /\ IF p \in Nodes
     THEN /\ Nodes' = Nodes \ {p} /\ last' = last \ {p}
          /\ lat' = [lat EXCEPT ![p] = None] /\ band' = [band EXCEPT ![p] = None]
     ELSE Nodes' = Nodes \cup {p} /\ UNCHANGED <<last, lat, band>>
  /\ UNCHANGED <<iots, testing, connection, link>>
-----------------------------------------------------------------------------
Next ==
  \/ \E t \in Thing : testIoT(t)
  \/ \E p \in Peer : Test("latency", p) \/ Test("bandwidth", p) \/ updateNodes(p)
  \/ TestFails
  \/ \E s \in {"low", "high"}, outdated \in SUBSET Peer :
       saveLatencyTest(s, outdated) \/ saveBandwidthTest(s, outdated)
  \/ sendUpdate \/ Handler \/ Acknowledged \/ UpdateFails
  \/ \E s \in Server, group \in SUBSET Peer : Changes(s, group)

Spec == Init /\ [][Next]_vars
-----------------------------------------------------------------------------
\* "send all data" (follower_connections.cpp:311): once a leader that has not
\* acknowledged the last update has stored a report, it has every link of the
\* group that the node had measured.
AllDataSent == report # None /\ report.all /\ answer => report.measured \subseteq link[nodeS]
=============================================================================
