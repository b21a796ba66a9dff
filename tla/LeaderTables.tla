---------------------------- MODULE LeaderTables ----------------------------
(***************************************************************************)
(* What the leaders know of the network (leader_storage.cpp): the rows of  *)
(* MNodes and the latencies in MLinks.  A node's updates reach its leader, *)
(* each leader fills in the links between groups (complete) and sends what *)
(* it holds about its own nodes, estimates included, to another leader.    *)
(*                                                                         *)
(* The network stays as it is: every node has its leader and every link    *)
(* its latency, so that what a table should say is known.  Of a bandwidth  *)
(* only its effect on the latency column is modelled; the times of a link, *)
(* which no query in use reads for latencies, are left out.                *)
(***************************************************************************)
EXTENDS Integers

CONSTANTS
  Ldr, Flw,       \* the leaders and the other nodes
  Home(_),        \* the leader that a node reports to; a leader reports to itself
  Latency(_, _),  \* the latency of a link within a group or between leaders
  Tests,          \* <<a, b, kind>>: node a tests its link to b, once
  MaxPurges,      \* bound on the purges that find an old row
  NoRow, Null     \* no row in the table; SQL's NULL

Node == Ldr \cup Flw

\* The links that are tested: within a group, and between leaders.
Near(a, b) == a # b /\ (Home(a) = Home(b) \/ {a, b} \subseteq Ldr)

ASSUME TablesAssumption ==
  /\ \A n \in Node : Home(n) \in Ldr /\ (n \in Ldr => Home(n) = n)
  /\ \A a, b \in Node : Near(a, b) => Latency(a, b) \in Nat /\ Latency(a, b) = Latency(b, a)
  /\ Tests \subseteq Node \X Node \X {"latency", "bandwidth"} /\ MaxPurges \in Nat
  /\ \A t \in Tests : Near(t[1], t[2])
  /\ NoRow # Null /\ NoRow \notin Ldr \cup Nat /\ Null \notin Nat

VARIABLES
  by,       \* by[w][n]: monitoredBy of node n in MNodes of leader w
  link,     \* link[w][a][b]: meanL in MLinks of w
  done,     \* the tests that were reported
  doomed,   \* doomed[w]: the nodes removeOldNodes has found
  purges

vars == <<by, link, done, doomed, purges>>

\* The handler of HELLO has added each node to its leader's table; no links yet.
Init ==
  /\ by = [w \in Ldr |-> [n \in Node |-> IF Home(n) = w THEN w ELSE NoRow]]
  /\ link = [w \in Ldr |-> [a \in Node |-> [b \in Node |-> NoRow]]]
  /\ done = {} /\ doomed = [w \in Ldr |-> {}] /\ purges = 0

Own(w) == {n \in Node : by[w][n] = w}                       \* getNodes
Rows(w) == {n \in Node : by[w][n] # NoRow}                  \* getAllNodes
-----------------------------------------------------------------------------
\* addTest for a latency and its mirror image ("because is symmetric")
addReportLatency(t, a, b, ms) == [t EXCEPT ![a][b] = ms, ![b][a] = ms]

\* addTest for a bandwidth: a new row has 0 for the latency, an old one keeps it.
addReportBandwidth(t, a, b) == [t EXCEPT ![a][b] = IF @ = NoRow THEN 0 ELSE @]

\* The handler of UPDATE REPORT: the node is (again) one of the leader's own.
Update(a, b, kind) ==
  /\ <<a, b, kind>> \in Tests \ done /\ done' = done \cup {<<a, b, kind>>}
  /\ LET w == Home(a) IN
     /\ by' = [by EXCEPT ![w][a] = w]
     /\ link' = [link EXCEPT ![w] = IF kind = "latency" THEN addReportLatency(@, a, b, Latency(a, b))
                                    ELSE addReportBandwidth(@, a, b)]
  /\ UNCHANGED <<doomed, purges>>

\* An update without new tests only renews the row.
Renew(a) ==
  /\ by[Home(a)][a] # Home(a) /\ by' = [by EXCEPT ![Home(a)][a] = Home(a)]
  /\ UNCHANGED <<link, done, doomed, purges>>
-----------------------------------------------------------------------------
(* complete(): links between a node and a leader, or two nodes, of         *)
(* different groups                                                        *)

meanL(w, a, b) == IF link[w][a][b] = NoRow THEN Null ELSE link[w][a][b]

Plus(x, y) == IF x = Null \/ y = Null THEN Null ELSE x + y

\* Mutant: an estimate is made from an estimate.
EstimateDrifts(w, a, b) ==
  Plus(Plus(meanL(w, by[w][a], by[w][b]), meanL(w, a, by[w][a])), meanL(w, a, b))

\* A leader reaches the node through the node's leader, two nodes through both.
Estimate(w, a, b) ==
  CASE a \in Ldr -> Plus(meanL(w, a, by[w][b]), meanL(w, by[w][b], b))
    [] b \in Ldr -> Plus(meanL(w, a, by[w][a]), meanL(w, by[w][a], b))
    [] OTHER     -> Plus(Plus(meanL(w, by[w][a], by[w][b]), meanL(w, a, by[w][a])),
                         meanL(w, by[w][b], b))

\* Mutant: nodes of one group are estimated too.
BetweenAny(w, a, b) == {a, b} \subseteq Rows(w) /\ ~({a, b} \subseteq Ldr)

Between(w, a, b) ==
  {a, b} \subseteq Rows(w) /\ a # b /\ by[w][a] # by[w][b] /\ ~({a, b} \subseteq Ldr)

\* Mutant: only the pairs without a row are estimated.
CompletesMissing(w) ==
  /\ link' = [link EXCEPT ![w] = [a \in Node |-> [b \in Node |->
                IF Between(w, a, b) /\ link[w][a][b] = NoRow THEN Estimate(w, a, b) ELSE link[w][a][b]]]]
  /\ UNCHANGED <<by, done, doomed, purges>>

complete(w) ==
  /\ link' = [link EXCEPT ![w] = [a \in Node |-> [b \in Node |->
                IF Between(w, a, b) THEN Estimate(w, a, b) ELSE link[w][a][b]]]]
  /\ UNCHANGED <<by, done, doomed, purges>>
-----------------------------------------------------------------------------
(* getReport, sendMReport and the handler of SET REPORT                    *)

\* The links of an own node to nodes that still have a row; NULL is sent as 0.
Sent(w, a, b) == a \in Own(w) /\ b \in Rows(w) /\ link[w][a][b] # NoRow
Value(w, a, b) == IF link[w][a][b] = Null THEN 0 ELSE link[w][a][b]

\* Mutant: a latency is stored in one direction.
ReportOneWay(w, k) ==
  /\ k # w
  /\ by' = [by EXCEPT ![k] = [n \in Node |-> IF n \in Own(w) THEN w ELSE @[n]]]
  /\ link' = [link EXCEPT ![k] = [a \in Node |-> [b \in Node |->
                IF Sent(w, a, b) THEN Value(w, a, b) ELSE link[k][a][b]]]]
  /\ UNCHANGED <<done, doomed, purges>>

\* addReport of the nodes, then of each node's latencies in both directions.  (Of
\* two own nodes the one that comes last decides; by GroupSymmetric they agree.)
MReport(w, k) ==
  /\ k # w
  /\ by' = [by EXCEPT ![k] = [n \in Node |-> IF n \in Own(w) THEN w ELSE @[n]]]
  /\ link' = [link EXCEPT ![k] = [a \in Node |-> [b \in Node |->
                IF Sent(w, a, b) THEN Value(w, a, b)
                ELSE IF Sent(w, b, a) THEN Value(w, b, a) ELSE link[k][a][b]]]]
  /\ UNCHANGED <<done, doomed, purges>>
-----------------------------------------------------------------------------
(* removeOldNodes: it reads which rows are old, deletes the rows that are  *)
(* old by then, and at last the links of the nodes it has read.  No row is *)
(* exempt, the leader's own neither.                                       *)

getMLRHardware(w) ==
  /\ doomed[w] = {} /\ purges < MaxPurges /\ purges' = purges + 1
  /\ \E old \in (SUBSET Own(w)) \ {{}} : doomed' = [doomed EXCEPT ![w] = old]
  /\ UNCHANGED <<by, link, done>>

\* A node whose update has arrived in between keeps its row, not its links;
\* one whose time has run out in between keeps its links, not its row.
removeOldNodes(w) ==
  /\ doomed[w] # {} /\ doomed' = [doomed EXCEPT ![w] = {}]
  /\ \E gone \in SUBSET Own(w) :
       by' = [by EXCEPT ![w] = [n \in Node |-> IF n \in gone THEN NoRow ELSE @[n]]]
  /\ link' = [link EXCEPT ![w] = [a \in Node |-> [b \in Node |->
                IF {a, b} \cap doomed[w] # {} THEN NoRow ELSE link[w][a][b]]]]
  /\ UNCHANGED <<done, purges>>
-----------------------------------------------------------------------------
\* A node's turn: an update with the report of a test, or without one.
Send(n) == Renew(n) \/ \E t \in Tests : t[1] = n /\ Update(t[1], t[2], t[3])

Next ==
  \/ \E n \in Node : Send(n)
  \/ \E w \in Ldr : complete(w) \/ getMLRHardware(w) \/ removeOldNodes(w)
  \/ \E w, k \in Ldr : MReport(w, k)

Spec == Init /\ [][Next]_vars

\* Nodes report what they tested and renew their rows; the leaders' timers run,
\* and each leader is, again and again, the one that is drawn for a report.
FairSpec ==
  /\ Spec
  /\ \A n \in Node : WF_vars(Send(n))
  /\ \A w \in Ldr : WF_vars(complete(w)) /\ WF_vars(removeOldNodes(w))
  /\ \A w \in Ldr : \A k \in Ldr \ {w} : SF_vars(MReport(w, k))
-----------------------------------------------------------------------------
\* The latency of a pair: that of its link, or through the leaders of the two.
Path(a, b) ==
  LET up == IF a = Home(a) THEN 0 ELSE Latency(a, Home(a))
      down == IF b = Home(b) THEN 0 ELSE Latency(Home(b), b)
  IN IF Near(a, b) THEN Latency(a, b) ELSE up + Latency(Home(a), Home(b)) + down

\* The tables, in which no row links a node to itself.
TypeOK ==
  /\ by \in [Ldr -> [Node -> Ldr \cup {NoRow}]]
  /\ \A w \in Ldr : \A a, b \in Node :
       link[w][a][b] = NoRow \/ (a # b /\ (link[w][a][b] = Null \/ link[w][a][b] \in Nat))
  /\ done \subseteq Tests /\ doomed \in [Ldr -> SUBSET Node] /\ purges \in 0 .. MaxPurges

\* A latency in a table is never more than the true one: estimates that travel
\* between the leaders and come back do not feed estimates that grow.  And of a
\* link that is measured no table ever has an estimate: it has the true latency, or
\* the 0 of a bandwidth that was reported alone.
NoDrift ==
  \A w \in Ldr : \A a, b \in Node :
    /\ link[w][a][b] \in {NoRow, Null} \/ link[w][a][b] <= Path(a, b)
    /\ Near(a, b) => link[w][a][b] \in {NoRow, 0, Latency(a, b)}

\* Within a group the two directions of a link never disagree, in any table,
\* although reports, placeholders and purges write them separately.  (Between
\* groups they do: a link known by its bandwidth only has a latency of 0 one way.)
GroupSymmetric ==
  \A w \in Ldr : \A a, b \in Rows(w) :
    /\ by[w][a] = by[w][b] \/ {a, b} \subseteq Ldr
    /\ link[w][a][b] # NoRow /\ link[w][b][a] # NoRow
    => link[w][a][b] = link[w][b][a]

\* When nothing is purged, every leader has the true latency of every pair of
\* nodes again and again: placeholders and estimates made from incomplete data
\* never stay for good.  (It does not keep them: a report with the out-of-date
\* estimates of another leader replaces its own until the next complete(), and
\* two leaders can go on doing this to each other for ever.)
TablesRecover ==
  \A w \in Ldr :
    []<>(purges = 0 => \A a, b \in Node : a # b => link[w][a][b] = Path(a, b))
=============================================================================
