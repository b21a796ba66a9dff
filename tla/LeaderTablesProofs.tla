------------------------- MODULE LeaderTablesProofs -------------------------
(***************************************************************************)
(* Proofs about module LeaderTables, for any number of groups and nodes,   *)
(* any latencies of their links and any set of tests: what the leaders     *)
(* exchange and estimate never exceeds what there is to measure, and the   *)
(* two directions of a measured link never disagree.                       *)
(***************************************************************************)
EXTENDS LeaderTables, TLAPS

\* A table is a full square of latencies, NULLs and missing rows, ...
LinkType == link \in [Ldr -> [Node -> [Node -> Nat \cup {NoRow, Null}]]]

\* ... a node that has a row is in the group it really is in, ...
ByInv == \A w \in Ldr : \A n \in Node : by[w][n] \in {NoRow, Home(n)}

\* ... a link that is measured has the true latency, or the 0 of a bandwidth
\* that was reported alone, and no estimate ever takes its place, ...
MeasuredInv ==
  \A w \in Ldr : \A a, b \in Node :
    Near(a, b) => link[w][a][b] \in {NoRow, 0, Latency(a, b)}

\* ... and its mirror image says the same, unless one of the two is missing and
\* the other is that 0.
MirrorInv ==
  \A w \in Ldr : \A a, b \in Node :
    Near(a, b) => \/ link[w][a][b] = link[w][b][a]
                  \/ link[w][a][b] = NoRow /\ link[w][b][a] = 0
                  \/ link[w][a][b] = 0 /\ link[w][b][a] = NoRow

Inv == LinkType /\ ByInv /\ MeasuredInv /\ MirrorInv

\* A measured link is the same in both directions.
LEMMA NearSymmetric ==
  ASSUME NEW a \in Node, NEW b \in Node, Near(a, b)
  PROVE  /\ a # b /\ Near(b, a) /\ Path(a, b) = Latency(a, b)
         /\ Latency(a, b) \in Nat /\ Latency(b, a) = Latency(a, b)
BY TablesAssumption DEF Near, Path

\* A way through the leaders is as long in both directions.
LEMMA PathSymmetric ==
  ASSUME NEW a \in Node, NEW b \in Node, a # b
  PROVE  Path(a, b) \in Nat /\ Path(b, a) = Path(a, b)
<1>1. CASE Near(a, b) BY <1>1, NearSymmetric
<1>2. CASE ~Near(a, b)
  <2>1. ~Near(b, a) /\ Home(a) # Home(b) BY <1>2, NearSymmetric DEF Near
  <2>2. /\ Home(a) \in Ldr /\ Home(b) \in Ldr /\ Home(a) \in Node /\ Home(b) \in Node
        /\ Home(Home(a)) = Home(a) /\ Home(Home(b)) = Home(b)
    BY TablesAssumption DEF Node
  <2>3. /\ Near(Home(a), Home(b))
        /\ (a # Home(a) => Near(a, Home(a))) /\ (b # Home(b) => Near(b, Home(b)))
    BY <2>1, <2>2 DEF Near
  <2>4. /\ Latency(Home(a), Home(b)) \in Nat
        /\ Latency(Home(b), Home(a)) = Latency(Home(a), Home(b))
        /\ a # Home(a) => /\ Latency(a, Home(a)) \in Nat
                          /\ Latency(Home(a), a) = Latency(a, Home(a))
        /\ b # Home(b) => /\ Latency(b, Home(b)) \in Nat
                          /\ Latency(Home(b), b) = Latency(b, Home(b))
    BY <2>2, <2>3, NearSymmetric
  <2> QED BY <1>2, <2>1, <2>4 DEF Path
<1> QED BY <1>1, <1>2

\* The parts of a report have the shape of the tests.
LEMMA TestShape ==
  ASSUME NEW t \in Tests
  PROVE  t[1] \in Node /\ t[2] \in Node /\ Near(t[1], t[2])
BY TablesAssumption
-----------------------------------------------------------------------------
\* What an estimate is made of: measured links, to and between the two leaders.
LEMMA EstimateBound ==
  ASSUME TypeOK, Inv, NEW w \in Ldr, NEW a \in Node, NEW b \in Node, Between(w, a, b)
  PROVE  /\ ~Near(a, b) /\ a # b
         /\ Estimate(w, a, b) = Null \/ (Estimate(w, a, b) \in Nat
                                          /\ Estimate(w, a, b) <= Path(a, b))
<1>1. /\ a # b /\ by[w][a] = Home(a) /\ by[w][b] = Home(b) /\ Home(a) # Home(b)
      /\ ~(a \in Ldr /\ b \in Ldr)
  BY DEF Between, Rows, Inv, ByInv
<1>2. ~Near(a, b) BY <1>1 DEF Near
<1> DEFINE x == Home(a)
           y == Home(b)
<1>3. x \in Ldr /\ y \in Ldr /\ x \in Node /\ y \in Node /\ Home(x) = x /\ Home(y) = y
  BY TablesAssumption DEF Node
<1>4. Near(x, y) BY <1>1, <1>3 DEF Near
<1>5. a \notin Ldr => Near(a, x) /\ a # x BY <1>3 DEF Near
<1>6. b \notin Ldr => Near(y, b) /\ b # y BY <1>3 DEF Near
<1>7. (a \in Ldr => x = a) /\ (b \in Ldr => y = b) BY TablesAssumption
<1> HIDE DEF x, y
<1>8. ASSUME NEW c \in Node, NEW d \in Node, Near(c, d)
      PROVE  \/ meanL(w, c, d) = Null
             \/ meanL(w, c, d) \in Nat /\ Latency(c, d) \in Nat /\ meanL(w, c, d) <= Latency(c, d)
  <2>1. Latency(c, d) \in Nat BY <1>8, NearSymmetric
  <2>2. link[w][c][d] \in {NoRow, 0, Latency(c, d)} BY <1>8 DEF Inv, MeasuredInv
  <2> QED BY <2>1, <2>2 DEF meanL
<1>9. Path(a, b) = (IF a = x THEN 0 ELSE Latency(a, x)) + Latency(x, y)
                     + IF b = y THEN 0 ELSE Latency(y, b)
  BY <1>2 DEF Path, x, y
<1>10. CASE a \in Ldr
  <2>1. b \notin Ldr /\ a = x BY <1>1, <1>7, <1>10
  <2>2. Estimate(w, a, b) = Plus(meanL(w, x, y), meanL(w, y, b))
    BY <1>1, <1>10, <2>1 DEF Estimate, x, y
  <2> QED BY <1>1, <1>2, <1>3, <1>4, <1>6, <1>8, <1>9, <2>1, <2>2 DEF Plus
<1>11. CASE a \notin Ldr /\ b \in Ldr
  <2>1. b = y BY <1>7, <1>11
  <2>2. Estimate(w, a, b) = Plus(meanL(w, a, x), meanL(w, x, y))
    BY <1>1, <1>11, <2>1 DEF Estimate, x, y
  <2> QED BY <1>1, <1>2, <1>3, <1>4, <1>5, <1>8, <1>9, <1>11, <2>1, <2>2 DEF Plus
<1>12. CASE a \notin Ldr /\ b \notin Ldr
  <2>1. Estimate(w, a, b) = Plus(Plus(meanL(w, x, y), meanL(w, a, x)), meanL(w, y, b))
    BY <1>1, <1>12 DEF Estimate, x, y
  <2> QED BY <1>1, <1>2, <1>3, <1>4, <1>5, <1>6, <1>8, <1>9, <1>12, <2>1, TablesAssumption
          DEF Plus
<1> QED BY <1>10, <1>11, <1>12

-----------------------------------------------------------------------------
(* What each step does to a link.                                          *)

\* The two directions of the link a test is about.
Tested(t, a, b) == (a = t[1] /\ b = t[2]) \/ (a = t[2] /\ b = t[1])

\* A report of a latency writes both directions, one of a bandwidth only a 0 where
\* there was nothing.
LEMMA UpdateLinks ==
  ASSUME LinkType, NEW t \in Tests, Update(t[1], t[2], t[3])
  PROVE  /\ LinkType'
         /\ \A v \in Ldr : \A a, b \in Node :
              link'[v][a][b] =
                IF v = Home(t[1]) /\ t[3] = "latency" /\ Tested(t, a, b)
                  THEN Latency(t[1], t[2])
                ELSE IF /\ v = Home(t[1]) /\ t[3] # "latency" /\ a = t[1] /\ b = t[2]
                        /\ link[v][a][b] = NoRow
                  THEN 0
                ELSE link[v][a][b]
<1> DEFINE w == Home(t[1])
           c == t[1]
           d == t[2]
           old == link[w]
<1>1. c \in Node /\ d \in Node /\ c # d /\ Latency(c, d) \in Nat /\ w \in Ldr
  BY TestShape, NearSymmetric, TablesAssumption
<1>2. old \in [Node -> [Node -> Nat \cup {NoRow, Null}]] BY <1>1 DEF LinkType
<1>3. link' = [link EXCEPT ![w] = IF t[3] = "latency"
                                    THEN addReportLatency(old, c, d, Latency(c, d))
                                    ELSE addReportBandwidth(old, c, d)]
  BY DEF Update
<1>4. /\ addReportLatency(old, c, d, Latency(c, d))
           \in [Node -> [Node -> Nat \cup {NoRow, Null}]]
      /\ \A a, b \in Node : addReportLatency(old, c, d, Latency(c, d))[a][b]
           = IF (a = c /\ b = d) \/ (a = d /\ b = c) THEN Latency(c, d) ELSE old[a][b]
  <2> HIDE DEF old, c, d
  <2>1. PICK ms \in Nat : ms = Latency(c, d) BY <1>1
  <2>2. /\ [old EXCEPT ![c][d] = ms, ![d][c] = ms]
             \in [Node -> [Node -> Nat \cup {NoRow, Null}]]
        /\ \A a, b \in Node : [old EXCEPT ![c][d] = ms, ![d][c] = ms][a][b]
             = IF (a = c /\ b = d) \/ (a = d /\ b = c) THEN ms ELSE old[a][b]
    BY <1>1, <1>2
  <2> QED BY <2>1, <2>2 DEF addReportLatency
<1>5. /\ addReportBandwidth(old, c, d) \in [Node -> [Node -> Nat \cup {NoRow, Null}]]
      /\ \A a, b \in Node : addReportBandwidth(old, c, d)[a][b]
           = IF a = c /\ b = d /\ old[a][b] = NoRow THEN 0 ELSE old[a][b]
  <2> HIDE DEF old, c, d
  <2> QED BY <1>1, <1>2 DEF addReportBandwidth
<1>6. LinkType' BY <1>1, <1>3, <1>4, <1>5 DEF LinkType
<1>7. ASSUME NEW v \in Ldr, v # w PROVE link'[v] = link[v] BY <1>1, <1>3, <1>7 DEF LinkType
<1>8. link'[w] = IF t[3] = "latency" THEN addReportLatency(old, c, d, Latency(c, d))
                 ELSE addReportBandwidth(old, c, d)
  BY <1>1, <1>3 DEF LinkType
<1>9. ASSUME NEW a \in Node, NEW b \in Node
      PROVE  link'[w][a][b] =
               IF t[3] = "latency" /\ Tested(t, a, b) THEN Latency(c, d)
               ELSE IF t[3] # "latency" /\ a = c /\ b = d /\ old[a][b] = NoRow THEN 0
               ELSE old[a][b]
  <2>1. CASE t[3] = "latency" BY <1>4, <1>8, <2>1 DEF Tested
  <2>2. CASE t[3] # "latency" BY <1>5, <1>8, <2>2
  <2> QED BY <2>1, <2>2
<1> QED BY <1>6, <1>7, <1>9

LEMMA CompleteLinks ==
  ASSUME LinkType, NEW w \in Ldr, complete(w), NEW v \in Ldr, NEW a \in Node, NEW b \in Node
  PROVE  link'[v][a][b] = IF v = w /\ Between(w, a, b) THEN Estimate(w, a, b)
                          ELSE link[v][a][b]
BY DEF LinkType, complete

LEMMA PurgeLinks ==
  ASSUME LinkType, NEW w \in Ldr, removeOldNodes(w),
         NEW v \in Ldr, NEW a \in Node, NEW b \in Node
  PROVE  link'[v][a][b] = IF v = w /\ {a, b} \cap doomed[w] # {} THEN NoRow
                          ELSE link[v][a][b]
BY DEF LinkType, removeOldNodes

LEMMA ReportLinks ==
  ASSUME LinkType, NEW w \in Ldr, NEW k \in Ldr, MReport(w, k),
         NEW v \in Ldr, NEW a \in Node, NEW b \in Node
  PROVE  link'[v][a][b] = IF v = k /\ Sent(w, a, b) THEN Value(w, a, b)
                          ELSE IF v = k /\ Sent(w, b, a) THEN Value(w, b, a)
                          ELSE link[v][a][b]
BY DEF LinkType, MReport
-----------------------------------------------------------------------------
(* The invariant and the theorems.                                         *)

\* Each step keeps the tables well formed.
LEMMA TypeStep == ASSUME TypeOK, Inv, [Next]_vars PROVE TypeOK' /\ LinkType'
<1> USE TablesAssumption DEF TypeOK, Inv, LinkType
<1>1. CASE UNCHANGED vars BY <1>1 DEF vars
<1>2. ASSUME NEW n \in Node, Renew(n) PROVE TypeOK' /\ LinkType' BY <1>2 DEF Renew
<1>3. ASSUME NEW t \in Tests, Update(t[1], t[2], t[3]) PROVE TypeOK' /\ LinkType'
  <2>1. t[1] \in Node /\ t[2] \in Node /\ t[1] # t[2] /\ Latency(t[1], t[2]) \in Nat
    BY TestShape, NearSymmetric
  <2>2. Home(t[1]) \in Ldr BY <2>1
  <2>3. by' \in [Ldr -> [Node -> Ldr \cup {NoRow}]] BY <1>3, <2>1, <2>2 DEF Update
  <2>4. done' \subseteq Tests /\ UNCHANGED <<doomed, purges>> BY <1>3 DEF Update
  <2>5. LinkType' BY <1>3, UpdateLinks
  <2>6. ASSUME NEW v \in Ldr, NEW a \in Node, NEW b \in Node
        PROVE  link'[v][a][b] = link[v][a][b] \/ (a # b /\ link'[v][a][b] \in Nat)
    <3>1. Tested(t, a, b) => a # b BY <2>1 DEF Tested
    <3>2. \/ link'[v][a][b] = link[v][a][b]
          \/ Tested(t, a, b) /\ link'[v][a][b] = Latency(t[1], t[2])
          \/ a = t[1] /\ b = t[2] /\ link'[v][a][b] = 0
      BY <1>3, UpdateLinks
    <3> QED BY <2>1, <3>1, <3>2
  <2> QED BY <2>3, <2>4, <2>5, <2>6
<1>4. ASSUME NEW w \in Ldr, complete(w) PROVE TypeOK' /\ LinkType'
  <2>1. ASSUME NEW a \in Node, NEW b \in Node, Between(w, a, b)
        PROVE  a # b /\ (Estimate(w, a, b) = Null \/ Estimate(w, a, b) \in Nat)
    BY <2>1, EstimateBound
  <2> QED BY <1>4, <2>1 DEF complete
<1>5. ASSUME NEW w \in Ldr, getMLRHardware(w) PROVE TypeOK' /\ LinkType'
  BY <1>5 DEF getMLRHardware, Own
<1>6. ASSUME NEW w \in Ldr, removeOldNodes(w) PROVE TypeOK' /\ LinkType'
  BY <1>6 DEF removeOldNodes, Own
<1>7. ASSUME NEW w \in Ldr, NEW k \in Ldr, MReport(w, k) PROVE TypeOK' /\ LinkType'
  <2>1. by' \in [Ldr -> [Node -> Ldr \cup {NoRow}]] BY <1>7 DEF MReport
  <2>2. ASSUME NEW a \in Node, NEW b \in Node, Sent(w, a, b)
        PROVE  a # b /\ Value(w, a, b) \in Nat
    BY <2>2 DEF Sent, Value
  <2> QED BY <1>7, <2>1, <2>2 DEF MReport
<1> HIDE DEF TypeOK, Inv, LinkType
<1> QED BY <1>1, <1>2, <1>3, <1>4, <1>5, <1>6, <1>7 DEF Next, Send

\* Nobody's row names another leader than its own.
LEMMA ByStep == ASSUME TypeOK, Inv, [Next]_vars PROVE ByInv'
<1> USE TablesAssumption DEF TypeOK, Inv, ByInv
<1>1. CASE by' = by BY <1>1
<1>2. ASSUME NEW n \in Node, Renew(n) PROVE ByInv' BY <1>2 DEF Renew
<1>3. ASSUME NEW t \in Tests, Update(t[1], t[2], t[3]) PROVE ByInv'
  <2>1. t[1] \in Node BY TestShape
  <2> QED BY <1>3, <2>1 DEF Update
<1>4. ASSUME NEW w \in Ldr, removeOldNodes(w) PROVE ByInv' BY <1>4 DEF removeOldNodes
<1>5. ASSUME NEW w \in Ldr, NEW k \in Ldr, MReport(w, k) PROVE ByInv'
  BY <1>5 DEF MReport, Own
<1> HIDE DEF TypeOK, Inv, ByInv
<1> QED BY <1>1, <1>2, <1>3, <1>4, <1>5
        DEF Next, Send, complete, getMLRHardware, vars

\* A measured link is written only with what a test found, or with what another
\* table had for it.
LEMMA MeasuredStep ==
  ASSUME TypeOK, Inv, [Next]_vars, NEW v \in Ldr, NEW a \in Node, NEW b \in Node, Near(a, b)
  PROVE  /\ link'[v][a][b] \in {NoRow, 0, Latency(a, b)}
         /\ \/ link'[v][a][b] = link'[v][b][a]
            \/ link'[v][a][b] = NoRow /\ link'[v][b][a] = 0
            \/ link'[v][a][b] = 0 /\ link'[v][b][a] = NoRow
<1> DEFINE Kept ==
             /\ link'[v][a][b] \in {NoRow, 0, Latency(a, b)}
             /\ \/ link'[v][a][b] = link'[v][b][a]
                \/ link'[v][a][b] = NoRow /\ link'[v][b][a] = 0
                \/ link'[v][a][b] = 0 /\ link'[v][b][a] = NoRow
<1>1. /\ a # b /\ Near(b, a) /\ Latency(a, b) \in Nat /\ Latency(b, a) = Latency(a, b)
      /\ NoRow \notin Nat
  BY NearSymmetric, TablesAssumption
<1>2. ASSUME NEW w \in Ldr
      PROVE  /\ link[w][a][b] \in {NoRow, 0, Latency(a, b)}
             /\ link[w][b][a] \in {NoRow, 0, Latency(a, b)}
             /\ \/ link[w][a][b] = link[w][b][a]
                \/ link[w][a][b] = NoRow /\ link[w][b][a] = 0
                \/ link[w][a][b] = 0 /\ link[w][b][a] = NoRow
  BY <1>1 DEF Inv, MeasuredInv, MirrorInv
<1>3. CASE link' = link BY <1>2, <1>3
<1>4. ASSUME NEW t \in Tests, Update(t[1], t[2], t[3]) PROVE Kept
  <2>1. t[1] \in Node /\ t[2] \in Node /\ Near(t[1], t[2]) BY TestShape
  <2>2. CASE Tested(t, a, b)
    <3>1. /\ Latency(t[1], t[2]) = Latency(a, b) /\ Tested(t, b, a)
          /\ (a = t[1] /\ b = t[2]) \/ (b = t[1] /\ a = t[2])
      BY <1>1, <2>2 DEF Tested
    <3> QED BY <1>1, <1>2, <1>4, <2>2, <3>1, UpdateLinks DEF Inv
  <2>3. CASE ~Tested(t, a, b)
    <3>1. ~Tested(t, b, a) /\ ~(a = t[1] /\ b = t[2]) /\ ~(b = t[1] /\ a = t[2])
      BY <2>3 DEF Tested
    <3>2. link'[v][a][b] = link[v][a][b] /\ link'[v][b][a] = link[v][b][a]
      BY <1>4, <2>3, <3>1, UpdateLinks DEF Inv
    <3> QED BY <1>2, <3>2
  <2> QED BY <2>2, <2>3
<1>5. ASSUME NEW w \in Ldr, complete(w) PROVE Kept
  <2>1. ~Between(w, a, b) /\ ~Between(w, b, a) BY <1>1, EstimateBound
  <2>2. link'[v][a][b] = link[v][a][b] /\ link'[v][b][a] = link[v][b][a]
    BY <1>5, <2>1, CompleteLinks DEF Inv
  <2> QED BY <1>2, <2>2
<1>6. ASSUME NEW w \in Ldr, removeOldNodes(w) PROVE Kept
  <2>1. {b, a} = {a, b} OBVIOUS
  <2> QED BY <1>2, <1>6, <2>1, PurgeLinks DEF Inv
<1>7. ASSUME NEW w \in Ldr, NEW k \in Ldr, MReport(w, k) PROVE Kept
  <2>1. /\ Sent(w, a, b) => Value(w, a, b) = link[w][a][b] /\ link[w][a][b] # NoRow
        /\ Sent(w, b, a) => Value(w, b, a) = link[w][b][a] /\ link[w][b][a] # NoRow
    BY <1>1, <1>2, TablesAssumption DEF Sent, Value
  <2>2. /\ link'[v][a][b] = IF v = k /\ Sent(w, a, b) THEN Value(w, a, b)
                            ELSE IF v = k /\ Sent(w, b, a) THEN Value(w, b, a)
                            ELSE link[v][a][b]
        /\ link'[v][b][a] = IF v = k /\ Sent(w, b, a) THEN Value(w, b, a)
                            ELSE IF v = k /\ Sent(w, a, b) THEN Value(w, a, b)
                            ELSE link[v][b][a]
    BY <1>7, ReportLinks DEF Inv
  <2> QED BY <1>2, <2>1, <2>2
<1> HIDE DEF Kept
<1>8. Kept
  BY <1>3, <1>4, <1>5, <1>6, <1>7 DEF Next, Send, Renew, getMLRHardware, vars, Kept
<1> QED BY <1>8 DEF Kept

\* The invariant is kept by every step.
LEMMA Invariance == Spec => [](TypeOK /\ Inv)
<1>1. Init => TypeOK /\ Inv
  <2> SUFFICES ASSUME Init PROVE TypeOK /\ Inv OBVIOUS
  <2>1. \A w \in Ldr : \A a, b \in Node : link[w][a][b] = NoRow BY DEF Init
  <2>2. LinkType BY DEF Init, LinkType
  <2>3. ByInv BY DEF Init, ByInv
  <2>4. MeasuredInv /\ MirrorInv BY <2>1 DEF MeasuredInv, MirrorInv
  <2>5. TypeOK BY <2>1, TablesAssumption DEF Init, TypeOK
  <2> QED BY <2>2, <2>3, <2>4, <2>5 DEF Inv
<1>2. TypeOK /\ Inv /\ [Next]_vars => (TypeOK /\ Inv)'
  <2> SUFFICES ASSUME TypeOK, Inv, [Next]_vars PROVE (TypeOK /\ Inv)' OBVIOUS
  <2>1. TypeOK' /\ LinkType' BY TypeStep
  <2>2. ByInv' BY ByStep
  <2>3. MeasuredInv' /\ MirrorInv' BY MeasuredStep DEF MeasuredInv, MirrorInv
  <2> QED BY <2>1, <2>2, <2>3 DEF Inv
<1> QED BY <1>1, <1>2, PTL DEF Spec

\* The tables keep their types, and no row links a node to itself.
THEOREM TypeCorrect == Spec => []TypeOK
BY Invariance, PTL

\* Within a group and between leaders the two directions of a link never
\* disagree, in any table, although reports, placeholders and purges write them
\* separately.
THEOREM DirectionsAgree == Spec => []GroupSymmetric
<1>1. TypeOK /\ Inv => GroupSymmetric
  <2> SUFFICES ASSUME TypeOK, Inv, NEW w \in Ldr, NEW a \in Rows(w), NEW b \in Rows(w),
                      by[w][a] = by[w][b] \/ {a, b} \subseteq Ldr,
                      link[w][a][b] # NoRow, link[w][b][a] # NoRow
               PROVE  link[w][a][b] = link[w][b][a]
    BY DEF GroupSymmetric
  <2>1. /\ a \in Node /\ b \in Node /\ by[w][a] = Home(a) /\ by[w][b] = Home(b)
    BY DEF Rows, Inv, ByInv
  <2>2. a = b \/ Near(a, b) BY <2>1 DEF Near
  <2> QED BY <2>1, <2>2 DEF Inv, MirrorInv
<1> QED BY <1>1, Invariance, PTL

\* Each step keeps every latency below the true one.
LEMMA DriftStep ==
  ASSUME TypeOK, Inv, Inv', NoDrift, [Next]_vars, NEW v \in Ldr, NEW a \in Node, NEW b \in Node
  PROVE  link'[v][a][b] \in {NoRow, Null} \/ link'[v][a][b] <= Path(a, b)
<1>1. CASE Near(a, b)
  <2>1. Path(a, b) = Latency(a, b) /\ Latency(a, b) \in Nat BY <1>1, NearSymmetric
  <2>2. link'[v][a][b] \in {NoRow, 0, Latency(a, b)} BY <1>1 DEF Inv, MeasuredInv
  <2> QED BY <2>1, <2>2
<1>2. CASE ~Near(a, b)
  <2>1. \A w \in Ldr : link[w][a][b] \in {NoRow, Null} \/ link[w][a][b] <= Path(a, b)
    BY DEF NoDrift
  <2>2. CASE link' = link BY <2>1, <2>2
  <2>3. ASSUME NEW t \in Tests, Update(t[1], t[2], t[3])
        PROVE  link'[v][a][b] = link[v][a][b]
    <3>1. t[1] \in Node /\ t[2] \in Node /\ Near(t[1], t[2]) /\ Near(t[2], t[1])
      BY TestShape, NearSymmetric
    <3>2. ~Tested(t, a, b) /\ ~(a = t[1] /\ b = t[2]) BY <1>2, <3>1 DEF Tested
    <3> QED BY <2>3, <3>2, UpdateLinks DEF Inv
  <2>4. ASSUME NEW w \in Ldr, complete(w)
        PROVE  link'[v][a][b] \in {NoRow, Null} \/ link'[v][a][b] <= Path(a, b)
    BY <2>1, <2>4, CompleteLinks, EstimateBound DEF Inv
  <2>5. ASSUME NEW w \in Ldr, removeOldNodes(w)
        PROVE  link'[v][a][b] \in {NoRow, Null} \/ link'[v][a][b] <= Path(a, b)
    BY <2>1, <2>5, PurgeLinks DEF Inv
  <2>6. ASSUME NEW w \in Ldr, NEW k \in Ldr, MReport(w, k)
        PROVE  link'[v][a][b] \in {NoRow, Null} \/ link'[v][a][b] <= Path(a, b)
    <3>1. \A c, d \in Node : link[w][c][d] # NoRow =>
            c # d /\ (link[w][c][d] = Null \/ link[w][c][d] \in Nat)
      BY DEF TypeOK
    <3>2. ASSUME NEW c \in Node, NEW d \in Node, Sent(w, c, d)
          PROVE  c # d /\ Value(w, c, d) <= Path(c, d)
      <4>1. c # d /\ link[w][c][d] # NoRow BY <3>1, <3>2 DEF Sent
      <4>2. Path(c, d) \in Nat BY <4>1, PathSymmetric
      <4>3. link[w][c][d] \in {NoRow, Null} \/ link[w][c][d] <= Path(c, d) BY DEF NoDrift
      <4> QED BY <4>1, <4>2, <4>3 DEF Value
    <3>3. Sent(w, b, a) => Value(w, b, a) <= Path(a, b) BY <3>2, PathSymmetric
    <3>4. link'[v][a][b] = IF v = k /\ Sent(w, a, b) THEN Value(w, a, b)
                           ELSE IF v = k /\ Sent(w, b, a) THEN Value(w, b, a)
                           ELSE link[v][a][b]
      BY <2>6, ReportLinks DEF Inv
    <3> QED BY <2>1, <3>2, <3>3, <3>4
  <2> QED BY <2>1, <2>2, <2>3, <2>4, <2>5, <2>6
          DEF Next, Send, Renew, getMLRHardware, vars
<1> QED BY <1>1, <1>2

\* No latency in any table is ever more than the true one: estimates that travel
\* between the leaders and come back do not feed estimates that grow, and they never
\* replace a measurement.
THEOREM EstimatesDoNotDrift == Spec => []NoDrift
<1>1. Init => NoDrift BY DEF Init, NoDrift
<1>2. TypeOK /\ Inv /\ (TypeOK /\ Inv)' /\ NoDrift /\ [Next]_vars => NoDrift'
  <2> SUFFICES ASSUME TypeOK, Inv, Inv', NoDrift, [Next]_vars,
                      NEW w \in Ldr, NEW a \in Node, NEW b \in Node
               PROVE  /\ link'[w][a][b] \in {NoRow, Null} \/ link'[w][a][b] <= Path(a, b)
                      /\ Near(a, b) => link'[w][a][b] \in {NoRow, 0, Latency(a, b)}
    BY DEF NoDrift
  <2>1. Near(a, b) => link'[w][a][b] \in {NoRow, 0, Latency(a, b)}
    BY DEF Inv, MeasuredInv
  <2> QED BY <2>1, DriftStep
<1> QED BY <1>1, <1>2, Invariance, PTL DEF Spec
=============================================================================
