-------------------------- MODULE MembershipProofs --------------------------
(***************************************************************************)
(* Proofs about module Membership, for any number of leaders and followers *)
(* and any periods: the types, with what they say about retries, about the *)
(* leader a follower sends to and about old rows, and that the purge       *)
(* spares the followers a leader has heard from.                           *)
(***************************************************************************)
EXTENDS Membership, TLAPS

Place == {"boot", "reselect", "move", "bootHello", "reselectHello", "moveHello",
          "bootAnswer", "reselectAnswer", "moveAnswer",
          "update", "ask", "apply", "check", "exited"}

\* The places of a follower's timer thread, and where each one leads.
LEMMA Places ==
  /\ Choosing = {"boot", "reselect", "move"}
  /\ Hellos = {"bootHello", "reselectHello", "moveHello"}
  /\ Answers = {"bootAnswer", "reselectAnswer", "moveAnswer"}
  /\ Choosing \cup Hellos \cup Answers \cup {"update", "ask", "apply", "check", "exited"} = Place
  /\ Hello("boot") = "bootHello" /\ Hello("reselect") = "reselectHello"
  /\ Hello("move") = "moveHello"
  /\ Answer("bootHello") = "bootAnswer" /\ Answer("reselectHello") = "reselectAnswer"
  /\ Answer("moveHello") = "moveAnswer"
<1>1. /\ Hello("boot") = "bootHello" /\ Hello("reselect") = "reselectHello"
      /\ Hello("move") = "moveHello"
  BY DEF Hello
<1>2. /\ Answer("bootHello") = "bootAnswer" /\ Answer("reselectHello") = "reselectAnswer"
      /\ Answer("moveHello") = "moveAnswer"
  BY DEF Answer
<1>3. Choosing = {"boot", "reselect", "move"} BY DEF Choosing
<1>4. Hellos = {"bootHello", "reselectHello", "moveHello"} BY <1>1, <1>3 DEF Hellos
<1>5. Answers = {"bootAnswer", "reselectAnswer", "moveAnswer"} BY <1>2, <1>4 DEF Answers
<1> QED BY <1>1, <1>2, <1>3, <1>4, <1>5 DEF Place

\* The next number of a cyclic counter.
LEMMA Cyclic == ASSUME NEW n \in Nat, n > 0, NEW i \in 0 .. n - 1 PROVE (i + 1) % n \in 0 .. n - 1
OBVIOUS

-----------------------------------------------------------------------------
(* TypeOK in the parts that the steps disturb.                             *)

TimerOK == fpc \in [Flw -> Place] /\ iter \in [Flw -> 0 .. Every - 1] /\ tries \in [Flw -> 0 .. 1]
ServerOK ==
  /\ srv \in [Flw -> Ldr \cup {None}]
  /\ \A f \in Flw : srv[f] = None => fpc[f] \in {"boot", "bootHello", "exited"}
ChoiceOK == mesh \in SUBSET Ldr /\ known \in [Flw -> SUBSET Ldr] /\ cand \in [Flw -> SUBSET Ldr]
PeersOK == answer \in [Flw -> SUBSET Flw] /\ peers \in [Flw -> SUBSET Flw]
RowsOK ==
  /\ by \in [Ldr -> [Flw -> Ldr \cup {None}]]
  /\ old \in [Ldr -> SUBSET Flw] /\ \A l \in Ldr : old[l] \subseteq Own(l)
LeaderOK ==
  /\ lpc \in [Ldr -> {"turn", "report"}] /\ turn \in [Ldr -> 0 .. PurgeEvery - 1]
  /\ report \in [Ldr -> SUBSET Flw]
NoticesOK == notices \subseteq [to : Flw, node : Flw, op : {"add", "rem"}]
BoundsOK == moves \in 0 .. MaxMoves /\ lost \in 0 .. MaxLost
PartsOK ==
  TimerOK /\ ServerOK /\ ChoiceOK /\ PeersOK /\ RowsOK /\ LeaderOK /\ NoticesOK /\ BoundsOK

LEMMA TypeParts == TypeOK <=> PartsOK
<1>1. fpc \in [Flw -> Choosing \cup Hellos \cup Answers
                        \cup {"update", "ask", "apply", "check", "exited"}]
      <=> fpc \in [Flw -> Place]
  BY Places
<1> QED
  BY <1>1 DEF TypeOK, PartsOK, TimerOK, ServerOK, ChoiceOK, PeersOK, RowsOK, LeaderOK,
              NoticesOK, BoundsOK

\* What a step leaves alone keeps its types.
LEMMA PartsUnchanged ==
  /\ TimerOK /\ UNCHANGED <<fpc, iter, tries>> => TimerOK'
  /\ ServerOK /\ UNCHANGED <<fpc, srv>> => ServerOK'
  /\ ChoiceOK /\ UNCHANGED <<mesh, known, cand>> => ChoiceOK'
  /\ PeersOK /\ UNCHANGED <<answer, peers>> => PeersOK'
  /\ RowsOK /\ UNCHANGED <<by, old>> => RowsOK'
  /\ LeaderOK /\ UNCHANGED <<lpc, turn, report>> => LeaderOK'
  /\ NoticesOK /\ UNCHANGED notices => NoticesOK'
  /\ BoundsOK /\ UNCHANGED <<moves, lost>> => BoundsOK'
BY DEF TimerOK, ServerOK, ChoiceOK, PeersOK, RowsOK, LeaderOK, NoticesOK, BoundsOK, Own

\* A row that its leader has just renewed is not an old one.
LEMMA AddNode == ASSUME RowsOK, NEW l \in Ldr, NEW f \in Flw, addNode(l, f) PROVE RowsOK'
<1>1. by' \in [Ldr -> [Flw -> Ldr \cup {None}]] BY DEF RowsOK, addNode
<1>2. old' \in [Ldr -> SUBSET Flw] BY DEF RowsOK, addNode
<1>3. ASSUME NEW k \in Ldr PROVE old'[k] \subseteq Own(k)'
  <2>1. CASE k = l
    <3>1. old'[l] = old[l] \ {f} BY DEF RowsOK, addNode
    <3>2. ASSUME NEW g \in Flw \ {f} PROVE by'[l][g] = by[l][g] BY DEF RowsOK, addNode
    <3> QED BY <2>1, <3>1, <3>2 DEF RowsOK, Own
  <2>2. CASE k # l
    <3>1. old'[k] = old[k] /\ by'[k] = by[k] BY <2>2 DEF RowsOK, addNode
    <3> QED BY <3>1 DEF RowsOK, Own
  <2> QED BY <2>1, <2>2
<1> QED BY <1>1, <1>2, <1>3 DEF RowsOK

\* The timer thread moves on; it has a leader already or is still starting.
LEMMA GotoPlace ==
  ASSUME TimerOK, ServerOK, NEW f \in Flw, NEW place \in Place, Goto(f, place), UNCHANGED srv,
         srv[f] = None => place \in {"boot", "bootHello", "exited"}
  PROVE fpc' \in [Flw -> Place] /\ ServerOK'
BY DEF TimerOK, ServerOK, Goto

LEMMA TurnEnds ==
  ASSUME TimerOK, NEW f \in Flw, NextTurn(f)
  PROVE iter' \in [Flw -> 0 .. Every - 1] /\ Goto(f, "update")
BY MembershipAssumption, Cyclic DEF TimerOK, NextTurn

LEMMA LoseOne == BoundsOK /\ Lose /\ UNCHANGED moves => BoundsOK'
BY MembershipAssumption DEF BoundsOK, Lose
-----------------------------------------------------------------------------
\* A step of a follower keeps the types.
LEMMA FollowerStep == ASSUME PartsOK, NEW f \in Flw, Follower(f) PROVE PartsOK'
<1> USE MembershipAssumption DEF PartsOK
<1>1. CASE selectServer(f)
  <2>1. TimerOK' /\ ServerOK'
    BY <1>1, Places, GotoPlace DEF selectServer, Place, TimerOK, ServerOK
  <2>2. ChoiceOK' BY <1>1 DEF selectServer, requestMNodes, ChoiceOK
  <2>3. BoundsOK' BY <1>1, LoseOne, PartsUnchanged DEF selectServer
  <2> QED BY <1>1, <2>1, <2>2, <2>3, PartsUnchanged DEF selectServer, lvars
<1>2. CASE sendHello(f)
  <2>1. PICK l \in cand[f] : srv' = [srv EXCEPT ![f] = l]
    BY <1>2 DEF sendHello
  <2>2. l \in Ldr /\ srv'[f] = l BY <2>1 DEF ChoiceOK, ServerOK
  <2>3. Welcome(l, f) \/ UNCHANGED <<by, old, notices>>
    BY <1>2, <2>2 DEF sendHello
  <2>4. RowsOK' BY <2>2, <2>3, AddNode, PartsUnchanged DEF Welcome
  <2>5. NoticesOK' BY <2>3 DEF Welcome, NoticesOK, Own
  <2>6. /\ \/ Goto(f, Answer(fpc[f])) /\ answer' = [answer EXCEPT ![f] = Own(l) \cup {f}]
              /\ UNCHANGED <<cand, lost>>
           \/ Lose /\ cand' = [cand EXCEPT ![f] = @ \ {l}] /\ UNCHANGED <<fpc, answer>>
        /\ fpc[f] \in Hellos
        /\ UNCHANGED <<mesh, iter, tries, known, peers, lpc, turn, report, moves>>
    BY <1>2, <2>2 DEF sendHello
  <2>7. TimerOK' BY <2>6, Places DEF Goto, TimerOK, Place
  <2>8. ServerOK'
    <3>1. \A g \in Flw \ {f} : fpc'[g] = fpc[g] /\ srv'[g] = srv[g]
      BY <2>1, <2>6 DEF Goto, TimerOK, ServerOK
    <3> QED BY <2>1, <2>2, <3>1 DEF ServerOK
  <2>9. ChoiceOK' BY <2>6 DEF ChoiceOK
  <2>10. PeersOK' BY <2>6 DEF PeersOK, Own
  <2>11. BoundsOK' BY <2>6, LoseOne, PartsUnchanged
  <2> QED BY <2>4, <2>5, <2>6, <2>7, <2>8, <2>9, <2>10, <2>11, PartsUnchanged
<1>3. CASE refreshNodes(f)
  <2>1. fpc[f] \in Answers /\ Goto(f, After(fpc[f])) /\ UNCHANGED <<iter, tries, srv>>
    BY <1>3 DEF refreshNodes
  <2>2. After(fpc[f]) \in {"ask", "update"} BY DEF After
  <2>3. srv[f] # None BY <2>1, Places DEF ServerOK
  <2>4. TimerOK' /\ ServerOK' BY <2>1, <2>2, <2>3, GotoPlace DEF Place, TimerOK
  <2>5. PeersOK' /\ ChoiceOK' BY <1>3 DEF refreshNodes, PeersOK, ChoiceOK
  <2> QED BY <1>3, <2>4, <2>5, PartsUnchanged DEF refreshNodes, lvars
<1>4. CASE NoServer(f)
  <2>1. /\ fpc[f] \in Hellos /\ UNCHANGED <<iter, tries, srv>>
        /\ Goto(f, IF fpc[f] = "bootHello" THEN "exited" ELSE After(fpc[f]))
    BY <1>4 DEF NoServer
  <2>2. After(fpc[f]) \in {"ask", "update"} BY DEF After
  <2>3. fpc[f] # "bootHello" => srv[f] # None BY <2>1, Places DEF ServerOK
  <2>4. TimerOK' /\ ServerOK' BY <2>1, <2>2, <2>3, GotoPlace DEF Place, TimerOK
  <2> QED BY <1>4, <2>4, PartsUnchanged DEF NoServer, lvars
<1>5. ASSUME fpc[f] = "update" PROVE srv[f] \in Ldr /\ (Register(f) => RowsOK' /\ LeaderOK')
  <2>1. srv[f] \in Ldr BY <1>5 DEF ServerOK
  <2> QED BY <2>1, AddNode, PartsUnchanged DEF Register
<1>6. CASE sendUpdate(f)
  <2>1. /\ fpc[f] = "update" /\ Register(f) /\ tries' = [tries EXCEPT ![f] = 0]
        /\ UNCHANGED <<mesh, known, cand, srv, answer, peers, notices, moves, lost>>
    BY <1>6 DEF sendUpdate
  <2>2. PICK place \in {"ask", "check", "update"} :
          Goto(f, place) /\ iter' \in [Flw -> 0 .. Every - 1]
    <3>1. CASE iter[f] \in {0, Every - 1}
      <4>1. Goto(f, IF iter[f] = 0 THEN "ask" ELSE "check") /\ UNCHANGED iter
        BY <1>6, <3>1 DEF sendUpdate
      <4> QED BY <4>1 DEF TimerOK
    <3>2. CASE iter[f] \notin {0, Every - 1}
      BY <1>6, <3>2, TurnEnds DEF sendUpdate
    <3> QED BY <3>1, <3>2
  <2>3. fpc' \in [Flw -> Place] /\ ServerOK'
    BY <1>5, <2>1, <2>2, GotoPlace DEF Place
  <2>4. tries' \in [Flw -> 0 .. 1] BY <2>1 DEF TimerOK
  <2>5. TimerOK' BY <2>2, <2>3, <2>4 DEF TimerOK
  <2> QED BY <1>5, <2>1, <2>3, <2>5, PartsUnchanged
<1>7. CASE UpdateFails(f)
  <2>1. /\ fpc[f] = "update" /\ Lose /\ (Register(f) \/ UNCHANGED lvars)
        /\ UNCHANGED <<mesh, known, cand, srv, answer, peers, notices, moves>>
    BY <1>7 DEF UpdateFails
  <2>2. srv[f] # None BY <1>5, <2>1
  <2>3. RowsOK' /\ LeaderOK' BY <1>5, <2>1, PartsUnchanged DEF lvars
  <2>4. TimerOK' /\ ServerOK'
    <3>1. CASE tries' = [tries EXCEPT ![f] = 1] /\ UNCHANGED <<fpc, iter>>
      BY <2>1, <3>1, PartsUnchanged DEF TimerOK
    <3>2. CASE tries' = [tries EXCEPT ![f] = 0] /\ Goto(f, "reselect")
               /\ iter' = [iter EXCEPT ![f] = 0]
      <4>1. fpc' \in [Flw -> Place] /\ ServerOK' BY <2>1, <2>2, <3>2, GotoPlace DEF Place
      <4>2. tries' \in [Flw -> 0 .. 1] BY <3>2 DEF TimerOK
      <4>3. iter' \in [Flw -> 0 .. Every - 1] BY <3>2 DEF TimerOK
      <4> QED BY <4>1, <4>2, <4>3 DEF TimerOK
    <3> QED BY <1>7, <3>1, <3>2 DEF UpdateFails
  <2>5. BoundsOK' BY <2>1, LoseOne
  <2> QED BY <2>1, <2>3, <2>4, <2>5, PartsUnchanged
<1>8. CASE requestNodes(f)
  <2>1. /\ fpc[f] = "ask" /\ Goto(f, "apply")
        /\ UNCHANGED <<mesh, iter, tries, known, cand, srv, peers, lvars, notices, moves>>
    BY <1>8 DEF requestNodes
  <2>2. TimerOK' /\ ServerOK' BY <2>1, GotoPlace DEF Place, TimerOK, ServerOK
  <2>3. PeersOK' BY <1>8 DEF requestNodes, PeersOK, Own
  <2>4. BoundsOK' BY <1>8, LoseOne, PartsUnchanged DEF requestNodes
  <2> QED BY <2>1, <2>2, <2>3, <2>4, PartsUnchanged DEF lvars
<1>9. CASE updateNodes(f)
  <2>1. fpc[f] = "apply" /\ NextTurn(f) /\ UNCHANGED <<tries, srv>> BY <1>9 DEF updateNodes
  <2>2. iter' \in [Flw -> 0 .. Every - 1] /\ Goto(f, "update") BY <2>1, TurnEnds
  <2>3. fpc' \in [Flw -> Place] /\ ServerOK' BY <2>1, <2>2, GotoPlace DEF Place, ServerOK
  <2>4. TimerOK' BY <2>1, <2>2, <2>3 DEF TimerOK
  <2>5. PeersOK' BY <1>9 DEF updateNodes, PeersOK
  <2> QED BY <1>9, <2>3, <2>4, <2>5, PartsUnchanged DEF updateNodes, lvars
<1>10. CASE checkServer(f)
  <2>1. fpc[f] = "check" /\ UNCHANGED <<mesh, tries, cand, srv, answer, peers, lvars, notices>>
    BY <1>10 DEF checkServer
  <2>2. srv[f] # None BY <2>1 DEF ServerOK
  <2>3. PICK place \in {"update", "move", "exited"} :
          Goto(f, place) /\ iter' \in [Flw -> 0 .. Every - 1]
    <3>1. CASE NextTurn(f) BY <3>1, TurnEnds
    <3>2. CASE Goto(f, "move") /\ iter' = [iter EXCEPT ![f] = 0] BY <3>2 DEF TimerOK
    <3>3. CASE Goto(f, "exited") /\ UNCHANGED iter BY <3>3 DEF TimerOK
    <3> QED BY <1>10, <3>1, <3>2, <3>3 DEF checkServer
  <2>4. fpc' \in [Flw -> Place] /\ ServerOK' BY <2>1, <2>2, <2>3, GotoPlace DEF Place
  <2>5. TimerOK' BY <2>1, <2>3, <2>4 DEF TimerOK
  <2>6. ChoiceOK' BY <1>10, <2>1 DEF checkServer, requestMNodes, ChoiceOK
  <2>7. BoundsOK'
    <3>1. UNCHANGED <<moves, lost>> \/ (Lose /\ UNCHANGED moves)
          \/ (UNCHANGED lost /\ moves < MaxMoves /\ moves' = moves + 1)
      BY <1>10 DEF checkServer
    <3> QED BY <3>1, LoseOne, PartsUnchanged DEF BoundsOK
  <2> QED BY <2>1, <2>4, <2>5, <2>6, <2>7, PartsUnchanged DEF lvars
<1> QED BY <1>1, <1>2, <1>3, <1>4, <1>6, <1>7, <1>8, <1>9, <1>10 DEF Follower

\* A step of a leader, a row that gets old and a notice keep the types.
LEMMA OtherStep ==
  ASSUME PartsOK,
         \/ \E l \in Ldr : Leader(l) \/ \E f \in Flw : Age(l, f)
         \/ \E f \in Flw : Notice(f)
  PROVE PartsOK'
<1> USE MembershipAssumption DEF PartsOK
<1>1. ASSUME NEW l \in Ldr, timerFun(l) PROVE PartsOK'
  <2>1. LeaderOK' BY <1>1 DEF timerFun, LeaderOK, Own
  <2>2. NoticesOK' BY <1>1 DEF timerFun, sendRemoveNodes, sendRequestReport, NoticesOK, RowsOK, Own
  <2> QED BY <1>1, <2>1, <2>2, PartsUnchanged DEF timerFun, fvars
<1>2. ASSUME NEW l \in Ldr, sendMReport(l) PROVE PartsOK'
  <2>1. PICK K \in SUBSET (mesh \ {l}) :
          /\ by' = [k \in Ldr |-> IF k = l THEN removeOldNodes(l, by[l])
                                  ELSE IF k \in K THEN addReport(k, l) ELSE by[k]]
          /\ old' = [k \in Ldr |-> old[k] \cap {f \in Flw : by'[k][f] = k}]
          /\ Lose \/ UNCHANGED lost
    BY <1>2 DEF sendMReport
  <2>2. removeOldNodes(l, by[l]) \in [Flw -> Ldr \cup {None}] BY DEF removeOldNodes, RowsOK
  <2>3. ASSUME NEW k \in Ldr PROVE addReport(k, l) \in [Flw -> Ldr \cup {None}]
    BY DEF addReport, RowsOK
  <2>4. by' \in [Ldr -> [Flw -> Ldr \cup {None}]] BY <2>1, <2>2, <2>3 DEF RowsOK
  <2>5. RowsOK' BY <2>1, <2>4 DEF RowsOK, Own
  <2>6. LeaderOK' BY <1>2, Cyclic DEF sendMReport, LeaderOK
  <2>7. UNCHANGED <<mesh, fvars, peers, notices, moves>> BY <1>2 DEF sendMReport
  <2>8. BoundsOK' BY <2>1, <2>7, LoseOne, PartsUnchanged
  <2> QED BY <2>5, <2>6, <2>7, <2>8, PartsUnchanged DEF fvars
<1>3. ASSUME NEW l \in Ldr, NEW f \in Flw, Age(l, f) PROVE PartsOK'
  <2>1. RowsOK' BY <1>3 DEF Age, RowsOK, Own
  <2> QED BY <1>3, <2>1, PartsUnchanged DEF Age, fvars
<1>4. ASSUME NEW f \in Flw, Notice(f) PROVE PartsOK'
  <2>1. PICK m \in notices :
          /\ notices' = notices \ {m}
          /\ \/ fpc[f] # "exited" /\ UNCHANGED lost
                /\ peers' = [peers EXCEPT ![f] = IF m.op = "add" THEN @ \cup {m.node} ELSE @ \ {m.node}]
             \/ fpc[f] = "exited" /\ UNCHANGED <<peers, lost>>
             \/ Lose /\ UNCHANGED peers
    BY <1>4, Zenon DEF Notice
  <2>2. UNCHANGED <<mesh, fvars, lvars, moves>> BY <1>4 DEF Notice
  <2>3. m.node \in Flw BY DEF NoticesOK
  <2>4. PeersOK' BY <2>1, <2>2, <2>3 DEF PeersOK, fvars
  <2>5. NoticesOK' BY <2>1 DEF NoticesOK
  <2>6. BoundsOK' BY <2>1, <2>2, LoseOne, PartsUnchanged
  <2> QED BY <2>2, <2>4, <2>5, <2>6, PartsUnchanged DEF fvars, lvars
<1> QED BY <1>1, <1>2, <1>3, <1>4 DEF Leader

\* Every variable keeps its type; an update is tried at most twice before another
\* leader is looked for; a timer that sends to nodeS has one; and the rows that
\* timerFun reports and purges as old are always rows of its own followers.
THEOREM TypeCorrect == Spec => []TypeOK
<1>1. Init => TypeOK
  BY MembershipAssumption, Places DEF Init, TypeOK, Own, Place
<1>2. PartsOK /\ [Next]_vars => PartsOK'
  <2>1. ASSUME PartsOK, Next PROVE PartsOK'
    BY <2>1, FollowerStep, OtherStep DEF Next
  <2>2. ASSUME PartsOK, UNCHANGED vars PROVE PartsOK'
    BY <2>2, PartsUnchanged DEF PartsOK, vars, fvars, lvars
  <2> QED BY <2>1, <2>2
<1> QED BY <1>1, <1>2, TypeParts, PTL DEF Spec
-----------------------------------------------------------------------------
(* PurgeSparesReporting.                                                   *)

\* f has not reached its server since it chose it, which takes a loss, or is gone.
Unheard(f) ==
  fpc[f] = "exited" \/ (lost > 0 /\ fpc[f] \notin Answers \cup {"check", "move"})

\* The row of a follower at its own server gets old only so.
OldInv == \A l \in Ldr, f \in Flw : f \in old[l] /\ srv[f] = l => Unheard(f)

\* Messages that were lost stay lost.
LEMMA LostGrows == ASSUME PartsOK, Lose \/ UNCHANGED lost PROVE lost' \in Nat /\ lost' >= lost
BY MembershipAssumption DEF PartsOK, BoundsOK, Lose

\* addNode renews one row, and no row becomes old.
LEMMA Renewed ==
  ASSUME PartsOK, NEW l \in Ldr, NEW f \in Flw, addNode(l, f)
  PROVE  f \notin old'[l] /\ \A k \in Ldr : old'[k] \subseteq old[k]
BY DEF PartsOK, RowsOK, addNode

\* What is left to show for a step of the timer thread of f: no row becomes old
\* by it, and the other followers stay where they are.
LEMMA OldStep ==
  ASSUME PartsOK, OldInv, NEW f \in Flw,
         Lose \/ UNCHANGED lost,
         \A g \in Flw \ {f} : fpc'[g] = fpc[g] /\ srv'[g] = srv[g],
         \A k \in Ldr : old'[k] \subseteq old[k],
         \A l \in Ldr : f \in old'[l] /\ srv'[f] = l => Unheard(f)'
  PROVE  OldInv'
<1> SUFFICES ASSUME NEW l \in Ldr, NEW g \in Flw, g \in old'[l], srv'[g] = l PROVE Unheard(g)'
  BY DEF OldInv
<1>1. CASE g = f
  BY <1>1
<1>2. CASE g # f
  <2>1. Unheard(g) /\ fpc'[g] = fpc[g]
    BY <1>2 DEF OldInv
  <2>2. lost > 0 => lost' > 0
    BY LostGrows DEF PartsOK, BoundsOK
  <2> QED BY <2>1, <2>2, Places DEF Unheard
<1> QED BY <1>1, <1>2

\* A follower moves away from its server, reaches it, or loses a message.
LEMMA FollowerOld == ASSUME PartsOK, OldInv, NEW f \in Flw, Follower(f) PROVE OldInv'
<1> USE DEF PartsOK
<1>old. \A k \in Ldr : f \in old[k] /\ srv[f] = k => Unheard(f)
  BY DEF OldInv
<1>fpc. fpc \in [Flw -> Place] /\ srv \in [Flw -> Ldr \cup {None}]
  BY DEF TimerOK, ServerOK
<1>1. CASE selectServer(f)
  <2>1. fpc[f] \in Choosing /\ Goto(f, Hello(fpc[f])) /\ UNCHANGED <<srv, old>>
        /\ (Lose \/ UNCHANGED lost)
    BY <1>1 DEF selectServer, lvars
  <2>2. fpc'[f] \in Hellos BY <2>1, <1>fpc, Places DEF Goto
  <2>3. \A l \in Ldr : f \in old'[l] /\ srv'[f] = l => lost > 0
    BY <2>1, <1>old, Places DEF Unheard
  <2>4. \A l \in Ldr : f \in old'[l] /\ srv'[f] = l => Unheard(f)'
    BY <2>1, <2>2, <2>3, LostGrows, Places DEF Unheard, BoundsOK
  <2> QED BY <2>1, <2>4, <1>fpc, OldStep DEF Goto
<1>2. CASE sendHello(f)
  <2>1. PICK l \in cand[f] : srv' = [srv EXCEPT ![f] = l]
    BY <1>2 DEF sendHello
  <2>2. l \in Ldr /\ srv'[f] = l BY <2>1 DEF ChoiceOK, ServerOK
  <2>3. /\ fpc[f] \in Hellos
        /\ \/ Welcome(l, f) /\ (Goto(f, Answer(fpc[f])) \/ UNCHANGED fpc)
              /\ (Lose \/ UNCHANGED lost)
           \/ Lose /\ UNCHANGED <<fpc, old>>
    BY <1>2, <2>2 DEF sendHello
  <2>4. \A g \in Flw \ {f} : fpc'[g] = fpc[g] /\ srv'[g] = srv[g]
    BY <2>1, <2>3, <1>fpc DEF Goto
  <2>5. CASE Welcome(l, f)
    <3>1. f \notin old'[l] /\ \A k \in Ldr : old'[k] \subseteq old[k]
      BY <2>2, <2>5, Renewed DEF Welcome
    <3>2. Lose \/ UNCHANGED lost BY <2>3
    <3> QED BY <2>2, <2>4, <3>1, <3>2, OldStep
  <2>6. CASE Lose /\ UNCHANGED <<fpc, old>>
    <3>1. lost' > 0 BY <2>6 DEF Lose, BoundsOK
    <3>2. Unheard(f)' BY <2>3, <2>6, <3>1, Places DEF Unheard
    <3> QED BY <2>4, <2>6, <3>2, OldStep
  <2> QED BY <2>3, <2>5, <2>6
<1>3. CASE refreshNodes(f)
  <2>1. fpc[f] \in Answers /\ Goto(f, After(fpc[f])) /\ UNCHANGED <<srv, old, lost>>
    BY <1>3 DEF refreshNodes, lvars
  <2>2. \A l \in Ldr : ~(f \in old'[l] /\ srv'[f] = l)
    BY <2>1, <1>old, Places DEF Unheard
  <2> QED BY <2>1, <2>2, <1>fpc, OldStep DEF Goto
<1>4. CASE NoServer(f)
  <2>1. /\ fpc[f] \in Hellos /\ UNCHANGED <<srv, old, lost>>
        /\ Goto(f, IF fpc[f] = "bootHello" THEN "exited" ELSE After(fpc[f]))
    BY <1>4 DEF NoServer, lvars
  <2>2. fpc'[f] \in {"exited", "ask", "update"} BY <2>1, <1>fpc DEF Goto, After
  <2>3. \A l \in Ldr : f \in old'[l] /\ srv'[f] = l => Unheard(f)'
    BY <2>1, <2>2, <1>old, Places DEF Unheard
  <2> QED BY <2>1, <2>3, <1>fpc, OldStep DEF Goto
<1>5. ASSUME fpc[f] = "update", Register(f)
      PROVE  f \notin old'[srv[f]] /\ \A k \in Ldr : old'[k] \subseteq old[k]
  <2>1. srv[f] \in Ldr BY <1>5 DEF ServerOK
  <2> QED BY <2>1, <1>5, Renewed DEF Register
<1>6. CASE sendUpdate(f)
  <2>1. fpc[f] = "update" /\ Register(f) /\ UNCHANGED <<srv, lost>>
    BY <1>6 DEF sendUpdate
  <2>2. \E place : Goto(f, place)
    BY <1>6 DEF sendUpdate, NextTurn
  <2> QED BY <1>5, <2>1, <2>2, <1>fpc, OldStep DEF Goto
<1>7. CASE UpdateFails(f)
  <2>1. /\ fpc[f] = "update" /\ Lose /\ (Register(f) \/ UNCHANGED old) /\ UNCHANGED srv
        /\ UNCHANGED fpc \/ Goto(f, "reselect")
    BY <1>7 DEF UpdateFails, lvars
  <2>2. fpc'[f] \in {"update", "reselect"} /\ \A g \in Flw \ {f} : fpc'[g] = fpc[g]
    BY <2>1, <1>fpc DEF Goto
  <2>3. lost' > 0 BY <2>1 DEF Lose, BoundsOK
  <2>4. Unheard(f)' BY <2>2, <2>3, Places DEF Unheard
  <2>5. \A k \in Ldr : old'[k] \subseteq old[k] BY <1>5, <2>1
  <2> QED BY <2>1, <2>2, <2>4, <2>5, OldStep
<1>8. CASE requestNodes(f) \/ updateNodes(f)
  <2>1. /\ fpc[f] \in {"ask", "apply"} /\ (Goto(f, "apply") \/ Goto(f, "update"))
        /\ UNCHANGED <<srv, old>> /\ (Lose \/ UNCHANGED lost)
    BY <1>8 DEF requestNodes, updateNodes, NextTurn, lvars
  <2>2. fpc'[f] \in {"apply", "update"} /\ \A g \in Flw \ {f} : fpc'[g] = fpc[g]
    BY <2>1, <1>fpc DEF Goto
  <2>3. lost > 0 => lost' > 0 BY <2>1, LostGrows DEF BoundsOK
  <2>4. \A l \in Ldr : f \in old'[l] /\ srv'[f] = l => Unheard(f)'
    BY <2>1, <2>2, <2>3, <1>old, Places DEF Unheard
  <2> QED BY <2>1, <2>2, <2>4, OldStep
<1>9. CASE checkServer(f)
  <2>1. /\ fpc[f] = "check" /\ UNCHANGED <<srv, old>> /\ (Lose \/ UNCHANGED lost)
        /\ \E place : Goto(f, place)
    BY <1>9 DEF checkServer, NextTurn, lvars
  <2>2. \A l \in Ldr : ~(f \in old'[l] /\ srv'[f] = l)
    BY <2>1, <1>old DEF Unheard
  <2> QED BY <2>1, <2>2, <1>fpc, OldStep DEF Goto
<1> QED BY <1>1, <1>2, <1>3, <1>4, <1>6, <1>7, <1>8, <1>9 DEF Follower

\* The leaders and the notices make no row old; time does, but not at the server
\* of a follower that runs.
LEMMA OtherOld ==
  ASSUME PartsOK, OldInv,
         \/ \E l \in Ldr : Leader(l) \/ \E f \in Flw : Age(l, f)
         \/ \E f \in Flw : Notice(f)
  PROVE OldInv'
<1> SUFFICES ASSUME NEW k \in Ldr, NEW g \in Flw, g \in old'[k], srv'[g] = k PROVE Unheard(g)'
  BY DEF OldInv
<1>1. UNCHANGED <<fpc, srv>>
  BY DEF Leader, timerFun, sendMReport, Age, Notice, fvars
<1>2. Lose \/ UNCHANGED lost
  BY DEF Leader, timerFun, sendMReport, Age, Notice
<1>3. lost > 0 => lost' > 0
  BY <1>2, LostGrows DEF PartsOK, BoundsOK
<1>4. CASE g \in old[k]
  <2>1. Unheard(g) BY <1>1, <1>4 DEF OldInv
  <2> QED BY <2>1, <1>1, <1>3 DEF Unheard
<1>5. CASE g \notin old[k]
  <2>1. \A l \in Ldr : Leader(l) => old'[k] \subseteq old[k]
    BY DEF Leader, timerFun, sendMReport
  <2>2. \A f \in Flw : Notice(f) => old'[k] \subseteq old[k]
    BY DEF Notice, lvars
  <2>3. PICK l \in Ldr, f \in Flw : Age(l, f)
    BY <1>5, <2>1, <2>2
  <2>4. l = k /\ f = g
    BY <1>5, <2>3 DEF Age, PartsOK, RowsOK
  <2>5. fpc[g] = "exited"
    BY <1>1, <2>3, <2>4 DEF Age
  <2> QED BY <1>1, <2>5 DEF Unheard
<1> QED BY <1>4, <1>5

\* A row that disappears was old: addNode and addReport name a leader.
LEMMA PurgedWasOld ==
  ASSUME PartsOK, [Next]_vars, NEW l \in Ldr, NEW f \in Flw, by[l][f] = l, by'[l][f] = None
  PROVE  f \in old[l]
<1> USE MembershipAssumption
<1>ty. by \in [Ldr -> [Flw -> Ldr \cup {None}]]
  BY DEF PartsOK, RowsOK
<1>1. ASSUME NEW k \in Ldr, NEW g \in Flw, addNode(k, g) PROVE FALSE
  BY <1>1, <1>ty DEF addNode
<1>2. ASSUME NEW g \in Flw, Follower(g) PROVE FALSE
  <2>1. CASE sendHello(g)
    <3>1. PICK k \in cand[g] : srv' = [srv EXCEPT ![g] = k]
      BY <2>1 DEF sendHello
    <3>2. k \in Ldr /\ srv'[g] = k BY <3>1 DEF PartsOK, ChoiceOK, ServerOK
    <3>3. addNode(k, g) \/ UNCHANGED by BY <2>1, <3>2 DEF sendHello, Welcome
    <3> QED BY <1>1, <3>2, <3>3
  <2>2. CASE sendUpdate(g) \/ UpdateFails(g)
    <3>1. fpc[g] = "update" /\ (Register(g) \/ UNCHANGED by)
      BY <2>2 DEF sendUpdate, UpdateFails, lvars
    <3>2. srv[g] \in Ldr BY <3>1 DEF PartsOK, ServerOK
    <3> QED BY <1>1, <3>1, <3>2 DEF Register
  <2>3. CASE \/ selectServer(g) \/ refreshNodes(g) \/ NoServer(g) \/ requestNodes(g)
             \/ updateNodes(g) \/ checkServer(g)
    BY <2>3 DEF selectServer, refreshNodes, NoServer, requestNodes, updateNodes, checkServer,
                lvars
  <2> QED BY <1>2, <2>1, <2>2, <2>3 DEF Follower
<1>3. ASSUME NEW k \in Ldr, sendMReport(k) PROVE f \in old[l]
  <2>1. PICK K \in SUBSET (mesh \ {k}) :
          by' = [m \in Ldr |-> IF m = k THEN removeOldNodes(k, by[k])
                               ELSE IF m \in K THEN addReport(m, k) ELSE by[m]]
    BY <1>3 DEF sendMReport
  <2>2. CASE l = k
    <3>1. by'[l] = removeOldNodes(l, by[l]) BY <2>1, <2>2
    <3> QED BY <3>1 DEF removeOldNodes
  <2>3. CASE l # k
    <3>1. by'[l] = addReport(l, k) \/ by'[l] = by[l] BY <2>1, <2>3
    <3> QED BY <3>1 DEF addReport
  <2> QED BY <2>2, <2>3
<1>4. ASSUME NEW k \in Ldr, timerFun(k) PROVE FALSE
  BY <1>4 DEF timerFun
<1>5. ASSUME NEW g \in Flw, Notice(g) \/ \E k \in Ldr : Age(k, g) PROVE FALSE
  BY <1>5 DEF Notice, Age, lvars
<1>6. CASE UNCHANGED vars
  BY <1>6 DEF vars, lvars
<1> QED BY <1>2, <1>3, <1>4, <1>5, <1>6 DEF Next, Leader

\* A leader purges no follower that it has heard from and that still sends to it,
\* for any number of leaders, followers, moves and lost messages, whatever the
\* purge, the reports and the greetings interleave with.
THEOREM PurgeCorrect == Spec => PurgeSparesReporting
<1>1. Init => OldInv
  BY DEF Init, OldInv
<1>2. PartsOK /\ OldInv /\ [Next]_vars => OldInv'
  <2>1. ASSUME PartsOK, OldInv, Next PROVE OldInv'
    BY <2>1, FollowerOld, OtherOld DEF Next
  <2>2. ASSUME OldInv, UNCHANGED vars PROVE OldInv'
    BY <2>2 DEF OldInv, Unheard, vars, fvars, lvars
  <2> QED BY <2>1, <2>2
<1>3. PartsOK /\ OldInv /\ [Next]_vars =>
        [\A l \in Ldr, f \in Flw :
           by[l][f] = l /\ by'[l][f] = None /\ srv[f] = l =>
             \/ fpc[f] = "exited"
             \/ lost > 0 /\ fpc[f] \notin Answers \cup {"check", "move"}]_vars
  BY PurgedWasOld DEF OldInv, Unheard
<1> QED BY <1>1, <1>2, <1>3, TypeCorrect, TypeParts, PTL DEF Spec, PurgeSparesReporting
=============================================================================
