--------------------------- MODULE SelectorProofs ---------------------------
(***************************************************************************)
(* Proofs about Selector, for every set of leaders, every number of        *)
(* rounds, any crashes, demotions and broken connections:                  *)
(*   TypeCorrect    TypeOK is an invariant;                                *)
(*   OwnerCorrect   BusyHasOwner is an invariant;                          *)
(*   RoundCorrect   RoundAgreement is an invariant;                        *)
(*   WinnerCorrect  OneWinner is an invariant;                             *)
(*   StartCorrect   without losses, SomeoneCanStart holds while all        *)
(*                  leaders are up.                                        *)
(* The strengthenings are CallInv (the state of the calls), RoundInv,      *)
(* WinnerInv and HopeInv.                                                  *)
(***************************************************************************)
EXTENDS Selector, TLAPS

\* The two calling threads of a leader are threads of the model.
LEMMA ThreadIn == \A l \in Leader : Starter(l) \in Thread /\ Selection(l) \in Thread
BY DEF Thread, Starter, Selection

\* The first component of a thread is the leader it runs at.
LEMMA ThreadOwner ==
  /\ \A t \in Thread : t[1] \in Leader
  /\ \A l \in Leader : Starter(l)[1] = l /\ Selection(l)[1] = l
BY DEF Thread, Starter, Selection

\* Threads of different leaders or kinds are different.
LEMMA ThreadDistinct ==
  /\ \A l, m \in Leader : Starter(l) # Selection(m)
  /\ \A l, m \in Leader : Starter(l) = Starter(m) => l = m
  /\ \A l, m \in Leader : Selection(l) = Selection(m) => l = m
BY DEF Starter, Selection

\* A thread is the starter or the selection thread of its leader.
LEMMA ThreadKinds ==
  \A t \in Thread : t = Starter(t[1]) \/ t = Selection(t[1])
BY DEF Thread, Starter, Selection

\* The choice loop leaves one of the proposals it was given.
LEMMA BestOfType ==
  ASSUME NEW own \in Update, NEW us \in Seq(Update), NEW i, NEW u \in BestOf(own, us, i)
  PROVE  u \in Update
BY DEF BestOf

\* The default-constructed leader_update is a leader_update.
LEMMA EmptyUpdateType == EmptyUpdate \in Update
BY DEF EmptyUpdate, Update

\* TypeOK holds when every Selector has just been constructed.
LEMMA TypeInit == Init => TypeOK
<1> SUFFICES ASSUME Init PROVE TypeOK
  OBVIOUS
<1>1. pc \in [Thread -> StarterPc \cup SelectionPc]
  BY DEF Init, StarterPc, SelectionPc
<1>2. \A l \in Leader : pc[Starter(l)] \in StarterPc /\ pc[Selection(l)] \in SelectionPc
  BY ThreadIn DEF Init, StarterPc, SelectionPc, Starter, Selection
<1>3. callee \in [Thread -> Leader]
  BY ThreadOwner DEF Init
<1>4. updates \in [Leader -> Seq(Update)]
  BY DEF Init
<1> QED
  BY <1>1, <1>2, <1>3, <1>4, EmptyUpdateType DEF Init, TypeOK, Status

\* Every action assigns each variable a value of its type.
LEMMA TypeNext == TypeOK /\ [Next]_vars => TypeOK'
<1> SUFFICES ASSUME TypeOK, [Next]_vars PROVE TypeOK'
  OBVIOUS

<1>status. status \in [Leader -> Status]
  BY DEF TypeOK
<1>id. id \in [Leader -> SelectionId \cup {0}]
  BY DEF TypeOK
<1>updates. updates \in [Leader -> Seq(Update)]
  BY DEF TypeOK
<1>pc. pc \in [Thread -> StarterPc \cup SelectionPc]
  BY DEF TypeOK
<1>callee. callee \in [Thread -> Leader]
  BY DEF TypeOK
<1>phase. phase \in [Thread -> {"idle", "sent", "joining", "roles", "replied"}]
  BY DEF TypeOK
<1>reply. reply \in [Thread -> {"POSITIVE", "NEGATIVE"}]
  BY DEF TypeOK
<1>todo. todo \in [Thread -> SUBSET Leader]
  BY DEF TypeOK
<1>ack. ack \in [Thread -> {"none", "some", "refused"}]
  BY DEF TypeOK
<1>role. role \in [Leader -> {"calc", "init"}]
  BY DEF TypeOK
<1>from. from \in [Leader -> Leader]
  BY DEF TypeOK
<1>job. job \in [Leader -> SelectionId \cup {0}]
  BY DEF TypeOK
<1>sel. sel \in [Leader -> Update]
  BY DEF TypeOK
<1>agent. agent \in [Leader -> {"up", "stopping", "down"}]
  BY DEF TypeOK
<1>starts. starts \in [Leader -> Nat]
  BY DEF TypeOK
<1>rolesDue. rolesDue \in [Leader -> Nat]
  BY DEF TypeOK
<1>greeting. greeting \in [Leader -> Nat]
  BY DEF TypeOK
<1>round. round \in [Leader -> Nat]
  BY DEF TypeOK
<1>applied. applied \subseteq [at : Leader, by : Leader, round : Nat, list : Leader]
  BY DEF TypeOK
<1>pcs. \A m \in Leader : pc[Starter(m)] \in StarterPc /\ pc[Selection(m)] \in SelectionPc
  BY DEF TypeOK
<1>1. ASSUME NEW l \in Leader, StartSelection(l) PROVE TypeOK'
  <2>1. starts' \in [Leader -> Nat]
    BY <1>1, <1>starts DEF StartSelection
  <2>2. updates' \in [Leader -> Seq(Update)]
    BY <1>1, <1>updates DEF StartSelection
  <2>3. pc' \in [Thread -> StarterPc \cup SelectionPc]
    BY <1>1, <1>pc DEF StartSelection, StarterPc, SelectionPc
  <2>4. \A m \in Leader : pc'[Starter(m)] \in StarterPc /\ pc'[Selection(m)] \in SelectionPc
    BY <1>1, <1>pc, <1>pcs, ThreadIn, ThreadDistinct DEF StartSelection, StarterPc, SelectionPc
  <2>5. UNCHANGED <<status, id, callee, phase, reply, todo, ack, role, from, job, sel,
                    agent, rolesDue, greeting, round, applied>>
    BY <1>1 DEF StartSelection, callVars, threadVars, procVars, roleVars, histVars
  <2> QED
    BY <2>1, <2>2, <2>3, <2>4, <2>5 DEF TypeOK
<1>2. ASSUME NEW l \in Leader, BeginRound(l) PROVE TypeOK'
  <2>1. pc' \in [Thread -> StarterPc \cup SelectionPc]
    BY <1>2, <1>pc DEF BeginRound, Broadcast, Peers, StarterPc, SelectionPc
  <2>2. \A m \in Leader : pc'[Starter(m)] \in StarterPc /\ pc'[Selection(m)] \in SelectionPc
    BY <1>2, <1>pc, <1>pcs, ThreadIn, ThreadDistinct
      DEF BeginRound, Broadcast, Peers, StarterPc, SelectionPc
  <2>3. id' \in [Leader -> SelectionId \cup {0}]
    BY <1>2, <1>id DEF BeginRound, Broadcast, Peers
  <2>4. status' \in [Leader -> Status]
    BY <1>2, <1>status DEF BeginRound, Broadcast, Peers, Status
  <2>5. todo' \in [Thread -> SUBSET Leader]
    BY <1>2, <1>todo DEF BeginRound, Broadcast, Peers
  <2>6. ack' \in [Thread -> {"none", "some", "refused"}]
    BY <1>2, <1>ack DEF BeginRound, Broadcast, Peers
  <2>7. UNCHANGED <<updates, callee, phase, reply, role, from, job, sel, agent, starts,
                    rolesDue, greeting, round, applied>>
    BY <1>2
      DEF BeginRound, Broadcast, Peers, callVars, threadVars, procVars, roleVars, histVars
  <2> QED
    BY <2>1, <2>2, <2>3, <2>4, <2>5, <2>6, <2>7 DEF TypeOK
<1>3. ASSUME NEW l \in Leader, InitDone(l) PROVE TypeOK'
  <2>1. pc' \in [Thread -> StarterPc \cup SelectionPc]
    BY <1>3, <1>pc DEF InitDone, Broadcast, Leave, Peers, StarterPc, SelectionPc
  <2>2. \A m \in Leader : pc'[Starter(m)] \in StarterPc /\ pc'[Selection(m)] \in SelectionPc
    BY <1>3, <1>pc, <1>pcs, ThreadIn, ThreadDistinct
      DEF InitDone, Broadcast, Leave, Peers, StarterPc, SelectionPc
  <2>3. todo' \in [Thread -> SUBSET Leader]
    BY <1>3, <1>todo DEF InitDone, Broadcast, Leave, Peers
  <2>4. ack' \in [Thread -> {"none", "some", "refused"}]
    BY <1>3, <1>ack DEF InitDone, Broadcast, Leave, Peers
  <2>5. UNCHANGED <<status, id, updates, callee, phase, reply, role, from, job, sel, agent,
                    starts, rolesDue, greeting, round, applied>>
    BY <1>3
      DEF InitDone, Broadcast, Leave, Peers, callVars, threadVars, procVars, roleVars,
          histVars
  <2> QED
    BY <2>1, <2>2, <2>3, <2>4, <2>5 DEF TypeOK
<1>4. ASSUME NEW l \in Leader, StartDone(l) PROVE TypeOK'
  <2>1. pc' \in [Thread -> StarterPc \cup SelectionPc]
    BY <1>4, <1>pc DEF StartDone, Leave, StarterPc, SelectionPc
  <2>2. \A m \in Leader : pc'[Starter(m)] \in StarterPc /\ pc'[Selection(m)] \in SelectionPc
    BY <1>4, <1>pc, <1>pcs, ThreadIn, ThreadDistinct
      DEF StartDone, Leave, StarterPc, SelectionPc
  <2>3. ack' \in [Thread -> {"none", "some", "refused"}]
    BY <1>4, <1>ack DEF StartDone, Leave
  <2>4. UNCHANGED <<status, id, updates, callee, phase, reply, todo, role, from, job, sel,
                    agent, starts, rolesDue, greeting, round, applied>>
    BY <1>4 DEF StartDone, Leave, callVars, threadVars, procVars, roleVars, histVars
  <2> QED
    BY <2>1, <2>2, <2>3, <2>4 DEF TypeOK
<1>5. ASSUME NEW l \in Leader, AbortRound(l) PROVE TypeOK'
  <2>1. status' \in [Leader -> Status]
    BY <1>5, <1>status DEF AbortRound, Broadcast, Peers, Status
  <2>2. pc' \in [Thread -> StarterPc \cup SelectionPc]
    BY <1>5, <1>pc DEF AbortRound, Broadcast, Peers, StarterPc, SelectionPc
  <2>3. \A m \in Leader : pc'[Starter(m)] \in StarterPc /\ pc'[Selection(m)] \in SelectionPc
    BY <1>5, <1>pc, <1>pcs, ThreadIn, ThreadDistinct
      DEF AbortRound, Broadcast, Peers, StarterPc, SelectionPc
  <2>4. todo' \in [Thread -> SUBSET Leader]
    BY <1>5, <1>todo DEF AbortRound, Broadcast, Peers
  <2>5. ack' \in [Thread -> {"none", "some", "refused"}]
    BY <1>5, <1>ack DEF AbortRound, Broadcast, Peers
  <2>6. UNCHANGED <<id, updates, callee, phase, reply, role, from, job, sel, agent, starts,
                    rolesDue, greeting, round, applied>>
    BY <1>5
      DEF AbortRound, Broadcast, Peers, callVars, threadVars, procVars, roleVars, histVars
  <2> QED
    BY <2>1, <2>2, <2>3, <2>4, <2>5, <2>6 DEF TypeOK
<1>6. ASSUME NEW l \in Leader, AbortDone(l) PROVE TypeOK'
  <2>1. pc' \in [Thread -> StarterPc \cup SelectionPc]
    BY <1>6, <1>pc DEF AbortDone, Leave, StarterPc, SelectionPc
  <2>2. \A m \in Leader : pc'[Starter(m)] \in StarterPc /\ pc'[Selection(m)] \in SelectionPc
    BY <1>6, <1>pc, <1>pcs, ThreadIn, ThreadDistinct
      DEF AbortDone, Leave, StarterPc, SelectionPc
  <2>3. ack' \in [Thread -> {"none", "some", "refused"}]
    BY <1>6, <1>ack DEF AbortDone, Leave
  <2>4. UNCHANGED <<status, id, updates, callee, phase, reply, todo, role, from, job, sel,
                    agent, starts, rolesDue, greeting, round, applied>>
    BY <1>6 DEF AbortDone, Leave, callVars, threadVars, procVars, roleVars, histVars
  <2> QED
    BY <2>1, <2>2, <2>3, <2>4 DEF TypeOK
<1>7. ASSUME NEW l \in Leader, SetStarted(l) PROVE TypeOK'
  <2>1. status' \in [Leader -> Status]
    BY <1>7, <1>status DEF SetStarted, Status
  <2>2. pc' \in [Thread -> StarterPc \cup SelectionPc]
    BY <1>7, <1>pc DEF SetStarted, StarterPc, SelectionPc
  <2>3. \A m \in Leader : pc'[Starter(m)] \in StarterPc /\ pc'[Selection(m)] \in SelectionPc
    BY <1>7, <1>pc, <1>pcs, ThreadIn, ThreadDistinct DEF SetStarted, StarterPc, SelectionPc
  <2>4. UNCHANGED <<id, updates, callee, phase, reply, todo, ack, role, from, job, sel,
                    agent, starts, rolesDue, greeting, round, applied>>
    BY <1>7 DEF SetStarted, callVars, threadVars, procVars, roleVars, histVars
  <2> QED
    BY <2>1, <2>2, <2>3, <2>4 DEF TypeOK
<1>8. ASSUME NEW l \in Leader, JoinSelection(l) PROVE TypeOK'
  <2>1. pc' \in [Thread -> StarterPc \cup SelectionPc]
    BY <1>8, <1>pc DEF JoinSelection, StarterPc, SelectionPc
  <2>2. \A m \in Leader : pc'[Starter(m)] \in StarterPc /\ pc'[Selection(m)] \in SelectionPc
    BY <1>8, <1>pc, <1>pcs, ThreadIn, ThreadDistinct DEF JoinSelection, StarterPc, SelectionPc
  <2>3. agent' \in [Leader -> {"up", "stopping", "down"}]
    BY <1>8, <1>agent DEF JoinSelection
  <2>4. UNCHANGED <<status, id, updates, callee, phase, reply, todo, ack, role, from, job,
                    sel, starts, rolesDue, greeting, round, applied>>
    BY <1>8 DEF JoinSelection, callVars, threadVars, procVars, roleVars, histVars
  <2> QED
    BY <2>1, <2>2, <2>3, <2>4 DEF TypeOK
<1>9. ASSUME NEW l \in Leader, SpawnSelection(l) PROVE TypeOK'
  <2>1. pc' \in [Thread -> StarterPc \cup SelectionPc]
    BY <1>9, <1>pc DEF SpawnSelection, StarterPc, SelectionPc
  <2>2. \A m \in Leader : pc'[Starter(m)] \in StarterPc /\ pc'[Selection(m)] \in SelectionPc
    BY <1>9, <1>pc, <1>pcs, ThreadIn, ThreadDistinct DEF SpawnSelection, StarterPc, SelectionPc
  <2>3. role' \in [Leader -> {"calc", "init"}]
    BY <1>9, <1>role DEF SpawnSelection
  <2>4. round' \in [Leader -> Nat]
    BY <1>9, <1>round DEF SpawnSelection
  <2>5. agent' \in [Leader -> {"up", "stopping", "down"}]
    BY <1>9, <1>agent DEF SpawnSelection
  <2>6. UNCHANGED <<status, id, updates, callee, phase, reply, todo, ack, from, job, sel,
                    starts, rolesDue, greeting, applied>>
    BY <1>9 DEF SpawnSelection, callVars, threadVars, procVars, roleVars, histVars
  <2> QED
    BY <2>1, <2>2, <2>3, <2>4, <2>5, <2>6 DEF TypeOK
<1>10. ASSUME NEW l \in Leader, EnterSelection(l) PROVE TypeOK'
  <2>1. job' \in [Leader -> SelectionId \cup {0}]
    BY <1>10, <1>job, <1>id DEF EnterSelection
  <2>2. pc' \in [Thread -> StarterPc \cup SelectionPc]
    BY <1>10, <1>pc DEF EnterSelection, StarterPc, SelectionPc
  <2>3. \A m \in Leader : pc'[Starter(m)] \in StarterPc /\ pc'[Selection(m)] \in SelectionPc
    BY <1>10, <1>pc, <1>pcs, ThreadIn, ThreadDistinct
      DEF EnterSelection, StarterPc, SelectionPc
  <2>4. UNCHANGED <<status, id, updates, callee, phase, reply, todo, ack, role, from, sel,
                    agent, starts, rolesDue, greeting, round, applied>>
    BY <1>10 DEF EnterSelection, callVars, threadVars, procVars, roleVars, histVars
  <2> QED
    BY <2>1, <2>2, <2>3, <2>4 DEF TypeOK
<1>11. ASSUME NEW l \in Leader, RunCluster(l) PROVE TypeOK'
  <2>1. sel' \in [Leader -> Update]
    BY <1>11, <1>sel, EmptyUpdateType, <1>job DEF RunCluster, Update
  <2>2. pc' \in [Thread -> StarterPc \cup SelectionPc]
    BY <1>11, <1>pc DEF RunCluster, StarterPc, SelectionPc
  <2>3. \A m \in Leader : pc'[Starter(m)] \in StarterPc /\ pc'[Selection(m)] \in SelectionPc
    BY <1>11, <1>pc, <1>pcs, ThreadIn, ThreadDistinct DEF RunCluster, StarterPc, SelectionPc
  <2>4. UNCHANGED <<status, id, updates, callee, phase, reply, todo, ack, role, from, job,
                    agent, starts, rolesDue, greeting, round, applied>>
    BY <1>11 DEF RunCluster, callVars, threadVars, procVars, roleVars, histVars
  <2> QED
    BY <2>1, <2>2, <2>3, <2>4 DEF TypeOK
<1>12. ASSUME NEW l \in Leader, SendSelection(l) PROVE TypeOK'
  <2>1. sel' \in [Leader -> Update]
    BY <1>12, <1>sel DEF SendSelection, Update, AfterEmptyTest
  <2>2. pc' \in [Thread -> StarterPc \cup SelectionPc]
    BY <1>12, <1>pc DEF SendSelection, StarterPc, SelectionPc
  <2>3. \A m \in Leader : pc'[Starter(m)] \in StarterPc /\ pc'[Selection(m)] \in SelectionPc
    BY <1>12, <1>pc, <1>pcs, ThreadIn, ThreadDistinct DEF SendSelection, StarterPc, SelectionPc
  <2>4. callee' \in [Thread -> Leader]
    BY <1>12, <1>callee, <1>from DEF SendSelection
  <2>5. phase' \in [Thread -> {"idle", "sent", "joining", "roles", "replied"}]
    BY <1>12, <1>phase DEF SendSelection
  <2>6. UNCHANGED <<status, id, updates, reply, todo, ack, role, from, job, agent, starts,
                    rolesDue, greeting, round, applied>>
    BY <1>12 DEF SendSelection, callVars, threadVars, procVars, roleVars, histVars
  <2> QED
    BY <2>1, <2>2, <2>3, <2>4, <2>5, <2>6 DEF TypeOK
<1>13. ASSUME NEW l \in Leader, Choose(l) PROVE TypeOK'
  <2>1. sel' \in [Leader -> Update]
    <3>1. PICK u \in BestOf(sel[l], updates[l], id[l]) :
            \/ sel' = [sel EXCEPT ![l] = u]
            \/ sel' = [sel EXCEPT ![l] = [u EXCEPT !.list = NoList]]
      BY <1>13 DEF Choose
    <3>2. u \in Update
      BY <1>sel, <1>updates, BestOfType
    <3>3. [u EXCEPT !.list = NoList] \in Update
      BY <3>2 DEF Update
    <3> QED
      BY <1>sel, <3>1, <3>2, <3>3
  <2>2. pc' \in [Thread -> StarterPc \cup SelectionPc]
    BY <1>13, <1>pc DEF Choose, Broadcast, Peers, StarterPc, SelectionPc
  <2>3. \A m \in Leader : pc'[Starter(m)] \in StarterPc /\ pc'[Selection(m)] \in SelectionPc
    BY <1>13, <1>pc, <1>pcs, ThreadIn, ThreadDistinct
      DEF Choose, Broadcast, Peers, StarterPc, SelectionPc
  <2>4. todo' \in [Thread -> SUBSET Leader]
    BY <1>13, <1>todo DEF Choose, Broadcast, Peers
  <2>5. ack' \in [Thread -> {"none", "some", "refused"}]
    BY <1>13, <1>ack DEF Choose, Broadcast, Peers
  <2>6. UNCHANGED <<status, id, updates, callee, phase, reply, role, from, job, agent,
                    starts, rolesDue, greeting, round, applied>>
    BY <1>13 DEF Choose, Broadcast, Peers, callVars, threadVars, procVars, roleVars, histVars
  <2> QED
    BY <2>1, <2>2, <2>3, <2>4, <2>5, <2>6 DEF TypeOK
<1>14. ASSUME NEW l \in Leader, EndDone(l) PROVE TypeOK'
  <2>1. pc' \in [Thread -> StarterPc \cup SelectionPc]
    BY <1>14, <1>pc DEF EndDone, Leave, StarterPc, SelectionPc
  <2>2. \A m \in Leader : pc'[Starter(m)] \in StarterPc /\ pc'[Selection(m)] \in SelectionPc
    BY <1>14, <1>pc, <1>pcs, ThreadIn, ThreadDistinct
      DEF EndDone, Leave, StarterPc, SelectionPc
  <2>3. ack' \in [Thread -> {"none", "some", "refused"}]
    BY <1>14, <1>ack DEF EndDone, Leave
  <2>4. UNCHANGED <<status, id, updates, callee, phase, reply, todo, role, from, job, sel,
                    agent, starts, rolesDue, greeting, round, applied>>
    BY <1>14 DEF EndDone, Leave, callVars, threadVars, procVars, roleVars, histVars
  <2> QED
    BY <2>1, <2>2, <2>3, <2>4 DEF TypeOK
<1>15. ASSUME NEW l \in Leader, FreeStatus(l) PROVE TypeOK'
  <2>1. status' \in [Leader -> Status]
    BY <1>15, <1>status DEF FreeStatus, Leave, ThreadEnds, Status
  <2>2. pc' \in [Thread -> StarterPc \cup SelectionPc]
    BY <1>15, <1>pc DEF FreeStatus, Leave, ThreadEnds, StarterPc, SelectionPc
  <2>3. \A m \in Leader : pc'[Starter(m)] \in StarterPc /\ pc'[Selection(m)] \in SelectionPc
    BY <1>15, <1>pc, <1>pcs, ThreadIn, ThreadDistinct
      DEF FreeStatus, Leave, ThreadEnds, StarterPc, SelectionPc
  <2>4. ack' \in [Thread -> {"none", "some", "refused"}]
    BY <1>15, <1>ack DEF FreeStatus, Leave, ThreadEnds
  <2>5. from' \in [Leader -> Leader]
    BY <1>15, <1>from DEF FreeStatus, Leave, ThreadEnds
  <2>6. job' \in [Leader -> SelectionId \cup {0}]
    BY <1>15, <1>job, <1>id DEF FreeStatus, Leave, ThreadEnds
  <2>7. sel' \in [Leader -> Update]
    BY <1>15, <1>sel, EmptyUpdateType DEF FreeStatus, Leave, ThreadEnds
  <2>8. UNCHANGED <<id, updates, callee, phase, reply, todo, role, agent, starts, rolesDue,
                    greeting, round, applied>>
    BY <1>15
      DEF FreeStatus, Leave, ThreadEnds, callVars, threadVars, procVars, roleVars, histVars
  <2> QED
    BY <2>1, <2>2, <2>3, <2>4, <2>5, <2>6, <2>7, <2>8 DEF TypeOK
<1>16. ASSUME NEW l \in Leader, InitiatorRoles(l) PROVE TypeOK'
  <2>1. applied' \subseteq [at : Leader, by : Leader, round : Nat, list : Leader]
    BY <1>16, <1>applied, <1>sel, <1>round
      DEF InitiatorRoles, ChangeRoles, ThreadEnds, Leave, Update
  <2>2. rolesDue' \in [Leader -> Nat]
    BY <1>16, <1>rolesDue DEF InitiatorRoles, ChangeRoles, ThreadEnds, Leave
  <2>3. pc' \in [Thread -> StarterPc \cup SelectionPc]
    BY <1>16, <1>pc DEF InitiatorRoles, ChangeRoles, ThreadEnds, Leave, StarterPc, SelectionPc
  <2>4. \A m \in Leader : pc'[Starter(m)] \in StarterPc /\ pc'[Selection(m)] \in SelectionPc
    BY <1>16, <1>pc, <1>pcs, ThreadIn, ThreadDistinct
      DEF InitiatorRoles, ChangeRoles, ThreadEnds, Leave, StarterPc, SelectionPc
  <2>5. ack' \in [Thread -> {"none", "some", "refused"}]
    BY <1>16, <1>ack DEF InitiatorRoles, ChangeRoles, ThreadEnds, Leave
  <2>6. from' \in [Leader -> Leader]
    BY <1>16, <1>from DEF InitiatorRoles, ChangeRoles, ThreadEnds, Leave
  <2>7. job' \in [Leader -> SelectionId \cup {0}]
    BY <1>16, <1>job, <1>id DEF InitiatorRoles, ChangeRoles, ThreadEnds, Leave
  <2>8. sel' \in [Leader -> Update]
    BY <1>16, <1>sel, EmptyUpdateType DEF InitiatorRoles, ChangeRoles, ThreadEnds, Leave
  <2>9. UNCHANGED <<status, id, updates, callee, phase, reply, todo, role, agent, starts,
                    greeting, round>>
    BY <1>16
      DEF InitiatorRoles, ChangeRoles, ThreadEnds, Leave, callVars, threadVars, procVars,
          roleVars, histVars
  <2> QED
    BY <2>1, <2>2, <2>3, <2>4, <2>5, <2>6, <2>7, <2>8, <2>9 DEF TypeOK
<1>17. ASSUME NEW l \in Leader, Demote(l) PROVE TypeOK'
  <2>1. rolesDue' \in [Leader -> Nat]
    BY <1>17, <1>rolesDue DEF Demote
  <2>2. agent' \in [Leader -> {"up", "stopping", "down"}]
    BY <1>17, <1>agent DEF Demote
  <2>3. UNCHANGED <<status, id, updates, pc, callee, phase, reply, todo, ack, role, from,
                    job, sel, starts, greeting, round, applied>>
    BY <1>17 DEF Demote, callVars, threadVars, procVars, roleVars, histVars
  <2> QED
    BY <2>1, <2>2, <2>3 DEF TypeOK
<1>18. ASSUME NEW l \in Leader, Retain(l) PROVE TypeOK'
  <2>1. status' \in [Leader -> Status]
    BY <1>18, <1>status DEF Retain, Status
  <2>2. rolesDue' \in [Leader -> Nat]
    BY <1>18, <1>rolesDue DEF Retain
  <2>3. greeting' \in [Leader -> Nat]
    BY <1>18, <1>greeting DEF Retain
  <2>4. UNCHANGED <<id, updates, pc, callee, phase, reply, todo, ack, role, from, job, sel,
                    agent, starts, round, applied>>
    BY <1>18 DEF Retain, callVars, threadVars, procVars, roleVars, histVars
  <2> QED
    BY <2>1, <2>2, <2>3, <2>4 DEF TypeOK
<1>19. ASSUME NEW l \in Leader, Greet(l) PROVE TypeOK'
  <2>1. greeting' \in [Leader -> Nat]
    BY <1>19, <1>greeting DEF Greet
  <2>2. agent' \in [Leader -> {"up", "stopping", "down"}]
    BY <1>19, <1>agent DEF Greet
  <2>3. UNCHANGED <<status, id, updates, pc, callee, phase, reply, todo, ack, role, from,
                    job, sel, starts, rolesDue, round, applied>>
    BY <1>19 DEF Greet, callVars, threadVars, procVars, roleVars, histVars
  <2> QED
    BY <2>1, <2>2, <2>3 DEF TypeOK
<1>20. ASSUME NEW l \in Leader, Crash(l) PROVE TypeOK'
  <2>1. agent' \in [Leader -> {"up", "stopping", "down"}]
    BY <1>20, <1>agent DEF Crash
  <2>2. UNCHANGED <<status, id, updates, pc, callee, phase, reply, todo, ack, role, from,
                    job, sel, starts, rolesDue, greeting, round, applied>>
    BY <1>20 DEF Crash, callVars, threadVars, procVars, roleVars, histVars
  <2> QED
    BY <2>1, <2>2 DEF TypeOK
<1>21. ASSUME NEW t \in Thread, CallNext(t) PROVE TypeOK'
  <2>1. callee' \in [Thread -> Leader]
    BY <1>21, <1>callee, ThreadOwner, <1>todo DEF CallNext
  <2>2. todo' \in [Thread -> SUBSET Leader]
    BY <1>21, <1>todo DEF CallNext
  <2>3. phase' \in [Thread -> {"idle", "sent", "joining", "roles", "replied"}]
    BY <1>21, <1>phase DEF CallNext
  <2>4. UNCHANGED <<status, id, updates, pc, reply, ack, role, from, job, sel, agent,
                    starts, rolesDue, greeting, round, applied>>
    BY <1>21 DEF CallNext, callVars, threadVars, procVars, roleVars, histVars
  <2> QED
    BY <2>1, <2>2, <2>3, <2>4 DEF TypeOK
<1>22. ASSUME NEW t \in Thread, CallReturns(t) PROVE TypeOK'
  <2>1. phase' \in [Thread -> {"idle", "sent", "joining", "roles", "replied"}]
    BY <1>22, <1>phase DEF CallReturns, HangUp
  <2>2. callee' \in [Thread -> Leader]
    BY <1>22, <1>callee, ThreadOwner DEF CallReturns, HangUp
  <2>3. reply' \in [Thread -> {"POSITIVE", "NEGATIVE"}]
    BY <1>22, <1>reply DEF CallReturns, HangUp
  <2>4. ack' \in [Thread -> {"none", "some", "refused"}]
    BY <1>22, <1>ack DEF CallReturns, HangUp
  <2>5. todo' \in [Thread -> SUBSET Leader]
    BY <1>22, <1>todo DEF CallReturns, HangUp
  <2>6. UNCHANGED <<status, id, updates, pc, role, from, job, sel, agent, starts, rolesDue,
                    greeting, round, applied>>
    BY <1>22 DEF CallReturns, HangUp, callVars, threadVars, procVars, roleVars, histVars
  <2> QED
    BY <2>1, <2>2, <2>3, <2>4, <2>5, <2>6 DEF TypeOK
<1>23. ASSUME NEW t \in Thread, CallFails(t) PROVE TypeOK'
  <2>1. phase' \in [Thread -> {"idle", "sent", "joining", "roles", "replied"}]
    BY <1>23, <1>phase DEF CallFails, HangUp
  <2>2. callee' \in [Thread -> Leader]
    BY <1>23, <1>callee, ThreadOwner DEF CallFails, HangUp
  <2>3. reply' \in [Thread -> {"POSITIVE", "NEGATIVE"}]
    BY <1>23, <1>reply DEF CallFails, HangUp
  <2>4. UNCHANGED <<status, id, updates, pc, todo, ack, role, from, job, sel, agent, starts,
                    rolesDue, greeting, round, applied>>
    BY <1>23 DEF CallFails, HangUp, callVars, threadVars, procVars, roleVars, histVars
  <2> QED
    BY <2>1, <2>2, <2>3, <2>4 DEF TypeOK
<1>24. ASSUME NEW t \in Thread, HandleInit(t) PROVE TypeOK'
  <2>1. phase' \in [Thread -> {"idle", "sent", "joining", "roles", "replied"}]
    BY <1>24, <1>phase DEF HandleInit, Answer, Arrived
  <2>2. reply' \in [Thread -> {"POSITIVE", "NEGATIVE"}]
    BY <1>24, <1>reply DEF HandleInit, Answer, Arrived
  <2>3. status' \in [Leader -> Status]
    BY <1>24, <1>status DEF HandleInit, Answer, Arrived, Status
  <2>4. UNCHANGED <<id, updates, pc, callee, todo, ack, role, from, job, sel, agent, starts,
                    rolesDue, greeting, round, applied>>
    BY <1>24
      DEF HandleInit, Answer, Arrived, callVars, threadVars, procVars, roleVars, histVars
  <2> QED
    BY <2>1, <2>2, <2>3, <2>4 DEF TypeOK
<1>25. ASSUME NEW t \in Thread, HandleStart(t) PROVE TypeOK'
  <2>1. phase' \in [Thread -> {"idle", "sent", "joining", "roles", "replied"}]
    BY <1>25, <1>phase DEF HandleStart, Answer, Arrived, SpawnCalc
  <2>2. reply' \in [Thread -> {"POSITIVE", "NEGATIVE"}]
    BY <1>25, <1>reply DEF HandleStart, Answer, Arrived, SpawnCalc
  <2>3. status' \in [Leader -> Status]
    BY <1>25, <1>status DEF HandleStart, Answer, Arrived, SpawnCalc, Status
  <2>4. pc' \in [Thread -> StarterPc \cup SelectionPc]
    BY <1>25, <1>pc DEF HandleStart, Answer, Arrived, SpawnCalc, StarterPc, SelectionPc
  <2>5. \A m \in Leader : pc'[Starter(m)] \in StarterPc /\ pc'[Selection(m)] \in SelectionPc
    BY <1>25, <1>callee, <1>pc, <1>pcs, ThreadIn, ThreadDistinct
      DEF HandleStart, Answer, Arrived, SpawnCalc, StarterPc, SelectionPc
  <2>6. role' \in [Leader -> {"calc", "init"}]
    BY <1>25, <1>role DEF HandleStart, Answer, Arrived, SpawnCalc
  <2>7. from' \in [Leader -> Leader]
    BY <1>25, <1>from, ThreadOwner DEF HandleStart, Answer, Arrived, SpawnCalc
  <2>8. job' \in [Leader -> SelectionId \cup {0}]
    BY <1>25, <1>job, ThreadOwner, <1>id DEF HandleStart, Answer, Arrived, SpawnCalc
  <2>9. UNCHANGED <<id, updates, callee, todo, ack, sel, agent, starts, rolesDue, greeting,
                    round, applied>>
    BY <1>25
      DEF HandleStart, Answer, Arrived, SpawnCalc, callVars, threadVars, procVars, roleVars,
          histVars
  <2> QED
    BY <2>1, <2>2, <2>3, <2>4, <2>5, <2>6, <2>7, <2>8, <2>9 DEF TypeOK
<1>26. ASSUME NEW t \in Thread, HandleStartJoined(t) PROVE TypeOK'
  <2>1. phase' \in [Thread -> {"idle", "sent", "joining", "roles", "replied"}]
    BY <1>26, <1>phase DEF HandleStartJoined, Answer, SpawnCalc
  <2>2. reply' \in [Thread -> {"POSITIVE", "NEGATIVE"}]
    BY <1>26, <1>reply DEF HandleStartJoined, Answer, SpawnCalc
  <2>3. pc' \in [Thread -> StarterPc \cup SelectionPc]
    BY <1>26, <1>pc DEF HandleStartJoined, Answer, SpawnCalc, StarterPc, SelectionPc
  <2>4. \A m \in Leader : pc'[Starter(m)] \in StarterPc /\ pc'[Selection(m)] \in SelectionPc
    BY <1>26, <1>callee, <1>pc, <1>pcs, ThreadIn, ThreadDistinct
      DEF HandleStartJoined, Answer, SpawnCalc, StarterPc, SelectionPc
  <2>5. role' \in [Leader -> {"calc", "init"}]
    BY <1>26, <1>role DEF HandleStartJoined, Answer, SpawnCalc
  <2>6. from' \in [Leader -> Leader]
    BY <1>26, <1>from, ThreadOwner DEF HandleStartJoined, Answer, SpawnCalc
  <2>7. job' \in [Leader -> SelectionId \cup {0}]
    BY <1>26, <1>job, ThreadOwner, <1>id DEF HandleStartJoined, Answer, SpawnCalc
  <2>8. UNCHANGED <<status, id, updates, callee, todo, ack, sel, agent, starts, rolesDue,
                    greeting, round, applied>>
    BY <1>26
      DEF HandleStartJoined, Answer, SpawnCalc, callVars, threadVars, procVars, roleVars,
          histVars
  <2> QED
    BY <2>1, <2>2, <2>3, <2>4, <2>5, <2>6, <2>7, <2>8 DEF TypeOK
<1>27. ASSUME NEW t \in Thread, HandleSelection(t) PROVE TypeOK'
  <2>1. phase' \in [Thread -> {"idle", "sent", "joining", "roles", "replied"}]
    BY <1>27, <1>phase DEF HandleSelection, Answer, Arrived
  <2>2. reply' \in [Thread -> {"POSITIVE", "NEGATIVE"}]
    BY <1>27, <1>reply DEF HandleSelection, Answer, Arrived
  <2>3. updates' \in [Leader -> Seq(Update)]
    <3>1. Append(updates[callee[t]], sel[t[1]]) \in Seq(Update)
      BY <1>updates, <1>sel, <1>callee, ThreadOwner
    <3> QED
      BY <1>27, <1>updates, <3>1 DEF HandleSelection
  <2>4. UNCHANGED <<status, id, pc, callee, todo, ack, role, from, job, sel, agent, starts,
                    rolesDue, greeting, round, applied>>
    BY <1>27
      DEF HandleSelection, Answer, Arrived, callVars, threadVars, procVars, roleVars,
          histVars
  <2> QED
    BY <2>1, <2>2, <2>3, <2>4 DEF TypeOK
<1>28. ASSUME NEW t \in Thread, HandleEndRoles(t) PROVE TypeOK'
  <2>1. applied' \subseteq [at : Leader, by : Leader, round : Nat, list : Leader]
    BY <1>28, <1>applied, <1>sel, <1>round, ThreadOwner, <1>callee
      DEF HandleEndRoles, Arrived, ChangeRoles, Update
  <2>2. rolesDue' \in [Leader -> Nat]
    BY <1>28, <1>rolesDue, <1>callee DEF HandleEndRoles, Arrived, ChangeRoles
  <2>3. phase' \in [Thread -> {"idle", "sent", "joining", "roles", "replied"}]
    BY <1>28, <1>phase DEF HandleEndRoles, Arrived, ChangeRoles
  <2>4. UNCHANGED <<status, id, updates, pc, callee, reply, todo, ack, role, from, job, sel,
                    agent, starts, greeting, round>>
    BY <1>28
      DEF HandleEndRoles, Arrived, ChangeRoles, callVars, threadVars, procVars, roleVars,
          histVars
  <2> QED
    BY <2>1, <2>2, <2>3, <2>4 DEF TypeOK
<1>29. ASSUME NEW t \in Thread, HandleEndStop(t) PROVE TypeOK'
  <2>1. status' \in [Leader -> Status]
    BY <1>29, <1>status DEF HandleEndStop, Answer, Status
  <2>2. phase' \in [Thread -> {"idle", "sent", "joining", "roles", "replied"}]
    BY <1>29, <1>phase DEF HandleEndStop, Answer
  <2>3. reply' \in [Thread -> {"POSITIVE", "NEGATIVE"}]
    BY <1>29, <1>reply DEF HandleEndStop, Answer
  <2>4. UNCHANGED <<id, updates, pc, callee, todo, ack, role, from, job, sel, agent, starts,
                    rolesDue, greeting, round, applied>>
    BY <1>29 DEF HandleEndStop, Answer, callVars, threadVars, procVars, roleVars, histVars
  <2> QED
    BY <2>1, <2>2, <2>3, <2>4 DEF TypeOK
<1>30. CASE UNCHANGED vars
  BY <1>30 DEF TypeOK, vars, callVars, threadVars, procVars, roleVars, histVars
<1> QED
  BY <1>1, <1>2, <1>3, <1>4, <1>5, <1>6, <1>7, <1>8, <1>9, <1>10, <1>11, <1>12, <1>13,
     <1>14, <1>15, <1>16, <1>17, <1>18, <1>19, <1>20, <1>21, <1>22, <1>23, <1>24, <1>25,
     <1>26, <1>27, <1>28, <1>29, <1>30
    DEF Next, StarterStep, SelectionStep, RolesStep, CallStep, Handler

\* Every variable of every leader keeps to the values the code can give it.
THEOREM TypeCorrect == Spec => []TypeOK
<1>1. Init => TypeOK
  BY TypeInit
<1>2. TypeOK /\ [Next]_vars => TypeOK'
  BY TypeNext
<1> QED
  BY <1>1, <1>2, PTL DEF Spec
-----------------------------------------------------------------------------
(* The calls: what phase, callee and ack may be at each pc value.          *)

\* An idle thread has no callee; a call is made only from the broadcasts and
\* from sendSelection; only a START request joins, only an END one changes
\* roles; a refused broadcast makes no further call.
CallOk(t) ==
  /\ phase[t] = "idle" => callee[t] = t[1]
  /\ phase[t] # "idle" => pc[t] \in Broadcasting \cup {"SELECTION"}
  /\ phase[t] = "joining" => pc[t] = "START"
  /\ phase[t] = "roles" => pc[t] \in {"END", "ABORT"}
  /\ t[2] = "starter" /\ ack[t] = "refused" => phase[t] = "idle" /\ todo[t] = {}

CallInv == \A t \in Thread : CallOk(t)

\* No call is in progress initially.
LEMMA CallInit == Init => CallInv
BY DEF Init, CallInv, CallOk

\* Every action preserves the state of the calls.
LEMMA CallNextStep == TypeOK /\ CallInv /\ [Next]_vars => CallInv'
<1> SUFFICES ASSUME TypeOK, CallInv, [Next]_vars, NEW u \in Thread PROVE CallOk(u)'
  BY DEF CallInv
<1>pc. pc \in [Thread -> StarterPc \cup SelectionPc]
  BY DEF TypeOK
<1>ty. /\ callee \in [Thread -> Leader]
       /\ phase \in [Thread -> {"idle", "sent", "joining", "roles", "replied"}]
       /\ ack \in [Thread -> {"none", "some", "refused"}]
       /\ todo \in [Thread -> SUBSET Leader]
  BY DEF TypeOK
<1>ok. CallOk(u)
  BY DEF CallInv
<1>th. /\ \A l \in Leader : Selection(l)[2] = "selection" /\ Starter(l)[2] = "starter"
  BY DEF Selection, Starter
<1>1. ASSUME NEW l \in Leader, StartSelection(l) PROVE CallOk(u)'
  BY <1>1, <1>pc, <1>ty, <1>ok, <1>th, ThreadIn, ThreadDistinct, ThreadOwner
  DEF StartSelection, CallOk, Broadcasting, callVars, threadVars, procVars, roleVars, histVars
<1>2. ASSUME NEW l \in Leader, BeginRound(l) PROVE CallOk(u)'
  BY <1>2, <1>pc, <1>ty, <1>ok, <1>th, ThreadIn, ThreadDistinct, ThreadOwner
  DEF BeginRound, Broadcast, CallOk, Broadcasting, callVars, threadVars, procVars, roleVars,
      histVars
<1>3. ASSUME NEW l \in Leader, InitDone(l) PROVE CallOk(u)'
  BY <1>3, <1>pc, <1>ty, <1>ok, <1>th, ThreadIn, ThreadDistinct, ThreadOwner
  DEF InitDone, Broadcast, Leave, BroadcastOver, CallOk, Broadcasting, callVars, threadVars,
      procVars, roleVars, histVars
<1>4. ASSUME NEW l \in Leader, StartDone(l) PROVE CallOk(u)'
  BY <1>4, <1>pc, <1>ty, <1>ok, <1>th, ThreadIn, ThreadDistinct, ThreadOwner
  DEF StartDone, Leave, BroadcastOver, CallOk, Broadcasting, callVars, threadVars, procVars,
      roleVars, histVars
<1>5. ASSUME NEW l \in Leader, AbortRound(l) PROVE CallOk(u)'
  BY <1>5, <1>pc, <1>ty, <1>ok, <1>th, ThreadIn, ThreadDistinct, ThreadOwner, SMTT(60)
  DEF AbortRound, Broadcast, CallOk, Broadcasting, callVars, threadVars, procVars, roleVars,
      histVars
<1>6. ASSUME NEW l \in Leader, AbortDone(l) PROVE CallOk(u)'
  BY <1>6, <1>pc, <1>ty, <1>ok, <1>th, ThreadIn, ThreadDistinct, ThreadOwner
  DEF AbortDone, Leave, BroadcastOver, CallOk, Broadcasting, callVars, threadVars, procVars,
      roleVars, histVars
<1>7. ASSUME NEW l \in Leader, SetStarted(l) PROVE CallOk(u)'
  BY <1>7, <1>pc, <1>ty, <1>ok, <1>th, ThreadIn, ThreadDistinct, ThreadOwner
  DEF SetStarted, CallOk, Broadcasting, callVars, threadVars, procVars, roleVars, histVars
<1>8. ASSUME NEW l \in Leader, JoinSelection(l) PROVE CallOk(u)'
  BY <1>8, <1>pc, <1>ty, <1>ok, <1>th, ThreadIn, ThreadDistinct, ThreadOwner, ZenonT(60)
  DEF JoinSelection, Running, CallOk, Broadcasting, callVars, threadVars, procVars,
      roleVars, histVars
<1>9. ASSUME NEW l \in Leader, SpawnSelection(l) PROVE CallOk(u)'
  BY <1>9, <1>pc, <1>ty, <1>ok, <1>th, ThreadIn, ThreadDistinct, ThreadOwner, ZenonT(60)
  DEF SpawnSelection, CallOk, Broadcasting, callVars, threadVars, procVars, roleVars, histVars
<1>10. ASSUME NEW l \in Leader, EnterSelection(l) PROVE CallOk(u)'
  BY <1>10, <1>pc, <1>ty, <1>ok, <1>th, ThreadIn, ThreadDistinct, ThreadOwner
  DEF EnterSelection, CallOk, Broadcasting, callVars, threadVars, procVars, roleVars, histVars
<1>11. ASSUME NEW l \in Leader, RunCluster(l) PROVE CallOk(u)'
  BY <1>11, <1>pc, <1>ty, <1>ok, <1>th, ThreadIn, ThreadDistinct, ThreadOwner
  DEF RunCluster, CallOk, Broadcasting, callVars, threadVars, procVars, roleVars, histVars
<1>12. ASSUME NEW l \in Leader, SendSelection(l) PROVE CallOk(u)'
  BY <1>12, <1>pc, <1>ty, <1>ok, <1>th, ThreadIn, ThreadDistinct, ThreadOwner
  DEF SendSelection, CallOk, Broadcasting, callVars, threadVars, procVars, roleVars, histVars
<1>13. ASSUME NEW l \in Leader, Choose(l) PROVE CallOk(u)'
  BY <1>13, <1>pc, <1>ty, <1>ok, <1>th, ThreadIn, ThreadDistinct, ThreadOwner
  DEF Choose, Broadcast, CallOk, Broadcasting, callVars, threadVars, procVars, roleVars,
      histVars
<1>14. ASSUME NEW l \in Leader, EndDone(l) PROVE CallOk(u)'
  BY <1>14, <1>pc, <1>ty, <1>ok, <1>th, ThreadIn, ThreadDistinct, ThreadOwner
  DEF EndDone, Leave, BroadcastOver, CallOk, Broadcasting, callVars, threadVars, procVars,
      roleVars, histVars
<1>15. ASSUME NEW l \in Leader, FreeStatus(l) PROVE CallOk(u)'
  BY <1>15, <1>pc, <1>ty, <1>ok, <1>th, ThreadIn, ThreadDistinct, ThreadOwner
  DEF FreeStatus, AtFree, Leave, ThreadEnds, CallOk, Broadcasting, callVars, threadVars,
      procVars, roleVars, histVars
<1>16. ASSUME NEW l \in Leader, InitiatorRoles(l) PROVE CallOk(u)'
  BY <1>16, <1>pc, <1>ty, <1>ok, <1>th, ThreadIn, ThreadDistinct, ThreadOwner
  DEF InitiatorRoles, ThreadEnds, Leave, CallOk, Broadcasting, callVars, threadVars,
      procVars, roleVars, histVars
<1>17. ASSUME NEW l \in Leader, Demote(l) PROVE CallOk(u)'
  BY <1>17, <1>pc, <1>ty, <1>ok, <1>th, ThreadIn, ThreadDistinct, ThreadOwner
  DEF Demote, CallOk, Broadcasting, callVars, threadVars, procVars, roleVars, histVars
<1>18. ASSUME NEW l \in Leader, Retain(l) PROVE CallOk(u)'
  BY <1>18, <1>pc, <1>ty, <1>ok, <1>th, ThreadIn, ThreadDistinct, ThreadOwner
  DEF Retain, CallOk, Broadcasting, callVars, threadVars, procVars, roleVars, histVars
<1>19. ASSUME NEW l \in Leader, Greet(l) PROVE CallOk(u)'
  BY <1>19, <1>pc, <1>ty, <1>ok, <1>th, ThreadIn, ThreadDistinct, ThreadOwner
  DEF Greet, CallOk, Broadcasting, callVars, threadVars, procVars, roleVars, histVars
<1>20. ASSUME NEW l \in Leader, Crash(l) PROVE CallOk(u)'
  BY <1>20, <1>pc, <1>ty, <1>ok, <1>th, ThreadIn, ThreadDistinct, ThreadOwner
  DEF Crash, CallOk, Broadcasting, callVars, threadVars, procVars, roleVars, histVars
<1>21. ASSUME NEW t \in Thread, CallNext(t) PROVE CallOk(u)'
  BY <1>21, <1>pc, <1>ty, <1>ok, <1>th, ThreadIn, ThreadDistinct, ThreadOwner
  DEF CallNext, CallOk, Broadcasting, callVars, threadVars, procVars, roleVars, histVars
<1>22. ASSUME NEW t \in Thread, CallReturns(t) PROVE CallOk(u)'
  BY <1>22, <1>pc, <1>ty, <1>ok, <1>th, ThreadIn, ThreadDistinct, ThreadOwner
  DEF CallReturns, HangUp, CallOk, Broadcasting, callVars, threadVars, procVars, roleVars,
      histVars
<1>23. ASSUME NEW t \in Thread, CallFails(t) PROVE CallOk(u)'
  BY <1>23, <1>pc, <1>ty, <1>ok, <1>th, ThreadIn, ThreadDistinct, ThreadOwner
  DEF CallFails, HangUp, CallOk, Broadcasting, callVars, threadVars, procVars, roleVars,
      histVars
<1>24. ASSUME NEW t \in Thread, HandleInit(t) PROVE CallOk(u)'
  BY <1>24, <1>pc, <1>ty, <1>ok, <1>th, ThreadIn, ThreadDistinct, ThreadOwner
  DEF HandleInit, Answer, Arrived, CallOk, Broadcasting, callVars, threadVars, procVars,
      roleVars, histVars
<1>25. ASSUME NEW t \in Thread, HandleStart(t) PROVE CallOk(u)'
  BY <1>25, <1>pc, <1>ty, <1>ok, <1>th, ThreadIn, ThreadDistinct, ThreadOwner
  DEF HandleStart, Answer, Arrived, SpawnCalc, Running, CallOk, Broadcasting, callVars,
      threadVars, procVars, roleVars, histVars
<1>26. ASSUME NEW t \in Thread, HandleStartJoined(t) PROVE CallOk(u)'
  BY <1>26, <1>pc, <1>ty, <1>ok, <1>th, ThreadIn, ThreadDistinct, ThreadOwner
  DEF HandleStartJoined, Answer, SpawnCalc, Running, CallOk, Broadcasting, callVars,
      threadVars, procVars, roleVars, histVars
<1>27. ASSUME NEW t \in Thread, HandleSelection(t) PROVE CallOk(u)'
  BY <1>27, <1>pc, <1>ty, <1>ok, <1>th, ThreadIn, ThreadDistinct, ThreadOwner
  DEF HandleSelection, Answer, Arrived, CallOk, Broadcasting, callVars, threadVars,
      procVars, roleVars, histVars
<1>28. ASSUME NEW t \in Thread, HandleEndRoles(t) PROVE CallOk(u)'
  BY <1>28, <1>pc, <1>ty, <1>ok, <1>th, ThreadIn, ThreadDistinct, ThreadOwner
  DEF HandleEndRoles, Arrived, CallOk, Broadcasting, callVars, threadVars, procVars,
      roleVars, histVars
<1>29. ASSUME NEW t \in Thread, HandleEndStop(t) PROVE CallOk(u)'
  BY <1>29, <1>pc, <1>ty, <1>ok, <1>th, ThreadIn, ThreadDistinct, ThreadOwner
  DEF HandleEndStop, Answer, CallOk, Broadcasting, callVars, threadVars, procVars, roleVars,
      histVars
<1>30. CASE UNCHANGED vars
  BY <1>30, <1>ok DEF CallOk, vars, callVars, threadVars, procVars, roleVars, histVars
<1> QED
  BY <1>1, <1>2, <1>3, <1>4, <1>5, <1>6, <1>7, <1>8, <1>9, <1>10, <1>11, <1>12, <1>13,
     <1>14, <1>15, <1>16, <1>17, <1>18, <1>19, <1>20, <1>21, <1>22, <1>23, <1>24, <1>25,
     <1>26, <1>27, <1>28, <1>29, <1>30
    DEF Next, StarterStep, SelectionStep, RolesStep, CallStep, Handler

\* notifyAllM and sendSelection keep one connection at a time.
LEMMA CallCorrect == Spec => []CallInv
<1>1. Init => CallInv
  BY CallInit
<1>2. TypeOK /\ CallInv /\ [Next]_vars => CallInv'
  BY CallNextStep
<1> QED
  BY <1>1, <1>2, TypeCorrect, PTL DEF Spec
-----------------------------------------------------------------------------
(* BusyHasOwner.                                                           *)

\* The lock of a leader is kept by a step that leaves its joining handler alone.
LEMMA LockedKept ==
  ASSUME NEW l \in Leader,
         \A t \in Thread : phase[t] = "joining" /\ callee[t] = l
                             => phase'[t] = "joining" /\ callee'[t] = l
  PROVE  Locked(l) => Locked(l)'
BY DEF Locked

\* No Selector is busy initially.
LEMMA OwnerInit == Init => BusyHasOwner
BY DEF Init, BusyHasOwner, HasOwner

\* Every action leaves each busy status with a thread that will change it.
LEMMA OwnerNext == TypeOK /\ CallInv /\ BusyHasOwner /\ [Next]_vars => BusyHasOwner'
<1> SUFFICES ASSUME TypeOK, CallInv, BusyHasOwner, [Next]_vars,
                    NEW m \in Leader, agent'[m] = "up"
             PROVE  HasOwner(m)'
  BY DEF BusyHasOwner
<1>ty. /\ pc \in [Thread -> StarterPc \cup SelectionPc]
       /\ status \in [Leader -> Status]
       /\ role \in [Leader -> {"calc", "init"}]
       /\ agent \in [Leader -> {"up", "stopping", "down"}]
  BY DEF TypeOK
<1>ca. /\ callee \in [Thread -> Leader]
       /\ phase \in [Thread -> {"idle", "sent", "joining", "roles", "replied"}]
  BY DEF TypeOK
<1>ow. agent[m] = "up" => HasOwner(m)
  BY DEF BusyHasOwner
<1>1. ASSUME NEW l \in Leader, StartSelection(l) PROVE HasOwner(m)'
  <2>1. Locked(m) => Locked(m)'
    BY <1>1, LockedKept DEF StartSelection, callVars
  <2>2. agent[m] = "up"
    BY <1>1, <1>ty DEF StartSelection, procVars
  <2> QED
    BY <1>1, <1>ty, <1>ow, <2>1, <2>2, ThreadIn, ThreadDistinct
    DEF StartSelection, HasOwner, threadVars
<1>2. ASSUME NEW l \in Leader, BeginRound(l) PROVE HasOwner(m)'
  <2>1. Locked(m) => Locked(m)'
    BY <1>2, LockedKept DEF BeginRound, callVars, Broadcast
  <2>2. agent[m] = "up"
    BY <1>2, <1>ty DEF BeginRound, procVars
  <2> QED
    BY <1>2, <1>ty, <1>ow, <2>1, <2>2, ThreadIn, ThreadDistinct
    DEF BeginRound, Broadcast, HasOwner, threadVars
<1>3. ASSUME NEW l \in Leader, InitDone(l) PROVE HasOwner(m)'
  <2>1. Locked(m) => Locked(m)'
    BY <1>3, LockedKept DEF InitDone, callVars, Broadcast, Leave
  <2>2. agent[m] = "up"
    BY <1>3, <1>ty DEF InitDone, procVars
  <2> QED
    BY <1>3, <1>ty, <1>ow, <2>1, <2>2, ThreadIn, ThreadDistinct
    DEF InitDone, Broadcast, Leave, HasOwner, threadVars
<1>4. ASSUME NEW l \in Leader, StartDone(l) PROVE HasOwner(m)'
  <2>1. Locked(m) => Locked(m)'
    BY <1>4, LockedKept DEF StartDone, callVars, Leave
  <2>2. agent[m] = "up"
    BY <1>4, <1>ty DEF StartDone, procVars
  <2> QED
    BY <1>4, <1>ty, <1>ow, <2>1, <2>2, ThreadIn, ThreadDistinct
    DEF StartDone, Leave, HasOwner, threadVars
<1>5. ASSUME NEW l \in Leader, AbortRound(l) PROVE HasOwner(m)'
  <2>1. Locked(m) => Locked(m)'
    BY <1>5, LockedKept DEF AbortRound, callVars, Broadcast
  <2>2. agent[m] = "up"
    BY <1>5, <1>ty DEF AbortRound, procVars
  <2> QED
    BY <1>5, <1>ty, <1>ow, <2>1, <2>2, ThreadIn, ThreadDistinct
    DEF AbortRound, Broadcast, HasOwner, threadVars
<1>6. ASSUME NEW l \in Leader, AbortDone(l) PROVE HasOwner(m)'
  <2>1. Locked(m) => Locked(m)'
    BY <1>6, LockedKept DEF AbortDone, callVars, Leave
  <2>2. agent[m] = "up"
    BY <1>6, <1>ty DEF AbortDone, procVars
  <2> QED
    BY <1>6, <1>ty, <1>ow, <2>1, <2>2, ThreadIn, ThreadDistinct
    DEF AbortDone, Leave, HasOwner, threadVars
<1>7. ASSUME NEW l \in Leader, SetStarted(l) PROVE HasOwner(m)'
  <2>1. Locked(m) => Locked(m)'
    BY <1>7, LockedKept DEF SetStarted, callVars
  <2>2. agent[m] = "up"
    BY <1>7, <1>ty DEF SetStarted, procVars
  <2> QED
    BY <1>7, <1>ty, <1>ow, <2>1, <2>2, ThreadIn, ThreadDistinct
    DEF SetStarted, HasOwner, threadVars
<1>8. ASSUME NEW l \in Leader, JoinSelection(l) PROVE HasOwner(m)'
  <2>1. Locked(m) => Locked(m)'
    BY <1>8, LockedKept DEF JoinSelection, callVars
  <2>2. agent[m] = "up"
    BY <1>8, <1>ty DEF JoinSelection, procVars
  <2> QED
    BY <1>8, <1>ty, <1>ow, <2>1, <2>2, ThreadIn, ThreadDistinct
    DEF JoinSelection, Running, HasOwner, threadVars
<1>9. ASSUME NEW l \in Leader, SpawnSelection(l) PROVE HasOwner(m)'
  <2>1. Locked(m) => Locked(m)'
    BY <1>9, LockedKept DEF SpawnSelection, callVars
  <2>2. agent[m] = "up"
    BY <1>9, <1>ty DEF SpawnSelection, procVars
  <2> QED
    BY <1>9, <1>ty, <1>ow, <2>1, <2>2, ThreadIn, ThreadDistinct
    DEF SpawnSelection, HasOwner, threadVars
<1>10. ASSUME NEW l \in Leader, EnterSelection(l) PROVE HasOwner(m)'
  <2>1. Locked(m) => Locked(m)'
    BY <1>10, LockedKept DEF EnterSelection, callVars
  <2>2. agent[m] = "up"
    BY <1>10, <1>ty DEF EnterSelection, procVars
  <2> QED
    BY <1>10, <1>ty, <1>ow, <2>1, <2>2, ThreadIn, ThreadDistinct
    DEF EnterSelection, HasOwner, threadVars
<1>11. ASSUME NEW l \in Leader, RunCluster(l) PROVE HasOwner(m)'
  <2>1. Locked(m) => Locked(m)'
    BY <1>11, LockedKept DEF RunCluster, callVars
  <2>2. agent[m] = "up"
    BY <1>11, <1>ty DEF RunCluster, procVars
  <2> QED
    BY <1>11, <1>ty, <1>ow, <2>1, <2>2, ThreadIn, ThreadDistinct
    DEF RunCluster, HasOwner, threadVars
<1>12. ASSUME NEW l \in Leader, SendSelection(l) PROVE HasOwner(m)'
  <2>1. Locked(m) => Locked(m)'
    BY <1>12, <1>ca, ThreadIn, LockedKept DEF SendSelection, CallInv, CallOk
  <2>2. agent[m] = "up"
    BY <1>12, <1>ty DEF SendSelection, procVars
  <2> QED
    BY <1>12, <1>ty, <1>ow, <2>1, <2>2, ThreadIn, ThreadDistinct
    DEF SendSelection, HasOwner, threadVars
<1>13. ASSUME NEW l \in Leader, Choose(l) PROVE HasOwner(m)'
  <2>1. Locked(m) => Locked(m)'
    BY <1>13, LockedKept DEF Choose, callVars, Broadcast
  <2>2. agent[m] = "up"
    BY <1>13, <1>ty DEF Choose, procVars
  <2> QED
    BY <1>13, <1>ty, <1>ow, <2>1, <2>2, ThreadIn, ThreadDistinct
    DEF Choose, Broadcast, HasOwner, threadVars
<1>14. ASSUME NEW l \in Leader, EndDone(l) PROVE HasOwner(m)'
  <2>1. Locked(m) => Locked(m)'
    BY <1>14, LockedKept DEF EndDone, callVars, Leave
  <2>2. agent[m] = "up"
    BY <1>14, <1>ty DEF EndDone, procVars
  <2> QED
    BY <1>14, <1>ty, <1>ow, <2>1, <2>2, ThreadIn, ThreadDistinct
    DEF EndDone, Leave, HasOwner, threadVars
<1>15. ASSUME NEW l \in Leader, FreeStatus(l) PROVE HasOwner(m)'
  <2>1. Locked(m) => Locked(m)'
    BY <1>15, LockedKept DEF FreeStatus, callVars, Leave, ThreadEnds
  <2>2. agent[m] = "up"
    BY <1>15, <1>ty DEF FreeStatus, procVars
  <2> QED
    BY <1>15, <1>ty, <1>ow, <2>1, <2>2, ThreadIn, ThreadDistinct
    DEF FreeStatus, AtFree, Leave, ThreadEnds, HasOwner, threadVars
<1>16. ASSUME NEW l \in Leader, InitiatorRoles(l) PROVE HasOwner(m)'
  <2>1. Locked(m) => Locked(m)'
    BY <1>16, LockedKept DEF InitiatorRoles, callVars, ThreadEnds, Leave
  <2>2. agent[m] = "up"
    BY <1>16, <1>ty DEF InitiatorRoles, procVars
  <2> QED
    BY <1>16, <1>ty, <1>ow, <2>1, <2>2, ThreadIn, ThreadDistinct
    DEF InitiatorRoles, ThreadEnds, Leave, HasOwner, threadVars
<1>17. ASSUME NEW l \in Leader, Demote(l) PROVE HasOwner(m)'
  <2>1. Locked(m) => Locked(m)'
    BY <1>17, LockedKept DEF Demote, callVars
  <2>2. agent[m] = "up"
    BY <1>17, <1>ty DEF Demote, procVars
  <2> QED
    BY <1>17, <1>ty, <1>ow, <2>1, <2>2, ThreadIn, ThreadDistinct
    DEF Demote, HasOwner, threadVars
<1>18. ASSUME NEW l \in Leader, Retain(l) PROVE HasOwner(m)'
  <2>1. Locked(m) => Locked(m)'
    BY <1>18, LockedKept DEF Retain, callVars
  <2>2. agent[m] = "up"
    BY <1>18, <1>ty DEF Retain, procVars
  <2> QED
    BY <1>18, <1>ty, <1>ow, <2>1, <2>2, ThreadIn, ThreadDistinct
    DEF Retain, HasOwner, threadVars
<1>19. ASSUME NEW l \in Leader, Greet(l) PROVE HasOwner(m)'
  <2>1. Locked(m) => Locked(m)'
    BY <1>19, LockedKept DEF Greet, callVars
  <2>2. agent[m] = "up"
    BY <1>19, <1>ty DEF Greet, procVars
  <2> QED
    BY <1>19, <1>ty, <1>ow, <2>1, <2>2, ThreadIn, ThreadDistinct
    DEF Greet, HasOwner, threadVars
<1>20. ASSUME NEW l \in Leader, Crash(l) PROVE HasOwner(m)'
  <2>1. Locked(m) => Locked(m)'
    BY <1>20, LockedKept DEF Crash, callVars
  <2>2. agent[m] = "up"
    BY <1>20, <1>ty DEF Crash, procVars
  <2> QED
    BY <1>20, <1>ty, <1>ow, <2>1, <2>2, ThreadIn, ThreadDistinct
    DEF Crash, HasOwner, threadVars
<1>21. ASSUME NEW t \in Thread, CallNext(t) PROVE HasOwner(m)'
  <2>1. agent[m] = "up"
    BY <1>21, <1>ty DEF CallNext, procVars
  <2>2. Locked(m) => Locked(m)'
    BY <1>21, <1>ca, <2>1, LockedKept DEF CallNext
  <2> QED
    BY <1>21, <1>ty, <1>ca, <1>ow, <2>1, <2>2, ThreadIn, ThreadDistinct
    DEF CallNext, HasOwner, threadVars
<1>22. ASSUME NEW t \in Thread, CallReturns(t) PROVE HasOwner(m)'
  <2>1. agent[m] = "up"
    BY <1>22, <1>ty DEF CallReturns, procVars
  <2>2. Locked(m) => Locked(m)'
    BY <1>22, <1>ca, <2>1, LockedKept DEF CallReturns, HangUp
  <2> QED
    BY <1>22, <1>ty, <1>ca, <1>ow, <2>1, <2>2, ThreadIn, ThreadDistinct
    DEF CallReturns, HangUp, HasOwner, threadVars
<1>23. ASSUME NEW t \in Thread, CallFails(t) PROVE HasOwner(m)'
  <2>1. agent[m] = "up"
    BY <1>23, <1>ty DEF CallFails, procVars
  <2>2. Locked(m) => Locked(m)'
    BY <1>23, <1>ca, <2>1, LockedKept DEF CallFails, HangUp
  <2> QED
    BY <1>23, <1>ty, <1>ca, <1>ow, <2>1, <2>2, ThreadIn, ThreadDistinct
    DEF CallFails, HangUp, HasOwner, threadVars
<1>24. ASSUME NEW t \in Thread, HandleInit(t) PROVE HasOwner(m)'
  <2>1. agent[m] = "up"
    BY <1>24, <1>ty DEF HandleInit, procVars
  <2>2. Locked(m) => Locked(m)'
    BY <1>24, <1>ca, <2>1, LockedKept DEF HandleInit, Answer, Arrived
  <2> QED
    BY <1>24, <1>ty, <1>ca, <1>ow, <2>1, <2>2, ThreadIn, ThreadDistinct
    DEF HandleInit, Answer, Arrived, HasOwner, threadVars
<1>25. ASSUME NEW t \in Thread, HandleStart(t) PROVE HasOwner(m)'
  <2>1. agent[m] = "up"
    BY <1>25, <1>ty DEF HandleStart, procVars
  <2>2. Locked(m) => Locked(m)'
    BY <1>25, <1>ca, <2>1, LockedKept DEF HandleStart, Answer, Arrived
  <2>3. CASE phase'[t] = "joining" /\ m = callee[t]
    <3>1. Locked(m)'
      <4>1. callee'[t] = m
        BY <1>25, <2>3 DEF HandleStart
      <4> QED
        BY <2>3, <4>1 DEF Locked
    <3> QED
      BY <1>25, <1>ty, <1>ca, <2>3, <3>1 DEF HandleStart, Answer, HasOwner
  <2>4. CASE ~(phase'[t] = "joining" /\ m = callee[t])
    BY <1>25, <1>ty, <1>ca, <1>ow, <2>1, <2>2, <2>4, ThreadIn, ThreadDistinct
    DEF HandleStart, Answer, Arrived, SpawnCalc, Running, HasOwner
  <2> QED
    BY <2>3, <2>4
<1>26. ASSUME NEW t \in Thread, HandleStartJoined(t) PROVE HasOwner(m)'
  <2>1. agent[m] = "up"
    BY <1>26, <1>ty DEF HandleStartJoined, procVars
  <2>2. CASE m = callee[t]
    BY <1>26, <1>ty, <1>ow, <2>1, <2>2, ThreadIn, ThreadDistinct
    DEF HandleStartJoined, Answer, SpawnCalc, Running, HasOwner
  <2>3. CASE m # callee[t]
    <3>1. Locked(m) => Locked(m)'
      BY <1>26, <1>ca, <2>3, LockedKept DEF HandleStartJoined, Answer
    <3> QED
      BY <1>26, <1>ty, <1>ca, <1>ow, <2>1, <2>3, <3>1, ThreadIn, ThreadDistinct
      DEF HandleStartJoined, SpawnCalc, HasOwner
  <2> QED
    BY <2>2, <2>3
<1>27. ASSUME NEW t \in Thread, HandleSelection(t) PROVE HasOwner(m)'
  <2>1. agent[m] = "up"
    BY <1>27, <1>ty DEF HandleSelection, procVars
  <2>2. Locked(m) => Locked(m)'
    BY <1>27, <1>ca, <2>1, LockedKept DEF HandleSelection, Answer, Arrived
  <2> QED
    BY <1>27, <1>ty, <1>ca, <1>ow, <2>1, <2>2, ThreadIn, ThreadDistinct
    DEF HandleSelection, Answer, Arrived, HasOwner, threadVars
<1>28. ASSUME NEW t \in Thread, HandleEndRoles(t) PROVE HasOwner(m)'
  <2>1. agent[m] = "up"
    BY <1>28, <1>ty DEF HandleEndRoles, procVars
  <2>2. Locked(m) => Locked(m)'
    BY <1>28, <1>ca, <2>1, LockedKept DEF HandleEndRoles, Arrived
  <2> QED
    BY <1>28, <1>ty, <1>ca, <1>ow, <2>1, <2>2, ThreadIn, ThreadDistinct
    DEF HandleEndRoles, Arrived, HasOwner, threadVars
<1>29. ASSUME NEW t \in Thread, HandleEndStop(t) PROVE HasOwner(m)'
  <2>1. agent[m] = "up"
    BY <1>29, <1>ty DEF HandleEndStop, procVars
  <2>2. Locked(m) => Locked(m)'
    BY <1>29, <1>ca, <2>1, LockedKept DEF HandleEndStop, Answer
  <2> QED
    BY <1>29, <1>ty, <1>ca, <1>ow, <2>1, <2>2, ThreadIn, ThreadDistinct
    DEF HandleEndStop, Answer, HasOwner, threadVars
<1>30. CASE UNCHANGED vars
  BY <1>30, <1>ow
    DEF HasOwner, Locked, vars, callVars, threadVars, procVars, roleVars, histVars
<1> QED
  BY <1>1, <1>2, <1>3, <1>4, <1>5, <1>6, <1>7, <1>8, <1>9, <1>10, <1>11, <1>12, <1>13,
     <1>14, <1>15, <1>16, <1>17, <1>18, <1>19, <1>20, <1>21, <1>22, <1>23, <1>24, <1>25,
     <1>26, <1>27, <1>28, <1>29, <1>30
    DEF Next, StarterStep, SelectionStep, RolesStep, CallStep, Handler

\* In every interleaving of the timers, the selection threads and the request
\* handlers, a READY, STARTED or RECEIVED status belongs to a thread of its
\* leader that is still going to change it.
THEOREM OwnerCorrect == Spec => []BusyHasOwner
<1>1. Init => BusyHasOwner
  BY OwnerInit
<1>2. TypeOK /\ CallInv /\ BusyHasOwner /\ [Next]_vars => BusyHasOwner'
  BY OwnerNext
<1> QED
  BY <1>1, <1>2, TypeCorrect, CallCorrect, PTL DEF Spec
-----------------------------------------------------------------------------
(* RoundAgreement.                                                         *)

\* Which of the two selection threads each pc value belongs to.
RoleOfPc ==
  \A l \in Leader :
    /\ pc[Selection(l)] \in {"enter", "wait", "END", "free", "roles"} => role[l] = "init"
    /\ pc[Selection(l)] \in {"propose", "SELECTION"} => role[l] = "calc"

\* The lists acted upon in the current round of their initiator: there are
\* none before the choice, and after it they are all the chosen one.
AppliedSoFar ==
  \A r \in applied :
    /\ r.round <= round[r.by]
    /\ r.round = round[r.by] =>
         /\ ~(role[r.by] = "init" /\ pc[Selection(r.by)] \in {"enter", "cluster", "wait"})
         /\ pc[Selection(r.by)] \in {"END", "free", "roles"} => r.list = sel[r.by].list

\* The inductive invariant behind RoundAgreement.
RoundInv == RoleOfPc /\ AppliedSoFar /\ RoundAgreement

\* No list has been acted upon initially.
LEMMA RoundInit == Init => RoundInv
BY ThreadIn DEF Init, RoundInv, RoleOfPc, AppliedSoFar, RoundAgreement, Selection

\* A selection thread stays in the part of the code it was started for.
LEMMA RoleNext == TypeOK /\ RoleOfPc /\ [Next]_vars => RoleOfPc'
<1> SUFFICES ASSUME TypeOK, RoleOfPc, [Next]_vars PROVE RoleOfPc'
  OBVIOUS
<1>ty. /\ pc \in [Thread -> StarterPc \cup SelectionPc]
       /\ role \in [Leader -> {"calc", "init"}]
       /\ callee \in [Thread -> Leader]
  BY DEF TypeOK
<1> USE <1>ty, ThreadIn, ThreadDistinct DEF RoleOfPc
<1>1. ASSUME NEW l \in Leader, StartSelection(l) PROVE RoleOfPc'
  BY <1>1 DEF StartSelection, threadVars
<1>2. ASSUME NEW l \in Leader, BeginRound(l) PROVE RoleOfPc'
  BY <1>2 DEF BeginRound, Broadcast, threadVars
<1>3. ASSUME NEW l \in Leader, InitDone(l) PROVE RoleOfPc'
  BY <1>3 DEF InitDone, Broadcast, Leave, threadVars
<1>4. ASSUME NEW l \in Leader, StartDone(l) PROVE RoleOfPc'
  BY <1>4 DEF StartDone, Leave, threadVars
<1>5. ASSUME NEW l \in Leader, AbortRound(l) PROVE RoleOfPc'
  BY <1>5 DEF AbortRound, Broadcast, threadVars
<1>6. ASSUME NEW l \in Leader, AbortDone(l) PROVE RoleOfPc'
  BY <1>6 DEF AbortDone, Leave, threadVars
<1>7. ASSUME NEW l \in Leader, SetStarted(l) PROVE RoleOfPc'
  BY <1>7 DEF SetStarted, threadVars
<1>8. ASSUME NEW l \in Leader, JoinSelection(l) PROVE RoleOfPc'
  BY <1>8 DEF JoinSelection, Running, threadVars
<1>9. ASSUME NEW l \in Leader, SpawnSelection(l) PROVE RoleOfPc'
  BY <1>9 DEF SpawnSelection, threadVars
<1>10. ASSUME NEW l \in Leader, EnterSelection(l) PROVE RoleOfPc'
  BY <1>10 DEF EnterSelection, threadVars
<1>11. ASSUME NEW l \in Leader, RunCluster(l) PROVE RoleOfPc'
  BY <1>11 DEF RunCluster, threadVars
<1>12. ASSUME NEW l \in Leader, SendSelection(l) PROVE RoleOfPc'
  BY <1>12 DEF SendSelection, threadVars
<1>13. ASSUME NEW l \in Leader, Choose(l) PROVE RoleOfPc'
  BY <1>13 DEF Choose, Broadcast, threadVars
<1>14. ASSUME NEW l \in Leader, EndDone(l) PROVE RoleOfPc'
  BY <1>14 DEF EndDone, Leave, threadVars
<1>15. ASSUME NEW l \in Leader, FreeStatus(l) PROVE RoleOfPc'
  BY <1>15 DEF FreeStatus, AtFree, Leave, ThreadEnds, threadVars
<1>16. ASSUME NEW l \in Leader, InitiatorRoles(l) PROVE RoleOfPc'
  BY <1>16 DEF InitiatorRoles, ThreadEnds, Leave, threadVars
<1>17. ASSUME NEW l \in Leader, Demote(l) PROVE RoleOfPc'
  BY <1>17 DEF Demote, threadVars
<1>18. ASSUME NEW l \in Leader, Retain(l) PROVE RoleOfPc'
  BY <1>18 DEF Retain, threadVars
<1>19. ASSUME NEW l \in Leader, Greet(l) PROVE RoleOfPc'
  BY <1>19 DEF Greet, threadVars
<1>20. ASSUME NEW l \in Leader, Crash(l) PROVE RoleOfPc'
  BY <1>20 DEF Crash, threadVars
<1>21. ASSUME NEW t \in Thread, CallNext(t) PROVE RoleOfPc'
  BY <1>21 DEF CallNext, threadVars
<1>22. ASSUME NEW t \in Thread, CallReturns(t) PROVE RoleOfPc'
  BY <1>22 DEF CallReturns, HangUp, threadVars
<1>23. ASSUME NEW t \in Thread, CallFails(t) PROVE RoleOfPc'
  BY <1>23 DEF CallFails, HangUp, threadVars
<1>24. ASSUME NEW t \in Thread, HandleInit(t) PROVE RoleOfPc'
  BY <1>24 DEF HandleInit, Answer, Arrived, threadVars
<1>25. ASSUME NEW t \in Thread, HandleStart(t) PROVE RoleOfPc'
  BY <1>25 DEF HandleStart, Answer, Arrived, SpawnCalc, Running, threadVars
<1>26. ASSUME NEW t \in Thread, HandleStartJoined(t) PROVE RoleOfPc'
  BY <1>26 DEF HandleStartJoined, Answer, SpawnCalc, Running, threadVars
<1>27. ASSUME NEW t \in Thread, HandleSelection(t) PROVE RoleOfPc'
  BY <1>27 DEF HandleSelection, Answer, Arrived, threadVars
<1>28. ASSUME NEW t \in Thread, HandleEndRoles(t) PROVE RoleOfPc'
  BY <1>28 DEF HandleEndRoles, Arrived, threadVars
<1>29. ASSUME NEW t \in Thread, HandleEndStop(t) PROVE RoleOfPc'
  BY <1>29 DEF HandleEndStop, Answer, threadVars
<1>30. CASE UNCHANGED vars
  BY <1>30 DEF vars, threadVars
<1> QED
  BY <1>1, <1>2, <1>3, <1>4, <1>5, <1>6, <1>7, <1>8, <1>9, <1>10, <1>11, <1>12, <1>13,
     <1>14, <1>15, <1>16, <1>17, <1>18, <1>19, <1>20, <1>21, <1>22, <1>23, <1>24, <1>25,
     <1>26, <1>27, <1>28, <1>29, <1>30
    DEF Next, StarterStep, SelectionStep, RolesStep, CallStep, Handler

\* A step that records no list and starts no round keeps the history part.
LEMMA AppliedFrame ==
  ASSUME TypeOK, AppliedSoFar, RoundAgreement, UNCHANGED <<round, applied>>,
         \A l \in Leader :
           /\ role'[l] = "init" /\ pc'[Selection(l)] \in {"enter", "cluster", "wait"}
                => role[l] = "init" /\ pc[Selection(l)] \in {"enter", "cluster", "wait"}
           /\ pc'[Selection(l)] \in {"END", "free", "roles"} =>
                \/ /\ pc[Selection(l)] \in {"END", "free", "roles"}
                   /\ sel'[l].list = sel[l].list
                \/ role[l] = "init" /\ pc[Selection(l)] = "wait"
  PROVE  AppliedSoFar' /\ RoundAgreement'
<1>1. \A r \in applied : r.by \in Leader
  BY DEF TypeOK
<1> QED
  BY <1>1 DEF AppliedSoFar, RoundAgreement

\* A step that records the chosen list of the current round of l.
LEMMA AppliedAdd ==
  ASSUME TypeOK, AppliedSoFar, RoundAgreement, NEW q \in Leader, NEW l \in Leader,
         pc[Selection(l)] \in {"END", "roles"}, ChangeRoles(q, l),
         UNCHANGED <<role, round>>,
         \A m \in Leader : \/ pc'[Selection(m)] = pc[Selection(m)] /\ sel'[m] = sel[m]
                           \/ pc'[Selection(m)] = "done"
  PROVE  AppliedSoFar' /\ RoundAgreement'
<1> DEFINE new == [at |-> q, by |-> l, round |-> round[l], list |-> sel[l].list]
<1>1. applied' \subseteq applied \cup {new}
  BY DEF ChangeRoles
<1>2. \A r \in applied : r.by \in Leader /\ r.round \in Nat
  BY DEF TypeOK
<1>3. round \in [Leader -> Nat]
  BY DEF TypeOK
<1>4. new.by = l /\ new.round = round[l] /\ new.list = sel[l].list
  OBVIOUS
<1>5. \A r \in applied : r.by = l /\ r.round = round[l] => r.list = sel[l].list
  BY DEF AppliedSoFar
<1> HIDE DEF new
<1>6. AppliedSoFar'
  <2> SUFFICES ASSUME NEW r \in applied'
               PROVE  /\ r.round <= round[r.by]
                      /\ r.round = round[r.by] =>
                           /\ ~(role[r.by] = "init" /\ pc'[Selection(r.by)] \in {"enter", "cluster", "wait"})
                           /\ pc'[Selection(r.by)] \in {"END", "free", "roles"} => r.list = sel'[r.by].list
    BY DEF AppliedSoFar
  <2>1. CASE r \in applied
    BY <1>2, <2>1 DEF AppliedSoFar
  <2>2. CASE r = new
    BY <1>3, <1>4, <2>2
  <2> QED
    BY <1>1, <2>1, <2>2
<1>7. RoundAgreement'
  BY <1>1, <1>4, <1>5 DEF RoundAgreement
<1> QED
  BY <1>6, <1>7

\* Every action keeps the lists of each round equal.
LEMMA AppliedNext ==
  TypeOK /\ RoundInv /\ [Next]_vars => AppliedSoFar' /\ RoundAgreement'
<1> SUFFICES ASSUME TypeOK, RoundInv, [Next]_vars PROVE AppliedSoFar' /\ RoundAgreement'
  OBVIOUS
<1>ty. /\ pc \in [Thread -> StarterPc \cup SelectionPc]
       /\ role \in [Leader -> {"calc", "init"}]
       /\ callee \in [Thread -> Leader]
       /\ sel \in [Leader -> Update]
  BY DEF TypeOK
<1>ro. RoleOfPc /\ AppliedSoFar /\ RoundAgreement
  BY DEF RoundInv
<1>1. ASSUME NEW l \in Leader, StartSelection(l) PROVE AppliedSoFar' /\ RoundAgreement'
  BY <1>1, <1>ty, <1>ro, ThreadIn, ThreadDistinct, AppliedFrame
  DEF StartSelection, RoleOfPc, threadVars, histVars
<1>2. ASSUME NEW l \in Leader, BeginRound(l) PROVE AppliedSoFar' /\ RoundAgreement'
  BY <1>2, <1>ty, <1>ro, ThreadIn, ThreadDistinct, AppliedFrame
  DEF BeginRound, Broadcast, RoleOfPc, threadVars, histVars
<1>3. ASSUME NEW l \in Leader, InitDone(l) PROVE AppliedSoFar' /\ RoundAgreement'
  BY <1>3, <1>ty, <1>ro, ThreadIn, ThreadDistinct, AppliedFrame
  DEF InitDone, Broadcast, Leave, RoleOfPc, threadVars, histVars
<1>4. ASSUME NEW l \in Leader, StartDone(l) PROVE AppliedSoFar' /\ RoundAgreement'
  BY <1>4, <1>ty, <1>ro, ThreadIn, ThreadDistinct, AppliedFrame
  DEF StartDone, Leave, RoleOfPc, threadVars, histVars
<1>5. ASSUME NEW l \in Leader, AbortRound(l) PROVE AppliedSoFar' /\ RoundAgreement'
  BY <1>5, <1>ty, <1>ro, ThreadIn, ThreadDistinct, AppliedFrame
  DEF AbortRound, Broadcast, RoleOfPc, threadVars, histVars
<1>6. ASSUME NEW l \in Leader, AbortDone(l) PROVE AppliedSoFar' /\ RoundAgreement'
  BY <1>6, <1>ty, <1>ro, ThreadIn, ThreadDistinct, AppliedFrame
  DEF AbortDone, Leave, RoleOfPc, threadVars, histVars
<1>7. ASSUME NEW l \in Leader, SetStarted(l) PROVE AppliedSoFar' /\ RoundAgreement'
  BY <1>7, <1>ty, <1>ro, ThreadIn, ThreadDistinct, AppliedFrame
  DEF SetStarted, RoleOfPc, threadVars, histVars
<1>8. ASSUME NEW l \in Leader, JoinSelection(l) PROVE AppliedSoFar' /\ RoundAgreement'
  BY <1>8, <1>ty, <1>ro, ThreadIn, ThreadDistinct, AppliedFrame
  DEF JoinSelection, Running, RoleOfPc, threadVars, histVars
<1>9. ASSUME NEW l \in Leader, SpawnSelection(l) PROVE AppliedSoFar' /\ RoundAgreement'
  <2>1. \A r \in applied : r.by \in Leader /\ r.round \in Nat
    BY DEF TypeOK
  <2>2. round \in [Leader -> Nat]
    BY DEF TypeOK
  <2>3. CASE pc[Selection(l)] = "none"
    <3>1. \A r \in applied : r.by = l => r.round < round'[l]
      BY <1>9, <1>ro, <2>1, <2>2, <2>3 DEF SpawnSelection, AppliedSoFar
    <3>2. \A m \in Leader : m # l =>
            /\ round'[m] = round[m] /\ role'[m] = role[m] /\ sel'[m] = sel[m]
            /\ pc'[Selection(m)] = pc[Selection(m)]
      BY <1>9, <1>ty, <2>2, <2>3, ThreadIn, ThreadDistinct DEF SpawnSelection
    <3>3. applied' = applied /\ round'[l] \in Nat
      BY <1>9, <2>2, <2>3 DEF SpawnSelection
    <3>4. AppliedSoFar'
      BY <1>ro, <2>1, <3>1, <3>2, <3>3 DEF AppliedSoFar
    <3> QED
      BY <1>ro, <3>3, <3>4 DEF RoundAgreement
  <2>4. CASE pc[Selection(l)] # "none"
    BY <1>9, <1>ro, <2>4, AppliedFrame DEF SpawnSelection
  <2> QED
    BY <2>3, <2>4
<1>10. ASSUME NEW l \in Leader, EnterSelection(l) PROVE AppliedSoFar' /\ RoundAgreement'
  BY <1>10, <1>ty, <1>ro, ThreadIn, ThreadDistinct, AppliedFrame
  DEF EnterSelection, RoleOfPc, threadVars, histVars
<1>11. ASSUME NEW l \in Leader, RunCluster(l) PROVE AppliedSoFar' /\ RoundAgreement'
  BY <1>11, <1>ty, <1>ro, ThreadIn, ThreadDistinct, AppliedFrame
  DEF RunCluster, RoleOfPc, threadVars, histVars
<1>12. ASSUME NEW l \in Leader, SendSelection(l) PROVE AppliedSoFar' /\ RoundAgreement'
  BY <1>12, <1>ty, <1>ro, ThreadIn, ThreadDistinct, AppliedFrame
  DEF SendSelection, RoleOfPc, threadVars, histVars
<1>13. ASSUME NEW l \in Leader, Choose(l) PROVE AppliedSoFar' /\ RoundAgreement'
  BY <1>13, <1>ty, <1>ro, ThreadIn, ThreadDistinct, AppliedFrame
  DEF Choose, Broadcast, RoleOfPc, threadVars, histVars
<1>14. ASSUME NEW l \in Leader, EndDone(l) PROVE AppliedSoFar' /\ RoundAgreement'
  BY <1>14, <1>ty, <1>ro, ThreadIn, ThreadDistinct, AppliedFrame
  DEF EndDone, Leave, RoleOfPc, threadVars, histVars
<1>15. ASSUME NEW l \in Leader, FreeStatus(l) PROVE AppliedSoFar' /\ RoundAgreement'
  BY <1>15, <1>ty, <1>ro, ThreadIn, ThreadDistinct, AppliedFrame
  DEF FreeStatus, AtFree, Leave, ThreadEnds, RoleOfPc, threadVars, histVars
<1>16. ASSUME NEW l \in Leader, InitiatorRoles(l) PROVE AppliedSoFar' /\ RoundAgreement'
  BY <1>16, <1>ty, <1>ro, ThreadIn, ThreadDistinct, AppliedAdd
  DEF InitiatorRoles, ThreadEnds, Leave
<1>17. ASSUME NEW l \in Leader, Demote(l) PROVE AppliedSoFar' /\ RoundAgreement'
  BY <1>17, <1>ty, <1>ro, ThreadIn, ThreadDistinct, AppliedFrame
  DEF Demote, RoleOfPc, threadVars, histVars
<1>18. ASSUME NEW l \in Leader, Retain(l) PROVE AppliedSoFar' /\ RoundAgreement'
  BY <1>18, <1>ty, <1>ro, ThreadIn, ThreadDistinct, AppliedFrame
  DEF Retain, RoleOfPc, threadVars, histVars
<1>19. ASSUME NEW l \in Leader, Greet(l) PROVE AppliedSoFar' /\ RoundAgreement'
  BY <1>19, <1>ty, <1>ro, ThreadIn, ThreadDistinct, AppliedFrame
  DEF Greet, RoleOfPc, threadVars, histVars
<1>20. ASSUME NEW l \in Leader, Crash(l) PROVE AppliedSoFar' /\ RoundAgreement'
  BY <1>20, <1>ty, <1>ro, ThreadIn, ThreadDistinct, AppliedFrame
  DEF Crash, RoleOfPc, threadVars, histVars
<1>21. ASSUME NEW t \in Thread, CallNext(t) PROVE AppliedSoFar' /\ RoundAgreement'
  BY <1>21, <1>ty, <1>ro, ThreadIn, ThreadDistinct, AppliedFrame
  DEF CallNext, threadVars, histVars
<1>22. ASSUME NEW t \in Thread, CallReturns(t) PROVE AppliedSoFar' /\ RoundAgreement'
  BY <1>22, <1>ty, <1>ro, ThreadIn, ThreadDistinct, AppliedFrame
  DEF CallReturns, HangUp, threadVars, histVars
<1>23. ASSUME NEW t \in Thread, CallFails(t) PROVE AppliedSoFar' /\ RoundAgreement'
  BY <1>23, <1>ty, <1>ro, ThreadIn, ThreadDistinct, AppliedFrame
  DEF CallFails, HangUp, threadVars, histVars
<1>24. ASSUME NEW t \in Thread, HandleInit(t) PROVE AppliedSoFar' /\ RoundAgreement'
  BY <1>24, <1>ty, <1>ro, ThreadIn, ThreadDistinct, AppliedFrame
  DEF HandleInit, Answer, Arrived, threadVars, histVars
<1>25. ASSUME NEW t \in Thread, HandleStart(t) PROVE AppliedSoFar' /\ RoundAgreement'
  BY <1>25, <1>ty, <1>ro, ThreadIn, ThreadDistinct, AppliedFrame
  DEF HandleStart, Answer, Arrived, SpawnCalc, Running, threadVars, histVars
<1>26. ASSUME NEW t \in Thread, HandleStartJoined(t) PROVE AppliedSoFar' /\ RoundAgreement'
  BY <1>26, <1>ty, <1>ro, ThreadIn, ThreadDistinct, AppliedFrame
  DEF HandleStartJoined, Answer, SpawnCalc, Running, threadVars, histVars
<1>27. ASSUME NEW t \in Thread, HandleSelection(t) PROVE AppliedSoFar' /\ RoundAgreement'
  BY <1>27, <1>ty, <1>ro, ThreadIn, ThreadDistinct, AppliedFrame
  DEF HandleSelection, Answer, Arrived, threadVars, histVars
<1>28. ASSUME NEW t \in Thread, HandleEndRoles(t) PROVE AppliedSoFar' /\ RoundAgreement'
  <2>1. CASE pc[t] = "END"
    <3>1. t = Selection(t[1]) /\ t[1] \in Leader
      BY <2>1, ThreadKinds, ThreadOwner DEF TypeOK, StarterPc
    <3> QED
      BY <1>28, <1>ty, <1>ro, <2>1, <3>1, AppliedAdd DEF HandleEndRoles, threadVars
  <2>2. CASE pc[t] # "END"
    BY <1>28, <1>ro, <2>2, AppliedFrame DEF HandleEndRoles, threadVars
  <2> QED
    BY <2>1, <2>2
<1>29. ASSUME NEW t \in Thread, HandleEndStop(t) PROVE AppliedSoFar' /\ RoundAgreement'
  BY <1>29, <1>ty, <1>ro, ThreadIn, ThreadDistinct, AppliedFrame
  DEF HandleEndStop, Answer, threadVars, histVars
<1>30. CASE UNCHANGED vars
  BY <1>30, <1>ro, AppliedFrame DEF vars, threadVars, histVars
<1> QED
  BY <1>1, <1>2, <1>3, <1>4, <1>5, <1>6, <1>7, <1>8, <1>9, <1>10, <1>11, <1>12, <1>13,
     <1>14, <1>15, <1>16, <1>17, <1>18, <1>19, <1>20, <1>21, <1>22, <1>23, <1>24, <1>25,
     <1>26, <1>27, <1>28, <1>29, <1>30
    DEF Next, StarterStep, SelectionStep, RolesStep, CallStep, Handler

\* All leaders that call sendChangeRoles for one round of one initiator send
\* the same list: the initiator's last choice is made before the first
\* SELECTION_END and never revised.
THEOREM RoundCorrect == Spec => []RoundAgreement
<1>1. Init => RoundInv
  BY RoundInit
<1>2. TypeOK /\ RoundInv /\ [Next]_vars => RoundInv'
  BY RoleNext, AppliedNext DEF RoundInv
<1>3. RoundInv => RoundAgreement
  BY DEF RoundInv
<1> QED
  BY <1>1, <1>2, <1>3, TypeCorrect, PTL DEF Spec
-----------------------------------------------------------------------------
(* OneWinner.                                                              *)

\* The SELECTION_INIT of l's round has been handled at m, and not refused.
Passed(l, m) ==
  \/ pc[Starter(l)] \in {"START", "ready"}
  \/ /\ pc[Starter(l)] = "INIT"
     /\ m \notin todo[Starter(l)]
     /\ ack[Starter(l)] # "refused"
     /\ callee[Starter(l)] = m =>
          phase[Starter(l)] = "replied" /\ reply[Starter(l)] = "POSITIVE"

\* Two READY leaders, the first of which has passed the second.
Won(l, m) ==
  /\ agent[l] = "up" /\ agent[m] = "up"
  /\ status[l] = "READY" /\ status[m] = "READY"
  /\ Passed(l, m)

\* Of two READY leaders at most one has passed the other.
WinnerInv ==
  ~Lossy => \A l, m \in Leader : l # m => ~(Won(l, m) /\ Won(m, l))

\* No step but BeginRound makes a leader pass another one that is READY: the
\* handler of SELECTION_INIT either refuses or makes its leader CHANGING.
LEMMA WonBefore ==
  ASSUME TypeOK, CallInv, ~Lossy, NEW x \in Leader, NEW y \in Leader, x # y,
         Won(x, y)', [Next]_vars, ~\E l \in Leader : BeginRound(l)
  PROVE  Won(x, y)
<1>ty. /\ pc \in [Thread -> StarterPc \cup SelectionPc]
       /\ status \in [Leader -> Status]
       /\ agent \in [Leader -> {"up", "stopping", "down"}]
  BY DEF TypeOK
<1>ca. /\ callee \in [Thread -> Leader]
       /\ phase \in [Thread -> {"idle", "sent", "joining", "roles", "replied"}]
       /\ reply \in [Thread -> {"POSITIVE", "NEGATIVE"}]
       /\ todo \in [Thread -> SUBSET Leader]
       /\ ack \in [Thread -> {"none", "some", "refused"}]
  BY DEF TypeOK
<1>in. /\ phase[Starter(x)] = "idle" => callee[Starter(x)] = x
       /\ phase[Starter(x)] = "joining" => pc[Starter(x)] = "START"
       /\ phase[Starter(x)] = "roles" => pc[Starter(x)] \in {"END", "ABORT"}
       /\ ack[Starter(x)] = "refused" => phase[Starter(x)] = "idle" /\ todo[Starter(x)] = {}
  BY ThreadIn, ThreadOwner DEF CallInv, CallOk, Starter
<1>pt. \A t \in Thread : pc[t] = "INIT" => t = Starter(t[1])
  <2> SUFFICES ASSUME NEW t \in Thread, pc[t] = "INIT" PROVE t = Starter(t[1])
    OBVIOUS
  <2>1. pc[Selection(t[1])] \in SelectionPc
    BY ThreadOwner DEF TypeOK
  <2>2. pc[Selection(t[1])] # "INIT"
    BY <2>1 DEF SelectionPc
  <2> QED
    BY <2>2, ThreadKinds
<1>1. ASSUME NEW l \in Leader, StartSelection(l) PROVE Won(x, y)
  BY <1>1, <1>ty, <1>ca, <1>in, ThreadIn, ThreadDistinct
  DEF StartSelection, Won, Passed, callVars, procVars
<1>2. ASSUME NEW l \in Leader, InitDone(l) PROVE Won(x, y)
  <2>1. CASE l = x /\ BroadcastOk(Starter(x))
    <3>1. ack[Starter(x)] = "some"
      BY <2>1, ThreadOwner DEF BroadcastOk, Peers
    <3>2. Passed(x, y)
      BY <1>2, <1>in, <2>1, <3>1 DEF InitDone, BroadcastOver, Passed
    <3> QED
      BY <1>2, <3>2 DEF InitDone, Won, procVars
  <2>2. CASE l = x /\ ~BroadcastOk(Starter(x))
    BY <1>2, <1>ty, <2>2, ThreadIn DEF InitDone, Leave, Won, Passed
  <2>3. CASE l # x
    BY <1>2, <1>ty, <1>ca, <2>3, ThreadIn, ThreadDistinct
    DEF InitDone, Broadcast, Leave, Won, Passed, procVars
  <2> QED
    BY <2>1, <2>2, <2>3
<1>3. ASSUME NEW l \in Leader, StartDone(l) PROVE Won(x, y)
  BY <1>3, <1>ty, <1>ca, <1>in, ThreadIn, ThreadDistinct
  DEF StartDone, Leave, Won, Passed, callVars, procVars
<1>4. ASSUME NEW l \in Leader, AbortRound(l) PROVE Won(x, y)
  BY <1>4, <1>ty, <1>ca, <1>in, ThreadIn, ThreadDistinct
  DEF AbortRound, Broadcast, Won, Passed, callVars, procVars
<1>5. ASSUME NEW l \in Leader, AbortDone(l) PROVE Won(x, y)
  BY <1>5, <1>ty, <1>ca, <1>in, ThreadIn, ThreadDistinct
  DEF AbortDone, Leave, Won, Passed, callVars, procVars
<1>6. ASSUME NEW l \in Leader, SetStarted(l) PROVE Won(x, y)
  BY <1>6, <1>ty, <1>ca, <1>in, ThreadIn, ThreadDistinct
  DEF SetStarted, Won, Passed, callVars, procVars
<1>7. ASSUME NEW l \in Leader, JoinSelection(l) PROVE Won(x, y)
  BY <1>7, <1>ty, <1>ca, <1>in, ThreadIn, ThreadDistinct
  DEF JoinSelection, Won, Passed, callVars, procVars
<1>8. ASSUME NEW l \in Leader, SpawnSelection(l) PROVE Won(x, y)
  BY <1>8, <1>ty, <1>ca, <1>in, ThreadIn, ThreadDistinct
  DEF SpawnSelection, Won, Passed, callVars, procVars
<1>9. ASSUME NEW l \in Leader, EnterSelection(l) PROVE Won(x, y)
  BY <1>9, <1>ty, <1>ca, <1>in, ThreadIn, ThreadDistinct
  DEF EnterSelection, Won, Passed, callVars, procVars
<1>10. ASSUME NEW l \in Leader, RunCluster(l) PROVE Won(x, y)
  BY <1>10, <1>ty, <1>ca, <1>in, ThreadIn, ThreadDistinct
  DEF RunCluster, Won, Passed, callVars, procVars
<1>11. ASSUME NEW l \in Leader, SendSelection(l) PROVE Won(x, y)
  BY <1>11, <1>ty, <1>ca, <1>in, ThreadIn, ThreadDistinct
  DEF SendSelection, Won, Passed, callVars, procVars
<1>12. ASSUME NEW l \in Leader, Choose(l) PROVE Won(x, y)
  BY <1>12, <1>ty, <1>ca, <1>in, ThreadIn, ThreadDistinct
  DEF Choose, Broadcast, Won, Passed, callVars, procVars
<1>13. ASSUME NEW l \in Leader, EndDone(l) PROVE Won(x, y)
  BY <1>13, <1>ty, <1>ca, <1>in, ThreadIn, ThreadDistinct
  DEF EndDone, Leave, Won, Passed, callVars, procVars
<1>14. ASSUME NEW l \in Leader, FreeStatus(l) PROVE Won(x, y)
  BY <1>14, <1>ty, <1>ca, <1>in, ThreadIn, ThreadDistinct
  DEF FreeStatus, Leave, ThreadEnds, Won, Passed, callVars, procVars
<1>15. ASSUME NEW l \in Leader, InitiatorRoles(l) PROVE Won(x, y)
  BY <1>15, <1>ty, <1>ca, <1>in, ThreadIn, ThreadDistinct
  DEF InitiatorRoles, ThreadEnds, Leave, Won, Passed, callVars, procVars
<1>16. ASSUME NEW l \in Leader, Demote(l) PROVE Won(x, y)
  BY <1>16, <1>ty, <1>ca, <1>in, ThreadIn, ThreadDistinct
  DEF Demote, Won, Passed, callVars, procVars
<1>17. ASSUME NEW l \in Leader, Retain(l) PROVE Won(x, y)
  BY <1>17, <1>ty, <1>ca, <1>in, ThreadIn, ThreadDistinct
  DEF Retain, Won, Passed, callVars, procVars
<1>18. ASSUME NEW l \in Leader, Greet(l) PROVE Won(x, y)
  BY <1>18, <1>ty, <1>ca, <1>in, ThreadIn, ThreadDistinct
  DEF Greet, Won, Passed, callVars, procVars
<1>19. ASSUME NEW l \in Leader, Crash(l) PROVE Won(x, y)
  BY <1>19, <1>ty, <1>ca, <1>in, ThreadIn, ThreadDistinct
  DEF Crash, Won, Passed, callVars, procVars
<1>20. ASSUME NEW t \in Thread, CallNext(t) PROVE Won(x, y)
  BY <1>20, <1>ty, <1>ca, <1>in, ThreadIn, ThreadDistinct, ThreadOwner
  DEF CallNext, Won, Passed, procVars
<1>21. ASSUME NEW t \in Thread, CallReturns(t) PROVE Won(x, y)
  BY <1>21, <1>ty, <1>ca, <1>in, ThreadIn, ThreadDistinct, ThreadOwner
  DEF CallReturns, HangUp, Won, Passed, procVars
<1>22. ASSUME NEW t \in Thread, CallFails(t) PROVE Won(x, y)
  BY <1>22, <1>ty, <1>ca, <1>in, ThreadIn, ThreadDistinct, ThreadOwner
  DEF CallFails, HangUp, Won, Passed, procVars
<1>23. ASSUME NEW t \in Thread, HandleInit(t) PROVE Won(x, y)
  BY <1>23, <1>ty, <1>ca, <1>in, <1>pt, ThreadIn, ThreadDistinct, ThreadOwner
  DEF HandleInit, Answer, Arrived, Won, Passed, procVars
<1>24. ASSUME NEW t \in Thread, HandleStart(t) PROVE Won(x, y)
  BY <1>24, <1>ty, <1>ca, <1>in, ThreadIn, ThreadDistinct, ThreadOwner
  DEF HandleStart, Answer, Arrived, SpawnCalc, Won, Passed, procVars
<1>25. ASSUME NEW t \in Thread, HandleStartJoined(t) PROVE Won(x, y)
  BY <1>25, <1>ty, <1>ca, <1>in, ThreadIn, ThreadDistinct, ThreadOwner
  DEF HandleStartJoined, Answer, SpawnCalc, Won, Passed, procVars
<1>26. ASSUME NEW t \in Thread, HandleSelection(t) PROVE Won(x, y)
  BY <1>26, <1>ty, <1>ca, <1>in, ThreadIn, ThreadDistinct, ThreadOwner
  DEF HandleSelection, Answer, Arrived, Won, Passed, procVars
<1>27. ASSUME NEW t \in Thread, HandleEndRoles(t) PROVE Won(x, y)
  BY <1>27, <1>ty, <1>ca, <1>in, ThreadIn, ThreadDistinct, ThreadOwner
  DEF HandleEndRoles, Arrived, Won, Passed, procVars
<1>28. ASSUME NEW t \in Thread, HandleEndStop(t) PROVE Won(x, y)
  BY <1>28, <1>ty, <1>ca, <1>in, ThreadIn, ThreadDistinct, ThreadOwner
  DEF HandleEndStop, Answer, Won, Passed, procVars
<1>29. CASE UNCHANGED vars
  BY <1>29 DEF Won, Passed, vars, callVars, procVars
<1> QED
  BY <1>1, <1>2, <1>3, <1>4, <1>5, <1>6, <1>7, <1>8, <1>9, <1>10, <1>11, <1>12, <1>13,
     <1>14, <1>15, <1>16, <1>17, <1>18, <1>19, <1>20, <1>21, <1>22, <1>23, <1>24, <1>25,
     <1>26, <1>27, <1>28, <1>29
    DEF Next, StarterStep, SelectionStep, RolesStep, CallStep, Handler

\* BeginRound makes a leader READY that has passed nobody; the other steps do
\* not make anybody pass a READY leader.
LEMMA WinnerNext == TypeOK /\ CallInv /\ WinnerInv /\ [Next]_vars => WinnerInv'
<1> SUFFICES ASSUME TypeOK, CallInv, WinnerInv, [Next]_vars, ~Lossy,
                    NEW x \in Leader, NEW y \in Leader, x # y, Won(x, y)', Won(y, x)'
             PROVE  FALSE
  BY DEF WinnerInv
<1>1. CASE ~\E l \in Leader : BeginRound(l)
  BY <1>1, WonBefore DEF WinnerInv
<1>2. CASE \E l \in Leader : BeginRound(l)
  <2> PICK l \in Leader : BeginRound(l)
    BY <1>2
  <2>ty. /\ pc \in [Thread -> StarterPc \cup SelectionPc]
         /\ todo \in [Thread -> SUBSET Leader]
         /\ ack \in [Thread -> {"none", "some", "refused"}]
         /\ status \in [Leader -> Status]
    BY DEF TypeOK
  <2>1. ASSUME NEW m \in Leader, m # l PROVE ~Won(l, m)'
    <3>1. CASE status[l] = "FREE"
      <4>1. pc'[Starter(l)] = "INIT" /\ m \in todo'[Starter(l)]
        BY <2>ty, <2>1, <3>1, ThreadIn, ThreadOwner DEF BeginRound, Broadcast, Peers
      <4> QED
        BY <4>1 DEF Won, Passed
    <3>2. CASE status[l] # "FREE"
      <4>1. pc'[Starter(l)] = "idle"
        BY <2>ty, <3>2, ThreadIn DEF BeginRound
      <4> QED
        BY <4>1 DEF Won, Passed
    <3> QED
      BY <3>1, <3>2
  <2>2. CASE l \in {x, y}
    BY <2>1, <2>2
  <2>3. CASE l \notin {x, y}
    <3>1. ASSUME NEW m \in Leader, NEW k \in Leader, m # l, k # l, Won(m, k)' PROVE Won(m, k)
      BY <2>ty, <3>1, ThreadIn, ThreadDistinct DEF BeginRound, Broadcast, Won, Passed, procVars
    <3> QED
      BY <2>3, <3>1 DEF WinnerInv
  <2> QED
    BY <2>2, <2>3
<1> QED
  BY <1>1, <1>2

\* While no connection breaks, two leaders are never both READY with their
\* SELECTION_INIT accepted by all others: the id comparison of initSelection
\* and the NEGATIVE answers that end notifyAllM elect one of them, for any
\* number of leaders, rounds, crashes and demotions.
THEOREM WinnerCorrect == Spec => []OneWinner
<1>1. Init => WinnerInv
  BY DEF Init, WinnerInv, Won
<1>2. TypeOK /\ CallInv /\ WinnerInv /\ [Next]_vars => WinnerInv'
  BY WinnerNext
<1>3. WinnerInv => OneWinner
  BY DEF WinnerInv, OneWinner, Won, Passed
<1> QED
  BY <1>1, <1>2, <1>3, TypeCorrect, CallCorrect, PTL DEF Spec
-----------------------------------------------------------------------------
(* SomeoneCanStart.                                                        *)

\* Where the starter thread of l is, and the call it has in progress.
StarterState(l) ==
  <<pc[Starter(l)], callee[Starter(l)], phase[Starter(l)], reply[Starter(l)],
    todo[Starter(l)], ack[Starter(l)]>>

\* What may change it: a step of that thread, or of a handler of its request.
StarterMoves(l) ==
  StartSelection(l) \/ StarterStep(l) \/ CallStep(Starter(l)) \/ Handler(Starter(l))

\* Nothing else does.
LEMMA StarterFrame ==
  ASSUME TypeOK, [Next]_vars, NEW y \in Leader
  PROVE  StarterMoves(y) \/ UNCHANGED StarterState(y)
<1> SUFFICES ASSUME ~StarterMoves(y) PROVE UNCHANGED StarterState(y)
  OBVIOUS
<1>ty. /\ pc \in [Thread -> StarterPc \cup SelectionPc]
       /\ callee \in [Thread -> Leader]
       /\ phase \in [Thread -> {"idle", "sent", "joining", "roles", "replied"}]
       /\ reply \in [Thread -> {"POSITIVE", "NEGATIVE"}]
       /\ todo \in [Thread -> SUBSET Leader]
       /\ ack \in [Thread -> {"none", "some", "refused"}]
  BY DEF TypeOK
<1>no. /\ ~StartSelection(y) /\ ~BeginRound(y) /\ ~InitDone(y) /\ ~StartDone(y)
       /\ ~AbortRound(y) /\ ~AbortDone(y) /\ ~SetStarted(y) /\ ~JoinSelection(y)
       /\ ~SpawnSelection(y)
       /\ ~CallNext(Starter(y)) /\ ~CallReturns(Starter(y)) /\ ~CallFails(Starter(y))
       /\ ~HandleInit(Starter(y)) /\ ~HandleStart(Starter(y)) /\ ~HandleStartJoined(Starter(y))
       /\ ~HandleSelection(Starter(y)) /\ ~HandleEndRoles(Starter(y))
       /\ ~HandleEndStop(Starter(y))
  BY DEF StarterMoves, StarterStep, CallStep, Handler
<1>1. ASSUME NEW l \in Leader, StartSelection(l) PROVE UNCHANGED StarterState(y)
  BY <1>1, <1>ty, <1>no, ThreadIn, ThreadDistinct
  DEF StartSelection, StarterState, callVars
<1>2. ASSUME NEW l \in Leader, BeginRound(l) PROVE UNCHANGED StarterState(y)
  BY <1>2, <1>ty, <1>no, ThreadIn, ThreadDistinct
  DEF BeginRound, Broadcast, StarterState, callVars
<1>3. ASSUME NEW l \in Leader, InitDone(l) PROVE UNCHANGED StarterState(y)
  BY <1>3, <1>ty, <1>no, ThreadIn, ThreadDistinct
  DEF InitDone, Broadcast, Leave, StarterState, callVars
<1>4. ASSUME NEW l \in Leader, StartDone(l) PROVE UNCHANGED StarterState(y)
  BY <1>4, <1>ty, <1>no, ThreadIn, ThreadDistinct
  DEF StartDone, Leave, StarterState, callVars
<1>5. ASSUME NEW l \in Leader, AbortRound(l) PROVE UNCHANGED StarterState(y)
  <2> l # y /\ Starter(l) # Starter(y)
    BY <1>5, <1>no, ThreadDistinct
  <2>1. UNCHANGED <<callee, phase, reply>>
    BY <1>5 DEF AbortRound
  <2>2. CASE pc[Starter(l)] = "initFailed"
    <3>1. pc' = [pc EXCEPT ![Starter(l)] = "idle"] /\ UNCHANGED <<todo, ack>>
      BY <1>5, <2>2 DEF AbortRound
    <3> QED
      BY <2>1, <3>1, <1>ty, ThreadIn DEF StarterState
  <2>3. CASE pc[Starter(l)] # "initFailed"
    <3>1. Broadcast(Starter(l), "ABORT")
      BY <1>5, <2>3 DEF AbortRound
    <3> QED
      BY <2>1, <3>1, <1>ty, ThreadIn DEF StarterState, Broadcast
  <2> QED
    BY <2>2, <2>3
<1>6. ASSUME NEW l \in Leader, AbortDone(l) PROVE UNCHANGED StarterState(y)
  BY <1>6, <1>ty, <1>no, ThreadIn, ThreadDistinct
  DEF AbortDone, Leave, StarterState, callVars
<1>7. ASSUME NEW l \in Leader, SetStarted(l) PROVE UNCHANGED StarterState(y)
  BY <1>7, <1>ty, <1>no, ThreadIn, ThreadDistinct
  DEF SetStarted, StarterState, callVars
<1>8. ASSUME NEW l \in Leader, JoinSelection(l) PROVE UNCHANGED StarterState(y)
  BY <1>8, <1>ty, <1>no, ThreadIn, ThreadDistinct
  DEF JoinSelection, StarterState, callVars
<1>9. ASSUME NEW l \in Leader, SpawnSelection(l) PROVE UNCHANGED StarterState(y)
  BY <1>9, <1>ty, <1>no, ThreadIn, ThreadDistinct
  DEF SpawnSelection, StarterState, callVars
<1>10. ASSUME NEW l \in Leader, EnterSelection(l) PROVE UNCHANGED StarterState(y)
  BY <1>10, <1>ty, <1>no, ThreadIn, ThreadDistinct
  DEF EnterSelection, StarterState, callVars
<1>11. ASSUME NEW l \in Leader, RunCluster(l) PROVE UNCHANGED StarterState(y)
  BY <1>11, <1>ty, <1>no, ThreadIn, ThreadDistinct
  DEF RunCluster, StarterState, callVars
<1>12. ASSUME NEW l \in Leader, SendSelection(l) PROVE UNCHANGED StarterState(y)
  BY <1>12, <1>ty, <1>no, ThreadIn, ThreadDistinct
  DEF SendSelection, StarterState, callVars
<1>13. ASSUME NEW l \in Leader, Choose(l) PROVE UNCHANGED StarterState(y)
  BY <1>13, <1>ty, <1>no, ThreadIn, ThreadDistinct
  DEF Choose, Broadcast, StarterState, callVars
<1>14. ASSUME NEW l \in Leader, EndDone(l) PROVE UNCHANGED StarterState(y)
  BY <1>14, <1>ty, <1>no, ThreadIn, ThreadDistinct
  DEF EndDone, Leave, StarterState, callVars
<1>15. ASSUME NEW l \in Leader, FreeStatus(l) PROVE UNCHANGED StarterState(y)
  BY <1>15, <1>ty, <1>no, ThreadIn, ThreadDistinct
  DEF FreeStatus, Leave, ThreadEnds, StarterState, callVars
<1>16. ASSUME NEW l \in Leader, InitiatorRoles(l) PROVE UNCHANGED StarterState(y)
  BY <1>16, <1>ty, <1>no, ThreadIn, ThreadDistinct
  DEF InitiatorRoles, ThreadEnds, Leave, StarterState, callVars
<1>17. ASSUME NEW l \in Leader, Demote(l) PROVE UNCHANGED StarterState(y)
  BY <1>17, <1>ty, <1>no, ThreadIn, ThreadDistinct
  DEF Demote, StarterState, callVars
<1>18. ASSUME NEW l \in Leader, Retain(l) PROVE UNCHANGED StarterState(y)
  BY <1>18, <1>ty, <1>no, ThreadIn, ThreadDistinct
  DEF Retain, StarterState, callVars
<1>19. ASSUME NEW l \in Leader, Greet(l) PROVE UNCHANGED StarterState(y)
  BY <1>19, <1>ty, <1>no, ThreadIn, ThreadDistinct
  DEF Greet, StarterState, callVars
<1>20. ASSUME NEW l \in Leader, Crash(l) PROVE UNCHANGED StarterState(y)
  BY <1>20, <1>ty, <1>no, ThreadIn, ThreadDistinct
  DEF Crash, StarterState, callVars
<1>21. ASSUME NEW t \in Thread, CallNext(t) PROVE UNCHANGED StarterState(y)
  BY <1>21, <1>ty, <1>no, ThreadIn, ThreadDistinct
  DEF CallNext, StarterState, callVars
<1>22. ASSUME NEW t \in Thread, CallReturns(t) PROVE UNCHANGED StarterState(y)
  BY <1>22, <1>ty, <1>no, ThreadIn, ThreadDistinct
  DEF CallReturns, HangUp, StarterState, callVars
<1>23. ASSUME NEW t \in Thread, CallFails(t) PROVE UNCHANGED StarterState(y)
  BY <1>23, <1>ty, <1>no, ThreadIn, ThreadDistinct
  DEF CallFails, HangUp, StarterState, callVars
<1>24. ASSUME NEW t \in Thread, HandleInit(t) PROVE UNCHANGED StarterState(y)
  BY <1>24, <1>ty, <1>no, ThreadIn, ThreadDistinct
  DEF HandleInit, Answer, StarterState, callVars
<1>25. ASSUME NEW t \in Thread, HandleStart(t) PROVE UNCHANGED StarterState(y)
  BY <1>25, <1>ty, <1>no, ThreadIn, ThreadDistinct
  DEF HandleStart, Answer, SpawnCalc, StarterState, callVars
<1>26. ASSUME NEW t \in Thread, HandleStartJoined(t) PROVE UNCHANGED StarterState(y)
  BY <1>26, <1>ty, <1>no, ThreadIn, ThreadDistinct
  DEF HandleStartJoined, Answer, SpawnCalc, StarterState, callVars
<1>27. ASSUME NEW t \in Thread, HandleSelection(t) PROVE UNCHANGED StarterState(y)
  BY <1>27, <1>ty, <1>no, ThreadIn, ThreadDistinct
  DEF HandleSelection, Answer, StarterState, callVars
<1>28. ASSUME NEW t \in Thread, HandleEndRoles(t) PROVE UNCHANGED StarterState(y)
  BY <1>28, <1>ty, <1>no, ThreadIn, ThreadDistinct
  DEF HandleEndRoles, StarterState, callVars
<1>29. ASSUME NEW t \in Thread, HandleEndStop(t) PROVE UNCHANGED StarterState(y)
  BY <1>29, <1>ty, <1>no, ThreadIn, ThreadDistinct
  DEF HandleEndStop, Answer, StarterState, callVars
<1>30. CASE UNCHANGED vars
  BY <1>30 DEF vars, StarterState, callVars
<1> QED
  BY <1>1, <1>2, <1>3, <1>4, <1>5, <1>6, <1>7, <1>8, <1>9, <1>10, <1>11, <1>12, <1>13, <1>14,
     <1>15, <1>16, <1>17, <1>18, <1>19, <1>20, <1>21, <1>22, <1>23, <1>24, <1>25, <1>26,
     <1>27, <1>28, <1>29, <1>30
  DEF Next, StarterStep, SelectionStep, RolesStep, CallStep, Handler

\* Only an accepted SELECTION_INIT makes a leader CHANGING.
LEMMA ChangingFrame ==
  ASSUME TypeOK, [Next]_vars, NEW x \in Leader, status[x] # "CHANGING", status'[x] = "CHANGING"
  PROVE  \E t \in Thread : HandleInit(t) /\ reply'[t] = "POSITIVE"
<1> DEFINE Goal == \E t \in Thread : HandleInit(t) /\ reply'[t] = "POSITIVE"
<1>ty. status \in [Leader -> Status] /\ callee \in [Thread -> Leader]
       /\ reply \in [Thread -> {"POSITIVE", "NEGATIVE"}]
  BY DEF TypeOK
<1>1. ASSUME NEW l \in Leader, StartSelection(l) PROVE Goal
  BY <1>1, <1>ty
  DEF StartSelection
<1>2. ASSUME NEW l \in Leader, BeginRound(l) PROVE Goal
  BY <1>2, <1>ty
  DEF BeginRound, Broadcast
<1>3. ASSUME NEW l \in Leader, InitDone(l) PROVE Goal
  BY <1>3, <1>ty
  DEF InitDone, Broadcast, Leave
<1>4. ASSUME NEW l \in Leader, StartDone(l) PROVE Goal
  BY <1>4, <1>ty
  DEF StartDone, Leave
<1>5. ASSUME NEW l \in Leader, AbortRound(l) PROVE Goal
  BY <1>5, <1>ty
  DEF AbortRound, Broadcast
<1>6. ASSUME NEW l \in Leader, AbortDone(l) PROVE Goal
  BY <1>6, <1>ty
  DEF AbortDone, Leave
<1>7. ASSUME NEW l \in Leader, SetStarted(l) PROVE Goal
  BY <1>7, <1>ty
  DEF SetStarted
<1>8. ASSUME NEW l \in Leader, JoinSelection(l) PROVE Goal
  BY <1>8, <1>ty
  DEF JoinSelection
<1>9. ASSUME NEW l \in Leader, SpawnSelection(l) PROVE Goal
  BY <1>9, <1>ty
  DEF SpawnSelection
<1>10. ASSUME NEW l \in Leader, EnterSelection(l) PROVE Goal
  BY <1>10, <1>ty
  DEF EnterSelection
<1>11. ASSUME NEW l \in Leader, RunCluster(l) PROVE Goal
  BY <1>11, <1>ty
  DEF RunCluster
<1>12. ASSUME NEW l \in Leader, SendSelection(l) PROVE Goal
  BY <1>12, <1>ty
  DEF SendSelection
<1>13. ASSUME NEW l \in Leader, Choose(l) PROVE Goal
  BY <1>13, <1>ty
  DEF Choose, Broadcast
<1>14. ASSUME NEW l \in Leader, EndDone(l) PROVE Goal
  BY <1>14, <1>ty
  DEF EndDone, Leave
<1>15. ASSUME NEW l \in Leader, FreeStatus(l) PROVE Goal
  BY <1>15, <1>ty
  DEF FreeStatus, Leave, ThreadEnds
<1>16. ASSUME NEW l \in Leader, InitiatorRoles(l) PROVE Goal
  BY <1>16, <1>ty
  DEF InitiatorRoles, ThreadEnds, Leave
<1>17. ASSUME NEW l \in Leader, Demote(l) PROVE Goal
  BY <1>17, <1>ty
  DEF Demote
<1>18. ASSUME NEW l \in Leader, Retain(l) PROVE Goal
  BY <1>18, <1>ty
  DEF Retain
<1>19. ASSUME NEW l \in Leader, Greet(l) PROVE Goal
  BY <1>19, <1>ty
  DEF Greet
<1>20. ASSUME NEW l \in Leader, Crash(l) PROVE Goal
  BY <1>20, <1>ty
  DEF Crash
<1>21. ASSUME NEW t \in Thread, CallNext(t) PROVE Goal
  BY <1>21, <1>ty
  DEF CallNext
<1>22. ASSUME NEW t \in Thread, CallReturns(t) PROVE Goal
  BY <1>22, <1>ty
  DEF CallReturns, HangUp
<1>23. ASSUME NEW t \in Thread, CallFails(t) PROVE Goal
  BY <1>23, <1>ty
  DEF CallFails, HangUp
<1>24. ASSUME NEW t \in Thread, HandleInit(t) PROVE Goal
  BY <1>24, <1>ty
  DEF HandleInit, Answer
<1>25. ASSUME NEW t \in Thread, HandleStart(t) PROVE Goal
  BY <1>25, <1>ty
  DEF HandleStart, Answer, SpawnCalc
<1>26. ASSUME NEW t \in Thread, HandleStartJoined(t) PROVE Goal
  BY <1>26, <1>ty
  DEF HandleStartJoined, Answer, SpawnCalc
<1>27. ASSUME NEW t \in Thread, HandleSelection(t) PROVE Goal
  BY <1>27, <1>ty
  DEF HandleSelection, Answer
<1>28. ASSUME NEW t \in Thread, HandleEndRoles(t) PROVE Goal
  BY <1>28, <1>ty
  DEF HandleEndRoles
<1>29. ASSUME NEW t \in Thread, HandleEndStop(t) PROVE Goal
  BY <1>29, <1>ty
  DEF HandleEndStop, Answer
<1>30. CASE UNCHANGED vars
  BY <1>30 DEF vars, callVars
<1> QED
  BY <1>1, <1>2, <1>3, <1>4, <1>5, <1>6, <1>7, <1>8, <1>9, <1>10, <1>11, <1>12, <1>13, <1>14,
     <1>15, <1>16, <1>17, <1>18, <1>19, <1>20, <1>21, <1>22, <1>23, <1>24, <1>25, <1>26,
     <1>27, <1>28, <1>29, <1>30
  DEF Next, StarterStep, SelectionStep, RolesStep, CallStep, Handler

\* A leader whose agent stopped or died is never up again.
LEMMA UpBefore ==
  ASSUME TypeOK, [Next]_vars, NEW x \in Leader, agent'[x] = "up"
  PROVE  agent[x] = "up"
<1>ty. agent \in [Leader -> {"up", "stopping", "down"}]
  BY DEF TypeOK
<1>1. ASSUME NEW l \in Leader,
             JoinSelection(l) \/ SpawnSelection(l) \/ Demote(l) \/ Greet(l) \/ Crash(l)
      PROVE  agent[x] = "up"
  BY <1>1, <1>ty DEF JoinSelection, SpawnSelection, Demote, Greet, Crash
<1>2. ASSUME NEW l \in Leader,
             \/ StartSelection(l) \/ BeginRound(l) \/ InitDone(l) \/ StartDone(l)
             \/ AbortRound(l) \/ AbortDone(l) \/ SetStarted(l)
      PROVE  agent[x] = "up"
  BY <1>2 DEF StartSelection, BeginRound, InitDone, StartDone, AbortRound, AbortDone,
              SetStarted, procVars
<1>3. ASSUME NEW l \in Leader, SelectionStep(l) \/ Retain(l)
      PROVE  agent[x] = "up"
  BY <1>3 DEF SelectionStep, EnterSelection, RunCluster, SendSelection, Choose, EndDone,
              FreeStatus, InitiatorRoles, Retain, procVars
<1>4. ASSUME NEW t \in Thread, CallStep(t) PROVE agent[x] = "up"
  BY <1>4 DEF CallStep, CallNext, CallReturns, CallFails, procVars
<1>5. ASSUME NEW t \in Thread, Handler(t) PROVE agent[x] = "up"
  BY <1>5 DEF Handler, HandleInit, HandleStart, HandleStartJoined, HandleSelection,
              HandleEndRoles, HandleEndStop, procVars
<1>6. CASE UNCHANGED vars
  BY <1>6 DEF vars, procVars
<1> QED
  BY <1>1, <1>2, <1>3, <1>4, <1>5, <1>6 DEF Next, StarterStep, RolesStep

\* A starter never calls its own leader.
PeerInv ==
  \A l \in Leader :
    /\ todo[Starter(l)] \subseteq Peers(l)
    /\ phase[Starter(l)] # "idle" => callee[Starter(l)] # l

\* The broadcasts leave the sender out of the leaders to call.
LEMMA PeerNext == TypeOK /\ PeerInv /\ [Next]_vars => PeerInv'
<1> SUFFICES ASSUME TypeOK, PeerInv, [Next]_vars, NEW l \in Leader
             PROVE  /\ todo'[Starter(l)] \subseteq Peers(l)
                    /\ phase'[Starter(l)] # "idle" => callee'[Starter(l)] # l
  BY DEF PeerInv, Peers
<1> DEFINE t == Starter(l)
<1>ty. /\ callee \in [Thread -> Leader]
       /\ phase \in [Thread -> {"idle", "sent", "joining", "roles", "replied"}]
       /\ todo \in [Thread -> SUBSET Leader]
  BY DEF TypeOK
<1>in. t \in Thread /\ t[1] = l
  BY ThreadIn, ThreadOwner
<1>p. todo[t] \subseteq Peers(l) /\ (phase[t] # "idle" => callee[t] # l)
  BY DEF PeerInv
<1> HIDE DEF t
<1>1. CASE \/ StartSelection(l) \/ StartDone(l) \/ AbortDone(l)
           \/ SetStarted(l) \/ JoinSelection(l) \/ SpawnSelection(l)
  BY <1>1, <1>p DEF StartSelection, StartDone, AbortDone, SetStarted, JoinSelection,
                    SpawnSelection, callVars, t
<1>2. CASE BeginRound(l) \/ InitDone(l) \/ AbortRound(l)
  <2>1. UNCHANGED <<callee, phase>>
    BY <1>2 DEF BeginRound, InitDone, AbortRound
  <2>2. UNCHANGED todo \/ todo' = [todo EXCEPT ![t] = Peers(t[1])]
    BY <1>2 DEF BeginRound, InitDone, AbortRound, Broadcast, t
  <2> QED
    BY <2>1, <2>2, <1>p, <1>in, <1>ty DEF t
<1>3. CASE CallNext(t)
  <2>1. PICK q \in todo[t] : /\ callee' = [callee EXCEPT ![t] = q]
                             /\ todo' = [todo EXCEPT ![t] = @ \ {q}]
    BY <1>3 DEF CallNext
  <2> QED
    BY <2>1, <1>p, <1>in, <1>ty DEF t, Peers
<1>4. CASE CallReturns(t) \/ CallFails(t)
  <2>1. phase' = [phase EXCEPT ![t] = "idle"]
    BY <1>4 DEF CallReturns, CallFails, HangUp
  <2>2. UNCHANGED todo \/ todo' = [todo EXCEPT ![t] = {}]
    BY <1>4 DEF CallReturns, CallFails
  <2> QED
    BY <2>1, <2>2, <1>p, <1>in, <1>ty DEF t
<1>5. CASE Handler(t)
  <2>1. UNCHANGED <<callee, todo>>
    BY <1>5 DEF Handler, HandleInit, HandleStart, HandleStartJoined, HandleSelection,
                HandleEndRoles, HandleEndStop
  <2>2. phase[t] # "idle"
    BY <1>5 DEF Handler, HandleInit, HandleStart, HandleStartJoined, HandleSelection,
                HandleEndRoles, HandleEndStop, Arrived
  <2> QED
    BY <2>1, <2>2, <1>p DEF t
<1>6. CASE UNCHANGED StarterState(l)
  BY <1>6, <1>p DEF StarterState, t
<1> QED
  BY <1>1, <1>2, <1>3, <1>4, <1>5, <1>6, StarterFrame
  DEF StarterMoves, StarterStep, CallStep, t

\* Hence it holds in every state.
LEMMA PeerCorrect == Spec => []PeerInv
<1>1. Init => PeerInv
  BY ThreadIn DEF Init, PeerInv
<1> QED
  BY <1>1, PeerNext, TypeCorrect, PTL DEF Spec

\* Every leader is running its agent.
AllUp == \A l \in Leader : agent[l] = "up"

\* The broadcast of t has had a NEGATIVE answer.
Refused(t) == ack[t] = "refused" \/ (phase[t] = "replied" /\ reply[t] = "NEGATIVE")

\* The SELECTION_INIT of y was accepted by a leader and refused by none, and
\* is not over; or the SELECTION_START of y still has a leader to reach.
Agreed(y) ==
  /\ pc[Starter(y)] = "INIT"
  /\ ~Refused(Starter(y))
  /\ ack[Starter(y)] = "some" \/ phase[Starter(y)] = "replied"
  /\ Peers(y) # {}
Calling(y) ==
  /\ pc[Starter(y)] = "START"
  /\ ~Refused(Starter(y))
  /\ todo[Starter(y)] # {} \/ phase[Starter(y)] = "sent"

\* If every leader is CHANGING, a round is going to take one of them on: a
\* leader that refuses SELECTION_INIT is READY, one that refuses
\* SELECTION_START is not CHANGING, and one that accepts it is RECEIVED.
Hope ==
  \/ \E x \in Leader : status[x] # "CHANGING"
  \/ \E y \in Leader : Agreed(y) \/ Calling(y)

HopeInv == AllUp /\ Leader # {} => Hope

\* With all leaders CHANGING, the steps of the round of y keep it on its way.
LEMMA RoundGoesOn ==
  ASSUME TypeOK, CallInv, ~Lossy, AllUp, [Next]_vars, NEW y \in Leader,
         Agreed(y) \/ Calling(y), \A x \in Leader : status[x] = "CHANGING"
  PROVE  Agreed(y)' \/ Calling(y)' \/ \E x \in Leader : status'[x] # "CHANGING"
<1> DEFINE t == Starter(y)
           Goal == Agreed(y)' \/ Calling(y)' \/ \E x \in Leader : status'[x] # "CHANGING"
<1>ty. /\ pc \in [Thread -> StarterPc \cup SelectionPc]
       /\ callee \in [Thread -> Leader]
       /\ phase \in [Thread -> {"idle", "sent", "joining", "roles", "replied"}]
       /\ reply \in [Thread -> {"POSITIVE", "NEGATIVE"}]
       /\ todo \in [Thread -> SUBSET Leader]
       /\ ack \in [Thread -> {"none", "some", "refused"}]
       /\ status \in [Leader -> Status]
  BY DEF TypeOK
<1>in. t \in Thread /\ t[1] = y /\ \A q \in Leader : t # Selection(q)
  BY ThreadIn, ThreadOwner, ThreadDistinct
<1>ca. /\ phase[t] = "joining" => pc[t] = "START"
       /\ phase[t] = "roles" => pc[t] \in {"END", "ABORT"}
  BY <1>in DEF CallInv, CallOk
<1>pc. \/ pc[t] = "INIT" /\ Agreed(y)
       \/ pc[t] = "START" /\ Calling(y)
  BY DEF Agreed, Calling
<1>up. callee[t] \in Leader /\ agent[callee[t]] = "up" /\ status[callee[t]] = "CHANGING"
  BY <1>in, <1>ty DEF AllUp
<1> HIDE DEF t
<1>1. CASE \/ StartSelection(y) \/ BeginRound(y) \/ AbortRound(y) \/ AbortDone(y)
           \/ SetStarted(y) \/ JoinSelection(y) \/ SpawnSelection(y)
  BY <1>1, <1>pc DEF StartSelection, BeginRound, AbortRound, AbortDone, SetStarted,
                     JoinSelection, SpawnSelection, t
<1>2. CASE InitDone(y)
  <2>1. Agreed(y) /\ phase[t] = "idle"
    BY <1>2, <1>pc DEF InitDone, BroadcastOver, t
  <2>2. BroadcastOk(t) /\ Peers(y) # {}
    BY <2>1 DEF Agreed, BroadcastOk, t
  <2>3. Broadcast(t, "START") /\ UNCHANGED <<phase, reply>>
    BY <1>2, <2>2 DEF InitDone, t
  <2>4. pc'[t] = "START" /\ todo'[t] = Peers(y) /\ ack'[t] = "none" /\ phase'[t] = "idle"
    BY <2>1, <2>3, <1>in, <1>ty DEF Broadcast
  <2> QED
    BY <2>2, <2>4 DEF Calling, Refused, t
<1>3. CASE StartDone(y)
  BY <1>3, <1>pc DEF StartDone, BroadcastOver, Calling, t
<1>4. CASE CallNext(t)
  <2>1. phase[t] = "idle" /\ phase'[t] = "sent" /\ UNCHANGED <<pc, reply, ack>>
    BY <1>4, <1>in, <1>ty DEF CallNext
  <2> QED
    BY <2>1, <1>pc DEF Agreed, Calling, Refused, t
<1>5. CASE CallReturns(t)
  <2>1. phase[t] = "replied" /\ phase'[t] = "idle" /\ UNCHANGED pc
    BY <1>5, <1>in, <1>ty DEF CallReturns, HangUp
  <2>2. reply[t] # "NEGATIVE"
    BY <2>1, <1>pc DEF Agreed, Calling, Refused, t
  <2>3. ack'[t] = "some" /\ UNCHANGED todo
    BY <1>5, <2>2, <1>in, <1>ty DEF CallReturns
  <2> QED
    BY <2>1, <2>3, <1>pc DEF Agreed, Calling, Refused, t
<1>6. CASE CallFails(t)
  BY <1>6, <1>up, <1>ca, <1>pc DEF CallFails, Agreed, Calling, Refused, t
<1>7. CASE HandleInit(t)
  <2>1. Agreed(y) /\ phase[t] = "sent"
    BY <1>7, <1>pc DEF HandleInit, Arrived
  <2>2. Answer(t, "POSITIVE") /\ UNCHANGED <<pc, ack>>
    BY <1>7, <1>up DEF HandleInit
  <2>3. phase'[t] = "replied" /\ reply'[t] = "POSITIVE"
    BY <2>2, <1>in, <1>ty DEF Answer
  <2> QED
    BY <2>1, <2>2, <2>3 DEF Agreed, Refused, t
<1>8. CASE HandleStart(t)
  <2>1. status' = [status EXCEPT ![callee[t]] = "RECEIVED"]
    BY <1>8, <1>up DEF HandleStart
  <2>2. status'[callee[t]] = "RECEIVED"
    BY <2>1, <1>up, <1>ty
  <2> QED
    BY <2>2, <1>up
<1>9. CASE HandleStartJoined(t)
  <2>1. phase[t] = "joining" /\ Calling(y)
    BY <1>9, <1>ca, <1>pc DEF HandleStartJoined
  <2>2. pc'[t] = "START"
    BY <1>9, <1>pc, <2>1, <1>in, <1>ty, <1>up DEF HandleStartJoined, SpawnCalc, Calling, t
  <2>3. phase'[t] = "replied" /\ reply'[t] = "POSITIVE" /\ UNCHANGED <<todo, ack>>
    BY <1>9, <1>in, <1>ty DEF HandleStartJoined, Answer
  <2> QED
    BY <2>1, <2>2, <2>3 DEF Calling, Refused, t
<1>10. CASE HandleSelection(t) \/ HandleEndRoles(t) \/ HandleEndStop(t)
  BY <1>10, <1>pc, <1>ca DEF HandleSelection, HandleEndRoles, HandleEndStop, Arrived
<1>11. CASE UNCHANGED StarterState(y)
  BY <1>11, <1>pc DEF StarterState, Agreed, Calling, Refused, t
<1> QED
  BY <1>1, <1>2, <1>3, <1>4, <1>5, <1>6, <1>7, <1>8, <1>9, <1>10, <1>11, StarterFrame
  DEF StarterMoves, StarterStep, CallStep, Handler, t

\* A leader can become CHANGING only for a round that goes on.
LEMMA HopeNext ==
  ASSUME ~Lossy
  PROVE  TypeOK /\ CallInv /\ PeerInv /\ HopeInv /\ [Next]_vars => HopeInv'
<1> SUFFICES ASSUME TypeOK, CallInv, PeerInv, HopeInv, [Next]_vars, AllUp',
                    Leader # {}, \A x \in Leader : status'[x] = "CHANGING"
             PROVE  \E y \in Leader : Agreed(y)' \/ Calling(y)'
  BY DEF HopeInv, Hope
<1>1. AllUp
  BY UpBefore DEF AllUp
<1>2. CASE \E x \in Leader : status[x] # "CHANGING"
  <2>1. PICK t \in Thread : HandleInit(t) /\ reply'[t] = "POSITIVE"
    BY <1>2, ChangingFrame
  <2>2. pc[t] = "INIT" /\ phase[t] = "sent"
    BY <2>1 DEF HandleInit, Arrived
  <2>3. PICK y \in Leader : t = Starter(y)
    <3>1. pc[Selection(t[1])] \in SelectionPc
      BY ThreadOwner DEF TypeOK
    <3>2. pc[Selection(t[1])] # "INIT"
      BY <3>1 DEF SelectionPc
    <3> QED
      BY <2>2, <3>2, ThreadKinds, ThreadOwner
  <2>4. Peers(y) # {}
    BY <2>2, <2>3 DEF PeerInv, TypeOK, Peers
  <2>5. ack[t] # "refused"
    BY <2>2, <2>3 DEF CallInv, CallOk, Starter
  <2>6. phase'[t] = "replied" /\ UNCHANGED <<pc, ack>>
    BY <2>1 DEF HandleInit, Answer, TypeOK
  <2>7. Agreed(y)'
    BY <2>1, <2>2, <2>3, <2>4, <2>5, <2>6 DEF Agreed, Refused, Peers
  <2> QED
    BY <2>7
<1>3. CASE \A x \in Leader : status[x] = "CHANGING"
  <2>1. PICK y \in Leader : Agreed(y) \/ Calling(y)
    BY <1>1, <1>3 DEF HopeInv, Hope
  <2> QED
    BY <2>1, <1>1, <1>3, RoundGoesOn
<1> QED
  BY <1>2, <1>3

\* While no connection breaks and every leader runs, selections never shut
\* themselves out: whenever no starter and no selection thread is active, some
\* leader is FREE, for any number of leaders and of rounds started at once.
THEOREM StartCorrect ==
  ASSUME ~Lossy
  PROVE  Spec => [](AllUp => SomeoneCanStart)
<1>1. Init => HopeInv
  BY DEF Init, HopeInv, Hope, AllUp
<1>2. TypeOK /\ CallInv /\ PeerInv /\ HopeInv /\ [Next]_vars => HopeInv'
  BY HopeNext
<1>3. TypeOK /\ CallInv /\ BusyHasOwner /\ HopeInv => (AllUp => SomeoneCanStart)
  <2> SUFFICES ASSUME TypeOK, CallInv, BusyHasOwner, HopeInv, AllUp, Quiescent,
                      Leader # {}
               PROVE  \E l \in Leader : agent[l] = "up" /\ status[l] = "FREE"
    BY DEF SomeoneCanStart
  <2>1. \A l \in Leader : pc[Starter(l)] = "idle" /\ ~Running(l)
    BY DEF AllUp, Quiescent
  <2>2. PICK x \in Leader : status[x] # "CHANGING"
    BY <2>1 DEF HopeInv, Hope, Agreed, Calling
  <2>3. ~Locked(x)
    <3> SUFFICES ASSUME NEW t \in Thread, phase[t] = "joining" PROVE FALSE
      BY DEF Locked
    <3>1. pc[t] = "START"
      BY DEF CallInv, CallOk
    <3>2. pc[Selection(t[1])] \in SelectionPc
      BY ThreadOwner DEF TypeOK
    <3> QED
      BY <3>1, <3>2, <2>1, ThreadKinds, ThreadOwner DEF SelectionPc
  <2>4. HasOwner(x) /\ status[x] \in Status
    BY DEF BusyHasOwner, AllUp, TypeOK
  <2>5. status[x] = "FREE"
    BY <2>1, <2>2, <2>3, <2>4 DEF HasOwner, Status, Running
  <2> QED
    BY <2>5 DEF AllUp
<1> QED
  BY <1>1, <1>2, <1>3, TypeCorrect, CallCorrect, OwnerCorrect, PeerCorrect, PTL DEF Spec
=============================================================================
