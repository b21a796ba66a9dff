-------------------------- MODULE LeaderMeshProofs --------------------------
(***************************************************************************)
(* Proofs about module LeaderMesh, for any number of nodes, of greetings   *)
(* and of losses.                                                          *)
(*                                                                         *)
(* That the leaders end up knowing each other depends neither on what they *)
(* knew before nor on the order in which they restart: of two leaders that *)
(* do not know each other yet, one has the other on the list it greets or  *)
(* has yet to hear of the list (MeshInv).                                  *)
(***************************************************************************)
EXTENDS LeaderMesh, FiniteSetTheorems, TLAPS

\* What a node's role tells of the list, and a call of the greetings.
RoleInv ==
  \A n \in Node :
    /\ n \notin told => role[n] = IF n \in first THEN "leader" ELSE "follower"
    /\ n \in told /\ role[n] = "leader" => n \in list
    /\ role[n] = "restarting" => n \in list /\ n \notin first
    /\ job[n] # None => role[n] = "leader" /\ n \in told
    /\ job[n] # None /\ job[n].kind = "start" => n \notin first
    /\ call[n] # None => job[n] # None /\ call[n].to \in job[n].todo

\* What an answer carries: both ends of the greeting.
AnswerInv ==
  \A n \in Node :
    /\ role[n] = "leader" => n \in table[n]
    /\ call[n] # None /\ call[n].at # "sent" => n \in table[call[n].to]
    /\ call[n] # None /\ call[n].at = "answered" => call[n].to \in call[n].nodes

Acquainted(m, n) == m \in table[n] /\ n \in table[m]

\* m has yet to greet n, in the loop over the list.
WillGreet(m, n) == job[m] # None /\ job[m].stage = "given" /\ n \in job[m].todo

\* m was a leader and will greet the list once it hears of it.
Unaware(m) == m \in first /\ m \notin told

\* Two leaders on the list know each other, or one of them will greet the other.
MeshInv ==
  lost = 0 =>
    \A m, n \in list :
      role[m] = "leader" /\ role[n] = "leader" /\ m # n =>
        Acquainted(m, n) \/ WillGreet(m, n) \/ WillGreet(n, m) \/ Unaware(m) \/ Unaware(n)

Stay == first \cap list

\* Listed, and a leader for good.
Up(k) == k \in list /\ role[k] = "leader"

\* Without stale rows, all that the tables of the list, the answers and the second
\* loop speak of are leaders for good, and a new leader that nobody has answered
\* yet has all of those that stay before it.
StaleInv ==
  lost = 0 /\ Stay # {} /\ NoStaleRow =>
    \A n \in Node :
      /\ role[n] # "exited"
      /\ n \in Stay => role[n] = "leader"
      /\ n \in list => \A k \in table[n] : Up(k)
      /\ call[n] # None => \A k \in call[n].nodes : Up(k)
      /\ job[n] # None => job[n].todo \subseteq list
      /\ job[n] # None /\ job[n].stage = "table" =>
           \A k \in job[n].todo : k # n /\ role[k] = "leader"
      /\ job[n] # None /\ job[n].stage = "given" /\ ~job[n].valid =>
           job[n].kind = "start" /\ Stay \subseteq job[n].todo

Inv == RoleInv /\ AnswerInv /\ MeshInv /\ StaleInv
-----------------------------------------------------------------------------
\* The greetings of a node after it is done with a leader.
LEMMA DoneType ==
  ASSUME TypeOK, NEW n \in Node, job[n] # None, call[n] # None,
         NEW v \in BOOLEAN, Done(n, v)
  PROVE  /\ job' \in [Node -> Job \cup {None}] /\ job'[n] \in Job
         /\ job' = [job EXCEPT ![n] = [job[n] EXCEPT
                      !.todo = @ \ {call[n].to}, !.tries = 0, !.valid = v]]
<1> USE MeshAssumption DEF TypeOK, Job, Call
<1>1. [job[n] EXCEPT !.todo = @ \ {call[n].to}, !.tries = 0, !.valid = v] \in Job
  <2>1. job[n] \in Job OBVIOUS
  <2>2. job[n].todo \ {call[n].to} \in SUBSET Node /\ 0 \in 0 .. Tries - 1 BY <2>1
  <2> QED BY <2>1, <2>2
<1>2. job' = [job EXCEPT ![n] = [job[n] EXCEPT !.todo = @ \ {call[n].to}, !.tries = 0,
        !.valid = v]]
  BY DEF Done
<1> QED BY <1>1, <1>2

\* The types of what NotAnswered changes.
LEMMA NotAnsweredType ==
  ASSUME TypeOK, RoleInv, NEW n \in Node, call[n] # None, NotAnswered(n)
  PROVE  /\ job' \in [Node -> Job \cup {None}]
         /\ role' \in [Node -> {"follower", "restarting", "leader", "exited"}]
         /\ call' \in [Node -> Call \cup {None}]
<1>1. job[n] \in Job /\ job[n] # None BY DEF TypeOK, RoleInv
<1>2. CASE job[n].kind = "start" /\ job[n].tries + 1 < Tries
           /\ job' = [job EXCEPT ![n].tries = @ + 1] /\ UNCHANGED role
  <2>1. [job[n] EXCEPT !.tries = @ + 1] \in Job BY <1>1, <1>2, MeshAssumption DEF Job
  <2> QED BY <1>2, <2>1 DEF TypeOK, NotAnswered
<1>3. CASE Done(n, job[n].valid) /\ UNCHANGED role
  <2>1. job[n].valid \in BOOLEAN BY <1>1 DEF Job
  <2> QED BY <1>1, <1>3, <2>1, DoneType DEF TypeOK, NotAnswered
<1>4. CASE Exit(n) BY <1>4 DEF TypeOK, NotAnswered, Exit
<1> QED BY <1>2, <1>3, <1>4 DEF NotAnswered

\* Every action keeps the variables in their types; a call is made only with
\* greetings to make (RoleInv), so that Done has a record to change.
LEMMA TypeStep == TypeOK /\ RoleInv /\ [Next]_vars => TypeOK'
<1> SUFFICES ASSUME TypeOK, RoleInv, [Next]_vars PROVE TypeOK' OBVIOUS
<1> USE MeshAssumption DEF TypeOK, RoleInv, Job, Call, Stage, lists
<1>1. ASSUME NEW n \in Node, ChangeRole(n) PROVE TypeOK'
  <2>1. {first, list, told}' \subseteq SUBSET Node BY <1>1 DEF ChangeRole
  <2>2. role' \in [Node -> {"follower", "restarting", "leader", "exited"}]
    BY <1>1 DEF ChangeRole
  <2>3. Greetings("retain", list, TRUE) \in Job BY DEF Greetings
  <2>4. \/ job' = job
        \/ job' = [job EXCEPT ![n] = Greetings("retain", list, TRUE)]
    BY <1>1 DEF ChangeRole
  <2>5. job' \in [Node -> Job \cup {None}]
    <3>1. job \in [Node -> Job \cup {None}] OBVIOUS
    <3> QED BY <2>3, <2>4, <3>1, ZenonT(60) DEF Greetings
  <2> QED BY <1>1, <2>1, <2>2, <2>5 DEF ChangeRole
<1>2. ASSUME NEW n \in Node, Start(n) PROVE TypeOK'
  BY <1>2 DEF Start, Greetings, addMNode
<1>3. ASSUME NEW n \in Node, NextLoop(n) PROVE TypeOK'
  BY <1>3 DEF NextLoop, Exit
<1>4. ASSUME NEW n \in Node, Greet(n) PROVE TypeOK'
  BY <1>4 DEF Greet
<1>5. ASSUME NEW n \in Node, Add(n) PROVE TypeOK'
  <2>1. [call[n] EXCEPT !.at = "added"] \in Call
    <3>1. call[n] \in Call BY <1>5 DEF Add
    <3> QED BY <3>1
  <2>2. call' = [call EXCEPT ![n] = [call[n] EXCEPT !.at = "added"]] BY <1>5 DEF Add
  <2>3. call' \in [Node -> Call \cup {None}] BY <2>1, <2>2
  <2>4. table' \in [Node -> SUBSET Node] BY <1>5 DEF Add, addMNode
  <2> QED BY <1>5, <2>3, <2>4 DEF Add
<1>6. ASSUME NEW n \in Node, Reply(n) PROVE TypeOK'
  <2>1. [call[n] EXCEPT !.at = "answered", !.nodes = table[call[n].to]] \in Call
    <3>1. call[n] \in Call /\ table[call[n].to] \in SUBSET Node BY <1>6 DEF Reply
    <3> QED BY <3>1
  <2>2. call' = [call EXCEPT ![n] = [call[n] EXCEPT !.at = "answered",
    !.nodes = table[call[n].to]]]
    BY <1>6 DEF Reply
  <2>3. call' \in [Node -> Call \cup {None}] BY <2>1, <2>2
  <2> QED BY <1>6, <2>3 DEF Reply
<1>7. ASSUME NEW n \in Node, Answered(n) PROVE TypeOK'
  <2>1. job' \in [Node -> Job \cup {None}] BY <1>7, DoneType DEF Answered
  <2>2. table' \in [Node -> SUBSET Node] BY <1>7 DEF Answered, addMNode
  <2>3. call' \in [Node -> Call \cup {None}] BY <1>7 DEF Answered
  <2> QED BY <1>7, <2>1, <2>2, <2>3 DEF Answered
<1>8. ASSUME NEW n \in Node, Unanswered(n) PROVE TypeOK'
  BY <1>8, NotAnsweredType DEF Unanswered, NotAnswered
<1>9. ASSUME NEW n \in Node, Lose(n) PROVE TypeOK'
  <2>1. lost' \in 0 .. MaxLost BY <1>9 DEF Lose
  <2> QED BY <1>9, <2>1, NotAnsweredType DEF Lose, NotAnswered
<1>10. CASE UNCHANGED vars BY <1>10 DEF vars
<1> QED BY <1>1, <1>2, <1>3, <1>4, <1>5, <1>6, <1>7, <1>8, <1>9, <1>10 DEF Next, Step

\* Roles, greetings and calls stay consistent with the list: only a follower that
\* is on it restarts, and only once.
LEMMA RoleStep == TypeOK /\ RoleInv /\ [Next]_vars => RoleInv'
<1> SUFFICES ASSUME TypeOK, RoleInv, [Next]_vars PROVE RoleInv' OBVIOUS
<1> USE MeshAssumption DEF TypeOK, RoleInv, Job, Call, Stage, lists
<1>1. ASSUME NEW n \in Node, ChangeRole(n) PROVE RoleInv'
  BY <1>1 DEF ChangeRole, Greetings
<1>2. ASSUME NEW n \in Node, Start(n) PROVE RoleInv'
  BY <1>2 DEF Start, Greetings, addMNode
<1>3. ASSUME NEW n \in Node, NextLoop(n) PROVE RoleInv'
  BY <1>3 DEF NextLoop, Exit
<1>4. ASSUME NEW n \in Node, Greet(n) PROVE RoleInv'
  BY <1>4 DEF Greet
<1>5. ASSUME NEW n \in Node, Add(n) PROVE RoleInv'
  BY <1>5 DEF Add, addMNode
<1>6. ASSUME NEW n \in Node, Reply(n) PROVE RoleInv'
  BY <1>6 DEF Reply
<1>7. ASSUME NEW n \in Node, Answered(n) PROVE RoleInv'
  BY <1>7 DEF Answered, addMNode, Done
<1>8. ASSUME NEW n \in Node, Unanswered(n) PROVE RoleInv'
  BY <1>8 DEF Unanswered, NotAnswered, Done, Exit
<1>9. ASSUME NEW n \in Node, Lose(n) PROVE RoleInv'
  BY <1>9 DEF Lose, NotAnswered, Done, Exit
<1>10. CASE UNCHANGED vars BY <1>10 DEF vars
<1> QED BY <1>1, <1>2, <1>3, <1>4, <1>5, <1>6, <1>7, <1>8, <1>9, <1>10 DEF Next, Step

\* Rows of MMNodes are never deleted: what a handler added is still there when the
\* answer is read and when it arrives.
LEMMA AnswerStep == TypeOK /\ RoleInv /\ AnswerInv /\ [Next]_vars => AnswerInv'
<1> SUFFICES ASSUME TypeOK, RoleInv, AnswerInv, [Next]_vars PROVE AnswerInv' OBVIOUS
<1> USE MeshAssumption DEF TypeOK, RoleInv, AnswerInv, Job, Call, Stage, lists
<1>1. ASSUME NEW n \in Node, ChangeRole(n) PROVE AnswerInv'
  BY <1>1 DEF ChangeRole, Greetings
<1>2. ASSUME NEW n \in Node, Start(n) PROVE AnswerInv'
  BY <1>2 DEF Start, Greetings, addMNode
<1>3. ASSUME NEW n \in Node, NextLoop(n) PROVE AnswerInv'
  BY <1>3 DEF NextLoop, Exit
<1>4. ASSUME NEW n \in Node, Greet(n) PROVE AnswerInv'
  BY <1>4 DEF Greet
<1>5. ASSUME NEW n \in Node, Add(n) PROVE AnswerInv'
  BY <1>5 DEF Add, addMNode
<1>6. ASSUME NEW n \in Node, Reply(n) PROVE AnswerInv'
  BY <1>6 DEF Reply
<1>7. ASSUME NEW n \in Node, Answered(n) PROVE AnswerInv'
  BY <1>7 DEF Answered, addMNode, Done
<1>8. ASSUME NEW n \in Node, Unanswered(n) PROVE AnswerInv'
  BY <1>8 DEF Unanswered, NotAnswered, Done, Exit
<1>9. ASSUME NEW n \in Node, Lose(n) PROVE AnswerInv'
  BY <1>9 DEF Lose, NotAnswered, Done, Exit
<1>10. CASE UNCHANGED vars BY <1>10 DEF vars
<1> QED BY <1>1, <1>2, <1>3, <1>4, <1>5, <1>6, <1>7, <1>8, <1>9, <1>10 DEF Next, Step

\* No step loses a pair of leaders.  Start puts all of the list before the new leader;
\* a leader is taken off that list by an answer, which acquaints both, or
\* because it is no leader, and then it will greet the other if it becomes one.
LEMMA MeshStep == TypeOK /\ RoleInv /\ AnswerInv /\ MeshInv /\ [Next]_vars => MeshInv'
<1> SUFFICES ASSUME TypeOK, RoleInv, AnswerInv, MeshInv, [Next]_vars PROVE MeshInv' OBVIOUS
<1> USE MeshAssumption
    DEF TypeOK, RoleInv, AnswerInv, MeshInv, Acquainted, WillGreet, Unaware, Job, Call, Stage, lists
<1>1. ASSUME NEW n \in Node, ChangeRole(n) PROVE MeshInv'
  <2>1. UNCHANGED <<table, call, lists, lost>> /\ told' = told \cup {n}
    BY <1>1 DEF ChangeRole
  <2>2. \A m \in Node : role'[m] = "leader" => role[m] = "leader"
    <3>1. \/ role' = role \/ role' = [role EXCEPT ![n] = "restarting"]
          \/ role' = [role EXCEPT ![n] = "follower"]
      BY <1>1 DEF ChangeRole
    <3> QED BY <3>1
  <2>3. \A l, m \in Node : Acquainted(l, m) => Acquainted(l, m)' BY <2>1
  <2>4. \A l, m \in Node : WillGreet(l, m) => WillGreet(l, m)'
    BY <1>1 DEF ChangeRole, Greetings
  <2>5. \A m \in Node : Unaware(m) /\ m # n => Unaware(m)' BY <2>1
  <2>6. ASSUME Unaware(n), n \in list, role[n] = "leader", NEW m \in list
        PROVE  WillGreet(n, m)'
    <3>1. job' = [job EXCEPT ![n] = Greetings("retain", list, TRUE)]
      BY <1>1, <2>6 DEF ChangeRole
    <3>2. Greetings("retain", list, TRUE) \in Job BY DEF Greetings
    <3>3. job'[n] = Greetings("retain", list, TRUE) BY <3>1
    <3>4. job'[n] # None BY <3>2, <3>3
    <3>5. job'[n].stage = "given" /\ job'[n].todo = list BY <3>3 DEF Greetings
    <3> QED BY <3>4, <3>5
  <2> QED
    <3> HIDE DEF Acquainted, WillGreet, Unaware
    <3> QED BY <2>1, <2>2, <2>3, <2>4, <2>5, <2>6
<1>2. ASSUME NEW n \in Node, Start(n) PROVE MeshInv'
  <2>1. /\ role' = [role EXCEPT ![n] = "leader"] /\ UNCHANGED <<lists, told, lost>>
        /\ table' = [table EXCEPT ![n] = @ \cup {n}]
        /\ job' = [job EXCEPT ![n] = Greetings("start", list \ {n}, list = {n})]
    BY <1>2 DEF Start, addMNode
  <2>2. Greetings("start", list \ {n}, list = {n}) \in Job BY DEF Greetings
  <2>3. \A k \in list : k # n => WillGreet(n, k)' BY <2>1, <2>2 DEF Greetings
  <2>4. \A k, m \in Node : k # n => (WillGreet(k, m) => WillGreet(k, m)') BY <2>1
  <2>5. \A k, m \in Node : Acquainted(k, m) => Acquainted(k, m)' BY <2>1
  <2>6. \A k \in Node : k # n => role'[k] = role[k] BY <2>1
  <2> QED
    <3> HIDE DEF Acquainted, WillGreet
    <3> QED BY <2>1, <2>3, <2>4, <2>5, <2>6
<1>3. ASSUME NEW n \in Node, NextLoop(n) PROVE MeshInv'
  BY <1>3 DEF NextLoop, Exit
<1>4. ASSUME NEW n \in Node, Greet(n) PROVE MeshInv'
  BY <1>4 DEF Greet
<1>5. ASSUME NEW n \in Node, Add(n) PROVE MeshInv'
  BY <1>5 DEF Add, addMNode
<1>6. ASSUME NEW n \in Node, Reply(n) PROVE MeshInv'
  BY <1>6 DEF Reply
<1>7. ASSUME NEW n \in Node, Answered(n) PROVE MeshInv'
  <2>0. PICK k \in Node : k = call[n].to BY <1>7 DEF Answered
  <2>1. /\ job[n] # None /\ call[n] # None /\ job[n] \in Job /\ call[n] \in Call
        /\ UNCHANGED <<role, lists, told, lost>>
        /\ table' = [table EXCEPT ![n] = @ \cup call[n].nodes]
    BY <1>7 DEF Answered, addMNode
  <2>2. job' = [job EXCEPT ![n] = [job[n] EXCEPT !.todo = @ \ {k}, !.tries = 0, !.valid = TRUE]]
    BY <1>7, <2>0, <2>1, DoneType DEF Answered
  <2>3. job'[n] # None
    <3>1. job'[n] \in Job BY <1>7, <2>1, DoneType DEF Answered
    <3> QED BY <3>1
  <2>4. Acquainted(n, k)' /\ Acquainted(k, n)'
    <3>1. n \in table[k] /\ k \in call[n].nodes BY <1>7, <2>0 DEF Answered
    <3>2. n = k => n \in call[n].nodes BY <3>1
    <3> QED BY <2>1, <3>1, <3>2
  <2>5. \A l, m \in Node : Acquainted(l, m) => Acquainted(l, m)' BY <2>1
  <2>6. \A l, m \in Node : WillGreet(l, m) /\ (l # n \/ m # k) => WillGreet(l, m)'
    BY <2>1, <2>2, <2>3
  <2> QED
    <3> HIDE DEF Acquainted, WillGreet
    <3> QED BY <2>1, <2>4, <2>5, <2>6
<1>8. ASSUME NEW n \in Node, Unanswered(n) PROVE MeshInv'
  BY <1>8 DEF Unanswered, NotAnswered, Done, Exit
<1>9. ASSUME NEW n \in Node, Lose(n) PROVE MeshInv'
  BY <1>9 DEF Lose, NotAnswered, Done, Exit
<1>10. CASE UNCHANGED vars BY <1>10 DEF vars
<1> QED BY <1>1, <1>2, <1>3, <1>4, <1>5, <1>6, <1>7, <1>8, <1>9, <1>10 DEF Next, Step

\* Without stale rows, a greeting of the second loop, or of a leader that stays, is
\* answered, because the node that is greeted is a leader for good.
LEMMA StaleStep == TypeOK /\ RoleInv /\ AnswerInv /\ StaleInv /\ [Next]_vars => StaleInv'
<1> SUFFICES ASSUME TypeOK, RoleInv, AnswerInv, StaleInv, [Next]_vars PROVE StaleInv' OBVIOUS
<1> USE MeshAssumption DEF TypeOK, RoleInv, AnswerInv, StaleInv, Stay, Up, NoStaleRow, Job, Call, Stage, lists
<1>1. ASSUME NEW n \in Node, ChangeRole(n) PROVE StaleInv'
  BY <1>1 DEF ChangeRole, Greetings
<1>2. ASSUME NEW n \in Node, Start(n) PROVE StaleInv'
  <2> SUFFICES ASSUME lost = 0, Stay # {}, NoStaleRow
               PROVE  StaleInv'
    BY <1>2 DEF Start
  <2>1. /\ n \notin first /\ role' = [role EXCEPT ![n] = "leader"]
        /\ table' = [table EXCEPT ![n] = @ \cup {n}] /\ UNCHANGED <<call, lists, lost>>
    BY <1>2 DEF Start, addMNode
  <2>2. job' = [job EXCEPT ![n] = Greetings("start", list \ {n}, list = {n})]
    BY <1>2 DEF Start
  <2>3. /\ job'[n].kind = "start" /\ job'[n].stage = "given"
        /\ Stay \subseteq job'[n].todo /\ job'[n].todo \subseteq list
    BY <2>1, <2>2 DEF Greetings
  <2>4. \A m \in Node : m # n => job'[m] = job[m] /\ table'[m] = table[m]
    BY <2>1, <2>2
  <2>5. \A k \in Node : role[k] = "leader" => role'[k] = "leader"
    BY <2>1
  <2> QED BY <2>1, <2>3, <2>4, <2>5
<1>3. ASSUME NEW n \in Node, NextLoop(n) PROVE StaleInv'
  BY <1>3 DEF NextLoop, Exit
<1>4. ASSUME NEW n \in Node, Greet(n) PROVE StaleInv'
  BY <1>4 DEF Greet
<1>5. ASSUME NEW n \in Node, Add(n) PROVE StaleInv'
  BY <1>5 DEF Add, addMNode
<1>6. ASSUME NEW n \in Node, Reply(n) PROVE StaleInv'
  BY <1>6 DEF Reply
<1>7. ASSUME NEW n \in Node, Answered(n) PROVE StaleInv'
  <2> SUFFICES ASSUME lost = 0, Stay # {}, NoStaleRow PROVE StaleInv'
    BY <1>7 DEF Answered
  <2>1. /\ job[n] # None /\ call[n] # None /\ job[n] \in Job /\ call[n] \in Call
        /\ UNCHANGED <<role, lists, lost>> /\ call' = [call EXCEPT ![n] = None]
        /\ table' = [table EXCEPT ![n] = @ \cup call[n].nodes]
    BY <1>7 DEF Answered, addMNode
  <2>2. job' = [job EXCEPT ![n] = [job[n] EXCEPT
                  !.todo = @ \ {call[n].to}, !.tries = 0, !.valid = TRUE]]
    BY <1>7, <2>1, DoneType DEF Answered
  <2>3. /\ job'[n].stage = job[n].stage /\ job'[n].valid
        /\ job'[n].todo \subseteq job[n].todo
    BY <2>1, <2>2
  <2>4. \A m \in Node : m # n => job'[m] = job[m] /\ table'[m] = table[m] /\ call'[m] = call[m]
    BY <2>1, <2>2
  <2>5. \A k \in table'[n] : role[k] = "leader"
    BY <2>1
  <2> QED BY <2>1, <2>3, <2>4, <2>5
<1>8. ASSUME NEW n \in Node, Unanswered(n) PROVE StaleInv'
  BY <1>8 DEF Unanswered, NotAnswered, Done, Exit
<1>9. ASSUME NEW n \in Node, Lose(n) PROVE StaleInv'
  BY <1>9 DEF Lose, NotAnswered, Done, Exit
<1>10. CASE UNCHANGED vars BY <1>10 DEF vars
<1> QED BY <1>1, <1>2, <1>3, <1>4, <1>5, <1>6, <1>7, <1>8, <1>9, <1>10 DEF Next, Step

\* The inductive invariant holds in every state of the specification.
LEMMA Invariance == Spec => [](TypeOK /\ Inv)
<1>1. Init => TypeOK /\ Inv
  <2> SUFFICES ASSUME Init PROVE TypeOK /\ Inv OBVIOUS
  <2>1. TypeOK BY MeshAssumption DEF Init, TypeOK
  <2>2. RoleInv /\ AnswerInv BY DEF Init, RoleInv, AnswerInv
  <2>3. MeshInv BY DEF Init, MeshInv, Unaware
  <2>4. StaleInv BY DEF Init, StaleInv, Stay, Up, NoStaleRow
  <2> QED BY <2>1, <2>2, <2>3, <2>4 DEF Inv
<1>2. TypeOK /\ Inv /\ [Next]_vars => (TypeOK /\ Inv)'
  BY TypeStep, RoleStep, AnswerStep, MeshStep, StaleStep DEF Inv
<1> QED BY <1>1, <1>2, PTL DEF Spec
-----------------------------------------------------------------------------
\* The variables keep to their types: a leader that does not answer is greeted
\* at most Tries times (the loop of Leader::start).
THEOREM TypeCorrect == Spec => []TypeOK
<1> QED BY Invariance, PTL

\* After a change of roles that lost no greeting, all leaders that are left have each
\* other in MMNodes, whatever their tables held before and however their restarts and
\* greetings were interleaved.
THEOREM MeshIsComplete == Spec => []MeshComplete
<1>1. TypeOK /\ Inv => MeshComplete
  <2> SUFFICES ASSUME TypeOK, Inv, Settled, lost = 0, NEW m \in Node, NEW n \in Node,
                      role[m] = "leader", role[n] = "leader"
               PROVE  m \in table[n]
    BY DEF MeshComplete
  <2>1. m \in list /\ n \in list BY DEF Settled, Inv, RoleInv
  <2>2. ~WillGreet(m, n) /\ ~WillGreet(n, m) BY DEF Settled, WillGreet
  <2>0. ~Unaware(m) /\ ~Unaware(n) BY DEF Settled, Unaware
  <2>3. m # n => Acquainted(m, n) BY <2>0, <2>1, <2>2 DEF Inv, MeshInv, TypeOK
  <2>4. m = n => m \in table[n] BY DEF Inv, AnswerInv
  <2> QED BY <2>3, <2>4 DEF Acquainted
<1> QED BY <1>1, Invariance, PTL

\* A leader that exits without a loss exits over a stale row: with tables that name
\* no node but leaders that stay, no interleaving of restarts and greetings ends a
\* process, neither in Leader::start nor in Leader::changeRole.
THEOREM OnlyStaleRowsEnd == Spec => []ExitNeedsStaleRow
<1>1. Inv => ExitNeedsStaleRow BY DEF Inv, StaleInv, Stay, ExitNeedsStaleRow
<1> QED BY <1>1, Invariance, PTL

\* With two workers (the default of -t) or more, leaders that greet each other from
\* their handlers never all wait for a worker: if every call is still unanswered,
\* no worker is in the handler of MHELLO, and one at most is in changeRole.
THEOREM NobodyWaitsForAll == ASSUME Threads > 1 PROVE Spec => []NoWaitCycle
<1>1. TypeOK /\ Inv => NoWaitCycle
  <2> SUFFICES ASSUME TypeOK, Inv, NEW n \in Node, job[n] # None,
                      \A m \in Node : job[m] # None => call[m] # None /\ call[m].at = "sent"
               PROVE  Busy(call[n].to) < Threads
    BY DEF NoWaitCycle
  <2> DEFINE k == call[n].to
             served == {m \in Node : call[m] # None /\ call[m].to = k /\ call[m].at = "added"}
  <2>1. \A m \in Node : call[m] # None => job[m] # None BY DEF Inv, RoleInv
  <2>2. served = {} BY <2>1
  <2>3. Cardinality(served) = 0 BY <2>2, FS_EmptySet
  <2>4. Busy(k) = Cardinality(served) + IF job[k] # None /\ job[k].kind = "retain" THEN 1 ELSE 0
    BY DEF Busy
  <2> HIDE DEF served
  <2> QED BY <2>3, <2>4, MeshAssumption
<1> QED BY <1>1, Invariance, PTL
=============================================================================
