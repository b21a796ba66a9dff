------------------------------ MODULE Selector ------------------------------
(***************************************************************************)
(* The leader-selection protocol of FogMon: the Selector of every leader   *)
(* (src/src/selector.cpp) together with the broadcasts and the request     *)
(* handlers that carry it (src/src/leader/leader_connections.cpp).         *)
(*                                                                         *)
(* Two threads of a leader make calls to the other leaders: the "starter"  *)
(* (the timer thread inside startSelection) and the "selection" thread     *)
(* (selectionThread).  A call is synchronous: the caller sends one request *)
(* and blocks until the answer, with no timeout.  A request is handled by  *)
(* a worker thread of the callee; a handler is atomic because its body is  *)
(* one critical section of selectionMutex, except where the code itself    *)
(* blocks in it (calcSelection joins a thread while holding the mutex) or  *)
(* works before taking it (SELECTION_END).                                 *)
(***************************************************************************)
EXTENDS Integers, Sequences, FiniteSets

CONSTANTS
  Leader,       \* the leaders; each one's MMNodes table holds all of them
  Initiator,    \* the leaders whose checkSelection may decide to start
  SelectionId,  \* values random() may return
  Cost,         \* values of "quality" printed by cluster.py
  Changes,      \* values of "changes" printed by cluster.py
  MaxRounds,    \* bound on the calls of startSelection by each leader
  Lossy,        \* may a connection fail although both ends are up?
  MayCrash,     \* the leaders whose process may die
  MayDemote,    \* the leaders a list of new leaders may leave out
  NoList        \* the empty list of new leaders

ASSUME ConstantsAssumption ==
  /\ Initiator \subseteq Leader
  /\ MayCrash \subseteq Leader
  /\ MayDemote \subseteq Leader
  /\ SelectionId \subseteq Nat
  /\ Cost \subseteq Nat
  /\ Changes \subseteq Nat
  /\ MaxRounds \in Nat
  /\ Lossy \in BOOLEAN
  /\ NoList \notin Leader

VARIABLES
  \* members of Selector
  status, id, updates,
  \* control of the two calling threads of each leader
  pc,
  \* the call each thread has in progress: callee, phase, answer, and for a
  \* broadcast the leaders still to call and what the answers added up to
  callee, phase, reply, todo, ack,
  \* locals of selectionThread: what it was started for, and sel
  role, from, job, sel,
  \* the leader agent: "up", "stopping" (demoted: its server has stopped, its
  \* timer and selection threads go on until they end) or "down"; and the
  \* calls of startSelection it made
  agent, starts,
  \* ROLES requests a leader sent to itself with the rest of its group: not
  \* handled yet, and handled as far as the sleep before the greetings
  rolesDue, greeting,
  \* history: selection threads started as initiator, and the lists of new
  \* leaders passed to sendChangeRoles, each with the round it belongs to
  round, applied

callVars == <<callee, phase, reply, todo, ack>>
threadVars == <<role, from, job, sel>>
procVars == <<agent, starts>>
roleVars == <<rolesDue, greeting>>
histVars == <<round, applied>>
vars == <<status, id, updates, pc, callVars, threadVars, procVars, roleVars, histVars>>
-----------------------------------------------------------------------------
Thread == Leader \X {"starter", "selection"}
Starter(l) == <<l, "starter">>
Selection(l) == <<l, "selection">>
Peers(l) == Leader \ {l}

Status == {"FREE", "READY", "STARTED", "RECEIVED", "CHANGING"}

Broadcasting == {"INIT", "START", "ABORT", "END"}
StarterPc == {"idle", "begin", "INIT", "initFailed", "START", "startFailed",
              "ABORT", "ready", "join", "spawn"}
SelectionPc == {"none", "enter", "cluster", "propose", "SELECTION", "wait", "END",
                "free", "roles", "done"}

\* Message::leader_update.  Its list of nodes is named by the leader that
\* computed it.  "quality" is what the script printed, kept beside "cost",
\* the value the code compares.
Update == [list : Leader \cup {NoList}, cost : Cost \cup {0},
           quality : Cost \cup {0}, changes : Changes \cup {0},
           id : SelectionId \cup {0}]
EmptyUpdate == [list |-> NoList, cost |-> 0, quality |-> 0, changes |-> 0, id |-> 0]

\* The selection thread of l exists and has not returned.
Running(l) == pc[Selection(l)] \notin {"none", "done"}

\* selectionMutex of q is held: some handler of q is inside calcSelection,
\* joining the previous selection thread.  Every other critical section of
\* the mutex is a single step.
Locked(q) == \E t \in Thread : phase[t] = "joining" /\ callee[t] = q
-----------------------------------------------------------------------------
Init ==
  /\ status = [l \in Leader |-> "FREE"]
  /\ id = [l \in Leader |-> 0]
  /\ updates = [l \in Leader |-> <<>>]
  /\ pc = [t \in Thread |-> IF t[2] = "starter" THEN "idle" ELSE "none"]
  /\ callee = [t \in Thread |-> t[1]]
  /\ phase = [t \in Thread |-> "idle"]
  /\ reply = [t \in Thread |-> "POSITIVE"]
  /\ todo = [t \in Thread |-> {}]
  /\ ack = [t \in Thread |-> "none"]
  /\ role = [l \in Leader |-> "calc"]
  /\ from = [l \in Leader |-> l]
  /\ job = [l \in Leader |-> 0]
  /\ sel = [l \in Leader |-> EmptyUpdate]
  /\ agent = [l \in Leader |-> "up"]
  /\ starts = [l \in Leader |-> 0]
  /\ rolesDue = [l \in Leader |-> 0]
  /\ greeting = [l \in Leader |-> 0]
  /\ round = [l \in Leader |-> 0]
  /\ applied = {}
-----------------------------------------------------------------------------
(* Calls: notifyAllM, openConnection, sendMessage, getMessage.             *)

\* Thread t goes on to pc value k, its call or broadcast being over.
Leave(t, k) ==
  /\ pc' = [pc EXCEPT ![t] = k]
  /\ ack' = [ack EXCEPT ![t] = "none"]

\* Thread t enters notifyAllM with the command that pc value k stands for.
Broadcast(t, k) ==
  /\ pc' = [pc EXCEPT ![t] = k]
  /\ todo' = [todo EXCEPT ![t] = Peers(t[1])]
  /\ ack' = [ack EXCEPT ![t] = "none"]

\* The loop of notifyAllM over getMNodes(), which returns the rows in random
\* order, opens the next connection and sends the request.
CallNext(t) ==
  /\ agent[t[1]] # "down"
  /\ pc[t] \in Broadcasting
  /\ phase[t] = "idle"
  /\ \E q \in todo[t] :
       /\ callee' = [callee EXCEPT ![t] = q]
       /\ todo' = [todo EXCEPT ![t] = @ \ {q}]
  /\ phase' = [phase EXCEPT ![t] = "sent"]
  /\ UNCHANGED <<status, id, updates, pc, reply, ack, threadVars, procVars, roleVars,
                 histVars>>

\* The connection of t is closed.
HangUp(t) ==
  /\ phase' = [phase EXCEPT ![t] = "idle"]
  /\ callee' = [callee EXCEPT ![t] = t[1]]
  /\ reply' = [reply EXCEPT ![t] = "POSITIVE"]

\* Mutant: any answer counts as an agreement.
CallReturnsAnyAnswer(t) ==
  /\ agent[t[1]] # "down"
  /\ phase[t] = "replied"
  /\ HangUp(t)
  /\ ack' = [ack EXCEPT ![t] = "some"]
  /\ UNCHANGED <<status, id, updates, pc, todo, threadVars, procVars, roleVars, histVars>>

\* getMessage delivers the answer.  A NEGATIVE one makes notifyAllM return
\* false at once, without calling the leaders left.
CallReturns(t) ==
  /\ agent[t[1]] # "down"
  /\ phase[t] = "replied"
  /\ HangUp(t)
  /\ IF reply[t] = "NEGATIVE"
       THEN /\ ack' = [ack EXCEPT ![t] = "refused"]
            /\ todo' = [todo EXCEPT ![t] = {}]
       ELSE /\ ack' = [ack EXCEPT ![t] = "some"]
            /\ UNCHANGED todo
  /\ UNCHANGED <<status, id, updates, pc, threadVars, procVars, roleVars, histVars>>

\* Mutant: the first failed call ends the broadcast.
CallFailsStops(t) ==
  /\ agent[t[1]] # "down"
  /\ \/ phase[t] = "sent" /\ agent[callee[t]] # "up"
     \/ phase[t] \in {"joining", "roles"} /\ agent[callee[t]] = "down"
     \/ phase[t] \in {"sent", "replied"} /\ Lossy
  /\ HangUp(t)
  /\ todo' = [todo EXCEPT ![t] = {}]
  /\ UNCHANGED <<status, id, updates, pc, ack, threadVars, procVars, roleVars, histVars>>

\* openConnection, sendMessage or getMessage fails: the callee is not a leader
\* any more, or died while handling, or the connection breaks before the
\* request arrives or before the answer does.
CallFails(t) ==
  /\ agent[t[1]] # "down"
  /\ \/ phase[t] = "sent" /\ agent[callee[t]] # "up"
     \/ phase[t] \in {"joining", "roles"} /\ agent[callee[t]] = "down"
     \/ phase[t] \in {"sent", "replied"} /\ Lossy
  /\ HangUp(t)
  /\ UNCHANGED <<status, id, updates, pc, todo, ack, threadVars, procVars, roleVars, histVars>>

\* The broadcast of t is over, and what notifyAllM returns.
BroadcastOver(t) == phase[t] = "idle" /\ todo[t] = {}
BroadcastOk(t) == ack[t] = "some" \/ (Peers(t[1]) = {} /\ ack[t] = "none")
-----------------------------------------------------------------------------
(* The starter thread: Selector::startSelection.                           *)

\* The timer decides that a selection is needed (checkSelection); the first
\* thing startSelection does is to clear updates, without the mutex.
StartSelection(l) ==
  /\ agent[l] = "up"
  /\ l \in Initiator
  /\ pc[Starter(l)] = "idle"
  /\ starts[l] < MaxRounds
  /\ starts' = [starts EXCEPT ![l] = @ + 1]
  /\ updates' = [updates EXCEPT ![l] = <<>>]
  /\ pc' = [pc EXCEPT ![Starter(l)] = "begin"]
  /\ UNCHANGED <<status, id, callVars, threadVars, agent, roleVars, histVars>>

\* First critical section: give up unless FREE, else draw an id.
BeginRound(l) ==
  /\ agent[l] # "down"
  /\ pc[Starter(l)] = "begin"
  /\ ~Locked(l)
  /\ IF status[l] # "FREE"
       THEN /\ pc' = [pc EXCEPT ![Starter(l)] = "idle"]
            /\ UNCHANGED <<status, id, todo, ack>>
       ELSE /\ \E i \in SelectionId : id' = [id EXCEPT ![l] = i]
            /\ status' = [status EXCEPT ![l] = "READY"]
            /\ Broadcast(Starter(l), "INIT")
  /\ UNCHANGED <<updates, callee, phase, reply, threadVars, procVars, roleVars, histVars>>

\* Mutant: a refused SELECTION_INIT returns at once, without the reset.
InitDoneNoReset(l) ==
  /\ agent[l] # "down"
  /\ pc[Starter(l)] = "INIT"
  /\ BroadcastOver(Starter(l))
  /\ IF BroadcastOk(Starter(l))
       THEN Broadcast(Starter(l), "START")
       ELSE Leave(Starter(l), "idle") /\ UNCHANGED todo
  /\ UNCHANGED <<status, id, updates, callee, phase, reply, threadVars, procVars, roleVars,
                 histVars>>

\* sendInitiateSelection returned.
InitDone(l) ==
  /\ agent[l] # "down"
  /\ pc[Starter(l)] = "INIT"
  /\ BroadcastOver(Starter(l))
  /\ IF BroadcastOk(Starter(l))
       THEN Broadcast(Starter(l), "START")
       ELSE Leave(Starter(l), "initFailed") /\ UNCHANGED todo
  /\ UNCHANGED <<status, id, updates, callee, phase, reply, threadVars, procVars, roleVars,
                 histVars>>

\* sendStartSelection returned.
StartDone(l) ==
  /\ agent[l] # "down"
  /\ pc[Starter(l)] = "START"
  /\ BroadcastOver(Starter(l))
  /\ Leave(Starter(l), IF BroadcastOk(Starter(l)) THEN "ready" ELSE "startFailed")
  /\ UNCHANGED <<status, id, updates, callee, phase, reply, todo, threadVars, procVars,
                 roleVars, histVars>>

\* Mutant: the status stays READY.
AbortRoundKeeps(l) ==
  /\ agent[l] # "down"
  /\ pc[Starter(l)] \in {"initFailed", "startFailed"}
  /\ ~Locked(l)
  /\ IF pc[Starter(l)] = "initFailed"
       THEN /\ pc' = [pc EXCEPT ![Starter(l)] = "idle"]
            /\ UNCHANGED <<todo, ack>>
       ELSE Broadcast(Starter(l), "ABORT")
  /\ UNCHANGED <<status, id, updates, callee, phase, reply, threadVars, procVars, roleVars,
                 histVars>>

\* Either broadcast failed: back to FREE if still READY; after a failed START
\* the other leaders are told with SELECTION_END, after a failed INIT not.
AbortRound(l) ==
  /\ agent[l] # "down"
  /\ pc[Starter(l)] \in {"initFailed", "startFailed"}
  /\ ~Locked(l)
  /\ status' = [status EXCEPT ![l] = IF @ = "READY" THEN "FREE" ELSE @]
  /\ IF pc[Starter(l)] = "initFailed"
       THEN /\ pc' = [pc EXCEPT ![Starter(l)] = "idle"]
            /\ UNCHANGED <<todo, ack>>
       ELSE Broadcast(Starter(l), "ABORT")
  /\ UNCHANGED <<id, updates, callee, phase, reply, threadVars, procVars, roleVars, histVars>>

\* sendEndSelection(leader_update(), false) returned.
AbortDone(l) ==
  /\ agent[l] # "down"
  /\ pc[Starter(l)] = "ABORT"
  /\ BroadcastOver(Starter(l))
  /\ Leave(Starter(l), "idle")
  /\ UNCHANGED <<status, id, updates, callee, phase, reply, todo, threadVars, procVars,
                 roleVars, histVars>>

\* Last critical section of startSelection: STARTED, whatever status was.
SetStarted(l) ==
  /\ agent[l] # "down"
  /\ pc[Starter(l)] = "ready"
  /\ ~Locked(l)
  /\ status' = [status EXCEPT ![l] = "STARTED"]
  /\ pc' = [pc EXCEPT ![Starter(l)] = "join"]
  /\ UNCHANGED <<id, updates, callVars, threadVars, procVars, roleVars, histVars>>

\* Join the previous selection thread, without the mutex.  If a handler is
\* joining the same thread, one of the two calls throws (or one of the two
\* assignments that follow terminates) and the process dies.
JoinSelection(l) ==
  /\ agent[l] # "down"
  /\ pc[Starter(l)] = "join"
  /\ \/ /\ ~Locked(l) /\ ~Running(l)
        /\ pc' = [pc EXCEPT ![Selection(l)] = "none", ![Starter(l)] = "spawn"]
        /\ UNCHANGED agent
     \/ /\ Locked(l)
        /\ agent' = [agent EXCEPT ![l] = "down"]
        /\ UNCHANGED pc
  /\ UNCHANGED <<status, id, updates, callVars, threadVars, starts, roleVars, histVars>>

\* Assign the new selection thread.  Assigning to a joinable std::thread
\* calls std::terminate: a handler may have started one since the join.
SpawnSelection(l) ==
  /\ agent[l] # "down"
  /\ pc[Starter(l)] = "spawn"
  /\ IF pc[Selection(l)] = "none"
       THEN /\ pc' = [pc EXCEPT ![Selection(l)] = "enter", ![Starter(l)] = "idle"]
            /\ role' = [role EXCEPT ![l] = "init"]
            /\ round' = [round EXCEPT ![l] = @ + 1]
            /\ UNCHANGED agent
       ELSE /\ agent' = [agent EXCEPT ![l] = "down"]
            /\ UNCHANGED <<pc, role, round>>
  /\ UNCHANGED <<status, id, updates, callVars, from, job, sel, starts, roleVars, applied>>
-----------------------------------------------------------------------------
(* The selection thread.                                                   *)

\* The initiator's thread reads this->id, without the mutex, for selection().
EnterSelection(l) ==
  /\ agent[l] # "down"
  /\ pc[Selection(l)] = "enter"
  /\ job' = [job EXCEPT ![l] = id[l]]
  /\ pc' = [pc EXCEPT ![Selection(l)] = "cluster"]
  /\ UNCHANGED <<status, id, updates, callVars, role, from, sel, procVars, roleVars, histVars>>

\* selection(): cluster.py prints a proposal, or fails (or is killed by
\* stopSelection) and the result is the empty update.
RunCluster(l) ==
  /\ agent[l] # "down"
  /\ pc[Selection(l)] = "cluster"
  /\ \/ sel' = [sel EXCEPT ![l] = EmptyUpdate]
     \/ \E c \in Cost, n \in Changes :
          sel' = [sel EXCEPT ![l] =
                    [list |-> l, cost |-> c, quality |-> c, changes |-> n, id |-> job[l]]]
  /\ pc' = [pc EXCEPT ![Selection(l)] = IF role[l] = "calc" THEN "propose" ELSE "wait"]
  /\ UNCHANGED <<status, id, updates, callVars, role, from, job, procVars, roleVars, histVars>>

\* leader_update::empty() assigns 0 to cost instead of comparing it, and so
\* returns false: what is sent to the initiator always has cost 0.
AfterEmptyTest(u) == [u EXCEPT !.cost = 0]

\* calcSelection's thread sends its proposal to the initiator.
SendSelection(l) ==
  /\ agent[l] # "down"
  /\ pc[Selection(l)] = "propose"
  /\ sel' = [sel EXCEPT ![l] = AfterEmptyTest(@)]
  /\ pc' = [pc EXCEPT ![Selection(l)] = "SELECTION"]
  /\ callee' = [callee EXCEPT ![Selection(l)] = from[l]]
  /\ phase' = [phase EXCEPT ![Selection(l)] = "sent"]
  /\ UNCHANGED <<status, id, updates, reply, todo, ack, role, from, job, procVars, roleVars,
                 histVars>>

Better(u, v) == u.cost < v.cost \/ (u.cost = v.cost /\ u.changes < v.changes)

\* What the loop over updates may leave in sel: the initiator's own proposal
\* unless a received one for id i beats it, else the first of the best.
BestOf(own, us, i) ==
  LET Mine == {k \in DOMAIN us : us[k].id = i /\ Better(us[k], own)}
  IN IF Mine = {}
       THEN {own}
       ELSE {us[k] : k \in {m \in Mine : \A n \in Mine :
                              /\ ~Better(us[n], us[m])
                              /\ n < m => Better(us[m], us[n])}}

\* The initiator has slept; it picks the best proposal for this->id, keeps of
\* its list the nodes it still knows (perhaps none) and broadcasts the end.
Choose(l) ==
  /\ agent[l] # "down"
  /\ pc[Selection(l)] = "wait"
  /\ \E u \in BestOf(sel[l], updates[l], id[l]) :
       \/ sel' = [sel EXCEPT ![l] = u]
       \/ sel' = [sel EXCEPT ![l] = [u EXCEPT !.list = NoList]]
  /\ Broadcast(Selection(l), "END")
  /\ UNCHANGED <<status, id, updates, callee, phase, reply, role, from, job, procVars,
                 roleVars, histVars>>

\* Mutant: the choice is made again after the broadcast.
EndDoneChoosesAgain(l) ==
  /\ agent[l] # "down"
  /\ pc[Selection(l)] = "END"
  /\ BroadcastOver(Selection(l))
  /\ \E u \in BestOf(sel[l], updates[l], id[l]) : sel' = [sel EXCEPT ![l] = u]
  /\ Leave(Selection(l), "free")
  /\ UNCHANGED <<status, id, updates, callee, phase, reply, todo, role, from, job, procVars,
                 roleVars, histVars>>

\* sendEndSelection(sel, true) returned.
EndDone(l) ==
  /\ agent[l] # "down"
  /\ pc[Selection(l)] = "END"
  /\ BroadcastOver(Selection(l))
  /\ Leave(Selection(l), "free")
  /\ UNCHANGED <<status, id, updates, callee, phase, reply, todo, threadVars, procVars,
                 roleVars, histVars>>

\* The selection thread of l returns, and its locals are gone.
ThreadEnds(l) ==
  /\ Leave(Selection(l), "done")
  /\ from' = [from EXCEPT ![l] = l]
  /\ job' = [job EXCEPT ![l] = 0]
  /\ sel' = [sel EXCEPT ![l] = EmptyUpdate]

\* The last critical section of either selection thread.
AtFree(l) ==
  \/ pc[Selection(l)] = "free"
  \/ pc[Selection(l)] = "SELECTION" /\ phase[Selection(l)] = "idle"

\* Mutant: the thread returns without freeing the status.
FreeStatusKeeps(l) ==
  /\ agent[l] # "down"
  /\ AtFree(l)
  /\ ~Locked(l)
  /\ IF role[l] = "init"
       THEN Leave(Selection(l), "roles") /\ UNCHANGED <<from, job, sel>>
       ELSE ThreadEnds(l)
  /\ UNCHANGED <<status, id, updates, callee, phase, reply, todo, role, procVars, roleVars,
                 histVars>>

FreeStatus(l) ==
  /\ agent[l] # "down"
  /\ AtFree(l)
  /\ ~Locked(l)
  /\ status' = [status EXCEPT ![l] = "FREE"]
  /\ IF role[l] = "init"
       THEN Leave(Selection(l), "roles") /\ UNCHANGED <<from, job, sel>>
       ELSE ThreadEnds(l)
  /\ UNCHANGED <<id, updates, callee, phase, reply, todo, role, procVars, roleVars, histVars>>

\* Leader::changeRoles at leader q for the round of leader l: nothing for an
\* empty list, else sendChangeRoles to the group of q, q itself included.
ChangeRoles(q, l) ==
  IF sel[l].list = NoList
    THEN UNCHANGED <<applied, rolesDue>>
    ELSE /\ applied' = applied \cup
              {[at |-> q, by |-> l, round |-> round[l], list |-> sel[l].list]}
         /\ rolesDue' = [rolesDue EXCEPT ![q] = @ + 1]

\* The initiator changes its own roles last.
InitiatorRoles(l) ==
  /\ agent[l] # "down"
  /\ pc[Selection(l)] = "roles"
  /\ ChangeRoles(l, l)
  /\ ThreadEnds(l)
  /\ UNCHANGED <<status, id, updates, callee, phase, reply, todo, role, procVars, greeting,
                 round>>
-----------------------------------------------------------------------------
(* The handlers of LeaderConnections::handler, run by a worker thread of   *)
(* the callee for the request of thread t.                                 *)

Arrived(t, k) == pc[t] = k /\ phase[t] = "sent" /\ agent[callee[t]] = "up"

Answer(t, r) ==
  /\ phase' = [phase EXCEPT ![t] = "replied"]
  /\ reply' = [reply EXCEPT ![t] = r]

\* SELECTION_INIT: initSelection refuses only a READY leader with an id at
\* least as great.
HandleInit(t) ==
  LET q == callee[t] IN
  /\ Arrived(t, "INIT")
  /\ ~Locked(q)
  /\ IF status[q] = "READY" /\ id[q] >= id[t[1]]
       THEN Answer(t, "NEGATIVE") /\ UNCHANGED status
       ELSE Answer(t, "POSITIVE") /\ status' = [status EXCEPT ![q] = "CHANGING"]
  /\ UNCHANGED <<id, updates, pc, callee, todo, ack, threadVars, procVars, roleVars, histVars>>

\* selectionThread of q := thread that calculates for initiator l.
SpawnCalc(q, l) ==
  /\ pc' = [pc EXCEPT ![Selection(q)] = "cluster"]
  /\ role' = [role EXCEPT ![q] = "calc"]
  /\ from' = [from EXCEPT ![q] = l]
  /\ job' = [job EXCEPT ![q] = id[l]]

\* SELECTION_START: calcSelection.  If the previous selection thread has not
\* returned, the handler joins it and keeps the mutex meanwhile.
HandleStart(t) ==
  LET q == callee[t] IN
  /\ Arrived(t, "START")
  /\ ~Locked(q)
  /\ IF status[q] # "CHANGING"
       THEN Answer(t, "NEGATIVE") /\ UNCHANGED <<status, pc, role, from, job>>
       ELSE /\ status' = [status EXCEPT ![q] = "RECEIVED"]
            /\ IF Running(q)
                 THEN /\ phase' = [phase EXCEPT ![t] = "joining"]
                      /\ UNCHANGED <<reply, pc, role, from, job>>
                 ELSE SpawnCalc(q, t[1]) /\ Answer(t, "POSITIVE")
  /\ UNCHANGED <<id, updates, callee, todo, ack, sel, procVars, roleVars, histVars>>

\* The join inside calcSelection returned.
HandleStartJoined(t) ==
  LET q == callee[t] IN
  /\ phase[t] = "joining"
  /\ agent[q] # "down"
  /\ ~Running(q)
  /\ SpawnCalc(q, t[1])
  /\ Answer(t, "POSITIVE")
  /\ UNCHANGED <<status, id, updates, callee, todo, ack, sel, procVars, roleVars, histVars>>

\* SELECTION: updateSelection stores the proposal if STARTED.
HandleSelection(t) ==
  LET q == callee[t] IN
  /\ Arrived(t, "SELECTION")
  /\ ~Locked(q)
  /\ IF status[q] = "STARTED"
       THEN Answer(t, "POSITIVE") /\ updates' = [updates EXCEPT ![q] = Append(@, sel[t[1]])]
       ELSE Answer(t, "NEGATIVE") /\ UNCHANGED updates
  /\ UNCHANGED <<status, id, pc, callee, todo, ack, threadVars, procVars, roleVars, histVars>>

\* SELECTION_END, first half: a POSITIVE one changes the roles.
HandleEndRoles(t) ==
  /\ Arrived(t, "END") \/ Arrived(t, "ABORT")
  /\ IF pc[t] = "END" THEN ChangeRoles(callee[t], t[1]) ELSE UNCHANGED <<applied, rolesDue>>
  /\ phase' = [phase EXCEPT ![t] = "roles"]
  /\ UNCHANGED <<status, id, updates, pc, callee, reply, todo, ack, threadVars, procVars,
                 greeting, round>>

\* SELECTION_END, second half: stopSelection.
HandleEndStop(t) ==
  LET q == callee[t] IN
  /\ phase[t] = "roles"
  /\ agent[q] # "down"
  /\ ~Locked(q)
  /\ status' = [status EXCEPT ![q] = "FREE"]
  /\ Answer(t, "POSITIVE")
  /\ UNCHANGED <<id, updates, pc, callee, todo, ack, threadVars, procVars, roleVars, histVars>>

\* SET ROLES at leader l, handled by Leader::changeRole.  A leader that is not
\* in the list is demoted: its agent stops.  This step is the moment its server has stopped;
\* until then its workers take requests.
Demote(l) ==
  /\ agent[l] = "up"
  /\ rolesDue[l] > 0
  /\ l \in MayDemote
  /\ rolesDue' = [rolesDue EXCEPT ![l] = @ - 1]
  /\ agent' = [agent EXCEPT ![l] = "stopping"]
  /\ UNCHANGED <<status, id, updates, pc, callVars, threadVars, starts, greeting, histVars>>

\* Mutant: stops the selection without a request to do so.
RetainAnyway(l) ==
  /\ agent[l] = "up"
  /\ ~Locked(l)
  /\ status' = [status EXCEPT ![l] = "FREE"]
  /\ rolesDue' = [rolesDue EXCEPT ![l] = @ - 1]
  /\ greeting' = [greeting EXCEPT ![l] = @ + 1]
  /\ UNCHANGED <<id, updates, pc, callVars, threadVars, procVars, histVars>>

\* A leader that is in the list calls stopSelection, whatever goes on, ...
Retain(l) ==
  /\ agent[l] = "up"
  /\ rolesDue[l] > 0
  /\ ~Locked(l)
  /\ status' = [status EXCEPT ![l] = "FREE"]
  /\ rolesDue' = [rolesDue EXCEPT ![l] = @ - 1]
  /\ greeting' = [greeting EXCEPT ![l] = @ + 1]
  /\ UNCHANGED <<id, updates, pc, callVars, threadVars, procVars, histVars>>

\* ... sleeps, and greets every leader of its table; the process exits if one
\* of them does not answer as a leader.
Greet(l) ==
  /\ agent[l] # "down"
  /\ greeting[l] > 0
  /\ greeting' = [greeting EXCEPT ![l] = @ - 1]
  /\ agent' = IF \A q \in Peers(l) : agent[q] = "up" THEN agent ELSE [agent EXCEPT ![l] = "down"]
  /\ UNCHANGED <<status, id, updates, pc, callVars, threadVars, starts, rolesDue, histVars>>

\* The process of a leader dies.
Crash(l) ==
  /\ l \in MayCrash
  /\ agent[l] # "down"
  /\ agent' = [agent EXCEPT ![l] = "down"]
  /\ UNCHANGED <<status, id, updates, pc, callVars, threadVars, starts, roleVars, histVars>>
-----------------------------------------------------------------------------
StarterStep(l) ==
  \/ BeginRound(l) \/ InitDone(l) \/ StartDone(l) \/ AbortRound(l) \/ AbortDone(l)
  \/ SetStarted(l) \/ JoinSelection(l) \/ SpawnSelection(l)

SelectionStep(l) ==
  \/ EnterSelection(l) \/ RunCluster(l) \/ SendSelection(l) \/ Choose(l) \/ EndDone(l)
  \/ FreeStatus(l) \/ InitiatorRoles(l)

Handler(t) ==
  \/ HandleInit(t) \/ HandleStart(t) \/ HandleStartJoined(t) \/ HandleSelection(t)
  \/ HandleEndRoles(t) \/ HandleEndStop(t)

RolesStep(l) == Demote(l) \/ Retain(l) \/ Greet(l)

CallStep(t) == CallNext(t) \/ CallReturns(t) \/ CallFails(t)

Next ==
  \/ \E l \in Leader : \/ StartSelection(l) \/ StarterStep(l) \/ SelectionStep(l)
                       \/ RolesStep(l) \/ Crash(l)
  \/ \E t \in Thread : CallStep(t) \/ Handler(t)

Spec == Init /\ [][Next]_vars

\* Threads are scheduled, scripts and sleeps end, workers take requests.
Fairness ==
  /\ \A l \in Leader : WF_vars(StarterStep(l)) /\ WF_vars(SelectionStep(l)) /\ WF_vars(RolesStep(l))
  /\ \A t \in Thread : WF_vars(CallStep(t)) /\ WF_vars(Handler(t))

FairSpec == Spec /\ Fairness
-----------------------------------------------------------------------------
(* Properties.                                                             *)

\* Every variable keeps to the values the code can give it.
TypeOK ==
  /\ status \in [Leader -> Status]
  /\ id \in [Leader -> SelectionId \cup {0}]
  /\ updates \in [Leader -> Seq(Update)]
  /\ pc \in [Thread -> StarterPc \cup SelectionPc]
  /\ \A l \in Leader : pc[Starter(l)] \in StarterPc /\ pc[Selection(l)] \in SelectionPc
  /\ callee \in [Thread -> Leader]
  /\ phase \in [Thread -> {"idle", "sent", "joining", "roles", "replied"}]
  /\ reply \in [Thread -> {"POSITIVE", "NEGATIVE"}]
  /\ todo \in [Thread -> SUBSET Leader]
  /\ ack \in [Thread -> {"none", "some", "refused"}]
  /\ role \in [Leader -> {"calc", "init"}]
  /\ from \in [Leader -> Leader]
  /\ job \in [Leader -> SelectionId \cup {0}]
  /\ sel \in [Leader -> Update]
  /\ agent \in [Leader -> {"up", "stopping", "down"}]
  /\ starts \in [Leader -> Nat]
  /\ rolesDue \in [Leader -> Nat]
  /\ greeting \in [Leader -> Nat]
  /\ round \in [Leader -> Nat]
  /\ applied \subseteq [at : Leader, by : Leader, round : Nat, list : Leader]

\* The thread that will still change the status of l, for each busy status but
\* CHANGING: READY the starter, STARTED the starter or the initiator's
\* selection thread, RECEIVED a calculating selection thread or the handler
\* about to start it.
HasOwner(l) ==
  /\ status[l] = "READY" =>
       pc[Starter(l)] \in {"INIT", "initFailed", "START", "startFailed", "ready"}
  /\ status[l] = "STARTED" =>
       \/ pc[Starter(l)] \in {"join", "spawn"}
       \/ role[l] = "init" /\ pc[Selection(l)] \in {"enter", "cluster", "wait", "END", "free"}
  /\ status[l] = "RECEIVED" =>
       \/ Locked(l)
       \/ role[l] = "calc" /\ pc[Selection(l)] \in {"cluster", "propose", "SELECTION"}

\* No leader is busy forever for want of a thread: a status that makes
\* startSelection give up belongs to a thread of the same leader that is still
\* going to change it, in every interleaving of the timer, the selection thread
\* and the handlers.  (CHANGING is owned by the other leader's round.)
BusyHasOwner == \A l \in Leader : agent[l] = "up" => HasOwner(l)

\* Nothing of a selection is going on at any live leader.
Quiescent ==
  \A l \in Leader : agent[l] = "up" => pc[Starter(l)] = "idle" /\ ~Running(l)

\* Selections never shut themselves out: when none is in progress, some live
\* leader is FREE, so its next startSelection gets past the first check.
SomeoneCanStart ==
  Quiescent /\ (\E l \in Leader : agent[l] = "up") =>
    \E l \in Leader : agent[l] = "up" /\ status[l] = "FREE"

\* All leaders that change roles for one round are given the same list.
RoundAgreement ==
  \A a, b \in applied : a.by = b.by /\ a.round = b.round => a.list = b.list

\* The leaders agree on who may go on: while no connection fails, two leaders
\* are never both READY with their SELECTION_INIT accepted by all the others.
OneWinner ==
  ~Lossy =>
    \A l, m \in Leader :
      /\ l # m
      /\ agent[l] = "up" /\ agent[m] = "up"
      /\ status[l] = "READY" /\ status[m] = "READY"
      => ~(pc[Starter(l)] \in {"START", "ready"} /\ pc[Starter(m)] \in {"START", "ready"})

\* What the comment "if status 0 the thread does not exist anymore so no
\* deadlock" in calcSelection relies on: while a handler holds the mutex and
\* joins the previous selection thread, that thread is not waiting for the
\* mutex itself.
NoJoinDeadlock ==
  \A q \in Leader : agent[q] = "up" /\ Locked(q) => ~AtFree(q)

\* Every leader that keeps running ends up FREE once the starters stop, even
\* if others crash in the middle of the round: the selection releases
\* everybody it involved.
AllFreeAgain == <>[](\A l \in Leader : agent[l] = "up" => status[l] = "FREE")

\* A choice announced by an initiator is acted upon by every leader: once the
\* END broadcast of a round with a non-empty list has begun, every leader that
\* stays up changes the roles of its group for that round, even if leaders
\* earlier in the broadcast are dead, unless the initiator dies before its
\* thread is through.
ChoiceReachesAll ==
  \A l \in Initiator : \A q \in Leader : \A n \in 1 .. MaxRounds :
    (round[l] = n /\ pc[Selection(l)] = "END" /\ sel[l].list # NoList)
      ~> (\/ agent[q] # "up"
          \/ agent[l] = "down" /\ pc[Selection(l)] \in {"END", "free", "roles"}
          \/ \E r \in applied : r.at = q /\ r.by = l /\ r.round = n)
=============================================================================
