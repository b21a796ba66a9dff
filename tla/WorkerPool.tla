----------------------------- MODULE WorkerPool -----------------------------
(***************************************************************************)
(* How a request reaches a handler: the Server's listener thread           *)
(* (src/src/server.cpp), the queue of connections (src/src/queue.hpp) and  *)
(* the worker threads of Connections (src/src/connections.cpp), from       *)
(* Server::start to the end of Server::stop.                               *)
(*                                                                         *)
(* Threads: the owner of the server, the listener and the workers.  A      *)
(* critical section of the queue's mutex is one step, except that a worker *)
(* about to wait still holds the mutex between the test of the predicate   *)
(* and the wait ("blocking").  stop and running are atomics that are       *)
(* written without the mutex.                                              *)
(***************************************************************************)
EXTENDS Integers, Sequences, FiniteSets

CONSTANTS
  Fd,           \* connections clients open, one each
  Worker,       \* the num threads of Connections
  Cell,         \* heap cells for queue_elem_t
  Null,         \* nullptr, and no connection
  MayStop,      \* does the owner call Server::stop?
  AcceptErrors  \* may accept() fail with something else than EWOULDBLOCK?

ASSUME PoolAssumption ==
  /\ MayStop \in BOOLEAN /\ AcceptErrors \in BOOLEAN
  /\ Null \notin Fd \cup Cell
  /\ IsFiniteSet(Worker) /\ IsFiniteSet(Cell) /\ Cardinality(Cell) >= Cardinality(Fd)

VARIABLES
  opc, lpc, wpc,           \* where the owner, the listener and each worker is
  running,                 \* Connections::running
  listening,               \* Server::running
  efd,                     \* has the eventfd been written?
  stop,                    \* Queue::stop
  queue_h, queue_l, next, info,  \* the linked list
  opened, readable,        \* connections made by clients, and with data to read
  backlog,                 \* connections the kernel holds for accept()
  fds,                     \* connections in the listener's poll array
  scan,                    \* readable connections this poll has yet to hand over
  fd,                      \* the connection each worker handles
  closed, dropped          \* connections closed, and refused by push

threadVars == <<opc, lpc, wpc>>
flagVars == <<running, listening, efd, stop>>
listVars == <<queue_h, queue_l, next, info>>
clientVars == <<opened, readable>>
connVars == <<clientVars, backlog, fds, scan, fd, closed, dropped>>
vars == <<threadVars, flagVars, listVars, connVars>>
-----------------------------------------------------------------------------
\* The cell after k hops from queue_h.
CellAt[k \in 0 .. Cardinality(Cell)] ==
  IF k = 0 THEN queue_h
  ELSE IF CellAt[k - 1] = Null THEN Null ELSE next[CellAt[k - 1]]

\* The elements of the list from queue_h on.
Contents ==
  LET reached == {k \in 0 .. Cardinality(Cell) : CellAt[k] # Null}
  IN [i \in 1 .. Cardinality(reached) |-> info[CellAt[i - 1]]]

InList == {CellAt[k] : k \in 0 .. Cardinality(Cell)} \ {Null}

Elements(s) == {s[i] : i \in DOMAIN s}

\* The mutex of the queue is held by a worker on its way into the wait.
Held == \E w \in Worker : wpc[w] = "blocking"
-----------------------------------------------------------------------------
Init ==
  /\ opc = "start" /\ lpc = "none" /\ wpc = [w \in Worker |-> "none"]
  /\ running = FALSE /\ listening = FALSE /\ efd = FALSE /\ stop = FALSE
  /\ queue_h = Null /\ queue_l = Null
  /\ next = [c \in Cell |-> Null] /\ info = [c \in Cell |-> Null]
  /\ opened = {} /\ readable = {}
  /\ backlog = <<>> /\ fds = <<>> /\ scan = <<>>
  /\ fd = [w \in Worker |-> Null]
  /\ closed = {} /\ dropped = {}

\* A client connects: the kernel completes the connection while the listening
\* socket is there.
Connect(f) ==
  /\ f \notin opened
  /\ lpc \notin {"none", "begin", "done"}
  /\ opened' = opened \cup {f}
  /\ backlog' = Append(backlog, f)
  /\ UNCHANGED <<threadVars, flagVars, listVars, readable, fds, scan, fd, closed, dropped>>

\* Its request (or the end of the connection) arrives.
Write(f) ==
  /\ f \in (Elements(backlog) \cup Elements(fds)) \ readable
  /\ readable' = readable \cup {f}
  /\ UNCHANGED <<threadVars, flagVars, listVars, opened, backlog, fds, scan, fd, closed, dropped>>
-----------------------------------------------------------------------------
(* The owner: Server::start, Server::stop.                                 *)

StartListener ==
  /\ opc = "start"
  /\ opc' = "connStart"
  /\ lpc' = "begin"
  /\ UNCHANGED <<wpc, flagVars, listVars, connVars>>

\* Connections::start: startqueue, then the workers.
StartWorkers ==
  /\ opc = "connStart"
  /\ opc' = "up"
  /\ running' = TRUE
  /\ stop' = FALSE
  /\ wpc' = [w \in Worker |-> "loop"]
  /\ UNCHANGED <<lpc, listening, efd, listVars, connVars>>

\* Server::stop: the flag, then the eventfd, ...
StopListening ==
  /\ MayStop
  /\ opc = "up"
  /\ opc' = "signal"
  /\ listening' = FALSE
  /\ UNCHANGED <<lpc, wpc, running, efd, stop, listVars, connVars>>

WriteEventFd ==
  /\ opc = "signal"
  /\ opc' = "connStop"
  /\ efd' = TRUE
  /\ UNCHANGED <<lpc, wpc, running, listening, stop, listVars, connVars>>

\* ... then Connections::stop: its flag, Queue::stopqueue, the joins.
StopRunning ==
  /\ opc = "connStop"
  /\ opc' = "stopqueue"
  /\ running' = FALSE
  /\ UNCHANGED <<lpc, wpc, listening, efd, stop, listVars, connVars>>

\* Mutant: the workers are woken without being told to stop.
SetStopForgets ==
  /\ opc = "stopqueue"
  /\ opc' = "notify"
  /\ UNCHANGED <<lpc, wpc, flagVars, listVars, connVars>>

SetStop ==
  /\ opc = "stopqueue"
  /\ opc' = "notify"
  /\ stop' = TRUE
  /\ UNCHANGED <<lpc, wpc, running, listening, efd, listVars, connVars>>

\* notify_all wakes the workers that wait now, without the mutex.
NotifyAll ==
  /\ opc = "notify"
  /\ opc' = "joinWorkers"
  /\ wpc' = [w \in Worker |-> IF wpc[w] = "waiting" THEN "pop" ELSE wpc[w]]
  /\ UNCHANGED <<lpc, flagVars, listVars, connVars>>

JoinWorkers ==
  /\ opc = "joinWorkers"
  /\ \A w \in Worker : wpc[w] = "done"
  /\ opc' = "joinListener"
  /\ UNCHANGED <<lpc, wpc, flagVars, listVars, connVars>>

JoinListener ==
  /\ opc = "joinListener"
  /\ lpc = "done"
  /\ opc' = "stopped"
  /\ UNCHANGED <<lpc, wpc, flagVars, listVars, connVars>>
-----------------------------------------------------------------------------
(* The listener thread: Server::listener.                                  *)

ListenerBegins ==
  /\ lpc = "begin"
  /\ lpc' = "poll"
  /\ listening' = TRUE
  /\ UNCHANGED <<opc, wpc, running, efd, stop, listVars, connVars>>

\* The elements of s that are in S, in their order.
Among(s, S) ==
  LET upTo[i \in 0 .. Len(s)] ==
        IF i = 0 THEN <<>>
        ELSE IF s[i] \in S THEN Append(upTo[i - 1], s[i]) ELSE upTo[i - 1]
  IN  upTo[Len(s)]

\* poll() returns because something is readable; the eventfd is never read.
\* The readable connections are to be handed over, the others stay in the
\* array, and the ones accepted now join it behind what this pass looks at.
\* An error of accept() ends the server.
PollReturns ==
  /\ lpc = "poll"
  /\ efd \/ backlog # <<>> \/ Elements(fds) \cap readable # {}
  /\ lpc' = "scan"
  /\ scan' = Among(fds, readable)
  /\ \E k \in 0 .. Len(backlog) :
       /\ k < Len(backlog) => AcceptErrors
       /\ listening' = (listening /\ k = Len(backlog))
       /\ fds' = Among(fds, Fd \ readable) \o SubSeq(backlog, 1, k)
       /\ backlog' = SubSeq(backlog, k + 1, Len(backlog))
  /\ UNCHANGED <<opc, wpc, running, efd, stop, listVars, clientVars, fd, closed, dropped>>

\* Nothing for three minutes: straight to the test at the end of the loop.
PollTimesOut ==
  /\ lpc = "poll"
  /\ ~efd /\ backlog = <<>> /\ Elements(fds) \cap readable = {}
  /\ lpc' = "scan"
  /\ UNCHANGED <<opc, wpc, flagVars, listVars, connVars>>

\* Connections::request: push first tests stop, without the mutex.  Its answer
\* is ignored, so a refused connection is forgotten, still open.
PushTest ==
  /\ lpc = "scan"
  /\ scan # <<>>
  /\ IF stop
       THEN /\ dropped' = dropped \cup {Head(scan)}
            /\ scan' = Tail(scan)
            /\ UNCHANGED lpc
       ELSE lpc' = "push" /\ UNCHANGED <<scan, dropped>>
  /\ UNCHANGED <<opc, wpc, flagVars, listVars, clientVars, backlog, fds, fd, closed>>

\* Mutant: nobody is notified.
NotifyOneNobody == UNCHANGED wpc

\* notify_one: some waiting worker, if there is one, goes back to the test.
NotifyOne ==
  IF \E w \in Worker : wpc[w] = "waiting"
    THEN \E w \in Worker : wpc[w] = "waiting" /\ wpc' = [wpc EXCEPT ![w] = "pop"]
    ELSE UNCHANGED wpc

\* Mutant: a new cell before queue_h.
PushLinkFirst ==
  /\ lpc = "push"
  /\ ~Held
  /\ lpc' = "scan"
  /\ scan' = Tail(scan)
  /\ \E c \in Cell \ InList :
       /\ info' = [info EXCEPT ![c] = Head(scan)]
       /\ queue_h' = c
       /\ next' = [next EXCEPT ![c] = queue_h]
       /\ queue_l' = IF queue_l = Null THEN c ELSE queue_l
  /\ NotifyOne
  /\ UNCHANGED <<opc, flagVars, clientVars, backlog, fds, fd, closed, dropped>>

\* Mutant: without the mutex.
PushLinkUnlocked ==
  /\ lpc = "push"
  /\ lpc' = "scan"
  /\ scan' = Tail(scan)
  /\ \E c \in Cell \ InList :
       /\ info' = [info EXCEPT ![c] = Head(scan)]
       /\ queue_l' = c
       /\ IF queue_l = Null
            THEN queue_h' = c /\ next' = [next EXCEPT ![c] = Null]
            ELSE /\ next' = [next EXCEPT ![c] = Null, ![queue_l] = c]
                 /\ UNCHANGED queue_h
  /\ NotifyOne
  /\ UNCHANGED <<opc, flagVars, clientVars, backlog, fds, fd, closed, dropped>>

\* The critical section of push: a new cell behind queue_l.
PushLink ==
  /\ lpc = "push"
  /\ ~Held
  /\ lpc' = "scan"
  /\ scan' = Tail(scan)
  /\ \E c \in Cell \ InList :
       /\ info' = [info EXCEPT ![c] = Head(scan)]
       /\ queue_l' = c
       /\ IF queue_l = Null
            THEN queue_h' = c /\ next' = [next EXCEPT ![c] = Null]
            ELSE /\ next' = [next EXCEPT ![c] = Null, ![queue_l] = c]
                 /\ UNCHANGED queue_h
  /\ NotifyOne
  /\ UNCHANGED <<opc, flagVars, clientVars, backlog, fds, fd, closed, dropped>>

\* The end of the pass: poll again, or close what is in the array and return.
ScanDone ==
  /\ lpc = "scan"
  /\ scan = <<>>
  /\ IF listening
       THEN lpc' = "poll" /\ UNCHANGED <<fds, closed, backlog>>
       ELSE /\ lpc' = "done"
            /\ closed' = closed \cup Elements(fds) \cup Elements(backlog)
            /\ fds' = <<>> /\ backlog' = <<>>
  /\ UNCHANGED <<opc, wpc, flagVars, listVars, clientVars, scan, fd, dropped>>
-----------------------------------------------------------------------------
(* A worker: Connections::worker and Queue::pop.                           *)

WorkerLoop(w) ==
  /\ wpc[w] = "loop"
  /\ wpc' = [wpc EXCEPT ![w] = IF running THEN "pop" ELSE "done"]
  /\ UNCHANGED <<opc, lpc, flagVars, listVars, connVars>>

\* Unlink the first cell and free it.
DeleteHead ==
  /\ queue_h' = next[queue_h]
  /\ next' = [next EXCEPT ![queue_h] = Null]
  /\ info' = [info EXCEPT ![queue_h] = Null]

\* Mutant: queue_l is not cleared with the last element.
PopTestKeepsLast(w) ==
  /\ wpc[w] = "pop"
  /\ ~Held
  /\ \/ /\ queue_h # Null
        /\ fd' = [fd EXCEPT ![w] = info[queue_h]]
        /\ DeleteHead
        /\ UNCHANGED queue_l
        /\ wpc' = [wpc EXCEPT ![w] = "handle"]
        /\ UNCHANGED running
     \/ /\ queue_h = Null /\ stop
        /\ wpc' = [wpc EXCEPT ![w] = "done"]
        /\ running' = FALSE
        /\ UNCHANGED <<listVars, fd>>
     \/ /\ queue_h = Null /\ ~stop
        /\ wpc' = [wpc EXCEPT ![w] = "blocking"]
        /\ UNCHANGED <<running, listVars, fd>>
  /\ UNCHANGED <<opc, lpc, listening, efd, stop, clientVars, backlog, fds, scan, closed, dropped>>

\* Mutant: pop returns true from a stopped, empty queue.
PopTestTrueOnStop(w) ==
  /\ wpc[w] = "pop"
  /\ ~Held
  /\ \/ /\ queue_h # Null
        /\ fd' = [fd EXCEPT ![w] = info[queue_h]]
        /\ DeleteHead
        /\ queue_l' = IF queue_h' = Null THEN Null ELSE queue_l
        /\ wpc' = [wpc EXCEPT ![w] = "handle"]
        /\ UNCHANGED running
     \/ /\ queue_h = Null /\ stop
        /\ wpc' = [wpc EXCEPT ![w] = "handle"]
        /\ UNCHANGED <<running, listVars, fd>>
     \/ /\ queue_h = Null /\ ~stop
        /\ wpc' = [wpc EXCEPT ![w] = "blocking"]
        /\ UNCHANGED <<running, listVars, fd>>
  /\ UNCHANGED <<opc, lpc, listening, efd, stop, clientVars, backlog, fds, scan, closed, dropped>>

\* With the mutex, test the predicate: take the head even if stopped, give up
\* if stopped and empty (the worker then clears running), else start to wait.
PopTest(w) ==
  /\ wpc[w] = "pop"
  /\ ~Held
  /\ \/ /\ queue_h # Null
        /\ fd' = [fd EXCEPT ![w] = info[queue_h]]
        /\ DeleteHead
        /\ queue_l' = IF queue_h' = Null THEN Null ELSE queue_l
        /\ wpc' = [wpc EXCEPT ![w] = "handle"]
        /\ UNCHANGED running
     \/ /\ queue_h = Null /\ stop
        /\ wpc' = [wpc EXCEPT ![w] = "done"]
        /\ running' = FALSE
        /\ UNCHANGED <<listVars, fd>>
     \/ /\ queue_h = Null /\ ~stop
        /\ wpc' = [wpc EXCEPT ![w] = "blocking"]
        /\ UNCHANGED <<running, listVars, fd>>
  /\ UNCHANGED <<opc, lpc, listening, efd, stop, clientVars, backlog, fds, scan, closed, dropped>>

\* Release the mutex and wait; only a notification from now on is seen.
Block(w) ==
  /\ wpc[w] = "blocking"
  /\ wpc' = [wpc EXCEPT ![w] = "waiting"]
  /\ UNCHANGED <<opc, lpc, flagVars, listVars, connVars>>

\* A condition variable may also wake a thread that nobody notified.
SpuriousWakeup(w) ==
  /\ wpc[w] = "waiting"
  /\ wpc' = [wpc EXCEPT ![w] = "pop"]
  /\ UNCHANGED <<opc, lpc, flagVars, listVars, connVars>>

\* getMessage, handler, close.
Handle(w) ==
  /\ wpc[w] = "handle"
  /\ wpc' = [wpc EXCEPT ![w] = "loop"]
  /\ closed' = closed \cup {fd[w]}
  /\ fd' = [fd EXCEPT ![w] = Null]
  /\ UNCHANGED <<opc, lpc, flagVars, listVars, clientVars, backlog, fds, scan, dropped>>
-----------------------------------------------------------------------------
OwnerStep ==
  \/ StartListener \/ StartWorkers \/ WriteEventFd \/ StopRunning \/ SetStop
  \/ NotifyAll \/ JoinWorkers \/ JoinListener

ListenerStep ==
  ListenerBegins \/ PollReturns \/ PollTimesOut \/ PushTest \/ PushLink \/ ScanDone

WorkerStep(w) == WorkerLoop(w) \/ PopTest(w) \/ Block(w) \/ Handle(w)

Next ==
  \/ OwnerStep \/ StopListening \/ ListenerStep
  \/ \E w \in Worker : WorkerStep(w) \/ SpuriousWakeup(w)
  \/ \E f \in Fd : Connect(f) \/ Write(f)

Spec == Init /\ [][Next]_vars

\* Every thread is scheduled again and again; a handler ends; the mutex, which
\* no thread holds for long, is not denied to one thread for ever.
Fairness ==
  /\ WF_vars(OwnerStep) /\ WF_vars(ListenerStep) /\ SF_vars(PushLink)
  /\ \A w \in Worker : WF_vars(WorkerStep(w)) /\ SF_vars(PopTest(w))

FairSpec == Spec /\ Fairness
-----------------------------------------------------------------------------
(* Properties.                                                             *)

\* Every variable keeps to the values the code can give it; in particular a
\* worker never closes, and the list never holds, anything but a connection.
TypeOK ==
  /\ opc \in {"start", "connStart", "up", "signal", "connStop", "stopqueue", "notify",
              "joinWorkers", "joinListener", "stopped"}
  /\ lpc \in {"none", "begin", "poll", "scan", "push", "done"}
  /\ wpc \in [Worker -> {"none", "loop", "pop", "blocking", "waiting", "handle", "done"}]
  /\ running \in BOOLEAN /\ listening \in BOOLEAN /\ efd \in BOOLEAN /\ stop \in BOOLEAN
  /\ queue_h \in Cell \cup {Null} /\ queue_l \in Cell \cup {Null}
  /\ next \in [Cell -> Cell \cup {Null}] /\ info \in [Cell -> Fd \cup {Null}]
  /\ opened \subseteq Fd /\ readable \subseteq Fd
  /\ backlog \in Seq(Fd) /\ fds \in Seq(Fd) /\ scan \in Seq(Fd)
  /\ fd \in [Worker -> Fd \cup {Null}]
  /\ closed \subseteq Fd /\ dropped \subseteq Fd

\* The linked list, its two end pointers and its recycled cells, under any
\* interleaving of push, pop and stopqueue, is the FIFO queue the comment on
\* Queue promises, and every element reaches one worker.
Fifo == INSTANCE FifoQueue
  WITH Item <- Fd, Consumer <- Worker, None <- Null, items <- Contents, got <- fd
ImplementsFifo == Fifo!Spec

\* No connection is lost or served twice: each one a client opened is in
\* exactly one place, the kernel, the poll array, the pass over it, the queue,
\* one worker, the closed ones or the ones push refused.
OneHolder ==
  \A f \in Fd :
    LET occurrences(s) == Cardinality({i \in DOMAIN s : s[i] = f})
        member(S) == IF f \in S THEN 1 ELSE 0
    IN occurrences(backlog) + occurrences(fds) + occurrences(scan) + occurrences(Contents)
         + Cardinality({w \in Worker : fd[w] = f}) + member(closed) + member(dropped)
         = member(opened)

\* No wakeup of push is lost: while a worker sleeps, each queued connection has
\* a worker of its own that is awake and on its way to the list, in every
\* interleaving of the notifications with the waits.
NoSleepOverWork ==
  (\E w \in Worker : wpc[w] = "waiting") =>
    Len(Contents) <= Cardinality({w \in Worker : wpc[w] = "pop"})

\* Every connection with something to read is served, unless the server is stopped
\* or an error of accept() ends its listener.
EveryRequestServed ==
  \A f \in Fd : f \in readable ~> (f \in closed \/ opc \notin {"connStart", "up"} \/ lpc = "done")

\* Server::stop and Connections::stop return: the workers and the listener end.
\* Two races of the code are left out: a listener that has not run its first
\* statement yet will set the flag that stop has cleared, and a worker may sleep
\* through a stopqueue that notifies without the mutex.
StopEnds ==
  (opc = "signal" /\ ~listening /\ lpc # "begin") ~>
    (opc = "stopped" \/ (opc = "joinWorkers" /\ stop /\ \E w \in Worker : wpc[w] = "waiting"))
=============================================================================
