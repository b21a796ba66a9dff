------------------------------- MODULE Assolo -------------------------------
(***************************************************************************)
(* A bandwidth estimate by ASSOLO (src/assolo-0.9a): the master assolo_run *)
(* asks a receiver, the daemon assolo_rcv of another node, to be probed by *)
(* the sender, the daemon assolo_snd of its own node.                      *)
(*                                                                         *)
(*   master -- TCP: parameters, estimates, end of file -- receiver         *)
(*   receiver -- UDP: REQ_CONN, CHALL_REPLY, UPDATE_RATES, RECV_OK, STOP   *)
(*            --> sender                                                   *)
(*   sender -- UDP: challenge, chirps, end packets --> receiver            *)
(*                                                                         *)
(* Each session has a UDP socket of its own at the receiver, so a datagram *)
(* belongs to a session.  A chirp is one datagram here; the estimate that  *)
(* the receiver computes from its packets is left out.                     *)
(***************************************************************************)
EXTENDS Integers, Sequences, FiniteSets

CONSTANTS
  Snd, Rcv,     \* the nodes that probe and the ones that are probed
  MaxSessions,  \* bound on the estimates that masters start
  MaxAck,       \* 3 in the code: unanswered packets of a handshake
  MaxSilent,    \* 4 in the code: alarms without a chirp
  MaxOk,        \* MAX_RECV_OK_COUNT, 30 in the code: chirps without RECV_OK
  MaxRequest,   \* bound on request_num, hence on the changes of rates
  MaxKills,     \* bound on the processes that are killed
  MaxLost,      \* bound on the datagrams of an alarm that are lost
  Cap           \* datagrams a socket buffers

ASSUME AssoloAssumption ==
  /\ {MaxSessions, MaxAck, MaxSilent, MaxOk, MaxRequest, MaxKills, MaxLost, Cap} \subseteq Nat
  /\ Cap > 0 /\ MaxRequest > 1 /\ Snd # {} /\ Rcv # {}

Session == 1 .. MaxSessions

VARIABLES
  of,       \* of[n]: the sender and the receiver of session n, once it started
  master,   \* sessions whose assolo_run lives
  told,     \* sessions whose parameters were written
  queued,   \* sessions that wait in the receiver's TCP backlog
  rcv,      \* rcv[r]: the state of assolo_rcv
  snd,      \* snd[s]: the state of assolo_snd
  toSnd,    \* toSnd[s]: datagrams on their way to the sender
  toRcv,    \* toRcv[n]: datagrams on their way to the socket of session n
  lost,     \* datagrams of alarms lost
  kills     \* processes killed

vars == <<of, master, told, queued, rcv, snd, toSnd, toRcv, lost, kills>>
-----------------------------------------------------------------------------
\* assolo_rcv between two sessions; no_chirps_recd and the arrays survive a
\* session, reset_pars sets the rest.
Idle(silent, freed) ==
  [phase |-> "listen", session |-> 0, request |-> 0, acks |-> 0, chal |-> 0,
   silent |-> silent,       \* no_chirps_recd
   window |-> "none",       \* packet_info holds no, one or many packets
   answered |-> 0,          \* sender_request_num
   rates |-> 0,             \* which low_rate and high_rate: the number of changes
   expired |-> FALSE,       \* stop_time has passed
   broken |-> FALSE,        \* remote_host_broken
   refused |-> FALSE,       \* an ICMP error waits at the UDP socket
   freed |-> freed]         \* the arrays were freed by an earlier session

\* assolo_snd after setup_socket_and_wait has bound its socket.
Waiting(chal) ==
  [up |-> TRUE, primed |-> FALSE, conn |-> 0, chal |-> chal, request |-> 0,
   rates |-> 0,
   unheard |-> 0,           \* recv_ok_count
   np |-> 0,                \* 0 before the first chirp, 1 for any later value
   gap |-> FALSE]           \* between two chirps

Init ==
  /\ of = <<>>
  /\ master = {} /\ told = {} /\ queued = {}
  /\ rcv = [r \in Rcv |-> Idle(0, FALSE)]
  /\ snd = [s \in Snd |-> Waiting(0)]
  /\ toSnd = [s \in Snd |-> <<>>]
  /\ toRcv = [n \in Session |-> <<>>]
  /\ lost = 0 /\ kills = 0

Dead(r) == rcv[r].phase = "dead"
Serves(r, n) == rcv[r].session = n
SocketOpen(n) == Serves(of[n].rcv, n)
-----------------------------------------------------------------------------
(* assolo_run.                                                             *)

\* connect_to_rcv: one estimate at a time for each node; the connection waits in
\* the backlog of the receiver.
Start(s, r) ==
  /\ Len(of) < MaxSessions
  /\ ~Dead(r)
  /\ \A n \in master : of[n].snd # s
  /\ of' = Append(of, [snd |-> s, rcv |-> r])
  /\ master' = master \cup {Len(of) + 1}
  /\ queued' = queued \cup {Len(of) + 1}
  /\ UNCHANGED <<told, rcv, snd, toSnd, toRcv, lost, kills>>

\* The parameters are written.
Tell(n) ==
  /\ n \in master \ told
  /\ told' = told \cup {n}
  /\ UNCHANGED <<of, master, queued, rcv, snd, toSnd, toRcv, lost, kills>>

\* The receiver closed the connection: read returns 0, "Finished Experiment".
Finish(n) ==
  /\ n \in master
  /\ n \notin queued /\ ~SocketOpen(n)
  /\ master' = master \ {n}
  /\ UNCHANGED <<of, told, queued, rcv, snd, toSnd, toRcv, lost, kills>>

\* The agent stops and kills its assolo_run.
KillMaster(n) ==
  /\ n \in master
  /\ kills < MaxKills
  /\ kills' = kills + 1
  /\ master' = master \ {n}
  /\ UNCHANGED <<of, told, queued, rcv, snd, toSnd, toRcv, lost>>
-----------------------------------------------------------------------------
(* assolo_rcv: sessions.                                                   *)

\* exit() or abort(): the kernel closes the connections.
Exit(r) ==
  /\ rcv' = [rcv EXCEPT ![r] = [Idle(0, FALSE) EXCEPT !.phase = "dead"]]
  /\ toRcv' = IF rcv[r].session = 0 THEN toRcv ELSE [toRcv EXCEPT ![rcv[r].session] = <<>>]
  /\ queued' = {n \in queued : of[n].rcv # r}

\* close_all: what is on its way to the socket of a session that ends is dropped.
Closing(r, x) == toRcv' = IF x.session = 0 THEN [toRcv EXCEPT ![rcv[r].session] = <<>>] ELSE toRcv

\* free_arrays, close_all and reset_pars.
EndSession(r) ==
  LET x == Idle(rcv[r].silent, TRUE) IN rcv' = [rcv EXCEPT ![r] = x] /\ Closing(r, x)

\* send_pkt: a control packet; STOP and RECV_OK need no more than their type.
Control(r, type) ==
  [type |-> type, from |-> rcv[r].session, request |-> rcv[r].request, chal |-> rcv[r].chal,
   rates |-> rcv[r].rates]

Signal(r, type) ==
  [type |-> type, from |-> rcv[r].session, request |-> 0, chal |-> 0,
   rates |-> 0]

\* The sender's socket takes datagrams of session n, if it is up and not connected
\* to another receiver.
Takes(s, n) == snd[s].up /\ snd[s].conn \in {0, n}

\* The ICMP error that a datagram to a sender that is down brings back, or not.
Refused(r, s) == IF snd[s].up THEN {rcv[r].refused} ELSE BOOLEAN

\* The receiver goes on as x after a packet m of the handshake, which arrives or
\* does not.
Handshake(r, x, s, m) ==
  /\ \/ Takes(s, m.from) /\ Len(toSnd[s]) < Cap /\ toSnd' = [toSnd EXCEPT ![s] = Append(@, m)]
     \/ UNCHANGED toSnd
  /\ \E e \in IF x.session = 0 THEN {FALSE} ELSE Refused(r, s) :
       rcv' = [rcv EXCEPT ![r] = [x EXCEPT !.refused = e]]

\* The receiver finds the parameters that it needs in what the master wrote.
parse_cmd_line(n) == n \in told

\* remote_connection, parse_cmd_line, create_arrays and initiate_connection: the
\* first connection of the backlog is served.  A master that was killed before
\* it wrote its parameters leaves nothing to parse: the first time the host is
\* unknown and the daemon exits; later it frees its arrays a second time, which
\* it may survive.
Accept(r) ==
  \E n \in queued :
    /\ rcv[r].phase = "listen"
    /\ of[n].rcv = r /\ \A k \in queued : of[k].rcv = r => n <= k
    /\ \/ /\ parse_cmd_line(n)
          /\ queued' = queued \ {n}
          /\ Handshake(r, [rcv[r] EXCEPT !.phase = "request", !.session = n], of[n].snd,
                       [Control(r, "REQ_CONN") EXCEPT !.from = n])
          /\ UNCHANGED toRcv
       \/ ~parse_cmd_line(n) /\ n \notin master /\ Exit(r) /\ UNCHANGED toSnd
       \/ /\ ~parse_cmd_line(n) /\ n \notin master
          /\ rcv[r].freed
          /\ queued' = queued \ {n}
          /\ UNCHANGED <<rcv, toSnd, toRcv>>
    /\ UNCHANGED <<of, master, told, snd, lost, kills>>
-----------------------------------------------------------------------------
(* assolo_rcv: the handshake, run_select and recv_chall_pkt.               *)

\* The challenge: answer it.
Challenge(r) ==
  LET n == rcv[r].session IN
  /\ rcv[r].phase = "request"
  /\ toRcv[n] # <<>>
  /\ toRcv' = [toRcv EXCEPT ![n] = Tail(@)]
  /\ LET x == [rcv[r] EXCEPT !.phase = "reply", !.acks = 0, !.chal = Head(toRcv[n]).chal,
                             !.request = @ + 1]
     IN  Handshake(r, x, of[n].snd, [Control(r, "CHALL_REPLY") EXCEPT !.request = x.request,
                                                                    !.chal = x.chal])
  /\ UNCHANGED <<of, master, told, queued, snd, lost, kills>>

\* Anything that arrives after the reply is taken for the first chirp; it stays
\* in the socket.
ChirpsStart(r) ==
  /\ rcv[r].phase = "reply"
  /\ toRcv[rcv[r].session] # <<>> \/ rcv[r].refused
  /\ rcv' = [rcv EXCEPT ![r].phase = "chirps", ![r].request = @ + 1]
  /\ UNCHANGED <<of, master, told, queued, snd, toSnd, toRcv, lost, kills>>

\* What is sent again when nothing arrives.
Unanswered(r) == Control(r, IF rcv[r].phase = "request" THEN "REQ_CONN" ELSE "CHALL_REPLY")

\* Mutant: the handshake is repeated for ever.
RepeatForEver(r) ==
  LET n == rcv[r].session IN
  /\ rcv[r].phase \in {"request", "reply"}
  /\ toRcv[n] = <<>> /\ ~rcv[r].refused
  /\ Handshake(r, rcv[r], of[n].snd, Unanswered(r))
  /\ UNCHANGED <<of, master, told, queued, snd, toRcv, lost, kills>>

\* Nothing arrived in RTTUSEC: send again; the last time give up as well.
Repeat(r) ==
  LET n == rcv[r].session IN
  /\ rcv[r].phase \in {"request", "reply"}
  /\ toRcv[n] = <<>> /\ ~rcv[r].refused
  /\ \/ /\ rcv[r].acks < MaxAck
        /\ Handshake(r, [rcv[r] EXCEPT !.acks = @ + 1], of[n].snd, Unanswered(r))
     \/ /\ rcv[r].acks = MaxAck
        /\ Handshake(r, Idle(rcv[r].silent, TRUE), of[n].snd, Unanswered(r))
  /\ UNCHANGED <<of, master, told, queued, snd, toRcv, lost, kills>>

\* read or recvmsg returns the error: the session ends.
ReadFails(r) ==
  /\ rcv[r].phase \in {"request", "chirps"}
  /\ rcv[r].refused
  /\ EndSession(r)
  /\ UNCHANGED <<of, master, told, queued, snd, toSnd, lost, kills>>
-----------------------------------------------------------------------------
(* assolo_rcv: receive_chirp_pkts and sig_alrm.                            *)

\* A chirp's packets are recorded if they are of the latest request.
Records(x, p) == p.type = "chirp" /\ p.request = x.request - 1

\* The window after a chirp.
update_info(x, p) ==
  IF ~Records(x, p) THEN {x.window}
  ELSE IF x.window = "none" THEN {"none", "one", "many"}
  ELSE {x.window, "many"}

\* packet_info has room for the packets of three chirps at least; the daemon exits
\* when it fills up before an alarm.
TooMany(x, p) == Records(x, p) /\ x.window = "many"

\* A datagram.  Number 0 ends the session, be it an end packet or a challenge
\* that was late.  SIGPIPE is noticed after the datagram.
Receive(r) ==
  LET n == rcv[r].session
      p == Head(toRcv[n])
  IN  /\ rcv[r].phase = "chirps"
      /\ toRcv[n] # <<>>
      /\ IF p.np = 0 \/ rcv[r].broken
           THEN EndSession(r) /\ UNCHANGED queued
           ELSE \/ /\ toRcv' = [toRcv EXCEPT ![n] = Tail(@)]
                   /\ \E w \in update_info(rcv[r], p) : rcv' = [rcv EXCEPT ![r].window = w]
                   /\ UNCHANGED queued
                \/ TooMany(rcv[r], p) /\ Exit(r)
      /\ UNCHANGED <<of, master, told, snd, toSnd, lost, kills>>

\* 30 seconds have passed.
Expire(r) ==
  /\ rcv[r].phase = "chirps"
  /\ ~rcv[r].expired
  /\ rcv' = [rcv EXCEPT ![r].expired = TRUE]
  /\ UNCHANGED <<of, master, told, queued, snd, toSnd, toRcv, lost, kills>>

\* The datagrams of an alarm, at most one of each kind, are sent in this order, and
\* the receiver goes on as x; up to MaxLost of all get lost, and a socket that is
\* full takes no more.  A write that meets the error of an earlier datagram, perhaps
\* of the same alarm, ends the process: exit(0).
SendAll(r, x, stop, ok, update) ==
  LET n == rcv[r].session
      s == of[n].snd
      ms == stop \o ok \o update
  IN  \/ \E a \in {<<>>, stop}, b \in {<<>>, ok}, c \in {<<>>, update} :
           LET arrive == a \o b \o c
               room == Cap - Len(toSnd[s])
           IN  /\ ms = <<>> \/ ~rcv[r].refused
               /\ lost' = lost + (Len(ms) - Len(arrive))
               /\ lost' <= MaxLost
               /\ toSnd' = IF Takes(s, n)
                             THEN [toSnd EXCEPT ![s] = @ \o SubSeq(arrive, 1,
                                     IF Len(arrive) < room THEN Len(arrive) ELSE room)]
                             ELSE toSnd
               /\ \E e \in IF ms = <<>> \/ x.session = 0 THEN {x.refused} ELSE Refused(r, s) :
                    rcv' = [rcv EXCEPT ![r] = [x EXCEPT !.refused = e]]
               /\ Closing(r, x)
               /\ UNCHANGED queued
      \/ /\ ms # <<>>
         /\ rcv[r].refused \/ (~snd[s].up /\ Len(ms) > 1)
         /\ Exit(r)
         /\ UNCHANGED <<toSnd, lost>>

Stop(r) == IF rcv[r].expired THEN <<Signal(r, "STOP")>> ELSE <<>>

\* Mutant: the receiver does not tell the chirps of the old rates from the new.
SameRequest(x, new) == x.request

\* A change of the rates raises request_num once it was sent.
NextRequest(x, new) == IF new THEN x.request + 1 ELSE x.request

\* The latest request of the packets in the window; it looks at all but the first.
check_reorder_loss(x) == IF x.window = "many" THEN x.request - 1 ELSE x.answered

\* An estimate goes to the master, or SIGPIPE tells that there is none any more.
write_instant_bw(x, estimate) == x.broken \/ (estimate /\ x.session \notin master)

\* The rates may be changed, unless the sender has not answered the last change.
check_for_new_pars(x, again) == ~again /\ x.request < MaxRequest

\* compute_stats, send_ok and the updates of the rates, for a window that holds
\* packets.  An update that is sent again does not raise request_num, yet it
\* carries the raised number.
Stats(r) ==
  LET x == rcv[r]
      answered == check_reorder_loss(x)
      again == answered < x.request - 1
  IN  \E ok, new, estimate \in BOOLEAN :
        /\ new => check_for_new_pars(x, again)
        /\ SendAll(r,
             [x EXCEPT !.silent = 0, !.window = "none", !.answered = answered,
                       !.rates = IF new THEN @ + 1 ELSE @,
                       !.request = NextRequest(x, new),
                       !.broken = write_instant_bw(x, estimate)],
             Stop(r),
             IF ok THEN <<Signal(r, "RECV_OK")>> ELSE <<>>,
             IF again \/ new
               THEN <<[Control(r, "UPDATE_RATES") EXCEPT
                         !.rates = IF new THEN x.rates + 1 ELSE x.rates]>>
               ELSE <<>>)

\* Mutant: silent alarms are counted, but do not end the session.
AlarmNeverAborts(r) ==
  LET x == rcv[r] IN
  /\ x.phase = "chirps"
  /\ IF x.window # "none" THEN Stats(r) ELSE SendAll(r, [x EXCEPT !.silent = @ + 1], Stop(r), <<>>, <<>>)
  /\ UNCHANGED <<of, master, told, snd, kills>>

\* The alarm: STOP when the time is over; statistics, or one more silent alarm,
\* the last of which closes the session.
Alarm(r) ==
  LET x == rcv[r] IN
  /\ x.phase = "chirps"
  /\ IF x.window # "none"
       THEN Stats(r)
       ELSE SendAll(r, IF x.silent >= MaxSilent THEN Idle(x.silent, TRUE)
                                                ELSE [x EXCEPT !.silent = @ + 1],
                    Stop(r), <<>>, <<>>)
  /\ UNCHANGED <<of, master, told, snd, kills>>
-----------------------------------------------------------------------------
(* assolo_snd.                                                             *)

\* unconnect_so: a new socket, so what waited at the old one may be gone, and a
\* new challenge; recv_ok_count is not reset.  (The request and the rates are set
\* again before they are used.)
Unconnect(s, x, q) ==
  /\ snd' = [snd EXCEPT ![s] = [x EXCEPT !.conn = 0, !.chal = @ + 1, !.gap = FALSE,
                                         !.request = 0,
                                         !.rates = 0]]
  /\ \E left \in {<<>>, q} : toSnd' = [toSnd EXCEPT ![s] = left]

\* A datagram to the socket of session n arrives or does not.
SendTo(n, m) ==
  \/ /\ SocketOpen(n) /\ Len(toRcv[n]) < Cap
     /\ toRcv' = [toRcv EXCEPT ![n] = Append(@, m)]
  \/ UNCHANGED toRcv

\* The first datagram is only waited for, not read as a request.
FirstPacket(s) ==
  /\ snd[s].up /\ ~snd[s].primed
  /\ toSnd[s] # <<>>
  /\ toSnd' = [toSnd EXCEPT ![s] = Tail(@)]
  /\ snd' = [snd EXCEPT ![s].primed = TRUE, ![s].chal = @ + 1]
  /\ UNCHANGED <<of, master, told, queued, rcv, toRcv, lost, kills>>

\* handle_request when not connected: a request is answered with the challenge,
\* the right reply connects the socket.
Request(s) ==
  LET x == snd[s]
      m == Head(toSnd[s])
  IN  /\ x.up /\ x.primed /\ x.conn = 0
      /\ toSnd[s] # <<>>
      /\ toSnd' = [toSnd EXCEPT ![s] = Tail(@)]
      /\ CASE m.type = "REQ_CONN" ->
                /\ snd' = [snd EXCEPT ![s].request = m.request]
                /\ SendTo(m.from, [type |-> "challenge", np |-> x.np, chal |-> x.chal,
                                   request |-> m.request, rates |-> m.rates])
           [] m.type = "CHALL_REPLY" /\ m.chal = x.chal ->
                /\ snd' = [snd EXCEPT ![s].conn = m.from, ![s].request = m.request,
                                      ![s].rates = m.rates]
                /\ UNCHANGED toRcv
           [] OTHER -> UNCHANGED <<snd, toRcv>>
      /\ UNCHANGED <<of, master, told, queued, rcv, lost, kills>>

\* chirps_snd: a chirp; the write fails if the receiver has closed its socket
\* (unless the ICMP error is lost).
Chirp(s) ==
  LET x == snd[s] IN
  /\ x.up /\ x.conn # 0 /\ ~x.gap
  /\ \/ /\ SendTo(x.conn, [type |-> "chirp", np |-> 1, chal |-> x.chal,
                           request |-> x.request, rates |-> x.rates])
        /\ snd' = [snd EXCEPT ![s].gap = TRUE, ![s].np = 1]
        /\ UNCHANGED toSnd
     \/ /\ ~SocketOpen(x.conn)
        /\ Unconnect(s, [x EXCEPT !.np = 1], toSnd[s])
        /\ UNCHANGED toRcv
  /\ UNCHANGED <<of, master, told, queued, rcv, lost, kills>>

\* run_select after handle_request of m (or of nothing): one more chirp without
\* RECV_OK; too many, and the socket is disconnected.
Heard(s, x, q) ==
  IF x.unheard + 1 > MaxOk
    THEN Unconnect(s, [x EXCEPT !.unheard = 0], q)
    ELSE /\ snd' = [snd EXCEPT ![s] = [x EXCEPT !.unheard = @ + 1, !.gap = FALSE]]
         /\ toSnd' = [toSnd EXCEPT ![s] = q]

\* Mutant: a silent receiver is probed for ever.
GapUnlimited(s) ==
  LET x == snd[s] IN
  /\ x.up /\ x.conn # 0 /\ x.gap
  /\ toSnd[s] = <<>>
  /\ snd' = [snd EXCEPT ![s] = [x EXCEPT !.gap = FALSE]]
  /\ UNCHANGED <<of, master, told, queued, rcv, toSnd, toRcv, lost, kills>>

\* Nothing arrived between two chirps.
Gap(s) ==
  LET x == snd[s] IN
  /\ x.up /\ x.conn # 0 /\ x.gap
  /\ toSnd[s] = <<>>
  /\ Heard(s, x, <<>>)
  /\ UNCHANGED <<of, master, told, queued, rcv, toRcv, lost, kills>>

\* handle_request when connected: new rates, a sign of life, or the end.
GapRequest(s) ==
  LET x == snd[s]
      m == Head(toSnd[s])
      q == Tail(toSnd[s])
  IN  /\ x.up /\ x.conn # 0 /\ x.gap
      /\ toSnd[s] # <<>>
      /\ CASE m.type = "UPDATE_RATES" ->
                Heard(s, [x EXCEPT !.request = m.request, !.rates = m.rates], q) /\ UNCHANGED toRcv
           [] m.type = "RECV_OK" -> Heard(s, [x EXCEPT !.unheard = 0], q) /\ UNCHANGED toRcv
           [] m.type = "STOP" ->
                /\ SendTo(x.conn, [type |-> "end", np |-> 0, chal |-> x.chal,
                                   request |-> x.request, rates |-> x.rates])
                /\ Unconnect(s, [x EXCEPT !.unheard = IF @ + 1 > MaxOk THEN 0 ELSE @ + 1], q)
           [] OTHER -> Heard(s, x, q) /\ UNCHANGED toRcv
      /\ UNCHANGED <<of, master, told, queued, rcv, lost, kills>>

\* The agent stops and kills its assolo_rcv and its assolo_snd ...
KillReceiver(r) ==
  /\ ~Dead(r)
  /\ kills < MaxKills
  /\ kills' = kills + 1
  /\ Exit(r)
  /\ UNCHANGED <<of, master, told, snd, toSnd, lost>>

KillSender(s) ==
  /\ snd[s].up
  /\ kills < MaxKills
  /\ kills' = kills + 1
  /\ snd' = [snd EXCEPT ![s] = [Waiting(@.chal) EXCEPT !.up = FALSE]]
  /\ toSnd' = [toSnd EXCEPT ![s] = <<>>]
  /\ UNCHANGED <<of, master, told, queued, rcv, toRcv, lost>>

\* ... and the next agent starts others, also after one that ended by itself.
StartReceiver(r) ==
  /\ Dead(r)
  /\ rcv' = [rcv EXCEPT ![r] = Idle(0, FALSE)]
  /\ UNCHANGED <<of, master, told, queued, snd, toSnd, toRcv, lost, kills>>

StartSender(s) ==
  /\ ~snd[s].up
  /\ snd' = [snd EXCEPT ![s] = Waiting(@.chal)]
  /\ UNCHANGED <<of, master, told, queued, rcv, toSnd, toRcv, lost, kills>>
-----------------------------------------------------------------------------
Started == 1 .. Len(of)

MasterStep(n) == n \in Started /\ (Tell(n) \/ Finish(n))

ReceiverStep(r) ==
  \/ Accept(r) \/ Challenge(r) \/ ChirpsStart(r) \/ Repeat(r) \/ ReadFails(r)
  \/ Receive(r) \/ Expire(r) \/ Alarm(r)

SenderStep(s) == FirstPacket(s) \/ Request(s) \/ Chirp(s) \/ Gap(s) \/ GapRequest(s)

Next ==
  \/ \E s \in Snd, r \in Rcv : Start(s, r)
  \/ \E n \in Session : MasterStep(n) \/ (n \in Started /\ KillMaster(n))
  \/ \E r \in Rcv : ReceiverStep(r) \/ KillReceiver(r) \/ StartReceiver(r)
  \/ \E s \in Snd : SenderStep(s) \/ KillSender(s) \/ StartSender(s)

Spec == Init /\ [][Next]_vars

\* Every process runs; time passes, so a wait for a datagram and the duration of
\* the experiment end, and alarms ring.
Fairness ==
  /\ \A n \in Session : WF_vars(MasterStep(n))
  /\ \A r \in Rcv : /\ WF_vars(Accept(r)) /\ WF_vars(Challenge(r)) /\ WF_vars(ChirpsStart(r))
                    /\ WF_vars(Repeat(r)) /\ WF_vars(ReadFails(r)) /\ WF_vars(Receive(r))
                    /\ WF_vars(Expire(r)) /\ WF_vars(Alarm(r))
  /\ \A s \in Snd : WF_vars(SenderStep(s))

FairSpec == Spec /\ Fairness
-----------------------------------------------------------------------------
(* Properties.                                                             *)

\* Every variable keeps to its type, whatever is lost and whoever is killed; the
\* counters stay within the limits of the code.
TypeOK ==
  /\ of \in Seq([snd : Snd, rcv : Rcv]) /\ Len(of) <= MaxSessions
  /\ master \subseteq Started /\ told \subseteq Started /\ queued \subseteq Started
  /\ \A r \in Rcv :
       /\ rcv[r].phase \in {"listen", "request", "reply", "chirps", "dead"}
       /\ rcv[r].session \in {0} \cup Started
       /\ (rcv[r].session = 0) = (rcv[r].phase \in {"listen", "dead"})
       /\ rcv[r].acks \in 0 .. MaxAck
       /\ rcv[r].silent \in 0 .. MaxSilent
       /\ rcv[r].request \in 0 .. MaxRequest
       /\ rcv[r].window \in {"none", "one", "many"}
  /\ \A s \in Snd : snd[s].conn \in {0} \cup Started /\ snd[s].unheard \in 0 .. MaxOk
  /\ \A s \in Snd : Len(toSnd[s]) <= Cap
  /\ \A n \in Session : Len(toRcv[n]) <= Cap

\* "Thus experiments can be initiated" from any master: whatever datagrams are
\* lost and whichever process is killed, a session that was started is served
\* and comes to its end, and its master gets the end of the connection.
EverySessionEnds ==
  \A n \in Session :
    n \in queued ~> (n \notin queued /\ n \notin master /\ \A r \in Rcv : ~Serves(r, n))

\* A sender does not stay with a receiver that has left: it becomes free for the
\* next experiment, even when no error and no STOP tells it.
SenderFreed ==
  \A s \in Snd, n \in Session :
    (snd[s].conn = n /\ \A r \in Rcv : ~Serves(r, n)) ~> snd[s].conn # n

\* The chirps that wait at the socket of receiver r and will be recorded
Recorded(r) ==
  {toRcv[rcv[r].session][i] : i \in
     {i \in DOMAIN toRcv[rcv[r].session] :
        LET p == toRcv[rcv[r].session][i] IN p.type = "chirp" /\ p.request = rcv[r].request - 1}}

\* "discarding all chirps that do not have the new rates": not quite.  An update that
\* is sent again makes the sender use the number of the next change for the old
\* rates.  But the error is bounded: a chirp that the receiver will record was sent
\* for its latest change of the rates or for the one before, however updates are
\* lost and sent again and however many chirps of old rates are on their way.
\* (Changes are counted in each session; which rates they are is left out.)
AtMostOneChangeBehind ==
  \A r \in Rcv : rcv[r].phase = "chirps" =>
    \A p \in Recorded(r) : p.rates \in {rcv[r].rates - 1, rcv[r].rates}
=============================================================================
