---------------------------- MODULE AssoloProofs ----------------------------
(***************************************************************************)
(* Proofs about module Assolo, for any number of senders, receivers and    *)
(* sessions, any limits and buffers, with losses and killed processes: the *)
(* types and limits, and how far the rates of a chirp that the receiver    *)
(* takes for a recent one can be from its latest rates.                    *)
(*                                                                         *)
(* The invariant says of each record by itself which states are possible,  *)
(* so that a step is correct if the records it makes are.                  *)
(***************************************************************************)
EXTENDS Assolo, SequenceTheorems, TLAPS

\* The rates that go with a request number: those of its update, or, when an update
\* was sent again, those of the update before.
Paired(request, rates) == rates \in {request - 1, request - 2}

\* A control packet of one of k sessions
PacketRecord(k) ==
  [type : {"REQ_CONN", "CHALL_REPLY", "UPDATE_RATES", "RECV_OK", "STOP"}, from : 1 .. k,
   request : Nat, chal : Nat, rates : Nat]
Packet(k) ==
  {m \in PacketRecord(k) :
     m.type \in {"CHALL_REPLY", "UPDATE_RATES"} => Paired(m.request, m.rates)}

\* What a sender sends
DatagramRecord ==
  [type : {"challenge", "chirp", "end"}, np : {0, 1}, chal : Nat, request : Nat, rates : Nat]
Datagram == {p \in DatagramRecord : p.type = "chirp" => Paired(p.request, p.rates)}

\* A sender that may be connected to one of k sessions
SenderRecord(k) ==
  [up : BOOLEAN, primed : BOOLEAN, conn : 0 .. k, chal : Nat, request : Nat, rates : Nat,
   unheard : 0 .. MaxOk, np : {0, 1}, gap : BOOLEAN]
Sender(k) == {x \in SenderRecord(k) : x.conn # 0 => Paired(x.request, x.rates)}

\* The request number and the rates of a receiver in each phase: the handshake has
\* the numbers 0 and 1; later both are raised together.
Numbered(x) ==
  /\ x.phase \in {"listen", "dead", "request"} => x.request = 0 /\ x.rates = 0
  /\ x.phase = "reply" => x.request = 1 /\ x.rates = 0
  /\ x.phase = "chirps" => x.request >= 2 /\ x.rates = x.request - 2

\* A receiver that may serve one of k sessions
ReceiverRecord(k) ==
  [phase : {"listen", "request", "reply", "chirps", "dead"}, session : 0 .. k,
   request : 0 .. MaxRequest, acks : 0 .. MaxAck, chal : Nat, silent : 0 .. MaxSilent,
   window : {"none", "one", "many"}, answered : Int, rates : Nat, expired : BOOLEAN,
   broken : BOOLEAN, refused : BOOLEAN, freed : BOOLEAN]
Serving(x) == x.session = 0 <=> x.phase \in {"listen", "dead"}
Receiver(k) == {x \in ReceiverRecord(k) : Serving(x) /\ Numbered(x)}

\* A socket's buffer
Buffer(S) == {q \in Seq(S) : Len(q) <= Cap}

Inv ==
  /\ of \in Seq([snd : Snd, rcv : Rcv]) /\ Len(of) <= MaxSessions
  /\ master \subseteq Started /\ told \subseteq Started /\ queued \subseteq Started
  /\ rcv \in [Rcv -> Receiver(Len(of))]
  /\ snd \in [Snd -> Sender(Len(of))]
  /\ toSnd \in [Snd -> Buffer(Packet(Len(of)))]
  /\ toRcv \in [Session -> Buffer(Datagram)]
  /\ lost \in Nat
-----------------------------------------------------------------------------
(* Buffers.                                                                *)

\* Used where the summands are long expressions.
LEMMA SumIsNat == \A i, j \in Nat : i + j \in Nat
OBVIOUS

LEMMA EmptyBuffer == ASSUME NEW S PROVE <<>> \in Buffer(S)
BY AssoloAssumption DEF Buffer

LEMMA FirstOf ==
  ASSUME NEW S, NEW q \in Buffer(S), q # <<>> PROVE Head(q) \in S /\ Tail(q) \in Buffer(S)
<1>1. Len(q) \in Nat /\ Tail(q) \in Seq(S) /\ Len(Tail(q)) = Len(q) - 1 /\ Head(q) \in S
  BY HeadTailProperties DEF Buffer
<1> QED BY <1>1, AssoloAssumption DEF Buffer

LEMMA OneMore ==
  ASSUME NEW S, NEW q \in Buffer(S), NEW m \in S, Len(q) < Cap PROVE Append(q, m) \in Buffer(S)
<1>1. Len(q) \in Nat /\ Append(q, m) \in Seq(S) /\ Len(Append(q, m)) = Len(q) + 1
  BY AppendProperties, LenProperties DEF Buffer
<1> QED BY <1>1, AssoloAssumption DEF Buffer

\* As many as there is room for
LEMMA AsFits ==
  ASSUME NEW S, NEW q \in Buffer(S), NEW a \in Seq(S)
  PROVE q \o SubSeq(a, 1, IF Len(a) < Cap - Len(q) THEN Len(a) ELSE Cap - Len(q)) \in Buffer(S)
<1> DEFINE n == IF Len(a) < Cap - Len(q) THEN Len(a) ELSE Cap - Len(q)
<1>1. /\ Len(q) \in Nat /\ Len(q) <= Cap /\ Cap \in Nat /\ Len(a) \in Nat
  BY AssoloAssumption, LenProperties DEF Buffer
<1>2. n \in 0 .. Len(a) /\ Len(q) + n <= Cap BY <1>1
<1> HIDE DEF n
<1>3. SubSeq(a, 1, n) \in Seq(S) /\ Len(SubSeq(a, 1, n)) = n
  <2>1. CASE n = 0
    <3>1. SubSeq(a, 1, 0) = <<>> BY SubSeqEmpty, <1>1
    <3> QED BY <2>1, <3>1
  <2>2. CASE n # 0
    <3>1. 1 \in 1 .. Len(a) + 1 /\ n \in 1 .. Len(a) BY <1>1, <1>2, <2>2
    <3>2. \A i \in 1 .. n : i \in 1 .. Len(a) /\ a[i] \in S BY <1>1, <1>2, ElementOfSeq
    <3> QED BY <1>1, <1>2, <3>1, <3>2, SubSeqProperties
  <2> QED BY <2>1, <2>2
<1>4. q \in Seq(S) BY DEF Buffer
<1>5. q \o SubSeq(a, 1, n) \in Seq(S) /\ Len(q \o SubSeq(a, 1, n)) = Len(q) + n
  BY <1>3, <1>4, ConcatProperties
<1> QED BY <1>2, <1>5 DEF Buffer, n
-----------------------------------------------------------------------------
(* The records that the steps make.                                        *)

LEMMA Constants ==
  /\ MaxSessions \in Nat /\ MaxAck \in Nat /\ MaxSilent \in Nat /\ MaxOk \in Nat
  /\ MaxRequest \in Nat /\ MaxRequest > 1 /\ MaxLost \in Nat /\ Cap \in Nat
BY AssoloAssumption

\* A receiver between two sessions, and one that has ended
LEMMA IdleReceiver ==
  ASSUME NEW k \in Nat, NEW silent \in 0 .. MaxSilent, NEW freed \in BOOLEAN
  PROVE /\ Idle(silent, freed) \in Receiver(k)
        /\ [Idle(silent, freed) EXCEPT !.phase = "dead"] \in Receiver(k)
        /\ Idle(silent, freed).session = 0
<1> DEFINE y == Idle(silent, freed)
           z == [y EXCEPT !.phase = "dead"]
<1>1. y \in ReceiverRecord(k) BY Constants DEF Idle, ReceiverRecord
<1>2. y.phase = "listen" /\ y.session = 0 /\ y.request = 0 /\ y.rates = 0 BY DEF Idle
<1> HIDE DEF y
<1>3. y \in Receiver(k) BY <1>1, <1>2 DEF Receiver, Serving, Numbered
<1>4. z \in ReceiverRecord(k) BY <1>1 DEF ReceiverRecord
<1>5. z.phase = "dead" /\ z.session = 0 /\ z.request = 0 /\ z.rates = 0
  BY <1>1, <1>2 DEF ReceiverRecord
<1> HIDE DEF z
<1>6. z \in Receiver(k) BY <1>4, <1>5 DEF Receiver, Serving, Numbered
<1> QED BY <1>2, <1>3, <1>6 DEF y, z

\* What Receiver says of the fields that the properties and the packets depend on
LEMMA Fields ==
  ASSUME NEW k \in Nat, NEW x \in Receiver(k)
  PROVE /\ x \in ReceiverRecord(k) /\ Serving(x) /\ Numbered(x)
        /\ x.session \in 0 .. k /\ x.request \in 0 .. MaxRequest /\ x.acks \in 0 .. MaxAck
        /\ x.chal \in Nat /\ x.silent \in 0 .. MaxSilent /\ x.rates \in Nat
        /\ x.answered \in Int /\ x.refused \in BOOLEAN /\ x.broken \in BOOLEAN
        /\ x.window \in {"none", "one", "many"}
BY DEF Receiver, ReceiverRecord

\* The same session in the same phase, with other flags, counters and packets
LEMMA SameNumbers ==
  ASSUME NEW k \in Nat, NEW x \in Receiver(k), NEW y \in ReceiverRecord(k),
         y.phase = x.phase, y.session = x.session, y.request = x.request, y.rates = x.rates
  PROVE y \in Receiver(k)
BY DEF Receiver, Serving, Numbered

LEMMA Refuse ==
  ASSUME NEW k \in Nat, NEW x \in Receiver(k), NEW e \in BOOLEAN
  PROVE [x EXCEPT !.refused = e] \in Receiver(k)
<1> DEFINE y == [x EXCEPT !.refused = e]
<1>1. y \in ReceiverRecord(k) BY DEF Receiver, ReceiverRecord
<1>2. y.phase = x.phase /\ y.session = x.session /\ y.request = x.request /\ y.rates = x.rates
  BY DEF Receiver, ReceiverRecord
<1> QED BY <1>1, <1>2, SameNumbers

\* The handshake
LEMMA Begun ==
  ASSUME NEW k \in Nat, NEW x \in Receiver(k), x.phase = "listen", NEW n \in 1 .. k
  PROVE LET y == [x EXCEPT !.phase = "request", !.session = n]
        IN  y \in Receiver(k) /\ y.session = n
<1> DEFINE y == [x EXCEPT !.phase = "request", !.session = n]
<1>1. y \in ReceiverRecord(k)
  <2>1. x \in ReceiverRecord(k) /\ n \in 0 .. k BY Fields
  <2> QED BY <2>1 DEF ReceiverRecord
<1>2. y.phase = "request" /\ y.session = n /\ y.request = x.request /\ y.rates = x.rates
  BY DEF Receiver, ReceiverRecord
<1>3. x.request = 0 /\ x.rates = 0 BY DEF Receiver, Numbered
<1> HIDE DEF y
<1>4. y \in Receiver(k) BY <1>1, <1>2, <1>3 DEF Receiver, Serving, Numbered
<1> QED BY <1>2, <1>4 DEF y

Replying(x, c) == [x EXCEPT !.phase = "reply", !.acks = 0, !.chal = c, !.request = @ + 1]

LEMMA Challenged ==
  ASSUME NEW k \in Nat, NEW x \in Receiver(k), x.phase = "request", NEW c \in Nat
  PROVE /\ Replying(x, c) \in Receiver(k)
        /\ Replying(x, c).request = 1 /\ Replying(x, c).chal = c
<1> DEFINE y == [x EXCEPT !.phase = "reply", !.acks = 0, !.chal = c, !.request = @ + 1]
<1>1. x.request = 0 /\ x.rates = 0 /\ x.session # 0 BY DEF Receiver, Numbered, Serving
<1>2. y \in ReceiverRecord(k)
  <2>1. /\ x \in ReceiverRecord(k) /\ x.request + 1 \in 0 .. MaxRequest
        /\ 0 \in 0 .. MaxAck
    BY <1>1, Constants, Fields
  <2> QED BY <2>1 DEF ReceiverRecord
<1>3. /\ y.phase = "reply" /\ y.session = x.session /\ y.request = 1 /\ y.rates = 0
      /\ y.chal = c
  BY <1>1 DEF Receiver, ReceiverRecord
<1> HIDE DEF y
<1>4. y \in Receiver(k) BY <1>1, <1>2, <1>3 DEF Receiver, Serving, Numbered
<1> QED BY <1>3, <1>4 DEF y, Replying

LEMMA Chirping ==
  ASSUME NEW k \in Nat, NEW x \in Receiver(k), x.phase = "reply"
  PROVE [x EXCEPT !.phase = "chirps", !.request = @ + 1] \in Receiver(k)
<1> DEFINE y == [x EXCEPT !.phase = "chirps", !.request = @ + 1]
<1>1. x.request = 1 /\ x.rates = 0 /\ x.session # 0 BY DEF Receiver, Numbered, Serving
<1>2. y \in ReceiverRecord(k)
  <2>1. x \in ReceiverRecord(k) /\ x.request + 1 \in 0 .. MaxRequest BY <1>1, Constants, Fields
  <2> QED BY <2>1 DEF ReceiverRecord
<1>3. y.phase = "chirps" /\ y.session = x.session /\ y.request = 2 /\ y.rates = 0
  BY <1>1 DEF Receiver, ReceiverRecord
<1> HIDE DEF y
<1>4. y \in Receiver(k) BY <1>1, <1>2, <1>3 DEF Receiver, Serving, Numbered
<1> QED BY <1>4 DEF y

LEMMA Again ==
  ASSUME NEW k \in Nat, NEW x \in Receiver(k), x.acks < MaxAck
  PROVE [x EXCEPT !.acks = @ + 1] \in Receiver(k)
<1> DEFINE y == [x EXCEPT !.acks = @ + 1]
<1>1. y \in ReceiverRecord(k) BY Constants DEF Receiver, ReceiverRecord
<1>2. y.phase = x.phase /\ y.session = x.session /\ y.request = x.request /\ y.rates = x.rates
  BY DEF Receiver, ReceiverRecord
<1> QED BY <1>1, <1>2, SameNumbers

\* The alarms
LEMMA Silent ==
  ASSUME NEW k \in Nat, NEW x \in Receiver(k), x.silent < MaxSilent
  PROVE [x EXCEPT !.silent = @ + 1] \in Receiver(k)
<1> DEFINE y == [x EXCEPT !.silent = @ + 1]
<1>1. y \in ReceiverRecord(k) BY Constants DEF Receiver, ReceiverRecord
<1>2. y.phase = x.phase /\ y.session = x.session /\ y.request = x.request /\ y.rates = x.rates
  BY DEF Receiver, ReceiverRecord
<1> QED BY <1>1, <1>2, SameNumbers

LEMMA Estimated ==
  ASSUME NEW k \in Nat, NEW x \in Receiver(k), x.phase = "chirps", NEW answered \in Int,
         NEW new \in BOOLEAN, new => x.request < MaxRequest, NEW broken \in BOOLEAN
  PROVE [x EXCEPT !.silent = 0, !.window = "none", !.answered = answered,
                  !.rates = IF new THEN @ + 1 ELSE @, !.request = NextRequest(x, new),
                  !.broken = broken] \in Receiver(k)
<1> DEFINE rates == IF new THEN x.rates + 1 ELSE x.rates
           y == [x EXCEPT !.silent = 0, !.window = "none", !.answered = answered,
                          !.rates = rates, !.request = NextRequest(x, new),
                          !.broken = broken]
<1>1. /\ x.request \in 0 .. MaxRequest /\ x.rates \in Nat /\ x.request >= 2
      /\ x.rates = x.request - 2 /\ x.session # 0
  BY Fields DEF Numbered, Serving
<1>2. /\ rates \in Nat /\ NextRequest(x, new) \in 0 .. MaxRequest
      /\ NextRequest(x, new) >= 2 /\ rates = NextRequest(x, new) - 2
  BY <1>1, Constants DEF NextRequest
<1> HIDE DEF rates
<1>3. y \in ReceiverRecord(k)
  <2>1. x \in ReceiverRecord(k) /\ 0 \in 0 .. MaxSilent BY Constants, Fields
  <2> QED BY <1>2, <2>1 DEF ReceiverRecord
<1>4. /\ y.phase = "chirps" /\ y.session = x.session /\ y.request = NextRequest(x, new)
      /\ y.rates = rates
  BY <1>2 DEF Receiver, ReceiverRecord
<1> HIDE DEF y
<1>5. y \in Receiver(k) BY <1>1, <1>2, <1>3, <1>4 DEF Receiver, Serving, Numbered
<1> QED BY <1>5 DEF y, rates

\* The sender
LEMMA Disconnected ==
  ASSUME NEW k \in Nat, NEW x \in Sender(k)
  PROVE [x EXCEPT !.conn = 0, !.chal = @ + 1, !.gap = FALSE, !.request = 0, !.rates = 0]
          \in Sender(k)
<1> DEFINE y == [x EXCEPT !.conn = 0, !.chal = @ + 1, !.gap = FALSE, !.request = 0, !.rates = 0]
<1>1. y \in SenderRecord(k)
  <2>1. x \in SenderRecord(k) /\ x.chal + 1 \in Nat /\ 0 \in Nat /\ 0 \in 0 .. k
    BY DEF Sender, SenderRecord
  <2> QED BY <2>1 DEF SenderRecord
<1>2. y.conn = 0 BY DEF Sender, SenderRecord
<1> QED BY <1>1, <1>2 DEF Sender

LEMMA WaitingSender ==
  ASSUME NEW k \in Nat, NEW c \in Nat
  PROVE Waiting(c) \in Sender(k) /\ [Waiting(c) EXCEPT !.up = FALSE] \in Sender(k)
<1> DEFINE y == Waiting(c)
           z == [y EXCEPT !.up = FALSE]
<1>1. y \in SenderRecord(k) /\ y.conn = 0 BY Constants DEF Waiting, SenderRecord
<1> HIDE DEF y
<1>2. z \in SenderRecord(k) /\ z.conn = 0 BY <1>1 DEF SenderRecord
<1> QED BY <1>1, <1>2 DEF Sender, y

\* Packets and datagrams by their fields
PacketOf(type, n, q, c, rates) ==
  [type |-> type, from |-> n, request |-> q, chal |-> c, rates |-> rates]
DatagramOf(type, np, q, c, rates) ==
  [type |-> type, np |-> np, chal |-> c, request |-> q, rates |-> rates]

LEMMA MakePacket ==
  ASSUME NEW k \in Nat, NEW n \in 1 .. k, NEW q \in Nat, NEW c \in Nat, NEW rates \in Nat,
         NEW type \in {"REQ_CONN", "CHALL_REPLY", "UPDATE_RATES", "RECV_OK", "STOP"},
         type \in {"CHALL_REPLY", "UPDATE_RATES"} => Paired(q, rates)
  PROVE PacketOf(type, n, q, c, rates) \in Packet(k)
BY DEF Packet, PacketRecord, PacketOf

LEMMA MakeDatagram ==
  ASSUME NEW q \in Nat, NEW c \in Nat, NEW rates \in Nat, NEW np \in {0, 1},
         NEW type \in {"challenge", "chirp", "end"}, type = "chirp" => Paired(q, rates)
  PROVE DatagramOf(type, np, q, c, rates) \in Datagram
BY DEF Datagram, DatagramRecord, DatagramOf

\* Another number and another challenge
Changed(m, p, d) == [m EXCEPT !.request = p, !.chal = d]

LEMMA ChangePacket ==
  ASSUME NEW type, NEW n, NEW q, NEW c, NEW rates, NEW p, NEW d
  PROVE Changed(PacketOf(type, n, q, c, rates), p, d) = PacketOf(type, n, p, d, rates)
<1> DEFINE m == PacketOf(type, n, q, c, rates)
<1>1. Changed(m, p, d) = [[m EXCEPT !.request = p] EXCEPT !.chal = d]
  BY Zenon DEF Changed
<1>2. [m EXCEPT !.request = p] = PacketOf(type, n, p, c, rates) BY DEF PacketOf
<1>3. [PacketOf(type, n, p, c, rates) EXCEPT !.chal = d] = PacketOf(type, n, p, d, rates)
  BY DEF PacketOf
<1> QED BY <1>1, <1>2, <1>3

LEMMA PacketFields ==
  ASSUME NEW k \in Nat, NEW m \in Packet(k)
  PROVE /\ m.from \in 1 .. k /\ m.request \in Nat /\ m.chal \in Nat /\ m.rates \in Nat
        /\ m.type \in {"CHALL_REPLY", "UPDATE_RATES"} => Paired(m.request, m.rates)
BY DEF Packet, PacketRecord

LEMMA SenderFields ==
  ASSUME NEW k \in Nat, NEW x \in Sender(k)
  PROVE /\ x \in SenderRecord(k) /\ x.conn \in 0 .. k /\ x.chal \in Nat /\ x.request \in Nat
        /\ x.rates \in Nat /\ x.unheard \in 0 .. MaxOk /\ x.np \in {0, 1}
        /\ x.conn # 0 => Paired(x.request, x.rates)
BY DEF Sender, SenderRecord

\* A sender that is still connected as it was, or not at all
LEMMA SameConnection ==
  ASSUME NEW k \in Nat, NEW x \in Sender(k), NEW y \in SenderRecord(k),
         y.conn = x.conn, y.conn = 0 \/ (y.request = x.request /\ y.rates = x.rates)
  PROVE y \in Sender(k)
BY DEF Sender

\* A sender with the number and the rates of an update
LEMMA NewRates ==
  ASSUME NEW k \in Nat, NEW x \in Sender(k), NEW n \in 0 .. k, NEW q \in Nat, NEW rates \in Nat,
         Paired(q, rates)
  PROVE /\ [x EXCEPT !.request = q, !.rates = rates] \in Sender(k)
        /\ [x EXCEPT !.conn = n, !.request = q, !.rates = rates] \in Sender(k)
<1> DEFINE y == [x EXCEPT !.request = q, !.rates = rates]
           z == [x EXCEPT !.conn = n, !.request = q, !.rates = rates]
<1>1. x \in SenderRecord(k) BY SenderFields
<1>2. y \in SenderRecord(k) /\ z \in SenderRecord(k) BY <1>1 DEF SenderRecord
<1>3. y.request = q /\ y.rates = rates /\ z.request = q /\ z.rates = rates
  BY <1>1 DEF SenderRecord
<1> QED BY <1>2, <1>3 DEF Sender
-----------------------------------------------------------------------------
(* What each step keeps.                                                   *)

\* A step that leaves of alone keeps Inv if each variable keeps its part.
LEMMA Kept ==
  ASSUME Inv, UNCHANGED of,
         master' \subseteq Started, told' \subseteq Started, queued' \subseteq Started,
         rcv' \in [Rcv -> Receiver(Len(of))], snd' \in [Snd -> Sender(Len(of))],
         toSnd' \in [Snd -> Buffer(Packet(Len(of)))],
         toRcv' \in [Session -> Buffer(Datagram)], lost' \in Nat
  PROVE Inv'
BY DEF Inv, Started

LEMMA SessionOf ==
  ASSUME Inv, NEW n \in Started
  PROVE /\ of[n].snd \in Snd /\ of[n].rcv \in Rcv /\ n \in Session /\ n \in Nat \ {0}
        /\ Len(of) \in Nat
<1>1. Len(of) \in Nat /\ Len(of) <= MaxSessions BY LenProperties DEF Inv
<1>2. of[n] \in [snd : Snd, rcv : Rcv] BY ElementOfSeq DEF Inv, Started
<1> QED BY <1>1, <1>2, Constants DEF Started, Session

LEMMA ExitKeeps ==
  ASSUME Inv, NEW r \in Rcv, Exit(r)
  PROVE /\ rcv' \in [Rcv -> Receiver(Len(of))] /\ toRcv' \in [Session -> Buffer(Datagram)]
        /\ queued' \subseteq Started
<1>1. Len(of) \in Nat BY LenProperties DEF Inv
<1>2. 0 \in 0 .. MaxSilent /\ FALSE \in BOOLEAN BY Constants
<1>3. [Idle(0, FALSE) EXCEPT !.phase = "dead"] \in Receiver(Len(of))
  BY <1>1, <1>2, IdleReceiver
<1>4. rcv' \in [Rcv -> Receiver(Len(of))] BY <1>3 DEF Exit, Inv
<1>5. toRcv' \in [Session -> Buffer(Datagram)] BY EmptyBuffer DEF Exit, Inv
<1>6. queued' \subseteq Started BY DEF Exit, Inv
<1> QED BY <1>4, <1>5, <1>6

LEMMA EndSessionKeeps ==
  ASSUME Inv, NEW r \in Rcv, EndSession(r)
  PROVE rcv' \in [Rcv -> Receiver(Len(of))] /\ toRcv' \in [Session -> Buffer(Datagram)]
<1>1. Len(of) \in Nat BY LenProperties DEF Inv
<1>2. rcv[r] \in Receiver(Len(of)) BY DEF Inv
<1>3. rcv[r].silent \in 0 .. MaxSilent BY <1>1, <1>2, Fields
<1>4. Idle(rcv[r].silent, TRUE) \in Receiver(Len(of)) BY <1>1, <1>3, IdleReceiver
<1>5. rcv' \in [Rcv -> Receiver(Len(of))] BY <1>4 DEF EndSession, Inv
<1>6. toRcv' \in [Session -> Buffer(Datagram)] BY EmptyBuffer DEF EndSession, Closing, Inv
<1> QED BY <1>5, <1>6

LEMMA HandshakeKeeps ==
  ASSUME Inv, NEW r \in Rcv, NEW x \in Receiver(Len(of)), NEW s \in Snd,
         NEW m \in Packet(Len(of)), Handshake(r, x, s, m)
  PROVE /\ rcv' \in [Rcv -> Receiver(Len(of))]
        /\ toSnd' \in [Snd -> Buffer(Packet(Len(of)))]
<1>1. Len(of) \in Nat BY LenProperties DEF Inv
<1>2. rcv[r].refused \in BOOLEAN BY <1>1, Fields DEF Inv
<1>3. PICK e \in BOOLEAN : rcv' = [rcv EXCEPT ![r] = [x EXCEPT !.refused = e]]
  BY <1>2 DEF Handshake, Refused
<1>4. [x EXCEPT !.refused = e] \in Receiver(Len(of)) BY <1>1, Refuse
<1>5. rcv' \in [Rcv -> Receiver(Len(of))] BY <1>3, <1>4 DEF Inv
<1>6. CASE UNCHANGED toSnd BY <1>5, <1>6 DEF Inv
<1>7. CASE Len(toSnd[s]) < Cap /\ toSnd' = [toSnd EXCEPT ![s] = Append(@, m)]
  <2>1. toSnd[s] \in Buffer(Packet(Len(of))) BY DEF Inv
  <2>2. Append(toSnd[s], m) \in Buffer(Packet(Len(of))) BY <1>7, <2>1, OneMore
  <2> QED BY <1>5, <1>7, <2>2 DEF Inv
<1> QED BY <1>6, <1>7 DEF Handshake

LEMMA SendAllKeeps ==
  ASSUME Inv, NEW r \in Rcv, rcv[r].session # 0, NEW x \in Receiver(Len(of)),
         NEW stop \in Seq(Packet(Len(of))), NEW ok \in Seq(Packet(Len(of))),
         NEW update \in Seq(Packet(Len(of))), SendAll(r, x, stop, ok, update)
  PROVE /\ rcv' \in [Rcv -> Receiver(Len(of))]
        /\ toSnd' \in [Snd -> Buffer(Packet(Len(of)))]
        /\ toRcv' \in [Session -> Buffer(Datagram)]
        /\ queued' \subseteq Started /\ lost' \in Nat
<1> DEFINE P == Packet(Len(of))
           s == of[rcv[r].session].snd
           ms == stop \o ok \o update
<1>1. Len(of) \in Nat BY LenProperties DEF Inv
<1>2. rcv[r] \in Receiver(Len(of)) BY DEF Inv
<1>3. rcv[r].session \in Started BY <1>1, <1>2, Fields DEF Started
<1>4. s \in Snd BY <1>3, SessionOf
<1>5. CASE Exit(r) /\ UNCHANGED <<toSnd, lost>>
  BY <1>5, ExitKeeps DEF Inv
<1>6. ASSUME NEW a \in {<<>>, stop}, NEW b \in {<<>>, ok}, NEW c \in {<<>>, update},
             lost' = lost + (Len(ms) - Len(a \o b \o c)),
             toSnd' = IF Takes(s, rcv[r].session)
                        THEN [toSnd EXCEPT ![s] = @ \o SubSeq(a \o b \o c, 1,
                                IF Len(a \o b \o c) < Cap - Len(toSnd[s])
                                  THEN Len(a \o b \o c) ELSE Cap - Len(toSnd[s]))]
                        ELSE toSnd,
             NEW e \in BOOLEAN, rcv' = [rcv EXCEPT ![r] = [x EXCEPT !.refused = e]],
             Closing(r, x), UNCHANGED queued
      PROVE /\ rcv' \in [Rcv -> Receiver(Len(of))]
            /\ toSnd' \in [Snd -> Buffer(Packet(Len(of)))]
            /\ toRcv' \in [Session -> Buffer(Datagram)]
            /\ queued' \subseteq Started /\ lost' \in Nat
  <2>1. a \in Seq(P) /\ b \in Seq(P) /\ c \in Seq(P) BY EmptySeq
  <2>2. a \o b \in Seq(P) /\ Len(a \o b) = Len(a) + Len(b) BY <2>1, ConcatProperties
  <2>3. a \o b \o c \in Seq(P) /\ Len(a \o b \o c) = Len(a) + Len(b) + Len(c)
    BY <2>1, <2>2, ConcatProperties
  <2>4. stop \o ok \in Seq(P) /\ Len(stop \o ok) = Len(stop) + Len(ok) BY ConcatProperties
  <2>5. Len(ms) = Len(stop) + Len(ok) + Len(update) BY <2>4, ConcatProperties
  <2>6. /\ Len(a) \in Nat /\ Len(b) \in Nat /\ Len(c) \in Nat
        /\ Len(stop) \in Nat /\ Len(ok) \in Nat /\ Len(update) \in Nat
        /\ Len(a) <= Len(stop) /\ Len(b) <= Len(ok) /\ Len(c) <= Len(update)
    BY <2>1, LenProperties, EmptySeq
  <2>7. Len(ms) - Len(a \o b \o c) \in Nat BY <2>3, <2>5, <2>6
  <2>8. lost' \in Nat
    <3>1. lost \in Nat BY DEF Inv
    <3>2. PICK k \in Nat : k = Len(ms) - Len(a \o b \o c) BY <2>7
    <3>3. lost' = lost + k BY <1>6, <3>2
    <3> HIDE DEF ms
    <3> QED BY <3>1, <3>3, SumIsNat
  <2>9. toSnd' \in [Snd -> Buffer(P)]
    <3>1. toSnd[s] \in Buffer(P) BY <1>4 DEF Inv
    <3>2. toSnd[s] \o SubSeq(a \o b \o c, 1, IF Len(a \o b \o c) < Cap - Len(toSnd[s])
                                  THEN Len(a \o b \o c) ELSE Cap - Len(toSnd[s])) \in Buffer(P)
      BY <2>3, <3>1, AsFits
    <3> HIDE DEF P, s
    <3> QED BY <1>6, <3>2 DEF Inv, P
  <2>10. rcv' \in [Rcv -> Receiver(Len(of))]
    <3>1. [x EXCEPT !.refused = e] \in Receiver(Len(of)) BY <1>1, Refuse
    <3> QED BY <1>6, <3>1 DEF Inv
  <2>11. toRcv' \in [Session -> Buffer(Datagram)] BY <1>6, EmptyBuffer DEF Closing, Inv
  <2> QED BY <1>6, <2>8, <2>9, <2>10, <2>11 DEF Inv
<1>7. x.refused \in BOOLEAN /\ Refused(r, s) \subseteq BOOLEAN
  BY <1>1, <1>2, Fields DEF Refused
<1> QED BY <1>5, <1>6, <1>7, ZenonT(60) DEF SendAll

\* A datagram for the socket of a session
LEMMA SendToKeeps ==
  ASSUME Inv, NEW n \in Session, NEW m \in Datagram, SendTo(n, m)
  PROVE toRcv' \in [Session -> Buffer(Datagram)]
<1>1. CASE UNCHANGED toRcv BY <1>1 DEF Inv
<1>2. CASE Len(toRcv[n]) < Cap /\ toRcv' = [toRcv EXCEPT ![n] = Append(@, m)]
  <2>1. toRcv[n] \in Buffer(Datagram) BY DEF Inv
  <2>2. Append(toRcv[n], m) \in Buffer(Datagram) BY <1>2, <2>1, OneMore
  <2> QED BY <1>2, <2>2 DEF Inv
<1> QED BY <1>1, <1>2 DEF SendTo

LEMMA UnconnectKeeps ==
  ASSUME Inv, NEW s \in Snd, NEW x \in Sender(Len(of)), NEW q \in Buffer(Packet(Len(of))),
         Unconnect(s, x, q)
  PROVE /\ snd' \in [Snd -> Sender(Len(of))]
        /\ toSnd' \in [Snd -> Buffer(Packet(Len(of)))]
<1>1. Len(of) \in Nat BY LenProperties DEF Inv
<1>2. [x EXCEPT !.conn = 0, !.chal = @ + 1, !.gap = FALSE, !.request = 0, !.rates = 0]
        \in Sender(Len(of))
  BY <1>1, Disconnected
<1>3. snd' \in [Snd -> Sender(Len(of))] BY <1>2 DEF Unconnect, Inv
<1>4. toSnd' \in [Snd -> Buffer(Packet(Len(of)))] BY EmptyBuffer DEF Unconnect, Inv
<1> QED BY <1>3, <1>4

LEMMA HeardKeeps ==
  ASSUME Inv, NEW s \in Snd, NEW x \in Sender(Len(of)), NEW q \in Buffer(Packet(Len(of))),
         Heard(s, x, q)
  PROVE /\ snd' \in [Snd -> Sender(Len(of))]
        /\ toSnd' \in [Snd -> Buffer(Packet(Len(of)))]
<1>1. Len(of) \in Nat BY LenProperties DEF Inv
<1>2. x \in SenderRecord(Len(of)) /\ x.unheard \in 0 .. MaxOk BY <1>1, SenderFields
<1>3. CASE x.unheard + 1 > MaxOk
  <2> DEFINE y == [x EXCEPT !.unheard = 0]
  <2>1. 0 \in 0 .. MaxOk BY Constants
  <2>2. y \in SenderRecord(Len(of)) BY <1>2, <2>1 DEF SenderRecord
  <2>3. y.conn = x.conn /\ y.request = x.request /\ y.rates = x.rates
    BY <1>2 DEF SenderRecord
  <2>4. y \in Sender(Len(of)) BY <1>1, <2>2, <2>3, SameConnection
  <2>5. Unconnect(s, y, q) BY <1>3 DEF Heard
  <2> QED BY <2>4, <2>5, UnconnectKeeps
<1>4. CASE ~(x.unheard + 1 > MaxOk)
  <2> DEFINE y == [x EXCEPT !.unheard = @ + 1, !.gap = FALSE]
  <2>1. x.unheard + 1 \in 0 .. MaxOk BY <1>2, <1>4, Constants
  <2>2. y \in SenderRecord(Len(of)) BY <1>2, <2>1 DEF SenderRecord
  <2>3. y.conn = x.conn /\ y.request = x.request /\ y.rates = x.rates
    BY <1>2 DEF SenderRecord
  <2>4. y \in Sender(Len(of)) BY <1>1, <2>2, <2>3, SameConnection
  <2>5. snd' = [snd EXCEPT ![s] = y] /\ toSnd' = [toSnd EXCEPT ![s] = q]
    BY <1>4 DEF Heard
  <2> QED BY <2>4, <2>5 DEF Inv
<1> QED BY <1>3, <1>4
-----------------------------------------------------------------------------
(* The steps of the three processes.                                       *)

LEMMA MasterKeeps ==
  ASSUME Inv,
         \/ \E s \in Snd, r \in Rcv : Start(s, r)
         \/ \E n \in Session : MasterStep(n) \/ (n \in Started /\ KillMaster(n))
  PROVE Inv'
<1>1. ASSUME NEW s \in Snd, NEW r \in Rcv, Start(s, r) PROVE Inv'
  <2> DEFINE k == Len(of)
  <2>1. k \in Nat /\ k < MaxSessions /\ of' = Append(of, [snd |-> s, rcv |-> r])
    BY <1>1, LenProperties DEF Start, Inv
  <2>2. of' \in Seq([snd : Snd, rcv : Rcv]) /\ Len(of') = k + 1
    BY <2>1, AppendProperties DEF Inv
  <2>3. Receiver(k) \subseteq Receiver(k + 1)
    <3>1. ReceiverRecord(k) \subseteq ReceiverRecord(k + 1)
      <4>1. 0 .. k \subseteq 0 .. k + 1 BY <2>1
      <4> QED BY <4>1 DEF ReceiverRecord
    <3> QED BY <3>1 DEF Receiver
  <2>4. Sender(k) \subseteq Sender(k + 1)
    <3>1. SenderRecord(k) \subseteq SenderRecord(k + 1)
      <4>1. 0 .. k \subseteq 0 .. k + 1 BY <2>1
      <4> QED BY <4>1 DEF SenderRecord
    <3> QED BY <3>1 DEF Sender
  <2>5. Packet(k) \subseteq Packet(k + 1)
    <3>1. PacketRecord(k) \subseteq PacketRecord(k + 1)
      <4>1. 1 .. k \subseteq 1 .. k + 1 BY <2>1
      <4> QED BY <4>1 DEF PacketRecord
    <3> QED BY <3>1 DEF Packet
  <2>6. Buffer(Packet(k)) \subseteq Buffer(Packet(k + 1)) BY <2>5 DEF Buffer
  <2>7. Started \subseteq Started' /\ k + 1 \in Started' BY <2>1, <2>2 DEF Started
  <2>8. UNCHANGED <<told, rcv, snd, toSnd, toRcv, lost>>
        /\ master' = master \cup {k + 1} /\ queued' = queued \cup {k + 1}
    BY <1>1 DEF Start
  <2>9. rcv' \in [Rcv -> Receiver(k + 1)] BY <2>3, <2>8 DEF Inv
  <2>10. snd' \in [Snd -> Sender(k + 1)] BY <2>4, <2>8 DEF Inv
  <2>11. toSnd' \in [Snd -> Buffer(Packet(k + 1))] BY <2>6, <2>8 DEF Inv
  <2>12. master' \subseteq Started' /\ told' \subseteq Started' /\ queued' \subseteq Started'
    BY <2>7, <2>8 DEF Inv
  <2>13. Len(of') <= MaxSessions BY <2>1, <2>2, Constants
  <2> HIDE DEF k
  <2> QED BY <2>2, <2>8, <2>9, <2>10, <2>11, <2>12, <2>13 DEF Inv
<1>2. ASSUME NEW n \in Started, Tell(n) \/ Finish(n) \/ KillMaster(n) PROVE Inv'
  <2>1. /\ master' \subseteq Started /\ told' \subseteq Started
        /\ UNCHANGED <<of, queued, rcv, snd, toSnd, toRcv, lost>>
    BY <1>2 DEF Tell, Finish, KillMaster, Inv
  <2> QED BY <2>1, Kept DEF Inv
<1> QED BY <1>1, <1>2 DEF MasterStep

\* A receiver that serves a session, and its sender
LEMMA ServingReceiver ==
  ASSUME Inv, NEW r \in Rcv, rcv[r].phase \in {"request", "reply", "chirps"}
  PROVE /\ Len(of) \in Nat /\ rcv[r] \in Receiver(Len(of)) /\ rcv[r].session \in Started
        /\ rcv[r].session # 0 /\ rcv[r].session \in Session /\ of[rcv[r].session].snd \in Snd
<1>1. Len(of) \in Nat /\ rcv[r] \in Receiver(Len(of)) BY LenProperties DEF Inv
<1>2. rcv[r].session # 0 /\ rcv[r].session \in 0 .. Len(of) BY <1>1, Fields DEF Serving
<1>3. rcv[r].session \in Started BY <1>1, <1>2 DEF Started
<1> QED BY <1>1, <1>2, <1>3, SessionOf

LEMMA HandshakeSteps ==
  ASSUME Inv, NEW r \in Rcv, Accept(r) \/ Challenge(r) \/ ChirpsStart(r) \/ Repeat(r) \/ ReadFails(r)
  PROVE Inv'
<1> DEFINE k == Len(of)
           x == rcv[r]
<1>1. k \in Nat /\ x \in Receiver(k) BY LenProperties DEF Inv
<1>2. CASE Accept(r)
  <2>1. PICK n \in queued :
          /\ x.phase = "listen"
          /\ \/ /\ queued' = queued \ {n} /\ UNCHANGED toRcv
                /\ Handshake(r, [x EXCEPT !.phase = "request", !.session = n], of[n].snd,
                             [Control(r, "REQ_CONN") EXCEPT !.from = n])
             \/ Exit(r) /\ UNCHANGED toSnd
             \/ queued' = queued \ {n} /\ UNCHANGED <<rcv, toSnd, toRcv>>
    BY <1>2 DEF Accept
  <2>2. n \in Started /\ n \in 1 .. k /\ of[n].snd \in Snd BY SessionOf DEF Inv, Started
  <2>3. UNCHANGED <<of, master, told, snd, lost, kills>> BY <1>2 DEF Accept
  <2>4. CASE /\ queued' = queued \ {n} /\ UNCHANGED toRcv
             /\ Handshake(r, [x EXCEPT !.phase = "request", !.session = n], of[n].snd,
                          [Control(r, "REQ_CONN") EXCEPT !.from = n])
    <3>1. [x EXCEPT !.phase = "request", !.session = n] \in Receiver(k)
      BY <1>1, <2>1, <2>2, Begun
    <3>2. [Control(r, "REQ_CONN") EXCEPT !.from = n]
            = PacketOf("REQ_CONN", n, x.request, x.chal, x.rates)
      BY DEF Control, PacketOf
    <3>3. x.request \in Nat /\ x.chal \in Nat /\ x.rates \in Nat BY <1>1, Fields, Constants
    <3>4. [Control(r, "REQ_CONN") EXCEPT !.from = n] \in Packet(k)
      <4>1. "REQ_CONN" \in {"REQ_CONN", "CHALL_REPLY", "UPDATE_RATES", "RECV_OK", "STOP"}
            /\ "REQ_CONN" \notin {"CHALL_REPLY", "UPDATE_RATES"}
        OBVIOUS
      <4> HIDE DEF k, x
      <4> QED BY <1>1, <2>2, <3>2, <3>3, <4>1, MakePacket
    <3>5. rcv' \in [Rcv -> Receiver(k)] /\ toSnd' \in [Snd -> Buffer(Packet(k))]
      BY <2>2, <2>4, <3>1, <3>4, HandshakeKeeps
    <3> QED BY <2>3, <2>4, <3>5, Kept DEF Inv
  <2>5. CASE Exit(r) /\ UNCHANGED toSnd BY <2>3, <2>5, ExitKeeps, Kept DEF Inv
  <2>6. CASE queued' = queued \ {n} /\ UNCHANGED <<rcv, toSnd, toRcv>>
    BY <2>3, <2>6, Kept DEF Inv
  <2> QED BY <2>1, <2>4, <2>5, <2>6
<1>3. CASE Challenge(r)
  <2> DEFINE n == x.session
             c == Head(toRcv[n]).chal
             y == Replying(x, c)
             m == [Control(r, "CHALL_REPLY") EXCEPT !.request = y.request, !.chal = y.chal]
  <2>1. /\ x.phase = "request" /\ toRcv[n] # <<>> /\ toRcv' = [toRcv EXCEPT ![n] = Tail(@)]
        /\ Handshake(r, y, of[n].snd, m)
        /\ UNCHANGED <<of, master, told, queued, snd, lost, kills>>
    BY <1>3 DEF Challenge, Replying
  <2>2. n \in Session /\ n \in 1 .. k /\ of[n].snd \in Snd
    BY <2>1, ServingReceiver DEF Started
  <2>3. toRcv[n] \in Buffer(Datagram) BY <2>2 DEF Inv
  <2>4. Head(toRcv[n]) \in Datagram /\ Tail(toRcv[n]) \in Buffer(Datagram)
    BY <2>1, <2>3, FirstOf
  <2>5. c \in Nat BY <2>4 DEF Datagram, DatagramRecord
  <2>6. y \in Receiver(k) /\ y.request = 1 /\ y.chal = c
    <3> HIDE DEF c, k, x
    <3> QED BY <1>1, <2>1, <2>5, Challenged
  <2>7. x.rates = 0 BY <1>1, <2>1, Fields DEF Numbered
  <2>8. m = PacketOf("CHALL_REPLY", n, 1, c, 0)
    <3>1. Control(r, "CHALL_REPLY") = PacketOf("CHALL_REPLY", n, x.request, x.chal, x.rates)
      BY DEF Control, PacketOf
    <3> HIDE DEF y, c, x, n
    <3>2. m = PacketOf("CHALL_REPLY", n, y.request, y.chal, x.rates)
      <4>1. m = Changed(Control(r, "CHALL_REPLY"), y.request, y.chal) BY Zenon DEF Changed
      <4> HIDE DEF m
      <4> QED BY <3>1, <4>1, ChangePacket
    <3> QED BY <2>6, <2>7, <3>2
  <2>9. m \in Packet(k)
    <3>1. Paired(1, 0) BY DEF Paired
    <3> HIDE DEF m, c
    <3> QED BY <1>1, <2>2, <2>5, <2>8, <3>1, MakePacket
  <2> HIDE DEF y, m
  <2>10. rcv' \in [Rcv -> Receiver(k)] /\ toSnd' \in [Snd -> Buffer(Packet(k))]
    BY <2>1, <2>2, <2>6, <2>9, HandshakeKeeps
  <2>11. toRcv' \in [Session -> Buffer(Datagram)] BY <2>1, <2>4 DEF Inv
  <2> QED BY <2>1, <2>10, <2>11, Kept DEF Inv
<1>4. CASE ChirpsStart(r)
  <2>1. /\ x.phase = "reply"
        /\ rcv' = [rcv EXCEPT ![r].phase = "chirps", ![r].request = @ + 1]
        /\ UNCHANGED <<of, master, told, queued, snd, toSnd, toRcv, lost, kills>>
    BY <1>4 DEF ChirpsStart
  <2>2. [x EXCEPT !.phase = "chirps", !.request = @ + 1] \in Receiver(k) BY <1>1, <2>1, Chirping
  <2>3. rcv' = [rcv EXCEPT ![r] = [x EXCEPT !.phase = "chirps", !.request = @ + 1]]
    BY <1>1, <2>1 DEF Inv, Receiver, ReceiverRecord
  <2>4. rcv' \in [Rcv -> Receiver(k)] BY <2>2, <2>3 DEF Inv
  <2> QED BY <2>1, <2>4, Kept DEF Inv
<1>5. CASE Repeat(r)
  <2> DEFINE n == x.session
  <2>1. /\ x.phase \in {"request", "reply"}
        /\ \/ x.acks < MaxAck
              /\ Handshake(r, [x EXCEPT !.acks = @ + 1], of[n].snd, Unanswered(r))
           \/ Handshake(r, Idle(x.silent, TRUE), of[n].snd, Unanswered(r))
        /\ UNCHANGED <<of, master, told, queued, snd, toRcv, lost, kills>>
    BY <1>5 DEF Repeat
  <2>2. n \in 1 .. k /\ of[n].snd \in Snd BY <2>1, ServingReceiver DEF Started
  <2>3. Unanswered(r) \in Packet(k)
    <3>1. PICK type \in {"REQ_CONN", "CHALL_REPLY"} :
            /\ type = "CHALL_REPLY" => x.phase = "reply"
            /\ Unanswered(r) = PacketOf(type, n, x.request, x.chal, x.rates)
      BY <2>1 DEF Unanswered, Control, PacketOf
    <3>2. x.request \in Nat /\ x.chal \in Nat /\ x.rates \in Nat BY <1>1, Fields, Constants
    <3>3. type = "CHALL_REPLY" => Paired(x.request, x.rates)
      BY <1>1, <3>1, Fields DEF Numbered, Paired
    <3>4. type \in {"REQ_CONN", "CHALL_REPLY", "UPDATE_RATES", "RECV_OK", "STOP"}
          /\ (type \in {"CHALL_REPLY", "UPDATE_RATES"} => Paired(x.request, x.rates))
      BY <3>3
    <3> HIDE DEF k, x, n
    <3> QED BY <1>1, <2>2, <3>1, <3>2, <3>4, MakePacket
  <2>4. x.acks < MaxAck => [x EXCEPT !.acks = @ + 1] \in Receiver(k) BY <1>1, Again
  <2>5. Idle(x.silent, TRUE) \in Receiver(k) BY <1>1, Fields, IdleReceiver
  <2>6. rcv' \in [Rcv -> Receiver(k)] /\ toSnd' \in [Snd -> Buffer(Packet(k))]
    BY <2>1, <2>2, <2>3, <2>4, <2>5, HandshakeKeeps
  <2> QED BY <2>1, <2>6, Kept DEF Inv
<1>6. CASE ReadFails(r)
  BY <1>6, EndSessionKeeps, Kept DEF ReadFails, Inv
<1> QED BY <1>2, <1>3, <1>4, <1>5, <1>6

LEMMA ChirpSteps ==
  ASSUME Inv, NEW r \in Rcv, Receive(r) \/ Expire(r) \/ Alarm(r) PROVE Inv'
<1> DEFINE k == Len(of)
           x == rcv[r]
           n == x.session
           P == Packet(k)
<1>1. x.phase = "chirps" BY DEF Receive, Expire, Alarm
<1>2. /\ k \in Nat /\ x \in Receiver(k) /\ n # 0 /\ n \in Session /\ n \in 1 .. k
      /\ of[n].snd \in Snd
  BY <1>1, ServingReceiver DEF Started
<1>3. /\ x.request \in Nat /\ x.request >= 2 /\ x.request <= MaxRequest /\ x.rates = x.request - 2
      /\ x.chal \in Nat /\ x.rates \in Nat /\ x.silent \in 0 .. MaxSilent
      /\ x \in ReceiverRecord(k) /\ x.answered \in Int /\ x.broken \in BOOLEAN
      /\ x.window \in {"none", "one", "many"}
  BY <1>1, <1>2, Fields, Constants DEF Numbered
<1>4. CASE Receive(r)
  <2>1. UNCHANGED <<of, master, told, snd, toSnd, lost, kills>> /\ toRcv[n] # <<>>
    BY <1>4 DEF Receive
  <2>2. CASE EndSession(r) /\ UNCHANGED queued BY <2>1, <2>2, EndSessionKeeps, Kept DEF Inv
  <2>3. CASE Exit(r) BY <2>1, <2>3, ExitKeeps, Kept DEF Inv
  <2>4. CASE /\ toRcv' = [toRcv EXCEPT ![n] = Tail(@)] /\ UNCHANGED queued
             /\ \E w \in update_info(x, Head(toRcv[n])) : rcv' = [rcv EXCEPT ![r].window = w]
    <3>1. PICK w \in {"none", "one", "many"} : rcv' = [rcv EXCEPT ![r].window = w]
      BY <1>3, <2>4 DEF update_info
    <3> DEFINE y == [x EXCEPT !.window = w]
    <3>2. y \in ReceiverRecord(k) BY <1>3 DEF ReceiverRecord
    <3>3. y.phase = x.phase /\ y.session = x.session /\ y.request = x.request /\ y.rates = x.rates
      BY <1>3 DEF ReceiverRecord
    <3>4. y \in Receiver(k) BY <1>2, <3>2, <3>3, SameNumbers
    <3>5. rcv' \in [Rcv -> Receiver(k)] BY <3>1, <3>4 DEF Inv
    <3>6. toRcv[n] \in Buffer(Datagram) BY <1>2 DEF Inv
    <3>7. Tail(toRcv[n]) \in Buffer(Datagram) BY <2>1, <3>6, FirstOf
    <3>8. toRcv' \in [Session -> Buffer(Datagram)] BY <2>4, <3>7 DEF Inv
    <3> QED BY <2>1, <2>4, <3>5, <3>8, Kept DEF Inv
  <2> QED BY <1>4, <2>2, <2>3, <2>4 DEF Receive
<1>5. CASE Expire(r)
  <2> DEFINE y == [x EXCEPT !.expired = TRUE]
  <2>1. /\ rcv' = [rcv EXCEPT ![r].expired = TRUE]
        /\ UNCHANGED <<of, master, told, queued, snd, toSnd, toRcv, lost, kills>>
    BY <1>5 DEF Expire
  <2>2. y \in ReceiverRecord(k) BY <1>3 DEF ReceiverRecord
  <2>3. y.phase = x.phase /\ y.session = x.session /\ y.request = x.request /\ y.rates = x.rates
    BY <1>3 DEF ReceiverRecord
  <2>4. y \in Receiver(k) BY <1>2, <2>2, <2>3, SameNumbers
  <2>5. rcv' \in [Rcv -> Receiver(k)] BY <2>1, <2>4 DEF Inv
  <2> QED BY <2>1, <2>5, Kept DEF Inv
<1>6. CASE Alarm(r)
  <2>1. UNCHANGED <<of, master, told, snd, kills>> BY <1>6 DEF Alarm
  <2>2. \A m \in P : <<m>> \in Seq(P) BY Z3
  <2>3. <<>> \in Seq(P) BY EmptySeq
  <2>4. ASSUME NEW type \in {"STOP", "RECV_OK"} PROVE Signal(r, type) \in P
    <3>1. Signal(r, type) = PacketOf(type, n, 0, 0, 0) BY DEF Signal, PacketOf
    <3>2. type \in {"REQ_CONN", "CHALL_REPLY", "UPDATE_RATES", "RECV_OK", "STOP"}
          /\ type \notin {"CHALL_REPLY", "UPDATE_RATES"}
      OBVIOUS
    <3>3. 0 \in Nat OBVIOUS
    <3> HIDE DEF k, n
    <3> QED BY <1>2, <3>1, <3>2, <3>3, MakePacket
  <2>5. Stop(r) \in Seq(P)
    <3> HIDE DEF P
    <3> QED BY <2>2, <2>3, <2>4 DEF Stop
  <2>6. ASSUME NEW y \in Receiver(k), NEW ok \in Seq(P), NEW update \in Seq(P),
               SendAll(r, y, Stop(r), ok, update)
        PROVE Inv'
    <3>1. /\ rcv' \in [Rcv -> Receiver(k)] /\ toSnd' \in [Snd -> Buffer(P)]
          /\ toRcv' \in [Session -> Buffer(Datagram)]
          /\ queued' \subseteq Started /\ lost' \in Nat
      BY <1>2, <2>5, <2>6, SendAllKeeps
    <3> QED BY <2>1, <3>1, Kept DEF Inv
  <2>7. CASE Stats(r)
    <3> DEFINE answered == check_reorder_loss(x)
               again == answered < x.request - 1
    <3>1. PICK ok \in BOOLEAN, new \in BOOLEAN, estimate \in BOOLEAN :
            /\ new => check_for_new_pars(x, again)
            /\ SendAll(r,
                 [x EXCEPT !.silent = 0, !.window = "none", !.answered = answered,
                           !.rates = IF new THEN @ + 1 ELSE @,
                           !.request = NextRequest(x, new),
                           !.broken = write_instant_bw(x, estimate)],
                 Stop(r),
                 IF ok THEN <<Signal(r, "RECV_OK")>> ELSE <<>>,
                 IF again \/ new
                   THEN <<[Control(r, "UPDATE_RATES") EXCEPT
                             !.rates = IF new THEN x.rates + 1 ELSE x.rates]>>
                   ELSE <<>>)
      BY <2>7 DEF Stats
    <3>2. answered \in Int BY <1>3 DEF check_reorder_loss
    <3>3. write_instant_bw(x, estimate) \in BOOLEAN BY DEF write_instant_bw
    <3>4. new => x.request < MaxRequest BY <3>1 DEF check_for_new_pars
    <3>5. [x EXCEPT !.silent = 0, !.window = "none", !.answered = answered,
                    !.rates = IF new THEN @ + 1 ELSE @,
                    !.request = NextRequest(x, new),
                    !.broken = write_instant_bw(x, estimate)] \in Receiver(k)
      <4> HIDE DEF answered, k, x
      <4> QED BY <1>1, <1>2, <3>2, <3>3, <3>4, Estimated
    <3>6. (IF ok THEN <<Signal(r, "RECV_OK")>> ELSE <<>>) \in Seq(P)
      <4> HIDE DEF P
      <4> QED BY <2>2, <2>3, <2>4
    <3> DEFINE rates == IF new THEN x.rates + 1 ELSE x.rates
               m == [Control(r, "UPDATE_RATES") EXCEPT !.rates = rates]
    <3>7. m \in P
      <4>1. m = PacketOf("UPDATE_RATES", n, x.request, x.chal, rates) BY DEF Control, PacketOf
      <4>2. rates \in Nat /\ Paired(x.request, rates) BY <1>3 DEF Paired
      <4>3. "UPDATE_RATES" \in {"REQ_CONN", "CHALL_REPLY", "UPDATE_RATES", "RECV_OK", "STOP"}
        OBVIOUS
      <4> HIDE DEF m, rates, k, x, n
      <4> QED BY <1>2, <1>3, <4>1, <4>2, <4>3, MakePacket
    <3>8. (IF again \/ new THEN <<m>> ELSE <<>>) \in Seq(P)
      <4> HIDE DEF P, m, again
      <4> QED BY <2>2, <2>3, <3>7
    <3> HIDE DEF P, k, again, answered
    <3> QED BY <2>6, <3>1, <3>5, <3>6, <3>8
  <2>8. CASE SendAll(r, IF x.silent >= MaxSilent THEN Idle(x.silent, TRUE)
                                                 ELSE [x EXCEPT !.silent = @ + 1],
                     Stop(r), <<>>, <<>>)
    <3>1. Idle(x.silent, TRUE) \in Receiver(k) BY <1>2, <1>3, IdleReceiver
    <3>2. ~(x.silent >= MaxSilent) => [x EXCEPT !.silent = @ + 1] \in Receiver(k)
      <4>1. ~(x.silent >= MaxSilent) => x.silent < MaxSilent BY <1>3, Constants
      <4> HIDE DEF x, k
      <4> QED BY <1>2, <4>1, Silent
    <3> QED BY <2>3, <2>6, <2>8, <3>1, <3>2
  <2> QED BY <1>6, <2>7, <2>8 DEF Alarm
<1> QED BY <1>4, <1>5, <1>6

LEMMA SenderKeeps ==
  ASSUME Inv, NEW s \in Snd, SenderStep(s) \/ KillSender(s) \/ StartSender(s) PROVE Inv'
<1> DEFINE k == Len(of)
           x == snd[s]
           q == toSnd[s]
           m == Head(q)
<1>1. k \in Nat /\ x \in Sender(k) /\ q \in Buffer(Packet(k)) BY LenProperties DEF Inv
<1>2. /\ x \in SenderRecord(k) /\ x.conn \in 0 .. k /\ x.chal \in Nat /\ x.request \in Nat
      /\ x.rates \in Nat /\ x.unheard \in 0 .. MaxOk /\ x.np \in {0, 1}
      /\ x.conn # 0 => Paired(x.request, x.rates)
  BY <1>1, SenderFields
<1>3. q # <<>> => m \in Packet(k) /\ Tail(q) \in Buffer(Packet(k)) BY <1>1, FirstOf
<1>4. \A n \in 1 .. k : n \in Session BY SessionOf DEF Started
<1>5. CASE FirstPacket(s)
  <2> DEFINE y == [x EXCEPT !.primed = TRUE, !.chal = @ + 1]
  <2>1. /\ q # <<>> /\ toSnd' = [toSnd EXCEPT ![s] = Tail(@)]
        /\ snd' = [snd EXCEPT ![s].primed = TRUE, ![s].chal = @ + 1]
        /\ UNCHANGED <<of, master, told, queued, rcv, toRcv, lost, kills>>
    BY <1>5 DEF FirstPacket
  <2>2. x.chal + 1 \in Nat BY <1>2
  <2>3. y \in SenderRecord(k) BY <1>2, <2>2 DEF SenderRecord
  <2>4. y.conn = x.conn /\ y.request = x.request /\ y.rates = x.rates BY <1>2 DEF SenderRecord
  <2>5. y \in Sender(k) BY <1>1, <2>3, <2>4, SameConnection
  <2>6. snd' = [snd EXCEPT ![s] = y] BY <1>2, <2>1 DEF SenderRecord, Inv
  <2>7. snd' \in [Snd -> Sender(k)] BY <2>5, <2>6 DEF Inv
  <2>8. toSnd' \in [Snd -> Buffer(Packet(k))] BY <1>3, <2>1 DEF Inv
  <2> QED BY <2>1, <2>7, <2>8, Kept DEF Inv
<1>6. CASE Request(s)
  <2>1. /\ x.conn = 0 /\ q # <<>> /\ toSnd' = [toSnd EXCEPT ![s] = Tail(@)]
        /\ UNCHANGED <<of, master, told, queued, rcv, lost, kills>>
    BY <1>6 DEF Request
  <2>2. /\ m.from \in 1 .. k /\ m.request \in Nat /\ m.chal \in Nat /\ m.rates \in Nat
        /\ m.type \in {"CHALL_REPLY", "UPDATE_RATES"} => Paired(m.request, m.rates)
    BY <1>1, <1>3, <2>1, PacketFields
  <2>3. toSnd' \in [Snd -> Buffer(Packet(k))] BY <1>3, <2>1 DEF Inv
  <2>4. CASE /\ snd' = [snd EXCEPT ![s].request = m.request]
             /\ SendTo(m.from, [type |-> "challenge", np |-> x.np, chal |-> x.chal,
                                request |-> m.request, rates |-> m.rates])
    <3> DEFINE y == [x EXCEPT !.request = m.request]
    <3>1. y \in SenderRecord(k) BY <1>2, <2>2 DEF SenderRecord
    <3>2. y.conn = x.conn BY <1>2 DEF SenderRecord
    <3>3. y \in Sender(k) BY <1>1, <2>1, <3>1, <3>2, SameConnection
    <3>4. snd' \in [Snd -> Sender(k)] BY <2>4, <3>3 DEF Inv
    <3>5. DatagramOf("challenge", x.np, m.request, x.chal, m.rates) \in Datagram
      <4>1. "challenge" \in {"challenge", "chirp", "end"} /\ "challenge" # "chirp" OBVIOUS
      <4> HIDE DEF x, m
      <4> QED BY <1>2, <2>2, <4>1, MakeDatagram
    <3>6. toRcv' \in [Session -> Buffer(Datagram)]
      BY <1>4, <2>2, <2>4, <3>5, SendToKeeps DEF DatagramOf
    <3> QED BY <2>1, <2>3, <3>4, <3>6, Kept DEF Inv
  <2>5. CASE /\ m.type = "CHALL_REPLY"
             /\ snd' = [snd EXCEPT ![s].conn = m.from, ![s].request = m.request,
                                   ![s].rates = m.rates]
             /\ UNCHANGED toRcv
    <3> DEFINE y == [x EXCEPT !.conn = m.from, !.request = m.request, !.rates = m.rates]
    <3>1. y \in Sender(k)
      <4>1. m.from \in 0 .. k /\ Paired(m.request, m.rates) BY <2>2, <2>5
      <4> HIDE DEF m, x, k
      <4> QED BY <1>1, <2>2, <4>1, NewRates
    <3>2. snd' = [snd EXCEPT ![s] = y] BY <1>2, <2>5 DEF SenderRecord, Inv
    <3>3. snd' \in [Snd -> Sender(k)] BY <3>1, <3>2 DEF Inv
    <3> QED BY <2>1, <2>3, <2>5, <3>3, Kept DEF Inv
  <2>6. CASE UNCHANGED <<snd, toRcv>> BY <2>1, <2>3, <2>6, Kept DEF Inv
  <2> QED BY <1>6, <2>4, <2>5, <2>6 DEF Request
<1>7. CASE Chirp(s)
  <2>1. x.conn # 0 /\ UNCHANGED <<of, master, told, queued, rcv, lost, kills>>
    BY <1>7 DEF Chirp
  <2>2. x.conn \in Session BY <1>2, <1>4, <2>1
  <2>3. CASE /\ SendTo(x.conn, [type |-> "chirp", np |-> 1, chal |-> x.chal,
                                request |-> x.request, rates |-> x.rates])
             /\ snd' = [snd EXCEPT ![s].gap = TRUE, ![s].np = 1] /\ UNCHANGED toSnd
    <3> DEFINE y == [x EXCEPT !.gap = TRUE, !.np = 1]
    <3>1. y \in SenderRecord(k) BY <1>2 DEF SenderRecord
    <3>2. y.conn = x.conn /\ y.request = x.request /\ y.rates = x.rates BY <1>2 DEF SenderRecord
    <3>3. y \in Sender(k) BY <1>1, <3>1, <3>2, SameConnection
    <3>4. snd' = [snd EXCEPT ![s] = y] BY <1>2, <2>3 DEF SenderRecord, Inv
    <3>5. snd' \in [Snd -> Sender(k)] BY <3>3, <3>4 DEF Inv
    <3>6. DatagramOf("chirp", 1, x.request, x.chal, x.rates) \in Datagram
      <4>1. "chirp" \in {"challenge", "chirp", "end"} /\ 1 \in {0, 1} OBVIOUS
      <4> HIDE DEF x
      <4> QED BY <1>2, <2>1, <4>1, MakeDatagram
    <3>7. toRcv' \in [Session -> Buffer(Datagram)]
      BY <2>2, <2>3, <3>6, SendToKeeps DEF DatagramOf
    <3> QED BY <2>1, <2>3, <3>5, <3>7, Kept DEF Inv
  <2>4. CASE Unconnect(s, [x EXCEPT !.np = 1], q) /\ UNCHANGED toRcv
    <3> DEFINE y == [x EXCEPT !.np = 1]
    <3>1. y \in SenderRecord(k) BY <1>2 DEF SenderRecord
    <3>2. y.conn = x.conn /\ y.request = x.request /\ y.rates = x.rates BY <1>2 DEF SenderRecord
    <3>3. y \in Sender(k) BY <1>1, <3>1, <3>2, SameConnection
    <3> HIDE DEF y
    <3>4. snd' \in [Snd -> Sender(k)] /\ toSnd' \in [Snd -> Buffer(Packet(k))]
      BY <1>1, <2>4, <3>3, UnconnectKeeps DEF y
    <3> QED BY <2>1, <2>4, <3>4, Kept DEF Inv
  <2> QED BY <1>7, <2>3, <2>4 DEF Chirp
<1>8. CASE Gap(s)
  <2>1. /\ Heard(s, x, <<>>)
        /\ UNCHANGED <<of, master, told, queued, rcv, toRcv, lost, kills>>
    BY <1>8 DEF Gap
  <2>2. snd' \in [Snd -> Sender(k)] /\ toSnd' \in [Snd -> Buffer(Packet(k))]
    BY <1>1, <2>1, EmptyBuffer, HeardKeeps
  <2> QED BY <2>1, <2>2, Kept DEF Inv
<1>9. CASE GapRequest(s)
  <2>1. /\ x.conn # 0 /\ q # <<>>
        /\ UNCHANGED <<of, master, told, queued, rcv, lost, kills>>
    BY <1>9 DEF GapRequest
  <2>2. /\ m.request \in Nat /\ m.rates \in Nat
        /\ m.type \in {"CHALL_REPLY", "UPDATE_RATES"} => Paired(m.request, m.rates)
    BY <1>1, <1>3, <2>1, PacketFields
  <2>3. ASSUME NEW y \in Sender(k), Heard(s, y, Tail(q)), UNCHANGED toRcv PROVE Inv'
    <3>1. snd' \in [Snd -> Sender(k)] /\ toSnd' \in [Snd -> Buffer(Packet(k))]
      BY <1>3, <2>1, <2>3, HeardKeeps
    <3> QED BY <2>1, <2>3, <3>1, Kept DEF Inv
  <2>4. ASSUME NEW u \in 0 .. MaxOk PROVE [x EXCEPT !.unheard = u] \in Sender(k)
    <3> DEFINE y == [x EXCEPT !.unheard = u]
    <3>1. y \in SenderRecord(k) BY <1>2 DEF SenderRecord
    <3>2. y.conn = x.conn /\ y.request = x.request /\ y.rates = x.rates BY <1>2 DEF SenderRecord
    <3> QED BY <1>1, <3>1, <3>2, SameConnection
  <2>5. CASE /\ m.type = "UPDATE_RATES" /\ UNCHANGED toRcv
             /\ Heard(s, [x EXCEPT !.request = m.request, !.rates = m.rates], Tail(q))
    <3>1. [x EXCEPT !.request = m.request, !.rates = m.rates] \in Sender(k)
      <4>1. Paired(m.request, m.rates) BY <2>2, <2>5
      <4> HIDE DEF m, x, k
      <4> QED BY <1>1, <1>2, <2>2, <4>1, NewRates
    <3> QED BY <2>3, <2>5, <3>1
  <2>6. CASE Heard(s, [x EXCEPT !.unheard = 0], Tail(q)) /\ UNCHANGED toRcv
    BY <2>3, <2>4, <2>6, Constants
  <2>7. CASE /\ SendTo(x.conn, [type |-> "end", np |-> 0, chal |-> x.chal,
                                request |-> x.request, rates |-> x.rates])
             /\ Unconnect(s, [x EXCEPT !.unheard = IF @ + 1 > MaxOk THEN 0 ELSE @ + 1], Tail(q))
    <3> DEFINE u == IF x.unheard + 1 > MaxOk THEN 0 ELSE x.unheard + 1
    <3>1. u \in 0 .. MaxOk BY <1>2, Constants
    <3>2. snd' \in [Snd -> Sender(k)] /\ toSnd' \in [Snd -> Buffer(Packet(k))]
      BY <1>3, <2>1, <2>4, <2>7, <3>1, UnconnectKeeps
    <3>3. x.conn \in Session BY <1>2, <1>4, <2>1
    <3>4. DatagramOf("end", 0, x.request, x.chal, x.rates) \in Datagram
      <4>1. "end" \in {"challenge", "chirp", "end"} /\ "end" # "chirp" /\ 0 \in {0, 1} OBVIOUS
      <4> HIDE DEF x
      <4> QED BY <1>2, <4>1, MakeDatagram
    <3>5. toRcv' \in [Session -> Buffer(Datagram)]
      BY <2>7, <3>3, <3>4, SendToKeeps DEF DatagramOf
    <3> QED BY <2>1, <3>2, <3>5, Kept DEF Inv
  <2>8. CASE Heard(s, x, Tail(q)) /\ UNCHANGED toRcv BY <1>1, <2>3, <2>8
  <2> QED BY <1>9, <2>5, <2>6, <2>7, <2>8 DEF GapRequest
<1>10. CASE KillSender(s)
  <2>1. /\ snd' = [snd EXCEPT ![s] = [Waiting(x.chal) EXCEPT !.up = FALSE]]
        /\ toSnd' = [toSnd EXCEPT ![s] = <<>>]
        /\ UNCHANGED <<of, master, told, queued, rcv, toRcv, lost>>
    BY <1>10 DEF KillSender
  <2>2. snd' \in [Snd -> Sender(k)] BY <1>1, <1>2, <2>1, WaitingSender DEF Inv
  <2>3. toSnd' \in [Snd -> Buffer(Packet(k))] BY <2>1, EmptyBuffer DEF Inv
  <2> QED BY <2>1, <2>2, <2>3, Kept DEF Inv
<1>11. CASE StartSender(s)
  <2>1. /\ snd' = [snd EXCEPT ![s] = Waiting(x.chal)]
        /\ UNCHANGED <<of, master, told, queued, rcv, toSnd, toRcv, lost, kills>>
    BY <1>11 DEF StartSender
  <2>2. snd' \in [Snd -> Sender(k)] BY <1>1, <1>2, <2>1, WaitingSender DEF Inv
  <2> QED BY <2>1, <2>2, Kept DEF Inv
<1> QED BY <1>5, <1>6, <1>7, <1>8, <1>9, <1>10, <1>11 DEF SenderStep

\* The agent's kill of a receiver, and the start of another.
LEMMA AgentKeeps ==
  ASSUME Inv, NEW r \in Rcv, KillReceiver(r) \/ StartReceiver(r) PROVE Inv'
<1>1. CASE KillReceiver(r) BY <1>1, ExitKeeps, Kept DEF KillReceiver, Inv
<1>2. CASE StartReceiver(r)
  <2>1. Len(of) \in Nat BY LenProperties DEF Inv
  <2>2. 0 \in 0 .. MaxSilent /\ FALSE \in BOOLEAN BY Constants
  <2>3. Idle(0, FALSE) \in Receiver(Len(of)) BY <2>1, <2>2, IdleReceiver
  <2>4. rcv' \in [Rcv -> Receiver(Len(of))] BY <1>2, <2>3 DEF StartReceiver, Inv
  <2> QED BY <1>2, <2>4, Kept DEF StartReceiver, Inv
<1> QED BY <1>1, <1>2

LEMMA InvInit == Init => Inv
<1> SUFFICES ASSUME Init PROVE Inv OBVIOUS
<1>1. of \in Seq([snd : Snd, rcv : Rcv]) /\ Len(of) = 0 BY EmptySeq DEF Init
<1>2. 0 \in Nat /\ 0 \in 0 .. MaxSilent /\ FALSE \in BOOLEAN /\ 0 <= MaxSessions BY Constants
<1>3. Idle(0, FALSE) \in Receiver(0) BY <1>2, IdleReceiver
<1>4. Waiting(0) \in Sender(0) BY <1>2, WaitingSender
<1>5. rcv \in [Rcv -> Receiver(0)] /\ snd \in [Snd -> Sender(0)] BY <1>3, <1>4 DEF Init
<1>6. toSnd \in [Snd -> Buffer(Packet(0))] /\ toRcv \in [Session -> Buffer(Datagram)]
  BY EmptyBuffer DEF Init
<1>7. master = {} /\ told = {} /\ queued = {} /\ lost = 0 BY DEF Init
<1> QED BY <1>1, <1>2, <1>5, <1>6, <1>7 DEF Inv

LEMMA InvNext == Inv /\ [Next]_vars => Inv'
<1>1. ASSUME Inv, Next PROVE Inv'
  <2>1. CASE \E r \in Rcv : ReceiverStep(r)
    BY <1>1, <2>1, HandshakeSteps, ChirpSteps DEF ReceiverStep
  <2>2. CASE \E s \in Snd : SenderStep(s) \/ KillSender(s) \/ StartSender(s)
    BY <1>1, <2>2, SenderKeeps
  <2>3. CASE \E r \in Rcv : KillReceiver(r) \/ StartReceiver(r)
    BY <1>1, <2>3, AgentKeeps
  <2> QED BY <1>1, <2>1, <2>2, <2>3, MasterKeeps DEF Next
<1>2. ASSUME Inv, UNCHANGED vars PROVE Inv'
  BY <1>2, Kept DEF vars, Inv
<1> QED BY <1>1, <1>2

LEMMA Invariance == Spec => []Inv
BY InvInit, InvNext, PTL DEF Spec

\* The counters of the handshake, of silent alarms, of requests and of chirps without
\* an answer stay within their limits, a receiver serves a session exactly in the
\* phases of one, and sockets never hold more than they can, for any number of
\* daemons and sessions, with losses and killed processes.
THEOREM TypeCorrect == Spec => []TypeOK
<1>1. Inv => TypeOK
  <2> SUFFICES ASSUME Inv PROVE TypeOK OBVIOUS
  <2>1. Len(of) \in Nat BY LenProperties DEF Inv
  <2>2. ASSUME NEW r \in Rcv
        PROVE /\ rcv[r].phase \in {"listen", "request", "reply", "chirps", "dead"}
              /\ rcv[r].session \in {0} \cup Started
              /\ (rcv[r].session = 0) = (rcv[r].phase \in {"listen", "dead"})
              /\ rcv[r].acks \in 0 .. MaxAck
              /\ rcv[r].silent \in 0 .. MaxSilent
              /\ rcv[r].request \in 0 .. MaxRequest
              /\ rcv[r].window \in {"none", "one", "many"}
    <3>1. rcv[r] \in Receiver(Len(of)) BY DEF Inv
    <3>2. Serving(rcv[r]) /\ rcv[r].session \in 0 .. Len(of) /\ rcv[r] \in ReceiverRecord(Len(of))
      BY <2>1, <3>1, Fields
    <3>3. rcv[r].session \in {0} \cup Started BY <2>1, <3>2 DEF Started
    <3>4. (rcv[r].session = 0) = (rcv[r].phase \in {"listen", "dead"}) BY <3>2 DEF Serving
    <3> QED BY <3>2, <3>3, <3>4 DEF ReceiverRecord
  <2>3. ASSUME NEW s \in Snd
        PROVE /\ snd[s].conn \in {0} \cup Started /\ snd[s].unheard \in 0 .. MaxOk
              /\ Len(toSnd[s]) <= Cap
    <3>1. snd[s] \in Sender(Len(of)) /\ toSnd[s] \in Buffer(Packet(Len(of))) BY DEF Inv
    <3>2. snd[s].conn \in 0 .. Len(of) /\ snd[s].unheard \in 0 .. MaxOk
      BY <2>1, <3>1, SenderFields
    <3> QED BY <2>1, <3>1, <3>2 DEF Started, Buffer
  <2>4. \A n \in Session : Len(toRcv[n]) <= Cap BY DEF Inv, Buffer
  <2> QED BY <2>2, <2>3, <2>4 DEF TypeOK, Inv
<1> QED BY <1>1, Invariance, PTL

\* A chirp that the receiver takes for one of its latest rates was sent at these or at
\* the ones before, whatever updates are lost, repeated or overtaken: a number goes
\* with its own update or with the repetition of the one before, and with no other.
THEOREM RatesAlmostLatest == Spec => []AtMostOneChangeBehind
<1>1. Inv => AtMostOneChangeBehind
  <2> SUFFICES ASSUME Inv, NEW r \in Rcv, rcv[r].phase = "chirps",
                      NEW i \in DOMAIN toRcv[rcv[r].session],
                      toRcv[rcv[r].session][i].type = "chirp",
                      toRcv[rcv[r].session][i].request = rcv[r].request - 1
               PROVE toRcv[rcv[r].session][i].rates \in {rcv[r].rates - 1, rcv[r].rates}
    BY DEF AtMostOneChangeBehind, Recorded
  <2> DEFINE q == toRcv[rcv[r].session]
  <2>1. rcv[r] \in Receiver(Len(of)) /\ Len(of) \in Nat /\ rcv[r].session \in Session
    BY ServingReceiver
  <2>2. rcv[r].request \in Nat /\ rcv[r].rates = rcv[r].request - 2
    BY <2>1, Fields, Constants DEF Numbered
  <2>3. q \in Seq(Datagram) BY <2>1 DEF Inv, Buffer
  <2>4. i \in 1 .. Len(q) BY <2>3, LenProperties
  <2>5. q[i] \in Datagram BY <2>3, <2>4, ElementOfSeq
  <2>6. Paired(q[i].request, q[i].rates) BY <2>5 DEF Datagram
  <2> QED BY <2>2, <2>6 DEF Paired
<1> QED BY <1>1, Invariance, PTL
=============================================================================
