--------------------------- MODULE SlidingWindow ----------------------------
(***************************************************************************)
(* Two sessions of go-sliding-window exchanging data over a network that   *)
(* loses, delays, reorders and duplicates packets.  Each session runs a    *)
(* sendloop goroutine (sender.go) and a recvloop goroutine (recv.go); they *)
(* share FlowCt and recvLastFrameClientConsumed, and the recvloop hands    *)
(* every packet it receives to the sendloop over the unbuffered channel    *)
(* GotPack, so the sendloop can send between the two halves of a receive.  *)
(*                                                                         *)
(* Variables carry the names of the fields they stand for and are          *)
(* functions of the endpoint.  A message is its SeqNum: the code never     *)
(* changes a payload, so what is stored, resent and handed over is told    *)
(* apart by that number alone.                                             *)
(***************************************************************************)
EXTENDS Integers, Sequences, FiniteSets

CONSTANTS A, B,          \* the two endpoints
          Window,        \* Window[e]: SenderWindowSize and RecvWindowSize of e
          MaxSend,       \* Bound: how many messages the application at e pushes
          Connected,     \* TRUE: Connect() has completed; FALSE: both in Listen
          MayDuplicate,  \* TRUE: a packet may be received any number of times
          MaxCopies      \* Bound: packets of one sender, type and SeqNum in flight

ASSUME EndpointAssumption == A # B

Endpoint == {A, B}
Peer(e) == IF e = A THEN B ELSE A

ASSUME WindowAssumption == Window \in [Endpoint -> Nat \ {0}]
ASSUME MaxSendAssumption == MaxSend \in [Endpoint -> Nat]
ASSUME ModeAssumption == Connected \in BOOLEAN /\ MayDuplicate \in BOOLEAN
ASSUME MaxCopiesAssumption == MaxCopies \in Nat \ {0}

NoSeq == -1          \* an empty slot of Txq or Rxq
FrameNum == {n \in Int : n >= NoSeq}
AckSeq == -99        \* SeqNum of an ack
KeepAliveSeq == -777 \* SeqNum of a keepalive

PacketType == {"Data", "DataAck", "KeepAlive", "Handshake"}
Packet == [type : PacketType, from : Endpoint, seq : Int, ack : Int, cap : Int]

VARIABLES
  net,                          \* packets in flight, in both directions
  \* SenderState
  LastFrameSent,                \* SeqNum of the last message accepted
  Txq,                          \* slot -> SeqNum stored there, or NoSeq
  SentButNotAcked,              \* the slots in the two retry trees
  LastSeenAvailReaderMsgCap,    \* the room the peer last advertised
  Acked,                        \* messages reported acknowledged to the client
  \* RecvState
  NextFrameExpected,
  Rxq,                          \* slot -> SeqNum Received there, or NoSeq
  ReadyForDelivery,             \* in order, not yet taken by the application
  Consumed,                     \* taken by the application, in that order
  LastMsgConsumed,
  LastFrameClientConsumed,
  LargestSeqnoRcvd,
  RcvdButNotConsumed,
  Handoff,                      \* the packet the recvloop offers on GotPack
  \* shared by the two loops
  AvailReaderMsgCap,            \* FlowCt.Flow.AvailReaderMsgCap
  recvLastFrameClientConsumed   \* read by keepalives

sendVars == <<LastFrameSent, Txq, SentButNotAcked, LastSeenAvailReaderMsgCap, Acked>>
orderVars == <<NextFrameExpected, Rxq>>
consumeVars == <<Consumed, LastMsgConsumed, LastFrameClientConsumed>>
endpointVars == <<sendVars, orderVars, ReadyForDelivery, consumeVars,
                  LargestSeqnoRcvd, RcvdButNotConsumed, Handoff,
                  AvailReaderMsgCap, recvLastFrameClientConsumed>>
vars == <<net, endpointVars>>

Slots(e) == 0..(Window[e] - 1)

-----------------------------------------------------------------------------
(* Packets and the quantities the two loops derive. *)

DataPacket(e, n, cap) ==
  [type |-> "Data", from |-> e, seq |-> n, ack |-> 0, cap |-> cap]

KeepAlivePacket(e, ack, cap) ==
  [type |-> "KeepAlive", from |-> e, seq |-> KeepAliveSeq, ack |-> ack, cap |-> cap]

AckPacket(e, type, ack, cap) ==
  [type |-> type, from |-> e, seq |-> AckSeq, ack |-> ack, cap |-> cap]

\* Mutant: one slot too many is advertised, as the byte capacity's "+ 1" would.
FreeCapOneTooMany(e, largest, consumed) == Window[e] - (largest - consumed) + 1

\* LastAvailReaderMsgCap as UpdateControl computes it; it can be negative.
FreeCap(e, largest, consumed) == Window[e] - (largest - consumed)

\* Mutant: a negative capacity is stored too.
UpdateFlowEvenNegative(e, cap) ==
  AvailReaderMsgCap' = [AvailReaderMsgCap EXCEPT ![e] = cap]

\* UpdateFlow ignores a negative capacity: FlowCt then keeps the older value.
UpdateFlow(e, cap) ==
  AvailReaderMsgCap' = IF cap >= 0 THEN [AvailReaderMsgCap EXCEPT ![e] = cap]
                                   ELSE AvailReaderMsgCap

\* A recvloop in the middle of a hand-off takes no packet, so a packet for it may as
\* well be lost once the hand-off is over: losing one then adds no behaviour.
Losable == {m \in net : Handoff[Peer(m.from)] = {}}

\* Net.Send: a packet enters the network, where it replaces an older copy of
\* its kind once there are MaxCopies of them.
Copies(p) == {q \in net \ {p} : q.from = p.from /\ q.type = p.type /\ q.seq = p.seq}

Transmit(p) ==
  net' \in IF Cardinality(Copies(p)) < MaxCopies
           THEN {net \cup {p}}
           ELSE {(net \ {q}) \cup {p} : q \in Copies(p)}

msgInflight(e) == Cardinality(SentButNotAcked[e])

InWindow(seqno, min, max) == min <= seqno /\ seqno <= max

\* The SYN exchange is over; a network that duplicates may still deliver its
\* SynAck and EstabAck again, and both acknowledge frame 0.
Init ==
  /\ net = IF Connected /\ MayDuplicate
           THEN {AckPacket(e, "Handshake", 0, Window[e]) : e \in Endpoint}
           ELSE {}
  /\ LastFrameSent = [e \in Endpoint |-> -1]
  /\ Txq = [e \in Endpoint |-> [i \in Slots(e) |-> NoSeq]]
  /\ SentButNotAcked = [e \in Endpoint |-> {}]
  /\ LastSeenAvailReaderMsgCap =
       [e \in Endpoint |-> IF Connected THEN Window[Peer(e)] ELSE Window[e]]
  /\ Acked = [e \in Endpoint |-> {}]
  /\ NextFrameExpected = [e \in Endpoint |-> 0]
  /\ Rxq = [e \in Endpoint |-> [i \in Slots(e) |-> NoSeq]]
  /\ ReadyForDelivery = [e \in Endpoint |-> << >>]
  /\ Consumed = [e \in Endpoint |-> << >>]
  /\ LastMsgConsumed = [e \in Endpoint |-> -1]
  /\ LastFrameClientConsumed = [e \in Endpoint |-> 0]
  /\ LargestSeqnoRcvd = [e \in Endpoint |-> -1]
  /\ RcvdButNotConsumed = [e \in Endpoint |-> {}]
  /\ Handoff = [e \in Endpoint |-> {}]
  /\ AvailReaderMsgCap = [e \in Endpoint |-> IF Connected THEN Window[e] ELSE 0]
  /\ recvLastFrameClientConsumed = [e \in Endpoint |-> 0]

-----------------------------------------------------------------------------
(* The sendloop's own actions. *)

\* Mutant: a window that is full still admits one message.
FlowAllowsOneMore(e) == LastSeenAvailReaderMsgCap[e] - msgInflight(e) >= 0

\* Mutant: what is in flight is not charged against the advertised room.
FlowIgnoresInflight(e) == LastSeenAvailReaderMsgCap[e] > 0

\* The guard under which the sendloop receives on BlockingSend.
FlowAllowsSend(e) == LastSeenAvailReaderMsgCap[e] - msgInflight(e) > 0

\* doOrigDataSend: the slot of the next frame is taken whatever it holds.
AcceptSend(e) ==
  LET lfs == LastFrameSent[e] + 1
      pos == lfs % Window[e]
  IN /\ lfs < MaxSend[e]
     /\ FlowAllowsSend(e)
     /\ LastFrameSent' = [LastFrameSent EXCEPT ![e] = lfs]
     /\ Txq' = [Txq EXCEPT ![e][pos] = lfs]
     /\ SentButNotAcked' = [SentButNotAcked EXCEPT ![e] = @ \cup {pos}]
     /\ Transmit(DataPacket(e, lfs, AvailReaderMsgCap[e]))
     /\ UNCHANGED <<LastSeenAvailReaderMsgCap, Acked, orderVars, ReadyForDelivery,
                    consumeVars, LargestSeqnoRcvd, RcvdButNotConsumed, Handoff,
                    AvailReaderMsgCap, recvLastFrameClientConsumed>>

\* regularIntervalWakeup: a slot whose deadline passed leaves the trees,
\* re-enters them with a new deadline and is sent again with the current flow.
\* The wakeup does so slot by slot, and FlowCt may change between two of them.
Retry(e) ==
  /\ \E pos \in SentButNotAcked[e] :
       Transmit(DataPacket(e, Txq[e][pos], AvailReaderMsgCap[e]))
  /\ UNCHANGED endpointVars

\* doKeepAlive, when the recvloop's timer offers its TcpState.  Without a
\* handshake RemoteSessNonce is empty and no keepalive is sent.
KeepAlive(e) ==
  /\ Connected
  /\ Handoff[e] = {}
  /\ Transmit(KeepAlivePacket(e, recvLastFrameClientConsumed[e], AvailReaderMsgCap[e]))
  /\ UNCHANGED endpointVars

\* Mutant: AckNum is read as TCP's "next frame expected".
GotPackOneTooMany(e, m) ==
  LET done == {pos \in SentButNotAcked[e] : Txq[e][pos] <= m.ack + 1}
  IN /\ LastSeenAvailReaderMsgCap' = [LastSeenAvailReaderMsgCap EXCEPT ![e] = m.cap]
     /\ SentButNotAcked' = [SentButNotAcked EXCEPT ![e] = @ \ done]
     /\ Acked' = [Acked EXCEPT ![e] = @ \cup {Txq[e][pos] : pos \in done}]
     /\ UNCHANGED <<LastFrameSent, Txq>>

\* The sendloop takes m from GotPack: adopt the advertised room and drop from
\* the trees every slot up to AckNum, whatever kind of packet m is.
GotPack(e, m) ==
  LET done == {pos \in SentButNotAcked[e] : Txq[e][pos] <= m.ack}
  IN /\ LastSeenAvailReaderMsgCap' = [LastSeenAvailReaderMsgCap EXCEPT ![e] = m.cap]
     /\ SentButNotAcked' = [SentButNotAcked EXCEPT ![e] = @ \ done]
     /\ Acked' = [Acked EXCEPT ![e] = @ \cup {Txq[e][pos] : pos \in done}]
     /\ UNCHANGED <<LastFrameSent, Txq>>

-----------------------------------------------------------------------------
(* The recvloop: a packet is received, offered on GotPack, then handled. *)

\* MsgRecv up to GotPack: LargestSeqnoRcvd moves for any packet, even one the
\* window is about to refuse, and UpdateControl publishes the room left.
RecvPack(e, m) ==
  /\ m.from = Peer(e)
  /\ Handoff[e] = {}
  /\ LET largest == IF m.seq > LargestSeqnoRcvd[e] THEN m.seq ELSE LargestSeqnoRcvd[e]
     IN /\ LargestSeqnoRcvd' = [LargestSeqnoRcvd EXCEPT ![e] = largest]
        /\ UpdateFlow(e, FreeCap(e, largest, LastMsgConsumed[e]))
  /\ Handoff' = [Handoff EXCEPT ![e] = {m}]
  /\ net' = IF MayDuplicate THEN net ELSE net \ {m}
  /\ UNCHANGED <<sendVars, orderVars, ReadyForDelivery, consumeVars,
                 RcvdButNotConsumed, recvLastFrameClientConsumed>>

\* What every hand-off does: the rendezvous frees the recvloop.
Rendezvous(e, m) ==
  /\ m \in Handoff[e]
  /\ Handoff' = [Handoff EXCEPT ![e] = {}]
  /\ GotPack(e, m)

\* Mutant: an ack speaks of what was received, not of what the client consumed.
SendAckReceived(e, lfcc, consumed) ==
  LET cap == FreeCap(e, LargestSeqnoRcvd[e], consumed)
      ack == IF NextFrameExpected[e] = 0 THEN 0 ELSE NextFrameExpected[e] - 1
  IN UpdateFlow(e, cap) /\ Transmit(AckPacket(e, "DataAck", ack, cap))

\* ack(LastFrameClientConsumed): the capacity is computed afresh and may be
\* negative in the ack although FlowCt keeps its last non-negative value.
SendAck(e, lfcc, consumed) ==
  LET cap == FreeCap(e, LargestSeqnoRcvd[e], consumed)
  IN /\ UpdateFlow(e, cap)
     /\ Transmit(AckPacket(e, "DataAck", lfcc, cap))

\* An ack, or an old handshake packet: UpdateTcp answers NoAction.
RecvInfo(e) ==
  /\ \E m \in Handoff[e] : m.type \in {"DataAck", "Handshake"} /\ Rendezvous(e, m)
  /\ UNCHANGED <<net, orderVars, ReadyForDelivery, consumeVars, LargestSeqnoRcvd,
                 RcvdButNotConsumed, AvailReaderMsgCap, recvLastFrameClientConsumed>>

\* Mutant: a keepalive is not answered.
RecvKeepAliveSilently(e) ==
  /\ \E m \in Handoff[e] : m.type = "KeepAlive" /\ Rendezvous(e, m)
  /\ UNCHANGED <<net, orderVars, ReadyForDelivery, consumeVars, LargestSeqnoRcvd,
                 RcvdButNotConsumed, AvailReaderMsgCap, recvLastFrameClientConsumed>>

\* A keepalive in Established is answered with a DataAck.
RecvKeepAlive(e) ==
  /\ \E m \in Handoff[e] : m.type = "KeepAlive" /\ Rendezvous(e, m)
  /\ SendAck(e, LastFrameClientConsumed[e], LastMsgConsumed[e])
  /\ UNCHANGED <<orderVars, ReadyForDelivery, consumeVars, LargestSeqnoRcvd,
                 RcvdButNotConsumed, recvLastFrameClientConsumed>>

\* Mutant: an old duplicate counts as held again.
HoldAny(e, n) == RcvdButNotConsumed' = [RcvdButNotConsumed EXCEPT ![e] = @ \cup {n}]

\* Held messages gain any packet that is not an old duplicate.
Hold(e, n) ==
  RcvdButNotConsumed' =
    [RcvdButNotConsumed EXCEPT ![e] = IF n >= NextFrameExpected[e] THEN @ \cup {n} ELSE @]

\* Mutant: the window has no lower bound.
InRecvWindowOrOld(e, n) == n <= NextFrameExpected[e] + Window[e] - 1

InRecvWindow(e, n) ==
  InWindow(n, NextFrameExpected[e], NextFrameExpected[e] + Window[e] - 1)

\* Data outside the window is discarded and acknowledged again.
DiscardData(e) ==
  /\ \E m \in Handoff[e] :
       /\ m.type = "Data"
       /\ ~InRecvWindow(e, m.seq)
       /\ Rendezvous(e, m)
       /\ Hold(e, m.seq)
  /\ SendAck(e, LastFrameClientConsumed[e], LastMsgConsumed[e])
  /\ UNCHANGED <<orderVars, ReadyForDelivery, consumeVars, LargestSeqnoRcvd,
                 recvLastFrameClientConsumed>>

\* Data inside the window but not next is kept; nothing is acknowledged.
BufferData(e) ==
  /\ \E m \in Handoff[e] :
       /\ m.type = "Data"
       /\ InRecvWindow(e, m.seq)
       /\ m.seq # NextFrameExpected[e]
       /\ Rendezvous(e, m)
       /\ Hold(e, m.seq)
       /\ Rxq' = [Rxq EXCEPT ![e][m.seq % Window[e]] = m.seq]
  /\ UNCHANGED <<net, NextFrameExpected, ReadyForDelivery, consumeVars, LargestSeqnoRcvd,
                 AvailReaderMsgCap, recvLastFrameClientConsumed>>

\* The slots, from first on, that the "for slot.Received" loop empties: k of
\* them, until the next is empty.  It empties every slot at most once.
IsReceivedRun(q, w, first, k) ==
  /\ \A j \in 0..(k - 1) : q[(first + j) % w] # NoSeq
  /\ k < w => q[(first + k) % w] = NoSeq

\* Mutant: the slots are not reset once their packets are ready.
DrainedNothing(q, w, first, k) == q

\* The slots once that run is taken out of them.
Drained(q, w, first, k) ==
  [i \in DOMAIN q |-> IF \E j \in 0..(k - 1) : i = (first + j) % w THEN NoSeq ELSE q[i]]

\* The next frame: it and the received run behind it become ready, and the
\* keepalives learn what the client has consumed so far.
InOrderData(e) ==
  LET nfe == NextFrameExpected[e]
      w == Window[e]
      q == [Rxq[e] EXCEPT ![nfe % w] = nfe]
  IN /\ \E m \in Handoff[e] : m.type = "Data" /\ m.seq = nfe /\ Rendezvous(e, m)
     /\ Hold(e, nfe)
     /\ \E k \in 1..w :
          /\ IsReceivedRun(q, w, nfe, k)
          /\ ReadyForDelivery' = [ReadyForDelivery EXCEPT ![e] =
                                    @ \o [j \in 1..k |-> q[(nfe + j - 1) % w]]]
          /\ Rxq' = [Rxq EXCEPT ![e] = Drained(q, w, nfe, k)]
          /\ NextFrameExpected' = [NextFrameExpected EXCEPT ![e] = nfe + k]
     /\ recvLastFrameClientConsumed' =
          [recvLastFrameClientConsumed EXCEPT ![e] = LastFrameClientConsumed[e]]
     /\ UNCHANGED <<net, consumeVars, LargestSeqnoRcvd, AvailReaderMsgCap>>

\* The application takes the first k ready messages; the last one is acked.
Consume(e, k) ==
  LET taken == SubSeq(ReadyForDelivery[e], 1, k)
      last == ReadyForDelivery[e][k]
  IN /\ Handoff[e] = {}
     /\ Consumed' = [Consumed EXCEPT ![e] = @ \o taken]
     /\ ReadyForDelivery' = [ReadyForDelivery EXCEPT ![e] = SubSeq(@, k + 1, Len(@))]
     /\ RcvdButNotConsumed' =
          [RcvdButNotConsumed EXCEPT ![e] = @ \ {taken[i] : i \in 1..k}]
     /\ LastMsgConsumed' = [LastMsgConsumed EXCEPT ![e] = last]
     /\ LastFrameClientConsumed' = [LastFrameClientConsumed EXCEPT ![e] = last]
     /\ SendAck(e, last, last)
     /\ UNCHANGED <<sendVars, orderVars, LargestSeqnoRcvd, Handoff,
                    recvLastFrameClientConsumed>>

\* A receive on ReadMessagesCh: everything that is ready at once.
DeliverToConsumer(e) ==
  ReadyForDelivery[e] # << >> /\ Consume(e, Len(ReadyForDelivery[e]))

\* Session.Read: as many whole messages as the caller's buffer holds.
FillAsMuchAsPossible(e) ==
  \E k \in 1..Len(ReadyForDelivery[e]) : Consume(e, k)

-----------------------------------------------------------------------------
(* The network, and the specification. *)

Lose(m) ==
  /\ ~MayDuplicate
  /\ m \in Losable
  /\ net' = net \ {m}
  /\ UNCHANGED endpointVars

SendLoop(e) == AcceptSend(e) \/ Retry(e) \/ KeepAlive(e)

HandleHandoff(e) ==
  RecvInfo(e) \/ RecvKeepAlive(e) \/ DiscardData(e) \/ BufferData(e) \/ InOrderData(e)

ReadByApp(e) == DeliverToConsumer(e) \/ FillAsMuchAsPossible(e)

Next ==
  \/ \E e \in Endpoint :
       SendLoop(e) \/ HandleHandoff(e) \/ ReadByApp(e) \/ \E m \in net : RecvPack(e, m)
  \/ \E m \in net : Lose(m)

Spec == Init /\ [][Next]_vars

-----------------------------------------------------------------------------
(* Properties. *)

\* Every variable has its type: the slots hold frame numbers or nothing, the
\* recvloop offers the sendloop at most one packet at a time.
TypeOK ==
  /\ net \subseteq Packet
  /\ LastFrameSent \in [Endpoint -> FrameNum]
  /\ DOMAIN Txq = Endpoint /\ \A e \in Endpoint : Txq[e] \in [Slots(e) -> FrameNum]
  /\ DOMAIN SentButNotAcked = Endpoint /\ \A e \in Endpoint : SentButNotAcked[e] \subseteq Slots(e)
  /\ LastSeenAvailReaderMsgCap \in [Endpoint -> Int]
  /\ DOMAIN Acked = Endpoint /\ \A e \in Endpoint : Acked[e] \subseteq Int
  /\ NextFrameExpected \in [Endpoint -> Nat]
  /\ DOMAIN Rxq = Endpoint /\ \A e \in Endpoint : Rxq[e] \in [Slots(e) -> FrameNum]
  /\ ReadyForDelivery \in [Endpoint -> Seq(Nat)]
  /\ Consumed \in [Endpoint -> Seq(Nat)]
  /\ LastMsgConsumed \in [Endpoint -> FrameNum]
  /\ LastFrameClientConsumed \in [Endpoint -> Nat]
  /\ LargestSeqnoRcvd \in [Endpoint -> FrameNum]
  /\ DOMAIN RcvdButNotConsumed = Endpoint
  /\ \A e \in Endpoint : RcvdButNotConsumed[e] \subseteq Nat
  /\ DOMAIN Handoff = Endpoint
  /\ \A e \in Endpoint : Handoff[e] \subseteq Packet /\ \A m, n \in Handoff[e] : m = n
  /\ AvailReaderMsgCap \in [Endpoint -> Nat]
  /\ recvLastFrameClientConsumed \in [Endpoint -> Nat]

\* What the application has taken and what waits for it are together exactly the
\* messages 0 .. NextFrameExpected-1, each once and in order, and all of them
\* were sent (recv.go:522-556, whatever the network does).
InOrder ==
  \A e \in Endpoint :
    LET history == Consumed[e] \o ReadyForDelivery[e]
    IN /\ Len(history) = NextFrameExpected[e]
       /\ \A i \in 1..Len(history) : history[i] = i - 1
       /\ NextFrameExpected[e] <= LastFrameSent[Peer(e)] + 1

\* The client is told a message is acknowledged only after the peer's
\* application took it (swp.go:627 "end-to-end ack"); message 0 is the exception
\* the code makes, for an AckNum of 0 stands for "nothing yet" as well.
AckedWasConsumed ==
  \A e \in Endpoint : \A n \in Acked[e] : n = 0 \/ n < Len(Consumed[Peer(e)])

\* Every message sent is acknowledged or still in its slot and in the retry
\* trees, so the wakeup will send it again (sender.go:261-321, 332-396).
NothingForgotten ==
  \A e \in Endpoint : \A n \in 0..LastFrameSent[e] :
    \/ n \in Acked[e]
    \/ n % Window[e] \in SentButNotAcked[e] /\ Txq[e][n % Window[e]] = n

\* Flow control: no message number reaches the receiver further ahead of its
\* application than its window; message 0 counts as consumed from the start.
ReceiverNotOverrun ==
  \A e \in Endpoint :
    LargestSeqnoRcvd[e] - Window[e] <= (IF LastMsgConsumed[e] < 0 THEN 0 ELSE LastMsgConsumed[e])

\* NumHeldMessages is honest: a message that is ready or buffered is counted as
\* held, and nothing the application took still is (recv.go:493-495, 340-342).
HeldIsUnconsumed ==
  \A e \in Endpoint :
    /\ \A i \in 1..Len(ReadyForDelivery[e]) : ReadyForDelivery[e][i] \in RcvdButNotConsumed[e]
    /\ \A i \in Slots(e) : Rxq[e][i] # NoSeq => Rxq[e][i] \in RcvdButNotConsumed[e]
    /\ \A n \in RcvdButNotConsumed[e] : n >= Len(Consumed[e])

\* A buffered packet leaves its slot only by becoming ready: no later packet
\* that maps to the same slot ever replaces it (recv.go:502-519).
RxqKeepsWhatItHolds ==
  [][\A e \in Endpoint : \A i \in Slots(e) :
       Rxq[e][i] # NoSeq /\ Rxq'[e][i] # Rxq[e][i]
         => Rxq'[e][i] = NoSeq /\ Rxq[e][i] < NextFrameExpected'[e]]_vars

\* The protocol implements the stream its applications see.
Stream == INSTANCE ReliableStream WITH
            pushed <- [e \in Endpoint |-> LastFrameSent[e] + 1],
            got <- Consumed,
            confirmed <- Acked

ImplementsStream == Stream!SSpec

-----------------------------------------------------------------------------
(* The inductive invariant behind InOrder and AckedWasConsumed.  It holds   *)
(* for windows of any sizes, also of two different ones.                    *)

\* Only what was sent travels, and no packet acknowledges more than its sender's
\* application has taken (frame 0 apart).
PacketIsHonest(m) ==
  /\ m.type = "Data" => m.seq \in 0..LastFrameSent[m.from]
  /\ m.type # "Data" => m.seq < 0
  /\ m.ack \in 0..LastFrameClientConsumed[m.from]

PacketsAreHonest ==
  /\ \A m \in net : PacketIsHonest(m)
  /\ \A e \in Endpoint : \A m \in Handoff[e] : m.from = Peer(e) /\ PacketIsHonest(m)

\* The sender's slots hold frames it sent; what it counts as acknowledged, and
\* what a keepalive acknowledges, the consuming application really has taken.
SenderIsHonest ==
  \A e \in Endpoint :
    /\ \A pos \in Slots(e) : Txq[e][pos] <= LastFrameSent[e]
    /\ \A pos \in SentButNotAcked[e] : Txq[e][pos] # NoSeq
    /\ Acked[e] \subseteq 0..LastFrameClientConsumed[Peer(e)]
    /\ recvLastFrameClientConsumed[e] <= LastFrameClientConsumed[e]

\* The receiver's history is 0 .. NextFrameExpected-1, cut where the client is.
HistoryIsInOrder ==
  \A e \in Endpoint :
    /\ \A i \in 1..Len(Consumed[e]) : Consumed[e][i] = i - 1
    /\ \A i \in 1..Len(ReadyForDelivery[e]) :
          ReadyForDelivery[e][i] = Len(Consumed[e]) + i - 1
    /\ NextFrameExpected[e] = Len(Consumed[e]) + Len(ReadyForDelivery[e])
    /\ NextFrameExpected[e] <= LastFrameSent[Peer(e)] + 1
    /\ LastMsgConsumed[e] = Len(Consumed[e]) - 1
    /\ LastFrameClientConsumed[e] = IF Consumed[e] = << >> THEN 0 ELSE LastMsgConsumed[e]

\* A buffered frame lies in its own slot, strictly inside the window.
BufferedIsInWindow ==
  \A e \in Endpoint : \A i \in Slots(e) :
    LET n == Rxq[e][i]
    IN n # NoSeq => /\ n % Window[e] = i
                    /\ NextFrameExpected[e] < n
                    /\ n < NextFrameExpected[e] + Window[e]
                    /\ n <= LastFrameSent[Peer(e)]

DataPathInv ==
  TypeOK /\ PacketsAreHonest /\ SenderIsHonest /\ HistoryIsInOrder /\ BufferedIsInWindow

-----------------------------------------------------------------------------
(* The inductive invariant behind NothingForgotten and ReceiverNotOverrun.  *)
(* It says for which sizes of two different windows they hold.              *)

\* No room is advertised beyond the receiver's own window, because nothing is
\* consumed, ready or buffered that LargestSeqnoRcvd has not counted.
RoomIsBounded ==
  /\ \A m \in net : m.cap <= Window[m.from]
  /\ \A e \in Endpoint :
       /\ \A m \in Handoff[e] : m.cap <= Window[m.from] /\ m.seq <= LargestSeqnoRcvd[e]
       /\ AvailReaderMsgCap[e] <= Window[e]
       /\ NextFrameExpected[e] <= LargestSeqnoRcvd[e] + 1
       /\ \A i \in Slots(e) : Rxq[e][i] <= LargestSeqnoRcvd[e]
       /\ LargestSeqnoRcvd[e] <= LastFrameSent[Peer(e)]
       /\ \/ LastSeenAvailReaderMsgCap[e] <= Window[Peer(e)]
          \/ ~Connected /\ LastSeenAvailReaderMsgCap[e] <= Window[e]

\* e has a slot for every message its peer may make room for.
HasSlots(e) == Window[Peer(e)] <= Window[e]

\* What e believes of its peer's room is true from the start.
KnowsRoom(e) == Connected \/ Window[e] = Window[Peer(e)]

\* The messages acknowledged are the first ones, and all others can be resent.
UnackedIsTracked(e) ==
  /\ \A n \in Acked[e] : 0..n \subseteq Acked[e]
  /\ \A n \in 0..LastFrameSent[e] :
       \/ n \in Acked[e]
       \/ n % Window[e] \in SentButNotAcked[e] /\ Txq[e][n % Window[e]] = n

WithinCredit(e) == LastFrameSent[e] <= Window[Peer(e)] + LastFrameClientConsumed[Peer(e)]

FlowInv ==
  /\ DataPathInv
  /\ RoomIsBounded
  /\ \A e \in Endpoint :
       HasSlots(e) => UnackedIsTracked(e) /\ (KnowsRoom(e) => WithinCredit(e))
=============================================================================
