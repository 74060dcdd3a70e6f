------------------------- MODULE SlidingWindowProofs ------------------------
(***************************************************************************)
(* Proofs about SlidingWindow, for every two windows, every bound on the   *)
(* messages pushed, with or without a handshake and duplication.           *)
(***************************************************************************)
EXTENDS SlidingWindow, ProofFacts

-----------------------------------------------------------------------------
(* Small facts every step uses. *)

LEMMA PeerFacts ==
  ASSUME NEW e \in Endpoint
  PROVE  Peer(e) \in Endpoint /\ Peer(e) # e /\ Peer(Peer(e)) = e
  BY EndpointAssumption DEF Endpoint, Peer

LEMMA WindowFacts ==
  ASSUME NEW e \in Endpoint
  PROVE  Window[e] \in Nat \ {0} /\ \A n \in Nat : n % Window[e] \in Slots(e)
  BY WindowAssumption, DivMod DEF Slots

\* What TypeOK says of one endpoint.
LEMMA TypeFacts ==
  ASSUME TypeOK, NEW e \in Endpoint
  PROVE  /\ LastFrameSent[e] \in Int /\ LastFrameSent[e] >= -1
         /\ LastMsgConsumed[e] \in Int /\ LastMsgConsumed[e] >= -1
         /\ LargestSeqnoRcvd[e] \in Int /\ LargestSeqnoRcvd[e] >= -1
         /\ NextFrameExpected[e] \in Nat
         /\ LastFrameClientConsumed[e] \in Nat
         /\ recvLastFrameClientConsumed[e] \in Nat
         /\ AvailReaderMsgCap[e] \in Nat
         /\ LastSeenAvailReaderMsgCap[e] \in Int
         /\ \A i \in Slots(e) : Txq[e][i] \in Int /\ Txq[e][i] >= -1
         /\ \A i \in Slots(e) : Rxq[e][i] \in Int /\ Rxq[e][i] >= -1
         /\ SentButNotAcked[e] \subseteq Slots(e)
         /\ Acked[e] \subseteq Int
         /\ ReadyForDelivery[e] \in Seq(Nat)
         /\ Consumed[e] \in Seq(Nat)
         /\ RcvdButNotConsumed[e] \subseteq Nat
  BY DEF TypeOK, FrameNum, NoSeq

\* Sending only adds the packet sent; what it displaces is gone.
LEMMA TransmitAdds ==
  ASSUME NEW p, Transmit(p)
  PROVE  net' \subseteq net \cup {p}
  BY DEF Transmit, Copies

LEMMA PacketTypes ==
  ASSUME NEW e \in Endpoint, NEW c \in Int
  PROVE  /\ \A n \in Int : DataPacket(e, n, c) \in Packet
         /\ \A a \in Int : KeepAlivePacket(e, a, c) \in Packet
         /\ \A a \in Int, t \in PacketType : AckPacket(e, t, a, c) \in Packet
  BY DEF DataPacket, KeepAlivePacket, AckPacket, Packet, AckSeq, KeepAliveSeq, PacketType

\* Sending and consuming more never makes an honest packet dishonest.
LEMMA HonestyLasts ==
  ASSUME TypeOK, TypeOK', NEW m \in Packet, PacketIsHonest(m),
         \A f \in Endpoint : /\ LastFrameSent[f] <= LastFrameSent'[f]
                            /\ LastFrameClientConsumed[f] <= LastFrameClientConsumed'[f]
  PROVE  PacketIsHonest(m)'
<1>1. m.from \in Endpoint /\ m.seq \in Int /\ m.ack \in Int
  BY DEF Packet
<1>2. /\ LastFrameSent[m.from] \in Int /\ LastFrameSent'[m.from] \in Int
      /\ LastFrameClientConsumed[m.from] \in Int /\ LastFrameClientConsumed'[m.from] \in Int
  BY <1>1 DEF TypeOK, FrameNum
<1> QED BY <1>1, <1>2 DEF PacketIsHonest

LEMMA InitInv == Init => DataPathInv
<1> SUFFICES ASSUME Init PROVE DataPathInv
  OBVIOUS
<1> USE WindowAssumption DEF Init
<1>1. TypeOK
  <2>1. net \subseteq Packet
    <3>1. \A e \in Endpoint : AckPacket(e, "Handshake", 0, Window[e]) \in Packet
      BY WindowFacts, PacketTypes DEF PacketType
    <3>2. CASE Connected /\ MayDuplicate
      BY <3>1, <3>2
    <3>3. CASE ~(Connected /\ MayDuplicate)
      BY <3>3
    <3> QED BY <3>2, <3>3
  <2>2. \A e \in Endpoint : LastSeenAvailReaderMsgCap[e] \in Int /\ AvailReaderMsgCap[e] \in Nat
    BY WindowFacts, PeerFacts
  <2>3. << >> \in Seq(Nat)
    OBVIOUS
  <2> QED BY <2>1, <2>2, <2>3 DEF TypeOK, FrameNum, NoSeq
<1>2. PacketsAreHonest
  BY DEF PacketsAreHonest, PacketIsHonest, AckPacket, AckSeq
<1>3. SenderIsHonest
  BY PeerFacts DEF SenderIsHonest, NoSeq
<1>4. HistoryIsInOrder
  BY PeerFacts DEF HistoryIsInOrder
<1>5. BufferedIsInWindow
  BY DEF BufferedIsInWindow
<1> QED BY <1>1, <1>2, <1>3, <1>4, <1>5 DEF DataPathInv

-----------------------------------------------------------------------------
(* The sendloop preserves the invariant. *)

\* What travels stays honest while the counters only grow.
LEMMA PacketsStayHonest ==
  ASSUME TypeOK, TypeOK', PacketsAreHonest,
         \A f \in Endpoint : /\ LastFrameSent[f] <= LastFrameSent'[f]
                            /\ LastFrameClientConsumed[f] <= LastFrameClientConsumed'[f],
         \A m \in net' : m \in net \/ PacketIsHonest(m)',
         \A f \in Endpoint : \A m \in Handoff'[f] :
           m \in Handoff[f] \/ (m \in net /\ m.from = Peer(f))
  PROVE  PacketsAreHonest'
<1>1. net \subseteq Packet /\ \A f \in Endpoint : Handoff[f] \subseteq Packet
  BY DEF TypeOK
<1>2. \A m \in Packet : PacketIsHonest(m) => PacketIsHonest(m)'
  BY HonestyLasts
<1> QED BY <1>1, <1>2 DEF PacketsAreHonest

\* A receiver that does not move stays correct while its peer sends more.
LEMMA ReceiverStays ==
  ASSUME TypeOK, HistoryIsInOrder, BufferedIsInWindow,
         UNCHANGED <<NextFrameExpected, Rxq, ReadyForDelivery, Consumed,
                     LastMsgConsumed, LastFrameClientConsumed>>,
         \A f \in Endpoint : LastFrameSent[f] <= LastFrameSent'[f] /\ LastFrameSent'[f] \in Int
  PROVE  HistoryIsInOrder' /\ BufferedIsInWindow'
<1>1. \A f \in Endpoint : NextFrameExpected[f] <= LastFrameSent'[Peer(f)] + 1
  <2> TAKE f \in Endpoint
  <2>1. NextFrameExpected[f] <= LastFrameSent[Peer(f)] + 1
    BY DEF HistoryIsInOrder
  <2> QED BY <2>1, PeerFacts, TypeFacts
<1>2. \A f \in Endpoint : \A i \in Slots(f) :
        Rxq[f][i] # NoSeq => Rxq[f][i] <= LastFrameSent'[Peer(f)]
  <2> SUFFICES ASSUME NEW f \in Endpoint, NEW i \in Slots(f), Rxq[f][i] # NoSeq
               PROVE  Rxq[f][i] <= LastFrameSent'[Peer(f)]
    OBVIOUS
  <2>1. Rxq[f][i] <= LastFrameSent[Peer(f)]
    BY DEF BufferedIsInWindow
  <2> QED BY <2>1, PeerFacts, TypeFacts
<1> QED BY <1>1, <1>2 DEF HistoryIsInOrder, BufferedIsInWindow

LEMMA AcceptSendInv ==
  ASSUME DataPathInv, NEW e \in Endpoint, AcceptSend(e)
  PROVE  DataPathInv'
<1> DEFINE lfs == LastFrameSent[e] + 1
           pos == lfs % Window[e]
<1>0. TypeOK /\ PacketsAreHonest /\ SenderIsHonest /\ HistoryIsInOrder /\ BufferedIsInWindow
  BY DEF DataPathInv
<1>1. lfs \in Nat /\ pos \in Slots(e)
  BY <1>0, TypeFacts, WindowFacts
<1>2. /\ LastFrameSent' = [LastFrameSent EXCEPT ![e] = lfs]
      /\ Txq' = [Txq EXCEPT ![e][pos] = lfs]
      /\ SentButNotAcked' = [SentButNotAcked EXCEPT ![e] = @ \cup {pos}]
      /\ UNCHANGED <<LastSeenAvailReaderMsgCap, Acked, NextFrameExpected, Rxq, ReadyForDelivery,
                     Consumed, LastMsgConsumed, LastFrameClientConsumed, LargestSeqnoRcvd,
                     RcvdButNotConsumed, Handoff, AvailReaderMsgCap, recvLastFrameClientConsumed>>
  BY DEF AcceptSend, orderVars, consumeVars
<1>3. PICK p \in Packet : net' \subseteq net \cup {p} /\ p.type = "Data" /\ p.seq = lfs
                         /\ p.from = e /\ p.ack = 0
  <2>1. DataPacket(e, lfs, AvailReaderMsgCap[e]) \in Packet
    BY <1>0, <1>1, TypeFacts, PacketTypes
  <2>2. net' \subseteq net \cup {DataPacket(e, lfs, AvailReaderMsgCap[e])}
    BY TransmitAdds DEF AcceptSend
  <2> QED BY <2>1, <2>2 DEF DataPacket
<1>4. \A f \in Endpoint : LastFrameSent'[f] = IF f = e THEN lfs ELSE LastFrameSent[f]
  BY <1>0, <1>2 DEF TypeOK
<1>5. \A f \in Endpoint : LastFrameSent[f] <= LastFrameSent'[f] /\ LastFrameSent'[f] \in Int
  BY <1>0, <1>4, TypeFacts
<1> HIDE DEF lfs, pos
<1>6. TypeOK'
  <2>1. net' \subseteq Packet
    BY <1>0, <1>3 DEF TypeOK
  <2>2. LastFrameSent' \in [Endpoint -> FrameNum]
    BY <1>0, <1>1, <1>2 DEF TypeOK, FrameNum, NoSeq
  <2>3. DOMAIN Txq' = Endpoint /\ \A f \in Endpoint : Txq'[f] \in [Slots(f) -> FrameNum]
    <3>1. lfs \in FrameNum
      BY <1>1 DEF FrameNum, NoSeq
    <3> QED BY <1>0, <1>1, <1>2, <3>1 DEF TypeOK
  <2>4. DOMAIN SentButNotAcked' = Endpoint /\ \A f \in Endpoint : SentButNotAcked'[f] \subseteq Slots(f)
    BY <1>0, <1>1, <1>2 DEF TypeOK
  <2> QED BY <1>0, <1>2, <2>1, <2>2, <2>3, <2>4 DEF TypeOK
<1>7. PacketsAreHonest'
  <2>1. PacketIsHonest(p)'
    BY <1>0, <1>1, <1>2, <1>3, <1>4, TypeFacts DEF PacketIsHonest
  <2> QED BY <1>0, <1>2, <1>3, <1>5, <1>6, <2>1, TypeFacts, PacketsStayHonest
<1>8. SenderIsHonest'
  <2> SUFFICES ASSUME NEW f \in Endpoint
               PROVE  /\ \A i \in Slots(f) : Txq'[f][i] <= LastFrameSent'[f]
                      /\ \A i \in SentButNotAcked'[f] : Txq'[f][i] # NoSeq
    BY <1>0, <1>2 DEF SenderIsHonest
  <2>1. CASE f = e
    <3>1. \A i \in Slots(e) : Txq'[e][i] = IF i = pos THEN lfs ELSE Txq[e][i]
      BY <1>0, <1>2 DEF TypeOK
    <3>2. SentButNotAcked'[e] = SentButNotAcked[e] \cup {pos}
      BY <1>0, <1>2 DEF TypeOK
    <3>3. \A i \in Slots(e) : Txq[e][i] <= LastFrameSent'[e]
      BY <1>0, <1>5, TypeFacts DEF SenderIsHonest
    <3>4. \A i \in SentButNotAcked[e] : i \in Slots(e) /\ Txq[e][i] # NoSeq
      BY <1>0, TypeFacts DEF SenderIsHonest
    <3> QED BY <2>1, <1>1, <1>4, <3>1, <3>2, <3>3, <3>4 DEF NoSeq
  <2>2. CASE f # e
    <3>1. Txq'[f] = Txq[f] /\ SentButNotAcked'[f] = SentButNotAcked[f]
      BY <2>2, <1>0, <1>2 DEF TypeOK
    <3> QED BY <2>2, <3>1, <1>0, <1>4 DEF SenderIsHonest
  <2> QED BY <2>1, <2>2
<1>9. HistoryIsInOrder' /\ BufferedIsInWindow'
  BY <1>0, <1>2, <1>5, ReceiverStays
<1> QED BY <1>6, <1>7, <1>8, <1>9 DEF DataPathInv

\* A step that only changes the network, adding honest packets or none.
LEMMA NetStep ==
  ASSUME DataPathInv, UNCHANGED endpointVars, net' \subseteq Packet,
         \A m \in net' : m \in net \/ PacketIsHonest(m)
  PROVE  DataPathInv'
<1> USE DEF endpointVars, sendVars, orderVars, consumeVars
<1>1. TypeOK'
  BY DEF DataPathInv, TypeOK
<1>2. \A f \in Endpoint : LastFrameSent[f] \in Int /\ LastFrameClientConsumed[f] \in Int
  BY TypeFacts DEF DataPathInv
<1>3. \A m \in net' : m \in net \/ PacketIsHonest(m)'
  BY DEF PacketIsHonest
<1>4. PacketsAreHonest'
  BY <1>1, <1>2, <1>3, PacketsStayHonest DEF DataPathInv
<1>5. SenderIsHonest' /\ HistoryIsInOrder' /\ BufferedIsInWindow'
  BY DEF DataPathInv, SenderIsHonest, HistoryIsInOrder, BufferedIsInWindow
<1> QED BY <1>1, <1>4, <1>5 DEF DataPathInv

LEMMA RetryInv ==
  ASSUME DataPathInv, NEW e \in Endpoint, Retry(e)
  PROVE  DataPathInv'
<1>0. TypeOK /\ SenderIsHonest
  BY DEF DataPathInv
<1>1. PICK pos \in SentButNotAcked[e] : Transmit(DataPacket(e, Txq[e][pos], AvailReaderMsgCap[e]))
  BY DEF Retry
<1>2. pos \in Slots(e) /\ Txq[e][pos] \in 0..LastFrameSent[e]
  BY <1>0, TypeFacts DEF SenderIsHonest, NoSeq
<1>3. DataPacket(e, Txq[e][pos], AvailReaderMsgCap[e]) \in Packet
  BY <1>0, <1>2, TypeFacts, PacketTypes
<1>4. PacketIsHonest(DataPacket(e, Txq[e][pos], AvailReaderMsgCap[e]))
  BY <1>0, <1>2, TypeFacts DEF PacketIsHonest, DataPacket
<1>5. net' \subseteq net \cup {DataPacket(e, Txq[e][pos], AvailReaderMsgCap[e])}
  BY <1>1, TransmitAdds
<1>6. net' \subseteq Packet
  BY <1>0, <1>3, <1>5 DEF TypeOK
<1> QED BY <1>4, <1>5, <1>6, NetStep DEF Retry

LEMMA KeepAliveInv ==
  ASSUME DataPathInv, NEW e \in Endpoint, KeepAlive(e)
  PROVE  DataPathInv'
<1> DEFINE p == KeepAlivePacket(e, recvLastFrameClientConsumed[e], AvailReaderMsgCap[e])
<1>0. TypeOK /\ SenderIsHonest
  BY DEF DataPathInv
<1>1. net' \subseteq net \cup {p} /\ UNCHANGED endpointVars
  BY TransmitAdds DEF KeepAlive
<1>2. p \in Packet
  BY <1>0, TypeFacts, PacketTypes
<1>3. recvLastFrameClientConsumed[e] \in 0..LastFrameClientConsumed[e]
  BY <1>0, TypeFacts DEF SenderIsHonest
<1>4. PacketIsHonest(p)
  BY <1>3 DEF PacketIsHonest, KeepAlivePacket, KeepAliveSeq
<1>5. net' \subseteq Packet
  BY <1>0, <1>1, <1>2 DEF TypeOK
<1> QED BY <1>1, <1>4, <1>5, NetStep

LEMMA LoseInv ==
  ASSUME DataPathInv, NEW m, Lose(m)
  PROVE  DataPathInv'
<1>1. net' \subseteq net /\ net \subseteq Packet
  BY DEF Lose, DataPathInv, TypeOK
<1> QED BY <1>1, NetStep DEF Lose

-----------------------------------------------------------------------------
(* A packet received and handed to the sendloop preserves the invariant.    *)

\* UpdateFlow never stores a negative capacity (flow.go:94-99).
LEMMA UpdateFlowType ==
  ASSUME TypeOK, NEW e \in Endpoint, NEW c \in Int, UpdateFlow(e, c)
  PROVE  AvailReaderMsgCap' \in [Endpoint -> Nat]
  BY DEF TypeOK, UpdateFlow

LEMMA FreeCapType ==
  ASSUME NEW e \in Endpoint, NEW l \in Int, NEW c \in Int
  PROVE  FreeCap(e, l, c) \in Int
  BY WindowFacts DEF FreeCap

LEMMA RecvPackInv ==
  ASSUME DataPathInv, NEW e \in Endpoint, NEW m \in net, RecvPack(e, m)
  PROVE  DataPathInv'
<1> USE DEF sendVars, orderVars, consumeVars
<1>0. TypeOK /\ PacketsAreHonest /\ SenderIsHonest /\ HistoryIsInOrder /\ BufferedIsInWindow
  BY DEF DataPathInv
<1>1. m \in Packet /\ m.seq \in Int /\ m.from = Peer(e)
  BY <1>0 DEF TypeOK, RecvPack, Packet
<1>2. PICK largest \in FrameNum :
         /\ LargestSeqnoRcvd' = [LargestSeqnoRcvd EXCEPT ![e] = largest]
         /\ UpdateFlow(e, FreeCap(e, largest, LastMsgConsumed[e]))
  <2> DEFINE l == IF m.seq > LargestSeqnoRcvd[e] THEN m.seq ELSE LargestSeqnoRcvd[e]
  <2>1. LargestSeqnoRcvd[e] \in Int /\ LargestSeqnoRcvd[e] >= -1
    BY <1>0, TypeFacts
  <2>2. l \in FrameNum
    BY <1>1, <2>1 DEF FrameNum, NoSeq
  <2>3. /\ LargestSeqnoRcvd' = [LargestSeqnoRcvd EXCEPT ![e] = l]
        /\ UpdateFlow(e, FreeCap(e, l, LastMsgConsumed[e]))
    BY DEF RecvPack
  <2> QED BY <2>2, <2>3
<1>3. /\ net' \subseteq net
      /\ Handoff' = [Handoff EXCEPT ![e] = {m}]
      /\ UNCHANGED <<LastFrameSent, Txq, SentButNotAcked, LastSeenAvailReaderMsgCap, Acked,
                     NextFrameExpected, Rxq, ReadyForDelivery, Consumed, LastMsgConsumed,
                     LastFrameClientConsumed, RcvdButNotConsumed, recvLastFrameClientConsumed>>
  BY DEF RecvPack
<1>4. TypeOK'
  <2>1. AvailReaderMsgCap' \in [Endpoint -> Nat]
    <3>1. FreeCap(e, largest, LastMsgConsumed[e]) \in Int
      BY <1>0, FreeCapType, TypeFacts DEF FrameNum
    <3> QED BY <1>0, <1>2, <3>1, UpdateFlowType
  <2>2. LargestSeqnoRcvd' \in [Endpoint -> FrameNum]
    BY <1>0, <1>2 DEF TypeOK
  <2>3. DOMAIN Handoff' = Endpoint
        /\ \A f \in Endpoint : Handoff'[f] \subseteq Packet /\ \A a, b \in Handoff'[f] : a = b
    BY <1>0, <1>1, <1>3 DEF TypeOK
  <2> QED BY <1>0, <1>3, <2>1, <2>2, <2>3 DEF TypeOK
<1>5. \A f \in Endpoint : LastFrameSent[f] \in Int /\ LastFrameClientConsumed[f] \in Int
  BY <1>0, TypeFacts
<1>6. PacketsAreHonest'
  <2>1. \A f \in Endpoint : \A a \in Handoff'[f] :
          a \in Handoff[f] \/ (a \in net /\ a.from = Peer(f))
    BY <1>0, <1>1, <1>3 DEF TypeOK
  <2> QED BY <1>0, <1>3, <1>4, <1>5, <2>1, PacketsStayHonest
<1>7. SenderIsHonest' /\ HistoryIsInOrder' /\ BufferedIsInWindow'
  BY <1>0, <1>3 DEF SenderIsHonest, HistoryIsInOrder, BufferedIsInWindow
<1> QED BY <1>4, <1>6, <1>7 DEF DataPathInv

\* What the hand-off does to the sender's half: it drops slots from the trees
\* and reports only frames the peer's application has taken.
LEMMA RendezvousFacts ==
  ASSUME DataPathInv, NEW e \in Endpoint, NEW m, Rendezvous(e, m)
  PROVE  /\ UNCHANGED <<LastFrameSent, Txq>>
         /\ LastSeenAvailReaderMsgCap' \in [Endpoint -> Int]
         /\ DOMAIN SentButNotAcked' = Endpoint /\ DOMAIN Acked' = Endpoint /\ DOMAIN Handoff' = Endpoint
         /\ \A f \in Endpoint :
              /\ SentButNotAcked'[f] \subseteq SentButNotAcked[f]
              /\ Acked'[f] \subseteq 0..LastFrameClientConsumed[Peer(f)]
              /\ Handoff'[f] \subseteq Handoff[f]
         /\ m \in Packet /\ PacketIsHonest(m) /\ m.from = Peer(e)
<1> DEFINE done == {pos \in SentButNotAcked[e] : Txq[e][pos] <= m.ack}
<1>0. TypeOK /\ PacketsAreHonest /\ SenderIsHonest
  BY DEF DataPathInv
<1>1. m \in Handoff[e] /\ Handoff' = [Handoff EXCEPT ![e] = {}]
      /\ LastSeenAvailReaderMsgCap' = [LastSeenAvailReaderMsgCap EXCEPT ![e] = m.cap]
      /\ SentButNotAcked' = [SentButNotAcked EXCEPT ![e] = @ \ done]
      /\ Acked' = [Acked EXCEPT ![e] = @ \cup {Txq[e][pos] : pos \in done}]
      /\ UNCHANGED <<LastFrameSent, Txq>>
  BY DEF Rendezvous, GotPack
<1>2. m \in Packet /\ PacketIsHonest(m) /\ m.from = Peer(e)
  BY <1>0, <1>1 DEF TypeOK, PacketsAreHonest
<1>3. m.cap \in Int /\ m.ack \in Int /\ m.ack <= LastFrameClientConsumed[Peer(e)]
  BY <1>0, <1>2, PeerFacts, TypeFacts DEF Packet, PacketIsHonest
<1>4. \A pos \in done : Txq[e][pos] \in 0..LastFrameClientConsumed[Peer(e)]
  <2> SUFFICES ASSUME NEW pos \in done
               PROVE  Txq[e][pos] \in 0..LastFrameClientConsumed[Peer(e)]
    OBVIOUS
  <2>1. pos \in Slots(e) /\ Txq[e][pos] # NoSeq /\ Txq[e][pos] <= m.ack
    BY <1>0, TypeFacts DEF SenderIsHonest
  <2> QED BY <1>0, <1>3, <2>1, PeerFacts, TypeFacts DEF NoSeq
<1> HIDE DEF done
<1>5. done \subseteq SentButNotAcked[e]
  BY DEF done
<1>6. \A f \in Endpoint : Acked'[f] \subseteq 0..LastFrameClientConsumed[Peer(f)]
  <2> TAKE f \in Endpoint
  <2>1. Acked[f] \subseteq 0..LastFrameClientConsumed[Peer(f)]
    BY <1>0 DEF SenderIsHonest
  <2>2. DOMAIN Acked = Endpoint
    BY <1>0 DEF TypeOK
  <2>3. CASE f = e
    BY <1>1, <1>4, <2>1, <2>2, <2>3
  <2>4. CASE f # e
    BY <1>1, <2>1, <2>2, <2>4
  <2> QED BY <2>3, <2>4
<1> QED BY <1>0, <1>1, <1>2, <1>3, <1>6 DEF TypeOK

\* ack() sends one honest packet and leaves FlowCt well typed.
LEMMA SendAckFacts ==
  ASSUME TypeOK, NEW e \in Endpoint, NEW lfcc \in Nat, NEW c \in Int, SendAck(e, lfcc, c)
  PROVE  /\ AvailReaderMsgCap' \in [Endpoint -> Nat]
         /\ \E p \in Packet : /\ net' \subseteq net \cup {p}
                              /\ p.type # "Data" /\ p.seq < 0 /\ p.from = e /\ p.ack = lfcc
<1> DEFINE cap == FreeCap(e, LargestSeqnoRcvd[e], c)
           p == AckPacket(e, "DataAck", lfcc, cap)
<1>1. cap \in Int
  BY FreeCapType, TypeFacts
<1>2. UpdateFlow(e, cap) /\ Transmit(p)
  BY DEF SendAck
<1>3. p \in Packet
  BY <1>1, PacketTypes DEF PacketType
<1>4. p.type # "Data" /\ p.seq < 0 /\ p.from = e /\ p.ack = lfcc
  BY DEF AckPacket, AckSeq
<1> HIDE DEF cap
<1> QED BY <1>1, <1>2, <1>3, <1>4, UpdateFlowType, TransmitAdds

\* A hand-off after which the receiver keeps its frames where they are.
LEMMA HandoffStep ==
  ASSUME DataPathInv, NEW e \in Endpoint, NEW m, Rendezvous(e, m),
         UNCHANGED <<NextFrameExpected, Rxq, ReadyForDelivery, Consumed, LastMsgConsumed,
                     LastFrameClientConsumed, LargestSeqnoRcvd, recvLastFrameClientConsumed>>,
         AvailReaderMsgCap' \in [Endpoint -> Nat],
         DOMAIN RcvdButNotConsumed' = Endpoint,
         \A f \in Endpoint : RcvdButNotConsumed'[f] \subseteq Nat,
         net' \subseteq Packet,
         \A p \in net' : p \in net \/ PacketIsHonest(p)
  PROVE  DataPathInv'
<1>0. TypeOK /\ PacketsAreHonest /\ SenderIsHonest /\ HistoryIsInOrder /\ BufferedIsInWindow
  BY DEF DataPathInv
<1>1. TypeOK'
  <2>1. \A f \in Endpoint : SentButNotAcked'[f] \subseteq Slots(f) /\ Acked'[f] \subseteq Int
    BY <1>0, RendezvousFacts, TypeFacts, PeerFacts
  <2>2. \A f \in Endpoint : Handoff'[f] \subseteq Packet /\ \A a, b \in Handoff'[f] : a = b
    BY <1>0, RendezvousFacts DEF TypeOK
  <2>3. /\ DOMAIN SentButNotAcked' = Endpoint /\ DOMAIN Acked' = Endpoint
        /\ DOMAIN Handoff' = Endpoint /\ LastSeenAvailReaderMsgCap' \in [Endpoint -> Int]
        /\ UNCHANGED <<LastFrameSent, Txq>>
    BY RendezvousFacts
  <2> QED BY <1>0, <2>1, <2>2, <2>3 DEF TypeOK
<1>2. \A f \in Endpoint : LastFrameSent[f] \in Int /\ LastFrameClientConsumed[f] \in Int
  BY <1>0, TypeFacts
<1>3. LastFrameSent' = LastFrameSent /\ Txq' = Txq
  BY RendezvousFacts
<1>4. PacketsAreHonest'
  <2>1. \A p \in net' : p \in net \/ PacketIsHonest(p)'
    BY <1>3 DEF PacketIsHonest
  <2>2. \A f \in Endpoint : \A a \in Handoff'[f] : a \in Handoff[f]
    BY RendezvousFacts
  <2> QED BY <1>0, <1>1, <1>2, <1>3, <2>1, <2>2, PacketsStayHonest
<1>5. SenderIsHonest'
  BY <1>0, <1>3, RendezvousFacts DEF SenderIsHonest
<1>6. HistoryIsInOrder' /\ BufferedIsInWindow'
  BY <1>0, <1>3 DEF HistoryIsInOrder, BufferedIsInWindow
<1> QED BY <1>1, <1>4, <1>5, <1>6 DEF DataPathInv

LEMMA RecvInfoInv ==
  ASSUME DataPathInv, NEW e \in Endpoint, RecvInfo(e)
  PROVE  DataPathInv'
<1>1. PICK m \in Handoff[e] : Rendezvous(e, m)
  BY DEF RecvInfo
<1>2. TypeOK
  BY DEF DataPathInv
<1> QED BY <1>1, <1>2, HandoffStep DEF RecvInfo, TypeOK, orderVars, consumeVars

\* An ack of what the application has taken is an honest packet.
LEMMA AckIsHonest ==
  ASSUME DataPathInv, NEW e \in Endpoint,
         SendAck(e, LastFrameClientConsumed[e], LastMsgConsumed[e])
  PROVE  /\ AvailReaderMsgCap' \in [Endpoint -> Nat]
         /\ net' \subseteq Packet
         /\ \A p \in net' : p \in net \/ PacketIsHonest(p)
<1>0. TypeOK
  BY DEF DataPathInv
<1>1. LastFrameClientConsumed[e] \in Nat /\ LastMsgConsumed[e] \in Int
  BY <1>0, TypeFacts
<1>2. PICK p \in Packet : /\ net' \subseteq net \cup {p}
                         /\ p.type # "Data" /\ p.seq < 0 /\ p.from = e
                         /\ p.ack = LastFrameClientConsumed[e]
  BY <1>0, <1>1, SendAckFacts
<1>3. PacketIsHonest(p)
  BY <1>1, <1>2 DEF PacketIsHonest
<1>4. AvailReaderMsgCap' \in [Endpoint -> Nat]
  BY <1>0, <1>1, SendAckFacts
<1> QED BY <1>0, <1>2, <1>3, <1>4 DEF TypeOK

LEMMA RecvKeepAliveInv ==
  ASSUME DataPathInv, NEW e \in Endpoint, RecvKeepAlive(e)
  PROVE  DataPathInv'
<1>1. PICK m \in Handoff[e] : Rendezvous(e, m)
  BY DEF RecvKeepAlive
<1>2. SendAck(e, LastFrameClientConsumed[e], LastMsgConsumed[e])
      /\ UNCHANGED <<NextFrameExpected, Rxq, ReadyForDelivery, Consumed, LastMsgConsumed,
                     LastFrameClientConsumed, LargestSeqnoRcvd, RcvdButNotConsumed,
                     recvLastFrameClientConsumed>>
  BY DEF RecvKeepAlive, orderVars, consumeVars
<1>3. DOMAIN RcvdButNotConsumed = Endpoint /\ \A f \in Endpoint : RcvdButNotConsumed[f] \subseteq Nat
  BY DEF DataPathInv, TypeOK
<1> QED BY <1>1, <1>2, <1>3, AckIsHonest, HandoffStep

\* Held messages are frames.
LEMMA HoldType ==
  ASSUME TypeOK, NEW e \in Endpoint, NEW n \in Int, Hold(e, n)
  PROVE  DOMAIN RcvdButNotConsumed' = Endpoint
         /\ \A f \in Endpoint : RcvdButNotConsumed'[f] \subseteq Nat
<1>1. n >= NextFrameExpected[e] => n \in Nat
  BY TypeFacts
<1>2. DOMAIN RcvdButNotConsumed = Endpoint /\ \A f \in Endpoint : RcvdButNotConsumed[f] \subseteq Nat
  BY DEF TypeOK
<1>3. CASE n >= NextFrameExpected[e]
  BY <1>1, <1>2, <1>3 DEF Hold
<1>4. CASE ~(n >= NextFrameExpected[e])
  BY <1>2, <1>4 DEF Hold
<1> QED BY <1>3, <1>4

LEMMA DiscardDataInv ==
  ASSUME DataPathInv, NEW e \in Endpoint, DiscardData(e)
  PROVE  DataPathInv'
<1>0. TypeOK
  BY DEF DataPathInv
<1>1. PICK m \in Handoff[e] : Rendezvous(e, m) /\ Hold(e, m.seq)
  BY DEF DiscardData
<1>2. SendAck(e, LastFrameClientConsumed[e], LastMsgConsumed[e])
      /\ UNCHANGED <<NextFrameExpected, Rxq, ReadyForDelivery, Consumed, LastMsgConsumed,
                     LastFrameClientConsumed, LargestSeqnoRcvd, recvLastFrameClientConsumed>>
  BY DEF DiscardData, orderVars, consumeVars
<1>3. m.seq \in Int
  BY <1>1, RendezvousFacts DEF Packet
<1> QED BY <1>0, <1>1, <1>2, <1>3, HoldType, AckIsHonest, HandoffStep

\* A frame inside the window is put in its own slot.
LEMMA BufferDataInv ==
  ASSUME DataPathInv, NEW e \in Endpoint, BufferData(e)
  PROVE  DataPathInv'
<1>0. TypeOK /\ PacketsAreHonest /\ SenderIsHonest /\ HistoryIsInOrder /\ BufferedIsInWindow
  BY DEF DataPathInv
<1>1. PICK m \in Handoff[e] :
        /\ m.type = "Data" /\ InRecvWindow(e, m.seq) /\ m.seq # NextFrameExpected[e]
        /\ Rendezvous(e, m) /\ Hold(e, m.seq)
        /\ Rxq' = [Rxq EXCEPT ![e][m.seq % Window[e]] = m.seq]
  BY DEF BufferData
<1> DEFINE n == m.seq
           pos == n % Window[e]
<1>2. UNCHANGED <<net, NextFrameExpected, ReadyForDelivery, Consumed, LastMsgConsumed,
                  LastFrameClientConsumed, LargestSeqnoRcvd, AvailReaderMsgCap,
                  recvLastFrameClientConsumed>>
  BY DEF BufferData, consumeVars
<1>3. m \in Packet /\ PacketIsHonest(m) /\ m.from = Peer(e) /\ UNCHANGED <<LastFrameSent, Txq>>
  BY <1>1, RendezvousFacts
<1>4. n \in Int /\ n \in 0..LastFrameSent[Peer(e)]
  BY <1>1, <1>3 DEF Packet, PacketIsHonest
<1>5. NextFrameExpected[e] < n /\ n < NextFrameExpected[e] + Window[e]
  BY <1>0, <1>1, <1>4, TypeFacts, WindowFacts DEF InRecvWindow, InWindow
<1>6. n \in Nat /\ pos \in Slots(e) /\ n <= LastFrameSent[Peer(e)]
  BY <1>0, <1>4, WindowFacts, TypeFacts, PeerFacts
<1>7. Rxq' = [Rxq EXCEPT ![e][pos] = n]
  BY <1>1
<1>8. Hold(e, n)
  BY <1>1
<1> HIDE DEF n, pos
<1>9. TypeOK'
  <2>1. \A f \in Endpoint : SentButNotAcked'[f] \subseteq Slots(f) /\ Acked'[f] \subseteq Int
    BY <1>0, <1>1, RendezvousFacts, TypeFacts, PeerFacts
  <2>2. \A f \in Endpoint : Handoff'[f] \subseteq Packet /\ \A a, b \in Handoff'[f] : a = b
    BY <1>0, <1>1, RendezvousFacts DEF TypeOK
  <2>3. DOMAIN RcvdButNotConsumed' = Endpoint
        /\ \A f \in Endpoint : RcvdButNotConsumed'[f] \subseteq Nat
    BY <1>0, <1>4, <1>8, HoldType
  <2>4. DOMAIN Rxq' = Endpoint /\ \A f \in Endpoint : Rxq'[f] \in [Slots(f) -> FrameNum]
    <3>1. n \in FrameNum
      BY <1>6 DEF FrameNum, NoSeq
    <3> QED BY <1>0, <1>6, <1>7, <3>1 DEF TypeOK
  <2>5. /\ DOMAIN SentButNotAcked' = Endpoint /\ DOMAIN Acked' = Endpoint
        /\ DOMAIN Handoff' = Endpoint /\ LastSeenAvailReaderMsgCap' \in [Endpoint -> Int]
    BY <1>1, RendezvousFacts
  <2> QED BY <1>0, <1>2, <1>3, <2>1, <2>2, <2>3, <2>4, <2>5 DEF TypeOK
<1>10. PacketsAreHonest'
  <2>1. \A f \in Endpoint : LastFrameSent[f] \in Int /\ LastFrameClientConsumed[f] \in Int
    BY <1>0, TypeFacts
  <2>2. \A f \in Endpoint : \A a \in Handoff'[f] : a \in Handoff[f]
    BY <1>1, RendezvousFacts
  <2> QED BY <1>0, <1>2, <1>3, <1>9, <2>1, <2>2, PacketsStayHonest
<1>11. SenderIsHonest'
  BY <1>0, <1>1, <1>2, <1>3, RendezvousFacts DEF SenderIsHonest
<1>12. HistoryIsInOrder'
  BY <1>0, <1>2, <1>3 DEF HistoryIsInOrder
<1>13. BufferedIsInWindow'
  <2> SUFFICES ASSUME NEW f \in Endpoint, NEW i \in Slots(f), Rxq'[f][i] # NoSeq
               PROVE  /\ Rxq'[f][i] % Window[f] = i
                      /\ NextFrameExpected[f] < Rxq'[f][i]
                      /\ Rxq'[f][i] < NextFrameExpected[f] + Window[f]
                      /\ Rxq'[f][i] <= LastFrameSent[Peer(f)]
    BY <1>2, <1>3 DEF BufferedIsInWindow
  <2>1. CASE f = e /\ i = pos
    <3>1. Rxq'[e][pos] = n
      BY <1>0, <1>6, <1>7 DEF TypeOK
    <3> QED BY <1>5, <1>6, <2>1, <3>1 DEF pos
  <2>2. CASE ~(f = e /\ i = pos)
    <3>1. Rxq'[f][i] = Rxq[f][i]
      BY <1>0, <1>7, <2>2 DEF TypeOK
    <3> QED BY <1>0, <3>1 DEF BufferedIsInWindow
  <2> QED BY <2>1, <2>2
<1> QED BY <1>9, <1>10, <1>11, <1>12, <1>13 DEF DataPathInv

-----------------------------------------------------------------------------
(* Sequences of frames. *)

LEMMA ConcatFacts ==
  ASSUME NEW s \in Seq(Nat), NEW t \in Seq(Nat)
  PROVE  /\ s \o t \in Seq(Nat) /\ Len(s \o t) = Len(s) + Len(t)
         /\ \A i \in 1..(Len(s) + Len(t)) : (s \o t)[i] = IF i <= Len(s) THEN s[i] ELSE t[i - Len(s)]
  OBVIOUS

LEMMA FrontFacts ==
  ASSUME NEW s \in Seq(Nat), NEW k \in 1..Len(s)
  PROVE  /\ SubSeq(s, 1, k) \in Seq(Nat) /\ Len(SubSeq(s, 1, k)) = k
         /\ \A i \in 1..k : SubSeq(s, 1, k)[i] = s[i]
  OBVIOUS

LEMMA BackFacts ==
  ASSUME NEW s \in Seq(Nat), NEW k \in 1..Len(s)
  PROVE  /\ SubSeq(s, k + 1, Len(s)) \in Seq(Nat) /\ Len(SubSeq(s, k + 1, Len(s))) = Len(s) - k
         /\ \A i \in 1..(Len(s) - k) : SubSeq(s, k + 1, Len(s))[i] = s[k + i]
  OBVIOUS

-----------------------------------------------------------------------------
(* The in-order run: the slots the loop empties hold exactly the next       *)
(* frames, and what stays behind lies beyond the first gap.                 *)

\* A window's slots q, each holding a frame of [first, first+w) that belongs
\* there, with frame first present (recv.go:522-547).
IsWindowOf(q, w, first) ==
  /\ q \in [0..(w - 1) -> FrameNum]
  /\ q[first % w] = first
  /\ \A i \in 0..(w - 1) : q[i] # NoSeq => /\ q[i] % w = i
                                         /\ first <= q[i] /\ q[i] < first + w

\* The k slots from frame first on hold the next k frames.
RunIsHere(q, w, first, k) == \A j \in 0..(k - 1) : q[(first + j) % w] = first + j

LEMMA RunIsConsecutive ==
  ASSUME NEW w \in Nat \ {0}, NEW first \in Nat, NEW q, IsWindowOf(q, w, first),
         NEW k \in 1..w, IsReceivedRun(q, w, first, k)
  PROVE  \A j \in 0..(k - 1) : q[(first + j) % w] = first + j
<1> SUFFICES ASSUME NEW j \in 0..(k - 1)
             PROVE  q[(first + j) % w] = first + j
  OBVIOUS
<1> DEFINE i == (first + j) % w
           n == q[i]
<1>1. first + j \in Nat /\ j < w /\ i \in 0..(w - 1)
  BY DivMod
<1>2. n # NoSeq
  BY DEF IsReceivedRun
<1>3. n \in Int /\ n % w = i /\ first <= n /\ n < first + w
  BY <1>1, <1>2 DEF IsWindowOf, FrameNum
<1>4. n \in Nat
  BY <1>3
<1> HIDE DEF n
<1>5. n % w = (first + j) % w /\ n < (first + j) + w /\ first + j < n + w
  BY <1>1, <1>3, <1>4
<1>6. n = first + j
  BY <1>1, <1>4, <1>5, ModInjective
<1> QED BY <1>6 DEF n

LEMMA RunHolds ==
  ASSUME NEW w \in Nat \ {0}, NEW first \in Nat, NEW q, IsWindowOf(q, w, first),
         NEW k \in 1..w, IsReceivedRun(q, w, first, k)
  PROVE  RunIsHere(q, w, first, k)
<1>1. \A j \in 0..(k - 1) : q[(first + j) % w] = first + j
  BY RunIsConsecutive
<1> QED BY <1>1 DEF RunIsHere

LEMMA DrainedIsBeyond ==
  ASSUME NEW w \in Nat \ {0}, NEW first \in Nat, NEW q, IsWindowOf(q, w, first),
         NEW k \in 1..w, IsReceivedRun(q, w, first, k)
  PROVE  /\ Drained(q, w, first, k) \in [0..(w - 1) -> FrameNum]
         /\ \A i \in 0..(w - 1) :
              LET n == Drained(q, w, first, k)[i]
              IN n # NoSeq => n = q[i] /\ first + k < n
<1> DEFINE d == Drained(q, w, first, k)
<1>1. q \in [0..(w - 1) -> FrameNum] /\ NoSeq \in FrameNum
  BY DEF IsWindowOf, FrameNum, NoSeq
<1>2. d \in [0..(w - 1) -> FrameNum]
  BY <1>1 DEF Drained
<1>3. ASSUME NEW i \in 0..(w - 1), d[i] # NoSeq
      PROVE  d[i] = q[i] /\ first + k < d[i]
  <2>1. d[i] = q[i] /\ \A j \in 0..(k - 1) : i # (first + j) % w
    BY <1>1, <1>3 DEF Drained
  <2> DEFINE n == q[i]
             j == n - first
  <2>2. n \in Int /\ n % w = i /\ first <= n /\ n < first + w
    BY <1>3, <2>1 DEF IsWindowOf, FrameNum
  <2>3. j \in 0..(w - 1) /\ first + j = n
    BY <2>2
  <2>4. ~(j \in 0..(k - 1))
    BY <2>1, <2>2, <2>3
  <2>5. j # k
    BY <1>3, <2>1, <2>2, <2>3 DEF IsReceivedRun
  <2> HIDE DEF n
  <2>6. first + k < n
    BY <2>2, <2>3, <2>4, <2>5
  <2> QED BY <2>1, <2>6 DEF n
<1> QED BY <1>2, <1>3

\* The next frame makes a run of consecutive frames ready.
LEMMA InOrderDataInv ==
  ASSUME DataPathInv, NEW e \in Endpoint, InOrderData(e)
  PROVE  DataPathInv'
<1> DEFINE nfe == NextFrameExpected[e]
           w == Window[e]
           q == [Rxq[e] EXCEPT ![nfe % w] = nfe]
<1>0. TypeOK /\ PacketsAreHonest /\ SenderIsHonest /\ HistoryIsInOrder /\ BufferedIsInWindow
  BY DEF DataPathInv
<1>1. PICK m \in Handoff[e] : m.type = "Data" /\ m.seq = nfe /\ Rendezvous(e, m)
  BY DEF InOrderData
<1>2. Hold(e, nfe)
  BY DEF InOrderData
<1>3. PICK k \in 1..w :
        /\ IsReceivedRun(q, w, nfe, k)
        /\ ReadyForDelivery' = [ReadyForDelivery EXCEPT ![e] =
                                  @ \o [j \in 1..k |-> q[(nfe + j - 1) % w]]]
        /\ Rxq' = [Rxq EXCEPT ![e] = Drained(q, w, nfe, k)]
        /\ NextFrameExpected' = [NextFrameExpected EXCEPT ![e] = nfe + k]
  BY DEF InOrderData
<1>4. /\ UNCHANGED <<net, Consumed, LastMsgConsumed, LastFrameClientConsumed,
                     LargestSeqnoRcvd, AvailReaderMsgCap>>
      /\ recvLastFrameClientConsumed' =
           [recvLastFrameClientConsumed EXCEPT ![e] = LastFrameClientConsumed[e]]
  BY DEF InOrderData, consumeVars
<1>5. m \in Packet /\ PacketIsHonest(m) /\ m.from = Peer(e) /\ UNCHANGED <<LastFrameSent, Txq>>
  BY <1>1, RendezvousFacts
<1>6. nfe \in Nat /\ w \in Nat \ {0} /\ k \in Nat /\ k >= 1 /\ k <= w
      /\ Slots(e) = 0..(w - 1) /\ nfe % w \in 0..(w - 1)
  BY <1>0, <1>3, TypeFacts, WindowFacts, DivMod DEF Slots
<1>7. nfe <= LastFrameSent[Peer(e)] /\ LastFrameSent[Peer(e)] \in Int
  BY <1>0, <1>1, <1>5, PeerFacts, TypeFacts DEF PacketIsHonest
<1>8. \A i \in 0..(w - 1) : q[i] = IF i = nfe % w THEN nfe ELSE Rxq[e][i]
  BY <1>0, <1>6 DEF TypeOK
<1>9. \A i \in 0..(w - 1) : q[i] # NoSeq => q[i] \in Int /\ q[i] <= LastFrameSent[Peer(e)]
  BY <1>0, <1>6, <1>7, <1>8, TypeFacts DEF BufferedIsInWindow
<1>10. IsWindowOf(q, w, nfe)
  <2>1. q \in [0..(w - 1) -> FrameNum]
    <3>1. nfe \in FrameNum
      BY <1>6 DEF FrameNum, NoSeq
    <3> QED BY <1>0, <1>6, <3>1 DEF TypeOK
  <2>2. \A i \in 0..(w - 1) : Rxq[e][i] # NoSeq =>
          Rxq[e][i] % w = i /\ nfe < Rxq[e][i] /\ Rxq[e][i] < nfe + w /\ Rxq[e][i] \in Int
    BY <1>0, <1>6, TypeFacts DEF BufferedIsInWindow
  <2>3. \A i \in 0..(w - 1) : q[i] # NoSeq =>
          q[i] % w = i /\ nfe <= q[i] /\ q[i] < nfe + w
    BY <1>6, <1>8, <2>2
  <2> HIDE DEF q
  <2> QED BY <1>6, <1>8, <2>1, <2>3 DEF IsWindowOf
<1> HIDE DEF q, nfe, w
<1>11. \A j \in 1..k : q[(nfe + j - 1) % w] = nfe + j - 1
  <2> TAKE j \in 1..k
  <2>1. \A c \in 0..(k - 1) : q[(nfe + c) % w] = nfe + c
    BY <1>3, <1>6, <1>10, RunIsConsecutive
  <2>2. j - 1 \in 0..(k - 1)
    BY <1>6
  <2>3. PICK c \in 0..(k - 1) : c = j - 1
    BY <2>2
  <2>4. nfe + c = nfe + j - 1
    BY <1>6, <2>3
  <2> QED BY <2>1, <2>4
<1>12. nfe + k - 1 <= LastFrameSent[Peer(e)]
  <2>1. q[(nfe + k - 1) % w] = nfe + k - 1
    <3>1. k \in 1..k
      BY <1>6
    <3> QED BY <1>11, <3>1, Zenon
  <2>2. (nfe + k - 1) \in Nat /\ (nfe + k - 1) % w \in 0..(w - 1)
    BY <1>6, DivMod
  <2> QED BY <1>6, <1>9, <2>1, <2>2 DEF NoSeq
<1>13. /\ Drained(q, w, nfe, k) \in [0..(w - 1) -> FrameNum]
       /\ \A i \in 0..(w - 1) :
            LET n == Drained(q, w, nfe, k)[i]
            IN n # NoSeq => n = q[i] /\ nfe + k < n
  BY <1>3, <1>6, <1>10, DrainedIsBeyond
<1>14. ReadyForDelivery' =
         [ReadyForDelivery EXCEPT ![e] = @ \o [j \in 1..k |-> nfe + j - 1]]
  BY <1>3, <1>11
<1>15. /\ NextFrameExpected'[e] = nfe + k
       /\ \A i \in Slots(e) : Rxq'[e][i] = Drained(q, w, nfe, k)[i]
       /\ \A f \in Endpoint : f # e =>
            /\ NextFrameExpected'[f] = NextFrameExpected[f]
            /\ Rxq'[f] = Rxq[f]
            /\ ReadyForDelivery'[f] = ReadyForDelivery[f]
  BY <1>0, <1>3 DEF TypeOK
<1>16. /\ ReadyForDelivery'[e] \in Seq(Nat)
       /\ Len(ReadyForDelivery'[e]) = Len(ReadyForDelivery[e]) + k
       /\ \A i \in 1..(Len(ReadyForDelivery[e]) + k) :
            ReadyForDelivery'[e][i] = IF i <= Len(ReadyForDelivery[e])
                                      THEN ReadyForDelivery[e][i]
                                      ELSE nfe + (i - Len(ReadyForDelivery[e])) - 1
  <2> DEFINE r == ReadyForDelivery[e]
             t == [j \in 1..k |-> nfe + j - 1]
  <2>1. r \in Seq(Nat)
    BY <1>0, TypeFacts
  <2>2. t \in Seq(Nat) /\ Len(t) = k /\ \A j \in 1..k : t[j] = nfe + j - 1
    BY <1>6
  <2>3. ReadyForDelivery'[e] = r \o t
    BY <1>0, <1>14 DEF TypeOK
  <2> HIDE DEF r, t
  <2>4. /\ r \o t \in Seq(Nat) /\ Len(r \o t) = Len(r) + k
        /\ \A i \in 1..(Len(r) + k) : (r \o t)[i] = IF i <= Len(r) THEN r[i] ELSE t[i - Len(r)]
    BY <2>1, <2>2, ConcatFacts
  <2>5. \A i \in 1..(Len(r) + k) : ~(i <= Len(r)) => t[i - Len(r)] = nfe + (i - Len(r)) - 1
    BY <1>6, <2>1, <2>2
  <2> QED BY <2>3, <2>4, <2>5 DEF r
<1>17. TypeOK'
  <2>1. \A f \in Endpoint : SentButNotAcked'[f] \subseteq Slots(f) /\ Acked'[f] \subseteq Int
    BY <1>0, <1>1, RendezvousFacts, TypeFacts, PeerFacts
  <2>2. \A f \in Endpoint : Handoff'[f] \subseteq Packet /\ \A a, b \in Handoff'[f] : a = b
    BY <1>0, <1>1, RendezvousFacts DEF TypeOK
  <2>3. DOMAIN RcvdButNotConsumed' = Endpoint
        /\ \A f \in Endpoint : RcvdButNotConsumed'[f] \subseteq Nat
    BY <1>0, <1>2, <1>6, HoldType
  <2>4. DOMAIN Rxq' = Endpoint /\ \A f \in Endpoint : Rxq'[f] \in [Slots(f) -> FrameNum]
    <3>1. DOMAIN Rxq = Endpoint /\ \A f \in Endpoint : Rxq[f] \in [Slots(f) -> FrameNum]
      BY <1>0 DEF TypeOK
    <3>2. Drained(q, w, nfe, k) \in [Slots(e) -> FrameNum]
      BY <1>6, <1>13
    <3> QED BY <1>3, <3>1, <3>2
  <2>5. /\ DOMAIN SentButNotAcked' = Endpoint /\ DOMAIN Acked' = Endpoint
        /\ DOMAIN Handoff' = Endpoint /\ LastSeenAvailReaderMsgCap' \in [Endpoint -> Int]
    BY <1>1, RendezvousFacts
  <2>6. NextFrameExpected' \in [Endpoint -> Nat]
    BY <1>0, <1>3, <1>6 DEF TypeOK
  <2>7. ReadyForDelivery' \in [Endpoint -> Seq(Nat)]
    BY <1>0, <1>14, <1>16 DEF TypeOK
  <2>8. recvLastFrameClientConsumed' \in [Endpoint -> Nat]
    BY <1>0, <1>4 DEF TypeOK
  <2> QED BY <1>0, <1>4, <1>5, <2>1, <2>2, <2>3, <2>4, <2>5, <2>6, <2>7, <2>8 DEF TypeOK
<1>18. PacketsAreHonest'
  <2>1. \A f \in Endpoint : LastFrameSent[f] \in Int /\ LastFrameClientConsumed[f] \in Int
    BY <1>0, TypeFacts
  <2>2. \A f \in Endpoint : \A a \in Handoff'[f] : a \in Handoff[f]
    BY <1>1, RendezvousFacts
  <2> QED BY <1>0, <1>4, <1>5, <1>17, <2>1, <2>2, PacketsStayHonest
<1>19. SenderIsHonest'
  <2>1. \A f \in Endpoint : recvLastFrameClientConsumed'[f] <= LastFrameClientConsumed[f]
    BY <1>0, <1>4, TypeFacts DEF TypeOK, SenderIsHonest
  <2> QED BY <1>0, <1>1, <1>4, <1>5, <2>1, RendezvousFacts DEF SenderIsHonest
<1>20. HistoryIsInOrder'
  <2> SUFFICES ASSUME NEW f \in Endpoint
               PROVE  /\ \A i \in 1..Len(ReadyForDelivery'[f]) :
                            ReadyForDelivery'[f][i] = Len(Consumed[f]) + i - 1
                      /\ NextFrameExpected'[f] = Len(Consumed[f]) + Len(ReadyForDelivery'[f])
                      /\ NextFrameExpected'[f] <= LastFrameSent[Peer(f)] + 1
    BY <1>0, <1>4, <1>5 DEF HistoryIsInOrder
  <2>1. CASE f = e
    <3>1. /\ \A i \in 1..Len(ReadyForDelivery[e]) :
               ReadyForDelivery[e][i] = Len(Consumed[e]) + i - 1
          /\ nfe = Len(Consumed[e]) + Len(ReadyForDelivery[e])
      BY <1>0 DEF HistoryIsInOrder, nfe
    <3>2. Len(Consumed[e]) \in Nat /\ Len(ReadyForDelivery[e]) \in Nat
      BY <1>0, TypeFacts
    <3> DEFINE c == Len(Consumed[e])
               l == Len(ReadyForDelivery[e])
               r == ReadyForDelivery'[e]
    <3>3. /\ c \in Nat /\ l \in Nat /\ k \in Nat /\ nfe = c + l /\ Len(r) = l + k
          /\ \A i \in 1..l : ReadyForDelivery[e][i] = c + i - 1
          /\ \A i \in 1..(l + k) : r[i] = IF i <= l THEN ReadyForDelivery[e][i] ELSE nfe + (i - l) - 1
      BY <1>6, <1>16, <3>1, <3>2
    <3> HIDE DEF c, l, r
    <3>4. (\A i \in 1..(l + k) : r[i] = c + i - 1) /\ nfe + k = c + Len(r)
      <4>1. nfe + k = c + Len(r)
        BY <3>3
      <4>2. ASSUME NEW i \in 1..(l + k)
            PROVE  r[i] = c + i - 1
        <5>1. CASE i <= l
          <6>1. i \in 1..l
            BY <3>3, <5>1
          <6> QED BY <3>3, <5>1, <6>1
        <5>2. CASE ~(i <= l)
          <6>1. r[i] = nfe + (i - l) - 1
            BY <3>3, <5>2
          <6> QED BY <3>3, <6>1
        <5> QED BY <5>1, <5>2
      <4> QED BY <4>1, <4>2
    <3>5. nfe + k <= LastFrameSent[Peer(e)] + 1
      BY <1>6, <1>7, <1>12
    <3> QED BY <1>15, <2>1, <3>3, <3>4, <3>5 DEF c, l, r
  <2>2. CASE f # e
    <3>1. NextFrameExpected'[f] = NextFrameExpected[f] /\ ReadyForDelivery'[f] = ReadyForDelivery[f]
      BY <1>15, <2>2
    <3> QED BY <1>0, <3>1, ZenonT(30) DEF HistoryIsInOrder
  <2> QED BY <2>1, <2>2
<1>21. BufferedIsInWindow'
  <2> SUFFICES ASSUME NEW f \in Endpoint, NEW i \in Slots(f), Rxq'[f][i] # NoSeq
               PROVE  /\ Rxq'[f][i] % Window[f] = i
                      /\ NextFrameExpected'[f] < Rxq'[f][i]
                      /\ Rxq'[f][i] < NextFrameExpected'[f] + Window[f]
                      /\ Rxq'[f][i] <= LastFrameSent[Peer(f)]
    BY <1>4, <1>5 DEF BufferedIsInWindow
  <2>1. CASE f = e
    <3>1. i \in 0..(w - 1) /\ Window[f] = w
      BY <1>6, <2>1 DEF w
    <3>2. Rxq'[f][i] = q[i] /\ q[i] # NoSeq /\ nfe + k < q[i]
      BY <1>13, <1>15, <2>1, <3>1
    <3>3. q[i] % w = i /\ q[i] < nfe + w /\ q[i] \in Int
      BY <1>9, <1>10, <3>1, <3>2 DEF IsWindowOf
    <3>4. q[i] <= LastFrameSent[Peer(e)]
      BY <1>9, <3>1, <3>2
    <3> QED BY <1>6, <1>15, <2>1, <3>1, <3>2, <3>3, <3>4
  <2>2. CASE f # e
    BY <1>0, <1>15, <2>2 DEF BufferedIsInWindow
  <2> QED BY <2>1, <2>2
<1> QED BY <1>17, <1>18, <1>19, <1>20, <1>21 DEF DataPathInv

-----------------------------------------------------------------------------
(* The application takes ready messages, and the last one is acknowledged.  *)

LEMMA ConsumeInv ==
  ASSUME DataPathInv, NEW e \in Endpoint, NEW k \in 1..Len(ReadyForDelivery[e]), Consume(e, k)
  PROVE  DataPathInv'
<1> DEFINE ready == ReadyForDelivery[e]
           done == Consumed[e]
           last == ready[k]
<1>0. TypeOK /\ PacketsAreHonest /\ SenderIsHonest /\ HistoryIsInOrder /\ BufferedIsInWindow
  BY DEF DataPathInv
<1>1. /\ Consumed' = [Consumed EXCEPT ![e] = done \o SubSeq(ready, 1, k)]
      /\ ReadyForDelivery' = [ReadyForDelivery EXCEPT ![e] = SubSeq(ready, k + 1, Len(ready))]
      /\ RcvdButNotConsumed' = [RcvdButNotConsumed EXCEPT ![e] =
                                  @ \ {SubSeq(ready, 1, k)[i] : i \in 1..k}]
      /\ LastMsgConsumed' = [LastMsgConsumed EXCEPT ![e] = last]
      /\ LastFrameClientConsumed' = [LastFrameClientConsumed EXCEPT ![e] = last]
      /\ SendAck(e, last, last)
      /\ UNCHANGED <<LastFrameSent, Txq, SentButNotAcked, LastSeenAvailReaderMsgCap, Acked,
                     NextFrameExpected, Rxq, LargestSeqnoRcvd, Handoff, recvLastFrameClientConsumed>>
  BY DEF Consume, sendVars, orderVars
<1>2. /\ ready \in Seq(Nat) /\ done \in Seq(Nat) /\ k \in 1..Len(ready)
      /\ Len(ready) \in Nat /\ Len(done) \in Nat /\ k \in Nat
  BY <1>0, TypeFacts
<1>3. /\ \A i \in 1..Len(done) : done[i] = i - 1
      /\ \A i \in 1..Len(ready) : ready[i] = Len(done) + i - 1
      /\ NextFrameExpected[e] = Len(done) + Len(ready)
      /\ LastFrameClientConsumed[e] = IF done = << >> THEN 0 ELSE Len(done) - 1
  BY <1>0 DEF HistoryIsInOrder
<1>4. last = Len(done) + k - 1 /\ last \in Nat
  <2> HIDE DEF ready, done
  <2>1. ready[k] = Len(done) + k - 1
    BY <1>2, <1>3
  <2> QED BY <1>2, <2>1
<1>5. \A f \in Endpoint :
        /\ LastFrameClientConsumed'[f] = IF f = e THEN last ELSE LastFrameClientConsumed[f]
        /\ LastMsgConsumed'[f] = IF f = e THEN last ELSE LastMsgConsumed[f]
        /\ Consumed'[f] = IF f = e THEN done \o SubSeq(ready, 1, k) ELSE Consumed[f]
        /\ ReadyForDelivery'[f] = IF f = e THEN SubSeq(ready, k + 1, Len(ready))
                                         ELSE ReadyForDelivery[f]
  BY <1>0, <1>1 DEF TypeOK
<1>6. LastFrameClientConsumed[e] <= last
  BY <1>2, <1>3, <1>4
<1> HIDE DEF ready, done, last
<1>7. /\ SubSeq(ready, 1, k) \in Seq(Nat) /\ Len(SubSeq(ready, 1, k)) = k
      /\ \A i \in 1..k : SubSeq(ready, 1, k)[i] = ready[i]
      /\ SubSeq(ready, k + 1, Len(ready)) \in Seq(Nat)
      /\ Len(SubSeq(ready, k + 1, Len(ready))) = Len(ready) - k
      /\ \A i \in 1..(Len(ready) - k) : SubSeq(ready, k + 1, Len(ready))[i] = ready[k + i]
  BY <1>2, FrontFacts, BackFacts
<1>8. /\ done \o SubSeq(ready, 1, k) \in Seq(Nat)
      /\ Len(done \o SubSeq(ready, 1, k)) = Len(done) + k
      /\ \A i \in 1..(Len(done) + k) :
           (done \o SubSeq(ready, 1, k))[i] =
             IF i <= Len(done) THEN done[i] ELSE SubSeq(ready, 1, k)[i - Len(done)]
  BY <1>2, <1>7, ConcatFacts
<1>9. PICK p \in Packet : /\ net' \subseteq net \cup {p}
                         /\ p.type # "Data" /\ p.seq < 0 /\ p.from = e /\ p.ack = last
  BY <1>0, <1>1, <1>4, SendAckFacts
<1>10. AvailReaderMsgCap' \in [Endpoint -> Nat]
  BY <1>0, <1>1, <1>4, SendAckFacts
<1>11. TypeOK'
  <2>1. net' \subseteq Packet
    BY <1>0, <1>9 DEF TypeOK
  <2>2. ReadyForDelivery' \in [Endpoint -> Seq(Nat)] /\ Consumed' \in [Endpoint -> Seq(Nat)]
    BY <1>0, <1>1, <1>7, <1>8 DEF TypeOK
  <2>3. LastMsgConsumed' \in [Endpoint -> FrameNum] /\ LastFrameClientConsumed' \in [Endpoint -> Nat]
    <3>1. last \in FrameNum
      BY <1>4 DEF FrameNum, NoSeq
    <3> QED BY <1>0, <1>1, <1>4, <3>1 DEF TypeOK
  <2>4. DOMAIN RcvdButNotConsumed' = Endpoint
        /\ \A f \in Endpoint : RcvdButNotConsumed'[f] \subseteq Nat
    BY <1>0, <1>1 DEF TypeOK
  <2> QED BY <1>0, <1>1, <1>10, <2>1, <2>2, <2>3, <2>4 DEF TypeOK
<1>12. \A f \in Endpoint : LastFrameSent[f] \in Int
                          /\ LastFrameClientConsumed[f] <= LastFrameClientConsumed'[f]
  BY <1>0, <1>5, <1>6, TypeFacts
<1>13. PacketsAreHonest'
  <2>1. PacketIsHonest(p)'
    BY <1>4, <1>5, <1>9 DEF PacketIsHonest
  <2> QED BY <1>0, <1>1, <1>9, <1>11, <1>12, <2>1, TypeFacts, PacketsStayHonest
<1>14. SenderIsHonest'
  <2> SUFFICES ASSUME NEW f \in Endpoint
               PROVE  /\ Acked[f] \subseteq 0..LastFrameClientConsumed'[Peer(f)]
                      /\ recvLastFrameClientConsumed[f] <= LastFrameClientConsumed'[f]
    BY <1>0, <1>1 DEF SenderIsHonest
  <2>1. Acked[f] \subseteq 0..LastFrameClientConsumed[Peer(f)]
        /\ recvLastFrameClientConsumed[f] <= LastFrameClientConsumed[f]
    BY <1>0 DEF SenderIsHonest
  <2>2. \A g \in Endpoint : LastFrameClientConsumed[g] \in Nat /\ LastFrameClientConsumed'[g] \in Nat
    BY <1>0, <1>4, <1>5, TypeFacts
  <2>3. recvLastFrameClientConsumed[f] \in Nat
    BY <1>0, TypeFacts
  <2> QED BY <1>12, <2>1, <2>2, <2>3, PeerFacts
<1>15. HistoryIsInOrder'
  <2> SUFFICES ASSUME NEW f \in Endpoint
               PROVE  /\ \A i \in 1..Len(Consumed'[f]) : Consumed'[f][i] = i - 1
                      /\ \A i \in 1..Len(ReadyForDelivery'[f]) :
                            ReadyForDelivery'[f][i] = Len(Consumed'[f]) + i - 1
                      /\ NextFrameExpected[f] = Len(Consumed'[f]) + Len(ReadyForDelivery'[f])
                      /\ LastMsgConsumed'[f] = Len(Consumed'[f]) - 1
                      /\ LastFrameClientConsumed'[f] =
                           IF Consumed'[f] = << >> THEN 0 ELSE LastMsgConsumed'[f]
    BY <1>0, <1>1 DEF HistoryIsInOrder
  <2>1. CASE f = e
    <3>1. ASSUME NEW i \in 1..(Len(done) + k)
          PROVE  (done \o SubSeq(ready, 1, k))[i] = i - 1
      <4>1. CASE i <= Len(done)
        <5>1. i \in 1..Len(done)
          BY <1>2, <4>1
        <5> QED BY <1>3, <1>8, <4>1, <5>1
      <4>2. CASE ~(i <= Len(done))
        <5>1. i - Len(done) \in 1..k /\ i - Len(done) \in 1..Len(ready)
          BY <1>2, <4>2
        <5>2. ready[i - Len(done)] = Len(done) + (i - Len(done)) - 1
          BY <1>3, <5>1
        <5>3. (done \o SubSeq(ready, 1, k))[i] = ready[i - Len(done)]
          BY <1>7, <1>8, <4>2, <5>1
        <5> QED BY <1>2, <5>2, <5>3
      <4> QED BY <4>1, <4>2
    <3>2. ASSUME NEW i \in 1..(Len(ready) - k)
          PROVE  SubSeq(ready, k + 1, Len(ready))[i] = Len(done) + k + i - 1
      <4>1. k + i \in 1..Len(ready)
        BY <1>2
      <4>2. ready[k + i] = Len(done) + (k + i) - 1
        BY <1>3, <4>1
      <4>3. SubSeq(ready, k + 1, Len(ready))[i] = ready[k + i]
        BY <1>7
      <4> QED BY <1>2, <4>2, <4>3
    <3>3. NextFrameExpected[e] = Len(done) + k + (Len(ready) - k)
      <4>1. NextFrameExpected[e] = Len(done) + Len(ready)
        BY <1>3
      <4> QED BY <1>2, <4>1
    <3>4. done \o SubSeq(ready, 1, k) # << >>
      <4>1. Len(done \o SubSeq(ready, 1, k)) # 0
        BY <1>2, <1>8
      <4>2. Len(<< >>) = 0
        OBVIOUS
      <4> QED BY <4>1, <4>2, Zenon
    <3>5. /\ Consumed'[f] = done \o SubSeq(ready, 1, k)
          /\ ReadyForDelivery'[f] = SubSeq(ready, k + 1, Len(ready))
          /\ LastMsgConsumed'[f] = last /\ LastFrameClientConsumed'[f] = last
      BY <1>5, <2>1
    <3>6. last = Len(done) + k - 1
      BY <1>4
    <3> DEFINE taken == done \o SubSeq(ready, 1, k)
               left == SubSeq(ready, k + 1, Len(ready))
    <3>7. /\ Len(taken) = Len(done) + k /\ Len(left) = Len(ready) - k /\ taken # << >>
          /\ \A i \in 1..(Len(done) + k) : taken[i] = i - 1
          /\ \A i \in 1..(Len(ready) - k) : left[i] = Len(done) + k + i - 1
          /\ Consumed'[f] = taken /\ ReadyForDelivery'[f] = left
      BY <1>7, <1>8, <3>1, <3>2, <3>4, <3>5
    <3> HIDE DEF taken, left
    <3>8. NextFrameExpected[f] = Len(taken) + Len(left)
      BY <2>1, <3>3, <3>7
    <3>9. \A i \in 1..Len(left) : left[i] = Len(taken) + i - 1
      BY <3>7
    <3>10. last = Len(taken) - 1
      BY <3>6, <3>7
    <3>11. /\ \A i \in 1..Len(taken) : taken[i] = i - 1
           /\ last = Len(taken) - 1 /\ taken # << >>
      BY <3>7, <3>10
    <3> QED BY <3>5, <3>7, <3>8, <3>9, <3>11
  <2>2. CASE f # e
    <3>1. /\ Consumed'[f] = Consumed[f] /\ ReadyForDelivery'[f] = ReadyForDelivery[f]
          /\ LastMsgConsumed'[f] = LastMsgConsumed[f]
          /\ LastFrameClientConsumed'[f] = LastFrameClientConsumed[f]
      BY <1>5, <2>2
    <3>2. /\ \A i \in 1..Len(Consumed[f]) : Consumed[f][i] = i - 1
          /\ \A i \in 1..Len(ReadyForDelivery[f]) :
               ReadyForDelivery[f][i] = Len(Consumed[f]) + i - 1
          /\ NextFrameExpected[f] = Len(Consumed[f]) + Len(ReadyForDelivery[f])
          /\ LastMsgConsumed[f] = Len(Consumed[f]) - 1
          /\ LastFrameClientConsumed[f] =
               IF Consumed[f] = << >> THEN 0 ELSE LastMsgConsumed[f]
      BY <1>0 DEF HistoryIsInOrder
    <3> QED BY <3>1, <3>2
  <2> QED BY <2>1, <2>2
<1>16. BufferedIsInWindow'
  BY <1>0, <1>1 DEF BufferedIsInWindow
<1> QED BY <1>11, <1>13, <1>14, <1>15, <1>16 DEF DataPathInv

-----------------------------------------------------------------------------
(* The invariant, and what follows from it.                                 *)

\* Every step of either session or of the network keeps the invariant.
LEMMA NextInv ==
  ASSUME DataPathInv, [Next]_vars
  PROVE  DataPathInv'
<1>1. ASSUME NEW e \in Endpoint, SendLoop(e)
      PROVE  DataPathInv'
  BY <1>1, AcceptSendInv, RetryInv, KeepAliveInv DEF SendLoop
<1>2. ASSUME NEW e \in Endpoint, HandleHandoff(e)
      PROVE  DataPathInv'
  BY <1>2, RecvInfoInv, RecvKeepAliveInv, DiscardDataInv, BufferDataInv, InOrderDataInv
     DEF HandleHandoff
<1>3. ASSUME NEW e \in Endpoint, ReadByApp(e)
      PROVE  DataPathInv'
  <2>1. CASE DeliverToConsumer(e)
    <3>1. Len(ReadyForDelivery[e]) \in Nat /\ ReadyForDelivery[e] \in Seq(Nat)
      BY TypeFacts DEF DataPathInv
    <3>2. ReadyForDelivery[e] # << >> /\ Consume(e, Len(ReadyForDelivery[e]))
      BY <2>1 DEF DeliverToConsumer
    <3>3. Len(ReadyForDelivery[e]) \in 1..Len(ReadyForDelivery[e])
      BY <3>1, <3>2
    <3> QED BY <3>2, <3>3, ConsumeInv
  <2>2. CASE FillAsMuchAsPossible(e)
    BY <2>2, ConsumeInv DEF FillAsMuchAsPossible
  <2> QED BY <1>3, <2>1, <2>2 DEF ReadByApp
<1>4. ASSUME NEW e \in Endpoint, NEW m \in net, RecvPack(e, m)
      PROVE  DataPathInv'
  BY <1>4, RecvPackInv
<1>5. ASSUME NEW m \in net, Lose(m)
      PROVE  DataPathInv'
  BY <1>5, LoseInv
<1>6. CASE UNCHANGED vars
  BY <1>6 DEF vars, endpointVars, sendVars, orderVars, consumeVars, DataPathInv, TypeOK,
              PacketsAreHonest, PacketIsHonest, SenderIsHonest, HistoryIsInOrder, BufferedIsInWindow
<1> QED BY <1>1, <1>2, <1>3, <1>4, <1>5, <1>6 DEF Next

\* The inductive invariant holds for windows of any sizes, for any number of
\* messages and whatever the network does.
THEOREM DataPathCorrect == Spec => []DataPathInv
<1>1. Init => DataPathInv
  BY InitInv
<1>2. DataPathInv /\ [Next]_vars => DataPathInv'
  BY NextInv
<1> QED BY <1>1, <1>2, PTL DEF Spec

\* Every field of the two sessions keeps its type; the recvloop offers the
\* sendloop at most one packet at a time.
THEOREM TypeCorrect == Spec => []TypeOK
<1>1. DataPathInv => TypeOK
  BY DEF DataPathInv
<1> QED BY <1>1, DataPathCorrect, PTL

\* What the application takes is what the peer pushed: each message once, in
\* order (the "for slot.Received" loop of recv.go).
THEOREM DeliveryInOrder == Spec => []InOrder
<1>1. ASSUME DataPathInv
      PROVE  InOrder
  <2> SUFFICES ASSUME NEW e \in Endpoint
               PROVE  /\ Len(Consumed[e] \o ReadyForDelivery[e]) = NextFrameExpected[e]
                      /\ \A i \in 1..Len(Consumed[e] \o ReadyForDelivery[e]) :
                            (Consumed[e] \o ReadyForDelivery[e])[i] = i - 1
                      /\ NextFrameExpected[e] <= LastFrameSent[Peer(e)] + 1
    BY DEF InOrder
  <2> DEFINE done == Consumed[e]
             ready == ReadyForDelivery[e]
  <2>0. TypeOK /\ HistoryIsInOrder
    BY <1>1 DEF DataPathInv
  <2>1. done \in Seq(Nat) /\ ready \in Seq(Nat) /\ Len(done) \in Nat /\ Len(ready) \in Nat
    BY <2>0, TypeFacts
  <2>2. /\ \A i \in 1..Len(done) : done[i] = i - 1
        /\ \A i \in 1..Len(ready) : ready[i] = Len(done) + i - 1
        /\ NextFrameExpected[e] = Len(done) + Len(ready)
        /\ NextFrameExpected[e] <= LastFrameSent[Peer(e)] + 1
    BY <2>0 DEF HistoryIsInOrder
  <2> HIDE DEF done, ready
  <2>3. /\ Len(done \o ready) = Len(done) + Len(ready)
        /\ \A i \in 1..(Len(done) + Len(ready)) :
             (done \o ready)[i] = IF i <= Len(done) THEN done[i] ELSE ready[i - Len(done)]
    BY <2>1, ConcatFacts
  <2>4. ASSUME NEW i \in 1..(Len(done) + Len(ready))
        PROVE  (done \o ready)[i] = i - 1
    <3>1. CASE i <= Len(done)
      <4>1. i \in 1..Len(done)
        BY <2>1, <3>1
      <4> QED BY <2>2, <2>3, <3>1, <4>1
    <3>2. CASE ~(i <= Len(done))
      <4>1. i - Len(done) \in 1..Len(ready)
        BY <2>1, <3>2
      <4>2. ready[i - Len(done)] = Len(done) + (i - Len(done)) - 1
        BY <2>2, <4>1
      <4>3. (done \o ready)[i] = ready[i - Len(done)]
        BY <2>3, <3>2
      <4> QED BY <2>1, <4>2, <4>3
    <3> QED BY <3>1, <3>2
  <2>5. /\ Len(done \o ready) = NextFrameExpected[e]
        /\ \A i \in 1..Len(done \o ready) : (done \o ready)[i] = i - 1
    BY <2>2, <2>3, <2>4
  <2> QED BY <2>2, <2>5 DEF done, ready
<1> QED BY <1>1, DataPathCorrect, PTL

\* A message is reported acknowledged only once the peer's application took it,
\* message 0 apart.
THEOREM AcksAreEndToEnd == Spec => []AckedWasConsumed
<1>1. ASSUME DataPathInv
      PROVE  AckedWasConsumed
  <2> SUFFICES ASSUME NEW e \in Endpoint, NEW n \in Acked[e], n # 0
               PROVE  n < Len(Consumed[Peer(e)])
    BY DEF AckedWasConsumed
  <2>0. TypeOK /\ SenderIsHonest /\ HistoryIsInOrder
    BY <1>1 DEF DataPathInv
  <2>1. Peer(e) \in Endpoint
    BY PeerFacts
  <2>2. n \in 0..LastFrameClientConsumed[Peer(e)]
    BY <2>0 DEF SenderIsHonest
  <2>3. LastFrameClientConsumed[Peer(e)] =
          IF Consumed[Peer(e)] = << >> THEN 0 ELSE Len(Consumed[Peer(e)]) - 1
    BY <2>0, <2>1 DEF HistoryIsInOrder
  <2>4. Len(Consumed[Peer(e)]) \in Nat
    BY <2>0, <2>1, TypeFacts
  <2> QED BY <2>2, <2>3, <2>4
<1> QED BY <1>1, DataPathCorrect, PTL

-----------------------------------------------------------------------------
(* The receiver's books: the count of held messages that keepalives and     *)
(* diagnostics report, and the slots of the receive window.  They rest on   *)
(* DataPathInv and hold for every value of the constants.                   *)

HeldInv == DataPathInv /\ HeldIsUnconsumed

LEMMA SumAtLeast ==
  ASSUME NEW a \in Nat, NEW b \in Nat
  PROVE  a + b >= a
  OBVIOUS

\* What DataPathInv says of one receiver.
LEMMA ReceiverFacts ==
  ASSUME DataPathInv, NEW e \in Endpoint
  PROVE  /\ Len(Consumed[e]) \in Nat /\ Len(ReadyForDelivery[e]) \in Nat
         /\ NextFrameExpected[e] = Len(Consumed[e]) + Len(ReadyForDelivery[e])
         /\ NextFrameExpected[e] >= Len(Consumed[e])
         /\ \A i \in 1..Len(ReadyForDelivery[e]) :
              ReadyForDelivery[e][i] = Len(Consumed[e]) + i - 1
         /\ \A i \in Slots(e) : Rxq[e][i] # NoSeq =>
              /\ Rxq[e][i] \in Nat /\ Rxq[e][i] % Window[e] = i
              /\ NextFrameExpected[e] < Rxq[e][i]
              /\ Rxq[e][i] < NextFrameExpected[e] + Window[e]
<1>1. TypeOK /\ HistoryIsInOrder /\ BufferedIsInWindow
  BY DEF DataPathInv
<1>2. Consumed[e] \in Seq(Nat) /\ ReadyForDelivery[e] \in Seq(Nat)
      /\ \A i \in Slots(e) : Rxq[e][i] \in Int /\ Rxq[e][i] >= -1
  BY <1>1, TypeFacts
<1>3. \A i \in Slots(e) : Rxq[e][i] # NoSeq => Rxq[e][i] \in Nat
  BY <1>2 DEF NoSeq
<1>4. Len(Consumed[e]) \in Nat /\ Len(ReadyForDelivery[e]) \in Nat
  BY <1>2
<1>5. NextFrameExpected[e] = Len(Consumed[e]) + Len(ReadyForDelivery[e])
  BY <1>1 DEF HistoryIsInOrder
<1>6. \A i \in Slots(e) : Rxq[e][i] # NoSeq =>
        /\ Rxq[e][i] % Window[e] = i
        /\ NextFrameExpected[e] < Rxq[e][i]
        /\ Rxq[e][i] < NextFrameExpected[e] + Window[e]
  BY <1>1 DEF BufferedIsInWindow
<1>7. NextFrameExpected[e] >= Len(Consumed[e])
  BY <1>4, <1>5, SumAtLeast, Zenon
<1>8. \A i \in 1..Len(ReadyForDelivery[e]) :
        ReadyForDelivery[e][i] = Len(Consumed[e]) + i - 1
  BY <1>1 DEF HistoryIsInOrder
<1> QED BY <1>3, <1>4, <1>5, <1>6, <1>7, <1>8

\* Either way of reading takes some of the ready messages.
LEMMA SomeReadIsConsume ==
  ASSUME DataPathInv, NEW e \in Endpoint, ReadByApp(e)
  PROVE  \E k \in 1..Len(ReadyForDelivery[e]) : Consume(e, k)
<1>1. CASE DeliverToConsumer(e)
  <2>1. Len(ReadyForDelivery[e]) \in Nat /\ ReadyForDelivery[e] \in Seq(Nat)
    BY TypeFacts DEF DataPathInv
  <2>2. ReadyForDelivery[e] # << >> /\ Consume(e, Len(ReadyForDelivery[e]))
    BY <1>1 DEF DeliverToConsumer
  <2>3. Len(ReadyForDelivery[e]) \in 1..Len(ReadyForDelivery[e])
    BY <2>1, <2>2
  <2> QED BY <2>2, <2>3
<1>2. CASE FillAsMuchAsPossible(e)
  BY <1>2 DEF FillAsMuchAsPossible
<1> QED BY <1>1, <1>2 DEF ReadByApp

\* Hold only adds frames that are still expected, and the frame itself if it is.
LEMMA HoldAdds ==
  ASSUME TypeOK, NEW e \in Endpoint, NEW n \in Int, Hold(e, n)
  PROVE  \A f \in Endpoint :
           /\ RcvdButNotConsumed[f] \subseteq RcvdButNotConsumed'[f]
           /\ \A h \in RcvdButNotConsumed'[f] :
                h \in RcvdButNotConsumed[f] \/ (f = e /\ h = n /\ NextFrameExpected[e] <= n)
           /\ f = e /\ NextFrameExpected[e] <= n => n \in RcvdButNotConsumed'[f]
<1>1. DOMAIN RcvdButNotConsumed = Endpoint /\ NextFrameExpected[e] \in Nat
  BY TypeFacts DEF TypeOK
<1>2. CASE n >= NextFrameExpected[e]
  BY <1>1, <1>2 DEF Hold
<1>3. CASE ~(n >= NextFrameExpected[e])
  BY <1>1, <1>3 DEF Hold
<1> QED BY <1>2, <1>3

\* A step that holds more, and consumes, readies and buffers nothing unheld.
LEMMA HeldGrows ==
  ASSUME DataPathInv, HeldIsUnconsumed, Consumed' = Consumed,
         NEW e \in Endpoint, NEW n \in Int, Hold(e, n),
         \A f \in Endpoint : \A i \in 1..Len(ReadyForDelivery'[f]) :
           \/ i \in 1..Len(ReadyForDelivery[f])
              /\ ReadyForDelivery'[f][i] = ReadyForDelivery[f][i]
           \/ ReadyForDelivery'[f][i] \in RcvdButNotConsumed'[f],
         \A f \in Endpoint : \A i \in Slots(f) :
           Rxq'[f][i] # NoSeq => \/ Rxq'[f][i] = Rxq[f][i]
                                 \/ Rxq'[f][i] \in RcvdButNotConsumed'[f]
  PROVE  HeldIsUnconsumed'
<1> SUFFICES ASSUME NEW f \in Endpoint
             PROVE  /\ \A i \in 1..Len(ReadyForDelivery'[f]) :
                         ReadyForDelivery'[f][i] \in RcvdButNotConsumed'[f]
                    /\ \A i \in Slots(f) :
                         Rxq'[f][i] # NoSeq => Rxq'[f][i] \in RcvdButNotConsumed'[f]
                    /\ \A h \in RcvdButNotConsumed'[f] : h >= Len(Consumed[f])
  BY DEF HeldIsUnconsumed
<1>1. /\ RcvdButNotConsumed[f] \subseteq RcvdButNotConsumed'[f]
      /\ \A h \in RcvdButNotConsumed'[f] :
           h \in RcvdButNotConsumed[f] \/ (f = e /\ h = n /\ NextFrameExpected[e] <= n)
  BY HoldAdds DEF DataPathInv
<1>2. /\ \A i \in 1..Len(ReadyForDelivery[f]) : ReadyForDelivery[f][i] \in RcvdButNotConsumed[f]
      /\ \A i \in Slots(f) : Rxq[f][i] # NoSeq => Rxq[f][i] \in RcvdButNotConsumed[f]
      /\ \A h \in RcvdButNotConsumed[f] : h >= Len(Consumed[f])
  BY DEF HeldIsUnconsumed
<1>3. \A h \in RcvdButNotConsumed'[f] : h >= Len(Consumed[f])
  <2>1. NextFrameExpected[e] >= Len(Consumed[e])
    BY ReceiverFacts
  <2>2. Len(Consumed[f]) \in Int /\ NextFrameExpected[f] \in Int
    <3>1. TypeOK
      BY DEF DataPathInv
    <3> QED BY <3>1, TypeFacts
  <2>3. f = e /\ NextFrameExpected[e] <= n => n >= Len(Consumed[f])
    BY <2>1, <2>2
  <2> QED BY <1>1, <1>2, <2>3
<1> QED BY <1>1, <1>2, <1>3

LEMMA BufferDataHeld ==
  ASSUME HeldInv, NEW e \in Endpoint, BufferData(e)
  PROVE  HeldIsUnconsumed'
<1>0. DataPathInv /\ HeldIsUnconsumed /\ TypeOK
  BY DEF HeldInv, DataPathInv
<1>1. PICK m \in Handoff[e] :
        /\ InRecvWindow(e, m.seq) /\ Rendezvous(e, m) /\ Hold(e, m.seq)
        /\ Rxq' = [Rxq EXCEPT ![e][m.seq % Window[e]] = m.seq]
  BY DEF BufferData
<1>2. UNCHANGED <<ReadyForDelivery, Consumed>>
  BY DEF BufferData, consumeVars
<1>3. m.seq \in Int
  BY <1>0, <1>1, RendezvousFacts DEF Packet
<1>4. PICK n \in Int : n = m.seq
  BY <1>3
<1>5. NextFrameExpected[e] <= n
  BY <1>1, <1>4 DEF InRecvWindow, InWindow
<1>6. n \in RcvdButNotConsumed'[e]
  BY <1>0, <1>1, <1>4, <1>5, HoldAdds
<1>7. Rxq' = [Rxq EXCEPT ![e][n % Window[e]] = n] /\ Hold(e, n)
  BY <1>1, <1>4
<1>8. \A f \in Endpoint : \A i \in Slots(f) :
        Rxq'[f][i] # NoSeq => Rxq'[f][i] = Rxq[f][i] \/ Rxq'[f][i] \in RcvdButNotConsumed'[f]
  BY <1>0, <1>6, <1>7 DEF TypeOK
<1> QED BY <1>0, <1>2, <1>7, <1>8, HeldGrows

LEMMA DiscardDataHeld ==
  ASSUME HeldInv, NEW e \in Endpoint, DiscardData(e)
  PROVE  HeldIsUnconsumed'
<1>0. DataPathInv /\ HeldIsUnconsumed
  BY DEF HeldInv
<1>1. PICK m \in Handoff[e] : Rendezvous(e, m) /\ Hold(e, m.seq)
  BY DEF DiscardData
<1>2. m.seq \in Int
  BY <1>0, <1>1, RendezvousFacts DEF Packet
<1>3. UNCHANGED <<Consumed, ReadyForDelivery, Rxq>>
  BY DEF DiscardData, orderVars, consumeVars
<1> QED BY <1>0, <1>1, <1>2, <1>3, HeldGrows

\* What the in-order run makes ready and what it leaves was held, or is the
\* frame just received.
LEMMA InOrderDataHeld ==
  ASSUME HeldInv, NEW e \in Endpoint, InOrderData(e)
  PROVE  HeldIsUnconsumed'
<1> DEFINE nfe == NextFrameExpected[e]
           w == Window[e]
           q == [Rxq[e] EXCEPT ![nfe % w] = nfe]
           ready == ReadyForDelivery[e]
<1>0. DataPathInv /\ HeldIsUnconsumed /\ TypeOK
  BY DEF HeldInv, DataPathInv
<1>1. Hold(e, nfe) /\ UNCHANGED Consumed
  BY DEF InOrderData, consumeVars
<1>2. PICK k \in 1..w :
        /\ IsReceivedRun(q, w, nfe, k)
        /\ ReadyForDelivery' = [ReadyForDelivery EXCEPT ![e] =
                                  @ \o [j \in 1..k |-> q[(nfe + j - 1) % w]]]
        /\ Rxq' = [Rxq EXCEPT ![e] = Drained(q, w, nfe, k)]
  BY DEF InOrderData
<1>3. /\ nfe \in Nat /\ w \in Nat \ {0} /\ k \in Nat /\ k >= 1
      /\ Slots(e) = 0..(w - 1) /\ nfe % w \in 0..(w - 1)
  <2>1. nfe \in Nat /\ w \in Nat \ {0} /\ Slots(e) = 0..(w - 1)
    BY <1>0, TypeFacts, WindowFacts DEF Slots
  <2> HIDE DEF nfe, w
  <2> QED BY <1>2, <2>1, DivMod
<1>4. \A i \in Slots(e) : q[i] = IF i = nfe % w THEN nfe ELSE Rxq[e][i]
  BY <1>0, <1>3 DEF TypeOK
<1>5. nfe \in RcvdButNotConsumed'[e] /\ RcvdButNotConsumed[e] \subseteq RcvdButNotConsumed'[e]
  BY <1>0, <1>1, <1>3, HoldAdds
<1>6. \A i \in Slots(e) : q[i] # NoSeq => q[i] \in RcvdButNotConsumed'[e]
  BY <1>0, <1>4, <1>5 DEF HeldIsUnconsumed
<1>7. q \in [Slots(e) -> FrameNum]
  <2>1. nfe \in FrameNum
    BY <1>3 DEF FrameNum, NoSeq
  <2>2. Rxq[e] \in [Slots(e) -> FrameNum]
    BY <1>0 DEF TypeOK
  <2> HIDE DEF nfe, w
  <2> QED BY <2>1, <2>2
<1> HIDE DEF q, nfe, w
<1>8. ASSUME NEW j \in 1..k
      PROVE  q[(nfe + j - 1) % w] \in Nat /\ q[(nfe + j - 1) % w] \in RcvdButNotConsumed'[e]
  <2>1. nfe + (j - 1) \in Nat /\ j - 1 \in 0..(k - 1) /\ nfe + (j - 1) = nfe + j - 1
    BY <1>3
  <2>2. PICK n \in Nat : n = nfe + j - 1
    BY <2>1
  <2>4. (nfe + j - 1) % w \in Slots(e)
    BY <1>3, <2>2, DivMod
  <2>3. q[(nfe + j - 1) % w] # NoSeq
    <3>1. q[(nfe + (j - 1)) % w] # NoSeq
      BY <1>2, <2>1 DEF IsReceivedRun
    <3> QED BY <2>1, <3>1
  <2> QED BY <1>6, <1>7, <2>2, <2>3, <2>4 DEF FrameNum, NoSeq
<1>9. \A f \in Endpoint : \A i \in Slots(f) :
        Rxq'[f][i] # NoSeq => Rxq'[f][i] = Rxq[f][i] \/ Rxq'[f][i] \in RcvdButNotConsumed'[f]
  <2> SUFFICES ASSUME NEW f \in Endpoint, NEW i \in Slots(f), Rxq'[f][i] # NoSeq
               PROVE  Rxq'[f][i] = Rxq[f][i] \/ Rxq'[f][i] \in RcvdButNotConsumed'[f]
    OBVIOUS
  <2>1. CASE f = e
    <3>1. Rxq'[e] = Drained(q, w, nfe, k)
      BY <1>0, <1>2 DEF TypeOK
    <3>2. Drained(q, w, nfe, k)[i] # NoSeq => Drained(q, w, nfe, k)[i] = q[i]
      BY <1>7, <2>1 DEF Drained
    <3> QED BY <1>6, <2>1, <3>1, <3>2
  <2>2. CASE f # e
    BY <1>0, <1>2, <2>2 DEF TypeOK
  <2> QED BY <2>1, <2>2
<1>10. \A f \in Endpoint : \A i \in 1..Len(ReadyForDelivery'[f]) :
         \/ i \in 1..Len(ReadyForDelivery[f])
            /\ ReadyForDelivery'[f][i] = ReadyForDelivery[f][i]
         \/ ReadyForDelivery'[f][i] \in RcvdButNotConsumed'[f]
  <2> SUFFICES ASSUME NEW f \in Endpoint, NEW i \in 1..Len(ReadyForDelivery'[f])
               PROVE  \/ i \in 1..Len(ReadyForDelivery[f])
                         /\ ReadyForDelivery'[f][i] = ReadyForDelivery[f][i]
                      \/ ReadyForDelivery'[f][i] \in RcvdButNotConsumed'[f]
    OBVIOUS
  <2>1. CASE f = e
    <3> DEFINE t == [j \in 1..k |-> q[(nfe + j - 1) % w]]
    <3>1. ready \in Seq(Nat) /\ ReadyForDelivery'[e] = ready \o t
      BY <1>0, <1>2, TypeFacts DEF TypeOK
    <3>2. t \in Seq(Nat) /\ Len(t) = k /\ \A j \in 1..k : t[j] \in RcvdButNotConsumed'[e]
      <4>1. \A j \in 1..k : t[j] \in Nat /\ t[j] \in RcvdButNotConsumed'[e]
        BY <1>8
      <4>2. t = [j \in 1..k |-> t[j]] /\ k \in Nat
        BY <1>3
      <4> HIDE DEF t
      <4>3. t \in [1..k -> Nat]
        BY <4>1, <4>2
      <4>4. t \in Seq(Nat) /\ Len(t) = k
        BY <4>2, <4>3
      <4> QED BY <4>1, <4>4
    <3> HIDE DEF t, ready
    <3>3. Len(ready) \in Nat
      BY <3>1
    <3>4. /\ Len(ready \o t) = Len(ready) + k
          /\ \A j \in 1..(Len(ready) + k) :
               (ready \o t)[j] = IF j <= Len(ready) THEN ready[j] ELSE t[j - Len(ready)]
      BY <3>1, <3>2, ConcatFacts
    <3>5. CASE i <= Len(ready)
      BY <2>1, <3>1, <3>4, <3>5, <3>3 DEF ready
    <3>6. CASE ~(i <= Len(ready))
      <4>1. i - Len(ready) \in 1..k /\ i \in 1..(Len(ready) + k)
        BY <1>3, <2>1, <3>1, <3>4, <3>6, <3>3
      <4> QED BY <2>1, <3>1, <3>2, <3>4, <3>6, <4>1
    <3> QED BY <3>5, <3>6
  <2>2. CASE f # e
    BY <1>0, <1>2, <2>2 DEF TypeOK
  <2> QED BY <2>1, <2>2
<1>11. nfe \in Int
  BY <1>3
<1> QED BY <1>0, <1>1, <1>9, <1>10, <1>11, HeldGrows

LEMMA ConsumeHeld ==
  ASSUME HeldInv, NEW e \in Endpoint, NEW k \in 1..Len(ReadyForDelivery[e]), Consume(e, k)
  PROVE  HeldIsUnconsumed'
<1> DEFINE ready == ReadyForDelivery[e]
           done == Consumed[e]
           taken == SubSeq(ready, 1, k)
           left == SubSeq(ready, k + 1, Len(ready))
<1>0. DataPathInv /\ HeldIsUnconsumed /\ TypeOK
  BY DEF HeldInv, DataPathInv
<1>1. /\ Consumed' = [Consumed EXCEPT ![e] = done \o taken]
      /\ ReadyForDelivery' = [ReadyForDelivery EXCEPT ![e] = left]
      /\ RcvdButNotConsumed' = [RcvdButNotConsumed EXCEPT ![e] = @ \ {taken[i] : i \in 1..k}]
      /\ UNCHANGED Rxq
  BY DEF Consume, orderVars
<1>2. /\ ready \in Seq(Nat) /\ done \in Seq(Nat) /\ k \in 1..Len(ready) /\ k \in Nat
      /\ Len(ready) \in Nat /\ Len(done) \in Nat /\ RcvdButNotConsumed[e] \subseteq Nat
  BY <1>0, TypeFacts
<1>3. \A i \in 1..Len(ready) : ready[i] = Len(done) + i - 1
  BY <1>0, ReceiverFacts
<1>4. \A i \in Slots(e) : Rxq[e][i] # NoSeq =>
        Rxq[e][i] \in Nat /\ Rxq[e][i] > Len(done) + Len(ready)
  BY <1>0, ReceiverFacts
<1>5. /\ Consumed'[e] = done \o taken /\ ReadyForDelivery'[e] = left /\ Rxq' = Rxq
      /\ RcvdButNotConsumed'[e] = RcvdButNotConsumed[e] \ {taken[i] : i \in 1..k}
      /\ \A f \in Endpoint : f # e =>
           /\ Consumed'[f] = Consumed[f] /\ ReadyForDelivery'[f] = ReadyForDelivery[f]
           /\ RcvdButNotConsumed'[f] = RcvdButNotConsumed[f]
  BY <1>0, <1>1 DEF TypeOK
<1>6. /\ \A i \in 1..Len(ready) : ready[i] \in RcvdButNotConsumed[e]
      /\ \A i \in Slots(e) : Rxq[e][i] # NoSeq => Rxq[e][i] \in RcvdButNotConsumed[e]
      /\ \A n \in RcvdButNotConsumed[e] : n >= Len(done)
  BY <1>0 DEF HeldIsUnconsumed
<1> HIDE DEF ready, done
<1>7. /\ Len(taken) = k /\ taken \in Seq(Nat) /\ \A i \in 1..k : taken[i] = ready[i]
      /\ Len(left) = Len(ready) - k /\ \A i \in 1..(Len(ready) - k) : left[i] = ready[k + i]
  BY <1>2, FrontFacts, BackFacts
<1> HIDE DEF taken, left
<1>8. Len(done \o taken) = Len(done) + k
  BY <1>2, <1>7, ConcatFacts
<1>9. \A i \in 1..k : taken[i] = Len(done) + i - 1
  <2> SUFFICES ASSUME NEW i \in 1..k
               PROVE  taken[i] = Len(done) + i - 1
    OBVIOUS
  <2>1. taken[i] = ready[i] /\ i \in 1..Len(ready)
    BY <1>2, <1>7
  <2>2. ready[i] = Len(done) + i - 1
    BY <1>3, <2>1
  <2> QED BY <2>1, <2>2, Zenon
<1>10. \A n \in Nat : n >= Len(done) + k => n \notin {taken[i] : i \in 1..k}
  BY <1>2, <1>9
<1>11. \A n \in Nat : n >= Len(done) /\ n \notin {taken[i] : i \in 1..k} => n >= Len(done) + k
  <2> SUFFICES ASSUME NEW n \in Nat, n >= Len(done), n < Len(done) + k
               PROVE  n \in {taken[i] : i \in 1..k}
    BY <1>2, SMTT(30)
  <2>1. n - Len(done) + 1 \in 1..k
    BY <1>2
  <2>2. taken[n - Len(done) + 1] = n
    BY <1>2, <1>9, <2>1
  <2> QED BY <2>1, <2>2
<1>12. ASSUME NEW i \in 1..Len(left)
       PROVE  left[i] \in RcvdButNotConsumed'[e]
  <2>1. i \in 1..(Len(ready) - k) /\ k + i \in 1..Len(ready)
    BY <1>2, <1>7
  <2>2. left[i] = ready[k + i] /\ ready[k + i] = Len(done) + (k + i) - 1
    BY <1>3, <1>7, <2>1
  <2>3. left[i] \in Nat /\ left[i] >= Len(done) + k
    BY <1>2, <2>1, <2>2
  <2>4. left[i] \in RcvdButNotConsumed[e]
    BY <1>6, <2>1, <2>2
  <2> QED BY <1>5, <1>10, <2>3, <2>4
<1>13. \A i \in Slots(e) : Rxq[e][i] # NoSeq => Rxq[e][i] \in RcvdButNotConsumed'[e]
  <2> SUFFICES ASSUME NEW i \in Slots(e), Rxq[e][i] # NoSeq
               PROVE  Rxq[e][i] \in RcvdButNotConsumed'[e]
    OBVIOUS
  <2>1. Rxq[e][i] \in Nat /\ Rxq[e][i] >= Len(done) + k
    BY <1>2, <1>4
  <2> QED BY <1>5, <1>6, <1>10, <2>1
<1>14. \A n \in RcvdButNotConsumed'[e] : n >= Len(done) + k
  BY <1>2, <1>5, <1>6, <1>11
<1> SUFFICES ASSUME NEW f \in Endpoint
             PROVE  /\ \A i \in 1..Len(ReadyForDelivery'[f]) :
                         ReadyForDelivery'[f][i] \in RcvdButNotConsumed'[f]
                    /\ \A i \in Slots(f) :
                         Rxq[f][i] # NoSeq => Rxq[f][i] \in RcvdButNotConsumed'[f]
                    /\ \A n \in RcvdButNotConsumed'[f] : n >= Len(Consumed'[f])
  BY <1>5 DEF HeldIsUnconsumed
<1>15. CASE f = e
  BY <1>5, <1>8, <1>12, <1>13, <1>14, <1>15
<1>16. CASE f # e
  BY <1>0, <1>5, <1>16 DEF HeldIsUnconsumed
<1> QED BY <1>15, <1>16

\* The steps that touch neither the frames a receiver has nor what it holds.
LEMMA ReceiverIdles ==
  ASSUME HeldIsUnconsumed, UNCHANGED <<ReadyForDelivery, Rxq, RcvdButNotConsumed, Consumed>>
  PROVE  HeldIsUnconsumed'
  BY DEF HeldIsUnconsumed

LEMMA HeldNext ==
  ASSUME HeldInv, [Next]_vars
  PROVE  HeldInv'
<1>0. DataPathInv /\ HeldIsUnconsumed
  BY DEF HeldInv
<1>1. DataPathInv'
  BY <1>0, NextInv
<1>2. ASSUME NEW e \in Endpoint, SendLoop(e)
      PROVE  HeldIsUnconsumed'
  BY <1>0, <1>2, ReceiverIdles DEF SendLoop, AcceptSend, Retry, KeepAlive, endpointVars,
     orderVars, consumeVars
<1>3. ASSUME NEW e \in Endpoint, RecvInfo(e) \/ RecvKeepAlive(e)
      PROVE  HeldIsUnconsumed'
  BY <1>0, <1>3, ReceiverIdles DEF RecvInfo, RecvKeepAlive, orderVars, consumeVars
<1>4. ASSUME NEW e \in Endpoint, HandleHandoff(e)
      PROVE  HeldIsUnconsumed'
  BY <1>3, <1>4, DiscardDataHeld, BufferDataHeld, InOrderDataHeld DEF HandleHandoff
<1>5. ASSUME NEW e \in Endpoint, ReadByApp(e)
      PROVE  HeldIsUnconsumed'
  <2>1. PICK k \in 1..Len(ReadyForDelivery[e]) : Consume(e, k)
    BY <1>0, <1>5, SomeReadIsConsume
  <2> QED BY <2>1, ConsumeHeld
<1>6. ASSUME NEW e \in Endpoint, NEW m \in net, RecvPack(e, m)
      PROVE  HeldIsUnconsumed'
  BY <1>0, <1>6, ReceiverIdles DEF RecvPack, orderVars, consumeVars
<1>7. ASSUME NEW m \in net, Lose(m)
      PROVE  HeldIsUnconsumed'
  BY <1>0, <1>7, ReceiverIdles DEF Lose, endpointVars, orderVars, consumeVars
<1>8. ASSUME UNCHANGED vars
      PROVE  HeldIsUnconsumed'
  <2>1. UNCHANGED <<ReadyForDelivery, Rxq, RcvdButNotConsumed, Consumed>>
    BY <1>8 DEF vars, endpointVars, orderVars, consumeVars
  <2> QED BY <1>0, <2>1, ReceiverIdles
<1>9. HeldIsUnconsumed'
  BY <1>2, <1>4, <1>5, <1>6, <1>7, <1>8 DEF Next
<1> QED BY <1>1, <1>9 DEF HeldInv

\* The count of held messages is honest at every moment: what is ready or
\* buffered is counted, what the application took is not (recv.go:340-342,
\* 493-495).
THEOREM HeldCorrect == Spec => []HeldIsUnconsumed
<1>1. Init => HeldInv
  <2>1. Init => HeldIsUnconsumed
    BY DEF Init, HeldIsUnconsumed
  <2> QED BY <2>1, InitInv DEF HeldInv
<1>2. HeldInv /\ [Next]_vars => HeldInv'
  BY HeldNext
<1>3. HeldInv => HeldIsUnconsumed
  BY DEF HeldInv
<1> QED BY <1>1, <1>2, <1>3, PTL DEF Spec

-----------------------------------------------------------------------------
(* No packet replaces a buffered one.                                       *)

\* What a step may do to a slot that holds a frame.
SlotStep(e, i) ==
  Rxq[e][i] # NoSeq /\ Rxq'[e][i] # Rxq[e][i]
    => Rxq'[e][i] = NoSeq /\ Rxq[e][i] < NextFrameExpected'[e]

LEMMA BufferDataStep ==
  ASSUME DataPathInv, NEW e \in Endpoint, BufferData(e)
  PROVE  \A f \in Endpoint : \A i \in Slots(f) : SlotStep(f, i)
<1>0. TypeOK
  BY DEF DataPathInv
<1>1. PICK m \in Handoff[e] :
        /\ m.type = "Data" /\ InRecvWindow(e, m.seq) /\ m.seq # NextFrameExpected[e]
        /\ Rendezvous(e, m)
        /\ Rxq' = [Rxq EXCEPT ![e][m.seq % Window[e]] = m.seq]
  BY DEF BufferData
<1>2. m.seq \in Nat
  <2>1. m \in Packet /\ PacketIsHonest(m) /\ m.from = Peer(e)
    BY <1>1, RendezvousFacts
  <2>2. LastFrameSent[Peer(e)] \in Int
    BY <1>0, PeerFacts, TypeFacts
  <2> QED BY <1>1, <2>1, <2>2 DEF PacketIsHonest
<1>3. PICK n \in Nat : n = m.seq
  BY <1>2
<1>4. NextFrameExpected[e] \in Nat /\ Window[e] \in Nat \ {0}
  BY <1>0, TypeFacts, WindowFacts
<1>5. NextFrameExpected[e] <= n /\ n < NextFrameExpected[e] + Window[e]
  BY <1>1, <1>3, <1>4 DEF InRecvWindow, InWindow
<1>6. Rxq' = [Rxq EXCEPT ![e][n % Window[e]] = n]
  BY <1>1, <1>3
<1>7. ASSUME Rxq[e][n % Window[e]] # NoSeq
      PROVE  Rxq[e][n % Window[e]] = n
  <2> DEFINE i == n % Window[e]
  <2>1. i \in Slots(e)
    BY WindowFacts
  <2>2. PICK h \in Nat : h = Rxq[e][i]
    BY <1>7, <2>1, ReceiverFacts
  <2>3. /\ h % Window[e] = n % Window[e] /\ NextFrameExpected[e] < h
        /\ h < NextFrameExpected[e] + Window[e]
    BY <1>7, <2>1, <2>2, ReceiverFacts
  <2>4. h < n + Window[e] /\ n < h + Window[e]
    BY <1>4, <1>5, <2>3
  <2> QED BY <1>4, <2>2, <2>3, <2>4, ModInjective
<1> SUFFICES ASSUME NEW f \in Endpoint, NEW i \in Slots(f), Rxq[f][i] # NoSeq
             PROVE  Rxq'[f][i] = Rxq[f][i]
  BY DEF SlotStep
<1>8. CASE f = e /\ i = n % Window[e]
  BY <1>0, <1>6, <1>7, <1>8 DEF TypeOK
<1>9. CASE ~(f = e /\ i = n % Window[e])
  BY <1>0, <1>6, <1>9 DEF TypeOK
<1> QED BY <1>8, <1>9

\* The slots just before the run is taken out of them: the next frame is in its
\* slot, and nothing was there before.
LEMMA InOrderWindow ==
  ASSUME DataPathInv, NEW e \in Endpoint
  PROVE  LET nfe == NextFrameExpected[e]
             w == Window[e]
         IN /\ Rxq[e][nfe % w] = NoSeq
            /\ IsWindowOf([Rxq[e] EXCEPT ![nfe % w] = nfe], w, nfe)
<1> DEFINE nfe == NextFrameExpected[e]
           w == Window[e]
           q == [Rxq[e] EXCEPT ![nfe % w] = nfe]
<1>1. nfe \in Nat /\ w \in Nat \ {0} /\ Slots(e) = 0..(w - 1)
  BY TypeFacts, WindowFacts DEF DataPathInv, Slots
<1>2. nfe % w \in Slots(e) /\ nfe \in FrameNum
  <2> HIDE DEF nfe, w
  <2>1. nfe % w \in Slots(e)
    BY <1>1, DivMod
  <2> QED BY <1>1, <2>1 DEF FrameNum, NoSeq
<1>3. Rxq[e] \in [Slots(e) -> FrameNum]
  BY DEF DataPathInv, TypeOK
<1>4. \A i \in Slots(e) : Rxq[e][i] # NoSeq =>
        Rxq[e][i] \in Nat /\ Rxq[e][i] % w = i /\ nfe < Rxq[e][i] /\ Rxq[e][i] < nfe + w
  BY ReceiverFacts
<1> HIDE DEF nfe, w
<1>5. q \in [Slots(e) -> FrameNum] /\ \A i \in Slots(e) : q[i] = IF i = nfe % w THEN nfe ELSE Rxq[e][i]
  BY <1>2, <1>3
<1> HIDE DEF q
<1>6. Rxq[e][nfe % w] = NoSeq
  <2> SUFFICES ASSUME Rxq[e][nfe % w] # NoSeq PROVE FALSE
    OBVIOUS
  <2>1. PICK h \in Nat : h % w = nfe % w /\ nfe < h /\ h < nfe + w
    BY <1>2, <1>4
  <2>2. h < nfe + w /\ nfe < h + w
    BY <1>1, <2>1
  <2>3. h = nfe
    BY <1>1, <2>1, <2>2, ModInjective
  <2> QED BY <1>1, <2>1, <2>3
<1>7. \A i \in 0..(w - 1) : q[i] # NoSeq => q[i] % w = i /\ nfe <= q[i] /\ q[i] < nfe + w
  BY <1>1, <1>4, <1>5
<1>8. IsWindowOf(q, w, nfe)
  BY <1>1, <1>2, <1>5, <1>7 DEF IsWindowOf
<1> QED BY <1>6, <1>8 DEF q, nfe, w

LEMMA InOrderDataStep ==
  ASSUME DataPathInv, NEW e \in Endpoint, InOrderData(e)
  PROVE  \A f \in Endpoint : \A i \in Slots(f) : SlotStep(f, i)
<1> DEFINE nfe == NextFrameExpected[e]
           w == Window[e]
           q == [Rxq[e] EXCEPT ![nfe % w] = nfe]
<1>0. TypeOK
  BY DEF DataPathInv
<1>1. PICK k \in 1..w :
        /\ IsReceivedRun(q, w, nfe, k)
        /\ Rxq' = [Rxq EXCEPT ![e] = Drained(q, w, nfe, k)]
        /\ NextFrameExpected' = [NextFrameExpected EXCEPT ![e] = nfe + k]
  BY DEF InOrderData
<1>2. /\ Rxq'[e] = Drained(q, w, nfe, k) /\ NextFrameExpected'[e] = nfe + k
      /\ \A f \in Endpoint : f # e => Rxq'[f] = Rxq[f]
  BY <1>0, <1>1 DEF TypeOK
<1>3. nfe \in Nat /\ w \in Nat \ {0} /\ Slots(e) = 0..(w - 1)
  BY <1>0, TypeFacts, WindowFacts DEF Slots
<1>4. Rxq[e][nfe % w] = NoSeq /\ IsWindowOf(q, w, nfe)
  BY InOrderWindow
<1>5. \A i \in Slots(e) : q[i] = IF i = nfe % w THEN nfe ELSE Rxq[e][i]
  BY <1>0, <1>3 DEF TypeOK
<1> HIDE DEF nfe, w, q
<1>6. \A j \in 0..(k - 1) : q[(nfe + j) % w] = nfe + j
  <2>1. /\ IsReceivedRun(q, w, nfe, k) /\ k \in 1..w /\ IsWindowOf(q, w, nfe)
        /\ w \in Nat \ {0} /\ nfe \in Nat
    BY <1>1, <1>3, <1>4
  <2>2. RunIsHere(q, w, nfe, k)
    BY <2>1, RunHolds
  <2> QED BY <2>2 DEF RunIsHere
<1>7. DOMAIN q = Slots(e)
  BY <1>3, <1>4 DEF IsWindowOf
<1>8. ASSUME NEW i \in Slots(e), Rxq[e][i] # NoSeq, Rxq'[e][i] # Rxq[e][i]
      PROVE  Rxq'[e][i] = NoSeq /\ Rxq[e][i] < nfe + k
  <2>1. q[i] = Rxq[e][i]
    BY <1>4, <1>5, <1>8
  <2>2. \E j \in 0..(k - 1) : i = (nfe + j) % w
    BY <1>2, <1>7, <1>8, <2>1 DEF Drained
  <2>3. PICK j \in 0..(k - 1) : i = (nfe + j) % w
    BY <2>2
  <2>4. q[i] = nfe + j
    BY <1>6, <2>3
  <2>5. Rxq'[e][i] = NoSeq
    BY <1>2, <1>7, <2>2 DEF Drained
  <2> QED BY <1>3, <2>1, <2>3, <2>4, <2>5
<1> SUFFICES ASSUME NEW f \in Endpoint, NEW i \in Slots(f)
             PROVE  SlotStep(f, i)
  OBVIOUS
<1>9. CASE f = e
  BY <1>2, <1>8, <1>9 DEF SlotStep
<1>10. CASE f # e
  BY <1>2, <1>10 DEF SlotStep
<1> QED BY <1>9, <1>10

LEMMA SlotsNext ==
  ASSUME DataPathInv, [Next]_vars
  PROVE  \A e \in Endpoint : \A i \in Slots(e) : SlotStep(e, i)
<1>1. Rxq' = Rxq => \A e \in Endpoint : \A i \in Slots(e) : SlotStep(e, i)
  BY DEF SlotStep
<1>2. ASSUME NEW e \in Endpoint, HandleHandoff(e)
      PROVE  \A f \in Endpoint : \A i \in Slots(f) : SlotStep(f, i)
  <2>1. RecvInfo(e) \/ RecvKeepAlive(e) \/ DiscardData(e) => Rxq' = Rxq
    BY DEF RecvInfo, RecvKeepAlive, DiscardData, orderVars
  <2> QED BY <1>1, <1>2, <2>1, BufferDataStep, InOrderDataStep DEF HandleHandoff
<1>3. ASSUME NEW e \in Endpoint, SendLoop(e) \/ ReadByApp(e) \/ \E m \in net : RecvPack(e, m)
      PROVE  Rxq' = Rxq
  BY <1>3 DEF SendLoop, AcceptSend, Retry, KeepAlive, ReadByApp, DeliverToConsumer,
              FillAsMuchAsPossible, Consume, RecvPack, endpointVars, orderVars
<1>4. ASSUME NEW m \in net, Lose(m)
      PROVE  Rxq' = Rxq
  BY <1>4 DEF Lose, endpointVars, orderVars
<1>5. CASE UNCHANGED vars
  BY <1>1, <1>5 DEF vars, endpointVars, orderVars
<1> QED BY <1>1, <1>2, <1>3, <1>4, <1>5 DEF Next

\* A buffered packet leaves its slot only by becoming ready; none is replaced by
\* a later one that maps to the same slot (SeqNum % RecvWindowSize, recv.go:502-519).
THEOREM BufferedPacketsStay == Spec => RxqKeepsWhatItHolds
<1>1. DataPathInv /\ [Next]_vars =>
        [\A e \in Endpoint : \A i \in Slots(e) :
           Rxq[e][i] # NoSeq /\ Rxq'[e][i] # Rxq[e][i]
             => Rxq'[e][i] = NoSeq /\ Rxq[e][i] < NextFrameExpected'[e]]_vars
  BY SlotsNext DEF SlotStep
<1> QED BY <1>1, DataPathCorrect, PTL DEF Spec, RxqKeepsWhatItHolds
=============================================================================
