----------------------- MODULE SlidingWindowFlowProofs ----------------------
(***************************************************************************)
(* Proofs about flow control and retransmission: no message is forgotten,  *)
(* no receiver is overrun, and the protocol implements ReliableStream.     *)
(*                                                                         *)
(* FlowInv is inductive for windows of any sizes; the three results follow *)
(* for two sessions with windows of one size, which the code does not      *)
(* enforce: each end is given a WindowMsgCount of its own.                 *)
(***************************************************************************)
EXTENDS SlidingWindowProofs, FiniteSetTheorems

-----------------------------------------------------------------------------
(* Counting what is in flight. *)

\* k consecutive frames, no more than the slots, are in k different slots.
LEMMA ConsecutiveSlots ==
  ASSUME NEW w \in Nat \ {0}, NEW S \in SUBSET (0..(w - 1)),
         NEW lo \in Nat, NEW k \in Nat, k <= w,
         \A n \in lo..(lo + k - 1) : n % w \in S
  PROVE  Cardinality(S) \in Nat /\ Cardinality(S) >= k
<1> DEFINE T == lo..(lo + k - 1)
           slot == [n \in T |-> n % w]
<1>1. IsFiniteSet(0..(w - 1))
  BY FS_Interval
<1>2. IsFiniteSet(S)
  BY <1>1, FS_Subset
<1>3. lo \in Int /\ lo + k - 1 \in Int
  OBVIOUS
<1>4. Cardinality(T) = k
  <2>1. Cardinality(T) = IF lo > lo + k - 1 THEN 0 ELSE (lo + k - 1) - lo + 1
    BY <1>3, FS_Interval
  <2> HIDE DEF T
  <2> QED BY <2>1
<1>5. \A a, b \in T : a % w = b % w => a = b
  <2> SUFFICES ASSUME NEW a \in T, NEW b \in T, a % w = b % w
               PROVE  a = b
    OBVIOUS
  <2>1. a \in Nat /\ b \in Nat /\ a < b + w /\ b < a + w
    OBVIOUS
  <2> QED BY <2>1, ModInjective
<1>6. slot \in Injection(T, S)
  <2>1. \A n \in T : slot[n] = n % w /\ slot[n] \in S
    OBVIOUS
  <2>2. slot \in [T -> S]
    BY <2>1
  <2>3. \A a, b \in T : slot[a] = slot[b] => a = b
    BY <1>5, <2>1
  <2> HIDE DEF slot, T
  <2> QED BY <2>2, <2>3 DEF Injection, IsInjective
<1> HIDE DEF slot, T
<1>7. Cardinality(T) <= Cardinality(S)
  BY <1>2, <1>6, FS_Injection
<1>8. Cardinality(S) \in Nat
  BY <1>2, FS_CardinalityType
<1> QED BY <1>4, <1>7, <1>8

\* The sendloop receives on BlockingSend only while some of the last k frames is
\* acknowledged, for any k that bounds the room it knows of (sender.go:167-190).
LEMMA NotFull ==
  ASSUME TypeOK, NEW e \in Endpoint, UnackedIsTracked(e), FlowAllowsSend(e),
         NEW k \in Nat, k <= Window[e], LastSeenAvailReaderMsgCap[e] <= k,
         NEW lo \in Nat, lo + k - 1 <= LastFrameSent[e]
  PROVE  \E n \in lo..(lo + k - 1) : n \in Acked[e]
<1> SUFFICES ASSUME \A n \in lo..(lo + k - 1) : n \notin Acked[e]
             PROVE  FALSE
  OBVIOUS
<1>1. Window[e] \in Nat \ {0} /\ SentButNotAcked[e] \in SUBSET (0..(Window[e] - 1))
  BY WindowFacts, TypeFacts DEF Slots
<1>2. \A n \in lo..(lo + k - 1) : n % Window[e] \in SentButNotAcked[e]
  <2> TAKE n \in lo..(lo + k - 1)
  <2>1. LastFrameSent[e] \in Int
    BY TypeFacts
  <2>2. n \in 0..LastFrameSent[e]
    BY <2>1
  <2> QED BY <2>2 DEF UnackedIsTracked
<1>3. Cardinality(SentButNotAcked[e]) \in Nat /\ Cardinality(SentButNotAcked[e]) >= k
  BY <1>1, <1>2, ConsecutiveSlots
<1>4. LastSeenAvailReaderMsgCap[e] \in Int
  BY TypeFacts
<1> QED BY <1>3, <1>4 DEF FlowAllowsSend, msgInflight

-----------------------------------------------------------------------------
(* The room a session advertises. *)

LEMMA FreeCapBound ==
  ASSUME NEW e \in Endpoint, NEW largest \in Int, NEW consumed \in Int, consumed <= largest
  PROVE  FreeCap(e, largest, consumed) \in Int /\ FreeCap(e, largest, consumed) <= Window[e]
  BY WindowFacts DEF FreeCap

\* UpdateFlow stores nothing above the window (flow.go:94-99).
LEMMA UpdateFlowBound ==
  ASSUME TypeOK, RoomIsBounded, NEW e \in Endpoint, NEW c \in Int, c <= Window[e],
         UpdateFlow(e, c)
  PROVE  \A f \in Endpoint : AvailReaderMsgCap'[f] <= Window[f]
<1>1. \A f \in Endpoint : AvailReaderMsgCap[f] <= Window[f]
  BY DEF RoomIsBounded
<1>2. DOMAIN AvailReaderMsgCap = Endpoint
  BY DEF TypeOK
<1> QED BY <1>1, <1>2 DEF UpdateFlow

\* A step after which LargestSeqnoRcvd still covers what the receiver has.
LEMMA RoomKept ==
  ASSUME TypeOK, RoomIsBounded, LargestSeqnoRcvd' = LargestSeqnoRcvd,
         \A m \in net' : m \in net \/ m.cap <= Window[m.from],
         \A f \in Endpoint :
           /\ Handoff'[f] \subseteq Handoff[f]
           /\ AvailReaderMsgCap'[f] <= Window[f]
           /\ NextFrameExpected'[f] <= LargestSeqnoRcvd[f] + 1
           /\ \A i \in Slots(f) : Rxq'[f][i] <= LargestSeqnoRcvd[f]
           /\ LastFrameSent'[f] \in Int /\ LastFrameSent[f] <= LastFrameSent'[f]
           /\ \/ LastSeenAvailReaderMsgCap'[f] = LastSeenAvailReaderMsgCap[f]
              \/ LastSeenAvailReaderMsgCap'[f] <= Window[Peer(f)]
  PROVE  RoomIsBounded'
<1>1. \A f \in Endpoint : LargestSeqnoRcvd[f] <= LastFrameSent'[Peer(f)]
  <2> TAKE f \in Endpoint
  <2>1. LargestSeqnoRcvd[f] <= LastFrameSent[Peer(f)]
    BY DEF RoomIsBounded
  <2>2. /\ LargestSeqnoRcvd[f] \in Int /\ LastFrameSent[Peer(f)] \in Int
        /\ LastFrameSent'[Peer(f)] \in Int /\ LastFrameSent[Peer(f)] <= LastFrameSent'[Peer(f)]
    BY TypeFacts, PeerFacts
  <2> QED BY <2>1, <2>2
<1>2. \A m \in net' : m.cap <= Window[m.from]
  BY DEF RoomIsBounded
<1>3. \A f \in Endpoint : \A m \in Handoff'[f] :
        m.cap <= Window[m.from] /\ m.seq <= LargestSeqnoRcvd[f]
  BY DEF RoomIsBounded
<1>4. \A f \in Endpoint :
        \/ LastSeenAvailReaderMsgCap'[f] <= Window[Peer(f)]
        \/ ~Connected /\ LastSeenAvailReaderMsgCap'[f] <= Window[f]
  BY DEF RoomIsBounded
<1> QED BY <1>1, <1>2, <1>3, <1>4 DEF RoomIsBounded

\* What RoomIsBounded says of what a step leaves alone.
LEMMA RoomFacts ==
  ASSUME RoomIsBounded, NEW f \in Endpoint
  PROVE  /\ AvailReaderMsgCap[f] <= Window[f]
         /\ NextFrameExpected[f] <= LargestSeqnoRcvd[f] + 1
         /\ \A i \in Slots(f) : Rxq[f][i] <= LargestSeqnoRcvd[f]
         /\ \A m \in Handoff[f] : m.cap <= Window[m.from] /\ m.seq <= LargestSeqnoRcvd[f]
  BY DEF RoomIsBounded

LEMMA AcceptSendRoom ==
  ASSUME DataPathInv, RoomIsBounded, NEW e \in Endpoint, AcceptSend(e)
  PROVE  RoomIsBounded'
<1>0. TypeOK
  BY DEF DataPathInv
<1>1. LastFrameSent' = [LastFrameSent EXCEPT ![e] = LastFrameSent[e] + 1]
  BY DEF AcceptSend
<1>2. \A f \in Endpoint : LastFrameSent'[f] \in Int /\ LastFrameSent[f] <= LastFrameSent'[f]
  <2> TAKE f \in Endpoint
  <2>1. LastFrameSent'[f] = IF f = e THEN LastFrameSent[f] + 1 ELSE LastFrameSent[f]
    BY <1>0, <1>1 DEF TypeOK
  <2> QED BY <1>0, <2>1, TypeFacts
<1>3. \A m \in net' : m \in net \/ m.cap <= Window[m.from]
  <2> DEFINE p == DataPacket(e, LastFrameSent[e] + 1, AvailReaderMsgCap[e])
  <2>1. net' \subseteq net \cup {p}
    BY TransmitAdds DEF AcceptSend
  <2>2. p.cap <= Window[p.from]
    BY RoomFacts DEF DataPacket
  <2> QED BY <2>1, <2>2
<1>4. UNCHANGED <<LargestSeqnoRcvd, Handoff, AvailReaderMsgCap, NextFrameExpected, Rxq,
                  LastSeenAvailReaderMsgCap>>
  BY DEF AcceptSend, orderVars
<1> QED BY <1>0, <1>2, <1>3, <1>4, RoomFacts, RoomKept

\* A step that only changes the network, adding packets of bounded room or none.
LEMMA NetStepRoom ==
  ASSUME TypeOK, RoomIsBounded, UNCHANGED endpointVars,
         \A m \in net' : m \in net \/ m.cap <= Window[m.from]
  PROVE  RoomIsBounded'
<1>1. UNCHANGED <<LargestSeqnoRcvd, Handoff, AvailReaderMsgCap, NextFrameExpected, Rxq,
                  LastSeenAvailReaderMsgCap, LastFrameSent>>
  BY DEF endpointVars, orderVars, sendVars
<1>2. \A f \in Endpoint : LastFrameSent[f] \in Int /\ LastFrameSent[f] <= LastFrameSent[f]
  BY TypeFacts
<1> QED BY <1>1, <1>2, RoomFacts, RoomKept

LEMMA RetryRoom ==
  ASSUME DataPathInv, RoomIsBounded, NEW e \in Endpoint, Retry(e)
  PROVE  RoomIsBounded'
<1>0. TypeOK
  BY DEF DataPathInv
<1>1. PICK pos \in SentButNotAcked[e] : Transmit(DataPacket(e, Txq[e][pos], AvailReaderMsgCap[e]))
  BY DEF Retry
<1> DEFINE p == DataPacket(e, Txq[e][pos], AvailReaderMsgCap[e])
<1>2. net' \subseteq net \cup {p}
  BY <1>1, TransmitAdds
<1>3. p.cap <= Window[p.from]
  BY RoomFacts DEF DataPacket
<1>4. UNCHANGED endpointVars
  BY DEF Retry
<1> HIDE DEF p
<1> QED BY <1>0, <1>2, <1>3, <1>4, NetStepRoom

LEMMA KeepAliveRoom ==
  ASSUME DataPathInv, RoomIsBounded, NEW e \in Endpoint, KeepAlive(e)
  PROVE  RoomIsBounded'
<1> DEFINE p == KeepAlivePacket(e, recvLastFrameClientConsumed[e], AvailReaderMsgCap[e])
<1>0. TypeOK
  BY DEF DataPathInv
<1>1. net' \subseteq net \cup {p} /\ UNCHANGED endpointVars
  BY TransmitAdds DEF KeepAlive
<1>2. p.cap <= Window[p.from]
  BY RoomFacts DEF KeepAlivePacket
<1> HIDE DEF p
<1> QED BY <1>0, <1>1, <1>2, NetStepRoom

\* Nothing is consumed that was not received.
LEMMA ConsumedIsReceived ==
  ASSUME DataPathInv, RoomIsBounded, NEW e \in Endpoint
  PROVE  LastMsgConsumed[e] <= LargestSeqnoRcvd[e]
         /\ LastMsgConsumed[e] \in Int /\ LargestSeqnoRcvd[e] \in Int
<1>1. LastMsgConsumed[e] \in Int /\ LargestSeqnoRcvd[e] \in Int /\ NextFrameExpected[e] \in Int
      /\ Len(Consumed[e]) \in Int
  BY TypeFacts DEF DataPathInv
<1>2. LastMsgConsumed[e] = Len(Consumed[e]) - 1
  BY DEF DataPathInv, HistoryIsInOrder
<1>3. NextFrameExpected[e] >= Len(Consumed[e]) /\ NextFrameExpected[e] <= LargestSeqnoRcvd[e] + 1
  BY ReceiverFacts, RoomFacts
<1> QED BY <1>1, <1>2, <1>3

\* MsgRecv's first half: the larger LargestSeqnoRcvd is, the less is advertised.
LEMMA RecvPackRoom ==
  ASSUME DataPathInv, RoomIsBounded, NEW e \in Endpoint, NEW m \in net, RecvPack(e, m)
  PROVE  RoomIsBounded'
<1>0. TypeOK /\ PacketsAreHonest
  BY DEF DataPathInv
<1>1. m \in Packet /\ m.seq \in Int /\ m.from = Peer(e) /\ PacketIsHonest(m)
      /\ m.cap <= Window[m.from]
  BY <1>0 DEF TypeOK, RecvPack, Packet, PacketsAreHonest, RoomIsBounded
<1>2. PICK l \in Int : l = IF m.seq > LargestSeqnoRcvd[e] THEN m.seq ELSE LargestSeqnoRcvd[e]
  BY <1>0, <1>1, TypeFacts
<1>3. /\ LargestSeqnoRcvd' = [LargestSeqnoRcvd EXCEPT ![e] = l]
      /\ UpdateFlow(e, FreeCap(e, l, LastMsgConsumed[e]))
      /\ Handoff' = [Handoff EXCEPT ![e] = {m}]
      /\ net' \subseteq net
      /\ UNCHANGED <<LastFrameSent, LastSeenAvailReaderMsgCap, NextFrameExpected, Rxq>>
  BY <1>2 DEF RecvPack, sendVars, orderVars
<1>4. LargestSeqnoRcvd[e] \in Int /\ LargestSeqnoRcvd[e] <= l /\ m.seq <= l
  BY <1>0, <1>1, <1>2, TypeFacts
<1>5. l <= LastFrameSent[Peer(e)]
  <2>1. LargestSeqnoRcvd[e] <= LastFrameSent[Peer(e)]
    BY DEF RoomIsBounded
  <2>2. LastFrameSent[Peer(e)] \in Int /\ LastFrameSent[Peer(e)] >= -1
    BY <1>0, TypeFacts, PeerFacts
  <2>3. m.seq <= LastFrameSent[Peer(e)]
    BY <1>1, <2>2 DEF PacketIsHonest
  <2> QED BY <1>2, <2>1, <2>3
<1>6. \A f \in Endpoint : AvailReaderMsgCap'[f] <= Window[f]
  <2>1. LastMsgConsumed[e] \in Int /\ LastMsgConsumed[e] <= l
    BY <1>4, ConsumedIsReceived
  <2>2. FreeCap(e, l, LastMsgConsumed[e]) \in Int /\ FreeCap(e, l, LastMsgConsumed[e]) <= Window[e]
    BY <2>1, FreeCapBound
  <2> QED BY <1>0, <1>3, <2>2, UpdateFlowBound
<1>7. \A f \in Endpoint :
        /\ LargestSeqnoRcvd'[f] = IF f = e THEN l ELSE LargestSeqnoRcvd[f]
        /\ Handoff'[f] = IF f = e THEN {m} ELSE Handoff[f]
  BY <1>0, <1>3 DEF TypeOK
<1>8. \A f \in Endpoint :
        /\ NextFrameExpected[f] <= LargestSeqnoRcvd'[f] + 1
        /\ \A i \in Slots(f) : Rxq[f][i] <= LargestSeqnoRcvd'[f]
        /\ LargestSeqnoRcvd'[f] <= LastFrameSent[Peer(f)]
        /\ \A a \in Handoff'[f] : a.cap <= Window[a.from] /\ a.seq <= LargestSeqnoRcvd'[f]
  <2> TAKE f \in Endpoint
  <2>1. CASE f = e
    <3>1. NextFrameExpected[e] <= LargestSeqnoRcvd[e] + 1 /\ NextFrameExpected[e] \in Int
          /\ \A i \in Slots(e) : Rxq[e][i] <= LargestSeqnoRcvd[e] /\ Rxq[e][i] \in Int
      BY <1>0, RoomFacts, TypeFacts
    <3>2. NextFrameExpected[e] <= l + 1 /\ \A i \in Slots(e) : Rxq[e][i] <= l
      BY <1>4, <3>1
    <3> QED BY <1>1, <1>4, <1>5, <1>7, <2>1, <3>2
  <2>2. CASE f # e
    BY <1>7, <2>2 DEF RoomIsBounded
  <2> QED BY <2>1, <2>2
<1> QED BY <1>3, <1>6, <1>8 DEF RoomIsBounded

\* The hand-off: the room the packet advertises is its sender's.
LEMMA RendezvousRoom ==
  ASSUME DataPathInv, RoomIsBounded, NEW e \in Endpoint, NEW m, Rendezvous(e, m)
  PROVE  /\ m.cap <= Window[Peer(e)] /\ m.seq <= LargestSeqnoRcvd[e]
         /\ \A f \in Endpoint :
              /\ Handoff'[f] \subseteq Handoff[f]
              /\ LastFrameSent'[f] \in Int /\ LastFrameSent[f] <= LastFrameSent'[f]
              /\ \/ LastSeenAvailReaderMsgCap'[f] = LastSeenAvailReaderMsgCap[f]
                 \/ LastSeenAvailReaderMsgCap'[f] <= Window[Peer(f)]
<1>0. TypeOK
  BY DEF DataPathInv
<1>1. m \in Handoff[e] /\ UNCHANGED LastFrameSent
      /\ LastSeenAvailReaderMsgCap' = [LastSeenAvailReaderMsgCap EXCEPT ![e] = m.cap]
  BY DEF Rendezvous, GotPack
<1>2. m.from = Peer(e)
  BY RendezvousFacts
<1>3. m.cap <= Window[Peer(e)] /\ m.seq <= LargestSeqnoRcvd[e]
  BY <1>1, <1>2, RoomFacts
<1>4. \A f \in Endpoint : Handoff'[f] \subseteq Handoff[f]
  BY RendezvousFacts
<1>5. \A f \in Endpoint : LastFrameSent[f] \in Int
  BY <1>0, TypeFacts
<1>6. \A f \in Endpoint :
        \/ LastSeenAvailReaderMsgCap'[f] = LastSeenAvailReaderMsgCap[f]
        \/ LastSeenAvailReaderMsgCap'[f] <= Window[Peer(f)]
  BY <1>0, <1>1, <1>3 DEF TypeOK
<1> QED BY <1>1, <1>3, <1>4, <1>5, <1>6

\* ack() advertises what FlowCt is told, and no more than the window.
LEMMA SendAckRoom ==
  ASSUME TypeOK, RoomIsBounded, NEW e \in Endpoint, NEW lfcc, NEW c \in Int,
         c <= LargestSeqnoRcvd[e], SendAck(e, lfcc, c)
  PROVE  /\ \A f \in Endpoint : AvailReaderMsgCap'[f] <= Window[f]
         /\ \A p \in net' : p \in net \/ p.cap <= Window[p.from]
<1>1. LargestSeqnoRcvd[e] \in Int
  BY TypeFacts
<1>2. PICK cap \in Int : /\ cap = FreeCap(e, LargestSeqnoRcvd[e], c)
                        /\ cap <= Window[e]
  BY <1>1, FreeCapBound
<1>3. UpdateFlow(e, cap) /\ Transmit(AckPacket(e, "DataAck", lfcc, cap))
  BY <1>2 DEF SendAck
<1>4. net' \subseteq net \cup {AckPacket(e, "DataAck", lfcc, cap)}
  BY <1>3, TransmitAdds
<1>5. AckPacket(e, "DataAck", lfcc, cap).cap = cap /\ AckPacket(e, "DataAck", lfcc, cap).from = e
  BY DEF AckPacket
<1>6. \A p \in net' : p \in net \/ p.cap <= Window[p.from]
  BY <1>2, <1>4, <1>5
<1> QED BY <1>2, <1>3, <1>6, UpdateFlowBound

LEMMA RecvInfoRoom ==
  ASSUME DataPathInv, RoomIsBounded, NEW e \in Endpoint, RecvInfo(e)
  PROVE  RoomIsBounded'
<1>0. TypeOK
  BY DEF DataPathInv
<1>1. PICK m \in Handoff[e] : Rendezvous(e, m)
  BY DEF RecvInfo
<1>2. UNCHANGED <<net, LargestSeqnoRcvd, AvailReaderMsgCap, NextFrameExpected, Rxq>>
  BY DEF RecvInfo, orderVars
<1> QED BY <1>0, <1>1, <1>2, RoomFacts, RendezvousRoom, RoomKept

\* A packet is acknowledged and the receiver keeps its frames where they are.
LEMMA AcknowledgedRoom ==
  ASSUME DataPathInv, RoomIsBounded, NEW e \in Endpoint, NEW m, Rendezvous(e, m),
         SendAck(e, LastFrameClientConsumed[e], LastMsgConsumed[e]),
         UNCHANGED <<LargestSeqnoRcvd, NextFrameExpected, Rxq>>
  PROVE  RoomIsBounded'
<1>0. TypeOK
  BY DEF DataPathInv
<1>1. /\ \A f \in Endpoint : AvailReaderMsgCap'[f] <= Window[f]
      /\ \A p \in net' : p \in net \/ p.cap <= Window[p.from]
  BY <1>0, ConsumedIsReceived, SendAckRoom
<1> QED BY <1>0, <1>1, RoomFacts, RendezvousRoom, RoomKept

LEMMA RecvKeepAliveRoom ==
  ASSUME DataPathInv, RoomIsBounded, NEW e \in Endpoint, RecvKeepAlive(e)
  PROVE  RoomIsBounded'
<1>1. PICK m \in Handoff[e] : Rendezvous(e, m)
  BY DEF RecvKeepAlive
<1>2. /\ SendAck(e, LastFrameClientConsumed[e], LastMsgConsumed[e])
      /\ UNCHANGED <<LargestSeqnoRcvd, NextFrameExpected, Rxq>>
  BY DEF RecvKeepAlive, orderVars
<1> QED BY <1>1, <1>2, AcknowledgedRoom

LEMMA DiscardDataRoom ==
  ASSUME DataPathInv, RoomIsBounded, NEW e \in Endpoint, DiscardData(e)
  PROVE  RoomIsBounded'
<1>1. PICK m \in Handoff[e] : Rendezvous(e, m)
  BY DEF DiscardData
<1>2. /\ SendAck(e, LastFrameClientConsumed[e], LastMsgConsumed[e])
      /\ UNCHANGED <<LargestSeqnoRcvd, NextFrameExpected, Rxq>>
  BY DEF DiscardData, orderVars
<1> QED BY <1>1, <1>2, AcknowledgedRoom

LEMMA BufferDataRoom ==
  ASSUME DataPathInv, RoomIsBounded, NEW e \in Endpoint, BufferData(e)
  PROVE  RoomIsBounded'
<1>0. TypeOK
  BY DEF DataPathInv
<1>1. PICK m \in Handoff[e] :
        /\ Rendezvous(e, m)
        /\ Rxq' = [Rxq EXCEPT ![e][m.seq % Window[e]] = m.seq]
  BY DEF BufferData
<1>2. UNCHANGED <<net, LargestSeqnoRcvd, AvailReaderMsgCap, NextFrameExpected>>
  BY DEF BufferData
<1>3. m.seq <= LargestSeqnoRcvd[e]
  BY <1>1, RendezvousRoom
<1>4. PICK n : n = m.seq
  OBVIOUS
<1>5. Rxq' = [Rxq EXCEPT ![e][n % Window[e]] = n]
  BY <1>1, <1>4
<1>6. \A f \in Endpoint : \A i \in Slots(f) : Rxq'[f][i] <= LargestSeqnoRcvd[f]
  <2> TAKE f \in Endpoint
  <2> TAKE i \in Slots(f)
  <2>1. Rxq'[f][i] = Rxq[f][i] \/ (f = e /\ Rxq'[f][i] = n)
    BY <1>0, <1>5 DEF TypeOK
  <2> QED BY <1>3, <1>4, <2>1, RoomFacts
<1> QED BY <1>0, <1>1, <1>2, <1>6, RoomFacts, RendezvousRoom, RoomKept

LEMMA InOrderDataRoom ==
  ASSUME DataPathInv, RoomIsBounded, NEW e \in Endpoint, InOrderData(e)
  PROVE  RoomIsBounded'
<1> DEFINE nfe == NextFrameExpected[e]
           w == Window[e]
           q == [Rxq[e] EXCEPT ![nfe % w] = nfe]
           top == LargestSeqnoRcvd[e]
<1>0. TypeOK
  BY DEF DataPathInv
<1>1. PICK m \in Handoff[e] : m.seq = nfe /\ Rendezvous(e, m)
  BY DEF InOrderData
<1>2. PICK k \in 1..w :
        /\ IsReceivedRun(q, w, nfe, k)
        /\ Rxq' = [Rxq EXCEPT ![e] = Drained(q, w, nfe, k)]
        /\ NextFrameExpected' = [NextFrameExpected EXCEPT ![e] = nfe + k]
  BY DEF InOrderData
<1>3. UNCHANGED <<net, LargestSeqnoRcvd, AvailReaderMsgCap>>
  BY DEF InOrderData
<1>4. nfe \in Nat /\ w \in Nat \ {0} /\ Slots(e) = 0..(w - 1) /\ top \in Int /\ top >= -1
  BY <1>0, TypeFacts, WindowFacts DEF Slots
<1>5. IsWindowOf(q, w, nfe)
  BY InOrderWindow
<1>6. /\ NextFrameExpected'[e] = nfe + k /\ Rxq'[e] = Drained(q, w, nfe, k)
      /\ \A f \in Endpoint : f # e =>
           NextFrameExpected'[f] = NextFrameExpected[f] /\ Rxq'[f] = Rxq[f]
  BY <1>0, <1>2 DEF TypeOK
<1>7. \A i \in Slots(e) : q[i] = IF i = nfe % w THEN nfe ELSE Rxq[e][i]
  BY <1>0, <1>4 DEF TypeOK
<1>8. nfe <= top /\ \A i \in Slots(e) : Rxq[e][i] <= top
  BY <1>1, RendezvousRoom, RoomFacts
<1> HIDE DEF nfe, w, q, top
<1>9. \A i \in Slots(e) : q[i] <= top
  BY <1>7, <1>8
<1>91. \A j \in 0..(k - 1) : q[(nfe + j) % w] = nfe + j
  <2>1. /\ IsReceivedRun(q, w, nfe, k) /\ k \in 1..w /\ IsWindowOf(q, w, nfe)
        /\ w \in Nat \ {0} /\ nfe \in Nat
    BY <1>2, <1>4, <1>5
  <2>2. RunIsHere(q, w, nfe, k)
    BY <2>1, RunHolds
  <2> QED BY <2>2 DEF RunIsHere
<1>10. nfe + k <= top + 1
  <2>1. PICK j \in 0..(k - 1) : nfe + j = nfe + k - 1
    <3>1. k - 1 \in 0..(k - 1) /\ nfe + (k - 1) = nfe + k - 1
      BY <1>4
    <3> QED BY <3>1
  <2>2. q[(nfe + j) % w] = nfe + j
    BY <1>91
  <2>3. nfe + j \in Nat
    BY <1>4
  <2>4. (nfe + j) % w \in Slots(e)
    BY <1>4, <2>3, DivMod
  <2>5. nfe + j <= top
    BY <1>9, <2>2, <2>4
  <2> QED BY <1>4, <2>1, <2>5
<1>11. \A i \in Slots(e) : Rxq'[e][i] <= top
  <2> TAKE i \in Slots(e)
  <2>1. Rxq'[e][i] # NoSeq => Rxq'[e][i] = q[i]
    BY <1>2, <1>4, <1>5, <1>6, DrainedIsBeyond
  <2> QED BY <1>4, <1>9, <2>1 DEF NoSeq
<1>12. \A f \in Endpoint :
         /\ NextFrameExpected'[f] <= LargestSeqnoRcvd[f] + 1
         /\ \A i \in Slots(f) : Rxq'[f][i] <= LargestSeqnoRcvd[f]
  BY <1>6, <1>10, <1>11, RoomFacts DEF top
<1> QED BY <1>0, <1>1, <1>3, <1>12, RoomFacts, RendezvousRoom, RoomKept

LEMMA ConsumeRoom ==
  ASSUME DataPathInv, RoomIsBounded, NEW e \in Endpoint,
         NEW k \in 1..Len(ReadyForDelivery[e]), Consume(e, k)
  PROVE  RoomIsBounded'
<1> DEFINE last == ReadyForDelivery[e][k]
<1>0. TypeOK
  BY DEF DataPathInv
<1>1. /\ SendAck(e, last, last)
      /\ UNCHANGED <<LastFrameSent, LastSeenAvailReaderMsgCap, NextFrameExpected, Rxq,
                     LargestSeqnoRcvd, Handoff>>
  BY DEF Consume, sendVars, orderVars
<1>2. last \in Int /\ last <= LargestSeqnoRcvd[e]
  <2>1. PICK c \in Nat, r \in Nat : c = Len(Consumed[e]) /\ r = Len(ReadyForDelivery[e])
    BY ReceiverFacts
  <2>2. NextFrameExpected[e] = c + r /\ k \in 1..r
    BY <2>1, ReceiverFacts
  <2>4. last = c + k - 1
    BY <2>1, ReceiverFacts
  <2>3. NextFrameExpected[e] <= LargestSeqnoRcvd[e] + 1 /\ LargestSeqnoRcvd[e] \in Int
    BY <1>0, RoomFacts, TypeFacts
  <2> HIDE DEF last
  <2> QED BY <2>2, <2>3, <2>4
<1> HIDE DEF last
<1>3. /\ \A f \in Endpoint : AvailReaderMsgCap'[f] <= Window[f]
      /\ \A p \in net' : p \in net \/ p.cap <= Window[p.from]
  BY <1>0, <1>1, <1>2, SendAckRoom
<1>4. \A f \in Endpoint : LastFrameSent[f] \in Int /\ LastFrameSent[f] <= LastFrameSent[f]
  BY <1>0, TypeFacts
<1> QED BY <1>0, <1>1, <1>3, <1>4, RoomFacts, RoomKept

-----------------------------------------------------------------------------
(* Nothing is forgotten, and nobody sends beyond the room it has. *)

\* The room e reckons with is no more than its own slots; if e knows its peer's
\* window, no more than that.
LEMMA RoomSeen ==
  ASSUME RoomIsBounded, NEW e \in Endpoint, HasSlots(e)
  PROVE  /\ LastSeenAvailReaderMsgCap[e] \in Int => LastSeenAvailReaderMsgCap[e] <= Window[e]
         /\ KnowsRoom(e) => LastSeenAvailReaderMsgCap[e] <= Window[Peer(e)]
<1>1. \/ LastSeenAvailReaderMsgCap[e] <= Window[Peer(e)]
      \/ ~Connected /\ LastSeenAvailReaderMsgCap[e] <= Window[e]
  BY DEF RoomIsBounded
<1>2. Window[e] \in Nat /\ Window[Peer(e)] \in Nat /\ Window[Peer(e)] <= Window[e]
  BY WindowFacts, PeerFacts DEF HasSlots
<1> QED BY <1>1, <1>2 DEF KnowsRoom

\* A new message never takes the slot of one that is not acknowledged: the frames
\* from that one on would fill the window.
LEMMA AcceptSendTracked ==
  ASSUME DataPathInv, RoomIsBounded, NEW e \in Endpoint, HasSlots(e), UnackedIsTracked(e),
         AcceptSend(e)
  PROVE  UnackedIsTracked(e)'
<1> DEFINE w == Window[e]
           pos == (LastFrameSent[e] + 1) % w
<1>0. TypeOK
  BY DEF DataPathInv
<1>1. PICK lfs \in Nat : lfs = LastFrameSent[e] + 1
  BY <1>0, TypeFacts
<1>2. /\ FlowAllowsSend(e) /\ Acked' = Acked
      /\ LastFrameSent' = [LastFrameSent EXCEPT ![e] = lfs]
      /\ Txq' = [Txq EXCEPT ![e][pos] = lfs]
      /\ SentButNotAcked' = [SentButNotAcked EXCEPT ![e] = @ \cup {pos}]
  BY <1>1 DEF AcceptSend
<1>3. w \in Nat \ {0} /\ LastFrameSent[e] \in Int /\ lfs - 1 = LastFrameSent[e]
      /\ LastSeenAvailReaderMsgCap[e] <= w
  BY <1>0, <1>1, WindowFacts, TypeFacts, RoomSeen
<1>4. pos = lfs % w
  BY <1>1
<1> HIDE DEF pos, w
<1>5. pos \in Slots(e)
  BY <1>4, WindowFacts DEF w
<1>6. /\ LastFrameSent'[e] = lfs
      /\ \A i \in Slots(e) : Txq'[e][i] = IF i = pos THEN lfs ELSE Txq[e][i]
      /\ SentButNotAcked'[e] = SentButNotAcked[e] \cup {pos}
  BY <1>0, <1>2, <1>5 DEF TypeOK
<1>7. ASSUME NEW n \in 0..(lfs - 1), n % w = lfs % w, n \notin Acked[e]
      PROVE  FALSE
  <2>1. ~(lfs < n + w)
    <3>1. n \in Nat /\ n < lfs + w /\ n # lfs
      BY <1>3
    <3> QED BY <1>3, <1>7, <3>1, ModInjective
  <2>2. lfs - w \in Nat /\ n <= lfs - w
    BY <1>3, <2>1
  <2>3. PICK lo \in Nat : lo = lfs - w
    BY <2>2
  <2>4. lo + w - 1 = LastFrameSent[e] /\ n <= lo
    BY <1>3, <2>2, <2>3
  <2>5. PICK a \in lo..(lo + w - 1) : a \in Acked[e]
    <3>1. w \in Nat /\ w <= w /\ lo + w - 1 <= LastFrameSent[e]
      BY <1>3, <2>4
    <3> QED BY <1>0, <1>2, <1>3, <3>1, NotFull DEF w
  <2>6. n \in 0..a
    BY <1>3, <2>4
  <2> QED BY <1>7, <2>5, <2>6 DEF UnackedIsTracked
<1>8. ASSUME NEW n \in 0..lfs, n \notin Acked[e]
      PROVE  n % w \in SentButNotAcked'[e] /\ Txq'[e][n % w] = n
  <2>1. CASE n = lfs
    BY <1>4, <1>5, <1>6, <2>1
  <2>2. CASE n # lfs
    <3>1. n \in 0..(lfs - 1) /\ n \in 0..LastFrameSent[e]
      BY <1>1, <1>3, <2>2
    <3>2. n % w \in SentButNotAcked[e] /\ Txq[e][n % w] = n
      BY <1>8, <3>1 DEF UnackedIsTracked, w
    <3>3. n % w # pos
      BY <1>4, <1>7, <1>8, <3>1
    <3>4. n % w \in Slots(e)
      BY <1>0, <3>2, TypeFacts
    <3> QED BY <1>6, <3>2, <3>3, <3>4
  <2> QED BY <2>1, <2>2
<1>9. \A n \in Acked[e] : 0..n \subseteq Acked[e]
  BY DEF UnackedIsTracked
<1> QED BY <1>2, <1>6, <1>8, <1>9 DEF UnackedIsTracked, w

\* What is not acknowledged fits in the room the peer has: were it more, the room
\* the peer last advertised would be in flight already.
LEMMA AcceptSendCredit ==
  ASSUME DataPathInv, RoomIsBounded, NEW e \in Endpoint, HasSlots(e), KnowsRoom(e),
         UnackedIsTracked(e), WithinCredit(e), AcceptSend(e)
  PROVE  WithinCredit(e)'
<1> DEFINE w == Window[Peer(e)]
           lfcc == LastFrameClientConsumed[Peer(e)]
<1>0. TypeOK /\ SenderIsHonest
  BY DEF DataPathInv
<1>1. PICK lfs \in Nat : lfs = LastFrameSent[e] + 1
  BY <1>0, TypeFacts
<1>2. /\ FlowAllowsSend(e) /\ LastFrameClientConsumed' = LastFrameClientConsumed
      /\ LastFrameSent' = [LastFrameSent EXCEPT ![e] = lfs]
  BY <1>1 DEF AcceptSend, consumeVars
<1>3. /\ w \in Nat \ {0} /\ w <= Window[e] /\ lfcc \in Nat /\ LastFrameSent[e] = lfs - 1
      /\ LastFrameSent[e] \in Int
  BY <1>0, <1>1, WindowFacts, PeerFacts, TypeFacts DEF HasSlots
<1>4. LastSeenAvailReaderMsgCap[e] <= w
  BY RoomSeen
<1>5. Acked[e] \subseteq 0..lfcc
  BY <1>0 DEF SenderIsHonest
<1>6. LastFrameSent'[e] = lfs
  BY <1>0, <1>2 DEF TypeOK
<1> HIDE DEF w, lfcc
<1>7. lfs <= w + lfcc
  <2> SUFFICES ASSUME lfs > w + lfcc PROVE FALSE
    BY <1>3
  <2>1. lfs - w \in Nat /\ lfs - w > lfcc
    BY <1>3
  <2>2. PICK lo \in Nat : lo = lfs - w
    BY <2>1
  <2>3. lo > lfcc /\ lo + w - 1 <= LastFrameSent[e] /\ w \in Nat
    BY <1>3, <2>1, <2>2
  <2>4. PICK a \in lo..(lo + w - 1) : a \in Acked[e]
    BY <1>0, <1>2, <1>3, <1>4, <2>3, NotFull
  <2>5. a \in 0..lfcc
    BY <1>5, <2>4
  <2> QED BY <1>3, <2>3, <2>4, <2>5
<1> QED BY <1>2, <1>6, <1>7 DEF WithinCredit, w, lfcc

\* An acknowledgement covers every message up to its number.
LEMMA RendezvousTracked ==
  ASSUME DataPathInv, NEW e \in Endpoint, NEW m, Rendezvous(e, m),
         NEW f \in Endpoint, UnackedIsTracked(f)
  PROVE  UnackedIsTracked(f)'
<1> DEFINE done == {pos \in SentButNotAcked[e] : Txq[e][pos] <= m.ack}
<1>0. TypeOK /\ SenderIsHonest
  BY DEF DataPathInv
<1>1. /\ SentButNotAcked' = [SentButNotAcked EXCEPT ![e] = @ \ done]
      /\ Acked' = [Acked EXCEPT ![e] = @ \cup {Txq[e][pos] : pos \in done}]
      /\ UNCHANGED <<LastFrameSent, Txq>>
  BY DEF Rendezvous, GotPack
<1>2. m.ack \in Int
  BY RendezvousFacts DEF Packet
<1>3. \A pos \in done : pos \in Slots(e) /\ Txq[e][pos] \in 0..LastFrameSent[e]
  BY <1>0, TypeFacts DEF SenderIsHonest, NoSeq
<1>4. CASE f = e
  <2>1. /\ SentButNotAcked'[e] = SentButNotAcked[e] \ done
        /\ Acked'[e] = Acked[e] \cup {Txq[e][pos] : pos \in done}
    BY <1>0, <1>1 DEF TypeOK
  <2>2. LastFrameSent[e] \in Int
    BY <1>0, TypeFacts
  <2>3. ASSUME NEW n \in 0..LastFrameSent[e], n \notin Acked'[e]
        PROVE  n % Window[e] \in SentButNotAcked'[e] /\ Txq[e][n % Window[e]] = n
    <3>1. n % Window[e] \in SentButNotAcked[e] /\ Txq[e][n % Window[e]] = n
      BY <1>4, <2>1, <2>3 DEF UnackedIsTracked
    <3>2. n % Window[e] \notin done
      BY <2>1, <2>3, <3>1
    <3> QED BY <2>1, <3>1, <3>2
  <2>4. ASSUME NEW n \in 0..LastFrameSent[e], n <= m.ack
        PROVE  n \in Acked'[e]
    <3>1. CASE n \in Acked[e]
      BY <2>1, <3>1
    <3>2. CASE n \notin Acked[e]
      <4>1. n % Window[e] \in SentButNotAcked[e] /\ Txq[e][n % Window[e]] = n
        BY <1>4, <3>2 DEF UnackedIsTracked
      <4>2. n % Window[e] \in done
        BY <2>4, <4>1
      <4> QED BY <2>1, <4>1, <4>2
    <3> QED BY <3>1, <3>2
  <2>5. ASSUME NEW n \in Acked'[e], NEW h \in 0..n
        PROVE  h \in Acked'[e]
    <3>1. CASE n \in Acked[e]
      BY <1>4, <2>1, <2>5, <3>1 DEF UnackedIsTracked
    <3>2. CASE n \notin Acked[e]
      <4>1. PICK pos \in done : n = Txq[e][pos]
        BY <2>1, <3>2
      <4>2. n \in 0..LastFrameSent[e] /\ n <= m.ack
        BY <1>3, <4>1
      <4>3. h \in 0..LastFrameSent[e] /\ h <= m.ack
        BY <1>2, <2>2, <4>2
      <4> QED BY <2>4, <4>3
    <3> QED BY <3>1, <3>2
  <2> QED BY <1>1, <1>4, <2>3, <2>5 DEF UnackedIsTracked
<1>5. CASE f # e
  <2>1. SentButNotAcked'[f] = SentButNotAcked[f] /\ Acked'[f] = Acked[f]
    BY <1>0, <1>1, <1>5 DEF TypeOK
  <2> QED BY <1>1, <2>1 DEF UnackedIsTracked
<1> QED BY <1>4, <1>5

-----------------------------------------------------------------------------
(* The invariant, and what follows from it.                                 *)

LEMMA InitFlow == Init => FlowInv
<1> SUFFICES ASSUME Init PROVE FlowInv
  OBVIOUS
<1>1. DataPathInv
  BY InitInv
<1>2. \A e \in Endpoint : Window[e] \in Nat \ {0} /\ Window[Peer(e)] \in Nat \ {0}
  BY WindowFacts, PeerFacts
<1>3. RoomIsBounded
  <2>1. \A m \in net : m.cap <= Window[m.from]
    <3>1. \A e \in Endpoint : AckPacket(e, "Handshake", 0, Window[e]).cap = Window[e]
                              /\ AckPacket(e, "Handshake", 0, Window[e]).from = e
      BY DEF AckPacket
    <3>2. \A m \in net : \E e \in Endpoint : m = AckPacket(e, "Handshake", 0, Window[e])
      BY DEF Init
    <3> QED BY <1>2, <3>1, <3>2
  <2>2. ASSUME NEW e \in Endpoint
        PROVE  /\ AvailReaderMsgCap[e] <= Window[e]
               /\ \/ LastSeenAvailReaderMsgCap[e] <= Window[Peer(e)]
                  \/ ~Connected /\ LastSeenAvailReaderMsgCap[e] <= Window[e]
    BY <1>2 DEF Init
  <2>3. ASSUME NEW e \in Endpoint
        PROVE  /\ Handoff[e] = {}
               /\ NextFrameExpected[e] = 0 /\ LargestSeqnoRcvd[e] = -1
               /\ \A i \in Slots(e) : Rxq[e][i] = -1
               /\ LastFrameSent[Peer(e)] = -1
    BY PeerFacts DEF Init, NoSeq
  <2> QED BY <2>1, <2>2, <2>3 DEF RoomIsBounded
<1>4. \A e \in Endpoint : UnackedIsTracked(e) /\ WithinCredit(e)
  <2> TAKE e \in Endpoint
  <2>1. LastFrameSent[e] = -1 /\ Acked[e] = {} /\ LastFrameClientConsumed[Peer(e)] = 0
    BY PeerFacts DEF Init
  <2> QED BY <1>2, <2>1 DEF UnackedIsTracked, WithinCredit
<1> QED BY <1>1, <1>3, <1>4 DEF FlowInv

\* What FlowInv says of one sender.
FlowOf(e) == HasSlots(e) => UnackedIsTracked(e) /\ (KnowsRoom(e) => WithinCredit(e))

\* A step that sends nothing new: what is acknowledged or consumed only grows.
LEMMA FlowKept ==
  ASSUME TypeOK, TypeOK', LastFrameSent' = LastFrameSent, NEW e \in Endpoint, FlowOf(e),
         UnackedIsTracked(e) => UnackedIsTracked(e)',
         LastFrameClientConsumed[Peer(e)] <= LastFrameClientConsumed'[Peer(e)]
  PROVE  FlowOf(e)'
<1>0. Peer(e) \in Endpoint
  BY PeerFacts
<1>a. LastFrameClientConsumed'[Peer(e)] \in Int
  BY <1>0 DEF TypeOK
<1>1. /\ LastFrameSent[e] \in Int /\ Window[Peer(e)] \in Int
      /\ LastFrameClientConsumed[Peer(e)] \in Int /\ LastFrameClientConsumed'[Peer(e)] \in Int
  BY <1>0, <1>a, TypeFacts, WindowFacts
<1>2. WithinCredit(e) => WithinCredit(e)'
  BY <1>1 DEF WithinCredit
<1> QED BY <1>2 DEF FlowOf, HasSlots, KnowsRoom

\* A step that leaves the sender's half and what the application took alone.
LEMMA FlowIdles ==
  ASSUME UNCHANGED <<LastFrameSent, Txq, SentButNotAcked, Acked, LastFrameClientConsumed>>,
         NEW e \in Endpoint, FlowOf(e)
  PROVE  FlowOf(e)'
<1>1. UnackedIsTracked(e) => UnackedIsTracked(e)'
  BY DEF UnackedIsTracked
<1>2. WithinCredit(e) => WithinCredit(e)'
  BY DEF WithinCredit
<1> QED BY <1>1, <1>2 DEF FlowOf, HasSlots, KnowsRoom

LEMMA AcceptSendFlow ==
  ASSUME DataPathInv, RoomIsBounded, NEW e \in Endpoint, AcceptSend(e),
         NEW f \in Endpoint, FlowOf(f)
  PROVE  FlowOf(f)'
<1>0. TypeOK
  BY DEF DataPathInv
<1>1. CASE f = e
  <2>1. HasSlots(e) /\ UnackedIsTracked(e) => UnackedIsTracked(e)'
    BY AcceptSendTracked
  <2>2. HasSlots(e) /\ UnackedIsTracked(e) /\ KnowsRoom(e) /\ WithinCredit(e) => WithinCredit(e)'
    BY AcceptSendCredit
  <2> QED BY <1>1, <2>1, <2>2 DEF FlowOf, HasSlots, KnowsRoom
<1>2. CASE f # e
  <2> DEFINE lfs == LastFrameSent[e] + 1
             pos == lfs % Window[e]
  <2>1. /\ LastFrameSent' = [LastFrameSent EXCEPT ![e] = lfs]
        /\ Txq' = [Txq EXCEPT ![e][pos] = lfs]
        /\ SentButNotAcked' = [SentButNotAcked EXCEPT ![e] = @ \cup {pos}]
        /\ UNCHANGED <<Acked, LastFrameClientConsumed>>
    BY DEF AcceptSend, consumeVars
  <2> HIDE DEF lfs, pos
  <2>2. /\ LastFrameSent'[f] = LastFrameSent[f] /\ Txq'[f] = Txq[f]
        /\ SentButNotAcked'[f] = SentButNotAcked[f]
    BY <1>0, <1>2, <2>1 DEF TypeOK
  <2>3. UnackedIsTracked(f) => UnackedIsTracked(f)'
    BY <2>1, <2>2 DEF UnackedIsTracked
  <2>4. WithinCredit(f) => WithinCredit(f)'
    BY <2>1, <2>2 DEF WithinCredit
  <2> QED BY <2>3, <2>4 DEF FlowOf, HasSlots, KnowsRoom
<1> QED BY <1>1, <1>2

LEMMA HandleHandoffFlow ==
  ASSUME DataPathInv, DataPathInv', NEW e \in Endpoint, HandleHandoff(e),
         NEW f \in Endpoint, FlowOf(f)
  PROVE  FlowOf(f)'
<1>0. TypeOK /\ TypeOK'
  BY DEF DataPathInv
<1>1. (\E m \in Handoff[e] : Rendezvous(e, m)) /\ UNCHANGED LastFrameClientConsumed
  <2>1. CASE RecvInfo(e)
    BY <2>1 DEF RecvInfo, consumeVars
  <2>2. CASE RecvKeepAlive(e)
    BY <2>2 DEF RecvKeepAlive, consumeVars
  <2>3. CASE DiscardData(e)
    BY <2>3 DEF DiscardData, consumeVars
  <2>4. CASE BufferData(e)
    BY <2>4 DEF BufferData, consumeVars
  <2>5. CASE InOrderData(e)
    BY <2>5 DEF InOrderData, consumeVars
  <2> QED BY <2>1, <2>2, <2>3, <2>4, <2>5 DEF HandleHandoff
<1>2. PICK m \in Handoff[e] : Rendezvous(e, m)
  BY <1>1
<1>3. LastFrameSent' = LastFrameSent
  BY <1>2, RendezvousFacts
<1>4. UnackedIsTracked(f) => UnackedIsTracked(f)'
  BY <1>2, RendezvousTracked
<1>5. LastFrameClientConsumed[Peer(f)] <= LastFrameClientConsumed'[Peer(f)]
  BY <1>0, <1>1, PeerFacts, TypeFacts
<1> QED BY <1>0, <1>3, <1>4, <1>5, FlowKept

\* The number of the last message the application took only grows.
LEMMA ConsumeGrows ==
  ASSUME DataPathInv, NEW e \in Endpoint, NEW k \in 1..Len(ReadyForDelivery[e]), Consume(e, k)
  PROVE  \A f \in Endpoint : LastFrameClientConsumed[f] <= LastFrameClientConsumed'[f]
<1> DEFINE last == ReadyForDelivery[e][k]
<1>0. TypeOK
  BY DEF DataPathInv
<1>1. LastFrameClientConsumed' = [LastFrameClientConsumed EXCEPT ![e] = last]
  BY DEF Consume
<1>2. PICK c \in Nat : c = Len(Consumed[e])
  BY ReceiverFacts
<1>k. k \in Nat /\ k >= 1
  BY ReceiverFacts
<1>r. last = c + k - 1
  BY <1>2, <1>k, ReceiverFacts DEF DataPathInv, HistoryIsInOrder
<1>3. LastFrameClientConsumed[e] = IF Consumed[e] = << >> THEN 0 ELSE c - 1
  BY <1>2 DEF DataPathInv, HistoryIsInOrder
<1> HIDE DEF last
<1>4. LastFrameClientConsumed[e] <= last
  BY <1>2, <1>3, <1>k, <1>r
<1> SUFFICES ASSUME NEW f \in Endpoint
             PROVE  LastFrameClientConsumed[f] <= LastFrameClientConsumed'[f]
  OBVIOUS
<1>5. LastFrameClientConsumed'[f] = IF f = e THEN last ELSE LastFrameClientConsumed[f]
  BY <1>0, <1>1 DEF TypeOK
<1>6. LastFrameClientConsumed[f] \in Int
  BY <1>0, TypeFacts
<1> QED BY <1>4, <1>5, <1>6

LEMMA ReadByAppFlow ==
  ASSUME DataPathInv, DataPathInv', NEW e \in Endpoint, ReadByApp(e),
         NEW f \in Endpoint, FlowOf(f)
  PROVE  FlowOf(f)'
<1>0. TypeOK /\ TypeOK'
  BY DEF DataPathInv
<1>1. PICK k \in 1..Len(ReadyForDelivery[e]) : Consume(e, k)
  BY SomeReadIsConsume
<1>2. UNCHANGED <<LastFrameSent, Txq, SentButNotAcked, Acked>>
  BY <1>1 DEF Consume, sendVars
<1>3. UnackedIsTracked(f) => UnackedIsTracked(f)'
  BY <1>2 DEF UnackedIsTracked
<1>4. LastFrameClientConsumed[Peer(f)] <= LastFrameClientConsumed'[Peer(f)]
  BY <1>1, ConsumeGrows, PeerFacts
<1> QED BY <1>0, <1>2, <1>3, <1>4, FlowKept

\* The steps by kind: FlowInv's two halves, each kept by every step.
LEMMA RoomNext ==
  ASSUME DataPathInv, RoomIsBounded, [Next]_vars
  PROVE  RoomIsBounded'
<1>1. ASSUME NEW e \in Endpoint, SendLoop(e)
      PROVE  RoomIsBounded'
  BY <1>1, AcceptSendRoom, RetryRoom, KeepAliveRoom DEF SendLoop
<1>2. ASSUME NEW e \in Endpoint, HandleHandoff(e)
      PROVE  RoomIsBounded'
  BY <1>2, RecvInfoRoom, RecvKeepAliveRoom, DiscardDataRoom, BufferDataRoom, InOrderDataRoom
     DEF HandleHandoff
<1>3. ASSUME NEW e \in Endpoint, ReadByApp(e)
      PROVE  RoomIsBounded'
  BY <1>3, SomeReadIsConsume, ConsumeRoom
<1>4. ASSUME NEW e \in Endpoint, NEW m \in net, RecvPack(e, m)
      PROVE  RoomIsBounded'
  BY <1>4, RecvPackRoom
<1>5. ASSUME NEW m \in net, Lose(m)
      PROVE  RoomIsBounded'
  <2>1. TypeOK /\ UNCHANGED endpointVars /\ net' \subseteq net
    BY <1>5 DEF DataPathInv, Lose
  <2> QED BY <2>1, NetStepRoom
<1>6. CASE UNCHANGED vars
  <2>1. TypeOK /\ UNCHANGED endpointVars /\ net' = net
    BY <1>6 DEF DataPathInv, vars
  <2> QED BY <2>1, NetStepRoom
<1> QED BY <1>1, <1>2, <1>3, <1>4, <1>5, <1>6 DEF Next

LEMMA FlowNext ==
  ASSUME DataPathInv, DataPathInv', RoomIsBounded, [Next]_vars, NEW f \in Endpoint, FlowOf(f)
  PROVE  FlowOf(f)'
<1>1. ASSUME NEW e \in Endpoint, SendLoop(e)
      PROVE  FlowOf(f)'
  <2>1. CASE AcceptSend(e)
    BY <2>1, AcceptSendFlow
  <2>2. CASE Retry(e) \/ KeepAlive(e)
    <3>1. UNCHANGED <<LastFrameSent, Txq, SentButNotAcked, Acked, LastFrameClientConsumed>>
      BY <2>2 DEF Retry, KeepAlive, endpointVars, sendVars, consumeVars
    <3> QED BY <3>1, FlowIdles
  <2> QED BY <1>1, <2>1, <2>2 DEF SendLoop
<1>2. ASSUME NEW e \in Endpoint, HandleHandoff(e)
      PROVE  FlowOf(f)'
  BY <1>2, HandleHandoffFlow
<1>3. ASSUME NEW e \in Endpoint, ReadByApp(e)
      PROVE  FlowOf(f)'
  BY <1>3, ReadByAppFlow
<1>4. ASSUME NEW e \in Endpoint, NEW m \in net, RecvPack(e, m)
      PROVE  FlowOf(f)'
  <2>1. UNCHANGED <<LastFrameSent, Txq, SentButNotAcked, Acked, LastFrameClientConsumed>>
    BY <1>4 DEF RecvPack, sendVars, consumeVars
  <2> QED BY <2>1, FlowIdles
<1>5. ASSUME NEW m \in net, Lose(m)
      PROVE  FlowOf(f)'
  <2>1. UNCHANGED <<LastFrameSent, Txq, SentButNotAcked, Acked, LastFrameClientConsumed>>
    BY <1>5 DEF Lose, endpointVars, sendVars, consumeVars
  <2> QED BY <2>1, FlowIdles
<1>6. CASE UNCHANGED vars
  <2>1. UNCHANGED <<LastFrameSent, Txq, SentButNotAcked, Acked, LastFrameClientConsumed>>
    BY <1>6 DEF vars, endpointVars, sendVars, consumeVars
  <2> QED BY <2>1, FlowIdles
<1> QED BY <1>1, <1>2, <1>3, <1>4, <1>5, <1>6 DEF Next

\* Flow control does its work in the direction of e for every two windows of which
\* e's is the larger (or equal): e tracks all it may still have to resend, and,
\* where e knew the peer's window from the start, never sends past it.
THEOREM FlowCorrect == Spec => []FlowInv
<1>1. Init => FlowInv
  BY InitFlow
<1>2. FlowInv /\ [Next]_vars => FlowInv'
  <2> SUFFICES ASSUME FlowInv, [Next]_vars PROVE FlowInv'
    OBVIOUS
  <2>1. DataPathInv /\ RoomIsBounded /\ \A e \in Endpoint : FlowOf(e)
    BY DEF FlowInv, FlowOf
  <2>2. DataPathInv' /\ RoomIsBounded'
    BY <2>1, NextInv, RoomNext
  <2>3. \A e \in Endpoint : FlowOf(e)'
    BY <2>1, <2>2, FlowNext
  <2> QED BY <2>2, <2>3 DEF FlowInv, FlowOf
<1> QED BY <1>1, <1>2, PTL DEF Spec

\* The two sessions have windows of one size.
SameWindows == Window[A] = Window[B]

LEMMA SameWindowsFlow ==
  ASSUME SameWindows, FlowInv, NEW e \in Endpoint
  PROVE  Window[Peer(e)] = Window[e] /\ UnackedIsTracked(e) /\ WithinCredit(e)
<1>1. Window[Peer(e)] = Window[e]
  BY DEF SameWindows, Peer, Endpoint
<1>2. Window[e] \in Nat
  BY WindowFacts
<1> QED BY <1>1, <1>2 DEF FlowInv, HasSlots, KnowsRoom

\* Every message sent is acknowledged or still in its slot and in the retry
\* trees, whatever the network loses, repeats or reorders (sender.go:261-321,
\* 332-396): no later message takes the slot of one that is still needed.
THEOREM NoMessageForgotten ==
  ASSUME SameWindows
  PROVE  Spec => []NothingForgotten
<1>1. FlowInv => NothingForgotten
  BY SameWindowsFlow DEF NothingForgotten, UnackedIsTracked
<1> QED BY <1>1, FlowCorrect, PTL

\* No message number reaches a receiver further ahead of its application than its
\* window (flow.go:80-99, sender.go:167-190).
THEOREM NoReceiverOverrun ==
  ASSUME SameWindows
  PROVE  Spec => []ReceiverNotOverrun
<1>1. ASSUME FlowInv
      PROVE  ReceiverNotOverrun
  <2> SUFFICES ASSUME NEW e \in Endpoint
               PROVE  LargestSeqnoRcvd[e] - Window[e] <=
                        (IF LastMsgConsumed[e] < 0 THEN 0 ELSE LastMsgConsumed[e])
    BY DEF ReceiverNotOverrun
  <2>0. DataPathInv /\ RoomIsBounded /\ TypeOK /\ HistoryIsInOrder
    BY <1>1 DEF FlowInv, DataPathInv
  <2>1. WithinCredit(Peer(e)) /\ Peer(Peer(e)) = e
    BY <1>1, PeerFacts, SameWindowsFlow
  <2>2. LastFrameSent[Peer(e)] <= Window[e] + LastFrameClientConsumed[e]
    BY <2>1 DEF WithinCredit
  <2>3. LargestSeqnoRcvd[e] <= LastFrameSent[Peer(e)]
    BY <2>0 DEF RoomIsBounded
  <2>4. /\ LargestSeqnoRcvd[e] \in Int /\ LastFrameSent[Peer(e)] \in Int /\ Window[e] \in Int
        /\ LastFrameClientConsumed[e] \in Nat /\ LastMsgConsumed[e] \in Int
    BY <2>0, TypeFacts, PeerFacts, WindowFacts
  <2>a. PICK c \in Nat : c = Len(Consumed[e])
    BY <2>0, ReceiverFacts
  <2>b. Consumed[e] = << >> <=> c = 0
    BY <2>0, <2>a, TypeFacts
  <2>c. /\ LastMsgConsumed[e] = c - 1
        /\ LastFrameClientConsumed[e] = IF Consumed[e] = << >> THEN 0 ELSE LastMsgConsumed[e]
    BY <2>0, <2>a DEF HistoryIsInOrder
  <2>5. LastFrameClientConsumed[e] <= IF LastMsgConsumed[e] < 0 THEN 0 ELSE LastMsgConsumed[e]
    BY <2>a, <2>b, <2>c
  <2> QED BY <2>2, <2>3, <2>4, <2>5
<1> QED BY <1>1, FlowCorrect, PTL

-----------------------------------------------------------------------------
(* The refinement.  The two sessions implement the stream their             *)
(* applications see, whatever the network does: a send is a push, a read    *)
(* takes the next messages, a hand-off that acknowledges anything is a      *)
(* confirmation, and every other step is invisible.                         *)

\* The abstract credit is the number of the last message consumed, plus one.
LEMMA CreditIs ==
  ASSUME DataPathInv, NEW e \in Endpoint
  PROVE  /\ Len(Consumed[e]) \in Nat
         /\ Stream!Credit(Len(Consumed[e])) = LastFrameClientConsumed[e] + 1
<1>1. TypeOK /\ HistoryIsInOrder
  BY DEF DataPathInv
<1>2. PICK c \in Nat : c = Len(Consumed[e])
  BY ReceiverFacts
<1>3. Consumed[e] = << >> <=> c = 0
  BY <1>1, <1>2, TypeFacts
<1>4. LastFrameClientConsumed[e] = IF c = 0 THEN 0 ELSE c - 1
  BY <1>1, <1>2, <1>3 DEF HistoryIsInOrder
<1> QED BY <1>2, <1>4 DEF Stream!Credit, Stream!First

LEMMA SeqIsItsItems ==
  ASSUME NEW s \in Seq(Nat)
  PROVE  s = [j \in 1..Len(s) |-> s[j]]
  OBVIOUS

LEMMA DifferenceAtLeast ==
  ASSUME NEW c \in Nat, NEW r \in Nat, NEW k \in Int, NEW n \in Int, c + r <= n + 1, k <= r
  PROVE  k <= (n + 1) - c
  OBVIOUS

LEMMA StreamNames ==
  Stream!Endpoint = Endpoint /\ \A e \in Endpoint : Stream!Peer(e) = Peer(e)
  BY DEF Stream!Endpoint, Stream!Peer, Endpoint, Peer

\* A session starts with an empty stream.
LEMMA InitIsSInit == Init => Stream!SInit
  BY StreamNames DEF Init, Stream!SInit

\* An accepted message is a push, and the abstract guard holds: the sender knows
\* no more of the room of its peer than there is.
LEMMA AcceptSendPushes ==
  ASSUME SameWindows, FlowInv, FlowInv', NEW e \in Endpoint, AcceptSend(e)
  PROVE  Stream!SPush(e)
<1>0. DataPathInv /\ TypeOK /\ Peer(e) \in Endpoint
  BY PeerFacts DEF FlowInv, DataPathInv
<1>1. /\ LastFrameSent' = [LastFrameSent EXCEPT ![e] = LastFrameSent[e] + 1]
      /\ UNCHANGED <<Consumed, LastFrameClientConsumed, Acked>>
  BY DEF AcceptSend, consumeVars
<1>2. WithinCredit(e)'
  <2>1. Window[Peer(e)] = Window[e]
    BY DEF SameWindows, Peer, Endpoint
  <2>2. Window[e] \in Nat
    BY WindowFacts
  <2>3. HasSlots(e)' /\ KnowsRoom(e)'
    BY <2>1, <2>2 DEF HasSlots, KnowsRoom
  <2> QED BY <2>3 DEF FlowInv
<1>3. LastFrameSent[e] \in Int /\ LastFrameSent'[e] = LastFrameSent[e] + 1
  BY <1>0, <1>1, TypeFacts DEF TypeOK
<1>4. LastFrameSent[e] + 1 <= Window[Peer(e)] + LastFrameClientConsumed[Peer(e)]
  BY <1>1, <1>2, <1>3 DEF WithinCredit
<1>5. /\ Stream!Credit(Len(Consumed[Peer(e)])) = LastFrameClientConsumed[Peer(e)] + 1
      /\ LastFrameClientConsumed[Peer(e)] \in Nat /\ Window[Peer(e)] \in Nat
  BY <1>0, CreditIs, TypeFacts, WindowFacts
<1> DEFINE pushed == [f \in Endpoint |-> LastFrameSent[f] + 1]
<1>6. pushed[e] < Window[Peer(e)] + Stream!Credit(Len(Consumed[Peer(e)]))
  BY <1>3, <1>4, <1>5
<1>7. [f \in Endpoint |-> LastFrameSent'[f] + 1] = [pushed EXCEPT ![e] = @ + 1]
  BY <1>0, <1>1 DEF TypeOK
<1> QED BY <1>1, <1>6, <1>7, StreamNames DEF Stream!SPush

\* A read takes the next messages of the stream, and not more than were pushed.
LEMMA ConsumeTakes ==
  ASSUME DataPathInv, NEW e \in Endpoint, NEW k \in 1..Len(ReadyForDelivery[e]), Consume(e, k)
  PROVE  Stream!STake(e)
<1> DEFINE ready == ReadyForDelivery[e]
           next == [j \in 1..k |-> Len(Consumed[e]) + j - 1]
<1>0. TypeOK /\ HistoryIsInOrder /\ Peer(e) \in Endpoint
  BY PeerFacts DEF DataPathInv
<1>1. /\ Consumed' = [Consumed EXCEPT ![e] = @ \o SubSeq(ready, 1, k)]
      /\ UNCHANGED <<LastFrameSent, Acked>>
  BY DEF Consume, sendVars
<1>2. PICK c \in Nat : c = Len(Consumed[e])
  BY <1>0, ReceiverFacts
<1>3. PICK r \in Nat : r = Len(ready)
  BY ReceiverFacts
<1>4. SubSeq(ready, 1, k) = next
  <2>1. ready \in Seq(Nat) /\ k \in 1..Len(ready)
    BY <1>0, TypeFacts
  <2>2. /\ SubSeq(ready, 1, k) \in Seq(Nat) /\ Len(SubSeq(ready, 1, k)) = k
        /\ \A i \in 1..k : SubSeq(ready, 1, k)[i] = ready[i]
    BY <2>1, FrontFacts
  <2>a. 1..k \subseteq 1..Len(ready)
    BY <1>3
  <2>b. \A i \in 1..Len(ready) : ready[i] = Len(Consumed[e]) + i - 1
    BY ReceiverFacts, Zenon
  <2>3. \A i \in 1..k : ready[i] = Len(Consumed[e]) + i - 1
    BY <2>a, <2>b, Zenon
  <2>4. SubSeq(ready, 1, k) = [j \in 1..k |-> SubSeq(ready, 1, k)[j]]
    BY <2>2, SeqIsItsItems
  <2> QED BY <2>2, <2>3, <2>4
<1>5. k <= (LastFrameSent[Peer(e)] + 1) - c
  <2>1. c + r <= LastFrameSent[Peer(e)] + 1
    BY <1>0, <1>2, <1>3 DEF HistoryIsInOrder
  <2>2. LastFrameSent[Peer(e)] \in Int
    BY <1>0, TypeFacts
  <2>3. k <= r /\ k \in Int
    BY <1>3
  <2> QED BY <2>1, <2>2, <2>3, DifferenceAtLeast
<1>6. LastFrameSent[Peer(e)] \in Int
  BY <1>0, TypeFacts
<1>7. k \in 1..([f \in Endpoint |-> LastFrameSent[f] + 1][Peer(e)] - Len(Consumed[e]))
  BY <1>0, <1>2, <1>3, <1>5, <1>6
<1>8. Consumed' = [Consumed EXCEPT ![e] = @ \o next]
  BY <1>1, <1>4
<1>9. \E n \in 1..([f \in Endpoint |-> LastFrameSent[f] + 1][Stream!Peer(e)] - Len(Consumed[e])) :
        Consumed' = [Consumed EXCEPT ![e] =
                       @ \o [j \in 1..n |-> Len(Consumed[e]) + j - 1]]
  BY <1>7, <1>8, StreamNames
<1> QED BY <1>1, <1>9 DEF Stream!STake

\* What a hand-off acknowledges was delivered: the room for the first message
\* apart, the application of the peer has taken all of it.
LEMMA HandoffConfirms ==
  ASSUME DataPathInv, NEW e \in Endpoint, HandleHandoff(e)
  PROVE  Stream!SConfirm(e)
<1>0. TypeOK /\ SenderIsHonest /\ Peer(e) \in Endpoint
  BY PeerFacts DEF DataPathInv
<1>1. (\E m \in Handoff[e] : Rendezvous(e, m)) /\ UNCHANGED Consumed
  <2>1. CASE RecvInfo(e)
    BY <2>1 DEF RecvInfo, consumeVars
  <2>2. CASE RecvKeepAlive(e)
    BY <2>2 DEF RecvKeepAlive, consumeVars
  <2>3. CASE DiscardData(e)
    BY <2>3 DEF DiscardData, consumeVars
  <2>4. CASE BufferData(e)
    BY <2>4 DEF BufferData, consumeVars
  <2>5. CASE InOrderData(e)
    BY <2>5 DEF InOrderData, consumeVars
  <2> QED BY <2>1, <2>2, <2>3, <2>4, <2>5 DEF HandleHandoff
<1>2. PICK m \in Handoff[e] : Rendezvous(e, m)
  BY <1>1
<1> DEFINE done == {pos \in SentButNotAcked[e] : Txq[e][pos] <= m.ack}
           S == {Txq[e][pos] : pos \in done}
<1>3. /\ Acked' = [Acked EXCEPT ![e] = @ \cup S]
      /\ UNCHANGED LastFrameSent
  BY <1>2 DEF Rendezvous, GotPack
<1>4. S \subseteq 0..LastFrameClientConsumed[Peer(e)]
  <2>1. Acked'[e] \subseteq 0..LastFrameClientConsumed[Peer(e)]
    BY <1>2, RendezvousFacts
  <2>2. Acked'[e] = Acked[e] \cup S
    <3> HIDE DEF S
    <3> QED BY <1>0, <1>3 DEF TypeOK
  <2> QED BY <2>1, <2>2
<1>5. S \subseteq 0..LastFrameSent[e]
  <2> SUFFICES ASSUME NEW pos \in done
               PROVE  Txq[e][pos] \in 0..LastFrameSent[e]
    OBVIOUS
  <2>1. pos \in Slots(e)
    BY <1>0, TypeFacts
  <2>2. Txq[e][pos] <= LastFrameSent[e] /\ LastFrameSent[e] \in Int
    BY <1>0, <2>1, TypeFacts DEF SenderIsHonest
  <2>3. Txq[e][pos] \in S
    OBVIOUS
  <2>4. Txq[e][pos] \in Nat
    BY <1>4, <2>3
  <2> QED BY <2>2, <2>4
<1> HIDE DEF S
<1>6. /\ Stream!Credit(Len(Consumed[Peer(e)])) = LastFrameClientConsumed[Peer(e)] + 1
      /\ LastFrameClientConsumed[Peer(e)] \in Nat
  BY <1>0, CreditIs, TypeFacts
<1>7. S \subseteq 0..(Stream!Credit(Len(Consumed[Stream!Peer(e)])) - 1)
  BY <1>4, <1>6, StreamNames
<1>8. S \subseteq 0..([f \in Endpoint |-> LastFrameSent[f] + 1][e] - 1)
  <2>1. LastFrameSent[e] \in Int
    BY <1>0, TypeFacts
  <2>2. [f \in Endpoint |-> LastFrameSent[f] + 1][e] - 1 = LastFrameSent[e]
    BY <2>1
  <2> QED BY <1>5, <2>2
<1> QED BY <1>1, <1>3, <1>7, <1>8 DEF Stream!SConfirm

\* Every step of the two sessions is a step of the stream or none.
LEMMA NextIsSNext ==
  ASSUME SameWindows, FlowInv, FlowInv', [Next]_vars
  PROVE  [Stream!SNext]_(Stream!svars)
<1>0. DataPathInv
  BY DEF FlowInv
<1>1. ASSUME UNCHANGED <<LastFrameSent, Consumed, Acked>>
      PROVE  UNCHANGED Stream!svars
  BY <1>1 DEF Stream!svars
<1>2. ASSUME NEW e \in Endpoint, SendLoop(e)
      PROVE  [Stream!SNext]_(Stream!svars)
  <2>1. CASE AcceptSend(e)
    BY <2>1, AcceptSendPushes, StreamNames DEF Stream!SNext
  <2>2. CASE Retry(e) \/ KeepAlive(e)
    BY <1>1, <2>2 DEF Retry, KeepAlive, endpointVars, sendVars, consumeVars
  <2> QED BY <1>2, <2>1, <2>2 DEF SendLoop
<1>3. ASSUME NEW e \in Endpoint, HandleHandoff(e)
      PROVE  [Stream!SNext]_(Stream!svars)
  BY <1>0, <1>3, HandoffConfirms, StreamNames DEF Stream!SNext
<1>4. ASSUME NEW e \in Endpoint, ReadByApp(e)
      PROVE  [Stream!SNext]_(Stream!svars)
  <2>1. PICK k \in 1..Len(ReadyForDelivery[e]) : Consume(e, k)
    BY <1>0, <1>4, SomeReadIsConsume
  <2>2. Stream!STake(e)
    BY <1>0, <2>1, ConsumeTakes
  <2> QED BY <2>2, StreamNames DEF Stream!SNext
<1>5. ASSUME NEW e \in Endpoint, NEW m \in net, RecvPack(e, m)
      PROVE  [Stream!SNext]_(Stream!svars)
  BY <1>1, <1>5 DEF RecvPack, sendVars, consumeVars
<1>6. ASSUME NEW m \in net, Lose(m)
      PROVE  [Stream!SNext]_(Stream!svars)
  BY <1>1, <1>6 DEF Lose, endpointVars, sendVars, consumeVars
<1>7. CASE UNCHANGED vars
  BY <1>1, <1>7 DEF vars, endpointVars, sendVars, consumeVars
<1> QED BY <1>2, <1>3, <1>4, <1>5, <1>6, <1>7 DEF Next

\* Two sessions with windows of one size implement the stream of ReliableStream:
\* messages arrive in order, exactly once, never further ahead than the window,
\* and none but the first is confirmed before it was taken (sender.go:167-321,
\* recv.go:308-361, 488-566).
THEOREM StreamImplemented ==
  ASSUME SameWindows
  PROVE  Spec => ImplementsStream
<1>1. Init => Stream!SInit
  BY InitIsSInit
<1>2. FlowInv /\ FlowInv' /\ [Next]_vars => [Stream!SNext]_(Stream!svars)
  BY NextIsSNext
<1>3. Spec => []FlowInv
  BY FlowCorrect
<1> QED BY <1>1, <1>2, <1>3, PTL DEF Spec, ImplementsStream, Stream!SSpec
=============================================================================
