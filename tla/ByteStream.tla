----------------------------- MODULE ByteStream ------------------------------
(***************************************************************************)
(* The bytes of one direction of a connected session: Session.Write chops  *)
(* payloads into packets and waits for an end-to-end ack, the sendloop     *)
(* charges bytes against the capacity its peer advertises and credits the  *)
(* Write's ByteAccount, the recvloop counts cumulative bytes, and          *)
(* Session.Read takes packets apart again (swp.go, sender.go, recv.go).    *)
(*                                                                         *)
(* The network keeps every packet for ever and hands over any of them at   *)
(* any time: loss, delay, reordering, duplication and retransmission are   *)
(* choices of what is received.  Slots are the subject of SlidingWindow;   *)
(* here the windows are sets of sequence numbers.                          *)
(***************************************************************************)
EXTENDS Integers, Sequences, FiniteSets, Functions

CONSTANTS WindowMsgCount,  \* both windows, in messages
          WindowByteSz,    \* the receiver's buffer, in bytes
          MaxPacketSz,     \* Bound: maxSz in Write, 1 << 19 in the code
          Writes,          \* Bound: the lengths of the payloads written, in order
          ReadSizes        \* Bound: the lengths of the buffers Read is called with

ASSUME BytesAssumption ==
  /\ WindowMsgCount \in Nat \ {0} /\ MaxPacketSz \in Nat \ {0}
  /\ WindowByteSz \in Nat /\ WindowByteSz >= WindowMsgCount
  /\ Writes \in Seq(Nat \ {0}) /\ ReadSizes \subseteq Nat \ {0}

VARIABLES
  \* the writing application
  write,                        \* which Write is running
  pushed,                       \* how many of its packets Push has returned from
  NumBytesAcked,                \* the ByteAccount of each Write
  cliAcked,                     \* the Writes whose CliAcked was broadcast
  result,                       \* what each Write returned
  \* its sendloop
  SendHistory,                  \* the packets sent; frame n is entry n + 1
  TotalBytesSent,
  SentButNotAcked,              \* the frames in the retry trees
  LastSeenAvailReaderMsgCap,
  LastSeenAvailReaderBytesCap,
  crediting,                    \* frames the GotPack handler has yet to credit
  told,                         \* it has broadcast for the first of them
  senderDone,                   \* the sendloop has ended
  \* the network towards the writer
  acks,                         \* DataAcks and keepalives
  \* the reading side's recvloop
  NextFrameExpected,
  Rxq,                          \* frames received out of order
  ReadyForDelivery,
  DataOffset,                   \* of the first ready packet; the others have 0
  LastMsgConsumed,
  LastFrameClientConsumed,
  LastByteConsumed,
  LargestSeqnoRcvd,
  MaxCumulBytesTrans,
  flow,                         \* FlowCt.Flow: AvailReaderMsgCap, AvailReaderBytesCap
  recvLastFrameClientConsumed,
  panicked,                     \* one of its assertions about byte counts failed
  \* the reading application
  got                           \* the bytes it has read

appVars == <<write, pushed, result>>
creditVars == <<NumBytesAcked, cliAcked, crediting, told>>
sentVars == <<SendHistory, TotalBytesSent>>
flowSeen == <<LastSeenAvailReaderMsgCap, LastSeenAvailReaderBytesCap>>
writerVars == <<appVars, creditVars, sentVars, SentButNotAcked, flowSeen, senderDone>>
orderVars == <<NextFrameExpected, Rxq>>
consumeVars == <<DataOffset, LastMsgConsumed, LastFrameClientConsumed, LastByteConsumed, got>>
largestVars == <<LargestSeqnoRcvd, MaxCumulBytesTrans, panicked>>
readerVars == <<orderVars, ReadyForDelivery, consumeVars, largestVars, flow,
                recvLastFrameClientConsumed>>
vars == <<writerVars, acks, readerVars>>

Min2(a, b) == IF a < b THEN a ELSE b

-----------------------------------------------------------------------------
(* Packets. *)

\* Write: how many packets a payload of len bytes becomes, and the i-th of them
\* from 0.  Byte j of the payload of Write w is the pair <<w, j>>.
Sz == Min2(WindowByteSz, MaxPacketSz)

Npack(len) == len \div Sz + (IF len % Sz > 0 THEN 1 ELSE 0)

Piece(w, i) == [j \in 1..(Min2((i + 1) * Sz, Writes[w]) - i * Sz) |-> <<w, i * Sz + j>>]

Frame(n) == SendHistory[n + 1]
Size(n) == Len(Frame(n).data)
LastFrameSent == Len(SendHistory) - 1

\* The bytes of the packets that are still in the retry trees.
bytesInflight ==
  LET through[k \in 0..Len(SendHistory)] ==
        IF k = 0 THEN 0
        ELSE through[k - 1] + (IF k - 1 \in SentButNotAcked THEN Size(k - 1) ELSE 0)
  IN through[Len(SendHistory)]

msgInflight == Cardinality(SentButNotAcked)

NotReturned == [n |-> -1, by |-> "running"]

\* The handshake is over: each side knows the other's capacities.
Init ==
  /\ write = 1 /\ pushed = 0
  /\ NumBytesAcked = [w \in 1..Len(Writes) |-> 0]
  /\ cliAcked = {}
  /\ result = [w \in 1..Len(Writes) |-> NotReturned]
  /\ SendHistory = << >> /\ TotalBytesSent = 0 /\ SentButNotAcked = {}
  /\ LastSeenAvailReaderMsgCap = WindowMsgCount
  /\ LastSeenAvailReaderBytesCap = WindowByteSz
  /\ crediting = {} /\ told = FALSE /\ senderDone = FALSE
  /\ acks = {}
  /\ NextFrameExpected = 0 /\ Rxq = {} /\ ReadyForDelivery = << >>
  /\ DataOffset = 0 /\ LastMsgConsumed = -1 /\ LastFrameClientConsumed = 0
  /\ LastByteConsumed = -1 /\ LargestSeqnoRcvd = -1 /\ MaxCumulBytesTrans = 0
  /\ flow = [msg |-> WindowMsgCount, bytes |-> WindowByteSz]
  /\ recvLastFrameClientConsumed = 0
  /\ panicked = FALSE /\ got = << >>

-----------------------------------------------------------------------------
(* Write and its sendloop. *)

Running == write <= Len(Writes)
AllPushed == pushed = Npack(Writes[write])

\* Mutant: bytes in flight are not counted.
FlowIgnoresBytes ==
  LastSeenAvailReaderMsgCap - msgInflight > 0 /\ LastSeenAvailReaderBytesCap > 0

FlowAllowsSend ==
  /\ LastSeenAvailReaderMsgCap - msgInflight > 0
  /\ LastSeenAvailReaderBytesCap - bytesInflight > 0

\* Push hands the next piece to the sendloop, which gives it a sequence number
\* and the count of all bytes up to and including it, and sends it.
AcceptSend ==
  /\ Running /\ ~AllPushed /\ ~senderDone /\ crediting = {}
  /\ FlowAllowsSend
  /\ LET data == Piece(write, pushed)
     IN /\ TotalBytesSent' = TotalBytesSent + Len(data)
        /\ SendHistory' = Append(SendHistory,
             [data |-> data, write |-> write, cumul |-> TotalBytesSent',
              last |-> pushed = Npack(Writes[write]) - 1])
  /\ SentButNotAcked' = SentButNotAcked \cup {LastFrameSent + 1}
  /\ pushed' = pushed + 1
  /\ UNCHANGED <<write, result, creditVars, flowSeen, senderDone, acks, readerVars>>

\* Push returns because the sender is done: the piece is not sent.
PushGivesUp ==
  /\ Running /\ ~AllPushed /\ senderDone
  /\ pushed' = pushed + 1
  /\ UNCHANGED <<write, result, creditVars, sentVars, SentButNotAcked, flowSeen, senderDone,
                 acks, readerVars>>

\* Write wakes up on CliAcked, on its ten seconds or on the end of the session,
\* and returns what its ByteAccount holds by then; the error is always nil.
WriteReturns(by) ==
  /\ Running /\ AllPushed
  /\ by = "ack" => write \in cliAcked
  /\ by = "done" => senderDone
  /\ result' = [result EXCEPT ![write] = [n |-> NumBytesAcked[write], by |-> by]]
  /\ write' = write + 1 /\ pushed' = 0
  /\ UNCHANGED <<creditVars, sentVars, SentButNotAcked, flowSeen, senderDone, acks, readerVars>>

\* Mutant: keepalives and acks release every frame sent so far.
GotPackReleasesAll(m) ==
  /\ ~senderDone /\ crediting = {}
  /\ LastSeenAvailReaderMsgCap' = m.msg /\ LastSeenAvailReaderBytesCap' = m.bytes
  /\ SentButNotAcked' = {}
  /\ crediting' = SentButNotAcked
  /\ told' = FALSE
  /\ UNCHANGED <<appVars, NumBytesAcked, cliAcked, sentVars, senderDone, acks, readerVars>>

\* The sendloop takes an ack or keepalive from its receiver: the capacities in
\* it replace what was known, and the frames it covers leave the retry trees.
GotPack(m) ==
  LET done == {n \in SentButNotAcked : n <= m.ack}
  IN /\ ~senderDone /\ crediting = {}
     /\ LastSeenAvailReaderMsgCap' = m.msg /\ LastSeenAvailReaderBytesCap' = m.bytes
     /\ SentButNotAcked' = SentButNotAcked \ done
     /\ crediting' = done
     /\ told' = FALSE
     /\ UNCHANGED <<appVars, NumBytesAcked, cliAcked, sentVars, senderDone, acks, readerVars>>

\* The slot that handler is about to delete; they go in the order of their frames.
Deleted == CHOOSE n \in crediting : \A k \in crediting : n <= k

\* Mutant: the first packet of a Write carries its CliAcked.
BroadcastFirst ==
  /\ crediting # {} /\ ~told
  /\ cliAcked' = cliAcked \cup {Frame(Deleted).write}
  /\ told' = TRUE
  /\ UNCHANGED <<appVars, NumBytesAcked, crediting, sentVars, SentButNotAcked, flowSeen,
                 senderDone, acks, readerVars>>

\* Still in that handler, for each slot deleted: the last packet of a Write wakes
\* the Write before its own bytes are counted.
Broadcast ==
  /\ crediting # {} /\ ~told /\ Frame(Deleted).last
  /\ cliAcked' = cliAcked \cup {Frame(Deleted).write}
  /\ told' = TRUE
  /\ UNCHANGED <<appVars, NumBytesAcked, crediting, sentVars, SentButNotAcked, flowSeen,
                 senderDone, acks, readerVars>>

Credit ==
  /\ crediting # {}
  /\ Frame(Deleted).last => told
  /\ NumBytesAcked' = [NumBytesAcked EXCEPT ![Frame(Deleted).write] =
                         @ + Size(Deleted)]
  /\ crediting' = crediting \ {Deleted} /\ told' = FALSE
  /\ UNCHANGED <<appVars, cliAcked, sentVars, SentButNotAcked, flowSeen, senderDone, acks,
                 readerVars>>

\* The session ends on the writer's side: Stop, or a peer silent for too long.
SenderEnds ==
  /\ ~senderDone /\ crediting = {}
  /\ senderDone' = TRUE
  /\ UNCHANGED <<appVars, creditVars, sentVars, SentButNotAcked, flowSeen, acks, readerVars>>

-----------------------------------------------------------------------------
(* The recvloop. *)

MsgCap(largest, consumed) == WindowMsgCount - (largest - consumed)
\* Mutant: the capacity counts one byte too many even before a consumption.
BytesCapTwoTooMany(maxCumul, consumed) == WindowByteSz - (maxCumul - (consumed + 2))

BytesCap(maxCumul, consumed) == WindowByteSz - (maxCumul - (consumed + 1))

OrOld(cap, old) == IF cap >= 0 THEN cap ELSE old

\* UpdateControl with the given marks: what the recvloop advertises itself, and
\* what FlowCt, which refuses negative capacities, gives to keepalives.
UpdateControl(largest, maxCumul, msgConsumed, byteConsumed) ==
  flow' = [msg |-> OrOld(MsgCap(largest, msgConsumed), flow.msg),
           bytes |-> OrOld(BytesCap(maxCumul, byteConsumed), flow.bytes)]

SendAck(n, largest, maxCumul, msgConsumed, byteConsumed) ==
  acks' = acks \cup {[ack |-> n, msg |-> MsgCap(largest, msgConsumed),
                      bytes |-> BytesCap(maxCumul, byteConsumed)]}

\* Mutant: the receiver adds up the bytes of the packets itself.
CountPackByAdding(n) ==
  /\ LargestSeqnoRcvd' = IF n > LargestSeqnoRcvd THEN n ELSE LargestSeqnoRcvd
  /\ MaxCumulBytesTrans' = MaxCumulBytesTrans + (IF n > LargestSeqnoRcvd THEN Size(n) ELSE 0)
  /\ panicked' = (panicked \/ Frame(n).cumul > MaxCumulBytesTrans'
                    \/ (n > LargestSeqnoRcvd /\ Frame(n).cumul < MaxCumulBytesTrans))
  /\ UpdateControl(LargestSeqnoRcvd', MaxCumulBytesTrans', LastMsgConsumed, LastByteConsumed)

\* The two checks of a packet's byte count against the largest seen.
CountPack(n) ==
  /\ LargestSeqnoRcvd' = IF n > LargestSeqnoRcvd THEN n ELSE LargestSeqnoRcvd
  /\ MaxCumulBytesTrans' = IF n > LargestSeqnoRcvd THEN Frame(n).cumul ELSE MaxCumulBytesTrans
  /\ panicked' = (panicked \/ Frame(n).cumul > MaxCumulBytesTrans'
                    \/ (n > LargestSeqnoRcvd /\ Frame(n).cumul < MaxCumulBytesTrans))
  /\ UpdateControl(LargestSeqnoRcvd', MaxCumulBytesTrans', LastMsgConsumed, LastByteConsumed)

InRecvWindow(n) == NextFrameExpected <= n /\ n <= NextFrameExpected + WindowMsgCount - 1

\* A frame outside the window is acknowledged again and dropped.
DiscardData(n) ==
  /\ ~InRecvWindow(n)
  /\ SendAck(LastFrameClientConsumed, LargestSeqnoRcvd', MaxCumulBytesTrans', LastMsgConsumed,
             LastByteConsumed)
  /\ UNCHANGED <<orderVars, ReadyForDelivery, recvLastFrameClientConsumed>>

BufferData(n) ==
  /\ InRecvWindow(n) /\ n # NextFrameExpected
  /\ Rxq' = Rxq \cup {n}
  /\ UNCHANGED <<NextFrameExpected, ReadyForDelivery, recvLastFrameClientConsumed, acks>>

\* The frame expected and those buffered behind it without a gap become ready.
InOrderData(n) ==
  LET ends == {k \in n..(n + WindowMsgCount - 1) : (n + 1)..k \subseteq Rxq}
      last == CHOOSE k \in ends : \A j \in ends : j <= k
  IN /\ n = NextFrameExpected
     /\ ReadyForDelivery' = ReadyForDelivery \o [i \in 1..(last - n + 1) |-> n + i - 1]
     /\ NextFrameExpected' = last + 1
     /\ Rxq' = Rxq \ (n..last)
     /\ recvLastFrameClientConsumed' = LastFrameClientConsumed
     /\ UNCHANGED acks

RecvData(n) ==
  /\ ~panicked
  /\ CountPack(n)
  /\ DiscardData(n) \/ BufferData(n) \/ InOrderData(n)
  /\ UNCHANGED <<writerVars, consumeVars>>

\* The writer's keepalive is answered with an ack; its AckNum is about the other
\* direction, and its byte count is 0.
RecvKeepAlive ==
  /\ ~panicked
  /\ UpdateControl(LargestSeqnoRcvd, MaxCumulBytesTrans, LastMsgConsumed, LastByteConsumed)
  /\ SendAck(LastFrameClientConsumed, LargestSeqnoRcvd, MaxCumulBytesTrans, LastMsgConsumed,
             LastByteConsumed)
  /\ UNCHANGED <<writerVars, orderVars, ReadyForDelivery, consumeVars, largestVars,
                 recvLastFrameClientConsumed>>

\* The reading side's own keepalive, sent by its sendloop.
KeepAlive ==
  /\ acks' = acks \cup {[ack |-> recvLastFrameClientConsumed, msg |-> flow.msg,
                         bytes |-> flow.bytes]}
  /\ UNCHANGED <<writerVars, readerVars>>

-----------------------------------------------------------------------------
(* Consumption: Read's copying loop and ReadMessagesCh. *)

\* Mutant: a Read starts the first ready packet again.
RemainingFromStart(st, n) == Frame(n).data

Remaining(st, n) == SubSeq(Frame(n).data, st.offset + 1, Size(n))

\* LastByteConsumed after m of the lendata bytes that were left of packet n.
ConsumedAfter(n, lendata, m) == Frame(n).cumul - (IF m = lendata THEN 0 ELSE lendata - m)

\* Mutant: a packet counts as consumed once any of it is read.
CopyOneTouched(len, st, n) ==
  LET left == Remaining(st, n)
      m == Min2(len - Len(st.buf), Len(left))
  IN IF Len(st.buf) = len
       THEN st
       ELSE [buf |-> st.buf \o SubSeq(left, 1, m), offset |-> 0, complete |-> st.complete + 1,
             byte |-> ConsumedAfter(n, Len(left), m)]

\* One turn of the loop over the ready packets: copy what fits, drop the packet
\* if that was all of it, and stop once the buffer is full.
CopyOne(len, st, n) ==
  LET left == Remaining(st, n)
      m == Min2(len - Len(st.buf), Len(left))
  IN IF Len(st.buf) = len
       THEN st
       ELSE [buf |-> st.buf \o SubSeq(left, 1, m),
             offset |-> IF m = Len(left) THEN 0 ELSE st.offset + m,
             complete |-> st.complete + (IF m = Len(left) THEN 1 ELSE 0),
             byte |-> ConsumedAfter(n, Len(left), m)]

NothingFilled ==
  [buf |-> << >>, offset |-> DataOffset, complete |-> 0, byte |-> LastByteConsumed]

Filled(len) ==
  LET after[k \in 0..Len(ReadyForDelivery)] ==
        IF k = 0 THEN NothingFilled ELSE CopyOne(len, after[k - 1], ReadyForDelivery[k])
  IN after[Len(ReadyForDelivery)]

\* What both kinds of consumption do once k packets are complete: take them off
\* the ready list, move the marks, and acknowledge the last of them if there is one.
Consume(k, byte) ==
  /\ ReadyForDelivery' = SubSeq(ReadyForDelivery, k + 1, Len(ReadyForDelivery))
  /\ LastByteConsumed' = byte
  /\ IF k = 0
       THEN UNCHANGED <<LastMsgConsumed, LastFrameClientConsumed, flow, acks>>
       ELSE /\ LastMsgConsumed' = ReadyForDelivery[k]
            /\ LastFrameClientConsumed' = ReadyForDelivery[k]
            /\ UpdateControl(LargestSeqnoRcvd, MaxCumulBytesTrans, LastMsgConsumed', byte)
            /\ SendAck(LastFrameClientConsumed', LargestSeqnoRcvd, MaxCumulBytesTrans,
                       LastMsgConsumed', byte)
  /\ UNCHANGED <<writerVars, orderVars, largestVars, recvLastFrameClientConsumed>>

\* Session.Read with a buffer of len bytes.
Read(len) ==
  LET st == Filled(len)
  IN /\ ~panicked /\ ReadyForDelivery # << >>
     /\ got' = got \o st.buf
     /\ DataOffset' = st.offset
     /\ Consume(st.complete, st.byte)

\* ReadMessagesCh: every ready packet at once; a consumer who mixes it with Read
\* starts at the first packet's DataOffset.
DeliverToConsumer ==
  /\ ~panicked /\ ReadyForDelivery # << >>
  /\ got' = got \o Filled(TotalBytesSent).buf
  /\ DataOffset' = 0
  /\ Consume(Len(ReadyForDelivery), Frame(ReadyForDelivery[Len(ReadyForDelivery)]).cumul)

-----------------------------------------------------------------------------
WriteLoop == AcceptSend \/ PushGivesUp \/ \E by \in {"ack", "timeout", "done"} : WriteReturns(by)

SendLoop == (\E m \in acks : GotPack(m)) \/ Broadcast \/ Credit \/ SenderEnds

RecvLoop == (\E n \in 0..LastFrameSent : RecvData(n)) \/ RecvKeepAlive \/ KeepAlive

ReadByApp == (\E len \in ReadSizes : Read(len)) \/ DeliverToConsumer

Next == WriteLoop \/ SendLoop \/ RecvLoop \/ ReadByApp

Spec == Init /\ [][Next]_vars

-----------------------------------------------------------------------------
(* Properties. *)

\* Types of the variables.
Frames == 0..LastFrameSent
TypeOK ==
  /\ write \in 1..(Len(Writes) + 1) /\ pushed \in Nat
  /\ \A w \in 1..Len(Writes) : NumBytesAcked[w] \in 0..Writes[w]
  /\ cliAcked \subseteq 1..Len(Writes)
  /\ SentButNotAcked \subseteq Frames /\ Rxq \subseteq Frames
  /\ crediting \subseteq Frames /\ Range(ReadyForDelivery) \subseteq Frames
  /\ TotalBytesSent \in Nat /\ MaxCumulBytesTrans \in 0..TotalBytesSent
  /\ DataOffset \in 0..Sz /\ LastByteConsumed \in -1..TotalBytesSent
  /\ LastMsgConsumed \in -1..LastFrameSent /\ LargestSeqnoRcvd \in -1..LastFrameSent
  /\ flow.msg \in 0..WindowMsgCount /\ flow.bytes \in 0..(WindowByteSz + 1)
  /\ told \in BOOLEAN /\ senderDone \in BOOLEAN /\ panicked \in BOOLEAN

\* Whatever the sizes of the Writes, the packets and the Reads, and however
\* Reads and ReadMessagesCh are mixed, the bytes read are those of the payloads
\* sent, from the first on, without a gap, a repetition or a swap
\* (Write, fillAsMuchAsPossible, DataOffset).  A Write that was cut short by the
\* end of the session leaves a prefix.
NextByte(b) == IF b[2] < Writes[b[1]] THEN <<b[1], b[2] + 1>> ELSE <<b[1] + 1, 1>>
Consecutive(bytes) ==
  \A i \in 1..Len(bytes) : bytes[i] = IF i = 1 THEN <<1, 1>> ELSE NextByte(bytes[i - 1])

ReadsAreTheWrites == Consecutive(got)

\* The receiver's two assertions about cumulative byte counts never fail, in
\* whatever order and however often packets arrive (recv.go:432-441).
CumulNeverPanics == ~panicked

\* A packet is acknowledged to the sender only when the application has read the
\* last of its bytes; a Read that took part of it acknowledges nothing of it.
\* Frame 0 is the exception: 0 is also what is sent before any consumption.
AcksAreWholePackets == \A m \in acks : m.ack > 0 => Len(got) >= Frame(m.ack).cumul

\* The bytes the receiver has to hold exceed its byte window by at most one
\* packet: the sender stops as soon as the capacity is used up, but admits a whole
\* packet while a byte of it is left, one byte of which UpdateControl invents
\* (recv.go:579); frame 0, acknowledged early, may come on top.
OverrunIsBounded ==
  LET frame0 == IF SendHistory # << >> /\ Len(got) < Size(0) THEN Size(0) - 1 ELSE 0
  IN MaxCumulBytesTrans - Len(got) <= WindowByteSz + Sz + frame0

\* A Write is credited with bytes only after the application has read them,
\* except for those of frame 0, which is acknowledged early.
BytesRead(w) == Cardinality({i \in 1..Len(got) : got[i][1] = w})
CreditIsEndToEnd ==
  \A w \in 1..Len(Writes) :
    NumBytesAcked[w] <= BytesRead(w) + (IF w = 1 THEN Min2(Sz, Writes[1]) ELSE 0)

\* A Write woken by CliAcked returns all of its payload but at most the last piece.
AckedWriteMissesAtMostLastPiece ==
  \A w \in 1..Len(Writes) :
    result[w].by = "ack" => result[w].n >= (Npack(Writes[w]) - 1) * Sz

\* A Write woken by the end-to-end acknowledgement of its last packet, with a nil
\* error, reports its whole payload as written, as the io.Writer it implements
\* (swp.go:573) must.
AckedWriteReturnsAll ==
  \A w \in 1..Len(Writes) : result[w].by = "ack" => result[w].n = Writes[w]


-----------------------------------------------------------------------------
(* The inductive invariant behind these properties. *)

\* The count of all bytes through frame n, the last of them and the byte after it.
Cumul(n) == IF n = -1 THEN 0 ELSE Frame(n).cumul
LastByte(n) == Frame(n).data[Size(n)]
ByteAfter(n) == IF n = -1 THEN <<1, 1>> ELSE NextByte(LastByte(n))

Packet == [data : Seq(Nat \X Nat), write : 1..Len(Writes), cumul : Nat, last : BOOLEAN]

\* Frame n is a piece of its Write and continues where the frame before it ended.
IsPiece(n) ==
  LET first == Frame(n).data[1][2]
      w == Frame(n).write
  IN /\ Size(n) \in 1..Sz
     /\ Frame(n).data[1] = ByteAfter(n - 1)
     /\ \A j \in 1..Size(n) : Frame(n).data[j] = <<w, first + j - 1>>
     /\ first + Size(n) - 1 <= Writes[w]
     /\ Frame(n).last => first = (Npack(Writes[w]) - 1) * Sz + 1
     /\ Cumul(n) = Cumul(n - 1) + Size(n)

HistoryIsTheWrites ==
  /\ SendHistory \in Seq(Packet)
  /\ \A n \in Frames : IsPiece(n)
  /\ TotalBytesSent = Cumul(LastFrameSent)
  /\ \A a, b \in -1..LastFrameSent : a < b => Cumul(a) < Cumul(b)
  /\ Running => pushed <= Npack(Writes[write])
  /\ Running /\ ~senderDone =>
       ByteAfter(LastFrameSent) = IF AllPushed THEN <<write + 1, 1>>
                                  ELSE <<write, pushed * Sz + 1>>

\* Nothing is counted that did not arrive, and nothing consumed that was not counted.
ArrivalsAreCounted ==
  /\ ReadyForDelivery \in Seq(Nat)
  /\ \A i \in 1..Len(ReadyForDelivery) : ReadyForDelivery[i] = LastMsgConsumed + i
  /\ NextFrameExpected = LastMsgConsumed + Len(ReadyForDelivery) + 1
  /\ NextFrameExpected <= LargestSeqnoRcvd + 1
  /\ \A n \in Rxq : n <= LargestSeqnoRcvd
  /\ MaxCumulBytesTrans = Cumul(LargestSeqnoRcvd)
  /\ CumulNeverPanics

\* bytes are those of the frames through n and of off bytes of the next one.
ReadThrough(bytes, n, off) ==
  /\ Consecutive(bytes)
  /\ Len(bytes) = Cumul(n) + off
  /\ off > 0 => n < LastFrameSent /\ off < Size(n + 1)
  /\ bytes # << >> =>
       bytes[Len(bytes)] = IF off > 0 THEN Frame(n + 1).data[off] ELSE LastByte(n)

ReadingIsAtItsMarks ==
  /\ got \in Seq(Nat \X Nat)
  /\ ReadThrough(got, LastMsgConsumed, DataOffset)
  /\ DataOffset > 0 => ReadyForDelivery # << >>
  /\ LastByteConsumed = IF got = << >> THEN -1 ELSE Len(got)
  /\ LastFrameClientConsumed = IF LastMsgConsumed = -1 THEN 0 ELSE LastMsgConsumed

\* What an AckNum and a byte capacity can be: the byte that UpdateControl invents
\* is invented from the first consumption on.
IsAckNum(n) == n = 0 \/ n \in 1..LastMsgConsumed
InventedByte == IF got = << >> THEN 0 ELSE 1

AcksAreHonest ==
  /\ acks \subseteq [ack : Nat, msg : Int, bytes : Int]
  /\ \A m \in acks : IsAckNum(m.ack) /\ m.bytes <= WindowByteSz + InventedByte
  /\ IsAckNum(recvLastFrameClientConsumed)
  /\ flow \in [msg : Nat, bytes : Nat] /\ flow.bytes <= WindowByteSz + InventedByte
  /\ LastSeenAvailReaderMsgCap \in Int /\ LastSeenAvailReaderBytesCap \in Int
  /\ LastSeenAvailReaderBytesCap <= WindowByteSz + InventedByte

\* What the frames through c make of Write w.
CreditOf(w, c) ==
  LET b == LastByte(c)
  IN IF c = -1 \/ w > b[1] THEN 0 ELSE IF w = b[1] THEN b[2] ELSE Writes[w]

\* The frames through a are acknowledged, those through c are credited.
Credited(a, c) ==
  /\ SentButNotAcked = (a + 1)..LastFrameSent /\ crediting = (c + 1)..a
  /\ \A w \in 1..Len(Writes) : NumBytesAcked[w] = CreditOf(w, c)
  /\ a > 0 => a <= LastMsgConsumed
  /\ TotalBytesSent < WindowByteSz + Sz + Cumul(a) + InventedByte

AllButLastPiece(w) == (Npack(Writes[w]) - 1) * Sz

CreditsAreEarned ==
  /\ NumBytesAcked \in [1..Len(Writes) -> Nat]
  /\ result \in [1..Len(Writes) -> [n : Int, by : {"running", "ack", "timeout", "done"}]]
  /\ \E a \in -1..LastFrameSent : \E c \in -1..a : Credited(a, c)
  /\ \A w \in cliAcked : NumBytesAcked[w] >= AllButLastPiece(w)
  /\ AckedWriteMissesAtMostLastPiece

StreamInv ==
  /\ TypeOK /\ HistoryIsTheWrites /\ ArrivalsAreCounted /\ ReadingIsAtItsMarks
  /\ AcksAreHonest /\ CreditsAreEarned
=============================================================================
