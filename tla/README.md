# go-sliding-window in TLA+

go-sliding-window gives two applications a reliable, ordered, flow-controlled
stream of messages over a network that loses, delays, reorders and duplicates
packets (NATS in production, `SimNet` in the tests).  These modules model the
protocol its code runs, TLC checks them on small instances, and TLAPS proves most of
the invariants and two of the refinements for every value of the constants.

## 1. The system

A `Session` (swp.go) runs two goroutines.  The **sendloop** (sender.go) owns
`SenderState`, the **recvloop** (recv.go) owns `RecvState`.

| component | state | operations | interacts with |
|---|---|---|---|
| sender: window, retry, flow control (sender.go, flow.go) | `LastFrameSent`, `Txq`, the two retry trees, `LastSeenAvailReaderMsgCap` | accept a push, retry, keepalive, use a received packet's ack and capacity, send queued acks, send Fin | application (`BlockingSend`), recvloop (`GotPack`, `SendAck`, `keepAliveWithState`, `sendSynCh`), network |
| bytes of the stream (swp.go, sender.go, recv.go) | `CumulBytesTransmitted`, `ByteAccount`, `CliAcked`, `DataOffset`, `LastByteConsumed`, byte capacities | Write, Read, crediting an ack | application, both loops |
| receiver: window, ordered delivery, acks (recv.go) | `NextFrameExpected`, `Rxq`, `ReadyForDelivery`, `RcvdButNotConsumed`, `LastMsgConsumed`, `LastFrameClientConsumed`, `LargestSeqnoRcvd` | filter, hand over, discard, buffer, deliver in order, ack | application (`ReadMessagesCh`, `AcceptReadRequest`), sendloop, network |
| shared flow state (flow.go, sender.go:101-106) | `FlowCt.Flow`, `recvLastFrameClientConsumed` | `UpdateFlow`, Get/Set | both loops |
| connection (tcp.go, retry.go, recv.go) | `TcpState`, nonces, `connReqPending`, `retry` | Connect, SYN/SynAck/EstabAck, retryCheck, Fin | application, both loops |
| shutdown (halters, `Close`, `Stop`) | `Halt.ReqStop`, `Halt.Done` of both loops and the session | Close, Stop, exit of a loop | everything |
| ASAP delivery (asap.go) | a bounded queue | enqueue, deliver, stop | recvloop, application |
| retry tree (retree.go) | ordered slots | insert, delete, delete-through | sender |
| event ring (overing.go) | ring of times | add and test for overflow, read, advance | diagnostics |
| RTT (rtt.go, stddev.go) | moving average, variance | sample, deadline | sender |
| network (simnet.go, natsnet.go) | channels per inbox | Listen, Send | both loops |

What is hard: the two loops interleave in the middle of a receive (`GotPack` is
an unbuffered rendezvous, and the sendloop may send before it takes the packet);
capacities and acks arrive stale, twice or never; the slot arrays are indexed
modulo the window; and message 0 has a special place, because the acknowledged
frame starts at 0 everywhere.  The retry trees order mutable slots by keys that
change; a Write is woken in the middle of a handler that goes on to change what it
reads; Reads end inside packets.

## 2. Modules

| module | what it is |
|---|---|
| `ReliableStream` | abstract specification: what Push, Read and the acknowledgement of Write promise, with no packets in sight |
| `SlidingWindow` | the data path of two sessions, its properties, its inductive invariant |
| `SlidingWindowLive` | its fairness and its liveness properties |
| `SlidingWindowProofs` | proofs: `DataPathInv`, types, order of delivery, acknowledgements, what the receiver holds and what stays in its slots |
| `SlidingWindowFlowProofs` | proofs: `FlowInv`, no message forgotten, no receiver overrun, and that the sessions implement `ReliableStream` |
| `MCSlidingWindow` | values of the function constants for TLC |
| `Handshake` | opening and closing: the TcpState of both ends, nonces, Connect, retries, keepalives, Fin, crash and restart |
| `HandshakeProofs` | proofs: `SessionInv` and `SilenceInv`, and all invariants of `Handshake` |
| `MCHandshake` | values of its set constants for TLC |
| `EndpointLoops` | the two goroutines of one session, their channels and halters, and the callers blocked on them |
| `EndpointLoopsProofs` | TLAPS proofs about `EndpointLoops` |
| `ByteStream` | one direction by bytes: Write's packets and its ByteAccount, byte flow control, cumulative counts, partial reads |
| `ByteStreamProofs` | proofs: `StreamInv` and the invariants of `ByteStream` that hold |
| `MCByteStream` | values of its sequence and set constants for TLC |
| `RetrySet` | abstract specification: the unacknowledged frames and their deadlines |
| `RetryTrees` | the two trees of retree.go and the handlers of the sendloop that change them |
| `RetryTreesProofs` | proofs: `RetryInv`, the invariants of `RetryTrees` and its refinement of `RetrySet` |
| `MCRetryTrees` | values of its set constant for TLC |
| `EventQueue` | abstract specification: a bounded queue of times |
| `EventRing` | the circular buffer of overing.go |
| `MCEventRing` | values of its set constants for TLC |
| `EventRingProofs` | TLAPS proofs about `EventRing`, its refinement of `EventQueue` among them |
| `ProofFacts` | lemmas several proofs need: loops, joined sequences, slots modulo the window |

Three modules look at the data path, each with what the others leave out.
`SlidingWindow` has both directions, slots and windows by message; `ByteStream` has
one direction by bytes, with the windows as sets of sequence numbers; `RetryTrees`
has the sender's slots with their deadlines and a clock.  What one of them
abstracts is what another justifies: `SlidingWindow` and `ByteStream` use the
retry trees as a set, which `RetryTrees` implements.

`SlidingWindow` and `Handshake` share no variable that changes in both: what the
handshake leaves behind (both ends Established, the peer's capacity known, old
handshake packets under way) is the initial state of `SlidingWindow` with
`Connected = TRUE`, and data packets change nothing `Handshake` keeps.

### Correspondence

Variables carry the names of the Go fields and are functions of the endpoint.
`SentButNotAcked` is the content of both retry trees (they hold the same slots;
sender.go:378 asserts it), `Acked` the messages whose `CliAcked`/`Accounting` was
credited, `Handoff` the packet the recvloop offers on `GotPack`, `Consumed` what
the application was handed.

| action | code |
|---|---|
| `AcceptSend` | `case pack := <-acceptSend`, `doOrigDataSend`, under the flow-control test of sender.go:222-246 |
| `Retry` | `regularIntervalWakeup`, one slot per action |
| `KeepAlive` | `doKeepAlive` |
| `RecvPack` | `case pack := <-r.MsgRecv` up to the send on `GotPack` |
| `RecvInfo`, `RecvKeepAlive`, `DiscardData`, `BufferData`, `InOrderData` | the rendezvous on `GotPack` with the sendloop's handler (`GotPack`) and the rest of the recvloop's handler |
| `DeliverToConsumer`, `FillAsMuchAsPossible` | a receive on `ReadMessagesCh`, a `Read` |
| `Lose` | the network drops a packet |

In `Handshake`:

| definition | code |
|---|---|
| `UpdateTcp`, `isRetryState`, `SetupRetry` | tcp.go `UpdateTcp`, retry.go |
| `Accepts` | the nonce filters, recv.go:382-392 |
| `Connect` | `ConnectIfNeeded` and the recvloop's `case cr := <-r.ConnectCh`: a SYN in Listen or SynSent, success without a nonce in SynReceived or Established |
| `SynIsSent`, `SynFails` | `case cr := <-s.sendSynCh`: the SYN goes out, or `Net.Send` fails and Done is closed |
| `ConnectTimeout` | the timeouts of `RecvState.Connect`; the next `Connect` is its next try |
| `Receive`, `Refuse` | the handler of an event packet with `setupRetry`, `doTcpAction` and the `doNextEvent` loop; a dropped packet |
| `RetryCheck` | `retryCheck`: give up, repeat the action, or find the state left |
| `KeepAlive`, `Close` | `doKeepAlive`, `doSendClosing` |
| `Exit`, `Restart` | the recvloop sees `ReqStop`; the process ends and starts a new session on its inbox |

`conn` is the place of the application's call, `down` the way the recvloop ended
(`stopping` after the retry gave up, `closed` after a Fin, `panic` where
`doTcpAction` panics).  A nonce is the number of its session.  There are two
endpoints, so locking onto one remote inbox out of several is left out.

In `EndpointLoops` a variable is the place of one goroutine in its code, and an
unbuffered channel is an action of its two ends:

| definition | code |
|---|---|
| `StartHandOff`, `HandOver`, `HandlePacket` | the cases of the recvloop that offer something to the sendloop, the rendezvous, the rest of a packet's handler |
| `StartAck`, `DropOldest`, `FinishAck` | `ack`: the test of the queue's length, the receive that makes room, the send |
| `SeeReqStop`, `SeeSenderShutdown`, `GiveUp`, `Exit`, `CleanupOnExit` | how the recvloop ends, and its deferred function in two steps |
| `SendAck`, `DeclareDead`, `SendloopSeesReqStop`, `EndSendloop` | how the sendloop ends; its deferred closes |
| `Stop`, `StopSender`, `StopReturn`, `Push`, `Read`, `RegisterAsap` and the `GivesUp` actions | the callers |

Its handlers are free: any packet may lead to an ack, to none, or to the end of
the loop.  Close and Connect are in `StartHandOff`; their callers have timeouts of
their own.  The wait of 100 ms for a helper that takes no packet has no effect of
its own and is left out.

In `ByteStream` a packet is its payload bytes, the pair of a Write and a position
each, with the Write it belongs to, its cumulative count and whether it carries
`CliAcked`:

| definition | code |
|---|---|
| `Npack`, `Piece`, `AcceptSend`, `PushGivesUp`, `WriteReturns` | `Write`: its chopping, its calls of Push, its select |
| `GotPack`, `Broadcast`, `Credit` | the sendloop's `GotPack` handler, with `CliAcked` and the ByteAccount of each deleted slot in the order of the code, so that the writer may run in between |
| `CountPack`, `UpdateControl`, `DiscardData`, `BufferData`, `InOrderData` | the recvloop's handler of a data packet |
| `RecvKeepAlive`, `KeepAlive` | a keepalive in either direction |
| `CopyOne`, `Filled`, `Consume`, `Read`, `DeliverToConsumer` | `fillAsMuchAsPossible`, and a receive on `ReadMessagesCh` |

Its network never forgets a packet, and any packet ever sent may arrive at any
moment; that is loss, delay, reordering, duplication and retransmission at once.
A caller that mixes `ReadMessagesCh` with Read starts the first packet at its
`DataOffset`, as the field is there for.  The loops of the code (`Filled` copies packet
by packet, `bytesInflight` adds up sizes) are recursive functions of the turn;
`crediting` is the set of slots the GotPack handler has yet to go through, in the order
of their frames (`Deleted`).

In `RetryTrees` a tree is the sequence of its slots in iteration order, a slot its
position in `Txq`, and every comparison looks at the slot's keys of the moment.
`Insert` drops an item that compares equal to one in the tree, like the red-black
tree tree behind it; the tree library itself is external, and its balance is left out.
`DeleteEach` is the callback of a front scan, which deletes every item the scan takes
from the other tree, one search after the other.
`Wakeup` takes the expired slots out and `Resend` puts them back one at a time,
each with a deadline from a clock that may have moved.  The durations may be
negative: where both ends have more than two samples and one's have no variance,
`GetDeadlineDur` converts a NaN, and from ten local samples on nothing clamps it.

`EventRing` has one action per method of `EventRingBuf`; `ret` is what the last
one returned.  `TwoContig` ignores its argument `makeCopy`, and the comment of
`AddEventCheckOverflow` says that it removes events older than `Window`, which it
does not: only the oldest one leaves a full ring.  `EventQueue` promises what the
code does.  A ring of size 0, which divides by zero, is excluded by an assumption.

Abstractions of the data path, and why they are sound for the properties:

- A message is its `SeqNum`; payloads and checksums are never changed by the code.
- Time is nondeterministic: any slot in the trees may be past its deadline and any
  keepalive timer may fire.
- The queue `SendAck` is part of the network: the sendloop forwards acks in order,
  dropping the oldest when it is full, which the network may do as well.
- The part of the recvloop after the rendezvous is one action with it.  What it
  changes that the sendloop reads is `FlowCt`, rewritten by `ack` with the values
  the same packet produced before the rendezvous (data, keepalive), and
  `recvLastFrameClientConsumed`, which `doKeepAlive` reads only after a rendezvous
  of its own with the recvloop.
- The wakeup's loop over expired slots is one action per slot: nothing the
  sendloop does in between depends on the loop being unfinished.
- A packet for a recvloop that is in the middle of a hand-off is not lost during it
  (`Losable`).  `MsgRecv` is unbuffered: the recvloop receives nothing until the
  hand-off is over, and losing the packet then is the same as losing it before.
- Left out because nothing the model keeps depends on them: `LastAckRec`,
  `DiscardCount`, RTT, histories.  Byte capacities are the subject of
  `ByteStream`.
- Without a handshake (`Connected = FALSE`, which most of the repository's tests
  use) both sides stay in Listen and no keepalive is sent.  With one, both start
  in Established with the peer's capacity known.
- If a Txq slot is reused while it is in the trees (only possible with a
  larger peer window) the code changes the key of an element of the trees; what happens
  then is not modelled beyond the overwritten slot.  No run reaches it.

## 3. Runs

| run | instance | shows |
|---|---|---|
| `sw_reorder` | windows of 2, 4 messages one way, no handshake, unlimited loss, reordering and duplication | order, retransmission, flow control (`FlowInv`), buffering, refinement of `ReliableStream` |
| `sw_connected` | windows of 1, 3 messages, keepalives, handshake leftovers | acks are end to end, `FlowCt` types, refinement |
| `sw_live` | windows of 1, 2 messages, lossy network that keeps one packet per sender, type and number | streams complete once started |
| `sw_stall` (violation) | as `sw_live` | message 0 may never arrive |
| `hs_restart` | one client, one server, two connect requests per session, one SYN that fails, one crash of either, duplication without limit | a panic only after a SYN that failed; established means mutual; a Fin closes a session that knows its peer only if it is for it; a half-open session does not stay so; `SessionInv` |
| `hs_timely` | no crash, three losses, three tries, retry periods longer than a keepalive and its transit | no panic; a server does not give up on an idle, established client; `SilenceInv` |
| `el_shutdown` | ack queue of 2, dead-peer timeout on, helpers registered | acks find room, Stop returns, the end of either loop reaches the other and no caller stays blocked, except in the named cases |
| `el_stop` (violation) | ack queue of 5, no dead-peer timeout, no helpers | Stop hangs once the recvloop wants to drop the oldest entry of a queue that was emptied meanwhile |
| `bs_stream` | Writes of 1 and 4 bytes, windows of two messages and two bytes, packets of 2, Reads of 1 and 3 and by channel | the bytes read are the bytes written; acks and credits are for bytes that were read (packet 0 apart); byte counts never panic; the byte window is overrun by at most a packet; `StreamInv` |
| `bs_write` (violation) | the same | a Write whose last packet was acknowledged returns fewer bytes than it was given, with a nil error |
| `rt_trees` | 5 frames, 3 slots, durations -1, 1 and 2, a clock up to 3, acks of any number | the trees agree and stay sorted; they implement `RetrySet` |
| `er_ring` | a ring of 2, slices up to 3, three times | the ring implements `EventQueue` |

Bounds: `MaxSend` is how many messages each application pushes; with windows of 2,
four messages use every slot twice, so a stale packet of the previous round meets
a reused slot.  `MaxCopies` bounds how many packets of one sender, type and
number are in flight at once; 99 is never reached.  With `MayDuplicate` packets
are never removed from the network: every loss, delay, reordering and
duplication is then a choice of which packets to receive.

In `Handshake`, `MaxConnects`, `MaxRestarts`, `MaxAttempts` (10 in retry.go) and
`MaxLosses` bound the counters.  One crash is enough for every packet of a session
to meet the next one of either end.  `Timely` states the relation of the code's
timers where a property needs it: a retry period (1 s) begins with no packet of
the last one under way and contains a keepalive (every 500 ms) of a peer that
sends any.  With it on, `MaxLosses` stays at `MaxAttempts` or below: losing every
keepalive of ten periods is silence, and giving up on silence is right.
`Busy` endpoints send data within every keepalive interval; `doKeepAlive` then
sends nothing.  The data packets themselves carry no state and are left out.

What TLC finds on other instances, which no run keeps:

- *Unequal windows*: a sender of window 2 with a receiver of window 3 adopts the
  capacity 3 and overwrites a slot still in the trees (`NothingForgotten`, and in
  `RetryTrees` with `PeerWindow` above `SenderWindowSize` also `TreesSorted`).
- *Simultaneous open* (`Openers` both): A takes B's SYN, enters SynReceived and
  sends an EstabAck, which is lost like A's own SYN; after a second A repeats
  `SendEstabAck` and panics, because it has set the nonce the first time (`NoPanic`).
- *A busy client* (`Busy`): the EstabAck of a client that starts sending at once is
  lost, and ten repeated SynAcks find a client that is Established and ignores
  them, so the server gives up (`GivesUpOnlyOnSilence`).
- *A restarted server* (`MaxRestarts` 1, `Timely`): an old second SYN of a client that
  is Established with the server's former life reaches the new one.  It answers, the
  client refuses each answer, and the server gives up on it (`GivesUpOnlyOnSilence`).
- *More losses than tries*: with `MaxLosses` two above `MaxAttempts` the network can lose
  the EstabAck and every keepalive until the server gives up.

`bs_write` needs no fault at all: the handler of the ack calls `Bcast` on `CliAcked`
and only then adds the packet's bytes; the Write that wakes in between loads the
account without them.  `AckedWriteMissesAtMostLastPiece`, which `bs_stream` checks,
says how much can be missing.

`OverrunIsBounded` is as tight as the code: a packet is admitted as soon as one
byte is left, `UpdateControl` invents one byte, and packet 0 leaves the sender's
books before it is consumed.  `MaxPacketSz` (512 KB) and the byte window are small
so that one payload takes several packets and one packet fills the window.

`rt_trees` has more frames than slots, so that slots are reused, durations that tie
and overtake, and one in the past, so that a slot is due again while the same wakeup
is still resending.  `er_ring` meets every alignment of a ring of two and of the
three it grows to; the proofs cover the rest.

`EndpointLoops` has no bounds but the capacity of the ack queue.  `el_shutdown`
states its liveness properties with the exceptions the code makes, so that it says
there are no others: `Wedged` (an emptied full queue; the wait for a helper that
never ran), a recvloop that offers something to a sendloop that is gone (it
watches `ReqStop` there but not `SenderShutdown`, although sender.go:209 says that
closing it "stops the receiver"), and a recvloop that waits for its helper before it
tells the sender.  Its fairness: a goroutine that can go on does, and a `select`
that again and again finds the end of the session ready takes it some time, and
so it does a caller of `RegisterAsap`.

The runs other than `er_ring` switch deadlock checking off: applications push, take,
write and connect a bounded number of times, and a session that has closed stays
closed.

Fairness (`SlidingWindowLive`): each loop is a `select` in a `for`, so a case that
stays ready is taken (weak fairness) and one that is ready again and again is
taken too because the choice is random (strong fairness); the applications keep
pushing and reading; the network delivers, sooner or later, a packet that is
sent again and again (strong fairness on its reception).

Fairness of `Handshake` (`FairSpec`): the retry timer fires as long as it is set,
whatever the network does.  It is what ends a half-open session whose peer has
restarted; an Established one has only the sendloop's dead-peer timeout.

## 4. Proofs

Each theorem below holds for every value of the constants that satisfies the
assumptions named in the modules (`WindowAssumption`, `BytesAssumption` and the like:
windows, sizes and bounds are numbers of the right sign).  Where a theorem needs more,
its statement says so and this section says why.  An invariant of the runs is seldom
inductive; each proof goes through a stronger one that is, with one lemma per action,
and TLC checks the stronger one too (`FlowInv` in `sw_reorder`, `SessionInv` in
`hs_restart`, `SilenceInv` in `hs_timely`, `StreamInv` in `bs_stream`), and each
property then follows from it.

| theorem | says | module |
|---|---|---|
| `DataPathCorrect`, `TypeCorrect`, `DeliveryInOrder`, `AcksAreEndToEnd` | `DataPathInv`, `TypeOK`, `InOrder`, `AckedWasConsumed` | `SlidingWindowProofs` |
| `HeldCorrect`, `BufferedPacketsStay` | `HeldIsUnconsumed`, the action property `RxqKeepsWhatItHolds` | `SlidingWindowProofs` |
| `FlowCorrect`, `NoMessageForgotten`, `NoReceiverOverrun` | `FlowInv`, `NothingForgotten`, `ReceiverNotOverrun` | `SlidingWindowFlowProofs` |
| `StreamImplemented` | the refinement `ImplementsStream` | `SlidingWindowFlowProofs` |
| `SessionCorrect`, `HandshakeTypeCorrect`, `MutualCorrect`, `PanicsExplained`, `NoPanicCorrect`, `ClosedCorrect`, `SilenceInvariant`, `SilenceCorrect` | `SessionInv`, `TypeOK`, `EstablishedIsMutual`, `PanicsOnlyOnFailedSyn`, `NoPanic`, `ClosedByItsPeer`, `SilenceInv`, `GivesUpOnlyOnSilence` | `HandshakeProofs` |
| `StreamCorrect`, `TypeCorrect`, `ReadsCorrect`, `NeverPanicsCorrect`, `AcksCorrect`, `OverrunCorrect`, `CreditCorrect`, `AckedWritesCorrect` | `StreamInv`, `TypeOK`, `ReadsAreTheWrites`, `CumulNeverPanics`, `AcksAreWholePackets`, `OverrunIsBounded`, `CreditIsEndToEnd`, `AckedWriteMissesAtMostLastPiece` | `ByteStreamProofs` |
| `RetryInvariant`, `RetryTypeCorrect`, `TreesAgreeCorrect`, `TreesSortedCorrect`, `RetrySetImplemented` | `RetryInv`, `TypeOK`, `TreesAgree`, `TreesSorted`, the refinement `ImplementsRetrySet` | `RetryTreesProofs` |
| `LoopsTypeCorrect`, `AcksFindRoom` | `TypeOK`, `AckFindsRoom` | `EndpointLoopsProofs` |
| `RingTypeCorrect`, `RingIsAQueue` | `TypeOK`, the refinement `ImplementsQueue` | `EventRingProofs` |

### The data path

`DataPathInv` adds to `TypeOK` that packets in flight are honest
(`PacketsAreHonest`), that the sender's slots and its record of acknowledged
messages are (`SenderIsHonest`), that what was consumed and what is ready are
consecutive (`HistoryIsInOrder`), and that a buffered frame lies in the slot of
its number strictly inside the window (`BufferedIsInWindow`), without which the
drain loop could deliver a frame of another round.

`FlowInv` adds what flow control achieves.  `RoomIsBounded`: no capacity in a packet,
in `FlowCt` or in a sender's memory exceeds the window of the side that advertises it.
`UnackedIsTracked`: the acknowledged frames are the first ones, and all others are in
the trees and in slots of their own.  `WithinCredit`: a sender is at most a window ahead of what its
peer's application took.  The step that matters is a send: the frames it tracks are
consecutive, so as many different slots are occupied as there are frames
(`ConsecutiveSlots`, an injection into the slots), and a send is admitted only while
that count is below the capacity (`NotFull`).  Both hold direction by direction, the
first where the sender has at least as many slots as its peer (`HasSlots`), the second
where it also knew the peer's capacity from the start (`KnowsRoom`).

`NoMessageForgotten`, `NoReceiverOverrun` and `StreamImplemented` are stated for two
windows of one size, for which both hold in both directions.  The code does not enforce
that: each end has a `WindowMsgCount` of its own, and `src/swp_test.go:119-123` opens a
pair with 2 and 3.  The theorems are conditional on it; with unequal windows the first
two can fail (section 3).  The refinement maps `LastFrameSent`, `Consumed` and `Acked` to
`pushed`, `got` and `confirmed` of `ReliableStream`:
a send is a push, which `WithinCredit` shows to be admitted; a delivery takes the next
messages, by `HistoryIsInOrder`; a hand-off that acknowledges something is a
confirmation; all else stutters.

### The handshake

`SessionInv` says what each packet says of the session that sent it, as long as that
session lasts (`Truthful`): a SynAck or EstabAck comes from a session that knows the
peer it addresses and has answered it.  To that it adds that nobody knows a nonce not
yet issued (`NoncesAreOld`), that a session learns its peer's nonce in the step in which
it leaves Listen or SynSent (`PeerIsKnown`), that only the answer to a SYN is retried
and to the session it was for (`RetryIsCurrent`), that a request is open while its SYN
is unanswered (`RequestIsPending`), and `MutualOf`, of which `EstablishedIsMutual` is
the reading.  A restart makes all of it vacuous for old packets: they carry an older
nonce.

Types, `EstablishedIsMutual` and `ClosedByItsPeer` need no hypothesis.
`PanicsExplained` and `NoPanicCorrect` are for one end that connects and one that
listens (`OneOpener`); in a simultaneous open the code may panic (section 3, and the
hazard at recv.go:731).  `NoPanicCorrect` also needs that every SYN can be sent
(`MaxSynFailures = 0`), since a failed one closes `Done` twice.

`SilenceCorrect` counts.  `RetriesAreLosses`: while both loops run, a server has made no
more tries than packets were lost, and fewer unless what it waits for is still due
(`AnswerIsDue`): its SynAck or the client's EstabAck or keepalive under way, or a
keepalive that the period still owes.  Under `Timely` a period ends with nothing under
way and that keepalive sent, so a try that fails was paid for by a loss, which is what
`NoAnswerIsDue` says; a packet that is refused is never such an answer
(`CurrentIsAccepted`).  Its hypotheses (`TimelyLife`) are what the code needs: drop that
the client is idle, that nobody restarts, or the bound on losses, and TLC finds the
server give up (section 3).  The model of a network that duplicates never forgets a packet, so
there no period would ever end.

### The bytes

`StreamInv`: the packets sent are the payloads cut up, each a piece of one Write that
begins where the one before it ended, with an exact count (`HistoryIsTheWrites`); what
is counted has arrived and what is ready follows what was consumed
(`ArrivalsAreCounted`); what was read is that history up to the marks, a partial packet
included (`ReadingIsAtItsMarks`); what an AckNum or a capacity can be (`AcksAreHonest`);
and that some a and c exist such that the frames through a have left the trees, those
through c are credited, and what is under way fits behind a (`CreditsAreEarned`).

The loops need induction over their turns.  The library's induction theorems take an
operator as parameter, which the installed provers cannot instantiate; `LeastElement`
takes the least element of a set of numbers from a theorem about sets, `Induct` follows,
and `RunExists` shows that a recursive function over an interval is what its body says.
These are in `ProofFacts`.
`CopyOneKeeps` is then the loop invariant of Read's copying and `InflightIs` that of the
sum of the bytes in flight.

Two bounds are as odd as the code: the byte that `UpdateControl` invents once anything
was read (`InventedByte`), and frame 0, whose number every side acknowledges before
anything was read.  Both are terms of `StreamInv`, so `OverrunIsBounded` and
`CreditIsEndToEnd` are proved with them and would be false without.  `CreditCorrect`
counts: each byte credited was read at a place of its own (`EveryByteIsRead`,
`BytesAreCounted`).

### The retry trees

The first part is about one tree and one comparison.  Both comparisons are strict orders
in which only slots of one frame number tie (`BelowOrders`), so in a sorted tree an
insertion puts a slot where it belongs (`InsertKeeps`), a search by key finds the slot it
is for and no other leaves (`DeleteSlotKeeps`), a scan takes exactly the slots whose key
is small enough (`ScanTakesAll`), and its callbacks remove exactly those from the other
tree (`DeleteEachKeeps`, by induction over the turns).

`RetryInv` adds to the sorted, agreeing trees (`TreesHold`) what makes reusing a slot
safe (`RunHolds`): the frames in the trees and in the wakeup's list are the last ones
sent, at most a window of them, each in the slot its number gives it.  Then a tree has as
many slots as there are such frames, so a send the credit admits finds its slot outside
both trees (`NextSlotIsFree`), and no key changes inside one.  The theorems are for a
peer that advertises no more than `SenderWindowSize` (`PeerFits`), which holds for equal
windows but is not enforced by the code; with a larger one `TreesSorted` fails (section 3).  They hold for
retry durations of any sign.  The refinement finds a frame in the slot of its
number (`FrameIsInItsSlot`) and maps each handler to the step of `RetrySet` of its name.

### The loops and the ring

`EndpointLoopsProofs`: `QueueInv`, the places of `TypeOK` with `AckFindsRoom`, is
inductive because only the recvloop adds to the queue; the sendloop may take from it
between the test and the send, but that only makes room.

`EventRingProofs`: `RingTypeCorrect` shows that start, count and array keep their
ranges, for which `TypeOK` is inductive once an index below twice the length is
known to wrap at most once (`WrapOnce`).  `RingIsAQueue` is the refinement: for each
operation a lemma says what it makes of `Contents`, the events read from the start
around the end, and that this is the step of `EventQueue` with the same answer.  For
a write that is the work: two turns of the loop, each up to the end of the array,
append a prefix of the slice that is as long as there is room.

### Model-checked only

- All liveness, which needs fairness and ENABLED, out of this prover's reach.
- `AckedWriteReturnsAll` and the properties of the other two violation runs are false.

## 5. Not modelled

- RTT and deadline estimation (rtt.go, stddev.go): floating point.  The models allow
  any deadline, negative ones included.
- The queue inside an ASAP helper: nothing in the repository starts its goroutine.
- Session set-up, file transfer, TLS, the examples, generated serialization and
  logging: glue without protocol state.
- SimNet's and NatsNet's own code (sockets, latency, statistics): the network is
  modelled by what it may do to packets.  Locking onto one remote inbox out of
  several: there are two endpoints, and both know the other's inbox.
- Sends of data that fail: the code ignores the error, so they are losses.

## 6. Plan

1. What a client that restarts meets at a server locked onto its past, as liveness of
   `Handshake` with the dead-peer timeout.
