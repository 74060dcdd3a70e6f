----------------------------- MODULE RetryTrees ------------------------------
(***************************************************************************)
(* The two retry trees of a sendloop (retree.go) and the handlers that     *)
(* change them (doOrigDataSend, GotPack and regularIntervalWakeup in       *)
(* sender.go).  Both trees hold the same mutable slots of Txq: one orders  *)
(* them by retry deadline, the other by sequence number, and a slot is     *)
(* found again by comparing the keys it has at that moment.                *)
(*                                                                         *)
(* A tree is the sequence of its slots in iteration order; a slot is its   *)
(* position in Txq.  The wakeup handler reads the clock before every       *)
(* resend, so time may pass inside it.                                     *)
(***************************************************************************)
EXTENDS Integers, Sequences, SequencesExt

CONSTANTS SenderWindowSize,
          PeerWindow,  \* the most its peer advertises
          RetryDurs,   \* Bound: what GetDeadlineDur may return, also below 0 (a NaN)
          MaxSend,     \* Bound: the number of frames sent
          MaxTime      \* Bound: of the clock

ASSUME TreesAssumption ==
  /\ SenderWindowSize \in Nat \ {0}
  /\ RetryDurs \subseteq Int
  /\ PeerWindow \in Nat /\ MaxSend \in Nat /\ MaxTime \in Nat

VARIABLES
  now,            \* Clk.Now()
  Txq,            \* the slots: frame number and retry deadline
  LastFrameSent,
  LastSeenAvailReaderMsgCap,
  SentButNotAckedByDeadline,
  SentButNotAckedBySeqNum,
  retry,          \* slots the wakeup handler has taken out and not yet resent
  panicked        \* the trees had different lengths

trees == <<SentButNotAckedByDeadline, SentButNotAckedBySeqNum>>
vars == <<now, Txq, LastFrameSent, LastSeenAvailReaderMsgCap, trees, retry, panicked>>

Slots == 0..(SenderWindowSize - 1)
Pos(n) == n % SenderWindowSize

Init ==
  /\ now = 0
  /\ Txq = [p \in Slots |-> [seq |-> -1, deadline |-> 0]]
  /\ LastFrameSent = -1
  /\ LastSeenAvailReaderMsgCap = SenderWindowSize
  /\ SentButNotAckedByDeadline = << >> /\ SentButNotAckedBySeqNum = << >>
  /\ retry = << >> /\ panicked = FALSE

-----------------------------------------------------------------------------
(* A tree.  Comparisons and searches see the slots q given to them. *)

\* Mutant: packets with tied deadlines compare equal.
compareDeadlineOnly(a, b) == a.deadline - b.deadline

compareRetryDeadline(a, b) ==
  IF a.deadline # b.deadline THEN a.deadline - b.deadline ELSE a.seq - b.seq

compareSeqNum(a, b) == a.seq - b.seq

\* The comparison a tree was made with.
Compare(key, a, b) ==
  IF key = "deadline" THEN compareRetryDeadline(a, b) ELSE compareSeqNum(a, b)

\* The position of the first item that is one of the slots, or 0.
FirstOf(tree, slots) == SelectInSeq(tree, LAMBDA o : o \in slots)

\* Insert ignores an item that compares equal to one that is there.
Insert(tree, key, q, p) ==
  LET at == FirstOf(tree, {o \in Slots : Compare(key, q[o], q[p]) >= 0})
  IN IF at = 0
       THEN Append(tree, p)
       ELSE IF Compare(key, q[tree[at]], q[p]) = 0 THEN tree ELSE InsertAt(tree, at, p)

\* DeleteWithKey removes the item that compares equal, if there is one.
DeleteSlot(tree, key, q, p) ==
  LET at == FirstOf(tree, {o \in Slots : Compare(key, q[o], q[p]) = 0})
  IN IF at = 0 THEN tree ELSE RemoveAt(tree, at)

\* The callbacks of a front scan delete each of its items from the other tree.
DeleteEach(tree, key, q, gone) ==
  LET left[j \in 0..Len(gone)] ==
        IF j = 0 THEN tree ELSE DeleteSlot(left[j - 1], key, q, gone[j])
  IN left[Len(gone)]

\* How many items deleteThroughDeadline and deleteThroughSeqNum take from the
\* front: they stop at the first that is not in passing.
CountThrough(tree, passing) ==
  LET stop == FirstOf(tree, Slots \ passing)
  IN IF stop = 0 THEN Len(tree) ELSE stop - 1

Prefix(tree, k) == SubSeq(tree, 1, k)
Rest(tree, k) == SubSeq(tree, k + 1, Len(tree))

-----------------------------------------------------------------------------
(* The sendloop's handlers; the wakeup's resends come before any other. *)

Free == retry = << >> /\ ~panicked

Tick == now < MaxTime /\ now' = now + 1
        /\ UNCHANGED <<Txq, LastFrameSent, LastSeenAvailReaderMsgCap, trees, retry, panicked>>

InsertBoth(byDeadline, bySeq, q, p) ==
  /\ SentButNotAckedByDeadline' = Insert(byDeadline, "deadline", q, p)
  /\ SentButNotAckedBySeqNum' = Insert(bySeq, "seqNum", q, p)

\* Mutant: the new frame's slot is inserted before its deadline is set.
AcceptSendInsertsFirst ==
  /\ Free /\ LastFrameSent + 1 < MaxSend
  /\ LastSeenAvailReaderMsgCap - Len(SentButNotAckedByDeadline) > 0
  /\ LastFrameSent' = LastFrameSent + 1
  /\ \E dur \in RetryDurs :
       LET p == Pos(LastFrameSent')
       IN /\ InsertBoth(SentButNotAckedByDeadline, SentButNotAckedBySeqNum,
                        [Txq EXCEPT ![p].seq = LastFrameSent'], p)
          /\ Txq' = [Txq EXCEPT ![p] = [seq |-> LastFrameSent', deadline |-> now + dur]]
  /\ UNCHANGED <<now, LastSeenAvailReaderMsgCap, retry, panicked>>

\* doOrigDataSend: the next slot of Txq becomes the new frame and enters both trees.
AcceptSend ==
  /\ Free /\ LastFrameSent + 1 < MaxSend
  /\ LastSeenAvailReaderMsgCap - Len(SentButNotAckedByDeadline) > 0
  /\ LastFrameSent' = LastFrameSent + 1
  /\ \E dur \in RetryDurs :
       LET p == Pos(LastFrameSent')
       IN /\ Txq' = [Txq EXCEPT ![p] = [seq |-> LastFrameSent', deadline |-> now + dur]]
          /\ InsertBoth(SentButNotAckedByDeadline, SentButNotAckedBySeqNum, Txq', p)
  /\ UNCHANGED <<now, LastSeenAvailReaderMsgCap, retry, panicked>>

\* A packet with any AckNum and any capacity: its slots leave the tree by number
\* from the front, and each of them the tree by deadline by its keys.
GotPack(ackNum, cap) ==
  LET k == CountThrough(SentButNotAckedBySeqNum, {p \in Slots : Txq[p].seq <= ackNum})
  IN /\ Free
     /\ LastSeenAvailReaderMsgCap' = cap
     /\ SentButNotAckedBySeqNum' = Rest(SentButNotAckedBySeqNum, k)
     /\ SentButNotAckedByDeadline' =
          DeleteEach(SentButNotAckedByDeadline, "deadline", Txq, Prefix(SentButNotAckedBySeqNum, k))
     /\ panicked' = (Len(SentButNotAckedByDeadline') # Len(SentButNotAckedBySeqNum'))
     /\ UNCHANGED <<now, Txq, LastFrameSent, retry>>

\* Mutant: the wakeup leaves the expired slots in the tree by number.
WakeupKeepsBySeq ==
  LET k == CountThrough(SentButNotAckedByDeadline, {p \in Slots : Txq[p].deadline <= now})
  IN /\ Free /\ k > 0
     /\ retry' = Prefix(SentButNotAckedByDeadline, k)
     /\ SentButNotAckedByDeadline' = Rest(SentButNotAckedByDeadline, k)
     /\ UNCHANGED <<now, Txq, LastFrameSent, LastSeenAvailReaderMsgCap, panicked,
                    SentButNotAckedBySeqNum>>

\* regularIntervalWakeup: every expired slot leaves both trees.
Wakeup ==
  LET k == CountThrough(SentButNotAckedByDeadline, {p \in Slots : Txq[p].deadline <= now})
  IN /\ Free /\ k > 0
     /\ retry' = Prefix(SentButNotAckedByDeadline, k)
     /\ SentButNotAckedByDeadline' = Rest(SentButNotAckedByDeadline, k)
     /\ SentButNotAckedBySeqNum' =
          DeleteEach(SentButNotAckedBySeqNum, "seqNum", Txq, retry')
     /\ UNCHANGED <<now, Txq, LastFrameSent, LastSeenAvailReaderMsgCap, panicked>>

\* Mutant: a resent frame is numbered like a new one.
ResendRenumbers ==
  /\ retry # << >>
  /\ \E dur \in RetryDurs :
       Txq' = [Txq EXCEPT ![Head(retry)] = [seq |-> LastFrameSent + 1, deadline |-> now + dur]]
  /\ InsertBoth(SentButNotAckedByDeadline, SentButNotAckedBySeqNum, Txq', Head(retry))
  /\ retry' = Tail(retry)
  /\ UNCHANGED <<now, LastFrameSent, LastSeenAvailReaderMsgCap, panicked>>

\* Then each of them gets a new deadline from the clock of that moment, enters
\* both trees again and is sent.
Resend ==
  /\ retry # << >>
  /\ \E dur \in RetryDurs : Txq' = [Txq EXCEPT ![Head(retry)].deadline = now + dur]
  /\ InsertBoth(SentButNotAckedByDeadline, SentButNotAckedBySeqNum, Txq', Head(retry))
  /\ retry' = Tail(retry)
  /\ UNCHANGED <<now, LastFrameSent, LastSeenAvailReaderMsgCap, panicked>>

Next ==
  \/ Tick
  \/ AcceptSend
  \/ \E ackNum \in -1..LastFrameSent, cap \in 0..PeerWindow : GotPack(ackNum, cap)
  \/ Wakeup
  \/ Resend

Spec == Init /\ [][Next]_vars

-----------------------------------------------------------------------------
(* Properties. *)

\* Types of the variables.
TypeOK ==
  /\ now \in 0..MaxTime /\ LastFrameSent \in -1..(MaxSend - 1)
  /\ LastSeenAvailReaderMsgCap \in 0..PeerWindow \cup {SenderWindowSize}
  /\ Txq \in [Slots -> [seq : -1..LastFrameSent, deadline : Int]]
  /\ SentButNotAckedByDeadline \in Seq(Slots) /\ SentButNotAckedBySeqNum \in Seq(Slots)
  /\ retry \in Seq(Slots) /\ panicked \in BOOLEAN

\* Both trees hold the same slots, each of them once, and none that the wakeup
\* has taken out, so the length check of GotPack never panics (sender.go:376-381).
TreesAgree ==
  /\ ~panicked
  /\ Range(SentButNotAckedByDeadline) = Range(SentButNotAckedBySeqNum)
  /\ Range(retry) \cap Range(SentButNotAckedBySeqNum) = {}
  /\ IsInjective(SentButNotAckedByDeadline \o retry) /\ IsInjective(SentButNotAckedBySeqNum)

\* Each tree is sorted by the keys its slots have now: no key has changed while
\* its slot was inside (the comment "MUST HAPPEN AFTER" in doOrigDataSend), and
\* neither comparison takes two slots for one, so searches by key find their slot.
TreesSorted ==
  /\ \A i, j \in DOMAIN SentButNotAckedByDeadline : i < j =>
       compareRetryDeadline(Txq[SentButNotAckedByDeadline[i]],
                            Txq[SentButNotAckedByDeadline[j]]) < 0
  /\ \A i, j \in DOMAIN SentButNotAckedBySeqNum : i < j =>
       compareSeqNum(Txq[SentButNotAckedBySeqNum[i]], Txq[SentButNotAckedBySeqNum[j]]) < 0

\* The trees together with the list of slots to resend behave like a set of
\* unacknowledged frames with deadlines: an ack forgets what it covers and no
\* other frame, a wakeup resends everything that is due, each frame once, even
\* one whose new deadline is already past, and a slot of Txq is never reused for a
\* new frame before its old one is acknowledged.
Waiting == Range(SentButNotAckedByDeadline) \cup Range(retry)
SlotOf(n) == CHOOSE p \in Waiting : Txq[p].seq = n
Unacked == [n \in {Txq[p].seq : p \in Waiting} |-> Txq[SlotOf(n)].deadline]
Due == {Txq[p].seq : p \in Range(retry)}
Frames == INSTANCE RetrySet WITH lastSent <- LastFrameSent, unacked <- Unacked, due <- Due
ImplementsRetrySet == Frames!SSpec
=============================================================================
