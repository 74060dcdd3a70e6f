------------------------- MODULE EndpointLoopsProofs -------------------------
(***************************************************************************)
(* Proofs about EndpointLoops, for every capacity of the ack queue, with   *)
(* or without helpers and the dead-peer timeout.                           *)
(***************************************************************************)
EXTENDS EndpointLoops, TLAPS

\* TypeOK without the flags.
Places ==
  /\ recvloop \in {"select", "handler", "ack", "dropOldest", "replaceAsap",
                   "exit", "cleanup", "ended"} \cup HandOff
  /\ afterAck \in {"select", "answer", "exit"}
  /\ sendloop \in {"select", "ended"}
  /\ sendAck \in 0..AckQueueCap
  /\ stopper \in {"idle", "recver", "sender", "returned"}
  /\ pusher \in {"idle", "asking"}
  /\ reader \in {"idle", "asking", "waiting"}
  /\ registrar \in {"idle", "asking"}

Flags ==
  recvReqStop \in BOOLEAN /\ recvDone \in BOOLEAN /\ sendReqStop \in BOOLEAN
    /\ asapHelper \in BOOLEAN

\* The inductive invariant about the queue.
QueueInv == Places /\ AckFindsRoom

LEMMA QueueInvInit == Init => QueueInv
<1>1. AckQueueCap \in Nat \ {0}
  BY LoopsAssumption DEF LoopsAssumption
<1> QED BY <1>1 DEF Init, QueueInv, Places, AckFindsRoom

\* The recvloop is the only one that adds to the queue: its steps towards an ack.
LEMMA AckStepsKeepQueueInv ==
  ASSUME QueueInv, HandlePacket \/ DeliverOrRetry \/ ServeRead \/ DropOldest \/ FinishAck
  PROVE  QueueInv'
<1>1. AckQueueCap \in Nat \ {0}
  BY LoopsAssumption DEF LoopsAssumption
<1> USE <1>1 DEF QueueInv, Places, AckFindsRoom, HandOff, StartAck, callers
<1>2. CASE HandlePacket  BY <1>2 DEF HandlePacket
<1>3. CASE DeliverOrRetry  BY <1>3 DEF DeliverOrRetry
<1>4. CASE ServeRead  BY <1>4 DEF ServeRead
<1>5. CASE DropOldest  BY <1>5 DEF DropOldest
<1>6. CASE FinishAck  BY <1>6 DEF FinishAck
<1> QED BY <1>2, <1>3, <1>4, <1>5, <1>6

\* Its other steps leave the queue alone.
LEMMA RecvloopKeepsQueueInv ==
  ASSUME QueueInv, StartHandOff \/ HandOver \/ GiveUp \/ SetAsapHelper \/ SeeReqStop
                   \/ SeeSenderShutdown \/ Exit \/ CleanupOnExit
  PROVE  QueueInv'
BY DEF QueueInv, Places, AckFindsRoom, HandOff, callers, StartHandOff, HandOver, GiveUp,
       SetAsapHelper, SeeReqStop, SeeSenderShutdown, Exit, CleanupOnExit

\* The sendloop only takes from it, so room that was found stays.
LEMMA SendloopKeepsQueueInv ==
  ASSUME QueueInv, SendAck \/ DeclareDead \/ SendloopSeesReqStop \/ AcceptSend
  PROVE  QueueInv'
<1>1. AckQueueCap \in Nat \ {0}
  BY LoopsAssumption DEF LoopsAssumption
<1> USE <1>1 DEF QueueInv, Places, AckFindsRoom, callers, EndSendloop
<1>2. CASE SendAck  BY <1>2 DEF SendAck
<1>3. CASE DeclareDead  BY <1>3 DEF DeclareDead
<1>4. CASE SendloopSeesReqStop  BY <1>4 DEF SendloopSeesReqStop
<1>5. CASE AcceptSend  BY <1>5 DEF AcceptSend
<1> QED BY <1>2, <1>3, <1>4, <1>5

LEMMA CallersKeepQueueInv ==
  ASSUME QueueInv, Push \/ PushGivesUp \/ Read \/ ReadGivesUp \/ RegisterAsap \/ Stop
                   \/ StopSender \/ StopReturn
  PROVE  QueueInv'
BY DEF QueueInv, Places, AckFindsRoom, Loops, Push, PushGivesUp, Read,
       ReadGivesUp, RegisterAsap, Stop, StopSender, StopReturn

LEMMA StutterKeepsQueueInv == ASSUME QueueInv, UNCHANGED vars PROVE QueueInv'
BY DEF QueueInv, Places, AckFindsRoom, vars

LEMMA QueueInvAlways == Spec => []QueueInv
<1>1. QueueInv /\ [Next]_vars => QueueInv'
  BY AckStepsKeepQueueInv, RecvloopKeepsQueueInv, SendloopKeepsQueueInv, CallersKeepQueueInv,
     StutterKeepsQueueInv DEF Next
<1> QED BY QueueInvInit, <1>1, PTL DEF Spec

\* A flag is set or left alone.
LEMMA FlagsAlways == Spec => []Flags
<1>1. Init => Flags
  BY Zenon DEF Init, Flags
<1>2. ASSUME Flags, [Next]_vars PROVE Flags'
  <2> USE <1>2 DEF Flags, halts, Loops
  <2>1. CASE StartHandOff \/ HandOver \/ HandlePacket \/ DeliverOrRetry \/ ServeRead \/ DropOldest
             \/ FinishAck
    BY <2>1, Zenon DEF StartHandOff, HandOver, HandlePacket, DeliverOrRetry, ServeRead, DropOldest,
       FinishAck
  <2>2. CASE GiveUp \/ SetAsapHelper \/ SeeReqStop \/ SeeSenderShutdown \/ Exit \/ CleanupOnExit
    BY <2>2, Zenon DEF GiveUp, SetAsapHelper, SeeReqStop, SeeSenderShutdown, Exit, CleanupOnExit
  <2>3. CASE SendAck \/ DeclareDead \/ SendloopSeesReqStop \/ AcceptSend
    BY <2>3, Zenon DEF SendAck, DeclareDead, SendloopSeesReqStop, AcceptSend, EndSendloop
  <2>4. CASE Push \/ PushGivesUp \/ Read \/ ReadGivesUp \/ RegisterAsap
    BY <2>4, Zenon DEF Push, PushGivesUp, Read, ReadGivesUp, RegisterAsap
  <2>5. CASE Stop \/ StopSender \/ StopReturn
    BY <2>5, Zenon DEF Stop, StopSender, StopReturn
  <2>6. CASE UNCHANGED vars
    BY <2>6, Zenon DEF vars
  <2> QED BY <2>1, <2>2, <2>3, <2>4, <2>5, <2>6 DEF Next
<1> QED BY <1>1, <1>2, PTL DEF Spec

\* The places of both loops and of every caller are those of the code, and the ack
\* queue never holds more than its capacity.
THEOREM LoopsTypeCorrect == Spec => []TypeOK
<1>1. QueueInv /\ Flags => TypeOK
  BY Zenon DEF QueueInv, Places, Flags, TypeOK
<1> QED BY <1>1, QueueInvAlways, FlagsAlways, PTL

\* Whatever the capacity and the interleaving, an ack that is about to be queued
\* finds room, so ack() never runs into its ten seconds.
THEOREM AcksFindRoom == Spec => []AckFindsRoom
<1>1. QueueInv => AckFindsRoom
  BY DEF QueueInv
<1> QED BY <1>1, QueueInvAlways, PTL
=============================================================================
