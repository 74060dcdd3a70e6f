---------------------------- MODULE EndpointLoops ----------------------------
(***************************************************************************)
(* The two goroutines of one session and the callers blocked on it: what   *)
(* each waits for, on which channel, and how the end of one reaches the    *)
(* others (recv.go, sender.go, swp.go, asap.go).  The unbuffered channels  *)
(* are rendezvous, the ack queue is a buffered channel, and a halter's     *)
(* channel is a flag that is closed once.                                  *)
(*                                                                         *)
(* What packets carry is left out: a handler may do whatever it does for   *)
(* some packet and some state.                                             *)
(***************************************************************************)
EXTENDS Integers

CONSTANTS AckQueueCap,   \* cap(SendAck), 5 in the code
          AutoClose,     \* NumFailedKeepAlivesBeforeClosing > 0
          UsesAsap       \* the application calls RegisterAsap

ASSUME LoopsAssumption ==
  AckQueueCap \in Nat \ {0} /\ AutoClose \in BOOLEAN /\ UsesAsap \in BOOLEAN

VARIABLES
  recvloop,     \* where the recvloop is
  afterAck,     \* what it does when the call of ack() under way returns
  sendloop,     \* "select" or "ended", its deferred closes included
  sendAck,      \* len(SendAck)
  recvReqStop,  \* RecvState.Halt.ReqStop is closed
  recvDone,     \* RecvState.Halt.Done is closed
  sendReqStop,  \* SenderState.Halt.ReqStop is closed
  asapHelper,   \* a helper is installed
  stopper,      \* a caller of Session.Stop
  pusher,       \* a caller of Push
  reader,       \* a caller of Read
  registrar     \* a caller of RegisterAsap

vars == <<recvloop, afterAck, sendloop, sendAck, recvReqStop, recvDone, sendReqStop,
          asapHelper, stopper, pusher, reader, registrar>>

halts == <<recvReqStop, recvDone, sendReqStop>>
callers == <<stopper, pusher, reader, registrar>>

\* Where the recvloop offers something to the sendloop, or gives up at ReqStop:
\* keepAliveWithState, DoSendClosingCh, sendSynCh and GotPack.
HandOff == {"keepAlive", "closing", "syn", "gotPack"}

Init ==
  /\ recvloop = "select" /\ afterAck = "select"
  /\ sendloop = "select"
  /\ sendAck = 0
  /\ recvReqStop = FALSE /\ recvDone = FALSE /\ sendReqStop = FALSE
  /\ asapHelper = FALSE
  /\ stopper = "idle" /\ pusher = "idle" /\ reader = "idle" /\ registrar = "idle"

-----------------------------------------------------------------------------
(* The recvloop. *)

\* Mutant: the queue counts as full when there is more in it than it can hold.
StartAckOneLate(after) ==
  /\ recvloop' = IF sendAck > AckQueueCap THEN "dropOldest" ELSE "ack"
  /\ afterAck' = after

\* ack() looks at the length of the queue, and only later receives or sends.
StartAck(after) ==
  /\ recvloop' = IF sendAck = AckQueueCap THEN "dropOldest" ELSE "ack"
  /\ afterAck' = after

\* A keepalive is due, or a Close, a Connect or a packet came in.
StartHandOff ==
  /\ recvloop = "select"
  /\ \E h \in HandOff : recvloop' = h
  /\ UNCHANGED <<afterAck, sendloop, sendAck, halts, asapHelper, callers>>

\* The sendloop takes what is offered; after a packet its handler goes on.
HandOver ==
  /\ recvloop \in HandOff /\ sendloop = "select"
  /\ recvloop' = IF recvloop = "gotPack" THEN "handler" ELSE "select"
  /\ UNCHANGED <<afterAck, sendloop, sendAck, halts, asapHelper, callers>>

\* The rest of the packet's handler: nothing that waits, an ack, or a FinAck and
\* the end of the loop.
HandlePacket ==
  /\ recvloop = "handler"
  /\ \/ recvloop' = "select" /\ UNCHANGED afterAck
     \/ StartAck("select")
     \/ StartAck("exit")
  /\ UNCHANGED <<sendloop, sendAck, halts, asapHelper, callers>>

\* A receive on ReadMessagesCh, or a retry of a handshake packet.
DeliverOrRetry ==
  /\ recvloop = "select"
  /\ StartAck("select")
  /\ UNCHANGED <<sendloop, sendAck, halts, asapHelper, callers>>

\* retryCheck after its last try.
GiveUp ==
  /\ recvloop = "select"
  /\ recvReqStop' = TRUE
  /\ UNCHANGED <<recvloop, afterAck, sendloop, sendAck, recvDone, sendReqStop, asapHelper, callers>>

\* A Read: with nothing or less than a packet to give it is answered at once,
\* otherwise after the ack.
ServeRead ==
  /\ recvloop = "select" /\ reader = "asking"
  /\ \/ reader' = "idle" /\ UNCHANGED <<recvloop, afterAck>>
     \/ reader' = "waiting" /\ StartAck("answer")
  /\ UNCHANGED <<sendloop, sendAck, halts, asapHelper, stopper, pusher, registrar>>

\* Mutant: the queue is taken to be as full as it was.
DropOldestAnyway ==
  /\ recvloop = "dropOldest"
  /\ sendAck' = sendAck - 1
  /\ recvloop' = "ack"
  /\ UNCHANGED <<afterAck, sendloop, halts, asapHelper, callers>>

\* ack(): a full queue loses its oldest entry ...
DropOldest ==
  /\ recvloop = "dropOldest" /\ sendAck > 0
  /\ sendAck' = sendAck - 1
  /\ recvloop' = "ack"
  /\ UNCHANGED <<afterAck, sendloop, halts, asapHelper, callers>>

\* ... and there is room, for no one else adds; the ten seconds are never needed.
FinishAck ==
  /\ recvloop = "ack"
  /\ \/ sendAck < AckQueueCap /\ sendAck' = sendAck + 1
     \/ recvReqStop /\ UNCHANGED sendAck
  /\ recvloop' = IF afterAck = "exit" THEN "exit" ELSE "select"
  /\ reader' = IF afterAck = "answer" /\ reader = "waiting" THEN "idle" ELSE reader
  /\ UNCHANGED <<afterAck, sendloop, halts, asapHelper, stopper, pusher, registrar>>

\* RegisterAsap: a helper replaces the last one once that has stopped.  No code
\* starts the goroutine of a helper, so it never says that it is done.
SetAsapHelper ==
  /\ recvloop = "select" /\ registrar = "asking"
  /\ registrar' = "idle"
  /\ recvloop' = IF asapHelper THEN "replaceAsap" ELSE "select"
  /\ asapHelper' = TRUE
  /\ UNCHANGED <<afterAck, sendloop, sendAck, halts, stopper, pusher, reader>>

\* Mutant: the hand-offs do not look at ReqStop.
SeeReqStopAtSelect ==
  /\ recvloop = "select" /\ recvReqStop
  /\ recvloop' = "exit"
  /\ UNCHANGED <<afterAck, sendloop, sendAck, halts, asapHelper, callers>>

SeeReqStop ==
  /\ recvloop \in {"select"} \cup HandOff /\ recvReqStop
  /\ recvloop' = "exit"
  /\ UNCHANGED <<afterAck, sendloop, sendAck, halts, asapHelper, callers>>

\* Mutant: the recvloop does not look at SenderShutdown.
IgnoreSenderShutdown == FALSE /\ UNCHANGED vars

SeeSenderShutdown ==
  /\ recvloop = "select" /\ sendloop = "ended"
  /\ recvloop' = "exit"
  /\ UNCHANGED <<afterAck, sendloop, sendAck, halts, asapHelper, callers>>

\* The deferred function, first part: both channels of the loop's halter.
Exit ==
  /\ recvloop = "exit"
  /\ recvReqStop' = TRUE /\ recvDone' = TRUE
  /\ recvloop' = "cleanup"
  /\ UNCHANGED <<afterAck, sendloop, sendAck, sendReqStop, asapHelper, callers>>

\* Mutant: the sender is not told.
CleanupOnExitQuietly ==
  /\ recvloop = "cleanup" /\ ~asapHelper
  /\ recvloop' = "ended"
  /\ UNCHANGED <<afterAck, sendloop, sendAck, halts, asapHelper, callers>>

\* Second part: wait for the helper to stop, which none does, and tell the sender.
CleanupOnExit ==
  /\ recvloop = "cleanup" /\ ~asapHelper
  /\ sendReqStop' = TRUE
  /\ recvloop' = "ended"
  /\ UNCHANGED <<afterAck, sendloop, sendAck, recvReqStop, recvDone, asapHelper, callers>>

-----------------------------------------------------------------------------
(* The sendloop. *)

\* Its deferred function: SenderShutdown, its halter and the session's Done.
EndSendloop ==
  /\ sendloop' = "ended"
  /\ sendReqStop' = TRUE

\* An ack goes out, or cannot be sent and the loop ends.
SendAck ==
  /\ sendloop = "select" /\ sendAck > 0
  /\ sendAck' = sendAck - 1
  /\ EndSendloop \/ UNCHANGED <<sendloop, sendReqStop>>
  /\ UNCHANGED <<recvloop, afterAck, recvReqStop, recvDone, asapHelper, callers>>

\* The other end was silent for too long.
DeclareDead ==
  /\ AutoClose /\ sendloop = "select"
  /\ EndSendloop
  /\ UNCHANGED <<recvloop, afterAck, sendAck, recvReqStop, recvDone, asapHelper, callers>>

SendloopSeesReqStop ==
  /\ sendloop = "select" /\ sendReqStop
  /\ EndSendloop
  /\ UNCHANGED <<recvloop, afterAck, sendAck, recvReqStop, recvDone, asapHelper, callers>>

\* Flow control allows it: the sendloop takes a pushed packet.
AcceptSend ==
  /\ sendloop = "select" /\ pusher = "asking"
  /\ pusher' = "idle"
  /\ UNCHANGED <<recvloop, afterAck, sendloop, sendAck, halts, asapHelper, stopper, reader, registrar>>

-----------------------------------------------------------------------------
(* The callers. *)

Loops == <<recvloop, afterAck, sendloop, sendAck, asapHelper>>

Push ==
  /\ pusher = "idle" /\ pusher' = "asking"
  /\ UNCHANGED <<Loops, halts, stopper, reader, registrar>>

PushGivesUp ==
  /\ pusher = "asking" /\ sendReqStop
  /\ pusher' = "idle"
  /\ UNCHANGED <<Loops, halts, stopper, reader, registrar>>

Read ==
  /\ reader = "idle" /\ reader' = "asking"
  /\ UNCHANGED <<Loops, halts, stopper, pusher, registrar>>

\* Mutant: a Read that was taken waits for its answer only.
ReadGivesUpAsking ==
  /\ reader = "asking" /\ sendloop = "ended"
  /\ reader' = "idle"
  /\ UNCHANGED <<Loops, halts, stopper, pusher, registrar>>

\* The session's Done is closed by the end of the sendloop.
ReadGivesUp ==
  /\ reader \in {"asking", "waiting"} /\ sendloop = "ended"
  /\ reader' = "idle"
  /\ UNCHANGED <<Loops, halts, stopper, pusher, registrar>>

RegisterAsap ==
  /\ UsesAsap /\ registrar = "idle"
  /\ registrar' = "asking"
  /\ UNCHANGED <<Loops, halts, stopper, pusher, reader>>

\* Session.Stop: the receiver first, then the sender.
Stop ==
  /\ stopper = "idle"
  /\ stopper' = "recver" /\ recvReqStop' = TRUE
  /\ UNCHANGED <<Loops, recvDone, sendReqStop, pusher, reader, registrar>>

StopSender ==
  /\ stopper = "recver" /\ recvDone
  /\ stopper' = "sender" /\ sendReqStop' = TRUE
  /\ UNCHANGED <<Loops, recvReqStop, recvDone, pusher, reader, registrar>>

StopReturn ==
  /\ stopper = "sender" /\ sendloop = "ended"
  /\ stopper' = "returned"
  /\ UNCHANGED <<Loops, halts, pusher, reader, registrar>>

-----------------------------------------------------------------------------
Next ==
  \/ StartHandOff \/ HandOver \/ HandlePacket \/ DeliverOrRetry \/ GiveUp \/ ServeRead
  \/ DropOldest \/ FinishAck \/ SetAsapHelper \/ SeeReqStop \/ SeeSenderShutdown
  \/ Exit \/ CleanupOnExit
  \/ SendAck \/ DeclareDead \/ SendloopSeesReqStop \/ AcceptSend
  \/ Push \/ PushGivesUp \/ Read \/ ReadGivesUp \/ RegisterAsap
  \/ Stop \/ StopSender \/ StopReturn

Spec == Init /\ [][Next]_vars

\* A goroutine that can go on does; a select that again and again finds the end of
\* the session ready takes it some time, for its choice is random.  No one has to
\* call, and no peer has to send or fall silent.
Fairness ==
  /\ WF_vars(HandOver) /\ WF_vars(HandlePacket) /\ WF_vars(DropOldest) /\ WF_vars(FinishAck)
  /\ SF_vars(SeeReqStop) /\ SF_vars(SeeSenderShutdown)
  /\ WF_vars(Exit) /\ WF_vars(CleanupOnExit)
  /\ SF_vars(SetAsapHelper)
  /\ SF_vars(SendAck) /\ SF_vars(SendloopSeesReqStop)
  /\ WF_vars(PushGivesUp) /\ WF_vars(ReadGivesUp)
  /\ WF_vars(StopSender) /\ WF_vars(StopReturn)

FairSpec == Spec /\ Fairness

-----------------------------------------------------------------------------
(* Properties. *)

\* Every variable has its type: the ack queue never holds more than its capacity.
TypeOK ==
  /\ recvloop \in {"select", "handler", "ack", "dropOldest", "replaceAsap",
                   "exit", "cleanup", "ended"} \cup HandOff
  /\ afterAck \in {"select", "answer", "exit"}
  /\ sendloop \in {"select", "ended"}
  /\ sendAck \in 0..AckQueueCap
  /\ recvReqStop \in BOOLEAN /\ recvDone \in BOOLEAN /\ sendReqStop \in BOOLEAN
  /\ asapHelper \in BOOLEAN
  /\ stopper \in {"idle", "recver", "sender", "returned"}
  /\ pusher \in {"idle", "asking"}
  /\ reader \in {"idle", "asking", "waiting"}
  /\ registrar \in {"idle", "asking"}

\* An ack always finds room in the queue, whatever the sendloop does between the
\* test of its length and the send: the ten seconds after which ack() suspects a
\* deadlock and drops the ack never pass (recv.go:625-637).
AckFindsRoom == recvloop = "ack" => sendAck < AckQueueCap

\* The recvloop waits where nothing will ever wake it: for the oldest entry of a
\* queue the sendloop has emptied in the meantime (recv.go:625-630), or for the
\* end of a helper that never ran (recv.go:313-315).
Wedged ==
  \/ recvloop = "dropOldest" /\ sendAck = 0
  \/ recvloop = "replaceAsap"

\* Stop comes back, whatever the loops and the callers are doing.
StopReturns == stopper = "recver" ~> stopper = "returned"

\* Stop comes back unless the recvloop is wedged, and a wedged recvloop is the only
\* thing that can keep it (recv.go:641-656, sender.go:433-436).
StopReturnsUnlessWedged == stopper = "recver" ~> stopper = "returned" \/ Wedged

\* The end of the recvloop, after a Fin or a failed handshake, ends the sendloop and
\* with it the session, unless a helper is installed (recv.go:190-199).
EndOfRecvloopSpreads == recvDone ~> sendloop = "ended" \/ asapHelper

\* The end of the sendloop ends the recvloop, unless that is wedged or is offering
\* something to the sendloop that is gone (sender.go:207-213, recv.go:357, 447-452).
EndOfSendloopSpreads ==
  sendloop = "ended" ~> recvDone \/ Wedged \/ recvloop \in HandOff

\* No Push and no Read stays blocked on a session whose sendloop has ended,
\* whatever the recvloop waits for; RegisterAsap, which looks at no halter, stays
\* blocked only if the recvloop has ended or waits for ever itself
\* (swp.go:398-406, 503-506, 533-556).
CallersReturn ==
  /\ pusher = "asking" /\ sendloop = "ended" ~> pusher = "idle"
  /\ reader # "idle" /\ sendloop = "ended" ~> reader = "idle"
  /\ registrar = "asking" ~>
       registrar = "idle" \/ recvDone \/ Wedged \/ (recvloop \in HandOff /\ sendloop = "ended")

=============================================================================
