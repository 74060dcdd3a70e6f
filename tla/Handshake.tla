------------------------------ MODULE Handshake ------------------------------
(***************************************************************************)
(* Opening and closing a session: the TcpState of two endpoints (tcp.go),  *)
(* the nonces by which a session refuses the packets of another, Connect   *)
(* and its retries (recv.go), the retry timer of the recvloop (retry.go),  *)
(* keepalives standing in for a lost EstabAck, and Fin.  A process may     *)
(* crash and start a new session on the same inbox while packets of the    *)
(* old one are still under way.                                            *)
(*                                                                         *)
(* Data and its acks change none of this state and are left out; so is the *)
(* SendAck queue between the loops, whose delay and loss are the network's.*)
(***************************************************************************)
EXTENDS Integers, FiniteSets

CONSTANTS A, B,          \* the two endpoints
          Openers,       \* the endpoints whose application calls Connect
          MaxConnects,   \* Bound: connect requests of one session
          MaxRestarts,   \* Bound: crashes of the two together
          MaxAttempts,   \* retryCheck gives up after that many tries (10 in the code)
          Busy,          \* endpoints that send data more often than KeepAliveInterval
          MayDuplicate,  \* TRUE: a packet may be received any number of times
          Timely,        \* TRUE: a retry period outlasts a keepalive interval and a transit
          MaxLosses,     \* Bound: packets the network loses
          MaxSynFailures \* Bound: SYNs of one session that Net.Send refuses

Endpoint == {A, B}
Peer(e) == IF e = A THEN B ELSE A

ASSUME HandshakeAssumption ==
  /\ A # B
  /\ Openers \subseteq Endpoint /\ Busy \subseteq Endpoint
  /\ MaxConnects \in Nat /\ MaxRestarts \in Nat /\ MaxAttempts \in Nat /\ MaxLosses \in Nat
  /\ MaxSynFailures \in Nat
  /\ MayDuplicate \in BOOLEAN /\ Timely \in BOOLEAN

State == {"Fresh", "Listen", "SynSent", "SynReceived", "Established", "CloseInitiatorHasSentFin",
          "CloseResponderGotFin", "Closed"}
Event == {"Syn", "SynAck", "EstabAck", "KeepAlive", "Fin", "FinAck"}
Action == {"NoAction", "SendSynAck", "SendEstabAck", "SendFinAck", "DoAppClose", "SendDataAck"}

NoNonce == 0
Nonce == Nat \ {NoNonce}   \* the sessions of one inbox, numbered as they start

Packet == [from : Endpoint, event : Event, nonce : Nonce, dest : Nonce \cup {NoNonce}, state : State]

VARIABLES
  net,              \* packets under way
  LocalSessNonce,
  TcpState,
  RemoteSessNonce,
  connReqPending,   \* the connect request the recvloop is to answer
  sendSyn,          \* the connect request whose SYN the sendloop is to send
  retry,            \* tcpRetryLogic
  conn,             \* where the application's Connect is
  connNonce,        \* Session.RemoteSessNonce: what Connect returned
  down,             \* how far the end of the recvloop is
  connects, losses, \* counters of the bounds
  synFailures,      \* SYNs of this session that could not be sent
  probed            \* e sent a keepalive since its peer's last retry (kept if Timely)

vars == <<net, LocalSessNonce, TcpState, RemoteSessNonce, connReqPending, sendSyn, retry,
          conn, connNonce, down, connects, losses, synFailures, probed>>

connVars == <<conn, connNonce, connects>>

\* Two references to the last request of Connect, or to none; its channel Done is
\* open until the request has been answered.
Request == {"none", "open", "closed"}
reqVars == <<connReqPending, sendSyn>>

NoRetry == [inUse |-> FALSE, curState |-> "Listen", act |-> "NoAction",
            nonce |-> NoNonce, attemptCount |-> 0]

\* NewSession: both ends listen, whoever is going to connect.
Init ==
  /\ net = {}
  /\ LocalSessNonce = [e \in Endpoint |-> 1]
  /\ TcpState = [e \in Endpoint |-> "Listen"]
  /\ RemoteSessNonce = [e \in Endpoint |-> NoNonce]
  /\ connReqPending = [e \in Endpoint |-> "none"]
  /\ sendSyn = [e \in Endpoint |-> "none"]
  /\ synFailures = [e \in Endpoint |-> 0]
  /\ retry = [e \in Endpoint |-> NoRetry]
  /\ conn = [e \in Endpoint |-> "idle"]
  /\ connNonce = [e \in Endpoint |-> NoNonce]
  /\ down = [e \in Endpoint |-> "no"]
  /\ connects = [e \in Endpoint |-> 0]
  /\ losses = 0
  /\ probed = [e \in Endpoint |-> FALSE]

\* The recvloop still runs; after ReqStop it may take another ready case first.
Live(e) == down[e] \in {"no", "stopping"}

\* Mutant: a keepalive that does not say in which state its sender is.
NewPacketNoState(e, event, dest) ==
  [from |-> e, event |-> event, nonce |-> LocalSessNonce[e], dest |-> dest, state |-> "Fresh"]

\* FromTcpState is only set in a keepalive; elsewhere it is 0, Fresh.
NewPacket(e, event, dest) ==
  [from |-> e, event |-> event, nonce |-> LocalSessNonce[e], dest |-> dest,
   state |-> IF event = "KeepAlive" THEN TcpState[e] ELSE "Fresh"]

-----------------------------------------------------------------------------
(* The protocol's tables. *)

\* The states of UpdateTcp that a Fin sends to CloseResponderGotFin.
Open == {"Listen", "SynReceived", "SynSent", "Established"}

\* UpdateTcp: the next state and the action, for event in state s.  (Fresh and
\* the start events of tcp.go are never used: a session starts in Listen.)
UpdateTcp(s, event, fromState) ==
  CASE s = "Closed" -> <<"Closed", "SendFinAck">>
    [] s \in Open /\ event = "Fin" -> <<"CloseResponderGotFin", "DoAppClose">>
    [] s = "Listen" /\ event = "Syn" -> <<"SynReceived", "SendSynAck">>
    [] s = "SynReceived" /\ event = "EstabAck" -> <<"Established", "NoAction">>
    [] s = "SynReceived" /\ event = "KeepAlive" /\ fromState = "Established" ->
         <<"Established", "NoAction">>
    [] s = "SynSent" /\ event = "SynAck" -> <<"Established", "SendEstabAck">>
    [] s = "SynSent" /\ event = "Syn" -> <<"SynReceived", "SendEstabAck">>
    [] s = "Established" /\ event = "KeepAlive" -> <<"Established", "SendDataAck">>
    [] s = "CloseInitiatorHasSentFin" /\ event \in {"Fin", "FinAck"} -> <<"Closed", "NoAction">>
    [] s = "CloseResponderGotFin" /\ event = "ApplicationClosed" -> <<"Closed", "NoAction">>
    [] OTHER -> <<s, "NoAction">>

\* Mutant: the EstabAck is repeated as well.
isRetryStateOrOpen(s) ==
  s \in {"SynSent", "SynReceived", "Established", "CloseInitiatorHasSentFin"}

\* Mutant: a session that has answered a SYN does not repeat its answer.
isRetryStateClient(s) == s \in {"SynSent", "CloseInitiatorHasSentFin"}

isRetryState(s) == s \in {"SynSent", "SynReceived", "CloseInitiatorHasSentFin"}

\* setupRetry: every change of state restarts or cancels the retry, but the
\* number of attempts is never reset.
SetupRetry(e, post, act, nonce) ==
  retry' = [retry EXCEPT ![e] =
    IF post = TcpState[e] THEN @
    ELSE IF isRetryState(post)
         THEN [@ EXCEPT !.inUse = TRUE, !.curState = post, !.act = act, !.nonce = nonce]
         ELSE [@ EXCEPT !.inUse = FALSE, !.nonce = NoNonce]]

\* Mutant: the nonce a packet is meant for is not looked at.
AcceptsAnyDest(e, m) == RemoteSessNonce[e] # NoNonce => m.nonce = RemoteSessNonce[e]

\* Mutant: the nonce a packet comes from is not looked at.
AcceptsAnySender(e, m) ==
  m.dest # NoNonce \/ TcpState[e] \in {"Established", "CloseInitiatorHasSentFin",
                                        "CloseResponderGotFin"}
    => m.dest = LocalSessNonce[e]

\* The recvloop refuses a packet that is meant for another session of its own
\* inbox, or that comes from another session of its peer's.
Accepts(e, m) ==
  /\ m.dest # NoNonce \/ TcpState[e] \in {"Established", "CloseInitiatorHasSentFin",
                                           "CloseResponderGotFin"}
       => m.dest = LocalSessNonce[e]
  /\ RemoteSessNonce[e] # NoNonce => m.nonce = RemoteSessNonce[e]

-----------------------------------------------------------------------------
(* What doTcpAction does; arrived is the network without the packet handled. *)

Panic(e, arrived) ==
  /\ down' = [down EXCEPT ![e] = "panic"]
  /\ net' = arrived
  /\ UNCHANGED <<RemoteSessNonce, reqVars, conn, connNonce>>

\* The server learns the session of its peer, or is told it again.
SendSynAck(e, nonce, arrived) ==
  IF RemoteSessNonce[e] \notin {NoNonce, nonce} THEN Panic(e, arrived)
  ELSE /\ RemoteSessNonce' = [RemoteSessNonce EXCEPT ![e] = nonce]
       /\ net' = arrived \cup {NewPacket(e, "SynAck", nonce)}
       /\ UNCHANGED <<reqVars, conn, connNonce, down>>

\* The client learns it, and its connect request is answered: there must be one,
\* and its Done must not be closed yet.
SendEstabAck(e, nonce, arrived) ==
  IF RemoteSessNonce[e] # NoNonce \/ connReqPending[e] # "open" THEN Panic(e, arrived)
  ELSE /\ RemoteSessNonce' = [RemoteSessNonce EXCEPT ![e] = nonce]
       /\ connReqPending' = [connReqPending EXCEPT ![e] = "none"]
       /\ sendSyn' = [sendSyn EXCEPT ![e] = IF @ = "open" THEN "closed" ELSE @]
       /\ IF conn[e] = "waiting"
          THEN /\ conn' = [conn EXCEPT ![e] = "connected"]
               /\ connNonce' = [connNonce EXCEPT ![e] = nonce]
          ELSE UNCHANGED <<conn, connNonce>>
       /\ net' = arrived \cup {NewPacket(e, "EstabAck", nonce)}
       /\ UNCHANGED down

DoTcpAction(e, act, nonce, arrived) ==
  \/ /\ act \in {"NoAction", "SendDataAck"}
     /\ net' = arrived
     /\ UNCHANGED <<RemoteSessNonce, reqVars, conn, connNonce, down>>
  \/ act = "SendSynAck" /\ SendSynAck(e, nonce, arrived)
  \/ act = "SendEstabAck" /\ SendEstabAck(e, nonce, arrived)
  \/ /\ act = "DoAppClose"
     /\ net' = arrived \cup {NewPacket(e, "FinAck", RemoteSessNonce[e])}
     /\ down' = [down EXCEPT ![e] = "closed"]
     /\ UNCHANGED <<RemoteSessNonce, reqVars, conn, connNonce>>

-----------------------------------------------------------------------------
(* The recvloop. *)

\* Connect's request on ConnectCh: the sendloop, once it is done with the request
\* before, gets it to send a SYN, again if one was lost.
StartConnect(e) ==
  /\ TcpState[e] \in {"Listen", "SynSent"}
  /\ sendSyn[e] = "none"
  /\ conn' = [conn EXCEPT ![e] = "waiting"]
  /\ connReqPending' = [connReqPending EXCEPT ![e] = "open"]
  /\ sendSyn' = [sendSyn EXCEPT ![e] = "open"]
  /\ TcpState' = [TcpState EXCEPT ![e] = "SynSent"]
  /\ UNCHANGED <<connNonce, net>>

\* The request finds the session open: no error, and no nonce either.
ConnectWhenOpen(e) ==
  /\ TcpState[e] \in {"SynReceived", "Established"}
  /\ conn' = [conn EXCEPT ![e] = "connected"]
  /\ UNCHANGED <<connNonce, reqVars, TcpState, net>>

\* Mutant: the request is answered as soon as its SYN is sent.
SynIsSentAndAnswered(e) ==
  /\ Live(e) /\ sendSyn[e] # "none"
  /\ net' = net \cup {NewPacket(e, "Syn", NoNonce)}
  /\ sendSyn' = [sendSyn EXCEPT ![e] = "none"]
  /\ connReqPending' = [connReqPending EXCEPT ![e] = "closed"]
  /\ UNCHANGED <<LocalSessNonce, TcpState, RemoteSessNonce, retry,
                 connVars, down, losses, synFailures, probed>>

\* The sendloop sends the SYN.
SynIsSent(e) ==
  /\ Live(e) /\ sendSyn[e] # "none"
  /\ net' = net \cup {NewPacket(e, "Syn", NoNonce)}
  /\ sendSyn' = [sendSyn EXCEPT ![e] = "none"]
  /\ UNCHANGED <<LocalSessNonce, TcpState, RemoteSessNonce, connReqPending, retry,
                 connVars, down, losses, synFailures, probed>>

\* Net.Send returns an error: the sendloop closes Done, and Connect returns the
\* error; the recvloop, which does not hear of it, still has the request pending.
SynFails(e) ==
  /\ Live(e) /\ sendSyn[e] # "none"
  /\ synFailures[e] < MaxSynFailures
  /\ synFailures' = [synFailures EXCEPT ![e] = @ + 1]
  /\ IF sendSyn[e] = "closed"
       THEN down' = [down EXCEPT ![e] = "panic"] /\ UNCHANGED <<conn, reqVars>>
       ELSE /\ sendSyn' = [sendSyn EXCEPT ![e] = "none"]
            /\ connReqPending' = [connReqPending EXCEPT ![e] = "closed"]
            /\ conn' = [conn EXCEPT ![e] = IF @ = "waiting" THEN "failed" ELSE @]
            /\ UNCHANGED down
  /\ UNCHANGED <<net, LocalSessNonce, TcpState, RemoteSessNonce, retry, connNonce, connects,
                 losses, probed>>

\* ConnectIfNeeded connects as long as it knows no nonce.
Connect(e) ==
  /\ e \in Openers
  /\ Live(e)
  /\ conn[e] # "waiting" /\ connNonce[e] = NoNonce
  /\ connects[e] < MaxConnects
  /\ connects' = [connects EXCEPT ![e] = @ + 1]
  /\ StartConnect(e) \/ ConnectWhenOpen(e)
  /\ UNCHANGED <<LocalSessNonce, RemoteSessNonce, retry, down, losses, synFailures, probed>>

\* Connect stops waiting; it tries again, or returns an error to a caller that may.
ConnectTimeout(e) ==
  /\ conn[e] = "waiting"
  /\ conn' = [conn EXCEPT ![e] = "timedOut"]
  /\ UNCHANGED <<net, LocalSessNonce, TcpState, RemoteSessNonce, reqVars, retry,
                 connNonce, down, connects, losses, synFailures, probed>>

Arrived(m) == IF MayDuplicate THEN net ELSE net \ {m}

\* A packet the filters drop.
Refuse(e, m) ==
  /\ Live(e) /\ m.from = Peer(e) /\ ~Accepts(e, m)
  /\ net' = Arrived(m)
  /\ UNCHANGED <<LocalSessNonce, TcpState, RemoteSessNonce, reqVars, retry,
                 connVars, down, losses, synFailures, probed>>

\* A packet of the handshake, a keepalive or a Fin: new state, retry, action.
\* After DoAppClose the loop goes on with EventApplicationClosed, and ends.
Receive(e, m) ==
  /\ Live(e) /\ m.from = Peer(e) /\ Accepts(e, m)
  /\ LET r == UpdateTcp(TcpState[e], m.event, m.state)
         post == IF r[2] = "DoAppClose" THEN UpdateTcp(r[1], "ApplicationClosed", "Fresh")[1]
                                        ELSE r[1]
     IN /\ TcpState' = [TcpState EXCEPT ![e] = post]
        /\ SetupRetry(e, post, r[2], m.nonce)
        /\ DoTcpAction(e, r[2], m.nonce, Arrived(m))
  /\ UNCHANGED <<LocalSessNonce, connects, losses, synFailures, probed>>

\* The sender offers keepalives once it knows the peer's session, and withholds
\* them while it sends data.
MayProbe(e) == Live(e) /\ RemoteSessNonce[e] # NoNonce /\ e \notin Busy

KeepAlive(e) ==
  /\ MayProbe(e)
  /\ net' = net \cup {NewPacket(e, "KeepAlive", RemoteSessNonce[e])}
  /\ probed' = [probed EXCEPT ![e] = Timely]
  /\ UNCHANGED <<LocalSessNonce, TcpState, RemoteSessNonce, reqVars, retry,
                 connVars, down, losses, synFailures>>

\* The retry period of a second outlasts KeepAliveInterval and a transit.
PeriodIsOver(e) == Timely => net = {} /\ (MayProbe(Peer(e)) => probed[Peer(e)])

\* Mutant: one try more than there should be.
TooManyTriesLate(e) == retry[e].attemptCount > MaxAttempts

TooManyTries(e) == retry[e].attemptCount + 1 > MaxAttempts

\* retryCheck: repeat the action of the current state, or give up.
RetryCheck(e) ==
  LET n == retry[e].attemptCount + 1
      stale == retry[e].curState # TcpState[e]
      giveUp == ~stale /\ TooManyTries(e)
  IN /\ Live(e) /\ retry[e].inUse
     /\ PeriodIsOver(e)
     /\ retry' = [retry EXCEPT ![e] = IF stale THEN [@ EXCEPT !.inUse = FALSE]
                  ELSE [@ EXCEPT !.attemptCount = n, !.inUse = ~giveUp]]
     /\ probed' = [probed EXCEPT ![Peer(e)] = FALSE]
     /\ IF giveUp
        THEN /\ down' = [down EXCEPT ![e] = "stopping"]
             /\ UNCHANGED <<net, RemoteSessNonce, reqVars, conn, connNonce>>
        ELSE DoTcpAction(e, IF stale THEN "NoAction" ELSE retry[e].act, retry[e].nonce, net)
     /\ UNCHANGED <<LocalSessNonce, TcpState, connects, losses, synFailures>>

\* The loop sees ReqStop.
Exit(e) ==
  /\ down[e] = "stopping"
  /\ down' = [down EXCEPT ![e] = "stopped"]
  /\ UNCHANGED <<net, LocalSessNonce, TcpState, RemoteSessNonce, reqVars, retry,
                 connVars, losses, synFailures, probed>>

\* Session.Close: the sender sends one Fin, and no state changes.
Close(e) ==
  /\ Live(e)
  /\ net' = net \cup {NewPacket(e, "Fin", RemoteSessNonce[e])}
  /\ UNCHANGED <<LocalSessNonce, TcpState, RemoteSessNonce, reqVars, retry,
                 connVars, down, losses, synFailures, probed>>

-----------------------------------------------------------------------------
(* The environment, and the specification. *)

\* The process ends, for whatever reason, and starts a session of a new nonce.
Restart(e) ==
  /\ LocalSessNonce[A] + LocalSessNonce[B] < MaxRestarts + 2
  /\ LocalSessNonce' = [LocalSessNonce EXCEPT ![e] = @ + 1]
  /\ TcpState' = [TcpState EXCEPT ![e] = "Listen"]
  /\ RemoteSessNonce' = [RemoteSessNonce EXCEPT ![e] = NoNonce]
  /\ connReqPending' = [connReqPending EXCEPT ![e] = "none"]
  /\ sendSyn' = [sendSyn EXCEPT ![e] = "none"]
  /\ synFailures' = [synFailures EXCEPT ![e] = 0]
  /\ retry' = [retry EXCEPT ![e] = NoRetry]
  /\ conn' = [conn EXCEPT ![e] = "idle"]
  /\ connNonce' = [connNonce EXCEPT ![e] = NoNonce]
  /\ down' = [down EXCEPT ![e] = "no"]
  /\ probed' = [probed EXCEPT ![e] = FALSE]
  /\ connects' = [connects EXCEPT ![e] = 0]
  /\ UNCHANGED <<net, losses>>

Lose(m) ==
  /\ ~MayDuplicate
  /\ losses < MaxLosses
  /\ losses' = losses + 1
  /\ net' = net \ {m}
  /\ UNCHANGED <<LocalSessNonce, TcpState, RemoteSessNonce, reqVars, retry,
                 connVars, down, synFailures, probed>>

Next ==
  \/ \E e \in Endpoint :
       \/ Connect(e) \/ ConnectTimeout(e) \/ KeepAlive(e) \/ RetryCheck(e) \/ Exit(e)
       \/ Close(e) \/ Restart(e) \/ SynIsSent(e) \/ SynFails(e)
       \/ \E m \in net : Receive(e, m) \/ Refuse(e, m)
  \/ \E m \in net : Lose(m)

Spec == Init /\ [][Next]_vars

\* The recvloop's retry timer fires again and again as long as it is set.
FairSpec == Spec /\ \A e \in Endpoint : WF_vars(RetryCheck(e))

-----------------------------------------------------------------------------
(* Properties. *)

\* Every field has its type, and a session counts its retries up to the limit.
TypeOK ==
  /\ net \subseteq Packet
  /\ LocalSessNonce \in [Endpoint -> Nonce]
  /\ TcpState \in [Endpoint -> State]
  /\ RemoteSessNonce \in [Endpoint -> Nonce \cup {NoNonce}]
  /\ connReqPending \in [Endpoint -> Request] /\ sendSyn \in [Endpoint -> Request]
  /\ retry \in [Endpoint -> [inUse : BOOLEAN, curState : State, act : Action,
                             nonce : Nonce \cup {NoNonce}, attemptCount : 0..(MaxAttempts + 1)]]
  /\ conn \in [Endpoint -> {"idle", "waiting", "timedOut", "failed", "connected"}]
  /\ connNonce \in [Endpoint -> Nonce \cup {NoNonce}]
  /\ down \in [Endpoint -> {"no", "stopping", "stopped", "closed", "panic"}]
  /\ connects \in [Endpoint -> Nat] /\ losses \in Nat
  /\ synFailures \in [Endpoint -> Nat]
  /\ probed \in [Endpoint -> BOOLEAN]

\* The recvloop never meets a state that doTcpAction declares impossible, a second
\* nonce for its peer or no connect request to answer, and no loop closes a Done
\* twice: stated where every SYN can be sent (recv.go:719-742, sender.go:398-403).
NoPanic == \A e \in Endpoint : down[e] # "panic"

\* With crashes, duplicates and SYNs that cannot be sent the only panics are those
\* of a session one of whose SYNs failed: there the answer to an earlier SYN, or
\* the failure of a SYN after that answer, closes Done a second time
\* (sender.go:398-403, recv.go:736-742).
PanicsOnlyOnFailedSyn == \A e \in Endpoint : down[e] = "panic" => synFailures[e] > 0

\* A session is Established only with a session that knows it: unless the peer
\* has started anew since, each holds the other's nonce, and the peer is past
\* Listen and SynSent (recv.go:382-392, tcp.go:105-144).
EstablishedIsMutual ==
  \A e \in Endpoint :
    TcpState[e] = "Established" /\ down[e] # "panic" =>
      /\ RemoteSessNonce[e] # NoNonce
      /\ RemoteSessNonce[e] = LocalSessNonce[Peer(e)] =>
           /\ RemoteSessNonce[Peer(e)] = LocalSessNonce[e]
           /\ TcpState[Peer(e)] \in {"SynReceived", "Established", "Closed"}

\* A session that knows its peer is closed only by a Fin of that very session of
\* the peer, sent before the peer knew any nonce or to this session: no Fin of an
\* earlier life of either end closes it (recv.go:382-392, tcp.go:108-153).  One in
\* Listen or SynSent, which knows no peer yet, takes an old Fin with no dest nonce.
\* Stated for a network that duplicates, whose net remembers every packet.
ClosedByItsPeer ==
  \A e \in Endpoint :
    MayDuplicate /\ down[e] = "closed" /\ RemoteSessNonce[e] # NoNonce =>
      \E m \in net : /\ m.from = Peer(e) /\ m.event = "Fin"
                     /\ m.nonce = RemoteSessNonce[e]
                     /\ m.dest \in {NoNonce, LocalSessNonce[e]}

\* A session that has answered a SYN does not wait for ever for the peer's next
\* word, be it lost or the peer restarted with a nonce this session refuses: it
\* gets established or closed, or gives up after its tries (retry.go:30-76).
HalfOpenEnds ==
  \A e \in Endpoint :
    TcpState[e] = "SynReceived" /\ down[e] = "no" ~> TcpState[e] # "SynReceived" \/ down[e] # "no"

\* A server does not give up on a client that is Established and sits waiting:
\* keepalives make up for the EstabAck that was lost (swp.go:146-149).
GivesUpOnlyOnSilence ==
  \A e \in Endpoint :
    down[e] = "stopping" /\ RemoteSessNonce[e] = LocalSessNonce[Peer(e)] =>
      TcpState[Peer(e)] # "Established" \/ ~Live(Peer(e))

-----------------------------------------------------------------------------
(* The inductive invariant behind TypeOK, EstablishedIsMutual and           *)
(* PanicsOnlyOnFailedSyn.  Only the last needs that one end alone connects. *)

OneOpener == Openers # Endpoint

\* The states of a session that has answered its peer.
Joined == {"SynReceived", "Established", "Closed"}

\* What m says of the session that sent it stays true while that session lasts,
\* and nobody speaks of a session that has not started yet.
SpeaksOf(m, states) ==
  /\ m.dest = RemoteSessNonce[m.from] /\ m.dest # NoNonce
  /\ TcpState[m.from] \in states

Truthful(m) ==
  /\ m.nonce <= LocalSessNonce[m.from]
  /\ m.nonce = LocalSessNonce[m.from] =>
       /\ m.event \in {"SynAck", "EstabAck"} => SpeaksOf(m, Joined)
       /\ m.event = "KeepAlive" /\ m.state = "Established" => SpeaksOf(m, Joined)
  /\ m.event = "Syn" => m.from \in Openers

NoncesAreOld(e) ==
  RemoteSessNonce[e] <= LocalSessNonce[Peer(e)] /\ retry[e].nonce <= LocalSessNonce[Peer(e)]

\* The nonce of the peer is learnt in the step that leaves Listen or SynSent.
PeerIsKnown(e) ==
  /\ TcpState[e] \in {"Listen", "SynSent"} => RemoteSessNonce[e] = NoNonce
  /\ TcpState[e] \in {"SynReceived", "Established"} /\ down[e] # "panic"
       => RemoteSessNonce[e] # NoNonce

\* Only the answer to a SYN is ever retried, and always to the session it was for.
RetryIsCurrent(e) ==
  /\ TcpState[e] \in {"Listen", "SynSent"} => retry[e].attemptCount = 0
  /\ retry[e].inUse => /\ TcpState[e] = "SynReceived" /\ retry[e].curState = "SynReceived"
                       /\ retry[e].attemptCount <= MaxAttempts
                       /\ retry[e].act \in {"SendSynAck", "SendEstabAck"}
                       /\ retry[e].act = "SendSynAck" => retry[e].nonce = RemoteSessNonce[e]
                       /\ OneOpener => retry[e].act = "SendSynAck"

\* A session in SynSent has a request to answer, which is still open unless its
\* SYN could not be sent; nothing else makes the only opener, or its peer, panic.
RequestIsPending(e) ==
  /\ sendSyn[e] # "none" \/ TcpState[e] = "SynSent" => e \in Openers
  /\ TcpState[e] = "SynSent" => connReqPending[e] # "none"
  /\ connReqPending[e] = "closed" => synFailures[e] > 0
  /\ OneOpener /\ down[e] = "panic" => synFailures[e] > 0

\* EstablishedIsMutual, of one session.
MutualOf(e) ==
  TcpState[e] = "Established" /\ down[e] # "panic" =>
    /\ RemoteSessNonce[e] # NoNonce
    /\ RemoteSessNonce[e] = LocalSessNonce[Peer(e)] =>
         /\ RemoteSessNonce[Peer(e)] = LocalSessNonce[e]
         /\ TcpState[Peer(e)] \in Joined

SessionOf(e) == NoncesAreOld(e) /\ PeerIsKnown(e) /\ RetryIsCurrent(e) /\ RequestIsPending(e)

SessionInv ==
  /\ TypeOK
  /\ \A m \in net : Truthful(m)
  /\ \A e \in Endpoint : SessionOf(e) /\ MutualOf(e)

-----------------------------------------------------------------------------
(* The inductive invariant behind GivesUpOnlyOnSilence, for a life of two   *)
(* sessions without a restart, one of which connects.  A try that was of no *)
(* help has cost a packet: no period ends with what was sent under way.     *)

\* The packets by which a session learns that its peer is Established with it.
Confirms(m) == m.event = "EstabAck" \/ (m.event = "KeepAlive" /\ m.state = "Established")

\* What e waits for is under way, or will be sent before its period is over.
AnswerIsDue(e) ==
  IF TcpState[Peer(e)] = "SynSent"
    THEN \E m \in net : m.from = e /\ m.event = "SynAck"
    ELSE ~probed[Peer(e)] \/ \E m \in net : m.from = Peer(e) /\ Confirms(m)

RetriesAreLosses(e) ==
  Live(e) /\ Live(Peer(e)) /\ retry[e].inUse =>
    /\ TcpState[Peer(e)] \in {"SynSent", "Established"}
    /\ retry[e].attemptCount <= losses
    /\ ~AnswerIsDue(e) => retry[e].attemptCount < losses

\* Only an endpoint that has left Listen sends SYNs.
SynsAreCalls ==
  /\ \A m \in net : m.event = "Syn" => TcpState[m.from] # "Listen"
  /\ \A e \in Endpoint : sendSyn[e] # "none" => TcpState[e] # "Listen"

SilenceInv ==
  /\ \A e \in Endpoint : LocalSessNonce[e] = 1
  /\ losses <= MaxLosses /\ SynsAreCalls
  /\ \A e \in Endpoint :
       /\ Live(e) => TcpState[e] \in Open
       /\ TcpState[e] = "SynReceived" => Peer(e) \in Openers
       /\ down[e] = "stopping" => ~Live(Peer(e))
       /\ RetriesAreLosses(e)
=============================================================================
