--------------------------- MODULE HandshakeProofs ---------------------------
(***************************************************************************)
(* Proofs about opening and closing a session, for any number of connect   *)
(* requests, restarts, retries and losses, and a network that loses,       *)
(* delays, reorders and duplicates: a session is Established only with the *)
(* session of its peer that knows it, is closed only by that session, and, *)
(* where one end alone connects, panics only after a SYN failed.           *)
(*                                                                         *)
(* SessionInv says of every packet under way that what it tells of its     *)
(* sender still holds, and of every session what it knows of its peer.  A  *)
(* step is a step of one endpoint: StepKeeps says what is left to show of  *)
(* that endpoint and of the packet it sends.  SilenceInv counts the tries  *)
(* of a server against the packets lost: no server gives up on a client    *)
(* that keeps alive, unless the network lost more than it had tries.       *)
(***************************************************************************)
EXTENDS Handshake, TLAPS

LEMMA PeerFacts ==
  ASSUME NEW e \in Endpoint
  PROVE  /\ Peer(e) \in Endpoint /\ Peer(e) # e /\ Peer(Peer(e)) = e
         /\ Endpoint = {e, Peer(e)}
  BY HandshakeAssumption DEF Endpoint, Peer

LEMMA NonceFacts ==
  /\ NoNonce \in Nonce \cup {NoNonce} /\ NoNonce \notin Nonce
  /\ \A n \in Nonce \cup {NoNonce} : n \in Nat
  BY DEF Nonce, NoNonce

\* What TypeOK says of one session.
RetryType == [inUse : BOOLEAN, curState : State, act : Action,
              nonce : Nonce \cup {NoNonce}, attemptCount : 0..(MaxAttempts + 1)]

LEMMA TypeFacts ==
  ASSUME TypeOK, NEW e \in Endpoint
  PROVE  /\ LocalSessNonce[e] \in Nonce /\ LocalSessNonce[e] \in Nat
         /\ TcpState[e] \in State
         /\ RemoteSessNonce[e] \in Nonce \cup {NoNonce} /\ RemoteSessNonce[e] \in Nat
         /\ retry[e] \in RetryType /\ retry[e].inUse \in BOOLEAN
         /\ retry[e].nonce \in Nonce \cup {NoNonce} /\ retry[e].nonce \in Nat
         /\ retry[e].attemptCount \in 0..(MaxAttempts + 1)
         /\ retry[e].act \in Action
  BY NonceFacts DEF TypeOK, RetryType

LEMMA PacketFacts ==
  ASSUME TypeOK, NEW m \in net
  PROVE  /\ m.from \in Endpoint /\ m.event \in Event /\ m.state \in State
         /\ m.nonce \in Nonce /\ m.nonce \in Nat
         /\ m.dest \in Nonce \cup {NoNonce} /\ m.dest \in Nat
  BY NonceFacts DEF TypeOK, Packet

LEMMA NewPacketFacts ==
  ASSUME TypeOK, NEW e \in Endpoint, NEW event \in Event, NEW dest \in Nonce \cup {NoNonce}
  PROVE  LET p == NewPacket(e, event, dest)
         IN /\ p \in Packet /\ p.from = e /\ p.event = event /\ p.dest = dest
            /\ p.nonce = LocalSessNonce[e]
            /\ event = "KeepAlive" => p.state = TcpState[e]
<1>1. "Fresh" \in State /\ TcpState[e] \in State /\ LocalSessNonce[e] \in Nonce
  BY TypeFacts DEF State
<1> QED BY <1>1 DEF NewPacket, Packet

-----------------------------------------------------------------------------
(* A step is a step of one endpoint. *)

\* Nothing of another session than e's changes.
OthersStay(e) ==
  \A f \in Endpoint : f # e =>
    /\ LocalSessNonce'[f] = LocalSessNonce[f] /\ TcpState'[f] = TcpState[f]
    /\ RemoteSessNonce'[f] = RemoteSessNonce[f] /\ retry'[f] = retry[f]
    /\ down'[f] = down[f] /\ synFailures'[f] = synFailures[f]
    /\ connReqPending'[f] = connReqPending[f] /\ sendSyn'[f] = sendSyn[f]

\* A session goes on, keeping the peer it knows and the fact that it has joined.
GoesOn(e) ==
  /\ LocalSessNonce'[e] = LocalSessNonce[e]
  /\ RemoteSessNonce[e] # NoNonce => RemoteSessNonce'[e] = RemoteSessNonce[e]
  /\ TcpState[e] \in Joined => TcpState'[e] \in Joined

\* Or it is replaced by one that nobody has heard of.
StartsAnew(e) == LocalSessNonce'[e] > LocalSessNonce[e]

\* A packet that is true stays true, if its sender goes on or starts anew.
LEMMA TruthLasts ==
  ASSUME TypeOK, TypeOK', NEW m \in net, Truthful(m),
         GoesOn(m.from) \/ StartsAnew(m.from)
  PROVE  Truthful(m)'
<1>1. m.nonce \in Nat /\ m.from \in Endpoint
  BY PacketFacts
<1>2. LocalSessNonce[m.from] \in Nat /\ LocalSessNonce'[m.from] \in Nat
  <2>1. LocalSessNonce'[m.from] \in Nonce
    BY <1>1 DEF TypeOK
  <2> QED BY <1>1, <2>1, TypeFacts, NonceFacts
<1>3. CASE StartsAnew(m.from)
  BY <1>1, <1>2, <1>3 DEF StartsAnew, Truthful
<1>4. CASE GoesOn(m.from)
  <2>1. ASSUME SpeaksOf(m, Joined)
        PROVE  SpeaksOf(m, Joined)'
    BY <1>4, <2>1 DEF GoesOn, SpeaksOf
  <2> QED BY <1>4, <2>1, Zenon DEF GoesOn, Truthful
<1> QED BY <1>3, <1>4

\* What holds of a session nothing happens to still holds.
LEMMA OtherSessionKept ==
  ASSUME TypeOK, NEW e \in Endpoint, OthersStay(e), GoesOn(e) \/ StartsAnew(e), TypeOK',
         NEW f \in Endpoint, f # e, SessionOf(f), MutualOf(f)
  PROVE  SessionOf(f)' /\ MutualOf(f)'
<1>0. f = Peer(e) /\ Peer(f) = e
  BY PeerFacts
<1>1. LocalSessNonce[e] \in Nat /\ LocalSessNonce'[e] \in Nat /\ LocalSessNonce'[e] >= LocalSessNonce[e]
  <2>1. LocalSessNonce'[e] \in Nonce
    BY DEF TypeOK
  <2> QED BY <2>1, TypeFacts, NonceFacts DEF GoesOn, StartsAnew
<1>2. RemoteSessNonce[f] \in Nat /\ retry[f].nonce \in Nat
  BY TypeFacts
<1>3. NoncesAreOld(f)'
  BY <1>0, <1>1, <1>2 DEF OthersStay, NoncesAreOld, SessionOf
<1>4. PeerIsKnown(f)' /\ RetryIsCurrent(f)' /\ RequestIsPending(f)'
  <2>1. /\ TcpState'[f] = TcpState[f] /\ RemoteSessNonce'[f] = RemoteSessNonce[f]
        /\ retry'[f] = retry[f] /\ down'[f] = down[f] /\ synFailures'[f] = synFailures[f]
        /\ connReqPending'[f] = connReqPending[f] /\ sendSyn'[f] = sendSyn[f]
    BY DEF OthersStay
  <2> QED BY <2>1, Zenon DEF SessionOf, PeerIsKnown, RetryIsCurrent, RequestIsPending
<1>5. MutualOf(f)'
  <2>1. /\ TcpState'[f] = TcpState[f] /\ RemoteSessNonce'[f] = RemoteSessNonce[f]
        /\ down'[f] = down[f] /\ LocalSessNonce'[f] = LocalSessNonce[f]
    BY DEF OthersStay
  <2>2. RemoteSessNonce[f] <= LocalSessNonce[e]
    BY <1>0 DEF SessionOf, NoncesAreOld
  <2>3. CASE StartsAnew(e)
    BY <1>0, <1>1, <1>2, <2>1, <2>2, <2>3 DEF StartsAnew, MutualOf
  <2>4. CASE GoesOn(e)
    <3>1. LocalSessNonce[f] # NoNonce
      BY TypeFacts, NonceFacts
    <3> QED BY <1>0, <2>1, <2>4, <3>1 DEF GoesOn, MutualOf
  <2> QED BY <2>3, <2>4
<1> QED BY <1>3, <1>4, <1>5 DEF SessionOf

\* What is left to show of a step of e that may send the packets P.
LEMMA StepKeeps ==
  ASSUME SessionInv, TypeOK', NEW e \in Endpoint, OthersStay(e), GoesOn(e) \/ StartsAnew(e),
         NEW P, net' \subseteq net \cup P, \A p \in P : Truthful(p)',
         SessionOf(e)', MutualOf(e)'
  PROVE  SessionInv'
<1>1. /\ TypeOK /\ \A m \in net : Truthful(m)
      /\ \A f \in Endpoint : SessionOf(f) /\ MutualOf(f)
  BY DEF SessionInv
<1>2. \A f \in Endpoint : GoesOn(f) \/ StartsAnew(f)
  <2> SUFFICES ASSUME NEW f \in Endpoint, f # e
               PROVE  GoesOn(f)
    OBVIOUS
  <2> QED BY DEF OthersStay, GoesOn
<1>3. \A m \in net' : Truthful(m)'
  <2>1. ASSUME NEW m \in net
        PROVE  Truthful(m)'
    <3>1. m.from \in Endpoint
      BY <1>1, PacketFacts
    <3> QED BY <1>1, <1>2, <3>1, TruthLasts
  <2> QED BY <2>1
<1>4. \A f \in Endpoint : SessionOf(f)' /\ MutualOf(f)'
  <2> SUFFICES ASSUME NEW f \in Endpoint, f # e
               PROVE  SessionOf(f)' /\ MutualOf(f)'
    OBVIOUS
  <2> QED BY <1>1, OtherSessionKept
<1> QED BY <1>3, <1>4 DEF SessionInv

\* A step that leaves e's handshake where it was only has to spare its requests.
LEMMA HandshakeKept ==
  ASSUME TypeOK, NEW e \in Endpoint, SessionOf(e), MutualOf(e), OthersStay(e),
         LocalSessNonce'[e] = LocalSessNonce[e], TcpState'[e] = TcpState[e],
         RemoteSessNonce'[e] = RemoteSessNonce[e], retry'[e] = retry[e],
         down[e] = "panic" => down'[e] = "panic"
  PROVE  /\ GoesOn(e)
         /\ RequestIsPending(e)' => SessionOf(e)'
         /\ MutualOf(e)'
<1>1. LET f == Peer(e) IN
      /\ LocalSessNonce'[f] = LocalSessNonce[f]
      /\ TcpState'[f] = TcpState[f] /\ RemoteSessNonce'[f] = RemoteSessNonce[f]
  BY PeerFacts DEF OthersStay
<1>2. GoesOn(e)
  BY DEF GoesOn
<1>3. NoncesAreOld(e)'
  BY <1>1 DEF SessionOf, NoncesAreOld
<1>4. PeerIsKnown(e)' /\ RetryIsCurrent(e)'
  BY Zenon DEF SessionOf, PeerIsKnown, RetryIsCurrent
<1>5. MutualOf(e)'
  BY <1>1, Zenon DEF MutualOf
<1> QED BY <1>2, <1>3, <1>4, <1>5 DEF SessionOf

-----------------------------------------------------------------------------
(* The steps that leave the handshake of every session where it was. *)

LEMMA QuietStep ==
  ASSUME SessionInv, TypeOK', NEW e \in Endpoint,
         UNCHANGED <<LocalSessNonce, TcpState, RemoteSessNonce, retry>>,
         \A f \in Endpoint : f # e =>
            /\ down'[f] = down[f] /\ synFailures'[f] = synFailures[f]
            /\ connReqPending'[f] = connReqPending[f] /\ sendSyn'[f] = sendSyn[f],
         down[e] = "panic" => down'[e] = "panic", RequestIsPending(e)',
         NEW P, net' \subseteq net \cup P, \A p \in P : Truthful(p)'
  PROVE  SessionInv'
<1>1. TypeOK /\ SessionOf(e) /\ MutualOf(e)
  BY DEF SessionInv
<1>2. OthersStay(e)
  BY DEF OthersStay
<1>3. GoesOn(e) /\ SessionOf(e)' /\ MutualOf(e)'
  BY <1>1, <1>2, HandshakeKept
<1> QED BY <1>2, <1>3, StepKeeps

\* A step that touches no request either, and sends nothing.
LEMMA IdleStep ==
  ASSUME SessionInv, TypeOK', net' \subseteq net, NEW e \in Endpoint,
         UNCHANGED <<LocalSessNonce, TcpState, RemoteSessNonce, retry, reqVars, synFailures>>,
         \A f \in Endpoint : f # e => down'[f] = down[f],
         down[e] = "panic" <=> down'[e] = "panic"
  PROVE  SessionInv'
<1>1. RequestIsPending(e)
  BY DEF SessionInv, SessionOf
<1>2. RequestIsPending(e)'
  BY <1>1, Zenon DEF RequestIsPending, reqVars
<1> DEFINE none == {}
<1>3. net' \subseteq net \cup none /\ \A p \in none : Truthful(p)'
  OBVIOUS
<1>4. \A f \in Endpoint : f # e =>
        /\ down'[f] = down[f] /\ synFailures'[f] = synFailures[f]
        /\ connReqPending'[f] = connReqPending[f] /\ sendSyn'[f] = sendSyn[f]
  BY DEF reqVars
<1>5. UNCHANGED <<LocalSessNonce, TcpState, RemoteSessNonce, retry>>
  OBVIOUS
<1> HIDE DEF none
<1> QED BY <1>2, <1>3, <1>4, <1>5, QuietStep

LEMMA ConnectTimeoutKeeps ==
  ASSUME SessionInv, NEW e \in Endpoint, ConnectTimeout(e)
  PROVE  SessionInv'
<1>1. TypeOK
  BY DEF SessionInv
<1>2. TypeOK'
  BY <1>1 DEF ConnectTimeout, TypeOK, reqVars
<1>3. net' \subseteq net
  BY DEF ConnectTimeout
<1> QED BY <1>2, <1>3, IdleStep DEF ConnectTimeout, reqVars

LEMMA ExitKeeps ==
  ASSUME SessionInv, NEW e \in Endpoint, Exit(e)
  PROVE  SessionInv'
<1>1. TypeOK
  BY DEF SessionInv
<1>2. TypeOK'
  BY <1>1 DEF Exit, TypeOK, reqVars, connVars
<1>3. net' \subseteq net
  BY DEF Exit
<1>4. /\ \A f \in Endpoint : f # e => down'[f] = down[f]
      /\ down[e] # "panic" /\ down'[e] # "panic"
  BY <1>1 DEF Exit, TypeOK
<1> QED BY <1>2, <1>3, <1>4, IdleStep DEF Exit, reqVars

LEMMA RefuseKeeps ==
  ASSUME SessionInv, NEW e \in Endpoint, NEW m, Refuse(e, m)
  PROVE  SessionInv'
<1>1. TypeOK
  BY DEF SessionInv
<1>2. TypeOK' /\ net' \subseteq net
  BY <1>1 DEF Refuse, TypeOK, reqVars, connVars, Arrived
<1> QED BY <1>2, IdleStep DEF Refuse, reqVars

LEMMA LoseKeeps ==
  ASSUME SessionInv, NEW m, Lose(m)
  PROVE  SessionInv'
<1>1. TypeOK /\ A \in Endpoint
  BY DEF SessionInv, Endpoint
<1>2. TypeOK' /\ net' \subseteq net
  BY <1>1 DEF Lose, TypeOK, reqVars, connVars
<1> QED BY <1>1, <1>2, IdleStep DEF Lose, reqVars

LEMMA StutterKeeps ==
  ASSUME SessionInv, UNCHANGED vars
  PROVE  SessionInv'
<1>1. TypeOK /\ A \in Endpoint
  BY DEF SessionInv, Endpoint
<1>2. TypeOK' /\ net' \subseteq net
  BY <1>1 DEF vars, TypeOK, reqVars, connVars
<1> QED BY <1>1, <1>2, IdleStep DEF vars, reqVars

\* A SYN, a Fin, or a FinAck says nothing of its sender.
LEMMA PlainPacketIsTruthful ==
  ASSUME TypeOK, NEW e \in Endpoint, NEW dest \in Nonce \cup {NoNonce},
         NEW event \in {"Syn", "Fin", "FinAck"}, event = "Syn" => e \in Openers,
         LocalSessNonce'[e] = LocalSessNonce[e],
         NEW p, p = NewPacket(e, event, dest)
  PROVE  p \in Packet /\ Truthful(p)'
<1>1. /\ event \in Event
      /\ p \in Packet /\ p.from = e /\ p.event = event /\ p.nonce = LocalSessNonce[e]
  BY NewPacketFacts DEF Event
<1>2. LocalSessNonce[e] \in Nat
  BY TypeFacts
<1> QED BY <1>1, <1>2 DEF Truthful

\* A step of a live loop that only sends one packet.
LEMMA SendStep ==
  ASSUME SessionInv, NEW e \in Endpoint, NEW p \in Packet, net' = net \cup {p}, Truthful(p)',
         UNCHANGED <<LocalSessNonce, TcpState, RemoteSessNonce, connReqPending, retry,
                     conn, connNonce, connects, down, losses, synFailures>>,
         probed' \in [Endpoint -> BOOLEAN],
         sendSyn' = sendSyn \/ sendSyn' = [sendSyn EXCEPT ![e] = "none"]
  PROVE  SessionInv'
<1>1. TypeOK /\ RequestIsPending(e)
  BY DEF SessionInv, SessionOf
<1>2. TypeOK'
  BY <1>1 DEF TypeOK, Request
<1>3. RequestIsPending(e)'
  <2>1. sendSyn'[e] \in {sendSyn[e], "none"}
    BY <1>1 DEF TypeOK
  <2> QED BY <1>1, <2>1, Zenon DEF RequestIsPending
<1> DEFINE P == {p}
<1>4. net' \subseteq net \cup P /\ \A q \in P : Truthful(q)'
  OBVIOUS
<1>5. \A f \in Endpoint : f # e =>
        /\ down'[f] = down[f] /\ synFailures'[f] = synFailures[f]
        /\ connReqPending'[f] = connReqPending[f] /\ sendSyn'[f] = sendSyn[f]
  BY <1>1 DEF TypeOK
<1>6. UNCHANGED <<LocalSessNonce, TcpState, RemoteSessNonce, retry>>
  OBVIOUS
<1> HIDE DEF P
<1> QED BY <1>2, <1>3, <1>4, <1>5, <1>6, QuietStep

LEMMA CloseKeeps ==
  ASSUME SessionInv, NEW e \in Endpoint, Close(e)
  PROVE  SessionInv'
<1>1. TypeOK
  BY DEF SessionInv
<1>2. PICK p : p = NewPacket(e, "Fin", RemoteSessNonce[e])
  OBVIOUS
<1>3. p \in Packet /\ Truthful(p)'
  BY <1>1, <1>2, TypeFacts, PlainPacketIsTruthful DEF Close
<1>4. /\ net' = net \cup {p} /\ sendSyn' = sendSyn
      /\ UNCHANGED <<LocalSessNonce, TcpState, RemoteSessNonce, connReqPending, retry,
                     conn, connNonce, connects, down, losses, synFailures>>
  BY <1>2 DEF Close, connVars, reqVars
<1>5. probed' \in [Endpoint -> BOOLEAN]
  BY <1>1 DEF Close, TypeOK
<1> QED BY <1>3, <1>4, <1>5, SendStep

LEMMA SynIsSentKeeps ==
  ASSUME SessionInv, NEW e \in Endpoint, SynIsSent(e)
  PROVE  SessionInv'
<1>1. TypeOK /\ e \in Openers
  BY DEF SessionInv, SessionOf, RequestIsPending, SynIsSent
<1>2. PICK p : p = NewPacket(e, "Syn", NoNonce)
  OBVIOUS
<1>3. p \in Packet /\ Truthful(p)'
  BY <1>1, <1>2, NonceFacts, PlainPacketIsTruthful DEF SynIsSent
<1>4. /\ net' = net \cup {p} /\ sendSyn' = [sendSyn EXCEPT ![e] = "none"]
      /\ UNCHANGED <<LocalSessNonce, TcpState, RemoteSessNonce, connReqPending, retry,
                     conn, connNonce, connects, down, losses, synFailures>>
  BY <1>2 DEF SynIsSent, connVars
<1>5. probed' \in [Endpoint -> BOOLEAN]
  BY <1>1 DEF SynIsSent, TypeOK
<1> QED BY <1>3, <1>4, <1>5, SendStep

\* A keepalive tells the state and the peer of a session that has joined.
LEMMA KeepAliveKeeps ==
  ASSUME SessionInv, NEW e \in Endpoint, KeepAlive(e)
  PROVE  SessionInv'
<1>1. TypeOK
  BY DEF SessionInv
<1>2. PICK p : p = NewPacket(e, "KeepAlive", RemoteSessNonce[e])
  OBVIOUS
<1>3. /\ net' = net \cup {p} /\ sendSyn' = sendSyn
      /\ UNCHANGED <<LocalSessNonce, TcpState, RemoteSessNonce, connReqPending, retry,
                     conn, connNonce, connects, down, losses, synFailures>>
  BY <1>2 DEF KeepAlive, connVars, reqVars
<1>4. /\ p \in Packet /\ p.from = e /\ p.event = "KeepAlive" /\ p.dest = RemoteSessNonce[e]
      /\ p.nonce = LocalSessNonce[e] /\ p.state = TcpState[e]
  BY <1>1, <1>2, TypeFacts, NewPacketFacts DEF Event
<1>5. LocalSessNonce[e] \in Nat /\ RemoteSessNonce[e] # NoNonce
  BY <1>1, TypeFacts DEF KeepAlive, MayProbe
<1>6. Truthful(p)'
  BY <1>3, <1>4, <1>5 DEF Truthful, SpeaksOf, Joined
<1>7. probed' \in [Endpoint -> BOOLEAN]
  BY <1>1, HandshakeAssumption DEF KeepAlive, TypeOK
<1> QED BY <1>3, <1>4, <1>6, <1>7, SendStep

\* A SYN that cannot be sent may end the loop: its Done was closed already.
LEMMA SynFailsKeeps ==
  ASSUME SessionInv, NEW e \in Endpoint, SynFails(e)
  PROVE  SessionInv'
<1>1. TypeOK /\ RequestIsPending(e)
  BY DEF SessionInv, SessionOf
<1>2. synFailures[e] \in Nat /\ synFailures'[e] = synFailures[e] + 1
  BY <1>1 DEF SynFails, TypeOK
<1>3. TypeOK'
  <2>1. synFailures' \in [Endpoint -> Nat]
    BY <1>1 DEF SynFails, TypeOK
  <2>2. CASE sendSyn[e] = "closed"
    BY <1>1, <2>1, <2>2 DEF SynFails, TypeOK, reqVars
  <2>3. CASE sendSyn[e] # "closed"
    <3>1. /\ sendSyn' = [sendSyn EXCEPT ![e] = "none"]
          /\ connReqPending' = [connReqPending EXCEPT ![e] = "closed"]
          /\ conn' = [conn EXCEPT ![e] = IF @ = "waiting" THEN "failed" ELSE @]
          /\ UNCHANGED <<down, net, LocalSessNonce, TcpState, RemoteSessNonce, retry,
                         connNonce, connects, losses, probed>>
      BY <2>3 DEF SynFails
    <3>2. /\ sendSyn' \in [Endpoint -> Request] /\ connReqPending' \in [Endpoint -> Request]
      BY <1>1, <3>1 DEF TypeOK, Request
    <3>3. conn' \in [Endpoint -> {"idle", "waiting", "timedOut", "failed", "connected"}]
      BY <1>1, <3>1 DEF TypeOK
    <3> QED BY <1>1, <2>1, <3>1, <3>2, <3>3 DEF TypeOK
  <2> QED BY <2>2, <2>3
<1>4. RequestIsPending(e)'
  <2>1. synFailures'[e] > 0
    BY <1>2
  <2>2. TcpState' = TcpState
    BY DEF SynFails
  <2>3. /\ sendSyn'[e] # "none" => sendSyn[e] # "none"
        /\ connReqPending'[e] = "none" => connReqPending[e] = "none"
    BY <1>1 DEF SynFails, TypeOK, reqVars
  <2> QED BY <1>1, <2>1, <2>2, <2>3 DEF RequestIsPending
<1>5. /\ \A f \in Endpoint : f # e =>
           /\ down'[f] = down[f] /\ synFailures'[f] = synFailures[f]
           /\ connReqPending'[f] = connReqPending[f] /\ sendSyn'[f] = sendSyn[f]
      /\ down[e] = "panic" => down'[e] = "panic"
  BY <1>1 DEF SynFails, TypeOK, reqVars
<1> DEFINE none == {}
<1>6. net' \subseteq net \cup none /\ \A p \in none : Truthful(p)'
  BY DEF SynFails
<1>7. UNCHANGED <<LocalSessNonce, TcpState, RemoteSessNonce, retry>>
  BY DEF SynFails
<1> HIDE DEF none
<1> QED BY <1>3, <1>4, <1>5, <1>6, <1>7, QuietStep

-----------------------------------------------------------------------------
(* Connect, a new session, and the retry timer. *)

LEMMA ConnectKeeps ==
  ASSUME SessionInv, NEW e \in Endpoint, Connect(e)
  PROVE  SessionInv'
<1>1. TypeOK /\ SessionOf(e) /\ connects' \in [Endpoint -> Nat]
  BY DEF SessionInv, Connect, TypeOK
<1>2. CASE ConnectWhenOpen(e)
  <2>1. TypeOK'
    BY <1>1, <1>2 DEF Connect, ConnectWhenOpen, TypeOK, reqVars
  <2>2. /\ net' \subseteq net
        /\ UNCHANGED <<LocalSessNonce, TcpState, RemoteSessNonce, retry, reqVars, synFailures, down>>
    BY <1>2 DEF Connect, ConnectWhenOpen
  <2> QED BY <2>1, <2>2, IdleStep
<1>3. CASE StartConnect(e)
  <2>1. TypeOK'
    BY <1>1, <1>3 DEF Connect, StartConnect, TypeOK, Request, State
  <2>2. /\ UNCHANGED <<net, LocalSessNonce, RemoteSessNonce, retry, down, synFailures>>
        /\ TcpState' = [TcpState EXCEPT ![e] = "SynSent"]
        /\ connReqPending' = [connReqPending EXCEPT ![e] = "open"]
        /\ sendSyn' = [sendSyn EXCEPT ![e] = "open"]
        /\ TcpState[e] \in {"Listen", "SynSent"} /\ e \in Openers
    BY <1>3 DEF Connect, StartConnect
  <2>3. TcpState'[e] = "SynSent" /\ connReqPending'[e] = "open"
    BY <1>1, <2>2 DEF TypeOK
  <2>4. OthersStay(e)
    BY <1>1, <2>2 DEF OthersStay, TypeOK
  <2>5. GoesOn(e)
    BY <2>2 DEF GoesOn, Joined
  <2>6. NoncesAreOld(e)'
    BY <1>1, <2>2 DEF SessionOf, NoncesAreOld
  <2>7. PeerIsKnown(e)' /\ RetryIsCurrent(e)'
    BY <1>1, <2>2, <2>3 DEF SessionOf, PeerIsKnown, RetryIsCurrent
  <2>8. RequestIsPending(e)'
    BY <1>1, <2>2, <2>3 DEF SessionOf, RequestIsPending
  <2>9. MutualOf(e)'
    BY <2>3 DEF MutualOf
  <2> DEFINE none == {}
  <2>10. net' \subseteq net \cup none /\ \A p \in none : Truthful(p)'
    BY <2>2
  <2> HIDE DEF none
  <2> QED BY <2>1, <2>4, <2>5, <2>6, <2>7, <2>8, <2>9, <2>10, StepKeeps DEF SessionOf
<1> QED BY <1>2, <1>3 DEF Connect

\* A session that starts knows nobody, and is known by nobody.
LEMMA RestartKeeps ==
  ASSUME SessionInv, NEW e \in Endpoint, Restart(e)
  PROVE  SessionInv'
<1>1. TypeOK
  BY DEF SessionInv
<1>2. LocalSessNonce[e] \in Nat /\ LocalSessNonce'[e] = LocalSessNonce[e] + 1
  BY <1>1, TypeFacts DEF Restart, TypeOK
<1>3. TypeOK'
  <2>1. LocalSessNonce' \in [Endpoint -> Nonce]
    BY <1>1, <1>2, NonceFacts DEF Restart, TypeOK, Nonce, NoNonce
  <2>2. NoRetry \in RetryType
    BY HandshakeAssumption, NonceFacts DEF NoRetry, RetryType, State, Action
  <2>3. retry' \in [Endpoint -> RetryType]
    BY <1>1, <2>2 DEF Restart, TypeOK, RetryType
  <2> QED BY <1>1, <2>1, <2>3, NonceFacts DEF Restart, TypeOK, RetryType, State, Request
<1>4. /\ TcpState'[e] = "Listen" /\ RemoteSessNonce'[e] = NoNonce /\ retry'[e] = NoRetry
      /\ down'[e] = "no" /\ sendSyn'[e] = "none" /\ connReqPending'[e] = "none"
  BY <1>1 DEF Restart, TypeOK
<1>5. OthersStay(e)
  BY <1>1 DEF OthersStay, Restart, TypeOK
<1>6. StartsAnew(e)
  BY <1>2 DEF StartsAnew
<1>7. NoncesAreOld(e)'
  <2>1. LocalSessNonce'[Peer(e)] \in Nonce
    BY <1>3, PeerFacts DEF TypeOK
  <2>2. LocalSessNonce'[Peer(e)] >= 0
    BY <2>1, NonceFacts
  <2> QED BY <1>4, <2>2 DEF NoncesAreOld, NoRetry, NoNonce
<1>8. PeerIsKnown(e)' /\ RetryIsCurrent(e)'
  BY <1>4 DEF PeerIsKnown, RetryIsCurrent, NoRetry
<1>9. RequestIsPending(e)'
  BY <1>4 DEF RequestIsPending
<1>10. MutualOf(e)'
  BY <1>4 DEF MutualOf
<1> DEFINE none == {}
<1>11. net' \subseteq net \cup none /\ \A p \in none : Truthful(p)'
  BY DEF Restart
<1> HIDE DEF none
<1> QED BY <1>3, <1>5, <1>6, <1>7, <1>8, <1>9, <1>10, <1>11, StepKeeps DEF SessionOf

\* What holds of the packets by which a session answers a SYN or a SynAck.
LEMMA AnswerIsTruthful ==
  ASSUME TypeOK, NEW e \in Endpoint, NEW event \in {"SynAck", "EstabAck"}, NEW nonce \in Nonce,
         LocalSessNonce' = LocalSessNonce,
         RemoteSessNonce'[e] = nonce, TcpState'[e] \in Joined,
         NEW p, p = NewPacket(e, event, nonce)
  PROVE  p \in Packet /\ Truthful(p)'
<1>1. /\ event \in Event
      /\ p \in Packet /\ p.from = e /\ p.event = event /\ p.nonce = LocalSessNonce[e]
      /\ p.dest = nonce
  BY NewPacketFacts DEF Event
<1>2. LocalSessNonce[e] \in Nat /\ nonce # NoNonce
  BY TypeFacts, NonceFacts
<1> QED BY <1>1, <1>2 DEF Truthful, SpeaksOf

\* The timer finds the state in which it was set: it gives up, repeats a SynAck,
\* or, where both ends connect, panics over an EstabAck.
LEMMA RetryCheckOutcomes ==
  ASSUME SessionInv, NEW e \in Endpoint, RetryCheck(e)
  PROVE  /\ TcpState[e] = "SynReceived" /\ Live(e) /\ RemoteSessNonce[e] \in Nonce
         /\ retry[e].inUse /\ retry[e].attemptCount \in 0..MaxAttempts
         /\ retry' = [retry EXCEPT ![e] = [@ EXCEPT !.attemptCount = retry[e].attemptCount + 1,
                                                    !.inUse = ~TooManyTries(e)]]
         /\ UNCHANGED <<LocalSessNonce, TcpState, RemoteSessNonce, connReqPending, sendSyn,
                        conn, connNonce, connects, losses, synFailures>>
         /\ \/ TooManyTries(e) /\ net' = net /\ down' = [down EXCEPT ![e] = "stopping"]
            \/ net' = net \cup {NewPacket(e, "SynAck", RemoteSessNonce[e])} /\ down' = down
            \/ net' = net /\ down' = [down EXCEPT ![e] = "panic"] /\ ~OneOpener
<1> DEFINE giveUp == TooManyTries(e)
<1>1. TypeOK /\ SessionOf(e) /\ Live(e) /\ retry[e].inUse
  BY DEF SessionInv, RetryCheck
<1>2. /\ TcpState[e] = "SynReceived" /\ retry[e].curState = "SynReceived"
      /\ retry[e].attemptCount <= MaxAttempts
      /\ retry[e].act \in {"SendSynAck", "SendEstabAck"}
      /\ retry[e].act = "SendSynAck" => retry[e].nonce = RemoteSessNonce[e]
      /\ OneOpener => retry[e].act = "SendSynAck"
  BY <1>1, Zenon DEF SessionOf, RetryIsCurrent
<1>3. RemoteSessNonce[e] # NoNonce /\ RemoteSessNonce[e] \in Nonce
  BY <1>1, <1>2, TypeFacts DEF SessionOf, PeerIsKnown, Live
<1>4. retry[e].attemptCount \in 0..MaxAttempts
  BY <1>1, <1>2, TypeFacts
<1>5. /\ retry' = [retry EXCEPT ![e] = [@ EXCEPT !.attemptCount = retry[e].attemptCount + 1,
                                                 !.inUse = ~giveUp]]
      /\ UNCHANGED <<LocalSessNonce, TcpState, connects, losses, synFailures>>
  BY <1>2 DEF RetryCheck
<1>6. CASE giveUp
  BY <1>1, <1>2, <1>3, <1>4, <1>5, <1>6 DEF RetryCheck, reqVars
<1>7. CASE ~giveUp
  <2>1. DoTcpAction(e, retry[e].act, retry[e].nonce, net)
    BY <1>2, <1>7 DEF RetryCheck
  <2>2. CASE retry[e].act = "SendSynAck"
    <3>1. SendSynAck(e, RemoteSessNonce[e], net)
      BY <1>2, <2>1, <2>2 DEF DoTcpAction
    <3>2. RemoteSessNonce' = RemoteSessNonce
      BY <1>1, <1>3, <3>1 DEF SendSynAck, TypeOK
    <3> QED BY <1>1, <1>2, <1>3, <1>4, <1>5, <3>1, <3>2 DEF SendSynAck, reqVars
  <2>3. CASE retry[e].act = "SendEstabAck"
    <3>1. Panic(e, net)
      BY <1>3, <2>1, <2>3 DEF DoTcpAction, SendEstabAck
    <3> QED BY <1>1, <1>2, <1>3, <1>4, <1>5, <2>3, <3>1 DEF Panic, reqVars
  <2> QED BY <1>2, <2>2, <2>3
<1> QED BY <1>6, <1>7

LEMMA RetryCheckKeeps ==
  ASSUME SessionInv, NEW e \in Endpoint, RetryCheck(e)
  PROVE  SessionInv'
<1>1. TypeOK /\ SessionOf(e) /\ MutualOf(e)
  BY DEF SessionInv
<1>2. /\ TcpState[e] = "SynReceived" /\ Live(e) /\ RemoteSessNonce[e] \in Nonce
      /\ retry[e].inUse /\ retry[e].attemptCount \in 0..MaxAttempts
      /\ retry' = [retry EXCEPT ![e] = [@ EXCEPT !.attemptCount = retry[e].attemptCount + 1,
                                                 !.inUse = ~TooManyTries(e)]]
      /\ UNCHANGED <<LocalSessNonce, TcpState, RemoteSessNonce, connReqPending, sendSyn,
                     conn, connNonce, connects, losses, synFailures>>
      /\ \/ net' = net /\ down' = [down EXCEPT ![e] = "stopping"]
         \/ net' = net \cup {NewPacket(e, "SynAck", RemoteSessNonce[e])} /\ down' = down
         \/ net' = net /\ down' = [down EXCEPT ![e] = "panic"] /\ ~OneOpener
  BY RetryCheckOutcomes
<1>3. PICK p : p = NewPacket(e, "SynAck", RemoteSessNonce[e])
  OBVIOUS
<1>4. p \in Packet /\ Truthful(p)'
  BY <1>1, <1>2, <1>3, AnswerIsTruthful DEF Joined
<1> DEFINE n == retry[e].attemptCount
           P == {p}
<1>5. n \in Nat /\ n <= MaxAttempts
  BY <1>2
<1>6. /\ retry'[e] \in RetryType
      /\ retry'[e].inUse => n + 1 <= MaxAttempts
      /\ retry'[e].attemptCount = n + 1 /\ retry'[e].nonce = retry[e].nonce
      /\ retry'[e].act = retry[e].act /\ retry'[e].curState = retry[e].curState
  <2>1. retry[e] \in RetryType /\ DOMAIN retry = Endpoint
    BY <1>1, TypeFacts DEF TypeOK
  <2>2. retry'[e] = [retry[e] EXCEPT !.attemptCount = n + 1, !.inUse = ~TooManyTries(e)]
    BY <1>2, <2>1
  <2>3. n + 1 \in 0..(MaxAttempts + 1)
    BY <1>5, HandshakeAssumption
  <2>4. ~TooManyTries(e) => n + 1 <= MaxAttempts
    BY <1>5, HandshakeAssumption DEF TooManyTries
  <2>5. PICK again \in BOOLEAN :
          /\ retry'[e] = [retry[e] EXCEPT !.attemptCount = n + 1, !.inUse = again]
          /\ again => n + 1 <= MaxAttempts
    <3>1. CASE TooManyTries(e)
      BY <2>2, <3>1
    <3>2. CASE ~TooManyTries(e)
      BY <2>2, <2>4, <3>2
    <3> QED BY <3>1, <3>2
  <2> HIDE DEF n
  <2> QED BY <2>1, <2>3, <2>5 DEF RetryType
<1>7. TypeOK'
  <2>1. retry' \in [Endpoint -> RetryType]
    BY <1>1, <1>2, <1>6 DEF TypeOK, RetryType
  <2>2. probed' \in [Endpoint -> BOOLEAN]
    BY <1>1 DEF RetryCheck, TypeOK
  <2>3. down' \in [Endpoint -> {"no", "stopping", "stopped", "closed", "panic"}]
    BY <1>1, <1>2 DEF TypeOK
  <2>4. net' \subseteq Packet
    BY <1>1, <1>2, <1>3, <1>4 DEF TypeOK
  <2> QED BY <1>1, <1>2, <2>1, <2>2, <2>3, <2>4 DEF TypeOK, RetryType
<1>8. OthersStay(e)
  BY <1>1, <1>2 DEF OthersStay, TypeOK
<1>9. GoesOn(e)
  BY <1>2 DEF GoesOn
<1>10. NoncesAreOld(e)'
  BY <1>1, <1>2, <1>6 DEF SessionOf, NoncesAreOld
<1>11. PeerIsKnown(e)'
  BY <1>2, NonceFacts DEF PeerIsKnown
<1>12. RetryIsCurrent(e)'
  <2>1. /\ retry[e].curState = "SynReceived"
        /\ retry[e].act \in {"SendSynAck", "SendEstabAck"}
        /\ retry[e].act = "SendSynAck" => retry[e].nonce = RemoteSessNonce[e]
        /\ OneOpener => retry[e].act = "SendSynAck"
    BY <1>1, <1>2, Zenon DEF SessionOf, RetryIsCurrent
  <2> QED BY <1>2, <1>6, <2>1 DEF RetryIsCurrent
<1>13. RequestIsPending(e)'
  <2>1. down[e] # "panic" /\ (OneOpener => down'[e] # "panic")
    BY <1>1, <1>2 DEF Live, TypeOK
  <2> QED BY <1>1, <1>2, <2>1 DEF SessionOf, RequestIsPending
<1>14. MutualOf(e)'
  BY <1>2 DEF MutualOf
<1>15. net' \subseteq net \cup P /\ \A q \in P : Truthful(q)'
  BY <1>2, <1>3, <1>4
<1> HIDE DEF P
<1> QED BY <1>7, <1>8, <1>9, <1>10, <1>11, <1>12, <1>13, <1>14, <1>15, StepKeeps DEF SessionOf

-----------------------------------------------------------------------------
(* A packet is received. *)

\* The transitions of tcp.go that a session can meet.
LEMMA UpdateTcpIs ==
  ASSUME NEW s \in State, NEW event \in Event, NEW from \in State
  PROVE  \/ UpdateTcp(s, event, from) \in {<<s, "NoAction">>, <<s, "SendDataAck">>}
         \/ s = "Closed" /\ UpdateTcp(s, event, from) = <<"Closed", "SendFinAck">>
         \/ /\ s \in Open /\ event = "Fin"
            /\ UpdateTcp(s, event, from) = <<"CloseResponderGotFin", "DoAppClose">>
         \/ /\ s = "Listen" /\ event = "Syn"
            /\ UpdateTcp(s, event, from) = <<"SynReceived", "SendSynAck">>
         \/ /\ s = "SynReceived"
            /\ event = "EstabAck" \/ (event = "KeepAlive" /\ from = "Established")
            /\ UpdateTcp(s, event, from) = <<"Established", "NoAction">>
         \/ /\ s = "SynSent" /\ event = "SynAck"
            /\ UpdateTcp(s, event, from) = <<"Established", "SendEstabAck">>
         \/ /\ s = "SynSent" /\ event = "Syn"
            /\ UpdateTcp(s, event, from) = <<"SynReceived", "SendEstabAck">>
         \/ /\ s = "CloseInitiatorHasSentFin"
            /\ UpdateTcp(s, event, from) = <<"Closed", "NoAction">>
<1>1. CASE s = "Closed"
  BY <1>1 DEF UpdateTcp
<1>2. CASE s \in Open /\ event = "Fin"
  BY <1>2 DEF UpdateTcp, Open
<1>3. CASE s \in Open /\ event # "Fin"
  <2>1. CASE s = "Listen"
    BY <1>3, <2>1 DEF UpdateTcp
  <2>2. CASE s = "SynReceived"
    <3>1. CASE event = "EstabAck"
      <4>1. UpdateTcp(s, event, from) = <<"Established", "NoAction">>
        BY <2>2, <3>1 DEF UpdateTcp
      <4> QED BY <2>2, <3>1, <4>1
    <3>2. CASE event = "KeepAlive" /\ from = "Established"
      <4>1. UpdateTcp(s, event, from) = <<"Established", "NoAction">>
        BY <2>2, <3>2 DEF UpdateTcp
      <4> QED BY <2>2, <3>2, <4>1
    <3>3. CASE event # "EstabAck" /\ ~(event = "KeepAlive" /\ from = "Established")
      BY <1>3, <2>2, <3>3 DEF UpdateTcp
    <3> QED BY <3>1, <3>2, <3>3
  <2>3. CASE s = "SynSent"
    BY <1>3, <2>3 DEF UpdateTcp
  <2>4. CASE s = "Established"
    BY <1>3, <2>4 DEF UpdateTcp
  <2> QED BY <1>3, <2>1, <2>2, <2>3, <2>4 DEF Open
<1>4. CASE s \in {"Fresh", "CloseInitiatorHasSentFin", "CloseResponderGotFin"}
  BY <1>4 DEF UpdateTcp, Open, Event
<1> QED BY <1>1, <1>2, <1>3, <1>4 DEF State, Open

\* The state, the retry and the action for a pair that UpdateTcp may answer.
Handle(e, m, post, act) ==
  /\ TcpState' = [TcpState EXCEPT ![e] = post]
  /\ SetupRetry(e, post, act, m.nonce)
  /\ DoTcpAction(e, act, m.nonce, Arrived(m))

LEMMA ReceiveOutcomes ==
  ASSUME TypeOK, NEW e \in Endpoint, NEW m \in net, Receive(e, m)
  PROVE  LET s == TcpState[e] IN
         \/ Handle(e, m, s, "NoAction") \/ Handle(e, m, s, "SendDataAck")
         \/ s \in Open /\ m.event = "Fin" /\ Handle(e, m, "Closed", "DoAppClose")
         \/ s = "Listen" /\ m.event = "Syn" /\ Handle(e, m, "SynReceived", "SendSynAck")
         \/ /\ s = "SynReceived"
            /\ m.event = "EstabAck" \/ (m.event = "KeepAlive" /\ m.state = "Established")
            /\ Handle(e, m, "Established", "NoAction")
         \/ s = "SynSent" /\ m.event = "SynAck" /\ Handle(e, m, "Established", "SendEstabAck")
         \/ s = "SynSent" /\ m.event = "Syn" /\ Handle(e, m, "SynReceived", "SendEstabAck")
         \/ s = "CloseInitiatorHasSentFin" /\ Handle(e, m, "Closed", "NoAction")
<1> DEFINE s == TcpState[e]
<1>1. s \in State /\ m.event \in Event /\ m.state \in State
  BY TypeFacts, PacketFacts
<1>2. PICK r : r = UpdateTcp(s, m.event, m.state)
  OBVIOUS
<1>3. ASSUME NEW q, NEW act, r = <<q, act>>, act # "DoAppClose"
      PROVE  Handle(e, m, q, act)
  BY <1>2, <1>3 DEF Receive, Handle
<1>4. ASSUME r = <<"CloseResponderGotFin", "DoAppClose">>
      PROVE  Handle(e, m, "Closed", "DoAppClose")
  <2>1. UpdateTcp("CloseResponderGotFin", "ApplicationClosed", "Fresh")[1] = "Closed"
    BY DEF UpdateTcp, Open
  <2>2. r[1] = "CloseResponderGotFin" /\ r[2] = "DoAppClose"
    BY <1>4
  <2> QED BY <1>2, <2>1, <2>2 DEF Receive, Handle
<1>5. ASSUME s = "Closed", r = <<"Closed", "SendFinAck">>
      PROVE  FALSE
  BY <1>3, <1>5 DEF Handle, DoTcpAction
<1> QED BY <1>1, <1>2, <1>3, <1>4, <1>5, UpdateTcpIs

\* A state that is not repeated ends the retry; the tries stay counted.
LEMMA RetryEnds ==
  ASSUME TypeOK, NEW e \in Endpoint, NEW act, NEW nonce,
         NEW post \in {"Established", "Closed"}, post # TcpState[e],
         SetupRetry(e, post, act, nonce)
  PROVE  /\ retry' \in [Endpoint -> RetryType]
         /\ \A f \in Endpoint : f # e => retry'[f] = retry[f]
         /\ ~retry'[e].inUse /\ retry'[e].nonce = NoNonce
<1>1. retry \in [Endpoint -> RetryType]
  BY DEF TypeOK, RetryType
<1>2. retry' = [retry EXCEPT ![e] = [@ EXCEPT !.inUse = FALSE, !.nonce = NoNonce]]
  BY DEF SetupRetry, isRetryState
<1> QED BY <1>1, <1>2, NonceFacts DEF RetryType

\* The answer to a SYN will be repeated, to the session it was for.
LEMMA RetryStarts ==
  ASSUME TypeOK, NEW e \in Endpoint, NEW act \in Action, NEW nonce \in Nonce,
         TcpState[e] # "SynReceived", SetupRetry(e, "SynReceived", act, nonce)
  PROVE  /\ retry' \in [Endpoint -> RetryType]
         /\ \A f \in Endpoint : f # e => retry'[f] = retry[f]
         /\ retry'[e].curState = "SynReceived" /\ retry'[e].act = act
         /\ retry'[e].nonce = nonce /\ retry'[e].attemptCount = retry[e].attemptCount
<1>1. retry \in [Endpoint -> RetryType]
  BY DEF TypeOK, RetryType
<1>2. retry' = [retry EXCEPT ![e] = [@ EXCEPT !.inUse = TRUE, !.curState = "SynReceived",
                                              !.act = act, !.nonce = nonce]]
  BY DEF SetupRetry, isRetryState
<1>3. "SynReceived" \in State
  BY DEF State
<1> QED BY <1>1, <1>2, <1>3, NonceFacts DEF RetryType

\* The client's request is answered, or its loop panics because it cannot be.
LEMMA SendEstabAckOutcomes ==
  ASSUME TypeOK, NEW e \in Endpoint, NEW nonce \in Nonce, NEW arrived,
         SendEstabAck(e, nonce, arrived)
  PROVE  /\ RemoteSessNonce' \in [Endpoint -> Nonce \cup {NoNonce}]
         /\ connReqPending' \in [Endpoint -> Request] /\ sendSyn' \in [Endpoint -> Request]
         /\ conn' \in [Endpoint -> {"idle", "waiting", "timedOut", "failed", "connected"}]
         /\ connNonce' \in [Endpoint -> Nonce \cup {NoNonce}]
         /\ down' \in [Endpoint -> {"no", "stopping", "stopped", "closed", "panic"}]
         /\ \A f \in Endpoint : f # e =>
              /\ RemoteSessNonce'[f] = RemoteSessNonce[f] /\ down'[f] = down[f]
              /\ connReqPending'[f] = connReqPending[f] /\ sendSyn'[f] = sendSyn[f]
         /\ sendSyn'[e] # "none" => sendSyn[e] # "none"
         /\ \/ /\ RemoteSessNonce[e] # NoNonce \/ connReqPending[e] # "open"
               /\ down'[e] = "panic" /\ RemoteSessNonce' = RemoteSessNonce
               /\ connReqPending' = connReqPending /\ net' = arrived
            \/ /\ RemoteSessNonce[e] = NoNonce /\ RemoteSessNonce'[e] = nonce
               /\ connReqPending'[e] = "none" /\ down' = down
               /\ net' = arrived \cup {NewPacket(e, "EstabAck", nonce)}
<1>1. CASE RemoteSessNonce[e] # NoNonce \/ connReqPending[e] # "open"
  <2>1. Panic(e, arrived)
    BY <1>1 DEF SendEstabAck
  <2>2. /\ net' = arrived /\ down' = [down EXCEPT ![e] = "panic"]
        /\ UNCHANGED <<RemoteSessNonce, connReqPending, sendSyn, conn, connNonce>>
    BY <2>1 DEF Panic, reqVars
  <2>3. /\ RemoteSessNonce \in [Endpoint -> Nonce \cup {NoNonce}]
        /\ connReqPending \in [Endpoint -> Request] /\ sendSyn \in [Endpoint -> Request]
        /\ conn \in [Endpoint -> {"idle", "waiting", "timedOut", "failed", "connected"}]
        /\ connNonce \in [Endpoint -> Nonce \cup {NoNonce}]
        /\ down'[e] = "panic"
    BY <2>2 DEF TypeOK
  <2>4. /\ \A f \in Endpoint : f # e => down'[f] = down[f]
        /\ down' \in [Endpoint -> {"no", "stopping", "stopped", "closed", "panic"}]
    BY <2>2 DEF TypeOK
  <2> QED BY <1>1, <2>2, <2>3, <2>4
<1>2. CASE ~(RemoteSessNonce[e] # NoNonce \/ connReqPending[e] # "open")
  <2>1. /\ RemoteSessNonce' = [RemoteSessNonce EXCEPT ![e] = nonce]
        /\ connReqPending' = [connReqPending EXCEPT ![e] = "none"]
        /\ sendSyn' = [sendSyn EXCEPT ![e] = IF @ = "open" THEN "closed" ELSE @]
        /\ IF conn[e] = "waiting"
           THEN /\ conn' = [conn EXCEPT ![e] = "connected"]
                /\ connNonce' = [connNonce EXCEPT ![e] = nonce]
           ELSE UNCHANGED <<conn, connNonce>>
        /\ net' = arrived \cup {NewPacket(e, "EstabAck", nonce)}
        /\ UNCHANGED down
    BY <1>2 DEF SendEstabAck
  <2>2. /\ RemoteSessNonce' \in [Endpoint -> Nonce \cup {NoNonce}]
        /\ connReqPending' \in [Endpoint -> Request] /\ sendSyn' \in [Endpoint -> Request]
    <3>1. RemoteSessNonce' \in [Endpoint -> Nonce \cup {NoNonce}]
      BY <2>1 DEF TypeOK
    <3>2. connReqPending' \in [Endpoint -> Request]
      BY <2>1 DEF TypeOK, Request
    <3>3. sendSyn' \in [Endpoint -> Request]
      <4>1. sendSyn \in [Endpoint -> Request]
        BY DEF TypeOK
      <4>2. (IF sendSyn[e] = "open" THEN "closed" ELSE sendSyn[e]) \in Request
        BY <4>1 DEF Request
      <4> QED BY <2>1, <4>1, <4>2
    <3> QED BY <3>1, <3>2, <3>3
  <2>3. /\ conn' \in [Endpoint -> {"idle", "waiting", "timedOut", "failed", "connected"}]
        /\ connNonce' \in [Endpoint -> Nonce \cup {NoNonce}]
    <3>1. /\ conn \in [Endpoint -> {"idle", "waiting", "timedOut", "failed", "connected"}]
          /\ connNonce \in [Endpoint -> Nonce \cup {NoNonce}]
      BY DEF TypeOK
    <3>2. CASE conn[e] = "waiting"
      BY <2>1, <3>1, <3>2
    <3>3. CASE conn[e] # "waiting"
      BY <2>1, <3>1, <3>3
    <3> QED BY <3>2, <3>3
  <2>4. sendSyn'[e] # "none" => sendSyn[e] # "none"
    BY <2>1 DEF TypeOK
  <2> QED BY <1>2, <2>1, <2>2, <2>3, <2>4 DEF TypeOK
<1> QED BY <1>1, <1>2

LEMMA SendSynAckOutcome ==
  ASSUME TypeOK, NEW e \in Endpoint, NEW nonce \in Nonce, NEW arrived,
         RemoteSessNonce[e] = NoNonce, SendSynAck(e, nonce, arrived)
  PROVE  /\ RemoteSessNonce' \in [Endpoint -> Nonce \cup {NoNonce}]
         /\ \A f \in Endpoint : f # e => RemoteSessNonce'[f] = RemoteSessNonce[f]
         /\ RemoteSessNonce'[e] = nonce
         /\ net' = arrived \cup {NewPacket(e, "SynAck", nonce)}
         /\ UNCHANGED <<connReqPending, sendSyn, conn, connNonce, down>>
  BY DEF SendSynAck, TypeOK, reqVars

\* A state that is moved, and the types of what Handle leaves alone.
LEMMA MoveType ==
  ASSUME TypeOK, NEW e \in Endpoint, NEW post \in State,
         TcpState' = [TcpState EXCEPT ![e] = post],
         UNCHANGED <<LocalSessNonce, connects, losses, synFailures, probed>>,
         net' \subseteq Packet, retry' \in [Endpoint -> RetryType],
         RemoteSessNonce' \in [Endpoint -> Nonce \cup {NoNonce}],
         connReqPending' \in [Endpoint -> Request], sendSyn' \in [Endpoint -> Request],
         conn' \in [Endpoint -> {"idle", "waiting", "timedOut", "failed", "connected"}],
         connNonce' \in [Endpoint -> Nonce \cup {NoNonce}],
         down' \in [Endpoint -> {"no", "stopping", "stopped", "closed", "panic"}]
  PROVE  TypeOK' /\ TcpState'[e] = post
         /\ \A f \in Endpoint : f # e => TcpState'[f] = TcpState[f]
  BY DEF TypeOK, RetryType

\* What the recvloop knows of a packet it accepts.
LEMMA AcceptedFacts ==
  ASSUME SessionInv, NEW e \in Endpoint, NEW m \in net, Receive(e, m)
  PROVE  /\ TypeOK /\ SessionOf(e) /\ MutualOf(e) /\ Truthful(m)
         /\ m.from = Peer(e) /\ m.nonce \in Nonce /\ m.nonce <= LocalSessNonce[Peer(e)]
         /\ m.dest # NoNonce => m.dest = LocalSessNonce[e]
         /\ RemoteSessNonce[e] # NoNonce => m.nonce = RemoteSessNonce[e]
         /\ Live(e) /\ down[e] # "panic"
         /\ Arrived(m) \subseteq net /\ Arrived(m) \subseteq Packet
         /\ UNCHANGED <<LocalSessNonce, connects, losses, synFailures, probed>>
<1>1. TypeOK /\ SessionOf(e) /\ MutualOf(e) /\ Truthful(m)
  BY DEF SessionInv
<1>2. m.from = Peer(e) /\ Accepts(e, m) /\ Live(e)
      /\ UNCHANGED <<LocalSessNonce, connects, losses, synFailures, probed>>
  BY DEF Receive
<1>3. m.nonce \in Nonce /\ m.nonce <= LocalSessNonce[Peer(e)]
  BY <1>1, <1>2, PacketFacts DEF Truthful
<1>4. Arrived(m) \subseteq net /\ Arrived(m) \subseteq Packet
  BY <1>1 DEF Arrived, TypeOK
<1> QED BY <1>1, <1>2, <1>3, <1>4 DEF Accepts, Live

\* A Listen session gets a SYN: it learns its peer and answers.
LEMMA SynKeeps ==
  ASSUME SessionInv, NEW e \in Endpoint, NEW m \in net, Receive(e, m),
         TcpState[e] = "Listen", Handle(e, m, "SynReceived", "SendSynAck")
  PROVE  SessionInv'
<1>1. /\ TypeOK /\ SessionOf(e) /\ m.nonce \in Nonce /\ m.nonce <= LocalSessNonce[Peer(e)]
      /\ down[e] # "panic" /\ Arrived(m) \subseteq net /\ Arrived(m) \subseteq Packet
      /\ UNCHANGED <<LocalSessNonce, connects, losses, synFailures, probed>>
  BY AcceptedFacts
<1>2. RemoteSessNonce[e] = NoNonce /\ retry[e].attemptCount = 0 /\ ~retry[e].inUse
  BY <1>1 DEF SessionOf, PeerIsKnown, RetryIsCurrent
<1>3. /\ TcpState' = [TcpState EXCEPT ![e] = "SynReceived"]
      /\ SetupRetry(e, "SynReceived", "SendSynAck", m.nonce)
      /\ SendSynAck(e, m.nonce, Arrived(m))
  BY DEF Handle, DoTcpAction
<1>4. /\ retry' \in [Endpoint -> RetryType]
      /\ \A f \in Endpoint : f # e => retry'[f] = retry[f]
      /\ retry'[e].curState = "SynReceived" /\ retry'[e].act = "SendSynAck"
      /\ retry'[e].nonce = m.nonce /\ retry'[e].attemptCount = 0
  BY <1>1, <1>2, <1>3, RetryStarts DEF Action
<1>5. /\ RemoteSessNonce' \in [Endpoint -> Nonce \cup {NoNonce}]
      /\ \A f \in Endpoint : f # e => RemoteSessNonce'[f] = RemoteSessNonce[f]
      /\ RemoteSessNonce'[e] = m.nonce
      /\ net' = Arrived(m) \cup {NewPacket(e, "SynAck", m.nonce)}
      /\ UNCHANGED <<connReqPending, sendSyn, conn, connNonce, down>>
  BY <1>1, <1>2, <1>3, SendSynAckOutcome
<1>6. PICK p : p = NewPacket(e, "SynAck", m.nonce)
  OBVIOUS
<1>7. p \in Packet
  BY <1>1, <1>6, NewPacketFacts DEF Event
<1>8. TypeOK' /\ TcpState'[e] = "SynReceived" /\ \A f \in Endpoint : f # e => TcpState'[f] = TcpState[f]
  <2>1. net' \subseteq Packet /\ "SynReceived" \in State
    BY <1>1, <1>5, <1>6, <1>7 DEF State
  <2>2. /\ connReqPending' \in [Endpoint -> Request] /\ sendSyn' \in [Endpoint -> Request]
        /\ conn' \in [Endpoint -> {"idle", "waiting", "timedOut", "failed", "connected"}]
        /\ connNonce' \in [Endpoint -> Nonce \cup {NoNonce}]
        /\ down' \in [Endpoint -> {"no", "stopping", "stopped", "closed", "panic"}]
    BY <1>1, <1>5 DEF TypeOK
  <2> QED BY <1>1, <1>3, <1>4, <1>5, <2>1, <2>2, MoveType
<1>9. Truthful(p)'
  BY <1>1, <1>5, <1>6, <1>8, AnswerIsTruthful DEF Joined
<1>10. OthersStay(e)
  BY <1>1, <1>4, <1>5, <1>8 DEF OthersStay
<1>11. GoesOn(e)
  BY <1>1, <1>2 DEF GoesOn, Joined
<1>12. NoncesAreOld(e)'
  BY <1>1, <1>4, <1>5 DEF NoncesAreOld
<1>13. PeerIsKnown(e)'
  BY <1>1, <1>5, <1>8, NonceFacts DEF PeerIsKnown
<1>14. RetryIsCurrent(e)'
  BY <1>4, <1>5, <1>8, HandshakeAssumption DEF RetryIsCurrent
<1>15. RequestIsPending(e)'
  BY <1>1, <1>5, <1>8 DEF SessionOf, RequestIsPending
<1>16. MutualOf(e)'
  BY <1>8 DEF MutualOf
<1> DEFINE P == {p}
<1>17. net' \subseteq net \cup P /\ \A q \in P : Truthful(q)'
  BY <1>1, <1>5, <1>6, <1>9
<1> HIDE DEF P
<1> QED BY <1>8, <1>10, <1>11, <1>12, <1>13, <1>14, <1>15, <1>16, <1>17, StepKeeps DEF SessionOf

\* A SynReceived session hears that its peer is Established with it.
LEMMA EstabKeeps ==
  ASSUME SessionInv, NEW e \in Endpoint, NEW m \in net, Receive(e, m),
         TcpState[e] = "SynReceived",
         m.event = "EstabAck" \/ (m.event = "KeepAlive" /\ m.state = "Established"),
         Handle(e, m, "Established", "NoAction")
  PROVE  SessionInv'
<1>1. /\ TypeOK /\ SessionOf(e) /\ Truthful(m) /\ m.from = Peer(e)
      /\ m.dest # NoNonce => m.dest = LocalSessNonce[e]
      /\ RemoteSessNonce[e] # NoNonce => m.nonce = RemoteSessNonce[e]
      /\ down[e] # "panic" /\ Arrived(m) \subseteq net /\ Arrived(m) \subseteq Packet
      /\ UNCHANGED <<LocalSessNonce, connects, losses, synFailures, probed>>
  BY AcceptedFacts
<1>2. RemoteSessNonce[e] # NoNonce
  BY <1>1 DEF SessionOf, PeerIsKnown
<1>3. /\ TcpState' = [TcpState EXCEPT ![e] = "Established"]
      /\ SetupRetry(e, "Established", "NoAction", m.nonce)
      /\ net' = Arrived(m)
      /\ UNCHANGED <<RemoteSessNonce, connReqPending, sendSyn, conn, connNonce, down>>
  BY DEF Handle, DoTcpAction, reqVars
<1>4. /\ retry' \in [Endpoint -> RetryType]
      /\ \A f \in Endpoint : f # e => retry'[f] = retry[f]
      /\ ~retry'[e].inUse /\ retry'[e].nonce = NoNonce
  BY <1>1, <1>3, RetryEnds
<1>5. TypeOK' /\ TcpState'[e] = "Established" /\ \A f \in Endpoint : f # e => TcpState'[f] = TcpState[f]
  <2>1. net' \subseteq Packet /\ "Established" \in State
    BY <1>1, <1>3 DEF State
  <2>2. /\ RemoteSessNonce' \in [Endpoint -> Nonce \cup {NoNonce}]
        /\ connReqPending' \in [Endpoint -> Request] /\ sendSyn' \in [Endpoint -> Request]
        /\ conn' \in [Endpoint -> {"idle", "waiting", "timedOut", "failed", "connected"}]
        /\ connNonce' \in [Endpoint -> Nonce \cup {NoNonce}]
        /\ down' \in [Endpoint -> {"no", "stopping", "stopped", "closed", "panic"}]
    BY <1>1, <1>3 DEF TypeOK
  <2> QED BY <1>1, <1>3, <1>4, <2>1, <2>2, MoveType
<1>6. OthersStay(e)
  BY <1>1, <1>3, <1>4, <1>5 DEF OthersStay
<1>7. GoesOn(e)
  BY <1>1, <1>3, <1>5 DEF GoesOn, Joined
<1>8. NoncesAreOld(e)'
  <2>1. LocalSessNonce[Peer(e)] \in Nat
    BY <1>1, PeerFacts, TypeFacts
  <2> QED BY <1>1, <1>3, <1>4, <2>1 DEF SessionOf, NoncesAreOld, NoNonce
<1>9. PeerIsKnown(e)' /\ RetryIsCurrent(e)'
  BY <1>2, <1>3, <1>4, <1>5 DEF PeerIsKnown, RetryIsCurrent
<1>10. RequestIsPending(e)'
  BY <1>1, <1>3, <1>5 DEF SessionOf, RequestIsPending
<1>11. MutualOf(e)'
  <2> SUFFICES ASSUME RemoteSessNonce[e] = LocalSessNonce[Peer(e)]
               PROVE  RemoteSessNonce[Peer(e)] = LocalSessNonce[e] /\ TcpState[Peer(e)] \in Joined
    BY <1>1, <1>2, <1>3, <1>5, PeerFacts DEF MutualOf
  <2>1. SpeaksOf(m, Joined)
    BY <1>1, <1>2 DEF Truthful
  <2> QED BY <1>1, <2>1 DEF SpeaksOf
<1> DEFINE none == {}
<1>12. net' \subseteq net \cup none /\ \A p \in none : Truthful(p)'
  BY <1>1, <1>3
<1> HIDE DEF none
<1> QED BY <1>5, <1>6, <1>7, <1>8, <1>9, <1>10, <1>11, <1>12, StepKeeps DEF SessionOf

\* A SynSent session gets the answer to its SYN, or a SYN of its peer's own: it
\* answers its connect request, if that is still open.
LEMMA SynAckKeeps ==
  ASSUME SessionInv, NEW e \in Endpoint, NEW m \in net, Receive(e, m), TcpState[e] = "SynSent",
         NEW post, \/ m.event = "SynAck" /\ post = "Established"
                   \/ m.event = "Syn" /\ post = "SynReceived",
         Handle(e, m, post, "SendEstabAck")
  PROVE  SessionInv'
<1>1. /\ TypeOK /\ SessionOf(e) /\ Truthful(m) /\ m.from = Peer(e)
      /\ m.nonce \in Nonce /\ m.nonce <= LocalSessNonce[Peer(e)]
      /\ m.dest # NoNonce => m.dest = LocalSessNonce[e]
      /\ down[e] # "panic" /\ Arrived(m) \subseteq net /\ Arrived(m) \subseteq Packet
      /\ UNCHANGED <<LocalSessNonce, connects, losses, synFailures, probed>>
  BY AcceptedFacts
<1>2. /\ RemoteSessNonce[e] = NoNonce /\ retry[e].attemptCount = 0 /\ ~retry[e].inUse
      /\ e \in Openers /\ connReqPending[e] # "none"
      /\ connReqPending[e] = "closed" => synFailures[e] > 0
  BY <1>1 DEF SessionOf, PeerIsKnown, RetryIsCurrent, RequestIsPending
<1>3. /\ TcpState' = [TcpState EXCEPT ![e] = post]
      /\ SetupRetry(e, post, "SendEstabAck", m.nonce)
      /\ SendEstabAck(e, m.nonce, Arrived(m))
  BY DEF Handle, DoTcpAction
<1>4. /\ retry' \in [Endpoint -> RetryType]
      /\ \A f \in Endpoint : f # e => retry'[f] = retry[f]
      /\ retry'[e].nonce \in {NoNonce, m.nonce}
      /\ post = "Established" => ~retry'[e].inUse
      /\ post = "SynReceived" => /\ retry'[e].curState = "SynReceived"
                                 /\ retry'[e].act = "SendEstabAck"
                                 /\ retry'[e].attemptCount = 0
  <2>1. CASE post = "Established"
    BY <1>1, <1>3, <2>1, RetryEnds
  <2>2. CASE post = "SynReceived"
    BY <1>1, <1>2, <1>3, <2>2, RetryStarts DEF Action
  <2> QED BY <2>1, <2>2
<1>5. /\ RemoteSessNonce' \in [Endpoint -> Nonce \cup {NoNonce}]
      /\ connReqPending' \in [Endpoint -> Request] /\ sendSyn' \in [Endpoint -> Request]
      /\ conn' \in [Endpoint -> {"idle", "waiting", "timedOut", "failed", "connected"}]
      /\ connNonce' \in [Endpoint -> Nonce \cup {NoNonce}]
      /\ down' \in [Endpoint -> {"no", "stopping", "stopped", "closed", "panic"}]
      /\ \A f \in Endpoint : f # e =>
           /\ RemoteSessNonce'[f] = RemoteSessNonce[f] /\ down'[f] = down[f]
           /\ connReqPending'[f] = connReqPending[f] /\ sendSyn'[f] = sendSyn[f]
      /\ \/ /\ connReqPending[e] # "open"
            /\ down'[e] = "panic" /\ RemoteSessNonce' = RemoteSessNonce
            /\ connReqPending' = connReqPending /\ net' = Arrived(m)
         \/ /\ RemoteSessNonce'[e] = m.nonce
            /\ connReqPending'[e] = "none" /\ down' = down
            /\ net' = Arrived(m) \cup {NewPacket(e, "EstabAck", m.nonce)}
  BY <1>1, <1>2, <1>3, SendEstabAckOutcomes
<1>6. PICK p : p = NewPacket(e, "EstabAck", m.nonce)
  OBVIOUS
<1>7. p \in Packet
  BY <1>1, <1>6, NewPacketFacts DEF Event
<1>8. TypeOK' /\ TcpState'[e] = post /\ \A f \in Endpoint : f # e => TcpState'[f] = TcpState[f]
  <2>1. net' \subseteq Packet /\ post \in State
    BY <1>1, <1>5, <1>6, <1>7 DEF State
  <2> QED BY <1>1, <1>3, <1>4, <1>5, <2>1, MoveType
<1>9. RemoteSessNonce'[e] = m.nonce => Truthful(p)'
  BY <1>1, <1>6, <1>8, AnswerIsTruthful DEF Joined
<1>10. OthersStay(e)
  BY <1>1, <1>4, <1>5, <1>8 DEF OthersStay
<1>11. GoesOn(e)
  BY <1>1, <1>2 DEF GoesOn, Joined
<1>12. NoncesAreOld(e)'
  <2>1. LocalSessNonce[Peer(e)] \in Nat /\ m.nonce \in Nat
    BY <1>1, PeerFacts, TypeFacts, NonceFacts
  <2>2. RemoteSessNonce'[e] \in {NoNonce, m.nonce}
    BY <1>2, <1>5
  <2> QED BY <1>1, <1>4, <2>1, <2>2 DEF NoncesAreOld, NoNonce
<1>13. PeerIsKnown(e)'
  BY <1>1, <1>5, <1>8, NonceFacts DEF PeerIsKnown
<1>14. RetryIsCurrent(e)'
  <2>1. post = "SynReceived" => ~OneOpener
    <3>1. post = "SynReceived" => Peer(e) \in Openers
      BY <1>1 DEF Truthful
    <3> QED BY <1>2, <3>1, PeerFacts, HandshakeAssumption DEF OneOpener
  <2> QED BY <1>4, <1>8, <2>1, HandshakeAssumption DEF RetryIsCurrent
<1>15. RequestIsPending(e)'
  <2>1. connReqPending[e] # "open" => synFailures[e] > 0
    BY <1>1, <1>2 DEF TypeOK, Request
  <2>2. connReqPending'[e] = "closed" \/ down'[e] = "panic" => synFailures'[e] > 0
    BY <1>1, <1>5, <2>1
  <2> QED BY <1>2, <1>8, <2>2 DEF RequestIsPending
<1>16. MutualOf(e)'
  <2> SUFFICES ASSUME post = "Established", down'[e] # "panic"
               PROVE  /\ RemoteSessNonce'[e] # NoNonce
                      /\ RemoteSessNonce'[e] = LocalSessNonce[Peer(e)] =>
                           /\ RemoteSessNonce[Peer(e)] = LocalSessNonce[e]
                           /\ TcpState[Peer(e)] \in Joined
    BY <1>1, <1>5, <1>8, PeerFacts DEF MutualOf
  <2>1. RemoteSessNonce'[e] = m.nonce
    BY <1>5
  <2>2. m.nonce = LocalSessNonce[Peer(e)] => SpeaksOf(m, Joined)
    BY <1>1 DEF Truthful
  <2> QED BY <1>1, <2>1, <2>2, NonceFacts DEF SpeaksOf
<1>17. \E Q \in SUBSET Packet : net' \subseteq net \cup Q /\ \A q \in Q : Truthful(q)'
  <2>1. CASE RemoteSessNonce'[e] = m.nonce
    <3>1. {p} \in SUBSET Packet
      BY <1>7
    <3> WITNESS {p} \in SUBSET Packet
    <3> QED BY <1>1, <1>5, <1>6, <1>9, <2>1
  <2>2. CASE RemoteSessNonce'[e] # m.nonce
    <3>1. net' \subseteq net
      BY <1>1, <1>5, <2>2
    <3> WITNESS {} \in SUBSET Packet
    <3> QED BY <3>1
  <2> QED BY <2>1, <2>2
<1> QED BY <1>8, <1>10, <1>11, <1>12, <1>13, <1>14, <1>15, <1>16, <1>17, StepKeeps DEF SessionOf

\* A Fin closes the session, and its loop ends.
LEMMA FinKeeps ==
  ASSUME SessionInv, NEW e \in Endpoint, NEW m \in net, Receive(e, m), TcpState[e] # "Closed",
         NEW act \in {"DoAppClose", "NoAction"}, Handle(e, m, "Closed", act)
  PROVE  SessionInv'
<1>1. /\ TypeOK /\ SessionOf(e)
      /\ down[e] # "panic" /\ Arrived(m) \subseteq net /\ Arrived(m) \subseteq Packet
      /\ UNCHANGED <<LocalSessNonce, connects, losses, synFailures, probed>>
  BY AcceptedFacts
<1>2. PICK p : p = NewPacket(e, "FinAck", RemoteSessNonce[e])
  OBVIOUS
<1>3. p \in Packet /\ Truthful(p)'
  BY <1>1, <1>2, TypeFacts, PlainPacketIsTruthful
<1>4. /\ TcpState' = [TcpState EXCEPT ![e] = "Closed"]
      /\ SetupRetry(e, "Closed", act, m.nonce)
      /\ net' \subseteq Arrived(m) \cup {p}
      /\ UNCHANGED <<RemoteSessNonce, connReqPending, sendSyn, conn, connNonce>>
      /\ down' = down \/ down' = [down EXCEPT ![e] = "closed"]
  BY <1>2 DEF Handle, DoTcpAction, reqVars
<1>5. /\ retry' \in [Endpoint -> RetryType]
      /\ \A f \in Endpoint : f # e => retry'[f] = retry[f]
      /\ ~retry'[e].inUse /\ retry'[e].nonce = NoNonce
  BY <1>1, <1>4, RetryEnds
<1>6. /\ down' \in [Endpoint -> {"no", "stopping", "stopped", "closed", "panic"}]
      /\ \A f \in Endpoint : f # e => down'[f] = down[f]
      /\ down'[e] # "panic"
  BY <1>1, <1>4 DEF TypeOK
<1>7. TypeOK' /\ TcpState'[e] = "Closed" /\ \A f \in Endpoint : f # e => TcpState'[f] = TcpState[f]
  <2>1. net' \subseteq Packet /\ "Closed" \in State
    BY <1>1, <1>3, <1>4 DEF State
  <2>2. /\ RemoteSessNonce' \in [Endpoint -> Nonce \cup {NoNonce}]
        /\ connReqPending' \in [Endpoint -> Request] /\ sendSyn' \in [Endpoint -> Request]
        /\ conn' \in [Endpoint -> {"idle", "waiting", "timedOut", "failed", "connected"}]
        /\ connNonce' \in [Endpoint -> Nonce \cup {NoNonce}]
    BY <1>1, <1>4 DEF TypeOK
  <2> QED BY <1>1, <1>4, <1>5, <1>6, <2>1, <2>2, MoveType
<1>8. OthersStay(e)
  BY <1>1, <1>4, <1>5, <1>6, <1>7 DEF OthersStay
<1>9. GoesOn(e)
  BY <1>1, <1>4, <1>7 DEF GoesOn, Joined
<1>10. NoncesAreOld(e)'
  <2>1. LocalSessNonce[Peer(e)] \in Nat
    BY <1>1, PeerFacts, TypeFacts
  <2> QED BY <1>1, <1>4, <1>5, <2>1 DEF SessionOf, NoncesAreOld, NoNonce
<1>11. PeerIsKnown(e)' /\ RetryIsCurrent(e)' /\ MutualOf(e)'
  BY <1>5, <1>7 DEF PeerIsKnown, RetryIsCurrent, MutualOf
<1>12. RequestIsPending(e)'
  BY <1>1, <1>4, <1>6, <1>7 DEF SessionOf, RequestIsPending
<1> DEFINE P == {p}
<1>13. net' \subseteq net \cup P /\ \A q \in P : Truthful(q)'
  BY <1>1, <1>3, <1>4
<1> HIDE DEF P
<1> QED BY <1>7, <1>8, <1>9, <1>10, <1>11, <1>12, <1>13, StepKeeps DEF SessionOf

\* A packet that changes no state: a keepalive, an old packet of the handshake.
LEMMA NoActionKeeps ==
  ASSUME SessionInv, NEW e \in Endpoint, NEW m \in net, Receive(e, m),
         NEW act \in {"NoAction", "SendDataAck"}, Handle(e, m, TcpState[e], act)
  PROVE  SessionInv'
<1>1. /\ TypeOK /\ Arrived(m) \subseteq net
      /\ UNCHANGED <<LocalSessNonce, connects, losses, synFailures, probed>>
  BY AcceptedFacts
<1>2. TcpState' = TcpState /\ retry' = retry
  BY <1>1 DEF Handle, SetupRetry, TypeOK
<1>3. /\ net' = Arrived(m)
      /\ UNCHANGED <<RemoteSessNonce, connReqPending, sendSyn, conn, connNonce, down>>
  BY DEF Handle, DoTcpAction, reqVars
<1>4. TypeOK' /\ net' \subseteq net
  BY <1>1, <1>2, <1>3 DEF TypeOK
<1> QED BY <1>1, <1>2, <1>3, <1>4, IdleStep DEF reqVars

LEMMA ReceiveKeeps ==
  ASSUME SessionInv, NEW e \in Endpoint, NEW m \in net, Receive(e, m)
  PROVE  SessionInv'
<1> DEFINE s == TcpState[e]
<1>1. TypeOK
  BY DEF SessionInv
<1>2. CASE Handle(e, m, s, "NoAction") \/ Handle(e, m, s, "SendDataAck")
  BY <1>2, NoActionKeeps
<1>3. CASE s \in Open /\ m.event = "Fin" /\ Handle(e, m, "Closed", "DoAppClose")
  BY <1>3, FinKeeps DEF Open
<1>4. CASE s = "CloseInitiatorHasSentFin" /\ Handle(e, m, "Closed", "NoAction")
  BY <1>4, FinKeeps
<1>5. CASE s = "Listen" /\ m.event = "Syn" /\ Handle(e, m, "SynReceived", "SendSynAck")
  BY <1>5, SynKeeps
<1>6. CASE /\ s = "SynReceived"
           /\ m.event = "EstabAck" \/ (m.event = "KeepAlive" /\ m.state = "Established")
           /\ Handle(e, m, "Established", "NoAction")
  BY <1>6, EstabKeeps
<1>7. CASE s = "SynSent" /\ m.event = "SynAck" /\ Handle(e, m, "Established", "SendEstabAck")
  BY <1>7, SynAckKeeps
<1>8. CASE s = "SynSent" /\ m.event = "Syn" /\ Handle(e, m, "SynReceived", "SendEstabAck")
  BY <1>8, SynAckKeeps
<1> QED BY <1>1, <1>2, <1>3, <1>4, <1>5, <1>6, <1>7, <1>8, ReceiveOutcomes

-----------------------------------------------------------------------------
(* The theorems. *)

LEMMA InitSessionInv == Init => SessionInv
<1> SUFFICES ASSUME Init PROVE SessionInv
  OBVIOUS
<1>1. NoRetry \in RetryType
  BY HandshakeAssumption, NonceFacts DEF NoRetry, RetryType, State, Action
<1>2. 1 \in Nonce /\ 1 \in Nat
  BY DEF Nonce, NoNonce
<1>3. TypeOK
  BY <1>1, <1>2, NonceFacts DEF Init, TypeOK, RetryType, State, Request
<1>4. ASSUME NEW e \in Endpoint
      PROVE  /\ LocalSessNonce[e] = 1 /\ LocalSessNonce[Peer(e)] = 1
             /\ TcpState[e] = "Listen" /\ RemoteSessNonce[e] = NoNonce /\ retry[e] = NoRetry
             /\ down[e] = "no" /\ sendSyn[e] = "none" /\ connReqPending[e] = "none"
  BY PeerFacts DEF Init
<1>5. ASSUME NEW e \in Endpoint
      PROVE  SessionOf(e) /\ MutualOf(e)
  <2>1. NoncesAreOld(e)
    BY <1>4 DEF NoncesAreOld, NoRetry, NoNonce
  <2>2. PeerIsKnown(e) /\ RetryIsCurrent(e) /\ RequestIsPending(e) /\ MutualOf(e)
    BY <1>4 DEF PeerIsKnown, RetryIsCurrent, RequestIsPending, MutualOf, NoRetry
  <2> QED BY <2>1, <2>2 DEF SessionOf
<1> QED BY <1>3, <1>5 DEF SessionInv, Init

\* What every packet says of its sender, and every session knows of its peer,
\* stays true through losses, duplicates, retries and restarts (recv.go:382-392,
\* 698-760, retry.go:30-76).
THEOREM SessionCorrect == Spec => []SessionInv
<1>1. Init => SessionInv
  BY InitSessionInv
<1>2. SessionInv /\ [Next]_vars => SessionInv'
  <2> SUFFICES ASSUME SessionInv, [Next]_vars PROVE SessionInv'
    OBVIOUS
  <2>1. ASSUME NEW e \in Endpoint,
               \/ Connect(e) \/ ConnectTimeout(e) \/ KeepAlive(e) \/ RetryCheck(e) \/ Exit(e)
               \/ Close(e) \/ Restart(e) \/ SynIsSent(e) \/ SynFails(e)
        PROVE  SessionInv'
    BY <2>1, ConnectKeeps, ConnectTimeoutKeeps, KeepAliveKeeps, RetryCheckKeeps, ExitKeeps,
       CloseKeeps, RestartKeeps, SynIsSentKeeps, SynFailsKeeps
  <2>2. ASSUME NEW e \in Endpoint, NEW m \in net, Receive(e, m) \/ Refuse(e, m)
        PROVE  SessionInv'
    BY <2>2, ReceiveKeeps, RefuseKeeps
  <2>3. ASSUME NEW m \in net, Lose(m)
        PROVE  SessionInv'
    BY <2>3, LoseKeeps
  <2>4. CASE UNCHANGED vars
    BY <2>4, StutterKeeps
  <2> QED BY <2>1, <2>2, <2>3, <2>4 DEF Next
<1> QED BY <1>1, <1>2, PTL DEF Spec

\* Every field has its type, and no session counts more than MaxAttempts + 1
\* tries, although nothing ever resets the count (retry.go:38-47).
THEOREM HandshakeTypeCorrect == Spec => []TypeOK
<1>1. SessionInv => TypeOK
  BY DEF SessionInv
<1> QED BY <1>1, SessionCorrect, PTL

\* A session is Established only with the session of its peer that knows it,
\* whoever connects, crashes or repeats a packet (recv.go:382-392, tcp.go:105-144).
THEOREM MutualCorrect == Spec => []EstablishedIsMutual
<1>1. SessionInv => EstablishedIsMutual
  BY DEF SessionInv, MutualOf, EstablishedIsMutual, Joined
<1> QED BY <1>1, SessionCorrect, PTL

\* Where one end alone connects, a loop panics only once one of its SYNs failed
\* (sender.go:398-403, recv.go:719-742).  In a simultaneous open it may panic.
THEOREM PanicsExplained ==
  ASSUME OneOpener
  PROVE  Spec => []PanicsOnlyOnFailedSyn
<1>1. SessionInv => PanicsOnlyOnFailedSyn
  BY DEF SessionInv, SessionOf, RequestIsPending, PanicsOnlyOnFailedSyn
<1> QED BY <1>1, SessionCorrect, PTL

\* No endpoint sees more SYNs fail than the bound allows.
FailuresBounded == \A e \in Endpoint : synFailures[e] <= MaxSynFailures

LEMMA FailuresStayBounded ==
  ASSUME TypeOK, FailuresBounded, [Next]_vars
  PROVE  FailuresBounded'
<1>1. ASSUME NEW e \in Endpoint, SynFails(e)
      PROVE  FailuresBounded'
  <2>1. /\ synFailures' = [synFailures EXCEPT ![e] = synFailures[e] + 1]
        /\ synFailures[e] < MaxSynFailures /\ MaxSynFailures \in Nat
    BY <1>1, HandshakeAssumption DEF SynFails
  <2> QED BY <2>1 DEF TypeOK, FailuresBounded
<1>2. ASSUME NEW e \in Endpoint, Restart(e)
      PROVE  FailuresBounded'
  <2>1. synFailures' = [synFailures EXCEPT ![e] = 0] /\ MaxSynFailures \in Nat
    BY <1>2, HandshakeAssumption DEF Restart
  <2> QED BY <2>1 DEF TypeOK, FailuresBounded
<1>3. ASSUME UNCHANGED synFailures
      PROVE  FailuresBounded'
  BY <1>3 DEF FailuresBounded
<1>4. ASSUME NEW e \in Endpoint,
             \/ Connect(e) \/ ConnectTimeout(e) \/ KeepAlive(e) \/ RetryCheck(e) \/ Exit(e)
             \/ Close(e) \/ SynIsSent(e)
      PROVE  UNCHANGED synFailures
  <2>1. CASE Connect(e) \/ ConnectTimeout(e) \/ KeepAlive(e)
    BY <2>1 DEF Connect, ConnectTimeout, KeepAlive
  <2>2. CASE RetryCheck(e) \/ Exit(e) \/ Close(e) \/ SynIsSent(e)
    BY <2>2 DEF RetryCheck, Exit, Close, SynIsSent
  <2> QED BY <1>4, <2>1, <2>2
<1>5. ASSUME NEW e \in Endpoint, NEW m \in net, Receive(e, m) \/ Refuse(e, m) \/ Lose(m)
      PROVE  UNCHANGED synFailures
  BY <1>5 DEF Receive, Refuse, Lose
<1>6. CASE UNCHANGED vars
  BY <1>3, <1>6 DEF vars
<1>7. CASE Next
  <2>1. ASSUME NEW m \in net, Lose(m)
        PROVE  UNCHANGED synFailures
    BY <2>1 DEF Lose
  <2> QED BY <1>1, <1>2, <1>3, <1>4, <1>5, <1>7, <2>1 DEF Next
<1> QED BY <1>6, <1>7

\* Hence a loop never panics where one end alone connects and every SYN can be
\* sent, whatever is lost, repeated, reordered or restarted (recv.go:719-742).
THEOREM NoPanicCorrect ==
  ASSUME OneOpener, MaxSynFailures = 0
  PROVE  Spec => []NoPanic
<1>1. Init => FailuresBounded
  BY HandshakeAssumption DEF Init, FailuresBounded
<1>2. SessionInv /\ FailuresBounded /\ [Next]_vars => FailuresBounded'
  BY FailuresStayBounded DEF SessionInv
<1>3. SessionInv /\ FailuresBounded => NoPanic
  <2> SUFFICES ASSUME SessionInv, FailuresBounded, NEW e \in Endpoint
               PROVE  down[e] # "panic"
    BY DEF NoPanic
  <2>1. ~(synFailures[e] > 0)
    BY DEF SessionInv, TypeOK, FailuresBounded
  <2> QED BY <2>1 DEF SessionInv, SessionOf, RequestIsPending
<1> QED BY <1>1, <1>2, <1>3, SessionCorrect, PTL DEF Spec

-----------------------------------------------------------------------------
(* Who closes a session. *)

\* What a step of e does to those who are closed, or get closed by it.
ClosesOnlyByFin(e) ==
  /\ MayDuplicate => net \subseteq net'
  /\ \A f \in Endpoint : f # e =>
       /\ down'[f] = down[f] /\ RemoteSessNonce'[f] = RemoteSessNonce[f]
       /\ LocalSessNonce'[f] = LocalSessNonce[f]
  /\ down'[e] = "closed" =>
       /\ RemoteSessNonce'[e] = RemoteSessNonce[e] /\ LocalSessNonce'[e] = LocalSessNonce[e]
       /\ \/ down[e] = "closed"
          \/ \E m \in net : m.from = Peer(e) /\ m.event = "Fin" /\ Accepts(e, m)

LEMMA ReceiveCloses ==
  ASSUME SessionInv, NEW e \in Endpoint, NEW m \in net, Receive(e, m)
  PROVE  ClosesOnlyByFin(e)
<1> DEFINE s == TcpState[e]
<1>1. /\ TypeOK /\ down[e] # "closed" /\ LocalSessNonce' = LocalSessNonce
      /\ m.from = Peer(e) /\ Accepts(e, m) /\ m.nonce \in Nonce
      /\ MayDuplicate => net \subseteq Arrived(m)
  BY AcceptedFacts DEF Receive, Live, Arrived
<1>2. ASSUME NEW act \in {"NoAction", "SendDataAck"}, NEW post, Handle(e, m, post, act)
      PROVE  ClosesOnlyByFin(e)
  BY <1>1, <1>2 DEF Handle, DoTcpAction, ClosesOnlyByFin
<1>3. ASSUME m.event = "Fin", Handle(e, m, "Closed", "DoAppClose")
      PROVE  ClosesOnlyByFin(e)
  BY <1>1, <1>3 DEF Handle, DoTcpAction, ClosesOnlyByFin, TypeOK
<1>4. ASSUME s = "Listen", Handle(e, m, "SynReceived", "SendSynAck")
      PROVE  ClosesOnlyByFin(e)
  <2>1. RemoteSessNonce[e] = NoNonce /\ SendSynAck(e, m.nonce, Arrived(m))
    BY <1>4 DEF SessionInv, SessionOf, PeerIsKnown, Handle, DoTcpAction
  <2>2. /\ \A f \in Endpoint : f # e => RemoteSessNonce'[f] = RemoteSessNonce[f]
        /\ net' = Arrived(m) \cup {NewPacket(e, "SynAck", m.nonce)} /\ down' = down
    BY <1>1, <2>1, SendSynAckOutcome
  <2> QED BY <1>1, <2>2 DEF ClosesOnlyByFin
<1>5. ASSUME NEW post, Handle(e, m, post, "SendEstabAck")
      PROVE  ClosesOnlyByFin(e)
  <2>1. SendEstabAck(e, m.nonce, Arrived(m))
    BY <1>5 DEF Handle, DoTcpAction
  <2>2. /\ \A f \in Endpoint : f # e =>
             RemoteSessNonce'[f] = RemoteSessNonce[f] /\ down'[f] = down[f]
        /\ down'[e] = "panic" \/ down' = down
        /\ Arrived(m) \subseteq net'
    BY <1>1, <2>1, SendEstabAckOutcomes
  <2> QED BY <1>1, <2>2 DEF ClosesOnlyByFin
<1> QED BY <1>1, <1>2, <1>3, <1>4, <1>5, ReceiveOutcomes

LEMMA OtherStepsClose ==
  ASSUME SessionInv, NEW e \in Endpoint,
         \/ Connect(e) \/ ConnectTimeout(e) \/ KeepAlive(e) \/ RetryCheck(e) \/ Exit(e)
         \/ Close(e) \/ Restart(e) \/ SynIsSent(e) \/ SynFails(e)
         \/ \E m \in net : Refuse(e, m)
  PROVE  ClosesOnlyByFin(e)
<1>1. TypeOK
  BY DEF SessionInv
<1>2. CASE Connect(e)
  BY <1>2 DEF Connect, StartConnect, ConnectWhenOpen, Live, ClosesOnlyByFin
<1>3. CASE ConnectTimeout(e)
  BY <1>3 DEF ConnectTimeout, ClosesOnlyByFin
<1>4. CASE KeepAlive(e)
  BY <1>4 DEF KeepAlive, MayProbe, Live, ClosesOnlyByFin
<1>5. CASE RetryCheck(e)
  <2>1. /\ Live(e) /\ UNCHANGED <<LocalSessNonce, RemoteSessNonce>> /\ net \subseteq net'
        /\ \/ down' = [down EXCEPT ![e] = "stopping"]
           \/ down' = down
           \/ down' = [down EXCEPT ![e] = "panic"]
    BY <1>5, RetryCheckOutcomes
  <2> QED BY <1>1, <2>1 DEF Live, ClosesOnlyByFin, TypeOK
<1>6. CASE Exit(e)
  BY <1>1, <1>6 DEF Exit, ClosesOnlyByFin, TypeOK
<1>7. CASE Close(e)
  BY <1>7 DEF Close, Live, ClosesOnlyByFin
<1>8. CASE Restart(e)
  BY <1>1, <1>8 DEF Restart, ClosesOnlyByFin, TypeOK
<1>9. CASE SynIsSent(e)
  BY <1>9 DEF SynIsSent, Live, ClosesOnlyByFin
<1>10. CASE SynFails(e)
  BY <1>1, <1>10 DEF SynFails, Live, ClosesOnlyByFin, TypeOK
<1>11. CASE \E m \in net : Refuse(e, m)
  BY <1>11 DEF Refuse, Arrived, Live, ClosesOnlyByFin
<1> QED BY <1>2, <1>3, <1>4, <1>5, <1>6, <1>7, <1>8, <1>9, <1>10, <1>11

\* The Fin that closed a session stays where a network that duplicates keeps it.
LEMMA FinStays ==
  ASSUME SessionInv, ClosedByItsPeer, NEW e \in Endpoint, ClosesOnlyByFin(e)
  PROVE  ClosedByItsPeer'
<1> SUFFICES ASSUME NEW f \in Endpoint, MayDuplicate, down'[f] = "closed",
                    RemoteSessNonce'[f] # NoNonce
             PROVE  \E m \in net' : /\ m.from = Peer(f) /\ m.event = "Fin"
                                    /\ m.nonce = RemoteSessNonce'[f]
                                    /\ m.dest \in {NoNonce, LocalSessNonce'[f]}
  BY DEF ClosedByItsPeer
<1>1. /\ RemoteSessNonce'[f] = RemoteSessNonce[f] /\ LocalSessNonce'[f] = LocalSessNonce[f]
      /\ net \subseteq net'
      /\ \/ down[f] = "closed"
         \/ \E m \in net : m.from = Peer(f) /\ m.event = "Fin" /\ Accepts(f, m)
  BY DEF ClosesOnlyByFin
<1>2. CASE down[f] = "closed"
  BY <1>1, <1>2 DEF ClosedByItsPeer
<1>3. ASSUME NEW m \in net, m.from = Peer(f), m.event = "Fin", Accepts(f, m)
      PROVE  m.nonce = RemoteSessNonce[f] /\ m.dest \in {NoNonce, LocalSessNonce[f]}
  BY <1>1, <1>3 DEF Accepts
<1> QED BY <1>1, <1>2, <1>3

\* A session that knows its peer is closed only by a Fin of that very session, that
\* was meant for it: no Fin of an earlier life of either end closes it
\* (recv.go:382-392, tcp.go:108-153).
THEOREM ClosedCorrect == Spec => []ClosedByItsPeer
<1>1. Init => ClosedByItsPeer
  BY DEF Init, ClosedByItsPeer
<1>2. SessionInv /\ ClosedByItsPeer /\ [Next]_vars => ClosedByItsPeer'
  <2> SUFFICES ASSUME SessionInv, ClosedByItsPeer, [Next]_vars
               PROVE  ClosedByItsPeer'
    OBVIOUS
  <2>1. ASSUME NEW e \in Endpoint,
               \/ Connect(e) \/ ConnectTimeout(e) \/ KeepAlive(e) \/ RetryCheck(e) \/ Exit(e)
               \/ Close(e) \/ Restart(e) \/ SynIsSent(e) \/ SynFails(e)
               \/ \E m \in net : Receive(e, m) \/ Refuse(e, m)
        PROVE  ClosedByItsPeer'
    BY <2>1, ReceiveCloses, OtherStepsClose, FinStays
  <2>2. ASSUME NEW m \in net, Lose(m)
        PROVE  ClosedByItsPeer'
    BY <2>2 DEF Lose, ClosedByItsPeer
  <2>3. CASE UNCHANGED vars
    BY <2>3 DEF vars, ClosedByItsPeer
  <2> QED BY <2>1, <2>2, <2>3 DEF Next
<1> QED BY <1>1, <1>2, SessionCorrect, PTL DEF Spec

-----------------------------------------------------------------------------
(* Who gives up on whom. *)

\* Timers as the code has them, one end that connects and is idle enough to keep
\* alive, no restart, and a network that loses no more packets than a server has tries.
TimelyLife ==
  /\ OneOpener /\ Timely /\ ~MayDuplicate /\ MaxRestarts = 0
  /\ Busy \cap Openers = {} /\ MaxLosses <= MaxAttempts

\* The two roles: the end that connects repeats no answer to a SYN, and its peer
\* makes no call.
LEMMA Roles ==
  ASSUME OneOpener, SessionInv, SilenceInv, NEW e \in Endpoint
  PROVE  /\ e \in Openers => Peer(e) \notin Openers
         /\ e \in Openers => TcpState[e] # "SynReceived" /\ ~retry[e].inUse
         /\ TcpState[e] = "SynSent" => e \in Openers
         /\ \A m \in net : m.event = "Syn" => m.from \in Openers
<1>1. e \in Openers => Peer(e) \notin Openers
  BY PeerFacts, HandshakeAssumption DEF OneOpener
<1>2. TcpState[e] = "SynReceived" => Peer(e) \in Openers
  BY DEF SilenceInv
<1>3. retry[e].inUse => TcpState[e] = "SynReceived"
  BY DEF SessionInv, SessionOf, RetryIsCurrent
<1>4. TcpState[e] = "SynSent" => e \in Openers
  BY DEF SessionInv, SessionOf, RequestIsPending
<1>5. \A m \in net : m.event = "Syn" => m.from \in Openers
  BY DEF SessionInv, Truthful
<1> QED BY <1>1, <1>2, <1>3, <1>4, <1>5

\* Without a restart every packet that answers another is of the session it says,
\* for the session it says.
LEMMA CurrentIsAccepted ==
  ASSUME SessionInv, SilenceInv, NEW e \in Endpoint, NEW m \in net, m.from = Peer(e),
         m.event = "SynAck" \/ Confirms(m)
  PROVE  Accepts(e, m)
<1> DEFINE p == Peer(e)
<1>1. /\ TypeOK /\ Truthful(m) /\ p \in Endpoint /\ Peer(p) = e
      /\ LocalSessNonce[e] = 1 /\ LocalSessNonce[p] = 1
      /\ NoncesAreOld(e) /\ NoncesAreOld(p)
  BY PeerFacts DEF SessionInv, SilenceInv, SessionOf
<1>2. m.nonce \in Nat /\ m.nonce # 0 /\ RemoteSessNonce[e] \in Nat /\ RemoteSessNonce[p] \in Nat
  BY <1>1, PacketFacts, TypeFacts DEF Nonce, NoNonce
<1>3. m.nonce = 1
  BY <1>1, <1>2 DEF Truthful
<1>4. SpeaksOf(m, Joined)
  BY <1>1, <1>3 DEF Truthful, Confirms
<1>5. m.dest = RemoteSessNonce[p] /\ RemoteSessNonce[p] # 0
  BY <1>4 DEF SpeaksOf, NoNonce
<1>6. m.dest = LocalSessNonce[e]
  BY <1>1, <1>2, <1>5 DEF NoncesAreOld
<1>7. RemoteSessNonce[e] # NoNonce => m.nonce = RemoteSessNonce[e]
  BY <1>1, <1>2, <1>3 DEF NoncesAreOld, NoNonce
<1> QED BY <1>6, <1>7 DEF Accepts

\* What is left to show of a step of e.
LEMMA SilenceStep ==
  ASSUME TypeOK, SilenceInv, NEW e \in Endpoint, OthersStay(e), LocalSessNonce' = LocalSessNonce,
         losses' <= MaxLosses,
         TcpState[e] # "Listen" => TcpState'[e] # "Listen",
         \A m \in net' : m \in net \/ m.event # "Syn" \/ (m.from = e /\ TcpState'[e] # "Listen"),
         sendSyn'[e] # "none" => TcpState'[e] # "Listen",
         Live(e)' => Live(e) /\ TcpState'[e] \in Open,
         TcpState'[e] = "SynReceived" => Peer(e) \in Openers,
         down'[e] = "stopping" => ~Live(Peer(e)),
         RetriesAreLosses(e)', RetriesAreLosses(Peer(e))'
  PROVE  SilenceInv'
<1> DEFINE p == Peer(e)
<1>1. p \in Endpoint /\ p # e /\ Peer(p) = e /\ Endpoint = {e, p}
  BY PeerFacts
<1>2. /\ TcpState'[p] = TcpState[p] /\ down'[p] = down[p] /\ sendSyn'[p] = sendSyn[p]
  BY <1>1 DEF OthersStay
<1>3. /\ \A f \in Endpoint : LocalSessNonce[f] = 1
      /\ SynsAreCalls
      /\ \A f \in Endpoint : /\ Live(f) => TcpState[f] \in Open
                             /\ TcpState[f] = "SynReceived" => Peer(f) \in Openers
                             /\ down[f] = "stopping" => ~Live(Peer(f))
  BY DEF SilenceInv
<1>4. \A f \in Endpoint : LocalSessNonce'[f] = 1
  BY <1>3
<1>5. SynsAreCalls'
  <2>1. ASSUME NEW m \in net', m.event = "Syn"
        PROVE  TcpState'[m.from] # "Listen"
    <3>1. CASE m \in net
      <4>1. TcpState[m.from] # "Listen"
        BY <1>3, <2>1, <3>1 DEF SynsAreCalls
      <4>2. m.from \in Endpoint
        BY <3>1, PacketFacts
      <4>3. TcpState[m.from] # "Listen" => TcpState'[m.from] # "Listen"
        BY <1>1, <1>2, <4>2
      <4> QED BY <4>1, <4>3
    <3>2. CASE m \notin net
      BY <2>1, <3>2
    <3> QED BY <3>1, <3>2
  <2>2. \A f \in Endpoint : sendSyn'[f] # "none" => TcpState'[f] # "Listen"
    BY <1>1, <1>2, <1>3 DEF SynsAreCalls
  <2> QED BY <2>1, <2>2 DEF SynsAreCalls
<1>6. Live(p)' = Live(p)
  BY <1>2 DEF Live
<1>7. \A f \in Endpoint : Live(f)' => TcpState'[f] \in Open
  BY <1>1, <1>2, <1>3, <1>6
<1>8. \A f \in Endpoint : TcpState'[f] = "SynReceived" => Peer(f) \in Openers
  BY <1>1, <1>2, <1>3
<1>9. \A f \in Endpoint : down'[f] = "stopping" => ~Live(Peer(f))'
  BY <1>1, <1>2, <1>3, <1>6
<1>10. \A f \in Endpoint : RetriesAreLosses(f)'
  BY <1>1
<1> QED BY <1>4, <1>5, <1>7, <1>8, <1>9, <1>10 DEF SilenceInv

\* Tries stay covered by losses as long as what f waits for is not lost.
LEMMA RetriesKept ==
  ASSUME NEW f \in Endpoint, RetriesAreLosses(f), retry'[f] = retry[f], losses' = losses,
         Live(f)' => Live(f), Live(Peer(f))' => Live(Peer(f)),
         TcpState[Peer(f)] \in {"SynSent", "Established"} => TcpState'[Peer(f)] = TcpState[Peer(f)],
         /\ retry[f].inUse /\ Live(Peer(f)) /\ TcpState[Peer(f)] \in {"SynSent", "Established"}
         /\ AnswerIsDue(f)
         => AnswerIsDue(f)'
  PROVE  RetriesAreLosses(f)'
<1> SUFFICES ASSUME Live(f)', Live(Peer(f))', retry[f].inUse
             PROVE  /\ TcpState'[Peer(f)] \in {"SynSent", "Established"}
                    /\ retry[f].attemptCount <= losses
                    /\ ~AnswerIsDue(f)' => retry[f].attemptCount < losses
  BY Zenon DEF RetriesAreLosses
<1>1. /\ TcpState[Peer(f)] \in {"SynSent", "Established"}
      /\ retry[f].attemptCount <= losses
      /\ ~AnswerIsDue(f) => retry[f].attemptCount < losses
  BY Zenon DEF RetriesAreLosses
<1> QED BY <1>1

\* A step of e that takes nothing from the network and repeats nothing.
LEMMA QuietSilence ==
  ASSUME OneOpener, SessionInv, SilenceInv, NEW e \in Endpoint,
         UNCHANGED <<LocalSessNonce, RemoteSessNonce, retry, losses>>,
         OthersStay(e),
         \/ TcpState' = TcpState
         \/ TcpState[e] \in {"Listen", "SynSent"} /\ TcpState' = [TcpState EXCEPT ![e] = "SynSent"],
         net \subseteq net',
         \A m \in net' : m \in net \/ m.event # "Syn" \/ (m.from = e /\ TcpState'[e] # "Listen"),
         sendSyn'[e] # "none" => TcpState'[e] # "Listen",
         Live(e)' => Live(e),
         down'[e] = "stopping" => down[e] = "stopping",
         probed'[Peer(e)] = probed[Peer(e)],
         \/ probed'[e] = probed[e]
         \/ \E m \in net' : m.from = e /\ (TcpState[e] = "Established" => Confirms(m))
                                       /\ TcpState[e] # "SynSent"
  PROVE  SilenceInv'
<1> DEFINE p == Peer(e)
<1>1. TypeOK /\ p \in Endpoint /\ p # e /\ Peer(p) = e
  BY PeerFacts DEF SessionInv
<1>2. /\ \A f \in Endpoint : RetriesAreLosses(f)
      /\ losses <= MaxLosses
      /\ Live(e) => TcpState[e] \in Open
      /\ TcpState[e] = "SynReceived" => p \in Openers
      /\ down[e] = "stopping" => ~Live(p)
  BY DEF SilenceInv
<1>3. TcpState'[p] = TcpState[p] /\ down'[p] = down[p]
  BY <1>1 DEF OthersStay
<1>4. \/ TcpState'[e] = TcpState[e]
      \/ TcpState[e] = "Listen" /\ TcpState'[e] = "SynSent"
  BY <1>1 DEF TypeOK
<1>5. Live(p)' = Live(p)
  BY <1>3 DEF Live
<1>6. RetriesAreLosses(e)'
  <2>1. AnswerIsDue(e) => AnswerIsDue(e)'
    BY <1>3 DEF AnswerIsDue, Confirms
  <2> QED BY <1>1, <1>2, <1>3, <1>5, <2>1, RetriesKept
<1>7. RetriesAreLosses(p)'
  <2>1. ASSUME TcpState[e] \in {"SynSent", "Established"}, AnswerIsDue(p)
        PROVE  AnswerIsDue(p)'
    <3>1. TcpState'[e] = TcpState[e]
      BY <1>4, <2>1
    <3>2. CASE TcpState[e] = "SynSent"
      BY <1>1, <2>1, <3>1, <3>2 DEF AnswerIsDue
    <3>3. CASE TcpState[e] = "Established"
      BY <1>1, <2>1, <3>1, <3>3 DEF AnswerIsDue, Confirms
    <3> QED BY <2>1, <3>2, <3>3
  <2> QED BY <1>1, <1>2, <1>4, <1>5, <2>1, RetriesKept
<1>8. TcpState[e] # "Listen" => TcpState'[e] # "Listen"
  BY <1>4
<1>9. Live(e)' => Live(e) /\ TcpState'[e] \in Open
  BY <1>2, <1>4 DEF Open
<1>10. TcpState'[e] = "SynReceived" => p \in Openers
  BY <1>2, <1>4
<1> QED BY <1>1, <1>2, <1>6, <1>7, <1>8, <1>9, <1>10, SilenceStep

\* The steps that are quiet in this sense.
LEMMA QuietStepsKeepSilence ==
  ASSUME OneOpener, SessionInv, SilenceInv, NEW e \in Endpoint,
         \/ Connect(e) \/ ConnectTimeout(e) \/ Exit(e) \/ Close(e) \/ SynIsSent(e) \/ SynFails(e)
  PROVE  SilenceInv'
<1>1. TypeOK /\ SynsAreCalls
  BY DEF SessionInv, SilenceInv
<1>2. CASE Connect(e)
  <2>1. /\ UNCHANGED <<LocalSessNonce, RemoteSessNonce, retry, losses, net, down, synFailures, probed>>
        /\ \/ TcpState' = TcpState /\ UNCHANGED <<connReqPending, sendSyn>>
           \/ /\ TcpState[e] \in {"Listen", "SynSent"}
              /\ TcpState' = [TcpState EXCEPT ![e] = "SynSent"]
              /\ connReqPending' = [connReqPending EXCEPT ![e] = "open"]
              /\ sendSyn' = [sendSyn EXCEPT ![e] = "open"]
    BY <1>2 DEF Connect, StartConnect, ConnectWhenOpen, reqVars
  <2>2. OthersStay(e)
    BY <1>1, <2>1 DEF OthersStay, TypeOK
  <2>3. sendSyn'[e] # "none" => TcpState'[e] # "Listen"
    BY <1>1, <2>1 DEF SynsAreCalls, TypeOK
  <2> QED BY <2>1, <2>2, <2>3, QuietSilence DEF Live
<1>3. CASE ConnectTimeout(e)
  <2>1. OthersStay(e)
    BY <1>3 DEF ConnectTimeout, reqVars, OthersStay
  <2> QED BY <1>1, <1>3, <2>1, QuietSilence DEF ConnectTimeout, reqVars, Live, SynsAreCalls
<1>4. CASE Exit(e)
  <2>1. OthersStay(e) /\ down'[e] = "stopped"
    BY <1>1, <1>4 DEF Exit, reqVars, OthersStay, TypeOK
  <2> QED BY <1>1, <1>4, <2>1, QuietSilence DEF Exit, reqVars, Live, SynsAreCalls
<1>5. CASE Close(e)
  <2>1. PICK p : p = NewPacket(e, "Fin", RemoteSessNonce[e])
    OBVIOUS
  <2>2. p.event = "Fin"
    BY <2>1 DEF NewPacket
  <2>3. OthersStay(e) /\ net' = net \cup {p}
    BY <1>5, <2>1 DEF Close, reqVars, OthersStay
  <2> QED BY <1>1, <1>5, <2>2, <2>3, QuietSilence DEF Close, reqVars, Live, SynsAreCalls
<1>6. CASE SynIsSent(e)
  <2>1. PICK p : p = NewPacket(e, "Syn", NoNonce)
    OBVIOUS
  <2>2. p.from = e /\ TcpState[e] # "Listen"
    BY <1>1, <1>6, <2>1 DEF NewPacket, SynIsSent, SynsAreCalls
  <2>3. OthersStay(e) /\ net' = net \cup {p}
    BY <1>1, <1>6, <2>1 DEF SynIsSent, OthersStay, TypeOK
  <2> QED BY <1>6, <2>2, <2>3, QuietSilence DEF SynIsSent, Live
<1>7. CASE SynFails(e)
  <2>1. /\ Live(e) /\ sendSyn[e] # "none" /\ synFailures' = [synFailures EXCEPT ![e] = @ + 1]
        /\ UNCHANGED <<net, LocalSessNonce, TcpState, RemoteSessNonce, retry, losses, probed>>
        /\ \/ down' = [down EXCEPT ![e] = "panic"] /\ UNCHANGED <<connReqPending, sendSyn>>
           \/ /\ sendSyn' = [sendSyn EXCEPT ![e] = "none"]
              /\ connReqPending' = [connReqPending EXCEPT ![e] = "closed"]
              /\ UNCHANGED down
    BY <1>7 DEF SynFails, reqVars
  <2>2. OthersStay(e)
    BY <1>1, <2>1 DEF OthersStay, TypeOK
  <2>3. TcpState[e] # "Listen"
    BY <1>1, <2>1 DEF SynsAreCalls
  <2>4. down'[e] = "stopping" => down[e] = "stopping"
    BY <1>1, <2>1 DEF TypeOK
  <2> QED BY <2>1, <2>2, <2>3, <2>4, QuietSilence DEF Live
<1> QED BY <1>2, <1>3, <1>4, <1>5, <1>6, <1>7

\* A keepalive of an Established client is an answer.
LEMMA KeepAliveKeepsSilence ==
  ASSUME OneOpener, SessionInv, SilenceInv, NEW e \in Endpoint, KeepAlive(e)
  PROVE  SilenceInv'
<1>1. TypeOK /\ SynsAreCalls /\ Peer(e) # e /\ Peer(e) \in Endpoint
  BY PeerFacts DEF SessionInv, SilenceInv
<1>2. PICK p : p = NewPacket(e, "KeepAlive", RemoteSessNonce[e])
  OBVIOUS
<1>3. p.from = e /\ p.event = "KeepAlive" /\ p.state = TcpState[e]
  BY <1>2 DEF NewPacket
<1>4. TcpState[e] # "SynSent"
  BY DEF SessionInv, SessionOf, PeerIsKnown, KeepAlive, MayProbe
<1>5. /\ net' = net \cup {p} /\ probed' = [probed EXCEPT ![e] = Timely]
      /\ UNCHANGED <<LocalSessNonce, TcpState, RemoteSessNonce, connReqPending, sendSyn, retry,
                     down, losses, synFailures>>
  BY <1>2 DEF KeepAlive, reqVars
<1>6. OthersStay(e)
  BY <1>5 DEF OthersStay
<1>7. probed'[Peer(e)] = probed[Peer(e)]
  BY <1>1, <1>5 DEF TypeOK
<1>8. \E m \in net' : m.from = e /\ (TcpState[e] = "Established" => Confirms(m))
                                 /\ TcpState[e] # "SynSent"
  BY <1>3, <1>4, <1>5 DEF Confirms
<1>9. sendSyn'[e] # "none" => TcpState'[e] # "Listen"
  BY <1>1, <1>5 DEF SynsAreCalls
<1>10. \A m \in net' : m \in net \/ m.event # "Syn" \/ (m.from = e /\ TcpState'[e] # "Listen")
  BY <1>3, <1>5
<1> QED BY <1>5, <1>6, <1>7, <1>8, <1>9, <1>10, QuietSilence DEF Live

-----------------------------------------------------------------------------
(* The timer fires. *)

\* A period is not over before an answer that is due has come.
LEMMA NoAnswerIsDue ==
  ASSUME TimelyLife, SessionInv, SilenceInv, NEW e \in Endpoint, RetryCheck(e), Live(Peer(e))
  PROVE  /\ ~AnswerIsDue(e) /\ retry[e].attemptCount < losses
         /\ TcpState[Peer(e)] \in {"SynSent", "Established"}
<1> DEFINE p == Peer(e)
<1>1. /\ OneOpener /\ Timely /\ Busy \cap Openers = {} /\ p \in Endpoint
  BY PeerFacts DEF TimelyLife
<1>2. /\ Live(e) /\ retry[e].inUse /\ net = {} /\ (MayProbe(p) => probed[p])
  BY <1>1 DEF RetryCheck, PeriodIsOver
<1>3. /\ RetriesAreLosses(e) /\ PeerIsKnown(p) /\ down[p] # "panic"
  BY <1>1 DEF SilenceInv, SessionInv, SessionOf, Live
<1>4. /\ TcpState[p] \in {"SynSent", "Established"}
      /\ ~AnswerIsDue(e) => retry[e].attemptCount < losses
  BY <1>2, <1>3, Zenon DEF RetriesAreLosses
<1>5. p \in Openers
  BY <1>2 DEF SessionInv, SessionOf, RetryIsCurrent, SilenceInv
<1>6. TcpState[p] = "Established" => probed[p]
  BY <1>1, <1>2, <1>3, <1>5 DEF PeerIsKnown, MayProbe
<1>7. ~AnswerIsDue(e)
  BY <1>2, <1>4, <1>6 DEF AnswerIsDue
<1> QED BY <1>4, <1>7

\* The new try is covered, and there are losses for no more than MaxAttempts.
LEMMA RetryCheckKeepsSilence ==
  ASSUME TimelyLife, SessionInv, SilenceInv, NEW e \in Endpoint, RetryCheck(e)
  PROVE  SilenceInv'
<1> DEFINE p == Peer(e)
           n == retry[e].attemptCount
<1>1. /\ OneOpener /\ MaxLosses <= MaxAttempts /\ MaxLosses \in Nat /\ MaxAttempts \in Nat
      /\ TypeOK /\ losses \in Nat /\ losses <= MaxLosses /\ SynsAreCalls
      /\ p \in Endpoint /\ p # e /\ Peer(p) = e
  BY PeerFacts, HandshakeAssumption DEF TimelyLife, SessionInv, SilenceInv, TypeOK
<1>2. /\ TcpState[e] = "SynReceived" /\ Live(e)
      /\ retry[e].inUse /\ n \in 0..MaxAttempts
      /\ retry' = [retry EXCEPT ![e] = [@ EXCEPT !.attemptCount = n + 1,
                                                 !.inUse = ~TooManyTries(e)]]
      /\ UNCHANGED <<LocalSessNonce, TcpState, RemoteSessNonce, connReqPending, sendSyn,
                     conn, connNonce, connects, losses, synFailures>>
      /\ \/ TooManyTries(e) /\ net' = net /\ down' = [down EXCEPT ![e] = "stopping"]
         \/ net' = net \cup {NewPacket(e, "SynAck", RemoteSessNonce[e])} /\ down' = down
  BY <1>1, RetryCheckOutcomes
<1>3. retry'[p] = retry[p] /\ retry'[e].attemptCount = n + 1 /\ (retry'[e].inUse <=> ~TooManyTries(e))
  BY <1>1, <1>2 DEF TypeOK
<1>4. /\ TcpState[e] = "SynReceived" => p \in Openers
      /\ down[e] = "stopping" => ~Live(p)
  BY DEF SilenceInv
<1>5. ~retry[p].inUse
  BY <1>1, <1>2, <1>4, Roles
<1>6. ASSUME Live(p)
      PROVE  n + 1 <= losses /\ ~TooManyTries(e) /\ TcpState[p] \in {"SynSent", "Established"}
  <2>1. n < losses /\ TcpState[p] \in {"SynSent", "Established"}
    BY <1>6, NoAnswerIsDue
  <2>2. n + 1 <= losses /\ n + 1 <= MaxAttempts
    BY <1>1, <1>2, <2>1
  <2> QED BY <1>1, <1>2, <2>1, <2>2 DEF TooManyTries
<1>7. OthersStay(e)
  BY <1>1, <1>2 DEF OthersStay, TypeOK
<1>8. Live(p)' = Live(p) /\ (Live(e)' => Live(e))
  BY <1>1, <1>2, <1>7 DEF Live, OthersStay
<1>9. down'[e] = "stopping" => ~Live(p)
  BY <1>2, <1>4, <1>6
<1>10. RetriesAreLosses(p)'
  BY <1>3, <1>5 DEF RetriesAreLosses
<1>11. RetriesAreLosses(e)'
  <2> SUFFICES ASSUME Live(p), ~TooManyTries(e)
               PROVE  /\ TcpState'[p] \in {"SynSent", "Established"}
                      /\ retry'[e].attemptCount <= losses'
                      /\ AnswerIsDue(e)'
    BY <1>3, <1>8, Zenon DEF RetriesAreLosses
  <2>1. /\ TcpState'[p] \in {"SynSent", "Established"}
        /\ retry'[e].attemptCount <= losses'
    BY <1>2, <1>3, <1>6
  <2>2. CASE TcpState[p] = "SynSent"
    <3>1. PICK q : q = NewPacket(e, "SynAck", RemoteSessNonce[e])
      OBVIOUS
    <3>2. q \in net' /\ q.from = e /\ q.event = "SynAck"
      BY <1>2, <1>6, <3>1 DEF NewPacket
    <3> QED BY <1>2, <2>1, <2>2, <3>2 DEF AnswerIsDue
  <2>3. CASE TcpState[p] # "SynSent"
    <3>1. ~probed'[p]
      BY <1>1 DEF RetryCheck, TypeOK
    <3> QED BY <1>2, <2>1, <2>3, <3>1 DEF AnswerIsDue
  <2> QED BY <2>1, <2>2, <2>3
<1>12. \A m \in net' : m \in net \/ m.event # "Syn" \/ (m.from = e /\ TcpState'[e] # "Listen")
  BY <1>2 DEF NewPacket
<1>13. losses' <= MaxLosses /\ (sendSyn'[e] # "none" => TcpState'[e] # "Listen")
  BY <1>1, <1>2
<1>14. Live(e)' => Live(e) /\ TcpState'[e] \in Open
  BY <1>2 DEF Open
<1> QED BY <1>1, <1>2, <1>4, <1>7, <1>9, <1>10, <1>11, <1>12, <1>13, <1>14, SilenceStep

-----------------------------------------------------------------------------
(* A packet is received, refused or lost. *)

\* An answer that is due is not received in vain.
LEMMA AnswerMoves ==
  ASSUME TypeOK, NEW e \in Endpoint, NEW m \in net, Receive(e, m)
  PROVE  /\ TcpState[e] = "SynSent" /\ m.event = "SynAck" => TcpState'[e] = "Established"
         /\ TcpState[e] = "SynReceived" /\ Confirms(m) => TcpState'[e] = "Established"
<1>1. /\ TcpState[e] = "SynSent" /\ m.event = "SynAck"
         => UpdateTcp(TcpState[e], m.event, m.state) = <<"Established", "SendEstabAck">>
      /\ TcpState[e] = "SynReceived" /\ m.event = "EstabAck"
         => UpdateTcp(TcpState[e], m.event, m.state) = <<"Established", "NoAction">>
      /\ TcpState[e] = "SynReceived" /\ m.event = "KeepAlive" /\ m.state = "Established"
         => UpdateTcp(TcpState[e], m.event, m.state) = <<"Established", "NoAction">>
  BY DEF UpdateTcp
<1>2. \A act : UpdateTcp(TcpState[e], m.event, m.state) = <<"Established", act>> /\ act # "DoAppClose"
               => TcpState' = [TcpState EXCEPT ![e] = "Established"]
  BY DEF Receive
<1>3. TcpState' = [TcpState EXCEPT ![e] = "Established"] => TcpState'[e] = "Established"
  BY DEF TypeOK
<1> QED BY <1>1, <1>2, <1>3 DEF Confirms

\* A packet that changes no state, or is refused, is no answer that is due.
LEMMA OtherPacketKeepsSilence ==
  ASSUME OneOpener, SessionInv, SilenceInv, NEW e \in Endpoint, NEW m \in net, m.from = Peer(e),
         net' \subseteq net, net \ {m} \subseteq net',
         ~(TcpState[e] = "SynSent" /\ m.event = "SynAck"),
         ~(TcpState[e] = "SynReceived" /\ Confirms(m)),
         UNCHANGED <<LocalSessNonce, TcpState, RemoteSessNonce, connReqPending, sendSyn, retry,
                     down, losses, synFailures, probed>>
  PROVE  SilenceInv'
<1> DEFINE p == Peer(e)
<1>1. /\ TypeOK /\ p \in Endpoint /\ p # e /\ Peer(p) = e
  BY PeerFacts DEF SessionInv
<1>2. /\ RetriesAreLosses(e) /\ RetriesAreLosses(p) /\ losses <= MaxLosses
      /\ Live(e) => TcpState[e] \in Open
      /\ TcpState[e] = "SynReceived" => p \in Openers
      /\ down[e] = "stopping" => ~Live(p)
      /\ sendSyn[e] # "none" => TcpState[e] # "Listen"
  BY <1>1 DEF SilenceInv, SynsAreCalls
<1>3. OthersStay(e)
  BY DEF OthersStay
<1>4. Live(e)' = Live(e) /\ Live(p)' = Live(p)
  BY DEF Live
<1>5. RetriesAreLosses(e)'
  <2>1. retry[e].inUse => TcpState[e] = "SynReceived"
    BY DEF SessionInv, SessionOf, RetryIsCurrent
  <2>2. ASSUME retry[e].inUse, AnswerIsDue(e)
        PROVE  AnswerIsDue(e)'
    <3>1. ~Confirms(m)
      BY <2>1, <2>2
    <3>2. CASE TcpState[p] = "SynSent"
      BY <1>1, <2>2, <3>2 DEF AnswerIsDue
    <3>3. CASE TcpState[p] # "SynSent"
      BY <1>1, <2>2, <3>1, <3>3 DEF AnswerIsDue, Confirms
    <3> QED BY <3>2, <3>3
  <2> QED BY <1>1, <1>2, <1>4, <2>2, RetriesKept
<1>6. RetriesAreLosses(p)'
  <2>1. ASSUME AnswerIsDue(p)
        PROVE  AnswerIsDue(p)'
    <3>1. CASE TcpState[e] = "SynSent"
      BY <1>1, <2>1, <3>1 DEF AnswerIsDue
    <3>2. CASE TcpState[e] # "SynSent"
      BY <1>1, <2>1, <3>2 DEF AnswerIsDue, Confirms
    <3> QED BY <3>1, <3>2
  <2> QED BY <1>1, <1>2, <1>4, <2>1, RetriesKept
<1> QED BY <1>1, <1>2, <1>3, <1>4, <1>5, <1>6, SilenceStep

LEMMA RefuseKeepsSilence ==
  ASSUME TimelyLife, SessionInv, SilenceInv, NEW e \in Endpoint, NEW m \in net, Refuse(e, m)
  PROVE  SilenceInv'
<1>1. m.from = Peer(e) /\ ~Accepts(e, m) /\ net' = net \ {m} /\ OneOpener
  BY DEF Refuse, Arrived, TimelyLife
<1>2. m.event # "SynAck" /\ ~Confirms(m)
  BY <1>1, CurrentIsAccepted
<1> QED BY <1>1, <1>2, OtherPacketKeepsSilence DEF Refuse, reqVars

\* A Fin ends the loop that gets it: nobody counts its tries any more.
LEMMA FinKeepsSilence ==
  ASSUME OneOpener, SessionInv, SilenceInv, NEW e \in Endpoint, NEW m \in net, Receive(e, m),
         Handle(e, m, "Closed", "DoAppClose"), TcpState[e] \in Open
  PROVE  SilenceInv'
<1>1. /\ TypeOK /\ Arrived(m) \subseteq net /\ UNCHANGED <<LocalSessNonce, losses, synFailures>>
      /\ Peer(e) \in Endpoint /\ Peer(e) # e /\ Peer(Peer(e)) = e
  BY AcceptedFacts, PeerFacts
<1>2. losses <= MaxLosses
  BY DEF SilenceInv
<1>3. /\ TcpState' = [TcpState EXCEPT ![e] = "Closed"]
      /\ net' = Arrived(m) \cup {NewPacket(e, "FinAck", RemoteSessNonce[e])}
      /\ down' = [down EXCEPT ![e] = "closed"]
      /\ SetupRetry(e, "Closed", "DoAppClose", m.nonce)
      /\ UNCHANGED <<RemoteSessNonce, connReqPending, sendSyn>>
  BY DEF Handle, DoTcpAction, reqVars
<1>4. TcpState'[e] = "Closed" /\ down'[e] = "closed"
  BY <1>1, <1>3 DEF TypeOK
<1>5. \A f \in Endpoint : f # e => retry'[f] = retry[f]
  BY <1>1, <1>3, RetryEnds DEF Open
<1>6. OthersStay(e)
  BY <1>1, <1>3, <1>5 DEF OthersStay, TypeOK
<1>7. ~Live(e)'
  BY <1>4 DEF Live
<1>8. RetriesAreLosses(e)' /\ RetriesAreLosses(Peer(e))'
  BY <1>1, <1>7 DEF RetriesAreLosses
<1>9. \A q \in net' : q \in net \/ q.event # "Syn"
  BY <1>1, <1>3 DEF NewPacket
<1> QED BY <1>1, <1>2, <1>4, <1>6, <1>7, <1>8, <1>9, SilenceStep

\* A SYN opens the count of tries at 0; its sender still waits for the answer.
LEMMA SynKeepsSilence ==
  ASSUME OneOpener, SessionInv, SilenceInv, NEW e \in Endpoint, NEW m \in net, Receive(e, m),
         TcpState[e] = "Listen", m.event = "Syn", Handle(e, m, "SynReceived", "SendSynAck")
  PROVE  SilenceInv'
<1> DEFINE p == Peer(e)
<1>1. /\ TypeOK /\ SessionOf(e) /\ m.nonce \in Nonce /\ m.from = p
      /\ Arrived(m) \subseteq net /\ UNCHANGED <<LocalSessNonce, losses, synFailures>>
      /\ p \in Endpoint /\ p # e /\ Peer(p) = e
  BY AcceptedFacts, PeerFacts
<1>2. /\ RemoteSessNonce[e] = NoNonce /\ retry[e].attemptCount = 0
      /\ losses \in Nat /\ losses <= MaxLosses /\ p \in Openers
      /\ down[e] = "stopping" => ~Live(p)
  BY <1>1, Roles DEF SessionOf, PeerIsKnown, RetryIsCurrent, SilenceInv, TypeOK
<1>3. /\ TcpState' = [TcpState EXCEPT ![e] = "SynReceived"]
      /\ SetupRetry(e, "SynReceived", "SendSynAck", m.nonce)
      /\ SendSynAck(e, m.nonce, Arrived(m))
  BY DEF Handle, DoTcpAction
<1>4. /\ \A f \in Endpoint : f # e => retry'[f] = retry[f]
      /\ retry'[e].attemptCount = 0
  BY <1>1, <1>2, <1>3, RetryStarts DEF Action
<1>5. /\ \A f \in Endpoint : f # e => RemoteSessNonce'[f] = RemoteSessNonce[f]
      /\ net' = Arrived(m) \cup {NewPacket(e, "SynAck", m.nonce)}
      /\ UNCHANGED <<connReqPending, sendSyn, conn, connNonce, down>>
  BY <1>1, <1>2, <1>3, SendSynAckOutcome
<1>6. TcpState'[e] = "SynReceived" /\ TcpState'[p] = TcpState[p]
  BY <1>1, <1>3 DEF TypeOK
<1>7. OthersStay(e)
  BY <1>1, <1>3, <1>4, <1>5 DEF OthersStay, TypeOK
<1>8. RetriesAreLosses(p)'
  BY <1>1, <1>2, <1>4, Roles DEF RetriesAreLosses
<1>9. Live(p) => TcpState[p] = "SynSent"
  <2>1. TcpState[p] # "Listen" /\ (Live(p) => TcpState[p] \in Open)
    BY <1>1 DEF SilenceInv, SynsAreCalls
  <2>2. TcpState[p] # "SynReceived"
    BY <1>1, <1>2, Roles
  <2>3. Live(p) => TcpState[p] # "Established"
    <3> SUFFICES ASSUME TcpState[p] = "Established", down[p] # "panic"
                 PROVE  FALSE
      BY DEF Live
    <3>1. RemoteSessNonce[p] \in Nat /\ RemoteSessNonce[p] # 0 /\ RemoteSessNonce[p] <= LocalSessNonce[e]
      BY <1>1, TypeFacts DEF SessionInv, SessionOf, NoncesAreOld, PeerIsKnown, NoNonce
    <3>2. LocalSessNonce[e] = 1
      BY DEF SilenceInv
    <3>3. RemoteSessNonce[p] = LocalSessNonce[e]
      BY <3>1, <3>2
    <3> QED BY <1>1, <3>3 DEF SessionInv, MutualOf, Joined
  <2> QED BY <2>1, <2>2, <2>3 DEF Open
<1>10. RetriesAreLosses(e)'
  <2>1. PICK q : q = NewPacket(e, "SynAck", m.nonce)
    OBVIOUS
  <2>2. q \in net' /\ q.from = e /\ q.event = "SynAck"
    BY <1>5, <2>1 DEF NewPacket
  <2>3. Live(p)' => Live(p)
    BY <1>5 DEF Live
  <2>4. TcpState'[p] = "SynSent" => AnswerIsDue(e)'
    BY <2>2 DEF AnswerIsDue
  <2>5. retry'[e].attemptCount <= losses'
    BY <1>1, <1>2, <1>4
  <2> QED BY <1>6, <1>9, <2>3, <2>4, <2>5, Zenon DEF RetriesAreLosses
<1>11. \A q \in net' : q \in net \/ q.event # "Syn"
  BY <1>1, <1>5 DEF NewPacket
<1>12. Live(e)' => Live(e) /\ TcpState'[e] \in Open
  BY <1>5, <1>6 DEF Open, Live
<1> QED BY <1>1, <1>2, <1>5, <1>6, <1>7, <1>8, <1>10, <1>11, <1>12, SilenceStep

\* A server that hears of its client waits no more, and its client waits for nothing.
LEMMA EstabKeepsSilence ==
  ASSUME OneOpener, SessionInv, SilenceInv, NEW e \in Endpoint, NEW m \in net, Receive(e, m),
         TcpState[e] = "SynReceived", Handle(e, m, "Established", "NoAction")
  PROVE  SilenceInv'
<1> DEFINE p == Peer(e)
<1>1. /\ TypeOK /\ Live(e)
      /\ Arrived(m) \subseteq net /\ UNCHANGED <<LocalSessNonce, losses, synFailures>>
      /\ p \in Endpoint /\ p # e /\ Peer(p) = e
  BY AcceptedFacts, PeerFacts
<1>2. /\ losses <= MaxLosses /\ p \in Openers
      /\ down[e] = "stopping" => ~Live(p)
  BY DEF SilenceInv
<1>3. /\ TcpState' = [TcpState EXCEPT ![e] = "Established"]
      /\ SetupRetry(e, "Established", "NoAction", m.nonce)
      /\ net' = Arrived(m)
      /\ UNCHANGED <<RemoteSessNonce, connReqPending, sendSyn, down>>
  BY DEF Handle, DoTcpAction, reqVars
<1>4. /\ \A f \in Endpoint : f # e => retry'[f] = retry[f]
      /\ ~retry'[e].inUse
  BY <1>1, <1>3, RetryEnds
<1>5. TcpState'[e] = "Established"
  BY <1>1, <1>3 DEF TypeOK
<1>6. OthersStay(e)
  BY <1>1, <1>3, <1>4 DEF OthersStay, TypeOK
<1>7. RetriesAreLosses(e)' /\ RetriesAreLosses(p)'
  BY <1>1, <1>2, <1>4, Roles DEF RetriesAreLosses
<1>8. Live(e)' => Live(e) /\ TcpState'[e] \in Open
  BY <1>1, <1>5 DEF Open
<1> QED BY <1>1, <1>2, <1>3, <1>5, <1>6, <1>7, <1>8, SilenceStep

\* A client that hears of its server answers; its server still waits for that.
LEMMA SynAckKeepsSilence ==
  ASSUME OneOpener, SessionInv, SilenceInv, NEW e \in Endpoint, NEW m \in net, Receive(e, m),
         TcpState[e] = "SynSent", Handle(e, m, "Established", "SendEstabAck")
  PROVE  SilenceInv'
<1> DEFINE p == Peer(e)
<1>1. /\ TypeOK /\ Live(e) /\ m.nonce \in Nonce
      /\ Arrived(m) \subseteq net /\ UNCHANGED <<LocalSessNonce, losses, synFailures>>
      /\ p \in Endpoint /\ p # e /\ Peer(p) = e
  BY AcceptedFacts, PeerFacts
<1>2. /\ losses <= MaxLosses /\ RetriesAreLosses(p)
      /\ down[e] = "stopping" => ~Live(p)
  BY <1>1 DEF SilenceInv
<1>3. /\ TcpState' = [TcpState EXCEPT ![e] = "Established"]
      /\ SetupRetry(e, "Established", "SendEstabAck", m.nonce)
      /\ SendEstabAck(e, m.nonce, Arrived(m))
  BY DEF Handle, DoTcpAction
<1>4. /\ \A f \in Endpoint : f # e => retry'[f] = retry[f]
      /\ ~retry'[e].inUse
  BY <1>1, <1>3, RetryEnds
<1>5. /\ \A f \in Endpoint : f # e =>
           /\ RemoteSessNonce'[f] = RemoteSessNonce[f] /\ down'[f] = down[f]
           /\ connReqPending'[f] = connReqPending[f] /\ sendSyn'[f] = sendSyn[f]
      /\ \/ down'[e] = "panic" /\ net' = Arrived(m)
         \/ down' = down /\ net' = Arrived(m) \cup {NewPacket(e, "EstabAck", m.nonce)}
  BY <1>1, <1>3, SendEstabAckOutcomes
<1>6. TcpState'[e] = "Established"
  BY <1>1, <1>3 DEF TypeOK
<1>7. OthersStay(e)
  BY <1>1, <1>3, <1>4, <1>5 DEF OthersStay, TypeOK
<1>8. RetriesAreLosses(e)'
  BY <1>4 DEF RetriesAreLosses
<1>9. RetriesAreLosses(p)'
  <2> SUFFICES ASSUME Live(p), down' = down, retry[p].inUse,
                      net' = Arrived(m) \cup {NewPacket(e, "EstabAck", m.nonce)}
               PROVE  retry[p].attemptCount <= losses /\ AnswerIsDue(p)'
    BY <1>1, <1>4, <1>5, <1>6 DEF RetriesAreLosses, Live
  <2>1. retry[p].attemptCount <= losses
    BY <1>1, <1>2, Zenon DEF RetriesAreLosses
  <2>2. PICK q : q = NewPacket(e, "EstabAck", m.nonce)
    OBVIOUS
  <2>3. q \in net' /\ q.from = e /\ q.event = "EstabAck"
    BY <2>2 DEF NewPacket
  <2> QED BY <1>1, <1>6, <2>1, <2>3 DEF AnswerIsDue, Confirms
<1>10. \A q \in net' : q \in net \/ q.event # "Syn"
  BY <1>1, <1>5 DEF NewPacket
<1>11. Live(e)' => Live(e) /\ TcpState'[e] \in Open
  BY <1>1, <1>6 DEF Open
<1>12. down'[e] = "stopping" => ~Live(p)
  BY <1>2, <1>5
<1> QED BY <1>1, <1>2, <1>6, <1>7, <1>8, <1>9, <1>10, <1>11, <1>12, SilenceStep

LEMMA ReceiveKeepsSilence ==
  ASSUME TimelyLife, SessionInv, SilenceInv, NEW e \in Endpoint, NEW m \in net, Receive(e, m)
  PROVE  SilenceInv'
<1> DEFINE s == TcpState[e]
<1>1. /\ TypeOK /\ OneOpener /\ m.from = Peer(e) /\ Live(e) /\ s \in Open
      /\ Arrived(m) = net \ {m}
      /\ UNCHANGED <<LocalSessNonce, losses, synFailures, probed>>
  BY AcceptedFacts DEF TimelyLife, Arrived, SilenceInv
<1>2. ASSUME NEW act \in {"NoAction", "SendDataAck"}, Handle(e, m, s, act)
      PROVE  SilenceInv'
  <2>1. /\ TcpState' = TcpState /\ retry' = retry /\ net' = net \ {m}
        /\ UNCHANGED <<RemoteSessNonce, connReqPending, sendSyn, down>>
    BY <1>1, <1>2 DEF Handle, SetupRetry, DoTcpAction, reqVars, TypeOK
  <2>2. ~(s = "SynSent" /\ m.event = "SynAck") /\ ~(s = "SynReceived" /\ Confirms(m))
    BY <1>1, <2>1, AnswerMoves
  <2> QED BY <1>1, <2>1, <2>2, OtherPacketKeepsSilence
<1>3. CASE s \in Open /\ m.event = "Fin" /\ Handle(e, m, "Closed", "DoAppClose")
  BY <1>1, <1>3, FinKeepsSilence
<1>4. CASE s = "CloseInitiatorHasSentFin"
  BY <1>1, <1>4 DEF Open
<1>5. CASE s = "Listen" /\ m.event = "Syn" /\ Handle(e, m, "SynReceived", "SendSynAck")
  BY <1>1, <1>5, SynKeepsSilence
<1>6. CASE s = "SynReceived" /\ Handle(e, m, "Established", "NoAction")
  BY <1>1, <1>6, EstabKeepsSilence
<1>7. CASE s = "SynSent" /\ m.event = "SynAck" /\ Handle(e, m, "Established", "SendEstabAck")
  BY <1>1, <1>7, SynAckKeepsSilence
<1>8. CASE s = "SynSent" /\ m.event = "Syn"
  BY <1>1, <1>8, Roles, PeerFacts
<1> QED BY <1>1, <1>2, <1>3, <1>4, <1>5, <1>6, <1>7, <1>8, ReceiveOutcomes

\* A loss may take any answer that was due, and pays for the next try.
LEMMA LoseKeepsSilence ==
  ASSUME SessionInv, SilenceInv, NEW m \in net, Lose(m)
  PROVE  SilenceInv'
<1>1. /\ TypeOK /\ losses \in Nat /\ losses' = losses + 1 /\ losses < MaxLosses
      /\ MaxLosses \in Nat /\ net' \subseteq net
      /\ UNCHANGED <<LocalSessNonce, TcpState, RemoteSessNonce, connReqPending, sendSyn, retry,
                     down, synFailures, probed>>
  BY HandshakeAssumption DEF SessionInv, TypeOK, Lose, reqVars
<1>2. m.from \in Endpoint
  BY <1>1, PacketFacts
<1> DEFINE e == m.from
<1>3. OthersStay(e) /\ losses' <= MaxLosses
  BY <1>1 DEF OthersStay
<1>4. ASSUME NEW f \in Endpoint
      PROVE  RetriesAreLosses(f)'
  <2> SUFFICES ASSUME Live(f), Live(Peer(f)), retry[f].inUse
               PROVE  /\ TcpState[Peer(f)] \in {"SynSent", "Established"}
                      /\ retry[f].attemptCount < losses'
                      /\ retry[f].attemptCount <= losses'
    BY <1>1 DEF RetriesAreLosses, Live
  <2>1. /\ TcpState[Peer(f)] \in {"SynSent", "Established"}
        /\ retry[f].attemptCount <= losses
    BY DEF SilenceInv, RetriesAreLosses
  <2>2. retry[f].attemptCount \in Nat
    BY <1>1, TypeFacts, HandshakeAssumption
  <2> QED BY <1>1, <2>1, <2>2
<1>5. /\ sendSyn[e] # "none" => TcpState[e] # "Listen"
      /\ Live(e) => TcpState[e] \in Open
      /\ TcpState[e] = "SynReceived" => Peer(e) \in Openers
      /\ down[e] = "stopping" => ~Live(Peer(e))
  BY <1>2 DEF SilenceInv, SynsAreCalls
<1>6. Live(e)' = Live(e)
  BY <1>1 DEF Live
<1>7. RetriesAreLosses(e)' /\ RetriesAreLosses(Peer(e))'
  BY <1>2, <1>4, PeerFacts
<1> HIDE DEF e
<1> QED BY <1>1, <1>2, <1>3, <1>5, <1>6, <1>7, SilenceStep DEF e

-----------------------------------------------------------------------------

\* Where one end alone connects and keeps alive and none restarts: while both loops
\* run, an end that still retries has counted no more attempts than packets were lost,
\* and fewer when no answer is under way (retry.go:30-76, swp.go:146-149).
THEOREM SilenceInvariant ==
  ASSUME TimelyLife
  PROVE  Spec => []SilenceInv
<1>1. Init => SilenceInv
  <2> SUFFICES ASSUME Init PROVE SilenceInv
    OBVIOUS
  <2>1. /\ \A e \in Endpoint : /\ LocalSessNonce[e] = 1 /\ TcpState[e] = "Listen"
                               /\ sendSyn[e] = "none" /\ down[e] = "no" /\ ~retry[e].inUse
        /\ net = {} /\ losses <= MaxLosses
    BY HandshakeAssumption DEF Init, NoRetry
  <2> QED BY <2>1 DEF SilenceInv, SynsAreCalls, RetriesAreLosses, Live, Open
<1>2. SessionInv /\ SilenceInv /\ [Next]_vars => SilenceInv'
  <2> SUFFICES ASSUME SessionInv, SilenceInv, [Next]_vars
               PROVE  SilenceInv'
    OBVIOUS
  <2>0. OneOpener /\ MaxRestarts = 0
    BY DEF TimelyLife
  <2>1. ASSUME NEW e \in Endpoint,
               \/ Connect(e) \/ ConnectTimeout(e) \/ KeepAlive(e) \/ RetryCheck(e) \/ Exit(e)
               \/ Close(e) \/ SynIsSent(e) \/ SynFails(e)
        PROVE  SilenceInv'
    BY <2>0, <2>1, QuietStepsKeepSilence, KeepAliveKeepsSilence, RetryCheckKeepsSilence
  <2>2. ASSUME NEW e \in Endpoint, Restart(e)
        PROVE  FALSE
    <3>1. LocalSessNonce[A] = 1 /\ LocalSessNonce[B] = 1
      BY DEF SilenceInv, Endpoint
    <3> QED BY <2>0, <2>2, <3>1 DEF Restart
  <2>3. ASSUME NEW e \in Endpoint, NEW m \in net, Receive(e, m) \/ Refuse(e, m)
        PROVE  SilenceInv'
    BY <2>3, ReceiveKeepsSilence, RefuseKeepsSilence
  <2>4. ASSUME NEW m \in net, Lose(m)
        PROVE  SilenceInv'
    BY <2>4, LoseKeepsSilence
  <2>5. CASE UNCHANGED vars
    BY <2>5 DEF vars, reqVars, connVars, SilenceInv, SynsAreCalls, RetriesAreLosses, AnswerIsDue,
                Confirms, Live
  <2> QED BY <2>1, <2>2, <2>3, <2>4, <2>5 DEF Next
<1> QED BY <1>1, <1>2, SessionCorrect, PTL DEF Spec

\* A server gives up on no client that is Established, as long as the network loses
\* no more packets than the server has tries: keepalives make up for the EstabAck
\* that was lost (retry.go:30-76, swp.go:146-149).
THEOREM SilenceCorrect ==
  ASSUME TimelyLife
  PROVE  Spec => []GivesUpOnlyOnSilence
<1>1. SilenceInv => GivesUpOnlyOnSilence
  BY DEF SilenceInv, GivesUpOnlyOnSilence
<1> QED BY <1>1, SilenceInvariant, PTL
=============================================================================
