-------------------------- MODULE SlidingWindowLive -------------------------
(***************************************************************************)
(* Progress of the data path: SlidingWindow under the fairness that its    *)
(* two loops and its network give.                                         *)
(***************************************************************************)
EXTENDS SlidingWindow

\* The network delivers, sooner or later, what is sent again and again.
RecvData(e, n) == \E m \in net : m.type = "Data" /\ m.seq = n /\ RecvPack(e, m)
RecvAck(e) == \E m \in net : m.type = "DataAck" /\ RecvPack(e, m)
RecvProbe(e) == \E m \in net : m.type = "KeepAlive" /\ RecvPack(e, m)

\* Both loops are a select in a for: a case that stays ready is taken, and one
\* that is ready again and again is taken too, the choice being random.  The
\* application at e keeps pushing, its peer's keeps reading.
StreamFairness(e) ==
  /\ SF_vars(AcceptSend(e))
  /\ WF_vars(Retry(e))
  /\ SF_vars(KeepAlive(e))
  /\ WF_vars(HandleHandoff(e)) /\ WF_vars(HandleHandoff(Peer(e)))
  /\ SF_vars(DeliverToConsumer(Peer(e)))
  /\ \A n \in 0..(MaxSend[e] - 1) : SF_vars(RecvData(Peer(e), n))
  /\ SF_vars(RecvAck(e))
  /\ SF_vars(RecvProbe(Peer(e)))

FairSpec == Spec /\ \A e \in Endpoint : MaxSend[e] > 0 => StreamFairness(e)

AllConsumed(e) == Len(Consumed[e]) = MaxSend[Peer(e)]

\* Once a stream has got its first message through, all of it gets through: no
\* loss, reordering or stale advertisement stops it for ever.
StreamCompletes ==
  \A e \in Endpoint : <>(Consumed[e] # << >>) => <>AllConsumed(e)

\* The README's promise without that condition.
EverythingDelivered == \A e \in Endpoint : <>AllConsumed(e)
=============================================================================
