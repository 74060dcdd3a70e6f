--------------------------- MODULE ReliableStream ---------------------------
(***************************************************************************)
(* What a pair of go-sliding-window sessions promises its two              *)
(* applications, with no packets, windows slots or acknowledgements in     *)
(* sight.  Each direction is a stream of messages numbered from zero.      *)
(*                                                                         *)
(*   pushed[e]     how many messages the application at e has pushed       *)
(*   got[e]        the messages the application at e has been handed       *)
(*   confirmed[e]  the messages whose delivery e has been told of          *)
(*                 (CliAcked, Accounting.NumBytesAcked)                    *)
(*                                                                         *)
(* The code counts message 0 as acknowledged before it is delivered, so    *)
(* the two places that promise makes room for that are written with First. *)
(***************************************************************************)
EXTENDS Integers, Sequences

CONSTANTS A, B,      \* the two endpoints
          Window     \* Window[e]: how many messages e's receiver buffers

VARIABLES pushed, got, confirmed

svars == <<pushed, got, confirmed>>

Endpoint == {A, B}
Peer(e) == IF e = A THEN B ELSE A

First == 1   \* messages that count as consumed from the start: message 0

Credit(n) == IF n < First THEN First ELSE n

SInit == /\ pushed = [e \in Endpoint |-> 0]
         /\ got = [e \in Endpoint |-> << >>]
         /\ confirmed = [e \in Endpoint |-> {}]

\* The application at e pushes its next message: only while the peer has room.
SPush(e) ==
  /\ pushed[e] < Window[Peer(e)] + Credit(Len(got[Peer(e)]))
  /\ pushed' = [pushed EXCEPT ![e] = @ + 1]
  /\ UNCHANGED <<got, confirmed>>

\* The application at e takes the next k messages the peer pushed, in order.
STake(e) ==
  /\ \E k \in 1..(pushed[Peer(e)] - Len(got[e])) :
       got' = [got EXCEPT ![e] = @ \o [j \in 1..k |-> Len(got[e]) + j - 1]]
  /\ UNCHANGED <<pushed, confirmed>>

\* e learns that more messages were delivered.
SConfirm(e) ==
  /\ \E S \in SUBSET (0..(Credit(Len(got[Peer(e)])) - 1)) :
       /\ S \subseteq 0..(pushed[e] - 1)
       /\ confirmed' = [confirmed EXCEPT ![e] = @ \cup S]
  /\ UNCHANGED <<pushed, got>>

SNext == \E e \in Endpoint : SPush(e) \/ STake(e) \/ SConfirm(e)

SSpec == SInit /\ [][SNext]_svars
=============================================================================
