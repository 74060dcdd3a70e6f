------------------------------ MODULE RetrySet -------------------------------
(***************************************************************************)
(* What the sendloop needs of its retry trees: the frames that are sent    *)
(* and not acknowledged, each with the time at which it is due again.  An  *)
(* ack forgets the frames it covers and no other, and a wakeup resends     *)
(* every frame that is due, each once, before anything else happens.       *)
(***************************************************************************)
EXTENDS Integers

CONSTANT RetryDurs   \* Bound: the durations GetDeadlineDur may return

VARIABLES now,       \* the clock
          lastSent,  \* the number of the last frame, from 0
          unacked,   \* the frames to be acknowledged: a function to deadlines
          due        \* the frames the wakeup that runs has still to resend

vars == <<now, lastSent, unacked, due>>

SInit == now = 0 /\ lastSent = -1 /\ unacked = << >> /\ due = {}

Tick == now' = now + 1 /\ UNCHANGED <<lastSent, unacked, due>>

Send ==
  /\ due = {}
  /\ lastSent' = lastSent + 1
  /\ \E dur \in RetryDurs :
       unacked' = [n \in (DOMAIN unacked) \cup {lastSent'} |->
                     IF n = lastSent' THEN now + dur ELSE unacked[n]]
  /\ UNCHANGED <<now, due>>

Ack(ackNum) ==
  /\ due = {}
  /\ unacked' = [n \in {k \in DOMAIN unacked : k > ackNum} |-> unacked[n]]
  /\ UNCHANGED <<now, lastSent, due>>

Wakeup ==
  /\ due = {}
  /\ due' = {n \in DOMAIN unacked : unacked[n] <= now}
  /\ UNCHANGED <<now, lastSent, unacked>>

Resend ==
  \E n \in due, dur \in RetryDurs :
    /\ unacked' = [unacked EXCEPT ![n] = now + dur]
    /\ due' = due \ {n}
    /\ UNCHANGED <<now, lastSent>>

SNext == Tick \/ Send \/ (\E ackNum \in -1..lastSent : Ack(ackNum)) \/ Wakeup \/ Resend

SSpec == SInit /\ [][SNext]_vars
=============================================================================
