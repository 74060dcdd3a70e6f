----------------------------- MODULE MCHandshake -----------------------------
(* Values for TLC of the constants of Handshake that are sets of endpoints. *)
EXTENDS Handshake

OnlyA == {A}
Nobody == {}
=============================================================================
