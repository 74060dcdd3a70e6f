----------------------------- MODULE MCEventRing -----------------------------
(* An instance of EventRing for TLC: a few times, and the slices of them that *)
(* fill, overfill and outgrow a ring of two.                                  *)
EXTENDS EventRing

FewTimes == 0..2
Slices == UNION {[1..n -> {0, 2}] : n \in 0..3}
UpToThree == 0..3
=============================================================================
