------------------------------ MODULE ProofFacts ------------------------------
(***************************************************************************)
(* What the proofs of several components need.  A loop of the code is a    *)
(* recursive function of the turn over an interval; induction over the     *)
(* turns comes from the least element of a set of natural numbers, and     *)
(* with it such a function exists.  Two sequences joined keep their items, *)
(* and frames less than a window apart have slots of their own.            *)
(***************************************************************************)
EXTENDS Integers, Sequences, SequenceTheorems, WellFoundedInduction, TLAPS

-----------------------------------------------------------------------------
(* Loops. *)

LEMMA LeastElement ==
  ASSUME NEW T \in SUBSET Nat, T # {}
  PROVE  \E x \in T : \A y \in T : x <= y
<1> DEFINE R == {ss \in Nat \X Nat : ss[1] < ss[2]}
<1>1. IsWellFoundedOn(R, Nat)
  BY NatLessThanWellFounded DEF OpToRel
<1>2. PICK x \in T : \A y \in T : ~(<<y, x>> \in R)
  <2> HIDE DEF R
  <2> QED BY <1>1, WFMin
<1>3. ASSUME NEW y \in T
      PROVE  x <= y
  <2>1. <<y, x>> \notin R /\ x \in Nat /\ y \in Nat
    BY <1>2
  <2>2. ~(y < x)
    BY <2>1
  <2> QED BY <2>1, <2>2
<1> QED BY <1>3

LEMMA Induct ==
  ASSUME NEW S \in SUBSET Nat, 0 \in S, \A n \in Nat : n \in S => n + 1 \in S
  PROVE  S = Nat
<1> SUFFICES ASSUME NEW k \in Nat, k \notin S
             PROVE  FALSE
  OBVIOUS
<1>1. PICK x \in Nat \ S : \A y \in Nat \ S : x <= y
  <2> DEFINE T == Nat \ S
  <2>1. T # {} /\ T \in SUBSET Nat
    OBVIOUS
  <2> HIDE DEF T
  <2>2. \E x \in T : \A y \in T : x <= y
    BY <2>1, LeastElement
  <2> QED BY <2>2 DEF T
<1>2. x # 0 /\ x - 1 \in Nat /\ x - 1 \in S
  BY <1>1
<1> QED BY <1>1, <1>2

\* What a loop of L turns does: the state before the first is s0, turn k is g[k].
IsRunOf(f, L, s0, g) == f = [k \in 0..L |-> IF k = 0 THEN s0 ELSE g[k][f[k - 1]]]

LEMMA RunExists ==
  ASSUME NEW St, NEW L \in Nat, NEW s0 \in St, NEW g \in [1..L -> [St -> St]]
  PROVE  \E f \in [0..L -> St] : IsRunOf(f, L, s0, g)
<1> DEFINE S == {n \in Nat : n <= L => \E f \in [0..n -> St] : IsRunOf(f, n, s0, g)}
<1>1. 0 \in S
  <2> DEFINE f == [k \in 0..0 |-> s0]
  <2>1. f \in [0..0 -> St] /\ IsRunOf(f, 0, s0, g)
    BY DEF IsRunOf
  <2> QED BY <2>1
<1>2. ASSUME NEW n \in Nat, n \in S
      PROVE  n + 1 \in S
  <2> SUFFICES ASSUME n + 1 <= L
               PROVE  \E f \in [0..(n + 1) -> St] : IsRunOf(f, n + 1, s0, g)
    OBVIOUS
  <2>1. PICK f \in [0..n -> St] : IsRunOf(f, n, s0, g)
    BY <1>2
  <2> DEFINE h == [k \in 0..(n + 1) |-> IF k = n + 1 THEN g[n + 1][f[n]] ELSE f[k]]
  <2>2. h \in [0..(n + 1) -> St]
    OBVIOUS
  <2>3. ASSUME NEW k \in 0..(n + 1)
        PROVE  h[k] = IF k = 0 THEN s0 ELSE g[k][h[k - 1]]
    <3>1. CASE k = n + 1
      BY <3>1, SMTT(30)
    <3>2. CASE k # n + 1
      <4>1. k \in 0..n /\ h[k] = f[k] /\ (k # 0 => h[k - 1] = f[k - 1])
        BY <3>2
      <4> QED BY <4>1, <2>1 DEF IsRunOf
    <3> QED BY <3>1, <3>2
  <2>4. IsRunOf(h, n + 1, s0, g)
    <3>1. h = [k \in 0..(n + 1) |-> h[k]]
      OBVIOUS
    <3> HIDE DEF h
    <3> QED BY <3>1, <2>3 DEF IsRunOf
  <2> QED BY <2>2, <2>4
<1> HIDE DEF S
<1>3. L \in S
  <2>1. S \in SUBSET Nat
    BY DEF S
  <2> QED BY <1>1, <1>2, <2>1, Induct
<1> QED BY <1>3 DEF S

-----------------------------------------------------------------------------
(* Sequences. *)

\* Where the items of two sequences are when they are joined.
LEMMA Joining ==
  ASSUME NEW S, NEW s \in Seq(S), NEW t \in Seq(S)
  PROVE  /\ s \o t \in Seq(S) /\ Len(s \o t) = Len(s) + Len(t)
         /\ Len(s) \in Nat /\ Len(t) \in Nat
         /\ \A i \in 1..Len(s) : (s \o t)[i] = s[i]
         /\ \A i \in 1..Len(t) : (s \o t)[Len(s) + i] = t[i]
<1>1. Len(s) \in Nat /\ Len(t) \in Nat
  OBVIOUS
<1>2. /\ s \o t \in Seq(S) /\ Len(s \o t) = Len(s) + Len(t)
      /\ \A i \in 1..(Len(s) + Len(t)) :
           (s \o t)[i] = IF i <= Len(s) THEN s[i] ELSE t[i - Len(s)]
  BY ConcatProperties
<1>3. ASSUME NEW i \in 1..Len(s)
      PROVE  (s \o t)[i] = s[i]
  BY <1>1, <1>2
<1>4. ASSUME NEW i \in 1..Len(t)
      PROVE  (s \o t)[Len(s) + i] = t[i]
  <2>1. /\ Len(s) + i \in 1..(Len(s) + Len(t)) /\ ~(Len(s) + i <= Len(s))
        /\ Len(s) + i - Len(s) = i
    BY <1>1
  <2> QED BY <1>2, <2>1
<1> QED BY <1>1, <1>2, <1>3, <1>4

-----------------------------------------------------------------------------
(* Arithmetic of the ring buffers: frames less than a window apart lie in   *)
(* different slots.                                                         *)

LEMMA DivMod ==
  ASSUME NEW w \in Nat \ {0}, NEW a \in Nat
  PROVE  a % w \in 0..(w - 1) /\ a \div w \in Int /\ a = w * (a \div w) + (a % w)
  OBVIOUS

LEMMA MulAtLeast ==
  ASSUME NEW w \in Nat \ {0}, NEW d \in Int, d >= 1
  PROVE  w * d >= w
  OBVIOUS

\* Two frames less than a window apart that share a slot are the same frame
\* (SeqNum % RecvWindowSize, recv.go:502).
LEMMA ModInjective ==
  ASSUME NEW w \in Nat \ {0}, NEW a \in Nat, NEW b \in Nat,
         a % w = b % w, a < b + w, b < a + w
  PROVE  a = b
<1> DEFINE qa == a \div w
           qb == b \div w
<1>1. a = w * qa + (a % w) /\ b = w * qb + (b % w) /\ qa \in Int /\ qb \in Int /\ a % w \in Int
  BY DivMod
<1> HIDE DEF qa, qb
<1>2. b - a = w * (qb - qa) /\ a - b = w * (qa - qb)
  BY <1>1
<1>3. qb - qa < 1 /\ qa - qb < 1
  BY <1>1, <1>2, MulAtLeast
<1> QED BY <1>1, <1>3
===============================================================================
