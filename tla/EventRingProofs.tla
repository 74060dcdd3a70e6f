--------------------------- MODULE EventRingProofs ---------------------------
(***************************************************************************)
(* Proofs about EventRing, for every size of the ring, window, events and  *)
(* arguments: its indices stay inside the array, and it is a bounded queue. *)
(***************************************************************************)
EXTENDS EventRing, ProofFacts, SequenceTheorems

-----------------------------------------------------------------------------
(* Indices wrap at most once. *)

LEMMA MulBetween ==
  ASSUME NEW w \in Nat \ {0}, NEW d \in Int
  PROVE  /\ d >= 2 => w * d >= 2 * w
         /\ d <= -1 => w * d <= -w
  OBVIOUS

\* Modulo the length of the array, a number below twice that length.
LEMMA WrapOnce ==
  ASSUME NEW w \in Nat \ {0}, NEW a \in Nat, a < 2 * w
  PROVE  a % w = IF a < w THEN a ELSE a - w
<1> DEFINE d == a \div w
<1>1. a % w \in 0..(w - 1) /\ d \in Int /\ a = w * d + (a % w)
  BY DivMod
<1> HIDE DEF d
<1>2. d # 1 /\ d # 0 => FALSE
  BY <1>1, MulBetween
<1>3. (d = 0 => w * d = 0) /\ (d = 1 => w * d = w)
  OBVIOUS
<1> QED BY <1>1, <1>2, <1>3

\* The slot at distance i from the start, that of event i + 1.
Slot(i) == (Beg + i) % N

LEMMA SlotAt ==
  ASSUME TypeOK, NEW i \in 0..N
  PROVE  /\ Slot(i) = IF Beg + i < N THEN Beg + i ELSE Beg + i - N
         /\ Slot(i) \in 0..(N - 1)
<1> DEFINE a == Beg + i
<1>1. N \in Nat \ {0} /\ a \in Nat /\ a < 2 * N
  BY DEF TypeOK
<1> HIDE DEF a
<1>2. a % N = IF a < N THEN a ELSE a - N
  BY <1>1, WrapOnce
<1> QED BY <1>1, <1>2 DEF a, TypeOK, Slot

LEMMA SlotBefore ==
  ASSUME TypeOK, NEW i \in 1..N
  PROVE  (Beg + i - 1) % N = Slot(i - 1) /\ i - 1 \in 0..N
BY DEF TypeOK, Slot

-----------------------------------------------------------------------------
(* What the operators of EventRing compute. *)

LEMMA ContentsFacts ==
  ASSUME TypeOK
  PROVE  /\ Contents \in Seq(Int) /\ Len(Contents) = Readable /\ DOMAIN Contents = 1..Readable
         /\ \A i \in 1..Readable : Contents[i] = A[(Beg + i - 1) % N]
<1>1. \A i \in 1..Readable : A[(Beg + i - 1) % N] \in Int
  <2> SUFFICES ASSUME NEW i \in 1..Readable
               PROVE  A[(Beg + i - 1) % N] \in Int
    OBVIOUS
  <2>1. (Beg + i - 1) % N \in 0..(N - 1)
    <3>1. i \in 1..N
      BY DEF TypeOK
    <3> QED BY <3>1, SlotBefore, SlotAt
  <2> QED BY <2>1 DEF TypeOK
<1>2. Readable \in Nat
  BY DEF TypeOK
<1>3. Contents \in Seq(Int)
  BY <1>1, <1>2, IsASeq DEF Contents
<1> QED BY <1>2, <1>3, LenProperties DEF Contents

\* ReadPtrs and TwoContig see the oldest events, in order, also when they wrap.
LEMMA CopyOutIsContents ==
  ASSUME TypeOK, NEW n \in 0..Readable
  PROVE  CopyOut(n) = SubSeq(Contents, 1, n) /\ CopyOut(n) \in Seq(Int)
<1>1. \A i \in 1..n : CopyOut(n)[i] = Contents[i] /\ Contents[i] \in Int
  <2> SUFFICES ASSUME NEW i \in 1..n
               PROVE  CopyOut(n)[i] = Contents[i] /\ Contents[i] \in Int
    OBVIOUS
  <2>1. i \in 1..Readable /\ i \in 1..N
    BY DEF TypeOK
  <2>2. Contents[i] = A[(Beg + i - 1) % N] /\ Contents[i] \in Int
    BY <2>1, ContentsFacts, LenProperties
  <2>5. (Beg + i - 1) % N = IF Beg + i - 1 < N THEN Beg + i - 1 ELSE Beg + i - 1 - N
    BY <2>1, SlotBefore, SlotAt DEF TypeOK
  <2>3. CASE i <= N - Beg
    <3>1. (Beg + i - 1) % N = Beg + i - 1
      BY <2>1, <2>3, <2>5 DEF TypeOK
    <3> QED BY <2>2, <2>3, <3>1 DEF CopyOut
  <2>4. CASE ~(i <= N - Beg)
    <3>1. (Beg + i - 1) % N = i - (N - Beg) - 1
      BY <2>1, <2>4, <2>5 DEF TypeOK
    <3> QED BY <2>2, <2>4, <3>1 DEF CopyOut
  <2> QED BY <2>3, <2>4
<1>2. n \in Nat /\ CopyOut(n) = [i \in 1..n |-> CopyOut(n)[i]]
  BY DEF CopyOut, TypeOK
<1>3. CopyOut(n) \in Seq(Int) /\ Len(CopyOut(n)) = n
  <2>1. CopyOut(n) \in [1..n -> Int]
    BY <1>1, <1>2
  <2> QED BY <1>2, <2>1, IsASeq, LenProperties
<1>4. /\ SubSeq(Contents, 1, n) \in Seq(Int) /\ Len(SubSeq(Contents, 1, n)) = n
      /\ \A i \in 1..n : SubSeq(Contents, 1, n)[i] = Contents[i]
  BY <1>1, <1>2, SubSeqProperties
<1> QED BY <1>1, <1>3, <1>4, SeqEqual

LEMMA BatchFacts ==
  ASSUME NEW p \in Batches
  PROVE  p \in Seq(Int) /\ Len(p) \in Nat /\ \A j \in 1..Len(p) : p[j] \in Int /\ p[j] \in Times
<1>1. p \in Seq(Times) /\ Times \subseteq Int
  BY RingAssumption
<1>2. Len(p) \in Nat /\ p \in [1..Len(p) -> Times]
  BY <1>1, LenProperties
<1>3. p \in [1..Len(p) -> Int]
  BY <1>1, <1>2
<1> QED BY <1>1, <1>2, <1>3, SeqDef

IsLeast(k, a, b, c) == k <= a /\ k <= b /\ k <= c /\ (k = a \/ k = b \/ k = c)

LEMMA LeastIsMin ==
  ASSUME NEW a \in Nat, NEW b \in Nat, NEW c \in Nat
  PROVE  Min2(a, Min2(b, c)) \in Nat /\ IsLeast(Min2(a, Min2(b, c)), a, b, c)
BY DEF Min2, IsLeast

\* The arithmetic of the loop of WritePtrs, on plain integers: a ring of n slots
\* that starts at beg and holds r events gets len more, k in the first turn, from
\* slot s on, and k1 in the second, from slot s1 on.
Place(n, beg, i) == IF beg + i < n THEN beg + i ELSE beg + i - n
Away(n, beg, x) == IF x >= beg THEN x - beg ELSE x - beg + n

TurnsOf(n, beg, r, len, m, s, k, s1, k1) ==
  /\ m = IF len < n - r THEN len ELSE n - r
  /\ s = Place(n, beg, r) /\ IsLeast(k, len, n - r, n - s)
  /\ s1 = Place(n, beg, r + k) /\ IsLeast(k1, len - k, n - (r + k), n - s1)

LEMMA TwoTurnsReachAll ==
  ASSUME NEW n \in Nat \ {0}, NEW beg \in 0..(n - 1), NEW r \in 0..n, NEW len \in Nat,
         NEW m \in Nat, NEW s \in Nat, NEW k \in Nat, NEW s1 \in Nat, NEW k1 \in Nat,
         TurnsOf(n, beg, r, len, m, s, k, s1, k1)
  PROVE  k + k1 = m
BY DEF TurnsOf, IsLeast, Place

\* Slot x is written in the second turn, or in the first one, or holds none of the
\* m events: in that order, since the second turn writes over the first.
InOrder(n, beg, r, m, s, k, s1, k1, x) ==
  LET d == Away(n, beg, x)
      second == s1 <= x /\ x < s1 + k1
      first == s <= x /\ x < s + k
      taken == r <= d /\ d < r + m
  IN /\ second => taken /\ k + x - s1 + 1 = d - r + 1
     /\ ~second /\ first => taken /\ 0 + x - s + 1 = d - r + 1
     /\ ~second /\ ~first => ~taken

LEMMA TwoTurnsPlaceInOrder ==
  ASSUME NEW n \in Nat \ {0}, NEW beg \in 0..(n - 1), NEW r \in 0..n, NEW len \in Nat,
         NEW m \in Nat, NEW s \in Nat, NEW k \in Nat, NEW s1 \in Nat, NEW k1 \in Nat,
         TurnsOf(n, beg, r, len, m, s, k, s1, k1),
         NEW x \in 0..(n - 1)
  PROVE  InOrder(n, beg, r, m, s, k, s1, k1, x)
BY DEF InOrder, TurnsOf, IsLeast, Place, Away

Turned(p, a, n, start, k) ==
  [x \in 0..(N - 1) |-> IF start <= x /\ x < start + k THEN p[n + x - start + 1] ELSE a[x]]

LEMMA TurnedType ==
  ASSUME TypeOK, NEW p \in Batches, NEW a \in [0..(N - 1) -> Int], NEW n \in Nat,
         NEW start \in Nat, NEW k \in Nat, n + k <= Len(p)
  PROVE  Turned(p, a, n, start, k) \in [0..(N - 1) -> Int]
<1>1. \A j \in 1..Len(p) : p[j] \in Int
  BY BatchFacts
<1>2. ASSUME NEW x \in 0..(N - 1), start <= x, x < start + k
      PROVE  p[n + x - start + 1] \in Int
  <2> DEFINE j == n + x - start + 1
  <2>1. x \in Int /\ Len(p) \in Int /\ N \in Int
    BY BatchFacts DEF TypeOK
  <2>2. j \in 1..Len(p)
    BY <1>2, <2>1
  <2> HIDE DEF j
  <2>3. p[j] \in Int
    BY <1>1, <2>2
  <2> QED BY <2>3 DEF j
<1> QED BY <1>2 DEF Turned

\* WritePtrs's loop: two turns put the first m events of p behind those held, m
\* being all of them or as many as there is room for, and change nothing else.
LEMMA TwoTurns ==
  ASSUME TypeOK, NEW p \in Batches, NEW m \in Nat, m = Min2(Len(p), N - Readable)
  PROVE  \E b \in [0..(N - 1) -> Int] :
           /\ Turn(p, Turn(p, [a |-> A, readable |-> Readable, n |-> 0]))
                = [a |-> b, readable |-> Readable + m, n |-> m]
           /\ \A x \in 0..(N - 1) :
                b[x] = IF Readable <= Away(N, Beg, x) /\ Away(N, Beg, x) < Readable + m
                         THEN p[Away(N, Beg, x) - Readable + 1] ELSE A[x]
<1>1. N \in Nat \ {0} /\ Beg \in 0..(N - 1) /\ Readable \in 0..N /\ A \in [0..(N - 1) -> Int]
      /\ Len(p) \in Nat
  BY BatchFacts DEF TypeOK
<1>2. PICK start \in 0..(N - 1) : start = Slot(Readable) /\ start = Place(N, Beg, Readable)
  BY <1>1, SlotAt DEF Place
<1>3. PICK k \in Nat : /\ k = Min2(Len(p) - 0, Min2(N - Readable, N - start))
                       /\ IsLeast(k, Len(p), N - Readable, N - start)
  <2>1. Len(p) \in Nat /\ N - Readable \in Nat /\ N - start \in Nat /\ Len(p) - 0 = Len(p)
    BY <1>1
  <2> QED BY <2>1, LeastIsMin
<1>4. k <= N - Readable /\ k <= Len(p) /\ k <= N - start
  BY <1>1, <1>3 DEF IsLeast
<1>5. PICK r1 \in 0..N : r1 = Readable + k
  BY <1>1, <1>4
<1>6. PICK start1 \in 0..(N - 1) : start1 = Slot(r1) /\ start1 = Place(N, Beg, r1)
  BY <1>1, SlotAt DEF Place
<1>7. PICK k1 \in Nat : /\ k1 = Min2(Len(p) - k, Min2(N - r1, N - start1))
                        /\ IsLeast(k1, Len(p) - k, N - r1, N - start1)
  <2>1. Len(p) - k \in Nat /\ N - r1 \in Nat /\ N - start1 \in Nat
    BY <1>1, <1>4
  <2> QED BY <2>1, LeastIsMin
<1>8. start \in Nat /\ start1 \in Nat
      /\ TurnsOf(N, Beg, Readable, Len(p), m, start, k, start1, k1)
  BY <1>1, <1>2, <1>3, <1>5, <1>6, <1>7 DEF TurnsOf, Min2
<1> DEFINE b1 == Turned(p, A, 0, start, k)
           b2 == Turned(p, b1, k, start1, k1)
<1>9. Turn(p, [a |-> A, readable |-> Readable, n |-> 0])
        = [a |-> b1, readable |-> r1, n |-> k]
  <2>1. 0 + k = k
    OBVIOUS
  <2>2. Turn(p, [a |-> A, readable |-> Readable, n |-> 0])
          = [a |-> Turned(p, A, 0, start, k), readable |-> Readable + k, n |-> 0 + k]
    BY <1>2, <1>3, Zenon DEF Turn, Slot, Turned
  <2> QED BY <1>5, <2>1, <2>2
<1>10. k + k1 = m
  BY <1>1, <1>8, TwoTurnsReachAll
<1>11. Turn(p, [a |-> b1, readable |-> r1, n |-> k])
         = [a |-> b2, readable |-> Readable + m, n |-> m]
  <2> HIDE DEF b1
  <2>1. r1 + k1 = Readable + m
    BY <1>1, <1>5, <1>10
  <2>2. Turn(p, [a |-> b1, readable |-> r1, n |-> k])
          = [a |-> Turned(p, b1, k, start1, k1), readable |-> r1 + k1, n |-> k + k1]
    BY <1>6, <1>7, Zenon DEF Turn, Slot, Turned
  <2> QED BY <1>10, <2>1, <2>2
<1>12. b1 \in [0..(N - 1) -> Int]
  <2>1. 0 + k <= Len(p) /\ 0 \in Nat
    BY <1>1, <1>4
  <2> QED BY <1>1, <1>8, <2>1, TurnedType
<1>13. b2 \in [0..(N - 1) -> Int]
  <2>1. k + k1 <= Len(p)
    BY <1>1, <1>10 DEF Min2
  <2> HIDE DEF b1
  <2> QED BY <1>8, <1>12, <2>1, TurnedType
<1>14. ASSUME NEW x \in 0..(N - 1)
       PROVE  b2[x] = IF Readable <= Away(N, Beg, x) /\ Away(N, Beg, x) < Readable + m
                        THEN p[Away(N, Beg, x) - Readable + 1] ELSE A[x]
  <2> DEFINE d == Away(N, Beg, x)
             second == start1 <= x /\ x < start1 + k1
             first == start <= x /\ x < start + k
             taken == Readable <= d /\ d < Readable + m
  <2>2. b2[x] = (IF second THEN p[k + x - start1 + 1] ELSE b1[x])
        /\ b1[x] = IF first THEN p[0 + x - start + 1] ELSE A[x]
    BY DEF Turned
  <2>3. /\ second => taken /\ k + x - start1 + 1 = d - Readable + 1
        /\ ~second /\ first => taken /\ 0 + x - start + 1 = d - Readable + 1
        /\ ~second /\ ~first => ~taken
    <3>1. Len(p) \in Nat /\ x \in 0..(N - 1)
      BY <1>1
    <3>2. InOrder(N, Beg, Readable, m, start, k, start1, k1, x)
      BY <1>1, <1>8, <3>1, TwoTurnsPlaceInOrder
    <3> QED BY <3>2 DEF InOrder
  <2>4. b2[x] = IF taken THEN p[d - Readable + 1] ELSE A[x]
    <3> HIDE DEF second, first, taken, b1, b2
    <3> QED BY <2>2, <2>3
  <2> QED BY <2>4
<1> HIDE DEF b1, b2
<1>15. Turn(p, Turn(p, [a |-> A, readable |-> Readable, n |-> 0]))
         = [a |-> b2, readable |-> Readable + m, n |-> m]
  BY <1>9, <1>11
<1> QED BY <1>13, <1>14, <1>15

-----------------------------------------------------------------------------
(* What a ring holds, as a function of its parts. *)

ContentsOf(a, n, beg, r) == [i \in 1..r |-> a[(beg + i - 1) % n]]

LEMMA PlaceFacts ==
  ASSUME NEW n \in Nat \ {0}, NEW beg \in 0..(n - 1), NEW j \in 0..n
  PROVE  /\ Place(n, beg, j) \in 0..(n - 1)
         /\ j < n => Away(n, beg, Place(n, beg, j)) = j
         /\ j = n => Place(n, beg, j) = beg
         /\ (beg + j) % n = Place(n, beg, j)
<1>1. PICK x \in Nat : x = beg + j /\ x < 2 * n
  OBVIOUS
<1>2. x % n = IF x < n THEN x ELSE x - n
  BY <1>1, WrapOnce
<1>3. /\ Place(n, beg, j) \in 0..(n - 1)
      /\ j < n => Away(n, beg, Place(n, beg, j)) = j
      /\ j = n => Place(n, beg, j) = beg
  BY DEF Place, Away
<1>4. (beg + j) % n = Place(n, beg, j)
  <2>1. Place(n, beg, j) = IF x < n THEN x ELSE x - n
    BY <1>1 DEF Place
  <2> QED BY <1>1, <1>2, <2>1
<1> QED BY <1>3, <1>4

\* Distinct distances are distinct slots.
LEMMA PlaceInjective ==
  ASSUME NEW n \in Nat \ {0}, NEW beg \in 0..(n - 1), NEW i \in 0..(n - 1), NEW j \in 0..(n - 1),
         Place(n, beg, i) = Place(n, beg, j)
  PROVE  i = j
BY DEF Place

LEMMA PlaceFurther ==
  ASSUME NEW n \in Nat \ {0}, NEW beg \in 0..(n - 1), NEW k \in 0..n, NEW j \in Nat, k + j <= n
  PROVE  Place(n, Place(n, beg, k), j) = Place(n, beg, k + j)
BY DEF Place

\* A ring holds the sequence s when its slots, from the start, hold the elements of s.
Holds(a, n, beg, r, s) ==
  s \in Seq(Int) /\ Len(s) = r /\ \A j \in 0..(r - 1) : a[Place(n, beg, j)] = s[j + 1]

LEMMA HoldsSequence ==
  ASSUME NEW n \in Nat \ {0}, NEW beg \in 0..(n - 1), NEW r \in 0..n, NEW a, NEW s,
         Holds(a, n, beg, r, s)
  PROVE  ContentsOf(a, n, beg, r) = s
<1>1. ASSUME NEW i \in 1..r
      PROVE  ContentsOf(a, n, beg, r)[i] = s[i]
  <2>1. i - 1 \in 0..n /\ i - 1 \in 0..(r - 1) /\ beg + i - 1 = beg + (i - 1) /\ (i - 1) + 1 = i
    OBVIOUS
  <2>2. (beg + (i - 1)) % n = Place(n, beg, i - 1)
    BY <2>1, PlaceFacts
  <2>3. a[Place(n, beg, i - 1)] = s[(i - 1) + 1]
    BY <2>1 DEF Holds
  <2> QED BY <2>1, <2>2, <2>3 DEF ContentsOf
<1>2. r \in Nat /\ (\A i \in 1..r : s[i] \in Int) /\ s \in Seq(Int) /\ Len(s) = r
  BY LenProperties DEF Holds
<1>3. ContentsOf(a, n, beg, r) \in [1..r -> Int]
  BY <1>1, <1>2 DEF ContentsOf
<1>4. ContentsOf(a, n, beg, r) \in Seq(Int) /\ Len(ContentsOf(a, n, beg, r)) = r
  <2> HIDE DEF ContentsOf
  <2>1. ContentsOf(a, n, beg, r) \in Seq(Int)
    BY <1>2, <1>3, SeqDef
  <2> QED BY <1>2, <1>3, <2>1, LenProperties
<1> QED BY <1>1, <1>2, <1>4, SeqEqual

LEMMA ContentsPlace ==
  ASSUME TypeOK, NEW j \in 0..(Readable - 1)
  PROVE  A[Place(N, Beg, j)] = Contents[j + 1] /\ A[Place(N, Beg, j)] \in Int
<1>1. j + 1 \in 1..Readable /\ j \in 0..N /\ Beg + (j + 1) - 1 = Beg + j
      /\ N \in Nat \ {0} /\ Beg \in 0..(N - 1)
  BY DEF TypeOK
<1>2. Contents[j + 1] = A[(Beg + (j + 1) - 1) % N]
  BY <1>1, ContentsFacts
<1>3. (Beg + j) % N = Place(N, Beg, j) /\ Place(N, Beg, j) \in 0..(N - 1)
  BY <1>1, PlaceFacts
<1> QED BY <1>1, <1>2, <1>3 DEF TypeOK

LEMMA ContentsAreOf ==
  Contents = ContentsOf(A, N, Beg, Readable) /\ Contents' = ContentsOf(A', N', Beg', Readable')
BY DEF Contents, ContentsOf

-----------------------------------------------------------------------------
(* Each operation keeps the type and is the operation of the queue. *)

LEMMA AddIsAdd ==
  ASSUME TypeOK, NEW e \in Times, AddEventCheckOverflow(e)
  PROVE  TypeOK' /\ Queue!Add(e)
<1>1. N \in Nat \ {0} /\ Beg \in 0..(N - 1) /\ Readable \in 0..N /\ A \in [0..(N - 1) -> Int]
      /\ e \in Int
  BY RingAssumption DEF TypeOK
<1>2. N' = N /\ A' = [A EXCEPT ![Place(N, Beg, Readable)] = e]
      /\ Place(N, Beg, Readable) \in 0..(N - 1)
  BY <1>1, PlaceFacts DEF AddEventCheckOverflow
<1>3. A' \in [0..(N - 1) -> Int]
  BY <1>1, <1>2
<1>4. Contents \in Seq(Int) /\ Len(Contents) = Readable
  BY ContentsFacts
<1> DEFINE s == Append(IF Len(Contents) = N THEN Tail(Contents) ELSE Contents, e)
<1>5. /\ Beg' \in 0..(N - 1) /\ Readable' \in 1..N
      /\ s \in Seq(Int) /\ Len(s) = Readable'
      /\ \A j \in 0..(Readable' - 1) : A'[Place(N, Beg', j)] = s[j + 1]
  <2>1. CASE Readable = N
    <3>1. Beg' = Place(N, Beg, 1) /\ Readable' = N
      <4>1. 1 \in 0..N
        BY <1>1
      <4>2. Beg' = (Beg + 1) % N /\ Readable' = Readable
        BY <2>1 DEF AddEventCheckOverflow
      <4> QED BY <1>1, <2>1, <4>1, <4>2, PlaceFacts
    <3>2. Place(N, Beg, Readable) = Beg /\ Beg = Place(N, Beg, 0) /\ Beg' \in 0..(N - 1)
      BY <1>1, <2>1, <3>1 DEF Place
    <3>3. s = Append(Tail(Contents), e) /\ Contents # << >>
      BY <1>1, <1>4, <2>1, EmptySeq
    <3>4. /\ Tail(Contents) \in Seq(Int) /\ Len(Tail(Contents)) = N - 1
          /\ \A i \in 1..(N - 1) : Tail(Contents)[i] = Contents[i + 1]
      BY <1>1, <1>4, <2>1, <3>3, HeadTailProperties
    <3>5. /\ s \in Seq(Int) /\ Len(s) = N /\ s[N] = e
          /\ \A i \in 1..(N - 1) : s[i] = Tail(Contents)[i]
      <4>1. (N - 1) + 1 = N
        BY <1>1
      <4> HIDE DEF s
      <4> QED BY <1>1, <3>3, <3>4, <4>1, AppendProperties
    <3>6. ASSUME NEW j \in 0..(N - 1)
          PROVE  A'[Place(N, Beg', j)] = s[j + 1]
      <4>1. Place(N, Beg', j) = Place(N, Beg, 1 + j)
        BY <1>1, <3>1, PlaceFurther
      <4>2. CASE j = N - 1
        <5>1. 1 + j = N /\ j + 1 = N /\ N \in 0..N
          BY <1>1, <4>2
        <5>2. Place(N, Beg, N) = Beg
          BY <1>1 DEF Place
        <5>3. A'[Beg] = e
          BY <1>1, <1>2, <3>2
        <5> QED BY <3>5, <4>1, <5>1, <5>2, <5>3
      <4>3. CASE j # N - 1
        <5>1. 1 + j \in 0..(N - 1) /\ 1 + j \in 0..(Readable - 1) /\ 1 + j # 0
              /\ 0 \in 0..(N - 1) /\ j + 1 \in 1..(N - 1) /\ (j + 1) + 1 = (1 + j) + 1
              /\ 1 + j \in 0..N
          BY <1>1, <2>1, <4>3
        <5>2. Place(N, Beg, 1 + j) # Beg
          BY <1>1, <3>2, <5>1, PlaceInjective
        <5>3. A'[Place(N, Beg, 1 + j)] = A[Place(N, Beg, 1 + j)]
          BY <1>1, <1>2, <3>2, <5>1, <5>2, PlaceFacts
        <5>4. A[Place(N, Beg, 1 + j)] = Contents[(1 + j) + 1]
          BY <5>1, ContentsPlace
        <5> QED BY <3>4, <3>5, <4>1, <5>1, <5>3, <5>4
      <4> QED BY <4>2, <4>3
    <3> HIDE DEF s
    <3> QED BY <1>1, <3>1, <3>2, <3>5, <3>6
  <2>2. CASE Readable # N
    <3>1. Beg' = Beg /\ Readable' = Readable + 1 /\ Readable < N
      BY <1>1, <2>2 DEF AddEventCheckOverflow
    <3>2. s = Append(Contents, e)
      BY <1>1, <1>4, <2>2
    <3>3. /\ s \in Seq(Int) /\ Len(s) = Readable + 1 /\ s[Readable + 1] = e
          /\ \A i \in 1..Readable : s[i] = Contents[i]
      <4> HIDE DEF s
      <4> QED BY <1>1, <1>4, <3>2, AppendProperties
    <3>4. ASSUME NEW j \in 0..Readable
          PROVE  A'[Place(N, Beg', j)] = s[j + 1]
      <4>1. CASE j = Readable
        BY <1>1, <1>2, <3>1, <3>3, <4>1
      <4>2. CASE j # Readable
        <5>1. j \in 0..(Readable - 1) /\ j \in 0..(N - 1) /\ Readable \in 0..(N - 1)
              /\ j + 1 \in 1..Readable /\ j \in 0..N
          BY <1>1, <3>1, <4>2
        <5>2. Place(N, Beg, j) # Place(N, Beg, Readable)
          BY <1>1, <4>2, <5>1, PlaceInjective
        <5>3. A'[Place(N, Beg, j)] = A[Place(N, Beg, j)]
          BY <1>1, <1>2, <5>1, <5>2, PlaceFacts
        <5>4. A[Place(N, Beg, j)] = Contents[j + 1]
          BY <5>1, ContentsPlace
        <5> QED BY <3>1, <3>3, <5>1, <5>3, <5>4
      <4> QED BY <4>1, <4>2
    <3>5. (Readable + 1) - 1 = Readable /\ Readable + 1 \in 1..N
      BY <1>1, <3>1
    <3> HIDE DEF s
    <3> QED BY <1>1, <3>1, <3>3, <3>4, <3>5
  <2> QED BY <2>1, <2>2
<1> HIDE DEF s
<1>6. PICK beg1 \in 0..(N - 1), r1 \in 1..N :
        /\ beg1 = Beg' /\ r1 = Readable' /\ Len(s) = r1 /\ s \in Seq(Int)
        /\ \A j \in 0..(r1 - 1) : A'[Place(N, beg1, j)] = s[j + 1]
  BY <1>5
<1>7. Contents' = s /\ A'[Beg'] = s[1]
  <2>1. r1 \in 0..N /\ 0 \in 0..(r1 - 1) /\ 0 + 1 = 1
    BY <1>1
  <2>2. ContentsOf(A', N, beg1, r1) = s
    <3>1. Holds(A', N, beg1, r1, s)
      BY <1>6 DEF Holds
    <3> QED BY <1>1, <2>1, <3>1, HoldsSequence
  <2>3. Place(N, beg1, 0) = beg1
    BY <1>1 DEF Place
  <2>4. A'[beg1] = s[1]
    BY <1>6, <2>1, <2>3
  <2> QED BY <1>2, <1>6, <2>2, <2>4, ContentsAreOf
<1>8. ret' = Answer(<< >>, Len(s) = N /\ e - s[1] <= Window)
  <2>1. ret' = Answer(<< >>, Readable' = N /\ e - A'[Beg'] <= Window)
    BY DEF AddEventCheckOverflow
  <2>2. Readable' = Len(s)
    BY <1>5
  <2> QED BY <1>7, <2>1, <2>2
<1>9. Queue!Add(e)
  BY <1>2, <1>7, <1>8 DEF s, Queue!Add, Queue!Answer, Answer
<1>10. ret' \in [events : Seq(Int), flag : BOOLEAN]
  BY <1>8 DEF Answer
<1> QED BY <1>1, <1>2, <1>3, <1>5, <1>9, <1>10 DEF TypeOK

\* The next contents and types, from what the next slots hold.
LEMMA NextContents ==
  ASSUME NEW n \in Nat \ {0}, NEW beg \in 0..(n - 1), NEW r \in 0..n,
         NEW a \in [0..(n - 1) -> Int], NEW s, Holds(a, n, beg, r, s),
         N' = n, Beg' = beg, Readable' = r, A' = a,
         ret' \in [events : Seq(Int), flag : BOOLEAN]
  PROVE  Contents' = s /\ TypeOK'
<1>1. ContentsOf(a, n, beg, r) = s
  BY HoldsSequence
<1>2. Contents' = s
  BY <1>1, ContentsAreOf
<1> QED BY <1>2 DEF TypeOK

\* What is left when at most k events have gone from the front.
Left(k) == SubSeq(Contents, Min2(k, Len(Contents)) + 1, Len(Contents))

LEMMA DropIsLeft ==
  ASSUME TypeOK, NEW k \in Nat, DropFirst(k), N' = N, A' = A,
         ret' \in [events : Seq(Int), flag : BOOLEAN]
  PROVE  Contents' = Left(k) /\ TypeOK'
<1>1. N \in Nat \ {0} /\ Beg \in 0..(N - 1) /\ Readable \in 0..N /\ A \in [0..(N - 1) -> Int]
  BY DEF TypeOK
<1>2. Contents \in Seq(Int) /\ Len(Contents) = Readable
  BY ContentsFacts
<1>3. PICK n \in 0..Readable : n = Min2(k, Readable)
  BY <1>1 DEF Min2
<1>4. PICK r \in 0..N : r = Readable - n /\ r = Readable'
  <2>1. Readable' = Readable - n
    BY <1>3 DEF DropFirst
  <2> QED BY <1>1, <2>1
<1>5. PICK beg \in 0..(N - 1) : beg = Place(N, Beg, n) /\ beg = Beg'
  <2>1. n \in 0..N
    BY <1>1
  <2>2. Place(N, Beg, n) \in 0..(N - 1) /\ (Beg + n) % N = Place(N, Beg, n)
    BY <1>1, <2>1, PlaceFacts
  <2>3. n = 0 => Place(N, Beg, n) = Beg
    BY <1>1 DEF Place
  <2>4. Beg' = IF n = 0 THEN Beg ELSE (Beg + n) % N
    BY <1>3 DEF DropFirst
  <2> QED BY <2>2, <2>3, <2>4
<1> DEFINE s == SubSeq(Contents, n + 1, Readable)
<1>6. s \in Seq(Int) /\ Len(s) = r /\ \A i \in 1..r : s[i] = Contents[n + i]
  <2>1. PICK m \in Int : m = n + 1 /\ Readable - m + 1 = r /\ (m > Readable => r = 0)
    BY <1>1, <1>4
  <2>2. \A i \in 1..r : m + i - 1 = n + i
    BY <1>1, <2>1
  <2>3. \A i \in m..Readable : Contents[i] \in Int
    <3>1. \A i \in m..Readable : i \in 1..Readable
      BY <1>1, <2>1
    <3> QED BY <1>2, <3>1, LenProperties
  <2>4. /\ s \in Seq(Int) /\ Len(s) = r
        /\ \A i \in 1..r : s[i] = Contents[m + i - 1]
    <3>1. s = SubSeq(Contents, m, Readable) /\ Readable \in Int
      BY <1>1, <2>1
    <3> HIDE DEF s
    <3>2. /\ s \in Seq(Int) /\ Len(s) = IF m <= Readable THEN Readable - m + 1 ELSE 0
          /\ \A i \in 1..(Readable - m + 1) : s[i] = Contents[m + i - 1]
      BY <2>3, <3>1, SubSeqProperties
    <3> QED BY <1>1, <2>1, <3>2
  <2> QED BY <2>2, <2>4
<1> HIDE DEF s
<1>7. ASSUME NEW j \in 0..(r - 1)
      PROVE  A[Place(N, beg, j)] = s[j + 1]
  <2>1. n + j \in 0..(Readable - 1) /\ n \in 0..N /\ j \in Nat /\ n + j <= N
        /\ j + 1 \in 1..r /\ n + (j + 1) = (n + j) + 1
    BY <1>1, <1>4
  <2>2. Place(N, beg, j) = Place(N, Beg, n + j)
    <3>1. Place(N, Place(N, Beg, n), j) = Place(N, Beg, n + j)
      BY <1>1, <2>1, PlaceFurther
    <3> QED BY <1>5, <3>1
  <2>3. A[Place(N, Beg, n + j)] = Contents[(n + j) + 1]
    BY <2>1, ContentsPlace
  <2> QED BY <1>6, <2>1, <2>2, <2>3
<1>8. Holds(A, N, beg, r, s)
  BY <1>6, <1>7 DEF Holds
<1>9. Contents' = s /\ TypeOK'
  BY <1>1, <1>4, <1>5, <1>8, NextContents
<1>10. s = Left(k)
  BY <1>2, <1>3 DEF s, Left
<1> QED BY <1>9, <1>10

LEMMA AdvanceIsAdvance ==
  ASSUME TypeOK, NEW k \in Nat, Advance(k)
  PROVE  TypeOK' /\ Queue!Advance(k)
<1>1. DropFirst(k) /\ N' = N /\ A' = A /\ ret' = ret
      /\ ret' \in [events : Seq(Int), flag : BOOLEAN]
  BY DEF Advance, TypeOK
<1>2. Contents' = Left(k) /\ TypeOK'
  BY <1>1, DropIsLeft
<1> QED BY <1>1, <1>2 DEF Queue!Advance, Queue!Min2, Left, Min2

LEMMA CopyOutAnswer ==
  ASSUME TypeOK, NEW k \in Nat, NEW flag \in BOOLEAN
  PROVE  /\ CopyOut(Min2(k, Readable)) = SubSeq(Contents, 1, Min2(k, Len(Contents)))
         /\ Answer(CopyOut(Min2(k, Readable)), flag) \in [events : Seq(Int), flag : BOOLEAN]
<1>1. Min2(k, Readable) \in 0..Readable /\ Len(Contents) = Readable
  BY ContentsFacts DEF TypeOK, Min2
<1>2. CopyOut(Min2(k, Readable)) = SubSeq(Contents, 1, Min2(k, Readable))
      /\ CopyOut(Min2(k, Readable)) \in Seq(Int)
  BY <1>1, CopyOutIsContents
<1> QED BY <1>1, <1>2 DEF Answer

LEMMA ReadIsRead ==
  ASSUME TypeOK, NEW k \in Nat, NEW doAdvance \in BOOLEAN, Read(k, doAdvance)
  PROVE  TypeOK' /\ Queue!Read(k, doAdvance)
<1>1. N' = N /\ A' = A /\ ret' = Answer(CopyOut(Min2(k, Readable)), k > 0 /\ Readable = 0)
  BY DEF Read
<1>2. (k > 0 /\ Readable = 0) \in BOOLEAN
  OBVIOUS
<1>3. CopyOut(Min2(k, Readable)) = SubSeq(Contents, 1, Min2(k, Len(Contents)))
      /\ ret' \in [events : Seq(Int), flag : BOOLEAN]
  BY <1>1, <1>2, CopyOutAnswer
<1>4. (Readable = 0) = (Contents = << >>)
  <2>1. Contents \in Seq(Int) /\ Len(Contents) = Readable
    BY ContentsFacts
  <2> QED BY <2>1, EmptySeq
<1>5. ret' = Answer(SubSeq(Contents, 1, Min2(k, Len(Contents))), k > 0 /\ Contents = << >>)
  BY <1>1, <1>3, <1>4
<1>6. CASE doAdvance
  <2>1. Contents' = Left(k) /\ TypeOK'
    BY <1>1, <1>3, <1>6, DropIsLeft DEF Read
  <2> QED BY <1>1, <1>5, <1>6, <2>1 DEF Queue!Read, Queue!Min2, Queue!Answer, Answer, Left, Min2
<1>7. CASE ~doAdvance
  <2>1. Beg' = Beg /\ Readable' = Readable
    BY <1>7 DEF Read
  <2>2. Contents' = Contents /\ TypeOK'
    BY <1>1, <1>3, <2>1 DEF TypeOK, Contents
  <2> QED BY <1>1, <1>5, <1>7, <2>2 DEF Queue!Read, Queue!Min2, Queue!Answer, Answer, Min2
<1> QED BY <1>6, <1>7

LEMMA TwoContigIsShow ==
  ASSUME TypeOK, TwoContig
  PROVE  TypeOK' /\ Queue!Show
<1>1. N' = N /\ A' = A /\ Beg' = Beg /\ Readable' = Readable
      /\ ret' = Answer(CopyOut(Readable), FALSE)
  BY DEF TwoContig
<1>2. Contents \in Seq(Int) /\ Len(Contents) = Readable /\ Readable \in 0..Readable
  BY ContentsFacts DEF TypeOK
<1>3. CopyOut(Readable) = SubSeq(Contents, 1, Len(Contents)) /\ CopyOut(Readable) \in Seq(Int)
  BY <1>2, CopyOutIsContents
<1>4. SubSeq(Contents, 1, Len(Contents)) = Contents
  BY <1>2, SubSeqFull
<1>5. Contents' = Contents /\ TypeOK'
  BY <1>1, <1>3 DEF TypeOK, Contents, Answer
<1> QED BY <1>1, <1>3, <1>4, <1>5 DEF Queue!Show, Queue!Answer, Answer

LEMMA WriteIsWrite ==
  ASSUME TypeOK, NEW p \in Batches, WritePtrs(p)
  PROVE  TypeOK' /\ Queue!Write(p)
<1>1. N \in Nat \ {0} /\ Beg \in 0..(N - 1) /\ Readable \in 0..N /\ Len(p) \in Nat
      /\ p \in Seq(Int)
  BY BatchFacts DEF TypeOK
<1>2. PICK m \in Nat : m = Min2(Len(p), N - Readable) /\ m <= Len(p) /\ Readable + m <= N
  BY <1>1 DEF Min2
<1>3. PICK b \in [0..(N - 1) -> Int] :
        /\ Turn(p, Turn(p, [a |-> A, readable |-> Readable, n |-> 0]))
             = [a |-> b, readable |-> Readable + m, n |-> m]
        /\ \A x \in 0..(N - 1) :
             b[x] = IF Readable <= Away(N, Beg, x) /\ Away(N, Beg, x) < Readable + m
                      THEN p[Away(N, Beg, x) - Readable + 1] ELSE A[x]
  BY <1>2, TwoTurns
<1>4. A' = b /\ Readable' = Readable + m /\ N' = N /\ Beg' = Beg
      /\ ret' = Answer(SubSeq(p, 1, m), m < Len(p))
  BY <1>3 DEF WritePtrs
<1>5. Contents \in Seq(Int) /\ Len(Contents) = Readable
  BY ContentsFacts
<1> DEFINE t == SubSeq(p, 1, m)
           s == Contents \o t
<1>6. t \in Seq(Int) /\ Len(t) = m /\ \A i \in 1..m : t[i] = p[i]
  <2>1. \A i \in 1..m : p[i] \in Int /\ 1 + i - 1 = i
    BY <1>1, <1>2, LenProperties
  <2>2. 1 \in Int /\ m \in Int /\ m - 1 + 1 = m /\ (1 <= m \/ m = 0)
    OBVIOUS
  <2>3. /\ t \in Seq(Int) /\ Len(t) = IF 1 <= m THEN m - 1 + 1 ELSE 0
        /\ \A i \in 1..(m - 1 + 1) : t[i] = p[1 + i - 1]
    BY <2>1, <2>2, SubSeqProperties
  <2> HIDE DEF t
  <2> QED BY <2>1, <2>2, <2>3
<1>7. PICK r \in 0..N : r = Readable + m
  BY <1>1, <1>2
<1>8. s \in Seq(Int) /\ Len(s) = r
      /\ \A i \in 1..r : s[i] = IF i <= Readable THEN Contents[i] ELSE t[i - Readable]
  <2> HIDE DEF t
  <2> QED BY <1>5, <1>6, <1>7, ConcatProperties, ZenonT(30)
<1> HIDE DEF s, t
<1>9. ASSUME NEW j \in 0..(r - 1)
      PROVE  b[Place(N, Beg, j)] = s[j + 1]
  <2>1. j \in 0..N /\ j < N /\ j + 1 \in 1..r /\ j < Readable + m
    BY <1>1, <1>7
  <2>2. Place(N, Beg, j) \in 0..(N - 1) /\ Away(N, Beg, Place(N, Beg, j)) = j
    BY <1>1, <2>1, PlaceFacts
  <2>3. b[Place(N, Beg, j)] = IF Readable <= j THEN p[j - Readable + 1] ELSE A[Place(N, Beg, j)]
    BY <1>3, <2>1, <2>2
  <2>4. CASE Readable <= j
    <3>1. j - Readable + 1 \in 1..m /\ ~(j + 1 <= Readable)
          /\ (j + 1) - Readable = j - Readable + 1
      BY <1>1, <1>7, <2>4
    <3> QED BY <1>6, <1>8, <2>1, <2>3, <2>4, <3>1
  <2>5. CASE ~(Readable <= j)
    <3>1. j \in 0..(Readable - 1) /\ j + 1 <= Readable
      BY <1>1, <2>5
    <3> QED BY <1>8, <2>1, <2>3, <2>5, <3>1, ContentsPlace
  <2> QED BY <2>4, <2>5
<1>10. Holds(b, N, Beg, r, s)
  BY <1>8, <1>9 DEF Holds
<1>11. ret' \in [events : Seq(Int), flag : BOOLEAN]
  BY <1>4, <1>6 DEF Answer, t
<1>12. Contents' = s /\ TypeOK'
  BY <1>1, <1>4, <1>7, <1>10, <1>11, NextContents
<1>13. m = Min2(Len(p), N - Len(Contents))
  BY <1>2, <1>5
<1> QED BY <1>4, <1>12, <1>13 DEF s, t, Queue!Write, Queue!Min2, Queue!Answer, Answer, Min2

LEMMA ResetIsReset ==
  ASSUME TypeOK, Reset
  PROVE  TypeOK' /\ Queue!Reset
<1>1. N \in Nat \ {0} /\ A \in [0..(N - 1) -> Int] /\ 0 \in 0..(N - 1) /\ 0 \in 0..N
      /\ N' = N /\ A' = A /\ Beg' = 0 /\ Readable' = 0 /\ ret' = ret
      /\ ret' \in [events : Seq(Int), flag : BOOLEAN]
  BY DEF TypeOK, Reset
<1>2. Holds(A, N, 0, 0, << >>)
  BY DEF Holds
<1>3. Contents' = << >> /\ TypeOK'
  BY <1>1, <1>2, NextContents
<1> QED BY <1>1, <1>3 DEF Queue!Reset

LEMMA AdoptIsAdopt ==
  ASSUME TypeOK, NEW p \in Batches, Adopt(p)
  PROVE  TypeOK' /\ Queue!Adopt(p)
<1>1. N \in Nat \ {0} /\ A \in [0..(N - 1) -> Int] /\ Len(p) \in Nat /\ p \in Seq(Int)
      /\ \A j \in 1..Len(p) : p[j] \in Int
  BY BatchFacts DEF TypeOK
<1>2. PICK n \in Nat \ {0} : n = (IF Len(p) > N THEN Len(p) ELSE N) /\ Len(p) <= n
  BY <1>1
<1>3. PICK a : a = [i \in 0..(n - 1) |-> IF i < Len(p) THEN p[i + 1] ELSE A[i]]
  OBVIOUS
<1>4. N' = n /\ A' = a /\ Beg' = 0 /\ Readable' = Len(p) /\ ret' = ret
      /\ ret' \in [events : Seq(Int), flag : BOOLEAN]
  BY <1>2, <1>3 DEF TypeOK, Adopt
<1>5. \A i \in 0..(n - 1) : a[i] \in Int /\ (i < Len(p) => a[i] = p[i + 1])
  BY <1>1, <1>2, <1>3
<1>6. a \in [0..(n - 1) -> Int]
  BY <1>3, <1>5
<1>7. ASSUME NEW j \in 0..(Len(p) - 1)
      PROVE  a[Place(n, 0, j)] = p[j + 1]
  <2>1. Place(n, 0, j) = j /\ j \in 0..(n - 1) /\ j < Len(p)
    BY <1>1, <1>2 DEF Place
  <2> QED BY <1>5, <2>1
<1>8. Holds(a, n, 0, Len(p), p)
  BY <1>1, <1>7 DEF Holds
<1>9. 0 \in 0..(n - 1) /\ Len(p) \in 0..n
  BY <1>1, <1>2
<1>10. Contents' = p /\ TypeOK'
  BY <1>4, <1>6, <1>8, <1>9, NextContents
<1> QED BY <1>2, <1>4, <1>10 DEF Queue!Adopt

LEMMA StutterIsStutter ==
  ASSUME TypeOK, UNCHANGED vars
  PROVE  TypeOK' /\ UNCHANGED Queue!vars
BY DEF TypeOK, vars, Contents, Queue!vars

LEMMA InitIsInit ==
  ASSUME Init
  PROVE  TypeOK /\ Queue!QInit
<1>1. N \in Nat \ {0} /\ 0 \in 0..(N - 1) /\ 0 \in 0..N /\ A = [i \in 0..(N - 1) |-> 0]
      /\ Beg = 0 /\ Readable = 0 /\ N = MaxEvents /\ ret = Answer(<< >>, FALSE)
  BY RingAssumption DEF Init, ZeroTime
<1>2. A \in [0..(N - 1) -> Int] /\ ret \in [events : Seq(Int), flag : BOOLEAN]
  BY <1>1, EmptySeq DEF Answer
<1>3. TypeOK
  BY <1>1, <1>2 DEF TypeOK
<1>4. Contents = << >>
  BY <1>1, <1>3, ContentsFacts, EmptySeq
<1> QED BY <1>1, <1>3, <1>4 DEF Queue!QInit, Queue!Answer, Answer

\* Every call of the ring's operations is the same call of a bounded queue.
LEMMA StepIsStep ==
  ASSUME TypeOK, [Next]_vars
  PROVE  TypeOK' /\ [Queue!QNext]_Queue!vars
<1>1. Counts \subseteq Nat
  BY RingAssumption
<1>2. ASSUME NEW e \in Times, AddEventCheckOverflow(e)
      PROVE  TypeOK' /\ Queue!QNext
  BY <1>2, AddIsAdd DEF Queue!QNext
<1>3. ASSUME NEW k \in Counts, NEW doAdvance \in BOOLEAN, Read(k, doAdvance)
      PROVE  TypeOK' /\ Queue!QNext
  BY <1>1, <1>3, ReadIsRead DEF Queue!QNext
<1>4. ASSUME NEW k \in Counts, Advance(k)
      PROVE  TypeOK' /\ Queue!QNext
  BY <1>1, <1>4, AdvanceIsAdvance DEF Queue!QNext
<1>5. ASSUME NEW p \in Batches, WritePtrs(p)
      PROVE  TypeOK' /\ Queue!QNext
  BY <1>5, WriteIsWrite DEF Queue!QNext
<1>6. ASSUME NEW p \in Batches, Adopt(p)
      PROVE  TypeOK' /\ Queue!QNext
  BY <1>6, AdoptIsAdopt DEF Queue!QNext
<1>7. CASE Reset
  BY <1>7, ResetIsReset DEF Queue!QNext
<1>8. CASE TwoContig
  BY <1>8, TwoContigIsShow DEF Queue!QNext
<1>9. CASE UNCHANGED vars
  BY <1>9, StutterIsStutter
<1> QED BY <1>2, <1>3, <1>4, <1>5, <1>6, <1>7, <1>8, <1>9 DEF Next

-----------------------------------------------------------------------------
\* Type correctness: whatever the calls, the indices stay inside the array,
\* and the number of events in use never exceeds its length.
THEOREM RingTypeCorrect == Spec => []TypeOK
<1>1. Init => TypeOK
  BY InitIsInit
<1>2. TypeOK /\ [Next]_vars => TypeOK'
  BY StepIsStep
<1> QED BY <1>1, <1>2, PTL DEF Spec

\* The ring implements the bounded queue: each operation of overing.go returns
\* what the queue returns, and leaves what the queue leaves, however the events
\* have wrapped around the end of the array.
THEOREM RingIsAQueue == Spec => ImplementsQueue
<1>1. Init => Queue!QInit
  BY InitIsInit
<1>2. TypeOK /\ [Next]_vars => [Queue!QNext]_Queue!vars
  BY StepIsStep
<1> QED BY <1>1, <1>2, RingTypeCorrect, PTL DEF Spec, ImplementsQueue, Queue!QSpec

=============================================================================
