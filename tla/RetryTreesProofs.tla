--------------------------- MODULE RetryTreesProofs ---------------------------
(***************************************************************************)
(* The retry trees, proved for every window, any number of frames and any  *)
(* durations: both stay sorted by the keys their slots have at the moment, *)
(* hold the same slots, and behave like a set of frames with deadlines.    *)
(*                                                                         *)
(* The first part is about one tree and one comparison; the invariant      *)
(* RetryInv adds to the trees that the frames in them, or in the wakeup's  *)
(* list, are consecutive and lie in slots of their own, which needs a peer *)
(* that advertises no more than SenderWindowSize.                          *)
(***************************************************************************)
EXTENDS RetryTrees, ProofFacts, SequenceTheorems, FiniteSetTheorems

-----------------------------------------------------------------------------
(* The comparisons. *)

SlotRecords == [Slots -> [seq : Int, deadline : Int]]
Keys == {"deadline", "seqNum"}

LEMMA CompareOrders ==
  ASSUME NEW key \in Keys, NEW q \in SlotRecords, NEW a \in Slots, NEW b \in Slots, NEW c \in Slots
  PROVE  /\ Compare(key, q[a], q[b]) \in Int
         /\ Compare(key, q[a], q[a]) = 0
         /\ Compare(key, q[a], q[b]) = 0 => q[a].seq = q[b].seq
         /\ Compare(key, q[a], q[b]) > 0 <=> Compare(key, q[b], q[a]) < 0
         /\ Compare(key, q[a], q[b]) < 0 /\ Compare(key, q[b], q[c]) < 0
              => Compare(key, q[a], q[c]) < 0
<1>1. /\ q[a].seq \in Int /\ q[a].deadline \in Int /\ q[b].seq \in Int /\ q[b].deadline \in Int
      /\ q[c].seq \in Int /\ q[c].deadline \in Int
  BY DEF SlotRecords
<1>2. CASE key = "deadline"
  BY <1>1, <1>2 DEF Compare, compareRetryDeadline
<1>3. CASE key = "seqNum"
  BY <1>1, <1>3 DEF Compare, compareSeqNum
<1> QED BY <1>2, <1>3 DEF Keys

\* Item i of the tree is less than slot p by the keys in q.
Below(key, q, a, b) == Compare(key, q[a], q[b]) < 0

\* A tree is sorted by the keys in q.
SortedBy(tree, key, q) ==
  \A i, j \in 1..Len(tree) : i < j => Below(key, q, tree[i], tree[j])

\* Below is a strict order, and only slots of one frame number are unordered.
LEMMA BelowOrders ==
  ASSUME NEW key \in Keys, NEW q \in SlotRecords, NEW a \in Slots, NEW b \in Slots, NEW c \in Slots
  PROVE  /\ ~Below(key, q, a, a)
         /\ Below(key, q, a, b) => ~Below(key, q, b, a) /\ a # b
         /\ Below(key, q, a, b) /\ Below(key, q, b, c) => Below(key, q, a, c)
         /\ q[a].seq # q[b].seq => Below(key, q, a, b) \/ Below(key, q, b, a)
         /\ Compare(key, q[a], q[b]) >= 0 <=> ~Below(key, q, a, b)
         /\ Compare(key, q[a], q[b]) = 0 <=> ~Below(key, q, a, b) /\ ~Below(key, q, b, a)
<1>1. /\ Compare(key, q[a], q[b]) \in Int
      /\ Compare(key, q[a], q[a]) = 0
      /\ Compare(key, q[a], q[b]) = 0 => q[a].seq = q[b].seq
      /\ Compare(key, q[a], q[b]) > 0 <=> Compare(key, q[b], q[a]) < 0
  BY CompareOrders
<1>2. Compare(key, q[a], q[b]) < 0 /\ Compare(key, q[b], q[c]) < 0
        => Compare(key, q[a], q[c]) < 0
  BY CompareOrders
<1> QED BY <1>1, <1>2 DEF Below

LEMMA BelowTransitive ==
  ASSUME NEW key \in Keys, NEW q \in SlotRecords, NEW a \in Slots, NEW b \in Slots, NEW c \in Slots,
         Below(key, q, a, b), Below(key, q, b, c)
  PROVE  Below(key, q, a, c)
BY BelowOrders, Zenon

-----------------------------------------------------------------------------
(* Searching a tree. *)

LEMMA TreeFacts ==
  ASSUME NEW tree \in Seq(Slots)
  PROVE  /\ Len(tree) \in Nat /\ DOMAIN tree = 1..Len(tree)
         /\ \A i \in 1..Len(tree) : tree[i] \in Slots
         /\ Range(tree) = {tree[i] : i \in 1..Len(tree)}
BY DEF Range

LEMMA FirstOfFacts ==
  ASSUME NEW tree \in Seq(Slots), NEW S
  PROVE  /\ FirstOf(tree, S) \in 0..Len(tree)
         /\ FirstOf(tree, S) = 0 => \A i \in 1..Len(tree) : tree[i] \notin S
         /\ FirstOf(tree, S) # 0 =>
              /\ tree[FirstOf(tree, S)] \in S
              /\ \A i \in 1..(FirstOf(tree, S) - 1) : tree[i] \notin S
<1> DEFINE I == {i \in 1..Len(tree) : tree[i] \in S}
<1>1. FirstOf(tree, S) = IF I # {} THEN Min(I) ELSE 0
  BY DEF FirstOf, SelectInSeq
<1>2. Len(tree) \in Nat
  OBVIOUS
<1>3. CASE I = {}
  <2>1. FirstOf(tree, S) = 0
    BY <1>1, <1>3
  <2> QED BY <1>2, <1>3, <2>1
<1>4. CASE I # {}
  <2> DEFINE m == FirstOf(tree, S)
  <2>1. \E x \in I : \A y \in I : x <= y
    <3>1. I \in SUBSET Nat
      OBVIOUS
    <3> HIDE DEF I
    <3> QED BY <1>4, <3>1, LeastElement
  <2>2. m = CHOOSE x \in I : \A y \in I : x <= y
    BY <1>1, <1>4 DEF Min
  <2>3. m \in I /\ \A y \in I : m <= y
    <3> HIDE DEF I, m
    <3> QED BY <2>1, <2>2
  <2> HIDE DEF m
  <2>4. m \in 1..Len(tree) /\ tree[m] \in S
    BY <2>3
  <2>5. ASSUME NEW i \in 1..(m - 1), tree[i] \in S
        PROVE  FALSE
    <3>1. i \in 1..Len(tree) /\ i < m
      BY <1>2, <2>4
    <3>2. i \in I
      BY <2>5, <3>1
    <3> QED BY <2>3, <2>4, <3>1, <3>2
  <2>6. m # 0 /\ m \in 0..Len(tree)
    BY <1>2, <2>4
  <2> QED BY <2>4, <2>5, <2>6 DEF m
<1> QED BY <1>3, <1>4

\* The three ways a tree changes: p enters after its first k items, the item at
\* position k leaves, or it is cut after k items.
EntersAt(new, tree, k, p) ==
  /\ new \in Seq(Slots) /\ Len(new) = Len(tree) + 1 /\ new[k + 1] = p
  /\ \A i \in 1..k : new[i] = tree[i]
  /\ \A i \in (k + 1)..Len(tree) : new[i + 1] = tree[i]

LeavesFrom(new, tree, k) ==
  /\ new \in Seq(Slots) /\ Len(new) = Len(tree) - 1
  /\ \A i \in 1..(k - 1) : new[i] = tree[i]
  /\ \A i \in k..(Len(tree) - 1) : new[i] = tree[i + 1]

LEMMA AppendEnters ==
  ASSUME NEW tree \in Seq(Slots), NEW p \in Slots
  PROVE  EntersAt(Append(tree, p), tree, Len(tree), p)
BY AppendProperties, TreeFacts DEF EntersAt

LEMMA InsertAtEnters ==
  ASSUME NEW tree \in Seq(Slots), NEW p \in Slots, NEW at \in 1..Len(tree)
  PROVE  EntersAt(InsertAt(tree, at, p), tree, at - 1, p)
<1> DEFINE front == SubSeq(tree, 1, at - 1)
           back == SubSeq(tree, at, Len(tree))
<1>1. PICK n \in Nat : n = Len(tree)
  OBVIOUS
<1>2. at \in 1..n /\ at - 1 \in Nat
  BY <1>1
<1>3. \A i \in 1..n : tree[i] \in Slots
  BY <1>1
<1>4. front \in Seq(Slots) /\ Len(front) = at - 1 /\ \A i \in 1..(at - 1) : front[i] = tree[i]
  BY <1>1, <1>2, <1>3
<1>5. /\ back \in Seq(Slots) /\ Len(back) = n - at + 1
      /\ \A i \in 1..(n - at + 1) : back[i] = tree[at + i - 1]
  BY <1>1, <1>2, <1>3, SubSeqProperties
<1> HIDE DEF front, back
<1>6. <<p>> \in Seq(Slots) /\ Len(<<p>>) = 1 /\ <<p>>[1] = p
  OBVIOUS
<1> DEFINE one == <<p>>
           mid == front \o one
           new == mid \o back
<1> HIDE DEF one
<1>7. /\ mid \in Seq(Slots) /\ Len(mid) = Len(front) + Len(one)
      /\ \A i \in 1..Len(front) : mid[i] = front[i]
      /\ \A i \in 1..Len(one) : mid[Len(front) + i] = one[i]
  <2>1. front \in Seq(Slots) /\ one \in Seq(Slots)
    BY <1>4, <1>6 DEF one
  <2> QED BY <2>1, Joining
<1> HIDE DEF mid
<1>8. /\ Len(mid) = at /\ mid[at] = p /\ \A i \in 1..(at - 1) : mid[i] = tree[i]
  <2>1. Len(one) = 1 /\ one[1] = p
    BY <1>6 DEF one
  <2>2. mid[Len(front) + 1] = p
    BY <1>7, <2>1
  <2> QED BY <1>2, <1>4, <1>7, <2>1, <2>2
<1>9. /\ new \in Seq(Slots) /\ Len(new) = Len(mid) + Len(back)
      /\ \A i \in 1..Len(mid) : new[i] = mid[i]
      /\ \A i \in 1..Len(back) : new[Len(mid) + i] = back[i]
  <2>1. mid \in Seq(Slots) /\ back \in Seq(Slots)
    BY <1>5, <1>7
  <2> QED BY <2>1, Joining
<1>11. InsertAt(tree, at, p) = new
  BY DEF InsertAt, front, back, one, mid
<1> HIDE DEF new
<1>10. /\ Len(new) = n + 1
       /\ \A i \in 1..at : new[i] = mid[i]
       /\ \A i \in 1..(n - at + 1) : new[at + i] = back[i]
  BY <1>2, <1>5, <1>8, <1>9
<1>12. new[at - 1 + 1] = p
  BY <1>2, <1>8, <1>10
<1>13. \A i \in 1..(at - 1) : new[i] = tree[i]
  BY <1>2, <1>8, <1>10
<1>14. ASSUME NEW i \in (at - 1 + 1)..n
       PROVE  new[i + 1] = tree[i]
  <2>1. PICK j \in Int : j = i - at + 1
    BY <1>2
  <2>2. j \in 1..(n - at + 1) /\ at + j = i + 1 /\ at + j - 1 = i
    BY <1>2, <2>1
  <2> QED BY <1>5, <1>10, <2>2
<1> QED BY <1>1, <1>9, <1>10, <1>11, <1>12, <1>13, <1>14 DEF EntersAt

LEMMA RemoveAtLeaves ==
  ASSUME NEW tree \in Seq(Slots), NEW at \in 1..Len(tree)
  PROVE  LeavesFrom(RemoveAt(tree, at), tree, at)
<1> DEFINE front == SubSeq(tree, 1, at - 1)
           back == SubSeq(tree, at + 1, Len(tree))
<1>1. PICK n \in Nat : n = Len(tree)
  OBVIOUS
<1>2. at \in 1..n /\ at - 1 \in Nat
  BY <1>1
<1>3. \A i \in 1..n : tree[i] \in Slots
  BY <1>1
<1>4. front \in Seq(Slots) /\ Len(front) = at - 1 /\ \A i \in 1..(at - 1) : front[i] = tree[i]
  BY <1>1, <1>2, <1>3
<1>5. /\ back \in Seq(Slots) /\ Len(back) = n - at
      /\ \A i \in 1..(n - at) : back[i] = tree[at + i]
  <2>1. at + 1 \in Int /\ n \in Int /\ \A i \in (at + 1)..n : tree[i] \in Slots
    BY <1>2, <1>3
  <2>2. /\ back \in Seq(Slots) /\ Len(back) = IF at + 1 <= n THEN n - (at + 1) + 1 ELSE 0
        /\ \A i \in 1..(n - (at + 1) + 1) : back[i] = tree[at + 1 + i - 1]
    BY <1>1, <2>1, SubSeqProperties
  <2> HIDE DEF back
  <2>3. Len(back) = n - at
    BY <1>2, <2>2
  <2>4. ASSUME NEW i \in 1..(n - at)
        PROVE  back[i] = tree[at + i]
    <3>1. i \in 1..(n - (at + 1) + 1) /\ at + 1 + i - 1 = at + i
      BY <1>2
    <3> QED BY <2>2, <3>1
  <2> QED BY <2>2, <2>3, <2>4
<1> HIDE DEF front, back
<1> DEFINE new == front \o back
<1>6. /\ new \in Seq(Slots) /\ Len(new) = Len(front) + Len(back)
      /\ \A i \in 1..Len(front) : new[i] = front[i]
      /\ \A i \in 1..Len(back) : new[Len(front) + i] = back[i]
  <2>1. front \in Seq(Slots) /\ back \in Seq(Slots)
    BY <1>4, <1>5
  <2> QED BY <2>1, Joining
<1>8. RemoveAt(tree, at) = new
  BY DEF RemoveAt, front, back
<1> HIDE DEF new
<1>7. /\ Len(new) = n - 1
      /\ \A i \in 1..(at - 1) : new[i] = front[i]
      /\ \A i \in 1..(n - at) : new[at - 1 + i] = back[i]
  BY <1>2, <1>4, <1>5, <1>6
<1>9. \A i \in 1..(at - 1) : new[i] = tree[i]
  BY <1>4, <1>7
<1>10. ASSUME NEW i \in at..(n - 1)
       PROVE  new[i] = tree[i + 1]
  <2>1. PICK j \in Int : j = i - at + 1
    BY <1>2
  <2>2. j \in 1..(n - at) /\ at - 1 + j = i /\ at + j = i + 1
    BY <1>2, <2>1
  <2> QED BY <1>5, <1>7, <2>2
<1> QED BY <1>1, <1>6, <1>7, <1>8, <1>9, <1>10 DEF LeavesFrom

LEMMA EnteringKeeps ==
  ASSUME NEW key, NEW q, NEW tree \in Seq(Slots), NEW p \in Slots, NEW k \in 0..Len(tree), NEW new,
         EntersAt(new, tree, k, p), SortedBy(tree, key, q),
         \A i \in 1..k : Below(key, q, tree[i], p),
         \A i \in (k + 1)..Len(tree) : Below(key, q, p, tree[i])
  PROVE  /\ new \in Seq(Slots) /\ SortedBy(new, key, q)
         /\ Range(new) = Range(tree) \cup {p} /\ Len(new) = Len(tree) + 1
<1>1. PICK n \in Nat : n = Len(tree)
  OBVIOUS
<1>2. k \in 0..n /\ k + 1 \in 1..(n + 1) /\ new \in Seq(Slots) /\ Len(new) = n + 1
  BY <1>1 DEF EntersAt
<1>3. new[k + 1] = p /\ \A i \in 1..k : new[i] = tree[i]
  BY DEF EntersAt
<1>4. ASSUME NEW j \in (k + 2)..(n + 1)
      PROVE  j - 1 \in (k + 1)..n /\ new[j] = tree[j - 1]
  <2>1. j - 1 \in (k + 1)..n /\ (j - 1) + 1 = j
    BY <1>2
  <2> QED BY <1>1, <2>1 DEF EntersAt
<1>5. ASSUME NEW i \in 1..(n + 1), NEW j \in 1..(n + 1), i < j
      PROVE  Below(key, q, new[i], new[j])
  <2>1. \/ i \in 1..k \/ i = k + 1 \/ i \in (k + 2)..(n + 1)
    BY <1>2
  <2>2. \/ j \in 1..k \/ j = k + 1 \/ j \in (k + 2)..(n + 1)
    BY <1>2
  <2>3. CASE j \in 1..k
    <3>1. i \in 1..k /\ i \in 1..n /\ j \in 1..n
      BY <1>2, <1>5, <2>3
    <3> QED BY <1>1, <1>3, <1>5, <2>3, <3>1 DEF SortedBy
  <2>4. CASE j = k + 1
    <3>1. i \in 1..k
      BY <1>2, <1>5, <2>4
    <3> QED BY <1>3, <2>4, <3>1
  <2>5. CASE j \in (k + 2)..(n + 1)
    <3>1. j - 1 \in (k + 1)..n /\ new[j] = tree[j - 1]
      BY <1>4, <2>5
    <3>2. CASE i \in 1..k
      <4>1. i \in 1..n /\ j - 1 \in 1..n /\ i < j - 1
        BY <1>2, <3>1, <3>2
      <4> QED BY <1>1, <1>3, <3>1, <3>2, <4>1 DEF SortedBy
    <3>3. CASE i = k + 1
      BY <1>1, <1>3, <3>1, <3>3
    <3>4. CASE i \in (k + 2)..(n + 1)
      <4>1. i - 1 \in (k + 1)..n /\ new[i] = tree[i - 1]
        BY <1>4, <3>4
      <4>2. i - 1 \in 1..n /\ j - 1 \in 1..n /\ i - 1 < j - 1
        BY <1>2, <1>5, <3>1, <4>1
      <4> QED BY <1>1, <3>1, <4>1, <4>2 DEF SortedBy
    <3> QED BY <2>1, <3>2, <3>3, <3>4
  <2> QED BY <2>2, <2>3, <2>4, <2>5
<1>6. ASSUME NEW i \in 1..(n + 1)
      PROVE  new[i] \in {tree[j] : j \in 1..n} \cup {p}
  <2>1. CASE i \in 1..k
    <3>1. i \in 1..n
      BY <1>2, <2>1
    <3> QED BY <1>3, <2>1, <3>1
  <2>2. CASE i = k + 1
    BY <1>3, <2>2
  <2>3. CASE i \in (k + 2)..(n + 1)
    <3>1. i - 1 \in (k + 1)..n /\ new[i] = tree[i - 1]
      BY <1>4, <2>3
    <3>2. i - 1 \in 1..n
      BY <1>2, <3>1
    <3> QED BY <3>1, <3>2
  <2> QED BY <1>2, <2>1, <2>2, <2>3
<1>7. ASSUME NEW i \in 1..n
      PROVE  tree[i] \in {new[j] : j \in 1..(n + 1)}
  <2>1. CASE i \in 1..k
    <3>1. i \in 1..(n + 1)
      OBVIOUS
    <3> QED BY <1>3, <2>1, <3>1
  <2>2. CASE i \in (k + 1)..n
    <3>1. i + 1 \in 1..(n + 1) /\ new[i + 1] = tree[i]
      BY <1>1, <1>2, <2>2 DEF EntersAt
    <3> QED BY <3>1
  <2> QED BY <1>2, <2>1, <2>2
<1>8. Range(new) = {new[j] : j \in 1..(n + 1)} /\ Range(tree) = {tree[j] : j \in 1..n}
  BY <1>1, <1>2, TreeFacts
<1>9. p \in {new[j] : j \in 1..(n + 1)}
  BY <1>2, <1>3
<1>10. {new[j] : j \in 1..(n + 1)} = {tree[j] : j \in 1..n} \cup {p}
  BY <1>6, <1>7, <1>9
<1> QED BY <1>1, <1>2, <1>5, <1>8, <1>10 DEF SortedBy

LEMMA LeavingKeeps ==
  ASSUME NEW key \in Keys, NEW q \in SlotRecords, NEW tree \in Seq(Slots),
         NEW at \in 1..Len(tree), NEW new,
         LeavesFrom(new, tree, at), SortedBy(tree, key, q)
  PROVE  /\ new \in Seq(Slots) /\ SortedBy(new, key, q)
         /\ Range(new) = Range(tree) \ {tree[at]} /\ Len(new) = Len(tree) - 1
<1>1. PICK n \in Nat : n = Len(tree)
  OBVIOUS
<1>2. at \in 1..n /\ n - 1 \in Nat /\ new \in Seq(Slots) /\ Len(new) = n - 1
  BY <1>1 DEF LeavesFrom
<1> DEFINE old(i) == IF i < at THEN i ELSE i + 1
<1>3. ASSUME NEW i \in 1..(n - 1)
      PROVE  old(i) \in 1..n /\ old(i) # at /\ new[i] = tree[old(i)]
  <2>1. CASE i < at
    <3>1. i \in 1..(at - 1)
      BY <1>2, <2>1
    <3> QED BY <1>2, <2>1, <3>1 DEF LeavesFrom
  <2>2. CASE ~(i < at)
    <3>1. i \in at..(n - 1)
      BY <1>2, <2>2
    <3> QED BY <1>1, <1>2, <2>2, <3>1 DEF LeavesFrom
  <2> QED BY <2>1, <2>2
<1>4. ASSUME NEW i \in 1..(n - 1), NEW j \in 1..(n - 1), i < j
      PROVE  old(i) < old(j)
  BY <1>2, <1>4
<1>5. ASSUME NEW i \in 1..n, i # at
      PROVE  \E j \in 1..(n - 1) : old(j) = i
  <2>1. CASE i < at
    <3>1. i \in 1..(n - 1)
      BY <1>2, <2>1
    <3> QED BY <2>1, <3>1
  <2>2. CASE ~(i < at)
    <3>1. i - 1 \in 1..(n - 1) /\ ~(i - 1 < at) /\ i - 1 + 1 = i
      BY <1>2, <1>5, <2>2
    <3> QED BY <3>1
  <2> QED BY <2>1, <2>2
<1> HIDE DEF old
<1>6. ASSUME NEW i \in 1..(n - 1), NEW j \in 1..(n - 1), i < j
      PROVE  Below(key, q, new[i], new[j])
  <2>1. old(i) < old(j)
    BY <1>4, <1>6
  <2> QED BY <1>1, <1>3, <2>1 DEF SortedBy
<1>7. ASSUME NEW i \in 1..n, i # at
      PROVE  tree[i] # tree[at]
  <2>1. tree[i] \in Slots /\ tree[at] \in Slots
    BY <1>1, <1>2
  <2>2. i < at \/ at < i
    BY <1>2, <1>7
  <2>3. Below(key, q, tree[i], tree[at]) \/ Below(key, q, tree[at], tree[i])
    BY <1>1, <1>2, <2>2 DEF SortedBy
  <2> QED BY <2>1, <2>3, BelowOrders
<1>8. Range(new) = {new[j] : j \in 1..(n - 1)} /\ Range(tree) = {tree[j] : j \in 1..n}
  BY <1>1, <1>2, TreeFacts
<1>9. {new[j] : j \in 1..(n - 1)} = {tree[j] : j \in 1..n} \ {tree[at]}
  <2>1. ASSUME NEW j \in 1..(n - 1)
        PROVE  new[j] \in {tree[i] : i \in 1..n} \ {tree[at]}
    BY <1>3, <1>7
  <2>2. ASSUME NEW i \in 1..n, tree[i] # tree[at]
        PROVE  tree[i] \in {new[j] : j \in 1..(n - 1)}
    <3>1. PICK j \in 1..(n - 1) : old(j) = i
      BY <1>5, <2>2
    <3> QED BY <1>3, <3>1
  <2> QED BY <2>1, <2>2
<1> QED BY <1>1, <1>2, <1>6, <1>8, <1>9 DEF SortedBy

-----------------------------------------------------------------------------
(* The operations of a tree. *)

\* An item that equals none of a sorted tree's is inserted where it belongs.
LEMMA InsertKeeps ==
  ASSUME NEW key \in Keys, NEW q \in SlotRecords, NEW tree \in Seq(Slots), NEW p \in Slots,
         SortedBy(tree, key, q),
         \A i \in 1..Len(tree) : q[tree[i]].seq # q[p].seq
  PROVE  /\ Insert(tree, key, q, p) \in Seq(Slots) /\ SortedBy(Insert(tree, key, q, p), key, q)
         /\ Range(Insert(tree, key, q, p)) = Range(tree) \cup {p}
<1> DEFINE S == {o \in Slots : Compare(key, q[o], q[p]) >= 0}
           at == FirstOf(tree, S)
<1>1. PICK n \in Nat : n = Len(tree)
  OBVIOUS
<1>2. \A i \in 1..n : tree[i] \in Slots
  BY <1>1
<1>3. /\ at \in 0..n
      /\ at = 0 => \A i \in 1..n : tree[i] \notin S
      /\ at # 0 => tree[at] \in S /\ \A i \in 1..(at - 1) : tree[i] \notin S
  BY <1>1, FirstOfFacts
<1> HIDE DEF at
<1>4. ASSUME NEW i \in 1..n
      PROVE  /\ tree[i] \notin S <=> Below(key, q, tree[i], p)
             /\ tree[i] \in S <=> Below(key, q, p, tree[i])
             /\ Compare(key, q[tree[i]], q[p]) # 0
  <2>1. q[tree[i]].seq # q[p].seq /\ tree[i] \in Slots
    BY <1>1, <1>2
  <2>2. /\ Below(key, q, tree[i], p) => ~Below(key, q, p, tree[i])
        /\ Below(key, q, tree[i], p) \/ Below(key, q, p, tree[i])
        /\ Compare(key, q[tree[i]], q[p]) >= 0 <=> ~Below(key, q, tree[i], p)
        /\ Compare(key, q[tree[i]], q[p]) = 0
             <=> ~Below(key, q, tree[i], p) /\ ~Below(key, q, p, tree[i])
    BY <2>1, BelowOrders
  <2> QED BY <2>1, <2>2
<1> HIDE DEF S
<1>5. CASE at = 0
  <2>1. Insert(tree, key, q, p) = Append(tree, p)
    BY <1>5 DEF Insert, at, S
  <2>2. EntersAt(Append(tree, p), tree, n, p)
    BY <1>1, AppendEnters
  <2>3. \A i \in 1..n : Below(key, q, tree[i], p)
    BY <1>3, <1>4, <1>5
  <2>4. n \in 0..Len(tree) /\ \A i \in (n + 1)..Len(tree) : Below(key, q, p, tree[i])
    BY <1>1
  <2> QED BY <1>1, <2>1, <2>2, <2>3, <2>4, EnteringKeeps
<1>6. CASE at # 0
  <2>1. at \in 1..n /\ at - 1 \in 0..n
    BY <1>3, <1>6
  <2>2. Insert(tree, key, q, p) = InsertAt(tree, at, p)
    <3>1. Compare(key, q[tree[at]], q[p]) # 0
      BY <1>4, <2>1
    <3> QED BY <1>6, <3>1 DEF Insert, at, S
  <2>3. EntersAt(InsertAt(tree, at, p), tree, at - 1, p)
    BY <1>1, <2>1, InsertAtEnters
  <2>4. ASSUME NEW i \in 1..(at - 1)
        PROVE  Below(key, q, tree[i], p)
    <3>1. i \in 1..n
      BY <2>1
    <3> QED BY <1>3, <1>4, <1>6, <3>1
  <2>5. ASSUME NEW i \in (at - 1 + 1)..n
        PROVE  Below(key, q, p, tree[i])
    <3>1. Below(key, q, p, tree[at]) /\ tree[at] \in Slots
      BY <1>2, <1>3, <1>4, <1>6, <2>1
    <3>2. i \in 1..n /\ (i = at \/ at < i)
      BY <2>1
    <3>3. CASE at < i
      <4>1. Below(key, q, tree[at], tree[i]) /\ tree[i] \in Slots
        BY <1>1, <1>2, <2>1, <3>2, <3>3 DEF SortedBy
      <4>2. p \in Slots /\ Below(key, q, p, tree[at]) /\ tree[at] \in Slots
        BY <3>1
      <4> QED BY <4>1, <4>2, BelowTransitive, Zenon
    <3> QED BY <3>1, <3>2, <3>3
  <2>6. PICK k \in 0..n : k = at - 1
    BY <2>1
  <2>7. /\ k \in 0..Len(tree) /\ EntersAt(InsertAt(tree, at, p), tree, k, p)
        /\ \A i \in 1..k : Below(key, q, tree[i], p)
        /\ \A i \in (k + 1)..Len(tree) : Below(key, q, p, tree[i])
    BY <1>1, <2>3, <2>4, <2>5, <2>6
  <2> QED BY <2>2, <2>7, EnteringKeeps
<1> QED BY <1>5, <1>6

\* A search by keys finds the slot it is made for, and no other leaves.
LEMMA DeleteSlotKeeps ==
  ASSUME NEW key \in Keys, NEW q \in SlotRecords, NEW tree \in Seq(Slots), NEW p \in Range(tree),
         SortedBy(tree, key, q)
  PROVE  /\ DeleteSlot(tree, key, q, p) \in Seq(Slots)
         /\ SortedBy(DeleteSlot(tree, key, q, p), key, q)
         /\ Range(DeleteSlot(tree, key, q, p)) = Range(tree) \ {p}
<1> DEFINE S == {o \in Slots : Compare(key, q[o], q[p]) = 0}
           at == FirstOf(tree, S)
<1>1. PICK n \in Nat : n = Len(tree)
  OBVIOUS
<1>2. \A i \in 1..n : tree[i] \in Slots
  BY <1>1
<1>3. /\ at \in 0..n
      /\ at = 0 => \A i \in 1..n : tree[i] \notin S
      /\ at # 0 => tree[at] \in S
  BY <1>1, FirstOfFacts
<1> HIDE DEF at
<1>4. PICK j \in 1..n : tree[j] = p
  BY <1>1, TreeFacts
<1>5. p \in Slots /\ Compare(key, q[p], q[p]) = 0
  BY <1>2, <1>4, CompareOrders
<1>6. at \in 1..n
  BY <1>2, <1>3, <1>4, <1>5
<1>7. tree[at] = p
  <2>1. Compare(key, q[tree[at]], q[p]) = 0 /\ tree[at] \in Slots
    BY <1>3, <1>6
  <2>2. ~Below(key, q, tree[at], tree[j]) /\ ~Below(key, q, tree[j], tree[at])
    BY <1>4, <1>5, <2>1, BelowOrders
  <2>3. ~(at < j) /\ ~(j < at)
    BY <1>1, <1>4, <1>6, <2>2 DEF SortedBy
  <2> QED BY <1>4, <1>6, <2>3
<1>8. DeleteSlot(tree, key, q, p) = RemoveAt(tree, at)
  BY <1>6 DEF DeleteSlot, at
<1>9. LeavesFrom(RemoveAt(tree, at), tree, at)
  BY <1>1, <1>6, RemoveAtLeaves
<1> QED BY <1>1, <1>6, <1>7, <1>8, <1>9, LeavingKeeps

LEMMA SortedIsInjective ==
  ASSUME NEW key \in Keys, NEW q \in SlotRecords, NEW tree \in Seq(Slots), SortedBy(tree, key, q)
  PROVE  /\ \A i, j \in 1..Len(tree) : i # j => tree[i] # tree[j]
         /\ IsInjective(tree)
<1>1. ASSUME NEW i \in 1..Len(tree), NEW j \in 1..Len(tree), i < j
      PROVE  tree[i] # tree[j]
  <2>1. tree[i] \in Slots /\ tree[j] \in Slots /\ Below(key, q, tree[i], tree[j])
    BY <1>1 DEF SortedBy
  <2> QED BY <2>1, BelowOrders
<1>2. ASSUME NEW i \in 1..Len(tree), NEW j \in 1..Len(tree), i # j
      PROVE  tree[i] # tree[j]
  <2>1. i < j \/ j < i
    BY <1>2
  <2> QED BY <1>1, <2>1
<1> QED BY <1>2 DEF IsInjective

\* A cut tree: both parts are sorted and share no slot.
LEMMA CutKeeps ==
  ASSUME NEW key \in Keys, NEW q \in SlotRecords, NEW tree \in Seq(Slots), SortedBy(tree, key, q),
         NEW k \in 0..Len(tree)
  PROVE  /\ Prefix(tree, k) \in Seq(Slots) /\ Rest(tree, k) \in Seq(Slots)
         /\ SortedBy(Prefix(tree, k), key, q) /\ SortedBy(Rest(tree, k), key, q)
         /\ Range(Prefix(tree, k)) = {tree[i] : i \in 1..k}
         /\ Range(Rest(tree, k)) = {tree[i] : i \in (k + 1)..Len(tree)}
         /\ Range(Prefix(tree, k)) \cup Range(Rest(tree, k)) = Range(tree)
         /\ Range(Prefix(tree, k)) \cap Range(Rest(tree, k)) = {}
<1> DEFINE front == Prefix(tree, k)
           back == Rest(tree, k)
<1>1. PICK n \in Nat : n = Len(tree)
  OBVIOUS
<1>2. k \in 0..n /\ k \in Nat /\ n - k \in Nat /\ \A i \in 1..n : tree[i] \in Slots
  BY <1>1
<1>3. front \in Seq(Slots) /\ Len(front) = k /\ \A i \in 1..k : front[i] = tree[i]
  BY <1>1, <1>2 DEF Prefix
<1>4. back \in Seq(Slots) /\ Len(back) = n - k /\ \A i \in 1..(n - k) : back[i] = tree[k + i]
  <2>1. k + 1 \in Int /\ n \in Int /\ \A i \in (k + 1)..n : tree[i] \in Slots
    BY <1>2
  <2>2. /\ back \in Seq(Slots) /\ Len(back) = IF k + 1 <= n THEN n - (k + 1) + 1 ELSE 0
        /\ \A i \in 1..(n - (k + 1) + 1) : back[i] = tree[k + 1 + i - 1]
    BY <1>1, <2>1, SubSeqProperties DEF Rest
  <2> HIDE DEF back
  <2>3. Len(back) = n - k
    BY <1>2, <2>2
  <2>4. ASSUME NEW i \in 1..(n - k)
        PROVE  back[i] = tree[k + i]
    <3>1. i \in 1..(n - (k + 1) + 1) /\ k + 1 + i - 1 = k + i
      BY <1>2
    <3> QED BY <2>2, <3>1
  <2> QED BY <2>2, <2>3, <2>4
<1> HIDE DEF front, back
<1>5. SortedBy(front, key, q)
  <2>1. ASSUME NEW i \in 1..k, NEW j \in 1..k, i < j
        PROVE  Below(key, q, front[i], front[j])
    <3>1. i \in 1..n /\ j \in 1..n
      BY <1>2
    <3> QED BY <1>1, <1>3, <2>1, <3>1 DEF SortedBy
  <2> QED BY <1>3, <2>1 DEF SortedBy
<1>6. SortedBy(back, key, q)
  <2>1. ASSUME NEW i \in 1..(n - k), NEW j \in 1..(n - k), i < j
        PROVE  Below(key, q, back[i], back[j])
    <3>1. k + i \in 1..n /\ k + j \in 1..n /\ k + i < k + j
      BY <1>2, <2>1
    <3> QED BY <1>1, <1>4, <3>1 DEF SortedBy
  <2> QED BY <1>4, <2>1 DEF SortedBy
<1>7. Range(front) = {tree[i] : i \in 1..k}
  <2>1. Range(front) = {front[i] : i \in 1..k}
    BY <1>3, TreeFacts
  <2> QED BY <1>3, <2>1
<1>8. Range(back) = {tree[i] : i \in (k + 1)..n}
  <2>1. Range(back) = {back[i] : i \in 1..(n - k)}
    BY <1>4, TreeFacts
  <2>2. ASSUME NEW i \in 1..(n - k)
        PROVE  back[i] \in {tree[j] : j \in (k + 1)..n}
    <3>1. k + i \in (k + 1)..n
      BY <1>2
    <3> QED BY <1>4, <3>1
  <2>3. ASSUME NEW j \in (k + 1)..n
        PROVE  tree[j] \in {back[i] : i \in 1..(n - k)}
    <3>1. j - k \in 1..(n - k) /\ k + (j - k) = j
      BY <1>2
    <3>2. back[j - k] = tree[j]
      BY <1>4, <3>1
    <3> QED BY <3>1, <3>2
  <2> QED BY <2>1, <2>2, <2>3
<1>9. Range(tree) = {tree[i] : i \in 1..n}
  BY <1>1, TreeFacts
<1>10. \A i \in 1..n : i \in 1..k \/ i \in (k + 1)..n
  BY <1>2
<1>11. (\A i \in 1..k : i \in 1..n) /\ (\A i \in (k + 1)..n : i \in 1..n)
  BY <1>2
<1>12. \A i \in 1..k, j \in (k + 1)..n : tree[i] # tree[j]
  <2>1. \A i, j \in 1..n : i # j => tree[i] # tree[j]
    BY <1>1, SortedIsInjective
  <2>2. \A i \in 1..k, j \in (k + 1)..n : i # j
    BY <1>2
  <2> QED BY <1>11, <2>1, <2>2
<1>13. Range(front) \cup Range(back) = Range(tree)
  BY <1>7, <1>8, <1>9, <1>10, <1>11
<1>14. Range(front) \cap Range(back) = {}
  BY <1>7, <1>8, <1>12
<1> QED BY <1>1, <1>3, <1>4, <1>5, <1>6, <1>7, <1>8, <1>13, <1>14 DEF front, back

LEMMA DeleteSlotIsATree ==
  ASSUME NEW key, NEW q, NEW tree \in Seq(Slots), NEW p
  PROVE  DeleteSlot(tree, key, q, p) \in Seq(Slots)
<1> DEFINE S == {o \in Slots : Compare(key, q[o], q[p]) = 0}
           at == FirstOf(tree, S)
<1>1. at \in 0..Len(tree)
  BY FirstOfFacts
<1>2. CASE at = 0
  BY <1>2 DEF DeleteSlot
<1>3. CASE at # 0
  <2>1. at \in 1..Len(tree) /\ DeleteSlot(tree, key, q, p) = RemoveAt(tree, at)
    BY <1>1, <1>3 DEF DeleteSlot
  <2>2. LeavesFrom(RemoveAt(tree, at), tree, at)
    <3> HIDE DEF at
    <3> QED BY <2>1, RemoveAtLeaves
  <2> QED BY <2>1, <2>2 DEF LeavesFrom
<1> QED BY <1>2, <1>3

\* The deletions of a scan: exactly the given slots leave, and the rest keep
\* their order.  Each search is made in what the ones before it left.
LEMMA DeleteEachKeeps ==
  ASSUME NEW key \in Keys, NEW q \in SlotRecords, NEW tree \in Seq(Slots), NEW gone \in Seq(Slots),
         SortedBy(tree, key, q), Range(gone) \subseteq Range(tree),
         \A i, j \in 1..Len(gone) : i # j => gone[i] # gone[j]
  PROVE  /\ DeleteEach(tree, key, q, gone) \in Seq(Slots)
         /\ SortedBy(DeleteEach(tree, key, q, gone), key, q)
         /\ Range(DeleteEach(tree, key, q, gone)) = Range(tree) \ Range(gone)
<1> DEFINE L == Len(gone)
           del(t, k) == DeleteSlot(t, key, q, gone[k])
           left == CHOOSE f : f = [k \in 0..L |-> IF k = 0 THEN tree ELSE del(f[k - 1], k)]
           g == [k \in 1..L |-> [t \in Seq(Slots) |-> del(t, k)]]
           Taken(n) == {gone[i] : i \in 1..n}
           Good(t, n) == /\ t \in Seq(Slots) /\ SortedBy(t, key, q)
                         /\ Range(t) = Range(tree) \ Taken(n)
<1>1. L \in Nat /\ Range(gone) = Taken(L)
  BY TreeFacts
<1>2. DeleteEach(tree, key, q, gone) = left[L]
  BY DEF DeleteEach
<1>3. \A i, j \in 1..L : i # j => gone[i] # gone[j]
  OBVIOUS
<1>4. \A i \in 1..L : gone[i] \in Range(tree)
  BY <1>1
<1> HIDE DEF L
<1>5. \A t \in Seq(Slots), k \in 1..L : del(t, k) \in Seq(Slots)
  BY DeleteSlotIsATree
<1> HIDE DEF del
<1>6. PICK f \in [0..L -> Seq(Slots)] : IsRunOf(f, L, tree, g)
  <2>1. g \in [1..L -> [Seq(Slots) -> Seq(Slots)]]
    BY <1>5
  <2> HIDE DEF g
  <2>2. \E f \in [0..L -> Seq(Slots)] : IsRunOf(f, L, tree, g)
    BY <1>1, <2>1, RunExists
  <2> QED BY <2>2
<1>7. f = [k \in 0..L |-> IF k = 0 THEN tree ELSE del(f[k - 1], k)]
  <2>1. f = [k \in 0..L |-> IF k = 0 THEN tree ELSE g[k][f[k - 1]]]
    BY <1>6 DEF IsRunOf
  <2>2. ASSUME NEW k \in 0..L, k # 0
        PROVE  g[k][f[k - 1]] = del(f[k - 1], k)
    <3>1. k \in 1..L /\ k - 1 \in 0..L
      BY <1>1, <2>2
    <3>2. f[k - 1] \in Seq(Slots)
      BY <1>6, <3>1
    <3> QED BY <3>1, <3>2
  <2> HIDE DEF g
  <2> QED BY <2>1, <2>2
<1>8. left = [k \in 0..L |-> IF k = 0 THEN tree ELSE del(left[k - 1], k)]
  BY <1>7
<1> HIDE DEF left, g
<1>9. \A k \in 0..L : left[k] = IF k = 0 THEN tree ELSE del(left[k - 1], k)
  BY <1>8, Zenon
<1>10. Good(left[0], 0)
  BY <1>1, <1>9
<1>11. ASSUME NEW n \in Nat, n + 1 <= L, Good(left[n], n)
       PROVE  Good(left[n + 1], n + 1)
  <2>1. n + 1 \in 1..L /\ n + 1 \in 0..L /\ n + 1 # 0 /\ n + 1 - 1 = n
    BY <1>1, <1>11
  <2>2. PICK t \in Seq(Slots) : t = left[n]
    BY <1>11
  <2>3. SortedBy(t, key, q) /\ Range(t) = Range(tree) \ Taken(n)
    BY <1>11, <2>2
  <2>4. left[n + 1] = DeleteSlot(t, key, q, gone[n + 1])
    BY <1>9, <2>1, <2>2 DEF del
  <2>5. gone[n + 1] \in Range(t)
    <3>1. ASSUME NEW i \in 1..n
          PROVE  gone[i] # gone[n + 1]
      <4>1. i \in 1..L /\ i # n + 1
        BY <1>1, <2>1
      <4> QED BY <1>3, <2>1, <4>1
    <3>2. gone[n + 1] \notin Taken(n)
      BY <3>1
    <3> QED BY <1>4, <2>1, <2>3, <3>2
  <2>6. Taken(n + 1) = Taken(n) \cup {gone[n + 1]}
    <3>1. 1..(n + 1) = (1..n) \cup {n + 1}
      OBVIOUS
    <3> QED BY <3>1
  <2> HIDE DEF Taken
  <2>7. /\ left[n + 1] \in Seq(Slots) /\ SortedBy(left[n + 1], key, q)
        /\ Range(left[n + 1]) = Range(t) \ {gone[n + 1]}
    BY <2>3, <2>4, <2>5, DeleteSlotKeeps
  <2> QED BY <2>3, <2>6, <2>7
<1> HIDE DEF Good
<1> DEFINE S == {n \in Nat : n <= L => Good(left[n], n)}
<1>12. 0 \in S
  BY <1>10
<1>13. \A n \in Nat : n \in S => n + 1 \in S
  <2>1. ASSUME NEW n \in Nat, n \in S, n + 1 <= L
        PROVE  Good(left[n + 1], n + 1)
    <3>1. Good(left[n], n)
      BY <1>1, <2>1
    <3> QED BY <1>11, <2>1, <3>1
  <2> QED BY <2>1
<1>14. S = Nat
  <2>1. S \in SUBSET Nat
    OBVIOUS
  <2> HIDE DEF S
  <2> QED BY <1>12, <1>13, <2>1, Induct
<1>15. Good(left[L], L)
  BY <1>1, <1>14
<1> QED BY <1>1, <1>2, <1>15 DEF Good

\* A scan stops at the first item that does not pass.
LEMMA CountFacts ==
  ASSUME NEW tree \in Seq(Slots), NEW passing
  PROVE  /\ CountThrough(tree, passing) \in 0..Len(tree)
         /\ \A i \in 1..CountThrough(tree, passing) : tree[i] \in passing
         /\ CountThrough(tree, passing) < Len(tree)
              => tree[CountThrough(tree, passing) + 1] \notin passing
<1> DEFINE stop == FirstOf(tree, Slots \ passing)
           k == CountThrough(tree, passing)
<1>1. PICK n \in Nat : n = Len(tree)
  OBVIOUS
<1>2. \A i \in 1..n : tree[i] \in Slots
  BY <1>1
<1>3. /\ stop \in 0..n
      /\ stop = 0 => \A i \in 1..n : tree[i] \notin Slots \ passing
      /\ stop # 0 => /\ tree[stop] \in Slots \ passing
                     /\ \A i \in 1..(stop - 1) : tree[i] \notin Slots \ passing
  BY <1>1, FirstOfFacts
<1>4. k = IF stop = 0 THEN n ELSE stop - 1
  BY <1>1 DEF CountThrough
<1> HIDE DEF stop, k
<1>5. CASE stop = 0
  BY <1>1, <1>2, <1>3, <1>4, <1>5 DEF k
<1>6. CASE stop # 0
  <2>1. k = stop - 1 /\ k \in 0..n /\ k + 1 = stop
    BY <1>3, <1>4, <1>6
  <2>2. tree[k + 1] \notin passing
    BY <1>3, <1>6, <2>1
  <2>3. \A i \in 1..k : tree[i] \in passing
    BY <1>2, <1>3, <1>6, <2>1
  <2> QED BY <1>1, <2>1, <2>2, <2>3 DEF k
<1> QED BY <1>5, <1>6

\* The key a tree is sorted by first.
First(key, r) == IF key = "deadline" THEN r.deadline ELSE r.seq

\* The slots a scan takes from the front are exactly those whose key is small
\* enough, because the tree is sorted.
LEMMA ScanTakesAll ==
  ASSUME NEW key \in Keys, NEW q \in SlotRecords, NEW tree \in Seq(Slots), SortedBy(tree, key, q),
         NEW bound \in Int
  PROVE  LET k == CountThrough(tree, {p \in Slots : First(key, q[p]) <= bound})
         IN /\ k \in 0..Len(tree)
            /\ Range(Prefix(tree, k)) = {p \in Range(tree) : First(key, q[p]) <= bound}
            /\ Range(Rest(tree, k)) = {p \in Range(tree) : First(key, q[p]) > bound}
<1> DEFINE k == CountThrough(tree, {p \in Slots : First(key, q[p]) <= bound})
           small == {p \in Slots : First(key, q[p]) <= bound}
<1>1. PICK n \in Nat : n = Len(tree)
  OBVIOUS
<1>2. \A i \in 1..n : tree[i] \in Slots
  BY <1>1
<1>3. /\ k \in 0..n
      /\ \A i \in 1..k : tree[i] \in small
      /\ k < n => tree[k + 1] \notin small
  <2>1. small = {p \in Slots : First(key, q[p]) <= bound}
    OBVIOUS
  <2>2. k = CountThrough(tree, small)
    OBVIOUS
  <2> HIDE DEF small, k
  <2> QED BY <1>1, <2>2, CountFacts
<1> HIDE DEF k
<1>4. ASSUME NEW p \in Slots
      PROVE  First(key, q[p]) \in Int
  BY DEF SlotRecords, First
<1>5. ASSUME NEW a \in Slots, NEW b \in Slots, Below(key, q, a, b)
      PROVE  First(key, q[a]) <= First(key, q[b])
  <2>1. q[a].seq \in Int /\ q[a].deadline \in Int /\ q[b].seq \in Int /\ q[b].deadline \in Int
    BY DEF SlotRecords
  <2>2. CASE key = "deadline"
    BY <1>5, <2>1, <2>2 DEF Below, Compare, compareRetryDeadline, First
  <2>3. CASE key = "seqNum"
    BY <1>5, <2>1, <2>3 DEF Below, Compare, compareSeqNum, First
  <2> QED BY <2>2, <2>3 DEF Keys
<1>6. ASSUME NEW i \in (k + 1)..n
      PROVE  First(key, q[tree[i]]) > bound
  <2>1. k + 1 \in 1..n /\ i \in 1..n /\ k < n
    BY <1>3
  <2>2. First(key, q[tree[k + 1]]) > bound /\ tree[k + 1] \in Slots
    BY <1>2, <1>3, <1>4, <2>1
  <2>3. CASE i = k + 1
    BY <2>2, <2>3
  <2>4. CASE k + 1 < i
    <3>1. Below(key, q, tree[k + 1], tree[i])
      BY <1>1, <2>1, <2>4 DEF SortedBy
    <3>2. First(key, q[tree[k + 1]]) <= First(key, q[tree[i]])
      BY <1>2, <1>5, <2>1, <3>1
    <3> QED BY <1>2, <1>4, <2>1, <2>2, <3>2
  <2> QED BY <1>3, <2>3, <2>4
<1>7. ASSUME NEW i \in 1..k
      PROVE  First(key, q[tree[i]]) <= bound
  BY <1>3
<1>8. /\ Range(Prefix(tree, k)) = {tree[i] : i \in 1..k}
      /\ Range(Rest(tree, k)) = {tree[i] : i \in (k + 1)..n}
      /\ Range(Prefix(tree, k)) \cup Range(Rest(tree, k)) = Range(tree)
  <2>1. k \in 0..Len(tree)
    BY <1>1, <1>3
  <2>2. /\ Range(Prefix(tree, k)) = {tree[i] : i \in 1..k}
        /\ Range(Rest(tree, k)) = {tree[i] : i \in (k + 1)..Len(tree)}
        /\ Range(Prefix(tree, k)) \cup Range(Rest(tree, k)) = Range(tree)
    BY <2>1, CutKeeps
  <2> QED BY <1>1, <2>2
<1>9. ASSUME NEW i \in (k + 1)..n
      PROVE  ~(First(key, q[tree[i]]) <= bound)
  <2>1. i \in 1..n
    BY <1>3
  <2> QED BY <1>2, <1>4, <1>6, <2>1
<1>10. ASSUME NEW i \in 1..k
       PROVE  ~(First(key, q[tree[i]]) > bound)
  <2>1. i \in 1..n
    BY <1>3
  <2> QED BY <1>2, <1>4, <1>7, <2>1
<1>11. \A p \in Range(Prefix(tree, k)) : First(key, q[p]) <= bound /\ ~(First(key, q[p]) > bound)
  BY <1>7, <1>8, <1>10
<1>12. \A p \in Range(Rest(tree, k)) : First(key, q[p]) > bound /\ ~(First(key, q[p]) <= bound)
  BY <1>6, <1>8, <1>9
<1>13. k \in 0..Len(tree)
  BY <1>1, <1>3
<1> HIDE DEF small
<1>14. /\ Range(Prefix(tree, k)) = {p \in Range(tree) : First(key, q[p]) <= bound}
       /\ Range(Rest(tree, k)) = {p \in Range(tree) : First(key, q[p]) > bound}
  BY <1>8, <1>11, <1>12, Zenon
<1> QED BY <1>13, <1>14 DEF k

-----------------------------------------------------------------------------
(* Sizes. *)

\* Trees of the same slots have the same length: GotPack's check passes.
LEMMA SameRangeSameLength ==
  ASSUME NEW s \in Seq(Slots), NEW t \in Seq(Slots), Range(s) = Range(t),
         \A i, j \in 1..Len(s) : i # j => s[i] # s[j],
         \A i, j \in 1..Len(t) : i # j => t[i] # t[j]
  PROVE  Len(s) = Len(t)
<1>1. ASSUME NEW u \in Seq(Slots), \A i, j \in 1..Len(u) : i # j => u[i] # u[j]
      PROVE  Cardinality(Range(u)) = Len(u)
  <2>1. Len(u) \in Nat /\ DOMAIN u = 1..Len(u) /\ Range(u) = {u[i] : i \in 1..Len(u)}
    BY TreeFacts
  <2>2. u \in [1..Len(u) -> Range(u)]
    BY <2>1
  <2>3. u \in Bijection(1..Len(u), Range(u))
    BY <1>1, <2>1, <2>2 DEF Bijection, Injection, Surjection, IsInjective
  <2>4. ExistsBijection(1..Len(u), Range(u))
    BY <2>3 DEF ExistsBijection
  <2> QED BY <2>1, <2>4, FS_CountingElements
<1> QED BY <1>1

\* The frames in a tree are at most its length.
LEMMA FramesFit ==
  ASSUME NEW tree \in Seq(Slots), NEW q, NEW low \in Int, NEW last \in Int, low <= last,
         {q[p].seq : p \in Range(tree)} = (low + 1)..last
  PROVE  last - low <= Len(tree)
<1> DEFINE frames == {q[p].seq : p \in Range(tree)}
           f == [i \in 1..Len(tree) |-> q[tree[i]].seq]
<1>1. Len(tree) \in Nat /\ Range(tree) = {tree[i] : i \in 1..Len(tree)}
  BY TreeFacts
<1>2. \A i \in 1..Len(tree) : f[i] \in frames
  BY <1>1
<1>3. \A n \in frames : \E i \in 1..Len(tree) : f[i] = n
  BY <1>1
<1>4. f \in Surjection(1..Len(tree), frames)
  <2> HIDE DEF frames
  <2> QED BY <1>2, <1>3 DEF Surjection
<1>5. ExistsSurjection(1..Len(tree), frames)
  <2> HIDE DEF f, frames
  <2> QED BY <1>4 DEF ExistsSurjection
<1>6. Cardinality(frames) <= Len(tree)
  <2> HIDE DEF frames
  <2> QED BY <1>1, <1>5, FS_SurjCardinalityBound
<1>7. Cardinality((low + 1)..last) = last - low
  <2>1. low + 1 \in Int
    OBVIOUS
  <2>2. Cardinality((low + 1)..last) = IF low + 1 > last THEN 0 ELSE last - (low + 1) + 1
    BY <2>1, FS_Interval
  <2> QED BY <2>2
<1> QED BY <1>6, <1>7

-----------------------------------------------------------------------------
(* The invariant. *)

\* The two trees and the wakeup's list, by the keys their slots have in q.
TreesHold(byDeadline, bySeq, list, q) ==
  /\ byDeadline \in Seq(Slots) /\ bySeq \in Seq(Slots) /\ list \in Seq(Slots)
  /\ SortedBy(byDeadline, "deadline", q) /\ SortedBy(bySeq, "seqNum", q)
  /\ Range(byDeadline) = Range(bySeq) /\ Range(list) \cap Range(bySeq) = {}
  /\ \A i, j \in 1..Len(list) : i # j => list[i] # list[j]

FramesIn(slots, q) == {q[p].seq : p \in slots}

\* The frames that wait for an ack are the last ones sent, at most a window of
\* them, each in the slot its number gives it.
RunHolds(waiting, q, last) ==
  /\ \A p \in waiting : Pos(q[p].seq) = p
  /\ \E low \in -1..last : /\ last - low <= SenderWindowSize
                           /\ FramesIn(waiting, q) = (low + 1)..last

RetryInv ==
  /\ TypeOK /\ ~panicked
  /\ TreesHold(SentButNotAckedByDeadline, SentButNotAckedBySeqNum, retry, Txq)
  /\ RunHolds(Waiting, Txq, LastFrameSent)

\* A peer never advertises more than this sender's window (an assumption on how the
\* two ends are configured: the sender adopts whatever capacity it is told).
PeerFits == PeerWindow <= SenderWindowSize

LEMMA SlotFacts ==
  /\ SenderWindowSize \in Nat \ {0}
  /\ \A n \in Nat : Pos(n) \in Slots
<1>1. SenderWindowSize \in Nat \ {0}
  BY TreesAssumption
<1>2. ASSUME NEW n \in Nat
      PROVE  Pos(n) \in Slots
  <2>1. n % SenderWindowSize \in 0..(SenderWindowSize - 1)
    BY <1>1, DivMod
  <2> QED BY <2>1 DEF Pos, Slots
<1> QED BY <1>1, <1>2

LEMMA TypeFacts ==
  ASSUME TypeOK
  PROVE  /\ now \in Int /\ LastFrameSent \in Int /\ LastFrameSent >= -1
         /\ Txq \in SlotRecords /\ DOMAIN Txq = Slots
         /\ \A p \in Slots : Txq[p].seq \in -1..LastFrameSent /\ Txq[p].deadline \in Int
  <1>1. now \in Int /\ LastFrameSent \in Int /\ LastFrameSent >= -1
    BY TreesAssumption DEF TypeOK
  <1>2. Txq \in [Slots -> [seq : -1..LastFrameSent, deadline : Int]]
    BY DEF TypeOK
  <1>3. Txq \in SlotRecords
    BY <1>1, <1>2 DEF SlotRecords
  <1> QED BY <1>1, <1>2, <1>3

\* The trees read their slots' keys and nothing else of Txq.
LEMMA SameKeysKeepSorted ==
  ASSUME NEW key, NEW tree \in Seq(Slots), NEW q, NEW r,
         \A p \in Range(tree) : q[p] = r[p], SortedBy(tree, key, q)
  PROVE  SortedBy(tree, key, r)
<1>1. \A i \in 1..Len(tree) : q[tree[i]] = r[tree[i]]
  BY TreeFacts
<1> QED BY <1>1 DEF SortedBy, Below

\* What the properties TreesAgree and TreesSorted say follows.
LEMMA TreesHoldMeans ==
  ASSUME NEW d, NEW s, NEW list, NEW q \in SlotRecords, TreesHold(d, s, list, q)
  PROVE  /\ Len(d) = Len(s)
         /\ Range(d) = Range(s) /\ Range(list) \cap Range(s) = {}
         /\ IsInjective(d \o list) /\ IsInjective(s)
         /\ \A i, j \in DOMAIN d : i < j => compareRetryDeadline(q[d[i]], q[d[j]]) < 0
         /\ \A i, j \in DOMAIN s : i < j => compareSeqNum(q[s[i]], q[s[j]]) < 0
<1>1. d \in Seq(Slots) /\ s \in Seq(Slots) /\ list \in Seq(Slots) /\ "deadline" \in Keys /\ "seqNum" \in Keys
  BY DEF TreesHold, Keys
<1>2. /\ SortedBy(d, "deadline", q) /\ SortedBy(s, "seqNum", q)
      /\ Range(d) = Range(s) /\ Range(list) \cap Range(s) = {}
      /\ \A i, j \in 1..Len(list) : i # j => list[i] # list[j]
  BY DEF TreesHold
<1>3. \A i, j \in 1..Len(d) : i # j => d[i] # d[j]
  BY <1>1, <1>2, SortedIsInjective
<1>4. (\A i, j \in 1..Len(s) : i # j => s[i] # s[j]) /\ IsInjective(s)
  BY <1>1, <1>2, SortedIsInjective
<1>5. Len(d) = Len(s)
  BY <1>1, <1>2, <1>3, <1>4, SameRangeSameLength
<1>6. \A i, j \in DOMAIN d : i < j => compareRetryDeadline(q[d[i]], q[d[j]]) < 0
  BY <1>1, <1>2 DEF SortedBy, Below, Compare
<1>7. \A i, j \in DOMAIN s : i < j => compareSeqNum(q[s[i]], q[s[j]]) < 0
  <2>1. "seqNum" # "deadline"
    OBVIOUS
  <2> QED BY <1>1, <1>2, <2>1 DEF SortedBy, Below, Compare
<1> DEFINE both == d \o list
           m == Len(d)
           l == Len(list)
<1>8. /\ both \in Seq(Slots) /\ Len(both) = m + l /\ m \in Nat /\ l \in Nat
      /\ \A i \in 1..m : both[i] = d[i]
      /\ \A i \in 1..l : both[m + i] = list[i]
  BY <1>1, Joining
<1>9. \A i \in 1..m, j \in 1..l : d[i] # list[j]
  <2>1. (\A i \in 1..m : d[i] \in Range(d)) /\ (\A j \in 1..l : list[j] \in Range(list))
    BY <1>1, TreeFacts
  <2> QED BY <1>2, <2>1
<1>10. DOMAIN both = 1..(m + l)
  BY <1>8
<1> HIDE DEF both, m, l
<1>11. ASSUME NEW i \in 1..(m + l), NEW j \in 1..(m + l), i # j
       PROVE  both[i] # both[j]
  <2>1. i \in 1..m \/ (i - m \in 1..l /\ m + (i - m) = i)
    BY <1>8
  <2>2. j \in 1..m \/ (j - m \in 1..l /\ m + (j - m) = j)
    BY <1>8
  <2>3. CASE i \in 1..m /\ j \in 1..m
    BY <1>3, <1>8, <1>11, <2>3 DEF m
  <2>4. CASE i \in 1..m /\ j - m \in 1..l /\ m + (j - m) = j
    <3>1. both[j] = list[j - m]
      BY <1>8, <2>4
    <3> QED BY <1>8, <1>9, <2>4, <3>1
  <2>5. CASE j \in 1..m /\ i - m \in 1..l /\ m + (i - m) = i
    <3>1. both[i] = list[i - m]
      BY <1>8, <2>5
    <3> QED BY <1>8, <1>9, <2>5, <3>1
  <2>6. CASE i - m \in 1..l /\ m + (i - m) = i /\ j - m \in 1..l /\ m + (j - m) = j
    <3>1. both[i] = list[i - m] /\ both[j] = list[j - m]
      BY <1>8, <2>6
    <3>2. i - m # j - m
      BY <1>8, <1>11
    <3> QED BY <1>2, <2>6, <3>1, <3>2 DEF l
  <2> QED BY <2>1, <2>2, <2>3, <2>4, <2>5, <2>6
<1>12. IsInjective(both)
  BY <1>10, <1>11 DEF IsInjective
<1> QED BY <1>2, <1>4, <1>5, <1>6, <1>7, <1>12 DEF both

LEMMA RetryInvMeans ==
  ASSUME RetryInv
  PROVE  TypeOK /\ TreesAgree /\ TreesSorted
BY TypeFacts, TreesHoldMeans DEF RetryInv, TreesAgree, TreesSorted

LEMMA InitHolds ==
  ASSUME Init
  PROVE  RetryInv
<1>1. TypeOK
  <2>1. Txq \in [Slots -> [seq : -1..LastFrameSent, deadline : Int]]
    BY DEF Init
  <2>2. << >> \in Seq(Slots)
    OBVIOUS
  <2>3. /\ now \in 0..MaxTime /\ LastFrameSent \in -1..(MaxSend - 1)
        /\ LastSeenAvailReaderMsgCap \in 0..PeerWindow \cup {SenderWindowSize}
    BY TreesAssumption DEF Init
  <2> QED BY <2>1, <2>2, <2>3 DEF Init, TypeOK
<1>2. Range(<< >>) = {} /\ << >> \in Seq(Slots) /\ Len(<< >>) = 0
  BY DEF Range
<1>3. TreesHold(<< >>, << >>, << >>, Txq)
  BY <1>2 DEF TreesHold, SortedBy
<1>4. Waiting = {} /\ LastFrameSent = -1
  BY <1>2 DEF Init, Waiting
<1>5. RunHolds({}, Txq, -1)
  <2>1. FramesIn({}, Txq) = (-1 + 1)..-1 /\ -1 \in -1..-1 /\ -1 - (-1) <= SenderWindowSize
    BY SlotFacts DEF FramesIn
  <2> QED BY <2>1 DEF RunHolds
<1> QED BY <1>1, <1>3, <1>4, <1>5 DEF Init, RetryInv

\* A new frame's slot waits for no ack: the peer's credit is below the window.
LEMMA NextSlotIsFree ==
  ASSUME RetryInv, PeerFits, retry = << >>,
         LastSeenAvailReaderMsgCap - Len(SentButNotAckedByDeadline) > 0
  PROVE  /\ Waiting = Range(SentButNotAckedByDeadline)
         /\ Pos(LastFrameSent + 1) \in Slots \ Waiting
         /\ \E low \in -1..LastFrameSent :
              /\ LastFrameSent + 1 - low <= SenderWindowSize
              /\ FramesIn(Waiting, Txq) = (low + 1)..LastFrameSent
<1> DEFINE W == SenderWindowSize
           last == LastFrameSent
           n == last + 1
<1>1. W \in Nat \ {0} /\ last \in Int /\ last >= -1 /\ n \in Nat /\ Pos(n) \in Slots
  BY SlotFacts, TypeFacts DEF RetryInv
<1>2. Waiting = Range(SentButNotAckedByDeadline)
  <2>1. Range(retry) = {}
    BY DEF Range
  <2> QED BY <2>1 DEF Waiting
<1>3. PICK low \in -1..last : FramesIn(Waiting, Txq) = (low + 1)..last
  BY DEF RetryInv, RunHolds
<1>4. \A p \in Waiting : Pos(Txq[p].seq) = p
  BY DEF RetryInv, RunHolds
<1>5. last - low <= Len(SentButNotAckedByDeadline)
  <2>1. SentButNotAckedByDeadline \in Seq(Slots) /\ low \in Int /\ low <= last
    BY <1>1, <1>3 DEF RetryInv, TreesHold
  <2> QED BY <1>1, <1>2, <1>3, <2>1, FramesFit DEF FramesIn
<1>6. last + 1 - low <= W
  <2>1. LastSeenAvailReaderMsgCap \in Int /\ LastSeenAvailReaderMsgCap <= W
    BY <1>1, TreesAssumption DEF RetryInv, TypeOK, PeerFits
  <2>2. Len(SentButNotAckedByDeadline) \in Nat
    BY DEF RetryInv, TreesHold
  <2> QED BY <1>1, <1>3, <1>5, <2>1, <2>2
<1>7. ASSUME Pos(n) \in Waiting
      PROVE  FALSE
  <2>1. PICK m : m = Txq[Pos(n)].seq
    OBVIOUS
  <2>2. m \in (low + 1)..last /\ Pos(m) = Pos(n)
    BY <1>3, <1>4, <1>7, <2>1 DEF FramesIn
  <2>3. m \in Nat /\ m < n + W /\ n < m + W /\ m # n
    BY <1>1, <1>3, <1>6, <2>2
  <2>4. m % W = n % W
    BY <2>2 DEF Pos
  <2> QED BY <1>1, <2>3, <2>4, ModInjective
<1> QED BY <1>1, <1>2, <1>3, <1>6, <1>7

\* doOrigDataSend's frame enters both trees at the end of the run.
LEMMA AcceptSendKeeps ==
  ASSUME RetryInv, PeerFits, AcceptSend
  PROVE  RetryInv' /\ Waiting' = Waiting \cup {Pos(LastFrameSent + 1)}
<1> DEFINE n == LastFrameSent + 1
           p == Pos(n)
           d == SentButNotAckedByDeadline
           s == SentButNotAckedBySeqNum
<1>1. PICK dur \in RetryDurs :
        /\ Txq' = [Txq EXCEPT ![p] = [seq |-> n, deadline |-> now + dur]]
        /\ d' = Insert(d, "deadline", Txq', p) /\ s' = Insert(s, "seqNum", Txq', p)
  BY DEF AcceptSend, InsertBoth
<1>2. /\ retry = << >> /\ retry' = << >> /\ LastFrameSent' = n /\ n < MaxSend
      /\ UNCHANGED <<now, LastSeenAvailReaderMsgCap, panicked>>
      /\ LastSeenAvailReaderMsgCap - Len(d) > 0
  BY DEF AcceptSend, Free
<1>3. /\ TypeOK /\ ~panicked /\ now \in Int /\ LastFrameSent \in Int /\ LastFrameSent >= -1
      /\ Txq \in SlotRecords /\ DOMAIN Txq = Slots
      /\ \A o \in Slots : Txq[o].seq \in -1..LastFrameSent /\ Txq[o].deadline \in Int
  BY TypeFacts DEF RetryInv
<1>4. /\ Waiting = Range(d) /\ p \in Slots /\ p \notin Waiting
  BY <1>2, NextSlotIsFree
<1>5. PICK low \in -1..LastFrameSent :
        /\ LastFrameSent + 1 - low <= SenderWindowSize
        /\ FramesIn(Waiting, Txq) = (low + 1)..LastFrameSent
  BY <1>2, NextSlotIsFree
<1>6. now + dur \in Int /\ n \in Int
  BY <1>1, <1>3, TreesAssumption
<1>7. /\ Txq' \in [Slots -> [seq : -1..n, deadline : Int]] /\ Txq' \in SlotRecords
      /\ Txq'[p].seq = n /\ \A o \in Slots : o # p => Txq'[o] = Txq[o]
  <2> HIDE DEF n, p
  <2>1. \A o \in Slots : Txq[o] \in [seq : -1..n, deadline : Int]
    <3>1. \A o \in Slots : Txq[o] \in [seq : -1..LastFrameSent, deadline : Int]
      BY <1>3 DEF TypeOK
    <3>2. \A i \in -1..LastFrameSent : i \in -1..n
      BY <1>3 DEF n
    <3> QED BY <3>1, <3>2
  <2>2. [seq |-> n, deadline |-> now + dur] \in [seq : -1..n, deadline : Int]
    BY <1>3, <1>6 DEF n
  <2>3. Txq' \in [Slots -> [seq : -1..n, deadline : Int]]
    <3>1. Txq \in [Slots -> [seq : -1..n, deadline : Int]]
      BY <1>3, <2>1 DEF TypeOK
    <3> QED BY <1>1, <2>2, <3>1
  <2>4. Txq' \in SlotRecords
    BY <1>6, <2>3 DEF SlotRecords
  <2>5. Txq'[p].seq = n /\ \A o \in Slots : o # p => Txq'[o] = Txq[o]
    BY <1>1, <1>3, <1>4
  <2> QED BY <2>3, <2>4, <2>5
<1>8. /\ d \in Seq(Slots) /\ s \in Seq(Slots) /\ Range(d) = Range(s)
      /\ SortedBy(d, "deadline", Txq) /\ SortedBy(s, "seqNum", Txq)
  BY DEF RetryInv, TreesHold
<1>9. \A o \in Range(d) : o \in Slots /\ o # p
  BY <1>4, <1>8, TreeFacts
<1>10. \A o \in Range(d) : Txq[o] = Txq'[o] /\ Txq'[o].seq # Txq'[p].seq
  BY <1>3, <1>7, <1>9
<1> HIDE DEF d, s, n, p
<1>11. SortedBy(d, "deadline", Txq') /\ SortedBy(s, "seqNum", Txq')
  BY <1>8, <1>10, SameKeysKeepSorted
<1>12. /\ d' \in Seq(Slots) /\ SortedBy(d', "deadline", Txq') /\ Range(d') = Range(d) \cup {p}
  <2>1. \A i \in 1..Len(d) : Txq'[d[i]].seq # Txq'[p].seq
    BY <1>8, <1>10, TreeFacts
  <2>2. "deadline" \in Keys /\ Txq' \in SlotRecords /\ d \in Seq(Slots) /\ p \in Slots
    BY <1>4, <1>7, <1>8 DEF Keys
  <2>3. /\ Insert(d, "deadline", Txq', p) \in Seq(Slots)
        /\ SortedBy(Insert(d, "deadline", Txq', p), "deadline", Txq')
        /\ Range(Insert(d, "deadline", Txq', p)) = Range(d) \cup {p}
    BY <1>11, <2>1, <2>2, InsertKeeps
  <2> QED BY <1>1, <2>3
<1>13. /\ s' \in Seq(Slots) /\ SortedBy(s', "seqNum", Txq') /\ Range(s') = Range(s) \cup {p}
  <2>1. \A i \in 1..Len(s) : Txq'[s[i]].seq # Txq'[p].seq
    BY <1>8, <1>10, TreeFacts
  <2>2. "seqNum" \in Keys /\ Txq' \in SlotRecords /\ s \in Seq(Slots) /\ p \in Slots
    BY <1>4, <1>7, <1>8 DEF Keys
  <2>3. /\ Insert(s, "seqNum", Txq', p) \in Seq(Slots)
        /\ SortedBy(Insert(s, "seqNum", Txq', p), "seqNum", Txq')
        /\ Range(Insert(s, "seqNum", Txq', p)) = Range(s) \cup {p}
    BY <1>11, <2>1, <2>2, InsertKeeps
  <2> QED BY <1>1, <2>3
<1>14. Range(<< >>) = {} /\ << >> \in Seq(Slots) /\ Len(<< >>) = 0
  BY DEF Range
<1>15. TreesHold(d', s', retry', Txq')
  BY <1>2, <1>8, <1>12, <1>13, <1>14 DEF TreesHold
<1>16. Waiting' = Waiting \cup {p}
  BY <1>2, <1>4, <1>12, <1>14 DEF Waiting, d
<1>17. \A o \in Waiting : Txq'[o] = Txq[o] /\ Pos(Txq[o].seq) = o
  BY <1>4, <1>10 DEF RetryInv, RunHolds
<1>18. RunHolds(Waiting', Txq', LastFrameSent')
  <2>1. \A o \in Waiting' : Pos(Txq'[o].seq) = o
    BY <1>7, <1>16, <1>17 DEF p
  <2>2. FramesIn(Waiting', Txq') = FramesIn(Waiting, Txq) \cup {n}
    BY <1>7, <1>16, <1>17 DEF FramesIn
  <2>3. /\ (low + 1)..n = ((low + 1)..LastFrameSent) \cup {n}
        /\ low \in -1..n /\ n - low <= SenderWindowSize
    BY <1>3, <1>5 DEF n
  <2>4. FramesIn(Waiting', Txq') = (low + 1)..n
    BY <1>5, <2>2, <2>3
  <2> QED BY <1>2, <2>1, <2>3, <2>4 DEF RunHolds
<1>19. TypeOK'
  <2>1. n \in -1..(MaxSend - 1)
    BY <1>2, <1>3, TreesAssumption DEF n
  <2> QED BY <1>2, <1>3, <1>7, <1>12, <1>13, <1>14, <2>1 DEF TypeOK, d, s
<1> QED BY <1>2, <1>3, <1>15, <1>16, <1>18, <1>19 DEF RetryInv, d, s, p, n

\* A scan of one tree that deletes what it takes from the other: both keep the
\* same slots, and the ones taken are in neither.
ScanLength(tree, key, q, bound) == CountThrough(tree, {p \in Slots : First(key, q[p]) <= bound})

LEMMA ScanKeeps ==
  ASSUME NEW key \in Keys, NEW other \in Keys, NEW q \in SlotRecords,
         NEW tree \in Seq(Slots), NEW twin \in Seq(Slots), NEW k,
         SortedBy(tree, key, q), SortedBy(twin, other, q), Range(tree) = Range(twin),
         NEW bound \in Int, k = ScanLength(tree, key, q, bound)
  PROVE  /\ k \in 0..Len(tree)
         /\ Prefix(tree, k) \in Seq(Slots) /\ Rest(tree, k) \in Seq(Slots)
         /\ DeleteEach(twin, other, q, Prefix(tree, k)) \in Seq(Slots)
         /\ SortedBy(Rest(tree, k), key, q)
         /\ SortedBy(DeleteEach(twin, other, q, Prefix(tree, k)), other, q)
         /\ Range(Rest(tree, k)) = Range(DeleteEach(twin, other, q, Prefix(tree, k)))
         /\ Range(Rest(tree, k)) = {p \in Range(tree) : First(key, q[p]) > bound}
         /\ Range(Prefix(tree, k)) = {p \in Range(tree) : First(key, q[p]) <= bound}
         /\ Range(Prefix(tree, k)) \cap Range(Rest(tree, k)) = {}
         /\ Range(Prefix(tree, k)) \cup Range(Rest(tree, k)) = Range(tree)
         /\ \A i, j \in 1..Len(Prefix(tree, k)) : i # j => Prefix(tree, k)[i] # Prefix(tree, k)[j]
<1> DEFINE gone == Prefix(tree, k)
           left == DeleteEach(twin, other, q, gone)
<1>1. /\ k \in 0..Len(tree)
      /\ Range(gone) = {p \in Range(tree) : First(key, q[p]) <= bound}
      /\ Range(Rest(tree, k)) = {p \in Range(tree) : First(key, q[p]) > bound}
  BY ScanTakesAll DEF ScanLength
<1>2. /\ gone \in Seq(Slots) /\ Rest(tree, k) \in Seq(Slots)
      /\ SortedBy(gone, key, q) /\ SortedBy(Rest(tree, k), key, q)
      /\ Range(gone) \cup Range(Rest(tree, k)) = Range(tree)
      /\ Range(gone) \cap Range(Rest(tree, k)) = {}
  <2> HIDE DEF gone
  <2>1. /\ Prefix(tree, k) \in Seq(Slots) /\ Rest(tree, k) \in Seq(Slots)
        /\ SortedBy(Prefix(tree, k), key, q) /\ SortedBy(Rest(tree, k), key, q)
        /\ Range(Prefix(tree, k)) \cup Range(Rest(tree, k)) = Range(tree)
        /\ Range(Prefix(tree, k)) \cap Range(Rest(tree, k)) = {}
    BY <1>1, CutKeeps
  <2> QED BY <2>1 DEF gone
<1> HIDE DEF gone
<1>3. \A i, j \in 1..Len(gone) : i # j => gone[i] # gone[j]
  BY <1>2, SortedIsInjective
<1>4. Range(gone) \subseteq Range(twin)
  BY <1>2
<1>5. /\ left \in Seq(Slots) /\ SortedBy(left, other, q)
      /\ Range(left) = Range(twin) \ Range(gone)
  BY <1>2, <1>3, <1>4, DeleteEachKeeps
<1> HIDE DEF left
<1>6. Range(Rest(tree, k)) = Range(left)
  BY <1>2, <1>5
<1> QED BY <1>1, <1>2, <1>3, <1>5, <1>6 DEF gone, left

\* GotPack's frames leave both trees, and its length check passes.
LEMMA GotPackKeeps ==
  ASSUME RetryInv, NEW ackNum \in -1..LastFrameSent, NEW cap \in 0..PeerWindow, GotPack(ackNum, cap)
  PROVE  RetryInv' /\ Waiting' = {p \in Waiting : Txq[p].seq > ackNum}
<1> DEFINE d == SentButNotAckedByDeadline
           s == SentButNotAckedBySeqNum
           k == ScanLength(s, "seqNum", Txq, ackNum)
<1>1. /\ retry = << >> /\ retry' = << >> /\ UNCHANGED <<now, Txq, LastFrameSent>>
      /\ LastSeenAvailReaderMsgCap' = cap
      /\ s' = Rest(s, k) /\ d' = DeleteEach(d, "deadline", Txq, Prefix(s, k))
      /\ panicked' = (Len(d') # Len(s'))
  <2>1. \A p : First("seqNum", Txq[p]) = Txq[p].seq
    BY DEF First
  <2>2. {p \in Slots : First("seqNum", Txq[p]) <= ackNum} = {p \in Slots : Txq[p].seq <= ackNum}
    BY <2>1
  <2>3. k = CountThrough(s, {p \in Slots : Txq[p].seq <= ackNum})
    BY <2>2 DEF ScanLength
  <2> QED BY <2>3 DEF GotPack, Free
<1>2. /\ TypeOK /\ LastFrameSent \in Int /\ LastFrameSent >= -1 /\ Txq \in SlotRecords
      /\ \A p \in Slots : Txq[p].seq \in -1..LastFrameSent
  BY TypeFacts DEF RetryInv
<1>3. /\ d \in Seq(Slots) /\ s \in Seq(Slots) /\ Range(d) = Range(s)
      /\ SortedBy(d, "deadline", Txq) /\ SortedBy(s, "seqNum", Txq)
  BY DEF RetryInv, TreesHold
<1>4. PICK low \in -1..LastFrameSent :
        /\ LastFrameSent - low <= SenderWindowSize
        /\ FramesIn(Waiting, Txq) = (low + 1)..LastFrameSent
  BY DEF RetryInv, RunHolds
<1>5. ackNum \in Int /\ ackNum <= LastFrameSent /\ ackNum >= -1
  BY <1>2
<1> HIDE DEF d, s, k
<1>6. /\ s' \in Seq(Slots) /\ d' \in Seq(Slots)
      /\ SortedBy(s', "seqNum", Txq) /\ SortedBy(d', "deadline", Txq)
      /\ Range(s') = Range(d')
      /\ Range(s') = {p \in Range(s) : First("seqNum", Txq[p]) > ackNum}
  <2>1. "seqNum" \in Keys /\ "deadline" \in Keys /\ k = ScanLength(s, "seqNum", Txq, ackNum)
    BY DEF Keys, k
  <2>2. /\ Rest(s, k) \in Seq(Slots)
        /\ DeleteEach(d, "deadline", Txq, Prefix(s, k)) \in Seq(Slots)
        /\ SortedBy(Rest(s, k), "seqNum", Txq)
        /\ SortedBy(DeleteEach(d, "deadline", Txq, Prefix(s, k)), "deadline", Txq)
        /\ Range(Rest(s, k)) = Range(DeleteEach(d, "deadline", Txq, Prefix(s, k)))
        /\ Range(Rest(s, k)) = {p \in Range(s) : First("seqNum", Txq[p]) > ackNum}
    BY <1>2, <1>3, <1>5, <2>1, ScanKeeps
  <2> QED BY <1>1, <2>2
<1>7. Range(<< >>) = {} /\ << >> \in Seq(Slots) /\ Len(<< >>) = 0
  BY DEF Range
<1>8. TreesHold(d', s', retry', Txq')
  BY <1>1, <1>6, <1>7 DEF TreesHold
<1>9. ~panicked'
  <2>1. TreesHold(d', s', retry', Txq)
    BY <1>1, <1>8
  <2>2. Len(d') = Len(s')
    BY <1>2, <2>1, TreesHoldMeans
  <2> QED BY <1>1, <2>2
<1>10. Waiting = Range(s) /\ Waiting' = Range(s')
  BY <1>1, <1>3, <1>6, <1>7 DEF Waiting, d
<1>11. Waiting' = {p \in Waiting : Txq[p].seq > ackNum}
  BY <1>6, <1>10 DEF First
<1>12. RunHolds(Waiting', Txq', LastFrameSent')
  <2>1. \A p \in Waiting' : Pos(Txq'[p].seq) = p
    BY <1>1, <1>11 DEF RetryInv, RunHolds
  <2>2. FramesIn(Waiting', Txq) = {n \in (low + 1)..LastFrameSent : n > ackNum}
    BY <1>4, <1>11 DEF FramesIn
  <2>3. PICK lo \in -1..LastFrameSent : lo = IF low >= ackNum THEN low ELSE ackNum
    BY <1>2, <1>4, <1>5
  <2>4. /\ {n \in (low + 1)..LastFrameSent : n > ackNum} = (lo + 1)..LastFrameSent
        /\ LastFrameSent - lo <= SenderWindowSize
    BY <1>2, <1>4, <1>5, <2>3, SlotFacts
  <2> QED BY <1>1, <2>1, <2>2, <2>4 DEF RunHolds
<1>13. TypeOK'
  BY <1>1, <1>2, <1>6, <1>7, <1>9 DEF TypeOK, d, s
<1> QED BY <1>8, <1>9, <1>11, <1>12, <1>13 DEF RetryInv, d, s

\* The wakeup's frames move from both trees to its list.
LEMMA WakeupKeeps ==
  ASSUME RetryInv, Wakeup
  PROVE  /\ RetryInv' /\ Waiting' = Waiting
         /\ Range(retry') = {p \in Waiting : Txq[p].deadline <= now}
<1> DEFINE d == SentButNotAckedByDeadline
           s == SentButNotAckedBySeqNum
           k == ScanLength(d, "deadline", Txq, now)
<1>1. /\ retry = << >> /\ retry' = Prefix(d, k)
      /\ UNCHANGED <<now, Txq, LastFrameSent, LastSeenAvailReaderMsgCap, panicked>>
      /\ d' = Rest(d, k) /\ s' = DeleteEach(s, "seqNum", Txq, Prefix(d, k))
  <2>1. \A p : First("deadline", Txq[p]) = Txq[p].deadline
    BY DEF First
  <2>2. {p \in Slots : First("deadline", Txq[p]) <= now} = {p \in Slots : Txq[p].deadline <= now}
    BY <2>1
  <2>3. k = CountThrough(d, {p \in Slots : Txq[p].deadline <= now})
    BY <2>2 DEF ScanLength
  <2> QED BY <2>3 DEF Wakeup, Free
<1>2. TypeOK /\ ~panicked /\ now \in Int /\ Txq \in SlotRecords
  BY TypeFacts DEF RetryInv
<1>3. /\ d \in Seq(Slots) /\ s \in Seq(Slots) /\ Range(d) = Range(s)
      /\ SortedBy(d, "deadline", Txq) /\ SortedBy(s, "seqNum", Txq)
  BY DEF RetryInv, TreesHold
<1> HIDE DEF d, s, k
<1>4. /\ d' \in Seq(Slots) /\ s' \in Seq(Slots) /\ retry' \in Seq(Slots)
      /\ SortedBy(d', "deadline", Txq) /\ SortedBy(s', "seqNum", Txq)
      /\ Range(d') = Range(s')
      /\ Range(retry') \cap Range(d') = {} /\ Range(retry') \cup Range(d') = Range(d)
      /\ Range(retry') = {p \in Range(d) : First("deadline", Txq[p]) <= now}
      /\ \A i, j \in 1..Len(retry') : i # j => retry'[i] # retry'[j]
  <2>1. "seqNum" \in Keys /\ "deadline" \in Keys /\ k = ScanLength(d, "deadline", Txq, now)
    BY DEF Keys, k
  <2>2. /\ Prefix(d, k) \in Seq(Slots) /\ Rest(d, k) \in Seq(Slots)
        /\ DeleteEach(s, "seqNum", Txq, Prefix(d, k)) \in Seq(Slots)
        /\ SortedBy(Rest(d, k), "deadline", Txq)
        /\ SortedBy(DeleteEach(s, "seqNum", Txq, Prefix(d, k)), "seqNum", Txq)
        /\ Range(Rest(d, k)) = Range(DeleteEach(s, "seqNum", Txq, Prefix(d, k)))
        /\ Range(Prefix(d, k)) \cap Range(Rest(d, k)) = {}
        /\ Range(Prefix(d, k)) \cup Range(Rest(d, k)) = Range(d)
        /\ Range(Prefix(d, k)) = {p \in Range(d) : First("deadline", Txq[p]) <= now}
        /\ \A i, j \in 1..Len(Prefix(d, k)) : i # j => Prefix(d, k)[i] # Prefix(d, k)[j]
    BY <1>2, <1>3, <2>1, ScanKeeps
  <2> QED BY <1>1, <2>2
<1>5. TreesHold(d', s', retry', Txq')
  BY <1>1, <1>4 DEF TreesHold
<1>6. Waiting' = Waiting /\ Range(retry') = {p \in Waiting : Txq[p].deadline <= now}
  <2>1. Range(retry) = {}
    BY <1>1 DEF Range
  <2>2. Waiting = Range(d) /\ Waiting' = Range(d)
    BY <1>4, <2>1 DEF Waiting, d
  <2>3. \A p : First("deadline", Txq[p]) = Txq[p].deadline
    BY DEF First
  <2> QED BY <1>4, <2>2, <2>3
<1>7. RunHolds(Waiting', Txq', LastFrameSent')
  BY <1>1, <1>6 DEF RetryInv
<1>8. TypeOK'
  BY <1>1, <1>2, <1>4 DEF TypeOK, d, s
<1> QED BY <1>1, <1>2, <1>5, <1>6, <1>7, <1>8 DEF RetryInv, d, s

LEMMA TailFacts ==
  ASSUME NEW list \in Seq(Slots), list # << >>, \A i, j \in 1..Len(list) : i # j => list[i] # list[j]
  PROVE  /\ Head(list) \in Range(list) /\ Head(list) \in Slots
         /\ Tail(list) \in Seq(Slots) /\ Range(Tail(list)) = Range(list) \ {Head(list)}
         /\ \A i, j \in 1..Len(Tail(list)) : i # j => Tail(list)[i] # Tail(list)[j]
<1>1. PICK n \in Nat : n = Len(list)
  OBVIOUS
<1>2. /\ n >= 1 /\ Head(list) = list[1] /\ Tail(list) \in Seq(Slots) /\ Len(Tail(list)) = n - 1
      /\ \A i \in 1..(n - 1) : Tail(list)[i] = list[i + 1]
  BY <1>1
<1>3. \A i \in 1..n : list[i] \in Slots
  BY <1>1
<1>4. /\ Range(list) = {list[i] : i \in 1..n}
      /\ Range(Tail(list)) = {Tail(list)[i] : i \in 1..(n - 1)}
  BY <1>1, <1>2, TreeFacts
<1>5. ASSUME NEW i \in 1..(n - 1)
      PROVE  Tail(list)[i] \in Range(list) \ {Head(list)}
  <2>1. i + 1 \in 1..n /\ 1 \in 1..n /\ i + 1 # 1
    BY <1>2
  <2> QED BY <1>1, <1>2, <1>4, <2>1
<1>6. ASSUME NEW i \in 1..n, list[i] # Head(list)
      PROVE  list[i] \in Range(Tail(list))
  <2>1. i - 1 \in 1..(n - 1) /\ i - 1 + 1 = i
    BY <1>2, <1>6
  <2>2. Tail(list)[i - 1] = list[i]
    BY <1>2, <2>1
  <2> QED BY <1>4, <2>1, <2>2
<1>7. ASSUME NEW i \in 1..(n - 1), NEW j \in 1..(n - 1), i # j
      PROVE  Tail(list)[i] # Tail(list)[j]
  <2>1. i + 1 \in 1..n /\ j + 1 \in 1..n /\ i + 1 # j + 1
    BY <1>2, <1>7
  <2> QED BY <1>1, <1>2, <2>1
<1>8. Head(list) \in Range(list) /\ Head(list) \in Slots
  <2>1. 1 \in 1..n
    BY <1>2
  <2> QED BY <1>2, <1>3, <1>4, <2>1
<1>9. Range(Tail(list)) = Range(list) \ {Head(list)}
  BY <1>4, <1>5, <1>6
<1> QED BY <1>2, <1>7, <1>8, <1>9

\* A slot of the wakeup's list gets its new deadline outside both trees, and
\* enters them again.
LEMMA ResendKeeps ==
  ASSUME RetryInv, Resend
  PROVE  /\ RetryInv' /\ Waiting' = Waiting
         /\ Head(retry) \in Range(retry) /\ Range(retry') = Range(retry) \ {Head(retry)}
<1> DEFINE d == SentButNotAckedByDeadline
           s == SentButNotAckedBySeqNum
           h == Head(retry)
<1>1. PICK dur \in RetryDurs : Txq' = [Txq EXCEPT ![h].deadline = now + dur]
  BY DEF Resend
<1>2. /\ retry # << >> /\ retry' = Tail(retry)
      /\ UNCHANGED <<now, LastFrameSent, LastSeenAvailReaderMsgCap, panicked>>
      /\ d' = Insert(d, "deadline", Txq', h) /\ s' = Insert(s, "seqNum", Txq', h)
  BY DEF Resend, InsertBoth
<1>3. /\ TypeOK /\ ~panicked /\ now \in Int
      /\ Txq \in SlotRecords /\ DOMAIN Txq = Slots
  BY TypeFacts DEF RetryInv
<1>4. /\ d \in Seq(Slots) /\ s \in Seq(Slots) /\ retry \in Seq(Slots) /\ Range(d) = Range(s)
      /\ SortedBy(d, "deadline", Txq) /\ SortedBy(s, "seqNum", Txq)
      /\ Range(retry) \cap Range(s) = {}
      /\ \A i, j \in 1..Len(retry) : i # j => retry[i] # retry[j]
  BY DEF RetryInv, TreesHold
<1>5. /\ h \in Range(retry) /\ h \in Slots
      /\ retry' \in Seq(Slots) /\ Range(retry') = Range(retry) \ {h}
      /\ \A i, j \in 1..Len(retry') : i # j => retry'[i] # retry'[j]
  BY <1>2, <1>4, TailFacts
<1>6. now + dur \in Int
  BY <1>1, <1>3, TreesAssumption
<1> HIDE DEF h
<1>7. /\ Txq' \in [Slots -> [seq : -1..LastFrameSent, deadline : Int]] /\ Txq' \in SlotRecords
      /\ \A o \in Slots : Txq'[o].seq = Txq[o].seq
      /\ \A o \in Slots : o # h => Txq'[o] = Txq[o]
  <2>1. Txq \in [Slots -> [seq : -1..LastFrameSent, deadline : Int]]
    BY <1>3 DEF TypeOK
  <2>2. [Txq[h] EXCEPT !.deadline = now + dur] \in [seq : -1..LastFrameSent, deadline : Int]
    BY <1>5, <1>6, <2>1
  <2>3. Txq' = [Txq EXCEPT ![h] = [Txq[h] EXCEPT !.deadline = now + dur]]
    BY <1>1
  <2>4. Txq' \in [Slots -> [seq : -1..LastFrameSent, deadline : Int]]
    BY <2>1, <2>2, <2>3
  <2>5. LastFrameSent \in Int
    BY <1>3, TypeFacts
  <2>6. Txq' \in SlotRecords
    BY <2>4, <2>5 DEF SlotRecords
  <2>7. \A o \in Slots : o # h => Txq'[o] = Txq[o]
    BY <1>3, <1>5, <2>3
  <2>8. Txq'[h].seq = Txq[h].seq
    <3>1. Txq'[h] = [Txq[h] EXCEPT !.deadline = now + dur]
      BY <1>3, <1>5, <2>3
    <3>2. Txq[h] \in [seq : -1..LastFrameSent, deadline : Int]
      BY <1>5, <2>1
    <3> QED BY <3>1, <3>2
  <2> QED BY <2>4, <2>6, <2>7, <2>8
<1> HIDE DEF d, s
<1>8. \A o \in Range(d) : o \in Slots /\ o # h /\ o \in Waiting
  BY <1>4, <1>5, TreeFacts DEF Waiting, d
<1>9. h \in Waiting /\ \A o \in Waiting : Pos(Txq[o].seq) = o
  BY <1>5 DEF Waiting, RetryInv, RunHolds
<1>10. \A o \in Range(d) : Txq[o] = Txq'[o] /\ Txq'[o].seq # Txq'[h].seq
  BY <1>5, <1>7, <1>8, <1>9
<1>11. SortedBy(d, "deadline", Txq') /\ SortedBy(s, "seqNum", Txq')
  BY <1>4, <1>10, SameKeysKeepSorted
<1>12. "deadline" \in Keys /\ "seqNum" \in Keys /\ Txq' \in SlotRecords
  BY <1>7 DEF Keys
<1>13. d' \in Seq(Slots) /\ SortedBy(d', "deadline", Txq') /\ Range(d') = Range(d) \cup {h}
  <2>1. \A i \in 1..Len(d) : Txq'[d[i]].seq # Txq'[h].seq
    BY <1>4, <1>10, TreeFacts
  <2>2. /\ Insert(d, "deadline", Txq', h) \in Seq(Slots)
        /\ SortedBy(Insert(d, "deadline", Txq', h), "deadline", Txq')
        /\ Range(Insert(d, "deadline", Txq', h)) = Range(d) \cup {h}
    BY <1>4, <1>5, <1>11, <1>12, <2>1, InsertKeeps
  <2> QED BY <1>2, <2>2
<1>14. s' \in Seq(Slots) /\ SortedBy(s', "seqNum", Txq') /\ Range(s') = Range(s) \cup {h}
  <2>1. \A i \in 1..Len(s) : Txq'[s[i]].seq # Txq'[h].seq
    BY <1>4, <1>10, TreeFacts
  <2>2. /\ Insert(s, "seqNum", Txq', h) \in Seq(Slots)
        /\ SortedBy(Insert(s, "seqNum", Txq', h), "seqNum", Txq')
        /\ Range(Insert(s, "seqNum", Txq', h)) = Range(s) \cup {h}
    BY <1>4, <1>5, <1>11, <1>12, <2>1, InsertKeeps
  <2> QED BY <1>2, <2>2
<1>15. TreesHold(d', s', retry', Txq')
  <2>1. Range(d') = Range(s') /\ Range(retry') \cap Range(s') = {}
    BY <1>4, <1>5, <1>13, <1>14
  <2> QED BY <1>5, <1>13, <1>14, <2>1 DEF TreesHold
<1>16. Waiting' = Waiting
  BY <1>5, <1>13 DEF Waiting, d
<1>17. RunHolds(Waiting', Txq', LastFrameSent')
  <2>1. \A o \in Waiting : o \in Slots
    <3>1. Range(d) \subseteq Slots /\ Range(retry) \subseteq Slots
      BY <1>4, TreeFacts
    <3> QED BY <3>1 DEF Waiting, d
  <2>2. FramesIn(Waiting, Txq') = FramesIn(Waiting, Txq)
    BY <1>7, <2>1 DEF FramesIn
  <2> QED BY <1>2, <1>7, <1>16, <2>1, <2>2 DEF RetryInv, RunHolds
<1>18. TypeOK'
  BY <1>2, <1>3, <1>5, <1>7, <1>13, <1>14 DEF TypeOK, d, s
<1> QED BY <1>2, <1>3, <1>5, <1>15, <1>16, <1>17, <1>18 DEF RetryInv, d, s, h

LEMMA UnchangedKeeps ==
  ASSUME RetryInv,
         UNCHANGED <<Txq, LastFrameSent, LastSeenAvailReaderMsgCap, trees, retry, panicked>>,
         now' \in 0..MaxTime
  PROVE  RetryInv'
BY DEF RetryInv, TypeOK, TreesHold, RunHolds, SortedBy, Waiting, trees

LEMMA NextKeeps ==
  ASSUME RetryInv, PeerFits, [Next]_vars
  PROVE  RetryInv'
<1>1. CASE UNCHANGED vars
  <2>1. now' \in 0..MaxTime
    BY <1>1 DEF vars, RetryInv, TypeOK
  <2> QED BY <1>1, <2>1, UnchangedKeeps DEF vars
<1>2. CASE Tick
  <2>1. now' \in 0..MaxTime
    BY <1>2, TreesAssumption DEF Tick, RetryInv, TypeOK
  <2> QED BY <1>2, <2>1, UnchangedKeeps DEF Tick
<1>3. CASE AcceptSend
  BY <1>3, AcceptSendKeeps
<1>4. ASSUME NEW ackNum \in -1..LastFrameSent, NEW cap \in 0..PeerWindow, GotPack(ackNum, cap)
      PROVE  RetryInv'
  BY <1>4, GotPackKeeps
<1>5. CASE Wakeup
  BY <1>5, WakeupKeeps
<1>6. CASE Resend
  BY <1>6, ResendKeeps
<1> QED BY <1>1, <1>2, <1>3, <1>4, <1>5, <1>6 DEF Next

\* The invariant, which the properties follow from: in every reachable state of
\* a sender whose peer advertises no more than its window, the trees are sorted
\* and agree, and the frames in them and in the wakeup's list are the last ones
\* sent, each in its own slot of Txq (sender.go, retree.go).
THEOREM RetryInvariant ==
  ASSUME PeerFits
  PROVE  Spec => []RetryInv
<1>1. Init => RetryInv
  BY InitHolds
<1>2. RetryInv /\ [Next]_vars => RetryInv'
  BY NextKeeps
<1> QED BY <1>1, <1>2, PTL DEF Spec

\* The slots, trees and list of the sendloop keep their types: no slot outside
\* Txq enters a tree, and no frame above LastFrameSent is in a slot.
THEOREM RetryTypeCorrect ==
  ASSUME PeerFits
  PROVE  Spec => []TypeOK
<1>1. RetryInv => TypeOK
  BY RetryInvMeans
<1> QED BY <1>1, RetryInvariant, PTL

\* Both trees hold the same slots, each once, so the length check at the end of
\* GotPack (sender.go:376-381) never panics, whatever the durations are.
THEOREM TreesAgreeCorrect ==
  ASSUME PeerFits
  PROVE  Spec => []TreesAgree
<1>1. RetryInv => TreesAgree
  BY RetryInvMeans
<1> QED BY <1>1, RetryInvariant, PTL

\* No key changes while its slot is in a tree (the comment "MUST HAPPEN AFTER" in
\* doOrigDataSend, sender.go:483), so each tree stays sorted and a search by key finds
\* the slot it is for.
THEOREM TreesSortedCorrect ==
  ASSUME PeerFits
  PROVE  Spec => []TreesSorted
<1>1. RetryInv => TreesSorted
  BY RetryInvMeans
<1> QED BY <1>1, RetryInvariant, PTL

-----------------------------------------------------------------------------
(* The trees implement RetrySet. *)

Deadlines(slots, q) == [n \in FramesIn(slots, q) |-> q[Pos(n)].deadline]

InOwnSlots(slots, q) == slots \subseteq Slots /\ \A p \in slots : Pos(q[p].seq) = p

\* Where its number says is where a frame is found.
LEMMA FrameIsInItsSlot ==
  ASSUME NEW slots, NEW q, InOwnSlots(slots, q), NEW n \in FramesIn(slots, q)
  PROVE  /\ Pos(n) \in slots /\ q[Pos(n)].seq = n
         /\ (CHOOSE p \in slots : q[p].seq = n) = Pos(n)
<1>1. PICK p \in slots : q[p].seq = n
  BY DEF FramesIn
<1>2. \A o \in slots : q[o].seq = n => o = Pos(n)
  BY DEF InOwnSlots
<1>3. p = Pos(n)
  BY <1>1, <1>2
<1>4. \E o \in slots : q[o].seq = n
  BY <1>1
<1> QED BY <1>1, <1>2, <1>3, <1>4

LEMMA DeadlinesAre ==
  ASSUME NEW slots, NEW q, InOwnSlots(slots, q)
  PROVE  [n \in {q[p].seq : p \in slots} |-> q[CHOOSE p \in slots : q[p].seq = n].deadline]
           = Deadlines(slots, q)
<1>1. \A n \in FramesIn(slots, q) : (CHOOSE p \in slots : q[p].seq = n) = Pos(n)
  BY FrameIsInItsSlot
<1> DEFINE found(n) == q[CHOOSE p \in slots : q[p].seq = n].deadline
<1>2. \A n \in FramesIn(slots, q) : found(n) = q[Pos(n)].deadline
  BY <1>1
<1> HIDE DEF found
<1>3. [n \in FramesIn(slots, q) |-> found(n)] = [n \in FramesIn(slots, q) |-> q[Pos(n)].deadline]
  BY <1>2
<1> QED BY <1>3 DEF Deadlines, FramesIn, found

LEMMA WaitingIsOwn ==
  ASSUME NEW d, NEW s, NEW list, NEW q, NEW last,
         TreesHold(d, s, list, q), RunHolds(Range(d) \cup Range(list), q, last)
  PROVE  InOwnSlots(Range(d) \cup Range(list), q)
<1>1. d \in Seq(Slots) /\ list \in Seq(Slots)
  BY DEF TreesHold
<1>2. Range(d) \cup Range(list) \subseteq Slots
  BY <1>1, TreeFacts
<1> QED BY <1>2 DEF RunHolds, InOwnSlots

\* The state of RetrySet, now and after a step.
LEMMA MappedState ==
  ASSUME RetryInv, RetryInv'
  PROVE  /\ Unacked = Deadlines(Waiting, Txq) /\ Due = FramesIn(Range(retry), Txq)
         /\ Unacked' = Deadlines(Waiting', Txq') /\ Due' = FramesIn(Range(retry'), Txq')
         /\ InOwnSlots(Waiting, Txq) /\ Range(retry) \subseteq Waiting
         /\ InOwnSlots(Waiting', Txq') /\ Range(retry') \subseteq Waiting'
<1>1. InOwnSlots(Waiting, Txq) /\ Range(retry) \subseteq Waiting
  BY WaitingIsOwn DEF RetryInv, Waiting
<1>2. InOwnSlots(Waiting', Txq') /\ Range(retry') \subseteq Waiting'
  BY WaitingIsOwn DEF RetryInv, Waiting
<1>3. Unacked = Deadlines(Waiting, Txq)
  BY <1>1, DeadlinesAre DEF Unacked, SlotOf
<1>4. Unacked' = Deadlines(Waiting', Txq')
  BY <1>2, DeadlinesAre DEF Unacked, SlotOf
<1> QED BY <1>1, <1>2, <1>3, <1>4 DEF Due, FramesIn

LEMMA AcceptSendIsSend ==
  ASSUME RetryInv, PeerFits, AcceptSend
  PROVE  Frames!Send
<1> DEFINE n == LastFrameSent + 1
           p == Pos(n)
<1>1. RetryInv' /\ Waiting' = Waiting \cup {p}
  BY AcceptSendKeeps
<1>2. /\ Unacked = Deadlines(Waiting, Txq) /\ Due = FramesIn(Range(retry), Txq)
      /\ Unacked' = Deadlines(Waiting', Txq') /\ Due' = FramesIn(Range(retry'), Txq')
      /\ InOwnSlots(Waiting, Txq)
  BY <1>1, MappedState
<1>3. /\ retry = << >> /\ retry' = << >> /\ LastFrameSent' = n /\ now' = now
      /\ LastSeenAvailReaderMsgCap - Len(SentButNotAckedByDeadline) > 0
  BY DEF AcceptSend, Free
<1>4. p \in Slots /\ p \notin Waiting
  BY <1>3, NextSlotIsFree
<1>5. PICK dur \in RetryDurs :
        Txq' = [Txq EXCEPT ![p] = [seq |-> n, deadline |-> now + dur]]
  BY DEF AcceptSend
<1>6. /\ LastFrameSent \in Int /\ DOMAIN Txq = Slots
      /\ \A o \in Slots : Txq[o].seq \in -1..LastFrameSent
  BY TypeFacts DEF RetryInv
<1>7. Due = {} /\ Due' = {}
  <2>1. Range(<< >>) = {}
    BY DEF Range
  <2> QED BY <1>2, <1>3, <2>1 DEF FramesIn
<1> HIDE DEF n
<1>8. /\ Txq'[p].seq = n /\ Txq'[p].deadline = now + dur
      /\ \A o \in Waiting : o \in Slots /\ o # p /\ Txq'[o] = Txq[o]
  BY <1>2, <1>4, <1>5, <1>6 DEF InOwnSlots
<1> HIDE DEF p
<1>9. FramesIn(Waiting', Txq') = FramesIn(Waiting, Txq) \cup {n}
  BY <1>1, <1>8 DEF FramesIn
<1>10. ASSUME NEW m \in FramesIn(Waiting, Txq)
       PROVE  m # n /\ Txq'[Pos(m)].deadline = Unacked[m]
  <2>1. Pos(m) \in Waiting /\ Txq[Pos(m)].seq = m
    BY <1>2, FrameIsInItsSlot
  <2>2. m # n
    BY <1>6, <1>8, <2>1 DEF n
  <2>3. Unacked[m] = Txq[Pos(m)].deadline
    BY <1>2 DEF Deadlines
  <2> QED BY <1>8, <2>1, <2>2, <2>3
<1>11. DOMAIN Unacked = FramesIn(Waiting, Txq)
  BY <1>2 DEF Deadlines
<1>12. Unacked' = [m \in FramesIn(Waiting, Txq) \cup {n} |-> Txq'[Pos(m)].deadline]
  BY <1>2, <1>9 DEF Deadlines
<1>13. Txq'[Pos(n)].deadline = now + dur
  BY <1>8 DEF p
<1>14. \A m \in FramesIn(Waiting, Txq) \cup {n} :
         Txq'[Pos(m)].deadline = IF m = n THEN now + dur ELSE Unacked[m]
  BY <1>10, <1>13
<1>15. Unacked' = [m \in (DOMAIN Unacked) \cup {n} |-> IF m = n THEN now + dur ELSE Unacked[m]]
  <2> DEFINE A(m) == Txq'[Pos(m)].deadline
             B(m) == IF m = n THEN now + dur ELSE Unacked[m]
  <2>1. \A m \in FramesIn(Waiting, Txq) \cup {n} : A(m) = B(m)
    BY <1>14
  <2> HIDE DEF A, B
  <2>2. [m \in FramesIn(Waiting, Txq) \cup {n} |-> A(m)]
          = [m \in FramesIn(Waiting, Txq) \cup {n} |-> B(m)]
    BY <2>1
  <2> QED BY <1>11, <1>12, <2>2 DEF A, B
<1> QED BY <1>3, <1>7, <1>15 DEF Frames!Send, n

LEMMA GotPackIsAck ==
  ASSUME RetryInv, NEW ackNum \in -1..LastFrameSent, NEW cap \in 0..PeerWindow, GotPack(ackNum, cap)
  PROVE  Frames!Ack(ackNum)
<1>1. RetryInv' /\ Waiting' = {p \in Waiting : Txq[p].seq > ackNum}
  BY GotPackKeeps
<1>2. /\ Unacked = Deadlines(Waiting, Txq) /\ Due = FramesIn(Range(retry), Txq)
      /\ Unacked' = Deadlines(Waiting', Txq') /\ Due' = FramesIn(Range(retry'), Txq')
  BY <1>1, MappedState
<1>3. /\ retry = << >> /\ retry' = << >> /\ UNCHANGED <<now, Txq, LastFrameSent>>
  BY DEF GotPack, Free
<1>4. Due = {} /\ Due' = {}
  <2>1. Range(<< >>) = {}
    BY DEF Range
  <2> QED BY <1>2, <1>3, <2>1 DEF FramesIn
<1>5. DOMAIN Unacked = FramesIn(Waiting, Txq)
  BY <1>2 DEF Deadlines
<1>6. FramesIn(Waiting', Txq') = {n \in DOMAIN Unacked : n > ackNum}
  BY <1>1, <1>3, <1>5 DEF FramesIn
<1>7. \A n \in DOMAIN Unacked : Unacked[n] = Txq[Pos(n)].deadline
  BY <1>2 DEF Deadlines
<1>8. Unacked' = [n \in {m \in DOMAIN Unacked : m > ackNum} |-> Unacked[n]]
  <2> DEFINE some == {m \in DOMAIN Unacked : m > ackNum}
  <2>1. Unacked' = [n \in some |-> Txq[Pos(n)].deadline]
    BY <1>2, <1>3, <1>6 DEF Deadlines
  <2>2. \A n \in some : Unacked[n] = Txq[Pos(n)].deadline
    BY <1>7
  <2> HIDE DEF some
  <2>3. [n \in some |-> Txq[Pos(n)].deadline] = [n \in some |-> Unacked[n]]
    BY <2>2
  <2> QED BY <2>1, <2>3 DEF some
<1> QED BY <1>3, <1>4, <1>8 DEF Frames!Ack

LEMMA WakeupIsWakeup ==
  ASSUME RetryInv, Wakeup
  PROVE  Frames!Wakeup
<1>1. /\ RetryInv' /\ Waiting' = Waiting
      /\ Range(retry') = {p \in Waiting : Txq[p].deadline <= now}
  BY WakeupKeeps
<1>2. /\ Unacked = Deadlines(Waiting, Txq) /\ Due = FramesIn(Range(retry), Txq)
      /\ Unacked' = Deadlines(Waiting', Txq') /\ Due' = FramesIn(Range(retry'), Txq')
      /\ InOwnSlots(Waiting, Txq)
  BY <1>1, MappedState
<1>3. retry = << >> /\ UNCHANGED <<now, Txq, LastFrameSent>>
  BY DEF Wakeup, Free
<1>4. Due = {}
  <2>1. Range(<< >>) = {}
    BY DEF Range
  <2> QED BY <1>2, <1>3, <2>1 DEF FramesIn
<1>5. Unacked' = Unacked /\ DOMAIN Unacked = FramesIn(Waiting, Txq)
  BY <1>1, <1>2, <1>3 DEF Deadlines
<1>6. ASSUME NEW n \in DOMAIN Unacked
      PROVE  Pos(n) \in Waiting /\ Txq[Pos(n)].seq = n /\ Unacked[n] = Txq[Pos(n)].deadline
  BY <1>2, <1>5, FrameIsInItsSlot DEF Deadlines
<1>7. Due' = {n \in DOMAIN Unacked : Unacked[n] <= now}
  <2>1. ASSUME NEW n \in Due'
        PROVE  n \in DOMAIN Unacked /\ Unacked[n] <= now
    <3>1. PICK p \in Range(retry') : Txq[p].seq = n
      BY <1>2, <1>3 DEF FramesIn
    <3>2. p \in Waiting /\ Txq[p].deadline <= now /\ Pos(n) = p
      BY <1>1, <1>2, <3>1 DEF InOwnSlots
    <3>3. n \in DOMAIN Unacked
      BY <1>5, <3>1, <3>2 DEF FramesIn
    <3> QED BY <1>6, <3>2, <3>3
  <2>2. ASSUME NEW n \in DOMAIN Unacked, Unacked[n] <= now
        PROVE  n \in Due'
    <3>1. Pos(n) \in Range(retry') /\ Txq[Pos(n)].seq = n
      BY <1>1, <1>6, <2>2
    <3> QED BY <1>2, <1>3, <3>1 DEF FramesIn
  <2> QED BY <2>1, <2>2
<1> QED BY <1>3, <1>4, <1>5, <1>7 DEF Frames!Wakeup

LEMMA ResendIsResend ==
  ASSUME RetryInv, Resend
  PROVE  Frames!Resend
<1> DEFINE h == Head(retry)
           n == Txq[h].seq
<1>1. /\ RetryInv' /\ Waiting' = Waiting
      /\ h \in Range(retry) /\ Range(retry') = Range(retry) \ {h}
  BY ResendKeeps
<1>2. /\ Unacked = Deadlines(Waiting, Txq) /\ Due = FramesIn(Range(retry), Txq)
      /\ Unacked' = Deadlines(Waiting', Txq') /\ Due' = FramesIn(Range(retry'), Txq')
      /\ InOwnSlots(Waiting, Txq) /\ Range(retry) \subseteq Waiting
  BY <1>1, MappedState
<1>3. PICK dur \in RetryDurs : Txq' = [Txq EXCEPT ![h].deadline = now + dur]
  BY DEF Resend
<1>4. UNCHANGED <<now, LastFrameSent>>
  BY DEF Resend
<1>5. DOMAIN Txq = Slots /\ Txq \in SlotRecords
  BY TypeFacts DEF RetryInv
<1> HIDE DEF h
<1>6. h \in Slots /\ Pos(n) = h
  BY <1>1, <1>2 DEF InOwnSlots
<1>7. /\ \A p \in Slots : p # h => Txq'[p] = Txq[p]
      /\ Txq'[h].deadline = now + dur /\ Txq'[h].seq = n
  <2>1. Txq' = [Txq EXCEPT ![h] = [Txq[h] EXCEPT !.deadline = now + dur]]
    BY <1>3
  <2>2. Txq'[h] = [Txq[h] EXCEPT !.deadline = now + dur]
    BY <1>5, <1>6, <2>1
  <2>3. Txq[h] \in [seq : Int, deadline : Int]
    BY <1>5, <1>6 DEF SlotRecords
  <2> QED BY <1>5, <1>6, <2>1, <2>2, <2>3
<1> HIDE DEF n
<1>8. \A p \in Waiting : p \in Slots /\ Txq'[p].seq = Txq[p].seq /\ Pos(Txq[p].seq) = p
  BY <1>2, <1>7 DEF InOwnSlots, n
<1>9. FramesIn(Waiting', Txq') = FramesIn(Waiting, Txq)
  BY <1>1, <1>8 DEF FramesIn
<1>10. n \in Due /\ Due' = Due \ {n}
  <2>1. n \in Due
    BY <1>1, <1>2 DEF FramesIn, n
  <2>2. ASSUME NEW m
        PROVE  m \in Due' <=> m \in Due /\ m # n
    <3>1. m \in Due' <=> \E p \in Range(retry) : p # h /\ Txq[p].seq = m
      BY <1>1, <1>2, <1>8 DEF FramesIn
    <3>2. m \in Due <=> \E p \in Range(retry) : Txq[p].seq = m
      BY <1>2 DEF FramesIn
    <3>3. \A p \in Range(retry) : p = h <=> Txq[p].seq = n
      BY <1>2, <1>6, <1>8 DEF n
    <3> QED BY <3>1, <3>2, <3>3
  <2> QED BY <2>1, <2>2
<1>11. DOMAIN Unacked = FramesIn(Waiting, Txq)
  BY <1>2 DEF Deadlines
<1>12. ASSUME NEW m \in FramesIn(Waiting, Txq)
       PROVE  Txq'[Pos(m)].deadline = IF m = n THEN now + dur ELSE Unacked[m]
  <2>1. Pos(m) \in Waiting /\ Txq[Pos(m)].seq = m
    BY <1>2, FrameIsInItsSlot
  <2>2. Unacked[m] = Txq[Pos(m)].deadline
    BY <1>2 DEF Deadlines
  <2>3. CASE m = n
    BY <1>6, <1>7, <2>3
  <2>4. CASE m # n
    <3>1. Pos(m) # h
      BY <2>1, <2>4 DEF n
    <3> QED BY <1>7, <1>8, <2>1, <2>2, <2>4, <3>1
  <2> QED BY <2>3, <2>4
<1>13. Unacked' = [Unacked EXCEPT ![n] = now + dur]
  <2> DEFINE A(m) == Txq'[Pos(m)].deadline
             B(m) == IF m = n THEN now + dur ELSE Unacked[m]
  <2>1. \A m \in FramesIn(Waiting, Txq) : A(m) = B(m)
    BY <1>12
  <2>2. Unacked' = [m \in FramesIn(Waiting, Txq) |-> A(m)]
    BY <1>2, <1>9 DEF Deadlines
  <2>3. [Unacked EXCEPT ![n] = now + dur] = [m \in FramesIn(Waiting, Txq) |-> B(m)]
    BY <1>11
  <2> HIDE DEF A, B
  <2> QED BY <2>1, <2>2, <2>3
<1> QED BY <1>3, <1>4, <1>10, <1>13 DEF Frames!Resend

LEMMA NextIsSNext ==
  ASSUME RetryInv, PeerFits, [Next]_vars
  PROVE  [Frames!SNext]_(Frames!vars)
<1>1. ASSUME UNCHANGED <<Txq, LastFrameSent, trees, retry>>
      PROVE  UNCHANGED <<LastFrameSent, Unacked, Due>>
  BY <1>1 DEF Unacked, Due, Waiting, SlotOf, trees
<1>2. CASE UNCHANGED vars
  BY <1>1, <1>2 DEF vars, Frames!vars
<1>3. CASE Tick
  <2>1. UNCHANGED <<LastFrameSent, Unacked, Due>> /\ now' = now + 1
    BY <1>1, <1>3 DEF Tick
  <2> QED BY <2>1 DEF Frames!SNext, Frames!Tick
<1>4. CASE AcceptSend
  BY <1>4, AcceptSendIsSend DEF Frames!SNext
<1>5. ASSUME NEW ackNum \in -1..LastFrameSent, NEW cap \in 0..PeerWindow, GotPack(ackNum, cap)
      PROVE  Frames!SNext
  BY <1>5, GotPackIsAck DEF Frames!SNext
<1>6. CASE Wakeup
  BY <1>6, WakeupIsWakeup DEF Frames!SNext
<1>7. CASE Resend
  BY <1>7, ResendIsResend DEF Frames!SNext
<1> QED BY <1>2, <1>3, <1>4, <1>5, <1>6, <1>7 DEF Next

\* The two trees and the wakeup's list behave like a set of unacknowledged frames
\* with deadlines: an ack forgets what it covers and nothing else, and a wakeup
\* resends everything that is due, each frame once, even one whose new deadline
\* is already past (sender.go:261-319 and 349-381, retree.go).
THEOREM RetrySetImplemented ==
  ASSUME PeerFits
  PROVE  Spec => ImplementsRetrySet
<1>1. Init => Frames!SInit
  <2> SUFFICES ASSUME Init
               PROVE  Frames!SInit
    OBVIOUS
  <2>1. Range(<< >>) = {}
    BY DEF Range
  <2>2. Waiting = {} /\ Due = {}
    BY <2>1 DEF Init, Waiting, Due
  <2>3. Unacked = << >>
    BY <2>2 DEF Unacked
  <2> QED BY <2>2, <2>3 DEF Init, Frames!SInit
<1>2. RetryInv /\ [Next]_vars => [Frames!SNext]_(Frames!vars)
  BY NextIsSNext
<1> QED BY <1>1, <1>2, RetryInvariant, PTL DEF Spec, ImplementsRetrySet, Frames!SSpec
=============================================================================
