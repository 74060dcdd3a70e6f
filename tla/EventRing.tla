------------------------------ MODULE EventRing ------------------------------
(***************************************************************************)
(* EventRingBuf of overing.go: a circular buffer of times in an array      *)
(* with a start and a count.  Every operation is one call; a ring has one  *)
(* user at a time.  Slices are sequences from 1, the array counts from 0.  *)
(***************************************************************************)
EXTENDS Integers, Sequences

CONSTANTS MaxEvents,  \* maxEventsStored
          Window,     \* maxTimeWindow
          Times,      \* Bound: the times of events, in any order
          Batches,    \* Bound: the slices given to WritePtrs and Adopt
          Counts      \* Bound: the lengths of Read buffers, the arguments of Advance

ASSUME RingAssumption ==
  /\ MaxEvents \in Nat \ {0} /\ Window \in Nat
  /\ Times \subseteq Int /\ Batches \subseteq Seq(Times) /\ Counts \subseteq Nat

VARIABLES A,         \* the array
          N,         \* its length
          Beg,       \* where the events in use start
          Readable,  \* how many are in use
          ret        \* what the last operation returned

vars == <<A, N, Beg, Readable, ret>>

Min2(a, b) == IF a < b THEN a ELSE b

Answer(events, flag) == [events |-> events, flag |-> flag]

\* The zero time, that of the slots never written.
ZeroTime == 0

Init ==
  /\ N = MaxEvents /\ A = [i \in 0..(MaxEvents - 1) |-> ZeroTime]
  /\ Beg = 0 /\ Readable = 0
  /\ ret = Answer(<< >>, FALSE)

-----------------------------------------------------------------------------
(* Adding one event. *)

\* Mutant: a full ring drops its oldest event by counting down.
AddEventForgetsStart(e) ==
  LET youngest == (Beg + Readable) % N
  IN /\ A' = [A EXCEPT ![youngest] = e]
     /\ Readable' = IF Readable = N THEN N ELSE Readable + 1
     /\ UNCHANGED <<N, Beg>>
     /\ ret' = Answer(<< >>, Readable' = N /\ e - A'[Beg'] <= Window)

AddEventCheckOverflow(e) ==
  LET youngest == (Beg + Readable) % N
  IN /\ A' = [A EXCEPT ![youngest] = e]
     /\ IF Readable = N
          THEN Beg' = (Beg + 1) % N /\ UNCHANGED Readable
          ELSE Readable' = Readable + 1 /\ UNCHANGED Beg
     /\ UNCHANGED N
     /\ ret' = Answer(<< >>, Readable' = N /\ e - A'[Beg'] <= Window)

-----------------------------------------------------------------------------
(* Reading. *)

\* The first n events, n at most Readable: what lies before the end of the array
\* and then, if that is not enough, what has wrapped to its start.
CopyOut(n) ==
  [i \in 1..n |-> IF i <= N - Beg THEN A[Beg + i - 1] ELSE A[i - (N - Beg) - 1]]

\* TwoContig, whose two slices String shows one after the other.
TwoContig == ret' = Answer(CopyOut(Readable), FALSE) /\ UNCHANGED <<A, N, Beg, Readable>>

\* Mutant: the start moves without wrapping at the end of the array.
DropFirstUnwrapped(k) ==
  LET n == Min2(k, Readable)
  IN Readable' = Readable - n /\ Beg' = Beg + n

\* What Advance does: at most Readable events leave.
DropFirst(k) ==
  LET n == Min2(k, Readable)
  IN /\ Readable' = Readable - n
     /\ Beg' = IF n = 0 THEN Beg ELSE (Beg + n) % N

Advance(k) == DropFirst(k) /\ UNCHANGED <<A, N, ret>>

\* ReadPtrs, and ReadWithoutAdvance; a buffer of length 0 reads nothing.
Read(k, doAdvance) ==
  /\ ret' = Answer(CopyOut(Min2(k, Readable)), k > 0 /\ Readable = 0)
  /\ IF doAdvance THEN DropFirst(k) ELSE UNCHANGED <<Beg, Readable>>
  /\ UNCHANGED <<A, N>>

-----------------------------------------------------------------------------
(* Writing. *)

\* One turn of WritePtrs's loop: of the rest of p from position n + 1 as much as
\* fits into the free slots before the end of the array.
Turn(p, st) ==
  LET start == (Beg + st.readable) % N
      room == Min2(N - st.readable, N - start)
      k == Min2(Len(p) - st.n, room)
  IN [a |-> [i \in 0..(N - 1) |-> IF start <= i /\ i < start + k
                                    THEN p[st.n + i - start + 1] ELSE st.a[i]],
      readable |-> st.readable + k,
      n |-> st.n + k]

\* After two turns p is used up or the ring is full.
WritePtrs(p) ==
  LET st == Turn(p, Turn(p, [a |-> A, readable |-> Readable, n |-> 0]))
  IN /\ A' = st.a /\ Readable' = st.readable
     /\ ret' = Answer(SubSeq(p, 1, st.n), st.n < Len(p))
     /\ UNCHANGED <<N, Beg>>

-----------------------------------------------------------------------------
Reset == Beg' = 0 /\ Readable' = 0 /\ UNCHANGED <<A, N, ret>>

\* A slice larger than the ring becomes its array; another one is copied.
Adopt(me) ==
  /\ N' = IF Len(me) > N THEN Len(me) ELSE N
  /\ A' = [i \in 0..(N' - 1) |-> IF i < Len(me) THEN me[i + 1] ELSE A[i]]
  /\ Beg' = 0 /\ Readable' = Len(me)
  /\ UNCHANGED ret

Next ==
  \/ \E e \in Times : AddEventCheckOverflow(e)
  \/ \E k \in Counts, doAdvance \in BOOLEAN : Read(k, doAdvance)
  \/ \E k \in Counts : Advance(k)
  \/ \E p \in Batches : WritePtrs(p) \/ Adopt(p)
  \/ Reset
  \/ TwoContig

Spec == Init /\ [][Next]_vars

-----------------------------------------------------------------------------
(* Properties. *)

\* The indices stay inside the array, and a ring never holds more than fits.
TypeOK ==
  /\ N \in Nat \ {0} /\ A \in [0..(N - 1) -> Int]
  /\ Beg \in 0..(N - 1) /\ Readable \in 0..N
  /\ ret \in [events : Seq(Int), flag : BOOLEAN]

\* The ring is a bounded queue: whatever the mix of adding, writing, reading,
\* skipping and adopting, and wherever the events wrap, each read returns the
\* oldest events in order, a full ring loses only its oldest one, and the answer
\* to AddEventCheckOverflow compares the newest of N events with the oldest.
Contents == [i \in 1..Readable |-> A[(Beg + i - 1) % N]]
Queue == INSTANCE EventQueue WITH q <- Contents, bound <- N
ImplementsQueue == Queue!QSpec
=============================================================================
