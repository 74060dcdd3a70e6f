----------------------------- MODULE EventQueue ------------------------------
(***************************************************************************)
(* What an event ring promises: a bounded queue of times.  Adding to a     *)
(* full queue drops the oldest event, and the answer says whether the      *)
(* queue then holds as many events as it can, from within one Window of    *)
(* time; writing to it accepts what there is room for.                     *)
(***************************************************************************)
EXTENDS Integers, Sequences

CONSTANTS MaxEvents, \* how many events it can hold at first
          Window,   \* the length of time that matters
          Times,    \* the times of events
          Batches,  \* Bound: the slices given to WritePtrs and Adopt
          Counts    \* Bound: the numbers of events read or skipped

VARIABLES q,      \* the events held, oldest first
          bound,  \* how many it can hold
          ret     \* what the last operation returned: events, and a flag

vars == <<q, bound, ret>>

Min2(a, b) == IF a < b THEN a ELSE b

Answer(events, flag) == [events |-> events, flag |-> flag]

QInit == q = << >> /\ bound = MaxEvents /\ ret = Answer(<< >>, FALSE)

Add(e) ==
  /\ q' = Append(IF Len(q) = bound THEN Tail(q) ELSE q, e)
  /\ ret' = Answer(<< >>, Len(q') = bound /\ e - q'[1] <= Window)
  /\ UNCHANGED bound

\* The flag of a read is io.EOF, that of a write io.ErrShortWrite.
Read(k, advance) ==
  LET n == Min2(k, Len(q))
  IN /\ ret' = Answer(SubSeq(q, 1, n), k > 0 /\ q = << >>)
     /\ q' = IF advance THEN SubSeq(q, n + 1, Len(q)) ELSE q
     /\ UNCHANGED bound

Write(p) ==
  LET n == Min2(Len(p), bound - Len(q))
  IN /\ ret' = Answer(SubSeq(p, 1, n), n < Len(p))
     /\ q' = q \o SubSeq(p, 1, n)
     /\ UNCHANGED bound

Advance(k) ==
  /\ q' = SubSeq(q, Min2(k, Len(q)) + 1, Len(q))
  /\ UNCHANGED <<bound, ret>>

Reset == q' = << >> /\ UNCHANGED <<bound, ret>>

Show == ret' = Answer(q, FALSE) /\ UNCHANGED <<q, bound>>

Adopt(me) ==
  /\ q' = me /\ bound' = IF Len(me) > bound THEN Len(me) ELSE bound
  /\ UNCHANGED ret

QNext ==
  \/ \E e \in Times : Add(e)
  \/ \E k \in Counts, advance \in BOOLEAN : Read(k, advance)
  \/ \E p \in Batches : Write(p) \/ Adopt(p)
  \/ \E k \in Counts : Advance(k)
  \/ Reset
  \/ Show

QSpec == QInit /\ [][QNext]_vars
=============================================================================
