--------------------------- MODULE ByteStreamProofs ---------------------------
(***************************************************************************)
(* What ByteStream promises, proved for every window, packet size, list of *)
(* Writes and set of Read buffers: StreamInv is inductive and implies the  *)
(* invariants checked on the instance of MCByteStream.                     *)
(*                                                                         *)
(* The loops of the code (Read's copying, the sum of the bytes in flight)  *)
(* are recursive functions over an interval; by ProofFacts such a function *)
(* exists, and it computes what its loop keeps true.                       *)
(***************************************************************************)
EXTENDS ByteStream, ProofFacts, SequenceTheorems, FiniteSetTheorems, TLAPS

-----------------------------------------------------------------------------
(* Pieces of a payload. *)

LEMMA SzIsPositive == Sz \in Nat /\ Sz >= 1
BY BytesAssumption DEF BytesAssumption, Sz, Min2

LEMMA TimesGrows ==
  ASSUME NEW a \in Nat, NEW b \in Nat, NEW s \in Nat, a <= b
  PROVE  a * s <= b * s /\ a * s \in Nat /\ b * s \in Nat
<1>1. PICK d \in Nat : b = a + d
  <2>1. b - a \in Nat /\ b = a + (b - a)
    OBVIOUS
  <2> QED BY <2>1
<1>2. b * s = a * s + d * s /\ d * s \in Nat /\ a * s \in Nat
  BY <1>1
<1> QED BY <1>2

LEMMA DivisionWithRest ==
  ASSUME NEW n \in Nat, NEW s \in Nat, s >= 1
  PROVE  /\ n \div s \in Nat /\ n % s \in 0..(s - 1)
         /\ n = (n \div s) * s + (n % s)
OBVIOUS

\* Packet i is needed just if the payload is longer than the packets before it.
LEMMA PacketIsNeeded ==
  ASSUME NEW len \in Nat, len >= 1
  PROVE  /\ Npack(len) \in Nat /\ Npack(len) >= 1
         /\ \A i \in Nat : i * Sz \in Nat /\ (i < Npack(len) <=> i * Sz < len)
<1> DEFINE q == len \div Sz
           r == len % Sz
<1>1. Sz \in Nat /\ Sz >= 1
  BY SzIsPositive
<1>2. q \in Nat /\ r \in 0..(Sz - 1) /\ len = q * Sz + r
  BY <1>1, DivisionWithRest
<1>3. Npack(len) = IF r > 0 THEN q + 1 ELSE q
  BY <1>2 DEF Npack
<1> HIDE DEF q, r
<1>4. q * Sz \in Nat /\ (q = 0 => q * Sz = 0)
  BY <1>1, <1>2
<1>5. Npack(len) \in Nat /\ Npack(len) >= 1
  BY <1>2, <1>3, <1>4
<1>6. ASSUME NEW i \in Nat
      PROVE  i * Sz \in Nat /\ (i < Npack(len) <=> i * Sz < len)
  <2>1. i * Sz \in Nat
    BY <1>1
  <2>2. CASE i > q
    <3>1. (q + 1) * Sz <= i * Sz
      BY <1>1, <1>2, <2>2, TimesGrows
    <3>2. (q + 1) * Sz = q * Sz + Sz
      BY <1>1, <1>2
    <3>3. i * Sz >= len
      BY <1>1, <1>2, <1>4, <2>1, <3>1, <3>2
    <3>4. ~(i < Npack(len))
      BY <1>2, <1>3, <2>2
    <3> QED BY <2>1, <3>3, <3>4, <1>2
  <2>3. CASE i = q
    BY <1>2, <1>3, <1>4, <2>1, <2>3
  <2>4. CASE i < q
    <3>1. (i + 1) * Sz <= q * Sz
      BY <1>1, <1>2, <2>4, TimesGrows
    <3>2. (i + 1) * Sz = i * Sz + Sz
      BY <1>1
    <3>3. i * Sz < len
      BY <1>1, <1>2, <1>4, <2>1, <3>1, <3>2
    <3>4. i < Npack(len)
      BY <1>2, <1>3, <2>4
    <3> QED BY <2>1, <3>3, <3>4
  <2> QED BY <1>2, <2>2, <2>3, <2>4
<1> QED BY <1>5, <1>6

LEMMA PieceFacts ==
  ASSUME NEW w \in 1..Len(Writes), NEW i \in Nat, i < Npack(Writes[w])
  PROVE  LET size == Len(Piece(w, i))
             len == Writes[w]
         IN /\ Piece(w, i) \in Seq(Nat \X Nat)
            /\ \A j \in 1..size : Piece(w, i)[j] = <<w, i * Sz + j>>
            /\ size \in 1..Sz /\ i * Sz \in Nat
            /\ i = Npack(len) - 1 => i * Sz + size = len
            /\ i # Npack(len) - 1 => i * Sz + size < len /\ size = Sz /\ (i + 1) * Sz = i * Sz + size
<1> DEFINE len == Writes[w]
           size == Min2((i + 1) * Sz, len) - i * Sz
<1>1. len \in Nat /\ len >= 1
  BY BytesAssumption DEF BytesAssumption
<1>2. Sz \in Nat /\ Sz >= 1
  BY SzIsPositive
<1>0. \A k \in Nat : k * Sz \in Nat /\ (k < Npack(len) <=> k * Sz < len)
  BY <1>1, PacketIsNeeded
<1>3. i * Sz \in Nat /\ i * Sz < len /\ i + 1 \in Nat
  BY <1>0
<1>4. (i + 1) * Sz = i * Sz + Sz
  BY <1>2
<1>5. size \in 1..Sz
  BY <1>1, <1>2, <1>3, <1>4 DEF Min2
<1>6. Npack(len) \in Nat /\ (i + 1 < Npack(len) <=> (i + 1) * Sz < len)
  <2>1. Npack(len) \in Nat
    BY <1>1, PacketIsNeeded
  <2> QED BY <1>3, <1>0, <2>1
<1>7. Piece(w, i) = [j \in 1..size |-> <<w, i * Sz + j>>] /\ w \in Nat
  BY DEF Piece
<1> HIDE DEF size
<1>8. /\ Piece(w, i) \in Seq(Nat \X Nat) /\ Len(Piece(w, i)) = size
      /\ \A j \in 1..size : Piece(w, i)[j] = <<w, i * Sz + j>>
  <2>1. \A j \in 1..size : <<w, i * Sz + j>> \in Nat \X Nat
    BY <1>3, <1>7
  <2> QED BY <1>5, <1>7, <2>1
<1>9. CASE i + 1 < Npack(len)
  <2>1. (i + 1) * Sz < len
    BY <1>6, <1>9
  <2>2. size = Sz /\ i * Sz + size < len
    BY <1>1, <1>2, <1>3, <1>4, <2>1 DEF size, Min2
  <2> QED BY <1>3, <1>4, <1>5, <1>6, <1>8, <1>9, <2>2
<1>10. CASE ~(i + 1 < Npack(len))
  <2>1. ~((i + 1) * Sz < len) /\ i = Npack(len) - 1
    BY <1>6, <1>10
  <2>2. i * Sz + size = len
    BY <1>1, <1>2, <1>3, <1>4, <2>1 DEF size, Min2
  <2> QED BY <1>3, <1>5, <1>8, <2>1, <2>2
<1> QED BY <1>9, <1>10

-----------------------------------------------------------------------------
(* The history of the packets sent. *)

LEMMA FrameFacts ==
  ASSUME HistoryIsTheWrites, NEW n \in Frames
  PROVE  /\ Frame(n) \in Packet /\ Frame(n).data \in Seq(Nat \X Nat)
         /\ Frame(n).write \in 1..Len(Writes) /\ Writes[Frame(n).write] \in Nat
         /\ Size(n) \in Nat /\ Size(n) >= 1 /\ Size(n) <= Sz
         /\ Cumul(n) = Frame(n).cumul /\ Cumul(n) \in Nat
         /\ Cumul(n) = Cumul(n - 1) + Size(n) /\ Cumul(n - 1) \in Nat
         /\ Cumul(n) <= TotalBytesSent /\ TotalBytesSent \in Nat
<1>1. SendHistory \in Seq(Packet) /\ n + 1 \in 1..Len(SendHistory) /\ n \in Nat
  BY DEF HistoryIsTheWrites, Frames, LastFrameSent
<1>2. Frame(n) \in Packet
  BY <1>1 DEF Frame
<1>3. /\ Frame(n).data \in Seq(Nat \X Nat) /\ Frame(n).write \in 1..Len(Writes)
      /\ Frame(n).cumul \in Nat
  BY <1>2 DEF Packet
<1>4. Size(n) \in Nat /\ Size(n) >= 1 /\ Size(n) <= Sz /\ Cumul(n) = Cumul(n - 1) + Size(n)
  BY SzIsPositive DEF HistoryIsTheWrites, IsPiece
<1>5. Cumul(n) = Frame(n).cumul
  BY <1>1 DEF Cumul
<1>6. Cumul(n - 1) \in Nat
  <2>1. CASE n = 0
    BY <2>1 DEF Cumul
  <2>2. CASE n # 0
    <3>1. n - 1 + 1 \in 1..Len(SendHistory) /\ n - 1 # -1
      BY <1>1, <2>2
    <3>2. Frame(n - 1) \in Packet
      BY <1>1, <3>1 DEF Frame
    <3> QED BY <3>1, <3>2 DEF Cumul, Packet
  <2> QED BY <2>1, <2>2
<1>7. Cumul(n) <= TotalBytesSent /\ TotalBytesSent \in Nat
  <2> DEFINE last == LastFrameSent
  <2>1. last + 1 \in 1..Len(SendHistory) /\ last \in Nat /\ n <= last
    BY <1>1 DEF LastFrameSent, Frames
  <2>2. Frame(last) \in Packet /\ Cumul(last) = Frame(last).cumul /\ TotalBytesSent = Cumul(last)
    BY <1>1, <2>1 DEF Frame, Cumul, HistoryIsTheWrites
  <2>3. n < last => Cumul(n) < Cumul(last)
    BY <1>1, <2>1 DEF HistoryIsTheWrites
  <2>4. Cumul(last) \in Nat
    BY <2>2 DEF Packet
  <2>5. CASE n = last
    BY <2>2, <2>4, <2>5
  <2>6. CASE n # last
    <3>1. n < last
      BY <1>1, <2>1, <2>6
    <3> HIDE DEF last
    <3> QED BY <1>3, <1>5, <2>2, <2>3, <2>4, <3>1
  <2> QED BY <2>5, <2>6
<1>8. Writes[Frame(n).write] \in Nat
  BY <1>3, BytesAssumption DEF BytesAssumption
<1> QED BY <1>2, <1>3, <1>4, <1>5, <1>6, <1>7, <1>8

LEMMA CumulFacts ==
  ASSUME HistoryIsTheWrites, NEW n \in -1..LastFrameSent
  PROVE  /\ Cumul(n) \in Nat /\ Cumul(n) <= TotalBytesSent /\ TotalBytesSent \in Nat
         /\ Cumul(-1) = 0
         /\ \A k \in -1..LastFrameSent : k <= n => Cumul(k) \in Nat /\ Cumul(k) <= Cumul(n)
         /\ \A k \in -1..LastFrameSent : k < n => Cumul(k) < Cumul(n)
<1>1. Cumul(-1) = 0
  BY DEF Cumul
<1>2. LastFrameSent \in Int
  BY DEF HistoryIsTheWrites, LastFrameSent
<1>3. ASSUME NEW k \in -1..LastFrameSent
      PROVE  Cumul(k) \in Nat /\ Cumul(k) <= TotalBytesSent /\ TotalBytesSent \in Nat
  <2>1. CASE k = -1
    <3>1. CASE LastFrameSent = -1
      BY <1>1, <2>1, <3>1 DEF HistoryIsTheWrites
    <3>2. CASE LastFrameSent # -1
      <4>1. LastFrameSent \in Frames
        BY <1>2, <3>2, <2>1 DEF Frames
      <4> QED BY <1>1, <2>1, <4>1, FrameFacts
    <3> QED BY <3>1, <3>2
  <2>2. CASE k # -1
    <3>1. k \in Frames
      BY <1>2, <2>2 DEF Frames
    <3> QED BY <3>1, FrameFacts
  <2> QED BY <2>1, <2>2
<1>4. \A k \in -1..LastFrameSent : k < n => Cumul(k) < Cumul(n)
  BY DEF HistoryIsTheWrites
<1> QED BY <1>1, <1>2, <1>3, <1>4

\* Appending a packet leaves the frames before it alone.
LEMMA HistoryGrows ==
  ASSUME SendHistory \in Seq(Packet), NEW p \in Packet, SendHistory' = Append(SendHistory, p)
  PROVE  /\ SendHistory' \in Seq(Packet)
         /\ LastFrameSent \in Int /\ LastFrameSent >= -1 /\ LastFrameSent' = LastFrameSent + 1
         /\ Frames' = Frames \cup {LastFrameSent'}
         /\ Frame(LastFrameSent)' = p
         /\ \A n \in Frames : /\ Frame(n)' = Frame(n) /\ Size(n)' = Size(n)
                              /\ LastByte(n)' = LastByte(n)
         /\ \A n \in -1..LastFrameSent : Cumul(n)' = Cumul(n) /\ ByteAfter(n)' = ByteAfter(n)
<1>1. /\ Len(SendHistory') = Len(SendHistory) + 1 /\ SendHistory' \in Seq(Packet)
      /\ SendHistory'[Len(SendHistory) + 1] = p /\ Len(SendHistory) \in Nat
      /\ \A i \in 1..Len(SendHistory) : SendHistory'[i] = SendHistory[i]
  OBVIOUS
<1>2. LastFrameSent \in Int /\ LastFrameSent >= -1 /\ LastFrameSent' = LastFrameSent + 1
  BY <1>1 DEF LastFrameSent
<1>3. Frames' = Frames \cup {LastFrameSent'}
  BY <1>2 DEF Frames
<1>4. Frame(LastFrameSent)' = p
  <2>1. LastFrameSent' + 1 = Len(SendHistory) + 1
    BY <1>1, <1>2 DEF LastFrameSent
  <2> QED BY <1>1, <2>1 DEF Frame
<1>5. ASSUME NEW n \in Frames
      PROVE  Frame(n)' = Frame(n)
  BY <1>1 DEF Frames, LastFrameSent, Frame
<1>6. ASSUME NEW n \in Frames
      PROVE  Size(n)' = Size(n) /\ LastByte(n)' = LastByte(n)
  BY <1>5 DEF Size, LastByte
<1>7. ASSUME NEW n \in -1..LastFrameSent
      PROVE  Cumul(n)' = Cumul(n) /\ ByteAfter(n)' = ByteAfter(n)
  <2>1. n # -1 => n \in Frames
    BY <1>2 DEF Frames
  <2> QED BY <1>5, <1>6, <2>1 DEF Cumul, ByteAfter, NextByte
<1> QED BY <1>1, <1>2, <1>3, <1>4, <1>5, <1>6, <1>7

LEMMA OldPiecesStay ==
  ASSUME HistoryIsTheWrites, NEW p \in Packet, SendHistory' = Append(SendHistory, p),
         NEW n \in Frames
  PROVE  IsPiece(n)'
<1>1. /\ Frame(n)' = Frame(n) /\ Size(n)' = Size(n)
      /\ \A k \in -1..LastFrameSent : Cumul(k)' = Cumul(k) /\ ByteAfter(k)' = ByteAfter(k)
  BY HistoryGrows DEF HistoryIsTheWrites
<1>2. n \in -1..LastFrameSent /\ n - 1 \in -1..LastFrameSent
  BY DEF Frames, HistoryIsTheWrites, LastFrameSent
<1>3. /\ Cumul(n)' = Cumul(n) /\ Cumul(n - 1)' = Cumul(n - 1)
      /\ ByteAfter(n - 1)' = ByteAfter(n - 1)
  BY <1>1, <1>2
<1>4. IsPiece(n)
  BY DEF HistoryIsTheWrites
<1> QED BY <1>1, <1>3, <1>4 DEF IsPiece, Npack, Sz

LEMMA AcceptSendExtends ==
  ASSUME TypeOK, HistoryIsTheWrites, AcceptSend
  PROVE  /\ HistoryIsTheWrites'
         /\ \E p \in Packet : SendHistory' = Append(SendHistory, p) /\ Len(p.data) \in 1..Sz
         /\ TotalBytesSent' = TotalBytesSent + Size(LastFrameSent)'
         /\ Size(LastFrameSent)' \in 1..Sz
<1> DEFINE len == Writes[write]
           data == Piece(write, pushed)
           size == Len(data)
           p == [data |-> data, write |-> write, cumul |-> TotalBytesSent',
                 last |-> pushed = Npack(len) - 1]
<1>1. /\ write \in 1..Len(Writes) /\ pushed \in Nat /\ pushed <= Npack(len) /\ pushed # Npack(len)
      /\ len \in Nat /\ len >= 1 /\ ~senderDone
      /\ SendHistory' = Append(SendHistory, p) /\ TotalBytesSent' = TotalBytesSent + size
      /\ write' = write /\ pushed' = pushed + 1 /\ senderDone' = senderDone
  <2>1. write \in 1..Len(Writes) /\ pushed \in Nat
    BY BytesAssumption DEF AcceptSend, TypeOK, Running, BytesAssumption
  <2>2. len \in Nat /\ len >= 1
    BY <2>1, BytesAssumption DEF BytesAssumption
  <2>3. pushed <= Npack(len) /\ pushed # Npack(len) /\ ~senderDone
    BY DEF AcceptSend, HistoryIsTheWrites, AllPushed
  <2>4. /\ SendHistory' = Append(SendHistory, p) /\ TotalBytesSent' = TotalBytesSent + size
        /\ write' = write /\ pushed' = pushed + 1 /\ senderDone' = senderDone
    BY DEF AcceptSend
  <2> QED BY <2>1, <2>2, <2>3, <2>4
<1>2. Npack(len) \in Nat
  BY <1>1, PacketIsNeeded
<1>3. /\ data \in Seq(Nat \X Nat) /\ size \in 1..Sz /\ pushed * Sz \in Nat
      /\ \A j \in 1..size : data[j] = <<write, pushed * Sz + j>>
      /\ pushed = Npack(len) - 1 => pushed * Sz + size = len
      /\ pushed # Npack(len) - 1 =>
           pushed * Sz + size < len /\ (pushed + 1) * Sz = pushed * Sz + size
  <2>1. pushed < Npack(len)
    BY <1>1, <1>2
  <2> HIDE DEF data
  <2> QED BY <1>1, <2>1, PieceFacts DEF data
<1>4. TotalBytesSent \in Nat /\ TotalBytesSent' \in Nat /\ size \in Nat /\ Sz \in Nat
  <2>1. TotalBytesSent \in Nat
    BY DEF TypeOK
  <2>2. size \in Nat /\ Sz \in Nat
    BY <1>3, SzIsPositive
  <2>3. TotalBytesSent' = TotalBytesSent + size
    BY <1>1
  <2> HIDE DEF size
  <2> QED BY <2>1, <2>2, <2>3
<1> HIDE DEF data
<1>5. p \in Packet
  BY <1>1, <1>3, <1>4 DEF Packet
<1>6. PICK h : h = LastFrameSent + 1
  OBVIOUS
<1>7. /\ SendHistory' \in Seq(Packet) /\ h \in Nat /\ LastFrameSent' = h /\ h - 1 = LastFrameSent
      /\ Frames' = Frames \cup {h} /\ Frame(h)' = p
      /\ \A n \in -1..(h - 1) : Cumul(n)' = Cumul(n) /\ ByteAfter(n)' = ByteAfter(n)
  <2> HIDE DEF p
  <2>1. /\ SendHistory' \in Seq(Packet)
        /\ LastFrameSent \in Int /\ LastFrameSent >= -1 /\ LastFrameSent' = LastFrameSent + 1
        /\ Frames' = Frames \cup {LastFrameSent'} /\ Frame(LastFrameSent)' = p
        /\ \A n \in -1..LastFrameSent : Cumul(n)' = Cumul(n) /\ ByteAfter(n)' = ByteAfter(n)
    BY <1>1, <1>5, HistoryGrows DEF HistoryIsTheWrites
  <2> QED BY <1>6, <2>1
<1>8. /\ Frame(h)'.data = data /\ Frame(h)'.write = write /\ Frame(h)'.cumul = TotalBytesSent'
      /\ Frame(h)'.last = (pushed = Npack(len) - 1)
  BY <1>7
<1> HIDE DEF p
<1>9. Size(h)' = size /\ LastByte(h)' = <<write, pushed * Sz + size>>
  BY <1>3, <1>8 DEF Size, LastByte
<1>10. Cumul(h)' = TotalBytesSent' /\ Cumul(h - 1)' = TotalBytesSent /\ h # -1
  BY <1>7, <1>8 DEF Cumul, HistoryIsTheWrites
<1>11. ByteAfter(h - 1)' = <<write, pushed * Sz + 1>>
  <2>1. ByteAfter(LastFrameSent) = <<write, pushed * Sz + 1>>
    BY <1>1 DEF HistoryIsTheWrites, Running, AllPushed, TypeOK
  <2> QED BY <1>7, <2>1
<1>12. IsPiece(h)'
  <2> DEFINE first == pushed * Sz + 1
  <2>1. data[1] = <<write, first>> /\ data[1][2] = first /\ first \in Nat
    BY <1>3
  <2> HIDE DEF first
  <2>2. \A j \in 1..size : data[j] = <<write, first + j - 1>>
    BY <1>3 DEF first
  <2>7. pushed * Sz + size <= len
    <3>1. pushed * Sz + size \in Int /\ len \in Int
      BY <1>1, <1>3, <1>4
    <3> HIDE DEF len, size
    <3> QED BY <1>3, <3>1
  <2>3. first + size - 1 <= len
    <3>1. pushed * Sz \in Nat /\ size \in Nat /\ len \in Nat
      BY <1>1, <1>3, <1>4
    <3> QED BY <2>7, <3>1 DEF first
  <2>6. pushed = Npack(len) - 1 => first = (Npack(len) - 1) * Sz + 1
    BY DEF first
  <2>4. Cumul(h)' = Cumul(h - 1)' + size
    BY <1>1, <1>10
  <2>5. data[1] = ByteAfter(h - 1)'
    BY <1>11, <2>1 DEF first
  <2> QED BY <1>3, <1>8, <1>9, <2>1, <2>2, <2>3, <2>4, <2>5, <2>6 DEF IsPiece
<1>13. ASSUME NEW n \in Frames'
       PROVE  IsPiece(n)'
  BY <1>1, <1>5, <1>7, <1>12, OldPiecesStay
<1>14. ASSUME NEW a \in -1..h, NEW b \in -1..h, a < b
       PROVE  Cumul(a)' < Cumul(b)'
  <2>1. CASE b = h
    <3>1. a \in -1..LastFrameSent
      BY <1>7, <1>14, <2>1
    <3>2. Cumul(a)' = Cumul(a) /\ Cumul(a) \in Nat /\ Cumul(a) <= TotalBytesSent
      BY <1>7, <3>1, CumulFacts
    <3> QED BY <1>1, <1>3, <1>4, <1>10, <2>1, <3>2, SMTT(30)
  <2>2. CASE b # h
    <3>1. a \in -1..LastFrameSent /\ b \in -1..LastFrameSent
      BY <1>7, <1>14, <2>2
    <3> QED BY <1>7, <1>14, <3>1 DEF HistoryIsTheWrites
  <2> QED BY <2>1, <2>2
<1>15. ByteAfter(h)' = IF AllPushed' THEN <<write + 1, 1>> ELSE <<write, (pushed + 1) * Sz + 1>>
  <2>1. ByteAfter(h)' = IF pushed * Sz + size < len THEN <<write, pushed * Sz + size + 1>>
                        ELSE <<write + 1, 1>>
    BY <1>9, <1>10 DEF ByteAfter, NextByte
  <2>2. AllPushed' <=> pushed = Npack(len) - 1
    BY <1>1, <1>2 DEF AllPushed
  <2>3. CASE pushed = Npack(len) - 1
    <3>1. ~(pushed * Sz + size < len)
      BY <1>1, <1>3, <2>3
    <3> QED BY <2>1, <2>2, <2>3, <3>1
  <2>4. CASE pushed # Npack(len) - 1
    BY <1>3, <2>1, <2>2, <2>4
  <2> QED BY <2>3, <2>4
<1>16. HistoryIsTheWrites'
  <2>1. pushed' <= Npack(Writes[write'])
    BY <1>1, <1>2
  <2>2. ByteAfter(LastFrameSent)' = IF AllPushed' THEN <<write' + 1, 1>>
                                    ELSE <<write', pushed' * Sz + 1>>
    BY <1>1, <1>7, <1>15
  <2>3. TotalBytesSent' = Cumul(LastFrameSent)'
    BY <1>7, <1>10
  <2> QED BY <1>7, <1>13, <1>14, <2>1, <2>2, <2>3 DEF HistoryIsTheWrites
<1> QED BY <1>1, <1>3, <1>5, <1>7, <1>9, <1>16 DEF p

\* What does not send leaves the history as it is.
LEMMA SameHistory ==
  ASSUME UNCHANGED SendHistory
  PROVE  /\ LastFrameSent' = LastFrameSent /\ Frames' = Frames
         /\ \A n \in Int : /\ Frame(n)' = Frame(n) /\ Size(n)' = Size(n) /\ Cumul(n)' = Cumul(n)
                           /\ LastByte(n)' = LastByte(n) /\ ByteAfter(n)' = ByteAfter(n)
                           /\ IsPiece(n)' <=> IsPiece(n)
BY DEF LastFrameSent, Frames, Frame, Size, Cumul, LastByte, ByteAfter, NextByte, IsPiece, Npack, Sz

LEMMA HistoryStands ==
  ASSUME TypeOK, HistoryIsTheWrites, UNCHANGED sentVars,
         \/ PushGivesUp
         \/ \E by \in {"ack", "timeout", "done"} : WriteReturns(by)
         \/ SenderEnds
         \/ UNCHANGED <<write, pushed, senderDone>>
  PROVE  HistoryIsTheWrites'
<1>1. /\ SendHistory' = SendHistory /\ TotalBytesSent' = TotalBytesSent
      /\ LastFrameSent' = LastFrameSent /\ Frames' = Frames
      /\ LastFrameSent \in Int /\ Frames \subseteq Int
  BY SameHistory DEF sentVars, Frames, LastFrameSent, HistoryIsTheWrites
<1>2. /\ SendHistory' \in Seq(Packet)
      /\ \A n \in Frames' : IsPiece(n)'
      /\ TotalBytesSent' = Cumul(LastFrameSent)'
      /\ \A a, b \in -1..LastFrameSent' : a < b => Cumul(a)' < Cumul(b)'
      /\ ByteAfter(LastFrameSent)' = ByteAfter(LastFrameSent)
  <2>1. \A n \in Int : IsPiece(n)' <=> IsPiece(n)
    BY <1>1, SameHistory
  <2>2. \A n \in Int : Cumul(n)' = Cumul(n)
    BY <1>1, SameHistory
  <2>3. TotalBytesSent' = Cumul(LastFrameSent)'
    BY <1>1 DEF Cumul, Frame, HistoryIsTheWrites
  <2>4. ByteAfter(LastFrameSent)' = ByteAfter(LastFrameSent)
    BY <1>1 DEF ByteAfter, NextByte, LastByte, Frame, Size
  <2>5. \A n \in Frames' : IsPiece(n)'
    BY <1>1, <2>1 DEF HistoryIsTheWrites
  <2>6. \A a, b \in -1..LastFrameSent' : a < b => Cumul(a)' < Cumul(b)'
    BY <1>1, <2>2 DEF HistoryIsTheWrites
  <2> QED BY <1>1, <2>3, <2>4, <2>5, <2>6 DEF HistoryIsTheWrites
<1>3. /\ Running' => pushed' <= Npack(Writes[write'])
      /\ Running' /\ ~senderDone' =>
           ByteAfter(LastFrameSent)' = IF AllPushed' THEN <<write' + 1, 1>>
                                       ELSE <<write', pushed' * Sz + 1>>
  <2> DEFINE len == Writes[write]
  <2>1. write \in Nat /\ pushed \in Nat /\ Len(Writes) \in Nat
    BY BytesAssumption DEF TypeOK, BytesAssumption
  <2>2. Running /\ write >= 1 => len \in Nat /\ len >= 1
    BY <2>1, BytesAssumption DEF BytesAssumption, Running
  <2>3. CASE PushGivesUp
    <3>1. /\ Running /\ pushed # Npack(len) /\ pushed <= Npack(len) /\ senderDone'
          /\ pushed' = pushed + 1 /\ write' = write /\ write >= 1
      BY <2>3 DEF PushGivesUp, AllPushed, HistoryIsTheWrites, TypeOK
    <3>2. Npack(len) \in Nat
      BY <2>2, <3>1, PacketIsNeeded
    <3> QED BY <2>1, <3>1, <3>2
  <2>4. ASSUME NEW by \in {"ack", "timeout", "done"}, WriteReturns(by)
        PROVE  /\ Running' => pushed' <= Npack(Writes[write'])
               /\ Running' /\ ~senderDone' =>
                    ByteAfter(LastFrameSent)' = IF AllPushed' THEN <<write' + 1, 1>>
                                                ELSE <<write', pushed' * Sz + 1>>
    <3>1. /\ Running /\ AllPushed /\ write' = write + 1 /\ pushed' = 0
          /\ senderDone' = senderDone
      BY <2>4 DEF WriteReturns
    <3>2. ASSUME Running'
          PROVE  Npack(Writes[write']) \in Nat /\ Npack(Writes[write']) >= 1
      <4>1. write' \in 1..Len(Writes)
        BY <2>1, <3>1, <3>2 DEF Running
      <4>2. Writes[write'] \in Nat /\ Writes[write'] >= 1
        BY <4>1, BytesAssumption DEF BytesAssumption
      <4> QED BY <4>2, PacketIsNeeded
    <3>3. Running' => ~AllPushed'
      BY <3>1, <3>2 DEF AllPushed
    <3>4. pushed' * Sz + 1 = 1
      BY <3>1, SzIsPositive
    <3>5. ~senderDone => ByteAfter(LastFrameSent) = <<write + 1, 1>>
      BY <3>1 DEF HistoryIsTheWrites
    <3> QED BY <1>2, <3>1, <3>2, <3>3, <3>4, <3>5
  <2>5. CASE SenderEnds
    BY <2>5 DEF SenderEnds, HistoryIsTheWrites, appVars, Running
  <2>6. CASE UNCHANGED <<write, pushed, senderDone>>
    BY <1>2, <2>6 DEF HistoryIsTheWrites, Running, AllPushed
  <2> QED BY <2>3, <2>4, <2>5, <2>6
<1> QED BY <1>2, <1>3 DEF HistoryIsTheWrites

-----------------------------------------------------------------------------
(* Steps that leave a part of the invariant alone. *)

OldFramesStay ==
  /\ LastFrameSent \in Int /\ LastFrameSent' \in Int /\ LastFrameSent' >= LastFrameSent
  /\ \A n \in Frames : Frame(n)' = Frame(n) /\ Size(n)' = Size(n) /\ LastByte(n)' = LastByte(n)
  /\ \A n \in -1..LastFrameSent : Cumul(n)' = Cumul(n)

LEMMA FramesStay ==
  ASSUME TypeOK, HistoryIsTheWrites, AcceptSend \/ UNCHANGED SendHistory
  PROVE  OldFramesStay
<1>1. CASE AcceptSend
  <2>1. PICK p \in Packet : SendHistory' = Append(SendHistory, p)
    BY <1>1, AcceptSendExtends
  <2> QED BY <2>1, HistoryGrows DEF OldFramesStay, HistoryIsTheWrites
<1>2. CASE UNCHANGED SendHistory
  BY <1>2, SameHistory DEF OldFramesStay, HistoryIsTheWrites, LastFrameSent, Frames
<1> QED BY <1>1, <1>2

LEMMA ArrivalsStand ==
  ASSUME TypeOK, ArrivalsAreCounted, OldFramesStay, UNCHANGED <<orderVars, ReadyForDelivery,
         LastMsgConsumed, largestVars>>
  PROVE  ArrivalsAreCounted'
<1>1. Cumul(LargestSeqnoRcvd)' = Cumul(LargestSeqnoRcvd)
  <2>1. PICK n \in -1..LastFrameSent : n = LargestSeqnoRcvd
    BY DEF TypeOK
  <2>2. Cumul(n)' = Cumul(n)
    BY DEF OldFramesStay
  <2>3. LargestSeqnoRcvd' = LargestSeqnoRcvd
    BY DEF largestVars
  <2> QED BY <2>1, <2>2, <2>3 DEF Cumul
<1> QED BY <1>1 DEF ArrivalsAreCounted, orderVars, largestVars, CumulNeverPanics

LEMMA ReadThroughStands ==
  ASSUME OldFramesStay, NEW bytes, NEW n \in -1..LastFrameSent, NEW off, ReadThrough(bytes, n, off),
         Len(bytes) = 0 <=> bytes = << >>, off \in Nat, HistoryIsTheWrites
  PROVE  ReadThrough(bytes, n, off)'
<1>1. Cumul(n)' = Cumul(n) /\ LastFrameSent \in Int /\ LastFrameSent' \in Int
      /\ LastFrameSent' >= LastFrameSent
  BY DEF OldFramesStay
<1>2. CASE off > 0
  <2>1. n + 1 \in Frames
    BY <1>1, <1>2 DEF ReadThrough, Frames
  <2> QED BY <1>1, <1>2, <2>1 DEF ReadThrough, OldFramesStay, Consecutive, NextByte
<1>3. CASE ~(off > 0)
  <2>1. off = 0
    BY <1>3
  <2>2. n = -1 => Len(bytes) = 0
    BY <2>1 DEF ReadThrough, Cumul
  <2>3. n # -1 => n \in Frames
    BY <1>1 DEF Frames
  <2>4. n # -1 => LastByte(n)' = LastByte(n)
    BY <2>3 DEF OldFramesStay
  <2>5. Len(bytes) = Cumul(n)' + off /\ Consecutive(bytes)'
    BY <1>1 DEF ReadThrough, Consecutive, NextByte
  <2>6. bytes # << >> => bytes[Len(bytes)] = LastByte(n)'
    BY <2>1, <2>2, <2>4 DEF ReadThrough
  <2> QED BY <2>1, <2>5, <2>6 DEF ReadThrough
<1> QED BY <1>2, <1>3

LEMMA ReadingStands ==
  ASSUME TypeOK, HistoryIsTheWrites, ReadingIsAtItsMarks, OldFramesStay, UNCHANGED consumeVars,
         ReadyForDelivery # << >> => ReadyForDelivery' # << >>
  PROVE  ReadingIsAtItsMarks'
<1>1. /\ got' = got /\ LastMsgConsumed' = LastMsgConsumed /\ DataOffset' = DataOffset
      /\ LastByteConsumed' = LastByteConsumed
      /\ LastFrameClientConsumed' = LastFrameClientConsumed
  BY DEF consumeVars
<1>2. PICK n \in -1..LastFrameSent, off \in Nat, bytes \in Seq(Nat \X Nat) :
        n = LastMsgConsumed /\ off = DataOffset /\ bytes = got
  BY DEF TypeOK, ReadingIsAtItsMarks
<1>3. ReadThrough(bytes, n, off)'
  <2>1. ReadThrough(bytes, n, off)
    BY <1>2 DEF ReadingIsAtItsMarks
  <2>2. Len(bytes) = 0 <=> bytes = << >>
    OBVIOUS
  <2> QED BY <2>1, <2>2, ReadThroughStands
<1>4. ReadThrough(got, LastMsgConsumed, DataOffset)'
  BY <1>1, <1>2, <1>3 DEF ReadThrough, Consecutive, NextByte, Cumul, Frame, LastByte, Size,
                          LastFrameSent
<1> QED BY <1>1, <1>4 DEF ReadingIsAtItsMarks

LEMMA AcksStand ==
  ASSUME AcksAreHonest, UNCHANGED <<acks, flow, flowSeen, recvLastFrameClientConsumed,
         LastMsgConsumed, got>>
  PROVE  AcksAreHonest'
BY DEF AcksAreHonest, IsAckNum, InventedByte, flowSeen

LEMMA CreditOfStays ==
  ASSUME OldFramesStay, NEW c \in -1..LastFrameSent, NEW w
  PROVE  CreditOf(w, c)' = CreditOf(w, c)
<1>1. c # -1 => c \in Frames
  BY DEF OldFramesStay, Frames
<1> QED BY <1>1 DEF OldFramesStay, CreditOf

LEMMA CreditsStand ==
  ASSUME TypeOK, CreditsAreEarned, HistoryIsTheWrites,
         UNCHANGED <<creditVars, sentVars, SentButNotAcked, result>>,
         LastMsgConsumed' \in Int, LastMsgConsumed' >= LastMsgConsumed,
         got # << >> => got' # << >>
  PROVE  CreditsAreEarned'
<1>1. OldFramesStay
  BY FramesStay DEF sentVars
<1>2. /\ LastFrameSent' = LastFrameSent /\ SentButNotAcked' = SentButNotAcked
      /\ crediting' = crediting /\ NumBytesAcked' = NumBytesAcked /\ cliAcked' = cliAcked
      /\ TotalBytesSent' = TotalBytesSent /\ result' = result
  BY SameHistory DEF sentVars, creditVars
<1>3. PICK a \in -1..LastFrameSent : \E c \in -1..a : Credited(a, c)
  BY DEF CreditsAreEarned
<1>4. PICK c \in -1..a : Credited(a, c)
  BY <1>3
<1>5. Credited(a, c)'
  <2>1. a \in Int /\ c \in -1..LastFrameSent
    BY <1>1 DEF OldFramesStay
  <2>2. \A w \in 1..Len(Writes) : NumBytesAcked'[w] = CreditOf(w, c)'
    BY <1>1, <1>2, <1>4, <2>1, CreditOfStays DEF Credited
  <2>3. a > 0 => a <= LastMsgConsumed'
    BY <1>4, <2>1 DEF Credited, TypeOK
  <2>4. Cumul(a)' = Cumul(a) /\ Cumul(a) \in Nat /\ TotalBytesSent \in Nat
    BY <1>1, CumulFacts DEF OldFramesStay
  <2>5. TotalBytesSent' < WindowByteSz + Sz + Cumul(a)' + InventedByte'
    BY <1>2, <1>4, <2>4, SzIsPositive, BytesAssumption
       DEF Credited, InventedByte, BytesAssumption, Sz
  <2> QED BY <1>2, <1>4, <2>2, <2>3, <2>5 DEF Credited
<1> QED BY <1>2, <1>5 DEF CreditsAreEarned, AckedWriteMissesAtMostLastPiece, AllButLastPiece,
                         Npack, Sz

-----------------------------------------------------------------------------
(* The recvloop's steps. *)

LEMMA ReadIsCounted ==
  ASSUME TypeOK, HistoryIsTheWrites, ArrivalsAreCounted, ReadingIsAtItsMarks
  PROVE  /\ Len(got) \in Nat /\ MaxCumulBytesTrans \in Nat /\ Len(got) <= MaxCumulBytesTrans
         /\ LastByteConsumed \in Int
         /\ InventedByte \in {0, 1}
         /\ LastByteConsumed + 1 - MaxCumulBytesTrans <= InventedByte
         /\ LastMsgConsumed \in Int /\ LastMsgConsumed <= LargestSeqnoRcvd
         /\ LargestSeqnoRcvd \in -1..LastFrameSent
<1>1. /\ LastMsgConsumed \in -1..LastFrameSent /\ LargestSeqnoRcvd \in -1..LastFrameSent
      /\ Len(ReadyForDelivery) \in Nat /\ LastFrameSent \in Int /\ DataOffset \in Nat
      /\ Len(got) \in Nat
  <2>1. LastFrameSent \in Int
    BY DEF HistoryIsTheWrites, LastFrameSent
  <2>2. Len(ReadyForDelivery) \in Nat /\ Len(got) \in Nat
    BY DEF ArrivalsAreCounted, ReadingIsAtItsMarks
  <2> QED BY <2>1, <2>2, SzIsPositive DEF TypeOK
<1>2. LastMsgConsumed + Len(ReadyForDelivery) <= LargestSeqnoRcvd
  BY <1>1 DEF ArrivalsAreCounted
<1>3. /\ MaxCumulBytesTrans = Cumul(LargestSeqnoRcvd) /\ Cumul(LargestSeqnoRcvd) \in Nat
      /\ \A k \in -1..LastFrameSent : k <= LargestSeqnoRcvd =>
           Cumul(k) \in Nat /\ Cumul(k) <= MaxCumulBytesTrans
  BY <1>1, CumulFacts DEF ArrivalsAreCounted
<1>4. Len(got) = Cumul(LastMsgConsumed) + DataOffset
  BY DEF ReadingIsAtItsMarks, ReadThrough
<1>5. Len(got) <= MaxCumulBytesTrans
  <2>1. CASE DataOffset = 0
    BY <1>1, <1>2, <1>3, <1>4, <2>1
  <2>2. CASE DataOffset # 0
    <3>1. ReadyForDelivery # << >> /\ DataOffset < Size(LastMsgConsumed + 1)
      BY <1>1, <2>2 DEF ReadingIsAtItsMarks, ReadThrough
    <3>2. Len(ReadyForDelivery) # 0
      BY <3>1 DEF ArrivalsAreCounted
    <3>3. PICK n \in Frames : n = LastMsgConsumed + 1
      BY <1>1, <1>2, <3>2 DEF Frames
    <3>4. /\ Cumul(n) = Cumul(n - 1) + Size(n) /\ Cumul(n) \in Nat /\ Cumul(n - 1) \in Nat
          /\ Size(n) \in Nat
      BY FrameFacts
    <3>5. Cumul(n) <= MaxCumulBytesTrans /\ n - 1 = LastMsgConsumed
      BY <1>1, <1>2, <1>3, <3>2, <3>3 DEF Frames
    <3> QED BY <1>1, <1>3, <1>4, <3>1, <3>3, <3>4, <3>5
  <2> QED BY <2>1, <2>2
<1>6. LastByteConsumed = (IF got = << >> THEN -1 ELSE Len(got)) /\ InventedByte \in {0, 1}
  BY DEF ReadingIsAtItsMarks, InventedByte
<1>7. LastByteConsumed + 1 - MaxCumulBytesTrans <= InventedByte
  BY <1>1, <1>3, <1>5, <1>6 DEF InventedByte
<1> QED BY <1>1, <1>2, <1>3, <1>5, <1>6, <1>7

LEMMA CapsAreBounded ==
  ASSUME NEW largest \in Int, NEW maxCumul \in Int, NEW m \in Int, NEW b \in Int, NEW x \in {0, 1},
         m <= largest, b + 1 - maxCumul <= x
  PROVE  /\ MsgCap(largest, m) \in Int /\ MsgCap(largest, m) <= WindowMsgCount
         /\ BytesCap(maxCumul, b) \in Int /\ BytesCap(maxCumul, b) <= WindowByteSz + x
BY BytesAssumption DEF BytesAssumption, MsgCap, BytesCap

\* What UpdateControl makes of FlowCt.Flow.
LEMMA FlowIsBounded ==
  ASSUME TypeOK, AcksAreHonest,
         NEW largest \in Int, NEW maxCumul \in Int, NEW m \in Int, NEW b \in Int, NEW x \in {0, 1},
         m <= largest, b + 1 - maxCumul <= x, flow.bytes <= WindowByteSz + x,
         UpdateControl(largest, maxCumul, m, b)
  PROVE  /\ flow' \in [msg : Nat, bytes : Nat]
         /\ flow'.msg \in 0..WindowMsgCount /\ flow'.bytes <= WindowByteSz + x
         /\ flow'.bytes \in 0..(WindowByteSz + 1)
<1>1. /\ MsgCap(largest, m) \in Int /\ MsgCap(largest, m) <= WindowMsgCount
      /\ BytesCap(maxCumul, b) \in Int /\ BytesCap(maxCumul, b) <= WindowByteSz + x
  BY CapsAreBounded
<1>2. WindowMsgCount \in Nat /\ WindowByteSz \in Nat
  BY BytesAssumption DEF BytesAssumption
<1>3. flow.msg \in 0..WindowMsgCount /\ flow.bytes \in Nat
  BY DEF TypeOK, AcksAreHonest
<1>4. /\ OrOld(MsgCap(largest, m), flow.msg) \in 0..WindowMsgCount
      /\ OrOld(BytesCap(maxCumul, b), flow.bytes) \in Nat
      /\ OrOld(BytesCap(maxCumul, b), flow.bytes) <= WindowByteSz + x
  BY <1>1, <1>2, <1>3 DEF OrOld
<1>5. flow' = [msg |-> OrOld(MsgCap(largest, m), flow.msg),
               bytes |-> OrOld(BytesCap(maxCumul, b), flow.bytes)]
  BY DEF UpdateControl
<1> HIDE DEF OrOld
<1> QED BY <1>2, <1>4, <1>5

LEMMA CountPackCounts ==
  ASSUME TypeOK, HistoryIsTheWrites, ArrivalsAreCounted, ReadingIsAtItsMarks, AcksAreHonest,
         NEW n \in Frames, CountPack(n), UNCHANGED <<sentVars, got>>
  PROVE  /\ LargestSeqnoRcvd' \in -1..LastFrameSent /\ LargestSeqnoRcvd' \in Int
         /\ n <= LargestSeqnoRcvd' /\ LargestSeqnoRcvd <= LargestSeqnoRcvd'
         /\ MaxCumulBytesTrans' = Cumul(LargestSeqnoRcvd')
         /\ MaxCumulBytesTrans' \in 0..TotalBytesSent
         /\ panicked' = FALSE
         /\ flow' \in [msg : Nat, bytes : Nat]
         /\ flow'.msg \in 0..WindowMsgCount /\ flow'.bytes <= WindowByteSz + InventedByte
         /\ flow'.bytes \in 0..(WindowByteSz + 1)
         /\ LastByteConsumed + 1 - MaxCumulBytesTrans' <= InventedByte
<1>1. /\ Len(got) <= MaxCumulBytesTrans /\ LastByteConsumed \in Int /\ InventedByte \in {0, 1}
      /\ LastByteConsumed + 1 - MaxCumulBytesTrans <= InventedByte
      /\ LastMsgConsumed \in Int /\ LastMsgConsumed <= LargestSeqnoRcvd
      /\ LargestSeqnoRcvd \in -1..LastFrameSent /\ MaxCumulBytesTrans \in Nat
  BY ReadIsCounted
<1>2. /\ n \in -1..LastFrameSent /\ n \in Nat /\ LastFrameSent \in Int
      /\ Cumul(n) = Frame(n).cumul /\ Cumul(n) \in Nat
      /\ Cumul(n) <= TotalBytesSent /\ TotalBytesSent \in Nat
  BY FrameFacts DEF Frames, HistoryIsTheWrites, LastFrameSent
<1>3. MaxCumulBytesTrans = Cumul(LargestSeqnoRcvd) /\ MaxCumulBytesTrans <= TotalBytesSent
  BY <1>1, CumulFacts DEF ArrivalsAreCounted
<1>4. /\ LargestSeqnoRcvd' = IF n > LargestSeqnoRcvd THEN n ELSE LargestSeqnoRcvd
      /\ MaxCumulBytesTrans' = IF n > LargestSeqnoRcvd THEN Cumul(n) ELSE MaxCumulBytesTrans
      /\ UpdateControl(LargestSeqnoRcvd', MaxCumulBytesTrans', LastMsgConsumed, LastByteConsumed)
  BY <1>2 DEF CountPack
<1>5. /\ n > LargestSeqnoRcvd => MaxCumulBytesTrans < Cumul(n)
      /\ ~(n > LargestSeqnoRcvd) => Cumul(n) <= MaxCumulBytesTrans
  <2>1. \A k \in -1..LastFrameSent : k < n => Cumul(k) < Cumul(n)
    BY <1>2, CumulFacts
  <2>2. \A k \in -1..LastFrameSent : k <= LargestSeqnoRcvd => Cumul(k) <= Cumul(LargestSeqnoRcvd)
    BY <1>1, CumulFacts
  <2> QED BY <1>1, <1>2, <1>3, <2>1, <2>2
<1>6. /\ ~(Frame(n).cumul > MaxCumulBytesTrans')
      /\ ~(n > LargestSeqnoRcvd /\ Frame(n).cumul < MaxCumulBytesTrans)
  <2>1. CASE n > LargestSeqnoRcvd
    BY <1>1, <1>2, <1>4, <1>5, <2>1
  <2>2. CASE ~(n > LargestSeqnoRcvd)
    BY <1>1, <1>2, <1>4, <1>5, <2>2
  <2> QED BY <2>1, <2>2
<1>7. panicked' = FALSE
  <2>1. panicked' = (panicked \/ Frame(n).cumul > MaxCumulBytesTrans'
                       \/ (n > LargestSeqnoRcvd /\ Frame(n).cumul < MaxCumulBytesTrans))
    BY DEF CountPack
  <2>2. ~panicked
    BY DEF ArrivalsAreCounted, CumulNeverPanics
  <2> QED BY <1>6, <2>1, <2>2, Zenon
<1>8. /\ LargestSeqnoRcvd' \in -1..LastFrameSent /\ LargestSeqnoRcvd' \in Int
      /\ n <= LargestSeqnoRcvd' /\ LargestSeqnoRcvd <= LargestSeqnoRcvd'
      /\ MaxCumulBytesTrans' = Cumul(LargestSeqnoRcvd')
      /\ MaxCumulBytesTrans' \in 0..TotalBytesSent /\ MaxCumulBytesTrans <= MaxCumulBytesTrans'
  <2>1. CASE n > LargestSeqnoRcvd
    BY <1>1, <1>2, <1>3, <1>4, <1>5, <2>1
  <2>2. CASE ~(n > LargestSeqnoRcvd)
    BY <1>1, <1>2, <1>3, <1>4, <1>5, <2>2
  <2> QED BY <2>1, <2>2
<1>9. LastByteConsumed + 1 - MaxCumulBytesTrans' <= InventedByte
  BY <1>1, <1>2, <1>8
<1>10. PICK largest \in Int, maxCumul \in Int, x \in {0, 1} :
         largest = LargestSeqnoRcvd' /\ maxCumul = MaxCumulBytesTrans' /\ x = InventedByte
  BY <1>1, <1>8
<1>11. /\ flow' \in [msg : Nat, bytes : Nat]
       /\ flow'.msg \in 0..WindowMsgCount /\ flow'.bytes <= WindowByteSz + x
       /\ flow'.bytes \in 0..(WindowByteSz + 1)
  <2>1. UpdateControl(largest, maxCumul, LastMsgConsumed, LastByteConsumed)
    BY <1>4, <1>10
  <2>2. LastMsgConsumed <= largest
    BY <1>1, <1>2, <1>8, <1>10
  <2>3. LastByteConsumed + 1 - maxCumul <= x /\ flow.bytes <= WindowByteSz + x
    BY <1>9, <1>10 DEF AcksAreHonest
  <2> QED BY <1>1, <2>1, <2>2, <2>3, FlowIsBounded
<1> QED BY <1>7, <1>8, <1>9, <1>10, <1>11

LEMMA TypeFacts ==
  ASSUME StreamInv
  PROVE  /\ LastFrameSent \in Int /\ LastFrameSent >= -1
         /\ Frames \subseteq Nat /\ Rxq \subseteq Frames
         /\ LastMsgConsumed \in -1..LastFrameSent /\ LargestSeqnoRcvd \in -1..LastFrameSent
         /\ Len(ReadyForDelivery) \in Nat /\ ReadyForDelivery \in Seq(Nat)
         /\ TotalBytesSent \in Nat /\ Sz \in Nat /\ Sz >= 1
<1>1. LastFrameSent \in Int /\ LastFrameSent >= -1
  BY DEF StreamInv, HistoryIsTheWrites, LastFrameSent
<1>2. Len(ReadyForDelivery) \in Nat /\ ReadyForDelivery \in Seq(Nat)
  BY DEF StreamInv, ArrivalsAreCounted
<1>3. Frames \subseteq Nat
  BY <1>1 DEF Frames
<1> QED BY <1>1, <1>2, <1>3, SzIsPositive DEF StreamInv, TypeOK

LEMMA RunsOfFrames ==
  ASSUME NEW s \in Seq(Nat), NEW m \in Int, NEW top \in Int, m >= -1, m + Len(s) <= top,
         \A i \in 1..Len(s) : s[i] = m + i
  PROVE  Range(s) \subseteq 0..top
<1>1. ASSUME NEW i \in 1..Len(s)
      PROVE  s[i] \in 0..top
  <2>1. s[i] = m + i /\ Len(s) \in Nat
    OBVIOUS
  <2> QED BY <2>1
<1>2. Range(s) = {s[i] : i \in 1..Len(s)}
  BY DEF Range
<1> QED BY <1>1, <1>2

\* An ack that is honest when it is sent keeps all of them so, once nothing that
\* was consumed is taken back.
LEMMA AcksStayHonest ==
  ASSUME AcksAreHonest,
         \/ acks' = acks
         \/ \E m \in [ack : Nat, msg : Int, bytes : Int] :
              /\ acks' = acks \cup {m} /\ IsAckNum(m.ack)'
              /\ m.bytes <= WindowByteSz + InventedByte',
         recvLastFrameClientConsumed' = recvLastFrameClientConsumed
           \/ IsAckNum(recvLastFrameClientConsumed)',
         flow' = flow \/ (flow' \in [msg : Nat, bytes : Nat]
                            /\ flow'.bytes <= WindowByteSz + InventedByte'),
         UNCHANGED flowSeen,
         LastMsgConsumed \in Int, LastMsgConsumed' \in Int, LastMsgConsumed <= LastMsgConsumed',
         got # << >> => got' # << >>
  PROVE  AcksAreHonest'
<1>1. \A n : IsAckNum(n) => IsAckNum(n)'
  BY DEF IsAckNum
<1>2. /\ InventedByte \in Nat /\ InventedByte' \in Nat /\ InventedByte <= InventedByte'
      /\ WindowByteSz \in Nat
  BY BytesAssumption DEF InventedByte, BytesAssumption
<1>3. ASSUME NEW m \in acks'
      PROVE  /\ m \in [ack : Nat, msg : Int, bytes : Int] /\ IsAckNum(m.ack)'
             /\ m.bytes <= WindowByteSz + InventedByte'
  <2>1. CASE m \in acks
    <3>1. m \in [ack : Nat, msg : Int, bytes : Int] /\ IsAckNum(m.ack)
          /\ m.bytes <= WindowByteSz + InventedByte
      BY <2>1 DEF AcksAreHonest
    <3>2. IsAckNum(m.ack)'
      BY <1>1, <3>1 DEF IsAckNum
    <3> QED BY <1>2, <3>1, <3>2
  <2>2. CASE m \notin acks
    BY <2>2, <1>3
  <2> QED BY <2>1, <2>2
<1>4. IsAckNum(recvLastFrameClientConsumed)'
  BY DEF AcksAreHonest, IsAckNum
<1>5. flow' \in [msg : Nat, bytes : Nat] /\ flow'.bytes <= WindowByteSz + InventedByte'
  BY <1>2 DEF AcksAreHonest
<1>6. /\ LastSeenAvailReaderMsgCap' \in Int /\ LastSeenAvailReaderBytesCap' \in Int
      /\ LastSeenAvailReaderBytesCap' <= WindowByteSz + InventedByte'
  <2>1. /\ LastSeenAvailReaderMsgCap' = LastSeenAvailReaderMsgCap
        /\ LastSeenAvailReaderBytesCap' = LastSeenAvailReaderBytesCap
    BY DEF flowSeen
  <2>2. /\ LastSeenAvailReaderMsgCap \in Int /\ LastSeenAvailReaderBytesCap \in Int
        /\ LastSeenAvailReaderBytesCap <= WindowByteSz + InventedByte
    BY DEF AcksAreHonest
  <2>3. PICK b \in Int, x \in Nat, y \in Nat :
          b = LastSeenAvailReaderBytesCap /\ x = InventedByte /\ y = InventedByte'
    BY <1>2, <2>2
  <2>4. b <= WindowByteSz + x /\ x <= y
    BY <1>2, <2>2, <2>3
  <2>5. b <= WindowByteSz + y
    BY <1>2, <2>4
  <2> QED BY <2>1, <2>2, <2>3, <2>5
<1> QED BY <1>3, <1>4, <1>5, <1>6 DEF AcksAreHonest

\* An ack as SendAck builds it.
LEMMA SentAckIsHonest ==
  ASSUME NEW k \in Nat, NEW msg \in Int, NEW bytes \in Int, IsAckNum(k)',
         bytes <= WindowByteSz + InventedByte',
         acks' = acks \cup {[ack |-> k, msg |-> msg, bytes |-> bytes]}
  PROVE  \E m \in [ack : Nat, msg : Int, bytes : Int] :
           /\ acks' = acks \cup {m} /\ IsAckNum(m.ack)'
           /\ m.bytes <= WindowByteSz + InventedByte'
<1>1. PICK m \in [ack : Nat, msg : Int, bytes : Int] :
        m = [ack |-> k, msg |-> msg, bytes |-> bytes]
  OBVIOUS
<1>2. m.ack = k /\ m.bytes = bytes /\ acks' = acks \cup {m}
  BY <1>1
<1>3. IsAckNum(m.ack)'
  BY <1>2 DEF IsAckNum
<1> QED BY <1>2, <1>3

\* The last of the frames that become ready together.
LEMMA LastReady ==
  ASSUME NEW n \in Int, NEW S
  PROVE  LET ends == {k \in n..(n + WindowMsgCount - 1) : (n + 1)..k \subseteq S}
             last == CHOOSE k \in ends : \A j \in ends : j <= k
         IN last \in Int /\ last >= n /\ (n + 1)..last \subseteq S
<1> DEFINE top == n + WindowMsgCount - 1
           ends == {k \in n..top : (n + 1)..k \subseteq S}
           T == {top - k : k \in ends}
<1>1. top \in Int /\ n <= top
  BY BytesAssumption DEF BytesAssumption
<1>2. n \in ends
  BY <1>1
<1>3. T \in SUBSET Nat /\ T # {}
  BY <1>1, <1>2
<1>4. PICK t \in T : \A u \in T : t <= u
  <2> HIDE DEF T
  <2> QED BY <1>3, LeastElement
<1>5. \E k \in ends : \A j \in ends : j <= k
  <2>1. PICK k \in ends : t = top - k
    BY <1>4
  <2>2. ASSUME NEW j \in ends
        PROVE  j <= k
    <3>1. top - j \in T /\ j \in Int /\ k \in Int
      OBVIOUS
    <3>2. top - k <= top - j
      BY <1>4, <2>1, <3>1
    <3> QED BY <1>1, <3>1, <3>2
  <2> QED BY <2>2
<1> DEFINE last == CHOOSE k \in ends : \A j \in ends : j <= k
<1>6. last \in ends
  <2> HIDE DEF ends
  <2> QED BY <1>5
<1> HIDE DEF last
<1>7. last \in Int /\ last >= n /\ (n + 1)..last \subseteq S
  BY <1>1, <1>6
<1> QED BY <1>7 DEF last

\* What a packet does to the ready list, the window and the buffer.
LEMMA RecvDataArrives ==
  ASSUME StreamInv, NEW n \in Frames, RecvData(n)
  PROVE  /\ ArrivalsAreCounted'
         /\ Rxq' \subseteq Frames
         /\ ReadyForDelivery # << >> => ReadyForDelivery' # << >>
         /\ LastMsgConsumed + Len(ReadyForDelivery') <= LargestSeqnoRcvd'
<1>1. /\ TypeOK /\ HistoryIsTheWrites /\ ArrivalsAreCounted /\ ReadingIsAtItsMarks
      /\ AcksAreHonest /\ CountPack(n) /\ UNCHANGED <<writerVars, consumeVars>>
  BY DEF StreamInv, RecvData
<1>2. /\ UNCHANGED <<sentVars, got>> /\ SendHistory' = SendHistory
      /\ LastMsgConsumed' = LastMsgConsumed
  BY <1>1 DEF writerVars, consumeVars, sentVars
<1>3. /\ LargestSeqnoRcvd' \in -1..LastFrameSent /\ LargestSeqnoRcvd' \in Int
      /\ n <= LargestSeqnoRcvd' /\ LargestSeqnoRcvd <= LargestSeqnoRcvd'
      /\ MaxCumulBytesTrans' = Cumul(LargestSeqnoRcvd') /\ panicked' = FALSE
  BY <1>1, <1>2, CountPackCounts
<1>4. /\ LastMsgConsumed \in -1..LastFrameSent /\ LargestSeqnoRcvd \in -1..LastFrameSent
      /\ LastFrameSent \in Int /\ n \in Nat /\ Rxq \subseteq Frames /\ Frames \subseteq Nat
      /\ Len(ReadyForDelivery) \in Nat
  BY TypeFacts
<1>5. MaxCumulBytesTrans' = Cumul(LargestSeqnoRcvd)' /\ CumulNeverPanics'
  BY <1>2, <1>3 DEF Cumul, Frame, CumulNeverPanics
<1>6. ASSUME UNCHANGED <<ReadyForDelivery, NextFrameExpected>>, Rxq' = Rxq \/ Rxq' = Rxq \cup {n}
      PROVE  /\ ArrivalsAreCounted'
             /\ Rxq' \subseteq Frames
             /\ ReadyForDelivery # << >> => ReadyForDelivery' # << >>
             /\ LastMsgConsumed + Len(ReadyForDelivery') <= LargestSeqnoRcvd'
  <2>1. \A k \in Rxq' : k <= LargestSeqnoRcvd'
    <3>1. \A k \in Rxq : k <= LargestSeqnoRcvd /\ k \in Int
      BY <1>1, <1>4 DEF ArrivalsAreCounted
    <3>2. ASSUME NEW k \in Rxq'
          PROVE  k <= LargestSeqnoRcvd'
      <4>1. CASE k = n
        BY <1>3, <4>1
      <4>2. CASE k # n
        <5>1. k \in Rxq
          BY <1>6, <4>2
        <5>2. k <= LargestSeqnoRcvd /\ k \in Int
          BY <3>1, <5>1
        <5> QED BY <1>3, <1>4, <5>2
      <4> QED BY <4>1, <4>2
    <3> QED BY <3>2
  <2>2. /\ NextFrameExpected = LastMsgConsumed + Len(ReadyForDelivery) + 1
        /\ NextFrameExpected <= LargestSeqnoRcvd + 1
    BY <1>1 DEF ArrivalsAreCounted
  <2>3. NextFrameExpected' <= LargestSeqnoRcvd' + 1
    BY <1>3, <1>4, <1>6, <2>2
  <2>4. LastMsgConsumed + Len(ReadyForDelivery) <= LargestSeqnoRcvd'
    BY <1>3, <1>4, <2>2
  <2>5. ArrivalsAreCounted'
    BY <1>1, <1>2, <1>5, <1>6, <2>1, <2>2, <2>3 DEF ArrivalsAreCounted
  <2> QED BY <1>4, <1>6, <2>4, <2>5
<1>7. CASE DiscardData(n)
  BY <1>6, <1>7 DEF DiscardData, orderVars
<1>8. CASE BufferData(n)
  BY <1>6, <1>8 DEF BufferData
<1>9. CASE InOrderData(n)
  <2>1. PICK last \in Int :
          /\ last >= n /\ (n + 1)..last \subseteq Rxq
          /\ ReadyForDelivery' = ReadyForDelivery \o [i \in 1..(last - n + 1) |-> n + i - 1]
          /\ NextFrameExpected' = last + 1 /\ Rxq' = Rxq \ (n..last)
          /\ n = NextFrameExpected
    <3> DEFINE ends == {k \in n..(n + WindowMsgCount - 1) : (n + 1)..k \subseteq Rxq}
               last == CHOOSE k \in ends : \A j \in ends : j <= k
    <3>1. last \in Int /\ last >= n /\ (n + 1)..last \subseteq Rxq
      <4>1. n \in Int
        BY <1>4
      <4> QED BY <4>1, LastReady, Zenon
    <3>2. /\ ReadyForDelivery' = ReadyForDelivery \o [i \in 1..(last - n + 1) |-> n + i - 1]
          /\ NextFrameExpected' = last + 1 /\ Rxq' = Rxq \ (n..last)
          /\ n = NextFrameExpected
      BY <1>9 DEF InOrderData
    <3> HIDE DEF last
    <3> QED BY <3>1, <3>2
  <2> DEFINE more == [i \in 1..(last - n + 1) |-> n + i - 1]
             L == Len(ReadyForDelivery)
  <2>2. last \in Nat /\ last - n + 1 \in Nat /\ last - n + 1 >= 1
    BY <1>4, <2>1
  <2>3. last <= LargestSeqnoRcvd'
    <3>1. CASE last = n
      BY <1>3, <3>1
    <3>2. CASE last # n
      <4>1. last \in Rxq
        BY <1>4, <2>1, <3>2
      <4>2. last <= LargestSeqnoRcvd
        BY <1>1, <4>1 DEF ArrivalsAreCounted
      <4> QED BY <1>3, <1>4, <2>2, <4>2
    <3> QED BY <3>1, <3>2
  <2>4. more \in Seq(Nat) /\ Len(more) = last - n + 1 /\ \A i \in 1..Len(more) : more[i] = n + i - 1
    BY <1>4, <2>2
  <2> HIDE DEF more
  <2>5. /\ ReadyForDelivery' = ReadyForDelivery \o more /\ ReadyForDelivery \in Seq(Nat)
        /\ \A i \in 1..L : ReadyForDelivery[i] = LastMsgConsumed + i
        /\ n = LastMsgConsumed + L + 1
    BY <1>1, <2>1 DEF ArrivalsAreCounted, more
  <2>6. /\ ReadyForDelivery' \in Seq(Nat) /\ Len(ReadyForDelivery') = L + Len(more)
        /\ \A i \in 1..L : ReadyForDelivery'[i] = ReadyForDelivery[i]
        /\ \A i \in 1..Len(more) : ReadyForDelivery'[L + i] = more[i]
    <3>1. PICK s \in Seq(Nat), t \in Seq(Nat) : s = ReadyForDelivery /\ t = more
      BY <2>4, <2>5
    <3>2. /\ s \o t \in Seq(Nat) /\ Len(s \o t) = Len(s) + Len(t)
          /\ \A i \in 1..Len(s) : (s \o t)[i] = s[i]
          /\ \A i \in 1..Len(t) : (s \o t)[Len(s) + i] = t[i]
      BY Joining
    <3>3. ReadyForDelivery' = s \o t /\ L = Len(s)
      BY <2>5, <3>1
    <3> HIDE DEF L
    <3> QED BY <3>1, <3>2, <3>3
  <2>7. ASSUME NEW i \in 1..Len(ReadyForDelivery')
        PROVE  ReadyForDelivery'[i] = LastMsgConsumed + i
    <3>1. CASE i <= L
      BY <1>4, <2>5, <2>6, <3>1
    <3>2. CASE i > L
      <4>1. PICK j \in 1..Len(more) : i = L + j
        <5>1. i - L \in 1..Len(more) /\ i = L + (i - L)
          BY <1>4, <2>2, <2>4, <2>6, <3>2
        <5> QED BY <5>1
      <4>2. ReadyForDelivery'[i] = n + j - 1
        BY <2>4, <2>6, <4>1
      <4> QED BY <1>4, <2>2, <2>4, <2>5, <4>1, <4>2
    <3> QED BY <1>4, <3>1, <3>2
  <2>8. /\ NextFrameExpected' = LastMsgConsumed + Len(ReadyForDelivery') + 1
        /\ NextFrameExpected' <= LargestSeqnoRcvd' + 1
        /\ LastMsgConsumed + Len(ReadyForDelivery') <= LargestSeqnoRcvd'
    <3>1. PICK len \in Nat : len = Len(ReadyForDelivery')
      BY <2>6
    <3>2. len = L + (last - n + 1)
      BY <2>4, <2>6, <3>1
    <3>3. LastMsgConsumed + len = last
      BY <1>4, <2>2, <2>5, <3>2
    <3>4. NextFrameExpected' = last + 1
      BY <2>1
    <3>5. NextFrameExpected' = LastMsgConsumed + len + 1
      BY <1>4, <2>2, <3>3, <3>4
    <3>6. PICK top \in Int : top = LargestSeqnoRcvd'
      BY <1>3
    <3>8. last <= top
      BY <2>3, <3>6
    <3>7. last + 1 <= top + 1
      BY <3>8
    <3> QED BY <2>3, <3>1, <3>3, <3>4, <3>5, <3>6, <3>7
  <2>9. \A k \in Rxq' : k <= LargestSeqnoRcvd'
    <3>1. \A k \in Rxq : k <= LargestSeqnoRcvd /\ k \in Int
      BY <1>1, <1>4 DEF ArrivalsAreCounted
    <3> QED BY <1>3, <1>4, <2>1, <3>1
  <2>10. ArrivalsAreCounted'
    BY <1>2, <1>5, <2>6, <2>7, <2>8, <2>9 DEF ArrivalsAreCounted
  <2>11. ReadyForDelivery' # << >>
    BY <1>4, <2>2, <2>4, <2>6
  <2> QED BY <1>4, <2>1, <2>8, <2>10, <2>11
<1> QED BY <1>7, <1>8, <1>9 DEF RecvData

LEMMA RecvDataKeeps ==
  ASSUME StreamInv, NEW n \in Frames, RecvData(n)
  PROVE  StreamInv'
<1>1. /\ TypeOK /\ HistoryIsTheWrites /\ ArrivalsAreCounted /\ ReadingIsAtItsMarks
      /\ AcksAreHonest /\ CreditsAreEarned
      /\ CountPack(n) /\ UNCHANGED <<writerVars, consumeVars>>
  BY DEF StreamInv, RecvData
<1>2. /\ UNCHANGED <<sentVars, got, write, pushed, senderDone, creditVars, SentButNotAcked, result,
                     flowSeen, consumeVars>>
      /\ SendHistory' = SendHistory /\ TotalBytesSent' = TotalBytesSent
      /\ LastMsgConsumed' = LastMsgConsumed /\ LastByteConsumed' = LastByteConsumed
      /\ LastFrameClientConsumed' = LastFrameClientConsumed
  BY <1>1 DEF writerVars, consumeVars, sentVars, appVars
<1>3. /\ LargestSeqnoRcvd' \in -1..LastFrameSent /\ LargestSeqnoRcvd' \in Int
      /\ LargestSeqnoRcvd <= LargestSeqnoRcvd'
      /\ MaxCumulBytesTrans' \in 0..TotalBytesSent /\ panicked' = FALSE
      /\ flow' \in [msg : Nat, bytes : Nat]
      /\ flow'.msg \in 0..WindowMsgCount /\ flow'.bytes <= WindowByteSz + InventedByte
      /\ flow'.bytes \in 0..(WindowByteSz + 1)
      /\ LastByteConsumed + 1 - MaxCumulBytesTrans' <= InventedByte
  BY <1>1, <1>2, CountPackCounts
<1>4. /\ ArrivalsAreCounted' /\ Rxq' \subseteq Frames
      /\ ReadyForDelivery # << >> => ReadyForDelivery' # << >>
      /\ LastMsgConsumed + Len(ReadyForDelivery') <= LargestSeqnoRcvd'
  BY RecvDataArrives
<1>5. /\ LastFrameSent \in Int /\ LastFrameSent' = LastFrameSent /\ Frames' = Frames
      /\ LastMsgConsumed \in -1..LastFrameSent /\ LargestSeqnoRcvd \in -1..LastFrameSent
  BY <1>2, TypeFacts, SameHistory
<1>6. OldFramesStay
  BY <1>1, <1>2, FramesStay
<1>7. HistoryIsTheWrites'
  BY <1>1, <1>2, HistoryStands
<1>8. ReadingIsAtItsMarks'
  BY <1>1, <1>2, <1>4, <1>6, ReadingStands
<1>9. CreditsAreEarned'
  <2>1. LastMsgConsumed' \in Int /\ LastMsgConsumed' >= LastMsgConsumed
    BY <1>2, <1>5
  <2>2. got # << >> => got' # << >>
    BY <1>2
  <2> QED BY <1>1, <1>2, <2>1, <2>2, CreditsStand
<1>10. AcksAreHonest'
  <2>1. LastMsgConsumed <= LargestSeqnoRcvd /\ LastByteConsumed \in Int /\ InventedByte \in {0, 1}
    BY <1>1, ReadIsCounted
  <2>2. InventedByte' = InventedByte
    BY <1>2 DEF InventedByte
  <2>3. IsAckNum(LastFrameClientConsumed)' /\ LastFrameClientConsumed \in Nat
    BY <1>1, <1>2, <1>5 DEF IsAckNum, ReadingIsAtItsMarks
  <2>4. \/ acks' = acks
        \/ \E m \in [ack : Nat, msg : Int, bytes : Int] :
             /\ acks' = acks \cup {m} /\ IsAckNum(m.ack)'
             /\ m.bytes <= WindowByteSz + InventedByte'
    <3>1. PICK largest \in Int, maxCumul \in Int, x \in {0, 1}, mc \in Int, bc \in Int :
            /\ largest = LargestSeqnoRcvd' /\ maxCumul = MaxCumulBytesTrans' /\ x = InventedByte
            /\ mc = LastMsgConsumed /\ bc = LastByteConsumed
      BY <1>3, <1>5, <2>1
    <3>2. mc <= largest /\ bc + 1 - maxCumul <= x
      <4>1. PICK old \in Int : old = LargestSeqnoRcvd
        BY <1>5
      <4>2. mc <= old /\ old <= largest
        BY <1>3, <2>1, <3>1, <4>1
      <4>3. LastByteConsumed + 1 - MaxCumulBytesTrans' <= InventedByte
        BY <1>3
      <4>4. bc + 1 - maxCumul <= x
        BY <3>1, <4>3
      <4>5. mc <= largest
        BY <4>1, <4>2
      <4> QED BY <4>4, <4>5
    <3>3. /\ MsgCap(largest, mc) \in Int /\ BytesCap(maxCumul, bc) \in Int
          /\ BytesCap(maxCumul, bc) <= WindowByteSz + x
      BY <3>2, CapsAreBounded
    <3>4. PICK cap \in Int, bcap \in Int, k \in Nat :
            /\ cap = MsgCap(largest, mc) /\ bcap = BytesCap(maxCumul, bc)
            /\ k = LastFrameClientConsumed
      BY <2>3, <3>3
    <3>5. \/ acks' = acks
          \/ acks' = acks \cup {[ack |-> k, msg |-> cap, bytes |-> bcap]}
      <4>1. DiscardData(n) \/ BufferData(n) \/ InOrderData(n)
        BY DEF RecvData
      <4> QED BY <4>1, <3>1, <3>4 DEF DiscardData, BufferData, InOrderData, SendAck
    <3>6. IsAckNum(k)' /\ bcap <= WindowByteSz + InventedByte'
      BY <1>2, <2>2, <2>3, <3>1, <3>3, <3>4 DEF IsAckNum
    <3> QED BY <3>5, <3>6, SentAckIsHonest
  <2>5. recvLastFrameClientConsumed' = recvLastFrameClientConsumed
          \/ IsAckNum(recvLastFrameClientConsumed)'
    <3>1. \/ recvLastFrameClientConsumed' = recvLastFrameClientConsumed
          \/ recvLastFrameClientConsumed' = LastFrameClientConsumed
      BY DEF RecvData, DiscardData, BufferData, InOrderData
    <3> QED BY <1>2, <2>3, <3>1 DEF IsAckNum
  <2>6. flow' \in [msg : Nat, bytes : Nat] /\ flow'.bytes <= WindowByteSz + InventedByte'
    BY <1>3, <2>2
  <2>7. /\ LastMsgConsumed \in Int /\ LastMsgConsumed' \in Int
        /\ LastMsgConsumed <= LastMsgConsumed'
    BY <1>2, <1>5
  <2> QED BY <1>1, <1>2, <2>4, <2>5, <2>6, <2>7, AcksStayHonest
<1>11. TypeOK'
  <2>1. Range(ReadyForDelivery') \subseteq 0..LastFrameSent
    <3>1. PICK s \in Seq(Nat) : s = ReadyForDelivery'
      BY <1>4 DEF ArrivalsAreCounted
    <3>2. /\ LastMsgConsumed \in Int /\ LastMsgConsumed >= -1
          /\ LastMsgConsumed + Len(s) <= LastFrameSent
      BY <1>3, <1>4, <1>5, <3>1
    <3>3. \A i \in 1..Len(s) : s[i] = LastMsgConsumed + i
      BY <1>2, <1>4, <3>1 DEF ArrivalsAreCounted
    <3> QED BY <1>5, <3>1, <3>2, <3>3, RunsOfFrames
  <2>2. panicked' \in BOOLEAN
    BY <1>3
  <2> QED BY <1>1, <1>2, <1>3, <1>4, <1>5, <2>1, <2>2
          DEF TypeOK, Frames, creditVars, consumeVars, Sz, Min2
<1> QED BY <1>4, <1>7, <1>8, <1>9, <1>10, <1>11 DEF StreamInv

LEMMA RecvKeepAliveKeeps ==
  ASSUME StreamInv, RecvKeepAlive
  PROVE  StreamInv'
<1>1. /\ TypeOK /\ HistoryIsTheWrites /\ ArrivalsAreCounted /\ ReadingIsAtItsMarks
      /\ AcksAreHonest /\ CreditsAreEarned
  BY DEF StreamInv
<1>2. /\ UNCHANGED <<writerVars, orderVars, ReadyForDelivery, consumeVars, largestVars,
                     recvLastFrameClientConsumed>>
      /\ UNCHANGED <<sentVars, got, write, pushed, senderDone, creditVars, SentButNotAcked, result,
                     flowSeen, SendHistory, LastMsgConsumed>>
      /\ UpdateControl(LargestSeqnoRcvd, MaxCumulBytesTrans, LastMsgConsumed, LastByteConsumed)
      /\ SendAck(LastFrameClientConsumed, LargestSeqnoRcvd, MaxCumulBytesTrans, LastMsgConsumed,
                 LastByteConsumed)
  BY DEF RecvKeepAlive, writerVars, consumeVars, sentVars, appVars
<1>3. /\ LastFrameSent' = LastFrameSent /\ Frames' = Frames /\ OldFramesStay
  BY <1>1, <1>2, SameHistory, FramesStay
<1>4. HistoryIsTheWrites' /\ ArrivalsAreCounted'
  BY <1>1, <1>2, <1>3, HistoryStands, ArrivalsStand
<1>5. ReadingIsAtItsMarks'
  BY <1>1, <1>2, <1>3, ReadingStands
<1>6. LastMsgConsumed \in Int /\ LastMsgConsumed' \in Int /\ LastMsgConsumed' >= LastMsgConsumed
  BY <1>2, TypeFacts
<1>7. CreditsAreEarned'
  BY <1>1, <1>2, <1>6, CreditsStand
<1>8. PICK largest \in Int, maxCumul \in Nat, x \in {0, 1}, m \in Int, b \in Int, k \in Nat :
        /\ largest = LargestSeqnoRcvd /\ maxCumul = MaxCumulBytesTrans /\ x = InventedByte
        /\ m = LastMsgConsumed /\ b = LastByteConsumed /\ k = LastFrameClientConsumed
        /\ m <= largest /\ b + 1 - maxCumul <= x
  <2>1. /\ LastMsgConsumed \in Int /\ LastByteConsumed \in Int /\ InventedByte \in {0, 1}
        /\ LargestSeqnoRcvd \in Int /\ MaxCumulBytesTrans \in Nat
        /\ LastMsgConsumed <= LargestSeqnoRcvd
        /\ LastByteConsumed + 1 - MaxCumulBytesTrans <= InventedByte
    BY <1>1, <1>6, ReadIsCounted
  <2>2. LastFrameClientConsumed \in Nat
    BY <1>1, TypeFacts DEF ReadingIsAtItsMarks
  <2> QED BY <2>1, <2>2
<1>9. /\ MsgCap(largest, m) \in Int /\ BytesCap(maxCumul, b) \in Int
      /\ BytesCap(maxCumul, b) <= WindowByteSz + x
  BY <1>8, CapsAreBounded
<1>10. /\ flow' \in [msg : Nat, bytes : Nat]
       /\ flow'.msg \in 0..WindowMsgCount /\ flow'.bytes <= WindowByteSz + x
       /\ flow'.bytes \in 0..(WindowByteSz + 1)
  <2>1. UpdateControl(largest, maxCumul, m, b) /\ flow.bytes <= WindowByteSz + x
    BY <1>1, <1>2, <1>8 DEF AcksAreHonest
  <2> QED BY <1>1, <1>8, <2>1, FlowIsBounded
<1>11. AcksAreHonest'
  <2>1. InventedByte' = InventedByte
    BY <1>2 DEF InventedByte
  <2>2. PICK cap \in Int, bcap \in Int : cap = MsgCap(largest, m) /\ bcap = BytesCap(maxCumul, b)
    BY <1>9
  <2>3. acks' = acks \cup {[ack |-> k, msg |-> cap, bytes |-> bcap]}
    BY <1>2, <1>8, <2>2 DEF SendAck
  <2>4. IsAckNum(k)' /\ bcap <= WindowByteSz + InventedByte'
    BY <1>1, <1>2, <1>8, <1>9, <2>1, <2>2, TypeFacts DEF IsAckNum, ReadingIsAtItsMarks
  <2>5. flow' \in [msg : Nat, bytes : Nat] /\ flow'.bytes <= WindowByteSz + InventedByte'
    BY <1>8, <1>10, <2>1
  <2>6. \E mm \in [ack : Nat, msg : Int, bytes : Int] :
          /\ acks' = acks \cup {mm} /\ IsAckNum(mm.ack)'
          /\ mm.bytes <= WindowByteSz + InventedByte'
    BY <2>3, <2>4, SentAckIsHonest
  <2> QED BY <1>1, <1>2, <1>6, <2>5, <2>6, AcksStayHonest
<1>12. TypeOK'
  BY <1>1, <1>2, <1>3, <1>10
     DEF TypeOK, writerVars, appVars, creditVars, sentVars, orderVars, consumeVars, largestVars,
         Sz, Min2
<1> QED BY <1>4, <1>5, <1>7, <1>11, <1>12 DEF StreamInv

LEMMA KeepAliveKeeps ==
  ASSUME StreamInv, KeepAlive
  PROVE  StreamInv'
<1>1. /\ TypeOK /\ HistoryIsTheWrites /\ ArrivalsAreCounted /\ ReadingIsAtItsMarks
      /\ AcksAreHonest /\ CreditsAreEarned
  BY DEF StreamInv
<1>2. /\ UNCHANGED <<orderVars, ReadyForDelivery, consumeVars, largestVars, flow,
                     recvLastFrameClientConsumed>>
      /\ UNCHANGED <<sentVars, got, write, pushed, senderDone, creditVars, SentButNotAcked, result,
                     flowSeen, SendHistory, LastMsgConsumed>>
  BY DEF KeepAlive, writerVars, readerVars, consumeVars, sentVars, appVars
<1>3. /\ LastFrameSent' = LastFrameSent /\ Frames' = Frames /\ OldFramesStay
  BY <1>1, <1>2, SameHistory, FramesStay
<1>4. HistoryIsTheWrites' /\ ArrivalsAreCounted'
  BY <1>1, <1>2, <1>3, HistoryStands, ArrivalsStand
<1>5. ReadingIsAtItsMarks'
  BY <1>1, <1>2, <1>3, ReadingStands
<1>6. LastMsgConsumed \in Int /\ LastMsgConsumed' \in Int /\ LastMsgConsumed' >= LastMsgConsumed
  BY <1>2, TypeFacts
<1>7. CreditsAreEarned'
  BY <1>1, <1>2, <1>6, CreditsStand
<1>8. AcksAreHonest'
  <2>1. PICK k \in Nat, cap \in Int, bcap \in Int :
          /\ k = recvLastFrameClientConsumed /\ cap = flow.msg /\ bcap = flow.bytes
          /\ acks' = acks \cup {[ack |-> k, msg |-> cap, bytes |-> bcap]}
    BY <1>1 DEF KeepAlive, AcksAreHonest, IsAckNum
  <2>2. IsAckNum(k)' /\ bcap <= WindowByteSz + InventedByte'
    BY <1>1, <1>2, <2>1 DEF IsAckNum, AcksAreHonest, InventedByte
  <2>3. \E mm \in [ack : Nat, msg : Int, bytes : Int] :
          /\ acks' = acks \cup {mm} /\ IsAckNum(mm.ack)'
          /\ mm.bytes <= WindowByteSz + InventedByte'
    BY <2>1, <2>2, SentAckIsHonest
  <2> QED BY <1>1, <1>2, <1>6, <2>3, AcksStayHonest
<1>9. TypeOK'
  BY <1>1, <1>2, <1>3
     DEF TypeOK, creditVars, sentVars, orderVars, consumeVars, largestVars, Sz, Min2
<1> QED BY <1>4, <1>5, <1>7, <1>8, <1>9 DEF StreamInv

-----------------------------------------------------------------------------
(* The writer's steps. *)

\* What the reader's side keeps when it takes no part in a step.
LEMMA ReaderStands ==
  ASSUME StreamInv, OldFramesStay, UNCHANGED readerVars
  PROVE  /\ ArrivalsAreCounted' /\ ReadingIsAtItsMarks'
         /\ LastMsgConsumed' = LastMsgConsumed /\ got' = got
<1>1. /\ TypeOK /\ HistoryIsTheWrites /\ ArrivalsAreCounted /\ ReadingIsAtItsMarks
  BY DEF StreamInv
<1>2. /\ UNCHANGED <<orderVars, ReadyForDelivery, LastMsgConsumed, largestVars>>
      /\ UNCHANGED <<consumeVars, got>>
  BY DEF readerVars, consumeVars
<1>3. ArrivalsAreCounted' /\ ReadingIsAtItsMarks'
  BY <1>1, <1>2, ArrivalsStand, ReadingStands
<1> QED BY <1>2, <1>3

\* The bytes of a packet, as IsPiece has them.
LEMMA FrameBytes ==
  ASSUME HistoryIsTheWrites, NEW n \in Frames
  PROVE  LET first == Frame(n).data[1][2]
             wn == Frame(n).write
         IN /\ first \in Nat /\ wn \in Nat
            /\ Frame(n).data[1] = ByteAfter(n - 1) /\ Frame(n).data[1] = <<wn, first>>
            /\ LastByte(n) = <<wn, first + Size(n) - 1>>
            /\ \A j \in 1..Size(n) : Frame(n).data[j] = <<wn, first + j - 1>>
            /\ first + Size(n) - 1 <= Writes[wn]
            /\ Frame(n).last => first = (Npack(Writes[wn]) - 1) * Sz + 1
<1> DEFINE first == Frame(n).data[1][2]
           wn == Frame(n).write
<1>1. /\ Size(n) \in Nat /\ Size(n) >= 1 /\ Size(n) = Len(Frame(n).data)
      /\ Frame(n).data \in Seq(Nat \X Nat) /\ wn \in Nat
  BY FrameFacts DEF Size
<1>2. /\ Frame(n).data[1] = ByteAfter(n - 1)
      /\ \A j \in 1..Size(n) : Frame(n).data[j] = <<wn, first + j - 1>>
      /\ first + Size(n) - 1 <= Writes[wn]
      /\ Frame(n).last => first = (Npack(Writes[wn]) - 1) * Sz + 1
  BY DEF HistoryIsTheWrites, IsPiece
<1>3. Frame(n).data[1] \in Nat \X Nat /\ 1 \in 1..Size(n) /\ Size(n) \in 1..Size(n)
  BY <1>1
<1>4. first \in Nat
  BY <1>3
<1> HIDE DEF first, wn
<1>5. Frame(n).data[1] = <<wn, first + 1 - 1>>
  BY <1>2, <1>3
<1>6. first + 1 - 1 = first
  BY <1>4
<1>7. LastByte(n) = <<wn, first + Size(n) - 1>>
  BY <1>2, <1>3 DEF LastByte
<1> QED BY <1>1, <1>2, <1>4, <1>5, <1>6, <1>7 DEF first, wn

\* Frame n adds its bytes to the credit of its Write.
LEMMA CreditOfGrows ==
  ASSUME HistoryIsTheWrites, NEW n \in Frames, NEW w \in 1..Len(Writes)
  PROVE  /\ CreditOf(w, n) \in 0..Writes[w] /\ CreditOf(w, n - 1) \in 0..Writes[w]
         /\ CreditOf(w, n) = CreditOf(w, n - 1) + (IF w = Frame(n).write THEN Size(n) ELSE 0)
         /\ w = Frame(n).write /\ Frame(n).last => CreditOf(w, n - 1) = AllButLastPiece(w)
<1> DEFINE first == Frame(n).data[1][2]
           wn == Frame(n).write
<1>1. n \in Nat /\ (n # 0 => n - 1 \in Frames)
  BY DEF Frames, HistoryIsTheWrites, LastFrameSent
<1>2. /\ wn \in 1..Len(Writes) /\ Size(n) \in Nat /\ Size(n) >= 1
      /\ Frame(n).data \in Seq(Nat \X Nat)
  BY FrameFacts
<1>3. Writes[w] \in Nat /\ Writes[w] >= 1 /\ Writes[wn] \in Nat
  BY <1>2, BytesAssumption DEF BytesAssumption
<1>4. /\ Frame(n).data[1] = ByteAfter(n - 1)
      /\ Frame(n).data[1] = <<wn, first>>
      /\ LastByte(n) = <<wn, first + Size(n) - 1>>
      /\ first + Size(n) - 1 <= Writes[wn] /\ first \in Nat
      /\ Frame(n).last => first = (Npack(Writes[wn]) - 1) * Sz + 1
  BY FrameBytes
<1> HIDE DEF first
<1>5. /\ CreditOf(w, n) = IF w > wn THEN 0 ELSE IF w = wn THEN first + Size(n) - 1 ELSE Writes[w]
  <2>1. n # -1 /\ LastByte(n)[1] = wn /\ LastByte(n)[2] = first + Size(n) - 1
    BY <1>1, <1>4
  <2> QED BY <2>1 DEF CreditOf
<1>6. w = wn /\ Frame(n).last => first - 1 = AllButLastPiece(w)
  <2>1. ASSUME w = wn, Frame(n).last
        PROVE  first - 1 = AllButLastPiece(w)
    <3>1. first = AllButLastPiece(w) + 1
      BY <1>4, <2>1 DEF AllButLastPiece
    <3>2. Npack(Writes[w]) \in Nat /\ Sz \in Nat
      BY <1>3, PacketIsNeeded, SzIsPositive
    <3>3. AllButLastPiece(w) \in Int
      BY <3>2 DEF AllButLastPiece
    <3> QED BY <3>1, <3>3
  <2> QED BY <2>1
<1>7. CASE n = 0
  <2>1. wn = 1 /\ first = 1
    BY <1>4, <1>7 DEF ByteAfter
  <2>2. CreditOf(w, n - 1) = 0
    BY <1>7 DEF CreditOf
  <2> QED BY <1>2, <1>3, <1>4, <1>5, <1>6, <2>1, <2>2
<1>8. CASE n # 0
  <2> DEFINE wb == Frame(n - 1).write
             jb == Frame(n - 1).data[1][2] + Size(n - 1) - 1
  <2>1. n - 1 \in Frames /\ wb \in 1..Len(Writes) /\ Writes[wb] \in Nat
    BY <1>1, <1>8, FrameFacts
  <2>2. LastByte(n - 1) = <<wb, jb>> /\ jb \in Nat /\ jb <= Writes[wb] /\ jb >= 0
    <3>1. Size(n - 1) \in Nat /\ Size(n - 1) >= 1
      BY <2>1, FrameFacts
    <3>2. /\ LastByte(n - 1) = <<wb, jb>> /\ Frame(n - 1).data[1][2] \in Nat
          /\ jb <= Writes[wb]
      BY <2>1, FrameBytes
    <3> QED BY <3>1, <3>2
  <2> HIDE DEF wb, jb
  <2>3. CreditOf(w, n - 1) = IF w > wb THEN 0 ELSE IF w = wb THEN jb ELSE Writes[w]
    <3>1. n - 1 # -1
      BY <1>1, <1>8
    <3> QED BY <2>2, <3>1 DEF CreditOf
  <2>4. <<wn, first>> = IF jb < Writes[wb] THEN <<wb, jb + 1>> ELSE <<wb + 1, 1>>
    <3>1. n - 1 # -1
      BY <1>1, <1>8
    <3> QED BY <1>4, <2>2, <3>1 DEF ByteAfter, NextByte
  <2>5. CASE jb < Writes[wb]
    <3>1. wn = wb /\ first = jb + 1
      BY <2>4, <2>5
    <3>2. /\ CreditOf(w, n) \in 0..Writes[w] /\ CreditOf(w, n - 1) \in 0..Writes[w]
          /\ w = wn => CreditOf(w, n - 1) = first - 1
          /\ CreditOf(w, n) = CreditOf(w, n - 1) + (IF w = wn THEN Size(n) ELSE 0)
      <4> HIDE DEF wn
      <4>1. PICK size \in Nat : size = Size(n) /\ size >= 1
        BY <1>2
      <4>2. CASE w > wn
        BY <1>3, <1>4, <1>5, <2>1, <2>2, <2>3, <3>1, <4>1, <4>2, SMTT(30)
      <4>3. CASE w = wn
        <5>1. /\ CreditOf(w, n - 1) = jb /\ jb = first - 1
              /\ Writes[w] = Writes[wb]
          BY <2>2, <2>3, <3>1, <4>3
        <5> QED BY <1>3, <1>4, <1>5, <2>1, <2>2, <3>1, <4>1, <4>3, <5>1
      <4>4. CASE w < wn
        <5>1. ~(w > wn) /\ w # wn /\ ~(w > wb) /\ w # wb
          BY <1>2, <3>1, <4>4
        <5>2. CreditOf(w, n) = Writes[w] /\ CreditOf(w, n - 1) = Writes[w]
          BY <1>5, <2>3, <5>1
        <5> QED BY <1>3, <5>1, <5>2
      <4> QED BY <1>2, <4>2, <4>3, <4>4
    <3> QED BY <1>6, <3>2
  <2>6. CASE ~(jb < Writes[wb])
    <3>1. wn = wb + 1 /\ first = 1 /\ jb = Writes[wb]
      BY <2>1, <2>2, <2>4, <2>6
    <3>2. /\ CreditOf(w, n) \in 0..Writes[w] /\ CreditOf(w, n - 1) \in 0..Writes[w]
          /\ w = wn => CreditOf(w, n - 1) = first - 1
          /\ CreditOf(w, n) = CreditOf(w, n - 1) + (IF w = wn THEN Size(n) ELSE 0)
      <4> HIDE DEF wn
      <4>1. PICK size \in Nat : size = Size(n) /\ size >= 1
        BY <1>2
      <4>2. CASE w > wn
        <5>1. w > wb /\ w # wn
          BY <2>1, <3>1, <4>2
        <5>2. CreditOf(w, n) = 0 /\ CreditOf(w, n - 1) = 0
          BY <1>5, <2>3, <4>2, <5>1
        <5> QED BY <1>3, <5>1, <5>2
      <4>3. CASE w = wn
        BY <1>3, <1>4, <1>5, <2>1, <2>2, <2>3, <3>1, <4>1, <4>3
      <4>4. CASE w < wn
        <5>1. ~(w > wn) /\ w # wn /\ ~(w > wb)
          BY <1>2, <2>1, <3>1, <4>4
        <5>2. CreditOf(w, n) = Writes[w]
          BY <1>5, <5>1
        <5>3. CreditOf(w, n - 1) = Writes[w]
          BY <2>3, <3>1, <5>1
        <5> QED BY <1>3, <5>1, <5>2, <5>3
      <4> QED BY <1>2, <4>2, <4>3, <4>4
    <3> QED BY <1>6, <3>2
  <2> QED BY <2>5, <2>6
<1> QED BY <1>7, <1>8

\* The frames acknowledged and credited, as witnesses that do not depend on a state.
LEMMA CreditedFrames ==
  ASSUME StreamInv
  PROVE  \E a \in Int, c \in Int :
           /\ Credited(a, c) /\ -1 <= c /\ c <= a /\ a <= LastFrameSent
           /\ a \in -1..LastFrameSent /\ c \in -1..LastFrameSent /\ c \in -1..a
<1>1. PICK a \in -1..LastFrameSent : \E c \in -1..a : Credited(a, c)
  BY DEF StreamInv, CreditsAreEarned
<1>2. PICK c \in -1..a : Credited(a, c)
  BY <1>1
<1>3. LastFrameSent \in Int
  BY TypeFacts
<1> QED BY <1>2, <1>3

LEMMA SameCredit ==
  ASSUME StreamInv, NEW a \in Int, NEW c \in Int, a \in -1..LastFrameSent, c \in -1..LastFrameSent,
         Credited(a, c),
         UNCHANGED <<sentVars, LastMsgConsumed, got>>
  PROVE  /\ LastFrameSent' = LastFrameSent /\ Frames' = Frames /\ OldFramesStay
         /\ Cumul(a)' = Cumul(a) /\ InventedByte' = InventedByte
         /\ TotalBytesSent' < WindowByteSz + Sz + Cumul(a)' + InventedByte'
         /\ \A w : CreditOf(w, c)' = CreditOf(w, c)
         /\ \A w : AllButLastPiece(w)' = AllButLastPiece(w)
<1>1. UNCHANGED SendHistory /\ TypeOK /\ HistoryIsTheWrites /\ TotalBytesSent' = TotalBytesSent
  BY DEF sentVars, StreamInv
<1>2. OldFramesStay /\ LastFrameSent' = LastFrameSent /\ Frames' = Frames
  BY <1>1, FramesStay, SameHistory
<1>3. Cumul(a)' = Cumul(a) /\ InventedByte' = InventedByte
  BY <1>2 DEF OldFramesStay, InventedByte
<1>4. \A w : CreditOf(w, c)' = CreditOf(w, c)
  BY <1>2, CreditOfStays
<1>5. TotalBytesSent' < WindowByteSz + Sz + Cumul(a)' + InventedByte'
  <2>1. TotalBytesSent < WindowByteSz + Sz + Cumul(a) + InventedByte
    BY DEF Credited
  <2> QED BY <1>1, <1>3, <2>1 DEF Sz
<1> QED BY <1>2, <1>3, <1>4, <1>5 DEF AllButLastPiece, Npack, Sz

LEMMA GotPackKeeps ==
  ASSUME StreamInv, NEW m \in acks, GotPack(m)
  PROVE  StreamInv'
<1>1. /\ TypeOK /\ HistoryIsTheWrites /\ ArrivalsAreCounted /\ ReadingIsAtItsMarks
      /\ AcksAreHonest /\ CreditsAreEarned
  BY DEF StreamInv
<1>2. /\ UNCHANGED <<appVars, NumBytesAcked, cliAcked, sentVars, senderDone, acks, readerVars>>
      /\ UNCHANGED <<write, pushed, result, SendHistory, LastMsgConsumed, got, flow,
                     recvLastFrameClientConsumed>>
      /\ crediting = {} /\ told' = FALSE
      /\ crediting' = {n \in SentButNotAcked : n <= m.ack}
      /\ SentButNotAcked' = SentButNotAcked \ crediting'
      /\ LastSeenAvailReaderMsgCap' = m.msg /\ LastSeenAvailReaderBytesCap' = m.bytes
  BY DEF GotPack, readerVars, consumeVars, sentVars, appVars
<1>3. PICK a \in Int, c \in Int :
        /\ Credited(a, c) /\ -1 <= c /\ c <= a /\ a <= LastFrameSent
        /\ a \in -1..LastFrameSent /\ c \in -1..LastFrameSent /\ c \in -1..a
  BY CreditedFrames
<1>4. /\ LastFrameSent' = LastFrameSent /\ Frames' = Frames /\ OldFramesStay
      /\ InventedByte' = InventedByte
      /\ \A w : CreditOf(w, c)' = CreditOf(w, c)
      /\ \A w : AllButLastPiece(w)' = AllButLastPiece(w)
      /\ LastFrameSent \in Int
  BY <1>2, <1>3, SameCredit, TypeFacts
<1>5. HistoryIsTheWrites'
  BY <1>1, <1>2, HistoryStands
<1>6. ArrivalsAreCounted' /\ ReadingIsAtItsMarks'
  BY <1>2, <1>4, ReaderStands
<1>7. m \in [ack : Nat, msg : Int, bytes : Int] /\ IsAckNum(m.ack)
      /\ m.bytes <= WindowByteSz + InventedByte
  BY <1>1 DEF AcksAreHonest
<1>8. AcksAreHonest'
  <2>1. LastSeenAvailReaderMsgCap' \in Int /\ LastSeenAvailReaderBytesCap' \in Int
        /\ LastSeenAvailReaderBytesCap' <= WindowByteSz + InventedByte'
    BY <1>2, <1>4, <1>7
  <2> QED BY <1>1, <1>2, <1>4, <2>1 DEF AcksAreHonest, IsAckNum
<1>9. SentButNotAcked = (a + 1)..LastFrameSent /\ c = a
      /\ (a > 0 => a <= LastMsgConsumed)
  <2>1. (c + 1)..a = {}
    BY <1>2, <1>3 DEF Credited
  <2>2. c = a
    BY <1>3, <2>1
  <2> QED BY <1>3, <2>2 DEF Credited
<1>10. PICK k \in Nat : k = m.ack
  BY <1>7
<1>11. k > 0 => k <= LastMsgConsumed /\ k <= LastFrameSent
  <2>1. LastMsgConsumed \in Int /\ LastMsgConsumed <= LastFrameSent
    BY TypeFacts
  <2> QED BY <1>4, <1>7, <1>10, <2>1 DEF IsAckNum
<1>12. PICK b \in Int : /\ b \in a..LastFrameSent /\ b \in -1..LastFrameSent
                        /\ SentButNotAcked' = (b + 1)..LastFrameSent /\ crediting' = (a + 1)..b
                        /\ (b > 0 => b <= LastMsgConsumed)
  <2>1. CASE k <= a \/ k > LastFrameSent
    <3>1. crediting' = {}
      BY <1>2, <1>3, <1>4, <1>9, <1>10, <1>11, <2>1
    <3>2. SentButNotAcked' = (a + 1)..LastFrameSent /\ crediting' = (a + 1)..a
      BY <1>2, <1>3, <1>9, <3>1
    <3> QED BY <1>3, <1>4, <1>9, <3>2
  <2>2. CASE k > a /\ k <= LastFrameSent
    <3>1. crediting' = (a + 1)..k
      BY <1>2, <1>3, <1>4, <1>9, <1>10, <2>2
    <3>2. SentButNotAcked' = (k + 1)..LastFrameSent
      BY <1>2, <1>3, <1>4, <1>9, <2>2, <3>1
    <3> QED BY <1>3, <1>4, <1>11, <2>2, <3>1, <3>2
  <2> QED BY <1>3, <1>4, <2>1, <2>2
<1>13. Credited(b, a)'
  <2>1. Cumul(a) \in Nat /\ Cumul(b) \in Nat /\ Cumul(a) <= Cumul(b) /\ TotalBytesSent \in Nat
    <3>1. \A x \in -1..LastFrameSent : x <= b => Cumul(x) \in Nat /\ Cumul(x) <= Cumul(b)
      BY <1>1, <1>12, CumulFacts
    <3>2. Cumul(b) \in Nat /\ TotalBytesSent \in Nat
      BY <1>1, <1>12, CumulFacts
    <3> QED BY <1>3, <1>4, <1>12, <3>1, <3>2
  <2>2. TotalBytesSent < WindowByteSz + Sz + Cumul(b) + InventedByte
    <3>1. TotalBytesSent < WindowByteSz + Sz + Cumul(a) + InventedByte
      BY <1>3 DEF Credited
    <3>2. WindowByteSz \in Nat /\ Sz \in Nat /\ InventedByte \in Nat
      BY BytesAssumption, SzIsPositive DEF BytesAssumption, InventedByte
    <3> QED BY <2>1, <3>1, <3>2
  <2>3. TotalBytesSent' < WindowByteSz + Sz + Cumul(b)' + InventedByte'
    <3>1. Cumul(b)' = Cumul(b) /\ TotalBytesSent' = TotalBytesSent
      BY <1>2, <1>4, <1>12 DEF OldFramesStay, sentVars
    <3> QED BY <1>4, <2>2, <3>1
  <2>4. \A w \in 1..Len(Writes) : NumBytesAcked'[w] = CreditOf(w, a)'
    BY <1>2, <1>3, <1>4, <1>9 DEF Credited
  <2>5. b > 0 => b <= LastMsgConsumed'
    BY <1>2, <1>12
  <2> QED BY <1>4, <1>12, <2>3, <2>4, <2>5 DEF Credited, Sz
<1>14. CreditsAreEarned'
  <2>1. \E x \in -1..LastFrameSent' : \E y \in -1..x : Credited(x, y)'
    BY <1>3, <1>4, <1>12, <1>13
  <2> QED BY <1>1, <1>2, <1>4, <2>1
          DEF CreditsAreEarned, AckedWriteMissesAtMostLastPiece, Npack, Sz
<1>15. TypeOK'
  <2>1. SentButNotAcked' \subseteq Frames /\ crediting' \subseteq Frames
    BY <1>1, <1>2 DEF TypeOK
  <2>2. /\ UNCHANGED <<Rxq, ReadyForDelivery, MaxCumulBytesTrans, DataOffset, LastByteConsumed,
                       LargestSeqnoRcvd, panicked, TotalBytesSent>>
    BY <1>2 DEF readerVars, orderVars, consumeVars, largestVars, sentVars
  <2> QED BY <1>1, <1>2, <1>4, <2>1, <2>2 DEF TypeOK, Sz, Min2
<1> QED BY <1>5, <1>6, <1>8, <1>14, <1>15 DEF StreamInv

\* The steps in which the writer's side touches neither the history nor the acks.
LEMMA WriterOnly ==
  ASSUME StreamInv, UNCHANGED <<sentVars, SentButNotAcked, flowSeen, acks, readerVars>>,
         \/ PushGivesUp
         \/ \E by \in {"ack", "timeout", "done"} : WriteReturns(by)
         \/ SenderEnds
         \/ UNCHANGED <<write, pushed, senderDone>>
  PROVE  /\ HistoryIsTheWrites' /\ ArrivalsAreCounted' /\ ReadingIsAtItsMarks' /\ AcksAreHonest'
         /\ UNCHANGED <<LastMsgConsumed, got, TotalBytesSent>>
         /\ LastFrameSent' = LastFrameSent /\ Frames' = Frames
         /\ \A w \in 1..(Len(Writes) + 1) : \A k \in Nat :
              /\ \A x \in 1..Len(Writes) : NumBytesAcked'[x] \in 0..Writes[x]
              /\ write' = w /\ pushed' = k
              /\ cliAcked' \subseteq 1..Len(Writes) /\ crediting' \subseteq Frames
              /\ told' \in BOOLEAN /\ senderDone' \in BOOLEAN
              => TypeOK'
<1>1. /\ TypeOK /\ HistoryIsTheWrites /\ ArrivalsAreCounted /\ ReadingIsAtItsMarks
      /\ AcksAreHonest
  BY DEF StreamInv
<1>2. /\ UNCHANGED <<SendHistory, TotalBytesSent, acks, flow, flowSeen,
                     recvLastFrameClientConsumed>>
      /\ UNCHANGED <<Rxq, ReadyForDelivery, MaxCumulBytesTrans, DataOffset, LastByteConsumed,
                     LastMsgConsumed, LargestSeqnoRcvd, panicked, got>>
  BY DEF sentVars, readerVars, orderVars, consumeVars, largestVars
<1>3. OldFramesStay /\ LastFrameSent' = LastFrameSent /\ Frames' = Frames
  BY <1>1, <1>2, FramesStay, SameHistory
<1>4. HistoryIsTheWrites'
  BY <1>1, HistoryStands
<1>5. ArrivalsAreCounted' /\ ReadingIsAtItsMarks'
  BY <1>3, ReaderStands
<1>6. AcksAreHonest'
  BY <1>1, <1>2, AcksStand
<1>7. ASSUME NEW w \in 1..(Len(Writes) + 1), NEW k \in Nat,
             \A x \in 1..Len(Writes) : NumBytesAcked'[x] \in 0..Writes[x],
             write' = w, pushed' = k, cliAcked' \subseteq 1..Len(Writes),
             crediting' \subseteq Frames, told' \in BOOLEAN, senderDone' \in BOOLEAN
      PROVE  TypeOK'
  BY <1>1, <1>2, <1>3, <1>7 DEF TypeOK, Sz, Min2
<1> QED BY <1>2, <1>3, <1>4, <1>5, <1>6, <1>7

LEMMA SenderEndsKeeps ==
  ASSUME StreamInv, SenderEnds
  PROVE  StreamInv'
<1>1. TypeOK /\ HistoryIsTheWrites /\ CreditsAreEarned
  BY DEF StreamInv
<1>2. /\ UNCHANGED <<sentVars, SentButNotAcked, flowSeen, acks, readerVars>>
      /\ UNCHANGED <<creditVars, result, write, pushed, NumBytesAcked, cliAcked, crediting, told>>
      /\ senderDone' = TRUE
  BY DEF SenderEnds, appVars, creditVars
<1>3. /\ HistoryIsTheWrites' /\ ArrivalsAreCounted' /\ ReadingIsAtItsMarks' /\ AcksAreHonest'
      /\ UNCHANGED <<LastMsgConsumed, got>>
  BY <1>2, WriterOnly
<1>4. TypeOK'
  <2>1. PICK w \in 1..(Len(Writes) + 1), k \in Nat : write = w /\ pushed = k
    BY <1>1 DEF TypeOK
  <2>2. \A x \in 1..Len(Writes) : NumBytesAcked'[x] \in 0..Writes[x]
    BY <1>1, <1>2 DEF TypeOK
  <2>3. /\ write' = w /\ pushed' = k
        /\ cliAcked' \subseteq 1..Len(Writes) /\ crediting' \subseteq Frames
        /\ told' \in BOOLEAN /\ senderDone' \in BOOLEAN
    BY <1>1, <1>2, <2>1 DEF TypeOK
  <2> QED BY <1>2, <2>2, <2>3, WriterOnly
<1>5. LastMsgConsumed' \in Int /\ LastMsgConsumed' >= LastMsgConsumed
  BY <1>3, TypeFacts
<1>6. CreditsAreEarned'
  BY <1>1, <1>2, <1>3, <1>5, CreditsStand
<1> QED BY <1>3, <1>4, <1>6 DEF StreamInv

LEMMA PushGivesUpKeeps ==
  ASSUME StreamInv, PushGivesUp
  PROVE  StreamInv'
<1>1. TypeOK /\ HistoryIsTheWrites /\ CreditsAreEarned
  BY DEF StreamInv
<1>2. /\ UNCHANGED <<sentVars, SentButNotAcked, flowSeen, acks, readerVars>>
      /\ UNCHANGED <<creditVars, result, write, NumBytesAcked, cliAcked, crediting, told, senderDone>>
      /\ pushed' = pushed + 1
  BY DEF PushGivesUp, creditVars
<1>3. /\ HistoryIsTheWrites' /\ ArrivalsAreCounted' /\ ReadingIsAtItsMarks' /\ AcksAreHonest'
      /\ UNCHANGED <<LastMsgConsumed, got>>
  BY <1>2, WriterOnly
<1>4. TypeOK'
  <2>1. PICK w \in 1..(Len(Writes) + 1), k \in Nat : write = w /\ pushed + 1 = k
    BY <1>1 DEF TypeOK
  <2>2. \A x \in 1..Len(Writes) : NumBytesAcked'[x] \in 0..Writes[x]
    BY <1>1, <1>2 DEF TypeOK
  <2>3. /\ write' = w /\ pushed' = k
        /\ cliAcked' \subseteq 1..Len(Writes) /\ crediting' \subseteq Frames
        /\ told' \in BOOLEAN /\ senderDone' \in BOOLEAN
    BY <1>1, <1>2, <2>1 DEF TypeOK
  <2> QED BY <1>2, <2>2, <2>3, WriterOnly
<1>5. LastMsgConsumed' \in Int /\ LastMsgConsumed' >= LastMsgConsumed
  BY <1>3, TypeFacts
<1>6. CreditsAreEarned'
  BY <1>1, <1>2, <1>3, <1>5, CreditsStand
<1> QED BY <1>3, <1>4, <1>6 DEF StreamInv

\* A Write woken by CliAcked finds all of its payload but the last piece credited.
LEMMA WriteReturnsKeeps ==
  ASSUME StreamInv, NEW by \in {"ack", "timeout", "done"}, WriteReturns(by)
  PROVE  StreamInv'
<1>1. TypeOK /\ HistoryIsTheWrites /\ CreditsAreEarned
  BY DEF StreamInv
<1>2. /\ UNCHANGED <<sentVars, SentButNotAcked, flowSeen, acks, readerVars>>
      /\ UNCHANGED <<creditVars, NumBytesAcked, cliAcked, crediting, told, senderDone>>
      /\ pushed' = 0 /\ write' = write + 1 /\ Running
      /\ result' = [result EXCEPT ![write] = [n |-> NumBytesAcked[write], by |-> by]]
      /\ by = "ack" => write \in cliAcked
  BY DEF WriteReturns, creditVars
<1>3. /\ HistoryIsTheWrites' /\ ArrivalsAreCounted' /\ ReadingIsAtItsMarks' /\ AcksAreHonest'
      /\ UNCHANGED <<LastMsgConsumed, got>> /\ LastFrameSent' = LastFrameSent
  BY <1>2, WriterOnly
<1>4. TypeOK'
  <2>1. PICK w \in 1..(Len(Writes) + 1) : write + 1 = w
    BY <1>1, <1>2, BytesAssumption DEF TypeOK, Running, BytesAssumption
  <2>2. \A x \in 1..Len(Writes) : NumBytesAcked'[x] \in 0..Writes[x]
    BY <1>1, <1>2 DEF TypeOK
  <2>3. /\ write' = w /\ pushed' = 0 /\ 0 \in Nat
        /\ cliAcked' \subseteq 1..Len(Writes) /\ crediting' \subseteq Frames
        /\ told' \in BOOLEAN /\ senderDone' \in BOOLEAN
    BY <1>1, <1>2, <2>1 DEF TypeOK
  <2> QED BY <1>2, <2>2, <2>3, WriterOnly
<1>5. PICK a \in Int, c \in Int :
        /\ Credited(a, c) /\ -1 <= c /\ c <= a /\ a <= LastFrameSent
        /\ a \in -1..LastFrameSent /\ c \in -1..LastFrameSent /\ c \in -1..a
  BY CreditedFrames
<1>6. /\ TotalBytesSent' < WindowByteSz + Sz + Cumul(a)' + InventedByte'
      /\ \A w : CreditOf(w, c)' = CreditOf(w, c)
      /\ \A w : AllButLastPiece(w)' = AllButLastPiece(w)
  BY <1>2, <1>3, <1>5, SameCredit
<1>7. Credited(a, c)'
  BY <1>2, <1>3, <1>5, <1>6 DEF Credited, Sz
<1>8. write \in 1..Len(Writes)
  BY <1>1, <1>2, BytesAssumption DEF TypeOK, Running, BytesAssumption
<1>9. result' \in [1..Len(Writes) -> [n : Int, by : {"running", "ack", "timeout", "done"}]]
  BY <1>1, <1>2, <1>8 DEF CreditsAreEarned
<1>10. ASSUME NEW w \in 1..Len(Writes), result'[w].by = "ack"
       PROVE  result'[w].n >= AllButLastPiece(w)
  <2>1. CASE w = write
    <3>1. result'[w] = [n |-> NumBytesAcked[write], by |-> by]
      BY <1>1, <1>2, <1>8, <2>1 DEF CreditsAreEarned
    <3>2. w \in cliAcked /\ result'[w].n = NumBytesAcked[w]
      BY <1>2, <1>10, <2>1, <3>1
    <3>3. NumBytesAcked[w] >= AllButLastPiece(w)
      BY <1>1, <3>2 DEF CreditsAreEarned
    <3> QED BY <3>2, <3>3
  <2>2. CASE w # write
    <3>1. result'[w] = result[w]
      BY <1>1, <1>2, <2>2 DEF CreditsAreEarned
    <3> QED BY <1>1, <1>10, <3>1
            DEF CreditsAreEarned, AckedWriteMissesAtMostLastPiece, AllButLastPiece
  <2> QED BY <2>1, <2>2
<1>11. CreditsAreEarned'
  <2>1. \E x \in -1..LastFrameSent' : \E y \in -1..x : Credited(x, y)'
    BY <1>3, <1>5, <1>7
  <2>2. AckedWriteMissesAtMostLastPiece'
    BY <1>10 DEF AckedWriteMissesAtMostLastPiece, AllButLastPiece, Npack, Sz
  <2>3. \A w \in cliAcked' : NumBytesAcked'[w] >= AllButLastPiece(w)'
    BY <1>1, <1>2, <1>6 DEF CreditsAreEarned
  <2>4. NumBytesAcked' \in [1..Len(Writes) -> Nat]
    BY <1>1, <1>2 DEF CreditsAreEarned
  <2> QED BY <1>9, <2>1, <2>2, <2>3, <2>4 DEF CreditsAreEarned
<1> QED BY <1>3, <1>4, <1>11 DEF StreamInv

\* The handler of GotPack deletes the frame after the last one credited.
LEMMA DeletedIsNext ==
  ASSUME StreamInv, crediting # {}
  PROVE  \E a \in Int, c \in Int :
           /\ Credited(a, c) /\ -1 <= c /\ c < a /\ a \in -1..LastFrameSent
           /\ c \in -1..LastFrameSent /\ c + 1 \in Frames /\ Deleted = c + 1
<1>1. PICK a \in Int, c \in Int :
        /\ Credited(a, c) /\ -1 <= c /\ c <= a /\ a <= LastFrameSent
        /\ a \in -1..LastFrameSent /\ c \in -1..LastFrameSent /\ c \in -1..a
  BY CreditedFrames
<1>2. crediting = (c + 1)..a
  BY <1>1 DEF Credited
<1>3. c < a
  BY <1>1, <1>2
<1>4. c + 1 \in crediting /\ \A k \in crediting : c + 1 <= k
  BY <1>1, <1>2, <1>3
<1>5. Deleted \in crediting /\ \A k \in crediting : Deleted <= k
  BY <1>4 DEF Deleted
<1>6. Deleted <= c + 1 /\ c + 1 <= Deleted /\ Deleted \in Int
  BY <1>2, <1>4, <1>5
<1>7. Deleted = c + 1
  BY <1>1, <1>6
<1>8. c + 1 \in Frames
  BY <1>1, <1>3, TypeFacts DEF Frames
<1> QED BY <1>1, <1>3, <1>7, <1>8

LEMMA BroadcastKeeps ==
  ASSUME StreamInv, Broadcast
  PROVE  StreamInv'
<1>1. TypeOK /\ HistoryIsTheWrites /\ CreditsAreEarned
  BY DEF StreamInv
<1>2. /\ UNCHANGED <<sentVars, SentButNotAcked, flowSeen, acks, readerVars>>
      /\ UNCHANGED <<result, write, pushed, NumBytesAcked, crediting, senderDone>>
      /\ told' = TRUE /\ crediting # {} /\ Frame(Deleted).last
      /\ cliAcked' = cliAcked \cup {Frame(Deleted).write}
  BY DEF Broadcast, appVars
<1>3. /\ HistoryIsTheWrites' /\ ArrivalsAreCounted' /\ ReadingIsAtItsMarks' /\ AcksAreHonest'
      /\ UNCHANGED <<LastMsgConsumed, got>> /\ LastFrameSent' = LastFrameSent
  BY <1>2, WriterOnly
<1>4. PICK a \in Int, c \in Int :
        /\ Credited(a, c) /\ -1 <= c /\ c < a /\ a \in -1..LastFrameSent
        /\ c \in -1..LastFrameSent /\ c + 1 \in Frames /\ Deleted = c + 1
  BY <1>2, DeletedIsNext
<1>5. PICK n \in Frames : n = Deleted /\ n - 1 = c
  BY <1>4
<1>6. PICK w \in 1..Len(Writes) : w = Frame(n).write
  BY <1>1, FrameFacts
<1>7. NumBytesAcked[w] = AllButLastPiece(w)
  <2>1. CreditOf(w, n - 1) = AllButLastPiece(w)
    BY <1>1, <1>2, <1>5, <1>6, CreditOfGrows
  <2>2. NumBytesAcked[w] = CreditOf(w, c)
    BY <1>4 DEF Credited
  <2> QED BY <1>5, <2>1, <2>2
<1>8. TypeOK'
  <2>1. PICK x \in 1..(Len(Writes) + 1), k \in Nat : write = x /\ pushed = k
    BY <1>1 DEF TypeOK
  <2>2. \A y \in 1..Len(Writes) : NumBytesAcked'[y] \in 0..Writes[y]
    BY <1>1, <1>2 DEF TypeOK
  <2>3. /\ write' = x /\ pushed' = k
        /\ cliAcked' \subseteq 1..Len(Writes) /\ crediting' \subseteq Frames
        /\ told' \in BOOLEAN /\ senderDone' \in BOOLEAN
    BY <1>1, <1>2, <1>5, <1>6, <2>1 DEF TypeOK
  <2> QED BY <1>2, <2>2, <2>3, WriterOnly
<1>9. /\ TotalBytesSent' < WindowByteSz + Sz + Cumul(a)' + InventedByte'
      /\ \A x : CreditOf(x, c)' = CreditOf(x, c)
      /\ \A x : AllButLastPiece(x)' = AllButLastPiece(x)
  BY <1>2, <1>3, <1>4, SameCredit
<1>10. Credited(a, c)'
  BY <1>2, <1>3, <1>4, <1>9 DEF Credited, Sz
<1>11. CreditsAreEarned'
  <2>1. \E x \in -1..LastFrameSent' : \E y \in -1..x : Credited(x, y)'
    BY <1>3, <1>4, <1>10
  <2>2. \A x \in cliAcked' : NumBytesAcked'[x] >= AllButLastPiece(x)'
    <3>1. NumBytesAcked[w] \in Nat
      BY <1>1 DEF CreditsAreEarned
    <3>2. ASSUME NEW x \in cliAcked'
          PROVE  NumBytesAcked[x] >= AllButLastPiece(x)
      <4>1. CASE x \in cliAcked
        BY <1>1, <4>1 DEF CreditsAreEarned
      <4>2. CASE x \notin cliAcked
        <5>1. x = w
          BY <1>2, <1>5, <1>6, <4>2
        <5> QED BY <1>7, <3>1, <5>1
      <4> QED BY <4>1, <4>2
    <3> QED BY <1>2, <1>9, <3>2
  <2> QED BY <1>1, <1>2, <2>1, <2>2
          DEF CreditsAreEarned, AckedWriteMissesAtMostLastPiece, Npack, Sz
<1> QED BY <1>3, <1>8, <1>11 DEF StreamInv

LEMMA CreditKeeps ==
  ASSUME StreamInv, Credit
  PROVE  StreamInv'
<1>1. TypeOK /\ HistoryIsTheWrites /\ CreditsAreEarned
  BY DEF StreamInv
<1>2. /\ UNCHANGED <<sentVars, SentButNotAcked, flowSeen, acks, readerVars>>
      /\ UNCHANGED <<result, write, pushed, cliAcked, senderDone>>
      /\ told' = FALSE /\ crediting # {}
      /\ NumBytesAcked' = [NumBytesAcked EXCEPT ![Frame(Deleted).write] = @ + Size(Deleted)]
      /\ crediting' = crediting \ {Deleted}
  BY DEF Credit, appVars
<1>3. /\ HistoryIsTheWrites' /\ ArrivalsAreCounted' /\ ReadingIsAtItsMarks' /\ AcksAreHonest'
      /\ UNCHANGED <<LastMsgConsumed, got>> /\ LastFrameSent' = LastFrameSent
  BY <1>2, WriterOnly
<1>4. PICK a \in Int, c \in Int :
        /\ Credited(a, c) /\ -1 <= c /\ c < a /\ a \in -1..LastFrameSent
        /\ c \in -1..LastFrameSent /\ c + 1 \in Frames /\ Deleted = c + 1
  BY <1>2, DeletedIsNext
<1>5. PICK n \in Frames : n = Deleted /\ n - 1 = c /\ n = c + 1
  BY <1>4
<1>6. Frame(n).write \in 1..Len(Writes) /\ Size(n) \in Nat
  BY <1>1, FrameFacts
<1>7. ASSUME NEW x \in 1..Len(Writes)
      PROVE  /\ NumBytesAcked'[x] = CreditOf(x, n) /\ NumBytesAcked'[x] \in 0..Writes[x]
             /\ NumBytesAcked'[x] >= NumBytesAcked[x]
  <2>1. /\ CreditOf(x, n) = CreditOf(x, n - 1) + (IF x = Frame(n).write THEN Size(n) ELSE 0)
        /\ CreditOf(x, n) \in 0..Writes[x] /\ CreditOf(x, n - 1) \in 0..Writes[x]
    BY <1>1, CreditOfGrows
  <2>2. NumBytesAcked[x] = CreditOf(x, n - 1)
    BY <1>4, <1>5 DEF Credited
  <2>3. NumBytesAcked'[x] = NumBytesAcked[x] + (IF x = Frame(n).write THEN Size(n) ELSE 0)
    <3>1. CASE x = Frame(n).write
      BY <1>1, <1>2, <1>5, <3>1 DEF CreditsAreEarned
    <3>2. CASE x # Frame(n).write
      BY <1>1, <1>2, <1>5, <2>1, <2>2, <3>2 DEF CreditsAreEarned
    <3> QED BY <3>1, <3>2
  <2> QED BY <1>6, <2>1, <2>2, <2>3
<1>8. NumBytesAcked' \in [1..Len(Writes) -> Nat]
  BY <1>1, <1>2, <1>5, <1>6 DEF CreditsAreEarned
<1>9. TypeOK'
  <2>1. PICK x \in 1..(Len(Writes) + 1), k \in Nat : write = x /\ pushed = k
    BY <1>1 DEF TypeOK
  <2>2. \A y \in 1..Len(Writes) : NumBytesAcked'[y] \in 0..Writes[y]
    BY <1>7
  <2>3. /\ write' = x /\ pushed' = k
        /\ cliAcked' \subseteq 1..Len(Writes) /\ crediting' \subseteq Frames
        /\ told' \in BOOLEAN /\ senderDone' \in BOOLEAN
    BY <1>1, <1>2, <2>1 DEF TypeOK
  <2> QED BY <1>2, <2>2, <2>3, WriterOnly
<1>10. /\ TotalBytesSent' < WindowByteSz + Sz + Cumul(a)' + InventedByte'
       /\ \A x : AllButLastPiece(x)' = AllButLastPiece(x)
       /\ OldFramesStay
  BY <1>2, <1>3, <1>4, SameCredit
<1>11. n \in -1..LastFrameSent
  BY <1>4, <1>5, TypeFacts DEF Frames
<1>12. Credited(a, n)'
  <2>1. \A x \in 1..Len(Writes) : NumBytesAcked'[x] = CreditOf(x, n)'
    BY <1>7, <1>10, <1>11, CreditOfStays
  <2>2. crediting' = (n + 1)..a
    BY <1>2, <1>4, <1>5 DEF Credited
  <2> QED BY <1>2, <1>3, <1>4, <1>10, <2>1, <2>2 DEF Credited, Sz
<1>13. CreditsAreEarned'
  <2>1. \E x \in -1..LastFrameSent' : \E y \in -1..x : Credited(x, y)'
    BY <1>3, <1>4, <1>5, <1>11, <1>12
  <2>2. \A x \in cliAcked' : NumBytesAcked'[x] >= AllButLastPiece(x)'
    <3>1. ASSUME NEW x \in cliAcked
          PROVE  NumBytesAcked'[x] >= AllButLastPiece(x)
      <4>1. x \in 1..Len(Writes) /\ NumBytesAcked[x] >= AllButLastPiece(x)
        BY <1>1 DEF TypeOK, CreditsAreEarned
      <4>2. Writes[x] \in Nat /\ Writes[x] >= 1
        BY <4>1, BytesAssumption DEF BytesAssumption
      <4>3. Npack(Writes[x]) \in Nat /\ Npack(Writes[x]) >= 1 /\ Sz \in Nat
        BY <4>2, PacketIsNeeded, SzIsPositive
      <4>4. AllButLastPiece(x) \in Int
        BY <4>3 DEF AllButLastPiece
      <4>5. NumBytesAcked[x] \in Nat /\ NumBytesAcked'[x] \in Nat
        BY <1>1, <1>8, <4>1 DEF CreditsAreEarned
      <4> QED BY <1>7, <4>1, <4>4, <4>5
    <3> QED BY <1>2, <1>10, <3>1
  <2> QED BY <1>1, <1>2, <1>8, <2>1, <2>2
          DEF CreditsAreEarned, AckedWriteMissesAtMostLastPiece, Npack, Sz
<1> QED BY <1>3, <1>9, <1>13 DEF StreamInv

\* The sum over the retry trees is the difference of two counts.
LEMMA InflightIs ==
  ASSUME HistoryIsTheWrites, NEW a \in Int, a \in -1..LastFrameSent,
         SentButNotAcked = (a + 1)..LastFrameSent
  PROVE  bytesInflight = TotalBytesSent - Cumul(a)
<1> DEFINE N == Len(SendHistory)
           more(k) == IF k - 1 \in SentButNotAcked THEN Size(k - 1) ELSE 0
           sum == CHOOSE f : f = [k \in 0..N |-> IF k = 0 THEN 0 ELSE f[k - 1] + more(k)]
           g == [k \in 1..N |-> [x \in Nat |-> x + more(k)]]
<1>1. N \in Nat /\ LastFrameSent = N - 1 /\ Frames = 0..(N - 1) /\ -1 \in -1..LastFrameSent
  BY DEF HistoryIsTheWrites, LastFrameSent, Frames
<1>2. bytesInflight = sum[N]
  BY DEF bytesInflight
<1> HIDE DEF N
<1>3. ASSUME NEW k \in 1..N
      PROVE  k - 1 \in Frames /\ Size(k - 1) \in Nat /\ more(k) \in Nat
             /\ Cumul(k - 1) = Cumul(k - 2) + Size(k - 1)
             /\ Cumul(k - 1) \in Nat /\ Cumul(k - 2) \in Nat
  <2>1. k - 1 \in Frames /\ k - 1 - 1 = k - 2
    BY <1>1
  <2> QED BY <2>1, FrameFacts
<1> HIDE DEF more
<1>4. g \in [1..N -> [Nat -> Nat]]
  BY <1>3
<1>5. PICK f \in [0..N -> Nat] : IsRunOf(f, N, 0, g)
  <2> HIDE DEF g
  <2>1. \E f \in [0..N -> Nat] : IsRunOf(f, N, 0, g)
    BY <1>1, <1>4, RunExists
  <2> QED BY <2>1
<1>6. f = [k \in 0..N |-> IF k = 0 THEN 0 ELSE f[k - 1] + more(k)]
  <2>1. f = [k \in 0..N |-> IF k = 0 THEN 0 ELSE g[k][f[k - 1]]]
    BY <1>5 DEF IsRunOf
  <2>2. ASSUME NEW k \in 0..N, k # 0
        PROVE  g[k][f[k - 1]] = f[k - 1] + more(k)
    <3>1. k \in 1..N /\ f[k - 1] \in Nat
      BY <1>1, <1>5, <2>2
    <3> QED BY <3>1
  <2> HIDE DEF g
  <2> QED BY <2>1, <2>2
<1>7. sum = [k \in 0..N |-> IF k = 0 THEN 0 ELSE sum[k - 1] + more(k)]
  BY <1>6
<1> HIDE DEF sum, g
<1> DEFINE S == {n \in Nat : n <= N =>
                   sum[n] = IF n - 1 <= a THEN 0 ELSE Cumul(n - 1) - Cumul(a)}
<1>8. 0 \in S
  BY <1>1, <1>7
<1>9. ASSUME NEW n \in Nat, n \in S
      PROVE  n + 1 \in S
  <2> SUFFICES ASSUME n + 1 <= N
               PROVE  sum[n + 1] = IF n <= a THEN 0 ELSE Cumul(n) - Cumul(a)
    OBVIOUS
  <2>1. n + 1 \in 1..N /\ n + 1 - 1 = n /\ n + 1 - 2 = n - 1 /\ n \in Frames
    BY <1>1
  <2>2. sum[n + 1] = sum[n] + more(n + 1)
    <3>1. \A k \in 0..N : sum[k] = IF k = 0 THEN 0 ELSE sum[k - 1] + more(k)
      BY <1>7, Zenon
    <3>2. PICK k \in 0..N : k = n + 1 /\ k # 0 /\ k - 1 = n
      BY <1>1, <2>1
    <3>3. sum[k] = sum[k - 1] + more(k)
      BY <3>1, <3>2, Zenon
    <3> QED BY <3>2, <3>3, Zenon
  <2>3. sum[n] = IF n - 1 <= a THEN 0 ELSE Cumul(n - 1) - Cumul(a)
    BY <1>1, <1>9
  <2>4. /\ Cumul(n) = Cumul(n - 1) + Size(n) /\ Cumul(n) \in Nat /\ Cumul(n - 1) \in Nat
        /\ Size(n) \in Nat
    BY <2>1, FrameFacts
  <2>5. more(n + 1) = IF n > a THEN Size(n) ELSE 0
    BY <1>1, <2>1 DEF more
  <2>6. Cumul(a) \in Nat
    BY CumulFacts
  <2>7. CASE n <= a
    BY <2>2, <2>3, <2>5, <2>7
  <2>8. CASE n > a /\ n - 1 <= a
    <3>1. n - 1 = a
      BY <2>8
    <3> QED BY <2>2, <2>3, <2>4, <2>5, <2>6, <2>8, <3>1
  <2>9. CASE n - 1 > a
    BY <2>2, <2>3, <2>4, <2>5, <2>6, <2>9
  <2> QED BY <2>7, <2>8, <2>9
<1> HIDE DEF S
<1>10. S = Nat
  <2>1. S \in SUBSET Nat
    BY DEF S
  <2> QED BY <1>8, <1>9, <2>1, Induct
<1>11. sum[N] = IF N - 1 <= a THEN 0 ELSE Cumul(N - 1) - Cumul(a)
  BY <1>1, <1>10 DEF S
<1>12. TotalBytesSent = Cumul(N - 1) /\ Cumul(a) \in Nat
  BY <1>1, CumulFacts DEF HistoryIsTheWrites
<1>13. CASE N - 1 <= a
  <2>1. a = N - 1
    BY <1>1, <1>13
  <2> QED BY <1>2, <1>11, <1>12, <1>13, <2>1
<1> QED BY <1>1, <1>2, <1>11, <1>12, <1>13

LEMMA AcceptSendKeeps ==
  ASSUME StreamInv, AcceptSend
  PROVE  StreamInv'
<1>1. TypeOK /\ HistoryIsTheWrites /\ AcksAreHonest /\ CreditsAreEarned
  BY DEF StreamInv
<1>2. /\ UNCHANGED <<write, result, creditVars, flowSeen, senderDone, acks, readerVars>>
      /\ UNCHANGED <<NumBytesAcked, cliAcked, crediting, told>>
      /\ UNCHANGED <<flow, recvLastFrameClientConsumed>>
      /\ UNCHANGED <<Rxq, ReadyForDelivery, MaxCumulBytesTrans, DataOffset, LastByteConsumed,
                     LastMsgConsumed, LargestSeqnoRcvd, panicked, got>>
      /\ pushed' = pushed + 1 /\ crediting = {} /\ FlowAllowsSend
      /\ SentButNotAcked' = SentButNotAcked \cup {LastFrameSent + 1}
  BY DEF AcceptSend, creditVars, readerVars, orderVars, consumeVars, largestVars
<1>3. /\ HistoryIsTheWrites'
      /\ TotalBytesSent' = TotalBytesSent + Size(LastFrameSent)'
      /\ Size(LastFrameSent)' \in 1..Sz
      /\ LastFrameSent \in Int /\ LastFrameSent >= -1 /\ LastFrameSent' = LastFrameSent + 1
      /\ Frames' = Frames \cup {LastFrameSent'} /\ LastFrameSent' \in Frames'
  <2>1. PICK p \in Packet : SendHistory' = Append(SendHistory, p)
    BY <1>1, AcceptSendExtends
  <2>2. /\ LastFrameSent \in Int /\ LastFrameSent >= -1 /\ LastFrameSent' = LastFrameSent + 1
        /\ Frames' = Frames \cup {LastFrameSent'}
    BY <1>1, <2>1, HistoryGrows DEF HistoryIsTheWrites
  <2> QED BY <1>1, <2>2, AcceptSendExtends
<1>4. OldFramesStay
  BY <1>1, FramesStay
<1>5. ArrivalsAreCounted' /\ ReadingIsAtItsMarks'
  BY <1>2, <1>4, ReaderStands
<1>6. AcksAreHonest'
  BY <1>1, <1>2, AcksStand
<1>7. PICK a \in Int, c \in Int :
        /\ Credited(a, c) /\ -1 <= c /\ c <= a /\ a <= LastFrameSent
        /\ a \in -1..LastFrameSent /\ c \in -1..LastFrameSent /\ c \in -1..a
  BY CreditedFrames
<1>8. TotalBytesSent' < WindowByteSz + Sz + Cumul(a)' + InventedByte'
  <2>1. bytesInflight = TotalBytesSent - Cumul(a)
    BY <1>1, <1>7, InflightIs DEF Credited
  <2>2. /\ LastSeenAvailReaderBytesCap - bytesInflight > 0
        /\ LastSeenAvailReaderBytesCap <= WindowByteSz + InventedByte
        /\ LastSeenAvailReaderBytesCap \in Int
    BY <1>1, <1>2 DEF FlowAllowsSend, AcksAreHonest
  <2>3. /\ Cumul(a) \in Nat /\ TotalBytesSent \in Nat /\ WindowByteSz \in Nat /\ Sz \in Nat
        /\ InventedByte \in Nat
    BY <1>1, <1>7, CumulFacts, SzIsPositive, BytesAssumption DEF BytesAssumption, InventedByte
  <2>4. Cumul(a)' = Cumul(a) /\ InventedByte' = InventedByte
    BY <1>2, <1>4, <1>7 DEF OldFramesStay, InventedByte
  <2>5. PICK s \in 1..Sz : s = Size(LastFrameSent)' /\ TotalBytesSent' = TotalBytesSent + s
    BY <1>3
  <2>6. TotalBytesSent + s < WindowByteSz + Sz + Cumul(a) + InventedByte
    BY <2>1, <2>2, <2>3
  <2> QED BY <2>4, <2>5, <2>6
<1>9. Credited(a, c)'
  <2>1. SentButNotAcked' = (a + 1)..LastFrameSent'
    BY <1>2, <1>3, <1>7 DEF Credited
  <2>2. \A x \in 1..Len(Writes) : NumBytesAcked'[x] = CreditOf(x, c)'
    BY <1>2, <1>4, <1>7, CreditOfStays DEF Credited
  <2> QED BY <1>2, <1>7, <1>8, <2>1, <2>2 DEF Credited, Sz
<1>10. CreditsAreEarned'
  <2>1. \E x \in -1..LastFrameSent' : \E y \in -1..x : Credited(x, y)'
    BY <1>3, <1>7, <1>9
  <2> QED BY <1>1, <1>2, <2>1
          DEF CreditsAreEarned, AckedWriteMissesAtMostLastPiece, AllButLastPiece, Npack, Sz
<1>11. TypeOK'
  <2>1. /\ SentButNotAcked' \subseteq Frames' /\ Rxq' \subseteq Frames'
        /\ crediting' \subseteq Frames' /\ Range(ReadyForDelivery') \subseteq Frames'
    BY <1>1, <1>2, <1>3 DEF TypeOK
  <2>2. PICK total \in Nat, old \in Nat :
          /\ total = TotalBytesSent' /\ old = TotalBytesSent /\ old <= total
    <3>1. TotalBytesSent \in Nat /\ Sz \in Nat
      BY <1>1, SzIsPositive DEF TypeOK
    <3>2. PICK s \in 1..Sz : TotalBytesSent' = TotalBytesSent + s
      BY <1>3
    <3> QED BY <3>1, <3>2
  <2>3. MaxCumulBytesTrans' \in 0..TotalBytesSent' /\ LastByteConsumed' \in -1..TotalBytesSent'
    BY <1>1, <1>2, <2>2 DEF TypeOK
  <2>4. LastMsgConsumed' \in -1..LastFrameSent' /\ LargestSeqnoRcvd' \in -1..LastFrameSent'
    BY <1>1, <1>2, <1>3 DEF TypeOK
  <2> QED BY <1>1, <1>2, <2>1, <2>2, <2>3, <2>4 DEF TypeOK, Sz, Min2
<1> QED BY <1>3, <1>5, <1>6, <1>10, <1>11 DEF StreamInv

-----------------------------------------------------------------------------
(* Read's copying loop. *)

\* Within a packet every byte is followed by the next one.
LEMMA BytesFollow ==
  ASSUME HistoryIsTheWrites, NEW n \in Frames, NEW j \in Nat, j >= 1, j < Size(n)
  PROVE  Frame(n).data[j + 1] = NextByte(Frame(n).data[j])
<1> DEFINE first == Frame(n).data[1][2]
           wn == Frame(n).write
<1>1. /\ first \in Nat /\ wn \in Nat
      /\ \A i \in 1..Size(n) : Frame(n).data[i] = <<wn, first + i - 1>>
      /\ first + Size(n) - 1 <= Writes[wn]
  BY FrameBytes
<1>2. Size(n) \in Nat /\ Writes[wn] \in Nat
  BY FrameFacts
<1> HIDE DEF first, wn
<1>3. j \in 1..Size(n) /\ j + 1 \in 1..Size(n)
  BY <1>2
<1>4. Frame(n).data[j] = <<wn, first + j - 1>>
  BY <1>1, <1>3
<1>5. Frame(n).data[j + 1] = <<wn, first + (j + 1) - 1>>
  BY <1>1, <1>3
<1>6. first + j - 1 < Writes[wn] /\ first + (j + 1) - 1 = first + j - 1 + 1
  BY <1>1, <1>2
<1>7. NextByte(<<wn, first + j - 1>>) = <<wn, first + j - 1 + 1>>
  BY <1>6 DEF NextByte
<1> QED BY <1>4, <1>5, <1>6, <1>7

\* more is bytes with bytes off + 1 to off + m of data behind it; they follow on.
ContinuesWith(more, bytes, data, off, m) ==
  /\ Len(more) = Len(bytes) + m
  /\ \A i \in 1..Len(bytes) : more[i] = bytes[i]
  /\ \A i \in 1..m : more[Len(bytes) + i] = data[off + i]

FollowsOn(bytes, data, off, m) ==
  /\ Consecutive(bytes)
  /\ data[off + 1] = IF Len(bytes) = 0 THEN <<1, 1>> ELSE NextByte(bytes[Len(bytes)])
  /\ \A j \in Nat : j >= 1 /\ j < m => data[off + j + 1] = NextByte(data[off + j])

LEMMA IndexCases ==
  ASSUME NEW L \in Nat, NEW m \in Nat, m >= 1
  PROVE  /\ 1 \in 1..m /\ m \in 1..m
         /\ \A i \in 1..(L + m) :
              /\ i <= L => i \in 1..L /\ (i # 1 => i - 1 \in 1..L)
              /\ i = L + 1 /\ L # 0 => L \in 1..L /\ i - 1 = L /\ i # 1
              /\ i > L + 1 => \E j \in Nat :
                                /\ j >= 1 /\ j < m /\ j \in 1..m /\ j + 1 \in 1..m
                                /\ L + j = i - 1 /\ L + (j + 1) = i /\ i # 1
              /\ i <= L \/ i = L + 1 \/ i > L + 1
<1>1. ASSUME NEW i \in 1..(L + m), i > L + 1
      PROVE  \E j \in Nat : /\ j >= 1 /\ j < m /\ j \in 1..m /\ j + 1 \in 1..m
                            /\ L + j = i - 1 /\ L + (j + 1) = i /\ i # 1
  <2>1. PICK j \in Int : j = i - 1 - L
    OBVIOUS
  <2>2. j >= 1 /\ j < m /\ L + j = i - 1 /\ L + (j + 1) = i /\ i # 1
    BY <1>1, <2>1
  <2> QED BY <2>2
<1> QED BY <1>1

\* Joining bytes that follow on.
LEMMA RunOn ==
  ASSUME NEW bytes, NEW more, NEW data, NEW off \in Nat, NEW m \in Nat,
         Len(bytes) \in Nat, m >= 1,
         ContinuesWith(more, bytes, data, off, m), FollowsOn(bytes, data, off, m)
  PROVE  Consecutive(more)
<1> PICK L \in Nat : L = Len(bytes)
  OBVIOUS
<1>0. /\ Len(more) = L + m
      /\ \A i \in 1..L : more[i] = bytes[i]
      /\ \A i \in 1..m : more[L + i] = data[off + i]
      /\ \A i \in 1..L : bytes[i] = IF i = 1 THEN <<1, 1>> ELSE NextByte(bytes[i - 1])
      /\ data[off + 1] = IF L = 0 THEN <<1, 1>> ELSE NextByte(bytes[L])
      /\ \A j \in Nat : j >= 1 /\ j < m => data[off + j + 1] = NextByte(data[off + j])
  BY DEF ContinuesWith, FollowsOn, Consecutive
<1>1. ASSUME NEW i \in 1..(L + m)
      PROVE  more[i] = IF i = 1 THEN <<1, 1>> ELSE NextByte(more[i - 1])
  <2>1. CASE i <= L
    <3>1. i \in 1..L /\ (i # 1 => i - 1 \in 1..L)
      BY <2>1, IndexCases
    <3>2. bytes[i] = IF i = 1 THEN <<1, 1>> ELSE NextByte(bytes[i - 1])
      BY <1>0, <3>1
    <3>3. more[i] = bytes[i] /\ (i # 1 => more[i - 1] = bytes[i - 1])
      BY <1>0, <3>1
    <3> QED BY <3>2, <3>3
  <2>2. CASE i = L + 1
    <3>1. 1 \in 1..m
      BY IndexCases
    <3>2. more[i] = data[off + 1]
      BY <1>0, <2>2, <3>1
    <3>3. CASE L = 0
      <4>1. i = 1
        BY <2>2, <3>3
      <4> QED BY <1>0, <3>2, <3>3, <4>1
    <3>4. CASE L # 0
      <4>1. L \in 1..L /\ i - 1 = L /\ i # 1
        BY <2>2, <3>4, IndexCases
      <4>2. more[i - 1] = bytes[L]
        BY <1>0, <4>1
      <4>3. data[off + 1] = NextByte(bytes[L])
        BY <1>0, <3>4
      <4> QED BY <3>2, <4>1, <4>2, <4>3
    <3> QED BY <3>3, <3>4
  <2>3. CASE i > L + 1
    <3>1. PICK j \in Nat : /\ j >= 1 /\ j < m /\ j \in 1..m /\ j + 1 \in 1..m
                           /\ L + j = i - 1 /\ L + (j + 1) = i /\ i # 1
      <4>1. i \in Nat /\ i <= L + m
        OBVIOUS
      <4>2. i - 1 - L \in Nat
        BY <2>3, <4>1
      <4>3. PICK j \in Nat : j = i - 1 - L
        BY <4>2, Zenon
      <4>4. L + j = i - 1 /\ L + (j + 1) = i
        BY <4>1, <4>3
      <4>5. j >= 1 /\ j < m /\ i # 1
        BY <2>3, <4>1, <4>3
      <4>6. j \in 1..m /\ j + 1 \in 1..m
        BY <4>5
      <4> QED BY <4>4, <4>5, <4>6, Zenon
    <3>2. more[L + j] = data[off + j] /\ more[L + (j + 1)] = data[off + (j + 1)]
      BY <1>0, <3>1
    <3>3. data[off + j + 1] = NextByte(data[off + j])
      BY <1>0, <3>1
    <3>4. off + (j + 1) = off + j + 1
      OBVIOUS
    <3>5. more[i] = data[off + (j + 1)] /\ more[i - 1] = data[off + j]
      BY <3>1, <3>2
    <3> QED BY <3>1, <3>3, <3>4, <3>5
  <2> QED BY <2>1, <2>2, <2>3, IndexCases
<1>2. Consecutive(more)
  BY <1>0, <1>1 DEF Consecutive
<1> QED BY <1>2

\* Copying m more bytes of the packet that is being read.
LEMMA CopyExtends ==
  ASSUME HistoryIsTheWrites, NEW n \in Frames, NEW bytes \in Seq(Nat \X Nat), NEW off \in Nat,
         off < Size(n), ReadThrough(bytes, n - 1, off),
         NEW m \in Nat, m >= 1, off + m <= Size(n),
         NEW more, ContinuesWith(more, bytes, Frame(n).data, off, m)
  PROVE  IF off + m = Size(n) THEN ReadThrough(more, n, 0) ELSE ReadThrough(more, n - 1, off + m)
<1>1. PICK L \in Nat, size \in Nat, c \in Nat, b \in Nat, last \in Int, k \in Nat :
        /\ L = Len(bytes) /\ size = Size(n) /\ c = Cumul(n) /\ b = Cumul(n - 1)
        /\ last = LastFrameSent /\ k = n /\ k <= last /\ c = b + size
  <2>1. /\ Size(n) \in Nat /\ Cumul(n) \in Nat /\ Cumul(n - 1) \in Nat
        /\ Cumul(n) = Cumul(n - 1) + Size(n)
    BY FrameFacts
  <2>2. n \in Nat /\ n <= LastFrameSent /\ LastFrameSent \in Int
    <3>1. LastFrameSent \in Int
      BY DEF HistoryIsTheWrites, LastFrameSent
    <3> QED BY <3>1 DEF Frames
  <2>3. Len(bytes) \in Nat
    OBVIOUS
  <2> QED BY <2>1, <2>2, <2>3
<1>2. off < size /\ off + m <= size /\ n - 1 + 1 = n /\ n - 1 = k - 1
  BY <1>1
<1>3. /\ Consecutive(bytes) /\ L = b + off
      /\ bytes # << >> => bytes[L] = IF off > 0 THEN Frame(n).data[off] ELSE LastByte(n - 1)
  BY <1>1, <1>2 DEF ReadThrough
<1>4. k # 0 => b > 0
  <2>1. ASSUME k # 0
        PROVE  b > 0
    <3>1. k - 1 \in -1..LastFrameSent /\ -1 \in -1..LastFrameSent /\ -1 < k - 1
      BY <1>1, <2>1
    <3>2. Cumul(-1) < Cumul(k - 1) /\ Cumul(-1) = 0
      BY <3>1, CumulFacts
    <3> QED BY <1>1, <3>2
  <2> QED BY <2>1
<1>5. Frame(n).data[1] = ByteAfter(n - 1)
  BY FrameBytes
<1>6. Frame(n).data[off + 1] = IF L = 0 THEN <<1, 1>> ELSE NextByte(bytes[L])
  <2>1. CASE L = 0
    <3>1. off = 0 /\ k = 0
      BY <1>3, <1>4, <2>1
    <3>2. off + 1 = 1 /\ n - 1 = -1
      BY <1>1, <3>1
    <3> QED BY <1>5, <2>1, <3>2 DEF ByteAfter
  <2>2. CASE L # 0
    <3>1. bytes # << >>
      BY <1>1, <2>2
    <3>2. CASE off = 0
      <4>1. n - 1 # -1
        <5>1. CASE k = 0
          BY <1>1, <1>3, <2>2, <3>2, <5>1 DEF Cumul
        <5>2. CASE k # 0
          BY <1>2, <5>2
        <5> QED BY <5>1, <5>2
      <4>2. bytes[L] = LastByte(n - 1) /\ off + 1 = 1
        BY <1>3, <3>1, <3>2
      <4> QED BY <1>5, <2>2, <4>1, <4>2 DEF ByteAfter
    <3>3. CASE off # 0
      <4>1. Frame(n).data[off + 1] = NextByte(Frame(n).data[off])
        <5>1. off >= 1 /\ off < Size(n)
          BY <3>3
        <5> QED BY <5>1, BytesFollow
      <4>2. bytes[L] = Frame(n).data[off]
        BY <1>3, <3>1, <3>3
      <4> QED BY <2>2, <4>1, <4>2
    <3> QED BY <3>2, <3>3
  <2> QED BY <2>1, <2>2
<1>7. ASSUME NEW j \in Nat, j >= 1, j < m
      PROVE  Frame(n).data[off + j + 1] = NextByte(Frame(n).data[off + j])
  <2>1. off + j \in Nat /\ off + j >= 1 /\ off + j < size
    BY <1>2, <1>7
  <2> QED BY <1>1, <2>1, BytesFollow
<1>8. Consecutive(more) /\ more[Len(more)] = Frame(n).data[off + m] /\ Len(more) = L + m
  <2>1. FollowsOn(bytes, Frame(n).data, off, m)
    BY <1>1, <1>3, <1>6, <1>7 DEF FollowsOn
  <2>2. Consecutive(more) /\ more[Len(more)] = Frame(n).data[off + m]
    <3>1. Len(bytes) \in Nat
      OBVIOUS
    <3>2. Consecutive(more)
      BY <2>1, <3>1, RunOn, Zenon
    <3>3. more[Len(more)] = Frame(n).data[off + m]
      <4>1. m \in 1..m
        BY IndexCases
      <4> QED BY <4>1 DEF ContinuesWith
    <3> QED BY <3>2, <3>3
  <2> QED BY <1>1, <2>2 DEF ContinuesWith
<1>9. CASE off + m = Size(n)
  <2>1. Len(more) = Cumul(n) + 0
    <3>1. L + m = c + 0
      BY <1>1, <1>3, <1>9
    <3> QED BY <1>1, <1>8, <3>1
  <2>2. more[Len(more)] = LastByte(n)
    BY <1>8, <1>9 DEF LastByte
  <2>3. ReadThrough(more, n, 0)
    BY <1>8, <2>1, <2>2 DEF ReadThrough
  <2> QED BY <1>9, <2>3
<1>10. CASE off + m # Size(n)
  <2>1. Len(more) = Cumul(n - 1) + (off + m) /\ off + m > 0
    <3>1. L + m = b + (off + m) /\ off + m > 0
      BY <1>3
    <3> QED BY <1>1, <1>8, <3>1
  <2>2. n - 1 < LastFrameSent /\ off + m < Size(n)
    <3>1. off + m # size
      BY <1>1, <1>10
    <3>2. off + m < size
      BY <1>2, <3>1
    <3>3. k - 1 < last
      BY <1>1
    <3> QED BY <1>1, <1>2, <3>2, <3>3
  <2>3. ReadThrough(more, n - 1, off + m)
    BY <1>2, <1>8, <2>1, <2>2 DEF ReadThrough
  <2> QED BY <1>10, <2>3
<1> QED BY <1>9, <1>10

LEMMA Taking ==
  ASSUME NEW S, NEW s \in Seq(S), NEW off \in Nat, NEW c \in Nat, off + c <= Len(s)
  PROVE  /\ SubSeq(s, off + 1, off + c) \in Seq(S) /\ Len(SubSeq(s, off + 1, off + c)) = c
         /\ \A i \in 1..c : SubSeq(s, off + 1, off + c)[i] = s[off + i]
<1>1. \A i \in (off + 1)..(off + c) : s[i] \in S
  OBVIOUS
<1>2. off + 1 \in Int /\ off + c \in Int
  OBVIOUS
<1>3. /\ SubSeq(s, off + 1, off + c) \in Seq(S)
      /\ Len(SubSeq(s, off + 1, off + c)) =
           IF off + 1 <= off + c THEN off + c - (off + 1) + 1 ELSE 0
      /\ \A i \in 1..(off + c - (off + 1) + 1) :
           SubSeq(s, off + 1, off + c)[i] = s[off + 1 + i - 1]
  BY <1>1, <1>2, SubSeqProperties
<1>4. off + c - (off + 1) + 1 = c /\ (off + 1 <= off + c <=> c >= 1)
  OBVIOUS
<1>5. Len(SubSeq(s, off + 1, off + c)) = c
  BY <1>3, <1>4
<1>6. ASSUME NEW i \in 1..c
      PROVE  SubSeq(s, off + 1, off + c)[i] = s[off + i]
  <2>1. SubSeq(s, off + 1, off + c)[i] = s[off + 1 + i - 1]
    BY <1>3, <1>4
  <2>2. off + 1 + i - 1 = off + i
    OBVIOUS
  <2> QED BY <2>1, <2>2
<1> QED BY <1>3, <1>5, <1>6

\* What is left of a packet from off on, and the m bytes of it that fit.
Piecewise(data, off, size, room, rest, left, m, piece) ==
  /\ rest = SubSeq(data, off + 1, size) /\ left = Len(rest) /\ left \in Nat
  /\ left = IF off < size THEN size - off ELSE 0
  /\ m \in Nat /\ m = Min2(room, left) /\ m <= room /\ m <= left /\ (m = room \/ m = left)
  /\ piece = SubSeq(rest, 1, m) /\ piece \in Seq(Nat \X Nat) /\ Len(piece) = m
  /\ \A i \in 1..m : piece[i] = data[off + i]

LEMMA CopiedBytes ==
  ASSUME NEW data \in Seq(Nat \X Nat), NEW off \in Nat, NEW size \in Nat, size = Len(data),
         NEW room \in Nat
  PROVE  \E rest, left, m, piece : Piecewise(data, off, size, room, rest, left, m, piece)
<1>1. PICK L \in Nat : L = IF off < size THEN size - off ELSE 0
  <2>1. CASE off < size
    <3>1. size - off \in Nat
      BY <2>1
    <3> QED BY <2>1, <3>1
  <2>2. CASE ~(off < size)
    BY <2>2
  <2> QED BY <2>1, <2>2
<1>2. PICK m \in Nat : m = Min2(room, L) /\ m <= room /\ m <= L /\ (m = room \/ m = L)
  BY DEF Min2
<1>3. PICK left \in Seq(Nat \X Nat) :
        /\ left = SubSeq(data, off + 1, size) /\ Len(left) = L
        /\ \A i \in 1..L : left[i] = data[off + i]
  <2>1. CASE off < size
    <3>1. off + L = size /\ off + L <= Len(data)
      BY <1>1, <2>1
    <3>2. /\ SubSeq(data, off + 1, off + L) \in Seq(Nat \X Nat)
          /\ Len(SubSeq(data, off + 1, off + L)) = L
          /\ \A i \in 1..L : SubSeq(data, off + 1, off + L)[i] = data[off + i]
      BY <3>1, Taking
    <3> QED BY <3>1, <3>2
  <2>2. CASE ~(off < size)
    <3>1. off + 1 \in Int /\ size < off + 1 /\ L = 0
      BY <1>1, <2>2
    <3>2. SubSeq(data, off + 1, size) = << >>
      BY <3>1, SubSeqEmpty
    <3>3. << >> \in Seq(Nat \X Nat) /\ Len(<< >>) = 0
      OBVIOUS
    <3>4. \A i \in 1..L : FALSE
      BY <3>1
    <3> QED BY <3>1, <3>2, <3>3, <3>4
  <2> QED BY <2>1, <2>2
<1>4. PICK piece \in Seq(Nat \X Nat) :
        /\ piece = SubSeq(left, 1, m) /\ Len(piece) = m
        /\ \A i \in 1..m : piece[i] = left[i]
  <2>1. /\ SubSeq(left, 0 + 1, 0 + m) \in Seq(Nat \X Nat)
        /\ Len(SubSeq(left, 0 + 1, 0 + m)) = m
        /\ \A i \in 1..m : SubSeq(left, 0 + 1, 0 + m)[i] = left[0 + i]
    <3>1. 0 + m <= Len(left) /\ 0 \in Nat
      BY <1>2, <1>3
    <3> QED BY <3>1, Taking
  <2>2. 0 + m = m /\ 0 + 1 = 1
    OBVIOUS
  <2>3. \A i \in 1..m : 0 + i = i
    OBVIOUS
  <2> QED BY <2>1, <2>2, <2>3
<1>5. \A i \in 1..m : piece[i] = data[off + i]
  <2>1. \A i \in 1..m : i \in 1..L
    BY <1>2
  <2> QED BY <1>3, <1>4, <2>1
<1>6. Piecewise(data, off, size, room, left, L, m, piece)
  BY <1>1, <1>2, <1>3, <1>4, <1>5 DEF Piecewise
<1> QED BY <1>6

\* What the loop has done to its state st after the first k ready packets.
FillStates(len) ==
  {st \in [buf : Seq(Nat \X Nat), offset : Nat, complete : Nat, byte : Int] : Len(st.buf) <= len}

FilledAfter(len, k, st) ==
  /\ st.complete <= k /\ (st.complete < k => Len(st.buf) = len)
  /\ ReadThrough(got \o st.buf, LastMsgConsumed + st.complete, st.offset)
  /\ st.offset > 0 => st.complete < Len(ReadyForDelivery)
  /\ st.byte = IF got \o st.buf = << >> THEN -1 ELSE Len(got \o st.buf)

LEMMA CopyOneCopies ==
  ASSUME HistoryIsTheWrites, NEW n \in Frames, NEW len \in Nat, NEW st \in FillStates(len),
         Len(st.buf) # len
  PROVE  \E m \in Nat, left \in Nat, piece \in Seq(Nat \X Nat) :
           /\ left = IF st.offset < Size(n) THEN Size(n) - st.offset ELSE 0
           /\ m <= left /\ Len(st.buf) + m <= len /\ (m = left \/ Len(st.buf) + m = len)
           /\ left >= 1 => m >= 1
           /\ Len(piece) = m /\ \A i \in 1..m : piece[i] = Frame(n).data[st.offset + i]
           /\ CopyOne(len, st, n).buf = st.buf \o piece
           /\ CopyOne(len, st, n).offset = IF m = left THEN 0 ELSE st.offset + m
           /\ CopyOne(len, st, n).complete = st.complete + (IF m = left THEN 1 ELSE 0)
           /\ CopyOne(len, st, n).byte = Cumul(n) - (IF m = left THEN 0 ELSE left - m)
           /\ CopyOne(len, st, n) \in FillStates(len)
<1>1. PICK data \in Seq(Nat \X Nat), off \in Nat, size \in Nat, room \in Nat :
        /\ data = Frame(n).data /\ off = st.offset /\ size = Size(n) /\ size = Len(data)
        /\ room = len - Len(st.buf) /\ room >= 1
  <2>1. Frame(n).data \in Seq(Nat \X Nat) /\ Size(n) \in Nat /\ Size(n) = Len(Frame(n).data)
    BY FrameFacts DEF Size
  <2>2. st.offset \in Nat /\ Len(st.buf) \in Nat /\ Len(st.buf) <= len
    BY DEF FillStates
  <2>3. len - Len(st.buf) \in Nat /\ len - Len(st.buf) >= 1
    BY <2>2
  <2> QED BY <2>1, <2>2, <2>3
<1>0. PICK rest, left, m, piece : Piecewise(data, off, size, room, rest, left, m, piece)
  BY <1>1, CopiedBytes
<1>2. /\ rest = SubSeq(data, off + 1, size) /\ left = Len(rest) /\ left \in Nat
      /\ left = IF off < size THEN size - off ELSE 0
      /\ m \in Nat /\ m = Min2(room, left) /\ m <= room /\ m <= left /\ (m = room \/ m = left)
      /\ piece = SubSeq(rest, 1, m) /\ piece \in Seq(Nat \X Nat) /\ Len(piece) = m
      /\ \A i \in 1..m : piece[i] = data[off + i]
  BY <1>0 DEF Piecewise
<1>21. left \in Nat /\ m \in Nat /\ m <= room /\ m <= left /\ (m = room \/ m = left)
  BY <1>0 DEF Piecewise
<1>22. Len(piece) = m /\ piece \in Seq(Nat \X Nat)
  BY <1>0 DEF Piecewise
<1>3. CopyOne(len, st, n) =
        [buf |-> st.buf \o piece,
         offset |-> IF m = left THEN 0 ELSE st.offset + m,
         complete |-> st.complete + (IF m = left THEN 1 ELSE 0),
         byte |-> ConsumedAfter(n, left, m)]
  BY <1>1, <1>2 DEF CopyOne, Remaining
<1>5. ConsumedAfter(n, left, m) = Cumul(n) - (IF m = left THEN 0 ELSE left - m)
      /\ Cumul(n) \in Nat
  BY FrameFacts DEF ConsumedAfter
<1>6. CopyOne(len, st, n) \in FillStates(len)
  <2>1. PICK buf \in Seq(Nat \X Nat), complete \in Nat : buf = st.buf /\ complete = st.complete
    BY DEF FillStates
  <2>2. buf \o piece \in Seq(Nat \X Nat) /\ Len(buf \o piece) = Len(buf) + m /\ Len(buf) \in Nat
    BY <1>2, Joining
  <2>3. Len(buf) + m <= len
    BY <1>1, <1>2, <2>1, <2>2
  <2>4. PICK offset \in Nat, done \in Nat, byte \in Int :
          /\ offset = IF m = left THEN 0 ELSE st.offset + m
          /\ done = st.complete + (IF m = left THEN 1 ELSE 0)
          /\ byte = ConsumedAfter(n, left, m)
    <3>1. (IF m = left THEN 0 ELSE st.offset + m) \in Nat
      <4>1. off + m \in Nat /\ 0 \in Nat
        BY <1>21
      <4>2. st.offset + m = off + m
        BY <1>1
      <4> QED BY <4>1, <4>2
    <3>2. st.complete + (IF m = left THEN 1 ELSE 0) \in Nat
      BY <2>1
    <3>3. ConsumedAfter(n, left, m) \in Int
      BY <1>2, <1>5
    <3> QED BY <3>1, <3>2, <3>3, Zenon
  <2>5. CopyOne(len, st, n) =
          [buf |-> buf \o piece, offset |-> offset, complete |-> done, byte |-> byte]
    BY <1>2, <1>3, <2>1, <2>4
  <2> QED BY <2>2, <2>3, <2>5 DEF FillStates
<1>7. /\ left = IF st.offset < Size(n) THEN Size(n) - st.offset ELSE 0
      /\ m <= left /\ Len(st.buf) + m <= len /\ (m = left \/ Len(st.buf) + m = len)
      /\ left >= 1 => m >= 1
  <2>1. PICK b \in Nat : b = Len(st.buf) /\ b <= len
    BY DEF FillStates
  <2>2. room = len - b
    BY <1>1, <2>1
  <2>4. room >= 1
    BY <1>1
  <2>3. b + m <= len /\ (m = left \/ b + m = len) /\ (left >= 1 => m >= 1) /\ m <= left
    BY <1>21, <2>2, <2>4
  <2> QED BY <1>1, <1>2, <2>1, <2>3
<1>8. /\ Len(piece) = m /\ \A i \in 1..m : piece[i] = Frame(n).data[st.offset + i]
  BY <1>1, <1>2
<1>9. /\ CopyOne(len, st, n).buf = st.buf \o piece
      /\ CopyOne(len, st, n).offset = IF m = left THEN 0 ELSE st.offset + m
      /\ CopyOne(len, st, n).complete = st.complete + (IF m = left THEN 1 ELSE 0)
      /\ CopyOne(len, st, n).byte = Cumul(n) - (IF m = left THEN 0 ELSE left - m)
  <2>1. CopyOne(len, st, n).buf = st.buf \o piece
    BY <1>3
  <2>2. CopyOne(len, st, n).offset = IF m = left THEN 0 ELSE st.offset + m
    BY <1>3
  <2>3. CopyOne(len, st, n).complete = st.complete + (IF m = left THEN 1 ELSE 0)
    BY <1>3
  <2>4. CopyOne(len, st, n).byte = ConsumedAfter(n, left, m)
    BY <1>3
  <2> QED BY <1>5, <2>1, <2>2, <2>3, <2>4
<1> QED BY <1>21, <1>22, <1>6, <1>7, <1>8, <1>9

\* Sequences of bytes, by a name that the provers need not open.
ByteSeq == Seq(Nat \X Nat)

LEMMA BytesJoin ==
  ASSUME NEW s \in ByteSeq, NEW t \in ByteSeq
  PROVE  /\ s \o t \in ByteSeq /\ Len(s \o t) = Len(s) + Len(t)
         /\ \A i \in 1..Len(s) : (s \o t)[i] = s[i]
         /\ \A i \in 1..Len(t) : (s \o t)[Len(s) + i] = t[i]
<1>1. PICK S : ByteSeq = Seq(S)
  BY DEF ByteSeq
<1> QED BY <1>1, Joining

LEMMA BytesRejoin ==
  ASSUME NEW s \in ByteSeq, NEW t \in ByteSeq, NEW u \in ByteSeq
  PROVE  s \o (t \o u) = (s \o t) \o u
<1>1. PICK S : ByteSeq = Seq(S)
  BY DEF ByteSeq
<1>2. s \in Seq(S) /\ t \in Seq(S) /\ u \in Seq(S)
  BY <1>1
<1> QED BY <1>2, ConcatAssociative

\* One turn of the loop keeps the reading at its marks.
LEMMA CopyOneKeeps ==
  ASSUME HistoryIsTheWrites, ArrivalsAreCounted, TypeOK, got \in Seq(Nat \X Nat),
         NEW len \in Nat, NEW k \in 1..Len(ReadyForDelivery), NEW st \in FillStates(len),
         FilledAfter(len, k - 1, st)
  PROVE  /\ CopyOne(len, st, ReadyForDelivery[k]) \in FillStates(len)
         /\ FilledAfter(len, k, CopyOne(len, st, ReadyForDelivery[k]))
<1>1. PICK n \in Frames, R \in Nat, l \in Int :
        /\ n = ReadyForDelivery[k] /\ R = Len(ReadyForDelivery) /\ l = LastMsgConsumed /\ n = l + k
  <2>1. ReadyForDelivery[k] \in Range(ReadyForDelivery)
    BY DEF Range, ArrivalsAreCounted
  <2>2. Range(ReadyForDelivery) \subseteq Frames /\ LastMsgConsumed \in Int
    BY TypeFacts DEF TypeOK
  <2>3. Len(ReadyForDelivery) \in Nat /\ ReadyForDelivery[k] = LastMsgConsumed + k
    BY DEF ArrivalsAreCounted
  <2> QED BY <2>1, <2>2, <2>3
<1>2. PICK buf \in Seq(Nat \X Nat), off \in Nat, done \in Nat, b \in Nat :
        buf = st.buf /\ off = st.offset /\ done = st.complete /\ b = Len(buf) /\ b <= len
  BY DEF FillStates
<1>3. /\ done <= k - 1 /\ (done < k - 1 => b = len)
      /\ ReadThrough(got \o buf, l + done, off)
      /\ off > 0 => done < R
      /\ st.byte = IF got \o buf = << >> THEN -1 ELSE Len(got \o buf)
  BY <1>1, <1>2 DEF FilledAfter
<1>4. k \in Int /\ k >= 1 /\ k <= R
  BY <1>1
<1>5. CASE b = len
  <2>1. CopyOne(len, st, ReadyForDelivery[k]) = st
    BY <1>2, <1>5 DEF CopyOne
  <2>2. done <= k /\ (done < k => b = len)
    BY <1>3, <1>4, <1>5
  <2>3. FilledAfter(len, k, st)
    BY <1>1, <1>2, <1>3, <2>2 DEF FilledAfter
  <2> QED BY <2>1, <2>3
<1>6. CASE b # len
  <2>1. done = k - 1 /\ l + done = n - 1
    BY <1>1, <1>3, <1>4, <1>6
  <2>2. PICK m \in Nat, left \in Nat, piece \in Seq(Nat \X Nat) :
          /\ left = IF st.offset < Size(n) THEN Size(n) - st.offset ELSE 0
          /\ m <= left /\ Len(st.buf) + m <= len /\ (m = left \/ Len(st.buf) + m = len)
          /\ left >= 1 => m >= 1
          /\ Len(piece) = m /\ \A i \in 1..m : piece[i] = Frame(n).data[st.offset + i]
          /\ CopyOne(len, st, n).buf = st.buf \o piece
          /\ CopyOne(len, st, n).offset = IF m = left THEN 0 ELSE st.offset + m
          /\ CopyOne(len, st, n).complete = st.complete + (IF m = left THEN 1 ELSE 0)
          /\ CopyOne(len, st, n).byte = Cumul(n) - (IF m = left THEN 0 ELSE left - m)
          /\ CopyOne(len, st, n) \in FillStates(len)
    <3>1. Len(st.buf) # len
      BY <1>2, <1>6
    <3> QED BY <3>1, CopyOneCopies
  <2>21. /\ left = (IF off < Size(n) THEN Size(n) - off ELSE 0)
         /\ m <= left /\ (m = left \/ b + m = len) /\ (left >= 1 => m >= 1)
         /\ Len(piece) = m
    BY <1>2, <2>2
  <2>3. PICK size \in Nat, c \in Nat, c0 \in Nat :
          /\ size = Size(n) /\ size >= 1 /\ c = Cumul(n) /\ c0 = Cumul(n - 1) /\ c = c0 + size
    <3>1. /\ Size(n) \in Nat /\ Size(n) >= 1 /\ Cumul(n) \in Nat /\ Cumul(n - 1) \in Nat
          /\ Cumul(n) = Cumul(n - 1) + Size(n)
      BY FrameFacts
    <3> QED BY <3>1
  <2>4. PICK bytes \in Seq(Nat \X Nat), L \in Nat : bytes = got \o buf /\ L = Len(bytes)
    BY Joining
  <2>5. ReadThrough(bytes, n - 1, off)
    BY <1>3, <2>1, <2>4
  <2>6. off < size /\ L = c0 + off
    <3>1. off > 0 => off < Size(n - 1 + 1)
      BY <2>5 DEF ReadThrough
    <3>2. n - 1 + 1 = n
      BY <1>1
    <3>3. off < size
      BY <2>3, <3>1, <3>2
    <3>4. L = c0 + off
      BY <2>3, <2>4, <2>5 DEF ReadThrough
    <3> QED BY <3>3, <3>4
  <2>7. left = size - off /\ m >= 1 /\ off + m <= size /\ (m = left <=> off + m = size)
    <3>1. left = size - off
      BY <2>21, <2>3, <2>6
    <3>2. m <= left /\ (left >= 1 => m >= 1)
      BY <2>21
    <3>3. left >= 1
      BY <2>6, <3>1
    <3> QED BY <3>1, <3>2, <3>3
  <2>8. PICK more \in Seq(Nat \X Nat) :
          more = got \o (buf \o piece) /\ ContinuesWith(more, bytes, Frame(n).data, off, m)
          /\ Len(more) = L + m
    <3>1. got \o (buf \o piece) = bytes \o piece
      <4>1. got \in ByteSeq /\ buf \in ByteSeq /\ piece \in ByteSeq
        BY <1>2, <2>2 DEF ByteSeq
      <4>2. got \o (buf \o piece) = (got \o buf) \o piece
        BY <4>1, BytesRejoin
      <4> QED BY <2>4, <4>2, Zenon
    <3>2. /\ bytes \o piece \in Seq(Nat \X Nat)
          /\ Len(bytes \o piece) = Len(bytes) + Len(piece)
          /\ \A i \in 1..Len(bytes) : (bytes \o piece)[i] = bytes[i]
          /\ \A i \in 1..Len(piece) : (bytes \o piece)[Len(bytes) + i] = piece[i]
      <4>1. bytes \in ByteSeq /\ piece \in ByteSeq
        BY <2>2, <2>4 DEF ByteSeq
      <4>2. /\ bytes \o piece \in ByteSeq /\ Len(bytes \o piece) = Len(bytes) + Len(piece)
            /\ \A i \in 1..Len(bytes) : (bytes \o piece)[i] = bytes[i]
            /\ \A i \in 1..Len(piece) : (bytes \o piece)[Len(bytes) + i] = piece[i]
        BY <4>1, BytesJoin
      <4>3. bytes \o piece \in Seq(Nat \X Nat)
        BY <4>2 DEF ByteSeq
      <4> QED BY <4>2, <4>3, Zenon
    <3>3. \A i \in 1..m : piece[i] = Frame(n).data[off + i]
      BY <1>2, <2>2
    <3>4. Len(bytes) = L /\ Len(piece) = m
      BY <2>21, <2>4
    <3>5. ContinuesWith(bytes \o piece, bytes, Frame(n).data, off, m)
      BY <3>2, <3>3, <3>4 DEF ContinuesWith
    <3> QED BY <3>1, <3>2, <3>4, <3>5
  <2>9. IF off + m = Size(n) THEN ReadThrough(more, n, 0) ELSE ReadThrough(more, n - 1, off + m)
    <3>1. off < Size(n) /\ off + m <= Size(n)
      BY <2>3, <2>6, <2>7
    <3> QED BY <2>5, <2>7, <2>8, <3>1, CopyExtends
  <2>10. PICK st2 \in FillStates(len) :
           /\ st2 = CopyOne(len, st, n)
           /\ st2.buf = buf \o piece
           /\ st2.offset = (IF m = left THEN 0 ELSE off + m)
           /\ st2.complete = done + (IF m = left THEN 1 ELSE 0)
           /\ st2.byte = Cumul(n) - (IF m = left THEN 0 ELSE left - m)
    BY <1>2, <2>2
  <2>11. got \o st2.buf = more /\ more # << >>
    BY <2>7, <2>8, <2>10
  <2>12. st2.byte = Len(more)
    <3>1. c - (IF m = left THEN 0 ELSE left - m) = L + m
      <4>1. c = c0 + size /\ L = c0 + off /\ left = size - off
        BY <2>3, <2>6, <2>7
      <4>2. CASE m = left
        BY <4>1, <4>2
      <4>3. CASE m # left
        BY <4>1, <4>3
      <4> QED BY <4>2, <4>3
    <3> QED BY <2>3, <2>8, <2>10, <3>1
  <2>13. CASE m = left
    <3>1. st2.offset = 0 /\ st2.complete = k
      <4>1. done + 1 = k
        BY <1>4, <2>1
      <4> QED BY <2>10, <2>13, <4>1
    <3>2. ReadThrough(more, l + k, 0)
      <4>1. off + m = Size(n) /\ n = l + k
        BY <1>1, <2>3, <2>7, <2>13
      <4> QED BY <2>9, <4>1
    <3>3. FilledAfter(len, k, st2)
      BY <1>1, <1>4, <2>11, <2>12, <3>1, <3>2, SMTT(30) DEF FilledAfter
    <3> QED BY <1>1, <2>10, <3>3
  <2>14. CASE m # left
    <3>1. st2.offset = off + m /\ st2.complete = k - 1
      <4>1. done + 0 = k - 1
        BY <1>4, <2>1
      <4> QED BY <2>10, <2>14, <4>1
    <3>2. ReadThrough(more, l + (k - 1), off + m)
      BY <2>1, <2>3, <2>7, <2>9, <2>14
    <3>3. Len(st2.buf) = len
      <4>1. Len(buf \o piece) = b + m
        <5> DEFINE S == Nat \X Nat
        <5>1. buf \in Seq(S) /\ piece \in Seq(S) /\ Len(piece) = m
          BY <1>2, <2>2
        <5> HIDE DEF S
        <5>2. Len(buf \o piece) = Len(buf) + Len(piece)
          BY <5>1, Joining, Zenon
        <5>3. Len(buf) = b
          BY <1>2
        <5> QED BY <5>1, <5>2, <5>3, Zenon
      <4> QED BY <2>21, <2>10, <2>14, <4>1
    <3>4. k - 1 <= k /\ k - 1 < R
      BY <1>4
    <3>5. FilledAfter(len, k, st2)
      BY <1>1, <2>11, <2>12, <3>1, <3>2, <3>3, <3>4 DEF FilledAfter
    <3> QED BY <1>1, <2>10, <3>5
  <2> QED BY <2>13, <2>14
<1> QED BY <1>5, <1>6

LEMMA TurnsAreStates ==
  ASSUME HistoryIsTheWrites, NEW n \in Frames, NEW len \in Nat, NEW st \in FillStates(len)
  PROVE  CopyOne(len, st, n) \in FillStates(len)
<1>1. CASE Len(st.buf) = len
  BY <1>1 DEF CopyOne
<1>2. CASE Len(st.buf) # len
  BY <1>2, CopyOneCopies
<1> QED BY <1>1, <1>2

LEMMA NothingFilledYet ==
  ASSUME StreamInv, NEW len \in Nat
  PROVE  NothingFilled \in FillStates(len) /\ FilledAfter(len, 0, NothingFilled)
<1>1. PICK s \in Seq(Nat \X Nat), off \in Nat, byte \in Int, l \in Int, R \in Nat :
        /\ s = got /\ off = DataOffset /\ byte = LastByteConsumed /\ l = LastMsgConsumed
        /\ R = Len(ReadyForDelivery) /\ (off > 0 => 0 < R)
        /\ ReadingIsAtItsMarks
  <2>1. got \in Seq(Nat \X Nat) /\ DataOffset \in Nat /\ LastByteConsumed \in Int
        /\ LastMsgConsumed \in Int /\ Len(ReadyForDelivery) \in Nat
    BY TypeFacts DEF StreamInv, TypeOK, ReadingIsAtItsMarks, ArrivalsAreCounted
  <2>2. DataOffset > 0 => 0 < Len(ReadyForDelivery)
    <3>1. ReadyForDelivery # << >> => 0 < Len(ReadyForDelivery)
      BY DEF StreamInv, ArrivalsAreCounted
    <3> QED BY <3>1 DEF StreamInv, ReadingIsAtItsMarks
  <2> QED BY <2>1, <2>2 DEF StreamInv
<1>2. /\ NothingFilled.buf = << >> /\ NothingFilled.offset = off /\ NothingFilled.complete = 0
      /\ NothingFilled.byte = byte
  BY <1>1 DEF NothingFilled
<1>3. NothingFilled \in FillStates(len)
  <2>1. << >> \in Seq(Nat \X Nat) /\ Len(<< >>) <= len
    OBVIOUS
  <2>2. NothingFilled = [buf |-> << >>, offset |-> off, complete |-> 0, byte |-> byte]
    BY <1>1 DEF NothingFilled
  <2> QED BY <1>1, <2>1, <2>2 DEF FillStates
<1>4. got \o NothingFilled.buf = got
  <2>1. s \o << >> = s
    BY <1>1, ConcatEmptySeq
  <2> QED BY <1>1, <1>2, <2>1
<1>5. l + 0 = l
  BY <1>1
<1>6. /\ ReadThrough(got, l, off)
      /\ byte = IF got = << >> THEN -1 ELSE Len(got)
  BY <1>1 DEF ReadingIsAtItsMarks
<1> QED BY <1>1, <1>2, <1>3, <1>4, <1>5, <1>6 DEF FilledAfter

\* The loop ends with the bytes of the ready packets it dropped and those it took
\* of the packet it stopped in.
LEMMA FilledIs ==
  ASSUME StreamInv, NEW len \in Nat
  PROVE  /\ Filled(len) \in FillStates(len)
         /\ FilledAfter(len, Len(ReadyForDelivery), Filled(len))
<1> DEFINE N == Len(ReadyForDelivery)
           St == FillStates(len)
           turn(k, st) == CopyOne(len, st, ReadyForDelivery[k])
           run == CHOOSE f : f = [k \in 0..N |-> IF k = 0 THEN NothingFilled
                                                ELSE turn(k, f[k - 1])]
           g == [k \in 1..N |-> [st \in St |-> turn(k, st)]]
<1>0. TypeOK /\ HistoryIsTheWrites /\ ArrivalsAreCounted /\ ReadingIsAtItsMarks
  BY DEF StreamInv
<1>1. N \in Nat /\ got \in Seq(Nat \X Nat)
  BY <1>0 DEF ArrivalsAreCounted, ReadingIsAtItsMarks
<1>2. Filled(len) = run[N]
  BY DEF Filled
<1>3. ASSUME NEW k \in 1..N, NEW st \in St
      PROVE  turn(k, st) \in St
  <2>1. ReadyForDelivery[k] \in Frames
    <3>1. ReadyForDelivery[k] \in Range(ReadyForDelivery)
      BY <1>0 DEF Range, ArrivalsAreCounted
    <3> QED BY <1>0, <3>1 DEF TypeOK
  <2> QED BY <1>0, <2>1, TurnsAreStates
<1>31. ASSUME NEW k \in 1..N, NEW st \in St, FilledAfter(len, k - 1, st)
       PROVE  FilledAfter(len, k, turn(k, st))
  BY <1>0, <1>1, <1>31, CopyOneKeeps
<1>4. NothingFilled \in St /\ FilledAfter(len, 0, NothingFilled)
  BY NothingFilledYet
<1> HIDE DEF N, St, turn
<1>5. g \in [1..N -> [St -> St]]
  BY <1>3
<1>6. PICK f \in [0..N -> St] : IsRunOf(f, N, NothingFilled, g)
  <2> HIDE DEF g
  <2>1. \E f \in [0..N -> St] : IsRunOf(f, N, NothingFilled, g)
    BY <1>1, <1>4, <1>5, RunExists
  <2> QED BY <2>1
<1>7. f = [k \in 0..N |-> IF k = 0 THEN NothingFilled ELSE turn(k, f[k - 1])]
  <2>1. f = [k \in 0..N |-> IF k = 0 THEN NothingFilled ELSE g[k][f[k - 1]]]
    BY <1>6 DEF IsRunOf
  <2>2. ASSUME NEW k \in 0..N, k # 0
        PROVE  g[k][f[k - 1]] = turn(k, f[k - 1])
    <3>1. k \in 1..N /\ f[k - 1] \in St
      BY <1>1, <1>6, <2>2
    <3> QED BY <3>1
  <2> HIDE DEF g
  <2> QED BY <2>1, <2>2
<1>8. run = [k \in 0..N |-> IF k = 0 THEN NothingFilled ELSE turn(k, run[k - 1])]
  BY <1>7
<1> HIDE DEF run, g
<1> DEFINE S == {n \in Nat : n <= N => run[n] \in St /\ FilledAfter(len, n, run[n])}
<1>9. 0 \in S
  <2>1. run[0] = NothingFilled
    BY <1>1, <1>8
  <2> QED BY <1>4, <2>1
<1>10. ASSUME NEW n \in Nat, n \in S
       PROVE  n + 1 \in S
  <2> SUFFICES ASSUME n + 1 <= N
               PROVE  run[n + 1] \in St /\ FilledAfter(len, n + 1, run[n + 1])
    OBVIOUS
  <2>1. PICK k \in 1..N : k = n + 1 /\ k - 1 = n /\ k \in 0..N /\ k # 0
    BY <1>1
  <2>2. run[k - 1] \in St /\ FilledAfter(len, k - 1, run[k - 1])
    BY <1>1, <1>10, <2>1
  <2>3. run[k] = turn(k, run[k - 1])
    <3>1. \A j \in 0..N : run[j] = IF j = 0 THEN NothingFilled ELSE turn(j, run[j - 1])
      BY <1>8, Zenon
    <3> QED BY <2>1, <3>1, Zenon
  <2>4. run[k] \in St /\ FilledAfter(len, k, run[k])
    BY <1>3, <1>31, <2>2, <2>3, Zenon
  <2> QED BY <2>1, <2>4
<1> HIDE DEF S
<1>11. S = Nat
  <2>1. S \in SUBSET Nat
    BY DEF S
  <2> QED BY <1>9, <1>10, <2>1, Induct
<1>12. run[N] \in St /\ FilledAfter(len, N, run[N])
  <2>1. N \in S /\ N <= N
    BY <1>1, <1>11
  <2>2. \A n \in S : n <= N => run[n] \in St /\ FilledAfter(len, n, run[n])
    BY Zenon DEF S
  <2> QED BY <2>1, <2>2, Zenon
<1>13. Filled(len) \in St /\ FilledAfter(len, N, Filled(len))
  BY <1>2, <1>12, Zenon
<1> QED BY <1>13 DEF N, St

\* Bytes read through packets that arrived are bytes that were counted.
LEMMA ReadStaysBehind ==
  ASSUME HistoryIsTheWrites, NEW n \in -1..LastFrameSent, NEW largest \in -1..LastFrameSent,
         NEW off \in Nat, NEW bytes, ReadThrough(bytes, n, off), n <= largest,
         off > 0 => n < largest
  PROVE  Len(bytes) \in Nat /\ Len(bytes) <= Cumul(largest) /\ off <= Sz
<1>1. LastFrameSent \in Int /\ n \in Int /\ largest \in Int
  BY DEF HistoryIsTheWrites, LastFrameSent
<1>2. PICK c \in Nat, top \in Nat : c = Cumul(n) /\ top = Cumul(largest) /\ c <= top
  BY <1>1, CumulFacts
<1>3. Len(bytes) = c + off
  BY <1>2 DEF ReadThrough
<1>4. CASE off = 0
  BY <1>2, <1>3, <1>4, SzIsPositive
<1>5. CASE off # 0
  <2>1. PICK m \in Frames : m = n + 1 /\ m <= largest /\ m - 1 = n
    BY <1>1, <1>5 DEF Frames
  <2>2. PICK size \in Nat, d \in Nat :
          size = Size(m) /\ size <= Sz /\ d = Cumul(m) /\ d = c + size
    <3>1. /\ Cumul(m) = Cumul(m - 1) + Size(m) /\ Cumul(m) \in Nat /\ Size(m) \in Nat
          /\ Size(m) <= Sz
      BY FrameFacts
    <3> QED BY <1>2, <2>1, <3>1
  <2>3. off < size
    BY <1>5, <2>1, <2>2 DEF ReadThrough
  <2>4. d <= top
    <3>1. m \in -1..LastFrameSent
      BY <1>1, <2>1 DEF Frames
    <3> QED BY <1>1, <1>2, <2>1, <2>2, <3>1, CumulFacts
  <2>5. c + off <= c + size /\ off <= Sz
    <3>1. off <= size /\ size <= Sz /\ Sz \in Nat
      BY <2>2, <2>3, SzIsPositive
    <3> QED BY <3>1
  <2> QED BY <1>2, <1>3, <2>2, <2>4, <2>5
<1> QED BY <1>4, <1>5

\* What Consume does to the ready list.
LEMMA ConsumeTakes ==
  ASSUME StreamInv, NEW k \in 0..Len(ReadyForDelivery), NEW byte, Consume(k, byte)
  PROVE  /\ LastMsgConsumed' = LastMsgConsumed + k
         /\ ReadyForDelivery' \in Seq(Nat)
         /\ Len(ReadyForDelivery') = Len(ReadyForDelivery) - k
         /\ \A i \in 1..Len(ReadyForDelivery') : ReadyForDelivery'[i] = LastMsgConsumed' + i
         /\ LastFrameClientConsumed' = IF LastMsgConsumed' = -1 THEN 0 ELSE LastMsgConsumed'
<1>1. PICK s \in Seq(Nat), N \in Nat, l \in Int, r \in Nat :
        /\ s = ReadyForDelivery /\ N = Len(s) /\ l = LastMsgConsumed /\ l >= -1 /\ r = N - k
        /\ k \in Nat /\ k <= N
  BY TypeFacts
<1>2. \A i \in 1..N : s[i] = l + i
  BY <1>1 DEF StreamInv, ArrivalsAreCounted
<1>3. LastMsgConsumed' = l + k
  <2>1. CASE k = 0
    BY <1>1, <2>1 DEF Consume
  <2>2. CASE k # 0
    <3>1. k \in 1..N
      BY <1>1, <2>2
    <3>2. LastMsgConsumed' = s[k]
      BY <1>1, <2>2 DEF Consume
    <3> QED BY <1>2, <3>1, <3>2
  <2> QED BY <2>1, <2>2
<1>4. ReadyForDelivery' = SubSeq(s, k + 1, k + r)
  <2>1. k + r = N
    BY <1>1
  <2> QED BY <1>1, <2>1 DEF Consume
<1>5. /\ ReadyForDelivery' \in Seq(Nat) /\ Len(ReadyForDelivery') = r
      /\ \A i \in 1..r : ReadyForDelivery'[i] = s[k + i]
  <2>1. k + r <= Len(s)
    BY <1>1
  <2>2. /\ SubSeq(s, k + 1, k + r) \in Seq(Nat) /\ Len(SubSeq(s, k + 1, k + r)) = r
        /\ \A i \in 1..r : SubSeq(s, k + 1, k + r)[i] = s[k + i]
    BY <1>1, <2>1, Taking
  <2> QED BY <1>4, <2>2
<1>6. ASSUME NEW i \in 1..r
      PROVE  ReadyForDelivery'[i] = l + k + i
  <2>1. k + i \in 1..N /\ l + (k + i) = l + k + i
    BY <1>1
  <2> QED BY <1>2, <1>5, <2>1
<1>7. LastFrameClientConsumed' = IF LastMsgConsumed' = -1 THEN 0 ELSE LastMsgConsumed'
  <2>1. CASE k = 0
    BY <2>1 DEF Consume, StreamInv, ReadingIsAtItsMarks
  <2>2. CASE k # 0
    <3>1. LastFrameClientConsumed' = LastMsgConsumed'
      BY <2>2 DEF Consume
    <3>2. l + k # -1
      BY <1>1, <2>2
    <3> QED BY <1>3, <3>1, <3>2
  <2> QED BY <2>1, <2>2
<1> QED BY <1>1, <1>3, <1>5, <1>6, <1>7

\* LastByteConsumed when the bytes are those read.
ByteMark(bytes) == IF bytes = << >> THEN -1 ELSE Len(bytes)

\* Both kinds of consumption: k packets are complete, off bytes of the next one
\* are read, and the consumer has more.
LEMMA ConsumeKeeps ==
  ASSUME StreamInv, NEW k \in 0..Len(ReadyForDelivery), NEW more \in Seq(Nat \X Nat),
         NEW off \in Nat, NEW byte \in Int,
         got' = more, DataOffset' = off, Consume(k, byte),
         ReadThrough(more, LastMsgConsumed + k, off), off > 0 => k < Len(ReadyForDelivery),
         byte = ByteMark(more), got # << >> => more # << >>
  PROVE  StreamInv'
<1>1. /\ TypeOK /\ HistoryIsTheWrites /\ ArrivalsAreCounted /\ ReadingIsAtItsMarks
      /\ AcksAreHonest /\ CreditsAreEarned
  BY DEF StreamInv
<1>2. /\ UNCHANGED <<writerVars, orderVars, largestVars, recvLastFrameClientConsumed>>
      /\ UNCHANGED <<sentVars, write, pushed, senderDone, creditVars, SentButNotAcked, result,
                     flowSeen, SendHistory>>
      /\ LastByteConsumed' = byte
  BY DEF Consume, writerVars, sentVars, appVars
<1>3. /\ LastFrameSent' = LastFrameSent /\ Frames' = Frames /\ OldFramesStay
  BY <1>1, <1>2, SameHistory, FramesStay
<1>4. /\ LastMsgConsumed' = LastMsgConsumed + k
      /\ ReadyForDelivery' \in Seq(Nat)
      /\ Len(ReadyForDelivery') = Len(ReadyForDelivery) - k
      /\ \A i \in 1..Len(ReadyForDelivery') : ReadyForDelivery'[i] = LastMsgConsumed' + i
      /\ LastFrameClientConsumed' = IF LastMsgConsumed' = -1 THEN 0 ELSE LastMsgConsumed'
  BY ConsumeTakes
<1>5. PICK last \in Int, largest \in -1..LastFrameSent, N \in Nat, l \in Int, l2 \in Int,
           maxCumul \in Nat :
        /\ last = LastFrameSent /\ largest = LargestSeqnoRcvd /\ N = Len(ReadyForDelivery)
        /\ l = LastMsgConsumed /\ l >= -1 /\ l2 = l + k /\ l2 = LastMsgConsumed'
        /\ l + N <= largest /\ largest <= last /\ k <= N
        /\ NextFrameExpected = l + N + 1 /\ NextFrameExpected <= largest + 1
        /\ maxCumul = MaxCumulBytesTrans /\ maxCumul = Cumul(largest)
        /\ maxCumul <= TotalBytesSent
  <2>1. /\ LastFrameSent \in Int /\ LargestSeqnoRcvd \in -1..LastFrameSent
        /\ Len(ReadyForDelivery) \in Nat /\ LastMsgConsumed \in -1..LastFrameSent
        /\ MaxCumulBytesTrans \in 0..TotalBytesSent /\ TotalBytesSent \in Nat
    BY <1>1, TypeFacts DEF TypeOK
  <2>2. /\ NextFrameExpected = LastMsgConsumed + Len(ReadyForDelivery) + 1
        /\ NextFrameExpected <= LargestSeqnoRcvd + 1
        /\ MaxCumulBytesTrans = Cumul(LargestSeqnoRcvd)
    BY <1>1 DEF ArrivalsAreCounted
  <2>3. LastMsgConsumed + Len(ReadyForDelivery) <= LargestSeqnoRcvd
    BY <2>1, <2>2
  <2>4. /\ LastFrameSent \in Int /\ LargestSeqnoRcvd \in -1..LastFrameSent
        /\ Len(ReadyForDelivery) \in Nat /\ LastMsgConsumed \in Int
        /\ LastMsgConsumed + k \in Int /\ MaxCumulBytesTrans \in Nat
        /\ LastMsgConsumed >= -1 /\ LargestSeqnoRcvd <= LastFrameSent
        /\ k <= Len(ReadyForDelivery) /\ MaxCumulBytesTrans <= TotalBytesSent
    BY <2>1
  <2>5. LastMsgConsumed + k = LastMsgConsumed'
    BY <1>4
  <2> QED BY <2>2, <2>3, <2>4, <2>5, Zenon
<1>6. /\ l2 \in -1..LastFrameSent /\ l2 <= largest /\ (off > 0 => l2 < largest) /\ l <= l2
      /\ N - k >= 0 /\ l2 + (N - k) + 1 = l + N + 1 /\ l2 + (N - k) <= largest /\ l2 >= -1
      /\ k \in Nat
  <2>1. k \in Nat
    OBVIOUS
  <2>2. off > 0 => l2 < largest
    <3>1. ASSUME k < N
          PROVE  l2 < largest
      BY <1>5, <2>1, <3>1
    <3> QED BY <1>5, <3>1
  <2>3. l2 <= largest /\ l <= l2 /\ l2 >= -1 /\ N - k >= 0
    BY <1>5, <2>1
  <2>4. l2 + (N - k) + 1 = l + N + 1 /\ l2 + (N - k) <= largest
    BY <1>5, <2>1
  <2>5. l2 \in -1..LastFrameSent
    BY <1>5, <2>3
  <2> QED BY <1>5, <2>1, <2>2, <2>3, <2>4, <2>5
<1>7. Len(more) \in Nat /\ Len(more) <= maxCumul /\ off <= Sz
  <2>1. ReadThrough(more, l2, off)
    BY <1>5
  <2> QED BY <1>1, <1>5, <1>6, <2>1, ReadStaysBehind
<1>8. HistoryIsTheWrites'
  BY <1>1, <1>2, HistoryStands
<1>9. ArrivalsAreCounted'
  <2>1. /\ \A n \in Rxq' : n <= LargestSeqnoRcvd'
        /\ MaxCumulBytesTrans' = Cumul(LargestSeqnoRcvd)' /\ CumulNeverPanics'
        /\ NextFrameExpected' = NextFrameExpected /\ LargestSeqnoRcvd' = LargestSeqnoRcvd
    BY <1>1, <1>2 DEF ArrivalsAreCounted, orderVars, largestVars, CumulNeverPanics, Cumul, Frame
  <2>2. /\ NextFrameExpected' = LastMsgConsumed' + Len(ReadyForDelivery') + 1
        /\ NextFrameExpected' <= LargestSeqnoRcvd' + 1
    <3>1. Len(ReadyForDelivery') = N - k
      BY <1>4, <1>5
    <3> QED BY <1>5, <1>6, <2>1, <3>1
  <2> QED BY <1>4, <2>1, <2>2 DEF ArrivalsAreCounted
<1>10. ReadingIsAtItsMarks'
  <2>1. ReadThrough(more, l2, off)'
    <3>1. ReadThrough(more, l2, off)
      BY <1>5
    <3>2. Len(more) = 0 <=> more = << >>
      OBVIOUS
    <3> QED BY <1>1, <1>3, <1>6, <3>1, <3>2, ReadThroughStands
  <2>2. ReadThrough(got, LastMsgConsumed, DataOffset)'
    BY <1>5, <2>1 DEF ReadThrough, Consecutive, NextByte, Cumul, Frame, LastByte, Size,
                      LastFrameSent
  <2>3. off > 0 => ReadyForDelivery' # << >>
    <3>1. off > 0 => Len(ReadyForDelivery') # 0
      BY <1>4, <1>5, SMTT(30)
    <3> QED BY <3>1
  <2> QED BY <1>2, <1>4, <2>2, <2>3 DEF ReadingIsAtItsMarks, ByteMark
<1>11. LastMsgConsumed \in Int /\ LastMsgConsumed' \in Int /\ LastMsgConsumed' >= LastMsgConsumed
       /\ LastMsgConsumed <= LastMsgConsumed' /\ (got # << >> => got' # << >>)
  BY <1>5, <1>6
<1>12. CreditsAreEarned'
  BY <1>1, <1>2, <1>11, CreditsStand
<1>13. /\ InventedByte \in {0, 1} /\ InventedByte' \in {0, 1} /\ InventedByte <= InventedByte'
       /\ byte + 1 - maxCumul <= InventedByte'
  <2>1. InventedByte \in {0, 1} /\ InventedByte' \in {0, 1} /\ InventedByte <= InventedByte'
    BY <1>11 DEF InventedByte
  <2>2. CASE more = << >>
    <3>1. byte = -1
      BY <2>2 DEF ByteMark
    <3> QED BY <1>5, <2>1, <3>1, SMTT(30)
  <2>3. CASE more # << >>
    <3>1. InventedByte' = 1 /\ byte = Len(more)
      BY <2>3 DEF InventedByte, ByteMark
    <3> QED BY <1>5, <1>7, <2>1, <3>1
  <2> QED BY <2>2, <2>3
<1>14. PICK x \in {0, 1} : x = InventedByte' /\ byte + 1 - maxCumul <= x
  BY <1>13
<1>19. largest \in Int /\ maxCumul \in Int /\ l2 \in Int /\ l2 <= largest
  BY <1>5, <1>6
<1>15. flow.bytes <= WindowByteSz + x
  <2>1. PICK b \in Nat, y \in {0, 1}, sz \in Nat : b = flow.bytes /\ y = InventedByte /\ sz = WindowByteSz
    BY <1>1, <1>13, BytesAssumption DEF AcksAreHonest, BytesAssumption
  <2>2. b <= sz + y /\ y <= x
    BY <1>1, <1>13, <1>14, <2>1 DEF AcksAreHonest
  <2>3. b <= sz + x
    BY <2>2
  <2> QED BY <2>1, <2>3
<1>16. /\ flow' \in [msg : Nat, bytes : Nat]
       /\ flow'.msg \in 0..WindowMsgCount /\ flow'.bytes <= WindowByteSz + x
       /\ flow'.bytes \in 0..(WindowByteSz + 1)
  <2>1. CASE k = 0
    <3>1. flow' = flow
      BY <2>1 DEF Consume
    <3>2. /\ flow \in [msg : Nat, bytes : Nat] /\ flow.msg \in 0..WindowMsgCount
          /\ flow.bytes \in 0..(WindowByteSz + 1)
      BY <1>1 DEF TypeOK, AcksAreHonest
    <3> QED BY <1>15, <3>1, <3>2
  <2>2. CASE k # 0
    <3>1. UpdateControl(largest, maxCumul, l2, byte)
      BY <1>5, <2>2 DEF Consume
    <3>2. TypeOK /\ AcksAreHonest
      BY <1>1
    <3> QED BY <1>14, <1>15, <1>19, <3>1, <3>2, FlowIsBounded
  <2> QED BY <2>1, <2>2
<1>17. AcksAreHonest'
  <2>1. \/ acks' = acks
        \/ \E m \in [ack : Nat, msg : Int, bytes : Int] :
             /\ acks' = acks \cup {m} /\ IsAckNum(m.ack)'
             /\ m.bytes <= WindowByteSz + InventedByte'
    <3>1. CASE k = 0
      BY <3>1 DEF Consume
    <3>2. CASE k # 0
      <4>1. /\ MsgCap(largest, l2) \in Int /\ BytesCap(maxCumul, byte) \in Int
            /\ BytesCap(maxCumul, byte) <= WindowByteSz + x
        <5>1. /\ largest \in Int /\ maxCumul \in Int /\ l2 \in Int /\ byte \in Int
              /\ x \in {0, 1} /\ l2 <= largest /\ byte + 1 - maxCumul <= x
          BY <1>14, <1>19
        <5>2. WindowMsgCount \in Int /\ WindowByteSz \in Int
          BY BytesAssumption DEF BytesAssumption
        <5>3. MsgCap(largest, l2) \in Int
          BY <5>1, <5>2 DEF MsgCap
        <5>4. BytesCap(maxCumul, byte) \in Int
          BY <5>1, <5>2 DEF BytesCap
        <5>5. BytesCap(maxCumul, byte) <= WindowByteSz + x
          BY <5>1, <5>2 DEF BytesCap
        <5> QED BY <5>3, <5>4, <5>5
      <4>2. PICK cap \in Int, bcap \in Int, a \in Nat :
              /\ cap = MsgCap(largest, l2) /\ bcap = BytesCap(maxCumul, byte)
              /\ a = LastFrameClientConsumed' /\ a = l2
        <5>1. l2 \in Nat /\ l2 # -1
          BY <1>5, <1>6, <3>2
        <5> QED BY <1>4, <1>5, <4>1, <5>1
      <4>3. acks' = acks \cup {[ack |-> a, msg |-> cap, bytes |-> bcap]}
        <5>1. SendAck(LastFrameClientConsumed', LargestSeqnoRcvd, MaxCumulBytesTrans,
                      LastMsgConsumed', byte)
          BY <3>2 DEF Consume
        <5> QED BY <1>5, <4>2, <5>1 DEF SendAck
      <4>4. IsAckNum(a)'
        <5>1. a = 0 \/ a \in 1..l2
          BY <4>2
        <5> QED BY <1>5, <5>1 DEF IsAckNum
      <4>5. bcap <= WindowByteSz + InventedByte'
        BY <1>14, <4>1, <4>2
      <4> QED BY <4>3, <4>4, <4>5, SentAckIsHonest
    <3> QED BY <3>1, <3>2
  <2>2. flow' \in [msg : Nat, bytes : Nat] /\ flow'.bytes <= WindowByteSz + InventedByte'
    BY <1>14, <1>16
  <2> QED BY <1>1, <1>2, <1>11, <2>1, <2>2, AcksStayHonest
<1>18. TypeOK'
  <2>1. Range(ReadyForDelivery') \subseteq 0..LastFrameSent
    <3>1. PICK s \in Seq(Nat) : s = ReadyForDelivery'
      BY <1>4
    <3>2. l2 + Len(s) <= last
      BY <1>4, <1>5, <1>6, <3>1
    <3>3. \A i \in 1..Len(s) : s[i] = l2 + i
      BY <1>4, <1>5, <3>1
    <3> QED BY <1>5, <1>6, <3>1, <3>2, <3>3, RunsOfFrames
  <2>2. byte \in -1..TotalBytesSent
    <3>1. TotalBytesSent \in Nat
      BY <1>1 DEF TypeOK
    <3>2. CASE more = << >>
      BY <3>1, <3>2 DEF ByteMark
    <3>3. CASE more # << >>
      BY <1>5, <1>7, <3>1, <3>3, SMTT(30) DEF ByteMark
    <3> QED BY <3>2, <3>3
  <2>3. DataOffset' \in 0..Sz
    BY <1>7, SzIsPositive
  <2>4. LastMsgConsumed' \in -1..LastFrameSent
    BY <1>5, <1>6
  <2> QED BY <1>1, <1>2, <1>3, <1>16, <2>1, <2>2, <2>3, <2>4
          DEF TypeOK, Frames, creditVars, sentVars, orderVars, largestVars, Sz, Min2
<1> QED BY <1>8, <1>9, <1>10, <1>12, <1>17, <1>18 DEF StreamInv

LEMMA ReadKeeps ==
  ASSUME StreamInv, NEW len \in ReadSizes, Read(len)
  PROVE  StreamInv'
<1>1. len \in Nat
  BY BytesAssumption DEF BytesAssumption
<1>2. PICK st \in FillStates(len), N \in Nat :
        /\ st = Filled(len) /\ N = Len(ReadyForDelivery) /\ FilledAfter(len, N, st)
  <2>1. Len(ReadyForDelivery) \in Nat
    BY TypeFacts
  <2>2. /\ Filled(len) \in FillStates(len)
        /\ FilledAfter(len, Len(ReadyForDelivery), Filled(len))
    BY <1>1, FilledIs
  <2> QED BY <2>1, <2>2, Zenon
<1>3. /\ got' = got \o st.buf /\ DataOffset' = st.offset /\ Consume(st.complete, st.byte)
  BY <1>2 DEF Read
<1>4. PICK buf \in Seq(Nat \X Nat), off \in Nat, k \in Nat, byte \in Int, g \in Seq(Nat \X Nat) :
        /\ buf = st.buf /\ off = st.offset /\ k = st.complete /\ byte = st.byte /\ g = got
  BY DEF FillStates, StreamInv, ReadingIsAtItsMarks
<1>5. PICK more \in Seq(Nat \X Nat) : more = got \o buf /\ (got # << >> => more # << >>)
  <2>1. g \o buf \in Seq(Nat \X Nat) /\ (g # << >> => g \o buf # << >>)
    BY Joining
  <2> QED BY <1>4, <2>1
<1>6. /\ k \in 0..N /\ (off > 0 => k < N) /\ byte = ByteMark(more)
      /\ ReadThrough(more, LastMsgConsumed + k, off)
  BY <1>2, <1>4, <1>5 DEF FilledAfter, ByteMark
<1>7. got' = more /\ DataOffset' = off /\ Consume(k, byte)
  BY <1>3, <1>4, <1>5
<1> QED BY <1>2, <1>5, <1>6, <1>7, ConsumeKeeps

\* A loop whose buffer is as long as all the bytes sent drops every ready packet.
LEMMA AllFilled ==
  ASSUME StreamInv, ReadyForDelivery # << >>
  PROVE  \E more \in Seq(Nat \X Nat) :
           /\ more = got \o Filled(TotalBytesSent).buf
           /\ ReadThrough(more, LastMsgConsumed + Len(ReadyForDelivery), 0)
           /\ more # << >>
           /\ Frame(ReadyForDelivery[Len(ReadyForDelivery)]).cumul = ByteMark(more)
<1>0. HistoryIsTheWrites /\ ArrivalsAreCounted
  BY DEF StreamInv
<1>1. PICK total \in Nat, N \in Nat, l \in Int, last \in Int :
        /\ total = TotalBytesSent /\ N = Len(ReadyForDelivery) /\ N >= 1 /\ l = LastMsgConsumed
        /\ l >= -1 /\ last = LastFrameSent /\ l + N <= last
  <2>1. /\ TotalBytesSent \in Nat /\ Len(ReadyForDelivery) \in Nat /\ LastFrameSent \in Int
        /\ LastMsgConsumed \in -1..LastFrameSent /\ LargestSeqnoRcvd \in -1..LastFrameSent
    BY TypeFacts
  <2>2. /\ NextFrameExpected = LastMsgConsumed + Len(ReadyForDelivery) + 1
        /\ NextFrameExpected <= LargestSeqnoRcvd + 1
        /\ ReadyForDelivery \in Seq(Nat)
    BY <1>0 DEF ArrivalsAreCounted
  <2>3. LastMsgConsumed + Len(ReadyForDelivery) <= LastFrameSent
    BY <2>1, <2>2
  <2>4. Len(ReadyForDelivery) >= 1
    BY <2>2
  <2>5. LastMsgConsumed \in Int /\ LastMsgConsumed >= -1
    BY <2>1
  <2> QED BY <2>1, <2>3, <2>4, <2>5, Zenon
<1>2. PICK st \in FillStates(total) : st = Filled(total) /\ FilledAfter(total, N, st)
  <2>1. /\ Filled(total) \in FillStates(total)
        /\ FilledAfter(total, Len(ReadyForDelivery), Filled(total))
    BY FilledIs
  <2> QED BY <1>1, <2>1, Zenon
<1>3. PICK buf \in Seq(Nat \X Nat), off \in Nat, k \in Nat, g \in Seq(Nat \X Nat) :
        /\ buf = st.buf /\ off = st.offset /\ k = st.complete /\ g = got
  BY DEF FillStates, StreamInv, ReadingIsAtItsMarks
<1>4. PICK more \in Seq(Nat \X Nat) : more = got \o buf /\ Len(more) = Len(g) + Len(buf)
  <2>1. g \o buf \in Seq(Nat \X Nat) /\ Len(g \o buf) = Len(g) + Len(buf)
    BY Joining
  <2> QED BY <1>3, <2>1
<1>5. /\ k <= N /\ (off > 0 => k < N) /\ (k < N => Len(buf) = total)
      /\ ReadThrough(more, l + k, off)
  BY <1>1, <1>2, <1>3, <1>4 DEF FilledAfter
<1>6. k = N
  <2> SUFFICES ASSUME k < N
               PROVE  FALSE
    BY <1>5
  <2>1. PICK m \in Frames : m = l + k + 1 /\ m - 1 = l + k
    BY <1>1 DEF Frames
  <2>2. PICK c \in Nat, d \in Nat, size \in Nat :
          /\ c = Cumul(m - 1) /\ d = Cumul(m) /\ size = Size(m) /\ size >= 1 /\ d = c + size
    <3>1. /\ Cumul(m) = Cumul(m - 1) + Size(m) /\ Cumul(m) \in Nat /\ Cumul(m - 1) \in Nat
          /\ Size(m) \in Nat /\ Size(m) >= 1
      BY <1>0, FrameFacts
    <3> QED BY <3>1
  <2>3. off < size
    BY <1>5, <2>1, <2>2 DEF ReadThrough
  <2>4. Len(more) = c + off
    BY <1>5, <2>1, <2>2 DEF ReadThrough
  <2>5. d <= total
    <3>1. m \in -1..LastFrameSent
      BY <1>1 DEF Frames
    <3> QED BY <1>0, <1>1, <2>2, <3>1, CumulFacts
  <2>6. Len(more) >= total
    <3>1. Len(g) \in Nat
      OBVIOUS
    <3> QED BY <1>4, <1>5, <3>1
  <2> QED BY <2>2, <2>3, <2>4, <2>5, <2>6
<1>7. off = 0
  BY <1>5, <1>6
<1>8. ReadThrough(more, LastMsgConsumed + Len(ReadyForDelivery), 0)
  BY <1>1, <1>5, <1>6, <1>7
<1>9. PICK m \in Frames : m = l + N /\ m = ReadyForDelivery[N] /\ m # -1
  <2>1. N \in 1..Len(ReadyForDelivery) /\ l + N \in Frames /\ l + N # -1
    BY <1>1 DEF Frames
  <2>2. ReadyForDelivery[N] = l + N
    BY <1>0, <1>1, <2>1 DEF ArrivalsAreCounted
  <2> QED BY <2>1, <2>2
<1>10. PICK c \in Nat : c = Cumul(m) /\ c = Frame(m).cumul /\ c >= 1
  <2>1. m \in -1..LastFrameSent /\ -1 \in -1..LastFrameSent /\ -1 < m
    BY <1>1, <1>9 DEF Frames
  <2>2. Cumul(m) \in Nat /\ Cumul(-1) = 0 /\ Cumul(-1) < Cumul(m)
    BY <1>0, <2>1, CumulFacts
  <2> QED BY <1>9, <2>2 DEF Cumul
<1>11. Len(more) = c
  <2>1. Len(more) = Cumul(l + N) + 0
    BY <1>1, <1>8 DEF ReadThrough
  <2> QED BY <1>9, <1>10, <2>1
<1>12. more # << >> /\ Frame(ReadyForDelivery[Len(ReadyForDelivery)]).cumul = ByteMark(more)
  BY <1>1, <1>9, <1>10, <1>11 DEF ByteMark
<1> QED BY <1>1, <1>2, <1>3, <1>4, <1>8, <1>12

LEMMA DeliverKeeps ==
  ASSUME StreamInv, DeliverToConsumer
  PROVE  StreamInv'
<1>1. PICK more \in Seq(Nat \X Nat) :
        /\ more = got \o Filled(TotalBytesSent).buf
        /\ ReadThrough(more, LastMsgConsumed + Len(ReadyForDelivery), 0)
        /\ more # << >>
        /\ Frame(ReadyForDelivery[Len(ReadyForDelivery)]).cumul = ByteMark(more)
  BY AllFilled DEF DeliverToConsumer
<1>2. PICK k \in Nat, byte \in Int : k = Len(ReadyForDelivery) /\ byte = ByteMark(more)
  BY TypeFacts DEF ByteMark
<1>3. got' = more /\ DataOffset' = 0 /\ Consume(k, byte)
  BY <1>1, <1>2 DEF DeliverToConsumer
<1>4. k \in 0..Len(ReadyForDelivery) /\ ReadThrough(more, LastMsgConsumed + k, 0)
      /\ 0 \in Nat /\ ~(0 > 0)
  BY <1>1, <1>2
<1> QED BY <1>1, <1>2, <1>3, <1>4, ConsumeKeeps

-----------------------------------------------------------------------------
(* The invariant. *)

LEMMA InitHolds == Init => StreamInv
<1> SUFFICES ASSUME Init
             PROVE  StreamInv
  OBVIOUS
<1>1. /\ WindowMsgCount \in Nat /\ WindowByteSz \in Nat /\ Writes \in Seq(Nat \ {0})
      /\ Len(Writes) \in Nat
  BY BytesAssumption DEF BytesAssumption
<1>2. /\ SendHistory = << >> /\ LastFrameSent = -1 /\ Frames = {} /\ -1..LastFrameSent = {-1}
      /\ ReadyForDelivery = << >> /\ Len(ReadyForDelivery) = 0 /\ got = << >> /\ Len(got) = 0
      /\ Rxq = {} /\ acks = {} /\ cliAcked = {}
  BY DEF Init, LastFrameSent, Frames
<1>3. TypeOK
  <2>1. Range(ReadyForDelivery) = {}
    BY <1>2 DEF Range
  <2>2. \A w \in 1..Len(Writes) : NumBytesAcked[w] \in 0..Writes[w]
    BY <1>1 DEF Init
  <2>3. write \in 1..(Len(Writes) + 1) /\ flow.msg \in 0..WindowMsgCount
        /\ flow.bytes \in 0..(WindowByteSz + 1) /\ DataOffset \in 0..Sz
    BY <1>1, SzIsPositive DEF Init
  <2>4. told \in BOOLEAN /\ senderDone \in BOOLEAN /\ panicked \in BOOLEAN
    BY DEF Init
  <2>5. /\ pushed \in Nat /\ SentButNotAcked = {} /\ crediting = {}
        /\ TotalBytesSent = 0 /\ MaxCumulBytesTrans = 0 /\ LastByteConsumed = -1
        /\ LastMsgConsumed = -1 /\ LargestSeqnoRcvd = -1
    BY DEF Init
  <2>6. /\ TotalBytesSent \in Nat /\ MaxCumulBytesTrans \in 0..TotalBytesSent
        /\ LastByteConsumed \in -1..TotalBytesSent
        /\ LastMsgConsumed \in -1..LastFrameSent /\ LargestSeqnoRcvd \in -1..LastFrameSent
    BY <1>2, <2>5
  <2> QED BY <1>2, <2>1, <2>2, <2>3, <2>4, <2>5, <2>6 DEF TypeOK
<1>4. Cumul(-1) = 0 /\ ByteAfter(-1) = <<1, 1>>
  BY DEF Cumul, ByteAfter
<1>5. HistoryIsTheWrites
  <2>1. \A a, b \in -1..LastFrameSent : a < b => Cumul(a) < Cumul(b)
    BY <1>2
  <2>2. Running => Npack(Writes[write]) \in Nat /\ Npack(Writes[write]) >= 1
    <3>1. ASSUME Running
          PROVE  Writes[write] \in Nat /\ Writes[write] >= 1
      BY <1>1, <3>1, BytesAssumption DEF BytesAssumption, Running, Init
    <3> QED BY <3>1, PacketIsNeeded
  <2>3. pushed = 0 /\ write = 1 /\ pushed * Sz + 1 = 1
    BY SzIsPositive DEF Init
  <2>4. Running => pushed <= Npack(Writes[write]) /\ ~AllPushed
    BY <2>2, <2>3 DEF AllPushed
  <2>5. TotalBytesSent = Cumul(LastFrameSent) /\ ByteAfter(LastFrameSent) = <<1, 1>>
    BY <1>2, <1>4 DEF Init
  <2>6. SendHistory \in Seq(Packet)
    BY <1>2
  <2> QED BY <1>2, <2>1, <2>3, <2>4, <2>5, <2>6 DEF HistoryIsTheWrites
<1>6. ArrivalsAreCounted
  BY <1>2, <1>4 DEF ArrivalsAreCounted, Init, CumulNeverPanics
<1>7. ReadingIsAtItsMarks
  <2>1. ReadThrough(got, LastMsgConsumed, DataOffset)
    BY <1>2, <1>4 DEF ReadThrough, Consecutive, Init
  <2> QED BY <1>2, <2>1 DEF ReadingIsAtItsMarks, Init
<1>8. AcksAreHonest
  BY <1>1, <1>2 DEF AcksAreHonest, IsAckNum, InventedByte, Init
<1>9. CreditsAreEarned
  <2>1. Credited(-1, -1)
    <3>1. TotalBytesSent < WindowByteSz + Sz + Cumul(-1) + InventedByte
      BY <1>1, <1>2, <1>4, SzIsPositive DEF Init, InventedByte
    <3>2. SentButNotAcked = {} /\ crediting = {} /\ (-1 + 1)..LastFrameSent = {} /\ (-1 + 1)..(-1) = {}
      BY <1>2 DEF Init
    <3>3. \A w \in 1..Len(Writes) : NumBytesAcked[w] = CreditOf(w, -1)
      BY DEF Init, CreditOf
    <3> QED BY <3>1, <3>2, <3>3 DEF Credited
  <2>2. \E a \in -1..LastFrameSent : \E c \in -1..a : Credited(a, c)
    BY <1>2, <2>1
  <2>3. /\ NumBytesAcked \in [1..Len(Writes) -> Nat]
        /\ result \in [1..Len(Writes) -> [n : Int, by : {"running", "ack", "timeout", "done"}]]
        /\ AckedWriteMissesAtMostLastPiece
    BY DEF Init, NotReturned, AckedWriteMissesAtMostLastPiece
  <2> QED BY <1>2, <2>2, <2>3 DEF CreditsAreEarned
<1> QED BY <1>3, <1>5, <1>6, <1>7, <1>8, <1>9 DEF StreamInv

LEMMA NothingHappens ==
  ASSUME StreamInv, UNCHANGED vars
  PROVE  StreamInv'
<1>1. /\ TypeOK /\ HistoryIsTheWrites /\ ArrivalsAreCounted /\ ReadingIsAtItsMarks
      /\ AcksAreHonest /\ CreditsAreEarned
  BY DEF StreamInv
<1>2. UNCHANGED <<writerVars, acks, readerVars>>
  BY DEF vars
<1>3. /\ UNCHANGED <<orderVars, ReadyForDelivery, consumeVars, largestVars, flow,
                     recvLastFrameClientConsumed>>
      /\ UNCHANGED <<sentVars, got, write, pushed, senderDone, creditVars, SentButNotAcked, result,
                     flowSeen, SendHistory, LastMsgConsumed>>
  BY <1>2 DEF writerVars, readerVars, consumeVars, sentVars, appVars
<1>4. /\ LastFrameSent' = LastFrameSent /\ Frames' = Frames /\ OldFramesStay
  BY <1>1, <1>3, SameHistory, FramesStay
<1>5. HistoryIsTheWrites' /\ ArrivalsAreCounted'
  BY <1>1, <1>3, <1>4, HistoryStands, ArrivalsStand
<1>6. ReadingIsAtItsMarks'
  BY <1>1, <1>3, <1>4, ReadingStands
<1>7. LastMsgConsumed' \in Int /\ LastMsgConsumed' >= LastMsgConsumed
  BY <1>3, TypeFacts
<1>8. CreditsAreEarned'
  BY <1>1, <1>3, <1>7, CreditsStand
<1>9. AcksAreHonest'
  BY <1>1, <1>2, <1>3, AcksStand
<1>10. TypeOK'
  BY <1>1, <1>3, <1>4
     DEF TypeOK, creditVars, sentVars, orderVars, consumeVars, largestVars, Sz, Min2
<1> QED BY <1>5, <1>6, <1>8, <1>9, <1>10 DEF StreamInv

LEMMA NextKeeps ==
  ASSUME StreamInv, Next
  PROVE  StreamInv'
<1>1. CASE WriteLoop
  BY <1>1, AcceptSendKeeps, PushGivesUpKeeps, WriteReturnsKeeps DEF WriteLoop
<1>2. CASE SendLoop
  BY <1>2, GotPackKeeps, BroadcastKeeps, CreditKeeps, SenderEndsKeeps DEF SendLoop
<1>3. CASE RecvLoop
  BY <1>3, RecvDataKeeps, RecvKeepAliveKeeps, KeepAliveKeeps DEF RecvLoop, Frames
<1>4. CASE ReadByApp
  BY <1>4, ReadKeeps, DeliverKeeps DEF ReadByApp
<1> QED BY <1>1, <1>2, <1>3, <1>4 DEF Next

\* The types, the history of the packets, the arrivals, the marks of the reading,
\* the acks and the credits belong together in every state: the whole path of the
\* bytes from Write over sendloop and recvloop to Read.
THEOREM StreamCorrect == Spec => []StreamInv
<1>1. StreamInv /\ [Next]_vars => StreamInv'
  BY NextKeeps, NothingHappens
<1> QED BY <1>1, InitHolds, PTL DEF Spec

\* The variables of the two ends keep their types and ranges: a capacity refused
\* by FlowCt never leaves it negative, and no mark passes the frames sent.
THEOREM TypeCorrect == Spec => []TypeOK
<1>1. StreamInv => TypeOK
  BY DEF StreamInv
<1> QED BY <1>1, StreamCorrect, PTL

\* What Read and ReadMessagesCh hand out is what was given to Write, byte by byte
\* and in order, whatever the lengths of Writes, packets and Reads.
THEOREM ReadsCorrect == Spec => []ReadsAreTheWrites
<1>1. StreamInv => ReadsAreTheWrites
  BY DEF StreamInv, ReadingIsAtItsMarks, ReadThrough, ReadsAreTheWrites
<1> QED BY <1>1, StreamCorrect, PTL

\* The receiver's assertions about cumulative byte counts (recv.go:432-441) hold
\* whatever is lost, repeated or reordered.
THEOREM NeverPanicsCorrect == Spec => []CumulNeverPanics
<1>1. StreamInv => CumulNeverPanics
  BY DEF StreamInv, ArrivalsAreCounted
<1> QED BY <1>1, StreamCorrect, PTL

\* An ack other than 0 says that all bytes through its packet were read
\* (UpdateControl and the acks of Read and ReadMessagesCh).
THEOREM AcksCorrect == Spec => []AcksAreWholePackets
<1>1. ASSUME StreamInv
      PROVE  AcksAreWholePackets
  <2>1. HistoryIsTheWrites /\ ReadingIsAtItsMarks /\ AcksAreHonest
    BY <1>1 DEF StreamInv
  <2>2. /\ LastMsgConsumed \in -1..LastFrameSent /\ LastFrameSent \in Int
    BY <1>1, TypeFacts
  <2>3. ASSUME NEW m \in acks, m.ack > 0
        PROVE  Len(got) >= Frame(m.ack).cumul
    <3>1. PICK n \in 1..LastMsgConsumed : n = m.ack
      BY <2>1, <2>3 DEF AcksAreHonest, IsAckNum
    <3>2. n \in -1..LastFrameSent /\ n <= LastMsgConsumed /\ n # -1
      BY <2>2
    <3>3. /\ Cumul(LastMsgConsumed) \in Nat /\ Cumul(n) \in Nat
          /\ Cumul(n) <= Cumul(LastMsgConsumed)
      BY <2>1, <2>2, <3>2, CumulFacts
    <3>4. Len(got) = Cumul(LastMsgConsumed) + DataOffset /\ DataOffset \in Nat
      BY <1>1, <2>1, SzIsPositive DEF ReadThrough, ReadingIsAtItsMarks, StreamInv, TypeOK
    <3>5. Cumul(n) = Frame(n).cumul
      BY <3>2 DEF Cumul
    <3> QED BY <3>1, <3>3, <3>4, <3>5
  <2> QED BY <2>3 DEF AcksAreWholePackets
<1> QED BY <1>1, StreamCorrect, PTL

\* A Write that CliAcked wakes has been credited with all of its payload but at
\* most the last piece (Write, sender.go's handler of acks).
THEOREM AckedWritesCorrect == Spec => []AckedWriteMissesAtMostLastPiece
<1>1. StreamInv => AckedWriteMissesAtMostLastPiece
  BY DEF StreamInv, CreditsAreEarned
<1> QED BY <1>1, StreamCorrect, PTL

\* The receiver's byte window is overrun by at most one packet (FlowCtrl's test
\* before a send, UpdateControl's capacity), plus frame 0, acknowledged early.
THEOREM OverrunCorrect == Spec => []OverrunIsBounded
<1>1. ASSUME StreamInv
      PROVE  OverrunIsBounded
  <2>1. HistoryIsTheWrites /\ ReadingIsAtItsMarks /\ TypeOK /\ ArrivalsAreCounted
    BY <1>1 DEF StreamInv
  <2>0. PICK a \in -1..LastFrameSent : \E c \in -1..a : Credited(a, c)
    BY <1>1 DEF StreamInv, CreditsAreEarned
  <2>2. PICK c \in -1..a : Credited(a, c)
    BY <2>0
  <2>3. PICK total \in Nat, wb \in Nat, ca \in Nat, inv \in {0, 1}, L \in Nat, sz \in Nat, mc \in Nat :
          /\ total = TotalBytesSent /\ wb = WindowByteSz /\ ca = Cumul(a) /\ inv = InventedByte
          /\ L = Len(got) /\ sz = Sz /\ mc = MaxCumulBytesTrans
    <3>1. WindowByteSz \in Nat /\ Cumul(a) \in Nat /\ TotalBytesSent \in Nat
      BY <2>1, CumulFacts, BytesAssumption DEF BytesAssumption
    <3>2. /\ InventedByte \in {0, 1} /\ Len(got) \in Nat /\ Sz \in Nat /\ MaxCumulBytesTrans \in Nat
      BY <2>1, ReadIsCounted, SzIsPositive
    <3> QED BY <3>1, <3>2, Zenon
  <2>4. total < wb + sz + ca + inv /\ mc <= total
    BY <2>1, <2>2, <2>3 DEF Credited, TypeOK
  <2>5. inv <= L
    <3>1. got # << >> => Len(got) # 0
      BY <2>1 DEF ReadingIsAtItsMarks
    <3> QED BY <2>3, <3>1 DEF InventedByte
  <2>6. a > 0 => ca <= L
    <3>1. /\ LastMsgConsumed \in -1..LastFrameSent /\ LastFrameSent \in Int
          /\ Len(got) = Cumul(LastMsgConsumed) + DataOffset /\ DataOffset \in Nat
      BY <1>1, <2>1, TypeFacts DEF TypeOK, ReadingIsAtItsMarks, ReadThrough
    <3>2. a > 0 => Cumul(a) <= Cumul(LastMsgConsumed) /\ Cumul(LastMsgConsumed) \in Nat
      BY <2>1, <2>2, <3>1, CumulFacts DEF Credited
    <3> QED BY <2>3, <3>1, <3>2
  <2> DEFINE frame0 == IF SendHistory # << >> /\ Len(got) < Size(0) THEN Size(0) - 1 ELSE 0
  <2>7. frame0 \in Nat /\ (ca <= L + frame0 \/ (L = 0 /\ ca <= frame0 + 1))
    <3>1. SendHistory # << >> => 0 \in Frames /\ Size(0) \in Nat /\ Size(0) >= 1
      <4>1. SendHistory # << >> => 0 \in Frames
        BY <2>1 DEF HistoryIsTheWrites, Frames, LastFrameSent
      <4> QED BY <2>1, <4>1, FrameFacts
    <3>2. frame0 \in Nat
      BY <3>1
    <3>3. CASE a = -1
      <4>1. ca = 0
        BY <2>3, <3>3 DEF Cumul
      <4> HIDE DEF frame0
      <4> QED BY <3>2, <4>1
    <3>4. CASE a = 0
      <4>1. SendHistory # << >> /\ 0 \in Frames
        BY <2>1, <3>4 DEF HistoryIsTheWrites, LastFrameSent, Frames
      <4>2. ca = Size(0)
        <5>1. Cumul(0) = Cumul(0 - 1) + Size(0) /\ Cumul(0 - 1) = 0 /\ Size(0) \in Nat
          BY <2>1, <4>1, FrameFacts DEF Cumul
        <5> QED BY <2>3, <3>4, <5>1
      <4>3. CASE L < ca
        <5>1. frame0 = ca - 1
          BY <2>3, <4>1, <4>2, <4>3
        <5> HIDE DEF frame0
        <5> QED BY <3>2, <4>3, <5>1
      <4>4. CASE ~(L < ca)
        <5> HIDE DEF frame0
        <5> QED BY <3>2, <4>4
      <4> QED BY <4>3, <4>4
    <3>5. CASE a > 0
      <4>1. ca <= L
        BY <2>6, <3>5
      <4> HIDE DEF frame0
      <4> QED BY <3>2, <4>1
    <3> QED BY <3>3, <3>4, <3>5
  <2> HIDE DEF frame0
  <2>8. mc - L <= wb + sz + frame0
    BY <2>4, <2>5, <2>7
  <2> QED BY <2>3, <2>8 DEF OverrunIsBounded, frame0
<1> QED BY <1>1, StreamCorrect, PTL

-----------------------------------------------------------------------------
(* The credit of a Write counts bytes that were read. *)

\* The order in which the bytes of the Writes are sent.
UpTo(p, q) == p[1] < q[1] \/ (p[1] = q[1] /\ p[2] <= q[2])

LEMMA UpToComposes ==
  ASSUME NEW p \in Nat \X Nat, NEW q \in Nat \X Nat, NEW r \in Nat \X Nat, UpTo(p, q), UpTo(q, r)
  PROVE  UpTo(p, r)
<1>1. /\ p[1] \in Nat /\ p[2] \in Nat /\ q[1] \in Nat /\ q[2] \in Nat
      /\ r[1] \in Nat /\ r[2] \in Nat
  OBVIOUS
<1> QED BY <1>1 DEF UpTo

\* Whoever has read consecutive bytes has read every byte before them.
LEMMA EveryByteIsRead ==
  ASSUME NEW bytes \in Seq(Nat \X Nat), Consecutive(bytes)
  PROVE  \A n \in Nat : n >= 1 /\ n <= Len(bytes) =>
           \A w, j \in Nat :
             w >= 1 /\ j >= 1 /\ w <= Len(Writes) /\ j <= Writes[w] /\ UpTo(<<w, j>>, bytes[n]) =>
               \E i \in 1..Len(bytes) : bytes[i] = <<w, j>>
<1> DEFINE read(w, j) == \E i \in 1..Len(bytes) : bytes[i] = <<w, j>>
           S == {n \in Nat : n >= 1 /\ n <= Len(bytes) =>
                   \A w, j \in Nat :
                     w >= 1 /\ j >= 1 /\ w <= Len(Writes) /\ j <= Writes[w]
                       /\ UpTo(<<w, j>>, bytes[n]) => read(w, j)}
<1>0. Len(bytes) \in Nat
  OBVIOUS
<1>1. 0 \in S
  OBVIOUS
<1>2. ASSUME NEW n \in Nat, n \in S
      PROVE  n + 1 \in S
  <2> HIDE DEF read
  <2>0. ASSUME n + 1 <= Len(bytes), NEW w \in Nat, NEW j \in Nat, w >= 1, j >= 1,
               w <= Len(Writes), j <= Writes[w], UpTo(<<w, j>>, bytes[n + 1]),
               ~read(w, j)
        PROVE  FALSE
    <3>0. n + 1 \in 1..Len(bytes) /\ bytes[n + 1] # <<w, j>>
      <4>1. n + 1 \in 1..Len(bytes)
        BY <1>0, <2>0
      <4> QED BY <4>1, <2>0 DEF read
    <3>1. n >= 1
      <4>1. ASSUME n = 0
            PROVE  FALSE
        <5>1. bytes[n + 1] = <<1, 1>>
          BY <3>0, <4>1 DEF Consecutive
        <5>2. w = 1 /\ j = 1
          BY <2>0, <5>1 DEF UpTo
        <5> QED BY <3>0, <5>1, <5>2
      <4> QED BY <4>1
    <3>2. n \in 1..Len(bytes) /\ bytes[n] \in Nat \X Nat /\ n + 1 # 1 /\ n + 1 - 1 = n
      BY <1>0, <3>0, <3>1, SMTT(30)
    <3>3. PICK v \in Nat : \E e \in Nat : bytes[n] = <<v, e>>
      <4>1. PICK p \in Nat \X Nat : p = bytes[n]
        BY <3>2
      <4>2. p = <<p[1], p[2]>> /\ p[1] \in Nat /\ p[2] \in Nat
        BY <4>1
      <4> QED BY <4>1, <4>2, Zenon
    <3>3a. PICK e \in Nat : bytes[n] = <<v, e>>
      BY <3>3
    <3>4. bytes[n + 1] = NextByte(<<v, e>>)
      <4>1. \A i \in 1..Len(bytes) : bytes[i] = IF i = 1 THEN <<1, 1>> ELSE NextByte(bytes[i - 1])
        BY DEF Consecutive
      <4>2. PICK k \in 1..Len(bytes) : k = n + 1 /\ k # 1 /\ k - 1 = n
        BY <3>0, <3>2
      <4>3. bytes[k] = IF k = 1 THEN <<1, 1>> ELSE NextByte(bytes[k - 1])
        BY <4>1, Zenon
      <4> QED BY <4>2, <4>3, <3>3a, Zenon
    <3>5. UpTo(<<w, j>>, <<v, e>>)
      <4>1. CASE e < Writes[v]
        <5>1. bytes[n + 1] = <<v, e + 1>>
          BY <3>4, <4>1 DEF NextByte
        <5>2. w < v \/ (w = v /\ j <= e + 1)
          BY <2>0, <5>1 DEF UpTo
        <5>3. ~(w = v /\ j = e + 1)
          BY <3>0, <5>1
        <5> QED BY <5>2, <5>3 DEF UpTo
      <4>2. CASE ~(e < Writes[v])
        <5>1. bytes[n + 1] = <<v + 1, 1>>
          BY <3>4, <4>2 DEF NextByte
        <5>2. w < v + 1 \/ (w = v + 1 /\ j <= 1)
          BY <2>0, <5>1 DEF UpTo
        <5>3. ~(w = v + 1 /\ j = 1)
          BY <3>0, <5>1
        <5>4. w <= v
          BY <2>0, <3>3, <5>2, <5>3
        <5>5. w = v => j <= e
          <6>1. ASSUME w = v
                PROVE  j <= e
            <7>1. Writes[w] \in Nat
              BY <2>0, BytesAssumption DEF BytesAssumption
            <7> QED BY <2>0, <3>3, <3>3a, <4>2, <6>1, <7>1
          <6> QED BY <6>1
        <5> QED BY <5>4, <5>5 DEF UpTo
      <4> QED BY <4>1, <4>2
    <3>6. UpTo(<<w, j>>, bytes[n]) /\ n <= Len(bytes)
      BY <3>2, <3>3a, <3>5
    <3> QED BY <1>2, <2>0, <3>1, <3>6
  <2> QED BY <2>0
<1> HIDE DEF read, S
<1>3. S = Nat
  <2>1. S \in SUBSET Nat
    BY DEF S
  <2> QED BY <1>1, <1>2, <2>1, Induct
<1> QED BY <1>3 DEF S, read

\* The last bytes of the frames come in the order of the frames.
LEMMA LastBytesGrow ==
  ASSUME HistoryIsTheWrites, NEW c \in Frames
  PROVE  \A n \in Nat : c + n \in Frames => UpTo(LastByte(c), LastByte(c + n))
<1> DEFINE S == {n \in Nat : c + n \in Frames => UpTo(LastByte(c), LastByte(c + n))}
<1>0. /\ c \in Nat /\ \A n \in Frames : n \in Nat /\ LastByte(n) \in Nat \X Nat
      /\ LastFrameSent \in Int
  <2>1. LastFrameSent \in Int /\ Frames \subseteq Nat
    BY DEF HistoryIsTheWrites, LastFrameSent, Frames
  <2>2. ASSUME NEW n \in Frames
        PROVE  LastByte(n) \in Nat \X Nat
    <3>1. Frame(n).data \in Seq(Nat \X Nat) /\ Size(n) \in 1..Len(Frame(n).data)
      BY FrameFacts DEF Size
    <3> QED BY <3>1 DEF LastByte
  <2> QED BY <2>1, <2>2
<1>1. 0 \in S
  <2>1. c + 0 = c
    BY <1>0
  <2>2. LastByte(c)[1] \in Nat /\ LastByte(c)[2] \in Nat
    BY <1>0
  <2> QED BY <2>1, <2>2 DEF UpTo
<1>2. ASSUME NEW n \in Nat, n \in S
      PROVE  n + 1 \in S
  <2> SUFFICES ASSUME c + (n + 1) \in Frames
               PROVE  UpTo(LastByte(c), LastByte(c + (n + 1)))
    OBVIOUS
  <2>1. PICK m \in Frames : m = c + (n + 1) /\ m - 1 = c + n /\ m - 1 \in Frames /\ m - 1 # -1
    BY <1>0 DEF Frames
  <2>2. UpTo(LastByte(c), LastByte(m - 1))
    BY <1>2, <2>1
  <2> DEFINE first == Frame(m).data[1][2]
             wn == Frame(m).write
  <2>3. /\ first \in Nat /\ wn \in Nat /\ LastByte(m) = <<wn, first + Size(m) - 1>>
        /\ Frame(m).data[1] = NextByte(LastByte(m - 1)) /\ Frame(m).data[1] = <<wn, first>>
        /\ Size(m) \in Nat /\ Size(m) >= 1
    BY <2>1, FrameBytes, FrameFacts DEF ByteAfter
  <2> HIDE DEF first, wn
  <2>4. PICK v \in Nat, e \in Nat : LastByte(m - 1) = <<v, e>>
    BY <1>0, <2>1
  <2>5. UpTo(<<v, e>>, <<wn, first + Size(m) - 1>>)
    <3>1. <<wn, first>> = NextByte(<<v, e>>)
      BY <2>3, <2>4
    <3>2. (wn = v /\ first = e + 1) \/ (wn = v + 1 /\ first = 1)
      BY <3>1 DEF NextByte
    <3> QED BY <2>3, <3>2 DEF UpTo
  <2>6. UpTo(LastByte(m - 1), LastByte(m))
    BY <2>3, <2>4, <2>5
  <2>7. /\ LastByte(c) \in Nat \X Nat /\ LastByte(m - 1) \in Nat \X Nat
        /\ LastByte(m) \in Nat \X Nat
    BY <1>0, <2>1
  <2>8. UpTo(LastByte(c), LastByte(m))
    BY <2>2, <2>6, <2>7, UpToComposes
  <2> QED BY <2>1, <2>8
<1> HIDE DEF S
<1>3. S = Nat
  <2>1. S \in SUBSET Nat
    BY DEF S
  <2> QED BY <1>1, <1>2, <2>1, Induct
<1> QED BY <1>3 DEF S

\* What is credited for a frame that was consumed has been read.
LEMMA CreditIsRead ==
  ASSUME StreamInv, NEW c \in Frames, c <= LastMsgConsumed, NEW w \in 1..Len(Writes),
         NEW j \in Nat, j >= 1, j <= CreditOf(w, c)
  PROVE  \E i \in 1..Len(got) : got[i] = <<w, j>>
<1>1. /\ HistoryIsTheWrites /\ ReadingIsAtItsMarks /\ got \in Seq(Nat \X Nat)
      /\ ReadThrough(got, LastMsgConsumed, DataOffset) /\ Consecutive(got)
  BY DEF StreamInv, ReadingIsAtItsMarks, ReadThrough
<1>2. /\ LastFrameSent \in Int /\ LastMsgConsumed \in -1..LastFrameSent /\ DataOffset \in Nat
      /\ c \in Nat /\ LastMsgConsumed \in Frames
  <2>1. LastFrameSent \in Int /\ LastMsgConsumed \in -1..LastFrameSent /\ DataOffset \in Nat
    BY TypeFacts DEF StreamInv, TypeOK
  <2> QED BY <2>1 DEF Frames
<1> DEFINE last == LastMsgConsumed
           end == got[Len(got)]
<1>3. LastByte(c) \in Nat \X Nat /\ LastByte(last) \in Nat \X Nat
  <2>1. ASSUME NEW n \in Frames
        PROVE  LastByte(n) \in Nat \X Nat
    <3>1. Frame(n).data \in Seq(Nat \X Nat) /\ Size(n) \in 1..Len(Frame(n).data)
      BY <1>1, FrameFacts DEF Size
    <3> QED BY <3>1 DEF LastByte
  <2> QED BY <1>2, <2>1
<1>4. PICK b \in Nat : \E e \in Nat : LastByte(c) = <<b, e>>
  <2>1. PICK p \in Nat \X Nat : p = LastByte(c)
    BY <1>3
  <2>2. p = <<p[1], p[2]>> /\ p[1] \in Nat /\ p[2] \in Nat
    BY <2>1
  <2> QED BY <2>1, <2>2, Zenon
<1>5. PICK e \in Nat : LastByte(c) = <<b, e>>
  BY <1>4
<1>6. UpTo(<<w, j>>, LastByte(c)) /\ w \in Nat /\ w >= 1 /\ w <= Len(Writes) /\ j <= Writes[w]
  <2>1. CreditOf(w, c) \in 0..Writes[w] /\ Writes[w] \in Nat
    BY <1>1, CreditOfGrows, BytesAssumption DEF BytesAssumption
  <2>2. CreditOf(w, c) = IF w > b THEN 0 ELSE IF w = b THEN e ELSE Writes[w]
    <3>1. c # -1
      BY <1>2
    <3> QED BY <1>5, <3>1 DEF CreditOf
  <2>3. w < b \/ (w = b /\ j <= e)
    BY <1>4, <1>5, <2>2
  <2> QED BY <1>5, <2>1, <2>3 DEF UpTo
<1>7. Len(got) \in Nat /\ Len(got) >= 1 /\ got # << >> /\ end \in Nat \X Nat
  <2>1. Len(got) = Cumul(last) + DataOffset
    BY <1>1 DEF ReadThrough
  <2>2. Cumul(last) \in Nat /\ Cumul(last) >= 1
    <3>1. /\ Cumul(last) = Cumul(last - 1) + Size(last) /\ Cumul(last - 1) \in Nat
          /\ Size(last) \in Nat /\ Size(last) >= 1
      BY <1>1, <1>2, FrameFacts
    <3> QED BY <3>1
  <2>3. Len(got) \in Nat /\ Len(got) >= 1
    BY <1>1, <1>2, <2>1, <2>2
  <2> QED BY <1>1, <2>3
<1>8. UpTo(LastByte(c), LastByte(last))
  <2>1. PICK n \in Nat : c + n = last
    <3>1. last - c \in Nat /\ c + (last - c) = last
      BY <1>2
    <3> QED BY <3>1
  <2> QED BY <1>1, <1>2, <2>1, LastBytesGrow
<1>9. UpTo(LastByte(last), end)
  <2>1. CASE DataOffset = 0
    <3>1. end = LastByte(last)
      BY <1>1, <1>7, <2>1 DEF ReadThrough
    <3>2. LastByte(last)[1] \in Nat /\ LastByte(last)[2] \in Nat
      BY <1>3
    <3> QED BY <3>1, <3>2 DEF UpTo
  <2>2. CASE DataOffset # 0
    <3>1. PICK m \in Frames : m = last + 1 /\ m - 1 = last /\ m - 1 # -1
      BY <1>1, <1>2, <2>2 DEF ReadThrough, Frames
    <3> DEFINE first == Frame(m).data[1][2]
               wn == Frame(m).write
    <3>2. PICK off \in Nat : off = DataOffset /\ off >= 1 /\ off < Size(m) /\ end = Frame(m).data[off]
      BY <1>1, <1>2, <1>7, <2>2, <3>1 DEF ReadThrough
    <3>3. off \in 1..Size(m)
      <4>1. Size(m) \in Nat
        BY <1>1, FrameFacts
      <4> QED BY <3>2, <4>1
    <3>4. /\ first \in Nat /\ wn \in Nat
          /\ Frame(m).data[1] = NextByte(LastByte(last)) /\ Frame(m).data[1] = <<wn, first>>
          /\ Frame(m).data[off] = <<wn, first + off - 1>>
      <4>1. /\ first \in Nat /\ wn \in Nat
            /\ Frame(m).data[1] = ByteAfter(m - 1) /\ Frame(m).data[1] = <<wn, first>>
            /\ \A k \in 1..Size(m) : Frame(m).data[k] = <<wn, first + k - 1>>
        BY <1>1, FrameBytes
      <4> QED BY <3>1, <3>3, <4>1 DEF ByteAfter
    <3> HIDE DEF first, wn
    <3>5. PICK p \in Nat \X Nat : p = LastByte(last) /\ p[1] \in Nat /\ p[2] \in Nat
      BY <1>3
    <3>6. (wn = p[1] /\ first = p[2] + 1) \/ (wn = p[1] + 1 /\ first = 1)
      BY <3>4, <3>5 DEF NextByte
    <3>7. UpTo(p, <<wn, first + off - 1>>)
      BY <3>2, <3>4, <3>5, <3>6 DEF UpTo
    <3> QED BY <3>2, <3>4, <3>5, <3>7
  <2> QED BY <2>1, <2>2
<1>10. UpTo(<<w, j>>, end)
  <2>1. <<w, j>> \in Nat \X Nat
    BY <1>6
  <2> HIDE DEF end
  <2>2. UpTo(<<w, j>>, LastByte(last))
    BY <1>3, <1>6, <1>8, <2>1, UpToComposes
  <2> QED BY <1>3, <1>7, <1>9, <2>1, <2>2, UpToComposes
<1>11. \A n \in Nat : n >= 1 /\ n <= Len(got) =>
         \A v, k \in Nat :
           v >= 1 /\ k >= 1 /\ v <= Len(Writes) /\ k <= Writes[v] /\ UpTo(<<v, k>>, got[n]) =>
             \E i \in 1..Len(got) : got[i] = <<v, k>>
  BY <1>1, EveryByteIsRead
<1>12. PICK n \in Nat : n = Len(got) /\ n >= 1 /\ n <= Len(got) /\ UpTo(<<w, j>>, got[n])
  BY <1>7, <1>10
<1> QED BY <1>6, <1>11, <1>12

\* Different bytes of a Write are read at different places.
LEMMA BytesAreCounted ==
  ASSUME NEW bytes \in Seq(Nat \X Nat), NEW w \in Nat, NEW k \in Nat,
         \A j \in 1..k : \E i \in 1..Len(bytes) : bytes[i] = <<w, j>>
  PROVE  LET count == Cardinality({i \in 1..Len(bytes) : bytes[i][1] = w})
         IN count \in Nat /\ k <= count
<1> DEFINE T == {i \in 1..Len(bytes) : bytes[i][1] = w}
           f == [j \in 1..k |-> CHOOSE i \in 1..Len(bytes) : bytes[i] = <<w, j>>]
<1>1. IsFiniteSet(T) /\ Cardinality(T) \in Nat
  <2>1. IsFiniteSet(1..Len(bytes)) /\ T \in SUBSET (1..Len(bytes))
    <3>1. 1 \in Int /\ Len(bytes) \in Int
      OBVIOUS
    <3> QED BY <3>1, FS_Interval
  <2> HIDE DEF T
  <2>2. IsFiniteSet(T)
    BY <2>1, FS_Subset
  <2> QED BY <2>2, FS_CardinalityType
<1>2. ASSUME NEW j \in 1..k
      PROVE  f[j] \in 1..Len(bytes) /\ bytes[f[j]] = <<w, j>> /\ f[j] \in T
  <2>1. f[j] = CHOOSE i \in 1..Len(bytes) : bytes[i] = <<w, j>>
    OBVIOUS
  <2>2. \E i \in 1..Len(bytes) : bytes[i] = <<w, j>>
    OBVIOUS
  <2>3. f[j] \in 1..Len(bytes) /\ bytes[f[j]] = <<w, j>>
    <3> HIDE DEF f
    <3> QED BY <2>1, <2>2, Zenon
  <2>4. <<w, j>>[1] = w
    OBVIOUS
  <2> HIDE DEF f
  <2> QED BY <2>3, <2>4
<1>3. f \in [1..k -> T] /\ DOMAIN f = 1..k
  BY <1>2
<1> HIDE DEF f
<1>4. ASSUME NEW a \in 1..k, NEW b \in 1..k, f[a] = f[b]
      PROVE  a = b
  <2>1. <<w, a>> = <<w, b>>
    <3> HIDE DEF T
    <3> QED BY <1>2, <1>4, Zenon
  <2> QED BY <2>1
<1>5. f \in Injection(1..k, T)
  BY <1>3, <1>4 DEF Injection, IsInjective
<1>6. Cardinality(1..k) <= Cardinality(T) /\ Cardinality(1..k) = k
  <2>1. Cardinality(1..k) <= Cardinality(T)
    <3> HIDE DEF T
    <3> QED BY <1>1, <1>5, FS_Injection
  <2>2. Cardinality(1..k) = IF 1 > k THEN 0 ELSE k - 1 + 1
    BY FS_Interval
  <2> QED BY <2>1, <2>2
<1> QED BY <1>1, <1>6

\* A Write is credited with bytes only after the application has read them, except
\* for those of frame 0, whose AckNum is also what is sent before any consumption
\* (SendAck, LastFrameClientConsumed; the GotPack handler's ByteAccount).
THEOREM CreditCorrect == Spec => []CreditIsEndToEnd
<1>1. ASSUME StreamInv, NEW w \in 1..Len(Writes)
      PROVE  NumBytesAcked[w] <= BytesRead(w) + (IF w = 1 THEN Min2(Sz, Writes[1]) ELSE 0)
  <2> DEFINE early == IF w = 1 THEN Min2(Sz, Writes[1]) ELSE 0
  <2>1. HistoryIsTheWrites /\ got \in Seq(Nat \X Nat) /\ w \in Nat
    BY <1>1 DEF StreamInv, ReadingIsAtItsMarks
  <2>2. PICK a \in -1..LastFrameSent : \E c \in -1..a : Credited(a, c)
    BY <1>1 DEF StreamInv, CreditsAreEarned
  <2>3. PICK c \in -1..a : Credited(a, c)
    BY <2>2
  <2>4. LastFrameSent \in Int /\ Writes[w] \in Nat /\ Sz \in Nat /\ early \in Nat
    <3>1. LastFrameSent \in Int /\ Writes[w] \in Nat /\ Sz \in Nat /\ Writes[w] >= 1
      BY <1>1, TypeFacts, SzIsPositive, BytesAssumption DEF BytesAssumption
    <3> QED BY <3>1 DEF Min2
  <2>5. NumBytesAcked[w] = CreditOf(w, c)
    BY <1>1, <2>3 DEF Credited
  <2>6. ASSUME NEW k \in Nat, \A j \in 1..k : \E i \in 1..Len(got) : got[i] = <<w, j>>
        PROVE  BytesRead(w) \in Nat /\ k <= BytesRead(w)
    BY <2>1, <2>6, BytesAreCounted DEF BytesRead
  <2>7. BytesRead(w) \in Nat
    <3>1. \A j \in 1..0 : \E i \in 1..Len(got) : got[i] = <<w, j>>
      OBVIOUS
    <3> QED BY <2>6, <3>1
  <2> HIDE DEF early
  <2>8. CASE c = -1
    <3>1. CreditOf(w, c) = 0
      BY <2>8 DEF CreditOf
    <3> QED BY <2>4, <2>5, <2>7, <3>1 DEF early
  <2>9. CASE c = 0
    <3>1. 0 \in Frames
      BY <2>2, <2>3, <2>4, <2>9 DEF Frames
    <3>2. /\ CreditOf(w, 0) = CreditOf(w, 0 - 1) + (IF w = Frame(0).write THEN Size(0) ELSE 0)
          /\ CreditOf(w, 0) \in 0..Writes[w]
      BY <1>1, <2>1, <3>1, CreditOfGrows
    <3>3. CreditOf(w, 0 - 1) = 0 /\ Frame(0).data[1] = <<1, 1>>
      BY <2>1, <3>1, FrameBytes DEF CreditOf, ByteAfter
    <3>4. Frame(0).write = 1
      BY <2>1, <3>1, <3>3, FrameBytes
    <3>5. Size(0) \in Nat /\ Size(0) <= Sz
      BY <2>1, <3>1, FrameFacts
    <3>6. CreditOf(w, 0) <= early
      BY <2>4, <3>2, <3>3, <3>4, <3>5 DEF early, Min2
    <3>7. CreditOf(w, 0) \in Nat
      BY <2>4, <3>2
    <3> QED BY <2>4, <2>5, <2>7, <2>9, <3>6, <3>7 DEF early
  <2>10. CASE c > 0
    <3>1. c \in Frames /\ c <= LastMsgConsumed
      <4>1. a > 0 /\ c <= a /\ a <= LastFrameSent /\ c \in Int
        BY <2>2, <2>3, <2>4, <2>10
      <4>2. a <= LastMsgConsumed /\ LastMsgConsumed \in Int
        BY <1>1, <2>3, <2>4, <4>1 DEF Credited, StreamInv, TypeOK
      <4> QED BY <2>2, <2>4, <2>10, <4>1, <4>2 DEF Frames
    <3>2. PICK k \in Nat : k = CreditOf(w, c)
      <4>1. CreditOf(w, c) \in 0..Writes[w]
        BY <1>1, <2>1, <3>1, CreditOfGrows
      <4> QED BY <2>4, <4>1
    <3>3. ASSUME NEW j \in 1..k
          PROVE  \E i \in 1..Len(got) : got[i] = <<w, j>>
      <4>1. j \in Nat /\ j >= 1 /\ j <= CreditOf(w, c)
        BY <3>2
      <4> QED BY <1>1, <3>1, <4>1, CreditIsRead
    <3>4. k <= BytesRead(w)
      BY <2>6, <3>3
    <3> QED BY <2>4, <2>5, <2>7, <3>2, <3>4 DEF early
  <2> QED BY <2>2, <2>3, <2>4, <2>8, <2>9, <2>10 DEF early
<1>2. ASSUME StreamInv
      PROVE  CreditIsEndToEnd
  BY <1>1, <1>2 DEF CreditIsEndToEnd
<1> QED BY <1>2, StreamCorrect, PTL
=============================================================================
