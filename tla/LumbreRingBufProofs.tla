------------------------ MODULE LumbreRingBufProofs ------------------------
(***************************************************************************)
(* Proofs about the span ring, for every capacity and every payload set.   *)
(* The argument is positional: a byte at position p lives in cell          *)
(* p % Capacity, and two positions less than a ring apart never share one  *)
(* (ModDistinct).  Everything unread lies less than a ring behind every    *)
(* byte the worker stores, hence it stays.                                 *)
(***************************************************************************)
EXTENDS LumbreRingBuf, TLAPS

-----------------------------------------------------------------------------
(* Arithmetic of positions and cells. *)

(* A natural number is quotient times divisor plus remainder. *)
LEMMA Division ==
  ASSUME NEW C \in Nat \ {0}, NEW a \in Nat
  PROVE  a = C * (a \div C) + (a % C) /\ a \div C \in Nat /\ a % C \in 0..(C - 1)
  OBVIOUS

(* ... and the remainder is the only one. *)
LEMMA Remainder ==
  ASSUME NEW C \in Nat \ {0}, NEW q \in Nat, NEW r \in 0..(C - 1)
  PROVE  (C * q + r) % C = r
  OBVIOUS

(* Different multiples are at least one divisor apart. *)
LEMMA Gap ==
  ASSUME NEW C \in Nat \ {0}, NEW q \in Nat, NEW k \in Nat, C * q < C * k
  PROVE  C * k >= C * q + C
  OBVIOUS

(* Positions less than a ring apart lie in different cells. *)
LEMMA ModDistinct ==
  ASSUME NEW C \in Nat \ {0}, NEW x \in Nat, NEW y \in Nat, x < y, y < x + C
  PROVE  x % C # y % C
  <1> SUFFICES ASSUME x % C = y % C PROVE FALSE
    OBVIOUS
  <1> DEFINE q == x \div C
             k == y \div C
             r == x % C
  <1>1. x = C * q + r /\ y = C * k + r /\ q \in Nat /\ k \in Nat /\ r \in 0..(C - 1)
    BY Division
  <1>2. C * q \in Nat /\ C * k \in Nat
    BY <1>1
  <1> HIDE DEF q, k, r
  <1>3. C * q < C * k
    BY <1>1, <1>2
  <1>4. C * k >= C * q + C
    BY Gap, <1>1, <1>3
  <1> QED BY <1>1, <1>2, <1>4

(* Short of the end of the ring, the next positions lie in the next cells. *)
LEMMA ModAdd ==
  ASSUME NEW C \in Nat \ {0}, NEW x \in Nat, NEW j \in Nat, (x % C) + j < C
  PROVE  (x + j) % C = (x % C) + j
  <1> DEFINE q == x \div C
             r == x % C
  <1>1. x = C * q + r /\ q \in Nat /\ r \in 0..(C - 1)
    BY Division
  <1>2. C * q \in Nat /\ r + j \in 0..(C - 1)
    BY <1>1
  <1> HIDE DEF q, r
  <1>3. x + j = C * q + (r + j)
    BY <1>1, <1>2
  <1>4. (C * q + (r + j)) % C = r + j
    BY Remainder, <1>1, <1>2
  <1> QED BY <1>3, <1>4 DEF r

(* At the end of the ring the position wraps to cell 0. *)
LEMMA ModWrap ==
  ASSUME NEW C \in Nat \ {0}, NEW x \in Nat, NEW j \in Nat, (x % C) + j = C
  PROVE  (x + j) % C = 0
  <1> DEFINE q == x \div C
             r == x % C
  <1>1. x = C * q + r /\ q \in Nat /\ r \in 0..(C - 1)
    BY Division
  <1>2. r + j = C
    OBVIOUS
  <1> HIDE DEF q, r
  <1>3. x + j = C * (q + 1) + 0 /\ q + 1 \in Nat /\ 0 \in 0..(C - 1)
    <2>1. C * (q + 1) = C * q + C
      BY <1>1
    <2>2. C * q \in Nat
      BY <1>1
    <2> QED BY <1>1, <1>2, <2>1, <2>2
  <1>4. (C * (q + 1) + 0) % C = 0
    BY Remainder, <1>3
  <1> QED BY <1>3, <1>4

(* The three facts above, for the operators of the ring. *)
LEMMA OffsetFacts ==
  /\ Capacity \in Nat \ {0}
  /\ \A x \in Nat : Offset(x) \in 0..(Capacity - 1)
  /\ \A x, y \in Nat : x < y /\ y < x + Capacity => Offset(x) # Offset(y)
  /\ \A x, j \in Nat : Offset(x) + j < Capacity => Offset(x + j) = Offset(x) + j
  /\ \A x, j \in Nat : Offset(x) + j = Capacity => Offset(x + j) = 0
  <1>1. Capacity \in Nat \ {0}
    BY RingAssumption
  <1>2. \A x \in Nat : Offset(x) \in 0..(Capacity - 1)
    BY <1>1, Division DEF Offset
  <1>3. \A x, y \in Nat : x < y /\ y < x + Capacity => Offset(x) # Offset(y)
    BY <1>1, ModDistinct DEF Offset
  <1>4. \A x, j \in Nat : Offset(x) + j < Capacity => Offset(x + j) = Offset(x) + j
    BY <1>1, ModAdd DEF Offset
  <1>5. \A x, j \in Nat : Offset(x) + j = Capacity => Offset(x + j) = 0
    BY <1>1, ModWrap DEF Offset
  <1> QED BY <1>1, <1>2, <1>3, <1>4, <1>5

(* A payload takes its length and four bytes: the uint32_t sum does not wrap. *)
LEMMA NeededValue ==
  ASSUME NEW p \in Payload
  PROVE  p \in Seq(Byte) /\ Len(p) \in Nat /\ Needed(p) = 4 + Len(p)
  BY RingAssumption DEF Needed, U32Add

(* The first byte of a length prefix. *)
LEMMA FirstByte ==
  ASSUME NEW d, NEW o, NEW n, Holds(d, o, LenWord(n))
  PROVE  d[o + 0] = <<n, 0>>
  BY DEF Holds, LenWord

(* A length prefix is never taken for a marker, nor for another length. *)
LEMMA PrefixIsUnambiguous ==
  ASSUME NEW d, NEW o, NEW n \in 0..Capacity, Holds(d, o, LenWord(n))
  PROVE  /\ ~Holds(d, o, MarkerWord)
         /\ \A m : Holds(d, o, LenWord(m)) => m = n
  <1>1. d[o + 0] = <<n, 0>>
    BY FirstByte
  <1>2. <<n, 0>> # Mark
    BY RingAssumption
  <1>3. ~Holds(d, o, MarkerWord)
    BY <1>1, <1>2 DEF Holds, MarkerWord
  <1>4. ASSUME NEW m, Holds(d, o, LenWord(m)) PROVE m = n
    BY <1>1, <1>4, FirstByte
  <1> QED BY <1>3, <1>4

-----------------------------------------------------------------------------
(* A message stays intact when the bytes at its positions do. *)

(* The slack behind the ring only ever takes marker bytes. *)
MarkStays(d, e) == \A c \in Capacity..(Capacity + 2) : d[c] = Mark => e[c] = Mark

Agree(d, e, from, to) == \A pos \in from..(to - 1) : e[Offset(pos)] = d[Offset(pos)]

(* Bytes that agree over a stretch of positions agree over a part of it. *)
LEMMA AgreeInside ==
  ASSUME NEW d, NEW e, NEW lo \in Nat, NEW hi \in Nat, NEW from \in Nat, NEW to \in Nat,
         lo <= from, to <= hi, Agree(d, e, lo, hi)
  PROVE  Agree(d, e, from, to)
  <1>1. \A pos \in from..(to - 1) : pos \in lo..(hi - 1)
    OBVIOUS
  <1>2. \A pos \in lo..(hi - 1) : e[Offset(pos)] = d[Offset(pos)]
    BY DEF Agree
  <1>3. \A pos \in from..(to - 1) : e[Offset(pos)] = d[Offset(pos)]
    BY <1>1, <1>2
  <1> QED BY <1>3 DEF Agree

(* An unchanged stretch of the ring agrees with itself cell by cell, whatever
   the offsets are taken from. *)
LEMMA SameBytesAgree ==
  ASSUME NEW d, NEW e, NEW from \in Nat, NEW to \in Nat,
         \A c \in 0..(Capacity - 1) : e[c] = d[c]
  PROVE  Agree(d, e, from, to)
  BY OffsetFacts DEF Agree

(* Bytes that agree on a range of positions agree at each of them. *)
LEMMA AgreeAt ==
  ASSUME NEW d, NEW e, NEW from, NEW to, Agree(d, e, from, to), NEW pos \in from..(to - 1)
  PROVE  e[Offset(pos)] = d[Offset(pos)]
  BY DEF Agree

(* Padding stays padding while the positions it covers keep their bytes. *)
LEMMA PaddedStays ==
  ASSUME NEW d, NEW e, NEW from \in Nat, NEW at \in Nat,
         Padded(d, from, at), Agree(d, e, from, at), MarkStays(d, e)
  PROVE  Padded(e, from, at)
  <1>1. CASE at = from
    BY <1>1 DEF Padded
  <1>2. CASE from < at /\ Offset(from) + (at - from) = Capacity
             /\ Holds(d, Offset(from), MarkerWord)
    <2>1. ASSUME NEW k \in 0..3 PROVE e[Offset(from) + k] = Mark
      <3>1. d[Offset(from) + k] = Mark
        BY <1>2 DEF Holds, MarkerWord
      <3>2. CASE k < at - from
        <4>1. Offset(from + k) = Offset(from) + k
          BY <1>2, <3>2, OffsetFacts
        <4>2. from + k \in from..(at - 1)
          BY <3>2
        <4> QED BY <3>1, <4>1, <4>2 DEF Agree
      <3>3. CASE k >= at - from
        <4>1. Offset(from) + k \in Capacity..(Capacity + 2)
          BY <1>2, <3>3, OffsetFacts
        <4> QED BY <3>1, <4>1 DEF MarkStays
      <3> QED BY <3>2, <3>3
    <2> QED BY <1>2, <2>1 DEF Padded, Holds, MarkerWord
  <1> QED BY <1>1, <1>2 DEF Padded

(* A length prefix stays in place while its four positions keep their bytes. *)
LEMMA PrefixedStays ==
  ASSUME NEW d, NEW e, NEW at \in Nat, NEW msg \in Payload,
         Prefixed(d, at, msg), Agree(d, e, at, at + 4)
  PROVE  Prefixed(e, at, msg)
  <1>1. ASSUME NEW k \in 0..3 PROVE e[Offset(at) + k] = d[Offset(at) + k]
    <2>0. Offset(at) \in Nat /\ Len(msg) \in Nat /\ Capacity \in Nat
      BY OffsetFacts, NeededValue
    <2>1. Offset(at + k) = Offset(at) + k
      <3>1. Offset(at) + k < Capacity
        BY <2>0 DEF Prefixed
      <3> QED BY <3>1, OffsetFacts
    <2>2. at + k \in at..(at + 4 - 1)
      OBVIOUS
    <2> QED BY <2>1, <2>2 DEF Agree
  <1> QED BY <1>1 DEF Prefixed, Holds

(* A payload stays in place while its positions keep their bytes. *)
LEMMA FilledStays ==
  ASSUME NEW d, NEW e, NEW at \in Nat, NEW msg \in Payload,
         Offset(at) + 4 + Len(msg) <= Capacity,
         Filled(d, at, msg), Agree(d, e, at, at + 4 + Len(msg))
  PROVE  Filled(e, at, msg)
  <1>1. ASSUME NEW k \in 1..Len(msg) PROVE e[Offset(at) + 3 + k] = d[Offset(at) + 3 + k]
    <2>0. Offset(at) \in Nat /\ Len(msg) \in Nat /\ Capacity \in Nat
      BY OffsetFacts, NeededValue
    <2>1. Offset(at + (3 + k)) = Offset(at) + (3 + k)
      <3>1. Offset(at) + (3 + k) < Capacity /\ 3 + k \in Nat
        BY <2>0
      <3> QED BY <3>1, OffsetFacts
    <2>2. at + (3 + k) \in at..(at + 4 + Len(msg) - 1)
      BY <2>0
    <2>3. Offset(at) + (3 + k) = Offset(at) + 3 + k
      BY <2>0, OffsetFacts
    <2> QED BY <2>1, <2>2, <2>3 DEF Agree
  <1> QED BY <1>1 DEF Filled

(* A whole message, padding included, survives every store outside of it. *)
LEMMA IntactStays ==
  ASSUME NEW d, NEW e, NEW m \in Message, m.from <= m.at, Intact(d, m),
         Agree(d, e, m.from, m.at + 4 + Len(m.msg)), MarkStays(d, e)
  PROVE  Intact(e, m)
  <1>1. m.from \in Nat /\ m.at \in Nat /\ m.msg \in Payload /\ Len(m.msg) \in Nat
    BY NeededValue DEF Message
  <1>2. Agree(d, e, m.from, m.at) /\ Agree(d, e, m.at, m.at + 4)
        /\ Agree(d, e, m.at, m.at + 4 + Len(m.msg))
    <2>1. m.at + 4 \in Nat /\ m.at + 4 + Len(m.msg) \in Nat
          /\ m.at <= m.at + 4 + Len(m.msg) /\ m.at + 4 <= m.at + 4 + Len(m.msg)
      BY <1>1
    <2> QED BY <1>1, <2>1, AgreeInside
  <1>3. Padded(e, m.from, m.at)
    BY <1>1, <1>2, PaddedStays DEF Intact
  <1>4. Prefixed(e, m.at, m.msg)
    BY <1>1, <1>2, PrefixedStays DEF Intact
  <1>5. Filled(e, m.at, m.msg)
    BY <1>1, <1>2, FilledStays DEF Intact, Prefixed
  <1> QED BY <1>3, <1>4, <1>5 DEF Intact

-----------------------------------------------------------------------------
(* Consequences of the invariant. *)

(* Messages of the log have natural positions, and their payloads fit a ring. *)
LEMMA LogTyped ==
  ASSUME TypeOK
  PROVE  /\ Len(log) \in Nat /\ Len(received) \in Nat
         /\ \A i \in 1..Len(log) :
              /\ log[i] \in Message
              /\ log[i].from \in Nat /\ log[i].at \in Nat /\ log[i].msg \in Payload
              /\ Len(log[i].msg) \in Nat /\ End(i) \in Nat
  <1>1. Len(log) \in Nat /\ Len(received) \in Nat
    BY DEF TypeOK
  <1>2. ASSUME NEW i \in 1..Len(log)
        PROVE  /\ log[i] \in Message
               /\ log[i].from \in Nat /\ log[i].at \in Nat /\ log[i].msg \in Payload
               /\ Len(log[i].msg) \in Nat /\ End(i) \in Nat
    <2>1. log[i] \in Message
      BY <1>2 DEF TypeOK
    <2>2. log[i].from \in Nat /\ log[i].at \in Nat /\ log[i].msg \in Payload
      BY <2>1 DEF Message
    <2>3. Len(log[i].msg) \in Nat
      BY <2>2, NeededValue
    <2> QED BY <2>1, <2>2, <2>3 DEF End
  <1> QED BY <1>1, <1>2

(* An unread message lies between the daemon's cursor and write_pos. *)
LEMMA UnreadBounds ==
  ASSUME IInv, NEW i \in (Len(received) + 1)..Len(log)
  PROVE  cursor <= log[i].from /\ log[i].from <= log[i].at /\ End(i) <= write_pos
  <1> DEFINE r == Len(received) + 1
  <1>1. TypeOK /\ Tiled /\ DaemonInStep
    BY DEF IInv
  <1>2. r \in 1..Len(log) /\ i \in 1..Len(log) /\ Len(log) \in Nat
    BY <1>1, LogTyped
  <1>3. cursor = log[r].from /\ log[r].from <= log[r].at
    BY <1>1, <1>2 DEF DaemonInStep, Start, Tiled
  <1>4. cursor <= End(r)
    BY <1>1, <1>2, <1>3, LogTyped DEF End
  <1>5. CASE i = r
    <2>1. End(i) <= Start(Len(log) + 1)
      BY <1>1, <1>2 DEF Tiled
    <2> QED BY <1>1, <1>2, <1>3, <1>5, <2>1, LogTyped DEF Start
  <1>6. CASE i > r
    <2>1. End(r) <= Start(i) /\ End(i) <= Start(Len(log) + 1)
      BY <1>1, <1>2, <1>6 DEF Tiled
    <2>2. Start(i) = log[i].from /\ Start(Len(log) + 1) = write_pos
      BY <1>2 DEF Start
    <2>3. log[i].from <= log[i].at
      BY <1>1, <1>2 DEF Tiled
    <2>4. cursor \in Nat /\ End(r) \in Nat /\ log[i].from \in Nat
      BY <1>1, <1>2, LogTyped DEF TypeOK
    <2> QED BY <1>4, <2>1, <2>2, <2>3, <2>4
  <1> QED BY <1>2, <1>5, <1>6

(* A pending message is intact, where the daemon looks for it. *)
LEMMA NextMessage ==
  ASSUME IInv, cursor < avail
  PROVE  LET i == Len(received) + 1 IN
         /\ i \in 1..Len(log)
         /\ log[i].from = cursor
         /\ Intact(data, log[i])
         /\ MessageAt = log[i].at
         /\ Len(log[i].msg) \in 0..Capacity
         /\ End(i) = Start(i + 1) /\ End(i) <= avail
  <1> DEFINE i == Len(received) + 1
             m == log[i]
  <1>1. TypeOK /\ Tiled /\ DaemonInStep /\ PositionsOrdered /\ UnreadIntact /\ Fifo
    BY DEF IInv
  <1>2. cursor \in Nat /\ avail \in Nat /\ write_pos \in Nat /\ cursor = Start(i)
    BY <1>1 DEF TypeOK, DaemonInStep
  <1>3. i \in 1..Len(log) /\ i \in (Len(received) + 1)..Len(log)
    <2>1. CASE Len(received) = Len(log)
      <3>1. cursor = write_pos
        BY <1>1, <1>2, <2>1, LogTyped DEF Start
      <3> QED BY <1>1, <1>2, <3>1 DEF PositionsOrdered
    <2>2. CASE Len(received) # Len(log)
      BY <1>1, <2>2, LogTyped DEF Fifo
    <2> QED BY <2>1, <2>2
  <1>4. m.from = cursor /\ Intact(data, m)
    BY <1>1, <1>2, <1>3 DEF Start, UnreadIntact
  <1>5. m.at \in Nat /\ m.msg \in Payload /\ Len(m.msg) \in Nat
    BY <1>1, <1>3, LogTyped
  <1>6. Len(m.msg) \in 0..Capacity
    <2>1. Offset(m.at) \in 0..(Capacity - 1) /\ Capacity \in Nat
      BY <1>5, OffsetFacts
    <2>2. Offset(m.at) + 4 + Len(m.msg) <= Capacity
      BY <1>4 DEF Intact, Prefixed
    <2> QED BY <1>5, <2>1, <2>2
  <1>7. MessageAt = m.at
    <2>1. CASE m.at = cursor
      <3>1. Holds(data, Offset(cursor), LenWord(Len(m.msg)))
        BY <1>4, <2>1 DEF Intact, Prefixed
      <3>2. ~Holds(data, Offset(cursor), MarkerWord)
        BY <1>6, <3>1, PrefixIsUnambiguous
      <3> QED BY <2>1, <3>2 DEF MessageAt
    <2>2. CASE m.at # cursor
      <3>1. /\ Offset(cursor) + (m.at - cursor) = Capacity
            /\ Holds(data, Offset(cursor), MarkerWord)
        BY <1>4, <2>2 DEF Intact, Padded
      <3>2. Offset(cursor) \in Nat /\ Capacity \in Nat
        BY <1>2, OffsetFacts
      <3> QED BY <1>2, <1>5, <3>1, <3>2 DEF MessageAt
    <2> QED BY <2>1, <2>2
  <1>8. End(i) = Start(i + 1)
    BY <1>1, <1>3 DEF Tiled
  <1>9. End(i) <= avail
    <2>1. PICK j \in 1..(Len(log) + 1) : avail = Start(j)
      BY <1>1 DEF DaemonInStep
    <2>2. CASE j <= i
      <3>1. CASE j = i
        BY <1>2, <2>1, <3>1
      <3>2. CASE j < i
        <4>1. End(j) <= Start(i) /\ log[j].from <= log[j].at /\ j \in 1..Len(log)
          BY <1>1, <1>3, <2>2, <3>2, LogTyped DEF Tiled
        <4>2. Start(j) <= End(j)
          <5> HIDE DEF i, m
          <5>1. log[j].from \in Nat /\ log[j].at \in Nat /\ Len(log[j].msg) \in Nat
            BY <1>1, <4>1, LogTyped
          <5>2. j <= Len(log)
            BY <1>1, <4>1, LogTyped
          <5>3. Start(j) = log[j].from
            BY <5>2 DEF Start
          <5> QED BY <4>1, <5>1, <5>3 DEF End
        <4>3. /\ Start(i) \in Nat /\ Start(j) \in Nat /\ End(j) \in Nat
              /\ Start(i) = cursor /\ cursor \in Nat
          BY <1>1, <1>2, <1>3, <4>1, LogTyped DEF Start
        <4> QED BY <1>1, <1>2, <2>1, <4>1, <4>2, <4>3
      <3> QED BY <1>3, <2>2, <3>1, <3>2
    <2>3. CASE j > i
      BY <1>1, <1>3, <2>1, <2>3, LogTyped DEF Tiled
    <2> QED BY <1>3, <2>2, <2>3
  <1> QED BY <1>3, <1>4, <1>6, <1>7, <1>8, <1>9

(* What the guards of the call in progress compute. *)
LEMMA Guards ==
  ASSUME IInv, ppc = "check", ~Full
  PROVE  /\ payload \in Payload /\ Needed(payload) = 4 + Len(payload)
         /\ local_write_pos + Needed(payload) <= loaded_read_pos + Capacity
         /\ Straddles <=> Offset(local_write_pos) + Needed(payload) > Capacity
         /\ ~NoWrapRoom => local_write_pos + PadBytes + Needed(payload)
                             <= loaded_read_pos + Capacity
  <1>1. /\ payload \in Payload /\ local_write_pos \in Nat /\ loaded_read_pos \in Nat
    BY DEF IInv, TypeOK, CallInStep
  <1>2. Needed(payload) = 4 + Len(payload) /\ Len(payload) \in Nat
    BY <1>1, NeededValue
  <1>3. Offset(local_write_pos) \in 0..(Capacity - 1) /\ Capacity \in Nat
    BY <1>1, OffsetFacts
  <1>4. loaded_read_pos <= local_write_pos
    <2>1. /\ loaded_read_pos <= visible_read_pos /\ PositionsOrdered
          /\ visible_read_pos \in Nat /\ read_pos \in Nat /\ cursor \in Nat
          /\ avail \in Nat /\ write_pos \in Nat
      BY DEF IInv, TypeOK, CallInStep
    <2> QED BY <1>1, <2>1 DEF PositionsOrdered
  <1>5. local_write_pos + Needed(payload) <= loaded_read_pos + Capacity
    BY <1>1, <1>2, <1>3 DEF Full, Used
  <1>6. Needed(payload) <= Capacity
    BY <1>1, <1>2, <1>3, <1>4, <1>5
  <1>7. U32Add(Offset(local_write_pos), Needed(payload))
          = Offset(local_write_pos) + Needed(payload)
    <2>1. Offset(local_write_pos) + Needed(payload) < 2 * Capacity
      BY <1>2, <1>3, <1>6
    <2>2. U32 \in Nat /\ 2 * Capacity <= U32
      BY RingAssumption
    <2> QED BY <1>2, <1>3, <2>1, <2>2 DEF U32Add
  <1>8. ~NoWrapRoom => local_write_pos + PadBytes + Needed(payload)
                         <= loaded_read_pos + Capacity
    BY <1>1, <1>2, <1>3 DEF NoWrapRoom, Used, PadBytes
  <1> QED BY <1>1, <1>2, <1>5, <1>7, <1>8 DEF Straddles

-----------------------------------------------------------------------------
(* The stores of the worker. *)

(* A store of n bytes at position a, less than a ring ahead of position low,  *)
(* touches no byte between the two.                                           *)
LEMMA StoreMisses ==
  ASSUME NEW d, NEW e, NEW low \in Nat, NEW a \in Nat, NEW n \in Nat,
         Offset(a) + n <= Capacity, a + n <= low + Capacity,
         \A c \in 0..(Capacity - 1) : c \notin Offset(a)..(Offset(a) + n - 1) => e[c] = d[c]
  PROVE  Agree(d, e, low, a)
  <1> SUFFICES ASSUME NEW pos \in low..(a - 1) PROVE e[Offset(pos)] = d[Offset(pos)]
    BY DEF Agree
  <1>1. Offset(pos) \in 0..(Capacity - 1) /\ Offset(a) \in 0..(Capacity - 1)
        /\ Capacity \in Nat /\ pos \in Nat
    BY OffsetFacts
  <1>2. ASSUME Offset(pos) \in Offset(a)..(Offset(a) + n - 1) PROVE FALSE
    <2> DEFINE k == Offset(pos) - Offset(a)
    <2>1. k \in Nat /\ k < n /\ Offset(a) + k < Capacity
      BY <1>1, <1>2
    <2>2. Offset(a + k) = Offset(a) + k
      BY <2>1, OffsetFacts
    <2>3. pos < a + k /\ a + k < pos + Capacity /\ a + k \in Nat
      BY <1>1, <2>1
    <2>4. Offset(pos) # Offset(a + k)
      BY <1>1, <2>3, OffsetFacts
    <2> QED BY <1>1, <2>2, <2>4
  <1> QED BY <1>1, <1>2

(* The padding marker of WritePadding touches no unread byte. *)
LEMMA PaddingMisses ==
  ASSUME IInv, WritePadding
  PROVE  Agree(data, data', visible_read_pos, local_write_pos) /\ MarkStays(data, data')
  <1> DEFINE o == Offset(local_write_pos)
  <1>1. /\ local_write_pos \in Nat /\ loaded_read_pos \in Nat /\ visible_read_pos \in Nat
        /\ loaded_read_pos <= visible_read_pos /\ data \in [Cells -> CellValue]
    BY DEF IInv, TypeOK, CallInStep
  <1>2. o \in 0..(Capacity - 1) /\ Capacity \in Nat
    BY <1>1, OffsetFacts
  <1>3. PadBytes = Capacity - o /\ PadBytes \in Nat
    BY <1>2 DEF PadBytes
  <1>4. local_write_pos + PadBytes <= visible_read_pos + Capacity
    <2>1. local_write_pos + PadBytes + Needed(payload) <= loaded_read_pos + Capacity
      BY Guards DEF WritePadding
    <2>2. Needed(payload) \in Nat
      BY Guards, NeededValue DEF WritePadding
    <2> QED BY <1>1, <1>2, <1>3, <2>1, <2>2
  <1>5. data' = [c \in Cells |-> IF c \in o..(o + 3) THEN MarkerWord[c - o] ELSE data[c]]
    BY DEF WritePadding, StoreWord
  <1>6. \A c \in 0..(Capacity - 1) : c \notin o..(o + PadBytes - 1) => data'[c] = data[c]
    BY <1>2, <1>3, <1>5 DEF Cells
  <1>7. Agree(data, data', visible_read_pos, local_write_pos)
    <2>1. o + PadBytes <= Capacity
      BY <1>2, <1>3
    <2> QED BY <1>1, <1>3, <1>4, <1>6, <2>1, StoreMisses
  <1>8. MarkStays(data, data')
    BY <1>2, <1>5 DEF MarkStays, Cells, MarkerWord
  <1> QED BY <1>7, <1>8

(* The prefix, stored wherever the call in progress has made room for it. *)
LEMMA PrefixMisses ==
  ASSUME IInv, WritePrefix
  PROVE  /\ Offset(local_write_pos) + Needed(payload) <= Capacity
         /\ local_write_pos + Needed(payload) <= loaded_read_pos + Capacity
         /\ Padded(data, write_pos, local_write_pos)
         /\ Agree(data, data', visible_read_pos, local_write_pos) /\ MarkStays(data, data')
         /\ Prefixed(data', local_write_pos, payload)
  <1> DEFINE o == Offset(local_write_pos)
  <1>1. /\ local_write_pos \in Nat /\ loaded_read_pos \in Nat /\ visible_read_pos \in Nat
        /\ loaded_read_pos <= visible_read_pos /\ data \in [Cells -> CellValue]
        /\ payload \in Payload
    BY DEF IInv, TypeOK, CallInStep, WritePrefix
  <1>2. o \in 0..(Capacity - 1) /\ Capacity \in Nat
    BY <1>1, OffsetFacts
  <1>3. Needed(payload) = 4 + Len(payload) /\ Len(payload) \in Nat
    BY <1>1, NeededValue
  <1>4. /\ o + Needed(payload) <= Capacity
        /\ local_write_pos + Needed(payload) <= loaded_read_pos + Capacity
        /\ Padded(data, write_pos, local_write_pos)
    <2>1. CASE ppc = "prefix"
      BY <2>1 DEF IInv, CallInStep
    <2>2. CASE ppc = "check" /\ ~Full /\ ~Straddles
      <3>1. local_write_pos = write_pos
        BY <2>2 DEF IInv, CallInStep
      <3> QED BY <1>2, <1>3, <2>2, <3>1, Guards DEF Padded
    <2> QED BY <2>1, <2>2 DEF WritePrefix
  <1>5. data' = [c \in Cells |-> IF c \in o..(o + 3) THEN LenWord(Len(payload))[c - o]
                                ELSE data[c]]
    BY DEF WritePrefix, StoreWord
  <1>6. \A c \in 0..(Capacity - 1) : c \notin o..(o + 4 - 1) => data'[c] = data[c]
    BY <1>2, <1>5 DEF Cells
  <1>7. Agree(data, data', visible_read_pos, local_write_pos)
    <2>1. o + 4 <= Capacity /\ local_write_pos + 4 <= visible_read_pos + Capacity
      BY <1>1, <1>2, <1>3, <1>4
    <2> QED BY <1>1, <1>6, <2>1, StoreMisses
  <1>8. MarkStays(data, data')
    BY <1>2, <1>3, <1>4, <1>5 DEF MarkStays, Cells
  <1>9. Prefixed(data', local_write_pos, payload)
    <2>1. \A k \in 0..3 : o + k \in Cells /\ o + k \in o..(o + 3) /\ (o + k) - o = k
      BY <1>2, <1>3, <1>4 DEF Cells
    <2>2. Holds(data', o, LenWord(Len(payload)))
      <3> SUFFICES ASSUME NEW k \in 0..3 PROVE data'[o + k] = LenWord(Len(payload))[k]
        BY DEF Holds
      <3>1. data'[o + k] = LenWord(Len(payload))[(o + k) - o]
        BY <1>5, <2>1
      <3> QED BY <2>1, <3>1
    <2> QED BY <1>2, <1>3, <1>4, <2>2 DEF Prefixed
  <1> QED BY <1>4, <1>7, <1>8, <1>9

(* The payload of WritePayload touches neither an unread byte nor the prefix
   and padding in front of it. *)
LEMMA PayloadMisses ==
  ASSUME IInv, WritePayload
  PROVE  /\ Agree(data, data', visible_read_pos, local_write_pos + 4)
         /\ MarkStays(data, data')
         /\ Filled(data', local_write_pos, payload)
  <1> DEFINE o == Offset(local_write_pos)
  <1>1. /\ local_write_pos \in Nat /\ loaded_read_pos \in Nat /\ visible_read_pos \in Nat
        /\ loaded_read_pos <= visible_read_pos /\ data \in [Cells -> CellValue]
        /\ payload \in Payload
        /\ o + Needed(payload) <= Capacity
        /\ local_write_pos + Needed(payload) <= loaded_read_pos + Capacity
    BY DEF IInv, TypeOK, CallInStep, WritePayload
  <1>2. o \in 0..(Capacity - 1) /\ Capacity \in Nat
    BY <1>1, OffsetFacts
  <1>3. Needed(payload) = 4 + Len(payload) /\ Len(payload) \in Nat
    BY <1>1, NeededValue
  <1>4. data' = [c \in Cells |-> IF c \in (o + 4)..(o + 4 + Len(payload) - 1)
                                THEN payload[c - (o + 4) + 1] ELSE data[c]]
    BY DEF WritePayload
  <1>5. MarkStays(data, data')
    <2> SUFFICES ASSUME NEW c \in Capacity..(Capacity + 2), data[c] = Mark
                 PROVE  data'[c] = Mark
      BY DEF MarkStays
    <2>1. c \in Cells /\ c \in Nat /\ c >= Capacity
      BY <1>2 DEF Cells
    <2>2. o + 4 + Len(payload) - 1 < c
      BY <1>1, <1>2, <1>3, <2>1
    <2>3. c \notin (o + 4)..(o + 4 + Len(payload) - 1)
      BY <1>2, <1>3, <2>1, <2>2
    <2> QED BY <1>4, <2>1, <2>3
  <1>6. Filled(data', local_write_pos, payload)
    <2>1. \A k \in 1..Len(payload) :
            /\ o + 3 + k \in Cells /\ o + 3 + k \in (o + 4)..(o + 4 + Len(payload) - 1)
            /\ (o + 3 + k) - (o + 4) + 1 = k
      <3>1. o \in Nat /\ Capacity \in Nat /\ o + 4 + Len(payload) <= Capacity
        BY <1>1, <1>2, <1>3
      <3> HIDE DEF o
      <3> TAKE k \in 1..Len(payload)
      <3>2. k \in Nat /\ 1 <= k /\ k <= Len(payload)
        BY <1>3
      <3> QED BY <1>3, <3>1, <3>2 DEF Cells
    <2>2. ASSUME NEW k \in 1..Len(payload)
          PROVE  data'[o + 3 + k] = payload[k]
      <3>1. data'[o + 3 + k] = payload[(o + 3 + k) - (o + 4) + 1]
        BY <1>4, <2>1
      <3> QED BY <2>1, <3>1
    <2> QED BY <2>2 DEF Filled
  <1>7. Agree(data, data', visible_read_pos, local_write_pos + 4)
    <2>1. CASE Len(payload) = 0
      <3>1. \A c \in Cells : data'[c] = data[c]
        BY <1>2, <1>4, <2>1
      <3>2. \A c \in 0..(Capacity - 1) : data'[c] = data[c]
        BY <1>2, <3>1 DEF Cells
      <3> QED BY <1>1, <3>2, SameBytesAgree
    <2>2. CASE Len(payload) # 0
      <3>1. Offset(local_write_pos + 4) = o + 4
        <4>1. local_write_pos \in Nat /\ 4 \in Nat /\ Offset(local_write_pos) + 4 < Capacity
          BY <1>1, <1>2, <1>3, <2>2
        <4> QED BY <4>1, OffsetFacts
      <3>2. \A c \in 0..(Capacity - 1) :
              c \notin (o + 4)..(o + 4 + Len(payload) - 1) => data'[c] = data[c]
        BY <1>2, <1>4 DEF Cells
      <3>3. /\ o + 4 + Len(payload) <= Capacity
            /\ local_write_pos + 4 + Len(payload) <= visible_read_pos + Capacity
        BY <1>1, <1>2, <1>3
      <3> DEFINE a == local_write_pos + 4
                 n == Len(payload)
      <3>4. /\ Offset(a) + n <= Capacity /\ a + n <= visible_read_pos + Capacity
            /\ \A c \in 0..(Capacity - 1) :
                 c \notin Offset(a)..(Offset(a) + n - 1) => data'[c] = data[c]
            /\ a \in Nat /\ n \in Nat
        BY <1>1, <1>3, <3>1, <3>2, <3>3
      <3> HIDE DEF a, n
      <3>5. Agree(data, data', visible_read_pos, a)
        BY <1>1, <3>4, StoreMisses
      <3> QED BY <3>5 DEF a
    <2> QED BY <2>1, <2>2
  <1> QED BY <1>5, <1>6, <1>7

-----------------------------------------------------------------------------
(* The invariant is inductive: one lemma per action. *)

(* The zeroed ring satisfies the invariant. *)
LEMMA InitInv == Init => IInv
  <1> SUFFICES ASSUME Init PROVE IInv
    OBVIOUS
  <1> USE DEF Init
  <1>1. TypeOK
    BY DEF TypeOK, CellValue
  <1>2. Fifo
    BY DEF Fifo, Idle, Garbled
  <1>3. PositionsOrdered
    BY RingAssumption DEF PositionsOrdered
  <1>4. Tiled /\ UnreadIntact
    BY DEF Tiled, UnreadIntact
  <1>5. DaemonInStep
    BY DEF DaemonInStep, Start
  <1>6. CallInStep
    BY DEF CallInStep
  <1> QED BY <1>1, <1>2, <1>3, <1>4, <1>5, <1>6 DEF IInv

(* Bytes that change elsewhere leave the unread messages intact. *)
LEMMA UnreadKept ==
  ASSUME IInv, NEW e, Agree(data, e, visible_read_pos, local_write_pos), MarkStays(data, e),
         NEW i \in (Len(received) + 1)..Len(log)
  PROVE  Intact(e, log[i])
  <1>1. i \in 1..Len(log)
    BY LogTyped DEF IInv
  <1>2. /\ log[i] \in Message /\ log[i].from \in Nat /\ log[i].at \in Nat
        /\ Len(log[i].msg) \in Nat /\ End(i) = log[i].at + 4 + Len(log[i].msg)
    BY <1>1, LogTyped DEF IInv, End
  <1>3. visible_read_pos <= log[i].from /\ log[i].from <= log[i].at /\ End(i) <= local_write_pos
    <2>1. /\ visible_read_pos \in Nat /\ read_pos \in Nat /\ cursor \in Nat
          /\ write_pos \in Nat /\ local_write_pos \in Nat
      BY DEF IInv, TypeOK
    <2>2. visible_read_pos <= read_pos /\ read_pos <= cursor /\ write_pos <= local_write_pos
      BY DEF IInv, PositionsOrdered
    <2>3. cursor <= log[i].from /\ log[i].from <= log[i].at /\ End(i) <= write_pos
      BY UnreadBounds, Zenon
    <2>4. End(i) \in Nat
      BY <1>2
    <2> QED BY <1>2, <2>1, <2>2, <2>3, <2>4
  <1>4. Agree(data, e, log[i].from, log[i].at + 4 + Len(log[i].msg))
    <2>1. visible_read_pos \in Nat /\ local_write_pos \in Nat
      BY DEF IInv, TypeOK
    <2>2. log[i].at + 4 + Len(log[i].msg) \in Nat
      BY <1>2
    <2>3. log[i].at + 4 + Len(log[i].msg) <= local_write_pos
      BY <1>2, <1>3
    <2> QED BY <1>2, <1>3, <2>1, <2>2, <2>3, AgreeInside
  <1>5. Intact(data, log[i])
    BY DEF IInv, UnreadIntact
  <1> QED BY <1>2, <1>3, <1>4, <1>5, IntactStays

(* A refused oversize payload changes the drop counter only. *)
LEMMA RefuseOversizeInv ==
  ASSUME IInv, NEW p \in Payload, RefuseOversize(p) PROVE IInv'
  <1> USE DEF RefuseOversize, worker, daemon
  <1>1. TypeOK'
    BY DEF IInv, TypeOK
  <1>2. Fifo' /\ PositionsOrdered'
    BY DEF IInv, Fifo, PositionsOrdered
  <1>3. Tiled' /\ DaemonInStep'
    BY DEF IInv, Tiled, DaemonInStep, Start, End
  <1>4. UnreadIntact'
    BY DEF IInv, UnreadIntact
  <1>5. CallInStep'
    BY DEF IInv, CallInStep
  <1> QED BY <1>1, <1>2, <1>3, <1>4, <1>5 DEF IInv

(* Loading an old read_pos keeps the invariant: it is at most the visible one. *)
LEMMA LoadReadPosInv ==
  ASSUME IInv, NEW p \in Payload, LoadReadPos(p) PROVE IInv'
  <1> USE DEF LoadReadPos, shared, daemon
  <1>1. TypeOK'
    BY DEF IInv, TypeOK
  <1>2. Fifo' /\ PositionsOrdered'
    BY DEF IInv, Fifo, PositionsOrdered
  <1>3. Tiled' /\ DaemonInStep'
    BY DEF IInv, Tiled, DaemonInStep, Start, End
  <1>4. UnreadIntact'
    BY DEF IInv, UnreadIntact
  <1>5. CallInStep'
    BY DEF IInv, TypeOK, CallInStep, CanCall
  <1> QED BY <1>1, <1>2, <1>3, <1>4, <1>5 DEF IInv

(* A drop leaves positions and bytes alone. *)
LEMMA DropInv == ASSUME IInv, Drop PROVE IInv'
  <1> USE DEF Drop, daemon
  <1>1. TypeOK'
    BY DEF IInv, TypeOK
  <1>2. Fifo' /\ PositionsOrdered'
    BY DEF IInv, Fifo, PositionsOrdered
  <1>3. Tiled' /\ DaemonInStep'
    BY DEF IInv, Tiled, DaemonInStep, Start, End
  <1>4. UnreadIntact'
    BY DEF IInv, UnreadIntact
  <1>5. CallInStep'
    BY DEF IInv, CallInStep
  <1> QED BY <1>1, <1>2, <1>3, <1>4, <1>5 DEF IInv

(* A kill at any point leaves every published message intact. *)
LEMMA KillInv == ASSUME IInv, Kill PROVE IInv'
  <1> USE DEF Kill, shared, daemon
  <1>1. TypeOK'
    BY DEF IInv, TypeOK
  <1>2. Fifo' /\ PositionsOrdered'
    BY DEF IInv, Fifo, PositionsOrdered
  <1>3. Tiled' /\ DaemonInStep'
    BY DEF IInv, Tiled, DaemonInStep, Start, End
  <1>4. UnreadIntact'
    BY DEF IInv, UnreadIntact
  <1>5. CallInStep'
    BY DEF IInv, CallInStep
  <1> QED BY <1>1, <1>2, <1>3, <1>4, <1>5 DEF IInv

(* Padding at the end of the ring: the message moves to offset 0 and has room. *)
LEMMA WritePaddingInv == ASSUME IInv, WritePadding PROVE IInv'
  <1> DEFINE o == Offset(local_write_pos)
  <1>0. /\ local_write_pos \in Nat /\ loaded_read_pos \in Nat /\ visible_read_pos \in Nat
        /\ loaded_read_pos <= visible_read_pos /\ local_write_pos = write_pos
        /\ data \in [Cells -> CellValue] /\ payload \in Payload
    BY DEF IInv, TypeOK, CallInStep, WritePadding
  <1>1. o \in 0..(Capacity - 1) /\ Capacity \in Nat /\ PadBytes = Capacity - o
        /\ PadBytes \in Nat \ {0}
    BY <1>0, OffsetFacts DEF PadBytes
  <1>2. Needed(payload) = 4 + Len(payload) /\ Len(payload) \in Nat
    BY <1>0, NeededValue
  <1>3. local_write_pos + PadBytes + Needed(payload) <= loaded_read_pos + Capacity
    BY Guards DEF WritePadding
  <1>4. Agree(data, data', visible_read_pos, local_write_pos) /\ MarkStays(data, data')
    BY PaddingMisses
  <1>5. data' = [c \in Cells |-> IF c \in o..(o + 3) THEN MarkerWord[c - o] ELSE data[c]]
    BY DEF WritePadding, StoreWord
  <1>6. Holds(data', o, MarkerWord)
    <2>0. o \in Nat /\ Capacity \in Nat /\ o + 3 <= Capacity + 2
      BY <1>1
    <2>1. \A k \in 0..3 : o + k \in Cells /\ o + k \in o..(o + 3) /\ (o + k) - o = k
      BY <2>0 DEF Cells
    <2> SUFFICES ASSUME NEW k \in 0..3 PROVE data'[o + k] = MarkerWord[k]
      BY DEF Holds
    <2>2. data'[o + k] = MarkerWord[(o + k) - o]
      BY <1>5, <2>1
    <2> QED BY <2>1, <2>2
  <1>7. Offset(local_write_pos + PadBytes) = 0
    BY <1>0, <1>1, OffsetFacts
  <1>8. TypeOK'
    <2>1. data' \in [Cells -> CellValue]
      BY <1>0, <1>1, <1>5 DEF CellValue, MarkerWord
    <2> QED BY <1>0, <1>1, <2>1 DEF IInv, TypeOK, WritePadding, daemon
  <1>9. Fifo'
    BY DEF IInv, Fifo, WritePadding, daemon
  <1>10. PositionsOrdered'
    <2>1. local_write_pos' = local_write_pos + PadBytes
      BY DEF WritePadding
    <2>2. /\ visible_read_pos <= read_pos /\ read_pos <= cursor /\ cursor <= avail
          /\ avail <= write_pos /\ write_pos <= local_write_pos
      BY DEF IInv, PositionsOrdered
    <2>3. UNCHANGED <<visible_read_pos, read_pos, cursor, avail, write_pos>>
      BY DEF WritePadding, daemon
    <2>4. write_pos <= local_write_pos + PadBytes
          /\ local_write_pos + PadBytes <= visible_read_pos + Capacity
      BY <1>0, <1>1, <1>2, <1>3, <2>2
    <2> QED BY <2>1, <2>2, <2>3, <2>4 DEF PositionsOrdered
  <1>11. Tiled' /\ DaemonInStep'
    BY DEF IInv, Tiled, DaemonInStep, Start, End, WritePadding, daemon
  <1>12. UnreadIntact'
    BY <1>4, UnreadKept DEF UnreadIntact, WritePadding
  <1>13. CallInStep'
    <2>1. /\ local_write_pos' = local_write_pos + PadBytes /\ write_pos' = write_pos
          /\ payload' = payload /\ loaded_read_pos' = loaded_read_pos /\ ppc' = "prefix"
          /\ visible_read_pos' = visible_read_pos
      BY DEF WritePadding
    <2>2. Padded(data', write_pos, local_write_pos + PadBytes)
      BY <1>0, <1>1, <1>6 DEF Padded
    <2>3. Offset(local_write_pos + PadBytes) + Needed(payload) <= Capacity
      <3>1. loaded_read_pos <= write_pos
        <4>1. write_pos \in Nat /\ read_pos \in Nat /\ cursor \in Nat /\ avail \in Nat
          BY DEF IInv, TypeOK
        <4> QED BY <1>0, <4>1 DEF IInv, PositionsOrdered
      <3> QED BY <1>0, <1>1, <1>2, <1>3, <1>7, <3>1
    <2> QED BY <1>0, <1>3, <2>1, <2>2, <2>3 DEF CallInStep
  <1> QED BY <1>8, <1>9, <1>10, <1>11, <1>12, <1>13 DEF IInv

(* The prefix goes where the message starts, straight or behind padding. *)
LEMMA WritePrefixInv == ASSUME IInv, WritePrefix PROVE IInv'
  <1> DEFINE o == Offset(local_write_pos)
  <1>0. /\ local_write_pos \in Nat /\ write_pos \in Nat /\ data \in [Cells -> CellValue]
        /\ payload \in Payload /\ write_pos <= local_write_pos /\ visible_read_pos \in Nat
    BY DEF IInv, TypeOK, CallInStep, WritePrefix, PositionsOrdered
  <1>1. /\ o + Needed(payload) <= Capacity
        /\ local_write_pos + Needed(payload) <= loaded_read_pos + Capacity
        /\ Padded(data, write_pos, local_write_pos)
        /\ Agree(data, data', visible_read_pos, local_write_pos) /\ MarkStays(data, data')
        /\ Prefixed(data', local_write_pos, payload)
    BY PrefixMisses
  <1>2. Needed(payload) = 4 + Len(payload) /\ Len(payload) \in Nat
        /\ o \in Nat /\ Capacity \in Nat
    <2>1. Needed(payload) = 4 + Len(payload) /\ Len(payload) \in Nat
      BY <1>0, NeededValue
    <2>2. o \in Nat /\ Capacity \in Nat
      BY <1>0, OffsetFacts
    <2> QED BY <2>1, <2>2
  <1>3. TypeOK'
    <2>1. Len(payload) \in 0..Capacity
      BY <1>1, <1>2
    <2>2. \A c \in o..(o + 3) : LenWord(Len(payload))[c - o] \in CellValue
      BY <1>2, <2>1 DEF LenWord, CellValue
    <2>3. data' \in [Cells -> CellValue]
      BY <1>0, <2>2 DEF WritePrefix, StoreWord
    <2> QED BY <2>3 DEF IInv, TypeOK, WritePrefix, daemon
  <1>4. Fifo' /\ PositionsOrdered'
    BY DEF IInv, Fifo, PositionsOrdered, WritePrefix, daemon
  <1>5. Tiled' /\ DaemonInStep'
    BY DEF IInv, Tiled, DaemonInStep, Start, End, WritePrefix, daemon
  <1>6. UnreadIntact'
    BY <1>1, UnreadKept DEF UnreadIntact, WritePrefix
  <1>7. CallInStep'
    <2>1. /\ local_write_pos' = local_write_pos /\ write_pos' = write_pos
          /\ payload' = payload /\ loaded_read_pos' = loaded_read_pos /\ ppc' = "payload"
          /\ visible_read_pos' = visible_read_pos
      BY DEF WritePrefix
    <2>2. Padded(data', write_pos, local_write_pos)
      <3>1. Agree(data, data', write_pos, local_write_pos)
        <4>1. visible_read_pos <= write_pos
          <5>1. read_pos \in Nat /\ cursor \in Nat /\ avail \in Nat
            BY DEF IInv, TypeOK
          <5> QED BY <1>0, <5>1 DEF IInv, PositionsOrdered
        <4> QED BY <1>0, <1>1, <4>1 DEF Agree
      <3> QED BY <1>0, <1>1, <3>1, PaddedStays
    <2>3. loaded_read_pos <= visible_read_pos
      BY DEF IInv, CallInStep
    <2> QED BY <1>0, <1>1, <2>1, <2>2, <2>3 DEF CallInStep
  <1> QED BY <1>3, <1>4, <1>5, <1>6, <1>7 DEF IInv

(* The payload follows its prefix; the message is whole, not yet published. *)
LEMMA WritePayloadInv == ASSUME IInv, WritePayload PROVE IInv'
  <1> DEFINE o == Offset(local_write_pos)
  <1>0. /\ local_write_pos \in Nat /\ write_pos \in Nat /\ data \in [Cells -> CellValue]
        /\ payload \in Payload /\ write_pos <= local_write_pos /\ visible_read_pos \in Nat
        /\ loaded_read_pos \in Nat /\ loaded_read_pos <= visible_read_pos
    BY DEF IInv, TypeOK, CallInStep, WritePayload, PositionsOrdered
  <1>1. /\ o + Needed(payload) <= Capacity
        /\ local_write_pos + Needed(payload) <= loaded_read_pos + Capacity
        /\ Padded(data, write_pos, local_write_pos)
        /\ Prefixed(data, local_write_pos, payload)
    BY DEF IInv, CallInStep, WritePayload
  <1>2. /\ Agree(data, data', visible_read_pos, local_write_pos + 4)
        /\ MarkStays(data, data') /\ Filled(data', local_write_pos, payload)
    BY PayloadMisses
  <1>3. Needed(payload) = 4 + Len(payload) /\ Len(payload) \in Nat
        /\ o \in Nat /\ Capacity \in Nat /\ payload \in Seq(Byte)
    <2>1. Needed(payload) = 4 + Len(payload) /\ Len(payload) \in Nat /\ payload \in Seq(Byte)
      BY <1>0, NeededValue
    <2>2. o \in Nat /\ Capacity \in Nat
      BY <1>0, OffsetFacts
    <2> QED BY <2>1, <2>2
  <1>4. visible_read_pos <= write_pos
    <2>1. read_pos \in Nat /\ cursor \in Nat /\ avail \in Nat
      BY DEF IInv, TypeOK
    <2> QED BY <1>0, <2>1 DEF IInv, PositionsOrdered
  <1>5. /\ Agree(data, data', visible_read_pos, local_write_pos)
        /\ Agree(data, data', write_pos, local_write_pos)
        /\ Agree(data, data', local_write_pos, local_write_pos + 4)
    BY <1>0, <1>2, <1>4 DEF Agree
  <1>6. TypeOK'
    <2>1. \A c \in (o + 4)..(o + 4 + Len(payload) - 1) : payload[c - (o + 4) + 1] \in Byte
      BY <1>3
    <2>2. data' \in [Cells -> CellValue]
      BY <1>0, <2>1 DEF WritePayload, CellValue
    <2>3. local_write_pos' \in Nat
      BY <1>0, <1>3 DEF WritePayload
    <2> QED BY <2>2, <2>3 DEF IInv, TypeOK, WritePayload, daemon
  <1>7. Fifo'
    BY DEF IInv, Fifo, WritePayload, daemon
  <1>8. PositionsOrdered'
    <2>1. local_write_pos' = local_write_pos + Needed(payload)
      BY DEF WritePayload
    <2>2. write_pos <= local_write_pos' /\ local_write_pos' <= visible_read_pos + Capacity
      BY <1>0, <1>1, <1>3, <2>1
    <2> QED BY <2>2 DEF IInv, PositionsOrdered, WritePayload, daemon
  <1>9. Tiled' /\ DaemonInStep'
    BY DEF IInv, Tiled, DaemonInStep, Start, End, WritePayload, daemon
  <1>10. UnreadIntact'
    BY <1>2, <1>5, UnreadKept DEF UnreadIntact, WritePayload
  <1>11. CallInStep'
    <2> DEFINE m == [from |-> write_pos, at |-> local_write_pos, msg |-> payload]
    <2>1. /\ local_write_pos' = local_write_pos + Needed(payload) /\ write_pos' = write_pos
          /\ payload' = payload /\ loaded_read_pos' = loaded_read_pos /\ ppc' = "publish"
          /\ visible_read_pos' = visible_read_pos
      BY DEF WritePayload
    <2>2. Padded(data', write_pos, local_write_pos)
      BY <1>0, <1>1, <1>2, <1>5, PaddedStays
    <2>3. Prefixed(data', local_write_pos, payload)
      BY <1>0, <1>1, <1>5, PrefixedStays
    <2>4. Intact(data', m)
      BY <1>2, <2>2, <2>3 DEF Intact
    <2>5. local_write_pos' - Needed(payload') = local_write_pos
      BY <1>0, <1>3, <2>1
    <2>6. write_pos' + Needed(payload') <= local_write_pos'
      BY <1>0, <1>3, <2>1
    <2> QED BY <1>0, <2>1, <2>4, <2>5, <2>6 DEF CallInStep
  <1> QED BY <1>6, <1>7, <1>8, <1>9, <1>10, <1>11 DEF IInv

(* The release store adds the finished message to the log and to the tiling. *)
LEMMA PublishInv == ASSUME IInv, Publish PROVE IInv'
  <1> DEFINE at == local_write_pos - Needed(payload)
             m == [from |-> write_pos, at |-> at, msg |-> payload]
  <1>a. PICK n \in Nat : n = Len(log)
    BY LogTyped DEF IInv
  <1>0. /\ n = Len(log) /\ local_write_pos \in Nat /\ write_pos \in Nat /\ payload \in Payload
        /\ write_pos <= local_write_pos /\ n \in Nat /\ Len(received) \in Nat
        /\ log \in Seq(Message)
    BY <1>a DEF IInv, TypeOK, CallInStep, Publish, PositionsOrdered
  <1>1. Needed(payload) = 4 + Len(payload) /\ Len(payload) \in Nat
    BY <1>0, NeededValue
  <1>2. write_pos + Needed(payload) <= local_write_pos /\ Intact(data, m)
    BY DEF IInv, CallInStep, Publish
  <1>3. at \in Nat /\ write_pos <= at /\ m \in Message /\ at + 4 + Len(payload) = local_write_pos
    BY <1>0, <1>1, <1>2 DEF Message
  <1>4. /\ log' = Append(log, m) /\ write_pos' = local_write_pos
        /\ UNCHANGED <<read_pos, dropped, data, local_write_pos, payload, loaded_read_pos,
                       visible_read_pos, alive, daemon, received>>
        /\ ppc' = "idle"
    BY DEF Publish
  <1> HIDE DEF m
  <1>5. /\ Len(log') = n + 1 /\ log'[n + 1] = m
        /\ \A i \in 1..n : log'[i] = log[i]
    BY <1>0, <1>3, <1>4
  <1>6. m.from = write_pos /\ m.at = at /\ m.msg = payload
    BY DEF m
  <1>7. /\ \A i \in 1..(n + 1) : Start(i)' = Start(i)
        /\ Start(n + 2)' = local_write_pos
        /\ \A i \in 1..n : End(i)' = End(i)
        /\ End(n + 1)' = local_write_pos
    <2>1. ASSUME NEW i \in 1..(n + 1) PROVE Start(i)' = Start(i)
      BY <1>0, <1>5, <1>6, <2>1 DEF Start
    <2>2. Start(n + 2)' = local_write_pos
      BY <1>0, <1>4, <1>5 DEF Start
    <2>3. ASSUME NEW i \in 1..n PROVE End(i)' = End(i)
      BY <1>5, <2>3 DEF End
    <2>4. End(n + 1)' = local_write_pos
      BY <1>3, <1>5, <1>6 DEF End
    <2> QED BY <2>1, <2>2, <2>3, <2>4
  <1>8. TypeOK'
    <2>1. log' \in Seq(Message)
      BY <1>0, <1>3, <1>4
    <2> QED BY <1>0, <1>4, <2>1 DEF IInv, TypeOK, daemon
  <1>9. Fifo'
    BY <1>0, <1>4, <1>5 DEF IInv, Fifo, daemon
  <1>10. PositionsOrdered'
    <2>1. avail \in Nat /\ avail <= local_write_pos
      BY <1>0 DEF IInv, TypeOK, PositionsOrdered
    <2> QED BY <1>0, <1>4, <2>1 DEF IInv, PositionsOrdered, daemon
  <1>11. Tiled'
    <2>1. ASSUME NEW i \in 1..(n + 1)
          PROVE  (log[i].from)' <= (log[i].at)' /\ End(i)' = Start(i + 1)'
      <3>1. CASE i = n + 1
        BY <1>0, <1>3, <1>5, <1>6, <1>7, <3>1
      <3>2. CASE i \in 1..n
        <4>1. log[i].from <= log[i].at /\ End(i) = Start(i + 1)
          BY <1>0, <3>2 DEF IInv, Tiled
        <4> QED BY <1>0, <1>5, <1>7, <3>2, <4>1
      <3> QED BY <1>0, <3>1, <3>2
    <2>2. ASSUME NEW i \in 1..(n + 1), NEW j \in (i + 1)..(n + 2)
          PROVE  End(i)' <= Start(j)'
      <3>1. CASE i = n + 1
        BY <1>0, <1>7, <3>1
      <3>2. CASE i \in 1..n /\ j = n + 2
        <4>1. End(i) <= Start(n + 1) /\ Start(n + 1) = write_pos
          BY <1>0, <3>2 DEF IInv, Tiled, Start
        <4>2. End(i) \in Nat
          BY <1>0, <3>2, LogTyped DEF IInv
        <4> QED BY <1>0, <1>7, <3>2, <4>1, <4>2
      <3>3. CASE i \in 1..n /\ j \in (i + 1)..(n + 1)
        <4>1. End(i) <= Start(j)
          BY <1>0, <3>3 DEF IInv, Tiled
        <4> QED BY <1>0, <1>7, <3>3, <4>1
      <3> QED BY <1>0, <3>1, <3>2, <3>3
    <2> QED BY <1>0, <1>5, <2>1, <2>2 DEF Tiled
  <1>12. DaemonInStep'
    <2>1. Len(received) <= n
      BY <1>0 DEF IInv, Fifo
    <2>2. cursor' = Start(Len(received) + 1)'
      BY <1>0, <1>4, <1>7, <2>1 DEF IInv, DaemonInStep, daemon
    <2>3. \E j \in 1..(n + 2) : avail' = Start(j)'
      <3>1. PICK j \in 1..(n + 1) : avail = Start(j)
        BY <1>0 DEF IInv, DaemonInStep
      <3> QED BY <1>0, <1>4, <1>7, <3>1 DEF daemon
    <2>4. rlen' # Idle => cursor' < avail' /\ rlen' = Len(log'[Len(received') + 1].msg)
      <3>1. CASE rlen = Idle
        BY <1>4, <3>1 DEF daemon
      <3>2. CASE rlen # Idle
        <4>1. cursor < avail /\ rlen = Len(log[Len(received) + 1].msg)
          BY <3>2 DEF IInv, DaemonInStep
        <4>2. Len(received) + 1 \in 1..n
          BY <1>0, <4>1, NextMessage
        <4> QED BY <1>4, <1>5, <4>1, <4>2 DEF daemon
      <3> QED BY <3>1, <3>2
    <2>5. \E j \in 1..(Len(log') + 1) : avail' = Start(j)'
      <3>1. Len(log') + 1 = n + 2
        BY <1>5
      <3> QED BY <2>3, <3>1
    <2> QED BY <2>2, <2>4, <2>5 DEF DaemonInStep
  <1>13. UnreadIntact'
    <2>1. ASSUME NEW i \in (Len(received) + 1)..(n + 1) PROVE Intact(data, log'[i])
      <3>1. CASE i = n + 1
        BY <1>2, <1>5, <3>1
      <3>2. CASE i # n + 1
        <4>1. i \in (Len(received) + 1)..n /\ i \in 1..n
          BY <1>0, <3>2
        <4> QED BY <1>0, <1>5, <4>1 DEF IInv, UnreadIntact
      <3> QED BY <3>1, <3>2
    <2> QED BY <1>0, <1>4, <1>5, <2>1 DEF UnreadIntact
  <1>14. CallInStep'
    BY <1>4 DEF IInv, CallInStep
  <1> QED BY <1>8, <1>9, <1>10, <1>11, <1>12, <1>13, <1>14 DEF IInv

(* The daemon acquires write_pos: an end of a message. *)
LEMMA LoadWritePosInv == ASSUME IInv, LoadWritePos PROVE IInv'
  <1> USE DEF LoadWritePos, shared, worker
  <1>1. TypeOK'
    BY DEF IInv, TypeOK
  <1>2. Fifo'
    BY DEF IInv, Fifo
  <1>3. PositionsOrdered'
    <2>1. cursor \in Nat /\ avail \in Nat /\ write_pos \in Nat
      BY DEF IInv, TypeOK
    <2> QED BY <2>1 DEF IInv, PositionsOrdered
  <1>4. Tiled'
    BY DEF IInv, Tiled, Start, End
  <1>5. DaemonInStep'
    <2>1. avail' = Start(Len(log) + 1)' /\ Len(log) + 1 \in 1..(Len(log') + 1)
      BY LogTyped DEF IInv, Start
    <2>2. cursor' = Start(Len(received) + 1)'
      BY DEF IInv, DaemonInStep, Start
    <2> QED BY <2>1, <2>2 DEF DaemonInStep
  <1>6. UnreadIntact'
    BY DEF IInv, UnreadIntact
  <1>7. CallInStep'
    BY DEF IInv, CallInStep
  <1> QED BY <1>1, <1>2, <1>3, <1>4, <1>5, <1>6, <1>7 DEF IInv

(* The length the daemon reads is that of the oldest unread message. *)
LEMMA ReadPrefixInv == ASSUME IInv, ReadPrefix PROVE IInv'
  <1> USE DEF shared, worker
  <1> DEFINE i == Len(received) + 1
             o == Offset(log[i].at)
             len == Len(log[i].msg)
  <1>1. /\ i \in 1..Len(log) /\ Intact(data, log[i]) /\ MessageAt = log[i].at
        /\ len \in 0..Capacity
    BY NextMessage DEF ReadPrefix
  <1>2. rlen' = len
    <2>1. Holds(data, o, LenWord(len))
      BY <1>1 DEF Intact, Prefixed
    <2>2. \A k : Holds(data, o, LenWord(k)) => k = len
      BY <1>1, <2>1, PrefixIsUnambiguous
    <2>3. LengthAt(o) = len
      BY <1>1, <2>1, <2>2 DEF LengthAt
    <2> QED BY <1>1, <2>3 DEF ReadPrefix
  <1>3. TypeOK'
    BY <1>1, <1>2 DEF IInv, TypeOK, ReadPrefix
  <1>4. Fifo' /\ PositionsOrdered'
    BY <1>1, <1>2 DEF IInv, Fifo, PositionsOrdered, ReadPrefix, Garbled
  <1>5. Tiled'
    BY DEF IInv, Tiled, Start, End, ReadPrefix
  <1>6. DaemonInStep'
    <2>1. cursor' = Start(Len(received) + 1)' /\ \E j \in 1..(Len(log') + 1) : avail' = Start(j)'
      BY DEF IInv, DaemonInStep, Start, ReadPrefix
    <2>2. cursor' < avail' /\ rlen' = Len(log'[Len(received') + 1].msg)
      BY <1>2 DEF ReadPrefix
    <2> QED BY <2>1, <2>2 DEF DaemonInStep
  <1>7. UnreadIntact' /\ CallInStep'
    BY DEF IInv, UnreadIntact, CallInStep, ReadPrefix
  <1> QED BY <1>3, <1>4, <1>5, <1>6, <1>7 DEF IInv

(* The message the daemon copies out is the oldest it has not yet received. *)
LEMMA ReadPayloadGets ==
  ASSUME IInv, ReadPayload
  PROVE  LET i == Len(received) + 1 IN
         /\ i \in 1..Len(log)
         /\ received' = Append(received, log[i].msg)
         /\ cursor' = Start(i + 1) /\ cursor <= cursor' /\ cursor' <= avail
  <1> DEFINE i == Len(received) + 1
             m == log[i]
             copy == [k \in 1..rlen |-> data[Offset(MessageAt) + 3 + k]]
  <1>1. rlen # Idle
    BY DEF ReadPayload, Idle
  <1>2. cursor < avail /\ rlen = Len(m.msg)
    BY <1>1 DEF IInv, DaemonInStep
  <1>3. /\ i \in 1..Len(log) /\ m.from = cursor /\ Intact(data, m) /\ MessageAt = m.at
        /\ End(i) = Start(i + 1) /\ End(i) <= avail
    BY <1>2, NextMessage
  <1>4. m.msg \in Seq(Byte) /\ m.at \in Nat /\ Len(m.msg) \in Nat
    BY <1>3, LogTyped, NeededValue DEF IInv
  <1>5. copy = m.msg
    <2>1. \A k \in 1..Len(m.msg) : data[Offset(m.at) + 3 + k] = m.msg[k]
      BY <1>3 DEF Intact, Filled
    <2>2. m.msg = [k \in 1..Len(m.msg) |-> m.msg[k]]
      BY <1>4
    <2>3. copy = [k \in 1..Len(m.msg) |-> data[Offset(m.at) + 3 + k]]
      BY <1>2, <1>3
    <2> HIDE DEF copy
    <2> QED BY <2>1, <2>2, <2>3
  <1>6. received' = Append(received, m.msg)
    BY <1>5 DEF ReadPayload
  <1>7. cursor' = End(i)
    BY <1>2, <1>3 DEF ReadPayload, End
  <1>8. cursor <= End(i)
    <2>1. log[i].from <= log[i].at /\ cursor \in Nat
      BY <1>3 DEF IInv, TypeOK, Tiled
    <2> QED BY <1>3, <1>4, <2>1 DEF End
  <1> QED BY <1>3, <1>6, <1>7, <1>8

(* The copied message extends received as the log has it. *)
LEMMA ReadPayloadInv == ASSUME IInv, ReadPayload PROVE IInv'
  <1> USE DEF shared, worker
  <1>a. PICK i \in 1..Len(log) : i = Len(received) + 1
    BY ReadPayloadGets
  <1>0. /\ received \in Seq(Seq(CellValue)) /\ Len(received) \in Nat /\ Len(log) \in Nat
        /\ log[i].msg \in Payload
    BY LogTyped DEF IInv, TypeOK
  <1>1. /\ received' = Append(received, log[i].msg)
        /\ cursor' = Start(i + 1) /\ cursor <= cursor' /\ cursor' <= avail
    BY <1>a, ReadPayloadGets
  <1>2. /\ rlen' = Idle /\ UNCHANGED <<shared, worker, avail, log>>
    BY DEF ReadPayload
  <1>3. log[i].msg \in Seq(CellValue)
    <2>1. log[i].msg \in Seq(Byte)
      BY <1>0, NeededValue
    <2>2. Byte \subseteq CellValue
      BY DEF CellValue
    <2> QED BY <2>1, <2>2
  <1>4. Len(received') = i /\ received'[i] = log[i].msg
        /\ \A j \in 1..(i - 1) : received'[j] = received[j]
    BY <1>a, <1>0, <1>1, <1>3
  <1>5. \A j : Start(j)' = Start(j)
    BY <1>2 DEF Start
  <1>6. cursor' \in Nat
    <2>1. cursor \in Nat /\ avail \in Nat /\ write_pos \in Nat
      BY DEF IInv, TypeOK
    <2>2. Start(i + 1) \in Nat
      BY <1>0, <2>1, LogTyped DEF Start, IInv
    <2> QED BY <1>1, <2>2
  <1>7. TypeOK'
    <2>1. received' \in Seq(Seq(CellValue))
      BY <1>0, <1>1, <1>3
    <2> QED BY <1>2, <1>6, <2>1 DEF IInv, TypeOK
  <1>8. Fifo'
    <2>1. ASSUME NEW j \in 1..i PROVE received'[j] = log'[j].msg
      <3>1. CASE j = i
        BY <1>2, <1>4, <3>1
      <3>2. CASE j # i
        <4>1. j \in 1..(i - 1) /\ j \in 1..Len(received)
          BY <1>a, <1>0, <3>2
        <4> QED BY <1>2, <1>4, <4>1 DEF IInv, Fifo
      <3> QED BY <3>1, <3>2
    <2> QED BY <1>2, <1>4, <2>1 DEF Fifo, Idle, Garbled
  <1>9. PositionsOrdered'
    <2>1. read_pos \in Nat /\ cursor \in Nat
      BY DEF IInv, TypeOK
    <2>2. read_pos <= cursor'
      BY <1>1, <1>6, <2>1 DEF IInv, PositionsOrdered
    <2> QED BY <1>1, <1>2, <2>2 DEF IInv, PositionsOrdered
  <1>10. Tiled'
    BY <1>2 DEF IInv, Tiled, Start, End
  <1>11. DaemonInStep'
    <2>1. cursor' = Start(Len(received) + 1)'
      BY <1>1, <1>4, <1>5
    <2>2. \E j \in 1..(Len(log') + 1) : avail' = Start(j)'
      BY <1>2, <1>5 DEF IInv, DaemonInStep
    <2> QED BY <1>2, <2>1, <2>2 DEF DaemonInStep
  <1>12. UnreadIntact'
    BY <1>a, <1>0, <1>2, <1>4 DEF IInv, UnreadIntact
  <1>13. CallInStep'
    BY <1>2 DEF IInv, CallInStep
  <1> QED BY <1>7, <1>8, <1>9, <1>10, <1>11, <1>12, <1>13 DEF IInv

(* Releasing bytes only makes room. *)
LEMMA StoreReadPosInv == ASSUME IInv, StoreReadPos PROVE IInv'
  <1> USE DEF StoreReadPos, worker, daemon
  <1>1. TypeOK'
    BY DEF IInv, TypeOK
  <1>2. Fifo'
    BY DEF IInv, Fifo
  <1>3. PositionsOrdered'
    <2>1. visible_read_pos \in Nat /\ read_pos \in Nat /\ cursor \in Nat
      BY DEF IInv, TypeOK
    <2> QED BY <2>1 DEF IInv, PositionsOrdered
  <1>4. Tiled' /\ DaemonInStep'
    BY DEF IInv, Tiled, DaemonInStep, Start, End
  <1>5. UnreadIntact' /\ CallInStep'
    BY DEF IInv, UnreadIntact, CallInStep
  <1> QED BY <1>1, <1>2, <1>3, <1>4, <1>5 DEF IInv

(* The worker's view of read_pos catches up, and stays behind read_pos. *)
LEMMA ReadPosVisibleInv == ASSUME IInv, ReadPosVisible PROVE IInv'
  <1> USE DEF ReadPosVisible, shared, daemon
  <1>0. /\ visible_read_pos \in Nat /\ read_pos \in Nat /\ loaded_read_pos \in Nat
        /\ local_write_pos \in Nat /\ Capacity \in Nat
    BY RingAssumption DEF IInv, TypeOK
  <1>1. TypeOK'
    BY DEF IInv, TypeOK
  <1>2. Fifo'
    BY DEF IInv, Fifo
  <1>3. PositionsOrdered'
    BY <1>0 DEF IInv, PositionsOrdered
  <1>4. Tiled' /\ DaemonInStep'
    BY DEF IInv, Tiled, DaemonInStep, Start, End
  <1>5. UnreadIntact'
    BY DEF IInv, UnreadIntact
  <1>6. CallInStep'
    <2>1. loaded_read_pos' <= visible_read_pos'
      BY <1>0 DEF IInv, CallInStep, PositionsOrdered
    <2> QED BY <2>1 DEF IInv, CallInStep
  <1> QED BY <1>1, <1>2, <1>3, <1>4, <1>5, <1>6 DEF IInv

(* The invariant depends on vars alone. *)
LEMMA StutterInv == ASSUME IInv, UNCHANGED vars PROVE IInv'
  <1> USE DEF vars, shared, worker, daemon
  <1>1. TypeOK' /\ Fifo' /\ PositionsOrdered'
    BY DEF IInv, TypeOK, Fifo, PositionsOrdered
  <1>2. Tiled' /\ DaemonInStep'
    BY DEF IInv, Tiled, DaemonInStep, Start, End
  <1>3. UnreadIntact' /\ CallInStep'
    BY DEF IInv, UnreadIntact, CallInStep
  <1> QED BY <1>1, <1>2, <1>3 DEF IInv

(* The invariant is inductive. *)
LEMMA NextInv == IInv /\ [Next]_vars => IInv'
  <1> SUFFICES ASSUME IInv, [Next]_vars PROVE IInv'
    OBVIOUS
  <1>1. CASE \E p \in Payload : RefuseOversize(p) \/ LoadReadPos(p)
    BY <1>1, RefuseOversizeInv, LoadReadPosInv
  <1>2. CASE WorkerStep
    BY <1>2, DropInv, WritePaddingInv, WritePrefixInv, WritePayloadInv, PublishInv
       DEF WorkerStep
  <1>3. CASE Kill
    BY <1>3, KillInv
  <1>4. CASE DaemonStep
    BY <1>4, LoadWritePosInv, ReadPrefixInv, ReadPayloadInv, StoreReadPosInv DEF DaemonStep
  <1>5. CASE ReadPosVisible
    BY <1>5, ReadPosVisibleInv
  <1>6. CASE UNCHANGED vars
    BY <1>6, StutterInv
  <1> QED BY <1>1, <1>2, <1>3, <1>4, <1>5, <1>6 DEF Next

-----------------------------------------------------------------------------
(* The theorems. *)

(* The inductive invariant holds in every reachable state, for every capacity,
   payload set and number of writes. *)
THEOREM Invariant == Spec => []IInv
  BY InitInv, NextInv, PTL DEF Spec

(* Type correctness: also what the daemon copies lies inside the mapping. *)
THEOREM TypeCorrect == Spec => []TypeOK
  <1>1. IInv => TypeOK
    BY DEF IInv
  <1> QED BY <1>1, Invariant, PTL

(* The daemon receives the worker's messages once, whole and in order. *)
THEOREM FifoCorrect == Spec => []Fifo
  <1>1. IInv => Fifo
    BY DEF IInv
  <1> QED BY <1>1, Invariant, PTL

(* A stale read_pos never lets the worker run a ring ahead of the daemon. *)
THEOREM PositionsCorrect == Spec => []PositionsOrdered
  <1>1. IInv => PositionsOrdered
    BY DEF IInv
  <1> QED BY <1>1, Invariant, PTL

(* No step of the system changes a byte between read_pos and write_pos. *)
LEMMA StepKeepsUnread ==
  ASSUME IInv, [Next]_vars, NEW pos \in read_pos..(write_pos - 1)
  PROVE  data'[Offset(pos)] = data[Offset(pos)]
  <1>1. CASE UNCHANGED data
    BY <1>1
  <1>2. CASE WritePadding \/ WritePrefix \/ WritePayload
    <2>1. /\ visible_read_pos \in Nat /\ read_pos \in Nat /\ write_pos \in Nat
          /\ local_write_pos \in Nat
          /\ visible_read_pos <= read_pos /\ write_pos <= local_write_pos
      BY DEF IInv, TypeOK, PositionsOrdered
    <2>2. PICK to \in {local_write_pos, local_write_pos + 4} :
            Agree(data, data', visible_read_pos, to)
      BY <1>2, PaddingMisses, PrefixMisses, PayloadMisses
    <2>3. pos \in visible_read_pos..(to - 1)
      BY <2>1
    <2> QED BY <2>2, <2>3, AgreeAt
  <1>3. CASE Next /\ ~(WritePadding \/ WritePrefix \/ WritePayload)
    <2>1. UNCHANGED data
      BY <1>3 DEF Next, WorkerStep, DaemonStep, RefuseOversize, LoadReadPos, Drop, Publish,
                  Kill, LoadWritePos, ReadPrefix, ReadPayload, StoreReadPos, ReadPosVisible,
                  shared
    <2> QED BY <2>1
  <1> QED BY <1>1, <1>2, <1>3 DEF vars, shared

(* The worker never stores into bytes the daemon has not released. *)
THEOREM UnreadStable == Spec => UnreadBytesStable
  <1>1. IInv /\ [Next]_vars =>
          [\A pos \in read_pos..(write_pos - 1) : data'[Offset(pos)] = data[Offset(pos)]]_vars
    BY StepKeepsUnread
  <1> QED BY <1>1, Invariant, PTL DEF Spec, UnreadBytesStable

(* In a ring known to be empty only a message of more than half of it is
   dropped: the padding is then shorter than the message. *)
LEMMA DropNeedsALargeMessage ==
  ASSUME IInv, Drop
  PROVE  loaded_read_pos < local_write_pos \/ 2 * Needed(payload) > Capacity + 1
  <1> SUFFICES ASSUME ~(loaded_read_pos < local_write_pos),
                      ~(2 * Needed(payload) > Capacity + 1)
               PROVE FALSE
    OBVIOUS
  <1>1. /\ local_write_pos \in Nat /\ loaded_read_pos \in Nat /\ payload \in Payload
        /\ loaded_read_pos <= local_write_pos
    <2>1. /\ local_write_pos \in Nat /\ loaded_read_pos \in Nat /\ visible_read_pos \in Nat
          /\ read_pos \in Nat /\ cursor \in Nat /\ avail \in Nat /\ write_pos \in Nat
          /\ payload \in Payload /\ loaded_read_pos <= visible_read_pos
      BY DEF IInv, TypeOK, CallInStep, Drop
    <2>2. PositionsOrdered
      BY DEF IInv
    <2> QED BY <2>1, <2>2 DEF PositionsOrdered
  <1>2. /\ Needed(payload) = 4 + Len(payload) /\ Len(payload) \in Nat
        /\ Offset(local_write_pos) \in 0..(Capacity - 1) /\ Capacity \in Nat
    BY <1>1, NeededValue, OffsetFacts
  <1>3. Used = 0
    BY <1>1 DEF Used
  <1>4. 2 * Needed(payload) <= Capacity + 1 /\ Needed(payload) \in Nat /\ Needed(payload) >= 4
    BY <1>2
  <1>5. ~Full
    BY <1>2, <1>3, <1>4 DEF Full
  <1>6. Offset(local_write_pos) + Needed(payload) > Capacity /\ NoWrapRoom
    BY <1>5, Guards DEF Drop
  <1> QED BY <1>2, <1>3, <1>4, <1>6 DEF NoWrapRoom, PadBytes

(* Half a ring always fits into an empty one. *)
THEOREM SmallFits == Spec => SmallFitsInEmptyRing
  <1>1. IInv /\ [Next]_vars =>
          [Drop => \/ loaded_read_pos < local_write_pos
                   \/ 2 * Needed(payload) > Capacity + 1]_vars
    BY DropNeedsALargeMessage
  <1> QED BY <1>1, Invariant, PTL DEF Spec, SmallFitsInEmptyRing

-----------------------------------------------------------------------------
(* The ring implements the lossy channel of SpanChannel. *)

Sent == [i \in 1..Len(log) |-> log[i].msg]

(* A sequence is the function of its elements. *)
LEMMA SequenceIsFunction ==
  ASSUME NEW S, NEW s \in Seq(S), NEW n, Len(s) = n
  PROVE  s = [i \in 1..n |-> s[i]]
  OBVIOUS

(* A Publish appends exactly its payload to the messages sent. *)
LEMMA PublishSends ==
  ASSUME IInv, Publish
  PROVE  Sent' = Append(Sent, payload) /\ payload \in Payload
  <1>1. log \in Seq(Message) /\ payload \in Payload
    BY DEF IInv, TypeOK, CallInStep, Publish
  <1>2. PICK m : log' = Append(log, m) /\ m.msg = payload
    BY DEF Publish
  <1>3. Len(log') = Len(log) + 1 /\ \A i \in 1..Len(log) : log'[i] = log[i]
        /\ log'[Len(log) + 1] = m /\ Len(log) \in Nat
    BY <1>1, <1>2
  <1>4. Sent \in Seq(Payload) /\ Len(Sent) = Len(log)
    BY <1>1, LogTyped DEF Sent, IInv
  <1>5. Sent' = [i \in 1..(Len(log) + 1) |-> log'[i].msg]
    BY <1>3 DEF Sent
  <1>6. /\ Append(Sent, payload) \in Seq(Payload)
        /\ Len(Append(Sent, payload)) = Len(log) + 1
        /\ Append(Sent, payload)[Len(log) + 1] = payload
        /\ \A i \in 1..Len(log) : Append(Sent, payload)[i] = Sent[i]
    BY <1>1, <1>4
  <1>7. Append(Sent, payload) = [i \in 1..(Len(log) + 1) |-> Append(Sent, payload)[i]]
    BY <1>6, SequenceIsFunction
  <1>8. \A i \in 1..(Len(log) + 1) : log'[i].msg = Append(Sent, payload)[i]
    BY <1>2, <1>3, <1>6 DEF Sent
  <1> QED BY <1>1, <1>5, <1>7, <1>8

(* Every step of the ring is a step of the lossy channel or a stutter. *)
LEMMA StepIsChannelStep ==
  ASSUME IInv, [Next]_vars PROVE [Chan!Next]_(Chan!channel)
  <1> USE DEF Chan!channel
  <1>1. CASE UNCHANGED <<log, dropped, received>>
    BY <1>1
  <1>2. CASE \E p \in Payload : RefuseOversize(p)
    BY <1>2 DEF RefuseOversize, Chan!Next, Chan!Lose
  <1>3. CASE Drop
    BY <1>3 DEF Drop, Chan!Next, Chan!Lose
  <1>4. CASE Publish
    <2>1. Sent' = Append(Sent, payload) /\ payload \in Payload
      BY <1>4, PublishSends
    <2> QED BY <1>4, <2>1 DEF Publish, Sent, Chan!Next, Chan!Send
  <1>5. CASE ReadPayload
    <2> DEFINE i == Len(received) + 1
    <2>1. i \in 1..Len(log) /\ received' = Append(received, log[i].msg)
      BY <1>5, ReadPayloadGets
    <2>2. Len(received) < Len(Sent) /\ Sent[i] = log[i].msg
      BY <2>1, LogTyped DEF Sent, IInv
    <2> QED BY <1>5, <2>1, <2>2 DEF ReadPayload, Sent, shared, Chan!Next, Chan!Receive
  <1> QED BY <1>1, <1>2, <1>3, <1>4, <1>5
       DEF Next, WorkerStep, DaemonStep, LoadReadPos, WritePadding, WritePrefix, WritePayload,
           Kill, LoadWritePos, ReadPrefix, StoreReadPos, ReadPosVisible, vars, shared, daemon

(* Every behaviour of the ring is one of the lossy channel: no published    *)
(* span is lost, duplicated, reordered or altered on its way to the daemon, *)
(* and giving one up is counted.                                            *)
THEOREM RingImplementsChannel == Spec => ImplementsChannel
  <1>1. Init => Chan!Init
    BY DEF Init, Chan!Init
  <1>2. IInv /\ [Next]_vars => [Chan!Next]_(Chan!channel)
    BY StepIsChannelStep
  <1> QED BY <1>1, <1>2, Invariant, PTL DEF Spec, ImplementsChannel, Chan!Spec

=============================================================================
