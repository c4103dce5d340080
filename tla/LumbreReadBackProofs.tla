------------------------ MODULE LumbreReadBackProofs ------------------------
(***************************************************************************)
(* Proofs that a record reads back as the span it was packed from, for     *)
(* every base, boundary between two widths, set of strings and limit on    *)
(* the length of statements.                                               *)
(***************************************************************************)
EXTENDS LumbreSpanEncodeProofs

-----------------------------------------------------------------------------
(* Division. *)

LEMMA DivIs ==
  ASSUME NEW n \in Nat, NEW p \in Nat \ {0}
  PROVE  n \div p \in Nat /\ n % p \in 0..(p - 1) /\ n = p * (n \div p) + (n % p)
  OBVIOUS

LEMMA QuotientIsUnique ==
  ASSUME NEW p \in Nat \ {0}, NEW q \in Nat, NEW r \in 0..(p - 1),
         NEW s \in Nat, NEW t \in 0..(p - 1), p * q + r = p * s + t
  PROVE  q = s
  OBVIOUS

LEMMA DivSmall ==
  ASSUME NEW n \in Nat, NEW p \in Nat, n < p
  PROVE  n \div p = 0
  OBVIOUS

LEMMA ModSmall ==
  ASSUME NEW n \in Nat, NEW p \in Nat, n < p
  PROVE  n % p = n
  OBVIOUS

LEMMA DivOne ==
  ASSUME NEW n \in Nat
  PROVE  n \div 1 = n
  OBVIOUS

(* What is above the digit of weight p, and that digit. *)
LEMMA NextDigit ==
  ASSUME NEW n \in Nat, NEW b \in Nat \ {0}, NEW p \in Nat \ {0}
  PROVE  n \div p = (n \div (b * p)) * b + ((n \div p) % b)
  <1> DEFINE q == n \div p
             r == n % p
             s == q \div b
             t == q % b
             m == b * p
             w == p * t + r
             u == n \div m
             v == n % m
  <1>1. q \in Nat /\ r \in 0..(p - 1) /\ n = p * q + r
    BY DivIs
  <1> HIDE DEF q, r
  <1>2. s \in Nat /\ t \in 0..(b - 1) /\ q = b * s + t
    BY <1>1, DivIs
  <1> HIDE DEF s, t
  <1>3. m \in Nat \ {0}
    OBVIOUS
  <1>4. w \in 0..(m - 1)
    <2>1. p * t <= p * (b - 1)
      BY <1>2
    <2>2. p * (b - 1) = b * p - p /\ p * t \in Nat
      BY <1>2
    <2> QED BY <1>1, <2>1, <2>2
  <1>5. n = m * s + w
    <2>1. p * q = p * (b * s) + p * t
      BY <1>1, <1>2
    <2>2. p * (b * s) = (b * p) * s
      BY <1>2
    <2>3. p * (b * s) \in Nat /\ p * t \in Nat /\ p * q \in Nat /\ r \in Nat /\ (b * p) * s \in Nat
      BY <1>1, <1>2
    <2> QED BY <1>1, <2>1, <2>2, <2>3
  <1> HIDE DEF m, w
  <1>6. u \in Nat /\ v \in 0..(m - 1) /\ n = m * u + v
    BY <1>3, DivIs
  <1> HIDE DEF u, v
  <1>7. u = s
    <2>1. m * u + v = m * s + w
      BY <1>5, <1>6
    <2> QED BY <1>2, <1>3, <1>4, <1>6, <2>1, QuotientIsUnique
  <1>8. n \div (b * p) = s
    BY <1>7 DEF u, m
  <1>9. q = s * b + (q % b)
    BY <1>2 DEF t
  <1> QED BY <1>8, <1>9 DEF q

-----------------------------------------------------------------------------
(* Numbers. *)

(* A reader that finds the digits of a number finds the number. *)
LEMMA NumberIs ==
  ASSUME NEW b, NEW i \in Nat, NEW w \in 0..8, NEW n \in Nat, n < Place[w],
         \A k \in 1..w : DigitAt(b, i + k - 1) = (n \div Place[w - k]) % Base
  PROVE  NumberAt(b, i, w) = n
  <1> DEFINE IsSum(f) == f = [k \in 0..w |-> IF k = 0 THEN 0
                                             ELSE f[k - 1] * Base + DigitAt(b, i + k - 1)]
             g == [k \in 0..w |-> n \div Place[w - k]]
             h == CHOOSE f : IsSum(f)
  <1>1. IsSum(g)
    <2>1. ASSUME NEW k \in 0..w
          PROVE  g[k] = IF k = 0 THEN 0 ELSE g[k - 1] * Base + DigitAt(b, i + k - 1)
      <3>1. CASE k = 0
        <4>1. w - k = w /\ Place[w] \in Nat
          BY <3>1, PlaceIs
        <4> QED BY <3>1, <4>1, DivSmall
      <3>2. CASE k # 0
        <4>1. /\ k - 1 \in 0..w /\ k \in 1..w /\ w - k \in 0..8 /\ w - (k - 1) \in 1..8
              /\ w - (k - 1) - 1 = w - k
          BY <3>2
        <4>2. Place[w - (k - 1)] = Base * Place[w - k]
          BY <4>1, PlaceIs
        <4>3. Place[w - k] \in Nat \ {0} /\ Base \in Nat \ {0}
          BY <4>1, PlaceIs
        <4> DEFINE p == Place[w - k]
        <4> HIDE DEF p
        <4>4. n \div p = (n \div (Base * p)) * Base + ((n \div p) % Base)
          BY <4>3, NextDigit DEF p
        <4>5. g[k] = n \div p /\ g[k - 1] = n \div (Base * p)
          BY <4>1, <4>2 DEF p
        <4>6. DigitAt(b, i + k - 1) = (n \div p) % Base
          BY <4>1 DEF p
        <4> HIDE DEF g
        <4> QED BY <3>2, <4>4, <4>5, <4>6
      <3> QED BY <3>1, <3>2
    <2>2. g = [k \in 0..w |-> g[k]]
      OBVIOUS
    <2> HIDE DEF g
    <2> QED BY <2>1, <2>2
  <1>2. IsSum(h)
    <2> HIDE DEF IsSum, g
    <2> QED BY <1>1
  <1>3. NumberAt(b, i, w) = h[w]
    BY DEF NumberAt
  <1> HIDE DEF g, h
  <1>4. \A k \in 0..w : h[k] = g[k]
    <2> DEFINE Bad == {k \in 0..w : h[k] # g[k]}
    <2> SUFFICES ASSUME Bad # {}
                 PROVE  FALSE
      OBVIOUS
    <2>1. PICK k \in Bad : \A l \in Bad : k <= l
      <3>1. Bad \in SUBSET Nat
        OBVIOUS
      <3> HIDE DEF Bad
      <3> QED BY <3>1, LeastExists
    <2>2. /\ h[k] = IF k = 0 THEN 0 ELSE h[k - 1] * Base + DigitAt(b, i + k - 1)
          /\ g[k] = IF k = 0 THEN 0 ELSE g[k - 1] * Base + DigitAt(b, i + k - 1)
      BY <1>1, <1>2
    <2>3. k # 0
      BY <2>2
    <2>4. k - 1 \in 0..w /\ ~(k <= k - 1)
      BY <2>3
    <2>5. h[k - 1] = g[k - 1]
      BY <2>1, <2>4
    <2> QED BY <2>2, <2>3, <2>5
  <1>5. h[w] = n \div Place[w - w]
    BY <1>4 DEF g
  <1>6. w - w = 0
    OBVIOUS
  <1> QED BY <1>3, <1>5, <1>6, PlaceIs, DivOne
-----------------------------------------------------------------------------
(* Values. *)

(* The buffer b shows the bytes q behind the first p. *)
Shows(b, p, q) == \A o \in 1..Len(q) : p + o \in DOMAIN b /\ b[p + o] = q[o]

(* Of two sequences after each other both are shown. *)
LEMMA ShowsParts ==
  ASSUME NEW b, NEW p \in Nat, NEW q, NEW r, IsSequence(q), IsSequence(r), Shows(b, p, q \o r)
  PROVE  Shows(b, p, q) /\ Shows(b, p + Len(q), r)
  <1>1. /\ Len(q \o r) = Len(q) + Len(r)
        /\ \A o \in 1..Len(q \o r) : (q \o r)[o] = IF o <= Len(q) THEN q[o] ELSE r[o - Len(q)]
    BY Concat
  <1>2. Len(q) \in Nat /\ Len(r) \in Nat
    BY DEF IsSequence
  <1>3. ASSUME NEW o \in 1..Len(q)
        PROVE  p + o \in DOMAIN b /\ b[p + o] = q[o]
    <2>1. o \in 1..Len(q \o r) /\ o <= Len(q)
      BY <1>1, <1>2
    <2> QED BY <1>1, <2>1 DEF Shows
  <1>4. ASSUME NEW o \in 1..Len(r)
        PROVE  (p + Len(q)) + o \in DOMAIN b /\ b[(p + Len(q)) + o] = r[o]
    <2>1. /\ Len(q) + o \in 1..Len(q \o r) /\ ~(Len(q) + o <= Len(q)) /\ (Len(q) + o) - Len(q) = o
          /\ p + (Len(q) + o) = (p + Len(q)) + o
      BY <1>1, <1>2
    <2>2. p + (Len(q) + o) \in DOMAIN b /\ b[p + (Len(q) + o)] = (q \o r)[Len(q) + o]
      BY <2>1 DEF Shows
    <2>3. (q \o r)[Len(q) + o] = r[(Len(q) + o) - Len(q)]
      BY <1>1, <2>1
    <2> QED BY <2>1, <2>2, <2>3
  <1> QED BY <1>3, <1>4 DEF Shows

LEMMA OneByte ==
  ASSUME NEW tag
  PROVE  IsSequence(<<tag>>) /\ Len(<<tag>>) = 1 /\ <<tag>>[1] = tag
  <1>1. <<tag>> \in Seq({tag}) /\ Len(<<tag>>) = 1 /\ <<tag>>[1] = tag
    OBVIOUS
  <1> QED BY <1>1, ElementsOfSequence

LEMMA DigitsAre ==
  ASSUME NEW n, NEW w \in Nat
  PROVE  /\ IsSequence(BigEndian(n, w)) /\ Len(BigEndian(n, w)) = w
         /\ \A k \in 1..w : BigEndian(n, w)[k] = Digit((n \div Place[w - k]) % Base)
  <1> DEFINE b == BigEndian(n, w)
             S == {b[k] : k \in 1..w}
  <1>1. b \in [1..w -> S] /\ \A k \in 1..w : b[k] = Digit((n \div Place[w - k]) % Base)
    BY DEF BigEndian
  <1>2. b \in Seq(S)
    BY <1>1, SeqDef
  <1>3. DOMAIN b = 1..w /\ DOMAIN b = 1..Len(b) /\ Len(b) \in Nat
    BY <1>1, <1>2, LenProperties
  <1>4. IsSequence(b)
    BY <1>2, ElementsOfSequence
  <1> HIDE DEF b, S
  <1>5. Len(b) = w
    BY <1>3
  <1> QED BY <1>1, <1>4, <1>5 DEF b

(* A tag of one byte. *)
LEMMA TagShown ==
  ASSUME NEW b, NEW p \in Nat, NEW tag, Shows(b, p, <<tag>>)
  PROVE  ByteAt(b, p + 1) = tag
  <1>1. 1 \in 1..Len(<<tag>>) /\ <<tag>>[1] = tag
    BY OneByte
  <1>2. p + 1 \in DOMAIN b /\ b[p + 1] = tag
    BY <1>1 DEF Shows
  <1> QED BY <1>2 DEF ByteAt

(* A tag with a number in w bytes behind it. *)
LEMMA NumberShown ==
  ASSUME NEW b, NEW p \in Nat, NEW tag, NEW w \in 0..8, NEW n \in Nat, n < Place[w],
         Shows(b, p, <<tag>> \o BigEndian(n, w))
  PROVE  ByteAt(b, p + 1) = tag /\ NumberAt(b, p + 2, w) = n
  <1>1. w \in Nat
    OBVIOUS
  <1>2. IsSequence(<<tag>>) /\ Len(<<tag>>) = 1 /\ IsSequence(BigEndian(n, w))
    BY <1>1, OneByte, DigitsAre
  <1>3. Shows(b, p, <<tag>>) /\ Shows(b, p + 1, BigEndian(n, w))
    BY <1>2, ShowsParts
  <1>4. ASSUME NEW k \in 1..w
        PROVE  DigitAt(b, (p + 2) + k - 1) = (n \div Place[w - k]) % Base
    <2>1. /\ (p + 1) + k \in DOMAIN b /\ b[(p + 1) + k] = BigEndian(n, w)[k]
          /\ BigEndian(n, w)[k] = Digit((n \div Place[w - k]) % Base)
      BY <1>1, <1>3, DigitsAre DEF Shows
    <2>2. (p + 2) + k - 1 = (p + 1) + k
      OBVIOUS
    <2>3. /\ (p + 2) + k - 1 \in DOMAIN b
          /\ b[(p + 2) + k - 1] = <<"digit", (n \div Place[w - k]) % Base>>
      BY <2>1, <2>2 DEF Digit
    <2> QED BY <2>3 DEF DigitAt, ByteAt
  <1>5. p + 2 \in Nat
    OBVIOUS
  <1>6. NumberAt(b, p + 2, w) = n
    BY <1>4, <1>5, NumberIs
  <1> QED BY <1>3, <1>6, TagShown
(* What a reader takes from each tag. *)
LEMMA HeadIs ==
  ASSUME NEW b, NEW i, NEW a
  PROVE  /\ ByteAt(b, i) = <<"fixmap", a>> =>
              HeadAt(b, i) = [size |-> 1, kind |-> "map", n |-> a, body |-> 0]
         /\ ByteAt(b, i) = <<"map16", a>> =>
              HeadAt(b, i) = [size |-> 3, kind |-> "map", n |-> NumberAt(b, i + 1, 2), body |-> 0]
         /\ ByteAt(b, i) = <<"fixint", a>> =>
              HeadAt(b, i) = [size |-> 1, kind |-> "uint", n |-> a, body |-> 0]
         /\ ByteAt(b, i) = <<"uint", a>> =>
              HeadAt(b, i) = [size |-> 1 + a, kind |-> "uint", n |-> NumberAt(b, i + 1, a), body |-> 0]
         /\ ByteAt(b, i) = <<"fixstr", a>> =>
              HeadAt(b, i) = [size |-> 1, kind |-> "str", n |-> 0, body |-> a]
         /\ ByteAt(b, i) = <<"str16", a>> =>
              HeadAt(b, i) = [size |-> 3, kind |-> "str", n |-> 0, body |-> NumberAt(b, i + 1, 2)]
         /\ ByteAt(b, i) = <<"str32", a>> =>
              HeadAt(b, i) = [size |-> 5, kind |-> "str", n |-> 0, body |-> NumberAt(b, i + 1, 4)]
         /\ ByteAt(b, i) = <<"bin8", a>> =>
              HeadAt(b, i) = [size |-> 2, kind |-> "bin", n |-> 0, body |-> NumberAt(b, i + 1, 1)]
         /\ ByteAt(b, i) = <<"bin16", a>> =>
              HeadAt(b, i) = [size |-> 3, kind |-> "bin", n |-> 0, body |-> NumberAt(b, i + 1, 2)]
  BY DEF HeadAt

(* The weights of the widths in use. *)
LEMMA WidthsAre ==
  /\ Base \in Nat \ {0} /\ Place[0] = 1 /\ Place[1] = Base
  /\ Place[2] \in Nat /\ Place[4] \in Nat /\ Place[8] \in Nat /\ 10 < Place[2]
  <1>1. Place[2] \in Nat /\ Place[4] \in Nat /\ Place[8] \in Nat
    <2>1. 2 \in 0..8 /\ 4 \in 0..8 /\ 8 \in 0..8
      OBVIOUS
    <2> QED BY <2>1, PlaceIs
  <1>2. Base \in Nat \ {0} /\ Place[0] = 1 /\ Place[1] = Base
    <2>1. 1 \in 1..8 /\ 1 - 1 = 0
      OBVIOUS
    <2>2. Place[1] = Base * Place[1 - 1]
      BY <2>1, PlaceIs
    <2> QED BY <2>1, <2>2, PlaceIs
  <1> QED BY <1>1, <1>2, EncodeAssumption

(* A reader finds of each header what it was made from. *)
LEMMA HeaderShown ==
  ASSUME NEW b, NEW p \in Nat, NEW v, IsValue(v), Shows(b, p, Header(v))
  PROVE  HeadAt(b, p + 1) = [size |-> Len(Header(v)), kind |-> v.kind, n |-> v.n, body |-> Len(v.s)]
  <1> DEFINE i == p + 1
  <1>1. i = p + 1 /\ i + 1 = p + 2
    OBVIOUS
  <1> HIDE DEF i
  <1>2. ASSUME NEW tag, NEW w \in 0..8, NEW n \in Nat, n < Place[w],
               Header(v) = <<tag>> \o BigEndian(n, w)
        PROVE  ByteAt(b, i) = tag /\ NumberAt(b, i + 1, w) = n /\ Len(Header(v)) = 1 + w
    <2>1. Shows(b, p, <<tag>> \o BigEndian(n, w)) /\ w \in Nat
      BY <1>2
    <2>2. ByteAt(b, p + 1) = tag /\ NumberAt(b, p + 2, w) = n
      BY <1>2, <2>1, NumberShown
    <2>3. Len(Header(v)) = 1 + w
      BY <1>2, <2>1, BigEndianIs
    <2> QED BY <1>1, <2>2, <2>3
  <1>one. ASSUME NEW tag, NEW n \in Nat, n < Place[1], Header(v) = <<tag>> \o BigEndian(n, 1)
        PROVE  ByteAt(b, i) = tag /\ NumberAt(b, i + 1, 1) = n /\ Len(Header(v)) = 2
    <2>1. 1 \in 0..8 /\ 1 + 1 = 2
      OBVIOUS
    <2> QED BY <1>2, <1>one, <2>1
  <1>two. ASSUME NEW tag, NEW n \in Nat, n < Place[2], Header(v) = <<tag>> \o BigEndian(n, 2)
        PROVE  ByteAt(b, i) = tag /\ NumberAt(b, i + 1, 2) = n /\ Len(Header(v)) = 3
    <2>1. 2 \in 0..8 /\ 1 + 2 = 3
      OBVIOUS
    <2> QED BY <1>2, <1>two, <2>1
  <1>four. ASSUME NEW tag, NEW n \in Nat, n < Place[4], Header(v) = <<tag>> \o BigEndian(n, 4)
        PROVE  ByteAt(b, i) = tag /\ NumberAt(b, i + 1, 4) = n /\ Len(Header(v)) = 5
    <2>1. 4 \in 0..8 /\ 1 + 4 = 5
      OBVIOUS
    <2> QED BY <1>2, <1>four, <2>1
  <1>3. ASSUME NEW tag, Header(v) = <<tag>>
        PROVE  ByteAt(b, i) = tag /\ Len(Header(v)) = 1
    <2>1. Shows(b, p, <<tag>>)
      BY <1>3
    <2> QED BY <1>1, <1>3, <2>1, TagShown, OneByte
  <1>4. v.n \in Nat /\ IsSequence(v.s) /\ Len(v.s) \in Nat
    BY PlaceIs DEF IsValue, IsSequence
  <1>5. CASE v.kind = "map"
    <2>1. Header(v) = MapHeader(v.n) /\ Len(v.s) = 0 /\ v.n <= 10
      BY <1>5, EmptySeq DEF Header, IsValue
    <2>2. CASE v.n <= FixMap
      <3>1. Header(v) = << <<"fixmap", v.n>> >>
        BY <2>1, <2>2 DEF MapHeader
      <3>2. ByteAt(b, i) = <<"fixmap", v.n>> /\ Len(Header(v)) = 1
        BY <1>3, <3>1
      <3> QED BY <1>5, <2>1, <3>2, HeadIs DEF i
    <2>3. CASE ~(v.n <= FixMap)
      <3>1. Header(v) = << <<"map16", 0>> >> \o BigEndian(v.n, 2)
        BY <2>1, <2>3 DEF MapHeader
      <3>2. v.n < Place[2]
        BY <1>4, <2>1, WidthsAre
      <3>3. ByteAt(b, i) = <<"map16", 0>> /\ NumberAt(b, i + 1, 2) = v.n /\ Len(Header(v)) = 3
        BY <1>two, <1>4, <3>1, <3>2
      <3> QED BY <1>5, <2>1, <3>3, HeadIs DEF i
    <2> QED BY <2>2, <2>3
  <1>6. CASE v.kind = "uint"
    <2> DEFINE w == Width(v.n)
    <2>1. Header(v) = UintBytes(v.n) /\ Len(v.s) = 0
      BY <1>6, EmptySeq DEF Header, IsValue
    <2>2. w \in {0, 1, 2, 4, 8} /\ (w # 0 => v.n < Place[w])
      <3>1. v.n < Place[8]
        BY <1>4, WidthsAre DEF IsValue, Uint64
      <3>2. FixInt \in Nat
        BY WidthsAre, EncodeAssumption
      <3> QED BY <1>4, <3>1, <3>2, WidthsAre DEF Width
    <2>3. CASE w = 0
      <3>1. Header(v) = << <<"fixint", v.n>> >>
        BY <2>1, <2>3 DEF UintBytes
      <3>2. ByteAt(b, i) = <<"fixint", v.n>> /\ Len(Header(v)) = 1
        BY <1>3, <3>1
      <3> QED BY <1>6, <2>1, <3>2, HeadIs DEF i
    <2>4. CASE w # 0
      <3>1. Header(v) = << <<"uint", w>> >> \o BigEndian(v.n, w)
        BY <2>1, <2>4 DEF UintBytes
      <3>2. w \in 0..8 /\ v.n < Place[w]
        BY <2>2, <2>4
      <3> HIDE DEF w
      <3>3. ByteAt(b, i) = <<"uint", w>> /\ NumberAt(b, i + 1, w) = v.n /\ Len(Header(v)) = 1 + w
        BY <1>2, <1>4, <3>1, <3>2
      <3> QED BY <1>6, <2>1, <3>3, HeadIs DEF i
    <2> QED BY <2>3, <2>4
  <1>7. CASE v.kind = "str"
    <2> DEFINE n == Len(v.s)
    <2>1. Header(v) = StrHeader(n) /\ v.n = 0 /\ n < Place[4]
      <3>1. Header(v) = StrHeader(n) /\ v.n = 0 /\ 5 + n < U32
        BY <1>7 DEF Header, IsValue
      <3>2. U32 \in Nat
        BY PlaceIs
      <3>3. n < U32
        BY <1>4, <3>1, <3>2
      <3> QED BY <3>1, <3>3 DEF U32
    <2>2. n \in Nat /\ FixStr \in Nat /\ Place[2] \in Nat
      BY <1>4, WidthsAre, EncodeAssumption
    <2> HIDE DEF n
    <2>3. CASE n < FixStr
      <3>1. Header(v) = << <<"fixstr", n>> >>
        BY <2>1, <2>3 DEF StrHeader
      <3>2. ByteAt(b, i) = <<"fixstr", n>> /\ Len(Header(v)) = 1
        BY <1>3, <3>1
      <3> QED BY <1>7, <2>1, <3>2, HeadIs DEF i, n
    <2>4. CASE ~(n < FixStr) /\ n < Place[2]
      <3>1. Header(v) = << <<"str16", 0>> >> \o BigEndian(n, 2)
        BY <2>1, <2>4 DEF StrHeader
      <3>2. ByteAt(b, i) = <<"str16", 0>> /\ NumberAt(b, i + 1, 2) = n /\ Len(Header(v)) = 3
        BY <1>two, <2>2, <2>4, <3>1
      <3> QED BY <1>7, <2>1, <3>2, HeadIs DEF i, n
    <2>5. CASE ~(n < FixStr) /\ ~(n < Place[2])
      <3>1. Header(v) = << <<"str32", 0>> >> \o BigEndian(n, 4)
        BY <2>1, <2>5 DEF StrHeader
      <3>2. ByteAt(b, i) = <<"str32", 0>> /\ NumberAt(b, i + 1, 4) = n /\ Len(Header(v)) = 5
        BY <1>four, <2>1, <2>2, <3>1
      <3> QED BY <1>7, <2>1, <3>2, HeadIs DEF i, n
    <2> QED BY <2>3, <2>4, <2>5
  <1>8. CASE v.kind = "bin"
    <2> DEFINE n == Len(v.s)
    <2>1. Header(v) = BinHeader(n) /\ v.n = 0 /\ n < Place[2] /\ n \in Nat
      BY <1>4, <1>8 DEF Header, IsValue
    <2> HIDE DEF n
    <2>2. CASE n < Base
      <3>1. Header(v) = << <<"bin8", 0>> >> \o BigEndian(n, 1)
        <4>1. Header(v) = << <<"bin8", 0>>, Digit(n) >>
          BY <2>1, <2>2 DEF BinHeader
        <4>2. Digit((n \div Place[1 - 1]) % Base) = Digit(n)
          <5>1. Place[1 - 1] = 1
            BY WidthsAre
          <5>2. n \div 1 = n /\ n % Base = n
            BY <2>1, <2>2, DivOne, ModSmall, WidthsAre
          <5> QED BY <5>1, <5>2
        <4>3. BigEndian(n, 1) = <<Digit(n)>>
          <5>1. /\ IsSequence(BigEndian(n, 1)) /\ Len(BigEndian(n, 1)) = 1
                /\ BigEndian(n, 1)[1] = Digit(n)
            <6>1. 1 \in Nat /\ 1 \in 1..1
              OBVIOUS
            <6> QED BY <4>2, <6>1, DigitsAre
          <5>2. BigEndian(n, 1) = [k \in 1..1 |-> BigEndian(n, 1)[k]]
            BY <5>1 DEF IsSequence
          <5>3. <<Digit(n)>> = [k \in 1..1 |-> <<Digit(n)>>[k]] /\ <<Digit(n)>>[1] = Digit(n)
            BY OneByte DEF IsSequence
          <5>4. \A k \in 1..1 : BigEndian(n, 1)[k] = <<Digit(n)>>[k]
            BY <5>1, <5>3
          <5> QED BY <5>2, <5>3, <5>4
        <4>4. << <<"bin8", 0>>, Digit(n) >> = << <<"bin8", 0>> >> \o <<Digit(n)>>
          OBVIOUS
        <4>5. << <<"bin8", 0>> >> \o BigEndian(n, 1) = << <<"bin8", 0>> >> \o <<Digit(n)>>
          BY <4>3
        <4> QED BY <4>1, <4>4, <4>5
      <3>2. n < Place[1]
        BY <2>2, WidthsAre
      <3>3. ByteAt(b, i) = <<"bin8", 0>> /\ NumberAt(b, i + 1, 1) = n /\ Len(Header(v)) = 2
        BY <1>one, <2>1, <3>1, <3>2
      <3> QED BY <1>8, <2>1, <3>3, HeadIs DEF i, n
    <2>3. CASE ~(n < Base)
      <3>1. Header(v) = << <<"bin16", 0>> >> \o BigEndian(n, 2)
        BY <2>1, <2>3 DEF BinHeader
      <3>2. ByteAt(b, i) = <<"bin16", 0>> /\ NumberAt(b, i + 1, 2) = n /\ Len(Header(v)) = 3
        BY <1>two, <2>1, <3>1
      <3> QED BY <1>8, <2>1, <3>2, HeadIs DEF i, n
    <2> QED BY <2>2, <2>3
  <1> QED BY <1>5, <1>6, <1>7, <1>8 DEF IsValue

(* A packed value reads back, and the reader knows where it ends. *)
LEMMA ValueShown ==
  ASSUME NEW b, NEW p \in Nat, NEW v, IsValue(v), Shows(b, p, Packed(v))
  PROVE  /\ ValueAt(b, p + 1) = v
         /\ HeadAt(b, p + 1).kind = v.kind /\ HeadAt(b, p + 1).n = v.n
         /\ HeadAt(b, p + 1).size + HeadAt(b, p + 1).body = Len(Packed(v))
  <1> DEFINE h == HeadAt(b, p + 1)
             m == Len(Header(v))
  <1>1. IsSequence(Header(v)) /\ IsSequence(v.s) /\ m \in Nat /\ Len(v.s) \in Nat
    BY HeaderIs DEF IsValue, IsSequence
  <1>2. Shows(b, p, Header(v)) /\ Shows(b, p + m, v.s)
    BY <1>1, ShowsParts DEF Packed
  <1>3. h = [size |-> m, kind |-> v.kind, n |-> v.n, body |-> Len(v.s)]
    BY <1>2, HeaderShown
  <1>4. Len(Packed(v)) = m + Len(v.s)
    BY <1>1, Concat DEF Packed
  <1>5. ASSUME NEW k \in 1..Len(v.s)
        PROVE  ByteAt(b, (p + 1) + m + k - 1) = v.s[k]
    <2>1. (p + m) + k \in DOMAIN b /\ b[(p + m) + k] = v.s[k]
      BY <1>2 DEF Shows
    <2>2. (p + 1) + m + k - 1 = (p + m) + k
      BY <1>1
    <2> HIDE DEF m
    <2> QED BY <2>1, <2>2 DEF ByteAt
  <1> DEFINE s == [k \in 1..h.body |-> ByteAt(b, (p + 1) + h.size + k - 1)]
  <1>6. ValueAt(b, p + 1) = [kind |-> h.kind, n |-> h.n, s |-> s]
    BY DEF ValueAt
  <1> HIDE DEF h, m
  <1>7. s = v.s
    <2>1. h.body = Len(v.s) /\ h.size = m
      BY <1>3
    <2>2. s = [k \in 1..Len(v.s) |-> s[k]] /\ \A k \in 1..Len(v.s) : s[k] = v.s[k]
      BY <1>5, <2>1
    <2>3. v.s = [k \in 1..Len(v.s) |-> v.s[k]]
      BY <1>1 DEF IsSequence
    <2> HIDE DEF s
    <2> QED BY <2>2, <2>3
  <1> HIDE DEF s
  <1>8. ValueAt(b, p + 1) = v
    BY <1>3, <1>6, <1>7 DEF IsValue
  <1> QED BY <1>3, <1>4, <1>8 DEF h
-----------------------------------------------------------------------------
(***************************************************************************)
(* The inductive invariant ReadInv.  EncodeInv says how long the buffer    *)
(* is; this says what is in it, and which statement the span holds.        *)
(***************************************************************************)

(* The buffer shows the packed values one after the other. *)
BytesShown ==
  LET vs == Values(span)
      k  == Len(vs) - Len(todo)
  IN \A j \in 1..k : Shows(buf, Sizes(vs)[j - 1], Packed(vs[j]))

(* The statement was cut where a record may show it, and is not cut again. *)
StatementIsShown ==
  span.type = "DB" => span.query = ShownSql /\ Len(span.query) <= max_query_len

ReadInv ==
  /\ EncodeInv
  /\ phase # "idle" => StatementIsShown
  /\ phase \in {"encode", "written"} => BufferHolds /\ BytesShown
  /\ phase = "written" => todo = << >>

LEMMA ReadInit == Init => ReadInv
  BY InitHolds DEF Init, ReadInv

LEMMA LimitIs == EncodeInv => max_query_len \in Nat
  <1>1. U32 \in Nat
    BY PlaceIs
  <1> QED BY <1>1 DEF EncodeInv, TypeOK

(* A span whose draft holds the statement as a record may show it. *)
LEMMA StartShows ==
  ASSUME ReadInv, EncodeInv', NEW s \in Drafts, NEW statement, Start(s, statement),
         s.type = "DB" =>
           /\ s.query = IF Len(statement) <= max_query_len THEN statement
                        ELSE Prefix(statement, max_query_len)
           /\ Len(s.query) <= max_query_len
  PROVE  ReadInv'
  <1>1. PICK stamp \in Stamps :
          span' = [s EXCEPT !.trace_id = stamp.trace_id, !.span_id = stamp.span_id,
                            !.parent_id = stamp.parent_id, !.start_ns = stamp.start_ns]
    BY DEF Start
  <1>2. span'.type = s.type /\ span'.query = s.query
    BY <1>1 DEF Drafts, SpansWith
  <1>3. sql' = statement /\ max_query_len' = max_query_len /\ phase' = "call"
    BY DEF Start
  <1>4. StatementIsShown'
    BY <1>2, <1>3 DEF StatementIsShown, ShownSql
  <1> QED BY <1>3, <1>4 DEF ReadInv

(* The hooks: only lumbre_span_set_db fills in a statement. *)
LEMMA HooksShow ==
  ASSUME ReadInv, EncodeInv'
  PROVE  /\ \A s, t \in Text :
              /\ StartHttpIn(s, t) => ReadInv'
              /\ StartDb(s, t) => ReadInv'
              /\ \A type \in {"REDIS", "MEMCACHED"} : StartCache(type, s, t) => ReadInv'
              /\ \A u \in Text, line \in Number : StartFunc(s, t, u, line) => ReadInv'
         /\ \A s \in Text : StartFile(s) => ReadInv'
         /\ \A type \in {"HTTP_OUT", "SOCKET", "DB", "FILE_IO"} : StartBare(type) => ReadInv'
  <1>1. max_query_len \in Nat
    BY LimitIs DEF ReadInv
  <1>2. \A type \in Types : [ZeroSpan EXCEPT !.type = type] \in Drafts
    BY ZeroIsDraft DEF Drafts, SpansWith
  <1>3. ASSUME NEW s \in Text, NEW t \in Text
        PROVE  /\ StartHttpIn(s, t) => ReadInv'
               /\ StartDb(s, t) => ReadInv'
               /\ \A type \in {"REDIS", "MEMCACHED"} : StartCache(type, s, t) => ReadInv'
               /\ \A u \in Text, line \in Number : StartFunc(s, t, u, line) => ReadInv'
    <2>1. s \in Strings /\ t \in Strings /\ IsSequence(s) /\ Len(s) \in Nat
      BY PrefixIsString, EncodeAssumption DEF IsSequence
    <2>2. ASSUME StartHttpIn(s, t)
          PROVE  ReadInv'
      <3> DEFINE d == [ZeroSpan EXCEPT !.type = "HTTP_IN", !.request_uri = s, !.method = t]
      <3>1. d \in Drafts /\ d.type = "HTTP_IN"
        BY <2>1, ZeroIsDraft DEF Drafts, SpansWith, Types
      <3>2. Start(d, << >>)
        BY <2>2 DEF StartHttpIn
      <3> HIDE DEF d
      <3> QED BY <3>1, <3>2, StartShows
    <2>3. ASSUME StartDb(s, t)
          PROVE  ReadInv'
      <3> DEFINE q == IF Len(s) > max_query_len THEN Prefix(s, max_query_len) ELSE s
                 d == SetDb([ZeroSpan EXCEPT !.type = "DB"], s, t)
      <3>1. q \in Strings
        <4>1. Len(s) > max_query_len => max_query_len <= Len(s)
          BY <1>1, <2>1
        <4> QED BY <1>1, <2>1, <4>1, PrefixIsString
      <3>2. [ZeroSpan EXCEPT !.type = "DB"] \in Drafts
        BY <1>2 DEF Types
      <3>3. 0 \in Uint64
        BY PlaceIs
      <3>4. d = [[ZeroSpan EXCEPT !.type = "DB"] EXCEPT !.query = q, !.db_type = t, !.rows_affected = 0]
        BY DEF SetDb
      <3> HIDE DEF q, d
      <3>5. d \in Drafts /\ d.query = q
        BY <2>1, <3>1, <3>2, <3>3, <3>4 DEF Drafts, SpansWith
      <3>6. q = IF Len(s) <= max_query_len THEN s ELSE Prefix(s, max_query_len)
        BY <1>1, <2>1 DEF q
      <3>7. Start(d, s)
        BY <2>3 DEF StartDb, d
      <3>8. Len(q) <= max_query_len
        <4>1. CASE Len(s) > max_query_len
          <5>1. max_query_len \in 0..Len(s)
            BY <1>1, <2>1, <4>1
          <5>2. q = Prefix(s, max_query_len) /\ Len(Prefix(s, max_query_len)) = max_query_len
            BY <2>1, <4>1, <5>1, PrefixIs DEF q
          <5> QED BY <1>1, <5>2
        <4>2. CASE ~(Len(s) > max_query_len)
          BY <1>1, <2>1, <4>2 DEF q
        <4> QED BY <4>1, <4>2
      <3> QED BY <3>5, <3>6, <3>7, <3>8, StartShows
    <2>4. ASSUME NEW type \in {"REDIS", "MEMCACHED"}, StartCache(type, s, t)
          PROVE  ReadInv'
      <3> DEFINE d == [ZeroSpan EXCEPT !.type = type, !.cache_cmd = s, !.cache_key = t]
      <3>1. d \in Drafts /\ d.type = type
        BY <2>1, ZeroIsDraft DEF Drafts, SpansWith, Types
      <3>2. Start(d, << >>)
        BY <2>4 DEF StartCache
      <3> HIDE DEF d
      <3> QED BY <3>1, <3>2, StartShows
    <2>5. ASSUME NEW u \in Text, NEW line \in Number, StartFunc(s, t, u, line)
          PROVE  ReadInv'
      <3> DEFINE d == [ZeroSpan EXCEPT !.type = "FUNC", !.func_class = s, !.func_name = t,
                                       !.func_file = u, !.func_line = line]
      <3>1. u \in Strings /\ line \in Uint64
        BY PrefixIsString, EncodeAssumption
      <3>2. d \in Drafts /\ d.type = "FUNC"
        BY <2>1, <3>1, ZeroIsDraft DEF Drafts, SpansWith, Types
      <3>3. Start(d, << >>)
        BY <2>5 DEF StartFunc
      <3> HIDE DEF d
      <3> QED BY <3>2, <3>3, StartShows
    <2> QED BY <2>2, <2>3, <2>4, <2>5
  <1>4. ASSUME NEW s \in Text, StartFile(s)
        PROVE  ReadInv'
    <2> DEFINE d == [ZeroSpan EXCEPT !.type = "FILE_IO", !.url = s]
    <2>1. d \in Drafts /\ d.type = "FILE_IO"
      BY PrefixIsString, ZeroIsDraft DEF Drafts, SpansWith, Types
    <2>2. Start(d, << >>)
      BY <1>4 DEF StartFile
    <2> HIDE DEF d
    <2> QED BY <2>1, <2>2, StartShows
  <1>5. ASSUME NEW type \in {"HTTP_OUT", "SOCKET", "DB", "FILE_IO"}, StartBare(type)
        PROVE  ReadInv'
    <2> DEFINE d == [ZeroSpan EXCEPT !.type = type]
    <2>1. d \in Drafts /\ d.query = << >>
      BY <1>2 DEF Types, ZeroSpan
    <2>2. Start(d, << >>)
      BY <1>5 DEF StartBare
    <2>3. Len(<< >>) <= max_query_len
      BY <1>1, EmptySeq
    <2> HIDE DEF d
    <2> QED BY <2>1, <2>2, <2>3, StartShows
  <1> QED BY <1>3, <1>4, <1>5

(* The second cut of the statement, in lumbre_span_finish, takes nothing away. *)
LEMMA FinishShows ==
  ASSUME ReadInv, EncodeInv', NEW duration \in Number, Finish(duration)
  PROVE  ReadInv'
  <1> DEFINE ended == [span EXCEPT !.duration_ns = duration]
  <1>1. span \in Spans /\ StatementIsShown
    BY DEF ReadInv, EncodeInv, Finish
  <1>2. ended.type = span.type /\ ended.query = span.query
    BY <1>1 DEF Spans, SpansWith
  <1>3. span' = Truncated(ended)
    BY DEF Finish
  <1> HIDE DEF ended
  <1>4. span'.type = span.type /\ (span.type = "DB" => span'.query = span.query)
    <2>1. CASE span.type = "DB"
      <3>1. span.query \in Strings /\ Len(span.query) <= max_query_len
        BY <1>1, <2>1 DEF Spans, SpansWith, StatementIsShown
      <3>2. Len(span.query) \in Nat /\ max_query_len \in Nat
        BY <3>1, StringIs, LimitIs DEF ReadInv, IsSequence
      <3>3. ~(Len(span.query) > max_query_len)
        BY <3>1, <3>2
      <3>4. span' = ended
        BY <1>2, <1>3, <3>3 DEF Truncated
      <3> QED BY <1>2, <3>4
    <2>2. CASE span.type # "DB"
      BY <1>2, <1>3, <2>2 DEF Truncated
    <2> QED BY <2>1, <2>2
  <1>5. /\ buf' = << >> /\ phase' = "encode" /\ todo' = Values(span')
        /\ UNCHANGED <<max_query_len, sql>>
    BY DEF Finish
  <1>6. StatementIsShown'
    BY <1>1, <1>4, <1>5 DEF StatementIsShown, ShownSql
  <1>7. BufferHolds'
    BY <1>5 DEF EncodeInv
  <1>8. BytesShown'
    <2>1. AreValues(Values(span'))
      BY <1>5, ValuesOfSpan DEF EncodeInv
    <2>2. Len(Values(span')) \in Nat /\ Len(Values(span')) - Len(todo') = 0
      BY <1>5, <2>1 DEF AreValues, IsSequence
    <2> QED BY <2>2 DEF BytesShown
  <1> QED BY <1>5, <1>6, <1>7, <1>8 DEF ReadInv

(* Packing a value shows it behind those that were shown before. *)
LEMMA PackShows ==
  ASSUME ReadInv, EncodeInv', Pack
  PROVE  ReadInv'
  <1> DEFINE vs == Values(span)
             k  == Len(vs) - Len(todo)
             v  == Head(todo)
  <1>1. /\ AreValues(vs) /\ k + 1 \in 1..Len(vs) /\ v = vs[k + 1]
        /\ Len(buf) = Sizes(vs)[k]
        /\ Len(Tail(todo)) = Len(vs) - (k + 1) /\ k \in Nat
    BY NextValue DEF Pack, ReadInv
  <1>2. /\ buf' = buf \o Packed(v) /\ todo' = Tail(todo) /\ phase = "encode" /\ phase' = "encode"
        /\ span' = span /\ UNCHANGED <<max_query_len, sql>>
    BY DEF Pack
  <1>3. \A j \in 1..k : Shows(buf, Sizes(vs)[j - 1], Packed(vs[j]))
    BY <1>2 DEF ReadInv, BytesShown
  <1> HIDE DEF vs, k, v
  <1>4. IsSequence(Packed(v)) /\ IsSequence(buf) /\ Len(Packed(v)) \in Nat /\ Len(buf) \in Nat
    <2>1. IsValue(v)
      BY <1>1 DEF AreValues
    <2> QED BY <2>1, PackedIs DEF ReadInv, EncodeInv, IsSequence
  <1>5. /\ IsSequence(buf') /\ Len(buf') = Len(buf) + Len(Packed(v))
        /\ \A i \in 1..Len(buf') : buf'[i] = IF i <= Len(buf) THEN buf[i] ELSE Packed(v)[i - Len(buf)]
    BY <1>2, <1>4, Concat
  <1>6. DOMAIN buf = 1..Len(buf) /\ DOMAIN buf' = 1..Len(buf')
    BY <1>4, <1>5 DEF IsSequence
  <1>7. ASSUME NEW j \in 1..(k + 1)
        PROVE  Shows(buf', Sizes(vs)[j - 1], Packed(vs[j]))
    <2>1. CASE j \in 1..k
      <3>1. ASSUME NEW o \in 1..Len(Packed(vs[j]))
            PROVE  /\ Sizes(vs)[j - 1] + o \in DOMAIN buf'
                   /\ buf'[Sizes(vs)[j - 1] + o] = Packed(vs[j])[o]
        <4> DEFINE i == Sizes(vs)[j - 1] + o
        <4>1. i \in DOMAIN buf /\ buf[i] = Packed(vs[j])[o]
          BY <1>3, <2>1 DEF Shows
        <4> HIDE DEF i
        <4>2. i \in 1..Len(buf') /\ i <= Len(buf)
          BY <1>4, <1>5, <1>6, <4>1
        <4>3. buf'[i] = buf[i]
          BY <1>5, <4>2
        <4> QED BY <1>6, <4>1, <4>2, <4>3 DEF i
      <3> QED BY <3>1 DEF Shows
    <2>2. CASE j = k + 1
      <3>1. j - 1 = k /\ vs[j] = v /\ Sizes(vs)[j - 1] = Len(buf)
        BY <1>1, <2>2
      <3>2. ASSUME NEW o \in 1..Len(Packed(v))
            PROVE  Len(buf) + o \in DOMAIN buf' /\ buf'[Len(buf) + o] = Packed(v)[o]
        <4>1. /\ Len(buf) + o \in 1..Len(buf') /\ ~(Len(buf) + o <= Len(buf))
              /\ (Len(buf) + o) - Len(buf) = o
          BY <1>4, <1>5
        <4> QED BY <1>5, <1>6, <4>1
      <3> QED BY <3>1, <3>2 DEF Shows
    <2> QED BY <1>1, <2>1, <2>2
  <1>8. BytesShown'
    <2>1. Len(vs) \in Nat
      BY <1>1 DEF AreValues, IsSequence
    <2>2. Values(span') = vs /\ Len(vs) - Len(todo') = k + 1
      <3>1. Len(todo') = Len(vs) - (k + 1)
        BY <1>1, <1>2
      <3>2. Values(span') = vs
        BY <1>2 DEF vs
      <3> QED BY <1>1, <2>1, <3>1, <3>2
    <2> QED BY <1>7, <2>2 DEF BytesShown
  <1>9. BufferHolds'
    BY <1>2 DEF EncodeInv
  <1>10. StatementIsShown'
    BY <1>2 DEF ReadInv, StatementIsShown, ShownSql
  <1> QED BY <1>2, <1>8, <1>9, <1>10 DEF ReadInv

LEMMA ReadStep == ReadInv /\ [Next]_vars => ReadInv'
  <1> SUFFICES ASSUME ReadInv, [Next]_vars
               PROVE  ReadInv'
    OBVIOUS
  <1>0. EncodeInv'
    BY EncodeStep DEF ReadInv
  <1>1. ASSUME UNCHANGED <<max_query_len, span, buf, todo, sql>>
        PROVE  /\ BufferHolds' = BufferHolds /\ BytesShown' = BytesShown
               /\ StatementIsShown' = StatementIsShown
    BY <1>1 DEF BufferHolds, BytesShown, StatementIsShown, ShownSql
  <1>2. CASE UNCHANGED vars
    BY <1>0, <1>1, <1>2 DEF ReadInv, vars
  <1>3. CASE \E s, t \in Text :
               \/ StartHttpIn(s, t) \/ StartDb(s, t)
               \/ \E type \in {"REDIS", "MEMCACHED"} : StartCache(type, s, t)
               \/ \E u \in Text, line \in Number : StartFunc(s, t, u, line)
    BY <1>0, <1>3, HooksShow
  <1>4. CASE \E s \in Text : StartFile(s)
    BY <1>0, <1>4, HooksShow
  <1>5. CASE \E type \in {"HTTP_OUT", "SOCKET", "DB", "FILE_IO"} : StartBare(type)
    BY <1>0, <1>5, HooksShow
  <1>6. CASE \E duration \in Number : Finish(duration)
    BY <1>0, <1>6, FinishShows
  <1>7. CASE Pack
    BY <1>0, <1>7, PackShows
  <1>8. CASE Overflow
    <2>1. /\ phase = "encode" /\ phase' = "failed" /\ span' = span
          /\ UNCHANGED <<max_query_len, sql>>
      BY <1>8 DEF Overflow
    <2>2. StatementIsShown'
      BY <2>1 DEF ReadInv, StatementIsShown, ShownSql
    <2> QED BY <1>0, <2>1, <2>2 DEF ReadInv
  <1>9. CASE Write
    <2>1. /\ phase = "encode" /\ todo = << >> /\ phase' = "written"
          /\ UNCHANGED <<max_query_len, span, buf, todo, sql>>
      BY <1>9 DEF Write
    <2>2. todo' = << >>
      BY <2>1
    <2> QED BY <1>0, <1>1, <2>1, <2>2 DEF ReadInv
  <1> QED BY <1>2, <1>3, <1>4, <1>5, <1>6, <1>7, <1>8, <1>9 DEF Next

(* What the buffer shows is always the values packed so far of the span the  *)
(* worker finishes, each whole, and that span holds the statement as a       *)
(* record may show it (lumbre_span.c:109-231).                               *)
THEOREM ReadInvariant == Spec => []ReadInv
  <1> QED BY ReadInit, ReadStep, PTL DEF Spec
-----------------------------------------------------------------------------
(* Records. *)

(* A reader that goes from value to value comes to the start of each, and at *)
(* the end to the end of the last.                                           *)
LEMMA StartsAre ==
  ASSUME NEW b, NEW vs, AreValues(vs),
         \A j \in 1..Len(vs) : Shows(b, Sizes(vs)[j - 1], Packed(vs[j]))
  PROVE  \A k \in 0..Len(vs) : StartOf(b, Len(vs))[k] = Sizes(vs)[k] + 1
  <1> DEFINE n == Len(vs)
             IsStart(f) == f = [k \in 0..n |-> IF k = 0 THEN 1
                                               ELSE f[k - 1] + HeadAt(b, f[k - 1]).size
                                                             + HeadAt(b, f[k - 1]).body]
             g == [k \in 0..n |-> Sizes(vs)[k] + 1]
             h == CHOOSE f : IsStart(f)
  <1>1. n \in Nat
    BY DEF AreValues, IsSequence
  <1>2. StartOf(b, n) = h
    BY DEF StartOf
  <1> HIDE DEF n
  <1>3. IsStart(g)
    <2>1. ASSUME NEW k \in 0..n
          PROVE  g[k] = IF k = 0 THEN 1
                        ELSE g[k - 1] + HeadAt(b, g[k - 1]).size + HeadAt(b, g[k - 1]).body
      <3>1. CASE k = 0
        BY <1>1, <3>1, SizesAre
      <3>2. CASE k # 0
        <4>1. k \in 1..n /\ k - 1 \in 0..n
          BY <1>1, <3>2
        <4> DEFINE p == Sizes(vs)[k - 1]
                   v == vs[k]
                   a == HeadAt(b, p + 1)
        <4>2. p \in Nat /\ Sizes(vs)[k] = p + Len(Packed(v))
          BY <4>1, SizesAre DEF n
        <4>3. IsValue(v) /\ Shows(b, p, Packed(v))
          BY <4>1 DEF n, AreValues
        <4>4. g[k - 1] = p + 1 /\ g[k] = Sizes(vs)[k] + 1
          BY <4>1
        <4> HIDE DEF p, v, g
        <4>5. a.size + a.body = Len(Packed(v)) /\ a = HeadAt(b, g[k - 1])
          BY <4>2, <4>3, <4>4, ValueShown
        <4>6. a.size \in Nat /\ a.body \in Nat
          <5>1. IsSequence(Header(v)) /\ IsSequence(v.s) /\ Shows(b, p, Header(v))
            <6>1. IsSequence(Header(v)) /\ IsSequence(v.s)
              BY <4>3, HeaderIs DEF IsValue
            <6> QED BY <4>2, <4>3, <6>1, ShowsParts DEF Packed
          <5>2. a = [size |-> Len(Header(v)), kind |-> v.kind, n |-> v.n, body |-> Len(v.s)]
            BY <4>2, <4>3, <5>1, HeaderShown
          <5> QED BY <5>1, <5>2 DEF IsSequence
        <4> HIDE DEF a
        <4>7. g[k] = g[k - 1] + a.size + a.body
          BY <4>2, <4>4, <4>5, <4>6
        <4> QED BY <3>2, <4>5, <4>7
      <3> QED BY <3>1, <3>2
    <2>2. g = [k \in 0..n |-> g[k]]
      OBVIOUS
    <2> HIDE DEF g
    <2> QED BY <2>1, <2>2
  <1>4. IsStart(h)
    <2> HIDE DEF IsStart, g
    <2> QED BY <1>3
  <1> HIDE DEF g, h
  <1>5. \A k \in 0..n : h[k] = g[k]
    <2> DEFINE Bad == {k \in 0..n : h[k] # g[k]}
    <2> SUFFICES ASSUME Bad # {}
                 PROVE  FALSE
      OBVIOUS
    <2>1. PICK k \in Bad : \A l \in Bad : k <= l
      <3>1. Bad \in SUBSET Nat
        BY <1>1
      <3> HIDE DEF Bad
      <3> QED BY <3>1, LeastExists
    <2>2. /\ h[k] = IF k = 0 THEN 1
                    ELSE h[k - 1] + HeadAt(b, h[k - 1]).size + HeadAt(b, h[k - 1]).body
          /\ g[k] = IF k = 0 THEN 1
                    ELSE g[k - 1] + HeadAt(b, g[k - 1]).size + HeadAt(b, g[k - 1]).body
      BY <1>3, <1>4
    <2>3. k # 0
      BY <2>2
    <2>4. k - 1 \in 0..n /\ ~(k <= k - 1)
      BY <1>1, <2>3
    <2>5. h[k - 1] = g[k - 1]
      BY <2>1, <2>4
    <2> QED BY <2>2, <2>3, <2>5
  <1>6. \A k \in 0..n : h[k] = Sizes(vs)[k] + 1
    BY <1>5 DEF g
  <1> QED BY <1>2, <1>6 DEF n

-----------------------------------------------------------------------------
(* The keys. *)

AllKeys == {MKEY_TYPE, MKEY_TRACE_ID, MKEY_SPAN_ID, MKEY_PARENT_ID, MKEY_START_NS, MKEY_DURATION,
            MKEY_URL, MKEY_METHOD, MKEY_STATUS, MKEY_QUERY, MKEY_DB_TYPE, MKEY_ROWS,
            MKEY_CACHE_CMD, MKEY_CACHE_KEY, MKEY_FUNC_CLASS, MKEY_FUNC_NAME, MKEY_FUNC_FILE,
            MKEY_FUNC_LINE, MKEY_URI}

(* No key stands for two fields. *)
LEMMA KeysDiffer ==
  \E No : /\ No[MKEY_TYPE] = 1 /\ No[MKEY_TRACE_ID] = 2 /\ No[MKEY_SPAN_ID] = 3
          /\ No[MKEY_PARENT_ID] = 4 /\ No[MKEY_START_NS] = 5 /\ No[MKEY_DURATION] = 6
          /\ No[MKEY_URL] = 7 /\ No[MKEY_METHOD] = 8 /\ No[MKEY_STATUS] = 9
          /\ No[MKEY_QUERY] = 10 /\ No[MKEY_DB_TYPE] = 11 /\ No[MKEY_ROWS] = 12
          /\ No[MKEY_CACHE_CMD] = 13 /\ No[MKEY_CACHE_KEY] = 14 /\ No[MKEY_FUNC_CLASS] = 15
          /\ No[MKEY_FUNC_NAME] = 16 /\ No[MKEY_FUNC_FILE] = 17 /\ No[MKEY_FUNC_LINE] = 18
          /\ No[MKEY_URI] = 19
  <1> DEFINE No == [key \in AllKeys |->
               CASE key = <<"t">> -> 1            [] key = <<"t", "i", "d">> -> 2
                 [] key = <<"s", "i", "d">> -> 3  [] key = <<"p", "i", "d">> -> 4
                 [] key = <<"s">> -> 5            [] key = <<"d">> -> 6
                 [] key = <<"u", "r", "l">> -> 7  [] key = <<"m", "t", "h">> -> 8
                 [] key = <<"s", "t">> -> 9       [] key = <<"q">> -> 10
                 [] key = <<"d", "b", "t">> -> 11 [] key = <<"r">> -> 12
                 [] key = <<"c", "m", "d">> -> 13 [] key = <<"k">> -> 14
                 [] key = <<"c", "l", "s">> -> 15 [] key = <<"f", "n">> -> 16
                 [] key = <<"f">> -> 17           [] key = <<"l">> -> 18
                 [] key = <<"u", "r", "i">> -> 19]
  <1> WITNESS No
  <1> QED BY DEF AllKeys, MKEY_TYPE, MKEY_TRACE_ID, MKEY_SPAN_ID, MKEY_PARENT_ID, MKEY_START_NS,
        MKEY_DURATION, MKEY_URL, MKEY_METHOD, MKEY_STATUS, MKEY_QUERY, MKEY_DB_TYPE, MKEY_ROWS,
        MKEY_CACHE_CMD, MKEY_CACHE_KEY, MKEY_FUNC_CLASS, MKEY_FUNC_NAME, MKEY_FUNC_FILE,
        MKEY_FUNC_LINE, MKEY_URI
(* A key is known by its bytes. *)
LEMMA KeyIsItsBytes ==
  ASSUME NEW c, NEW d, IsKey(c), IsKey(d), Str(Chars(c)) = Str(Chars(d))
  PROVE  c = d
  <1>1. Chars(c) = Chars(d)
    BY DEF Str
  <1>2. /\ IsSequence(c) /\ IsSequence(d)
        /\ Len(Chars(c)) = Len(c) /\ Len(Chars(d)) = Len(d)
    BY CharsAre DEF IsKey
  <1>3. Len(c) = Len(d)
    BY <1>1, <1>2
  <1>4. ASSUME NEW k \in 1..Len(c)
        PROVE  c[k] = d[k]
    <2>1. Chars(c)[k] = <<"char", c[k]>> /\ Chars(d)[k] = <<"char", d[k]>>
      BY <1>3 DEF Chars
    <2> QED BY <1>1, <2>1
  <1> QED BY <1>2, <1>3, <1>4 DEF IsSequence

LEMMA AllAreKeys == \A key \in AllKeys : IsKey(key)
  BY KeysAre DEF AllKeys

(* What a reader should find under each key. *)
LEMMA ValuesOfKeys ==
  ASSUME NEW s
  PROVE  /\ ValueOf(s, MKEY_TYPE) = Uint(TypeCode[s.type])
         /\ ValueOf(s, MKEY_TRACE_ID) = Bin(Chars(s.trace_id))
         /\ ValueOf(s, MKEY_SPAN_ID) = Uint(s.span_id)
         /\ ValueOf(s, MKEY_PARENT_ID) = Uint(s.parent_id)
         /\ ValueOf(s, MKEY_START_NS) = Uint(s.start_ns)
         /\ ValueOf(s, MKEY_DURATION) = Uint(s.duration_ns)
         /\ ValueOf(s, MKEY_URL) = Str(Chars(s.url))
         /\ ValueOf(s, MKEY_METHOD) = Str(Chars(s.method))
         /\ ValueOf(s, MKEY_STATUS) = Uint(s.status_code)
         /\ ValueOf(s, MKEY_QUERY) = Str(Chars(ShownSql))
         /\ ValueOf(s, MKEY_DB_TYPE) = Str(Chars(s.db_type))
         /\ ValueOf(s, MKEY_ROWS) = Uint(s.rows_affected)
         /\ ValueOf(s, MKEY_CACHE_CMD) = Str(Chars(s.cache_cmd))
         /\ ValueOf(s, MKEY_CACHE_KEY) = Str(Chars(s.cache_key))
         /\ ValueOf(s, MKEY_FUNC_CLASS) = Str(Chars(s.func_class))
         /\ ValueOf(s, MKEY_FUNC_NAME) = Str(Chars(s.func_name))
         /\ ValueOf(s, MKEY_FUNC_FILE) = Str(Chars(s.func_file))
         /\ ValueOf(s, MKEY_FUNC_LINE) = Uint(s.func_line)
         /\ ValueOf(s, MKEY_URI) = Str(Chars(s.request_uri))
  BY KeysDiffer DEF ValueOf

-----------------------------------------------------------------------------
(* Fields. *)

(* q is a list of n fields of the span s, one for each key of K. *)
AreFields(q, K, n, s) ==
  /\ IsSequence(q) /\ n \in Nat /\ Len(q) = 2 * n /\ K \subseteq AllKeys
  /\ \A i \in 1..n : \E key \in K : q[2 * i - 1] = Str(Chars(key)) /\ q[2 * i] = ValueOf(s, key)
  /\ \A key \in K : \E i \in 1..n : q[2 * i - 1] = Str(Chars(key)) /\ q[2 * i] = ValueOf(s, key)
  /\ \A i, j \in 1..n : q[2 * i - 1] = q[2 * j - 1] => i = j

LEMMA OneField ==
  ASSUME NEW s, NEW key \in AllKeys
  PROVE  AreFields(<<Str(Chars(key)), ValueOf(s, key)>>, {key}, 1, s)
  <1> DEFINE a == Str(Chars(key))
             b == ValueOf(s, key)
  <1> HIDE DEF a, b
  <1>1. <<a, b>> \in Seq({a, b}) /\ Len(<<a, b>>) = 2 /\ <<a, b>>[1] = a /\ <<a, b>>[2] = b
    OBVIOUS
  <1>2. IsSequence(<<a, b>>)
    BY <1>1, ElementsOfSequence
  <1>3. \A i \in 1..1 : i = 1 /\ 2 * i - 1 = 1 /\ 2 * i = 2
    OBVIOUS
  <1>4. \A i \in 1..1 : <<a, b>>[2 * i - 1] = a /\ <<a, b>>[2 * i] = b
    BY <1>1, <1>3
  <1>5. 1 \in 1..1 /\ 1 \in Nat /\ 2 * 1 = 2
    OBVIOUS
  <1> QED BY <1>1, <1>2, <1>3, <1>4, <1>5 DEF AreFields, a, b

(* Fields after fields with other keys. *)
LEMMA JoinFields ==
  ASSUME NEW s, NEW q, NEW K, NEW m, NEW r, NEW L, NEW n,
         AreFields(q, K, m, s), AreFields(r, L, n, s), K \cap L = {}
  PROVE  AreFields(q \o r, K \cup L, m + n, s)
  <1> DEFINE p == q \o r
  <1>1. /\ IsSequence(p) /\ Len(p) = Len(q) + Len(r)
        /\ \A i \in 1..Len(p) : p[i] = IF i <= Len(q) THEN q[i] ELSE r[i - Len(q)]
    <2>1. IsSequence(q) /\ IsSequence(r)
      BY DEF AreFields
    <2> QED BY <2>1, Concat
  <1>2. m \in Nat /\ n \in Nat /\ Len(q) = 2 * m /\ Len(r) = 2 * n /\ m + n \in Nat
    BY DEF AreFields
  <1> HIDE DEF p
  <1>3. ASSUME NEW i \in 1..m
        PROVE  /\ i \in 1..(m + n) /\ p[2 * i - 1] = q[2 * i - 1] /\ p[2 * i] = q[2 * i]
    <2>1. /\ 2 * i - 1 \in 1..Len(p) /\ 2 * i - 1 <= Len(q)
          /\ 2 * i \in 1..Len(p) /\ 2 * i <= Len(q) /\ i \in 1..(m + n)
      BY <1>1, <1>2
    <2> QED BY <1>1, <2>1
  <1>4. ASSUME NEW i \in 1..n
        PROVE  /\ m + i \in 1..(m + n)
               /\ p[2 * (m + i) - 1] = r[2 * i - 1] /\ p[2 * (m + i)] = r[2 * i]
    <2>1. /\ 2 * (m + i) - 1 \in 1..Len(p) /\ ~(2 * (m + i) - 1 <= Len(q))
          /\ 2 * (m + i) \in 1..Len(p) /\ ~(2 * (m + i) <= Len(q)) /\ m + i \in 1..(m + n)
          /\ (2 * (m + i) - 1) - Len(q) = 2 * i - 1 /\ 2 * (m + i) - Len(q) = 2 * i
      BY <1>1, <1>2
    <2>2. /\ p[2 * (m + i) - 1] = r[(2 * (m + i) - 1) - Len(q)]
          /\ p[2 * (m + i)] = r[2 * (m + i) - Len(q)]
      BY <1>1, <2>1
    <2> QED BY <2>1, <2>2
  <1>5. \A i \in 1..(m + n) : i \in 1..m \/ \E j \in 1..n : i = m + j
    <2>1. ASSUME NEW i \in 1..(m + n), i \notin 1..m
          PROVE  i - m \in 1..n /\ i = m + (i - m)
      BY <1>2, <2>1
    <2> QED BY <2>1
  <1>6. ASSUME NEW i \in 1..(m + n)
        PROVE  \E key \in K \cup L : p[2 * i - 1] = Str(Chars(key)) /\ p[2 * i] = ValueOf(s, key)
    <2>1. CASE i \in 1..m
      BY <1>3, <2>1 DEF AreFields
    <2>2. ASSUME NEW j \in 1..n, i = m + j
          PROVE  \E key \in L : p[2 * i - 1] = Str(Chars(key)) /\ p[2 * i] = ValueOf(s, key)
      <3>1. PICK key \in L : r[2 * j - 1] = Str(Chars(key)) /\ r[2 * j] = ValueOf(s, key)
        BY DEF AreFields
      <3> QED BY <1>4, <2>2, <3>1
    <2> QED BY <1>5, <2>1, <2>2
  <1>7. ASSUME NEW key \in K \cup L
        PROVE  \E i \in 1..(m + n) : p[2 * i - 1] = Str(Chars(key)) /\ p[2 * i] = ValueOf(s, key)
    <2>1. CASE key \in K
      <3>1. PICK i \in 1..m : q[2 * i - 1] = Str(Chars(key)) /\ q[2 * i] = ValueOf(s, key)
        BY <2>1 DEF AreFields
      <3> QED BY <1>3, <3>1
    <2>2. CASE key \in L
      <3>1. PICK i \in 1..n : r[2 * i - 1] = Str(Chars(key)) /\ r[2 * i] = ValueOf(s, key)
        BY <2>2 DEF AreFields
      <3> DEFINE j == m + i
      <3>2. /\ j \in 1..(m + n)
            /\ p[2 * j - 1] = Str(Chars(key)) /\ p[2 * j] = ValueOf(s, key)
        BY <1>4, <3>1
      <3> HIDE DEF j
      <3> QED BY <3>2
    <2> QED BY <2>1, <2>2
  <1>8. ASSUME NEW i \in 1..m, NEW j \in 1..n
        PROVE  q[2 * i - 1] # r[2 * j - 1]
    <2>0. /\ \A l \in 1..m : \E key \in K : q[2 * l - 1] = Str(Chars(key))
          /\ \A l \in 1..n : \E key \in L : r[2 * l - 1] = Str(Chars(key))
      BY DEF AreFields
    <2>1. PICK c \in K : q[2 * i - 1] = Str(Chars(c))
      BY <2>0
    <2>2. PICK d \in L : r[2 * j - 1] = Str(Chars(d))
      BY <2>0
    <2>3. c # d /\ IsKey(c) /\ IsKey(d)
      BY AllAreKeys DEF AreFields
    <2> QED BY <2>1, <2>2, <2>3, KeyIsItsBytes
  <1>9. ASSUME NEW i \in 1..(m + n), NEW j \in 1..(m + n), p[2 * i - 1] = p[2 * j - 1]
        PROVE  i = j
    <2>1. CASE i \in 1..m /\ j \in 1..m
      BY <1>3, <1>9, <2>1 DEF AreFields
    <2>2. ASSUME NEW k \in 1..n, j = m + k, i \in 1..m
          PROVE  FALSE
      BY <1>3, <1>4, <1>8, <1>9, <2>2
    <2>3. ASSUME NEW k \in 1..n, i = m + k, j \in 1..m
          PROVE  FALSE
      BY <1>3, <1>4, <1>8, <1>9, <2>3
    <2>4. ASSUME NEW k \in 1..n, NEW l \in 1..n, i = m + k, j = m + l
          PROVE  i = j
      <3>1. r[2 * k - 1] = r[2 * l - 1]
        BY <1>4, <1>9, <2>4
      <3>2. k = l
        BY <3>1 DEF AreFields
      <3> QED BY <2>4, <3>2
    <2> QED BY <1>5, <2>1, <2>2, <2>3, <2>4
  <1>10. Len(p) = 2 * (m + n) /\ K \cup L \subseteq AllKeys
    BY <1>1, <1>2 DEF AreFields
  <1> QED BY <1>1, <1>2, <1>6, <1>7, <1>9, <1>10 DEF AreFields, p
(* The fields every record has. *)
LEMMA CommonAre ==
  ASSUME NEW s
  PROVE  AreFields(CommonFields(s), Common, 6, s)
  <1>1. \A key \in AllKeys : AreFields(<<Str(Chars(key)), ValueOf(s, key)>>, {key}, 1, s)
    BY OneField
  <1> DEFINE F1 == UintKv(MKEY_TYPE, TypeCode[s.type])
             F2 == BinKv(MKEY_TRACE_ID, s.trace_id)
             F3 == UintKv(MKEY_SPAN_ID, s.span_id)
             F4 == UintKv(MKEY_PARENT_ID, s.parent_id)
             F5 == UintKv(MKEY_START_NS, s.start_ns)
             F6 == UintKv(MKEY_DURATION, s.duration_ns)
  <1>2. /\ AreFields(F1, {MKEY_TYPE}, 1, s) /\ AreFields(F2, {MKEY_TRACE_ID}, 1, s)
        /\ AreFields(F3, {MKEY_SPAN_ID}, 1, s) /\ AreFields(F4, {MKEY_PARENT_ID}, 1, s)
        /\ AreFields(F5, {MKEY_START_NS}, 1, s) /\ AreFields(F6, {MKEY_DURATION}, 1, s)
    BY <1>1, ValuesOfKeys DEF UintKv, BinKv, AllKeys
  <1> HIDE DEF F1, F2, F3, F4, F5, F6
  <1>3. AreFields(F1 \o F2, {MKEY_TYPE} \cup {MKEY_TRACE_ID}, 1 + 1, s)
    <2>1. {MKEY_TYPE} \cap {MKEY_TRACE_ID} = {}
      BY KeysDiffer
    <2> QED BY <1>2, <2>1, JoinFields
  <1> DEFINE K2 == {MKEY_TYPE} \cup {MKEY_TRACE_ID}
             G2 == F1 \o F2
             K3 == K2 \cup {MKEY_SPAN_ID}
             G3 == G2 \o F3
             K4 == K3 \cup {MKEY_PARENT_ID}
             G4 == G3 \o F4
             K5 == K4 \cup {MKEY_START_NS}
             G5 == G4 \o F5
             K6 == K5 \cup {MKEY_DURATION}
             G6 == G5 \o F6
  <1>4. /\ K2 \cap {MKEY_SPAN_ID} = {} /\ K3 \cap {MKEY_PARENT_ID} = {}
        /\ K4 \cap {MKEY_START_NS} = {} /\ K5 \cap {MKEY_DURATION} = {} /\ K6 = Common
    <2>1. K2 \cap {MKEY_SPAN_ID} = {} /\ K3 \cap {MKEY_PARENT_ID} = {}
      BY KeysDiffer
    <2>2. K4 \cap {MKEY_START_NS} = {} /\ K5 \cap {MKEY_DURATION} = {}
      BY KeysDiffer
    <2>3. K6 = Common
      BY DEF Common
    <2> QED BY <2>1, <2>2, <2>3
  <1>5. CommonFields(s) = G6
    BY DEF CommonFields, F1, F2, F3, F4, F5, F6
  <1>6. AreFields(G2, K2, 2, s)
    BY <1>3, 1 + 1 = 2
  <1> HIDE DEF K2, G2
  <1>7. AreFields(G3, K3, 2 + 1, s)
    BY <1>2, <1>4, <1>6, JoinFields
  <1> HIDE DEF K3, G3
  <1>8. AreFields(G4, K4, 2 + 1 + 1, s)
    BY <1>2, <1>4, <1>7, JoinFields
  <1> HIDE DEF K4, G4
  <1>9. AreFields(G5, K5, 2 + 1 + 1 + 1, s)
    BY <1>2, <1>4, <1>8, JoinFields
  <1> HIDE DEF K5, G5
  <1>10. AreFields(G6, K6, 2 + 1 + 1 + 1 + 1, s)
    BY <1>2, <1>4, <1>9, JoinFields
  <1> HIDE DEF K6, G6
  <1>11. 2 + 1 + 1 + 1 + 1 = 6
    OBVIOUS
  <1> QED BY <1>4, <1>5, <1>10, <1>11

(* The fields of the span's type: as many as the table counts, and its keys. *)
LEMMA TypeFieldsAre ==
  ASSUME NEW s, s.type \in Types, s.type = "DB" => s.query = ShownSql
  PROVE  \E n \in Nat : /\ AreFields(TypeFields(s), KeysOf[s.type], n, s)
                        /\ FieldCount(s.type) = 6 + n
  <1>1. \A key \in AllKeys : AreFields(<<Str(Chars(key)), ValueOf(s, key)>>, {key}, 1, s)
    BY OneField
  <1>2. \A q, K, m, r, L, n :
          AreFields(q, K, m, s) /\ AreFields(r, L, n, s) /\ K \cap L = {}
            => AreFields(q \o r, K \cup L, m + n, s)
    BY JoinFields
  <1>0. 1 + 1 = 2 /\ (1 + 1) + 1 = 3 /\ ((1 + 1) + 1) + 1 = 4 /\ {1, 2, 3, 4} \subseteq Nat
    OBVIOUS
  <1>3. CASE s.type = "HTTP_IN"
    <2> DEFINE A == StrKv(MKEY_URI, s.request_uri)
               B == StrKv(MKEY_METHOD, s.method)
    <2>1. AreFields(A, {MKEY_URI}, 1, s) /\ AreFields(B, {MKEY_METHOD}, 1, s)
      BY <1>1, ValuesOfKeys DEF StrKv, AllKeys
    <2>2. /\ TypeFields(s) = A \o B /\ KeysOf[s.type] = {MKEY_URI} \cup {MKEY_METHOD}
          /\ FieldCount(s.type) = 6 + (1 + 1)
      BY <1>3 DEF TypeFields, KeysOf, FieldCount
    <2> HIDE DEF A, B
    <2>3. {MKEY_URI} \cap {MKEY_METHOD} = {}
      BY KeysDiffer
    <2>4. AreFields(A \o B, {MKEY_URI} \cup {MKEY_METHOD}, 1 + 1, s)
      BY <1>2, <2>1, <2>3
    <2>5. AreFields(TypeFields(s), KeysOf[s.type], 2, s) /\ FieldCount(s.type) = 6 + 2 /\ 2 \in Nat
      BY <1>0, <2>2, <2>4
    <2> QED BY <2>5
  <1>4. CASE s.type = "HTTP_OUT"
    <2> DEFINE A == StrKv(MKEY_URL, s.url)
               B == StrKv(MKEY_METHOD, s.method)
               C == UintKv(MKEY_STATUS, s.status_code)
    <2>1. /\ AreFields(A, {MKEY_URL}, 1, s) /\ AreFields(B, {MKEY_METHOD}, 1, s)
          /\ AreFields(C, {MKEY_STATUS}, 1, s)
      BY <1>1, ValuesOfKeys DEF StrKv, UintKv, AllKeys
    <2>2. /\ TypeFields(s) = (A \o B) \o C
          /\ KeysOf[s.type] = ({MKEY_URL} \cup {MKEY_METHOD}) \cup {MKEY_STATUS}
          /\ FieldCount(s.type) = 6 + ((1 + 1) + 1)
      BY <1>4 DEF TypeFields, KeysOf, FieldCount
    <2> HIDE DEF A, B, C
    <2>3. /\ {MKEY_URL} \cap {MKEY_METHOD} = {}
          /\ ({MKEY_URL} \cup {MKEY_METHOD}) \cap {MKEY_STATUS} = {}
      BY KeysDiffer
    <2>4. AreFields(A \o B, {MKEY_URL} \cup {MKEY_METHOD}, 1 + 1, s)
      BY <1>2, <2>1, <2>3
    <2>5. AreFields((A \o B) \o C, ({MKEY_URL} \cup {MKEY_METHOD}) \cup {MKEY_STATUS}, (1 + 1) + 1, s)
      BY <1>2, <2>1, <2>3, <2>4
    <2>6. AreFields(TypeFields(s), KeysOf[s.type], 3, s) /\ FieldCount(s.type) = 6 + 3 /\ 3 \in Nat
      BY <1>0, <2>2, <2>5
    <2> QED BY <2>6
  <1>5. CASE s.type = "DB"
    <2> DEFINE A == StrKv(MKEY_QUERY, s.query)
               B == StrKv(MKEY_DB_TYPE, s.db_type)
               C == UintKv(MKEY_ROWS, s.rows_affected)
    <2>1. /\ AreFields(A, {MKEY_QUERY}, 1, s) /\ AreFields(B, {MKEY_DB_TYPE}, 1, s)
          /\ AreFields(C, {MKEY_ROWS}, 1, s)
      BY <1>1, <1>5, ValuesOfKeys DEF StrKv, UintKv, AllKeys
    <2>2. /\ TypeFields(s) = (A \o B) \o C
          /\ KeysOf[s.type] = ({MKEY_QUERY} \cup {MKEY_DB_TYPE}) \cup {MKEY_ROWS}
          /\ FieldCount(s.type) = 6 + ((1 + 1) + 1)
      BY <1>5 DEF TypeFields, KeysOf, FieldCount
    <2> HIDE DEF A, B, C
    <2>3. /\ {MKEY_QUERY} \cap {MKEY_DB_TYPE} = {}
          /\ ({MKEY_QUERY} \cup {MKEY_DB_TYPE}) \cap {MKEY_ROWS} = {}
      BY KeysDiffer
    <2>4. AreFields(A \o B, {MKEY_QUERY} \cup {MKEY_DB_TYPE}, 1 + 1, s)
      BY <1>2, <2>1, <2>3
    <2>5. AreFields((A \o B) \o C, ({MKEY_QUERY} \cup {MKEY_DB_TYPE}) \cup {MKEY_ROWS}, (1 + 1) + 1, s)
      BY <1>2, <2>1, <2>3, <2>4
    <2>6. AreFields(TypeFields(s), KeysOf[s.type], 3, s) /\ FieldCount(s.type) = 6 + 3 /\ 3 \in Nat
      BY <1>0, <2>2, <2>5
    <2> QED BY <2>6
  <1>6. CASE s.type \in {"REDIS", "MEMCACHED"}
    <2> DEFINE A == StrKv(MKEY_CACHE_CMD, s.cache_cmd)
               B == StrKv(MKEY_CACHE_KEY, s.cache_key)
    <2>1. AreFields(A, {MKEY_CACHE_CMD}, 1, s) /\ AreFields(B, {MKEY_CACHE_KEY}, 1, s)
      BY <1>1, ValuesOfKeys DEF StrKv, AllKeys
    <2>2. /\ TypeFields(s) = A \o B /\ KeysOf[s.type] = {MKEY_CACHE_CMD} \cup {MKEY_CACHE_KEY}
          /\ FieldCount(s.type) = 6 + (1 + 1)
      BY <1>6 DEF TypeFields, KeysOf, FieldCount
    <2> HIDE DEF A, B
    <2>3. {MKEY_CACHE_CMD} \cap {MKEY_CACHE_KEY} = {}
      BY KeysDiffer
    <2>4. AreFields(A \o B, {MKEY_CACHE_CMD} \cup {MKEY_CACHE_KEY}, 1 + 1, s)
      BY <1>2, <2>1, <2>3
    <2>5. AreFields(TypeFields(s), KeysOf[s.type], 2, s) /\ FieldCount(s.type) = 6 + 2 /\ 2 \in Nat
      BY <1>0, <2>2, <2>4
    <2> QED BY <2>5
  <1>7. CASE s.type \in {"FILE_IO", "SOCKET"}
    <2>1. AreFields(StrKv(MKEY_URL, s.url), {MKEY_URL}, 1, s)
      BY <1>1, ValuesOfKeys DEF StrKv, AllKeys
    <2>2. /\ TypeFields(s) = StrKv(MKEY_URL, s.url) /\ KeysOf[s.type] = {MKEY_URL}
          /\ FieldCount(s.type) = 6 + 1
      BY <1>7 DEF TypeFields, KeysOf, FieldCount
    <2>3. 1 \in Nat
      OBVIOUS
    <2> QED BY <2>1, <2>2, <2>3
  <1>8. CASE s.type = "FUNC"
    <2> DEFINE A == StrKv(MKEY_FUNC_CLASS, s.func_class)
               B == StrKv(MKEY_FUNC_NAME, s.func_name)
               C == StrKv(MKEY_FUNC_FILE, s.func_file)
               D == UintKv(MKEY_FUNC_LINE, s.func_line)
               K2 == {MKEY_FUNC_CLASS} \cup {MKEY_FUNC_NAME}
               K3 == K2 \cup {MKEY_FUNC_FILE}
               K4 == K3 \cup {MKEY_FUNC_LINE}
    <2>1. /\ AreFields(A, {MKEY_FUNC_CLASS}, 1, s) /\ AreFields(B, {MKEY_FUNC_NAME}, 1, s)
          /\ AreFields(C, {MKEY_FUNC_FILE}, 1, s) /\ AreFields(D, {MKEY_FUNC_LINE}, 1, s)
      BY <1>1, ValuesOfKeys DEF StrKv, UintKv, AllKeys
    <2>2. /\ TypeFields(s) = ((A \o B) \o C) \o D /\ KeysOf[s.type] = K4
          /\ FieldCount(s.type) = 6 + (((1 + 1) + 1) + 1)
      BY <1>8 DEF TypeFields, KeysOf, FieldCount
    <2>3. /\ {MKEY_FUNC_CLASS} \cap {MKEY_FUNC_NAME} = {}
          /\ K2 \cap {MKEY_FUNC_FILE} = {} /\ K3 \cap {MKEY_FUNC_LINE} = {}
      BY KeysDiffer
    <2> HIDE DEF A, B, C, D
    <2>4. AreFields(A \o B, K2, 1 + 1, s)
      BY <1>2, <2>1, <2>3
    <2> HIDE DEF K2
    <2>5. AreFields((A \o B) \o C, K3, (1 + 1) + 1, s)
      BY <1>2, <2>1, <2>3, <2>4
    <2> HIDE DEF K3
    <2>6. AreFields(((A \o B) \o C) \o D, K4, ((1 + 1) + 1) + 1, s)
      BY <1>2, <2>1, <2>3, <2>5
    <2> HIDE DEF K4
    <2>7. AreFields(TypeFields(s), KeysOf[s.type], 4, s) /\ FieldCount(s.type) = 6 + 4 /\ 4 \in Nat
      BY <1>0, <2>2, <2>6
    <2> QED BY <2>7
  <1> QED BY <1>3, <1>4, <1>5, <1>6, <1>7, <1>8 DEF Types

(* A span is packed as the number of its fields and then those fields. *)
LEMMA ValuesAre ==
  ASSUME NEW s, s.type \in Types, s.type = "DB" => s.query = ShownSql
  PROVE  LET vs == Values(s)
             n  == FieldCount(s.type)
             K  == Common \cup KeysOf[s.type]
         IN /\ n \in Nat /\ Len(vs) = 2 * n + 1 /\ vs[1] = MapOf(n)
            /\ \A k \in 1..n : \E key \in K :
                 vs[2 * k] = Str(Chars(key)) /\ vs[2 * k + 1] = ValueOf(s, key)
            /\ \A key \in K : \E k \in 1..n :
                 vs[2 * k] = Str(Chars(key)) /\ vs[2 * k + 1] = ValueOf(s, key)
            /\ \A j, k \in 1..n : vs[2 * j] = vs[2 * k] => j = k
  <1> DEFINE vs == Values(s)
             n  == FieldCount(s.type)
             K  == Common \cup KeysOf[s.type]
             M  == <<MapOf(n)>>
             C  == CommonFields(s)
             T  == TypeFields(s)
             q  == C \o T
  <1>1. AreFields(C, Common, 6, s)
    BY CommonAre
  <1>2. PICK m \in Nat : AreFields(T, KeysOf[s.type], m, s) /\ n = 6 + m
    BY TypeFieldsAre
  <1>3. Common \cap KeysOf[s.type] = {}
    <2>1. \A type \in Types : KeysOf[type] \subseteq AllKeys \ Common
      BY KeysDiffer DEF KeysOf, AllKeys, Common, Types
    <2> QED BY <2>1
  <1>4. AreFields(q, K, n, s)
    <2> HIDE DEF C, T, n
    <2>1. AreFields(C \o T, Common \cup KeysOf[s.type], 6 + m, s)
      BY <1>1, <1>2, <1>3, JoinFields
    <2> QED BY <1>2, <2>1
  <1>5. vs = (M \o C) \o T
    BY DEF Values
  <1>6. IsSequence(M) /\ Len(M) = 1 /\ M[1] = MapOf(n)
    BY OneByte
  <1>7. IsSequence(C) /\ IsSequence(T) /\ Len(C) \in Nat /\ Len(T) \in Nat
    BY <1>1, <1>2 DEF AreFields, IsSequence
  <1> HIDE DEF vs, n, K, M, C, T
  <1>8. /\ IsSequence(M \o C) /\ Len(M \o C) = 1 + Len(C)
        /\ \A i \in 1..Len(M \o C) : (M \o C)[i] = IF i <= 1 THEN M[i] ELSE C[i - 1]
    BY <1>6, <1>7, Concat
  <1>9. /\ Len(vs) = (1 + Len(C)) + Len(T)
        /\ \A i \in 1..Len(vs) : vs[i] = IF i <= 1 + Len(C) THEN (M \o C)[i] ELSE T[i - (1 + Len(C))]
    <2> DEFINE a == M \o C
    <2> HIDE DEF a
    <2>1. IsSequence(a) /\ Len(a) = 1 + Len(C) /\ vs = a \o T
      BY <1>5, <1>8 DEF a
    <2>2. /\ Len(vs) = Len(a) + Len(T)
          /\ \A i \in 1..Len(vs) : vs[i] = IF i <= Len(a) THEN a[i] ELSE T[i - Len(a)]
      BY <1>7, <2>1, Concat
    <2> QED BY <2>1, <2>2 DEF a
  <1>10. /\ Len(q) = Len(C) + Len(T)
         /\ \A i \in 1..Len(q) : q[i] = IF i <= Len(C) THEN C[i] ELSE T[i - Len(C)]
    BY <1>7, Concat
  <1> HIDE DEF q
  <1>11. Len(vs) = Len(q) + 1 /\ vs[1] = MapOf(n) /\ \A i \in 1..Len(q) : vs[i + 1] = q[i]
    <2>1. vs[1] = MapOf(n)
      <3>1. 1 \in 1..Len(vs) /\ 1 \in 1..Len(M \o C) /\ 1 <= 1 + Len(C) /\ 1 <= 1
        BY <1>7, <1>8, <1>9
      <3> QED BY <1>6, <1>8, <1>9, <3>1
    <2>2. ASSUME NEW i \in 1..Len(q)
          PROVE  vs[i + 1] = q[i]
      <3>1. CASE i <= Len(C)
        <4>1. /\ i + 1 \in 1..Len(vs) /\ i + 1 <= 1 + Len(C) /\ i + 1 \in 1..Len(M \o C)
              /\ ~(i + 1 <= 1) /\ (i + 1) - 1 = i
          BY <1>7, <1>8, <1>9, <1>10, <3>1
        <4>2. vs[i + 1] = (M \o C)[i + 1]
          BY <1>9, <4>1
        <4>3. (M \o C)[i + 1] = C[(i + 1) - 1]
          BY <1>8, <4>1
        <4> QED BY <1>10, <3>1, <4>1, <4>2, <4>3
      <3>2. CASE ~(i <= Len(C))
        <4>1. /\ i + 1 \in 1..Len(vs) /\ ~(i + 1 <= 1 + Len(C))
              /\ (i + 1) - (1 + Len(C)) = i - Len(C)
          BY <1>7, <1>9, <1>10, <3>2
        <4>2. vs[i + 1] = T[(i + 1) - (1 + Len(C))]
          BY <1>9, <4>1
        <4> QED BY <1>10, <3>2, <4>1, <4>2
      <3> QED BY <3>1, <3>2
    <2>3. Len(vs) = Len(q) + 1
      BY <1>7, <1>9, <1>10
    <2> QED BY <2>1, <2>2, <2>3
  <1>12. n \in Nat /\ Len(q) = 2 * n
    BY <1>4 DEF AreFields
  <1>13. \A k \in 1..n : vs[2 * k] = q[2 * k - 1] /\ vs[2 * k + 1] = q[2 * k]
    <2> TAKE k \in 1..n
    <2>1. 2 * k - 1 \in 1..Len(q) /\ 2 * k \in 1..Len(q) /\ (2 * k - 1) + 1 = 2 * k
      BY <1>12
    <2> QED BY <1>11, <2>1
  <1>14. \A k \in 1..n : \E key \in K :
           vs[2 * k] = Str(Chars(key)) /\ vs[2 * k + 1] = ValueOf(s, key)
    BY <1>4, <1>13 DEF AreFields
  <1>15. \A key \in K : \E k \in 1..n :
           vs[2 * k] = Str(Chars(key)) /\ vs[2 * k + 1] = ValueOf(s, key)
    BY <1>4, <1>13 DEF AreFields
  <1>16. \A j, k \in 1..n : vs[2 * j] = vs[2 * k] => j = k
    BY <1>4, <1>13 DEF AreFields
  <1>17. Len(vs) = 2 * n + 1
    BY <1>11, <1>12
  <1> QED BY <1>11, <1>12, <1>14, <1>15, <1>16, <1>17 DEF vs, n, K
-----------------------------------------------------------------------------
(* Records that read back. *)

(* The record of a span that is shown in the whole buffer, and nothing else. *)
LEMMA RecordDecodes ==
  ASSUME ReadInv, phase = "written"
  PROVE  Decodes(buf, Contract(span))
  <1> DEFINE vs    == Values(span)
             n     == FieldCount(span.type)
             K     == Common \cup KeysOf[span.type]
             start == StartOf(buf, 2 * n + 1)
             Pair(k) == <<ValueAt(buf, start[2 * k - 1]), ValueAt(buf, start[2 * k])>>
             pairs == Contract(span)
  <1>1. span \in Spans /\ span.type \in Types /\ (span.type = "DB" => span.query = ShownSql)
    <2>1. span \in Spans /\ StatementIsShown
      BY DEF ReadInv, EncodeInv
    <2> QED BY <2>1 DEF Spans, SpansWith, StatementIsShown
  <1>2. AreValues(vs) /\ Len(vs) \in Nat
    BY <1>1, ValuesOfSpan DEF AreValues, IsSequence
  <1>3. /\ n \in Nat /\ Len(vs) = 2 * n + 1 /\ vs[1] = MapOf(n)
        /\ \A k \in 1..n : \E key \in K :
             vs[2 * k] = Str(Chars(key)) /\ vs[2 * k + 1] = ValueOf(span, key)
        /\ \A key \in K : \E k \in 1..n :
             vs[2 * k] = Str(Chars(key)) /\ vs[2 * k + 1] = ValueOf(span, key)
        /\ \A j, k \in 1..n : vs[2 * j] = vs[2 * k] => j = k
    BY <1>1, ValuesAre
  <1>4. /\ Len(todo) = 0 /\ Len(buf) = Sizes(vs)[Len(vs) - Len(todo)]
        /\ \A j \in 1..(Len(vs) - Len(todo)) : Shows(buf, Sizes(vs)[j - 1], Packed(vs[j]))
    BY EmptySeq DEF ReadInv, BufferHolds, BytesShown
  <1>5. pairs = {<<Str(Chars(key)), ValueOf(span, key)>> : key \in K}
    BY DEF Contract
  <1> HIDE DEF vs, n, K, pairs
  <1>6. Len(vs) - Len(todo) = Len(vs)
    BY <1>2, <1>4
  <1>7. /\ Len(buf) = Sizes(vs)[Len(vs)]
        /\ \A j \in 1..Len(vs) : Shows(buf, Sizes(vs)[j - 1], Packed(vs[j]))
    BY <1>4, <1>6
  <1>8. \A k \in 0..Len(vs) : start[k] = Sizes(vs)[k] + 1
    <2>1. \A k \in 0..Len(vs) : StartOf(buf, Len(vs))[k] = Sizes(vs)[k] + 1
      BY <1>2, <1>7, StartsAre
    <2>2. start = StartOf(buf, Len(vs))
      BY <1>3
    <2> HIDE DEF start
    <2> QED BY <2>1, <2>2
  <1> HIDE DEF start
  <1>9. ASSUME NEW j \in 1..Len(vs)
        PROVE  /\ Sizes(vs)[j - 1] \in Nat /\ ValueAt(buf, Sizes(vs)[j - 1] + 1) = vs[j]
               /\ HeadAt(buf, Sizes(vs)[j - 1] + 1).kind = vs[j].kind
               /\ HeadAt(buf, Sizes(vs)[j - 1] + 1).n = vs[j].n
    <2>1. j - 1 \in 0..Len(vs)
      BY <1>2
    <2>2. Sizes(vs)[j - 1] \in Nat /\ IsValue(vs[j]) /\ Shows(buf, Sizes(vs)[j - 1], Packed(vs[j]))
      BY <1>2, <1>7, <2>1, SizesAre DEF AreValues
    <2> QED BY <2>2, ValueShown
  <1>10. HeadAt(buf, 1).kind = "map" /\ HeadAt(buf, 1).n = n
    <2>1. 1 \in 1..Len(vs) /\ 1 - 1 = 0 /\ Sizes(vs)[0] + 1 = 1
      BY <1>2, <1>3, SizesAre
    <2>2. vs[1].kind = "map" /\ vs[1].n = n
      BY <1>3 DEF MapOf
    <2> QED BY <1>9, <2>1, <2>2
  <1>11. start[2 * n + 1] = Len(buf) + 1
    <2>1. Len(vs) \in 0..Len(vs) /\ 2 * n + 1 = Len(vs)
      BY <1>2, <1>3
    <2> QED BY <1>7, <1>8, <2>1
  <1>12. ASSUME NEW k \in 1..n
         PROVE  Pair(k) = <<vs[2 * k], vs[2 * k + 1]>>
    <2>1. /\ 2 * k - 1 \in 0..Len(vs) /\ 2 * k \in 0..Len(vs)
          /\ 2 * k \in 1..Len(vs) /\ 2 * k + 1 \in 1..Len(vs) /\ (2 * k + 1) - 1 = 2 * k
      BY <1>3
    <2>2. start[2 * k - 1] = Sizes(vs)[2 * k - 1] + 1 /\ start[2 * k] = Sizes(vs)[2 * k] + 1
      BY <1>8, <2>1
    <2>3. ValueAt(buf, Sizes(vs)[2 * k - 1] + 1) = vs[2 * k]
      BY <1>9, <2>1
    <2>4. ValueAt(buf, Sizes(vs)[(2 * k + 1) - 1] + 1) = vs[2 * k + 1]
      BY <1>9, <2>1
    <2> QED BY <2>1, <2>2, <2>3, <2>4
  <1>13. \A k \in 1..n : Pair(k) \in pairs
    <2> TAKE k \in 1..n
    <2>1. PICK key \in K : vs[2 * k] = Str(Chars(key)) /\ vs[2 * k + 1] = ValueOf(span, key)
      BY <1>3
    <2> HIDE DEF Pair
    <2> QED BY <1>5, <1>12, <2>1
  <1>14. \A p \in pairs : \E k \in 1..n : Pair(k) = p
    <2> TAKE p \in pairs
    <2>1. PICK key \in K : p = <<Str(Chars(key)), ValueOf(span, key)>>
      BY <1>5
    <2>2. PICK k \in 1..n : vs[2 * k] = Str(Chars(key)) /\ vs[2 * k + 1] = ValueOf(span, key)
      BY <1>3
    <2> HIDE DEF Pair
    <2> QED BY <1>12, <2>1, <2>2
  <1>15. \A j, k \in 1..n : Pair(j)[1] = Pair(k)[1] => j = k
    <2> TAKE j, k \in 1..n
    <2>1. Pair(j)[1] = vs[2 * j] /\ Pair(k)[1] = vs[2 * k]
      <3> HIDE DEF Pair
      <3> QED BY <1>12
    <2> QED BY <1>3, <2>1
  <1>16. /\ HeadAt(buf, 1).kind = "map" /\ start[2 * n + 1] = Len(buf) + 1
         /\ \A k \in 1..n : <<ValueAt(buf, start[2 * k - 1]), ValueAt(buf, start[2 * k])>> \in pairs
         /\ \A p \in pairs : \E k \in 1..n :
              <<ValueAt(buf, start[2 * k - 1]), ValueAt(buf, start[2 * k])>> = p
         /\ \A j, k \in 1..n : <<ValueAt(buf, start[2 * j - 1]), ValueAt(buf, start[2 * j])>>[1]
                             = <<ValueAt(buf, start[2 * k - 1]), ValueAt(buf, start[2 * k])>>[1]
                               => j = k
    BY <1>10, <1>11, <1>13, <1>14, <1>15
  <1> QED BY <1>10, <1>16 DEF Decodes, start, pairs

(* A record that goes to the ring reads back, by the msgpack format alone, as *)
(* one map with exactly the keys of its span's type and this span's values    *)
(* (lumbre_span.c:23-36, 109 and 230, lumbre_msgpack.c).                      *)
THEOREM RecordsReadBackAlways == Spec => []RecordsReadBack
  <1>1. ReadInv => RecordsReadBack
    BY RecordDecodes DEF RecordsReadBack
  <1> QED BY <1>1, ReadInvariant, PTL
=============================================================================
