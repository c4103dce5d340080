----------------------- MODULE LumbreSpanEncodeProofs -----------------------
(***************************************************************************)
(* Proofs about the packing of records, for every buffer size, every set   *)
(* of strings below 4 GB and every limit on the length of statements.      *)
(***************************************************************************)
EXTENDS LumbreSpanEncode, WellFoundedInduction, SequenceTheorems, TLAPS

(* What the packer can pack without cutting anything off. *)
IsValue(v) ==
  /\ v = [kind |-> v.kind, n |-> v.n, s |-> v.s]
  /\ v.kind \in {"map", "uint", "str", "bin"} /\ v.n \in Uint64 /\ IsSequence(v.s)
  /\ v.kind \in {"map", "uint"} => v.s = << >>
  /\ v.kind = "map" => v.n <= 10
  /\ v.kind \in {"str", "bin"} => v.n = 0 /\ 5 + Len(v.s) < U32
  /\ v.kind = "bin" => Len(v.s) < Place[2]

AreValues(vs) == IsSequence(vs) /\ \A k \in 1..Len(vs) : IsValue(vs[k])

-----------------------------------------------------------------------------
(* Numbers. *)

(* The weights are the powers of the base. *)
LEMMA PlaceIs ==
  /\ Base \in Nat \ {0} /\ \A k \in 0..8 : Place[k] \in Nat \ {0}
  /\ Place[0] = 1 /\ \A k \in 1..8 : Place[k] = Base * Place[k - 1]
  /\ U32 \in Nat /\ 10 < U32 /\ Uint64 \subseteq Nat /\ 0..10 \subseteq Uint64
  <1> DEFINE P1 == Base
             P2 == Base * P1
             P3 == Base * P2
             P4 == Base * P3
             P5 == Base * P4
             P6 == Base * P5
             P7 == Base * P6
             P8 == Base * P7
  <1>1. /\ P1 \in Nat /\ P2 \in Nat /\ P3 \in Nat /\ P4 \in Nat /\ P5 \in Nat /\ P6 \in Nat /\ P7 \in Nat /\ P8 \in Nat
        /\ P1 = Base * 1 /\ P2 = Base * P1 /\ P3 = Base * P2 /\ P4 = Base * P3 /\ P5 = Base * P4 /\ P6 = Base * P5 /\ P7 = Base * P6 /\ P8 = Base * P7
    <2>1. \A a \in Nat : Base * a \in Nat
      BY EncodeAssumption
    <2>2. Base \in Nat /\ Base * 1 = Base
      BY EncodeAssumption
    <2>3. P2 \in Nat
      BY <2>1, <2>2
    <2> HIDE DEF P2
    <2>4. P3 \in Nat
      BY <2>1, <2>3
    <2> HIDE DEF P3
    <2>5. P4 \in Nat
      BY <2>1, <2>4
    <2> HIDE DEF P4
    <2>6. P5 \in Nat
      BY <2>1, <2>5
    <2> HIDE DEF P5
    <2>7. P6 \in Nat
      BY <2>1, <2>6
    <2> HIDE DEF P6
    <2>8. P7 \in Nat
      BY <2>1, <2>7
    <2> HIDE DEF P7
    <2>9. P8 \in Nat
      BY <2>1, <2>8
    <2> QED BY <2>2, <2>3, <2>4, <2>5, <2>6, <2>7, <2>8, <2>9 DEF P2, P3, P4, P5, P6, P7, P8
  <1> HIDE DEF P1, P2, P3, P4, P5, P6, P7, P8
  <1> DEFINE g == [k \in 0..8 |-> IF k = 0 THEN 1 ELSE IF k = 1 THEN P1 ELSE IF k = 2 THEN P2
                    ELSE IF k = 3 THEN P3 ELSE IF k = 4 THEN P4 ELSE IF k = 5 THEN P5
                    ELSE IF k = 6 THEN P6 ELSE IF k = 7 THEN P7 ELSE P8]
             IsPlace(f) == f = [k \in 0..8 |-> IF k = 0 THEN 1 ELSE Base * f[k - 1]]
  <1>2. IsPlace(g)
    <2>1. ASSUME NEW k \in 0..8
          PROVE  g[k] = IF k = 0 THEN 1 ELSE Base * g[k - 1]
      BY <1>1, k = 0 \/ k = 1 \/ k = 2 \/ k = 3 \/ k = 4 \/ k = 5 \/ k = 6 \/ k = 7 \/ k = 8
    <2> HIDE DEF g
    <2>2. g = [k \in 0..8 |-> g[k]]
      BY DEF g
    <2> QED BY <2>1, <2>2
  <1>3. IsPlace(Place)
    <2>1. \E f : IsPlace(f)
      BY <1>2
    <2> QED BY <2>1 DEF Place
  <1>4. \A k \in 0..8 : Place[k] = IF k = 0 THEN 1 ELSE Base * Place[k - 1]
    BY <1>3
  <1>5. /\ Place[0] = 1 /\ Place[1] = Base * Place[0] /\ Place[2] = Base * Place[1]
        /\ Place[3] = Base * Place[2] /\ Place[4] = Base * Place[3] /\ Place[5] = Base * Place[4]
        /\ Place[6] = Base * Place[5] /\ Place[7] = Base * Place[6] /\ Place[8] = Base * Place[7]
    BY <1>4
  <1>6. Base \in Nat \ {0}
    <2>1. CASE Base = 0
      <3>1. \A a \in Int : 0 * a = 0
        OBVIOUS
      <3>2. Place[1] = 0
        BY <1>5, <2>1
      <3>3. Place[2] = 0
        BY <1>5, <2>1, <3>1, <3>2
      <3> QED BY <3>3, EncodeAssumption
    <2> QED BY <2>1, EncodeAssumption
  <1>7. \A a \in Nat \ {0} : Base * a \in Nat \ {0} /\ a <= Base * a
    BY <1>6
  <1>8. /\ Place[0] \in Nat \ {0} /\ Place[1] \in Nat \ {0} /\ Place[2] \in Nat \ {0}
        /\ Place[3] \in Nat \ {0} /\ Place[4] \in Nat \ {0} /\ Place[5] \in Nat \ {0}
        /\ Place[6] \in Nat \ {0} /\ Place[7] \in Nat \ {0} /\ Place[8] \in Nat \ {0}
    <2>1. Place[0] \in Nat \ {0} /\ Place[1] \in Nat \ {0} /\ Place[2] \in Nat \ {0}
      BY <1>5, <1>7
    <2>2. Place[3] \in Nat \ {0} /\ Place[4] \in Nat \ {0} /\ Place[5] \in Nat \ {0}
      BY <1>5, <1>7, <2>1
    <2> QED BY <1>5, <1>7, <2>1, <2>2
  <1>9. ASSUME NEW k \in 0..8
        PROVE  Place[k] \in Nat \ {0} /\ (k # 0 => Place[k - 1] <= Place[k])
    <2>1. k \in {0, 1, 2, 3, 4, 5, 6, 7, 8}
      OBVIOUS
    <2>2. Place[k] \in Nat \ {0}
      BY <1>8, <2>1
    <2>3. CASE k # 0
      <3>1. k - 1 \in {0, 1, 2, 3, 4, 5, 6, 7, 8}
        BY <2>1, <2>3
      <3>2. Place[k - 1] \in Nat \ {0}
        BY <1>8, <3>1
      <3> QED BY <1>4, <1>7, <2>2, <2>3, <3>2
    <2> QED BY <2>2, <2>3
  <1>10. 10 < Place[4] /\ 10 < Place[8]
    <2>1. 10 < Place[2]
      BY EncodeAssumption
    <2>2. 10 < Place[3] /\ 10 < Place[4]
      BY <1>5, <1>7, <1>8, <2>1
    <2>3. 10 < Place[5] /\ 10 < Place[6]
      BY <1>5, <1>7, <1>8, <2>2
    <2> QED BY <1>5, <1>7, <1>8, <2>2, <2>3
  <1>11. U32 \in Nat /\ 10 < U32 /\ Uint64 \subseteq Nat /\ 0..10 \subseteq Uint64
    BY <1>8, <1>10 DEF U32, Uint64
  <1>12. ASSUME NEW k \in 1..8
         PROVE  Place[k] = Base * Place[k - 1]
    BY <1>4
  <1> QED BY <1>5, <1>6, <1>9, <1>11, <1>12

-----------------------------------------------------------------------------
(* Sequences. *)

(* A sequence is one over the set of its elements. *)
LEMMA SequenceOfElements ==
  ASSUME NEW q
  PROVE  IsSequence(q) => q \in Seq({q[k] : k \in 1..Len(q)})
  <1> SUFFICES ASSUME IsSequence(q)
               PROVE  q \in Seq({q[k] : k \in 1..Len(q)})
    OBVIOUS
  <1> DEFINE S == {q[k] : k \in 1..Len(q)}
  <1>1. \A k \in 1..Len(q) : q[k] \in S
    OBVIOUS
  <1>2. q \in [1..Len(q) -> S] /\ Len(q) \in Nat
    BY <1>1 DEF IsSequence
  <1> QED BY <1>2, SeqDef

LEMMA ElementsOfSequence ==
  ASSUME NEW S, NEW q \in Seq(S)
  PROVE  IsSequence(q)
  BY LenProperties DEF IsSequence

(* Two sequences after each other. *)
LEMMA Concat ==
  ASSUME NEW p, NEW q, IsSequence(p), IsSequence(q)
  PROVE  /\ IsSequence(p \o q)
         /\ Len(p \o q) = Len(p) + Len(q)
         /\ \A i \in 1..Len(p \o q) :
              (p \o q)[i] = IF i <= Len(p) THEN p[i] ELSE q[i - Len(p)]
  <1> DEFINE S == {p[k] : k \in 1..Len(p)} \cup {q[k] : k \in 1..Len(q)}
  <1>1. p \in Seq(S) /\ q \in Seq(S)
    <2>1. /\ p \in Seq({p[k] : k \in 1..Len(p)}) /\ {p[k] : k \in 1..Len(p)} \subseteq S
          /\ q \in Seq({q[k] : k \in 1..Len(q)}) /\ {q[k] : k \in 1..Len(q)} \subseteq S
      BY SequenceOfElements
    <2> QED BY <2>1, SeqMonotonic
  <1> HIDE DEF S
  <1>2. p \o q \in Seq(S)
    BY <1>1, ConcatProperties
  <1> QED BY <1>1, <1>2, ConcatProperties, ElementsOfSequence

(* The start of a string. *)
LEMMA PrefixIs ==
  ASSUME NEW q, IsSequence(q), NEW n \in 0..Len(q)
  PROVE  /\ IsSequence(Prefix(q, n)) /\ Len(Prefix(q, n)) = n
         /\ \A m \in 0..n : Prefix(Prefix(q, n), m) = Prefix(q, m)
  <1> DEFINE S == {q[k] : k \in 1..Len(q)}
  <1>1. q \in Seq(S) /\ Len(q) \in Nat
    BY SequenceOfElements DEF IsSequence
  <1>2. \A m \in 0..Len(q) :
          /\ Prefix(q, m) \in Seq(S) /\ Len(Prefix(q, m)) = m
          /\ \A i \in 1..m : Prefix(q, m)[i] = q[i]
    <2> TAKE m \in 0..Len(q)
    <2>1. 1 \in Int /\ m \in Int /\ \A i \in 1..m : q[i] \in S
      BY <1>1
    <2>2. /\ SubSeq(q, 1, m) \in Seq(S)
          /\ Len(SubSeq(q, 1, m)) = IF 1 <= m THEN m - 1 + 1 ELSE 0
          /\ \A i \in 1..(m - 1 + 1) : SubSeq(q, 1, m)[i] = q[1 + i - 1]
      BY <2>1, SubSeqProperties
    <2> QED BY <2>2, <1>1 DEF Prefix
  <1>3. ASSUME NEW m \in 0..n
        PROVE  Prefix(Prefix(q, n), m) = Prefix(q, m)
    <2> DEFINE P == Prefix(q, n)
    <2>1. P \in Seq(S) /\ Len(P) = n /\ \A i \in 1..n : P[i] = q[i]
      BY <1>2
    <2>2. 1 \in Int /\ m \in Int /\ \A i \in 1..m : P[i] \in S
      BY <2>1, <1>1
    <2> HIDE DEF P
    <2>3. /\ SubSeq(P, 1, m) \in Seq(S)
          /\ Len(SubSeq(P, 1, m)) = IF 1 <= m THEN m - 1 + 1 ELSE 0
          /\ \A i \in 1..(m - 1 + 1) : SubSeq(P, 1, m)[i] = P[1 + i - 1]
      BY <2>2, SubSeqProperties
    <2>4. Len(SubSeq(P, 1, m)) = m /\ \A i \in 1..m : SubSeq(P, 1, m)[i] = q[i]
      <3>1. m \in Nat /\ n \in Nat /\ m <= n
        BY <1>1
      <3>2. Len(SubSeq(P, 1, m)) = m
        BY <2>3, <3>1
      <3>3. ASSUME NEW i \in 1..m
            PROVE  SubSeq(P, 1, m)[i] = q[i]
        <4>1. i \in 1..n /\ i \in 1..(m - 1 + 1) /\ 1 + i - 1 = i
          BY <3>1
        <4> QED BY <4>1, <2>1, <2>3
      <3> QED BY <3>2, <3>3
    <2>5. /\ Prefix(q, m) \in Seq(S) /\ Len(Prefix(q, m)) = m
          /\ \A i \in 1..m : Prefix(q, m)[i] = q[i]
      <3>1. m \in 0..Len(q)
        BY <1>1
      <3> QED BY <1>2, <3>1
    <2>6. SubSeq(P, 1, m) = Prefix(q, m)
      BY <2>3, <2>4, <2>5, SeqEqual
    <2> QED BY <2>6 DEF P, Prefix
  <1> QED BY <1>2, <1>3, ElementsOfSequence

(* The rest of a sequence after its first element. *)
LEMMA RestIs ==
  ASSUME NEW q, IsSequence(q), q # << >>
  PROVE  /\ Len(q) \in Nat \ {0} /\ Head(q) = q[1]
         /\ IsSequence(Tail(q)) /\ Len(Tail(q)) = Len(q) - 1
         /\ \A i \in 1..Len(Tail(q)) : Tail(q)[i] = q[i + 1]
  <1> DEFINE S == {q[k] : k \in 1..Len(q)}
  <1>1. q \in Seq(S)
    BY SequenceOfElements
  <1> HIDE DEF S
  <1>2. Len(q) \in Nat \ {0}
    BY <1>1, EmptySeq
  <1>3. /\ Tail(q) \in Seq(S) /\ Len(Tail(q)) = Len(q) - 1
        /\ \A i \in 1..Len(Tail(q)) : Tail(q)[i] = q[i + 1]
    BY <1>1, HeadTailProperties
  <1>4. Head(q) = q[1]
    BY <1>1, <1>2
  <1> QED BY <1>2, <1>3, <1>4, ElementsOfSequence

-----------------------------------------------------------------------------
(* Values. *)

(* One list of values after another. *)
LEMMA ConcatValues ==
  ASSUME NEW us, NEW vs, AreValues(us), AreValues(vs)
  PROVE  AreValues(us \o vs)
  <1>1. /\ IsSequence(us \o vs) /\ Len(us \o vs) = Len(us) + Len(vs)
        /\ \A i \in 1..Len(us \o vs) :
              (us \o vs)[i] = IF i <= Len(us) THEN us[i] ELSE vs[i - Len(us)]
    BY Concat DEF AreValues
  <1>2. Len(us) \in Nat /\ Len(vs) \in Nat
    BY DEF AreValues, IsSequence
  <1>3. ASSUME NEW i \in 1..Len(us \o vs)
        PROVE  IsValue((us \o vs)[i])
    <2>1. CASE i <= Len(us)
      BY <1>1, <1>2, <2>1 DEF AreValues
    <2>2. CASE ~(i <= Len(us))
      <3>1. i - Len(us) \in 1..Len(vs)
        BY <1>1, <1>2, <2>2
      <3> QED BY <1>1, <2>2, <3>1 DEF AreValues
    <2> QED BY <2>1, <2>2
  <1> QED BY <1>1, <1>3 DEF AreValues

(* A string of characters has as many bytes. *)
LEMMA CharsAre ==
  ASSUME NEW s, IsSequence(s)
  PROVE  IsSequence(Chars(s)) /\ Len(Chars(s)) = Len(s)
  <1>1. Len(s) \in Nat
    BY DEF IsSequence
  <1> DEFINE S == {<<"char", s[k]>> : k \in 1..Len(s)}
  <1>2. Chars(s) \in [1..Len(s) -> S]
    BY DEF Chars
  <1>3. Chars(s) \in Seq(S)
    BY <1>1, <1>2, SeqDef
  <1>4. DOMAIN Chars(s) = 1..Len(s) /\ DOMAIN Chars(s) = 1..Len(Chars(s)) /\ Len(Chars(s)) \in Nat
    BY <1>2, <1>3, LenProperties
  <1> QED BY <1>1, <1>3, <1>4, ElementsOfSequence

(* A key and its value. *)
LEMMA PairIsValues ==
  ASSUME NEW u, NEW v, IsValue(u), IsValue(v)
  PROVE  AreValues(<<u, v>>)
  <1>1. <<u, v>> \in Seq({u, v}) /\ Len(<<u, v>>) = 2 /\ <<u, v>>[1] = u /\ <<u, v>>[2] = v
    OBVIOUS
  <1>2. IsSequence(<<u, v>>)
    BY <1>1, ElementsOfSequence
  <1>3. ASSUME NEW k \in 1..2
        PROVE  IsValue(<<u, v>>[k])
    BY <1>1, <1>3, k = 1 \/ k = 2
  <1> QED BY <1>1, <1>2, <1>3 DEF AreValues

IsKey(key) == IsSequence(key) /\ Len(key) <= 3

LEMMA KeyIsValue ==
  ASSUME NEW key, IsKey(key)
  PROVE  IsValue(Str(Chars(key)))
  <1>1. IsSequence(Chars(key)) /\ Len(Chars(key)) <= 3 /\ Len(Chars(key)) \in Nat
    BY CharsAre DEF IsKey, IsSequence
  <1> HIDE DEF Chars
  <1> QED BY <1>1, PlaceIs DEF IsValue, Str

LEMMA UintKvIs ==
  ASSUME NEW key, IsKey(key), NEW n \in Uint64
  PROVE  AreValues(UintKv(key, n))
  <1>1. IsValue(Uint(n))
    <2>1. IsSequence(<< >>)
      BY EmptySeq, ElementsOfSequence
    <2> QED BY <2>1 DEF IsValue, Uint
  <1> QED BY <1>1, KeyIsValue, PairIsValues DEF UintKv

LEMMA StrKvIs ==
  ASSUME NEW key, IsKey(key), NEW s, IsSequence(s), 5 + Len(s) < U32
  PROVE  AreValues(StrKv(key, s))
  <1>1. IsValue(Str(Chars(s)))
    <2>1. IsSequence(Chars(s)) /\ Len(Chars(s)) = Len(s)
      BY CharsAre
    <2>2. 0 \in Uint64
      BY PlaceIs
    <2> HIDE DEF Chars
    <2> QED BY <2>1, <2>2 DEF IsValue, Str
  <1> QED BY <1>1, KeyIsValue, PairIsValues DEF StrKv

LEMMA BinKvIs ==
  ASSUME NEW key, IsKey(key), NEW s, IsSequence(s), 5 + Len(s) < U32, Len(s) < Place[2]
  PROVE  AreValues(BinKv(key, s))
  <1>1. IsValue(Bin(Chars(s)))
    <2>1. IsSequence(Chars(s)) /\ Len(Chars(s)) = Len(s)
      BY CharsAre
    <2>2. 0 \in Uint64
      BY PlaceIs
    <2> HIDE DEF Chars
    <2> QED BY <2>1, <2>2 DEF IsValue, Bin
  <1> QED BY <1>1, KeyIsValue, PairIsValues DEF BinKv

-----------------------------------------------------------------------------
(* The values of a span. *)

(* Every key is at most three characters. *)
LEMMA KeysAre ==
  /\ IsKey(MKEY_TYPE) /\ IsKey(MKEY_TRACE_ID) /\ IsKey(MKEY_SPAN_ID) /\ IsKey(MKEY_PARENT_ID)
  /\ IsKey(MKEY_START_NS) /\ IsKey(MKEY_DURATION) /\ IsKey(MKEY_URL) /\ IsKey(MKEY_METHOD)
  /\ IsKey(MKEY_STATUS) /\ IsKey(MKEY_QUERY) /\ IsKey(MKEY_DB_TYPE) /\ IsKey(MKEY_ROWS)
  /\ IsKey(MKEY_CACHE_CMD) /\ IsKey(MKEY_CACHE_KEY) /\ IsKey(MKEY_FUNC_CLASS)
  /\ IsKey(MKEY_FUNC_NAME) /\ IsKey(MKEY_FUNC_FILE) /\ IsKey(MKEY_FUNC_LINE) /\ IsKey(MKEY_URI)
  <1>1. ASSUME NEW a, NEW b, NEW c
        PROVE  IsKey(<<a>>) /\ IsKey(<<a, b>>) /\ IsKey(<<a, b, c>>)
    <2>1. /\ <<a>> \in Seq({a}) /\ Len(<<a>>) = 1
          /\ <<a, b>> \in Seq({a, b}) /\ Len(<<a, b>>) = 2
          /\ <<a, b, c>> \in Seq({a, b, c}) /\ Len(<<a, b, c>>) = 3
      OBVIOUS
    <2>2. IsSequence(<<a>>) /\ IsSequence(<<a, b>>) /\ IsSequence(<<a, b, c>>)
      BY <2>1, ElementsOfSequence
    <2> QED BY <2>1, <2>2 DEF IsKey
  <1> QED BY <1>1 DEF MKEY_TYPE, MKEY_TRACE_ID, MKEY_SPAN_ID, MKEY_PARENT_ID, MKEY_START_NS,
        MKEY_DURATION, MKEY_URL, MKEY_METHOD, MKEY_STATUS, MKEY_QUERY, MKEY_DB_TYPE, MKEY_ROWS,
        MKEY_CACHE_CMD, MKEY_CACHE_KEY, MKEY_FUNC_CLASS, MKEY_FUNC_NAME, MKEY_FUNC_FILE,
        MKEY_FUNC_LINE, MKEY_URI

(* A string of a span is the start of one PHP passed, and shorter than 4 GB. *)
LEMMA StringIs ==
  ASSUME NEW s \in Strings
  PROVE  IsSequence(s) /\ 5 + Len(s) < U32
  <1>1. CASE s = << >>
    <2>1. IsSequence(<< >>) /\ Len(<< >>) = 0
      BY EmptySeq, ElementsOfSequence
    <2> QED BY <1>1, <2>1, PlaceIs
  <1>2. ASSUME NEW t \in Text, NEW n \in 0..Len(t), s = Prefix(t, n)
        PROVE  IsSequence(s) /\ 5 + Len(s) < U32
    <2>1. IsSequence(t) /\ 5 + Len(t) < U32 /\ U32 \in Nat
      BY PlaceIs, EncodeAssumption
    <2>2. IsSequence(s) /\ Len(s) = n
      BY <1>2, <2>1, PrefixIs
    <2>3. Len(t) \in Nat /\ n <= Len(t)
      BY <2>1 DEF IsSequence
    <2> QED BY <2>1, <2>2, <2>3
  <1> QED BY <1>1, <1>2 DEF Strings

LEMMA IdIs ==
  ASSUME NEW s \in Ids
  PROVE  IsSequence(s) /\ 5 + Len(s) < U32 /\ Len(s) < Place[2]
  BY EncodeAssumption DEF Ids

(* A string may be cut. *)
LEMMA PrefixIsString ==
  /\ << >> \in Strings
  /\ \A s \in Text : s \in Strings
  /\ \A s \in Strings, m \in Nat : m <= Len(s) => Prefix(s, m) \in Strings
  <1>1. \A s \in Text : IsSequence(s) /\ Len(s) \in Nat
    BY EncodeAssumption DEF IsSequence
  <1>2. ASSUME NEW s \in Text
        PROVE  s \in Strings
    <2>1. s \in Seq({s[k] : k \in 1..Len(s)})
      BY <1>1, SequenceOfElements
    <2>2. SubSeq(s, 1, Len(s)) = s
      BY <2>1, SubSeqFull
    <2>3. Prefix(s, Len(s)) = s /\ Len(s) \in 0..Len(s)
      BY <2>2, <1>1 DEF Prefix
    <2>4. s \in {Prefix(s, n) : n \in 0..Len(s)}
      BY <2>3
    <2> QED BY <2>4 DEF Strings
  <1>3. ASSUME NEW s \in Strings, NEW m \in Nat, m <= Len(s)
        PROVE  Prefix(s, m) \in Strings
    <2>1. CASE s = << >>
      <3>1. m = 0
        BY <1>3, <2>1, EmptySeq
      <3>2. Prefix(s, m) = << >>
        BY <3>1, SubSeqEmpty DEF Prefix
      <3> QED BY <3>2 DEF Strings
    <2>2. ASSUME NEW t \in Text, NEW n \in 0..Len(t), s = Prefix(t, n)
          PROVE  Prefix(s, m) \in Strings
      <3>1. Len(s) = n /\ \A j \in 0..n : Prefix(s, j) = Prefix(t, j)
        BY <1>1, <2>2, PrefixIs
      <3>2. m \in 0..n /\ m \in 0..Len(t)
        BY <1>1, <1>3, <3>1
      <3>3. Prefix(s, m) = Prefix(t, m)
        BY <3>1, <3>2
      <3> QED BY <3>2, <3>3 DEF Strings
    <2> QED BY <2>1, <2>2 DEF Strings
  <1> QED BY <1>2, <1>3 DEF Strings

(* lumbre_span_encode packs nothing the packer cannot size. *)
LEMMA ValuesOfSpan ==
  ASSUME NEW s \in Spans
  PROVE  AreValues(Values(s))
  <1>1. /\ s.type \in Types /\ s.trace_id \in Ids
        /\ s.span_id \in Uint64 /\ s.parent_id \in Uint64 /\ s.start_ns \in Uint64
        /\ s.duration_ns \in Uint64 /\ s.status_code \in Uint64 /\ s.rows_affected \in Uint64
        /\ s.func_line \in Uint64
        /\ s.url \in Strings /\ s.method \in Strings /\ s.query \in Strings
        /\ s.db_type \in Strings /\ s.cache_cmd \in Strings /\ s.cache_key \in Strings
        /\ s.func_class \in Strings /\ s.func_name \in Strings /\ s.func_file \in Strings
        /\ s.request_uri \in Strings
    BY DEF Spans, SpansWith
  <1>2. AreValues(<<MapOf(FieldCount(s.type))>>)
    <2>1. FieldCount(s.type) \in 0..10
      BY <1>1 DEF FieldCount, Types
    <2>2. IsValue(MapOf(FieldCount(s.type)))
      <3>1. IsSequence(<< >>)
        BY EmptySeq, ElementsOfSequence
      <3>2. FieldCount(s.type) \in Uint64 /\ FieldCount(s.type) <= 10
        BY <2>1, PlaceIs
      <3> QED BY <3>1, <3>2 DEF IsValue, MapOf
    <2>3. ASSUME NEW v, IsValue(v)
          PROVE  AreValues(<<v>>)
      <3>1. <<v>> \in Seq({v}) /\ Len(<<v>>) = 1 /\ <<v>>[1] = v
        OBVIOUS
      <3>2. IsSequence(<<v>>)
        BY <3>1, ElementsOfSequence
      <3>3. \A k \in 1..1 : IsValue(<<v>>[k])
        BY <2>3, <3>1
      <3> QED BY <3>1, <3>2, <3>3 DEF AreValues
    <2> QED BY <2>2, <2>3
  <1>3. AreValues(CommonFields(s))
    <2>1. TypeCode[s.type] \in Uint64
      <3>1. TypeCode[s.type] \in 0..10
        BY <1>1 DEF TypeCode, Types
      <3> QED BY <3>1, PlaceIs
    <2>2. AreValues(UintKv(MKEY_TYPE, TypeCode[s.type]))
      BY <2>1, KeysAre, UintKvIs
    <2>3. AreValues(BinKv(MKEY_TRACE_ID, s.trace_id))
      BY <1>1, KeysAre, IdIs, BinKvIs
    <2>4. /\ AreValues(UintKv(MKEY_SPAN_ID, s.span_id))
          /\ AreValues(UintKv(MKEY_PARENT_ID, s.parent_id))
          /\ AreValues(UintKv(MKEY_START_NS, s.start_ns))
          /\ AreValues(UintKv(MKEY_DURATION, s.duration_ns))
      BY <1>1, KeysAre, UintKvIs
    <2> QED BY <2>2, <2>3, <2>4, ConcatValues DEF CommonFields
  <1>4. AreValues(TypeFields(s))
    <2>1. \A key, t : IsKey(key) /\ t \in Strings => AreValues(StrKv(key, t))
      BY StringIs, StrKvIs
    <2>2. CASE s.type = "HTTP_IN"
      <3>1. AreValues(StrKv(MKEY_URI, s.request_uri)) /\ AreValues(StrKv(MKEY_METHOD, s.method))
        BY <1>1, <2>1, KeysAre
      <3> QED BY <2>2, <3>1, ConcatValues DEF TypeFields
    <2>3. CASE s.type = "HTTP_OUT"
      <3>1. /\ AreValues(StrKv(MKEY_URL, s.url)) /\ AreValues(StrKv(MKEY_METHOD, s.method))
            /\ AreValues(UintKv(MKEY_STATUS, s.status_code))
        BY <1>1, <2>1, KeysAre, UintKvIs
      <3> QED BY <2>3, <3>1, ConcatValues DEF TypeFields
    <2>4. CASE s.type = "DB"
      <3>1. /\ AreValues(StrKv(MKEY_QUERY, s.query)) /\ AreValues(StrKv(MKEY_DB_TYPE, s.db_type))
            /\ AreValues(UintKv(MKEY_ROWS, s.rows_affected))
        BY <1>1, <2>1, KeysAre, UintKvIs
      <3> QED BY <2>4, <3>1, ConcatValues DEF TypeFields
    <2>5. CASE s.type \in {"REDIS", "MEMCACHED"}
      <3>1. /\ AreValues(StrKv(MKEY_CACHE_CMD, s.cache_cmd))
            /\ AreValues(StrKv(MKEY_CACHE_KEY, s.cache_key))
        BY <1>1, <2>1, KeysAre
      <3>2. TypeFields(s) = StrKv(MKEY_CACHE_CMD, s.cache_cmd) \o StrKv(MKEY_CACHE_KEY, s.cache_key)
        BY <2>5 DEF TypeFields
      <3> QED BY <3>1, <3>2, ConcatValues
    <2>6. CASE s.type \in {"FILE_IO", "SOCKET"}
      <3>1. AreValues(StrKv(MKEY_URL, s.url))
        BY <1>1, <2>1, KeysAre
      <3>2. TypeFields(s) = StrKv(MKEY_URL, s.url)
        BY <2>6 DEF TypeFields
      <3> QED BY <3>1, <3>2
    <2>7. CASE s.type = "FUNC"
      <3>1. /\ AreValues(StrKv(MKEY_FUNC_CLASS, s.func_class))
            /\ AreValues(StrKv(MKEY_FUNC_NAME, s.func_name))
            /\ AreValues(StrKv(MKEY_FUNC_FILE, s.func_file))
            /\ AreValues(UintKv(MKEY_FUNC_LINE, s.func_line))
        BY <1>1, <2>1, KeysAre, UintKvIs
      <3> QED BY <2>7, <3>1, ConcatValues DEF TypeFields
    <2> QED BY <1>1, <2>2, <2>3, <2>4, <2>5, <2>6, <2>7 DEF Types
  <1> QED BY <1>2, <1>3, <1>4, ConcatValues DEF Values

-----------------------------------------------------------------------------
(* What a value takes. *)

(* w bytes, and with a tag before them. *)
LEMMA BigEndianIs ==
  ASSUME NEW n, NEW w \in Nat, NEW tag
  PROVE  /\ IsSequence(<<tag>> \o BigEndian(n, w))
         /\ Len(<<tag>> \o BigEndian(n, w)) = 1 + w
  <1> DEFINE b == BigEndian(n, w)
             S == {b[k] : k \in 1..w}
  <1>1. b \in [1..w -> S]
    BY DEF BigEndian
  <1>2. b \in Seq(S)
    BY <1>1, SeqDef
  <1>3. DOMAIN b = 1..w /\ DOMAIN b = 1..Len(b) /\ Len(b) \in Nat
    BY <1>1, <1>2, LenProperties
  <1>4. IsSequence(b)
    BY <1>2, ElementsOfSequence
  <1> HIDE DEF b, S
  <1>5. Len(b) = w
    BY <1>3
  <1>6. IsSequence(<<tag>>) /\ Len(<<tag>>) = 1
    <2>1. <<tag>> \in Seq({tag}) /\ Len(<<tag>>) = 1
      OBVIOUS
    <2> QED BY <2>1, ElementsOfSequence
  <1>7. IsSequence(<<tag>> \o b) /\ Len(<<tag>> \o b) = 1 + w
    BY <1>4, <1>5, <1>6, Concat
  <1> QED BY <1>7 DEF b

(* A header has at most nine bytes, that of a string or binary at most five. *)
LEMMA HeaderIs ==
  ASSUME NEW v, IsValue(v)
  PROVE  /\ IsSequence(Header(v)) /\ Len(Header(v)) \in 1..9
         /\ v.kind \in {"str", "bin"} => Len(Header(v)) <= 5
  <1>1. ASSUME NEW a, NEW b
        PROVE  /\ IsSequence(<<a>>) /\ Len(<<a>>) = 1
               /\ IsSequence(<<a, b>>) /\ Len(<<a, b>>) = 2
    <2>1. /\ <<a>> \in Seq({a}) /\ Len(<<a>>) = 1
          /\ <<a, b>> \in Seq({a, b}) /\ Len(<<a, b>>) = 2
      OBVIOUS
    <2> QED BY <2>1, ElementsOfSequence
  <1> DEFINE Long(n, tag, w) == /\ IsSequence(<<tag>> \o BigEndian(n, w))
                                /\ Len(<<tag>> \o BigEndian(n, w)) = 1 + w
  <1>2. \A n, tag : \A w \in Nat : Long(n, tag, w)
    BY BigEndianIs
  <1>3. CASE v.kind = "map"
    <2>1. ASSUME NEW n
          PROVE  IsSequence(MapHeader(n)) /\ Len(MapHeader(n)) \in {1, 3}
      <3>1. IsSequence(<< <<"fixmap", n>> >>) /\ Len(<< <<"fixmap", n>> >>) = 1
        BY <1>1
      <3>2. Long(n, <<"map16", 0>>, 2)
        BY <1>2
      <3> QED BY <3>1, <3>2 DEF MapHeader
    <2>2. Header(v) = MapHeader(v.n)
      BY <1>3 DEF Header
    <2>3. IsSequence(Header(v)) /\ Len(Header(v)) \in {1, 3}
      BY <2>1, <2>2
    <2>4. \A len \in {1, 3} : len \in 1..9 /\ len <= 5
      OBVIOUS
    <2> QED BY <2>3, <2>4
  <1>4. CASE v.kind = "uint"
    <2>1. Width(v.n) \in {0, 1, 2, 4, 8}
      BY EncodeAssumption DEF Width
    <2>2. IsSequence(UintBytes(v.n)) /\ Len(UintBytes(v.n)) \in 1..9
      <3>1. IsSequence(<< <<"fixint", v.n>> >>) /\ Len(<< <<"fixint", v.n>> >>) = 1
        BY <1>1
      <3>2. Long(v.n, <<"uint", Width(v.n)>>, Width(v.n))
        BY <1>2, <2>1
      <3> QED BY <2>1, <3>1, <3>2 DEF UintBytes
    <2>3. Header(v) = UintBytes(v.n)
      BY <1>4 DEF Header
    <2>4. IsSequence(Header(v)) /\ Len(Header(v)) \in 1..9
      BY <2>2, <2>3
    <2> QED BY <1>4, <2>4
  <1>5. CASE v.kind = "str"
    <2>1. ASSUME NEW n
          PROVE  IsSequence(StrHeader(n)) /\ Len(StrHeader(n)) \in {1, 3, 5}
      <3>1. IsSequence(<< <<"fixstr", n>> >>) /\ Len(<< <<"fixstr", n>> >>) = 1
        BY <1>1
      <3>2. Long(n, <<"str16", 0>>, 2) /\ Long(n, <<"str32", 0>>, 4)
        BY <1>2
      <3> QED BY <3>1, <3>2 DEF StrHeader
    <2>2. Header(v) = StrHeader(Len(v.s))
      BY <1>5 DEF Header
    <2>3. IsSequence(Header(v)) /\ Len(Header(v)) \in {1, 3, 5}
      BY <2>1, <2>2
    <2>4. \A len \in {1, 3, 5} : len \in 1..9 /\ len <= 5
      OBVIOUS
    <2> QED BY <2>3, <2>4
  <1>6. CASE v.kind = "bin"
    <2>1. ASSUME NEW n
          PROVE  IsSequence(BinHeader(n)) /\ Len(BinHeader(n)) \in {2, 3}
      <3>1. /\ IsSequence(<< <<"bin8", 0>>, Digit(n) >>)
            /\ Len(<< <<"bin8", 0>>, Digit(n) >>) = 2
        BY <1>1
      <3>2. Long(n, <<"bin16", 0>>, 2)
        BY <1>2
      <3> QED BY <3>1, <3>2 DEF BinHeader
    <2>2. Header(v) = BinHeader(Len(v.s))
      BY <1>6 DEF Header
    <2>3. IsSequence(Header(v)) /\ Len(Header(v)) \in {2, 3}
      BY <2>1, <2>2
    <2>4. \A len \in {2, 3} : len \in 1..9 /\ len <= 5
      OBVIOUS
    <2> QED BY <2>3, <2>4
  <1> QED BY <1>3, <1>4, <1>5, <1>6 DEF IsValue

(* What passes the space check is as long as header and body, as their sum does *)
(* not wrap by EncodeAssumption.                                                *)
LEMMA PackedIs ==
  ASSUME NEW v, IsValue(v)
  PROVE  /\ IsSequence(Packed(v)) /\ Len(Packed(v)) \in Nat
         /\ U32Add(Len(Header(v)), Len(v.s)) = Len(Packed(v))
         /\ v.kind = "bin" => Len(v.s) < Place[2]
  <1>1. /\ IsSequence(Header(v)) /\ Len(Header(v)) \in 1..9
        /\ v.kind \in {"str", "bin"} => Len(Header(v)) <= 5
    BY HeaderIs
  <1>2. IsSequence(v.s) /\ Len(v.s) \in Nat
    BY DEF IsValue, IsSequence
  <1>3. IsSequence(Packed(v)) /\ Len(Packed(v)) = Len(Header(v)) + Len(v.s)
    BY <1>1, <1>2, Concat DEF Packed
  <1>4. Len(Header(v)) + Len(v.s) < U32
    <2>1. CASE v.kind \in {"map", "uint"}
      <3>1. Len(v.s) = 0
        BY <2>1, EmptySeq DEF IsValue
      <3>2. Len(Header(v)) <= 9 /\ Len(Header(v)) \in Nat
        <4>1. \A len \in 1..9 : len <= 9 /\ len \in Nat
          OBVIOUS
        <4> QED BY <1>1, <4>1
      <3> QED BY <3>1, <3>2, PlaceIs
    <2>2. CASE v.kind \in {"str", "bin"}
      <3>1. 5 + Len(v.s) < U32
        BY <2>2 DEF IsValue
      <3>2. Len(Header(v)) <= 5 /\ Len(Header(v)) \in Nat
        BY <1>1, <2>2
      <3>3. U32 \in Nat
        BY PlaceIs
      <3> QED BY <1>2, <3>1, <3>2, <3>3
    <2> QED BY <2>1, <2>2 DEF IsValue
  <1>5. U32Add(Len(Header(v)), Len(v.s)) = Len(Packed(v))
    BY <1>3, <1>4 DEF U32Add
  <1> QED BY <1>1, <1>2, <1>3, <1>5 DEF IsValue

-----------------------------------------------------------------------------
(* The sizes of the first values of a list. *)

(* A set of natural numbers has a least element. *)
LEMMA LeastExists ==
  ASSUME NEW S \in SUBSET Nat, S # {}
  PROVE  \E n \in S : \A m \in S : n <= m
  <1>1. PICK n \in S : \A m \in S : ~(<<m, n>> \in OpToRel(<, Nat))
    BY NatLessThanWellFounded, WFMin
  <1>2. \A m \in S : ~(m < n)
    BY <1>1 DEF OpToRel
  <1> QED BY <1>2

(* There are sizes, so that CHOOSE finds them. *)
LEMMA SizesExist ==
  ASSUME NEW vs, AreValues(vs)
  PROVE  \A n \in 0..Len(vs) :
           \E f : f = [k \in 0..n |-> IF k = 0 THEN 0 ELSE f[k - 1] + Len(Packed(vs[k]))]
  <1> DEFINE IsSizes(f, n) ==
        f = [k \in 0..n |-> IF k = 0 THEN 0 ELSE f[k - 1] + Len(Packed(vs[k]))]
             Bad == {n \in 0..Len(vs) : ~\E f : IsSizes(f, n)}
  <1>1. Len(vs) \in Nat
    BY DEF AreValues, IsSequence
  <1>2. SUFFICES ASSUME Bad # {}
                 PROVE  FALSE
    OBVIOUS
  <1>3. PICK n \in Bad : \A m \in Bad : n <= m
    <2>1. Bad \in SUBSET Nat
      BY <1>1
    <2> HIDE DEF Bad
    <2> QED BY <1>2, <2>1, LeastExists
  <1>4. n \in 0..Len(vs) /\ ~\E f : IsSizes(f, n)
    OBVIOUS
  <1>5. n # 0
    <2>1. IsSizes([k \in 0..0 |-> 0], 0)
      OBVIOUS
    <2> QED BY <1>4, <2>1
  <1>6. n \in Nat /\ n - 1 \in 0..Len(vs) /\ n - 1 \in Nat
    BY <1>1, <1>4, <1>5
  <1>7. PICK f : IsSizes(f, n - 1)
    <2>1. n - 1 \notin Bad
      <3>1. ~(n <= n - 1)
        BY <1>6
      <3> HIDE DEF Bad
      <3> QED BY <1>3, <3>1
    <2> QED BY <2>1, <1>6
  <1> DEFINE g == [k \in 0..n |-> IF k = n THEN f[n - 1] + Len(Packed(vs[n])) ELSE f[k]]
  <1>8. IsSizes(g, n)
    <2>1. ASSUME NEW k \in 0..n
          PROVE  g[k] = IF k = 0 THEN 0 ELSE g[k - 1] + Len(Packed(vs[k]))
      <3>1. CASE k = n
        <4>1. n - 1 \in 0..n /\ n - 1 # n
          BY <1>6
        <4>2. g[n - 1] = f[n - 1]
          BY <4>1
        <4> QED BY <3>1, <4>2, <1>5
      <3>2. CASE k # n
        <4>1. k \in 0..(n - 1) /\ (k # 0 => k - 1 \in 0..n /\ k - 1 # n)
          BY <1>6, <3>2
        <4>2. f[k] = IF k = 0 THEN 0 ELSE f[k - 1] + Len(Packed(vs[k]))
          BY <1>7, <4>1
        <4>3. g[k] = f[k] /\ (k # 0 => g[k - 1] = f[k - 1])
          BY <3>2, <4>1
        <4> QED BY <4>2, <4>3
      <3> QED BY <3>1, <3>2
    <2>2. g = [k \in 0..n |-> g[k]]
      OBVIOUS
    <2> HIDE DEF g
    <2> QED BY <2>1, <2>2
  <1> QED BY <1>4, <1>8

(* Every value adds its own size, and none takes from it. *)
LEMMA SizesAre ==
  ASSUME NEW vs, AreValues(vs)
  PROVE  /\ Sizes(vs)[0] = 0
         /\ \A k \in 1..Len(vs) : Sizes(vs)[k] = Sizes(vs)[k - 1] + Len(Packed(vs[k]))
         /\ \A k \in 0..Len(vs) : Sizes(vs)[k] \in Nat
         /\ \A k \in 0..Len(vs) : Sizes(vs)[k] <= Sizes(vs)[Len(vs)]
  <1>1. Len(vs) \in Nat /\ \A k \in 1..Len(vs) : Len(Packed(vs[k])) \in Nat
    BY PackedIs DEF AreValues, IsSequence
  <1>2. PICK f : f = [k \in 0..Len(vs) |-> IF k = 0 THEN 0 ELSE f[k - 1] + Len(Packed(vs[k]))]
    BY <1>1, SizesExist
  <1> DEFINE g == Sizes(vs)
  <1>3. g = [k \in 0..Len(vs) |-> IF k = 0 THEN 0 ELSE g[k - 1] + Len(Packed(vs[k]))]
    BY <1>2 DEF Sizes
  <1> HIDE DEF g
  <1>4. g[0] = 0 /\ \A k \in 1..Len(vs) : g[k] = g[k - 1] + Len(Packed(vs[k]))
    BY <1>1, <1>3
  <1>5. \A k \in 0..Len(vs) : g[k] \in Nat
    <2> DEFINE Bad == {k \in 0..Len(vs) : g[k] \notin Nat}
    <2> SUFFICES ASSUME Bad # {}
                 PROVE  FALSE
      OBVIOUS
    <2>1. PICK n \in Bad : \A m \in Bad : n <= m
      <3>1. Bad \in SUBSET Nat
        BY <1>1
      <3> HIDE DEF Bad
      <3> QED BY <3>1, LeastExists
    <2>2. n \in 1..Len(vs) /\ n - 1 \in 0..Len(vs) /\ n - 1 < n
      BY <1>1, <1>4
    <2>3. g[n - 1] \in Nat
      BY <2>1, <2>2, <1>1
    <2>4. g[n] \in Nat
      BY <2>2, <2>3, <1>1, <1>4
    <2> QED BY <2>4
  <1>6. \A k \in 0..Len(vs) : g[k] <= g[Len(vs)]
    <2> DEFINE Bad == {d \in 0..Len(vs) : ~(g[Len(vs) - d] <= g[Len(vs)])}
    <2>1. ASSUME Bad # {}
          PROVE  FALSE
      <3>1. PICK d \in Bad : \A e \in Bad : d <= e
        <4>1. Bad \in SUBSET Nat
          BY <1>1
        <4> HIDE DEF Bad
        <4> QED BY <2>1, <4>1, LeastExists
      <3>2. d # 0
        BY <1>1, <1>5
      <3>3. d \in Nat /\ d - 1 \in 0..Len(vs) /\ d - 1 < d
        BY <1>1, <3>2
      <3>4. g[Len(vs) - (d - 1)] <= g[Len(vs)]
        BY <3>1, <3>3
      <3>5. /\ Len(vs) - (d - 1) \in 1..Len(vs)
            /\ Len(vs) - (d - 1) - 1 = Len(vs) - d
            /\ Len(vs) - d \in 0..Len(vs)
        BY <1>1, <3>2
      <3>6. g[Len(vs) - (d - 1)] = g[Len(vs) - d] + Len(Packed(vs[Len(vs) - (d - 1)]))
        BY <1>4, <3>5
      <3>7. g[Len(vs) - d] \in Nat /\ Len(Packed(vs[Len(vs) - (d - 1)])) \in Nat
              /\ g[Len(vs)] \in Nat
        BY <1>1, <1>5, <3>5
      <3> QED BY <3>4, <3>6, <3>7
    <2>2. ASSUME NEW k \in 0..Len(vs)
          PROVE  g[k] <= g[Len(vs)]
      <3>1. Len(vs) - k \in 0..Len(vs) /\ Len(vs) - (Len(vs) - k) = k
        BY <1>1
      <3> QED BY <2>1, <3>1
    <2> QED BY <2>2
  <1> QED BY <1>4, <1>5, <1>6 DEF g

-----------------------------------------------------------------------------
(* The invariant EncodeInv. *)

LEMMA InitHolds == Init => EncodeInv
  <1> SUFFICES ASSUME Init
               PROVE  EncodeInv
    OBVIOUS
  <1>1. max_query_len \in 0..(U32 - 1)
    <2>1. PICK n \in MaxQueryLens : max_query_len = AsUint32(n)
      BY DEF Init
    <2>2. n \in Int /\ -U32 <= n /\ n < U32 /\ U32 \in Nat
      BY PlaceIs, EncodeAssumption
    <2> QED BY <2>1, <2>2 DEF AsUint32
  <1>2. IsSequence(buf) /\ Len(buf) = 0
    BY EmptySeq, ElementsOfSequence DEF Init
  <1>3. TypeOK
    BY <1>1, <1>2, EncodeAssumption DEF Init, TypeOK, ZeroSpan, Types
  <1> QED BY <1>2, <1>3 DEF Init, EncodeInv, LostOnlyIfTooLarge

(* What a hook fills in before the stamps. *)
Drafts == SpansWith({<< >>})

LEMMA ZeroIsDraft == ZeroSpan \in Drafts
  <1>1. 0 \in Uint64 /\ "HTTP_IN" \in Types
    BY PlaceIs DEF Types
  <1> QED BY <1>1, PrefixIsString DEF ZeroSpan, Drafts, SpansWith

(* lumbre_span_start: a draft that is stamped is a span. *)
LEMMA StartKeeps ==
  ASSUME EncodeInv, NEW s \in Drafts, NEW statement, Start(s, statement)
  PROVE  EncodeInv'
  <1>1. PICK stamp \in Stamps :
          span' = [s EXCEPT !.trace_id = stamp.trace_id, !.span_id = stamp.span_id,
                            !.parent_id = stamp.parent_id, !.start_ns = stamp.start_ns]
    BY DEF Start
  <1>2. stamp.trace_id \in Ids /\ stamp.span_id \in Uint64 /\ stamp.parent_id \in Uint64
          /\ stamp.start_ns \in Uint64
    BY EncodeAssumption DEF Ids
  <1>3. span' \in Spans
    BY <1>1, <1>2 DEF Drafts, Spans, SpansWith
  <1>4. span'.type \in Types
    BY <1>3 DEF Spans, SpansWith
  <1>5. /\ phase' = "call" /\ spans' = spans + 1 /\ spans < MaxSpans
        /\ UNCHANGED <<max_query_len, buf, todo>>
    BY DEF Start
  <1>6. TypeOK'
    BY <1>4, <1>5, EncodeAssumption DEF EncodeInv, TypeOK
  <1> QED BY <1>3, <1>5, <1>6 DEF EncodeInv, LostOnlyIfTooLarge

(* Each hook fills in a draft. *)
LEMMA HooksKeep ==
  ASSUME EncodeInv
  PROVE  /\ \A s, t \in Text :
              /\ StartHttpIn(s, t) => EncodeInv'
              /\ StartDb(s, t) => EncodeInv'
              /\ \A type \in {"REDIS", "MEMCACHED"} : StartCache(type, s, t) => EncodeInv'
              /\ \A u \in Text, line \in Number : StartFunc(s, t, u, line) => EncodeInv'
         /\ \A s \in Text : StartFile(s) => EncodeInv'
         /\ \A type \in {"HTTP_OUT", "SOCKET", "DB", "FILE_IO"} : StartBare(type) => EncodeInv'
  <1>1. \A type \in Types : [ZeroSpan EXCEPT !.type = type] \in Drafts
    BY ZeroIsDraft DEF Drafts, SpansWith
  <1>2. ASSUME NEW s \in Text, NEW t \in Text
        PROVE  /\ StartHttpIn(s, t) => EncodeInv'
               /\ StartDb(s, t) => EncodeInv'
               /\ \A type \in {"REDIS", "MEMCACHED"} : StartCache(type, s, t) => EncodeInv'
               /\ \A u \in Text, line \in Number : StartFunc(s, t, u, line) => EncodeInv'
    <2>1. s \in Strings /\ t \in Strings /\ IsSequence(s) /\ Len(s) \in Nat
      BY PrefixIsString, EncodeAssumption DEF IsSequence
    <2>2. [ZeroSpan EXCEPT !.type = "HTTP_IN", !.request_uri = s, !.method = t] \in Drafts
      BY <2>1, ZeroIsDraft DEF Drafts, SpansWith, Types
    <2>3. SetDb([ZeroSpan EXCEPT !.type = "DB"], s, t) \in Drafts
      <3>1. [ZeroSpan EXCEPT !.type = "DB"] \in Drafts
        BY <1>1 DEF Types
      <3>2. (IF Len(s) > max_query_len THEN Prefix(s, max_query_len) ELSE s) \in Strings
        <4>1. max_query_len \in Nat
          BY EncodeAssumption DEF EncodeInv, TypeOK
        <4>2. Len(s) > max_query_len => max_query_len <= Len(s)
          BY <4>1, <2>1
        <4> QED BY <4>1, <4>2, <2>1, PrefixIsString
      <3>3. 0 \in Uint64
        BY PlaceIs
      <3> HIDE DEF Strings
      <3> QED BY <2>1, <3>1, <3>2, <3>3 DEF SetDb, Drafts, SpansWith
    <2>4. \A type \in {"REDIS", "MEMCACHED"} :
            [ZeroSpan EXCEPT !.type = type, !.cache_cmd = s, !.cache_key = t] \in Drafts
      BY <2>1, ZeroIsDraft DEF Drafts, SpansWith, Types
    <2>5. \A u \in Text, line \in Number :
            [ZeroSpan EXCEPT !.type = "FUNC", !.func_class = s, !.func_name = t,
                             !.func_file = u, !.func_line = line] \in Drafts
      <3>1. \A u \in Text, line \in Number : u \in Strings /\ line \in Uint64
        BY PrefixIsString, EncodeAssumption
      <3> QED BY <2>1, <3>1, ZeroIsDraft DEF Drafts, SpansWith, Types
    <2>6. StartHttpIn(s, t) => EncodeInv'
      BY <2>2, StartKeeps DEF StartHttpIn
    <2>7. StartDb(s, t) => EncodeInv'
      BY <2>3, StartKeeps DEF StartDb
    <2>8. \A type \in {"REDIS", "MEMCACHED"} : StartCache(type, s, t) => EncodeInv'
      BY <2>4, StartKeeps DEF StartCache
    <2>9. \A u \in Text, line \in Number : StartFunc(s, t, u, line) => EncodeInv'
      BY <2>5, StartKeeps DEF StartFunc
    <2> QED BY <2>6, <2>7, <2>8, <2>9
  <1>3. ASSUME NEW s \in Text, StartFile(s)
        PROVE  EncodeInv'
    <2>1. [ZeroSpan EXCEPT !.type = "FILE_IO", !.url = s] \in Drafts
      BY PrefixIsString, ZeroIsDraft DEF Drafts, SpansWith, Types
    <2> QED BY <1>3, <2>1, StartKeeps DEF StartFile
  <1>4. ASSUME NEW type \in {"HTTP_OUT", "SOCKET", "DB", "FILE_IO"}, StartBare(type)
        PROVE  EncodeInv'
    <2>1. [ZeroSpan EXCEPT !.type = type] \in Drafts
      BY <1>1 DEF Types
    <2> QED BY <1>4, <2>1, StartKeeps DEF StartBare
  <1> QED BY <1>2, <1>3, <1>4

(* lumbre_span_finish cuts the statement, empties the buffer and sets out to *)
(* pack every value.                                                         *)
LEMMA FinishKeeps ==
  ASSUME EncodeInv, NEW duration \in Number, Finish(duration)
  PROVE  EncodeInv'
  <1> DEFINE ended == [span EXCEPT !.duration_ns = duration]
  <1>1. span \in Spans /\ duration \in Uint64
    BY EncodeAssumption DEF EncodeInv, Finish
  <1>2. ended \in Spans
    BY <1>1 DEF Spans, SpansWith
  <1> HIDE DEF ended
  <1>3. Truncated(ended) \in Spans
    <2>1. CASE ended.type = "DB" /\ max_query_len > 0 /\ Len(ended.query) > max_query_len
      <3>1. ended.query \in Strings
        BY <1>2 DEF Spans, SpansWith
      <3>2. max_query_len \in Nat /\ Len(ended.query) \in Nat
        BY <3>1, StringIs, EncodeAssumption DEF EncodeInv, TypeOK, IsSequence
      <3>3. Prefix(ended.query, max_query_len) \in Strings
        BY <2>1, <3>1, <3>2, PrefixIsString
      <3>4. [ended EXCEPT !.query = Prefix(ended.query, max_query_len)] \in Spans
        BY <1>2, <3>3 DEF Spans, SpansWith
      <3>5. Truncated(ended) = [ended EXCEPT !.query = Prefix(ended.query, max_query_len)]
        BY <2>1 DEF Truncated
      <3> QED BY <3>4, <3>5
    <2>2. CASE ~(ended.type = "DB" /\ max_query_len > 0 /\ Len(ended.query) > max_query_len)
      BY <1>2, <2>2 DEF Truncated
    <2> QED BY <2>1, <2>2
  <1>4. span' = Truncated(ended) /\ span' \in Spans
    BY <1>3 DEF Finish, ended
  <1>5. /\ buf' = << >> /\ phase' = "encode" /\ todo' = Values(span')
        /\ UNCHANGED <<max_query_len, sql, spans>>
    BY DEF Finish
  <1>6. IsSequence(buf') /\ Len(buf') = 0
    BY <1>5, EmptySeq, ElementsOfSequence
  <1>7. TypeOK'
    <2>1. span'.type \in Types
      BY <1>4 DEF Spans, SpansWith
    <2> QED BY <1>5, <1>6, <2>1, EncodeAssumption DEF EncodeInv, TypeOK
  <1>8. BufferHolds'
    <2> DEFINE vs == Values(span')
    <2>1. AreValues(vs)
      BY <1>4, ValuesOfSpan
    <2> HIDE DEF vs
    <2>2. Sizes(vs)[0] = 0
      BY <2>1, SizesAre
    <2>3. vs \in Seq({vs[k] : k \in 1..Len(vs)}) /\ Len(vs) \in Nat
      BY <2>1, SequenceOfElements DEF AreValues, IsSequence
    <2>4. SubSeq(vs, 1, Len(vs)) = vs
      BY <2>3, SubSeqFull
    <2>5. todo' = vs /\ Len(vs) - Len(todo') = 0 /\ Len(todo') <= Len(vs) /\ 0 + 1 = 1
      BY <1>5, <2>3 DEF vs
    <2>6. todo' = SubSeq(vs, (Len(vs) - Len(todo')) + 1, Len(vs))
            /\ Len(buf') = Sizes(vs)[Len(vs) - Len(todo')]
      BY <2>2, <2>4, <2>5, <1>6
    <2> QED BY <2>5, <2>6 DEF BufferHolds, vs
  <1> QED BY <1>4, <1>5, <1>6, <1>7, <1>8 DEF EncodeInv, LostOnlyIfTooLarge

(* While a record is packed, the next value is the one after the packed ones. *)
LEMMA NextValue ==
  ASSUME EncodeInv, phase = "encode", todo # << >>
  PROVE  LET vs == Values(span)
             k  == Len(vs) - Len(todo)
         IN /\ AreValues(vs) /\ k + 1 \in 1..Len(vs) /\ Head(todo) = vs[k + 1]
            /\ Len(buf) = Sizes(vs)[k] /\ Tail(todo) = SubSeq(vs, k + 2, Len(vs))
            /\ Len(Tail(todo)) = Len(vs) - (k + 1) /\ k \in Nat
  <1> DEFINE vs == Values(span)
             k  == Len(vs) - Len(todo)
             S  == {vs[i] : i \in 1..Len(vs)}
  <1>1. AreValues(vs)
    BY ValuesOfSpan DEF EncodeInv
  <1>2. /\ Len(todo) <= Len(vs) /\ todo = SubSeq(vs, k + 1, Len(vs))
        /\ Len(buf) = Sizes(vs)[k]
    BY DEF EncodeInv, BufferHolds
  <1> HIDE DEF vs
  <1>3. vs \in Seq(S) /\ Len(vs) \in Nat /\ \A i \in 1..Len(vs) : vs[i] \in S
    BY <1>1, SequenceOfElements DEF AreValues, IsSequence
  <1>4. Len(todo) \in Nat /\ todo \in Seq(S)
    <2>1. CASE k + 1 \in Nat \ {0}
      <3>1. k + 1 \in Int /\ Len(vs) \in Int /\ \A i \in (k + 1)..Len(vs) : vs[i] \in S
        BY <1>3, <2>1
      <3> HIDE DEF k, S
      <3>2. SubSeq(vs, k + 1, Len(vs)) \in Seq(S)
        BY <3>1, SubSeqProperties
      <3> QED BY <1>2, <3>2, LenProperties
    <2>2. CASE ~(k + 1 \in Nat \ {0})
      BY <1>2, <1>3, <2>2
    <2> QED BY <2>1, <2>2
  <1>5. Len(todo) # 0
    BY <1>4, EmptySeq
  <1>6. k \in Nat /\ k + 1 \in 1..Len(vs)
    BY <1>2, <1>3, <1>4, <1>5
  <1>7. Head(todo) = vs[k + 1] /\ Tail(todo) = SubSeq(vs, (k + 1) + 1, Len(vs))
    <2>1. Len(vs) \in (k + 1)..Len(vs)
      BY <1>3, <1>6
    <2> HIDE DEF k, S
    <2> QED BY <1>2, <1>3, <1>6, <2>1, HeadTailOfSubSeq
  <1>8. Len(Tail(todo)) = Len(todo) - 1
    BY <1>4, HeadTailProperties
  <1>9. Len(Tail(todo)) = Len(vs) - (k + 1) /\ (k + 1) + 1 = k + 2
    BY <1>3, <1>4, <1>6, <1>8
  <1> QED BY <1>1, <1>2, <1>6, <1>7, <1>9 DEF vs

(* A value that fits is packed behind those before it. *)
LEMMA PackKeeps ==
  ASSUME EncodeInv, Pack
  PROVE  EncodeInv'
  <1> DEFINE vs == Values(span)
             k  == Len(vs) - Len(todo)
             v  == Head(todo)
  <1>1. /\ AreValues(vs) /\ k + 1 \in 1..Len(vs) /\ v = vs[k + 1]
        /\ Len(buf) = Sizes(vs)[k] /\ Tail(todo) = SubSeq(vs, k + 2, Len(vs))
        /\ Len(Tail(todo)) = Len(vs) - (k + 1) /\ k \in Nat
    BY NextValue DEF Pack
  <1>2. /\ Fits(v) /\ buf' = buf \o Packed(v) /\ todo' = Tail(todo) /\ phase' = "encode"
        /\ span' = span /\ UNCHANGED <<max_query_len, sql, spans>>
    BY DEF Pack
  <1> HIDE DEF vs, k, v
  <1>3. IsValue(v)
    BY <1>1 DEF AreValues
  <1>4. /\ IsSequence(Packed(v)) /\ Len(Packed(v)) \in Nat
        /\ U32Add(Len(Header(v)), Len(v.s)) = Len(Packed(v))
    BY <1>3, PackedIs
  <1>5. IsSequence(buf') /\ Len(buf') = Len(buf) + Len(Packed(v))
    <2>1. IsSequence(buf)
      BY DEF EncodeInv
    <2> QED BY <1>2, <1>4, <2>1, Concat
  <1>6. Len(buf') <= Capacity
    BY <1>2, <1>4, <1>5 DEF Fits
  <1>7. TypeOK'
    BY <1>2, <1>6 DEF EncodeInv, TypeOK
  <1>8. BufferHolds'
    <2>1. Len(vs) \in Nat
      BY <1>1 DEF AreValues, IsSequence
    <2>2. (k + 1) - 1 = k
      BY <1>1
    <2>3. Sizes(vs)[k + 1] = Sizes(vs)[k] + Len(Packed(v))
      BY <1>1, <2>2, SizesAre
    <2>4. /\ Len(vs) - Len(todo') = k + 1 /\ Len(todo') <= Len(vs) /\ (k + 1) + 1 = k + 2
      <3>1. Len(todo') = Len(vs) - (k + 1) /\ k \in Nat /\ k + 1 <= Len(vs)
        BY <1>1, <1>2
      <3> HIDE DEF k
      <3> QED BY <2>1, <3>1
    <2>5. /\ todo' = SubSeq(vs, (Len(vs) - Len(todo')) + 1, Len(vs))
          /\ Len(buf') = Sizes(vs)[Len(vs) - Len(todo')]
      BY <1>1, <1>2, <1>5, <2>3, <2>4
    <2>6. Values(span') = vs
      BY <1>2 DEF vs
    <2> QED BY <2>4, <2>5, <2>6 DEF BufferHolds
  <1> QED BY <1>2, <1>5, <1>7, <1>8 DEF EncodeInv, LostOnlyIfTooLarge, Pack

(* If a value does not fit, the whole record would not. *)
LEMMA OverflowKeeps ==
  ASSUME EncodeInv, Overflow
  PROVE  EncodeInv'
  <1> DEFINE vs == Values(span)
             k  == Len(vs) - Len(todo)
             v  == Head(todo)
  <1>1. /\ AreValues(vs) /\ k + 1 \in 1..Len(vs) /\ v = vs[k + 1]
        /\ Len(buf) = Sizes(vs)[k] /\ k \in Nat
    BY NextValue DEF Overflow
  <1>2. /\ ~Fits(v) /\ phase' = "failed"
        /\ span' = span /\ UNCHANGED <<max_query_len, buf, sql, spans>>
    BY DEF Overflow
  <1>3. RecordSize(span) = Sizes(vs)[Len(vs)]
    BY DEF RecordSize
  <1> HIDE DEF vs, k, v
  <1>4. IsValue(v)
    BY <1>1 DEF AreValues
  <1>5. ~(Len(buf) + Len(Packed(v)) <= Capacity)
    BY <1>2, <1>4, PackedIs DEF Fits
  <1>6. Sizes(vs)[k + 1] = Sizes(vs)[k] + Len(Packed(v))
    <2>1. (k + 1) - 1 = k
      BY <1>1
    <2> QED BY <1>1, <2>1, SizesAre
  <1>7. /\ Sizes(vs)[k + 1] <= Sizes(vs)[Len(vs)]
        /\ Sizes(vs)[k + 1] \in Nat /\ Sizes(vs)[Len(vs)] \in Nat
    <2>1. k + 1 \in 0..Len(vs) /\ Len(vs) \in 0..Len(vs)
      BY <1>1 DEF AreValues, IsSequence
    <2> QED BY <1>1, <2>1, SizesAre
  <1>8. RecordSize(span) > Capacity
    BY <1>1, <1>3, <1>5, <1>6, <1>7, EncodeAssumption
  <1>9. RecordSize(span') > Capacity
    BY <1>2, <1>8
  <1>10. TypeOK'
    BY <1>2 DEF EncodeInv, TypeOK
  <1>11. phase # "idle"
    BY DEF Overflow
  <1> QED BY <1>2, <1>9, <1>10, <1>11 DEF EncodeInv, LostOnlyIfTooLarge

(* A record that is written was packed as a whole. *)
LEMMA WriteKeeps ==
  ASSUME EncodeInv, Write
  PROVE  EncodeInv'
  <1> DEFINE vs == Values(span)
  <1>1. AreValues(vs)
    BY ValuesOfSpan DEF EncodeInv, Write
  <1>2. Len(buf) = Sizes(vs)[Len(vs) - Len(todo)] /\ Len(todo) = 0
    BY EmptySeq DEF EncodeInv, BufferHolds, Write
  <1>3. RecordSize(span) = Sizes(vs)[Len(vs)]
    BY DEF RecordSize
  <1> HIDE DEF vs
  <1>4. Len(vs) - Len(todo) = Len(vs)
    BY <1>1, <1>2 DEF AreValues, IsSequence
  <1>5. RecordSize(span) <= Capacity
    BY <1>2, <1>3, <1>4 DEF EncodeInv, TypeOK
  <1>6. /\ phase' = "written" /\ phase # "idle" /\ span' = span
        /\ UNCHANGED <<max_query_len, buf, sql, spans>>
    BY DEF Write
  <1>7. RecordSize(span') <= Capacity
    BY <1>5, <1>6
  <1>8. TypeOK'
    BY <1>6 DEF EncodeInv, TypeOK
  <1> QED BY <1>6, <1>7, <1>8 DEF EncodeInv, LostOnlyIfTooLarge

LEMMA EncodeStep == EncodeInv /\ [Next]_vars => EncodeInv'
  <1> SUFFICES ASSUME EncodeInv, [Next]_vars
               PROVE  EncodeInv'
    OBVIOUS
  <1>1. CASE UNCHANGED vars
    <2>1. /\ span' = span /\ buf' = buf /\ todo' = todo /\ phase' = phase
          /\ max_query_len' = max_query_len /\ spans' = spans
      BY <1>1 DEF vars
    <2>2. BufferHolds => BufferHolds'
      BY <2>1 DEF BufferHolds
    <2>3. LostOnlyIfTooLarge => LostOnlyIfTooLarge'
      BY <2>1 DEF LostOnlyIfTooLarge
    <2> QED BY <2>1, <2>2, <2>3 DEF EncodeInv, TypeOK
  <1>2. CASE \E s, t \in Text :
               \/ StartHttpIn(s, t) \/ StartDb(s, t)
               \/ \E type \in {"REDIS", "MEMCACHED"} : StartCache(type, s, t)
               \/ \E u \in Text, line \in Number : StartFunc(s, t, u, line)
    BY <1>2, HooksKeep
  <1>3. CASE \E s \in Text : StartFile(s)
    BY <1>3, HooksKeep
  <1>4. CASE \E type \in {"HTTP_OUT", "SOCKET", "DB", "FILE_IO"} : StartBare(type)
    BY <1>4, HooksKeep
  <1>5. CASE \E duration \in Number : Finish(duration)
    BY <1>5, FinishKeeps
  <1>6. CASE Pack
    BY <1>6, PackKeeps
  <1>7. CASE Overflow
    BY <1>7, OverflowKeeps
  <1>8. CASE Write
    BY <1>8, WriteKeeps
  <1> QED BY <1>1, <1>2, <1>3, <1>4, <1>5, <1>6, <1>7, <1>8 DEF Next

(* What the buffer holds is always what was packed of the span, whichever    *)
(* spans the worker encoded and lost before (lumbre_msgpack.c:20,            *)
(* lumbre_span.c:109-231).                                                   *)
THEOREM EncodeInvariant == Spec => []EncodeInv
  <1> QED BY InitHolds, EncodeStep, PTL DEF Spec

(* The variables have their types: the position in the buffer stays within *)
(* it, wherever a record overflows (lumbre_msgpack.c:20).  That the size of *)
(* a string and its header fit a uint32_t is assumed (EncodeAssumption).    *)
THEOREM EncodeTypes == Spec => []TypeOK
  <1>1. EncodeInv => TypeOK
    BY DEF EncodeInv
  <1> QED BY <1>1, EncodeInvariant, PTL

(* A record is lost exactly when the whole of it is larger than the buffer *)
(* (lumbre_msgpack.c:20, lumbre_span.c:231).                               *)
THEOREM LostOnlyIfTooLargeAlways == Spec => []LostOnlyIfTooLarge
  <1>1. EncodeInv => LostOnlyIfTooLarge
    BY DEF EncodeInv
  <1> QED BY <1>1, EncodeInvariant, PTL
=============================================================================
