------------------------ MODULE LumbreCapacityProofs ------------------------
(***************************************************************************)
(* lumbre_next_power_of_2 returns the least power of two that is no less   *)
(* than its argument, or 0 when a uint32_t holds none, and so is the       *)
(* capacity of every ring.                                                 *)
(***************************************************************************)
EXTENDS LumbreModuleProofs, FiniteSetTheorems, WellFoundedInduction

-----------------------------------------------------------------------------
(* Powers of two. *)

(* A set of naturals that is not empty has a least element. *)
LEMMA LeastExists ==
  ASSUME NEW S \in SUBSET Nat, S # {}
  PROVE  \E n \in S : \A m \in S : n <= m
  <1>1. PICK n \in S : \A m \in S : ~(<<m, n>> \in OpToRel(<, Nat))
    BY NatLessThanWellFounded, WFMin
  <1>2. \A m \in S : ~(m < n)
    BY <1>1 DEF OpToRel
  <1> QED BY <1>2

(* A power of two counts the subsets of a set, which doubles with an element. *)
LEMMA PowerOf2 ==
  ASSUME NEW k \in Nat
  PROVE  2^k \in Nat /\ 2^(k + 1) = 2 * 2^k
  <1> DEFINE S == 1..k
             T == 1..(k + 1)
             x == k + 1
             With == {A \cup {x} : A \in SUBSET S}
  <1>1. /\ IsFiniteSet(S) /\ Cardinality(S) = k
        /\ IsFiniteSet(T) /\ Cardinality(T) = k + 1
    BY FS_Interval
  <1>2. /\ IsFiniteSet(SUBSET S) /\ Cardinality(SUBSET S) = 2^k
        /\ IsFiniteSet(SUBSET T) /\ Cardinality(SUBSET T) = 2^(k + 1)
    BY <1>1, FS_SUBSET
  <1>3. x \notin S /\ T = S \cup {x}
    OBVIOUS
  <1> HIDE DEF S, T, x
  <1>4. SUBSET T = (SUBSET S) \cup With
    <2>1. ASSUME NEW A \in SUBSET T
          PROVE  A \in (SUBSET S) \cup With
      <3>1. CASE x \in A
        <4>1. A \ {x} \in SUBSET S /\ A = (A \ {x}) \cup {x}
          BY <1>3, <3>1
        <4> QED BY <4>1
      <3>2. CASE x \notin A
        BY <1>3, <3>2
      <3> QED BY <3>1, <3>2
    <2>2. (SUBSET S) \cup With \subseteq SUBSET T
      BY <1>3
    <2> HIDE DEF With
    <2> QED BY <2>1, <2>2
  <1>5. (SUBSET S) \cap With = {}
    BY <1>3
  <1>6. IsFiniteSet(With) /\ Cardinality(With) = Cardinality(SUBSET S)
    <2> DEFINE f == [A \in SUBSET S |-> A \cup {x}]
    <2>1. f \in Bijection(SUBSET S, With)
      <3>1. f \in [SUBSET S -> With]
        OBVIOUS
      <3>2. \A A, B \in SUBSET S : f[A] = f[B] => A = B
        <4> TAKE A \in SUBSET S, B \in SUBSET S
        <4> HAVE f[A] = f[B]
        <4>1. A \cup {x} = B \cup {x}
          OBVIOUS
        <4>2. \A y : y \in A <=> y \in B
          BY <1>3, <4>1
        <4> QED BY <4>2
      <3>3. \A C \in With : \E A \in SUBSET S : f[A] = C
        OBVIOUS
      <3> HIDE DEF f, With
      <3> QED BY <3>1, <3>2, <3>3 DEF Bijection, Injection, Surjection, IsInjective
    <2>2. ExistsBijection(SUBSET S, With)
      BY <2>1 DEF ExistsBijection
    <2> HIDE DEF With
    <2> QED BY <1>2, <2>2, FS_Bijection
  <1> HIDE DEF With
  <1>7. Cardinality(SUBSET T) = Cardinality(SUBSET S) + Cardinality(With) - Cardinality((SUBSET S) \cap With)
    BY <1>2, <1>4, <1>6, FS_Union
  <1>8. Cardinality((SUBSET S) \cap With) = 0
    BY <1>5, FS_EmptySet
  <1>9. 2^k \in Nat
    BY <1>2, FS_CardinalityType
  <1> QED BY <1>2, <1>6, <1>7, <1>8, <1>9

(* They grow with the exponent. *)
LEMMA PowersGrow ==
  ASSUME NEW j \in Nat, NEW k \in Nat
  PROVE  /\ 2^j > 0 /\ (j < k => 2^j < 2^k)
  <1>1. \A i \in Nat : 2^i \in Nat /\ 2^(i + 1) = 2 * 2^i
    BY PowerOf2
  <1>2. ASSUME NEW i \in Nat
        PROVE  2^i > 0
    <2> DEFINE Bad == {n \in Nat : ~(2^n > 0)}
    <2>1. ASSUME NEW n \in Bad, \A m \in Bad : n <= m
          PROVE  FALSE
      <3>1. CASE n = 0
        BY <2>1, <3>1
      <3>2. CASE n # 0
        <4>1. n - 1 \in Nat /\ (n - 1) + 1 = n /\ ~(n <= n - 1)
          BY <3>2
        <4>2. 2^(n - 1) > 0 /\ 2^(n - 1) \in Nat
          BY <1>1, <2>1, <4>1
        <4>3. 2^n = 2 * 2^(n - 1)
          BY <1>1, <4>1
        <4> QED BY <4>2, <4>3
      <3> QED BY <3>1, <3>2
    <2>2. Bad \in SUBSET Nat
      OBVIOUS
    <2>3. Bad = {}
      <3> HIDE DEF Bad
      <3> QED BY <2>1, <2>2, LeastExists
    <2> QED BY <2>3
  <1>3. ASSUME j < k
        PROVE  2^j < 2^k
    <2> DEFINE Bad == {n \in Nat : j < n /\ ~(2^j < 2^n)}
    <2>1. ASSUME NEW n \in Bad, \A m \in Bad : n <= m
          PROVE  FALSE
      <3>1. n - 1 \in Nat /\ (n - 1) + 1 = n /\ ~(n <= n - 1) /\ (n - 1 = j \/ j < n - 1)
        OBVIOUS
      <3>2. 2^n = 2 * 2^(n - 1) /\ 2^(n - 1) \in Nat /\ 2^(n - 1) > 0 /\ 2^j \in Nat
        BY <1>1, <1>2, <3>1
      <3>3. n - 1 = j \/ 2^j < 2^(n - 1)
        BY <2>1, <3>1
      <3> QED BY <3>2, <3>3
    <2>2. Bad \in SUBSET Nat
      OBVIOUS
    <2>3. Bad = {}
      <3> HIDE DEF Bad
      <3> QED BY <2>1, <2>2, LeastExists
    <2> QED BY <1>3, <2>3
  <1> QED BY <1>2, <1>3

(* The bounds of the highest bit: every number but 0 has one. *)
LEMMA HighestBit ==
  ASSUME NEW n \in Nat, NEW v \in Nat \ {0}, v < 2^n
  PROVE  \E m \in 0..(n - 1) : 2^m <= v /\ v < 2^(m + 1)
  <1> DEFINE Above == {j \in 0..n : v < 2^j}
  <1>1. PICK j \in Above : \A k \in Above : j <= k
    <2>1. Above \in SUBSET Nat /\ n \in Above
      OBVIOUS
    <2> HIDE DEF Above
    <2> QED BY <2>1, LeastExists
  <1>2. j # 0
    <2>1. 2^0 = 1 /\ v < 2^j
      OBVIOUS
    <2>2. ASSUME j = 0
          PROVE  FALSE
      <3>1. 2^j = 2^0
        BY <2>2
      <3> QED BY <2>1, <3>1
    <2> QED BY <2>2
  <1>3. j - 1 \in 0..(n - 1) /\ (j - 1) + 1 = j /\ ~(j <= j - 1) /\ j - 1 \in Nat
    BY <1>2
  <1>4. ~(v < 2^(j - 1)) /\ 2^(j - 1) \in Nat
    BY <1>1, <1>3, PowerOf2
  <1> QED BY <1>3, <1>4

-----------------------------------------------------------------------------
(* Bits. *)

(* A quotient is what its multiples say. *)
LEMMA Quotient ==
  ASSUME NEW d \in Nat \ {0}, NEW a \in Nat
  PROVE  (a < d => a \div d = 0) /\ (d <= a /\ a < 2 * d => a \div d = 1)
  OBVIOUS

(* The highest bit is set, and none above it. *)
LEMMA BitsBelow ==
  ASSUME NEW m \in 0..(Width - 1), NEW v \in Nat, 2^m <= v, v < 2^(m + 1)
  PROVE  m \in Bits(v) /\ Bits(v) \subseteq 0..m
  <1>1. /\ Width \in Nat /\ m \in Nat /\ m + 1 \in Nat /\ m \in Int
        /\ 2^m \in Nat \ {0} /\ 2^(m + 1) = 2 * 2^m
    BY ModuleAssumption, PowerOf2, PowersGrow
  <1>2. v \div 2^m = 1
    BY <1>1, Quotient
  <1>3. ASSUME NEW b \in 0..(Width - 1), b > m
        PROVE  v \div 2^b = 0
    <2>1. b \in Nat /\ 2^b \in Nat /\ 2^b > 0
      BY <1>1, PowerOf2, PowersGrow
    <2>2. b = m + 1 \/ m + 1 < b
      BY <1>1, <1>3, <2>1
    <2>3. 2^(m + 1) <= 2^b
      BY <1>1, <2>1, <2>2, PowersGrow, PowerOf2
    <2>4. v < 2^b
      BY <1>1, <2>1, <2>3
    <2> QED BY <2>1, <2>4, Quotient
  <1>4. m \in Bits(v)
    <2>1. 1 % 2 = 1
      OBVIOUS
    <2>2. (v \div 2^m) % 2 = 1
      BY <1>2, <2>1
    <2> QED BY <2>2 DEF Bits
  <1>5. ASSUME NEW b \in Bits(v)
        PROVE  b \in 0..m
    <2>1. b \in 0..(Width - 1) /\ (v \div 2^b) % 2 = 1
      BY DEF Bits
    <2>2. ASSUME b > m
          PROVE  FALSE
      <3>1. v \div 2^b = 0
        BY <1>3, <2>1, <2>2
      <3>2. 0 % 2 = 0
        OBVIOUS
      <3>3. (v \div 2^b) % 2 = 0
        BY <3>1, <3>2
      <3> QED BY <2>1, <3>3
    <2> QED BY <1>1, <2>1, <2>2
  <1> QED BY <1>4, <1>5

(* The highest j of the bits up to m are set. *)
Full(s, m, j) == s \subseteq 0..m /\ \A b \in 0..m : b > m - j => b \in s

(* A shift of at most that many sets as many more below them. *)
LEMMA SmearedFills ==
  ASSUME NEW m \in 0..(Width - 1), NEW j \in Nat, NEW k \in Nat, k <= j,
         NEW s, Full(s, m, j)
  PROVE  Full(Smeared(s, k), m, j + k)
  <1>1. Width \in Nat /\ m \in Nat /\ s \subseteq 0..m
    BY ModuleAssumption DEF Full
  <1>2. ASSUME NEW b \in Smeared(s, k)
        PROVE  b \in 0..m
    <2>1. CASE b \in s
      BY <1>1, <2>1
    <2>2. CASE b \in 0..(Width - 1) /\ b + k \in s
      <3>1. b + k \in 0..m
        BY <1>1, <2>2
      <3> QED BY <1>1, <2>2, <3>1
    <2> QED BY <1>2, <2>1, <2>2 DEF Smeared
  <1>3. ASSUME NEW b \in 0..m, b > m - (j + k)
        PROVE  b \in Smeared(s, k)
    <2>1. CASE b > m - j
      BY <2>1 DEF Full, Smeared
    <2>2. CASE ~(b > m - j)
      <3>1. b + k \in 0..m /\ b + k > m - j /\ b \in 0..(Width - 1)
        BY <1>1, <1>3, <2>2
      <3>2. b + k \in s
        BY <3>1 DEF Full
      <3> QED BY <3>1, <3>2 DEF Smeared
    <2> QED BY <2>1, <2>2
  <1> QED BY <1>2, <1>3 DEF Full

(* The five shifts set all 32 bits below the highest. *)
LEMMA SmearIs ==
  ASSUME NEW m \in 0..(Width - 1), NEW s \in SUBSET (0..m), m \in s
  PROVE  Smear(s) = 0..m
  <1>1. Width \in Nat /\ Width <= 32 /\ m \in Nat
    BY ModuleAssumption
  <1>2. Full(s, m, 1)
    BY <1>1 DEF Full
  <1> DEFINE s1 == Smeared(s, 1)
             s2 == Smeared(s1, 2)
             s4 == Smeared(s2, 4)
             s8 == Smeared(s4, 8)
  <1>3. Full(s1, m, 2)
    <2>1. Full(s1, m, 1 + 1)
      BY <1>2, SmearedFills
    <2> QED BY <2>1
  <1>4. Full(s2, m, 4)
    <2> HIDE DEF s1
    <2>1. Full(s2, m, 2 + 2)
      BY <1>3, SmearedFills
    <2> QED BY <2>1
  <1>5. Full(s4, m, 8)
    <2> HIDE DEF s2
    <2>1. Full(s4, m, 4 + 4)
      BY <1>4, SmearedFills
    <2> QED BY <2>1
  <1>6. Full(s8, m, 16)
    <2> HIDE DEF s4
    <2>1. Full(s8, m, 8 + 8)
      BY <1>5, SmearedFills
    <2> QED BY <2>1
  <1>7. Full(Smeared(s8, 16), m, 32)
    <2> HIDE DEF s8
    <2>1. Full(Smeared(s8, 16), m, 16 + 16)
      BY <1>6, SmearedFills
    <2> QED BY <2>1
  <1>8. Smear(s) = Smeared(s8, 16)
    BY DEF Smear
  <1> HIDE DEF s8
  <1>9. \A b \in 0..m : b > m - 32
    BY <1>1
  <1> QED BY <1>7, <1>8, <1>9 DEF Full

(* The number with the bits up to m is one less than the next power of two. *)
LEMMA ValueIs ==
  ASSUME NEW m \in 0..(Width - 1)
  PROVE  Value(0..m) = 2^(m + 1) - 1
  <1>0. Width \in Nat /\ m \in Nat /\ m + 1 \in Nat /\ m + 1 <= Width
    BY ModuleAssumption
  <1> DEFINE S == 0..m
             IsSum(f) == f = [k \in 0..Width |->
               IF k = 0 THEN 0 ELSE f[k - 1] + (IF k - 1 \in S THEN 2^(k - 1) ELSE 0)]
             g == [k \in 0..Width |-> IF k <= m + 1 THEN 2^k - 1 ELSE 2^(m + 1) - 1]
  <1>1. IsSum(g)
    <2>1. ASSUME NEW k \in 0..Width
          PROVE  g[k] = IF k = 0 THEN 0 ELSE g[k - 1] + (IF k - 1 \in S THEN 2^(k - 1) ELSE 0)
      <3>1. CASE k = 0
        <4>1. 2^k = 2^0 /\ 2^0 = 1
          BY <3>1
        <4> QED BY <1>0, <3>1, <4>1
      <3>2. CASE k # 0
        <4>1. k - 1 \in Nat /\ k - 1 \in 0..Width /\ (k - 1) + 1 = k /\ k \in Nat
              /\ (k - 1 \in S <=> k <= m + 1)
          BY <1>0, <3>2
        <4>2. 2^k = 2 * 2^(k - 1) /\ 2^(k - 1) \in Nat
          BY <4>1, PowerOf2
        <4>3. CASE k <= m + 1
          <5>1. g[k] = 2^k - 1 /\ g[k - 1] = 2^(k - 1) - 1 /\ k - 1 \in S
            BY <1>0, <4>1, <4>3
          <5> HIDE DEF g, S
          <5> QED BY <3>2, <4>2, <5>1
        <4>4. CASE ~(k <= m + 1)
          <5>1. g[k] = 2^(m + 1) - 1 /\ k - 1 \notin S
            BY <1>0, <4>1, <4>4
          <5>2. g[k - 1] = 2^(m + 1) - 1
            <6>1. CASE k - 1 <= m + 1
              <7>1. k - 1 = m + 1
                BY <1>0, <4>1, <4>4, <6>1
              <7> QED BY <4>1, <6>1, <7>1
            <6>2. CASE ~(k - 1 <= m + 1)
              BY <4>1, <6>2
            <6> QED BY <6>1, <6>2
          <5>3. 2^(m + 1) \in Nat
            BY <1>0, PowerOf2
          <5> HIDE DEF g, S
          <5> QED BY <3>2, <5>1, <5>2, <5>3
        <4> QED BY <4>3, <4>4
      <3> QED BY <3>1, <3>2
    <2>2. g = [k \in 0..Width |-> g[k]]
      OBVIOUS
    <2> HIDE DEF g, S
    <2> QED BY <2>1, <2>2
  <1> DEFINE h == CHOOSE f : IsSum(f)
  <1>2. IsSum(h)
    BY <1>1
  <1>3. Value(S) = h[Width]
    BY DEF Value
  <1>4. \A k \in 0..Width : h[k] = IF k = 0 THEN 0
                                   ELSE h[k - 1] + (IF k - 1 \in S THEN 2^(k - 1) ELSE 0)
    <2> HIDE DEF h, S
    <2> QED BY <1>2
  <1>5. \A k \in 0..Width : g[k] = IF k = 0 THEN 0
                                   ELSE g[k - 1] + (IF k - 1 \in S THEN 2^(k - 1) ELSE 0)
    <2> HIDE DEF g, S
    <2> QED BY <1>1
  <1> HIDE DEF h, g, S
  <1>6. \A k \in 0..Width : h[k] = g[k]
    <2> DEFINE Bad == {k \in 0..Width : h[k] # g[k]}
    <2>1. ASSUME NEW n \in Bad, \A l \in Bad : n <= l
          PROVE  FALSE
      <3>1. n # 0
        BY <1>4, <1>5
      <3>2. n - 1 \in 0..Width /\ ~(n <= n - 1)
        BY <1>0, <3>1
      <3>3. h[n - 1] = g[n - 1]
        BY <2>1, <3>2
      <3> QED BY <1>4, <1>5, <3>1, <3>3
    <2>2. Bad \in SUBSET Nat
      BY <1>0
    <2>3. Bad = {}
      <3> HIDE DEF Bad
      <3> QED BY <2>1, <2>2, LeastExists
    <2> QED BY <2>3
  <1>7. g[Width] = 2^(m + 1) - 1
    <2>1. CASE Width = m + 1
      BY <1>0, <2>1 DEF g
    <2>2. CASE Width # m + 1
      BY <1>0, <2>2 DEF g
    <2> QED BY <2>1, <2>2
  <1>8. Width \in 0..Width
    BY <1>0
  <1> QED BY <1>3, <1>6, <1>7, <1>8 DEF S

(* Smearing the bits of a number and adding 1 gives the power above it. *)
LEMMA SmearedUp ==
  ASSUME NEW m \in 0..(Width - 1), NEW u \in Nat, 2^m <= u, u < 2^(m + 1)
  PROVE  Value(Smear(Bits(u))) + 1 = 2^(m + 1)
  <1>1. Smear(Bits(u)) = 0..m
    BY BitsBelow, SmearIs
  <1>2. Value(Smear(Bits(u))) = 2^(m + 1) - 1
    BY <1>1, ValueIs
  <1>3. 2^(m + 1) \in Nat
    BY ModuleAssumption, PowerOf2
  <1> QED BY <1>2, <1>3

-----------------------------------------------------------------------------
(* Rounding. *)

Fitting(v) == {k \in 0..(Width - 1) : 2^k >= v}

(* A power of two is returned as it is. *)
LEMMA RoundsPower ==
  ASSUME NEW m \in 0..(Width - 1)
  PROVE  NextPowerOf2(2^m) = 2^m
  <1> DEFINE v == 2^m
  <1>1. /\ Width \in Nat /\ m \in Nat /\ v \in Nat /\ v > 0
        /\ U32 \in Nat \ {0} /\ v < U32
    BY ModuleAssumption, PowerOf2, PowersGrow DEF U32
  <1>2. CASE Bits(v) \cap Bits(v - 1) = {}
    BY <1>1, <1>2 DEF NextPowerOf2
  <1>3. CASE Bits(v) \cap Bits(v - 1) # {}
    <2>1. m # 0
      <3>1. ASSUME m = 0
            PROVE  FALSE
        <4>1. 2^m = 2^0 /\ 2^0 = 1
          BY <3>1
        <4>2. v - 1 = 0
          BY <4>1
        <4>3. \A b \in 0..(Width - 1) : (0 \div 2^b) % 2 = 0
          <5> TAKE b \in 0..(Width - 1)
          <5>1. 2^b \in Nat \ {0}
            BY <1>1, PowerOf2, PowersGrow
          <5>2. 0 \div 2^b = 0
            BY <5>1, Quotient
          <5>3. 0 % 2 = 0
            OBVIOUS
          <5> QED BY <5>2, <5>3
        <4>4. Bits(0) = {}
          <5>1. \A b \in 0..(Width - 1) : ~((0 \div 2^b) % 2 = 1)
            BY <4>3
          <5> QED BY <5>1 DEF Bits
        <4> QED BY <1>3, <4>2, <4>4
      <3> QED BY <3>1
    <2>2. m - 1 \in 0..(Width - 1) /\ (m - 1) + 1 = m /\ m - 1 \in Nat
      BY <1>1, <2>1
    <2>3. 2^m = 2 * 2^(m - 1) /\ 2^(m - 1) \in Nat /\ 2^(m - 1) > 0
      BY <2>2, PowerOf2, PowersGrow
    <2>4. v - 1 \in Nat /\ 2^(m - 1) <= v - 1 /\ v - 1 < 2^((m - 1) + 1)
      BY <1>1, <2>2, <2>3
    <2>5. Value(Smear(Bits(v - 1))) + 1 = 2^((m - 1) + 1)
      BY <2>2, <2>4, SmearedUp
    <2>6. Value(Smear(Bits(v - 1))) + 1 = v
      BY <2>2, <2>5
    <2>7. v % U32 = v
      <3> HIDE DEF v
      <3> QED BY <1>1
    <2> HIDE DEF v
    <2>8. NextPowerOf2(v) = v
      BY <1>1, <1>3, <2>6, <2>7 DEF NextPowerOf2
    <2> QED BY <2>8 DEF v
  <1> QED BY <1>2, <1>3

(* A number between two powers of two is rounded up to the next, or wraps. *)
LEMMA RoundsBetween ==
  ASSUME NEW m \in 0..(Width - 1), NEW v \in Nat, 2^m < v, v < 2^(m + 1)
  PROVE  NextPowerOf2(v) = IF m + 1 = Width THEN 0 ELSE 2^(m + 1)
  <1>1. /\ Width \in Nat /\ m \in Nat /\ 2^m \in Nat /\ 2^m > 0
        /\ U32 \in Nat \ {0} /\ 2^(m + 1) \in Nat
    BY ModuleAssumption, PowerOf2, PowersGrow DEF U32
  <1>2. v - 1 \in Nat /\ 2^m <= v - 1 /\ v - 1 < 2^(m + 1) /\ 2^m <= v
    BY <1>1
  <1>3. m \in Bits(v) /\ m \in Bits(v - 1)
    BY <1>2, BitsBelow
  <1>4. Value(Smear(Bits(v - 1))) + 1 = 2^(m + 1)
    BY <1>2, SmearedUp
  <1>5. NextPowerOf2(v) = 2^(m + 1) % U32
    BY <1>1, <1>3, <1>4 DEF NextPowerOf2
  <1>6. CASE m + 1 = Width
    <2>1. 2^(m + 1) = U32
      BY <1>6 DEF U32
    <2>2. U32 % U32 = 0
      BY <1>1
    <2> QED BY <1>5, <1>6, <2>1, <2>2
  <1>7. CASE m + 1 # Width
    <2>1. m + 1 < Width
      BY <1>1, <1>7
    <2>2. 2^(m + 1) < U32
      BY <1>1, <2>1, PowersGrow DEF U32
    <2>3. \A n \in Nat : n < U32 => n % U32 = n
      BY <1>1
    <2> QED BY <1>1, <1>5, <1>7, <2>2, <2>3
  <1> QED BY <1>6, <1>7

(* lumbre_next_power_of_2 gives the least power of two that is no less, or 0 *)
(* when a uint32_t has none (lumbre_ringbuf.c:24), for every argument.       *)
THEOREM RoundsUp ==
  ASSUME NEW v \in 0..(U32 - 1)
  PROVE  /\ Fitting(v) = {} => NextPowerOf2(v) = 0
         /\ Fitting(v) # {} => \E k \in Fitting(v) : /\ NextPowerOf2(v) = 2^k
                                                     /\ \A l \in Fitting(v) : k <= l
  <1>1. Width \in Nat /\ 0 \in 0..(Width - 1) /\ v \in Nat /\ U32 = 2^Width /\ U32 \in Nat
    BY ModuleAssumption, PowerOf2 DEF U32
  <1>2. \A k \in 0..(Width - 1) : k \in Nat /\ 2^k \in Nat
    BY PowerOf2
  <1>3. CASE v = 0
    <2>1. 2^0 = 1
      OBVIOUS
    <2>2. NextPowerOf2(v) = 2^0
      BY <1>3, <2>1 DEF NextPowerOf2
    <2>3. 2^0 >= v
      BY <1>3, <2>1
    <2>4. 0 \in Fitting(v) /\ \A l \in Fitting(v) : 0 <= l
      BY <1>1, <2>3 DEF Fitting
    <2> QED BY <2>2, <2>4
  <1>4. CASE v # 0
    <2>1. PICK m \in 0..(Width - 1) : 2^m <= v /\ v < 2^(m + 1)
      <3>1. v \in Nat \ {0} /\ v < 2^Width
        BY <1>1, <1>4
      <3> QED BY <1>1, <3>1, HighestBit
    <2>2. m \in Nat /\ m + 1 \in Nat /\ 2^m \in Nat /\ 2^(m + 1) \in Nat
      BY <1>1, PowerOf2
    <2>3. \A l \in 0..(Width - 1) : l < m => 2^l < 2^m
      BY <1>2, <2>2, PowersGrow
    <2>4. CASE v = 2^m
      <3>1. m \in Fitting(v)
        BY <2>2, <2>4 DEF Fitting
      <3>2. \A l \in Fitting(v) : m <= l
        <4> TAKE l \in Fitting(v)
        <4>1. l \in 0..(Width - 1) /\ 2^l >= v
          BY DEF Fitting
        <4>2. ~(l < m)
          BY <1>2, <2>2, <2>3, <2>4, <4>1
        <4> QED BY <1>1, <2>2, <4>1, <4>2
      <3> QED BY <2>4, <3>1, <3>2, RoundsPower
    <2>5. CASE v # 2^m
      <3>1. 2^m < v
        BY <1>1, <2>1, <2>2, <2>5
      <3>2. NextPowerOf2(v) = IF m + 1 = Width THEN 0 ELSE 2^(m + 1)
        BY <1>1, <2>1, <3>1, RoundsBetween
      <3>3. \A l \in Fitting(v) : m + 1 <= l /\ l \in 0..(Width - 1)
        <4> TAKE l \in Fitting(v)
        <4>1. l \in 0..(Width - 1) /\ 2^l >= v
          BY DEF Fitting
        <4>2. ~(l < m) /\ l # m
          BY <1>1, <1>2, <2>2, <2>3, <3>1, <4>1
        <4> QED BY <1>1, <2>2, <4>1, <4>2
      <3>4. CASE m + 1 = Width
        <4>1. Fitting(v) = {}
          BY <1>1, <3>3, <3>4
        <4> QED BY <3>2, <3>4, <4>1
      <3>5. CASE m + 1 # Width
        <4>1. m + 1 \in 0..(Width - 1)
          BY <1>1, <2>2, <3>5
        <4>2. 2^(m + 1) >= v
          BY <1>1, <2>1, <2>2
        <4>3. m + 1 \in Fitting(v)
          BY <4>1, <4>2 DEF Fitting
        <4> QED BY <3>2, <3>3, <3>5, <4>3
      <3> QED BY <3>4, <3>5
    <2> QED BY <2>4, <2>5
  <1> QED BY <1>3, <1>4

-----------------------------------------------------------------------------
(* Rings. *)

(* A file nothing was ever published in, and the daemon at its start. *)
Untouched(i) == file[i].write_pos = 0 /\ file[i].read_pos = 0 /\ reader[i] = AtStart

(* Without a capacity that fits, nothing is ever written. *)
NoRoom == Capacity = 0 => \A i \in Inode : Untouched(i)

(* Only lumbre_ringbuf_write moves a write_pos on, and where none of the     *)
(* positions has moved it finds no room.                                     *)
LEMMA NoRoomStep ==
  ASSUME TypeOK, HostInv, NoRoom, [Next]_vars
  PROVE  NoRoom'
  <1>1. SUFFICES ASSUME Capacity = 0, \A j \in Inode : Untouched(j), NEW i \in Inode
                 PROVE  Untouched(i)'
    <2>1. buffer_size' = buffer_size
      <3>1. ASSUME NEW p \in Process, \/ \E pid \in Pid, sapi \in Sapis : Start(p, pid, sapi)
                                      \/ Kill(p) \/ Exit(p)
            PROVE  buffer_size' = buffer_size
        BY <3>1 DEF Start, Kill, Exit, Exits
      <3>2. ASSUME NEW w \in Worker, \/ ThreadEnds(w) \/ Open(w) \/ OpenFails(w) \/ Resize(w)
                                     \/ ResizeOrMapFails(w) \/ Map(w)
                                     \/ \E f \in Fields : StoreHeader(w, f)
                                     \/ FillHandle(w) \/ Write(w)
            PROVE  buffer_size' = buffer_size
        BY <3>2 DEF ThreadEnds, Open, OpenFails, Resize, ResizeOrMapFails, Map, StoreHeader,
                    FillHandle, Write
      <3>3. ASSUME NEW j \in Inode, Adopt(j) \/ DaemonStep(j)
            PROVE  buffer_size' = buffer_size
        BY <3>3 DEF Adopt, DaemonStep, LoadWritePos, Read, StoreReadPos
      <3>4. CASE UNCHANGED vars
        BY <3>4 DEF vars
      <3> QED BY <3>1, <3>2, <3>3, <3>4 DEF Next
    <2>2. Capacity' = Capacity
      BY <2>1 DEF Capacity
    <2> QED BY <2>2 DEF NoRoom
  <1>2. file \in [Inode -> File]
    BY Types
  <1>3. ASSUME NEW f, NEW j, file' = [file EXCEPT ![j] = f], reader' = reader,
               f.write_pos = 0, f.read_pos = 0
        PROVE  Untouched(i)'
    BY <1>1, <1>2, <1>3 DEF Untouched
  <1>4. ASSUME NEW w \in Worker, Write(w)
        PROVE  FALSE
    <2>1. globals[w].initialized /\ InStep(w) /\ globals[w].pc = "idle"
      BY <1>4 DEF Write, MayFinishSpan, HostInv, RingInStep
    <2>2. Holds(w)
      BY <2>1 DEF InStep, ZeroGlobals
    <2>3. globals[w].capacity = 0 /\ globals[w].local_write_pos = Ring(w).write_pos
      BY <1>1, <2>1, <2>2 DEF InStep
    <2>4. globals[w].ring \in Inode
      BY <2>2, Types DEF Holds, Globals
    <2>5. Ring(w).read_pos = 0 /\ Ring(w).write_pos = 0
      BY <1>1, <2>4 DEF Ring, Untouched
    <2>6. PICK r \in 0..Ring(w).read_pos : Room(w, r)
      BY <1>4 DEF Write
    <2>7. r = 0
      BY <2>5, <2>6
    <2>8. (0 - 0 + 1) * SpanSize \in 0..0
      BY <2>3, <2>5, <2>6, <2>7 DEF Room
    <2> QED BY <2>8, ModuleAssumption
  <1>5. ASSUME NEW w \in Worker, Open(w)
        PROVE  Untouched(i)'
    <2>1. PICK j : file' = [file EXCEPT ![j] = EmptyFile] /\ reader' = reader
      BY <1>5, OpenGives DEF Opens, daemon
    <2>2. EmptyFile.write_pos = 0 /\ EmptyFile.read_pos = 0
      BY DEF EmptyFile
    <2> QED BY <1>3, <2>1, <2>2
  <1>6. ASSUME NEW w \in Worker, globals[w].pc # "idle"
        PROVE  Ring(w) \in File /\ Ring(w).write_pos = 0 /\ Ring(w).read_pos = 0
    BY <1>1, <1>2, <1>6, Created DEF Ring, Untouched
  <1>7. ASSUME NEW w \in Worker, Resize(w)
        PROVE  Untouched(i)'
    <2>1. Ring(w) \in File /\ Ring(w).write_pos = 0 /\ Ring(w).read_pos = 0
      BY <1>6, <1>7 DEF Resize
    <2>2. [Ring(w) EXCEPT !.sized = TRUE].write_pos = 0 /\ [Ring(w) EXCEPT !.sized = TRUE].read_pos = 0
      BY <2>1 DEF File
    <2> QED BY <1>3, <1>7, <2>2 DEF Resize, Ring, daemon
  <1>8. ASSUME NEW w \in Worker, Map(w)
        PROVE  Untouched(i)'
    <2> DEFINE f == [EmptyFile EXCEPT !.sized = TRUE]
    <2>1. file' = [file EXCEPT ![globals[w].ring] = f] /\ reader' = reader
      BY <1>8 DEF Map, daemon
    <2>2. f.write_pos = 0 /\ f.read_pos = 0
      BY DEF EmptyFile
    <2> HIDE DEF f
    <2> QED BY <1>3, <2>1, <2>2
  <1>9. ASSUME NEW w \in Worker, NEW field \in Fields, StoreHeader(w, field)
        PROVE  Untouched(i)'
    <2> DEFINE h == IF field = "magic" THEN [Ring(w).header EXCEPT !.magic = TRUE]
                    ELSE [Ring(w).header EXCEPT !.capacity = Capacity, !.owner = globals[w].path]
    <2>1. Ring(w) \in File /\ Ring(w).write_pos = 0 /\ Ring(w).read_pos = 0
      BY <1>6, <1>9 DEF StoreHeader
    <2>2. file' = [file EXCEPT ![globals[w].ring] = [Ring(w) EXCEPT !.header = h]] /\ reader' = reader
      BY <1>2, <1>9 DEF StoreHeader, Ring, daemon
    <2> HIDE DEF h
    <2>3. [Ring(w) EXCEPT !.header = h].write_pos = 0 /\ [Ring(w) EXCEPT !.header = h].read_pos = 0
      BY <2>1 DEF File
    <2> QED BY <1>3, <2>2, <2>3
  <1>10. ASSUME NEW j \in Inode, DaemonStep(j)
         PROVE  FALSE
    <2>1. file[j].write_pos = 0 /\ file[j].read_pos = 0
          /\ reader[j].cursor = 0 /\ reader[j].avail = 0
      BY <1>1 DEF Untouched, AtStart
    <2>2. ~(reader[j].cursor < reader[j].avail)
      BY <2>1
    <2> QED BY <1>10, <2>1, <2>2 DEF DaemonStep, LoadWritePos, Read, StoreReadPos
  <1>11. CASE UNCHANGED <<file, reader>>
    BY <1>1, <1>11 DEF Untouched
  <1>12. \/ UNCHANGED <<file, reader>>
         \/ \E w \in Worker : \/ Open(w) \/ Resize(w) \/ Map(w) \/ Write(w)
                              \/ \E field \in Fields : StoreHeader(w, field)
         \/ \E j \in Inode : DaemonStep(j)
    <2>1. ASSUME NEW p \in Process, \/ \E pid \in Pid, sapi \in Sapis : Start(p, pid, sapi)
                                    \/ Kill(p) \/ Exit(p)
          PROVE  UNCHANGED <<file, reader>>
      BY <2>1 DEF Start, Kill, Exit, Exits, daemon
    <2>2. ASSUME NEW w \in Worker, \/ ThreadEnds(w) \/ OpenFails(w) \/ ResizeOrMapFails(w)
                                   \/ FillHandle(w)
          PROVE  UNCHANGED <<file, reader>>
      BY <2>2 DEF ThreadEnds, OpenFails, ResizeOrMapFails, FillHandle, daemon
    <2>3. ASSUME NEW j \in Inode, Adopt(j)
          PROVE  UNCHANGED <<file, reader>>
      BY <2>3 DEF Adopt
    <2>4. CASE UNCHANGED vars
      BY <2>4 DEF vars, daemon
    <2> QED BY <2>1, <2>2, <2>3, <2>4 DEF Next
  <1> QED BY <1>4, <1>5, <1>7, <1>8, <1>9, <1>10, <1>11, <1>12

(* The capacity of a ring is the least power of two that is no less than     *)
(* lumbre.buffer_size cast to a uint32_t, whatever integer that was set to;  *)
(* where no uint32_t holds one it is 0, and then nothing is ever published   *)
(* through the ring (lumbre_ringbuf.c:24, php_lumbre.c:68).                  *)
THEOREM CapacityIsRoundedAlways == Spec => []CapacityIsRounded
  <1>1. Init => NoRoom
    BY DEF Init, NoRoom, Untouched, EmptyFile
  <1>2. TypeOK /\ HostInv /\ NoRoom /\ [Next]_vars => NoRoom'
    BY NoRoomStep
  <1>3. TypeOK /\ HostInv /\ NoRoom => CapacityIsRounded
    <2> SUFFICES ASSUME TypeOK, HostInv, NoRoom, NEW w \in Worker, globals[w].initialized
                 PROVE  LET size    == buffer_size % U32
                            fitting == {k \in 0..(Width - 1) : 2^k >= size}
                        IN /\ fitting = {} => globals[w].capacity = 0 /\ Ring(w).write_pos = 0
                           /\ fitting # {} => \E k \in fitting : /\ globals[w].capacity = 2^k
                                                                 /\ \A l \in fitting : k <= l
      BY DEF CapacityIsRounded
    <2>1. InStep(w) /\ Holds(w)
      BY DEF HostInv, RingInStep, InStep, ZeroGlobals
    <2>2. globals[w].capacity = Capacity
      BY <2>1 DEF InStep
    <2>3. globals[w].ring \in Inode
      BY <2>1, Types DEF Holds, Globals
    <2>4. Capacity = 0 => Ring(w).write_pos = 0
      BY <2>3 DEF NoRoom, Untouched, Ring
    <2>5. buffer_size % U32 \in 0..(U32 - 1)
      <3>1. buffer_size \in Int
        BY Types, ModuleAssumption
      <3>2. U32 \in Nat \ {0}
        BY ModuleAssumption, PowerOf2, PowersGrow DEF U32
      <3> QED BY <3>1, <3>2
    <2>6. /\ Fitting(buffer_size % U32) = {} => Capacity = 0
          /\ Fitting(buffer_size % U32) # {} =>
               \E k \in Fitting(buffer_size % U32) :
                 Capacity = 2^k /\ \A l \in Fitting(buffer_size % U32) : k <= l
      BY <2>5, RoundsUp DEF Capacity
    <2>7. Fitting(buffer_size % U32) = {k \in 0..(Width - 1) : 2^k >= buffer_size % U32}
      BY DEF Fitting
    <2> QED BY <2>2, <2>4, <2>6, <2>7
  <1> QED BY HostInvariant, <1>1, <1>2, <1>3, PTL DEF Spec
=============================================================================
