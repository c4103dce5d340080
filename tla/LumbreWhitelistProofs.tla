------------------------ MODULE LumbreWhitelistProofs ------------------------
(***************************************************************************)
(* Proofs about the table of I/O functions, for every size, every static   *)
(* table that leaves a slot free, and every hash function.                 *)
(***************************************************************************)
EXTENDS LumbreWhitelist, FiniteSetTheorems, WellFoundedInduction, TLAPS

Slots == 0..(Size - 1)

-----------------------------------------------------------------------------
(* Slots and distances. *)

(* hash & MASK is a slot. *)
LEMMA HomeIsSlot ==
  ASSUME TypeOK, NEW k \in Keys
  PROVE  Home(k) \in Slots
  <1>1. hash[k] \in Nat /\ Size \in Nat \ {0}
    BY WhitelistAssumption DEF TypeOK
  <1> QED BY <1>1 DEF Home, Slots

(* Probing goes on to the next slot, and from the last one to the first. *)
LEMMA FollowingIs ==
  ASSUME NEW s \in Slots
  PROVE  /\ Following(s) = IF s + 1 = Size THEN 0 ELSE s + 1
         /\ Following(s) \in Slots
  <1>1. Size \in Nat \ {0} /\ s \in Nat /\ s < Size
    BY WhitelistAssumption DEF Slots
  <1>2. CASE s + 1 = Size
    BY <1>1, <1>2 DEF Following, Slots
  <1>3. CASE s + 1 # Size
    BY <1>1, <1>3 DEF Following, Slots
  <1> QED BY <1>2, <1>3

(* Every slot has a distance of its own. *)
LEMMA DistanceIs ==
  ASSUME TypeOK, NEW k \in Keys, NEW s \in Slots
  PROVE  /\ Distance(k, s) \in Slots
         /\ Distance(k, Home(k)) = 0
         /\ \A t \in Slots : Distance(k, t) = Distance(k, s) => t = s
  <1>1. Home(k) \in Slots
    BY HomeIsSlot
  <1> QED BY <1>1, WhitelistAssumption DEF Distance, Slots

(* A probe has passed no slot at its home. *)
LEMMA NothingPassed ==
  ASSUME TypeOK, NEW k \in Keys
  PROVE  Passed(k, Home(k)) = {}
  <1>1. \A t \in Slots : Distance(k, t) \in Slots /\ Distance(k, Home(k)) = 0
    BY DistanceIs, HomeIsSlot
  <1> QED BY <1>1 DEF Passed, Slots, TypeOK

(* Going on from a slot, it passes that slot and no other. *)
LEMMA PassedOne ==
  ASSUME TypeOK, NEW k \in Keys, NEW s \in Slots, NEW t \in Passed(k, Following(s))
  PROVE  t \in Passed(k, s) \/ t = s
  <1>1. Home(k) \in Slots /\ t \in Slots /\ DOMAIN entries = Slots
    BY HomeIsSlot DEF Passed, Slots, TypeOK
  <1>2. Distance(k, t) < Distance(k, Following(s))
    BY DEF Passed
  <1>3. Distance(k, t) <= Distance(k, s)
    <2>1. Size \in Nat \ {0}
      BY WhitelistAssumption
    <2>2. CASE s + 1 = Size
      <3>1. Following(s) = 0
        BY <2>2, FollowingIs
      <3> QED BY <1>1, <1>2, <2>1, <2>2, <3>1 DEF Distance, Slots
    <2>3. CASE s + 1 # Size
      <3>1. Following(s) = s + 1
        BY <2>3, FollowingIs
      <3> QED BY <1>1, <1>2, <2>1, <2>3, <3>1 DEF Distance, Slots
    <2> QED BY <2>2, <2>3
  <1>4. Distance(k, t) \in Int /\ Distance(k, s) \in Int
    BY <1>1, DistanceIs DEF Slots
  <1>5. Distance(k, t) = Distance(k, s) => t = s
    BY <1>1, DistanceIs
  <1> QED BY <1>1, <1>3, <1>4, <1>5 DEF Passed

-----------------------------------------------------------------------------
(* The lines of the static table. *)

(* A set of naturals has a least element. *)
LEMMA LeastExists ==
  ASSUME NEW T \in SUBSET Nat, T # {}
  PROVE  \E x \in T : \A y \in T : x <= y
  <1>1. PICK x \in T : \A y \in T : <<y, x>> \notin OpToRel(<, Nat)
    BY NatLessThanWellFounded, WFMin
  <1>2. \A y \in T : ~(y < x)
    BY <1>1 DEF OpToRel
  <1>3. x \in Nat /\ \A y \in T : y \in Nat
    OBVIOUS
  <1> QED BY <1>2, <1>3

(* Every line has a first one of its name. *)
LEMMA FirstExists ==
  ASSUME NEW i \in Insertable
  PROVE  \E f \in Insertable : First(f) /\ Key(Static[f]) = Key(Static[i]) /\ f <= i
  <1> DEFINE same == {j \in Insertable : Key(Static[j]) = Key(Static[i])}
  <1>1. same \in SUBSET Nat /\ i \in same
    BY WhitelistAssumption DEF Insertable
  <1>2. PICK f \in same : \A j \in same : f <= j
    BY <1>1, LeastExists
  <1> QED BY <1>1, <1>2 DEF First

(* The lookup is for the first line of its name. *)
LEMMA WantedIsFirst ==
  ASSUME built, NEW n, NEW f, First(f), Key(Static[f]) = Key(n)
  PROVE  Wanted(n) = Static[f].type
  <1> DEFINE same == {i \in Insertable : Key(Static[i]) = Key(n)}
             least == CHOOSE i \in same : \A j \in same : i <= j
  <1>1. f \in same /\ \A j \in same : f <= j
    BY DEF First
  <1>2. least \in same /\ \A j \in same : least <= j
    BY <1>1
  <1>3. least \in Nat /\ f \in Nat
    BY <1>1, <1>2, WhitelistAssumption DEF Insertable
  <1>4. least = f
    BY <1>1, <1>2, <1>3
  <1> QED BY <1>1, <1>4 DEF Wanted

(* The keys of the static table and of the names that have one are hashed. *)
LEMMA KeysAreHashed ==
  /\ \A i \in Insertable : Key(Static[i]) \in Keys
  /\ \A n \in Name : Key(n) # << >> => Key(n) \in Keys
  BY DEF Keys, Insertable

(* An entry has the key of its line. *)
LEMMA EntryKey ==
  ASSUME NEW i
  PROVE  /\ Key(EntryOf(i)) = Key(Static[i]) /\ EntryOf(i).occupied
         /\ EntryOf(i).key_hash = hash[Key(Static[i])] /\ EntryOf(i).type = Static[i].type
  BY DEF EntryOf, Key

-----------------------------------------------------------------------------
(* Types. *)

(* An initial table is empty. *)
LEMMA InitTyped ==
  ASSUME Init
  PROVE  TypeOK
  <1>1. entries = [s \in Slots |-> Free] /\ 0 \in Slots /\ 1 \in 1..(Len(Static) + 1)
    BY WhitelistAssumption DEF Init, Zeroed, Slots
  <1> QED BY <1>1 DEF Init, TypeOK, Slots

(* Every step keeps the types. *)
LEMMA TypeStep ==
  ASSUME TypeOK, CallsHold, ProbeHolds, [Next]_vars
  PROVE  TypeOK'
  <1> USE DEF Slots
  <1>1. CASE StartBuild \/ Destroy
    <2>1. entries' = [s \in Slots |-> Free] /\ 1 \in 1..(Len(Static) + 1)
      BY <1>1, WhitelistAssumption DEF StartBuild, Destroy, Zeroed
    <2>2. query' = NoName /\ result' = NULL /\ hash' = hash /\ slot' = slot
      BY <1>1 DEF StartBuild, Destroy
    <2> QED BY <1>1, <2>1, <2>2 DEF StartBuild, Destroy, TypeOK
  <1>2. CASE SkipEntry
    <2>1. next' \in 1..(Len(Static) + 1)
      BY <1>2, WhitelistAssumption DEF SkipEntry, TypeOK
    <2> QED BY <1>2, <2>1 DEF SkipEntry, TypeOK, EntryOf
  <1>3. CASE TakeEntry
    <2>1. next \in Insertable
      BY <1>3, WhitelistAssumption DEF TakeEntry, TypeOK, Insertable
    <2>2. slot' \in Slots
      BY <1>3, <2>1, KeysAreHashed, HomeIsSlot DEF TakeEntry
    <2> QED BY <1>3, <2>2 DEF TakeEntry, TypeOK, EntryOf
  <1>4. CASE ProbeForFree
    <2>1. slot' \in Slots
      BY <1>4, FollowingIs DEF ProbeForFree, TypeOK
    <2> QED BY <1>4, <2>1 DEF ProbeForFree, TypeOK, EntryOf
  <1>5. CASE Place
    <2>1. next \in Insertable /\ result = NULL
      BY <1>5 DEF Place, CallsHold, ProbeHolds
    <2>2. next' \in 1..(Len(Static) + 1)
      BY <1>5, <2>1, WhitelistAssumption DEF Place, Insertable
    <2>3. /\ DOMAIN entries' = DOMAIN entries
          /\ \A s \in DOMAIN entries : entries'[s] \in {Free} \cup {EntryOf(i) : i \in Insertable}
      BY <1>5, <2>1 DEF Place, TypeOK
    <2>4. hash' = hash /\ result' = NULL
      BY <1>5, <2>1 DEF Place
    <2>5. {EntryOf(i) : i \in Insertable}' = {EntryOf(i) : i \in Insertable}
      BY <2>4 DEF EntryOf
    <2> QED BY <1>5, <2>2, <2>3, <2>4, <2>5 DEF Place, TypeOK
  <1>6. CASE Built
    BY <1>6 DEF Built, TypeOK, EntryOf
  <1>7. ASSUME NEW n \in Name, RefuseName(n)
        PROVE  TypeOK'
    BY <1>7 DEF RefuseName, TypeOK, EntryOf
  <1>8. ASSUME NEW n \in Name, StartMatch(n)
        PROVE  TypeOK'
    <2>1. slot' \in Slots
      BY <1>8, KeysAreHashed, HomeIsSlot DEF StartMatch
    <2> QED BY <1>8, <2>1 DEF StartMatch, TypeOK, EntryOf
  <1>9. CASE ProbeOn
    <2>1. slot' \in Slots
      BY <1>9, FollowingIs DEF ProbeOn, TypeOK
    <2> QED BY <1>9, <2>1 DEF ProbeOn, TypeOK, EntryOf
  <1>10. CASE Found \/ Missed
    BY <1>10 DEF Found, Missed, TypeOK, EntryOf
  <1>11. CASE UNCHANGED vars
    BY <1>11 DEF vars, TypeOK, EntryOf
  <1> QED BY <1>1, <1>2, <1>3, <1>4, <1>5, <1>6, <1>7, <1>8, <1>9, <1>10, <1>11 DEF Next, Step

-----------------------------------------------------------------------------
(* Lookups. *)

(* The first line of a taken name is on the way of every probe for it.       *)
LEMMA FirstIsOnTheWay ==
  ASSUME TypeOK, TableInv, phase = "match", built,
         NEW i \in Insertable, Key(Static[i]) = Key(query)
  PROVE  \E f \in Insertable, s \in Slots :
           /\ First(f) /\ Key(Static[f]) = Key(query)
           /\ entries[s] = EntryOf(f)
           /\ \A t \in Passed(Key(query), s) :
                entries[t].occupied /\ Key(entries[t]) # Key(query)
           /\ s = slot \/ slot \in Passed(Key(query), s)
  <1>1. PICK f \in Insertable : First(f) /\ Key(Static[f]) = Key(Static[i])
    BY FirstExists
  <1>2. f \in Taken
    BY WhitelistAssumption DEF TableInv, CallsHold, Taken, Insertable
  <1>3. PICK s \in Slots :
          /\ entries[s] = EntryOf(f)
          /\ \A t \in Passed(Key(query), s) : entries[t].occupied /\ Key(entries[t]) # Key(query)
    BY <1>1, <1>2 DEF TableInv, TableHolds, TypeOK, Slots
  <1>4. s \notin Passed(Key(query), slot)
    <2>1. Hit(entries[s])
      BY <1>1, <1>3, EntryKey DEF Hit
    <2> QED BY <2>1 DEF TableInv, ProbeHolds
  <1>5. Key(query) \in Keys /\ slot \in Slots /\ DOMAIN entries = Slots
    BY KeysAreHashed DEF TableInv, ProbeHolds, TypeOK, Slots
  <1>6. s = slot \/ slot \in Passed(Key(query), s)
    <2>1. /\ Distance(Key(query), s) \in Int /\ Distance(Key(query), slot) \in Int
          /\ Distance(Key(query), s) = Distance(Key(query), slot) => s = slot
      BY <1>5, DistanceIs DEF Slots
    <2> QED BY <1>4, <1>5, <2>1 DEF Passed
  <1> QED BY <1>1, <1>3, <1>6

(* A hit is the entry of the first line of its name. *)
LEMMA FoundIsWanted ==
  ASSUME TypeOK, TableInv, Found
  PROVE  entries[slot].type = Wanted(query)
  <1>1. phase = "match" /\ entries[slot].occupied /\ Key(entries[slot]) = Key(query)
        /\ slot \in DOMAIN entries
    BY DEF Found, Hit, TypeOK
  <1>2. PICK i \in Taken : entries[slot] = EntryOf(i)
    BY <1>1 DEF TableInv, TableHolds
  <1>3. built /\ i \in Insertable /\ Key(Static[i]) = Key(query)
    BY <1>1, <1>2, EntryKey DEF Taken
  <1>4. PICK f \in Insertable :
          First(f) /\ Key(Static[f]) = Key(query) /\ entries[slot] = EntryOf(f)
    BY <1>1, <1>3, FirstIsOnTheWay
  <1> QED BY <1>3, <1>4, EntryKey, WantedIsFirst

(* A probe that comes to a free slot has passed every line of its name: none. *)
LEMMA MissedIsWanted ==
  ASSUME TypeOK, TableInv, Missed
  PROVE  Wanted(query) = "none"
  <1> SUFFICES ASSUME built, NEW i \in Insertable, Key(Static[i]) = Key(query)
               PROVE  FALSE
    BY DEF Wanted
  <1>1. phase = "match" /\ ~entries[slot].occupied
    BY DEF Missed
  <1> QED BY <1>1, FirstIsOnTheWay, EntryKey

(* A name without a key is no line's. *)
LEMMA RefusedIsWanted ==
  ASSUME NEW n, Key(n) = << >>
  PROVE  Wanted(n) = "none"
  BY DEF Wanted, Insertable

-----------------------------------------------------------------------------
(* The invariant TableInv, step by step. *)

(* Steps that leave the table alone. *)
LEMMA SameTable ==
  ASSUME TypeOK, TableHolds, UNCHANGED <<hash, entries>>, Taken' = Taken
  PROVE  TableHolds'
  <1>1. \A k : Home(k)' = Home(k)
    BY DEF Home
  <1>2. \A k, s : Passed(k, s)' = Passed(k, s)
    BY <1>1 DEF Passed, Distance
  <1>3. \A i : EntryOf(i)' = EntryOf(i)
    BY DEF EntryOf
  <1> QED BY <1>2, <1>3 DEF TableHolds

(* Init and destroy empty the table. *)
LEMMA EmptyTable ==
  ASSUME entries' = Zeroed, Taken' = {}
  PROVE  TableHolds'
  BY DEF TableHolds, Zeroed, Free

(* A new entry goes behind those its probe has passed. *)
LEMMA PlaceTable ==
  ASSUME TypeOK, TableInv, Place
  PROVE  TableHolds'
  <1>1. /\ next \in Insertable /\ ~entries[slot].occupied /\ slot \in DOMAIN entries
        /\ phase = "insert" /\ phase' = "build" /\ next' = next + 1 /\ UNCHANGED <<hash, built>>
        /\ entries' = [entries EXCEPT ![slot] = EntryOf(next)]
        /\ \A t \in Passed(Key(Static[next]), slot) : entries[t].occupied
    BY DEF Place, TableInv, ProbeHolds, TypeOK
  <1>2. \A i \in Insertable : i \in Nat
    BY WhitelistAssumption DEF Insertable
  <1>3. Taken = {i \in Insertable : i < next} /\ Taken' = Taken \cup {next}
    <2>1. \A i \in Insertable : i < next + 1 <=> i < next \/ i = next
      BY <1>1, <1>2
    <2> QED BY <1>1, <2>1 DEF Taken
  <1>4. \A k, s : Passed(k, s)' = Passed(k, s)
    <2>1. \A k : Home(k)' = Home(k)
      BY <1>1 DEF Home
    <2> QED BY <1>1, <2>1 DEF Passed, Distance
  <1>5. \A i : EntryOf(i)' = EntryOf(i)
    BY <1>1 DEF EntryOf
  <1>6. /\ DOMAIN entries' = DOMAIN entries /\ entries'[slot] = EntryOf(next)
        /\ \A s \in DOMAIN entries : s # slot => entries'[s] = entries[s]
    BY <1>1
  <1>7. ASSUME NEW s \in DOMAIN entries, entries'[s].occupied
        PROVE  \E i \in Taken' : entries'[s] = EntryOf(i)
    BY <1>3, <1>6, <1>7 DEF TableInv, TableHolds
  <1>8. ASSUME NEW i \in Taken, First(i)
        PROVE  \E s \in DOMAIN entries :
                 /\ entries'[s] = EntryOf(i)
                 /\ \A t \in Passed(Key(Static[i]), s) :
                      entries'[t].occupied /\ Key(entries'[t]) # Key(Static[i])
    <2>1. PICK s \in DOMAIN entries :
            /\ entries[s] = EntryOf(i)
            /\ \A t \in Passed(Key(Static[i]), s) :
                 entries[t].occupied /\ Key(entries[t]) # Key(Static[i])
      BY <1>8 DEF TableInv, TableHolds
    <2>2. s # slot
      BY <1>1, <2>1, EntryKey
    <2>3. \A t \in Passed(Key(Static[i]), s) : t # slot /\ t \in DOMAIN entries
      BY <1>1, <2>1 DEF Passed
    <2> QED BY <1>6, <2>1, <2>2, <2>3
  <1>9. ASSUME First(next)
        PROVE  /\ entries'[slot] = EntryOf(next)
               /\ \A t \in Passed(Key(Static[next]), slot) :
                    entries'[t].occupied /\ Key(entries'[t]) # Key(Static[next])
    <2>1. ASSUME NEW t \in Passed(Key(Static[next]), slot)
          PROVE  entries'[t].occupied /\ Key(entries'[t]) # Key(Static[next])
      <3>1. t \in DOMAIN entries /\ entries[t].occupied /\ entries'[t] = entries[t]
        BY <1>1, <1>6 DEF Passed
      <3>2. PICK j \in Taken : entries[t] = EntryOf(j)
        BY <3>1 DEF TableInv, TableHolds
      <3>3. j \in Insertable /\ j < next /\ j \in Nat /\ next \in Nat
        BY <1>1, <1>2, <1>3, <3>2
      <3>4. Key(Static[j]) # Key(Static[next])
        BY <1>9, <3>3 DEF First
      <3> QED BY <3>1, <3>2, <3>4, EntryKey
    <2> QED BY <1>6, <2>1
  <1> QED BY <1>3, <1>4, <1>5, <1>6, <1>7, <1>8, <1>9, <1>1 DEF TableHolds

(* Every step keeps the invariant. *)
LEMMA TableStep ==
  ASSUME TypeOK, TableInv, TypeOK', [Next]_vars
  PROVE  TableInv'
  <1> USE DEF TableInv
  <1>0. /\ next \in 1..(Len(Static) + 1) /\ Len(Static) \in Nat
        /\ \A i \in Insertable : i \in 1..Len(Static)
    BY WhitelistAssumption DEF TypeOK, Insertable
  <1>1. CASE StartBuild
    <2>1. Taken' = {}
      BY <1>0, <1>1 DEF StartBuild, Taken
    <2> QED BY <1>1, <2>1, EmptyTable DEF StartBuild, ProbeHolds, CallsHold, MatchIsExact
  <1>2. CASE Destroy
    <2>1. Taken' = {}
      BY <1>2 DEF Destroy, Taken
    <2> QED BY <1>2, <2>1, EmptyTable DEF Destroy, ProbeHolds, CallsHold, MatchIsExact
  <1>3. CASE SkipEntry
    <2>1. Taken' = Taken
      <3>1. next \notin Insertable
        BY <1>3 DEF SkipEntry, Insertable
      <3>2. \A i \in Insertable : i < next + 1 <=> i < next
        BY <1>0, <3>1
      <3> QED BY <1>3, <3>2 DEF SkipEntry, Taken
    <2> QED BY <1>3, <2>1, SameTable DEF SkipEntry, ProbeHolds, CallsHold, MatchIsExact
  <1>4. CASE TakeEntry
    <2>1. Taken' = Taken
      BY <1>4 DEF TakeEntry, Taken
    <2>2. next \in Insertable
      BY <1>0, <1>4, WhitelistAssumption DEF TakeEntry, Insertable
    <2>3. Passed(Key(Static[next]), Home(Key(Static[next]))) = {}
      BY <2>2, KeysAreHashed, NothingPassed
    <2>4. Passed(Key(Static[next]), slot)' = {}
      BY <1>4, <2>3 DEF TakeEntry, Passed, Distance, Home
    <2>5. ProbeHolds'
      BY <1>4, <2>2, <2>4 DEF TakeEntry, ProbeHolds
    <2> QED BY <1>4, <2>1, <2>5, SameTable DEF TakeEntry, CallsHold, MatchIsExact
  <1>5. CASE ProbeForFree
    <2>1. Taken' = Taken
      BY <1>5 DEF ProbeForFree, Taken
    <2>2. next \in Insertable /\ slot \in Slots
      BY <1>5 DEF ProbeForFree, ProbeHolds, TypeOK, Slots
    <2>3. \A t \in Passed(Key(Static[next]), Following(slot)) : entries[t].occupied
      BY <1>5, <2>2, KeysAreHashed, PassedOne DEF ProbeForFree, ProbeHolds
    <2>4. Passed(Key(Static[next]), slot)' = Passed(Key(Static[next]), Following(slot))
      BY <1>5 DEF ProbeForFree, Passed, Distance, Home
    <2>5. ProbeHolds'
      BY <1>5, <2>2, <2>3, <2>4 DEF ProbeForFree, ProbeHolds
    <2> QED BY <1>5, <2>1, <2>5, SameTable DEF ProbeForFree, CallsHold, MatchIsExact
  <1>6. CASE Place
    BY <1>6, PlaceTable DEF Place, ProbeHolds, CallsHold, MatchIsExact
  <1>7. CASE Built
    <2>1. Taken' = Taken
      BY <1>7 DEF Built, Taken
    <2>2. next = Len(Static) + 1
      BY <1>0, <1>7 DEF Built
    <2> QED BY <1>7, <2>1, <2>2, SameTable DEF Built, ProbeHolds, CallsHold, MatchIsExact
  <1>8. ASSUME NEW n \in Name, RefuseName(n)
        PROVE  TableInv'
    <2>1. Taken' = Taken
      BY <1>8 DEF RefuseName, Taken
    <2>2. Wanted(n)' = "none" /\ NULL.type = "none"
      BY <1>8, RefusedIsWanted DEF RefuseName, Wanted, NULL, Free
    <2>3. MatchIsExact'
      BY <1>8, <2>2 DEF RefuseName, MatchIsExact
    <2> QED BY <1>8, <2>1, <2>3, SameTable DEF RefuseName, ProbeHolds, CallsHold
  <1>9. ASSUME NEW n \in Name, StartMatch(n)
        PROVE  TableInv'
    <2>1. Taken' = Taken
      BY <1>9 DEF StartMatch, Taken
    <2>2. Passed(Key(n), Home(Key(n))) = {}
      BY <1>9, KeysAreHashed, NothingPassed DEF StartMatch
    <2>3. Passed(Key(n), slot)' = {}
      BY <1>9, <2>2 DEF StartMatch, Passed, Distance, Home
    <2>4. ProbeHolds'
      BY <1>9, <2>3 DEF StartMatch, ProbeHolds
    <2> QED BY <1>9, <2>1, <2>4, SameTable DEF StartMatch, CallsHold, MatchIsExact
  <1>10. CASE ProbeOn
    <2>1. Taken' = Taken
      BY <1>10 DEF ProbeOn, Taken
    <2>2. query \in Name /\ Key(query) # << >> /\ slot \in Slots
      BY <1>10 DEF ProbeOn, ProbeHolds, TypeOK, Slots
    <2>3. \A t \in Passed(Key(query), Following(slot)) : entries[t].occupied /\ ~Hit(entries[t])
      BY <1>10, <2>2, KeysAreHashed, PassedOne DEF ProbeOn, ProbeHolds
    <2>4. Passed(Key(query), slot)' = Passed(Key(query), Following(slot))
      BY <1>10 DEF ProbeOn, Passed, Distance, Home
    <2>5. ProbeHolds'
      BY <1>10, <2>2, <2>3, <2>4 DEF ProbeOn, ProbeHolds, Hit
    <2> QED BY <1>10, <2>1, <2>5, SameTable DEF ProbeOn, CallsHold, MatchIsExact
  <1>11. CASE Found
    <2>1. Taken' = Taken /\ Wanted(query)' = Wanted(query)
      BY <1>11 DEF Found, Taken, Wanted
    <2>2. MatchIsExact'
      BY <1>11, <2>1, FoundIsWanted DEF Found, MatchIsExact
    <2> QED BY <1>11, <2>1, <2>2, SameTable DEF Found, ProbeHolds, CallsHold
  <1>12. CASE Missed
    <2>1. Taken' = Taken /\ Wanted(query)' = Wanted(query)
      BY <1>12 DEF Missed, Taken, Wanted
    <2>2. MatchIsExact'
      BY <1>12, <2>1, MissedIsWanted DEF Missed, MatchIsExact, NULL, Free
    <2> QED BY <1>12, <2>1, <2>2, SameTable DEF Missed, ProbeHolds, CallsHold
  <1>13. CASE UNCHANGED vars
    BY <1>13 DEF vars, TableHolds, ProbeHolds, CallsHold, MatchIsExact, Taken, Passed, Distance,
                 Home, EntryOf, Hit, Wanted
  <1> QED BY <1>1, <1>2, <1>3, <1>4, <1>5, <1>6, <1>7, <1>8, <1>9, <1>10, <1>11, <1>12, <1>13
          DEF Next, Step

(* TableInv is an invariant of the whitelist: the first line of every name   *)
(* lies before any free slot on the way of its probe (lumbre_whitelist.c:159). *)
THEOREM TableInvariant == Spec => [](TypeOK /\ TableInv)
  <1>1. Init => TypeOK
    BY InitTyped
  <1>2. Init => TableInv
    BY DEF Init, TableInv, TableHolds, ProbeHolds, CallsHold, MatchIsExact, Taken, Zeroed, Free
  <1>3. TypeOK /\ TableInv /\ [Next]_vars => TypeOK'
    BY TypeStep DEF TableInv
  <1>4. TypeOK /\ TableInv /\ TypeOK' /\ [Next]_vars => TableInv'
    BY TableStep
  <1> QED BY <1>1, <1>2, <1>3, <1>4, PTL DEF Spec

(* Slots hold lines of the static table, and probing never leaves the table. *)
THEOREM WhitelistTypes == Spec => []TypeOK
  BY TableInvariant, PTL

(* A lookup gives the type of the first line of its name, whatever collides   *)
(* with it, in any case of letters, and nothing for any other name           *)
(* (lumbre_whitelist.c:188-213).                                             *)
THEOREM MatchIsExactAlways == Spec => []MatchIsExact
  <1>1. TableInv => MatchIsExact
    BY DEF TableInv
  <1> QED BY <1>1, TableInvariant, PTL

-----------------------------------------------------------------------------
(* The loops of init and match end: there is a free slot, and every probe is *)
(* one step nearer to having seen all slots.                                 *)

Occupied == {s \in DOMAIN entries : entries[s].occupied}

(* Every line takes one slot. *)
SlotsCounted == Cardinality(Occupied) = Cardinality(Taken)

(* A slot is free, while the table is built as well as after it. *)
SpareSlot == \E s \in DOMAIN entries : ~entries[s].occupied

(* The key a probe is for, and the slots it has not come to. *)
Sought == IF phase = "insert" THEN Key(Static[next]) ELSE Key(query)
Ahead  == Size - 1 - Distance(Sought, slot)

(* A probe that goes on comes to a slot it has not seen. *)
ProbeComesCloser == ProbeForFree \/ ProbeOn => Ahead \in Nat /\ Ahead' \in Nat /\ Ahead' = Ahead - 1

(* The sets counted are finite. *)
LEMMA CountedAreFinite ==
  ASSUME TypeOK
  PROVE  /\ IsFiniteSet(Occupied) /\ IsFiniteSet(Insertable) /\ IsFiniteSet(Taken)
         /\ IsFiniteSet(Slots) /\ Cardinality(Slots) = Size
  <1>1. Size \in Nat \ {0} /\ Len(Static) \in Nat /\ DOMAIN Static = 1..Len(Static)
    BY WhitelistAssumption
  <1>2. IsFiniteSet(0..(Size - 1)) /\ Cardinality(0..(Size - 1)) = Size
    BY <1>1, FS_Interval
  <1>3. IsFiniteSet(1..Len(Static))
    BY <1>1, FS_Interval
  <1>4. Insertable \in SUBSET (1..Len(Static)) /\ Taken \in SUBSET Insertable
    BY <1>1 DEF Insertable, Taken
  <1>5. Occupied \in SUBSET (0..(Size - 1))
    BY DEF Occupied, TypeOK
  <1> QED BY <1>2, <1>3, <1>4, <1>5, FS_Subset DEF Slots

(* As many lines as there are slots cannot have been taken. *)
LEMMA CountLeavesASlot ==
  ASSUME TypeOK, SlotsCounted
  PROVE  SpareSlot
  <1>1. Taken \in SUBSET Insertable
    BY DEF Taken
  <1>2. Cardinality(Occupied) <= Cardinality(Insertable) /\ Cardinality(Insertable) \in Nat
    BY <1>1, CountedAreFinite, FS_Subset, FS_CardinalityType DEF SlotsCounted
  <1>3. Cardinality(Occupied) # Cardinality(Slots)
    BY <1>2, CountedAreFinite, FS_CardinalityType, WhitelistAssumption
  <1>4. Occupied # DOMAIN entries
    BY <1>3 DEF TypeOK, Slots
  <1> QED BY <1>4 DEF Occupied, SpareSlot

(* Every step keeps the count. *)
LEMMA CountStep ==
  ASSUME TypeOK, TableInv, SlotsCounted, [Next]_vars
  PROVE  SlotsCounted'
  <1>0. /\ next \in 1..(Len(Static) + 1) /\ Len(Static) \in Nat
        /\ \A i \in Insertable : i \in 1..Len(Static)
    BY WhitelistAssumption DEF TypeOK, Insertable
  <1>1. CASE StartBuild \/ Destroy
    <2>1. Occupied' = {}
      <3>1. entries' = Zeroed
        BY <1>1 DEF StartBuild, Destroy
      <3>2. \A s \in DOMAIN Zeroed : ~Zeroed[s].occupied
        BY DEF Zeroed, Free
      <3> QED BY <3>1, <3>2 DEF Occupied
    <2>2. Taken' = {}
      BY <1>0, <1>1 DEF StartBuild, Destroy, Taken
    <2> QED BY <2>1, <2>2 DEF SlotsCounted
  <1>2. CASE Place
    <2>1. /\ next \in Insertable /\ slot \in DOMAIN entries /\ slot \notin Occupied
          /\ phase = "insert" /\ phase' = "build" /\ next' = next + 1 /\ built' = built
          /\ entries' = [entries EXCEPT ![slot] = EntryOf(next)]
      BY <1>2 DEF Place, TableInv, ProbeHolds, TypeOK, Occupied
    <2>2. EntryOf(next).occupied
      BY EntryKey
    <2>3. Occupied' = Occupied \cup {slot}
      BY <2>1, <2>2 DEF Occupied
    <2>4. next \notin Taken /\ Taken' = Taken \cup {next}
      <3>1. \A i \in Insertable : i < next + 1 <=> i < next \/ i = next
        BY <1>0
      <3>2. ~(next < next)
        BY <1>0
      <3> QED BY <2>1, <3>1, <3>2 DEF Taken
    <2>5. /\ Cardinality(Occupied \cup {slot}) = Cardinality(Occupied) + 1
          /\ Cardinality(Taken \cup {next}) = Cardinality(Taken) + 1
      BY <2>1, <2>4, CountedAreFinite, FS_AddElement
    <2> QED BY <2>3, <2>4, <2>5 DEF SlotsCounted
  <1>3. CASE SkipEntry
    <2>1. next \notin Insertable
      BY <1>3 DEF SkipEntry, Insertable
    <2>2. \A i \in Insertable : i < next + 1 <=> i < next
      BY <1>0, <2>1
    <2>3. Taken' = Taken
      BY <1>3, <2>2 DEF SkipEntry, Taken
    <2> QED BY <1>3, <2>3 DEF SkipEntry, SlotsCounted, Occupied
  <1>4. CASE Built
    <2>1. Taken' = Taken
      BY <1>4 DEF Built, Taken
    <2> QED BY <1>4, <2>1 DEF Built, SlotsCounted, Occupied
  <1>5. CASE TakeEntry \/ ProbeForFree
    <2>1. Taken' = Taken
      BY <1>5 DEF TakeEntry, ProbeForFree, Taken
    <2> QED BY <1>5, <2>1 DEF TakeEntry, ProbeForFree, SlotsCounted, Occupied
  <1>6. CASE ProbeOn \/ Found \/ Missed
    <2>1. Taken' = Taken
      BY <1>6 DEF ProbeOn, Found, Missed, Taken
    <2> QED BY <1>6, <2>1 DEF ProbeOn, Found, Missed, SlotsCounted, Occupied
  <1>7. ASSUME NEW n \in Name, RefuseName(n) \/ StartMatch(n)
        PROVE  SlotsCounted'
    <2>1. phase = "idle" /\ phase' \in {"idle", "match"} /\ UNCHANGED <<built, next, entries>>
      BY <1>7 DEF RefuseName, StartMatch
    <2>2. Taken' = Taken
      BY <2>1 DEF Taken
    <2> QED BY <2>1, <2>2 DEF SlotsCounted, Occupied
  <1>8. CASE UNCHANGED vars
    BY <1>8 DEF vars, SlotsCounted, Occupied, Taken
  <1> QED BY <1>1, <1>2, <1>3, <1>4, <1>5, <1>6, <1>7, <1>8 DEF Next, Step

(* Unless it comes home again, a probe that goes on is one slot further. *)
LEMMA OneFurther ==
  ASSUME TypeOK, NEW k \in Keys, NEW s \in Slots, Distance(k, s) # Size - 1
  PROVE  Distance(k, Following(s)) = Distance(k, s) + 1
  <1>1. Home(k) \in Slots
    BY HomeIsSlot
  <1>2. Size \in Nat \ {0}
    BY WhitelistAssumption
  <1> QED BY <1>1, <1>2, FollowingIs DEF Distance, Slots

(* A probe that has passed taken slots only, and stands at one, is not at the *)
(* last one: that would make all slots taken.                                 *)
LEMMA NotTheLast ==
  ASSUME TypeOK, SlotsCounted, NEW k \in Keys,
         \A t \in Passed(k, slot) : entries[t].occupied, entries[slot].occupied
  PROVE  Distance(k, slot) # Size - 1
  <1>1. PICK s \in DOMAIN entries : ~entries[s].occupied
    BY CountLeavesASlot DEF SpareSlot
  <1>2. s \in Slots /\ slot \in Slots
    BY <1>1 DEF TypeOK, Slots
  <1>3. ~(Distance(k, s) < Distance(k, slot)) /\ s # slot
    BY <1>1 DEF Passed
  <1>4. Distance(k, s) # Distance(k, slot)
    BY <1>2, <1>3, DistanceIs
  <1>5. Distance(k, s) \in Slots /\ Distance(k, slot) \in Slots
    BY <1>2, DistanceIs
  <1> QED BY <1>3, <1>4, <1>5, WhitelistAssumption DEF Slots

(* A probe that goes on is for a key, and keeps to it. *)
LEMMA SoughtIsKept ==
  ASSUME TypeOK, TableInv, ProbeForFree \/ ProbeOn
  PROVE  /\ Sought \in Keys /\ Sought' = Sought /\ slot \in Slots
         /\ \A k : Distance(k, slot)' = Distance(k, Following(slot))
         /\ \A t \in Passed(Sought, slot) : entries[t].occupied
         /\ entries[slot].occupied
  <1>1. CASE ProbeForFree
    <2>1. phase = "insert" /\ phase' = "insert" /\ next' = next /\ next \in Insertable
      BY <1>1 DEF ProbeForFree, TableInv, ProbeHolds
    <2>2. Sought = Key(Static[next]) /\ Sought' = Sought
      BY <2>1 DEF Sought
    <2> QED BY <1>1, <2>1, <2>2, KeysAreHashed
            DEF ProbeForFree, TableInv, ProbeHolds, TypeOK, Slots, Distance, Home
  <1>2. CASE ProbeOn
    <2>1. /\ phase = "match" /\ phase' = "match" /\ query' = query
          /\ query \in Name /\ Key(query) # << >>
      BY <1>2 DEF ProbeOn, TableInv, ProbeHolds
    <2>2. Sought = Key(query) /\ Sought' = Sought
      BY <2>1 DEF Sought
    <2> QED BY <1>2, <2>1, <2>2, KeysAreHashed
            DEF ProbeOn, TableInv, ProbeHolds, TypeOK, Slots, Distance, Home
  <1> QED BY <1>1, <1>2

(* Fewer slots lie ahead after each probe. *)
LEMMA CloserStep ==
  ASSUME TypeOK, TableInv, SlotsCounted
  PROVE  ProbeComesCloser
  <1> SUFFICES ASSUME ProbeForFree \/ ProbeOn
               PROVE  Ahead \in Nat /\ Ahead' \in Nat /\ Ahead' = Ahead - 1
    BY DEF ProbeComesCloser
  <1>1. /\ Sought \in Keys /\ Sought' = Sought /\ slot \in Slots
        /\ Distance(Sought, slot)' = Distance(Sought, Following(slot))
    BY SoughtIsKept
  <1>2. Distance(Sought, slot) # Size - 1
    BY <1>1, SoughtIsKept, NotTheLast
  <1>3. Distance(Sought, Following(slot)) = Distance(Sought, slot) + 1
    BY <1>1, <1>2, OneFurther
  <1>4. Distance(Sought, slot) \in Slots
    BY <1>1, DistanceIs
  <1>5. Ahead' = Size - 1 - (Distance(Sought, slot) + 1)
    BY <1>1, <1>3 DEF Ahead
  <1> QED BY <1>2, <1>4, <1>5, WhitelistAssumption DEF Ahead, Slots

(* Every line of the static table that has a key takes one slot and no other *)
(* does, so that one stays free: what the probing loops of                   *)
(* lumbre_whitelist.c:159 and 196 rely on, which have no other bound.        *)
THEOREM ASlotStaysFree == Spec => [](SlotsCounted /\ SpareSlot)
  <1>1. Init => SlotsCounted
    BY DEF Init, SlotsCounted, Occupied, Taken, Zeroed, Free
  <1>2. TypeOK /\ TableInv /\ SlotsCounted /\ [Next]_vars => SlotsCounted'
    BY CountStep
  <1>3. TypeOK /\ SlotsCounted => SpareSlot
    BY CountLeavesASlot
  <1> QED BY <1>1, <1>2, <1>3, TableInvariant, PTL DEF Spec

(* Each probe of init or match comes to a slot it has not seen: with the free *)
(* slot, the loops end after at most Size probes, the variant behind          *)
(* ProbesEnd (lumbre_whitelist.c:159 and 196).                                *)
THEOREM ProbesComeCloser == Spec => [][ProbeComesCloser]_vars
  <1>1. TypeOK /\ TableInv /\ SlotsCounted /\ [Next]_vars => [ProbeComesCloser]_vars
    BY CloserStep
  <1> QED BY <1>1, TableInvariant, ASlotStaysFree, PTL DEF Spec
=============================================================================
