--------------------------- MODULE LumbreWhitelist ---------------------------
(***************************************************************************)
(* The table of I/O functions of lumbre_whitelist.c: open addressing with  *)
(* linear probing, built by GINIT, probed by every internal call of a      *)
(* traced request, zeroed by MSHUTDOWN.                                    *)
(*                                                                         *)
(* A name is a sequence of characters.  FNV-1a is any function from keys   *)
(* to hashes: it is chosen once and kept, so that every pattern of         *)
(* collisions is met.                                                      *)
(***************************************************************************)
EXTENDS Integers, Sequences, FiniteSets

CONSTANTS
  Size,       (* LUMBRE_WHITELIST_SIZE, a power of 2: hash & MASK is hash % Size *)
  KeySize,    (* LUMBRE_WL_KEY_BUF_SIZE                                          *)
  LowerOf,    (* the lowercase letter of every uppercase one                     *)
  Static,     (* lumbre_wl_static_table                                          *)
  Name,       (* the names of functions PHP calls: [class, func]                 *)
  Hashes      (* the functions FNV-1a may be, from Keys to naturals              *)

VARIABLES
  hash,     (* FNV-1a                                                            *)
  entries,  (* the slots of the table                                            *)
  built,    (* lumbre_whitelist_init has run, and no destroy since               *)
  phase,    (* "idle", in init ("build", "insert") or in a lookup ("match")      *)
  next,     (* lumbre_whitelist_init: entry of the static table to insert        *)
  slot,     (* the slot being probed                                             *)
  query,    (* lumbre_whitelist_match: the name looked for                       *)
  result    (* what it returned                                                  *)

vars == <<hash, entries, built, phase, next, slot, query, result>>

Free   == [class |-> << >>, func |-> << >>, type |-> "none", key_hash |-> 0, occupied |-> FALSE]
NULL   == Free
NoName == [class |-> << >>, func |-> << >>]

Lower(c) == IF c \in DOMAIN LowerOf THEN LowerOf[c] ELSE c
LowerName(s) == [k \in 1..Len(s) |-> Lower(s[k])]

(* lumbre_wl_build_key: "class::func" or "func" in lowercase, or nothing when *)
(* it would not leave room for one more byte.  A class of length 0 is none.   *)
Key(n) ==
  IF n.class # << >>
  THEN IF Len(n.class) + 2 + Len(n.func) >= KeySize THEN << >>
       ELSE LowerName(n.class) \o <<":", ":">> \o LowerName(n.func)
  ELSE IF Len(n.func) >= KeySize THEN << >> ELSE LowerName(n.func)

Keys == {Key(n) : n \in Name \cup {Static[i] : i \in DOMAIN Static}} \ {<< >>}

Insertable == {i \in DOMAIN Static : Key(Static[i]) # << >>}

ASSUME WhitelistAssumption ==
  /\ Size \in Nat \ {0} /\ KeySize \in Nat
  /\ Len(Static) \in Nat /\ DOMAIN Static = 1..Len(Static)
  /\ Cardinality(Insertable) < Size
  /\ \A c \in DOMAIN LowerOf : LowerOf[c] \notin DOMAIN LowerOf
  /\ \A h \in Hashes : \A k \in Keys : h[k] \in Nat

(* lumbre_wl_static_table, a whole word standing for a character. *)
Entry(class, func, type) == [class |-> class, func |-> func, type |-> type]

StaticTable == <<
  Entry(<< >>, <<"curl_exec">>, "HTTP_OUT"),
  Entry(<< >>, <<"curl_multi_exec">>, "HTTP_OUT"),
  Entry(<<"PDO">>, <<"execute">>, "DB"),
  Entry(<<"PDO">>, <<"query">>, "DB"),
  Entry(<< >>, <<"mysqli_query">>, "DB"),
  Entry(<< >>, <<"mysqli_real_query">>, "DB"),
  Entry(<< >>, <<"pg_query">>, "DB"),
  Entry(<< >>, <<"pg_execute">>, "DB"),
  Entry(<<"Redis">>, <<"get">>, "REDIS"),
  Entry(<<"Redis">>, <<"set">>, "REDIS"),
  Entry(<<"Redis">>, <<"mget">>, "REDIS"),
  Entry(<<"Redis">>, <<"pipeline">>, "REDIS"),
  Entry(<<"Memcached">>, <<"get">>, "MEMCACHED"),
  Entry(<<"Memcached">>, <<"set">>, "MEMCACHED"),
  Entry(<<"Memcached">>, <<"getMulti">>, "MEMCACHED"),
  Entry(<< >>, <<"file_get_contents">>, "FILE_IO"),
  Entry(<< >>, <<"file_put_contents">>, "FILE_IO"),
  Entry(<< >>, <<"fopen">>, "FILE_IO"),
  Entry(<< >>, <<"fwrite">>, "FILE_IO"),
  Entry(<< >>, <<"fread">>, "FILE_IO"),
  Entry(<< >>, <<"fsockopen">>, "SOCKET"),
  Entry(<< >>, <<"stream_socket_client">>, "SOCKET")>>

Zeroed == [s \in 0..(Size - 1) |-> Free]

Init ==
  /\ hash \in Hashes
  /\ entries = Zeroed /\ built = FALSE
  /\ phase = "idle" /\ next = 1 /\ slot = 0
  /\ query = NoName /\ result = NULL

Home(k) == hash[k] % Size

(* Mutants: by twos, half of the slots are never probed; without the mask,  *)
(* probing leaves the table.                                                *)
Following_Two(s)    == (s + 2) % Size
Following_NoMask(s) == s + 1

Following(s) == (s + 1) % Size

-----------------------------------------------------------------------------
(***************************************************************************)
(* lumbre_whitelist_init and lumbre_whitelist_destroy.                     *)
(***************************************************************************)

StartBuild ==
  /\ phase = "idle" /\ ~built
  /\ entries' = Zeroed
  /\ phase' = "build" /\ next' = 1
  /\ query' = NoName /\ result' = NULL     (* the last lookup is forgotten *)
  /\ UNCHANGED <<hash, built, slot>>

SkipEntry ==
  /\ phase = "build" /\ next <= Len(Static)
  /\ Key(Static[next]) = << >>
  /\ next' = next + 1
  /\ UNCHANGED <<hash, entries, built, phase, slot, query, result>>

TakeEntry ==
  /\ phase = "build" /\ next <= Len(Static)
  /\ Key(Static[next]) # << >>
  /\ slot' = Home(Key(Static[next]))
  /\ phase' = "insert"
  /\ UNCHANGED <<hash, entries, built, next, query, result>>

ProbeForFree ==
  /\ phase = "insert" /\ entries[slot].occupied
  /\ slot' = Following(slot)
  /\ UNCHANGED <<hash, entries, built, phase, next, query, result>>

(* The entry for a line of the static table. *)
EntryOf(i) == [class |-> Static[i].class, func |-> Static[i].func, type |-> Static[i].type,
               key_hash |-> hash[Key(Static[i])], occupied |-> TRUE]

Place ==
  /\ phase = "insert" /\ ~entries[slot].occupied
  /\ entries' = [entries EXCEPT ![slot] = EntryOf(next)]
  /\ next' = next + 1 /\ phase' = "build"
  /\ UNCHANGED <<hash, built, slot, query, result>>

Built ==
  /\ phase = "build" /\ next > Len(Static)
  /\ built' = TRUE /\ phase' = "idle"
  /\ UNCHANGED <<hash, entries, next, slot, query, result>>

Destroy ==
  /\ phase = "idle" /\ built
  /\ entries' = Zeroed /\ built' = FALSE
  /\ query' = NoName /\ result' = NULL   (* the last lookup is forgotten *)
  /\ UNCHANGED <<hash, phase, next, slot>>

-----------------------------------------------------------------------------
(***************************************************************************)
(* lumbre_whitelist_match.                                                 *)
(***************************************************************************)

(* A name without a key is looked for nowhere. *)
RefuseName(n) ==
  /\ phase = "idle" /\ Key(n) = << >>
  /\ query' = n /\ result' = NULL
  /\ UNCHANGED <<hash, entries, built, phase, next, slot>>

StartMatch(n) ==
  /\ phase = "idle" /\ Key(n) # << >>
  /\ query' = n /\ slot' = Home(Key(n))
  /\ phase' = "match"
  /\ UNCHANGED <<hash, entries, built, next, result>>

(* Mutant: equal hashes are taken for equal keys. *)
Hit_HashOnly(e) == e.key_hash = hash[Key(query)]

(* The stored hash is compared first, then the keys. *)
Hit(e) == e.key_hash = hash[Key(query)] /\ Key(e) = Key(query)

ProbeOn ==
  /\ phase = "match" /\ entries[slot].occupied /\ ~Hit(entries[slot])
  /\ slot' = Following(slot)
  /\ UNCHANGED <<hash, entries, built, phase, next, query, result>>

Found ==
  /\ phase = "match" /\ entries[slot].occupied /\ Hit(entries[slot])
  /\ result' = entries[slot] /\ phase' = "idle"
  /\ UNCHANGED <<hash, entries, built, next, slot, query>>

Missed ==
  /\ phase = "match" /\ ~entries[slot].occupied
  /\ result' = NULL /\ phase' = "idle"
  /\ UNCHANGED <<hash, entries, built, next, slot, query>>

Step == SkipEntry \/ TakeEntry \/ ProbeForFree \/ Place \/ Built \/ ProbeOn \/ Found \/ Missed

Next ==
  \/ StartBuild \/ Destroy \/ Step
  \/ \E n \in Name : RefuseName(n) \/ StartMatch(n)

Spec == Init /\ [][Next]_vars

(* A call of init or match that has begun runs on. *)
FairSpec == Spec /\ WF_vars(Step)

-----------------------------------------------------------------------------
(***************************************************************************)
(* Properties.                                                             *)
(***************************************************************************)

Stored == {Static[i] : i \in DOMAIN Static}

(* Every variable has its type; slots hold entries of the static table. *)
TypeOK ==
  /\ hash \in Hashes /\ built \in BOOLEAN
  /\ phase \in {"idle", "build", "insert", "match"}
  /\ next \in 1..(Len(Static) + 1) /\ slot \in 0..(Size - 1)
  /\ DOMAIN entries = 0..(Size - 1)
  /\ \A s \in DOMAIN entries : entries[s] \in {Free} \cup {EntryOf(i) : i \in Insertable}
  /\ query \in Name \cup {NoName} /\ result \in {entries[s] : s \in DOMAIN entries} \cup {NULL}

(* The entry a lookup should give: the first of the static table whose name  *)
(* is the query's but for case; none before the table is built.              *)
Wanted(n) ==
  LET same == {i \in Insertable : Key(Static[i]) = Key(n)}
  IN IF ~built \/ same = {} THEN "none"
     ELSE Static[CHOOSE i \in same : \A j \in same : i <= j].type

(* A finished lookup gives the span type of exactly that entry: neither a    *)
(* colliding name, nor a probe across the end of the table, nor a name of    *)
(* other case or too long a name changes it (lumbre_whitelist.c:196-213).    *)
MatchIsExact ==
  phase = "idle" /\ query # NoName => result.type = Wanted(query)

(* No probe goes on for ever: init and match end, since the static table     *)
(* leaves a slot free (lumbre_whitelist.c:159 and 196).                      *)
ProbesEnd == phase # "idle" ~> phase = "idle"

-----------------------------------------------------------------------------
(***************************************************************************)
(* The inductive invariant behind MatchIsExact, by its parts.              *)
(***************************************************************************)

(* The slots a probe for key k passes before it comes to slot s. *)
Distance(k, s) == IF s >= Home(k) THEN s - Home(k) ELSE s + Size - Home(k)
Passed(k, s)   == {t \in DOMAIN entries : Distance(k, t) < Distance(k, s)}

(* Line i of the static table is the first of its name. *)
First(i) == i \in Insertable /\ \A j \in Insertable : Key(Static[j]) = Key(Static[i]) => i <= j

(* The lines the table has taken so far. *)
Taken == IF built \/ phase \in {"build", "insert"} THEN {i \in Insertable : i < next} ELSE {}

(* A slot is free or holds a line that was taken; the first line of a name is *)
(* where a probe for it comes before any free slot and any line of its name.  *)
TableHolds ==
  /\ \A s \in DOMAIN entries : entries[s].occupied => \E i \in Taken : entries[s] = EntryOf(i)
  /\ \A i \in Taken : First(i) =>
       \E s \in DOMAIN entries :
         /\ entries[s] = EntryOf(i)
         /\ \A t \in Passed(Key(Static[i]), s) :
              entries[t].occupied /\ Key(entries[t]) # Key(Static[i])

(* A probe has passed taken slots only, and no hit. *)
ProbeHolds ==
  /\ phase = "insert" =>
       /\ next \in Insertable
       /\ \A t \in Passed(Key(Static[next]), slot) : entries[t].occupied
  /\ phase = "match" =>
       /\ query \in Name /\ Key(query) # << >>
       /\ \A t \in Passed(Key(query), slot) : entries[t].occupied /\ ~Hit(entries[t])

(* There are no lookups while the table is built, and no building after it. *)
CallsHold ==
  /\ phase \in {"build", "insert"} => ~built /\ query = NoName /\ result = NULL
  /\ built => next = Len(Static) + 1

(* Probing finds what insertion left: every slot on the way from the home of  *)
(* a name to its first line is taken, while the table is filled as after it   *)
(* (lumbre_whitelist.c:158-171 and 195-213).                                  *)
TableInv == TableHolds /\ ProbeHolds /\ CallsHold /\ MatchIsExact
=============================================================================
