-------------------------- MODULE MCLumbreWhitelist --------------------------
(* Instances of LumbreWhitelist for TLC. *)
EXTENDS LumbreWhitelist

(* A small table: P::q, q and P::P, sent anywhere, and a name that is skipped. *)
MCLower  == [P |-> "p", Q |-> "q"]
MCStatic == <<Entry(<<"P">>, <<"q">>, "DB"), Entry(<< >>, <<"q">>, "FILE_IO"),
              Entry(<<"P">>, <<"q", "q", "q">>, "DB"), Entry(<<"P">>, <<"P">>, "REDIS")>>

(* Calls in other case, of an unlisted name, and of one that leaves no room. *)
MCName == {[class |-> c, func |-> f] : c \in {<< >>, <<"P">>, <<"p">>},
                                       f \in {<<"q">>, <<"Q">>, <<"P">>}}
          \cup {[class |-> <<"P">>, func |-> <<"q", "q", "q">>]}

(* Every function to twice the table: equal slots with and without equal hashes. *)
MCHashes == [Keys -> 0..(2 * Size - 1)]

(* The table of the code has room to spare (LUMBRE_WHITELIST_SIZE), and no   *)
(* name twice.                                                               *)
ASSUME StaticTableFits ==
  /\ Len(StaticTable) < 64
  /\ \A i, j \in DOMAIN StaticTable :
       /\ StaticTable[i].class = StaticTable[j].class
       /\ StaticTable[i].func = StaticTable[j].func
       => i = j
=============================================================================
