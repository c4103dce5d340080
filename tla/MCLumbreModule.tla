--------------------------- MODULE MCLumbreModule ---------------------------
(***************************************************************************)
(* Small instances of LumbreModule: a host with few processes and pids.    *)
(***************************************************************************)
EXTENDS LumbreModule, TLC

(* Pids are only compared. *)
PidSymmetry == Permutations(Pid)

(* One that needs every shift of lumbre_next_power_of_2. *)
OneSize == {65537}

(* Those around the smallest and the largest powers of two, and those that   *)
(* the cast cuts: below zero, and above what a uint32_t holds.  Most come to *)
(* a ring that holds no span, so they add few states.                        *)
Sizes == {-65537, -1, 0, 1, 2, 3, 4, 5, 65536, 65537,
          2^(Width - 1), 2^(Width - 1) + 1, 2^Width - 1, 2^Width, 2^Width + 5}
=============================================================================
