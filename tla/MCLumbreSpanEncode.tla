------------------------- MODULE MCLumbreSpanEncode -------------------------
(* Instances of LumbreSpanEncode for TLC: strings by their lengths.  The     *)
(* characters of a string are numbered, so that a shifted one is noticed.    *)
EXTENDS LumbreSpanEncode

CONSTANTS Lengths

StringOf(n) == [k \in 1..n |-> k % 2]
MCText      == {StringOf(n) : n \in Lengths}

(* To the base 4: a number of every width in every field, on both sides of   *)
(* the boundaries, and a trace id for either binary header.                  *)
Stamp(id_len, id, parent, start) ==
  [trace_id |-> StringOf(id_len), span_id |-> id, parent_id |-> parent, start_ns |-> start]

MCStamps == {Stamp(3, 1, 2, 4), Stamp(3, 3, 15, 16), Stamp(4, 16, 4, 256),
             Stamp(3, 255, 256, 1)}

(* -1, a limit of nothing, of less than every header, and of several bytes. *)
MCQueryLens == {-1, 0, 1, 7}
=============================================================================
