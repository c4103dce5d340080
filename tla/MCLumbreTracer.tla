--------------------------- MODULE MCLumbreTracer ---------------------------
(***************************************************************************)
(* Small instances of LumbreTracer: a worker, its scripts and its fibers.  *)
(***************************************************************************)
EXTENDS LumbreTracer

(* A threshold below zero, which the cast to uint64_t turns into a huge one. *)
BelowZero == {-1}
=============================================================================
