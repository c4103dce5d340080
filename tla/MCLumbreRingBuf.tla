-------------------------- MODULE MCLumbreRingBuf --------------------------
(***************************************************************************)
(* Small instances of LumbreRingBuf.  A payload is a run of one byte, so   *)
(* that two messages in flight can be told apart; its lengths are a        *)
(* parameter of the configuration.                                         *)
(***************************************************************************)
EXTENDS LumbreRingBuf

CONSTANTS Lengths

MCPayload == {[i \in 1..n |-> b] : n \in Lengths, b \in Byte}
=============================================================================
