---------------------------- MODULE SpanChannel ----------------------------
(***************************************************************************)
(* What lumbre_ringbuf promises, with every byte, position and store left  *)
(* out: a channel that never duplicates, reorders or alters a span.  A     *)
(* span offered to it is either sent or counted as lost, at once.          *)
(***************************************************************************)
EXTENDS Integers, Sequences

CONSTANT Payload   (* the payloads that may be offered *)

VARIABLES
  sent,      (* the payloads the writer handed over, in order *)
  lost,      (* how many it gave up                           *)
  received   (* the payloads the reader got, in order         *)

channel == <<sent, lost, received>>

Init == sent = << >> /\ lost = 0 /\ received = << >>

Send(p) ==
  /\ sent' = Append(sent, p)
  /\ UNCHANGED <<lost, received>>

Lose ==
  /\ lost' = lost + 1
  /\ UNCHANGED <<sent, received>>

Receive ==
  /\ Len(received) < Len(sent)
  /\ received' = Append(received, sent[Len(received) + 1])
  /\ UNCHANGED <<sent, lost>>

Next == (\E p \in Payload : Send(p)) \/ Lose \/ Receive

Spec == Init /\ [][Next]_channel
=============================================================================
