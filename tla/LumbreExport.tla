---------------------------- MODULE LumbreExport ----------------------------
(***************************************************************************)
(* The way of a span from the hooks to the daemon: LumbreTracer finishes   *)
(* it, lumbre_span_finish encodes it and writes it into the ring, and the  *)
(* daemon reads it.  The ring is the lossy channel that LumbreRingBuf is   *)
(* shown to implement; records that overflow the msgpack buffer are those  *)
(* LumbreSpanEncode is shown to lose.                                      *)
(***************************************************************************)
EXTENDS LumbreTracer

VARIABLES
  sent,        (* ring: the records written, in order                     *)
  dropped,     (* ring: records it refused                                *)
  overflowed,  (* history: records that did not fit the msgpack buffer    *)
  filtered,    (* history: spans too short to be exported                 *)
  received     (* daemon: the records it got, in order                    *)

export == <<sent, dropped, overflowed, filtered, received>>

(* A record, with the number of the request it was made in. *)
Record == [n : 1..MaxRequests, span : Span]

Ring == INSTANCE SpanChannel WITH Payload <- Record, lost <- dropped

ExportInit == Init /\ Ring!Init /\ overflowed = 0 /\ filtered = 0

(* Mutant: the ring refuses a record without counting it. *)
Exported_Uncounted(o) ==
  \/ /\ o.fate = "filtered"
     /\ filtered' = filtered + 1 /\ UNCHANGED <<sent, dropped, overflowed, received>>
  \/ /\ o.fate = "written"
     /\ Ring!Send([n |-> request.n, span |-> o.span]) /\ UNCHANGED <<overflowed, filtered>>
  \/ /\ o.fate = "lost"
     /\ \/ UNCHANGED export
        \/ overflowed' = overflowed + 1 /\ UNCHANGED <<sent, dropped, filtered, received>>

(* lumbre_span_finish of span o ends with no record, with a record in the    *)
(* ring, or with one that is lost on the way there.                          *)
Exported(o) ==
  \/ /\ o.fate = "filtered"
     /\ filtered' = filtered + 1 /\ UNCHANGED <<sent, dropped, overflowed, received>>
  \/ /\ o.fate = "written"
     /\ Ring!Send([n |-> request.n, span |-> o.span]) /\ UNCHANGED <<overflowed, filtered>>
  \/ /\ o.fate = "lost"
     /\ \/ Ring!Lose /\ UNCHANGED <<overflowed, filtered>>
        \/ overflowed' = overflowed + 1 /\ UNCHANGED <<sent, dropped, filtered, received>>

(* The spans a step of the tracer finishes. *)
JustFinished == finished' \ finished

WorkerStep ==
  /\ Next
  /\ IF JustFinished = {} THEN UNCHANGED export
     ELSE \E o \in JustFinished : Exported(o)

DaemonStep == Ring!Receive /\ UNCHANGED <<vars, overflowed, filtered>>

ExportNext == WorkerStep \/ DaemonStep

ExportSpec == ExportInit /\ [][ExportNext]_<<vars, export>>

-----------------------------------------------------------------------------
(***************************************************************************)
(* What the daemon can rely on.                                            *)
(***************************************************************************)

(* The HTTP_IN record closes its trace: once the daemon has it, no record of *)
(* that request follows, be it of another fiber or of a shutdown function,   *)
(* and none of a later request under the same random id                      *)
(* (php_lumbre.c:404-411).                                                   *)
RootClosesTrace ==
  \A i, j \in DOMAIN received :
    i < j /\ received[i].span.type = "HTTP_IN" =>
      /\ received[j].n > received[i].n
      /\ \/ received[j].span.trace_id # received[i].span.trace_id
         \/ received[j].span.trace_id \notin {Random(k) : k \in 1..MaxRequests}

(* The ids given out in the first request that the daemon will not see. *)
Missing == (1..(ctx.span_counter - 1)) \ {sent[i].span.span_id : i \in DOMAIN sent}

(* The spans that were finished without a record. *)
Unsent == dropped + overflowed + filtered

(* Without a bailout every span is accounted for: after a request the ids    *)
(* missing below the last one are as many as were filtered, refused by the   *)
(* ring and counted there, or too large, which nothing in the file counts    *)
(* (lumbre_span.c:213, 232 and 235).                                         *)
Accounted ==
  ~Bailouts /\ request.n = 1 /\ request.traced /\ phase = "idle" =>
    Cardinality(Missing) = Unsent

(* b is the record of a's parent, in the same request and trace. *)
ParentRecord(a, b) ==
  /\ b.n = a.n
  /\ b.span.span_id = a.span.parent_id
  /\ b.span.trace_id = a.span.trace_id

(* After requests without a bailout that filtered and lost no span, a daemon *)
(* that has drained the ring can build every tree: each record's parent is   *)
(* among the records of its request, in the same trace, whichever fibers the *)
(* two were made in.                                                         *)
WholeTrees ==
  ~Bailouts /\ phase = "idle" /\ received = sent /\ Unsent = 0 =>
    \A i \in DOMAIN received :
      \/ received[i].span.type = "HTTP_IN"
      \/ \E j \in DOMAIN received : ParentRecord(received[i], received[j])

-----------------------------------------------------------------------------
(***************************************************************************)
(* The inductive invariant behind the properties, by its parts.            *)
(***************************************************************************)

ExportTypes ==
  /\ sent \in Seq(Record) /\ received \in Seq(Record)
  /\ dropped \in Nat /\ overflowed \in Nat /\ filtered \in Nat

(* The daemon has the first of the records that were sent. *)
DaemonBehind ==
  /\ Len(received) <= Len(sent)
  /\ \A i \in DOMAIN received : received[i] = sent[i]

(* Records come in the order of their requests and with ids of their own, the *)
(* root's last.                                                               *)
RecordsInOrder ==
  /\ \A i \in DOMAIN sent :
       /\ sent[i].n <= request.n
       /\ sent[i].span.trace_id \in {Random(sent[i].n), ZeroId} \cup {Given(t) : t \in TraceId}
  /\ \A i, j \in DOMAIN sent : i < j =>
       /\ sent[i].n <= sent[j].n
       /\ sent[i].span.type = "HTTP_IN" => sent[i].n < sent[j].n

(* The records of this request are those of its written spans. *)
RecordsAreWritten ==
  /\ \A i \in DOMAIN sent : sent[i].n = request.n =>
       \E a \in finished : a.fate = "written" /\ a.span = sent[i].span
  /\ \A a \in finished : a.fate = "written" =>
       \E i \in DOMAIN sent : sent[i] = [n |-> request.n, span |-> a.span]

(* Spans finished without a record are counted, in the first request exactly. *)
Losses == {a \in finished : a.fate # "written"}

LossesCounted ==
  /\ request.n = 0 => ~request.traced
  /\ request.n <= 1 => IsFiniteSet(Losses) /\ Cardinality(Losses) = Unsent
  /\ Unsent = 0 => Losses = {}

(* The records of earlier requests are whole trees. *)
EarlierTreesWhole ==
  ~Bailouts /\ Unsent = 0 =>
    \A i \in DOMAIN sent :
      \/ sent[i].n = request.n \/ sent[i].span.type = "HTTP_IN"
      \/ \E j \in DOMAIN sent : ParentRecord(sent[i], sent[j])

(* What is in the ring and with the daemon is what the hooks wrote, in order; *)
(* what is missing was counted where the code counts it, or was too large for *)
(* a record (lumbre_span.c:209-237).                                          *)
ExportInv ==
  /\ ExportTypes /\ DaemonBehind /\ RecordsInOrder /\ RecordsAreWritten
  /\ LossesCounted /\ EarlierTreesWhole
  /\ ~Bailouts => IdsKnown
=============================================================================
