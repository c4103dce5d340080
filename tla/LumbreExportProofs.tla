------------------------- MODULE LumbreExportProofs -------------------------
(***************************************************************************)
(* Proofs about the way of a span from the hooks to the daemon, for every  *)
(* number of fibers, functions, spans and requests.                        *)
(***************************************************************************)
EXTENDS LumbreTracerProofs, LumbreExport

-----------------------------------------------------------------------------
(* The worker is the tracer, and the channel between it and the daemon only  *)
(* sees it finish spans.                                                     *)

(* Nothing the ring or the daemon does changes what the tracer does. *)
LEMMA ExportIsTracer == ExportSpec => Spec
  <1>1. ExportInit => Init
    BY DEF ExportInit
  <1>2. [ExportNext]_<<vars, export>> => [Next]_vars
    BY DEF ExportNext, WorkerStep, DaemonStep
  <1> QED BY <1>1, <1>2, PTL DEF ExportSpec, Spec

(* A step of the tracer begins a request, finishes one span, or neither. *)
LEMMA TracerStep ==
  ASSUME TypeOK, TreeInv, Next
  PROVE  \/ UNCHANGED <<finished, request>>
         \/ finished' = {} /\ phase = "idle" /\ request'.n = request.n + 1
         \/ \E o : /\ ctx.active /\ o \notin finished
                   /\ finished' = finished \cup {o} /\ UNCHANGED request
  <1>1. ASSUME NEW header,
               \/ RinitDisabled(header) \/ RinitRingFails(header)
               \/ \E random, trigger \in BOOLEAN : Rinit(header, random, trigger)
        PROVE  finished' = {} /\ phase = "idle" /\ request'.n = request.n + 1
    <2>1. BeginRequest /\ \E traced : RequestIs(header, traced)
      BY <1>1 DEF RinitDisabled, RinitRingFails, Rinit
    <2> QED BY <2>1 DEF BeginRequest, RequestIs
  <1>2. CASE ReturnTraced
    <2>1. PICK fate : finished' = finished \cup {Finished(Top, fate)}
      BY <1>2 DEF ReturnTraced
    <2>2. ctx.active /\ \A a \in finished : a.span.span_id # Top.span_id
      BY <1>2, PopFrames DEF ReturnTraced, TreeInv, OpenSpans
    <2>3. Finished(Top, fate).span = Top /\ request' = request
      BY <1>2 DEF Finished, ReturnTraced, Pop
    <2> QED BY <2>1, <2>2, <2>3
  <1>3. CASE Rshutdown
    <2>1. PICK fate : finished' = finished \cup {Finished(root_span, fate)}
      BY <1>3 DEF Rshutdown
    <2>2. ctx.active /\ request' = request
      BY <1>3 DEF Rshutdown, EndRequest
    <2>3. Finished(root_span, fate).span.type = "HTTP_IN"
      BY <2>2 DEF Finished, TreeInv, RootOpen
    <2>4. Finished(root_span, fate) \notin finished
      BY <2>2, <2>3 DEF TreeInv, RootOpen
    <2> QED BY <2>1, <2>2, <2>4
  <1>4. ASSUME \/ \E type, f : Call(type, f)
               \/ CallPassed \/ ReturnPassed
               \/ \E b \in BOOLEAN : IniSetEnabled(b)
               \/ \E n \in MinDurations : IniSetMinDuration(n)
               \/ Tick \/ Bailout \/ EndScript \/ RshutdownInactive
               \/ \E f \in Fiber : Switch(f)
        PROVE  UNCHANGED <<finished, request>>
    BY <1>4 DEF Call, CallPassed, Push, ReturnPassed, Pop, IniSetEnabled, IniSetMinDuration,
                Tick, Bailout, EndScript, RshutdownInactive, EndRequest, Switch
  <1> QED BY <1>1, <1>2, <1>3, <1>4 DEF Next, CallIo, CallFunc

(* The worker finishes span o and exports it. *)
Exports(o) ==
  /\ ctx.active /\ o \notin finished
  /\ finished' = finished \cup {o} /\ UNCHANGED request
  /\ Exported(o)

(* ... and that is all the channel sees of the worker. *)
LEMMA WorkerCases ==
  ASSUME TypeOK, TreeInv, WorkerStep
  PROVE  \/ UNCHANGED <<finished, request, export>>
         \/ /\ finished' = {} /\ phase = "idle" /\ request'.n = request.n + 1
            /\ UNCHANGED export
         \/ \E o : Exports(o)
  <1>1. CASE UNCHANGED <<finished, request>>
    BY <1>1 DEF WorkerStep, JustFinished
  <1>2. CASE finished' = {} /\ phase = "idle" /\ request'.n = request.n + 1
    BY <1>2 DEF WorkerStep, JustFinished
  <1>3. ASSUME NEW o, ctx.active, o \notin finished,
               finished' = finished \cup {o}, UNCHANGED request
        PROVE  \E p : Exports(p)
    <2>1. JustFinished = {o}
      BY <1>3 DEF JustFinished
    <2>2. Exported(o)
      BY <2>1 DEF WorkerStep
    <2> QED BY <1>3, <2>2 DEF Exports
  <1> QED BY <1>1, <1>2, <1>3, TracerStep DEF WorkerStep

-----------------------------------------------------------------------------
(* What the channel holds. *)

RecordOf(o) == [n |-> request.n, span |-> o.span]

(* An exported span is in the ring, or it is counted. *)
LEMMA ExportedCases ==
  ASSUME ExportTypes, NEW o, Exported(o)
  PROVE  /\ received' = received
         /\ \/ /\ o.fate = "written" /\ sent' = Append(sent, RecordOf(o))
               /\ UNCHANGED <<dropped, overflowed, filtered>> /\ Unsent' = Unsent
            \/ /\ o.fate # "written" /\ sent' = sent /\ Unsent' = Unsent + 1
               /\ dropped' \in Nat /\ overflowed' \in Nat /\ filtered' \in Nat
  <1>1. dropped \in Nat /\ overflowed \in Nat /\ filtered \in Nat
    BY DEF ExportTypes
  <1>2. CASE o.fate = "filtered"
    BY <1>1, <1>2 DEF Exported, Unsent
  <1>3. CASE o.fate = "written"
    BY <1>3 DEF Exported, Unsent, Ring!Send, RecordOf
  <1>4. CASE o.fate = "lost"
    BY <1>1, <1>4 DEF Exported, Unsent, Ring!Lose
  <1> QED BY <1>2, <1>3, <1>4 DEF Exported

(* A span is finished in a traced request, and so not before the first. *)
LEMMA ExportsTyped ==
  ASSUME TypeOK, TreeInv, TypeOK', LossesCounted, NEW o, Exports(o)
  PROVE  /\ o \in Outcome /\ RecordOf(o) \in Record
         /\ RecordOf(o).n = request.n /\ RecordOf(o).span = o.span
  <1>1. o \in Outcome
    BY DEF Exports, TypeOK
  <1>2. request.n \in 0..MaxRequests /\ request.n # 0
    BY DEF Exports, TypeOK, TreeInv, RootOpen, LossesCounted
  <1>3. request.n \in 1..MaxRequests
    BY <1>2, TracerAssumption
  <1> QED BY <1>1, <1>3 DEF RecordOf, Record, Outcome

(* Sending a record adds it behind the others. *)
LEMMA SentGrows ==
  ASSUME sent \in Seq(Record), NEW r \in Record, sent' = Append(sent, r)
  PROVE  /\ sent' \in Seq(Record) /\ Len(sent') = Len(sent) + 1 /\ Len(sent) \in Nat
         /\ \A i \in DOMAIN sent : i \in DOMAIN sent' /\ sent'[i] = sent[i]
         /\ Len(sent) + 1 \in DOMAIN sent' /\ sent'[Len(sent) + 1] = r
         /\ \A i \in DOMAIN sent' : i \in DOMAIN sent \/ i = Len(sent) + 1
  OBVIOUS

-----------------------------------------------------------------------------
(* The invariant ExportInv, step by step. *)

(* What one step may do to the channel. *)
ChannelInv ==
  /\ ExportTypes /\ DaemonBehind /\ RecordsInOrder /\ RecordsAreWritten
  /\ LossesCounted /\ EarlierTreesWhole

(* Records have natural numbers, and the daemon's are among them. *)
LEMMA RecordTyped ==
  ASSUME TypeOK, ExportTypes, DaemonBehind
  PROVE  /\ \A i \in DOMAIN sent : i \in Nat /\ sent[i] \in Record /\ sent[i].n \in Nat \ {0}
         /\ \A i \in DOMAIN received : i \in Nat /\ i \in DOMAIN sent
         /\ request.n \in Nat /\ Unsent \in Nat
  <1>1. sent \in Seq(Record) /\ received \in Seq(Record) /\ Len(received) <= Len(sent)
    BY DEF ExportTypes, DaemonBehind
  <1>2. \A i \in DOMAIN sent : i \in Nat /\ sent[i] \in Record
    BY <1>1
  <1>3. \A r \in Record : r.n \in Nat \ {0}
    BY TracerAssumption DEF Record
  <1>4. \A i \in DOMAIN received : i \in Nat /\ i \in DOMAIN sent
    BY <1>1
  <1>5. request.n \in Nat
    BY TracerAssumption DEF TypeOK
  <1>6. Unsent \in Nat
    BY DEF ExportTypes, Unsent
  <1> QED BY <1>2, <1>3, <1>4, <1>5, <1>6

(* After a request that lost no span, its records are a whole tree too. *)
LEMMA IdleTrees ==
  ASSUME TypeOK, TreeInv, ExportInv, ~Bailouts, phase = "idle", Unsent = 0,
         NEW i \in DOMAIN sent
  PROVE  \/ sent[i].span.type = "HTTP_IN"
         \/ \E j \in DOMAIN sent : ParentRecord(sent[i], sent[j])
  <1>1. CASE sent[i].n # request.n
    BY <1>1 DEF ExportInv, EarlierTreesWhole
  <1>2. CASE sent[i].n = request.n /\ sent[i].span.type # "HTTP_IN"
    <2>1. PICK a \in finished : a.span = sent[i].span
      BY <1>2 DEF ExportInv, RecordsAreWritten
    <2>2. PICK b \in finished : Parent(a, b)
      BY <1>2, <2>1, IdleOrphans DEF ExportInv, NoOrphans
    <2>3. b.fate = "written"
      BY DEF ExportInv, LossesCounted, Losses
    <2>4. PICK j \in DOMAIN sent : sent[j] = [n |-> request.n, span |-> b.span]
      BY <2>3 DEF ExportInv, RecordsAreWritten
    <2>5. a.span.trace_id = b.span.trace_id
      BY DEF TreeInv, OneTree
    <2>6. ParentRecord(sent[i], sent[j])
      BY <1>2, <2>1, <2>2, <2>4, <2>5 DEF ParentRecord, Parent
    <2> QED BY <2>6
  <1> QED BY <1>1, <1>2

(* A request that begins leaves the records of the last one behind. *)
LEMMA BeginKeeps ==
  ASSUME TypeOK, TreeInv, ExportInv,
         finished' = {}, phase = "idle", request'.n = request.n + 1, UNCHANGED export
  PROVE  ChannelInv'
  <1>1. /\ \A i \in DOMAIN sent : sent[i].n \in Nat /\ sent[i].n <= request.n
        /\ request.n \in Nat /\ Unsent \in Nat
    BY RecordTyped DEF ExportInv, RecordsInOrder
  <1>2. UNCHANGED <<sent, received, dropped, overflowed, filtered, Unsent>>
    BY DEF export, Unsent
  <1>3. ExportTypes' /\ DaemonBehind'
    BY <1>2 DEF ExportInv, ExportTypes, DaemonBehind
  <1>4. RecordsInOrder'
    <2>1. \A i \in DOMAIN sent : sent[i].n <= request.n + 1
      BY <1>1
    <2> QED BY <1>2, <2>1 DEF ExportInv, RecordsInOrder
  <1>5. RecordsAreWritten'
    <2>1. \A i \in DOMAIN sent : sent[i].n # request.n + 1
      BY <1>1
    <2> QED BY <1>2, <2>1 DEF RecordsAreWritten
  <1>6. LossesCounted'
    <2>1. Losses' = {} /\ request'.n # 0
      BY <1>1 DEF Losses
    <2>2. ASSUME request'.n <= 1
          PROVE  Unsent = 0
      <3>1. request.n = 0
        BY <1>1, <2>2
      <3>2. Losses = {}
        BY <3>1 DEF ExportInv, LossesCounted, TreeInv, Losses
      <3> QED BY <3>1, <3>2, FS_EmptySet DEF ExportInv, LossesCounted
    <2> QED BY <1>2, <2>1, <2>2, FS_EmptySet DEF LossesCounted
  <1>7. EarlierTreesWhole'
    BY <1>2, IdleTrees DEF EarlierTreesWhole
  <1> QED BY <1>3, <1>4, <1>5, <1>6, <1>7 DEF ChannelInv

(* A span that is written becomes the last record. *)
LEMMA WrittenKeeps ==
  ASSUME TypeOK, TreeInv, TypeOK', TreeInv', ExportInv, NEW o, Exports(o), o.fate = "written"
  PROVE  ChannelInv'
  <1> DEFINE last == Len(sent) + 1
  <1>1. /\ o \in Outcome /\ RecordOf(o) \in Record
        /\ RecordOf(o).n = request.n /\ RecordOf(o).span = o.span
    BY ExportsTyped DEF ExportInv
  <1>2. /\ received' = received /\ sent' = Append(sent, RecordOf(o))
        /\ UNCHANGED <<dropped, overflowed, filtered>> /\ Unsent' = Unsent
        /\ ctx.active /\ request' = request /\ finished' = finished \cup {o}
    BY ExportedCases DEF Exports, ExportInv
  <1>3. /\ sent' \in Seq(Record) /\ Len(sent') = Len(sent) + 1 /\ Len(sent) \in Nat
        /\ \A i \in DOMAIN sent : i \in DOMAIN sent' /\ sent'[i] = sent[i]
        /\ last \in DOMAIN sent' /\ sent'[last] = RecordOf(o)
        /\ \A i \in DOMAIN sent' : i \in DOMAIN sent \/ i = last
    BY <1>1, <1>2, SentGrows DEF ExportInv, ExportTypes
  <1>4. /\ \A i \in DOMAIN sent : i \in Nat /\ i < last /\ sent[i].n \in Nat
        /\ \A i \in DOMAIN received : i \in DOMAIN sent
        /\ request.n \in Nat
    <2>1. \A i \in DOMAIN sent : i \in Nat /\ i < last
      BY <1>3 DEF ExportInv, ExportTypes
    <2> QED BY <2>1, RecordTyped DEF ExportInv
  <1> HIDE DEF last
  <1>5. ExportTypes'
    BY <1>2, <1>3 DEF ExportInv, ExportTypes
  <1>6. DaemonBehind'
    <2>1. Len(received) <= Len(sent')
      BY <1>3 DEF ExportInv, DaemonBehind, ExportTypes
    <2>2. \A i \in DOMAIN received : received[i] = sent'[i]
      BY <1>3, <1>4 DEF ExportInv, DaemonBehind
    <2> QED BY <1>2, <2>1, <2>2 DEF DaemonBehind
  <1>7. RecordsInOrder'
    <2>1. o.span.trace_id \in {Random(request.n), ZeroId} \cup {Given(t) : t \in TraceId}
      <3>1. o.span.trace_id \in OwnIds
        BY <1>2 DEF TreeInv, TraceOfOwnRequest, OwnIds
      <3>2. request.header \in TraceId \cup {NoHeader}
        BY DEF TypeOK
      <3> QED BY <3>1, <3>2 DEF OwnIds
    <2>2. \A i \in DOMAIN sent :
            /\ sent[i].n <= request.n
            /\ sent[i].span.trace_id \in {Random(sent[i].n), ZeroId} \cup {Given(t) : t \in TraceId}
      BY DEF ExportInv, RecordsInOrder
    <2>3. \A i \in DOMAIN sent' :
            /\ sent'[i].n <= request.n
            /\ sent'[i].span.trace_id \in {Random(sent'[i].n), ZeroId} \cup {Given(t) : t \in TraceId}
      BY <1>1, <1>3, <1>4, <2>1, <2>2
    <2>4. ASSUME NEW i \in DOMAIN sent, sent[i].span.type = "HTTP_IN"
          PROVE  sent[i].n < request.n
      <3>1. sent[i].n # request.n
        BY <1>2, <2>4 DEF ExportInv, RecordsAreWritten, TreeInv, RootOpen
      <3> QED BY <1>4, <2>2, <3>1
    <2>5. ASSUME NEW i \in DOMAIN sent', NEW j \in DOMAIN sent', i < j
          PROVE  /\ sent'[i].n <= sent'[j].n
                 /\ sent'[i].span.type = "HTTP_IN" => sent'[i].n < sent'[j].n
      <3>1. i \in DOMAIN sent
        <4>1. CASE i = last
          BY <1>3, <1>4, <2>5, <4>1 DEF last
        <4> QED BY <1>3, <4>1
      <3>2. CASE j \in DOMAIN sent
        BY <1>3, <2>5, <3>1, <3>2 DEF ExportInv, RecordsInOrder
      <3>3. CASE j = last
        BY <1>1, <1>3, <2>2, <2>4, <3>1, <3>3
      <3> QED BY <1>3, <3>2, <3>3
    <2> QED BY <1>2, <2>3, <2>5 DEF RecordsInOrder
  <1>8. RecordsAreWritten'
    <2>1. ASSUME NEW i \in DOMAIN sent', sent'[i].n = request.n
          PROVE  \E a \in finished' : a.fate = "written" /\ a.span = sent'[i].span
      <3>1. CASE i \in DOMAIN sent
        BY <1>2, <1>3, <2>1, <3>1 DEF ExportInv, RecordsAreWritten
      <3>2. CASE i = last
        BY <1>1, <1>2, <1>3, <3>2
      <3> QED BY <1>3, <3>1, <3>2
    <2>2. ASSUME NEW a \in finished', a.fate = "written"
          PROVE  \E i \in DOMAIN sent' : sent'[i] = [n |-> request.n, span |-> a.span]
      <3>1. CASE a \in finished
        BY <1>3, <2>2, <3>1 DEF ExportInv, RecordsAreWritten
      <3>2. CASE a = o
        BY <1>3, <3>2 DEF RecordOf
      <3> QED BY <1>2, <3>1, <3>2
    <2> QED BY <1>2, <2>1, <2>2 DEF RecordsAreWritten
  <1>9. LossesCounted'
    <2>1. Losses' = Losses
      BY <1>2 DEF Losses
    <2> QED BY <1>2, <2>1 DEF ExportInv, LossesCounted
  <1>10. EarlierTreesWhole'
    <2>1. ASSUME ~Bailouts, Unsent = 0, NEW i \in DOMAIN sent', sent'[i].n # request.n,
                 sent'[i].span.type # "HTTP_IN"
          PROVE  \E j \in DOMAIN sent' : ParentRecord(sent'[i], sent'[j])
      <3>1. i \in DOMAIN sent
        BY <1>1, <1>3, <2>1
      <3>2. PICK j \in DOMAIN sent : ParentRecord(sent[i], sent[j])
        BY <1>3, <2>1, <3>1 DEF ExportInv, EarlierTreesWhole
      <3> QED BY <1>3, <3>1, <3>2
    <2> QED BY <1>2, <2>1 DEF EarlierTreesWhole
  <1> QED BY <1>5, <1>6, <1>7, <1>8, <1>9, <1>10 DEF ChannelInv

(* A span that is not written is counted. *)
LEMMA LostKeeps ==
  ASSUME TypeOK, TreeInv, TypeOK', TreeInv', ExportInv, NEW o, Exports(o), o.fate # "written"
  PROVE  ChannelInv'
  <1>1. /\ received' = received /\ sent' = sent /\ Unsent' = Unsent + 1 /\ Unsent \in Nat
        /\ dropped' \in Nat /\ overflowed' \in Nat /\ filtered' \in Nat
        /\ request' = request /\ finished' = finished \cup {o} /\ o \notin finished
    BY ExportedCases, RecordTyped DEF Exports, ExportInv
  <1>2. ExportTypes' /\ DaemonBehind' /\ RecordsInOrder'
    BY <1>1 DEF ExportInv, ExportTypes, DaemonBehind, RecordsInOrder
  <1>3. RecordsAreWritten'
    BY <1>1 DEF ExportInv, RecordsAreWritten
  <1>4. LossesCounted'
    <2>1. Losses' = Losses \cup {o} /\ o \notin Losses
      BY <1>1 DEF Losses
    <2>2. Unsent' # 0
      BY <1>1
    <2>3. ASSUME request.n <= 1
          PROVE  IsFiniteSet(Losses') /\ Cardinality(Losses') = Unsent'
      BY <1>1, <2>1, <2>3, FS_AddElement DEF ExportInv, LossesCounted
    <2> QED BY <1>1, <2>2, <2>3 DEF ExportInv, LossesCounted
  <1>5. EarlierTreesWhole'
    <2>1. Unsent' # 0
      BY <1>1
    <2> QED BY <2>1 DEF EarlierTreesWhole
  <1> QED BY <1>2, <1>3, <1>4, <1>5 DEF ChannelInv

(* The daemon reads the next record. *)
LEMMA DaemonKeeps ==
  ASSUME TypeOK, TreeInv, ExportInv, DaemonStep
  PROVE  ChannelInv'
  <1>1. /\ UNCHANGED <<finished, request, sent, dropped, overflowed, filtered>>
        /\ Len(received) < Len(sent) /\ received' = Append(received, sent[Len(received) + 1])
    BY DEF DaemonStep, Ring!Receive, vars
  <1>2. sent \in Seq(Record) /\ received \in Seq(Record)
    BY DEF ExportInv, ExportTypes
  <1>3. Len(received) + 1 \in DOMAIN sent /\ sent[Len(received) + 1] \in Record
    BY <1>1, <1>2
  <1>4. ExportTypes'
    BY <1>1, <1>2, <1>3 DEF ExportInv, ExportTypes
  <1>5. DaemonBehind'
    <2>1. Len(received') = Len(received) + 1 /\ Len(received) + 1 <= Len(sent)
      BY <1>1, <1>2, <1>3
    <2>2. ASSUME NEW i \in DOMAIN received'
          PROVE  received'[i] = sent[i]
      <3>1. CASE i \in DOMAIN received
        BY <1>1, <1>2, <1>3, <3>1 DEF ExportInv, DaemonBehind
      <3>2. CASE i \notin DOMAIN received
        BY <1>1, <1>2, <1>3, <3>2
      <3> QED BY <3>1, <3>2
    <2> QED BY <1>1, <2>1, <2>2 DEF DaemonBehind
  <1>6. RecordsInOrder' /\ RecordsAreWritten'
    BY <1>1 DEF ExportInv, RecordsInOrder, RecordsAreWritten
  <1>7. Unsent' = Unsent /\ Losses' = Losses
    BY <1>1 DEF Unsent, Losses
  <1>8. LossesCounted' /\ EarlierTreesWhole'
    BY <1>1, <1>7 DEF ExportInv, LossesCounted, EarlierTreesWhole
  <1> QED BY <1>4, <1>5, <1>6, <1>8 DEF ChannelInv

(* Every step of the worker and the daemon keeps ExportInv. *)
LEMMA ExportStep ==
  ASSUME TypeOK, TreeInv, TypeOK', TreeInv', ExportInv, [ExportNext]_<<vars, export>>
  PROVE  ExportInv'
  <1>1. ~Bailouts => IdsKnown'
    <2>1. [Next]_vars
      BY DEF ExportNext, WorkerStep, DaemonStep
    <2> QED BY <2>1, IdsKnownStep DEF ExportInv
  <1>2. ASSUME UNCHANGED <<finished, request, export>>
        PROVE  ChannelInv'
    BY <1>2 DEF ChannelInv, ExportInv, ExportTypes, DaemonBehind, RecordsInOrder,
                RecordsAreWritten, LossesCounted, EarlierTreesWhole, Losses, Unsent, export
  <1>3. CASE WorkerStep
    <2>1. CASE /\ finished' = {} /\ phase = "idle" /\ request'.n = request.n + 1
               /\ UNCHANGED export
      BY <2>1, <1>1, BeginKeeps DEF ChannelInv, ExportInv
    <2>2. ASSUME NEW o, Exports(o)
          PROVE  ChannelInv'
      BY <2>2, WrittenKeeps, LostKeeps
    <2> QED BY <1>1, <1>2, <1>3, <2>1, <2>2, WorkerCases DEF ChannelInv, ExportInv
  <1>4. CASE DaemonStep
    BY <1>1, <1>4, DaemonKeeps DEF ChannelInv, ExportInv
  <1>5. CASE UNCHANGED <<vars, export>>
    BY <1>1, <1>2, <1>5 DEF ChannelInv, ExportInv, vars
  <1> QED BY <1>3, <1>4, <1>5 DEF ExportNext

(* ExportInv is an invariant of the worker and the daemon: every record in   *)
(* the ring is that of a written span of its request, in order, and every    *)
(* span without one is counted (lumbre_span.c:209-237).                      *)
THEOREM ExportInvariant == ExportSpec => [](TypeOK /\ TreeInv /\ ExportInv)
  <1>1. ExportInit => ExportInv
    <2> SUFFICES ASSUME ExportInit PROVE ExportInv
      OBVIOUS
    <2>1. /\ sent = << >> /\ received = << >> /\ Unsent = 0
          /\ dropped = 0 /\ overflowed = 0 /\ filtered = 0
      BY DEF ExportInit, Ring!Init, Unsent
    <2>2. finished = {} /\ request.n = 0 /\ ~request.traced
      BY DEF ExportInit, Init
    <2>3. ExportTypes /\ DaemonBehind /\ RecordsInOrder /\ RecordsAreWritten /\ EarlierTreesWhole
      BY <2>1, <2>2 DEF ExportTypes, DaemonBehind, RecordsInOrder, RecordsAreWritten,
                        EarlierTreesWhole
    <2>4. LossesCounted
      BY <2>1, <2>2, FS_EmptySet DEF LossesCounted, Losses
    <2> QED BY <2>2, <2>3, <2>4 DEF ExportInv, IdsKnown
  <1>2. /\ TypeOK /\ TreeInv /\ TypeOK' /\ TreeInv' /\ ExportInv
        /\ [ExportNext]_<<vars, export>>
        => ExportInv'
    BY ExportStep
  <1> QED BY <1>1, <1>2, ExportIsTracer, TreeInvariant, PTL DEF ExportSpec

(* The hooks and the daemon ask nothing of the ring but what it is shown to   *)
(* implement: SpanChannel, with the records for payloads (lumbre_span.c:235). *)
THEOREM ExportUsesChannel == ExportSpec => Ring!Spec
  <1>1. ExportInit => Ring!Init
    BY DEF ExportInit
  <1>2. ASSUME TypeOK, TreeInv, TypeOK', TreeInv', ExportInv, [ExportNext]_<<vars, export>>
        PROVE  [Ring!Next]_(Ring!channel)
    <2>1. CASE UNCHANGED export
      BY <2>1 DEF Ring!channel, export
    <2>2. ASSUME NEW o, Exports(o)
          PROVE  [Ring!Next]_(Ring!channel)
      <3>1. RecordOf(o) \in Record
        BY <1>2, <2>2, ExportsTyped DEF ExportInv
      <3>2. \/ Ring!Send(RecordOf(o)) \/ Ring!Lose \/ UNCHANGED <<sent, dropped, received>>
        BY <2>2 DEF Exports, Exported, RecordOf
      <3> QED BY <3>1, <3>2 DEF Ring!Next, Ring!channel
    <2>3. CASE WorkerStep
      BY <1>2, <2>1, <2>2, <2>3, WorkerCases DEF export, Ring!channel
    <2>4. CASE DaemonStep
      BY <2>4 DEF DaemonStep, Ring!Next
    <2> QED BY <1>2, <2>1, <2>3, <2>4 DEF ExportNext
  <1>3. /\ TypeOK /\ TreeInv /\ TypeOK' /\ TreeInv' /\ ExportInv
        /\ [ExportNext]_<<vars, export>>
        => [Ring!Next]_(Ring!channel)
    BY <1>2
  <1> QED BY <1>1, <1>3, ExportInvariant, PTL DEF ExportSpec, Ring!Spec

-----------------------------------------------------------------------------
(* What the daemon can rely on. *)

(* The daemon may take the HTTP_IN record for the end of its trace: whatever *)
(* follows belongs to a later request and, if the ids are random, to another *)
(* trace (php_lumbre.c:404-411).                                             *)
THEOREM RootClosesTraceCorrect == ExportSpec => []RootClosesTrace
  <1>1. ASSUME TypeOK, TreeInv, ExportInv
        PROVE  RootClosesTrace
    <2> SUFFICES ASSUME NEW i \in DOMAIN received, NEW j \in DOMAIN received, i < j,
                        received[i].span.type = "HTTP_IN"
                 PROVE  /\ received[j].n > received[i].n
                        /\ \/ received[j].span.trace_id # received[i].span.trace_id
                           \/ received[j].span.trace_id \notin {Random(k) : k \in 1..MaxRequests}
      BY DEF RootClosesTrace
    <2>1. /\ i \in DOMAIN sent /\ j \in DOMAIN sent
          /\ received[i] = sent[i] /\ received[j] = sent[j]
          /\ sent[i].n \in Nat /\ sent[j].n \in Nat
      BY <1>1, RecordTyped DEF ExportInv, DaemonBehind
    <2>2. sent[i].n < sent[j].n
      BY <1>1, <2>1 DEF ExportInv, RecordsInOrder
    <2>3. ASSUME NEW k \in 1..MaxRequests, NEW r \in DOMAIN sent,
                 sent[r].span.trace_id = Random(k)
          PROVE  k = sent[r].n
      BY <1>1, <2>3 DEF ExportInv, RecordsInOrder, Random, ZeroId, Given
    <2> QED BY <2>1, <2>2, <2>3
  <1>2. TypeOK /\ TreeInv /\ ExportInv => RootClosesTrace
    BY <1>1
  <1> QED BY <1>2, ExportInvariant, PTL

(* A daemon that has drained the ring after requests without a bailout, of   *)
(* which nothing was filtered or lost, has every parent of every span        *)
(* (lumbre_span.c:85-90).                                                    *)
THEOREM WholeTreesCorrect == ExportSpec => []WholeTrees
  <1>1. ASSUME TypeOK, TreeInv, ExportInv
        PROVE  WholeTrees
    BY <1>1, IdleTrees DEF WholeTrees
  <1>2. TypeOK /\ TreeInv /\ ExportInv => WholeTrees
    BY <1>1
  <1> QED BY <1>2, ExportInvariant, PTL

(* The ids missing in the ring are those of the spans that were lost. *)
LEMMA MissingAreLosses ==
  ASSUME TypeOK, TreeInv, ExportInv, ~Bailouts, request.n = 1, request.traced, phase = "idle"
  PROVE  Missing = {a.span.span_id : a \in Losses}
  <1>1. 1..(ctx.span_counter - 1) = {a.span.span_id : a \in finished}
    BY IdleIds DEF ExportInv
  <1>2. \A i \in DOMAIN sent : sent[i].n = 1
    <2>1. \A i \in DOMAIN sent : sent[i].n \in Nat \ {0} /\ sent[i].n <= 1
      BY RecordTyped DEF ExportInv, RecordsInOrder
    <2> QED BY <2>1
  <1>3. ASSUME NEW i \in DOMAIN sent
        PROVE  \E a \in finished : a.fate = "written" /\ a.span = sent[i].span
    BY <1>2 DEF ExportInv, RecordsAreWritten
  <1>4. ASSUME NEW a \in finished, a.fate = "written"
        PROVE  \E i \in DOMAIN sent : sent[i].span = a.span
    BY <1>4 DEF ExportInv, RecordsAreWritten
  <1>5. \A a, b \in finished : a.span.span_id = b.span.span_id => a = b
    BY DEF TreeInv, OneTree
  <1>6. ASSUME NEW a \in finished
        PROVE  a \in Losses <=> \A i \in DOMAIN sent : sent[i].span.span_id # a.span.span_id
    BY <1>3, <1>4, <1>5 DEF Losses
  <1> QED BY <1>1, <1>6 DEF Missing, Losses

(* Every id of the first request that the file does not show was filtered,   *)
(* refused by the ring, or too large for a record: none is lost without a    *)
(* count (lumbre_span.c:213, 232 and 235).                                   *)
THEOREM AccountedCorrect == ExportSpec => []Accounted
  <1>1. ASSUME TypeOK, TreeInv, ExportInv
        PROVE  Accounted
    <2> SUFFICES ASSUME ~Bailouts, request.n = 1, request.traced, phase = "idle"
                 PROVE  Cardinality(Missing) = Unsent
      BY DEF Accounted
    <2> DEFINE id == [a \in Losses |-> a.span.span_id]
    <2>1. Missing = {a.span.span_id : a \in Losses}
      BY <1>1, MissingAreLosses
    <2>2. \A a, b \in Losses : a.span.span_id = b.span.span_id => a = b
      BY <1>1 DEF TreeInv, OneTree, Losses
    <2>3. id \in Bijection(Losses, Missing)
      BY <2>1, <2>2 DEF Bijection, Injection, Surjection, IsInjective
    <2>4. IsFiniteSet(Losses) /\ Cardinality(Losses) = Unsent
      BY <1>1 DEF ExportInv, LossesCounted
    <2> QED BY <2>3, <2>4, FS_Bijection DEF ExistsBijection
  <1>2. TypeOK /\ TreeInv /\ ExportInv => Accounted
    BY <1>1
  <1> QED BY <1>2, ExportInvariant, PTL
=============================================================================
