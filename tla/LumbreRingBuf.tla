--------------------------- MODULE LumbreRingBuf ---------------------------
(***************************************************************************)
(* The shared-memory span ring of lumbre_ringbuf.c: one PHP worker writes, *)
(* one daemon reads.  lumbre_ringbuf_write is cut at every access to       *)
(* shared memory, so the daemon can run between any two of its stores, and *)
(* the worker can be killed between any two of them.                       *)
(*                                                                         *)
(* Positions are uint64_t byte counts that only grow; 2^64 bytes are out   *)
(* of reach of a worker's life, so they are naturals here.  The uint32_t   *)
(* sizes keep their width (U32): capacity - 4 underflows for tiny rings.   *)
(***************************************************************************)
EXTENDS Integers, Sequences

CONSTANTS
  Capacity,    (* rb->capacity, a power of 2, so that pos & mask is pos % Capacity *)
  U32,         (* number of uint32_t values, 2^32 in the code                      *)
  Byte,        (* the byte values payloads are made of                             *)
  Payload,     (* the msgpack payloads that may be written: sequences of Byte      *)
  Zero,        (* a byte of the freshly zeroed mapping                             *)
  Mark,        (* a byte of LUMBRE_RINGBUF_PADDING_MARKER                          *)
  MaxWrites    (* bound: how many calls of lumbre_ringbuf_write are explored       *)

(* The bytes that hold a uint32_t length prefix, and the padding marker.  A *)
(* length that passes the size check is below 0xFFFFFFFF, never the marker. *)
LenWord(n) == [k \in 0..3 |-> <<n, k>>]
MarkerWord == [k \in 0..3 |-> Mark]

(* The bytes d hold the word w from cell o on. *)
Holds(d, o, w) == \A k \in 0..3 : d[o + k] = w[k]

ASSUME RingAssumption ==
  /\ Capacity \in Nat \ {0}
  /\ U32 \in Nat /\ 2 * Capacity <= U32
  /\ Payload \subseteq Seq(Byte)
  /\ \A p \in Payload : 4 + Len(p) < U32
  /\ \A n \in 0..Capacity, k \in 0..3 : <<n, k>> # Mark
  /\ MaxWrites \in Nat

VARIABLES
  write_pos,        (* header: bytes published by the worker                  *)
  read_pos,         (* header: bytes released by the daemon                   *)
  dropped,          (* header: spans the worker gave up                       *)
  data,             (* the mapped bytes behind the header                     *)
  local_write_pos,  (* handle: where the worker writes next                   *)
  ppc,              (* where the worker is inside lumbre_ringbuf_write        *)
  payload,          (* argument of the call in progress                       *)
  loaded_read_pos,  (* its local copy of read_pos                             *)
  visible_read_pos, (* the value of read_pos a relaxed load of the worker sees *)
  alive,            (* the worker process has not been killed                 *)
  cursor,           (* daemon: position of the next message                   *)
  avail,            (* daemon: write_pos as it last loaded it                 *)
  rlen,             (* daemon: length prefix of the message being copied, or  *)
                    (* Idle, or Garbled                                       *)
  log,              (* history: every message published, in order             *)
  received          (* history: every message the daemon copied out, in order *)

shared == <<write_pos, read_pos, dropped, data>>
worker == <<local_write_pos, ppc, payload, loaded_read_pos, visible_read_pos, alive>>
daemon == <<cursor, avail, rlen>>
vars   == <<shared, worker, daemon, log, received>>

Idle    == -1
Garbled == -2

(* The ring, and the three bytes behind it that a 4-byte access to its last *)
(* offsets reaches: they lie in the last page of the mapping, since the 64  *)
(* byte header keeps 64 + capacity from being a multiple of the page size.  *)
Cells == 0..(Capacity + 2)

Offset(pos) == pos % Capacity

U32Add(a, b) == IF a + b < U32 THEN a + b ELSE a + b - U32
U32Sub(a, b) == IF a >= b THEN a - b ELSE a - b + U32

(* 4-byte length prefix and the payload behind it. *)
Needed(p) == U32Add(4, Len(p))

Init ==
  /\ write_pos = 0 /\ read_pos = 0 /\ dropped = 0
  /\ data = [c \in Cells |-> Zero]
  /\ local_write_pos = 0
  /\ ppc = "idle" /\ payload = << >>
  /\ loaded_read_pos = 0 /\ visible_read_pos = 0
  /\ alive = TRUE
  /\ cursor = 0 /\ avail = 0 /\ rlen = Idle
  /\ log = << >> /\ received = << >>

-----------------------------------------------------------------------------
(***************************************************************************)
(* The worker: lumbre_ringbuf_write.                                       *)
(***************************************************************************)

Used     == local_write_pos - loaded_read_pos
PadBytes == Capacity - Offset(local_write_pos)

(* Mutants: the prefix is not counted; the padding is not counted; the space *)
(* from the offset on is counted instead of the space in use.                *)
Full_NoPrefix     == Used + Len(payload) > Capacity
NoWrapRoom_NoPad  == Used + Needed(payload) > Capacity
NoWrapRoom_Offset == Offset(local_write_pos) + PadBytes + Needed(payload) > Capacity

(* Guards of one call, in the order the code evaluates them. *)
Oversize(p) == Len(p) > U32Sub(Capacity, 4)
Full        == Used + Needed(payload) > Capacity
Straddles   == U32Add(Offset(local_write_pos), Needed(payload)) > Capacity
NoWrapRoom  == Used + PadBytes + Needed(payload) > Capacity

CanCall == alive /\ ppc = "idle" /\ Len(log) + dropped < MaxWrites

(* A payload that can never fit is counted and refused. *)
RefuseOversize(p) ==
  /\ CanCall
  /\ Oversize(p)
  /\ dropped' = dropped + 1
  /\ UNCHANGED <<write_pos, read_pos, data, worker, daemon, log, received>>

(* The relaxed load of read_pos: an older value may be returned. *)
LoadReadPos(p) ==
  /\ CanCall
  /\ ~Oversize(p)
  /\ payload' = p
  /\ loaded_read_pos' = visible_read_pos
  /\ ppc' = "check"
  /\ UNCHANGED <<shared, local_write_pos, visible_read_pos, alive, daemon, log, received>>

(* Mutants: the counter runs down; the worker waits for room. *)
Drop_Down ==
  /\ alive /\ ppc = "check"
  /\ Full \/ (Straddles /\ NoWrapRoom)
  /\ dropped' = dropped - 1
  /\ ppc' = "idle"
  /\ UNCHANGED <<write_pos, read_pos, data, local_write_pos, payload, loaded_read_pos,
                 visible_read_pos, alive, daemon, log, received>>

Drop_Wait ==
  /\ alive /\ ppc = "check"
  /\ Full \/ (Straddles /\ NoWrapRoom)
  /\ loaded_read_pos # visible_read_pos
  /\ loaded_read_pos' = visible_read_pos
  /\ UNCHANGED <<shared, local_write_pos, ppc, payload, visible_read_pos, alive,
                 daemon, log, received>>

(* No room, for the message or for the padding plus the message: drop it. *)
Drop ==
  /\ alive /\ ppc = "check"
  /\ Full \/ (Straddles /\ NoWrapRoom)
  /\ dropped' = dropped + 1
  /\ ppc' = "idle"
  /\ UNCHANGED <<write_pos, read_pos, data, local_write_pos, payload, loaded_read_pos,
                 visible_read_pos, alive, daemon, log, received>>

(* memcpy of the 4-byte word w to cell o. *)
StoreWord(o, w) == data' = [c \in Cells |-> IF c \in o..(o + 3) THEN w[c - o] ELSE data[c]]

(* The message would straddle the end: marker, and on to offset 0. *)
WritePadding ==
  /\ alive /\ ppc = "check"
  /\ ~Full /\ Straddles /\ ~NoWrapRoom
  /\ StoreWord(Offset(local_write_pos), MarkerWord)
  /\ local_write_pos' = local_write_pos + PadBytes
  /\ ppc' = "prefix"
  /\ UNCHANGED <<write_pos, read_pos, dropped, payload, loaded_read_pos,
                 visible_read_pos, alive, daemon, log, received>>

WritePrefix ==
  /\ alive
  /\ ppc = "prefix" \/ (ppc = "check" /\ ~Full /\ ~Straddles)
  /\ StoreWord(Offset(local_write_pos), LenWord(Len(payload)))
  /\ ppc' = "payload"
  /\ UNCHANGED <<write_pos, read_pos, dropped, local_write_pos, payload, loaded_read_pos,
                 visible_read_pos, alive, daemon, log, received>>

WritePayload ==
  /\ alive /\ ppc = "payload"
  /\ LET o == Offset(local_write_pos) + 4 IN
       data' = [c \in Cells |-> IF c \in o..(o + Len(payload) - 1)
                                THEN payload[c - o + 1] ELSE data[c]]
  /\ local_write_pos' = local_write_pos + Needed(payload)
  /\ ppc' = "publish"
  /\ UNCHANGED <<write_pos, read_pos, dropped, payload, loaded_read_pos,
                 visible_read_pos, alive, daemon, log, received>>

(* Mutant: the position published is the one before the message. *)
Publish_Late ==
  /\ alive /\ ppc = "publish"
  /\ write_pos' = local_write_pos - Needed(payload)
  /\ ppc' = "idle"
  /\ log' = Append(log, [from |-> write_pos,
                         at   |-> local_write_pos - Needed(payload),
                         msg  |-> payload])
  /\ UNCHANGED <<read_pos, dropped, data, local_write_pos, payload, loaded_read_pos,
                 visible_read_pos, alive, daemon, received>>

(* The release store that hands the message, and its padding, to the daemon. *)
Publish ==
  /\ alive /\ ppc = "publish"
  /\ write_pos' = local_write_pos
  /\ ppc' = "idle"
  /\ log' = Append(log, [from |-> write_pos,
                         at   |-> local_write_pos - Needed(payload),
                         msg  |-> payload])
  /\ UNCHANGED <<read_pos, dropped, data, local_write_pos, payload, loaded_read_pos,
                 visible_read_pos, alive, daemon, received>>

(* The worker is killed, wherever it is; the file and the mapping stay. *)
Kill ==
  /\ alive
  /\ alive' = FALSE
  /\ UNCHANGED <<shared, local_write_pos, ppc, payload, loaded_read_pos,
                 visible_read_pos, daemon, log, received>>

-----------------------------------------------------------------------------
(***************************************************************************)
(* The daemon.  It is not part of the repository: its steps follow the     *)
(* reader that tests/test_ringbuf.c simulates it with.                     *)
(***************************************************************************)

(* Mutant: the marker is taken for a message of its own. *)
MessageAt_NoSkip == cursor

(* Where the message at the cursor starts, past a padding marker. *)
MessageAt == IF Holds(data, Offset(cursor), MarkerWord)
             THEN cursor + (Capacity - Offset(cursor))
             ELSE cursor

LengthAt(o) == IF \E n \in 0..Capacity : Holds(data, o, LenWord(n))
               THEN CHOOSE n \in 0..Capacity : Holds(data, o, LenWord(n))
               ELSE Garbled

LoadWritePos ==
  /\ rlen = Idle /\ avail # write_pos
  /\ avail' = write_pos
  /\ UNCHANGED <<shared, worker, cursor, rlen, log, received>>

ReadPrefix ==
  /\ rlen = Idle /\ cursor < avail
  /\ rlen' = LengthAt(Offset(MessageAt))
  /\ UNCHANGED <<shared, worker, cursor, avail, log, received>>

ReadPayload ==
  /\ rlen >= 0
  /\ received' = Append(received, [k \in 1..rlen |-> data[Offset(MessageAt) + 3 + k]])
  /\ cursor' = MessageAt + 4 + rlen
  /\ rlen' = Idle
  /\ UNCHANGED <<shared, worker, avail, log>>

(* Released after one message or after many. *)
StoreReadPos ==
  /\ rlen = Idle /\ cursor # read_pos
  /\ read_pos' = cursor
  /\ UNCHANGED <<write_pos, dropped, data, worker, daemon, log, received>>

(* The store of read_pos becomes visible to the worker's relaxed loads. *)
ReadPosVisible ==
  /\ visible_read_pos # read_pos
  /\ visible_read_pos' = read_pos
  /\ UNCHANGED <<shared, local_write_pos, ppc, payload, loaded_read_pos, alive,
                 daemon, log, received>>

-----------------------------------------------------------------------------
WorkerStep == Drop \/ WritePadding \/ WritePrefix \/ WritePayload \/ Publish
DaemonStep == LoadWritePos \/ ReadPrefix \/ ReadPayload \/ StoreReadPos

Next ==
  \/ \E p \in Payload : RefuseOversize(p) \/ LoadReadPos(p)
  \/ WorkerStep
  \/ Kill
  \/ DaemonStep
  \/ ReadPosVisible

Spec == Init /\ [][Next]_vars

(* A call that has begun runs on unless the worker is killed; nothing makes *)
(* PHP call again.                                                          *)
WorkerFairness == WF_vars(WorkerStep)

(* A running daemon polls, and stores reach the other core eventually. *)
DaemonFairness == WF_vars(DaemonStep) /\ WF_vars(ReadPosVisible)

(* Nothing makes sure that a daemon runs at all. *)
FairSpec == Spec /\ WorkerFairness

-----------------------------------------------------------------------------
(***************************************************************************)
(* Safety.                                                                 *)
(***************************************************************************)

CellValue == Byte \cup {Zero, Mark} \cup ((0..Capacity) \X (0..3))

Message == [from : Nat, at : Nat, msg : Payload]

(* Every variable keeps its type; in particular the daemon copies bytes of  *)
(* the mapping only, and the ring positions never run below zero.           *)
TypeOK ==
  /\ write_pos \in Nat /\ read_pos \in Nat /\ dropped \in Nat
  /\ data \in [Cells -> CellValue]
  /\ local_write_pos \in Nat
  /\ ppc \in {"idle", "check", "prefix", "payload", "publish"}
  /\ payload \in Payload \cup {<< >>}
  /\ loaded_read_pos \in Nat /\ visible_read_pos \in Nat
  /\ alive \in BOOLEAN
  /\ cursor \in Nat /\ avail \in Nat
  /\ rlen \in (0..Capacity) \cup {Idle, Garbled}
  /\ log \in Seq(Message)
  /\ received \in Seq(Seq(CellValue))

(* What the daemon copies out is what lumbre_ringbuf_write was given: each   *)
(* message once, whole, in order, and never padding or a torn prefix - with  *)
(* a stale read_pos in the worker, across the wrap-around, and after a kill. *)
Fifo ==
  /\ rlen # Garbled
  /\ Len(received) <= Len(log)
  /\ \A i \in 1..Len(received) : received[i] = log[i].msg

(* The space check against a stale read_pos is enough: the worker is never   *)
(* more than a ring ahead of what it knows to be read, and the daemon never  *)
(* ahead of the write_pos it acquired.                                       *)
PositionsOrdered ==
  /\ visible_read_pos <= read_pos /\ read_pos <= cursor
  /\ cursor <= avail /\ avail <= write_pos /\ write_pos <= local_write_pos
  /\ local_write_pos <= visible_read_pos + Capacity

(* The worker's stores never touch a byte the daemon has yet to release:     *)
(* published bytes change only once read_pos has passed them.                *)
UnreadBytesStable ==
  [][\A pos \in read_pos..(write_pos - 1) : data'[Offset(pos)] = data[Offset(pos)]]_vars

(* A message of at most half the ring, prefix included, always goes into a   *)
(* ring the worker knows to be empty, whatever padding the wrap costs.       *)
SmallFitsInEmptyRing ==
  [][Drop => \/ loaded_read_pos < local_write_pos
             \/ 2 * Needed(payload) > Capacity + 1]_vars

(* The part of SpanChannel: messages sent, in order. *)
Chan == INSTANCE SpanChannel WITH
          sent <- [i \in 1..Len(log) |-> log[i].msg], lost <- dropped

(* The ring implements the lossy channel. *)
ImplementsChannel == Chan!Spec

-----------------------------------------------------------------------------
(***************************************************************************)
(* The inductive invariant.                                                *)
(***************************************************************************)

(* Message i starts, with its padding, where message i - 1 ends; the next   *)
(* one will start at write_pos.                                             *)
Start(i) == IF i <= Len(log) THEN log[i].from ELSE write_pos
End(i)   == log[i].at + 4 + Len(log[i].msg)

(* A message in the bytes d: padding or none, then the prefix, the payload. *)
Padded(d, from, at) ==
  \/ at = from
  \/ /\ from < at
     /\ Offset(from) + (at - from) = Capacity
     /\ Holds(d, Offset(from), MarkerWord)

Prefixed(d, at, msg) ==
  /\ Offset(at) + 4 + Len(msg) <= Capacity
  /\ Holds(d, Offset(at), LenWord(Len(msg)))

Filled(d, at, msg) == \A k \in 1..Len(msg) : d[Offset(at) + 3 + k] = msg[k]

Intact(d, m) ==
  /\ Padded(d, m.from, m.at)
  /\ Prefixed(d, m.at, m.msg)
  /\ Filled(d, m.at, m.msg)

Tiled ==
  /\ \A i \in 1..Len(log) : log[i].from <= log[i].at /\ End(i) = Start(i + 1)
  /\ \A i \in 1..Len(log) : \A j \in (i + 1)..(Len(log) + 1) : End(i) <= Start(j)

DaemonInStep ==
  /\ cursor = Start(Len(received) + 1)
  /\ \E j \in 1..(Len(log) + 1) : avail = Start(j)
  /\ rlen # Idle => /\ cursor < avail
                    /\ rlen = Len(log[Len(received) + 1].msg)

UnreadIntact == \A i \in (Len(received) + 1)..Len(log) : Intact(data, log[i])

(* What the call in progress has stored so far, and that it has room. *)
CallInStep ==
  /\ loaded_read_pos <= visible_read_pos
  /\ ppc \in {"idle", "check"} => local_write_pos = write_pos
  /\ ppc # "idle" => payload \in Payload
  /\ ppc \in {"prefix", "payload"} =>
       /\ Padded(data, write_pos, local_write_pos)
       /\ Offset(local_write_pos) + Needed(payload) <= Capacity
       /\ local_write_pos + Needed(payload) <= loaded_read_pos + Capacity
  /\ ppc = "payload" => Prefixed(data, local_write_pos, payload)
  /\ ppc = "publish" =>
       /\ write_pos + Needed(payload) <= local_write_pos
       /\ Intact(data, [from |-> write_pos, at |-> local_write_pos - Needed(payload),
                        msg |-> payload])

IInv ==
  /\ TypeOK
  /\ Fifo
  /\ PositionsOrdered
  /\ Tiled
  /\ DaemonInStep
  /\ UnreadIntact
  /\ CallInStep

-----------------------------------------------------------------------------
(***************************************************************************)
(* Liveness.                                                               *)
(***************************************************************************)

(* Every published message reaches the daemon, if one is running, also when  *)
(* the worker is killed right after its release store.                       *)
PublishedIsDelivered ==
  DaemonFairness => \A n \in 1..MaxWrites : (Len(log) >= n) ~> (Len(received) >= n)

(* PHP never blocks: a call ends, published or dropped, even if no daemon    *)
(* ever takes a step.                                                        *)
CallsReturn == (ppc # "idle") ~> (ppc = "idle" \/ ~alive)
=============================================================================
