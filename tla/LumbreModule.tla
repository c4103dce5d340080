---------------------------- MODULE LumbreModule ----------------------------
(***************************************************************************)
(* The ring files of a host: which process creates, maps and removes which *)
(* file of lumbre.shm_dir, and what the daemon finds there.                *)
(*                                                                         *)
(* A process is started under a pid that no other running one has, runs    *)
(* requests in one thread (NTS) or several (ZTS), each with module globals *)
(* of its own, and exits through MSHUTDOWN, or is killed, or forks.  The   *)
(* first traced request of a thread creates its ring, one system call at a *)
(* time.  What a ring does with its bytes is LumbreRingBuf's business:     *)
(* here a span is one place of the ring.                                   *)
(***************************************************************************)
EXTENDS Integers, Sequences

CONSTANTS
  Process,      (* processes, each with the one life it has                    *)
  Thread, Main, (* threads of a ZTS process, and the one that runs MSHUTDOWN   *)
  Pid,          (* the pids of the host: a pid is free again after its process *)
  Inode, None,  (* files the file system has room for; no file                 *)
  Zts,          (* the processes of a ZTS build, with several threads          *)
  Sapis,        (* sapi_module.name: subset of {"cli", "fpm"}                  *)
  BufferSizes,  (* values of lumbre.buffer_size (PHP_INI_SYSTEM, any integer)  *)
  Width,        (* bits of a uint32_t: 32 in the code                          *)
  SpanSize,     (* bytes a span takes in the ring                              *)
  MaxIds,       (* bound: rings a process tries to create                      *)
  MaxSpans      (* bound: spans written with one ring                          *)

U32 == 2^Width
Ids == 0..(MaxIds - 1)

ASSUME ModuleAssumption ==
  /\ Main \in Thread
  /\ None \notin Inode /\ None \notin (Process \X Nat) \X Nat
  /\ Zts \subseteq Process /\ Sapis \subseteq {"cli", "fpm"}
  /\ Width \in 1..32 /\ SpanSize \in Nat \ {0}
  /\ MaxIds \in Nat \ {0} /\ MaxSpans \in Nat
  /\ BufferSizes \subseteq Int

VARIABLES
  buffer_size,  (* php.ini of the host                                        *)
  process,      (* engine: state of every process, and lumbre_worker_counter  *)
  globals,      (* the module globals of every thread                         *)
  dir,          (* lumbre.shm_dir: the file under each name                   *)
  file,         (* the files: size, header and ring                           *)
  opened,       (* daemon: the files it has mapped                            *)
  reader,       (* daemon: its own positions in each of them                  *)
  sent,         (* history: spans published by each producer                  *)
  received,     (* history: of these, what the daemon got, in order           *)
  cut,          (* history: unread spans in files that were truncated         *)
  misled        (* history: producers that took over a file the daemon had    *)
                (* seen spans in                                              *)

daemon  == <<opened, reader>>
history == <<sent, received, cut, misled>>
vars    == <<buffer_size, process, globals, dir, file, daemon, history>>

Worker   == Process \X Thread
Name     == Pid \X Ids          (* lumbre_<pid>_<worker_id>                    *)
Producer == Process \X Ids      (* who writes into one ring                    *)
Fields   == {"magic", "layout"} (* version, capacity, pid and worker_id        *)

NoName   == <<None, 0>>
NoHeader == [magic |-> FALSE, capacity |-> 0, owner |-> NoName]
NoSpans  == [pos \in 0..(MaxSpans - 1) |-> None]

(* A file open has created or truncated. *)
EmptyFile == [sized |-> FALSE, header |-> NoHeader, write_pos |-> 0, read_pos |-> 0,
              data |-> NoSpans]

(* The daemon starts at the first span, and knows of none. *)
AtStart == [cursor |-> 0, avail |-> 0]

(* The module globals GINIT has zeroed; then MINIT registers the INI entries. *)
ZeroGlobals == [initialized |-> FALSE, pc |-> "idle", todo |-> {},
                ring |-> None, path |-> NoName, capacity |-> 0, local_write_pos |-> 0]

Init ==
  /\ buffer_size \in BufferSizes
  /\ process = [p \in Process |-> [state |-> "none", pid |-> None,
                                   sapi |-> "cli", counter |-> 0]]
  /\ globals = [w \in Worker |-> ZeroGlobals]
  /\ dir = [n \in Name |-> None] /\ file = [i \in Inode |-> EmptyFile]
  /\ opened = {} /\ reader = [i \in Inode |-> AtStart]
  /\ sent = [r \in Producer |-> 0] /\ received = [r \in Producer |-> << >>]
  /\ cut = {} /\ misled = {}

-----------------------------------------------------------------------------
(***************************************************************************)
(* lumbre_next_power_of_2, on the set of the bits that are 1.              *)
(***************************************************************************)

Bits(v)  == {b \in 0..(Width - 1) : (v \div 2^b) % 2 = 1}
Value(s) == LET sum[k \in 0..Width] ==
                  IF k = 0 THEN 0 ELSE sum[k - 1] + (IF k - 1 \in s THEN 2^(k - 1) ELSE 0)
            IN sum[Width]

(* v |= v >> k *)
Smeared(s, k) == s \cup {b \in 0..(Width - 1) : b + k \in s}

Smear(s) == Smeared(Smeared(Smeared(Smeared(Smeared(s, 1), 2), 4), 8), 16)

(* Mutant: without the last shift. *)
NextPowerOf2_NoLast(v) ==
  IF v = 0 THEN 1
  ELSE IF Bits(v) \cap Bits(v - 1) = {} THEN v
  ELSE (Value(Smeared(Smeared(Smeared(Smeared(Bits(v - 1), 1), 2), 4), 8)) + 1) % U32

NextPowerOf2(v) ==
  IF v = 0 THEN 1
  ELSE IF Bits(v) \cap Bits(v - 1) = {} THEN v
  ELSE (Value(Smear(Bits(v - 1))) + 1) % U32

(* The cast (uint32_t)LUMBRE_G(buffer_size), then the rounding. *)
Capacity == NextPowerOf2(buffer_size % U32)

-----------------------------------------------------------------------------
(***************************************************************************)
(* Processes and threads (the engine and the kernel, external).            *)
(***************************************************************************)

Up(p) == process[p].state = "up"
FreePid(pid) == \A p \in Process : Up(p) => process[p].pid # pid

(* A thread that handles requests. *)
Runs(w) == Up(w[1]) /\ (w[1] \in Zts \/ w[2] = Main)

(* GINIT and MINIT. *)
Start(p, pid, sapi) ==
  /\ process[p].state = "none" /\ FreePid(pid)
  /\ process' = [process EXCEPT ![p] = [state |-> "up", pid |-> pid,
                                        sapi |-> sapi, counter |-> 0]]
  /\ UNCHANGED <<buffer_size, globals, dir, file, daemon, history>>

(* The globals of a process that is gone. *)
Forgotten(p) == [w \in Worker |-> IF w[1] = p THEN ZeroGlobals ELSE globals[w]]

Kill(p) ==
  /\ Up(p)
  /\ process' = [process EXCEPT ![p].state = "killed", ![p].counter = 0]
  /\ globals' = Forgotten(p)
  /\ UNCHANGED <<buffer_size, dir, file, daemon, history>>

(* A thread of a ZTS process ends, and GINIT zeroes the globals of the one   *)
(* that takes its place: the module has no GSHUTDOWN.                        *)
ThreadEnds(w) ==
  /\ Runs(w) /\ w[2] # Main
  /\ globals[w].pc = "idle" /\ globals[w] # ZeroGlobals
  /\ globals' = [globals EXCEPT ![w] = ZeroGlobals]
  /\ UNCHANGED <<buffer_size, process, dir, file, daemon, history>>

(* pcntl_fork in a script: the child has the globals of the parent, and the  *)
(* mapping, which is shared.                                                 *)
Fork(p, q, pid) ==
  /\ Up(p) /\ globals[<<p, Main>>].pc = "idle"
  /\ process[q].state = "none" /\ (q \in Zts <=> p \in Zts) /\ FreePid(pid)
  /\ process' = [process EXCEPT ![q] = [process[p] EXCEPT !.pid = pid]]
  /\ globals' = [globals EXCEPT ![<<q, Main>>] = globals[<<p, Main>>]]
  /\ UNCHANGED <<buffer_size, dir, file, daemon, history>>

-----------------------------------------------------------------------------
(***************************************************************************)
(* The first RINIT of a thread: lumbre_worker_id and lumbre_ringbuf_init.  *)
(***************************************************************************)

(* Mutant: the counter is read and not advanced. *)
Counted_Not(p) == process

WorkerId(p) == IF p \in Zts THEN process[p].counter ELSE 0
Counted(p)  == IF p \in Zts THEN [process EXCEPT ![p].counter = @ + 1] ELSE process

(* Mutant: every request creates the ring again. *)
MayInit_Again(w) ==
  /\ Runs(w) /\ globals[w].pc = "idle"
  /\ WorkerId(w[1]) < MaxIds

MayInit(w) ==
  /\ Runs(w) /\ globals[w].pc = "idle"
  /\ ~globals[w].initialized
  /\ WorkerId(w[1]) < MaxIds

(* No name leads to it, no process and no daemon has it mapped. *)
Unused(i) ==
  /\ \A n \in Name : dir[n] # i
  /\ \A w \in Worker : globals[w].ring # i
  /\ i \notin opened

(* What was published and not yet copied. *)
Unread(i) == {file[i].data[pos] : pos \in reader[i].cursor..(file[i].write_pos - 1)}

(* open with O_CREAT and O_TRUNC: a file of that name is emptied and reused;  *)
(* of new files any is as good as another.                                   *)
Open(w) ==
  /\ MayInit(w)
  /\ LET id   == WorkerId(w[1])
         name == <<process[w[1]].pid, id>>
         i    == IF dir[name] # None THEN dir[name] ELSE CHOOSE j \in Inode : Unused(j)
     IN   /\ dir[name] # None \/ \E j \in Inode : Unused(j)
          /\ dir'  = [dir EXCEPT ![name] = i]
          /\ file' = [file EXCEPT ![i] = EmptyFile]
          /\ cut'  = IF dir[name] # None THEN cut \cup Unread(i) ELSE cut
          /\ misled' = IF reader[i] = AtStart THEN misled \ {<<w[1], id>>}
                       ELSE misled \cup {<<w[1], id>>}
          /\ globals' = [globals EXCEPT ![w].pc = "opened", ![w].ring = i, ![w].path = name]
  /\ process' = Counted(w[1])
  /\ UNCHANGED <<buffer_size, daemon, sent, received>>

(* No path of 255 bytes, no permission, no room.  RINIT clears enabled; once *)
(* the INI entry is restored, a later request tries again.                   *)
OpenFails(w) ==
  /\ MayInit(w)
  /\ process' = Counted(w[1])
  /\ UNCHANGED <<buffer_size, globals, dir, file, daemon, history>>

(* ftruncate to the header and the ring. *)
Resize(w) ==
  /\ globals[w].pc = "opened"
  /\ file'    = [file EXCEPT ![globals[w].ring].sized = TRUE]
  /\ globals' = [globals EXCEPT ![w].pc = "sized"]
  /\ UNCHANGED <<buffer_size, process, dir, daemon, history>>

(* What a failing init leaves in the globals is not used again. *)
(* Mutant: the file stays behind. *)
ResizeOrMapFails_KeepFile(w) ==
  /\ globals[w].pc \in {"opened", "sized"}
  /\ globals' = [globals EXCEPT ![w] = ZeroGlobals]
  /\ UNCHANGED <<buffer_size, process, dir, file, daemon, history>>

(* ftruncate or mmap fails: the file is closed and unlinked again. *)
ResizeOrMapFails(w) ==
  /\ globals[w].pc \in {"opened", "sized"}
  /\ globals' = [globals EXCEPT ![w] = ZeroGlobals]
  /\ dir'     = [dir EXCEPT ![globals[w].path] = None]
  /\ UNCHANGED <<buffer_size, process, file, daemon, history>>

(* mmap and memset. *)
Map(w) ==
  /\ globals[w].pc = "sized"
  /\ file'    = [file EXCEPT ![globals[w].ring] = [EmptyFile EXCEPT !.sized = TRUE]]
  /\ globals' = [globals EXCEPT ![w].pc = "mapped", ![w].todo = Fields]
  /\ UNCHANGED <<buffer_size, process, dir, daemon, history>>

(* Plain stores: the other side may see them in any order. *)
StoreHeader(w, f) ==
  /\ globals[w].pc = "mapped" /\ f \in globals[w].todo
  /\ file' = [file EXCEPT ![globals[w].ring].header =
                IF f = "magic" THEN [@ EXCEPT !.magic = TRUE]
                ELSE [@ EXCEPT !.capacity = Capacity, !.owner = globals[w].path]]
  /\ globals' = [globals EXCEPT ![w].todo = @ \ {f}]
  /\ UNCHANGED <<buffer_size, process, dir, daemon, history>>

(* Mutants: the handle is filled before the header, or with the size that was *)
(* asked for.                                                                *)
FillHandle_Early(w) ==
  /\ globals[w].pc = "mapped"
  /\ globals' = [globals EXCEPT ![w].initialized = TRUE, ![w].pc = "idle",
                                ![w].capacity = Capacity, ![w].local_write_pos = 0]
  /\ UNCHANGED <<buffer_size, process, dir, file, daemon, history>>

FillHandle_Unrounded(w) ==
  /\ globals[w].pc = "mapped" /\ globals[w].todo = {}
  /\ globals' = [globals EXCEPT ![w].initialized = TRUE, ![w].pc = "idle",
                                ![w].capacity = buffer_size % U32, ![w].local_write_pos = 0]
  /\ UNCHANGED <<buffer_size, process, dir, file, daemon, history>>

FillHandle(w) ==
  /\ globals[w].pc = "mapped" /\ globals[w].todo = {}
  /\ globals' = [globals EXCEPT ![w].initialized = TRUE, ![w].pc = "idle",
                                ![w].capacity = Capacity, ![w].local_write_pos = 0]
  /\ UNCHANGED <<buffer_size, process, dir, file, daemon, history>>

-----------------------------------------------------------------------------
(***************************************************************************)
(* The spans of a request: lumbre_ringbuf_write, a place at a time.  Spans *)
(* it drops change nothing here.                                           *)
(***************************************************************************)

Ring(w) == file[globals[w].ring]

(* Room for one more span, seen from a relaxed load that returned r; below 0  *)
(* the sum is a huge uint64_t.                                               *)
Room(w, r) == (globals[w].local_write_pos - r + 1) * SpanSize \in 0..globals[w].capacity

MayFinishSpan(w) ==
  /\ Runs(w) /\ globals[w].initialized /\ globals[w].pc = "idle"
  /\ globals[w].local_write_pos < MaxSpans

Write(w) ==
  /\ MayFinishSpan(w)
  /\ \E r \in 0..Ring(w).read_pos : Room(w, r)
  /\ LET g == globals[w]
         r == <<w[1], g.path[2]>>
     IN /\ sent' = [sent EXCEPT ![r] = @ + 1]
        /\ file' = [file EXCEPT ![g.ring].data[g.local_write_pos] = <<r, sent'[r]>>,
                                ![g.ring].write_pos = g.local_write_pos + 1]
  /\ globals' = [globals EXCEPT ![w].local_write_pos = @ + 1]
  /\ UNCHANGED <<buffer_size, process, dir, daemon, received, cut, misled>>

-----------------------------------------------------------------------------
(***************************************************************************)
(* MSHUTDOWN, in the main thread, when no request runs any more.           *)
(***************************************************************************)

Exits(p) ==
  /\ Up(p) /\ \A w \in Worker : w[1] = p => globals[w].pc = "idle"
  /\ process' = [process EXCEPT ![p].state = "exited", ![p].counter = 0]
  /\ globals' = Forgotten(p)
  /\ UNCHANGED <<buffer_size, file, daemon, history>>

(* Mutant: the file is unlinked in the CLI too. *)
Exit_Unlink(p) ==
  /\ Exits(p)
  /\ dir' = IF globals[<<p, Main>>].initialized
            THEN [dir EXCEPT ![globals[<<p, Main>>].path] = None]
            ELSE dir

(* The ring of the main thread is unlinked, except in the CLI; the rings of  *)
(* other threads stay.                                                       *)
Exit(p) ==
  /\ Exits(p)
  /\ dir' = IF globals[<<p, Main>>].initialized /\ process[p].sapi # "cli"
            THEN [dir EXCEPT ![globals[<<p, Main>>].path] = None]
            ELSE dir

-----------------------------------------------------------------------------
(***************************************************************************)
(* The daemon (external): it maps the files it finds, and reads them with    *)
(* positions of its own (tests/test_ringbuf.c), which no truncation resets.  *)
(* It touches no file without its size: that is a fault.                     *)
(***************************************************************************)

Adopt(i) ==
  /\ i \notin opened /\ \E n \in Name : dir[n] = i
  /\ opened' = opened \cup {i}
  /\ UNCHANGED <<buffer_size, process, globals, dir, file, reader, history>>

Mapped(i) == i \in opened /\ file[i].sized

(* The acquire load of write_pos. *)
LoadWritePos(i) ==
  /\ Mapped(i) /\ reader[i].avail # file[i].write_pos
  /\ reader' = [reader EXCEPT ![i].avail = file[i].write_pos]
  /\ UNCHANGED <<buffer_size, process, globals, dir, file, opened, history>>

(* The next span.  Where the zeros of a new file are, it finds no length it  *)
(* can take, and goes no further.                                            *)
Read(i) ==
  /\ Mapped(i) /\ reader[i].cursor < reader[i].avail
  /\ LET span == file[i].data[reader[i].cursor]
     IN /\ span # None
        /\ received' = [received EXCEPT ![span[1]] = Append(@, span[2])]
  /\ reader' = [reader EXCEPT ![i].cursor = @ + 1]
  /\ UNCHANGED <<buffer_size, process, globals, dir, file, opened, sent, cut, misled>>

(* The release store of read_pos, after one span or after many. *)
StoreReadPos(i) ==
  /\ Mapped(i) /\ reader[i].cursor # file[i].read_pos
  /\ file' = [file EXCEPT ![i].read_pos = reader[i].cursor]
  /\ UNCHANGED <<buffer_size, process, globals, dir, daemon, history>>

-----------------------------------------------------------------------------
DaemonStep(i) == LoadWritePos(i) \/ Read(i) \/ StoreReadPos(i)

Next ==
  \/ \E p \in Process :
       \/ \E pid \in Pid, sapi \in Sapis : Start(p, pid, sapi)
       \/ Kill(p) \/ Exit(p)
  \/ \E w \in Worker :
       \/ ThreadEnds(w)
       \/ Open(w) \/ OpenFails(w) \/ Resize(w) \/ ResizeOrMapFails(w) \/ Map(w)
       \/ \E f \in Fields : StoreHeader(w, f)
       \/ FillHandle(w) \/ Write(w)
  \/ \E i \in Inode : Adopt(i) \/ DaemonStep(i)

Spec == Init /\ [][Next]_vars

(* The same host when scripts fork. *)
ForkNext == Next \/ \E p, q \in Process, pid \in Pid : Fork(p, q, pid)
ForkSpec == Init /\ [][ForkNext]_vars

(* A running daemon looks into the directory again and again, and reads what *)
(* its files hold.                                                           *)
DaemonFairness == \A i \in Inode : WF_vars(Adopt(i)) /\ WF_vars(DaemonStep(i))

FairSpec == Spec /\ DaemonFairness

-----------------------------------------------------------------------------
(***************************************************************************)
(* Properties.                                                             *)
(***************************************************************************)

Count == 0..MaxSpans
Span  == Producer \X (1..MaxSpans)

(* Every variable has its type: no more is written or read than places       *)
(* exist, and names are those of lumbre_ringbuf.c:82.                        *)
TypeOK ==
  /\ buffer_size \in BufferSizes
  /\ process \in [Process -> [state : {"none", "up", "exited", "killed"}, pid : Pid \cup {None},
                             sapi : {"cli", "fpm"}, counter : Nat]]
  /\ globals \in [Worker -> [initialized : BOOLEAN,
                            pc : {"idle", "opened", "sized", "mapped"}, todo : SUBSET Fields,
                            ring : Inode \cup {None}, path : Name \cup {NoName},
                            capacity : {0, Capacity}, local_write_pos : Count]]
  /\ dir \in [Name -> Inode \cup {None}]
  /\ file \in [Inode -> [sized : BOOLEAN,
                        header : [magic : BOOLEAN, capacity : {0, Capacity},
                                  owner : Name \cup {NoName}],
                        write_pos : Count, read_pos : Count,
                        data : [0..(MaxSpans - 1) -> Span \cup {None}]]]
  /\ opened \subseteq Inode /\ reader \in [Inode -> [cursor : Count, avail : Count]]
  /\ sent \in [Producer -> Nat] /\ received \in [Producer -> Seq(1..MaxSpans)]
  /\ cut \subseteq Span /\ misled \subseteq Producer

(* A ring has one producer: no two threads, of one process or of two, ever   *)
(* map the same file, whatever pid or thread came before (php_lumbre.c:68).  *)
OneRingPerWorker ==
  \A v, w \in Worker : globals[v].ring # None /\ globals[v].ring = globals[w].ring => v = w

(* The ring a worker has open is the file under its own pid and id: nobody's *)
(* failing init, exit or new process takes the name away or puts another     *)
(* file there.                                                               *)
RingIsFindable ==
  \A w \in Worker :
    globals[w].ring # None =>
      /\ globals[w].path[1] = process[w[1]].pid
      /\ dir[globals[w].path] = globals[w].ring

(* A daemon may see a file of no size, or half of its header; once it sees a *)
(* published span, the header is whole and says what the name says           *)
(* (lumbre_ringbuf.c:117-122 before the first release store of write_pos).   *)
HeaderFirst ==
  \A n \in Name :
    LET i == dir[n]
    IN i # None /\ file[i].write_pos > 0 =>
         file[i].sized /\ file[i].header = [magic |-> TRUE, capacity |-> Capacity, owner |-> n]

(* The capacity of a ring is the least power of two that holds buffer_size,  *)
(* or 0, and then every span is dropped, when none fits into a uint32_t.     *)
CapacityIsRounded ==
  \A w \in Worker :
    globals[w].initialized =>
      LET size     == buffer_size % U32
          fitting  == {k \in 0..(Width - 1) : 2^k >= size}
      IN /\ fitting = {} => globals[w].capacity = 0 /\ Ring(w).write_pos = 0
         /\ fitting # {} => \E k \in fitting : /\ globals[w].capacity = 2^k
                                               /\ \A l \in fitting : k <= l

Delivered(r) == {received[r][k] : k \in DOMAIN received[r]}
Reachable    == opened \cup {dir[n] : n \in Name}
Unlinked(p)  == process[p].state = "exited" /\ process[p].sapi # "cli"

(* A published span is with the daemon or in a file the daemon has or finds, *)
(* ahead of its position there.  Only two things lose it: MSHUTDOWN outside  *)
(* the CLI, and a pid that is used again.  The second costs the old process  *)
(* what the daemon had not copied, and the new one, if the daemon still has  *)
(* the positions of the old, spans of its own (php_lumbre.c:430,             *)
(* lumbre_ringbuf.c:91).                                                     *)
LostOnlyByExitOrReuse ==
  /\ \A r \in Producer \ misled : \A n \in 1..sent[r] :
       \/ n \in Delivered(r) \/ <<r, n>> \in cut \/ Unlinked(r[1])
       \/ \E i \in Reachable \ {None} : <<r, n>> \in Unread(i)
  /\ \A span \in cut : ~Up(span[1][1])
  /\ \A r \in misled : \E p \in Process : /\ process[p].state \in {"exited", "killed"}
                                       /\ process[p].pid = process[r[1]].pid
                                       /\ sent[<<p, r[2]>>] > 0

(* Whatever files were truncated, reused or unlinked on the way, with the    *)
(* daemon anywhere in them, it never gets a worker's span twice nor after a  *)
(* later one; and it gets them without a gap, unless it had seen spans in    *)
(* the file before that worker came.                                         *)
InOrder ==
  \A r \in Producer :
    /\ \A j, k \in DOMAIN received[r] : j < k => received[r][j] < received[r][k]
    /\ r \notin misled => \A k \in DOMAIN received[r] : received[r][k] = k

(* No file stays behind that nobody will ever remove or drain: a file is one *)
(* of a running process, of a killed one, of a CLI or of a thread of ZTS.    *)
NoStrayFiles ==
  \A n \in Name :
    dir[n] # None =>
      \E p \in Process :
        /\ process[p].pid = n[1]
        /\ Unlinked(p) => p \in Zts

Arrived(r) == \A n \in 1..sent[r] : n \in Delivered(r) \/ <<r, n>> \in cut

(* Every span reaches a running daemon, after its CLI process has exited or  *)
(* its worker was killed as well, unless MSHUTDOWN or a process of a pid     *)
(* used before is in the way: there is always a time to come when nothing    *)
(* published is waiting.                                                     *)
Drained == []<>(\A r \in Producer : Unlinked(r[1]) \/ r \in misled \/ Arrived(r))

(* php_lumbre.c:426: "In CLI, skip unlink so daemon can drain."  After a CLI *)
(* process has exited, a running daemon gets what it has published, unless   *)
(* its file is truncated first.                                              *)
CliIsDrained ==
  \A r \in Producer :
    process[r[1]].state = "exited" /\ process[r[1]].sapi = "cli" ~> Arrived(r)

-----------------------------------------------------------------------------
(***************************************************************************)
(* The inductive invariant behind the safety properties, by its parts.     *)
(***************************************************************************)

Holds(w)     == globals[w].ring # None
Producing(w) == <<w[1], globals[w].path[2]>>

(* No two running processes share a pid. *)
PidsDiffer ==
  /\ \A p \in Process : Up(p) => process[p].pid \in Pid
  /\ \A p, q \in Process : Up(p) /\ Up(q) /\ process[p].pid = process[q].pid => p = q

(* A ring belongs to a running thread and was given an id its process does   *)
(* not give again; no two threads have one name, and no file has two.        *)
NamesDiffer ==
  /\ \A w \in Worker : Holds(w) =>
       /\ Runs(w) /\ globals[w].path \in Name
       /\ IF w[1] \in Zts THEN globals[w].path[2] < process[w[1]].counter
          ELSE globals[w].path[2] = 0
  /\ \A v, w \in Worker : Holds(v) /\ Holds(w) /\ globals[v].path = globals[w].path => v = w
  /\ \A m, n \in Name : dir[m] # None /\ dir[m] = dir[n] => m = n

(* How far the creation of a ring has come shows in its file; from then on   *)
(* the file has the spans of its thread, and no others.                      *)
InStep(w) ==
  IF ~Holds(w) THEN globals[w] = ZeroGlobals
  ELSE /\ globals[w].initialized <=> globals[w].pc = "idle"
       /\ globals[w].pc # "opened" => Ring(w).sized
       /\ globals[w].pc \in {"mapped", "idle"} =>
            /\ "magic" \notin globals[w].todo => Ring(w).header.magic
            /\ "layout" \notin globals[w].todo =>
                 Ring(w).header.capacity = Capacity /\ Ring(w).header.owner = globals[w].path
       /\ globals[w].pc = "idle" => globals[w].todo = {} /\ globals[w].capacity = Capacity
       /\ globals[w].pc # "idle" => Ring(w).write_pos = 0
       /\ globals[w].local_write_pos = Ring(w).write_pos
       /\ sent[Producing(w)] = Ring(w).write_pos

RingInStep == \A w \in Worker : InStep(w)

(* The producer whose spans a file has. *)
Writer(i) == file[i].data[0][1]

(* A file with spans has the first ones of one producer, from place 0 on: all *)
(* it ever sent, and behind them zeros.  The daemon has none from its position *)
(* on, and all before it if it was there when the file was empty.             *)
SpansInStep ==
  /\ \A i \in Inode :
       /\ \A pos \in file[i].write_pos..(MaxSpans - 1) : file[i].data[pos] = None
       /\ file[i].write_pos > 0 =>
            /\ Writer(i) \in Producer
            /\ sent[Writer(i)] = file[i].write_pos
            /\ \A pos \in 0..(file[i].write_pos - 1) : file[i].data[pos] = <<Writer(i), pos + 1>>
            /\ \A k \in DOMAIN received[Writer(i)] : received[Writer(i)][k] <= reader[i].cursor
            /\ Writer(i) \notin misled =>
                 /\ reader[i].cursor <= reader[i].avail /\ reader[i].avail <= file[i].write_pos
                 /\ Len(received[Writer(i)]) = reader[i].cursor
  /\ \A i, j \in Inode :
       file[i].write_pos > 0 /\ file[j].write_pos > 0 /\ Writer(i) = Writer(j) => i = j

(* The daemon is at the start of a file it does not have, and of the empty    *)
(* ring of a worker it is not misled about; if it is further in a file of the *)
(* directory, there was a worker of that name.                                *)
ReaderInStep ==
  /\ \A i \in Inode : i \notin opened => reader[i] = AtStart
  /\ \A w \in Worker :
       Holds(w) /\ Ring(w).write_pos = 0 /\ Producing(w) \notin misled
         => reader[globals[w].ring] = AtStart
  /\ \A n \in Name :
       dir[n] # None /\ reader[dir[n]] # AtStart =>
         \E r \in Producer : sent[r] > 0 /\ process[r[1]].pid = n[1] /\ r[2] = n[2]

(* The name of a file with spans is that of their producer. *)
NamedAfterWriter ==
  /\ \A w \in Worker : Holds(w) /\ Ring(w).write_pos > 0 => Writer(globals[w].ring) = Producing(w)
  /\ \A n \in Name : dir[n] # None /\ file[dir[n]].write_pos > 0 =>
       LET r == Writer(dir[n]) IN process[r[1]].pid = n[1] /\ r[2] = n[2]

(* Spans come from processes that were started, under ids they have used. *)
IdsAreUsed ==
  /\ \A r \in Producer :
       /\ sent[r] = 0 => received[r] = << >>
       /\ sent[r] > 0 => process[r[1]].state # "none"
       /\ sent[r] > 0 /\ Up(r[1]) =>
            IF r[1] \in Zts THEN r[2] < process[r[1]].counter
            ELSE globals[<<r[1], Main>>].initialized
  /\ \A span \in cut : process[span[1][1]].state # "none"
  /\ \A r \in misled : process[r[1]].state # "none"

(* A process that accounts for the file under a name; if it is an NTS one    *)
(* and runs, the file is its ring.                                           *)
AccountsFor(p, n) ==
  /\ process[p].state # "none" /\ process[p].pid = n[1]
  /\ Unlinked(p) => p \in Zts
  /\ Up(p) /\ p \notin Zts => Holds(<<p, Main>>) /\ globals[<<p, Main>>].path = n

FilesHaveOwners == \A n \in Name : dir[n] # None => \E p \in Process : AccountsFor(p, n)

(* Processes, threads, names and files agree at every step of every creation, *)
(* exit and kill: whose a file is, how far its header has come, and whose     *)
(* spans are in it (lumbre_ringbuf.c:72-134, php_lumbre.c:258-284).           *)
HostInv ==
  /\ PidsDiffer /\ NamesDiffer /\ RingIsFindable
  /\ RingInStep /\ HeaderFirst
  /\ SpansInStep /\ ReaderInStep /\ NamedAfterWriter /\ IdsAreUsed /\ InOrder
  /\ LostOnlyByExitOrReuse /\ FilesHaveOwners
=============================================================================
