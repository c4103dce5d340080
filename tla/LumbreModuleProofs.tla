-------------------------- MODULE LumbreModuleProofs --------------------------
(***************************************************************************)
(* Proofs about the ring files of a host, for every number of processes,   *)
(* threads, pids and files, every buffer size and every width of integers. *)
(* Scripts do not fork here: ModuleFork shows what happens if they do.     *)
(***************************************************************************)
EXTENDS LumbreModule, TLAPS

Globals == [initialized : BOOLEAN, pc : {"idle", "opened", "sized", "mapped"},
            todo : SUBSET Fields, ring : Inode \cup {None}, path : Name \cup {NoName},
            capacity : {0, Capacity}, local_write_pos : Count]

Header == [magic : BOOLEAN, capacity : {0, Capacity}, owner : Name \cup {NoName}]

File == [sized : BOOLEAN, header : Header, write_pos : Count, read_pos : Count,
         data : [0..(MaxSpans - 1) -> Span \cup {None}]]

Proc == [state : {"none", "up", "exited", "killed"}, pid : Pid \cup {None},
         sapi : {"cli", "fpm"}, counter : Nat]

Reader == [cursor : Count, avail : Count]

-----------------------------------------------------------------------------
(* Types. *)

(* What TypeOK says of the functions among the variables. *)
LEMMA Types ==
  ASSUME TypeOK
  PROVE  /\ process \in [Process -> Proc] /\ globals \in [Worker -> Globals]
         /\ dir \in [Name -> Inode \cup {None}] /\ file \in [Inode -> File]
         /\ sent \in [Producer -> Nat] /\ received \in [Producer -> Seq(1..MaxSpans)]
         /\ buffer_size \in BufferSizes /\ opened \subseteq Inode /\ cut \subseteq Span
         /\ reader \in [Inode -> Reader] /\ misled \subseteq Producer
  BY DEF TypeOK, Globals, Header, File, Proc, Reader

(* ... and the other way round, for the next state. *)
LEMMA NextTypes ==
  ASSUME TypeOK, buffer_size' = buffer_size,
         process' \in [Process -> Proc], globals' \in [Worker -> Globals],
         dir' \in [Name -> Inode \cup {None}], file' \in [Inode -> File],
         sent' \in [Producer -> Nat], received' \in [Producer -> Seq(1..MaxSpans)],
         opened' \subseteq Inode, cut' \subseteq Span,
         reader' \in [Inode -> Reader], misled' \subseteq Producer
  PROVE  TypeOK'
  BY DEF TypeOK, Globals, Header, File, Proc, Reader, Capacity

(* The module globals GINIT leaves, a file as open leaves it, and the daemon *)
(* where it begins.                                                          *)
LEMMA ZeroTyped == ZeroGlobals \in Globals /\ EmptyFile \in File /\ AtStart \in Reader
  <1>1. 0 \in Count
    BY ModuleAssumption DEF Count
  <1>2. ZeroGlobals \in Globals
    BY <1>1 DEF ZeroGlobals, Globals, NoName
  <1>3. NoSpans \in [0..(MaxSpans - 1) -> Span \cup {None}]
    BY DEF NoSpans
  <1>4. NoHeader \in Header
    BY DEF NoHeader, Header
  <1> QED BY <1>1, <1>2, <1>3, <1>4 DEF EmptyFile, File, AtStart, Reader

(* The ids and names lumbre_worker_id gives are in range. *)
LEMMA WorkerIdTyped ==
  ASSUME TypeOK, PidsDiffer, NEW w \in Worker, MayInit(w)
  PROVE  /\ WorkerId(w[1]) \in Ids
         /\ <<process[w[1]].pid, WorkerId(w[1])>> \in Name
         /\ Counted(w[1]) \in [Process -> Proc]
  <1>1. w[1] \in Process /\ process[w[1]] \in Proc
    BY Types DEF Worker
  <1>2. WorkerId(w[1]) \in Nat /\ WorkerId(w[1]) < MaxIds
    BY <1>1 DEF WorkerId, MayInit, Proc
  <1>3. WorkerId(w[1]) \in Ids
    BY <1>2, ModuleAssumption DEF Ids
  <1>4. process[w[1]].pid \in Pid
    BY <1>1 DEF MayInit, Runs, PidsDiffer
  <1>5. Counted(w[1]) \in [Process -> Proc]
    <2>1. [process[w[1]] EXCEPT !.counter = @ + 1] \in Proc
      BY <1>1 DEF Proc
    <2> QED BY <1>1, <2>1, Types DEF Counted
  <1> QED BY <1>3, <1>4, <1>5 DEF Name

(* The spans of a file the daemon has not got are spans of its writer. *)
LEMMA UnreadSpans ==
  ASSUME TypeOK, SpansInStep, NEW i \in Inode
  PROVE  /\ file[i].write_pos \in Count /\ reader[i].cursor \in Count
         /\ Unread(i) = {<<Writer(i), n>> : n \in (reader[i].cursor + 1)..file[i].write_pos}
         /\ Unread(i) \subseteq Span
  <1>1. file[i] \in File /\ reader[i] \in Reader
    BY Types
  <1>2. /\ file[i].write_pos \in 0..MaxSpans /\ reader[i].cursor \in 0..MaxSpans
        /\ MaxSpans \in Nat
    BY <1>1, ModuleAssumption DEF File, Reader, Count
  <1>3. \A pos \in reader[i].cursor..(file[i].write_pos - 1) :
          /\ file[i].write_pos > 0 /\ pos \in 0..(file[i].write_pos - 1)
          /\ pos + 1 \in (reader[i].cursor + 1)..file[i].write_pos /\ pos + 1 \in 1..MaxSpans
    BY <1>2
  <1>4. \A pos \in reader[i].cursor..(file[i].write_pos - 1) :
          file[i].data[pos] = <<Writer(i), pos + 1>> /\ Writer(i) \in Producer
    BY <1>3 DEF SpansInStep
  <1>5. \A n \in (reader[i].cursor + 1)..file[i].write_pos :
          n - 1 \in reader[i].cursor..(file[i].write_pos - 1) /\ (n - 1) + 1 = n
    BY <1>2
  <1>6. Unread(i) = {<<Writer(i), n>> : n \in (reader[i].cursor + 1)..file[i].write_pos}
    <2>1. ASSUME NEW s \in Unread(i)
          PROVE  s \in {<<Writer(i), n>> : n \in (reader[i].cursor + 1)..file[i].write_pos}
      BY <1>3, <1>4 DEF Unread
    <2>2. ASSUME NEW n \in (reader[i].cursor + 1)..file[i].write_pos
          PROVE  <<Writer(i), n>> \in Unread(i)
      <3>1. file[i].data[n - 1] = <<Writer(i), n>>
        BY <1>4, <1>5
      <3> QED BY <1>5, <3>1 DEF Unread
    <2> QED BY <2>1, <2>2
  <1>7. Unread(i) \subseteq Span
    <2>1. \A pos \in reader[i].cursor..(file[i].write_pos - 1) : file[i].data[pos] \in Span
      <3> TAKE pos \in reader[i].cursor..(file[i].write_pos - 1)
      <3>1. <<Writer(i), pos + 1>> \in Span
        BY <1>3, <1>4 DEF Span
      <3> QED BY <1>4, <3>1
    <2> QED BY <2>1 DEF Unread
  <1> QED BY <1>2, <1>6, <1>7 DEF Count

(* What open does: the file under the name is emptied, or an unused one gets *)
(* the name.                                                                 *)
Opens(w, name, i) ==
  /\ MayInit(w) /\ name = <<process[w[1]].pid, WorkerId(w[1])>>
  /\ IF dir[name] # None THEN i = dir[name] ELSE Unused(i)
  /\ dir' = [dir EXCEPT ![name] = i] /\ file' = [file EXCEPT ![i] = EmptyFile]
  /\ cut' = IF dir[name] # None THEN cut \cup Unread(i) ELSE cut
  /\ misled' = IF reader[i] = AtStart THEN misled \ {<<w[1], name[2]>>}
               ELSE misled \cup {<<w[1], name[2]>>}
  /\ globals' = [globals EXCEPT ![w] =
       [globals[w] EXCEPT !.pc = "opened", !.ring = i, !.path = name]]
  /\ process' = Counted(w[1]) /\ process' \in [Process -> Proc]
  /\ UNCHANGED <<buffer_size, opened, reader, sent, received>>

LEMMA OpenGives ==
  ASSUME TypeOK, HostInv, NEW w \in Worker, Open(w)
  PROVE  \E name \in Name, i \in Inode : Opens(w, name, i)
  <1> DEFINE name == <<process[w[1]].pid, WorkerId(w[1])>>
             i    == IF dir[name] # None THEN dir[name] ELSE CHOOSE j \in Inode : Unused(j)
  <1>1. /\ MayInit(w)
        /\ dir[name] # None \/ \E j \in Inode : Unused(j)
        /\ dir' = [dir EXCEPT ![name] = i] /\ file' = [file EXCEPT ![i] = EmptyFile]
        /\ cut' = IF dir[name] # None THEN cut \cup Unread(i) ELSE cut
        /\ misled' = IF reader[i] = AtStart THEN misled \ {<<w[1], WorkerId(w[1])>>}
                     ELSE misled \cup {<<w[1], WorkerId(w[1])>>}
        /\ globals' = [globals EXCEPT ![w].pc = "opened", ![w].ring = i, ![w].path = name]
        /\ process' = Counted(w[1])
        /\ buffer_size' = buffer_size /\ daemon' = daemon
        /\ sent' = sent /\ received' = received
    BY Zenon DEF Open
  <1>2. MayInit(w) /\ process' = Counted(w[1]) /\ PidsDiffer
        /\ (dir[name] # None \/ \E j \in Inode : Unused(j))
    BY <1>1, Zenon DEF HostInv
  <1>3. name \in Name /\ process' \in [Process -> Proc]
    BY <1>2, WorkerIdTyped
  <1>4. name = <<process[w[1]].pid, WorkerId(w[1])>> /\ name[2] = WorkerId(w[1])
    OBVIOUS
  <1> HIDE DEF name
  <1>5. i \in Inode /\ IF dir[name] # None THEN i = dir[name] ELSE Unused(i)
    BY <1>2, <1>3, Types
  <1> HIDE DEF i
  <1>6. globals' = [globals EXCEPT ![w] =
          [globals[w] EXCEPT !.pc = "opened", !.ring = i, !.path = name]]
    BY <1>1
  <1>7. Opens(w, name, i)
    BY <1>1, <1>3, <1>4, <1>5, <1>6 DEF Opens, daemon
  <1> QED BY <1>3, <1>5, <1>7

(* The places of a ring the handle counts are the published ones. *)
Writes(w, i, n, r) ==
  /\ i = globals[w].ring /\ n = Ring(w).write_pos /\ r = Producing(w)
  /\ MayFinishSpan(w) /\ Holds(w) /\ sent[r] = n
  /\ sent' = [sent EXCEPT ![r] = n + 1]
  /\ file' = [file EXCEPT ![i] =
       [file[i] EXCEPT !.data = [file[i].data EXCEPT ![n] = <<r, n + 1>>], !.write_pos = n + 1]]
  /\ globals' = [globals EXCEPT ![w] = [globals[w] EXCEPT !.local_write_pos = n + 1]]

LEMMA WriteGives ==
  ASSUME TypeOK, HostInv, NEW w \in Worker, Write(w)
  PROVE  \E i \in Inode, n \in 0..(MaxSpans - 1), r \in Producer : Writes(w, i, n, r)
  <1>1. MayFinishSpan(w) /\ globals[w] \in Globals
    BY Types DEF Write
  <1>2. Holds(w)
    BY <1>1 DEF MayFinishSpan, HostInv, RingInStep, InStep, ZeroGlobals
  <1>3. globals[w].ring \in Inode /\ globals[w].path \in Name
    BY <1>1, <1>2 DEF Holds, Globals, HostInv, NamesDiffer
  <1>4. Producing(w) \in Producer
    BY <1>3 DEF Producing, Producer, Name, Worker
  <1>5. /\ globals[w].local_write_pos = Ring(w).write_pos
        /\ sent[Producing(w)] = Ring(w).write_pos
    BY <1>2 DEF HostInv, RingInStep, InStep
  <1>6. Ring(w).write_pos \in 0..(MaxSpans - 1)
    BY <1>1, <1>5, ModuleAssumption DEF MayFinishSpan, Globals, Count
  <1>7. sent' = [sent EXCEPT ![Producing(w)] = Ring(w).write_pos + 1]
    BY <1>5, Types DEF Write, Producing
  <1>8. sent'[Producing(w)] = Ring(w).write_pos + 1
    BY <1>4, <1>7, Types
  <1>9. file' = [file EXCEPT ![globals[w].ring] =
               [file[globals[w].ring] EXCEPT
                  !.data = [file[globals[w].ring].data EXCEPT
                              ![Ring(w).write_pos] = <<Producing(w), Ring(w).write_pos + 1>>],
                  !.write_pos = Ring(w).write_pos + 1]]
    <2>1. file' = [file EXCEPT
                     ![globals[w].ring].data[Ring(w).write_pos] = <<Producing(w), Ring(w).write_pos + 1>>,
                     ![globals[w].ring].write_pos = Ring(w).write_pos + 1]
      BY <1>5, <1>8 DEF Write, Producing
    <2> QED BY <1>3, <2>1, Types
  <1>10. globals' = [globals EXCEPT ![w] =
               [globals[w] EXCEPT !.local_write_pos = Ring(w).write_pos + 1]]
    BY <1>5 DEF Write
  <1>11. Writes(w, globals[w].ring, Ring(w).write_pos, Producing(w))
    BY <1>1, <1>2, <1>5, <1>7, <1>9, <1>10 DEF Writes
  <1> QED BY <1>3, <1>4, <1>6, <1>11

(* What the daemon reads is the next span of the file's writer: it finds none *)
(* in the zeros behind the spans.                                            *)
LEMMA ReadGives ==
  ASSUME TypeOK, HostInv, NEW i \in Inode, Read(i)
  PROVE  /\ Writer(i) \in Producer
         /\ reader[i].cursor \in 0..(file[i].write_pos - 1) /\ file[i].write_pos \in Count
         /\ file[i].write_pos > 0 /\ reader[i].cursor < reader[i].avail
         /\ received' = [received EXCEPT ![Writer(i)] =
              Append(received[Writer(i)], reader[i].cursor + 1)]
         /\ reader' = [reader EXCEPT ![i] = [reader[i] EXCEPT !.cursor = reader[i].cursor + 1]]
  <1> DEFINE n == reader[i].cursor
  <1>1. /\ n \in Nat /\ MaxSpans \in Nat /\ reader[i].avail \in 0..MaxSpans
        /\ file[i].write_pos \in Nat /\ file[i].write_pos \in Count
    BY Types, ModuleAssumption DEF Reader, File, Count
  <1>2. n < reader[i].avail /\ file[i].data[n] # None
    BY DEF Read
  <1>3. n < file[i].write_pos
    <2>1. CASE file[i].write_pos <= n
      <3>1. n \in file[i].write_pos..(MaxSpans - 1)
        BY <1>1, <1>2, <2>1
      <3> QED BY <1>2, <3>1 DEF HostInv, SpansInStep
    <2> QED BY <1>1, <2>1
  <1>4. n \in 0..(file[i].write_pos - 1) /\ file[i].write_pos > 0
    BY <1>1, <1>3
  <1>5. Writer(i) \in Producer /\ file[i].data[n] = <<Writer(i), n + 1>>
    BY <1>4 DEF HostInv, SpansInStep
  <1>6. received' = [received EXCEPT ![Writer(i)] = Append(received[Writer(i)], n + 1)]
    BY <1>5 DEF Read
  <1>7. reader' = [reader EXCEPT ![i] = [reader[i] EXCEPT !.cursor = n + 1]]
    BY DEF Read
  <1> QED BY <1>1, <1>2, <1>4, <1>5, <1>6, <1>7

(* Every step keeps the types. *)
LEMMA TypeStep ==
  ASSUME TypeOK, HostInv, [Next]_vars
  PROVE  TypeOK'
  <1>0. \A w \in Worker : w[1] \in Process /\ globals[w] \in Globals
    BY Types DEF Worker
  <1>1. ASSUME NEW p \in Process, NEW pid \in Pid, NEW sapi \in Sapis, Start(p, pid, sapi)
        PROVE  TypeOK'
    <2>1. [state |-> "up", pid |-> pid, sapi |-> sapi, counter |-> 0] \in Proc
      BY ModuleAssumption DEF Proc
    <2> QED BY <1>1, <2>1, Types, NextTypes DEF Start, daemon, history
  <1>2. ASSUME NEW p \in Process, Kill(p) \/ Exits(p),
               dir' \in [Name -> Inode \cup {None}]
        PROVE  TypeOK'
    <2>1. process[p] \in Proc
      BY Types
    <2>2. /\ [process[p] EXCEPT !.state = "killed", !.counter = 0] \in Proc
          /\ [process[p] EXCEPT !.state = "exited", !.counter = 0] \in Proc
      BY <2>1 DEF Proc
    <2>3. process' \in [Process -> Proc]
      BY <1>2, <2>2, Types DEF Kill, Exits
    <2>4. globals' \in [Worker -> Globals]
      BY <1>2, Types, ZeroTyped DEF Kill, Exits, Forgotten
    <2> QED BY <1>2, <2>3, <2>4, Types, NextTypes DEF Kill, Exits, daemon, history
  <1>3. ASSUME NEW p \in Process, Exit(p)
        PROVE  TypeOK'
    <2>1. dir' \in [Name -> Inode \cup {None}]
      BY <1>3, Types DEF Exit
    <2> QED BY <1>2, <1>3, <2>1 DEF Exit
  <1>4. ASSUME NEW w \in Worker, ThreadEnds(w)
        PROVE  TypeOK'
    BY <1>4, Types, ZeroTyped, NextTypes DEF ThreadEnds, daemon, history
  <1>5. ASSUME NEW w \in Worker, Open(w)
        PROVE  TypeOK'
    <2>0. PICK name \in Name, i \in Inode : Opens(w, name, i)
      BY <1>5, OpenGives
    <2>1. /\ dir' = [dir EXCEPT ![name] = i] /\ file' = [file EXCEPT ![i] = EmptyFile]
          /\ cut' = IF dir[name] # None THEN cut \cup Unread(i) ELSE cut
          /\ misled' \subseteq misled \cup {<<w[1], name[2]>>}
          /\ globals' = [globals EXCEPT ![w] =
               [globals[w] EXCEPT !.pc = "opened", !.ring = i, !.path = name]]
          /\ process' \in [Process -> Proc]
          /\ UNCHANGED <<buffer_size, opened, reader, sent, received>>
      BY <2>0 DEF Opens
    <2>2. cut' \subseteq Span
      BY <2>1, Types, UnreadSpans DEF HostInv
    <2>3. [globals[w] EXCEPT !.pc = "opened", !.ring = i, !.path = name] \in Globals
      BY <1>0, <2>1 DEF Globals
    <2>4. globals' \in [Worker -> Globals] /\ file' \in [Inode -> File]
          /\ dir' \in [Name -> Inode \cup {None}]
      BY <2>1, <2>3, Types, ZeroTyped
    <2>5. misled' \subseteq Producer
      BY <1>0, <2>1, Types DEF Producer, Name
    <2> QED BY <2>1, <2>2, <2>4, <2>5, Types, NextTypes
  <1>6. ASSUME NEW w \in Worker, OpenFails(w)
        PROVE  TypeOK'
    BY <1>6, WorkerIdTyped, Types, NextTypes DEF OpenFails, HostInv, daemon, history
  <1>7. ASSUME NEW w \in Worker, globals[w].pc # "idle"
        PROVE  globals[w].ring \in Inode /\ file[globals[w].ring] \in File
    BY <1>0, <1>7, Types DEF HostInv, RingInStep, InStep, ZeroGlobals, Holds, Globals
  <1>8. ASSUME NEW w \in Worker, Resize(w)
        PROVE  TypeOK'
    <2>0. globals[w].ring \in Inode /\ Ring(w) \in File /\ globals[w] \in Globals
      BY <1>0, <1>7, <1>8 DEF Resize, Ring
    <2>a. [Ring(w) EXCEPT !.sized = TRUE] \in File
      BY <2>0 DEF File
    <2>b. [globals[w] EXCEPT !.pc = "sized"] \in Globals
      BY <2>0 DEF Globals
    <2>1. [Ring(w) EXCEPT !.sized = TRUE] \in File /\ [globals[w] EXCEPT !.pc = "sized"] \in Globals
      BY <2>a, <2>b
    <2>2. file' \in [Inode -> File] /\ globals' \in [Worker -> Globals]
      BY <1>8, <2>1, Types DEF Resize, Ring
    <2> QED BY <1>8, <2>2, Types, NextTypes DEF Resize, daemon, history
  <1>9. ASSUME NEW w \in Worker, ResizeOrMapFails(w)
        PROVE  TypeOK'
    BY <1>9, Types, ZeroTyped, NextTypes DEF ResizeOrMapFails, daemon, history
  <1>10. ASSUME NEW w \in Worker, Map(w)
         PROVE  TypeOK'
    <2>1. /\ [EmptyFile EXCEPT !.sized = TRUE] \in File
          /\ [globals[w] EXCEPT !.pc = "mapped", !.todo = Fields] \in Globals
      BY <1>0, ZeroTyped DEF File, Globals
    <2>2. file' \in [Inode -> File] /\ globals' \in [Worker -> Globals]
      BY <1>10, <2>1, Types DEF Map
    <2> QED BY <1>10, <2>2, Types, NextTypes DEF Map, daemon, history
  <1>11. ASSUME NEW w \in Worker, NEW f \in Fields, StoreHeader(w, f)
         PROVE  TypeOK'
    <2>1. /\ [Ring(w).header EXCEPT !.magic = TRUE] \in Header
          /\ [Ring(w).header EXCEPT !.capacity = Capacity, !.owner = globals[w].path] \in Header
      BY <1>0, <1>7, <1>11 DEF StoreHeader, File, Header, Globals, Ring
    <2>2. PICK h \in Header : file' = [file EXCEPT ![globals[w].ring] = [Ring(w) EXCEPT !.header = h]]
      BY <1>11, <2>1 DEF StoreHeader, Ring
    <2>3. [Ring(w) EXCEPT !.header = h] \in File /\ [globals[w] EXCEPT !.todo = @ \ {f}] \in Globals
      BY <1>0, <1>7, <1>11 DEF StoreHeader, File, Globals, Ring
    <2>4. file' \in [Inode -> File] /\ globals' \in [Worker -> Globals]
      BY <1>11, <2>2, <2>3, Types DEF StoreHeader
    <2> QED BY <1>11, <2>4, Types, NextTypes DEF StoreHeader, daemon, history
  <1>12. ASSUME NEW w \in Worker, FillHandle(w)
         PROVE  TypeOK'
    <2>1. 0 \in Count
      BY ModuleAssumption DEF Count
    <2>2. [globals[w] EXCEPT !.initialized = TRUE, !.pc = "idle", !.capacity = Capacity,
                             !.local_write_pos = 0] \in Globals
      BY <1>0, <2>1 DEF Globals
    <2>3. globals' \in [Worker -> Globals]
      BY <1>12, <2>2, Types DEF FillHandle
    <2> QED BY <1>12, <2>3, Types, NextTypes DEF FillHandle, daemon, history
  <1>13. ASSUME NEW w \in Worker, Write(w)
         PROVE  TypeOK'
    <2>1. PICK i \in Inode, n \in 0..(MaxSpans - 1), r \in Producer : Writes(w, i, n, r)
      BY <1>13, WriteGives
    <2>2. n + 1 \in Count /\ <<r, n + 1>> \in Span /\ n + 1 \in Nat
      BY ModuleAssumption DEF Count, Span
    <2>3. file[i] \in File
      BY Types
    <2>4. [file[i].data EXCEPT ![n] = <<r, n + 1>>] \in [0..(MaxSpans - 1) -> Span \cup {None}]
      BY <2>2, <2>3 DEF File
    <2>5. PICK data : data = [file[i].data EXCEPT ![n] = <<r, n + 1>>]
      OBVIOUS
    <2>6. [file[i] EXCEPT !.data = data, !.write_pos = n + 1] \in File
      BY <2>2, <2>3, <2>4, <2>5 DEF File
    <2>7. [globals[w] EXCEPT !.local_write_pos = n + 1] \in Globals
      BY <1>0, <2>2 DEF Globals
    <2>8. file' \in [Inode -> File]
      BY <2>1, <2>5, <2>6, Types DEF Writes
    <2>9. globals' \in [Worker -> Globals] /\ sent' \in [Producer -> Nat]
      BY <2>1, <2>2, <2>7, Types DEF Writes
    <2> QED BY <1>13, <2>8, <2>9, Types, NextTypes DEF Write, daemon
  <1>14. ASSUME NEW i \in Inode, Adopt(i)
         PROVE  TypeOK'
    BY <1>14, Types, NextTypes DEF Adopt, history
  <1>15. ASSUME NEW i \in Inode, Read(i)
         PROVE  TypeOK'
    <2>1. reader[i].cursor + 1 \in Count /\ reader[i].cursor + 1 \in 1..MaxSpans
      BY <1>15, ReadGives, ModuleAssumption DEF Count
    <2>2. [reader[i] EXCEPT !.cursor = reader[i].cursor + 1] \in Reader
      BY <2>1, Types DEF Reader
    <2>3. Append(received[Writer(i)], reader[i].cursor + 1) \in Seq(1..MaxSpans)
      BY <1>15, <2>1, ReadGives, Types
    <2>4. reader' \in [Inode -> Reader] /\ received' \in [Producer -> Seq(1..MaxSpans)]
      BY <1>15, <2>2, <2>3, ReadGives, Types
    <2>5. UNCHANGED <<buffer_size, process, globals, dir, file, opened, sent, cut, misled>>
      BY <1>15 DEF Read
    <2> QED BY <2>4, <2>5, Types, NextTypes
  <1>16. ASSUME NEW i \in Inode, LoadWritePos(i)
         PROVE  TypeOK'
    <2>1. [reader[i] EXCEPT !.avail = file[i].write_pos] \in Reader
      BY Types DEF Reader, File
    <2>2. reader' \in [Inode -> Reader]
      BY <1>16, <2>1, Types DEF LoadWritePos
    <2> QED BY <1>16, <2>2, Types, NextTypes DEF LoadWritePos, history
  <1>17. ASSUME NEW i \in Inode, StoreReadPos(i)
         PROVE  TypeOK'
    <2>1. [file[i] EXCEPT !.read_pos = reader[i].cursor] \in File
      BY Types DEF Reader, File
    <2>2. file' \in [Inode -> File]
      BY <1>17, <2>1, Types DEF StoreReadPos
    <2> QED BY <1>17, <2>2, Types, NextTypes DEF StoreReadPos, daemon, history
  <1>18. CASE UNCHANGED vars
    BY <1>18, Types, NextTypes DEF vars, daemon, history
  <1> QED BY <1>1, <1>2, <1>3, <1>4, <1>5, <1>6, <1>8, <1>9, <1>10, <1>11, <1>12, <1>13,
             <1>14, <1>15, <1>16, <1>17, <1>18, Types DEF Next, Kill, DaemonStep

-----------------------------------------------------------------------------
(* The inductive invariant, one action at a time. *)

(* Who a producer is misled by is gone for good, and under the same pid.     *)
MisledByOthers ==
  \A r \in misled : \E p \in Process : /\ process[p].state \in {"exited", "killed"}
                                     /\ process[p].pid = process[r[1]].pid
                                     /\ sent[<<p, r[2]>>] > 0

LEMMA MisledKept ==
  ASSUME TypeOK, HostInv, UNCHANGED misled,
         \A p \in Process : process[p].state \in {"exited", "killed"} =>
                             process'[p].state \in {"exited", "killed"},
         \A p \in Process : process[p].state # "none" => process'[p].pid = process[p].pid,
         \A r \in Producer : sent[r] > 0 => sent'[r] > 0
  PROVE  MisledByOthers'
  <1> SUFFICES ASSUME NEW r \in misled
               PROVE  \E p \in Process : /\ process'[p].state \in {"exited", "killed"}
                                         /\ process'[p].pid = process'[r[1]].pid
                                         /\ sent'[<<p, r[2]>>] > 0
    BY DEF MisledByOthers
  <1>1. r \in Producer /\ r[1] \in Process /\ r[2] \in Ids /\ process[r[1]].state # "none"
    BY Types DEF HostInv, IdsAreUsed, Producer
  <1>2. PICK p \in Process : /\ process[p].state \in {"exited", "killed"}
                             /\ process[p].pid = process[r[1]].pid /\ sent[<<p, r[2]>>] > 0
    BY DEF HostInv, LostOnlyByExitOrReuse
  <1>3. <<p, r[2]>> \in Producer
    BY <1>1 DEF Producer
  <1> QED BY <1>1, <1>2, <1>3

(* Start: a process of its own pid, with no ring yet. *)
LEMMA StartInv ==
  ASSUME TypeOK, HostInv, NEW p \in Process, NEW pid \in Pid, NEW sapi \in Sapis,
         Start(p, pid, sapi)
  PROVE  HostInv'
  <1> USE DEF HostInv
  <1>1. /\ process[p].state = "none" /\ FreePid(pid)
        /\ process'[p] = [state |-> "up", pid |-> pid, sapi |-> sapi, counter |-> 0]
        /\ \A q \in Process : q # p => process'[q] = process[q]
        /\ UNCHANGED <<buffer_size, globals, dir, file, opened, reader, sent, received, cut, misled>>
    BY Types DEF Start, daemon, history
  <1>2. Capacity' = Capacity
    BY <1>1 DEF Capacity
  <1>3. \A w \in Worker : w[1] \in Process /\ (Holds(w) => w[1] # p)
    BY <1>1 DEF NamesDiffer, Runs, Up, Worker
  <1>4. \A r \in Producer : r[1] \in Process /\ (sent[r] > 0 => r[1] # p)
    BY <1>1 DEF IdsAreUsed, Producer
  <1>5. PidsDiffer'
    BY <1>1 DEF PidsDiffer, FreePid, Up
  <1>6. NamesDiffer'
    BY <1>1, <1>3 DEF NamesDiffer, Holds, Runs, Up
  <1>7. RingIsFindable'
    BY <1>1, <1>3 DEF RingIsFindable, Holds
  <1>8. RingInStep' /\ HeaderFirst'
    BY <1>1, <1>2 DEF RingInStep, InStep, HeaderFirst, Holds, Ring, Producing
  <1>9. SpansInStep' /\ InOrder'
    BY <1>1 DEF SpansInStep, InOrder, Writer
  <1>10. NamedAfterWriter'
    <2>1. \A w \in Worker : Holds(w)' /\ Ring(w)'.write_pos > 0 =>
            Writer(globals[w].ring)' = Producing(w)'
      BY <1>1, <1>3 DEF NamedAfterWriter, Holds, Ring, Writer, Producing
    <2>2. ASSUME NEW n \in Name, dir[n] # None, file[dir[n]].write_pos > 0
          PROVE  Writer(dir[n]) \in Producer /\ process'[Writer(dir[n])[1]] = process[Writer(dir[n])[1]]
      <3>1. dir[n] \in Inode
        BY <2>2, Types
      <3>2. Writer(dir[n]) \in Producer /\ sent[Writer(dir[n])] > 0
        BY <2>2, <3>1 DEF SpansInStep
      <3> QED BY <1>1, <1>4, <3>2
    <2>3. \A n \in Name : dir[n] # None /\ file[dir[n]].write_pos > 0 =>
            process'[Writer(dir[n])[1]].pid = n[1] /\ Writer(dir[n])[2] = n[2]
      BY <2>2 DEF NamedAfterWriter
    <2>4. \A n : Writer(n)' = Writer(n)
      BY <1>1 DEF Writer
    <2> QED BY <1>1, <2>1, <2>3, <2>4 DEF NamedAfterWriter
  <1>11. \A span \in cut : span[1][1] \in Process /\ span[1][1] # p
    BY <1>1, Types DEF IdsAreUsed, Span, Producer
  <1>12. IdsAreUsed'
    <2>1. \A r \in misled : process'[r[1]].state # "none"
      BY <1>1, Types DEF IdsAreUsed, Producer
    <2> QED BY <1>1, <1>4, <1>11, <2>1 DEF IdsAreUsed, Up
  <1>13. LostOnlyByExitOrReuse'
    <2>1. \A q \in Process : Unlinked(q) => Unlinked(q)'
      BY <1>1 DEF Unlinked
    <2>3. \A span \in cut' : ~Up(span[1][1])'
      BY <1>1, <1>11 DEF LostOnlyByExitOrReuse, Up
    <2>4. Reachable' = Reachable /\ \A i : Unread(i)' = Unread(i)
      BY <1>1 DEF Reachable, Unread
    <2>5. \A r \in Producer : Delivered(r)' = Delivered(r)
      BY <1>1 DEF Delivered
    <2>6. MisledByOthers'
      BY <1>1, MisledKept
    <2> QED BY <1>1, <1>4, <2>1, <2>3, <2>4, <2>5, <2>6 DEF LostOnlyByExitOrReuse, MisledByOthers
  <1>14. FilesHaveOwners'
    <2>1. \A q \in Process, n \in Name : AccountsFor(q, n) => AccountsFor(q, n)'
      BY <1>1 DEF AccountsFor, Unlinked, Up, Holds
    <2> QED BY <1>1, <2>1 DEF FilesHaveOwners
  <1>15. ReaderInStep'
    <2>1. \A w \in Worker : Holds(w)' /\ Ring(w)'.write_pos = 0 /\ Producing(w)' \notin misled' =>
            reader'[globals'[w].ring] = AtStart
      BY <1>1 DEF ReaderInStep, Holds, Ring, Producing
    <2> QED BY <1>1, <1>4, <2>1 DEF ReaderInStep
  <1> QED BY <1>5, <1>6, <1>7, <1>8, <1>9, <1>10, <1>12, <1>13, <1>14, <1>15

(* Kill, and MSHUTDOWN: a process and its globals are gone; of its files at  *)
(* most that of the main thread loses its name, and outside the CLI, unless  *)
(* there are other threads, that is all there was.                           *)
LEMMA GoneInv ==
  ASSUME TypeOK, HostInv, NEW p \in Process, Up(p), NEW state \in {"killed", "exited"},
         process' = [process EXCEPT ![p].state = state, ![p].counter = 0],
         globals' = Forgotten(p), NEW removed \in SUBSET Name,
         dir' = [n \in Name |-> IF n \in removed THEN None ELSE dir[n]],
         \A n \in removed : Holds(<<p, Main>>) /\ n = globals[<<p, Main>>].path /\ Unlinked(p)',
         Unlinked(p)' /\ p \notin Zts /\ Holds(<<p, Main>>) => globals[<<p, Main>>].path \in removed,
         UNCHANGED <<buffer_size, file, opened, reader, sent, received, cut, misled>>
  PROVE  HostInv'
  <1> USE DEF HostInv, Holds, Ring, Producing, Writer, Up
  <1>1. /\ \A q \in Process : q # p => process'[q] = process[q]
        /\ process'[p].state = state /\ process'[p].pid = process[p].pid
        /\ process'[p].sapi = process[p].sapi /\ ~Up(p)'
        /\ process[p].state = "up"
    BY Types DEF Up
  <1>2. \A w \in Worker :
          /\ w[1] \in Process
          /\ w[1] = p => globals'[w] = ZeroGlobals /\ ~Holds(w)'
          /\ w[1] # p => globals'[w] = globals[w] /\ (Holds(w)' <=> Holds(w))
    BY DEF Forgotten, Holds, Worker, ZeroGlobals
  <1>3. \A n \in Name : dir'[n] = IF n \in removed THEN None ELSE dir[n]
    OBVIOUS
  <1>4. Capacity' = Capacity /\ <<p, Main>> \in Worker
    BY ModuleAssumption DEF Capacity, Worker
  <1>5. \A w \in Worker : Holds(w)' => globals[w].path \notin removed
    BY <1>2, <1>4 DEF NamesDiffer
  <1>6. PidsDiffer'
    <2> HIDE DEF Holds, Ring, Producing, Writer, Up
    <2>1. \A q \in Process : Up(q)' => Up(q) /\ process'[q].pid = process[q].pid
      BY <1>1 DEF Up
    <2>2. PidsDiffer
      OBVIOUS
    <2> QED BY <2>1, <2>2 DEF PidsDiffer
  <1>7. NamesDiffer'
    <2>1. \A w \in Worker : Holds(w)' =>
            /\ Runs(w)' /\ globals'[w].path \in Name
            /\ IF w[1] \in Zts THEN globals'[w].path[2] < process'[w[1]].counter
               ELSE globals'[w].path[2] = 0
      <3> TAKE w \in Worker
      <3> HAVE Holds(w)'
      <3>1. w[1] # p /\ w[1] \in Process /\ Holds(w) /\ globals'[w] = globals[w]
        BY <1>2
      <3>2. process'[w[1]] = process[w[1]]
        BY <1>1, <3>1
      <3> QED BY <3>1, <3>2 DEF NamesDiffer, Runs
    <2>2. \A v, w \in Worker :
            Holds(v)' /\ Holds(w)' /\ globals'[v].path = globals'[w].path => v = w
      BY <1>2 DEF NamesDiffer
    <2>3. \A m, n \in Name : dir'[m] # None /\ dir'[m] = dir'[n] => m = n
      BY <1>3 DEF NamesDiffer
    <2> QED BY <2>1, <2>2, <2>3 DEF NamesDiffer
  <1>8. RingIsFindable'
    <2> HIDE DEF Ring, Producing, Writer, Up
    <2> SUFFICES ASSUME NEW w \in Worker, globals'[w].ring # None
                 PROVE  /\ globals'[w].path[1] = process'[w[1]].pid
                        /\ dir'[globals'[w].path] = globals'[w].ring
      BY DEF RingIsFindable
    <2>1. w[1] \in Process /\ w[1] # p /\ globals'[w] = globals[w] /\ Holds(w) /\ Holds(w)'
      BY <1>2 DEF Holds
    <2>2. /\ globals[w].path[1] = process[w[1]].pid /\ dir[globals[w].path] = globals[w].ring
          /\ globals[w].path \in Name
      BY <2>1 DEF RingIsFindable, NamesDiffer, Holds
    <2>3. globals[w].path \notin removed
      BY <1>5, <2>1
    <2> QED BY <1>1, <1>3, <2>1, <2>2, <2>3
  <1>9. RingInStep'
    BY <1>2, <1>4 DEF RingInStep, InStep, Holds, Ring, Producing
  <1>10. HeaderFirst' /\ SpansInStep' /\ InOrder'
    <2>1. HeaderFirst'
      BY <1>3, <1>4 DEF HeaderFirst
    <2>2. SpansInStep'
      BY DEF SpansInStep
    <2>3. InOrder'
      BY DEF InOrder
    <2> QED BY <2>1, <2>2, <2>3
  <1>11. NamedAfterWriter'
    <2>1. \A w \in Worker : Holds(w)' /\ Ring(w)'.write_pos > 0 =>
            Writer(globals[w].ring)' = Producing(w)'
      BY <1>2 DEF NamedAfterWriter, Ring, Writer, Producing
    <2>2. ASSUME NEW n \in Name, dir'[n] # None, file[dir[n]].write_pos > 0
          PROVE  dir'[n] = dir[n] /\ Writer(dir[n])[1] \in Process
      BY <1>3, <2>2, Types DEF SpansInStep, Producer
    <2>3. \A q \in Process : process'[q].pid = process[q].pid
      BY <1>1
    <2>4. ASSUME NEW n \in Name, dir'[n] # None, file[dir[n]].write_pos > 0
          PROVE  process'[Writer(dir[n])[1]].pid = n[1] /\ Writer(dir[n])[2] = n[2]
      BY <2>2, <2>3, <2>4 DEF NamedAfterWriter
    <2>5. \A w \in Worker : Holds(w)' => globals'[w] = globals[w]
      BY <1>2
    <2> QED BY <1>3, <2>1, <2>2, <2>4, <2>5 DEF NamedAfterWriter, Writer, Holds, Ring
  <1>12. IdsAreUsed'
    <2>1. \A r \in Producer : r[1] \in Process
      BY DEF Producer
    <2>3. \A q \in Process : q # p => globals'[<<q, Main>>] = globals[<<q, Main>>]
      BY <1>2, ModuleAssumption DEF Worker
    <2>2. \A span \in cut : span[1][1] \in Process
      BY Types DEF Span, Producer
    <2>4. \A r \in misled : process'[r[1]].state # "none"
      BY <1>1, <2>1, Types DEF IdsAreUsed
    <2> QED BY <1>1, <2>1, <2>2, <2>3, <2>4 DEF IdsAreUsed
  <1>13. LostOnlyByExitOrReuse'
    <2>1. ASSUME NEW r \in Producer, NEW n \in 1..sent[r], NEW i \in Reachable \ {None},
                 <<r, n>> \in Unread(i)
          PROVE  Unlinked(r[1])' \/ i \in Reachable'
      <3>1. CASE i \in opened
        BY <3>1 DEF Reachable
      <3>2. ASSUME NEW m \in Name, dir[m] = i, m \in removed
            PROVE  Unlinked(r[1])'
        <4>1. Holds(<<p, Main>>) /\ m = globals[<<p, Main>>].path /\ i = globals[<<p, Main>>].ring
          BY <1>4, <3>2 DEF RingIsFindable, Holds
        <4>2. i \in Inode
          BY <2>1, <3>2, Types
        <4>3. file[i].write_pos > 0 /\ r = Writer(i)
          BY <2>1, <4>2, UnreadSpans, ModuleAssumption DEF Count
        <4>4. r[1] = p
          <5>1. Ring(<<p, Main>>).write_pos > 0 /\ Writer(i) = Writer(globals[<<p, Main>>].ring)
            BY <4>1, <4>3 DEF Ring
          <5>2. r = Producing(<<p, Main>>)
            BY <1>4, <4>1, <4>3, <5>1 DEF NamedAfterWriter
          <5> QED BY <5>2 DEF Producing
        <4> QED BY <3>2, <4>4
      <3>3. ASSUME NEW m \in Name, dir[m] = i, m \notin removed
            PROVE  i \in Reachable'
        BY <1>3, <3>3 DEF Reachable
      <3> QED BY <3>1, <3>2, <3>3 DEF Reachable
    <2>2. \A q \in Process : Unlinked(q) => Unlinked(q)'
      BY <1>1 DEF Unlinked
    <2>3. \A r \in Producer : r[1] \in Process /\ Delivered(r)' = Delivered(r)
      BY DEF Delivered, Producer
    <2>4. \A i : Unread(i)' = Unread(i)
      BY DEF Unread
    <2>5. \A span \in cut : span[1][1] \in Process /\ ~Up(span[1][1])'
      BY <1>1, Types DEF LostOnlyByExitOrReuse, Span, Producer, Up
    <2>6. ASSUME NEW r \in Producer, r \notin misled, NEW n \in 1..sent[r]
          PROVE  \/ n \in Delivered(r)' \/ <<r, n>> \in cut' \/ Unlinked(r[1])'
                 \/ \E i \in Reachable' \ {None} : <<r, n>> \in Unread(i)'
      <3>1. \/ n \in Delivered(r) \/ <<r, n>> \in cut \/ Unlinked(r[1])
            \/ \E i \in Reachable \ {None} : <<r, n>> \in Unread(i)
        BY <2>6 DEF LostOnlyByExitOrReuse
      <3> QED BY <2>1, <2>2, <2>3, <2>4, <3>1
    <2>7. MisledByOthers'
      BY <1>1, MisledKept
    <2> QED BY <2>5, <2>6, <2>7 DEF LostOnlyByExitOrReuse, MisledByOthers
  <1>14. FilesHaveOwners'
    <2>1. ASSUME NEW n \in Name, dir'[n] # None, NEW q \in Process, AccountsFor(q, n)
          PROVE  AccountsFor(q, n)'
      <3>1. CASE q # p
        <4>1. <<q, Main>> \in Worker /\ <<q, Main>>[1] = q
          BY ModuleAssumption DEF Worker
        <4>2. globals'[<<q, Main>>] = globals[<<q, Main>>]
          BY <1>2, <3>1, <4>1
        <4> QED BY <1>1, <2>1, <3>1, <4>2 DEF AccountsFor, Unlinked
      <3>2. CASE q = p
        BY <1>1, <1>3, <2>1, <3>2 DEF AccountsFor
      <3> QED BY <3>1, <3>2
    <2> QED BY <1>3, <2>1 DEF FilesHaveOwners
  <1>15. ReaderInStep'
    <2>1. \A q \in Process : process'[q].pid = process[q].pid
      BY <1>1
    <2>2. \A r \in Producer : r[1] \in Process
      BY DEF Producer
    <2>3. ASSUME NEW w \in Worker, Holds(w)', Ring(w)'.write_pos = 0, Producing(w)' \notin misled
          PROVE  reader[globals'[w].ring] = AtStart
      <3>1. globals'[w] = globals[w] /\ Holds(w)
        BY <1>2, <2>3
      <3> QED BY <2>3, <3>1 DEF ReaderInStep
    <2>4. ASSUME NEW n \in Name, dir'[n] # None, reader[dir'[n]] # AtStart
          PROVE  \E r \in Producer : sent[r] > 0 /\ process'[r[1]].pid = n[1] /\ r[2] = n[2]
      <3>1. dir'[n] = dir[n]
        BY <1>3, <2>4
      <3> QED BY <2>1, <2>2, <2>4, <3>1 DEF ReaderInStep
    <2>5. ReaderInStep
      OBVIOUS
    <2> HIDE DEF HostInv, Holds, Ring, Producing, Writer, Up
    <2> QED BY <2>3, <2>4, <2>5 DEF ReaderInStep
  <1> QED BY <1>6, <1>7, <1>8, <1>9, <1>10, <1>11, <1>12, <1>13, <1>14, <1>15

(* Kill takes no name away. *)
LEMMA KillInv ==
  ASSUME TypeOK, HostInv, NEW p \in Process, Kill(p)
  PROVE  HostInv'
  <1>1. dir' = [n \in Name |-> IF n \in {} THEN None ELSE dir[n]]
    BY Types DEF Kill
  <1>2. ~Unlinked(p)' /\ Up(p)
    BY Types DEF Kill, Unlinked
  <1>3. /\ process' = [process EXCEPT ![p].state = "killed", ![p].counter = 0]
        /\ globals' = Forgotten(p) /\ UNCHANGED <<buffer_size, file, opened, reader, sent, received, cut, misled>>
    BY DEF Kill, daemon, history
  <1>4. \A n \in {} : Holds(<<p, Main>>) /\ n = globals[<<p, Main>>].path /\ Unlinked(p)'
    OBVIOUS
  <1>5. "killed" \in {"killed", "exited"} /\ {} \in SUBSET Name
    OBVIOUS
  <1> QED BY <1>1, <1>2, <1>3, <1>4, <1>5, GoneInv

(* MSHUTDOWN takes one away. *)
LEMMA ExitInv ==
  ASSUME TypeOK, HostInv, NEW p \in Process, Exit(p)
  PROVE  HostInv'
  <1> DEFINE main    == <<p, Main>>
             unlinks == globals[main].initialized /\ process[p].sapi # "cli"
             removed == IF unlinks THEN {globals[main].path} ELSE {}
  <1>1. main \in Worker /\ globals[main].pc = "idle" /\ Up(p)
    BY ModuleAssumption DEF Worker, Exit, Exits
  <1>2. Holds(main) <=> globals[main].initialized
    BY <1>1 DEF HostInv, RingInStep, InStep, ZeroGlobals, Holds
  <1>3. Unlinked(p)' <=> process[p].sapi # "cli"
    BY Types DEF Exit, Exits, Unlinked
  <1>4. removed \in SUBSET Name
    BY <1>1, <1>2 DEF HostInv, NamesDiffer
  <1>5. dir' = [n \in Name |-> IF n \in removed THEN None ELSE dir[n]]
    BY <1>1, <1>2, Types DEF HostInv, NamesDiffer, Exit
  <1> HIDE DEF removed
  <1>6. /\ \A n \in removed : Holds(main) /\ n = globals[main].path /\ Unlinked(p)'
        /\ Unlinked(p)' /\ p \notin Zts /\ Holds(main) => globals[main].path \in removed
    BY <1>2, <1>3 DEF removed
  <1> QED BY <1>1, <1>4, <1>5, <1>6, GoneInv DEF Exit, Exits, daemon, history

(* A thread that ends leaves its file behind, under a name nobody has. *)
LEMMA ThreadEndsInv ==
  ASSUME TypeOK, HostInv, NEW w \in Worker, ThreadEnds(w)
  PROVE  HostInv'
  <1> USE DEF HostInv, Holds, Ring, Producing, Writer, Up
  <1>1. /\ w[1] \in Zts /\ w[2] # Main
        /\ UNCHANGED <<buffer_size, process, dir, file, opened, reader, sent, received, cut, misled>>
    BY DEF ThreadEnds, Runs, daemon, history
  <1>2. /\ globals'[w] = ZeroGlobals /\ globals'[w].ring = None
        /\ \A v \in Worker : v # w => globals'[v] = globals[v]
    BY Types DEF ThreadEnds, ZeroGlobals
  <1>3. Capacity' = Capacity
    BY <1>1 DEF Capacity
  <1>4. \A q \in Process : <<q, Main>> \in Worker /\ globals'[<<q, Main>>] = globals[<<q, Main>>]
    <2> TAKE q \in Process
    <2>1. <<q, Main>> \in Worker /\ <<q, Main>> # w
      BY <1>1, ModuleAssumption DEF Worker
    <2> QED BY <1>2, <2>1
  <1>5. PidsDiffer'
    BY <1>1 DEF PidsDiffer
  <1>6. NamesDiffer'
    BY <1>1, <1>2 DEF NamesDiffer, Runs
  <1>7. RingIsFindable'
    BY <1>1, <1>2 DEF RingIsFindable
  <1>8. RingInStep'
    BY <1>1, <1>2, <1>3 DEF RingInStep, InStep
  <1>9. HeaderFirst' /\ SpansInStep' /\ InOrder'
    BY <1>1, <1>3 DEF HeaderFirst, SpansInStep, InOrder
  <1>10. NamedAfterWriter'
    BY <1>1, <1>2 DEF NamedAfterWriter
  <1>11. IdsAreUsed'
    BY <1>1, <1>4 DEF IdsAreUsed, Producer
  <1>12. LostOnlyByExitOrReuse'
    <2>1. Reachable' = Reachable /\ \A i : Unread(i)' = Unread(i)
      BY <1>1 DEF Reachable, Unread
    <2>2. \A r \in Producer : Delivered(r)' = Delivered(r) /\ (Unlinked(r[1])' <=> Unlinked(r[1]))
      BY <1>1 DEF Delivered, Unlinked
    <2>3. MisledByOthers'
      BY <1>1, MisledKept
    <2> QED BY <1>1, <2>1, <2>2, <2>3 DEF LostOnlyByExitOrReuse, MisledByOthers
  <1>13. FilesHaveOwners'
    <2>1. \A q \in Process, n \in Name : AccountsFor(q, n) => AccountsFor(q, n)'
      BY <1>1, <1>4 DEF AccountsFor, Unlinked
    <2> QED BY <1>1, <2>1 DEF FilesHaveOwners
  <1>14. ReaderInStep'
    BY <1>1, <1>2 DEF ReaderInStep
  <1> QED BY <1>5, <1>6, <1>7, <1>8, <1>9, <1>10, <1>11, <1>12, <1>13, <1>14

(* Counting an id changes neither pids nor states. *)
LEMMA CountedGives ==
  ASSUME TypeOK, NEW w \in Worker, process' = Counted(w[1])
  PROVE  /\ w[1] \in Process
         /\ \A q \in Process :
              /\ process'[q].pid = process[q].pid /\ process'[q].state = process[q].state
              /\ process'[q].sapi = process[q].sapi
              /\ process[q].counter \in Nat /\ process'[q].counter \in Nat
              /\ process'[q].counter >= process[q].counter
         /\ w[1] \in Zts => process'[w[1]].counter = process[w[1]].counter + 1
  BY Types DEF Counted, Proc, Worker

(* A failing open uses an id up. *)
LEMMA OpenFailsInv ==
  ASSUME TypeOK, HostInv, NEW w \in Worker, OpenFails(w)
  PROVE  HostInv'
  <1> USE DEF HostInv, Holds, Ring, Producing, Writer, Up
  <1>1. UNCHANGED <<buffer_size, globals, dir, file, opened, reader, sent, received, cut, misled>>
    BY DEF OpenFails, daemon, history
  <1>2. \A q \in Process :
          /\ process'[q].pid = process[q].pid /\ process'[q].state = process[q].state
          /\ process'[q].sapi = process[q].sapi
          /\ process[q].counter \in Nat /\ process'[q].counter \in Nat
          /\ process'[q].counter >= process[q].counter
    BY CountedGives DEF OpenFails
  <1>3. Capacity' = Capacity
    BY <1>1 DEF Capacity
  <1>4. /\ \A v \in Worker : v[1] \in Process
        /\ \A r \in Producer : r[1] \in Process /\ r[2] \in Nat
        /\ \A span \in Span : span[1][1] \in Process
    BY DEF Worker, Producer, Span, Ids
  <1>5. PidsDiffer'
    BY <1>1, <1>2 DEF PidsDiffer
  <1>6. NamesDiffer'
    <2>1. \A v \in Worker : Holds(v) => globals[v].path[2] \in Nat
      BY DEF NamesDiffer, Name, Ids
    <2>2. ASSUME NEW v \in Worker, Holds(v)
          PROVE  /\ Runs(v)' /\ globals[v].path \in Name
                 /\ IF v[1] \in Zts THEN globals[v].path[2] < process'[v[1]].counter
                    ELSE globals[v].path[2] = 0
      <3>1. /\ Runs(v) /\ globals[v].path \in Name
            /\ IF v[1] \in Zts THEN globals[v].path[2] < process[v[1]].counter
               ELSE globals[v].path[2] = 0
        BY <2>2 DEF NamesDiffer
      <3> QED BY <1>2, <1>4, <2>1, <2>2, <3>1 DEF Runs
    <2>3. /\ \A u, v \in Worker : Holds(u)' /\ Holds(v)' /\ globals'[u].path = globals'[v].path => u = v
          /\ \A m, n \in Name : dir'[m] # None /\ dir'[m] = dir'[n] => m = n
      BY <1>1 DEF NamesDiffer
    <2>4. \A v \in Worker : Holds(v)' =>
            /\ Runs(v)' /\ globals'[v].path \in Name
            /\ IF v[1] \in Zts THEN globals'[v].path[2] < process'[v[1]].counter
               ELSE globals'[v].path[2] = 0
      BY <1>1, <2>2
    <2> HIDE DEF HostInv, Holds, Ring, Producing, Writer, Up
    <2> QED BY <2>3, <2>4 DEF NamesDiffer
  <1>7. RingIsFindable'
    BY <1>1, <1>2, <1>4 DEF RingIsFindable
  <1>8. RingInStep' /\ HeaderFirst' /\ SpansInStep' /\ InOrder'
    <2>1. RingInStep'
      BY <1>1, <1>3 DEF RingInStep, InStep
    <2>2. HeaderFirst'
      BY <1>1, <1>3 DEF HeaderFirst
    <2>3. SpansInStep' /\ InOrder'
      BY <1>1 DEF SpansInStep, InOrder
    <2> QED BY <2>1, <2>2, <2>3
  <1>9. NamedAfterWriter'
    <2>1. \A n \in Name : dir[n] # None /\ file[dir[n]].write_pos > 0 => Writer(dir[n])[1] \in Process
      BY <1>4, Types DEF SpansInStep
    <2> QED BY <1>1, <1>2, <2>1 DEF NamedAfterWriter
  <1>10. IdsAreUsed'
    <2>1. \A r \in Producer :
            /\ process'[r[1]].state = process[r[1]].state
            /\ process[r[1]].counter \in Nat /\ process'[r[1]].counter \in Nat
            /\ process'[r[1]].counter >= process[r[1]].counter
      BY <1>2, <1>4
    <2>2. \A r \in Producer :
            sent[r] > 0 /\ Up(r[1])' =>
              IF r[1] \in Zts THEN r[2] < process'[r[1]].counter
              ELSE globals[<<r[1], Main>>].initialized
      BY <1>4, <2>1 DEF IdsAreUsed
    <2>3. \A span \in cut : process'[span[1][1]].state # "none"
      BY <1>2, <1>4, Types DEF IdsAreUsed
    <2>4. \A r \in misled : process'[r[1]].state # "none"
      BY <1>2, <1>4, Types DEF IdsAreUsed
    <2> QED BY <1>1, <2>1, <2>2, <2>3, <2>4 DEF IdsAreUsed
  <1>11. LostOnlyByExitOrReuse'
    <2>1. \A q \in Process : (Unlinked(q)' <=> Unlinked(q)) /\ (Up(q)' <=> Up(q))
      BY <1>2 DEF Unlinked
    <2>2. \A span \in cut : ~Up(span[1][1])'
      BY <1>4, <2>1, Types DEF LostOnlyByExitOrReuse
    <2>3. /\ Reachable' = Reachable /\ \A i : Unread(i)' = Unread(i)
          /\ \A r \in Producer : Delivered(r)' = Delivered(r)
      BY <1>1 DEF Reachable, Unread, Delivered
    <2>4. MisledByOthers'
      BY <1>1, <1>2, MisledKept
    <2> HIDE DEF HostInv, Holds, Ring, Producing, Writer
    <2>5. LostOnlyByExitOrReuse
      BY DEF HostInv
    <2> QED BY <1>1, <1>4, <2>1, <2>2, <2>3, <2>4, <2>5 DEF LostOnlyByExitOrReuse, MisledByOthers
  <1>12. FilesHaveOwners'
    <2>1. \A q \in Process, n \in Name : AccountsFor(q, n) => AccountsFor(q, n)'
      BY <1>1, <1>2 DEF AccountsFor, Unlinked
    <2> QED BY <1>1, <2>1 DEF FilesHaveOwners
  <1>13. ReaderInStep'
    BY <1>1, <1>2, <1>4 DEF ReaderInStep
  <1> QED BY <1>5, <1>6, <1>7, <1>8, <1>9, <1>10, <1>11, <1>12, <1>13

(* A file open empties or takes is no other thread's ring, and what it held *)
(* was not written by a process that runs.                                  *)
LEMMA OpenIsAlone ==
  ASSUME TypeOK, HostInv, NEW w \in Worker, NEW name \in Name, NEW i \in Inode,
         Opens(w, name, i)
  PROVE  /\ globals[w] = ZeroGlobals /\ ~Holds(w) /\ Runs(w)
         /\ \A v \in Worker : Holds(v) => globals[v].path # name /\ globals[v].ring # i
         /\ \A m \in Name : m # name => dir[m] # i
         /\ <<w[1], name[2]>> \in Producer /\ sent[<<w[1], name[2]>>] = 0
         /\ dir[name] # None /\ file[i].write_pos > 0 => ~Up(Writer(i)[1])
         /\ \A q \in Producer :
              sent[q] > 0 /\ process[q[1]].pid = name[1] /\ q[2] = name[2] =>
                process[q[1]].state \in {"exited", "killed"}
  <1>1. Runs(w) /\ globals[w].pc = "idle" /\ ~globals[w].initialized
    BY DEF Opens, MayInit
  <1>0. /\ name = <<process[w[1]].pid, WorkerId(w[1])>>
        /\ IF dir[name] # None THEN i = dir[name] ELSE Unused(i)
    BY DEF Opens
  <1> USE DEF HostInv, Holds, Ring, Producing, Up
  <1>2. globals[w] = ZeroGlobals /\ ~Holds(w)
    BY <1>1 DEF RingInStep, InStep, ZeroGlobals
  <1>3. /\ w[1] \in Process /\ w[2] \in Thread /\ process[w[1]].state = "up"
        /\ w = <<w[1], w[2]>>
        /\ w[1] \notin Zts => w[2] = Main
    BY <1>1 DEF Worker, Runs
  <1>4. name[1] = process[w[1]].pid /\ name[2] = WorkerId(w[1]) /\ name[2] \in Ids
    BY <1>0 DEF Name
  <1>5. ASSUME NEW v \in Worker, Holds(v), globals[v].path = name
        PROVE  FALSE
    <2>1. /\ v[1] \in Process /\ process[v[1]].state = "up" /\ v = <<v[1], v[2]>>
          /\ v[1] \notin Zts => v[2] = Main
      BY <1>5 DEF NamesDiffer, Runs, Worker
    <2>2. v[1] = w[1]
      BY <1>3, <1>4, <1>5, <2>1 DEF RingIsFindable, PidsDiffer
    <2>3. CASE w[1] \in Zts
      <3>1. globals[v].path[2] < process[w[1]].counter /\ process[w[1]].counter \in Nat
        BY <1>3, <1>5, <2>2, <2>3, Types DEF NamesDiffer, Proc
      <3> QED BY <1>4, <1>5, <2>3, <3>1 DEF WorkerId
    <2>4. CASE w[1] \notin Zts
      <3>1. v = <<v[1], Main>> /\ w = <<w[1], Main>>
        BY <1>3, <2>1, <2>2, <2>4
      <3>2. v = w
        BY <2>2, <3>1
      <3> QED BY <1>2, <1>5, <3>2
    <2> QED BY <2>3, <2>4
  <1>6. \A m \in Name : m # name => dir[m] # i
    BY <1>0, ModuleAssumption DEF NamesDiffer, Unused
  <1>7. \A v \in Worker : Holds(v) => globals[v].path # name /\ globals[v].ring # i
    <2> TAKE v \in Worker
    <2> HAVE Holds(v)
    <2>1. globals[v].path # name /\ globals[v].path \in Name
          /\ dir[globals[v].path] = globals[v].ring
      BY <1>5 DEF NamesDiffer, RingIsFindable
    <2> QED BY <1>6, <2>1
  <1>8. <<w[1], name[2]>> \in Producer
    BY <1>3, <1>4 DEF Producer
  <1>9. ASSUME NEW r \in Producer, r[1] = w[1], r[2] = name[2]
        PROVE  sent[r] = 0
    <2>1. CASE sent[r] > 0 /\ w[1] \in Zts
      <3>1. r[2] < process[w[1]].counter /\ process[w[1]].counter \in Nat
        BY <1>3, <1>9, <2>1, Types DEF IdsAreUsed, Proc
      <3> QED BY <1>4, <1>9, <2>1, <3>1 DEF WorkerId
    <2>2. CASE sent[r] > 0 /\ w[1] \notin Zts
      <3>1. globals[<<w[1], Main>>].initialized
        BY <1>3, <1>9, <2>2 DEF IdsAreUsed
      <3>2. w = <<w[1], Main>>
        BY <1>3, <2>2
      <3> QED BY <1>1, <3>1, <3>2
    <2>3. sent[r] \in Nat
      BY Types
    <2> QED BY <2>1, <2>2, <2>3
  <1>10. ASSUME NEW q \in Producer, sent[q] > 0, process[q[1]].pid = name[1], q[2] = name[2]
         PROVE  process[q[1]].state \in {"exited", "killed"}
    <2>1. q[1] \in Process /\ process[q[1]].state \in {"none", "up", "exited", "killed"}
      BY Types DEF Producer, Proc
    <2>2. process[q[1]].state # "none"
      BY <1>10 DEF IdsAreUsed
    <2>3. ASSUME process[q[1]].state = "up"
          PROVE  FALSE
      <3>1. q[1] = w[1]
        BY <1>3, <1>4, <1>10, <2>1, <2>3 DEF PidsDiffer
      <3>2. sent[q] = 0
        BY <1>9, <1>10, <3>1
      <3> QED BY <1>10, <3>2
    <2> QED BY <2>1, <2>2, <2>3
  <1>11. ASSUME dir[name] # None, file[i].write_pos > 0
         PROVE  ~Up(Writer(i)[1])
    <2>1. Writer(i) \in Producer /\ sent[Writer(i)] > 0
      BY <1>11 DEF SpansInStep
    <2>2. process[Writer(i)[1]].pid = name[1] /\ Writer(i)[2] = name[2]
      BY <1>0, <1>11 DEF NamedAfterWriter
    <2> QED BY <1>10, <2>1, <2>2
  <1> QED BY <1>1, <1>2, <1>6, <1>7, <1>8, <1>9, <1>10, <1>11

(* open: the file under the name is lost with what nobody read, and no other *)
(* file and no other ring is touched.                                        *)
LEMMA OpenInv ==
  ASSUME TypeOK, HostInv, NEW w \in Worker, Open(w)
  PROVE  HostInv'
  <1>0. PICK name \in Name, i \in Inode : Opens(w, name, i)
    BY OpenGives
  <1>1. /\ MayInit(w) /\ name = <<process[w[1]].pid, WorkerId(w[1])>>
        /\ IF dir[name] # None THEN i = dir[name] ELSE Unused(i)
        /\ dir' = [dir EXCEPT ![name] = i] /\ file' = [file EXCEPT ![i] = EmptyFile]
        /\ cut' = IF dir[name] # None THEN cut \cup Unread(i) ELSE cut
        /\ misled' = IF reader[i] = AtStart THEN misled \ {<<w[1], name[2]>>}
                     ELSE misled \cup {<<w[1], name[2]>>}
        /\ globals' = [globals EXCEPT ![w] =
             [globals[w] EXCEPT !.pc = "opened", !.ring = i, !.path = name]]
        /\ process' = Counted(w[1]) /\ process' \in [Process -> Proc]
    BY <1>0 DEF Opens
  <1>2. UNCHANGED <<buffer_size, opened, reader, sent, received>>
    BY <1>0 DEF Opens
  <1>3. /\ globals[w] = ZeroGlobals /\ ~Holds(w) /\ Runs(w)
        /\ \A v \in Worker : Holds(v) => globals[v].path # name /\ globals[v].ring # i
        /\ \A m \in Name : m # name => dir[m] # i
        /\ <<w[1], name[2]>> \in Producer /\ sent[<<w[1], name[2]>>] = 0
        /\ dir[name] # None /\ file[i].write_pos > 0 => ~Up(Writer(i)[1])
        /\ \A q \in Producer :
             sent[q] > 0 /\ process[q[1]].pid = name[1] /\ q[2] = name[2] =>
               process[q[1]].state \in {"exited", "killed"}
    BY <1>0, OpenIsAlone
  <1>4. /\ w[1] \in Process
        /\ \A q \in Process :
             /\ process'[q].pid = process[q].pid /\ process'[q].state = process[q].state
             /\ process'[q].sapi = process[q].sapi
             /\ process[q].counter \in Nat /\ process'[q].counter \in Nat
             /\ process'[q].counter >= process[q].counter
        /\ w[1] \in Zts => process'[w[1]].counter = process[w[1]].counter + 1
    BY <1>1, CountedGives
  <1>5. Capacity' = Capacity /\ i # None
    BY <1>2, ModuleAssumption DEF Capacity
  <1> USE DEF HostInv, Holds, Ring, Producing, Writer, Up
  <1>6. /\ globals'[w] = [ZeroGlobals EXCEPT !.pc = "opened", !.ring = i, !.path = name]
        /\ globals'[w].ring = i /\ globals'[w].path = name /\ globals'[w].pc = "opened"
        /\ ~globals'[w].initialized /\ globals'[w].local_write_pos = 0
        /\ \A v \in Worker : v # w => globals'[v] = globals[v]
    BY <1>1, <1>3, Types DEF ZeroGlobals
  <1>7. /\ dir'[name] = i /\ \A m \in Name : m # name => dir'[m] = dir[m] /\ dir'[m] # i
        /\ file'[i] = EmptyFile /\ \A j \in Inode : j # i => file'[j] = file[j]
    BY <1>1, <1>3, Types
  <1>8. \A v \in Worker : Holds(v) =>
          v # w /\ globals[v].ring \in Inode /\ Ring(v)' = Ring(v)
    BY <1>3, <1>6, <1>7, Types DEF Globals
  <1>9. file'[i].write_pos = 0 /\ \A pos \in 0..(MaxSpans - 1) : file'[i].data[pos] = None
    BY <1>7 DEF EmptyFile, NoSpans
  <1>10. /\ \A v \in Worker : v[1] \in Process
         /\ \A r \in Producer : r[1] \in Process /\ r[2] \in Nat
         /\ \A span \in Span : span[1][1] \in Process
    BY DEF Worker, Producer, Span, Ids
  <1>11. PidsDiffer'
    BY <1>4 DEF PidsDiffer
  <1>12. NamesDiffer'
    <2>1. ASSUME NEW v \in Worker, Holds(v)'
          PROVE  /\ Runs(v)' /\ globals'[v].path \in Name
                 /\ IF v[1] \in Zts THEN globals'[v].path[2] < process'[v[1]].counter
                    ELSE globals'[v].path[2] = 0
      <3>1. CASE v = w
        <4>1. Runs(w)'
          BY <1>3, <1>4 DEF Runs
        <4>2. globals'[w].path \in Name /\ globals'[w].path[2] = WorkerId(w[1])
          BY <1>0, <1>1, <1>6
        <4> QED BY <1>4, <3>1, <4>1, <4>2 DEF WorkerId
      <3>2. CASE v # w
        <4>1. Holds(v) /\ globals'[v] = globals[v]
          BY <1>6, <2>1, <3>2
        <4>2. Runs(v) /\ globals[v].path \in Name /\ globals[v].path[2] \in Nat
          BY <4>1 DEF NamesDiffer, Name, Ids
        <4>3. IF v[1] \in Zts THEN globals[v].path[2] < process[v[1]].counter
              ELSE globals[v].path[2] = 0
          BY <4>1 DEF NamesDiffer
        <4> QED BY <1>4, <1>10, <4>1, <4>2, <4>3 DEF Runs
      <3> QED BY <3>1, <3>2
    <2>2. ASSUME NEW u \in Worker, NEW v \in Worker, Holds(u)', Holds(v)',
                 globals'[u].path = globals'[v].path
          PROVE  u = v
      <3>1. (u = w <=> globals'[u].path = name) /\ (v = w <=> globals'[v].path = name)
        <4>1. u # w => Holds(u) /\ globals'[u].path = globals[u].path
          BY <1>6, <2>2
        <4>2. v # w => Holds(v) /\ globals'[v].path = globals[v].path
          BY <1>6, <2>2
        <4>3. globals'[w].path = name
          BY <1>6
        <4>4. \A x \in Worker : Holds(x) => globals[x].path # name
          BY <1>3
        <4> HIDE DEF HostInv, Holds, Ring, Producing, Writer, Up
        <4> QED BY <4>1, <4>2, <4>3, <4>4
      <3> QED BY <1>6, <2>2, <3>1 DEF NamesDiffer
    <2>3. \A m, n \in Name : dir'[m] # None /\ dir'[m] = dir'[n] => m = n
      BY <1>7 DEF NamesDiffer
    <2> QED BY <2>1, <2>2, <2>3 DEF NamesDiffer
  <1>13. RingIsFindable'
    <2>1. \A v \in Worker : Holds(v) => globals[v].path \in Name
      BY DEF NamesDiffer
    <2>2. ASSUME NEW v \in Worker, globals'[v].ring # None
          PROVE  /\ globals'[v].path[1] = process'[v[1]].pid
                 /\ dir'[globals'[v].path] = globals'[v].ring
      <3>1. CASE v = w
        BY <1>1, <1>4, <1>6, <1>7, <3>1
      <3>2. CASE v # w
        <4>1. globals'[v] = globals[v] /\ Holds(v)
          BY <1>6, <2>2, <3>2
        <4>2. globals[v].path \in Name /\ globals[v].path # name
          BY <1>3, <2>1, <4>1
        <4>3. globals[v].path[1] = process[v[1]].pid /\ dir[globals[v].path] = globals[v].ring
          BY <4>1 DEF RingIsFindable
        <4> QED BY <1>4, <1>7, <1>10, <4>1, <4>2, <4>3
      <3> QED BY <3>1, <3>2
    <2> QED BY <2>2 DEF RingIsFindable
  <1>14. RingInStep'
    <2>1. InStep(w)'
      BY <1>2, <1>3, <1>5, <1>6, <1>9 DEF InStep
    <2>2. ASSUME NEW v \in Worker, v # w
          PROVE  InStep(v)'
      <3>1. InStep(v) /\ globals'[v] = globals[v] /\ (Holds(v) => Ring(v)' = Ring(v))
        BY <1>6, <1>8, <2>2 DEF RingInStep
      <3> QED BY <1>2, <1>5, <3>1 DEF InStep
    <2> QED BY <2>1, <2>2 DEF RingInStep
  <1>15. HeaderFirst'
    <2>1. HeaderFirst
      OBVIOUS
    <2> HIDE DEF HostInv, Holds, Ring, Producing, Writer, Up
    <2>2. ASSUME NEW m \in Name, dir'[m] # None, file'[dir'[m]].write_pos > 0
          PROVE  dir'[m] = dir[m] /\ file'[dir'[m]] = file[dir[m]]
      <3>1. dir'[m] # i /\ dir'[m] = dir[m]
        BY <1>7, <1>9, <2>2
      <3> QED BY <1>7, <2>2, <3>1, Types
    <2> QED BY <1>5, <2>1, <2>2 DEF HeaderFirst
  <1>16. SpansInStep'
    <2>1. \A q \in Producer : sent[q] > 0 => (q \in misled' <=> q \in misled)
      BY <1>1, <1>3
    <2>2. ASSUME NEW j \in Inode, j # i
          PROVE  /\ \A pos \in file'[j].write_pos..(MaxSpans - 1) : file'[j].data[pos] = None
                 /\ file'[j].write_pos > 0 =>
                      /\ Writer(j)' \in Producer
                      /\ sent'[Writer(j)'] = file'[j].write_pos
                      /\ \A pos \in 0..(file'[j].write_pos - 1) : file'[j].data[pos] = <<Writer(j)', pos + 1>>
                      /\ \A k \in DOMAIN received'[Writer(j)'] : received'[Writer(j)'][k] <= reader'[j].cursor
                      /\ Writer(j)' \notin misled' =>
                           /\ reader'[j].cursor <= reader'[j].avail
                           /\ reader'[j].avail <= file'[j].write_pos
                           /\ Len(received'[Writer(j)']) = reader'[j].cursor
      <3>1. file'[j] = file[j] /\ Writer(j)' = Writer(j)
        BY <1>7, <2>2
      <3> HIDE DEF Writer
      <3> QED BY <1>2, <2>1, <3>1 DEF SpansInStep
    <2>3. \A j, k \in Inode : file'[j].write_pos > 0 /\ file'[k].write_pos > 0 /\ Writer(j)' = Writer(k)' => j = k
      BY <1>7, <1>9 DEF SpansInStep
    <2>4. \A pos \in file'[i].write_pos..(MaxSpans - 1) : file'[i].data[pos] = None
      BY <1>9
    <2> HIDE DEF HostInv, Holds, Ring, Producing, Writer, Up
    <2> QED BY <1>9, <2>2, <2>3, <2>4 DEF SpansInStep
  <1>17. InOrder'
    <2>1. ASSUME NEW q \in Producer
          PROVE  /\ \A j, k \in DOMAIN received'[q] : j < k => received'[q][j] < received'[q][k]
                 /\ q \notin misled' => \A k \in DOMAIN received'[q] : received'[q][k] = k
      <3>1. CASE q = <<w[1], name[2]>>
        <4>1. received'[q] = << >>
          BY <1>2, <1>3, <3>1 DEF IdsAreUsed
        <4> QED BY <4>1
      <3>2. CASE q # <<w[1], name[2]>>
        BY <1>1, <1>2, <3>2 DEF InOrder
      <3> QED BY <3>1, <3>2
    <2> QED BY <2>1 DEF InOrder
  <1>18. NamedAfterWriter'
    <2>1. \A v \in Worker : Holds(v)' /\ Ring(v)'.write_pos > 0 =>
            Writer(globals[v].ring)' = Producing(v)'
      <3> TAKE v \in Worker
      <3>1. file'[globals'[w].ring].write_pos = 0
        BY <1>6, <1>9
      <3>2. CASE v # w
        <4>1. globals'[v] = globals[v] /\ (Holds(v) => file'[globals[v].ring] = file[globals[v].ring])
          BY <1>6, <1>8, <3>2
        <4>2. Holds(v) /\ Ring(v).write_pos > 0 => Writer(globals[v].ring) = Producing(v)
          BY DEF NamedAfterWriter
        <4> QED BY <4>1, <4>2
      <3> QED BY <3>1, <3>2
    <2>2. ASSUME NEW m \in Name, dir'[m] # None, file'[dir'[m]].write_pos > 0
          PROVE  /\ process'[Writer(dir[m])'[1]].pid = m[1] /\ Writer(dir[m])'[2] = m[2]
      <3>1. dir'[m] = dir[m] /\ dir[m] \in Inode /\ file'[dir[m]] = file[dir[m]]
        BY <1>7, <1>9, <2>2, Types
      <3>2. Writer(dir[m]) \in Producer /\ Writer(dir[m])' = Writer(dir[m])
        BY <2>2, <3>1 DEF SpansInStep
      <3> QED BY <1>4, <1>10, <2>2, <3>1, <3>2 DEF NamedAfterWriter
    <2> QED BY <2>1, <2>2 DEF NamedAfterWriter
  <1>19. \A s \in Unread(i) : s[1] = Writer(i) /\ s[1] \in Producer /\ file[i].write_pos > 0
    <2>1. file[i].write_pos \in Nat /\ reader[i].cursor \in Nat
      BY UnreadSpans, ModuleAssumption DEF Count
    <2>2. \A n \in (reader[i].cursor + 1)..file[i].write_pos : file[i].write_pos > 0
      BY <2>1
    <2> QED BY <2>2, UnreadSpans DEF SpansInStep
  <1>20. IdsAreUsed'
    <2>1. \A r \in Producer :
            /\ process'[r[1]].state = process[r[1]].state
            /\ process[r[1]].counter \in Nat /\ process'[r[1]].counter \in Nat
            /\ process'[r[1]].counter >= process[r[1]].counter
      BY <1>4, <1>10
    <2>2. ASSUME NEW r \in Producer, sent[r] > 0, Up(r[1])'
          PROVE  IF r[1] \in Zts THEN r[2] < process'[r[1]].counter
                 ELSE globals'[<<r[1], Main>>].initialized
      <3>1. IF r[1] \in Zts THEN r[2] < process[r[1]].counter
            ELSE globals[<<r[1], Main>>].initialized
        BY <2>1, <2>2 DEF IdsAreUsed
      <3>2. <<r[1], Main>> \in Worker
        BY <1>10, ModuleAssumption DEF Worker
      <3> QED BY <1>3, <1>6, <1>10, <2>1, <3>1, <3>2 DEF ZeroGlobals
    <2>3. \A r \in Producer : sent[r] > 0 => process'[r[1]].state # "none"
      BY <2>1 DEF IdsAreUsed
    <2>4. \A span \in cut : process'[span[1][1]].state # "none"
      BY <1>4, <1>10, Types DEF IdsAreUsed
    <2>5. \A span \in Unread(i) : process'[span[1][1]].state # "none"
      BY <1>19, <2>3 DEF SpansInStep
    <2>6. \A r \in Producer : sent'[r] = 0 => received'[r] = << >>
      BY <1>2 DEF IdsAreUsed
    <2>7. \A r \in misled' : process'[r[1]].state # "none"
      <3>1. <<w[1], name[2]>>[1] = w[1] /\ process'[w[1]].state # "none"
        BY <1>3, <1>4 DEF Runs
      <3>2. \A r \in misled : process'[r[1]].state # "none"
        BY <1>4, <1>10, Types DEF IdsAreUsed
      <3> QED BY <1>1, <3>1, <3>2
    <2> QED BY <1>1, <1>2, <2>2, <2>3, <2>4, <2>5, <2>6, <2>7 DEF IdsAreUsed
  <1>21. LostOnlyByExitOrReuse'
    <2>1. \A q \in Process : (Unlinked(q)' <=> Unlinked(q)) /\ (Up(q)' <=> Up(q))
      BY <1>4 DEF Unlinked
    <2>2. \A r \in Producer : Delivered(r)' = Delivered(r)
      BY <1>2 DEF Delivered
    <2>3. ASSUME NEW s, NEW j \in Reachable \ {None}, s \in Unread(j)
          PROVE  s \in cut' \/ (j \in Reachable' \ {None} /\ s \in Unread(j)')
      <3>1. CASE j = i
        <4>1. dir[name] # None
          BY <1>1, <2>3, <3>1 DEF Reachable, Unused
        <4> QED BY <1>1, <2>3, <3>1, <4>1
      <3>2. CASE j # i
        <4>1. j \in Inode
          BY <2>3, Types DEF Reachable
        <4>2. Unread(j)' = Unread(j)
          <5>1. file'[j] = file[j] /\ reader'[j] = reader[j]
            BY <1>2, <1>7, <3>2, <4>1
          <5> HIDE DEF HostInv, Holds, Ring, Producing, Writer, Up
          <5> QED BY <5>1 DEF Unread
        <4>3. j \in Reachable'
          <5>1. CASE j \in opened
            BY <1>2, <5>1 DEF Reachable
          <5>2. ASSUME NEW m \in Name, dir[m] = j
                PROVE  j \in Reachable'
            <6>1. m # name
              BY <1>1, <2>3, <3>2, <5>2
            <6> QED BY <1>7, <5>2, <6>1 DEF Reachable
          <5> QED BY <2>3, <5>1, <5>2 DEF Reachable
        <4> QED BY <2>3, <4>2, <4>3
      <3> QED BY <3>1, <3>2
    <2>4. cut \subseteq cut'
      BY <1>1
    <2>5. ASSUME NEW r \in Producer, r \notin misled', NEW n \in 1..sent[r]
          PROVE  \/ n \in Delivered(r)' \/ <<r, n>> \in cut' \/ Unlinked(r[1])'
                 \/ \E j \in Reachable' \ {None} : <<r, n>> \in Unread(j)'
      <3>1. r \notin misled
        BY <1>1, <1>3, <2>5
      <3>2. \/ n \in Delivered(r) \/ <<r, n>> \in cut \/ Unlinked(r[1])
            \/ \E j \in Reachable \ {None} : <<r, n>> \in Unread(j)
        BY <3>1 DEF LostOnlyByExitOrReuse
      <3> QED BY <1>10, <2>1, <2>2, <2>3, <2>4, <3>2
    <2>6. \A span \in cut : ~Up(span[1][1])'
      BY <1>10, <2>1, Types DEF LostOnlyByExitOrReuse
    <2>7. dir[name] # None => \A span \in Unread(i) : ~Up(span[1][1])'
      BY <1>3, <1>10, <1>19, <2>1
    <2>8. ASSUME NEW r \in misled'
          PROVE  \E q \in Process : /\ process'[q].state \in {"exited", "killed"}
                                    /\ process'[q].pid = process'[r[1]].pid /\ sent'[<<q, r[2]>>] > 0
      <3>1. CASE r \in misled
        <4>1. r[1] \in Process
          BY <1>10, <3>1, Types
        <4>2. PICK q \in Process : /\ process[q].state \in {"exited", "killed"}
                                   /\ process[q].pid = process[r[1]].pid /\ sent[<<q, r[2]>>] > 0
          BY <3>1 DEF LostOnlyByExitOrReuse
        <4> QED BY <1>2, <1>4, <4>1, <4>2
      <3>2. CASE r \notin misled
        <4>1. r[1] = w[1] /\ r[2] = name[2] /\ reader[i] # AtStart
          BY <1>1, <2>8, <3>2
        <4>2. dir[name] = i /\ dir[name] # None
          BY <1>1, <4>1 DEF ReaderInStep, Unused
        <4>3. PICK q \in Producer : sent[q] > 0 /\ process[q[1]].pid = name[1] /\ q[2] = name[2]
          BY <4>1, <4>2 DEF ReaderInStep
        <4>4. process[q[1]].state \in {"exited", "killed"} /\ name[1] = process[w[1]].pid
          BY <1>1, <1>3, <4>3
        <4>5. q[1] \in Process /\ q = <<q[1], r[2]>>
          BY <4>1, <4>3 DEF Producer
        <4> QED BY <1>2, <1>4, <4>1, <4>3, <4>4, <4>5
      <3> QED BY <3>1, <3>2
    <2> QED BY <1>1, <1>2, <2>5, <2>6, <2>7, <2>8 DEF LostOnlyByExitOrReuse
  <1>22. FilesHaveOwners'
    <2>1. AccountsFor(w[1], name)'
      <3>1. w[1] \notin Zts => w = <<w[1], Main>>
        BY <1>3 DEF Runs, Worker
      <3> QED BY <1>1, <1>3, <1>4, <1>5, <1>6, <3>1 DEF AccountsFor, Unlinked, Runs
    <2>2. ASSUME NEW q \in Process, NEW m \in Name, AccountsFor(q, m)
          PROVE  AccountsFor(q, m)'
      <3>1. <<q, Main>> \in Worker
        BY ModuleAssumption DEF Worker
      <3> QED BY <1>3, <1>4, <1>6, <2>2, <3>1 DEF AccountsFor, Unlinked
    <2> QED BY <1>4, <1>7, <2>1, <2>2 DEF FilesHaveOwners
  <1>23. ReaderInStep'
    <2>1. \A j \in Inode : j \notin opened => reader[j] = AtStart
      BY DEF ReaderInStep
    <2>2. ASSUME NEW v \in Worker, Holds(v)', Ring(v)'.write_pos = 0, Producing(v)' \notin misled'
          PROVE  reader[globals'[v].ring] = AtStart
      <3>1. CASE v = w
        BY <1>1, <1>6, <2>2, <3>1
      <3>2. CASE v # w
        <4>1. globals'[v] = globals[v] /\ Holds(v) /\ Ring(v)' = Ring(v)
          BY <1>6, <1>8, <2>2, <3>2
        <4>2. Producing(v) # <<w[1], name[2]>>
          <5>1. globals[v].path # name /\ globals[v].path \in Name /\ globals[v].path[1] = process[v[1]].pid
            BY <1>3, <4>1 DEF NamesDiffer, RingIsFindable
          <5>2. name[1] = process[w[1]].pid
            BY <1>1
          <5> QED BY <5>1, <5>2 DEF Name
        <4>3. Producing(v) \notin misled
          <5>1. Producing(v) = Producing(v)' /\ Producing(v)' \notin misled'
            BY <2>2, <4>1
          <5> HIDE DEF HostInv, Holds, Ring, Producing, Writer, Up
          <5> QED BY <1>1, <4>2, <5>1
        <4> QED BY <2>2, <4>1, <4>3 DEF ReaderInStep
      <3> QED BY <3>1, <3>2
    <2>3. ASSUME NEW m \in Name, dir'[m] # None, reader[dir'[m]] # AtStart
          PROVE  \E q \in Producer : sent[q] > 0 /\ process'[q[1]].pid = m[1] /\ q[2] = m[2]
      <3>1. dir[m] # None /\ dir[m] = dir'[m]
        BY <1>1, <1>7, <2>1, <2>3 DEF Unused
      <3>2. PICK q \in Producer : sent[q] > 0 /\ process[q[1]].pid = m[1] /\ q[2] = m[2]
        BY <2>3, <3>1 DEF ReaderInStep
      <3> QED BY <1>4, <1>10, <3>2
    <2> HIDE DEF HostInv, Holds, Ring, Producing, Writer, Up
    <2> QED BY <1>2, <2>1, <2>2, <2>3 DEF ReaderInStep
  <1> QED BY <1>11, <1>12, <1>13, <1>14, <1>15, <1>16, <1>17, <1>18, <1>20, <1>21, <1>22, <1>23

(* What is known of a ring whose creation is under way: it is empty, and so  *)
(* no span of it can get lost.                                               *)
LEMMA Created ==
  ASSUME TypeOK, HostInv, NEW w \in Worker, globals[w].pc # "idle"
  PROVE  /\ Holds(w) /\ globals[w].ring \in Inode /\ globals[w].path \in Name
         /\ ~globals[w].initialized
         /\ Ring(w).write_pos = 0 /\ Unread(globals[w].ring) = {}
         /\ \A pos \in 0..(MaxSpans - 1) : Ring(w).data[pos] = None
         /\ globals[w].local_write_pos = 0 /\ sent[Producing(w)] = 0
  <1>1. globals[w] \in Globals
    BY Types
  <1>2. InStep(w)
    BY DEF HostInv, RingInStep
  <1>3. Holds(w)
    BY <1>2 DEF InStep, ZeroGlobals
  <1>4. globals[w].ring \in Inode /\ globals[w].path \in Name
    BY <1>1, <1>3 DEF Holds, Globals, HostInv, NamesDiffer
  <1>5. Ring(w).write_pos = 0 /\ globals[w].local_write_pos = 0 /\ sent[Producing(w)] = 0
        /\ ~globals[w].initialized
    BY <1>2, <1>3, <1>1 DEF InStep, Globals
  <1>6. \A pos \in 0..(MaxSpans - 1) : Ring(w).data[pos] = None
    BY <1>4, <1>5 DEF HostInv, SpansInStep, Ring
  <1>7. Unread(globals[w].ring) = {}
    <2>1. reader[globals[w].ring].cursor \in Nat
      BY <1>4, Types, ModuleAssumption DEF Reader, Count
    <2> QED BY <1>5, <2>1 DEF Unread, Ring
  <1> QED BY <1>3, <1>4, <1>5, <1>6, <1>7

(* ftruncate, mmap, the stores of the header and the handle: the thread's    *)
(* own file and globals change, and the file is empty before and after.      *)
LEMMA FillingInv ==
  ASSUME TypeOK, HostInv, NEW w \in Worker, globals[w].pc # "idle", NEW f, NEW g,
         file' = [file EXCEPT ![globals[w].ring] = f], f.write_pos = 0,
         \A pos \in 0..(MaxSpans - 1) : f.data[pos] = None,
         globals' = [globals EXCEPT ![w] = g],
         g.ring = globals[w].ring, g.path = globals[w].path, InStep(w)',
         UNCHANGED <<buffer_size, process, dir, opened, reader, sent, received, cut, misled>>
  PROVE  HostInv'
  <1> DEFINE i == globals[w].ring
  <1>1. /\ Holds(w) /\ i \in Inode /\ ~globals[w].initialized
        /\ file[i].write_pos = 0 /\ Unread(i) = {}
    BY Created DEF Ring
  <1> USE DEF HostInv, Holds, Ring, Producing, Writer, Up
  <1>2. /\ globals'[w] = g /\ \A v \in Worker : v # w => globals'[v] = globals[v]
        /\ \A v \in Worker : globals'[v].ring = globals[v].ring /\ globals'[v].path = globals[v].path
    BY Types
  <1>3. file'[i] = f /\ \A j \in Inode : j # i => file'[j] = file[j]
    BY <1>1, Types
  <1>4. Capacity' = Capacity
    BY DEF Capacity
  <1>5. \A v \in Worker : Holds(v) /\ v # w => globals[v].ring \in Inode /\ globals[v].ring # i
    <2> TAKE v \in Worker
    <2> HAVE Holds(v) /\ v # w
    <2>1. globals[v].path # globals[w].path /\ globals[v].path \in Name /\ globals[w].path \in Name
      BY <1>1 DEF NamesDiffer
    <2>2. globals[v].ring # i
      BY <1>1, <2>1 DEF RingIsFindable, NamesDiffer
    <2> QED BY <2>2, Types DEF Globals
  <1>6. PidsDiffer' /\ InOrder'
    BY DEF PidsDiffer, InOrder
  <1>7. NamesDiffer'
    BY <1>2 DEF NamesDiffer, Runs
  <1>8. RingIsFindable'
    BY <1>2 DEF RingIsFindable
  <1>9. RingInStep'
    <2>1. ASSUME NEW v \in Worker, v # w
          PROVE  InStep(v)'
      <3>1. InStep(v) /\ globals'[v] = globals[v] /\ (Holds(v) => Ring(v)' = Ring(v))
        BY <1>2, <1>3, <1>5, <2>1 DEF RingInStep
      <3>2. sent' = sent /\ (Holds(v)' <=> Holds(v)) /\ Producing(v)' = Producing(v)
        BY <3>1
      <3> HIDE DEF HostInv, Holds, Ring, Producing, Writer, Up
      <3> QED BY <1>4, <3>1, <3>2 DEF InStep
    <2> QED BY <2>1 DEF RingInStep
  <1>10. HeaderFirst'
    BY <1>3, <1>4, Types DEF HeaderFirst
  <1>11. SpansInStep'
    <2>1. ASSUME NEW j \in Inode
          PROVE  /\ file'[j].write_pos = file[j].write_pos
                 /\ file[j].write_pos > 0 => file'[j] = file[j]
                 /\ j # i => file'[j] = file[j]
      BY <1>1, <1>3
    <2>2. \A j \in Inode : file[j].write_pos > 0 => Writer(j)' = Writer(j)
      BY <2>1
    <2>3. ASSUME NEW j \in Inode
          PROVE  \A pos \in file'[j].write_pos..(MaxSpans - 1) : file'[j].data[pos] = None
      <3>1. CASE j = i
        BY <1>3, <3>1
      <3>2. CASE j # i
        BY <2>1, <3>2 DEF SpansInStep
      <3> QED BY <3>1, <3>2
    <2>4. SpansInStep
      OBVIOUS
    <2> HIDE DEF HostInv, Holds, Ring, Producing, Writer, Up
    <2> QED BY <2>1, <2>2, <2>3, <2>4 DEF SpansInStep
  <1>12. NamedAfterWriter'
    <2>1. ASSUME NEW v \in Worker, Holds(v)', Ring(v)'.write_pos > 0
          PROVE  Writer(globals[v].ring)' = Producing(v)'
      <3>1. v # w
        BY <1>2, <1>3, <2>1
      <3>2. Holds(v) /\ Ring(v)' = Ring(v) /\ globals'[v] = globals[v]
        BY <1>2, <1>3, <1>5, <2>1, <3>1
      <3> QED BY <2>1, <3>2 DEF NamedAfterWriter
    <2>2. \A n \in Name : dir[n] # None /\ file'[dir[n]].write_pos > 0 => file'[dir[n]] = file[dir[n]]
      BY <1>3, Types
    <2>3. \A n \in Name : dir'[n] = dir[n]
      OBVIOUS
    <2>4. \A n \in Name : dir[n] # None /\ file'[dir[n]].write_pos > 0 =>
            process'[file'[dir[n]].data[0][1][1]].pid = n[1] /\ file'[dir[n]].data[0][1][2] = n[2]
      BY <2>2 DEF NamedAfterWriter
    <2> QED BY <2>1, <2>3, <2>4 DEF NamedAfterWriter
  <1>13. IdsAreUsed'
    <2>1. \A r \in Producer : <<r[1], Main>> \in Worker
      BY ModuleAssumption DEF Producer, Worker
    <2>2. \A r \in Producer : globals[<<r[1], Main>>].initialized => globals'[<<r[1], Main>>].initialized
      BY <1>1, <1>2, <2>1
    <2> QED BY <2>2 DEF IdsAreUsed
  <1>14. LostOnlyByExitOrReuse'
    <2>1. /\ Reachable' = Reachable
          /\ \A r \in Producer : Delivered(r)' = Delivered(r) /\ (Unlinked(r[1])' <=> Unlinked(r[1]))
      BY DEF Reachable, Delivered, Unlinked
    <2>2. ASSUME NEW j \in Reachable \ {None}
          PROVE  Unread(j) \subseteq Unread(j)'
      <3>1. j \in Inode
        BY Types DEF Reachable
      <3>2. CASE j = i
        BY <1>1, <3>2
      <3>3. CASE j # i
        <4>1. file'[j] = file[j]
          BY <1>3, <3>1, <3>3
        <4> QED BY <4>1 DEF Unread
      <3> QED BY <3>2, <3>3
    <2>3. MisledByOthers'
      BY MisledKept
    <2> QED BY <2>1, <2>2, <2>3 DEF LostOnlyByExitOrReuse, MisledByOthers
  <1>15. FilesHaveOwners'
    <2>1. \A q \in Process : <<q, Main>> \in Worker
      BY ModuleAssumption DEF Worker
    <2>2. \A q \in Process, n \in Name : AccountsFor(q, n) => AccountsFor(q, n)'
      BY <1>2, <2>1 DEF AccountsFor, Unlinked
    <2> QED BY <2>2 DEF FilesHaveOwners
  <1>16. ReaderInStep'
    <2>1. ASSUME NEW v \in Worker, Holds(v)', Ring(v)'.write_pos = 0, Producing(v)' \notin misled
          PROVE  reader[globals'[v].ring] = AtStart
      <3>1. Holds(v) /\ Producing(v)' = Producing(v) /\ globals'[v].ring = globals[v].ring
        BY <1>2, <2>1
      <3>2. Ring(v).write_pos = 0
        BY <1>1, <1>2, <1>3, <1>5, <2>1, <3>1
      <3> QED BY <2>1, <3>1, <3>2 DEF ReaderInStep
    <2>2. ReaderInStep
      OBVIOUS
    <2> HIDE DEF HostInv, Holds, Ring, Producing, Writer, Up
    <2> QED BY <2>1, <2>2 DEF ReaderInStep
  <1> QED BY <1>6, <1>7, <1>8, <1>9, <1>10, <1>11, <1>12, <1>13, <1>14, <1>15, <1>16

(* ftruncate: the file gets its size. *)
LEMMA ResizeInv ==
  ASSUME TypeOK, HostInv, NEW w \in Worker, Resize(w)
  PROVE  HostInv'
  <1> DEFINE f == [Ring(w) EXCEPT !.sized = TRUE]
             g == [globals[w] EXCEPT !.pc = "sized"]
  <1>1. /\ Holds(w) /\ globals[w].ring \in Inode /\ ~globals[w].initialized
        /\ Ring(w).write_pos = 0
        /\ \A pos \in 0..(MaxSpans - 1) : Ring(w).data[pos] = None
        /\ globals[w].local_write_pos = 0 /\ sent[Producing(w)] = 0
    BY Created DEF Resize
  <1>2. globals[w] \in Globals /\ Ring(w) \in File
    BY <1>1, Types DEF Ring
  <1>3. /\ file' = [file EXCEPT ![globals[w].ring] = f] /\ globals' = [globals EXCEPT ![w] = g]
        /\ UNCHANGED <<buffer_size, process, dir, opened, reader, sent, received, cut, misled>>
    BY DEF Resize, daemon, history, Ring
  <1>4. f.write_pos = 0 /\ (\A pos \in 0..(MaxSpans - 1) : f.data[pos] = None) /\ f.sized
    BY <1>1, <1>2 DEF File
  <1>5. /\ g.ring = globals[w].ring /\ g.path = globals[w].path /\ ~g.initialized
        /\ g.pc = "sized" /\ g.local_write_pos = 0
    BY <1>1, <1>2 DEF Globals
  <1>6. globals'[w] = g /\ file'[globals[w].ring] = f
    BY <1>1, <1>3, Types
  <1> HIDE DEF f, g
  <1>7. InStep(w)'
    BY <1>1, <1>3, <1>4, <1>5, <1>6 DEF InStep, Holds, Ring, Producing
  <1>8. globals[w].pc # "idle"
    BY DEF Resize
  <1> QED BY <1>3, <1>4, <1>5, <1>7, <1>8, FillingInv

(* mmap and memset: no field of the header is there yet. *)
LEMMA MapInv ==
  ASSUME TypeOK, HostInv, NEW w \in Worker, Map(w)
  PROVE  HostInv'
  <1> DEFINE f == [EmptyFile EXCEPT !.sized = TRUE]
             g == [globals[w] EXCEPT !.pc = "mapped", !.todo = Fields]
  <1>1. /\ Holds(w) /\ globals[w].ring \in Inode /\ ~globals[w].initialized
        /\ globals[w].local_write_pos = 0 /\ sent[Producing(w)] = 0
    BY Created DEF Map
  <1>2. globals[w] \in Globals
    BY Types
  <1>3. /\ file' = [file EXCEPT ![globals[w].ring] = f] /\ globals' = [globals EXCEPT ![w] = g]
        /\ UNCHANGED <<buffer_size, process, dir, opened, reader, sent, received, cut, misled>>
    BY DEF Map, daemon, history
  <1>4. f.write_pos = 0 /\ (\A pos \in 0..(MaxSpans - 1) : f.data[pos] = None) /\ f.sized
    BY DEF EmptyFile, NoSpans
  <1>5. /\ g.ring = globals[w].ring /\ g.path = globals[w].path /\ ~g.initialized
        /\ g.pc = "mapped" /\ g.todo = Fields /\ g.local_write_pos = 0
    BY <1>1, <1>2 DEF Globals
  <1>6. globals'[w] = g /\ file'[globals[w].ring] = f
    BY <1>1, <1>3, Types
  <1> HIDE DEF f, g
  <1>7. InStep(w)'
    BY <1>1, <1>3, <1>4, <1>5, <1>6 DEF InStep, Holds, Ring, Producing, Fields
  <1>8. globals[w].pc # "idle"
    BY DEF Map
  <1> QED BY <1>3, <1>4, <1>5, <1>7, <1>8, FillingInv

(* The field that is stored leaves todo, and the others stay as they were.   *)
LEMMA StoreHeaderInv ==
  ASSUME TypeOK, HostInv, NEW w \in Worker, NEW field \in Fields, StoreHeader(w, field)
  PROVE  HostInv'
  <1> DEFINE h == IF field = "magic" THEN [Ring(w).header EXCEPT !.magic = TRUE]
                  ELSE [Ring(w).header EXCEPT !.capacity = Capacity, !.owner = globals[w].path]
             f == [Ring(w) EXCEPT !.header = h]
             g == [globals[w] EXCEPT !.todo = @ \ {field}]
  <1>1. /\ Holds(w) /\ globals[w].ring \in Inode /\ ~globals[w].initialized
        /\ Ring(w).write_pos = 0
        /\ \A pos \in 0..(MaxSpans - 1) : Ring(w).data[pos] = None
        /\ globals[w].local_write_pos = 0 /\ sent[Producing(w)] = 0
    BY Created DEF StoreHeader
  <1>2. globals[w] \in Globals /\ Ring(w) \in File /\ Ring(w).header \in Header
    BY <1>1, Types DEF Ring, File
  <1>3. /\ file' = [file EXCEPT ![globals[w].ring] = f] /\ globals' = [globals EXCEPT ![w] = g]
        /\ UNCHANGED <<buffer_size, process, dir, opened, reader, sent, received, cut, misled>>
    BY DEF StoreHeader, daemon, history, Ring
  <1>4. /\ f.write_pos = 0 /\ (\A pos \in 0..(MaxSpans - 1) : f.data[pos] = None)
        /\ f.sized = Ring(w).sized /\ f.header = h
    BY <1>1, <1>2 DEF File
  <1>5. /\ g.ring = globals[w].ring /\ g.path = globals[w].path /\ ~g.initialized
        /\ g.pc = "mapped" /\ g.todo = globals[w].todo \ {field} /\ g.local_write_pos = 0
    BY <1>1, <1>2 DEF Globals, StoreHeader
  <1>6. globals'[w] = g /\ file'[globals[w].ring] = f /\ Capacity' = Capacity
    BY <1>1, <1>3, Types DEF Capacity
  <1>7. InStep(w) /\ globals[w].pc = "mapped"
    BY DEF HostInv, RingInStep, StoreHeader
  <1>8. /\ "magic" \notin g.todo => h.magic
        /\ "layout" \notin g.todo => h.capacity = Capacity /\ h.owner = globals[w].path
    BY <1>1, <1>2, <1>5, <1>7 DEF InStep, Header, Fields
  <1>9. Ring(w).sized
    BY <1>1, <1>7 DEF InStep
  <1> HIDE DEF f, g, h
  <1>10. InStep(w)'
    <2>1. /\ Holds(w)' /\ Ring(w)' = f /\ Producing(w)' = Producing(w)
          /\ globals'[w].path = globals[w].path
      BY <1>1, <1>5, <1>6 DEF Holds, Ring, Producing
    <2>2. f.sized /\ sent'[Producing(w)] = 0
      BY <1>1, <1>3, <1>4, <1>9
    <2> QED BY <1>4, <1>5, <1>6, <1>8, <2>1, <2>2 DEF InStep
  <1> QED BY <1>3, <1>4, <1>5, <1>7, <1>10, FillingInv

(* The handle counts from 0, and the header is whole. *)
LEMMA FillHandleInv ==
  ASSUME TypeOK, HostInv, NEW w \in Worker, FillHandle(w)
  PROVE  HostInv'
  <1> DEFINE f == Ring(w)
             g == [globals[w] EXCEPT !.initialized = TRUE, !.pc = "idle",
                                     !.capacity = Capacity, !.local_write_pos = 0]
  <1>1. /\ Holds(w) /\ globals[w].ring \in Inode
        /\ f.write_pos = 0 /\ (\A pos \in 0..(MaxSpans - 1) : f.data[pos] = None) /\ sent[Producing(w)] = 0
    BY Created DEF FillHandle
  <1>2. globals[w] \in Globals
    BY Types
  <1>3. /\ file' = file /\ file' = [file EXCEPT ![globals[w].ring] = f]
        /\ globals' = [globals EXCEPT ![w] = g]
        /\ UNCHANGED <<buffer_size, process, dir, opened, reader, sent, received, cut, misled>>
    BY <1>1, Types DEF FillHandle, daemon, history, Ring
  <1>4. InStep(w) /\ globals[w].pc = "mapped" /\ globals[w].todo = {}
    BY DEF HostInv, RingInStep, FillHandle
  <1>5. /\ g.ring = globals[w].ring /\ g.path = globals[w].path /\ g.initialized
        /\ g.pc = "idle" /\ g.todo = {} /\ g.capacity = Capacity /\ g.local_write_pos = 0
    BY <1>2, <1>4 DEF Globals
  <1>6. globals'[w] = g /\ Capacity' = Capacity
    BY <1>3, Types DEF Capacity
  <1> HIDE DEF g
  <1>7. InStep(w)'
    <2>1. /\ globals'[w].ring = globals[w].ring /\ globals'[w].path = globals[w].path
          /\ Ring(w)' = Ring(w) /\ sent' = sent /\ (Holds(w)' <=> Holds(w))
          /\ Producing(w)' = Producing(w)
      BY <1>3, <1>5, <1>6 DEF Holds, Ring, Producing
    <2>2. Ring(w).sized /\ Ring(w).header.magic
          /\ Ring(w).header.capacity = Capacity /\ Ring(w).header.owner = globals[w].path
      BY <1>1, <1>4 DEF InStep
    <2> QED BY <1>1, <1>5, <1>6, <2>1, <2>2 DEF InStep
  <1> QED BY <1>1, <1>3, <1>4, <1>5, <1>7, FillingInv

(* ftruncate or mmap fails: an empty file is unlinked, and no other. *)
LEMMA ResizeOrMapFailsInv ==
  ASSUME TypeOK, HostInv, NEW w \in Worker, ResizeOrMapFails(w)
  PROVE  HostInv'
  <1> DEFINE i == globals[w].ring
             name == globals[w].path
  <1>1. /\ Holds(w) /\ i \in Inode /\ name \in Name /\ ~globals[w].initialized
        /\ file[i].write_pos = 0 /\ Unread(i) = {}
    BY Created DEF ResizeOrMapFails, Ring
  <1>2. dir[name] = i
    BY <1>1 DEF HostInv, RingIsFindable, Holds
  <1> USE DEF HostInv, Holds, Ring, Producing, Writer, Up
  <1>3. /\ globals'[w] = ZeroGlobals /\ globals'[w].ring = None
        /\ \A v \in Worker : v # w => globals'[v] = globals[v]
    BY Types DEF ResizeOrMapFails, ZeroGlobals
  <1>4. UNCHANGED <<buffer_size, process, file, opened, reader, sent, received, cut, misled>>
    BY DEF ResizeOrMapFails, daemon, history
  <1>5. dir'[name] = None /\ \A n \in Name : n # name => dir'[n] = dir[n]
    BY <1>1, Types DEF ResizeOrMapFails
  <1>6. \A n \in Name : dir'[n] # None => n # name /\ dir'[n] = dir[n]
    BY <1>5
  <1>7. Capacity' = Capacity
    BY <1>4 DEF Capacity
  <1>8. PidsDiffer' /\ InOrder' /\ SpansInStep'
    BY <1>4 DEF PidsDiffer, InOrder, SpansInStep
  <1>9. NamesDiffer'
    BY <1>3, <1>4, <1>6 DEF NamesDiffer, Runs
  <1>10. RingIsFindable'
    BY <1>1, <1>3, <1>4, <1>5 DEF RingIsFindable, NamesDiffer
  <1>11. RingInStep'
    BY <1>3, <1>4, <1>7 DEF RingInStep, InStep
  <1>12. HeaderFirst'
    BY <1>4, <1>6, <1>7 DEF HeaderFirst
  <1>13. NamedAfterWriter'
    BY <1>3, <1>4, <1>6 DEF NamedAfterWriter
  <1>14. IdsAreUsed'
    <2>1. \A r \in Producer : <<r[1], Main>> \in Worker
      BY ModuleAssumption DEF Producer, Worker
    <2>2. \A r \in Producer : globals[<<r[1], Main>>].initialized => globals'[<<r[1], Main>>].initialized
      BY <1>1, <1>3, <2>1
    <2> QED BY <1>4, <2>2 DEF IdsAreUsed
  <1>15. LostOnlyByExitOrReuse'
    <2>1. \A r \in Producer : Delivered(r)' = Delivered(r) /\ (Unlinked(r[1])' <=> Unlinked(r[1]))
      BY <1>4 DEF Delivered, Unlinked
    <2>2. ASSUME NEW s, NEW j \in Reachable \ {None}, s \in Unread(j)
          PROVE  j \in Reachable' \ {None} /\ s \in Unread(j)'
      <3>1. j # i
        BY <1>1, <2>2
      <3>2. j \in Reachable'
        BY <1>2, <1>4, <1>5, <2>2, <3>1 DEF Reachable
      <3> QED BY <1>4, <2>2, <3>2 DEF Unread
    <2>3. MisledByOthers'
      BY <1>4, MisledKept
    <2> QED BY <1>4, <2>1, <2>2, <2>3 DEF LostOnlyByExitOrReuse, MisledByOthers
  <1>16. FilesHaveOwners'
    <2>1. \A q \in Process : <<q, Main>> \in Worker
      BY ModuleAssumption DEF Worker
    <2>2. \A q \in Process, n \in Name : n # name /\ AccountsFor(q, n) => AccountsFor(q, n)'
      BY <1>3, <1>4, <2>1 DEF AccountsFor, Unlinked
    <2> QED BY <1>6, <2>2 DEF FilesHaveOwners
  <1>17. ReaderInStep'
    BY <1>3, <1>4, <1>6 DEF ReaderInStep
  <1> QED BY <1>8, <1>9, <1>10, <1>11, <1>12, <1>13, <1>14, <1>15, <1>16, <1>17

(* No other thread and no other file has spans of the producer whose ring a  *)
(* thread writes into.                                                       *)
LEMMA WriteIsAlone ==
  ASSUME TypeOK, HostInv, NEW w \in Worker, Holds(w)
  PROVE  /\ \A v \in Worker : Holds(v) /\ v # w =>
              /\ globals[v].ring \in Inode /\ globals[v].ring # globals[w].ring
              /\ Producing(v) # Producing(w)
         /\ \A n \in Name : dir[n] = globals[w].ring => n = globals[w].path
         /\ \A j \in Inode : file[j].write_pos > 0 /\ Writer(j) = Producing(w) => j = globals[w].ring
  <1> USE DEF HostInv, Holds
  <1>1. globals[w].ring \in Inode /\ globals[w].path \in Name /\ dir[globals[w].path] = globals[w].ring
    BY Types DEF Globals, NamesDiffer, RingIsFindable
  <1>2. \A n \in Name : dir[n] = globals[w].ring => n = globals[w].path
    BY <1>1 DEF NamesDiffer
  <1>3. ASSUME NEW v \in Worker, Holds(v), v # w
        PROVE  /\ globals[v].ring \in Inode /\ globals[v].ring # globals[w].ring
               /\ Producing(v) # Producing(w)
    <2>1. /\ globals[v].path # globals[w].path /\ globals[v].path \in Name
          /\ dir[globals[v].path] = globals[v].ring
      BY <1>3 DEF NamesDiffer, RingIsFindable
    <2>2. /\ globals[v].path = <<process[v[1]].pid, globals[v].path[2]>>
          /\ globals[w].path = <<process[w[1]].pid, globals[w].path[2]>>
      BY <1>1, <1>3, <2>1 DEF RingIsFindable, Name
    <2>3. Producing(v) # Producing(w)
      BY <2>1, <2>2 DEF Producing
    <2> QED BY <1>2, <1>3, <2>1, <2>3, Types DEF Globals
  <1>4. ASSUME NEW j \in Inode, file[j].write_pos > 0, Writer(j) = Producing(w)
        PROVE  j = globals[w].ring
    <2>1. sent[Producing(w)] = file[j].write_pos
      BY <1>4 DEF SpansInStep
    <2>2. sent[Producing(w)] = Ring(w).write_pos
      BY DEF RingInStep, InStep
    <2>3. Writer(globals[w].ring) = Producing(w)
      BY <1>4, <2>1, <2>2 DEF NamedAfterWriter
    <2> QED BY <1>1, <1>4, <2>1, <2>2, <2>3 DEF SpansInStep, Ring
  <1> QED BY <1>2, <1>3, <1>4

(* lumbre_ringbuf_write: one more span of the thread's producer, in its file *)
(* and at its place.                                                         *)
LEMMA WriteInv ==
  ASSUME TypeOK, HostInv, NEW w \in Worker, Write(w)
  PROVE  HostInv'
  <1>a. PICK i \in Inode, n \in 0..(MaxSpans - 1), r \in Producer : Writes(w, i, n, r)
    BY WriteGives
  <1>0. i = globals[w].ring /\ n = Ring(w).write_pos /\ r = Producing(w)
    BY <1>a DEF Writes
  <1>b. PICK f : f = [file[i] EXCEPT !.data = [file[i].data EXCEPT ![n] = <<r, n + 1>>],
                                     !.write_pos = n + 1]
    OBVIOUS
  <1>c. PICK g : g = [globals[w] EXCEPT !.local_write_pos = n + 1]
    OBVIOUS
  <1>1. /\ MayFinishSpan(w) /\ Holds(w) /\ sent[r] = n
        /\ sent' = [sent EXCEPT ![r] = n + 1] /\ file' = [file EXCEPT ![i] = f]
        /\ globals' = [globals EXCEPT ![w] = g]
    BY <1>a, <1>b, <1>c DEF Writes
  <1>2. UNCHANGED <<buffer_size, process, dir, opened, reader, received, cut, misled>>
    BY DEF Write, daemon
  <1>3. globals[w] \in Globals /\ Ring(w) \in File /\ Ring(w) = file[i] /\ n \in Nat
    BY <1>0, Types, ModuleAssumption DEF Ring
  <1>4. /\ f.sized = Ring(w).sized /\ f.header = Ring(w).header
        /\ f.write_pos = n + 1 /\ f.data[n] = <<r, n + 1>>
        /\ \A pos \in 0..(MaxSpans - 1) : pos # n => f.data[pos] = Ring(w).data[pos]
    BY <1>b, <1>3, ModuleAssumption DEF File
  <1>5. /\ g.ring = i /\ g.path = globals[w].path /\ g.pc = globals[w].pc /\ g.todo = globals[w].todo
        /\ g.initialized = globals[w].initialized /\ g.capacity = globals[w].capacity
        /\ g.local_write_pos = n + 1
    BY <1>0, <1>c, <1>3 DEF Globals
  <1>6. /\ sent'[r] = n + 1 /\ \A q \in Producer : q # r => sent'[q] = sent[q]
        /\ file'[i] = f /\ \A j \in Inode : j # i => file'[j] = file[j]
        /\ globals'[w] = g /\ \A v \in Worker : v # w => globals'[v] = globals[v]
    BY <1>1, Types
  <1>7. \A v \in Worker : /\ globals'[v].ring = globals[v].ring /\ globals'[v].path = globals[v].path
                          /\ globals'[v].initialized = globals[v].initialized
    BY <1>0, <1>5, <1>6
  <1>8. /\ \A v \in Worker : Holds(v) /\ v # w =>
              globals[v].ring \in Inode /\ globals[v].ring # i /\ Producing(v) # r
        /\ \A m \in Name : dir[m] = i => m = globals[w].path
        /\ \A j \in Inode : file[j].write_pos > 0 /\ j # i => Writer(j) # r
    BY <1>0, <1>1, WriteIsAlone
  <1>9. InStep(w) /\ globals[w].pc = "idle" /\ globals[w].initialized /\ Runs(w)
    BY <1>1 DEF HostInv, RingInStep, MayFinishSpan
  <1>10. /\ Ring(w).sized /\ Ring(w).header = [magic |-> TRUE, capacity |-> Capacity, owner |-> globals[w].path]
         /\ globals[w].todo = {}
    <2>1. /\ Ring(w).sized /\ Ring(w).header.magic /\ Ring(w).header.capacity = Capacity
          /\ Ring(w).header.owner = globals[w].path /\ globals[w].todo = {}
      BY <1>1, <1>9 DEF InStep
    <2>2. Ring(w).header \in Header
      BY <1>3 DEF File
    <2> QED BY <2>1, <2>2 DEF Header
  <1>11. Capacity' = Capacity
    BY <1>2 DEF Capacity
  <1>12. /\ reader[i].cursor \in Nat /\ reader[i].avail \in Nat
         /\ \A pos \in 0..(n - 1) : file[i].data[pos] = <<r, pos + 1>>
         /\ \A pos \in n..(MaxSpans - 1) : file[i].data[pos] = None
         /\ \A k \in DOMAIN received[r] : received[r][k] <= reader[i].cursor
         /\ r \notin misled => /\ reader[i].cursor <= reader[i].avail /\ reader[i].avail <= n
                             /\ Len(received[r]) = reader[i].cursor
    <2>1. SpansInStep /\ NamedAfterWriter /\ ReaderInStep /\ IdsAreUsed
      BY DEF HostInv
    <2>2. file[i].write_pos = n
      BY <1>0, <1>3
    <2>3. reader[i].cursor \in Nat /\ reader[i].avail \in Nat
      BY Types, ModuleAssumption DEF Reader, Count
    <2>4. \A pos \in n..(MaxSpans - 1) : file[i].data[pos] = None
      BY <2>1, <2>2 DEF SpansInStep
    <2>5. CASE n > 0
      <3>1. Writer(i) = r
        BY <1>0, <1>1, <2>1, <2>5 DEF NamedAfterWriter
      <3> QED BY <2>1, <2>2, <2>3, <2>4, <2>5, <3>1 DEF SpansInStep
    <2>6. CASE n = 0
      <3>1. received[r] = << >>
        BY <1>1, <2>1, <2>6 DEF IdsAreUsed
      <3>2. r \notin misled => reader[i] = AtStart
        BY <1>0, <1>1, <2>1, <2>6 DEF ReaderInStep
      <3> QED BY <2>3, <2>4, <2>6, <3>1, <3>2 DEF AtStart
    <2> QED BY <1>3, <2>5, <2>6
  <1>13. /\ \A pos \in 0..n : f.data[pos] = <<r, pos + 1>>
         /\ Writer(i)' = r
    <2>1. \A pos \in 0..n : pos # n => pos \in 0..(n - 1) /\ pos \in 0..(MaxSpans - 1)
      BY <1>3, ModuleAssumption
    <2>2. \A pos \in 0..n : f.data[pos] = <<r, pos + 1>>
      BY <1>3, <1>4, <1>12, <2>1
    <2>3. f.data[0][1] = r
      BY <1>3, <2>2
    <2> QED BY <1>6, <2>2, <2>3 DEF Writer
  <1>14. PidsDiffer' /\ InOrder'
    BY <1>2 DEF HostInv, PidsDiffer, InOrder, Up
  <1>15. NamesDiffer'
    BY <1>2, <1>7 DEF HostInv, NamesDiffer, Holds, Runs, Up
  <1>16. RingIsFindable'
    BY <1>2, <1>7 DEF HostInv, RingIsFindable
  <1>17. RingInStep'
    <2>1. InStep(w)'
      <3>1. Holds(w)' /\ Ring(w)' = f /\ Producing(w)' = r
        BY <1>0, <1>1, <1>5, <1>6 DEF Holds, Ring, Producing
      <3>2. globals'[w].pc = "idle" /\ globals'[w].initialized
            /\ globals'[w].todo = {} /\ globals'[w].capacity = Capacity
            /\ globals'[w].local_write_pos = n + 1
            /\ globals'[w].path = globals[w].path
        BY <1>1, <1>5, <1>6, <1>9 DEF InStep
      <3>3. /\ f.sized /\ f.header.magic /\ f.header.capacity = Capacity'
            /\ f.header.owner = globals'[w].path
        BY <1>4, <1>10, <1>11, <3>2
      <3>4. f.write_pos = n + 1 /\ sent'[r] = n + 1
        BY <1>4, <1>6
      <3> QED BY <1>11, <3>1, <3>2, <3>3, <3>4 DEF InStep
    <2>2. ASSUME NEW v \in Worker, v # w
          PROVE  InStep(v)'
      <3>1. InStep(v)
        BY DEF HostInv, RingInStep
      <3>2. CASE Holds(v)
        <4>1. Producing(v) \in Producer
          BY <3>2 DEF HostInv, NamesDiffer, Producing, Producer, Name, Worker
        <4>2. Ring(v)' = Ring(v) /\ sent'[Producing(v)] = sent[Producing(v)]
          BY <1>6, <1>8, <2>2, <3>2, <4>1 DEF Ring
        <4> QED BY <1>6, <1>11, <2>2, <3>1, <3>2, <4>2 DEF InStep, Holds, Producing
      <3>3. CASE ~Holds(v)
        BY <1>6, <2>2, <3>1, <3>3 DEF InStep, Holds
      <3> QED BY <3>2, <3>3
    <2> QED BY <2>1, <2>2 DEF RingInStep
  <1>18. HeaderFirst'
    <2>1. ASSUME NEW m \in Name, dir[m] # None, file'[dir[m]].write_pos > 0
          PROVE  file'[dir[m]].sized /\
                 file'[dir[m]].header = [magic |-> TRUE, capacity |-> Capacity, owner |-> m]
      <3>1. CASE dir[m] = i
        BY <1>3, <1>4, <1>6, <1>8, <1>10, <3>1
      <3>2. CASE dir[m] # i
        BY <1>6, <2>1, <3>2, Types DEF HostInv, HeaderFirst
      <3> QED BY <3>1, <3>2
    <2> QED BY <1>2, <1>11, <2>1 DEF HeaderFirst
  <1>19. \A j \in Inode : j # i => file'[j] = file[j] /\ Writer(j)' = Writer(j)
    BY <1>6 DEF Writer
  <1>20. SpansInStep'
    <2>1. ASSUME NEW j \in Inode
          PROVE  /\ \A pos \in file'[j].write_pos..(MaxSpans - 1) : file'[j].data[pos] = None
                 /\ file'[j].write_pos > 0 =>
                      /\ Writer(j)' \in Producer
                      /\ sent'[Writer(j)'] = file'[j].write_pos
                      /\ \A pos \in 0..(file'[j].write_pos - 1) : file'[j].data[pos] = <<Writer(j)', pos + 1>>
                      /\ \A k \in DOMAIN received'[Writer(j)'] : received'[Writer(j)'][k] <= reader'[j].cursor
                      /\ Writer(j)' \notin misled' =>
                           /\ reader'[j].cursor <= reader'[j].avail
                           /\ reader'[j].avail <= file'[j].write_pos
                           /\ Len(received'[Writer(j)']) = reader'[j].cursor
      <3>1. CASE j = i
        <4>1. /\ file'[j] = f /\ Writer(j)' = r /\ f.write_pos = n + 1 /\ (n + 1) - 1 = n
          BY <1>3, <1>4, <1>6, <1>13, <3>1
        <4>2. \A pos \in (n + 1)..(MaxSpans - 1) : f.data[pos] = None
          <5>1. \A pos \in (n + 1)..(MaxSpans - 1) :
                  pos \in n..(MaxSpans - 1) /\ pos # n /\ pos \in 0..(MaxSpans - 1)
            BY <1>3, ModuleAssumption
          <5> QED BY <1>3, <1>4, <1>12, <5>1
        <4>3. /\ \A k \in DOMAIN received'[r] : received'[r][k] <= reader'[i].cursor
              /\ r \notin misled' =>
                   /\ reader'[i].cursor <= reader'[i].avail /\ reader'[i].avail <= n + 1
                   /\ Len(received'[r]) = reader'[i].cursor
          BY <1>2, <1>3, <1>12
        <4> HIDE DEF Writer
        <4> QED BY <1>6, <1>13, <3>1, <4>1, <4>2, <4>3
      <3>2. CASE j # i
        <4>1. file'[j] = file[j] /\ Writer(j)' = Writer(j) /\ (file[j].write_pos > 0 => Writer(j) # r)
          BY <1>6, <1>8, <1>19, <3>2
        <4>2. SpansInStep
          BY DEF HostInv
        <4> QED BY <1>2, <1>6, <4>1, <4>2 DEF SpansInStep
      <3> QED BY <3>1, <3>2
    <2>2. ASSUME NEW j \in Inode, NEW k \in Inode, file'[j].write_pos > 0, file'[k].write_pos > 0,
                 Writer(j)' = Writer(k)'
          PROVE  j = k
      <3>1. CASE j = i \/ k = i
        BY <1>8, <1>13, <1>19, <2>2, <3>1
      <3>2. CASE j # i /\ k # i
        BY <1>19, <2>2, <3>2 DEF HostInv, SpansInStep
      <3> QED BY <3>1, <3>2
    <2> QED BY <2>1, <2>2 DEF SpansInStep
  <1>21. NamedAfterWriter'
    <2>1. ASSUME NEW v \in Worker, Holds(v)', Ring(v)'.write_pos > 0
          PROVE  Writer(globals[v].ring)' = Producing(v)'
      <3>1. CASE v = w
        <4>1. globals'[v].ring = i /\ Producing(v)' = r
          BY <1>0, <1>5, <1>6, <3>1 DEF Producing
        <4> QED BY <1>13, <4>1 DEF Writer
      <3>2. CASE v # w
        <4>1. Holds(v) /\ globals[v].ring \in Inode /\ globals[v].ring # i
          BY <1>7, <1>8, <2>1, <3>2 DEF Holds
        <4>2. globals'[v] = globals[v] /\ file'[globals[v].ring] = file[globals[v].ring]
          BY <1>6, <3>2, <4>1
        <4>3. Ring(v).write_pos > 0 /\ Writer(globals[v].ring)' = Writer(globals[v].ring)
                /\ Producing(v)' = Producing(v)
          BY <2>1, <4>2 DEF Writer, Producing, Ring
        <4>4. NamedAfterWriter
          BY DEF HostInv
        <4> QED BY <4>1, <4>2, <4>3, <4>4 DEF NamedAfterWriter
      <3> QED BY <3>1, <3>2
    <2>2. ASSUME NEW m \in Name, NEW j \in Inode, dir[m] = j, file'[j].write_pos > 0
          PROVE  process[Writer(j)'[1]].pid = m[1] /\ Writer(j)'[2] = m[2]
      <3>1. CASE j = i
        <4>1. m = globals[w].path /\ r[1] = w[1] /\ r[2] = m[2]
          BY <1>0, <1>8, <2>2, <3>1 DEF Producing
        <4>2. process[w[1]].pid = m[1]
          BY <1>1, <4>1 DEF HostInv, RingIsFindable, Holds
        <4> QED BY <1>13, <3>1, <4>1, <4>2
      <3>2. CASE j # i
        <4>1. dir[m] # None /\ file[dir[m]].write_pos > 0
          BY <1>6, <2>2, <3>2, ModuleAssumption
        <4>2. process[Writer(j)[1]].pid = m[1] /\ Writer(j)[2] = m[2]
          BY <2>2, <4>1 DEF HostInv, NamedAfterWriter
        <4> QED BY <1>19, <2>2, <3>2, <4>2
      <3> QED BY <3>1, <3>2
    <2>3. \A m \in Name : dir[m] # None => dir[m] \in Inode
      BY Types
    <2> QED BY <1>2, <2>1, <2>2, <2>3 DEF NamedAfterWriter, Writer
  <1>22. IdsAreUsed'
    <2>1. /\ r[1] = w[1] /\ r[2] = globals[w].path[2] /\ Up(w[1]) /\ w[1] \in Process
          /\ w[1] \notin Zts => w = <<w[1], Main>>
      BY <1>0, <1>9 DEF Producing, Runs, Worker
    <2>2. /\ process[r[1]].state # "none"
          /\ IF r[1] \in Zts THEN r[2] < process[r[1]].counter ELSE globals[<<r[1], Main>>].initialized
      BY <1>1, <1>9, <2>1 DEF HostInv, NamesDiffer, Up
    <2>3. \A q \in Producer : globals'[<<q[1], Main>>].initialized = globals[<<q[1], Main>>].initialized
      BY <1>7, ModuleAssumption DEF Producer, Worker
    <2>4. \A q \in Producer :
            /\ sent'[q] = 0 => received[q] = << >>
            /\ sent'[q] > 0 => process[q[1]].state # "none"
            /\ sent'[q] > 0 /\ Up(q[1]) =>
                 IF q[1] \in Zts THEN q[2] < process[q[1]].counter
                 ELSE globals'[<<q[1], Main>>].initialized
      <3> TAKE q \in Producer
      <3>1. CASE q = r
        BY <1>3, <1>6, <1>12, <2>2, <2>3, <3>1
      <3>2. CASE q # r
        BY <1>6, <2>3, <3>2 DEF HostInv, IdsAreUsed
      <3> QED BY <3>1, <3>2
    <2>5. \A span \in cut : process[span[1][1]].state # "none"
      BY DEF HostInv, IdsAreUsed
    <2>6. \A q \in misled : process[q[1]].state # "none"
      BY DEF HostInv, IdsAreUsed
    <2> QED BY <1>2, <2>4, <2>5, <2>6 DEF IdsAreUsed, Up
  <1>23. LostOnlyByExitOrReuse'
    <2>1. /\ Reachable' = Reachable
          /\ \A q \in Producer : Delivered(q)' = Delivered(q) /\ (Unlinked(q[1])' <=> Unlinked(q[1]))
      BY <1>2 DEF Reachable, Delivered, Unlinked
    <2>2. Unread(i) \subseteq Unread(i)' /\ (r \notin misled => <<r, n + 1>> \in Unread(i)')
      <3>1. \A pos \in reader[i].cursor..(n - 1) :
              /\ pos # n /\ pos \in 0..(MaxSpans - 1) /\ pos \in reader[i].cursor..((n + 1) - 1)
        BY <1>3, <1>12, ModuleAssumption
      <3>2. \A pos \in reader[i].cursor..(n - 1) : f.data[pos] = file[i].data[pos]
        BY <1>3, <1>4, <3>1
      <3>3. r \notin misled => n \in reader[i].cursor..((n + 1) - 1)
        BY <1>3, <1>12
      <3>4. Unread(i)' = {f.data[pos] : pos \in reader[i].cursor..((n + 1) - 1)}
        BY <1>2, <1>4, <1>6 DEF Unread
      <3>5. Unread(i) = {file[i].data[pos] : pos \in reader[i].cursor..(n - 1)}
        BY <1>0, <1>3 DEF Unread
      <3> QED BY <1>4, <3>1, <3>2, <3>3, <3>4, <3>5
    <2>3. \A j \in Inode : Unread(j) \subseteq Unread(j)'
      <3> TAKE j \in Inode
      <3>1. j # i => Unread(j)' = Unread(j)
        BY <1>2, <1>6 DEF Unread
      <3> QED BY <2>2, <3>1
    <2>4. i \in Reachable \ {None} /\ Reachable \ {None} \subseteq Inode
      <3>1. RingIsFindable /\ NamesDiffer
        BY DEF HostInv
      <3>2. globals[w].path \in Name /\ dir[globals[w].path] = i
        BY <1>0, <1>1, <3>1 DEF RingIsFindable, NamesDiffer, Holds
      <3>3. i # None /\ opened \subseteq Inode /\ \A m \in Name : dir[m] \in Inode \cup {None}
        BY ModuleAssumption, Types
      <3> QED BY <3>2, <3>3 DEF Reachable
    <2>5. ASSUME NEW q \in Producer, q \notin misled, NEW m \in 1..sent'[q]
          PROVE  \/ m \in Delivered(q)' \/ <<q, m>> \in cut' \/ Unlinked(q[1])'
                 \/ \E j \in Reachable' \ {None} : <<q, m>> \in Unread(j)'
      <3>1. CASE q = r /\ m = n + 1
        <4>1. i \in Reachable' \ {None} /\ <<q, m>> \in Unread(i)'
          BY <2>1, <2>2, <2>4, <2>5, <3>1
        <4> QED BY <4>1
      <3>2. CASE ~(q = r /\ m = n + 1)
        <4>1. m \in 1..sent[q]
          BY <1>1, <1>3, <1>6, <2>5, <3>2
        <4>2. \/ m \in Delivered(q) \/ <<q, m>> \in cut \/ Unlinked(q[1])
              \/ \E j \in Reachable \ {None} : <<q, m>> \in Unread(j)
          BY <2>5, <4>1 DEF HostInv, LostOnlyByExitOrReuse
        <4> QED BY <1>2, <2>1, <2>3, <2>4, <4>2
      <3> QED BY <3>1, <3>2
    <2>6. \A span \in cut' : ~Up(span[1][1])'
      BY <1>2 DEF HostInv, LostOnlyByExitOrReuse, Up
    <2>7. MisledByOthers'
      <3>1. \A q \in Producer : sent[q] > 0 => sent'[q] > 0
        BY <1>3, <1>6
      <3> QED BY <1>2, <3>1, MisledKept
    <2> QED BY <1>2, <2>5, <2>6, <2>7 DEF LostOnlyByExitOrReuse, MisledByOthers
  <1>24. FilesHaveOwners'
    <2>1. \A q \in Process : <<q, Main>> \in Worker
      BY ModuleAssumption DEF Worker
    <2>2. \A q \in Process, m \in Name : AccountsFor(q, m) => AccountsFor(q, m)'
      BY <1>2, <1>7, <2>1 DEF AccountsFor, Unlinked, Up, Holds
    <2> QED BY <1>2, <2>2 DEF HostInv, FilesHaveOwners
  <1>25. ReaderInStep'
    <2>1. ReaderInStep
      BY DEF HostInv
    <2>2. ASSUME NEW v \in Worker, Holds(v)', Ring(v)'.write_pos = 0, Producing(v)' \notin misled
          PROVE  reader[globals'[v].ring] = AtStart
      <3>1. v # w
        <4>1. globals'[w].ring = i /\ file'[i].write_pos = n + 1
          BY <1>4, <1>5, <1>6
        <4>2. file'[globals'[v].ring].write_pos = 0 /\ n + 1 # 0
          BY <1>3, <2>2 DEF Ring
        <4> QED BY <4>1, <4>2
      <3>2. globals'[v] = globals[v] /\ Holds(v)
        BY <1>6, <2>2, <3>1 DEF Holds
      <3>3. Ring(v)' = Ring(v)
        BY <1>6, <1>8, <3>1, <3>2 DEF Ring
      <3> QED BY <2>1, <2>2, <3>2, <3>3 DEF ReaderInStep, Producing
    <2>3. \A q \in Producer : sent[q] > 0 => sent'[q] > 0
      BY <1>3, <1>6
    <2> QED BY <1>2, <2>1, <2>2, <2>3 DEF ReaderInStep
  <1> QED BY <1>14, <1>15, <1>16, <1>17, <1>18, <1>20, <1>21, <1>22, <1>23, <1>24, <1>25 DEF HostInv

(* The daemon copies the next span of a file: it is a later one than all it  *)
(* has of this producer.                                                     *)
LEMMA ReadInv ==
  ASSUME TypeOK, HostInv, NEW i \in Inode, Read(i)
  PROVE  HostInv'
  <1>0. PICK k \in Nat, r \in Producer : k = reader[i].cursor /\ r = Writer(i)
    BY Types, ReadGives, ModuleAssumption DEF Reader, Count
  <1>1. /\ k \in 0..(file[i].write_pos - 1) /\ file[i].write_pos > 0 /\ file[i].write_pos \in Nat
        /\ reader[i].avail \in Nat /\ k < reader[i].avail
        /\ received' = [received EXCEPT ![r] = Append(received[r], k + 1)]
        /\ reader' = [reader EXCEPT ![i] = [reader[i] EXCEPT !.cursor = k + 1]]
    <2>1. file[i].write_pos \in Nat /\ reader[i].avail \in Nat
      BY Types, ModuleAssumption DEF Reader, File, Count
    <2> QED BY <1>0, <2>1, ReadGives
  <1>2. UNCHANGED <<buffer_size, process, globals, dir, file, opened, sent, cut, misled>>
    BY DEF Read
  <1>3. reader[i] \in Reader /\ received[r] \in Seq(1..MaxSpans)
    BY Types
  <1>4. /\ \A j \in Inode : j # i => reader'[j] = reader[j]
        /\ reader'[i].cursor = k + 1 /\ reader'[i].avail = reader[i].avail
    BY <1>1, <1>3, Types DEF Reader
  <1>5. /\ \A q \in Producer : q # r => received'[q] = received[q]
        /\ Len(received'[r]) = Len(received[r]) + 1 /\ Len(received[r]) \in Nat
        /\ DOMAIN received'[r] = 1..(Len(received[r]) + 1)
        /\ DOMAIN received[r] = 1..Len(received[r])
        /\ received'[r][Len(received[r]) + 1] = k + 1
        /\ \A m \in DOMAIN received[r] : received'[r][m] = received[r][m]
    BY <1>1, <1>3, Types
  <1>6. Capacity' = Capacity /\ \A j : Writer(j)' = Writer(j)
    BY <1>2 DEF Capacity, Writer
  <1>7. /\ sent[r] = file[i].write_pos
        /\ \A m \in DOMAIN received[r] : received[r][m] <= k
        /\ r \notin misled => reader[i].avail <= file[i].write_pos /\ Len(received[r]) = k
        /\ file[i].data[k] = <<r, k + 1>>
        /\ \A j \in Inode : file[j].write_pos > 0 /\ j # i => Writer(j) # r
    BY <1>0, <1>1 DEF HostInv, SpansInStep
  <1> USE DEF HostInv
  <1>8. PidsDiffer' /\ NamesDiffer' /\ RingIsFindable'
    BY <1>2 DEF PidsDiffer, NamesDiffer, RingIsFindable, Holds, Runs, Up
  <1>9. RingInStep' /\ HeaderFirst'
    <2>1. RingInStep'
      BY <1>2, <1>6 DEF RingInStep, InStep, Holds, Ring, Producing
    <2>2. HeaderFirst'
      BY <1>2, <1>6 DEF HeaderFirst
    <2> QED BY <2>1, <2>2
  <1>10. NamedAfterWriter'
    BY <1>2, <1>6 DEF NamedAfterWriter, Holds, Ring, Producing
  <1>11. SpansInStep'
    <2>1. ASSUME NEW j \in Inode, file[j].write_pos > 0
          PROVE  /\ \A m \in DOMAIN received'[Writer(j)] : received'[Writer(j)][m] <= reader'[j].cursor
                 /\ Writer(j) \notin misled =>
                      /\ reader'[j].cursor <= reader'[j].avail /\ reader'[j].avail <= file[j].write_pos
                      /\ Len(received'[Writer(j)]) = reader'[j].cursor
      <3>1. CASE j = i
        <4>1. ASSUME NEW m \in DOMAIN received'[r]
              PROVE  received'[r][m] <= k + 1
          <5>1. CASE m \in DOMAIN received[r]
            <6>1. received[r][m] \in Nat
              BY <1>3, <5>1, ModuleAssumption
            <6> QED BY <1>5, <1>7, <5>1, <6>1
          <5>2. CASE m = Len(received[r]) + 1
            BY <1>5, <5>2
          <5> QED BY <1>5, <4>1, <5>1, <5>2
        <4> QED BY <1>0, <1>1, <1>4, <1>5, <1>7, <3>1, <4>1
      <3>2. CASE j # i
        <4>1. Writer(j) \in Producer /\ Writer(j) # r
          BY <1>7, <2>1, <3>2 DEF SpansInStep
        <4> QED BY <1>4, <1>5, <2>1, <3>2, <4>1 DEF SpansInStep
      <3> QED BY <3>1, <3>2
    <2>2. SpansInStep
      OBVIOUS
    <2> HIDE DEF HostInv
    <2> QED BY <1>2, <1>6, <2>1, <2>2 DEF SpansInStep
  <1>12. ReaderInStep'
    <2>1. k \in Nat /\ reader[i] # AtStart
      BY <1>0, <1>1 DEF AtStart
    <2>2. i \in opened
      BY DEF Read, Mapped
    <2>3. ASSUME NEW w \in Worker, Holds(w), Ring(w).write_pos = 0, Producing(w) \notin misled
          PROVE  reader'[globals[w].ring] = AtStart
      <3>1. reader[globals[w].ring] = AtStart /\ globals[w].ring \in Inode
        BY <2>3, Types DEF ReaderInStep, Holds, Globals
      <3> QED BY <1>4, <2>1, <3>1
    <2>4. ASSUME NEW n \in Name, dir[n] # None, reader'[dir[n]] # AtStart
          PROVE  reader[dir[n]] # AtStart
      <3>1. dir[n] \in Inode
        BY <2>4, Types
      <3> QED BY <1>4, <2>1, <2>4, <3>1
    <2>5. \A j \in Inode : j \notin opened => reader'[j] = AtStart
      BY <1>4, <2>2 DEF ReaderInStep
    <2> QED BY <1>2, <2>3, <2>4, <2>5 DEF ReaderInStep, Holds, Ring, Producing
  <1>13. IdsAreUsed'
    <2>1. ASSUME NEW q \in Producer, sent[q] = 0
          PROVE  received'[q] = << >>
      <3>1. q # r
        BY <1>1, <1>7, <2>1
      <3>2. received'[q] = received[q]
        BY <1>5, <3>1
      <3> QED BY <2>1, <3>2 DEF IdsAreUsed
    <2> QED BY <1>2, <2>1 DEF IdsAreUsed, Up
  <1>14. InOrder'
    <2>1. ASSUME NEW l \in DOMAIN received'[r], NEW m \in DOMAIN received'[r], l < m
          PROVE  received'[r][l] < received'[r][m]
      <3>1. l \in DOMAIN received[r] /\ (m \in DOMAIN received[r] \/ m = Len(received[r]) + 1)
        BY <1>5, <2>1
      <3>2. received[r][l] \in Nat
        BY <1>3, <3>1, ModuleAssumption
      <3>3. CASE m \in DOMAIN received[r]
        BY <1>5, <2>1, <3>1, <3>3 DEF InOrder
      <3>4. CASE m = Len(received[r]) + 1
        BY <1>0, <1>5, <1>7, <3>1, <3>2, <3>4
      <3> QED BY <3>1, <3>3, <3>4
    <2>2. ASSUME r \notin misled, NEW m \in DOMAIN received'[r]
          PROVE  received'[r][m] = m
      <3>1. CASE m \in DOMAIN received[r]
        BY <1>5, <2>2, <3>1 DEF InOrder
      <3>2. CASE m = Len(received[r]) + 1
        BY <1>5, <1>7, <2>2, <3>2
      <3> QED BY <1>5, <2>2, <3>1, <3>2
    <2>3. ASSUME NEW q \in Producer, q # r
          PROVE  /\ \A l, m \in DOMAIN received'[q] : l < m => received'[q][l] < received'[q][m]
                 /\ q \notin misled => \A m \in DOMAIN received'[q] : received'[q][m] = m
      BY <1>5, <2>3 DEF InOrder
    <2> QED BY <1>2, <2>1, <2>2, <2>3 DEF InOrder
  <1>15. LostOnlyByExitOrReuse'
    <2>1. /\ Reachable' = Reachable /\ Reachable \ {None} \subseteq Inode
          /\ \A q \in Producer : Unlinked(q[1])' <=> Unlinked(q[1])
      BY <1>2, Types DEF Reachable, Unlinked
    <2>2. \A q \in Producer : Delivered(q) \subseteq Delivered(q)'
      <3>1. Delivered(r) \subseteq Delivered(r)'
        BY <1>5 DEF Delivered
      <3>2. \A q \in Producer : q # r => Delivered(q)' = Delivered(q)
        BY <1>5 DEF Delivered
      <3> QED BY <3>1, <3>2
    <2>3. k + 1 \in Delivered(r)'
      BY <1>5 DEF Delivered
    <2>4. ASSUME NEW q \in Producer, NEW m, NEW j \in Inode, <<q, m>> \in Unread(j)
          PROVE  m \in Delivered(q)' \/ <<q, m>> \in Unread(j)'
      <3>1. CASE j # i
        BY <1>2, <1>4, <2>4, <3>1 DEF Unread
      <3>2. CASE j = i
        <4>1. PICK pos \in k..(file[i].write_pos - 1) : <<q, m>> = file[i].data[pos]
          BY <1>0, <2>4, <3>2 DEF Unread
        <4>2. CASE pos = k
          BY <1>7, <2>3, <4>1, <4>2
        <4>3. CASE pos # k
          <5>1. pos \in (k + 1)..(file[i].write_pos - 1)
            BY <1>1, <4>3
          <5> QED BY <1>2, <1>4, <3>2, <4>1, <5>1 DEF Unread
        <4> QED BY <4>2, <4>3
      <3> QED BY <3>1, <3>2
    <2>5. ASSUME NEW q \in Producer, q \notin misled, NEW m \in 1..sent[q]
          PROVE  \/ m \in Delivered(q)' \/ <<q, m>> \in cut' \/ Unlinked(q[1])'
                 \/ \E j \in Reachable' \ {None} : <<q, m>> \in Unread(j)'
      <3>1. \/ m \in Delivered(q) \/ <<q, m>> \in cut \/ Unlinked(q[1])
            \/ \E j \in Reachable \ {None} : <<q, m>> \in Unread(j)
        BY <2>5 DEF LostOnlyByExitOrReuse
      <3> QED BY <1>2, <2>1, <2>2, <2>4, <3>1
    <2>6. \A span \in cut' : ~Up(span[1][1])'
      BY <1>2 DEF LostOnlyByExitOrReuse, Up
    <2>7. MisledByOthers'
      BY <1>2, MisledKept
    <2> QED BY <1>2, <2>5, <2>6, <2>7 DEF LostOnlyByExitOrReuse, MisledByOthers
  <1>16. FilesHaveOwners'
    BY <1>2 DEF FilesHaveOwners, AccountsFor, Unlinked, Up, Holds
  <1> QED BY <1>8, <1>9, <1>10, <1>11, <1>12, <1>13, <1>14, <1>15, <1>16

(* The daemon learns how far a file goes: there is something in it only if   *)
(* its producer has published it.                                            *)
LEMMA LoadWritePosInv ==
  ASSUME TypeOK, HostInv, NEW i \in Inode, LoadWritePos(i)
  PROVE  HostInv'
  <1>1. /\ reader[i].avail # file[i].write_pos /\ i \in opened
        /\ reader' = [reader EXCEPT ![i] = [reader[i] EXCEPT !.avail = file[i].write_pos]]
    BY DEF LoadWritePos, Mapped
  <1>2. UNCHANGED <<buffer_size, process, globals, dir, file, opened, sent, received, cut, misled>>
    BY DEF LoadWritePos, history
  <1>3. reader[i] \in Reader /\ file[i].write_pos \in Nat
    BY Types, ModuleAssumption DEF File, Count
  <1>4. /\ \A j \in Inode : j # i => reader'[j] = reader[j]
        /\ reader'[i].cursor = reader[i].cursor /\ reader'[i].avail = file[i].write_pos
        /\ reader[i].cursor \in Nat /\ reader[i].avail \in Nat
    BY <1>1, <1>3, Types, ModuleAssumption DEF Reader, Count
  <1>5. Capacity' = Capacity /\ \A j : Writer(j)' = Writer(j)
    BY <1>2 DEF Capacity, Writer
  <1>6. \A j \in Inode : Unread(j)' = Unread(j)
    <2>1. \A j \in Inode : reader'[j].cursor = reader[j].cursor
      BY <1>4
    <2> QED BY <1>2, <2>1 DEF Unread
  <1> USE DEF HostInv
  <1>7. PidsDiffer' /\ NamesDiffer' /\ RingIsFindable'
    BY <1>2 DEF PidsDiffer, NamesDiffer, RingIsFindable, Holds, Runs, Up
  <1>8. RingInStep' /\ HeaderFirst'
    <2>1. RingInStep'
      BY <1>2, <1>5 DEF RingInStep, InStep, Holds, Ring, Producing
    <2>2. HeaderFirst'
      BY <1>2, <1>5 DEF HeaderFirst
    <2> QED BY <2>1, <2>2
  <1>9. NamedAfterWriter'
    BY <1>2, <1>5 DEF NamedAfterWriter, Holds, Ring, Producing
  <1>10. IdsAreUsed' /\ InOrder'
    BY <1>2 DEF IdsAreUsed, InOrder, Up
  <1>11. SpansInStep'
    <2>1. \A j \in Inode :
            /\ reader'[j].cursor = reader[j].cursor
            /\ reader[j].cursor <= reader[j].avail /\ reader[j].avail <= file[j].write_pos =>
                 reader'[j].cursor <= reader'[j].avail /\ reader'[j].avail <= file[j].write_pos
      BY <1>3, <1>4
    <2>2. SpansInStep
      OBVIOUS
    <2> HIDE DEF HostInv
    <2> QED BY <1>2, <1>5, <2>1, <2>2 DEF SpansInStep
  <1>12. ReaderInStep'
    <2>1. \A j \in Inode : j \notin opened => reader'[j] = AtStart
      BY <1>1, <1>4 DEF ReaderInStep
    <2>2. ASSUME NEW w \in Worker, Holds(w), Ring(w).write_pos = 0, Producing(w) \notin misled
          PROVE  reader'[globals[w].ring] = AtStart
      <3>1. reader[globals[w].ring] = AtStart /\ globals[w].ring \in Inode
        BY <2>2, Types DEF ReaderInStep, Holds, Globals
      <3>2. globals[w].ring # i
        BY <1>1, <2>2, <3>1 DEF AtStart, Ring
      <3> QED BY <1>4, <3>1, <3>2
    <2>3. ASSUME NEW n \in Name, dir[n] # None, reader'[dir[n]] # AtStart
          PROVE  \E r \in Producer : sent[r] > 0 /\ process[r[1]].pid = n[1] /\ r[2] = n[2]
      <3>1. CASE reader[dir[n]] # AtStart
        BY <2>3, <3>1 DEF ReaderInStep
      <3>2. CASE reader[dir[n]] = AtStart
        <4>1. dir[n] = i /\ i \in Inode
          BY <1>4, <2>3, <3>2, Types
        <4>2. file[i].write_pos > 0
          BY <1>1, <1>3, <3>2, <4>1 DEF AtStart
        <4>3. Writer(i) \in Producer /\ sent[Writer(i)] > 0
          BY <4>2 DEF SpansInStep
        <4>4. process[Writer(i)[1]].pid = n[1] /\ Writer(i)[2] = n[2]
          BY <2>3, <4>1, <4>2 DEF NamedAfterWriter
        <4> QED BY <4>3, <4>4
      <3> QED BY <3>1, <3>2
    <2> QED BY <1>2, <2>1, <2>2, <2>3 DEF ReaderInStep, Holds, Ring, Producing
  <1>13. LostOnlyByExitOrReuse'
    <2>1. Reachable' = Reachable /\ Reachable \ {None} \subseteq Inode
      BY <1>2, Types DEF Reachable
    <2>2. \A q \in Producer : Delivered(q)' = Delivered(q) /\ (Unlinked(q[1])' <=> Unlinked(q[1]))
      BY <1>2 DEF Delivered, Unlinked
    <2>3. MisledByOthers'
      BY <1>2, MisledKept
    <2>4. \A span \in cut' : ~Up(span[1][1])'
      BY <1>2 DEF LostOnlyByExitOrReuse, Up
    <2>5. ASSUME NEW q \in Producer, q \notin misled, NEW m \in 1..sent[q]
          PROVE  \/ m \in Delivered(q)' \/ <<q, m>> \in cut' \/ Unlinked(q[1])'
                 \/ \E j \in Reachable' \ {None} : <<q, m>> \in Unread(j)'
      <3>1. \/ m \in Delivered(q) \/ <<q, m>> \in cut \/ Unlinked(q[1])
            \/ \E j \in Reachable \ {None} : <<q, m>> \in Unread(j)
        BY <2>5 DEF LostOnlyByExitOrReuse
      <3> QED BY <1>2, <1>6, <2>1, <2>2, <3>1
    <2> QED BY <1>2, <2>3, <2>4, <2>5 DEF LostOnlyByExitOrReuse, MisledByOthers
  <1>14. FilesHaveOwners'
    BY <1>2 DEF FilesHaveOwners, AccountsFor, Unlinked, Up, Holds
  <1> QED BY <1>7, <1>8, <1>9, <1>10, <1>11, <1>12, <1>13, <1>14

(* The daemon gives room back, in the file it reads or in one that took its  *)
(* place: only its producers look at that.                                   *)
LEMMA StoreReadPosInv ==
  ASSUME TypeOK, HostInv, NEW i \in Inode, StoreReadPos(i)
  PROVE  HostInv'
  <1>1. UNCHANGED <<buffer_size, process, globals, dir, opened, reader, sent, received, cut, misled>>
    BY DEF StoreReadPos, daemon, history
  <1>2. \A j \in Inode : /\ file'[j].sized = file[j].sized /\ file'[j].header = file[j].header
                         /\ file'[j].write_pos = file[j].write_pos /\ file'[j].data = file[j].data
    BY Types DEF StoreReadPos, File
  <1>3. Capacity' = Capacity /\ \A j \in Inode : Writer(j)' = Writer(j) /\ Unread(j)' = Unread(j)
    BY <1>1, <1>2 DEF Capacity, Writer, Unread
  <1>4. /\ \A w \in Worker : Holds(w) => globals[w].ring \in Inode
        /\ \A n \in Name : dir[n] # None => dir[n] \in Inode
    BY Types DEF Holds, Globals
  <1> USE DEF HostInv
  <1>5. PidsDiffer' /\ NamesDiffer' /\ RingIsFindable'
    BY <1>1 DEF PidsDiffer, NamesDiffer, RingIsFindable, Holds, Runs, Up
  <1>6. IdsAreUsed' /\ InOrder'
    BY <1>1 DEF IdsAreUsed, InOrder, Up
  <1>7. RingInStep'
    <2>1. ASSUME NEW w \in Worker
          PROVE  InStep(w)'
      <3>1. InStep(w)
        BY DEF RingInStep
      <3>2. Holds(w) => /\ Ring(w)'.sized = Ring(w).sized /\ Ring(w)'.header = Ring(w).header
                        /\ Ring(w)'.write_pos = Ring(w).write_pos
        BY <1>1, <1>2, <1>4 DEF Ring
      <3> QED BY <1>1, <1>3, <3>1, <3>2 DEF InStep, Holds, Producing
    <2> QED BY <2>1 DEF RingInStep
  <1>8. HeaderFirst'
    BY <1>1, <1>2, <1>3, <1>4 DEF HeaderFirst
  <1>9. NamedAfterWriter'
    <2>1. \A w \in Worker : Holds(w) /\ Ring(w)'.write_pos > 0 =>
            Writer(globals[w].ring)' = Producing(w)
      BY <1>1, <1>2, <1>3, <1>4 DEF NamedAfterWriter, Ring
    <2>2. ASSUME NEW n \in Name, dir[n] # None, file'[dir[n]].write_pos > 0
          PROVE  process[Writer(dir[n])'[1]].pid = n[1] /\ Writer(dir[n])'[2] = n[2]
      <3>1. dir[n] \in Inode /\ dir' = dir
        BY <1>1, <1>4, <2>2
      <3>2. file'[dir[n]].data = file[dir[n]].data /\ file[dir[n]].write_pos > 0
        BY <1>2, <2>2, <3>1
      <3> QED BY <2>2, <3>1, <3>2 DEF NamedAfterWriter, Writer
    <2> QED BY <1>1, <2>1, <2>2 DEF NamedAfterWriter, Holds, Producing, Ring, Writer
  <1>10. SpansInStep'
    <2>1. SpansInStep
      OBVIOUS
    <2> HIDE DEF HostInv
    <2> QED BY <1>1, <1>2, <1>3, <2>1 DEF SpansInStep
  <1>11. ReaderInStep'
    BY <1>1, <1>2, <1>4 DEF ReaderInStep, Holds, Ring, Producing
  <1>12. LostOnlyByExitOrReuse'
    <2>1. Reachable' = Reachable /\ Reachable \ {None} \subseteq Inode
      BY <1>1, Types DEF Reachable
    <2>2. \A q \in Producer : Delivered(q)' = Delivered(q) /\ (Unlinked(q[1])' <=> Unlinked(q[1]))
      BY <1>1 DEF Delivered, Unlinked
    <2>3. MisledByOthers'
      BY <1>1, MisledKept
    <2>4. \A span \in cut' : ~Up(span[1][1])'
      BY <1>1 DEF LostOnlyByExitOrReuse, Up
    <2>5. ASSUME NEW q \in Producer, q \notin misled, NEW m \in 1..sent[q]
          PROVE  \/ m \in Delivered(q)' \/ <<q, m>> \in cut' \/ Unlinked(q[1])'
                 \/ \E j \in Reachable' \ {None} : <<q, m>> \in Unread(j)'
      <3>1. \/ m \in Delivered(q) \/ <<q, m>> \in cut \/ Unlinked(q[1])
            \/ \E j \in Reachable \ {None} : <<q, m>> \in Unread(j)
        BY <2>5 DEF LostOnlyByExitOrReuse
      <3> QED BY <1>1, <1>3, <2>1, <2>2, <3>1
    <2> QED BY <1>1, <2>3, <2>4, <2>5 DEF LostOnlyByExitOrReuse, MisledByOthers
  <1>13. FilesHaveOwners'
    BY <1>1 DEF FilesHaveOwners, AccountsFor, Unlinked, Up, Holds
  <1> QED BY <1>5, <1>6, <1>7, <1>8, <1>9, <1>10, <1>11, <1>12, <1>13

(* A file the daemon opens can only be found more easily. *)
LEMMA AdoptInv ==
  ASSUME TypeOK, HostInv, NEW i \in Inode, Adopt(i)
  PROVE  HostInv'
  <1> USE DEF HostInv, Holds, Ring, Producing, Writer, Up
  <1>1. UNCHANGED <<buffer_size, process, globals, dir, file, reader, sent, received, cut, misled>>
    BY DEF Adopt, history
  <1>2. opened' = opened \cup {i} /\ i \in Inode
    BY DEF Adopt
  <1>3. Capacity' = Capacity
    BY <1>1 DEF Capacity
  <1>4. PidsDiffer' /\ NamesDiffer' /\ RingIsFindable' /\ InOrder' /\ IdsAreUsed'
    BY <1>1 DEF PidsDiffer, NamesDiffer, RingIsFindable, InOrder, IdsAreUsed, Runs
  <1>5. RingInStep' /\ HeaderFirst' /\ SpansInStep' /\ NamedAfterWriter'
    <2>1. RingInStep'
      BY <1>1, <1>3 DEF RingInStep, InStep
    <2>2. HeaderFirst'
      BY <1>1, <1>3 DEF HeaderFirst
    <2>3. SpansInStep'
      BY <1>1 DEF SpansInStep
    <2>4. NamedAfterWriter'
      BY <1>1 DEF NamedAfterWriter
    <2> QED BY <2>1, <2>2, <2>3, <2>4
  <1>6. LostOnlyByExitOrReuse'
    <2>1. Reachable \subseteq Reachable' /\ \A j : Unread(j)' = Unread(j)
      BY <1>1, <1>2 DEF Reachable, Unread
    <2>2. \A r \in Producer : Delivered(r)' = Delivered(r) /\ (Unlinked(r[1])' <=> Unlinked(r[1]))
      BY <1>1 DEF Delivered, Unlinked
    <2>3. MisledByOthers'
      BY <1>1, MisledKept
    <2> QED BY <1>1, <2>1, <2>2, <2>3 DEF LostOnlyByExitOrReuse, MisledByOthers
  <1>7. FilesHaveOwners'
    BY <1>1 DEF FilesHaveOwners, AccountsFor, Unlinked
  <1>8. ReaderInStep'
    BY <1>1, <1>2 DEF ReaderInStep
  <1> QED BY <1>4, <1>5, <1>6, <1>7, <1>8

(* Nothing happens. *)
LEMMA StutterInv ==
  ASSUME TypeOK, HostInv, UNCHANGED vars
  PROVE  HostInv'
  <1> USE DEF HostInv, Holds, Ring, Producing, Writer, Up, vars, daemon, history
  <1>1. Capacity' = Capacity
    BY DEF Capacity
  <1>2. PidsDiffer' /\ NamesDiffer' /\ RingIsFindable' /\ InOrder' /\ IdsAreUsed'
    BY DEF PidsDiffer, NamesDiffer, RingIsFindable, InOrder, IdsAreUsed, Runs
  <1>3. RingInStep' /\ HeaderFirst' /\ SpansInStep' /\ NamedAfterWriter'
    BY <1>1 DEF RingInStep, InStep, HeaderFirst, SpansInStep, NamedAfterWriter
  <1>4. LostOnlyByExitOrReuse'
    <2>1. Reachable' = Reachable /\ \A i : Unread(i)' = Unread(i)
      BY DEF Reachable, Unread
    <2>2. \A r \in Producer : Delivered(r)' = Delivered(r) /\ (Unlinked(r[1])' <=> Unlinked(r[1]))
      BY DEF Delivered, Unlinked
    <2>3. MisledByOthers'
      BY MisledKept
    <2> QED BY <2>1, <2>2, <2>3 DEF LostOnlyByExitOrReuse, MisledByOthers
  <1>5. FilesHaveOwners'
    BY DEF FilesHaveOwners, AccountsFor, Unlinked
  <1>6. ReaderInStep'
    BY DEF ReaderInStep
  <1> QED BY <1>2, <1>3, <1>4, <1>5, <1>6

(* Every step keeps the invariant. *)
LEMMA HostStep ==
  ASSUME TypeOK, HostInv, [Next]_vars
  PROVE  HostInv'
  BY StartInv, KillInv, ExitInv, ThreadEndsInv, OpenInv, OpenFailsInv, ResizeInv,
     ResizeOrMapFailsInv, MapInv, StoreHeaderInv, FillHandleInv, WriteInv, AdoptInv,
     LoadWritePosInv, ReadInv, StoreReadPosInv, StutterInv DEF Next, DaemonStep

(* A host on which nothing ran yet. *)
LEMMA HostInit == Init => TypeOK /\ HostInv
  <1> SUFFICES ASSUME Init
               PROVE  TypeOK /\ HostInv
    OBVIOUS
  <1>1. TypeOK
    <2>1. 0 \in Count
      BY ModuleAssumption DEF Count
    <2>2. [state |-> "none", pid |-> None, sapi |-> "cli", counter |-> 0] \in Proc
      BY DEF Proc
    <2>3. << >> \in Seq(1..MaxSpans)
      OBVIOUS
    <2> QED BY <2>1, <2>2, <2>3, ZeroTyped DEF Init, TypeOK, Globals, File, Header, Proc, Reader
  <1>2. /\ \A w \in Worker : globals[w] = ZeroGlobals /\ ~Holds(w)
        /\ \A i \in Inode : /\ file[i].write_pos = 0 /\ reader[i] = AtStart
                            /\ \A pos \in 0..(MaxSpans - 1) : file[i].data[pos] = None
        /\ \A p \in Process : process[p].state = "none"
        /\ \A r \in Producer : sent[r] = 0 /\ received[r] = << >>
        /\ \A n \in Name : dir[n] = None
        /\ cut = {} /\ misled = {}
    BY DEF Init, ZeroGlobals, EmptyFile, NoSpans, Holds
  <1>3. PidsDiffer
    BY <1>2 DEF PidsDiffer, Up
  <1>4. NamesDiffer /\ RingIsFindable /\ RingInStep
    BY <1>2 DEF NamesDiffer, RingIsFindable, RingInStep, InStep, Holds
  <1>5. HeaderFirst /\ SpansInStep /\ NamedAfterWriter
    BY <1>2 DEF HeaderFirst, SpansInStep, NamedAfterWriter, Holds
  <1>6. IdsAreUsed /\ InOrder /\ ReaderInStep
    BY <1>2 DEF IdsAreUsed, InOrder, ReaderInStep, Holds
  <1>7. LostOnlyByExitOrReuse /\ FilesHaveOwners
    BY <1>2 DEF LostOnlyByExitOrReuse, FilesHaveOwners
  <1> QED BY <1>1, <1>3, <1>4, <1>5, <1>6, <1>7 DEF HostInv

-----------------------------------------------------------------------------
(* The theorems. *)

(* The conjunction that every action of processes, threads and the daemon    *)
(* preserves: it holds throughout.                                           *)
THEOREM HostInvariant == Spec => [](TypeOK /\ HostInv)
  <1>1. TypeOK /\ HostInv /\ [Next]_vars => (TypeOK /\ HostInv)'
    BY TypeStep, HostStep
  <1> QED BY HostInit, <1>1, PTL DEF Spec

(* Names, positions and module globals stay in their ranges: no more is      *)
(* written or read than places exist, and names are those of                 *)
(* lumbre_ringbuf.c:82.                                                      *)
THEOREM HostTypes == Spec => []TypeOK
  BY HostInvariant, PTL

(* A ring has one producer: no two threads ever map the same file, whatever  *)
(* pid or thread came before (php_lumbre.c:68).                              *)
THEOREM OneRingPerWorkerAlways == Spec => []OneRingPerWorker
  <1>1. TypeOK /\ HostInv => OneRingPerWorker
    BY DEF HostInv, NamesDiffer, RingIsFindable, Holds, OneRingPerWorker
  <1> QED BY HostInvariant, <1>1, PTL

(* The ring a worker has open is the file under its own pid and id: nobody's *)
(* failing init, exit or new process takes it away (php_lumbre.c:430).       *)
THEOREM RingIsFindableAlways == Spec => []RingIsFindable
  <1>1. HostInv => RingIsFindable
    BY DEF HostInv
  <1> QED BY HostInvariant, <1>1, PTL

(* Once the daemon sees a published span, the header is whole and says what  *)
(* the name says, in whatever order the plain stores of                      *)
(* lumbre_ringbuf.c:117-122 get visible.                                     *)
THEOREM HeaderFirstAlways == Spec => []HeaderFirst
  <1>1. HostInv => HeaderFirst
    BY DEF HostInv
  <1> QED BY HostInvariant, <1>1, PTL

(* A published span is with the daemon or ahead of its position in a file it *)
(* has or finds, unless MSHUTDOWN outside the CLI unlinked the file          *)
(* (php_lumbre.c:430), a later process with the same pid truncated it        *)
(* (lumbre_ringbuf.c:91), or its producer is such a process and the daemon   *)
(* still has its position of the one before.                                 *)
THEOREM LostOnlyByExitOrReuseAlways == Spec => []LostOnlyByExitOrReuse
  <1>1. HostInv => LostOnlyByExitOrReuse
    BY DEF HostInv
  <1> QED BY HostInvariant, <1>1, PTL

(* Wherever the daemon was in a file when it was truncated, and whatever     *)
(* read_pos it stores then, it gets no span of a worker twice nor after a    *)
(* later one; and it gets them without a gap unless it had seen spans in the *)
(* file before the worker came (lumbre_ringbuf.c:91).                        *)
THEOREM InOrderAlways == Spec => []InOrder
  <1>1. HostInv => InOrder
    BY DEF HostInv
  <1> QED BY HostInvariant, <1>1, PTL

(* No file stays behind that nobody accounts for: after MSHUTDOWN outside    *)
(* the CLI, only those of other threads of a ZTS process (php_lumbre.c:430). *)
THEOREM NoStrayFilesAlways == Spec => []NoStrayFiles
  <1>1. HostInv => NoStrayFiles
    BY DEF HostInv, FilesHaveOwners, AccountsFor, NoStrayFiles
  <1> QED BY HostInvariant, <1>1, PTL
=============================================================================
