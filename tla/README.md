# A TLA+ development of the Lumbre PHP extension

The extension hooks the Zend engine, turns calls into spans, encodes each span
as a msgpack map and writes it into a ring buffer in shared memory, one ring
per PHP worker, from which a daemon reads. This directory specifies the parts
of it that keep state, model-checks them with TLC on small instances, and
proves the main results with TLAPS for every value of the parameters.

## The system

| Component | Code | State it keeps | Operations |
|---|---|---|---|
| span ring | `lumbre_ringbuf.[ch]` | shared header (`write_pos`, `read_pos`, `dropped`), shared bytes, the worker's handle (`local_write_pos`) | init, write, destroy |
| daemon | not in the repository; its reader is simulated in `tests/test_ringbuf.c:399-420` | the files it has mapped; in each its own position and the `write_pos` it has loaded | find files, load `write_pos`, read messages, store `read_pos` |
| span context | `lumbre_span.[ch]` | `lumbre_context_t` (trace id, counter, current parent, active) | context init/reset, span start/finish |
| encoding | `lumbre_span.c:102-195`, `lumbre_msgpack.[ch]`, payload setters | one msgpack buffer per worker | pack map, integer, string, binary |
| whitelist | `lumbre_whitelist.[ch]` | hash table of 64 slots | init, match, destroy |
| hooks and request life cycle | `php_lumbre.[ch]` | module globals | GINIT, RINIT, RSHUTDOWN, `lumbre_execute_internal`, `lumbre_execute_ex`, INI updates |
| module life cycle | `php_lumbre.c`, `lumbre_ringbuf_init/destroy` | ring files, worker ids | MINIT, MSHUTDOWN, file creation and removal |

Interaction. A hook looks the function up in the whitelist, starts a span in
the context (a module global), runs the original handler (PHP code that calls
the hooks again), finishes the span (restores the parent, filters, encodes
into the shared buffer) and hands the bytes to the ring. Everything up to the
ring runs in one thread; the ring is the only place with a second party, the
daemon, and the only synchronisation is one release store of `write_pos` and a
relaxed load of `read_pos`.

What is hard:

- the ring: stores of the two sides interleave, the worker may act on an old
  `read_pos`, may be killed between any two stores, and messages wrap around
  with padding;
- the implicit stack: `current_parent_id` has to follow the C stack of hooks
  through filtering, failed writes, `ini_set` in mid-request, bailouts that jump
  over hooks, and fibers with stacks of their own;
- request boundaries: module globals outlive the request, initialisation and
  random bytes may fail;
- ring files: made in several system calls and plain stores while a daemon looks
  for them, by processes that are killed at any point, with names that a later
  process of the same pid takes over, and removed or not on exit, all under a
  daemon that keeps its positions in the files it has mapped;
- encoding: two tables that have to agree, widths and their boundaries, a buffer
  that is left half-filled by a failure;
- probing: displaced and colliding entries, across the end of the table.

## Modules

| Module | What it is |
|---|---|
| `LumbreRingBuf` | `lumbre_ringbuf_write` cut at every access to shared memory, the daemon's reader, a kill |
| `SpanChannel` | the abstract promise of the ring: a lossy FIFO channel |
| `MCLumbreRingBuf` | instances of the ring |
| `LumbreRingBufProofs` | inductive invariant, safety, refinement |
| `LumbreTracer` | requests, hooks, context and spans of one worker; the engine around them |
| `MCLumbreTracer` | instances of the tracer |
| `LumbreTracerProofs` | three inductive invariants and the properties that follow |
| `LumbreExport` | the composition of tracer, ring (as `SpanChannel`) and daemon |
| `LumbreExportProofs` | its inductive invariant, what the daemon can rely on, the use of the ring |
| `LumbreModule`, `MCLumbreModule` | ring files of a host: processes, threads, creation, exit, fork, the daemon's directory |
| `LumbreModuleProofs` | the inductive invariant of the host and its safety properties |
| `LumbreCapacityProofs` | powers of two and the rounding of a ring's capacity |
| `LumbreSpanEncode`, `MCLumbreSpanEncode` | payloads, truncation, encoding, packing; a reader of the format |
| `LumbreSpanEncodeProofs` | the bound of the msgpack buffer and which records are lost |
| `LumbreReadBackProofs` | that records read back |
| `LumbreWhitelist`, `MCLumbreWhitelist` | the hash table |
| `LumbreWhitelistProofs` | the invariant of linear probing, exact lookups |

`PROJECT.json` maps each definition to the lines it models.

### LumbreRingBuf

`write_pos`, `read_pos`, `dropped` and `data` are the shared mapping;
`local_write_pos`, `ppc` (where the worker is inside the call), `payload` and
`loaded_read_pos` are the worker's; `cursor`, `avail`, `rlen` the daemon's. One
action per access: `RefuseOversize` and `LoadReadPos` begin a call, then `Drop`
or `WritePadding`, `WritePrefix`, `WritePayload`, `Publish`. `Kill` may strike
anywhere. `visible_read_pos` trails `read_pos`: it is the value a relaxed load
returns. The daemon acquires `write_pos`, so it sees every byte stored before
the release; it may release its position after one message or after many.

Length prefixes and the padding marker are four distinct cells each, so a store
of either is four bytes wide in the model as in the code and a torn or
misplaced one is noticed. Positions are naturals (2^64 bytes are out of
reach); the uint32_t sums keep their width. Three cells behind the ring stand
for the rest of the mapping's last page, which a 4-byte store at the very end
reaches.

### LumbreTracer

A hook is a C frame: `CallIo` and `CallFunc` push the frame with the span it
started, `ReturnTraced` pops it and finishes the span; frames without a span
are those of calls that were passed through. `Fate` is what
`lumbre_span_finish` may come to: filtered, written, or lost (the encoding
overflowed or the ring refused the record; the two differ only in `dropped`).
The engine is external and does what it may: nested calls, `ini_set`, bailouts
to the shutdown functions, switches between fibers. A resume goes through the
main stack; fibers that resume each other directly are left out.

IO spans and the whitelist's types are one type here; which function makes
which record is the business of the two modules below.

### LumbreExport

EXTENDS the tracer and conjoins to each of its steps what happens to the span
it finishes: no record, a record in the ring, one the ring refuses (`dropped`)
or one that overflows the msgpack buffer. The ring is `SpanChannel`, which
`LumbreRingBuf` is proved to implement; `DaemonStep` is its `Receive`. So the
properties speak of what the daemon has, not of what the hooks meant.

### LumbreModule

Per process its pid, SAPI and `lumbre_worker_counter`; per thread its module
globals (`initialized`, the ring, its path, `pc` between the system calls of
`lumbre_ringbuf_init`); the directory, and the files behind its names. One
action per system call of the creation, one per group of header stores, each
with its failure; `Write` stands for a whole `lumbre_ringbuf_write` of one span
with a stale `read_pos`, since bytes are `LumbreRingBuf`'s business. `Open`
empties a file of the same name, as O_TRUNC does, and keeps its inode, so a
daemon that has the old one mapped sees it change. `Kill` may strike between
any two steps, `ThreadEnds` replaces the globals of a ZTS thread (there is no
GSHUTDOWN), `Exit` is MSHUTDOWN in the main thread. After a failed creation the
code clears `enabled`, and a later request may try again once the INI entry is
restored; here it may at once. What `LumbreTracer` says of `enabled` is not
repeated. `lumbre_next_power_of_2` is modelled bit by bit; the instances use
30 bits for 32, the integers of TLC being 32 bits wide.

`Spec` leaves fork out; `ForkSpec` adds it, and is used by `ModuleFork` only.

The daemon is external. It maps the files it finds and reads them as
`tests/test_ringbuf.c:399-420` does, with a position of its own
(`reader[i].cursor`) up to the `write_pos` it has loaded (`reader[i].avail`):
`LoadWritePos`, `Read` and `StoreReadPos` are steps of their own, and a file may
be truncated between any two of them. A truncation resets nothing of the
daemon's. So it may take the spans of the new worker for those it has read, or
store into the new header a `read_pos` ahead of `write_pos`; the worker's free
space is then above the capacity, as the unsigned difference in the code is, and
its spans are dropped (`Room`). Where the daemon stands on zeros, it
goes no further. A position is a place for one span here, so a stale one never
points into the middle of a message, as a byte position may. Two history
variables tell the cases apart: `cut` has the spans that were in a file,
unread, when it was truncated, and `misled` the producers that took over a file
in which the daemon had seen spans.

### LumbreSpanEncode

`Start...` sets a span as the hooks do, `Finish` truncates, resets the buffer
and lists the values to pack, `Pack` packs one of them or `Overflow` gives the
record up, `Write` hands the buffer over. Bytes are tags, digits and
characters. The widths are parameters (`Base` 256, `FixInt` 128, `FixStr` 32,
`FixMap` 15 in the code): the instances use small ones, so that every width
and every boundary between two is reached. `Place` is what a byte weighs in an
integer, so `U32` is `Place[4]` and a uint64_t lies below `Place[8]`. `Decodes`
reads a record by the format alone.

### LumbreWhitelist

Slots, the insertion of the static table one probe at a time, lookups one probe
at a time. FNV-1a is any function from keys to hashes.

## Runs

| Run | Instance | What it shows |
|---|---|---|
| `Ring` | ring of 16, payloads of 0, 3, 5, 9, 12 (the largest that fits) and 13 bytes, 4 writes, fair worker | messages are read whole and in order; no unread byte is overwritten; positions stay ordered; the inductive invariant; the ring implements `SpanChannel`; a write always returns, with or without a daemon; what is published reaches a daemon that runs, after a kill too |
| `TracerTree` | 1 request, depth 3, 4 spans, 2 ticks | parents, intervals and filtering follow the call stack |
| `TracerRequests` | 2 requests, 2 fibers, bailouts, negative threshold | one tree per request, one root, nothing from an earlier request |
| `ExportFibers` | 2 requests of 3 spans, 2 fibers, full mode, a threshold of one tick, ring and daemon | no span without a finished parent; the daemon gets whole trees when nothing is lost, every span is accounted for, and no record follows its root's; the inductive invariant behind these |
| `ModuleRings` | 1 NTS and 1 ZTS process with 2 threads, 2 pids, 2 files, 2 spans per ring, buffer size 65537, symmetric pids | one ring per worker, findable under its own name; header before spans; no stray file; the inductive invariant of the host |
| `ModuleDaemon` | 2 NTS processes, 2 pids, 2 files, 2 spans per ring, 15 buffer sizes, fair daemon | the daemon gets no span twice or out of order, wherever it stands when a file is truncated; spans are lost only to MSHUTDOWN outside the CLI and to a reused pid; but for these, there is always a time to come when nothing is waiting; capacities |
| `ModuleReuse` | violation | a span of a CLI process is never read, as the daemon has a position in the file from an earlier process of that pid |
| `ModuleFork` | violation | a forked child writes into its parent's ring |
| `TracerBailout` | violation | after a bailout, shutdown functions get a dead parent |
| `TracerFiberParent` | violation | a finish in one fiber restores a parent that was finished in another |
| `EncodeRecords` | base 4, 2 spans, strings of 1, 2, 15 and 16, numbers of every width, limits -1, 0, 1, 7, buffer of 104 | records read back; exactly the too large ones are lost |
| `WhitelistProbing` | 4 slots, all 4096 hash functions | lookups are exact and end |

The four violations are the findings in `PROJECT.json`. Met on the way, and not
worth a run each: the 4-byte padding marker is stored also when fewer than 4
bytes are left, so up to three bytes behind the ring of lumbre_ringbuf.h:7
(within the mapping's last page); a comment at php_lumbre.c:523 announces
`pgsql` for global functions like pg_query, which have no class and get
`unknown`; in a ZTS process the files of threads other than the main one are
never removed; `trace_namespaces` (php_lumbre.h:51) is never read, so full
mode traces every named function; file functions called on a URL stay FILE_IO,
although lumbre_whitelist.c:85-87 announces HTTP_OUT; the ring file is
`lumbre_<pid>_<worker>`, not `lumbre_{pid}` as the repository's README says;
the table lists `PDO::execute`, a method PDO does not have, and not
`PDOStatement::execute`, so a prepared statement makes no span, although
tests/009_trace_pdo.phpt:28 expects one.

Why the bounds are enough. Four writes into a ring of 16 fill it, drop, wrap
with padding, drop for the padding, and go around again; one may begin 1, 2, 3
or 4 bytes before the end, on either side of the room for a marker; 12 bytes
fill the ring to the last byte and 13 are refused. Four spans at depth 3 give
siblings and grandchildren; two ticks tell apart a duration below, at and above
the threshold. Two requests are what it takes to leave something behind. In the
encoding, strings of 1 and 2 lie on either side of the one-byte header, of 15
and 16 on either side of the 16-bit one; the buffer of 104 lies between the
smallest and the largest record, so that records overflow at different fields,
and holds two small records, so that bytes left by an earlier one would show. In
`ExportFibers` two spans below the root suffice for one fiber to hang its span
below the other's, and the second request for what the first leaves behind. In
`ModuleRings` two processes and two pids give reuse of a pid and processes side
by side, the ZTS one threads side by side; 65537 needs every shift of the
rounding; a ring holds a single span of the instance's `SpanSize`, so that a
second one waits for the daemon; with two files creation may find no room. Pids
are only compared there, so the symmetry is sound; the runs with liveness use
none. In `ModuleDaemon` rings of 65536 hold one span and larger ones two, so
that the daemon's position can lie at, before and behind the `write_pos` of a
ring that begins again; the other sizes lie around the smallest powers of two,
above the largest, below zero and above a uint32_t. The theorems below hold for
every bound.

Deadlock is not checked: the worker may stop at any bound, and an idle worker
with an idle daemon has nothing to do.

Fairness. A write in progress runs on unless the worker is killed
(`WorkerFairness`): it is straight-line code. The daemon polls, and a store is
eventually visible to the other core (`DaemonFairness`). Nothing obliges PHP to
call again. `Ring` assumes nothing of the daemon: delivery is stated
under `DaemonFairness`, the return of a call without it. In `ModuleDaemon`
and `ModuleReuse` the daemon looks into the directory and reads again and again
(`DaemonFairness`); no process has to do anything. In the whitelist a
lookup or an insertion that has begun runs on.

Each property has a mutant of the code that violates it; mutants are the
definitions marked so, next to the one they vary.

## What is proved

Assumed throughout are only the named assumptions on the constants, which TLC
evaluates on the instances. Besides the kinds of the constants they say: a ring
is at most half of 2^32 bytes, a payload with its prefix stays below that, and
no length word is the padding marker (`RingAssumption`); thresholds fit into a
uint64_t (`TracerAssumption`); the value that stands for none is neither a file
nor a span, and capacities have at most 32 bits, which is what the shifts of the
rounding cover (`ModuleAssumption`); the static table leaves a slot free and a
lowercase letter has no lowercase letter of its own (`WhitelistAssumption`); two
bytes count at least eleven values, the sum of a string and its header, a
uint32_t in lumbre_msgpack.c:120, does not wrap (in the code a string of nearly
4 GB would make it), numbers are uint64_t, and a trace id fits into the widths a
binary has (`EncodeAssumption`).

Ring, for every capacity, payload set and number of writes
(`LumbreRingBufProofs`):

- `Invariant`: `IInv` is inductive. Fifo alone is not: it needs that the
  messages of the log tile the positions up to `write_pos` (`Tiled`), that the
  daemon stands at the start of one (`DaemonInStep`), that every unread message
  is intact in the bytes (`UnreadIntact`), and what the call in progress has
  stored so far and how much room it has (`CallInStep`). The core of the proof
  is that the positions of a store lie less than a ring ahead of the visible
  `read_pos`, hence in other cells than any unread byte (`StoreMisses`);
- `TypeCorrect`, `FifoCorrect`, `PositionsCorrect`, `UnreadStable`,
  `SmallFits` follow;
- `RingImplementsChannel`: every step is one of `SpanChannel` or a stutter.

Tracer, for every set of functions, depth, clock and number of requests
(`LumbreTracerProofs`):

- `TypeCorrect`; `TreeInvariant` (open spans lie below the root of the active
  request with unused ids; an inactive context has no trace id) and from it
  `TreeCorrect`, `TraceCorrect`, `SilenceCorrect`, `RootCorrect`, with any
  number of fibers and any bailouts;
- under `OneStack` (one C stack, no bailout), `NestInvariant` (every open span
  hangs from the innermost one below it; no parent finishes before its
  children; the threshold alone decides what is filtered) and from it
  `ParentCorrect`, `NestCorrect`, `FilterCorrect`. The runs `TracerBailout` and
  `TracerFiberParent` show that the hypothesis is needed.

- with any number of fibers and without a bailout, `NoOrphansCorrect`: by
  `IdsKnown`, every id given out is the root's, an open span's or a finished
  one's. It does not follow from `TreeInv`, which forgets the spans that a
  bailout jumps over.

Composition, for every number of requests, fibers and losses
(`LumbreExportProofs`):

- `ExportInvariant`: every step of the composition is one of the tracer, so
  `TreeInv` holds, and on top of it `ExportInv` is inductive. It says that the
  records are those of the written spans in the order of requests with a
  request's root last (`RecordsAreWritten`, `RecordsInOrder`), that spans
  finished without a record were counted (`LossesCounted`), and that the trees
  of earlier requests are whole unless one was (`EarlierTreesWhole`);
- `RootClosesTraceCorrect`, `WholeTreesCorrect`, `AccountedCorrect` follow;
- `ExportUsesChannel`: the composition implements `SpanChannel`, as the ring
  does, which justifies putting one for the other.

Ring files, for every number of processes, threads, pids and files
(`LumbreModuleProofs`):

- `HostInvariant`: `HostInv` is inductive. That no two workers share a ring
  needs that pids of running processes differ (`PidsDiffer`) and that a worker
  id is below the counter of its process, so never given again (`NamesDiffer`);
  that nothing is lost or out of order needs which spans are in which file and
  where the daemon stands in it (`SpansInStep`, `NamedAfterWriter`), also after
  their process is gone, how far each creation has come (`RingInStep`), and that
  the daemon has no position in a ring that has just begun unless its worker is
  `misled` (`ReaderInStep`). A stale position is not excluded: what a misled
  worker publishes arrives in order and once, but perhaps not from its first
  span on;
- `HostTypes`, `OneRingPerWorkerAlways`, `RingIsFindableAlways`,
  `HeaderFirstAlways`, `LostOnlyByExitOrReuseAlways`, `InOrderAlways`,
  `NoStrayFilesAlways` follow. They speak of `Spec`, which has no fork; the run
  `ModuleFork` shows why.

Capacities, for every buffer size and width up to 32 bits
(`LumbreCapacityProofs`):

- `RoundsUp`: `lumbre_next_power_of_2` returns the least power of two not below
  its argument, or 0 when the width does not hold it. The backends know nothing
  of `2^k`; that it doubles comes from counting the subsets of a set
  (`PowerOf2`). Below the highest bit of v - 1 every shift doubles the number of
  bits that are set (`SmearedFills`), so after five of them all are, and one
  more is the power (`RoundsPower`);
- `CapacityIsRoundedAlways`: the capacity of every ring is the least power of
  two not below the buffer size as the cast leaves it; where that is 0, nothing
  is ever written (`NoRoom`, inductive on top of `HostInv`: all positions are 0
  in every file and with the daemon, so a span finds no room and none moves).

Encoding, for every base, boundary between two widths, buffer size and set of
strings (`LumbreSpanEncodeProofs`):

- `EncodeInvariant`: `EncodeInv` is inductive. The buffer is as long as the
  values packed so far (`BufferHolds`). It rests on `PackedIs`, that a value
  that passes the space check has the length the check counted, from the
  assumption that its sum does not wrap; on `ValuesOfSpan`, that whatever the
  hooks fill in is packed as values of that kind; and on `SizesAre`, that sizes
  only grow along a record, shown with a least counterexample where an induction
  would be used;
- `EncodeTypes`, that the position stays in the buffer, and
  `LostOnlyIfTooLargeAlways` follow: the value that does not fit shows that the
  record would not. TLC finds `EncodeInv` true on the instance of
  `EncodeRecords` as well.

Reading back, for the same parameters (`LumbreReadBackProofs`):

- `ReadInvariant`: `ReadInv` is inductive. Beyond `EncodeInv`, which knows how
  long the buffer is, the packed values stand in it one behind the other, each
  whole (`BytesShown`), and a span of a statement holds it as a record may show
  it, so that the second cut in `lumbre_span_finish` takes nothing away
  (`StatementIsShown`). TLC finds `ReadInv` true on the instance of
  `EncodeRecords`, with two lengths of strings;
- `RecordsReadBackAlways` follows. A reader finds of each header what it was
  made from (`HeaderShown`): the digits of a number add up to it (`NumberIs`,
  from `NextDigit` on division), as long as it is below the weight of the width
  the packer chose. It therefore comes to the start of each value (`StartsAre`),
  and the list of values has as many pairs as the table counts, one for each key
  of the type and none twice (`AreFields`, built pair by pair with
  `JoinFields`). The two recursions of the reader are shown to give what they
  should by a least counterexample.

Whitelist, for every table with a free slot and every hash function
(`LumbreWhitelistProofs`):

- `TableInvariant`: `TableInv` is inductive. Exact lookups need the classical
  invariant of linear probing, in terms of the distance from the home of a key:
  the slots a probe passes on its way to the first line of a name are taken by
  other names (`TableHolds`), during insertion as after it, and a probe in
  progress has passed taken slots only (`ProbeHolds`);
- `WhitelistTypes`, `MatchIsExactAlways` follow. TLC finds `TableInv` true on
  the instance of `WhitelistProbing` as well;
- `ASlotStaysFree`: the slots taken are as many as the lines inserted
  (`SlotsCounted`, with the cardinality theorems of the library), fewer than the
  table has by `WhitelistAssumption`; so the free slot that both probing loops
  rely on, which have no other bound, is there while the table is built as after
  it;
- `ProbesComeCloser`: each probe of init or match comes to a slot it has not
  seen (`Ahead` falls by one and stays a natural number): a probe at the last
  slot that found it taken would make all slots taken. This is the variant
  behind `ProbesEnd`; that the steps are taken at all is left to fairness. TLC
  finds both true on the instance of `WhitelistProbing`.

Only model-checked are `PublishedIsDelivered`, `CallsReturn`, `Drained` and
`ProbesEnd`: liveness under fairness is out of the prover's reach. The findings
are counterexamples, which a proof cannot show.

## Not modelled

- The daemon beyond its reader and the directory it looks into: it is another
  repository. When a file it has mapped is truncated under it
  (lumbre_ringbuf.c:91) it keeps its positions; but an access before ftruncate
  has given the file its size would be a fault, and is left out, and so is what
  a stale byte position finds in the middle of a message.
- Saving and restoring the engine's handlers in MINIT and MSHUTDOWN.
- The derivation of the database type from the class name: any string is allowed
  in its place.
- INI parsing, the name of the trigger header, `MINFO`: conversions and output
  whose results are inputs of the tracer.
- Strings of 4 GB, for which the uint32_t sum `5 + len` of a str32 wraps.
- The lifetime of PHP values a span points to: the engine's.
- `lumbre_ringbuf_reset`, `lumbre_span_set_http_out`, `LUMBRE_SPAN_CACHE`: used
  by tests only, or by nothing.

## Plan

The order was: the ring (the only concurrent part) and its abstraction; the
tracer; encoding; whitelist; the ring files and the composition; each with its
runs before its proofs. Every safety property that a run checks is now proved
for every value of the constants. Open:

1. That a ring file of `LumbreModule` between its creation and its removal is
   the channel `LumbreExport` assumes.
2. The parsing of the X-Trace-Id and trigger headers.
