-------------------------- MODULE LumbreSpanEncode --------------------------
(***************************************************************************)
(* From a PHP call to the bytes of its record: the payload the hooks put   *)
(* into a span, the truncation of lumbre_span_finish, lumbre_span_encode,  *)
(* and the packer of lumbre_msgpack.c with its one buffer per worker.      *)
(*                                                                         *)
(* Packing is cut at every value, because it may fail at every value and   *)
(* leaves what it packed so far in the buffer.  Which width an integer or  *)
(* a length takes is kept; the sizes of the widths are parameters, so that *)
(* all of them are reached with small numbers and short strings.           *)
(***************************************************************************)
EXTENDS Integers, Sequences

CONSTANTS
  Base,          (* values of a byte, 256 in the code                            *)
  FixInt,        (* 128: integers below it are their own byte                    *)
  FixStr,        (* 32: strings shorter than it have a one-byte header           *)
  FixMap,        (* 15: the longest map with a one-byte header                   *)
  Capacity,      (* mp_buf.capacity, LUMBRE_MSGPACK_BUF_SIZE                     *)
  Stamps,        (* what context and clock put into a span: [trace_id, span_id,  *)
                 (* parent_id, start_ns]                                         *)
  Text,          (* the strings PHP may pass: sequences of characters            *)
  Number,        (* the durations and line numbers a span may hold               *)
  MaxQueryLens,  (* values of lumbre.max_query_len (PHP_INI_SYSTEM, any integer) *)
  MaxSpans       (* bound: how many spans the worker finishes                    *)

IsSequence(q) == Len(q) \in Nat /\ q = [k \in 1..Len(q) |-> q[k]]

(* The weight of a byte in an integer: the number of values of k bytes. *)
Place[k \in 0..8] == IF k = 0 THEN 1 ELSE Base * Place[k - 1]

(* The numbers of uint32_t values, and the uint64_t values. *)
U32    == Place[4]
Uint64 == 0..(Place[8] - 1)

(* Ten fields, the most a type has, can be counted in two bytes.  The sum 5 +  *)
(* len of a str32 is a uint32_t: PHP strings of 4 GB are left out.  A trace id *)
(* of 16 bytes fits into the widths a binary has.                              *)
ASSUME EncodeAssumption ==
  /\ Base \in Nat /\ 10 < Place[2]
  /\ FixInt \in 1..Base /\ FixStr \in Nat /\ FixMap \in Nat
  /\ Capacity \in Nat /\ MaxSpans \in Nat
  /\ \A t \in Text \cup {s.trace_id : s \in Stamps} : IsSequence(t)
  /\ \A s \in Stamps : /\ {s.span_id, s.parent_id, s.start_ns} \subseteq Uint64
                      /\ Len(s.trace_id) < Place[2]
  /\ Number \subseteq Uint64 /\ MaxQueryLens \subseteq Int
  /\ \A n \in MaxQueryLens : -U32 <= n /\ n < U32
  /\ \A t \in Text \cup {s.trace_id : s \in Stamps} : 5 + Len(t) < U32

VARIABLES
  max_query_len,  (* module global, as the uint32_t it is cast to               *)
  span,           (* the lumbre_span_t on the hook's stack                      *)
  buf,            (* mp_buf: the bytes before pos                               *)
  todo,           (* the values lumbre_span_encode has yet to pack              *)
  phase,          (* "idle", "call" (the original runs), "encode", "failed" or  *)
                  (* "written"                                                  *)
  sql,            (* history: the whole statement of the call                   *)
  spans           (* history: how many spans were started                       *)

vars == <<max_query_len, span, buf, todo, phase, sql, spans>>

Types == {"HTTP_IN", "HTTP_OUT", "DB", "REDIS", "MEMCACHED", "FILE_IO", "SOCKET", "FUNC"}

(* The uint8_t codes of the types. *)
TypeCode == [HTTP_IN |-> 1, HTTP_OUT |-> 2, DB |-> 3, REDIS |-> 4, MEMCACHED |-> 5,
             FILE_IO |-> 6, SOCKET |-> 7, FUNC |-> 8]

(* memset of lumbre_span_start; a NULL string of length 0 is the empty one. *)
ZeroSpan == [type |-> "HTTP_IN", trace_id |-> << >>,
             span_id |-> 0, parent_id |-> 0, start_ns |-> 0, duration_ns |-> 0,
             url |-> << >>, method |-> << >>, status_code |-> 0,
             query |-> << >>, db_type |-> << >>, rows_affected |-> 0,
             cache_cmd |-> << >>, cache_key |-> << >>,
             func_class |-> << >>, func_name |-> << >>, func_file |-> << >>, func_line |-> 0,
             request_uri |-> << >>]

U32Add(a, b) == IF a + b < U32 THEN a + b ELSE a + b - U32
AsUint32(n)  == IF n < 0 THEN n + U32 ELSE n

Init ==
  /\ max_query_len \in {AsUint32(n) : n \in MaxQueryLens}
  /\ span = ZeroSpan /\ buf = << >> /\ todo = << >>
  /\ phase = "idle" /\ sql = << >> /\ spans = 0

-----------------------------------------------------------------------------
(***************************************************************************)
(* lumbre_msgpack.c.  A value to pack is a map header (n pairs), an        *)
(* unsigned integer n, or a string or binary of the bytes s.  A byte is    *)
(* a tag with what it carries, a digit to the base, or a character.        *)
(***************************************************************************)

MapOf(n) == [kind |-> "map",  n |-> n, s |-> << >>]
Uint(n)  == [kind |-> "uint", n |-> n, s |-> << >>]
Str(s)   == [kind |-> "str",  n |-> 0, s |-> s]
Bin(s)   == [kind |-> "bin",  n |-> 0, s |-> s]

Digit(d) == <<"digit", d>>

(* n in w bytes, most significant first; what does not fit is cut off. *)
BigEndian(n, w) == [k \in 1..w |-> Digit((n \div Place[w - k]) % Base)]

(* The width a uint64_t takes: none (fixint), 1, 2, 4 or 8 bytes. *)
Width(n) ==
  CASE n < FixInt  -> 0
    [] n >= FixInt /\ n < Base    -> 1
    [] n >= Base   /\ n < Place[2]  -> 2
    [] n >= Place[2] /\ n < Place[4]  -> 4
    [] OTHER -> 8

StrHeader(n) ==
  IF n < FixStr THEN << <<"fixstr", n>> >>
  ELSE IF n < Place[2] THEN << <<"str16", 0>> >> \o BigEndian(n, 2)
  ELSE << <<"str32", 0>> >> \o BigEndian(n, 4)

(* A binary above 16 bits of length is refused. *)
BinHeader(n) ==
  IF n < Base THEN << <<"bin8", 0>>, Digit(n) >>
  ELSE << <<"bin16", 0>> >> \o BigEndian(n, 2)

MapHeader(n) ==
  IF n <= FixMap THEN << <<"fixmap", n>> >>
  ELSE << <<"map16", 0>> >> \o BigEndian(n, 2)

UintBytes(n) ==
  IF Width(n) = 0 THEN << <<"fixint", n>> >>
  ELSE << <<"uint", Width(n)>> >> \o BigEndian(n, Width(n))

Header(v) ==
  CASE v.kind = "map"  -> MapHeader(v.n)
    [] v.kind = "uint" -> UintBytes(v.n)
    [] v.kind = "str"  -> StrHeader(Len(v.s))
    [] v.kind = "bin"  -> BinHeader(Len(v.s))

Packed(v) == Header(v) \o v.s

(* Mutants of the space check: the string itself is not counted; the buffer  *)
(* may never be full.                                                        *)
Fits_HeaderOnly(v) == Len(buf) + Len(Header(v)) <= Capacity
Fits_NotLast(v)    == Len(buf) + U32Add(Len(Header(v)), Len(v.s)) < Capacity

(* LUMBRE_MSGPACK_CHECK_SPACE: header and body are checked together. *)
Fits(v) ==
  /\ Len(buf) + U32Add(Len(Header(v)), Len(v.s)) <= Capacity
  /\ v.kind = "bin" => Len(v.s) < Place[2]

-----------------------------------------------------------------------------
(***************************************************************************)
(* lumbre_span_encode.                                                     *)
(***************************************************************************)

(* The map keys, a contract with the daemon. *)
MKEY_TYPE       == <<"t">>
MKEY_TRACE_ID   == <<"t", "i", "d">>
MKEY_SPAN_ID    == <<"s", "i", "d">>
MKEY_PARENT_ID  == <<"p", "i", "d">>
MKEY_START_NS   == <<"s">>
MKEY_DURATION   == <<"d">>
MKEY_URL        == <<"u", "r", "l">>
MKEY_METHOD     == <<"m", "t", "h">>
MKEY_STATUS     == <<"s", "t">>
MKEY_QUERY      == <<"q">>
MKEY_DB_TYPE    == <<"d", "b", "t">>
MKEY_ROWS       == <<"r">>
MKEY_CACHE_CMD  == <<"c", "m", "d">>
MKEY_CACHE_KEY  == <<"k">>
MKEY_FUNC_CLASS == <<"c", "l", "s">>
MKEY_FUNC_NAME  == <<"f", "n">>
MKEY_FUNC_FILE  == <<"f">>
MKEY_FUNC_LINE  == <<"l">>
MKEY_URI        == <<"u", "r", "i">>

(* The bytes of a string of characters. *)
Chars(s) == [k \in 1..Len(s) |-> <<"char", s[k]>>]

StrKv(key, s)  == <<Str(Chars(key)), Str(Chars(s))>>
UintKv(key, n) == <<Str(Chars(key)), Uint(n)>>
BinKv(key, s)  == <<Str(Chars(key)), Bin(Chars(s))>>

(* Mutant: a line number was added to the fields, and not to the table. *)
FieldCount_NoLine(type) ==
  CASE type = "HTTP_IN" -> 8   [] type = "HTTP_OUT" -> 9
    [] type = "DB" -> 9        [] type \in {"REDIS", "MEMCACHED"} -> 8
    [] type \in {"FILE_IO", "SOCKET"} -> 7
    [] type = "FUNC" -> 9

(* lumbre_span_field_count: written before the fields, from a table of its own. *)
FieldCount(type) ==
  CASE type = "HTTP_IN" -> 8   [] type = "HTTP_OUT" -> 9
    [] type = "DB" -> 9        [] type \in {"REDIS", "MEMCACHED"} -> 8
    [] type \in {"FILE_IO", "SOCKET"} -> 7
    [] type = "FUNC" -> 10

CommonFields(s) ==
  UintKv(MKEY_TYPE, TypeCode[s.type]) \o BinKv(MKEY_TRACE_ID, s.trace_id)
  \o UintKv(MKEY_SPAN_ID, s.span_id)  \o UintKv(MKEY_PARENT_ID, s.parent_id)
  \o UintKv(MKEY_START_NS, s.start_ns) \o UintKv(MKEY_DURATION, s.duration_ns)

TypeFields(s) ==
  CASE s.type = "HTTP_IN"  -> StrKv(MKEY_URI, s.request_uri) \o StrKv(MKEY_METHOD, s.method)
    [] s.type = "HTTP_OUT" -> StrKv(MKEY_URL, s.url) \o StrKv(MKEY_METHOD, s.method)
                              \o UintKv(MKEY_STATUS, s.status_code)
    [] s.type = "DB"       -> StrKv(MKEY_QUERY, s.query) \o StrKv(MKEY_DB_TYPE, s.db_type)
                              \o UintKv(MKEY_ROWS, s.rows_affected)
    [] s.type \in {"REDIS", "MEMCACHED"} ->
         StrKv(MKEY_CACHE_CMD, s.cache_cmd) \o StrKv(MKEY_CACHE_KEY, s.cache_key)
    [] s.type \in {"FILE_IO", "SOCKET"} -> StrKv(MKEY_URL, s.url)
    [] s.type = "FUNC"     -> StrKv(MKEY_FUNC_CLASS, s.func_class)
                              \o StrKv(MKEY_FUNC_NAME, s.func_name)
                              \o StrKv(MKEY_FUNC_FILE, s.func_file)
                              \o UintKv(MKEY_FUNC_LINE, s.func_line)

Values(s) == <<MapOf(FieldCount(s.type))>> \o CommonFields(s) \o TypeFields(s)

-----------------------------------------------------------------------------
(***************************************************************************)
(* The hooks: lumbre_span_start, then the payload for the span's type.     *)
(***************************************************************************)

Prefix(s, n) == SubSeq(s, 1, n)

Start(s, statement) ==
  /\ phase \in {"idle", "written", "failed"} /\ spans < MaxSpans
  /\ \E stamp \in Stamps :
       span' = [s EXCEPT !.trace_id = stamp.trace_id, !.span_id = stamp.span_id,
                         !.parent_id = stamp.parent_id, !.start_ns = stamp.start_ns]
  /\ phase' = "call" /\ sql' = statement /\ spans' = spans + 1
  /\ UNCHANGED <<max_query_len, buf, todo>>

StartHttpIn(uri, method) ==
  Start([ZeroSpan EXCEPT !.type = "HTTP_IN", !.request_uri = uri, !.method = method], << >>)

(* lumbre_span_set_db: the statement is cut at max_query_len, also when 0. *)
SetDb(s, q, db) ==
  [s EXCEPT !.query = IF Len(q) > max_query_len THEN Prefix(q, max_query_len) ELSE q,
            !.db_type = db, !.rows_affected = 0]

StartDb(q, db) == Start(SetDb([ZeroSpan EXCEPT !.type = "DB"], q, db), q)

(* curl, sockets, and a DB or file function whose first argument is missing *)
(* or not a string: no payload.                                             *)
StartBare(type) == Start([ZeroSpan EXCEPT !.type = type], << >>)

StartCache(type, cmd, key) ==
  Start([ZeroSpan EXCEPT !.type = type, !.cache_cmd = cmd, !.cache_key = key], << >>)

StartFile(path) == Start([ZeroSpan EXCEPT !.type = "FILE_IO", !.url = path], << >>)

StartFunc(class, name, file, line) ==
  Start([ZeroSpan EXCEPT !.type = "FUNC", !.func_class = class, !.func_name = name,
                         !.func_file = file, !.func_line = line], << >>)

-----------------------------------------------------------------------------
(***************************************************************************)
(* lumbre_span_finish, once the span is not filtered.                      *)
(***************************************************************************)

Truncated(s) ==
  IF s.type = "DB" /\ max_query_len > 0 /\ Len(s.query) > max_query_len
  THEN [s EXCEPT !.query = Prefix(@, max_query_len)] ELSE s

Finish(duration) ==
  /\ phase = "call"
  /\ span' = Truncated([span EXCEPT !.duration_ns = duration])
  /\ buf' = << >>
  /\ todo' = Values(span')
  /\ phase' = "encode"
  /\ UNCHANGED <<max_query_len, sql, spans>>

Pack ==
  /\ phase = "encode" /\ todo # << >>
  /\ Fits(Head(todo))
  /\ buf' = buf \o Packed(Head(todo))
  /\ todo' = Tail(todo)
  /\ UNCHANGED <<max_query_len, span, phase, sql, spans>>

(* The record is lost; what was packed of it stays in the buffer. *)
Overflow ==
  /\ phase = "encode" /\ todo # << >>
  /\ ~Fits(Head(todo))
  /\ phase' = "failed" /\ todo' = << >>
  /\ UNCHANGED <<max_query_len, span, buf, sql, spans>>

(* The buffer is handed to lumbre_ringbuf_write. *)
Write ==
  /\ phase = "encode" /\ todo = << >>
  /\ phase' = "written"
  /\ UNCHANGED <<max_query_len, span, buf, todo, sql, spans>>

Next ==
  \/ \E s, t \in Text :
       \/ StartHttpIn(s, t) \/ StartDb(s, t)
       \/ \E type \in {"REDIS", "MEMCACHED"} : StartCache(type, s, t)
       \/ \E u \in Text, line \in Number : StartFunc(s, t, u, line)
  \/ \E s \in Text : StartFile(s)
  \/ \E type \in {"HTTP_OUT", "SOCKET", "DB", "FILE_IO"} : StartBare(type)
  \/ \E duration \in Number : Finish(duration)
  \/ Pack \/ Overflow \/ Write

Spec == Init /\ [][Next]_vars

-----------------------------------------------------------------------------
(***************************************************************************)
(* A reader of records, by the msgpack format alone.                       *)
(***************************************************************************)

ByteAt(b, i)  == IF i \in DOMAIN b THEN b[i] ELSE <<"end", 0>>
DigitAt(b, i) == IF ByteAt(b, i)[1] = "digit" THEN b[i][2] ELSE 0

(* The number in the w bytes from i on. *)
NumberAt(b, i, w) ==
  LET sum[k \in 0..w] == IF k = 0 THEN 0 ELSE sum[k - 1] * Base + DigitAt(b, i + k - 1)
  IN sum[w]

(* The header at i: its length, the kind, number and body length it announces. *)
HeadAt(b, i) ==
  LET tag == ByteAt(b, i)[1]
      arg == ByteAt(b, i)[2]
      H(size, kind, n, body) == [size |-> size, kind |-> kind, n |-> n, body |-> body]
  IN CASE tag = "fixmap" -> H(1, "map", arg, 0)
       [] tag = "map16"  -> H(3, "map", NumberAt(b, i + 1, 2), 0)
       [] tag = "fixint" -> H(1, "uint", arg, 0)
       [] tag = "uint"   -> H(1 + arg, "uint", NumberAt(b, i + 1, arg), 0)
       [] tag = "fixstr" -> H(1, "str", 0, arg)
       [] tag = "str16"  -> H(3, "str", 0, NumberAt(b, i + 1, 2))
       [] tag = "str32"  -> H(5, "str", 0, NumberAt(b, i + 1, 4))
       [] tag = "bin8"   -> H(2, "bin", 0, NumberAt(b, i + 1, 1))
       [] tag = "bin16"  -> H(3, "bin", 0, NumberAt(b, i + 1, 2))
       [] OTHER          -> H(1, "bad", 0, 0)

ValueAt(b, i) ==
  LET h == HeadAt(b, i)
  IN [kind |-> h.kind, n |-> h.n,
      s |-> [k \in 1..h.body |-> ByteAt(b, i + h.size + k - 1)]]

(* Where value k of the record starts; value 0 is its map header. *)
StartOf(b, n) ==
  LET start[k \in 0..n] ==
        IF k = 0 THEN 1
        ELSE LET before == start[k - 1]
                 h      == HeadAt(b, before)
             IN before + h.size + h.body
  IN start

(* The record holds one map of these pairs, every key once, and ends with it. *)
Decodes(b, pairs) ==
  LET n     == HeadAt(b, 1).n
      start == StartOf(b, 2 * n + 1)
      Pair(k) == <<ValueAt(b, start[2 * k - 1]), ValueAt(b, start[2 * k])>>
  IN /\ HeadAt(b, 1).kind = "map"
     /\ start[2 * n + 1] = Len(b) + 1
     /\ \A k \in 1..n : Pair(k) \in pairs
     /\ \A p \in pairs : \E k \in 1..n : Pair(k) = p
     /\ \A j, k \in 1..n : Pair(j)[1] = Pair(k)[1] => j = k

-----------------------------------------------------------------------------
(***************************************************************************)
(* Properties.                                                             *)
(***************************************************************************)

(* The statement a record may show: its first max_query_len bytes. *)
ShownSql == IF Len(sql) <= max_query_len THEN sql ELSE Prefix(sql, max_query_len)

KeysOf ==
  [HTTP_IN   |-> {MKEY_URI, MKEY_METHOD},
   HTTP_OUT  |-> {MKEY_URL, MKEY_METHOD, MKEY_STATUS},
   DB        |-> {MKEY_QUERY, MKEY_DB_TYPE, MKEY_ROWS},
   REDIS     |-> {MKEY_CACHE_CMD, MKEY_CACHE_KEY},
   MEMCACHED |-> {MKEY_CACHE_CMD, MKEY_CACHE_KEY},
   FILE_IO   |-> {MKEY_URL},
   SOCKET    |-> {MKEY_URL},
   FUNC      |-> {MKEY_FUNC_CLASS, MKEY_FUNC_NAME, MKEY_FUNC_FILE, MKEY_FUNC_LINE}]

Common == {MKEY_TYPE, MKEY_TRACE_ID, MKEY_SPAN_ID, MKEY_PARENT_ID, MKEY_START_NS, MKEY_DURATION}

(* What the daemon should find under each key. *)
ValueOf(s, key) ==
  CASE key = MKEY_TYPE       -> Uint(TypeCode[s.type])
    [] key = MKEY_TRACE_ID   -> Bin(Chars(s.trace_id))
    [] key = MKEY_SPAN_ID    -> Uint(s.span_id)
    [] key = MKEY_PARENT_ID  -> Uint(s.parent_id)
    [] key = MKEY_START_NS   -> Uint(s.start_ns)
    [] key = MKEY_DURATION   -> Uint(s.duration_ns)
    [] key = MKEY_URL        -> Str(Chars(s.url))
    [] key = MKEY_METHOD     -> Str(Chars(s.method))
    [] key = MKEY_STATUS     -> Uint(s.status_code)
    [] key = MKEY_QUERY      -> Str(Chars(ShownSql))
    [] key = MKEY_DB_TYPE    -> Str(Chars(s.db_type))
    [] key = MKEY_ROWS       -> Uint(s.rows_affected)
    [] key = MKEY_CACHE_CMD  -> Str(Chars(s.cache_cmd))
    [] key = MKEY_CACHE_KEY  -> Str(Chars(s.cache_key))
    [] key = MKEY_FUNC_CLASS -> Str(Chars(s.func_class))
    [] key = MKEY_FUNC_NAME  -> Str(Chars(s.func_name))
    [] key = MKEY_FUNC_FILE  -> Str(Chars(s.func_file))
    [] key = MKEY_FUNC_LINE  -> Uint(s.func_line)
    [] key = MKEY_URI        -> Str(Chars(s.request_uri))

Contract(s) == {<<Str(Chars(key)), ValueOf(s, key)>> : key \in Common \cup KeysOf[s.type]}

(* The variables have their types, and packing never runs past the buffer *)
(* (lumbre_msgpack.c:20).                                                 *)
TypeOK ==
  /\ max_query_len \in 0..(U32 - 1)
  /\ span.type \in Types /\ phase \in {"idle", "call", "encode", "failed", "written"}
  /\ spans \in 0..MaxSpans
  /\ Len(buf) <= Capacity

(* A record that goes to the ring reads back, by the msgpack format alone, as *)
(* one map with exactly the keys of its span's type and this span's values:   *)
(* the field count packed first matches the fields packed after it, every     *)
(* length and integer is in a width that holds it, the SQL statement is its   *)
(* first max_query_len bytes, and nothing is left of a record that overflowed *)
(* before (lumbre_span.c:23-36, 109 and 230).                                 *)
RecordsReadBack == phase = "written" => Decodes(buf, Contract(span))

(* How many bytes the first values take, and the record of a span in all. *)
Sizes(vs) ==
  LET size[k \in 0..Len(vs)] == IF k = 0 THEN 0 ELSE size[k - 1] + Len(Packed(vs[k]))
  IN size

RecordSize(s) == Sizes(Values(s))[Len(Values(s))]

(* A record is lost exactly when the whole of it is larger than the buffer:  *)
(* the checks on the way are neither too strict nor too lax, and an overflow *)
(* costs none of the spans after it (lumbre_msgpack.c:20, lumbre_span.c:231). *)
LostOnlyIfTooLarge ==
  /\ phase = "failed"  => RecordSize(span) > Capacity
  /\ phase = "written" => RecordSize(span) <= Capacity

-----------------------------------------------------------------------------
(***************************************************************************)
(* The inductive invariant behind TypeOK and LostOnlyIfTooLarge.           *)
(***************************************************************************)

(* The strings a span may hold, the spans with one of these trace ids, and *)
(* those that were started.                                                *)
Strings == {<< >>} \cup UNION {{Prefix(t, n) : n \in 0..Len(t)} : t \in Text}
Ids     == {s.trace_id : s \in Stamps}

SpansWith(ids) ==
  [type : Types, trace_id : ids,
   span_id : Uint64, parent_id : Uint64, start_ns : Uint64, duration_ns : Uint64,
   url : Strings, method : Strings, status_code : Uint64,
   query : Strings, db_type : Strings, rows_affected : Uint64,
   cache_cmd : Strings, cache_key : Strings,
   func_class : Strings, func_name : Strings, func_file : Strings, func_line : Uint64,
   request_uri : Strings]

Spans == SpansWith(Ids)

(* The buffer holds the values that are not to be packed any more. *)
BufferHolds ==
  LET vs == Values(span)
      k  == Len(vs) - Len(todo)
  IN /\ Len(todo) <= Len(vs) /\ todo = SubSeq(vs, k + 1, Len(vs))
     /\ Len(buf) = Sizes(vs)[k]

(* The span is one the hooks can make, and while it is packed the buffer     *)
(* holds what the values packed so far take: nothing of an earlier record,   *)
(* and no value cut off (lumbre_span.c:109 and 230, lumbre_msgpack.c:20).    *)
EncodeInv ==
  /\ TypeOK /\ IsSequence(buf)
  /\ phase # "idle" => span \in Spans
  /\ phase = "encode" => BufferHolds
  /\ LostOnlyIfTooLarge
=============================================================================
