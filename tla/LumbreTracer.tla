---------------------------- MODULE LumbreTracer ----------------------------
(***************************************************************************)
(* The span life cycle of one PHP worker: RINIT and RSHUTDOWN, the hooks   *)
(* lumbre_execute_internal and lumbre_execute_ex of php_lumbre.c, and the  *)
(* context and spans of lumbre_span.c.                                     *)
(*                                                                         *)
(* A hook is a C frame: it starts a span, runs the PHP call inside it, and *)
(* finishes the span.  The Zend engine (external) decides what happens     *)
(* inside: nested calls, ini_set, a bailout that longjmps over the hook    *)
(* frames, a switch to another fiber with a C stack of its own.            *)
(***************************************************************************)
EXTENDS Integers, Sequences, FiniteSets

CONSTANTS
  IoCall,        (* internal functions the whitelist matches                     *)
  FuncCall,      (* named userland functions                                     *)
  FullMode,      (* lumbre.mode = "full" (PHP_INI_SYSTEM)                        *)
  Enabled,       (* lumbre.enabled of php.ini                                    *)
  MinDuration,   (* lumbre.min_duration_ns of php.ini                            *)
  MinDurations,  (* the values a script may give it (PHP_INI_ALL)                *)
  U64,           (* number of uint64_t values                                    *)
  TraceId,       (* valid X-Trace-Id headers                                     *)
  Fiber, Main,   (* C stacks of the engine, and the one a request begins on      *)
  Bailouts,      (* the engine may bail out (fatal error; exit() in PHP 7.4)     *)
  MaxDepth,      (* bound: frames on a stack                                     *)
  MaxSpans,      (* bound: spans of a request                                    *)
  MaxClock,      (* bound: ticks of the monotonic clock                          *)
  MaxRequests    (* bound: requests of the worker                                *)

ASSUME TracerAssumption ==
  /\ FullMode \in BOOLEAN /\ Enabled \in BOOLEAN /\ Bailouts \in BOOLEAN
  /\ U64 \in Nat /\ MinDuration \in Int /\ MinDurations \subseteq Int
  /\ Main \in Fiber
  /\ \A n \in {MinDuration} \cup MinDurations : -U64 <= n /\ n < U64
  /\ MaxDepth \in Nat /\ MaxSpans \in Nat /\ MaxClock \in Nat /\ MaxRequests \in Nat

VARIABLES
  enabled,              (* module global; cleared when the ring cannot be created *)
  min_duration_ns,      (* module global                                          *)
  modified,             (* engine: INI entries the script has set in this request *)
  ringbuf_initialized,  (* module global                                          *)
  ctx,                  (* module global: lumbre_context_t                        *)
  root_span,            (* module global: lumbre_span_t of the request            *)
  stack,                (* the hook frames of each fiber, innermost last          *)
  running,              (* engine: the fiber that runs                            *)
  phase,                (* engine: "idle", "script" or "shutdown" (functions)     *)
  clock,                (* CLOCK_MONOTONIC                                        *)
  finished,             (* history: what became of the spans of this request      *)
  request               (* history: its number, its X-Trace-Id, did RINIT trace it *)

globals == <<enabled, min_duration_ns, ringbuf_initialized, ctx, root_span>>
engine  == <<modified, stack, running, phase, clock>>
vars    == <<globals, engine, finished, request>>

ZeroId    == <<"zero", 0>>
Random(n) == <<"random", n>>       (* what php_random_bytes yields in request n *)
Given(t)  == <<"header", t>>
NoHeader  == "none"                (* X-Trace-Id missing or malformed           *)
Id == {ZeroId} \cup {Random(n) : n \in 1..MaxRequests} \cup {Given(t) : t \in TraceId}

Span == [type : {"HTTP_IN", "IO", "FUNC"}, name : IoCall \cup FuncCall \cup {"request"},
         trace_id : Id, span_id : Nat, parent_id : Nat, start_ns : Nat]

(* lumbre_context_t after GINIT has zeroed the module globals. *)
ZeroContext == [trace_id |-> ZeroId, root_span_id |-> 0, current_parent_id |-> 0,
                span_counter |-> 0, active |-> FALSE, full_trace |-> FALSE]
ZeroSpan == [type |-> "HTTP_IN", name |-> "request", trace_id |-> ZeroId,
             span_id |-> 0, parent_id |-> 0, start_ns |-> 0]

(* The frame of a hook that only calls the original handler. *)
NoSpan == ZeroSpan

Init ==
  /\ enabled = Enabled /\ min_duration_ns = MinDuration /\ modified = {}
  /\ ringbuf_initialized = FALSE
  /\ ctx = ZeroContext /\ root_span = ZeroSpan
  /\ stack = [f \in Fiber |-> << >>] /\ running = Main
  /\ phase = "idle" /\ clock = 0
  /\ finished = {} /\ request = [n |-> 0, header |-> NoHeader, traced |-> FALSE]

-----------------------------------------------------------------------------
(***************************************************************************)
(* lumbre_span.c.  Each operator takes a context and returns what the      *)
(* function leaves in it.                                                  *)
(***************************************************************************)

(* Mutant: -1 for "no parent". *)
ContextInit_MinusOne(c, header, random) ==
  [trace_id |-> IF header # NoHeader THEN Given(header)
                ELSE IF random THEN Random(request.n + 1) ELSE c.trace_id,
   root_span_id |-> 0, current_parent_id |-> -1, span_counter |-> 1,
   active |-> TRUE, full_trace |-> FALSE]

(* A propagated trace id wins; a failing random_func leaves the old bytes. *)
ContextInit(c, header, random) ==
  [trace_id          |-> IF header # NoHeader THEN Given(header)
                         ELSE IF random THEN Random(request.n + 1) ELSE c.trace_id,
   root_span_id      |-> 0,
   current_parent_id |-> 0,
   span_counter      |-> 1,
   active            |-> TRUE,
   full_trace        |-> FALSE]

(* Mutants: the trace id outlives the request; the context stays active. *)
ContextReset_KeepId(c) == [c EXCEPT !.active = FALSE]
ContextReset_Active(c) == [c EXCEPT !.trace_id = ZeroId]

ContextReset(c) == [c EXCEPT !.active = FALSE, !.trace_id = ZeroId]

(* Mutant: the id is taken without being used up. *)
SpanStarted_SameId(c) ==
  [c EXCEPT !.current_parent_id = c.span_counter,
            !.root_span_id = IF c.current_parent_id = 0 THEN c.span_counter ELSE @]

NewSpan(c, type, name) ==
  [type |-> type, name |-> name, trace_id |-> c.trace_id,
   span_id |-> c.span_counter, parent_id |-> c.current_parent_id, start_ns |-> clock]

SpanStarted(c) ==
  [c EXCEPT !.span_counter = @ + 1,
            !.current_parent_id = c.span_counter,
            !.root_span_id = IF c.current_parent_id = 0 THEN c.span_counter ELSE @]

(* The cast (uint64_t)LUMBRE_G(min_duration_ns). *)
AsUnsigned(n) == IF n < 0 THEN n + U64 ELSE n

Filtered(span, min) ==
  /\ min > 0 /\ clock - span.start_ns < min
  /\ span.type # "HTTP_IN"

(* What lumbre_span_finish may come to: filtered (1), written (0), or lost    *)
(* (-1) because the msgpack buffer overflowed or the ring refused the record. *)
Fate(span, min) == IF Filtered(span, min) THEN {"filtered"} ELSE {"written", "lost"}

Finished(span, fate) == [span |-> span, end_ns |-> clock, fate |-> fate]

(* Mutant: a filtered span stays the current parent. *)
SpanFinished_Filtered(c, span, fate) ==
  IF fate = "filtered" THEN c ELSE [c EXCEPT !.current_parent_id = span.parent_id]

(* Whatever comes of the span, its parent is current again. *)
SpanFinished(c, span, fate) == [c EXCEPT !.current_parent_id = span.parent_id]

-----------------------------------------------------------------------------
(***************************************************************************)
(* RINIT.                                                                  *)
(***************************************************************************)

BeginRequest ==
  /\ phase = "idle" /\ request.n < MaxRequests
  /\ phase' = "script"
  /\ finished' = {}

RequestIs(header, traced) ==
  request' = [n |-> request.n + 1, header |-> header, traced |-> traced]

RinitDisabled(header) ==
  /\ ~enabled
  /\ BeginRequest /\ RequestIs(header, FALSE)
  /\ UNCHANGED <<globals, modified, stack, running, clock>>

(* The first request of a worker creates the ring, or disables the tracer. *)
RinitRingFails(header) ==
  /\ enabled /\ ~ringbuf_initialized
  /\ BeginRequest /\ RequestIs(header, FALSE)
  /\ enabled' = FALSE
  /\ UNCHANGED <<min_duration_ns, ringbuf_initialized, ctx, root_span,
                 modified, stack, running, clock>>

(* trigger: the header named by lumbre.trigger_header is there. *)
Rinit(header, random, trigger) ==
  /\ enabled
  /\ BeginRequest /\ RequestIs(header, TRUE)
  /\ ringbuf_initialized' = TRUE
  /\ LET c == [ContextInit(ctx, header, random) EXCEPT !.full_trace = trigger]
         s == NewSpan(c, "HTTP_IN", "request")
     IN /\ root_span' = s
        /\ ctx' = [SpanStarted(c) EXCEPT !.root_span_id = s.span_id]
  /\ UNCHANGED <<enabled, min_duration_ns, modified, stack, running, clock>>

-----------------------------------------------------------------------------
(***************************************************************************)
(* The hooks.                                                              *)
(***************************************************************************)

InRequest == phase \in {"script", "shutdown"}
Frames    == stack[running]

Push(frame) ==
  /\ InRequest /\ Len(Frames) < MaxDepth
  /\ stack' = [stack EXCEPT ![running] = Append(@, frame)]
  /\ UNCHANGED <<enabled, min_duration_ns, ringbuf_initialized, root_span,
                 modified, running, phase, clock, finished, request>>

Tracing == enabled /\ ctx.active

(* A hook that starts a span and runs the call inside it. *)
Call(type, name) ==
  /\ Tracing /\ ctx.span_counter <= MaxSpans
  /\ Push(NewSpan(ctx, type, name))
  /\ ctx' = SpanStarted(ctx)

(* lumbre_execute_internal on a whitelisted function. *)
CallIo(f) == Call("IO", f)

(* lumbre_execute_ex on a named function, in full mode or when triggered. *)
CallFunc(f) == (FullMode \/ ctx.full_trace) /\ Call("FUNC", f)

(* Any call, when tracing is off; otherwise one without a name, an internal *)
(* function off the whitelist, or a userland function in io mode.           *)
CallPassed ==
  /\ Push(NoSpan)
  /\ UNCHANGED ctx

(* The original handler returns, with or without an exception pending: the  *)
(* hook finishes the span it started, whatever enabled is by now.           *)
Top == Frames[Len(Frames)]

Pop ==
  /\ InRequest /\ Frames # << >>
  /\ stack' = [stack EXCEPT ![running] = SubSeq(@, 1, Len(@) - 1)]
  /\ UNCHANGED <<enabled, min_duration_ns, ringbuf_initialized, root_span,
                 modified, running, phase, clock, request>>

ReturnPassed ==
  /\ Pop /\ Top = NoSpan
  /\ UNCHANGED <<ctx, finished>>

(* Mutant: a hook whose call ran into ini_set("lumbre.enabled", 0) does not  *)
(* finish its span.                                                          *)
ReturnTraced_IfEnabled ==
  /\ Pop /\ Top # NoSpan
  /\ IF ~enabled THEN UNCHANGED <<ctx, finished>>
     ELSE \E fate \in Fate(Top, AsUnsigned(min_duration_ns)) :
            /\ ctx' = SpanFinished(ctx, Top, fate)
            /\ finished' = finished \cup {Finished(Top, fate)}

ReturnTraced ==
  /\ Pop /\ Top # NoSpan
  /\ \E fate \in Fate(Top, AsUnsigned(min_duration_ns)) :
       /\ ctx' = SpanFinished(ctx, Top, fate)
       /\ finished' = finished \cup {Finished(Top, fate)}

-----------------------------------------------------------------------------
(***************************************************************************)
(* The Zend engine around the hooks, and RSHUTDOWN.                        *)
(***************************************************************************)

(* A per-directory setting before RINIT, or ini_set by the script. *)
IniSetEnabled(b) ==
  /\ enabled' = b /\ modified' = modified \cup {"enabled"}
  /\ UNCHANGED <<min_duration_ns, ringbuf_initialized, ctx, root_span,
                 stack, running, phase, clock, finished, request>>

IniSetMinDuration(n) ==
  /\ min_duration_ns' = n /\ modified' = modified \cup {"min_duration_ns"}
  /\ UNCHANGED <<enabled, ringbuf_initialized, ctx, root_span,
                 stack, running, phase, clock, finished, request>>

Tick ==
  /\ clock < MaxClock /\ clock' = clock + 1
  /\ UNCHANGED <<globals, modified, stack, running, phase, finished, request>>

(* Fiber::start or resume from the main stack, Fiber::suspend or the end of  *)
(* the fiber back to it.  The module globals do not follow the switch.       *)
Switch(f) ==
  /\ InRequest /\ f # running /\ Main \in {f, running}
  /\ running' = f
  /\ UNCHANGED <<globals, modified, stack, phase, clock, finished, request>>

(* zend_bailout: longjmp over every hook frame, then the shutdown functions. *)
Bailout ==
  /\ Bailouts /\ InRequest
  /\ stack' = [f \in Fiber |-> << >>] /\ running' = Main
  /\ phase' = "shutdown"
  /\ UNCHANGED <<globals, modified, clock, finished, request>>

EndScript ==
  /\ phase = "script" /\ running = Main /\ Frames = << >>
  /\ phase' = "shutdown"
  /\ UNCHANGED <<globals, modified, stack, running, clock, finished, request>>

(* After RSHUTDOWN the engine restores the INI entries the request modified. *)
EndRequest ==
  /\ phase = "shutdown" /\ running = Main
  /\ \A f \in Fiber : stack[f] = << >>
  /\ phase' = "idle" /\ modified' = {}
  /\ enabled' = IF "enabled" \in modified THEN Enabled ELSE enabled
  /\ min_duration_ns' = IF "min_duration_ns" \in modified THEN MinDuration
                        ELSE min_duration_ns
  /\ UNCHANGED <<ringbuf_initialized, root_span, stack, running, clock, request>>

(* Mutant: RSHUTDOWN returns early under the condition of the hooks. *)
RshutdownInactive_OrDisabled ==
  /\ EndRequest
  /\ ~(enabled /\ ctx.active)
  /\ UNCHANGED <<ctx, finished>>

RshutdownInactive ==
  /\ EndRequest
  /\ ~ctx.active
  /\ UNCHANGED <<ctx, finished>>

(* min_duration_ns is 0 here: the root is never filtered. *)
Rshutdown ==
  /\ EndRequest
  /\ ctx.active
  /\ \E fate \in Fate(root_span, 0) :
       /\ ctx' = ContextReset(SpanFinished(ctx, root_span, fate))
       /\ finished' = finished \cup {Finished(root_span, fate)}

-----------------------------------------------------------------------------
Next ==
  \/ \E header \in TraceId \cup {NoHeader} :
       \/ RinitDisabled(header) \/ RinitRingFails(header)
       \/ \E random, trigger \in BOOLEAN : Rinit(header, random, trigger)
  \/ \E f \in IoCall : CallIo(f)
  \/ \E f \in FuncCall : CallFunc(f)
  \/ CallPassed \/ ReturnPassed \/ ReturnTraced
  \/ \E b \in BOOLEAN : IniSetEnabled(b)
  \/ \E n \in MinDurations : IniSetMinDuration(n)
  \/ Tick \/ Bailout \/ EndScript \/ RshutdownInactive \/ Rshutdown
  \/ \E f \in Fiber : Switch(f)

Spec == Init /\ [][Next]_vars

-----------------------------------------------------------------------------
(***************************************************************************)
(* Properties.                                                             *)
(***************************************************************************)

Outcome == [span : Span, end_ns : Nat, fate : {"filtered", "written", "lost"}]

(* Every variable has its type; stack and finished hold spans only. *)
TypeOK ==
  /\ enabled \in BOOLEAN /\ min_duration_ns \in {MinDuration} \cup MinDurations
  /\ modified \subseteq {"enabled", "min_duration_ns"}
  /\ ringbuf_initialized \in BOOLEAN
  /\ ctx \in [trace_id : Id, root_span_id : Nat, current_parent_id : Nat,
              span_counter : Nat, active : BOOLEAN, full_trace : BOOLEAN]
  /\ root_span \in Span
  /\ stack \in [Fiber -> Seq(Span)] /\ running \in Fiber
  /\ phase \in {"idle", "script", "shutdown"} /\ clock \in Nat
  /\ finished \subseteq Outcome
  /\ request \in [n : 0..MaxRequests, header : TraceId \cup {NoHeader}, traced : BOOLEAN]

(* id is the span of the innermost hook among the first i frames that started *)
(* one, or the root span if none of them did.                                 *)
Innermost(frames, i, id) ==
  \/ \E j \in 1..i : /\ frames[j] # NoSpan /\ frames[j].span_id = id
                     /\ \A k \in (j + 1)..i : frames[k] = NoSpan
  \/ id = root_span.span_id /\ \A k \in 1..i : frames[k] = NoSpan

(* Whatever was filtered, lost or switched off before, the next span becomes *)
(* a child of the innermost open one: current_parent_id is an implicit stack *)
(* that stays in step with the C stack (lumbre_span.c:216 and 222).          *)
ParentIsInnermost ==
  ctx.active => Innermost(Frames, Len(Frames), ctx.current_parent_id)

(* "Restore parent (unwind the implicit stack) BEFORE writing.  If the write *)
(* fails, parent chaining stays consistent." (lumbre_span.c:220): what a      *)
(* finish restores is a span that is still open, never one finished before.   *)
RestoredParentIsOpen ==
  ctx.active => \A a \in finished : a.span.span_id # ctx.current_parent_id

Parent(a, b) == a.span.parent_id = b.span.span_id

(* A span kept by min_duration_ns never hangs from a filtered one, as long as *)
(* the request leaves the threshold alone: a parent lasts as long as its      *)
(* children (lumbre_span.c:212-218).                                          *)
FilterKeepsAncestors ==
  InRequest /\ "min_duration_ns" \notin modified =>
    \A a, b \in finished : Parent(a, b) /\ b.fate = "filtered" => a.fate = "filtered"

(* A finished span's interval lies within its finished parent's. *)
IntervalsNest ==
  \A a, b \in finished :
    Parent(a, b) => a.span.start_ns >= b.span.start_ns /\ a.end_ns <= b.end_ns

(* The spans of a request are one tree in one trace, whatever bails out or   *)
(* switches fibers: no two share an id, parents come before their children,  *)
(* and only the HTTP_IN span has none (span_counter, lumbre_span.c:84-95).   *)
OneTree ==
  /\ \A a, b \in finished : a.span.span_id = b.span.span_id => a = b
  /\ \A a, b \in finished : a.span.trace_id = b.span.trace_id
  /\ \A a \in finished : /\ a.span.parent_id < a.span.span_id
                         /\ a.span.parent_id = 0 <=> a.span.type = "HTTP_IN"

(* A request that RINIT traced ends with its HTTP_IN span finished exactly   *)
(* once and never filtered, be it by a bailout, with the tracer switched off *)
(* by its script or with a threshold above its duration (php_lumbre.c:404).  *)
RootOnce ==
  LET roots == {a \in finished : a.span.type = "HTTP_IN"}
  IN /\ Cardinality(roots) = IF request.traced /\ phase = "idle" THEN 1 ELSE 0
     /\ \A a \in roots : a.fate # "filtered"

(* The trace ids of this request: its header's, or random bytes, or zeros.   *)
OwnIds == IF request.header # NoHeader THEN {Given(request.header)}
          ELSE {Random(request.n), ZeroId}

(* A span carries the X-Trace-Id of its own request, or bytes drawn for it,  *)
(* or zeros when none could be drawn: never an id an earlier request of the  *)
(* worker left in the context (lumbre_span.c:50 and 69).                     *)
TraceOfOwnRequest == \A a \in finished : a.span.trace_id \in OwnIds

(* A request that RINIT did not trace leaves no span, even if its script     *)
(* switches the tracer on (php_lumbre.c:399, 585 and 705).                   *)
UntracedIsSilent ==
  ~request.traced =>
    /\ finished = {}
    /\ \A f \in Fiber : \A i \in DOMAIN stack[f] : stack[f][i] = NoSpan

(* When a request without a bailout is over, every span's parent was         *)
(* finished too, even if fibers took each other's spans for parents.         *)
NoOrphans ==
  phase = "idle" => \A a \in finished : a.span.type = "HTTP_IN" \/ \E b \in finished : Parent(a, b)

-----------------------------------------------------------------------------
(***************************************************************************)
(* The inductive invariant behind the properties, by its parts.            *)
(***************************************************************************)

(* Open spans belong to the active request, below its root, with ids given   *)
(* out before and not yet finished.                                          *)
OpenSpans ==
  \A f \in Fiber : \A i \in DOMAIN stack[f] :
    LET s == stack[f][i]
    IN s # NoSpan =>
         /\ ctx.active /\ s.type # "HTTP_IN" /\ s.trace_id = ctx.trace_id
         /\ 1 <= s.parent_id /\ s.parent_id < s.span_id /\ s.span_id < ctx.span_counter
         /\ \A a \in finished : a.span.span_id # s.span_id

(* No two frames hold the same span. *)
OpenDistinct ==
  \A f, g \in Fiber : \A i \in DOMAIN stack[f], j \in DOMAIN stack[g] :
    /\ stack[f][i] # NoSpan /\ stack[g][j] # NoSpan
    /\ stack[f][i].span_id = stack[g][j].span_id
    => f = g /\ i = j

(* The root span of an active request is open, and spans hang below it. *)
RootOpen ==
  ctx.active =>
    /\ request.traced /\ InRequest /\ ctx.trace_id \in OwnIds
    /\ root_span.type = "HTTP_IN" /\ root_span.trace_id = ctx.trace_id
    /\ root_span.span_id = 1 /\ root_span.parent_id = 0
    /\ 1 <= ctx.current_parent_id /\ ctx.current_parent_id < ctx.span_counter
    /\ \A a \in finished : a.span.type # "HTTP_IN" /\ a.span.trace_id = ctx.trace_id

(* An inactive context is that of an idle worker or of an untraced request. *)
Inactive ==
  ~ctx.active => /\ ctx.trace_id = ZeroId
                 /\ phase = "idle" \/ ~request.traced

Idle == phase = "idle" => ~ctx.active /\ \A f \in Fiber : stack[f] = << >>

(* A traced request that is over has finished its root, once. *)
RootFinished ==
  request.traced /\ phase = "idle" =>
    \E r \in finished : /\ r.span.type = "HTTP_IN" /\ r.fate # "filtered"
                        /\ \A a \in finished : a.span.type = "HTTP_IN" => a = r

TreeInv ==
  /\ OpenSpans /\ OpenDistinct /\ RootOpen /\ Inactive /\ Idle /\ RootFinished
  /\ \A a \in finished : a.span.span_id < ctx.span_counter
  /\ ~request.traced => finished = {}
  /\ OneTree /\ TraceOfOwnRequest

(* Without a bailout no id is forgotten: its span is open or was finished.   *)
Known(id) ==
  \/ ctx.active /\ id = root_span.span_id
  \/ \E a \in finished : a.span.span_id = id
  \/ \E f \in Fiber : \E i \in DOMAIN stack[f] : stack[f][i].span_id = id

IdsKnown == request.traced => \A id \in 1..(ctx.span_counter - 1) : Known(id)

-----------------------------------------------------------------------------
(***************************************************************************)
(* What holds besides when there is one C stack and nobody jumps over it.  *)
(***************************************************************************)

OneStack == Fiber = {Main} /\ ~Bailouts

(* Every open span hangs from the innermost one below it on the stack. *)
ParentsBelow ==
  \A i \in DOMAIN stack[Main] :
    stack[Main][i] # NoSpan => Innermost(stack[Main], i - 1, stack[Main][i].parent_id)

Live == {s \in {stack[Main][i] : i \in DOMAIN stack[Main]} : s # NoSpan}
        \cup (IF ctx.active THEN {root_span} ELSE {})

(* Nothing lies in the future, children start after their parents, and no    *)
(* parent finishes before its children do.                                   *)
LiveIntervals ==
  /\ \A s \in Live : s.start_ns <= clock
  /\ \A s, t \in Live : s.parent_id = t.span_id => t.start_ns <= s.start_ns
  /\ \A s \in Live, a \in finished : s.parent_id # a.span.span_id
  /\ \A a \in finished, t \in Live :
       a.span.parent_id = t.span_id => t.start_ns <= a.span.start_ns

FinishedIntervals ==
  \A a \in finished : a.span.start_ns <= a.end_ns /\ a.end_ns <= clock

(* As long as the request leaves the threshold alone, it alone decides.      *)
FilterIsThreshold ==
  "min_duration_ns" \notin modified =>
    /\ min_duration_ns = MinDuration
    /\ InRequest =>
         \A a \in finished :
           LET min == AsUnsigned(MinDuration)
           IN a.fate = "filtered" <=> min > 0 /\ a.end_ns - a.span.start_ns < min

NestInv ==
  /\ ParentsBelow /\ ParentIsInnermost
  /\ LiveIntervals /\ FinishedIntervals /\ IntervalsNest
  /\ FilterIsThreshold
=============================================================================
