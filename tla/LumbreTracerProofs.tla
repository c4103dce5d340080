------------------------- MODULE LumbreTracerProofs -------------------------
(***************************************************************************)
(* Proofs about the span life cycle, for every set of functions, depth,    *)
(* clock and number of requests.                                           *)
(***************************************************************************)
EXTENDS LumbreTracer, FiniteSetTheorems, TLAPS

Context == [trace_id : Id, root_span_id : Nat, current_parent_id : Nat,
            span_counter : Nat, active : BOOLEAN, full_trace : BOOLEAN]

Name == IoCall \cup FuncCall \cup {"request"}

-----------------------------------------------------------------------------
(* Types. *)

(* lumbre_span_start fills a span from the context and the clock. *)
LEMMA NewSpanTyped ==
  ASSUME NEW c \in Context, NEW type \in {"HTTP_IN", "IO", "FUNC"}, NEW name \in Name,
         clock \in Nat
  PROVE  NewSpan(c, type, name) \in Span
  BY DEF NewSpan, Span, Context, Name

(* ... and leaves a context. *)
LEMMA SpanStartedTyped ==
  ASSUME NEW c \in Context
  PROVE  SpanStarted(c) \in Context
  <1>1. c.span_counter + 1 \in Nat /\ c.span_counter \in Nat
    BY DEF Context
  <1>2. (IF c.current_parent_id = 0 THEN c.span_counter ELSE c.root_span_id) \in Nat
    BY DEF Context
  <1> QED BY <1>1, <1>2 DEF SpanStarted, Context

(* lumbre_span_finish leaves a context. *)
LEMMA SpanFinishedTyped ==
  ASSUME NEW c \in Context, NEW span \in Span, NEW fate
  PROVE  SpanFinished(c, span, fate) \in Context
  BY DEF SpanFinished, Context, Span

(* What it makes of a span is one of the three outcomes. *)
LEMMA FinishedTyped ==
  ASSUME NEW span \in Span, NEW min, NEW fate \in Fate(span, min), clock \in Nat
  PROVE  Finished(span, fate) \in Outcome
  BY DEF Finished, Outcome, Fate

(* lumbre_context_init leaves a context, whatever bytes it was given. *)
LEMMA ContextInitTyped ==
  ASSUME NEW c \in Context, NEW header \in TraceId \cup {NoHeader},
         NEW random \in BOOLEAN, NEW trigger \in BOOLEAN, request.n + 1 \in 1..MaxRequests
  PROVE  [ContextInit(c, header, random) EXCEPT !.full_trace = trigger] \in Context
  BY DEF ContextInit, Context, Id

(* lumbre_context_reset leaves a context. *)
LEMMA ContextResetTyped ==
  ASSUME NEW c \in Context
  PROVE  ContextReset(c) \in Context
  BY DEF ContextReset, Context, Id

(* A request begins with a record of its header and of what RINIT decided. *)
LEMMA RequestTyped ==
  ASSUME TypeOK, NEW header \in TraceId \cup {NoHeader}, NEW traced \in BOOLEAN,
         BeginRequest, RequestIs(header, traced)
  PROVE  /\ request' \in [n : 0..MaxRequests, header : TraceId \cup {NoHeader},
                          traced : BOOLEAN]
         /\ request.n + 1 \in 1..MaxRequests
         /\ phase' = "script" /\ finished' = {}
  <1>1. request.n \in 0..MaxRequests
    BY DEF TypeOK
  <1>2. request.n + 1 \in 0..MaxRequests /\ request.n + 1 \in 1..MaxRequests
    BY <1>1, TracerAssumption DEF BeginRequest
  <1> QED BY <1>2 DEF BeginRequest, RequestIs

(* A hook that returns pops one frame of its fiber. *)
LEMMA PopTyped ==
  ASSUME TypeOK, Pop
  PROVE  /\ stack' \in [Fiber -> Seq(Span)]
         /\ Top \in Span
  <1>1. Frames \in Seq(Span) /\ Frames # << >> /\ running \in Fiber
    BY DEF TypeOK, Pop, Frames
  <1>2. SubSeq(Frames, 1, Len(Frames) - 1) \in Seq(Span)
    BY <1>1
  <1>3. Top \in Span
    BY <1>1 DEF Top
  <1> QED BY <1>1, <1>2, <1>3 DEF TypeOK, Pop, Frames

(* A hook that is entered pushes one frame. *)
LEMMA PushTyped ==
  ASSUME TypeOK, NEW frame \in Span, Push(frame)
  PROVE  stack' \in [Fiber -> Seq(Span)]
  <1>1. Append(stack[running], frame) \in Seq(Span)
    BY DEF TypeOK
  <1> QED BY <1>1 DEF TypeOK, Push

(* Every step keeps the types. *)
LEMMA TypeStep ==
  ASSUME TypeOK, [Next]_vars
  PROVE  TypeOK'
  <1> USE TracerAssumption
  <1>0. ctx \in Context /\ clock \in Nat /\ root_span \in Span /\ request.n \in 0..MaxRequests
    BY DEF TypeOK, Context
  <1>1. ASSUME NEW header \in TraceId \cup {NoHeader}, RinitDisabled(header)
        PROVE  TypeOK'
    BY <1>1, RequestTyped DEF TypeOK, RinitDisabled, globals
  <1>2. ASSUME NEW header \in TraceId \cup {NoHeader}, RinitRingFails(header)
        PROVE  TypeOK'
    BY <1>2, RequestTyped DEF TypeOK, RinitRingFails
  <1>3. ASSUME NEW header \in TraceId \cup {NoHeader}, NEW random \in BOOLEAN,
               NEW trigger \in BOOLEAN, Rinit(header, random, trigger)
        PROVE  TypeOK'
    <2>1. PICK c : /\ c = [ContextInit(ctx, header, random) EXCEPT !.full_trace = trigger]
                   /\ root_span' = NewSpan(c, "HTTP_IN", "request")
                   /\ ctx' = [SpanStarted(c) EXCEPT !.root_span_id = root_span'.span_id]
      BY <1>3 DEF Rinit
    <2>2. request.n + 1 \in 1..MaxRequests
      BY <1>3, RequestTyped DEF Rinit
    <2>3. c \in Context
      BY <2>1, <2>2, <1>0, ContextInitTyped
    <2>4. root_span' \in Span
      BY <2>1, <2>3, <1>0, NewSpanTyped DEF Name
    <2>5. SpanStarted(c) \in Context /\ root_span'.span_id \in Nat
      BY <2>3, <2>4, SpanStartedTyped DEF Span
    <2>6. ctx' \in Context
      BY <2>1, <2>5 DEF Context
    <2> QED BY <1>3, <2>4, <2>6, RequestTyped DEF TypeOK, Rinit, Context
  <1>4. ASSUME NEW type \in {"IO", "FUNC"}, NEW f \in IoCall \cup FuncCall, Call(type, f)
        PROVE  TypeOK'
    <2>1. NewSpan(ctx, type, f) \in Span /\ SpanStarted(ctx) \in Context
      BY <1>0, NewSpanTyped, SpanStartedTyped DEF Name
    <2>2. stack' \in [Fiber -> Seq(Span)] /\ ctx' \in Context
      BY <1>4, <2>1, PushTyped DEF Call
    <2> QED BY <1>4, <2>2 DEF TypeOK, Call, Push, Context
  <1>5. CASE CallPassed
    <2>1. NoSpan \in Span
      BY DEF NoSpan, ZeroSpan, Span, Id
    <2>2. stack' \in [Fiber -> Seq(Span)]
      BY <1>5, <2>1, PushTyped DEF CallPassed
    <2> QED BY <1>5, <2>2 DEF TypeOK, CallPassed, Push
  <1>6. CASE ReturnPassed
    <2>1. stack' \in [Fiber -> Seq(Span)]
      BY <1>6, PopTyped DEF ReturnPassed
    <2> QED BY <1>6, <2>1 DEF TypeOK, ReturnPassed, Pop
  <1>7. CASE ReturnTraced
    <2>1. stack' \in [Fiber -> Seq(Span)] /\ Top \in Span
      BY <1>7, PopTyped DEF ReturnTraced
    <2>2. PICK fate \in Fate(Top, AsUnsigned(min_duration_ns)) :
            /\ ctx' = SpanFinished(ctx, Top, fate)
            /\ finished' = finished \cup {Finished(Top, fate)}
      BY <1>7 DEF ReturnTraced
    <2>3. ctx' \in Context /\ finished' \subseteq Outcome
      BY <1>0, <2>1, <2>2, SpanFinishedTyped, FinishedTyped DEF TypeOK
    <2> QED BY <1>7, <2>1, <2>3 DEF TypeOK, ReturnTraced, Pop, Context
  <1>8. ASSUME NEW b \in BOOLEAN, IniSetEnabled(b)
        PROVE  TypeOK'
    BY <1>8 DEF TypeOK, IniSetEnabled
  <1>9. ASSUME NEW n \in MinDurations, IniSetMinDuration(n)
        PROVE  TypeOK'
    BY <1>9 DEF TypeOK, IniSetMinDuration
  <1>10. CASE Tick
    BY <1>10 DEF TypeOK, Tick, globals
  <1>11. CASE Bailout
    BY <1>11 DEF TypeOK, Bailout, globals
  <1>12. CASE EndScript
    BY <1>12 DEF TypeOK, EndScript, globals
  <1>13. CASE RshutdownInactive
    BY <1>13 DEF TypeOK, RshutdownInactive, EndRequest
  <1>14. CASE Rshutdown
    <2>1. PICK fate \in Fate(root_span, 0) :
            /\ ctx' = ContextReset(SpanFinished(ctx, root_span, fate))
            /\ finished' = finished \cup {Finished(root_span, fate)}
      BY <1>14 DEF Rshutdown
    <2>2. ctx' \in Context /\ finished' \subseteq Outcome
      BY <1>0, <2>1, SpanFinishedTyped, ContextResetTyped, FinishedTyped DEF TypeOK
    <2> QED BY <1>14, <2>2 DEF TypeOK, Rshutdown, EndRequest, Context
  <1>15. ASSUME NEW f \in Fiber, Switch(f)
         PROVE  TypeOK'
    BY <1>15 DEF TypeOK, Switch, globals
  <1>16. CASE UNCHANGED vars
    BY <1>16 DEF TypeOK, vars, globals, engine
  <1> QED BY <1>1, <1>2, <1>3, <1>4, <1>5, <1>6, <1>7, <1>8, <1>9, <1>10, <1>11, <1>12,
             <1>13, <1>14, <1>15, <1>16 DEF Next, CallIo, CallFunc

(* The variables of a worker keep their types through every request: spans   *)
(* of the hooks and of RINIT are well formed, and no id or parent underflows. *)
THEOREM TypeCorrect == Spec => []TypeOK
  <1>1. ASSUME Init PROVE TypeOK
    <2> USE TracerAssumption
    <2>1. ZeroId \in Id /\ "request" \in Name
      BY DEF Id, Name
    <2>2. root_span \in Span
      BY <1>1, <2>1 DEF Init, ZeroSpan, Span, Name
    <2>3. ctx \in Context
      BY <1>1, <2>1 DEF Init, ZeroContext, Context
    <2>4. << >> \in Seq(Span)
      OBVIOUS
    <2>5. request \in [n : 0..MaxRequests, header : TraceId \cup {NoHeader}, traced : BOOLEAN]
      BY <1>1 DEF Init
    <2> QED BY <1>1, <2>2, <2>3, <2>4, <2>5 DEF Init, TypeOK, Context
  <1> QED BY <1>1, TypeStep, PTL DEF Spec

-----------------------------------------------------------------------------
(* The tree of a request: the invariant TreeInv, step by step. *)

(* Frames are spans, outcomes hold spans, and their numbers are naturals. *)
LEMMA SpanTyped ==
  ASSUME TypeOK
  PROVE  /\ \A a \in finished : /\ a.span \in Span /\ a.span.span_id \in Nat
                                /\ a.span.start_ns \in Nat /\ a.end_ns \in Nat
         /\ \A f \in Fiber : \A i \in DOMAIN stack[f] :
              /\ i \in Nat /\ stack[f][i] \in Span /\ stack[f][i].span_id \in Nat
              /\ stack[f][i].parent_id \in Nat /\ stack[f][i].start_ns \in Nat
  <1>1. ASSUME NEW a \in finished
        PROVE  /\ a.span \in Span /\ a.span.span_id \in Nat
               /\ a.span.start_ns \in Nat /\ a.end_ns \in Nat
    <2>1. a \in Outcome
      BY DEF TypeOK
    <2> QED BY <2>1 DEF Outcome, Span
  <1>2. ASSUME NEW f \in Fiber, NEW i \in DOMAIN stack[f]
        PROVE  /\ i \in Nat /\ stack[f][i] \in Span /\ stack[f][i].span_id \in Nat
               /\ stack[f][i].parent_id \in Nat /\ stack[f][i].start_ns \in Nat
    <2>1. stack[f] \in Seq(Span)
      BY DEF TypeOK
    <2>2. i \in Nat /\ stack[f][i] \in Span
      BY <2>1
    <2> QED BY <2>2 DEF Span
  <1> QED BY <1>1, <1>2

(* The frames after a hook was entered. *)
LEMMA PushFrames ==
  ASSUME TypeOK, NEW frame \in Span, Push(frame)
  PROVE  \A f \in Fiber : \A i \in DOMAIN stack'[f] :
           \/ i \in DOMAIN stack[f] /\ stack'[f][i] = stack[f][i]
           \/ f = running /\ i = Len(stack[f]) + 1 /\ stack'[f][i] = frame
  <1> SUFFICES ASSUME NEW f \in Fiber, NEW i \in DOMAIN stack'[f]
               PROVE  \/ i \in DOMAIN stack[f] /\ stack'[f][i] = stack[f][i]
                      \/ f = running /\ i = Len(stack[f]) + 1 /\ stack'[f][i] = frame
    OBVIOUS
  <1>1. stack \in [Fiber -> Seq(Span)] /\ stack[f] \in Seq(Span)
    BY DEF TypeOK
  <1>2. CASE f = running
    <2>1. stack'[f] = Append(stack[f], frame)
      BY <1>1, <1>2 DEF Push
    <2>2. i \in 1..(Len(stack[f]) + 1)
      BY <1>1, <2>1
    <2> QED BY <1>1, <1>2, <2>1, <2>2
  <1>3. CASE f # running
    BY <1>1, <1>3 DEF Push
  <1> QED BY <1>2, <1>3

(* The frames after a hook returned: all but the top one of its fiber. *)
LEMMA PopFrames ==
  ASSUME TypeOK, Pop
  PROVE  /\ running \in Fiber /\ Len(Frames) \in DOMAIN stack[running]
         /\ Top = stack[running][Len(Frames)]
         /\ \A f \in Fiber : \A i \in DOMAIN stack'[f] :
              /\ i \in DOMAIN stack[f] /\ stack'[f][i] = stack[f][i]
              /\ f # running \/ i # Len(Frames)
  <1>1. stack \in [Fiber -> Seq(Span)] /\ running \in Fiber /\ Frames = stack[running]
    BY DEF TypeOK, Frames
  <1>2. Len(Frames) \in DOMAIN stack[running]
    BY <1>1 DEF Pop
  <1>3. ASSUME NEW f \in Fiber, NEW i \in DOMAIN stack'[f]
        PROVE  /\ i \in DOMAIN stack[f] /\ stack'[f][i] = stack[f][i]
               /\ f # running \/ i # Len(Frames)
    <2>1. CASE f = running
      <3>1. stack'[f] = SubSeq(Frames, 1, Len(Frames) - 1)
        BY <1>1, <2>1 DEF Pop
      <3>2. Frames \in Seq(Span) /\ Len(Frames) \in Nat /\ Len(Frames) # 0
        BY <1>1 DEF Pop
      <3>3. i \in 1..(Len(Frames) - 1)
        BY <1>3, <3>1, <3>2
      <3>4. stack'[f][i] = Frames[i]
        BY <3>1, <3>2, <3>3
      <3> QED BY <1>1, <2>1, <3>2, <3>3, <3>4
    <2>2. CASE f # running
      BY <1>1, <1>3, <2>2 DEF Pop
    <2> QED BY <2>1, <2>2
  <1> QED BY <1>1, <1>2, <1>3 DEF Top

(* Steps that touch neither the spans nor the request. *)
LEMMA QuietTree ==
  ASSUME TypeOK, TreeInv,
         UNCHANGED <<ctx, root_span, stack, finished, request>>,
         phase' = phase \/ (InRequest /\ phase' = "shutdown")
  PROVE  TreeInv'
  BY DEF TreeInv, OpenSpans, OpenDistinct, RootOpen, Inactive, Idle, RootFinished, OneTree,
         TraceOfOwnRequest, OwnIds, InRequest

(* A bailout leaves no open span but the root. *)
LEMMA BailoutTree ==
  ASSUME TypeOK, TreeInv, Bailout
  PROVE  TreeInv'
  BY DEF TreeInv, OpenSpans, OpenDistinct, RootOpen, Inactive, Idle, RootFinished, OneTree,
         TraceOfOwnRequest, OwnIds, InRequest, Bailout, globals

(* RINIT without a trace. *)
LEMMA UntracedTree ==
  ASSUME TypeOK, TreeInv, NEW header, BeginRequest, RequestIs(header, FALSE),
         UNCHANGED <<ctx, root_span, stack>>
  PROVE  TreeInv'
  BY DEF TreeInv, OpenSpans, OpenDistinct, RootOpen, Inactive, Idle, RootFinished, OneTree,
         TraceOfOwnRequest, OwnIds, InRequest, BeginRequest, RequestIs

(* RINIT starts a trace of its own with its root as span 1. *)
LEMMA RinitTree ==
  ASSUME TypeOK, TreeInv, NEW header \in TraceId \cup {NoHeader}, NEW random \in BOOLEAN,
         NEW trigger \in BOOLEAN, Rinit(header, random, trigger)
  PROVE  TreeInv'
  <1>1. phase = "idle" /\ phase' = "script" /\ finished' = {} /\ stack' = stack
        /\ request' = [n |-> request.n + 1, header |-> header, traced |-> TRUE]
    BY DEF Rinit, BeginRequest, RequestIs
  <1>2. ~ctx.active /\ ctx.trace_id = ZeroId /\ \A f \in Fiber : stack'[f] = << >>
    BY <1>1 DEF TreeInv, Idle, Inactive
  <1>3. PICK c : /\ c = [ContextInit(ctx, header, random) EXCEPT !.full_trace = trigger]
                 /\ root_span' = NewSpan(c, "HTTP_IN", "request")
                 /\ ctx' = [SpanStarted(c) EXCEPT !.root_span_id = root_span'.span_id]
    BY DEF Rinit
  <1>4. /\ c.span_counter = 1 /\ c.current_parent_id = 0 /\ c.active = TRUE
        /\ c.trace_id = IF header # NoHeader THEN Given(header)
                        ELSE IF random THEN Random(request.n + 1) ELSE ctx.trace_id
    BY <1>3 DEF ContextInit
  <1>5. /\ ctx'.active = TRUE /\ ctx'.span_counter = 2 /\ ctx'.current_parent_id = 1
        /\ ctx'.trace_id = c.trace_id
    BY <1>3, <1>4 DEF SpanStarted, ContextInit
  <1>6. /\ root_span'.type = "HTTP_IN" /\ root_span'.trace_id = c.trace_id
        /\ root_span'.span_id = 1 /\ root_span'.parent_id = 0
    BY <1>3, <1>4 DEF NewSpan
  <1>7. c.trace_id \in OwnIds'
    BY <1>1, <1>2, <1>4 DEF OwnIds
  <1>8. RootOpen' /\ Inactive' /\ Idle' /\ RootFinished'
    BY <1>1, <1>5, <1>6, <1>7 DEF RootOpen, Inactive, Idle, RootFinished, InRequest
  <1>9. OpenSpans' /\ OpenDistinct'
    BY <1>2 DEF OpenSpans, OpenDistinct
  <1> QED BY <1>1, <1>8, <1>9 DEF TreeInv, OneTree, TraceOfOwnRequest

(* A new span takes an id above every other, and an open parent. *)
LEMMA CallTree ==
  ASSUME TypeOK, TreeInv, NEW type \in {"IO", "FUNC"}, NEW name \in IoCall \cup FuncCall,
         Call(type, name)
  PROVE  TreeInv'
  <1> DEFINE s == NewSpan(ctx, type, name)
  <1>1. ctx.active /\ UNCHANGED <<root_span, phase, finished, request>> /\ InRequest
    BY DEF Call, Push, Tracing
  <1>2. s \in Span
    BY NewSpanTyped DEF TypeOK, Context, Name
  <1>3. \A f \in Fiber : \A i \in DOMAIN stack'[f] :
           \/ i \in DOMAIN stack[f] /\ stack'[f][i] = stack[f][i]
           \/ f = running /\ i = Len(stack[f]) + 1 /\ stack'[f][i] = s
    BY <1>2, PushFrames DEF Call
  <1>4. /\ ctx'.active = ctx.active /\ ctx'.trace_id = ctx.trace_id
        /\ ctx'.span_counter = ctx.span_counter + 1
        /\ ctx'.current_parent_id = ctx.span_counter
    BY DEF Call, SpanStarted, TypeOK
  <1>5. /\ s.type # "HTTP_IN" /\ s.trace_id = ctx.trace_id
        /\ s.span_id = ctx.span_counter /\ s.parent_id = ctx.current_parent_id
    BY DEF NewSpan
  <1>6. ctx.span_counter \in Nat /\ ctx.current_parent_id \in Nat
    BY DEF TypeOK
  <1>7. /\ 1 <= ctx.current_parent_id /\ ctx.current_parent_id < ctx.span_counter
        /\ \A a \in finished : a.span.span_id < ctx.span_counter
    BY <1>1 DEF TreeInv, RootOpen
  <1>8. /\ \A a \in finished : a.span.span_id \in Nat
        /\ \A f \in Fiber : \A i \in DOMAIN stack[f] : stack[f][i].span_id \in Nat
    BY SpanTyped
  <1> HIDE DEF s
  <1>9. OpenSpans'
    BY <1>1, <1>3, <1>4, <1>5, <1>6, <1>7, <1>8 DEF TreeInv, OpenSpans
  <1>10. OpenDistinct'
    BY <1>3, <1>5, <1>6, <1>8 DEF TreeInv, OpenSpans, OpenDistinct
  <1>11. RootOpen' /\ Inactive' /\ Idle' /\ RootFinished'
    BY <1>1, <1>4, <1>6, <1>7
       DEF TreeInv, RootOpen, Inactive, Idle, RootFinished, InRequest, OwnIds
  <1>12. \A a \in finished : a.span.span_id < ctx'.span_counter
    BY <1>4, <1>6, <1>7, <1>8
  <1> QED BY <1>1, <1>9, <1>10, <1>11, <1>12 DEF TreeInv, OneTree, TraceOfOwnRequest, OwnIds

(* A hook that traced nothing pushes or pops a frame without a span. *)
LEMMA PassedTree ==
  ASSUME TypeOK, TreeInv, CallPassed \/ ReturnPassed
  PROVE  TreeInv'
  <1>1. UNCHANGED <<ctx, root_span, phase, finished, request>> /\ InRequest
    BY DEF CallPassed, ReturnPassed, Push, Pop
  <1>2. NoSpan \in Span
    BY DEF NoSpan, ZeroSpan, Span, Id
  <1>3. \A f \in Fiber : \A i \in DOMAIN stack'[f] :
           \/ i \in DOMAIN stack[f] /\ stack'[f][i] = stack[f][i]
           \/ stack'[f][i] = NoSpan
    BY <1>2, PushFrames, PopFrames DEF CallPassed, ReturnPassed
  <1>4. OpenSpans'
    BY <1>1, <1>3 DEF TreeInv, OpenSpans
  <1>5. OpenDistinct'
    BY <1>3 DEF TreeInv, OpenDistinct
  <1>6. RootOpen' /\ Inactive' /\ Idle' /\ RootFinished'
    BY <1>1 DEF TreeInv, RootOpen, Inactive, Idle, RootFinished, InRequest, OwnIds
  <1> QED BY <1>1, <1>4, <1>5, <1>6 DEF TreeInv, OneTree, TraceOfOwnRequest, OwnIds

(* A finished span keeps its id; its parent, open or not, comes before it. *)
LEMMA ReturnTree ==
  ASSUME TypeOK, TreeInv, ReturnTraced
  PROVE  TreeInv'
  <1>1. UNCHANGED <<root_span, phase, request>> /\ InRequest /\ Top # NoSpan /\ Pop
    BY DEF ReturnTraced, Pop
  <1>2. PICK fate \in Fate(Top, AsUnsigned(min_duration_ns)) :
          /\ ctx' = [ctx EXCEPT !.current_parent_id = Top.parent_id]
          /\ finished' = finished \cup {Finished(Top, fate)}
    BY DEF ReturnTraced, SpanFinished
  <1>3. /\ running \in Fiber /\ Len(Frames) \in DOMAIN stack[running]
        /\ Top = stack[running][Len(Frames)]
        /\ \A f \in Fiber : \A i \in DOMAIN stack'[f] :
             /\ i \in DOMAIN stack[f] /\ stack'[f][i] = stack[f][i]
             /\ f # running \/ i # Len(Frames)
    BY <1>1, PopFrames
  <1>4. /\ ctx.active /\ Top.type # "HTTP_IN" /\ Top.trace_id = ctx.trace_id
        /\ 1 <= Top.parent_id /\ Top.parent_id < Top.span_id
        /\ Top.span_id < ctx.span_counter
        /\ \A a \in finished : a.span.span_id # Top.span_id
    BY <1>1, <1>3 DEF TreeInv, OpenSpans
  <1>5. ctx.span_counter \in Nat /\ Top.parent_id \in Nat /\ Top.span_id \in Nat
    BY <1>3, SpanTyped DEF TypeOK
  <1>6. /\ ctx'.active = ctx.active /\ ctx'.trace_id = ctx.trace_id
        /\ ctx'.span_counter = ctx.span_counter /\ ctx'.current_parent_id = Top.parent_id
    BY <1>2 DEF TypeOK
  <1> DEFINE o == Finished(Top, fate)
  <1>7. o.span = Top
    BY DEF Finished
  <1> HIDE DEF o
  <1>8. finished' = finished \cup {o}
    BY <1>2 DEF o
  <1>9. \A f \in Fiber : \A i \in DOMAIN stack'[f] :
          stack'[f][i] # NoSpan => stack'[f][i].span_id # Top.span_id
    BY <1>1, <1>3 DEF TreeInv, OpenDistinct
  <1>10. OpenSpans'
    BY <1>3, <1>6, <1>7, <1>8, <1>9 DEF TreeInv, OpenSpans
  <1>11. OpenDistinct'
    BY <1>3 DEF TreeInv, OpenDistinct
  <1>12. RootOpen' /\ Inactive' /\ Idle' /\ RootFinished'
    BY <1>1, <1>4, <1>5, <1>6, <1>7, <1>8
       DEF TreeInv, RootOpen, Inactive, Idle, RootFinished, InRequest, OwnIds
  <1>13. OneTree'
    <2>1. \A a \in finished : a.span.trace_id = ctx.trace_id
      BY <1>4 DEF TreeInv, RootOpen
    <2>2. Top.parent_id # 0
      BY <1>4, <1>5
    <2> QED BY <1>4, <1>7, <1>8, <2>1, <2>2 DEF TreeInv, OneTree
  <1>14. TraceOfOwnRequest'
    BY <1>1, <1>4, <1>7, <1>8 DEF TreeInv, RootOpen, TraceOfOwnRequest, OwnIds
  <1>15. request.traced
    BY <1>4 DEF TreeInv, RootOpen
  <1>16. \A a \in finished' : a.span.span_id < ctx'.span_counter
    BY <1>4, <1>6, <1>7, <1>8 DEF TreeInv
  <1> QED BY <1>1, <1>10, <1>11, <1>12, <1>13, <1>14, <1>15, <1>16 DEF TreeInv

(* RSHUTDOWN of a request that was not traced. *)
LEMMA InactiveTree ==
  ASSUME TypeOK, TreeInv, RshutdownInactive
  PROVE  TreeInv'
  <1>1. /\ phase = "shutdown" /\ phase' = "idle" /\ ~ctx.active
        /\ UNCHANGED <<ctx, root_span, stack, finished, request>>
        /\ \A f \in Fiber : stack[f] = << >>
    BY DEF RshutdownInactive, EndRequest
  <1>2. ~request.traced
    BY <1>1 DEF TreeInv, Inactive
  <1> QED BY <1>1, <1>2 DEF TreeInv, OpenSpans, OpenDistinct, RootOpen, Inactive, Idle,
             RootFinished, OneTree, TraceOfOwnRequest, OwnIds

(* RSHUTDOWN finishes the root, unfiltered, and clears the context. *)
LEMMA RshutdownTree ==
  ASSUME TypeOK, TreeInv, Rshutdown
  PROVE  TreeInv'
  <1>1. /\ phase = "shutdown" /\ phase' = "idle" /\ ctx.active
        /\ UNCHANGED <<root_span, stack, request>>
        /\ \A f \in Fiber : stack'[f] = << >>
    BY DEF Rshutdown, EndRequest
  <1>2. PICK fate \in Fate(root_span, 0) :
          /\ ctx' = ContextReset(SpanFinished(ctx, root_span, fate))
          /\ finished' = finished \cup {Finished(root_span, fate)}
    BY DEF Rshutdown
  <1>3. fate # "filtered"
    BY DEF Fate, Filtered
  <1> DEFINE o == Finished(root_span, fate)
  <1>4. o.span = root_span /\ o.fate = fate
    BY DEF Finished
  <1> HIDE DEF o
  <1>5. finished' = finished \cup {o}
    BY <1>2 DEF o
  <1>6. ~ctx'.active /\ ctx'.trace_id = ZeroId /\ ctx'.span_counter = ctx.span_counter
    BY <1>2 DEF ContextReset, SpanFinished, TypeOK
  <1>7. /\ request.traced /\ ctx.trace_id \in OwnIds
        /\ root_span.type = "HTTP_IN" /\ root_span.trace_id = ctx.trace_id
        /\ root_span.span_id = 1 /\ root_span.parent_id = 0
        /\ 1 <= ctx.current_parent_id /\ ctx.current_parent_id < ctx.span_counter
        /\ \A a \in finished : a.span.type # "HTTP_IN" /\ a.span.trace_id = ctx.trace_id
    BY <1>1 DEF TreeInv, RootOpen
  <1>8. /\ \A a \in finished : a.span.span_id # 1
        /\ 1 < ctx.span_counter
    <2>1. ctx.span_counter \in Nat /\ ctx.current_parent_id \in Nat
      BY DEF TypeOK
    <2>2. \A a \in finished : /\ a.span.parent_id \in Nat /\ a.span.span_id \in Nat
                              /\ a.span.parent_id < a.span.span_id /\ a.span.parent_id # 0
      BY <1>7, SpanTyped DEF TreeInv, OneTree, Span
    <2> QED BY <1>7, <2>1, <2>2
  <1>9. OneTree'
    BY <1>4, <1>5, <1>7, <1>8 DEF TreeInv, OneTree
  <1>10. TraceOfOwnRequest'
    BY <1>1, <1>4, <1>5, <1>7 DEF TreeInv, TraceOfOwnRequest, OwnIds
  <1>11. \A a \in finished' : a.span.span_id < ctx'.span_counter
    BY <1>4, <1>5, <1>6, <1>7, <1>8 DEF TreeInv
  <1>12. RootFinished'
    BY <1>3, <1>4, <1>5, <1>7 DEF RootFinished
  <1>13. OpenSpans' /\ OpenDistinct' /\ RootOpen' /\ Inactive' /\ Idle'
    BY <1>1, <1>6 DEF OpenSpans, OpenDistinct, RootOpen, Inactive, Idle
  <1> QED BY <1>1, <1>7, <1>9, <1>10, <1>11, <1>12, <1>13 DEF TreeInv

(* Every step keeps the invariant. *)
LEMMA TreeStep ==
  ASSUME TypeOK, TreeInv, [Next]_vars
  PROVE  TreeInv'
  <1>1. ASSUME NEW header \in TraceId \cup {NoHeader}, RinitDisabled(header)
        PROVE  TreeInv'
    BY <1>1, UntracedTree DEF RinitDisabled, globals
  <1>2. ASSUME NEW header \in TraceId \cup {NoHeader}, RinitRingFails(header)
        PROVE  TreeInv'
    BY <1>2, UntracedTree DEF RinitRingFails
  <1>3. ASSUME NEW header \in TraceId \cup {NoHeader}, NEW random \in BOOLEAN,
               NEW trigger \in BOOLEAN, Rinit(header, random, trigger)
        PROVE  TreeInv'
    BY <1>3, RinitTree
  <1>4. ASSUME NEW type \in {"IO", "FUNC"}, NEW f \in IoCall \cup FuncCall, Call(type, f)
        PROVE  TreeInv'
    BY <1>4, CallTree
  <1>5. CASE CallPassed \/ ReturnPassed
    BY <1>5, PassedTree
  <1>6. CASE ReturnTraced
    BY <1>6, ReturnTree
  <1>7. ASSUME NEW b \in BOOLEAN, IniSetEnabled(b)
        PROVE  TreeInv'
    BY <1>7, QuietTree DEF IniSetEnabled
  <1>8. ASSUME NEW n \in MinDurations, IniSetMinDuration(n)
        PROVE  TreeInv'
    BY <1>8, QuietTree DEF IniSetMinDuration
  <1>9. CASE Tick
    BY <1>9, QuietTree DEF Tick, globals
  <1>10. CASE Bailout
    BY <1>10, BailoutTree
  <1>11. CASE EndScript
    BY <1>11, QuietTree DEF EndScript, InRequest, globals
  <1>12. CASE RshutdownInactive
    BY <1>12, InactiveTree
  <1>13. CASE Rshutdown
    BY <1>13, RshutdownTree
  <1>14. ASSUME NEW f \in Fiber, Switch(f)
         PROVE  TreeInv'
    BY <1>14, QuietTree DEF Switch, globals
  <1>15. CASE UNCHANGED vars
    BY <1>15, QuietTree DEF vars, globals, engine
  <1> QED BY <1>1, <1>2, <1>3, <1>4, <1>5, <1>6, <1>7, <1>8, <1>9, <1>10, <1>11, <1>12,
             <1>13, <1>14, <1>15 DEF Next, CallIo, CallFunc

(* TreeInv is an invariant, with bailouts, fibers and any ini_set. *)
THEOREM TreeInvariant == Spec => [](TypeOK /\ TreeInv)
  <1>1. Init => TreeInv
    BY DEF Init, TreeInv, OpenSpans, OpenDistinct, RootOpen, Inactive, Idle, RootFinished,
           OneTree, TraceOfOwnRequest, ZeroContext
  <1>2. TypeOK /\ TreeInv /\ [Next]_vars => TreeInv'
    BY TreeStep
  <1> QED BY <1>1, <1>2, TypeCorrect, PTL DEF Spec

(* The spans a request emits form one tree in one trace: ids are given out   *)
(* once by span_counter, only HTTP_IN has no parent (lumbre_span.c:84-95).   *)
THEOREM TreeCorrect == Spec => []OneTree
  <1>1. TreeInv => OneTree
    BY DEF TreeInv
  <1> QED BY <1>1, TreeInvariant, PTL

(* No span carries the trace id of an earlier request of its worker, though  *)
(* the context lives across requests (lumbre_span.c:47-53 and 69).           *)
THEOREM TraceCorrect == Spec => []TraceOfOwnRequest
  <1>1. TreeInv => TraceOfOwnRequest
    BY DEF TreeInv
  <1> QED BY <1>1, TreeInvariant, PTL

(* A request RINIT did not trace emits nothing, whatever its script sets     *)
(* (php_lumbre.c:399, 585 and 705).                                          *)
THEOREM SilenceCorrect == Spec => []UntracedIsSilent
  <1>1. TreeInv => UntracedIsSilent
    BY DEF TreeInv, UntracedIsSilent, OpenSpans, RootOpen
  <1> QED BY <1>1, TreeInvariant, PTL

(* RSHUTDOWN finishes the root of a traced request once and never filters it, *)
(* also after a bailout or with lumbre.enabled off (php_lumbre.c:399-411).    *)
THEOREM RootCorrect == Spec => []RootOnce
  <1>1. ASSUME TreeInv PROVE RootOnce
    <2> DEFINE roots == {a \in finished : a.span.type = "HTTP_IN"}
    <2>1. CASE request.traced /\ phase = "idle"
      <3>1. PICK r \in finished : /\ r.span.type = "HTTP_IN" /\ r.fate # "filtered"
                                 /\ \A a \in finished : a.span.type = "HTTP_IN" => a = r
        BY <1>1, <2>1 DEF TreeInv, RootFinished
      <3>2. roots = {r}
        BY <3>1
      <3>3. Cardinality(roots) = 1
        BY <3>2, FS_Singleton
      <3> QED BY <2>1, <3>1, <3>2, <3>3 DEF RootOnce
    <2>2. CASE ~(request.traced /\ phase = "idle")
      <3>1. ctx.active \/ ~request.traced
        BY <1>1, <2>2 DEF TreeInv, Inactive
      <3>2. roots = {}
        BY <1>1, <3>1 DEF TreeInv, RootOpen
      <3>3. Cardinality(roots) = 0
        BY <3>2, FS_EmptySet
      <3> QED BY <2>2, <3>2, <3>3 DEF RootOnce
    <2> QED BY <2>1, <2>2
  <1> QED BY <1>1, TreeInvariant, PTL

-----------------------------------------------------------------------------
(* Without a bailout every span is finished: the invariant IdsKnown. *)

(* The frames that were there when a hook is entered stay. *)
LEMMA PushKeeps ==
  ASSUME TypeOK, NEW frame \in Span, Push(frame)
  PROVE  /\ \A f \in Fiber : \A i \in DOMAIN stack[f] :
              i \in DOMAIN stack'[f] /\ stack'[f][i] = stack[f][i]
         /\ \E i \in DOMAIN stack'[running] : stack'[running][i] = frame
         /\ running \in Fiber
  <1>1. stack \in [Fiber -> Seq(Span)] /\ running \in Fiber
    BY DEF TypeOK
  <1>2. ASSUME NEW f \in Fiber, NEW i \in DOMAIN stack[f]
        PROVE  i \in DOMAIN stack'[f] /\ stack'[f][i] = stack[f][i]
    <2>1. stack[f] \in Seq(Span)
      BY <1>1
    <2>2. CASE f = running
      <3>1. stack'[f] = Append(stack[f], frame)
        BY <1>1, <2>2 DEF Push
      <3> QED BY <2>1, <3>1
    <2>3. CASE f # running
      BY <1>1, <2>3 DEF Push
    <2> QED BY <2>2, <2>3
  <1>3. \E i \in DOMAIN stack'[running] : stack'[running][i] = frame
    <2>1. stack[running] \in Seq(Span) /\ stack'[running] = Append(stack[running], frame)
      BY <1>1 DEF Push
    <2>2. /\ Len(stack[running]) + 1 \in DOMAIN stack'[running]
          /\ stack'[running][Len(stack[running]) + 1] = frame
      BY <2>1
    <2> QED BY <2>2
  <1> QED BY <1>1, <1>2, <1>3

(* The frames that were there when a hook returns stay, but for its own. *)
LEMMA PopKeeps ==
  ASSUME TypeOK, Pop
  PROVE  \A f \in Fiber : \A i \in DOMAIN stack[f] :
           \/ i \in DOMAIN stack'[f] /\ stack'[f][i] = stack[f][i]
           \/ stack[f][i] = Top
  <1> SUFFICES ASSUME NEW f \in Fiber, NEW i \in DOMAIN stack[f], stack[f][i] # Top
               PROVE  i \in DOMAIN stack'[f] /\ stack'[f][i] = stack[f][i]
    OBVIOUS
  <1>1. /\ stack \in [Fiber -> Seq(Span)] /\ stack[f] \in Seq(Span)
        /\ Frames = stack[running] /\ Top = stack[running][Len(Frames)]
    BY DEF TypeOK, Frames, Top
  <1>2. CASE f = running
    <2>1. stack'[f] = SubSeq(stack[f], 1, Len(stack[f]) - 1)
      BY <1>1, <1>2 DEF Pop
    <2>2. i \in 1..Len(stack[f]) /\ i # Len(stack[f]) /\ Len(stack[f]) \in Nat
      BY <1>1, <1>2
    <2>3. i \in 1..(Len(stack[f]) - 1)
      BY <2>2
    <2> QED BY <1>1, <2>1, <2>2, <2>3
  <1>3. CASE f # running
    BY <1>1, <1>3 DEF Pop
  <1> QED BY <1>2, <1>3

(* Every step but a bailout keeps the ids known. *)
LEMMA IdsKnownStep ==
  ASSUME TypeOK, TreeInv, IdsKnown, [Next]_vars, ~Bailouts
  PROVE  IdsKnown'
  <1>1. CASE \E header \in TraceId \cup {NoHeader} : RinitDisabled(header) \/ RinitRingFails(header)
    BY <1>1 DEF RinitDisabled, RinitRingFails, RequestIs, IdsKnown
  <1>2. ASSUME NEW header \in TraceId \cup {NoHeader}, NEW random \in BOOLEAN,
               NEW trigger \in BOOLEAN, Rinit(header, random, trigger)
        PROVE  IdsKnown'
    <2>1. PICK c : /\ c = [ContextInit(ctx, header, random) EXCEPT !.full_trace = trigger]
                   /\ root_span' = NewSpan(c, "HTTP_IN", "request")
                   /\ ctx' = [SpanStarted(c) EXCEPT !.root_span_id = root_span'.span_id]
      BY <1>2 DEF Rinit
    <2>2. c.span_counter = 1
      BY <2>1 DEF ContextInit
    <2>3. ctx'.active = TRUE /\ ctx'.span_counter = 2 /\ root_span'.span_id = 1
      BY <2>1, <2>2 DEF SpanStarted, ContextInit, NewSpan
    <2>4. \A id \in 1..(ctx'.span_counter - 1) : id = 1
      BY <2>3
    <2> QED BY <2>3, <2>4 DEF IdsKnown, Known
  <1>3. ASSUME NEW type \in {"IO", "FUNC"}, NEW f \in IoCall \cup FuncCall, Call(type, f)
        PROVE  IdsKnown'
    <2>1. PICK s : s = NewSpan(ctx, type, f)
      OBVIOUS
    <2>2. s \in Span /\ s.span_id = ctx.span_counter /\ Push(s)
      BY <1>3, <2>1, NewSpanTyped DEF TypeOK, Context, Name, NewSpan, Call
    <2>3. /\ ctx.span_counter \in Nat /\ ctx'.span_counter = ctx.span_counter + 1
          /\ ctx'.active = ctx.active
          /\ UNCHANGED <<root_span, finished, request>>
      BY <1>3 DEF Call, Push, SpanStarted, TypeOK
    <2>4. ASSUME request'.traced, NEW id \in 1..(ctx'.span_counter - 1)
          PROVE  Known(id)'
      <3>1. CASE id = ctx.span_counter
        <4>1. \E i \in DOMAIN stack'[running] : stack'[running][i].span_id = id
          BY <2>2, <3>1, PushKeeps
        <4>2. running \in Fiber
          BY DEF TypeOK
        <4> QED BY <4>1, <4>2 DEF Known
      <3>2. CASE id # ctx.span_counter
        <4>1. id \in 1..(ctx.span_counter - 1)
          BY <2>3, <2>4, <3>2
        <4>2. Known(id)
          BY <2>3, <2>4, <4>1 DEF IdsKnown
        <4> QED BY <2>2, <2>3, <4>2, PushKeeps DEF Known
      <3> QED BY <3>1, <3>2
    <2> QED BY <2>4 DEF IdsKnown
  <1>4. CASE CallPassed
    <2>1. NoSpan \in Span /\ Push(NoSpan) /\ UNCHANGED <<ctx, root_span, finished, request>>
      BY <1>4 DEF NoSpan, ZeroSpan, Span, Id, CallPassed, Push
    <2> QED BY <2>1, PushKeeps DEF IdsKnown, Known
  <1>5. CASE ReturnPassed
    <2>1. Pop /\ Top.span_id = 0 /\ UNCHANGED <<ctx, root_span, finished, request>>
      BY <1>5 DEF ReturnPassed, Pop, NoSpan, ZeroSpan
    <2>2. \A id \in 1..(ctx.span_counter - 1) : id # 0
      BY DEF TypeOK
    <2> QED BY <2>1, <2>2, PopKeeps DEF IdsKnown, Known
  <1>6. CASE ReturnTraced
    <2>1. PICK fate : /\ ctx' = SpanFinished(ctx, Top, fate)
                      /\ finished' = finished \cup {Finished(Top, fate)}
      BY <1>6 DEF ReturnTraced
    <2>2. Pop /\ UNCHANGED <<root_span, request>> /\ Finished(Top, fate).span = Top
      BY <1>6 DEF ReturnTraced, Pop, Finished
    <2>3. ctx'.active = ctx.active /\ ctx'.span_counter = ctx.span_counter
      BY <2>1 DEF SpanFinished, TypeOK
    <2> QED BY <2>1, <2>2, <2>3, PopKeeps DEF IdsKnown, Known
  <1>7. CASE RshutdownInactive
    BY <1>7 DEF RshutdownInactive, EndRequest, TreeInv, Inactive, IdsKnown
  <1>8. CASE Rshutdown
    <2>1. PICK fate : /\ ctx' = ContextReset(SpanFinished(ctx, root_span, fate))
                      /\ finished' = finished \cup {Finished(root_span, fate)}
      BY <1>8 DEF Rshutdown
    <2>2. UNCHANGED <<root_span, stack, request>> /\ Finished(root_span, fate).span = root_span
      BY <1>8 DEF Rshutdown, EndRequest, Finished
    <2>3. ctx'.span_counter = ctx.span_counter
      BY <2>1 DEF ContextReset, SpanFinished, TypeOK
    <2> QED BY <2>1, <2>2, <2>3 DEF IdsKnown, Known
  <1>9. ASSUME \/ Tick \/ EndScript \/ \E f \in Fiber : Switch(f)
               \/ \E b \in BOOLEAN : IniSetEnabled(b)
               \/ \E n \in MinDurations : IniSetMinDuration(n)
               \/ UNCHANGED vars
        PROVE  IdsKnown'
    <2>1. UNCHANGED <<ctx, root_span, stack, finished, request>>
      BY <1>9 DEF Tick, EndScript, Switch, IniSetEnabled, IniSetMinDuration,
                  vars, globals, engine
    <2> QED BY <2>1 DEF IdsKnown, Known
  <1>10. ~Bailout
    BY DEF Bailout
  <1> QED BY <1>1, <1>2, <1>3, <1>4, <1>5, <1>6, <1>7, <1>8, <1>9, <1>10
          DEF Next, CallIo, CallFunc

(* IdsKnown is an invariant of a worker without bailouts. *)
THEOREM IdsKnownInvariant ==
  ASSUME ~Bailouts
  PROVE  Spec => []IdsKnown
  <1>1. Init => IdsKnown
    BY DEF Init, IdsKnown
  <1>2. TypeOK /\ TreeInv /\ IdsKnown /\ [Next]_vars => IdsKnown'
    BY IdsKnownStep
  <1> QED BY <1>1, <1>2, TreeInvariant, PTL DEF Spec

(* After a request the known ids are those of its finished spans.            *)
LEMMA IdleIds ==
  ASSUME TypeOK, TreeInv, IdsKnown, phase = "idle", request.traced
  PROVE  1..(ctx.span_counter - 1) = {a.span.span_id : a \in finished}
  <1>1. ASSUME NEW id \in 1..(ctx.span_counter - 1)
        PROVE  \E a \in finished : a.span.span_id = id
    BY <1>1 DEF TreeInv, Idle, IdsKnown, Known
  <1>2. ASSUME NEW a \in finished
        PROVE  a.span.span_id \in 1..(ctx.span_counter - 1)
    <2>1. /\ a.span.parent_id < a.span.span_id /\ a.span.span_id < ctx.span_counter
          /\ a.span.span_id \in Nat /\ a.span \in Span /\ ctx.span_counter \in Nat
      BY SpanTyped DEF TypeOK, TreeInv, OneTree
    <2>2. a.span.parent_id \in Nat
      BY <2>1 DEF Span
    <2> QED BY <2>1, <2>2
  <1> QED BY <1>1, <1>2

(* After a request every span but the root has a finished parent.            *)
LEMMA IdleOrphans ==
  ASSUME TypeOK, TreeInv, IdsKnown
  PROVE  NoOrphans
  <1> SUFFICES ASSUME phase = "idle", NEW a \in finished, a.span.type # "HTTP_IN"
               PROVE  \E b \in finished : Parent(a, b)
    BY DEF NoOrphans
  <1>1. request.traced
    BY DEF TypeOK, TreeInv
  <1>2. a.span.parent_id \in 1..(ctx.span_counter - 1)
    <2>1. /\ a.span.parent_id < a.span.span_id /\ a.span.span_id < ctx.span_counter
          /\ a.span.parent_id # 0
          /\ a.span.span_id \in Nat /\ a.span \in Span /\ ctx.span_counter \in Nat
      BY SpanTyped DEF TypeOK, TreeInv, OneTree
    <2>2. a.span.parent_id \in Nat
      BY <2>1 DEF Span
    <2> QED BY <2>1, <2>2
  <1> QED BY <1>1, <1>2, IdleIds DEF Parent

(* Without a bailout every finished span but the root has a finished parent  *)
(* when the request is over, whichever fibers the two were made in           *)
(* (lumbre_span.c:85-90 and 222, php_lumbre.c:404).                          *)
THEOREM NoOrphansCorrect ==
  ASSUME ~Bailouts
  PROVE  Spec => []NoOrphans
  <1>1. TypeOK /\ TreeInv /\ IdsKnown => NoOrphans
    BY IdleOrphans
  <1> QED BY <1>1, TreeInvariant, IdsKnownInvariant, PTL

-----------------------------------------------------------------------------
(* One C stack and no bailout: current_parent_id follows the stack. *)

Parents == ParentsBelow /\ ParentIsInnermost

(* The only stack is the main one. *)
LEMMA MainStack ==
  ASSUME OneStack, TypeOK
  PROVE  running = Main /\ Frames = stack[Main] /\ stack[Main] \in Seq(Span) /\ Main \in Fiber
  BY DEF OneStack, TypeOK, Frames

(* ... before and after a step. *)
LEMMA MainStackNext ==
  ASSUME OneStack, TypeOK'
  PROVE  /\ running' = Main /\ Frames' = stack'[Main] /\ stack'[Main] \in Seq(Span)
         /\ Main \in Fiber
  BY DEF OneStack, TypeOK, Frames

(* Innermost looks at the first i frames only. *)
LEMMA InnermostAgree ==
  ASSUME NEW s, NEW t, NEW i \in Int, NEW id, \A k \in 1..i : t[k] = s[k], Innermost(s, i, id)
  PROVE  Innermost(t, i, id)
  <1>1. CASE id = root_span.span_id /\ \A k \in 1..i : s[k] = NoSpan
    BY <1>1 DEF Innermost
  <1>2. ASSUME NEW j \in 1..i, s[j] # NoSpan, s[j].span_id = id,
               \A k \in (j + 1)..i : s[k] = NoSpan
        PROVE  Innermost(t, i, id)
    <2>1. \A k \in (j + 1)..i : k \in 1..i
      BY <1>2
    <2> QED BY <1>2, <2>1 DEF Innermost
  <1> QED BY <1>1, <1>2 DEF Innermost

(* Steps that leave stack, context and root alone. *)
LEMMA QuietParents ==
  ASSUME OneStack, TypeOK, TypeOK', Parents, UNCHANGED <<stack, ctx, root_span>>
  PROVE  Parents'
  <1>1. running' = running
    BY MainStack, MainStackNext DEF OneStack, TypeOK
  <1> QED BY <1>1 DEF Parents, ParentsBelow, ParentIsInnermost, Innermost, Frames

(* Between requests no frame is left. *)
LEMMA IdleParents ==
  ASSUME OneStack, TypeOK', ~ctx'.active, stack'[Main] = << >>
  PROVE  Parents'
  BY DEF Parents, ParentsBelow, ParentIsInnermost

(* RINIT makes the root the current parent of an empty stack. *)
LEMMA RinitParents ==
  ASSUME OneStack, TypeOK, TreeInv, TypeOK', TreeInv',
         NEW header \in TraceId \cup {NoHeader}, NEW random \in BOOLEAN,
         NEW trigger \in BOOLEAN, Rinit(header, random, trigger)
  PROVE  Parents'
  <1>1. stack'[Main] = << >> /\ running' = Main
    BY MainStack DEF Rinit, BeginRequest, TreeInv, Idle
  <1>2. PICK c : /\ c = [ContextInit(ctx, header, random) EXCEPT !.full_trace = trigger]
                 /\ root_span' = NewSpan(c, "HTTP_IN", "request")
                 /\ ctx' = [SpanStarted(c) EXCEPT !.root_span_id = root_span'.span_id]
    BY DEF Rinit
  <1>3. c.span_counter = 1
    BY <1>2 DEF ContextInit
  <1>4. ctx'.current_parent_id = root_span'.span_id
    BY <1>2, <1>3 DEF SpanStarted, NewSpan, ContextInit
  <1>5. Len(stack'[Main]) = 0 /\ DOMAIN stack'[Main] = {}
    BY <1>1
  <1> QED BY <1>1, <1>4, <1>5 DEF Parents, ParentsBelow, ParentIsInnermost, Innermost, Frames

(* The frames of the one stack, after a push and after a pop. *)
LEMMA PushMain ==
  ASSUME OneStack, TypeOK, NEW frame \in Span, Push(frame)
  PROVE  /\ stack'[Main] = Append(stack[Main], frame)
         /\ Len(stack'[Main]) = Len(stack[Main]) + 1 /\ Len(stack[Main]) \in Nat
         /\ stack'[Main][Len(stack[Main]) + 1] = frame
         /\ \A k \in 1..Len(stack[Main]) : stack'[Main][k] = stack[Main][k]
  <1>1. stack'[Main] = Append(stack[Main], frame)
    BY MainStack DEF Push, TypeOK
  <1> QED BY <1>1, MainStack

(* On the only stack, a Pop takes the top frame off and keeps the others. *)
LEMMA PopMain ==
  ASSUME OneStack, TypeOK, Pop
  PROVE  /\ Len(stack[Main]) \in Nat \ {0} /\ Top = stack[Main][Len(stack[Main])]
         /\ Len(stack'[Main]) = Len(stack[Main]) - 1
         /\ \A k \in 1..(Len(stack[Main]) - 1) : stack'[Main][k] = stack[Main][k]
  <1>1. stack'[Main] = SubSeq(stack[Main], 1, Len(stack[Main]) - 1)
    BY MainStack DEF Pop, TypeOK
  <1>2. stack[Main] # << >>
    BY MainStack DEF Pop
  <1>3. Len(stack[Main]) \in Nat \ {0}
    BY <1>2, MainStack
  <1> QED BY <1>1, <1>3, MainStack DEF Top

(* A span that starts has the innermost one for parent, and becomes it. *)
LEMMA CallParents ==
  ASSUME OneStack, TypeOK, TreeInv, TypeOK', Parents,
         NEW type \in {"IO", "FUNC"}, NEW name \in IoCall \cup FuncCall, Call(type, name)
  PROVE  Parents'
  <1> DEFINE s == NewSpan(ctx, type, name)
             n == Len(stack[Main])
  <1>1. ctx.active /\ root_span' = root_span
    BY DEF Call, Push, Tracing
  <1>2. s \in Span /\ s.span_id = ctx.span_counter /\ s.parent_id = ctx.current_parent_id
    BY NewSpanTyped DEF TypeOK, Context, Name, NewSpan
  <1>3. ctx'.current_parent_id = ctx.span_counter
    BY DEF Call, SpanStarted, TypeOK
  <1>4. /\ Len(stack'[Main]) = n + 1 /\ n \in Nat
        /\ stack'[Main][n + 1] = s /\ \A k \in 1..n : stack'[Main][k] = stack[Main][k]
    BY <1>2, PushMain DEF Call
  <1>5. s # NoSpan
    <2>1. s.span_id # 0
      BY <1>1, <1>2 DEF TreeInv, RootOpen, TypeOK
    <2> QED BY <2>1 DEF NoSpan, ZeroSpan
  <1>6. Innermost(stack[Main], n, ctx.current_parent_id)
    BY <1>1, MainStack DEF Parents, ParentIsInnermost
  <1> HIDE DEF s, n
  <1>7. ParentsBelow'
    <2> SUFFICES ASSUME NEW i \in DOMAIN stack'[Main], stack'[Main][i] # NoSpan
                 PROVE  Innermost(stack[Main], i - 1, stack[Main][i].parent_id)'
      BY DEF ParentsBelow
    <2>1. i \in 1..(n + 1)
      BY <1>4, MainStackNext
    <2>2. CASE i = n + 1
      <3>1. Innermost(stack'[Main], n, s.parent_id)
        BY <1>2, <1>4, <1>6, InnermostAgree
      <3>2. i - 1 = n
        BY <1>4, <2>2
      <3> QED BY <1>1, <1>4, <2>2, <3>1, <3>2 DEF Innermost
    <2>3. CASE i \in 1..n
      <3>1. i \in DOMAIN stack[Main] /\ stack'[Main][i] = stack[Main][i]
        BY <1>4, <2>3, MainStack DEF n
      <3>2. Innermost(stack[Main], i - 1, stack[Main][i].parent_id)
        BY <3>1 DEF Parents, ParentsBelow
      <3>3. \A k \in 1..(i - 1) : stack'[Main][k] = stack[Main][k]
        BY <1>4, <2>3
      <3>4. Innermost(stack'[Main], i - 1, stack'[Main][i].parent_id)
        BY <1>4, <2>3, <3>1, <3>2, <3>3, InnermostAgree
      <3> QED BY <1>1, <3>4 DEF Innermost
    <2> QED BY <1>4, <2>1, <2>2, <2>3
  <1>8. ParentIsInnermost'
    <2>1. n + 1 \in 1..(n + 1) /\ \A k \in ((n + 1) + 1)..(n + 1) : FALSE
      BY <1>4
    <2>2. Innermost(stack'[Main], n + 1, s.span_id)
      BY <1>4, <1>5, <2>1 DEF Innermost
    <2> QED BY <1>1, <1>2, <1>3, <1>4, <2>2, MainStackNext DEF ParentIsInnermost, Innermost
  <1> QED BY <1>7, <1>8 DEF Parents

(* A call that is not traced leaves the innermost span where it is. *)
LEMMA CallPassedParents ==
  ASSUME OneStack, TypeOK, TypeOK', Parents, CallPassed
  PROVE  Parents'
  <1> DEFINE n == Len(stack[Main])
  <1>1. root_span' = root_span /\ ctx' = ctx
    BY DEF CallPassed, Push
  <1>2. NoSpan \in Span
    BY DEF NoSpan, ZeroSpan, Span, Id
  <1>3. /\ Len(stack'[Main]) = n + 1 /\ n \in Nat
        /\ stack'[Main][n + 1] = NoSpan /\ \A k \in 1..n : stack'[Main][k] = stack[Main][k]
    BY <1>2, PushMain DEF CallPassed
  <1> HIDE DEF n
  <1>4. ParentsBelow'
    <2> SUFFICES ASSUME NEW i \in DOMAIN stack'[Main], stack'[Main][i] # NoSpan
                 PROVE  Innermost(stack[Main], i - 1, stack[Main][i].parent_id)'
      BY DEF ParentsBelow
    <2>1. i \in 1..n
      BY <1>3, MainStackNext
    <2>2. i \in DOMAIN stack[Main] /\ stack'[Main][i] = stack[Main][i]
      BY <1>3, <2>1, MainStack DEF n
    <2>3. Innermost(stack[Main], i - 1, stack[Main][i].parent_id)
      BY <2>2 DEF Parents, ParentsBelow
    <2>4. \A k \in 1..(i - 1) : stack'[Main][k] = stack[Main][k]
      BY <1>3, <2>1
    <2>5. Innermost(stack'[Main], i - 1, stack'[Main][i].parent_id)
      BY <1>3, <2>1, <2>2, <2>3, <2>4, InnermostAgree
    <2> QED BY <1>1, <2>5 DEF Innermost
  <1>5. ASSUME ctx.active
        PROVE  Innermost(stack'[Main], n + 1, ctx.current_parent_id)
    <2>1. Innermost(stack[Main], n, ctx.current_parent_id)
      BY <1>5, MainStack DEF Parents, ParentIsInnermost, n
    <2>2. Innermost(stack'[Main], n, ctx.current_parent_id)
      BY <1>3, <2>1, InnermostAgree
    <2> QED BY <1>3, <2>2 DEF Innermost
  <1>6. ParentIsInnermost'
    BY <1>1, <1>3, <1>5, MainStackNext DEF ParentIsInnermost, Innermost
  <1> QED BY <1>4, <1>6 DEF Parents

(* A frame below the top one keeps its parent when the top one returns. *)
LEMMA PopParents ==
  ASSUME OneStack, TypeOK, TypeOK', Parents, Pop, NEW id,
         ctx'.active => ctx.active, ctx'.current_parent_id = id,
         ctx.active => Innermost(stack[Main], Len(stack[Main]) - 1, id)
  PROVE  Parents'
  <1> DEFINE n == Len(stack[Main])
  <1>1. root_span' = root_span
    BY DEF Pop
  <1>2. /\ Len(stack'[Main]) = n - 1 /\ n \in Nat \ {0}
        /\ \A k \in 1..(n - 1) : stack'[Main][k] = stack[Main][k]
    BY PopMain
  <1> HIDE DEF n
  <1>3. ParentsBelow'
    <2> SUFFICES ASSUME NEW i \in DOMAIN stack'[Main], stack'[Main][i] # NoSpan
                 PROVE  Innermost(stack[Main], i - 1, stack[Main][i].parent_id)'
      BY DEF ParentsBelow
    <2>1. i \in 1..(n - 1)
      BY <1>2, MainStackNext
    <2>2. i \in DOMAIN stack[Main] /\ stack'[Main][i] = stack[Main][i]
      BY <1>2, <2>1, MainStack DEF n
    <2>3. Innermost(stack[Main], i - 1, stack[Main][i].parent_id)
      BY <2>2 DEF Parents, ParentsBelow
    <2>4. \A k \in 1..(i - 1) : stack'[Main][k] = stack[Main][k]
      BY <1>2, <2>1
    <2>5. Innermost(stack'[Main], i - 1, stack'[Main][i].parent_id)
      BY <1>2, <2>1, <2>2, <2>3, <2>4, InnermostAgree
    <2> QED BY <1>1, <2>5 DEF Innermost
  <1>4. ASSUME ctx.active
        PROVE  Innermost(stack'[Main], n - 1, id)
    BY <1>2, <1>4, InnermostAgree DEF n
  <1>5. ParentIsInnermost'
    BY <1>1, <1>2, <1>4, MainStackNext DEF ParentIsInnermost, Innermost
  <1> QED BY <1>3, <1>5 DEF Parents

(* A span that finishes hands over to its parent; a call that was not traced *)
(* has nothing to hand over.                                                 *)
LEMMA ReturnParents ==
  ASSUME OneStack, TypeOK, TreeInv, TypeOK', Parents, ReturnTraced \/ ReturnPassed
  PROVE  Parents'
  <1> DEFINE n == Len(stack[Main])
  <1>1. n \in Nat \ {0} /\ Top = stack[Main][n] /\ n \in DOMAIN stack[Main] /\ Pop
    BY PopMain, MainStack DEF ReturnTraced, ReturnPassed
  <1> HIDE DEF n
  <1>2. CASE ReturnTraced
    <2>1. ctx'.current_parent_id = Top.parent_id /\ ctx'.active = ctx.active
      BY <1>2 DEF ReturnTraced, SpanFinished, TypeOK
    <2>2. Innermost(stack[Main], n - 1, Top.parent_id)
      BY <1>1, <1>2 DEF ReturnTraced, Parents, ParentsBelow
    <2> QED BY <1>1, <2>1, <2>2, PopParents DEF n
  <1>3. CASE ReturnPassed
    <2>1. ctx' = ctx /\ Top = NoSpan
      BY <1>3 DEF ReturnPassed
    <2>2. ASSUME ctx.active
          PROVE  Innermost(stack[Main], n - 1, ctx.current_parent_id)
      <3>1. Innermost(stack[Main], n, ctx.current_parent_id)
        BY <2>2, MainStack DEF Parents, ParentIsInnermost, n
      <3>2. CASE ctx.current_parent_id = root_span.span_id
                 /\ \A k \in 1..n : stack[Main][k] = NoSpan
        BY <1>1, <3>2 DEF Innermost
      <3>3. ASSUME NEW j \in 1..n, stack[Main][j] # NoSpan,
                   stack[Main][j].span_id = ctx.current_parent_id,
                   \A k \in (j + 1)..n : stack[Main][k] = NoSpan
            PROVE  Innermost(stack[Main], n - 1, ctx.current_parent_id)
        <4>0. j # n
          BY <1>1, <2>1, <3>3
        <4>1. j \in 1..(n - 1)
          BY <1>1, <4>0
        <4>2. \A k \in (j + 1)..(n - 1) : k \in (j + 1)..n
          BY <1>1
        <4> QED BY <3>3, <4>1, <4>2 DEF Innermost
      <3> QED BY <3>1, <3>2, <3>3 DEF Innermost
    <2> QED BY <1>1, <2>1, <2>2, PopParents DEF n
  <1> QED BY <1>2, <1>3

-----------------------------------------------------------------------------
(* One C stack and no bailout: intervals nest and the filter keeps ancestors. *)

Times == LiveIntervals /\ FinishedIntervals /\ IntervalsNest

(* What TreeInv says of the open spans and of their parents. *)
LEMMA LiveFacts ==
  ASSUME OneStack, TypeOK, TreeInv
  PROVE  \A s \in Live :
           /\ s \in Span /\ ctx.active /\ s.span_id \in Nat /\ s.parent_id \in Nat
           /\ s.start_ns \in Nat
           /\ s.parent_id < s.span_id /\ s.span_id < ctx.span_counter
           /\ \A a \in finished : a.span.span_id # s.span_id
  <1> SUFFICES ASSUME NEW s \in Live
               PROVE  /\ s \in Span /\ ctx.active /\ s.span_id \in Nat /\ s.parent_id \in Nat
                      /\ s.start_ns \in Nat
                      /\ s.parent_id < s.span_id /\ s.span_id < ctx.span_counter
                      /\ \A a \in finished : a.span.span_id # s.span_id
    OBVIOUS
  <1>1. CASE ctx.active /\ s = root_span
    <2>1. /\ s.span_id = 1 /\ s.parent_id = 0 /\ ctx.current_parent_id \in Nat
          /\ ctx.span_counter \in Nat
          /\ 1 <= ctx.current_parent_id /\ ctx.current_parent_id < ctx.span_counter
      BY <1>1 DEF TreeInv, RootOpen, TypeOK
    <2>2. s \in Span /\ s.start_ns \in Nat
      BY <1>1 DEF TypeOK, Span
    <2>3. \A a \in finished : /\ a.span.parent_id \in Nat /\ a.span.span_id \in Nat
                              /\ a.span.parent_id < a.span.span_id /\ a.span.parent_id # 0
      BY <1>1, SpanTyped DEF TreeInv, OneTree, Span, RootOpen
    <2> QED BY <1>1, <2>1, <2>2, <2>3
  <1>2. CASE \E k \in DOMAIN stack[Main] : s = stack[Main][k] /\ s # NoSpan
    BY <1>2, MainStack, SpanTyped DEF TreeInv, OpenSpans
  <1> QED BY <1>1, <1>2 DEF Live

(* The current parent is an open span. *)
LEMMA CurrentIsLive ==
  ASSUME OneStack, TypeOK, Parents, ctx.active
  PROVE  \E t \in Live : t.span_id = ctx.current_parent_id
  <1>1. Innermost(stack[Main], Len(stack[Main]), ctx.current_parent_id)
    BY MainStack DEF Parents, ParentIsInnermost
  <1>2. CASE ctx.current_parent_id = root_span.span_id
    BY <1>2 DEF Live
  <1>3. ASSUME NEW j \in 1..Len(stack[Main]), stack[Main][j] # NoSpan,
               stack[Main][j].span_id = ctx.current_parent_id
        PROVE  \E t \in Live : t.span_id = ctx.current_parent_id
    <2>1. j \in DOMAIN stack[Main]
      BY MainStack
    <2> QED BY <1>3, <2>1 DEF Live
  <1> QED BY <1>1, <1>2, <1>3 DEF Innermost

(* Nothing hangs from the span on top of the stack. *)
LEMMA TopIsLeaf ==
  ASSUME OneStack, TypeOK, TreeInv, Parents, Pop, Top # NoSpan
  PROVE  /\ Top \in Live
         /\ \A s \in Live : s.parent_id # Top.span_id
  <1> DEFINE n == Len(stack[Main])
  <1>1. n \in Nat \ {0} /\ Top = stack[Main][n] /\ n \in DOMAIN stack[Main]
    BY PopMain, MainStack
  <1>2. Top \in Live
    BY <1>1 DEF Live
  <1>3. Top.span_id \in Nat /\ Top.span_id > 1 /\ ctx.active
    BY <1>1, MainStack, SpanTyped DEF TreeInv, OpenSpans
  <1>4. root_span.span_id = 1 /\ root_span.parent_id = 0
    BY <1>3 DEF TreeInv, RootOpen
  <1> HIDE DEF n
  <1>5. ASSUME NEW i \in DOMAIN stack[Main], stack[Main][i] # NoSpan,
               stack[Main][i].parent_id = Top.span_id
        PROVE  FALSE
    <2>1. Innermost(stack[Main], i - 1, stack[Main][i].parent_id)
      BY <1>5 DEF Parents, ParentsBelow
    <2>2. PICK j \in 1..(i - 1) : stack[Main][j] # NoSpan
                                 /\ stack[Main][j].span_id = Top.span_id
      BY <1>3, <1>4, <1>5, <2>1 DEF Innermost
    <2>3. i \in 1..n
      BY MainStack DEF n
    <2>4. j \in DOMAIN stack[Main] /\ j # n
      BY <1>1, <2>2, <2>3, MainStack DEF n
    <2> QED BY <1>1, <2>2, <2>4, MainStack DEF TreeInv, OpenDistinct
  <1> QED BY <1>2, <1>3, <1>4, <1>5 DEF Live

(* Steps that start and finish no span. *)
LEMMA QuietTimes ==
  ASSUME OneStack, TypeOK, TreeInv, Times, Live' \subseteq Live,
         finished' \subseteq finished, clock' \in Nat, clock' >= clock
  PROVE  Times'
  <1>1. clock \in Nat /\ \A s \in Live : s.start_ns \in Nat
    BY LiveFacts DEF TypeOK
  <1>2. \A a \in finished : a.span.start_ns \in Nat /\ a.end_ns \in Nat
    BY SpanTyped
  <1>3. LiveIntervals'
    BY <1>1 DEF Times, LiveIntervals
  <1>4. FinishedIntervals'
    BY <1>1, <1>2 DEF Times, FinishedIntervals
  <1> QED BY <1>3, <1>4 DEF Times, IntervalsNest, Parent

(* A span that starts is younger than every span there is. *)
LEMMA StartTimes ==
  ASSUME OneStack, TypeOK, TreeInv, Times, NEW s, Live' \subseteq Live \cup {s},
         finished' = finished, clock' = clock,
         s.start_ns = clock, s.span_id = ctx.span_counter, s.parent_id \in Nat,
         s.parent_id < s.span_id,
         \E t \in Live : t.span_id = s.parent_id
  PROVE  Times'
  <1>1. clock \in Nat /\ ctx.span_counter \in Nat
    BY DEF TypeOK
  <1>2. \A t \in Live : /\ t.start_ns \in Nat /\ t.span_id \in Nat /\ t.parent_id \in Nat
                        /\ t.parent_id < t.span_id /\ t.span_id < ctx.span_counter
                        /\ \A a \in finished : a.span.span_id # t.span_id
    BY LiveFacts
  <1>3. \A a \in finished : /\ a.span.span_id \in Nat /\ a.span.parent_id \in Nat
                            /\ a.span.parent_id < a.span.span_id
                            /\ a.span.span_id < ctx.span_counter
    BY SpanTyped DEF TreeInv, OneTree, Span
  <1>4. \A t \in Live : t.start_ns <= clock /\ t.parent_id # s.span_id
    BY <1>1, <1>2 DEF Times, LiveIntervals
  <1>5. \A a \in finished : a.span.parent_id # s.span_id /\ s.parent_id # a.span.span_id
    BY <1>1, <1>2, <1>3
  <1>6. LiveIntervals'
    BY <1>1, <1>4, <1>5 DEF Times, LiveIntervals
  <1> QED BY <1>6 DEF Times, FinishedIntervals, IntervalsNest, Parent

(* A span that finishes is the last of its family to do so. *)
LEMMA FinishTimes ==
  ASSUME OneStack, TypeOK, TreeInv, Times, NEW s \in Live, NEW fate,
         Live' \subseteq Live \ {s}, \A t \in Live' : t.parent_id # s.span_id,
         finished' = finished \cup {Finished(s, fate)}, clock' = clock
  PROVE  Times'
  <1> DEFINE o == Finished(s, fate)
  <1>1. o.span = s /\ o.end_ns = clock
    BY DEF Finished
  <1> HIDE DEF o
  <1>2. finished' = finished \cup {o}
    BY DEF o
  <1>3. clock \in Nat /\ s.start_ns \in Nat /\ s.span_id \in Nat /\ s.parent_id \in Nat
        /\ s.parent_id < s.span_id
    BY LiveFacts DEF TypeOK
  <1>4. \A a \in finished : a.span.start_ns \in Nat /\ a.end_ns \in Nat
    BY SpanTyped
  <1>5. LiveIntervals'
    BY <1>1, <1>2 DEF Times, LiveIntervals
  <1>6. FinishedIntervals'
    BY <1>1, <1>2, <1>3 DEF Times, FinishedIntervals, LiveIntervals
  <1>7. IntervalsNest'
    <2>1. \A a \in finished : a.span.parent_id = s.span_id =>
            a.span.start_ns >= s.start_ns /\ a.end_ns <= clock
      BY <1>3, <1>4 DEF Times, LiveIntervals, FinishedIntervals
    <2>2. \A b \in finished : s.parent_id # b.span.span_id
      BY DEF Times, LiveIntervals
    <2>3. s.parent_id # s.span_id
      BY <1>3
    <2> QED BY <1>1, <1>2, <2>1, <2>2, <2>3 DEF Times, IntervalsNest, Parent
  <1> QED BY <1>5, <1>6, <1>7 DEF Times

(* RINIT leaves the root as the only span. *)
LEMMA RinitTimes ==
  ASSUME OneStack, TypeOK, TreeInv, TypeOK', TreeInv',
         NEW header \in TraceId \cup {NoHeader}, NEW random \in BOOLEAN,
         NEW trigger \in BOOLEAN, Rinit(header, random, trigger)
  PROVE  Times'
  <1>1. stack'[Main] = << >> /\ finished' = {} /\ clock' = clock
    BY MainStack DEF Rinit, BeginRequest, TreeInv, Idle
  <1>2. root_span'.start_ns = clock
    BY DEF Rinit, NewSpan
  <1>3. ctx'.active /\ root_span'.span_id = 1 /\ root_span'.parent_id = 0
    <2>1. ctx'.active
      BY DEF Rinit, SpanStarted, ContextInit
    <2> QED BY <2>1 DEF TreeInv, RootOpen
  <1>4. Live' = {root_span'}
    BY <1>1, <1>3 DEF Live
  <1>5. clock \in Nat
    BY DEF TypeOK
  <1> QED BY <1>1, <1>2, <1>3, <1>4, <1>5
          DEF Times, LiveIntervals, FinishedIntervals, IntervalsNest

(* A traced call starts a span below the current parent. *)
LEMMA CallTimes ==
  ASSUME OneStack, TypeOK, TreeInv, Parents, Times, NEW type \in {"IO", "FUNC"},
         NEW name \in IoCall \cup FuncCall, Call(type, name)
  PROVE  Times'
  <1> DEFINE s == NewSpan(ctx, type, name)
             n == Len(stack[Main])
  <1>1. /\ ctx.active /\ root_span' = root_span /\ finished' = finished /\ clock' = clock
        /\ ctx.span_counter \in Nat /\ ctx.current_parent_id \in Nat
        /\ ctx.current_parent_id < ctx.span_counter
    BY DEF Call, Push, Tracing, TreeInv, RootOpen, TypeOK
  <1>2. /\ s \in Span /\ s.span_id = ctx.span_counter
        /\ s.parent_id = ctx.current_parent_id /\ s.start_ns = clock
    BY NewSpanTyped DEF TypeOK, Context, Name, NewSpan
  <1>3. /\ stack'[Main] = Append(stack[Main], s) /\ Len(stack'[Main]) = n + 1 /\ n \in Nat
        /\ stack'[Main][n + 1] = s /\ \A k \in 1..n : stack'[Main][k] = stack[Main][k]
    BY <1>2, PushMain DEF Call
  <1>4. DOMAIN stack'[Main] = 1..(n + 1) /\ DOMAIN stack[Main] = 1..n
    BY <1>2, <1>3, MainStack
  <1> HIDE DEF s, n
  <1>5. Live' \subseteq Live \cup {s}
    <2>1. \A k \in 1..(n + 1) : k \in 1..n \/ k = n + 1
      BY <1>3
    <2> QED BY <1>1, <1>3, <1>4, <2>1 DEF Live
  <1>6. \E t \in Live : t.span_id = s.parent_id
    BY <1>1, <1>2, CurrentIsLive
  <1> QED BY <1>1, <1>2, <1>5, <1>6, StartTimes

(* A traced call that returns finishes the top span. *)
LEMMA ReturnTimes ==
  ASSUME OneStack, TypeOK, TreeInv, Parents, Times, TypeOK', TreeInv', ReturnTraced
  PROVE  Times'
  <1>1. Pop /\ Top # NoSpan /\ clock' = clock /\ root_span' = root_span
    BY DEF ReturnTraced, Pop
  <1>2. PICK fate : /\ finished' = finished \cup {Finished(Top, fate)}
                    /\ ctx' = SpanFinished(ctx, Top, fate)
    BY DEF ReturnTraced
  <1>3. Top \in Live /\ \A s \in Live : s.parent_id # Top.span_id
    BY <1>1, TopIsLeaf
  <1>4. ctx'.active = ctx.active
    BY <1>2 DEF SpanFinished, TypeOK
  <1>5. /\ Main \in Fiber
        /\ \A i \in DOMAIN stack'[Main] :
             i \in DOMAIN stack[Main] /\ stack'[Main][i] = stack[Main][i]
    BY <1>1, PopFrames, MainStack
  <1>6. Live' \subseteq Live
    BY <1>1, <1>4, <1>5 DEF Live
  <1>7. Top \notin Live'
    <2>1. \A t \in Live' : \A a \in finished' : a.span.span_id # t.span_id
      <3>1. CASE ctx'.active
        <4>1. \A a \in finished' : a.span.span_id # 1
          <5>1. \A a \in finished : a.span.span_id # 1
            BY <1>4, <3>1, LiveFacts DEF Live, TreeInv, RootOpen
          <5>2. Top.span_id # 1
            <6>1. Top.parent_id # 0 /\ Top.parent_id \in Nat /\ Top.parent_id < Top.span_id
                  /\ Top.span_id \in Nat
              BY <1>1, <1>3, LiveFacts, PopMain, MainStack DEF TreeInv, OpenSpans
            <6> QED BY <6>1
          <5> QED BY <1>2, <5>1, <5>2 DEF Finished
        <4>2. root_span'.span_id = 1
          BY <3>1 DEF TreeInv, RootOpen
        <4> QED BY <3>1, <4>1, <4>2, <1>5 DEF Live, TreeInv, OpenSpans
      <3>2. CASE ~ctx'.active
        BY <3>2, <1>5 DEF Live, TreeInv, OpenSpans
      <3> QED BY <3>1, <3>2
    <2>2. Finished(Top, fate) \in finished' /\ Finished(Top, fate).span = Top
      BY <1>2 DEF Finished
    <2> QED BY <2>1, <2>2
  <1> QED BY <1>1, <1>2, <1>3, <1>6, <1>7, FinishTimes

(* RSHUTDOWN finishes the root, the last open span. *)
LEMMA RshutdownTimes ==
  ASSUME OneStack, TypeOK, TreeInv, Times, Rshutdown
  PROVE  Times'
  <1>1. /\ ctx.active /\ clock' = clock /\ stack'[Main] = << >>
    BY MainStack DEF Rshutdown, EndRequest
  <1>2. PICK fate : /\ finished' = finished \cup {Finished(root_span, fate)}
                    /\ ctx' = ContextReset(SpanFinished(ctx, root_span, fate))
    BY DEF Rshutdown
  <1>3. ~ctx'.active
    BY <1>2 DEF ContextReset, SpanFinished, TypeOK
  <1>4. root_span \in Live /\ Live' = {}
    BY <1>1, <1>3 DEF Live
  <1> QED BY <1>1, <1>2, <1>4, FinishTimes

(* A step decides the fate of a span by the threshold in force. *)
LEMMA FilterStep ==
  ASSUME TypeOK, TreeInv, FilterIsThreshold, [Next]_vars, ~Bailouts
  PROVE  FilterIsThreshold'
  <1> SUFFICES ASSUME "min_duration_ns" \notin modified'
               PROVE  /\ min_duration_ns' = MinDuration
                      /\ InRequest' =>
                           \A a \in finished' :
                             LET min == AsUnsigned(MinDuration)
                             IN a.fate = "filtered" <=>
                                  min > 0 /\ a.end_ns - a.span.start_ns < min
    BY DEF FilterIsThreshold
  <1>1. CASE \E header \in TraceId \cup {NoHeader} :
               \/ RinitDisabled(header) \/ RinitRingFails(header)
               \/ \E random, trigger \in BOOLEAN : Rinit(header, random, trigger)
    BY <1>1 DEF FilterIsThreshold, RinitDisabled, RinitRingFails, Rinit, BeginRequest, globals
  <1>2. CASE ReturnTraced
    <2>1. PICK fate \in Fate(Top, AsUnsigned(min_duration_ns)) :
            finished' = finished \cup {Finished(Top, fate)}
      BY <1>2 DEF ReturnTraced
    <2>2. Top.type # "HTTP_IN"
      BY <1>2, PopFrames DEF ReturnTraced, TreeInv, OpenSpans
    <2>3. /\ min_duration_ns' = MinDuration /\ min_duration_ns = MinDuration
          /\ InRequest /\ modified' = modified
      BY <1>2 DEF ReturnTraced, Pop, FilterIsThreshold
    <2>4. fate = "filtered" <=> /\ AsUnsigned(MinDuration) > 0
                                /\ clock - Top.start_ns < AsUnsigned(MinDuration)
      BY <2>1, <2>2, <2>3 DEF Fate, Filtered
    <2>5. /\ Finished(Top, fate).fate = fate /\ Finished(Top, fate).span = Top
          /\ Finished(Top, fate).end_ns = clock
      BY DEF Finished
    <2> QED BY <2>1, <2>3, <2>4, <2>5 DEF FilterIsThreshold
  <1>3. CASE RshutdownInactive \/ Rshutdown
    BY <1>3 DEF FilterIsThreshold, RshutdownInactive, Rshutdown, EndRequest, InRequest
  <1>4. CASE UNCHANGED <<min_duration_ns, finished, modified>> /\ (InRequest' => InRequest)
    BY <1>4 DEF FilterIsThreshold
  <1>5. ASSUME NEW b \in BOOLEAN, IniSetEnabled(b)
        PROVE  /\ UNCHANGED <<min_duration_ns, finished, phase>>
               /\ "min_duration_ns" \notin modified
    BY <1>5 DEF IniSetEnabled
  <1>6. ASSUME NEW b \in BOOLEAN, IniSetEnabled(b)
        PROVE  /\ min_duration_ns' = MinDuration
               /\ InRequest' =>
                    \A a \in finished' :
                      LET min == AsUnsigned(MinDuration)
                      IN a.fate = "filtered" <=>
                           min > 0 /\ a.end_ns - a.span.start_ns < min
    BY <1>5, <1>6 DEF FilterIsThreshold, InRequest
  <1>7. ASSUME NEW n \in MinDurations, IniSetMinDuration(n)
        PROVE  FALSE
    BY <1>7 DEF IniSetMinDuration
  <1>8. ASSUME \/ CallPassed \/ ReturnPassed \/ Tick \/ EndScript
               \/ \E f \in Fiber : Switch(f)
               \/ \E type, name : Call(type, name)
               \/ UNCHANGED vars
        PROVE  UNCHANGED <<min_duration_ns, finished, modified>> /\ (InRequest' => InRequest)
    BY <1>8 DEF CallPassed, ReturnPassed, Tick, EndScript, Switch, Call, Push, Pop,
                InRequest, vars, globals, engine
  <1>9. ~Bailout
    BY DEF Bailout
  <1> QED BY <1>1, <1>2, <1>3, <1>4, <1>6, <1>7, <1>8, <1>9 DEF Next, CallIo, CallFunc

(* Every step keeps what holds of a single stack. *)
LEMMA NestStep ==
  ASSUME OneStack, TypeOK, TreeInv, NestInv, TypeOK', TreeInv', [Next]_vars
  PROVE  NestInv'
  <1>0. Parents /\ Times /\ FilterIsThreshold /\ clock \in Nat /\ clock' \in Nat
    BY DEF NestInv, Parents, Times, TypeOK
  <1>1. FilterIsThreshold'
    BY <1>0, FilterStep DEF OneStack
  <1> SUFFICES Parents' /\ Times'
    BY <1>1 DEF NestInv, Parents, Times
  <1>2. ASSUME UNCHANGED <<stack, ctx, root_span>>, finished' \subseteq finished,
               clock' >= clock
        PROVE  Parents' /\ Times'
    <2>1. Live' = Live
      BY <1>2 DEF Live
    <2> QED BY <1>0, <1>2, <2>1, QuietParents, QuietTimes
  <1>3. ASSUME NEW header, RinitDisabled(header) \/ RinitRingFails(header)
        PROVE  Parents' /\ Times'
    <2>1. UNCHANGED <<stack, ctx, root_span, clock>> /\ finished' = {}
      BY <1>3 DEF RinitDisabled, RinitRingFails, BeginRequest, globals
    <2>2. clock' >= clock
      BY <1>0, <2>1
    <2> QED BY <1>2, <2>1, <2>2
  <1>4. ASSUME NEW header \in TraceId \cup {NoHeader}, NEW random \in BOOLEAN,
               NEW trigger \in BOOLEAN, Rinit(header, random, trigger)
        PROVE  Parents' /\ Times'
    BY <1>4, RinitParents, RinitTimes
  <1>5. ASSUME NEW type \in {"IO", "FUNC"}, NEW f \in IoCall \cup FuncCall, Call(type, f)
        PROVE  Parents' /\ Times'
    BY <1>0, <1>5, CallParents, CallTimes
  <1>6. CASE CallPassed
    <2>1. NoSpan \in Span /\ UNCHANGED <<ctx, root_span, finished, clock>>
      BY <1>6 DEF NoSpan, ZeroSpan, Span, Id, CallPassed, Push
    <2>2. Live' \subseteq Live
      BY <1>6, <2>1, PushFrames, MainStack DEF Live, CallPassed
    <2> QED BY <1>0, <1>6, <2>1, <2>2, CallPassedParents, QuietTimes
  <1>7. CASE ReturnPassed
    <2>1. UNCHANGED <<ctx, root_span, finished, clock>>
      BY <1>7 DEF ReturnPassed, Pop
    <2>2. Live' \subseteq Live
      BY <1>7, <2>1, PopFrames, MainStack DEF Live, ReturnPassed
    <2> QED BY <1>0, <1>7, <2>1, <2>2, ReturnParents, QuietTimes
  <1>8. CASE ReturnTraced
    BY <1>0, <1>8, ReturnParents, ReturnTimes
  <1>9. CASE Rshutdown
    <2>1. ~ctx'.active /\ stack'[Main] = << >>
      BY <1>9, MainStack DEF Rshutdown, EndRequest, ContextReset, SpanFinished, TypeOK
    <2> QED BY <1>0, <1>9, <2>1, IdleParents, RshutdownTimes
  <1>10. CASE RshutdownInactive
    BY <1>0, <1>2, <1>10 DEF RshutdownInactive, EndRequest
  <1>11. ASSUME NEW b, IniSetEnabled(b)
         PROVE  Parents' /\ Times'
    BY <1>0, <1>2, <1>11 DEF IniSetEnabled
  <1>12. ASSUME NEW n, IniSetMinDuration(n)
         PROVE  Parents' /\ Times'
    BY <1>0, <1>2, <1>12 DEF IniSetMinDuration
  <1>13. CASE Tick
    BY <1>0, <1>2, <1>13 DEF Tick, globals
  <1>14. CASE EndScript
    BY <1>0, <1>2, <1>14 DEF EndScript, globals
  <1>15. ASSUME NEW f \in Fiber, Switch(f)
         PROVE  Parents' /\ Times'
    BY <1>0, <1>2, <1>15 DEF Switch, globals
  <1>16. CASE UNCHANGED vars
    BY <1>0, <1>2, <1>16 DEF vars, globals, engine
  <1>17. ~Bailout
    BY DEF Bailout, OneStack
  <1> QED BY <1>3, <1>4, <1>5, <1>6, <1>7, <1>8, <1>9, <1>10, <1>11, <1>12, <1>13, <1>14,
             <1>15, <1>16, <1>17 DEF Next, CallIo, CallFunc

(* NestInv is an invariant of a worker without fibers and bailouts. *)
THEOREM NestInvariant ==
  ASSUME OneStack
  PROVE  Spec => [](TypeOK /\ TreeInv /\ NestInv)
  <1>1. Init => NestInv
    BY TracerAssumption
       DEF Init, NestInv, ParentsBelow, ParentIsInnermost, LiveIntervals, FinishedIntervals,
           IntervalsNest, FilterIsThreshold, Live, ZeroContext
  <1>2. /\ TypeOK /\ TreeInv /\ NestInv /\ TypeOK' /\ TreeInv' /\ [Next]_vars
        => NestInv'
    BY NestStep
  <1> QED BY <1>1, <1>2, TreeInvariant, PTL DEF Spec

(* current_parent_id is the innermost open span at every moment, whatever    *)
(* was filtered, lost or switched off (lumbre_span.c:86-90, 216, 222).       *)
THEOREM ParentCorrect ==
  ASSUME OneStack
  PROVE  Spec => []ParentIsInnermost
  <1>1. NestInv => ParentIsInnermost
    BY DEF NestInv
  <1> QED BY <1>1, NestInvariant, PTL

(* Spans nest in time as they do in the tree (lumbre_span.c:87 and 209).     *)
THEOREM NestCorrect ==
  ASSUME OneStack
  PROVE  Spec => []IntervalsNest
  <1>1. NestInv => IntervalsNest
    BY DEF NestInv
  <1> QED BY <1>1, NestInvariant, PTL

(* min_duration_ns never cuts a kept span from its parent, as long as the    *)
(* request leaves it alone: intervals nest, so the parent lasted as long.    *)
THEOREM FilterCorrect ==
  ASSUME OneStack
  PROVE  Spec => []FilterKeepsAncestors
  <1>1. ASSUME TypeOK, NestInv
        PROVE  FilterKeepsAncestors
    <2> SUFFICES ASSUME InRequest, "min_duration_ns" \notin modified,
                        NEW a \in finished, NEW b \in finished,
                        Parent(a, b), b.fate = "filtered"
                 PROVE  a.fate = "filtered"
      BY DEF FilterKeepsAncestors
    <2> DEFINE m == AsUnsigned(MinDuration)
    <2>1. m \in Int
      BY TracerAssumption DEF AsUnsigned
    <2>2. m > 0 /\ b.end_ns - b.span.start_ns < m
      BY <1>1 DEF NestInv, FilterIsThreshold
    <2>3. a.span.start_ns >= b.span.start_ns /\ a.end_ns <= b.end_ns
      BY <1>1 DEF NestInv, IntervalsNest
    <2>4. /\ a.end_ns \in Nat /\ b.end_ns \in Nat
          /\ a.span.start_ns \in Nat /\ b.span.start_ns \in Nat
      BY <1>1, SpanTyped
    <2> HIDE DEF m
    <2>5. a.end_ns - a.span.start_ns < m
      BY <2>1, <2>2, <2>3, <2>4
    <2> QED BY <1>1, <2>2, <2>5 DEF NestInv, FilterIsThreshold, m
  <1>2. TypeOK /\ NestInv => FilterKeepsAncestors
    BY <1>1
  <1> QED BY <1>2, NestInvariant, PTL
=============================================================================
