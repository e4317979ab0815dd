----------------------------- MODULE NapiCalls -----------------------------
(***************************************************************************)
(* Exceptions and terminations across N-API: native code calls N-API, the  *)
(* call runs JS, the JS calls a native callback, which calls N-API again,  *)
(* while any thread asks the env to terminate, a script timeout makes V8   *)
(* terminate by itself, and the env's thread cancels.                      *)
(*                                                                         *)
(* Three places hold an exception: the engine (eng), N-API's pending       *)
(* exception (last) and, on QuickJS, what a callback's caller had pending, *)
(* set aside while the callback runs (out).  A termination is an exception *)
(* in any of them, and also a flag (req) and, on V8, a request V8 has not  *)
(* acted on (asked).  Which of them a step reads and which it clears is    *)
(* what this module is about.                                              *)
(***************************************************************************)
EXTENDS Integers, FiniteSets, NapiProgram

CONSTANTS Providers,   \* the providers to model: a subset of {"v8", "qjs"}
          Paths,       \* per provider, the paths its calls can take
          MaxJs,       \* bound: how many JS activations may nest
          Timeouts     \* whether script timeouts terminate V8

ASSUME CallsAssumption ==
  Providers \subseteq {"v8", "qjs"} /\ MaxJs \in Nat /\ Timeouts \in BOOLEAN

\* The steps the calls of provider p are made of.  Only V8 runs scripts under
\* a timeout and looks whether it unwinds before it throws; no call returns
\* napi_pending_exception for an exception it leaves in the engine.
StepsOf(p) ==
  {step \in StepRecords :
     /\ p = "qjs" => step.op \notin {"timed", "unless"}
     /\ step.op = "bare" => "napi_pending_exception" \notin step.st}

\* The tables of V8Calls and QuickJsCalls are such paths.
ASSUME PathsAssumption == \A p \in Providers : Paths[p] \subseteq Seq(StepsOf(p))

VARIABLES
  prov,    \* the provider
  req,     \* agent.termination_requested / env.termination_requested_
  asking,  \* a thread has set req and has yet to call TerminateExecution (V8)
  asked,   \* V8 has a request to terminate that it has not acted on
  own,     \* V8 was asked to terminate while req was not set
  eng,     \* the engine's current exception
  flow,    \* what the innermost activation gets: its callee returned or failed
  last,    \* env.last_exception, with the native frame it was raised in
  stack,   \* the activations, outermost first
  ret      \* the status of the call the native code on top just made

vars == <<prov, req, asking, asked, own, eng, flow, last, stack, ret>>

None == [k |-> "none", at |-> 0]

Top    == stack[Len(stack)]
Pop    == SubSeq(stack, 1, Len(stack) - 1)
Frames(kind) == {i \in 1..Len(stack) : stack[i].k = kind}
Natives  == Cardinality(Frames("native"))
JsActive == Frames("js") # {}
Pending(kind) == [k |-> kind, at |-> Natives]

Native(saved) == [k |-> "native", out |-> saved]
Script == [k |-> "js", stop |-> FALSE]
Calling(steps) == [k |-> "call", pc |-> steps, in |-> FALSE, timer |-> "off"]
Running(call) ==
  [k |-> "call", pc |-> call.pc, in |-> TRUE,
   timer |-> IF Head(call.pc).op = "timed" /\ Timeouts THEN "on" ELSE "off"]

\* The env as its embedder first uses it: native code, nothing pending.
Init ==
  /\ prov \in Providers
  /\ req = FALSE /\ asking = FALSE /\ asked = FALSE /\ own = FALSE
  /\ eng = "none" /\ flow = "run" /\ last = None /\ ret = "none"
  /\ stack = <<Native(None)>>

\* V8: the embedder's flag, or V8 unwinding now; QuickJS: the flag.
TerminatedOrTerminating == req \/ (prov = "v8" /\ eng = "term")

\* The class of a status the properties tell apart.
Class(s) == CASE s = "napi_ok" -> "ok"
              [] s = "napi_pending_exception" -> "pending"
              [] OTHER -> "other"

\* JS frames a native frame above them has seen stopped by a request.
MarkStopped(st) ==
  [i \in 1..Len(st) |-> IF st[i].k = "js" THEN [k |-> "js", stop |-> TRUE] ELSE st[i]]

(***************************************************************************)
(* Any thread: terminate, and V8's script timeout.                         *)
(***************************************************************************)
TerminateExecution ==
  /\ ~asking /\ (req => prov = "v8")
  /\ req' = TRUE
  /\ asking' = (prov = "v8")
  /\ UNCHANGED <<prov, asked, own, eng, flow, last, stack, ret>>

\* The second half, on V8: the isolate is asked.  A cancel may have come
\* between: then V8 terminates with no request of the embedder's standing.
IsolateTerminateExecution ==
  /\ asking
  /\ asking' = FALSE /\ asked' = TRUE /\ own' = (own \/ ~req)
  /\ UNCHANGED <<prov, req, eng, flow, last, stack, ret>>

\* The watchdog of a script that runs under a timeout, from its own thread.
TimeoutFires ==
  /\ \E i \in Frames("call") :
       /\ stack[i].timer = "on"
       /\ stack' = [stack EXCEPT ![i].timer = "fired"]
  /\ asked' = TRUE /\ own' = (own \/ ~req)
  /\ UNCHANGED <<prov, req, asking, eng, flow, last, ret>>

(***************************************************************************)
(* JS on top of the stack.                                                 *)
(***************************************************************************)
JsOnTop(f) == Top.k = "js" /\ flow = f
Quietly == UNCHANGED <<prov, asking, own, ret>>

JsReturn ==
  /\ JsOnTop("run")
  /\ stack' = Pop
  /\ Quietly /\ UNCHANGED <<req, asked, eng, flow, last>>

JsThrow ==
  /\ JsOnTop("run")
  /\ eng' = "err" /\ flow' = "unwind"
  /\ Quietly /\ UNCHANGED <<req, asked, last, stack>>

\* A stack check (V8) or an interrupt poll (QuickJS) sees the termination.
JsInterrupted ==
  /\ JsOnTop("run")
  /\ IF prov = "v8" THEN asked ELSE req
  /\ eng' = "term" /\ flow' = "unwind" /\ asked' = FALSE
  /\ Quietly /\ UNCHANGED <<req, last, stack>>

\* A catch block; none runs for a termination.
JsCatch ==
  /\ JsOnTop("unwind") /\ eng # "term"
  /\ eng' = "none" /\ flow' = "run"
  /\ Quietly /\ UNCHANGED <<req, asked, last, stack>>

JsUnwind ==
  /\ JsOnTop("unwind")
  /\ stack' = Pop
  /\ Quietly /\ UNCHANGED <<req, asked, eng, flow, last>>

(***************************************************************************)
(* A native callback: entered from JS, or directly from a call.            *)
(***************************************************************************)
\* (Mutant: the caller's pending exception is not set aside.)
invoke_callback_shared(below) ==
  IF prov = "qjs" /\ req
  THEN eng' = "term" /\ flow' = "unwind" /\ stack' = below /\ UNCHANGED last
  ELSE stack' = Append(below, Native(None)) /\ flow' = "run" /\ UNCHANGED <<eng, last>>

\* QuickJS's invoke_callback refuses while the env terminates; else it sets
\* the caller's pending exception aside (quickjs_outer_exception_scope__).
invoke_callback(below) ==
  IF prov = "qjs" /\ req
  THEN /\ eng' = "term" /\ flow' = "unwind" /\ stack' = below
       /\ UNCHANGED last
  ELSE /\ stack' = Append(below, Native(IF prov = "qjs" THEN last ELSE None))
       /\ last' = IF prov = "qjs" THEN None ELSE last
       /\ flow' = "run"
       /\ UNCHANGED eng

JsCallsNative ==
  /\ JsOnTop("run")
  /\ Natives <= MaxJs
  /\ invoke_callback(stack)
  /\ ret' = "none"
  /\ UNCHANGED <<prov, req, asking, asked, own>>

\* (Mutant: V8 is asked again, but nothing makes it act on that.)
KeepTerminatingLater == asked' = TRUE /\ UNCHANGED eng

\* KeepTerminating: asks V8 again and, with JS below, calls a no-op function
\* whose entry acts on it.
KeepTerminating ==
  IF eng = "term" \/ JsActive
  THEN eng' = "term" /\ asked' = (asked /\ eng = "term")
  ELSE asked' = TRUE /\ UNCHANGED eng

\* (Mutant: only V8's own unwinding counts as terminating.)
HandleCallbackExceptionUnflagged ==
  /\ last' = None
  /\ CASE last = None -> UNCHANGED <<eng, asked>>
       [] last # None /\ eng = "term" -> KeepTerminating
       [] OTHER -> /\ eng' = IF last.k = "term" THEN "null" ELSE "err"
                   /\ UNCHANGED asked
  /\ flow' = IF eng' = "none" THEN "run" ELSE "unwind"

\* After a native callback: V8's trampolines.
HandleCallbackException ==
  /\ last' = None
  /\ CASE ~req /\ last = None -> UNCHANGED <<eng, asked>>
       [] req \/ (last # None /\ eng = "term") -> KeepTerminating
       [] OTHER -> /\ eng' = IF last.k = "term" THEN "null" ELSE "err"
                   /\ UNCHANGED asked
  /\ flow' = IF eng' = "none" THEN "run" ELSE "unwind"

\* After a native callback: the tail of QuickJS's invoke_callback, and the
\* caller's pending exception put back.
CallbackReturned ==
  /\ last' = Top.out
  /\ eng' = CASE req -> "term" [] ~req /\ last # None -> last.k [] OTHER -> eng
  /\ flow' = IF req \/ last # None THEN "unwind" ELSE "run"
  /\ UNCHANGED asked

NativeReturns ==
  /\ Top.k = "native" /\ Len(stack) > 1
  /\ IF prov = "v8" THEN HandleCallbackException ELSE CallbackReturned
  /\ stack' = Pop
  /\ ret' = "none"
  /\ UNCHANGED <<prov, req, asking, own>>

(***************************************************************************)
(* Native code on top: it makes a call, or cancels.  A call may reject its *)
(* arguments.                                                              *)
(***************************************************************************)
NativeCalls ==
  /\ Top.k = "native"
  /\ \E p \in Paths[prov] :
       \/ /\ stack' = Append(stack, Calling(p))
          /\ ret' = "none"
       \/ ret' = "other" /\ UNCHANGED stack
  /\ UNCHANGED <<prov, req, asking, asked, own, eng, flow, last>>

\* (Mutant: the null a refused call left pending stays.)
CancelKeepsPending ==
  /\ Top.k = "native" /\ req
  /\ req' = FALSE /\ asked' = FALSE
  /\ eng' = IF eng = "term" THEN "none" ELSE eng
  /\ stack' = [i \in 1..Len(stack) |-> IF stack[i].k = "js" THEN Script ELSE stack[i]]
  /\ ret' = "ok"
  /\ UNCHANGED <<prov, asking, own, flow, last>>

\* unofficial_napi_cancel_terminate_execution: drops the termination wherever
\* it is, and no other exception.
CancelTerminateExecution ==
  /\ Top.k = "native" /\ req
  /\ req' = FALSE /\ asked' = FALSE
  /\ eng' = IF eng = "term" THEN "none" ELSE eng
  /\ last' = IF last.k = "term" THEN None ELSE last
  /\ stack' = [i \in 1..Len(stack) |->
                 IF stack[i].k = "js" THEN Script ELSE stack[i]]
  /\ ret' = "ok"
  /\ UNCHANGED <<prov, asking, own, flow>>

(***************************************************************************)
(* The steps of a call.                                                    *)
(***************************************************************************)
Step == Head(Top.pc)
AtStep(ops) == Top.k = "call" /\ ~Top.in /\ Top.pc # <<>> /\ Step.op \in ops
Others == UNCHANGED <<prov, req, asking, asked, own, flow>>

Return(s) == stack' = Pop /\ ret' = Class(s)
Continue  == stack' = Append(Pop, Calling(Tail(Top.pc))) /\ UNCHANGED ret

\* The end of the steps; the result could be one the call cannot wrap.
CallEnds ==
  /\ Top.k = "call" /\ ~Top.in /\ Top.pc = <<>>
  /\ Return("napi_ok") \/ Return("napi_generic_failure")
  /\ Others /\ UNCHANGED <<eng, last>>

\* (Mutant: the refused call leaves nothing pending.)
fail_without_pending ==
  /\ UNCHANGED <<last, eng>>
  /\ stack' = IF req THEN MarkStopped(Pop) ELSE Pop
  /\ ret' = "pending"

\* fail_terminating: the termination becomes pending unless something is.
\* QuickJS keeps a catchable one and drops what the runtime holds.
fail_if_terminating ==
  /\ last' = CASE prov = "v8" /\ last # None -> last
               [] prov = "qjs" /\ last.k = "err" -> last
               [] OTHER -> Pending("term")
  /\ eng' = IF prov = "qjs" THEN "none" ELSE eng
  /\ stack' = IF req THEN MarkStopped(Pop) ELSE Pop
  /\ ret' = "pending"

CallChecksTermination ==
  /\ AtStep({"guard"})
  /\ IF TerminatedOrTerminating THEN fail_if_terminating
     ELSE Continue /\ UNCHANGED <<eng, last>>
  /\ Others

\* Entering V8 clears its exception, a termination's too
\* (NAPI_V8_RETURN_IF_TERMINATING); QuickJS keeps what the runtime holds.
Entered == IF prov = "v8" THEN "none" ELSE eng

CallEntersV8 ==
  /\ AtStep({"enter"})
  /\ Continue
  /\ eng' = Entered
  /\ Others /\ UNCHANGED last

\* The operation fails with exception e: what the step makes of it.
\* V8 goes on unwinding with a termination its TryCatch saw while JS is below.
Kept(e) == IF prov = "v8" /\ JsActive THEN e ELSE "none"
Caught(e) == Kept(IF e = "term" THEN "term" ELSE "none")
Failed(e) ==
  CASE Step.op \in {"try", "make", "timed"} ->
         /\ last' = Pending(IF e = "term" THEN "term" ELSE "err")
         /\ eng' = Caught(e)
         /\ stack' = IF e = "term" /\ req THEN MarkStopped(Pop) ELSE Pop
         /\ ret' = "pending"
    [] Step.op = "bare" ->
         /\ eng' = Kept(e) /\ UNCHANGED last
         /\ \E s \in Step.st : Return(s)
    [] Step.op = "loose" ->
         /\ eng' = IF prov = "v8" THEN Kept(e) ELSE e
         /\ UNCHANGED last /\ Continue
    [] OTHER ->
         /\ eng' = Caught(e) /\ UNCHANGED last /\ Continue

\* The engine operation succeeds, or raises, without running JS.
CallOperates ==
  /\ AtStep(RunsJs \cup {"make"})
  /\ \/ Continue /\ eng' = Entered /\ UNCHANGED last
     \/ Failed("err")
  /\ Others

\* (Mutant: the call does not remember that it is inside its operation.)
CallRunsJsForgotten ==
  /\ AtStep(RunsJs)
  /\ Cardinality(Frames("js")) < MaxJs
  /\ stack' = Append(stack, Script)
  /\ eng' = Entered /\ flow' = "run"
  /\ Quietly /\ UNCHANGED <<req, asked, last>>

\* The operation runs user JS, or calls a native function directly.
CallRunsJs ==
  /\ AtStep(RunsJs)
  /\ Cardinality(Frames("js")) < MaxJs
  /\ stack' = Append(Append(Pop, Running(Top)), Script)
  /\ eng' = Entered /\ flow' = "run"
  /\ Quietly /\ UNCHANGED <<req, asked, last>>

CallRunsNative ==
  /\ AtStep(RunsJs \ {"timed"})
  /\ Natives <= MaxJs
  /\ IF prov = "v8"
     THEN /\ stack' = Append(Append(Pop, Running(Top)), Native(None))
          /\ eng' = "none" /\ flow' = "run" /\ UNCHANGED last
     ELSE invoke_callback(Append(Pop, Running(Top)))
  /\ ret' = "none"
  /\ UNCHANGED <<prov, req, asking, asked, own>>

\* What the operation ran is done.
CallResumes ==
  /\ Top.k = "call" /\ Top.in /\ Step.op # "timed"
  /\ IF flow = "unwind" THEN Failed(eng) ELSE Continue /\ UNCHANGED <<eng, last>>
  /\ flow' = "run"
  /\ UNCHANGED <<prov, req, asking, asked, own>>

\* The script run under a timeout is done, and its watchdog is stopped.  A
\* timeout that fired, however the script ended, is cancelled and becomes a
\* catchable error, unless the embedder has asked for a termination: that one
\* keeps unwinding.  ThrowTryCatchException reports any other failure.
TimedScriptEnds ==
  /\ Top.k = "call" /\ Top.in /\ Step.op = "timed"
  /\ flow' = "run"
  /\ IF Top.timer # "fired" /\ flow = "run"
     THEN Continue /\ UNCHANGED <<asked, eng, last>>
     ELSE /\ IF (Top.timer = "fired" /\ req) \/ (Top.timer # "fired" /\ (eng = "term" \/ req))
             THEN /\ last' = IF last = None THEN Pending("term") ELSE last
                  /\ eng' = Caught(IF flow = "run" THEN "none" ELSE eng)
                  /\ stack' = IF req THEN MarkStopped(Pop) ELSE Pop
                  /\ UNCHANGED asked
             ELSE /\ last' = Pending("err") /\ eng' = "none" /\ stack' = Pop
                  /\ asked' = (asked /\ Top.timer # "fired")
          /\ ret' = "pending"
  /\ UNCHANGED <<prov, req, asking, own>>

\* napi_throw and its siblings: pending, and on V8 thrown into V8 too.
CallRaises ==
  /\ AtStep({"raise"})
  /\ last' = Pending("err")
  /\ eng' = IF prov = "v8" THEN "err" ELSE eng
  /\ \E s \in Step.st : Return(s)
  /\ Others

\* napi_v8_throw_unless_terminating: no exception replaces a termination.
CallThrowsUnless ==
  /\ AtStep({"unless"})
  /\ IF eng = "term" THEN Return("napi_pending_exception") ELSE Continue
  /\ Others /\ UNCHANGED <<eng, last>>

CallTakesPending ==
  /\ AtStep({"need", "clear"})
  /\ IF Step.op = "need" /\ last = None THEN Return("napi_generic_failure") ELSE Continue
  /\ last' = IF Step.op = "clear" THEN None ELSE last
  /\ Others /\ UNCHANGED eng

Next ==
  \/ TerminateExecution \/ IsolateTerminateExecution \/ TimeoutFires
  \/ JsReturn \/ JsThrow \/ JsInterrupted \/ JsCatch \/ JsUnwind \/ JsCallsNative
  \/ NativeReturns \/ NativeCalls \/ CancelTerminateExecution
  \/ CallEnds \/ CallChecksTermination \/ CallEntersV8 \/ CallOperates
  \/ CallRunsJs \/ CallRunsNative \/ CallResumes \/ TimedScriptEnds \/ CallRaises
  \/ CallThrowsUnless
  \/ CallTakesPending

Spec == Init /\ [][Next]_vars

(***************************************************************************)
(* Properties.                                                             *)
(***************************************************************************)
Exceptions == [k : {"none", "err", "term"}, at : 0..MaxJs + 1]

FramesOf(p) ==
  [k : {"native"}, out : Exceptions] \cup [k : {"js"}, stop : BOOLEAN]
    \cup [k : {"call"}, pc : Seq(StepsOf(p)), in : BOOLEAN, timer : {"off", "on", "fired"}]

\* JS runs for a call, native code for JS or a call, and calls are native
\* code's; only a call inside its operation has anything above it.
Nests(s) ==
  /\ s # <<>> /\ s[1].k = "native"
  /\ \A i \in 2..Len(s) : s[i - 1].k \in CASE s[i].k = "js" -> {"call"}
                                           [] s[i].k = "call" -> {"native"}
                                           [] OTHER -> {"js", "call"}
  /\ \A i \in 1..Len(s) : s[i].k = "call" =>
       /\ i < Len(s) => s[i].in
       /\ s[i].in => s[i].pc # <<>>
       /\ s[i].timer # "off" => s[i].in /\ Head(s[i].pc).op = "timed"

\* Every variable has its type; the frames nest as calls do.
TypeOK ==
  /\ prov \in Providers
  /\ {req, asking, asked, own} \subseteq BOOLEAN
  /\ eng \in {"none", "err", "term", "null"} /\ flow \in {"run", "unwind"}
  /\ last \in Exceptions /\ ret \in {"none", "ok", "pending", "other"}
  /\ stack \in Seq(FramesOf(prov)) /\ Nests(stack)

\* Once native code above a script was refused or stopped by a requested
\* termination, that script never gets control back, not even in a catch
\* block, until the request is cancelled: whatever the native code did in
\* between, V8's forgetting included, the script is unwound with a
\* termination (HandleCallbackException, invoke_callback).
StoppedJsUnwinds ==
  Top.k = "js" /\ Top.stop => flow = "unwind" /\ eng = "term"

\* The null that stands for a requested termination is never thrown into JS
\* as an exception a script can catch (HandleCallbackException).
TerminationStaysUncatchable == ~own => eng # "null"

\* A cancel leaves nothing of the termination behind, in the engine, in
\* N-API or in what a callback's caller had pending, that would stop or be
\* thrown into code that runs later.
CancelLeavesNothing ==
  ~req /\ ~own =>
    /\ ~asked /\ eng # "term" /\ last.k # "term"
    /\ \A i \in Frames("native") : stack[i].out.k # "term"

\* A call that reports an exception left one pending for its caller to take,
\* unless V8 itself is unwinding.
FailureExplained == ret = "pending" => last # None \/ (prov = "v8" /\ eng = "term")

\* QuickJS: what native code sees pending was raised by its own calls, never
\* by its caller's (quickjs_outer_exception_scope__), and comes back to the
\* caller that had it.
OuterExceptionApart ==
  prov = "qjs" =>
    /\ last # None => last.at = Natives
    /\ \A i \in Frames("native") :
         stack[i].out # None => stack[i].out.at = Cardinality({j \in Frames("native") : j < i})
=============================================================================
