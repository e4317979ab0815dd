---------------------------- MODULE NapiProgram ----------------------------
(***************************************************************************)
(* What an N-API call does to exceptions and terminations, as a sequence   *)
(* of steps.  Both providers implement the calls as straight-line C++: a   *)
(* check, an early return, an operation of the engine, the next check.     *)
(* The tables of V8Calls and QuickJsCalls give the steps of each call in   *)
(* source order; NapiCalls runs them.  Left out of a step is the data the  *)
(* call computes; kept is where it can return, with what class of status,  *)
(* whether it looks at the termination first, and whether user JS can run. *)
(***************************************************************************)
EXTENDS Sequences, TLC

\* Early returns for arguments the call cannot use (and for a result it could
\* not wrap): the call returns one of S, or goes on.
Args(S) == [op |-> "args", st |-> S]

\* NAPI_V8_RETURN_IF_TERMINATING / NAPI_QUICKJS_RETURN_IF_TERMINATING.
Guard == [op |-> "guard", st |-> {}]

\* An engine operation that may run user JS (a getter, a proxy trap, valueOf,
\* the function called).  They differ in what happens to an exception:
\* Try      a TryCatch (QuickJS: return_pending_if_caught) makes it pending,
\* Bare(s)  the call returns s and leaves it in the engine,
\* Loose    the call ignores the failure, leaves it in the engine and goes on,
\* Quiet    a TryCatch of its own swallows it and the call goes on.
Try     == [op |-> "try", st |-> {}]
Bare(s) == [op |-> "bare", st |-> {s}]
Loose   == [op |-> "loose", st |-> {}]
Quiet   == [op |-> "quiet", st |-> {}]

\* V8: a script run under a timeout, by unofficial_napi_contextify_run_script.
Timed == [op |-> "timed", st |-> {}]

\* An engine operation that runs no JS but may raise, caught as by Try.
Make == [op |-> "make", st |-> {}]

\* An operation of V8 that runs no JS and raises nothing, but enters V8.
EnterV8 == [op |-> "enter", st |-> {}]

\* The exception the caller made becomes pending; the call returns s.
Raise(s) == [op |-> "raise", st |-> {s}]

\* V8: throws only unless V8 unwinds with a termination already.
UnlessTerminating == [op |-> "unless", st |-> {}]

\* napi_get_and_clear_last_exception: fails when nothing is pending; clears.
NeedPending == [op |-> "need", st |-> {"napi_generic_failure"}]
Clear       == [op |-> "clear", st |-> {}]

\* The steps after which user JS may be on the stack.
RunsJs == {"try", "bare", "loose", "quiet", "timed"}

\* All the steps that touch an exception.
StepRecords ==
  [op : RunsJs \cup {"guard", "make", "enter", "raise", "unless", "need", "clear"},
   st : SUBSET STRING]

Arg    == "napi_invalid_arg"
Fails  == "napi_generic_failure"
Object == "napi_object_expected"

\* A table gives each call the set of its paths (data the model leaves out
\* picks one).  Same: one path, shared by the calls named.  Each: the paths.
Same(names, steps) == [c \in names |-> {steps}]
Each(names, paths) == [c \in names |-> paths]

\* The steps of a path that touch an exception.  An argument check changes
\* nothing but the status returned, so where on a path it stands cannot be
\* told apart: NapiCalls lets a call return before and after them.
IsStep(step) == step.op # "args"
Steps(p) == SelectSeq(p, IsStep)
PathsOf(table) == {Steps(p) : p \in UNION {table[c] : c \in DOMAIN table}}
=============================================================================
