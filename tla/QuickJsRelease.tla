--------------------------- MODULE QuickJsRelease ---------------------------
(***************************************************************************)
(* The QuickJS provider's finalizers.  Every value with a finalizer (an    *)
(* external, a wrap, napi_add_finalizer, an external array buffer) has a   *)
(* napi_external_backing_store_hint__, linked to the env's pending list    *)
(* until its finalizer is invoked.  The engine counts references, so a     *)
(* value may be freed, and its finalizer called, in the middle of any      *)
(* native code, a finalizer included; prepare_teardown runs what is left.  *)
(*                                                                         *)
(* One thread, a stack of frames, the running one last:                    *)
(*   user, callback   native code                                          *)
(*   let go           release_array_buffer after its finalizer             *)
(*   free             napi_external__::finalizer after its finalizer       *)
(*   set              set_instance_data after the replaced data's finalizer*)
(*   finalized        finalize_at_teardown after its finalizer             *)
(*   hooks, values, instance   prepare_teardown                            *)
(***************************************************************************)
EXTENDS Integers, FiniteSets, FiniteSetsExt, Sequences, SequencesExt

CONSTANTS N,          \* how many registrations may be made
          Kinds       \* the kinds an item may have in this instance

ASSUME NAssumption == N \in Nat \ {0}
ASSUME KindsAssumption == Kinds \subseteq {"hook", "ref", "store", "instance"}

Items == 1..N   \* registrations, in the order they are made

VARIABLES
  phase, kind, life, runs,   \* as in EnvRelease; closing_ is phase # "open"
  hooks,               \* env_cleanup_hooks_
  pending,             \* pending_finalizers_: hints linked, newest first
  instance,            \* instance_data_, as a set of at most one item
  invoked,             \* hints with finalize_invoked_
  released,            \* hints with released_: no buffer refers to them
  holder,              \* who holds a store's memory: "none", "buffer" (the array
                       \* buffer made over it), "moved" (another, after a transfer) or
                       \* "astray" (another, after a transfer while it was let go of)
  buffers,             \* array buffers alive that the hint's weak link finds
  hint,                \* per item: "none", "made" or "destroyed"
  destroys,            \* how often each hint was destroyed
  calls                \* the frames

item == <<phase, kind, life, runs>>
hintVars == <<pending, invoked, released, holder, buffers, hint, destroys>>
vars == <<item, hintVars, hooks, instance, calls>>

Frame(at, i) == [at |-> at, item |-> i]

Top == Last(calls)

At(where) == Top.at = where

InUserCode == Top.at \in {"user", "callback"}

Goto(frame) == calls' = Append(Front(calls), frame)

\* Calls into native code and goes on at the frames `below` when it returns.
CallOver(i, below) == calls' = Append(below, Frame("callback", i))

Ran(i) == /\ life' = [life EXCEPT ![i] = "done"]
          /\ runs' = [runs EXCEPT ![i] = @ + 1]

Destroyed(i) == /\ hint' = [hint EXCEPT ![i] = "destroyed"]
                /\ destroys' = [destroys EXCEPT ![i] = @ + 1]

Init ==
  /\ phase = "open" /\ kind = [i \in Items |-> "none"]
  /\ life = [i \in Items |-> "none"] /\ runs = [i \in Items |-> 0]
  /\ hooks = {} /\ pending = {} /\ instance = {} /\ invoked = {} /\ released = {}
  /\ holder = [i \in Items |-> "none"] /\ buffers = {}
  /\ hint = [i \in Items |-> "none"] /\ destroys = [i \in Items |-> 0]
  /\ calls = <<Frame("user", 0)>>

-----------------------------------------------------------------------------
(* Native code.                                                            *)

\* add_cleanup_hook, or create_external_backing_store and, for an array
\* buffer, track_array_buffer.
Make(i, k) ==
  /\ InUserCode /\ phase # "closed" /\ k # "instance"
  /\ life[i] = "none" /\ \A j \in 1..(i - 1) : life[j] # "none"
  /\ kind' = [kind EXCEPT ![i] = k] /\ life' = [life EXCEPT ![i] = "live"]
  /\ hooks' = IF k = "hook" THEN hooks \cup {i} ELSE hooks
  /\ pending' = IF k = "hook" THEN pending ELSE pending \cup {i}
  /\ hint' = IF k = "hook" THEN hint ELSE [hint EXCEPT ![i] = "made"]
  /\ holder' = IF k = "store" THEN [holder EXCEPT ![i] = "buffer"] ELSE holder
  /\ buffers' = IF k = "store" THEN buffers \cup {i} ELSE buffers
  /\ UNCHANGED <<phase, runs, instance, invoked, released, destroys, calls>>

\* Instance data whose finalizer is still set.
Unfinalized == {j \in instance : life[j] = "live"}

\* set_instance_data: the replaced data is cleared, then finalized (unless it
\* is NULL), and only then is the new data set.
SetInstanceData(i) ==
  /\ InUserCode /\ phase # "closed" /\ "instance" \in Kinds
  /\ life[i] = "none" /\ \A j \in 1..(i - 1) : life[j] # "none"
  /\ kind' = [kind EXCEPT ![i] = "instance"]
  /\ \/ \E j \in Unfinalized :
          /\ life' = [life EXCEPT ![i] = "live", ![j] = "done"]
          /\ runs' = [runs EXCEPT ![j] = @ + 1]
          /\ instance' = {}
          /\ CallOver(j, Append(calls, Frame("set", i)))
     \/ /\ life' = [j \in Items |-> IF j = i THEN "live" ELSE IF j \in Unfinalized THEN "withdrawn" ELSE life[j]]
        /\ instance' = {i}
        /\ UNCHANGED <<runs, calls>>
  /\ UNCHANGED <<phase, hooks, hintVars>>

\* What a nested call set meanwhile is overwritten.
InstanceDataSet ==
  /\ At("set")
  /\ life' = [j \in Items |-> IF j \in Unfinalized THEN "withdrawn" ELSE life[j]]
  /\ instance' = {Top.item}
  /\ calls' = Front(calls)
  /\ UNCHANGED <<phase, kind, runs, hooks, hintVars>>

RemoveHook(h) ==
  /\ InUserCode /\ h \in hooks
  /\ hooks' = hooks \ {h}
  /\ life' = [life EXCEPT ![h] = "withdrawn"]
  /\ UNCHANGED <<phase, kind, runs, hintVars, instance, calls>>

\* napi_remove_wrap: refused once the wrap's finalizer was invoked.
RemoveWrap(r) ==
  /\ InUserCode /\ kind[r] = "ref" /\ hint[r] = "made" /\ r \notin invoked
  /\ pending' = pending \ {r} /\ Destroyed(r)
  /\ life' = [life EXCEPT ![r] = "withdrawn"]
  /\ UNCHANGED <<phase, kind, runs, hooks, instance, invoked, released, holder, buffers, calls>>

\* invoke_finalizer of a hint: at most once; off the pending list first.
InvokeOver(i, below) ==
  /\ invoked' = invoked \cup {i} /\ pending' = pending \ {i} /\ buffers' = buffers \ {i}
  /\ IF i \in invoked THEN calls' = below /\ UNCHANGED <<life, runs>>
                      ELSE Ran(i) /\ CallOver(i, below)

\* The value of an external, a wrap or napi_add_finalizer is freed
\* (napi_external__::finalizer).
FreeValue(r) ==
  /\ InUserCode /\ kind[r] = "ref" /\ hint[r] = "made"
  /\ \A n \in 1..Len(calls) : calls[n] # Frame("free", r)
  /\ InvokeOver(r, Append(calls, Frame("free", r)))
  /\ UNCHANGED <<phase, kind, hooks, instance, released, holder, hint, destroys>>

ValueFreed ==
  /\ At("free")
  /\ Destroyed(Top.item) /\ calls' = Front(calls)
  /\ UNCHANGED <<item, hooks, instance, pending, invoked, released, holder, buffers>>

\* ArrayBuffer.prototype.transfer: another buffer, which the hint cannot
\* find, holds the memory and with it the hint.  QuickJS marks a buffer that is
\* let go of detached only afterwards, so its finalizer may still transfer it.
Transfer(i) ==
  /\ InUserCode /\ holder[i] # "none"
  /\ holder' = [holder EXCEPT ![i] = IF i \in released THEN "astray" ELSE "moved"]
  /\ UNCHANGED <<item, hooks, instance, pending, invoked, released, buffers, hint, destroys, calls>>

\* The array buffer made over the store is freed, its memory having moved.
FreeEmptyBuffer(i) ==
  /\ InUserCode /\ i \in buffers /\ holder[i] # "buffer"
  /\ buffers' = buffers \ {i}
  /\ UNCHANGED <<item, hooks, instance, pending, invoked, released, holder, hint, destroys, calls>>

\* The buffer that holds the memory is detached or freed: release_array_buffer,
\* after which QuickJS marks it detached; native code may come here again for
\* the same hint meanwhile.  While the env closes, teardown runs the finalizers
\* still pending, in its order.
\* (Mutant: a second call is not recognised.)
LetGoAgain(i) ==
  /\ InUserCode /\ holder[i] # "none"
  /\ released' = released \cup {i}
  /\ IF i \in pending /\ phase = "releasing"
       THEN /\ holder' = [holder EXCEPT ![i] = "none"]
            /\ UNCHANGED <<life, runs, pending, invoked, buffers, calls>>
       ELSE /\ InvokeOver(i, Append(calls, Frame("let go", i)))
            /\ UNCHANGED holder
  /\ UNCHANGED <<phase, kind, hooks, instance, hint, destroys>>

\* (Mutant: a buffer let go of while the env closes is finalized at once.)
LetGoAtOnce(i) ==
  /\ InUserCode /\ holder[i] # "none" /\ i \notin released
  /\ released' = released \cup {i}
  /\ InvokeOver(i, Append(calls, Frame("let go", i)))
  /\ UNCHANGED <<phase, kind, hooks, instance, holder, hint, destroys>>

\* The call changes nothing of a hint that is released already, nor of one
\* destroyed under a buffer whose memory went astray: reading that is undefined,
\* and modelled is that no other hint was made in its place (the destructor
\* leaves neither an env nor a finalizer in it).
LetGo(i) ==
  /\ InUserCode /\ holder[i] # "none"
  /\ released' = released \cup {i}
  /\ IF i \in released \/ (i \in pending /\ phase = "releasing")
       THEN /\ holder' = [holder EXCEPT ![i] = "none"]
            /\ UNCHANGED <<life, runs, pending, invoked, buffers, calls>>
       ELSE /\ InvokeOver(i, Append(calls, Frame("let go", i)))
            /\ UNCHANGED holder
  /\ UNCHANGED <<phase, kind, hooks, instance, hint, destroys>>

LetGoDone ==
  /\ At("let go")
  /\ holder' = [holder EXCEPT ![Top.item] = IF @ = "astray" THEN @ ELSE "none"]
  /\ Destroyed(Top.item) /\ calls' = Front(calls)
  /\ UNCHANGED <<item, hooks, instance, pending, invoked, released, buffers>>

Return ==
  /\ At("callback")
  /\ calls' = Front(calls)
  /\ UNCHANGED <<item, hintVars, hooks, instance>>

-----------------------------------------------------------------------------
(* prepare_teardown.                                                       *)

Release ==
  /\ At("user") /\ phase = "open"
  /\ phase' = "releasing"
  /\ calls' = Append(calls, Frame("hooks", 0))
  /\ UNCHANGED <<kind, life, runs, hintVars, hooks, instance>>

\* run_cleanup_hooks: newest first, each taken off before it runs.
RunHook ==
  /\ At("hooks")
  /\ IF hooks = {}
       THEN /\ Goto(Frame(IF pending = {} THEN "instance" ELSE "values", 0))
            /\ UNCHANGED <<life, runs, hooks>>
       ELSE LET h == Max(hooks) IN hooks' = hooks \ {h} /\ Ran(h) /\ CallOver(h, calls)
  /\ UNCHANGED <<phase, kind, hintVars, instance>>

\* finalize_pending_values, one value: an array buffer still there is
\* detached, which only marks the hint released, then the finalizer runs.
\* (Mutant: the buffer is not detached first.)
FinalizeInPlace ==
  /\ At("values")
  /\ IF pending = {}
       THEN Goto(Frame("hooks", 0)) /\ UNCHANGED <<life, runs, pending, invoked, released, holder, buffers>>
       ELSE LET i == Max(pending)
            IN /\ UNCHANGED <<released, holder>>
               /\ InvokeOver(i, IF i \in released THEN Append(calls, Frame("finalized", i)) ELSE calls)
  /\ UNCHANGED <<phase, kind, hooks, instance, hint, destroys>>

FinalizeValue ==
  /\ At("values")
  /\ IF pending = {}
       THEN Goto(Frame("hooks", 0)) /\ UNCHANGED <<life, runs, pending, invoked, released, holder, buffers>>
       ELSE LET i == Max(pending)
                detach == i \in buffers /\ holder[i] = "buffer"
            IN /\ released' = IF detach THEN released \cup {i} ELSE released
               /\ holder' = IF detach THEN [holder EXCEPT ![i] = "none"] ELSE holder
               /\ InvokeOver(i, IF i \in released' THEN Append(calls, Frame("finalized", i)) ELSE calls)
  /\ UNCHANGED <<phase, kind, hooks, instance, hint, destroys>>

\* Its hint is destroyed if no buffer referred to it before the finalizer ran.
ValueFinalized ==
  /\ At("finalized")
  /\ Destroyed(Top.item) /\ calls' = Front(calls)
  /\ UNCHANGED <<item, hooks, instance, pending, invoked, released, holder, buffers>>

\* The instance data last, cleared before its finalizer runs; then all of it
\* again.  With none set, nothing is finalized from here on.
\* (Mutant: the callback is cleared, the data is not.)
FinalizeInstanceKept ==
  /\ At("instance")
  /\ IF instance = {}
       THEN phase' = "closed" /\ calls' = Front(calls) /\ UNCHANGED <<life, runs>>
       ELSE /\ \/ Unfinalized = {} /\ Goto(Frame("hooks", 0)) /\ UNCHANGED <<life, runs>>
               \/ \E i \in Unfinalized : Ran(i) /\ CallOver(i, Append(Front(calls), Frame("hooks", 0)))
            /\ UNCHANGED phase
  /\ UNCHANGED <<kind, hintVars, hooks, instance>>

FinalizeInstance ==
  /\ At("instance")
  /\ IF instance = {}
       THEN phase' = "closed" /\ calls' = Front(calls) /\ UNCHANGED <<life, runs, instance>>
       ELSE \E i \in instance :
              /\ instance' = {} /\ Ran(i) /\ CallOver(i, Append(Front(calls), Frame("hooks", 0)))
              /\ UNCHANGED phase
  /\ UNCHANGED <<kind, hintVars, hooks>>

\* The engine instance is freed: values and buffers still alive are let go
\* of, and no finalizer runs (finalizers_done_); astray memory as in LetGo.
FreeRuntime(i) ==
  /\ phase = "closed" /\ hint[i] = "made"
  /\ kind[i] = "ref" \/ holder[i] # "none"
  /\ Destroyed(i)
  /\ holder' = [holder EXCEPT ![i] = "none"]
  /\ released' = released \cup {i} /\ invoked' = invoked \cup {i} /\ buffers' = buffers \ {i}
  /\ UNCHANGED <<item, pending, hooks, instance, calls>>

-----------------------------------------------------------------------------
ReleaseStep == RunHook \/ FinalizeValue \/ FinalizeInstance

Resume == Return \/ InstanceDataSet \/ ValueFreed \/ LetGoDone \/ ValueFinalized

UserStep ==
  \/ \E i \in Items : \/ \E k \in Kinds : Make(i, k)
                      \/ SetInstanceData(i) \/ RemoveHook(i) \/ RemoveWrap(i) \/ FreeValue(i)
                      \/ Transfer(i) \/ FreeEmptyBuffer(i) \/ LetGo(i)
  \/ Release

Next == (phase # "closed" /\ UserStep) \/ Resume \/ ReleaseStep \/ \E i \in Items : FreeRuntime(i)

\* Callbacks return and the teardown goes on.
Spec == Init /\ [][Next]_vars /\ WF_vars(Resume) /\ WF_vars(ReleaseStep)

-----------------------------------------------------------------------------
TypeOK ==
  /\ phase \in {"open", "releasing", "closed"}
  /\ kind \in [Items -> Kinds \cup {"none"}]
  /\ life \in [Items -> {"none", "live", "done", "withdrawn"}]
  /\ runs \in [Items -> Nat] /\ destroys \in [Items -> Nat]
  /\ \A S \in {hooks, pending, instance, invoked, released, buffers} : S \subseteq Items
  /\ holder \in [Items -> {"none", "buffer", "moved", "astray"}]
  /\ hint \in [Items -> {"none", "made", "destroyed"}]
  /\ \A n \in 1..Len(calls) :
       calls[n].item \in IF calls[n].at \in {"user", "hooks", "values", "instance"} THEN {0} ELSE Items

\* A hint is destroyed once, and nothing refers to one that is: no frame comes
\* back to it, no buffer holds it, the pending list does not link it.  The one
\* exception is a buffer that the finalizer itself made, by a transfer of the
\* one being let go of (astray).  A hint no buffer refers to is not leaked: a
\* frame or the teardown still destroys it.
HintsOwnedOnce ==
  \A i \in Items :
    /\ destroys[i] <= 1
    /\ hint[i] = "destroyed" =>
         /\ i \notin pending /\ holder[i] \in {"none", "astray"}
         /\ \A n \in 1..Len(calls) : calls[n] \notin {Frame("free", i), Frame("let go", i), Frame("finalized", i)}
    /\ i \in released =>
         \/ hint[i] = "destroyed" \/ i \in pending
         \/ \E n \in 1..Len(calls) : calls[n] \in {Frame("let go", i), Frame("finalized", i)}
    /\ holder[i] = "astray" => i \in released /\ runs[i] = 1

\* At the release an external buffer no longer holds the memory when its
\* finalizer runs, unless a transfer moved it.
DetachedFirst ==
  \A i \in Items : phase = "releasing" /\ At("callback") /\ Top.item = i /\ kind[i] = "store"
                     => holder[i] # "buffer" \/ i \in released

\* The release implements the contract every provider makes: each hook,
\* finalizer and token callback is called once however many passes reach it,
\* the instance data after everything else, external buffers most recent
\* first, and nothing is left when the env closes.
Contract == INSTANCE EnvRelease WITH Items <- Items, Kinds <- Kinds, phase <- phase, kind <- kind,
                                    life <- life, runs <- runs
KeepsContract == Contract!Spec

\* A release that has begun ends.
ReleaseEnds == phase = "releasing" ~> phase = "closed"
=============================================================================
