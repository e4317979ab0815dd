------------------------------ MODULE V8Release ------------------------------
(***************************************************************************)
(* The V8 provider's finalizers: how the env keeps cleanup hooks, wraps    *)
(* and references with a finalizer, external backing stores, realm tokens  *)
(* and instance data; how the collector and V8's sweeper threads hand them *)
(* over while the env runs; and ~napi_env__, which runs what is left.      *)
(*                                                                         *)
(* The env's thread is a stack of frames, the running one last:            *)
(*   user      the embedder's own code, at the bottom                      *)
(*   callback  native code the env called for `item`                       *)
(*   drain     DrainFinalizerQueue                                         *)
(*   the rest  ~napi_env__, named for the step it is about to take         *)
(* `set` is what the frame's loop still has to look at.  Sweeper threads   *)
(* run ExternalBackingStoreDeleter, one per store.  Each action between    *)
(* two acquisitions of NapiV8ExternalHintsMutex is one step.               *)
(***************************************************************************)
EXTENDS Integers, FiniteSets, FiniteSetsExt, Sequences, SequencesExt

CONSTANTS N,          \* how many registrations may be made
          Kinds,      \* the kinds an item may have in this instance
          MaxTasks    \* the drains the hook may hold at once

ASSUME NAssumption == N \in Nat \ {0}
ASSUME KindsAssumption ==
  Kinds \subseteq {"hook", "ref", "store", "memory", "token", "instance"}

Items == 1..N   \* registrations, in the order they are made

VARIABLES
  phase, kind, life, runs,   \* as in EnvRelease
  hooks,               \* env_cleanup_hooks
  refs,                \* finalizing_reflist
  pending,             \* pending_finalizers: collected, waiting for a drain
  tokens,              \* realms with token_assigned
  instance,            \* instance_data_finalize_cb, as a set of at most one item
  hints,               \* external_backing_store_hints: hint->env is the env
  tracked,             \* external_array_buffers
  queue,               \* external_finalizers (has_external_finalizers is queue # {})
  stores,              \* backing stores alive: their deleter has not begun
  attached,            \* array buffers that still expose their store
  scheduled,           \* finalization_scheduled
  posted,              \* external_finalizer_drain_posted
  deleter,             \* per store: "none", "posting", "posted", "refused" or "done"
  hooked,              \* the embedder attached an enqueue_foreground_task hook
  tasks,               \* drains the hook holds
  calls                \* the env thread's frames

item == <<phase, kind, life, runs, hooked>>
kept == <<hooks, refs, tokens, instance>>
external == <<hints, tracked, queue, stores, attached, posted, deleter>>
vars == <<item, kept, external, pending, scheduled, tasks, calls>>

Frame(at, i, S) == [at |-> at, item |-> i, set |-> S]

Top == Last(calls)

At(where) == Top.at = where

InUserCode == Top.at \in {"user", "callback"}

Goto(frame) == calls' = Append(Front(calls), frame)

Goes(at) == Goto(Frame(at, 0, {}))

\* Calls into native code and goes on at `frame` when it returns.
CallThen(i, frame) == calls' = Append(Append(Front(calls), frame), Frame("callback", i, {}))

Ran(S) == /\ life' = [i \in Items |-> IF i \in S THEN "done" ELSE life[i]]
          /\ runs' = [i \in Items |-> IF i \in S THEN runs[i] + 1 ELSE runs[i]]

InFlight == Cardinality({i \in Items : deleter[i] \in {"posting", "posted", "refused"}})

Init ==
  /\ phase = "open" /\ hooked \in BOOLEAN /\ kind = [i \in Items |-> "none"]
  /\ life = [i \in Items |-> "none"] /\ runs = [i \in Items |-> 0]
  /\ hooks = {} /\ refs = {} /\ pending = {} /\ tokens = {} /\ instance = {}
  /\ hints = {} /\ tracked = {} /\ queue = {} /\ stores = {} /\ attached = {}
  /\ scheduled = FALSE /\ posted = FALSE /\ tasks = 0
  /\ deleter = [i \in Items |-> "none"]
  /\ calls = <<Frame("user", 0, {})>>

-----------------------------------------------------------------------------
(* Native code, in the embedder's own calls and in the callbacks the env   *)
(* makes: before and during the release it may do any of these.            *)

\* Registers the next item: napi_add_env_cleanup_hook, a reference with a
\* finalizer (napi_wrap, napi_create_external, napi_add_finalizer), an
\* external array buffer with a finalizer or with a free callback, a realm
\* with a token, instance data (which replaces the one there).
Make(i, k) ==
  /\ InUserCode /\ phase # "closed"
  /\ life[i] = "none" /\ \A j \in 1..(i - 1) : life[j] # "none"
  /\ LET old == IF k = "instance" THEN {j \in instance : life[j] = "live"} ELSE {}
     IN life' = [j \in Items |-> IF j = i THEN "live" ELSE IF j \in old THEN "withdrawn" ELSE life[j]]
  /\ kind' = [kind EXCEPT ![i] = k]
  /\ hooks' = IF k = "hook" THEN hooks \cup {i} ELSE hooks
  /\ refs' = IF k = "ref" THEN refs \cup {i} ELSE refs
  /\ tokens' = IF k = "token" THEN tokens \cup {i} ELSE tokens
  /\ instance' = IF k = "instance" THEN {i} ELSE instance
  /\ hints' = IF k \in {"store", "memory"} THEN hints \cup {i} ELSE hints
  /\ stores' = IF k \in {"store", "memory"} THEN stores \cup {i} ELSE stores
  /\ attached' = IF k \in {"store", "memory"} THEN attached \cup {i} ELSE attached
  /\ tracked' = IF k = "store" THEN tracked \cup {i} ELSE tracked
  /\ UNCHANGED <<phase, hooked, runs, queue, posted, deleter, pending, scheduled, tasks, calls>>

\* napi_remove_env_cleanup_hook.  A hook may remove itself while it runs.
RemoveHook(h) ==
  /\ InUserCode /\ h \in hooks
  /\ hooks' = hooks \ {h}
  /\ life' = IF life[h] = "live" THEN [life EXCEPT ![h] = "withdrawn"] ELSE life
  /\ UNCHANGED <<phase, hooked, kind, runs, refs, tokens, instance, external, pending, scheduled, tasks, calls>>

\* napi_delete_reference or napi_remove_wrap: the destructor takes the
\* reference off both lists.
DeleteReference(r) ==
  /\ InUserCode /\ r \in refs /\ life[r] = "live"
  /\ refs' = refs \ {r} /\ pending' = pending \ {r}
  /\ life' = [life EXCEPT ![r] = "withdrawn"]
  /\ UNCHANGED <<phase, hooked, kind, runs, hooks, tokens, instance, external, scheduled, tasks, calls>>

\* ArrayBuffer.prototype.transfer or a detach: the buffer lets go of the store.
Detach(i) ==
  /\ InUserCode /\ i \in attached
  /\ attached' = attached \ {i}
  /\ UNCHANGED <<item, kept, hints, tracked, queue, stores, posted, deleter, pending, scheduled, tasks, calls>>

\* ScheduleFinalizerQueueDrain: at most one drain for the collector's
\* finalizers; a refused one may be posted again.
Schedule ==
  \/ /\ ~scheduled /\ hooked /\ tasks < MaxTasks
     /\ scheduled' = TRUE /\ tasks' = tasks + 1
  \/ UNCHANGED <<scheduled, tasks>>

\* The collector finds a weakly held value dead while native code or JS
\* allocates: its reference waits for a drain (WeakCallback,
\* InvokeFinalizerFromGC, EnqueueFinalizer).
Collect(r) ==
  /\ InUserCode /\ r \in refs \ pending
  /\ pending' = pending \cup {r}
  /\ Schedule
  /\ UNCHANGED <<item, kept, external, calls>>

\* DrainFinalizerQueue begins: it takes what deleters queued unless the env
\* is releasing.
StartDrain(below) ==
  /\ scheduled' = FALSE
  /\ LET taken == IF phase = "open" THEN queue ELSE {}
     IN /\ queue' = queue \ taken
        /\ posted' = IF taken = {} THEN posted ELSE FALSE
        /\ calls' = IF pending = {} /\ taken = {}
                      THEN below ELSE Append(below, Frame("drain", 0, taken))

\* unofficial_napi_event_loop_checkpoint, from any native code.
Checkpoint ==
  /\ InUserCode /\ phase # "closed"
  /\ scheduled \/ pending # {} \/ (phase = "open" /\ queue # {})
  /\ StartDrain(calls)
  /\ UNCHANGED <<item, kept, hints, tracked, stores, attached, deleter, pending, tasks>>

\* The embedder runs a drain it was handed, maybe after the env is gone: the
\* token then holds no env.
RunTask ==
  /\ InUserCode /\ tasks > 0
  /\ tasks' = tasks - 1
  /\ IF phase # "closed" THEN StartDrain(calls) ELSE UNCHANGED <<scheduled, queue, posted, calls>>
  /\ UNCHANGED <<item, kept, hints, tracked, stores, attached, deleter, pending>>

\* The callback returns.  A cleanup hook is taken off the list only now; a
\* reference the provider owns is destroyed, one its owner keeps stays
\* wherever it is listed, with its callback reset.
Return ==
  /\ At("callback")
  /\ calls' = Front(calls)
  /\ hooks' = hooks \ {Top.item}
  /\ \/ pending' = pending
     \/ kind[Top.item] = "ref" /\ pending' = pending \ {Top.item}
  /\ UNCHANGED <<item, refs, tokens, instance, external, scheduled, tasks>>

-----------------------------------------------------------------------------
(* DrainFinalizerQueue.                                                    *)

\* Finalize of a reference: unlinked, its callback reset before it is called,
\* so a reference that another pass has finalized is not called again.
Finalize(r, frame) ==
  /\ refs' = refs \ {r}
  /\ IF life[r] = "live" THEN Ran({r}) /\ CallThen(r, frame)
                         ELSE Goto(frame) /\ UNCHANGED <<life, runs>>

DrainReference ==
  /\ At("drain") /\ pending # {}
  /\ \E r \in pending : /\ pending' = pending \ {r}
                        /\ Finalize(r, Top)
  /\ UNCHANGED <<phase, hooked, kind, hooks, tokens, instance, external, scheduled, tasks>>

\* The rest of the batch: external finalizers, then another look.
DrainExternal ==
  /\ At("drain") \/ At("drainExternal")
  /\ At("drain") => pending = {}
  /\ Top.set # {}
  /\ \E i \in Top.set :
       /\ tracked' = tracked \ {i}
       /\ Ran({i}) /\ CallThen(i, Frame("drainExternal", 0, Top.set \ {i}))
  /\ UNCHANGED <<phase, hooked, kind, kept, hints, queue, stores, attached, posted, deleter, pending, scheduled, tasks>>

\* Between batches: again what was queued meanwhile, or the end.
DrainAgain ==
  /\ At("drain") \/ At("drainExternal")
  /\ At("drain") => pending = {}
  /\ Top.set = {}
  /\ LET taken == IF phase = "open" THEN queue ELSE {}
     IN /\ queue' = queue \ taken
        /\ posted' = IF taken = {} THEN posted ELSE FALSE
        /\ IF pending = {} /\ taken = {} THEN calls' = Front(calls)
                                        ELSE Goto(Frame("drain", 0, taken))
  /\ UNCHANGED <<item, kept, hints, tracked, stores, attached, deleter, pending, scheduled, tasks>>

-----------------------------------------------------------------------------
(* ExternalBackingStoreDeleter, on whatever thread drops the last          *)
(* reference to the store.                                                 *)

\* In one critical section: reads the env, unlinks the hint, queues the
\* finalizer, and decides whether it posts a drain (QueueExternalFinalizer).
\* A free callback is claimed the same way and runs here.
DropStore(i) ==
  /\ stores' = stores \ {i} /\ attached' = attached \ {i} /\ hints' = hints \ {i}
  /\ queue' = IF i \in hints /\ kind[i] = "store" THEN queue \cup {i} ELSE queue
  /\ IF i \in hints /\ kind[i] = "memory" THEN Ran({i}) ELSE UNCHANGED <<life, runs>>
  /\ LET post == i \in hints /\ kind[i] = "store" /\ ~posted /\ phase = "open" /\ hooked
     IN /\ posted' = (posted \/ post)
        /\ deleter' = [deleter EXCEPT ![i] = IF post THEN "posting" ELSE "done"]
  /\ UNCHANGED <<phase, hooked, kind, kept, tracked, pending, scheduled, tasks, calls>>

Delete(i) == i \in stores /\ DropStore(i)

\* PostFinalizerQueueDrain, without the lock: the hook takes the drain or
\* refuses it.
PostDrain(i) ==
  /\ deleter[i] = "posting"
  /\ \/ tasks < MaxTasks /\ tasks' = tasks + 1 /\ deleter' = [deleter EXCEPT ![i] = "posted"]
     \/ tasks' = tasks /\ deleter' = [deleter EXCEPT ![i] = "refused"]
  /\ UNCHANGED <<item, kept, hints, tracked, queue, stores, attached, posted, pending, scheduled, calls>>

\* PostExternalFinalizerDrain's end, under the lock again.
\* (Mutant: a refused drain is never counted down.)
PostLeaks(i) ==
  /\ deleter[i] = "posted"
  /\ deleter' = [deleter EXCEPT ![i] = "done"]
  /\ UNCHANGED <<item, kept, hints, tracked, queue, stores, attached, posted, pending, scheduled, tasks, calls>>

\* (Mutant: a refused drain still counts as posted.)
PostStaysPosted(i) ==
  /\ deleter[i] \in {"posted", "refused"}
  /\ deleter' = [deleter EXCEPT ![i] = "done"]
  /\ UNCHANGED <<item, kept, hints, tracked, queue, stores, attached, posted, pending, scheduled, tasks, calls>>

PostDone(i) ==
  /\ deleter[i] \in {"posted", "refused"}
  /\ posted' = (posted /\ deleter[i] = "posted")
  /\ deleter' = [deleter EXCEPT ![i] = "done"]
  /\ UNCHANGED <<item, kept, hints, tracked, queue, stores, attached, pending, scheduled, tasks, calls>>

-----------------------------------------------------------------------------
(* ~napi_env__.                                                            *)

\* unofficial_napi_release_env, from the embedder's own code: `releasing` is
\* set under the lock, so no deleter posts from here on.  A second call is
\* refused (ReleaseEnvScope), which changes nothing.
Release ==
  /\ At("user") /\ phase = "open"
  /\ phase' = "releasing"
  /\ calls' = Append(calls, Frame("tokens", 0, {}))
  /\ UNCHANGED <<hooked, kind, life, runs, kept, external, pending, scheduled, tasks>>

\* NapiV8UnassignRealmTokens, before the hooks and again after them: looks
\* again after each callback, which may make realms.
UnassignTokens ==
  /\ At("tokens") \/ At("tokensAgain")
  /\ IF tokens = {}
       THEN /\ Goes(IF At("tokens") THEN "hooks" ELSE "refs")
            /\ UNCHANGED <<life, runs, tokens>>
       ELSE \E t \in tokens : tokens' = tokens \ {t} /\ Ran({t}) /\ CallThen(t, Top)
  /\ UNCHANGED <<phase, hooked, kind, hooks, refs, instance, external, pending, scheduled, tasks>>

\* RunEnvCleanupHooks: a snapshot, newest first; a hook that is gone by its
\* turn is skipped; another snapshot while there are hooks.
SnapshotHooks ==
  /\ At("hooks")
  /\ IF hooks = {} THEN Goes("tokensAgain") ELSE Goto(Frame("runHooks", 0, hooks))
  /\ UNCHANGED <<item, kept, external, pending, scheduled, tasks>>

RunHook ==
  /\ At("runHooks")
  /\ IF Top.set = {}
       THEN Goes("hooks") /\ UNCHANGED <<life, runs>>
       ELSE LET h == Max(Top.set)
                rest == Frame("runHooks", 0, Top.set \ {h})
            IN IF h \in hooks THEN Ran({h}) /\ CallThen(h, rest)
                              ELSE Goto(rest) /\ UNCHANGED <<life, runs>>
  /\ UNCHANGED <<phase, hooked, kind, kept, external, pending, scheduled, tasks>>

\* napi_ref_tracker__::FinalizeAll: the head of the list is the newest.  What
\* the collector had queued is finalized by now.
FinalizeAll ==
  /\ At("refs")
  /\ IF refs = {}
       THEN Goes("take") /\ pending' = {} /\ UNCHANGED <<life, runs, refs>>
       ELSE Finalize(Max(refs), Top) /\ UNCHANGED pending
  /\ UNCHANGED <<phase, hooked, kind, hooks, tokens, instance, external, scheduled, tasks>>

\* FinalizeExternalBackingStoreHints: first the finalizers deleters queued
\* join the ones this pass holds.
TakeQueued ==
  /\ At("take")
  /\ Goto(Frame("pick", 0, Top.set \cup queue))
  /\ queue' = {} /\ posted' = (posted /\ queue = {})
  /\ UNCHANGED <<item, kept, hints, tracked, stores, attached, deleter, pending, scheduled, tasks>>

\* Then the newest of the queued and the tracked.  A tracked buffer is
\* detached first.
\* (Mutant: queued finalizers go first whatever their age.)
PickQueuedFirst ==
  /\ At("pick")
  /\ \/ /\ Top.set # {}
        /\ LET i == Max(Top.set)
           IN tracked' = tracked \ {i} /\ Ran({i}) /\ CallThen(i, Frame("take", 0, Top.set \ {i}))
        /\ UNCHANGED attached
     \/ /\ Top.set = {} /\ tracked # {}
        /\ LET i == Max(tracked)
           IN tracked' = tracked \ {i} /\ attached' = attached \ {i} /\ Goto(Frame("claim", i, Top.set))
        /\ UNCHANGED <<life, runs>>
     \/ /\ Top.set \cup tracked = {}
        /\ Goes("swap") /\ UNCHANGED <<life, runs, tracked, attached>>
  /\ UNCHANGED <<phase, hooked, kind, kept, hints, queue, stores, posted, deleter, pending, scheduled, tasks>>

\* (Mutant: the buffer is not detached before its finalizer.)
PickWithoutDetach ==
  /\ At("pick")
  /\ LET i == Max(Top.set \cup tracked \cup {0})
     IN \/ /\ i \in Top.set
           /\ tracked' = tracked \ {i} /\ Ran({i}) /\ CallThen(i, Frame("take", 0, Top.set \ {i}))
        \/ /\ i \in tracked \ Top.set
           /\ tracked' = tracked \ {i} /\ Goto(Frame("claim", i, Top.set))
           /\ UNCHANGED <<life, runs>>
        \/ /\ i = 0
           /\ Goes("swap") /\ UNCHANGED <<life, runs, tracked>>
  /\ UNCHANGED <<phase, hooked, kind, kept, hints, queue, stores, attached, posted, deleter, pending, scheduled, tasks>>

PickNewest ==
  /\ At("pick")
  /\ LET i == Max(Top.set \cup tracked \cup {0})
     IN \/ /\ i \in Top.set
           /\ tracked' = tracked \ {i} /\ Ran({i}) /\ CallThen(i, Frame("take", 0, Top.set \ {i}))
           /\ UNCHANGED attached
        \/ /\ i \in tracked \ Top.set
           /\ tracked' = tracked \ {i} /\ attached' = attached \ {i}
           /\ Goto(Frame("claim", i, Top.set))
           /\ UNCHANGED <<life, runs>>
        \/ /\ i = 0
           /\ Goes("swap") /\ UNCHANGED <<life, runs, tracked, attached>>
  /\ UNCHANGED <<phase, hooked, kind, kept, hints, queue, stores, posted, deleter, pending, scheduled, tasks>>

\* FinalizeNewestExternalArrayBuffer after the detach: claims the finalizer
\* under the lock, unless the deleter got there first and queued it.
ClaimDetached ==
  /\ At("claim")
  /\ hints' = hints \ {Top.item}
  /\ IF Top.item \in hints
       THEN Ran({Top.item}) /\ CallThen(Top.item, Frame("take", 0, Top.set))
       ELSE Goto(Frame("take", 0, Top.set)) /\ UNCHANGED <<life, runs>>
  /\ UNCHANGED <<phase, hooked, kind, kept, tracked, queue, stores, attached, posted, deleter, pending, scheduled, tasks>>

\* Neither is left: claims, in one critical section, what the stores still
\* alive hold, and lets go of them.  With none left the pass ends.
ClaimRest ==
  /\ At("swap")
  /\ hints' = {}
  /\ LET memory == {i \in hints : kind[i] = "memory"}
         claimed == hints \ memory
     IN /\ Ran(memory)
        /\ IF hints = {} THEN Goes("round") ELSE Goto(Frame("runClaimed", 0, claimed))
  /\ UNCHANGED <<phase, hooked, kind, kept, tracked, queue, stores, attached, posted, deleter, pending, scheduled, tasks>>

RunClaimed ==
  /\ At("runClaimed")
  /\ IF Top.set = {}
       THEN Goes("take") /\ UNCHANGED <<life, runs>>
       ELSE \E i \in Top.set : Ran({i}) /\ CallThen(i, Frame("runClaimed", 0, Top.set \ {i}))
  /\ UNCHANGED <<phase, hooked, kind, kept, external, pending, scheduled, tasks>>

\* The end of a round: another while anything is left, then the instance
\* data, whose callback is cleared before it runs, and all of it again.
Round ==
  /\ At("round")
  /\ \/ /\ hooks \cup refs \cup tokens # {}
        /\ Goes("tokens") /\ UNCHANGED <<life, runs, instance>>
     \/ /\ hooks \cup refs \cup tokens = {} /\ instance # {}
        /\ instance' = {} /\ Ran(instance) /\ \E i \in instance : CallThen(i, Frame("tokens", 0, {}))
     \/ /\ hooks \cup refs \cup tokens \cup instance = {}
        /\ Goes("wait") /\ UNCHANGED <<life, runs, instance>>
  /\ UNCHANGED <<phase, hooked, kind, hooks, refs, tokens, external, pending, scheduled, tasks>>

\* The end: plain references, buffer records and the env's own state go; then
\* it waits, under the lock, for the deleters still in the hook; then the
\* token loses the env.
\* (Mutant: it does not wait.)
CloseAtOnce ==
  /\ At("wait")
  /\ phase' = "closed" /\ calls' = Front(calls) /\ scheduled' = FALSE
  /\ UNCHANGED <<hooked, kind, life, runs, kept, external, pending, tasks>>

Close ==
  /\ At("wait") /\ InFlight = 0
  /\ phase' = "closed" /\ calls' = Front(calls) /\ scheduled' = FALSE
  /\ UNCHANGED <<hooked, kind, life, runs, kept, external, pending, tasks>>

-----------------------------------------------------------------------------
ReleaseStep ==
  \/ UnassignTokens \/ SnapshotHooks \/ RunHook \/ FinalizeAll
  \/ TakeQueued \/ PickNewest \/ ClaimDetached \/ ClaimRest \/ RunClaimed
  \/ Round \/ Close

DrainStep == DrainReference \/ DrainExternal \/ DrainAgain

UserStep ==
  \/ \E i \in Items : \/ \E k \in Kinds : Make(i, k)
                     \/ RemoveHook(i) \/ DeleteReference(i) \/ Detach(i) \/ Collect(i)
  \/ Checkpoint \/ RunTask \/ Release

Sweep(i) == Delete(i) \/ PostDrain(i) \/ PostDone(i)

Next == UserStep \/ Return \/ DrainStep \/ ReleaseStep \/ \E i \in Items : Sweep(i)

\* Callbacks return, the hook answers, and the env's thread goes on.
Spec == /\ Init /\ [][Next]_vars
        /\ WF_vars(Return) /\ WF_vars(DrainStep) /\ WF_vars(ReleaseStep)
        /\ \A i \in Items : WF_vars(PostDrain(i)) /\ WF_vars(PostDone(i))

-----------------------------------------------------------------------------
TypeOK ==
  /\ phase \in {"open", "releasing", "closed"} /\ hooked \in BOOLEAN
  /\ kind \in [Items -> Kinds \cup {"none"}]
  /\ life \in [Items -> {"none", "live", "done", "withdrawn"}]
  /\ runs \in [Items -> Nat]
  /\ \A S \in {hooks, refs, pending, tokens, instance, hints, tracked, queue, stores, attached} :
       S \subseteq Items
  /\ scheduled \in BOOLEAN /\ posted \in BOOLEAN /\ tasks \in 0..MaxTasks
  /\ deleter \in [Items -> {"none", "posting", "posted", "refused", "done"}]
  /\ \A n \in 1..Len(calls) :
       /\ calls[n].item \in IF calls[n].at \in {"callback", "claim"} THEN Items ELSE {0}
       /\ calls[n].set \subseteq Items

\* Nothing of the env is reachable once it is gone: no hint points at it, no
\* deleter is about to touch it, its lists are empty (~napi_env__'s waits).
GoneForGood ==
  phase = "closed" =>
    /\ hints \cup tracked \cup queue \cup refs \cup hooks \cup tokens \cup instance = {}
    /\ \A i \in Items : deleter[i] \in {"none", "done"}

\* While the env runs, a queued external finalizer that counts as posted has
\* a drain on its way (QueueExternalFinalizer posts only one for many stores).
DrainOwed == phase = "open" /\ posted => tasks > 0 \/ InFlight > 0

\* An external buffer is detached before its finalizer runs, so what runs
\* from then on does not see the freed memory through it; a buffer that
\* ArrayBuffer.prototype.transfer moved the store to is out of reach.
DetachedFirst ==
  \A i \in Items : kind[i] = "store" /\ life[i] = "done" => i \notin attached

\* The release implements the contract every provider makes: each hook,
\* finalizer and token callback is called once however many passes reach it,
\* the instance data after everything else, external buffers most recent
\* first, and nothing is left when the env closes.
Contract == INSTANCE EnvRelease WITH Items <- Items, Kinds <- Kinds, phase <- phase, kind <- kind,
                                    life <- life, runs <- runs
KeepsContract == Contract!Spec

\* A release that has begun ends.
ReleaseEnds == phase = "releasing" ~> phase = "closed"
=============================================================================
