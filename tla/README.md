# Verification of the N-API host

TLA+ models, TLC runs and TLAPS proofs for this repository: an N-API provider
(V8 and QuickJS engines) and the Rust/C++ host that gives WebAssembly guests
access to it. Paths below are relative to the repository root, where the Rust
host lives in `src/`.

## The system and its parts

| part | state it keeps | operations | how it interacts |
|---|---|---|---|
| Resource budget (`src/budget.rs`, charge sites in `src/env.rs`) | atomics: total, three pools, live isolates; per env a ceiling and granted growth; optional embedder accountant | try_charge, uncharge, try_reserve_env, release_env, near-heap-limit grant, linear-memory growth | called by every store's thread and by V8 on the JS thread; no lock |
| Env registry and lifecycle (`src/env.rs`, `src/ctx.rs`) | app-wide registry of env pointers, `host_stopped`, heap-charge handles | reserve, commit, register, terminate_app_env, terminate_all, begin/finish unregister, drop | registry mutex; hands bridge pointers to foreign threads |
| Native bridge (`src/napi_bridge_init.cc`) | `g_envs` under `g_mu`; per agent: slots, frames, refs, callbacks, guest_calls, closing, stop_requested, teardown_guest_calls, pending interrupts | the N-API surface; callbacks, finalizers and interrupts into the guest; release | called by the guest imports; calls the engine and, re-entrantly, the guest |
| Guest imports (`src/guest/napi.rs`, `abi.rs`, `util.rs`) | none of their own | marshalling, cancel, release | guest memory to bridge |
| Callback dispatch (`src/guest/callback.rs`, `callback_cache.rs`) | active context, function cache, depth, pending exit | invoke callback / finalizer | engine to guest |
| Guest heap (`src/guest_heap.rs`) | free list, live allocations, charge | alloc, free by offset or host pointer, grow | freed from V8 background threads |
| V8 provider (`v8/src`) | isolate, `termination_requested`, references, finalizers, cleanup hooks, task queues, module records | terminate, cancel, request_interrupt, release in rounds, tasks, modules | engine threads and the platform's workers |
| QuickJS provider (`quickjs/src`) | the same contract on another engine | the same | single-threaded except terminate |
| Shared library (`lib/src`) | array-buffer allocator, buffer leases, lifetime tracker | | used by both providers |
| Host-JS backend (`src/snapi_js.rs`, `src/guest/napi_js.rs`) | handle tables over a browser's JS | the imports again | single-threaded |

What is hard here: lock-free accounting from several threads; a stop that must
reach isolates that are being created, released or running; teardown that runs
guest code, which calls back into what is being torn down; pointers handed to
foreign threads; ids that outlive the values they name. `PROJECT.json` lists
each such hazard at its line, with the properties that cover it.

What makes each part correct: the budget never exceeds its limit and every byte
is attributed to an owner; an isolate that exists is charged and reachable for
termination; a foreign call never touches a freed env or a disposed isolate; a
release ends and leaves nothing; a value id resolves only to the live value it
was minted for.

## Modules

### ResourceBudget

One thread per store. Each atomic operation of `budget.rs` is one action, and
`pc[t]` says where a thread stands between two of them: a charge is
`ChargeLoad`, `ChargeCas` / `ChargeCasFails`, `ChargePool`, then `Charged` or
`Denied` in the caller; an uncharge is `UnchargePool`, `UnchargeTotal`,
`UnchargeAccountant`, `Returned`. `try_reserve_env` is `AcquireUncapped` or
`AcquireLoad` / `AcquireCas` / `AcquireCasFails`, then `PlanHeap`, then a
charge. `mode` chooses among the three constructors (limited, unlimited,
embedder accountant), `capped` whether `max_envs` is set. Owners hold
`ceiling`, `granted`, `external`, `linear`; bytes under way are in
`op[t].bytes`. The embedder's accountant is external: it decides one charge
atomically and is also charged by the embedder itself. Counters are unbounded
integers; that they never become negative (where an `AtomicU64` would wrap) is
a result. Young generation, code range and per-isolate overhead are one
constant, since they are only added. An accountant whose limit is `u64::MAX`
is not distinguished from one with a finite limit.

`Sums` defines the sum of a function over `1..n` as a recursive function, so that
the modules that use it can be proved about.

### EnvLifecycle

Several envs of one application, each with an owner thread, and a controller
thread that runs `terminate_all`. `phase[e]` is the owner's progress through
creation and release; `top[e]` says whether guest code, JavaScript or native
code runs there. Variables keep the code's names: `guestCalls`, `closing`,
`stopRequested`, `teardownCalls`, `pending` are fields of the bridge's agent,
`terminated` is V8's `termination_requested`, `registry` and `hostStopped` the
Rust side's. An env is reached through the heap address of its
`SnapiEnvState`, which is allocated again once `holders` is zero. Critical
sections of `g_mu` are one action; the registry mutex is held across actions by
`terminate_all`, which walks its loop env by env. A cancel import is two
actions, the read of `host_stopped` and the engine's cancel. A release is
`BeginRelease`, `Shutdown`, `RunFinalizer` (re-entering the guest),
`DisposeEngine`, `DisposeErase`, `DisposeAgent`, `FinishRemove`,
`FinishUnretain`, `FinishCharge`. `DropElsewhere` is the refused release of a
store dropped on the wrong thread. `undone` is auxiliary: it records by which
path a termination was undone after the host's stop.

### HandleScopes

The slot table with generation tags, the frames that own slots, and the
engine's stack of handle scopes that keep the Locals alive. Guest calls
(callbacks, finalizers, interrupts) push an implicit frame; the guest may open,
close, escape and mint in any legal or illegal order, and leave scopes open
when it returns. `Release` is the drain and reset of `DisposeBridgeState`;
finalizers run afterwards on the emptied tables. Which free slot is reused is
left open, a superset of the code's last-freed-first order. `uses` and `handed`
are auxiliary. Engine scopes are external, modelled from how the bridge uses
them: closing a scope closes those above it.

### V8Platform

`EdgeV8Platform` and its use by the V8 provider. V8 posts foreground tasks from
any thread (`PostBegin` to `PostFallback`, one action per atomic access or
critical section); a task goes to the embedder's hook when a target is bound, and
otherwise to libplatform's queue, which only a checkpoint runs and for which the
waker is called. An isolate's owner creates it, attaches a hook, is terminated
and cancels, and disposes of it in the order of `DisposeIsolateAndWait`: add the
finished callback, shut the runner down (`NotifyRunner`), shut libplatform down
(`NotifyFallback`, which drops the queue), `BeginShutdown`,
`MaybeFinishIsolate`, `DisposeReturns`, `UnregisterIsolate`,
`MaybeFinishIsolate` again, all under the lifecycle lock, then the wait without
it. The platform keys its states by address, so the isolates of the model share
one address: a successor may live while the release before it still waits. A
state is `<<i, "main">>`, made at registration, or `<<i, "late">>`, made when V8
asks for a runner after the first has left the map.

libplatform and V8 are external, modelled from how `edge_v8_platform.cc` uses
them: a runner is made on demand, a terminated runner drops what is posted to it,
and `isolate->Dispose()` returns only when no thread is posting to the isolate.
The two critical sections of `CompletePendingForegroundTask` are one step, and
the three stores of a target are one; the module says why. Which task a
checkpoint runs is left open. `called` and `stray` are auxiliary: the calls of a
waiter, and whether libplatform made a runner for an isolate it had shut down.

### NapiCalls, with NapiProgram, V8Calls and QuickJsCalls

What the calls of both providers do to exceptions and terminations. Each call is
straight-line C++: argument checks, a guard against a terminating env, an engine
operation that may run user JavaScript, a check of what it left behind.
`NapiProgram` names these steps (`Guard`, `Try`, `Bare`, `Loose`, `Quiet`,
`Timed`, `Make`, `Raise`, `Clear` ...), `V8Calls` and `QuickJsCalls` give every
call its steps in source order, and `NapiCalls` runs them (its constant `Paths`): JavaScript calls a
native function, which makes calls of the table, which may run JavaScript, two
levels deep (`MaxJs`). Another thread terminates at any point, in two steps (the
flag, then the engine); a script may run under a timeout; the env's own thread
may cancel. What a call computes is left out, and so is `last_error`. Argument
checks change nothing but the status, so a call may fail before and after its
other steps.

External, from how the code uses the engines: entering V8 makes it forget an
exception left in it (`v8/src/internal/napi_v8_env.h:292`); an exception QuickJS
still holds stays there until somebody takes it. `compile_function`, the bytecode
calls, `define_lazy_data_properties` and `mark_promise_as_handled` are not in the
tables: they go on after, or rethrow, an exception of a nested call in ways no
step expresses.

### EnvRelease, implemented by V8Release and QuickJsRelease

`EnvRelease` is the contract of `unofficial_napi_release_env`
(`include/unofficial_napi.h:231-306`): what was registered with an env (hooks,
references with finalizers, external buffers, realm tokens, instance data) stays live
until it is withdrawn or run, runs once, and the release ends only when none is
live; callbacks may register more while it runs. During a release external buffers
are finalized most recent first, and the instance data after everything else. `V8Release` and
`QuickJsRelease` are the two implementations, each shown to implement the
contract (`KeepsContract`, an `INSTANCE EnvRelease WITH` the detailed state).

`V8Release` has the collector queue finalizers, sweeper threads run the deleter of
an external buffer, and drains posted to the env's thread, all at any point of the
rounds of `napi_env__::~napi_env__`. One action is one critical section of the
external buffers' lock or one callback. Lists are sets of numbered registrations:
an order is kept where the code picks the most recent one. `QuickJsRelease` has no other
thread; its difficulty is re-entry, a finalizer that frees, transfers or removes
what is being finalized. Buffers that `transfer()` made are not told apart: V8's
has let go of the store (`Detach`), QuickJS's holds memory that moved. A transfer
by the finalizer of a buffer that is being let go of leaves the new buffer with a
hint that is then destroyed (holder `astray`); letting go of that buffer reads the
destroyed hint, which is undefined: the model keeps the one outcome that the
memory was not reused and still says `released_`, so nothing more is done. What
the properties say of such a buffer's hint afterwards holds for that outcome only.

### ModuleLoader

The module records of both providers (`engine` chooses), their links, the
engine's own status of each module, and a stack of calls of the loader: script
run by an evaluation, by a synthetic module's steps or by the error of a failing
link may call the loader again. The engines' linker and evaluator are external,
written after the algorithms of ECMAScript, with the assertions that end the
process: V8 aborts for a synthetic module whose steps are running, QuickJS for a
link that reaches an evaluating module. A V8 source module that an outer
evaluation is in the middle of is passed over. One realm; an `await` counts as
the end of a body; dynamic imports, terminations, requests with equal keys and
caches are left out. `severed` is auxiliary: a record the engine still imports
was destroyed, after which the guards no longer see what the engine sees (see
Findings).

### BridgeHandles, with BridgeImports

The handle tables of the bridge other than values: references, deferreds, module,
bytecode, profile and lease handles, the callback registry, and the messages any
env of the process may take. `BridgeImports` gives each import, in source order, a
shape: the table it loads from, the table that gets what it made, whether it ends
the loaded resource (never, on success, always, unless refused), whether guest
code may run inside it, whether it leaves a finalizer record. `BridgeHandles` runs them, with guest calls nested inside the ones
that run JavaScript, a message that another thread may take, and the release,
which resets tables and counters, then lets finalizers run. Only the imports that
lend the running guest to the engine can be re-entered. It is the bridge over
the V8 provider. Over QuickJS `napi_resolve_deferred` consumes the deferred also when it
fails (`quickjs/src/js_native_api_quickjs.cc:2201-2237`), for which the bridge's
rule to remove the entry only on success would leave a stale one.

The definitions marked *Slip* beside an action are plausible mistakes in that
action; no next-state relation uses them. They show that each property would
notice the mistake.

## Runs

| run | instance | question |
|---|---|---|
| `budget` | 2 stores, total 5, fixed cost 2, old generation 1 or 2, growth step 1, at most 1 env when capped | are the counters exact (`Conservation`) and bounded (`Limits`) at every interleaving; does a release end? |
| `env_safety` | 2 envs, 2 addresses, call depth 2, 2 finalizers, 1 interrupt each | pointers and frames (`PointersSafe`), charge and interrupts (`Accounts`), what a release leaves, the stop |
| `env_release` | 1 env | does a release that has begun end? |
| `cancel_undoes_stop` | 1 env | expected violation, see Findings |
| `handles` | 3 slots, 2 generations, limit 2, 4 values, 4 scopes | do ids name one live value or null (`IdsSound`, `ValuesAlive`), do callers keep their frames? |
| `platform` | 2 isolates at one address, 2 posting threads, 2 tasks | counts, registration, ownership of the queue, wake-ups, one call per waiter; does the wait of a release end? |
| `calls` | both engines, JavaScript 2 deep, 2.3 million states | does a stopped script unwind, does a cancel leave nothing, is a failure explained by what is pending, are nested exceptions kept apart? |
| `v8_release` | 3 registrations, 426 thousand states | does the release keep the contract and end, is no hint used after it is gone, is a queued finalizer always owed a drain? |
| `quickjs_release` | 4 registrations, 355 thousand states | the same contract; is a hint freed once, and its buffer detached before its finalizer? |
| `modules` | 3 modules, 2 requests each, scripts 2 deep, both engines, 2.4 million states | can script make the loader take the engine where it ends the process; does a call leave a record or an instantiation behind? |
| `modules_abort` | the same | expected violation, see Findings |
| `bridge` | 3 resources, nesting 2, 551 thousand states | has an engine resource one owner, does an id name one thing, does the release reclaim everything? |

Bounds. In `budget` the total of 5 lets one default env (4 bytes) and one
growth step fit, or two small envs not quite: charges, reservations and grants
are denied and granted in every order, and two threads are enough for every
conflict of one compare-and-swap with another. In `env_safety` two envs are
needed for address reuse while a foreign thread holds an old pointer, depth 2
for a nested guest call, two finalizers for one that runs and one that is
refused after a stop; envs and addresses are symmetric. In `handles` two
generations make the wrap happen within the bound, four scopes give a callback
inside a callback with a scope left open. In `platform` a second
isolate is what reuse of the address needs, and two tasks give a state one that
completes while another is being handed over, or a task of each isolate. In
`calls` depth 2 gives a native function called by JavaScript that a native
function called: what one leaves behind can reach the other. In `v8_release`
three registrations give one that is running, one that it makes and one that
another thread lets go of meanwhile; QuickJS, with no other thread, affords four.
In `modules` three modules make a chain to a synthetic module, a cycle, and a
module two others import; they are interchangeable and the run uses that symmetry. In `bridge` nesting 2 is a
finalizer during an import of a callback.
Runs whose counters are spent (`CHECK_DEADLOCK FALSE` in their cfg) stop
because everything the bound allows has been done, or because the env is gone or
the process has ended.

Fairness. `ResourceBudget` assumes weak fairness of each thread inside an
operation: it is running native code that waits for nobody (a spurious failure
of the compare-and-swap is a stuttering step). `EnvLifecycle` assumes weak
fairness of native code, strong fairness for obtaining the registry mutex, and
that guest code and JavaScript started by a release return, which is the
guest's part of the contract: the host cannot force it except by terminating
the env. `V8Platform` assumes that as long as some native thread can take a step
of a post or of a release, or a record in the hook's hands can be cleaned up,
one of these is done: the steps wait for nobody but one another, and cleaning up
is the hook's part of its contract (`unofficial_napi.h`). Checkpoints get no
fairness: a release must not depend on them. `V8Release` and `QuickJsRelease`
assume that the env's thread goes on with a release it has begun, that a callback
returns, and that the foreground-task hook answers a post (the embedder's part of
the contract). The collector and the sweepers get none.

## Findings

1. `cancel_undoes_stop`: the cancel import reads `host_stopped` and cancels
   afterwards, without the registry lock (`src/guest/napi.rs:632`). A whole
   `terminate_all` fits in between and is undone, although `src/ctx.rs:102`
   says guest code cannot undo it.
2. `modules_abort`: before it links or evaluates, the loader looks for a module
   that is being evaluated along the links of the records, and skips a destroyed
   record (`quickjs/src/internal/napi_module_wrap.cc:905-925`,
   `v8/src/unofficial_napi_contextify.cc:3022-3050`). The engine follows its own
   edges, which outlive the record: with A evaluating, C linked to B, B to A and
   B's record destroyed, instantiating C is not refused and reaches A. The
   comment at `napi_module_wrap.cc:897` says such a link is refused.

Seen while modelling, with no run of their own:

- `napi_agent__::Shutdown` clears `termination_requested`
  (`v8/src/unofficial_napi.cc:1830`) also for an env the host has stopped, so
  finalizers of its release run, although `src/ctx.rs:101` says the app's
  JavaScript never runs again. `StopHoldsUnlessUndone` shows that this and the
  first finding are the only ways.
- The release clears the slot table, so generations restart at 0 while
  finalizers mint values: an old id may resolve to a new value, contrary to the
  comment at `src/napi_bridge_init.cc:94`; and a registration made by a finalizer
  reuses callback id 1, though the comment before the release says such ids have
  no registry entry. Bytecode and leases a finalizer makes then are not released.
- At the value limit id 0 is handed out with `napi_ok`, not with a failure as the
  comment at `src/napi_bridge_init.cc:423` says.
- A post that straddles the shutdown of its isolate leaves a counted task in a
  queue nobody runs (`v8/src/edge_v8_platform.cc:253`): the release waits
  forever. `ReleaseReturns` shows this to be the only way.
- `NotifyIsolateShutdown` may take an isolate off the map before V8 disposes of
  it, although the comment at `v8/src/edge_v8_platform.cc:494` wants it kept.
- Some calls that may run JavaScript have no guard (`V8TypeTags`, `V8Details` and
  others), although `include/unofficial_napi.h:602` says calls into JavaScript
  fail until a termination is cancelled; and one of them, made after a script
  timeout, lets `v8/src/js_native_api_v8.cc:720-736` turn the timeout's
  termination into a catchable exception.
- `unofficial_napi_mark_promise_as_handled` rethrows into V8 and returns
  `napi_pending_exception` with nothing for `napi_get_and_clear_last_exception`
  to return (`v8/src/unofficial_napi.cc:2728`).
- QuickJS marks a buffer detached only after the free callback returned
  (`quickjs/src/internal/napi_external_backing_store_hint.cc:108`, a comment on the
  engine, whose source is not here). A finalizer that an explicit detach runs in an
  open env can therefore `transfer()` its own buffer, and the new one keeps the
  hint destroyed at line 122. `HintsOwnedOnce` shows this to be the only way.
- V8's drain runs the references the collector queued before newer ones that are
  still alive, where `include/unofficial_napi.h:241` says most recent first; the
  contract module therefore orders the kinds and not the references.

## Proofs

`ResourceBudgetProofs` proves, for any number of threads and any sizes and
limits (only `ConstantsAssumption`): type correctness, that a limited total and
the accountant's total stay within their limits, that total, accountant and
pools are exactly the sums of what the threads hold, that the pools never
exceed the total, that isolate slots are counted and capped, and that V8's heap
limit stays within the charge.

None of these is inductive alone. The inductive invariant adds
`CallsConsistent`: what is true of a call at each control point (a value that
passed `Fits` is still in `seen`; the pool of a call is the one its kind
charges; an env being reserved or released holds no heap limit). The argument
has one lemma per fact and one case per action: `ThreadLocal` (a step changes
the share of one thread only), `ThreadCounters` (the counters move by exactly
the change of that share), `SumsFollow` (so they stay equal to the sums, by the
lemmas at the head of the module), `ThreadConsistent` and `ThreadBounded`. Those
lemmas prove by induction over naturals how a sum changes when one term does.

`EnvLifecycleProofs` proves, for any number of envs, addresses, finalizers and
interrupts, every safety property of the `env_safety` run. The inductive
invariant `Inv` has five parts. `AddressInv` relates tables to memory: which
address an env's state has in each phase, that two envs never share one that is
in use, who still counts as a holder of it, and when registry and `g_envs` must
and must not name it. `FrameInv` says where the owner stands (how many frames
are on its stack in each phase, when JavaScript may be among them) and which of
agent, isolate and charge exist there. `RequestsInv` says which interrupt
requests exist and who will delete each. `StopInv` is what
`StopHoldsUnlessUndone` needs of the loop of `terminate_all`: an env it has
passed, or one that commits its isolate after the flag was set, is terminated,
or is in a release that starts no further guest code, unless `undone` says
otherwise. The properties fail to be inductive without them:
that a foreign thread may use a pointer, for instance, depends on the holder
count, and that one on the phase of the release. `BridgeEffect` says once what
the bridge's terminate changes; `AddressStep`, `FrameStep`, `RequestsStep` and
`StopStep` then have one case per action.

`LimitsHold`, `CountersExact`, `PointersAreSafe` and `AccountsHold` collect these
results into the properties the runs check; the theorems before them state the
parts.

`HandleScopesProofs` proves every property of the `handles` run for any
number of slots, generations, scopes and nested calls. That a Local outlives its
id depends on where its engine scope lies, so the inductive invariant describes
the three stacks together (`Layout`): tokens rise from the env-wide frame up
(`FramesOK`, `ScopesOK`), each frame has its scope right above the scope of the
frame below, with V8's own scope between them for an implicit frame (`Matched`),
and each running call still finds what was below it (`CallsOK`). `LayoutOpen` and
`LayoutEnter` say what a new scope and a new call leave in place. Everything that
closes scopes is one lemma, `LayoutCut`: the stacks may be cut at a frame and a
scope that belong together, above every call that goes on; closing a scope,
returning and the release are shown to cut there. `OwnedBy` and `AliveIn` then
follow the slots, and `HandedInv` says how far a slot's generation has moved since
an id was given out: that is what makes a stale id null until the generations
have gone round, and not longer.

`V8ReleaseProofs` and `QuickJsReleaseProofs` prove that each release implements
`EnvRelease` (`ReleaseImplementsContract`: the whole contract is a safety
specification, so the refinement has no part left to TLC) and the providers' own
invariants, for any registrations. What makes them hard is re-entry: a finalizer
may register, drop and run more while a pass over a list is on the stack below
it. `StackInv` therefore says where the thread may stand and which frames may be
below which; in V8's module `ListInv` gives for every kind and life of an item
the list that names it, `StoreInv` who holds the finalizer of an external buffer
(the env's list, the drain queue, a claim, or a deleter on another thread),
`PostInv` which drain is on its way; in QuickJS's module `ItemInv` says of each
item who destroys its hint and how buffer and memory part, and that memory goes
astray only once its finalizer was called. `EndInv` says what is
gone at each point of the release, so that nothing is left when it ends. The
refinement is then one lemma per group of actions (`ContractUser`,
`ContractDrain`, `ContractLists`, `ContractStores`, `ContractTeardown`...), each
mapping a step to a call, a withdrawal, a phase change or a stutter.

`BridgeHandlesProofs` proves one owner per resource, that ids lead to what they
were given for, and that the release reclaims, for any imports of the shapes in
`BridgeImports`. `OneOwner` counts, so the proof replaces it by facts about single
entries: `TableInv` (an entry leads to a live resource of its table, no two to the
same), `HoldInv` (what a thread has in its hands is in no entry), `OwnedInv`
(nothing alive is without either), `GivenInv` (an id is below its table's counter,
and leads where it did), `LateInv` (what the reset left). `OwnersAre` turns them
into the cardinalities of the property.

`V8PlatformProofs` proves the five safety properties of the `platform` run for
any number of isolates made at one address, threads and tasks. `OrderInv` is the
basis: lives at the address do not overlap, and the phases of an owner come in
order. `RegInv` and `ShutInv` say which state the map holds and which states are
being shut down, `CountInv` that a state's counter is its queued tasks plus the
threads that are about to hand one over, `CallInv` which waiter was called,
`PostInv` what a posting thread may still rely on after it let go of the lock,
`QueueInv` whose tasks the default platform holds and `WakeInv` which of them
have a wake-up. `NoLostWakeup` needs all of them: a post may find its runner in
the middle of any phase of the shutdown of an earlier isolate.

`ReentryProofs` proves the properties of the `calls` and `modules` runs. Both
components are re-entered by script while their own calls are on the stack, so in
both the invariant describes the stack. The module extends both models, so the
loader's specification is called `LoaderSpec`.

For NapiCalls the results hold at any depth of nesting and for any table of calls
whose paths consist of the steps `PathsAssumption` allows; TLC evaluates that
assumption on the tables of `V8Calls` and `QuickJsCalls`, which are the value of the
constant `Paths` in the run. No induction over the paths is needed, because the
invariant says of each frame what holds whichever step comes next. The five
properties are inductive only together with: what a callback's caller had pending is
no termination and names the native frame that had it, the innermost one below
(`SavedNoTermination`, `SavedByCaller`); scripts stay marked as stopped only while
the request stands (`StoppedByRequest`); a status is there only for native code on top
(`StatusForNative`); QuickJS terminates by its flag alone (`FlagOnly`). Exceptions
name native frames by number, so the lemmas at the head say how a push, a pop and the
marking of scripts change the number of native frames below each frame.

For the loader `LoaderInv` has the stack, the counters and the records. `FramesNest`
says which frame may lie below which. `StatusOwned` and `Apart` say that a module
being linked or evaluated is in the hands of exactly one frame and at most one
place in it; `EvaluationsConnected` that each evaluation's path is one along the
engine's edges and that a module that waits is on a cycle with one on the path, so
that it never waits for an evaluation that has gone. `Counted` ties
`instantiations`, `steps_running` and `active_calls` to the frames, `RecordsKept`
the deferred frees to the calls. From these follow type correctness,
`CallsLeaveNothing` and, step by step, `NeverBack`. `EngineContract` also needs
the graph: an instantiated module's imports are instantiated
(`ImportsInstantiated`); while nothing is severed the records the guards walk show
the engine's edges (`RecordsShowEdges`); and no evaluation has ahead of it a
synthetic module whose steps run below it (`StepsNotAhead`). The last is the
guards' whole purpose: the walk that `Evaluate` makes over records covers
everything the engine will meet, and no later step adds to what lies ahead of an
evaluation under way. The set a walk reaches is defined as the least closed set
(`Reached`), which gives the proofs their two rules: it is closed, and it is within
any closed set that has the start.

All of these rest only on the named assumptions on constants in the component's
module, and each inductive invariant was checked with TLC on the instance of the
component's run before it was proved.

Only model-checked: liveness (`ReleaseCompletes`, `ReleaseFinishes`,
`ReleaseReturns`, `ReleaseEnds`), as fairness is out of the prover's reach, and that
the tables of `V8Calls` and `QuickJsCalls` satisfy `PathsAssumption`. The two
findings are violations and have no theorem.

## Not modelled, and the plan

Every safety property a run checks is stated by a theorem. What the plan has left is
to model more of the code:

- The Rust side of guest calls: marshalling (`src/guest/abi.rs`, `util.rs`),
  callback dispatch with its function cache and depth bound, and the sharing of a
  budgeted linear memory, which turns on what the wasm runtime does with its
  memory handles.
- The guest heap: an allocator under one mutex over a third-party placement
  crate; its charge is the budget's.
- Realms, interceptors, dynamic import, caches and top-level await of contextify:
  mostly calls of the engine, with no guard of their own worth a property.
- Message serialization, profilers, error metadata and source maps, promise
  hooks' bodies, QuickJS's job queue.
- The host-JS backend: single-threaded tables over the host's JavaScript.
- Values the calls compute, error texts, command line and build.
