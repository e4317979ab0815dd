---------------------------- MODULE EnvLifecycle ----------------------------
(***************************************************************************)
(* The life of the N-API environments of one application: creation and     *)
(* registration (src/src/env.rs), guest calls, interrupts, termination and *)
(* release (src/src/napi_bridge_init.cc), the host's terminate_all         *)
(* (src/src/ctx.rs) and the cancel import (src/src/guest/napi.rs), over    *)
(* the V8 provider's termination flag (v8/src/unofficial_napi.cc).         *)
(*                                                                         *)
(* Each env has an owner thread; terminate_all runs on a thread of its     *)
(* own, and any owner may terminate any registered env.  An env is         *)
(* addressed through the heap address of its SnapiEnvState, which may be   *)
(* allocated again once its last holder is gone.  A critical section of    *)
(* g_mu is one action; the registry lock is held across actions only by    *)
(* terminate_all (control = "locked").                                     *)
(***************************************************************************)
EXTENDS Naturals, FiniteSets

CONSTANTS
    Envs,           \* environments, each with a registry id of its own
    Addrs,          \* heap addresses a SnapiEnvState may be allocated at
    MaxDepth,       \* bound of the model: nested guest calls of one env
    MaxFinalizers,  \* guest finalizers left when an env is released
    Requests,       \* interrupt requests an env may ever receive
    NoEnv, NoAddr

ASSUME ConstantsAssumption ==
    /\ {MaxDepth, MaxFinalizers} \subseteq Nat
    /\ NoEnv \notin Envs /\ NoAddr \notin Addrs

VARIABLES
    (* the application *)
    registry,       \* EnvRegistry.envs: the ids in it
    hostStopped,    \* host_stopped
    control,        \* terminate_all: "idle", "flagged" or "locked"
    todo,           \* the envs its loop has still to terminate
    stopDone,       \* some terminate_all has returned
    (* the process heap and the bridge's table of envs *)
    heap,           \* the env whose SnapiEnvState is at an address
    holders,        \* SnapiEnvState.holders
    genvs,          \* g_envs
    (* one env: the owner's progress and its stack *)
    phase, addr,
    top,            \* what runs on the owner thread: "guest", "js", "native"
    guestCalls,     \* SnapiAgentState.guest_calls
    cancelling,     \* a cancel import has read host_stopped = false
    charged,        \* the heap charge, isolate slot and tracker are kept
    (* one env: the bridge's agent *)
    closing, stopRequested, teardownCalls,
    pending,        \* pending_interrupts
    (* one env: the engine *)
    engine,         \* the napi_env and the isolate exist
    terminated,     \* napi_agent__.termination_requested
    queued,         \* requests the engine holds
    finalizers,     \* finalizers the release has still to run
    (* auxiliary *)
    live,           \* WasmInterruptRequests allocated and not deleted
    undone          \* how a termination was undone after the host's stop

app    == <<registry, hostStopped, control, todo, stopDone>>
memory == <<heap, holders, genvs>>
thread == <<phase, addr, top, guestCalls, cancelling, charged>>
agent  == <<closing, stopRequested, teardownCalls>>
intr   == <<pending, queued, live>>
v8     == <<engine, terminated, finalizers, undone>>
vars   == <<app, memory, thread, agent, intr, v8>>

Phases == {"unborn", "created", "registered", "running", "closing",
           "finalizing", "disposed", "erased", "dropped", "removed",
           "unretained", "done", "leaked"}

TypeOK ==
    /\ registry \subseteq Envs /\ todo \subseteq Envs
    /\ hostStopped \in BOOLEAN /\ stopDone \in BOOLEAN
    /\ control \in {"idle", "flagged", "locked"}
    /\ heap \in [Addrs -> Envs \cup {NoEnv}]
    /\ holders \in [Addrs -> Nat]
    /\ genvs \subseteq Addrs
    /\ phase \in [Envs -> Phases]
    /\ addr \in [Envs -> Addrs \cup {NoAddr}]
    /\ top \in [Envs -> {"guest", "js", "native"}]
    /\ guestCalls \in [Envs -> Nat] /\ teardownCalls \in [Envs -> Nat]
    /\ finalizers \in [Envs -> Nat]
    /\ cancelling \in [Envs -> BOOLEAN] /\ charged \in [Envs -> BOOLEAN]
    /\ closing \in [Envs -> BOOLEAN] /\ stopRequested \in [Envs -> BOOLEAN]
    /\ engine \in [Envs -> BOOLEAN] /\ terminated \in [Envs -> BOOLEAN]
    /\ pending \in [Envs -> SUBSET Requests]
    /\ queued \in [Envs -> SUBSET Requests] /\ live \in [Envs -> SUBSET Requests]
    /\ undone \in [Envs -> SUBSET {"cancel", "release"}]

Init ==
    /\ registry = {} /\ todo = {}
    /\ hostStopped = FALSE /\ stopDone = FALSE /\ control = "idle"
    /\ heap = [a \in Addrs |-> NoEnv] /\ holders = [a \in Addrs |-> 0]
    /\ genvs = {}
    /\ phase = [e \in Envs |-> "unborn"] /\ addr = [e \in Envs |-> NoAddr]
    /\ top = [e \in Envs |-> "native"]
    /\ guestCalls = [e \in Envs |-> 0] /\ teardownCalls = [e \in Envs |-> 0]
    /\ finalizers = [e \in Envs |-> MaxFinalizers]
    /\ cancelling = [e \in Envs |-> FALSE] /\ charged = [e \in Envs |-> FALSE]
    /\ closing = [e \in Envs |-> FALSE] /\ stopRequested = [e \in Envs |-> FALSE]
    /\ engine = [e \in Envs |-> FALSE] /\ terminated = [e \in Envs |-> FALSE]
    /\ pending = [e \in Envs |-> {}] /\ queued = [e \in Envs |-> {}]
    /\ live = [e \in Envs |-> {}] /\ undone = [e \in Envs |-> {}]

Move(e, from, to) == phase[e] = from /\ phase' = [phase EXCEPT ![e] = to]

(* The owner thread runs guest code, and not inside a cancel import. *)
InGuest(e) ==
    phase[e] \in {"running", "finalizing"} /\ top[e] = "guest" /\ ~cancelling[e]

(* The registry's mutex is free. *)
RegistryFree == control # "locked"

-----------------------------------------------------------------------------
(* Termination *)

(* snapi_bridge_unofficial_terminate_execution on the pointer at. *)
BridgeTerminate(at) ==
    IF at \notin genvs
    THEN UNCHANGED <<stopRequested, terminated>>
    ELSE LET e == heap[at] IN
         /\ stopRequested' = [stopRequested EXCEPT ![e] = @ \/ closing[e]]
         /\ terminated' = [terminated EXCEPT
               ![e] = @ \/ ~(closing[e] /\ teardownCalls[e] = 0)]

(* terminate_all: the flag is set first, then the registry is locked. *)
TerminateAll ==
    /\ control = "idle"
    /\ hostStopped' = TRUE
    /\ control' = "flagged"
    /\ UNCHANGED <<registry, todo, stopDone, memory, thread, agent, intr, v8>>

TerminateAllLock ==
    /\ control = "flagged"
    /\ control' = "locked"
    /\ todo' = registry
    /\ UNCHANGED <<registry, hostStopped, stopDone, memory, thread, agent, intr, v8>>

TerminateAllEnv(e) ==
    /\ control = "locked" /\ e \in todo
    /\ todo' = todo \ {e}
    /\ BridgeTerminate(addr[e])
    /\ UNCHANGED <<registry, hostStopped, control, stopDone, memory, thread,
                   closing, teardownCalls, intr, engine, finalizers, undone>>

TerminateAllReturn ==
    /\ control = "locked" /\ todo = {}
    /\ control' = "idle"
    /\ stopDone' = TRUE
    /\ UNCHANGED <<registry, hostStopped, todo, memory, thread, agent, intr, v8>>

(* terminate_app_env: guest code of any store, under the registry lock. *)
TerminateAppEnv(e) ==
    /\ RegistryFree /\ e \in registry
    /\ BridgeTerminate(addr[e])
    /\ UNCHANGED <<app, memory, thread, closing, teardownCalls, intr,
                   engine, finalizers, undone>>

(* A denied heap growth stops the application and terminates this env.     *)
(* V8's callback is removed by Shutdown, before any finalizer runs.        *)
NearHeapDenied(e) ==
    /\ phase[e] = "running" /\ top[e] = "js"
    /\ hostStopped' = TRUE
    /\ BridgeTerminate(addr[e])
    /\ UNCHANGED <<registry, control, todo, stopDone, memory, thread,
                   closing, teardownCalls, intr, engine, finalizers, undone>>

(* guest_unofficial_napi_cancel_terminate_execution, first half: the flag  *)
(* is read; when it is set the env is terminated again instead.            *)
CancelTest(e) ==
    /\ InGuest(e)
    /\ \/ /\ hostStopped
          /\ BridgeTerminate(addr[e])
          /\ UNCHANGED cancelling
       \/ /\ ~hostStopped
          /\ cancelling' = [cancelling EXCEPT ![e] = TRUE]
          /\ UNCHANGED <<stopRequested, terminated>>
    /\ UNCHANGED <<app, memory, phase, addr, top, guestCalls, charged,
                   closing, teardownCalls, intr, engine, finalizers, undone>>

(* Second half: unofficial_napi_cancel_terminate_execution. *)
CancelClear(e) ==
    /\ cancelling[e]
    /\ cancelling' = [cancelling EXCEPT ![e] = FALSE]
    /\ terminated' = [terminated EXCEPT ![e] = FALSE]
    /\ undone' = [undone EXCEPT ![e] = IF hostStopped THEN @ \cup {"cancel"} ELSE @]
    /\ UNCHANGED <<app, memory, phase, addr, top, guestCalls, charged, agent,
                   intr, engine, finalizers>>

-----------------------------------------------------------------------------
(* Creation *)

(* reserve_isolate, create_env and NewAgentWithPrincipalEnv. *)
Create(e) ==
    /\ Move(e, "unborn", "created")
    /\ \E a \in Addrs :
          /\ heap[a] = NoEnv
          /\ heap' = [heap EXCEPT ![a] = e]
          /\ holders' = [holders EXCEPT ![a] = 1]
          /\ genvs' = genvs \cup {a}
          /\ addr' = [addr EXCEPT ![e] = a]
    /\ engine' = [engine EXCEPT ![e] = TRUE]
    /\ charged' = [charged EXCEPT ![e] = TRUE]
    /\ UNCHANGED <<app, top, guestCalls, cancelling, agent, intr,
                   terminated, finalizers, undone>>

(* Slip: the registry's pointer is not retained. *)
RegisterUnretained(e) ==
    /\ RegistryFree
    /\ Move(e, "created", "registered")
    /\ registry' = registry \cup {e}
    /\ UNCHANGED <<hostStopped, control, todo, stopDone, memory, addr, top,
                   guestCalls, cancelling, charged, agent, intr, v8>>

(* register_napi_env: publish the pointer and retain it, under the lock. *)
Register(e) ==
    /\ RegistryFree
    /\ Move(e, "created", "registered")
    /\ registry' = registry \cup {e}
    /\ holders' = [holders EXCEPT ![addr[e]] = @ + 1]
    /\ UNCHANGED <<hostStopped, control, todo, stopDone, heap, genvs, addr, top,
                   guestCalls, cancelling, charged, agent, intr, v8>>

(* Slip: an isolate created after the stop is not terminated. *)
CommitIsolateUnchecked(e) ==
    /\ RegistryFree
    /\ Move(e, "registered", "running")
    /\ top' = [top EXCEPT ![e] = "guest"]
    /\ UNCHANGED <<app, memory, addr, guestCalls, cancelling, charged,
                   agent, intr, v8>>

(* commit_isolate: test host_stopped under the registry lock. *)
CommitIsolate(e) ==
    /\ RegistryFree
    /\ Move(e, "registered", "running")
    /\ top' = [top EXCEPT ![e] = "guest"]
    /\ IF hostStopped THEN BridgeTerminate(addr[e])
                      ELSE UNCHANGED <<stopRequested, terminated>>
    /\ UNCHANGED <<app, memory, addr, guestCalls, cancelling, charged,
                   closing, teardownCalls, intr, engine, finalizers, undone>>

-----------------------------------------------------------------------------
(* JavaScript, guest callbacks and interrupts on the owner thread *)

Run(e, who) == top' = [top EXCEPT ![e] = who]

(* An N-API call that runs JavaScript; it fails while termination is asked. *)
JsEnter(e) ==
    /\ InGuest(e) /\ ~terminated[e]
    /\ Run(e, "js")
    /\ UNCHANGED <<app, memory, phase, addr, guestCalls, cancelling, charged,
                   agent, intr, v8>>

JsReturn(e) ==
    /\ top[e] = "js"
    /\ Run(e, "guest")
    /\ UNCHANGED <<app, memory, phase, addr, guestCalls, cancelling, charged,
                   agent, intr, v8>>

(* generic_wasm_callback, or a finalizer the collector runs, while the env *)
(* is not being released: GuestCallScope only counts the call.             *)
GuestEnter(e) ==
    /\ phase[e] = "running" /\ top[e] = "js" /\ guestCalls[e] < MaxDepth
    /\ Run(e, "guest")
    /\ guestCalls' = [guestCalls EXCEPT ![e] = @ + 1]
    /\ UNCHANGED <<app, memory, phase, addr, cancelling, charged, agent, intr, v8>>

(* Slip: a scope that was not counted during teardown is discounted. *)
GuestLeaveUncounted(e) ==
    /\ InGuest(e) /\ guestCalls[e] > 0
    /\ guestCalls' = [guestCalls EXCEPT ![e] = @ - 1]
    /\ teardownCalls' = [teardownCalls EXCEPT ![e] = @ - 1]
    /\ Run(e, IF closing[e] /\ guestCalls[e] = 1 THEN "native" ELSE "js")
    /\ UNCHANGED <<app, memory, phase, addr, cancelling, charged,
                   closing, stopRequested, intr, v8>>

(* Slip: the end of a guest call is not counted. *)
GuestLeaveStillCounted(e) ==
    /\ InGuest(e) /\ guestCalls[e] > 0
    /\ guestCalls' = [guestCalls EXCEPT ![e] = @ - 1]
    /\ Run(e, IF closing[e] /\ guestCalls[e] = 1 THEN "native" ELSE "js")
    /\ UNCHANGED <<app, memory, phase, addr, cancelling, charged, agent, intr, v8>>

(* The guest code returns and the GuestCallScope ends. *)
GuestLeave(e) ==
    /\ InGuest(e) /\ guestCalls[e] > 0
    /\ guestCalls' = [guestCalls EXCEPT ![e] = @ - 1]
    /\ teardownCalls' = [teardownCalls EXCEPT ![e] = IF closing[e] THEN @ - 1 ELSE @]
    /\ Run(e, IF closing[e] /\ guestCalls[e] = 1 THEN "native" ELSE "js")
    /\ UNCHANGED <<app, memory, phase, addr, cancelling, charged,
                   closing, stopRequested, intr, v8>>

(* snapi_bridge_unofficial_request_interrupt, from the owner or, after the *)
(* store moved, from another thread: the engine only queues the request.   *)
RequestInterrupt(e) ==
    /\ phase[e] \in {"running", "finalizing"}
    /\ addr[e] \in genvs /\ ~closing[heap[addr[e]]]
    /\ \E r \in Requests \ live[e] :
          /\ live' = [live EXCEPT ![e] = @ \cup {r}]
          /\ pending' = [pending EXCEPT ![e] = @ \cup {r}]
          /\ queued' = [queued EXCEPT ![e] = @ \cup {r}]
    /\ UNCHANGED <<app, memory, thread, agent, v8>>

(* Slip: the request stays in pending_interrupts after it was deleted. *)
InterruptCallbackKeeps(e) ==
    /\ top[e] = "js"
    /\ \E r \in queued[e] :
          /\ queued' = [queued EXCEPT ![e] = @ \ {r}]
          /\ live' = [live EXCEPT ![e] = @ \ {r}]
    /\ UNCHANGED <<app, memory, thread, agent, pending, v8>>

(* WasmInterruptCallback at an interrupt point of JavaScript; it deletes   *)
(* its request, and runs no guest code once the env is being released.     *)
InterruptCallback(e) ==
    /\ top[e] = "js"
    /\ \E r \in queued[e] :
          /\ queued' = [queued EXCEPT ![e] = @ \ {r}]
          /\ pending' = [pending EXCEPT ![e] = @ \ {r}]
          /\ live' = [live EXCEPT ![e] = @ \ {r}]
    /\ \/ closing[e] /\ UNCHANGED <<top, guestCalls>>
       \/ /\ ~closing[e] /\ guestCalls[e] < MaxDepth
          /\ Run(e, "guest")
          /\ guestCalls' = [guestCalls EXCEPT ![e] = @ + 1]
    /\ UNCHANGED <<app, memory, phase, addr, cancelling, charged, agent, v8>>

-----------------------------------------------------------------------------
(* Release *)

(* Slip: a release is accepted inside a guest call of the env. *)
BeginReleaseNested(e) ==
    /\ InGuest(e) /\ ~closing[e]
    /\ Move(e, "running", "closing")
    /\ closing' = [closing EXCEPT ![e] = TRUE]
    /\ Run(e, "native")
    /\ UNCHANGED <<app, memory, addr, guestCalls, cancelling, charged,
                   stopRequested, teardownCalls, intr>>

(* DisposeBridgeState up to closing = true.  The import first asks         *)
(* env_release_refused: inside a guest call of the env nothing happens.    *)
BeginRelease(e) ==
    /\ InGuest(e) /\ guestCalls[e] = 0 /\ ~closing[e]
    /\ Move(e, "running", "closing")
    /\ closing' = [closing EXCEPT ![e] = TRUE]
    /\ Run(e, "native")
    /\ UNCHANGED <<app, memory, addr, guestCalls, cancelling, charged,
                   stopRequested, teardownCalls, intr>>

ReleaseImport(e) == BeginRelease(e) /\ UNCHANGED v8

(* Drop of NapiEnv on the owner thread: no callback context is active, so  *)
(* no finalizer of the guest is run.                                       *)
DropStore(e) ==
    /\ BeginRelease(e)
    /\ finalizers' = [finalizers EXCEPT ![e] = 0]
    /\ UNCHANGED <<engine, terminated, undone>>

(* Slip: the charge is returned although the release was refused. *)
DropElsewhereReturns(e) ==
    /\ InGuest(e) /\ guestCalls[e] = 0
    /\ Move(e, "running", "leaked")
    /\ charged' = [charged EXCEPT ![e] = FALSE]
    /\ UNCHANGED <<app, memory, addr, top, guestCalls, cancelling,
                   agent, intr, v8>>

(* Drop on another thread: the bridge refuses, finish_unregister_napi_env  *)
(* keeps the charge and the registry entry.                                *)
DropElsewhere(e) ==
    /\ InGuest(e) /\ guestCalls[e] = 0
    /\ Move(e, "running", "leaked")
    /\ UNCHANGED <<app, memory, addr, top, guestCalls, cancelling, charged,
                   agent, intr, v8>>

(* napi_agent__::Shutdown: hooks and finalizers run with JS usable. *)
Shutdown(e) ==
    /\ Move(e, "closing", "finalizing")
    /\ terminated' = [terminated EXCEPT ![e] = FALSE]
    /\ undone' = [undone EXCEPT ![e] =
          IF hostStopped /\ terminated[e] THEN @ \cup {"release"} ELSE @]
    /\ UNCHANGED <<app, memory, addr, top, guestCalls, cancelling, charged,
                   agent, intr, engine, finalizers>>

(* Slip: a finalizer that may not run is kept for later. *)
RunFinalizerLater(e) ==
    /\ phase[e] = "finalizing" /\ top[e] # "guest"
    /\ finalizers[e] > 0 /\ ~stopRequested[e]
    /\ finalizers' = [finalizers EXCEPT ![e] = @ - 1]
    /\ Run(e, "guest")
    /\ guestCalls' = [guestCalls EXCEPT ![e] = @ + 1]
    /\ teardownCalls' = [teardownCalls EXCEPT ![e] = @ + 1]
    /\ UNCHANGED <<app, memory, phase, addr, cancelling, charged, closing,
                   stopRequested, intr, engine, terminated, undone>>

(* GuestFinalizerTrampoline during the release: GuestCallScope lets guest  *)
(* code start unless a stop was requested.                                 *)
RunFinalizer(e) ==
    /\ phase[e] = "finalizing" /\ top[e] # "guest"
    /\ finalizers[e] > 0
    /\ finalizers' = [finalizers EXCEPT ![e] = @ - 1]
    /\ \/ stopRequested[e] /\ UNCHANGED <<top, guestCalls, teardownCalls>>
       \/ /\ ~stopRequested[e]
          /\ Run(e, "guest")
          /\ guestCalls' = [guestCalls EXCEPT ![e] = @ + 1]
          /\ teardownCalls' = [teardownCalls EXCEPT ![e] = @ + 1]
    /\ UNCHANGED <<app, memory, phase, addr, cancelling, charged, closing,
                   stopRequested, intr, engine, terminated, undone>>

(* The provider's release returns: the env and the isolate are gone, and   *)
(* with them the interrupts the engine had queued.                         *)
DisposeEngine(e) ==
    /\ top[e] = "native" /\ finalizers[e] = 0
    /\ Move(e, "finalizing", "disposed")
    /\ engine' = [engine EXCEPT ![e] = FALSE]
    /\ queued' = [queued EXCEPT ![e] = {}]
    /\ UNCHANGED <<app, memory, addr, top, guestCalls, cancelling, charged,
                   agent, pending, live, terminated, finalizers, undone>>

(* Under g_mu the env leaves g_envs; unserviced requests are deleted. *)
DisposeErase(e) ==
    /\ Move(e, "disposed", "erased")
    /\ genvs' = genvs \ {addr[e]}
    /\ live' = [live EXCEPT ![e] = @ \ pending[e]]
    /\ pending' = [pending EXCEPT ![e] = {}]
    /\ UNCHANGED <<app, heap, holders, addr, top, guestCalls, cancelling,
                   charged, agent, queued, v8>>

(* DropEnvStateHolder: the last holder deletes the SnapiEnvState. *)
DropEnvStateHolder(at) ==
    /\ holders' = [holders EXCEPT ![at] = @ - 1]
    /\ heap' = [heap EXCEPT ![at] = IF holders[at] = 1 THEN NoEnv ELSE @]

DisposeAgent(e) ==
    /\ Move(e, "erased", "dropped")
    /\ DropEnvStateHolder(addr[e])
    /\ UNCHANGED <<app, genvs, addr, top, guestCalls, cancelling, charged,
                   agent, intr, v8>>

(* finish_unregister_napi_env: registry, pointer, then the charge. *)
FinishRemove(e) ==
    /\ RegistryFree
    /\ Move(e, "dropped", "removed")
    /\ registry' = registry \ {e}
    /\ UNCHANGED <<hostStopped, control, todo, stopDone, memory, addr, top,
                   guestCalls, cancelling, charged, agent, intr, v8>>

(* Slip: the registry's hold is not given back. *)
FinishUnretainSkips(e) ==
    /\ Move(e, "removed", "unretained")
    /\ UNCHANGED <<app, memory, addr, top, guestCalls, cancelling, charged,
                   agent, intr, v8>>

FinishUnretain(e) ==
    /\ Move(e, "removed", "unretained")
    /\ DropEnvStateHolder(addr[e])
    /\ UNCHANGED <<app, genvs, addr, top, guestCalls, cancelling, charged,
                   agent, intr, v8>>

FinishCharge(e) ==
    /\ Move(e, "unretained", "done")
    /\ charged' = [charged EXCEPT ![e] = FALSE]
    /\ UNCHANGED <<app, memory, addr, top, guestCalls, cancelling, agent, intr, v8>>

-----------------------------------------------------------------------------
Controller ==
    \/ TerminateAllLock
    \/ \E e \in Envs : TerminateAllEnv(e)
    \/ TerminateAllReturn

(* The steps of a release that wait for nobody. *)
Releasing(e) ==
    \/ Shutdown(e) \/ RunFinalizer(e) \/ DisposeEngine(e) \/ DisposeErase(e)
    \/ DisposeAgent(e) \/ FinishUnretain(e) \/ FinishCharge(e) \/ CancelClear(e)

Next ==
    \/ TerminateAll \/ Controller
    \/ \E e \in Envs :
          \/ Create(e) \/ Register(e) \/ CommitIsolate(e)
          \/ TerminateAppEnv(e) \/ NearHeapDenied(e) \/ CancelTest(e)
          \/ JsEnter(e) \/ JsReturn(e) \/ GuestEnter(e) \/ GuestLeave(e)
          \/ RequestInterrupt(e) \/ InterruptCallback(e)
          \/ ReleaseImport(e) \/ DropStore(e) \/ DropElsewhere(e)
          \/ FinishRemove(e) \/ Releasing(e)

(* Native code goes on; guest code and JavaScript that a release runs are  *)
(* assumed to return; a lock that keeps being released is obtained.        *)
Fairness ==
    /\ WF_vars(Controller)
    /\ \A e \in Envs :
          /\ WF_vars(Releasing(e))
          /\ SF_vars(FinishRemove(e))
          /\ WF_vars(closing[e] /\ JsReturn(e))
          /\ SF_vars(closing[e] /\ GuestLeave(e))

Spec == Init /\ [][Next]_vars /\ Fairness
-----------------------------------------------------------------------------
(* A pointer in the shared registry is the SnapiEnvState of that very env  *)
(* for as long as it is there: the address is neither free nor allocated   *)
(* to another env, although the owner has dropped its own hold.            *)
RegistryPointers == \A e \in registry : addr[e] # NoAddr /\ heap[addr[e]] = e

(* Whatever a foreign thread finds in g_envs under g_mu it may use: the    *)
(* agent is not deleted, and where terminate or request_interrupt would go *)
(* on to call the engine, the engine still exists.                         *)
ForeignCallsReachLiveEngine ==
    \A a \in genvs :
       /\ heap[a] # NoEnv
       /\ LET e == heap[a] IN
          /\ addr[e] = a
          /\ ~engine[e] => closing[e] /\ teardownCalls[e] = 0

(* No engine frame outlives its engine: the isolate is disposed only when  *)
(* no JavaScript and no guest code called from it is on the owner's stack. *)
NoFrameOnDeadEngine ==
    \A e \in Envs :
       top[e] = "js" \/ guestCalls[e] > 0 \/ teardownCalls[e] > 0 => engine[e]

(* The budget stays honest: an isolate that exists is charged for, after a *)
(* refused release too.                                                    *)
EngineIsCharged == \A e \in Envs : engine[e] => charged[e]

(* The engine never holds a request that was deleted, and every request    *)
(* that exists is one that will be run or deleted with the agent.          *)
InterruptsAccounted ==
    \A e \in Envs : queued[e] \subseteq pending[e] /\ pending[e] = live[e]

(* No one uses what was freed: not the registry's pointers, not a foreign  *)
(* thread's call, not a frame on the owner's stack.                        *)
PointersSafe == RegistryPointers /\ ForeignCallsReachLiveEngine /\ NoFrameOnDeadEngine

(* What was allocated is accounted for: engines by their charge, interrupt *)
(* requests by the list that deletes them.                                 *)
Accounts == EngineIsCharged /\ InterruptsAccounted

(* A finished release leaves nothing behind: no registry entry, no table   *)
(* entry, no SnapiEnvState, no interrupt request, no charge.               *)
ReleaseLeavesNothing ==
    \A e \in Envs :
       phase[e] = "done" =>
          /\ e \notin registry /\ ~charged[e] /\ live[e] = {}
          /\ \A a \in Addrs : heap[a] # e

(* After a terminate_all has returned, JavaScript of this application runs *)
(* only until the termination reaches it, unless the termination was       *)
(* undone by a cancel that had read host_stopped before it was set, or by  *)
(* the release of the env.                                                 *)
StopHoldsUnlessUndone ==
    stopDone => \A e \in Envs : top[e] = "js" => terminated[e] \/ undone[e] # {}

(* A release that has begun completes, whoever calls terminate_all or      *)
(* terminates the env meanwhile.                                           *)
ReleaseFinishes == \A e \in Envs : closing[e] ~> phase[e] = "done"

(* What ctx.rs says of terminate_all: "The stop is sticky: guest code      *)
(* cannot undo it with `napi_cancel_terminate_execution`".                 *)
CancelCannotUndoStop ==
    stopDone => \A e \in Envs :
                   top[e] = "js" => terminated[e] \/ "release" \in undone[e]
=============================================================================
