----------------------------- MODULE V8Platform -----------------------------
(***************************************************************************)
(* EdgeV8Platform (v8/src/edge_v8_platform.cc) and its use by the provider *)
(* (v8/src/unofficial_napi.cc): foreground tasks that V8 posts from any    *)
(* thread, the embedder's hook or the default platform's queue they go to, *)
(* the waker, and the disposal of an isolate, which waits for its tasks.   *)
(*                                                                         *)
(* The platform keys everything by the isolate's address.  The isolates of *)
(* the model are allocated at one address, one after the other: the next   *)
(* one may live while the release of the previous one still waits.  A      *)
(* state of the platform is <<i, "main">>, made when isolate i registers,  *)
(* or <<i, "late">>, made when V8 asks for its runner after that one left  *)
(* the map.  Isolates on other addresses share only the lifecycle lock.    *)
(*                                                                         *)
(* A critical section of a mutex is one action, and so is an access to an  *)
(* atomic.  CompletePendingForegroundTask takes its mutex twice; the two   *)
(* sections are one step here, since what may happen between them may also *)
(* happen before the first.                                                *)
(***************************************************************************)
EXTENDS Naturals, FiniteSets

CONSTANTS
    MaxIsolates,   \* isolates ever made at the address
    Threads,       \* threads that post tasks
    MaxTasks       \* bound of the model: tasks ever posted

ASSUME ConstantsAssumption == {MaxIsolates, MaxTasks} \subseteq Nat

Isolates == 1..MaxIsolates
States   == Isolates \X {"main", "late"}
None     == <<0, "none">>
Main(i)  == <<i, "main">>
Late(i)  == <<i, "late">>
Delays   == {"now", "later"}      \* PostTask, PostDelayedTask

VARIABLES
    (* EdgeV8Platform and its IsolateStates *)
    reg,         \* isolates_: the state at the address, or None
    pending,     \* pending_foreground_tasks
    shutdown,    \* shutdown_started
    fin,         \* finished and MaybeFinishIsolate after it:
                 \* "no", then "erase", "call" and "done"
    cb,          \* finished_callbacks holds the waiter's
    (* ForegroundTaskRunner *)
    bound, down, used,
    (* libplatform: its runner for the address (0: none) and the queue *)
    lib, libs, libq,
    (* the embedder: tasks in the hook's hands, a wake-up not yet serviced *)
    hookq, wakeup,
    (* threads *)
    own, held,   \* the owner of an isolate; DisposeIsolate's state
    attached,    \* embedder_hooks_attached
    terminated,  \* termination_requested of the isolate that lives
    poster,
    posted,
    (* auxiliary *)
    called,      \* calls of OnPlatformShutdownFinished for an isolate
    stray        \* libplatform made a runner for an isolate it had shut down

counts   == <<pending, fin>>
state    == <<reg, shutdown, cb>>
runner   == <<bound, down, used>>
default  == <<lib, libs, libq>>
embedder == <<hookq, wakeup>>
owners   == <<own, held, attached, terminated>>
posters  == <<poster, posted>>
aux      == <<called, stray>>
vars     == <<counts, state, runner, default, embedder, owners, posters, aux>>

Idle == [pc |-> "idle", s |-> None, delay |-> "now", g |-> 0]

(* The owner's phases, in the order it goes through them. *)
Using     == {"live", "cancelled", "cleared", "locked", "down", "silenced", "begun",
              "finishing", "disposing"}
Disposing == {"locked", "down", "silenced", "begun", "finishing", "disposing",
              "disposed", "unregistered", "last"}

TypeOK ==
    /\ reg \in States \cup {None}
    /\ pending \in [States -> 0..MaxTasks]
    /\ shutdown \in [States -> BOOLEAN] /\ cb \in [States -> BOOLEAN]
    /\ fin \in [States -> {"no", "erase", "call", "done"}]
    /\ bound \in [States -> BOOLEAN] /\ down \in [States -> BOOLEAN]
    /\ used \in [States -> BOOLEAN]
    /\ lib \in 0..libs /\ libs \in 0..2 * MaxIsolates
    /\ libq \in [States \X Delays -> 0..MaxTasks]
    /\ hookq \in [States -> 0..MaxTasks]
    /\ wakeup \in BOOLEAN /\ terminated \in BOOLEAN
    /\ own \in [Isolates -> Using \cup Disposing \cup {"none", "waiting", "released"}]
    /\ held \in [Isolates -> States \cup {None}]
    /\ attached \in [Isolates -> BOOLEAN]
    /\ poster \in [Threads -> [pc : {"idle", "target", "count", "hand", "runner",
                                      "countlib", "post", "wake"},
                               s : States \cup {None}, delay : Delays,
                               g : 0..2 * MaxIsolates]]
    /\ posted \in 0..MaxTasks
    /\ called \in [Isolates -> Nat] /\ stray \in BOOLEAN

Init ==
    /\ reg = None
    /\ pending = [s \in States |-> 0] /\ shutdown = [s \in States |-> FALSE]
    /\ fin = [s \in States |-> "no"] /\ cb = [s \in States |-> FALSE]
    /\ bound = [s \in States |-> FALSE] /\ down = [s \in States |-> FALSE]
    /\ used = [s \in States |-> FALSE]
    /\ lib = 0 /\ libs = 0 /\ libq = [q \in States \X Delays |-> 0]
    /\ hookq = [s \in States |-> 0] /\ wakeup = FALSE
    /\ own = [i \in Isolates |-> "none"] /\ held = [i \in Isolates |-> None]
    /\ attached = [i \in Isolates |-> FALSE] /\ terminated = FALSE
    /\ poster = [t \in Threads |-> Idle] /\ posted = 0
    /\ called = [i \in Isolates |-> 0] /\ stray = FALSE

-----------------------------------------------------------------------------
(* Counting a state's tasks *)

(* Slip: the count is not guarded against zero. *)
CompleteUnguarded(n) ==
    /\ pending' = [s \in States |-> pending[s] - n[s]]
    /\ fin' = [s \in States |->
          IF n[s] > 0 /\ fin[s] = "no" /\ shutdown[s] /\ pending[s] <= n[s]
          THEN "erase" ELSE fin[s]]

(* Slip: the last task does not finish the state. *)
CompleteOnly(n) ==
    /\ pending' = [s \in States |-> IF n[s] < pending[s] THEN pending[s] - n[s] ELSE 0]
    /\ UNCHANGED fin

(* CompletePendingForegroundTask for n[s] tasks of every state s: a state  *)
(* whose shutdown has begun is finished by its last one.                   *)
Complete(n) ==
    /\ pending' = [s \in States |-> IF n[s] < pending[s] THEN pending[s] - n[s] ELSE 0]
    /\ fin' = [s \in States |->
          IF n[s] > 0 /\ fin[s] = "no" /\ shutdown[s] /\ pending[s] <= n[s]
          THEN "erase" ELSE fin[s]]

One(s) == [x \in States |-> IF x = s THEN 1 ELSE 0]

(* AddPendingForegroundTask *)
AddPendingForegroundTask(s) ==
    pending' = [pending EXCEPT ![s] = IF fin[s] = "no" THEN @ + 1 ELSE @]

(* Slip: whichever state is in the map is erased. *)
EraseAny(s) ==
    /\ fin[s] = "erase"
    /\ fin' = [fin EXCEPT ![s] = "call"]
    /\ reg' = None
    /\ UNCHANGED <<pending, shutdown, cb, runner, default, embedder, owners, posters, aux>>

(* MaybeFinishIsolate, once finished is set: leave the map ... *)
Erase(s) ==
    /\ fin[s] = "erase"
    /\ fin' = [fin EXCEPT ![s] = "call"]
    /\ reg' = IF reg = s THEN None ELSE reg
    /\ UNCHANGED <<pending, shutdown, cb, runner, default, embedder, owners, posters, aux>>

(* ... and call the waiter.  It polls its flag, so the notification that   *)
(* follows the unlock decides nothing and is left out.                     *)
CallFinished(s) ==
    /\ fin[s] = "call"
    /\ fin' = [fin EXCEPT ![s] = "done"]
    /\ called' = [called EXCEPT ![s[1]] = IF cb[s] THEN @ + 1 ELSE @]
    /\ UNCHANGED <<pending, state, runner, default, embedder, owners, posters, stray>>

-----------------------------------------------------------------------------
(* PostTaskCommon, on any thread, while the isolate exists *)

At(t, from, to) ==
    /\ poster[t].pc = from
    /\ poster' = [poster EXCEPT ![t] = IF to = "idle" THEN Idle ELSE [@ EXCEPT !.pc = to]]

(* libplatform's runner for the address, made if there is none. *)
EnsureLib(i) ==
    /\ lib' = IF lib = 0 THEN libs + 1 ELSE lib
    /\ libs' = IF lib = 0 THEN libs + 1 ELSE libs
    /\ stray' = (stray \/ (lib = 0 /\ own[i] \in Disposing))

(* GetForegroundTaskRunner when the map has no state: EnsureState. *)
GetForegroundTaskRunner(i) ==
    /\ own[i] \in Using /\ reg = None
    /\ reg' = Late(i)
    /\ EnsureLib(i)
    /\ UNCHANGED <<counts, shutdown, cb, runner, libq, embedder, owners, posters, called>>

(* shutting_down_ is read: a runner that is shut down drops the task. *)
PostBegin(t) ==
    /\ poster[t].pc = "idle" /\ posted < MaxTasks
    /\ \E i \in Isolates : own[i] \in Using /\
          \E s \in {Main(i)} \cup ({reg} \cap {Late(i)}), d \in Delays :
             /\ ~down[s]
             /\ poster' = [poster EXCEPT ![t] =
                   [pc |-> "target", s |-> s, delay |-> d, g |-> 0]]
    /\ posted' = posted + 1
    /\ UNCHANGED <<counts, state, runner, default, embedder, owners, aux>>

(* target_enqueue_ and then target_data_ are read.  A target is bound once *)
(* and cleared once, so the two reads decide as one of them alone would.   *)
LoadTarget(t) ==
    /\ At(t, "target", IF bound[poster[t].s] THEN "count" ELSE "runner")
    /\ UNCHANGED <<counts, state, runner, default, embedder, owners, posted, aux>>

(* Slip: the record is handed over uncounted. *)
CountHookSkips(t) ==
    /\ At(t, "count", "hand")
    /\ UNCHANGED <<counts, state, runner, default, embedder, owners, posted, aux>>

(* The record counts as pending before it is handed over. *)
CountHook(t) ==
    /\ At(t, "count", "hand")
    /\ AddPendingForegroundTask(poster[t].s)
    /\ UNCHANGED <<fin, state, runner, default, embedder, owners, posted, aux>>

(* The hook is called: it takes the record, or refuses and cleans up. *)
Hand(t) ==
    /\ At(t, "hand", "idle")
    /\ \/ /\ hookq' = [hookq EXCEPT ![poster[t].s] = @ + 1]
          /\ UNCHANGED counts
       \/ Complete(One(poster[t].s)) /\ UNCHANGED hookq
    /\ UNCHANGED <<state, runner, default, wakeup, owners, posted, aux>>

(* No target: the default platform's runner. *)
GetFallback(t) ==
    /\ poster[t].pc = "runner"
    /\ EnsureLib(poster[t].s[1])
    /\ poster' = [poster EXCEPT ![t].pc = "countlib", ![t].g = lib']
    /\ UNCHANGED <<counts, state, runner, libq, embedder, owners, posted, called>>

CountFallback(t) ==
    /\ At(t, "countlib", "post")
    /\ used' = [used EXCEPT ![poster[t].s] = TRUE]
    /\ AddPendingForegroundTask(poster[t].s)
    /\ UNCHANGED <<fin, state, bound, down, default, embedder, owners, posted, aux>>

(* The default platform queues the task; a terminated runner drops it. *)
PostFallback(t) ==
    /\ At(t, "post", IF poster[t].delay = "now" THEN "wake" ELSE "idle")
    /\ IF poster[t].g = lib
       THEN /\ libq' = [libq EXCEPT ![<<poster[t].s, poster[t].delay>>] = @ + 1]
            /\ UNCHANGED counts
       ELSE Complete(One(poster[t].s)) /\ UNCHANGED libq
    /\ UNCHANGED <<state, runner, lib, libs, embedder, owners, posted, aux>>

WakeForForegroundTask(t) ==
    /\ At(t, "wake", "idle")
    /\ wakeup' = TRUE
    /\ UNCHANGED <<counts, state, runner, default, hookq, owners, posted, aux>>

-----------------------------------------------------------------------------
(* The embedder *)

(* The hook's record is cleaned up, after its callback ran or instead. *)
HookCleanup(s) ==
    /\ hookq[s] > 0
    /\ hookq' = [hookq EXCEPT ![s] = @ - 1]
    /\ Complete(One(s))
    /\ UNCHANGED <<state, runner, default, wakeup, owners, posters, aux>>

(* A turn of the event loop for another reason. *)
OtherEvent ==
    /\ wakeup' = TRUE
    /\ UNCHANGED <<counts, state, runner, default, hookq, owners, posters, aux>>

(* unofficial_napi_event_loop_checkpoint of the isolate that lives: a      *)
(* terminating env runs nothing; otherwise one ready task is run, and the  *)
(* loop comes again until there is none.                                   *)
Checkpoint(i) ==
    /\ own[i] = "live" /\ wakeup
    /\ \/ /\ terminated \/ \A q \in DOMAIN libq : q[2] = "now" => libq[q] = 0
          /\ wakeup' = FALSE
          /\ UNCHANGED <<counts, libq>>
       \/ /\ ~terminated
          /\ \E q \in DOMAIN libq :
                /\ libq[q] > 0
                /\ libq' = [libq EXCEPT ![q] = @ - 1]
                /\ Complete(One(q[1]))
          /\ UNCHANGED wakeup
    /\ UNCHANGED <<state, runner, lib, libs, hookq, owners, posters, aux>>

-----------------------------------------------------------------------------
(* The owner of an isolate *)

Step(i, from, to) == own[i] = from /\ own' = [own EXCEPT ![i] = to]

(* g_isolate_lifecycle_mu is free. *)
LifecycleFree == \A i \in Isolates : own[i] \notin Disposing

(* CreateIsolateForEnv: the address is free, the isolate is registered. *)
CreateIsolate(i) ==
    /\ LifecycleFree
    /\ \A j \in 1..i - 1 : own[j] \in {"waiting", "released"}
    /\ Step(i, "none", "live")
    /\ reg' = IF reg = None THEN Main(i) ELSE reg
    /\ EnsureLib(i)
    /\ terminated' = FALSE
    /\ UNCHANGED <<counts, shutdown, cb, runner, libq, embedder, held, attached,
                   posters, called>>

(* unofficial_napi_attach_env with a foreground task hook, at most once. *)
BindForegroundTaskTarget(i) ==
    /\ own[i] = "live" /\ ~attached[i]
    /\ attached' = [attached EXCEPT ![i] = TRUE]
    /\ bound' = [bound EXCEPT ![reg] = TRUE]
    /\ UNCHANGED <<counts, state, down, used, default, embedder, own, held,
                   terminated, posters, aux>>

(* unofficial_napi_terminate_execution *)
Terminate(i) ==
    /\ own[i] = "live"
    /\ terminated' = TRUE
    /\ UNCHANGED <<counts, state, runner, default, embedder, own, held, attached,
                   posters, aux>>

(* unofficial_napi_cancel_terminate_execution: the flag, then the wake-up. *)
Cancel(i) ==
    /\ Step(i, "live", "cancelled")
    /\ terminated' = FALSE
    /\ UNCHANGED <<counts, state, runner, default, embedder, held, attached,
                   posters, aux>>

(* Slip: a bound target is taken as a reason not to wake. *)
WakeForQueuedUnbound(i) ==
    /\ Step(i, "cancelled", "live")
    /\ wakeup' = (wakeup \/ /\ reg # None /\ ~bound[reg]
                            /\ used[reg] /\ fin[reg] = "no" /\ ~shutdown[reg]
                            /\ pending[reg] > 0)
    /\ UNCHANGED <<counts, state, runner, default, hookq, held, attached,
                   terminated, posters, aux>>

WakeForQueuedForegroundTasks(i) ==
    /\ Step(i, "cancelled", "live")
    /\ wakeup' = (wakeup \/ /\ reg # None
                            /\ used[reg] /\ fin[reg] = "no" /\ ~shutdown[reg]
                            /\ pending[reg] > 0)
    /\ UNCHANGED <<counts, state, runner, default, hookq, held, attached,
                   terminated, posters, aux>>

(* DestroyEnvInstance: ClearForegroundTaskTarget. *)
ClearForegroundTaskTarget(i) ==
    /\ Step(i, "live", "cleared")
    /\ bound' = [bound EXCEPT ![reg] = FALSE]
    /\ UNCHANGED <<counts, state, down, used, default, embedder, held, attached,
                   terminated, posters, aux>>

(* DisposeIsolateAndWait: take the lock, AddIsolateFinishedCallback. *)
AddIsolateFinishedCallback(i) ==
    /\ LifecycleFree
    /\ Step(i, "cleared", "locked")
    /\ cb' = IF reg # None /\ fin[reg] = "no" THEN [cb EXCEPT ![reg] = TRUE] ELSE cb
    /\ called' = IF reg = None THEN [called EXCEPT ![i] = @ + 1] ELSE called
    /\ UNCHANGED <<counts, reg, shutdown, runner, default, embedder, held, attached,
                   terminated, posters, stray>>

(* DisposeIsolate: GetState and the runner's NotifyIsolateShutdown. *)
NotifyRunner(i) ==
    /\ Step(i, "locked", "down")
    /\ held' = [held EXCEPT ![i] = reg]
    /\ down' = [down EXCEPT ![reg] = TRUE]
    /\ bound' = [bound EXCEPT ![reg] = FALSE]
    /\ UNCHANGED <<counts, state, used, default, embedder, attached, terminated,
                   posters, aux>>

(* Slip: the default platform is not told. *)
NotifyFallbackSkips(i) ==
    /\ Step(i, "down", "silenced")
    /\ UNCHANGED <<counts, state, runner, default, embedder, held, attached,
                   terminated, posters, aux>>

(* v8::platform::NotifyIsolateShutdown: the queue is dropped, every task   *)
(* gives its count back as it is deleted.                                  *)
NotifyFallback(i) ==
    /\ Step(i, "down", "silenced")
    /\ lib' = 0
    /\ libq' = [q \in States \X Delays |-> 0]
    /\ Complete([s \in States |-> libq[<<s, "now">>] + libq[<<s, "later">>]])
    /\ UNCHANGED <<state, runner, libs, embedder, held, attached, terminated,
                   posters, aux>>

BeginShutdown(i) ==
    /\ Step(i, "silenced", "begun")
    /\ shutdown' = [shutdown EXCEPT ![held[i]] = TRUE]
    /\ UNCHANGED <<counts, reg, cb, runner, default, embedder, held, attached,
                   terminated, posters, aux>>

(* Slip: finished is not tested. *)
MaybeFinishAgain(i, from, during, to) ==
    LET s == held[i]
        last == s # None /\ shutdown[s] /\ pending[s] = 0 IN
    /\ \/ /\ Step(i, from, IF last THEN during ELSE to)
          /\ fin' = IF last THEN [fin EXCEPT ![s] = "erase"] ELSE fin
       \/ /\ Step(i, during, to)
          /\ fin[s] = "done"
          /\ UNCHANGED fin
    /\ UNCHANGED <<pending, state, runner, default, embedder, held, attached,
                   terminated, posters, aux>>

(* MaybeFinishIsolate by the owner; it goes on when the waiter was called. *)
MaybeFinishIsolate(i, from, during, to) ==
    LET s == held[i]
        last == s # None /\ fin[s] = "no" /\ shutdown[s] /\ pending[s] = 0 IN
    /\ \/ /\ Step(i, from, IF last THEN during ELSE to)
          /\ fin' = IF last THEN [fin EXCEPT ![s] = "erase"] ELSE fin
       \/ /\ Step(i, during, to)
          /\ fin[s] = "done"
          /\ UNCHANGED fin
    /\ UNCHANGED <<pending, state, runner, default, embedder, held, attached,
                   terminated, posters, aux>>

(* isolate->Dispose() returns once no thread is posting to the isolate. *)
DisposeReturns(i) ==
    /\ Step(i, "disposing", "disposed")
    /\ \A t \in Threads : poster[t].s[1] # i
    /\ UNCHANGED <<counts, state, runner, default, embedder, held, attached,
                   terminated, posters, aux>>

UnregisterIsolate(i) ==
    /\ Step(i, "disposed", "unregistered")
    /\ reg' = None
    /\ UNCHANGED <<counts, shutdown, cb, runner, default, embedder, held, attached,
                   terminated, posters, aux>>

(* WaitForPlatformShutdown, the lock released. *)
WaitForPlatformShutdown(i) ==
    /\ Step(i, "waiting", "released")
    /\ called[i] > 0
    /\ UNCHANGED <<counts, state, runner, default, embedder, held, attached,
                   terminated, posters, aux>>

-----------------------------------------------------------------------------
Post(t) ==
    \/ LoadTarget(t) \/ CountHook(t) \/ Hand(t) \/ GetFallback(t)
    \/ CountFallback(t) \/ PostFallback(t) \/ WakeForForegroundTask(t)

Release(i) ==
    \/ AddIsolateFinishedCallback(i) \/ NotifyRunner(i) \/ NotifyFallback(i)
    \/ BeginShutdown(i) \/ MaybeFinishIsolate(i, "begun", "finishing", "disposing")
    \/ DisposeReturns(i) \/ UnregisterIsolate(i)
    \/ MaybeFinishIsolate(i, "unregistered", "last", "waiting")
    \/ WaitForPlatformShutdown(i)

Next ==
    \/ \E t \in Threads : PostBegin(t) \/ Post(t)
    \/ \E s \in States : Erase(s) \/ CallFinished(s) \/ HookCleanup(s)
    \/ \E i \in Isolates :
          \/ CreateIsolate(i) \/ GetForegroundTaskRunner(i)
          \/ BindForegroundTaskTarget(i) \/ Terminate(i)
          \/ Cancel(i) \/ WakeForQueuedForegroundTasks(i) \/ Checkpoint(i)
          \/ ClearForegroundTaskTarget(i) \/ Release(i)
    \/ OtherEvent

(* Some thread that can go on goes on, and the embedder cleans up what its *)
(* hook was given.                                                         *)
Progress ==
    \/ \E t \in Threads : Post(t)
    \/ \E s \in States : Erase(s) \/ CallFinished(s) \/ HookCleanup(s)
    \/ \E i \in Isolates : Release(i)

Fairness == WF_vars(Progress)

Spec == Init /\ [][Next]_vars /\ Fairness
-----------------------------------------------------------------------------
(* An isolate that is in use finds its own state under its address, also   *)
(* while the tasks and the waiter of the isolate before it are finishing.  *)
LiveIsolateRegistered ==
    \A i \in Isolates :
       own[i] \in {"live", "cancelled", "cleared", "locked", "down"} => reg = Main(i)

(* Until a state is finished it counts exactly the tasks that have been    *)
(* handed over or are about to be and have not been run or dropped.        *)
PendingExact ==
    \A s \in States : fin[s] = "no" =>
       pending[s] = hookq[s] + libq[<<s, "now">>] + libq[<<s, "later">>]
                    + Cardinality({t \in Threads : poster[t].s = s /\ poster[t].pc \in {"hand", "post"}})

(* OnPlatformShutdownFinished is called at most once for a waiter, which   *)
(* is on the stack of DisposeIsolateAndWait: after the call the wait may   *)
(* return, and a second call would find a frame that is gone.              *)
WaiterCalledOnce == \A i \in Isolates : called[i] <= 1

(* The queue the checkpoints of a live isolate run holds only tasks of     *)
(* that isolate, although it is found by address, unless libplatform made  *)
(* a runner again for an isolate it had shut down.                         *)
QueueIsOwn ==
    stray \/ \A i \in Isolates : own[i] = "live" =>
                \A q \in DOMAIN libq : libq[q] > 0 => q[1][1] = i

(* No wake-up is lost: an immediate task in the default queue of a live    *)
(* isolate that is not terminating has a checkpoint coming.                *)
NoLostWakeup ==
    \A i \in Isolates :
       own[i] = "live" /\ ~terminated /\ ~wakeup =>
          \A s \in {Main(i), Late(i)} :
             libq[<<s, "now">>] > 0 => \E t \in Threads : poster[t].pc = "wake"

(* A release returns: the wait for the platform ends, unless libplatform   *)
(* made a runner again for an isolate it had shut down.                    *)
ReleaseReturns ==
    \A i \in Isolates : own[i] = "cleared" ~> (own[i] = "released" \/ stray)
=============================================================================
