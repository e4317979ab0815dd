--------------------------- MODULE ResourceBudget ---------------------------
(***************************************************************************)
(* The shared memory accountant of one application (src/src/budget.rs) as  *)
(* every thread of the application uses it.  A thread stands for one store *)
(* with the NapiEnv it drives: at most one V8 env, the external memory its *)
(* guest declared, and the wasm linear memory it was charged for.          *)
(*                                                                         *)
(* All counters of ResourceBudget are atomics without a lock, so every     *)
(* atomic operation of the code is one action here and pc[t] says where    *)
(* thread t stands between two of them.  A charge commits the total first  *)
(* and the pool second; an uncharge returns the pool first and the total   *)
(* second.  What an owner holds is in ceiling, granted, external, linear;  *)
(* bytes on their way in or out are in op[t].bytes.                        *)
(*                                                                         *)
(* Counters are integers: that fetch_sub never goes below zero, where an   *)
(* AtomicU64 would wrap, is one of the results.                            *)
(***************************************************************************)
EXTENDS Sums

CONSTANTS
    NThreads,     \* number of stores (threads) that share the budget
    MemTotal,     \* ResourceBudget.mem_total of a limited budget
    AcctLimit,    \* limit of the embedder's accountant
    MaxEnvs,      \* NapiLimits.max_envs when it is set
    Overhead,     \* DEFAULT_PER_ISOLATE_OVERHEAD + max_young + code_range
    UnwindSlack,  \* DEFAULT_UNWIND_SLACK
    DefaultOld,   \* DEFAULT_INITIAL_ISOLATE_HEAP
    GrowStep,     \* DEFAULT_HEAP_GROW_STEP
    OldRequests,  \* old-generation sizes a guest asks for (0: the default)
    ChargeSizes,  \* sizes of external and linear-memory charges
    MaxHeld       \* bound of the model: external and linear bytes per thread

ASSUME ConstantsAssumption ==
    /\ {NThreads, MemTotal, AcctLimit, MaxEnvs, Overhead, UnwindSlack, MaxHeld}
          \subseteq Nat
    /\ {DefaultOld, GrowStep} \subseteq Nat \ {0}
    /\ OldRequests \subseteq Nat
    /\ ChargeSizes \subseteq Nat \ {0}

Threads == 1..NThreads
Pools   == {"WasmLinear", "V8HeapReserved", "V8External"}
Modes   == {"limited", "unlimited", "accountant"}

VARIABLES
    mode,          \* which constructor made the budget
    capped,        \* max_envs is Some
    memCharged,    \* mem_charged
    poolCharged,   \* wasm_linear, v8_heap_reserved, v8_external
    liveIsolates,  \* live_isolates
    acctCharged,   \* the embedder accountant's memory_charged()
    embedder,      \* the part of acctCharged the embedder charged itself
    hostStopped,   \* the application-wide host_stopped flag
    pc, op, seen,  \* per thread: control point, call, value last loaded
    slot,          \* the thread owns an isolate slot
    ceiling,       \* EnvHeapChargeHandle.ceiling
    granted,       \* EnvHeapCharge.granted
    slack,         \* EnvHeapCharge.unwind_slack_available
    limit,         \* V8's current old-generation limit
    external,      \* NapiEnv.external_declared
    linear         \* MemoryCharge.bytes

counters == <<memCharged, poolCharged, liveIsolates, acctCharged>>
setup    == <<mode, capped>>
owned    == <<ceiling, granted, slack, limit, external, linear>>
vars     == <<setup, counters, embedder, hostStopped, pc, op, seen, slot, owned>>

Control == {"idle", "slotcas", "plan", "charge", "cas", "mirror", "pool",
            "charged", "denied", "unpool", "untotal", "unask", "returned",
            "unslot"}
Kinds   == {"none", "env", "grant", "granted", "ceiling", "external", "linear"}
Op(kind, p, b, old) == [kind |-> kind, pool |-> p, bytes |-> b, old |-> old]
Ops     == [kind : Kinds, pool : Pools, bytes : Nat, old : Nat]
NoOp    == Op("none", "WasmLinear", 0, 0)   \* no call is under way

TypeOK ==
    /\ mode \in Modes /\ capped \in BOOLEAN /\ hostStopped \in BOOLEAN
    /\ memCharged \in Int /\ liveIsolates \in Int
    /\ acctCharged \in Int /\ embedder \in Nat
    /\ poolCharged \in [Pools -> Int]
    /\ pc \in [Threads -> Control]
    /\ op \in [Threads -> Ops]
    /\ seen \in [Threads -> Int]
    /\ slot \in [Threads -> BOOLEAN] /\ slack \in [Threads -> BOOLEAN]
    /\ ceiling \in [Threads -> Nat] /\ granted \in [Threads -> Nat]
    /\ limit \in [Threads -> Nat]
    /\ external \in [Threads -> Nat] /\ linear \in [Threads -> Nat]

Init ==
    /\ mode \in Modes /\ capped \in BOOLEAN /\ hostStopped = FALSE
    /\ memCharged = 0 /\ liveIsolates = 0 /\ acctCharged = 0 /\ embedder = 0
    /\ poolCharged = [p \in Pools |-> 0]
    /\ pc = [t \in Threads |-> "idle"]
    /\ op = [t \in Threads |-> NoOp]
    /\ seen = [t \in Threads |-> 0]
    /\ slot = [t \in Threads |-> FALSE] /\ slack = [t \in Threads |-> FALSE]
    /\ ceiling = [t \in Threads |-> 0] /\ granted = [t \in Threads |-> 0]
    /\ limit = [t \in Threads |-> 0]
    /\ external = [t \in Threads |-> 0] /\ linear = [t \in Threads |-> 0]

Goto(t, from, to) == pc[t] = from /\ pc' = [pc EXCEPT ![t] = to]

(* The call returns to the guest: its local variables go out of scope. *)
Finish(t, from) ==
    /\ Goto(t, from, "idle")
    /\ op' = [op EXCEPT ![t] = NoOp]
    /\ seen' = [seen EXCEPT ![t] = 0]

-----------------------------------------------------------------------------
(* try_charge, shared by every caller. *)

Fits(current, bytes) == current + bytes <= MemTotal

(* mem_charged.load and the check on the loaded value. *)
ChargeLoad(t) ==
    /\ mode = "limited"
    /\ Goto(t, "charge", IF Fits(memCharged, op[t].bytes) THEN "cas" ELSE "denied")
    /\ seen' = [seen EXCEPT ![t] = memCharged]
    /\ UNCHANGED <<setup, counters, embedder, hostStopped, op, slot, owned>>

(* Slip: the total is added to without comparing it with the checked value. *)
ChargeCasAdds(t) ==
    /\ Goto(t, "cas", "pool")
    /\ memCharged' = memCharged + op[t].bytes
    /\ seen' = [seen EXCEPT ![t] = 0]
    /\ UNCHANGED <<setup, poolCharged, liveIsolates, acctCharged, embedder,
                   hostStopped, op, slot, owned>>

(* Slip: the new total is stored without comparing. *)
ChargeCasStores(t) ==
    /\ Goto(t, "cas", "pool")
    /\ memCharged' = seen[t] + op[t].bytes
    /\ seen' = [seen EXCEPT ![t] = 0]
    /\ UNCHANGED <<setup, poolCharged, liveIsolates, acctCharged, embedder,
                   hostStopped, op, slot, owned>>

(* compare_exchange_weak succeeds; a spurious failure is a stuttering step. *)
ChargeCas(t) ==
    /\ memCharged = seen[t]
    /\ Goto(t, "cas", "pool")
    /\ memCharged' = seen[t] + op[t].bytes
    /\ seen' = [seen EXCEPT ![t] = 0]
    /\ UNCHANGED <<setup, poolCharged, liveIsolates, acctCharged, embedder,
                   hostStopped, op, slot, owned>>

(* It fails: the observed value is checked again. *)
ChargeCasFails(t) ==
    /\ memCharged # seen[t]
    /\ Goto(t, "cas", IF Fits(memCharged, op[t].bytes) THEN "cas" ELSE "denied")
    /\ seen' = [seen EXCEPT ![t] = memCharged]
    /\ UNCHANGED <<setup, counters, embedder, hostStopped, op, slot, owned>>

(* fetch_add on the total: without a limit, or after the accountant agreed. *)
ChargeAdd(t) ==
    /\ \/ mode = "unlimited" /\ Goto(t, "charge", "pool")
       \/ mode = "accountant" /\ Goto(t, "mirror", "pool")
    /\ memCharged' = memCharged + op[t].bytes
    /\ UNCHANGED <<setup, poolCharged, liveIsolates, acctCharged, embedder,
                   hostStopped, op, seen, slot, owned>>

(* The embedder's accountant decides atomically. *)
ChargeAccountant(t) ==
    LET granted_ == acctCharged + op[t].bytes <= AcctLimit IN
    /\ mode = "accountant"
    /\ Goto(t, "charge", IF granted_ THEN "mirror" ELSE "denied")
    /\ acctCharged' = IF granted_ THEN acctCharged + op[t].bytes ELSE acctCharged
    /\ UNCHANGED <<setup, memCharged, poolCharged, liveIsolates, embedder,
                   hostStopped, op, seen, slot, owned>>

ChargePool(t) ==
    /\ Goto(t, "pool", "charged")
    /\ poolCharged' = [poolCharged EXCEPT ![op[t].pool] = @ + op[t].bytes]
    /\ UNCHANGED <<setup, memCharged, liveIsolates, acctCharged, embedder,
                   hostStopped, op, seen, slot, owned>>

-----------------------------------------------------------------------------
(* uncharge, shared by every caller.  bytes = 0 returns at once. *)

BeginUncharge(t, kind, p, b) ==
    /\ op' = [op EXCEPT ![t] = Op(kind, p, b, 0)]
    /\ pc' = [pc EXCEPT ![t] = IF b = 0 THEN "returned" ELSE "unpool"]

(* Slip: only the total is returned. *)
UnchargePoolSkips(t) ==
    /\ Goto(t, "unpool", "untotal")
    /\ UNCHANGED <<setup, counters, embedder, hostStopped, op, seen, slot, owned>>

UnchargePool(t) ==
    /\ Goto(t, "unpool", "untotal")
    /\ poolCharged' = [poolCharged EXCEPT ![op[t].pool] = @ - op[t].bytes]
    /\ UNCHANGED <<setup, memCharged, liveIsolates, acctCharged, embedder,
                   hostStopped, op, seen, slot, owned>>

UnchargeTotal(t) ==
    /\ Goto(t, "untotal", IF mode = "accountant" THEN "unask" ELSE "returned")
    /\ memCharged' = memCharged - op[t].bytes
    /\ UNCHANGED <<setup, poolCharged, liveIsolates, acctCharged, embedder,
                   hostStopped, op, seen, slot, owned>>

UnchargeAccountant(t) ==
    /\ Goto(t, "unask", "returned")
    /\ acctCharged' = acctCharged - op[t].bytes
    /\ UNCHANGED <<setup, memCharged, poolCharged, liveIsolates, embedder,
                   hostStopped, op, seen, slot, owned>>

-----------------------------------------------------------------------------
(* try_reserve_env *)

(* try_acquire_isolate without max_envs: fetch_add. *)
AcquireUncapped(t) ==
    /\ ~capped /\ ~slot[t]
    /\ Goto(t, "idle", "plan")
    /\ \E old \in OldRequests :
          op' = [op EXCEPT ![t] = Op("env", "V8HeapReserved", 0, old)]
    /\ liveIsolates' = liveIsolates + 1
    /\ slot' = [slot EXCEPT ![t] = TRUE]
    /\ UNCHANGED <<setup, memCharged, poolCharged, acctCharged, embedder,
                   hostStopped, seen, owned>>

(* With max_envs: the load.  At the cap the call returns TooManyEnvs and   *)
(* changes nothing.                                                        *)
AcquireLoad(t) ==
    /\ capped /\ ~slot[t] /\ liveIsolates < MaxEnvs
    /\ Goto(t, "idle", "slotcas")
    /\ \E old \in OldRequests :
          op' = [op EXCEPT ![t] = Op("env", "V8HeapReserved", 0, old)]
    /\ seen' = [seen EXCEPT ![t] = liveIsolates]
    /\ UNCHANGED <<setup, counters, embedder, hostStopped, slot, owned>>

AcquireCas(t) ==
    /\ liveIsolates = seen[t]
    /\ Goto(t, "slotcas", "plan")
    /\ liveIsolates' = seen[t] + 1
    /\ slot' = [slot EXCEPT ![t] = TRUE]
    /\ seen' = [seen EXCEPT ![t] = 0]
    /\ UNCHANGED <<setup, memCharged, poolCharged, acctCharged, embedder,
                   hostStopped, op, owned>>

AcquireCasFails(t) ==
    /\ liveIsolates # seen[t]
    /\ \/ /\ liveIsolates < MaxEnvs
          /\ Goto(t, "slotcas", "slotcas")
          /\ seen' = [seen EXCEPT ![t] = liveIsolates]
          /\ UNCHANGED op
       \/ /\ liveIsolates >= MaxEnvs            \* TooManyEnvs
          /\ Finish(t, "slotcas")
    /\ UNCHANGED <<setup, counters, embedder, hostStopped, slot, owned>>

(* memory_remaining() *)
MemoryRemaining ==
    LET left == IF mode = "accountant" THEN AcctLimit - acctCharged
                                       ELSE MemTotal - memCharged
    IN  IF left < 0 THEN 0 ELSE left

Fixed == Overhead + UnwindSlack
Smaller(a, b) == IF a < b THEN a ELSE b

(* Slip: HeapDoesNotFit is returned without release_isolate. *)
PlanHeapLeaks(t) ==
    /\ mode # "unlimited" /\ MemoryRemaining <= Fixed
    /\ Finish(t, "plan")
    /\ slot' = [slot EXCEPT ![t] = FALSE]
    /\ UNCHANGED <<setup, counters, embedder, hostStopped, owned>>

(* plan_heap_reservation: reads what remains; the charge comes later. *)
PlanHeap(t) ==
    LET remaining == MemoryRemaining
        wanted == IF op[t].old > 0 THEN op[t].old ELSE DefaultOld
        old == Smaller(wanted, remaining - Fixed)
    IN
    \/ /\ mode = "unlimited"            \* ceiling 0: try_charge returns Ok
       /\ Goto(t, "plan", "charged")
       /\ UNCHANGED <<setup, counters, embedder, hostStopped, op, seen, slot, owned>>
    \/ /\ mode # "unlimited" /\ remaining > Fixed
       /\ Goto(t, "plan", "charge")
       /\ op' = [op EXCEPT ![t] = Op("env", "V8HeapReserved", Fixed + old, old)]
       /\ UNCHANGED <<setup, counters, embedder, hostStopped, seen, slot, owned>>
    \/ /\ mode # "unlimited" /\ remaining <= Fixed     \* HeapDoesNotFit
       /\ Goto(t, "plan", "unslot")
       /\ UNCHANGED <<setup, counters, embedder, hostStopped, op, seen, slot, owned>>

(* release_isolate *)
ReleaseIsolate(t) ==
    /\ Finish(t, "unslot")
    /\ liveIsolates' = liveIsolates - 1
    /\ slot' = [slot EXCEPT ![t] = FALSE]
    /\ UNCHANGED <<setup, memCharged, poolCharged, acctCharged, embedder,
                   hostStopped, owned>>

-----------------------------------------------------------------------------
(* The callers of try_charge and uncharge. *)

BeginCharge(t, kind, p, b) ==
    /\ Goto(t, "idle", "charge")
    /\ op' = [op EXCEPT ![t] = Op(kind, p, b, 0)]

(* napi_host_near_heap_limit_grant, installed only under a limit. *)
NearHeapLimit(t) ==
    /\ slot[t] /\ mode # "unlimited"
    /\ BeginCharge(t, "grant", "V8HeapReserved", GrowStep)
    /\ UNCHANGED <<setup, counters, embedder, hostStopped, seen, slot, owned>>

(* charge_declared_external *)
ChargeExternal(t) ==
    /\ \E b \in ChargeSizes :
          /\ external[t] + b <= MaxHeld
          /\ BeginCharge(t, "external", "V8External", b)
    /\ UNCHANGED <<setup, counters, embedder, hostStopped, seen, slot, owned>>

(* MemoryCharge::new, and BudgetedMemory::grow *)
ChargeLinear(t) ==
    /\ \E b \in ChargeSizes :
          /\ linear[t] + b <= MaxHeld
          /\ BeginCharge(t, "linear", "WasmLinear", b)
    /\ UNCHANGED <<setup, counters, embedder, hostStopped, seen, slot, owned>>

(* try_charge returned Ok: the caller records what it now owns. *)
Charged(t) ==
    /\ Finish(t, "charged")
    /\ LET b == op[t].bytes IN
       \/ /\ op[t].kind = "env"
          /\ ceiling' = [ceiling EXCEPT ![t] = b]
          /\ limit' = [limit EXCEPT ![t] = op[t].old]
          /\ slack' = [slack EXCEPT ![t] = mode # "unlimited"]
          /\ UNCHANGED <<granted, external, linear>>
       \/ /\ op[t].kind = "grant"
          /\ granted' = [granted EXCEPT ![t] = @ + b]
          /\ limit' = [limit EXCEPT ![t] = @ + b]
          /\ UNCHANGED <<ceiling, slack, external, linear>>
       \/ /\ op[t].kind = "external"
          /\ external' = [external EXCEPT ![t] = @ + b]
          /\ UNCHANGED <<ceiling, granted, slack, limit, linear>>
       \/ /\ op[t].kind = "linear"
          /\ linear' = [linear EXCEPT ![t] = @ + b]
          /\ UNCHANGED <<ceiling, granted, slack, limit, external>>
    /\ UNCHANGED <<setup, counters, embedder, hostStopped, slot>>

(* The memory itself could not grow: BudgetedMemory::grow gives the bytes  *)
(* it has reserved back.                                                   *)
GrowFails(t) ==
    /\ op[t].kind = "linear"
    /\ Goto(t, "charged", "unpool")
    /\ UNCHANGED <<setup, counters, embedder, hostStopped, op, seen, slot, owned>>

(* Slip: the unwind slack is exposed at every denial. *)
DeniedAgain(t) ==
    /\ op[t].kind = "grant"
    /\ Finish(t, "denied")
    /\ hostStopped' = TRUE
    /\ limit' = [limit EXCEPT ![t] = @ + UnwindSlack]
    /\ UNCHANGED <<setup, counters, embedder, slot,
                   ceiling, granted, slack, external, linear>>

(* try_charge returned Err.  A reservation gives its slot back; a denied   *)
(* heap growth stops the application and exposes the unwind slack once.    *)
Denied(t) ==
    /\ \/ /\ op[t].kind = "env"
          /\ Goto(t, "denied", "unslot")
          /\ UNCHANGED <<op, seen, hostStopped, slack, limit>>
       \/ /\ op[t].kind = "grant"
          /\ Finish(t, "denied")
          /\ hostStopped' = TRUE
          /\ slack' = [slack EXCEPT ![t] = FALSE]
          /\ limit' = [limit EXCEPT ![t] = IF slack[t] THEN @ + UnwindSlack ELSE @]
       \/ /\ op[t].kind \in {"external", "linear"}
          /\ Finish(t, "denied")
          /\ UNCHANGED <<hostStopped, slack, limit>>
    /\ UNCHANGED <<setup, counters, embedder, slot,
                   ceiling, granted, external, linear>>

(* Slip: the granted growth is returned to another pool. *)
ReleaseEnvElsewhere(t) ==
    /\ pc[t] = "idle" /\ slot[t]
    /\ BeginUncharge(t, "granted", "V8External", granted[t])
    /\ granted' = [granted EXCEPT ![t] = 0]
    /\ limit' = [limit EXCEPT ![t] = 0]
    /\ slack' = [slack EXCEPT ![t] = FALSE]
    /\ UNCHANGED <<setup, counters, embedder, hostStopped, seen, slot,
                   ceiling, external, linear>>

(* finish_unregister_napi_env, and abort_isolate with nothing granted: the *)
(* handle leaves its map, then granted, ceiling and slot are returned.     *)
ReleaseEnv(t) ==
    /\ pc[t] = "idle" /\ slot[t]
    /\ BeginUncharge(t, "granted", "V8HeapReserved", granted[t])
    /\ granted' = [granted EXCEPT ![t] = 0]
    /\ limit' = [limit EXCEPT ![t] = 0]
    /\ slack' = [slack EXCEPT ![t] = FALSE]
    /\ UNCHANGED <<setup, counters, embedder, hostStopped, seen, slot,
                   ceiling, external, linear>>

(* Slip: no clamp to what was declared. *)
UnchargeExternalUnclamped(t) ==
    /\ pc[t] = "idle"
    /\ \E b \in ChargeSizes :
          /\ external' = [external EXCEPT ![t] = @ - b]
          /\ BeginUncharge(t, "external", "V8External", b)
    /\ UNCHANGED <<setup, counters, embedder, hostStopped, seen, slot,
                   ceiling, granted, slack, limit, linear>>

(* uncharge_declared_external: clamped to what was declared; also the Drop *)
(* of NapiEnv, which returns all of it.                                    *)
UnchargeExternal(t) ==
    /\ pc[t] = "idle"
    /\ \E b \in ChargeSizes :
          LET release == Smaller(b, external[t]) IN
          /\ external' = [external EXCEPT ![t] = @ - release]
          /\ BeginUncharge(t, "external", "V8External", release)
    /\ UNCHANGED <<setup, counters, embedder, hostStopped, seen, slot,
                   ceiling, granted, slack, limit, linear>>

(* Drop of MemoryCharge: bytes.swap(0), then uncharge. *)
DropMemory(t) ==
    /\ pc[t] = "idle" /\ linear[t] > 0
    /\ linear' = [linear EXCEPT ![t] = 0]
    /\ BeginUncharge(t, "linear", "WasmLinear", linear[t])
    /\ UNCHANGED <<setup, counters, embedder, hostStopped, seen, slot,
                   ceiling, granted, slack, limit, external>>

(* Slip: release_env is not reached after the granted growth. *)
ReturnedEarly(t) ==
    /\ op[t].kind \in {"granted", "external", "linear"}
    /\ Finish(t, "returned")
    /\ UNCHANGED <<setup, counters, embedder, hostStopped, slot, owned>>

(* uncharge returned. *)
Returned(t) ==
    /\ pc[t] = "returned"
    /\ \/ /\ op[t].kind = "granted"
          /\ BeginUncharge(t, "ceiling", "V8HeapReserved", ceiling[t])
          /\ ceiling' = [ceiling EXCEPT ![t] = 0]
          /\ UNCHANGED seen
       \/ /\ op[t].kind = "ceiling"
          /\ Goto(t, "returned", "unslot")
          /\ UNCHANGED <<op, seen, ceiling>>
       \/ /\ op[t].kind \in {"external", "linear"}
          /\ Finish(t, "returned")
          /\ UNCHANGED ceiling
    /\ UNCHANGED <<setup, counters, embedder, hostStopped, slot,
                   granted, slack, limit, external, linear>>

-----------------------------------------------------------------------------
(* The embedder uses its own accountant for memory this code never sees. *)
EmbedderCharge ==
    /\ mode = "accountant"
    /\ \E b \in ChargeSizes :
          /\ acctCharged + b <= AcctLimit
          /\ acctCharged' = acctCharged + b
          /\ embedder' = embedder + b
    /\ UNCHANGED <<setup, memCharged, poolCharged, liveIsolates, hostStopped,
                   pc, op, seen, slot, owned>>

EmbedderUncharge ==
    /\ \E b \in ChargeSizes :
          /\ b <= embedder
          /\ acctCharged' = acctCharged - b
          /\ embedder' = embedder - b
    /\ UNCHANGED <<setup, memCharged, poolCharged, liveIsolates, hostStopped,
                   pc, op, seen, slot, owned>>

(* The rest of an operation a thread has begun. *)
Continue(t) ==
    \/ ChargeLoad(t) \/ ChargeCas(t) \/ ChargeCasFails(t) \/ ChargeAdd(t)
    \/ ChargeAccountant(t) \/ ChargePool(t) \/ Charged(t) \/ Denied(t)
    \/ GrowFails(t)
    \/ UnchargePool(t) \/ UnchargeTotal(t) \/ UnchargeAccountant(t) \/ Returned(t)
    \/ AcquireCas(t) \/ AcquireCasFails(t) \/ PlanHeap(t) \/ ReleaseIsolate(t)

(* The operations a guest or V8 starts. *)
Begin(t) ==
    \/ AcquireUncapped(t) \/ AcquireLoad(t) \/ NearHeapLimit(t)
    \/ ChargeExternal(t) \/ ChargeLinear(t) \/ ReleaseEnv(t)
    \/ UnchargeExternal(t) \/ DropMemory(t)

Next ==
    \/ \E t \in Threads : Continue(t) \/ Begin(t)
    \/ EmbedderCharge
    \/ EmbedderUncharge

(* A thread inside an operation is running native code and goes on. *)
Fairness == \A t \in Threads : WF_vars(Continue(t))

Spec == Init /\ [][Next]_vars /\ Fairness
-----------------------------------------------------------------------------
(* What thread t accounts for in each counter: what its owners hold plus   *)
(* the bytes of a charge or an uncharge that has reached that counter.     *)
InFlight(t, where) == IF pc[t] \in where THEN op[t].bytes ELSE 0

Held(p, t) ==
    IF p = "V8HeapReserved" THEN ceiling[t] + granted[t]
    ELSE IF p = "V8External" THEN external[t]
    ELSE linear[t]

PoolShare(p, t) ==
    Held(p, t) + IF op[t].pool = p THEN InFlight(t, {"charged", "unpool"}) ELSE 0

HeldTotal(t) == ceiling[t] + granted[t] + external[t] + linear[t]

TotalShare(t) ==
    HeldTotal(t) + InFlight(t, {"pool", "charged", "unpool", "untotal"})

AcctShare(t) ==
    HeldTotal(t) + InFlight(t, {"mirror", "pool", "charged", "unpool",
                                "untotal", "unask"})

SlotShare(t) == IF slot[t] THEN 1 ELSE 0

PoolShares(p) == [t \in Threads |-> PoolShare(p, t)]
TotalShares   == [t \in Threads |-> TotalShare(t)]
AcctShares    == [t \in Threads |-> AcctShare(t)]
SlotShares    == [t \in Threads |-> SlotShare(t)]

(* Enforcement never slips: whatever the threads interleave in the         *)
(* compare-and-swap loop of try_charge, a limited budget's mem_charged     *)
(* stays within mem_total and the accountant's total within its limit.     *)
TotalBounded ==
    /\ mode = "limited" => memCharged <= MemTotal
    /\ acctCharged <= AcctLimit

(* Every byte of the total is attributed: mem_charged is exactly what the  *)
(* owners hold plus the charges under way, so a failed reservation or a    *)
(* finished release leaves nothing behind and no fetch_sub wraps.  An      *)
(* accountant additionally carries the embedder's own bytes.               *)
TotalConserved ==
    /\ memCharged = Sum(TotalShares, NThreads)
    /\ mode = "accountant" => acctCharged = embedder + Sum(AcctShares, NThreads)

(* Each pool counter is exactly what the owners of that pool hold: bytes   *)
(* are returned to the pool they were charged to.                          *)
PoolsConserved ==
    \A p \in Pools : poolCharged[p] = Sum(PoolShares(p), NThreads)

(* Because a charge commits the total before the pool and an uncharge      *)
(* returns the pool before the total, the pools never add up to more than  *)
(* the total at any instant.                                               *)
PoolsWithinTotal ==
    /\ \A p \in Pools : poolCharged[p] >= 0
    /\ poolCharged["WasmLinear"] + poolCharged["V8HeapReserved"]
          + poolCharged["V8External"] <= memCharged

(* live_isolates counts exactly the threads that own a slot, on every path *)
(* of try_reserve_env, and max_envs is never exceeded.                     *)
IsolatesCounted ==
    /\ liveIsolates = Sum(SlotShares, NThreads)
    /\ capped => liveIsolates <= MaxEnvs

(* V8's heap limit never exceeds what has been charged for the env: the    *)
(* reserved old generation, the granted steps, and the unwind slack that   *)
(* is part of the ceiling and exposed at most once.                        *)
HeapWithinCharge ==
    \A t \in Threads :
       mode # "unlimited" /\ limit[t] > 0
          => limit[t] <= ceiling[t] + granted[t] - Overhead

(* The limits no interleaving of charges exceeds: the total, the pools     *)
(* below it, and V8's heap limit within what was charged for the env.      *)
Limits == TotalBounded /\ PoolsWithinTotal /\ HeapWithinCharge

(* Every counter is exactly what its owners hold: the total, the pools and *)
(* the isolate slots.                                                      *)
Conservation == TotalConserved /\ PoolsConserved /\ IsolatesCounted

(* A release, once begun, returns the isolate slot: no step of it waits    *)
(* for another thread.                                                     *)
ReleaseCompletes ==
    \A t \in Threads :
       (pc[t] # "idle" /\ op[t].kind \in {"granted", "ceiling"}) ~> ~slot[t]
-----------------------------------------------------------------------------
(* What is true of a call at each of its control points; with the          *)
(* properties above it is inductive (module ResourceBudgetProofs).         *)
ChargePhase == {"charge", "cas", "mirror", "pool", "charged", "denied"}
UnchargePhase == {"unpool", "untotal", "unask", "returned"}
PoolOf(kind) == IF kind = "external" THEN "V8External"
                ELSE IF kind = "linear" THEN "WasmLinear"
                ELSE "V8HeapReserved"

CallConsistent(t) ==
    /\ pc[t] \in ChargePhase => op[t].kind \in {"env", "grant", "external", "linear"}
    /\ pc[t] \in UnchargePhase
          => op[t].kind \in {"granted", "ceiling", "external", "linear"}
    /\ op[t].kind # "none" => op[t].pool = PoolOf(op[t].kind)
    /\ pc[t] = "idle" => op[t].kind = "none"
    /\ pc[t] \in {"slotcas", "plan"} => op[t].kind = "env" /\ op[t].bytes = 0
    /\ pc[t] = "unslot" => op[t].kind \in {"env", "ceiling"}
    /\ pc[t] = "cas" => mode = "limited" /\ Fits(seen[t], op[t].bytes)
    /\ pc[t] \in {"mirror", "unask"} => mode = "accountant"
    /\ pc[t] = "slotcas" => capped /\ seen[t] < MaxEnvs

EnvConsistent(t) ==
    /\ pc[t] = "slotcas" => ~slot[t]
    /\ op[t].kind \in {"env", "grant", "granted", "ceiling"} /\ pc[t] # "slotcas"
          => slot[t]
    /\ ~slot[t] \/ op[t].kind \in {"env", "granted", "ceiling"}
          => granted[t] = 0 /\ limit[t] = 0 /\ ~slack[t]
    /\ ~slot[t] \/ op[t].kind \in {"env", "ceiling"} => ceiling[t] = 0
    /\ mode # "unlimited" /\ op[t].kind = "env" /\ pc[t] \in ChargePhase
          => op[t].bytes = Fixed + op[t].old /\ op[t].old > 0
    /\ mode # "unlimited" /\ slot[t]
          /\ op[t].kind \in {"none", "grant", "external", "linear"}
          => /\ limit[t] > 0
             /\ limit[t] + (IF slack[t] THEN UnwindSlack ELSE 0)
                   <= ceiling[t] + granted[t] - Overhead

CallsConsistent == \A t \in Threads : CallConsistent(t) /\ EnvConsistent(t)
=============================================================================
