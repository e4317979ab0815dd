------------------------- MODULE EnvLifecycleProofs -------------------------
(***************************************************************************)
(* The safety of EnvLifecycle for any environments, addresses, requests,   *)
(* depths and numbers of finalizers.  The invariant says, phase by phase,  *)
(* who holds the SnapiEnvState, which tables name it, what is on the       *)
(* owner's stack and what a stop has left for the env to do.               *)
(***************************************************************************)
EXTENDS EnvLifecycle, TLAPS

Allocated  == Phases \ {"unborn", "unretained", "done"}
Listed     == Allocated \ {"created", "removed"}
Tabled     == Allocated \ {"erased", "dropped", "removed"}
WithEngine == Tabled \ {"disposed"}
Released   == {"closing", "finalizing", "disposed", "erased", "dropped",
               "removed", "unretained", "done"}

(* The SnapiEnvState of e, its holders and the tables that name it. *)
AddressOf(e) ==
    /\ phase[e] # "unborn" => addr[e] \in Addrs
    /\ e \in registry <=> phase[e] \in Listed
    /\ phase[e] \in Allocated =>
          /\ heap[addr[e]] = e
          /\ holders[addr[e]] = IF phase[e] \in {"created", "dropped", "removed"}
                                THEN 1 ELSE 2
          /\ addr[e] \in genvs <=> phase[e] \in Tabled

AddressInv ==
    /\ \A e \in Envs : AddressOf(e)
    /\ \A a \in Addrs : heap[a] # NoEnv => addr[heap[a]] = a /\ phase[heap[a]] \in Allocated
    /\ \A a \in genvs : heap[a] # NoEnv

(* The stack of the owner, the engine and the charge. *)
FrameOf(e) ==
    /\ closing[e] <=> phase[e] \in Released
    /\ engine[e] <=> phase[e] \in WithEngine
    /\ charged[e] <=> phase[e] \notin {"unborn", "done"}
    /\ phase[e] \notin {"running", "finalizing", "leaked"} => top[e] = "native"
    /\ phase[e] = "leaked" => top[e] = "guest"
    /\ phase[e] \notin {"running", "finalizing"} => guestCalls[e] = 0
    /\ phase[e] = "finalizing" =>
          /\ teardownCalls[e] = guestCalls[e]
          /\ top[e] = "native" <=> guestCalls[e] = 0
    /\ phase[e] # "finalizing" => teardownCalls[e] = 0

FrameInv == \A e \in Envs : FrameOf(e)

(* The requests of e. *)
RequestsOf(e) ==
    /\ queued[e] \subseteq pending[e] /\ pending[e] = live[e]
    /\ phase[e] \in Released \ {"closing", "finalizing"} => queued[e] = {}
    /\ phase[e] \in Released \ {"closing", "finalizing", "disposed"} => pending[e] = {}

RequestsInv == \A e \in Envs : RequestsOf(e)

(* What a stop leaves: a termination, a termination that was undone, or a  *)
(* release that starts no further guest code.                              *)
StoppedEnv(e) ==
    \/ undone[e] # {}
    \/ terminated[e] /\ phase[e] # "finalizing"
    \/ closing[e] /\ stopRequested[e] /\ (terminated[e] \/ teardownCalls[e] = 0)

StopInv ==
    /\ control # "idle" \/ stopDone => hostStopped
    /\ \A e \in Envs :
          /\ phase[e] \in {"running", "closing", "finalizing"}
          /\ stopDone \/ (control = "locked" /\ e \notin todo)
          => StoppedEnv(e)

Inv == TypeOK /\ AddressInv /\ FrameInv /\ RequestsInv /\ StopInv

-----------------------------------------------------------------------------
(* What a termination changes, and for whom: it only ever adds, and the    *)
(* env whose address was passed is stopped if it is in g_envs.             *)
LEMMA BridgeEffect ==
  ASSUME TypeOK, AddressInv, NEW at, BridgeTerminate(at)
  PROVE  /\ stopRequested' \in [Envs -> BOOLEAN] /\ terminated' \in [Envs -> BOOLEAN]
         /\ \A e \in Envs : /\ stopRequested[e] => stopRequested'[e]
                            /\ terminated[e] => terminated'[e]
                            /\ e # heap[at] => terminated'[e] = terminated[e]
         /\ at \in genvs => LET e == heap[at] IN
               /\ e \in Envs
               /\ closing[e] => stopRequested'[e]
               /\ (closing[e] /\ teardownCalls[e] = 0) \/ terminated'[e]
<1>1. CASE at \notin genvs
  BY <1>1 DEF BridgeTerminate, TypeOK
<1>2. CASE at \in genvs
  <2>. DEFINE h == heap[at]
  <2>1. h \in Envs
    BY <1>2 DEF AddressInv, TypeOK
  <2>2. closing[h] \in BOOLEAN /\ stopRequested[h] \in BOOLEAN /\ terminated[h] \in BOOLEAN
    BY <2>1 DEF TypeOK
  <2>3. /\ stopRequested' = [stopRequested EXCEPT ![h] = @ \/ closing[h]]
        /\ terminated' = [terminated EXCEPT
              ![h] = @ \/ ~(closing[h] /\ teardownCalls[h] = 0)]
    BY <1>2 DEF BridgeTerminate
  <2>. HIDE DEF h
  <2>4. stopRequested' \in [Envs -> BOOLEAN] /\ terminated' \in [Envs -> BOOLEAN]
    BY <2>1, <2>2, <2>3 DEF TypeOK
  <2>5. \A e \in Envs : /\ stopRequested[e] => stopRequested'[e]
                        /\ terminated[e] => terminated'[e]
                        /\ e # h => terminated'[e] = terminated[e]
    BY <2>1, <2>2, <2>3 DEF TypeOK
  <2>6. /\ closing[h] => stopRequested'[h]
        /\ (closing[h] /\ teardownCalls[h] = 0) \/ terminated'[h]
    BY <2>1, <2>2, <2>3 DEF TypeOK
  <2>. QED
    BY <1>2, <2>1, <2>4, <2>5, <2>6 DEF h
<1>. QED
  BY <1>1, <1>2

(* A step keeps the types. *)
LEMMA TypeStep ==
  ASSUME TypeOK, AddressInv, FrameInv, Next
  PROVE  TypeOK'
<1>. USE ConstantsAssumption DEF TypeOK, app, memory, thread, agent, intr, v8
<1>1. CASE TerminateAll \/ TerminateAllLock \/ TerminateAllReturn
  <2>1. CASE TerminateAll
    BY <2>1 DEF TerminateAll
  <2>2. CASE TerminateAllLock
    BY <2>2 DEF TerminateAllLock
  <2>3. CASE TerminateAllReturn
    BY <2>3 DEF TerminateAllReturn
  <2>. QED
    BY <1>1, <2>1, <2>2, <2>3
<1>2. ASSUME NEW e \in Envs, TerminateAllEnv(e) PROVE TypeOK'
  <2>1. stopRequested' \in [Envs -> BOOLEAN] /\ terminated' \in [Envs -> BOOLEAN]
    BY <1>2, BridgeEffect DEF TerminateAllEnv
  <2>. QED
    BY <1>2, <2>1 DEF TerminateAllEnv
<1>3. ASSUME NEW e \in Envs, TerminateAppEnv(e) PROVE TypeOK'
  <2>1. stopRequested' \in [Envs -> BOOLEAN] /\ terminated' \in [Envs -> BOOLEAN]
    BY <1>3, BridgeEffect DEF TerminateAppEnv
  <2>. QED
    BY <1>3, <2>1 DEF TerminateAppEnv
<1>4. ASSUME NEW e \in Envs, NearHeapDenied(e) PROVE TypeOK'
  <2>1. stopRequested' \in [Envs -> BOOLEAN] /\ terminated' \in [Envs -> BOOLEAN]
    BY <1>4, BridgeEffect DEF NearHeapDenied
  <2>. QED
    BY <1>4, <2>1 DEF NearHeapDenied
<1>5. ASSUME NEW e \in Envs, CancelTest(e) PROVE TypeOK'
  <2>1. stopRequested' \in [Envs -> BOOLEAN] /\ terminated' \in [Envs -> BOOLEAN]
    BY <1>5, BridgeEffect DEF CancelTest
  <2>. QED
    BY <1>5, <2>1 DEF CancelTest, InGuest, Phases
<1>6. ASSUME NEW e \in Envs, CancelClear(e) PROVE TypeOK'
  BY <1>6 DEF CancelClear
<1>7. ASSUME NEW e \in Envs, Create(e) PROVE TypeOK'
  BY <1>7 DEF Create, Move, Phases
<1>8. ASSUME NEW e \in Envs, Register(e) PROVE TypeOK'
  <2>1. addr[e] \in Addrs
    BY <1>8 DEF Register, Move, AddressInv, AddressOf
  <2>2. holders' \in [Addrs -> Nat]
    BY <1>8, <2>1 DEF Register
  <2>. QED
    BY <1>8, <2>2 DEF Register, Move, Phases
<1>9. ASSUME NEW e \in Envs, CommitIsolate(e) PROVE TypeOK'
  <2>1. stopRequested' \in [Envs -> BOOLEAN] /\ terminated' \in [Envs -> BOOLEAN]
    BY <1>9, BridgeEffect DEF CommitIsolate
  <2>. QED
    BY <1>9, <2>1 DEF CommitIsolate, Move, RegistryFree, Phases
<1>10. ASSUME NEW e \in Envs, JsEnter(e) PROVE TypeOK'
  BY <1>10 DEF JsEnter, Run, InGuest
<1>11. ASSUME NEW e \in Envs, JsReturn(e) PROVE TypeOK'
  BY <1>11 DEF JsReturn, Run
<1>12. ASSUME NEW e \in Envs, GuestEnter(e) PROVE TypeOK'
  BY <1>12 DEF GuestEnter, Run
<1>13. ASSUME NEW e \in Envs, GuestLeave(e) PROVE TypeOK'
  <2>1. /\ guestCalls[e] \in Nat \ {0}
        /\ closing[e] => teardownCalls[e] = guestCalls[e]
    BY <1>13 DEF GuestLeave, Run, InGuest, FrameInv, FrameOf, Released
  <2>. QED
    BY <1>13, <2>1 DEF GuestLeave, Run, InGuest
<1>14. ASSUME NEW e \in Envs, RequestInterrupt(e) PROVE TypeOK'
  BY <1>14 DEF RequestInterrupt
<1>15. ASSUME NEW e \in Envs, InterruptCallback(e) PROVE TypeOK'
  BY <1>15 DEF InterruptCallback, Run
<1>16. ASSUME NEW e \in Envs, ReleaseImport(e) PROVE TypeOK'
  BY <1>16 DEF ReleaseImport, BeginRelease, Move, Run, InGuest, Phases
<1>17. ASSUME NEW e \in Envs, DropStore(e) PROVE TypeOK'
  BY <1>17 DEF DropStore, BeginRelease, Move, Run, InGuest, Phases
<1>18. ASSUME NEW e \in Envs, DropElsewhere(e) PROVE TypeOK'
  BY <1>18 DEF DropElsewhere, Move, InGuest, Phases
<1>19. ASSUME NEW e \in Envs, Shutdown(e) PROVE TypeOK'
  BY <1>19 DEF Shutdown, Move, Phases
<1>20. ASSUME NEW e \in Envs, RunFinalizer(e) PROVE TypeOK'
  BY <1>20 DEF RunFinalizer, Run
<1>21. ASSUME NEW e \in Envs, DisposeEngine(e) PROVE TypeOK'
  BY <1>21 DEF DisposeEngine, Move, Phases
<1>22. ASSUME NEW e \in Envs, DisposeErase(e) PROVE TypeOK'
  BY <1>22 DEF DisposeErase, Move, Phases
<1>23. ASSUME NEW e \in Envs, DisposeAgent(e) PROVE TypeOK'
  <2>1. addr[e] \in Addrs /\ holders[addr[e]] \in {1, 2}
    BY <1>23 DEF DisposeAgent, Move, AddressInv, AddressOf, Allocated, Phases
  <2>2. holders' \in [Addrs -> Nat] /\ heap' \in [Addrs -> Envs \cup {NoEnv}]
    BY <1>23, <2>1 DEF DisposeAgent, DropEnvStateHolder
  <2>. QED
    BY <1>23, <2>2 DEF DisposeAgent, Move, Phases
<1>24. ASSUME NEW e \in Envs, FinishRemove(e) PROVE TypeOK'
  BY <1>24 DEF FinishRemove, Move, RegistryFree, Phases
<1>25. ASSUME NEW e \in Envs, FinishUnretain(e) PROVE TypeOK'
  <2>1. addr[e] \in Addrs /\ holders[addr[e]] \in {1, 2}
    BY <1>25 DEF FinishUnretain, Move, AddressInv, AddressOf, Allocated, Phases
  <2>2. holders' \in [Addrs -> Nat] /\ heap' \in [Addrs -> Envs \cup {NoEnv}]
    BY <1>25, <2>1 DEF FinishUnretain, DropEnvStateHolder
  <2>. QED
    BY <1>25, <2>2 DEF FinishUnretain, Move, Phases
<1>26. ASSUME NEW e \in Envs, FinishCharge(e) PROVE TypeOK'
  BY <1>26 DEF FinishCharge, Move, Phases
<1>. QED
  BY <1>1, <1>2, <1>3, <1>4, <1>5, <1>6, <1>7, <1>8, <1>9, <1>10, <1>11, <1>12, <1>13, <1>14, <1>15, <1>16, <1>17, <1>18, <1>19, <1>20, <1>21, <1>22, <1>23, <1>24, <1>25, <1>26 DEF Next, Controller, Releasing

(* A step keeps who holds an address and which tables name it. *)
LEMMA AddressStep ==
  ASSUME TypeOK, AddressInv, Next
  PROVE  AddressInv'
<1>. USE ConstantsAssumption DEF app, memory, thread
<1>. DEFINE quiet == UNCHANGED <<registry, heap, holders, genvs, phase, addr>>
            Classes == {Allocated, Listed, Tabled, {"unborn"},
                        {"created", "dropped", "removed"}}
<1>1. CASE TerminateAll \/ TerminateAllLock \/ TerminateAllReturn
  <2>1. quiet
    BY <1>1 DEF TerminateAll, TerminateAllLock, TerminateAllReturn
  <2>. QED
    BY <2>1 DEF AddressInv, AddressOf
<1>2. ASSUME NEW e \in Envs, TerminateAllEnv(e) PROVE AddressInv'
  <2>1. quiet
    BY <1>2 DEF TerminateAllEnv
  <2>. QED
    BY <2>1 DEF AddressInv, AddressOf
<1>3. ASSUME NEW e \in Envs, TerminateAppEnv(e) PROVE AddressInv'
  <2>1. quiet
    BY <1>3 DEF TerminateAppEnv
  <2>. QED
    BY <2>1 DEF AddressInv, AddressOf
<1>4. ASSUME NEW e \in Envs, NearHeapDenied(e) PROVE AddressInv'
  <2>1. quiet
    BY <1>4 DEF NearHeapDenied
  <2>. QED
    BY <2>1 DEF AddressInv, AddressOf
<1>5. ASSUME NEW e \in Envs, CancelTest(e) PROVE AddressInv'
  <2>1. quiet
    BY <1>5 DEF CancelTest
  <2>. QED
    BY <2>1 DEF AddressInv, AddressOf
<1>6. ASSUME NEW e \in Envs, CancelClear(e) PROVE AddressInv'
  <2>1. quiet
    BY <1>6 DEF CancelClear
  <2>. QED
    BY <2>1 DEF AddressInv, AddressOf
<1>7. ASSUME NEW e \in Envs, JsEnter(e) PROVE AddressInv'
  <2>1. quiet
    BY <1>7 DEF JsEnter
  <2>. QED
    BY <2>1 DEF AddressInv, AddressOf
<1>8. ASSUME NEW e \in Envs, JsReturn(e) PROVE AddressInv'
  <2>1. quiet
    BY <1>8 DEF JsReturn
  <2>. QED
    BY <2>1 DEF AddressInv, AddressOf
<1>9. ASSUME NEW e \in Envs, GuestEnter(e) PROVE AddressInv'
  <2>1. quiet
    BY <1>9 DEF GuestEnter
  <2>. QED
    BY <2>1 DEF AddressInv, AddressOf
<1>10. ASSUME NEW e \in Envs, GuestLeave(e) PROVE AddressInv'
  <2>1. quiet
    BY <1>10 DEF GuestLeave
  <2>. QED
    BY <2>1 DEF AddressInv, AddressOf
<1>11. ASSUME NEW e \in Envs, RequestInterrupt(e) PROVE AddressInv'
  <2>1. quiet
    BY <1>11 DEF RequestInterrupt
  <2>. QED
    BY <2>1 DEF AddressInv, AddressOf
<1>12. ASSUME NEW e \in Envs, InterruptCallback(e) PROVE AddressInv'
  <2>1. quiet
    BY <1>12 DEF InterruptCallback
  <2>. QED
    BY <2>1 DEF AddressInv, AddressOf
<1>13. ASSUME NEW e \in Envs, RunFinalizer(e) PROVE AddressInv'
  <2>1. quiet
    BY <1>13 DEF RunFinalizer
  <2>. QED
    BY <2>1 DEF AddressInv, AddressOf
<1>14. ASSUME NEW e \in Envs, CommitIsolate(e) PROVE AddressInv'
  <2>1. /\ UNCHANGED <<registry, heap, holders, genvs, addr>>
        /\ phase' \in [Envs -> Phases]
        /\ \A i \in Envs : \A C \in Classes : phase'[i] \in C <=> phase[i] \in C
    BY <1>14 DEF CommitIsolate, Move, TypeOK, Phases, Allocated, Listed, Tabled
  <2>. QED
    BY <2>1 DEF AddressInv, AddressOf, TypeOK
<1>15. ASSUME NEW e \in Envs, ReleaseImport(e) PROVE AddressInv'
  <2>1. /\ UNCHANGED <<registry, heap, holders, genvs, addr>>
        /\ phase' \in [Envs -> Phases]
        /\ \A i \in Envs : \A C \in Classes : phase'[i] \in C <=> phase[i] \in C
    BY <1>15 DEF ReleaseImport, BeginRelease, Move, TypeOK, Phases, Allocated, Listed, Tabled
  <2>. QED
    BY <2>1 DEF AddressInv, AddressOf, TypeOK
<1>16. ASSUME NEW e \in Envs, DropStore(e) PROVE AddressInv'
  <2>1. /\ UNCHANGED <<registry, heap, holders, genvs, addr>>
        /\ phase' \in [Envs -> Phases]
        /\ \A i \in Envs : \A C \in Classes : phase'[i] \in C <=> phase[i] \in C
    BY <1>16 DEF DropStore, BeginRelease, Move, TypeOK, Phases, Allocated, Listed, Tabled
  <2>. QED
    BY <2>1 DEF AddressInv, AddressOf, TypeOK
<1>17. ASSUME NEW e \in Envs, DropElsewhere(e) PROVE AddressInv'
  <2>1. /\ UNCHANGED <<registry, heap, holders, genvs, addr>>
        /\ phase' \in [Envs -> Phases]
        /\ \A i \in Envs : \A C \in Classes : phase'[i] \in C <=> phase[i] \in C
    BY <1>17 DEF DropElsewhere, Move, TypeOK, Phases, Allocated, Listed, Tabled
  <2>. QED
    BY <2>1 DEF AddressInv, AddressOf, TypeOK
<1>18. ASSUME NEW e \in Envs, Shutdown(e) PROVE AddressInv'
  <2>1. /\ UNCHANGED <<registry, heap, holders, genvs, addr>>
        /\ phase' \in [Envs -> Phases]
        /\ \A i \in Envs : \A C \in Classes : phase'[i] \in C <=> phase[i] \in C
    BY <1>18 DEF Shutdown, Move, TypeOK, Phases, Allocated, Listed, Tabled
  <2>. QED
    BY <2>1 DEF AddressInv, AddressOf, TypeOK
<1>19. ASSUME NEW e \in Envs, DisposeEngine(e) PROVE AddressInv'
  <2>1. /\ UNCHANGED <<registry, heap, holders, genvs, addr>>
        /\ phase' \in [Envs -> Phases]
        /\ \A i \in Envs : \A C \in Classes : phase'[i] \in C <=> phase[i] \in C
    BY <1>19 DEF DisposeEngine, Move, TypeOK, Phases, Allocated, Listed, Tabled
  <2>. QED
    BY <2>1 DEF AddressInv, AddressOf, TypeOK
<1>20. ASSUME NEW e \in Envs, FinishCharge(e) PROVE AddressInv'
  <2>1. /\ UNCHANGED <<registry, heap, holders, genvs, addr>>
        /\ phase' \in [Envs -> Phases]
        /\ \A i \in Envs : \A C \in Classes : phase'[i] \in C <=> phase[i] \in C
    BY <1>20 DEF FinishCharge, Move, TypeOK, Phases, Allocated, Listed, Tabled
  <2>. QED
    BY <2>1 DEF AddressInv, AddressOf, TypeOK
<1>21. ASSUME NEW e \in Envs, Create(e) PROVE AddressInv'
  <2>1. PICK a \in Addrs : /\ heap[a] = NoEnv
                          /\ heap' = [heap EXCEPT ![a] = e]
                          /\ holders' = [holders EXCEPT ![a] = 1]
                          /\ genvs' = genvs \cup {a}
                          /\ addr' = [addr EXCEPT ![e] = a]
    BY <1>21 DEF Create
  <2>2. AddressOf(e)'
    BY <1>21, <2>1 DEF Create, Move, AddressInv, AddressOf, TypeOK, Phases, Allocated, Listed, Tabled
  <2>3. ASSUME NEW i \in Envs \ {e} PROVE AddressOf(i)'
    <3>1. phase[i] \in Allocated => addr[i] \in Addrs /\ addr[i] # a
      BY <2>1 DEF AddressInv, AddressOf, Allocated
    <3>2. phase'[i] = phase[i] /\ addr'[i] = addr[i] /\ (i \in registry' <=> i \in registry)
      BY <1>21, <2>1 DEF Create, Move, TypeOK
    <3>3. \A b \in Addrs \ {a} : /\ heap'[b] = heap[b] /\ holders'[b] = holders[b]
                                 /\ b \in genvs' <=> b \in genvs
      BY <1>21, <2>1 DEF Create, Move, TypeOK
    <3>. QED
      BY <3>1, <3>2, <3>3 DEF AddressInv, AddressOf
  <2>4. ASSUME NEW b \in Addrs, heap'[b] # NoEnv
        PROVE  addr'[heap'[b]] = b /\ phase'[heap'[b]] \in Allocated
    BY <1>21, <2>1, <2>4 DEF Create, Move, AddressInv, AddressOf, TypeOK, Phases, Allocated
  <2>5. ASSUME NEW b \in genvs' PROVE heap'[b] # NoEnv
    BY <1>21, <2>1 DEF Create, Move, AddressInv, AddressOf, TypeOK, Allocated, Tabled
  <2>. QED
    BY <2>2, <2>3, <2>4, <2>5 DEF AddressInv
<1>22. ASSUME NEW e \in Envs, Register(e) PROVE AddressInv'
  <2>. DEFINE a == addr[e]
  <2>1. a \in Addrs /\ heap[a] = e
    BY <1>22 DEF Register, Move, AddressInv, AddressOf, Allocated, Phases
  <2>2. AddressOf(e)'
    BY <1>22, <2>1 DEF Register, Move, AddressInv, AddressOf, TypeOK, Phases, Allocated, Listed, Tabled
  <2>3. ASSUME NEW i \in Envs \ {e} PROVE AddressOf(i)'
    <3>1. phase[i] \in Allocated => addr[i] \in Addrs /\ addr[i] # a
      BY <2>1 DEF AddressInv, AddressOf, Allocated
    <3>2. phase'[i] = phase[i] /\ addr'[i] = addr[i] /\ (i \in registry' <=> i \in registry)
      BY <1>22, <2>1 DEF Register, Move, TypeOK
    <3>3. \A b \in Addrs \ {a} : /\ heap'[b] = heap[b] /\ holders'[b] = holders[b]
                                 /\ b \in genvs' <=> b \in genvs
      BY <1>22, <2>1 DEF Register, Move, TypeOK
    <3>. QED
      BY <3>1, <3>2, <3>3 DEF AddressInv, AddressOf
  <2>4. ASSUME NEW b \in Addrs, heap'[b] # NoEnv
        PROVE  addr'[heap'[b]] = b /\ phase'[heap'[b]] \in Allocated
    BY <1>22, <2>1, <2>4 DEF Register, Move, AddressInv, AddressOf, TypeOK, Phases, Allocated
  <2>5. ASSUME NEW b \in genvs' PROVE heap'[b] # NoEnv
    BY <1>22, <2>1 DEF Register, Move, AddressInv, AddressOf, TypeOK, Allocated, Tabled
  <2>. QED
    BY <2>2, <2>3, <2>4, <2>5 DEF AddressInv
<1>23. ASSUME NEW e \in Envs, DisposeErase(e) PROVE AddressInv'
  <2>. DEFINE a == addr[e]
  <2>1. a \in Addrs /\ heap[a] = e
    BY <1>23 DEF DisposeErase, Move, AddressInv, AddressOf, Allocated, Phases
  <2>2. AddressOf(e)'
    BY <1>23, <2>1 DEF DisposeErase, Move, AddressInv, AddressOf, TypeOK, Phases, Allocated, Listed, Tabled
  <2>3. ASSUME NEW i \in Envs \ {e} PROVE AddressOf(i)'
    <3>1. phase[i] \in Allocated => addr[i] \in Addrs /\ addr[i] # a
      BY <2>1 DEF AddressInv, AddressOf, Allocated
    <3>2. phase'[i] = phase[i] /\ addr'[i] = addr[i] /\ (i \in registry' <=> i \in registry)
      BY <1>23, <2>1 DEF DisposeErase, Move, TypeOK
    <3>3. \A b \in Addrs \ {a} : /\ heap'[b] = heap[b] /\ holders'[b] = holders[b]
                                 /\ b \in genvs' <=> b \in genvs
      BY <1>23, <2>1 DEF DisposeErase, Move, TypeOK
    <3>. QED
      BY <3>1, <3>2, <3>3 DEF AddressInv, AddressOf
  <2>4. ASSUME NEW b \in Addrs, heap'[b] # NoEnv
        PROVE  addr'[heap'[b]] = b /\ phase'[heap'[b]] \in Allocated
    BY <1>23, <2>1, <2>4 DEF DisposeErase, Move, AddressInv, AddressOf, TypeOK, Phases, Allocated
  <2>5. ASSUME NEW b \in genvs' PROVE heap'[b] # NoEnv
    BY <1>23, <2>1 DEF DisposeErase, Move, AddressInv, AddressOf, TypeOK, Allocated, Tabled
  <2>. QED
    BY <2>2, <2>3, <2>4, <2>5 DEF AddressInv
<1>24. ASSUME NEW e \in Envs, DisposeAgent(e) PROVE AddressInv'
  <2>. DEFINE a == addr[e]
  <2>1. a \in Addrs /\ heap[a] = e
    BY <1>24 DEF DisposeAgent, Move, AddressInv, AddressOf, Allocated, Phases
  <2>2. AddressOf(e)'
    BY <1>24, <2>1 DEF DisposeAgent, Move, DropEnvStateHolder, AddressInv, AddressOf, TypeOK, Phases, Allocated, Listed, Tabled
  <2>3. ASSUME NEW i \in Envs \ {e} PROVE AddressOf(i)'
    <3>1. phase[i] \in Allocated => addr[i] \in Addrs /\ addr[i] # a
      BY <2>1 DEF AddressInv, AddressOf, Allocated
    <3>2. phase'[i] = phase[i] /\ addr'[i] = addr[i] /\ (i \in registry' <=> i \in registry)
      BY <1>24, <2>1 DEF DisposeAgent, Move, DropEnvStateHolder, TypeOK
    <3>3. \A b \in Addrs \ {a} : /\ heap'[b] = heap[b] /\ holders'[b] = holders[b]
                                 /\ b \in genvs' <=> b \in genvs
      BY <1>24, <2>1 DEF DisposeAgent, Move, DropEnvStateHolder, TypeOK
    <3>. QED
      BY <3>1, <3>2, <3>3 DEF AddressInv, AddressOf
  <2>4. ASSUME NEW b \in Addrs, heap'[b] # NoEnv
        PROVE  addr'[heap'[b]] = b /\ phase'[heap'[b]] \in Allocated
    BY <1>24, <2>1, <2>4 DEF DisposeAgent, Move, DropEnvStateHolder, AddressInv, AddressOf, TypeOK, Phases, Allocated
  <2>5. ASSUME NEW b \in genvs' PROVE heap'[b] # NoEnv
    BY <1>24, <2>1 DEF DisposeAgent, Move, DropEnvStateHolder, AddressInv, AddressOf, TypeOK, Allocated, Tabled
  <2>. QED
    BY <2>2, <2>3, <2>4, <2>5 DEF AddressInv
<1>25. ASSUME NEW e \in Envs, FinishRemove(e) PROVE AddressInv'
  <2>. DEFINE a == addr[e]
  <2>1. a \in Addrs /\ heap[a] = e
    BY <1>25 DEF FinishRemove, Move, AddressInv, AddressOf, Allocated, Phases
  <2>2. AddressOf(e)'
    BY <1>25, <2>1 DEF FinishRemove, Move, AddressInv, AddressOf, TypeOK, Phases, Allocated, Listed, Tabled
  <2>3. ASSUME NEW i \in Envs \ {e} PROVE AddressOf(i)'
    <3>1. phase[i] \in Allocated => addr[i] \in Addrs /\ addr[i] # a
      BY <2>1 DEF AddressInv, AddressOf, Allocated
    <3>2. phase'[i] = phase[i] /\ addr'[i] = addr[i] /\ (i \in registry' <=> i \in registry)
      BY <1>25, <2>1 DEF FinishRemove, Move, TypeOK
    <3>3. \A b \in Addrs \ {a} : /\ heap'[b] = heap[b] /\ holders'[b] = holders[b]
                                 /\ b \in genvs' <=> b \in genvs
      BY <1>25, <2>1 DEF FinishRemove, Move, TypeOK
    <3>. QED
      BY <3>1, <3>2, <3>3 DEF AddressInv, AddressOf
  <2>4. ASSUME NEW b \in Addrs, heap'[b] # NoEnv
        PROVE  addr'[heap'[b]] = b /\ phase'[heap'[b]] \in Allocated
    BY <1>25, <2>1, <2>4 DEF FinishRemove, Move, AddressInv, AddressOf, TypeOK, Phases, Allocated
  <2>5. ASSUME NEW b \in genvs' PROVE heap'[b] # NoEnv
    BY <1>25, <2>1 DEF FinishRemove, Move, AddressInv, AddressOf, TypeOK, Allocated, Tabled
  <2>. QED
    BY <2>2, <2>3, <2>4, <2>5 DEF AddressInv
<1>26. ASSUME NEW e \in Envs, FinishUnretain(e) PROVE AddressInv'
  <2>. DEFINE a == addr[e]
  <2>1. a \in Addrs /\ heap[a] = e
    BY <1>26 DEF FinishUnretain, Move, AddressInv, AddressOf, Allocated, Phases
  <2>2. AddressOf(e)'
    BY <1>26, <2>1 DEF FinishUnretain, Move, DropEnvStateHolder, AddressInv, AddressOf, TypeOK, Phases, Allocated, Listed, Tabled
  <2>3. ASSUME NEW i \in Envs \ {e} PROVE AddressOf(i)'
    <3>1. phase[i] \in Allocated => addr[i] \in Addrs /\ addr[i] # a
      BY <2>1 DEF AddressInv, AddressOf, Allocated
    <3>2. phase'[i] = phase[i] /\ addr'[i] = addr[i] /\ (i \in registry' <=> i \in registry)
      BY <1>26, <2>1 DEF FinishUnretain, Move, DropEnvStateHolder, TypeOK
    <3>3. \A b \in Addrs \ {a} : /\ heap'[b] = heap[b] /\ holders'[b] = holders[b]
                                 /\ b \in genvs' <=> b \in genvs
      BY <1>26, <2>1 DEF FinishUnretain, Move, DropEnvStateHolder, TypeOK
    <3>. QED
      BY <3>1, <3>2, <3>3 DEF AddressInv, AddressOf
  <2>4. ASSUME NEW b \in Addrs, heap'[b] # NoEnv
        PROVE  addr'[heap'[b]] = b /\ phase'[heap'[b]] \in Allocated
    BY <1>26, <2>1, <2>4 DEF FinishUnretain, Move, DropEnvStateHolder, AddressInv, AddressOf, TypeOK, Phases, Allocated
  <2>5. ASSUME NEW b \in genvs' PROVE heap'[b] # NoEnv
    BY <1>26, <2>1 DEF FinishUnretain, Move, DropEnvStateHolder, AddressInv, AddressOf, TypeOK, Allocated, Tabled
  <2>. QED
    BY <2>2, <2>3, <2>4, <2>5 DEF AddressInv
<1>. QED
  BY <1>1, <1>2, <1>3, <1>4, <1>5, <1>6, <1>7, <1>8, <1>9, <1>10, <1>11, <1>12, <1>13, <1>14, <1>15, <1>16, <1>17, <1>18, <1>19, <1>20, <1>21, <1>22, <1>23, <1>24, <1>25, <1>26 DEF Next, Controller, Releasing

(* A step keeps what is on the owner's stack consistent with its phase. *)
LEMMA FrameStep ==
  ASSUME TypeOK, FrameInv, Next
  PROVE  FrameInv'
<1>. USE DEF app, memory, thread, agent, v8
<1>. DEFINE quiet == UNCHANGED <<phase, top, guestCalls, charged, closing, teardownCalls, engine>>
<1>1. CASE TerminateAll \/ TerminateAllLock \/ TerminateAllReturn
  <2>1. quiet
    BY <1>1 DEF TerminateAll, TerminateAllLock, TerminateAllReturn
  <2>. QED
    BY <2>1 DEF FrameInv, FrameOf
<1>2. ASSUME NEW e \in Envs, TerminateAllEnv(e) PROVE FrameInv'
  <2>1. quiet
    BY <1>2 DEF TerminateAllEnv
  <2>. QED
    BY <2>1 DEF FrameInv, FrameOf
<1>3. ASSUME NEW e \in Envs, TerminateAppEnv(e) PROVE FrameInv'
  <2>1. quiet
    BY <1>3 DEF TerminateAppEnv
  <2>. QED
    BY <2>1 DEF FrameInv, FrameOf
<1>4. ASSUME NEW e \in Envs, NearHeapDenied(e) PROVE FrameInv'
  <2>1. quiet
    BY <1>4 DEF NearHeapDenied
  <2>. QED
    BY <2>1 DEF FrameInv, FrameOf
<1>5. ASSUME NEW e \in Envs, CancelTest(e) PROVE FrameInv'
  <2>1. quiet
    BY <1>5 DEF CancelTest
  <2>. QED
    BY <2>1 DEF FrameInv, FrameOf
<1>6. ASSUME NEW e \in Envs, CancelClear(e) PROVE FrameInv'
  <2>1. quiet
    BY <1>6 DEF CancelClear
  <2>. QED
    BY <2>1 DEF FrameInv, FrameOf
<1>7. ASSUME NEW e \in Envs, Create(e) PROVE FrameInv'
  <2>1. FrameOf(e)'
    BY <1>7 DEF Create, Move, FrameInv, FrameOf, TypeOK, Phases, Allocated, Tabled, WithEngine, Released
  <2>2. ASSUME NEW i \in Envs \ {e} PROVE FrameOf(i)'
    BY <1>7 DEF Create, Move, FrameInv, FrameOf, TypeOK
  <2>. QED
    BY <2>1, <2>2 DEF FrameInv
<1>8. ASSUME NEW e \in Envs, Register(e) PROVE FrameInv'
  <2>1. FrameOf(e)'
    BY <1>8 DEF Register, Move, FrameInv, FrameOf, TypeOK, Phases, Allocated, Tabled, WithEngine, Released
  <2>2. ASSUME NEW i \in Envs \ {e} PROVE FrameOf(i)'
    BY <1>8 DEF Register, Move, FrameInv, FrameOf, TypeOK
  <2>. QED
    BY <2>1, <2>2 DEF FrameInv
<1>9. ASSUME NEW e \in Envs, CommitIsolate(e) PROVE FrameInv'
  <2>1. FrameOf(e)'
    BY <1>9 DEF CommitIsolate, Move, FrameInv, FrameOf, TypeOK, Phases, Allocated, Tabled, WithEngine, Released
  <2>2. ASSUME NEW i \in Envs \ {e} PROVE FrameOf(i)'
    BY <1>9 DEF CommitIsolate, Move, FrameInv, FrameOf, TypeOK
  <2>. QED
    BY <2>1, <2>2 DEF FrameInv
<1>10. ASSUME NEW e \in Envs, JsEnter(e) PROVE FrameInv'
  <2>1. FrameOf(e)'
    BY <1>10 DEF JsEnter, Run, InGuest, FrameInv, FrameOf, TypeOK, Phases, Allocated, Tabled, WithEngine, Released
  <2>2. ASSUME NEW i \in Envs \ {e} PROVE FrameOf(i)'
    BY <1>10 DEF JsEnter, Run, InGuest, FrameInv, FrameOf, TypeOK
  <2>. QED
    BY <2>1, <2>2 DEF FrameInv
<1>11. ASSUME NEW e \in Envs, JsReturn(e) PROVE FrameInv'
  <2>1. FrameOf(e)'
    BY <1>11 DEF JsReturn, Run, FrameInv, FrameOf, TypeOK, Phases, Allocated, Tabled, WithEngine, Released
  <2>2. ASSUME NEW i \in Envs \ {e} PROVE FrameOf(i)'
    BY <1>11 DEF JsReturn, Run, FrameInv, FrameOf, TypeOK
  <2>. QED
    BY <2>1, <2>2 DEF FrameInv
<1>12. ASSUME NEW e \in Envs, GuestEnter(e) PROVE FrameInv'
  <2>1. FrameOf(e)'
    BY <1>12 DEF GuestEnter, Run, FrameInv, FrameOf, TypeOK, Phases, Allocated, Tabled, WithEngine, Released
  <2>2. ASSUME NEW i \in Envs \ {e} PROVE FrameOf(i)'
    BY <1>12 DEF GuestEnter, Run, FrameInv, FrameOf, TypeOK
  <2>. QED
    BY <2>1, <2>2 DEF FrameInv
<1>13. ASSUME NEW e \in Envs, GuestLeave(e) PROVE FrameInv'
  <2>1. FrameOf(e)'
    BY <1>13 DEF GuestLeave, Run, InGuest, FrameInv, FrameOf, TypeOK, Phases, Allocated, Tabled, WithEngine, Released
  <2>2. ASSUME NEW i \in Envs \ {e} PROVE FrameOf(i)'
    BY <1>13 DEF GuestLeave, Run, InGuest, FrameInv, FrameOf, TypeOK
  <2>. QED
    BY <2>1, <2>2 DEF FrameInv
<1>14. ASSUME NEW e \in Envs, RequestInterrupt(e) PROVE FrameInv'
  <2>1. quiet
    BY <1>14 DEF RequestInterrupt
  <2>. QED
    BY <2>1 DEF FrameInv, FrameOf
<1>15. ASSUME NEW e \in Envs, InterruptCallback(e) PROVE FrameInv'
  <2>1. FrameOf(e)'
    BY <1>15 DEF InterruptCallback, Run, FrameInv, FrameOf, TypeOK, Phases, Allocated, Tabled, WithEngine, Released
  <2>2. ASSUME NEW i \in Envs \ {e} PROVE FrameOf(i)'
    BY <1>15 DEF InterruptCallback, Run, FrameInv, FrameOf, TypeOK
  <2>. QED
    BY <2>1, <2>2 DEF FrameInv
<1>16. ASSUME NEW e \in Envs, ReleaseImport(e) PROVE FrameInv'
  <2>1. FrameOf(e)'
    BY <1>16 DEF ReleaseImport, BeginRelease, Move, Run, InGuest, FrameInv, FrameOf, TypeOK, Phases, Allocated, Tabled, WithEngine, Released
  <2>2. ASSUME NEW i \in Envs \ {e} PROVE FrameOf(i)'
    BY <1>16 DEF ReleaseImport, BeginRelease, Move, Run, InGuest, FrameInv, FrameOf, TypeOK
  <2>. QED
    BY <2>1, <2>2 DEF FrameInv
<1>17. ASSUME NEW e \in Envs, DropStore(e) PROVE FrameInv'
  <2>1. FrameOf(e)'
    BY <1>17 DEF DropStore, BeginRelease, Move, Run, InGuest, FrameInv, FrameOf, TypeOK, Phases, Allocated, Tabled, WithEngine, Released
  <2>2. ASSUME NEW i \in Envs \ {e} PROVE FrameOf(i)'
    BY <1>17 DEF DropStore, BeginRelease, Move, Run, InGuest, FrameInv, FrameOf, TypeOK
  <2>. QED
    BY <2>1, <2>2 DEF FrameInv
<1>18. ASSUME NEW e \in Envs, DropElsewhere(e) PROVE FrameInv'
  <2>1. FrameOf(e)'
    BY <1>18 DEF DropElsewhere, Move, InGuest, FrameInv, FrameOf, TypeOK, Phases, Allocated, Tabled, WithEngine, Released
  <2>2. ASSUME NEW i \in Envs \ {e} PROVE FrameOf(i)'
    BY <1>18 DEF DropElsewhere, Move, InGuest, FrameInv, FrameOf, TypeOK
  <2>. QED
    BY <2>1, <2>2 DEF FrameInv
<1>19. ASSUME NEW e \in Envs, Shutdown(e) PROVE FrameInv'
  <2>1. FrameOf(e)'
    BY <1>19 DEF Shutdown, Move, FrameInv, FrameOf, TypeOK, Phases, Allocated, Tabled, WithEngine, Released
  <2>2. ASSUME NEW i \in Envs \ {e} PROVE FrameOf(i)'
    BY <1>19 DEF Shutdown, Move, FrameInv, FrameOf, TypeOK
  <2>. QED
    BY <2>1, <2>2 DEF FrameInv
<1>20. ASSUME NEW e \in Envs, RunFinalizer(e) PROVE FrameInv'
  <2>1. FrameOf(e)'
    BY <1>20 DEF RunFinalizer, Run, FrameInv, FrameOf, TypeOK, Phases, Allocated, Tabled, WithEngine, Released
  <2>2. ASSUME NEW i \in Envs \ {e} PROVE FrameOf(i)'
    BY <1>20 DEF RunFinalizer, Run, FrameInv, FrameOf, TypeOK
  <2>. QED
    BY <2>1, <2>2 DEF FrameInv
<1>21. ASSUME NEW e \in Envs, DisposeEngine(e) PROVE FrameInv'
  <2>1. FrameOf(e)'
    BY <1>21 DEF DisposeEngine, Move, FrameInv, FrameOf, TypeOK, Phases, Allocated, Tabled, WithEngine, Released
  <2>2. ASSUME NEW i \in Envs \ {e} PROVE FrameOf(i)'
    BY <1>21 DEF DisposeEngine, Move, FrameInv, FrameOf, TypeOK
  <2>. QED
    BY <2>1, <2>2 DEF FrameInv
<1>22. ASSUME NEW e \in Envs, DisposeErase(e) PROVE FrameInv'
  <2>1. FrameOf(e)'
    BY <1>22 DEF DisposeErase, Move, FrameInv, FrameOf, TypeOK, Phases, Allocated, Tabled, WithEngine, Released
  <2>2. ASSUME NEW i \in Envs \ {e} PROVE FrameOf(i)'
    BY <1>22 DEF DisposeErase, Move, FrameInv, FrameOf, TypeOK
  <2>. QED
    BY <2>1, <2>2 DEF FrameInv
<1>23. ASSUME NEW e \in Envs, DisposeAgent(e) PROVE FrameInv'
  <2>1. FrameOf(e)'
    BY <1>23 DEF DisposeAgent, Move, FrameInv, FrameOf, TypeOK, Phases, Allocated, Tabled, WithEngine, Released
  <2>2. ASSUME NEW i \in Envs \ {e} PROVE FrameOf(i)'
    BY <1>23 DEF DisposeAgent, Move, FrameInv, FrameOf, TypeOK
  <2>. QED
    BY <2>1, <2>2 DEF FrameInv
<1>24. ASSUME NEW e \in Envs, FinishRemove(e) PROVE FrameInv'
  <2>1. FrameOf(e)'
    BY <1>24 DEF FinishRemove, Move, FrameInv, FrameOf, TypeOK, Phases, Allocated, Tabled, WithEngine, Released
  <2>2. ASSUME NEW i \in Envs \ {e} PROVE FrameOf(i)'
    BY <1>24 DEF FinishRemove, Move, FrameInv, FrameOf, TypeOK
  <2>. QED
    BY <2>1, <2>2 DEF FrameInv
<1>25. ASSUME NEW e \in Envs, FinishUnretain(e) PROVE FrameInv'
  <2>1. FrameOf(e)'
    BY <1>25 DEF FinishUnretain, Move, FrameInv, FrameOf, TypeOK, Phases, Allocated, Tabled, WithEngine, Released
  <2>2. ASSUME NEW i \in Envs \ {e} PROVE FrameOf(i)'
    BY <1>25 DEF FinishUnretain, Move, FrameInv, FrameOf, TypeOK
  <2>. QED
    BY <2>1, <2>2 DEF FrameInv
<1>26. ASSUME NEW e \in Envs, FinishCharge(e) PROVE FrameInv'
  <2>1. FrameOf(e)'
    BY <1>26 DEF FinishCharge, Move, FrameInv, FrameOf, TypeOK, Phases, Allocated, Tabled, WithEngine, Released
  <2>2. ASSUME NEW i \in Envs \ {e} PROVE FrameOf(i)'
    BY <1>26 DEF FinishCharge, Move, FrameInv, FrameOf, TypeOK
  <2>. QED
    BY <2>1, <2>2 DEF FrameInv
<1>. QED
  BY <1>1, <1>2, <1>3, <1>4, <1>5, <1>6, <1>7, <1>8, <1>9, <1>10, <1>11, <1>12, <1>13, <1>14, <1>15, <1>16, <1>17, <1>18, <1>19, <1>20, <1>21, <1>22, <1>23, <1>24, <1>25, <1>26 DEF Next, Controller, Releasing

(* A step keeps the engine's queue, the agent's list and what is allocated *)
(* in agreement.                                                           *)
LEMMA RequestsStep ==
  ASSUME TypeOK, AddressInv, FrameInv, RequestsInv, Next
  PROVE  RequestsInv'
<1>. USE DEF app, memory, thread, agent, v8, intr
<1>1. CASE TerminateAll \/ TerminateAllLock \/ TerminateAllReturn
  <2>1. UNCHANGED <<phase, intr>>
    BY <1>1 DEF TerminateAll, TerminateAllLock, TerminateAllReturn
  <2>. QED
    BY <2>1 DEF RequestsInv, RequestsOf
<1>2. ASSUME NEW e \in Envs, TerminateAllEnv(e) PROVE RequestsInv'
  <2>1. UNCHANGED <<phase, intr>>
    BY <1>2 DEF TerminateAllEnv
  <2>. QED
    BY <2>1 DEF RequestsInv, RequestsOf
<1>3. ASSUME NEW e \in Envs, TerminateAppEnv(e) PROVE RequestsInv'
  <2>1. UNCHANGED <<phase, intr>>
    BY <1>3 DEF TerminateAppEnv
  <2>. QED
    BY <2>1 DEF RequestsInv, RequestsOf
<1>4. ASSUME NEW e \in Envs, NearHeapDenied(e) PROVE RequestsInv'
  <2>1. UNCHANGED <<phase, intr>>
    BY <1>4 DEF NearHeapDenied
  <2>. QED
    BY <2>1 DEF RequestsInv, RequestsOf
<1>5. ASSUME NEW e \in Envs, CancelTest(e) PROVE RequestsInv'
  <2>1. UNCHANGED <<phase, intr>>
    BY <1>5 DEF CancelTest
  <2>. QED
    BY <2>1 DEF RequestsInv, RequestsOf
<1>6. ASSUME NEW e \in Envs, CancelClear(e) PROVE RequestsInv'
  <2>1. UNCHANGED <<phase, intr>>
    BY <1>6 DEF CancelClear
  <2>. QED
    BY <2>1 DEF RequestsInv, RequestsOf
<1>7. ASSUME NEW e \in Envs, Create(e) PROVE RequestsInv'
  <2>1. UNCHANGED intr
    BY <1>7 DEF Create
  <2>2. RequestsOf(e)'
    BY <1>7, <2>1 DEF Create, Move, RequestsInv, RequestsOf, TypeOK, Released
  <2>3. ASSUME NEW i \in Envs \ {e} PROVE RequestsOf(i)'
    BY <1>7, <2>1 DEF Create, Move, RequestsInv, RequestsOf, TypeOK
  <2>. QED
    BY <2>2, <2>3 DEF RequestsInv
<1>8. ASSUME NEW e \in Envs, Register(e) PROVE RequestsInv'
  <2>1. UNCHANGED intr
    BY <1>8 DEF Register
  <2>2. RequestsOf(e)'
    BY <1>8, <2>1 DEF Register, Move, RequestsInv, RequestsOf, TypeOK, Released
  <2>3. ASSUME NEW i \in Envs \ {e} PROVE RequestsOf(i)'
    BY <1>8, <2>1 DEF Register, Move, RequestsInv, RequestsOf, TypeOK
  <2>. QED
    BY <2>2, <2>3 DEF RequestsInv
<1>9. ASSUME NEW e \in Envs, CommitIsolate(e) PROVE RequestsInv'
  <2>1. UNCHANGED intr
    BY <1>9 DEF CommitIsolate
  <2>2. RequestsOf(e)'
    BY <1>9, <2>1 DEF CommitIsolate, Move, RequestsInv, RequestsOf, TypeOK, Released
  <2>3. ASSUME NEW i \in Envs \ {e} PROVE RequestsOf(i)'
    BY <1>9, <2>1 DEF CommitIsolate, Move, RequestsInv, RequestsOf, TypeOK
  <2>. QED
    BY <2>2, <2>3 DEF RequestsInv
<1>10. ASSUME NEW e \in Envs, JsEnter(e) PROVE RequestsInv'
  <2>1. UNCHANGED <<phase, intr>>
    BY <1>10 DEF JsEnter
  <2>. QED
    BY <2>1 DEF RequestsInv, RequestsOf
<1>11. ASSUME NEW e \in Envs, JsReturn(e) PROVE RequestsInv'
  <2>1. UNCHANGED <<phase, intr>>
    BY <1>11 DEF JsReturn
  <2>. QED
    BY <2>1 DEF RequestsInv, RequestsOf
<1>12. ASSUME NEW e \in Envs, GuestEnter(e) PROVE RequestsInv'
  <2>1. UNCHANGED <<phase, intr>>
    BY <1>12 DEF GuestEnter
  <2>. QED
    BY <2>1 DEF RequestsInv, RequestsOf
<1>13. ASSUME NEW e \in Envs, GuestLeave(e) PROVE RequestsInv'
  <2>1. UNCHANGED <<phase, intr>>
    BY <1>13 DEF GuestLeave
  <2>. QED
    BY <2>1 DEF RequestsInv, RequestsOf
<1>14. ASSUME NEW e \in Envs, RequestInterrupt(e) PROVE RequestsInv'
  <2>0. phase[e] \notin Released
    BY <1>14 DEF RequestInterrupt, AddressInv, AddressOf, FrameInv, FrameOf, Allocated, Tabled, Phases, Released
  <2>1. RequestsOf(e)'
    BY <1>14, <2>0 DEF RequestInterrupt, Move, RequestsInv, RequestsOf, TypeOK, Released
  <2>2. ASSUME NEW i \in Envs \ {e} PROVE RequestsOf(i)'
    BY <1>14 DEF RequestInterrupt, Move, RequestsInv, RequestsOf, TypeOK
  <2>. QED
    BY <2>1, <2>2 DEF RequestsInv
<1>15. ASSUME NEW e \in Envs, InterruptCallback(e) PROVE RequestsInv'
  <2>0. phase[e] \in {"running", "finalizing"}
    BY <1>15 DEF InterruptCallback, FrameInv, FrameOf
  <2>1. RequestsOf(e)'
    BY <1>15, <2>0 DEF InterruptCallback, Move, RequestsInv, RequestsOf, TypeOK, Released
  <2>2. ASSUME NEW i \in Envs \ {e} PROVE RequestsOf(i)'
    BY <1>15 DEF InterruptCallback, Move, RequestsInv, RequestsOf, TypeOK
  <2>. QED
    BY <2>1, <2>2 DEF RequestsInv
<1>16. ASSUME NEW e \in Envs, ReleaseImport(e) PROVE RequestsInv'
  <2>1. UNCHANGED intr
    BY <1>16 DEF ReleaseImport, BeginRelease
  <2>2. RequestsOf(e)'
    BY <1>16, <2>1 DEF ReleaseImport, Move, BeginRelease, RequestsInv, RequestsOf, TypeOK, Released
  <2>3. ASSUME NEW i \in Envs \ {e} PROVE RequestsOf(i)'
    BY <1>16, <2>1 DEF ReleaseImport, Move, BeginRelease, RequestsInv, RequestsOf, TypeOK
  <2>. QED
    BY <2>2, <2>3 DEF RequestsInv
<1>17. ASSUME NEW e \in Envs, DropStore(e) PROVE RequestsInv'
  <2>1. UNCHANGED intr
    BY <1>17 DEF DropStore, BeginRelease
  <2>2. RequestsOf(e)'
    BY <1>17, <2>1 DEF DropStore, Move, BeginRelease, RequestsInv, RequestsOf, TypeOK, Released
  <2>3. ASSUME NEW i \in Envs \ {e} PROVE RequestsOf(i)'
    BY <1>17, <2>1 DEF DropStore, Move, BeginRelease, RequestsInv, RequestsOf, TypeOK
  <2>. QED
    BY <2>2, <2>3 DEF RequestsInv
<1>18. ASSUME NEW e \in Envs, DropElsewhere(e) PROVE RequestsInv'
  <2>1. UNCHANGED intr
    BY <1>18 DEF DropElsewhere
  <2>2. RequestsOf(e)'
    BY <1>18, <2>1 DEF DropElsewhere, Move, RequestsInv, RequestsOf, TypeOK, Released
  <2>3. ASSUME NEW i \in Envs \ {e} PROVE RequestsOf(i)'
    BY <1>18, <2>1 DEF DropElsewhere, Move, RequestsInv, RequestsOf, TypeOK
  <2>. QED
    BY <2>2, <2>3 DEF RequestsInv
<1>19. ASSUME NEW e \in Envs, Shutdown(e) PROVE RequestsInv'
  <2>1. UNCHANGED intr
    BY <1>19 DEF Shutdown
  <2>2. RequestsOf(e)'
    BY <1>19, <2>1 DEF Shutdown, Move, RequestsInv, RequestsOf, TypeOK, Released
  <2>3. ASSUME NEW i \in Envs \ {e} PROVE RequestsOf(i)'
    BY <1>19, <2>1 DEF Shutdown, Move, RequestsInv, RequestsOf, TypeOK
  <2>. QED
    BY <2>2, <2>3 DEF RequestsInv
<1>20. ASSUME NEW e \in Envs, RunFinalizer(e) PROVE RequestsInv'
  <2>1. UNCHANGED <<phase, intr>>
    BY <1>20 DEF RunFinalizer
  <2>. QED
    BY <2>1 DEF RequestsInv, RequestsOf
<1>21. ASSUME NEW e \in Envs, DisposeEngine(e) PROVE RequestsInv'
  <2>1. RequestsOf(e)'
    BY <1>21 DEF DisposeEngine, Move, RequestsInv, RequestsOf, TypeOK, Released
  <2>2. ASSUME NEW i \in Envs \ {e} PROVE RequestsOf(i)'
    BY <1>21 DEF DisposeEngine, Move, RequestsInv, RequestsOf, TypeOK
  <2>. QED
    BY <2>1, <2>2 DEF RequestsInv
<1>22. ASSUME NEW e \in Envs, DisposeErase(e) PROVE RequestsInv'
  <2>1. RequestsOf(e)'
    BY <1>22 DEF DisposeErase, Move, RequestsInv, RequestsOf, TypeOK, Released
  <2>2. ASSUME NEW i \in Envs \ {e} PROVE RequestsOf(i)'
    BY <1>22 DEF DisposeErase, Move, RequestsInv, RequestsOf, TypeOK
  <2>. QED
    BY <2>1, <2>2 DEF RequestsInv
<1>23. ASSUME NEW e \in Envs, DisposeAgent(e) PROVE RequestsInv'
  <2>1. UNCHANGED intr
    BY <1>23 DEF DisposeAgent
  <2>2. RequestsOf(e)'
    BY <1>23, <2>1 DEF DisposeAgent, Move, RequestsInv, RequestsOf, TypeOK, Released
  <2>3. ASSUME NEW i \in Envs \ {e} PROVE RequestsOf(i)'
    BY <1>23, <2>1 DEF DisposeAgent, Move, RequestsInv, RequestsOf, TypeOK
  <2>. QED
    BY <2>2, <2>3 DEF RequestsInv
<1>24. ASSUME NEW e \in Envs, FinishRemove(e) PROVE RequestsInv'
  <2>1. UNCHANGED intr
    BY <1>24 DEF FinishRemove
  <2>2. RequestsOf(e)'
    BY <1>24, <2>1 DEF FinishRemove, Move, RequestsInv, RequestsOf, TypeOK, Released
  <2>3. ASSUME NEW i \in Envs \ {e} PROVE RequestsOf(i)'
    BY <1>24, <2>1 DEF FinishRemove, Move, RequestsInv, RequestsOf, TypeOK
  <2>. QED
    BY <2>2, <2>3 DEF RequestsInv
<1>25. ASSUME NEW e \in Envs, FinishUnretain(e) PROVE RequestsInv'
  <2>1. UNCHANGED intr
    BY <1>25 DEF FinishUnretain
  <2>2. RequestsOf(e)'
    BY <1>25, <2>1 DEF FinishUnretain, Move, RequestsInv, RequestsOf, TypeOK, Released
  <2>3. ASSUME NEW i \in Envs \ {e} PROVE RequestsOf(i)'
    BY <1>25, <2>1 DEF FinishUnretain, Move, RequestsInv, RequestsOf, TypeOK
  <2>. QED
    BY <2>2, <2>3 DEF RequestsInv
<1>26. ASSUME NEW e \in Envs, FinishCharge(e) PROVE RequestsInv'
  <2>1. UNCHANGED intr
    BY <1>26 DEF FinishCharge
  <2>2. RequestsOf(e)'
    BY <1>26, <2>1 DEF FinishCharge, Move, RequestsInv, RequestsOf, TypeOK, Released
  <2>3. ASSUME NEW i \in Envs \ {e} PROVE RequestsOf(i)'
    BY <1>26, <2>1 DEF FinishCharge, Move, RequestsInv, RequestsOf, TypeOK
  <2>. QED
    BY <2>2, <2>3 DEF RequestsInv
<1>. QED
  BY <1>1, <1>2, <1>3, <1>4, <1>5, <1>6, <1>7, <1>8, <1>9, <1>10, <1>11, <1>12, <1>13, <1>14, <1>15, <1>16, <1>17, <1>18, <1>19, <1>20, <1>21, <1>22, <1>23, <1>24, <1>25, <1>26 DEF Next, Controller, Releasing

(* A step keeps what a stop has left for each env to do. *)
LEMMA StopStep ==
  ASSUME TypeOK, AddressInv, FrameInv, StopInv, Next
  PROVE  StopInv'
<1>. USE DEF app, memory, thread, agent, v8, intr
<1>. DEFINE Due(i)   == stopDone \/ (control = "locked" /\ i \notin todo)
            Going(i) == phase[i] \in {"running", "closing", "finalizing"}
            flags == UNCHANGED <<hostStopped, control, todo, stopDone>>
            quiet == UNCHANGED <<phase, undone, terminated, closing, stopRequested, teardownCalls>>
<1>0. \A i \in Envs : Due(i) => hostStopped
  BY DEF StopInv
<1>1. CASE TerminateAll \/ TerminateAllReturn
  <2>1. quiet /\ UNCHANGED todo
    BY <1>1 DEF TerminateAll, TerminateAllReturn
  <2>. QED
    BY <1>1, <2>1 DEF TerminateAll, TerminateAllReturn, StopInv, StoppedEnv
<1>2. CASE TerminateAllLock
  <2>1. quiet
    BY <1>2 DEF TerminateAllLock
  <2>2. \A i \in Envs : Going(i) => i \in todo'
    BY <1>2 DEF TerminateAllLock, AddressInv, AddressOf, Listed, Allocated, Phases
  <2>. QED
    BY <1>2, <2>1, <2>2 DEF TerminateAllLock, StopInv, StoppedEnv
<1>3. ASSUME NEW e \in Envs, TerminateAllEnv(e) PROVE StopInv'
  <2>1. /\ UNCHANGED <<phase, undone, closing, teardownCalls, control, stopDone>>
        /\ hostStopped => hostStopped'
    BY <1>3 DEF TerminateAllEnv
  <2>2. \A i \in Envs : /\ stopRequested[i] => stopRequested'[i]
                        /\ terminated[i] => terminated'[i]
    BY <1>3, BridgeEffect DEF TerminateAllEnv
  <2>3. ASSUME Going(e) PROVE StoppedEnv(e)'
    <3>1. addr[e] \in genvs /\ heap[addr[e]] = e
      BY <2>3 DEF AddressInv, AddressOf, Tabled, Allocated, Phases
    <3>2. /\ closing[e] => stopRequested'[e]
          /\ (closing[e] /\ teardownCalls[e] = 0) \/ terminated'[e]
      BY <1>3, <3>1, BridgeEffect DEF TerminateAllEnv
    <3>3. closing[e] <=> phase[e] # "running"
      BY <2>3 DEF FrameInv, FrameOf, Released
    <3>. QED
      BY <2>1, <2>3, <3>2, <3>3 DEF StoppedEnv
  <2>. QED
    BY <1>3, <2>1, <2>2, <2>3 DEF TerminateAllEnv, StopInv, StoppedEnv
<1>4. ASSUME NEW e \in Envs, TerminateAppEnv(e) PROVE StopInv'
  <2>1. /\ UNCHANGED <<phase, undone, closing, teardownCalls, control, stopDone>>
        /\ hostStopped => hostStopped'
    BY <1>4 DEF TerminateAppEnv
  <2>2. \A i \in Envs : /\ stopRequested[i] => stopRequested'[i]
                        /\ terminated[i] => terminated'[i]
    BY <1>4, BridgeEffect DEF TerminateAppEnv
  <2>3. UNCHANGED todo
    BY <1>4 DEF TerminateAppEnv
  <2>. QED
    BY <2>1, <2>2, <2>3 DEF StopInv, StoppedEnv
<1>5. ASSUME NEW e \in Envs, NearHeapDenied(e) PROVE StopInv'
  <2>1. /\ UNCHANGED <<phase, undone, closing, teardownCalls, control, stopDone>>
        /\ hostStopped => hostStopped'
    BY <1>5 DEF NearHeapDenied
  <2>2. \A i \in Envs : /\ stopRequested[i] => stopRequested'[i]
                        /\ terminated[i] => terminated'[i]
    BY <1>5, BridgeEffect DEF NearHeapDenied
  <2>3. UNCHANGED todo
    BY <1>5 DEF NearHeapDenied
  <2>. QED
    BY <2>1, <2>2, <2>3 DEF StopInv, StoppedEnv
<1>6. ASSUME NEW e \in Envs, CancelTest(e) PROVE StopInv'
  <2>1. /\ UNCHANGED <<phase, undone, closing, teardownCalls, control, stopDone>>
        /\ hostStopped => hostStopped'
    BY <1>6 DEF CancelTest
  <2>2. \A i \in Envs : /\ stopRequested[i] => stopRequested'[i]
                        /\ terminated[i] => terminated'[i]
    BY <1>6, BridgeEffect DEF CancelTest
  <2>3. UNCHANGED todo
    BY <1>6 DEF CancelTest
  <2>. QED
    BY <2>1, <2>2, <2>3 DEF StopInv, StoppedEnv
<1>7. ASSUME NEW e \in Envs, CancelClear(e) PROVE StopInv'
  <2>1. Due(e) => StoppedEnv(e)'
    BY <1>7, <1>0 DEF CancelClear, StoppedEnv, TypeOK
  <2>2. ASSUME NEW i \in Envs \ {e} PROVE StoppedEnv(i)' <=> StoppedEnv(i)
    BY <1>7 DEF CancelClear, StoppedEnv, TypeOK
  <2>3. flags /\ UNCHANGED phase
    BY <1>7 DEF CancelClear
  <2>. QED
    BY <2>1, <2>2, <2>3 DEF StopInv
<1>8. ASSUME NEW e \in Envs, Create(e) PROVE StopInv'
  <2>1. flags
    BY <1>8 DEF Create
  <2>2. Due(e) /\ Going(e)' => StoppedEnv(e)'
    BY <1>8, <1>0 DEF Create, Move, StopInv, StoppedEnv, FrameInv, FrameOf, TypeOK, Released
  <2>3. ASSUME NEW i \in Envs \ {e} PROVE phase'[i] = phase[i] /\ (StoppedEnv(i)' <=> StoppedEnv(i))
    BY <1>8 DEF Create, Move, StoppedEnv, TypeOK
  <2>. QED
    BY <2>1, <2>2, <2>3 DEF StopInv
<1>9. ASSUME NEW e \in Envs, Register(e) PROVE StopInv'
  <2>1. flags
    BY <1>9 DEF Register
  <2>2. Due(e) /\ Going(e)' => StoppedEnv(e)'
    BY <1>9, <1>0 DEF Register, Move, StopInv, StoppedEnv, FrameInv, FrameOf, TypeOK, Released
  <2>3. ASSUME NEW i \in Envs \ {e} PROVE phase'[i] = phase[i] /\ (StoppedEnv(i)' <=> StoppedEnv(i))
    BY <1>9 DEF Register, Move, StoppedEnv, TypeOK
  <2>. QED
    BY <2>1, <2>2, <2>3 DEF StopInv
<1>10. ASSUME NEW e \in Envs, CommitIsolate(e) PROVE StopInv'
  <2>1. flags /\ UNCHANGED <<undone, closing, teardownCalls>> /\ phase[e] = "registered"
    BY <1>10 DEF CommitIsolate, Move
  <2>2. addr[e] \in genvs /\ heap[addr[e]] = e /\ ~closing[e]
    BY <2>1 DEF AddressInv, AddressOf, FrameInv, FrameOf, Tabled, Allocated, Phases, Released
  <2>3. Due(e) => terminated'[e] /\ phase'[e] = "running"
    BY <1>10, <1>0, <2>2, BridgeEffect DEF CommitIsolate, Move, TypeOK
  <2>4. ASSUME NEW i \in Envs \ {e}
        PROVE  /\ phase'[i] = phase[i] /\ (terminated[i] => terminated'[i])
               /\ stopRequested[i] => stopRequested'[i]
    BY <1>10, BridgeEffect DEF CommitIsolate, Move, TypeOK
  <2>. QED
    BY <2>1, <2>3, <2>4 DEF StopInv, StoppedEnv
<1>11. ASSUME NEW e \in Envs, JsEnter(e) PROVE StopInv'
  <2>1. flags /\ quiet
    BY <1>11 DEF JsEnter
  <2>. QED
    BY <2>1 DEF StopInv, StoppedEnv
<1>12. ASSUME NEW e \in Envs, JsReturn(e) PROVE StopInv'
  <2>1. flags /\ quiet
    BY <1>12 DEF JsReturn
  <2>. QED
    BY <2>1 DEF StopInv, StoppedEnv
<1>13. ASSUME NEW e \in Envs, GuestEnter(e) PROVE StopInv'
  <2>1. flags /\ quiet
    BY <1>13 DEF GuestEnter
  <2>. QED
    BY <2>1 DEF StopInv, StoppedEnv
<1>14. ASSUME NEW e \in Envs, GuestLeave(e) PROVE StopInv'
  <2>1. flags
    BY <1>14 DEF GuestLeave
  <2>2. Due(e) /\ Going(e)' => StoppedEnv(e)'
    BY <1>14, <1>0 DEF GuestLeave, Run, InGuest, StopInv, StoppedEnv, FrameInv, FrameOf, TypeOK, Released
  <2>3. ASSUME NEW i \in Envs \ {e} PROVE phase'[i] = phase[i] /\ (StoppedEnv(i)' <=> StoppedEnv(i))
    BY <1>14 DEF GuestLeave, Run, InGuest, StoppedEnv, TypeOK
  <2>. QED
    BY <2>1, <2>2, <2>3 DEF StopInv
<1>15. ASSUME NEW e \in Envs, RequestInterrupt(e) PROVE StopInv'
  <2>1. flags /\ quiet
    BY <1>15 DEF RequestInterrupt
  <2>. QED
    BY <2>1 DEF StopInv, StoppedEnv
<1>16. ASSUME NEW e \in Envs, InterruptCallback(e) PROVE StopInv'
  <2>1. flags /\ quiet
    BY <1>16 DEF InterruptCallback
  <2>. QED
    BY <2>1 DEF StopInv, StoppedEnv
<1>17. ASSUME NEW e \in Envs, ReleaseImport(e) PROVE StopInv'
  <2>1. flags
    BY <1>17 DEF ReleaseImport, BeginRelease
  <2>2. Due(e) /\ Going(e)' => StoppedEnv(e)'
    BY <1>17, <1>0 DEF ReleaseImport, BeginRelease, Move, Run, InGuest, StopInv, StoppedEnv, FrameInv, FrameOf, TypeOK, Released
  <2>3. ASSUME NEW i \in Envs \ {e} PROVE phase'[i] = phase[i] /\ (StoppedEnv(i)' <=> StoppedEnv(i))
    BY <1>17 DEF ReleaseImport, BeginRelease, Move, Run, InGuest, StoppedEnv, TypeOK
  <2>. QED
    BY <2>1, <2>2, <2>3 DEF StopInv
<1>18. ASSUME NEW e \in Envs, DropStore(e) PROVE StopInv'
  <2>1. flags
    BY <1>18 DEF DropStore, BeginRelease
  <2>2. Due(e) /\ Going(e)' => StoppedEnv(e)'
    BY <1>18, <1>0 DEF DropStore, BeginRelease, Move, Run, InGuest, StopInv, StoppedEnv, FrameInv, FrameOf, TypeOK, Released
  <2>3. ASSUME NEW i \in Envs \ {e} PROVE phase'[i] = phase[i] /\ (StoppedEnv(i)' <=> StoppedEnv(i))
    BY <1>18 DEF DropStore, BeginRelease, Move, Run, InGuest, StoppedEnv, TypeOK
  <2>. QED
    BY <2>1, <2>2, <2>3 DEF StopInv
<1>19. ASSUME NEW e \in Envs, DropElsewhere(e) PROVE StopInv'
  <2>1. flags
    BY <1>19 DEF DropElsewhere
  <2>2. Due(e) /\ Going(e)' => StoppedEnv(e)'
    BY <1>19, <1>0 DEF DropElsewhere, Move, InGuest, StopInv, StoppedEnv, FrameInv, FrameOf, TypeOK, Released
  <2>3. ASSUME NEW i \in Envs \ {e} PROVE phase'[i] = phase[i] /\ (StoppedEnv(i)' <=> StoppedEnv(i))
    BY <1>19 DEF DropElsewhere, Move, InGuest, StoppedEnv, TypeOK
  <2>. QED
    BY <2>1, <2>2, <2>3 DEF StopInv
<1>20. ASSUME NEW e \in Envs, Shutdown(e) PROVE StopInv'
  <2>1. flags
    BY <1>20 DEF Shutdown
  <2>2. Due(e) /\ Going(e)' => StoppedEnv(e)'
    <3>1. /\ phase[e] = "closing" /\ closing[e] /\ teardownCalls[e] = 0
          /\ UNCHANGED <<closing, stopRequested, teardownCalls>>
          /\ undone[e] # {} => undone'[e] # {}
          /\ hostStopped /\ terminated[e] => undone'[e] # {}
      BY <1>20 DEF Shutdown, Move, FrameInv, FrameOf, TypeOK, Released
    <3>2. Due(e) => hostStopped /\ StoppedEnv(e)
      BY <3>1, <1>0 DEF StopInv
    <3>. QED
      BY <3>1, <3>2 DEF StoppedEnv
  <2>3. ASSUME NEW i \in Envs \ {e} PROVE phase'[i] = phase[i] /\ (StoppedEnv(i)' <=> StoppedEnv(i))
    BY <1>20 DEF Shutdown, Move, StoppedEnv, TypeOK
  <2>. QED
    BY <2>1, <2>2, <2>3 DEF StopInv
<1>21. ASSUME NEW e \in Envs, RunFinalizer(e) PROVE StopInv'
  <2>1. flags
    BY <1>21 DEF RunFinalizer
  <2>2. Due(e) /\ Going(e)' => StoppedEnv(e)'
    BY <1>21, <1>0 DEF RunFinalizer, Run, StopInv, StoppedEnv, FrameInv, FrameOf, TypeOK, Released
  <2>3. ASSUME NEW i \in Envs \ {e} PROVE phase'[i] = phase[i] /\ (StoppedEnv(i)' <=> StoppedEnv(i))
    BY <1>21 DEF RunFinalizer, Run, StoppedEnv, TypeOK
  <2>. QED
    BY <2>1, <2>2, <2>3 DEF StopInv
<1>22. ASSUME NEW e \in Envs, DisposeEngine(e) PROVE StopInv'
  <2>1. flags
    BY <1>22 DEF DisposeEngine
  <2>2. Due(e) /\ Going(e)' => StoppedEnv(e)'
    BY <1>22, <1>0 DEF DisposeEngine, Move, StopInv, StoppedEnv, FrameInv, FrameOf, TypeOK, Released
  <2>3. ASSUME NEW i \in Envs \ {e} PROVE phase'[i] = phase[i] /\ (StoppedEnv(i)' <=> StoppedEnv(i))
    BY <1>22 DEF DisposeEngine, Move, StoppedEnv, TypeOK
  <2>. QED
    BY <2>1, <2>2, <2>3 DEF StopInv
<1>23. ASSUME NEW e \in Envs, DisposeErase(e) PROVE StopInv'
  <2>1. flags
    BY <1>23 DEF DisposeErase
  <2>2. Due(e) /\ Going(e)' => StoppedEnv(e)'
    BY <1>23, <1>0 DEF DisposeErase, Move, StopInv, StoppedEnv, FrameInv, FrameOf, TypeOK, Released
  <2>3. ASSUME NEW i \in Envs \ {e} PROVE phase'[i] = phase[i] /\ (StoppedEnv(i)' <=> StoppedEnv(i))
    BY <1>23 DEF DisposeErase, Move, StoppedEnv, TypeOK
  <2>. QED
    BY <2>1, <2>2, <2>3 DEF StopInv
<1>24. ASSUME NEW e \in Envs, DisposeAgent(e) PROVE StopInv'
  <2>1. flags
    BY <1>24 DEF DisposeAgent
  <2>2. Due(e) /\ Going(e)' => StoppedEnv(e)'
    BY <1>24, <1>0 DEF DisposeAgent, Move, StopInv, StoppedEnv, FrameInv, FrameOf, TypeOK, Released
  <2>3. ASSUME NEW i \in Envs \ {e} PROVE phase'[i] = phase[i] /\ (StoppedEnv(i)' <=> StoppedEnv(i))
    BY <1>24 DEF DisposeAgent, Move, StoppedEnv, TypeOK
  <2>. QED
    BY <2>1, <2>2, <2>3 DEF StopInv
<1>25. ASSUME NEW e \in Envs, FinishRemove(e) PROVE StopInv'
  <2>1. flags
    BY <1>25 DEF FinishRemove
  <2>2. Due(e) /\ Going(e)' => StoppedEnv(e)'
    BY <1>25, <1>0 DEF FinishRemove, Move, StopInv, StoppedEnv, FrameInv, FrameOf, TypeOK, Released
  <2>3. ASSUME NEW i \in Envs \ {e} PROVE phase'[i] = phase[i] /\ (StoppedEnv(i)' <=> StoppedEnv(i))
    BY <1>25 DEF FinishRemove, Move, StoppedEnv, TypeOK
  <2>. QED
    BY <2>1, <2>2, <2>3 DEF StopInv
<1>26. ASSUME NEW e \in Envs, FinishUnretain(e) PROVE StopInv'
  <2>1. flags
    BY <1>26 DEF FinishUnretain
  <2>2. Due(e) /\ Going(e)' => StoppedEnv(e)'
    BY <1>26, <1>0 DEF FinishUnretain, Move, StopInv, StoppedEnv, FrameInv, FrameOf, TypeOK, Released
  <2>3. ASSUME NEW i \in Envs \ {e} PROVE phase'[i] = phase[i] /\ (StoppedEnv(i)' <=> StoppedEnv(i))
    BY <1>26 DEF FinishUnretain, Move, StoppedEnv, TypeOK
  <2>. QED
    BY <2>1, <2>2, <2>3 DEF StopInv
<1>27. ASSUME NEW e \in Envs, FinishCharge(e) PROVE StopInv'
  <2>1. flags
    BY <1>27 DEF FinishCharge
  <2>2. Due(e) /\ Going(e)' => StoppedEnv(e)'
    BY <1>27, <1>0 DEF FinishCharge, Move, StopInv, StoppedEnv, FrameInv, FrameOf, TypeOK, Released
  <2>3. ASSUME NEW i \in Envs \ {e} PROVE phase'[i] = phase[i] /\ (StoppedEnv(i)' <=> StoppedEnv(i))
    BY <1>27 DEF FinishCharge, Move, StoppedEnv, TypeOK
  <2>. QED
    BY <2>1, <2>2, <2>3 DEF StopInv
<1>. QED
  BY <1>1, <1>2, <1>3, <1>4, <1>5, <1>6, <1>7, <1>8, <1>9, <1>10, <1>11, <1>12, <1>13, <1>14, <1>15, <1>16, <1>17, <1>18, <1>19, <1>20, <1>21, <1>22, <1>23, <1>24, <1>25, <1>26, <1>27 DEF Next, Controller, Releasing

-----------------------------------------------------------------------------
(* Every behaviour of the environments keeps the invariant, whatever the   *)
(* owners, terminate_all and the guests do and in whatever order.          *)
THEOREM Invariance == Spec => []Inv
<1>1. Init => Inv
  <2>. SUFFICES ASSUME Init PROVE Inv
    OBVIOUS
  <2>1. TypeOK
    BY ConstantsAssumption DEF Init, TypeOK, Phases
  <2>2. AddressInv
    BY DEF Init, AddressInv, AddressOf, Listed, Allocated
  <2>3. FrameInv /\ RequestsInv
    BY DEF Init, FrameInv, FrameOf, RequestsInv, RequestsOf, WithEngine, Tabled, Allocated, Released
  <2>4. StopInv
    BY DEF Init, StopInv
  <2>. QED
    BY <2>1, <2>2, <2>3, <2>4 DEF Inv
<1>2. Inv /\ [Next]_vars => Inv'
  <2>. SUFFICES ASSUME Inv, [Next]_vars PROVE Inv'
    OBVIOUS
  <2>1. CASE Next
    BY <2>1, TypeStep, AddressStep, FrameStep, RequestsStep, StopStep DEF Inv
  <2>2. CASE UNCHANGED vars
    <3>. USE <2>2 DEF vars, app, memory, thread, agent, intr, v8
    <3>1. TypeOK'
      BY DEF Inv, TypeOK
    <3>2. AddressInv' /\ FrameInv' /\ RequestsInv' /\ StopInv'
      BY DEF Inv, AddressInv, AddressOf, FrameInv, FrameOf, RequestsInv, RequestsOf, StopInv, StoppedEnv
    <3>. QED
      BY <3>1, <3>2 DEF Inv
  <2>. QED
    BY <2>1, <2>2
<1>. QED
  BY <1>1, <1>2, PTL DEF Spec

(* The variables keep their types: no holder count and no count of guest   *)
(* calls falls below zero.                                                 *)
THEOREM TypeCorrect == Spec => []TypeOK
<1>1. Inv => TypeOK
  BY DEF Inv
<1>. QED
  BY <1>1, Invariance, PTL

(* The registry's retained pointers are never dangling and never another   *)
(* env's (register_napi_env retains, finish_unregister_napi_env drops).    *)
THEOREM RegistryPointersSafe == Spec => []RegistryPointers
<1>1. Inv => RegistryPointers
  BY ConstantsAssumption DEF Inv, AddressInv, AddressOf, RegistryPointers, TypeOK, Listed, Allocated
<1>. QED
  BY <1>1, Invariance, PTL

(* A foreign thread that finds an address in g_envs reaches an agent that  *)
(* exists, and an engine that exists if it goes on to call it.             *)
THEOREM ForeignCallsSafe == Spec => []ForeignCallsReachLiveEngine
<1>1. Inv => ForeignCallsReachLiveEngine
  <2>. SUFFICES ASSUME Inv, NEW a \in genvs
                PROVE  /\ heap[a] # NoEnv
                       /\ addr[heap[a]] = a
                       /\ ~engine[heap[a]] => closing[heap[a]] /\ teardownCalls[heap[a]] = 0
    BY DEF ForeignCallsReachLiveEngine
  <2>1. a \in Addrs /\ heap[a] # NoEnv /\ heap[a] \in Envs
    BY DEF Inv, TypeOK, AddressInv
  <2>2. addr[heap[a]] = a /\ phase[heap[a]] \in Allocated
    BY <2>1 DEF Inv, AddressInv
  <2>3. phase[heap[a]] \in Tabled
    BY <2>1, <2>2 DEF Inv, AddressInv, AddressOf
  <2>. QED
    BY <2>1, <2>2, <2>3 DEF Inv, FrameInv, FrameOf, WithEngine, Released, Tabled
<1>. QED
  BY <1>1, Invariance, PTL

(* The isolate is disposed only when none of its frames is on the stack. *)
THEOREM FramesSafe == Spec => []NoFrameOnDeadEngine
<1>1. Inv => NoFrameOnDeadEngine
  BY DEF Inv, FrameInv, FrameOf, NoFrameOnDeadEngine, WithEngine, Tabled, Allocated, Phases
<1>. QED
  BY <1>1, Invariance, PTL

(* An isolate that exists is charged for. *)
THEOREM EnginesCharged == Spec => []EngineIsCharged
<1>1. Inv => EngineIsCharged
  BY DEF Inv, FrameInv, FrameOf, EngineIsCharged, WithEngine, Tabled, Allocated
<1>. QED
  BY <1>1, Invariance, PTL

(* No interrupt request is used after it was deleted, and none is lost. *)
THEOREM InterruptsSafe == Spec => []InterruptsAccounted
<1>1. Inv => InterruptsAccounted
  BY DEF Inv, RequestsInv, RequestsOf, InterruptsAccounted
<1>. QED
  BY <1>1, Invariance, PTL

(* A finished release leaves nothing of the env behind. *)
THEOREM ReleaseClean == Spec => []ReleaseLeavesNothing
<1>1. Inv => ReleaseLeavesNothing
  <2>. SUFFICES ASSUME Inv, NEW e \in Envs, phase[e] = "done"
                PROVE  /\ e \notin registry /\ ~charged[e] /\ live[e] = {}
                       /\ \A a \in Addrs : heap[a] # e
    BY DEF ReleaseLeavesNothing
  <2>1. e \notin registry /\ ~charged[e] /\ live[e] = {}
    BY DEF Inv, AddressInv, AddressOf, FrameInv, FrameOf, RequestsInv, RequestsOf,
           Listed, Allocated, Released
  <2>2. \A a \in Addrs : heap[a] # e
    BY ConstantsAssumption DEF Inv, AddressInv, Allocated
  <2>. QED
    BY <2>1, <2>2
<1>. QED
  BY <1>1, Invariance, PTL

(* After terminate_all has returned, an env that runs JavaScript is        *)
(* terminated, unless a cancel in flight or its own release undid it.      *)
THEOREM StopHolds == Spec => []StopHoldsUnlessUndone
<1>1. Inv => StopHoldsUnlessUndone
  <2>. SUFFICES ASSUME Inv, stopDone, NEW e \in Envs, top[e] = "js"
                PROVE  terminated[e] \/ undone[e] # {}
    BY DEF StopHoldsUnlessUndone
  <2>1. /\ phase[e] \in {"running", "finalizing"}
        /\ phase[e] = "finalizing" => teardownCalls[e] # 0
        /\ phase[e] = "running" => ~closing[e]
    BY DEF Inv, FrameInv, FrameOf, Released
  <2>2. StoppedEnv(e)
    BY <2>1 DEF Inv, StopInv
  <2>. QED
    BY <2>1, <2>2 DEF StoppedEnv
<1>. QED
  BY <1>1, Invariance, PTL

(* Pointers, engines and frames are used only while they exist, however    *)
(* many envs are created, terminated and released concurrently.            *)
THEOREM PointersAreSafe == Spec => []PointersSafe
BY RegistryPointersSafe, ForeignCallsSafe, FramesSafe, PTL DEF PointersSafe

(* Engines stay charged and interrupt requests owned. *)
THEOREM AccountsHold == Spec => []Accounts
BY EnginesCharged, InterruptsSafe, PTL DEF Accounts
=============================================================================
