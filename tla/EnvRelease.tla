----------------------------- MODULE EnvRelease -----------------------------
(***************************************************************************)
(* What an env promises about the callbacks native code leaves with it, as *)
(* unofficial_napi_release_env states it for every provider: a cleanup     *)
(* hook, a finalizer or a realm's context token stays live until it is     *)
(* withdrawn or run, it runs once, and the release ends only when none is  *)
(* live.  While the env is released, external buffers are finalized most   *)
(* recent first and the instance data after everything else.  The          *)
(* providers' releases (V8Release, QuickJsRelease) implement this.         *)
(*                                                                         *)
(* An item is one registration.  Items are numbered in the order they are  *)
(* made, so "more recent" is "larger".                                     *)
(***************************************************************************)
EXTENDS Naturals

CONSTANTS Items,    \* the registrations, a finite set 1..N
          Kinds     \* "hook", "ref", "store", "memory", "token", "instance"

VARIABLES phase,    \* "open", "releasing" or "closed"
          kind,     \* the kind of each item, "none" before it is made
          life,     \* "none" before an item is made, "live", "done" (it ran) or "withdrawn"
          runs      \* how often each item's callback was called

vars == <<phase, kind, life, runs>>

Live(K) == {i \in Items : life[i] = "live" /\ kind[i] \in K}

Init == /\ phase = "open"
        /\ kind = [i \in Items |-> "none"]
        /\ life = [i \in Items |-> "none"]
        /\ runs = [i \in Items |-> 0]

Make(i, k) == /\ phase # "closed"
              /\ life[i] = "none"
              /\ life' = [life EXCEPT ![i] = "live"]
              /\ kind' = [kind EXCEPT ![i] = k]
              /\ UNCHANGED <<phase, runs>>

\* New instance data takes the place of the old, which a provider finalizes
\* (QuickJS) or forgets (V8).
Replace(i, j) == /\ phase # "closed"
                 /\ life[i] = "none" /\ life[j] = "live"
                 /\ kind[j] = "instance"
                 /\ \E end \in {"done", "withdrawn"} :
                      /\ life' = [life EXCEPT ![i] = "live", ![j] = end]
                      /\ runs' = [runs EXCEPT ![j] = IF end = "done" THEN 1 ELSE 0]
                 /\ kind' = [kind EXCEPT ![i] = "instance"]
                 /\ UNCHANGED phase

Withdraw(i) == /\ phase # "closed"
               /\ life[i] = "live"
               /\ life' = [life EXCEPT ![i] = "withdrawn"]
               /\ UNCHANGED <<phase, kind, runs>>

\* The order the release keeps.
InTurn(i) ==
  /\ kind[i] = "store" => \A j \in Live({"store"}) : j <= i
  /\ kind[i] = "instance" => Live(Kinds) = {i}

Run(i) == /\ phase # "closed"
          /\ life[i] = "live"
          /\ phase = "releasing" => InTurn(i)
          /\ life' = [life EXCEPT ![i] = "done"]
          /\ runs' = [runs EXCEPT ![i] = 1]
          /\ UNCHANGED <<phase, kind>>

\* The stores still alive are let go of together: the free callbacks of
\* provider-owned memory have no order.
RunMemory(S) == /\ phase # "closed"
                /\ S # {} /\ S \subseteq Live({"memory"})
                /\ life' = [i \in Items |-> IF i \in S THEN "done" ELSE life[i]]
                /\ runs' = [i \in Items |-> IF i \in S THEN 1 ELSE runs[i]]
                /\ UNCHANGED <<phase, kind>>

Release == /\ phase = "open"
           /\ phase' = "releasing"
           /\ UNCHANGED <<kind, life, runs>>

Close == /\ phase = "releasing"
         /\ Live(Kinds) = {}
         /\ phase' = "closed"
         /\ UNCHANGED <<kind, life, runs>>

Next == \/ \E i \in Items : \/ Withdraw(i) \/ Run(i)
                            \/ \E k \in Kinds : Make(i, k)
                            \/ \E j \in Items : Replace(i, j)
        \/ \E S \in SUBSET Items : RunMemory(S)
        \/ Release \/ Close

Spec == Init /\ [][Next]_vars
=============================================================================
