--------------------------- MODULE EnvLifecycleMC ---------------------------
(* Two environments and two addresses: an address can be allocated again   *)
(* while the other env is in any phase.                                    *)
EXTENDS EnvLifecycle, TLC

(* Environments and addresses are interchangeable. *)
Symmetry == Permutations(Envs) \cup Permutations(Addrs)
=============================================================================
