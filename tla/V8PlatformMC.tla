---------------------------- MODULE V8PlatformMC ----------------------------
(* Two isolates, one after the other at one address; threads that post may *)
(* be exchanged.                                                           *)
EXTENDS V8Platform, TLC

Symmetry == Permutations(Threads)
=============================================================================
