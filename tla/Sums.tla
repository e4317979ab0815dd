-------------------------------- MODULE Sums --------------------------------
(***************************************************************************)
(* The sum of the values f[1], ..., f[n] of a function on 1..n.  It is     *)
(* written as a recursive function, not as a RECURSIVE operator or a fold, *)
(* so that ResourceBudgetProofs can prove lemmas about it.                 *)
(***************************************************************************)
EXTENDS Integers

(* s[i] is the sum of the first i values. *)
IsRunningSum(s, f, n) ==
    s = [i \in 0..n |-> IF i = 0 THEN 0 ELSE s[i-1] + f[i]]

RunningSum(f, n) ==
    LET s[i \in 0..n] == IF i = 0 THEN 0 ELSE s[i-1] + f[i] IN s

Sum(f, n) == RunningSum(f, n)[n]
=============================================================================
