------------------------ MODULE ResourceBudgetProofs ------------------------
(***************************************************************************)
(* Proofs about ResourceBudget, for every number of threads, every limit   *)
(* and every size of charge.                                               *)
(*                                                                         *)
(* The inductive invariant IInv says what is true of each call at each of  *)
(* its control points (CallsConsistent) and that each counter is the sum   *)
(* of the threads' shares in it.  A step of thread t changes only the      *)
(* share of t (OthersKept) and moves each counter by exactly the change of *)
(* that share (CountersFollow); SumUpdate then carries the sums over.      *)
(***************************************************************************)
EXTENDS ResourceBudget, NaturalsInduction, WellFoundedInduction, TLAPS

-----------------------------------------------------------------------------
(* What Sum computes, for every n: the sum exists, an update at one index  *)
(* changes it by the difference at that index, it is bounded below by each *)
(* term, and it is monotone.  Induction over n is by least counterexample: *)
(* a non-empty set of naturals has a least element.                        *)

(* A non-empty set of natural numbers has a least element. *)
LEMMA LeastNat ==
  ASSUME NEW T \in SUBSET Nat, T # {}
  PROVE  \E x \in T : \A y \in T : x <= y
<1>. DEFINE R == OpToRel(<, Nat)
<1>1. IsWellFoundedOn(R, Nat)
  BY NatLessThanWellFounded
<1>2. \E x \in T : \A y \in T : ~ (<<y, x>> \in R)
  BY <1>1, WFMin
<1>3. \A x, y \in Nat : <<y, x>> \in R <=> y < x
  BY DEF OpToRel
<1>. HIDE DEF R
<1>4. \A x, y \in T : ~(<<y, x>> \in R) => x <= y
  BY <1>3
<1>. QED
  BY <1>2, <1>4

(* Every integer function on 1..n has a running sum. *)
LEMMA RunningSumExists ==
  ASSUME NEW n \in Nat, NEW f \in [1..n -> Int]
  PROVE  \E s \in [0..n -> Int] : IsRunningSum(s, f, n)
<1>. DEFINE T == {m \in 0..n : ~ \E s \in [0..m -> Int] : IsRunningSum(s, f, m)}
<1>1. ASSUME T # {} PROVE FALSE
  <2>1. PICK m \in T : \A y \in T : m <= y
    <3>1. T \in SUBSET Nat
      OBVIOUS
    <3>. HIDE DEF T
    <3>. QED
      BY <3>1, <1>1, LeastNat
  <2>2. m # 0
    <3>1. ASSUME m = 0 PROVE FALSE
      <4>. DEFINE z == [i \in 0..0 |-> 0]
      <4>1. z \in [0..0 -> Int] /\ IsRunningSum(z, f, 0)
        BY DEF IsRunningSum
      <4>. QED
        BY <3>1, <4>1
    <3>. QED
      BY <3>1
  <2>3. PICK s \in [0..(m-1) -> Int] : IsRunningSum(s, f, m-1)
    <3>1. m - 1 \in 0..n /\ m - 1 \notin T
      BY <2>1, <2>2
    <3>. QED
      BY <3>1
  <2>. DEFINE u == [i \in 0..m |-> IF i = m THEN s[m-1] + f[m] ELSE s[i]]
  <2>4. u \in [0..m -> Int]
    BY <2>2, <2>3
  <2>5. ASSUME NEW i \in 0..m PROVE u[i] = IF i = 0 THEN 0 ELSE u[i-1] + f[i]
    <3>1. m \in Nat /\ m > 0
      BY <2>2
    <3>2. CASE i = m
      <4>1. i # 0 /\ i - 1 \in 0..m /\ i - 1 # m
        BY <3>1, <3>2
      <4>. QED
        BY <3>2, <4>1
    <3>3. CASE i # m
      <4>1. i \in 0..(m-1) /\ u[i] = s[i]
        BY <3>1, <3>3
      <4>2. s[i] = IF i = 0 THEN 0 ELSE s[i-1] + f[i]
        BY <4>1, <2>3 DEF IsRunningSum
      <4>3. i # 0 => u[i-1] = s[i-1]
        BY <4>1, <3>1
      <4>. QED
        BY <4>1, <4>2, <4>3
    <3>. QED
      BY <3>2, <3>3
  <2>6. IsRunningSum(u, f, m)
    <3>. HIDE DEF u
    <3>. QED
      BY <2>4, <2>5 DEF IsRunningSum
  <2>. QED
    BY <2>4, <2>6
<1>. QED
  BY <1>1

(* RunningSum is a running sum. *)
LEMMA RunningSumDef ==
  ASSUME NEW n \in Nat, NEW f \in [1..n -> Int]
  PROVE  /\ RunningSum(f, n) \in [0..n -> Int]
         /\ RunningSum(f, n)[0] = 0
         /\ \A i \in 1..n : RunningSum(f, n)[i] = RunningSum(f, n)[i-1] + f[i]
<1>. DEFINE s == RunningSum(f, n)
<1>1. s = CHOOSE u : IsRunningSum(u, f, n)
  BY DEF RunningSum, IsRunningSum
<1>2. \E u : IsRunningSum(u, f, n)
  BY RunningSumExists
<1>3. IsRunningSum(s, f, n)
  <2>. HIDE DEF s
  <2>. QED
    BY <1>1, <1>2
<1>. HIDE DEF s
<1>4. s[0] = 0 /\ \A i \in 1..n : s[i] = s[i-1] + f[i]
  BY <1>3 DEF IsRunningSum
<1>5. DOMAIN s = 0..n /\ s = [i \in 0..n |-> s[i]]
  BY <1>3 DEF IsRunningSum
<1>. DEFINE T == {i \in 0..n : s[i] \notin Int}
<1>6. ASSUME T # {} PROVE FALSE
  <2>1. PICK x \in T : \A y \in T : x <= y
    <3>1. T \in SUBSET Nat
      OBVIOUS
    <3>. HIDE DEF T
    <3>. QED
      BY <3>1, <1>6, LeastNat
  <2>2. x # 0
    BY <1>4
  <2>3. x - 1 \in 0..n /\ x - 1 \notin T
    BY <2>1, <2>2
  <2>. QED
    BY <2>1, <2>2, <2>3, <1>4
<1>7. s \in [0..n -> Int]
  BY <1>5, <1>6
<1>. QED
  BY <1>4, <1>7 DEF s

(* Anything that satisfies the recursion up to n has the sum as its last   *)
(* value.                                                                  *)
LEMMA SumUnique ==
  ASSUME NEW n \in Nat, NEW f \in [1..n -> Int], NEW u,
         \A i \in 0..n : u[i] \in Int,
         u[0] = 0, \A i \in 1..n : u[i] = u[i-1] + f[i]
  PROVE  \A i \in 0..n : u[i] = RunningSum(f, n)[i]
<1>. DEFINE s == RunningSum(f, n)
<1>1. s \in [0..n -> Int] /\ s[0] = 0 /\ \A i \in 1..n : s[i] = s[i-1] + f[i]
  BY RunningSumDef
<1>. HIDE DEF s
<1>. DEFINE T == {i \in 0..n : u[i] # s[i]}
<1>2. ASSUME T # {} PROVE FALSE
  <2>1. PICK x \in T : \A y \in T : x <= y
    <3>1. T \in SUBSET Nat
      OBVIOUS
    <3>. HIDE DEF T
    <3>. QED
      BY <3>1, <1>2, LeastNat
  <2>2. x # 0
    BY <1>1
  <2>3. x - 1 \in 0..n /\ x - 1 \notin T
    BY <2>1, <2>2
  <2>. QED
    BY <2>1, <2>2, <2>3, <1>1
<1>. QED
  BY <1>2 DEF s

(* A sum of integers is an integer. *)
LEMMA SumInt ==
  ASSUME NEW n \in Nat, NEW f \in [1..n -> Int]
  PROVE  Sum(f, n) \in Int
BY RunningSumDef DEF Sum

(* The sum of zeros is zero. *)
LEMMA SumZero ==
  ASSUME NEW n \in Nat, NEW f \in [1..n -> Int], \A i \in 1..n : f[i] = 0
  PROVE  Sum(f, n) = 0
<1>. DEFINE u == [i \in 0..n |-> 0]
<1>1. /\ \A i \in 0..n : u[i] \in Int
      /\ u[0] = 0
      /\ \A i \in 1..n : u[i] = u[i-1] + f[i]
  OBVIOUS
<1>2. u[n] = 0
  OBVIOUS
<1>. HIDE DEF u
<1>3. \A i \in 0..n : u[i] = RunningSum(f, n)[i]
  BY <1>1, SumUnique
<1>. QED
  BY <1>2, <1>3 DEF Sum

(* Changing one term changes the sum by the difference. *)
LEMMA SumUpdate ==
  ASSUME NEW n \in Nat, NEW f \in [1..n -> Int], NEW g \in [1..n -> Int],
         NEW k \in 1..n, \A i \in 1..n : i # k => g[i] = f[i]
  PROVE  Sum(g, n) = Sum(f, n) + g[k] - f[k]
<1>. DEFINE s == RunningSum(f, n)
            u == [i \in 0..n |-> IF i < k THEN s[i] ELSE s[i] + g[k] - f[k]]
<1>1. s \in [0..n -> Int] /\ s[0] = 0 /\ \A i \in 1..n : s[i] = s[i-1] + f[i]
  BY RunningSumDef
<1>. HIDE DEF s
<1>2. /\ \A i \in 0..n : u[i] \in Int
      /\ u[0] = 0
      /\ \A i \in 1..n : u[i] = u[i-1] + g[i]
  <2>1. ASSUME NEW i \in 0..n PROVE u[i] \in Int
    <3>1. s[i] \in Int /\ g[k] \in Int /\ f[k] \in Int
      BY <1>1
    <3>. QED
      BY <3>1
  <2>2. u[0] = 0
    BY <1>1
  <2>3. ASSUME NEW i \in 1..n PROVE u[i] = u[i-1] + g[i]
    <3>1. CASE i < k
      BY <3>1, <1>1
    <3>2. CASE i = k
      BY <3>2, <1>1
    <3>3. CASE i > k
      <4>1. u[i] = s[i] + g[k] - f[k] /\ u[i-1] = s[i-1] + g[k] - f[k]
        BY <3>3
      <4>2. s[i] = s[i-1] + g[i]
        BY <3>3, <1>1
      <4>3. s[i-1] \in Int /\ g[i] \in Int /\ g[k] \in Int /\ f[k] \in Int
        BY <1>1
      <4>. HIDE DEF u
      <4>. QED
        BY <4>1, <4>2, <4>3
    <3>. QED
      BY <3>1, <3>2, <3>3
  <2>. QED
    BY <2>1, <2>2, <2>3
<1>3. u[n] = s[n] + g[k] - f[k]
  BY <1>1
<1>. HIDE DEF u
<1>4. \A i \in 0..n : u[i] = RunningSum(g, n)[i]
  BY <1>2, SumUnique
<1>. QED
  BY <1>3, <1>4 DEF Sum, s

(* The sum of naturals is at least each of its terms. *)
LEMMA SumAtLeast ==
  ASSUME NEW n \in Nat, NEW f \in [1..n -> Nat], NEW k \in 1..n
  PROVE  Sum(f, n) \in Nat /\ Sum(f, n) >= f[k]
<1>. DEFINE s == RunningSum(f, n)
<1>0. f \in [1..n -> Int]
  OBVIOUS
<1>1. s \in [0..n -> Int] /\ s[0] = 0 /\ \A i \in 1..n : s[i] = s[i-1] + f[i]
  BY <1>0, RunningSumDef
<1>. HIDE DEF s
<1>. DEFINE T == {i \in 0..n : s[i] < 0 \/ (i >= k /\ s[i] < f[k])}
<1>2. ASSUME T # {} PROVE FALSE
  <2>1. PICK x \in T : \A y \in T : x <= y
    <3>1. T \in SUBSET Nat
      OBVIOUS
    <3>. HIDE DEF T
    <3>. QED
      BY <3>1, <1>2, LeastNat
  <2>2. x # 0
    BY <1>1
  <2>3. x - 1 \in 0..n /\ x - 1 \notin T
    BY <2>1, <2>2
  <2>4. x \in 1..n /\ s[x] = s[x-1] + f[x] /\ f[x] \in Nat /\ f[k] \in Nat
    BY <2>1, <2>2, <1>1
  <2>5. s[x] \in Int /\ s[x-1] \in Int
    BY <2>3, <2>4, <1>1
  <2>6. s[x-1] >= 0 /\ (x - 1 >= k => s[x-1] >= f[k])
    BY <2>3, <2>5, <2>4
  <2>7. CASE x = k
    BY <2>1, <2>4, <2>5, <2>6, <2>7
  <2>8. CASE x # k
    BY <2>1, <2>4, <2>5, <2>6, <2>8
  <2>. QED
    BY <2>7, <2>8
<1>3. n \notin T /\ s[n] \in Int
  BY <1>1, <1>2
<1>4. s[n] >= 0 /\ s[n] >= f[k]
  BY <1>3
<1>. QED
  BY <1>3, <1>4 DEF Sum, s

(* A sum of naturals is a natural. *)
LEMMA SumNat ==
  ASSUME NEW n \in Nat, NEW f \in [1..n -> Nat]
  PROVE  Sum(f, n) \in Nat
<1>1. CASE n = 0
  <2>1. f \in [1..n -> Int]
    OBVIOUS
  <2>2. RunningSum(f, n)[0] = 0
    BY <2>1, RunningSumDef
  <2>. QED
    BY <1>1, <2>2 DEF Sum
<1>2. CASE n # 0
  BY <1>2, SumAtLeast
<1>. QED
  BY <1>1, <1>2

(* The sum of pointwise sums. *)
LEMMA SumAdd ==
  ASSUME NEW n \in Nat, NEW f \in [1..n -> Int], NEW g \in [1..n -> Int],
         NEW h \in [1..n -> Int], \A i \in 1..n : h[i] = f[i] + g[i]
  PROVE  Sum(h, n) = Sum(f, n) + Sum(g, n)
<1>. DEFINE s == RunningSum(f, n)
            r == RunningSum(g, n)
            u == [i \in 0..n |-> s[i] + r[i]]
<1>1. s \in [0..n -> Int] /\ s[0] = 0 /\ \A i \in 1..n : s[i] = s[i-1] + f[i]
  BY RunningSumDef
<1>2. r \in [0..n -> Int] /\ r[0] = 0 /\ \A i \in 1..n : r[i] = r[i-1] + g[i]
  BY RunningSumDef
<1>. HIDE DEF s, r
<1>3. /\ \A i \in 0..n : u[i] \in Int
      /\ u[0] = 0
      /\ \A i \in 1..n : u[i] = u[i-1] + h[i]
  BY <1>1, <1>2
<1>4. u[n] = s[n] + r[n]
  OBVIOUS
<1>. HIDE DEF u
<1>5. \A i \in 0..n : u[i] = RunningSum(h, n)[i]
  BY <1>3, SumUnique
<1>. QED
  BY <1>4, <1>5 DEF Sum, s, r

-----------------------------------------------------------------------------
(* The budget.                                                             *)

IInv ==
    /\ TypeOK
    /\ CallsConsistent
    /\ TotalBounded
    /\ TotalConserved
    /\ PoolsConserved
    /\ IsolatesCounted

(* A step of t leaves the calls and the holdings of every other thread. *)
OthersKept(t) ==
    /\ mode' = mode /\ capped' = capped
    /\ \A i \in Threads \ {t} :
          /\ pc'[i] = pc[i] /\ op'[i] = op[i] /\ seen'[i] = seen[i]
          /\ slot'[i] = slot[i] /\ slack'[i] = slack[i] /\ limit'[i] = limit[i]
          /\ ceiling'[i] = ceiling[i] /\ granted'[i] = granted[i]
          /\ external'[i] = external[i] /\ linear'[i] = linear[i]

(* Each counter moves by the change of t's share in it. *)
CountersFollow(t) ==
    /\ embedder' = embedder
    /\ memCharged' - memCharged = TotalShare(t)' - TotalShare(t)
    /\ mode = "accountant"
          => acctCharged' - acctCharged = AcctShare(t)' - AcctShare(t)
    /\ \A p \in Pools :
          poolCharged'[p] - poolCharged[p] = PoolShare(p, t)' - PoolShare(p, t)
    /\ liveIsolates' - liveIsolates = SlotShare(t)' - SlotShare(t)

-----------------------------------------------------------------------------
(* A step of a thread keeps the types. *)
LEMMA ThreadType ==
  ASSUME TypeOK, NEW t \in Threads, Continue(t) \/ Begin(t)
  PROVE  TypeOK'
<1>. USE ConstantsAssumption DEF TypeOK, Ops, Op, NoOp, Kinds, Control
<1>0. NoOp \in Ops
  BY DEF Pools
<1>1. CASE ChargeLoad(t)
  BY <1>1, TypeOK DEF ChargeLoad, Goto, Fits, setup, counters, owned, Pools
<1>2. CASE ChargeCas(t)
  BY <1>2, TypeOK DEF ChargeCas, Goto, setup, counters, owned, Pools
<1>3. CASE ChargeCasFails(t)
  BY <1>3, TypeOK DEF ChargeCasFails, Goto, Fits, setup, counters, owned, Pools
<1>4. CASE ChargeAdd(t)
  <2>1. memCharged' \in Int
    BY <1>4, TypeOK DEF ChargeAdd
  <2>2. pc' \in [Threads -> Control]
    BY <1>4, TypeOK DEF ChargeAdd, Goto
  <2>. QED
    BY <1>4, <2>1, <2>2, TypeOK DEF ChargeAdd, setup, owned
<1>5. CASE ChargeAccountant(t)
  BY <1>5, TypeOK DEF ChargeAccountant, Goto, setup, counters, owned, Pools
<1>6. CASE ChargePool(t)
  BY <1>6, TypeOK DEF ChargePool, Goto, setup, counters, owned, Pools
<1>7. CASE Charged(t)
  <2>1. pc' \in [Threads -> Control]
    BY <1>7, TypeOK DEF Charged, Goto, Finish
  <2>2. op' \in [Threads -> Ops]
    BY <1>7, <1>0, TypeOK DEF Charged, Goto, Finish
  <2>3. seen' \in [Threads -> Int]
    BY <1>7, TypeOK DEF Charged, Goto, Finish
  <2>4. ceiling' \in [Threads -> Nat] /\ granted' \in [Threads -> Nat]
    <3>1. op[t].bytes \in Nat
      BY TypeOK
    <3>2. ceiling' \in [Threads -> Nat]
      BY <1>7, <3>1, TypeOK DEF Charged, owned
    <3>3. granted' \in [Threads -> Nat]
      BY <1>7, <3>1, TypeOK DEF Charged, owned
    <3>. QED
      BY <3>2, <3>3
  <2>5. limit' \in [Threads -> Nat]
    BY <1>7, TypeOK DEF Charged, owned
  <2>6. slack' \in [Threads -> BOOLEAN]
    BY <1>7, TypeOK DEF Charged, owned
  <2>7. external' \in [Threads -> Nat] /\ linear' \in [Threads -> Nat]
    BY <1>7, TypeOK DEF Charged, owned
  <2>. QED
    BY <1>7, <2>1, <2>2, <2>3, <2>4, <2>5, <2>6, <2>7, TypeOK DEF Charged, setup, counters, owned
<1>8. CASE Denied(t)
  <2>1. pc' \in [Threads -> Control]
    BY <1>8, TypeOK DEF Denied, Goto, Finish
  <2>2. op' \in [Threads -> Ops]
    BY <1>8, <1>0, TypeOK DEF Denied, Goto, Finish
  <2>3. seen' \in [Threads -> Int]
    BY <1>8, TypeOK DEF Denied, Goto, Finish
  <2>4. ceiling' \in [Threads -> Nat] /\ granted' \in [Threads -> Nat]
    BY <1>8, TypeOK DEF Denied, owned
  <2>5. limit' \in [Threads -> Nat]
    BY <1>8, TypeOK DEF Denied, owned
  <2>6. slack' \in [Threads -> BOOLEAN]
    BY <1>8, TypeOK DEF Denied, owned
  <2>7. external' \in [Threads -> Nat] /\ linear' \in [Threads -> Nat]
    BY <1>8, TypeOK DEF Denied, owned
  <2>. QED
    BY <1>8, <2>1, <2>2, <2>3, <2>4, <2>5, <2>6, <2>7, TypeOK DEF Denied, setup, counters, owned
<1>9. CASE UnchargePool(t)
  BY <1>9, TypeOK DEF UnchargePool, Goto, setup, counters, owned, Pools
<1>10. CASE UnchargeTotal(t)
  BY <1>10, TypeOK DEF UnchargeTotal, Goto, setup, counters, owned, Pools
<1>11. CASE UnchargeAccountant(t)
  BY <1>11, TypeOK DEF UnchargeAccountant, Goto, setup, counters, owned, Pools
<1>12. CASE Returned(t)
  <2>1. pc' \in [Threads -> Control]
    BY <1>12, TypeOK DEF Returned, Goto, Finish, BeginUncharge, Pools
  <2>2. op' \in [Threads -> Ops]
    BY <1>12, <1>0, TypeOK DEF Returned, Goto, Finish, BeginUncharge, Pools
  <2>3. seen' \in [Threads -> Int]
    BY <1>12, TypeOK DEF Returned, Goto, Finish, BeginUncharge, Pools
  <2>4. ceiling' \in [Threads -> Nat] /\ granted' \in [Threads -> Nat]
    BY <1>12, TypeOK DEF Returned, owned
  <2>5. limit' \in [Threads -> Nat]
    BY <1>12, TypeOK DEF Returned, owned
  <2>6. slack' \in [Threads -> BOOLEAN]
    BY <1>12, TypeOK DEF Returned, owned
  <2>7. external' \in [Threads -> Nat] /\ linear' \in [Threads -> Nat]
    BY <1>12, TypeOK DEF Returned, owned
  <2>. QED
    BY <1>12, <2>1, <2>2, <2>3, <2>4, <2>5, <2>6, <2>7, TypeOK DEF Returned, setup, counters, owned
<1>13. CASE AcquireCas(t)
  BY <1>13, TypeOK DEF AcquireCas, Goto, setup, counters, owned, Pools
<1>14. CASE AcquireCasFails(t)
  <2>1. pc' \in [Threads -> Control]
    BY <1>14, TypeOK DEF AcquireCasFails, Goto, Finish
  <2>2. op' \in [Threads -> Ops]
    <3>1. op' = op \/ op' = [op EXCEPT ![t] = NoOp]
      BY <1>14 DEF AcquireCasFails, Finish
    <3>2. op \in [Threads -> Ops]
      BY TypeOK
    <3>. HIDE DEF TypeOK, Ops, NoOp, Op
    <3>. QED
      BY <3>1, <3>2, <1>0
  <2>3. seen' \in [Threads -> Int]
    BY <1>14, TypeOK DEF AcquireCasFails, Goto, Finish
  <2>4. ceiling' \in [Threads -> Nat] /\ granted' \in [Threads -> Nat]
    BY <1>14, TypeOK DEF AcquireCasFails, owned
  <2>5. limit' \in [Threads -> Nat]
    BY <1>14, TypeOK DEF AcquireCasFails, owned
  <2>6. slack' \in [Threads -> BOOLEAN]
    BY <1>14, TypeOK DEF AcquireCasFails, owned
  <2>7. external' \in [Threads -> Nat] /\ linear' \in [Threads -> Nat]
    BY <1>14, TypeOK DEF AcquireCasFails, owned
  <2>. QED
    BY <1>14, <2>1, <2>2, <2>3, <2>4, <2>5, <2>6, <2>7, TypeOK DEF AcquireCasFails, setup, counters, owned
<1>15. CASE PlanHeap(t)
  <2>1. pc' \in [Threads -> Control]
    BY <1>15, TypeOK DEF PlanHeap, Goto, Smaller, Fixed, MemoryRemaining, Pools
  <2>2. op' \in [Threads -> Ops]
    BY <1>15, <1>0, TypeOK DEF PlanHeap, Goto, Smaller, Fixed, MemoryRemaining, Pools
  <2>3. seen' \in [Threads -> Int]
    BY <1>15, TypeOK DEF PlanHeap, Goto, Smaller, Fixed, MemoryRemaining, Pools
  <2>4. ceiling' \in [Threads -> Nat] /\ granted' \in [Threads -> Nat]
    BY <1>15, TypeOK DEF PlanHeap, owned
  <2>5. limit' \in [Threads -> Nat]
    BY <1>15, TypeOK DEF PlanHeap, owned
  <2>6. slack' \in [Threads -> BOOLEAN]
    BY <1>15, TypeOK DEF PlanHeap, owned
  <2>7. external' \in [Threads -> Nat] /\ linear' \in [Threads -> Nat]
    BY <1>15, TypeOK DEF PlanHeap, owned
  <2>. QED
    BY <1>15, <2>1, <2>2, <2>3, <2>4, <2>5, <2>6, <2>7, TypeOK DEF PlanHeap, setup, counters, owned
<1>16. CASE ReleaseIsolate(t)
  BY <1>16, TypeOK DEF ReleaseIsolate, Goto, Finish, setup, counters, owned, Pools
<1>17. CASE AcquireUncapped(t)
  BY <1>17, TypeOK DEF AcquireUncapped, Goto, setup, counters, owned, Pools
<1>18. CASE AcquireLoad(t)
  BY <1>18, TypeOK DEF AcquireLoad, Goto, setup, counters, owned, Pools
<1>19. CASE NearHeapLimit(t)
  BY <1>19, TypeOK DEF NearHeapLimit, Goto, BeginCharge, setup, counters, owned, Pools
<1>20. CASE ChargeExternal(t)
  BY <1>20, TypeOK DEF ChargeExternal, Goto, BeginCharge, setup, counters, owned, Pools
<1>21. CASE ChargeLinear(t)
  BY <1>21, TypeOK DEF ChargeLinear, Goto, BeginCharge, setup, counters, owned, Pools
<1>22. CASE ReleaseEnv(t)
  BY <1>22, TypeOK DEF ReleaseEnv, BeginUncharge, setup, counters, owned, Pools
<1>23. CASE UnchargeExternal(t)
  BY <1>23, TypeOK DEF UnchargeExternal, BeginUncharge, Smaller, setup, counters, owned, Pools
<1>24. CASE DropMemory(t)
  BY <1>24, TypeOK DEF DropMemory, BeginUncharge, setup, counters, owned, Pools
<1>25. CASE GrowFails(t)
  BY <1>25, TypeOK DEF GrowFails, Goto, setup, counters, owned, Pools
<1>. QED
  BY <1>1, <1>2, <1>3, <1>4, <1>5, <1>6, <1>7, <1>8, <1>9, <1>10, <1>11, <1>12, <1>13, <1>14, <1>15, <1>16, <1>17, <1>18, <1>19, <1>20, <1>21, <1>22, <1>23, <1>24, <1>25 DEF Continue, Begin

(* A step of a thread changes nothing of the other threads. *)
LEMMA ThreadLocal ==
  ASSUME TypeOK, NEW t \in Threads, Continue(t) \/ Begin(t)
  PROVE  OthersKept(t)
<1>. USE DEF TypeOK, OthersKept
<1>1. CASE ChargeLoad(t)
  BY <1>1, TypeOK DEF ChargeLoad, Goto, Fits, setup, counters, owned, Threads
<1>2. CASE ChargeCas(t)
  BY <1>2, TypeOK DEF ChargeCas, Goto, setup, counters, owned, Threads
<1>3. CASE ChargeCasFails(t)
  BY <1>3, TypeOK DEF ChargeCasFails, Goto, Fits, setup, counters, owned, Threads
<1>4. CASE ChargeAdd(t)
  BY <1>4, TypeOK DEF ChargeAdd, Goto, setup, counters, owned, Threads
<1>5. CASE ChargeAccountant(t)
  BY <1>5, TypeOK DEF ChargeAccountant, Goto, setup, counters, owned, Threads
<1>6. CASE ChargePool(t)
  BY <1>6, TypeOK DEF ChargePool, Goto, setup, counters, owned, Threads
<1>7. CASE Charged(t)
  BY <1>7, TypeOK DEF Charged, Goto, Finish, setup, counters, owned, Threads
<1>8. CASE Denied(t)
  <2>1. CASE op[t].kind = "env"
    BY <1>8, <2>1, TypeOK DEF Denied, Goto, setup, counters, owned, Threads
  <2>2. CASE op[t].kind = "grant"
    BY <1>8, <2>2, TypeOK DEF Denied, Goto, Finish, setup, counters, owned, Threads
  <2>3. CASE op[t].kind \in {"external", "linear"}
    BY <1>8, <2>3, TypeOK DEF Denied, Goto, Finish, setup, counters, owned, Threads
  <2>. QED
    BY <1>8, <2>1, <2>2, <2>3 DEF Denied
<1>9. CASE UnchargePool(t)
  BY <1>9, TypeOK DEF UnchargePool, Goto, setup, counters, owned, Threads
<1>10. CASE UnchargeTotal(t)
  BY <1>10, TypeOK DEF UnchargeTotal, Goto, setup, counters, owned, Threads
<1>11. CASE UnchargeAccountant(t)
  BY <1>11, TypeOK DEF UnchargeAccountant, Goto, setup, counters, owned, Threads
<1>12. CASE Returned(t)
  BY <1>12, TypeOK DEF Returned, Goto, Finish, BeginUncharge, setup, counters, owned, Threads
<1>13. CASE AcquireCas(t)
  BY <1>13, TypeOK DEF AcquireCas, Goto, setup, counters, owned, Threads
<1>14. CASE AcquireCasFails(t)
  BY <1>14, TypeOK DEF AcquireCasFails, Goto, Finish, setup, counters, owned, Threads
<1>15. CASE PlanHeap(t)
  BY <1>15, TypeOK DEF PlanHeap, Goto, Smaller, Fixed, MemoryRemaining, setup, counters, owned, Threads
<1>16. CASE ReleaseIsolate(t)
  BY <1>16, TypeOK DEF ReleaseIsolate, Goto, Finish, setup, counters, owned, Threads
<1>17. CASE AcquireUncapped(t)
  BY <1>17, TypeOK DEF AcquireUncapped, Goto, setup, counters, owned, Threads
<1>18. CASE AcquireLoad(t)
  BY <1>18, TypeOK DEF AcquireLoad, Goto, setup, counters, owned, Threads
<1>19. CASE NearHeapLimit(t)
  BY <1>19, TypeOK DEF NearHeapLimit, Goto, BeginCharge, setup, counters, owned, Threads
<1>20. CASE ChargeExternal(t)
  BY <1>20, TypeOK DEF ChargeExternal, Goto, BeginCharge, setup, counters, owned, Threads
<1>21. CASE ChargeLinear(t)
  BY <1>21, TypeOK DEF ChargeLinear, Goto, BeginCharge, setup, counters, owned, Threads
<1>22. CASE ReleaseEnv(t)
  BY <1>22, TypeOK DEF ReleaseEnv, BeginUncharge, setup, counters, owned, Threads
<1>23. CASE UnchargeExternal(t)
  BY <1>23, TypeOK DEF UnchargeExternal, BeginUncharge, Smaller, setup, counters, owned, Threads
<1>24. CASE DropMemory(t)
  BY <1>24, TypeOK DEF DropMemory, BeginUncharge, setup, counters, owned, Threads
<1>25. CASE GrowFails(t)
  BY <1>25, TypeOK DEF GrowFails, Goto, setup, counters, owned, Threads
<1>. QED
  BY <1>1, <1>2, <1>3, <1>4, <1>5, <1>6, <1>7, <1>8, <1>9, <1>10, <1>11, <1>12, <1>13, <1>14, <1>15, <1>16, <1>17, <1>18, <1>19, <1>20, <1>21, <1>22, <1>23, <1>24, <1>25 DEF Continue, Begin

(* A step of a thread moves the counters by the change of its own shares. *)
LEMMA ThreadCounters ==
  ASSUME TypeOK, TypeOK', CallsConsistent, NEW t \in Threads,
         Continue(t) \/ Begin(t)
  PROVE  CountersFollow(t)
<1>. USE DEF TypeOK, Ops, Op, NoOp, CountersFollow, TotalShare, AcctShare, PoolShare,
             SlotShare, Held, HeldTotal, InFlight
<1>0. CallConsistent(t) /\ EnvConsistent(t)
  BY DEF CallsConsistent
<1>1. CASE ChargeLoad(t)
  BY <1>1, <1>0, TypeOK, TypeOK' DEF ChargeLoad, Goto, Fits, setup, counters, owned, Pools, CallConsistent, EnvConsistent, ChargePhase, UnchargePhase, PoolOf
<1>2. CASE ChargeCas(t)
  BY <1>2, <1>0, TypeOK, TypeOK' DEF ChargeCas, Goto, setup, counters, owned, Pools, CallConsistent, EnvConsistent, ChargePhase, UnchargePhase, PoolOf
<1>3. CASE ChargeCasFails(t)
  BY <1>3, <1>0, TypeOK, TypeOK' DEF ChargeCasFails, Goto, Fits, setup, counters, owned, Pools, CallConsistent, EnvConsistent, ChargePhase, UnchargePhase, PoolOf
<1>4. CASE ChargeAdd(t)
  <2>. USE <1>4, <1>0, TypeOK, TypeOK'
       DEF ChargeAdd, Goto, setup, counters, owned, CallConsistent
  <2>1. memCharged' - memCharged = TotalShare(t)' - TotalShare(t)
    OBVIOUS
  <2>2. mode = "accountant" => acctCharged' - acctCharged = AcctShare(t)' - AcctShare(t)
    OBVIOUS
  <2>3. \A p \in Pools :
           poolCharged'[p] - poolCharged[p] = PoolShare(p, t)' - PoolShare(p, t)
    BY DEF Pools
  <2>. QED
    BY <2>1, <2>2, <2>3
<1>5. CASE ChargeAccountant(t)
  BY <1>5, <1>0, TypeOK, TypeOK' DEF ChargeAccountant, Goto, setup, counters, owned, Pools, CallConsistent, EnvConsistent, ChargePhase, UnchargePhase, PoolOf
<1>6. CASE ChargePool(t)
  BY <1>6, <1>0, TypeOK, TypeOK' DEF ChargePool, Goto, setup, counters, owned, Pools, CallConsistent, EnvConsistent, ChargePhase, UnchargePhase, PoolOf
<1>7. CASE Charged(t)
  BY <1>7, <1>0, TypeOK, TypeOK' DEF Charged, Goto, Finish, setup, counters, owned, Pools, CallConsistent, EnvConsistent, ChargePhase, UnchargePhase, PoolOf
<1>8. CASE Denied(t)
  BY <1>8, <1>0, TypeOK, TypeOK' DEF Denied, Goto, Finish, setup, counters, owned, Pools, CallConsistent, EnvConsistent, ChargePhase, UnchargePhase, PoolOf
<1>9. CASE UnchargePool(t)
  BY <1>9, <1>0, TypeOK, TypeOK' DEF UnchargePool, Goto, setup, counters, owned, Pools, CallConsistent, EnvConsistent, ChargePhase, UnchargePhase, PoolOf
<1>10. CASE UnchargeTotal(t)
  BY <1>10, <1>0, TypeOK, TypeOK' DEF UnchargeTotal, Goto, setup, counters, owned, Pools, CallConsistent, EnvConsistent, ChargePhase, UnchargePhase, PoolOf
<1>11. CASE UnchargeAccountant(t)
  BY <1>11, <1>0, TypeOK, TypeOK' DEF UnchargeAccountant, Goto, setup, counters, owned, Pools, CallConsistent, EnvConsistent, ChargePhase, UnchargePhase, PoolOf
<1>12. CASE Returned(t)
  <2>. USE <1>12, TypeOK, TypeOK' DEF Returned, setup, counters, owned, Pools
  <2>1. CASE op[t].kind = "granted"
    BY <2>1, <1>0 DEF BeginUncharge, CallConsistent, EnvConsistent, UnchargePhase, PoolOf
  <2>2. CASE op[t].kind = "ceiling"
    BY <2>2 DEF Goto
  <2>3. CASE op[t].kind \in {"external", "linear"}
    BY <2>3 DEF Goto, Finish
  <2>. QED
    BY <2>1, <2>2, <2>3
<1>13. CASE AcquireCas(t)
  BY <1>13, <1>0, TypeOK, TypeOK' DEF AcquireCas, Goto, setup, counters, owned, Pools, CallConsistent, EnvConsistent, ChargePhase, UnchargePhase, PoolOf
<1>14. CASE AcquireCasFails(t)
  BY <1>14, <1>0, TypeOK, TypeOK' DEF AcquireCasFails, Goto, Finish, setup, counters, owned, Pools, CallConsistent, EnvConsistent, ChargePhase, UnchargePhase, PoolOf
<1>15. CASE PlanHeap(t)
  <2>1. /\ UNCHANGED <<counters, embedder, slot, owned>>
        /\ pc'[t] \in {"charged", "charge", "unslot"}
        /\ pc[t] = "plan" /\ op[t].bytes = 0
        /\ pc'[t] = "charged" => op'[t].bytes = 0
    BY <1>15, <1>0, TypeOK DEF PlanHeap, Goto, CallConsistent
  <2>2. op'[t].bytes \in Nat
    BY TypeOK'
  <2>3. /\ TotalShare(t)' = TotalShare(t) /\ AcctShare(t)' = AcctShare(t)
        /\ SlotShare(t)' = SlotShare(t)
        /\ \A p \in Pools : PoolShare(p, t)' = PoolShare(p, t)
    BY <2>1, <2>2, TypeOK DEF owned, Pools
  <2>4. /\ TotalShare(t) \in Int /\ AcctShare(t) \in Int /\ SlotShare(t) \in Int
        /\ \A p \in Pools : PoolShare(p, t) \in Int
    BY TypeOK
  <2>5. /\ memCharged \in Int /\ acctCharged \in Int /\ liveIsolates \in Int
        /\ \A p \in Pools : poolCharged[p] \in Int
        /\ UNCHANGED <<memCharged, acctCharged, liveIsolates, poolCharged, embedder>>
    BY <2>1, TypeOK DEF counters
  <2>. HIDE DEF TypeOK, TotalShare, AcctShare, PoolShare, SlotShare
  <2>. QED
    BY <2>3, <2>4, <2>5
<1>16. CASE ReleaseIsolate(t)
  BY <1>16, <1>0, TypeOK, TypeOK' DEF ReleaseIsolate, Goto, Finish, setup, counters, owned, Pools, CallConsistent, EnvConsistent, ChargePhase, UnchargePhase, PoolOf
<1>17. CASE AcquireUncapped(t)
  BY <1>17, <1>0, TypeOK, TypeOK' DEF AcquireUncapped, Goto, setup, counters, owned, Pools, CallConsistent, EnvConsistent, ChargePhase, UnchargePhase, PoolOf
<1>18. CASE AcquireLoad(t)
  BY <1>18, <1>0, TypeOK, TypeOK' DEF AcquireLoad, Goto, setup, counters, owned, Pools, CallConsistent, EnvConsistent, ChargePhase, UnchargePhase, PoolOf
<1>19. CASE NearHeapLimit(t)
  BY <1>19, <1>0, TypeOK, TypeOK' DEF NearHeapLimit, Goto, BeginCharge, setup, counters, owned, Pools, CallConsistent, EnvConsistent, ChargePhase, UnchargePhase, PoolOf
<1>20. CASE ChargeExternal(t)
  BY <1>20, <1>0, TypeOK, TypeOK' DEF ChargeExternal, Goto, BeginCharge, setup, counters, owned, Pools, CallConsistent, EnvConsistent, ChargePhase, UnchargePhase, PoolOf
<1>21. CASE ChargeLinear(t)
  BY <1>21, <1>0, TypeOK, TypeOK' DEF ChargeLinear, Goto, BeginCharge, setup, counters, owned, Pools, CallConsistent, EnvConsistent, ChargePhase, UnchargePhase, PoolOf
<1>22. CASE ReleaseEnv(t)
  BY <1>22, <1>0, TypeOK, TypeOK' DEF ReleaseEnv, BeginUncharge, setup, counters, owned, Pools, CallConsistent, EnvConsistent, ChargePhase, UnchargePhase, PoolOf
<1>23. CASE UnchargeExternal(t)
  BY <1>23, <1>0, TypeOK, TypeOK' DEF UnchargeExternal, BeginUncharge, Smaller, setup, counters, owned, Pools, CallConsistent, EnvConsistent, ChargePhase, UnchargePhase, PoolOf
<1>24. CASE DropMemory(t)
  BY <1>24, <1>0, TypeOK, TypeOK' DEF DropMemory, BeginUncharge, setup, counters, owned, Pools, CallConsistent, EnvConsistent, ChargePhase, UnchargePhase, PoolOf
<1>25. CASE GrowFails(t)
  BY <1>25, <1>0, TypeOK, TypeOK' DEF GrowFails, Goto, setup, counters, owned, Pools, CallConsistent, EnvConsistent, ChargePhase, UnchargePhase, PoolOf
<1>. QED
  BY <1>1, <1>2, <1>3, <1>4, <1>5, <1>6, <1>7, <1>8, <1>9, <1>10, <1>11, <1>12, <1>13, <1>14, <1>15, <1>16, <1>17, <1>18, <1>19, <1>20, <1>21, <1>22, <1>23, <1>24, <1>25 DEF Continue, Begin

(* A step of a thread keeps its own call consistent. *)
LEMMA ThreadConsistent ==
  ASSUME TypeOK, TypeOK', CallsConsistent, NEW t \in Threads,
         Continue(t) \/ Begin(t)
  PROVE  CallConsistent(t)' /\ EnvConsistent(t)'
<1>. USE ConstantsAssumption DEF TypeOK, Ops, Op, NoOp, CallConsistent, EnvConsistent, ChargePhase,
             UnchargePhase, PoolOf
<1>0. CallConsistent(t) /\ EnvConsistent(t)
  BY DEF CallsConsistent
<1>1. CASE ChargeLoad(t)
  BY <1>1, <1>0, TypeOK, TypeOK' DEF ChargeLoad, Goto, Fits, setup, counters, owned, Fits, Fixed
<1>2. CASE ChargeCas(t)
  BY <1>2, <1>0, TypeOK, TypeOK' DEF ChargeCas, Goto, setup, counters, owned, Fits, Fixed
<1>3. CASE ChargeCasFails(t)
  BY <1>3, <1>0, TypeOK, TypeOK' DEF ChargeCasFails, Goto, Fits, setup, counters, owned, Fits, Fixed
<1>4. CASE ChargeAdd(t)
  BY <1>4, <1>0, TypeOK, TypeOK' DEF ChargeAdd, Goto, setup, counters, owned, Fits, Fixed
<1>5. CASE ChargeAccountant(t)
  BY <1>5, <1>0, TypeOK, TypeOK' DEF ChargeAccountant, Goto, setup, counters, owned, Fits, Fixed
<1>6. CASE ChargePool(t)
  BY <1>6, <1>0, TypeOK, TypeOK' DEF ChargePool, Goto, setup, counters, owned, Fits, Fixed
<1>7. CASE Charged(t)
  BY <1>7, <1>0, TypeOK, TypeOK' DEF Charged, Goto, Finish, setup, counters, owned, Fits, Fixed
<1>8. CASE Denied(t)
  BY <1>8, <1>0, TypeOK, TypeOK' DEF Denied, Goto, Finish, setup, counters, owned, Fits, Fixed
<1>9. CASE UnchargePool(t)
  BY <1>9, <1>0, TypeOK, TypeOK' DEF UnchargePool, Goto, setup, counters, owned, Fits, Fixed
<1>10. CASE UnchargeTotal(t)
  BY <1>10, <1>0, TypeOK, TypeOK' DEF UnchargeTotal, Goto, setup, counters, owned, Fits, Fixed
<1>11. CASE UnchargeAccountant(t)
  BY <1>11, <1>0, TypeOK, TypeOK' DEF UnchargeAccountant, Goto, setup, counters, owned, Fits, Fixed
<1>12. CASE Returned(t)
  BY <1>12, <1>0, TypeOK, TypeOK' DEF Returned, Goto, Finish, BeginUncharge, setup, counters, owned, Fits, Fixed
<1>13. CASE AcquireCas(t)
  BY <1>13, <1>0, TypeOK, TypeOK' DEF AcquireCas, Goto, setup, counters, owned, Fits, Fixed
<1>14. CASE AcquireCasFails(t)
  BY <1>14, <1>0, TypeOK, TypeOK' DEF AcquireCasFails, Goto, Finish, setup, counters, owned, Fits, Fixed
<1>15. CASE PlanHeap(t)
  BY <1>15, <1>0, TypeOK, TypeOK' DEF PlanHeap, Goto, Smaller, Fixed, MemoryRemaining, setup, counters, owned, Fits, Fixed
<1>16. CASE ReleaseIsolate(t)
  BY <1>16, <1>0, TypeOK, TypeOK' DEF ReleaseIsolate, Goto, Finish, setup, counters, owned, Fits, Fixed
<1>17. CASE AcquireUncapped(t)
  BY <1>17, <1>0, TypeOK, TypeOK' DEF AcquireUncapped, Goto, setup, counters, owned, Fits, Fixed
<1>18. CASE AcquireLoad(t)
  BY <1>18, <1>0, TypeOK, TypeOK' DEF AcquireLoad, Goto, setup, counters, owned, Fits, Fixed
<1>19. CASE NearHeapLimit(t)
  BY <1>19, <1>0, TypeOK, TypeOK' DEF NearHeapLimit, Goto, BeginCharge, setup, counters, owned, Fits, Fixed
<1>20. CASE ChargeExternal(t)
  BY <1>20, <1>0, TypeOK, TypeOK' DEF ChargeExternal, Goto, BeginCharge, setup, counters, owned, Fits, Fixed
<1>21. CASE ChargeLinear(t)
  BY <1>21, <1>0, TypeOK, TypeOK' DEF ChargeLinear, Goto, BeginCharge, setup, counters, owned, Fits, Fixed
<1>22. CASE ReleaseEnv(t)
  BY <1>22, <1>0, TypeOK, TypeOK' DEF ReleaseEnv, BeginUncharge, setup, counters, owned, Fits, Fixed
<1>23. CASE UnchargeExternal(t)
  BY <1>23, <1>0, TypeOK, TypeOK' DEF UnchargeExternal, BeginUncharge, Smaller, setup, counters, owned, Fits, Fixed
<1>24. CASE DropMemory(t)
  BY <1>24, <1>0, TypeOK, TypeOK' DEF DropMemory, BeginUncharge, setup, counters, owned, Fits, Fixed
<1>25. CASE GrowFails(t)
  BY <1>25, <1>0, TypeOK, TypeOK' DEF GrowFails, Goto, setup, counters, owned, Fits, Fixed
<1>. QED
  BY <1>1, <1>2, <1>3, <1>4, <1>5, <1>6, <1>7, <1>8, <1>9, <1>10, <1>11, <1>12, <1>13, <1>14, <1>15, <1>16, <1>17, <1>18, <1>19, <1>20, <1>21, <1>22, <1>23, <1>24, <1>25 DEF Continue, Begin

-----------------------------------------------------------------------------
(* The shares are natural numbers. *)
SharesOK ==
    /\ TotalShares \in [1..NThreads -> Nat]
    /\ AcctShares \in [1..NThreads -> Nat]
    /\ SlotShares \in [1..NThreads -> Nat]
    /\ \A p \in Pools : PoolShares(p) \in [1..NThreads -> Nat]

(* That follows from the types alone. *)
LEMMA SharesType == TypeOK => SharesOK
<1>. SUFFICES ASSUME TypeOK PROVE SharesOK
  OBVIOUS
<1>1. ASSUME NEW t \in Threads
      PROVE  /\ {ceiling[t], granted[t], external[t], linear[t]} \subseteq Nat
             /\ \A where : InFlight(t, where) \in Nat
  BY <1>1 DEF TypeOK, Ops, InFlight
<1>2. TotalShares \in [1..NThreads -> Nat]
  BY <1>1 DEF TotalShares, TotalShare, HeldTotal, Threads
<1>3. AcctShares \in [1..NThreads -> Nat]
  BY <1>1 DEF AcctShares, AcctShare, HeldTotal, Threads
<1>4. SlotShares \in [1..NThreads -> Nat]
  BY DEF SlotShares, SlotShare, Threads
<1>5. ASSUME NEW p \in Pools PROVE PoolShares(p) \in [1..NThreads -> Nat]
  <2>1. ASSUME NEW t \in Threads PROVE Held(p, t) \in Nat
    <3>1. CASE p = "V8HeapReserved"
      BY <1>1, <2>1, <3>1 DEF Held
    <3>2. CASE p = "V8External"
      BY <1>1, <2>1, <3>2 DEF Held
    <3>3. CASE p = "WasmLinear"
      BY <1>1, <2>1, <3>3 DEF Held
    <3>. QED
      BY <3>1, <3>2, <3>3 DEF Pools
  <2>2. ASSUME NEW t \in Threads PROVE PoolShare(p, t) \in Nat
    BY <1>1, <2>1, <2>2 DEF PoolShare
  <2>. QED
    BY <2>2 DEF PoolShares, Threads
<1>. QED
  BY <1>2, <1>3, <1>4, <1>5 DEF SharesOK

(* And so they are after a step. *)
LEMMA SharesTypeNext == TypeOK' => SharesOK'
BY SharesType, PTL

(* Sums of shares follow the counters through a step of one thread. *)
LEMMA SumsFollow ==
  ASSUME TypeOK, TypeOK', NEW t \in Threads, OthersKept(t), CountersFollow(t),
         TotalConserved, PoolsConserved, liveIsolates = Sum(SlotShares, NThreads)
  PROVE  /\ TotalConserved'
         /\ PoolsConserved'
         /\ (liveIsolates = Sum(SlotShares, NThreads))'
<1>0. NThreads \in Nat /\ t \in 1..NThreads
  BY ConstantsAssumption DEF Threads
<1>1. memCharged' = Sum(TotalShares', NThreads)
  <2>. DEFINE f == TotalShares
              g == TotalShares'
  <2>1. f \in [1..NThreads -> Int] /\ g \in [1..NThreads -> Int]
    <3>1. f \in [1..NThreads -> Nat] /\ g \in [1..NThreads -> Nat]
      BY SharesType, SharesTypeNext DEF SharesOK
    <3>. HIDE DEF f, g
    <3>. QED
      BY <3>1
  <2>2. \A i \in 1..NThreads : i # t => g[i] = f[i]
    BY DEF OthersKept, Threads, TotalShares, TotalShare, HeldTotal, InFlight
  <2>3. f[t] = TotalShare(t) /\ g[t] = TotalShare(t)'
    BY DEF TotalShares
  <2>. HIDE DEF f, g
  <2>4. Sum(g, NThreads) = Sum(f, NThreads) + g[t] - f[t]
    BY <1>0, <2>1, <2>2, SumUpdate
  <2>5. memCharged = Sum(f, NThreads) /\ memCharged \in Int /\ memCharged' \in Int
    BY DEF TotalConserved, TypeOK, f
  <2>6. f[t] \in Int /\ g[t] \in Int
    BY <1>0, <2>1
  <2>7. memCharged' - memCharged = g[t] - f[t]
    BY <2>3 DEF CountersFollow
  <2>8. memCharged' = Sum(g, NThreads)
    BY <2>4, <2>5, <2>6, <2>7
  <2>. QED
    BY <2>8 DEF g
<1>2. ASSUME mode' = "accountant"
      PROVE  acctCharged' = embedder' + Sum(AcctShares', NThreads)
  <2>. DEFINE f == AcctShares
              g == AcctShares'
  <2>0. mode = "accountant" /\ embedder' = embedder
    BY <1>2 DEF OthersKept, CountersFollow
  <2>1. f \in [1..NThreads -> Int] /\ g \in [1..NThreads -> Int]
    <3>1. f \in [1..NThreads -> Nat] /\ g \in [1..NThreads -> Nat]
      BY SharesType, SharesTypeNext DEF SharesOK
    <3>. HIDE DEF f, g
    <3>. QED
      BY <3>1
  <2>2. \A i \in 1..NThreads : i # t => g[i] = f[i]
    BY DEF OthersKept, Threads, AcctShares, AcctShare, HeldTotal, InFlight
  <2>3. f[t] = AcctShare(t) /\ g[t] = AcctShare(t)'
    BY DEF AcctShares
  <2>. HIDE DEF f, g
  <2>4. Sum(g, NThreads) = Sum(f, NThreads) + g[t] - f[t]
    BY <1>0, <2>1, <2>2, SumUpdate
  <2>5. /\ acctCharged = embedder + Sum(f, NThreads)
        /\ acctCharged \in Int /\ acctCharged' \in Int /\ embedder \in Int
    BY <2>0 DEF TotalConserved, TypeOK, f
  <2>6. f[t] \in Int /\ g[t] \in Int /\ Sum(f, NThreads) \in Int
    BY <1>0, <2>1, SumInt
  <2>7. acctCharged' - acctCharged = g[t] - f[t]
    BY <2>0, <2>3 DEF CountersFollow
  <2>8. acctCharged' = embedder + Sum(g, NThreads)
    BY <2>4, <2>5, <2>6, <2>7
  <2>. QED
    BY <2>0, <2>8 DEF g
<1>3. ASSUME NEW p \in Pools
      PROVE  poolCharged'[p] = Sum(PoolShares(p)', NThreads)
  <2>. DEFINE f == PoolShares(p)
              g == PoolShares(p)'
  <2>1. f \in [1..NThreads -> Int] /\ g \in [1..NThreads -> Int]
    <3>1. f \in [1..NThreads -> Nat] /\ g \in [1..NThreads -> Nat]
      BY SharesType, SharesTypeNext DEF SharesOK
    <3>. HIDE DEF f, g
    <3>. QED
      BY <3>1
  <2>2. \A i \in 1..NThreads : i # t => g[i] = f[i]
    BY DEF OthersKept, Threads, PoolShares, PoolShare, Held, InFlight, Pools
  <2>3. f[t] = PoolShare(p, t) /\ g[t] = PoolShare(p, t)'
    BY DEF PoolShares
  <2>. HIDE DEF f, g
  <2>4. Sum(g, NThreads) = Sum(f, NThreads) + g[t] - f[t]
    BY <1>0, <2>1, <2>2, SumUpdate
  <2>5. poolCharged[p] = Sum(f, NThreads) /\ poolCharged[p] \in Int /\ poolCharged'[p] \in Int
    BY DEF PoolsConserved, TypeOK, f
  <2>6. f[t] \in Int /\ g[t] \in Int
    BY <1>0, <2>1
  <2>7. poolCharged'[p] - poolCharged[p] = g[t] - f[t]
    BY <2>3 DEF CountersFollow
  <2>8. poolCharged'[p] = Sum(g, NThreads)
    BY <2>4, <2>5, <2>6, <2>7
  <2>. QED
    BY <2>8 DEF g
<1>4. liveIsolates' = Sum(SlotShares', NThreads)
  <2>. DEFINE f == SlotShares
              g == SlotShares'
  <2>1. f \in [1..NThreads -> Int] /\ g \in [1..NThreads -> Int]
    <3>1. f \in [1..NThreads -> Nat] /\ g \in [1..NThreads -> Nat]
      BY SharesType, SharesTypeNext DEF SharesOK
    <3>. HIDE DEF f, g
    <3>. QED
      BY <3>1
  <2>2. \A i \in 1..NThreads : i # t => g[i] = f[i]
    BY DEF OthersKept, Threads, SlotShares, SlotShare
  <2>3. f[t] = SlotShare(t) /\ g[t] = SlotShare(t)'
    BY DEF SlotShares
  <2>. HIDE DEF f, g
  <2>4. Sum(g, NThreads) = Sum(f, NThreads) + g[t] - f[t]
    BY <1>0, <2>1, <2>2, SumUpdate
  <2>5. liveIsolates = Sum(f, NThreads) /\ liveIsolates \in Int /\ liveIsolates' \in Int
    BY DEF TypeOK, f
  <2>6. f[t] \in Int /\ g[t] \in Int
    BY <1>0, <2>1
  <2>7. liveIsolates' - liveIsolates = g[t] - f[t]
    BY <2>3 DEF CountersFollow
  <2>8. liveIsolates' = Sum(g, NThreads)
    BY <2>4, <2>5, <2>6, <2>7
  <2>. QED
    BY <2>8 DEF g
<1>. QED
  BY <1>1, <1>2, <1>3, <1>4 DEF TotalConserved, PoolsConserved

(* A step of a thread keeps every limit. *)
LEMMA ThreadBounded ==
  ASSUME TypeOK, TypeOK', CallsConsistent, TotalBounded, NEW t \in Threads,
         capped => liveIsolates <= MaxEnvs, Continue(t) \/ Begin(t)
  PROVE  TotalBounded' /\ (capped => liveIsolates <= MaxEnvs)'
<1>. USE ConstantsAssumption DEF TypeOK, Ops, TotalBounded
<1>0. CallConsistent(t) /\ EnvConsistent(t)
  BY DEF CallsConsistent
<1>1. CASE ChargeLoad(t)
  BY <1>1, <1>0 DEF ChargeLoad, Goto, Fits, setup, counters, owned, CallConsistent, Fits
<1>2. CASE ChargeCas(t)
  BY <1>2, <1>0 DEF ChargeCas, Goto, setup, counters, owned, CallConsistent, Fits
<1>3. CASE ChargeCasFails(t)
  BY <1>3, <1>0 DEF ChargeCasFails, Goto, Fits, setup, counters, owned, CallConsistent, Fits
<1>4. CASE ChargeAdd(t)
  BY <1>4, <1>0 DEF ChargeAdd, Goto, setup, counters, owned, CallConsistent, Fits
<1>5. CASE ChargeAccountant(t)
  BY <1>5, <1>0 DEF ChargeAccountant, Goto, setup, counters, owned, CallConsistent, Fits
<1>6. CASE ChargePool(t)
  BY <1>6, <1>0 DEF ChargePool, Goto, setup, counters, owned, CallConsistent, Fits
<1>7. CASE Charged(t)
  BY <1>7, <1>0 DEF Charged, Goto, Finish, setup, counters, owned, CallConsistent, Fits
<1>8. CASE Denied(t)
  BY <1>8, <1>0 DEF Denied, Goto, Finish, setup, counters, owned, CallConsistent, Fits
<1>9. CASE UnchargePool(t)
  BY <1>9, <1>0 DEF UnchargePool, Goto, setup, counters, owned, CallConsistent, Fits
<1>10. CASE UnchargeTotal(t)
  BY <1>10, <1>0 DEF UnchargeTotal, Goto, setup, counters, owned, CallConsistent, Fits
<1>11. CASE UnchargeAccountant(t)
  BY <1>11, <1>0 DEF UnchargeAccountant, Goto, setup, counters, owned, CallConsistent, Fits
<1>12. CASE Returned(t)
  BY <1>12, <1>0 DEF Returned, Goto, Finish, BeginUncharge, setup, counters, owned, CallConsistent, Fits
<1>13. CASE AcquireCas(t)
  BY <1>13, <1>0 DEF AcquireCas, Goto, setup, counters, owned, CallConsistent, Fits
<1>14. CASE AcquireCasFails(t)
  BY <1>14, <1>0 DEF AcquireCasFails, Goto, Finish, setup, counters, owned, CallConsistent, Fits
<1>15. CASE PlanHeap(t)
  BY <1>15, <1>0 DEF PlanHeap, Goto, Smaller, Fixed, MemoryRemaining, setup, counters, owned, CallConsistent, Fits
<1>16. CASE ReleaseIsolate(t)
  BY <1>16, <1>0 DEF ReleaseIsolate, Goto, Finish, setup, counters, owned, CallConsistent, Fits
<1>17. CASE AcquireUncapped(t)
  BY <1>17, <1>0 DEF AcquireUncapped, Goto, setup, counters, owned, CallConsistent, Fits
<1>18. CASE AcquireLoad(t)
  BY <1>18, <1>0 DEF AcquireLoad, Goto, setup, counters, owned, CallConsistent, Fits
<1>19. CASE NearHeapLimit(t)
  BY <1>19, <1>0 DEF NearHeapLimit, Goto, BeginCharge, setup, counters, owned, CallConsistent, Fits
<1>20. CASE ChargeExternal(t)
  BY <1>20, <1>0 DEF ChargeExternal, Goto, BeginCharge, setup, counters, owned, CallConsistent, Fits
<1>21. CASE ChargeLinear(t)
  BY <1>21, <1>0 DEF ChargeLinear, Goto, BeginCharge, setup, counters, owned, CallConsistent, Fits
<1>22. CASE ReleaseEnv(t)
  BY <1>22, <1>0 DEF ReleaseEnv, BeginUncharge, setup, counters, owned, CallConsistent, Fits
<1>23. CASE UnchargeExternal(t)
  BY <1>23, <1>0 DEF UnchargeExternal, BeginUncharge, Smaller, setup, counters, owned, CallConsistent, Fits
<1>24. CASE DropMemory(t)
  BY <1>24, <1>0 DEF DropMemory, BeginUncharge, setup, counters, owned, CallConsistent, Fits
<1>25. CASE GrowFails(t)
  BY <1>25, <1>0 DEF GrowFails, Goto, setup, counters, owned, CallConsistent, Fits
<1>. QED
  BY <1>1, <1>2, <1>3, <1>4, <1>5, <1>6, <1>7, <1>8, <1>9, <1>10, <1>11, <1>12, <1>13, <1>14, <1>15, <1>16, <1>17, <1>18, <1>19, <1>20, <1>21, <1>22, <1>23, <1>24, <1>25 DEF Continue, Begin

(* Every thread's call stays consistent. *)
LEMMA AllConsistent ==
  ASSUME TypeOK, TypeOK', CallsConsistent, NEW t \in Threads, Continue(t) \/ Begin(t)
  PROVE  CallsConsistent'
<1>1. OthersKept(t)
  BY ThreadLocal
<1>2. CallConsistent(t)' /\ EnvConsistent(t)'
  BY ThreadConsistent
<1>3. ASSUME NEW i \in Threads, i # t PROVE CallConsistent(i)' /\ EnvConsistent(i)'
  <2>1. CallConsistent(i) /\ EnvConsistent(i)
    BY DEF CallsConsistent
  <2>. QED
    BY <2>1, <1>1, <1>3 DEF OthersKept, CallConsistent, EnvConsistent, ChargePhase,
       UnchargePhase, PoolOf, Fits, Fixed
<1>. QED
  BY <1>2, <1>3 DEF CallsConsistent

-----------------------------------------------------------------------------
(* The invariant holds initially. *)
LEMMA InvInit == Init => IInv
<1>. SUFFICES ASSUME Init PROVE IInv
  OBVIOUS
<1>. USE ConstantsAssumption
<1>1. TypeOK
  <2>1. NoOp \in Ops
    BY DEF Ops, Op, NoOp, Kinds, Pools
  <2>2. /\ op \in [Threads -> Ops] /\ pc \in [Threads -> Control]
        /\ seen \in [Threads -> Int] /\ poolCharged \in [Pools -> Int]
    BY <2>1 DEF Init, Control
  <2>3. /\ slot \in [Threads -> BOOLEAN] /\ slack \in [Threads -> BOOLEAN]
        /\ ceiling \in [Threads -> Nat] /\ granted \in [Threads -> Nat]
        /\ limit \in [Threads -> Nat]
        /\ external \in [Threads -> Nat] /\ linear \in [Threads -> Nat]
    BY DEF Init
  <2>4. mode \in Modes /\ capped \in BOOLEAN /\ hostStopped \in BOOLEAN
    BY DEF Init
  <2>5. /\ memCharged \in Int /\ liveIsolates \in Int
        /\ acctCharged \in Int /\ embedder \in Nat
    BY DEF Init
  <2>. QED
    BY <2>2, <2>3, <2>4, <2>5 DEF TypeOK
<1>2. CallsConsistent
  BY DEF Init, CallsConsistent, CallConsistent, EnvConsistent, ChargePhase,
     UnchargePhase, PoolOf, Fits, Fixed, NoOp, Op
<1>3. TotalBounded /\ (capped => liveIsolates <= MaxEnvs)
  BY DEF Init, TotalBounded
<1>4. /\ \A i \in 1..NThreads : TotalShares[i] = 0 /\ AcctShares[i] = 0 /\ SlotShares[i] = 0
      /\ \A p \in Pools : \A i \in 1..NThreads : PoolShares(p)[i] = 0
  BY DEF Init, TotalShares, TotalShare, AcctShares, AcctShare, SlotShares, SlotShare,
     PoolShares, PoolShare, Held, HeldTotal, InFlight, NoOp, Op, Threads, Pools
<1>5. /\ TotalShares \in [1..NThreads -> Int] /\ AcctShares \in [1..NThreads -> Int]
      /\ SlotShares \in [1..NThreads -> Int]
      /\ \A p \in Pools : PoolShares(p) \in [1..NThreads -> Int]
  <2>1. SharesOK
    BY <1>1, SharesType
  <2>. QED
    BY <2>1 DEF SharesOK
<1>6. /\ Sum(TotalShares, NThreads) = 0 /\ Sum(AcctShares, NThreads) = 0
      /\ Sum(SlotShares, NThreads) = 0
      /\ \A p \in Pools : Sum(PoolShares(p), NThreads) = 0
  BY <1>4, <1>5, SumZero
<1>. QED
  BY <1>1, <1>2, <1>3, <1>6 DEF IInv, Init, TotalConserved, PoolsConserved, IsolatesCounted

(* Every step keeps it. *)
LEMMA InvStep == IInv /\ [Next]_vars => IInv'
<1>. SUFFICES ASSUME IInv, [Next]_vars PROVE IInv'
  OBVIOUS
<1>. USE DEF IInv
<1>1. ASSUME NEW t \in Threads, Continue(t) \/ Begin(t) PROVE IInv'
  <2>1. TypeOK'
    BY <1>1, ThreadType
  <2>2. CallsConsistent'
    BY <1>1, <2>1, AllConsistent
  <2>3. OthersKept(t) /\ CountersFollow(t)
    BY <1>1, <2>1, ThreadLocal, ThreadCounters
  <2>4. TotalConserved' /\ PoolsConserved' /\ (liveIsolates = Sum(SlotShares, NThreads))'
    BY <2>1, <2>3, SumsFollow DEF IsolatesCounted
  <2>5. TotalBounded' /\ (capped => liveIsolates <= MaxEnvs)'
    BY <1>1, <2>1, ThreadBounded DEF IsolatesCounted
  <2>. QED
    BY <2>1, <2>2, <2>4, <2>5 DEF IsolatesCounted
<1>2. ASSUME EmbedderCharge \/ EmbedderUncharge PROVE IInv'
  <2>. USE <1>2, ConstantsAssumption DEF EmbedderCharge, EmbedderUncharge
  <2>0. /\ UNCHANGED <<setup, memCharged, poolCharged, liveIsolates, hostStopped,
                       pc, op, seen, slot, owned>>
        /\ acctCharged' - acctCharged = embedder' - embedder
        /\ embedder' \in Nat /\ acctCharged' \in Int
        /\ acctCharged' <= AcctLimit
    BY DEF TypeOK, TotalBounded
  <2>1. TypeOK'
    BY <2>0 DEF TypeOK, setup, owned
  <2>2. CallsConsistent'
    BY <2>0 DEF CallsConsistent, CallConsistent, EnvConsistent, Fits, setup, owned
  <2>3. /\ TotalShares' = TotalShares /\ AcctShares' = AcctShares /\ SlotShares' = SlotShares
        /\ \A p \in Pools : PoolShares(p)' = PoolShares(p)
    BY <2>0 DEF TotalShares, TotalShare, AcctShares, AcctShare, SlotShares, SlotShare,
       PoolShares, PoolShare, Held, HeldTotal, InFlight, owned
  <2>4. PoolsConserved' /\ IsolatesCounted'
    BY <2>0, <2>3 DEF PoolsConserved, IsolatesCounted, setup
  <2>5. TotalBounded'
    BY <2>0 DEF TotalBounded, setup
  <2>6. Sum(AcctShares, NThreads) \in Int
    <3>1. AcctShares \in [1..NThreads -> Int]
      BY SharesType DEF SharesOK
    <3>. QED
      BY <3>1, SumInt
  <2>7. TotalConserved'
    BY <2>0, <2>3, <2>6 DEF TotalConserved, TypeOK, setup
  <2>. QED
    BY <2>1, <2>2, <2>4, <2>5, <2>7
<1>3. CASE UNCHANGED vars
  <2>. USE <1>3 DEF vars, setup, counters, owned
  <2>1. TypeOK' /\ CallsConsistent' /\ TotalBounded'
    BY DEF TypeOK, CallsConsistent, CallConsistent, EnvConsistent, TotalBounded, Fits
  <2>2. /\ TotalShares' = TotalShares /\ AcctShares' = AcctShares /\ SlotShares' = SlotShares
        /\ \A p \in Pools : PoolShares(p)' = PoolShares(p)
    BY DEF TotalShares, TotalShare, AcctShares, AcctShare, SlotShares, SlotShare,
       PoolShares, PoolShare, Held, HeldTotal, InFlight
  <2>. QED
    BY <2>1, <2>2 DEF TotalConserved, PoolsConserved, IsolatesCounted
<1>. QED
  BY <1>1, <1>2, <1>3 DEF Next

(* The invariant in every reachable state. *)
THEOREM Invariance == Spec => []IInv
BY InvInit, InvStep, PTL DEF Spec

(* Types are kept by every operation of the accountant. *)
THEOREM TypeCorrect == Spec => []TypeOK
<1>1. IInv => TypeOK
  BY DEF IInv
<1>. QED
  BY Invariance, <1>1, PTL

(* No interleaving of try_charge calls exceeds the budget, whatever the    *)
(* number of threads and the sizes they charge.                            *)
THEOREM NeverOverBudget == Spec => []TotalBounded
<1>1. IInv => TotalBounded
  BY DEF IInv
<1>. QED
  BY Invariance, <1>1, PTL

(* mem_charged, and the accountant's total, are what the owners hold. *)
THEOREM TotalIsHeld == Spec => []TotalConserved
<1>1. IInv => TotalConserved
  BY DEF IInv
<1>. QED
  BY Invariance, <1>1, PTL

(* So is each pool counter. *)
THEOREM PoolsAreHeld == Spec => []PoolsConserved
<1>1. IInv => PoolsConserved
  BY DEF IInv
<1>. QED
  BY Invariance, <1>1, PTL

(* live_isolates counts the owned slots and respects max_envs. *)
THEOREM SlotsAreCounted == Spec => []IsolatesCounted
<1>1. IInv => IsolatesCounted
  BY DEF IInv
<1>. QED
  BY Invariance, <1>1, PTL

(* V8's heap limit stays within what was charged for the env. *)
THEOREM HeapIsCharged == Spec => []HeapWithinCharge
<1>1. IInv => HeapWithinCharge
  <2>. SUFFICES ASSUME IInv, NEW t \in Threads, mode # "unlimited", limit[t] > 0
                PROVE  limit[t] <= ceiling[t] + granted[t] - Overhead
    BY DEF HeapWithinCharge
  <2>1. CallConsistent(t) /\ EnvConsistent(t) /\ TypeOK
    BY DEF IInv, CallsConsistent
  <2>2. slot[t] /\ op[t].kind \in {"none", "grant", "external", "linear"}
    BY <2>1 DEF EnvConsistent, TypeOK, Ops, Kinds
  <2>. QED
    BY <2>1, <2>2, ConstantsAssumption DEF EnvConsistent, TypeOK
<1>. QED
  BY Invariance, <1>1, PTL

(* At every instant the pools add up to at most the total, and none of     *)
(* them is negative: no fetch_sub of uncharge wraps.                       *)
THEOREM PoolsBelowTotal == Spec => []PoolsWithinTotal
<1>1. IInv => PoolsWithinTotal
  <2>. SUFFICES ASSUME IInv PROVE PoolsWithinTotal
    OBVIOUS
  <2>. USE ConstantsAssumption DEF IInv
  <2>. DEFINE n == NThreads
              W == PoolShares("WasmLinear")
              H == PoolShares("V8HeapReserved")
              X == PoolShares("V8External")
              WH == [t \in 1..n |-> W[t] + H[t]]
              WHX == [t \in 1..n |-> WH[t] + X[t]]
              rest == [t \in 1..n |-> TotalShares[t] - WHX[t]]
  <2>1. /\ W \in [1..n -> Nat] /\ H \in [1..n -> Nat] /\ X \in [1..n -> Nat]
        /\ TotalShares \in [1..n -> Nat]
    BY SharesType DEF SharesOK, Pools
  <2>2. ASSUME NEW t \in 1..n PROVE WHX[t] <= TotalShares[t]
    <3>. DEFINE b == InFlight(t, {"charged", "unpool"})
                all == InFlight(t, {"pool", "charged", "unpool", "untotal"})
    <3>0. t \in Threads /\ ceiling[t] \in Nat /\ granted[t] \in Nat
          /\ external[t] \in Nat /\ linear[t] \in Nat /\ op[t] \in Ops
      BY <2>2 DEF Threads, TypeOK
    <3>1. b \in Nat /\ all \in Nat /\ b <= all
      BY <3>0 DEF InFlight, Ops
    <3>2. /\ W[t] = linear[t] + IF op[t].pool = "WasmLinear" THEN b ELSE 0
          /\ H[t] = ceiling[t] + granted[t]
                       + IF op[t].pool = "V8HeapReserved" THEN b ELSE 0
          /\ X[t] = external[t] + IF op[t].pool = "V8External" THEN b ELSE 0
      BY <3>0 DEF PoolShares, PoolShare, Held
    <3>3. TotalShares[t] = ceiling[t] + granted[t] + external[t] + linear[t] + all
      BY <3>0 DEF TotalShares, TotalShare, HeldTotal
    <3>4. WHX[t] = W[t] + H[t] + X[t]
      BY <2>2
    <3>. HIDE DEF b, all, W, H, X, WHX
    <3>. QED
      BY <3>0, <3>1, <3>2, <3>3, <3>4
  <2>3. /\ poolCharged["WasmLinear"] = Sum(W, n)
        /\ poolCharged["V8HeapReserved"] = Sum(H, n)
        /\ poolCharged["V8External"] = Sum(X, n)
        /\ memCharged = Sum(TotalShares, n)
    BY DEF PoolsConserved, TotalConserved, Pools
  <2>4. Sum(W, n) \in Nat /\ Sum(H, n) \in Nat /\ Sum(X, n) \in Nat
    <3>. HIDE DEF W, H, X
    <3>. QED
      BY <2>1, SumNat
  <2>5. Sum(WH, n) = Sum(W, n) + Sum(H, n)
    <3>1. W \in [1..n -> Int] /\ H \in [1..n -> Int]
      <4>. HIDE DEF W, H
      <4>. QED
        BY <2>1
    <3>2. /\ WH \in [1..n -> Int]
          /\ \A i \in 1..n : WH[i] = W[i] + H[i]
      <4>. HIDE DEF W, H
      <4>. QED
        BY <3>1
    <3>. HIDE DEF W, H, WH
    <3>. QED
      BY <3>1, <3>2, SumAdd
  <2>6. Sum(WHX, n) = Sum(WH, n) + Sum(X, n)
    <3>1. X \in [1..n -> Int] /\ WH \in [1..n -> Int]
      <4>. HIDE DEF X, W, H
      <4>1. X \in [1..n -> Int]
        BY <2>1
      <4>2. ASSUME NEW t \in 1..n PROVE W[t] + H[t] \in Int
        BY <2>1
      <4>. QED
        BY <4>1, <4>2
    <3>2. /\ WHX \in [1..n -> Int]
          /\ \A i \in 1..n : WHX[i] = WH[i] + X[i]
      <4>. HIDE DEF X, WH
      <4>. QED
        BY <3>1
    <3>. HIDE DEF X, WH, WHX
    <3>. QED
      BY <3>1, <3>2, SumAdd
  <2>7. Sum(TotalShares, n) = Sum(WHX, n) + Sum(rest, n) /\ Sum(rest, n) \in Nat
    <3>1. /\ WHX \in [1..n -> Int] /\ rest \in [1..n -> Nat]
          /\ TotalShares \in [1..n -> Int]
          /\ \A i \in 1..n : TotalShares[i] = WHX[i] + rest[i]
      <4>1. WHX \in [1..n -> Int]
        <5>1. W \in [1..n -> Int] /\ H \in [1..n -> Int] /\ X \in [1..n -> Int]
          <6>. HIDE DEF W, H, X
          <6>. QED
            BY <2>1
        <5>2. WH \in [1..n -> Int]
          <6>. HIDE DEF W, H, X
          <6>. QED
            BY <5>1
        <5>. HIDE DEF W, H, X, WH
        <5>. QED
          BY <5>1, <5>2
      <4>2. TotalShares \in [1..n -> Int]
        BY <2>1
      <4>3. ASSUME NEW i \in 1..n
            PROVE  rest[i] \in Nat /\ TotalShares[i] = WHX[i] + rest[i]
        <5>1. WHX[i] \in Int /\ TotalShares[i] \in Int /\ WHX[i] <= TotalShares[i]
          BY <4>1, <4>2, <2>2
        <5>2. rest[i] = TotalShares[i] - WHX[i]
          OBVIOUS
        <5>. HIDE DEF WHX, rest
        <5>. QED
          BY <5>1, <5>2
      <4>4. rest = [i \in 1..n |-> rest[i]]
        OBVIOUS
      <4>. HIDE DEF WHX, rest
      <4>. QED
        BY <4>1, <4>2, <4>3, <4>4
    <3>2. rest \in [1..n -> Int]
      BY <3>1
    <3>. HIDE DEF WHX, rest
    <3>. QED
      BY <3>1, <3>2, SumAdd, SumNat
  <2>. HIDE DEF n, W, H, X, WH, WHX, rest
  <2>8. /\ poolCharged["WasmLinear"] >= 0 /\ poolCharged["V8HeapReserved"] >= 0
        /\ poolCharged["V8External"] >= 0
        /\ poolCharged["WasmLinear"] + poolCharged["V8HeapReserved"]
             + poolCharged["V8External"] <= memCharged
    BY <2>3, <2>4, <2>5, <2>6, <2>7
  <2>. QED
    BY <2>8 DEF PoolsWithinTotal, Pools
<1>. QED
  BY Invariance, <1>1, PTL

(* The limits of the accountant hold together, for any number of threads,  *)
(* budget and charge sizes.                                                *)
THEOREM LimitsHold == Spec => []Limits
BY NeverOverBudget, PoolsBelowTotal, HeapIsCharged, PTL DEF Limits

(* The counters of the accountant are exact, whatever charges, releases    *)
(* and refused reservations are under way.                                 *)
THEOREM CountersExact == Spec => []Conservation
BY TotalIsHeld, PoolsAreHeld, SlotsAreCounted, PTL DEF Conservation
=============================================================================
