-------------------------- MODULE V8PlatformProofs --------------------------
(***************************************************************************)
(* The V8 platform's bookkeeping is right for any number of isolates made  *)
(* at one address, of threads that post and of tasks.  The inductive       *)
(* invariant says that the isolates' lives at the address do not overlap   *)
(* (OrderInv), which state the map holds (RegInv), which states are being  *)
(* shut down (ShutInv), what a state counts (CountInv), which waiter was   *)
(* called (CallInv), what a thread that posts may rely on (PostInv), whose *)
(* tasks the default platform holds (QueueInv), and which of them have a   *)
(* wake-up (WakeInv).                                                      *)
(***************************************************************************)
EXTENDS V8Platform, FiniteSetTheorems, TLAPS

\* Phases of an owner: the default platform has not been told of the
\* shutdown; nor has the platform; the platform has.
Early  == {"live", "cancelled", "cleared", "locked", "down"}
Before == Early \cup {"silenced"}
Begun  == {"begun", "finishing", "disposing", "disposed", "unregistered", "last",
           "waiting", "released"}

Queues == States \X Delays

Types ==
  /\ reg \in States \cup {None} /\ held \in [Isolates -> States \cup {None}]
  /\ pending \in [States -> Nat] /\ hookq \in [States -> Nat] /\ libq \in [Queues -> Nat]
  /\ shutdown \in [States -> BOOLEAN] /\ cb \in [States -> BOOLEAN] /\ used \in [States -> BOOLEAN]
  /\ fin \in [States -> {"no", "erase", "call", "done"}]
  /\ lib \in Nat /\ libs \in Nat /\ stray \in BOOLEAN
  /\ own \in [Isolates -> {"none"} \cup Before \cup Begun]
  /\ poster \in [Threads -> [pc : {"idle", "target", "count", "hand", "runner", "countlib", "post", "wake"},
                             s : States \cup {None}, delay : Delays, g : Nat]]
  /\ called \in [Isolates -> Nat]
  /\ wakeup \in BOOLEAN /\ terminated \in BOOLEAN

\* An isolate is made when the ones before it have left the address.
OrderInv ==
  \A i, j \in Isolates : i < j /\ own[j] # "none" => own[i] \in {"waiting", "released"}

\* The map holds the state of the isolate that lives, its first one until the
\* platform is told of the shutdown.
RegInv ==
  /\ \A i \in Isolates : own[i] \in Before => reg = Main(i)
  /\ reg # None => own[reg[1]] \in Using \cup {"disposed"}

\* Only the first state of an isolate is shut down and finishes.
ShutInv ==
  /\ \A i \in Isolates : own[i] \in {"down", "silenced"} \cup Begun => held[i] = Main(i)
  /\ \A s \in States : shutdown[s] => s = Main(s[1]) /\ own[s[1]] \in Begun
  /\ \A s \in States : fin[s] # "no" => shutdown[s]

\* Threads that have counted a task of state s and not handed it over.
Handing(s) == {t \in Threads : poster[t].s = s /\ poster[t].pc \in {"hand", "post"}}

\* A state that is not finished counts its tasks.
CountInv ==
  \A s \in States :
    /\ IsFiniteSet(Handing(s))
    /\ fin[s] = "no" =>
         pending[s] = hookq[s] + libq[<<s, "now">>] + libq[<<s, "later">>] + Cardinality(Handing(s))

\* A waiter is called when its isolate's state is done.
CallInv ==
  \A i \in Isolates : called[i] <= 1 /\ (called[i] = 1 => fin[Main(i)] = "done")

\* A thread posts to an isolate in use, to a second state of it only after
\* the first one is shut down.
PostOK(t) ==
  poster[t].pc # "idle" =>
    /\ poster[t].s \in States
    /\ own[poster[t].s[1]] \in Using
    /\ poster[t].s = Main(poster[t].s[1]) \/ own[poster[t].s[1]] \notin Before
    /\ poster[t].pc \in {"countlib", "post"} => poster[t].g # 0
    /\ poster[t].pc = "post" => used[poster[t].s]

PostInv == \A t \in Threads : PostOK(t)

\* What the default platform has queued.
QueueInv ==
  /\ \A s \in States, d \in Delays : libq[<<s, d>>] > 0 =>
       /\ lib # 0 /\ used[s] /\ own[s[1]] # "none"
       /\ s = Main(s[1]) \/ own[s[1]] \notin Before
       /\ stray \/ own[s[1]] \in Early
  /\ lib # 0 => stray \/ \E i \in Isolates : own[i] \in Early

WakeInv == NoLostWakeup

Inv == Types /\ OrderInv /\ RegInv /\ ShutInv /\ CountInv /\ CallInv /\ PostInv /\ QueueInv /\ WakeInv

-----------------------------------------------------------------------------
(* States, queues and phases.                                              *)

(* An isolate has two states; a state is one of some isolate. *)
LEMMA StateFacts ==
  /\ None \notin States
  /\ \A i \in Isolates : /\ Main(i) \in States /\ Late(i) \in States
                         /\ Main(i)[1] = i /\ Late(i)[1] = i /\ Main(i) # Late(i)
  /\ \A s \in States : s[1] \in Isolates /\ (s = Main(s[1]) \/ s = Late(s[1]))
  BY ConstantsAssumption DEF States, None, Main, Late, Isolates

(* A queue of the default platform is for the tasks of a state and a delay. *)
LEMMA QueueFacts ==
  /\ "now" \in Delays /\ "later" \in Delays
  /\ \A s \in States, d \in Delays : <<s, d>> \in Queues
  /\ \A q \in Queues : q[1] \in States /\ q[2] \in Delays /\ q = <<q[1], q[2]>>
  /\ \A s, u, d, e : <<s, d>> = <<u, e>> => s = u /\ d = e
  BY DEF Queues, Delays

\* The owner of isolate i goes on from one phase to another.
Moves(i, from, to) ==
  /\ own[i] = from /\ own'[i] = to
  /\ \A j \in Isolates : j # i => own'[j] = own[j]
  /\ own' \in [Isolates -> {"none"} \cup Before \cup Begun]

(* What Step does. *)
LEMMA StepMoves ==
  ASSUME Inv, NEW i \in Isolates, NEW from, NEW to \in Before \cup Begun, Step(i, from, to)
  PROVE  Moves(i, from, to)
  BY DEF Inv, Types, Step, Moves

(* One isolate at a time is between its creation and its last step. *)
LEMMA OneAtATime ==
  ASSUME Inv, NEW i \in Isolates, NEW j \in Isolates,
         own[i] \notin {"none", "waiting", "released"}, own[j] \notin {"none", "waiting", "released"}
  PROVE  i = j
<1>1. i \in Int /\ j \in Int
  BY ConstantsAssumption DEF Isolates
<1>2. ~ (i < j) /\ ~ (j < i)
  BY DEF Inv, OrderInv
<1>. QED BY <1>1, <1>2

(* Leaving the address is for good, and so is coming to it. *)
LEMMA OrderKept ==
  ASSUME Inv, NEW i \in Isolates, NEW from, NEW to, Moves(i, from, to), from # "none",
         from \in {"waiting", "released"} => to \in {"waiting", "released"}
  PROVE  OrderInv'
<1>. SUFFICES ASSUME NEW j \in Isolates, NEW k \in Isolates, j < k, own'[k] # "none"
              PROVE  own'[j] \in {"waiting", "released"}
  BY DEF OrderInv
<1>1. own[k] # "none"
  BY DEF Moves
<1>2. own[j] \in {"waiting", "released"}
  BY <1>1 DEF Inv, OrderInv
<1>. QED BY <1>2 DEF Moves

(* The map is the owner's as long as the isolate is in use. *)
LEMMA RegKept ==
  ASSUME Inv, NEW i \in Isolates, NEW from, NEW to, Moves(i, from, to), reg' = reg,
         to \in Before => from \in Before,
         from \in Using \cup {"disposed"} => to \in Using \cup {"disposed"}
  PROVE  RegInv'
<1>1. \A j \in Isolates : own'[j] \in Before => own[j] \in Before
  BY DEF Moves
<1>2. \A j \in Isolates : own[j] \in Using \cup {"disposed"} => own'[j] \in Using \cup {"disposed"}
  BY DEF Moves
<1>3. reg # None => reg[1] \in Isolates
  BY StateFacts DEF Inv, Types
<1>. QED BY <1>1, <1>2, <1>3 DEF Inv, RegInv

(* A shutdown is not undone. *)
LEMMA ShutKept ==
  ASSUME Inv, NEW i \in Isolates, NEW from, NEW to, Moves(i, from, to), UNCHANGED <<held, shutdown>>,
         from \in Begun => to \in Begun,
         to \in {"down", "silenced"} \cup Begun => from \in {"down", "silenced"} \cup Begun,
         \A s \in States : fin'[s] # "no" => shutdown[s]
  PROVE  ShutInv'
<1>1. \A j \in Isolates : own'[j] \in {"down", "silenced"} \cup Begun => own[j] \in {"down", "silenced"} \cup Begun
  BY DEF Moves
<1>2. \A s \in States : s[1] \in Isolates /\ (own[s[1]] \in Begun => own'[s[1]] \in Begun)
  BY StateFacts DEF Moves
<1>. QED BY <1>1, <1>2 DEF Inv, ShutInv

(* A state that is not touched, or finished, counts what it counted. *)
LEMMA CountSame ==
  ASSUME Inv, UNCHANGED <<pending, hookq, libq, poster>>, \A s \in States : fin'[s] = "no" => fin[s] = "no"
  PROVE  CountInv'
<1>1. \A s : Handing(s)' = Handing(s)
  BY DEF Handing
<1>. QED BY <1>1 DEF Inv, CountInv

(* What is done stays done. *)
LEMMA CallKept ==
  ASSUME Inv, called' = called, \A s \in States : fin[s] # "no" => fin'[s] = fin[s]
  PROVE  CallInv'
  BY StateFacts DEF Inv, CallInv

(* Threads post while the isolate is in use. *)
LEMMA PostKept ==
  ASSUME Inv, NEW i \in Isolates, NEW from, NEW to, Moves(i, from, to), UNCHANGED <<poster, used>>,
         to \in Before => from \in Before,
         from \in Using => to \in Using \/ (\A t \in Threads : poster[t].s[1] # i)
  PROVE  PostInv'
<1>. SUFFICES ASSUME NEW t \in Threads, poster[t].pc # "idle", NEW s \in States, s = poster[t].s
              PROVE  /\ own'[s[1]] \in Using
                     /\ s = Main(s[1]) \/ own'[s[1]] \notin Before
                     /\ poster[t].pc \in {"countlib", "post"} => poster[t].g # 0
                     /\ poster[t].pc = "post" => used[s]
  BY DEF Inv, PostInv, PostOK
<1>1. /\ own[s[1]] \in Using /\ (s = Main(s[1]) \/ own[s[1]] \notin Before)
      /\ poster[t].pc \in {"countlib", "post"} => poster[t].g # 0
      /\ poster[t].pc = "post" => used[s]
  BY DEF Inv, PostInv, PostOK
<1>2. s[1] \in Isolates
  BY StateFacts
<1>. QED BY <1>1, <1>2 DEF Moves

(* The default platform's tasks are of an isolate it was not told about. *)
LEMMA QueueKept ==
  ASSUME Inv, NEW i \in Isolates, NEW from, NEW to, Moves(i, from, to), UNCHANGED <<libq, lib, used, stray>>,
         from # "none" /\ to # "none",
         to \in Before => from \in Before,
         from \in Early => to \in Early
  PROVE  QueueInv'
<1>1. \A j \in Isolates : /\ own[j] # "none" => own'[j] # "none"
                          /\ own'[j] \in Before => own[j] \in Before
                          /\ own[j] \in Early => own'[j] \in Early
  BY DEF Moves
<1>2. \A s \in States : s[1] \in Isolates
  BY StateFacts
<1>3. \A s \in States, d \in Delays : libq'[<<s, d>>] > 0 =>
       /\ lib' # 0 /\ used'[s] /\ own'[s[1]] # "none"
       /\ s = Main(s[1]) \/ own'[s[1]] \notin Before
       /\ stray' \/ own'[s[1]] \in Early
  BY <1>1, <1>2 DEF Inv, QueueInv
<1>4. lib' # 0 => stray' \/ \E j \in Isolates : own'[j] \in Early
  BY <1>1 DEF Inv, QueueInv
<1>. QED BY <1>3, <1>4 DEF QueueInv

(* A step that queues nothing, brings no isolate to life and takes no
   wake-up. *)
LEMMA WakeKept ==
  ASSUME Inv, UNCHANGED <<libq, poster>>, wakeup => wakeup',
         \A i \in Isolates : own'[i] = "live" => own[i] = "live" /\ (terminated => terminated')
  PROVE  WakeInv'
  BY DEF Inv, WakeInv, NoLostWakeup

-----------------------------------------------------------------------------
(* Counting.                                                               *)

Pcs == {"idle", "target", "count", "hand", "runner", "countlib", "post", "wake"}
Posters == [pc : Pcs, s : States \cup {None}, delay : Delays, g : Nat]

\* Thread t alone goes on with its posting.
Posting(t) ==
  poster' \in [Threads -> Posters] /\ \A u \in Threads : u # t => poster'[u] = poster[u]

(* What At does. *)
LEMMA AtPosts ==
  ASSUME Inv, NEW t \in Threads, NEW from, NEW to \in Pcs, At(t, from, to)
  PROVE  /\ Posting(t) /\ poster[t].pc = from /\ poster'[t].pc = to
         /\ poster[t] \in Posters
         /\ to # "idle" => /\ poster'[t].s = poster[t].s /\ poster'[t].delay = poster[t].delay
                           /\ poster'[t].g = poster[t].g
         /\ to = "idle" => poster'[t].s = None
<1>1. poster \in [Threads -> Posters] /\ poster[t] \in Posters /\ poster[t].pc = from
  BY DEF Inv, Types, Posters, Pcs, At
<1>2. Idle \in Posters /\ Idle.pc = "idle" /\ Idle.s = None
  BY DEF Idle, Posters, Pcs, Delays
<1>3. CASE to = "idle"
  <2>1. poster' = [poster EXCEPT ![t] = Idle]
    BY <1>3 DEF At
  <2>. QED BY <1>1, <1>2, <1>3, <2>1 DEF Posting
<1>4. CASE to # "idle"
  <2>1. PICK p : p = [poster[t] EXCEPT !.pc = to]
    OBVIOUS
  <2>2. /\ p \in Posters /\ p.pc = to /\ p.s = poster[t].s /\ p.delay = poster[t].delay
        /\ p.g = poster[t].g
    BY <1>1, <2>1 DEF Posters
  <2>3. poster' = [poster EXCEPT ![t] = p]
    BY <1>4, <2>1 DEF At
  <2>. QED BY <1>1, <1>4, <2>2, <2>3 DEF Posting
<1>. QED BY <1>3, <1>4

\* Thread t is about to hand over a task of state s.
HandsOver(t, s) == poster[t].s = s /\ poster[t].pc \in {"hand", "post"}

(* Handing over one more task. *)
LEMMA HandingMore ==
  ASSUME Inv, NEW t \in Threads, NEW s \in States, Posting(t),
         ~ (poster[t].pc \in {"hand", "post"}), HandsOver(t, s)'
  PROVE  /\ \A x \in States : IsFiniteSet(Handing(x)')
         /\ Cardinality(Handing(s)') = Cardinality(Handing(s)) + 1
         /\ \A x \in States : x # s => Handing(x)' = Handing(x)
<1>1. Handing(s)' = Handing(s) \cup {t} /\ t \notin Handing(s)
  BY DEF Handing, HandsOver, Posting
<1>2. \A x \in States : x # s => Handing(x)' = Handing(x)
  BY DEF Handing, HandsOver, Posting
<1>3. \A x \in States : IsFiniteSet(Handing(x))
  BY DEF Inv, CountInv
<1>4. IsFiniteSet(Handing(s) \cup {t}) /\ Cardinality(Handing(s) \cup {t}) = Cardinality(Handing(s)) + 1
  BY <1>1, <1>3, FS_AddElement
<1>. QED BY <1>1, <1>2, <1>3, <1>4

(* A task is handed over. *)
LEMMA HandingLess ==
  ASSUME Inv, NEW t \in Threads, NEW s \in States, Posting(t),
         HandsOver(t, s), ~ (poster'[t].pc \in {"hand", "post"})
  PROVE  /\ \A x \in States : IsFiniteSet(Handing(x)')
         /\ Cardinality(Handing(s)') = Cardinality(Handing(s)) - 1 /\ Cardinality(Handing(s)') \in Nat
         /\ \A x \in States : x # s => Handing(x)' = Handing(x)
<1>1. Handing(s)' = Handing(s) \ {t} /\ t \in Handing(s)
  BY DEF Handing, HandsOver, Posting
<1>2. \A x \in States : x # s => Handing(x)' = Handing(x)
  BY DEF Handing, HandsOver, Posting
<1>3. \A x \in States : IsFiniteSet(Handing(x))
  BY DEF Inv, CountInv
<1>4. IsFiniteSet(Handing(s) \ {t}) /\ Cardinality(Handing(s) \ {t}) = Cardinality(Handing(s)) - 1
  BY <1>1, <1>3, FS_RemoveElement
<1>5. Cardinality(Handing(s) \ {t}) \in Nat
  BY <1>4, FS_CardinalityType
<1>. QED BY <1>1, <1>2, <1>3, <1>4, <1>5

(* A step of a thread that neither counts nor hands over. *)
LEMMA HandingSame ==
  ASSUME Inv, NEW t \in Threads, Posting(t),
         ~ (poster[t].pc \in {"hand", "post"}), ~ (poster'[t].pc \in {"hand", "post"})
  PROVE  \A x : Handing(x)' = Handing(x)
  BY DEF Handing, Posting

(* The numbers are numbers. *)
LEMMA CountTypes ==
  ASSUME Inv
  PROVE  /\ \A s \in States : /\ Cardinality(Handing(s)) \in Nat /\ IsFiniteSet(Handing(s))
                              /\ pending[s] \in Nat /\ hookq[s] \in Nat
         /\ \A s \in States, d \in Delays : libq[<<s, d>>] \in Nat
<1>1. \A s \in States : IsFiniteSet(Handing(s))
  BY DEF Inv, CountInv
<1>2. \A s \in States : Cardinality(Handing(s)) \in Nat
  BY <1>1, FS_CardinalityType
<1>. QED BY <1>1, <1>2, QueueFacts DEF Inv, Types

(* What Complete does: a state is finished only when it is shut down, and
   once. *)
LEMMA Completes ==
  ASSUME Inv, NEW n \in [States -> Nat], Complete(n)
  PROVE  /\ pending' \in [States -> Nat] /\ fin' \in [States -> {"no", "erase", "call", "done"}]
         /\ \A s \in States : fin[s] # "no" => fin'[s] = fin[s]
         /\ \A s \in States : fin'[s] # "no" => shutdown[s]
         /\ \A s \in States : n[s] <= pending[s] => pending'[s] = pending[s] - n[s]
<1>1. pending \in [States -> Nat] /\ fin \in [States -> {"no", "erase", "call", "done"}]
  BY DEF Inv, Types
<1>2. pending' = [s \in States |-> IF n[s] < pending[s] THEN pending[s] - n[s] ELSE 0]
  BY DEF Complete
<1>3. fin' = [s \in States |-> IF n[s] > 0 /\ fin[s] = "no" /\ shutdown[s] /\ pending[s] <= n[s]
                               THEN "erase" ELSE fin[s]]
  BY DEF Complete
<1>4. \A s \in States : fin[s] # "no" => shutdown[s]
  BY DEF Inv, ShutInv
<1>5. pending' \in [States -> Nat] /\ \A s \in States : n[s] <= pending[s] => pending'[s] = pending[s] - n[s]
  BY <1>1, <1>2
<1>. QED BY <1>1, <1>3, <1>4, <1>5

(* What Complete does for one task. *)
LEMMA CompletesOne ==
  ASSUME Inv, NEW s \in States, Complete(One(s))
  PROVE  /\ pending' \in [States -> Nat] /\ fin' \in [States -> {"no", "erase", "call", "done"}]
         /\ \A x \in States : fin[x] # "no" => fin'[x] = fin[x]
         /\ \A x \in States : fin'[x] # "no" => shutdown[x]
         /\ pending[s] > 0 => pending'[s] = pending[s] - 1
         /\ \A x \in States : x # s => pending'[x] = pending[x]
<1>1. One(s) \in [States -> Nat] /\ One(s)[s] = 1 /\ \A x \in States : x # s => One(s)[x] = 0
  BY DEF One
<1>2. \A x \in States : pending[x] \in Nat
  BY CountTypes
<1>3. PICK n \in [States -> Nat] : n = One(s)
  BY <1>1
<1>. QED BY <1>1, <1>2, <1>3, Completes

-----------------------------------------------------------------------------
(* Posting.                                                                *)

(* A step that is no owner's and moves no state. *)
LEMMA OwnersSame ==
  ASSUME Inv, UNCHANGED <<own, reg, held, shutdown, called>>,
         \A s \in States : fin[s] # "no" => fin'[s] = fin[s],
         \A s \in States : fin'[s] # "no" => shutdown[s]
  PROVE  OrderInv' /\ RegInv' /\ ShutInv' /\ CallInv'
<1>1. OrderInv' /\ RegInv'
  BY DEF Inv, OrderInv, RegInv
<1>2. ShutInv'
  BY DEF Inv, ShutInv
<1>. QED BY <1>1, <1>2, CallKept

(* The default platform is not used. *)
LEMMA QueueSame ==
  ASSUME Inv, UNCHANGED <<own, libq, lib, stray>>, \A s \in States : used[s] => used'[s]
  PROVE  QueueInv'
  BY DEF Inv, QueueInv

(* One thread's step leaves the others' posting alone. *)
LEMMA PostStep ==
  ASSUME Inv, NEW t \in Threads, Posting(t), own' = own, PostOK(t)',
         \A s \in States : used[s] => used'[s]
  PROVE  PostInv'
<1>. SUFFICES ASSUME NEW u \in Threads, u # t PROVE PostOK(u)'
  BY DEF PostInv
<1>1. PostOK(u) /\ poster'[u] = poster[u]
  BY DEF Inv, PostInv, Posting
<1>. QED BY <1>1 DEF PostOK

(* A thread that queues a task wakes the embedder next. *)
LEMMA WakeStep ==
  ASSUME Inv, NEW t \in Threads, Posting(t), UNCHANGED <<own, terminated>>, wakeup => wakeup',
         poster[t].pc = "wake" => wakeup',
         \A s \in States : libq'[<<s, "now">>] > 0 => libq[<<s, "now">>] > 0 \/ poster'[t].pc = "wake"
  PROVE  WakeInv'
<1>. SUFFICES ASSUME NEW i \in Isolates, own[i] = "live", ~ terminated, ~ wakeup',
                     NEW s \in {Main(i), Late(i)}, libq'[<<s, "now">>] > 0
              PROVE  \E u \in Threads : poster'[u].pc = "wake"
  BY DEF WakeInv, NoLostWakeup
<1>1. s \in States
  BY StateFacts
<1>2. CASE poster'[t].pc = "wake"
  BY <1>2
<1>3. CASE libq[<<s, "now">>] > 0
  <2>1. PICK u \in Threads : poster[u].pc = "wake"
    BY <1>3 DEF Inv, WakeInv, NoLostWakeup
  <2>. QED BY <2>1 DEF Posting
<1>. QED BY <1>1, <1>2, <1>3

(* A task is to be posted: to the state in the map, or to the first one. *)
LEMMA PostBeginKeeps ==
  ASSUME Inv, NEW t \in Threads, PostBegin(t)
  PROVE  Inv'
<1>. PICK i \in Isolates :
       own[i] \in Using /\ \E s \in {Main(i)} \cup ({reg} \cap {Late(i)}), d \in Delays :
         poster' = [poster EXCEPT ![t] = [pc |-> "target", s |-> s, delay |-> d, g |-> 0]]
  BY DEF PostBegin
<1>1. PICK s \in {Main(i)} \cup ({reg} \cap {Late(i)}), d \in Delays :
        poster' = [poster EXCEPT ![t] = [pc |-> "target", s |-> s, delay |-> d, g |-> 0]]
  OBVIOUS
<1>2. /\ poster[t].pc = "idle"
      /\ UNCHANGED <<pending, fin, reg, shutdown, cb, used, lib, libs, libq, hookq, wakeup, own, held,
                     terminated, called, stray>>
  BY DEF PostBegin, counts, state, runner, default, embedder, owners, aux
<1>3. s \in States /\ s[1] = i /\ (s = Main(i) \/ reg = Late(i))
  BY StateFacts
<1>4. Posting(t) /\ poster'[t] = [pc |-> "target", s |-> s, delay |-> d, g |-> 0]
  BY <1>1, <1>3 DEF Inv, Types, Posting, Posters, Pcs
<1>5. Types'
  BY <1>2, <1>4 DEF Inv, Types, Posting, Posters, Pcs
<1>6. OrderInv' /\ RegInv' /\ ShutInv' /\ CallInv'
  BY <1>2, OwnersSame DEF Inv, ShutInv
<1>7. CountInv'
  <2>1. poster'[t].pc = "target"
    BY <1>4
  <2>2. \A x : Handing(x)' = Handing(x)
    BY <1>2, <1>4, <2>1, HandingSame
  <2>. QED BY <1>2, <2>2 DEF Inv, CountInv
<1>8. PostInv'
  <2>1. s = Main(s[1]) \/ own[s[1]] \notin Before
    BY <1>3, StateFacts DEF Inv, RegInv
  <2>. QED BY <1>1, <1>2, <1>3, <1>4, <2>1, PostStep DEF PostOK
<1>9. QueueInv'
  BY <1>2, QueueSame
<1>10. WakeInv'
  BY <1>2, <1>4, WakeStep
<1>. QED BY <1>5, <1>6, <1>7, <1>8, <1>9, <1>10 DEF Inv

(* A thread finds a target or none. *)
LEMMA LoadTargetKeeps ==
  ASSUME Inv, NEW t \in Threads, LoadTarget(t)
  PROVE  Inv'
<1>1. PICK to \in {"count", "runner"} : At(t, "target", to)
  BY DEF LoadTarget
<1>2. UNCHANGED <<pending, fin, reg, shutdown, cb, used, lib, libs, libq, hookq, wakeup, own, held,
                  terminated, called, stray>>
  BY DEF LoadTarget, counts, state, runner, default, embedder, owners, aux
<1>3. Posting(t) /\ poster[t].pc = "target" /\ poster'[t].pc = to /\ poster'[t].s = poster[t].s
  BY <1>1, AtPosts DEF Pcs
<1>4. Types'
  BY <1>2, <1>3 DEF Inv, Types, Posting, Posters, Pcs
<1>5. OrderInv' /\ RegInv' /\ ShutInv' /\ CallInv'
  BY <1>2, OwnersSame DEF Inv, ShutInv
<1>6. CountInv'
  BY <1>2, <1>3, HandingSame DEF Inv, CountInv
<1>7. PostInv'
  BY <1>2, <1>3, PostStep DEF Inv, PostInv, PostOK
<1>8. QueueInv'
  BY <1>2, QueueSame
<1>9. WakeInv'
  BY <1>2, <1>3, WakeStep
<1>. QED BY <1>4, <1>5, <1>6, <1>7, <1>8, <1>9 DEF Inv

(* A thread counts its task: it hands it over next. *)
LEMMA CountsTask ==
  ASSUME Inv, NEW t \in Threads, NEW s \in States, Posting(t), AddPendingForegroundTask(s),
         ~ (poster[t].pc \in {"hand", "post"}), HandsOver(t, s)', UNCHANGED <<fin, hookq, libq>>
  PROVE  CountInv' /\ pending' \in [States -> Nat]
<1>1. pending' = [pending EXCEPT ![s] = IF fin[s] = "no" THEN @ + 1 ELSE @] /\ pending \in [States -> Nat]
  BY DEF AddPendingForegroundTask, Inv, Types
<1>2. /\ \A x \in States : IsFiniteSet(Handing(x)')
      /\ Cardinality(Handing(s)') = Cardinality(Handing(s)) + 1
      /\ \A x \in States : x # s => Handing(x)' = Handing(x)
  BY HandingMore
<1>3. ASSUME NEW x \in States, fin'[x] = "no"
      PROVE  pending'[x] = hookq'[x] + libq'[<<x, "now">>] + libq'[<<x, "later">>] + Cardinality(Handing(x)')
  <2>1. pending[x] = hookq[x] + libq[<<x, "now">>] + libq[<<x, "later">>] + Cardinality(Handing(x))
    BY <1>3 DEF Inv, CountInv
  <2>2. /\ pending[x] \in Nat /\ hookq[x] \in Nat /\ libq[<<x, "now">>] \in Nat
        /\ libq[<<x, "later">>] \in Nat /\ Cardinality(Handing(x)) \in Nat
    BY CountTypes, QueueFacts
  <2>3. CASE x = s
    BY <1>1, <1>2, <1>3, <2>1, <2>2, <2>3
  <2>4. CASE x # s
    BY <1>1, <1>2, <1>3, <2>1, <2>2, <2>4
  <2>. QED BY <2>3, <2>4
<1>4. pending' \in [States -> Nat]
  BY <1>1
<1>. QED BY <1>2, <1>3, <1>4 DEF CountInv

(* A task that is counted is handed over, dropped, run or cleaned up: one
   task of state s leaves a queue or a thread's hands, for another queue or
   for good. *)
LEMMA TaskLeaves ==
  ASSUME Inv, NEW s \in States,
         \A x \in States : IsFiniteSet(Handing(x)'),
         \A x \in States : x # s => Handing(x)' = Handing(x) /\ hookq'[x] = hookq[x]
                                    /\ libq'[<<x, "now">>] = libq[<<x, "now">>]
                                    /\ libq'[<<x, "later">>] = libq[<<x, "later">>],
         Complete(One(s)),
         Cardinality(Handing(s)') \in Nat, hookq'[s] \in Nat, libq'[<<s, "now">>] \in Nat,
         libq'[<<s, "later">>] \in Nat,
         hookq'[s] + libq'[<<s, "now">>] + libq'[<<s, "later">>] + Cardinality(Handing(s)') + 1
           = hookq[s] + libq[<<s, "now">>] + libq[<<s, "later">>] + Cardinality(Handing(s))
  PROVE  CountInv'
<1>1. /\ \A x \in States : fin'[x] = "no" => fin[x] = "no"
      /\ pending[s] > 0 => pending'[s] = pending[s] - 1
      /\ \A x \in States : x # s => pending'[x] = pending[x]
  BY CompletesOne
<1>2. ASSUME NEW x \in States, fin'[x] = "no"
      PROVE  pending'[x] = hookq'[x] + libq'[<<x, "now">>] + libq'[<<x, "later">>] + Cardinality(Handing(x)')
  <2>1. pending[x] = hookq[x] + libq[<<x, "now">>] + libq[<<x, "later">>] + Cardinality(Handing(x))
    BY <1>1, <1>2 DEF Inv, CountInv
  <2>2. CASE x = s
    <3>1. pending[s] > 0 /\ pending[s] - 1 = hookq'[s] + libq'[<<s, "now">>] + libq'[<<s, "later">>] + Cardinality(Handing(s)')
      BY <2>1, <2>2
    <3>. QED BY <1>1, <2>2, <3>1
  <2>3. CASE x # s
    BY <1>1, <2>1, <2>3
  <2>. QED BY <2>2, <2>3
<1>. QED BY <1>2 DEF CountInv

(* The hook's record is counted. *)
LEMMA CountHookKeeps ==
  ASSUME Inv, NEW t \in Threads, CountHook(t)
  PROVE  Inv'
<1>1. At(t, "count", "hand")
  BY DEF CountHook
<1>2. UNCHANGED <<fin, reg, shutdown, cb, used, lib, libs, libq, hookq, wakeup, own, held,
                  terminated, called, stray>>
  BY DEF CountHook, state, runner, default, embedder, owners, aux
<1>3. Posting(t) /\ poster[t].pc = "count" /\ poster'[t].pc = "hand" /\ poster'[t].s = poster[t].s
  BY <1>1, AtPosts DEF Pcs
<1>4. PICK s \in States : s = poster[t].s
  BY <1>3 DEF Inv, PostInv, PostOK
<1>5. CountInv' /\ pending' \in [States -> Nat]
  BY <1>2, <1>3, <1>4, CountsTask DEF CountHook, HandsOver
<1>6. Types'
  BY <1>2, <1>3, <1>5 DEF Inv, Types, Posting, Posters, Pcs
<1>7. OrderInv' /\ RegInv' /\ ShutInv' /\ CallInv'
  BY <1>2, OwnersSame DEF Inv, ShutInv
<1>8. PostInv'
  BY <1>2, <1>3, PostStep DEF Inv, PostInv, PostOK
<1>9. QueueInv'
  BY <1>2, QueueSame
<1>10. WakeInv'
  BY <1>2, <1>3, WakeStep
<1>. QED BY <1>5, <1>6, <1>7, <1>8, <1>9, <1>10 DEF Inv

(* The hook takes the record, or it is cleaned up. *)
LEMMA HandKeeps ==
  ASSUME Inv, NEW t \in Threads, Hand(t)
  PROVE  Inv'
<1>1. At(t, "hand", "idle")
  BY DEF Hand
<1>2. UNCHANGED <<reg, shutdown, cb, used, lib, libs, libq, wakeup, own, held, terminated, called, stray>>
  BY DEF Hand, state, runner, default, owners, aux
<1>3. Posting(t) /\ poster[t].pc = "hand" /\ poster'[t].pc = "idle"
  BY <1>1, AtPosts DEF Pcs
<1>4. PICK s \in States : s = poster[t].s
  BY <1>3 DEF Inv, PostInv, PostOK
<1>5. /\ \A x \in States : IsFiniteSet(Handing(x)')
      /\ Cardinality(Handing(s)') = Cardinality(Handing(s)) - 1 /\ Cardinality(Handing(s)') \in Nat
      /\ \A x \in States : x # s => Handing(x)' = Handing(x)
  BY <1>3, <1>4, HandingLess DEF HandsOver
<1>6. /\ pending[s] \in Nat /\ hookq[s] \in Nat /\ libq[<<s, "now">>] \in Nat
      /\ libq[<<s, "later">>] \in Nat /\ Cardinality(Handing(s)) \in Nat
      /\ \A x \in States : pending[x] \in Nat /\ hookq[x] \in Nat
  BY CountTypes, QueueFacts
<1>7. /\ CountInv' /\ pending' \in [States -> Nat] /\ hookq' \in [States -> Nat]
      /\ fin' \in [States -> {"no", "erase", "call", "done"}]
      /\ \A x \in States : fin[x] # "no" => fin'[x] = fin[x]
      /\ \A x \in States : fin'[x] # "no" => shutdown[x]
  <2>1. CASE hookq' = [hookq EXCEPT ![poster[t].s] = @ + 1] /\ UNCHANGED counts
    <3>1. /\ hookq'[s] = hookq[s] + 1 /\ (\A x \in States : x # s => hookq'[x] = hookq[x])
          /\ hookq' \in [States -> Nat] /\ pending' = pending /\ fin' = fin
      BY <1>4, <2>1 DEF Inv, Types, counts
    <3>2. ASSUME NEW x \in States, fin[x] = "no"
          PROVE  pending[x] = hookq'[x] + libq[<<x, "now">>] + libq[<<x, "later">>] + Cardinality(Handing(x)')
      <4>1. pending[x] = hookq[x] + libq[<<x, "now">>] + libq[<<x, "later">>] + Cardinality(Handing(x))
        BY <3>2 DEF Inv, CountInv
      <4>2. CASE x = s
        BY <1>5, <1>6, <3>1, <4>1, <4>2
      <4>3. CASE x # s
        BY <1>5, <3>1, <4>1, <4>3
      <4>. QED BY <4>2, <4>3
    <3>3. CountInv'
      BY <1>2, <1>5, <3>1, <3>2 DEF CountInv
    <3>. QED BY <3>1, <3>3 DEF Inv, Types, ShutInv
  <2>2. CASE Complete(One(poster[t].s)) /\ UNCHANGED hookq
    <3>1. Complete(One(s)) /\ hookq' = hookq
      BY <1>4, <2>2
    <3>2. CountInv'
      BY <1>2, <1>5, <1>6, <3>1, TaskLeaves
    <3>. QED BY <3>1, <3>2, CompletesOne DEF Inv, Types
  <2>. QED BY <2>1, <2>2 DEF Hand
<1>8. Types'
  BY <1>2, <1>3, <1>7 DEF Inv, Types, Posting, Posters, Pcs
<1>9. OrderInv' /\ RegInv' /\ ShutInv' /\ CallInv'
  BY <1>2, <1>7, OwnersSame
<1>10. PostInv'
  BY <1>2, <1>3, PostStep DEF PostOK
<1>11. QueueInv'
  BY <1>2, QueueSame
<1>12. WakeInv'
  BY <1>2, <1>3, WakeStep
<1>. QED BY <1>7, <1>8, <1>9, <1>10, <1>11, <1>12 DEF Inv

(* The default platform has a runner after EnsureLib; if it is a new one and
   not stray, the isolate was not being disposed of. *)
LEMMA EnsuresLib ==
  ASSUME Inv, NEW i \in Isolates, EnsureLib(i)
  PROVE  /\ lib' \in Nat \ {0} /\ libs' \in Nat /\ stray' \in BOOLEAN
         /\ stray => stray'
         /\ ~ stray' => lib # 0 \/ own[i] \notin Disposing
<1>1. lib \in Nat /\ libs \in Nat /\ stray \in BOOLEAN
  BY DEF Inv, Types
<1>2. lib' \in Nat \ {0} /\ libs' \in Nat
  BY <1>1 DEF EnsureLib
<1>3. stray' = (stray \/ (lib = 0 /\ own[i] \in Disposing))
  BY DEF EnsureLib
<1>. QED BY <1>1, <1>2, <1>3, Zenon

(* A runner of the default platform is looked up for a posting. *)
LEMMA GetFallbackKeeps ==
  ASSUME Inv, NEW t \in Threads, GetFallback(t)
  PROVE  Inv'
<1>1. UNCHANGED <<pending, fin, reg, shutdown, cb, used, libq, hookq, wakeup, own, held, terminated, called>>
  BY DEF GetFallback, counts, state, runner, embedder, owners
<1>2. poster[t].pc = "runner" /\ poster' = [poster EXCEPT ![t].pc = "countlib", ![t].g = lib']
  BY DEF GetFallback
<1>3. PICK s \in States : s = poster[t].s /\ own[s[1]] \in Using /\ s[1] \in Isolates
  BY <1>2, StateFacts DEF Inv, PostInv, PostOK
<1>4. EnsureLib(s[1])
  BY <1>3 DEF GetFallback
<1>5. /\ lib' \in Nat \ {0} /\ libs' \in Nat /\ stray' \in BOOLEAN /\ (stray => stray')
      /\ ~ stray' => lib # 0 \/ own[s[1]] \notin Disposing
  BY <1>3, <1>4, EnsuresLib
<1>6. /\ poster' \in [Threads -> Posters] /\ poster'[t].pc = "countlib" /\ poster'[t].s = s /\ poster'[t].g = lib'
      /\ \A u \in Threads : u # t => poster'[u] = poster[u]
  <2>1. PICK p : p = [[poster[t] EXCEPT !.pc = "countlib"] EXCEPT !.g = lib']
    OBVIOUS
  <2>2. poster \in [Threads -> Posters] /\ poster[t] \in Posters
    BY DEF Inv, Types, Posters, Pcs
  <2>3. p \in Posters /\ p.pc = "countlib" /\ p.s = s /\ p.g = lib'
    BY <1>3, <1>5, <2>1, <2>2 DEF Posters, Pcs
  <2>4. poster' = [poster EXCEPT ![t] = p]
    BY <1>2, <2>1, <2>2
  <2>. QED BY <2>2, <2>3, <2>4
<1>7. Posting(t)
  BY <1>6 DEF Posting
<1>8. Types'
  BY <1>1, <1>5, <1>6 DEF Inv, Types, Posters, Pcs
<1>9. OrderInv' /\ RegInv' /\ ShutInv' /\ CallInv'
  BY <1>1, OwnersSame DEF Inv, ShutInv
<1>10. CountInv'
  <2>1. \A x : Handing(x)' = Handing(x)
    BY <1>2, <1>6, <1>7, HandingSame
  <2>. QED BY <1>1, <2>1 DEF Inv, CountInv
<1>11. PostInv'
  BY <1>1, <1>2, <1>3, <1>5, <1>6, <1>7, PostStep DEF Inv, PostInv, PostOK
<1>12. QueueInv'
  <2>1. Using \ Disposing \subseteq Early
    BY DEF Using, Disposing, Early
  <2>2. stray' \/ \E j \in Isolates : own[j] \in Early
    BY <1>3, <1>5, <2>1 DEF Inv, QueueInv
  <2>. QED BY <1>1, <1>5, <2>2 DEF Inv, QueueInv
<1>13. WakeInv'
  BY <1>1, <1>2, <1>6, <1>7, WakeStep
<1>. QED BY <1>8, <1>9, <1>10, <1>11, <1>12, <1>13 DEF Inv

(* A task for the default platform is counted. *)
LEMMA CountFallbackKeeps ==
  ASSUME Inv, NEW t \in Threads, CountFallback(t)
  PROVE  Inv'
<1>1. At(t, "countlib", "post")
  BY DEF CountFallback
<1>2. UNCHANGED <<fin, reg, shutdown, cb, lib, libs, libq, hookq, wakeup, own, held,
                  terminated, called, stray>>
  BY DEF CountFallback, state, default, embedder, owners, aux
<1>3. /\ Posting(t) /\ poster[t].pc = "countlib" /\ poster'[t].pc = "post"
      /\ poster'[t].s = poster[t].s /\ poster'[t].g = poster[t].g
  BY <1>1, AtPosts DEF Pcs
<1>4. PICK s \in States : s = poster[t].s
  BY <1>3 DEF Inv, PostInv, PostOK
<1>5. used' \in [States -> BOOLEAN] /\ used'[s] /\ \A x \in States : used[x] => used'[x]
  <2>1. used' = [used EXCEPT ![s] = TRUE] /\ used \in [States -> BOOLEAN]
    BY <1>4 DEF CountFallback, Inv, Types
  <2>. QED BY <2>1
<1>6. CountInv' /\ pending' \in [States -> Nat]
  BY <1>2, <1>3, <1>4, CountsTask DEF CountFallback, HandsOver
<1>7. Types'
  BY <1>2, <1>3, <1>5, <1>6 DEF Inv, Types, Posting, Posters, Pcs
<1>8. OrderInv' /\ RegInv' /\ ShutInv' /\ CallInv'
  BY <1>2, OwnersSame DEF Inv, ShutInv
<1>9. PostInv'
  BY <1>2, <1>3, <1>4, <1>5, PostStep DEF Inv, PostInv, PostOK
<1>10. QueueInv'
  BY <1>2, <1>5, QueueSame
<1>11. WakeInv'
  BY <1>2, <1>3, WakeStep
<1>. QED BY <1>6, <1>7, <1>8, <1>9, <1>10, <1>11 DEF Inv

(* A task more in one of the default platform's queues. *)
LEMMA QueueMore ==
  ASSUME Inv, NEW s \in States, NEW d \in Delays, libq' = [libq EXCEPT ![<<s, d>>] = @ + 1]
  PROVE  /\ libq' \in [Queues -> Nat]
         /\ \A x \in States, e \in Delays : <<x, e>> # <<s, d>> => libq'[<<x, e>>] = libq[<<x, e>>]
         /\ libq'[<<s, d>>] = libq[<<s, d>>] + 1
         /\ libq'[<<s, "now">>] + libq'[<<s, "later">>] = libq[<<s, "now">>] + libq[<<s, "later">>] + 1
<1>1. libq \in [Queues -> Nat] /\ <<s, d>> \in Queues
  BY QueueFacts DEF Inv, Types
<1>2. \A x \in States, e \in Delays : <<x, e>> \in Queues
  BY QueueFacts
<1>3. /\ libq' \in [Queues -> Nat] /\ libq'[<<s, d>>] = libq[<<s, d>>] + 1
      /\ \A x \in States, e \in Delays : <<x, e>> # <<s, d>> => libq'[<<x, e>>] = libq[<<x, e>>]
  BY <1>1, <1>2
<1>4. libq[<<s, "now">>] \in Nat /\ libq[<<s, "later">>] \in Nat
  BY CountTypes, QueueFacts
<1>5. CASE d = "now"
  <2>1. <<s, "later">> # <<s, d>>
    BY <1>5
  <2>. QED BY <1>3, <1>4, <1>5, <2>1, QueueFacts
<1>6. CASE d = "later"
  <2>1. <<s, "now">> # <<s, d>>
    BY <1>6
  <2>. QED BY <1>3, <1>4, <1>6, <2>1, QueueFacts
<1>. QED BY <1>3, <1>5, <1>6 DEF Delays

(* The default platform queues the task, for the isolate it has a runner
   for, or drops it. *)
LEMMA PostFallbackKeeps ==
  ASSUME Inv, NEW t \in Threads, PostFallback(t)
  PROVE  Inv'
<1>1. PICK to \in {"wake", "idle"} : At(t, "post", to) /\ (poster[t].delay = "now" => to = "wake")
  BY DEF PostFallback
<1>2. UNCHANGED <<reg, shutdown, cb, used, lib, libs, hookq, wakeup, own, held, terminated, called, stray>>
  BY DEF PostFallback, state, runner, embedder, owners, aux
<1>3. /\ Posting(t) /\ poster[t].pc = "post" /\ poster'[t].pc = to
      /\ poster[t].delay \in Delays /\ (to = "wake" => poster'[t].s = poster[t].s)
  BY <1>1, AtPosts DEF Pcs, Posters
<1>4. PICK s \in States : /\ s = poster[t].s /\ s[1] \in Isolates /\ own[s[1]] \in Using /\ used[s]
                          /\ s = Main(s[1]) \/ own[s[1]] \notin Before
                          /\ poster[t].g # 0
  BY <1>3, StateFacts DEF Inv, PostInv, PostOK
<1>5. PICK d \in Delays : d = poster[t].delay
  BY <1>3
<1>6. /\ \A x \in States : IsFiniteSet(Handing(x)')
      /\ Cardinality(Handing(s)') = Cardinality(Handing(s)) - 1 /\ Cardinality(Handing(s)') \in Nat
      /\ \A x \in States : x # s => Handing(x)' = Handing(x)
  BY <1>1, <1>3, <1>4, HandingLess DEF HandsOver
<1>7. /\ pending[s] \in Nat /\ hookq[s] \in Nat /\ libq[<<s, "now">>] \in Nat
      /\ libq[<<s, "later">>] \in Nat /\ Cardinality(Handing(s)) \in Nat
  BY CountTypes, QueueFacts
<1>8. PostInv'
  BY <1>1, <1>2, <1>3, <1>4, PostStep DEF PostOK
<1>9. CASE poster[t].g = lib
  <2>1. libq' = [libq EXCEPT ![<<s, d>>] = @ + 1] /\ UNCHANGED <<pending, fin>>
    BY <1>4, <1>5, <1>9 DEF PostFallback, counts
  <2>2. /\ libq' \in [Queues -> Nat]
        /\ \A x \in States, e \in Delays : <<x, e>> # <<s, d>> => libq'[<<x, e>>] = libq[<<x, e>>]
        /\ libq'[<<s, "now">>] + libq'[<<s, "later">>] = libq[<<s, "now">>] + libq[<<s, "later">>] + 1
    BY <2>1, QueueMore
  <2>3. \A x \in States, e \in Delays : x # s => libq'[<<x, e>>] = libq[<<x, e>>]
    BY <2>2, QueueFacts
  <2>4. Types'
    BY <1>2, <1>3, <2>1, <2>2 DEF Inv, Types, Posting, Posters, Pcs
  <2>5. OrderInv' /\ RegInv' /\ ShutInv' /\ CallInv'
    BY <1>2, <2>1, OwnersSame DEF Inv, ShutInv
  <2>6. CountInv'
    <3>1. ASSUME NEW x \in States, fin[x] = "no"
          PROVE  pending[x] = hookq[x] + libq'[<<x, "now">>] + libq'[<<x, "later">>] + Cardinality(Handing(x)')
      <4>1. pending[x] = hookq[x] + libq[<<x, "now">>] + libq[<<x, "later">>] + Cardinality(Handing(x))
        BY <3>1 DEF Inv, CountInv
      <4>2. CASE x = s
        <5>1. libq'[<<s, "now">>] \in Nat /\ libq'[<<s, "later">>] \in Nat
          BY <2>2, QueueFacts
        <5>. QED BY <1>6, <1>7, <2>2, <4>1, <4>2, <5>1
      <4>3. CASE x # s
        BY <1>6, <2>3, <4>1, <4>3, QueueFacts
      <4>. QED BY <4>2, <4>3
    <3>. QED BY <1>2, <1>6, <2>1, <3>1 DEF CountInv
  <2>7. QueueInv'
    <3>1. lib # 0
      BY <1>4, <1>9
    <3>2. stray \/ own[s[1]] \in Early
      <4>. SUFFICES ASSUME ~ stray PROVE own[s[1]] \in Early
        OBVIOUS
      <4>1. PICK i \in Isolates : own[i] \in Early
        BY <3>1 DEF Inv, QueueInv
      <4>2. i = s[1]
        BY <1>4, <4>1, OneAtATime DEF Early, Using
      <4>. QED BY <4>1, <4>2
    <3>3. own[s[1]] # "none"
      BY <1>4 DEF Using
    <3>4. \A x \in States, e \in Delays : libq'[<<x, e>>] > 0 => libq[<<x, e>>] > 0 \/ x = s
      BY <2>3
    <3>. QED BY <1>2, <1>4, <3>1, <3>2, <3>3, <3>4 DEF Inv, QueueInv
  <2>8. WakeInv'
    <3>1. \A x \in States : libq'[<<x, "now">>] > 0 => libq[<<x, "now">>] > 0 \/ poster'[t].pc = "wake"
      <4>. SUFFICES ASSUME NEW x \in States, to # "wake" PROVE libq'[<<x, "now">>] = libq[<<x, "now">>]
        BY <1>3
      <4>1. <<x, "now">> # <<s, d>>
        BY <1>1, <1>5
      <4>. QED BY <2>2, <4>1, QueueFacts
    <3>. QED BY <1>2, <1>3, <3>1, WakeStep
  <2>. QED BY <1>8, <2>4, <2>5, <2>6, <2>7, <2>8 DEF Inv
<1>10. CASE poster[t].g # lib
  <2>1. Complete(One(s)) /\ libq' = libq
    BY <1>4, <1>10 DEF PostFallback
  <2>2. /\ pending' \in [States -> Nat] /\ fin' \in [States -> {"no", "erase", "call", "done"}]
        /\ \A x \in States : fin[x] # "no" => fin'[x] = fin[x]
        /\ \A x \in States : fin'[x] # "no" => shutdown[x]
    BY <2>1, CompletesOne
  <2>3. Types'
    BY <1>2, <1>3, <2>1, <2>2 DEF Inv, Types, Posting, Posters, Pcs
  <2>4. OrderInv' /\ RegInv' /\ ShutInv' /\ CallInv'
    BY <1>2, <2>2, OwnersSame
  <2>5. CountInv'
    BY <1>2, <1>6, <1>7, <2>1, TaskLeaves
  <2>6. QueueInv' /\ WakeInv'
    BY <1>2, <1>3, <2>1, QueueSame, WakeStep
  <2>. QED BY <1>8, <2>3, <2>4, <2>5, <2>6 DEF Inv
<1>. QED BY <1>9, <1>10

(* The embedder is woken. *)
LEMMA WakeForForegroundTaskKeeps ==
  ASSUME Inv, NEW t \in Threads, WakeForForegroundTask(t)
  PROVE  Inv'
<1>1. At(t, "wake", "idle") /\ wakeup' = TRUE
  BY DEF WakeForForegroundTask
<1>2. UNCHANGED <<pending, fin, reg, shutdown, cb, used, lib, libs, libq, hookq, own, held,
                  terminated, called, stray>>
  BY DEF WakeForForegroundTask, counts, state, runner, default, owners, aux
<1>3. Posting(t) /\ poster[t].pc = "wake" /\ poster'[t].pc = "idle"
  BY <1>1, AtPosts DEF Pcs
<1>4. Types'
  BY <1>1, <1>2, <1>3 DEF Inv, Types, Posting, Posters, Pcs
<1>5. OrderInv' /\ RegInv' /\ ShutInv' /\ CallInv'
  BY <1>2, OwnersSame DEF Inv, ShutInv
<1>6. CountInv'
  BY <1>2, <1>3, HandingSame DEF Inv, CountInv
<1>7. PostInv'
  BY <1>2, <1>3, PostStep DEF PostOK
<1>8. QueueInv' /\ WakeInv'
  BY <1>1, <1>2, <1>3, QueueSame, WakeStep
<1>. QED BY <1>4, <1>5, <1>6, <1>7, <1>8 DEF Inv

-----------------------------------------------------------------------------
(* Finishing a state, and the embedder.                                    *)

(* A step that posts, queues and takes nothing. *)
LEMMA ThreadsSame ==
  ASSUME Inv, UNCHANGED <<own, poster, used, libq, lib, stray, terminated>>, wakeup => wakeup'
  PROVE  PostInv' /\ QueueInv' /\ WakeInv'
<1>1. PostInv'
  BY DEF Inv, PostInv, PostOK
<1>. QED BY <1>1, QueueSame, WakeKept

(* A state that is finished leaves the map; the isolate in use has not been
   shut down. *)
LEMMA EraseKeeps ==
  ASSUME Inv, NEW s \in States, Erase(s)
  PROVE  Inv'
<1>1. UNCHANGED <<pending, shutdown, cb, used, lib, libs, libq, hookq, wakeup, own, held, terminated,
                  poster, called, stray>>
  BY DEF Erase, runner, default, embedder, owners, posters, aux
<1>2. fin[s] = "erase" /\ fin' = [fin EXCEPT ![s] = "call"] /\ reg' = IF reg = s THEN None ELSE reg
  BY DEF Erase
<1>3. /\ fin' \in [States -> {"no", "erase", "call", "done"}] /\ fin'[s] = "call"
      /\ \A x \in States : x # s => fin'[x] = fin[x]
  BY <1>2 DEF Inv, Types
<1>4. shutdown[s] /\ own[s[1]] \in Begun
  BY <1>2 DEF Inv, ShutInv
<1>5. Types'
  BY <1>1, <1>2, <1>3 DEF Inv, Types
<1>6. OrderInv'
  BY <1>1 DEF Inv, OrderInv
<1>7. RegInv'
  <2>1. ASSUME NEW i \in Isolates, own[i] \in Before PROVE reg' = Main(i)
    <3>1. Before \cap Begun = {}
      BY DEF Before, Early, Begun
    <3>2. Main(i) # s
      BY <1>4, <2>1, <3>1, StateFacts
    <3>. QED BY <1>2, <2>1, <3>2 DEF Inv, RegInv
  <2>. QED BY <1>1, <1>2, <2>1 DEF Inv, RegInv
<1>8. ShutInv'
  BY <1>1, <1>3, <1>4 DEF Inv, ShutInv
<1>9. CountInv'
  BY <1>1, <1>2, <1>3, CountSame
<1>10. CallInv'
  BY <1>1, <1>2, <1>3, StateFacts DEF Inv, CallInv
<1>11. PostInv' /\ QueueInv' /\ WakeInv'
  BY <1>1, ThreadsSame
<1>. QED BY <1>5, <1>6, <1>7, <1>8, <1>9, <1>10, <1>11 DEF Inv

(* The waiter is called by the state that is finished, which is the first
   one of its isolate. *)
LEMMA CallFinishedKeeps ==
  ASSUME Inv, NEW s \in States, CallFinished(s)
  PROVE  Inv'
<1>1. UNCHANGED <<pending, reg, shutdown, cb, used, lib, libs, libq, hookq, wakeup, own, held, terminated,
                  poster, stray>>
  BY DEF CallFinished, state, runner, default, embedder, owners, posters
<1>2. fin[s] = "call" /\ fin' = [fin EXCEPT ![s] = "done"]
  BY DEF CallFinished
<1>3. /\ fin' \in [States -> {"no", "erase", "call", "done"}] /\ fin'[s] = "done"
      /\ \A x \in States : x # s => fin'[x] = fin[x]
  BY <1>2 DEF Inv, Types
<1>4. PICK i \in Isolates : i = s[1] /\ s = Main(i) /\ shutdown[s]
  BY <1>2, StateFacts DEF Inv, ShutInv
<1>5. called[i] = 0 /\ called \in [Isolates -> Nat]
  <2>1. called[i] # 1 /\ called[i] <= 1 /\ called[i] \in Nat /\ called \in [Isolates -> Nat]
    BY <1>2, <1>4 DEF Inv, CallInv, Types
  <2>. QED BY <2>1
<1>6. /\ called' \in [Isolates -> Nat] /\ called'[i] <= 1
      /\ \A j \in Isolates : j # i => called'[j] = called[j]
  <2>1. called' = [called EXCEPT ![i] = IF cb[s] THEN @ + 1 ELSE @]
    BY <1>4 DEF CallFinished
  <2>2. PICK n \in {0, 1} : n = IF cb[s] THEN called[i] + 1 ELSE called[i]
    BY <1>5
  <2>3. called' = [called EXCEPT ![i] = n]
    BY <2>1, <2>2
  <2>. QED BY <1>5, <2>3
<1>7. Types'
  BY <1>1, <1>3, <1>6 DEF Inv, Types
<1>8. OrderInv' /\ RegInv'
  BY <1>1 DEF Inv, OrderInv, RegInv
<1>9. ShutInv'
  BY <1>1, <1>3, <1>4 DEF Inv, ShutInv
<1>10. CountInv'
  BY <1>1, <1>2, <1>3, CountSame
<1>11. CallInv'
  <2>1. \A j \in Isolates : j # i => Main(j) # s /\ Main(j) \in States
    BY <1>4, StateFacts
  <2>. QED BY <1>3, <1>4, <1>6, <2>1 DEF Inv, CallInv
<1>12. PostInv' /\ QueueInv' /\ WakeInv'
  BY <1>1, ThreadsSame
<1>. QED BY <1>7, <1>8, <1>9, <1>10, <1>11, <1>12 DEF Inv

(* The hook is done with a record. *)
LEMMA HookCleanupKeeps ==
  ASSUME Inv, NEW s \in States, HookCleanup(s)
  PROVE  Inv'
<1>1. UNCHANGED <<reg, shutdown, cb, used, lib, libs, libq, wakeup, own, held, terminated,
                  poster, called, stray>>
  BY DEF HookCleanup, state, runner, default, owners, posters, aux
<1>2. hookq[s] > 0 /\ hookq' = [hookq EXCEPT ![s] = @ - 1] /\ Complete(One(s))
  BY DEF HookCleanup
<1>3. /\ hookq' \in [States -> Nat] /\ hookq'[s] = hookq[s] - 1
      /\ \A x \in States : x # s => hookq'[x] = hookq[x]
  BY <1>2 DEF Inv, Types
<1>4. /\ pending' \in [States -> Nat] /\ fin' \in [States -> {"no", "erase", "call", "done"}]
      /\ \A x \in States : fin[x] # "no" => fin'[x] = fin[x]
      /\ \A x \in States : fin'[x] # "no" => shutdown[x]
  BY <1>2, CompletesOne
<1>5. Types'
  BY <1>1, <1>3, <1>4 DEF Inv, Types
<1>6. OrderInv' /\ RegInv' /\ ShutInv' /\ CallInv'
  BY <1>1, <1>4, OwnersSame
<1>7. CountInv'
  <2>1. \A x : Handing(x)' = Handing(x)
    BY <1>1 DEF Handing
  <2>2. /\ hookq[s] \in Nat /\ libq[<<s, "now">>] \in Nat /\ libq[<<s, "later">>] \in Nat
        /\ Cardinality(Handing(s)) \in Nat /\ \A x \in States : IsFiniteSet(Handing(x))
    BY CountTypes, QueueFacts
  <2>3. hookq'[s] \in Nat
    BY <1>3
  <2>. QED BY <1>1, <1>2, <1>3, <2>1, <2>2, <2>3, TaskLeaves
<1>8. PostInv' /\ QueueInv' /\ WakeInv'
  BY <1>1, ThreadsSame
<1>. QED BY <1>5, <1>6, <1>7, <1>8 DEF Inv

(* The loop turns for another reason. *)
LEMMA OtherEventKeeps ==
  ASSUME Inv, OtherEvent
  PROVE  Inv'
<1>1. UNCHANGED <<pending, fin, reg, shutdown, cb, used, lib, libs, libq, hookq, own, held, terminated,
                  poster, called, stray>> /\ wakeup' = TRUE
  BY DEF OtherEvent, counts, state, runner, default, owners, posters, aux
<1>2. Types'
  BY <1>1 DEF Inv, Types
<1>3. OrderInv' /\ RegInv' /\ ShutInv' /\ CallInv'
  BY <1>1, OwnersSame DEF Inv, ShutInv
<1>4. CountInv'
  BY <1>1, CountSame
<1>5. PostInv' /\ QueueInv' /\ WakeInv'
  BY <1>1, ThreadsSame
<1>. QED BY <1>2, <1>3, <1>4, <1>5 DEF Inv

(* A checkpoint runs a task, or finds none ready and waits for the next
   wake-up. *)
LEMMA CheckpointKeeps ==
  ASSUME Inv, NEW i \in Isolates, Checkpoint(i)
  PROVE  Inv'
<1>1. UNCHANGED <<reg, shutdown, cb, used, lib, libs, hookq, own, held, terminated, poster, called, stray>>
  BY DEF Checkpoint, state, runner, owners, posters, aux
<1>2. DOMAIN libq = Queues
  BY DEF Inv, Types
<1>3. PostInv'
  BY <1>1 DEF Inv, PostInv, PostOK
<1>4. CASE /\ terminated \/ \A q \in DOMAIN libq : q[2] = "now" => libq[q] = 0
           /\ wakeup' = FALSE
           /\ UNCHANGED <<counts, libq>>
  <2>1. UNCHANGED <<pending, fin, libq>> /\ wakeup' = FALSE
    BY <1>4 DEF counts
  <2>2. Types'
    BY <1>1, <2>1 DEF Inv, Types
  <2>3. OrderInv' /\ RegInv' /\ ShutInv' /\ CallInv'
    BY <1>1, <2>1, OwnersSame DEF Inv, ShutInv
  <2>4. CountInv'
    BY <1>1, <2>1, CountSame
  <2>5. QueueInv'
    BY <1>1, <2>1, QueueSame
  <2>6. WakeInv'
    <3>1. terminated \/ \A s \in States : libq[<<s, "now">>] = 0
      <4>. SUFFICES ASSUME ~ terminated, NEW s \in States PROVE libq[<<s, "now">>] = 0
        OBVIOUS
      <4>1. <<s, "now">> \in Queues
        BY QueueFacts
      <4>2. \A q \in Queues : q[2] = "now" => libq[q] = 0
        BY <1>2, <1>4
      <4>. QED BY <4>1, <4>2
    <3>. SUFFICES ASSUME NEW j \in Isolates, ~ terminated, NEW s \in {Main(j), Late(j)}
                  PROVE  ~ (libq[<<s, "now">>] > 0)
      BY <1>1, <2>1 DEF WakeInv, NoLostWakeup
    <3>. QED BY <3>1, StateFacts
  <2>. QED BY <1>3, <2>2, <2>3, <2>4, <2>5, <2>6 DEF Inv
<1>5. CASE /\ ~ terminated
           /\ \E q \in DOMAIN libq : /\ libq[q] > 0
                                     /\ libq' = [libq EXCEPT ![q] = @ - 1]
                                     /\ Complete(One(q[1]))
           /\ UNCHANGED wakeup
  <2>1. PICK q \in Queues : libq[q] > 0 /\ libq' = [libq EXCEPT ![q] = @ - 1] /\ Complete(One(q[1]))
    BY <1>2, <1>5
  <2>2. PICK s \in States, d \in Delays : q = <<s, d>> /\ q[1] = s
    BY QueueFacts
  <2>3. libq \in [Queues -> Nat] /\ wakeup' /\ wakeup' = wakeup
    BY <1>5 DEF Inv, Types, Checkpoint
  <2>4. libq' \in [Queues -> Nat] /\ libq'[<<s, d>>] = libq[<<s, d>>] - 1
    BY <2>1, <2>2, <2>3
  <2>5. \A x \in States, e \in Delays : <<x, e>> # <<s, d>> => libq'[<<x, e>>] = libq[<<x, e>>]
    BY <2>1, <2>2, <2>3, QueueFacts
  <2>6. /\ pending' \in [States -> Nat] /\ fin' \in [States -> {"no", "erase", "call", "done"}]
        /\ \A x \in States : fin[x] # "no" => fin'[x] = fin[x]
        /\ \A x \in States : fin'[x] # "no" => shutdown[x]
    BY <2>1, <2>2, CompletesOne
  <2>7. Types'
    BY <1>1, <2>3, <2>4, <2>6 DEF Inv, Types
  <2>8. OrderInv' /\ RegInv' /\ ShutInv' /\ CallInv'
    BY <1>1, <2>6, OwnersSame
  <2>9. \A x \in States, e \in Delays : libq[<<x, e>>] \in Nat /\ libq'[<<x, e>>] \in Nat
    BY <2>3, <2>4, QueueFacts
  <2>10. CountInv'
    <3>1. \A x : Handing(x)' = Handing(x)
      BY <1>1 DEF Handing
    <3>2. /\ hookq[s] \in Nat /\ Cardinality(Handing(s)) \in Nat /\ \A x \in States : IsFiniteSet(Handing(x))
      BY CountTypes
    <3>3. \A x \in States, e \in Delays : x # s => libq'[<<x, e>>] = libq[<<x, e>>]
      BY <2>5, QueueFacts
    <3>4. libq'[<<s, "now">>] + libq'[<<s, "later">>] + 1 = libq[<<s, "now">>] + libq[<<s, "later">>]
      <4>1. CASE d = "now"
        <5>1. libq'[<<s, "later">>] = libq[<<s, "later">>]
          BY <2>5, <4>1, QueueFacts
        <5>. QED BY <2>4, <2>9, <4>1, <5>1, QueueFacts
      <4>2. CASE d = "later"
        <5>1. libq'[<<s, "now">>] = libq[<<s, "now">>]
          BY <2>5, <4>2, QueueFacts
        <5>. QED BY <2>4, <2>9, <4>2, <5>1, QueueFacts
      <4>. QED BY <4>1, <4>2 DEF Delays
    <3>5. /\ libq[<<s, "now">>] \in Nat /\ libq[<<s, "later">>] \in Nat
          /\ libq'[<<s, "now">>] \in Nat /\ libq'[<<s, "later">>] \in Nat
      BY <2>9, QueueFacts
    <3>6. hookq[s] + libq'[<<s, "now">>] + libq'[<<s, "later">>] + Cardinality(Handing(s)) + 1
           = hookq[s] + libq[<<s, "now">>] + libq[<<s, "later">>] + Cardinality(Handing(s))
      BY <3>2, <3>4, <3>5
    <3>. QED BY <1>1, <2>1, <2>2, <3>1, <3>2, <3>3, <3>5, <3>6, QueueFacts, TaskLeaves
  <2>11. QueueInv'
    <3>1. \A x \in States, e \in Delays : libq'[<<x, e>>] > 0 => libq[<<x, e>>] > 0
      BY <2>4, <2>5, <2>9
    <3>. QED BY <1>1, <3>1 DEF Inv, QueueInv
  <2>12. WakeInv'
    BY <2>3 DEF WakeInv, NoLostWakeup
  <2>. QED BY <1>3, <2>7, <2>8, <2>10, <2>11, <2>12 DEF Inv
<1>. QED BY <1>4, <1>5 DEF Checkpoint

-----------------------------------------------------------------------------
(* The owner of an isolate.                                                *)

\* A step of the owner within the isolate's use, or after it.
Plain(from, to) ==
  /\ from # "none" /\ to \in Before \cup Begun
  /\ from \in {"waiting", "released"} => to \in {"waiting", "released"}
  /\ to \in Before => from \in Before
  /\ from \in Early => to \in Early
  /\ from \in Using => to \in Using
  /\ from \in Using \cup {"disposed"} => to \in Using \cup {"disposed"}
  /\ from \in Begun => to \in Begun
  /\ to \in {"down", "silenced"} \cup Begun => from \in {"down", "silenced"} \cup Begun

(* The steps of the owner that are plain. *)
LEMMA PlainSteps ==
  /\ Plain("live", "cancelled") /\ Plain("cancelled", "live") /\ Plain("live", "cleared")
  /\ Plain("cleared", "locked") /\ Plain("begun", "finishing") /\ Plain("begun", "disposing")
  /\ Plain("finishing", "disposing") /\ Plain("unregistered", "last") /\ Plain("unregistered", "waiting")
  /\ Plain("last", "waiting") /\ Plain("waiting", "released")
  BY DEF Plain, Before, Early, Begun, Using

(* What a plain step keeps. *)
LEMMA PlainKeeps ==
  ASSUME Inv, NEW i \in Isolates, NEW from, NEW to, Plain(from, to), Moves(i, from, to),
         UNCHANGED <<reg, held, shutdown, pending, hookq, libq, lib, used, stray, poster, called>>,
         \A s \in States : fin[s] # "no" => fin'[s] = fin[s],
         \A s \in States : fin'[s] # "no" => shutdown[s]
  PROVE  OrderInv' /\ RegInv' /\ ShutInv' /\ CountInv' /\ CallInv' /\ PostInv' /\ QueueInv'
<1>1. OrderInv'
  BY OrderKept DEF Plain
<1>2. RegInv'
  BY RegKept DEF Plain
<1>3. ShutInv'
  BY ShutKept DEF Plain
<1>4. CountInv' /\ CallInv'
  BY CountSame, CallKept
<1>5. PostInv'
  BY PostKept DEF Plain
<1>6. QueueInv'
  <2>1. to # "none"
    BY DEF Plain, Before, Early, Begun
  <2>. QED BY <2>1, QueueKept DEF Plain
<1>. QED BY <1>1, <1>2, <1>3, <1>4, <1>5, <1>6

(* While an isolate is made, no other one is in use. *)
LEMMA NoneInUse ==
  ASSUME Inv, NEW i \in Isolates, CreateIsolate(i), NEW j \in Isolates
  PROVE  own[j] \in {"none", "waiting", "released"}
<1>1. own[i] = "none" /\ \A k \in 1..i - 1 : own[k] \in {"waiting", "released"}
  BY DEF CreateIsolate, Step
<1>2. i \in Nat \ {0} /\ j \in Nat \ {0}
  BY ConstantsAssumption DEF Isolates
<1>3. CASE j < i
  <2>1. j \in 1..i - 1
    BY <1>2, <1>3
  <2>. QED BY <1>1, <2>1
<1>4. CASE i < j
  BY <1>1, <1>4 DEF Inv, OrderInv
<1>. QED BY <1>1, <1>2, <1>3, <1>4

(* The address is free: the new isolate's state is the one in the map, and
   no task of an earlier one is queued unless a stray runner took it. *)
LEMMA CreateIsolateKeeps ==
  ASSUME Inv, NEW i \in Isolates, CreateIsolate(i)
  PROVE  Inv'
<1>1. UNCHANGED <<pending, fin, shutdown, cb, used, libq, hookq, wakeup, held, poster, called>>
  BY DEF CreateIsolate, counts, runner, embedder, posters
<1>2. EnsureLib(i) /\ terminated' = FALSE /\ reg' = IF reg = None THEN Main(i) ELSE reg
  BY DEF CreateIsolate
<1>3. Moves(i, "none", "live")
  <2>1. Step(i, "none", "live") /\ "live" \in Before \cup Begun
    BY DEF CreateIsolate, Before, Early
  <2>. QED BY <2>1, StepMoves
<1>4. \A j \in Isolates : own[j] \in {"none", "waiting", "released"}
  BY NoneInUse
<1>5. \A j \in Isolates : own[j] \notin Using \cup {"disposed"} \cup Before
  BY <1>4 DEF Using, Before, Early
<1>6. reg' = Main(i)
  <2>1. reg # None => reg[1] \in Isolates /\ own[reg[1]] \in Using \cup {"disposed"}
    BY StateFacts DEF Inv, Types, RegInv
  <2>. QED BY <1>2, <1>5, <2>1
<1>7. lib' \in Nat \ {0} /\ libs' \in Nat /\ stray' \in BOOLEAN /\ (stray => stray')
  BY <1>2, EnsuresLib
<1>8. Types'
  BY <1>1, <1>2, <1>3, <1>6, <1>7, StateFacts DEF Inv, Types, Moves
<1>9. OrderInv'
  <2>. SUFFICES ASSUME NEW j \in Isolates, NEW k \in Isolates, j < k, own'[k] # "none"
                PROVE  own'[j] \in {"waiting", "released"}
    BY DEF OrderInv
  <2>1. i \in Nat \ {0} /\ j \in Nat \ {0} /\ k \in Nat
    BY ConstantsAssumption DEF Isolates
  <2>2. CASE k = i
    <3>1. j \in 1..i - 1 /\ j # i
      BY <2>1, <2>2
    <3>2. own[j] \in {"waiting", "released"}
      BY <3>1 DEF CreateIsolate
    <3>. QED BY <1>3, <3>1, <3>2 DEF Moves
  <2>3. CASE k # i
    <3>1. own[k] # "none" /\ own[i] = "none"
      BY <1>3, <2>3 DEF Moves
    <3>2. own[j] \in {"waiting", "released"}
      BY <3>1 DEF Inv, OrderInv
    <3>. QED BY <1>3, <3>1, <3>2 DEF Moves
  <2>. QED BY <2>2, <2>3
<1>10. RegInv'
  <2>1. own'[i] \in Using /\ Main(i)[1] = i
    BY <1>3, StateFacts DEF Moves, Using
  <2>2. \A j \in Isolates : own'[j] \in Before => j = i
    BY <1>3, <1>5 DEF Moves
  <2>. QED BY <1>6, <2>1, <2>2 DEF RegInv
<1>11. ShutInv'
  <2>1. "live" \notin {"down", "silenced"} \cup Begun /\ "none" \notin Begun
    BY DEF Begun
  <2>2. \A s \in States : s[1] \in Isolates
    BY StateFacts
  <2>. QED BY <1>1, <1>3, <2>1, <2>2 DEF Inv, ShutInv, Moves
<1>12. CountInv' /\ CallInv'
  BY <1>1, CountSame, CallKept
<1>13. PostInv'
  <2>. SUFFICES ASSUME NEW t \in Threads PROVE poster[t].pc = "idle"
    BY <1>1 DEF PostInv, PostOK
  <2>1. poster[t].pc # "idle" => poster[t].s[1] \in Isolates /\ own[poster[t].s[1]] \in Using
    BY StateFacts DEF Inv, PostInv, PostOK
  <2>. QED BY <1>5, <2>1
<1>14. \A s \in States, d \in Delays : libq[<<s, d>>] > 0 => /\ used[s] /\ stray /\ s[1] \in Isolates /\ s[1] # i
                                                             /\ own[s[1]] # "none" /\ own[s[1]] \notin Before
  <2>1. Early \subseteq Before /\ own[i] = "none"
    BY <1>3 DEF Before, Moves
  <2>. QED BY <1>5, <2>1, StateFacts DEF Inv, QueueInv
<1>15. QueueInv'
  <2>1. own'[i] \in Early
    BY <1>3 DEF Moves, Early
  <2>. QED BY <1>1, <1>3, <1>7, <1>14, <2>1 DEF QueueInv, Moves
<1>16. WakeInv'
  <2>. SUFFICES ASSUME NEW j \in Isolates, own'[j] = "live", NEW s \in {Main(j), Late(j)}
                PROVE  ~ (libq[<<s, "now">>] > 0)
    BY <1>1 DEF WakeInv, NoLostWakeup
  <2>1. j = i
    BY <1>3, <1>4 DEF Moves
  <2>2. s \in States /\ s[1] = i
    BY <2>1, StateFacts
  <2>. QED BY <1>14, <2>2, QueueFacts
<1>. QED BY <1>8, <1>9, <1>10, <1>11, <1>12, <1>13, <1>15, <1>16 DEF Inv

(* V8 asks for a runner when the isolate's first state has left the map. *)
LEMMA GetForegroundTaskRunnerKeeps ==
  ASSUME Inv, NEW i \in Isolates, GetForegroundTaskRunner(i)
  PROVE  Inv'
<1>1. UNCHANGED <<pending, fin, shutdown, cb, used, libq, hookq, wakeup, own, held, terminated, poster, called>>
  BY DEF GetForegroundTaskRunner, counts, runner, embedder, owners, posters
<1>2. own[i] \in Using /\ reg = None /\ reg' = Late(i) /\ EnsureLib(i)
  BY DEF GetForegroundTaskRunner
<1>3. /\ lib' \in Nat \ {0} /\ libs' \in Nat /\ stray' \in BOOLEAN /\ (stray => stray')
      /\ ~ stray' => lib # 0 \/ own[i] \notin Disposing
  BY <1>2, EnsuresLib
<1>4. Types'
  BY <1>1, <1>2, <1>3, StateFacts DEF Inv, Types
<1>5. OrderInv' /\ ShutInv'
  BY <1>1 DEF Inv, OrderInv, ShutInv
<1>6. RegInv'
  <2>1. \A j \in Isolates : own[j] \notin Before
    BY <1>2, StateFacts DEF Inv, RegInv
  <2>. QED BY <1>1, <1>2, <2>1, StateFacts DEF RegInv
<1>7. CountInv' /\ CallInv'
  BY <1>1, CountSame, CallKept
<1>8. PostInv'
  BY <1>1 DEF Inv, PostInv, PostOK
<1>9. QueueInv'
  <2>1. Using \ Disposing \subseteq Early
    BY DEF Using, Disposing, Early
  <2>2. stray' \/ \E j \in Isolates : own[j] \in Early
    BY <1>2, <1>3, <2>1 DEF Inv, QueueInv
  <2>. QED BY <1>1, <1>3, <2>2 DEF Inv, QueueInv
<1>10. WakeInv'
  BY <1>1, WakeKept
<1>. QED BY <1>4, <1>5, <1>6, <1>7, <1>8, <1>9, <1>10 DEF Inv

(* A target is bound, or the env terminated. *)
LEMMA BindOrTerminateKeeps ==
  ASSUME Inv, NEW i \in Isolates, BindForegroundTaskTarget(i) \/ Terminate(i)
  PROVE  Inv'
<1>1. /\ UNCHANGED <<pending, fin, reg, shutdown, cb, used, lib, libs, libq, hookq, wakeup, own, held,
                     poster, called, stray>>
      /\ terminated' \in {terminated, TRUE}
  BY DEF BindForegroundTaskTarget, Terminate, counts, state, runner, default, embedder, posters, aux
<1>2. Types'
  BY <1>1 DEF Inv, Types
<1>3. OrderInv' /\ RegInv' /\ ShutInv' /\ CallInv'
  BY <1>1, OwnersSame DEF Inv, ShutInv
<1>4. CountInv' /\ QueueInv'
  BY <1>1, CountSame, QueueSame
<1>5. PostInv'
  BY <1>1 DEF Inv, PostInv, PostOK
<1>6. WakeInv'
  <2>1. terminated => terminated'
    BY <1>1, Zenon
  <2>. QED BY <1>1, <2>1, WakeKept
<1>. QED BY <1>2, <1>3, <1>4, <1>5, <1>6 DEF Inv

(* A termination is cancelled; the wake-up for what it held back follows. *)
LEMMA CancelKeeps ==
  ASSUME Inv, NEW i \in Isolates, Cancel(i)
  PROVE  Inv'
<1>1. UNCHANGED <<pending, fin, reg, shutdown, cb, used, lib, libs, libq, hookq, wakeup, held,
                  poster, called, stray>> /\ terminated' = FALSE
  BY DEF Cancel, counts, state, runner, default, embedder, posters, aux
<1>2. Moves(i, "live", "cancelled")
  BY StepMoves DEF Cancel, Before, Early
<1>3. Types'
  BY <1>1, <1>2 DEF Inv, Types, Moves
<1>4. OrderInv' /\ RegInv' /\ ShutInv' /\ CountInv' /\ CallInv' /\ PostInv' /\ QueueInv'
  BY <1>1, <1>2, PlainSteps, PlainKeeps DEF Inv, ShutInv
<1>5. WakeInv'
  <2>1. \A j \in Isolates : own'[j] # "live"
    <3>. SUFFICES ASSUME NEW j \in Isolates, own'[j] = "live" PROVE FALSE
      OBVIOUS
    <3>1. own[j] = "live" /\ own[i] = "live" /\ j # i
      BY <1>2 DEF Moves
    <3>. QED BY <3>1, OneAtATime
  <2>. QED BY <2>1 DEF WakeInv, NoLostWakeup
<1>. QED BY <1>3, <1>4, <1>5 DEF Inv

(* After a cancelled termination the loop is woken for what is queued: the
   state in the map has counted it. *)
LEMMA WakeForQueuedKeeps ==
  ASSUME Inv, NEW i \in Isolates, WakeForQueuedForegroundTasks(i)
  PROVE  Inv'
<1>1. UNCHANGED <<pending, fin, reg, shutdown, cb, used, lib, libs, libq, hookq, held, terminated,
                  poster, called, stray>>
  BY DEF WakeForQueuedForegroundTasks, counts, state, runner, default, posters, aux
<1>2. Moves(i, "cancelled", "live")
  BY StepMoves DEF WakeForQueuedForegroundTasks, Before, Early
<1>3. wakeup' = (wakeup \/ (/\ reg # None /\ used[reg] /\ fin[reg] = "no" /\ ~ shutdown[reg]
                            /\ pending[reg] > 0))
  BY DEF WakeForQueuedForegroundTasks
<1>4. wakeup' \in BOOLEAN
  BY <1>3
<1>5. Types'
  BY <1>1, <1>2, <1>4 DEF Inv, Types, Moves
<1>6. OrderInv' /\ RegInv' /\ ShutInv' /\ CountInv' /\ CallInv' /\ PostInv' /\ QueueInv'
  BY <1>1, <1>2, PlainSteps, PlainKeeps DEF Inv, ShutInv
<1>7. WakeInv'
  <2>. SUFFICES ASSUME NEW j \in Isolates, own'[j] = "live",
                       NEW s \in {Main(j), Late(j)}, libq[<<s, "now">>] > 0
                PROVE  wakeup'
    BY <1>1 DEF WakeInv, NoLostWakeup
  <2>1. j = i
    <3>. SUFFICES ASSUME j # i PROVE FALSE
      OBVIOUS
    <3>1. own[j] = "live" /\ own[i] = "cancelled"
      BY <1>2 DEF Moves
    <3>. QED BY <3>1, OneAtATime
  <2>2. s \in States /\ s[1] = i /\ own[i] \in Before /\ reg # None
    BY <1>2, <2>1, StateFacts DEF Moves, Before, Early, Inv, RegInv
  <2>3. s = Main(i) /\ used[s] /\ reg = s
    BY <2>2, QueueFacts DEF Inv, QueueInv, RegInv
  <2>4. ~ shutdown[s] /\ fin[s] = "no"
    <3>1. own[i] \notin Begun
      BY <1>2 DEF Moves, Begun
    <3>. QED BY <2>2, <3>1 DEF Inv, ShutInv
  <2>5. pending[s] > 0
    <3>1. pending[s] = hookq[s] + libq[<<s, "now">>] + libq[<<s, "later">>] + Cardinality(Handing(s))
      BY <2>2, <2>4 DEF Inv, CountInv
    <3>2. /\ hookq[s] \in Nat /\ libq[<<s, "now">>] \in Nat /\ libq[<<s, "later">>] \in Nat
          /\ Cardinality(Handing(s)) \in Nat
      BY <2>2, CountTypes, QueueFacts
    <3>. QED BY <3>1, <3>2
  <2>. QED BY <1>3, <2>2, <2>3, <2>4, <2>5, Zenon
<1>. QED BY <1>5, <1>6, <1>7 DEF Inv

(* The target is cleared. *)
LEMMA ClearForegroundTaskTargetKeeps ==
  ASSUME Inv, NEW i \in Isolates, ClearForegroundTaskTarget(i)
  PROVE  Inv'
<1>1. UNCHANGED <<pending, fin, reg, shutdown, cb, used, lib, libs, libq, hookq, wakeup, held, terminated,
                  poster, called, stray>>
  BY DEF ClearForegroundTaskTarget, counts, state, default, embedder, posters, aux
<1>2. Moves(i, "live", "cleared")
  BY StepMoves DEF ClearForegroundTaskTarget, Before, Early
<1>3. Types'
  BY <1>1, <1>2 DEF Inv, Types, Moves
<1>4. OrderInv' /\ RegInv' /\ ShutInv' /\ CountInv' /\ CallInv' /\ PostInv' /\ QueueInv'
  BY <1>1, <1>2, PlainSteps, PlainKeeps DEF Inv, ShutInv
<1>5. WakeInv'
  <2>1. \A j \in Isolates : own'[j] = "live" => own[j] = "live"
    BY <1>2 DEF Moves
  <2>. QED BY <1>1, <2>1, WakeKept
<1>. QED BY <1>3, <1>4, <1>5 DEF Inv

(* The waiter's callback is added to the isolate's state: it is in the map. *)
LEMMA AddIsolateFinishedCallbackKeeps ==
  ASSUME Inv, NEW i \in Isolates, AddIsolateFinishedCallback(i)
  PROVE  Inv'
<1>1. UNCHANGED <<pending, fin, reg, shutdown, used, lib, libs, libq, hookq, wakeup, held, terminated,
                  poster, stray>>
  BY DEF AddIsolateFinishedCallback, counts, runner, default, embedder, posters
<1>2. Moves(i, "cleared", "locked")
  BY StepMoves DEF AddIsolateFinishedCallback, Before, Early
<1>3. reg = Main(i) /\ reg # None /\ reg \in States
  BY <1>2, StateFacts DEF Moves, Before, Early, Inv, RegInv
<1>4. called' = called /\ cb' \in [States -> BOOLEAN]
  BY <1>3 DEF AddIsolateFinishedCallback, Inv, Types
<1>5. Types'
  BY <1>1, <1>2, <1>4 DEF Inv, Types, Moves
<1>6. OrderInv' /\ RegInv' /\ ShutInv' /\ CountInv' /\ CallInv' /\ PostInv' /\ QueueInv'
  BY <1>1, <1>2, <1>4, PlainSteps, PlainKeeps DEF Inv, ShutInv
<1>7. WakeInv'
  <2>1. \A j \in Isolates : own'[j] = "live" => own[j] = "live"
    BY <1>2 DEF Moves
  <2>. QED BY <1>1, <2>1, WakeKept
<1>. QED BY <1>5, <1>6, <1>7 DEF Inv

(* The runner is shut down; DisposeIsolate keeps the state it found. *)
LEMMA NotifyRunnerKeeps ==
  ASSUME Inv, NEW i \in Isolates, NotifyRunner(i)
  PROVE  Inv'
<1>1. UNCHANGED <<pending, fin, reg, shutdown, cb, used, lib, libs, libq, hookq, wakeup, terminated,
                  poster, called, stray>>
  BY DEF NotifyRunner, counts, state, default, embedder, posters, aux
<1>2. Moves(i, "locked", "down")
  BY StepMoves DEF NotifyRunner, Before, Early
<1>3. reg = Main(i) /\ reg \in States
  BY <1>2, StateFacts DEF Moves, Before, Early, Inv, RegInv
<1>4. /\ held' \in [Isolates -> States \cup {None}] /\ held'[i] = Main(i)
      /\ \A j \in Isolates : j # i => held'[j] = held[j]
  BY <1>3 DEF NotifyRunner, Inv, Types
<1>5. Types'
  BY <1>1, <1>2, <1>4 DEF Inv, Types, Moves
<1>6. OrderInv'
  BY <1>2, OrderKept
<1>7. RegInv'
  BY <1>1, <1>2, RegKept DEF Before, Early, Using
<1>8. ShutInv'
  <2>1. "locked" \notin Begun
    BY DEF Begun
  <2>2. \A s \in States : s[1] \in Isolates /\ (own[s[1]] \in Begun => own'[s[1]] \in Begun)
    BY <1>2, <2>1, StateFacts DEF Moves
  <2>. QED BY <1>1, <1>2, <1>4, <2>2 DEF Inv, ShutInv, Moves
<1>9. CountInv' /\ CallInv'
  BY <1>1, CountSame, CallKept
<1>10. PostInv'
  BY <1>1, <1>2, PostKept DEF Before, Early, Using
<1>11. QueueInv'
  BY <1>1, <1>2, QueueKept DEF Before, Early
<1>12. WakeInv'
  <2>1. \A j \in Isolates : own'[j] = "live" => own[j] = "live"
    BY <1>2 DEF Moves
  <2>. QED BY <1>1, <2>1, WakeKept
<1>. QED BY <1>5, <1>6, <1>7, <1>8, <1>9, <1>10, <1>11, <1>12 DEF Inv

(* The default platform drops what it has queued; every task gives its
   count back. *)
LEMMA NotifyFallbackKeeps ==
  ASSUME Inv, NEW i \in Isolates, NotifyFallback(i)
  PROVE  Inv'
<1>1. UNCHANGED <<reg, shutdown, cb, used, libs, hookq, wakeup, held, terminated, poster, called, stray>>
  BY DEF NotifyFallback, state, runner, embedder, posters, aux
<1>2. Moves(i, "down", "silenced")
  BY StepMoves DEF NotifyFallback, Before
<1>3. lib' = 0 /\ libq' = [q \in Queues |-> 0]
  BY DEF NotifyFallback, Queues
<1>4. PICK n : n = [s \in States |-> libq[<<s, "now">>] + libq[<<s, "later">>]]
  OBVIOUS
<1>5. /\ \A s \in States : libq[<<s, "now">>] \in Nat /\ libq[<<s, "later">>] \in Nat
      /\ \A s \in States : libq'[<<s, "now">>] = 0 /\ libq'[<<s, "later">>] = 0
      /\ libq' \in [Queues -> Nat]
  BY <1>3, CountTypes, QueueFacts
<1>6. n \in [States -> Nat] /\ Complete(n) /\ \A s \in States : n[s] = libq[<<s, "now">>] + libq[<<s, "later">>]
  <2>1. Complete(n)
    BY <1>4 DEF NotifyFallback
  <2>. QED BY <1>4, <1>5, <2>1
<1>7. /\ pending' \in [States -> Nat] /\ fin' \in [States -> {"no", "erase", "call", "done"}]
      /\ \A s \in States : fin[s] # "no" => fin'[s] = fin[s]
      /\ \A s \in States : fin'[s] # "no" => shutdown[s]
      /\ \A s \in States : n[s] <= pending[s] => pending'[s] = pending[s] - n[s]
  BY <1>6, Completes
<1>8. Types'
  BY <1>1, <1>2, <1>3, <1>5, <1>7 DEF Inv, Types, Moves
<1>9. OrderInv'
  BY <1>2, OrderKept
<1>10. RegInv'
  BY <1>1, <1>2, RegKept DEF Before, Early, Using
<1>11. ShutInv'
  BY <1>1, <1>2, <1>7, ShutKept DEF Begun
<1>12. CountInv'
  <2>1. \A x : Handing(x)' = Handing(x)
    BY <1>1 DEF Handing
  <2>2. ASSUME NEW s \in States, fin'[s] = "no"
        PROVE  pending'[s] = hookq[s] + libq'[<<s, "now">>] + libq'[<<s, "later">>] + Cardinality(Handing(s))
    <3>1. pending[s] = hookq[s] + libq[<<s, "now">>] + libq[<<s, "later">>] + Cardinality(Handing(s))
      BY <1>7, <2>2 DEF Inv, CountInv
    <3>2. hookq[s] \in Nat /\ Cardinality(Handing(s)) \in Nat /\ pending[s] \in Nat
      BY CountTypes
    <3>3. n[s] <= pending[s] /\ pending[s] - n[s] = hookq[s] + Cardinality(Handing(s))
      BY <1>5, <1>6, <3>1, <3>2
    <3>. QED BY <1>5, <1>7, <3>2, <3>3
  <2>. QED BY <1>1, <2>1, <2>2 DEF Inv, CountInv
<1>13. CallInv'
  BY <1>1, <1>7, CallKept
<1>14. PostInv'
  BY <1>1, <1>2, PostKept DEF Before, Early, Using
<1>15. QueueInv'
  <2>1. \A s \in States, d \in Delays : libq'[<<s, d>>] = 0
    BY <1>5 DEF Delays
  <2>. QED BY <1>3, <2>1 DEF QueueInv
<1>16. WakeInv'
  <2>. SUFFICES ASSUME NEW j \in Isolates, NEW s \in {Main(j), Late(j)} PROVE ~ (libq'[<<s, "now">>] > 0)
    BY DEF WakeInv, NoLostWakeup
  <2>1. s \in States
    BY StateFacts
  <2>2. libq'[<<s, "now">>] = 0
    BY <1>5, <2>1
  <2>. QED BY <2>2
<1>. QED BY <1>8, <1>9, <1>10, <1>11, <1>12, <1>13, <1>14, <1>15, <1>16 DEF Inv

(* The platform is told: the state DisposeIsolate found is shut down. *)
LEMMA BeginShutdownKeeps ==
  ASSUME Inv, NEW i \in Isolates, BeginShutdown(i)
  PROVE  Inv'
<1>1. UNCHANGED <<pending, fin, reg, cb, used, lib, libs, libq, hookq, wakeup, held, terminated,
                  poster, called, stray>>
  BY DEF BeginShutdown, counts, runner, default, embedder, posters, aux
<1>2. Moves(i, "silenced", "begun")
  BY StepMoves DEF BeginShutdown, Begun
<1>3. held[i] = Main(i) /\ Main(i) \in States /\ Main(i)[1] = i
  BY <1>2, StateFacts DEF Moves, Inv, ShutInv
<1>4. /\ shutdown' \in [States -> BOOLEAN] /\ shutdown'[Main(i)]
      /\ \A s \in States : s # Main(i) => shutdown'[s] = shutdown[s]
  BY <1>3 DEF BeginShutdown, Inv, Types
<1>5. Types'
  BY <1>1, <1>2, <1>4 DEF Inv, Types, Moves
<1>6. OrderInv'
  BY <1>2, OrderKept
<1>7. RegInv'
  BY <1>1, <1>2, RegKept DEF Before, Early, Using
<1>8. ShutInv'
  <2>1. "begun" \in Begun /\ "silenced" \notin Begun
    BY DEF Begun
  <2>2. \A s \in States : s[1] \in Isolates /\ (own[s[1]] \in Begun => own'[s[1]] \in Begun)
    BY <1>2, <2>1, StateFacts DEF Moves
  <2>3. \A s \in States : shutdown'[s] => s = Main(s[1]) /\ own'[s[1]] \in Begun
    BY <1>2, <1>3, <1>4, <2>1, <2>2 DEF Inv, ShutInv, Moves
  <2>4. \A s \in States : fin'[s] # "no" => shutdown'[s]
    BY <1>1, <1>4 DEF Inv, ShutInv
  <2>5. \A j \in Isolates : own'[j] \in {"down", "silenced"} \cup Begun => held'[j] = Main(j)
    BY <1>1, <1>2, <1>3 DEF Inv, ShutInv, Moves
  <2>. QED BY <2>3, <2>4, <2>5 DEF ShutInv
<1>9. CountInv' /\ CallInv'
  BY <1>1, CountSame, CallKept
<1>10. PostInv'
  BY <1>1, <1>2, PostKept DEF Before, Early, Using
<1>11. QueueInv'
  BY <1>1, <1>2, QueueKept DEF Before, Early
<1>12. WakeInv'
  <2>1. \A j \in Isolates : own'[j] = "live" => own[j] = "live"
    BY <1>2 DEF Moves
  <2>. QED BY <1>1, <2>1, WakeKept
<1>. QED BY <1>5, <1>6, <1>7, <1>8, <1>9, <1>10, <1>11, <1>12 DEF Inv

(* The owner finishes the state it shut down, if nothing is pending and
   nobody else has. *)
LEMMA MaybeFinishIsolateKeeps ==
  ASSUME Inv, NEW i \in Isolates, NEW from, NEW during, NEW to,
         MaybeFinishIsolate(i, from, during, to),
         Plain(from, during), Plain(from, to), Plain(during, to),
         "live" \notin {during, to}
  PROVE  Inv'
<1>1. UNCHANGED <<pending, reg, shutdown, cb, used, lib, libs, libq, hookq, wakeup, held, terminated,
                  poster, called, stray>>
  BY DEF MaybeFinishIsolate, state, runner, default, embedder, posters, aux
<1>2. PICK a \in {from, during}, b \in {during, to} : Plain(a, b) /\ Moves(i, a, b)
  <2>1. \A a, b : Plain(a, b) /\ Step(i, a, b) => Moves(i, a, b)
    BY StepMoves DEF Plain
  <2>2. \E a \in {from, during}, b \in {during, to} : Plain(a, b) /\ Step(i, a, b)
    BY DEF MaybeFinishIsolate
  <2>. QED BY <2>1, <2>2
<1>3. /\ fin' \in [States -> {"no", "erase", "call", "done"}]
      /\ \A s \in States : fin[s] # "no" => fin'[s] = fin[s]
      /\ \A s \in States : fin'[s] # "no" => shutdown[s]
  <2>1. CASE fin' = fin
    BY <2>1 DEF Inv, Types, ShutInv
  <2>2. CASE /\ fin' = [fin EXCEPT ![held[i]] = "erase"]
             /\ held[i] # None /\ fin[held[i]] = "no" /\ shutdown[held[i]]
    <3>1. held[i] \in States
      BY <2>2 DEF Inv, Types
    <3>. QED BY <2>2, <3>1 DEF Inv, Types, ShutInv
  <2>. QED BY <2>1, <2>2 DEF MaybeFinishIsolate
<1>4. Types'
  BY <1>1, <1>2, <1>3 DEF Inv, Types, Moves
<1>5. OrderInv' /\ RegInv' /\ ShutInv' /\ CountInv' /\ CallInv' /\ PostInv' /\ QueueInv'
  BY <1>1, <1>2, <1>3, PlainKeeps
<1>6. WakeInv'
  <2>1. \A j \in Isolates : own'[j] = "live" => own[j] = "live"
    BY <1>2 DEF Moves
  <2>. QED BY <1>1, <2>1, WakeKept
<1>. QED BY <1>4, <1>5, <1>6 DEF Inv

(* The isolate is gone: nobody posts to it any more. *)
LEMMA DisposeReturnsKeeps ==
  ASSUME Inv, NEW i \in Isolates, DisposeReturns(i)
  PROVE  Inv'
<1>1. UNCHANGED <<pending, fin, reg, shutdown, cb, used, lib, libs, libq, hookq, wakeup, held, terminated,
                  poster, called, stray>>
  BY DEF DisposeReturns, counts, state, runner, default, embedder, posters, aux
<1>2. Moves(i, "disposing", "disposed")
  BY StepMoves DEF DisposeReturns, Begun
<1>3. Types'
  BY <1>1, <1>2 DEF Inv, Types, Moves
<1>4. OrderInv'
  BY <1>2, OrderKept
<1>5. RegInv'
  BY <1>1, <1>2, RegKept DEF Before, Early
<1>6. ShutInv'
  BY <1>1, <1>2, ShutKept DEF Begun, Inv, ShutInv
<1>7. CountInv' /\ CallInv'
  BY <1>1, CountSame, CallKept
<1>8. PostInv'
  <2>1. \A t \in Threads : poster[t].s[1] # i
    BY DEF DisposeReturns
  <2>. QED BY <1>1, <1>2, <2>1, PostKept DEF Before, Early
<1>9. QueueInv'
  BY <1>1, <1>2, QueueKept DEF Before, Early
<1>10. WakeInv'
  <2>1. \A j \in Isolates : own'[j] = "live" => own[j] = "live"
    BY <1>2 DEF Moves
  <2>. QED BY <1>1, <2>1, WakeKept
<1>. QED BY <1>3, <1>4, <1>5, <1>6, <1>7, <1>8, <1>9, <1>10 DEF Inv

(* The address is free. *)
LEMMA UnregisterIsolateKeeps ==
  ASSUME Inv, NEW i \in Isolates, UnregisterIsolate(i)
  PROVE  Inv'
<1>1. UNCHANGED <<pending, fin, shutdown, cb, used, lib, libs, libq, hookq, wakeup, held, terminated,
                  poster, called, stray>> /\ reg' = None
  BY DEF UnregisterIsolate, counts, runner, default, embedder, posters, aux
<1>2. Moves(i, "disposed", "unregistered")
  BY StepMoves DEF UnregisterIsolate, Begun
<1>3. Types'
  BY <1>1, <1>2 DEF Inv, Types, Moves
<1>4. OrderInv'
  BY <1>2, OrderKept
<1>5. RegInv'
  <2>1. \A j \in Isolates : own'[j] \notin Before
    <3>. SUFFICES ASSUME NEW j \in Isolates, own'[j] \in Before PROVE FALSE
      OBVIOUS
    <3>1. j # i /\ own[j] \in Before /\ own[i] = "disposed"
      BY <1>2 DEF Moves, Before, Early
    <3>2. own[j] \notin {"none", "waiting", "released"}
      BY <3>1 DEF Before, Early
    <3>. QED BY <3>1, <3>2, OneAtATime
  <2>. QED BY <1>1, <2>1 DEF RegInv
<1>6. ShutInv'
  BY <1>1, <1>2, ShutKept DEF Begun, Inv, ShutInv
<1>7. CountInv' /\ CallInv'
  BY <1>1, CountSame, CallKept
<1>8. PostInv'
  BY <1>1, <1>2, PostKept DEF Before, Early, Using
<1>9. QueueInv'
  BY <1>1, <1>2, QueueKept DEF Before, Early
<1>10. WakeInv'
  <2>1. \A j \in Isolates : own'[j] = "live" => own[j] = "live"
    BY <1>2 DEF Moves
  <2>. QED BY <1>1, <2>1, WakeKept
<1>. QED BY <1>3, <1>4, <1>5, <1>6, <1>7, <1>8, <1>9, <1>10 DEF Inv

(* The wait is over. *)
LEMMA WaitForPlatformShutdownKeeps ==
  ASSUME Inv, NEW i \in Isolates, WaitForPlatformShutdown(i)
  PROVE  Inv'
<1>1. UNCHANGED <<pending, fin, reg, shutdown, cb, used, lib, libs, libq, hookq, wakeup, held, terminated,
                  poster, called, stray>>
  BY DEF WaitForPlatformShutdown, counts, state, runner, default, embedder, posters, aux
<1>2. Moves(i, "waiting", "released")
  BY StepMoves DEF WaitForPlatformShutdown, Begun
<1>3. Types'
  BY <1>1, <1>2 DEF Inv, Types, Moves
<1>4. OrderInv' /\ RegInv' /\ ShutInv' /\ CountInv' /\ CallInv' /\ PostInv' /\ QueueInv'
  BY <1>1, <1>2, PlainSteps, PlainKeeps DEF Inv, ShutInv
<1>5. WakeInv'
  <2>1. \A j \in Isolates : own'[j] = "live" => own[j] = "live"
    BY <1>2 DEF Moves
  <2>. QED BY <1>1, <2>1, WakeKept
<1>. QED BY <1>3, <1>4, <1>5 DEF Inv

-----------------------------------------------------------------------------
(* The invariant.                                                          *)

(* It holds at the start. *)
LEMMA InitInv == Init => Inv
<1>. SUFFICES ASSUME Init PROVE Inv
  OBVIOUS
<1>1. Idle \in Posters /\ Idle.pc = "idle"
  BY DEF Idle, Posters, Pcs, Delays
<1>2. poster \in [Threads -> Posters] /\ \A t \in Threads : poster[t].pc = "idle"
  BY <1>1 DEF Init
<1>3. libq = [q \in Queues |-> 0] /\ \A s \in States, d \in Delays : libq[<<s, d>>] = 0
  BY QueueFacts DEF Init, Queues
<1>4. Types
  <2>1. /\ pending \in [States -> Nat] /\ hookq \in [States -> Nat] /\ libq \in [Queues -> Nat]
        /\ called \in [Isolates -> Nat] /\ lib \in Nat /\ libs \in Nat
    BY <1>3 DEF Init
  <2>2. /\ reg \in States \cup {None} /\ held \in [Isolates -> States \cup {None}]
        /\ fin \in [States -> {"no", "erase", "call", "done"}]
        /\ own \in [Isolates -> {"none"} \cup Before \cup Begun]
    BY DEF Init
  <2>3. /\ shutdown \in [States -> BOOLEAN] /\ cb \in [States -> BOOLEAN] /\ used \in [States -> BOOLEAN]
        /\ stray \in BOOLEAN /\ wakeup \in BOOLEAN /\ terminated \in BOOLEAN
    BY DEF Init
  <2>. QED BY <1>2, <2>1, <2>2, <2>3 DEF Types, Posters, Pcs
<1>5. OrderInv /\ RegInv /\ ShutInv /\ CallInv
  BY DEF Init, OrderInv, RegInv, ShutInv, CallInv, Before, Early, Begun
<1>6. CountInv
  <2>1. \A s \in States : Handing(s) = {}
    BY <1>2 DEF Handing
  <2>2. IsFiniteSet({}) /\ Cardinality({}) = 0
    BY FS_EmptySet
  <2>3. \A s \in States : /\ IsFiniteSet(Handing(s)) /\ Cardinality(Handing(s)) = 0 /\ pending[s] = 0
                          /\ hookq[s] = 0 /\ libq[<<s, "now">>] = 0 /\ libq[<<s, "later">>] = 0
    BY <1>3, <2>1, <2>2, QueueFacts DEF Init
  <2>4. ASSUME NEW s \in States
        PROVE  pending[s] = hookq[s] + libq[<<s, "now">>] + libq[<<s, "later">>] + Cardinality(Handing(s))
    <3>1. /\ pending[s] = 0 /\ hookq[s] = 0 /\ libq[<<s, "now">>] = 0 /\ libq[<<s, "later">>] = 0
          /\ Cardinality(Handing(s)) = 0
      BY <2>3
    <3>. QED BY <3>1
  <2>. QED BY <2>3, <2>4 DEF CountInv
<1>7. PostInv
  BY <1>2 DEF PostInv, PostOK
<1>8. QueueInv
  BY <1>3 DEF QueueInv, Init
<1>9. WakeInv
  BY DEF WakeInv, NoLostWakeup, Init
<1>. QED BY <1>4, <1>5, <1>6, <1>7, <1>8, <1>9 DEF Inv

(* A thread's step keeps it. *)
LEMMA PostKeeps ==
  ASSUME Inv, NEW t \in Threads, PostBegin(t) \/ Post(t)
  PROVE  Inv'
  BY PostBeginKeeps, LoadTargetKeeps, CountHookKeeps, HandKeeps, GetFallbackKeeps, CountFallbackKeeps,
     PostFallbackKeeps, WakeForForegroundTaskKeeps DEF Post

(* A step of the release keeps it. *)
LEMMA ReleaseKeeps ==
  ASSUME Inv, NEW i \in Isolates, Release(i)
  PROVE  Inv'
<1>1. CASE MaybeFinishIsolate(i, "begun", "finishing", "disposing")
  BY <1>1, PlainSteps, MaybeFinishIsolateKeeps
<1>2. CASE MaybeFinishIsolate(i, "unregistered", "last", "waiting")
  BY <1>2, PlainSteps, MaybeFinishIsolateKeeps
<1>. QED BY <1>1, <1>2, AddIsolateFinishedCallbackKeeps, NotifyRunnerKeeps, NotifyFallbackKeeps,
            BeginShutdownKeeps, DisposeReturnsKeeps, UnregisterIsolateKeeps, WaitForPlatformShutdownKeeps
         DEF Release

(* A step that changes nothing keeps it. *)
LEMMA StutterKeeps ==
  ASSUME Inv, UNCHANGED vars
  PROVE  Inv'
<1>1. UNCHANGED <<pending, fin, reg, shutdown, cb, used, lib, libs, libq, hookq, wakeup, own, held, terminated,
                  poster, called, stray>>
  BY DEF vars, counts, state, runner, default, embedder, owners, posters, aux
<1>2. Types'
  BY <1>1 DEF Inv, Types
<1>3. OrderInv' /\ RegInv' /\ ShutInv' /\ CallInv'
  BY <1>1, OwnersSame DEF Inv, ShutInv
<1>4. CountInv'
  BY <1>1, CountSame
<1>5. PostInv' /\ QueueInv' /\ WakeInv'
  BY <1>1, ThreadsSame
<1>. QED BY <1>2, <1>3, <1>4, <1>5 DEF Inv

(* Every step keeps it. *)
LEMMA NextInv == Inv /\ [Next]_vars => Inv'
<1>. SUFFICES ASSUME Inv, [Next]_vars PROVE Inv'
  OBVIOUS
<1>1. ASSUME NEW t \in Threads, PostBegin(t) \/ Post(t) PROVE Inv'
  BY <1>1, PostKeeps
<1>2. ASSUME NEW s \in States, Erase(s) \/ CallFinished(s) \/ HookCleanup(s) PROVE Inv'
  BY <1>2, EraseKeeps, CallFinishedKeeps, HookCleanupKeeps
<1>3. ASSUME NEW i \in Isolates,
             \/ CreateIsolate(i) \/ GetForegroundTaskRunner(i)
             \/ BindForegroundTaskTarget(i) \/ Terminate(i)
             \/ Cancel(i) \/ WakeForQueuedForegroundTasks(i) \/ Checkpoint(i)
             \/ ClearForegroundTaskTarget(i) \/ Release(i)
      PROVE  Inv'
  BY <1>3, CreateIsolateKeeps, GetForegroundTaskRunnerKeeps, BindOrTerminateKeeps, CancelKeeps,
     WakeForQueuedKeeps, CheckpointKeeps, ClearForegroundTaskTargetKeeps, ReleaseKeeps
<1>4. CASE OtherEvent
  BY <1>4, OtherEventKeeps
<1>5. CASE UNCHANGED vars
  BY <1>5, StutterKeeps
<1>. QED BY <1>1, <1>2, <1>3, <1>4, <1>5 DEF Next

(* The platform keeps its invariant, for any number of isolates that follow
   each other at one address, of threads that post and of tasks. *)
THEOREM PlatformInvariant == Spec => []Inv
  BY InitInv, NextInv, PTL DEF Spec

-----------------------------------------------------------------------------
(* What the invariant gives.                                               *)

(* GetState under the isolate's address finds the isolate's own state until
   the platform is told of the shutdown, whatever the previous isolate's
   tasks and waiter still do. *)
THEOREM IsolateFindsItsState == Spec => []LiveIsolateRegistered
<1>1. Inv => LiveIsolateRegistered
  BY DEF Inv, RegInv, LiveIsolateRegistered, Before, Early
<1>. QED BY <1>1, PlatformInvariant, PTL

(* pending_foreground_tasks is the number of tasks that are counted and not
   yet run or dropped: it is never taken below, and reaches zero only when
   nothing is left. *)
THEOREM PendingCountsTasks == Spec => []PendingExact
<1>1. Inv => PendingExact
  BY DEF Inv, CountInv, Handing, PendingExact
<1>. QED BY <1>1, PlatformInvariant, PTL

(* OnPlatformShutdownFinished is called at most once for a waiter. *)
THEOREM OneCallPerWaiter == Spec => []WaiterCalledOnce
<1>1. Inv => WaiterCalledOnce
  BY DEF Inv, CallInv, WaiterCalledOnce
<1>. QED BY <1>1, PlatformInvariant, PTL

(* The checkpoints of an isolate run tasks of that isolate only, unless
   libplatform made a runner for an isolate it had shut down. *)
THEOREM ChecksOwnQueue == Spec => []QueueIsOwn
<1>1. Inv => QueueIsOwn
  <2>. SUFFICES ASSUME Inv, ~ stray, NEW i \in Isolates, own[i] = "live", NEW q \in DOMAIN libq, libq[q] > 0
                PROVE  q[1][1] = i
    BY DEF QueueIsOwn
  <2>1. q \in Queues
    BY DEF Inv, Types
  <2>2. PICK s \in States, d \in Delays : q = <<s, d>> /\ q[1] = s
    BY <2>1, QueueFacts
  <2>3. own[s[1]] \in Early /\ s[1] \in Isolates
    BY <2>2, StateFacts DEF Inv, QueueInv
  <2>4. s[1] = i
    BY <2>3, OneAtATime DEF Early
  <2>. QED BY <2>2, <2>4
<1>. QED BY <1>1, PlatformInvariant, PTL

(* A task queued for an isolate that is not terminating has a checkpoint
   coming, also after a termination that was cancelled. *)
THEOREM WakeupsArrive == Spec => []NoLostWakeup
<1>1. Inv => NoLostWakeup
  BY DEF Inv, WakeInv
<1>. QED BY <1>1, PlatformInvariant, PTL
=============================================================================
