--------------------------- MODULE V8ReleaseProofs ---------------------------
(***************************************************************************)
(* V8's release keeps the contract of EnvRelease, for every number of      *)
(* registrations of every kind.  The inductive invariant says where the    *)
(* env's thread may stand (StackInv), which list names an item of each     *)
(* kind and life (ListInv), who holds the finalizer of an external buffer  *)
(* (StoreInv), and what is gone at the end (EndInv).                       *)
(***************************************************************************)
EXTENDS V8Release, FiniteSetTheorems, NaturalsInduction, WellFoundedInduction,
        SequenceTheorems, TLAPS

-----------------------------------------------------------------------------
\* What Max, Append and Front do.

(* A set of numbers up to hi that is not empty has a largest one, which is what
   Max computes. *)
LEMMA MaxNat ==
  ASSUME NEW hi \in Nat, NEW S \in SUBSET (0..hi), S # {}
  PROVE  Max(S) \in S /\ \A y \in S : y <= Max(S)
<1>. DEFINE T == {n \in Nat : \A y \in S : y <= n}
            R == OpToRel(<, Nat)
<1>1. S \subseteq Nat /\ \A y \in S : y <= hi
  OBVIOUS
<1>2. hi \in T
  BY <1>1
<1>3. \E x \in T : \A y \in T : ~ (<<y, x>> \in R)
  <2>1. IsWellFoundedOn(R, Nat)
    BY NatLessThanWellFounded
  <2>2. T \subseteq Nat /\ T # {}
    BY <1>2
  <2>. HIDE DEF R, T
  <2>. QED BY <2>1, <2>2, WFMin
<1>4. \A x, y \in Nat : <<y, x>> \in R <=> y < x
  BY DEF OpToRel
<1>5. PICK x \in T : \A y \in T : ~ (y < x)
  <2>. HIDE DEF R
  <2>. QED BY <1>3, <1>4
<1>6. x \in S
  <2>1. ASSUME x \notin S PROVE FALSE
    <3>1. \A y \in S : y \in Nat /\ y <= x /\ y # x
      BY <2>1, <1>1
    <3>2. PICK y \in S : TRUE
      OBVIOUS
    <3>3. x \in Nat /\ x >= 1
      BY <3>1, <3>2
    <3>4. x - 1 \in Nat /\ \A z \in S : z <= x - 1
      BY <3>1, <3>3
    <3>5. x - 1 \in T
      BY <3>4
    <3>. QED BY <3>3, <3>5, <1>5
  <2>. QED BY <2>1
<1>7. x \in S /\ \A y \in S : x >= y
  BY <1>6, <1>1
<1>8. Max(S) \in S /\ \A y \in S : Max(S) >= y
  BY <1>7 DEF Max
<1>. QED BY <1>8, <1>1

(* The last element is gone. *)
LEMMA Popped ==
  ASSUME NEW F, NEW s \in Seq(F), Len(s) >= 1
  PROVE  /\ Front(s) \in Seq(F) /\ Len(Front(s)) = Len(s) - 1
         /\ \A n \in 1..Len(s) - 1 : Front(s)[n] = s[n]
<1>. DEFINE k == Len(s) - 1
<1>1. k \in Nat /\ \A i \in 1..k : s[i] \in F
  OBVIOUS
<1>. HIDE DEF k
<1>2. /\ SubSeq(s, 1, k) \in Seq(F)
      /\ Len(SubSeq(s, 1, k)) = IF 1 <= k THEN k - 1 + 1 ELSE 0
      /\ \A i \in 1..k - 1 + 1 : SubSeq(s, 1, k)[i] = s[1 + i - 1]
  BY <1>1, SubSeqProperties
<1>3. (IF 1 <= k THEN k - 1 + 1 ELSE 0) = k /\ k - 1 + 1 = k /\ \A i \in 1..k : 1 + i - 1 = i
  BY <1>1
<1>4. Front(s) = SubSeq(s, 1, k)
  BY DEF Front, k
<1>. QED BY <1>2, <1>3, <1>4 DEF k

(* An element is put after the others. *)
LEMMA Pushed ==
  ASSUME NEW F, NEW s \in Seq(F), NEW f \in F
  PROVE  LET r == Append(s, f)
         IN /\ r \in Seq(F) /\ Len(r) = Len(s) + 1 /\ r[Len(s) + 1] = f
            /\ \A n \in 1..Len(s) : r[n] = s[n]
  OBVIOUS

(* The last element is replaced. *)
LEMMA Replaced ==
  ASSUME NEW F, NEW s \in Seq(F), Len(s) >= 1, NEW f \in F
  PROVE  LET r == Append(Front(s), f)
         IN /\ r \in Seq(F) /\ Len(r) = Len(s) /\ r[Len(s)] = f
            /\ \A n \in 1..Len(s) - 1 : r[n] = s[n]
<1>. DEFINE q == Front(s)
<1>1. q \in Seq(F) /\ Len(q) = Len(s) - 1 /\ \A n \in 1..Len(s) - 1 : q[n] = s[n]
  BY Popped
<1>. HIDE DEF q
<1>2. Append(q, f) \in Seq(F) /\ Len(Append(q, f)) = Len(q) + 1 /\ Append(q, f)[Len(q) + 1] = f
      /\ \A n \in 1..Len(q) : Append(q, f)[n] = q[n]
  BY <1>1, Pushed
<1>3. Len(s) \in Nat /\ Len(q) + 1 = Len(s) /\ Len(q) = Len(s) - 1
  BY <1>1
<1>. QED BY <1>1, <1>2, <1>3 DEF q

(* The last element is replaced and another is put after it. *)
LEMMA CalledOver ==
  ASSUME NEW F, NEW s \in Seq(F), Len(s) >= 1, NEW f \in F, NEW g \in F
  PROVE  LET r == Append(Append(Front(s), f), g)
         IN /\ r \in Seq(F) /\ Len(r) = Len(s) + 1 /\ r[Len(s)] = f /\ r[Len(s) + 1] = g
            /\ \A n \in 1..Len(s) - 1 : r[n] = s[n]
<1>. DEFINE q == Append(Front(s), f)
<1>1. q \in Seq(F) /\ Len(q) = Len(s) /\ q[Len(s)] = f /\ \A n \in 1..Len(s) - 1 : q[n] = s[n]
  BY Replaced
<1>. HIDE DEF q
<1>2. Append(q, g) \in Seq(F) /\ Len(Append(q, g)) = Len(q) + 1 /\ Append(q, g)[Len(q) + 1] = g
      /\ \A n \in 1..Len(q) : Append(q, g)[n] = q[n]
  BY <1>1, Pushed
<1>3. Len(s) \in 1..Len(q) /\ \A n \in 1..Len(s) - 1 : n \in 1..Len(q)
  BY <1>1
<1>. QED BY <1>1, <1>2, <1>3 DEF q

-----------------------------------------------------------------------------

DrainAt == {"drain", "drainExternal"}
AloneAt == {"hooks", "pick", "claim", "swap", "runClaimed", "round", "wait"}
ReleaseAt == AloneAt \cup {"tokens", "tokensAgain", "runHooks", "refs", "take"}
StoreAt == DrainAt \cup {"take", "pick", "claim"}

Frames == [at : {"user", "callback"} \cup DrainAt \cup ReleaseAt,
           item : Items \cup {0}, set : SUBSET Items]

Types ==
  /\ phase \in {"open", "releasing", "closed"} /\ hooked \in BOOLEAN
  /\ kind \in [Items -> Kinds \cup {"none"}]
  /\ life \in [Items -> {"none", "live", "done", "withdrawn"}]
  /\ runs \in [Items -> Nat]
  /\ hooks \subseteq Items /\ refs \subseteq Items /\ pending \subseteq Items
  /\ tokens \subseteq Items /\ instance \subseteq Items /\ hints \subseteq Items
  /\ tracked \subseteq Items /\ queue \subseteq Items /\ stores \subseteq Items
  /\ attached \subseteq Items
  /\ posted \in BOOLEAN /\ tasks \in Nat
  /\ deleter \in [Items -> {"none", "posting", "posted", "refused", "done"}]
  /\ calls \in Seq(Frames)

\* The embedder's code is at the bottom, the release's own frame, if there is
\* one, right above it, and above that only callbacks and drains.
StackInv ==
  /\ Len(calls) >= 1
  /\ phase = "releasing" => Len(calls) >= 2
  /\ phase = "closed" => Len(calls) = 1
  /\ \A n \in 1..Len(calls) :
       /\ calls[n].at = "user" <=> n = 1
       /\ calls[n].at \in ReleaseAt <=> (n = 2 /\ phase = "releasing")
       /\ calls[n].at \in {"callback", "claim"} => calls[n].item \in Items
       /\ calls[n].at \notin StoreAt \cup {"runHooks"} => calls[n].set = {}
       /\ calls[n].at \in DrainAt /\ phase # "open" => calls[n].set = {}
       /\ calls[n].at \in AloneAt => Len(calls) = 2

Running(i) == \E n \in 1..Len(calls) : calls[n].at = "callback" /\ calls[n].item = i

\* A live item is on the list of its kind, and what is on a list is live; a
\* cleanup hook stays on its list while it runs.
ListInv ==
  /\ \A i, j \in instance : i = j
  /\ \A i \in Items :
       /\ life[i] = "none" <=> kind[i] = "none"
       /\ runs[i] = IF life[i] = "done" THEN 1 ELSE 0
       /\ i \in hooks => kind[i] = "hook"
       /\ kind[i] = "hook" /\ life[i] = "live" => i \in hooks
       /\ i \in hooks /\ life[i] # "live" => Running(i)
       /\ Running(i) => life[i] = "done"
       /\ i \in refs <=> kind[i] = "ref" /\ life[i] = "live"
       /\ i \in pending => kind[i] = "ref"
       /\ i \in tokens <=> kind[i] = "token" /\ life[i] = "live"
       /\ i \in instance <=> kind[i] = "instance" /\ life[i] = "live"
       /\ i \in hints => kind[i] \in {"store", "memory"} /\ life[i] = "live"
       /\ kind[i] = "memory" /\ life[i] = "live" => i \in hints

LiveStore(i) == kind[i] = "store" /\ life[i] = "live"

Holds(n, i) == calls[n].at \in StoreAt /\ i \in calls[n].set

\* The pass of the release has a buffer in its hands, or is about to take it.
Seen(i) ==
  \/ calls[2].at = "claim" /\ calls[2].item = i
  \/ calls[2].at \in {"take", "pick", "claim"} /\ i \in calls[2].set
  \/ calls[2].at = "take" /\ i \in queue

TrackedLive == \A i \in tracked : LiveStore(i)

QueuedLive == \A i \in queue : LiveStore(i) /\ i \notin hints /\ i \notin attached

HeldOnce ==
  \A n \in 1..Len(calls), i \in Items :
    Holds(n, i) => /\ LiveStore(i) /\ i \notin hints /\ i \notin queue /\ i \notin attached
                   /\ \A m \in 1..Len(calls) : Holds(m, i) => m = n

Owned ==
  \A i \in Items :
    LiveStore(i) => i \in hints \/ i \in queue \/ \E n \in 1..Len(calls) : Holds(n, i)

InSight ==
  \A i \in Items : LiveStore(i) => i \in tracked \/ (phase = "releasing" /\ Seen(i))

ClaimsNewest ==
  phase = "releasing" /\ calls[2].at = "claim" =>
    LET c == calls[2].item
    IN /\ LiveStore(c) /\ c \notin tracked /\ c \notin attached /\ c \notin calls[2].set
       /\ \A i \in Items : LiveStore(i) => i <= c

\* The finalizer of an external buffer is the hint's, queued, or in the hands
\* of one pass; and the release's pass does not lose sight of a buffer.
StoreInv ==
  TrackedLive /\ QueuedLive /\ HeldOnce /\ Owned /\ InSight /\ ClaimsNewest /\ DetachedFirst

\* What is gone when the release is about to end, and after it.
EndInv ==
  /\ phase = "releasing" =>
       /\ calls[2].at \in {"swap", "runClaimed", "round", "wait"} => tracked = {}
       /\ calls[2].at \in {"round", "wait"} => hints = {}
       /\ calls[2].at = "wait" => hooks \cup refs \cup tokens \cup instance = {}
  /\ phase = "closed" =>
       /\ hints \cup tracked \cup queue \cup refs \cup hooks \cup tokens \cup instance = {}
       /\ \A i \in Items : deleter[i] \in {"none", "done"}

\* A queued finalizer counts as posted only while a drain is on its way, or a
\* deleter is between its decision and the end of its post.
PostInv ==
  /\ \A i \in Items : /\ i \in stores \/ life[i] = "none" => deleter[i] = "none"
                      /\ i \in stores => life[i] # "none"
  /\ phase = "open" /\ posted =>
       /\ queue # {}
       /\ tasks > 0 \/ \E i \in Items : deleter[i] \in {"posting", "refused"}

Inv == Types /\ StackInv /\ ListInv /\ StoreInv /\ EndInv /\ PostInv

-----------------------------------------------------------------------------
(* The newest of some items.                                               *)

(* What Max computes of item numbers. *)
LEMMA MaxOfItems ==
  ASSUME NEW S \in SUBSET (Items \cup {0}), S # {}
  PROVE  Max(S) \in S /\ \A y \in S : y <= Max(S)
<1>1. S \in SUBSET (0..N) /\ N \in Nat
  BY NAssumption DEF Items
<1>. QED BY <1>1, MaxNat

-----------------------------------------------------------------------------
(* The frames a step leaves behind.                                        *)

\* What a frame must be to stand where the top one stands.
Fits(f) ==
  /\ f \in Frames
  /\ f.at = "user" <=> Top.at = "user"
  /\ f.at \in ReleaseAt <=> Top.at \in ReleaseAt
  /\ f.at # "callback"
  /\ f.at = "claim" => f.item \in Items
  /\ f.at \notin StoreAt \cup {"runHooks"} => f.set = {}
  /\ f.at \in DrainAt /\ phase # "open" => f.set = {}

Below(k) == \A n \in 1..k : calls'[n] = calls[n]

(* The top frame, and every other, is a frame. *)
LEMMA StackTop ==
  ASSUME Inv
  PROVE  /\ Len(calls) \in Nat /\ Len(calls) >= 1 /\ Top = calls[Len(calls)] /\ Top \in Frames
         /\ Len(calls) \in 1..Len(calls) /\ \A n \in 1..Len(calls) : calls[n] \in Frames
<1>1. Len(calls) \in Nat /\ \A n \in 1..Len(calls) : calls[n] \in Frames
  BY DEF Inv, Types
<1>2. Len(calls) >= 1
  BY DEF Inv, StackInv
<1>. QED BY <1>1, <1>2 DEF Top, Last

(* A step that goes on in the same place. *)
LEMMA StackGoto ==
  ASSUME Inv, NEW f, Fits(f), Goto(f), phase' = phase, Top.at # "callback",
         f.at \in AloneAt => Len(calls) = 2
  PROVE  /\ calls' \in Seq(Frames) /\ StackInv'
         /\ Len(calls') = Len(calls) /\ calls'[Len(calls)] = f /\ Below(Len(calls) - 1)
         /\ \A i : Running(i)' <=> Running(i)
<1>1. /\ calls' \in Seq(Frames) /\ Len(calls') = Len(calls) /\ calls'[Len(calls)] = f
      /\ \A n \in 1..Len(calls) - 1 : calls'[n] = calls[n]
  BY StackTop, Replaced DEF Inv, Types, Fits, Goto
<1>2. StackInv'
  BY <1>1, StackTop DEF Inv, StackInv, Fits, AloneAt
<1>3. \A i : Running(i)' <=> Running(i)
  BY <1>1, StackTop DEF Running, Fits
<1>. QED BY <1>1, <1>2, <1>3 DEF Below

(* A step that calls into native code. *)
LEMMA StackCall ==
  ASSUME Inv, NEW f, Fits(f), NEW i \in Items, CallThen(i, f), phase' = phase,
         Top.at \notin {"user", "callback"}, f.at \notin AloneAt
  PROVE  /\ calls' \in Seq(Frames) /\ StackInv'
         /\ Len(calls') = Len(calls) + 1 /\ calls'[Len(calls)] = f /\ Below(Len(calls) - 1)
         /\ calls'[Len(calls) + 1] = Frame("callback", i, {})
         /\ \A j : Running(j)' <=> (Running(j) \/ j = i)
<1>0. Frame("callback", i, {}) \in Frames
  BY DEF Frame, Frames
<1>1. /\ calls' \in Seq(Frames) /\ Len(calls') = Len(calls) + 1 /\ calls'[Len(calls)] = f
      /\ \A n \in 1..Len(calls) - 1 : calls'[n] = calls[n]
      /\ calls'[Len(calls) + 1] = Frame("callback", i, {})
  BY <1>0, StackTop, CalledOver DEF Inv, Types, Fits, CallThen
<1>2. StackInv'
  <2>1. \A n \in 1..Len(calls') : n \in 1..Len(calls) - 1 \/ n = Len(calls) \/ n = Len(calls) + 1
    BY <1>1, StackTop
  <2>2. \A n \in 1..Len(calls) - 1 : calls[n].at \notin AloneAt
    BY StackTop DEF Inv, StackInv, AloneAt
  <2>3. /\ phase = "releasing" => Len(calls) >= 2
        /\ phase # "closed"
        /\ Len(calls) = 1 <=> Top.at = "user"
        /\ Top.at \in ReleaseAt <=> (Len(calls) = 2 /\ phase = "releasing")
    BY StackTop DEF Inv, StackInv, Fits, Frame, AloneAt, ReleaseAt
  <2>4. \A n \in 1..Len(calls) - 1 :
          /\ calls[n].at = "user" <=> n = 1
          /\ calls[n].at \in ReleaseAt <=> (n = 2 /\ phase = "releasing")
          /\ calls[n].at \in {"callback", "claim"} => calls[n].item \in Items
          /\ calls[n].at \notin StoreAt \cup {"runHooks"} => calls[n].set = {}
          /\ calls[n].at \in DrainAt /\ phase # "open" => calls[n].set = {}
    BY StackTop DEF Inv, StackInv
  <2>5. "callback" \notin ReleaseAt \cup DrainAt \cup AloneAt
    BY DEF AloneAt, ReleaseAt, DrainAt
  <2>6. Len(calls') >= 1 /\ (phase' = "releasing" => Len(calls') >= 2) /\ phase' # "closed"
    BY <1>1, <2>3, StackTop
  <2>7. ASSUME NEW n \in 1..Len(calls')
        PROVE  /\ calls'[n].at = "user" <=> n = 1
               /\ calls'[n].at \in ReleaseAt <=> (n = 2 /\ phase' = "releasing")
               /\ calls'[n].at \in {"callback", "claim"} => calls'[n].item \in Items
               /\ calls'[n].at \notin StoreAt \cup {"runHooks"} => calls'[n].set = {}
               /\ calls'[n].at \in DrainAt /\ phase' # "open" => calls'[n].set = {}
               /\ calls'[n].at \notin AloneAt
    <3>1. CASE n \in 1..Len(calls) - 1
      BY <1>1, <2>2, <2>4, <3>1
    <3>2. CASE n = Len(calls)
      BY <1>1, <2>3, <3>2, StackTop DEF Fits
    <3>3. CASE n = Len(calls) + 1
      BY <1>1, <2>3, <2>5, <3>3, StackTop DEF Frame
    <3>. QED BY <2>1, <3>1, <3>2, <3>3
  <2>. QED BY <2>6, <2>7 DEF StackInv
<1>3. \A j : Running(j) => Running(j)'
  BY <1>1, StackTop DEF Running
<1>4. Running(i)'
  BY <1>1, StackTop DEF Running, Frame
<1>5. \A j : Running(j)' => Running(j) \/ j = i
  <2>1. \A n \in 1..Len(calls') : n \in 1..Len(calls) - 1 \/ n = Len(calls) \/ n = Len(calls) + 1
    BY <1>1, StackTop
  <2>2. \A n \in 1..Len(calls) - 1 : n \in 1..Len(calls)
    BY StackTop
  <2>. QED BY <1>1, <2>1, <2>2 DEF Running, Frame, Fits
<1>. QED BY <1>1, <1>2, <1>3, <1>4, <1>5 DEF Below

(* A callback or a drain ends. *)
LEMMA StackPop ==
  ASSUME Inv, calls' = Front(calls), phase' = phase, Top.at \in {"callback"} \cup DrainAt
  PROVE  /\ calls' \in Seq(Frames) /\ StackInv'
         /\ Len(calls') = Len(calls) - 1 /\ Below(Len(calls) - 1)
         /\ \A i : Running(i) /\ ~ (At("callback") /\ Top.item = i) => Running(i)'
         /\ \A i : Running(i)' => Running(i)
<1>1. /\ calls' \in Seq(Frames) /\ Len(calls') = Len(calls) - 1
      /\ \A n \in 1..Len(calls) - 1 : calls'[n] = calls[n]
  BY StackTop, Popped DEF Inv, Types
<1>2. StackInv'
  <2>1. Len(calls) >= 2 /\ (phase = "releasing" => Len(calls) >= 3) /\ phase # "closed"
    BY StackTop DEF Inv, StackInv, DrainAt, ReleaseAt, AloneAt
  <2>2. \A n \in 1..Len(calls') : calls[n].at \notin AloneAt
    BY <1>1, <2>1, StackTop DEF Inv, StackInv, DrainAt, ReleaseAt, AloneAt
  <2>. QED BY <1>1, <2>1, <2>2, StackTop DEF Inv, StackInv
<1>3. \A i : Running(i) /\ ~ (At("callback") /\ Top.item = i) => Running(i)'
  BY <1>1, StackTop DEF Running, At
<1>4. \A i : Running(i)' => Running(i)
  BY <1>1, StackTop DEF Running
<1>. QED BY <1>1, <1>2, <1>3, <1>4 DEF Below

(* A drain begins over native code. *)
LEMMA StackPush ==
  ASSUME Inv, NEW S \in SUBSET Items, calls' = Append(calls, Frame("drain", 0, S)), phase' = phase,
         InUserCode, phase # "closed", phase # "open" => S = {}
  PROVE  /\ calls' \in Seq(Frames) /\ StackInv'
         /\ Len(calls') = Len(calls) + 1 /\ Below(Len(calls))
         /\ calls'[Len(calls) + 1] = Frame("drain", 0, S)
         /\ \A i : Running(i)' <=> Running(i)
<1>0. Frame("drain", 0, S) \in Frames
  BY DEF Frame, Frames, DrainAt
<1>1. /\ calls' \in Seq(Frames) /\ Len(calls') = Len(calls) + 1
      /\ \A n \in 1..Len(calls) : calls'[n] = calls[n]
      /\ calls'[Len(calls) + 1] = Frame("drain", 0, S)
  BY <1>0, Pushed DEF Inv, Types
<1>2. StackInv'
  <2>1. \A n \in 1..Len(calls') : n \in 1..Len(calls) \/ n = Len(calls) + 1
    BY <1>1, StackTop
  <2>2. \A n \in 1..Len(calls) : calls[n].at \notin AloneAt
    BY StackTop DEF Inv, StackInv, InUserCode, ReleaseAt, AloneAt
  <2>. QED BY <1>1, <2>1, <2>2, StackTop DEF Inv, StackInv, Frame, AloneAt, ReleaseAt, DrainAt, StoreAt
<1>3. \A i : Running(i)' <=> Running(i)
  BY <1>1, StackTop DEF Running, Frame
<1>. QED BY <1>1, <1>2, <1>3 DEF Below

-----------------------------------------------------------------------------
(* What native code does leaves the stack alone.                           *)

(* Native code never runs over a step of the release that makes no calls. *)
LEMMA NotAlone ==
  ASSUME Inv, InUserCode
  PROVE  phase = "releasing" => 2 \in 1..Len(calls) /\ calls[2].at \notin AloneAt
<1>1. Len(calls) \in Nat /\ Top = calls[Len(calls)]
  BY DEF Inv, Types, Top, Last
<1>. QED BY <1>1 DEF Inv, StackInv, InUserCode, AloneAt

(* StoreInv looks at the items only through LiveStore and what has run, and at
   the frames through what they hold and the pass of the release. *)
LEMMA StoresKept ==
  ASSUME Inv, StackInv', UNCHANGED <<tracked, queue, hints, phase>>, attached' \subseteq attached,
         \A j \in Items : LiveStore(j)' <=> LiveStore(j),
         \A j \in Items : (kind[j] = "store" /\ life[j] = "done")' =>
                            kind[j] = "store" /\ life[j] = "done",
         \A n \in 1..Len(calls'), j \in Items : Holds(n, j)' => n \in 1..Len(calls) /\ Holds(n, j),
         \A n \in 1..Len(calls), j \in Items : Holds(n, j) => n \in 1..Len(calls') /\ Holds(n, j)',
         phase = "releasing" =>
           /\ \A j \in Items : Seen(j) => Seen(j)'
           /\ calls'[2].at = "claim" => calls'[2] = calls[2]
  PROVE  StoreInv'
<1>1. tracked \subseteq Items /\ queue \subseteq Items
  BY DEF Inv, Types
<1>2. phase' = "releasing" /\ calls'[2].at = "claim" => calls'[2].item \in Items
  BY DEF StackInv
<1>. USE DEF Inv, StoreInv
<1>4. TrackedLive' /\ QueuedLive'
  BY <1>1 DEF TrackedLive, QueuedLive
<1>5. HeldOnce' /\ Owned'
  BY DEF HeldOnce, Owned
<1>6. InSight'
  BY DEF InSight
<1>7. ClaimsNewest'
  BY <1>2 DEF ClaimsNewest
<1>8. DetachedFirst'
  BY DEF DetachedFirst
<1>. QED BY <1>4, <1>5, <1>6, <1>7, <1>8

(* The same, for a step that leaves the stack alone. *)
LEMMA StoresAlike ==
  ASSUME Inv, UNCHANGED <<tracked, queue, hints, phase, calls>>, attached' \subseteq attached,
         \A j \in Items : LiveStore(j)' <=> LiveStore(j),
         \A j \in Items : (kind[j] = "store" /\ life[j] = "done")' =>
                            kind[j] = "store" /\ life[j] = "done"
  PROVE  StoreInv'
<1>1. /\ \A n, i : Holds(n, i)' <=> Holds(n, i)
      /\ \A i : Seen(i)' <=> Seen(i)
  BY DEF Holds, Seen
<1>2. StackInv'
  BY DEF Inv, StackInv
<1>. QED BY <1>1, <1>2, StoresKept

(* A registration goes on the list of its kind. *)
LEMMA MakeKeeps ==
  ASSUME Inv, NEW i \in Items, NEW k \in Kinds, Make(i, k)
  PROVE  Inv'
<1>1. Types'
  BY DEF Inv, Types, Make, item, kept, external
<1>2. StackInv'
  BY DEF Inv, StackInv, Make, item, kept, external
<1>3. ListInv'
  <2>1. /\ \A j \in Items : j # i => kind'[j] = kind[j] /\ life'[j] = IF k = "instance" /\ j \in instance THEN "withdrawn" ELSE life[j]
        /\ kind'[i] = k /\ life'[i] = "live" /\ k # "none" /\ life[i] = "none" /\ kind[i] = "none"
    BY KindsAssumption DEF Inv, Types, ListInv, Make
  <2>2. \A j \in Items : life'[j] = "none" <=> kind'[j] = "none"
    BY <2>1 DEF Inv, ListInv
  <2>3. \A j \in Items : runs'[j] = IF life'[j] = "done" THEN 1 ELSE 0
    BY <2>1 DEF Inv, ListInv, Make
  <2>4. \A j \in Items : /\ j \in hooks' => kind'[j] = "hook"
                         /\ kind'[j] = "hook" /\ life'[j] = "live" => j \in hooks'
                         /\ j \in hooks' /\ life'[j] # "live" => Running(j)'
                         /\ Running(j)' => life'[j] = "done"
    BY <2>1 DEF Inv, ListInv, Make, Running
  <2>5. \A j \in Items : /\ j \in refs' <=> kind'[j] = "ref" /\ life'[j] = "live"
                         /\ j \in pending' => kind'[j] = "ref"
                         /\ j \in tokens' <=> kind'[j] = "token" /\ life'[j] = "live"
    BY <2>1 DEF Inv, ListInv, Make
  <2>6. /\ \A j \in Items : j \in instance' <=> kind'[j] = "instance" /\ life'[j] = "live"
        /\ \A j, l \in instance' : j = l
    BY <2>1 DEF Inv, ListInv, Make
  <2>7. \A j \in Items : /\ j \in hints' => kind'[j] \in {"store", "memory"} /\ life'[j] = "live"
                         /\ kind'[j] = "memory" /\ life'[j] = "live" => j \in hints'
    BY <2>1 DEF Inv, ListInv, Make
  <2>. QED BY <2>2, <2>3, <2>4, <2>5, <2>6, <2>7 DEF ListInv
<1>4. StoreInv'
  <2>1. /\ \A j \in Items : j # i => (LiveStore(j)' <=> LiveStore(j)) /\ (kind'[j] = kind[j] /\ (life'[j] = "done" <=> life[j] = "done"))
        /\ LiveStore(i)' <=> k = "store"
        /\ life'[i] = "live" /\ ~ LiveStore(i) /\ kind[i] = "none"
    BY DEF Inv, Types, ListInv, Make, LiveStore
  <2>2. /\ \A n, j : Holds(n, j)' <=> Holds(n, j)
        /\ \A j : Seen(j)' <=> Seen(j)
    BY DEF Holds, Seen, Make
  <2>. USE DEF Inv, StoreInv
  <2>3. TrackedLive' /\ QueuedLive'
    <3>1. \A j \in tracked' : LiveStore(j)'
      BY <2>1 DEF TrackedLive, Make, Types
    <3>2. \A j \in queue' : j \in Items /\ j # i /\ LiveStore(j)' /\ j \notin hints' /\ j \notin attached'
      BY <2>1 DEF QueuedLive, Make, Types
    <3>. QED BY <3>1, <3>2 DEF TrackedLive, QueuedLive
  <2>4. HeldOnce'
    <3>1. \A n \in 1..Len(calls) : ~ Holds(n, i)
      BY <2>1 DEF HeldOnce
    <3>. QED BY <2>1, <2>2, <3>1 DEF HeldOnce, Make
  <2>5. Owned' /\ InSight'
    <3>1. /\ UNCHANGED <<queue, calls, phase>> /\ hints \subseteq hints' /\ tracked \subseteq tracked'
          /\ k = "store" => i \in hints' /\ i \in tracked'
      BY DEF Make
    <3>2. ASSUME NEW j \in Items, LiveStore(j)'
          PROVE  (j = i /\ k = "store") \/ LiveStore(j)
      BY <2>1, <3>2
    <3>3. Owned'
      BY <2>2, <3>1, <3>2 DEF Owned
    <3>4. InSight'
      BY <2>2, <3>1, <3>2 DEF InSight
    <3>. QED BY <3>3, <3>4
  <2>6. ClaimsNewest'
    BY NotAlone DEF ClaimsNewest, AloneAt, Make
  <2>7. DetachedFirst'
    BY <2>1 DEF DetachedFirst, Make, Types
  <2>. QED BY <2>3, <2>4, <2>5, <2>6, <2>7
<1>5. EndInv'
  BY NotAlone DEF Inv, EndInv, AloneAt, Make
<1>6. PostInv'
  BY DEF Inv, Types, PostInv, Make, item, kept, external
<1>. QED BY <1>1, <1>2, <1>3, <1>4, <1>5, <1>6 DEF Inv

(* A hook that is removed is off its list. *)
LEMMA RemoveHookKeeps ==
  ASSUME Inv, NEW h \in Items, RemoveHook(h)
  PROVE  Inv'
<1>1. Types'
  BY DEF Inv, Types, RemoveHook, item, kept, external
<1>2. StackInv'
  BY DEF Inv, Types, StackInv, RemoveHook, item, kept, external
<1>3. ListInv'
  BY DEF Inv, Types, ListInv, Running, RemoveHook, item, kept, external
<1>4. StoreInv'
  <2>1. kind[h] # "store" /\ UNCHANGED <<kind, tracked, queue, hints, attached, phase, calls>>
        /\ \A j \in Items \ {h} : life'[j] = life[j]
    BY DEF Inv, Types, ListInv, RemoveHook, external
  <2>. QED BY <2>1, StoresAlike DEF LiveStore
<1>5. EndInv'
  BY DEF Inv, Types, EndInv, RemoveHook, item, kept, external
<1>6. PostInv'
  BY DEF Inv, Types, PostInv, RemoveHook, item, kept, external
<1>. QED BY <1>1, <1>2, <1>3, <1>4, <1>5, <1>6 DEF Inv

(* A reference that is deleted is off both lists. *)
LEMMA DeleteReferenceKeeps ==
  ASSUME Inv, NEW r \in Items, DeleteReference(r)
  PROVE  Inv'
<1>1. Types'
  BY DEF Inv, Types, DeleteReference, item, kept, external
<1>2. StackInv'
  BY DEF Inv, Types, StackInv, DeleteReference, item, kept, external
<1>3. ListInv'
  BY DEF Inv, Types, ListInv, Running, DeleteReference, item, kept, external
<1>4. StoreInv'
  <2>1. kind[r] # "store" /\ UNCHANGED <<kind, tracked, queue, hints, attached, phase, calls>>
        /\ \A j \in Items \ {r} : life'[j] = life[j]
    BY DEF Inv, Types, ListInv, DeleteReference, external
  <2>. QED BY <2>1, StoresAlike DEF LiveStore
<1>5. EndInv'
  BY DEF Inv, Types, EndInv, DeleteReference, item, kept, external
<1>6. PostInv'
  BY DEF Inv, Types, PostInv, DeleteReference, item, kept, external
<1>. QED BY <1>1, <1>2, <1>3, <1>4, <1>5, <1>6 DEF Inv

(* A buffer that is detached keeps its finalizer. *)
LEMMA DetachKeeps ==
  ASSUME Inv, NEW i \in Items, Detach(i)
  PROVE  Inv'
<1>1. Types'
  BY DEF Inv, Types, Detach, item, kept, external
<1>2. StackInv'
  BY DEF Inv, Types, StackInv, Detach, item, kept, external
<1>3. ListInv'
  BY DEF Inv, Types, ListInv, Running, Detach, item, kept, external
<1>4. StoreInv'
  BY StoresAlike DEF Detach, LiveStore, item
<1>5. EndInv'
  BY DEF Inv, Types, EndInv, Detach, item, kept, external
<1>6. PostInv'
  BY DEF Inv, Types, PostInv, Detach, item, kept, external
<1>. QED BY <1>1, <1>2, <1>3, <1>4, <1>5, <1>6 DEF Inv

(* A collected reference stays on its list until a drain. *)
LEMMA CollectKeeps ==
  ASSUME Inv, NEW r \in Items, Collect(r)
  PROVE  Inv'
<1>1. Types'
  BY DEF Inv, Types, Collect, item, kept, external, Schedule
<1>2. StackInv'
  BY DEF Inv, Types, StackInv, Collect, item, kept, external, Schedule
<1>3. ListInv'
  BY DEF Inv, Types, ListInv, Running, Collect, item, kept, external, Schedule
<1>4. StoreInv'
  BY StoresAlike DEF Collect, LiveStore, item, external
<1>5. EndInv'
  BY DEF Inv, Types, EndInv, Collect, item, kept, external, Schedule
<1>6. PostInv'
  BY DEF Inv, Types, PostInv, Collect, item, kept, external, Schedule
<1>. QED BY <1>1, <1>2, <1>3, <1>4, <1>5, <1>6 DEF Inv

(* A store's deleter queues the finalizer or finds it claimed. *)
LEMMA DeleteKeeps ==
  ASSUME Inv, NEW i \in Items, Delete(i)
  PROVE  Inv'
<1>1. Types'
  BY DEF Inv, Types, Delete, item, kept, external, DropStore, Ran
<1>2. StackInv'
  BY DEF Inv, Types, StackInv, Delete, item, kept, external, DropStore, Ran
<1>3. ListInv'
  BY DEF Inv, Types, ListInv, Running, Delete, item, kept, external, DropStore, Ran
<1>4. StoreInv'
  <2>1. \A j \in Items : (LiveStore(j)' <=> LiveStore(j)) /\ kind'[j] = kind[j]
                         /\ (kind[j] = "store" => life'[j] = life[j])
    BY DEF Inv, Types, Delete, DropStore, Ran, LiveStore
  <2>2. \A n, j : Holds(n, j)' <=> Holds(n, j)
    BY DEF Holds, Delete, DropStore
  <2>3. \A j \in Items : Seen(j) => Seen(j)'
    BY DEF Seen, Delete, DropStore
  <2>. USE DEF Inv, StoreInv
  <2>4. UNCHANGED <<tracked, calls, phase>> /\ hints' = hints \ {i} /\ attached' = attached \ {i}
        /\ queue' = IF i \in hints /\ kind[i] = "store" THEN queue \cup {i} ELSE queue
    BY DEF Delete, DropStore
  <2>5. i \in hints => LiveStore(i) \/ kind[i] = "memory"
    BY DEF ListInv, LiveStore
  <2>6. TrackedLive' /\ QueuedLive'
    BY <2>1, <2>4, <2>5 DEF TrackedLive, QueuedLive, Types
  <2>7. HeldOnce'
    BY <2>1, <2>2, <2>4 DEF HeldOnce
  <2>8. Owned'
    <3>1. LiveStore(i) /\ i \in hints => i \in queue'
      BY <2>4 DEF LiveStore
    <3>. QED BY <2>1, <2>2, <2>4, <3>1 DEF Owned
  <2>9. InSight'
    BY <2>1, <2>3, <2>4 DEF InSight
  <2>10. ClaimsNewest'
    <3>1. phase = "releasing" /\ calls[2].at = "claim" => calls[2].item \in Items
      BY DEF Inv, Types, StackInv
    <3>. QED BY <2>1, <2>4, <3>1 DEF ClaimsNewest
  <2>11. DetachedFirst'
    BY <2>1, <2>4 DEF DetachedFirst
  <2>. QED BY <2>6, <2>7, <2>8, <2>9, <2>10, <2>11
<1>5. EndInv'
  BY DEF Inv, Types, EndInv, Delete, item, kept, external, DropStore, Ran
<1>6. PostInv'
  <2>1. \A j \in Items : j # i => deleter'[j] = deleter[j] /\ (life'[j] = "none" <=> life[j] = "none")
    BY DEF Inv, Types, Delete, DropStore, Ran
  <2>2. life[i] # "none" /\ deleter[i] = "none"
    BY DEF Inv, PostInv, Delete
  <2>3. life'[i] # "none" /\ i \notin stores' /\ stores' \subseteq stores /\ phase' = phase /\ tasks' = tasks
    BY <2>2 DEF Inv, Types, Delete, DropStore, Ran
  <2>4. ASSUME phase = "open", posted'
        PROVE  queue' # {} /\ (tasks > 0 \/ \E j \in Items : deleter'[j] \in {"posting", "refused"})
    <3>1. CASE posted
      BY <2>1, <2>2, <2>4, <3>1 DEF Inv, PostInv, Delete, DropStore
    <3>2. CASE ~ posted
      BY <2>4, <3>2 DEF Inv, Types, Delete, DropStore
    <3>. QED BY <3>1, <3>2
  <2>. QED BY <2>1, <2>3, <2>4 DEF Inv, PostInv
<1>. QED BY <1>1, <1>2, <1>3, <1>4, <1>5, <1>6 DEF Inv

(* The hook takes a drain or refuses it. *)
LEMMA PostDrainKeeps ==
  ASSUME Inv, NEW i \in Items, PostDrain(i)
  PROVE  Inv'
<1>1. Types'
  BY DEF Inv, Types, PostDrain, item, kept, external
<1>2. StackInv'
  BY DEF Inv, Types, StackInv, PostDrain, item, kept, external
<1>3. ListInv'
  BY DEF Inv, Types, ListInv, Running, PostDrain, item, kept, external
<1>4. StoreInv'
  BY StoresAlike DEF PostDrain, LiveStore, item
<1>5. EndInv'
  BY DEF Inv, Types, EndInv, PostDrain, item, kept, external
<1>6. PostInv'
  BY DEF Inv, Types, PostInv, PostDrain, item, kept, external
<1>. QED BY <1>1, <1>2, <1>3, <1>4, <1>5, <1>6 DEF Inv

(* A deleter's post ends. *)
LEMMA PostDoneKeeps ==
  ASSUME Inv, NEW i \in Items, PostDone(i)
  PROVE  Inv'
<1>1. Types'
  BY DEF Inv, Types, PostDone, item, kept, external
<1>2. StackInv'
  BY DEF Inv, Types, StackInv, PostDone, item, kept, external
<1>3. ListInv'
  BY DEF Inv, Types, ListInv, Running, PostDone, item, kept, external
<1>4. StoreInv'
  BY StoresAlike DEF PostDone, LiveStore, item
<1>5. EndInv'
  BY DEF Inv, Types, EndInv, PostDone, item, kept, external
<1>6. PostInv'
  BY DEF Inv, Types, PostInv, PostDone, item, kept, external
<1>. QED BY <1>1, <1>2, <1>3, <1>4, <1>5, <1>6 DEF Inv


-----------------------------------------------------------------------------
(* Callbacks return, drains begin, go on and end.                          *)

(* A hook that has run is taken off the list by the step that ends it. *)
LEMMA ReturnKeeps ==
  ASSUME Inv, Return
  PROVE  Inv'
<1>. DEFINE L == Len(calls)
<1>0. /\ calls' \in Seq(Frames) /\ StackInv' /\ Len(calls') = L - 1 /\ Below(L - 1)
      /\ \A j : Running(j) /\ Top.item # j => Running(j)'
      /\ \A j : Running(j)' => Running(j)
  BY StackPop DEF Return, At, item
<1>1. Types'
  BY <1>0 DEF Inv, Types, Return, item, external
<1>2. Running(Top.item) /\ Top.item \in Items
  BY StackTop DEF Inv, StackInv, Running, Return, At
<1>3. ListInv'
  BY <1>0, <1>2 DEF Inv, Types, ListInv, Return, item, external
<1>4. StoreInv'
  <2>1. \A n \in 1..L - 1, j \in Items : Holds(n, j)' <=> Holds(n, j)
    BY <1>0 DEF Holds, Below
  <2>2. \A j \in Items : ~ Holds(L, j)
    BY StackTop DEF Holds, Return, At, StoreAt, DrainAt
  <2>3. phase = "releasing" => L >= 3 /\ calls'[2] = calls[2]
    BY <1>0, StackTop DEF Below, StackInv, Return, item
  <2>4. phase = "releasing" => \A j \in Items : Seen(j) => Seen(j)'
    BY <2>3 DEF Seen, Return, external
  <2>5. \A n \in 1..L : n \in 1..L - 1 \/ n = L
    BY StackTop
  <2>6. \A n \in 1..L - 1 : n \in 1..L
    BY StackTop
  <2>7. \A j : (LiveStore(j)' <=> LiveStore(j))
    BY DEF LiveStore, Return, item
  <2>. QED BY <1>0, <2>1, <2>2, <2>3, <2>4, <2>5, <2>6, <2>7, StoresKept DEF Return, item, external
<1>5. EndInv'
  <2>1. phase = "releasing" => calls'[2] = calls[2]
    BY <1>0, StackTop DEF Below, StackInv, Return, item
  <2>. QED BY <2>1 DEF Inv, EndInv, Return, item, external
<1>6. PostInv'
  BY DEF Inv, PostInv, Return, item, external
<1>. QED BY <1>0, <1>1, <1>3, <1>4, <1>5, <1>6 DEF Inv

\* A step moves the queued finalizers T into frame k.
Takes(T, k) ==
  /\ UNCHANGED <<kind, life, tracked, hints, attached, phase>>
  /\ T \in SUBSET queue /\ queue' = queue \ T
  /\ k \in 1..Len(calls') /\ \A j \in Items : Holds(k, j)' <=> j \in T
  /\ \A n \in 1..Len(calls'), j \in Items :
       n # k => (Holds(n, j)' <=> n \in 1..Len(calls) /\ Holds(n, j))
  /\ \A n \in 1..Len(calls), j \in Items : Holds(n, j) => n # k /\ n \in 1..Len(calls')
  /\ phase = "releasing" => T = {} /\ calls'[2] = calls[2]

(* A drain that takes what deleters queued holds it from then on. *)
LEMMA StoresTaken ==
  ASSUME Inv, NEW T, NEW k, Takes(T, k)
  PROVE  StoreInv'
<1>1. tracked \subseteq Items /\ queue \subseteq Items
  BY DEF Inv, Types
<1>2. \A j : LiveStore(j)' <=> LiveStore(j)
  BY DEF LiveStore, Takes
<1>3. phase = "releasing" => queue' = queue /\ \A j : Seen(j)' <=> Seen(j)
  BY DEF Seen, Takes
<1>. USE DEF Inv, StoreInv, Takes
<1>4. TrackedLive' /\ QueuedLive'
  BY <1>2 DEF TrackedLive, QueuedLive
<1>5. HeldOnce'
  BY <1>1, <1>2 DEF HeldOnce, QueuedLive
<1>6. Owned'
  BY <1>2 DEF Owned
<1>7. InSight'
  BY <1>2, <1>3 DEF InSight
<1>8. ClaimsNewest'
  BY <1>2 DEF ClaimsNewest
<1>9. DetachedFirst'
  BY DEF DetachedFirst
<1>. QED BY <1>4, <1>5, <1>6, <1>7, <1>8, <1>9

(* A drain begins. *)
LEMMA StartKeeps ==
  ASSUME Inv, InUserCode, phase # "closed", StartDrain(calls), tasks' \in Nat,
         UNCHANGED <<item, kept, hints, tracked, stores, attached, deleter, pending>>
  PROVE  Inv'
<1>. DEFINE L == Len(calls)
            T == IF phase = "open" THEN queue ELSE {}
<1>1. /\ T \in SUBSET queue /\ T \in SUBSET Items /\ (phase # "open" => T = {})
      /\ queue' = queue \ T /\ posted' = (IF T = {} THEN posted ELSE FALSE)
  BY DEF StartDrain, Inv, Types
<1>2. PostInv' /\ posted' \in BOOLEAN
  BY DEF StartDrain, Inv, Types, PostInv, item
<1>3. /\ calls' \in Seq(Frames) /\ StackInv' /\ StoreInv'
      /\ phase = "releasing" => calls'[2] = calls[2]
      /\ \A j : Running(j)' <=> Running(j)
  <2>1. CASE pending = {} /\ T = {}
    <3>1. calls' = calls /\ queue' = queue
      BY <1>1, <2>1 DEF StartDrain
    <3>2. calls' \in Seq(Frames) /\ StackInv'
      BY <3>1 DEF Inv, Types, StackInv, item
    <3>3. \A j : Running(j)' <=> Running(j)
      BY <3>1 DEF Running
    <3>. QED BY <3>1, <3>2, <3>3, StoresAlike DEF item, LiveStore
  <2>2. CASE ~ (pending = {} /\ T = {})
    <3>1. calls' = Append(calls, Frame("drain", 0, T))
      BY <2>2 DEF StartDrain
    <3>. HIDE DEF T
    <3>2. /\ calls' \in Seq(Frames) /\ StackInv' /\ Len(calls') = L + 1 /\ Below(L)
          /\ calls'[L + 1] = Frame("drain", 0, T) /\ \A j : Running(j)' <=> Running(j)
      BY <1>1, <3>1, StackPush DEF item
    <3>3. \A n \in 1..L, j \in Items : Holds(n, j)' <=> Holds(n, j)
      BY <3>2 DEF Holds, Below
    <3>. PICK k : k = L + 1
      OBVIOUS
    <3>4. \A j \in Items : Holds(k, j)' <=> j \in T
      BY <3>2 DEF Holds, Frame, StoreAt, DrainAt
    <3>5. phase = "releasing" => calls'[2] = calls[2]
      BY <3>2, StackTop DEF Inv, StackInv, Below
    <3>6. k \in 1..Len(calls') /\ \A n \in 1..Len(calls') : n # k <=> n \in 1..L
      BY <3>2, StackTop
    <3>7. \A n \in 1..L : n # k /\ n \in 1..Len(calls')
      BY <3>2, StackTop
    <3>8. StoreInv'
      <4>1. Takes(T, k)
        BY <1>1, <3>2, <3>3, <3>4, <3>5, <3>6, <3>7 DEF item, Takes
      <4>. QED BY <4>1, StoresTaken
    <3>. QED BY <3>2, <3>5, <3>8
  <2>. QED BY <2>1, <2>2
<1>4. Types'
  BY <1>1, <1>2, <1>3 DEF Inv, Types, item, kept
<1>5. ListInv'
  BY <1>3 DEF Inv, ListInv, item, kept
<1>6. EndInv'
  BY <1>3 DEF Inv, EndInv, item, kept
<1>. QED BY <1>2, <1>3, <1>4, <1>5, <1>6 DEF Inv

(* unofficial_napi_event_loop_checkpoint. *)
LEMMA CheckpointKeeps ==
  ASSUME Inv, Checkpoint
  PROVE  Inv'
  BY StartKeeps DEF Checkpoint, Inv, Types

(* A drain the hook held. *)
LEMMA RunTaskKeeps ==
  ASSUME Inv, RunTask
  PROVE  Inv'
<1>1. tasks' \in Nat
  BY DEF RunTask, Inv, Types
<1>2. CASE phase # "closed"
  BY <1>1, <1>2, StartKeeps DEF RunTask
<1>3. CASE phase = "closed"
  <2>1. UNCHANGED <<item, kept, hints, tracked, queue, stores, attached, posted, deleter, pending, scheduled, calls>>
    BY <1>3 DEF RunTask
  <2>2. Types' /\ StackInv'
    BY <1>1, <2>1 DEF Inv, Types, StackInv, item, kept
  <2>3. ListInv'
    BY <2>1 DEF Inv, ListInv, Running, item, kept
  <2>4. StoreInv'
    BY <2>1, StoresAlike DEF item, LiveStore
  <2>5. EndInv' /\ PostInv'
    BY <1>3, <2>1 DEF Inv, EndInv, PostInv, item, kept
  <2>. QED BY <2>2, <2>3, <2>4, <2>5 DEF Inv
<1>. QED BY <1>2, <1>3

(* Under what circumstances a drain runs. *)
LEMMA DrainTop ==
  ASSUME Inv, Top.at \in DrainAt
  PROVE  /\ Len(calls) >= 2 /\ phase # "closed" /\ Top.at \notin {"user", "callback"} \cup ReleaseAt
         /\ phase = "releasing" => Len(calls) >= 3
         /\ phase # "open" => Top.set = {}
         /\ Top.set \subseteq Items
<1>1. Top.set \subseteq Items
  BY StackTop DEF Frames
<1>. QED BY <1>1, StackTop DEF Inv, StackInv, DrainAt, ReleaseAt, AloneAt

(* A step at the top that holds what it held before keeps StoreInv. *)
LEMMA StoresStay ==
  ASSUME Inv, StackInv', UNCHANGED <<tracked, queue, hints, phase>>, attached' \subseteq attached,
         \A j \in Items : LiveStore(j)' <=> LiveStore(j),
         \A j \in Items : (kind[j] = "store" /\ life[j] = "done")' =>
                            kind[j] = "store" /\ life[j] = "done",
         NEW f, calls'[Len(calls)] = f, Below(Len(calls) - 1),
         \/ Len(calls') = Len(calls)
         \/ Len(calls') = Len(calls) + 1 /\ calls'[Len(calls) + 1].at = "callback",
         \A j \in Items : Holds(Len(calls), j) <=> f.at \in StoreAt /\ j \in f.set,
         f.at # "claim",
         phase = "releasing" /\ Len(calls) < 3 => calls[2].at \notin {"pick", "claim"}
                                                 /\ (calls[2].at = "take" => f.at = "take")
  PROVE  StoreInv'
<1>1. \A n \in 1..Len(calls), j \in Items : Holds(n, j)' <=> Holds(n, j)
  BY StackTop DEF Holds, Below
<1>2. \A n \in 1..Len(calls'), j \in Items : Holds(n, j)' => n \in 1..Len(calls)
  BY StackTop DEF Holds, StoreAt, DrainAt
<1>3. \A n \in 1..Len(calls) : n \in 1..Len(calls')
  BY StackTop
<1>0. phase = "releasing" /\ Len(calls) < 3 => Len(calls) = 2
  <2>1. Len(calls) \in Nat /\ (phase = "releasing" => Len(calls) >= 2)
    BY StackTop DEF Inv, StackInv
  <2>2. \A x \in Nat : x >= 2 /\ x < 3 => x = 2
    OBVIOUS
  <2>. QED BY <2>1, <2>2, Zenon
<1>4. phase = "releasing" => \/ calls'[2] = calls[2]
                             \/ Len(calls) < 3 /\ calls'[2] = f
  <2>1. phase = "releasing" => Len(calls) < 3 \/ 2 \in 1..Len(calls) - 1
    BY StackTop DEF Inv, StackInv
  <2>. QED BY <1>0, <2>1 DEF Below
<1>5. phase = "releasing" => /\ \A j \in Items : Seen(j) => Seen(j)'
                             /\ calls'[2].at = "claim" => calls'[2] = calls[2]
  <2>1. ASSUME phase = "releasing", Len(calls) < 3, calls'[2] = f, NEW j \in Items, Seen(j)
        PROVE  Seen(j)'
    <3>1. calls[2].at = "take" /\ f.at = "take" /\ (j \in calls[2].set \/ j \in queue)
      BY <2>1 DEF Seen
    <3>2. j \in calls[2].set => j \in f.set
      BY <1>0, <2>1, <3>1 DEF Holds, StoreAt
    <3>. QED BY <2>1, <3>1, <3>2 DEF Seen
  <2>2. ASSUME calls'[2] = calls[2], NEW j \in Items, Seen(j)
        PROVE  Seen(j)'
    BY <2>2 DEF Seen
  <2>. QED BY <1>4, <2>1, <2>2
<1>. QED BY <1>1, <1>2, <1>3, <1>5, StoresKept

(* A drain finalizes a reference that the collector found dead. *)
LEMMA DrainReferenceKeeps ==
  ASSUME Inv, DrainReference
  PROVE  Inv'
<1>. DEFINE L == Len(calls)
<1>1. PICK r \in pending : pending' = pending \ {r} /\ Finalize(r, Top)
  BY DEF DrainReference
<1>2. /\ Top.at = "drain" /\ "drain" \in DrainAt
      /\ UNCHANGED <<phase, hooked, kind, hooks, tokens, instance, external, scheduled, tasks>>
  BY DEF DrainReference, At, DrainAt
<1>3. r \in Items /\ kind[r] = "ref" /\ refs' = refs \ {r}
  BY <1>1 DEF Inv, Types, ListInv, Finalize
<1>4. Fits(Top) /\ Top.at \notin AloneAt
  BY <1>2, StackTop, DrainTop DEF Fits, DrainAt, StoreAt, AloneAt
<1>5. /\ calls' \in Seq(Frames) /\ StackInv' /\ calls'[L] = Top /\ Below(L - 1)
      /\ \/ Len(calls') = L
         \/ Len(calls') = L + 1 /\ calls'[L + 1].at = "callback"
      /\ \A j : Running(j)' => Running(j) \/ (j = r /\ life[r] = "live")
      /\ \A j : Running(j) => Running(j)'
  <2>1. CASE life[r] = "live"
    <3>1. CallThen(r, Top)
      BY <1>1, <2>1 DEF Finalize
    <3>2. Top.at \notin {"user", "callback"} /\ phase' = phase
      BY <1>2
    <3>3. /\ calls' \in Seq(Frames) /\ StackInv' /\ Len(calls') = L + 1 /\ calls'[L] = Top /\ Below(L - 1)
          /\ calls'[L + 1] = Frame("callback", r, {})
          /\ \A j : Running(j)' <=> (Running(j) \/ j = r)
      BY <1>3, <1>4, <3>1, <3>2, StackCall
    <3>. QED BY <2>1, <3>3 DEF Frame
  <2>2. CASE life[r] # "live"
    BY <1>1, <1>2, <1>3, <1>4, <2>2, StackGoto, DrainTop DEF Finalize
  <2>. QED BY <2>1, <2>2
<1>6. /\ life' \in [Items -> {"none", "live", "done", "withdrawn"}] /\ runs' \in [Items -> Nat]
      /\ life'[r] # "live"
      /\ life[r] = "live" => life'[r] = "done" /\ runs'[r] = runs[r] + 1
      /\ life[r] # "live" => life'[r] = life[r] /\ runs'[r] = runs[r]
      /\ \A j \in Items : j # r => life'[j] = life[j] /\ runs'[j] = runs[j]
  <2>1. CASE life[r] = "live"
    <3>1. /\ life' = [j \in Items |-> IF j \in {r} THEN "done" ELSE life[j]]
          /\ runs' = [j \in Items |-> IF j \in {r} THEN runs[j] + 1 ELSE runs[j]]
      BY <1>1, <2>1 DEF Finalize, Ran
    <3>. QED BY <1>3, <2>1, <3>1 DEF Inv, Types
  <2>2. CASE life[r] # "live"
    BY <1>1, <1>3, <2>2 DEF Finalize, Inv, Types
  <2>. QED BY <2>1, <2>2
<1>7. Types'
  BY <1>1, <1>2, <1>3, <1>5, <1>6 DEF Inv, Types, external
<1>8. ListInv'
  BY <1>1, <1>2, <1>3, <1>5, <1>6 DEF Inv, ListInv, external
<1>9. StoreInv'
  <2>1. /\ \A j \in Items : LiveStore(j)' <=> LiveStore(j)
        /\ \A j \in Items : (kind[j] = "store" /\ life[j] = "done")' => kind[j] = "store" /\ life[j] = "done"
    BY <1>2, <1>3, <1>6 DEF LiveStore
  <2>2. \A j \in Items : Holds(L, j) <=> Top.at \in StoreAt /\ j \in Top.set
    BY StackTop DEF Holds
  <2>3. ~ (phase = "releasing" /\ Len(calls) < 3)
    <3>1. Top.at \in DrainAt
      BY <1>2
    <3>. QED BY <3>1, DrainTop
  <2>. QED BY <1>2, <1>5, <2>1, <2>2, <2>3, StoresStay DEF external
<1>10. EndInv'
  <2>1. phase = "releasing" => calls'[2] = calls[2]
    BY <1>2, <1>5, StackTop, DrainTop DEF Below
  <2>. QED BY <1>1, <1>2, <1>3, <2>1 DEF Inv, EndInv, external
<1>11. PostInv'
  BY <1>2, <1>6 DEF Inv, PostInv, external
<1>. QED BY <1>5, <1>7, <1>8, <1>9, <1>10, <1>11 DEF Inv

(* A drain runs the finalizer of an external buffer: its store is gone, and
   this drain alone held it. *)
LEMMA DrainExternalKeeps ==
  ASSUME Inv, DrainExternal
  PROVE  Inv'
<1>. DEFINE L == Len(calls)
<1>1. Top.at \in DrainAt
  BY DEF DrainExternal, At, DrainAt
<1>2. PICK i \in Top.set : tracked' = tracked \ {i} /\ Ran({i})
                           /\ CallThen(i, Frame("drainExternal", 0, Top.set \ {i}))
  BY DEF DrainExternal
<1>3. phase = "open" /\ i \in Items /\ L >= 2 /\ Top.at \notin {"user", "callback"} \cup ReleaseAt
      /\ Top.set \subseteq Items
  BY <1>1, <1>2, DrainTop DEF Inv, Types
<1>4. UNCHANGED <<phase, hooked, kind, kept, hints, queue, stores, attached, posted, deleter, pending, scheduled, tasks>>
  BY DEF DrainExternal
<1>. DEFINE f == Frame("drainExternal", 0, Top.set \ {i})
<1>5. Fits(f) /\ f.at \notin AloneAt /\ f.at \in StoreAt /\ f.set = Top.set \ {i}
  BY <1>3 DEF Fits, Frame, Frames, DrainAt, StoreAt, AloneAt, ReleaseAt
<1>. HIDE DEF f
<1>6. /\ calls' \in Seq(Frames) /\ StackInv' /\ Len(calls') = L + 1 /\ calls'[L] = f /\ Below(L - 1)
      /\ calls'[L + 1] = Frame("callback", i, {})
      /\ \A j : Running(j)' <=> (Running(j) \/ j = i)
  BY <1>2, <1>3, <1>4, <1>5, StackCall DEF f
<1>7. /\ Holds(L, i) /\ LiveStore(i) /\ i \notin hints /\ i \notin queue /\ i \notin attached
      /\ \A m \in 1..L : Holds(m, i) => m = L
      /\ \A j \in Items : Holds(L, j) <=> j \in Top.set
  <2>1. \A j \in Items : Holds(L, j) <=> j \in Top.set
    BY <1>1, StackTop DEF Holds, StoreAt
  <2>. QED BY <1>2, <1>3, <2>1, StackTop DEF Inv, StoreInv, HeldOnce
<1>8. /\ life' \in [Items -> {"none", "live", "done", "withdrawn"}] /\ runs' \in [Items -> Nat]
      /\ life'[i] = "done" /\ runs'[i] = runs[i] + 1
      /\ \A j \in Items : j # i => life'[j] = life[j] /\ runs'[j] = runs[j]
  BY <1>2, <1>3 DEF Ran, Inv, Types
<1>9. Types'
  BY <1>2, <1>4, <1>6, <1>8 DEF Inv, Types, kept
<1>10. ListInv'
  <2>1. kind[i] = "store" /\ life[i] = "live"
    BY <1>7 DEF LiveStore
  <2>. QED BY <1>3, <1>4, <1>6, <1>7, <1>8, <2>1 DEF Inv, ListInv, kept
<1>11. StoreInv'
  <2>1. \A j \in Items : LiveStore(j)' <=> LiveStore(j) /\ j # i
    BY <1>4, <1>8 DEF LiveStore
  <2>2. \A n \in 1..Len(calls'), j \in Items : Holds(n, j)' <=> n \in 1..L /\ Holds(n, j) /\ j # i
    <3>1. ASSUME NEW n \in 1..L - 1, NEW j \in Items PROVE Holds(n, j)' <=> Holds(n, j) /\ j # i
      <4>1. n \in 1..L /\ n # L
        BY StackTop
      <4>. QED BY <1>6, <1>7, <4>1 DEF Holds, Below
    <3>2. ASSUME NEW n, n = L, NEW j \in Items PROVE Holds(n, j)' <=> Holds(n, j) /\ j # i
      BY <1>5, <1>6, <1>7, <3>2 DEF Holds
    <3>3. ASSUME NEW n, n = L + 1, NEW j \in Items PROVE ~ Holds(n, j)'
      BY <1>6, <3>3 DEF Holds, Frame
    <3>4. \A n \in 1..Len(calls') : n \in 1..L - 1 \/ n = L \/ n = L + 1
      BY <1>6, StackTop
    <3>5. /\ \A n \in 1..L - 1 : n \in 1..L
          /\ L \in 1..L /\ L + 1 \notin 1..L
      BY StackTop
    <3>. QED BY <3>1, <3>2, <3>3, <3>4, <3>5
  <2>3. \A n \in 1..L : n \in 1..Len(calls')
    BY <1>6, StackTop
  <2>. USE DEF Inv, StoreInv
  <2>4. TrackedLive' /\ QueuedLive'
    BY <1>2, <1>4, <1>7, <2>1 DEF TrackedLive, QueuedLive, Types
  <2>5. HeldOnce'
    BY <1>4, <2>1, <2>2 DEF HeldOnce
  <2>6. Owned'
    BY <1>4, <2>1, <2>2, <2>3 DEF Owned
  <2>7. InSight'
    BY <1>2, <1>3, <1>4, <2>1 DEF InSight
  <2>8. ClaimsNewest'
    BY <1>3, <1>4 DEF ClaimsNewest
  <2>9. DetachedFirst'
    BY <1>4, <1>7, <1>8 DEF DetachedFirst
  <2>. QED BY <2>4, <2>5, <2>6, <2>7, <2>8, <2>9
<1>12. EndInv'
  BY <1>3, <1>4 DEF EndInv
<1>13. PostInv'
  BY <1>4, <1>7, <1>8 DEF Inv, PostInv, LiveStore
<1>. QED BY <1>6, <1>9, <1>10, <1>11, <1>12, <1>13 DEF Inv

(* A drain looks again, and ends when nothing is left. *)
LEMMA DrainAgainKeeps ==
  ASSUME Inv, DrainAgain
  PROVE  Inv'
<1>. DEFINE L == Len(calls)
            T == IF phase = "open" THEN queue ELSE {}
<1>1. Top.at \in DrainAt /\ Top.set = {}
  BY DEF DrainAgain, At, DrainAt
<1>2. /\ L >= 2 /\ phase # "closed" /\ Top.at \notin {"user", "callback"} \cup ReleaseAt
      /\ phase = "releasing" => L >= 3
  BY <1>1, DrainTop
<1>3. UNCHANGED <<item, kept, hints, tracked, stores, attached, deleter, pending, scheduled, tasks>>
  BY DEF DrainAgain
<1>4. /\ T \in SUBSET queue /\ T \in SUBSET Items /\ (phase # "open" => T = {})
      /\ queue' = queue \ T
  BY DEF DrainAgain, Inv, Types
<1>5. PostInv' /\ posted' \in BOOLEAN
  BY DEF DrainAgain, Inv, Types, PostInv, item
<1>6. \A j \in Items : ~ Holds(L, j)
  BY <1>1, StackTop DEF Holds
<1>7. /\ calls' \in Seq(Frames) /\ StackInv' /\ StoreInv' /\ Below(L - 1)
      /\ \A j : Running(j)' <=> Running(j)
  <2>1. CASE pending = {} /\ T = {}
    <3>1. calls' = Front(calls) /\ queue' = queue
      BY <1>4, <2>1 DEF DrainAgain
    <3>2. /\ calls' \in Seq(Frames) /\ StackInv' /\ Len(calls') = L - 1 /\ Below(L - 1)
          /\ \A j : Running(j)' <=> Running(j)
      BY <1>1, <1>2, <1>3, <3>1, StackPop DEF item, At
    <3>3. \A n \in 1..L - 1, j \in Items : Holds(n, j)' <=> Holds(n, j)
      BY <3>2 DEF Holds, Below
    <3>4. \A n \in 1..L : n \in 1..L - 1 \/ n = L
      BY StackTop
    <3>5. \A n \in 1..L - 1 : n \in 1..L
      BY StackTop
    <3>6. phase = "releasing" => calls'[2] = calls[2]
      BY <1>2, <3>2, StackTop DEF Below
    <3>7. phase = "releasing" => \A j \in Items : Seen(j) => Seen(j)'
      BY <3>1, <3>6 DEF Seen
    <3>8. \A j : LiveStore(j)' <=> LiveStore(j)
      BY <1>3 DEF LiveStore, item
    <3>9. StoreInv'
      BY <1>3, <1>6, <3>1, <3>2, <3>3, <3>4, <3>5, <3>6, <3>7, <3>8, StoresKept DEF item
    <3>. QED BY <3>2, <3>9
  <2>2. CASE ~ (pending = {} /\ T = {})
    <3>1. Goto(Frame("drain", 0, T))
      BY <2>2 DEF DrainAgain
    <3>2. Fits(Frame("drain", 0, T)) /\ Frame("drain", 0, T).at \notin AloneAt
      BY <1>2, <1>4 DEF Fits, Frame, Frames, DrainAt, StoreAt, AloneAt, ReleaseAt
    <3>. HIDE DEF T
    <3>3. /\ calls' \in Seq(Frames) /\ StackInv' /\ Len(calls') = L /\ Below(L - 1)
          /\ calls'[L] = Frame("drain", 0, T) /\ \A j : Running(j)' <=> Running(j)
      BY <1>2, <1>3, <3>1, <3>2, StackGoto DEF item
    <3>. PICK k : k = L
      OBVIOUS
    <3>4. \A j \in Items : Holds(k, j)' <=> j \in T
      BY <3>3 DEF Holds, Frame, StoreAt, DrainAt
    <3>5. \A n \in 1..L - 1, j \in Items : Holds(n, j)' <=> Holds(n, j)
      BY <3>3 DEF Holds, Below
    <3>6. k \in 1..Len(calls') /\ \A n \in 1..L : n # k => n \in 1..L - 1
      BY <3>3, StackTop
    <3>7. phase = "releasing" => calls'[2] = calls[2]
      BY <1>2, <3>3, StackTop DEF Below
    <3>8. StoreInv'
      <4>1. \A n \in 1..Len(calls'), j \in Items :
              n # k => (Holds(n, j)' <=> n \in 1..L /\ Holds(n, j))
        BY <3>3, <3>5, <3>6
      <4>2. \A n \in 1..L, j \in Items : Holds(n, j) => n # k /\ n \in 1..Len(calls')
        BY <1>6, <3>3
      <4>3. UNCHANGED <<kind, life, tracked, hints, attached, phase>>
        BY <1>3 DEF item
      <4>4. StackInv' /\ T \in SUBSET queue /\ queue' = queue \ T /\ k \in 1..Len(calls')
            /\ (phase = "releasing" => T = {} /\ calls'[2] = calls[2])
        BY <1>4, <3>3, <3>6, <3>7
      <4>5. Takes(T, k)
        BY <3>4, <4>1, <4>2, <4>3, <4>4 DEF Takes
      <4>. QED BY <4>5, StoresTaken
    <3>. QED BY <3>3, <3>8
  <2>. QED BY <2>1, <2>2
<1>8. phase = "releasing" => calls'[2] = calls[2]
  BY <1>2, <1>7, StackTop DEF Below
<1>9. Types'
  BY <1>3, <1>4, <1>5, <1>7 DEF Inv, Types, item, kept
<1>10. ListInv'
  BY <1>3, <1>7 DEF Inv, ListInv, item, kept
<1>11. EndInv'
  BY <1>3, <1>4, <1>8 DEF Inv, EndInv, item, kept
<1>. QED BY <1>5, <1>7, <1>9, <1>10, <1>11 DEF Inv

-----------------------------------------------------------------------------
(* The release, whose frame is the second.                                 *)

InHand(j) == calls[2].at \in StoreAt /\ j \in calls[2].set

(* When the release takes a step of its own, nothing runs above it. *)
LEMMA PassTop ==
  ASSUME Inv, Top.at \in ReleaseAt
  PROVE  /\ phase = "releasing" /\ Len(calls) = 2 /\ Top = calls[2] /\ calls[1].at = "user"
         /\ Top.at \notin {"user", "callback"} \cup DrainAt
         /\ Top.set \subseteq Items
         /\ \A j : ~ Running(j)
         /\ \A n \in 1..Len(calls), j \in Items : Holds(n, j) <=> n = 2 /\ InHand(j)
<1>1. phase = "releasing" /\ Len(calls) = 2
  BY StackTop DEF Inv, StackInv
<1>2. Top = calls[2] /\ calls[1].at = "user" /\ Top.set \subseteq Items
  BY <1>1, StackTop DEF Inv, StackInv, Frames
<1>3. Top.at \notin {"user", "callback"} \cup DrainAt
  BY DEF ReleaseAt, AloneAt, DrainAt
<1>4. \A n \in 1..Len(calls) : n = 1 \/ n = 2
  BY <1>1
<1>5. \A j : ~ Running(j)
  BY <1>2, <1>3, <1>4 DEF Running
<1>6. \A n \in 1..Len(calls), j \in Items : Holds(n, j) <=> n = 2 /\ InHand(j)
  BY <1>2, <1>4 DEF Holds, InHand, StoreAt, DrainAt
<1>. QED BY <1>1, <1>2, <1>3, <1>5, <1>6

\* What the release's next frame must be.
FitsPass(f) ==
  /\ f \in Frames /\ f.at \in ReleaseAt
  /\ f.at = "claim" => f.item \in Items
  /\ f.at \notin StoreAt \cup {"runHooks"} => f.set = {}

(* The release goes on to its next step. *)
LEMMA PassGoto ==
  ASSUME Inv, Top.at \in ReleaseAt, NEW f, FitsPass(f), Goto(f), phase' = phase
  PROVE  /\ calls' \in Seq(Frames) /\ StackInv' /\ Len(calls') = 2 /\ calls'[2] = f /\ Below(1)
         /\ \A j : ~ Running(j)'
         /\ \A n \in 1..Len(calls'), j \in Items : Holds(n, j)' <=> n = 2 /\ InHand(j)'
<1>1. Fits(f) /\ Len(calls) = 2 /\ Top.at # "callback"
  BY PassTop DEF Fits, FitsPass, ReleaseAt, AloneAt, DrainAt
<1>2. /\ calls' \in Seq(Frames) /\ StackInv' /\ Len(calls') = Len(calls) /\ calls'[Len(calls)] = f
      /\ Below(Len(calls) - 1) /\ \A i : Running(i)' <=> Running(i)
  BY <1>1, StackGoto
<1>3. Below(1) /\ calls'[1].at = "user"
  BY <1>1, <1>2, PassTop DEF Below
<1>4. \A n \in 1..Len(calls') : n = 1 \/ n = 2
  BY <1>1, <1>2
<1>5. \A n \in 1..Len(calls'), j \in Items : Holds(n, j)' <=> n = 2 /\ InHand(j)'
  BY <1>3, <1>4 DEF Holds, InHand, StoreAt, DrainAt
<1>. QED BY <1>1, <1>2, <1>3, <1>5, PassTop

(* The release calls into native code. *)
LEMMA PassCall ==
  ASSUME Inv, Top.at \in ReleaseAt, NEW f, FitsPass(f), f.at \notin AloneAt,
         NEW i \in Items, CallThen(i, f), phase' = phase
  PROVE  /\ calls' \in Seq(Frames) /\ StackInv' /\ Len(calls') = 3 /\ calls'[2] = f /\ Below(1)
         /\ calls'[3].at = "callback"
         /\ \A j : Running(j)' <=> j = i
         /\ \A n \in 1..Len(calls'), j \in Items : Holds(n, j)' <=> n = 2 /\ InHand(j)'
<1>1. Fits(f) /\ Len(calls) = 2 /\ Top.at \notin {"user", "callback"}
  BY PassTop DEF Fits, FitsPass, ReleaseAt, AloneAt, DrainAt
<1>2. /\ calls' \in Seq(Frames) /\ StackInv' /\ Len(calls') = Len(calls) + 1 /\ calls'[Len(calls)] = f
      /\ Below(Len(calls) - 1) /\ calls'[Len(calls) + 1] = Frame("callback", i, {})
      /\ \A j : Running(j)' <=> (Running(j) \/ j = i)
  BY <1>1, StackCall
<1>3. Below(1) /\ calls'[1].at = "user" /\ calls'[3].at = "callback"
  BY <1>1, <1>2, PassTop DEF Below, Frame
<1>4. \A n \in 1..Len(calls') : n = 1 \/ n = 2 \/ n = 3
  BY <1>1, <1>2
<1>5. \A n \in 1..Len(calls'), j \in Items : Holds(n, j)' <=> n = 2 /\ InHand(j)'
  BY <1>3, <1>4 DEF Holds, InHand, StoreAt, DrainAt
<1>. QED BY <1>1, <1>2, <1>3, <1>5, PassTop

(* A step of the release before or after its pass over external buffers. *)
LEMMA PassStores ==
  ASSUME Inv, Top.at \in ReleaseAt \ {"pick", "claim"}, Top.at # "take",
         StackInv', Len(calls') \in Nat, Len(calls') >= 2,
         UNCHANGED <<tracked, queue, hints, attached, phase>>,
         \A j \in Items : LiveStore(j)' <=> LiveStore(j),
         \A j \in Items : (kind[j] = "store" /\ life[j] = "done")' =>
                            kind[j] = "store" /\ life[j] = "done",
         \A n \in 1..Len(calls'), j \in Items : Holds(n, j)' <=> n = 2 /\ InHand(j)',
         calls'[2].at # "claim", calls'[2].at \in StoreAt => calls'[2].set = {}
  PROVE  StoreInv'
<1>1. \A j : ~ InHand(j)'
  BY DEF InHand
<1>2. \A j : ~ InHand(j) /\ ~ Seen(j)
  BY PassTop DEF InHand, Seen, StoreAt, DrainAt, ReleaseAt, AloneAt
<1>3. \A n \in 1..Len(calls), j \in Items : ~ Holds(n, j)
  BY <1>2, PassTop
<1>4. \A n \in 1..Len(calls'), j \in Items : ~ Holds(n, j)'
  BY <1>1
<1>. QED BY <1>2, <1>3, <1>4, StoresKept

\* A step runs the callback of one item that is not an external buffer's.
RunsOne(i) ==
  /\ life' \in [Items -> {"none", "live", "done", "withdrawn"}] /\ runs' \in [Items -> Nat]
  /\ life'[i] = "done" /\ runs'[i] = runs[i] + 1
  /\ \A j \in Items : j # i => life'[j] = life[j] /\ runs'[j] = runs[j]

(* Ran of one item. *)
LEMMA RanOne ==
  ASSUME Types, NEW i \in Items, Ran({i})
  PROVE  RunsOne(i)
  BY DEF Types, Ran, RunsOne

(* RunsOne of an item that is no external buffer's leaves the stores alone. *)
LEMMA RanOther ==
  ASSUME Types, NEW i \in Items, RunsOne(i), kind' = kind, kind[i] # "store"
  PROVE  /\ \A j \in Items : LiveStore(j)' <=> LiveStore(j)
         /\ \A j \in Items : (kind[j] = "store" /\ life[j] = "done")' => kind[j] = "store" /\ life[j] = "done"
  BY DEF RunsOne, LiveStore

\* What must be gone before the release goes on to a step.
EndAt(f) ==
  /\ f.at \in {"swap", "runClaimed", "round", "wait"} => tracked = {}
  /\ f.at \in {"round", "wait"} => hints = {}
  /\ f.at = "wait" => hooks \cup refs \cup tokens \cup instance = {}

\* Where the release stands outside its pass over external buffers.
ElseAt == ReleaseAt \ {"take", "pick", "claim"}

(* The release goes on, and changes no list. *)
LEMMA PassGoesKeeps ==
  ASSUME Inv, Top.at \in ElseAt, NEW f, FitsPass(f), Goto(f), f.at # "claim", EndAt(f),
         f.at \in StoreAt => f.set = {}, pending' \subseteq pending,
         UNCHANGED <<phase, hooked, kind, life, runs, kept, external, tasks>>
  PROVE  Inv'
<1>1. Top.at \in ReleaseAt
  BY DEF ElseAt
<1>2. /\ calls' \in Seq(Frames) /\ StackInv' /\ Len(calls') = 2 /\ calls'[2] = f
      /\ \A j : ~ Running(j)'
      /\ \A n \in 1..Len(calls'), j \in Items : Holds(n, j)' <=> n = 2 /\ InHand(j)'
  BY <1>1, PassGoto
<1>3. Types'
  BY <1>2 DEF Inv, Types, kept, external
<1>4. ListInv'
  BY <1>1, <1>2, PassTop DEF Inv, ListInv, kept, external
<1>5. StoreInv'
  <2>1. \A j : LiveStore(j)' <=> LiveStore(j)
    BY DEF LiveStore
  <2>. QED BY <1>2, <2>1, PassStores DEF external, ElseAt
<1>6. EndInv'
  BY <1>1, <1>2, PassTop DEF Inv, EndInv, EndAt, kept, external
<1>7. PostInv'
  BY DEF Inv, PostInv, external
<1>. QED BY <1>2, <1>3, <1>4, <1>5, <1>6, <1>7 DEF Inv

(* The release takes an item off its list, a hook apart, and calls it. *)
LEMMA PassCallsKeeps ==
  ASSUME Inv, Top.at \in ElseAt, NEW f, FitsPass(f), f.at \notin AloneAt \cup {"claim"},
         f.at \in StoreAt => f.set = {},
         NEW i \in Items, kind[i] \in {"hook", "ref", "token", "instance"}, life[i] = "live",
         Ran({i}), CallThen(i, f),
         UNCHANGED <<phase, hooked, kind, hooks, external, pending, tasks>>,
         refs' = refs \ {i}, tokens' = tokens \ {i}, instance' = instance \ {i}
  PROVE  Inv'
<1>1. Top.at \in ReleaseAt
  BY DEF ElseAt
<1>2. /\ calls' \in Seq(Frames) /\ StackInv' /\ Len(calls') = 3 /\ calls'[2] = f
      /\ \A j : Running(j)' <=> j = i
      /\ \A n \in 1..Len(calls'), j \in Items : Holds(n, j)' <=> n = 2 /\ InHand(j)'
  BY <1>1, PassCall
<1>3. RunsOne(i)
  BY RanOne DEF Inv
<1>4. Types'
  BY <1>2, <1>3 DEF Inv, Types, external, RunsOne
<1>5. ListInv'
  <2>1. \A j \in Items : ~ Running(j)
    BY <1>1, PassTop
  <2>2. life'[i] = "done" /\ runs'[i] = runs[i] + 1 /\ runs[i] = 0 /\ kind' = kind
        /\ \A j \in Items : j # i => life'[j] = life[j] /\ runs'[j] = runs[j]
    BY <1>3 DEF Inv, ListInv, RunsOne
  <2>3. hints' = hints /\ hooks' = hooks /\ pending' = pending
    BY DEF external
  <2>4. \A j \in Items : j \in hooks => life[j] = "live"
    BY <2>1 DEF Inv, ListInv
  <2>. QED BY <1>2, <2>1, <2>2, <2>3, <2>4 DEF Inv, ListInv
<1>6. StoreInv'
  <2>1. /\ \A j \in Items : LiveStore(j)' <=> LiveStore(j)
        /\ \A j \in Items : (kind[j] = "store" /\ life[j] = "done")' => kind[j] = "store" /\ life[j] = "done"
    BY <1>3, RanOther DEF Inv
  <2>. QED BY <1>2, <2>1, PassStores DEF external, ElseAt
<1>7. EndInv'
  BY <1>1, <1>2, PassTop DEF Inv, EndInv, external, AloneAt
<1>8. PostInv'
  BY <1>3 DEF Inv, PostInv, external, RunsOne
<1>. QED BY <1>2, <1>4, <1>5, <1>6, <1>7, <1>8 DEF Inv

(* Realm tokens are taken off before their callback runs. *)
LEMMA UnassignTokensKeeps ==
  ASSUME Inv, UnassignTokens
  PROVE  Inv'
<1>1. Top.at \in {"tokens", "tokensAgain"} /\ Top.at \in ElseAt
  BY DEF UnassignTokens, At, ElseAt, ReleaseAt
<1>2. UNCHANGED <<phase, hooked, kind, hooks, refs, instance, external, pending, scheduled, tasks>>
  BY DEF UnassignTokens
<1>3. CASE tokens = {}
  <2>. PICK f : f = Frame(IF At("tokens") THEN "hooks" ELSE "refs", 0, {})
    OBVIOUS
  <2>1. Goto(f) /\ UNCHANGED <<life, runs, tokens>>
    BY <1>3 DEF UnassignTokens, Goes
  <2>2. FitsPass(f) /\ f.at \in {"hooks", "refs"} /\ f.set = {} /\ EndAt(f)
    BY DEF FitsPass, Frame, Frames, ReleaseAt, AloneAt, StoreAt, DrainAt, EndAt
  <2>. QED BY <1>1, <1>2, <2>1, <2>2, PassGoesKeeps DEF kept
<1>4. CASE tokens # {}
  <2>1. PICK t \in tokens : tokens' = tokens \ {t} /\ Ran({t}) /\ CallThen(t, Top)
    BY <1>4 DEF UnassignTokens
  <2>2. t \in Items /\ kind[t] = "token" /\ life[t] = "live" /\ refs' = refs \ {t} /\ instance' = instance \ {t}
    BY <1>2 DEF Inv, Types, ListInv
  <2>3. FitsPass(Top) /\ Top.at \notin AloneAt /\ Top.set = {}
    BY <1>1, StackTop DEF FitsPass, ReleaseAt, AloneAt, Inv, StackInv, StoreAt, DrainAt
  <2>. QED BY <1>1, <1>2, <2>1, <2>2, <2>3, PassCallsKeeps
<1>. QED BY <1>3, <1>4

(* RunEnvCleanupHooks takes a snapshot. *)
LEMMA SnapshotHooksKeeps ==
  ASSUME Inv, SnapshotHooks
  PROVE  Inv'
<1>1. Top.at \in ElseAt
  BY DEF SnapshotHooks, At, ElseAt, ReleaseAt, AloneAt
<1>2. UNCHANGED <<item, kept, external, pending, scheduled, tasks>>
  BY DEF SnapshotHooks
<1>. PICK f : f = IF hooks = {} THEN Frame("tokensAgain", 0, {}) ELSE Frame("runHooks", 0, hooks)
  OBVIOUS
<1>3. Goto(f)
  BY DEF SnapshotHooks, Goes
<1>4. FitsPass(f) /\ f.at \in {"tokensAgain", "runHooks"} /\ EndAt(f) /\ f.at \notin StoreAt
  BY DEF FitsPass, Frame, Frames, ReleaseAt, AloneAt, StoreAt, DrainAt, EndAt, Inv, Types
<1>. QED BY <1>1, <1>2, <1>3, <1>4, PassGoesKeeps DEF item

(* A hook of the snapshot runs if it is still listed, and stays listed. *)
LEMMA RunHookKeeps ==
  ASSUME Inv, RunHook
  PROVE  Inv'
<1>1. Top.at \in ElseAt /\ Top.at \in ReleaseAt
  BY DEF RunHook, At, ElseAt, ReleaseAt
<1>2. UNCHANGED <<phase, hooked, kind, kept, external, pending, scheduled, tasks>>
  BY DEF RunHook
<1>3. CASE Top.set = {}
  <2>. PICK f : f = Frame("hooks", 0, {})
    OBVIOUS
  <2>1. Goto(f) /\ UNCHANGED <<life, runs>>
    BY <1>3 DEF RunHook, Goes
  <2>2. FitsPass(f) /\ f.at = "hooks" /\ f.set = {} /\ EndAt(f)
    BY DEF FitsPass, Frame, Frames, ReleaseAt, AloneAt, StoreAt, DrainAt, EndAt
  <2>. QED BY <1>1, <1>2, <2>1, <2>2, PassGoesKeeps
<1>4. CASE Top.set # {}
  <2>. DEFINE h == Max(Top.set)
              f == Frame("runHooks", 0, Top.set \ {h})
  <2>1. h \in Items /\ Top.set \subseteq Items
    BY <1>1, <1>4, PassTop, MaxOfItems
  <2>2. IF h \in hooks THEN Ran({h}) /\ CallThen(h, f) ELSE Goto(f) /\ UNCHANGED <<life, runs>>
    BY <1>4 DEF RunHook
  <2>. HIDE DEF h
  <2>3. FitsPass(f) /\ f.at = "runHooks" /\ f.at \notin AloneAt \cup StoreAt /\ EndAt(f)
    BY <2>1 DEF FitsPass, Frame, Frames, ReleaseAt, AloneAt, StoreAt, DrainAt, EndAt
  <2>. HIDE DEF f
  <2>4. CASE h \in hooks
    <3>1. kind[h] = "hook" /\ life[h] = "live"
      BY <1>1, <2>1, <2>4, PassTop DEF Inv, ListInv
    <3>2. refs' = refs \ {h} /\ tokens' = tokens \ {h} /\ instance' = instance \ {h}
      BY <1>2, <2>1, <3>1 DEF Inv, ListInv, kept
    <3>. QED BY <1>1, <1>2, <2>1, <2>2, <2>3, <2>4, <3>1, <3>2, PassCallsKeeps DEF kept
  <2>5. CASE h \notin hooks
    BY <1>1, <1>2, <2>2, <2>3, <2>5, PassGoesKeeps
  <2>. QED BY <2>4, <2>5
<1>. QED BY <1>3, <1>4

(* FinalizeAll takes the newest reference off the list and calls it. *)
LEMMA FinalizeAllKeeps ==
  ASSUME Inv, FinalizeAll
  PROVE  Inv'
<1>1. Top.at = "refs" /\ Top.at \in ElseAt /\ Top.at \in ReleaseAt
  BY DEF FinalizeAll, At, ElseAt, ReleaseAt
<1>2. UNCHANGED <<phase, hooked, kind, hooks, tokens, instance, external, scheduled, tasks>>
  BY DEF FinalizeAll
<1>3. CASE refs = {}
  <2>. PICK f : f = Frame("take", 0, {})
    OBVIOUS
  <2>1. Goto(f) /\ pending' \subseteq pending /\ UNCHANGED <<life, runs, refs>>
    BY <1>3 DEF FinalizeAll, Goes
  <2>2. FitsPass(f) /\ f.at = "take" /\ f.set = {} /\ EndAt(f)
    BY DEF FitsPass, Frame, Frames, ReleaseAt, AloneAt, StoreAt, DrainAt, EndAt
  <2>. QED BY <1>1, <1>2, <2>1, <2>2, PassGoesKeeps DEF kept
<1>4. CASE refs # {}
  <2>. DEFINE r == Max(refs)
  <2>1. r \in refs
    BY <1>4, MaxOfItems DEF Inv, Types
  <2>2. Finalize(r, Top) /\ UNCHANGED pending
    BY <1>4 DEF FinalizeAll
  <2>. HIDE DEF r
  <2>3. r \in Items /\ kind[r] = "ref" /\ life[r] = "live"
    BY <2>1 DEF Inv, Types, ListInv
  <2>4. Ran({r}) /\ CallThen(r, Top) /\ refs' = refs \ {r}
    BY <2>2, <2>3 DEF Finalize
  <2>5. tokens' = tokens \ {r} /\ instance' = instance \ {r}
    BY <1>2, <2>3 DEF Inv, ListInv
  <2>6. FitsPass(Top) /\ Top.at \notin AloneAt \cup StoreAt
    BY <1>1, StackTop DEF FitsPass, ReleaseAt, AloneAt, Inv, StackInv, StoreAt, DrainAt
  <2>. QED BY <1>1, <1>2, <2>2, <2>3, <2>4, <2>5, <2>6, PassCallsKeeps
<1>. QED BY <1>3, <1>4

(* Another round, the instance data, or the end. *)
LEMMA RoundKeeps ==
  ASSUME Inv, Round
  PROVE  Inv'
<1>1. Top.at = "round" /\ Top.at \in ElseAt /\ Top.at \in ReleaseAt
  BY DEF Round, At, ElseAt, ReleaseAt, AloneAt
<1>2. UNCHANGED <<phase, hooked, kind, hooks, refs, tokens, external, pending, scheduled, tasks>>
  BY DEF Round
<1>3. tracked = {} /\ hints = {}
  BY <1>1, PassTop DEF Inv, EndInv
<1>4. CASE instance' = instance
  <2>1. PICK f : /\ f \in {Frame("tokens", 0, {}), Frame("wait", 0, {})} /\ Goto(f)
                 /\ UNCHANGED <<life, runs>>
                 /\ f.at = "wait" => hooks \cup refs \cup tokens \cup instance = {}
    <3>1. CASE hooks \cup refs \cup tokens # {}
      BY <3>1 DEF Round, Goes, Frame
    <3>2. CASE hooks \cup refs \cup tokens \cup instance = {}
      BY <3>2 DEF Round, Goes, Frame
    <3>3. CASE hooks \cup refs \cup tokens = {} /\ instance # {}
      BY <1>4, <3>3 DEF Round
    <3>. QED BY <3>1, <3>2, <3>3
  <2>2. FitsPass(f) /\ f.at \in {"tokens", "wait"} /\ f.set = {} /\ EndAt(f)
    BY <1>3, <2>1 DEF FitsPass, Frame, Frames, ReleaseAt, AloneAt, StoreAt, DrainAt, EndAt
  <2>. QED BY <1>1, <1>2, <1>4, <2>1, <2>2, PassGoesKeeps DEF kept
<1>5. CASE instance' # instance
  <2>1. PICK i \in instance : instance' = {} /\ Ran(instance) /\ CallThen(i, Frame("tokens", 0, {}))
    BY <1>5 DEF Round
  <2>2. i \in Items /\ kind[i] = "instance" /\ life[i] = "live" /\ instance = {i}
    BY DEF Inv, Types, ListInv
  <2>3. Ran({i}) /\ refs' = refs \ {i} /\ tokens' = tokens \ {i} /\ instance' = instance \ {i}
    BY <1>2, <2>1, <2>2 DEF Inv, ListInv
  <2>. PICK f : f = Frame("tokens", 0, {})
    OBVIOUS
  <2>4. FitsPass(f) /\ f.at \notin AloneAt \cup StoreAt \cup {"claim"}
    BY DEF FitsPass, Frame, Frames, ReleaseAt, AloneAt, StoreAt, DrainAt
  <2>. QED BY <1>1, <1>2, <2>1, <2>2, <2>3, <2>4, PassCallsKeeps
<1>. QED BY <1>4, <1>5

(* StoreInv, when only the release may hold external finalizers. *)
LEMMA PassHas ==
  ASSUME Inv, Top.at \in ReleaseAt
  PROVE  /\ TrackedLive /\ QueuedLive /\ ClaimsNewest /\ DetachedFirst
         /\ tracked \subseteq Items /\ queue \subseteq Items /\ hints \subseteq Items
         /\ \A j \in Items :
              /\ InHand(j) => LiveStore(j) /\ j \notin hints /\ j \notin queue /\ j \notin attached
              /\ LiveStore(j) => j \in hints \/ j \in queue \/ InHand(j)
              /\ LiveStore(j) => j \in tracked \/ Seen(j)
<1>1. 2 \in 1..Len(calls)
  BY PassTop
<1>2. \A j \in Items : InHand(j) => LiveStore(j) /\ j \notin hints /\ j \notin queue /\ j \notin attached
  BY <1>1, PassTop DEF Inv, StoreInv, HeldOnce
<1>3. \A j \in Items : LiveStore(j) => j \in hints \/ j \in queue \/ InHand(j)
  BY <1>1, PassTop DEF Inv, StoreInv, Owned
<1>4. \A j \in Items : LiveStore(j) => j \in tracked \/ Seen(j)
  BY DEF Inv, StoreInv, InSight
<1>. QED BY <1>2, <1>3, <1>4 DEF Inv, StoreInv, Types

(* And after a step. *)
LEMMA PassLeaves ==
  ASSUME Len(calls') \in Nat, Len(calls') >= 2, phase' = "releasing",
         \A n \in 1..Len(calls'), j \in Items : Holds(n, j)' <=> n = 2 /\ InHand(j)',
         TrackedLive', QueuedLive', ClaimsNewest', DetachedFirst',
         \A j \in Items :
           /\ InHand(j)' => LiveStore(j)' /\ j \notin hints' /\ j \notin queue' /\ j \notin attached'
           /\ LiveStore(j)' => j \in hints' \/ j \in queue' \/ InHand(j)'
           /\ LiveStore(j)' => j \in tracked' \/ Seen(j)'
  PROVE  StoreInv'
<1>1. 2 \in 1..Len(calls')
  OBVIOUS
<1>2. HeldOnce'
  BY DEF HeldOnce
<1>3. Owned'
  BY <1>1 DEF Owned
<1>4. InSight'
  BY DEF InSight
<1>. QED BY <1>2, <1>3, <1>4 DEF StoreInv

(* The pass takes what deleters queued. *)
LEMMA TakeQueuedKeeps ==
  ASSUME Inv, TakeQueued
  PROVE  Inv'
<1>1. Top.at = "take" /\ Top.at \in ReleaseAt
  BY DEF TakeQueued, At, ReleaseAt
<1>2. UNCHANGED <<item, kept, hints, tracked, stores, attached, deleter, pending, scheduled, tasks>> /\ queue' = {}
  BY DEF TakeQueued
<1>3. posted' \in BOOLEAN
  BY DEF TakeQueued
<1>. PICK f : f = Frame("pick", 0, Top.set \cup queue)
  OBVIOUS
<1>4. Goto(f)
  BY DEF TakeQueued
<1>5. FitsPass(f) /\ f.at = "pick" /\ f.set = Top.set \cup queue
  BY <1>1, PassTop DEF FitsPass, Frame, Frames, ReleaseAt, AloneAt, StoreAt, Inv, Types
<1>6. /\ calls' \in Seq(Frames) /\ StackInv' /\ Len(calls') = 2 /\ calls'[2] = f
      /\ \A j : ~ Running(j)'
      /\ \A n \in 1..Len(calls'), j \in Items : Holds(n, j)' <=> n = 2 /\ InHand(j)'
  BY <1>1, <1>2, <1>4, <1>5, PassGoto DEF item
<1>7. Types'
  BY <1>2, <1>3, <1>6 DEF Inv, Types, item, kept
<1>8. ListInv'
  BY <1>1, <1>2, <1>6, PassTop DEF Inv, ListInv, item, kept
<1>9. StoreInv'
  <2>1. \A j : LiveStore(j)' <=> LiveStore(j)
    BY <1>2 DEF LiveStore, item
  <2>2. \A j : InHand(j) <=> j \in Top.set
    BY <1>1, PassTop DEF InHand, StoreAt
  <2>3. \A j : InHand(j)' <=> j \in Top.set \/ j \in queue
    BY <1>5, <1>6 DEF InHand, StoreAt
  <2>4. \A j : Seen(j) => Seen(j)'
    BY <1>1, <1>5, <1>6, PassTop DEF Seen
  <2>5. TrackedLive' /\ QueuedLive' /\ ClaimsNewest' /\ DetachedFirst'
    BY <1>1, <1>2, <1>5, <1>6, <2>1, PassHas DEF TrackedLive, QueuedLive, ClaimsNewest, DetachedFirst, item
  <2>6. phase' = "releasing"
    BY <1>1, <1>2, PassTop DEF item
  <2>7. \A j \in Items :
           /\ InHand(j)' => LiveStore(j)' /\ j \notin hints' /\ j \notin queue' /\ j \notin attached'
           /\ LiveStore(j)' => j \in hints' \/ j \in queue' \/ InHand(j)'
           /\ LiveStore(j)' => j \in tracked' \/ Seen(j)'
    BY <1>1, <1>2, <2>1, <2>2, <2>3, <2>4, PassHas DEF QueuedLive
  <2>. QED BY <1>6, <2>5, <2>6, <2>7, PassLeaves
<1>10. EndInv'
  BY <1>1, <1>2, <1>5, <1>6, PassTop DEF EndInv, item
<1>11. PostInv'
  BY <1>1, <1>2, PassTop DEF Inv, PostInv, item
<1>. QED BY <1>6, <1>7, <1>8, <1>9, <1>10, <1>11 DEF Inv

(* The pass runs the finalizer of one external buffer, which it holds or has
   just claimed from the hint. *)
LEMMA PassFinalizes ==
  ASSUME Inv, Top.at \in {"pick", "claim"}, NEW i \in Items, LiveStore(i), i \notin attached,
         i \notin queue, i \notin hints', Ran({i}),
         NEW S \in SUBSET Items, CallThen(i, Frame("take", 0, S)), S = Top.set \ {i},
         UNCHANGED <<phase, hooked, kind, kept, queue, stores, attached, posted, deleter, pending, tasks>>,
         tracked' = tracked \ {i}, hints' \subseteq hints, \A j \in Items : j # i /\ j \in hints => j \in hints',
         \A j \in Items : LiveStore(j) => j \in tracked \/ j \in Top.set \/ j = i
  PROVE  Inv'
<1>1. Top.at \in ReleaseAt /\ Top.at \in StoreAt
  BY DEF ReleaseAt, AloneAt, StoreAt
<1>. PICK f : f = Frame("take", 0, S)
  OBVIOUS
<1>2. FitsPass(f) /\ f.at = "take" /\ f.set = S /\ f.at \notin AloneAt
  BY DEF FitsPass, Frame, Frames, ReleaseAt, AloneAt, StoreAt
<1>3. /\ calls' \in Seq(Frames) /\ StackInv' /\ Len(calls') = 3 /\ calls'[2] = f
      /\ \A j : Running(j)' <=> j = i
      /\ \A n \in 1..Len(calls'), j \in Items : Holds(n, j)' <=> n = 2 /\ InHand(j)'
  BY <1>1, <1>2, PassCall
<1>4. RunsOne(i)
  BY RanOne DEF Inv
<1>5. Types'
  BY <1>3, <1>4 DEF Inv, Types, kept, RunsOne
<1>6. ListInv'
  <2>1. kind[i] = "store" /\ life[i] = "live"
    BY DEF LiveStore
  <2>. QED BY <1>1, <1>3, <1>4, <2>1, PassTop DEF Inv, ListInv, kept, RunsOne
<1>7. StoreInv'
  <2>1. \A j \in Items : LiveStore(j)' <=> LiveStore(j) /\ j # i
    BY <1>4 DEF LiveStore, RunsOne
  <2>2. \A j : InHand(j) <=> j \in Top.set
    BY <1>1, PassTop DEF InHand
  <2>3. \A j : InHand(j)' <=> j \in Top.set /\ j # i
    BY <1>2, <1>3 DEF InHand, StoreAt
  <2>4. \A j : j \in Top.set /\ j # i => Seen(j)'
    BY <1>2, <1>3 DEF Seen
  <2>5. TrackedLive' /\ QueuedLive' /\ ClaimsNewest'
    BY <1>1, <1>2, <1>3, <2>1, PassHas DEF TrackedLive, QueuedLive, ClaimsNewest
  <2>6. DetachedFirst'
    BY <1>1, <1>4, PassHas DEF DetachedFirst, RunsOne
  <2>7. phase' = "releasing"
    BY <1>1, PassTop
  <2>8. \A j \in Items :
           /\ InHand(j)' => LiveStore(j)' /\ j \notin hints' /\ j \notin queue' /\ j \notin attached'
           /\ LiveStore(j)' => j \in hints' \/ j \in queue' \/ InHand(j)'
           /\ LiveStore(j)' => j \in tracked' \/ Seen(j)'
    BY <1>1, <2>1, <2>2, <2>3, <2>4, PassHas
  <2>. QED BY <1>3, <2>5, <2>6, <2>7, <2>8, PassLeaves
<1>8. EndInv'
  BY <1>1, <1>2, <1>3, PassTop DEF EndInv
<1>9. PostInv'
  BY <1>1, <1>4, PassTop DEF Inv, PostInv, RunsOne, LiveStore
<1>. QED BY <1>3, <1>5, <1>6, <1>7, <1>8, <1>9 DEF Inv

(* The newest external buffer: its finalizer runs, or the buffer is detached
   first; with none left the pass goes on. *)
LEMMA PickNewestKeeps ==
  ASSUME Inv, PickNewest
  PROVE  Inv'
<1>1. Top.at = "pick" /\ Top.at \in ReleaseAt /\ Top.at \in StoreAt
  BY DEF PickNewest, At, ReleaseAt, AloneAt, StoreAt
<1>2. UNCHANGED <<phase, hooked, kind, kept, hints, queue, stores, posted, deleter, pending, scheduled, tasks>>
  BY DEF PickNewest
<1>. DEFINE i == Max(Top.set \cup tracked \cup {0})
<1>3. /\ Top.set \subseteq Items /\ tracked \subseteq Items
      /\ i \in Top.set \cup tracked \cup {0}
      /\ \A y \in Top.set \cup tracked \cup {0} : y <= i
  <2>1. Top.set \subseteq Items /\ tracked \subseteq Items
    BY <1>1, PassTop, PassHas
  <2>2. Top.set \cup tracked \cup {0} \in SUBSET (Items \cup {0}) /\ Top.set \cup tracked \cup {0} # {}
    BY <2>1
  <2>. QED BY <2>1, <2>2, MaxOfItems
<1>4. \A j \in Items : /\ LiveStore(j) => j \in tracked \/ j \in Top.set
                       /\ InHand(j) <=> j \in Top.set
  BY <1>1, PassTop, PassHas DEF Seen, InHand
<1>5. \/ /\ i \in Top.set
         /\ tracked' = tracked \ {i} /\ Ran({i}) /\ CallThen(i, Frame("take", 0, Top.set \ {i}))
         /\ UNCHANGED attached
      \/ /\ i \in tracked \ Top.set
         /\ tracked' = tracked \ {i} /\ attached' = attached \ {i}
         /\ Goto(Frame("claim", i, Top.set))
         /\ UNCHANGED <<life, runs>>
      \/ /\ i = 0
         /\ Goes("swap") /\ UNCHANGED <<life, runs, tracked, attached>>
  BY DEF PickNewest
<1>. HIDE DEF i
<1>6. CASE i \in Top.set
  <2>1. i \in Items /\ i # 0 /\ i \notin tracked \ Top.set
    BY <1>3, <1>6, NAssumption DEF Items
  <2>2. LiveStore(i) /\ i \notin attached /\ i \notin queue /\ i \notin hints
    BY <1>1, <1>4, <1>6, <2>1, PassHas
  <2>3. Top.set \ {i} \in SUBSET Items
    BY <1>3
  <2>. QED BY <1>1, <1>2, <1>4, <1>5, <2>1, <2>2, <2>3, PassFinalizes
<1>7. CASE i \in tracked \ Top.set
  <2>1. i \in Items /\ i # 0
    BY <1>3, <1>7, NAssumption DEF Items
  <2>2. LiveStore(i)
    BY <1>1, <1>7, PassHas DEF TrackedLive
  <2>. PICK f : f = Frame("claim", i, Top.set)
    OBVIOUS
  <2>3. tracked' = tracked \ {i} /\ attached' = attached \ {i} /\ Goto(f) /\ UNCHANGED <<life, runs>>
    BY <1>5, <1>7, <2>1
  <2>4. FitsPass(f) /\ f.at = "claim" /\ f.item = i /\ f.set = Top.set
    BY <1>3, <2>1 DEF FitsPass, Frame, Frames, ReleaseAt, AloneAt, StoreAt
  <2>5. /\ calls' \in Seq(Frames) /\ StackInv' /\ Len(calls') = 2 /\ calls'[2] = f
        /\ \A j : ~ Running(j)'
        /\ \A n \in 1..Len(calls'), j \in Items : Holds(n, j)' <=> n = 2 /\ InHand(j)'
    BY <1>1, <1>2, <2>3, <2>4, PassGoto
  <2>6. Types'
    BY <1>2, <2>3, <2>5 DEF Inv, Types, kept
  <2>7. ListInv'
    BY <1>1, <1>2, <2>3, <2>5, PassTop DEF Inv, ListInv, kept
  <2>8. StoreInv'
    <3>1. \A j : LiveStore(j)' <=> LiveStore(j)
      BY <1>2, <2>3 DEF LiveStore
    <3>2. \A j \in Items : InHand(j)' <=> j \in Top.set
      BY <2>4, <2>5 DEF InHand, StoreAt
    <3>3. \A j : j \in Top.set \/ j = i => Seen(j)'
      BY <2>4, <2>5 DEF Seen
    <3>4. TrackedLive' /\ QueuedLive' /\ DetachedFirst'
      BY <1>1, <1>2, <2>3, <3>1, PassHas DEF TrackedLive, QueuedLive, DetachedFirst
    <3>5. ClaimsNewest'
      BY <1>3, <1>4, <1>7, <2>2, <2>3, <2>4, <2>5, <3>1 DEF ClaimsNewest
    <3>6. phase' = "releasing"
      BY <1>1, <1>2, PassTop
    <3>7. \A j \in Items :
           /\ InHand(j)' => LiveStore(j)' /\ j \notin hints' /\ j \notin queue' /\ j \notin attached'
           /\ LiveStore(j)' => j \in hints' \/ j \in queue' \/ InHand(j)'
           /\ LiveStore(j)' => j \in tracked' \/ Seen(j)'
      BY <1>1, <1>2, <1>4, <2>3, <3>1, <3>2, <3>3, PassHas
    <3>. QED BY <2>5, <3>4, <3>5, <3>6, <3>7, PassLeaves
  <2>9. EndInv'
    BY <1>1, <1>2, <2>4, <2>5, PassTop DEF EndInv
  <2>10. PostInv'
    BY <1>1, <1>2, <2>3, PassTop DEF Inv, PostInv
  <2>. QED BY <2>5, <2>6, <2>7, <2>8, <2>9, <2>10 DEF Inv
<1>8. CASE i = 0
  <2>1. Top.set = {} /\ tracked = {}
    BY <1>3, <1>8, NAssumption DEF Items
  <2>2. Goes("swap") /\ UNCHANGED <<life, runs, tracked, attached>>
    BY <1>5, <1>8, <2>1
  <2>. PICK f : f = Frame("swap", 0, {})
    OBVIOUS
  <2>3. Goto(f) /\ FitsPass(f) /\ f.at = "swap" /\ f.set = {}
    BY <2>2 DEF Goes, FitsPass, Frame, Frames, ReleaseAt, AloneAt, StoreAt, DrainAt
  <2>4. /\ calls' \in Seq(Frames) /\ StackInv' /\ Len(calls') = 2 /\ calls'[2] = f
        /\ \A j : ~ Running(j)'
        /\ \A n \in 1..Len(calls'), j \in Items : Holds(n, j)' <=> n = 2 /\ InHand(j)'
    BY <1>1, <1>2, <2>3, PassGoto
  <2>5. Types'
    BY <1>2, <2>2, <2>4 DEF Inv, Types, kept
  <2>6. ListInv'
    BY <1>1, <1>2, <2>2, <2>4, PassTop DEF Inv, ListInv, kept
  <2>7. StoreInv'
    <3>1. \A j \in Items : ~ LiveStore(j) /\ ~ LiveStore(j)'
      BY <1>2, <1>4, <2>1, <2>2 DEF LiveStore
    <3>2. \A j \in Items : ~ InHand(j)'
      BY <2>3, <2>4 DEF InHand
    <3>3. TrackedLive' /\ QueuedLive' /\ DetachedFirst' /\ ClaimsNewest'
      BY <1>1, <1>2, <2>1, <2>2, <2>3, <2>4, <3>1, PassHas DEF TrackedLive, QueuedLive, DetachedFirst, ClaimsNewest
    <3>4. phase' = "releasing"
      BY <1>1, <1>2, PassTop
    <3>. QED BY <2>4, <3>1, <3>2, <3>3, <3>4, PassLeaves
  <2>8. EndInv'
    BY <1>1, <1>2, <2>1, <2>2, <2>3, <2>4, PassTop DEF EndInv
  <2>9. PostInv'
    BY <1>1, <1>2, <2>2, PassTop DEF Inv, PostInv
  <2>. QED BY <2>4, <2>5, <2>6, <2>7, <2>8, <2>9 DEF Inv
<1>. QED BY <1>3, <1>6, <1>7, <1>8

(* The detached buffer's finalizer: the pass claims it from the hint, or the
   deleter came first and it is queued. *)
LEMMA ClaimDetachedKeeps ==
  ASSUME Inv, ClaimDetached
  PROVE  Inv'
<1>1. Top.at = "claim" /\ Top.at \in ReleaseAt /\ Top.at \in StoreAt
  BY DEF ClaimDetached, At, ReleaseAt, AloneAt, StoreAt
<1>. PICK c : c = Top.item
  OBVIOUS
<1>2. /\ UNCHANGED <<phase, hooked, kind, kept, tracked, queue, stores, attached, posted, deleter, pending, scheduled, tasks>>
      /\ hints' = hints \ {c}
  BY DEF ClaimDetached
<1>3. /\ c \in Items /\ LiveStore(c) /\ c \notin tracked /\ c \notin attached /\ c \notin Top.set
      /\ Top.set \subseteq Items
  BY <1>1, PassTop, PassHas DEF ClaimsNewest, Inv, StackInv
<1>4. \A j \in Items : /\ LiveStore(j) => j \in tracked \/ j \in Top.set \/ j = c
                       /\ InHand(j) <=> j \in Top.set
  BY <1>1, PassTop, PassHas DEF Seen, InHand
<1>5. CASE c \in hints
  <2>1. Ran({c}) /\ CallThen(c, Frame("take", 0, Top.set))
    BY <1>5 DEF ClaimDetached
  <2>2. c \notin queue /\ c \notin hints' /\ Top.set \in SUBSET Items /\ Top.set = Top.set \ {c}
    BY <1>1, <1>2, <1>3, <1>5, PassHas DEF QueuedLive
  <2>3. tracked' = tracked \ {c} /\ hints' \subseteq hints /\ \A j \in Items : j # c /\ j \in hints => j \in hints'
    BY <1>2, <1>3
  <2>. QED BY <1>1, <1>2, <1>3, <1>4, <2>1, <2>2, <2>3, PassFinalizes
<1>6. CASE c \notin hints
  <2>. PICK f : f = Frame("take", 0, Top.set)
    OBVIOUS
  <2>1. Goto(f) /\ UNCHANGED <<life, runs, hints>>
    BY <1>2, <1>6 DEF ClaimDetached
  <2>2. FitsPass(f) /\ f.at = "take" /\ f.set = Top.set
    BY <1>3 DEF FitsPass, Frame, Frames, ReleaseAt, AloneAt, StoreAt
  <2>3. /\ calls' \in Seq(Frames) /\ StackInv' /\ Len(calls') = 2 /\ calls'[2] = f
        /\ \A j : ~ Running(j)'
        /\ \A n \in 1..Len(calls'), j \in Items : Holds(n, j)' <=> n = 2 /\ InHand(j)'
    BY <1>1, <1>2, <2>1, <2>2, PassGoto
  <2>4. c \in queue
    BY <1>1, <1>3, <1>4, <1>6, PassHas
  <2>5. Types'
    BY <1>2, <2>1, <2>3 DEF Inv, Types, kept
  <2>6. ListInv'
    BY <1>1, <1>2, <2>1, <2>3, PassTop DEF Inv, ListInv, kept
  <2>7. StoreInv'
    <3>1. \A j : LiveStore(j)' <=> LiveStore(j)
      BY <1>2, <2>1 DEF LiveStore
    <3>2. \A j \in Items : InHand(j)' <=> j \in Top.set
      BY <2>2, <2>3 DEF InHand, StoreAt
    <3>3. \A j : j \in Top.set \/ j = c => Seen(j)'
      BY <1>2, <2>2, <2>3, <2>4 DEF Seen
    <3>4. TrackedLive' /\ QueuedLive' /\ DetachedFirst' /\ ClaimsNewest'
      BY <1>1, <1>2, <2>1, <2>2, <2>3, <3>1, PassHas DEF TrackedLive, QueuedLive, DetachedFirst, ClaimsNewest
    <3>5. phase' = "releasing"
      BY <1>1, <1>2, PassTop
    <3>6. \A j \in Items :
           /\ InHand(j)' => LiveStore(j)' /\ j \notin hints' /\ j \notin queue' /\ j \notin attached'
           /\ LiveStore(j)' => j \in hints' \/ j \in queue' \/ InHand(j)'
           /\ LiveStore(j)' => j \in tracked' \/ Seen(j)'
      BY <1>1, <1>2, <1>4, <2>1, <3>1, <3>2, <3>3, PassHas
    <3>. QED BY <2>3, <3>4, <3>5, <3>6, PassLeaves
  <2>8. EndInv'
    BY <1>1, <1>2, <2>2, <2>3, PassTop DEF EndInv
  <2>9. PostInv'
    BY <1>1, <1>2, <2>1, PassTop DEF Inv, PostInv
  <2>. QED BY <2>3, <2>5, <2>6, <2>7, <2>8, <2>9 DEF Inv
<1>. QED BY <1>5, <1>6

(* Outside its pass over external buffers a release that tracks none has none
   live. *)
LEMMA NoneLive ==
  ASSUME Inv, Top.at \in ElseAt, tracked = {}
  PROVE  \A j \in Items : ~ LiveStore(j)
<1>1. Top.at \in ReleaseAt /\ Top.at \notin {"take", "pick", "claim"}
  BY DEF ElseAt
<1>2. \A j : ~ Seen(j)
  BY <1>1, PassTop DEF Seen
<1>. QED BY <1>1, <1>2, PassHas

(* The rest are free callbacks: the finalizers have all run. *)
LEMMA ClaimRestKeeps ==
  ASSUME Inv, ClaimRest
  PROVE  Inv'
<1>1. Top.at = "swap" /\ Top.at \in ReleaseAt /\ Top.at \in ElseAt
  BY DEF ClaimRest, At, ReleaseAt, AloneAt, ElseAt
<1>2. /\ UNCHANGED <<phase, hooked, kind, kept, tracked, queue, stores, attached, posted, deleter, pending, scheduled, tasks>>
      /\ hints' = {}
  BY DEF ClaimRest
<1>3. tracked = {} /\ \A j \in Items : ~ LiveStore(j)
  BY <1>1, PassTop, NoneLive DEF Inv, EndInv
<1>4. {i \in hints : kind[i] = "memory"} = hints
  BY <1>3 DEF Inv, Types, ListInv, LiveStore
<1>5. Ran(hints) /\ (IF hints = {} THEN Goes("round") ELSE Goto(Frame("runClaimed", 0, {})))
  BY <1>4 DEF ClaimRest
<1>. PICK f : f = IF hints = {} THEN Frame("round", 0, {}) ELSE Frame("runClaimed", 0, {})
  OBVIOUS
<1>6. Goto(f) /\ FitsPass(f) /\ f.at \in {"round", "runClaimed"} /\ f.set = {}
  BY <1>5 DEF Goes, FitsPass, Frame, Frames, ReleaseAt, AloneAt, StoreAt, DrainAt
<1>7. /\ calls' \in Seq(Frames) /\ StackInv' /\ Len(calls') = 2 /\ calls'[2] = f
      /\ \A j : ~ Running(j)'
      /\ \A n \in 1..Len(calls'), j \in Items : Holds(n, j)' <=> n = 2 /\ InHand(j)'
  BY <1>1, <1>2, <1>6, PassGoto
<1>8. /\ life' \in [Items -> {"none", "live", "done", "withdrawn"}] /\ runs' \in [Items -> Nat]
      /\ \A j \in Items : /\ j \in hints => life'[j] = "done" /\ runs'[j] = runs[j] + 1
                          /\ j \notin hints => life'[j] = life[j] /\ runs'[j] = runs[j]
  BY <1>5 DEF Ran, Inv, Types
<1>9. Types'
  BY <1>2, <1>7, <1>8 DEF Inv, Types, kept
<1>10. ListInv'
  <2>1. \A j \in Items : j \in hints => kind[j] = "memory" /\ life[j] = "live"
    BY <1>4 DEF Inv, ListInv
  <2>. QED BY <1>1, <1>2, <1>7, <1>8, <2>1, PassTop DEF Inv, ListInv, kept
<1>11. StoreInv'
  <2>1. \A j \in Items : (kind[j] = "store" => j \notin hints) /\ ~ LiveStore(j)'
    BY <1>2, <1>3, <1>4, <1>8 DEF LiveStore
  <2>2. \A j \in Items : ~ InHand(j)'
    BY <1>6, <1>7 DEF InHand
  <2>3. TrackedLive' /\ QueuedLive' /\ DetachedFirst' /\ ClaimsNewest'
    BY <1>1, <1>2, <1>3, <1>6, <1>7, <1>8, <2>1, PassHas DEF TrackedLive, QueuedLive, DetachedFirst, ClaimsNewest
  <2>4. phase' = "releasing"
    BY <1>1, <1>2, PassTop
  <2>. QED BY <1>7, <2>1, <2>2, <2>3, <2>4, PassLeaves
<1>12. EndInv'
  BY <1>1, <1>2, <1>3, <1>6, <1>7, PassTop DEF EndInv
<1>13. PostInv'
  BY <1>1, <1>2, <1>8, PassTop DEF Inv, PostInv, ListInv
<1>. QED BY <1>7, <1>9, <1>10, <1>11, <1>12, <1>13 DEF Inv

(* There is nothing for RunClaimed to run. *)
LEMMA RunClaimedKeeps ==
  ASSUME Inv, RunClaimed
  PROVE  Inv'
<1>1. Top.at = "runClaimed" /\ Top.at \in ElseAt
  BY DEF RunClaimed, At, ReleaseAt, AloneAt, ElseAt
<1>2. Top.set = {}
  BY <1>1, StackTop DEF Inv, StackInv, StoreAt, DrainAt
<1>. PICK f : f = Frame("take", 0, {})
  OBVIOUS
<1>3. Goto(f) /\ UNCHANGED <<phase, hooked, kind, life, runs, kept, external, pending, tasks>>
  BY <1>2 DEF RunClaimed, Goes
<1>4. FitsPass(f) /\ f.at = "take" /\ f.set = {} /\ EndAt(f)
  BY DEF FitsPass, Frame, Frames, ReleaseAt, AloneAt, StoreAt, DrainAt, EndAt
<1>. QED BY <1>1, <1>3, <1>4, PassGoesKeeps

(* The release begins. *)
LEMMA ReleaseKeeps ==
  ASSUME Inv, Release
  PROVE  Inv'
<1>1. /\ Top.at = "user" /\ phase = "open" /\ phase' = "releasing"
      /\ calls' = Append(calls, Frame("tokens", 0, {}))
      /\ UNCHANGED <<hooked, kind, life, runs, kept, external, pending, scheduled, tasks>>
  BY DEF Release, At
<1>2. Len(calls) = 1
  BY <1>1, StackTop DEF Inv, StackInv
<1>3. Frame("tokens", 0, {}) \in Frames
  BY DEF Frame, Frames, ReleaseAt
<1>4. /\ calls' \in Seq(Frames) /\ Len(calls') = 2 /\ calls'[2] = Frame("tokens", 0, {})
      /\ calls'[1] = calls[1] /\ calls[1].at = "user" /\ calls[1].set = {}
  <2>1. calls \in Seq(Frames)
    BY DEF Inv, Types
  <2>2. /\ calls' \in Seq(Frames) /\ Len(calls') = Len(calls) + 1
        /\ calls'[Len(calls) + 1] = Frame("tokens", 0, {}) /\ \A n \in 1..Len(calls) : calls'[n] = calls[n]
    BY <1>1, <1>3, <2>1, Pushed
  <2>3. 1 \in 1..Len(calls)
    BY <1>2
  <2>4. calls[1].at = "user" /\ calls[1].set = {}
    BY <2>3 DEF Inv, StackInv, StoreAt, DrainAt
  <2>. QED BY <1>2, <2>2, <2>3, <2>4
<1>5. \A n \in 1..Len(calls') : n = 1 \/ n = 2
  BY <1>4
<1>6. StackInv'
  BY <1>1, <1>4, <1>5 DEF StackInv, Frame, ReleaseAt, AloneAt, StoreAt, DrainAt
<1>7. Types'
  BY <1>1, <1>4 DEF Inv, Types, kept, external
<1>8. ListInv'
  <2>1. \A j : ~ Running(j) /\ ~ Running(j)'
    BY <1>2, <1>4, <1>5 DEF Running, Frame
  <2>. QED BY <1>1, <2>1 DEF Inv, ListInv, kept, external
<1>9. StoreInv'
  <2>1. \A n \in 1..Len(calls'), j \in Items : ~ Holds(n, j)'
    BY <1>4, <1>5 DEF Holds, Frame
  <2>2. \A n \in 1..Len(calls), j \in Items : ~ Holds(n, j)
    BY <1>2, <1>4 DEF Holds
  <2>3. \A j : LiveStore(j)' <=> LiveStore(j)
    BY <1>1 DEF LiveStore
  <2>. USE DEF Inv, StoreInv
  <2>4. TrackedLive' /\ QueuedLive' /\ DetachedFirst'
    BY <1>1, <2>3 DEF TrackedLive, QueuedLive, DetachedFirst, external
  <2>5. HeldOnce' /\ Owned'
    BY <1>1, <2>1, <2>2, <2>3 DEF HeldOnce, Owned, external
  <2>6. InSight' /\ ClaimsNewest'
    BY <1>1, <1>4, <2>3 DEF InSight, ClaimsNewest, external, Frame
  <2>. QED BY <2>4, <2>5, <2>6
<1>10. EndInv'
  BY <1>1, <1>4 DEF EndInv, Frame
<1>11. PostInv'
  BY <1>1 DEF Inv, PostInv, external
<1>. QED BY <1>6, <1>7, <1>8, <1>9, <1>10, <1>11 DEF Inv

(* InFlight counts the deleters between their decision and the end of their
   post. *)
LEMMA FlightCount ==
  ASSUME Types
  PROVE  /\ InFlight \in Nat
         /\ InFlight = 0 <=> \A i \in Items : deleter[i] \in {"none", "done"}
<1>. DEFINE F == {i \in Items : deleter[i] \in {"posting", "posted", "refused"}}
<1>1. IsFiniteSet(Items)
  BY NAssumption, FS_Interval DEF Items
<1>2. IsFiniteSet(F)
  BY <1>1, FS_Subset
<1>3. Cardinality(F) \in Nat /\ (Cardinality(F) = 0 <=> F = {})
  BY <1>2, FS_CardinalityType, FS_EmptySet
<1>4. F = {} <=> \A i \in Items : deleter[i] \in {"none", "done"}
  BY DEF Types
<1>. QED BY <1>3, <1>4 DEF InFlight

(* The release ends with every list empty and no deleter in the hook. *)
LEMMA CloseKeeps ==
  ASSUME Inv, Close
  PROVE  Inv'
<1>1. /\ Top.at = "wait" /\ Top.at \in ReleaseAt /\ Top.at \in ElseAt /\ InFlight = 0
      /\ phase' = "closed" /\ calls' = Front(calls)
      /\ UNCHANGED <<hooked, kind, life, runs, kept, external, pending, tasks>>
  BY DEF Close, At, ReleaseAt, AloneAt, ElseAt
<1>2. tracked = {} /\ hints = {} /\ hooks \cup refs \cup tokens \cup instance = {}
  BY <1>1, PassTop DEF Inv, EndInv
<1>3. (\A j \in Items : ~ LiveStore(j)) /\ queue = {}
  BY <1>1, <1>2, NoneLive, PassHas DEF QueuedLive
<1>4. \A i \in Items : deleter[i] \in {"none", "done"}
  BY <1>1, FlightCount DEF Inv
<1>5. calls' \in Seq(Frames) /\ Len(calls') = 1 /\ calls'[1] = calls[1] /\ calls[1].at = "user"
  <2>1. calls \in Seq(Frames) /\ Len(calls) = 2 /\ calls[1].at = "user"
    BY <1>1, PassTop DEF Inv, Types
  <2>2. Len(calls) >= 1
    BY <2>1
  <2>3. calls' \in Seq(Frames) /\ Len(calls') = Len(calls) - 1 /\ \A n \in 1..Len(calls) - 1 : calls'[n] = calls[n]
    BY <1>1, <2>1, <2>2, Popped
  <2>. QED BY <2>1, <2>3
<1>6. \A n \in 1..Len(calls') : n = 1
  BY <1>5
<1>7. StackInv'
  BY <1>1, <1>5, <1>6, PassTop DEF Inv, StackInv, ReleaseAt, AloneAt, DrainAt
<1>8. Types'
  BY <1>1, <1>5 DEF Inv, Types, kept, external
<1>9. ListInv'
  <2>1. \A j : ~ Running(j)'
    BY <1>5, <1>6 DEF Running
  <2>. QED BY <1>1, <1>2, <2>1 DEF Inv, ListInv, kept, external
<1>10. StoreInv'
  <2>1. \A n \in 1..Len(calls'), j \in Items : ~ Holds(n, j)'
    BY <1>5, <1>6 DEF Holds, StoreAt, DrainAt
  <2>2. \A j \in Items : ~ LiveStore(j)'
    BY <1>1, <1>3 DEF LiveStore
  <2>3. TrackedLive' /\ QueuedLive' /\ DetachedFirst' /\ ClaimsNewest'
    BY <1>1, <1>2, <1>3, PassHas DEF TrackedLive, QueuedLive, DetachedFirst, ClaimsNewest, external
  <2>4. HeldOnce' /\ Owned' /\ InSight'
    BY <2>1, <2>2 DEF HeldOnce, Owned, InSight
  <2>. QED BY <2>3, <2>4 DEF StoreInv
<1>11. EndInv'
  BY <1>1, <1>2, <1>3, <1>4 DEF EndInv, kept, external
<1>12. PostInv'
  BY <1>1 DEF Inv, PostInv, external
<1>. QED BY <1>7, <1>8, <1>9, <1>10, <1>11, <1>12 DEF Inv

-----------------------------------------------------------------------------
(* Inv is inductive: the initial state has no items and one frame. *)
LEMMA InitInv == Init => Inv
<1>. SUFFICES ASSUME Init PROVE Inv
  OBVIOUS
<1>0. Frame("user", 0, {}) \in Frames
  BY DEF Frame, Frames
<1>1. calls \in Seq(Frames) /\ Len(calls) = 1 /\ calls[1] = Frame("user", 0, {})
  BY <1>0 DEF Init
<1>2. \A n \in 1..Len(calls) : n = 1
  BY <1>1
<1>3. Types
  BY <1>1 DEF Init, Types
<1>4. StackInv
  BY <1>1, <1>2 DEF Init, StackInv, Frame, ReleaseAt, AloneAt, DrainAt
<1>5. ListInv
  <2>1. \A j : ~ Running(j)
    BY <1>1, <1>2 DEF Running, Frame
  <2>. QED BY <2>1 DEF Init, ListInv
<1>6. StoreInv
  <2>1. \A j \in Items : ~ LiveStore(j)
    BY DEF Init, LiveStore
  <2>2. \A n \in 1..Len(calls), j \in Items : ~ Holds(n, j)
    BY <1>1, <1>2 DEF Holds, Frame
  <2>. QED BY <2>1, <2>2 DEF Init, StoreInv, TrackedLive, QueuedLive, HeldOnce, Owned, InSight,
                                ClaimsNewest, DetachedFirst
<1>7. EndInv /\ PostInv
  BY DEF Init, EndInv, PostInv
<1>. QED BY <1>3, <1>4, <1>5, <1>6, <1>7 DEF Inv

(* Every step keeps Inv. *)
LEMMA NextInv == Inv /\ [Next]_vars => Inv'
<1>. SUFFICES ASSUME Inv, [Next]_vars PROVE Inv'
  OBVIOUS
<1>1. CASE UserStep
  <2>1. ASSUME NEW i \in Items, NEW k \in Kinds, Make(i, k) PROVE Inv'
    BY <2>1, MakeKeeps
  <2>2. ASSUME NEW i \in Items, RemoveHook(i) \/ DeleteReference(i) \/ Detach(i) \/ Collect(i) PROVE Inv'
    BY <2>2, RemoveHookKeeps, DeleteReferenceKeeps, DetachKeeps, CollectKeeps
  <2>3. CASE Checkpoint \/ RunTask \/ Release
    BY <2>3, CheckpointKeeps, RunTaskKeeps, ReleaseKeeps
  <2>. QED BY <1>1, <2>1, <2>2, <2>3 DEF UserStep
<1>2. CASE Return
  BY <1>2, ReturnKeeps
<1>3. CASE DrainStep
  BY <1>3, DrainReferenceKeeps, DrainExternalKeeps, DrainAgainKeeps DEF DrainStep
<1>4. CASE ReleaseStep
  <2>1. CASE UnassignTokens \/ SnapshotHooks \/ RunHook \/ FinalizeAll
    BY <2>1, UnassignTokensKeeps, SnapshotHooksKeeps, RunHookKeeps, FinalizeAllKeeps
  <2>2. CASE TakeQueued \/ PickNewest \/ ClaimDetached \/ ClaimRest
    BY <2>2, TakeQueuedKeeps, PickNewestKeeps, ClaimDetachedKeeps, ClaimRestKeeps
  <2>3. CASE RunClaimed \/ Round \/ Close
    BY <2>3, RunClaimedKeeps, RoundKeeps, CloseKeeps
  <2>. QED BY <1>4, <2>1, <2>2, <2>3 DEF ReleaseStep
<1>5. ASSUME NEW i \in Items, Sweep(i) PROVE Inv'
  BY <1>5, DeleteKeeps, PostDrainKeeps, PostDoneKeeps DEF Sweep
<1>6. CASE UNCHANGED vars
  <2>1. Types' /\ StackInv'
    BY <1>6 DEF Inv, Types, StackInv, vars, item, kept, external
  <2>2. ListInv'
    BY <1>6 DEF Inv, ListInv, Running, vars, item, kept, external
  <2>3. StoreInv'
    BY <1>6, StoresAlike DEF LiveStore, vars, item, external
  <2>4. EndInv' /\ PostInv'
    BY <1>6 DEF Inv, EndInv, PostInv, vars, item, kept, external
  <2>. QED BY <2>1, <2>2, <2>3, <2>4 DEF Inv
<1>. QED BY <1>1, <1>2, <1>3, <1>4, <1>5, <1>6 DEF Next

(* Inv holds of every state of the V8 provider's env: the stack of its thread,
   its lists and the external buffers' finalizers agree. *)
THEOREM ReleaseInvariant == Spec => []Inv
  BY InitInv, NextInv, PTL DEF Spec

(* Once ~napi_env__ has returned, no hint points at the env, no list has an
   entry and no deleter is about to touch it. *)
THEOREM NothingLeft == Spec => []GoneForGood
<1>1. Inv => GoneForGood
  BY DEF Inv, EndInv, GoneForGood
<1>. QED BY <1>1, ReleaseInvariant, PTL

(* While the env runs, queued external finalizers that count as posted have a
   drain on its way, however the hook answers. *)
THEOREM DrainIsOwed == Spec => []DrainOwed
<1>1. Inv => DrainOwed
  <2>. SUFFICES ASSUME Inv, phase = "open", posted, ~ (tasks > 0) PROVE InFlight > 0
    BY DEF DrainOwed
  <2>1. \E i \in Items : deleter[i] \in {"posting", "refused"}
    BY DEF Inv, PostInv
  <2>2. InFlight \in Nat /\ InFlight # 0
    BY <2>1, FlightCount DEF Inv
  <2>. QED BY <2>2
<1>. QED BY <1>1, ReleaseInvariant, PTL

(* An external buffer's finalizer runs only once the array buffer made over the
   memory is detached, whichever of the sweeper, a drain and the release gets to
   it; a buffer that a transfer moved the store to is out of reach. *)
THEOREM DetachBeforeFinalize == Spec => []DetachedFirst
<1>1. Inv => DetachedFirst
  BY DEF Inv, StoreInv
<1>. QED BY <1>1, ReleaseInvariant, PTL

-----------------------------------------------------------------------------
(* The release implements EnvRelease.                                      *)

(* A callback that runs in its turn is a step of the contract. *)
LEMMA ContractRuns ==
  ASSUME Inv, NEW i \in Items, life[i] = "live", phase # "closed", Ran({i}), UNCHANGED <<phase, kind>>,
         phase = "releasing" /\ kind[i] = "store" => \A j \in Items : LiveStore(j) => j <= i,
         phase = "releasing" /\ kind[i] = "instance" => \A j \in Items : life[j] = "live" <=> j = i
  PROVE  Contract!Run(i)
<1>1. /\ life' = [life EXCEPT ![i] = "done"] /\ runs' = [runs EXCEPT ![i] = 1]
  <2>1. runs[i] = 0
    BY DEF Inv, ListInv
  <2>2. /\ life' = [j \in Items |-> IF j \in {i} THEN "done" ELSE life[j]]
        /\ runs' = [j \in Items |-> IF j \in {i} THEN runs[j] + 1 ELSE runs[j]]
    BY DEF Ran
  <2>3. runs' = [j \in Items |-> IF j = i THEN 1 ELSE runs[j]]
    BY <2>1, <2>2
  <2>4. life \in [Items -> {"none", "live", "done", "withdrawn"}] /\ runs \in [Items -> Nat]
    BY DEF Inv, Types
  <2>5. life' = [life EXCEPT ![i] = "done"]
    BY <2>2, <2>4
  <2>6. runs' = [runs EXCEPT ![i] = 1]
    BY <2>3, <2>4
  <2>. QED BY <2>5, <2>6
<1>2. phase = "releasing" => Contract!InTurn(i)
  <2>1. \A j \in Items : life[j] = "live" => kind[j] \in Kinds
    BY DEF Inv, Types, ListInv
  <2>. QED BY <2>1 DEF Contract!InTurn, Contract!Live, LiveStore
<1>. QED BY <1>1, <1>2 DEF Contract!Run

(* What a registration does. *)
LEMMA ContractMakes ==
  ASSUME Inv, NEW i \in Items, NEW k \in Kinds, Make(i, k)
  PROVE  Contract!Next
<1>. DEFINE old == IF k = "instance" THEN {j \in instance : life[j] = "live"} ELSE {}
<1>1. /\ phase # "closed" /\ life[i] = "none" /\ UNCHANGED <<phase, runs>> /\ kind' = [kind EXCEPT ![i] = k]
      /\ life' = [j \in Items |-> IF j = i THEN "live" ELSE IF j \in old THEN "withdrawn" ELSE life[j]]
  BY DEF Make
<1>2. CASE old = {}
  <2>1. life' = [life EXCEPT ![i] = "live"]
    BY <1>1, <1>2 DEF Inv, Types
  <2>2. Contract!Make(i, k)
    BY <1>1, <2>1 DEF Contract!Make
  <2>. QED BY <2>2 DEF Contract!Next
<1>3. CASE old # {}
  <2>1. PICK j \in Items : old = {j} /\ k = "instance" /\ kind[j] = "instance" /\ life[j] = "live" /\ j # i
    <3>1. k = "instance" /\ old \subseteq instance /\ instance \subseteq Items
      BY <1>3 DEF Inv, Types
    <3>2. PICK j : j \in old
      BY <1>3
    <3>3. life[j] = "live" /\ j \in Items /\ j \in instance
      BY <3>1, <3>2
    <3>4. \A l \in old : l = j
      BY <3>1, <3>3 DEF Inv, ListInv
    <3>5. old = {j} /\ kind[j] = "instance" /\ j # i
      BY <1>1, <3>2, <3>3, <3>4 DEF Inv, ListInv
    <3>. QED BY <3>1, <3>3, <3>5
  <2>2. life' = [life EXCEPT ![i] = "live", ![j] = "withdrawn"]
    BY <1>1, <2>1 DEF Inv, Types
  <2>3. runs[j] = 0 /\ runs' = [runs EXCEPT ![j] = IF "withdrawn" = "done" THEN 1 ELSE 0]
    BY <1>1, <2>1 DEF Inv, Types, ListInv
  <2>4. Contract!Replace(i, j)
    BY <1>1, <2>1, <2>2, <2>3 DEF Contract!Replace
  <2>. QED BY <2>4 DEF Contract!Next
<1>. QED BY <1>2, <1>3

(* What native code and the sweeper threads do. *)
LEMMA ContractUser ==
  ASSUME Inv, UserStep \/ Return \/ (\E i \in Items : Sweep(i))
  PROVE  Contract!Next \/ UNCHANGED <<phase, kind, life, runs>>
<1>0. phase = "closed" => hooks = {} /\ refs = {} /\ hints = {}
  BY DEF Inv, EndInv
<1>1. ASSUME NEW i \in Items, NEW k \in Kinds, Make(i, k) PROVE Contract!Next
  BY <1>1, ContractMakes
<1>2. ASSUME NEW h \in Items, RemoveHook(h) PROVE Contract!Withdraw(h) \/ UNCHANGED <<phase, kind, life, runs>>
  BY <1>0, <1>2 DEF RemoveHook, Contract!Withdraw
<1>3. ASSUME NEW r \in Items, DeleteReference(r) PROVE Contract!Withdraw(r)
  BY <1>0, <1>3 DEF DeleteReference, Contract!Withdraw
<1>4. ASSUME NEW i \in Items, Detach(i) \/ Collect(i) PROVE UNCHANGED <<phase, kind, life, runs>>
  BY <1>4 DEF Detach, Collect, item
<1>5. CASE Checkpoint \/ RunTask \/ Return
  BY <1>5 DEF Checkpoint, RunTask, Return, item
<1>6. CASE Release
  BY <1>6 DEF Release, Contract!Release, Contract!Next
<1>7. ASSUME NEW i \in Items, Delete(i) PROVE Contract!Run(i) \/ UNCHANGED <<phase, kind, life, runs>>
  <2>1. CASE i \in hints /\ kind[i] = "memory"
    <3>1. Ran({i}) /\ UNCHANGED <<phase, kind>>
      BY <1>7, <2>1 DEF Delete, DropStore
    <3>2. life[i] = "live"
      BY <2>1 DEF Inv, ListInv
    <3>. QED BY <1>0, <2>1, <3>1, <3>2, ContractRuns
  <2>2. CASE ~ (i \in hints /\ kind[i] = "memory")
    BY <1>7, <2>2 DEF Delete, DropStore
  <2>. QED BY <2>1, <2>2
<1>8. ASSUME NEW i \in Items, PostDrain(i) \/ PostDone(i) PROVE UNCHANGED <<phase, kind, life, runs>>
  BY <1>8 DEF PostDrain, PostDone, item
<1>9. CASE UserStep
  BY <1>1, <1>2, <1>3, <1>4, <1>5, <1>6, <1>9 DEF UserStep, Contract!Next
<1>10. CASE \E i \in Items : Sweep(i)
  BY <1>7, <1>8, <1>10 DEF Sweep, Contract!Next
<1>. QED BY <1>5, <1>9, <1>10

(* What the drains do. *)
LEMMA ContractDrain ==
  ASSUME Inv, DrainStep
  PROVE  Contract!Next \/ UNCHANGED <<phase, kind, life, runs>>
<1>1. CASE DrainReference
  <2>1. PICK r \in pending : Finalize(r, Top)
    BY <1>1 DEF DrainReference
  <2>2. r \in Items /\ kind[r] = "ref" /\ UNCHANGED <<phase, kind>>
    BY <1>1 DEF DrainReference, Inv, Types, ListInv
  <2>3. phase # "closed"
    BY <1>1, DrainTop DEF DrainReference, At, DrainAt
  <2>4. CASE life[r] = "live"
    BY <2>1, <2>2, <2>3, <2>4, ContractRuns DEF Finalize, Contract!Next
  <2>5. CASE life[r] # "live"
    BY <2>1, <2>2, <2>5 DEF Finalize
  <2>. QED BY <2>4, <2>5
<1>2. CASE DrainExternal
  <2>1. PICK i \in Top.set : Ran({i})
    BY <1>2 DEF DrainExternal
  <2>2. Top.at \in DrainAt
    BY <1>2 DEF DrainExternal, At, DrainAt
  <2>3. phase = "open" /\ i \in Items /\ UNCHANGED <<phase, kind>>
    BY <1>2, <2>1, <2>2, DrainTop DEF DrainExternal, Inv, Types
  <2>4. Holds(Len(calls), i)
    BY <2>2, StackTop DEF Holds, StoreAt
  <2>5. life[i] = "live"
    BY <2>3, <2>4, StackTop DEF Inv, StoreInv, HeldOnce, LiveStore
  <2>. QED BY <2>1, <2>3, <2>5, ContractRuns DEF Contract!Next
<1>3. CASE DrainAgain
  BY <1>3 DEF DrainAgain, item
<1>. QED BY <1>1, <1>2, <1>3 DEF DrainStep

(* What the release does to hooks, tokens, references and instance data. *)
LEMMA ContractLists ==
  ASSUME Inv, UnassignTokens \/ SnapshotHooks \/ RunHook \/ FinalizeAll \/ Round
  PROVE  Contract!Next \/ UNCHANGED <<phase, kind, life, runs>>
<1>0. Top.at \in ReleaseAt /\ Top.at \in ElseAt
  BY DEF UnassignTokens, SnapshotHooks, RunHook, FinalizeAll, Round, At, ReleaseAt, AloneAt, ElseAt
<1>. USE DEF Contract!Next
<1>1. phase = "releasing" /\ UNCHANGED <<phase, kind>> /\ Top.set \subseteq Items
  BY <1>0, PassTop DEF UnassignTokens, SnapshotHooks, RunHook, FinalizeAll, Round, item
<1>2. CASE UnassignTokens
  <2>1. CASE tokens = {}
    BY <1>1, <1>2, <2>1 DEF UnassignTokens
  <2>2. CASE tokens # {}
    <3>1. PICK t \in tokens : Ran({t})
      BY <1>2, <2>2 DEF UnassignTokens
    <3>2. t \in Items /\ kind[t] = "token" /\ life[t] = "live"
      BY DEF Inv, Types, ListInv
    <3>. QED BY <1>1, <3>1, <3>2, ContractRuns
  <2>. QED BY <2>1, <2>2
<1>3. CASE SnapshotHooks
  BY <1>3 DEF SnapshotHooks, item
<1>4. CASE RunHook
  <2>. DEFINE h == Max(Top.set)
  <2>1. CASE Top.set # {} /\ h \in hooks
    <3>1. Ran({h})
      BY <1>4, <2>1 DEF RunHook
    <3>. HIDE DEF h
    <3>2. h \in Items /\ kind[h] = "hook" /\ life[h] = "live"
      BY <1>0, <2>1, PassTop DEF Inv, Types, ListInv
    <3>. QED BY <1>1, <3>1, <3>2, ContractRuns
  <2>2. CASE ~ (Top.set # {} /\ h \in hooks)
    BY <1>1, <1>4, <2>2 DEF RunHook
  <2>. QED BY <2>1, <2>2
<1>5. CASE FinalizeAll
  <2>1. CASE refs = {}
    BY <1>1, <1>5, <2>1 DEF FinalizeAll
  <2>2. CASE refs # {}
    <3>. DEFINE r == Max(refs)
    <3>1. r \in refs
      BY <2>2, MaxOfItems DEF Inv, Types
    <3>2. Finalize(r, Top)
      BY <1>5, <2>2 DEF FinalizeAll
    <3>. HIDE DEF r
    <3>3. r \in Items /\ kind[r] = "ref" /\ life[r] = "live"
      BY <3>1 DEF Inv, Types, ListInv
    <3>. QED BY <1>1, <3>2, <3>3, ContractRuns DEF Finalize
  <2>. QED BY <2>1, <2>2
<1>6. CASE Round
  <2>1. CASE ~ (hooks \cup refs \cup tokens = {} /\ instance # {})
    BY <1>1, <1>6, <2>1 DEF Round
  <2>2. CASE hooks \cup refs \cup tokens = {} /\ instance # {}
    <3>1. PICK i \in instance : TRUE
      BY <2>2
    <3>2. i \in Items /\ kind[i] = "instance" /\ life[i] = "live" /\ instance = {i}
      BY DEF Inv, Types, ListInv
    <3>3. Ran({i})
      BY <1>6, <2>2, <3>2 DEF Round
    <3>4. tracked = {} /\ hints = {}
      BY <1>0, <1>6, PassTop DEF Inv, EndInv, Round, At
    <3>5. \A j \in Items : ~ LiveStore(j)
      BY <1>0, <3>4, NoneLive
    <3>6. \A j \in Items : life[j] = "live" => j = i
      <4>1. SUFFICES ASSUME NEW j \in Items, life[j] = "live" PROVE j \in instance
        BY <3>2
      <4>2. kind[j] \in {"hook", "ref", "store", "memory", "token", "instance"}
        BY <4>1, KindsAssumption DEF Inv, Types, ListInv
      <4>3. kind[j] \notin {"hook", "ref", "store", "memory", "token"}
        BY <2>2, <3>4, <3>5, <4>1 DEF Inv, ListInv, LiveStore
      <4>. QED BY <4>1, <4>2, <4>3 DEF Inv, ListInv
    <3>. QED BY <1>1, <3>2, <3>3, <3>6, ContractRuns
  <2>. QED BY <2>1, <2>2
<1>. QED BY <1>2, <1>3, <1>4, <1>5, <1>6

(* What the release does to external buffers, and its end. *)
LEMMA ContractStores ==
  ASSUME Inv, TakeQueued \/ PickNewest \/ ClaimDetached \/ ClaimRest \/ RunClaimed \/ Close
  PROVE  Contract!Next \/ UNCHANGED <<phase, kind, life, runs>>
<1>0. Top.at \in ReleaseAt
  BY DEF TakeQueued, PickNewest, ClaimDetached, ClaimRest, RunClaimed, Close, At, ReleaseAt, AloneAt
<1>. USE DEF Contract!Next
<1>1. phase = "releasing" /\ Top.set \subseteq Items /\ tracked \subseteq Items
  BY <1>0, PassTop, PassHas
<1>2. CASE TakeQueued
  BY <1>2 DEF TakeQueued, item
<1>3. CASE PickNewest
  <2>. DEFINE i == Max(Top.set \cup tracked \cup {0})
  <2>1. i \in Top.set \cup tracked \cup {0} /\ \A y \in Top.set \cup tracked : y <= i
    <3>1. Top.set \cup tracked \cup {0} \in SUBSET (Items \cup {0}) /\ Top.set \cup tracked \cup {0} # {}
      BY <1>1
    <3>. QED BY <3>1, MaxOfItems
  <2>2. UNCHANGED <<phase, kind>> /\ Top.at = "pick"
    BY <1>3 DEF PickNewest, At
  <2>3. (i \in Top.set /\ Ran({i})) \/ UNCHANGED <<life, runs>>
    BY <1>3 DEF PickNewest
  <2>. HIDE DEF i
  <2>4. CASE i \in Top.set /\ Ran({i})
    <3>1. i \in Items /\ InHand(i) /\ LiveStore(i)
      BY <1>0, <1>1, <2>2, <2>4, PassTop, PassHas DEF InHand, StoreAt
    <3>2. \A j \in Items : LiveStore(j) => j <= i
      BY <1>0, <2>1, <2>2, PassTop, PassHas DEF Seen
    <3>. QED BY <1>1, <2>2, <2>4, <3>1, <3>2, ContractRuns DEF LiveStore
  <2>. QED BY <2>2, <2>3, <2>4
<1>4. CASE ClaimDetached
  <2>1. UNCHANGED <<phase, kind>> /\ Top.at = "claim"
    BY <1>4 DEF ClaimDetached, At
  <2>2. Ran({Top.item}) \/ UNCHANGED <<life, runs>>
    BY <1>4 DEF ClaimDetached
  <2>3. Top.item \in Items /\ LiveStore(Top.item) /\ \A j \in Items : LiveStore(j) => j <= Top.item
    BY <1>0, <2>1, PassTop, PassHas DEF ClaimsNewest, Inv, StackInv
  <2>. QED BY <1>1, <2>1, <2>2, <2>3, ContractRuns DEF LiveStore
<1>5. CASE ClaimRest
  <2>. DEFINE M == {i \in hints : kind[i] = "memory"}
  <2>1. UNCHANGED <<phase, kind>> /\ Ran(M)
    BY <1>5 DEF ClaimRest
  <2>2. M \in SUBSET Items /\ \A i \in M : life[i] = "live" /\ kind[i] = "memory" /\ runs[i] = 0
    BY DEF Inv, Types, ListInv
  <2>. HIDE DEF M
  <2>3. /\ life' = [i \in Items |-> IF i \in M THEN "done" ELSE life[i]]
        /\ runs' = [i \in Items |-> IF i \in M THEN runs[i] + 1 ELSE runs[i]]
    BY <2>1 DEF Ran
  <2>4. CASE M = {}
    BY <2>1, <2>3, <2>4 DEF Inv, Types
  <2>5. CASE M # {}
    <3>1. runs' = [i \in Items |-> IF i \in M THEN 1 ELSE runs[i]]
      BY <2>2, <2>3
    <3>2. M \subseteq Contract!Live({"memory"})
      BY <2>2 DEF Contract!Live
    <3>3. Contract!RunMemory(M)
      BY <1>1, <2>1, <2>3, <2>5, <3>1, <3>2 DEF Contract!RunMemory
    <3>. QED BY <2>2, <3>3
  <2>. QED BY <2>4, <2>5
<1>6. CASE RunClaimed
  <2>1. Top.set = {}
    BY <1>6, StackTop DEF Inv, StackInv, StoreAt, DrainAt, RunClaimed, At
  <2>. QED BY <1>6, <2>1 DEF RunClaimed
<1>7. CASE Close
  <2>1. Top.at = "wait" /\ Top.at \in ElseAt
    BY <1>7 DEF Close, At, ElseAt, ReleaseAt, AloneAt
  <2>2. tracked = {} /\ hints = {} /\ hooks \cup refs \cup tokens \cup instance = {}
    BY <1>0, <2>1, PassTop DEF Inv, EndInv
  <2>3. \A j \in Items : ~ LiveStore(j)
    BY <2>1, <2>2, NoneLive
  <2>4. \A j \in Items : life[j] # "live"
    <3>1. SUFFICES ASSUME NEW j \in Items, life[j] = "live" PROVE FALSE
      OBVIOUS
    <3>2. kind[j] \in {"hook", "ref", "store", "memory", "token", "instance"}
      BY <3>1, KindsAssumption DEF Inv, Types, ListInv
    <3>. QED BY <2>2, <2>3, <3>1, <3>2 DEF Inv, ListInv, LiveStore
  <2>5. Contract!Close
    BY <1>1, <1>7, <2>4 DEF Close, Contract!Close, Contract!Live
  <2>. QED BY <2>5
<1>. QED BY <1>2, <1>3, <1>4, <1>5, <1>6, <1>7

(* The V8 provider's env implements EnvRelease: hooks, finalizers and tokens
   run once and in the contract's order, and none is left at the end. *)
THEOREM ReleaseImplementsContract == Spec => KeepsContract
<1>1. Init => Contract!Init
  BY DEF Init, Contract!Init
<1>2. Inv /\ [Next]_vars => [Contract!Next]_(Contract!vars)
  <2>. SUFFICES ASSUME Inv, [Next]_vars PROVE Contract!Next \/ UNCHANGED <<phase, kind, life, runs>>
    BY DEF Contract!vars
  <2>1. CASE UNCHANGED vars
    BY <2>1 DEF vars, item
  <2>2. CASE Next
    <3>1. CASE UserStep \/ Return \/ (\E i \in Items : Sweep(i))
      BY <3>1, ContractUser
    <3>2. CASE DrainStep
      BY <3>2, ContractDrain
    <3>3. CASE ReleaseStep
      BY <3>3, ContractLists, ContractStores DEF ReleaseStep
    <3>. QED BY <2>2, <3>1, <3>2, <3>3 DEF Next
  <2>. QED BY <2>1, <2>2
<1>. QED BY <1>1, <1>2, ReleaseInvariant, PTL DEF Spec, KeepsContract, Contract!Spec
=============================================================================
