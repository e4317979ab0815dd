------------------------ MODULE QuickJsReleaseProofs ------------------------
(***************************************************************************)
(* QuickJS's release keeps the contract of EnvRelease and owns each hint   *)
(* once, for every number of registrations.  The inductive invariant says  *)
(* where the thread may stand (StackInv), for every item which list it is  *)
(* on (Listed), who destroys its hint (Hinted) and how its buffer and the  *)
(* memory part (Buffered), and what is gone at the end (EndInv).           *)
(***************************************************************************)
EXTENDS QuickJsRelease, NaturalsInduction, WellFoundedInduction, SequenceTheorems, TLAPS

-----------------------------------------------------------------------------
\* What Max, Append and Front do.

(* A set of numbers up to hi that is not empty has a largest one, which is what
   Max computes. *)
LEMMA MaxNat ==
  ASSUME NEW hi \in Nat, NEW S \in SUBSET (0..hi), S # {}
  PROVE  Max(S) \in S /\ \A y \in S : y <= Max(S)
<1>. DEFINE T == {n \in Nat : \A y \in S : y <= n}
            R == OpToRel(<, Nat)
<1>1. S \subseteq Nat /\ \A y \in S : y <= hi
  OBVIOUS
<1>2. hi \in T
  BY <1>1
<1>3. \E x \in T : \A y \in T : ~ (<<y, x>> \in R)
  <2>1. IsWellFoundedOn(R, Nat)
    BY NatLessThanWellFounded
  <2>2. T \subseteq Nat /\ T # {}
    BY <1>2
  <2>. HIDE DEF R, T
  <2>. QED BY <2>1, <2>2, WFMin
<1>4. \A x, y \in Nat : <<y, x>> \in R <=> y < x
  BY DEF OpToRel
<1>5. PICK x \in T : \A y \in T : ~ (y < x)
  <2>. HIDE DEF R
  <2>. QED BY <1>3, <1>4
<1>6. x \in S
  <2>1. ASSUME x \notin S PROVE FALSE
    <3>1. \A y \in S : y \in Nat /\ y <= x /\ y # x
      BY <2>1, <1>1
    <3>2. PICK y \in S : TRUE
      OBVIOUS
    <3>3. x \in Nat /\ x >= 1
      BY <3>1, <3>2
    <3>4. x - 1 \in Nat /\ \A z \in S : z <= x - 1
      BY <3>1, <3>3
    <3>5. x - 1 \in T
      BY <3>4
    <3>. QED BY <3>3, <3>5, <1>5
  <2>. QED BY <2>1
<1>7. x \in S /\ \A y \in S : x >= y
  BY <1>6, <1>1
<1>8. Max(S) \in S /\ \A y \in S : Max(S) >= y
  BY <1>7 DEF Max
<1>. QED BY <1>8, <1>1

(* The last element is gone. *)
LEMMA Popped ==
  ASSUME NEW F, NEW s \in Seq(F), Len(s) >= 1
  PROVE  /\ Front(s) \in Seq(F) /\ Len(Front(s)) = Len(s) - 1
         /\ \A n \in 1..Len(s) - 1 : Front(s)[n] = s[n]
<1>. DEFINE k == Len(s) - 1
<1>1. k \in Nat /\ \A i \in 1..k : s[i] \in F
  OBVIOUS
<1>. HIDE DEF k
<1>2. /\ SubSeq(s, 1, k) \in Seq(F)
      /\ Len(SubSeq(s, 1, k)) = IF 1 <= k THEN k - 1 + 1 ELSE 0
      /\ \A i \in 1..k - 1 + 1 : SubSeq(s, 1, k)[i] = s[1 + i - 1]
  BY <1>1, SubSeqProperties
<1>3. (IF 1 <= k THEN k - 1 + 1 ELSE 0) = k /\ k - 1 + 1 = k /\ \A i \in 1..k : 1 + i - 1 = i
  BY <1>1
<1>4. Front(s) = SubSeq(s, 1, k)
  BY DEF Front, k
<1>. QED BY <1>2, <1>3, <1>4 DEF k

(* An element is put after the others. *)
LEMMA Pushed ==
  ASSUME NEW F, NEW s \in Seq(F), NEW f \in F
  PROVE  LET r == Append(s, f)
         IN /\ r \in Seq(F) /\ Len(r) = Len(s) + 1 /\ r[Len(s) + 1] = f
            /\ \A n \in 1..Len(s) : r[n] = s[n]
  OBVIOUS

(* The last element is replaced. *)
LEMMA Replaced ==
  ASSUME NEW F, NEW s \in Seq(F), Len(s) >= 1, NEW f \in F
  PROVE  LET r == Append(Front(s), f)
         IN /\ r \in Seq(F) /\ Len(r) = Len(s) /\ r[Len(s)] = f
            /\ \A n \in 1..Len(s) - 1 : r[n] = s[n]
<1>. DEFINE q == Front(s)
<1>1. q \in Seq(F) /\ Len(q) = Len(s) - 1 /\ \A n \in 1..Len(s) - 1 : q[n] = s[n]
  BY Popped
<1>. HIDE DEF q
<1>2. Append(q, f) \in Seq(F) /\ Len(Append(q, f)) = Len(q) + 1 /\ Append(q, f)[Len(q) + 1] = f
      /\ \A n \in 1..Len(q) : Append(q, f)[n] = q[n]
  BY <1>1, Pushed
<1>3. Len(s) \in Nat /\ Len(q) + 1 = Len(s) /\ Len(q) = Len(s) - 1
  BY <1>1
<1>. QED BY <1>1, <1>2, <1>3 DEF q

-----------------------------------------------------------------------------

PassAt == {"hooks", "values", "instance"}
CleanAt == {"free", "let go", "finalized"}
OnceAt == CleanAt \cup {"set"}
ItemAt == OnceAt \cup {"callback"}

Frames == [at : {"user"} \cup PassAt \cup ItemAt, item : Items \cup {0}]

Types ==
  /\ phase \in {"open", "releasing", "closed"}
  /\ kind \in [Items -> Kinds \cup {"none"}]
  /\ life \in [Items -> {"none", "live", "done", "withdrawn"}]
  /\ runs \in [Items -> Nat] /\ destroys \in [Items -> Nat]
  /\ hooks \subseteq Items /\ pending \subseteq Items /\ instance \subseteq Items
  /\ invoked \subseteq Items /\ released \subseteq Items /\ buffers \subseteq Items
  /\ holder \in [Items -> {"none", "buffer", "moved", "astray"}]
  /\ hint \in [Items -> {"none", "made", "destroyed"}]
  /\ calls \in Seq(Frames)

\* A stack c in phase p: the embedder's code is at the bottom and the release
\* right above it.  What comes back to an item does so from one frame only.
StackOK(c, p) ==
  /\ Len(c) >= 1
  /\ p = "releasing" => Len(c) >= 2
  /\ p = "closed" => Len(c) < 2
  /\ \A n \in 1..Len(c) :
       /\ c[n].at = "user" <=> n = 1
       /\ c[n].at \in PassAt <=> (n = 2 /\ p = "releasing")
       /\ c[n].at \in ItemAt => c[n].item \in Items
       /\ c[n].at \notin ItemAt => c[n].item = 0
       /\ c[n].at = "instance" => Len(c) < 3
       /\ c[n].at \in OnceAt => \A m \in 1..Len(c) : c[m] = c[n] => m = n

StackInv == StackOK(calls, phase)

\* The stack c comes back to item i at the place a.
On(c, a, i) == \E n \in 1..Len(c) : c[n] = Frame(a, i)

Has(a, i) == On(calls, a, i)

Valued(i) == kind[i] \in {"ref", "store"}

\* A live item is on the list of its kind, and what is on a list is live; new
\* instance data may still wait for the old to be finalized.
Listed(i) ==
  /\ life[i] = "none" <=> kind[i] = "none"
  /\ runs[i] = IF life[i] = "done" THEN 1 ELSE 0
  /\ i \in hooks <=> (kind[i] = "hook" /\ life[i] = "live")
  /\ i \in pending <=> (Valued(i) /\ life[i] = "live")
  /\ i \in instance => kind[i] = "instance" /\ life[i] = "live"
  /\ kind[i] = "instance" /\ life[i] = "live" => i \in instance \/ Has("set", i)
  /\ Has("set", i) => kind[i] = "instance" /\ life[i] = "live" /\ i \notin instance
  /\ Has("callback", i) => life[i] = "done"

\* Who may destroy a hint: its finalizer has not been invoked (it is pending),
\* or one frame comes back to it, or a value or a buffer still refers to it.
Hinted(i) ==
  /\ ~ Valued(i) => hint[i] = "none" /\ i \notin invoked /\ i \notin released
  /\ Valued(i) => hint[i] # "none"
  /\ destroys[i] = IF hint[i] = "destroyed" THEN 1 ELSE 0
  /\ i \in pending => hint[i] = "made" /\ i \notin invoked
  /\ hint[i] = "made" /\ i \notin pending => i \in invoked
  /\ i \in released /\ hint[i] = "made" => kind[i] = "store"
  /\ Has("free", i) => kind[i] = "ref" /\ hint[i] = "made" /\ i \in invoked
  /\ Has("let go", i) =>
       kind[i] = "store" /\ hint[i] = "made" /\ i \in invoked /\ i \in released /\ ~ Has("finalized", i)
  /\ Has("finalized", i) =>
       kind[i] = "store" /\ hint[i] = "made" /\ i \in invoked /\ i \in released
  /\ i \in released => \/ hint[i] = "destroyed" \/ i \in pending
                       \/ Has("let go", i) \/ Has("finalized", i)

\* A store's memory is with the buffer made over it until that buffer is
\* detached, let go of or transferred.  Memory goes astray only under the frame
\* that lets go of it, after its finalizer was called.
Buffered(i) ==
  /\ kind[i] # "store" => holder[i] = "none"
  /\ hint[i] # "made" => holder[i] \in {"none", "astray"}
  /\ holder[i] = "astray" => i \in released /\ i \in invoked /\ life[i] = "done"
  /\ kind[i] = "store" => life[i] # "withdrawn"
  /\ Has("finalized", i) => holder[i] = "none"
  /\ i \in pending /\ holder[i] = "buffer" => i \in buffers
  /\ i \in pending /\ i \in released => holder[i] = "none"
  /\ i \in invoked /\ holder[i] = "buffer" => i \in released
  /\ Has("callback", i) /\ kind[i] = "store" => i \in invoked

ItemOK(i) == Listed(i) /\ Hinted(i) /\ Buffered(i)

ItemInv == \A i \in Items : ItemOK(i)

OneInstance == \A i, j \in instance : i = j

\* What is gone when the release is about to end, and after it.
EndInv ==
  /\ phase = "releasing" /\ calls[2].at = "instance" => hooks = {} /\ pending = {}
  /\ phase = "closed" => hooks = {} /\ pending = {} /\ instance = {}

Inv == Types /\ StackInv /\ ItemInv /\ OneInstance /\ EndInv

-----------------------------------------------------------------------------
(* The frames a step leaves behind.                                        *)

(* A frame is known by its place and its item. *)
LEMMA FrameParts ==
  /\ \A a, i : Frame(a, i).at = a /\ Frame(a, i).item = i
  /\ \A a, b, i, j : Frame(a, i) = Frame(b, j) <=> (a = b /\ i = j)
  /\ \A a \in {"user"} \cup PassAt \cup ItemAt, i \in Items \cup {0} : Frame(a, i) \in Frames
  /\ \A f \in Frames : f = Frame(f.at, f.item)
<1>1. \A a, i : Frame(a, i).at = a /\ Frame(a, i).item = i
  BY DEF Frame
<1>2. \A a, b, i, j : a = b /\ i = j => Frame(a, i) = Frame(b, j)
  OBVIOUS
<1>3. \A a \in {"user"} \cup PassAt \cup ItemAt, i \in Items \cup {0} : Frame(a, i) \in Frames
  BY DEF Frame, Frames
<1>4. \A a, b, i, j : Frame(a, i) = Frame(b, j) => a = b /\ i = j
  <2>. TAKE a, b, i, j
  <2>. HAVE Frame(a, i) = Frame(b, j)
  <2>1. a = Frame(a, i).at /\ b = Frame(b, j).at /\ i = Frame(a, i).item /\ j = Frame(b, j).item
    BY <1>1
  <2>. QED BY <2>1
<1>5. \A f \in Frames : f = Frame(f.at, f.item)
  BY DEF Frame, Frames
<1>. QED BY <1>1, <1>2, <1>3, <1>4, <1>5

(* The top frame, and every other, is a frame. *)
LEMMA StackTop ==
  ASSUME Inv
  PROVE  /\ Len(calls) \in Nat /\ Len(calls) >= 1 /\ Top = calls[Len(calls)] /\ Top \in Frames
         /\ Len(calls) \in 1..Len(calls) /\ calls \in Seq(Frames)
         /\ \A n \in 1..Len(calls) : calls[n] \in Frames
<1>1. calls \in Seq(Frames) /\ Len(calls) \in Nat /\ \A n \in 1..Len(calls) : calls[n] \in Frames
  BY DEF Inv, Types
<1>2. Len(calls) >= 1
  BY DEF Inv, StackInv, StackOK
<1>. QED BY <1>1, <1>2 DEF Top, Last

(* A frame that comes back to an item, or native code, is put on top. *)
LEMMA StackPush ==
  ASSUME NEW p, NEW c \in Seq(Frames), StackOK(c, p), p # "closed",
         NEW b \in ItemAt, NEW i \in Items, b \in OnceAt => ~ On(c, b, i),
         c[Len(c)].at # "instance"
  PROVE  LET d == Append(c, Frame(b, i))
         IN /\ d \in Seq(Frames) /\ StackOK(d, p) /\ Len(d) = Len(c) + 1 /\ d[Len(d)] = Frame(b, i)
            /\ Len(c) >= 2 => d[2] = c[2]
            /\ \A a, j : On(d, a, j) <=> (On(c, a, j) \/ (a = b /\ j = i))
<1>. DEFINE d == Append(c, Frame(b, i))
<1>1. Frame(b, i) \in Frames /\ Frame(b, i).at = b /\ Frame(b, i).item = i
  BY FrameParts
<1>2. /\ d \in Seq(Frames) /\ Len(d) = Len(c) + 1 /\ d[Len(c) + 1] = Frame(b, i)
      /\ \A n \in 1..Len(c) : d[n] = c[n]
  BY <1>1, Pushed
<1>. HIDE DEF d
<1>3. Len(c) \in Nat /\ Len(c) >= 1 /\ \A n \in 1..Len(d) : n \in 1..Len(c) \/ n = Len(c) + 1
  BY <1>2 DEF StackOK
<1>4. \A a, j : On(d, a, j) <=> (On(c, a, j) \/ (a = b /\ j = i))
  <2>1. \A a, j : On(c, a, j) => On(d, a, j)
    BY <1>2, <1>3 DEF On
  <2>2. On(d, b, i)
    BY <1>2, <1>3 DEF On
  <2>3. \A a, j : On(d, a, j) => On(c, a, j) \/ (a = b /\ j = i)
    BY <1>2, <1>3, FrameParts DEF On
  <2>. QED BY <2>1, <2>2, <2>3
<1>5. StackOK(d, p)
  <2>1. \A n \in 1..Len(c) : c[n].at # "instance"
    BY <1>3 DEF StackOK, PassAt
  <2>2. Len(d) >= 1 /\ Len(d) >= 2 /\ p # "closed"
    BY <1>2, <1>3
  <2>3. b \notin PassAt \cup {"user", "instance"} /\ (p = "releasing" => Len(c) >= 2)
    BY DEF ItemAt, OnceAt, CleanAt, PassAt, StackOK
  <2>4. ASSUME NEW n \in 1..Len(d)
        PROVE  /\ d[n].at = "user" <=> n = 1
               /\ d[n].at \in PassAt <=> (n = 2 /\ p = "releasing")
               /\ d[n].at \in ItemAt => d[n].item \in Items
               /\ d[n].at \notin ItemAt => d[n].item = 0
               /\ d[n].at # "instance"
    <3>1. CASE n \in 1..Len(c)
      BY <1>2, <2>1, <3>1 DEF StackOK
    <3>2. CASE n = Len(c) + 1
      BY <1>1, <1>2, <1>3, <2>3, <3>2
    <3>. QED BY <1>3, <3>1, <3>2
  <2>5. ASSUME NEW n \in 1..Len(d), NEW m \in 1..Len(d), d[n].at \in OnceAt, d[m] = d[n]
        PROVE  m = n
    <3>1. CASE n \in 1..Len(c) /\ m \in 1..Len(c)
      BY <1>2, <2>5, <3>1 DEF StackOK
    <3>2. CASE n \in 1..Len(c) /\ m = Len(c) + 1
      BY <1>1, <1>2, <2>5, <3>2 DEF On
    <3>3. CASE n = Len(c) + 1 /\ m \in 1..Len(c)
      BY <1>1, <1>2, <2>5, <3>3 DEF On
    <3>. QED BY <1>3, <3>1, <3>2, <3>3
  <2>. QED BY <2>2, <2>4, <2>5 DEF StackOK
<1>6. Len(c) >= 2 => d[2] = c[2]
  BY <1>2, <1>3
<1>. QED BY <1>2, <1>4, <1>5, <1>6 DEF d

(* A frame that came back to an item, or native code, is gone. *)
LEMMA StackPop ==
  ASSUME NEW p, NEW c \in Seq(Frames), StackOK(c, p), NEW t, t = c[Len(c)], t.at \in ItemAt
  PROVE  LET d == Front(c)
         IN /\ d \in Seq(Frames) /\ StackOK(d, p) /\ p # "closed"
            /\ p = "releasing" => d[2] = c[2] /\ c[2].at # "instance"
            /\ \A a, j : On(d, a, j) => On(c, a, j)
            /\ \A a, j : On(c, a, j) => On(d, a, j) \/ (a = t.at /\ j = t.item)
            /\ t.at \in OnceAt => ~ On(d, t.at, t.item)
            /\ On(c, t.at, t.item)
<1>. DEFINE d == Front(c)
            L == Len(c)
<1>1. L \in Nat /\ L >= 1 /\ L \in 1..L /\ t = c[L]
  BY DEF StackOK
<1>2. d \in Seq(Frames) /\ Len(d) = L - 1 /\ \A n \in 1..L - 1 : d[n] = c[n]
  BY <1>1, Popped
<1>. HIDE DEF d
<1>3. /\ t \in Frames /\ t = Frame(t.at, t.item)
      /\ t.at \notin PassAt \cup {"user"}
  <2>1. t \in Frames
    BY <1>1
  <2>. QED BY <2>1, FrameParts DEF ItemAt, OnceAt, CleanAt, PassAt
<1>4. L >= 2 /\ p # "closed" /\ (p = "releasing" => L >= 3 /\ 2 \in 1..L /\ 2 \in 1..L - 1)
  BY <1>1, <1>3 DEF StackOK
<1>5. StackOK(d, p)
  <2>1. Len(d) >= 1 /\ (p = "releasing" => Len(d) >= 2)
    BY <1>1, <1>2, <1>4
  <2>2. \A n \in 1..Len(d) : n \in 1..L /\ d[n] = c[n]
    BY <1>1, <1>2
  <2>3. \A n \in 1..Len(d) : d[n].at = "instance" => Len(d) < 3
    <3>1. \A n \in 1..L : c[n].at = "instance" => L < 3
      BY DEF StackOK
    <3>2. Len(d) < L
      BY <1>1, <1>2
    <3>. QED BY <1>1, <1>2, <2>2, <3>1, <3>2
  <2>. QED BY <1>4, <2>1, <2>2, <2>3 DEF StackOK
<1>6. \A a, j : On(d, a, j) => On(c, a, j)
  BY <1>1, <1>2 DEF On
<1>7. \A a, j : On(c, a, j) => On(d, a, j) \/ (a = t.at /\ j = t.item)
  <2>1. \A n \in 1..L : n \in 1..L - 1 \/ n = L
    BY <1>1
  <2>2. \A a, j : t = Frame(a, j) => a = t.at /\ j = t.item
    BY FrameParts
  <2>. QED BY <1>2, <2>1, <2>2 DEF On
<1>8. t.at \in OnceAt => ~ On(d, t.at, t.item)
  <2>1. \A n \in 1..L - 1 : n \in 1..L /\ n # L
    BY <1>1
  <2>. QED BY <1>1, <1>2, <1>3, <2>1 DEF On, StackOK
<1>9. On(c, t.at, t.item)
  BY <1>1, <1>3 DEF On
<1>10. p = "releasing" => d[2] = c[2] /\ c[2].at # "instance"
  BY <1>1, <1>2, <1>4 DEF StackOK
<1>. QED BY <1>2, <1>4, <1>5, <1>6, <1>7, <1>8, <1>9, <1>10 DEF d

(* The release is alone on the embedder's code when it runs. *)
LEMMA PassAlone ==
  ASSUME NEW p, NEW c \in Seq(Frames), StackOK(c, p), c[Len(c)].at \in PassAt
  PROVE  /\ p = "releasing" /\ Len(c) = 2 /\ c[2].at = c[Len(c)].at
         /\ \A a \in ItemAt : \A j : ~ On(c, a, j)
<1>1. Len(c) \in Nat /\ Len(c) \in 1..Len(c)
  BY DEF StackOK
<1>2. p = "releasing" /\ Len(c) = 2
  BY <1>1 DEF StackOK
<1>3. c[1].at \in PassAt \cup {"user"} /\ c[2].at \in PassAt \cup {"user"}
  BY <1>2 DEF StackOK
<1>4. ItemAt \cap (PassAt \cup {"user"}) = {}
  BY DEF ItemAt, OnceAt, CleanAt, PassAt
<1>5. ASSUME NEW a \in ItemAt, NEW j PROVE ~ On(c, a, j)
  <2>1. \A n \in 1..Len(c) : n = 1 \/ n = 2
    BY <1>2
  <2>2. \A n \in 1..Len(c) : c[n].at # a
    BY <1>3, <1>4, <2>1
  <2>. QED BY <2>2, FrameParts DEF On
<1>. QED BY <1>2, <1>5

(* The release goes on somewhere else. *)
LEMMA StackTurn ==
  ASSUME NEW c \in Seq(Frames), StackOK(c, "releasing"), c[Len(c)].at \in PassAt, NEW b \in PassAt
  PROVE  LET d == Append(Front(c), Frame(b, 0))
         IN /\ d \in Seq(Frames) /\ StackOK(d, "releasing") /\ Len(d) = 2
            /\ d[2] = Frame(b, 0) /\ d[Len(d)] = Frame(b, 0)
            /\ \A a \in ItemAt : \A j : ~ On(d, a, j)
<1>. DEFINE d == Append(Front(c), Frame(b, 0))
<1>1. Frame(b, 0) \in Frames /\ Frame(b, 0).at = b /\ Frame(b, 0).item = 0
  BY FrameParts
<1>2. Len(c) = 2 /\ c[1].at = "user" /\ c[1].item = 0
  <2>1. Len(c) = 2
    BY PassAlone
  <2>2. 1 \in 1..Len(c)
    BY <2>1
  <2>3. c[1].at = "user"
    BY <2>2 DEF StackOK
  <2>. QED BY <2>1, <2>2, <2>3 DEF StackOK, ItemAt, OnceAt, CleanAt
<1>3. d \in Seq(Frames) /\ Len(d) = 2 /\ d[2] = Frame(b, 0) /\ d[1] = c[1]
  <2>1. Len(c) >= 1 /\ 1 \in 1..Len(c) - 1
    BY <1>2
  <2>2. /\ d \in Seq(Frames) /\ Len(d) = Len(c) /\ d[Len(c)] = Frame(b, 0)
        /\ \A n \in 1..Len(c) - 1 : d[n] = c[n]
    BY <1>1, <2>1, Replaced
  <2>. QED BY <1>2, <2>1, <2>2
<1>. HIDE DEF d
<1>4. StackOK(d, "releasing")
  <2>1. \A n \in 1..Len(d) : n = 1 \/ n = 2
    BY <1>3
  <2>2. b \notin ItemAt \cup {"user"} /\ "user" \notin ItemAt \cup PassAt /\ OnceAt \subseteq ItemAt
    BY DEF ItemAt, OnceAt, CleanAt, PassAt
  <2>. QED BY <1>1, <1>2, <1>3, <2>1, <2>2 DEF StackOK
<1>5. \A a \in ItemAt : \A j : ~ On(d, a, j)
  BY <1>1, <1>3, <1>4, PassAlone
<1>. QED BY <1>3, <1>4, <1>5 DEF d

(* The release ends. *)
LEMMA StackLeave ==
  ASSUME NEW c \in Seq(Frames), StackOK(c, "releasing"), c[Len(c)].at \in PassAt
  PROVE  LET d == Front(c)
         IN d \in Seq(Frames) /\ StackOK(d, "closed") /\ \A a \in ItemAt : \A j : ~ On(d, a, j)
<1>. DEFINE d == Front(c)
<1>1. Len(c) = 2 /\ c[1].at = "user" /\ c[1].item = 0
  <2>1. Len(c) = 2
    BY PassAlone
  <2>2. 1 \in 1..Len(c)
    BY <2>1
  <2>3. c[1].at = "user"
    BY <2>2 DEF StackOK
  <2>. QED BY <2>1, <2>2, <2>3 DEF StackOK, ItemAt, OnceAt, CleanAt
<1>2. d \in Seq(Frames) /\ Len(d) = 1 /\ d[1] = c[1]
  <2>1. Len(c) >= 1 /\ 1 \in 1..Len(c) - 1 /\ Len(c) - 1 = 1
    BY <1>1
  <2>2. d \in Seq(Frames) /\ Len(d) = Len(c) - 1 /\ \A n \in 1..Len(c) - 1 : d[n] = c[n]
    BY <2>1, Popped
  <2>. QED BY <2>1, <2>2
<1>. HIDE DEF d
<1>3. \A n \in 1..Len(d) : n = 1
  BY <1>2
<1>4. "user" \notin ItemAt \cup PassAt /\ OnceAt \subseteq ItemAt
  BY DEF ItemAt, OnceAt, CleanAt, PassAt
<1>5. StackOK(d, "closed")
  BY <1>1, <1>2, <1>3, <1>4 DEF StackOK
<1>6. \A a \in ItemAt : \A j : ~ On(d, a, j)
  BY <1>1, <1>2, <1>3, <1>4, FrameParts DEF On
<1>. QED BY <1>2, <1>5, <1>6 DEF d

(* The release begins. *)
LEMMA StackEnter ==
  ASSUME NEW c \in Seq(Frames), StackOK(c, "open"), c[Len(c)].at = "user"
  PROVE  LET d == Append(c, Frame("hooks", 0))
         IN /\ d \in Seq(Frames) /\ StackOK(d, "releasing") /\ d[2] = Frame("hooks", 0)
            /\ \A a \in ItemAt : \A j : ~ On(d, a, j) /\ ~ On(c, a, j)
<1>. DEFINE d == Append(c, Frame("hooks", 0))
<1>0. "hooks" \in PassAt /\ "user" \notin ItemAt \cup PassAt /\ OnceAt \subseteq ItemAt /\ "hooks" \notin ItemAt
  BY DEF ItemAt, OnceAt, CleanAt, PassAt
<1>1. Frame("hooks", 0) \in Frames /\ Frame("hooks", 0).at = "hooks" /\ Frame("hooks", 0).item = 0
  BY <1>0, FrameParts
<1>2. Len(c) \in Nat /\ Len(c) = 1 /\ c[1].at = "user" /\ c[1].item = 0
  <2>1. Len(c) \in Nat /\ Len(c) \in 1..Len(c)
    BY DEF StackOK
  <2>2. Len(c) = 1
    BY <2>1, Zenon DEF StackOK
  <2>3. 1 \in 1..Len(c) /\ c[1].at = "user"
    BY <2>1, <2>2
  <2>. QED BY <1>0, <2>1, <2>2, <2>3 DEF StackOK
<1>3. d \in Seq(Frames) /\ Len(d) = 2 /\ d[2] = Frame("hooks", 0) /\ d[1] = c[1]
  <2>1. 1 \in 1..Len(c) /\ Len(c) + 1 = 2
    BY <1>2
  <2>2. /\ d \in Seq(Frames) /\ Len(d) = Len(c) + 1 /\ d[Len(c) + 1] = Frame("hooks", 0)
        /\ \A n \in 1..Len(c) : d[n] = c[n]
    BY <1>1, Pushed
  <2>. QED BY <2>1, <2>2
<1>. HIDE DEF d
<1>4. StackOK(d, "releasing")
  <2>1. \A n \in 1..Len(d) : n = 1 \/ n = 2
    BY <1>3
  <2>. QED BY <1>0, <1>1, <1>2, <1>3, <2>1 DEF StackOK
<1>5. \A a \in ItemAt : \A j : ~ On(d, a, j)
  BY <1>0, <1>1, <1>3, <1>4, PassAlone
<1>6. \A a \in ItemAt : \A j : ~ On(c, a, j)
  <2>1. \A n \in 1..Len(c) : n = 1
    BY <1>2
  <2>. QED BY <1>0, <1>2, <2>1, FrameParts DEF On
<1>. QED BY <1>3, <1>4, <1>5, <1>6 DEF d

-----------------------------------------------------------------------------
(* The parts of a step that leave the rest of the invariant alone.         *)

\* Nothing the invariant says of item j has changed.
Same(j) ==
  /\ kind'[j] = kind[j] /\ life'[j] = life[j] /\ runs'[j] = runs[j]
  /\ hint'[j] = hint[j] /\ destroys'[j] = destroys[j] /\ holder'[j] = holder[j]
  /\ j \in hooks' <=> j \in hooks
  /\ j \in pending' <=> j \in pending
  /\ j \in instance' <=> j \in instance
  /\ j \in invoked' <=> j \in invoked
  /\ j \in released' <=> j \in released
  /\ j \in buffers' <=> j \in buffers
  /\ \A a \in OnceAt : Has(a, j)' <=> Has(a, j)
  /\ Has("callback", j)' => Has("callback", j)

(* An item a step does not touch keeps its part of the invariant. *)
LEMMA SameKeeps ==
  ASSUME NEW j, ItemOK(j), Same(j)
  PROVE  ItemOK(j)'
<1>1. /\ Has("set", j)' <=> Has("set", j)
      /\ Has("free", j)' <=> Has("free", j)
      /\ Has("let go", j)' <=> Has("let go", j)
      /\ Has("finalized", j)' <=> Has("finalized", j)
  BY DEF Same, OnceAt, CleanAt
<1>2. Listed(j)'
  BY <1>1 DEF Same, ItemOK, Listed, Valued
<1>3. Hinted(j)'
  BY <1>1 DEF Same, ItemOK, Hinted, Valued
<1>4. Buffered(j)'
  BY <1>1 DEF Same, ItemOK, Buffered
<1>. QED BY <1>2, <1>3, <1>4 DEF ItemOK

(* A step that touches one item. *)
LEMMA ItemStep ==
  ASSUME Inv, NEW i \in Items, ItemOK(i)', \A j \in Items : j # i => Same(j),
         Types', StackInv', OneInstance', EndInv'
  PROVE  Inv'
<1>1. \A j \in Items : ItemOK(j)'
  BY SameKeeps DEF Inv, ItemInv
<1>. QED BY <1>1 DEF Inv, ItemInv

(* Native code, and what comes back to an item, is never over the last step of
   the release. *)
LEMMA EndKept ==
  ASSUME Inv, Top.at \notin PassAt, phase # "closed", phase' = phase,
         Len(calls) >= 2 => calls'[2] = calls[2]
  PROVE  EndInv'
<1>1. phase = "releasing" => Len(calls) >= 2 /\ calls[2].at # "instance"
  BY StackTop DEF Inv, StackInv, StackOK, PassAt
<1>. QED BY <1>1 DEF EndInv

(* Where native code stands. *)
LEMMA UserTop ==
  ASSUME Inv, InUserCode
  PROVE  Top.at \notin PassAt /\ Top.at # "instance"
  BY DEF InUserCode, PassAt

(* A step that leaves the stack alone. *)
LEMMA StackKept ==
  ASSUME Inv, calls' = calls, phase' = phase
  PROVE  calls' \in Seq(Frames) /\ StackInv' /\ \A a, j : Has(a, j)' <=> Has(a, j)
<1>1. calls' \in Seq(Frames)
  BY StackTop
<1>2. StackInv'
  BY DEF Inv, StackInv
<1>. QED BY <1>1, <1>2 DEF Has

(* One frame is put on top. *)
LEMMA Call ==
  ASSUME Inv, phase # "closed", phase' = phase, Top.at # "instance",
         NEW b \in ItemAt, NEW i \in Items, b \in OnceAt => ~ Has(b, i),
         calls' = Append(calls, Frame(b, i))
  PROVE  /\ calls' \in Seq(Frames) /\ StackInv' /\ (Len(calls) >= 2 => calls'[2] = calls[2])
         /\ \A a, j : Has(a, j)' <=> (Has(a, j) \/ (a = b /\ j = i))
<1>1. calls \in Seq(Frames) /\ StackOK(calls, phase) /\ calls[Len(calls)].at # "instance"
  BY StackTop DEF Inv, StackInv
<1>2. b \in OnceAt => ~ On(calls, b, i)
  BY DEF Has
<1>3. /\ calls' \in Seq(Frames) /\ StackOK(calls', phase) /\ (Len(calls) >= 2 => calls'[2] = calls[2])
      /\ \A a, j : On(calls', a, j) <=> (On(calls, a, j) \/ (a = b /\ j = i))
  BY <1>1, <1>2, StackPush
<1>. QED BY <1>3 DEF StackInv, Has

(* A frame that will come back to an item, and native code over it. *)
LEMMA CallTwice ==
  ASSUME Inv, phase # "closed", phase' = phase, Top.at # "instance",
         NEW b \in OnceAt, NEW i \in Items, ~ Has(b, i), NEW k \in Items,
         CallOver(k, Append(calls, Frame(b, i)))
  PROVE  /\ calls' \in Seq(Frames) /\ StackInv' /\ (Len(calls) >= 2 => calls'[2] = calls[2])
         /\ \A a, j : Has(a, j)' <=> (Has(a, j) \/ (a = b /\ j = i) \/ (a = "callback" /\ j = k))
<1>. DEFINE c == Append(calls, Frame(b, i))
<1>1. calls \in Seq(Frames) /\ StackOK(calls, phase) /\ calls[Len(calls)].at # "instance"
  BY StackTop DEF Inv, StackInv
<1>2. ~ On(calls, b, i) /\ b \in ItemAt
  BY DEF Has, ItemAt
<1>3. /\ c \in Seq(Frames) /\ StackOK(c, phase) /\ (Len(calls) >= 2 => c[2] = calls[2])
      /\ Len(c) = Len(calls) + 1 /\ c[Len(c)] = Frame(b, i)
      /\ \A a, j : On(c, a, j) <=> (On(calls, a, j) \/ (a = b /\ j = i))
  BY <1>1, <1>2, StackPush
<1>. HIDE DEF c
<1>4. c[Len(c)].at # "instance" /\ "callback" \in ItemAt /\ "callback" \notin OnceAt
  <2>1. Frame(b, i).at = b /\ b # "instance"
    BY FrameParts DEF OnceAt, CleanAt
  <2>. QED BY <1>3, <2>1 DEF OnceAt, CleanAt, ItemAt
<1>5. calls' = Append(c, Frame("callback", k))
  BY DEF CallOver, c
<1>6. /\ calls' \in Seq(Frames) /\ StackOK(calls', phase) /\ (Len(c) >= 2 => calls'[2] = c[2])
      /\ \A a, j : On(calls', a, j) <=> (On(c, a, j) \/ (a = "callback" /\ j = k))
  BY <1>3, <1>4, <1>5, StackPush
<1>7. Len(calls) >= 2 => Len(c) >= 2
  BY <1>1, <1>3
<1>. QED BY <1>3, <1>6, <1>7 DEF StackInv, Has

(* The top frame is gone. *)
LEMMA Comeback ==
  ASSUME Inv, NEW t, t = Top, t.at \in ItemAt, calls' = Front(calls), phase' = phase
  PROVE  /\ calls' \in Seq(Frames) /\ StackInv' /\ EndInv' /\ phase # "closed"
         /\ t.item \in Items /\ Has(t.at, t.item)
         /\ \A a, j : Has(a, j)' => Has(a, j)
         /\ \A a, j : Has(a, j) => Has(a, j)' \/ (a = t.at /\ j = t.item)
         /\ t.at \in OnceAt => ~ Has(t.at, t.item)'
<1>1. calls \in Seq(Frames) /\ StackOK(calls, phase) /\ calls[Len(calls)] = t /\ t.at \in ItemAt
  BY StackTop DEF Inv, StackInv
<1>2. /\ calls' \in Seq(Frames) /\ StackOK(calls', phase) /\ phase # "closed"
      /\ phase = "releasing" => calls'[2] = calls[2] /\ calls[2].at # "instance"
      /\ \A a, j : On(calls', a, j) => On(calls, a, j)
      /\ \A a, j : On(calls, a, j) => On(calls', a, j) \/ (a = t.at /\ j = t.item)
      /\ t.at \in OnceAt => ~ On(calls', t.at, t.item)
      /\ On(calls, t.at, t.item)
  BY <1>1, StackPop
<1>3. t.item \in Items
  BY <1>1, StackTop DEF StackOK
<1>4. EndInv'
  BY <1>2 DEF EndInv
<1>5. calls' \in Seq(Frames) /\ StackInv' /\ \A a, j : Has(a, j)' => Has(a, j)
  BY <1>2 DEF StackInv, Has
<1>6. \A a, j : Has(a, j) => Has(a, j)' \/ (a = t.at /\ j = t.item)
  BY <1>2 DEF Has
<1>7. Has(t.at, t.item) /\ (t.at \in OnceAt => ~ Has(t.at, t.item)')
  BY <1>2 DEF Has
<1>. QED BY <1>2, <1>3, <1>4, <1>5, <1>6, <1>7

(* A hint that was not destroyed is, once. *)
LEMMA DestroyedOne ==
  ASSUME Inv, NEW i \in Items, hint[i] = "made", Destroyed(i)
  PROVE  /\ hint'[i] = "destroyed" /\ destroys'[i] = 1
         /\ \A j \in Items : j # i => hint'[j] = hint[j] /\ destroys'[j] = destroys[j]
         /\ hint' \in [Items -> {"none", "made", "destroyed"}] /\ destroys' \in [Items -> Nat]
<1>1. ItemOK(i) /\ hint \in [Items -> {"none", "made", "destroyed"}] /\ destroys \in [Items -> Nat]
  BY DEF Inv, Types, ItemInv
<1>2. destroys[i] = 0
  BY <1>1 DEF ItemOK, Hinted
<1>. QED BY <1>1, <1>2 DEF Destroyed

(* A live item has run, once. *)
LEMMA RanOne ==
  ASSUME Inv, NEW i \in Items, life[i] = "live", Ran(i)
  PROVE  /\ life'[i] = "done" /\ runs'[i] = 1
         /\ \A j \in Items : j # i => life'[j] = life[j] /\ runs'[j] = runs[j]
         /\ life' \in [Items -> {"none", "live", "done", "withdrawn"}] /\ runs' \in [Items -> Nat]
<1>1. ItemOK(i) /\ life \in [Items -> {"none", "live", "done", "withdrawn"}] /\ runs \in [Items -> Nat]
  BY DEF Inv, Types, ItemInv
<1>2. runs[i] = 0
  BY <1>1 DEF ItemOK, Listed
<1>. QED BY <1>1, <1>2 DEF Ran

-----------------------------------------------------------------------------
(* What native code does.                                                  *)

(* What is known of an item that has not been made. *)
LEMMA Unmade ==
  ASSUME Inv, NEW i \in Items, life[i] = "none"
  PROVE  /\ kind[i] = "none" /\ runs[i] = 0 /\ hint[i] = "none" /\ destroys[i] = 0 /\ holder[i] = "none"
         /\ i \notin hooks \cup pending \cup instance \cup invoked \cup released
         /\ \A a \in ItemAt : ~ Has(a, i)
<1>1. ItemOK(i)
  BY DEF Inv, ItemInv
<1>2. kind[i] = "none" /\ runs[i] = 0 /\ hint[i] = "none" /\ destroys[i] = 0 /\ holder[i] = "none"
  BY <1>1 DEF ItemOK, Listed, Hinted, Buffered, Valued
<1>3. i \notin hooks \cup pending \cup instance \cup invoked \cup released
  BY <1>1, <1>2 DEF ItemOK, Listed, Hinted, Valued
<1>4. ~ Has("set", i) /\ ~ Has("free", i) /\ ~ Has("let go", i) /\ ~ Has("finalized", i) /\ ~ Has("callback", i)
  BY <1>1, <1>2 DEF ItemOK, Listed, Hinted
<1>. QED BY <1>2, <1>3, <1>4 DEF ItemAt, OnceAt, CleanAt

(* A hook, a value or an array buffer is registered. *)
LEMMA MakeKeeps ==
  ASSUME Inv, phase # "closed", NEW i \in Items, NEW k \in Kinds, Make(i, k)
  PROVE  Inv'
<1>1. /\ UNCHANGED <<phase, runs, instance, invoked, released, destroys, calls>>
      /\ InUserCode /\ life[i] = "none" /\ k \in {"hook", "ref", "store"}
  BY KindsAssumption DEF Make
<1>2. calls' \in Seq(Frames) /\ StackInv' /\ \A a, j : Has(a, j)' <=> Has(a, j)
  BY <1>1, StackKept
<1>3. EndInv'
  BY <1>1, UserTop, EndKept
<1>4. Types'
  BY <1>1, <1>2 DEF Make, Inv, Types
<1>5. OneInstance'
  BY <1>1 DEF Inv, OneInstance
<1>6. \A j \in Items : j # i => Same(j)
  BY <1>1, <1>2 DEF Make, Inv, Types, Same
<1>7. ItemOK(i)'
  <2>1. /\ kind'[i] = k /\ life'[i] = "live"
        /\ i \in hooks' <=> k = "hook"
        /\ i \in pending' <=> k # "hook"
        /\ hint'[i] = IF k = "hook" THEN "none" ELSE "made"
        /\ holder'[i] = IF k = "store" THEN "buffer" ELSE "none"
        /\ k = "store" => i \in buffers'
    BY <1>1, Unmade DEF Make, Inv, Types
  <2>2. runs'[i] = 0 /\ destroys'[i] = 0 /\ i \notin instance' /\ i \notin invoked' /\ i \notin released'
    BY <1>1, Unmade
  <2>3. \A a \in ItemAt : ~ Has(a, i)'
    BY <1>1, <1>2, Unmade
  <2>4. /\ ~ Has("set", i)' /\ ~ Has("free", i)' /\ ~ Has("let go", i)' /\ ~ Has("finalized", i)'
        /\ ~ Has("callback", i)'
    BY <2>3 DEF ItemAt, OnceAt, CleanAt
  <2>. QED BY <1>1, <2>1, <2>2, <2>4 DEF ItemOK, Listed, Hinted, Buffered, Valued
<1>. QED BY <1>2, <1>3, <1>4, <1>5, <1>6, <1>7, ItemStep

(* A hook is withdrawn. *)
LEMMA RemoveHookKeeps ==
  ASSUME Inv, phase # "closed", NEW i \in Items, RemoveHook(i)
  PROVE  Inv'
<1>1. /\ UNCHANGED <<phase, kind, runs, hintVars, instance, calls>>
      /\ InUserCode /\ i \in hooks /\ hooks' = hooks \ {i} /\ life' = [life EXCEPT ![i] = "withdrawn"]
  BY DEF RemoveHook
<1>2. calls' \in Seq(Frames) /\ StackInv' /\ \A a, j : Has(a, j)' <=> Has(a, j)
  BY <1>1, StackKept
<1>3. EndInv'
  BY <1>1, UserTop, EndKept
<1>4. Types'
  BY <1>1, <1>2 DEF Inv, Types, hintVars
<1>5. OneInstance'
  BY <1>1 DEF Inv, OneInstance
<1>6. \A j \in Items : j # i => Same(j)
  BY <1>1, <1>2 DEF Inv, Types, Same, hintVars
<1>7. ItemOK(i)'
  <2>1. ItemOK(i) /\ life'[i] = "withdrawn" /\ i \notin hooks'
    BY <1>1 DEF Inv, Types, ItemInv
  <2>. QED BY <1>1, <1>2, <2>1 DEF ItemOK, Listed, Hinted, Buffered, Valued, hintVars
<1>. QED BY <1>2, <1>3, <1>4, <1>5, <1>6, <1>7, ItemStep

(* A wrap is removed: its hint is destroyed without its finalizer. *)
LEMMA RemoveWrapKeeps ==
  ASSUME Inv, phase # "closed", NEW i \in Items, RemoveWrap(i)
  PROVE  Inv'
<1>1. /\ UNCHANGED <<phase, kind, runs, hooks, instance, invoked, released, holder, buffers, calls>>
      /\ InUserCode /\ kind[i] = "ref" /\ hint[i] = "made" /\ i \notin invoked
      /\ pending' = pending \ {i} /\ Destroyed(i) /\ life' = [life EXCEPT ![i] = "withdrawn"]
  BY DEF RemoveWrap
<1>2. calls' \in Seq(Frames) /\ StackInv' /\ \A a, j : Has(a, j)' <=> Has(a, j)
  BY <1>1, StackKept
<1>3. EndInv'
  BY <1>1, UserTop, EndKept
<1>4. Types'
  BY <1>1, <1>2, DestroyedOne DEF Inv, Types
<1>5. OneInstance'
  BY <1>1 DEF Inv, OneInstance
<1>6. \A j \in Items : j # i => Same(j)
  BY <1>1, <1>2, DestroyedOne DEF Inv, Types, Same
<1>7. ItemOK(i)'
  <2>1. /\ ItemOK(i) /\ life'[i] = "withdrawn" /\ i \notin pending'
        /\ hint'[i] = "destroyed" /\ destroys'[i] = 1
    BY <1>1, DestroyedOne DEF Inv, Types, ItemInv
  <2>. QED BY <1>1, <1>2, <2>1 DEF ItemOK, Listed, Hinted, Buffered, Valued
<1>. QED BY <1>2, <1>3, <1>4, <1>5, <1>6, <1>7, ItemStep

(* The memory of a buffer moves to another. *)
LEMMA TransferKeeps ==
  ASSUME Inv, phase # "closed", NEW i \in Items, Transfer(i)
  PROVE  Inv'
<1>1. /\ UNCHANGED <<phase, kind, life, runs, hooks, instance, pending, invoked, released, buffers, hint, destroys, calls>>
      /\ InUserCode /\ holder[i] # "none"
      /\ holder' = [holder EXCEPT ![i] = IF i \in released THEN "astray" ELSE "moved"]
  BY DEF Transfer, item
<1>2. calls' \in Seq(Frames) /\ StackInv' /\ \A a, j : Has(a, j)' <=> Has(a, j)
  BY <1>1, StackKept
<1>3. EndInv'
  BY <1>1, UserTop, EndKept
<1>4. Types'
  BY <1>1, <1>2 DEF Inv, Types
<1>5. OneInstance'
  BY <1>1 DEF Inv, OneInstance
<1>6. \A j \in Items : j # i => Same(j)
  BY <1>1, <1>2 DEF Inv, Types, Same
<1>7. ItemOK(i)'
  <2>1. ItemOK(i) /\ holder'[i] = IF i \in released THEN "astray" ELSE "moved"
    BY <1>1 DEF Inv, Types, ItemInv
  <2>2. kind[i] = "store" /\ life[i] # "withdrawn" /\ ~ Has("finalized", i) /\ hint[i] # "none"
    BY <1>1, <2>1 DEF ItemOK, Hinted, Buffered, Valued
  <2>3. i \in released => i \notin pending /\ i \in invoked /\ life[i] = "done"
    <3>1. i \in released => i \notin pending
      BY <1>1, <2>1 DEF ItemOK, Buffered
    <3>2. CASE hint[i] = "made"
      <4>1. i \in released => life[i] \notin {"none", "live"}
        BY <2>1, <2>2, <3>1 DEF ItemOK, Listed, Valued
      <4>2. life[i] \in {"none", "live", "done", "withdrawn"}
        BY DEF Inv, Types
      <4>. QED BY <2>1, <2>2, <3>1, <3>2, <4>1, <4>2 DEF ItemOK, Hinted
    <3>3. CASE hint[i] # "made"
      BY <1>1, <2>1, <3>1, <3>3 DEF ItemOK, Buffered
    <3>. QED BY <3>2, <3>3
  <2>4. i \notin released => hint[i] = "made"
    BY <1>1, <2>1, <2>2 DEF ItemOK, Buffered
  <2>5. Listed(i)' /\ Hinted(i)'
    BY <1>1, <1>2, <2>1 DEF ItemOK, Listed, Hinted, Valued
  <2>6. Buffered(i)'
    BY <1>1, <1>2, <2>1, <2>2, <2>3, <2>4 DEF ItemOK, Buffered
  <2>. QED BY <2>5, <2>6 DEF ItemOK
<1>. QED BY <1>2, <1>3, <1>4, <1>5, <1>6, <1>7, ItemStep

(* The array buffer whose memory moved is freed. *)
LEMMA FreeEmptyBufferKeeps ==
  ASSUME Inv, phase # "closed", NEW i \in Items, FreeEmptyBuffer(i)
  PROVE  Inv'
<1>1. /\ UNCHANGED <<phase, kind, life, runs, hooks, instance, pending, invoked, released, holder, hint, destroys, calls>>
      /\ InUserCode /\ holder[i] # "buffer" /\ buffers' = buffers \ {i}
  BY DEF FreeEmptyBuffer, item
<1>2. calls' \in Seq(Frames) /\ StackInv' /\ \A a, j : Has(a, j)' <=> Has(a, j)
  BY <1>1, StackKept
<1>3. EndInv'
  BY <1>1, UserTop, EndKept
<1>4. Types'
  BY <1>1, <1>2 DEF Inv, Types
<1>5. OneInstance'
  BY <1>1 DEF Inv, OneInstance
<1>6. \A j \in Items : j # i => Same(j)
  BY <1>1, <1>2 DEF Inv, Types, Same
<1>7. ItemOK(i)'
  <2>1. ItemOK(i)
    BY DEF Inv, ItemInv
  <2>. QED BY <1>1, <1>2, <2>1 DEF ItemOK, Listed, Hinted, Buffered, Valued
<1>. QED BY <1>2, <1>3, <1>4, <1>5, <1>6, <1>7, ItemStep

\* What invoke_finalizer leaves of item i, over a frame that comes back to it at b.
InvokedAt(b, i) ==
  /\ calls' \in Seq(Frames) /\ StackInv' /\ (Len(calls) >= 2 => calls'[2] = calls[2])
  /\ \A a \in OnceAt : \A j \in Items : Has(a, j)' <=> (Has(a, j) \/ (a = b /\ j = i))
  /\ \A j \in Items : j # i => (Has("callback", j)' <=> Has("callback", j))
  /\ Has("callback", i)' => life'[i] = "done"
  /\ \A j \in Items : j # i => life'[j] = life[j] /\ runs'[j] = runs[j]
  /\ life' \in [Items -> {"none", "live", "done", "withdrawn"}] /\ runs' \in [Items -> Nat]
  /\ runs'[i] = IF life'[i] = "done" THEN 1 ELSE 0
  /\ life'[i] # "none" /\ life'[i] # "live"
  /\ invoked' = invoked \cup {i} /\ pending' = pending \ {i} /\ buffers' = buffers \ {i}

(* The finalizer of a value's hint is invoked over a frame that comes back to
   the hint, unless it was invoked before. *)
LEMMA Invoked ==
  ASSUME Inv, phase # "closed", phase' = phase, Top.at # "instance", NEW i \in Items, Valued(i), hint[i] = "made",
         NEW b \in OnceAt, ~ Has(b, i), InvokeOver(i, Append(calls, Frame(b, i)))
  PROVE  InvokedAt(b, i)
<1>1. /\ ItemOK(i) /\ life \in [Items -> {"none", "live", "done", "withdrawn"}] /\ runs \in [Items -> Nat]
      /\ "callback" \notin OnceAt
  BY DEF Inv, Types, ItemInv, OnceAt, CleanAt
<1>2. invoked' = invoked \cup {i} /\ pending' = pending \ {i} /\ buffers' = buffers \ {i}
  BY DEF InvokeOver
<1>3. CASE i \in invoked
  <2>1. calls' = Append(calls, Frame(b, i)) /\ UNCHANGED <<life, runs>>
    BY <1>3 DEF InvokeOver
  <2>2. /\ calls' \in Seq(Frames) /\ StackInv' /\ (Len(calls) >= 2 => calls'[2] = calls[2])
        /\ \A a, j : Has(a, j)' <=> (Has(a, j) \/ (a = b /\ j = i))
    BY <2>1, Call DEF ItemAt
  <2>3. /\ life[i] # "none" /\ life[i] # "live" /\ runs[i] = IF life[i] = "done" THEN 1 ELSE 0
        /\ Has("callback", i) => life[i] = "done"
    BY <1>1, <1>3 DEF ItemOK, Listed, Hinted, Valued
  <2>4. \A j : Has("callback", j)' <=> Has("callback", j)
    BY <1>1, <2>2
  <2>. QED BY <1>1, <1>2, <2>1, <2>2, <2>3, <2>4 DEF InvokedAt
<1>4. CASE i \notin invoked
  <2>1. Ran(i) /\ CallOver(i, Append(calls, Frame(b, i)))
    BY <1>4 DEF InvokeOver
  <2>2. /\ calls' \in Seq(Frames) /\ StackInv' /\ (Len(calls) >= 2 => calls'[2] = calls[2])
        /\ \A a, j : Has(a, j)' <=> (Has(a, j) \/ (a = b /\ j = i) \/ (a = "callback" /\ j = i))
    BY <2>1, CallTwice
  <2>3. life[i] = "live"
    BY <1>1, <1>4 DEF ItemOK, Listed, Hinted
  <2>4. \A j : j # i => (Has("callback", j)' <=> Has("callback", j))
    BY <1>1, <2>2
  <2>5. \A a \in OnceAt : \A j : Has(a, j)' <=> (Has(a, j) \/ (a = b /\ j = i))
    BY <1>1, <2>2
  <2>. QED BY <1>1, <1>2, <2>1, <2>2, <2>3, <2>4, <2>5, RanOne DEF InvokedAt
<1>. QED BY <1>3, <1>4

(* The value of a reference is freed. *)
LEMMA FreeValueKeeps ==
  ASSUME Inv, phase # "closed", NEW i \in Items, FreeValue(i)
  PROVE  Inv'
<1>1. /\ UNCHANGED <<phase, kind, hooks, instance, released, holder, hint, destroys>>
      /\ InUserCode /\ kind[i] = "ref" /\ hint[i] = "made" /\ ~ Has("free", i)
      /\ InvokeOver(i, Append(calls, Frame("free", i)))
      /\ Valued(i) /\ "free" \in OnceAt
  BY DEF FreeValue, Has, On, Valued, OnceAt, CleanAt
<1>2. InvokedAt("free", i)
  BY <1>1, UserTop, Invoked
<1>3. StackInv' /\ EndInv'
  BY <1>1, <1>2, UserTop, EndKept DEF InvokedAt
<1>4. Types'
  BY <1>1, <1>2 DEF Inv, Types, InvokedAt
<1>5. OneInstance'
  BY <1>1 DEF Inv, OneInstance
<1>6. \A j \in Items : j # i => Same(j)
  BY <1>1, <1>2 DEF Same, InvokedAt
<1>7. ItemOK(i)'
  <2>1. ItemOK(i)
    BY DEF Inv, ItemInv
  <2>2. /\ Has("set", i)' <=> Has("set", i)
        /\ Has("let go", i)' <=> Has("let go", i)
        /\ Has("finalized", i)' <=> Has("finalized", i)
    <3>1. {"set", "free", "let go", "finalized"} \subseteq OnceAt
      BY DEF OnceAt, CleanAt
    <3>2. \A a \in OnceAt : a # "free" => (Has(a, i)' <=> Has(a, i))
      BY <1>2 DEF InvokedAt
    <3>. QED BY <3>1, <3>2
  <2>3. /\ i \in invoked' /\ i \notin pending' /\ life'[i] # "none" /\ life'[i] # "live"
        /\ runs'[i] = IF life'[i] = "done" THEN 1 ELSE 0
        /\ Has("callback", i)' => life'[i] = "done"
    BY <1>2 DEF InvokedAt
  <2>. QED BY <1>1, <2>1, <2>2, <2>3 DEF ItemOK, Listed, Hinted, Buffered, Valued
<1>. QED BY <1>3, <1>4, <1>5, <1>6, <1>7, ItemStep

(* A buffer is let go of. *)
LEMMA LetGoKeeps ==
  ASSUME Inv, phase # "closed", NEW i \in Items, LetGo(i)
  PROVE  Inv'
<1>1. /\ UNCHANGED <<phase, kind, hooks, instance, hint, destroys>>
      /\ InUserCode /\ holder[i] # "none" /\ released' = released \cup {i}
      /\ OneInstance'
  BY DEF LetGo, Inv, OneInstance
<1>2. ItemOK(i)
  BY DEF Inv, ItemInv
<1>3. /\ kind[i] = "store"
      /\ i \notin released => hint[i] = "made" /\ ~ Has("let go", i) /\ ~ Has("finalized", i)
  BY <1>1, <1>2 DEF ItemOK, Hinted, Buffered
<1>4. CASE i \in released \/ (i \in pending /\ phase = "releasing")
  <2>1. holder' = [holder EXCEPT ![i] = "none"] /\ UNCHANGED <<life, runs, pending, invoked, buffers, calls>>
    BY <1>4 DEF LetGo
  <2>2. calls' \in Seq(Frames) /\ StackInv' /\ \A a, j : Has(a, j)' <=> Has(a, j)
    BY <1>1, <2>1, StackKept
  <2>3. EndInv'
    BY <1>1, <2>1, UserTop, EndKept
  <2>4. Types'
    BY <1>1, <2>1, <2>2 DEF Inv, Types
  <2>5. \A j \in Items : j # i => Same(j)
    BY <1>1, <2>1, <2>2 DEF Inv, Types, Same
  <2>6. holder'[i] = "none"
    BY <2>1 DEF Inv, Types
  <2>7. ItemOK(i)'
    <3>1. Listed(i)'
      BY <1>1, <1>2, <2>1, <2>2 DEF ItemOK, Listed, Valued
    <3>2. Hinted(i)'
      BY <1>1, <1>2, <1>3, <1>4, <2>1, <2>2 DEF ItemOK, Hinted, Valued
    <3>3. Buffered(i)'
      BY <1>1, <1>2, <2>1, <2>2, <2>6 DEF ItemOK, Buffered
    <3>. QED BY <3>1, <3>2, <3>3 DEF ItemOK
  <2>. QED BY <1>1, <2>2, <2>3, <2>4, <2>5, <2>7, ItemStep
<1>5. CASE ~ (i \in released \/ (i \in pending /\ phase = "releasing"))
  <2>1. InvokeOver(i, Append(calls, Frame("let go", i))) /\ UNCHANGED holder
    BY <1>5 DEF LetGo
  <2>2. InvokedAt("let go", i)
    BY <1>1, <1>3, <1>5, <2>1, UserTop, Invoked DEF Valued, OnceAt, CleanAt
  <2>3. StackInv' /\ EndInv'
    BY <1>1, <2>2, UserTop, EndKept DEF InvokedAt
  <2>4. Types'
    BY <1>1, <2>1, <2>2 DEF Inv, Types, InvokedAt
  <2>5. \A j \in Items : j # i => Same(j)
    BY <1>1, <2>1, <2>2 DEF Same, InvokedAt
  <2>6. /\ Has("set", i)' <=> Has("set", i)
        /\ Has("free", i)' <=> Has("free", i)
        /\ Has("let go", i)'
        /\ Has("finalized", i)' <=> Has("finalized", i)
    <3>1. {"set", "free", "let go", "finalized"} \subseteq OnceAt
      BY DEF OnceAt, CleanAt
    <3>2. \A a \in OnceAt : Has(a, i)' <=> (Has(a, i) \/ a = "let go")
      BY <2>2 DEF InvokedAt
    <3>. QED BY <3>1, <3>2
  <2>7. ItemOK(i)'
    <3>1. Listed(i)'
      BY <1>1, <1>2, <1>3, <2>2, <2>6 DEF ItemOK, Listed, Valued, InvokedAt
    <3>2. Hinted(i)'
      BY <1>1, <1>2, <1>3, <1>5, <2>1, <2>2, <2>6 DEF ItemOK, Hinted, Valued, InvokedAt
    <3>3. life'[i] # "withdrawn"
      <4>1. life[i] # "withdrawn"
        BY <1>2, <1>3 DEF ItemOK, Buffered
      <4>2. CASE i \in invoked
        BY <2>1, <4>1, <4>2 DEF InvokeOver
      <4>3. CASE i \notin invoked
        <5>1. Ran(i)
          BY <2>1, <4>3 DEF InvokeOver
        <5>. QED BY <5>1 DEF Ran, Inv, Types
      <4>. QED BY <4>2, <4>3
    <3>4. Buffered(i)'
      BY <1>1, <1>2, <1>3, <1>5, <2>1, <2>2, <2>6, <3>3 DEF ItemOK, Buffered, InvokedAt
    <3>. QED BY <3>1, <3>2, <3>4 DEF ItemOK
  <2>. QED BY <1>1, <2>3, <2>4, <2>5, <2>7, ItemStep
<1>. QED BY <1>4, <1>5

(* Native code returns. *)
LEMMA ReturnKeeps ==
  ASSUME Inv, Return
  PROVE  Inv'
<1>. PICK t : t = Top
  OBVIOUS
<1>1. /\ UNCHANGED <<phase, kind, life, runs, hintVars, hooks, instance>>
      /\ t.at = "callback" /\ calls' = Front(calls) /\ "callback" \in ItemAt /\ "callback" \notin OnceAt
  BY DEF Return, At, item, ItemAt, OnceAt, CleanAt
<1>2. /\ calls' \in Seq(Frames) /\ StackInv' /\ EndInv' /\ t.item \in Items
      /\ \A a, j : Has(a, j)' => Has(a, j)
      /\ \A a, j : Has(a, j) => Has(a, j)' \/ (a = t.at /\ j = t.item)
  BY <1>1, Comeback
<1>3. Types' /\ OneInstance'
  BY <1>1, <1>2 DEF Inv, Types, OneInstance, hintVars
<1>4. \A j \in Items : Same(j)
  BY <1>1, <1>2 DEF Same, hintVars
<1>. QED BY <1>2, <1>3, <1>4, SameKeeps DEF Inv, ItemInv

(* A hint is destroyed by the frame that comes back to it. *)
LEMMA CleanKeeps ==
  ASSUME Inv, NEW t, t = Top, t.at \in CleanAt, calls' = Front(calls), Destroyed(t.item),
         UNCHANGED <<phase, kind, life, runs, hooks, instance, pending, invoked, released, buffers>>,
         holder' = IF t.at = "let go" THEN [holder EXCEPT ![t.item] = IF @ = "astray" THEN @ ELSE "none"]
                                      ELSE holder
  PROVE  Inv'
<1>. PICK i : i = t.item
  OBVIOUS
<1>1. /\ calls' \in Seq(Frames) /\ StackInv' /\ EndInv' /\ i \in Items /\ Has(t.at, i) /\ ~ Has(t.at, i)'
      /\ \A a, j : Has(a, j)' => Has(a, j)
      /\ \A a, j : Has(a, j) => Has(a, j)' \/ (a = t.at /\ j = i)
  BY Comeback DEF ItemAt, OnceAt
<1>2. ItemOK(i)
  BY <1>1 DEF Inv, ItemInv
<1>3. /\ hint[i] = "made" /\ i \in invoked /\ i \notin pending
      /\ \A a \in CleanAt : ~ Has(a, i)'
      /\ Has("finalized", i) \/ kind[i] = "ref" => holder[i] = "none"
  <2>1. /\ Has("free", i) => kind[i] = "ref" /\ hint[i] = "made" /\ i \in invoked
        /\ Has("let go", i) => kind[i] = "store" /\ hint[i] = "made" /\ i \in invoked /\ ~ Has("finalized", i)
        /\ Has("finalized", i) => kind[i] = "store" /\ hint[i] = "made" /\ i \in invoked
        /\ i \in pending => i \notin invoked
        /\ Has("finalized", i) \/ kind[i] = "ref" => holder[i] = "none"
    BY <1>2 DEF ItemOK, Hinted, Buffered
  <2>2. t.at = "free" \/ t.at = "let go" \/ t.at = "finalized"
    BY DEF CleanAt
  <2>3. ~ Has("free", i)' /\ ~ Has("let go", i)' /\ ~ Has("finalized", i)'
    BY <1>1, <2>1, <2>2
  <2>. QED BY <1>1, <2>1, <2>2, <2>3 DEF CleanAt
<1>4. /\ hint'[i] = "destroyed" /\ destroys'[i] = 1
      /\ \A j \in Items : j # i => hint'[j] = hint[j] /\ destroys'[j] = destroys[j]
      /\ hint' \in [Items -> {"none", "made", "destroyed"}] /\ destroys' \in [Items -> Nat]
  BY <1>1, <1>3, DestroyedOne
<1>5. /\ holder' \in [Items -> {"none", "buffer", "moved", "astray"}]
      /\ \A j \in Items : j # i => holder'[j] = holder[j]
      /\ holder'[i] = IF holder[i] = "astray" THEN "astray" ELSE "none"
  <2>1. holder \in [Items -> {"none", "buffer", "moved", "astray"}] /\ (t.at # "let go" => holder[i] = "none")
    BY <1>1, <1>2, <1>3 DEF Inv, Types, ItemOK, Hinted, CleanAt
  <2>. QED BY <1>1, <2>1
<1>6. Types' /\ OneInstance'
  BY <1>1, <1>4, <1>5 DEF Inv, Types, OneInstance
<1>7. \A j \in Items : j # i => Same(j)
  BY <1>1, <1>4, <1>5 DEF Same
<1>8. ItemOK(i)'
  <2>1. /\ ~ Has("free", i)' /\ ~ Has("let go", i)' /\ ~ Has("finalized", i)'
        /\ Has("set", i)' <=> Has("set", i)
        /\ Has("callback", i)' => Has("callback", i)
    <3>1. {"free", "let go", "finalized"} \subseteq CleanAt /\ "set" \notin CleanAt
      BY DEF CleanAt
    <3>2. ~ Has("free", i)' /\ ~ Has("let go", i)' /\ ~ Has("finalized", i)'
      BY <1>3, <3>1
    <3>. QED BY <1>1, <3>1, <3>2
  <2>. QED BY <1>1, <1>2, <1>3, <1>4, <1>5, <2>1 DEF ItemOK, Listed, Hinted, Buffered, Valued
<1>. QED BY <1>1, <1>6, <1>7, <1>8, ItemStep

(* The frames that come back to a hint. *)
LEMMA DestroyKeeps ==
  ASSUME Inv, ValueFreed \/ LetGoDone \/ ValueFinalized
  PROVE  Inv'
<1>. PICK t : t = Top
  OBVIOUS
<1>1. /\ t.at \in CleanAt /\ calls' = Front(calls) /\ Destroyed(t.item)
      /\ UNCHANGED <<phase, kind, life, runs, hooks, instance, pending, invoked, released, buffers>>
      /\ holder' = IF t.at = "let go" THEN [holder EXCEPT ![t.item] = IF @ = "astray" THEN @ ELSE "none"]
                                      ELSE holder
  BY DEF ValueFreed, LetGoDone, ValueFinalized, At, CleanAt, item
<1>. QED BY <1>1, CleanKeeps

(* The release begins. *)
LEMMA ReleaseKeeps ==
  ASSUME Inv, Release
  PROVE  Inv'
<1>1. /\ UNCHANGED <<kind, life, runs, hintVars, hooks, instance>>
      /\ phase = "open" /\ phase' = "releasing" /\ Top.at = "user" /\ calls' = Append(calls, Frame("hooks", 0))
  BY DEF Release, At
<1>2. calls \in Seq(Frames) /\ StackOK(calls, "open") /\ calls[Len(calls)].at = "user"
  BY <1>1, StackTop DEF Inv, StackInv
<1>3. /\ calls' \in Seq(Frames) /\ StackOK(calls', "releasing") /\ calls'[2] = Frame("hooks", 0)
      /\ \A a \in ItemAt : \A j : ~ On(calls', a, j) /\ ~ On(calls, a, j)
  BY <1>1, <1>2, StackEnter
<1>4. StackInv' /\ \A a \in ItemAt : \A j : ~ Has(a, j)' /\ ~ Has(a, j)
  BY <1>1, <1>3 DEF StackInv, Has
<1>5. Types' /\ OneInstance'
  BY <1>1, <1>3 DEF Inv, Types, OneInstance, hintVars
<1>6. EndInv'
  <2>1. calls'[2].at = "hooks"
    BY <1>3, FrameParts
  <2>. QED BY <1>1, <2>1 DEF EndInv
<1>7. \A j \in Items : Same(j)
  BY <1>1, <1>4 DEF Same, ItemAt, hintVars
<1>. QED BY <1>4, <1>5, <1>6, <1>7, SameKeeps DEF Inv, ItemInv

(* The instance data whose finalizer is still set is the instance data. *)
LEMMA UnfinalizedAll ==
  ASSUME Inv
  PROVE  Unfinalized = instance /\ instance \subseteq Items
<1>1. \A i \in instance : i \in Items /\ life[i] = "live"
  BY DEF Inv, Types, ItemInv, ItemOK, Listed
<1>. QED BY <1>1 DEF Unfinalized

(* Instance data is set: the old is finalized first, if there is any. *)
LEMMA SetInstanceDataKeeps ==
  ASSUME Inv, phase # "closed", NEW i \in Items, SetInstanceData(i)
  PROVE  Inv'
<1>1. /\ UNCHANGED <<phase, hooks, pending, invoked, released, holder, buffers, hint, destroys>>
      /\ InUserCode /\ life[i] = "none" /\ "instance" \in Kinds /\ kind' = [kind EXCEPT ![i] = "instance"]
  BY DEF SetInstanceData, hintVars
<1>2. /\ kind'[i] = "instance" /\ (\A j \in Items : j # i => kind'[j] = kind[j])
      /\ kind' \in [Items -> Kinds \cup {"none"}]
      /\ life \in [Items -> {"none", "live", "done", "withdrawn"}] /\ runs \in [Items -> Nat]
  BY <1>1 DEF Inv, Types
<1>3. /\ kind[i] = "none" /\ runs[i] = 0 /\ hint[i] = "none" /\ destroys[i] = 0 /\ holder[i] = "none"
      /\ i \notin hooks \cup pending \cup instance \cup invoked \cup released
      /\ ~ Has("set", i) /\ ~ Has("free", i) /\ ~ Has("let go", i) /\ ~ Has("finalized", i) /\ ~ Has("callback", i)
  BY <1>1, Unmade DEF ItemAt, OnceAt, CleanAt
<1>4. ASSUME NEW k \in Unfinalized, life' = [life EXCEPT ![i] = "live", ![k] = "done"],
             runs' = [runs EXCEPT ![k] = @ + 1], instance' = {}, CallOver(k, Append(calls, Frame("set", i)))
      PROVE  Inv'
  <2>1. k \in Items /\ k \in instance /\ k # i /\ ItemOK(k)
    <3>1. k \in instance /\ k \in Items
      BY UnfinalizedAll
    <3>2. k # i
      BY <1>3, <3>1
    <3>. QED BY <3>1, <3>2 DEF Inv, ItemInv
  <2>2. kind[k] = "instance" /\ life[k] = "live" /\ runs[k] = 0 /\ instance = {k}
    <3>1. kind[k] = "instance" /\ life[k] = "live" /\ runs[k] = 0
      BY <2>1 DEF ItemOK, Listed
    <3>. QED BY <2>1, <3>1 DEF Inv, OneInstance
  <2>3. /\ life'[i] = "live" /\ life'[k] = "done" /\ runs'[k] = 1 /\ runs'[i] = 0
        /\ \A j \in Items : j # i /\ j # k => life'[j] = life[j] /\ runs'[j] = runs[j]
        /\ life' \in [Items -> {"none", "live", "done", "withdrawn"}] /\ runs' \in [Items -> Nat]
    <3>1. k \in Items /\ k # i /\ runs[k] = 0 /\ runs[i] = 0
      BY <1>3, <2>1, <2>2
    <3>2. life'[k] = "done" /\ life'[i] = "live" /\ life' \in [Items -> {"none", "live", "done", "withdrawn"}]
      BY <1>2, <1>4, <3>1
    <3>3. \A j \in Items : j # i /\ j # k => life'[j] = life[j]
      BY <1>2, <1>4
    <3>4. runs'[k] = 1 /\ runs'[i] = 0 /\ runs' \in [Items -> Nat]
      BY <1>2, <1>4, <3>1
    <3>5. \A j \in Items : j # i /\ j # k => runs'[j] = runs[j]
      BY <1>2, <1>4
    <3>. QED BY <3>2, <3>3, <3>4, <3>5
  <2>4. /\ calls' \in Seq(Frames) /\ StackInv' /\ (Len(calls) >= 2 => calls'[2] = calls[2])
        /\ \A a, j : Has(a, j)' <=> (Has(a, j) \/ (a = "set" /\ j = i) \/ (a = "callback" /\ j = k))
    <3>1. Top.at # "instance" /\ "set" \in OnceAt /\ phase' = phase
      BY <1>1, UserTop DEF OnceAt
    <3>2. CallOver(k, Append(calls, Frame("set", i))) /\ ~ Has("set", i) /\ k \in Items
      BY <1>3, <1>4, <2>1
    <3>. QED BY <3>1, <3>2, CallTwice
  <2>5. EndInv'
    BY <1>1, <2>4, UserTop, EndKept
  <2>6. Types' /\ OneInstance'
    BY <1>1, <1>2, <1>4, <2>3, <2>4 DEF Inv, Types, OneInstance
  <2>7. \A j \in Items : j # i /\ j # k => Same(j)
    <3>1. \A j \in Items : j # i /\ j # k => \A a : Has(a, j)' <=> Has(a, j)
      BY <2>4
    <3>. QED BY <1>1, <1>2, <1>4, <2>2, <2>3, <3>1 DEF Same
  <2>8. ItemOK(i)'
    <3>1. Has("set", i)' /\ ~ Has("free", i)' /\ ~ Has("let go", i)' /\ ~ Has("finalized", i)' /\ ~ Has("callback", i)'
      BY <1>3, <2>1, <2>4
    <3>. QED BY <1>1, <1>2, <1>3, <1>4, <2>3, <3>1 DEF ItemOK, Listed, Hinted, Buffered, Valued
  <2>9. ItemOK(k)'
    <3>1. /\ ~ Has("set", k) /\ ~ Has("free", k) /\ ~ Has("let go", k) /\ ~ Has("finalized", k)
          /\ k \notin hooks \cup pending /\ hint[k] = "none" /\ k \notin invoked \cup released
          /\ holder[k] = "none" /\ destroys[k] = 0
      BY <2>1, <2>2 DEF ItemOK, Listed, Hinted, Buffered, Valued
    <3>2. ~ Has("set", k)' /\ ~ Has("free", k)' /\ ~ Has("let go", k)' /\ ~ Has("finalized", k)'
      <4>1. \A a : a # "callback" => (Has(a, k)' <=> Has(a, k))
        BY <2>1, <2>4
      <4>. QED BY <3>1, <4>1
    <3>3. kind'[k] = "instance" /\ k \notin instance'
      BY <1>2, <1>4, <2>1, <2>2
    <3>. QED BY <1>1, <2>3, <3>1, <3>2, <3>3 DEF ItemOK, Listed, Hinted, Buffered, Valued
  <2>10. ItemInv'
    <3>1. \A j \in Items : ItemOK(j)'
      BY <2>7, <2>8, <2>9, SameKeeps DEF Inv, ItemInv
    <3>. QED BY <3>1 DEF ItemInv
  <2>. QED BY <2>4, <2>5, <2>6, <2>10 DEF Inv
<1>5. ASSUME life' = [j \in Items |-> IF j = i THEN "live" ELSE IF j \in Unfinalized THEN "withdrawn" ELSE life[j]],
             instance' = {i}, UNCHANGED <<runs, calls>>
      PROVE  Inv'
  <2>1. calls' \in Seq(Frames) /\ StackInv' /\ \A a, j : Has(a, j)' <=> Has(a, j)
    BY <1>1, <1>5, StackKept
  <2>2. EndInv'
    BY <1>1, <1>5, UserTop, EndKept
  <2>3. /\ life'[i] = "live" /\ (\A j \in instance : life'[j] = "withdrawn")
        /\ \A j \in Items : j # i /\ j \notin instance => life'[j] = life[j]
        /\ life' \in [Items -> {"none", "live", "done", "withdrawn"}]
    BY <1>2, <1>3, <1>5, UnfinalizedAll
  <2>4. Types' /\ OneInstance'
    BY <1>1, <1>2, <1>5, <2>1, <2>3 DEF Inv, Types, OneInstance
  <2>5. \A j \in Items : j # i /\ j \notin instance => Same(j)
    BY <1>1, <1>2, <1>5, <2>1, <2>3 DEF Same
  <2>6. ItemOK(i)'
    BY <1>1, <1>2, <1>3, <1>5, <2>1, <2>3 DEF ItemOK, Listed, Hinted, Buffered, Valued
  <2>7. ASSUME NEW k \in instance PROVE ItemOK(k)'
    <3>1. k \in Items /\ ItemOK(k) /\ k # i
      BY <1>3, UnfinalizedAll DEF Inv, ItemInv
    <3>2. kind[k] = "instance" /\ life[k] = "live"
      BY <3>1 DEF ItemOK, Listed
    <3>3. kind'[k] = "instance" /\ k \notin instance' /\ life'[k] = "withdrawn"
      BY <1>2, <1>5, <2>3, <3>1, <3>2
    <3>. QED BY <1>1, <1>5, <2>1, <3>1, <3>2, <3>3 DEF ItemOK, Listed, Hinted, Buffered, Valued
  <2>8. ItemInv'
    <3>1. \A j \in Items : ItemOK(j)'
      BY <2>5, <2>6, <2>7, SameKeeps DEF Inv, ItemInv
    <3>. QED BY <3>1 DEF ItemInv
  <2>. QED BY <2>1, <2>2, <2>4, <2>8 DEF Inv
<1>. QED BY <1>4, <1>5 DEF SetInstanceData

(* The new instance data is set once the old is finalized: what a nested call
   set meanwhile is withdrawn. *)
LEMMA InstanceDataSetKeeps ==
  ASSUME Inv, InstanceDataSet
  PROVE  Inv'
<1>. PICK t : t = Top
  OBVIOUS
<1>. PICK i : i = t.item
  OBVIOUS
<1>1. /\ UNCHANGED <<phase, kind, runs, hooks, pending, invoked, released, holder, buffers, hint, destroys>>
      /\ t.at = "set" /\ calls' = Front(calls) /\ instance' = {i}
      /\ life' = [j \in Items |-> IF j \in Unfinalized THEN "withdrawn" ELSE life[j]]
  BY DEF InstanceDataSet, At, hintVars
<1>2. /\ calls' \in Seq(Frames) /\ StackInv' /\ EndInv' /\ i \in Items /\ Has("set", i) /\ ~ Has("set", i)'
      /\ \A a, j : Has(a, j)' => Has(a, j)
      /\ \A a, j : Has(a, j) => Has(a, j)' \/ (a = "set" /\ j = i)
  BY <1>1, Comeback DEF ItemAt, OnceAt
<1>3. ItemOK(i) /\ kind[i] = "instance" /\ life[i] = "live" /\ i \notin instance
  BY <1>2 DEF Inv, ItemInv, ItemOK, Listed
<1>4. /\ \A j \in instance : life'[j] = "withdrawn"
      /\ \A j \in Items : j \notin instance => life'[j] = life[j]
      /\ life' \in [Items -> {"none", "live", "done", "withdrawn"}]
  <2>1. life \in [Items -> {"none", "live", "done", "withdrawn"}]
    BY DEF Inv, Types
  <2>. QED BY <1>1, <2>1, UnfinalizedAll
<1>5. Types' /\ OneInstance'
  BY <1>1, <1>2, <1>4 DEF Inv, Types, OneInstance
<1>6. \A j \in Items : j # i /\ j \notin instance => Same(j)
  BY <1>1, <1>2, <1>4 DEF Same
<1>7. ItemOK(i)'
  <2>1. life'[i] = "live" /\ i \in instance'
    BY <1>1, <1>2, <1>3, <1>4
  <2>. QED BY <1>1, <1>2, <1>3, <2>1 DEF ItemOK, Listed, Hinted, Buffered, Valued
<1>8. ASSUME NEW k \in instance PROVE ItemOK(k)'
  <2>1. k \in Items /\ ItemOK(k) /\ k # i
    BY <1>3, UnfinalizedAll DEF Inv, ItemInv
  <2>2. kind[k] = "instance" /\ life[k] = "live" /\ ~ Has("set", k)
    BY <2>1 DEF ItemOK, Listed
  <2>3. k \notin instance' /\ life'[k] = "withdrawn"
    BY <1>1, <1>4, <2>1
  <2>. QED BY <1>1, <1>2, <2>1, <2>2, <2>3 DEF ItemOK, Listed, Hinted, Buffered, Valued
<1>9. ItemInv'
  <2>1. \A j \in Items : ItemOK(j)'
    BY <1>6, <1>7, <1>8, SameKeeps DEF Inv, ItemInv
  <2>. QED BY <2>1 DEF ItemInv
<1>. QED BY <1>2, <1>5, <1>9 DEF Inv

-----------------------------------------------------------------------------
(* The steps of prepare_teardown.                                          *)

(* Where the release stands when it takes a step. *)
LEMMA PassTop ==
  ASSUME Inv, Top.at \in PassAt
  PROVE  /\ phase = "releasing" /\ calls \in Seq(Frames) /\ StackOK(calls, "releasing")
         /\ calls[Len(calls)].at \in PassAt /\ Len(calls) = 2 /\ calls[2].at = Top.at
         /\ \A a \in ItemAt : \A j : ~ Has(a, j)
<1>1. calls \in Seq(Frames) /\ StackOK(calls, phase) /\ calls[Len(calls)] = Top
  BY StackTop DEF Inv, StackInv
<1>2. /\ phase = "releasing" /\ Len(calls) = 2 /\ calls[2].at = calls[Len(calls)].at
      /\ \A a \in ItemAt : \A j : ~ On(calls, a, j)
  BY <1>1, PassAlone
<1>. QED BY <1>1, <1>2 DEF Has

(* The release goes on at b. *)
LEMMA PassGoes ==
  ASSUME Inv, Top.at \in PassAt, NEW b \in PassAt, Goto(Frame(b, 0)), phase' = phase
  PROVE  /\ calls' \in Seq(Frames) /\ StackInv' /\ calls'[2].at = b
         /\ \A a \in ItemAt : \A j : Has(a, j)' <=> Has(a, j)
<1>1. /\ calls' \in Seq(Frames) /\ StackOK(calls', "releasing") /\ calls'[2] = Frame(b, 0)
      /\ \A a \in ItemAt : \A j : ~ On(calls', a, j)
  BY PassTop, StackTurn DEF Goto
<1>2. calls'[2].at = b
  BY <1>1, FrameParts
<1>. QED BY <1>1, <1>2, PassTop DEF StackInv, Has

(* The release calls an item's callback, from where it goes on at b. *)
LEMMA PassCalls ==
  ASSUME Inv, Top.at \in PassAt, NEW b \in PassAt, b # "instance", phase' = phase, NEW i \in Items,
         \/ CallOver(i, Append(Front(calls), Frame(b, 0)))
         \/ CallOver(i, calls) /\ Top.at = b
  PROVE  /\ calls' \in Seq(Frames) /\ StackInv' /\ calls'[2].at = b
         /\ \A a \in ItemAt : \A j : Has(a, j)' <=> (Has(a, j) \/ (a = "callback" /\ j = i))
<1>0. "callback" \in ItemAt /\ "callback" \notin OnceAt
  BY DEF ItemAt, OnceAt, CleanAt
<1>1. PICK c \in Seq(Frames) : /\ StackOK(c, "releasing") /\ Len(c) = 2 /\ c[2].at = b /\ c[Len(c)].at = b
                              /\ (\A a \in ItemAt : \A j : ~ On(c, a, j)) /\ CallOver(i, c)
  <2>1. CASE CallOver(i, Append(Front(calls), Frame(b, 0)))
    <3>. DEFINE c == Append(Front(calls), Frame(b, 0))
    <3>1. /\ c \in Seq(Frames) /\ StackOK(c, "releasing") /\ Len(c) = 2 /\ c[2] = Frame(b, 0)
          /\ c[Len(c)] = Frame(b, 0) /\ \A a \in ItemAt : \A j : ~ On(c, a, j)
      BY PassTop, StackTurn
    <3>2. c[2].at = b /\ c[Len(c)].at = b /\ CallOver(i, c)
      BY <2>1, <3>1, FrameParts
    <3>. HIDE DEF c
    <3>. QED BY <3>1, <3>2
  <2>2. CASE CallOver(i, calls) /\ Top.at = b
    <3>1. \A a \in ItemAt : \A j : ~ On(calls, a, j)
      BY PassTop DEF Has
    <3>2. calls[Len(calls)].at = b
      BY <2>2, StackTop
    <3>. QED BY <2>2, <3>1, <3>2, PassTop
  <2>. QED BY <2>1, <2>2
<1>2. calls' = Append(c, Frame("callback", i)) /\ Len(c) >= 2
  BY <1>1 DEF CallOver
<1>3. /\ calls' \in Seq(Frames) /\ StackOK(calls', "releasing") /\ calls'[2] = c[2]
      /\ \A a, j : On(calls', a, j) <=> (On(c, a, j) \/ (a = "callback" /\ j = i))
  BY <1>0, <1>1, <1>2, StackPush
<1>. QED BY <1>1, <1>3, PassTop DEF StackInv, Has

(* Cleanup hooks, the most recent first. *)
LEMMA RunHookKeeps ==
  ASSUME Inv, RunHook
  PROVE  Inv'
<1>1. /\ UNCHANGED <<phase, kind, pending, invoked, released, holder, buffers, hint, destroys, instance>>
      /\ Top.at = "hooks" /\ Top.at \in PassAt /\ phase = "releasing" /\ OneInstance'
  BY PassTop DEF RunHook, At, PassAt, hintVars, Inv, OneInstance
<1>2. CASE hooks = {}
  <2>. PICK b : b = IF pending = {} THEN "instance" ELSE "values"
    OBVIOUS
  <2>1. Goto(Frame(b, 0)) /\ UNCHANGED <<life, runs, hooks>> /\ b \in PassAt
    BY <1>2 DEF RunHook, PassAt
  <2>2. /\ calls' \in Seq(Frames) /\ StackInv' /\ calls'[2].at = b
        /\ \A a \in ItemAt : \A j : Has(a, j)' <=> Has(a, j)
    BY <1>1, <2>1, PassGoes
  <2>3. EndInv'
    BY <1>1, <1>2, <2>1, <2>2 DEF EndInv
  <2>4. Types'
    BY <1>1, <2>1, <2>2 DEF Inv, Types
  <2>5. \A j \in Items : Same(j)
    BY <1>1, <2>1, <2>2 DEF Same, ItemAt
  <2>. QED BY <1>1, <2>2, <2>3, <2>4, <2>5, SameKeeps DEF Inv, ItemInv
<1>3. CASE hooks # {}
  <2>. PICK i : i = Max(hooks)
    OBVIOUS
  <2>1. hooks' = hooks \ {i} /\ Ran(i) /\ CallOver(i, calls)
    BY <1>3 DEF RunHook
  <2>2. i \in hooks /\ i \in Items
    <3>1. hooks \in SUBSET (0..N) /\ N \in Nat /\ hooks \subseteq Items
      BY NAssumption DEF Inv, Types, Items
    <3>. QED BY <1>3, <3>1, MaxNat
  <2>3. ItemOK(i) /\ kind[i] = "hook" /\ life[i] = "live"
    BY <2>2 DEF Inv, ItemInv, ItemOK, Listed
  <2>4. /\ calls' \in Seq(Frames) /\ StackInv' /\ calls'[2].at = "hooks"
        /\ \A a \in ItemAt : \A j : Has(a, j)' <=> (Has(a, j) \/ (a = "callback" /\ j = i))
    BY <1>1, <2>1, <2>2, PassCalls
  <2>5. EndInv'
    BY <1>1, <2>4 DEF EndInv
  <2>6. Types'
    BY <1>1, <2>1, <2>2, <2>3, <2>4, RanOne DEF Inv, Types
  <2>7. \A j \in Items : \A a \in OnceAt : Has(a, j)' <=> Has(a, j)
    BY <2>4 DEF ItemAt, OnceAt, CleanAt
  <2>8. \A j \in Items : j # i => Same(j)
    BY <1>1, <2>1, <2>2, <2>3, <2>4, <2>7, RanOne DEF Same, ItemAt
  <2>9. ItemOK(i)'
    <3>1. life'[i] = "done" /\ runs'[i] = 1 /\ i \notin hooks'
      BY <2>1, <2>2, <2>3, RanOne
    <3>2. /\ Has("set", i)' <=> Has("set", i)
          /\ Has("free", i)' <=> Has("free", i)
          /\ Has("let go", i)' <=> Has("let go", i)
          /\ Has("finalized", i)' <=> Has("finalized", i)
      <4>1. {"set", "free", "let go", "finalized"} \subseteq OnceAt
        BY DEF OnceAt, CleanAt
      <4>. QED BY <2>2, <2>7, <4>1
    <3>. QED BY <1>1, <2>3, <3>1, <3>2 DEF ItemOK, Listed, Hinted, Buffered, Valued
  <2>. QED BY <1>1, <2>2, <2>4, <2>5, <2>6, <2>8, <2>9, ItemStep
<1>. QED BY <1>2, <1>3

(* Values, the most recent first: a buffer still there is detached, then the
   finalizer runs over the frame that destroys the hint, if there is one. *)
LEMMA FinalizeValueKeeps ==
  ASSUME Inv, FinalizeValue
  PROVE  Inv'
<1>1. /\ UNCHANGED <<phase, kind, hooks, instance, hint, destroys>>
      /\ Top.at = "values" /\ Top.at \in PassAt /\ Top.at # "instance" /\ phase = "releasing" /\ OneInstance'
  BY PassTop DEF FinalizeValue, At, PassAt, Inv, OneInstance
<1>2. CASE pending = {}
  <2>1. Goto(Frame("hooks", 0)) /\ UNCHANGED <<life, runs, pending, invoked, released, holder, buffers>>
    BY <1>2 DEF FinalizeValue
  <2>2. /\ calls' \in Seq(Frames) /\ StackInv' /\ calls'[2].at = "hooks"
        /\ \A a \in ItemAt : \A j : Has(a, j)' <=> Has(a, j)
    BY <1>1, <2>1, PassGoes DEF PassAt
  <2>3. EndInv'
    BY <1>1, <2>2 DEF EndInv
  <2>4. Types'
    BY <1>1, <2>1, <2>2 DEF Inv, Types
  <2>5. \A j \in Items : Same(j)
    BY <1>1, <2>1, <2>2 DEF Same, ItemAt
  <2>. QED BY <1>1, <2>2, <2>3, <2>4, <2>5, SameKeeps DEF Inv, ItemInv
<1>3. CASE pending # {}
  <2>. PICK i : i = Max(pending)
    OBVIOUS
  <2>. DEFINE detach == i \in buffers /\ holder[i] = "buffer"
  <2>1. /\ released' = IF detach THEN released \cup {i} ELSE released
        /\ holder' = IF detach THEN [holder EXCEPT ![i] = "none"] ELSE holder
        /\ InvokeOver(i, IF i \in released' THEN Append(calls, Frame("finalized", i)) ELSE calls)
    BY <1>3 DEF FinalizeValue
  <2>2. i \in pending /\ i \in Items
    <3>1. pending \in SUBSET (0..N) /\ N \in Nat /\ pending \subseteq Items
      BY NAssumption DEF Inv, Types, Items
    <3>. QED BY <1>3, <3>1, MaxNat
  <2>3. /\ ItemOK(i) /\ Valued(i) /\ life[i] = "live" /\ hint[i] = "made" /\ i \notin invoked
        /\ ~ Has("finalized", i) /\ ~ Has("set", i) /\ ~ Has("free", i) /\ ~ Has("let go", i)
    BY <2>2 DEF Inv, ItemInv, ItemOK, Listed, Hinted, Valued
  <2>4. /\ i \in released' => kind[i] = "store" /\ holder'[i] = "none"
        /\ i \notin released' => holder'[i] = holder[i] /\ holder[i] # "buffer"
        /\ \A j \in Items : j # i => holder'[j] = holder[j] /\ (j \in released' <=> j \in released)
        /\ holder' \in [Items -> {"none", "buffer", "moved", "astray"}] /\ released' \subseteq Items
    <3>1. holder \in [Items -> {"none", "buffer", "moved", "astray"}] /\ released \subseteq Items
      BY DEF Inv, Types
    <3>2. /\ i \in released => kind[i] = "store" /\ holder[i] = "none"
          /\ holder[i] = "buffer" => i \in buffers /\ kind[i] = "store"
      BY <2>2, <2>3 DEF ItemOK, Hinted, Buffered
    <3>3. CASE detach
      BY <2>1, <2>2, <3>1, <3>2, <3>3
    <3>4. CASE ~ detach
      BY <2>1, <2>2, <3>1, <3>2, <3>4
    <3>. QED BY <3>3, <3>4
  <2>5. /\ life'[i] = "done" /\ runs'[i] = 1
        /\ \A j \in Items : j # i => life'[j] = life[j] /\ runs'[j] = runs[j]
        /\ life' \in [Items -> {"none", "live", "done", "withdrawn"}] /\ runs' \in [Items -> Nat]
        /\ invoked' = invoked \cup {i} /\ pending' = pending \ {i} /\ buffers' = buffers \ {i}
    BY <2>1, <2>2, <2>3, RanOne DEF InvokeOver
  <2>6. /\ calls' \in Seq(Frames) /\ StackInv' /\ calls'[2].at = "values"
        /\ \A a \in OnceAt : \A j \in Items :
              Has(a, j)' <=> (Has(a, j) \/ (a = "finalized" /\ j = i /\ i \in released'))
        /\ \A j \in Items : j # i => (Has("callback", j)' <=> Has("callback", j))
    <3>1. CASE i \in released'
      <4>1. InvokeOver(i, Append(calls, Frame("finalized", i))) /\ "finalized" \in OnceAt
        BY <2>1, <3>1 DEF OnceAt, CleanAt
      <4>2. InvokedAt("finalized", i)
        BY <1>1, <2>2, <2>3, <4>1, Invoked
      <4>3. Len(calls) = 2 /\ calls[2].at = "values"
        BY <1>1, PassTop
      <4>4. Len(calls) >= 2
        BY <4>3
      <4>. QED BY <3>1, <4>2, <4>3, <4>4 DEF InvokedAt
    <3>2. CASE i \notin released'
      <4>1. CallOver(i, calls)
        BY <2>1, <2>3, <3>2 DEF InvokeOver
      <4>2. /\ calls' \in Seq(Frames) /\ StackInv' /\ calls'[2].at = "values"
            /\ \A a \in ItemAt : \A j : Has(a, j)' <=> (Has(a, j) \/ (a = "callback" /\ j = i))
        BY <1>1, <2>2, <4>1, PassCalls
      <4>3. "callback" \in ItemAt /\ "callback" \notin OnceAt /\ OnceAt \subseteq ItemAt
        BY DEF ItemAt, OnceAt, CleanAt
      <4>. QED BY <3>2, <4>2, <4>3
    <3>. QED BY <3>1, <3>2
  <2>. HIDE DEF detach
  <2>7. EndInv'
    BY <1>1, <2>6 DEF EndInv
  <2>8. Types'
    BY <1>1, <2>2, <2>4, <2>5, <2>6 DEF Inv, Types
  <2>9. \A j \in Items : j # i => Same(j)
    BY <1>1, <2>4, <2>5, <2>6 DEF Same
  <2>10. ItemOK(i)'
    <3>1. /\ ~ Has("set", i)' /\ ~ Has("free", i)' /\ ~ Has("let go", i)'
          /\ Has("finalized", i)' <=> i \in released'
      <4>1. {"set", "free", "let go", "finalized"} \subseteq OnceAt
        BY DEF OnceAt, CleanAt
      <4>2. \A a \in OnceAt : Has(a, i)' <=> (Has(a, i) \/ (a = "finalized" /\ i \in released'))
        BY <2>2, <2>6
      <4>. QED BY <2>3, <4>1, <4>2
    <3>2. i \in invoked' /\ i \notin pending'
      BY <2>5
    <3>. QED BY <1>1, <2>3, <2>4, <2>5, <3>1, <3>2 DEF ItemOK, Listed, Hinted, Buffered, Valued
  <2>. QED BY <1>1, <2>2, <2>6, <2>7, <2>8, <2>9, <2>10, ItemStep
<1>. QED BY <1>2, <1>3

(* The instance data last, and the env closes when there is none. *)
LEMMA FinalizeInstanceKeeps ==
  ASSUME Inv, FinalizeInstance
  PROVE  Inv'
<1>1. /\ UNCHANGED <<kind, pending, invoked, released, holder, buffers, hint, destroys, hooks>>
      /\ Top.at = "instance" /\ Top.at \in PassAt /\ phase = "releasing"
      /\ calls \in Seq(Frames) /\ StackOK(calls, "releasing") /\ calls[Len(calls)].at \in PassAt
      /\ calls[2].at = "instance" /\ \A a \in ItemAt : \A j : ~ Has(a, j)
  BY PassTop DEF FinalizeInstance, At, PassAt, hintVars
<1>2. CASE instance = {}
  <2>1. phase' = "closed" /\ calls' = Front(calls) /\ UNCHANGED <<life, runs, instance>>
    BY <1>2 DEF FinalizeInstance
  <2>2. /\ calls' \in Seq(Frames) /\ StackOK(calls', "closed")
        /\ \A a \in ItemAt : \A j : ~ On(calls', a, j)
    BY <1>1, <2>1, StackLeave
  <2>3. StackInv' /\ \A a \in ItemAt : \A j : Has(a, j)' <=> Has(a, j)
    BY <1>1, <2>1, <2>2 DEF StackInv, Has
  <2>4. EndInv'
    BY <1>1, <1>2, <2>1 DEF Inv, EndInv
  <2>5. Types' /\ OneInstance'
    BY <1>1, <1>2, <2>1, <2>2 DEF Inv, Types, OneInstance
  <2>6. \A j \in Items : Same(j)
    BY <1>1, <2>1, <2>3 DEF Same, ItemAt
  <2>. QED BY <2>3, <2>4, <2>5, <2>6, SameKeeps DEF Inv, ItemInv
<1>3. CASE instance # {}
  <2>1. PICK i \in instance :
          /\ instance' = {} /\ Ran(i) /\ CallOver(i, Append(Front(calls), Frame("hooks", 0)))
          /\ UNCHANGED phase
    BY <1>3 DEF FinalizeInstance
  <2>2. i \in Items /\ instance = {i}
    BY DEF Inv, Types, OneInstance
  <2>3. ItemOK(i) /\ kind[i] = "instance" /\ life[i] = "live"
    BY <2>2 DEF Inv, ItemInv, ItemOK, Listed
  <2>4. /\ calls' \in Seq(Frames) /\ StackInv' /\ calls'[2].at = "hooks"
        /\ \A a \in ItemAt : \A j : Has(a, j)' <=> (Has(a, j) \/ (a = "callback" /\ j = i))
    BY <1>1, <2>1, <2>2, PassCalls DEF PassAt
  <2>5. EndInv'
    BY <1>1, <2>1, <2>4 DEF EndInv
  <2>6. Types' /\ OneInstance'
    BY <1>1, <2>1, <2>2, <2>3, <2>4, RanOne DEF Inv, Types, OneInstance
  <2>7. \A j \in Items : \A a \in OnceAt : Has(a, j)' <=> Has(a, j)
    BY <2>4 DEF ItemAt, OnceAt, CleanAt
  <2>8. \A j \in Items : j # i => Same(j)
    BY <1>1, <2>1, <2>2, <2>3, <2>4, <2>7, RanOne DEF Same, ItemAt
  <2>9. ItemOK(i)'
    <3>1. life'[i] = "done" /\ runs'[i] = 1 /\ i \notin instance'
      BY <2>1, <2>2, <2>3, RanOne
    <3>2. ~ Has("set", i)' /\ ~ Has("free", i)' /\ ~ Has("let go", i)' /\ ~ Has("finalized", i)'
      <4>1. {"set", "free", "let go", "finalized"} \subseteq OnceAt /\ OnceAt \subseteq ItemAt
        BY DEF OnceAt, CleanAt, ItemAt
      <4>. QED BY <1>1, <2>2, <2>7, <4>1
    <3>. QED BY <1>1, <2>3, <3>1, <3>2 DEF ItemOK, Listed, Hinted, Buffered, Valued
  <2>. QED BY <2>2, <2>4, <2>5, <2>6, <2>8, <2>9, ItemStep
<1>. QED BY <1>2, <1>3

(* What is left goes with the engine instance, unfinalized. *)
LEMMA FreeRuntimeKeeps ==
  ASSUME Inv, NEW i \in Items, FreeRuntime(i)
  PROVE  Inv'
<1>1. /\ UNCHANGED <<phase, kind, life, runs, pending, hooks, instance, calls>>
      /\ phase = "closed" /\ hint[i] = "made" /\ Destroyed(i) /\ holder' = [holder EXCEPT ![i] = "none"]
      /\ released' = released \cup {i} /\ invoked' = invoked \cup {i} /\ buffers' = buffers \ {i}
  BY DEF FreeRuntime, item
<1>2. calls' \in Seq(Frames) /\ StackInv' /\ \A a, j : Has(a, j)' <=> Has(a, j)
  BY <1>1, StackKept
<1>3. EndInv' /\ OneInstance' /\ i \notin pending
  BY <1>1 DEF Inv, EndInv, OneInstance
<1>4. Types'
  BY <1>1, <1>2, DestroyedOne DEF Inv, Types
<1>5. \A j \in Items : j # i => Same(j)
  BY <1>1, <1>2, DestroyedOne DEF Inv, Types, Same
<1>6. ItemOK(i)'
  <2>1. ItemOK(i) /\ hint'[i] = "destroyed" /\ destroys'[i] = 1 /\ holder'[i] = "none"
    BY <1>1, DestroyedOne DEF Inv, Types, ItemInv
  <2>2. ~ Has("free", i)' /\ ~ Has("let go", i)' /\ ~ Has("finalized", i)'
    <3>1. Len(calls) < 2 /\ Len(calls) \in Nat /\ calls[1].at = "user"
      BY <1>1, StackTop DEF Inv, StackInv, StackOK
    <3>2. \A n \in 1..Len(calls) : n = 1
      BY <3>1
    <3>3. \A a : Has(a, i) => a = "user"
      BY <3>1, <3>2, FrameParts DEF Has, On
    <3>. QED BY <1>2, <3>3
  <2>. QED BY <1>1, <1>2, <1>3, <2>1, <2>2 DEF ItemOK, Listed, Hinted, Buffered, Valued
<1>. QED BY <1>2, <1>3, <1>4, <1>5, <1>6, ItemStep

-----------------------------------------------------------------------------
(* The theorems.                                                           *)

(* The invariant holds of an env just made. *)
LEMMA InitInv == Init => Inv
<1>. SUFFICES ASSUME Init PROVE Inv
  OBVIOUS
<1>1. calls = <<Frame("user", 0)>> /\ Frame("user", 0) \in Frames
  BY FrameParts DEF Init
<1>2. calls \in Seq(Frames) /\ Len(calls) = 1 /\ calls[1] = Frame("user", 0)
  BY <1>1
<1>3. calls[1].at = "user" /\ calls[1].item = 0 /\ \A n \in 1..Len(calls) : n = 1
  BY <1>2, FrameParts
<1>4. "user" \notin ItemAt \cup PassAt /\ OnceAt \subseteq ItemAt
  BY DEF ItemAt, OnceAt, CleanAt, PassAt
<1>5. \A a \in ItemAt : \A j : ~ Has(a, j)
  BY <1>3, <1>4, FrameParts DEF Has, On
<1>6. Types /\ OneInstance /\ EndInv
  BY <1>2 DEF Init, Types, OneInstance, EndInv
<1>7. StackInv
  BY <1>2, <1>3, <1>4 DEF Init, StackInv, StackOK
<1>8. ASSUME NEW i \in Items PROVE ItemOK(i)
  <2>1. ~ Has("set", i) /\ ~ Has("free", i) /\ ~ Has("let go", i) /\ ~ Has("finalized", i) /\ ~ Has("callback", i)
    BY <1>5 DEF ItemAt, OnceAt, CleanAt
  <2>. QED BY <2>1 DEF Init, ItemOK, Listed, Hinted, Buffered, Valued
<1>. QED BY <1>6, <1>7, <1>8 DEF Inv, ItemInv

(* Every step keeps the invariant. *)
LEMMA NextInv == Inv /\ [Next]_vars => Inv'
<1>. SUFFICES ASSUME Inv, [Next]_vars PROVE Inv'
  OBVIOUS
<1>1. CASE UNCHANGED vars
  <2>1. UNCHANGED <<phase, kind, life, runs, pending, invoked, released, holder, buffers, hint, destroys,
                    hooks, instance, calls>>
    BY <1>1 DEF vars, item, hintVars
  <2>2. calls' \in Seq(Frames) /\ StackInv' /\ \A a, j : Has(a, j)' <=> Has(a, j)
    BY <2>1, StackKept
  <2>3. \A j \in Items : Same(j)
    BY <2>1, <2>2 DEF Same
  <2>4. Types' /\ OneInstance' /\ EndInv'
    BY <2>1 DEF Inv, Types, OneInstance, EndInv
  <2>. QED BY <2>2, <2>3, <2>4, SameKeeps DEF Inv, ItemInv
<1>2. ASSUME phase # "closed", NEW i \in Items, NEW k \in Kinds, Make(i, k) PROVE Inv'
  BY <1>2, MakeKeeps
<1>3. ASSUME phase # "closed", NEW i \in Items, SetInstanceData(i) PROVE Inv'
  BY <1>3, SetInstanceDataKeeps
<1>4. ASSUME phase # "closed", NEW i \in Items, RemoveHook(i) PROVE Inv'
  BY <1>4, RemoveHookKeeps
<1>5. ASSUME phase # "closed", NEW i \in Items, RemoveWrap(i) PROVE Inv'
  BY <1>5, RemoveWrapKeeps
<1>6. ASSUME phase # "closed", NEW i \in Items, FreeValue(i) PROVE Inv'
  BY <1>6, FreeValueKeeps
<1>7. ASSUME phase # "closed", NEW i \in Items, Transfer(i) PROVE Inv'
  BY <1>7, TransferKeeps
<1>8. ASSUME phase # "closed", NEW i \in Items, FreeEmptyBuffer(i) PROVE Inv'
  BY <1>8, FreeEmptyBufferKeeps
<1>9. ASSUME phase # "closed", NEW i \in Items, LetGo(i) PROVE Inv'
  BY <1>9, LetGoKeeps
<1>10. CASE Release
  BY <1>10, ReleaseKeeps
<1>11. CASE Resume
  BY <1>11, ReturnKeeps, InstanceDataSetKeeps, DestroyKeeps DEF Resume
<1>12. CASE ReleaseStep
  BY <1>12, RunHookKeeps, FinalizeValueKeeps, FinalizeInstanceKeeps DEF ReleaseStep
<1>13. ASSUME NEW i \in Items, FreeRuntime(i) PROVE Inv'
  BY <1>13, FreeRuntimeKeeps
<1>. QED BY <1>1, <1>2, <1>3, <1>4, <1>5, <1>6, <1>7, <1>8, <1>9, <1>10, <1>11, <1>12, <1>13
         DEF Next, UserStep

(* The finalizers of the QuickJS provider keep the invariant: where the thread
   stands, which list and which frame answers for an item, who holds its
   memory. *)
THEOREM FinalizersInvariant == Spec => []Inv
<1>. QED BY InitInv, NextInv, PTL DEF Spec

(* A hint (napi_external_backing_store_hint__) is destroyed once; after that no
   frame or list refers to it, nor a buffer, but one its own finalizer made by
   a transfer of the buffer being let go of; and a hint that no buffer refers to
   is not leaked: however freed values, buffers let go of, transfers and the
   teardown nest. *)
THEOREM HintOwnership == Spec => []HintsOwnedOnce
<1>1. Inv => HintsOwnedOnce
  <2>. SUFFICES ASSUME Inv, NEW i \in Items
                PROVE  /\ destroys[i] <= 1
                       /\ hint[i] = "destroyed" =>
                            /\ i \notin pending /\ holder[i] \in {"none", "astray"}
                            /\ \A n \in 1..Len(calls) :
                                 calls[n] \notin {Frame("free", i), Frame("let go", i), Frame("finalized", i)}
                       /\ i \in released =>
                            \/ hint[i] = "destroyed" \/ i \in pending
                            \/ \E n \in 1..Len(calls) : calls[n] \in {Frame("let go", i), Frame("finalized", i)}
                       /\ holder[i] = "astray" => i \in released /\ runs[i] = 1
    BY DEF HintsOwnedOnce
  <2>1. ItemOK(i)
    BY DEF Inv, ItemInv
  <2>2. destroys[i] <= 1
    <3>1. destroys[i] = 0 \/ destroys[i] = 1
      BY <2>1 DEF ItemOK, Hinted
    <3>. QED BY <3>1
  <2>3. hint[i] = "destroyed" => /\ i \notin pending /\ holder[i] \in {"none", "astray"}
                                 /\ ~ Has("free", i) /\ ~ Has("let go", i) /\ ~ Has("finalized", i)
    BY <2>1 DEF ItemOK, Hinted, Buffered
  <2>4. i \in released => hint[i] = "destroyed" \/ i \in pending \/ Has("let go", i) \/ Has("finalized", i)
    BY <2>1 DEF ItemOK, Hinted
  <2>5. \A a : Has(a, i) <=> \E n \in 1..Len(calls) : calls[n] = Frame(a, i)
    BY DEF Has, On
  <2>6. holder[i] = "astray" => i \in released /\ runs[i] = 1
    BY <2>1 DEF ItemOK, Listed, Buffered
  <2>. QED BY <2>2, <2>3, <2>4, <2>5, <2>6
<1>. QED BY <1>1, FinalizersInvariant, PTL

(* At the release the array buffer no longer holds the memory when the
   finalizer of its store runs, unless a transfer moved it:
   finalize_pending_values detaches it first. *)
THEOREM DetachBeforeFinalize == Spec => []DetachedFirst
<1>1. Inv => DetachedFirst
  <2>. SUFFICES ASSUME Inv, NEW i \in Items, At("callback"), Top.item = i, kind[i] = "store", holder[i] = "buffer"
                PROVE  i \in released
    BY DEF DetachedFirst
  <2>1. Has("callback", i)
    BY StackTop, FrameParts DEF At, Has, On
  <2>. QED BY <2>1 DEF Inv, ItemInv, ItemOK, Buffered
<1>. QED BY <1>1, FinalizersInvariant, PTL

-----------------------------------------------------------------------------
(* The contract, step by step.                                             *)

(* A live item that is called while it is its turn. *)
LEMMA ContractRuns ==
  ASSUME Inv, NEW i \in Items, life[i] = "live", phase # "closed", Ran(i), UNCHANGED <<phase, kind>>,
         phase = "releasing" /\ kind[i] = "store" => \A j \in pending : j <= i,
         phase = "releasing" /\ kind[i] = "instance" => \A j \in Items : life[j] = "live" <=> j = i
  PROVE  Contract!Run(i)
<1>1. life' = [life EXCEPT ![i] = "done"] /\ runs' = [runs EXCEPT ![i] = 1]
  <2>1. runs[i] = 0 /\ runs \in [Items -> Nat]
    BY DEF Inv, Types, ItemInv, ItemOK, Listed
  <2>. QED BY <2>1 DEF Ran
<1>2. phase = "releasing" => Contract!InTurn(i)
  <2>1. \A j \in Items : /\ life[j] = "live" => kind[j] \in Kinds
                         /\ life[j] = "live" /\ kind[j] = "store" => j \in pending
    BY DEF Inv, Types, ItemInv, ItemOK, Listed, Valued
  <2>. QED BY <2>1 DEF Contract!InTurn, Contract!Live
<1>. QED BY <1>1, <1>2 DEF Contract!Run

(* Invoking a hint's finalizer runs it, or does nothing the second time. *)
LEMMA ContractInvokes ==
  ASSUME Inv, NEW i \in Items, Valued(i), hint[i] = "made", phase # "closed", UNCHANGED <<phase, kind>>,
         NEW below, InvokeOver(i, below),
         phase = "releasing" /\ kind[i] = "store" /\ i \in pending => \A j \in pending : j <= i
  PROVE  Contract!Run(i) \/ UNCHANGED <<phase, kind, life, runs>>
<1>1. CASE i \in invoked
  BY <1>1 DEF InvokeOver
<1>2. CASE i \notin invoked
  <2>1. i \in pending /\ life[i] = "live" /\ kind[i] # "instance"
    BY <1>2 DEF Inv, ItemInv, ItemOK, Listed, Hinted, Valued
  <2>2. Ran(i)
    BY <1>2 DEF InvokeOver
  <2>. QED BY <2>1, <2>2, ContractRuns
<1>. QED BY <1>1, <1>2

(* What setting the instance data does. *)
LEMMA ContractSets ==
  ASSUME Inv, phase # "closed", NEW i \in Items, SetInstanceData(i)
  PROVE  Contract!Next
<1>1. /\ UNCHANGED phase /\ life[i] = "none" /\ "instance" \in Kinds /\ kind' = [kind EXCEPT ![i] = "instance"]
      /\ life \in [Items -> {"none", "live", "done", "withdrawn"}] /\ runs \in [Items -> Nat]
  BY DEF SetInstanceData, Inv, Types
<1>2. \A k \in instance : k \in Items /\ kind[k] = "instance" /\ life[k] = "live" /\ runs[k] = 0 /\ instance = {k}
  <2>1. \A k \in instance : k \in Items /\ ItemOK(k) /\ instance = {k}
    BY DEF Inv, Types, ItemInv, OneInstance
  <2>. QED BY <2>1 DEF ItemOK, Listed
<1>3. ASSUME NEW k \in Unfinalized, life' = [life EXCEPT ![i] = "live", ![k] = "done"],
             runs' = [runs EXCEPT ![k] = @ + 1]
      PROVE  Contract!Next
  <2>1. k \in Items /\ kind[k] = "instance" /\ life[k] = "live" /\ runs[k] = 0
    BY <1>2, UnfinalizedAll
  <2>2. runs' = [runs EXCEPT ![k] = IF "done" = "done" THEN 1 ELSE 0]
    BY <1>1, <1>3, <2>1
  <2>3. Contract!Replace(i, k)
    BY <1>1, <1>3, <2>1, <2>2 DEF Contract!Replace
  <2>4. \E j \in Items : Contract!Replace(i, j)
    BY <2>1, <2>3
  <2>. QED BY <2>4 DEF Contract!Next
<1>4. ASSUME life' = [j \in Items |-> IF j = i THEN "live" ELSE IF j \in Unfinalized THEN "withdrawn" ELSE life[j]],
             UNCHANGED runs
      PROVE  Contract!Next
  <2>1. CASE instance = {}
    <3>1. life' = [life EXCEPT ![i] = "live"]
      BY <1>1, <1>4, <2>1, UnfinalizedAll
    <3>2. Contract!Make(i, "instance")
      BY <1>1, <1>4, <3>1 DEF Contract!Make
    <3>. QED BY <1>1, <3>2 DEF Contract!Next
  <2>2. CASE instance # {}
    <3>1. PICK k \in instance : TRUE
      BY <2>2
    <3>2. k \in Items /\ kind[k] = "instance" /\ life[k] = "live" /\ runs[k] = 0 /\ Unfinalized = {k} /\ k # i
      BY <1>1, <1>2, UnfinalizedAll
    <3>3. life' = [life EXCEPT ![i] = "live", ![k] = "withdrawn"]
      BY <1>1, <1>4, <3>2
    <3>4. runs' = [runs EXCEPT ![k] = IF "withdrawn" = "done" THEN 1 ELSE 0]
      BY <1>1, <1>4, <3>2
    <3>5. Contract!Replace(i, k)
      BY <1>1, <3>2, <3>3, <3>4 DEF Contract!Replace
    <3>6. \E j \in Items : Contract!Replace(i, j)
      BY <3>2, <3>5
    <3>. QED BY <3>6 DEF Contract!Next
  <2>. QED BY <2>1, <2>2
<1>. QED BY <1>3, <1>4 DEF SetInstanceData

(* What the end of that call does. *)
LEMMA ContractSet ==
  ASSUME Inv, InstanceDataSet
  PROVE  Contract!Next \/ UNCHANGED <<phase, kind, life, runs>>
<1>1. /\ UNCHANGED <<phase, kind, runs>> /\ phase # "closed"
      /\ life' = [j \in Items |-> IF j \in Unfinalized THEN "withdrawn" ELSE life[j]]
      /\ life \in [Items -> {"none", "live", "done", "withdrawn"}]
  <2>1. Top.at \in ItemAt /\ calls' = Front(calls) /\ phase' = phase
    BY DEF InstanceDataSet, At, ItemAt, OnceAt
  <2>2. phase # "closed"
    BY <2>1, Comeback
  <2>. QED BY <2>2 DEF InstanceDataSet, Inv, Types
<1>2. CASE instance = {}
  <2>1. life' = life
    BY <1>1, <1>2, UnfinalizedAll
  <2>. QED BY <1>1, <2>1
<1>3. CASE instance # {}
  <2>1. PICK k \in instance : TRUE
    BY <1>3
  <2>2. k \in Items /\ life[k] = "live" /\ Unfinalized = {k}
    BY UnfinalizedAll DEF Inv, ItemInv, ItemOK, Listed, OneInstance
  <2>3. life' = [life EXCEPT ![k] = "withdrawn"]
    BY <1>1, <2>2
  <2>4. Contract!Withdraw(k)
    BY <1>1, <2>2, <2>3 DEF Contract!Withdraw
  <2>. QED BY <2>2, <2>4 DEF Contract!Next
<1>. QED BY <1>2, <1>3

(* What the rest of native code does. *)
LEMMA ContractUser ==
  ASSUME Inv, phase # "closed", UserStep
  PROVE  Contract!Next \/ UNCHANGED <<phase, kind, life, runs>>
<1>1. ASSUME NEW i \in Items, NEW k \in Kinds, Make(i, k) PROVE Contract!Make(i, k)
  BY <1>1 DEF Make, Contract!Make
<1>2. ASSUME NEW i \in Items, RemoveHook(i) PROVE Contract!Withdraw(i)
  <2>1. life[i] = "live"
    BY <1>2 DEF RemoveHook, Inv, ItemInv, ItemOK, Listed
  <2>. QED BY <1>2, <2>1 DEF RemoveHook, Contract!Withdraw
<1>3. ASSUME NEW i \in Items, RemoveWrap(i) PROVE Contract!Withdraw(i)
  <2>1. life[i] = "live"
    BY <1>3 DEF RemoveWrap, Inv, ItemInv, ItemOK, Listed, Hinted
  <2>. QED BY <1>3, <2>1 DEF RemoveWrap, Contract!Withdraw
<1>4. ASSUME NEW i \in Items, FreeValue(i) PROVE Contract!Run(i) \/ UNCHANGED <<phase, kind, life, runs>>
  <2>1. /\ kind[i] = "ref" /\ hint[i] = "made" /\ UNCHANGED <<phase, kind>>
        /\ InvokeOver(i, Append(calls, Frame("free", i)))
    BY <1>4 DEF FreeValue
  <2>. QED BY <2>1, ContractInvokes DEF Valued
<1>5. ASSUME NEW i \in Items, LetGo(i) PROVE Contract!Run(i) \/ UNCHANGED <<phase, kind, life, runs>>
  <2>1. holder[i] # "none" /\ UNCHANGED <<phase, kind>>
    BY <1>5 DEF LetGo
  <2>2. kind[i] = "store" /\ (i \notin released => hint[i] = "made")
    BY <2>1 DEF Inv, ItemInv, ItemOK, Buffered
  <2>3. CASE i \in released \/ (i \in pending /\ phase = "releasing")
    BY <1>5, <2>3 DEF LetGo
  <2>4. CASE ~ (i \in released \/ (i \in pending /\ phase = "releasing"))
    <3>1. InvokeOver(i, Append(calls, Frame("let go", i)))
      BY <1>5, <2>4 DEF LetGo
    <3>. QED BY <2>1, <2>2, <2>4, <3>1, ContractInvokes DEF Valued
  <2>. QED BY <2>3, <2>4
<1>6. ASSUME NEW i \in Items, Transfer(i) \/ FreeEmptyBuffer(i) PROVE UNCHANGED <<phase, kind, life, runs>>
  BY <1>6 DEF Transfer, FreeEmptyBuffer, item
<1>7. CASE Release
  BY <1>7 DEF Release, Contract!Release, Contract!Next
<1>8. ASSUME NEW i \in Items, SetInstanceData(i) PROVE Contract!Next
  BY <1>8, ContractSets
<1>. QED BY <1>1, <1>2, <1>3, <1>4, <1>5, <1>6, <1>7, <1>8 DEF UserStep, Contract!Next

(* What prepare_teardown does. *)
LEMMA ContractTeardown ==
  ASSUME Inv, ReleaseStep
  PROVE  Contract!Next \/ UNCHANGED <<phase, kind, life, runs>>
<1>0. /\ hooks \subseteq Items /\ pending \subseteq Items /\ hooks \in SUBSET (0..N) /\ pending \in SUBSET (0..N)
      /\ N \in Nat /\ instance \subseteq Items
  BY NAssumption DEF Inv, Types, Items
<1>1. Top.at \in PassAt /\ phase = "releasing"
  <2>1. Top.at \in PassAt
    BY DEF ReleaseStep, RunHook, FinalizeValue, FinalizeInstance, At, PassAt
  <2>. QED BY <2>1, PassTop
<1>2. CASE RunHook
  <2>1. UNCHANGED <<phase, kind>>
    BY <1>2 DEF RunHook
  <2>2. CASE hooks = {}
    BY <1>2, <2>1, <2>2 DEF RunHook
  <2>3. CASE hooks # {}
    <3>1. PICK i : i = Max(hooks)
      OBVIOUS
    <3>2. i \in hooks /\ i \in Items
      BY <1>0, <2>3, <3>1, MaxNat
    <3>3. Ran(i)
      BY <1>2, <2>3, <3>1 DEF RunHook
    <3>4. kind[i] = "hook" /\ life[i] = "live"
      BY <3>2 DEF Inv, ItemInv, ItemOK, Listed
    <3>5. Contract!Run(i)
      BY <1>1, <2>1, <3>2, <3>3, <3>4, ContractRuns
    <3>. QED BY <3>2, <3>5 DEF Contract!Next
  <2>. QED BY <2>2, <2>3
<1>3. CASE FinalizeValue
  <2>1. UNCHANGED <<phase, kind>>
    BY <1>3 DEF FinalizeValue
  <2>2. CASE pending = {}
    BY <1>3, <2>1, <2>2 DEF FinalizeValue
  <2>3. CASE pending # {}
    <3>1. PICK i : i = Max(pending)
      OBVIOUS
    <3>2. i \in pending /\ i \in Items /\ \A j \in pending : j <= i
      BY <1>0, <2>3, <3>1, MaxNat
    <3>3. PICK below : InvokeOver(i, below)
      BY <1>3, <2>3, <3>1 DEF FinalizeValue
    <3>4. Valued(i) /\ hint[i] = "made"
      BY <3>2 DEF Inv, ItemInv, ItemOK, Listed, Hinted
    <3>5. Contract!Run(i) \/ UNCHANGED <<phase, kind, life, runs>>
      BY <1>1, <2>1, <3>2, <3>3, <3>4, ContractInvokes
    <3>. QED BY <3>2, <3>5 DEF Contract!Next
  <2>. QED BY <2>2, <2>3
<1>4. CASE FinalizeInstance
  <2>1. /\ UNCHANGED kind /\ hooks = {} /\ pending = {} /\ \A j \in Items : ~ Has("set", j)
    <3>1. calls[2].at = "instance" /\ \A a \in ItemAt : \A j : ~ Has(a, j)
      BY <1>1, <1>4, PassTop DEF FinalizeInstance, At
    <3>2. "set" \in ItemAt
      BY DEF ItemAt, OnceAt
    <3>. QED BY <1>1, <1>4, <3>1, <3>2 DEF FinalizeInstance, Inv, EndInv
  <2>2. \A j \in Items : life[j] = "live" => j \in instance
    <3>. SUFFICES ASSUME NEW j \in Items, life[j] = "live" PROVE j \in instance
      OBVIOUS
    <3>1. ItemOK(j) /\ kind[j] \in {"hook", "ref", "store", "instance", "none"}
      BY KindsAssumption DEF Inv, Types, ItemInv
    <3>. QED BY <2>1, <3>1 DEF ItemOK, Listed, Valued
  <2>3. CASE instance = {}
    <3>1. Contract!Live(Kinds) = {}
      BY <2>2, <2>3 DEF Contract!Live
    <3>2. Contract!Close
      BY <1>1, <1>4, <2>1, <2>3, <3>1 DEF FinalizeInstance, Contract!Close
    <3>. QED BY <3>2 DEF Contract!Next
  <2>4. CASE instance # {}
    <3>1. PICK i \in instance : Ran(i) /\ UNCHANGED phase
      BY <1>4, <2>4 DEF FinalizeInstance
    <3>2. i \in Items /\ life[i] = "live" /\ kind[i] = "instance" /\ \A j \in Items : life[j] = "live" <=> j = i
      <4>1. i \in Items /\ instance = {i}
        BY <1>0 DEF Inv, OneInstance
      <4>2. life[i] = "live" /\ kind[i] = "instance"
        BY <4>1 DEF Inv, ItemInv, ItemOK, Listed
      <4>. QED BY <2>2, <4>1, <4>2
    <3>3. Contract!Run(i)
      BY <1>1, <2>1, <3>1, <3>2, ContractRuns
    <3>. QED BY <3>2, <3>3 DEF Contract!Next
  <2>. QED BY <2>3, <2>4
<1>. QED BY <1>2, <1>3, <1>4 DEF ReleaseStep

(* QuickJS's release implements the contract of EnvRelease: each hook and
   finalizer is called once however values are freed in the middle of others'
   finalizers and however many passes prepare_teardown makes, buffers most
   recent first, the instance data after everything else, nothing left at the
   end. *)
THEOREM ReleaseImplementsContract == Spec => KeepsContract
<1>1. Init => Contract!Init
  BY DEF Init, Contract!Init
<1>2. Inv /\ [Next]_vars => [Contract!Next]_(Contract!vars)
  <2>. SUFFICES ASSUME Inv, [Next]_vars PROVE Contract!Next \/ UNCHANGED <<phase, kind, life, runs>>
    BY DEF Contract!vars
  <2>1. CASE UNCHANGED vars
    BY <2>1 DEF vars, item
  <2>2. CASE Next
    <3>1. CASE phase # "closed" /\ UserStep
      BY <3>1, ContractUser
    <3>2. CASE Resume
      <4>1. CASE InstanceDataSet
        BY <4>1, ContractSet
      <4>2. CASE Return \/ ValueFreed \/ LetGoDone \/ ValueFinalized
        BY <4>2 DEF Return, ValueFreed, LetGoDone, ValueFinalized, item
      <4>. QED BY <3>2, <4>1, <4>2 DEF Resume
    <3>3. CASE ReleaseStep
      BY <3>3, ContractTeardown
    <3>4. CASE \E i \in Items : FreeRuntime(i)
      BY <3>4 DEF FreeRuntime, item
    <3>. QED BY <2>2, <3>1, <3>2, <3>3, <3>4 DEF Next
  <2>. QED BY <2>1, <2>2
<1>. QED BY <1>1, <1>2, FinalizersInvariant, PTL DEF Spec, KeepsContract, Contract!Spec
=============================================================================
