------------------------- MODULE HandleScopesProofs -------------------------
(***************************************************************************)
(* The guest's value ids are sound for any number of slots, generations,   *)
(* scopes and nested calls.  The inductive invariant says how the bridge's *)
(* frames and the engine's scopes lie on top of each other and where the   *)
(* running calls have cut in (Layout), that frames own the slots in use    *)
(* (OwnedBy, CountInv), that the scope of the owner keeps the Local        *)
(* (AliveIn), and how far a slot's generation has moved on since an id was *)
(* given out (HandedInv).                                                  *)
(***************************************************************************)
EXTENDS HandleScopes, FiniteSetTheorems, SequenceTheorems, TLAPS

FrameType == [id : 0..MaxScopes, tok : 0..MaxScopes, esc : BOOLEAN, owned : SUBSET Slots]
ScopeType == [tok : 0..Trampoline, escaped : BOOLEAN, alive : SUBSET Locals]
CallType  == [kind : {"callback", "finalizer"}, tok : 1..MaxScopes, depth : Nat,
              below : Seq(0..MaxScopes)]

\* Frames in the order they were opened, the env-wide one first.
FramesOK(fs, op) ==
  /\ Len(fs) >= 1 => fs[1].tok = 0 /\ fs[1].id = 0
  /\ \A d \in 2..Len(fs) : fs[d].tok \in 1..op
  /\ \A d, e \in 1..Len(fs) : d < e => fs[d].tok < fs[e].tok

\* Scopes too; between them the ones V8 opened, never on top.
ScopesOK(ss, op) ==
  /\ Len(ss) >= 1 /\ ss[1].tok = 0
  /\ \A p \in 2..Len(ss) : ss[p].tok \in 1..op \/ ss[p].tok = Trampoline
  /\ \A p, q \in 1..Len(ss) :
       p < q /\ ss[p].tok # Trampoline /\ ss[q].tok # Trampoline => ss[p].tok < ss[q].tok
  /\ ss[Len(ss)].tok # Trampoline

\* Scope p is the one of frame d: on top of the scope of the frame below, or
\* of the one V8 opened on top of that.
ScopeOf(fs, ss, d, p) ==
  /\ ss[p].tok = fs[d].tok
  /\ fs[d].id # 0 => ss[p - 1].tok = fs[d - 1].tok
  /\ fs[d].id = 0 => p > 2 /\ ss[p - 1].tok = Trampoline /\ ss[p - 2].tok = fs[d - 1].tok

Matched(fs, ss) ==
  /\ \A d \in 2..Len(fs) : \E p \in 2..Len(ss) : ScopeOf(fs, ss, d, p)
  /\ \A p \in 2..Len(ss) : ss[p].tok # Trampoline => \E d \in 2..Len(fs) : ScopeOf(fs, ss, d, p)

\* A call that runs has its implicit frame and its scopes in place, on top of
\* what it found.
CallOK(fs, ss, c) ==
  /\ Len(c.below) \in 1..Len(fs) - 1
  /\ \A i \in 1..Len(c.below) : fs[i].tok = c.below[i]
  /\ fs[Len(c.below) + 1].tok = c.tok /\ fs[Len(c.below) + 1].id = 0
  /\ c.depth \in 1..Len(ss) - 2
  /\ ss[c.depth + 1].tok = Trampoline /\ ss[c.depth + 2].tok = c.tok

CallsOK(fs, ss, cs) ==
  /\ \A k \in 1..Len(cs) : CallOK(fs, ss, cs[k])
  /\ \A j, k \in 1..Len(cs) :
       j < k => Len(cs[j].below) < Len(cs[k].below) /\ cs[j].depth + 1 < cs[k].depth
  /\ \A p \in 1..Len(ss) : ss[p].tok = Trampoline => \E k \in 1..Len(cs) : cs[k].depth = p - 1

Layout(fs, ss, cs, op) ==
  /\ fs \in Seq(FrameType) /\ ss \in Seq(ScopeType) /\ cs \in Seq(CallType) /\ op \in 0..MaxScopes
  /\ FramesOK(fs, op) /\ ScopesOK(ss, op) /\ Matched(fs, ss) /\ CallsOK(fs, ss, cs)

\* The slots with a value v are the ones the frames own, each one frame.
OwnedBy(fs, v) ==
  /\ \A i \in Slots : v[i] # Null <=> \E d \in 1..Len(fs) : i \in fs[d].owned
  /\ \A d, e \in 1..Len(fs) : \A i \in fs[d].owned : i \in fs[e].owned => d = e

\* The scope of the owner keeps the Local alive.
AliveIn(fs, ss, v) ==
  \A d \in 1..Len(fs) : \A i \in fs[d].owned :
    \E p \in 1..Len(ss) : ss[p].tok = fs[d].tok /\ v[i] \in ss[p].alive

CountInv ==
  /\ free = (1..size) \ InUse /\ InUse \subseteq 1..size
  /\ count = Cardinality(InUse)
  /\ ValueLimit # 0 => count <= ValueLimit

\* How often slot i has been freed since the tables were reset.
Freed(i) == IF val[i] # Null THEN uses[i] - 1 ELSE uses[i]

\* The generation after k more frees, for k up to a full cycle.
Later(g, k) == IF g + k < GenMod THEN g + k ELSE g + k - GenMod

\* An id that was given out since the tables were reset: its use is not ahead
\* of the slot's, the latest use's value is its own, and until the slot's
\* generations wrap it is known how far they have moved.
HandedInv ==
  \A h \in handed : h.reset = reset =>
    /\ h.use \in 1..uses[h.slot]
    /\ h.use = uses[h.slot] => val[h.slot] \in {Null, h.local}
    /\ uses[h.slot] < h.use + GenMod => gen[h.slot] = Later(h.gen, Freed(h.slot) - (h.use - 1))

SlotTypes ==
  /\ size \in 0..MaxSlots
  /\ gen \in [Slots -> 0..GenMod - 1]
  /\ val \in [Slots -> Locals \cup {Null}]
  /\ free \subseteq Slots
  /\ uses \in [Slots -> Nat]
  /\ \A i \in Slots : val[i] # Null => uses[i] > 0
  /\ locals \in 0..MaxLocals
  /\ answer \in [ok : BOOLEAN, value : BOOLEAN]
  /\ reset \in BOOLEAN
  /\ handed \subseteq [slot : Slots, gen : 0..GenMod - 1, local : Locals, use : Nat, reset : BOOLEAN]
  /\ \A h \in handed : h.reset => reset

Inv ==
  /\ SlotTypes /\ Layout(frames, scopes, calls, opened)
  /\ OwnedBy(frames, val) /\ AliveIn(frames, scopes, val) /\ CountInv /\ HandedInv

-----------------------------------------------------------------------------
(* Stacks.                                                                 *)

(* The lower n elements of a stack. *)
LEMMA Cut ==
  ASSUME NEW F, NEW s \in Seq(F), NEW n \in 0..Len(s)
  PROVE  /\ SubSeq(s, 1, n) \in Seq(F) /\ Len(SubSeq(s, 1, n)) = n
         /\ \A i \in 1..n : SubSeq(s, 1, n)[i] = s[i]
<1>1. n \in Nat /\ \A i \in 1..n : s[i] \in F
  OBVIOUS
<1>2. /\ SubSeq(s, 1, n) \in Seq(F)
      /\ Len(SubSeq(s, 1, n)) = IF 1 <= n THEN n - 1 + 1 ELSE 0
      /\ \A i \in 1..n - 1 + 1 : SubSeq(s, 1, n)[i] = s[1 + i - 1]
  BY <1>1, SubSeqProperties
<1>3. (IF 1 <= n THEN n - 1 + 1 ELSE 0) = n /\ n - 1 + 1 = n /\ \A i \in 1..n : 1 + i - 1 = i
  BY <1>1
<1>. QED BY <1>2, <1>3

(* One element more. *)
LEMMA Pushed ==
  ASSUME NEW F, NEW s \in Seq(F), NEW f \in F
  PROVE  /\ Append(s, f) \in Seq(F) /\ Len(Append(s, f)) = Len(s) + 1 /\ Append(s, f)[Len(s) + 1] = f
         /\ \A n \in 1..Len(s) : Append(s, f)[n] = s[n]
  OBVIOUS

(* Two elements more. *)
LEMMA PushedTwo ==
  ASSUME NEW F, NEW s \in Seq(F), NEW f \in F, NEW g \in F
  PROVE  /\ s \o <<f, g>> \in Seq(F) /\ Len(s \o <<f, g>>) = Len(s) + 2
         /\ (s \o <<f, g>>)[Len(s) + 1] = f /\ (s \o <<f, g>>)[Len(s) + 2] = g
         /\ \A n \in 1..Len(s) : (s \o <<f, g>>)[n] = s[n]
<1>1. <<f, g>> \in Seq(F) /\ Len(<<f, g>>) = 2 /\ <<f, g>>[1] = f /\ <<f, g>>[2] = g
  OBVIOUS
<1>2. PICK u \in Seq(F) : u = <<f, g>> /\ Len(u) = 2 /\ u[1] = f /\ u[2] = g
  BY <1>1
<1>3. /\ s \o u \in Seq(F) /\ Len(s \o u) = Len(s) + 2
      /\ \A n \in 1..Len(s) + 2 : (s \o u)[n] = IF n <= Len(s) THEN s[n] ELSE u[n - Len(s)]
  BY <1>2, ConcatProperties
<1>4. Len(s) \in Nat
  OBVIOUS
<1>5. (s \o u)[Len(s) + 1] = u[1] /\ (s \o u)[Len(s) + 2] = u[2]
  BY <1>3, <1>4
<1>6. \A n \in 1..Len(s) : (s \o u)[n] = s[n]
  BY <1>3, <1>4
<1>. QED BY <1>2, <1>3, <1>5, <1>6

-----------------------------------------------------------------------------
(* Frames and scopes.                                                      *)

(* Tokens are numbers, and V8's scopes are told from the others. *)
LEMMA Tokens ==
  ASSUME NEW fs, NEW ss, NEW cs, NEW op, Layout(fs, ss, cs, op)
  PROVE  /\ Len(fs) \in Nat /\ Len(ss) \in Nat /\ Len(cs) \in Nat /\ op \in Nat /\ op < Trampoline
         /\ \A d \in 1..Len(fs) : fs[d].tok \in Nat /\ fs[d].tok <= op /\ fs[d].tok # Trampoline
         /\ \A p \in 1..Len(ss) : ss[p].tok \in Nat
<1>1. /\ fs \in Seq(FrameType) /\ ss \in Seq(ScopeType) /\ cs \in Seq(CallType)
      /\ op \in Nat /\ op < Trampoline /\ Trampoline \in Nat
  BY ConstantsAssumption DEF Layout, Trampoline
<1>2. \A d \in 1..Len(fs) : fs[d].tok \in Nat /\ fs[d].tok <= op
  <2>. SUFFICES ASSUME NEW d \in 1..Len(fs) PROVE fs[d].tok \in Nat /\ fs[d].tok <= op
    OBVIOUS
  <2>1. CASE d = 1
    BY <1>1, <2>1 DEF Layout, FramesOK
  <2>2. CASE d # 1
    <3>1. d \in 2..Len(fs)
      BY <1>1, <2>2
    <3>. QED BY <1>1, <3>1 DEF Layout, FramesOK
  <2>. QED BY <2>1, <2>2
<1>3. \A p \in 1..Len(ss) : ss[p].tok \in Nat
  <2>1. \A p \in 1..Len(ss) : ss[p] \in ScopeType
    BY <1>1
  <2>. QED BY <1>1, <2>1 DEF ScopeType
<1>. QED BY <1>1, <1>2, <1>3

(* A token names one scope. *)
LEMMA OnePosition ==
  ASSUME NEW fs, NEW ss, NEW cs, NEW op, Layout(fs, ss, cs, op),
         NEW p \in 1..Len(ss), NEW q \in 1..Len(ss), ss[p].tok = ss[q].tok, ss[p].tok # Trampoline
  PROVE  p = q
<1>1. Len(ss) \in Nat /\ ss[p].tok \in Nat
  BY Tokens
<1>2. ~ (p < q) /\ ~ (q < p)
  BY <1>1 DEF Layout, ScopesOK
<1>. QED BY <1>1, <1>2

(* Frames and their scopes are in the same order. *)
LEMMA SameOrder ==
  ASSUME NEW fs, NEW ss, NEW cs, NEW op, Layout(fs, ss, cs, op),
         NEW d \in 1..Len(fs), NEW e \in 1..Len(fs), NEW p \in 1..Len(ss), NEW q \in 1..Len(ss),
         ss[p].tok = fs[d].tok, ss[q].tok = fs[e].tok
  PROVE  p < q <=> d < e
<1>1. /\ Len(ss) \in Nat /\ Len(fs) \in Nat
      /\ fs[d].tok \in Nat /\ fs[e].tok \in Nat /\ fs[d].tok # Trampoline /\ fs[e].tok # Trampoline
  BY Tokens
<1>2. p < q => fs[d].tok < fs[e].tok
  BY <1>1 DEF Layout, ScopesOK
<1>3. q < p => fs[e].tok < fs[d].tok
  BY <1>1 DEF Layout, ScopesOK
<1>4. (d < e => fs[d].tok < fs[e].tok) /\ (e < d => fs[e].tok < fs[d].tok)
  BY DEF Layout, FramesOK
<1>. QED BY <1>1, <1>2, <1>3, <1>4

(* The innermost scope is the one of the innermost frame. *)
LEMMA TopsMatch ==
  ASSUME NEW fs, NEW ss, NEW cs, NEW op, Layout(fs, ss, cs, op), Len(fs) >= 1
  PROVE  Len(ss) \in 1..Len(ss) /\ ss[Len(ss)].tok = fs[Len(fs)].tok
<1>1. Len(ss) \in Nat /\ Len(fs) \in Nat /\ Len(ss) >= 1 /\ ss[Len(ss)].tok # Trampoline
  BY Tokens DEF Layout, ScopesOK
<1>2. PICK m \in Nat, n \in Nat : m = Len(ss) /\ n = Len(fs)
  BY <1>1
<1>3. CASE m = 1
  <2>1. n = 1
    <3>. SUFFICES ASSUME n > 1 PROVE FALSE
      BY <1>2
    <3>1. 2 \in 2..Len(fs)
      BY <1>2
    <3>2. \E p \in 2..Len(ss) : TRUE
      BY <3>1 DEF Layout, Matched
    <3>. QED BY <1>2, <1>3, <3>2
  <2>. QED BY <1>2, <1>3, <2>1 DEF Layout, ScopesOK, FramesOK
<1>4. CASE m > 1
  <2>1. Len(ss) \in 2..Len(ss) /\ Len(ss) \in 1..Len(ss)
    BY <1>2, <1>4
  <2>2. PICK d \in 2..Len(fs) : ss[Len(ss)].tok = fs[d].tok
    BY <1>1, <2>1 DEF Layout, Matched, ScopeOf
  <2>3. d = Len(fs)
    <3>. SUFFICES ASSUME d < Len(fs) PROVE FALSE
      BY <1>1
    <3>1. Len(fs) \in 2..Len(fs) /\ Len(fs) \in 1..Len(fs) /\ d \in 1..Len(fs)
      BY <1>1
    <3>2. PICK p \in 2..Len(ss) : ss[p].tok = fs[Len(fs)].tok
      BY <3>1 DEF Layout, Matched, ScopeOf
    <3>3. p \in 1..Len(ss)
      BY <1>1
    <3>4. Len(ss) < p
      BY <2>1, <2>2, <3>1, <3>2, <3>3, SameOrder
    <3>. QED BY <1>1, <3>4
  <2>. QED BY <2>1, <2>2, <2>3
<1>. QED BY <1>1, <1>2, <1>3, <1>4

(* The frame below another one: their scopes, on top of each other or with
   V8's between them. *)
LEMMA ScopeOfFrame ==
  ASSUME NEW fs, NEW ss, NEW cs, NEW op, Layout(fs, ss, cs, op),
         NEW d \in 2..Len(fs), NEW p \in 1..Len(ss), ss[p].tok = fs[d].tok
  PROVE  p \in 2..Len(ss) /\ ScopeOf(fs, ss, d, p)
<1>1. Len(ss) \in Nat /\ Len(fs) \in Nat /\ d \in 1..Len(fs) /\ fs[d].tok # Trampoline
  BY Tokens
<1>2. PICK q \in 2..Len(ss) : ScopeOf(fs, ss, d, q)
  BY DEF Layout, Matched
<1>3. q \in 1..Len(ss) /\ ss[q].tok = fs[d].tok
  BY <1>1, <1>2 DEF ScopeOf
<1>4. p = q
  BY <1>1, <1>3, OnePosition
<1>. QED BY <1>2, <1>4

(* Only tokens and ids matter. *)
LEMMA LayoutSame ==
  ASSUME NEW fs, NEW ss, NEW cs, NEW op, Layout(fs, ss, cs, op),
         NEW gs \in Seq(FrameType), NEW ts \in Seq(ScopeType), Len(gs) = Len(fs), Len(ts) = Len(ss),
         \A d \in 1..Len(fs) : gs[d].tok = fs[d].tok /\ gs[d].id = fs[d].id,
         \A p \in 1..Len(ss) : ts[p].tok = ss[p].tok
  PROVE  Layout(gs, ts, cs, op)
<1>1. Len(fs) \in Nat /\ Len(ss) \in Nat
  BY Tokens
<1>2. FramesOK(gs, op)
  <2>1. \A d \in 2..Len(fs) : d \in 1..Len(fs)
    BY <1>1
  <2>2. Len(fs) >= 1 => 1 \in 1..Len(fs)
    BY <1>1
  <2>. QED BY <2>1, <2>2 DEF Layout, FramesOK
<1>3. ScopesOK(ts, op)
  <2>1. \A p \in 2..Len(ss) : p \in 1..Len(ss)
    BY <1>1
  <2>2. Len(ss) >= 1 /\ 1 \in 1..Len(ss) /\ Len(ss) \in 1..Len(ss)
    BY <1>1 DEF Layout, ScopesOK
  <2>. QED BY <2>1, <2>2 DEF Layout, ScopesOK
<1>4. ASSUME NEW d \in 2..Len(fs), NEW p \in 2..Len(ss), ScopeOf(fs, ss, d, p)
      PROVE  ScopeOf(gs, ts, d, p)
  <2>1. d \in 1..Len(fs) /\ d - 1 \in 1..Len(fs) /\ p \in 1..Len(ss) /\ p - 1 \in 1..Len(ss)
    BY <1>1
  <2>2. p > 2 => p - 2 \in 1..Len(ss)
    BY <1>1
  <2>. QED BY <1>4, <2>1, <2>2 DEF ScopeOf
<1>5. Matched(gs, ts)
  <2>1. \A p \in 2..Len(ss) : p \in 1..Len(ss)
    BY <1>1
  <2>. QED BY <1>4, <2>1 DEF Layout, Matched
<1>6. ASSUME NEW c \in CallType, CallOK(fs, ss, c)
      PROVE  CallOK(gs, ts, c)
  <2>1. PICK n \in 1..Len(fs) - 1 : n = Len(c.below)
    BY <1>6 DEF CallOK
  <2>2. n + 1 \in 1..Len(fs) /\ \A i \in 1..n : i \in 1..Len(fs)
    BY <1>1
  <2>3. PICK e \in 1..Len(ss) - 2 : e = c.depth
    BY <1>6 DEF CallOK
  <2>4. e + 1 \in 1..Len(ss) /\ e + 2 \in 1..Len(ss)
    BY <1>1
  <2>. QED BY <1>6, <2>1, <2>2, <2>3, <2>4 DEF CallOK
<1>7. CallsOK(gs, ts, cs)
  <2>1. \A k \in 1..Len(cs) : cs[k] \in CallType
    BY DEF Layout
  <2>. QED BY <1>6, <2>1 DEF Layout, CallsOK
<1>. QED BY <1>2, <1>3, <1>5, <1>7 DEF Layout

(* With no frame there is only the env-wide scope, and no call runs. *)
LEMMA LayoutBare ==
  ASSUME NEW fs, NEW ss, NEW cs, NEW op, Layout(fs, ss, cs, op), Len(fs) < 1
  PROVE  cs = <<>> /\ Len(ss) < 2
<1>1. Len(fs) \in Nat /\ Len(ss) \in Nat /\ cs \in Seq(CallType) /\ Len(cs) \in Nat
  BY Tokens DEF Layout
<1>2. ~ (Len(cs) >= 1)
  <2>. SUFFICES ASSUME 1 \in 1..Len(cs) PROVE FALSE
    BY <1>1
  <2>1. Len(cs[1].below) \in 1..Len(fs) - 1
    BY DEF Layout, CallsOK, CallOK
  <2>. QED BY <1>1, <2>1
<1>3. cs = <<>>
  BY <1>1, <1>2
<1>4. ~ (Len(ss) >= 2)
  <2>. SUFFICES ASSUME Len(ss) >= 2 PROVE FALSE
    OBVIOUS
  <2>1. Len(ss) \in 2..Len(ss)
    BY <1>1
  <2>2. \E d \in 2..Len(fs) : TRUE
    BY <2>1 DEF Layout, ScopesOK, Matched
  <2>. QED BY <1>1, <2>2
<1>. QED BY <1>1, <1>3, <1>4

(* What Frame makes. *)
LEMMA FrameFields ==
  ASSUME NEW i \in 0..MaxScopes, NEW t \in 0..MaxScopes, NEW e \in BOOLEAN
  PROVE  /\ Frame(i, t, e) \in FrameType
         /\ Frame(i, t, e).id = i /\ Frame(i, t, e).tok = t /\ Frame(i, t, e).owned = {}
<1>1. {} \in SUBSET Slots
  OBVIOUS
<1>. QED BY <1>1 DEF Frame, FrameType

(* What Scope makes. *)
LEMMA ScopeFields ==
  ASSUME NEW t \in 0..Trampoline
  PROVE  Scope(t) \in ScopeType /\ Scope(t).tok = t
<1>1. {} \in SUBSET Locals
  OBVIOUS
<1>. QED BY <1>1 DEF Scope, ScopeType

(* CurrentFrame makes the root frame. *)
LEMMA LayoutRoot ==
  ASSUME NEW fs, NEW ss, NEW cs, NEW op, Layout(fs, ss, cs, op), fs = <<>>
  PROVE  Layout(<<Frame(0, 0, FALSE)>>, ss, cs, op)
<1>1. Len(fs) < 1
  OBVIOUS
<1>2. cs = <<>> /\ Len(ss) < 2 /\ Len(ss) \in Nat /\ Len(cs) < 1
  BY <1>1, LayoutBare, Tokens
<1>3. PICK f \in FrameType : f = Frame(0, 0, FALSE) /\ f.tok = 0 /\ f.id = 0
  <2>1. 0 \in 0..MaxScopes
    BY ConstantsAssumption
  <2>2. Frame(0, 0, FALSE) \in FrameType /\ Frame(0, 0, FALSE).tok = 0 /\ Frame(0, 0, FALSE).id = 0
    BY <2>1, FrameFields
  <2>. QED BY <2>2
<1>4. PICK gs : gs = <<f>>
  OBVIOUS
<1>5. gs \in Seq(FrameType) /\ Len(gs) = 1 /\ gs[1] = f
  BY <1>4
<1>6. FramesOK(gs, op)
  <2>1. \A d \in 2..1 : FALSE
    OBVIOUS
  <2>2. \A d, e \in 1..1 : ~ (d < e)
    OBVIOUS
  <2>. QED BY <1>3, <1>5, <2>1, <2>2 DEF FramesOK
<1>7. Matched(gs, ss)
  <2>1. \A p \in 2..Len(ss) : FALSE
    BY <1>2
  <2>2. \A d \in 2..Len(gs) : FALSE
    BY <1>5
  <2>. QED BY <2>1, <2>2 DEF Matched
<1>8. CallsOK(gs, ss, cs)
  <2>1. \A k \in 1..Len(cs) : FALSE
    BY <1>2
  <2>2. \A p \in 1..Len(ss) : ss[p].tok # Trampoline
    BY <2>1 DEF Layout, CallsOK
  <2>. QED BY <2>1, <2>2 DEF CallsOK
<1>9. Layout(gs, ss, cs, op)
  BY <1>5, <1>6, <1>7, <1>8 DEF Layout
<1>. QED BY <1>3, <1>4, <1>9

\* Stacks gs and ts continue fs and ss.
Over(fs, gs) == Len(fs) <= Len(gs) /\ \A i \in 1..Len(fs) : gs[i] = fs[i]

(* What a longer stack leaves in place. *)
LEMMA OverKeeps ==
  ASSUME NEW fs, NEW ss, NEW cs, NEW op, Layout(fs, ss, cs, op),
         NEW gs \in Seq(FrameType), NEW ts \in Seq(ScopeType), Over(fs, gs), Over(ss, ts)
  PROVE  /\ \A d \in 2..Len(fs), p \in 2..Len(ss) : ScopeOf(fs, ss, d, p) => ScopeOf(gs, ts, d, p)
         /\ \A k \in 1..Len(cs) : CallOK(gs, ts, cs[k])
<1>1. Len(fs) \in Nat /\ Len(ss) \in Nat /\ Len(gs) \in Nat /\ Len(ts) \in Nat
  BY Tokens
<1>2. ASSUME NEW d \in 2..Len(fs), NEW p \in 2..Len(ss), ScopeOf(fs, ss, d, p)
      PROVE  ScopeOf(gs, ts, d, p)
  <2>1. d \in 1..Len(fs) /\ d - 1 \in 1..Len(fs) /\ p \in 1..Len(ss) /\ p - 1 \in 1..Len(ss)
    BY <1>1
  <2>2. p > 2 => p - 2 \in 1..Len(ss)
    BY <1>1
  <2>. QED BY <1>2, <2>1, <2>2 DEF ScopeOf, Over
<1>3. ASSUME NEW k \in 1..Len(cs) PROVE CallOK(gs, ts, cs[k])
  <2>1. CallOK(fs, ss, cs[k])
    BY DEF Layout, CallsOK
  <2>2. PICK n \in 1..Len(fs) - 1 : n = Len(cs[k].below)
    BY <2>1 DEF CallOK
  <2>3. n \in 1..Len(gs) - 1 /\ n + 1 \in 1..Len(fs) /\ \A i \in 1..n : i \in 1..Len(fs)
    BY <1>1 DEF Over
  <2>4. PICK e \in 1..Len(ss) - 2 : e = cs[k].depth
    BY <2>1 DEF CallOK
  <2>5. e \in 1..Len(ts) - 2 /\ e + 1 \in 1..Len(ss) /\ e + 2 \in 1..Len(ss)
    BY <1>1 DEF Over
  <2>. QED BY <2>1, <2>2, <2>3, <2>4, <2>5 DEF CallOK, Over
<1>. QED BY <1>2, <1>3

(* The next token. *)
LEMMA NextToken ==
  ASSUME NEW fs, NEW ss, NEW cs, NEW op, Layout(fs, ss, cs, op), op < MaxScopes
  PROVE  /\ op \in Nat /\ op + 1 \in 0..MaxScopes /\ op + 1 \in 1..op + 1 /\ 1..op \subseteq 1..op + 1
         /\ op + 1 < Trampoline
<1>1. op \in Nat /\ MaxScopes \in Nat
  BY Tokens, ConstantsAssumption
<1>. QED BY <1>1 DEF Trampoline

(* The tokens of a new frame. *)
LEMMA FramesPushed ==
  ASSUME NEW fs, NEW ss, NEW cs, NEW op, Layout(fs, ss, cs, op), Len(fs) >= 1,
         NEW gs, Len(gs) = Len(fs) + 1, Over(fs, gs), gs[Len(fs) + 1].tok = op + 1
  PROVE  FramesOK(gs, op + 1)
<1>1. PICK n \in Nat, m \in Nat : n = Len(fs) /\ m = Len(ss) /\ m >= 1 /\ n >= 1
  BY Tokens DEF Layout, ScopesOK
<1>2. op \in Nat /\ op + 1 \in 1..op + 1 /\ 1..op \subseteq 1..op + 1
  BY Tokens
<1>3. Len(gs) = n + 1 /\ gs[n + 1].tok = op + 1 /\ \A d \in 1..n : gs[d] = fs[d]
  BY <1>1 DEF Over
<1>4. \A d \in 1..n : fs[d].tok \in Nat /\ fs[d].tok < op + 1
  BY <1>1, <1>2, Tokens
<1>5. gs[1].tok = 0 /\ gs[1].id = 0
  BY <1>1, <1>3 DEF Layout, FramesOK
<1>6. ASSUME NEW d \in 2..n + 1 PROVE gs[d].tok \in 1..op + 1
  <2>1. CASE d = n + 1
    BY <1>3, <1>2, <2>1
  <2>2. CASE d \in 2..n
    BY <1>1, <1>3, <1>2, <2>2 DEF Layout, FramesOK
  <2>. QED BY <1>1, <2>1, <2>2
<1>7. ASSUME NEW d \in 1..n + 1, NEW e \in 1..n + 1, d < e PROVE gs[d].tok < gs[e].tok
  <2>1. d \in 1..n
    BY <1>1, <1>7
  <2>2. CASE e = n + 1
    BY <1>3, <1>4, <2>1, <2>2
  <2>3. CASE e \in 1..n
    BY <1>1, <1>3, <1>7, <2>1, <2>3 DEF Layout, FramesOK
  <2>. QED BY <1>1, <2>2, <2>3
<1>. QED BY <1>3, <1>5, <1>6, <1>7 DEF FramesOK

(* The tokens of the scopes the bridge opened. *)
LEMMA ScopesBefore ==
  ASSUME NEW fs, NEW ss, NEW cs, NEW op, Layout(fs, ss, cs, op),
         NEW p \in 1..Len(ss), ss[p].tok # Trampoline
  PROVE  ss[p].tok < op + 1
<1>1. Len(ss) \in Nat /\ op \in Nat
  BY Tokens
<1>2. CASE p = 1
  BY <1>1, <1>2 DEF Layout, ScopesOK
<1>3. CASE p \in 2..Len(ss)
  BY <1>1, <1>3 DEF Layout, ScopesOK
<1>. QED BY <1>1, <1>2, <1>3

(* A scope of the guest's own. *)
LEMMA LayoutOpen ==
  ASSUME NEW fs, NEW ss, NEW cs, NEW op, Layout(fs, ss, cs, op), Len(fs) >= 1, op < MaxScopes,
         NEW f \in FrameType, f.tok = op + 1, f.id # 0, NEW s \in ScopeType, s.tok = op + 1
  PROVE  Layout(Append(fs, f), Append(ss, s), cs, op + 1)
<1>. PICK gs : gs = Append(fs, f)
  OBVIOUS
<1>. PICK ts : ts = Append(ss, s)
  OBVIOUS
<1>1. PICK n \in Nat, m \in Nat : n = Len(fs) /\ m = Len(ss) /\ n >= 1 /\ m >= 1
  BY Tokens DEF Layout, ScopesOK
<1>2. fs \in Seq(FrameType) /\ ss \in Seq(ScopeType)
  BY DEF Layout
<1>3. gs \in Seq(FrameType) /\ Len(gs) = n + 1 /\ gs[n + 1] = f /\ \A d \in 1..n : gs[d] = fs[d]
  BY <1>1, <1>2, Pushed
<1>4. ts \in Seq(ScopeType) /\ Len(ts) = m + 1 /\ ts[m + 1] = s /\ \A p \in 1..m : ts[p] = ss[p]
  BY <1>1, <1>2, Pushed
<1>5. Over(fs, gs) /\ Over(ss, ts)
  BY <1>1, <1>3, <1>4 DEF Over
<1>6. /\ op \in Nat /\ op + 1 \in 0..MaxScopes /\ op + 1 \in 1..op + 1 /\ 1..op \subseteq 1..op + 1
      /\ op + 1 < Trampoline
  <2>1. Layout(fs, ss, cs, op) /\ op < MaxScopes
    OBVIOUS
  <2>. QED BY ONLY <2>1, NextToken
<1>7. FramesOK(gs, op + 1)
  BY <1>1, <1>3, <1>5, FramesPushed
<1>8. \A p \in 1..m : ss[p].tok # Trampoline => ss[p].tok < op + 1
  BY <1>1, ScopesBefore
<1>9. ScopesOK(ts, op + 1)
  <2>1. ts[1].tok = 0 /\ m + 1 >= 1 /\ ts[m + 1].tok # Trampoline
    BY <1>1, <1>4, <1>6 DEF Layout, ScopesOK
  <2>2. ASSUME NEW p \in 2..m + 1 PROVE ts[p].tok \in 1..op + 1 \/ ts[p].tok = Trampoline
    <3>1. CASE p = m + 1
      BY <1>4, <1>6, <3>1
    <3>2. CASE p \in 2..m
      BY <1>1, <1>4, <1>6, <3>2 DEF Layout, ScopesOK
    <3>. QED BY <1>1, <3>1, <3>2
  <2>3. ASSUME NEW p \in 1..m + 1, NEW q \in 1..m + 1, p < q, ts[p].tok # Trampoline, ts[q].tok # Trampoline
        PROVE  ts[p].tok < ts[q].tok
    <3>1. p \in 1..m
      BY <1>1, <2>3
    <3>2. CASE q = m + 1
      BY <1>4, <1>8, <2>3, <3>1, <3>2
    <3>3. CASE q \in 1..m
      BY <1>1, <1>4, <2>3, <3>1, <3>3 DEF Layout, ScopesOK
    <3>. QED BY <1>1, <3>2, <3>3
  <2>. QED BY <1>4, <2>1, <2>2, <2>3 DEF ScopesOK
<1>10. ScopeOf(gs, ts, n + 1, m + 1)
  <2>1. ss[m].tok = fs[n].tok
    BY <1>1, TopsMatch
  <2>2. ts[m] = ss[m] /\ gs[n] = fs[n]
    BY <1>1, <1>3, <1>4
  <2>3. PICK d \in Nat, p \in Nat : d = n + 1 /\ p = m + 1 /\ d - 1 = n /\ p - 1 = m
    BY <1>1
  <2>4. gs[d].tok = op + 1 /\ gs[d].id # 0 /\ ts[p].tok = op + 1
    BY <1>3, <1>4, <2>3
  <2>5. ts[p - 1].tok = gs[d - 1].tok
    BY <2>1, <2>2, <2>3
  <2>6. ScopeOf(gs, ts, d, p)
    BY <2>4, <2>5 DEF ScopeOf
  <2>. QED BY <2>3, <2>6
<1>11. Matched(gs, ts)
  <2>1. ASSUME NEW d \in 2..n + 1 PROVE \E p \in 2..m + 1 : ScopeOf(gs, ts, d, p)
    <3>1. CASE d = n + 1
      BY <1>1, <1>10, <3>1
    <3>2. CASE d \in 2..n
      <4>1. PICK p \in 2..m : ScopeOf(fs, ss, d, p)
        BY <1>1, <3>2 DEF Layout, Matched
      <4>2. d \in 2..Len(fs) /\ p \in 2..Len(ss) /\ p \in 2..m + 1
        BY <1>1, <3>2
      <4>3. ScopeOf(gs, ts, d, p)
        BY <1>3, <1>4, <1>5, <4>1, <4>2, OverKeeps
      <4>. QED BY <4>2, <4>3
    <3>. QED BY <1>1, <3>1, <3>2
  <2>2. ASSUME NEW p \in 2..m + 1, ts[p].tok # Trampoline PROVE \E d \in 2..n + 1 : ScopeOf(gs, ts, d, p)
    <3>1. CASE p = m + 1
      BY <1>1, <1>10, <3>1
    <3>2. CASE p \in 2..m
      <4>1. ts[p] = ss[p]
        BY <1>1, <1>4, <3>2
      <4>2. PICK d \in 2..n : ScopeOf(fs, ss, d, p)
        BY <1>1, <2>2, <3>2, <4>1 DEF Layout, Matched
      <4>3. d \in 2..Len(fs) /\ p \in 2..Len(ss) /\ d \in 2..n + 1
        BY <1>1, <3>2
      <4>4. ScopeOf(gs, ts, d, p)
        BY <1>3, <1>4, <1>5, <4>2, <4>3, OverKeeps
      <4>. QED BY <4>3, <4>4
    <3>. QED BY <1>1, <3>1, <3>2
  <2>. QED BY <1>3, <1>4, <2>1, <2>2 DEF Matched
<1>12. CallsOK(gs, ts, cs)
  <2>1. \A k \in 1..Len(cs) : CallOK(gs, ts, cs[k])
    BY <1>3, <1>4, <1>5, OverKeeps
  <2>2. ASSUME NEW p \in 1..m + 1, ts[p].tok = Trampoline PROVE \E k \in 1..Len(cs) : cs[k].depth = p - 1
    <3>1. p \in 1..m /\ ts[p] = ss[p]
      BY <1>1, <1>4, <1>6, <2>2
    <3>. QED BY <1>1, <2>2, <3>1 DEF Layout, CallsOK
  <2>. QED BY <1>4, <2>1, <2>2 DEF Layout, CallsOK
<1>13. cs \in Seq(CallType)
  BY DEF Layout
<1>. QED BY <1>3, <1>4, <1>6, <1>7, <1>9, <1>11, <1>12, <1>13 DEF Layout

\* What a guest call adds: an implicit frame f, V8's scope u, the bridge's s.
Entry(fs, ss, op, f, u, s, c) ==
  /\ f \in FrameType /\ f.tok = op + 1 /\ f.id = 0
  /\ u \in ScopeType /\ u.tok = Trampoline /\ s \in ScopeType /\ s.tok = op + 1
  /\ c \in CallType /\ c.tok = op + 1 /\ c.depth = Len(ss)
  /\ Len(c.below) = Len(fs) /\ \A i \in 1..Len(fs) : c.below[i] = fs[i].tok

(* A guest call. *)
LEMMA LayoutEnter ==
  ASSUME NEW fs, NEW ss, NEW cs, NEW op, Layout(fs, ss, cs, op), Len(fs) >= 1, op < MaxScopes,
         NEW f, NEW u, NEW s, NEW c, Entry(fs, ss, op, f, u, s, c)
  PROVE  Layout(Append(fs, f), ss \o <<u, s>>, Append(cs, c), op + 1)
<1>. PICK gs : gs = Append(fs, f)
  OBVIOUS
<1>. PICK ts : ts = ss \o <<u, s>>
  OBVIOUS
<1>. PICK ds : ds = Append(cs, c)
  OBVIOUS
<1>1. PICK n \in Nat, m \in Nat, l \in Nat : n = Len(fs) /\ m = Len(ss) /\ n >= 1 /\ m >= 1 /\ l = Len(cs)
  BY Tokens DEF Layout, ScopesOK
<1>2. fs \in Seq(FrameType) /\ ss \in Seq(ScopeType) /\ cs \in Seq(CallType)
  BY DEF Layout
<1>3. f \in FrameType /\ u \in ScopeType /\ s \in ScopeType /\ c \in CallType
  BY DEF Entry
<1>4. f.tok = op + 1 /\ f.id = 0 /\ u.tok = Trampoline /\ s.tok = op + 1
  BY DEF Entry
<1>5. gs \in Seq(FrameType) /\ Len(gs) = n + 1 /\ gs[n + 1] = f /\ \A d \in 1..n : gs[d] = fs[d]
  BY <1>1, <1>2, <1>3, Pushed
<1>6. /\ ts \in Seq(ScopeType) /\ Len(ts) = m + 2 /\ ts[m + 1] = u /\ ts[m + 2] = s
      /\ \A p \in 1..m : ts[p] = ss[p]
  BY <1>1, <1>2, <1>3, PushedTwo
<1>7. ds \in Seq(CallType) /\ Len(ds) = l + 1 /\ ds[l + 1] = c /\ \A k \in 1..l : ds[k] = cs[k]
  BY <1>1, <1>2, <1>3, Pushed
<1>8. Over(fs, gs) /\ Over(ss, ts)
  BY <1>1, <1>5, <1>6 DEF Over
<1>9. /\ op \in Nat /\ op + 1 \in 0..MaxScopes /\ op + 1 \in 1..op + 1 /\ 1..op \subseteq 1..op + 1
      /\ op + 1 < Trampoline
  <2>1. Layout(fs, ss, cs, op) /\ op < MaxScopes
    OBVIOUS
  <2>. QED BY ONLY <2>1, NextToken
<1>10. FramesOK(gs, op + 1)
  BY <1>1, <1>5, <1>8, <1>4, FramesPushed
<1>11. \A p \in 1..m : ss[p].tok # Trampoline => ss[p].tok < op + 1
  BY <1>1, ScopesBefore
<1>12. ScopesOK(ts, op + 1)
  <2>1. ts[1].tok = 0 /\ m + 2 >= 1 /\ ts[m + 2].tok # Trampoline
    BY <1>4, <1>1, <1>6, <1>9 DEF Layout, ScopesOK
  <2>2. ASSUME NEW p \in 2..m + 2 PROVE ts[p].tok \in 1..op + 1 \/ ts[p].tok = Trampoline
    <3>1. CASE p = m + 1
      BY <1>4, <1>6, <3>1
    <3>2. CASE p = m + 2
      BY <1>4, <1>6, <1>9, <3>2
    <3>3. CASE p \in 2..m
      BY <1>4, <1>1, <1>6, <1>9, <3>3 DEF Layout, ScopesOK
    <3>. QED BY <1>1, <3>1, <3>2, <3>3
  <2>3. ASSUME NEW p \in 1..m + 2, NEW q \in 1..m + 2, p < q, ts[p].tok # Trampoline, ts[q].tok # Trampoline
        PROVE  ts[p].tok < ts[q].tok
    <3>1. p # m + 1 /\ q # m + 1
      BY <1>4, <1>6, <2>3
    <3>2. p \in 1..m
      BY <1>1, <2>3, <3>1
    <3>3. CASE q = m + 2
      BY <1>4, <1>6, <1>11, <2>3, <3>2, <3>3
    <3>4. CASE q \in 1..m
      BY <1>4, <1>1, <1>6, <2>3, <3>2, <3>4 DEF Layout, ScopesOK
    <3>5. q = m + 2 \/ q \in 1..m
      BY <1>1, <3>1
    <3>. QED BY <3>3, <3>4, <3>5
  <2>. QED BY <1>4, <1>6, <2>1, <2>2, <2>3 DEF ScopesOK
<1>13. ScopeOf(gs, ts, n + 1, m + 2)
  <2>1. ss[m].tok = fs[n].tok
    BY <1>1, TopsMatch
  <2>2. ts[m] = ss[m] /\ gs[n] = fs[n]
    BY <1>4, <1>1, <1>5, <1>6
  <2>3. PICK d \in Nat, p \in Nat : d = n + 1 /\ p = m + 2 /\ d - 1 = n /\ p - 1 = m + 1 /\ p - 2 = m /\ p > 2
    BY <1>1
  <2>4. gs[d].tok = op + 1 /\ gs[d].id = 0 /\ ts[p].tok = op + 1
    BY <1>4, <1>5, <1>6, <2>3
  <2>5. ts[p - 2].tok = gs[d - 1].tok
    BY <2>1, <2>2, <2>3
  <2>6. ts[p - 1].tok = Trampoline
    BY <1>4, <1>6, <2>3
  <2>7. ScopeOf(gs, ts, d, p)
    BY <2>3, <2>4, <2>5, <2>6 DEF ScopeOf
  <2>. QED BY <2>3, <2>7
<1>14. Matched(gs, ts)
  <2>1. ASSUME NEW d \in 2..n + 1 PROVE \E p \in 2..m + 2 : ScopeOf(gs, ts, d, p)
    <3>1. CASE d = n + 1
      BY <1>1, <1>13, <3>1
    <3>2. CASE d \in 2..n
      <4>1. PICK p \in 2..m : ScopeOf(fs, ss, d, p)
        BY <1>1, <3>2 DEF Layout, Matched
      <4>2. d \in 2..Len(fs) /\ p \in 2..Len(ss) /\ p \in 2..m + 2
        BY <1>1, <3>2
      <4>3. ScopeOf(gs, ts, d, p)
        BY <1>4, <1>5, <1>6, <1>8, <4>1, <4>2, OverKeeps
      <4>. QED BY <4>2, <4>3
    <3>3. d = n + 1 \/ d \in 2..n
      BY <1>1
    <3>. QED BY <3>1, <3>2, <3>3
  <2>2. ASSUME NEW p \in 2..m + 2, ts[p].tok # Trampoline PROVE \E d \in 2..n + 1 : ScopeOf(gs, ts, d, p)
    <3>1. CASE p = m + 2
      BY <1>1, <1>13, <3>1
    <3>2. CASE p \in 2..m
      <4>1. ts[p] = ss[p]
        BY <1>4, <1>1, <1>6, <3>2
      <4>2. PICK d \in 2..n : ScopeOf(fs, ss, d, p)
        BY <1>1, <2>2, <3>2, <4>1 DEF Layout, Matched
      <4>3. d \in 2..Len(fs) /\ p \in 2..Len(ss) /\ d \in 2..n + 1
        BY <1>1, <3>2
      <4>4. ScopeOf(gs, ts, d, p)
        BY <1>4, <1>5, <1>6, <1>8, <4>2, <4>3, OverKeeps
      <4>. QED BY <4>3, <4>4
    <3>3. p # m + 1
      BY <1>4, <1>6, <2>2
    <3>4. p = m + 2 \/ p \in 2..m
      BY <1>1, <3>3
    <3>. QED BY <3>1, <3>2, <3>4
  <2>. QED BY <1>4, <1>5, <1>6, <2>1, <2>2 DEF Matched
<1>15. CallOK(gs, ts, c)
  <2>1. n \in 1..n + 1 - 1 /\ m \in 1..m + 2 - 2
    BY <1>1
  <2>2. Len(c.below) = n /\ c.depth = m /\ c.tok = op + 1
    BY <1>1 DEF Entry
  <2>3. \A i \in 1..n : gs[i].tok = c.below[i]
    BY <1>1, <1>5 DEF Entry
  <2>4. gs[n + 1].tok = c.tok /\ gs[n + 1].id = 0 /\ ts[m + 1].tok = Trampoline /\ ts[m + 2].tok = c.tok
    BY <1>4, <1>5, <1>6, <2>2
  <2>. QED BY <1>4, <1>5, <1>6, <2>1, <2>2, <2>3, <2>4 DEF CallOK
<1>16. CallsOK(gs, ts, ds)
  <2>1. \A k \in 1..l : CallOK(gs, ts, cs[k])
    BY <1>4, <1>1, <1>5, <1>6, <1>8, OverKeeps
  <2>2. ASSUME NEW k \in 1..l + 1 PROVE CallOK(gs, ts, ds[k])
    <3>1. CASE k = l + 1
      BY <1>7, <1>15, <3>1
    <3>2. CASE k \in 1..l
      BY <1>7, <2>1, <3>2
    <3>3. k = l + 1 \/ k \in 1..l
      BY <1>1
    <3>. QED BY <3>1, <3>2, <3>3
  <2>3. ASSUME NEW k \in 1..l PROVE Len(cs[k].below) < n /\ cs[k].depth + 1 < m
    <3>1. PICK a \in 1..n - 1, b \in 1..m - 2 : a = Len(cs[k].below) /\ b = cs[k].depth
      BY <1>1 DEF Layout, CallsOK, CallOK
    <3>2. a < n /\ b + 1 < m
      BY <1>1
    <3>. QED BY <3>1, <3>2
  <2>4. ASSUME NEW j \in 1..l + 1, NEW k \in 1..l + 1, j < k
        PROVE  Len(ds[j].below) < Len(ds[k].below) /\ ds[j].depth + 1 < ds[k].depth
    <3>1. j \in 1..l /\ ds[j] = cs[j]
      BY <1>1, <1>7, <2>4
    <3>2. CASE k = l + 1
      BY <1>1, <1>7, <2>3, <3>1, <3>2 DEF Entry
    <3>3. CASE k \in 1..l
      BY <1>1, <1>7, <2>4, <3>1, <3>3 DEF Layout, CallsOK
    <3>. QED BY <1>1, <3>2, <3>3
  <2>5. ASSUME NEW p \in 1..m + 2, ts[p].tok = Trampoline PROVE \E k \in 1..l + 1 : ds[k].depth = p - 1
    <3>1. CASE p = m + 1
      <4>1. l + 1 \in 1..l + 1 /\ p - 1 = m
        BY <1>1, <3>1
      <4>. QED BY <1>1, <1>7, <4>1 DEF Entry
    <3>2. CASE p \in 1..m
      <4>1. ss[p].tok = Trampoline
        BY <1>4, <1>6, <2>5, <3>2
      <4>2. PICK k \in 1..l : cs[k].depth = p - 1
        BY <1>1, <3>2, <4>1 DEF Layout, CallsOK
      <4>3. k \in 1..l + 1 /\ ds[k] = cs[k]
        BY <1>1, <1>7
      <4>. QED BY <4>2, <4>3
    <3>3. p # m + 2
      BY <1>4, <1>6, <1>9, <2>5
    <3>4. p = m + 1 \/ p \in 1..m
      BY <1>1, <3>3
    <3>. QED BY <3>1, <3>2, <3>4
  <2>6. Len(ts) = m + 2 /\ Len(ds) = l + 1
    BY <1>6, <1>7
  <2>. QED BY <2>2, <2>4, <2>5, <2>6 DEF CallsOK
<1>. QED BY <1>4, <1>5, <1>6, <1>7, <1>9, <1>10, <1>12, <1>14, <1>16 DEF Layout

\* Frame n and scope m belong together, and so do the calls up to l.
CutAt(fs, ss, cs, n, m, l) ==
  /\ n \in 0..Len(fs) /\ m \in 1..Len(ss) /\ l \in 0..Len(cs)
  /\ n >= 1 => ss[m].tok = fs[n].tok
  /\ n = 0 => m = 1
  /\ \A k \in 1..l : Len(cs[k].below) + 1 <= n /\ cs[k].depth + 2 <= m
  /\ \A k \in 1..Len(cs) : k > l => cs[k].depth >= m

(* The stacks cut at places that belong together. *)
LEMMA LayoutCut ==
  ASSUME NEW fs, NEW ss, NEW cs, NEW op, Layout(fs, ss, cs, op),
         NEW n, NEW m, NEW l, CutAt(fs, ss, cs, n, m, l)
  PROVE  Layout(SubSeq(fs, 1, n), SubSeq(ss, 1, m), SubSeq(cs, 1, l), op)
<1>. PICK gs : gs = SubSeq(fs, 1, n)
  OBVIOUS
<1>. PICK ts : ts = SubSeq(ss, 1, m)
  OBVIOUS
<1>. PICK ds : ds = SubSeq(cs, 1, l)
  OBVIOUS
<1>1. PICK N \in Nat, M \in Nat, L \in Nat : N = Len(fs) /\ M = Len(ss) /\ L = Len(cs)
  BY Tokens
<1>2. /\ n \in 0..N /\ m \in 1..M /\ l \in 0..L
      /\ \A d \in 1..n : d \in 1..N
      /\ \A p \in 1..m : p \in 1..M
      /\ \A k \in 1..l : k \in 1..L
  BY <1>1 DEF CutAt
<1>3. fs \in Seq(FrameType) /\ ss \in Seq(ScopeType) /\ cs \in Seq(CallType)
  BY DEF Layout
<1>4. gs \in Seq(FrameType) /\ Len(gs) = n /\ \A d \in 1..n : gs[d] = fs[d]
  BY <1>1, <1>2, <1>3, Cut
<1>5. ts \in Seq(ScopeType) /\ Len(ts) = m /\ \A p \in 1..m : ts[p] = ss[p]
  <2>1. m \in 0..Len(ss)
    BY <1>1, <1>2
  <2>. QED BY <1>3, <2>1, Cut
<1>6. ds \in Seq(CallType) /\ Len(ds) = l /\ \A k \in 1..l : ds[k] = cs[k]
  BY <1>1, <1>2, <1>3, Cut
<1>7. FramesOK(gs, op)
  <2>1. n >= 1 => gs[1].tok = 0 /\ gs[1].id = 0
    BY <1>1, <1>2, <1>4 DEF Layout, FramesOK
  <2>2. \A d \in 2..n : d \in 1..n /\ d \in 2..N
    BY <1>2
  <2>3. \A d \in 2..n : gs[d].tok \in 1..op
    BY <1>1, <1>4, <2>2 DEF Layout, FramesOK
  <2>4. \A d, e \in 1..n : d < e => gs[d].tok < gs[e].tok
    BY <1>1, <1>2, <1>4 DEF Layout, FramesOK
  <2>. QED BY <1>4, <2>1, <2>3, <2>4 DEF FramesOK
<1>8. ScopesOK(ts, op)
  <2>1. m >= 1 /\ 1 \in 1..m /\ m \in 1..m /\ ts[1].tok = 0
    BY <1>1, <1>2, <1>5 DEF Layout, ScopesOK
  <2>2. \A p \in 2..m : p \in 1..m /\ p \in 2..M
    BY <1>2
  <2>3. \A p \in 2..m : ts[p].tok \in 1..op \/ ts[p].tok = Trampoline
    BY <1>1, <1>5, <2>2 DEF Layout, ScopesOK
  <2>4. \A p, q \in 1..m :
          p < q /\ ts[p].tok # Trampoline /\ ts[q].tok # Trampoline => ts[p].tok < ts[q].tok
    BY <1>1, <1>2, <1>5 DEF Layout, ScopesOK
  <2>5. ts[m].tok # Trampoline
    <3>1. CASE n >= 1
      <4>1. n \in 1..Len(fs) /\ ss[m].tok = fs[n].tok
        BY <1>1, <1>2, <3>1 DEF CutAt
      <4>2. fs[n].tok # Trampoline
        BY <4>1, Tokens
      <4>. QED BY <1>5, <2>1, <4>1, <4>2
    <3>2. CASE n = 0
      <4>1. m = 1
        BY <3>2 DEF CutAt
      <4>2. 0 # Trampoline
        BY ConstantsAssumption DEF Trampoline
      <4>. QED BY <2>1, <4>1, <4>2
    <3>3. n = 0 \/ n >= 1
      BY <1>2
    <3>. QED BY <3>1, <3>2, <3>3
  <2>. QED BY <1>5, <2>1, <2>3, <2>4, <2>5 DEF ScopesOK
<1>9. ASSUME NEW d \in 2..n, NEW p \in 2..m, ScopeOf(fs, ss, d, p) PROVE ScopeOf(gs, ts, d, p)
  <2>1. d \in 1..n /\ d - 1 \in 1..n /\ p \in 1..m /\ p - 1 \in 1..m
    BY <1>2
  <2>2. p > 2 => p - 2 \in 1..m
    BY <1>2
  <2>3. gs[d] = fs[d] /\ gs[d - 1] = fs[d - 1] /\ ts[p] = ss[p] /\ ts[p - 1] = ss[p - 1]
    BY <1>4, <1>5, <2>1
  <2>4. p > 2 => ts[p - 2] = ss[p - 2]
    BY <1>5, <2>2
  <2>. QED BY <1>9, <2>3, <2>4 DEF ScopeOf
<1>10. ASSUME NEW d \in 2..N, NEW p \in 2..M, ScopeOf(fs, ss, d, p) PROVE (d <= n) <=> (p <= m)
  <2>1. CASE n >= 1
    <3>1. n \in 1..Len(fs) /\ m \in 1..Len(ss) /\ d \in 1..Len(fs) /\ p \in 1..Len(ss)
      BY <1>1, <1>2, <2>1
    <3>2. ss[m].tok = fs[n].tok /\ ss[p].tok = fs[d].tok
      BY <1>10, <2>1 DEF CutAt, ScopeOf
    <3>3. m < p <=> n < d
      <4>1. Layout(fs, ss, cs, op)
        OBVIOUS
      <4>. QED BY ONLY <3>1, <3>2, <4>1, SameOrder
    <3>. QED BY <1>2, <3>3
  <2>2. CASE n = 0
    <3>1. m = 1
      BY <2>2 DEF CutAt
    <3>. QED BY <1>1, <2>2, <3>1
  <2>3. n = 0 \/ n >= 1
    BY <1>2
  <2>. QED BY <2>1, <2>2, <2>3
<1>11. Matched(gs, ts)
  <2>1. ASSUME NEW d \in 2..n PROVE \E p \in 2..m : ScopeOf(gs, ts, d, p)
    <3>1. d \in 2..N
      BY <1>1, <1>2
    <3>2. PICK p \in 2..M : ScopeOf(fs, ss, d, p)
      BY <1>1, <3>1 DEF Layout, Matched
    <3>3. p <= m
      BY <1>2, <1>10, <3>1, <3>2
    <3>4. p \in 2..m
      BY <1>2, <3>3
    <3>. QED BY <1>9, <3>2, <3>4
  <2>2. ASSUME NEW p \in 2..m, ts[p].tok # Trampoline PROVE \E d \in 2..n : ScopeOf(gs, ts, d, p)
    <3>1. p \in 2..M /\ p \in 1..m
      BY <1>1, <1>2
    <3>2. ss[p].tok # Trampoline
      BY <1>5, <2>2, <3>1
    <3>3. PICK d \in 2..N : ScopeOf(fs, ss, d, p)
      BY <1>1, <3>1, <3>2 DEF Layout, Matched
    <3>4. d <= n
      BY <1>2, <1>10, <3>1, <3>3
    <3>5. d \in 2..n
      BY <1>2, <3>4
    <3>. QED BY <1>9, <3>3, <3>5
  <2>. QED BY <1>4, <1>5, <2>1, <2>2 DEF Matched
<1>12. ASSUME NEW k \in 1..l PROVE CallOK(gs, ts, cs[k])
  <2>1. CallOK(fs, ss, cs[k]) /\ cs[k] \in CallType
    BY <1>1, <1>2, <1>3 DEF Layout, CallsOK
  <2>2. PICK a \in 1..N - 1, b \in 1..M - 2 : a = Len(cs[k].below) /\ b = cs[k].depth
    BY <1>1, <2>1 DEF CallOK
  <2>3. a + 1 <= n /\ b + 2 <= m
    BY <2>2 DEF CutAt
  <2>4. a \in 1..n - 1 /\ b \in 1..m - 2
    BY <1>2, <2>3
  <2>5. a + 1 \in 1..n /\ \A i \in 1..a : i \in 1..n
    BY <1>2, <2>4
  <2>6. b + 1 \in 1..m /\ b + 2 \in 1..m
    BY <1>2, <2>4
  <2>7. /\ gs[a + 1] = fs[a + 1] /\ \A i \in 1..a : gs[i] = fs[i]
        /\ ts[b + 1] = ss[b + 1] /\ ts[b + 2] = ss[b + 2]
    BY <1>4, <1>5, <2>5, <2>6
  <2>. QED BY <1>4, <1>5, <2>1, <2>2, <2>4, <2>7 DEF CallOK
<1>13. CallsOK(gs, ts, ds)
  <2>1. \A k \in 1..l : CallOK(gs, ts, ds[k])
    BY <1>6, <1>12
  <2>2. \A j, k \in 1..l :
          j < k => Len(ds[j].below) < Len(ds[k].below) /\ ds[j].depth + 1 < ds[k].depth
    BY <1>1, <1>2, <1>6 DEF Layout, CallsOK
  <2>3. ASSUME NEW p \in 1..m, ts[p].tok = Trampoline PROVE \E k \in 1..l : ds[k].depth = p - 1
    <3>1. p \in 1..M /\ ss[p].tok = Trampoline
      BY <1>2, <1>5, <2>3
    <3>2. PICK k \in 1..L : cs[k].depth = p - 1
      BY <1>1, <3>1 DEF Layout, CallsOK
    <3>3. ~ (p - 1 >= m)
      BY <1>2
    <3>4. ~ (k > l)
      BY <1>1, <3>2, <3>3 DEF CutAt
    <3>5. k \in 1..l
      BY <1>1, <1>2, <3>4
    <3>. QED BY <1>6, <3>2, <3>5
  <2>. QED BY <1>5, <1>6, <2>1, <2>2, <2>3 DEF CallsOK
<1>14. op \in 0..MaxScopes
  BY DEF Layout
<1>. QED BY <1>4, <1>5, <1>6, <1>7, <1>8, <1>11, <1>13, <1>14 DEF Layout

(* The innermost frame, if the guest opened it: no call needs it. *)
LEMMA CloseCut ==
  ASSUME NEW fs, NEW ss, NEW cs, NEW op, Layout(fs, ss, cs, op), Len(fs) >= 1, fs[Len(fs)].id # 0
  PROVE  /\ CutAt(fs, ss, cs, Len(fs) - 1, Len(ss) - 1, Len(cs))
         /\ Len(fs) >= 2 /\ Len(ss) >= 2
<1>1. PICK N \in Nat, M \in Nat, L \in Nat : N = Len(fs) /\ M = Len(ss) /\ L = Len(cs)
  BY Tokens
<1>2. N >= 2
  BY <1>1 DEF Layout, FramesOK
<1>3. M \in 1..Len(ss) /\ ss[M].tok = fs[N].tok
  BY <1>1, TopsMatch
<1>4. N \in 2..Len(fs)
  BY <1>1, <1>2
<1>5. M \in 2..Len(ss) /\ ScopeOf(fs, ss, N, M)
  BY <1>3, <1>4, ScopeOfFrame
<1>6. ss[M - 1].tok = fs[N - 1].tok
  BY <1>1, <1>5 DEF ScopeOf
<1>7. N - 1 \in 0..Len(fs) /\ M - 1 \in 1..Len(ss) /\ L \in 0..Len(cs) /\ N - 1 # 0 /\ M >= 2
  BY <1>1, <1>2, <1>5
<1>8. ASSUME NEW k \in 1..L PROVE Len(cs[k].below) + 1 <= N - 1 /\ cs[k].depth + 2 <= M - 1
  <2>1. CallOK(fs, ss, cs[k])
    BY <1>1 DEF Layout, CallsOK
  <2>2. PICK a \in 1..N - 1, b \in 1..M - 2 : a = Len(cs[k].below) /\ b = cs[k].depth
    BY <1>1, <2>1 DEF CallOK
  <2>3. fs[a + 1].id = 0 /\ ss[b + 2].tok = fs[a + 1].tok
    BY <2>1, <2>2 DEF CallOK
  <2>4. a + 1 # N
    BY <1>1, <2>3
  <2>5. a + 1 < N
    BY <1>1, <2>4
  <2>6. a + 1 \in 1..Len(fs) /\ N \in 1..Len(fs) /\ b + 2 \in 1..Len(ss)
    BY <1>1, <1>2
  <2>7. b + 2 < M
    <3>1. Layout(fs, ss, cs, op)
      OBVIOUS
    <3>. QED BY ONLY <1>3, <2>3, <2>5, <2>6, <3>1, SameOrder
  <2>8. a + 1 <= N - 1 /\ b + 2 <= M - 1
    BY <1>1, <2>5, <2>7
  <2>. QED BY <2>2, <2>8
<1>9. \A k \in 1..L : ~ (k > L)
  BY <1>1
<1>10. CutAt(fs, ss, cs, N - 1, M - 1, L)
  BY <1>1, <1>6, <1>7, <1>8, <1>9 DEF CutAt
<1>. QED BY <1>1, <1>2, <1>7, <1>10

(* The innermost call: the frames and scopes it found are below its own. *)
LEMMA LeaveCut ==
  ASSUME NEW fs, NEW ss, NEW cs, NEW op, Layout(fs, ss, cs, op), NEW c, cs # <<>>, c = cs[Len(cs)]
  PROVE  /\ CutAt(fs, ss, cs, Len(c.below), c.depth, Len(cs) - 1)
         /\ Len(c.below) \in Nat /\ Len(c.below) + 1 \in 1..Len(fs) /\ c.depth \in 1..Len(ss)
         /\ fs[Len(c.below) + 1].tok = c.tok
<1>1. PICK N \in Nat, M \in Nat, L \in Nat : N = Len(fs) /\ M = Len(ss) /\ L = Len(cs)
  BY Tokens
<1>2. L >= 1 /\ L \in 1..L /\ L - 1 \in 0..L
  <2>1. cs \in Seq(CallType)
    BY DEF Layout
  <2>. QED BY <1>1, <2>1
<1>3. CallOK(fs, ss, c)
  BY <1>1, <1>2 DEF Layout, CallsOK
<1>4. PICK a \in 1..N - 1, b \in 1..M - 2 : a = Len(c.below) /\ b = c.depth
  BY <1>1, <1>3 DEF CallOK
<1>5. /\ fs[a + 1].tok = c.tok /\ fs[a + 1].id = 0 /\ ss[b + 1].tok = Trampoline /\ ss[b + 2].tok = c.tok
  BY <1>3, <1>4 DEF CallOK
<1>6. a + 1 \in 2..Len(fs) /\ b + 2 \in 1..Len(ss) /\ a + 1 - 1 = a /\ b + 2 - 2 = b
  BY <1>1
<1>7. ss[b].tok = fs[a].tok
  <2>1. PICK d \in 2..Len(fs), p \in 1..Len(ss) : d = a + 1 /\ p = b + 2 /\ d - 1 = a /\ p - 2 = b
    BY <1>6
  <2>2. ss[p].tok = fs[d].tok /\ fs[d].id = 0
    BY <1>5, <2>1
  <2>3. ScopeOf(fs, ss, d, p)
    BY <2>2, ScopeOfFrame
  <2>4. ss[p - 2].tok = fs[d - 1].tok
    BY <2>2, <2>3 DEF ScopeOf
  <2>. QED BY <2>1, <2>4
<1>8. a \in 0..N /\ b \in 1..M /\ a # 0 /\ a + 1 \in 1..N
  BY <1>1
<1>9. ASSUME NEW k \in 1..L - 1 PROVE Len(cs[k].below) + 1 <= a /\ cs[k].depth + 2 <= b
  <2>1. k \in 1..L /\ k < L
    BY <1>1
  <2>2. PICK x \in 1..N - 1, y \in 1..M - 2 : x = Len(cs[k].below) /\ y = cs[k].depth
    BY <1>1, <2>1 DEF Layout, CallsOK, CallOK
  <2>3. x < a /\ y + 1 < b
    BY <1>1, <1>2, <1>4, <2>1, <2>2 DEF Layout, CallsOK
  <2>4. x + 1 <= a /\ y + 2 <= b
    BY <1>1, <2>3
  <2>. QED BY <2>2, <2>4
<1>10. ASSUME NEW k \in 1..L, k > L - 1 PROVE cs[k].depth >= b
  <2>1. k = L
    BY <1>1, <1>10
  <2>. QED BY <1>1, <1>4, <2>1
<1>11. CutAt(fs, ss, cs, a, b, L - 1)
  BY <1>1, <1>2, <1>7, <1>8, <1>9, <1>10 DEF CutAt
<1>. QED BY <1>1, <1>4, <1>5, <1>8, <1>11

(* Outside any call there are the frames and, above the env-wide one, their
   scopes. *)
LEMMA DrainCut ==
  ASSUME NEW fs, NEW ss, NEW cs, NEW op, Layout(fs, ss, cs, op), cs = <<>>
  PROVE  /\ CutAt(fs, ss, cs, 0, 1, 0)
         /\ \A p \in 2..Len(ss) : \E d \in 2..Len(fs) : fs[d].tok = ss[p].tok
<1>1. Len(fs) \in Nat /\ Len(ss) \in Nat /\ Len(cs) = 0 /\ Len(ss) >= 1
  BY Tokens DEF Layout, ScopesOK
<1>2. \A k \in 1..0 : FALSE
  OBVIOUS
<1>3. CutAt(fs, ss, cs, 0, 1, 0)
  BY <1>1, <1>2 DEF CutAt
<1>4. \A p \in 2..Len(ss) : p \in 1..Len(ss)
  BY <1>1
<1>5. \A p \in 2..Len(ss) : ss[p].tok # Trampoline
  BY <1>1, <1>2, <1>4 DEF Layout, CallsOK
<1>. QED BY <1>3, <1>5 DEF Layout, Matched, ScopeOf

-----------------------------------------------------------------------------
(* The scopes that stay open.                                              *)

(* Scopes are closed from the innermost down to the first one of the frames. *)
LEMMA ScopesBelowIs ==
  ASSUME NEW n, NEW m, m \in 1..Len(scopes), Len(scopes) \in Nat, scopes \in Seq(ScopeType),
         \A q \in 1..m : scopes[q].tok \notin {frames[i].tok : i \in Above(n)} \ {0},
         m < Len(scopes) => scopes[m + 1].tok \in {frames[i].tok : i \in Above(n)} \ {0}
  PROVE  ScopesBelow(n) = SubSeq(scopes, 1, m)
<1>. DEFINE toks == {frames[i].tok : i \in Above(n)} \ {0}
            kept == {p \in DOMAIN scopes : \A q \in 1..p : scopes[q].tok \notin toks}
<1>1. DOMAIN scopes = 1..Len(scopes)
  OBVIOUS
<1>2. ASSUME NEW p \in 1..Len(scopes) PROVE p \in kept <=> p <= m
  <2>1. CASE p <= m
    <3>1. \A q \in 1..p : q \in 1..m
      BY <2>1
    <3>. QED BY <1>1, <2>1, <3>1
  <2>2. CASE p > m
    <3>1. m < Len(scopes) /\ m + 1 \in 1..p
      BY <2>2
    <3>2. scopes[m + 1].tok \in toks
      BY <3>1
    <3>3. p \notin kept
      BY <3>1, <3>2
    <3>. QED BY <2>2, <3>3
  <2>. QED BY <2>1, <2>2
<1>3. kept = 1..m
  <2>1. \A p : p \in kept => p \in 1..Len(scopes)
    BY <1>1
  <2>. HIDE DEF kept
  <2>2. \A p : p \in kept => p \in 1..m
    BY <1>2, <2>1
  <2>3. \A p \in 1..m : p \in kept
    BY <1>2
  <2>. QED BY <2>2, <2>3
<1>4. Cardinality(1..m) = m
  <2>1. m \in Nat /\ m >= 1
    OBVIOUS
  <2>2. Cardinality(1..m) = IF 1 > m THEN 0 ELSE m - 1 + 1
    BY <2>1, FS_Interval
  <2>. QED BY <2>1, <2>2
<1>5. ScopesBelow(n) = SubSeq(scopes, 1, Cardinality(kept))
  BY DEF ScopesBelow
<1>. HIDE DEF kept
<1>. QED BY <1>3, <1>4, <1>5

(* Closing the innermost frame closes its scope. *)
LEMMA ScopesBelowClose ==
  ASSUME Layout(frames, scopes, calls, opened), Len(frames) >= 2, frames[Len(frames)].id # 0
  PROVE  ScopesBelow(Len(frames) - 1) = SubSeq(scopes, 1, Len(scopes) - 1)
<1>1. PICK N \in Nat, M \in Nat : N = Len(frames) /\ M = Len(scopes) /\ N >= 2
  BY Tokens
<1>2. scopes \in Seq(ScopeType) /\ frames \in Seq(FrameType)
  BY DEF Layout
<1>3. M >= 2 /\ M \in 1..Len(scopes) /\ scopes[M].tok = frames[N].tok
  BY <1>1, CloseCut, TopsMatch
<1>4. frames[N].tok \in 1..opened /\ frames[N].tok # Trampoline
  BY <1>1, Tokens DEF Layout, FramesOK
<1>5. Above(N - 1) = {N}
  <2>1. DOMAIN frames = 1..N
    BY <1>1, <1>2
  <2>. QED BY <1>1, <2>1 DEF Above
<1>6. frames[N].tok # 0
  BY <1>4
<1>7. \A t : t \in {frames[i].tok : i \in Above(N - 1)} \ {0} <=> t = frames[N].tok
  BY <1>5, <1>6
<1>8. ASSUME NEW q \in 1..M - 1 PROVE scopes[q].tok # frames[N].tok
  <2>1. q \in 1..Len(scopes) /\ q # M
    BY <1>1
  <2>. QED BY <1>3, <1>4, <2>1, OnePosition
<1>9. M - 1 \in 1..M /\ M - 1 + 1 = M
  BY <1>1, <1>3
<1>10. ScopesBelow(N - 1) = SubSeq(scopes, 1, M - 1)
  <2>1. PICK n, m : n = N - 1 /\ m = M - 1
    OBVIOUS
  <2>2. \A q \in 1..m : scopes[q].tok \notin {frames[i].tok : i \in Above(n)} \ {0}
    BY <1>7, <1>8, <2>1
  <2>3. scopes[m + 1].tok \in {frames[i].tok : i \in Above(n)} \ {0}
    BY <1>3, <1>7, <1>9, <2>1
  <2>4. m \in 1..Len(scopes) /\ Len(scopes) \in Nat
    BY <1>1, <1>9, <2>1
  <2>5. ScopesBelow(n) = SubSeq(scopes, 1, m)
    BY <1>2, <2>2, <2>3, <2>4, ScopesBelowIs
  <2>. QED BY <2>1, <2>5
<1>. QED BY <1>1, <1>10

(* Draining the frames outside any call leaves the env-wide scope. *)
LEMMA ScopesBelowDrain ==
  ASSUME Layout(frames, scopes, calls, opened), calls = <<>>
  PROVE  ScopesBelow(0) = SubSeq(scopes, 1, 1)
<1>1. Len(frames) \in Nat /\ Len(scopes) \in Nat /\ 1 \in 1..Len(scopes) /\ scopes[1].tok = 0
  BY Tokens DEF Layout, ScopesOK
<1>2. scopes \in Seq(ScopeType) /\ frames \in Seq(FrameType)
  BY DEF Layout
<1>3. Above(0) = 1..Len(frames)
  BY <1>1, <1>2 DEF Above
<1>4. \A q \in 1..1 : scopes[q].tok \notin {frames[i].tok : i \in Above(0)} \ {0}
  BY <1>1
<1>5. ASSUME 1 < Len(scopes) PROVE scopes[1 + 1].tok \in {frames[i].tok : i \in Above(0)} \ {0}
  <2>1. 2 \in 2..Len(scopes)
    BY <1>1, <1>5
  <2>2. PICK d \in 2..Len(frames) : frames[d].tok = scopes[2].tok
    BY <2>1, DrainCut
  <2>3. frames[d].tok \in 1..opened /\ opened \in Nat
    BY Tokens DEF Layout, FramesOK
  <2>4. d \in Above(0) /\ frames[d].tok # 0 /\ 1 + 1 = 2
    BY <1>1, <1>3, <2>3
  <2>. QED BY <2>2, <2>4
<1>. QED BY <1>1, <1>2, <1>4, <1>5, ScopesBelowIs

-----------------------------------------------------------------------------
(* The slot table.                                                         *)

(* Facts about the constants. *)
LEMMA Numbers ==
  /\ GenMod \in Nat /\ GenMod > 0 /\ MaxSlots \in Nat /\ MaxSlots > 0
  /\ MaxLocals \in Nat /\ MaxScopes \in Nat /\ ValueLimit \in Nat
  /\ Null \notin Locals
  BY ConstantsAssumption DEF Null, Locals

(* The slots in use are finitely many. *)
LEMMA InUseFinite == IsFiniteSet(InUse) /\ IsFiniteSet(Slots)
<1>1. IsFiniteSet(Slots)
  BY Numbers, FS_Interval DEF Slots
<1>. QED BY <1>1, FS_Subset DEF InUse

(* The next generation. *)
LEMMA NextGeneration ==
  ASSUME NEW g \in 0..GenMod - 1, NEW k \in 0..GenMod - 1, NEW x, x = Later(g, k)
  PROVE  x \in 0..GenMod - 1 /\ (x + 1) % GenMod = Later(g, k + 1) /\ (x + 1) % GenMod \in 0..GenMod - 1
<1>1. x \in 0..GenMod - 1
  BY Numbers DEF Later
<1>2. (x + 1) % GenMod = IF x + 1 = GenMod THEN 0 ELSE x + 1
  <2>1. CASE x + 1 = GenMod
    <3>1. GenMod % GenMod = 0
      BY Numbers
    <3>. QED BY <2>1, <3>1
  <2>2. CASE x + 1 < GenMod
    <3>1. \A y \in Nat : y < GenMod => y % GenMod = y
      BY Numbers
    <3>. QED BY <1>1, <2>2, <3>1
  <2>. QED BY <1>1, <2>1, <2>2, Numbers
<1>. QED BY <1>1, <1>2, Numbers DEF Later

(* A slot is freed when its frame is popped. *)
LEMMA FreeKeeps ==
  ASSUME SlotTypes, CountInv, HandedInv, NEW O \in SUBSET Slots, FreeValueSlots(O),
         reset' = reset, locals' = locals, answer' \in [ok : BOOLEAN, value : BOOLEAN]
  PROVE  /\ SlotTypes' /\ CountInv' /\ HandedInv'
         /\ \A i \in Slots : val'[i] = IF i \in O THEN Null ELSE val[i]
<1>. PICK F : F = {i \in O : val[i] # Null}
  OBVIOUS
<1>1. /\ val' = [i \in Slots |-> IF i \in F THEN Null ELSE val[i]]
      /\ gen' = [i \in Slots |-> IF i \in F THEN (gen[i] + 1) % GenMod ELSE gen[i]]
      /\ free' = free \cup F /\ count' = count - Cardinality(F)
      /\ size' = size /\ uses' = uses /\ handed' = handed
  BY DEF FreeValueSlots
<1>2. F \subseteq InUse /\ F \subseteq Slots
  BY DEF InUse
<1>3. \A i \in Slots : val'[i] = IF i \in O THEN Null ELSE val[i]
  BY <1>1
<1>4. \A i \in Slots : gen'[i] = IF i \in F THEN (gen[i] + 1) % GenMod ELSE gen[i]
  BY <1>1
<1>5. \A i \in Slots : gen[i] \in 0..GenMod - 1 /\ (gen[i] + 1) % GenMod \in 0..GenMod - 1
  <2>. SUFFICES ASSUME NEW i \in Slots
                PROVE  gen[i] \in 0..GenMod - 1 /\ (gen[i] + 1) % GenMod \in 0..GenMod - 1
    OBVIOUS
  <2>1. gen[i] \in 0..GenMod - 1
    BY DEF SlotTypes
  <2>2. 0 \in 0..GenMod - 1 /\ gen[i] = Later(gen[i], 0)
    BY <2>1, Numbers DEF Later
  <2>. QED BY <2>1, <2>2, NextGeneration
<1>6. SlotTypes'
  <2>1. gen' \in [Slots -> 0..GenMod - 1]
    BY <1>1, <1>5
  <2>2. val' \in [Slots -> Locals \cup {Null}]
    BY <1>1 DEF SlotTypes
  <2>3. \A i \in Slots : val'[i] # Null => uses[i] > 0
    BY <1>3 DEF SlotTypes
  <2>. QED BY <1>1, <1>2, <2>1, <2>2, <2>3 DEF SlotTypes
<1>7. InUse' = InUse \ F
  BY <1>1 DEF InUse
<1>8. CountInv'
  <2>1. Cardinality(InUse \ F) = Cardinality(InUse) - Cardinality(F)
    <3>1. IsFiniteSet(InUse) /\ F = InUse \cap F
      BY <1>2, InUseFinite
    <3>2. Cardinality(InUse \ F) = Cardinality(InUse) - Cardinality(InUse \cap F)
      BY <3>1, FS_Difference
    <3>. QED BY <3>1, <3>2
  <2>2. Cardinality(InUse) \in Nat /\ Cardinality(F) \in Nat
    <3>1. IsFiniteSet(F)
      BY <1>2, InUseFinite, FS_Subset
    <3>. QED BY <3>1, InUseFinite, FS_CardinalityType
  <2>3. free' = (1..size') \ InUse' /\ InUse' \subseteq 1..size'
    BY <1>1, <1>2, <1>7 DEF CountInv
  <2>4. count' = Cardinality(InUse')
    BY <1>1, <1>7, <2>1 DEF CountInv
  <2>5. ValueLimit # 0 => count' <= ValueLimit
    BY <1>1, <2>2, Numbers DEF CountInv
  <2>. QED BY <2>3, <2>4, <2>5 DEF CountInv
<1>9. HandedInv'
  <2>. SUFFICES ASSUME NEW h \in handed, h.reset = reset
                PROVE  /\ h.use \in 1..uses[h.slot]
                       /\ h.use = uses[h.slot] => val'[h.slot] \in {Null, h.local}
                       /\ uses[h.slot] < h.use + GenMod =>
                            gen'[h.slot] = Later(h.gen, Freed(h.slot)' - (h.use - 1))
    BY <1>1 DEF HandedInv
  <2>1. PICK i \in Slots, g \in 0..GenMod - 1, u \in Nat : i = h.slot /\ g = h.gen /\ u = h.use
    BY DEF SlotTypes
  <2>2. PICK v \in Nat : v = uses[i]
    BY DEF SlotTypes
  <2>3. /\ u \in 1..v /\ (u = v => val[i] \in {Null, h.local})
        /\ v < u + GenMod => gen[i] = Later(g, Freed(i) - (u - 1))
    BY <2>1, <2>2 DEF HandedInv
  <2>4. CASE i \in F
    <3>1. val[i] # Null /\ val'[i] = Null /\ gen'[i] = (gen[i] + 1) % GenMod
      BY <1>1, <1>4, <2>4
    <3>2. Freed(i) = v - 1 /\ Freed(i)' = v
      BY <1>1, <2>2, <3>1 DEF Freed
    <3>3. ASSUME v < u + GenMod PROVE gen'[i] = Later(g, v - (u - 1))
      <4>1. PICK k \in 0..GenMod - 1 : k = v - 1 - (u - 1) /\ k + 1 = v - (u - 1)
        BY <2>3, <3>3, Numbers
      <4>2. gen[i] = Later(g, k)
        BY <2>3, <3>2, <3>3, <4>1
      <4>3. (gen[i] + 1) % GenMod = Later(g, k + 1)
        BY <4>2, NextGeneration
      <4>. QED BY <3>1, <4>1, <4>3
    <3>. QED BY <2>1, <2>2, <2>3, <3>1, <3>2, <3>3
  <2>5. CASE i \notin F
    <3>1. gen'[i] = gen[i] /\ val'[i] = val[i]
      BY <1>1, <1>4, <2>5
    <3>2. Freed(i)' = Freed(i)
      BY <1>1, <3>1 DEF Freed
    <3>. QED BY <2>1, <2>2, <2>3, <3>1, <3>2
  <2>. QED BY <2>4, <2>5
<1>. QED BY <1>3, <1>6, <1>8, <1>9

\* fs with the same frames, owning perhaps more; ss with the same scopes.
SameFrames(fs, gs) ==
  /\ gs \in Seq(FrameType) /\ Len(gs) = Len(fs)
  /\ \A d \in 1..Len(fs) : gs[d].tok = fs[d].tok /\ gs[d].id = fs[d].id

SameScopes(ss, ts) ==
  /\ ts \in Seq(ScopeType) /\ Len(ts) = Len(ss)
  /\ \A p \in 1..Len(ss) : ts[p].tok = ss[p].tok /\ ss[p].alive \subseteq ts[p].alive

(* A Local in one of the scopes. *)
LEMMA LocalAdded ==
  ASSUME NEW ss \in Seq(ScopeType), NEW p \in 1..Len(ss), AddLocal(ss, p), locals \in 0..MaxLocals
  PROVE  /\ SameScopes(ss, scopes') /\ locals + 1 \in scopes'[p].alive
         /\ locals' \in 0..MaxLocals /\ locals + 1 \in Locals /\ locals + 1 # Null
<1>1. locals + 1 \in Locals /\ locals' \in 0..MaxLocals /\ locals + 1 # Null
  BY Numbers DEF AddLocal, Locals, Null
<1>2. scopes' = [ss EXCEPT ![p] = [ss[p] EXCEPT !.alive = ss[p].alive \cup {locals + 1}]]
  BY DEF AddLocal
<1>3. PICK s \in ScopeType : s = ss[p]
  OBVIOUS
<1>4. PICK t : t = [s EXCEPT !.alive = s.alive \cup {locals + 1}]
  OBVIOUS
<1>5. t \in ScopeType /\ t.tok = s.tok /\ t.alive = s.alive \cup {locals + 1}
  <2>1. s.alive \cup {locals + 1} \in SUBSET Locals
    BY <1>1 DEF ScopeType
  <2>2. t \in ScopeType
    BY <1>4, <2>1 DEF ScopeType
  <2>3. t.tok = s.tok /\ t.alive = s.alive \cup {locals + 1}
    BY <1>4 DEF ScopeType
  <2>. QED BY <2>2, <2>3
<1>6. scopes' = [ss EXCEPT ![p] = t]
  BY <1>2, <1>3, <1>4
<1>7. scopes' \in Seq(ScopeType) /\ Len(scopes') = Len(ss)
  BY <1>6, <1>5
<1>8. \A q \in 1..Len(ss) : scopes'[q] = IF q = p THEN t ELSE ss[q]
  BY <1>6
<1>9. \A q \in 1..Len(ss) : scopes'[q].tok = ss[q].tok /\ ss[q].alive \subseteq scopes'[q].alive
  BY <1>3, <1>5, <1>8
<1>10. locals + 1 \in scopes'[p].alive
  BY <1>5, <1>8
<1>. QED BY <1>1, <1>7, <1>9, <1>10 DEF SameScopes

\* Slot i of frame d of fs holds the new Local.
Stored(fs, d, i) ==
  /\ i \in Slots /\ i \notin InUse /\ InUse' = InUse \cup {i}
  /\ val' = [val EXCEPT ![i] = locals + 1] /\ count' = count + 1
  /\ frames' = [fs EXCEPT ![d] = [fs[d] EXCEPT !.owned = fs[d].owned \cup {i}]]
  /\ uses' = [uses EXCEPT ![i] = uses[i] + 1] /\ gen' = gen
  /\ handed' = handed \cup {[slot |-> i, gen |-> gen[i], local |-> locals + 1,
                             use |-> uses[i] + 1, reset |-> reset]}
  /\ size' \in 0..MaxSlots /\ free' = (1..size') \ InUse' /\ InUse' \subseteq 1..size'

(* A value is stored in a slot that is not in use, or not at all. *)
LEMMA StoreCases ==
  ASSUME SlotTypes, CountInv, NEW fs, NEW d, StoreValueInFrame(fs, d), locals + 1 # Null
  PROVE  \/ frames' = fs /\ UNCHANGED table
         \/ ~AtLimit /\ \E i \in Slots : Stored(fs, d, i)
<1>1. CASE frames' = fs /\ UNCHANGED table
  BY <1>1
<1>2. CASE ~ (frames' = fs /\ UNCHANGED table)
  <2>1. ~AtLimit /\ gen' = gen
    BY <1>2 DEF StoreValueInFrame
  <2>2. PICK i \in IF free # {} THEN free ELSE {size + 1} \cap Slots :
              /\ free' = free \ {i}
              /\ size' = IF free # {} THEN size ELSE i
              /\ val' = [val EXCEPT ![i] = locals + 1]
              /\ count' = count + 1
              /\ frames' = [fs EXCEPT ![d].owned = @ \cup {i}]
              /\ uses' = [uses EXCEPT ![i] = @ + 1]
              /\ handed' = handed \cup
                   {[slot |-> i, gen |-> gen[i], local |-> locals + 1,
                     use |-> uses[i] + 1, reset |-> reset]}
    BY <1>2 DEF StoreValueInFrame
  <2>3. size \in 0..MaxSlots /\ free = (1..size) \ InUse /\ InUse \subseteq 1..size /\ free \subseteq Slots
    BY DEF SlotTypes, CountInv
  <2>4. i \in Slots /\ i \notin InUse /\ (free # {} => i \in free) /\ (free = {} => i = size + 1)
    BY <2>2, <2>3, Numbers
  <2>5. InUse' = InUse \cup {i}
    <3>1. \A j \in Slots : val'[j] = IF j = i THEN locals + 1 ELSE val[j]
      BY <2>2, <2>4 DEF SlotTypes
    <3>. QED BY <2>4, <3>1 DEF InUse
  <2>6. size' \in 0..MaxSlots /\ free' = (1..size') \ InUse' /\ InUse' \subseteq 1..size'
    <3>1. CASE free # {}
      BY <2>2, <2>3, <2>4, <2>5, <3>1
    <3>2. CASE free = {}
      <4>1. size' = size + 1 /\ i = size + 1 /\ free' = {}
        BY <2>2, <2>4, <3>2
      <4>2. 1..(size + 1) = (1..size) \cup {size + 1}
        BY <2>3
      <4>3. size + 1 \in 0..MaxSlots
        BY <2>4, <4>1, Numbers DEF Slots
      <4>. QED BY <2>3, <2>5, <3>2, <4>1, <4>2, <4>3
    <3>. QED BY <3>1, <3>2
  <2>7. Stored(fs, d, i)
    BY <2>1, <2>2, <2>4, <2>5, <2>6 DEF Stored
  <2>. QED BY <2>1, <2>4, <2>7
<1>. QED BY <1>1, <1>2

(* The frame that owns the slot. *)
LEMMA StoredFrame ==
  ASSUME NEW fs \in Seq(FrameType), NEW d \in 1..Len(fs), NEW i, Stored(fs, d, i)
  PROVE  /\ SameFrames(fs, frames')
         /\ \A e \in 1..Len(fs) : frames'[e].owned = IF e = d THEN fs[e].owned \cup {i} ELSE fs[e].owned
<1>1. PICK f \in FrameType : f = fs[d]
  OBVIOUS
<1>2. PICK g : g = [f EXCEPT !.owned = f.owned \cup {i}]
  OBVIOUS
<1>3. g \in FrameType /\ g.tok = f.tok /\ g.id = f.id /\ g.owned = f.owned \cup {i}
  <2>1. f.owned \cup {i} \in SUBSET Slots
    BY DEF FrameType, Stored
  <2>2. g \in FrameType
    BY <1>2, <2>1 DEF FrameType
  <2>3. g.tok = f.tok /\ g.id = f.id /\ g.owned = f.owned \cup {i}
    BY <1>2 DEF FrameType
  <2>. QED BY <2>2, <2>3
<1>4. frames' = [fs EXCEPT ![d] = g]
  BY <1>1, <1>2 DEF Stored
<1>5. frames' \in Seq(FrameType) /\ Len(frames') = Len(fs)
  BY <1>3, <1>4
<1>6. \A e \in 1..Len(fs) : frames'[e] = IF e = d THEN g ELSE fs[e]
  BY <1>4
<1>. QED BY <1>1, <1>3, <1>5, <1>6 DEF SameFrames

(* The value of every slot afterwards. *)
LEMMA StoredValues ==
  ASSUME SlotTypes, NEW fs, NEW d, NEW i, Stored(fs, d, i)
  PROVE  /\ i \in Slots /\ val[i] = Null
         /\ \A j \in Slots : /\ val'[j] = IF j = i THEN locals + 1 ELSE val[j]
                             /\ uses'[j] = IF j = i THEN uses[j] + 1 ELSE uses[j]
  BY DEF SlotTypes, Stored, InUse

(* The slots and their owners. *)
LEMMA StoredOwned ==
  ASSUME SlotTypes, NEW fs \in Seq(FrameType), NEW d \in 1..Len(fs), NEW i, Stored(fs, d, i),
         OwnedBy(fs, val), locals + 1 # Null
  PROVE  OwnedBy(frames', val')
<1>1. i \in Slots /\ val[i] = Null /\ \A j \in Slots : val'[j] = IF j = i THEN locals + 1 ELSE val[j]
  BY StoredValues
<1>2. /\ Len(frames') = Len(fs)
      /\ \A e \in 1..Len(fs) : frames'[e].owned = IF e = d THEN fs[e].owned \cup {i} ELSE fs[e].owned
  BY StoredFrame DEF SameFrames
<1>3. \A e \in 1..Len(fs) : i \notin fs[e].owned
  BY <1>1 DEF OwnedBy
<1>4. ASSUME NEW j \in Slots
      PROVE  val'[j] # Null <=> \E e \in 1..Len(fs) : j \in frames'[e].owned
  <2>1. CASE j = i
    BY <1>1, <1>2, <2>1
  <2>2. CASE j # i
    <3>1. val'[j] = val[j] /\ \A e \in 1..Len(fs) : j \in frames'[e].owned <=> j \in fs[e].owned
      BY <1>1, <1>2, <2>2
    <3>. QED BY <3>1 DEF OwnedBy
  <2>. QED BY <2>1, <2>2
<1>5. ASSUME NEW a \in 1..Len(fs), NEW b \in 1..Len(fs), NEW j \in frames'[a].owned, j \in frames'[b].owned
      PROVE  a = b
  <2>1. CASE j = i
    BY <1>2, <1>3, <1>5, <2>1
  <2>2. CASE j # i
    <3>1. j \in fs[a].owned /\ j \in fs[b].owned
      BY <1>2, <1>5, <2>2
    <3>. QED BY <3>1 DEF OwnedBy
  <2>. QED BY <2>1, <2>2
<1>. QED BY <1>2, <1>4, <1>5 DEF OwnedBy

(* The count, the free slots and the limit. *)
LEMMA StoredCount ==
  ASSUME SlotTypes, CountInv, NEW fs, NEW d, NEW i, Stored(fs, d, i), ~AtLimit
  PROVE  CountInv'
<1>1. Cardinality(InUse \cup {i}) = Cardinality(InUse) + 1
  BY InUseFinite, FS_AddElement DEF Stored
<1>2. Cardinality(InUse) \in Nat
  BY InUseFinite, FS_CardinalityType
<1>3. count' = Cardinality(InUse')
  BY <1>1 DEF Stored, CountInv
<1>4. ValueLimit # 0 => count' <= ValueLimit
  BY <1>2, Numbers DEF Stored, CountInv, AtLimit
<1>. QED BY <1>3, <1>4 DEF Stored, CountInv

(* The ids given out. *)
LEMMA StoredHanded ==
  ASSUME SlotTypes, HandedInv, NEW fs, NEW d, NEW i, Stored(fs, d, i), reset' = reset, locals + 1 # Null
  PROVE  HandedInv'
<1>1. /\ i \in Slots /\ val[i] = Null
      /\ \A j \in Slots : /\ val'[j] = IF j = i THEN locals + 1 ELSE val[j]
                          /\ uses'[j] = IF j = i THEN uses[j] + 1 ELSE uses[j]
  BY StoredValues
<1>2. gen' = gen
  BY DEF Stored
<1>3. PICK v \in Nat, g \in 0..GenMod - 1 : v = uses[i] /\ g = gen[i]
  BY <1>1 DEF SlotTypes
<1>4. PICK new : new = [slot |-> i, gen |-> gen[i], local |-> locals + 1, use |-> uses[i] + 1, reset |-> reset]
  OBVIOUS
<1>. DEFINE Sound(h) == /\ h.use \in 1..uses'[h.slot]
                        /\ h.use = uses'[h.slot] => val'[h.slot] \in {Null, h.local}
                        /\ uses'[h.slot] < h.use + GenMod =>
                             gen'[h.slot] = Later(h.gen, Freed(h.slot)' - (h.use - 1))
<1>5. Freed(i)' = v /\ Freed(i) = v
  <2>1. uses'[i] = v + 1 /\ val'[i] # Null
    BY <1>1, <1>3
  <2>2. Freed(i)' = uses'[i] - 1
    BY <2>1 DEF Freed
  <2>. QED BY <1>1, <1>3, <2>1, <2>2 DEF Freed
<1>6. Sound(new)
  <2>1. new.slot = i /\ new.gen = g /\ new.local = locals + 1 /\ new.use = v + 1
    BY <1>3, <1>4
  <2>2. uses'[i] = v + 1 /\ val'[i] = locals + 1 /\ gen'[i] = g
    BY <1>1, <1>2, <1>3
  <2>3. v + 1 \in 1..v + 1 /\ v - (v + 1 - 1) = 0 /\ Later(g, 0) = g
    BY <1>3, Numbers DEF Later
  <2>. QED BY <1>5, <2>1, <2>2, <2>3
<1>7. ASSUME NEW h \in handed, h.reset = reset PROVE Sound(h)
  <2>1. PICK j \in Slots, u \in Nat : j = h.slot /\ u = h.use
    BY DEF SlotTypes
  <2>2. PICK w \in Nat : w = uses[j]
    BY DEF SlotTypes
  <2>3. /\ u \in 1..w /\ (u = w => val[j] \in {Null, h.local})
        /\ w < u + GenMod => gen[j] = Later(h.gen, Freed(j) - (u - 1))
    BY <1>7, <2>1, <2>2 DEF HandedInv
  <2>4. CASE j = i
    <3>1. w = v /\ uses'[j] = w + 1 /\ Freed(j)' = Freed(j)
      BY <1>1, <1>3, <1>5, <2>2, <2>4
    <3>2. u \in 1..w + 1 /\ u # w + 1 /\ (w + 1 < u + GenMod => w < u + GenMod)
      BY <2>3, Numbers
    <3>. QED BY <1>2, <2>1, <2>3, <3>1, <3>2
  <2>5. CASE j # i
    <3>1. uses'[j] = w /\ val'[j] = val[j]
      BY <1>1, <2>2, <2>5
    <3>2. Freed(j)' = Freed(j)
      BY <2>2, <3>1 DEF Freed
    <3>. QED BY <1>2, <2>1, <2>3, <3>1, <3>2
  <2>. QED BY <2>4, <2>5
<1>8. handed' = handed \cup {new}
  BY <1>4 DEF Stored
<1>9. \A h \in handed' : h.reset = reset' => Sound(h)
  <2>. HIDE DEF Sound
  <2>. QED BY <1>6, <1>7, <1>8
<1>. QED BY <1>9 DEF HandedInv

(* A new Local is stored: the types of the table. *)
LEMMA StoredTypes ==
  ASSUME SlotTypes, NEW fs, NEW d, NEW i, Stored(fs, d, i), reset' = reset, locals + 1 \in Locals,
         locals' \in 0..MaxLocals, answer' \in [ok : BOOLEAN, value : BOOLEAN]
  PROVE  SlotTypes'
<1>1. i \in Slots /\ uses[i] + 1 \in Nat /\ gen[i] \in 0..GenMod - 1 /\ uses[i] \in Nat
  BY DEF Stored, SlotTypes
<1>2. val' \in [Slots -> Locals \cup {Null}] /\ uses' \in [Slots -> Nat] /\ gen' \in [Slots -> 0..GenMod - 1]
  BY <1>1 DEF Stored, SlotTypes
<1>3. free' \subseteq Slots /\ size' \in 0..MaxSlots
  BY Numbers DEF Stored, Slots
<1>4. \A j \in Slots : val'[j] # Null => uses'[j] > 0
  BY <1>1, StoredValues DEF SlotTypes
<1>. DEFINE new == [slot |-> i, gen |-> gen[i], local |-> locals + 1, use |-> uses[i] + 1, reset |-> reset]
<1>5. reset \in BOOLEAN
  BY DEF SlotTypes
<1>6. /\ new \in [slot : Slots, gen : 0..GenMod - 1, local : Locals, use : Nat, reset : BOOLEAN]
      /\ new.reset = reset
  BY <1>1, <1>5
<1>7. handed' = handed \cup {new}
  BY DEF Stored
<1>8. handed' \subseteq [slot : Slots, gen : 0..GenMod - 1, local : Locals, use : Nat, reset : BOOLEAN]
  <2>. HIDE DEF new
  <2>. QED BY <1>6, <1>7 DEF SlotTypes
<1>9. \A h \in handed' : h.reset => reset'
  <2>. HIDE DEF new
  <2>. QED BY <1>6, <1>7 DEF SlotTypes
<1>. QED BY <1>2, <1>3, <1>4, <1>5, <1>8, <1>9 DEF SlotTypes

(* The slot table is left alone. *)
LEMMA TableSame ==
  ASSUME SlotTypes, CountInv, HandedInv, UNCHANGED table, reset' = reset, locals' \in 0..MaxLocals,
         answer' \in [ok : BOOLEAN, value : BOOLEAN]
  PROVE  SlotTypes' /\ CountInv' /\ HandedInv' /\ val' = val
<1>1. /\ size' = size /\ gen' = gen /\ val' = val /\ free' = free /\ count' = count
      /\ uses' = uses /\ handed' = handed
  BY DEF table
<1>2. SlotTypes'
  BY <1>1 DEF SlotTypes
<1>3. InUse' = InUse
  BY <1>1 DEF InUse
<1>4. CountInv'
  BY <1>1, <1>3 DEF CountInv
<1>5. \A i : Freed(i)' = Freed(i)
  BY <1>1 DEF Freed
<1>6. HandedInv'
  BY <1>1, <1>5 DEF HandedInv
<1>. QED BY <1>1, <1>2, <1>4, <1>6

(* A new Local in the scope of the frame that is to own its slot. *)
LEMMA StoreKeeps ==
  ASSUME SlotTypes, CountInv, HandedInv, reset' = reset,
         NEW fs \in Seq(FrameType), NEW d \in 1..Len(fs), NEW ss \in Seq(ScopeType), NEW p \in 1..Len(ss),
         OwnedBy(fs, val), AliveIn(fs, ss, val), ss[p].tok = fs[d].tok,
         AddLocal(ss, p), StoreValueInFrame(fs, d)
  PROVE  /\ SlotTypes' /\ CountInv' /\ HandedInv'
         /\ OwnedBy(frames', val') /\ AliveIn(frames', scopes', val')
         /\ SameFrames(fs, frames') /\ SameScopes(ss, scopes')
<1>1. /\ SameScopes(ss, scopes') /\ locals + 1 \in scopes'[p].alive
      /\ locals' \in 0..MaxLocals /\ locals + 1 \in Locals /\ locals + 1 # Null
  BY LocalAdded DEF SlotTypes
<1>2. answer' \in [ok : BOOLEAN, value : BOOLEAN]
  <2>1. answer' = [ok |-> TRUE, value |-> FALSE] \/ answer' = [ok |-> TRUE, value |-> TRUE]
    BY DEF StoreValueInFrame
  <2>2. \A b \in BOOLEAN : [ok |-> TRUE, value |-> b] \in [ok : BOOLEAN, value : BOOLEAN]
    OBVIOUS
  <2>. QED BY <2>1, <2>2
<1>3. CASE frames' = fs /\ UNCHANGED table
  <2>1. SlotTypes' /\ CountInv' /\ HandedInv' /\ val' = val
    BY <1>1, <1>2, <1>3, TableSame
  <2>2. AliveIn(frames', scopes', val')
    <3>. SUFFICES ASSUME NEW e \in 1..Len(fs), NEW i \in fs[e].owned
                  PROVE  \E q \in 1..Len(ss) : scopes'[q].tok = fs[e].tok /\ val[i] \in scopes'[q].alive
      BY <1>1, <1>3, <2>1 DEF AliveIn, SameScopes
    <3>1. PICK q \in 1..Len(ss) : ss[q].tok = fs[e].tok /\ val[i] \in ss[q].alive
      BY DEF AliveIn
    <3>. QED BY <1>1, <3>1 DEF SameScopes
  <2>3. SameFrames(fs, frames')
    BY <1>3 DEF SameFrames
  <2>. QED BY <1>1, <1>3, <2>1, <2>2, <2>3
<1>4. ASSUME ~AtLimit, NEW i \in Slots, Stored(fs, d, i)
      PROVE  /\ SlotTypes' /\ CountInv' /\ HandedInv'
             /\ OwnedBy(frames', val') /\ AliveIn(frames', scopes', val') /\ SameFrames(fs, frames')
  <2>1. SlotTypes' /\ CountInv' /\ HandedInv' /\ OwnedBy(frames', val')
    BY <1>1, <1>2, <1>4, StoredTypes, StoredCount, StoredHanded, StoredOwned
  <2>2. /\ SameFrames(fs, frames')
        /\ \A e \in 1..Len(fs) : frames'[e].owned = IF e = d THEN fs[e].owned \cup {i} ELSE fs[e].owned
    BY <1>4, StoredFrame
  <2>3. val[i] = Null /\ \A j \in Slots : val'[j] = IF j = i THEN locals + 1 ELSE val[j]
    BY <1>4, StoredValues
  <2>4. ASSUME NEW e \in 1..Len(fs), NEW j \in frames'[e].owned
        PROVE  \E q \in 1..Len(ss) : scopes'[q].tok = frames'[e].tok /\ val'[j] \in scopes'[q].alive
    <3>1. frames'[e].tok = fs[e].tok
      BY <2>2 DEF SameFrames
    <3>2. CASE j = i
      <4>1. e = d
        <5>1. i \notin fs[e].owned
          BY <1>4, <2>3 DEF OwnedBy
        <5>. QED BY <2>2, <2>4, <3>2, <5>1
      <4>2. val'[j] = locals + 1
        BY <2>3, <3>2
      <4>3. scopes'[p].tok = frames'[e].tok
        BY <1>1, <3>1, <4>1 DEF SameScopes
      <4>. QED BY <1>1, <4>2, <4>3
    <3>3. CASE j # i
      <4>1. j \in fs[e].owned /\ j \in Slots
        <5>1. j \in fs[e].owned
          BY <2>2, <2>4, <3>3
        <5>2. fs[e] \in FrameType
          OBVIOUS
        <5>3. fs[e].owned \subseteq Slots
          BY <5>2 DEF FrameType
        <5>. QED BY <5>1, <5>3
      <4>2. val'[j] = val[j]
        BY <2>3, <3>3, <4>1
      <4>3. PICK q \in 1..Len(ss) : ss[q].tok = fs[e].tok /\ val[j] \in ss[q].alive
        BY <4>1 DEF AliveIn
      <4>. QED BY <1>1, <3>1, <4>2, <4>3 DEF SameScopes
    <3>. QED BY <3>2, <3>3
  <2>5. AliveIn(frames', scopes', val')
    BY <1>1, <2>2, <2>4 DEF AliveIn, SameFrames, SameScopes
  <2>. QED BY <2>1, <2>2, <2>5
<1>. QED BY <1>1, <1>3, <1>4, StoreCases

(* Frames are popped down to n and scopes closed down to m. *)
LEMMA PopKeeps ==
  ASSUME Inv, NEW n, NEW m, NEW l, CutAt(frames, scopes, calls, n, m, l), PopFrames(n),
         scopes' = SubSeq(scopes, 1, m), calls' = SubSeq(calls, 1, l), opened' = opened,
         reset' = reset, locals' = locals, answer' \in [ok : BOOLEAN, value : BOOLEAN]
  PROVE  Inv'
<1>1. PICK N \in Nat, M \in Nat : N = Len(frames) /\ M = Len(scopes)
  BY Tokens DEF Inv
<1>2. frames \in Seq(FrameType) /\ scopes \in Seq(ScopeType) /\ n \in 0..N /\ m \in 1..M /\ m \in 0..M
  BY <1>1 DEF Inv, Layout, CutAt
<1>3. frames' = SubSeq(frames, 1, n)
  BY DEF PopFrames
<1>4. Len(frames') = n /\ \A d \in 1..n : frames'[d] = frames[d] /\ d \in 1..N
  BY <1>1, <1>2, <1>3, Cut
<1>5. Len(scopes') = m /\ \A p \in 1..m : scopes'[p] = scopes[p]
  BY <1>1, <1>2, Cut
<1>6. PICK O : O = UNION {frames[d].owned : d \in Above(n)}
  OBVIOUS
<1>7. \A i : i \in O <=> \E d \in 1..N : d > n /\ i \in frames[d].owned
  <2>1. DOMAIN frames = 1..N
    BY <1>1, <1>2
  <2>. QED BY <1>6, <2>1 DEF Above
<1>8. \A d \in 1..N : frames[d].owned \subseteq Slots
  <2>1. \A d \in 1..N : frames[d] \in FrameType
    BY <1>1, <1>2
  <2>2. \A f \in FrameType : f.owned \subseteq Slots
    BY DEF FrameType
  <2>. QED BY <2>1, <2>2
<1>9. O \in SUBSET Slots
  BY <1>7, <1>8
<1>10. /\ SlotTypes' /\ CountInv' /\ HandedInv'
       /\ \A i \in Slots : val'[i] = IF i \in O THEN Null ELSE val[i]
  BY <1>6, <1>9, FreeKeeps DEF Inv, PopFrames
<1>11. OwnedBy(frames', val')
  <2>1. ASSUME NEW i \in Slots PROVE val'[i] # Null <=> \E d \in 1..n : i \in frames'[d].owned
    <3>1. CASE i \in O
      <4>1. PICK e \in 1..N : e > n /\ i \in frames[e].owned
        BY <1>7, <3>1
      <4>2. ASSUME NEW d \in 1..n, i \in frames'[d].owned PROVE FALSE
        <5>1. d = e
          BY <1>1, <1>4, <4>1, <4>2 DEF Inv, OwnedBy
        <5>. QED BY <1>2, <4>1, <5>1
      <4>. QED BY <1>10, <3>1, <4>2
    <3>2. CASE i \notin O
      <4>1. val'[i] = val[i]
        BY <1>10, <3>2
      <4>2. val[i] # Null <=> \E d \in 1..N : i \in frames[d].owned
        BY <1>1 DEF Inv, OwnedBy
      <4>3. ASSUME NEW d \in 1..N, i \in frames[d].owned PROVE d \in 1..n /\ i \in frames'[d].owned
        <5>1. d \in 1..n
          <6>1. ~ (d > n)
            BY <1>7, <3>2, <4>3
          <6>. QED BY <1>2, <6>1
        <5>. QED BY <1>4, <4>3, <5>1
      <4>4. ASSUME NEW d \in 1..n, i \in frames'[d].owned PROVE d \in 1..N /\ i \in frames[d].owned
        BY <1>4, <4>4
      <4>. QED BY <4>1, <4>2, <4>3, <4>4
    <3>. QED BY <3>1, <3>2
  <2>2. \A d, e \in 1..n : \A i \in frames'[d].owned : i \in frames'[e].owned => d = e
    BY <1>1, <1>4 DEF Inv, OwnedBy
  <2>. QED BY <1>4, <2>1, <2>2 DEF OwnedBy
<1>12. AliveIn(frames', scopes', val')
  <2>. SUFFICES ASSUME NEW d \in 1..n, NEW i \in frames'[d].owned
                PROVE  \E p \in 1..m : scopes'[p].tok = frames'[d].tok /\ val'[i] \in scopes'[p].alive
    BY <1>4, <1>5 DEF AliveIn
  <2>1. d \in 1..N /\ i \in frames[d].owned /\ i \in Slots /\ frames'[d] = frames[d]
    BY <1>4, <1>8
  <2>2. val'[i] = val[i]
    <3>1. i \notin O
      <4>. SUFFICES ASSUME i \in O PROVE FALSE
        OBVIOUS
      <4>1. PICK e \in 1..N : e > n /\ i \in frames[e].owned
        BY <1>7
      <4>2. d = e
        BY <1>1, <2>1, <4>1 DEF Inv, OwnedBy
      <4>. QED BY <1>2, <4>1, <4>2
    <3>. QED BY <1>10, <2>1, <3>1
  <2>3. PICK p \in 1..M : scopes[p].tok = frames[d].tok /\ val[i] \in scopes[p].alive
    BY <1>1, <2>1 DEF Inv, AliveIn
  <2>4. n \in 1..N /\ scopes[m].tok = frames[n].tok
    BY <1>1, <1>2 DEF CutAt
  <2>5. m < p <=> n < d
    <3>1. Layout(frames, scopes, calls, opened)
      BY DEF Inv
    <3>2. d \in 1..Len(frames) /\ n \in 1..Len(frames) /\ p \in 1..Len(scopes) /\ m \in 1..Len(scopes)
      BY <1>1, <1>2, <2>1, <2>4
    <3>. QED BY ONLY <2>3, <2>4, <3>1, <3>2, SameOrder
  <2>6. p \in 1..m
    BY <1>1, <1>2, <2>4, <2>5
  <2>. QED BY <1>5, <2>1, <2>2, <2>3, <2>6
<1>13. Layout(frames', scopes', calls', opened')
  BY <1>3, LayoutCut DEF Inv
<1>. QED BY <1>10, <1>11, <1>12, <1>13 DEF Inv

(* CurrentFrame's root frame owns nothing when it is made. *)
LEMMA RootKeeps ==
  ASSUME Inv
  PROVE  /\ Layout(WithRoot, scopes, calls, opened) /\ Len(WithRoot) >= 1
         /\ OwnedBy(WithRoot, val) /\ AliveIn(WithRoot, scopes, val)
<1>1. frames \in Seq(FrameType)
  BY DEF Inv, Layout
<1>2. CASE frames # <<>>
  <2>1. WithRoot = frames
    BY <1>2 DEF WithRoot
  <2>2. Len(frames) >= 1
    BY <1>1, <1>2
  <2>. QED BY <2>1, <2>2 DEF Inv
<1>3. CASE frames = <<>>
  <2>1. WithRoot = <<Frame(0, 0, FALSE)>>
    BY <1>3 DEF WithRoot
  <2>2. PICK fs : fs = WithRoot
    OBVIOUS
  <2>3. Layout(fs, scopes, calls, opened)
    BY <1>3, <2>1, <2>2, LayoutRoot DEF Inv
  <2>4. Len(fs) = 1 /\ fs[1] = Frame(0, 0, FALSE) /\ Len(frames) = 0
    BY <1>3, <2>1, <2>2
  <2>5. fs[1].owned = {}
    BY <2>4 DEF Frame
  <2>6. \A d \in 1..Len(fs) : d = 1 /\ fs[d].owned = {}
    <3>1. \A d \in 1..1 : d = 1
      OBVIOUS
    <3>. QED BY <2>4, <2>5, <3>1
  <2>7. \A d \in 1..Len(frames) : FALSE
    BY <2>4
  <2>8. OwnedBy(fs, val)
    BY <2>6, <2>7 DEF Inv, OwnedBy
  <2>9. AliveIn(fs, scopes, val)
    BY <2>6 DEF AliveIn
  <2>. QED BY <2>2, <2>3, <2>4, <2>8, <2>9
<1>. QED BY <1>2, <1>3

-----------------------------------------------------------------------------
(* The actions.                                                            *)

(* A new frame owns nothing. *)
LEMMA GrownKeeps ==
  ASSUME NEW fs \in Seq(FrameType), NEW f \in FrameType, f.owned = {}, NEW ss \in Seq(ScopeType),
         NEW ts, Over(ss, ts), Len(ts) \in Nat, NEW v, OwnedBy(fs, v), AliveIn(fs, ss, v)
  PROVE  OwnedBy(Append(fs, f), v) /\ AliveIn(Append(fs, f), ts, v)
<1>1. PICK gs : gs = Append(fs, f)
  OBVIOUS
<1>2. PICK n \in Nat : n = Len(fs)
  OBVIOUS
<1>3. Len(gs) = n + 1 /\ gs[n + 1] = f /\ \A d \in 1..n : gs[d] = fs[d]
  BY <1>1, <1>2, Pushed
<1>4. \A d \in 1..n + 1 : d \in 1..n \/ d = n + 1
  BY <1>2
<1>5. \A d \in 1..n : d \in 1..n + 1
  BY <1>2
<1>6. \A d \in 1..n + 1 : \A i \in gs[d].owned : d \in 1..n /\ i \in fs[d].owned
  BY <1>3, <1>4
<1>7. OwnedBy(gs, v)
  BY <1>2, <1>3, <1>5, <1>6 DEF OwnedBy
<1>8. ASSUME NEW d \in 1..n + 1, NEW i \in gs[d].owned
      PROVE  \E p \in 1..Len(ts) : ts[p].tok = gs[d].tok /\ v[i] \in ts[p].alive
  <2>1. d \in 1..n /\ i \in fs[d].owned /\ gs[d] = fs[d]
    BY <1>3, <1>6
  <2>2. PICK p \in 1..Len(ss) : ss[p].tok = fs[d].tok /\ v[i] \in ss[p].alive
    BY <1>2, <2>1 DEF AliveIn
  <2>3. p \in 1..Len(ts) /\ ts[p] = ss[p]
    BY DEF Over
  <2>. QED BY <2>1, <2>2, <2>3
<1>9. AliveIn(gs, ts, v)
  BY <1>3, <1>8 DEF AliveIn
<1>. QED BY <1>1, <1>7, <1>9

LEMMA MintValueKeeps ==
  ASSUME Inv, MintValue PROVE Inv'
<1>1. PICK fs : fs = WithRoot
  OBVIOUS
<1>2. /\ Layout(fs, scopes, calls, opened) /\ Len(fs) >= 1 /\ OwnedBy(fs, val) /\ AliveIn(fs, scopes, val)
  BY <1>1, RootKeeps
<1>3. fs \in Seq(FrameType) /\ scopes \in Seq(ScopeType)
  BY <1>2 DEF Layout
<1>4. Len(fs) \in 1..Len(fs) /\ Len(scopes) \in 1..Len(scopes) /\ scopes[Len(scopes)].tok = fs[Len(fs)].tok
  <2>1. Len(fs) \in Nat
    BY <1>3
  <2>. QED BY <1>2, <2>1, TopsMatch
<1>5. /\ AddLocal(scopes, Len(scopes)) /\ StoreValueInFrame(fs, Len(fs))
      /\ reset' = reset /\ opened' = opened /\ calls' = calls
  BY <1>1 DEF MintValue
<1>6. /\ SlotTypes' /\ CountInv' /\ HandedInv' /\ OwnedBy(frames', val') /\ AliveIn(frames', scopes', val')
      /\ SameFrames(fs, frames') /\ SameScopes(scopes, scopes')
  BY <1>2, <1>3, <1>4, <1>5, StoreKeeps DEF Inv
<1>7. Layout(frames', scopes', calls, opened)
  BY <1>2, <1>6, LayoutSame DEF SameFrames, SameScopes
<1>. QED BY <1>5, <1>6, <1>7 DEF Inv

LEMMA OpenScopeKeeps ==
  ASSUME Inv, OpenScope PROVE Inv'
<1>1. PICK fs : fs = WithRoot
  OBVIOUS
<1>2. /\ Layout(fs, scopes, calls, opened) /\ Len(fs) >= 1 /\ OwnedBy(fs, val) /\ AliveIn(fs, scopes, val)
  BY <1>1, RootKeeps
<1>3. fs \in Seq(FrameType) /\ scopes \in Seq(ScopeType) /\ opened \in 0..MaxScopes
  BY <1>2 DEF Layout
<1>4. PICK esc \in BOOLEAN : frames' = Append(fs, Frame(opened + 1, opened + 1, esc))
  BY <1>1 DEF OpenScope
<1>5. /\ opened < MaxScopes /\ opened' = opened + 1 /\ scopes' = Append(scopes, Scope(opened + 1))
      /\ UNCHANGED table /\ reset' = reset /\ locals' = locals /\ calls' = calls
      /\ answer' = [ok |-> TRUE, value |-> TRUE]
  BY DEF OpenScope
<1>6. opened + 1 \in 0..MaxScopes /\ opened + 1 # 0 /\ opened + 1 \in 0..Trampoline
  BY <1>3, <1>5, Numbers DEF Trampoline
<1>7. PICK f \in FrameType : /\ f = Frame(opened + 1, opened + 1, esc)
                             /\ f.tok = opened + 1 /\ f.id # 0 /\ f.owned = {}
  <2>1. PICK f : f = Frame(opened + 1, opened + 1, esc)
    OBVIOUS
  <2>2. f \in FrameType /\ f.tok = opened + 1 /\ f.id # 0 /\ f.owned = {}
    BY <1>6, <2>1, FrameFields
  <2>. QED BY <2>1, <2>2
<1>8. PICK s \in ScopeType : s = Scope(opened + 1) /\ s.tok = opened + 1
  BY <1>6, ScopeFields
<1>9. Layout(frames', scopes', calls', opened')
  BY <1>2, <1>4, <1>5, <1>7, <1>8, LayoutOpen
<1>10. Over(scopes, scopes') /\ Len(scopes') \in Nat
  BY <1>3, <1>5, <1>8, Pushed DEF Over
<1>11. OwnedBy(frames', val) /\ AliveIn(frames', scopes', val)
  BY <1>2, <1>3, <1>4, <1>7, <1>10, GrownKeeps
<1>12. answer' \in [ok : BOOLEAN, value : BOOLEAN]
  BY <1>5
<1>13. SlotTypes' /\ CountInv' /\ HandedInv' /\ val' = val
  BY <1>5, <1>12, TableSame DEF Inv, SlotTypes
<1>. QED BY <1>9, <1>11, <1>13 DEF Inv

LEMMA EnterGuestKeeps ==
  ASSUME Inv, NEW kind \in {"callback", "finalizer"}, EnterGuest(kind) PROVE Inv'
<1>1. PICK fs : fs = WithRoot
  OBVIOUS
<1>2. /\ Layout(fs, scopes, calls, opened) /\ Len(fs) >= 1 /\ OwnedBy(fs, val) /\ AliveIn(fs, scopes, val)
  BY <1>1, RootKeeps
<1>3. fs \in Seq(FrameType) /\ scopes \in Seq(ScopeType) /\ opened \in 0..MaxScopes
  BY <1>2 DEF Layout
<1>4. PICK c : c = [kind |-> kind, tok |-> opened + 1, depth |-> Len(scopes),
                    below |-> [i \in DOMAIN fs |-> fs[i].tok]]
  OBVIOUS
<1>5. PICK esc \in BOOLEAN : esc = (kind = "callback")
  OBVIOUS
<1>6. /\ opened < MaxScopes /\ opened' = opened + 1
      /\ frames' = Append(fs, Frame(0, opened + 1, esc))
      /\ scopes' = scopes \o <<Scope(Trampoline), Scope(opened + 1)>> /\ calls' = Append(calls, c)
      /\ UNCHANGED table /\ reset' = reset /\ locals' = locals /\ answer' = answer
  BY <1>1, <1>4, <1>5 DEF EnterGuest
<1>7. /\ opened + 1 \in 1..MaxScopes /\ opened + 1 \in 0..MaxScopes /\ 0 \in 0..MaxScopes
      /\ opened + 1 \in 0..Trampoline /\ Trampoline \in 0..Trampoline
  BY <1>3, <1>6, Numbers DEF Trampoline
<1>8. PICK f : f = Frame(0, opened + 1, esc)
  OBVIOUS
<1>9. f \in FrameType /\ f.tok = opened + 1 /\ f.id = 0 /\ f.owned = {}
  BY <1>7, <1>8, FrameFields
<1>10. PICK s \in ScopeType : s = Scope(opened + 1) /\ s.tok = opened + 1
  BY <1>7, ScopeFields
<1>11. PICK u \in ScopeType : u = Scope(Trampoline) /\ u.tok = Trampoline
  BY <1>7, ScopeFields
<1>12. PICK b : b = [i \in DOMAIN fs |-> fs[i].tok]
  OBVIOUS
<1>13. b \in Seq(0..MaxScopes) /\ Len(b) = Len(fs) /\ \A i \in 1..Len(fs) : b[i] = fs[i].tok
  <2>1. DOMAIN fs = 1..Len(fs) /\ Len(fs) \in Nat
    BY <1>3
  <2>2. \A i \in 1..Len(fs) : fs[i].tok \in 0..MaxScopes
    <3>1. \A g \in FrameType : g.tok \in 0..MaxScopes
      BY DEF FrameType
    <3>. QED BY <1>3, <3>1
  <2>3. b = [i \in 1..Len(fs) |-> fs[i].tok]
    BY <1>12, <2>1
  <2>4. b \in [1..Len(fs) -> 0..MaxScopes]
    BY <2>2, <2>3
  <2>. QED BY <2>1, <2>3, <2>4
<1>14. c \in CallType /\ c.tok = opened + 1 /\ c.depth = Len(scopes) /\ c.below = b
  <2>1. Len(scopes) \in Nat
    BY <1>3
  <2>2. c = [kind |-> kind, tok |-> opened + 1, depth |-> Len(scopes), below |-> b]
    BY <1>4, <1>12
  <2>. QED BY <1>7, <1>13, <2>1, <2>2 DEF CallType
<1>15. Entry(fs, scopes, opened, f, u, s, c)
  BY <1>9, <1>10, <1>11, <1>13, <1>14 DEF Entry
<1>16. Layout(frames', scopes', calls', opened')
  BY <1>2, <1>6, <1>8, <1>10, <1>11, <1>15, LayoutEnter
<1>17. Over(scopes, scopes') /\ Len(scopes') \in Nat
  BY <1>3, <1>6, <1>10, <1>11, PushedTwo DEF Over
<1>18. OwnedBy(frames', val) /\ AliveIn(frames', scopes', val)
  BY <1>2, <1>3, <1>6, <1>8, <1>9, <1>17, GrownKeeps
<1>19. answer' \in [ok : BOOLEAN, value : BOOLEAN]
  BY <1>6 DEF Inv, SlotTypes
<1>20. SlotTypes' /\ CountInv' /\ HandedInv' /\ val' = val
  BY <1>6, <1>19, TableSame DEF Inv, SlotTypes
<1>. QED BY <1>16, <1>18, <1>20 DEF Inv

LEMMA CloseScopeKeeps ==
  ASSUME Inv, CloseScope PROVE Inv'
<1>1. PICK i \in DOMAIN frames :
        /\ frames[i].id # 0
        /\ \/ /\ i = Len(frames)
              /\ PopFrames(i - 1)
              /\ scopes' = ScopesBelow(i - 1)
              /\ answer' = [ok |-> TRUE, value |-> TRUE]
           \/ /\ i # Len(frames)
              /\ answer' = [ok |-> FALSE, value |-> FALSE]
              /\ UNCHANGED <<table, frames, scopes>>
  BY DEF CloseScope
<1>2. reset' = reset /\ locals' = locals /\ opened' = opened /\ calls' = calls
  BY DEF CloseScope
<1>3. frames \in Seq(FrameType) /\ calls \in Seq(CallType) /\ i \in 1..Len(frames)
  BY DEF Inv, Layout
<1>4. answer' \in [ok : BOOLEAN, value : BOOLEAN]
  <2>1. \A b \in BOOLEAN : [ok |-> b, value |-> b] \in [ok : BOOLEAN, value : BOOLEAN]
    OBVIOUS
  <2>. QED BY <1>1, <2>1
<1>5. CASE i = Len(frames)
  <2>1. PopFrames(Len(frames) - 1) /\ scopes' = ScopesBelow(Len(frames) - 1)
    BY <1>1, <1>5
  <2>2. Len(frames) >= 1 /\ frames[Len(frames)].id # 0
    BY <1>1, <1>3, <1>5
  <2>3. CutAt(frames, scopes, calls, Len(frames) - 1, Len(scopes) - 1, Len(calls)) /\ Len(frames) >= 2
    BY <2>2, CloseCut DEF Inv
  <2>4. scopes' = SubSeq(scopes, 1, Len(scopes) - 1)
    BY <2>1, <2>2, <2>3, ScopesBelowClose DEF Inv
  <2>5. calls' = SubSeq(calls, 1, Len(calls))
    <3>1. Len(calls) \in 0..Len(calls)
      BY <1>3
    <3>2. PICK c : c = SubSeq(calls, 1, Len(calls))
      OBVIOUS
    <3>3. c \in Seq(CallType) /\ Len(c) = Len(calls) /\ \A k \in 1..Len(calls) : c[k] = calls[k]
      BY <1>3, <3>1, <3>2, Cut
    <3>4. c = calls
      BY <1>3, <3>3
    <3>. QED BY <1>2, <3>2, <3>4
  <2>. QED BY <1>2, <1>4, <2>1, <2>3, <2>4, <2>5, PopKeeps
<1>6. CASE i # Len(frames)
  <2>1. UNCHANGED table /\ frames' = frames /\ scopes' = scopes
    BY <1>1, <1>6
  <2>2. SlotTypes' /\ CountInv' /\ HandedInv' /\ val' = val
    BY <1>2, <1>4, <2>1, TableSame DEF Inv, SlotTypes
  <2>. QED BY <1>2, <2>1, <2>2 DEF Inv
<1>. QED BY <1>5, <1>6

LEMMA EscapeKeeps ==
  ASSUME Inv, Escape PROVE Inv'
<1>1. PICK i \in DOMAIN frames :
        /\ i > 1 /\ frames[i].id # 0
        /\ LET p == Position(frames[i].tok) IN
           \/ /\ AddLocal([scopes EXCEPT ![p].escaped = TRUE], p - 1)
              /\ StoreValueInFrame(frames, i - 1)
           \/ /\ answer' = [ok |-> FALSE, value |-> FALSE]
              /\ UNCHANGED <<table, frames, scopes, locals>>
  BY DEF Escape
<1>2. reset' = reset /\ opened' = opened /\ calls' = calls
  BY DEF Escape
<1>3. frames \in Seq(FrameType) /\ scopes \in Seq(ScopeType) /\ i \in 1..Len(frames) /\ i \in 2..Len(frames)
      /\ Len(scopes) \in Nat /\ DOMAIN scopes = 1..Len(scopes)
  <2>1. frames \in Seq(FrameType) /\ scopes \in Seq(ScopeType)
    BY DEF Inv, Layout
  <2>. QED BY <1>1, <2>1
<1>4. PICK p : p = Position(frames[i].tok)
  OBVIOUS
<1>5. p \in 1..Len(scopes) /\ scopes[p].tok = frames[i].tok
  <2>1. PICK q \in 2..Len(scopes) : scopes[q].tok = frames[i].tok
    BY <1>3 DEF Inv, Layout, Matched, ScopeOf
  <2>2. q \in DOMAIN scopes
    BY <1>3
  <2>3. p \in DOMAIN scopes /\ scopes[p].tok = frames[i].tok
    BY <1>4, <2>1, <2>2 DEF Position
  <2>. QED BY <1>3, <2>3
<1>6. p \in 2..Len(scopes) /\ scopes[p - 1].tok = frames[i - 1].tok
  <2>1. p \in 2..Len(scopes) /\ ScopeOf(frames, scopes, i, p)
    BY <1>3, <1>5, ScopeOfFrame DEF Inv
  <2>. QED BY <1>1, <2>1 DEF ScopeOf
<1>7. CASE answer' = [ok |-> FALSE, value |-> FALSE] /\ UNCHANGED <<table, frames, scopes, locals>>
  <2>1. UNCHANGED table /\ frames' = frames /\ scopes' = scopes /\ locals' = locals
        /\ answer' \in [ok : BOOLEAN, value : BOOLEAN]
    BY <1>7
  <2>2. SlotTypes' /\ CountInv' /\ HandedInv' /\ val' = val
    BY <1>2, <2>1, TableSame DEF Inv, SlotTypes
  <2>. QED BY <1>2, <2>1, <2>2 DEF Inv
<1>8. CASE AddLocal([scopes EXCEPT ![p].escaped = TRUE], p - 1) /\ StoreValueInFrame(frames, i - 1)
  <2>1. PICK ss : ss = [scopes EXCEPT ![p].escaped = TRUE]
    OBVIOUS
  <2>2. ss \in Seq(ScopeType) /\ Len(ss) = Len(scopes)
        /\ \A q \in 1..Len(scopes) : ss[q].tok = scopes[q].tok /\ ss[q].alive = scopes[q].alive
    <3>1. PICK s \in ScopeType : s = scopes[p]
      BY <1>3, <1>5
    <3>2. PICK t : t = [s EXCEPT !.escaped = TRUE]
      OBVIOUS
    <3>3. t \in ScopeType
      BY <3>2 DEF ScopeType
    <3>4. t.tok = s.tok /\ t.alive = s.alive
      BY <3>2 DEF ScopeType
    <3>5. ss = [scopes EXCEPT ![p] = t]
      BY <2>1, <3>1, <3>2
    <3>6. ss \in Seq(ScopeType) /\ Len(ss) = Len(scopes)
      BY <1>3, <1>5, <3>3, <3>5
    <3>7. \A q \in 1..Len(scopes) : ss[q] = IF q = p THEN t ELSE scopes[q]
      BY <1>3, <3>5
    <3>. QED BY <3>1, <3>4, <3>6, <3>7
  <2>3. AliveIn(frames, ss, val)
    <3>. SUFFICES ASSUME NEW d \in 1..Len(frames), NEW j \in frames[d].owned
                  PROVE  \E q \in 1..Len(scopes) : ss[q].tok = frames[d].tok /\ val[j] \in ss[q].alive
      BY <2>2 DEF AliveIn
    <3>1. PICK q \in 1..Len(scopes) : scopes[q].tok = frames[d].tok /\ val[j] \in scopes[q].alive
      BY DEF Inv, AliveIn
    <3>. QED BY <2>2, <3>1
  <2>4. i - 1 \in 1..Len(frames) /\ p - 1 \in 1..Len(ss) /\ p - 1 \in 1..Len(scopes)
    BY <1>3, <1>6, <2>2
  <2>5. ss[p - 1].tok = frames[i - 1].tok
    BY <1>6, <2>2, <2>4
  <2>6. /\ SlotTypes' /\ CountInv' /\ HandedInv' /\ OwnedBy(frames', val') /\ AliveIn(frames', scopes', val')
        /\ SameFrames(frames, frames') /\ SameScopes(ss, scopes')
    <3>1. AddLocal(ss, p - 1) /\ StoreValueInFrame(frames, i - 1) /\ OwnedBy(frames, val)
          /\ SlotTypes /\ CountInv /\ HandedInv
      BY <1>8, <2>1 DEF Inv
    <3>. QED BY <1>2, <1>3, <2>2, <2>3, <2>4, <2>5, <3>1, StoreKeeps
  <2>7. /\ scopes' \in Seq(ScopeType) /\ Len(scopes') = Len(scopes)
        /\ \A q \in 1..Len(scopes) : scopes'[q].tok = scopes[q].tok
    BY <2>2, <2>6 DEF SameScopes
  <2>8. Layout(frames', scopes', calls, opened)
    BY <2>6, <2>7, LayoutSame DEF Inv, SameFrames
  <2>. QED BY <1>2, <2>6, <2>8 DEF Inv
<1>. QED BY <1>1, <1>4, <1>7, <1>8

(* The call's implicit frame is where the call put it. *)
LEMMA ReturnDepthIs ==
  ASSUME Inv, NEW c, calls # <<>>, c = calls[Len(calls)]
  PROVE  ReturnDepth(c) = Len(c.below)
<1>1. /\ Len(c.below) \in Nat /\ Len(c.below) + 1 \in 1..Len(frames)
      /\ frames[Len(c.below) + 1].tok = c.tok
  BY LeaveCut DEF Inv
<1>2. PICK n \in Nat : n = Len(c.below)
  BY <1>1
<1>3. frames \in Seq(FrameType) /\ Len(frames) \in Nat
  BY DEF Inv, Layout
<1>4. \A d \in 1..Len(frames) : frames[d].tok \in Nat
  BY Tokens DEF Inv
<1>5. ASSUME NEW d \in 1..Len(frames), frames[d].tok = c.tok PROVE d = n + 1
  <2>1. \A a, b \in 1..Len(frames) : a < b => frames[a].tok < frames[b].tok
    BY DEF Inv, Layout, FramesOK
  <2>2. frames[n + 1].tok = c.tok /\ n + 1 \in 1..Len(frames)
    BY <1>1, <1>2
  <2>3. ~ (d < n + 1) /\ ~ (n + 1 < d)
    BY <1>4, <1>5, <2>1, <2>2
  <2>. QED BY <1>3, <2>3
<1>6. PICK at : at = {i \in DOMAIN frames : frames[i].tok = c.tok}
  OBVIOUS
<1>7. at = {n + 1}
  <2>1. DOMAIN frames = 1..Len(frames)
    BY <1>3
  <2>. QED BY <1>1, <1>2, <1>5, <1>6, <2>1
<1>8. PICK x : x = CHOOSE i \in at : TRUE
  OBVIOUS
<1>9. x = n + 1
  <2>1. x \in at
    BY <1>7, <1>8
  <2>. QED BY <1>7, <2>1
<1>10. ReturnDepth(c) = x - 1
  BY <1>7, <1>8, <1>6 DEF ReturnDepth
<1>. QED BY <1>2, <1>9, <1>10

LEMMA LeaveGuestKeeps ==
  ASSUME Inv, LeaveGuest PROVE Inv'
<1>1. PICK c : c = calls[Len(calls)]
  OBVIOUS
<1>2. /\ calls # <<>> /\ PopFrames(ReturnDepth(c))
      /\ scopes' = SubSeq(scopes, 1, IF Len(scopes) < c.depth THEN Len(scopes) ELSE c.depth)
      /\ calls' = SubSeq(calls, 1, Len(calls) - 1)
      /\ reset' = reset /\ locals' = locals /\ opened' = opened /\ answer' = answer
  BY <1>1 DEF LeaveGuest
<1>3. CutAt(frames, scopes, calls, Len(c.below), c.depth, Len(calls) - 1) /\ c.depth \in 1..Len(scopes)
  BY <1>1, <1>2, LeaveCut DEF Inv
<1>4. PopFrames(Len(c.below))
  BY <1>1, <1>2, ReturnDepthIs
<1>5. Len(scopes) \in Nat
  BY Tokens DEF Inv
<1>6. scopes' = SubSeq(scopes, 1, c.depth)
  BY <1>2, <1>3, <1>5
<1>7. answer' \in [ok : BOOLEAN, value : BOOLEAN]
  BY <1>2 DEF Inv, SlotTypes
<1>. QED BY <1>2, <1>3, <1>4, <1>6, <1>7, PopKeeps

LEMMA ReleaseKeeps ==
  ASSUME Inv, Release PROVE Inv'
<1>1. /\ calls = <<>> /\ reset = FALSE /\ reset' = TRUE /\ frames' = <<>> /\ scopes' = ScopesBelow(0)
      /\ size' = 0 /\ free' = {} /\ count' = 0
      /\ gen' = [i \in Slots |-> 0] /\ val' = [i \in Slots |-> Null] /\ uses' = [i \in Slots |-> 0]
      /\ handed' = handed /\ locals' = locals /\ opened' = opened /\ calls' = calls /\ answer' = answer
  BY DEF Release, Inv, SlotTypes
<1>2. \A h \in handed : h.reset # TRUE
  BY <1>1 DEF Inv, SlotTypes
<1>3. SlotTypes'
  <2>1. 0 \in 0..MaxSlots /\ 0 \in 0..GenMod - 1
    BY Numbers
  <2>2. gen' \in [Slots -> 0..GenMod - 1] /\ val' \in [Slots -> Locals \cup {Null}] /\ uses' \in [Slots -> Nat]
    BY <1>1, <2>1
  <2>3. \A i \in Slots : val'[i] = Null
    BY <1>1
  <2>. QED BY <1>1, <2>1, <2>2, <2>3 DEF Inv, SlotTypes
<1>4. CountInv'
  <2>1. InUse' = {}
    BY <1>1 DEF InUse
  <2>2. Cardinality({}) = 0
    BY FS_EmptySet
  <2>3. 1..0 = {}
    OBVIOUS
  <2>. QED BY <1>1, <2>1, <2>2, <2>3, Numbers DEF CountInv
<1>5. HandedInv'
  BY <1>1, <1>2 DEF HandedInv
<1>6. \A d \in 1..Len(frames') : FALSE
  BY <1>1
<1>7. OwnedBy(frames', val') /\ AliveIn(frames', scopes', val')
  <2>1. \A i \in Slots : val'[i] = Null
    BY <1>1
  <2>. QED BY <1>6, <2>1 DEF OwnedBy, AliveIn
<1>8. Layout(frames', scopes', calls', opened')
  <2>1. CutAt(frames, scopes, calls, 0, 1, 0)
    BY <1>1, DrainCut DEF Inv
  <2>2. Layout(SubSeq(frames, 1, 0), SubSeq(scopes, 1, 1), SubSeq(calls, 1, 0), opened)
    BY <2>1, LayoutCut DEF Inv
  <2>3. scopes' = SubSeq(scopes, 1, 1)
    BY <1>1, ScopesBelowDrain DEF Inv
  <2>4. SubSeq(frames, 1, 0) = <<>> /\ SubSeq(calls, 1, 0) = <<>>
    <3>1. frames \in Seq(FrameType) /\ calls \in Seq(CallType)
      BY DEF Inv, Layout
    <3>. QED BY <3>1
  <2>. QED BY <1>1, <2>2, <2>3, <2>4
<1>. QED BY <1>3, <1>4, <1>5, <1>7, <1>8 DEF Inv

LEMMA InitInv == Init => Inv
<1>. SUFFICES ASSUME Init PROVE Inv
  OBVIOUS
<1>1. /\ size = 0 /\ count = 0 /\ free = {} /\ frames = <<>> /\ reset = FALSE
      /\ gen = [i \in Slots |-> 0] /\ val = [i \in Slots |-> Null] /\ uses = [i \in Slots |-> 0]
      /\ scopes = <<Scope(0)>> /\ locals = 0 /\ opened = 0 /\ calls = <<>> /\ handed = {}
      /\ answer = [ok |-> TRUE, value |-> TRUE]
  BY DEF Init
<1>2. SlotTypes
  <2>1. 0 \in 0..MaxSlots /\ 0 \in 0..GenMod - 1 /\ 0 \in 0..MaxLocals
    BY Numbers
  <2>2. gen \in [Slots -> 0..GenMod - 1] /\ val \in [Slots -> Locals \cup {Null}] /\ uses \in [Slots -> Nat]
    BY <1>1, <2>1
  <2>3. \A i \in Slots : val[i] = Null
    BY <1>1
  <2>4. answer \in [ok : BOOLEAN, value : BOOLEAN]
    BY <1>1
  <2>. QED BY <1>1, <2>1, <2>2, <2>3, <2>4 DEF SlotTypes
<1>3. CountInv
  <2>1. InUse = {}
    BY <1>1 DEF InUse
  <2>2. Cardinality({}) = 0
    BY FS_EmptySet
  <2>3. 1..0 = {}
    OBVIOUS
  <2>. QED BY <1>1, <2>1, <2>2, <2>3, Numbers DEF CountInv
<1>4. HandedInv
  BY <1>1 DEF HandedInv
<1>5. PICK s \in ScopeType : s = Scope(0) /\ s.tok = 0
  <2>1. 0 \in 0..Trampoline
    BY Numbers DEF Trampoline
  <2>. QED BY <2>1, ScopeFields
<1>6. scopes \in Seq(ScopeType) /\ Len(scopes) = 1 /\ scopes[1].tok = 0
  BY <1>1, <1>5
<1>7. Len(frames) = 0 /\ Len(calls) = 0 /\ frames \in Seq(FrameType) /\ calls \in Seq(CallType)
  BY <1>1
<1>8. /\ 1..0 = {} /\ 2..0 = {} /\ 2..1 = {}
      /\ \A p \in 1..1 : p = 1
  OBVIOUS
<1>9. OwnedBy(frames, val) /\ AliveIn(frames, scopes, val)
  <2>1. \A i \in Slots : val[i] = Null
    BY <1>1
  <2>. QED BY <1>7, <1>8, <2>1 DEF OwnedBy, AliveIn
<1>10. Trampoline # 0 /\ 0 \in 0..MaxScopes
  BY Numbers DEF Trampoline
<1>11. Layout(frames, scopes, calls, opened)
  <2>1. FramesOK(frames, opened)
    BY <1>7, <1>8 DEF FramesOK
  <2>2. ScopesOK(scopes, opened)
    BY <1>6, <1>8, <1>10 DEF ScopesOK
  <2>3. Matched(frames, scopes)
    BY <1>6, <1>7, <1>8 DEF Matched
  <2>4. CallsOK(frames, scopes, calls)
    BY <1>6, <1>7, <1>8, <1>10 DEF CallsOK
  <2>. QED BY <1>1, <1>6, <1>7, <1>10, <2>1, <2>2, <2>3, <2>4 DEF Layout
<1>. QED BY <1>2, <1>3, <1>4, <1>9, <1>11 DEF Inv

LEMMA NextInv == Inv /\ [Next]_vars => Inv'
<1>. SUFFICES ASSUME Inv, [Next]_vars PROVE Inv'
  OBVIOUS
<1>1. CASE MintValue
  BY <1>1, MintValueKeeps
<1>2. CASE OpenScope
  BY <1>2, OpenScopeKeeps
<1>3. CASE CloseScope
  BY <1>3, CloseScopeKeeps
<1>4. CASE Escape
  BY <1>4, EscapeKeeps
<1>5. CASE EnterGuest("callback")
  BY <1>5, EnterGuestKeeps
<1>6. CASE EnterGuest("finalizer")
  BY <1>6, EnterGuestKeeps
<1>7. CASE LeaveGuest
  BY <1>7, LeaveGuestKeeps
<1>8. CASE Release
  BY <1>8, ReleaseKeeps
<1>9. CASE UNCHANGED vars
  <2>1. /\ UNCHANGED table /\ frames' = frames /\ reset' = reset /\ scopes' = scopes /\ locals' = locals
        /\ opened' = opened /\ calls' = calls /\ answer' = answer
    BY <1>9 DEF vars
  <2>2. answer' \in [ok : BOOLEAN, value : BOOLEAN]
    BY <2>1 DEF Inv, SlotTypes
  <2>3. SlotTypes' /\ CountInv' /\ HandedInv' /\ val' = val
    BY <2>1, <2>2, TableSame DEF Inv, SlotTypes
  <2>. QED BY <2>1, <2>3 DEF Inv
<1>. QED BY <1>1, <1>2, <1>3, <1>4, <1>5, <1>6, <1>7, <1>8, <1>9 DEF Next

-----------------------------------------------------------------------------
(* The results.                                                            *)

(* The inductive invariant holds: frames, scopes and calls stay on top of  *)
(* each other however the guest opens, closes, escapes, nests and returns. *)
THEOREM ScopesInvariant == Spec => []Inv
  BY InitInv, NextInv, PTL DEF Spec

(* The tables, stacks and ids keep their types. *)
THEOREM TypeCorrect == Spec => []TypeOK
<1>1. Inv => TypeOK
  <2>. SUFFICES ASSUME Inv PROVE TypeOK
    OBVIOUS
  <2>1. count \in Nat
    BY InUseFinite, FS_CardinalityType DEF Inv, CountInv
  <2>. QED BY <2>1 DEF Inv, TypeOK, SlotTypes, Layout, FrameType, ScopeType, CallType
<1>. QED BY <1>1, ScopesInvariant, PTL

(* A slot in use has one owner among the open frames, the free list holds  *)
(* the others, live_value_count is exact and within the limit, and an id   *)
(* kept past its scope resolves to its own value or null until the slot's  *)
(* generations have gone round or the env is being released.               *)
THEOREM IdsAreSound == Spec => []IdsSound
<1>1. ASSUME Inv PROVE SlotsOwned
  <2>1. frames \in Seq(FrameType) /\ DOMAIN frames = 1..Len(frames)
    BY <1>1 DEF Inv, Layout
  <2>2. ASSUME NEW i \in Slots PROVE Cardinality(Owners(i)) = IF i \in InUse THEN 1 ELSE 0
    <3>1. CASE i \in InUse
      <4>1. PICK d \in 1..Len(frames) : i \in frames[d].owned
        BY <1>1, <3>1 DEF Inv, OwnedBy, InUse
      <4>2. Owners(i) = {d}
        BY <1>1, <2>1, <4>1 DEF Inv, OwnedBy, Owners
      <4>3. Cardinality({d}) = 1
        BY FS_Singleton
      <4>. QED BY <3>1, <4>2, <4>3
    <3>2. CASE i \notin InUse
      <4>1. Owners(i) = {}
        BY <1>1, <2>1, <3>2 DEF Inv, OwnedBy, Owners, InUse
      <4>2. Cardinality({}) = 0
        BY FS_EmptySet
      <4>. QED BY <3>2, <4>1, <4>2
    <3>. QED BY <3>1, <3>2
  <2>. QED BY <1>1, <2>2 DEF Inv, SlotsOwned, CountInv
<1>2. ASSUME Inv PROVE StaleIdsNull
  <2>. SUFFICES ASSUME NEW h \in handed, uses[h.slot] < h.use + GenMod, h.reset = reset
                PROVE  LoadValue(h.slot, h.gen) \in {Null, h.local}
    <3>1. \A h \in handed : uses[h.slot] \in Nat /\ h.use \in Nat
      BY <1>2 DEF Inv, SlotTypes
    <3>. QED BY <3>1, Numbers DEF StaleIdsNull
  <2>1. PICK i \in Slots, g \in 0..GenMod - 1, u \in Nat : i = h.slot /\ g = h.gen /\ u = h.use
    BY <1>2 DEF Inv, SlotTypes
  <2>2. PICK v \in Nat : v = uses[i]
    BY <1>2 DEF Inv, SlotTypes
  <2>3. /\ u \in 1..v /\ (u = v => val[i] \in {Null, h.local}) /\ v < u + GenMod
        /\ gen[i] = Later(g, Freed(i) - (u - 1))
    BY <1>2, <2>1, <2>2 DEF Inv, HandedInv
  <2>4. CASE u = v \/ val[i] = Null
    BY <2>1, <2>3, <2>4 DEF LoadValue
  <2>5. CASE u # v /\ val[i] # Null
    <3>1. Freed(i) = v - 1
      BY <2>2, <2>5 DEF Freed
    <3>2. PICK k \in 1..GenMod - 1 : k = v - 1 - (u - 1)
      BY <2>3, <2>5, Numbers
    <3>3. gen[i] = Later(g, k)
      BY <2>3, <3>1, <3>2
    <3>4. Later(g, k) # g
      BY <3>2, Numbers DEF Later
    <3>. QED BY <2>1, <3>3, <3>4 DEF LoadValue
  <2>. QED BY <2>4, <2>5
<1>. QED BY <1>1, <1>2, ScopesInvariant, PTL DEF IdsSound

(* An id that resolves names a Local that the engine scope of its own      *)
(* frame keeps alive.                                                      *)
THEOREM ValuesStayAlive == Spec => []ValuesAlive
<1>1. ASSUME Inv PROVE ValuesAlive
  <2>1. frames \in Seq(FrameType) /\ scopes \in Seq(ScopeType)
    BY <1>1 DEF Inv, Layout
  <2>2. DOMAIN frames = 1..Len(frames) /\ DOMAIN scopes = 1..Len(scopes)
    BY <2>1
  <2>. QED BY <1>1, <2>2 DEF Inv, AliveIn, ValuesAlive
<1>. QED BY <1>1, ScopesInvariant, PTL

(* While guest code runs in a call, the frames of its callers are open and *)
(* in place.                                                               *)
THEOREM CallersKeepFrames == Spec => []CallerFramesKept
<1>1. ASSUME Inv PROVE CallerFramesKept
  <2>. SUFFICES ASSUME NEW k \in DOMAIN calls
                PROVE  /\ Len(frames) > Len(calls[k].below)
                       /\ \A i \in 1..Len(calls[k].below) : frames[i].tok = calls[k].below[i]
                       /\ frames[Len(calls[k].below) + 1].tok = calls[k].tok
    BY DEF CallerFramesKept
  <2>1. k \in 1..Len(calls) /\ Len(frames) \in Nat
    BY <1>1 DEF Inv, Layout
  <2>2. CallOK(frames, scopes, calls[k])
    BY <1>1, <2>1 DEF Inv, Layout, CallsOK
  <2>3. PICK n \in 1..Len(frames) - 1 : n = Len(calls[k].below)
    BY <2>2 DEF CallOK
  <2>4. Len(frames) > n
    BY <2>1
  <2>. QED BY <2>2, <2>3, <2>4 DEF CallOK
<1>. QED BY <1>1, ScopesInvariant, PTL
=============================================================================
