---------------------------- MODULE ReentryProofs ----------------------------
(***************************************************************************)
(* Proofs about the two components that script re-enters while their own   *)
(* calls are on the stack: the N-API calls (NapiCalls), for calls nested   *)
(* to any depth and every table of paths whose steps are the ones          *)
(* PathsAssumption allows, and the module loader (ModuleLoader), for any   *)
(* number of modules, requests and nested scripts.                         *)
(***************************************************************************)
EXTENDS NapiCalls, ModuleLoader, FiniteSetTheorems, SequenceTheorems, TLAPS

-----------------------------------------------------------------------------
\* N-API calls: the parts of the inductive invariant.

NativeFrames(s) == {i \in 1..Len(s) : s[i].k = "native"}
Under(s, i) == {j \in NativeFrames(s) : j < i}
Stopped(s) == {i \in 1..Len(s) : s[i].k = "js" /\ s[i].stop}

\* What a callback's caller had pending is no termination: on QuickJS, the
\* one provider that sets it aside, no callback is entered under a request.
SavedNoTermination == \A i \in NativeFrames(stack) : stack[i].out.k # "term"

\* An exception set aside names the native frame that had it, the innermost
\* one under the callback.
SavedByCaller(s) ==
  \A i \in NativeFrames(s) : s[i].out # None => s[i].out.at = Cardinality(Under(s, i))

\* Scripts stay marked only while the request that stopped them stands.
StoppedByRequest == Stopped(stack) # {} => req

\* A status is there to be read only by native code on top.
StatusForNative == ret # "none" => Top.k = "native"

\* QuickJS terminates by the flag alone.
FlagOnly == prov = "qjs" => ~own /\ ~asking /\ ~asked

\* Native code nests no deeper than the bound lets it.
DepthBounded == Natives <= MaxJs + 1

Inv == /\ TypeOK /\ DepthBounded /\ StatusForNative /\ FlagOnly
       /\ SavedNoTermination /\ StoppedByRequest
       /\ StoppedJsUnwinds /\ TerminationStaysUncatchable /\ CancelLeavesNothing
       /\ FailureExplained /\ OuterExceptionApart

-----------------------------------------------------------------------------
\* Frames.

(* What the fields of a frame are. *)
LEMMA FrameFields ==
  ASSUME NEW p, NEW f \in FramesOf(p)
  PROVE  /\ f.k \in {"native", "js", "call"}
         /\ f.k = "native" => f.out \in Exceptions /\ f = [k |-> "native", out |-> f.out]
         /\ f.k = "js" => f.stop \in BOOLEAN /\ f = [k |-> "js", stop |-> f.stop]
         /\ f.k = "call" => /\ f.pc \in Seq(StepsOf(p)) /\ f.in \in BOOLEAN
                            /\ f.timer \in {"off", "on", "fired"}
                            /\ f = [k |-> "call", pc |-> f.pc, in |-> f.in, timer |-> f.timer]
BY DEF FramesOf

(* A native frame and a script are frames. *)
LEMMA NativeFrame ==
  ASSUME NEW p, NEW e \in Exceptions
  PROVE  Native(e) \in FramesOf(p) /\ Native(e).k = "native" /\ Native(e).out = e
BY DEF FramesOf, Native

(* A script's frame. *)
LEMMA ScriptActivation ==
  ASSUME NEW p
  PROVE  Script \in FramesOf(p) /\ Script.k = "js" /\ Script.stop = FALSE
BY DEF FramesOf, Script

(* A call at its first step, and a call inside an operation. *)
LEMMA CallingFrame ==
  ASSUME NEW p, NEW path \in Seq(StepsOf(p))
  PROVE  /\ Calling(path) \in FramesOf(p)
         /\ Calling(path).k = "call" /\ Calling(path).pc = path
         /\ Calling(path).in = FALSE /\ Calling(path).timer = "off"
BY DEF FramesOf, Calling

(* A call between two of its steps. *)
LEMMA RunningFrame ==
  ASSUME NEW p, NEW f \in FramesOf(p), f.k = "call"
  PROVE  /\ Running(f) \in FramesOf(p)
         /\ Running(f).k = "call" /\ Running(f).pc = f.pc /\ Running(f).in = TRUE
         /\ Running(f).timer # "off" => Head(f.pc).op = "timed"
BY FrameFields DEF FramesOf, Running

(* None is an exception, and so is what a step makes pending. *)
LEMMA NoneIsException == None \in Exceptions
BY CallsAssumption DEF None, Exceptions

-----------------------------------------------------------------------------
\* Stacks.

Popped(s) == SubSeq(s, 1, Len(s) - 1)
IsStack(s, p) == s \in Seq(FramesOf(p)) /\ Nests(s)

\* t has the native frames of s, with what they set aside.
SameNatives(s, t) ==
  /\ NativeFrames(t) = NativeFrames(s)
  /\ \A i \in NativeFrames(s) : t[i].out = s[i].out

(* The elements of a stack pushed and popped. *)
LEMMA PushElements ==
  ASSUME NEW p, NEW s \in Seq(FramesOf(p)), NEW f \in FramesOf(p)
  PROVE  /\ Append(s, f) \in Seq(FramesOf(p))
         /\ Len(Append(s, f)) = Len(s) + 1
         /\ Append(s, f)[Len(s) + 1] = f
         /\ \A i \in 1..Len(s) : Append(s, f)[i] = s[i]
OBVIOUS

(* What is left when the last activation goes. *)
LEMMA PopElements ==
  ASSUME NEW F, NEW s \in Seq(F), Len(s) > 0
  PROVE  /\ Popped(s) \in Seq(F)
         /\ Len(Popped(s)) = Len(s) - 1
         /\ \A i \in 1..Len(s) - 1 : Popped(s)[i] = s[i]
<1>. DEFINE n == Len(s) - 1
<1>1. n \in Nat /\ \A i \in 1..n : s[i] \in F
  OBVIOUS
<1>. HIDE DEF n
<1>2. /\ SubSeq(s, 1, n) \in Seq(F)
      /\ Len(SubSeq(s, 1, n)) = IF 1 <= n THEN n - 1 + 1 ELSE 0
      /\ \A i \in 1..n - 1 + 1 : SubSeq(s, 1, n)[i] = s[1 + i - 1]
  BY <1>1, SubSeqProperties
<1>3. (IF 1 <= n THEN n - 1 + 1 ELSE 0) = n /\ n - 1 + 1 = n /\ \A i \in 1..n : 1 + i - 1 = i
  BY <1>1
<1>. QED BY <1>2, <1>3 DEF Popped, n

(* A stack is not empty and its elements are frames. *)
LEMMA StackElements ==
  ASSUME NEW p, NEW s, IsStack(s, p)
  PROVE  /\ s \in Seq(FramesOf(p)) /\ Len(s) \in Nat /\ Len(s) > 0
         /\ \A i \in 1..Len(s) : s[i] \in FramesOf(p)
         /\ s[1].k = "native"
BY DEF IsStack, Nests

(* Pushing what may stand on the top gives a stack. *)
LEMMA PushStack ==
  ASSUME NEW p, NEW s, IsStack(s, p), NEW f \in FramesOf(p),
         s[Len(s)].k = "call" => s[Len(s)].in,
         f.k = "js" => s[Len(s)].k = "call",
         f.k = "call" => /\ s[Len(s)].k = "native"
                         /\ f.in => f.pc # <<>>
                         /\ f.timer # "off" => f.in /\ Head(f.pc).op = "timed",
         f.k = "native" => s[Len(s)].k # "native"
  PROVE  IsStack(Append(s, f), p)
<1>. DEFINE t == Append(s, f)
<1>1. /\ s \in Seq(FramesOf(p)) /\ Len(s) \in Nat /\ Len(s) > 0
      /\ \A i \in 1..Len(s) : s[i] \in FramesOf(p)
      /\ s[1].k = "native"
  BY StackElements
<1>2. /\ t \in Seq(FramesOf(p)) /\ Len(t) = Len(s) + 1 /\ t[Len(s) + 1] = f
      /\ \A i \in 1..Len(s) : t[i] = s[i]
  BY <1>1, PushElements
<1>3. \A i \in 1..Len(s) : s[i].k \in {"native", "js", "call"}
  BY <1>1, FrameFields
<1>4. f.k \in {"native", "js", "call"}
  BY FrameFields
<1>. HIDE DEF t
<1>5. t # <<>> /\ t[1].k = "native"
  BY <1>1, <1>2
<1>6. ASSUME NEW i \in 2..Len(t)
      PROVE  t[i - 1].k \in CASE t[i].k = "js" -> {"call"}
                              [] t[i].k = "call" -> {"native"}
                              [] OTHER -> {"js", "call"}
  <2>1. CASE i \in 2..Len(s)
    <3>1. t[i] = s[i] /\ t[i - 1] = s[i - 1]
      BY <1>1, <1>2, <2>1
    <3>. QED BY <3>1, <2>1 DEF IsStack, Nests
  <2>2. CASE i = Len(s) + 1
    <3>1. t[i] = f /\ t[i - 1] = s[Len(s)]
      BY <1>1, <1>2, <2>2
    <3>. QED BY <3>1, <1>1, <1>3, <1>4
  <2>. QED BY <2>1, <2>2, <1>1, <1>2
<1>7. ASSUME NEW i \in 1..Len(t), t[i].k = "call"
      PROVE  /\ i < Len(t) => t[i].in
             /\ t[i].in => t[i].pc # <<>>
             /\ t[i].timer # "off" => t[i].in /\ Head(t[i].pc).op = "timed"
  <2>1. CASE i \in 1..Len(s)
    <3>1. t[i] = s[i]
      BY <1>2, <2>1
    <3>2. i < Len(s) => s[i].in
      BY <3>1, <1>7, <2>1 DEF IsStack, Nests
    <3>3. i = Len(s) => s[i].in
      BY <3>1, <1>7
    <3>4. t[i].in
      BY <3>1, <3>2, <3>3, <1>1, <2>1
    <3>. QED BY <3>1, <3>4, <2>1, <1>7 DEF IsStack, Nests
  <2>2. CASE i = Len(s) + 1
    BY <1>1, <1>2, <2>2, <1>7
  <2>. QED BY <2>1, <2>2, <1>1, <1>2
<1>. QED BY <1>2, <1>5, <1>6, <1>7 DEF IsStack, Nests, t

(* What is left under the top is a stack. *)
LEMMA PopStack ==
  ASSUME NEW p, NEW s, IsStack(s, p), Len(s) > 1
  PROVE  IsStack(Popped(s), p)
<1>. DEFINE t == Popped(s)
<1>1. /\ s \in Seq(FramesOf(p)) /\ Len(s) \in Nat /\ Len(s) > 0
      /\ s[1].k = "native"
  BY StackElements
<1>2. /\ t \in Seq(FramesOf(p)) /\ Len(t) = Len(s) - 1
      /\ \A i \in 1..Len(s) - 1 : t[i] = s[i]
  BY <1>1, PopElements
<1>. HIDE DEF t
<1>3. t # <<>> /\ t[1].k = "native"
  BY <1>1, <1>2
<1>4. ASSUME NEW i \in 2..Len(t)
      PROVE  t[i - 1].k \in CASE t[i].k = "js" -> {"call"}
                              [] t[i].k = "call" -> {"native"}
                              [] OTHER -> {"js", "call"}
  <2>1. t[i] = s[i] /\ t[i - 1] = s[i - 1] /\ i \in 2..Len(s)
    BY <1>1, <1>2
  <2>. QED BY <2>1 DEF IsStack, Nests
<1>5. ASSUME NEW i \in 1..Len(t), t[i].k = "call"
      PROVE  /\ i < Len(t) => t[i].in
             /\ t[i].in => t[i].pc # <<>>
             /\ t[i].timer # "off" => t[i].in /\ Head(t[i].pc).op = "timed"
  <2>1. t[i] = s[i] /\ i \in 1..Len(s) /\ (i < Len(t) => i < Len(s))
    BY <1>1, <1>2
  <2>. QED BY <2>1, <1>5 DEF IsStack, Nests
<1>. QED BY <1>2, <1>3, <1>4, <1>5 DEF IsStack, Nests, t

(* What a push does to the native frames and to the scripts marked stopped. *)
LEMMA PushOther ==
  ASSUME NEW p, NEW s \in Seq(FramesOf(p)), NEW f \in FramesOf(p), f.k # "native"
  PROVE  SameNatives(s, Append(s, f))
<1>1. /\ Len(Append(s, f)) = Len(s) + 1 /\ Append(s, f)[Len(s) + 1] = f
      /\ \A i \in 1..Len(s) : Append(s, f)[i] = s[i]
  BY PushElements
<1>2. Len(s) \in Nat
  OBVIOUS
<1>. QED BY <1>1, <1>2 DEF SameNatives, NativeFrames

(* Which scripts are marked when one more activation is there. *)
LEMMA PushStopped ==
  ASSUME NEW p, NEW s \in Seq(FramesOf(p)), NEW f \in FramesOf(p), ~(f.k = "js" /\ f.stop)
  PROVE  Stopped(Append(s, f)) = Stopped(s)
<1>1. /\ Len(Append(s, f)) = Len(s) + 1 /\ Append(s, f)[Len(s) + 1] = f
      /\ \A i \in 1..Len(s) : Append(s, f)[i] = s[i]
  BY PushElements
<1>2. Len(s) \in Nat
  OBVIOUS
<1>. QED BY <1>1, <1>2 DEF Stopped

(* What a pop does to them. *)
LEMMA PopOther ==
  ASSUME NEW p, NEW s \in Seq(FramesOf(p)), Len(s) > 0, s[Len(s)].k # "native"
  PROVE  SameNatives(s, Popped(s))
<1>1. Len(Popped(s)) = Len(s) - 1 /\ \A i \in 1..Len(s) - 1 : Popped(s)[i] = s[i]
  BY PopElements
<1>2. Len(s) \in Nat
  OBVIOUS
<1>. QED BY <1>1, <1>2 DEF SameNatives, NativeFrames

(* Native code goes: it is one less. *)
LEMMA PopNative ==
  ASSUME NEW p, NEW s \in Seq(FramesOf(p)), Len(s) > 0, s[Len(s)].k = "native"
  PROVE  LET t == Popped(s)
         IN /\ NativeFrames(t) = Under(s, Len(s))
            /\ NativeFrames(s) = NativeFrames(t) \cup {Len(s)} /\ Len(s) \notin NativeFrames(t)
            /\ \A i \in NativeFrames(t) : t[i] = s[i] /\ Under(t, i) = Under(s, i)
<1>. DEFINE t == Popped(s)
<1>1. Len(t) = Len(s) - 1 /\ \A i \in 1..Len(s) - 1 : t[i] = s[i]
  BY PopElements
<1>2. Len(s) \in Nat
  OBVIOUS
<1>. HIDE DEF t
<1>3. NativeFrames(t) = Under(s, Len(s))
  BY <1>1, <1>2 DEF NativeFrames, Under
<1>4. NativeFrames(s) = NativeFrames(t) \cup {Len(s)} /\ Len(s) \notin NativeFrames(t)
  BY <1>1, <1>2 DEF NativeFrames
<1>5. \A i \in NativeFrames(t) : t[i] = s[i] /\ Under(t, i) = Under(s, i)
  <2>. SUFFICES ASSUME NEW i \in NativeFrames(t) PROVE t[i] = s[i] /\ Under(t, i) = Under(s, i)
    OBVIOUS
  <2>1. i \in 1..Len(s) - 1
    BY <1>1 DEF NativeFrames
  <2>. QED BY <2>1, <1>1, <1>2, <1>4 DEF Under
<1>. QED BY <1>3, <1>4, <1>5 DEF t

(* Which marks are left when the last activation goes. *)
LEMMA PopStopped ==
  ASSUME NEW p, NEW s \in Seq(FramesOf(p)), Len(s) > 0
  PROVE  Stopped(Popped(s)) \subseteq Stopped(s)
<1>1. Len(Popped(s)) = Len(s) - 1 /\ \A i \in 1..Len(s) - 1 : Popped(s)[i] = s[i]
  BY PopElements
<1>2. Len(s) \in Nat
  OBVIOUS
<1>. QED BY <1>1, <1>2 DEF Stopped

(* Frames replaced in place by ones of their kind. *)
LEMMA Relabelled ==
  ASSUME NEW p, NEW s, IsStack(s, p), NEW t \in Seq(FramesOf(p)), Len(t) = Len(s),
         \A i \in 1..Len(s) :
           /\ t[i].k = s[i].k
           /\ t[i].k = "native" => t[i].out = s[i].out
           /\ t[i].k = "call" => /\ t[i].in = s[i].in /\ t[i].pc = s[i].pc
                                 /\ t[i].timer # "off" => s[i].timer # "off"
  PROVE  IsStack(t, p) /\ SameNatives(s, t)
<1>1. /\ s \in Seq(FramesOf(p)) /\ Len(s) \in Nat /\ Len(s) > 0
      /\ s[1].k = "native"
  BY StackElements
<1>2. t # <<>> /\ t[1].k = "native"
  BY <1>1
<1>3. ASSUME NEW i \in 2..Len(t)
      PROVE  t[i - 1].k \in CASE t[i].k = "js" -> {"call"}
                              [] t[i].k = "call" -> {"native"}
                              [] OTHER -> {"js", "call"}
  <2>1. i \in 1..Len(s) /\ i - 1 \in 1..Len(s)
    BY <1>1
  <2>2. t[i].k = s[i].k /\ t[i - 1].k = s[i - 1].k
    BY <2>1
  <2>. QED BY <2>2 DEF IsStack, Nests
<1>4. ASSUME NEW i \in 1..Len(t), t[i].k = "call"
      PROVE  /\ i < Len(t) => t[i].in
             /\ t[i].in => t[i].pc # <<>>
             /\ t[i].timer # "off" => t[i].in /\ Head(t[i].pc).op = "timed"
  <2>1. s[i].k = "call" /\ t[i].in = s[i].in /\ t[i].pc = s[i].pc
        /\ (t[i].timer # "off" => s[i].timer # "off")
    BY <1>4
  <2>. QED BY <2>1 DEF IsStack, Nests
<1>5. SameNatives(s, t)
  BY DEF SameNatives, NativeFrames
<1>. QED BY <1>2, <1>3, <1>4, <1>5 DEF IsStack, Nests

(* MarkStopped changes scripts only. *)
LEMMA Marked ==
  ASSUME NEW p, NEW s, IsStack(s, p)
  PROVE  /\ IsStack(MarkStopped(s), p) /\ SameNatives(s, MarkStopped(s))
         /\ Len(MarkStopped(s)) = Len(s)
         /\ \A i \in 1..Len(s) : /\ MarkStopped(s)[i].k = s[i].k
                                 /\ s[i].k # "js" => MarkStopped(s)[i] = s[i]
<1>. DEFINE t == MarkStopped(s)
<1>1. /\ s \in Seq(FramesOf(p)) /\ Len(s) \in Nat
      /\ \A i \in 1..Len(s) : s[i] \in FramesOf(p)
  BY StackElements
<1>2. [k |-> "js", stop |-> TRUE] \in FramesOf(p)
  BY DEF FramesOf
<1>3. t \in Seq(FramesOf(p)) /\ Len(t) = Len(s)
  BY <1>1, <1>2 DEF MarkStopped
<1>4. \A i \in 1..Len(s) : /\ t[i].k = s[i].k
                           /\ s[i].k # "js" => t[i] = s[i]
  BY <1>1 DEF MarkStopped
<1>. HIDE DEF t
<1>5. \A i \in 1..Len(s) :
           /\ t[i].k = s[i].k
           /\ t[i].k = "native" => t[i].out = s[i].out
           /\ t[i].k = "call" => /\ t[i].in = s[i].in /\ t[i].pc = s[i].pc
                                 /\ t[i].timer # "off" => s[i].timer # "off"
  BY <1>4
<1>6. IsStack(t, p) /\ SameNatives(s, t)
  BY <1>3, <1>5, Relabelled
<1>. QED BY <1>3, <1>4, <1>6 DEF t

(* Scripts no longer stopped, as a cancel leaves them. *)
LEMMA Unmarked ==
  ASSUME NEW p, NEW s, IsStack(s, p)
  PROVE  LET t == [i \in 1..Len(s) |-> IF s[i].k = "js" THEN Script ELSE s[i]]
         IN /\ IsStack(t, p) /\ SameNatives(s, t) /\ Stopped(t) = {}
            /\ Len(t) = Len(s) /\ \A i \in 1..Len(s) : t[i].k = s[i].k
<1>. DEFINE t == [i \in 1..Len(s) |-> IF s[i].k = "js" THEN Script ELSE s[i]]
<1>1. /\ s \in Seq(FramesOf(p)) /\ Len(s) \in Nat
      /\ \A i \in 1..Len(s) : s[i] \in FramesOf(p)
  BY StackElements
<1>2. Script \in FramesOf(p) /\ Script.k = "js" /\ Script.stop = FALSE
  BY ScriptActivation
<1>3. t \in Seq(FramesOf(p)) /\ Len(t) = Len(s)
  BY <1>1, <1>2
<1>4. \A i \in 1..Len(s) : /\ t[i].k = s[i].k
                           /\ t[i].k = "js" => t[i] = Script
                           /\ s[i].k # "js" => t[i] = s[i]
  BY <1>1, <1>2
<1>. HIDE DEF t
<1>5. \A i \in 1..Len(s) :
           /\ t[i].k = s[i].k
           /\ t[i].k = "native" => t[i].out = s[i].out
           /\ t[i].k = "call" => /\ t[i].in = s[i].in /\ t[i].pc = s[i].pc
                                 /\ t[i].timer # "off" => s[i].timer # "off"
  BY <1>4
<1>6. IsStack(t, p) /\ SameNatives(s, t)
  BY <1>3, <1>5, Relabelled
<1>7. Stopped(t) = {}
  BY <1>2, <1>3, <1>4 DEF Stopped
<1>. QED BY <1>3, <1>4, <1>6, <1>7 DEF t

(* Two changes that leave native code alone, one after the other. *)
LEMMA SameNativesTwice ==
  ASSUME NEW r, NEW s, NEW t, SameNatives(r, s), SameNatives(s, t)
  PROVE  SameNatives(r, t)
BY DEF SameNatives

(* A call on top has native code under it, which is on top when it returns. *)
LEMMA CallPopped ==
  ASSUME NEW p, NEW s, IsStack(s, p), s[Len(s)].k = "call"
  PROVE  /\ Len(s) > 1 /\ IsStack(Popped(s), p) /\ SameNatives(s, Popped(s))
         /\ Popped(s)[Len(Popped(s))].k = "native"
         /\ Stopped(Popped(s)) \subseteq Stopped(s)
         /\ Len(Popped(s)) = Len(s) - 1
<1>1. /\ s \in Seq(FramesOf(p)) /\ Len(s) \in Nat /\ Len(s) > 0
      /\ s[1].k = "native"
  BY StackElements
<1>2. Len(s) > 1
  BY <1>1
<1>3. Len(Popped(s)) = Len(s) - 1 /\ \A i \in 1..Len(s) - 1 : Popped(s)[i] = s[i]
  BY <1>1, PopElements
<1>4. s[Len(s) - 1].k = "native"
  <2>1. Len(s) \in 2..Len(s)
    BY <1>1, <1>2
  <2>2. s[Len(s) - 1].k \in CASE s[Len(s)].k = "js" -> {"call"}
                              [] s[Len(s)].k = "call" -> {"native"}
                              [] OTHER -> {"js", "call"}
    BY <2>1 DEF IsStack, Nests
  <2>. QED BY <2>2
<1>5. IsStack(Popped(s), p)
  BY <1>2, PopStack
<1>6. SameNatives(s, Popped(s)) /\ Stopped(Popped(s)) \subseteq Stopped(s)
  BY <1>1, PopOther, PopStopped
<1>. QED BY <1>1, <1>2, <1>3, <1>4, <1>5, <1>6

(* The same when scripts are marked meanwhile. *)
LEMMA CallPoppedMarked ==
  ASSUME NEW p, NEW s, IsStack(s, p), s[Len(s)].k = "call"
  PROVE  LET t == MarkStopped(Popped(s))
         IN IsStack(t, p) /\ SameNatives(s, t) /\ t[Len(t)].k = "native"
<1>1. /\ IsStack(Popped(s), p) /\ SameNatives(s, Popped(s)) /\ Len(s) > 1
      /\ Popped(s)[Len(Popped(s))].k = "native" /\ Len(Popped(s)) = Len(s) - 1
  BY CallPopped
<1>2. Len(s) \in Nat
  BY StackElements
<1>. DEFINE q == Popped(s)
<1>. HIDE DEF q
<1>3. /\ IsStack(MarkStopped(q), p) /\ SameNatives(q, MarkStopped(q))
      /\ Len(MarkStopped(q)) = Len(q)
      /\ \A i \in 1..Len(q) : MarkStopped(q)[i].k = q[i].k
  BY <1>1, Marked DEF q
<1>4. SameNatives(s, MarkStopped(q))
  BY <1>1, <1>3, SameNativesTwice DEF q
<1>5. Len(q) \in 1..Len(q)
  BY <1>1, <1>2 DEF q
<1>. QED BY <1>1, <1>3, <1>4, <1>5 DEF q

(* A call on top replaced by another that may stand there. *)
LEMMA CallReplaced ==
  ASSUME NEW p, NEW s, IsStack(s, p), s[Len(s)].k = "call",
         NEW f \in FramesOf(p), f.k = "call", f.in => f.pc # <<>>,
         f.timer # "off" => f.in /\ Head(f.pc).op = "timed"
  PROVE  LET t == Append(Popped(s), f)
         IN /\ IsStack(t, p) /\ SameNatives(s, t) /\ Stopped(t) \subseteq Stopped(s)
            /\ Len(t) = Len(s) /\ t[Len(t)] = f
<1>. DEFINE q == Popped(s)
<1>1. /\ IsStack(q, p) /\ SameNatives(s, q) /\ q[Len(q)].k = "native"
      /\ Stopped(q) \subseteq Stopped(s) /\ Len(q) = Len(s) - 1
  BY CallPopped
<1>. HIDE DEF q
<1>2. q \in Seq(FramesOf(p)) /\ Len(s) \in Nat
  BY <1>1, StackElements
<1>3. IsStack(Append(q, f), p)
  BY <1>1, PushStack
<1>4. Len(Append(q, f)) = Len(q) + 1 /\ Append(q, f)[Len(q) + 1] = f
  BY <1>2, PushElements
<1>5. SameNatives(q, Append(q, f)) /\ Stopped(Append(q, f)) = Stopped(q)
  BY <1>2, PushOther, PushStopped
<1>6. SameNatives(s, Append(q, f))
  BY <1>1, <1>5, SameNativesTwice
<1>. QED BY <1>1, <1>2, <1>3, <1>4, <1>5, <1>6 DEF q

(* A call that has steps left goes on to the next. *)
LEMMA CallContinued ==
  ASSUME NEW p, NEW s, IsStack(s, p), s[Len(s)].k = "call", s[Len(s)].pc # <<>>
  PROVE  LET t == Append(Popped(s), Calling(Tail(s[Len(s)].pc)))
         IN /\ IsStack(t, p) /\ SameNatives(s, t) /\ Stopped(t) \subseteq Stopped(s)
            /\ Len(t) = Len(s) /\ t[Len(t)].k = "call"
<1>. DEFINE path == Tail(s[Len(s)].pc)
            f == Calling(path)
<1>1. s[Len(s)] \in FramesOf(p)
  BY StackElements
<1>2. s[Len(s)].pc \in Seq(StepsOf(p))
  BY <1>1, FrameFields
<1>3. path \in Seq(StepsOf(p))
  BY <1>2
<1>. HIDE DEF path
<1>4. f \in FramesOf(p) /\ f.k = "call" /\ f.in = FALSE /\ f.timer = "off"
  BY <1>3, CallingFrame
<1>. HIDE DEF f
<1>5. LET t == Append(Popped(s), f)
      IN /\ IsStack(t, p) /\ SameNatives(s, t) /\ Stopped(t) \subseteq Stopped(s)
         /\ Len(t) = Len(s) /\ t[Len(t)] = f
  BY <1>4, CallReplaced
<1>. QED BY <1>4, <1>5 DEF f, path

(* A call with a step to do goes inside its operation. *)
LEMMA CallInside ==
  ASSUME NEW p, NEW s, IsStack(s, p), s[Len(s)].k = "call", s[Len(s)].pc # <<>>
  PROVE  LET t == Append(Popped(s), Running(s[Len(s)]))
         IN /\ IsStack(t, p) /\ SameNatives(s, t) /\ Stopped(t) \subseteq Stopped(s)
            /\ Len(t) = Len(s) /\ t[Len(t)].k = "call" /\ t[Len(t)].in
<1>. DEFINE f == Running(s[Len(s)])
<1>1. s[Len(s)] \in FramesOf(p)
  BY StackElements
<1>2. /\ f \in FramesOf(p) /\ f.k = "call" /\ f.in = TRUE /\ f.pc = s[Len(s)].pc
      /\ f.timer # "off" => Head(f.pc).op = "timed"
  BY <1>1, RunningFrame
<1>. HIDE DEF f
<1>3. LET t == Append(Popped(s), f)
      IN /\ IsStack(t, p) /\ SameNatives(s, t) /\ Stopped(t) \subseteq Stopped(s)
         /\ Len(t) = Len(s) /\ t[Len(t)] = f
  BY <1>2, CallReplaced
<1>. QED BY <1>2, <1>3 DEF f

(* A script on top of a call inside its operation; it is not marked. *)
LEMMA ScriptPushed ==
  ASSUME NEW p, NEW s, IsStack(s, p), s[Len(s)].k = "call", s[Len(s)].in
  PROVE  LET t == Append(s, Script)
         IN /\ IsStack(t, p) /\ SameNatives(s, t) /\ Stopped(t) \subseteq Stopped(s)
            /\ t[Len(t)] = Script
<1>1. Script \in FramesOf(p) /\ Script.k = "js" /\ Script.stop = FALSE
  BY ScriptActivation
<1>2. s \in Seq(FramesOf(p)) /\ Len(s) \in Nat
  BY StackElements
<1>3. IsStack(Append(s, Script), p)
  BY <1>1, PushStack
<1>4. SameNatives(s, Append(s, Script)) /\ Stopped(Append(s, Script)) = Stopped(s)
  BY <1>1, <1>2, PushOther, PushStopped
<1>5. Len(Append(s, Script)) = Len(s) + 1 /\ Append(s, Script)[Len(s) + 1] = Script
  BY <1>1, <1>2, PushElements
<1>. QED BY <1>3, <1>4, <1>5

(* A script on top is over: the call it ran for is on top. *)
LEMMA ScriptPopped ==
  ASSUME NEW p, NEW s, IsStack(s, p), s[Len(s)].k = "js"
  PROVE  /\ IsStack(Popped(s), p) /\ SameNatives(s, Popped(s))
         /\ Popped(s)[Len(Popped(s))].k = "call"
         /\ Stopped(Popped(s)) \subseteq Stopped(s)
<1>1. /\ s \in Seq(FramesOf(p)) /\ Len(s) \in Nat /\ Len(s) > 0
      /\ s[1].k = "native"
  BY StackElements
<1>2. Len(s) > 1
  BY <1>1
<1>3. Len(Popped(s)) = Len(s) - 1 /\ \A i \in 1..Len(s) - 1 : Popped(s)[i] = s[i]
  BY <1>1, PopElements
<1>4. s[Len(s) - 1].k = "call"
  <2>1. Len(s) \in 2..Len(s)
    BY <1>1, <1>2
  <2>2. s[Len(s) - 1].k \in CASE s[Len(s)].k = "js" -> {"call"}
                              [] s[Len(s)].k = "call" -> {"native"}
                              [] OTHER -> {"js", "call"}
    BY <2>1 DEF IsStack, Nests
  <2>. QED BY <2>2
<1>5. IsStack(Popped(s), p)
  BY <1>2, PopStack
<1>6. SameNatives(s, Popped(s)) /\ Stopped(Popped(s)) \subseteq Stopped(s)
  BY <1>1, PopOther, PopStopped
<1>. QED BY <1>1, <1>2, <1>3, <1>4, <1>5, <1>6

-----------------------------------------------------------------------------
\* The invariant over one step.

(* The native frames by the two names. *)
LEMMA NativeNames ==
  /\ Frames("native") = NativeFrames(stack) /\ Natives = Cardinality(NativeFrames(stack))
  /\ OuterExceptionApart <=>
       (prov = "qjs" => (last # None => last.at = Natives) /\ SavedByCaller(stack))
<1>1. Frames("native") = NativeFrames(stack)
  BY DEF Frames, NativeFrames
<1>2. \A i : {j \in Frames("native") : j < i} = Under(stack, i)
  BY <1>1 DEF Under
<1>. QED BY <1>1, <1>2 DEF OuterExceptionApart, SavedByCaller, Natives

(* A name the next native activation may have. *)
LEMMA NativeNamesNext ==
  /\ Frames("native")' = NativeFrames(stack') /\ Natives' = Cardinality(NativeFrames(stack'))
  /\ OuterExceptionApart' <=>
       (prov' = "qjs" => (last' # None => last'.at = Natives') /\ SavedByCaller(stack'))
<1>1. Frames("native")' = NativeFrames(stack')
  BY DEF Frames, NativeFrames
<1>2. \A i : {j \in Frames("native")' : j < i} = Under(stack', i)
  BY <1>1 DEF Under
<1>. QED BY <1>1, <1>2 DEF OuterExceptionApart, SavedByCaller, Natives

(* A step that leaves the native frames alone. *)
LEMMA NativesKept ==
  ASSUME Inv, SameNatives(stack, stack')
  PROVE  /\ Natives' = Natives /\ DepthBounded' /\ SavedNoTermination'
         /\ prov = "qjs" => SavedByCaller(stack')
<1>1. /\ NativeFrames(stack') = NativeFrames(stack)
      /\ \A i \in NativeFrames(stack) : stack'[i].out = stack[i].out
  BY DEF SameNatives
<1>2. Natives' = Natives
  BY <1>1, NativeNames, NativeNamesNext
<1>3. \A i \in NativeFrames(stack) : Under(stack', i) = Under(stack, i)
  BY <1>1 DEF Under
<1>4. prov = "qjs" => SavedByCaller(stack')
  BY <1>1, <1>3, NativeNames DEF Inv, SavedByCaller
<1>. QED BY <1>1, <1>2, <1>4 DEF Inv, DepthBounded, SavedNoTermination

(* What the next state must be for the invariant to hold there. *)
LEMMA Restored ==
  ASSUME Inv, prov' = prov,
         {req', asking', asked', own'} \subseteq BOOLEAN,
         eng' \in {"none", "err", "term", "null"}, flow' \in {"run", "unwind"},
         last' \in Exceptions, ret' \in {"none", "ok", "pending", "other"},
         IsStack(stack', prov), DepthBounded', SavedNoTermination',
         prov = "qjs" => SavedByCaller(stack') /\ (last' # None => last'.at = Natives'),
         Stopped(stack') # {} => req',
         ret' # "none" => stack'[Len(stack')].k = "native",
         prov = "qjs" => ~own' /\ ~asking' /\ ~asked',
         stack'[Len(stack')].k = "js" /\ stack'[Len(stack')].stop => flow' = "unwind" /\ eng' = "term",
         ~own' => eng' # "null",
         ~req' /\ ~own' => ~asked' /\ eng' # "term" /\ last'.k # "term",
         ret' = "pending" => last' # None \/ (prov = "v8" /\ eng' = "term")
  PROVE  Inv'
<1>1. TypeOK'
  BY DEF Inv, TypeOK, IsStack
<1>2. OuterExceptionApart'
  BY NativeNamesNext
<1>3. CancelLeavesNothing'
  BY NativeNamesNext DEF CancelLeavesNothing, SavedNoTermination
<1>. QED BY <1>1, <1>2, <1>3 DEF Inv, StatusForNative, FlagOnly, StoppedByRequest,
           StoppedJsUnwinds, TerminationStaysUncatchable, FailureExplained, Top

(* Steps that keep the stack's natives, which most do. *)
LEMMA RestoredSame ==
  ASSUME Inv, prov' = prov,
         {req', asking', asked', own'} \subseteq BOOLEAN,
         eng' \in {"none", "err", "term", "null"}, flow' \in {"run", "unwind"},
         last' \in Exceptions, ret' \in {"none", "ok", "pending", "other"},
         IsStack(stack', prov), SameNatives(stack, stack'),
         prov = "qjs" => (last' # None => last'.at = Natives),
         Stopped(stack') # {} => req',
         ret' # "none" => stack'[Len(stack')].k = "native",
         prov = "qjs" => ~own' /\ ~asking' /\ ~asked',
         stack'[Len(stack')].k = "js" /\ stack'[Len(stack')].stop => flow' = "unwind" /\ eng' = "term",
         ~own' => eng' # "null",
         ~req' /\ ~own' => ~asked' /\ eng' # "term" /\ last'.k # "term",
         ret' = "pending" => last' # None \/ (prov = "v8" /\ eng' = "term")
  PROVE  Inv'
<1>1. /\ Natives' = Natives /\ DepthBounded' /\ SavedNoTermination'
      /\ prov = "qjs" => SavedByCaller(stack')
  BY NativesKept
<1>. QED BY <1>1, Restored

(* The invariant, in the terms in which the steps use it. *)
LEMMA InvFacts ==
  ASSUME Inv
  PROVE  /\ prov \in Providers /\ prov \in {"v8", "qjs"}
         /\ req \in BOOLEAN /\ asking \in BOOLEAN /\ asked \in BOOLEAN /\ own \in BOOLEAN
         /\ eng \in {"none", "err", "term", "null"} /\ flow \in {"run", "unwind"}
         /\ last \in Exceptions /\ ret \in {"none", "ok", "pending", "other"}
         /\ IsStack(stack, prov) /\ Len(stack) \in Nat /\ Len(stack) > 0
         /\ Top \in FramesOf(prov) /\ Top.k \in {"native", "js", "call"}
         /\ prov = "qjs" => (last # None => last.at = Natives)
         /\ Stopped(stack) # {} => req
         /\ ret # "none" => Top.k = "native"
         /\ prov = "qjs" => ~own /\ ~asking /\ ~asked
         /\ Top.k = "js" /\ Top.stop => flow = "unwind" /\ eng = "term"
         /\ ~own => eng # "null"
         /\ ~req /\ ~own => ~asked /\ eng # "term" /\ last.k # "term"
         /\ ret = "pending" => last # None \/ (prov = "v8" /\ eng = "term")
<1>1. TypeOK
  BY DEF Inv
<1>2. prov \in {"v8", "qjs"}
  BY <1>1, CallsAssumption DEF TypeOK
<1>3. IsStack(stack, prov)
  BY <1>1 DEF TypeOK, IsStack
<1>4. Len(stack) \in Nat /\ Len(stack) > 0 /\ \A i \in 1..Len(stack) : stack[i] \in FramesOf(prov)
  BY <1>3, StackElements
<1>5. Top \in FramesOf(prov)
  BY <1>4 DEF Top
<1>6. Top.k \in {"native", "js", "call"}
  BY <1>5, FrameFields
<1>7. prov = "qjs" => (last # None => last.at = Natives)
  BY NativeNames DEF Inv
<1>. QED BY <1>1, <1>2, <1>3, <1>4, <1>5, <1>6, <1>7
         DEF Inv, TypeOK, StatusForNative, FlagOnly, StoppedByRequest, StoppedJsUnwinds,
             TerminationStaysUncatchable, CancelLeavesNothing, FailureExplained

(* Nothing runs at first. *)
LEMMA InitEstablishes == ASSUME Init PROVE Inv
<1>1. None \in Exceptions /\ None.k = "none"
  BY NoneIsException DEF None
<1>2. /\ Native(None) \in FramesOf(prov)
      /\ Native(None).k = "native" /\ Native(None).out = None
  BY <1>1, NativeFrame
<1>3. /\ stack = <<Native(None)>> /\ stack \in Seq(FramesOf(prov)) /\ Len(stack) = 1
      /\ stack[1] = Native(None)
  BY <1>2 DEF Init
<1>4. Nests(stack)
  BY <1>2, <1>3 DEF Nests
<1>5. NativeFrames(stack) = {1} /\ Stopped(stack) = {} /\ Under(stack, 1) = {}
  BY <1>2, <1>3 DEF NativeFrames, Stopped, Under
<1>6. Natives = 1
  BY <1>5, NativeNames, FS_Singleton
<1>7. TypeOK
  BY <1>1, <1>3, <1>4 DEF Init, TypeOK
<1>8. DepthBounded
  BY <1>6, CallsAssumption DEF DepthBounded
<1>9. OuterExceptionApart
  BY <1>2, <1>3, <1>5, NativeNames DEF SavedByCaller, Init
<1>10. SavedNoTermination
  BY <1>1, <1>2, <1>3, <1>5 DEF SavedNoTermination
<1>11. CancelLeavesNothing
  BY <1>1, <1>10, NativeNames DEF CancelLeavesNothing, SavedNoTermination, Init
<1>. QED BY <1>2, <1>3, <1>5, <1>7, <1>8, <1>9, <1>10, <1>11
         DEF Init, Inv, StatusForNative, FlagOnly, StoppedByRequest, StoppedJsUnwinds,
             TerminationStaysUncatchable, FailureExplained, Top

(* A request sets the flag; on V8 the isolate is asked later. *)
LEMMA TerminateExecutionKeeps == ASSUME Inv, TerminateExecution PROVE Inv'
<1>1. SameNatives(stack, stack') /\ stack' = stack
  BY DEF TerminateExecution, SameNatives
<1>. QED BY <1>1, InvFacts, RestoredSame DEF TerminateExecution, Top

(* The second half of a request: V8 is asked. *)
LEMMA IsolateTerminateExecutionKeeps == ASSUME Inv, IsolateTerminateExecution PROVE Inv'
<1>1. SameNatives(stack, stack') /\ stack' = stack
  BY DEF IsolateTerminateExecution, SameNatives
<1>. QED BY <1>1, InvFacts, RestoredSame DEF IsolateTerminateExecution, Top

(* Only a step that V8's calls have starts a watchdog. *)
LEMMA TimeoutFiresKeeps == ASSUME Inv, TimeoutFires PROVE Inv'
<1>1. PICK i \in Frames("call") : /\ stack[i].timer = "on"
                                  /\ stack' = [stack EXCEPT ![i].timer = "fired"]
  BY DEF TimeoutFires
<1>2. i \in 1..Len(stack) /\ stack[i].k = "call"
  BY DEF Frames
<1>3. /\ IsStack(stack, prov) /\ stack \in Seq(FramesOf(prov)) /\ Len(stack) \in Nat
      /\ \A j \in 1..Len(stack) : stack[j] \in FramesOf(prov)
  BY InvFacts, StackElements
<1>4. /\ stack[i].pc \in Seq(StepsOf(prov)) /\ stack[i].in \in BOOLEAN
      /\ stack[i] = [k |-> "call", pc |-> stack[i].pc, in |-> stack[i].in, timer |-> stack[i].timer]
  BY <1>2, <1>3, FrameFields
<1>. DEFINE f == [k |-> "call", pc |-> stack[i].pc, in |-> stack[i].in, timer |-> "fired"]
<1>5. [stack[i] EXCEPT !.timer = "fired"] = f
  BY <1>4
<1>6. f \in FramesOf(prov) /\ f.k = "call" /\ f.in = stack[i].in /\ f.pc = stack[i].pc
  BY <1>4 DEF FramesOf
<1>7. stack' = [stack EXCEPT ![i] = [stack[i] EXCEPT !.timer = "fired"]]
  BY <1>1
<1>. HIDE DEF f
<1>8. stack' = [stack EXCEPT ![i] = f]
  BY <1>5, <1>7
<1>9. /\ stack' \in Seq(FramesOf(prov)) /\ Len(stack') = Len(stack)
      /\ stack'[i] = f /\ \A j \in 1..Len(stack) : j # i => stack'[j] = stack[j]
  BY <1>2, <1>3, <1>6, <1>8
<1>10. \A j \in 1..Len(stack) :
           /\ stack'[j].k = stack[j].k
           /\ stack'[j].k = "native" => stack'[j].out = stack[j].out
           /\ stack'[j].k = "call" => /\ stack'[j].in = stack[j].in /\ stack'[j].pc = stack[j].pc
                                      /\ stack'[j].timer # "off" => stack[j].timer # "off"
  BY <1>1, <1>2, <1>6, <1>9
<1>11. IsStack(stack', prov) /\ SameNatives(stack, stack')
  BY <1>3, <1>9, <1>10, Relabelled
<1>12. Stopped(stack') = Stopped(stack)
  BY <1>2, <1>6, <1>9 DEF Stopped
<1>13. prov # "qjs"
  <2>1. stack[i].in /\ Head(stack[i].pc).op = "timed" /\ stack[i].pc # <<>>
    BY <1>1, <1>2, <1>3 DEF IsStack, Nests
  <2>2. Head(stack[i].pc) \in StepsOf(prov)
    BY <2>1, <1>4
  <2>. QED BY <2>1, <2>2 DEF StepsOf
<1>14. Len(stack) \in 1..Len(stack)
  BY InvFacts
<1>15. /\ stack'[Len(stack')].k = Top.k
       /\ Top.k = "js" => stack'[Len(stack')] = Top
  BY <1>2, <1>6, <1>9, <1>14 DEF Top
<1>. QED BY <1>11, <1>12, <1>13, <1>15, InvFacts, RestoredSame DEF TimeoutFires

(* Pop, as the stack lemmas name it. *)
LEMMA PopIsPopped == Pop = Popped(stack)
BY DEF Pop, Popped

(* Scripts return, throw, catch and unwind; a stopped one only unwinds. *)
LEMMA JsReturnKeeps == ASSUME Inv, JsReturn PROVE Inv'
<1>1. stack' = Popped(stack) /\ Top.k = "js" /\ Top = stack[Len(stack)]
  BY PopIsPopped DEF JsReturn, JsOnTop, Top
<1>2. /\ IsStack(stack', prov) /\ SameNatives(stack, stack') /\ stack'[Len(stack')].k = "call"
      /\ Stopped(stack') \subseteq Stopped(stack)
  BY <1>1, InvFacts, ScriptPopped
<1>. QED BY <1>1, <1>2, InvFacts, RestoredSame DEF JsReturn, JsOnTop, Quietly

(* A stopped script unwinds. *)
LEMMA JsUnwindKeeps == ASSUME Inv, JsUnwind PROVE Inv'
<1>1. stack' = Popped(stack) /\ Top.k = "js" /\ Top = stack[Len(stack)]
  BY PopIsPopped DEF JsUnwind, JsOnTop, Top
<1>2. /\ IsStack(stack', prov) /\ SameNatives(stack, stack') /\ stack'[Len(stack')].k = "call"
      /\ Stopped(stack') \subseteq Stopped(stack)
  BY <1>1, InvFacts, ScriptPopped
<1>. QED BY <1>1, <1>2, InvFacts, RestoredSame DEF JsUnwind, JsOnTop, Quietly

(* A script throws. *)
LEMMA JsThrowKeeps == ASSUME Inv, JsThrow PROVE Inv'
<1>1. SameNatives(stack, stack') /\ stack' = stack
  BY DEF JsThrow, SameNatives
<1>. QED BY <1>1, InvFacts, RestoredSame DEF JsThrow, JsOnTop, Quietly, Top

(* The engine stops a script. *)
LEMMA JsInterruptedKeeps == ASSUME Inv, JsInterrupted PROVE Inv'
<1>1. SameNatives(stack, stack') /\ stack' = stack
  BY DEF JsInterrupted, SameNatives
<1>. QED BY <1>1, InvFacts, RestoredSame DEF JsInterrupted, JsOnTop, Quietly, Top

(* A script catches what its callee threw. *)
LEMMA JsCatchKeeps == ASSUME Inv, JsCatch PROVE Inv'
<1>1. SameNatives(stack, stack') /\ stack' = stack
  BY DEF JsCatch, SameNatives
<1>. QED BY <1>1, InvFacts, RestoredSame DEF JsCatch, JsOnTop, Quietly, Top

(* A stack has finitely many native frames. *)
LEMMA FiniteNatives ==
  ASSUME NEW p, NEW s \in Seq(FramesOf(p))
  PROVE  IsFiniteSet(NativeFrames(s)) /\ Cardinality(NativeFrames(s)) \in Nat
<1>1. Len(s) \in Nat
  OBVIOUS
<1>2. IsFiniteSet(1..Len(s))
  BY <1>1, FS_Interval
<1>3. NativeFrames(s) \subseteq 1..Len(s)
  BY DEF NativeFrames
<1>4. IsFiniteSet(NativeFrames(s))
  BY <1>2, <1>3, FS_Subset
<1>. QED BY <1>4, FS_CardinalityType

(* A callback entered over `below`, with e set aside. *)
LEMMA CallbackEntered ==
  ASSUME Inv, NEW below, IsStack(below, prov), SameNatives(stack, below),
         Stopped(below) \subseteq Stopped(stack),
         \/ below[Len(below)].k = "js"
         \/ below[Len(below)].k = "call" /\ below[Len(below)].in,
         Natives <= MaxJs,
         NEW e \in Exceptions, e.k # "term", prov = "qjs" => (e # None => e.at = Natives),
         stack' = Append(below, Native(e))
  PROVE  /\ IsStack(stack', prov) /\ DepthBounded' /\ SavedNoTermination'
         /\ prov = "qjs" => SavedByCaller(stack')
         /\ Stopped(stack') \subseteq Stopped(stack)
         /\ stack'[Len(stack')].k = "native"
<1>. DEFINE f == Native(e)
            n == Len(below) + 1
<1>1. f \in FramesOf(prov) /\ f.k = "native" /\ f.out = e
  BY NativeFrame
<1>2. below \in Seq(FramesOf(prov)) /\ Len(below) \in Nat
  BY StackElements
<1>. HIDE DEF f
<1>3. stack' = Append(below, f)
  BY DEF f
<1>4. IsStack(stack', prov)
  BY <1>1, <1>3, PushStack
<1>5. /\ Len(stack') = n /\ stack'[n] = f
      /\ \A i \in 1..Len(below) : stack'[i] = below[i]
  BY <1>1, <1>2, <1>3, PushElements
<1>6. /\ NativeFrames(stack') = NativeFrames(below) \cup {n}
      /\ Under(stack', n) = NativeFrames(below)
      /\ \A i \in NativeFrames(below) : stack'[i] = below[i] /\ Under(stack', i) = Under(below, i)
  <2>1. NativeFrames(stack') = NativeFrames(below) \cup {n}
    BY <1>1, <1>2, <1>5 DEF NativeFrames
  <2>2. Under(stack', n) = NativeFrames(below)
    BY <1>2, <2>1 DEF Under, NativeFrames
  <2>3. \A i \in NativeFrames(below) : stack'[i] = below[i] /\ Under(stack', i) = Under(below, i)
    BY <1>2, <1>5, <2>1 DEF Under, NativeFrames
  <2>. QED BY <2>1, <2>2, <2>3
<1>7. Stopped(stack') = Stopped(below)
  BY <1>1, <1>2, <1>3, PushStopped
<1>8. /\ NativeFrames(below) = NativeFrames(stack)
      /\ \A i \in NativeFrames(stack) : below[i].out = stack[i].out
  BY DEF SameNatives
<1>9. \A i \in NativeFrames(below) : Under(below, i) = Under(stack, i)
  BY <1>8 DEF Under
<1>10. n \notin NativeFrames(below)
  BY <1>2 DEF NativeFrames
<1>. HIDE DEF n
<1>11. IsFiniteSet(NativeFrames(below)) /\ Cardinality(NativeFrames(below)) \in Nat
  BY <1>2, FiniteNatives
<1>12. Cardinality(NativeFrames(stack')) = Cardinality(NativeFrames(below)) + 1
  BY <1>6, <1>10, <1>11, FS_AddElement
<1>13. Natives = Cardinality(NativeFrames(below))
  BY <1>8, NativeNames
<1>14. DepthBounded'
  BY <1>11, <1>12, <1>13, NativeNamesNext, CallsAssumption DEF DepthBounded
<1>15. SavedNoTermination'
  <2>1. \A i \in NativeFrames(stack) : stack[i].out.k # "term"
    BY DEF Inv, SavedNoTermination
  <2>2. \A i \in NativeFrames(below) : stack'[i].out.k # "term"
    BY <2>1, <1>6, <1>8
  <2>3. stack'[n].out.k # "term"
    BY <1>1, <1>5
  <2>. QED BY <2>2, <2>3, <1>6 DEF SavedNoTermination
<1>16. ASSUME prov = "qjs" PROVE SavedByCaller(stack')
  <2>1. SavedByCaller(stack)
    BY <1>16, NativeNames DEF Inv
  <2>2. \A i \in NativeFrames(below) :
          stack'[i].out # None => stack'[i].out.at = Cardinality(Under(stack', i))
    BY ZenonT(60), <2>1, <1>6, <1>8, <1>9 DEF SavedByCaller
  <2>3. stack'[n].out # None => stack'[n].out.at = Cardinality(Under(stack', n))
    BY <1>1, <1>5, <1>6, <1>13, <1>16
  <2>. QED BY <2>2, <2>3, <1>6 DEF SavedByCaller
<1>. QED BY <1>1, <1>4, <1>5, <1>7, <1>14, <1>15, <1>16

(* A callback that returns to what it was entered from. *)
LEMMA CallbackLeft ==
  ASSUME Inv, Top.k = "native", Len(stack) > 1, stack' = Pop
  PROVE  /\ IsStack(stack', prov) /\ DepthBounded' /\ SavedNoTermination'
         /\ prov = "qjs" => SavedByCaller(stack') /\ (Top.out # None => Top.out.at = Natives')
         /\ Stopped(stack') \subseteq Stopped(stack)
         /\ Top.out \in Exceptions /\ Top.out.k # "term"
         /\ stack'[Len(stack')].k = "js" => JsActive
         /\ stack'[Len(stack')].k = "js" /\ stack'[Len(stack')].stop => req
<1>1. /\ IsStack(stack, prov) /\ stack \in Seq(FramesOf(prov)) /\ Len(stack) \in Nat
      /\ Top \in FramesOf(prov)
  BY InvFacts, StackElements
<1>2. stack' = Popped(stack) /\ stack[Len(stack)] = Top
  BY PopIsPopped DEF Top
<1>3. IsStack(stack', prov) /\ Stopped(stack') \subseteq Stopped(stack)
  BY <1>1, <1>2, PopStack, PopStopped
<1>4. /\ NativeFrames(stack') = Under(stack, Len(stack))
      /\ NativeFrames(stack) = NativeFrames(stack') \cup {Len(stack)}
      /\ Len(stack) \notin NativeFrames(stack')
      /\ \A i \in NativeFrames(stack') : stack'[i] = stack[i] /\ Under(stack', i) = Under(stack, i)
  BY <1>1, <1>2, PopNative
<1>5. stack' \in Seq(FramesOf(prov))
  BY <1>3, StackElements
<1>6. IsFiniteSet(NativeFrames(stack')) /\ Cardinality(NativeFrames(stack')) \in Nat
  BY <1>5, FiniteNatives
<1>7. Cardinality(NativeFrames(stack)) = Cardinality(NativeFrames(stack')) + 1
  BY <1>4, <1>6, FS_AddElement
<1>8. Natives' = Cardinality(NativeFrames(stack')) /\ Natives = Natives' + 1 /\ Natives' \in Nat
  BY <1>6, <1>7, NativeNames, NativeNamesNext
<1>9. DepthBounded'
  BY <1>8, CallsAssumption DEF Inv, DepthBounded
<1>10. \A i \in NativeFrames(stack) : stack[i].out.k # "term"
  BY DEF Inv, SavedNoTermination
<1>11. SavedNoTermination'
  BY <1>4, <1>10 DEF SavedNoTermination
<1>12. Top.out \in Exceptions /\ Top.out.k # "term"
  BY <1>1, <1>2, <1>4, <1>10, FrameFields
<1>13. ASSUME prov = "qjs"
       PROVE  SavedByCaller(stack') /\ (Top.out # None => Top.out.at = Natives')
  <2>1. \A i \in NativeFrames(stack) :
          stack[i].out # None => stack[i].out.at = Cardinality(Under(stack, i))
    BY <1>13, NativeNames DEF Inv, SavedByCaller
  <2>2. SavedByCaller(stack')
    BY <2>1, <1>4 DEF SavedByCaller
  <2>3. Top.out # None => Top.out.at = Cardinality(Under(stack, Len(stack)))
    BY <2>1, <1>2, <1>4
  <2>. QED BY <2>2, <2>3, <1>4, <1>8
<1>14. /\ Len(stack') \in 1..Len(stack) /\ Len(stack') \in 1..Len(stack')
       /\ stack'[Len(stack')] = stack[Len(stack')]
  <2>1. Len(stack') = Len(stack) - 1 /\ \A i \in 1..Len(stack) - 1 : stack'[i] = stack[i]
    BY <1>1, <1>2, PopElements
  <2>. QED BY <2>1, <1>1
<1>15. stack'[Len(stack')].k = "js" => JsActive
  BY <1>14 DEF JsActive, Frames
<1>16. stack'[Len(stack')].k = "js" /\ stack'[Len(stack')].stop => req
  BY <1>3, <1>14, InvFacts DEF Stopped
<1>. QED BY <1>3, <1>9, <1>11, <1>12, <1>13, <1>15, <1>16

(* A callback is entered over `below`, or QuickJS refuses it. *)
LEMMA InvokeCallbackKeeps ==
  ASSUME Inv, NEW below, IsStack(below, prov), SameNatives(stack, below),
         Stopped(below) \subseteq Stopped(stack),
         \/ below[Len(below)].k = "js" /\ below = stack /\ flow = "run"
         \/ below[Len(below)].k = "call" /\ below[Len(below)].in,
         Natives <= MaxJs, invoke_callback(below),
         ret' = "none", UNCHANGED <<prov, req, asking, asked, own>>
  PROVE  Inv'
<1>1. None \in Exceptions /\ None.k = "none"
  BY NoneIsException DEF None
<1>2. CASE prov = "qjs" /\ req
  <2>1. eng' = "term" /\ flow' = "unwind" /\ stack' = below /\ last' = last
    BY <1>2 DEF invoke_callback
  <2>. QED BY <2>1, <1>2, InvFacts, RestoredSame
<1>3. CASE ~(prov = "qjs" /\ req)
  <2>. DEFINE e == IF prov = "qjs" THEN last ELSE None
  <2>1. /\ stack' = Append(below, Native(e)) /\ flow' = "run" /\ eng' = eng
        /\ last' = IF prov = "qjs" THEN None ELSE last
    BY <1>3 DEF invoke_callback
  <2>2. e \in Exceptions /\ e.k # "term" /\ (prov = "qjs" => (e # None => e.at = Natives))
    BY <1>1, <1>3, InvFacts
  <2>. HIDE DEF e
  <2>3. \/ below[Len(below)].k = "js"
        \/ below[Len(below)].k = "call" /\ below[Len(below)].in
    OBVIOUS
  <2>4. /\ IsStack(stack', prov) /\ DepthBounded' /\ SavedNoTermination'
        /\ prov = "qjs" => SavedByCaller(stack')
        /\ Stopped(stack') \subseteq Stopped(stack)
        /\ stack'[Len(stack')].k = "native"
    BY <2>1, <2>2, <2>3, CallbackEntered
  <2>. QED BY <2>1, <2>4, <1>1, <1>3, InvFacts, Restored
<1>. QED BY <1>2, <1>3

(* A script calls a callback. *)
LEMMA JsCallsNativeKeeps == ASSUME Inv, JsCallsNative PROVE Inv'
<1>1. IsStack(stack, prov) /\ SameNatives(stack, stack)
  BY InvFacts DEF SameNatives
<1>2. /\ stack[Len(stack)].k = "js" /\ flow = "run" /\ Natives <= MaxJs
      /\ invoke_callback(stack) /\ ret' = "none"
      /\ UNCHANGED <<prov, req, asking, asked, own>>
  BY DEF JsCallsNative, JsOnTop, Top
<1>. QED BY <1>1, <1>2, InvokeCallbackKeeps

(* A step of a call: it is on top and has steps left. *)
LEMMA AtStepFacts ==
  ASSUME Inv, NEW ops, AtStep(ops)
  PROVE  /\ stack[Len(stack)] = Top /\ Top.k = "call" /\ ~Top.in
         /\ Top.pc # <<>> /\ Top.pc \in Seq(StepsOf(prov))
         /\ Step \in StepsOf(prov) /\ Step.op \in ops
         /\ ret = "none"
<1>1. Top \in FramesOf(prov) /\ Top.k = "call" /\ ~Top.in /\ Top.pc # <<>> /\ Step.op \in ops
  BY InvFacts DEF AtStep
<1>2. Top.pc \in Seq(StepsOf(prov))
  BY <1>1, FrameFields
<1>3. Step \in StepsOf(prov)
  BY <1>1, <1>2 DEF Step
<1>. QED BY <1>1, <1>2, <1>3, InvFacts DEF Top

(* A call runs a callback itself. *)
LEMMA CallRunsNativeKeeps == ASSUME Inv, CallRunsNative PROVE Inv'
<1>. DEFINE below == Append(Popped(stack), Running(stack[Len(stack)]))
<1>1. stack[Len(stack)] = Top /\ Top.k = "call" /\ Top.pc # <<>> /\ IsStack(stack, prov)
  BY AtStepFacts, InvFacts DEF CallRunsNative
<1>2. /\ IsStack(below, prov) /\ SameNatives(stack, below) /\ Stopped(below) \subseteq Stopped(stack)
      /\ below[Len(below)].k = "call" /\ below[Len(below)].in
  BY <1>1, CallInside
<1>3. below = Append(Pop, Running(Top))
  BY <1>1, PopIsPopped
<1>. HIDE DEF below
<1>4. Natives <= MaxJs /\ ret' = "none" /\ UNCHANGED <<prov, req, asking, asked, own>>
  BY DEF CallRunsNative
<1>5. CASE prov = "v8"
  <2>1. None \in Exceptions /\ None.k = "none"
    BY NoneIsException DEF None
  <2>2. stack' = Append(below, Native(None)) /\ eng' = "none" /\ flow' = "run" /\ last' = last
    BY <1>3, <1>5 DEF CallRunsNative
  <2>3. /\ IsStack(stack', prov) /\ DepthBounded' /\ SavedNoTermination'
        /\ Stopped(stack') \subseteq Stopped(stack)
        /\ stack'[Len(stack')].k = "native"
    BY <1>2, <1>4, <2>1, <2>2, CallbackEntered
  <2>. QED BY <2>2, <2>3, <1>4, <1>5, InvFacts, Restored
<1>6. CASE prov # "v8"
  <2>1. invoke_callback(below)
    BY <1>3, <1>6 DEF CallRunsNative
  <2>. QED BY <2>1, <1>2, <1>4, InvokeCallbackKeeps
<1>. QED BY <1>5, <1>6

(* Back from a callback: V8's trampolines and QuickJS's invoke_callback. *)
LEMMA NativeReturnsKeeps == ASSUME Inv, NativeReturns PROVE Inv'
<1>1. None \in Exceptions /\ None.k = "none"
  BY NoneIsException DEF None
<1>2. Top.k = "native" /\ Len(stack) > 1 /\ stack' = Pop
      /\ ret' = "none" /\ UNCHANGED <<prov, req, asking, own>>
  BY DEF NativeReturns
<1>3. /\ IsStack(stack', prov) /\ DepthBounded' /\ SavedNoTermination'
      /\ prov = "qjs" => SavedByCaller(stack') /\ (Top.out # None => Top.out.at = Natives')
      /\ Stopped(stack') \subseteq Stopped(stack)
      /\ Top.out \in Exceptions /\ Top.out.k # "term"
      /\ stack'[Len(stack')].k = "js" => JsActive
      /\ stack'[Len(stack')].k = "js" /\ stack'[Len(stack')].stop => req
  BY <1>2, CallbackLeft
<1>4. last.k \in {"none", "err", "term"}
  BY InvFacts DEF Exceptions
<1>5. CASE prov = "v8"
  <2>1. HandleCallbackException
    BY <1>5 DEF NativeReturns
  <2>2. last' = None /\ flow' = IF eng' = "none" THEN "run" ELSE "unwind"
    BY <2>1 DEF HandleCallbackException
  <2>3. CASE ~req /\ last = None
    <3>1. eng' = eng /\ asked' = asked
      BY <2>1, <2>3 DEF HandleCallbackException
    <3>. QED BY <3>1, <2>2, <2>3, <1>1, <1>2, <1>3, <1>5, InvFacts, Restored
  <2>4. CASE req \/ (last # None /\ eng = "term")
    <3>1. KeepTerminating
      BY <2>1, <2>4 DEF HandleCallbackException
    <3>2. /\ eng' \in {eng, "term"} /\ asked' \in BOOLEAN
          /\ eng = "term" \/ JsActive => eng' = "term"
      BY <3>1, InvFacts DEF KeepTerminating
    <3>3. ~req' => own'
      BY <2>4, <1>2, InvFacts
    <3>. QED BY <3>2, <3>3, <2>2, <1>1, <1>2, <1>3, <1>5, InvFacts, Restored
  <2>5. CASE ~req /\ last # None /\ eng # "term"
    <3>1. eng' = (IF last.k = "term" THEN "null" ELSE "err") /\ asked' = asked
      BY <2>1, <2>5 DEF HandleCallbackException
    <3>. QED BY <3>1, <2>2, <2>5, <1>1, <1>2, <1>3, <1>5, InvFacts, Restored
  <2>. QED BY <2>3, <2>4, <2>5
<1>6. CASE prov # "v8"
  <2>1. CallbackReturned
    BY <1>6 DEF NativeReturns
  <2>2. /\ last' = Top.out /\ asked' = asked
        /\ eng' = IF req THEN "term" ELSE IF last # None THEN last.k ELSE eng
        /\ flow' = IF req \/ last # None THEN "unwind" ELSE "run"
    BY <2>1 DEF CallbackReturned
  <2>. QED BY <2>2, <1>1, <1>2, <1>3, <1>4, <1>6, InvFacts, Restored
<1>. QED BY <1>5, <1>6

(* What becomes pending. *)
LEMMA PendingFacts ==
  ASSUME Inv, NEW kind \in {"err", "term"}
  PROVE  /\ Pending(kind) \in Exceptions /\ Pending(kind) # None
         /\ Pending(kind).k = kind /\ Pending(kind).at = Natives
<1>1. stack \in Seq(FramesOf(prov))
  BY InvFacts, StackElements
<1>2. Natives \in Nat
  BY <1>1, FiniteNatives, NativeNames
<1>3. Natives \in 0..MaxJs + 1
  BY <1>2, CallsAssumption DEF Inv, DepthBounded
<1>. QED BY <1>3 DEF Pending, Exceptions, None

(* A call returns to native code, marking the scripts below or not. *)
LEMMA CallReturns ==
  ASSUME Inv, Top.k = "call",
         stack' = Pop \/ (req /\ stack' = MarkStopped(Pop))
  PROVE  /\ IsStack(stack', prov) /\ SameNatives(stack, stack')
         /\ stack'[Len(stack')].k = "native"
         /\ Stopped(stack') # {} => req
<1>1. IsStack(stack, prov) /\ stack[Len(stack)].k = "call" /\ Pop = Popped(stack)
  BY InvFacts, PopIsPopped DEF Top
<1>2. CASE stack' = Pop
  <2>1. /\ IsStack(stack', prov) /\ SameNatives(stack, stack') /\ stack'[Len(stack')].k = "native"
        /\ Stopped(stack') \subseteq Stopped(stack)
    BY <1>1, <1>2, CallPopped
  <2>. QED BY <2>1, InvFacts
<1>3. CASE req /\ stack' = MarkStopped(Pop)
  BY <1>1, <1>3, CallPoppedMarked
<1>. QED BY <1>2, <1>3

(* A call goes on to its next step. *)
LEMMA CallGoesOn ==
  ASSUME Inv, Top.k = "call", Top.pc # <<>>, Continue
  PROVE  /\ IsStack(stack', prov) /\ SameNatives(stack, stack')
         /\ stack'[Len(stack')].k = "call"
         /\ Stopped(stack') # {} => req
         /\ ret' = "none"
<1>1. IsStack(stack, prov) /\ stack[Len(stack)] = Top /\ Pop = Popped(stack)
  BY InvFacts, PopIsPopped DEF Top
<1>2. stack' = Append(Popped(stack), Calling(Tail(stack[Len(stack)].pc))) /\ ret' = ret
  BY <1>1 DEF Continue
<1>3. /\ IsStack(stack', prov) /\ SameNatives(stack, stack') /\ stack'[Len(stack')].k = "call"
      /\ Stopped(stack') \subseteq Stopped(stack)
  BY <1>1, <1>2, CallContinued
<1>. QED BY <1>2, <1>3, InvFacts

(* An operation that failed with e. *)
LEMMA FailedEffect ==
  ASSUME Inv, Top.k = "call", Top.pc # <<>>, Step \in StepsOf(prov),
         NEW e, Failed(e)
  PROVE  /\ IsStack(stack', prov) /\ SameNatives(stack, stack')
         /\ stack'[Len(stack')].k \in {"native", "call"}
         /\ Stopped(stack') # {} => req
         /\ eng' \in {"none", e}
         /\ \/ last' = last
            \/ last' = Pending("err")
            \/ e = "term" /\ last' = Pending("term")
         /\ ret' \in {"none", "ok", "pending", "other"}
         /\ ret' # "none" => stack'[Len(stack')].k = "native"
         /\ ret' = "pending" => last' # None
<1>1. CASE Step.op \in {"try", "make", "timed"}
  <2>1. /\ last' = Pending(IF e = "term" THEN "term" ELSE "err")
        /\ eng' = Caught(e) /\ ret' = "pending"
        /\ stack' = IF e = "term" /\ req THEN MarkStopped(Pop) ELSE Pop
    BY <1>1 DEF Failed
  <2>2. /\ IsStack(stack', prov) /\ SameNatives(stack, stack')
        /\ stack'[Len(stack')].k = "native" /\ (Stopped(stack') # {} => req)
    BY <2>1, CallReturns
  <2>3. eng' \in {"none", e}
    BY <2>1 DEF Caught, Kept
  <2>. QED BY <2>1, <2>2, <2>3, PendingFacts
<1>2. CASE Step.op = "bare"
  <2>1. /\ eng' = Kept(e) /\ last' = last /\ \E s \in Step.st : Return(s)
    BY <1>2 DEF Failed
  <2>2. PICK s \in Step.st : stack' = Pop /\ ret' = Class(s)
    BY <2>1 DEF Return
  <2>3. /\ IsStack(stack', prov) /\ SameNatives(stack, stack')
        /\ stack'[Len(stack')].k = "native" /\ (Stopped(stack') # {} => req)
    BY <2>2, CallReturns
  <2>4. s # "napi_pending_exception"
    BY <1>2 DEF StepsOf
  <2>5. ret' \in {"ok", "other"}
    BY <2>2, <2>4 DEF Class
  <2>. QED BY <2>1, <2>3, <2>5 DEF Kept
<1>3. CASE Step.op = "loose"
  <2>1. eng' = (IF prov = "v8" THEN Kept(e) ELSE e) /\ last' = last /\ Continue
    BY <1>3 DEF Failed
  <2>. QED BY <2>1, CallGoesOn DEF Kept
<1>4. CASE Step.op \notin {"try", "make", "timed", "bare", "loose"}
  <2>1. eng' = Caught(e) /\ last' = last /\ Continue
    BY <1>4 DEF Failed
  <2>. QED BY <2>1, CallGoesOn DEF Caught, Kept
<1>. QED BY <1>1, <1>2, <1>3, <1>4

(* The steps of a call, one by one. *)
LEMMA NativeCallsKeeps == ASSUME Inv, NativeCalls PROVE Inv'
<1>1. PICK path \in Paths[prov] : \/ stack' = Append(stack, Calling(path)) /\ ret' = "none"
                                  \/ ret' = "other" /\ stack' = stack
  BY DEF NativeCalls
<1>2. UNCHANGED <<prov, req, asking, asked, own, eng, flow, last>> /\ Top.k = "native"
      /\ Top = stack[Len(stack)]
  BY DEF NativeCalls, Top
<1>3. CASE stack' = Append(stack, Calling(path)) /\ ret' = "none"
  <2>. DEFINE f == Calling(path)
  <2>1. path \in Seq(StepsOf(prov))
    BY InvFacts, PathsAssumption
  <2>2. f \in FramesOf(prov) /\ f.k = "call" /\ f.in = FALSE /\ f.timer = "off"
    BY <2>1, CallingFrame
  <2>3. IsStack(stack, prov) /\ stack \in Seq(FramesOf(prov)) /\ Len(stack) \in Nat
    BY InvFacts, StackElements
  <2>. HIDE DEF f
  <2>4. stack' = Append(stack, f)
    BY <1>3 DEF f
  <2>5. IsStack(stack', prov)
    BY <2>2, <2>3, <2>4, <1>2, PushStack
  <2>6. SameNatives(stack, stack') /\ Stopped(stack') = Stopped(stack)
    BY <2>2, <2>3, <2>4, PushOther, PushStopped
  <2>7. stack'[Len(stack')].k = "call"
    BY <2>2, <2>3, <2>4, PushElements
  <2>. QED BY <2>5, <2>6, <2>7, <1>2, <1>3, InvFacts, RestoredSame
<1>4. CASE ret' = "other" /\ stack' = stack
  <2>1. SameNatives(stack, stack')
    BY <1>4 DEF SameNatives
  <2>. QED BY <2>1, <1>2, <1>4, InvFacts, RestoredSame
<1>. QED BY <1>1, <1>3, <1>4

(* A request is cancelled. *)
LEMMA CancelTerminateExecutionKeeps == ASSUME Inv, CancelTerminateExecution PROVE Inv'
<1>1. None \in Exceptions /\ None.k = "none"
  BY NoneIsException DEF None
<1>2. /\ Top.k = "native" /\ Top = stack[Len(stack)] /\ req' = FALSE /\ asked' = FALSE /\ ret' = "ok"
      /\ eng' = (IF eng = "term" THEN "none" ELSE eng)
      /\ last' = (IF last.k = "term" THEN None ELSE last)
      /\ UNCHANGED <<prov, asking, own, flow>>
  BY DEF CancelTerminateExecution, Top
<1>3. IsStack(stack, prov) /\ Len(stack) \in 1..Len(stack)
  BY InvFacts
<1>4. stack' = [i \in 1..Len(stack) |-> IF stack[i].k = "js" THEN Script ELSE stack[i]]
  BY DEF CancelTerminateExecution
<1>5. /\ IsStack(stack', prov) /\ SameNatives(stack, stack') /\ Stopped(stack') = {}
      /\ Len(stack') = Len(stack) /\ \A i \in 1..Len(stack) : stack'[i].k = stack[i].k
  BY <1>3, <1>4, Unmarked
<1>. QED BY <1>1, <1>2, <1>3, <1>5, InvFacts, RestoredSame

(* A call returns. *)
LEMMA CallEndsKeeps == ASSUME Inv, CallEnds PROVE Inv'
<1>1. Top.k = "call" /\ stack' = Pop /\ ret' \in {"ok", "other"}
      /\ UNCHANGED <<prov, req, asking, asked, own, flow, eng, last>>
  BY DEF CallEnds, Return, Class, Others
<1>2. /\ IsStack(stack', prov) /\ SameNatives(stack, stack')
      /\ stack'[Len(stack')].k = "native" /\ (Stopped(stack') # {} => req)
  BY <1>1, CallReturns
<1>. QED BY <1>1, <1>2, InvFacts, RestoredSame

(* The refused call leaves something pending, a termination unless it found
   something there. *)
LEMMA CallChecksTerminationKeeps == ASSUME Inv, CallChecksTermination PROVE Inv'
<1>1. Top.k = "call" /\ Top.pc # <<>> /\ UNCHANGED <<prov, req, asking, asked, own, flow>>
  BY AtStepFacts DEF CallChecksTermination, Others
<1>2. CASE TerminatedOrTerminating
  <2>1. fail_if_terminating
    BY <1>2 DEF CallChecksTermination
  <2>2. /\ \/ last' = last /\ last # None
           \/ last' = Pending("term")
        /\ eng' \in {"none", eng} /\ (prov = "v8" => eng' = eng) /\ ret' = "pending"
        /\ stack' = Pop \/ (req /\ stack' = MarkStopped(Pop))
    <3>1. last.k = "err" => last # None
      BY DEF None
    <3>. QED BY <2>1, <3>1, InvFacts DEF fail_if_terminating
  <2>3. /\ IsStack(stack', prov) /\ SameNatives(stack, stack')
        /\ stack'[Len(stack')].k = "native" /\ (Stopped(stack') # {} => req)
    BY <1>1, <2>2, CallReturns
  <2>4. req \/ own
    BY <1>2, InvFacts DEF TerminatedOrTerminating
  <2>. QED BY <2>2, <2>3, <2>4, <1>1, PendingFacts, InvFacts, RestoredSame
<1>3. CASE ~TerminatedOrTerminating
  <2>1. Continue /\ eng' = eng /\ last' = last
    BY <1>3 DEF CallChecksTermination
  <2>2. /\ IsStack(stack', prov) /\ SameNatives(stack, stack')
        /\ stack'[Len(stack')].k = "call" /\ (Stopped(stack') # {} => req) /\ ret' = "none"
    BY <2>1, <1>1, CallGoesOn
  <2>. QED BY <2>1, <2>2, <1>1, InvFacts, RestoredSame
<1>. QED BY <1>2, <1>3

(* A call enters the engine. *)
LEMMA CallEntersV8Keeps == ASSUME Inv, CallEntersV8 PROVE Inv'
<1>1. Top.k = "call" /\ Top.pc # <<>> /\ UNCHANGED <<prov, req, asking, asked, own, flow, last>>
      /\ Continue /\ eng' \in {"none", eng}
  BY AtStepFacts DEF CallEntersV8, Others, Entered
<1>2. /\ IsStack(stack', prov) /\ SameNatives(stack, stack')
      /\ stack'[Len(stack')].k = "call" /\ (Stopped(stack') # {} => req) /\ ret' = "none"
  BY <1>1, CallGoesOn
<1>. QED BY <1>1, <1>2, InvFacts, RestoredSame

(* An operation of the engine succeeds or throws. *)
LEMMA CallOperatesKeeps == ASSUME Inv, CallOperates PROVE Inv'
<1>1. /\ Top.k = "call" /\ Top.pc # <<>> /\ Step \in StepsOf(prov)
      /\ UNCHANGED <<prov, req, asking, asked, own, flow>>
  BY AtStepFacts DEF CallOperates, Others
<1>2. CASE Continue /\ eng' = Entered /\ UNCHANGED last
  <2>1. /\ IsStack(stack', prov) /\ SameNatives(stack, stack')
        /\ stack'[Len(stack')].k = "call" /\ (Stopped(stack') # {} => req) /\ ret' = "none"
    BY <1>1, <1>2, CallGoesOn
  <2>2. eng' \in {"none", eng}
    BY <1>2 DEF Entered
  <2>. QED BY <2>1, <2>2, <1>1, <1>2, InvFacts, RestoredSame
<1>3. CASE Failed("err")
  <2>1. /\ IsStack(stack', prov) /\ SameNatives(stack, stack')
        /\ stack'[Len(stack')].k \in {"native", "call"} /\ (Stopped(stack') # {} => req)
        /\ eng' \in {"none", "err"}
        /\ last' = last \/ last' = Pending("err")
        /\ ret' \in {"none", "ok", "pending", "other"}
        /\ ret' # "none" => stack'[Len(stack')].k = "native"
        /\ ret' = "pending" => last' # None
    BY <1>1, <1>3, FailedEffect
  <2>. QED BY <2>1, <1>1, PendingFacts, InvFacts, RestoredSame
<1>. QED BY <1>2, <1>3 DEF CallOperates

(* A call runs script. *)
LEMMA CallRunsJsKeeps == ASSUME Inv, CallRunsJs PROVE Inv'
<1>. DEFINE below == Append(Popped(stack), Running(stack[Len(stack)]))
<1>1. /\ stack[Len(stack)] = Top /\ Top.k = "call" /\ Top.pc # <<>> /\ IsStack(stack, prov)
      /\ ret = "none"
  BY AtStepFacts, InvFacts DEF CallRunsJs
<1>2. /\ IsStack(below, prov) /\ SameNatives(stack, below) /\ Stopped(below) \subseteq Stopped(stack)
      /\ below[Len(below)].k = "call" /\ below[Len(below)].in
  BY <1>1, CallInside
<1>3. stack' = Append(below, Script)
  BY <1>1, PopIsPopped DEF CallRunsJs
<1>. HIDE DEF below
<1>4. /\ IsStack(stack', prov) /\ SameNatives(below, stack') /\ Stopped(stack') \subseteq Stopped(below)
      /\ stack'[Len(stack')] = Script
  BY <1>2, <1>3, ScriptPushed
<1>5. SameNatives(stack, stack')
  BY <1>2, <1>4, SameNativesTwice
<1>6. Script.stop = FALSE /\ Script.k = "js"
  BY ScriptActivation
<1>7. UNCHANGED <<prov, req, asking, asked, own, last, ret>> /\ flow' = "run" /\ eng' \in {"none", eng}
  BY DEF CallRunsJs, Quietly, Entered
<1>. QED BY <1>1, <1>2, <1>4, <1>5, <1>6, <1>7, InvFacts, RestoredSame

(* A call inside its operation has a step to come back to. *)
LEMMA InsideFacts ==
  ASSUME Inv, Top.k = "call", Top.in
  PROVE  Top.pc # <<>> /\ Step \in StepsOf(prov) /\ ret = "none"
<1>1. Top \in FramesOf(prov) /\ IsStack(stack, prov) /\ Len(stack) \in 1..Len(stack)
      /\ Top = stack[Len(stack)]
  BY InvFacts DEF Top
<1>2. Top.pc # <<>>
  BY <1>1 DEF IsStack, Nests
<1>3. Top.pc \in Seq(StepsOf(prov))
  BY <1>1, FrameFields
<1>4. Step \in StepsOf(prov)
  BY <1>2, <1>3 DEF Step
<1>. QED BY <1>2, <1>4, InvFacts

(* A call goes on after the script it ran. *)
LEMMA CallResumesKeeps == ASSUME Inv, CallResumes PROVE Inv'
<1>1. Top.k = "call" /\ Top.in /\ flow' = "run" /\ UNCHANGED <<prov, req, asking, asked, own>>
  BY DEF CallResumes
<1>2. Top.pc # <<>> /\ Step \in StepsOf(prov)
  BY <1>1, InsideFacts
<1>3. CASE flow = "unwind"
  <2>1. Failed(eng)
    BY <1>3 DEF CallResumes
  <2>2. /\ IsStack(stack', prov) /\ SameNatives(stack, stack')
        /\ stack'[Len(stack')].k \in {"native", "call"} /\ (Stopped(stack') # {} => req)
        /\ eng' \in {"none", eng}
        /\ \/ last' = last
           \/ last' = Pending("err")
           \/ eng = "term" /\ last' = Pending("term")
        /\ ret' \in {"none", "ok", "pending", "other"}
        /\ ret' # "none" => stack'[Len(stack')].k = "native"
        /\ ret' = "pending" => last' # None
    BY <1>1, <1>2, <2>1, FailedEffect
  <2>. QED BY <2>2, <1>1, PendingFacts, InvFacts, RestoredSame
<1>4. CASE flow # "unwind"
  <2>1. Continue /\ eng' = eng /\ last' = last
    BY <1>4 DEF CallResumes
  <2>2. /\ IsStack(stack', prov) /\ SameNatives(stack, stack')
        /\ stack'[Len(stack')].k = "call" /\ (Stopped(stack') # {} => req) /\ ret' = "none"
    BY <2>1, <1>1, <1>2, CallGoesOn
  <2>. QED BY <2>1, <2>2, <1>1, InvFacts, RestoredSame
<1>. QED BY <1>3, <1>4

(* A script under a timeout ends. *)
LEMMA TimedScriptEndsKeeps == ASSUME Inv, TimedScriptEnds PROVE Inv'
<1>1. Top.k = "call" /\ Top.in /\ flow' = "run" /\ UNCHANGED <<prov, req, asking, own>>
      /\ Step.op = "timed"
  BY DEF TimedScriptEnds
<1>2. Top.pc # <<>> /\ Step \in StepsOf(prov)
  BY <1>1, InsideFacts
<1>3. prov = "v8"
  BY <1>1, <1>2, InvFacts DEF StepsOf
<1>. DEFINE quiet == Top.timer # "fired" /\ flow = "run"
            term == \/ Top.timer = "fired" /\ req
                    \/ Top.timer # "fired" /\ (eng = "term" \/ req)
<1>4. CASE quiet
  <2>1. Continue /\ asked' = asked /\ eng' = eng /\ last' = last
    BY <1>4 DEF TimedScriptEnds
  <2>2. /\ IsStack(stack', prov) /\ SameNatives(stack, stack')
        /\ stack'[Len(stack')].k = "call" /\ (Stopped(stack') # {} => req) /\ ret' = "none"
    BY <2>1, <1>1, <1>2, CallGoesOn
  <2>. QED BY <2>1, <2>2, <1>1, <1>3, InvFacts, RestoredSame
<1>5. CASE ~quiet /\ term
  <2>1. /\ last' = (IF last = None THEN Pending("term") ELSE last)
        /\ eng' = Caught(IF flow = "run" THEN "none" ELSE eng)
        /\ stack' = (IF req THEN MarkStopped(Pop) ELSE Pop)
        /\ asked' = asked /\ ret' = "pending"
    BY <1>5 DEF TimedScriptEnds
  <2>2. /\ IsStack(stack', prov) /\ SameNatives(stack, stack')
        /\ stack'[Len(stack')].k = "native" /\ (Stopped(stack') # {} => req)
    BY <2>1, <1>1, CallReturns
  <2>3. eng' \in {"none", "term"} /\ (eng' = "term" => eng = "term")
    BY <2>1 DEF Caught, Kept
  <2>4. req \/ own
    BY <1>5, InvFacts
  <2>. QED BY <2>1, <2>2, <2>3, <2>4, <1>1, <1>3, PendingFacts, InvFacts, RestoredSame
<1>6. CASE ~quiet /\ ~term
  <2>1. /\ last' = Pending("err") /\ eng' = "none" /\ stack' = Pop /\ ret' = "pending"
        /\ asked' = (asked /\ Top.timer # "fired")
    BY <1>6 DEF TimedScriptEnds
  <2>2. /\ IsStack(stack', prov) /\ SameNatives(stack, stack')
        /\ stack'[Len(stack')].k = "native" /\ (Stopped(stack') # {} => req)
    BY <2>1, <1>1, CallReturns
  <2>. QED BY <2>1, <2>2, <1>1, <1>3, PendingFacts, InvFacts, RestoredSame
<1>. QED BY <1>4, <1>5, <1>6

(* A call throws an exception of its own. *)
LEMMA CallRaisesKeeps == ASSUME Inv, CallRaises PROVE Inv'
<1>1. /\ Top.k = "call" /\ UNCHANGED <<prov, req, asking, asked, own, flow>>
      /\ last' = Pending("err") /\ eng' \in {"err", eng}
      /\ stack' = Pop /\ ret' \in {"ok", "pending", "other"}
  BY AtStepFacts DEF CallRaises, Others, Return, Class
<1>2. /\ IsStack(stack', prov) /\ SameNatives(stack, stack')
      /\ stack'[Len(stack')].k = "native" /\ (Stopped(stack') # {} => req)
  BY <1>1, CallReturns
<1>. QED BY <1>1, <1>2, PendingFacts, InvFacts, RestoredSame

(* A call throws unless the engine unwinds. *)
LEMMA CallThrowsUnlessKeeps == ASSUME Inv, CallThrowsUnless PROVE Inv'
<1>1. /\ Top.k = "call" /\ Top.pc # <<>> /\ Step \in StepsOf(prov) /\ Step.op = "unless"
      /\ UNCHANGED <<prov, req, asking, asked, own, flow, eng, last>>
  BY AtStepFacts DEF CallThrowsUnless, Others
<1>2. prov = "v8"
  BY <1>1, InvFacts DEF StepsOf
<1>3. CASE eng = "term"
  <2>1. stack' = Pop /\ ret' = "pending"
    BY <1>3 DEF CallThrowsUnless, Return, Class
  <2>2. /\ IsStack(stack', prov) /\ SameNatives(stack, stack')
        /\ stack'[Len(stack')].k = "native" /\ (Stopped(stack') # {} => req)
    BY <2>1, <1>1, CallReturns
  <2>. QED BY <2>1, <2>2, <1>1, <1>2, <1>3, InvFacts, RestoredSame
<1>4. CASE eng # "term"
  <2>1. Continue
    BY <1>4 DEF CallThrowsUnless
  <2>2. /\ IsStack(stack', prov) /\ SameNatives(stack, stack')
        /\ stack'[Len(stack')].k = "call" /\ (Stopped(stack') # {} => req) /\ ret' = "none"
    BY <2>1, <1>1, CallGoesOn
  <2>. QED BY <2>2, <1>1, <1>2, InvFacts, RestoredSame
<1>. QED BY <1>3, <1>4

(* A call takes the exception that is pending. *)
LEMMA CallTakesPendingKeeps == ASSUME Inv, CallTakesPending PROVE Inv'
<1>1. None \in Exceptions /\ None.k = "none"
  BY NoneIsException DEF None
<1>2. /\ Top.k = "call" /\ Top.pc # <<>>
      /\ UNCHANGED <<prov, req, asking, asked, own, flow, eng>>
      /\ last' \in {None, last}
  BY AtStepFacts DEF CallTakesPending, Others
<1>3. CASE Step.op = "need" /\ last = None
  <2>1. stack' = Pop /\ ret' = "other"
    BY <1>3 DEF CallTakesPending, Return, Class
  <2>2. /\ IsStack(stack', prov) /\ SameNatives(stack, stack')
        /\ stack'[Len(stack')].k = "native" /\ (Stopped(stack') # {} => req)
    BY <2>1, <1>2, CallReturns
  <2>. QED BY <2>1, <2>2, <1>1, <1>2, InvFacts, RestoredSame
<1>4. CASE ~(Step.op = "need" /\ last = None)
  <2>1. Continue
    BY <1>4 DEF CallTakesPending
  <2>2. /\ IsStack(stack', prov) /\ SameNatives(stack, stack')
        /\ stack'[Len(stack')].k = "call" /\ (Stopped(stack') # {} => req) /\ ret' = "none"
    BY <2>1, <1>2, CallGoesOn
  <2>. QED BY <2>2, <1>1, <1>2, InvFacts, RestoredSame
<1>. QED BY <1>3, <1>4

(* Nothing happens. *)
LEMMA StutterKeeps == ASSUME Inv, UNCHANGED vars PROVE Inv'
<1>1. SameNatives(stack, stack') /\ stack' = stack
  BY DEF vars, SameNatives
<1>. QED BY <1>1, InvFacts, RestoredSame DEF vars, Top

-----------------------------------------------------------------------------
(* The parts of the invariant hold together at every depth of nesting,
   whatever the calls' paths, native code, scripts, requests, timeouts and
   cancels do. *)
THEOREM CallsInvariant == Spec => []Inv
<1>1. Init => Inv
  BY InitEstablishes
<1>2. ASSUME Inv, [Next]_vars PROVE Inv'
  BY <1>2, StutterKeeps, TerminateExecutionKeeps, IsolateTerminateExecutionKeeps,
     TimeoutFiresKeeps, JsReturnKeeps, JsThrowKeeps, JsInterruptedKeeps, JsCatchKeeps,
     JsUnwindKeeps, JsCallsNativeKeeps, NativeReturnsKeeps, NativeCallsKeeps,
     CancelTerminateExecutionKeeps, CallEndsKeeps, CallChecksTerminationKeeps,
     CallEntersV8Keeps, CallOperatesKeeps, CallRunsJsKeeps, CallRunsNativeKeeps,
     CallResumesKeeps, TimedScriptEndsKeeps, CallRaisesKeeps, CallThrowsUnlessKeeps,
     CallTakesPendingKeeps
     DEF Next
<1>. QED BY <1>1, <1>2, PTL DEF Spec

(* Every variable keeps its type, and calls, scripts and callbacks nest. *)
THEOREM TypeCorrect == Spec => []TypeOK
<1>1. Inv => TypeOK
  BY DEF Inv
<1>. QED BY <1>1, CallsInvariant, PTL

(* A script stopped by a request does not get control back, not even in a
   catch block, until the request is cancelled (HandleCallbackException,
   invoke_callback). *)
THEOREM StoppedScriptsUnwind == Spec => []StoppedJsUnwinds
<1>1. Inv => StoppedJsUnwinds
  BY DEF Inv
<1>. QED BY <1>1, CallsInvariant, PTL

(* The null that stands for a requested termination is not thrown into a
   script (HandleCallbackException). *)
THEOREM NullNeverThrown == Spec => []TerminationStaysUncatchable
<1>1. Inv => TerminationStaysUncatchable
  BY DEF Inv
<1>. QED BY <1>1, CallsInvariant, PTL

(* A cancel leaves nothing of the termination in the engine, in N-API or in
   what the callers had pending (unofficial_napi_cancel_terminate_execution). *)
THEOREM CancelIsComplete == Spec => []CancelLeavesNothing
<1>1. Inv => CancelLeavesNothing
  BY DEF Inv
<1>. QED BY <1>1, CallsInvariant, PTL

(* A call that reports a pending exception left one, unless V8 unwinds
   (fail_if_terminating, SetLastExceptionFromTryCatch). *)
THEOREM FailuresAreExplained == Spec => []FailureExplained
<1>1. Inv => FailureExplained
  BY DEF Inv
<1>. QED BY <1>1, CallsInvariant, PTL

(* On QuickJS native code sees the exceptions of its own calls, and a caller
   gets back the one it had (quickjs_outer_exception_scope__). *)
THEOREM CallersKeepTheirs == Spec => []OuterExceptionApart
<1>1. Inv => OuterExceptionApart
  BY DEF Inv
<1>. QED BY <1>1, CallsInvariant, PTL

-----------------------------------------------------------------------------
\* The module loader: the parts of its inductive invariant.

\* The parts of the inductive invariant.

Visits == [mod : Modules, next : Nat]
LoaderFrames ==
  [at : {"link", "eval", "script"}, of : Modules, mods : SUBSET Modules, path : Seq(Visits)]
Statuses == {"unlinked", "linking", "linked", "evaluating", "evaluated", "errored"}
Instantiated == {"linked", "evaluating", "evaluated", "errored"}

LoaderTypes ==
  /\ NoModule \notin Modules
  /\ engine \in {"v8", "quickjs"}
  /\ life \in [Modules -> {"none", "live", "dying", "gone"}]
  /\ synthetic \subseteq Modules
  /\ MaxRequests \in Nat /\ requests \in [Modules -> 0..MaxRequests]
  /\ links \in [Modules -> Seq(Modules \cup {NoModule})]
  /\ edges \in [Modules -> Seq(Modules)]
  /\ status \in [Modules -> Statuses]
  /\ instantiations \in Nat /\ steps_running \in Nat
  /\ active_calls \in [Modules -> Nat]
  /\ frames \in Seq(LoaderFrames)
  /\ aborted \in BOOLEAN /\ severed \in BOOLEAN

\* Where frames of each kind stand: a script on the evaluation that runs it,
\* any other call on native code.
FramesNest ==
  \A i \in 1..Len(frames) :
    /\ frames[i].at = "script" =>
         /\ i > 1 /\ frames[i - 1].at = "eval"
         /\ Last(frames[i - 1].path).mod = frames[i].of
    /\ frames[i].at # "script" /\ i > 1 => frames[i - 1].at # "eval"
    /\ frames[i].at = "eval" => frames[i].path # <<>>

\* The modules an evaluation has in hand: on its path, or done and waiting.
OnPath(f) == {f.path[j].mod : j \in 1..Len(f.path)}
InHand(f) == f.mods \cup OnPath(f)

\* Modules are linking exactly while the link frame is there, and evaluating
\* exactly while an evaluation has them in hand; no two have the same one.
StatusOwned ==
  /\ \A i \in 1..Len(frames) :
       /\ frames[i].at = "link" => \A m \in frames[i].mods : status[m] = "linking"
       /\ frames[i].at = "eval" => \A m \in InHand(frames[i]) : status[m] = "evaluating"
  /\ \A m \in Modules :
       /\ status[m] = "linking" =>
            \E i \in 1..Len(frames) : frames[i].at = "link" /\ m \in frames[i].mods
       /\ status[m] = "evaluating" =>
            \E i \in 1..Len(frames) : frames[i].at = "eval" /\ m \in InHand(frames[i])

\* No module is twice in an evaluation's hands.
OnceIn(f) ==
  /\ OnPath(f) \cap f.mods = {}
  /\ \A j, k \in 1..Len(f.path) : f.path[j].mod = f.path[k].mod => j = k
Apart ==
  /\ \A i, j \in 1..Len(frames) : frames[i].at = "eval" /\ frames[j].at = "eval" /\ i # j
       => InHand(frames[i]) \cap InHand(frames[j]) = {}
  /\ \A i \in 1..Len(frames) : frames[i].at = "eval" => OnceIn(frames[i])

\* What the evaluations up to frame i have in hand.
HeldUpTo(i) ==
  {m \in Modules : \E k \in 1..i : frames[k].at = "eval" /\ m \in InHand(frames[k])}

\* A module of a path leads to those after it.
PathReaches(i) ==
  \A j, k \in 1..Len(frames[i].path) : j <= k =>
    frames[i].path[k].mod \in Reached(frames[i].path[j].mod, edges, HeldUpTo(i))

\* A module that waits is in a cycle with one still on the path.
WaitersCycle(i) ==
  \A w \in frames[i].mods : \E p \in OnPath(frames[i]) :
    /\ p \in Reached(w, edges, HeldUpTo(i))
    /\ w \in Reached(p, edges, HeldUpTo(i))

EvaluationsConnected ==
  \A i \in 1..Len(frames) : frames[i].at = "eval" => PathReaches(i) /\ WaitersCycle(i)

StackInv == FramesNest /\ StatusOwned /\ Apart /\ EvaluationsConnected

\* What the counters count.
Linking == {i \in 1..Len(frames) : frames[i].at = "link"}
Stepping == {i \in 1..Len(frames) : frames[i].at = "script" /\ frames[i].of \in synthetic}
Uses(f, m) == engine = "quickjs" /\ f.of = m /\ (f.at # "script" \/ m \in synthetic)
Using(m) == {i \in 1..Len(frames) : Uses(frames[i], m)}
Counted ==
  /\ instantiations = Cardinality(Linking) /\ instantiations <= 1
  /\ steps_running = Cardinality(Stepping)
  /\ \A m \in Modules : active_calls[m] = Cardinality(Using(m))

\* A record in use is there, and one to be freed is in use.
RecordsKept ==
  \A m \in Modules : /\ active_calls[m] # 0 => m \in Known
                     /\ life[m] = "dying" => active_calls[m] # 0

\* A record no call has made has no part in anything.
FramesMade ==
  \A i \in 1..Len(frames) :
    life[frames[i].of] # "none" /\ \A p \in OnPath(frames[i]) : life[p] # "none"
LinksMade ==
  /\ \A m \in Modules : life[m] = "none" => links[m] = <<>> /\ edges[m] = <<>>
  /\ \A m, d \in Modules : d \in Range(edges[m]) => life[d] # "none"
  /\ \A m, d \in Modules : d \in Range(links[m]) => d \in Known

\* Only a module with requests is linked, and a synthetic one has none.
RequestsLinked ==
  /\ \A m \in Modules : requests[m] = 0 => links[m] = <<>> /\ edges[m] = <<>>
  /\ \A m \in synthetic : requests[m] = 0 /\ life[m] # "none"

LoaderInv ==
  /\ LoaderTypes /\ StackInv
  /\ Counted /\ RecordsKept /\ FramesMade /\ LinksMade /\ RequestsLinked

\* An instantiated module's imports are instantiated.
ImportsInstantiated ==
  \A m, d \in Modules : 
    d \in Range(edges[m]) /\ status[m] \in Instantiated => status[d] \in Instantiated

\* As long as nothing was severed, the records the guards walk show what the
\* engine has, and lead to records that are there.
Gone(m) == life[m] = "gone"
RecordsShowEdges ==
  ~severed =>
    \A m \in Modules : ~Gone(m) =>
      /\ (engine = "quickjs" \/ status[m] \in Instantiated) => links[m] = edges[m]
      /\ \A d \in Range(edges[m]) : ~Gone(d)

\* What an evaluation that is at p still meets.
Ahead(p) == Reached(p, edges, {p} \cup InStatus({"linked"}))

\* V8: no evaluation meets a synthetic module whose steps run below it.
StepsNotAhead ==
  engine = "v8" /\ ~severed =>
    \A i, k \in 1..Len(frames) :
      k < i /\ frames[k].at = "script" /\ frames[k].of \in synthetic /\ frames[i].at = "eval"
        => \A p \in OnPath(frames[i]) : frames[k].of \notin Ahead(p)


-----------------------------------------------------------------------------
\* Reached is the least closed set.

(* It has the module it starts from and is closed, and is in every set that
   has both. *)
LEMMA ReachedLeast ==
  ASSUME NEW m \in Modules, NEW along, NEW S
  PROVE  /\ m \in Reached(m, along, S)
         /\ Reached(m, along, S) \subseteq Modules
         /\ Closed(Reached(m, along, S), along, S)
         /\ \A T \in SUBSET Modules : m \in T /\ Closed(T, along, S)
              => Reached(m, along, S) \subseteq T
<1>1. m \in Reached(m, along, S) /\ Reached(m, along, S) \subseteq Modules
  BY DEF Reached
<1>2. \A T \in SUBSET Modules : m \in T /\ Closed(T, along, S)
        => Reached(m, along, S) \subseteq T
  BY DEF Reached
<1>3. ASSUME NEW x \in Reached(m, along, S) \cap S, NEW y \in Range(along[x]) \cap Modules
      PROVE  y \in Reached(m, along, S)
  <2>1. SUFFICES ASSUME NEW T \in SUBSET Modules, m \in T, Closed(T, along, S)
                 PROVE  y \in T
    BY <1>3 DEF Reached
  <2>2. x \in T
    BY <1>3, <2>1, <1>2
  <2>. QED BY <1>3, <2>1, <2>2 DEF Closed
<1>. QED BY <1>1, <1>2, <1>3 DEF Closed

(* One step further. *)
LEMMA ReachedStep ==
  ASSUME NEW m \in Modules, NEW along, NEW S,
         NEW x \in Reached(m, along, S), x \in S, NEW y \in Modules, y \in Range(along[x])
  PROVE  y \in Reached(m, along, S)
BY ReachedLeast DEF Closed

(* What a module reached reaches is reached. *)
LEMMA ReachedThrough ==
  ASSUME NEW m \in Modules, NEW along, NEW S, NEW x \in Reached(m, along, S)
  PROVE  Reached(x, along, S) \subseteq Reached(m, along, S)
<1>1. x \in Modules
  BY DEF Reached
<1>. QED BY <1>1, ReachedLeast

(* What a walk meets, another meets that goes on wherever it does. *)
LEMMA ReachedWithin ==
  ASSUME NEW m \in Modules, NEW along, NEW S, NEW along2, NEW S2,
         \A x \in S \cap Reached(m, along2, S2) :
           x \in S2 /\ Range(along[x]) \cap Modules \subseteq Range(along2[x])
  PROVE  Reached(m, along, S) \subseteq Reached(m, along2, S2)
<1>. DEFINE R == Reached(m, along2, S2)
<1>1. m \in R /\ R \subseteq Modules /\ Closed(R, along2, S2)
  BY ReachedLeast
<1>2. Closed(R, along, S)
  BY <1>1 DEF Closed
<1>. HIDE DEF R
<1>3. Reached(m, along, S) \subseteq R
  BY <1>1, <1>2, ReachedLeast
<1>. QED BY <1>3 DEF R

(* Modules the walk does not go on through lead nowhere, nor do those with
   nothing to import. *)
LEMMA ReachedStays ==
  ASSUME NEW m \in Modules, NEW along, NEW S, m \notin S \/ Range(along[m]) = {}
  PROVE  Reached(m, along, S) = {m}
<1>1. Closed({m}, along, S)
  BY DEF Closed
<1>2. {m} \in SUBSET Modules
  OBVIOUS
<1>. QED BY <1>1, <1>2, ReachedLeast

(* Nothing reached is lost when the walk no longer goes on through modules
   that lead only to what is left out. *)
LEMMA ReachedApart ==
  ASSUME NEW w \in Modules, NEW along, NEW H, NEW around \in SUBSET Modules,
         Closed(around, along, H), NEW less, H \ less \subseteq around,
         NEW x \in Reached(w, along, H), x \notin around
  PROVE  x \in Reached(w, along, less)
<1>. DEFINE T == Reached(w, along, less) \cup around
<1>1. w \in Reached(w, along, less) /\ Reached(w, along, less) \subseteq Modules
      /\ Closed(Reached(w, along, less), along, less)
  BY ReachedLeast
<1>2. w \in T /\ T \in SUBSET Modules
  BY <1>1
<1>3. Closed(T, along, H)
  BY <1>1 DEF Closed
<1>. HIDE DEF T
<1>4. Reached(w, along, H) \subseteq T
  BY <1>2, <1>3, ReachedLeast
<1>. QED BY <1>4 DEF T

-----------------------------------------------------------------------------
\* Paths and frames as sequences.

(* A sequence without its last element. *)
LEMMA FrontOf ==
  ASSUME NEW F, NEW s \in Seq(F), s # <<>>
  PROVE  /\ Front(s) \in Seq(F) /\ Len(Front(s)) = Len(s) - 1
         /\ \A n \in 1..Len(s) - 1 : Front(s)[n] = s[n]
         /\ Len(s) \in Nat \ {0} /\ Last(s) = s[Len(s)] /\ Last(s) \in F
<1>. DEFINE k == Len(s) - 1
<1>1. k \in Nat /\ (\A i \in 1..k : s[i] \in F) /\ Len(s) \in Nat \ {0}
  OBVIOUS
<1>5. Last(s) = s[Len(s)] /\ Last(s) \in F
  BY DEF Last
<1>. HIDE DEF k
<1>2. /\ SubSeq(s, 1, k) \in Seq(F)
      /\ Len(SubSeq(s, 1, k)) = IF 1 <= k THEN k - 1 + 1 ELSE 0
      /\ \A i \in 1..k - 1 + 1 : SubSeq(s, 1, k)[i] = s[1 + i - 1]
  BY <1>1, SubSeqProperties
<1>3. (IF 1 <= k THEN k - 1 + 1 ELSE 0) = k /\ k - 1 + 1 = k /\ \A i \in 1..k : 1 + i - 1 = i
  BY <1>1
<1>4. Front(s) = SubSeq(s, 1, k)
  BY DEF Front, k
<1>. QED BY <1>1, <1>2, <1>3, <1>4, <1>5 DEF k

(* A path whose last visit gave way to one, or to two. *)
Onward(p, s, a) == p = Front(s) \o <<a>>
Onto(p, s, a, b) == p = Front(s) \o <<a, b>>

(* The path with its last visit replaced by one or two. *)
LEMMA PathGoesOn ==
  ASSUME NEW F, NEW s \in Seq(F), s # <<>>, NEW a \in F, NEW p, Onward(p, s, a)
  PROVE  /\ p \in Seq(F) /\ Len(p) = Len(s) /\ p[Len(s)] = a
         /\ \A n \in 1..Len(s) - 1 : p[n] = s[n]
<1>. DEFINE q == Front(s)
<1>1. q \in Seq(F) /\ Len(q) = Len(s) - 1 /\ (\A n \in 1..Len(s) - 1 : q[n] = s[n])
      /\ Len(s) \in Nat \ {0}
  BY FrontOf
<1>. HIDE DEF q
<1>2. q \o <<a>> \in Seq(F) /\ Len(q \o <<a>>) = Len(q) + 1 /\ (q \o <<a>>)[Len(q) + 1] = a
      /\ \A n \in 1..Len(q) : (q \o <<a>>)[n] = q[n]
  BY <1>1
<1>3. Len(q) + 1 = Len(s) /\ p = q \o <<a>>
  BY <1>1 DEF q, Onward
<1>. QED BY <1>1, <1>2, <1>3

(* The same with two. *)
LEMMA PathGrows ==
  ASSUME NEW F, NEW s \in Seq(F), s # <<>>, NEW a \in F, NEW b \in F,
         NEW p, Onto(p, s, a, b)
  PROVE  /\ p \in Seq(F) /\ Len(p) = Len(s) + 1 /\ p[Len(s)] = a /\ p[Len(s) + 1] = b
         /\ \A n \in 1..Len(s) - 1 : p[n] = s[n]
<1>. DEFINE q == Front(s)
<1>1. q \in Seq(F) /\ Len(q) = Len(s) - 1 /\ (\A n \in 1..Len(s) - 1 : q[n] = s[n])
      /\ Len(s) \in Nat \ {0}
  BY FrontOf
<1>. HIDE DEF q
<1>2. q \o <<a, b>> \in Seq(F) /\ Len(q \o <<a, b>>) = Len(q) + 2
      /\ (q \o <<a, b>>)[Len(q) + 1] = a /\ (q \o <<a, b>>)[Len(q) + 2] = b
      /\ \A n \in 1..Len(q) : (q \o <<a, b>>)[n] = q[n]
  BY <1>1
<1>3. Len(q) + 1 = Len(s) /\ Len(q) + 2 = Len(s) + 1 /\ p = q \o <<a, b>>
  BY <1>1 DEF q, Onto
<1>. QED BY <1>1, <1>2, <1>3

(* A place is the last one or before it. *)
LEMMA UpToLast ==
  ASSUME NEW n \in Nat \ {0}
  PROVE  \A j \in 1..n : j = n \/ j \in 1..n - 1
OBVIOUS

-----------------------------------------------------------------------------
\* What a step does to the stack.

SameUpTo(k) ==
  /\ k \in Nat /\ k <= Len(frames) /\ k <= Len(frames')
  /\ \A i \in 1..k : frames'[i] = frames[i]

\* Frame g is put on the first k, or nothing is.
PutOn(k, g) == SameUpTo(k) /\ Len(frames') = k + 1 /\ frames'[k + 1] = g
CutTo(k) == SameUpTo(k) /\ Len(frames') = k

(* A frame is put on the stack. *)
LEMMA FramePushed ==
  ASSUME frames \in Seq(LoaderFrames), NEW g \in LoaderFrames, frames' = Append(frames, g)
  PROVE  frames' \in Seq(LoaderFrames) /\ PutOn(Len(frames), g)
BY DEF PutOn, SameUpTo

(* The frame on top goes. *)
LEMMA FramePopped ==
  ASSUME frames \in Seq(LoaderFrames), frames # <<>>, frames' = Front(frames)
  PROVE  frames' \in Seq(LoaderFrames) /\ CutTo(Len(frames) - 1)
<1>1. /\ frames' \in Seq(LoaderFrames) /\ Len(frames') = Len(frames) - 1
      /\ \A n \in 1..Len(frames) - 1 : frames'[n] = frames[n]
      /\ Len(frames) \in Nat \ {0}
  BY FrontOf
<1>. QED BY <1>1 DEF CutTo, SameUpTo

(* The frame on top is replaced. *)
LEMMA FrameReplaced ==
  ASSUME frames \in Seq(LoaderFrames), frames # <<>>, NEW g \in LoaderFrames,
         frames' = Append(Front(frames), g)
  PROVE  frames' \in Seq(LoaderFrames) /\ PutOn(Len(frames) - 1, g)
<1>. DEFINE q == Front(frames)
<1>1. /\ q \in Seq(LoaderFrames) /\ Len(q) = Len(frames) - 1
      /\ \A n \in 1..Len(frames) - 1 : q[n] = frames[n]
      /\ Len(frames) \in Nat \ {0}
  BY FrontOf
<1>2. frames' = Append(q, g)
  OBVIOUS
<1>. HIDE DEF q
<1>3. frames' \in Seq(LoaderFrames) /\ Len(frames') = Len(q) + 1 /\ frames'[Len(q) + 1] = g
      /\ \A n \in 1..Len(q) : frames'[n] = q[n]
  BY <1>1, <1>2
<1>. QED BY <1>1, <1>3 DEF PutOn, SameUpTo

(* The two frames on top are replaced by one. *)
LEMMA TwoReplaced ==
  ASSUME frames \in Seq(LoaderFrames), Len(frames) > 1, NEW g \in LoaderFrames,
         frames' = Append(SubSeq(frames, 1, Len(frames) - 2), g)
  PROVE  frames' \in Seq(LoaderFrames) /\ PutOn(Len(frames) - 2, g)
<1>. DEFINE k == Len(frames) - 2
            q == SubSeq(frames, 1, k)
<1>1. k \in Nat /\ (\A i \in 1..k : frames[i] \in LoaderFrames) /\ Len(frames) = k + 2
  OBVIOUS
<1>6. frames' = Append(q, g)
  OBVIOUS
<1>. HIDE DEF k
<1>2. /\ q \in Seq(LoaderFrames)
      /\ Len(q) = IF 1 <= k THEN k - 1 + 1 ELSE 0
      /\ \A i \in 1..k - 1 + 1 : q[i] = frames[1 + i - 1]
  BY <1>1, SubSeqProperties
<1>3. (IF 1 <= k THEN k - 1 + 1 ELSE 0) = k /\ k - 1 + 1 = k /\ \A i \in 1..k : 1 + i - 1 = i
  BY <1>1
<1>4. q \in Seq(LoaderFrames) /\ Len(q) = k /\ \A i \in 1..k : q[i] = frames[i]
  BY <1>2, <1>3
<1>. HIDE DEF q
<1>5. frames' \in Seq(LoaderFrames) /\ Len(frames') = k + 1 /\ frames'[k + 1] = g
      /\ \A n \in 1..k : frames'[n] = q[n]
  BY <1>4, <1>6, <1>1
<1>7. PutOn(k, g)
  BY <1>1, <1>4, <1>5 DEF PutOn, SameUpTo
<1>. QED BY <1>5, <1>7 DEF k

(* Frames stay nested when one is put on that may stand there. *)
LEMMA NestPutOn ==
  ASSUME LoaderTypes, FramesNest, NEW k, NEW g \in LoaderFrames, PutOn(k, g),
         g.at = "script" =>
           k > 0 /\ frames[k].at = "eval" /\ Last(frames[k].path).mod = g.of,
         g.at # "script" /\ k > 0 => frames[k].at # "eval",
         g.at = "eval" => g.path # <<>>
  PROVE  FramesNest'
<1>. SUFFICES ASSUME NEW i \in 1..Len(frames')
     PROVE  /\ frames'[i].at = "script" =>
                 /\ i > 1 /\ frames'[i - 1].at = "eval"
                 /\ Last(frames'[i - 1].path).mod = frames'[i].of
            /\ frames'[i].at # "script" /\ i > 1 => frames'[i - 1].at # "eval"
            /\ frames'[i].at = "eval" => frames'[i].path # <<>>
  BY DEF FramesNest
<1>1. k \in Nat /\ Len(frames') = k + 1 /\ Len(frames) \in Nat /\ k <= Len(frames)
  <2>1. Len(frames) \in Nat
    BY DEF LoaderTypes
  <2>. QED BY <2>1 DEF PutOn, SameUpTo
<1>2. CASE i = k + 1
  <2>1. frames'[i] = g /\ i - 1 = k /\ (k > 0 => frames'[k] = frames[k])
    BY <1>1, <1>2 DEF PutOn, SameUpTo
  <2>. QED BY <2>1, <1>1
<1>3. CASE i # k + 1
  <2>1. i \in 1..k /\ i \in 1..Len(frames) /\ (i > 1 => i - 1 \in 1..k)
    BY <1>1, <1>3
  <2>2. frames'[i] = frames[i] /\ (i > 1 => frames'[i - 1] = frames[i - 1])
    BY <2>1 DEF PutOn, SameUpTo
  <2>. QED BY <2>1, <2>2 DEF FramesNest
<1>. QED BY <1>2, <1>3

(* Frames stay nested when those on top go. *)
LEMMA NestCutTo ==
  ASSUME LoaderTypes, FramesNest, NEW k, CutTo(k)
  PROVE  FramesNest'
<1>. SUFFICES ASSUME NEW i \in 1..Len(frames')
     PROVE  /\ frames'[i].at = "script" =>
                 /\ i > 1 /\ frames'[i - 1].at = "eval"
                 /\ Last(frames'[i - 1].path).mod = frames'[i].of
            /\ frames'[i].at # "script" /\ i > 1 => frames'[i - 1].at # "eval"
            /\ frames'[i].at = "eval" => frames'[i].path # <<>>
  BY DEF FramesNest
<1>1. i \in 1..k /\ i \in 1..Len(frames) /\ (i > 1 => i - 1 \in 1..k)
  BY DEF CutTo, SameUpTo, LoaderTypes
<1>2. frames'[i] = frames[i] /\ (i > 1 => frames'[i - 1] = frames[i - 1])
  BY <1>1 DEF CutTo, SameUpTo
<1>. QED BY <1>1, <1>2 DEF FramesNest

(* What a frame has. *)
LEMMA FrameParts ==
  ASSUME NEW f \in LoaderFrames
  PROVE  /\ f.at \in {"link", "eval", "script"} /\ f.of \in Modules /\ f.mods \subseteq Modules
         /\ f.path \in Seq(Visits) /\ Len(f.path) \in Nat
         /\ \A j \in 1..Len(f.path) : f.path[j] \in Visits /\ f.path[j].mod \in Modules
         /\ OnPath(f) \subseteq Modules /\ InHand(f) \subseteq Modules
<1>1. /\ f.at \in {"link", "eval", "script"} /\ f.of \in Modules /\ f.mods \subseteq Modules
      /\ f.path \in Seq(Visits)
  BY DEF LoaderFrames
<1>. DEFINE p == f.path
<1>2. ASSUME NEW j \in 1..Len(p) PROVE p[j] \in Visits
  <2>1. p \in Seq(Visits)
    BY <1>1
  <2>. HIDE DEF p
  <2>. QED BY <2>1
<1>3. \A v \in Visits : v.mod \in Modules
  BY DEF Visits
<1>4. OnPath(f) \subseteq Modules
  BY <1>2, <1>3 DEF OnPath
<1>. QED BY <1>1, <1>2, <1>3, <1>4 DEF InHand

(* What an evaluation has in hand is evaluating, and is a module. *)
LEMMA Hands ==
  ASSUME LoaderTypes, StatusOwned
  PROVE  /\ \A i \in 1..Len(frames) : /\ frames[i] \in LoaderFrames
                                      /\ OnPath(frames[i]) \subseteq Modules
                                      /\ InHand(frames[i]) \subseteq Modules
         /\ \A i \in 1..Len(frames) : HeldUpTo(i) \subseteq InStatus({"evaluating"})
         /\ \A i, j \in 1..Len(frames) : frames[i].at = "eval" /\ i <= j
              => InHand(frames[i]) \subseteq HeldUpTo(j)
<1>1. \A i \in 1..Len(frames) : frames[i] \in LoaderFrames
  BY DEF LoaderTypes
<1>2. ASSUME NEW f \in LoaderFrames PROVE OnPath(f) \subseteq Modules /\ InHand(f) \subseteq Modules
  BY FrameParts
<1>3. \A i \in 1..Len(frames) : HeldUpTo(i) \subseteq InStatus({"evaluating"})
  <2>. SUFFICES ASSUME NEW i \in 1..Len(frames), NEW m \in HeldUpTo(i)
                PROVE  m \in InStatus({"evaluating"})
    OBVIOUS
  <2>1. PICK k \in 1..i : frames[k].at = "eval" /\ m \in InHand(frames[k])
    BY DEF HeldUpTo
  <2>2. k \in 1..Len(frames) /\ m \in Modules
    BY DEF LoaderTypes, HeldUpTo
  <2>. QED BY <2>1, <2>2 DEF StatusOwned, InStatus
<1>4. ASSUME NEW i \in 1..Len(frames), NEW j \in 1..Len(frames), frames[i].at = "eval", i <= j
      PROVE  InHand(frames[i]) \subseteq HeldUpTo(j)
  <2>1. i \in 1..j
    BY <1>4
  <2>. QED BY <2>1, <1>1, <1>2, <1>4 DEF HeldUpTo
<1>. QED BY <1>1, <1>2, <1>3, <1>4

EdgesKept == \A m \in Modules : status[m] = "evaluating" => edges'[m] = edges[m]

(* A step on the frames above leaves an evaluation's connections alone. *)
LEMMA LowerKept ==
  ASSUME LoaderTypes, StackInv, EdgesKept, NEW k, SameUpTo(k)
  PROVE  \A i \in 1..k : /\ HeldUpTo(i)' = HeldUpTo(i)
                         /\ frames'[i].at = "eval" => PathReaches(i)' /\ WaitersCycle(i)'
<1>. SUFFICES ASSUME NEW i \in 1..k
     PROVE  /\ HeldUpTo(i)' = HeldUpTo(i)
            /\ frames'[i].at = "eval" => PathReaches(i)' /\ WaitersCycle(i)'
  OBVIOUS
<1>1. k \in Nat /\ i \in 1..Len(frames) /\ frames'[i] = frames[i] /\ 1..i \subseteq 1..k
  BY DEF SameUpTo, LoaderTypes
<1>2. \A j \in 1..i : frames'[j] = frames[j]
  BY <1>1 DEF SameUpTo
<1>3. HeldUpTo(i)' = HeldUpTo(i)
  BY <1>2 DEF HeldUpTo
<1>4. HeldUpTo(i) \subseteq InStatus({"evaluating"}) /\ OnPath(frames[i]) \subseteq Modules
      /\ InHand(frames[i]) \subseteq Modules /\ frames[i] \in LoaderFrames
  BY <1>1, Hands DEF StackInv
<1>. DEFINE H == HeldUpTo(i)
<1>5. \A x \in H : edges'[x] = edges[x]
  BY <1>4 DEF EdgesKept, InStatus
<1>. HIDE DEF H
<1>6. ASSUME NEW x \in Modules PROVE Reached(x, edges, H) \subseteq Reached(x, edges', H)
  BY <1>5, ReachedWithin
<1>7. ASSUME frames[i].at = "eval" PROVE PathReaches(i)'
  <2>1. PathReaches(i)
    BY <1>7, <1>1 DEF StackInv, EvaluationsConnected
  <2>2. \A j \in 1..Len(frames[i].path) : frames[i].path[j].mod \in Modules
    BY <1>4 DEF OnPath
  <2>. QED BY <2>1, <2>2, <1>1, <1>3, <1>6 DEF PathReaches, H
<1>8. ASSUME frames[i].at = "eval" PROVE WaitersCycle(i)'
  <2>1. WaitersCycle(i)
    BY <1>8, <1>1 DEF StackInv, EvaluationsConnected
  <2>2. frames[i].mods \subseteq Modules
    BY <1>4 DEF InHand
  <2>. QED BY <2>1, <2>2, <1>1, <1>3, <1>4, <1>6 DEF WaitersCycle, H
<1>. QED BY <1>1, <1>3, <1>7, <1>8

(* What is held up to a frame: what is held below it, and what it has in hand. *)
LEMMA HeldSplit ==
  ASSUME LoaderTypes, NEW k \in Nat, k + 1 \in 1..Len(frames)
  PROVE  HeldUpTo(k + 1) =
           HeldUpTo(k) \cup (IF frames[k + 1].at = "eval" THEN InHand(frames[k + 1]) ELSE {})
<1>1. \A j \in 1..k + 1 : j \in 1..k \/ j = k + 1
  OBVIOUS
<1>2. k + 1 \in 1..k + 1 /\ 1..k \subseteq 1..k + 1
  OBVIOUS
<1>3. InHand(frames[k + 1]) \subseteq Modules
  BY FrameParts DEF LoaderTypes
<1>4. ASSUME NEW m \in Modules
      PROVE  m \in HeldUpTo(k + 1) <=>
               m \in HeldUpTo(k) \/ (frames[k + 1].at = "eval" /\ m \in InHand(frames[k + 1]))
  BY <1>1, <1>2 DEF HeldUpTo
<1>5. HeldUpTo(k + 1) \subseteq Modules /\ HeldUpTo(k) \subseteq Modules
  BY DEF HeldUpTo
<1>. QED BY <1>3, <1>4, <1>5

(* The same once frame g is put on the first k. *)
LEMMA HeldPutOn ==
  ASSUME LoaderTypes, frames' \in Seq(LoaderFrames), NEW k, NEW g, PutOn(k, g), g.at = "eval"
  PROVE  HeldUpTo(k + 1)' = HeldUpTo(k) \cup InHand(g)
<1>1. k \in Nat /\ k + 1 \in 1..Len(frames') /\ frames'[k + 1] = g
      /\ \A j \in 1..k : frames'[j] = frames[j]
  BY DEF PutOn, SameUpTo
<1>2. \A j \in 1..k + 1 : j \in 1..k \/ j = k + 1
  BY <1>1
<1>3. k + 1 \in 1..k + 1 /\ 1..k \subseteq 1..k + 1
  BY <1>1
<1>4. InHand(g) \subseteq Modules
  BY <1>1, FrameParts
<1>5. ASSUME NEW m \in Modules
      PROVE  m \in HeldUpTo(k + 1)' <=> m \in HeldUpTo(k) \/ m \in InHand(g)
  BY <1>1, <1>2, <1>3 DEF HeldUpTo
<1>6. HeldUpTo(k + 1)' \subseteq Modules /\ HeldUpTo(k) \subseteq Modules
  BY DEF HeldUpTo
<1>. QED BY <1>4, <1>5, <1>6

\* Whether a frame has m linking, or an evaluation's frame has it in hand.
LinksIn(f, m) == f.at = "link" /\ m \in f.mods
HandsIn(f, m) == f.at = "eval" /\ m \in InHand(f)

(* The stack invariant after frame g is put on the first k frames. *)
LEMMA StackPutOn ==
  ASSUME LoaderTypes, StackInv, EdgesKept, NEW k, NEW g \in LoaderFrames, PutOn(k, g),
         g.at = "script" =>
           k > 0 /\ frames[k].at = "eval" /\ Last(frames[k].path).mod = g.of,
         g.at # "script" /\ k > 0 => frames[k].at # "eval",
         g.at = "eval" => g.path # <<>>,
         \A i \in 1..k : \A m \in Modules :
           /\ LinksIn(frames[i], m) => status'[m] = "linking"
           /\ HandsIn(frames[i], m) => status'[m] = "evaluating",
         \A m \in Modules :
           /\ LinksIn(g, m) => status'[m] = "linking"
           /\ HandsIn(g, m) => status'[m] = "evaluating"
           /\ status'[m] = "linking" =>
                LinksIn(g, m) \/ \E i \in 1..k : LinksIn(frames[i], m)
           /\ status'[m] = "evaluating" =>
                HandsIn(g, m) \/ \E i \in 1..k : HandsIn(frames[i], m),
         g.at = "eval" =>
           /\ OnceIn(g)
           /\ \A i \in 1..k : frames[i].at = "eval" => InHand(frames[i]) \cap InHand(g) = {}
           /\ PathReaches(k + 1)' /\ WaitersCycle(k + 1)'
  PROVE  StackInv'
<1>1. /\ k \in Nat /\ Len(frames') = k + 1 /\ frames'[k + 1] = g
      /\ \A i \in 1..k : frames'[i] = frames[i]
      /\ Len(frames) \in Nat /\ k <= Len(frames)
  <2>1. Len(frames) \in Nat
    BY DEF LoaderTypes
  <2>. QED BY <2>1 DEF PutOn, SameUpTo
<1>2. \A i \in 1..k + 1 : i = k + 1 \/ i \in 1..k
  BY <1>1
<1>3. \A i \in 1..k : i \in 1..Len(frames) /\ i \in 1..k + 1
  BY <1>1
<1>4. k + 1 \in 1..k + 1 /\ k + 1 \notin 1..k
  BY <1>1
<1>5. FramesNest'
  BY NestPutOn DEF StackInv
<1>6. StatusOwned'
  <2>1. ASSUME NEW i \in 1..Len(frames')
        PROVE  /\ frames'[i].at = "link" => \A m \in frames'[i].mods : status'[m] = "linking"
               /\ frames'[i].at = "eval" => \A m \in InHand(frames'[i]) : status'[m] = "evaluating"
    <3>1. frames'[i] = g \/ (i \in 1..k /\ frames'[i] = frames[i] /\ i \in 1..Len(frames))
      BY <1>1, <1>2, <1>3, <2>1
    <3>2. g.mods \subseteq Modules /\ InHand(g) \subseteq Modules
      BY FrameParts
    <3>3. i \in 1..Len(frames) => frames[i].mods \subseteq Modules /\ InHand(frames[i]) \subseteq Modules
      BY FrameParts DEF LoaderTypes
    <3>. QED BY <3>1, <3>2, <3>3 DEF LinksIn, HandsIn
  <2>2. ASSUME NEW m \in Modules
        PROVE  /\ status'[m] = "linking" =>
                    \E i \in 1..Len(frames') : frames'[i].at = "link" /\ m \in frames'[i].mods
               /\ status'[m] = "evaluating" =>
                    \E i \in 1..Len(frames') : frames'[i].at = "eval" /\ m \in InHand(frames'[i])
    BY <1>1, <1>3, <1>4, <2>2 DEF LinksIn, HandsIn
  <2>. QED BY <2>1, <2>2 DEF StatusOwned
<1>7. Apart'
  <2>1. ASSUME NEW i \in 1..Len(frames'), NEW j \in 1..Len(frames'),
               frames'[i].at = "eval", frames'[j].at = "eval", i # j
        PROVE  InHand(frames'[i]) \cap InHand(frames'[j]) = {}
    <3>1. CASE i \in 1..k /\ j \in 1..k
      BY ZenonT(30), <3>1, <2>1, <1>1, <1>3 DEF StackInv, Apart
    <3>2. CASE i = k + 1 /\ j \in 1..k
      BY <3>2, <2>1, <1>1
    <3>3. CASE i \in 1..k /\ j = k + 1
      BY <3>3, <2>1, <1>1
    <3>. QED BY <3>1, <3>2, <3>3, <2>1, <1>1, <1>2
  <2>2. ASSUME NEW i \in 1..Len(frames'), frames'[i].at = "eval"
        PROVE  OnceIn(frames'[i])
    <3>1. CASE i \in 1..k
      <4>1. frames'[i] = frames[i] /\ i \in 1..Len(frames)
        BY <3>1, <1>1, <1>3
      <4>. QED BY <4>1, <2>2 DEF StackInv, Apart
    <3>. QED BY <3>1, <2>2, <1>1, <1>2
  <2>. QED BY <2>1, <2>2 DEF Apart
<1>8. EvaluationsConnected'
  <2>1. \A i \in 1..k : frames'[i].at = "eval" => PathReaches(i)' /\ WaitersCycle(i)'
    BY LowerKept DEF PutOn
  <2>2. \A i \in 1..Len(frames') : frames'[i].at = "eval" => PathReaches(i)' /\ WaitersCycle(i)'
    BY <2>1, <1>1, <1>2
  <2>. QED BY <2>2 DEF EvaluationsConnected
<1>. QED BY <1>5, <1>6, <1>7, <1>8 DEF StackInv

\* What the first k frames and g on them own is what has the status.
Owned(k, g) ==
  /\ \A i \in 1..k : \A m \in Modules :
       /\ LinksIn(frames[i], m) => status'[m] = "linking"
       /\ HandsIn(frames[i], m) => status'[m] = "evaluating"
  /\ \A m \in Modules :
       /\ LinksIn(g, m) => status'[m] = "linking"
       /\ HandsIn(g, m) => status'[m] = "evaluating"
       /\ status'[m] = "linking" => LinksIn(g, m) \/ \E i \in 1..k : LinksIn(frames[i], m)
       /\ status'[m] = "evaluating" => HandsIn(g, m) \/ \E i \in 1..k : HandsIn(frames[i], m)

(* The same for an evaluation's frame. *)
LEMMA StackEvalOn ==
  ASSUME LoaderTypes, StackInv, EdgesKept, NEW k, NEW g \in LoaderFrames, PutOn(k, g),
         g.at = "eval", g.path # <<>>, k > 0 => frames[k].at # "eval",
         Owned(k, g), OnceIn(g), PathReaches(k + 1)', WaitersCycle(k + 1)',
         \A i \in 1..k : frames[i].at = "eval" => InHand(frames[i]) \cap InHand(g) = {}
  PROVE  StackInv'
<1>1. \A i \in 1..k : \A m \in Modules :
        /\ LinksIn(frames[i], m) => status'[m] = "linking"
        /\ HandsIn(frames[i], m) => status'[m] = "evaluating"
  BY DEF Owned
<1>2. \A m \in Modules :
        /\ LinksIn(g, m) => status'[m] = "linking"
        /\ HandsIn(g, m) => status'[m] = "evaluating"
        /\ status'[m] = "linking" => LinksIn(g, m) \/ \E i \in 1..k : LinksIn(frames[i], m)
        /\ status'[m] = "evaluating" => HandsIn(g, m) \/ \E i \in 1..k : HandsIn(frames[i], m)
  BY DEF Owned
<1>. QED BY <1>1, <1>2, StackPutOn

(* The stack invariant after all but the first k frames are gone. *)
LEMMA StackCutTo ==
  ASSUME LoaderTypes, StackInv, EdgesKept, NEW k, CutTo(k),
         \A i \in 1..k : \A m \in Modules :
           /\ LinksIn(frames[i], m) => status'[m] = "linking"
           /\ HandsIn(frames[i], m) => status'[m] = "evaluating",
         \A m \in Modules :
           /\ status'[m] = "linking" => \E i \in 1..k : LinksIn(frames[i], m)
           /\ status'[m] = "evaluating" => \E i \in 1..k : HandsIn(frames[i], m)
  PROVE  StackInv'
<1>1. /\ k \in Nat /\ Len(frames') = k /\ \A i \in 1..k : frames'[i] = frames[i]
      /\ Len(frames) \in Nat /\ k <= Len(frames)
  BY DEF CutTo, SameUpTo, LoaderTypes
<1>2. \A i \in 1..k : i \in 1..Len(frames)
  BY <1>1
<1>3. FramesNest'
  BY NestCutTo DEF StackInv
<1>4. StatusOwned'
  <2>1. ASSUME NEW i \in 1..k
        PROVE  /\ frames[i].at = "link" => \A m \in frames[i].mods : status'[m] = "linking"
               /\ frames[i].at = "eval" => \A m \in InHand(frames[i]) : status'[m] = "evaluating"
    <3>1. frames[i].mods \subseteq Modules /\ InHand(frames[i]) \subseteq Modules
      BY <2>1, <1>2, FrameParts DEF LoaderTypes
    <3>. QED BY <2>1, <3>1 DEF LinksIn, HandsIn
  <2>. QED BY <2>1, <1>1 DEF StatusOwned, LinksIn, HandsIn
<1>5. Apart'
  BY ZenonT(60), <1>1, <1>2 DEF StackInv, Apart
<1>6. EvaluationsConnected'
  <2>1. \A i \in 1..k : frames'[i].at = "eval" => PathReaches(i)' /\ WaitersCycle(i)'
    BY LowerKept DEF CutTo
  <2>. QED BY <2>1, <1>1 DEF EvaluationsConnected
<1>. QED BY <1>3, <1>4, <1>5, <1>6 DEF StackInv

\* Modules may become linked; what the frames own stays.
OwnedKept ==
  \A m \in Modules :
    \/ status'[m] = status[m]
    \/ {status[m], status'[m]} \cap {"linking", "evaluating"} = {}

(* The stack invariant when the stack stays. *)
LEMMA StackSame ==
  ASSUME LoaderTypes, StackInv, EdgesKept, OwnedKept, frames' = frames
  PROVE  StackInv'
<1>. DEFINE k == Len(frames)
<1>1. k \in Nat
  BY DEF LoaderTypes
<1>2. CutTo(k)
  BY <1>1 DEF CutTo, SameUpTo
<1>3. \A m \in Modules : /\ status'[m] = "linking" <=> status[m] = "linking"
                         /\ status'[m] = "evaluating" <=> status[m] = "evaluating"
  BY DEF OwnedKept
<1>4. \A i \in 1..k : \A m \in Modules :
        /\ LinksIn(frames[i], m) => status'[m] = "linking"
        /\ HandsIn(frames[i], m) => status'[m] = "evaluating"
  BY <1>3 DEF StackInv, StatusOwned, LinksIn, HandsIn
<1>5. \A m \in Modules :
        /\ status'[m] = "linking" => \E i \in 1..k : LinksIn(frames[i], m)
        /\ status'[m] = "evaluating" => \E i \in 1..k : HandsIn(frames[i], m)
  BY <1>3 DEF StackInv, StatusOwned, LinksIn, HandsIn
<1>. HIDE DEF k
<1>. QED BY <1>2, <1>4, <1>5, StackCutTo

-----------------------------------------------------------------------------
\* The steps' parts.

(* The frame on top, and where an evaluation that runs is. *)
LEMMA TopFacts ==
  ASSUME LoaderTypes, StackInv
  PROVE  /\ Len(frames) \in Nat
         /\ frames # <<>> => /\ Len(frames) \in 1..Len(frames) /\ TopFrame = frames[Len(frames)]
                             /\ TopFrame \in LoaderFrames
         /\ MayCall => (Len(frames) > 0 => frames[Len(frames)].at # "eval")
         /\ EvaluationOnTop => /\ frames[Len(frames)].at = "eval" /\ frames # <<>> /\ ~aborted
                       /\ TopFrame.path # <<>> /\ TopFrame.path \in Seq(Visits)
                       /\ Here = TopFrame.path[Len(TopFrame.path)] /\ Here \in Visits
                       /\ Here.mod \in OnPath(TopFrame) /\ Len(TopFrame.path) \in Nat \ {0}
<1>1. Len(frames) \in Nat /\ frames \in Seq(LoaderFrames)
  BY DEF LoaderTypes
<1>2. ASSUME frames # <<>>
      PROVE  Len(frames) \in 1..Len(frames) /\ TopFrame = frames[Len(frames)] /\ TopFrame \in LoaderFrames
  BY <1>1, <1>2, FrontOf DEF TopFrame
<1>3. ASSUME MayCall, Len(frames) > 0 PROVE frames[Len(frames)].at # "eval"
  <2>1. frames # <<>>
    BY <1>1, <1>3
  <2>. QED BY <2>1, <1>2, <1>3 DEF MayCall
<1>4. ASSUME EvaluationOnTop
      PROVE  /\ frames[Len(frames)].at = "eval" /\ frames # <<>> /\ ~aborted
             /\ TopFrame.path # <<>> /\ TopFrame.path \in Seq(Visits)
             /\ Here = TopFrame.path[Len(TopFrame.path)] /\ Here \in Visits
             /\ Here.mod \in OnPath(TopFrame) /\ Len(TopFrame.path) \in Nat \ {0}
  <2>1. frames # <<>> /\ TopFrame.at = "eval" /\ ~aborted
    BY <1>4 DEF EvaluationOnTop
  <2>2. TopFrame = frames[Len(frames)] /\ TopFrame \in LoaderFrames /\ Len(frames) \in 1..Len(frames)
    BY <2>1, <1>2
  <2>3. TopFrame.path # <<>>
    BY <2>1, <2>2 DEF StackInv, FramesNest
  <2>4. TopFrame.path \in Seq(Visits)
    BY <2>2, FrameParts
  <2>5. Last(TopFrame.path) = TopFrame.path[Len(TopFrame.path)] /\ Last(TopFrame.path) \in Visits
        /\ Len(TopFrame.path) \in Nat \ {0}
    BY <2>3, <2>4, FrontOf
  <2>6. Here.mod \in OnPath(TopFrame)
    BY <2>5 DEF OnPath, Here
  <2>. QED BY <2>1, <2>2, <2>3, <2>4, <2>5, <2>6 DEF Here
<1>. QED BY <1>1, <1>2, <1>3, <1>4

(* What a link would link. *)
LEMMA ToLinkFacts ==
  ASSUME NEW m \in Modules
  PROVE  /\ ToLink(m) \subseteq InStatus({"unlinked"}) /\ ToLink(m) \subseteq Modules
         /\ status[m] # "unlinked" => ToLink(m) = {}
         /\ \A x \in ToLink(m) : status[x] = "unlinked"
         /\ status[m] = "unlinked" => m \in ToLink(m)
<1>1. ToLink(m) \subseteq InStatus({"unlinked"}) /\ InStatus({"unlinked"}) \subseteq Modules
  BY DEF ToLink, InStatus
<1>2. ASSUME status[m] # "unlinked" PROVE ToLink(m) = {}
  <2>1. m \notin InStatus({"unlinked"})
    BY <1>2 DEF InStatus
  <2>2. Reached(m, Resolved, InStatus({"unlinked"})) = {m}
    BY <2>1, ReachedStays
  <2>. QED BY <2>1, <2>2 DEF ToLink
<1>3. status[m] = "unlinked" => m \in ToLink(m)
  BY ReachedLeast DEF ToLink, InStatus
<1>. QED BY <1>1, <1>2, <1>3 DEF InStatus

(* Cardinalities of sets of places in the stack. *)
LEMMA Places ==
  ASSUME NEW n \in Nat, NEW A \in SUBSET (1..n)
  PROVE  /\ IsFiniteSet(A) /\ Cardinality(A) \in Nat /\ (Cardinality(A) = 0 <=> A = {})
         /\ Cardinality(A \cup {n + 1}) = Cardinality(A) + 1
         /\ n \in A => Cardinality(A \ {n}) = Cardinality(A) - 1
<1>1. IsFiniteSet(1..n)
  BY FS_Interval
<1>2. IsFiniteSet(A)
  BY <1>1, FS_Subset
<1>3. n + 1 \notin A
  OBVIOUS
<1>4. Cardinality(A) \in Nat /\ (Cardinality(A) = 0 <=> A = {})
  BY <1>2, FS_CardinalityType, FS_EmptySet
<1>5. Cardinality(A \cup {n + 1}) = Cardinality(A) + 1
  BY <1>2, <1>3, FS_AddElement
<1>6. n \in A => Cardinality(A \ {n}) = Cardinality(A) - 1
  BY <1>2, FS_RemoveElement
<1>. QED BY <1>2, <1>4, <1>5, <1>6

(* With no instantiation under way no module is linking. *)
LEMMA NoneLinking ==
  ASSUME LoaderTypes, StackInv, Counted, instantiations = 0
  PROVE  /\ \A m \in Modules : status[m] # "linking"
         /\ \A i \in 1..Len(frames) : frames[i].at # "link"
<1>1. Len(frames) \in Nat /\ Linking \in SUBSET (1..Len(frames)) /\ Cardinality(Linking) = 0
  BY DEF LoaderTypes, Linking, Counted
<1>2. Linking = {}
  BY <1>1, Places
<1>. QED BY <1>2 DEF Linking, StackInv, StatusOwned

(* A link that fails has its frame. *)
LEMMA LinkFailsStack ==
  ASSUME LoaderTypes, StackInv, MayCall, NEW m \in Modules, LinkFails(m)
  PROVE  StackInv' /\ frames' \in Seq(LoaderFrames)
         /\ PutOn(Len(frames), LinkFrame(m, ToLink(m)))
<1>. DEFINE g == LinkFrame(m, ToLink(m))
            n == Len(frames)
<1>1. g \in LoaderFrames
  BY ToLinkFacts DEF LoaderFrames, LinkFrame
<1>2. PutOn(n, g) /\ frames' \in Seq(LoaderFrames)
  BY <1>1, FramePushed DEF LoaderTypes, LinkFails
<1>3. g.at = "link" /\ g.mods = ToLink(m)
  BY DEF LinkFrame
<1>4. n > 0 => frames[n].at # "eval"
  BY TopFacts
<1>5. /\ \A x \in ToLink(m) : status[x] = "unlinked"
      /\ \A x \in Modules : status'[x] = IF x \in ToLink(m) THEN "linking" ELSE status[x]
  BY ToLinkFacts DEF LinkFails
<1>6. EdgesKept
  BY DEF LinkFails, EdgesKept
<1>7. \A i \in 1..n : \A x \in Modules :
        /\ LinksIn(frames[i], x) => status'[x] = "linking"
        /\ HandsIn(frames[i], x) => status'[x] = "evaluating"
  BY <1>5 DEF LinksIn, HandsIn, StackInv, StatusOwned
<1>8. \A x \in Modules :
        /\ LinksIn(g, x) => status'[x] = "linking"
        /\ HandsIn(g, x) => status'[x] = "evaluating"
        /\ status'[x] = "linking" => LinksIn(g, x) \/ \E i \in 1..n : LinksIn(frames[i], x)
        /\ status'[x] = "evaluating" => HandsIn(g, x) \/ \E i \in 1..n : HandsIn(frames[i], x)
  BY <1>3, <1>5 DEF LinksIn, HandsIn, StackInv, StatusOwned
<1>. HIDE DEF g, n
<1>9. StackInv'
  BY <1>1, <1>2, <1>3, <1>4, <1>6, <1>7, <1>8, StackPutOn
<1>. QED BY <1>2, <1>9 DEF g, n

(* The frame of a failed link goes. *)
LEMMA LinkFailedStack ==
  ASSUME LoaderTypes, StackInv, Counted, LinkFailed
  PROVE  StackInv' /\ frames' \in Seq(LoaderFrames) /\ CutTo(Len(frames) - 1)
<1>. DEFINE n == Len(frames)
            k == n - 1
<1>1. frames # <<>> /\ n \in 1..n /\ n \in Nat /\ TopFrame = frames[n] /\ TopFrame.at = "link"
  BY TopFacts DEF LinkFailed
<1>2. CutTo(k) /\ frames' \in Seq(LoaderFrames)
  BY <1>1, FramePopped DEF LoaderTypes, LinkFailed
<1>3. k \in Nat /\ \A i \in 1..n : i = n \/ i \in 1..k
  BY <1>1
<1>4. \A i \in 1..k : i \in 1..n
  BY <1>1
<1>5. \A x \in Modules : status'[x] = IF x \in TopFrame.mods THEN "unlinked" ELSE status[x]
  BY DEF LinkFailed
<1>6. EdgesKept
  BY DEF LinkFailed, EdgesKept
<1>7. \A x \in Modules : x \in TopFrame.mods => status[x] = "linking"
  BY <1>1 DEF StackInv, StatusOwned
<1>8. \A i \in 1..k : frames[i].at # "link"
  <2>1. Linking \in SUBSET (1..n) /\ n \in Linking /\ Cardinality(Linking) <= 1
    BY <1>1 DEF Linking, Counted
  <2>2. Cardinality(Linking) \in Nat /\ Cardinality(Linking \ {n}) = Cardinality(Linking) - 1
        /\ Cardinality(Linking \ {n}) \in Nat
        /\ (Cardinality(Linking \ {n}) = 0 <=> Linking \ {n} = {})
    BY <2>1, <1>1, Places
  <2>3. Linking \ {n} = {}
    BY <2>1, <2>2
  <2>4. \A i \in 1..k : i # n
    BY <1>1
  <2>. QED BY <2>3, <2>4, <1>4 DEF Linking
<1>9. \A i \in 1..k : \A x \in Modules :
        /\ LinksIn(frames[i], x) => status'[x] = "linking"
        /\ HandsIn(frames[i], x) => status'[x] = "evaluating"
  BY <1>4, <1>5, <1>7, <1>8 DEF LinksIn, HandsIn, StackInv, StatusOwned
<1>10. \A x \in Modules :
        /\ status'[x] = "linking" => \E i \in 1..k : LinksIn(frames[i], x)
        /\ status'[x] = "evaluating" => \E i \in 1..k : HandsIn(frames[i], x)
  BY <1>1, <1>3, <1>5 DEF LinksIn, HandsIn, StackInv, StatusOwned
<1>. HIDE DEF k
<1>11. StackInv'
  BY <1>2, <1>6, <1>9, <1>10, StackCutTo
<1>. QED BY <1>2, <1>11 DEF k

(* An evaluation starts. *)
LEMMA EvaluateStack ==
  ASSUME LoaderTypes, StackInv, MayCall, EdgesKept, NEW m \in Modules,
         status[m] \in {"unlinked", "linked"},
         status' = [x \in Modules |-> IF x = m THEN "evaluating"
                                      ELSE IF x \in ToLink(m) THEN "linked" ELSE status[x]],
         frames' = Append(frames, EvalFrame(m, <<Visit(m, 1)>>, {}))
  PROVE  StackInv' /\ frames' \in Seq(LoaderFrames)
         /\ PutOn(Len(frames), EvalFrame(m, <<Visit(m, 1)>>, {}))
<1>. DEFINE g == EvalFrame(m, <<Visit(m, 1)>>, {})
<1>0. PICK n : n = Len(frames)
  OBVIOUS
<1>1. g.at = "eval" /\ g.of = m /\ g.mods = {} /\ g.path = <<Visit(m, 1)>>
      /\ Len(g.path) = 1 /\ g.path[1].mod = m /\ g.path # <<>>
  BY DEF EvalFrame, Visit
<1>2. g \in LoaderFrames
  BY DEF EvalFrame, Visit, LoaderFrames, Visits
<1>3. OnPath(g) = {m} /\ InHand(g) = {m}
  BY <1>1 DEF OnPath, InHand
<1>4. PutOn(n, g) /\ frames' \in Seq(LoaderFrames)
  BY <1>0, <1>2, FramePushed DEF LoaderTypes
<1>5. n > 0 => frames[n].at # "eval"
  BY <1>0, TopFacts
<1>6. /\ \A x \in ToLink(m) : status[x] = "unlinked"
      /\ \A x \in Modules : status'[x] = IF x = m THEN "evaluating"
                                      ELSE IF x \in ToLink(m) THEN "linked" ELSE status[x]
  BY ToLinkFacts
<1>7. \A i \in 1..n : \A x \in Modules :
        /\ LinksIn(frames[i], x) => status'[x] = "linking"
        /\ HandsIn(frames[i], x) => status'[x] = "evaluating"
  BY <1>0, <1>6 DEF LinksIn, HandsIn, StackInv, StatusOwned
<1>8. \A x \in Modules :
        /\ LinksIn(g, x) => status'[x] = "linking"
        /\ HandsIn(g, x) => status'[x] = "evaluating"
        /\ status'[x] = "linking" => LinksIn(g, x) \/ \E i \in 1..n : LinksIn(frames[i], x)
        /\ status'[x] = "evaluating" => HandsIn(g, x) \/ \E i \in 1..n : HandsIn(frames[i], x)
  BY <1>0, <1>1, <1>3, <1>6 DEF LinksIn, HandsIn, StackInv, StatusOwned
<1>9. OnceIn(g)
  BY <1>1, <1>3 DEF OnceIn
<1>10. \A i \in 1..n : frames[i].at = "eval" => InHand(frames[i]) \cap InHand(g) = {}
  BY <1>0, <1>3 DEF StackInv, StatusOwned
<1>11. frames'[n + 1] = g
  BY <1>4 DEF PutOn
<1>12. WaitersCycle(n + 1)'
  BY <1>1, <1>11 DEF WaitersCycle
<1>13. PathReaches(n + 1)'
  <2>1. m \in Reached(m, edges', HeldUpTo(n + 1)')
    BY ReachedLeast
  <2>2. \A j \in 1..Len(g.path) : g.path[j].mod = m
    BY <1>1
  <2>. HIDE DEF g
  <2>. QED BY <2>1, <2>2, <1>11 DEF PathReaches
<1>. HIDE DEF g
<1>14. StackInv'
  BY <1>1, <1>2, <1>4, <1>5, <1>7, <1>8, <1>9, <1>10, <1>12, <1>13, StackPutOn
<1>. QED BY <1>4, <1>14, <1>0 DEF g

(* A body starts to run. *)
LEMMA ScriptStack ==
  ASSUME LoaderTypes, StackInv, EvaluationOnTop, status' = status, edges' = edges,
         frames' = Append(frames, ScriptFrame(Here.mod))
  PROVE  StackInv' /\ frames' \in Seq(LoaderFrames)
         /\ PutOn(Len(frames), ScriptFrame(Here.mod))
<1>. DEFINE g == ScriptFrame(Here.mod)
            n == Len(frames)
<1>1. /\ frames[n].at = "eval" /\ TopFrame = frames[n] /\ n > 0 /\ Here.mod \in OnPath(TopFrame)
      /\ TopFrame \in LoaderFrames
  BY TopFacts
<1>2. Here.mod \in Modules
  BY <1>1, FrameParts
<1>3. g \in LoaderFrames
  BY <1>2 DEF ScriptFrame, LoaderFrames, Visits
<1>4. g.at = "script" /\ g.of = Here.mod
  BY DEF ScriptFrame
<1>5. PutOn(n, g) /\ frames' \in Seq(LoaderFrames)
  BY <1>3, FramePushed DEF LoaderTypes
<1>6. Last(frames[n].path).mod = g.of
  BY <1>1, <1>4 DEF Here
<1>7. \A i \in 1..n : \A x \in Modules :
        /\ LinksIn(frames[i], x) => status'[x] = "linking"
        /\ HandsIn(frames[i], x) => status'[x] = "evaluating"
  BY DEF LinksIn, HandsIn, StackInv, StatusOwned
<1>8. \A x \in Modules :
        /\ LinksIn(g, x) => status'[x] = "linking"
        /\ HandsIn(g, x) => status'[x] = "evaluating"
        /\ status'[x] = "linking" => LinksIn(g, x) \/ \E i \in 1..n : LinksIn(frames[i], x)
        /\ status'[x] = "evaluating" => HandsIn(g, x) \/ \E i \in 1..n : HandsIn(frames[i], x)
  BY <1>4 DEF LinksIn, HandsIn, StackInv, StatusOwned
<1>9. EdgesKept
  BY DEF EdgesKept
<1>. HIDE DEF g, n
<1>10. StackInv'
  BY <1>1, <1>3, <1>4, <1>5, <1>6, <1>7, <1>8, <1>9, StackPutOn
<1>. QED BY <1>5, <1>10 DEF g, n

(* A visit of the path goes on, with the same modules in hand: on top, or
   after the script on top ended. *)
LEMMA VisitStack ==
  ASSUME LoaderTypes, StackInv, frames' \in Seq(LoaderFrames), status' = status, edges' = edges,
         NEW k \in Nat, NEW g \in LoaderFrames, PutOn(k, g), k + 1 <= Len(frames),
         frames[k + 1].at = "eval", g.at = "eval", g.mods = frames[k + 1].mods,
         Len(g.path) = Len(frames[k + 1].path),
         \A j \in 1..Len(g.path) : g.path[j].mod = frames[k + 1].path[j].mod,
         \A i \in 1..Len(frames) : i > k + 1 => frames[i].at = "script"
  PROVE  StackInv'
<1>. DEFINE f == frames[k + 1]
<1>1. k + 1 \in 1..Len(frames) /\ Len(frames) \in Nat /\ (k > 0 => k \in 1..Len(frames))
  BY DEF LoaderTypes
<1>2. OnPath(g) = OnPath(f) /\ InHand(g) = InHand(f)
  BY DEF OnPath, InHand
<1>3. f.path # <<>> /\ (k > 0 => frames[k].at # "eval")
  <2>1. f.path # <<>> /\ (k + 1 > 1 => frames[k + 1 - 1].at # "eval")
    BY <1>1 DEF StackInv, FramesNest
  <2>2. k + 1 - 1 = k /\ (k > 0 => k + 1 > 1)
    OBVIOUS
  <2>. QED BY <2>1, <2>2
<1>4. g.path # <<>>
  <2>1. f \in LoaderFrames
    BY <1>1 DEF LoaderTypes
  <2>2. f.path \in Seq(Visits) /\ g.path \in Seq(Visits)
    BY <2>1, FrameParts
  <2>3. Len(f.path) # 0
    BY <1>3, <2>2, EmptySeq
  <2>. QED BY <2>3
<1>5. \A i \in 1..Len(frames) : i \in 1..k \/ i = k + 1 \/ frames[i].at = "script"
  BY <1>1
<1>6. \A i \in 1..k : i \in 1..Len(frames) /\ i # k + 1
  BY <1>1
<1>7. \A i \in 1..k : \A x \in Modules :
        /\ LinksIn(frames[i], x) => status'[x] = "linking"
        /\ HandsIn(frames[i], x) => status'[x] = "evaluating"
  BY <1>6 DEF LinksIn, HandsIn, StackInv, StatusOwned
<1>8. \A x \in Modules :
        /\ LinksIn(g, x) => status'[x] = "linking"
        /\ HandsIn(g, x) => status'[x] = "evaluating"
        /\ status'[x] = "linking" => LinksIn(g, x) \/ \E i \in 1..k : LinksIn(frames[i], x)
        /\ status'[x] = "evaluating" => HandsIn(g, x) \/ \E i \in 1..k : HandsIn(frames[i], x)
  BY <1>1, <1>2, <1>5 DEF LinksIn, HandsIn, StackInv, StatusOwned
<1>9. OnceIn(g)
  <2>1. OnceIn(f)
    BY <1>1 DEF StackInv, Apart
  <2>. QED BY <2>1, <1>2 DEF OnceIn
<1>10. \A i \in 1..k : frames[i].at = "eval" => InHand(frames[i]) \cap InHand(g) = {}
  BY <1>1, <1>2, <1>6 DEF StackInv, Apart
<1>11. frames'[k + 1] = g /\ \A i \in 1..k : frames'[i] = frames[i]
  BY DEF PutOn, SameUpTo
<1>12. HeldUpTo(k + 1)' = HeldUpTo(k + 1)
  <2>1. HeldUpTo(k + 1) = HeldUpTo(k) \cup InHand(f)
    BY <1>1, HeldSplit
  <2>2. HeldUpTo(k + 1)' = HeldUpTo(k) \cup InHand(g)
    BY HeldPutOn
  <2>. QED BY <2>1, <2>2, <1>2
<1>13. PathReaches(k + 1) /\ WaitersCycle(k + 1)
  BY <1>1 DEF StackInv, EvaluationsConnected
<1>14. WaitersCycle(k + 1)'
  BY <1>2, <1>11, <1>12, <1>13 DEF WaitersCycle
<1>15. PathReaches(k + 1)'
  BY <1>11, <1>12, <1>13 DEF PathReaches
<1>16. EdgesKept
  BY DEF EdgesKept
<1>17. StackInv'
  BY <1>3, <1>4, <1>7, <1>8, <1>9, <1>10, <1>14, <1>15, <1>16, StackPutOn
<1>. QED BY <1>17

(* The engine goes on to an import that is to be evaluated. *)
LEMMA ImportStack ==
  ASSUME LoaderTypes, StackInv, EvaluationOnTop, NEW d \in Modules, d \in Range(edges[Here.mod]),
         status[d] = "linked", status' = [status EXCEPT ![d] = "evaluating"], edges' = edges,
         NEW q \in Seq(Visits), Len(q) = Len(TopFrame.path) + 1, q[Len(TopFrame.path) + 1].mod = d,
         \A j \in 1..Len(TopFrame.path) : q[j].mod = TopFrame.path[j].mod,
         NEW g, g = EvalFrame(TopFrame.of, q, TopFrame.mods), frames' = Append(Front(frames), g)
  PROVE  /\ StackInv' /\ frames' \in Seq(LoaderFrames)
         /\ PutOn(Len(frames) - 1, g) /\ OnPath(g) = OnPath(TopFrame) \cup {d}
<1>1. PICK f, k : f = TopFrame /\ k = Len(frames) - 1
  OBVIOUS
<1>2. /\ k \in Nat /\ Len(frames) = k + 1 /\ frames[k + 1] = f /\ f \in LoaderFrames
      /\ f.at = "eval" /\ frames # <<>> /\ f.path # <<>> /\ f.path \in Seq(Visits)
      /\ Here = f.path[Len(f.path)] /\ Here.mod \in OnPath(f) /\ Len(f.path) \in Nat \ {0}
  BY <1>1, TopFacts
<1>3. PICK L : L = Len(f.path)
  OBVIOUS
<1>6. g.at = "eval" /\ g.of = f.of /\ g.mods = f.mods /\ g.path = q
  BY <1>1 DEF EvalFrame
<1>7. g \in LoaderFrames
  <2>1. f.of \in Modules /\ f.mods \in SUBSET Modules
    BY <1>2, FrameParts
  <2>. QED BY <2>1, <1>1 DEF EvalFrame, LoaderFrames
<1>8. PutOn(k, g) /\ frames' \in Seq(LoaderFrames)
  BY <1>1, <1>2, <1>7, FrameReplaced DEF LoaderTypes
<1>9. /\ \A j \in 1..L : q[j].mod = f.path[j].mod
      /\ Len(q) = L + 1 /\ q[L + 1].mod = d /\ q # <<>> /\ L \in Nat \ {0}
  BY <1>1, <1>2, <1>3
<1>10. OnPath(g) = OnPath(f) \cup {d}
  <2>1. \A j \in 1..L + 1 : j \in 1..L \/ j = L + 1
    BY <1>9
  <2>2. 1..L \subseteq 1..L + 1 /\ L + 1 \in 1..L + 1
    BY <1>9
  <2>3. OnPath(g) = {q[j].mod : j \in 1..L + 1} /\ OnPath(f) = {f.path[j].mod : j \in 1..L}
    BY <1>3, <1>9, <1>6 DEF OnPath
  <2>4. ASSUME NEW x PROVE x \in OnPath(g) <=> x \in OnPath(f) \/ x = d
    <3>1. x \in OnPath(g) <=> \E j \in 1..L + 1 : x = q[j].mod
      BY <2>3
    <3>2. x \in OnPath(f) <=> \E j \in 1..L : x = f.path[j].mod
      BY <2>3
    <3>. QED BY <3>1, <3>2, <2>1, <2>2, <1>9
  <2>. QED BY <2>4
<1>11. InHand(g) = InHand(f) \cup {d} /\ InHand(f) \subseteq Modules
  BY <1>2, <1>6, <1>10, FrameParts DEF InHand
<1>12. k + 1 \in 1..Len(frames) /\ \A i \in 1..k : i \in 1..Len(frames) /\ i # k + 1
  BY <1>2
<1>13. \A i \in 1..Len(frames) : i \in 1..k \/ i = k + 1
  BY <1>2
<1>14. \A i \in 1..Len(frames) : frames[i].at = "eval" => d \notin InHand(frames[i])
  BY DEF StackInv, StatusOwned
<1>15. \A x \in Modules : status'[x] = IF x = d THEN "evaluating" ELSE status[x]
  BY DEF LoaderTypes
<1>16. \A i \in 1..k : \A x \in Modules :
        /\ LinksIn(frames[i], x) => status'[x] = "linking"
        /\ HandsIn(frames[i], x) => status'[x] = "evaluating"
  BY <1>12, <1>15 DEF LinksIn, HandsIn, StackInv, StatusOwned
<1>17. \A x \in Modules :
        /\ LinksIn(g, x) => status'[x] = "linking"
        /\ HandsIn(g, x) => status'[x] = "evaluating"
        /\ status'[x] = "linking" => LinksIn(g, x) \/ \E i \in 1..k : LinksIn(frames[i], x)
        /\ status'[x] = "evaluating" => HandsIn(g, x) \/ \E i \in 1..k : HandsIn(frames[i], x)
  <2>1. \A x \in Modules : /\ HandsIn(g, x) <=> HandsIn(f, x) \/ x = d
                           /\ ~LinksIn(g, x) /\ ~LinksIn(f, x)
    BY <1>2, <1>6, <1>11 DEF HandsIn, LinksIn
  <2>2. \A x \in Modules :
          /\ HandsIn(f, x) => status[x] = "evaluating"
          /\ status[x] = "linking" => \E i \in 1..Len(frames) : LinksIn(frames[i], x)
          /\ status[x] = "evaluating" => \E i \in 1..Len(frames) : HandsIn(frames[i], x)
    BY <1>2, <1>12 DEF LinksIn, HandsIn, StackInv, StatusOwned
  <2>. QED BY <2>1, <2>2, <1>2, <1>13, <1>15
<1>18. OnceIn(g)
  <2>1. OnceIn(f) /\ d \notin InHand(f)
    BY <1>2, <1>12, <1>14 DEF StackInv, Apart
  <2>2. OnPath(g) \cap g.mods = {}
    BY <2>1, <1>6, <1>10 DEF OnceIn, InHand
  <2>3. \A j \in 1..L : q[j].mod # d
    BY <2>1, <1>3, <1>9 DEF InHand, OnPath
  <2>4. ASSUME NEW i \in 1..L + 1, NEW j \in 1..L + 1, q[i].mod = q[j].mod PROVE i = j
    <3>1. (i \in 1..L \/ i = L + 1) /\ (j \in 1..L \/ j = L + 1)
      BY <1>9
    <3>. QED BY <2>1, <2>3, <2>4, <3>1, <1>3, <1>9 DEF OnceIn
  <2>. QED BY <2>2, <2>4, <1>9, <1>6 DEF OnceIn
<1>19. \A i \in 1..k : frames[i].at = "eval" => InHand(frames[i]) \cap InHand(g) = {}
  BY <1>2, <1>11, <1>12, <1>14 DEF StackInv, Apart
<1>20. frames'[k + 1] = g
  BY <1>8 DEF PutOn
<1>21. PICK H, H2 : H = HeldUpTo(k + 1) /\ H2 = HeldUpTo(k + 1)'
  OBVIOUS
<1>22. H2 = H \cup {d} /\ OnPath(f) \subseteq H
  <2>1. HeldUpTo(k + 1) = HeldUpTo(k) \cup InHand(f)
    BY <1>2, <1>12, HeldSplit
  <2>2. HeldUpTo(k + 1)' = HeldUpTo(k) \cup InHand(g)
    BY <1>6, <1>8, HeldPutOn
  <2>. QED BY <2>1, <2>2, <1>11, <1>21 DEF InHand
<1>23. \A x \in Modules : Reached(x, edges, H) \subseteq Reached(x, edges, H2)
  <2>1. ASSUME NEW x \in Modules PROVE Reached(x, edges, H) \subseteq Reached(x, edges, H2)
    BY <1>22, ReachedWithin
  <2>. QED BY <2>1
<1>24. PathReaches(k + 1) /\ WaitersCycle(k + 1)
  BY <1>2, <1>12 DEF StackInv, EvaluationsConnected
<1>25. WaitersCycle(k + 1)'
  <2>1. \A w \in f.mods : \E p \in OnPath(f) : p \in Reached(w, edges, H) /\ w \in Reached(p, edges, H)
    BY <1>2, <1>21, <1>24 DEF WaitersCycle
  <2>2. f.mods \subseteq Modules /\ OnPath(f) \subseteq Modules
    BY <1>2, FrameParts
  <2>3. \A w \in g.mods : \E p \in OnPath(g) : p \in Reached(w, edges, H2) /\ w \in Reached(p, edges, H2)
    BY <2>1, <2>2, <1>6, <1>10, <1>23
  <2>. QED BY <2>3, <1>20, <1>21 DEF WaitersCycle
<1>26. PathReaches(k + 1)'
  <2>1. \A i, j \in 1..L : i <= j => f.path[j].mod \in Reached(f.path[i].mod, edges, H)
    BY <1>2, <1>3, <1>21, <1>24 DEF PathReaches
  <2>2. \A j \in 1..L : f.path[j].mod \in Modules /\ f.path[j].mod \in H
    BY <1>2, <1>3, <1>22, FrameParts DEF OnPath
  <2>3. ASSUME NEW i \in 1..L + 1, NEW j \in 1..L + 1, i <= j
        PROVE  q[j].mod \in Reached(q[i].mod, edges, H2)
    <3>1. CASE j \in 1..L
      <4>1. i \in 1..L
        BY <2>3, <3>1, <1>9
      <4>. QED BY <3>1, <4>1, <2>1, <2>2, <2>3, <1>9, <1>23
    <3>2. CASE i \in 1..L /\ j = L + 1
      <4>1. L \in 1..L /\ i <= L
        BY <3>2, <1>9
      <4>2. f.path[L].mod \in Reached(f.path[i].mod, edges, H2) /\ f.path[i].mod \in Modules
        BY <3>2, <4>1, <2>1, <2>2, <1>23
      <4>3. f.path[L].mod \in H2 /\ f.path[L].mod = Here.mod
        BY <4>1, <2>2, <1>2, <1>3, <1>22
      <4>4. d \in Reached(f.path[i].mod, edges, H2)
        BY <4>2, <4>3, ReachedStep
      <4>. QED BY <3>2, <4>4, <1>9
    <3>3. CASE i = L + 1 /\ j = L + 1
      BY <3>3, <1>9, ReachedLeast
    <3>4. (i \in 1..L \/ i = L + 1) /\ (j \in 1..L \/ j = L + 1)
      BY <1>9
    <3>. QED BY <3>1, <3>2, <3>3, <3>4, <2>3, <1>9
  <2>4. \A i, j \in 1..Len(g.path) : i <= j => g.path[j].mod \in Reached(g.path[i].mod, edges', H2)
    BY <2>3, <1>9, <1>6
  <2>. QED BY <2>4, <1>20, <1>21 DEF PathReaches
<1>27. EdgesKept
  BY DEF EdgesKept
<1>28. k > 0 => frames[k].at # "eval"
  <2>1. k + 1 > 1 => frames[k + 1 - 1].at # "eval"
    BY <1>2, <1>12 DEF StackInv, FramesNest
  <2>2. k + 1 - 1 = k /\ (k > 0 => k + 1 > 1)
    BY <1>2
  <2>. QED BY <2>1, <2>2
<1>29. StackInv'
  BY <1>6, <1>7, <1>8, <1>9, <1>16, <1>17, <1>18, <1>19, <1>25, <1>26, <1>27, <1>28,
     StackPutOn
<1>. QED BY <1>1, <1>8, <1>10, <1>29

(* What is evaluating is what the stack holds. *)
LEMMA HeldAll ==
  ASSUME LoaderTypes, StackInv, frames # <<>>
  PROVE  HeldUpTo(Len(frames)) = InStatus({"evaluating"})
<1>1. Len(frames) \in 1..Len(frames)
  BY TopFacts
<1>2. HeldUpTo(Len(frames)) \subseteq InStatus({"evaluating"})
  BY <1>1, Hands DEF StackInv
<1>3. \A m \in Modules : status[m] = "evaluating" => m \in HeldUpTo(Len(frames))
  BY DEF StackInv, StatusOwned, HeldUpTo
<1>. QED BY <1>2, <1>3 DEF InStatus

(* A path of the next state, of which every module leads to those after it. *)
LEMMA PathReachesThen ==
  ASSUME NEW k, NEW g, NEW H, frames'[k] = g, H = HeldUpTo(k)',
         \A i, j \in 1..Len(g.path) : i <= j => g.path[j].mod \in Reached(g.path[i].mod, edges', H)
  PROVE  PathReaches(k)'
BY DEF PathReaches

(* The modules of a path. *)
LEMMA OnPathIff ==
  ASSUME NEW f \in LoaderFrames
  PROVE  \A x \in Modules : x \in OnPath(f) <=> \E j \in 1..Len(f.path) : x = f.path[j].mod
BY DEF OnPath

(* The path without its last module. *)
LEMMA PathShorter ==
  ASSUME NEW f \in LoaderFrames, f.path # <<>>, OnceIn(f), NEW p, p = Front(f.path)
  PROVE  /\ p \in Seq(Visits) /\ Len(f.path) \in Nat \ {0} /\ Len(p) = Len(f.path) - 1
         /\ \A j \in 1..Len(p) : p[j] = f.path[j] /\ j \in 1..Len(f.path)
         /\ \A x \in Modules : x \in OnPath(f) <=> (\E j \in 1..Len(p) : x = p[j].mod) \/ x = Last(f.path).mod
         /\ \A j \in 1..Len(p) : p[j].mod # Last(f.path).mod
         /\ Last(f.path).mod \notin f.mods /\ Last(f.path).mod \in Modules
         /\ Last(f.path) = f.path[Len(f.path)]
<1>1. PICK s : s = f.path
  OBVIOUS
<1>2. s \in Seq(Visits) /\ s # <<>>
  BY <1>1, FrameParts
<1>3. /\ p \in Seq(Visits) /\ Len(p) = Len(s) - 1 /\ \A j \in 1..Len(s) - 1 : p[j] = s[j]
      /\ Len(s) \in Nat \ {0} /\ Last(s) = s[Len(s)]
  <2>1. p = Front(s)
    BY <1>1
  <2>2. /\ Front(s) \in Seq(Visits) /\ Len(Front(s)) = Len(s) - 1
        /\ \A j \in 1..Len(s) - 1 : Front(s)[j] = s[j]
        /\ Len(s) \in Nat \ {0} /\ Last(s) = s[Len(s)]
    BY <1>2, FrontOf
  <2>. QED BY <2>1, <2>2
<1>4. \A j \in 1..Len(s) - 1 : j \in 1..Len(s) /\ j # Len(s)
  BY <1>3
<1>5. \A j \in 1..Len(s) : j \in 1..Len(s) - 1 \/ j = Len(s)
  BY <1>3
<1>6. Len(s) \in 1..Len(s)
  BY <1>3
<1>7. /\ \A x \in Modules : x \in OnPath(f) <=> \E j \in 1..Len(s) : x = s[j].mod
      /\ \A j, k \in 1..Len(s) : s[j].mod = s[k].mod => j = k
      /\ OnPath(f) \subseteq Modules /\ OnPath(f) \cap f.mods = {}
  BY <1>1, FrameParts, OnPathIff DEF OnceIn
<1>8. Last(s).mod \in OnPath(f)
  BY <1>1, <1>3, <1>6, <1>7, FrameParts
<1>9. \A j \in 1..Len(p) : p[j].mod # Last(s).mod
  BY <1>3, <1>4, <1>6, <1>7
<1>10. \A x \in Modules : x \in OnPath(f) <=> (\E j \in 1..Len(p) : x = p[j].mod) \/ x = Last(s).mod
  <2>1. ASSUME NEW x \in Modules, x \in OnPath(f), x # Last(s).mod
        PROVE  \E j \in 1..Len(p) : x = p[j].mod
    <3>1. PICK j \in 1..Len(s) : x = s[j].mod
      BY <2>1, <1>7
    <3>2. j \in 1..Len(p) /\ p[j] = s[j]
      BY <3>1, <2>1, <1>3, <1>5
    <3>. QED BY <3>1, <3>2
  <2>2. ASSUME NEW x \in Modules, NEW j \in 1..Len(p), x = p[j].mod
        PROVE  x \in OnPath(f)
    <3>1. j \in 1..Len(s) /\ x = s[j].mod
      BY <2>2, <1>3, <1>4
    <3>. QED BY <3>1, <1>7
  <2>. QED BY <2>1, <2>2, <1>8
<1>11. Last(s).mod \notin f.mods /\ Last(s).mod \in Modules
  BY <1>7, <1>8
<1>12. \A j \in 1..Len(p) : p[j] = s[j] /\ j \in 1..Len(s)
  BY <1>3, <1>4
<1>. QED BY <1>1, <1>3, <1>9, <1>10, <1>11, <1>12

\* What becomes evaluated when the engine is done with m on the path after p:
\* nothing when m leads back to the path, else m with the waiters it leads to.
Completes(f, p, m, done) ==
  LET around == Reached(m, edges, InStatus({"evaluating"}))
  IN \/ done = {} /\ \E i \in 1..Len(p) : p[i].mod \in around
     \/ done = {m} \cup (f.mods \cap around) /\ \A i \in 1..Len(p) : p[i].mod \notin around

(* The engine is done with a module that is not the evaluation's first. *)
LEMMA FinishStack ==
  ASSUME LoaderTypes, StackInv, EvaluationOnTop, edges' = edges,
         NEW m, m = Here.mod, NEW p, p = Front(TopFrame.path), p # <<>>,
         NEW done, Completes(TopFrame, p, m, done),
         status' = [x \in Modules |-> IF x \in done THEN "evaluated" ELSE status[x]],
         NEW g, g = EvalFrame(TopFrame.of, p, (TopFrame.mods \cup {m}) \ done),
         frames' = Append(Front(frames), g)
  PROVE  /\ StackInv' /\ frames' \in Seq(LoaderFrames) /\ PutOn(Len(frames) - 1, g)
         /\ OnPath(g) \subseteq OnPath(TopFrame)
<1>1. PICK f, k : f = TopFrame /\ k = Len(frames) - 1
  OBVIOUS
<1>2. /\ k \in Nat /\ Len(frames) = k + 1 /\ frames[k + 1] = f /\ f \in LoaderFrames
      /\ f.at = "eval" /\ frames # <<>> /\ f.path # <<>> /\ Here = Last(f.path)
  BY <1>1, TopFacts DEF Here
<1>3. k + 1 \in 1..Len(frames) /\ \A i \in 1..k : i \in 1..Len(frames) /\ i # k + 1
  BY <1>2
<1>4. OnceIn(f) /\ PathReaches(k + 1) /\ WaitersCycle(k + 1)
  BY <1>2, <1>3 DEF StackInv, Apart, EvaluationsConnected
<1>5. p = Front(f.path) /\ m = Last(f.path).mod
  BY <1>1, <1>2
<1>51. /\ p \in Seq(Visits) /\ Len(f.path) \in Nat \ {0} /\ Len(p) = Len(f.path) - 1
       /\ \A j \in 1..Len(p) : p[j] = f.path[j] /\ j \in 1..Len(f.path)
  BY <1>2, <1>4, <1>5, PathShorter
<1>52. /\ \A x \in Modules : x \in OnPath(f) <=> (\E j \in 1..Len(p) : x = p[j].mod) \/ x = m
       /\ \A j \in 1..Len(p) : p[j].mod # m
  BY SMTT(30), <1>2, <1>4, <1>5, PathShorter
<1>53. m \notin f.mods /\ m \in Modules /\ m = f.path[Len(f.path)].mod
  BY <1>2, <1>4, <1>5, PathShorter
<1>6. g.at = "eval" /\ g.of = f.of /\ g.mods = (f.mods \cup {m}) \ done /\ g.path = p
  BY <1>1 DEF EvalFrame
<1>7. f.of \in Modules /\ f.mods \subseteq Modules /\ OnPath(f) \subseteq Modules
  BY <1>2, FrameParts
<1>8. g \in LoaderFrames
  BY <1>1, <1>51, <1>53, <1>7 DEF EvalFrame, LoaderFrames
<1>9. PutOn(k, g) /\ frames' \in Seq(LoaderFrames)
  BY <1>1, <1>2, <1>8, FrameReplaced DEF LoaderTypes
<1>100. \A x \in Modules : x \in OnPath(g) <=> \E j \in 1..Len(p) : x = p[j].mod
  BY <1>6, <1>8, OnPathIff
<1>10. OnPath(f) = OnPath(g) \cup {m} /\ m \notin OnPath(g)
  <2>2. OnPath(g) \subseteq Modules
    BY <1>8, FrameParts
  <2>3. m \notin OnPath(g)
    BY <1>100, <1>52, <1>53
  <2>4. \A x \in Modules : x \in OnPath(f) <=> x \in OnPath(g) \/ x = m
    BY <1>100, <1>52
  <2>5. OnPath(f) = OnPath(g) \cup {m}
    BY <2>2, <2>4, <1>53, <1>7
  <2>. QED BY <2>3, <2>5
<1>101. PICK around : around = Reached(m, edges, InStatus({"evaluating"}))
  OBVIOUS
<1>11. \/ done = {} /\ \E i \in 1..Len(p) : p[i].mod \in around
       \/ done = {m} \cup (f.mods \cap around) /\ \A x \in OnPath(g) : x \notin around
  <2>1. OnPath(g) \subseteq Modules
    BY <1>8, FrameParts
  <2>2. \/ done = {} /\ \E i \in 1..Len(p) : p[i].mod \in around
        \/ done = {m} \cup (f.mods \cap around) /\ \A i \in 1..Len(p) : p[i].mod \notin around
    BY <1>1, <1>101 DEF Completes
  <2>3. (\A i \in 1..Len(p) : p[i].mod \notin around) => \A x \in OnPath(g) : x \notin around
    <3>1. ASSUME NEW x \in OnPath(g), \A i \in 1..Len(p) : p[i].mod \notin around
          PROVE  x \notin around
      <4>1. PICK j \in 1..Len(p) : x = p[j].mod
        BY <3>1, <2>1, <1>100
      <4>. QED BY <3>1, <4>1
    <3>. QED BY <3>1
  <2>. QED BY <2>2, <2>3
<1>12. done \subseteq f.mods \cup {m} /\ done \subseteq around
  BY <1>53, <1>101, <1>11, ReachedLeast
<1>13. InHand(g) = InHand(f) \ done
  <2>1. OnPath(f) \cap f.mods = {}
    BY <1>4 DEF OnceIn
  <2>2. OnPath(g) \cap done = {}
    BY <2>1, <1>10, <1>12
  <2>. QED BY <2>2, <1>6, <1>10 DEF InHand
<1>14. \A i \in 1..Len(frames) : i \in 1..k \/ i = k + 1
  BY <1>2
<1>15. \A i \in 1..k : frames[i].at = "eval" => InHand(frames[i]) \cap InHand(f) = {}
  BY <1>2, <1>3 DEF StackInv, Apart
<1>16. done \subseteq InHand(f) /\ \A x \in Modules : x \in done => status[x] = "evaluating"
  BY <1>2, <1>3, <1>10, <1>12 DEF InHand, StackInv, StatusOwned
<1>17. \A x \in Modules : status'[x] = IF x \in done THEN "evaluated" ELSE status[x]
  OBVIOUS
<1>18. \A i \in 1..k : \A x \in Modules :
        /\ LinksIn(frames[i], x) => status'[x] = "linking"
        /\ HandsIn(frames[i], x) => status'[x] = "evaluating"
  <2>. SUFFICES ASSUME NEW i \in 1..k, NEW x \in Modules
                PROVE  /\ LinksIn(frames[i], x) => status'[x] = "linking"
                       /\ HandsIn(frames[i], x) => status'[x] = "evaluating"
    OBVIOUS
  <2>1. /\ LinksIn(frames[i], x) => status[x] = "linking"
        /\ HandsIn(frames[i], x) => status[x] = "evaluating"
    BY <1>3 DEF LinksIn, HandsIn, StackInv, StatusOwned
  <2>2. HandsIn(frames[i], x) => x \notin done
    BY <1>15, <1>16 DEF HandsIn
  <2>. QED BY <2>1, <2>2, <1>16, <1>17
<1>19. \A x \in Modules :
        /\ LinksIn(g, x) => status'[x] = "linking"
        /\ HandsIn(g, x) => status'[x] = "evaluating"
        /\ status'[x] = "linking" => LinksIn(g, x) \/ \E i \in 1..k : LinksIn(frames[i], x)
        /\ status'[x] = "evaluating" => HandsIn(g, x) \/ \E i \in 1..k : HandsIn(frames[i], x)
  <2>1. \A x \in Modules : /\ HandsIn(g, x) <=> HandsIn(f, x) /\ x \notin done
                           /\ ~LinksIn(g, x) /\ ~LinksIn(f, x)
    BY <1>2, <1>6, <1>13 DEF HandsIn, LinksIn
  <2>2. \A x \in Modules :
          /\ HandsIn(f, x) => status[x] = "evaluating"
          /\ status[x] = "linking" => \E i \in 1..Len(frames) : LinksIn(frames[i], x)
          /\ status[x] = "evaluating" => \E i \in 1..Len(frames) : HandsIn(frames[i], x)
    BY <1>2, <1>3 DEF LinksIn, HandsIn, StackInv, StatusOwned
  <2>. QED BY <2>1, <2>2, <1>2, <1>14, <1>17
<1>20. OnceIn(g)
  <2>1. OnPath(g) \cap g.mods = {}
    BY <1>4, <1>6, <1>10 DEF OnceIn
  <2>2. \A i, j \in 1..Len(p) : p[i].mod = p[j].mod => i = j
    BY <1>4, <1>51 DEF OnceIn
  <2>3. \A i, j \in 1..Len(g.path) : g.path[i].mod = g.path[j].mod => i = j
    BY <2>2, <1>6
  <2>. QED BY <2>1, <2>3 DEF OnceIn
<1>21. \A i \in 1..k : frames[i].at = "eval" => InHand(frames[i]) \cap InHand(g) = {}
  BY <1>13, <1>15
<1>22. frames'[k + 1] = g
  BY <1>9 DEF PutOn
<1>23. PICK H, H2 : H = InStatus({"evaluating"}) /\ H2 = HeldUpTo(k + 1)'
  OBVIOUS
<1>24. H = HeldUpTo(k + 1) /\ H2 = H \ done
  <2>1. H = HeldUpTo(k + 1)
    BY <1>2, <1>23, HeldAll
  <2>2. HeldUpTo(k + 1) = HeldUpTo(k) \cup InHand(f)
    BY <1>2, <1>3, HeldSplit
  <2>3. HeldUpTo(k + 1)' = HeldUpTo(k) \cup InHand(g)
    BY <1>6, <1>9, HeldPutOn
  <2>4. HeldUpTo(k) \cap done = {}
    BY <1>15, <1>16 DEF HeldUpTo
  <2>. QED BY <2>1, <2>2, <2>3, <2>4, <1>13, <1>23
<1>25. /\ around = Reached(m, edges, H) /\ around \in SUBSET Modules /\ Closed(around, edges, H)
       /\ m \in around /\ \A x \in around : Reached(x, edges, H) \subseteq around
  BY <1>53, <1>101, <1>23, ReachedLeast, ReachedThrough
<1>26. /\ \A w \in f.mods : \E x \in OnPath(f) : x \in Reached(w, edges, H) /\ w \in Reached(x, edges, H)
       /\ \A i, j \in 1..Len(f.path) : i <= j => f.path[j].mod \in Reached(f.path[i].mod, edges, H)
  BY <1>2, <1>4, <1>24 DEF WaitersCycle, PathReaches
<1>27. ASSUME NEW w \in Modules, NEW x \in Reached(w, edges, H), done = {} \/ x \notin around
       PROVE  x \in Reached(w, edges, H2)
  <2>1. CASE done = {}
    BY <2>1, <1>24, <1>27
  <2>2. CASE done # {}
    <3>1. H \ H2 \subseteq around
      BY <1>12, <1>24
    <3>. QED BY <2>2, <3>1, <1>25, <1>27, ReachedApart
  <2>. QED BY <2>1, <2>2
<1>28. PathReaches(k + 1)'
  <2>1. ASSUME NEW i \in 1..Len(p), NEW j \in 1..Len(p), i <= j
        PROVE  p[j].mod \in Reached(p[i].mod, edges, H2)
    <3>1. p[j].mod \in Reached(p[i].mod, edges, H)
      BY <2>1, <1>51, <1>26
    <3>2. p[i].mod \in Modules /\ p[j].mod \in OnPath(g)
      BY <1>5, <1>8, <1>6, FrameParts, OnPathIff
    <3>. QED BY <3>1, <3>2, <1>11, <1>27
  <2>2. \A i, j \in 1..Len(g.path) : i <= j => g.path[j].mod \in Reached(g.path[i].mod, edges', H2)
    BY <2>1, <1>6
  <2>. QED BY <2>2, <1>22, <1>23, PathReachesThen
<1>29. WaitersCycle(k + 1)'
  <2>1. ASSUME NEW w \in g.mods
        PROVE  \E x \in OnPath(g) : x \in Reached(w, edges, H2) /\ w \in Reached(x, edges, H2)
    <3>1. w \in Modules /\ w \in f.mods \cup {m} /\ w \notin done
      BY <1>53, <1>6, <1>7
    <3>2. PICK y \in OnPath(f) : y \in Reached(w, edges, H) /\ w \in Reached(y, edges, H)
      <4>1. CASE w = m
        BY <4>1, <1>53, <1>10, ReachedLeast
      <4>2. CASE w \in f.mods
        BY <4>2, <1>26
      <4>. QED BY <3>1, <4>1, <4>2
    <3>3. y \in Modules
      BY <1>7
    <3>4. CASE done # {}
      <4>1. w \in f.mods /\ w \notin around
        BY <3>1, <3>4, <1>11
      <4>2. y # m
        BY <3>2, <4>1, <1>25
      <4>3. y \in OnPath(g) /\ y \notin around
        BY <4>2, <3>4, <1>10, <1>11
      <4>. QED BY <4>1, <4>3, <3>1, <3>2, <3>3, <1>27
    <3>5. CASE done = {} /\ y # m
      <4>1. y \in OnPath(g)
        BY <3>5, <1>10
      <4>. QED BY <4>1, <3>1, <3>2, <3>3, <3>5, <1>27
    <3>6. CASE done = {} /\ y = m
      <4>1. PICK i \in 1..Len(p) : p[i].mod \in around
        BY <3>6, <1>11
      <4>2. p[i].mod \in OnPath(g) /\ p[i].mod \in Modules
        BY <1>6, <1>8, <1>100, FrameParts
      <4>3. m \in Reached(p[i].mod, edges, H)
        <5>1. i <= Len(f.path) /\ i \in 1..Len(f.path) /\ Len(f.path) \in 1..Len(f.path)
          BY <1>51
        <5>2. f.path[Len(f.path)].mod \in Reached(f.path[i].mod, edges, H)
          BY <5>1, <1>26
        <5>. QED BY <5>2, <4>1, <1>51, <1>53
      <4>4. w \in Reached(p[i].mod, edges, H)
        BY <4>2, <4>3, <3>2, <3>6, ReachedThrough
      <4>5. p[i].mod \in Reached(w, edges, H)
        BY <4>1, <3>1, <3>2, <3>6, <1>25, ReachedThrough
      <4>. QED BY <4>2, <4>4, <4>5, <3>1, <3>6, <1>27
    <3>. QED BY <3>4, <3>5, <3>6
  <2>. QED BY <2>1, <1>22, <1>23 DEF WaitersCycle
<1>30. EdgesKept
  BY DEF EdgesKept
<1>31. k > 0 => frames[k].at # "eval"
  <2>1. k + 1 > 1 => frames[k + 1 - 1].at # "eval"
    BY <1>2, <1>3 DEF StackInv, FramesNest
  <2>2. k + 1 - 1 = k /\ (k > 0 => k + 1 > 1)
    BY <1>2
  <2>. QED BY <2>1, <2>2
<1>32. StackInv'
  <2>1. g.at = "eval" /\ g.path # <<>>
    BY <1>6
  <2>2. Owned(k, g)
    BY <1>18, <1>19 DEF Owned
  <2>. QED BY <2>1, <2>2, <1>8, <1>9, <1>20, <1>21, <1>28, <1>29, <1>30, <1>31, StackEvalOn
<1>. QED BY <1>1, <1>9, <1>10, <1>32

(* An evaluation is over, with all it had in hand. *)
LEMMA PopEvalStack ==
  ASSUME LoaderTypes, StackInv, EvaluationOnTop, edges' = edges, frames' = Front(frames),
         NEW s, s \notin {"linking", "evaluating"},
         \A x \in Modules : status'[x] = IF x \in InHand(TopFrame) THEN s ELSE status[x]
  PROVE  StackInv' /\ frames' \in Seq(LoaderFrames) /\ CutTo(Len(frames) - 1)
<1>1. PICK f, k : f = TopFrame /\ k = Len(frames) - 1
  OBVIOUS
<1>2. /\ k \in Nat /\ Len(frames) = k + 1 /\ frames[k + 1] = f /\ f \in LoaderFrames
      /\ f.at = "eval" /\ frames # <<>>
  BY <1>1, TopFacts
<1>3. CutTo(k) /\ frames' \in Seq(LoaderFrames)
  BY <1>1, <1>2, FramePopped DEF LoaderTypes
<1>4. k + 1 \in 1..Len(frames) /\ \A i \in 1..k : i \in 1..Len(frames) /\ i # k + 1
  BY <1>2
<1>5. \A i \in 1..Len(frames) : i \in 1..k \/ i = k + 1
  BY <1>2
<1>6. \A i \in 1..k : frames[i].at = "eval" => InHand(frames[i]) \cap InHand(f) = {}
  BY <1>2, <1>4 DEF StackInv, Apart
<1>7. \A x \in Modules : /\ x \in InHand(f) => status[x] = "evaluating"
                         /\ status'[x] = IF x \in InHand(f) THEN s ELSE status[x]
  BY <1>1, <1>2, <1>4 DEF StackInv, StatusOwned
<1>8. \A i \in 1..k : \A x \in Modules :
        /\ LinksIn(frames[i], x) => status'[x] = "linking"
        /\ HandsIn(frames[i], x) => status'[x] = "evaluating"
  <2>. SUFFICES ASSUME NEW i \in 1..k, NEW x \in Modules
                PROVE  /\ LinksIn(frames[i], x) => status'[x] = "linking"
                       /\ HandsIn(frames[i], x) => status'[x] = "evaluating"
    OBVIOUS
  <2>1. /\ LinksIn(frames[i], x) => status[x] = "linking"
        /\ HandsIn(frames[i], x) => status[x] = "evaluating"
    BY <1>4 DEF LinksIn, HandsIn, StackInv, StatusOwned
  <2>2. HandsIn(frames[i], x) => x \notin InHand(f)
    BY <1>6 DEF HandsIn
  <2>. QED BY <2>1, <2>2, <1>7
<1>9. \A x \in Modules :
        /\ status'[x] = "linking" => \E i \in 1..k : LinksIn(frames[i], x)
        /\ status'[x] = "evaluating" => \E i \in 1..k : HandsIn(frames[i], x)
  <2>1. \A x \in Modules : (HandsIn(f, x) <=> x \in InHand(f)) /\ ~LinksIn(f, x)
    BY <1>2 DEF HandsIn, LinksIn
  <2>2. \A x \in Modules :
          /\ status[x] = "linking" => \E i \in 1..Len(frames) : LinksIn(frames[i], x)
          /\ status[x] = "evaluating" => \E i \in 1..Len(frames) : HandsIn(frames[i], x)
    BY DEF LinksIn, HandsIn, StackInv, StatusOwned
  <2>. QED BY <2>1, <2>2, <1>2, <1>5, <1>7
<1>10. EdgesKept
  BY DEF EdgesKept
<1>11. StackInv'
  BY <1>3, <1>8, <1>9, <1>10, StackCutTo
<1>. QED BY <1>1, <1>3, <1>11

(* The first module of an evaluation is done, and with it all that waits. *)
LEMMA FirstDone ==
  ASSUME LoaderTypes, StackInv, EvaluationOnTop, Front(TopFrame.path) = <<>>
  PROVE  {Here.mod} \cup (TopFrame.mods \cap Reached(Here.mod, edges, InStatus({"evaluating"})))
           = InHand(TopFrame)
<1>1. PICK f, k, m : f = TopFrame /\ k = Len(frames) - 1 /\ m = Here.mod
  OBVIOUS
<1>2. /\ k \in Nat /\ Len(frames) = k + 1 /\ frames[k + 1] = f /\ f \in LoaderFrames
      /\ f.at = "eval" /\ frames # <<>> /\ f.path # <<>> /\ m = Last(f.path).mod
      /\ k + 1 \in 1..Len(frames)
  BY <1>1, TopFacts DEF Here
<1>3. OnceIn(f) /\ WaitersCycle(k + 1)
  BY <1>2 DEF StackInv, Apart, EvaluationsConnected
<1>4. OnPath(f) = {m}
  <2>1. PICK p : p = Front(f.path)
    OBVIOUS
  <2>2. p = <<>> /\ Len(p) = 0
    BY <2>1, <1>1
  <2>3. /\ \A x \in Modules : x \in OnPath(f) <=> (\E j \in 1..Len(p) : x = p[j].mod) \/ x = m
        /\ m \in Modules
    BY <2>1, <1>2, <1>3, PathShorter
  <2>4. \A x \in Modules : x \in OnPath(f) <=> x = m
    BY <2>2, <2>3
  <2>. QED BY <2>3, <2>4, <1>2, FrameParts
<1>5. HeldUpTo(k + 1) = InStatus({"evaluating"})
  BY <1>2, HeldAll
<1>6. \A w \in f.mods : w \in Reached(m, edges, InStatus({"evaluating"}))
  BY <1>2, <1>3, <1>4, <1>5 DEF WaitersCycle
<1>. QED BY <1>1, <1>4, <1>6 DEF InHand

-----------------------------------------------------------------------------
\* The counters.

(* One place more to count. *)
LEMMA PlacesPushed ==
  ASSUME NEW n \in Nat, NEW A \in SUBSET (1..n), NEW A2 \in SUBSET (1..n + 1),
         \A i \in 1..n : i \in A2 <=> i \in A
  PROVE  Cardinality(A2) = Cardinality(A) + (IF n + 1 \in A2 THEN 1 ELSE 0)
<1>1. Cardinality(A) \in Nat /\ Cardinality(A \cup {n + 1}) = Cardinality(A) + 1
  BY Places
<1>2. \A i \in 1..n + 1 : i \in 1..n \/ i = n + 1
  OBVIOUS
<1>3. CASE n + 1 \in A2
  <2>1. A2 = A \cup {n + 1}
    BY <1>2, <1>3
  <2>. QED BY <2>1, <1>1, <1>3
<1>4. CASE n + 1 \notin A2
  <2>1. A2 = A
    BY <1>2, <1>4
  <2>. QED BY <2>1, <1>1, <1>4
<1>. QED BY <1>3, <1>4

(* One place less to count. *)
LEMMA PlacesPopped ==
  ASSUME NEW n \in Nat \ {0}, NEW A \in SUBSET (1..n), NEW A2 \in SUBSET (1..n - 1),
         \A i \in 1..n - 1 : i \in A2 <=> i \in A
  PROVE  /\ Cardinality(A2) = Cardinality(A) - (IF n \in A THEN 1 ELSE 0)
         /\ Cardinality(A2) \in Nat
<1>1. n - 1 \in Nat /\ n - 1 + 1 = n
  OBVIOUS
<1>2. Cardinality(A) = Cardinality(A2) + (IF n \in A THEN 1 ELSE 0)
  <2>. DEFINE k == n - 1
  <2>1. k \in Nat /\ k + 1 = n /\ A2 \in SUBSET (1..k) /\ A \in SUBSET (1..k + 1)
        /\ \A i \in 1..k : i \in A <=> i \in A2
    BY <1>1
  <2>. HIDE DEF k
  <2>2. Cardinality(A) = Cardinality(A2) + (IF k + 1 \in A THEN 1 ELSE 0)
    BY <2>1, PlacesPushed
  <2>. QED BY <2>1, <2>2
<1>3. Cardinality(A2) \in Nat
  BY <1>1, Places
<1>. QED BY <1>2, <1>3

\* The first k frames keep their kinds and modules.
KindsUpTo(k) == \A i \in 1..k : frames'[i].at = frames[i].at /\ frames'[i].of = frames[i].of

One(b) == IF b THEN 1 ELSE 0
StepsIn(f) == f.at = "script" /\ f.of \in synthetic

(* The counters follow a frame that comes. *)
LEMMA CountedPush ==
  ASSUME LoaderTypes, Counted, engine' = engine, synthetic' = synthetic,
         NEW g, Len(frames') = Len(frames) + 1, KindsUpTo(Len(frames)),
         frames'[Len(frames) + 1] = g,
         instantiations' = instantiations + One(g.at = "link"), instantiations' <= 1,
         steps_running' = steps_running + One(StepsIn(g)),
         \A m \in Modules : active_calls'[m] = active_calls[m] + One(Uses(g, m))
  PROVE  Counted'
<1>1. PICK n : n = Len(frames)
  OBVIOUS
<1>2. /\ n \in Nat /\ Len(frames') = n + 1 /\ frames'[n + 1] = g /\ n + 1 \in 1..n + 1
      /\ \A i \in 1..n : /\ frames'[i].at = frames[i].at /\ frames'[i].of = frames[i].of
                         /\ i \in 1..n + 1
  BY <1>1 DEF LoaderTypes, KindsUpTo
<1>3. instantiations' = Cardinality(Linking')
  <2>1. Linking \in SUBSET (1..n) /\ Linking' \in SUBSET (1..n + 1)
        /\ (\A i \in 1..n : i \in Linking' <=> i \in Linking)
        /\ (n + 1 \in Linking' <=> g.at = "link")
    BY <1>1, <1>2 DEF Linking
  <2>2. Cardinality(Linking') = Cardinality(Linking) + (IF n + 1 \in Linking' THEN 1 ELSE 0)
    BY <2>1, <1>2, PlacesPushed
  <2>. QED BY <2>1, <2>2 DEF Counted, One
<1>4. steps_running' = Cardinality(Stepping')
  <2>1. Stepping \in SUBSET (1..n) /\ Stepping' \in SUBSET (1..n + 1)
        /\ (\A i \in 1..n : i \in Stepping' <=> i \in Stepping)
        /\ (n + 1 \in Stepping' <=> StepsIn(g))
    BY <1>1, <1>2 DEF Stepping, StepsIn
  <2>2. Cardinality(Stepping') = Cardinality(Stepping) + (IF n + 1 \in Stepping' THEN 1 ELSE 0)
    BY <2>1, <1>2, PlacesPushed
  <2>. QED BY <2>1, <2>2 DEF Counted, One
<1>5. ASSUME NEW m \in Modules PROVE active_calls'[m] = Cardinality(Using(m)')
  <2>1. Using(m) \in SUBSET (1..n) /\ Using(m)' \in SUBSET (1..n + 1)
        /\ (\A i \in 1..n : i \in Using(m)' <=> i \in Using(m))
        /\ (n + 1 \in Using(m)' <=> Uses(g, m))
    BY <1>1, <1>2 DEF Using, Uses
  <2>2. Cardinality(Using(m)') = Cardinality(Using(m)) + (IF n + 1 \in Using(m)' THEN 1 ELSE 0)
    BY <2>1, <1>2, PlacesPushed
  <2>. QED BY <2>1, <2>2 DEF Counted, One
<1>. QED BY <1>3, <1>4, <1>5 DEF Counted

(* The counters follow a frame that goes. *)
LEMMA CountedPop ==
  ASSUME LoaderTypes, Counted, engine' = engine, synthetic' = synthetic,
         NEW f, frames # <<>>, Len(frames') = Len(frames) - 1, KindsUpTo(Len(frames) - 1),
         frames[Len(frames)] = f,
         instantiations' = instantiations - One(f.at = "link"),
         steps_running' = steps_running - One(StepsIn(f)),
         \A m \in Modules : active_calls'[m] = active_calls[m] - One(Uses(f, m))
  PROVE  Counted' /\ instantiations' \in Nat /\ steps_running' \in Nat
         /\ \A m \in Modules : active_calls'[m] \in Nat
<1>1. PICK n : n = Len(frames)
  OBVIOUS
<1>2. /\ n \in Nat \ {0} /\ Len(frames') = n - 1 /\ frames[n] = f /\ n \in 1..n
      /\ \A i \in 1..n - 1 : /\ frames'[i].at = frames[i].at /\ frames'[i].of = frames[i].of
                             /\ i \in 1..n
  BY <1>1 DEF LoaderTypes, KindsUpTo
<1>3. instantiations' = Cardinality(Linking') /\ instantiations' \in Nat
  <2>1. Linking \in SUBSET (1..n) /\ Linking' \in SUBSET (1..n - 1)
        /\ (\A i \in 1..n - 1 : i \in Linking' <=> i \in Linking)
        /\ (n \in Linking <=> f.at = "link")
    BY <1>1, <1>2 DEF Linking
  <2>2. Cardinality(Linking') = Cardinality(Linking) - (IF n \in Linking THEN 1 ELSE 0)
        /\ Cardinality(Linking') \in Nat
    BY <2>1, <1>2, PlacesPopped
  <2>. QED BY <2>1, <2>2 DEF Counted, One
<1>4. steps_running' = Cardinality(Stepping') /\ steps_running' \in Nat
  <2>1. Stepping \in SUBSET (1..n) /\ Stepping' \in SUBSET (1..n - 1)
        /\ (\A i \in 1..n - 1 : i \in Stepping' <=> i \in Stepping)
        /\ (n \in Stepping <=> StepsIn(f))
    BY <1>1, <1>2 DEF Stepping, StepsIn
  <2>2. Cardinality(Stepping') = Cardinality(Stepping) - (IF n \in Stepping THEN 1 ELSE 0)
        /\ Cardinality(Stepping') \in Nat
    BY <2>1, <1>2, PlacesPopped
  <2>. QED BY <2>1, <2>2 DEF Counted, One
<1>5. ASSUME NEW m \in Modules PROVE active_calls'[m] = Cardinality(Using(m)') /\ active_calls'[m] \in Nat
  <2>1. Using(m) \in SUBSET (1..n) /\ Using(m)' \in SUBSET (1..n - 1)
        /\ (\A i \in 1..n - 1 : i \in Using(m)' <=> i \in Using(m))
        /\ (n \in Using(m) <=> Uses(f, m))
    BY <1>1, <1>2 DEF Using, Uses
  <2>2. Cardinality(Using(m)') = Cardinality(Using(m)) - (IF n \in Using(m) THEN 1 ELSE 0)
        /\ Cardinality(Using(m)') \in Nat
    BY <2>1, <1>2, PlacesPopped
  <2>. QED BY <2>1, <2>2 DEF Counted, One
<1>6. instantiations' <= 1
  <2>1. instantiations <= 1 /\ instantiations \in Nat
    BY DEF Counted, LoaderTypes
  <2>. QED BY <2>1, <1>3 DEF One
<1>. QED BY <1>3, <1>4, <1>5, <1>6 DEF Counted

(* The counters stay when the kinds of the frames do. *)
LEMMA CountedSame ==
  ASSUME LoaderTypes, Counted, engine' = engine,
         \A i \in 1..Len(frames) : frames[i].of \in synthetic' <=> frames[i].of \in synthetic,
         Len(frames') = Len(frames), KindsUpTo(Len(frames)),
         instantiations' = instantiations, steps_running' = steps_running,
         \A m \in Modules : active_calls'[m] = active_calls[m]
  PROVE  Counted'
<1>1. Linking' = Linking
  BY DEF Linking, KindsUpTo
<1>2. Stepping' = Stepping
  BY DEF Stepping, KindsUpTo
<1>3. ASSUME NEW m \in Modules PROVE Using(m)' = Using(m)
  BY DEF Using, Uses, KindsUpTo
<1>. QED BY <1>1, <1>2, <1>3 DEF Counted

-----------------------------------------------------------------------------
\* The records.

RecordTypes ==
  /\ life \in [Modules -> {"none", "live", "dying", "gone"}]
  /\ links \in [Modules -> Seq(Modules \cup {NoModule})]
  /\ severed \in BOOLEAN

(* No link leads to a record that is freed. *)
LEMMA Freed ==
  ASSUME LoaderTypes, NEW m \in Modules, FreeRecord(m)
  PROVE  /\ RecordTypes'
         /\ \A x \in Modules : life'[x] = IF x = m THEN "gone" ELSE life[x]
         /\ \A x \in Modules : links[x] = <<>> => links'[x] = <<>>
         /\ \A x, d \in Modules : d \in Range(links'[x]) => d \in Range(links[x]) /\ d # m
         /\ \A x \in Modules : x # m /\ m \notin Range(links[x]) => links'[x] = links[x]
         /\ severed => severed'
         /\ ~severed' => \A x \in Modules \ {m} : m \notin Range(edges[x])
<1>1. /\ life \in [Modules -> {"none", "live", "dying", "gone"}]
      /\ links \in [Modules -> Seq(Modules \cup {NoModule})] /\ severed \in BOOLEAN
  BY DEF LoaderTypes
<1>. DEFINE Cut(x) == [i \in DOMAIN links[x] |-> IF links[x][i] = m THEN NoModule ELSE links[x][i]]
<1>2. /\ life' = [life EXCEPT ![m] = "gone"]
      /\ links' = [x \in Modules |-> IF x = m THEN <<>> ELSE Cut(x)]
      /\ severed' = (severed \/ \E x \in Modules \ {m} : m \in Range(edges[x]))
  BY DEF FreeRecord
<1>3. ASSUME NEW x \in Modules
      PROVE  /\ Cut(x) \in Seq(Modules \cup {NoModule})
             /\ links[x] = <<>> => Cut(x) = <<>>
             /\ \A d \in Range(Cut(x)) : d = NoModule \/ (d \in Range(links[x]) /\ d # m)
             /\ m \notin Range(links[x]) => Cut(x) = links[x]
  <2>1. links[x] \in Seq(Modules \cup {NoModule})
    BY <1>1
  <2>2. DOMAIN Cut(x) = 1..Len(links[x]) /\ DOMAIN links[x] = 1..Len(links[x])
    BY <2>1
  <2>3. \A i \in 1..Len(links[x]) : links[x][i] \in Modules \cup {NoModule}
    BY <2>1
  <2>4. Cut(x) \in Seq(Modules \cup {NoModule})
    BY <2>1, <2>2, <2>3
  <2>5. links[x] = <<>> => Cut(x) = <<>>
    BY <2>1, <2>2
  <2>6. m \notin Range(links[x]) => Cut(x) = links[x]
    BY <2>1, <2>2 DEF Range
  <2>7. \A d \in Range(Cut(x)) : d = NoModule \/ (d \in Range(links[x]) /\ d # m)
    BY <2>1, <2>2 DEF Range
  <2>. QED BY <2>4, <2>5, <2>6, <2>7
<1>4. NoModule \notin Modules
  BY DEF LoaderTypes
<1>5. \A x \in Modules : links'[x] = IF x = m THEN <<>> ELSE Cut(x)
  BY <1>2
<1>. HIDE DEF Cut
<1>6. RecordTypes'
  <2>1. life' \in [Modules -> {"none", "live", "dying", "gone"}] /\ severed' \in BOOLEAN
    BY <1>1, <1>2
  <2>2. links' \in [Modules -> Seq(Modules \cup {NoModule})]
    BY <1>2, <1>3
  <2>. QED BY <2>1, <2>2 DEF RecordTypes
<1>7. \A x \in Modules : life'[x] = IF x = m THEN "gone" ELSE life[x]
  BY <1>1, <1>2
<1>8. \A x \in Modules : links[x] = <<>> => links'[x] = <<>>
  BY <1>3, <1>5
<1>9. \A x \in Modules : x # m /\ m \notin Range(links[x]) => links'[x] = links[x]
  BY <1>3, <1>5
<1>10. ASSUME NEW x \in Modules, NEW d \in Modules, d \in Range(links'[x])
       PROVE  d \in Range(links[x]) /\ d # m
  <2>1. CASE x = m
    <3>1. Range(<<>>) = {}
      BY DEF Range
    <3>. QED BY <2>1, <3>1, <1>5, <1>10
  <2>2. CASE x # m
    BY <2>2, <1>3, <1>4, <1>5, <1>10
  <2>. QED BY <2>1, <2>2
<1>. QED BY <1>2, <1>6, <1>7, <1>8, <1>9, <1>10

(* A freed record leaves no link behind. *)
LEMMA RecordsFreed ==
  ASSUME LoaderTypes, LinksMade, RequestsLinked, NEW m \in Modules, life[m] # "none",
         FreeRecord(m), edges' = edges, requests' = requests, synthetic' = synthetic
  PROVE  /\ LinksMade' /\ RequestsLinked'
         /\ \A x \in Modules : life'[x] = "none" <=> life[x] = "none"
<1>1. /\ \A x \in Modules : life'[x] = IF x = m THEN "gone" ELSE life[x]
      /\ \A x \in Modules : links[x] = <<>> => links'[x] = <<>>
      /\ \A x, d \in Modules : d \in Range(links'[x]) => d \in Range(links[x]) /\ d # m
  BY Freed
<1>2. \A x \in Modules : life'[x] = "none" <=> life[x] = "none"
  BY <1>1
<1>3. LinksMade'
  BY <1>1, <1>2 DEF LinksMade, Known
<1>4. RequestsLinked'
  BY <1>1, <1>2 DEF RequestsLinked, LoaderTypes
<1>. QED BY <1>2, <1>3, <1>4

(* A call that ends frees its record when that was destroyed under it. *)
LEMMA RecordCallEnds ==
  ASSUME LoaderTypes, RecordsKept, LinksMade, RequestsLinked, NEW m \in Modules,
         engine = "quickjs" => active_calls[m] # 0, EndCall(m),
         edges' = edges, requests' = requests, synthetic' = synthetic
  PROVE  /\ RecordTypes' /\ active_calls' \in [Modules -> Nat]
         /\ \A x \in Modules : active_calls'[x] = active_calls[x] - One(x = m /\ engine = "quickjs")
         /\ RecordsKept' /\ LinksMade' /\ RequestsLinked'
         /\ \A x \in Modules : life'[x] = "none" <=> life[x] = "none"
<1>1. /\ active_calls \in [Modules -> Nat] /\ active_calls[m] \in Nat
      /\ life \in [Modules -> {"none", "live", "dying", "gone"}] /\ life[m] \in {"none", "live", "dying", "gone"}
  BY DEF LoaderTypes
<1>2. active_calls' = [active_calls EXCEPT ![m] = IF engine = "quickjs" THEN @ - 1 ELSE @]
  BY DEF EndCall
<1>3. /\ \A x \in Modules : active_calls'[x] = active_calls[x] - One(x = m /\ engine = "quickjs")
      /\ active_calls' \in [Modules -> Nat]
  BY <1>1, <1>2 DEF One
<1>4. CASE life[m] = "dying" /\ active_calls'[m] = 0
  <2>1. FreeRecord(m)
    BY <1>4 DEF EndCall
  <2>2. LinksMade' /\ RequestsLinked' /\ \A x \in Modules : life'[x] = "none" <=> life[x] = "none"
    BY <2>1, <1>4, RecordsFreed
  <2>3. RecordTypes' /\ \A x \in Modules : life'[x] = IF x = m THEN "gone" ELSE life[x]
    BY <2>1, Freed
  <2>4. \A x \in Modules : x # m => active_calls'[x] = active_calls[x]
    BY <1>1, <1>3 DEF One
  <2>5. RecordsKept'
    BY <2>3, <2>4, <1>4 DEF RecordsKept, Known
  <2>. QED BY <2>2, <2>3, <2>5, <1>3
<1>5. CASE ~(life[m] = "dying" /\ active_calls'[m] = 0)
  <2>1. life' = life /\ links' = links /\ severed' = severed
    BY <1>5 DEF EndCall, KeepRecords
  <2>2. RecordTypes' /\ LinksMade' /\ RequestsLinked'
    BY <2>1 DEF LoaderTypes, RecordTypes, LinksMade, Known, RequestsLinked
  <2>3. \A x \in Modules : x # m => active_calls'[x] = active_calls[x]
    BY <1>1, <1>3 DEF One
  <2>4. active_calls[m] = 0 => active_calls'[m] = 0
    BY <1>1, <1>3 DEF One
  <2>5. RecordsKept'
    BY <2>1, <2>3, <2>4, <1>5 DEF RecordsKept, Known
  <2>. QED BY <2>1, <2>2, <2>5, <1>3
<1>. QED BY <1>4, <1>5

(* A frame comes whose records were made. *)
LEMMA FramesMadeOn ==
  ASSUME LoaderTypes, FramesMade, NEW k, NEW g \in LoaderFrames, PutOn(k, g),
         \A x \in Modules : life'[x] = "none" => life[x] = "none",
         life[g.of] # "none", \A p \in OnPath(g) : life[p] # "none"
  PROVE  FramesMade'
<1>1. /\ k \in Nat /\ Len(frames') = k + 1 /\ frames'[k + 1] = g
      /\ \A i \in 1..k : frames'[i] = frames[i]
      /\ Len(frames) \in Nat /\ k <= Len(frames)
  <2>1. Len(frames) \in Nat
    BY DEF LoaderTypes
  <2>. QED BY <2>1 DEF PutOn, SameUpTo
<1>2. \A i \in 1..k + 1 : i = k + 1 \/ (i \in 1..k /\ i \in 1..Len(frames))
  BY <1>1
<1>3. g.of \in Modules /\ OnPath(g) \subseteq Modules
  BY FrameParts
<1>4. ASSUME NEW i \in 1..Len(frames)
      PROVE  frames[i].of \in Modules /\ OnPath(frames[i]) \subseteq Modules
  BY <1>4, FrameParts DEF LoaderTypes
<1>5. ASSUME NEW i \in 1..Len(frames')
      PROVE  life'[frames'[i].of] # "none" /\ \A p \in OnPath(frames'[i]) : life'[p] # "none"
  <2>1. frames'[i] = g \/ (i \in 1..Len(frames) /\ frames'[i] = frames[i])
    BY <1>1, <1>2, <1>5
  <2>. QED BY <2>1, <1>3, <1>4 DEF FramesMade
<1>. QED BY <1>5 DEF FramesMade

(* Frames go. *)
LEMMA FramesMadeTo ==
  ASSUME LoaderTypes, FramesMade, NEW k, CutTo(k),
         \A x \in Modules : life'[x] = "none" => life[x] = "none"
  PROVE  FramesMade'
<1>1. /\ Len(frames') = k /\ \A i \in 1..k : frames'[i] = frames[i] /\ i \in 1..Len(frames)
  BY DEF CutTo, SameUpTo, LoaderTypes
<1>2. ASSUME NEW i \in 1..Len(frames)
      PROVE  frames[i].of \in Modules /\ OnPath(frames[i]) \subseteq Modules
  BY <1>2, FrameParts DEF LoaderTypes
<1>3. ASSUME NEW i \in 1..Len(frames')
      PROVE  life'[frames'[i].of] # "none" /\ \A p \in OnPath(frames'[i]) : life'[p] # "none"
  BY <1>1, <1>2, <1>3 DEF FramesMade
<1>. QED BY <1>3 DEF FramesMade

(* The stack stays. *)
LEMMA Stays ==
  ASSUME LoaderTypes, frames' = frames
  PROVE  CutTo(Len(frames)) /\ KindsUpTo(Len(frames))
BY DEF CutTo, SameUpTo, KindsUpTo, LoaderTypes

-----------------------------------------------------------------------------
\* Each step keeps the invariant.

(* A record is made. *)
LEMMA NewRecordKeeps ==
  ASSUME LoaderInv, NEW m \in Modules, NEW n \in 0..MaxRequests, NewRecord(m, n),
         synthetic' = synthetic \/ (n = 0 /\ synthetic' = synthetic \cup {m})
  PROVE  LoaderInv'
<1>. USE DEF NewRecord
<1>1. LoaderTypes /\ StackInv
  BY DEF LoaderInv
<1>2. /\ life[m] = "none" /\ \A x \in Modules : life'[x] = IF x = m THEN "live" ELSE life[x]
      /\ \A x \in Modules : requests'[x] = IF x = m THEN n ELSE requests[x]
  BY <1>1 DEF LoaderTypes
<1>3. LoaderTypes'
  BY <1>1 DEF LoaderTypes
<1>4. StackInv'
  BY <1>1, StackSame DEF EdgesKept, OwnedKept
<1>5. Counted'
  <2>1. \A i \in 1..Len(frames) : frames[i].of # m
    BY <1>2 DEF LoaderInv, FramesMade
  <2>. QED BY <2>1, <1>1, Stays, CountedSame DEF LoaderInv
<1>6. RecordsKept'
  BY <1>2 DEF LoaderInv, RecordsKept, Known
<1>7. FramesMade'
  BY <1>1, <1>2, Stays, FramesMadeTo DEF LoaderInv
<1>8. LinksMade'
  BY <1>2 DEF LoaderInv, LinksMade, Known
<1>9. RequestsLinked'
  BY <1>2 DEF LoaderInv, LinksMade, RequestsLinked
<1>. QED BY <1>3, <1>4, <1>5, <1>6, <1>7, <1>8, <1>9 DEF LoaderInv

(* A record is destroyed, or marked for it. *)
LEMMA DestroyKeeps ==
  ASSUME LoaderInv, NEW m \in Modules, Destroy(m)
  PROVE  LoaderInv'
<1>1. LoaderTypes /\ StackInv
  BY DEF LoaderInv
<1>2. /\ life[m] = "live" /\ frames' = frames /\ UNCHANGED <<engine, synthetic, requests, edges,
         status, instantiations, steps_running, active_calls, aborted>>
  BY DEF Destroy, Live
<1>3. /\ RecordTypes' /\ RecordsKept' /\ LinksMade' /\ RequestsLinked'
      /\ \A x \in Modules : life'[x] = "none" <=> life[x] = "none"
  <2>1. CASE active_calls[m] # 0
    <3>1. links' = links /\ severed' = severed /\ life' = [life EXCEPT ![m] = "dying"]
      BY <2>1 DEF Destroy
    <3>2. \A x \in Modules : life'[x] = IF x = m THEN "dying" ELSE life[x]
      BY <3>1, <1>1 DEF LoaderTypes
    <3>3. RecordTypes'
      BY <3>1, <1>1 DEF LoaderTypes, RecordTypes
    <3>4. RecordsKept'
      BY <3>2, <2>1, <1>2 DEF LoaderInv, RecordsKept, Known
    <3>5. LinksMade' /\ RequestsLinked'
      BY <3>1, <3>2, <1>2 DEF LoaderInv, LinksMade, RequestsLinked, Known
    <3>. QED BY <3>2, <3>3, <3>4, <3>5, <1>2
  <2>2. CASE active_calls[m] = 0
    <3>1. FreeRecord(m)
      BY <2>2 DEF Destroy
    <3>2. RecordTypes' /\ \A x \in Modules : life'[x] = IF x = m THEN "gone" ELSE life[x]
      BY <3>1, <1>1, Freed
    <3>3. LinksMade' /\ RequestsLinked' /\ \A x \in Modules : life'[x] = "none" <=> life[x] = "none"
      BY <3>1, <1>1, <1>2, RecordsFreed DEF LoaderInv
    <3>4. RecordsKept'
      BY <3>2, <2>2, <1>2 DEF LoaderInv, RecordsKept, Known
    <3>. QED BY <3>2, <3>3, <3>4
  <2>. QED BY <2>1, <2>2
<1>4. LoaderTypes'
  BY <1>1, <1>2, <1>3 DEF LoaderTypes, RecordTypes
<1>5. StackInv'
  BY <1>1, <1>2, StackSame DEF EdgesKept, OwnedKept
<1>6. Counted'
  BY <1>1, <1>2, Stays, CountedSame DEF LoaderInv
<1>7. FramesMade'
  BY <1>1, <1>2, <1>3, Stays, FramesMadeTo DEF LoaderInv
<1>. QED BY <1>3, <1>4, <1>5, <1>6, <1>7 DEF LoaderInv

(* module_wrap_link. *)
LEMMA LinkKeeps ==
  ASSUME LoaderInv, NEW m \in Modules, NEW to, Link(m, to)
  PROVE  LoaderInv'
<1>. USE DEF Link
<1>1. LoaderTypes /\ StackInv
  BY DEF LoaderInv
<1>2. /\ life[m] = "live" /\ status[m] # "evaluating" /\ requests[m] > 0
      /\ to \in [1..requests[m] -> Live]
  BY DEF NotInstantiated, Live
<1>3. requests[m] \in Nat /\ Live \subseteq Modules
  BY <1>1 DEF LoaderTypes, Live
<1>4. to \in Seq(Modules) /\ to \in Seq(Modules \cup {NoModule}) /\ Range(to) \subseteq Live
  BY <1>2, <1>3 DEF Range
<1>5. /\ \A x \in Modules : links'[x] = IF x = m THEN to ELSE links[x]
      /\ \A x \in Modules : edges'[x] = IF x = m /\ engine = "quickjs" THEN to ELSE edges[x]
      /\ links' \in [Modules -> Seq(Modules \cup {NoModule})] /\ edges' \in [Modules -> Seq(Modules)]
  BY <1>1, <1>4 DEF LoaderTypes
<1>6. LoaderTypes'
  BY <1>1, <1>5 DEF LoaderTypes
<1>7. StackInv'
  <2>1. EdgesKept
    BY <1>2, <1>5 DEF EdgesKept
  <2>. QED BY <2>1, <1>1, StackSame DEF OwnedKept
<1>8. Counted'
  BY <1>1, Stays, CountedSame DEF LoaderInv
<1>9. RecordsKept'
  BY DEF LoaderInv, RecordsKept, Known
<1>10. FramesMade'
  BY <1>1, Stays, FramesMadeTo DEF LoaderInv
<1>11. LinksMade'
  BY <1>2, <1>4, <1>5 DEF LoaderInv, LinksMade, Known, Live
<1>12. RequestsLinked'
  <2>1. requests[m] # 0
    BY <1>2, <1>3
  <2>. QED BY <2>1, <1>5 DEF LoaderInv, RequestsLinked, LoaderTypes
<1>. QED BY <1>6, <1>7, <1>8, <1>9, <1>10, <1>11, <1>12 DEF LoaderInv

(* What a link that succeeds gives the engine. *)
LEMMA LinkedEdges ==
  ASSUME LoaderInv, NEW m \in Modules, ~Unresolved(m), edges' = EdgesLinked(m),
         UNCHANGED <<engine, recordVars>>
  PROVE  /\ edges' \in [Modules -> Seq(Modules)] /\ EdgesKept
         /\ \A x \in Modules : x \notin ToLink(m) => edges'[x] = edges[x]
         /\ \A x \in ToLink(m) : edges'[x] = Resolved[x]
         /\ LinksMade' /\ RequestsLinked'
<1>1. LoaderTypes /\ LinksMade /\ RequestsLinked
  BY DEF LoaderInv
<1>2. /\ ToLink(m) \subseteq Modules /\ \A x \in ToLink(m) : status[x] = "unlinked"
  BY ToLinkFacts
<1>3. CASE engine = "quickjs"
  <2>1. edges' = edges /\ Resolved = edges
    BY <1>3 DEF EdgesLinked, Resolved
  <2>. QED BY <2>1, <1>1 DEF LoaderTypes, EdgesKept, LinksMade, RequestsLinked,
              Known, recordVars
<1>4. CASE engine # "quickjs"
  <2>1. engine = "v8" /\ Resolved = links
    BY <1>1, <1>4 DEF LoaderTypes, Resolved
  <2>2. edges' = [x \in Modules |-> IF x \in ToLink(m) THEN links[x] ELSE edges[x]]
    BY <1>4 DEF EdgesLinked
  <2>3. ASSUME NEW x \in ToLink(m) PROVE links[x] \in Seq(Modules)
    <3>1. x \in Modules /\ links[x] \in Seq(Modules \cup {NoModule}) /\ requests[x] \in Nat
      BY <1>1, <1>2, <2>3 DEF LoaderTypes
    <3>2. CASE requests[x] = 0
      BY <3>1, <3>2, <1>1 DEF RequestsLinked
    <3>3. CASE requests[x] > 0
      <4>1. NoModule \notin Range(links[x])
        BY <2>1, <2>3, <3>3 DEF Unresolved
      <4>2. \A i \in 1..Len(links[x]) : links[x][i] \in Modules
        BY <3>1, <4>1 DEF Range
      <4>. QED BY <3>1, <4>2
    <3>. QED BY <3>1, <3>2, <3>3
  <2>4. edges' \in [Modules -> Seq(Modules)]
    BY <2>2, <2>3, <1>1 DEF LoaderTypes
  <2>5. /\ \A x \in Modules : x \notin ToLink(m) => edges'[x] = edges[x]
        /\ \A x \in ToLink(m) : edges'[x] = links[x]
    BY <2>2, <1>2
  <2>6. EdgesKept
    BY <2>5, <1>2 DEF EdgesKept
  <2>7. LinksMade'
    <3>1. life' = life /\ links' = links
      BY DEF recordVars
    <3>2. \A x \in Modules : edges'[x] = edges[x] \/ edges'[x] = links[x]
      BY <2>5
    <3>3. \A d \in Known : life[d] # "none"
      BY DEF Known
    <3>. QED BY <3>1, <3>2, <3>3, <1>1 DEF LinksMade, Known
  <2>8. RequestsLinked'
    <3>1. life' = life /\ links' = links /\ requests' = requests /\ synthetic' = synthetic
      BY DEF recordVars
    <3>2. \A x \in Modules : edges'[x] = edges[x] \/ edges'[x] = links[x]
      BY <2>5
    <3>. QED BY <3>1, <3>2, <1>1 DEF RequestsLinked
  <2>. QED BY <2>1, <2>4, <2>5, <2>6, <2>7, <2>8
<1>. QED BY <1>3, <1>4

(* A call started on a record that is there. *)
LEMMA CallStarts ==
  ASSUME LoaderTypes, RecordsKept, NEW m \in Known, StartCall(m), life' = life
  PROVE  /\ active_calls' \in [Modules -> Nat] /\ RecordsKept'
         /\ \A x \in Modules : active_calls'[x] = active_calls[x] + One(x = m /\ engine = "quickjs")
<1>1. active_calls \in [Modules -> Nat] /\ m \in Modules
  BY DEF LoaderTypes, Known
<1>2. /\ \A x \in Modules : active_calls'[x] = active_calls[x] + One(x = m /\ engine = "quickjs")
      /\ active_calls' \in [Modules -> Nat]
  BY <1>1 DEF StartCall, One
<1>3. \A x \in Modules : /\ x # m => active_calls'[x] = active_calls[x]
                         /\ active_calls'[x] = 0 => active_calls[x] = 0
  BY <1>1, <1>2 DEF One
<1>4. RecordsKept'
  BY <1>3 DEF RecordsKept, Known
<1>. QED BY <1>2, <1>4

(* An instantiation fails. *)
LEMMA LinkFailsKeeps ==
  ASSUME LoaderInv, MayCall, NEW m \in Modules, m \in Live, instantiations = 0, LinkFails(m),
         UNCHANGED <<engine, recordVars, severed>>
  PROVE  LoaderInv'
<1>1. LoaderTypes /\ StackInv /\ Counted
  BY DEF LoaderInv
<1>2. PICK g, n : g = LinkFrame(m, ToLink(m)) /\ n = Len(frames)
  OBVIOUS
<1>3. StackInv' /\ frames' \in Seq(LoaderFrames) /\ PutOn(n, g)
  BY <1>1, <1>2, LinkFailsStack
<1>4. g.at = "link" /\ g.of = m /\ g.path = <<>> /\ g \in LoaderFrames /\ OnPath(g) = {}
  <2>1. g.at = "link" /\ g.of = m /\ g.path = <<>>
    BY <1>2 DEF LinkFrame
  <2>2. g \in LoaderFrames
    BY <1>2, ToLinkFacts DEF LinkFrame, LoaderFrames
  <2>. QED BY <2>1, <2>2 DEF OnPath
<1>5. life' = life /\ links' = links /\ requests' = requests /\ synthetic' = synthetic /\ edges' = edges
      /\ steps_running' = steps_running /\ aborted' = aborted /\ severed' = severed /\ engine' = engine
      /\ instantiations' = 1
  BY <1>1 DEF recordVars, LinkFails, LoaderTypes
<1>6. m \in Known
  BY DEF Live, Known
<1>7. /\ active_calls' \in [Modules -> Nat] /\ RecordsKept'
      /\ \A x \in Modules : active_calls'[x] = active_calls[x] + One(x = m /\ engine = "quickjs")
  BY <1>1, <1>5, <1>6, CallStarts DEF LoaderInv, LinkFails
<1>8. status' \in [Modules -> Statuses]
  BY <1>1 DEF LoaderTypes, LinkFails, Statuses
<1>9. LoaderTypes'
  BY <1>1, <1>3, <1>5, <1>7, <1>8 DEF LoaderTypes
<1>10. Counted'
  <2>1. Len(frames') = Len(frames) + 1 /\ KindsUpTo(Len(frames)) /\ frames'[Len(frames) + 1] = g
    BY <1>2, <1>3 DEF PutOn, SameUpTo, KindsUpTo
  <2>2. One(g.at = "link") = 1 /\ One(StepsIn(g)) = 0
    BY <1>4 DEF One, StepsIn
  <2>3. \A x \in Modules : One(Uses(g, x)) = One(x = m /\ engine = "quickjs")
    BY <1>4 DEF One, Uses
  <2>4. steps_running' = steps_running + One(StepsIn(g))
    BY <2>2, <1>1, <1>5 DEF LoaderTypes
  <2>5. instantiations' = instantiations + One(g.at = "link") /\ instantiations' <= 1
    BY <2>2, <1>5
  <2>6. \A x \in Modules : active_calls'[x] = active_calls[x] + One(Uses(g, x))
    BY <2>3, <1>7
  <2>. QED BY <2>1, <2>4, <2>5, <2>6, <1>1, <1>5, CountedPush
<1>11. FramesMade'
  <2>1. life[g.of] # "none" /\ \A p \in OnPath(g) : life[p] # "none"
    BY <1>4 DEF Live
  <2>. QED BY <2>1, <1>1, <1>3, <1>4, <1>5, FramesMadeOn DEF LoaderInv
<1>12. LinksMade' /\ RequestsLinked'
  BY <1>5 DEF LoaderInv, LinksMade, RequestsLinked, Known
<1>. QED BY <1>3, <1>7, <1>9, <1>10, <1>11, <1>12 DEF LoaderInv

(* The process ends, or nothing happens. *)
LEMMA AbortKeeps ==
  ASSUME LoaderInv, aborted' \in BOOLEAN, UNCHANGED <<edges, status, instantiations, steps_running,
         active_calls, frames, engine, recordVars, severed>>
  PROVE  LoaderInv'
<1>1. LoaderTypes /\ StackInv
  BY DEF LoaderInv
<1>2. life' = life /\ links' = links /\ requests' = requests /\ synthetic' = synthetic
  BY DEF recordVars
<1>3. LoaderTypes'
  BY <1>1, <1>2 DEF LoaderTypes
<1>4. StackInv'
  BY <1>1, StackSame DEF EdgesKept, OwnedKept
<1>5. Counted'
  BY <1>1, <1>2, Stays, CountedSame DEF LoaderInv
<1>6. FramesMade'
  BY <1>1, <1>2, Stays, FramesMadeTo DEF LoaderInv
<1>7. RecordsKept' /\ LinksMade' /\ RequestsLinked'
  BY <1>2 DEF LoaderInv, RecordsKept, LinksMade, RequestsLinked, Known
<1>. QED BY <1>3, <1>4, <1>5, <1>6, <1>7 DEF LoaderInv

(* module_wrap_instantiate. *)
LEMMA InstantiateKeeps ==
  ASSUME LoaderInv, NEW m \in Modules, Instantiate(m)
  PROVE  LoaderInv'
<1>1. LoaderTypes /\ StackInv
  BY DEF LoaderInv
<1>2. MayCall /\ m \in Live /\ UNCHANGED <<engine, recordVars, severed>> /\ instantiations = 0
  <2>1. instantiations \in Nat
    BY <1>1 DEF LoaderTypes
  <2>. QED BY <2>1 DEF Instantiate, LinkRefused
<1>3. CASE Abort
  BY <1>2, <1>3, AbortKeeps DEF Abort
<1>4. CASE LinkFails(m)
  BY <1>2, <1>4, LinkFailsKeeps
<1>5. CASE /\ ~Unresolved(m)
           /\ status' = [x \in Modules |-> IF x \in ToLink(m) THEN "linked" ELSE status[x]]
           /\ edges' = EdgesLinked(m)
           /\ UNCHANGED <<instantiations, steps_running, active_calls, frames, aborted>>
  <2>1. edges' \in [Modules -> Seq(Modules)] /\ EdgesKept /\ LinksMade' /\ RequestsLinked'
    BY <1>2, <1>5, LinkedEdges
  <2>2. life' = life /\ links' = links /\ requests' = requests /\ synthetic' = synthetic
    BY <1>2 DEF recordVars
  <2>3. status' \in [Modules -> Statuses]
    BY <1>1, <1>5 DEF LoaderTypes, Statuses
  <2>4. OwnedKept
    BY <1>5, ToLinkFacts DEF OwnedKept
  <2>5. LoaderTypes'
    BY <1>1, <1>2, <1>5, <2>1, <2>2, <2>3 DEF LoaderTypes
  <2>6. StackInv'
    BY <1>1, <1>5, <2>1, <2>4, StackSame
  <2>7. Counted'
    BY <1>1, <1>2, <1>5, <2>2, Stays, CountedSame DEF LoaderInv
  <2>8. FramesMade'
    BY <1>1, <1>5, <2>2, Stays, FramesMadeTo DEF LoaderInv
  <2>9. RecordsKept'
    BY <1>5, <2>2 DEF LoaderInv, RecordsKept, Known
  <2>. QED BY <2>1, <2>5, <2>6, <2>7, <2>8, <2>9 DEF LoaderInv
<1>. QED BY <1>3, <1>4, <1>5 DEF Instantiate

(* module_wrap_evaluate. *)
LEMMA EvaluateKeeps ==
  ASSUME LoaderInv, NEW m \in Modules, Evaluate(m)
  PROVE  LoaderInv'
<1>1. LoaderTypes /\ StackInv /\ Counted
  BY DEF LoaderInv
<1>2. MayCall /\ m \in Live /\ UNCHANGED <<engine, recordVars, severed>>
      /\ (status[m] = "linked" \/ instantiations = 0)
  <2>1. instantiations \in Nat
    BY <1>1 DEF LoaderTypes
  <2>. QED BY <2>1 DEF Evaluate, LinkRefused
<1>3. CASE Abort
  BY <1>2, <1>3, AbortKeeps DEF Abort
<1>4. CASE status[m] # "linked" /\ LinkFails(m)
  BY <1>2, <1>4, LinkFailsKeeps
<1>5. CASE /\ ~Unresolved(m)
           /\ status' = [x \in Modules |-> IF x = m THEN "evaluating"
                                           ELSE IF x \in ToLink(m) THEN "linked" ELSE status[x]]
           /\ edges' = EdgesLinked(m)
           /\ StartCall(m)
           /\ frames' = Append(frames, EvalFrame(m, <<Visit(m, 1)>>, {}))
           /\ UNCHANGED <<instantiations, steps_running, aborted>>
  <2>1. edges' \in [Modules -> Seq(Modules)] /\ EdgesKept /\ LinksMade' /\ RequestsLinked'
    BY <1>2, <1>5, LinkedEdges
  <2>2. life' = life /\ links' = links /\ requests' = requests /\ synthetic' = synthetic
    BY <1>2 DEF recordVars
  <2>3. status' \in [Modules -> Statuses]
    BY <1>1, <1>5 DEF LoaderTypes, Statuses
  <2>4. status[m] \in {"unlinked", "linked"}
    <3>1. status[m] \in {"unlinked", "linking", "linked"}
      BY DEF Evaluate
    <3>. QED BY <3>1, <1>1, <1>2, NoneLinking
  <2>5. PICK g, n : g = EvalFrame(m, <<Visit(m, 1)>>, {}) /\ n = Len(frames)
    OBVIOUS
  <2>6. StackInv' /\ frames' \in Seq(LoaderFrames) /\ PutOn(n, g)
    BY <1>1, <1>2, <1>5, <2>1, <2>4, <2>5, EvaluateStack
  <2>7. g.at = "eval" /\ g.of = m /\ g \in LoaderFrames /\ \A p \in OnPath(g) : p = m
    <3>1. g.at = "eval" /\ g.of = m /\ g.path = <<Visit(m, 1)>>
      BY <2>5 DEF EvalFrame
    <3>2. g \in LoaderFrames
      BY <2>5 DEF EvalFrame, Visit, LoaderFrames, Visits
    <3>3. \A j \in 1..Len(g.path) : g.path[j].mod = m
      BY <3>1 DEF Visit
    <3>. QED BY <3>1, <3>2, <3>3 DEF OnPath
  <2>8. /\ active_calls' \in [Modules -> Nat] /\ RecordsKept'
        /\ \A x \in Modules : active_calls'[x] = active_calls[x] + One(x = m /\ engine = "quickjs")
    <3>1. m \in Known
      BY <1>2 DEF Live, Known
    <3>. QED BY <3>1, <1>1, <1>5, <2>2, CallStarts DEF LoaderInv
  <2>9. LoaderTypes'
    BY <1>1, <1>2, <1>5, <2>1, <2>2, <2>3, <2>6, <2>8 DEF LoaderTypes
  <2>10. Counted'
    <3>1. Len(frames') = Len(frames) + 1 /\ KindsUpTo(Len(frames)) /\ frames'[Len(frames) + 1] = g
      BY <2>5, <2>6 DEF PutOn, SameUpTo, KindsUpTo
    <3>2. One(g.at = "link") = 0 /\ One(StepsIn(g)) = 0
      BY <2>7 DEF One, StepsIn
    <3>3. \A x \in Modules : One(Uses(g, x)) = One(x = m /\ engine = "quickjs")
      BY <2>7 DEF One, Uses
    <3>4. steps_running' = steps_running + One(StepsIn(g))
      BY <3>2, <1>1, <1>5 DEF LoaderTypes
    <3>5. instantiations' = instantiations + One(g.at = "link") /\ instantiations' <= 1
      BY <3>2, <1>1, <1>5 DEF LoaderTypes, Counted
    <3>6. \A x \in Modules : active_calls'[x] = active_calls[x] + One(Uses(g, x))
      BY <3>3, <2>8
    <3>. QED BY <3>1, <3>4, <3>5, <3>6, <1>1, <1>2, <2>2, CountedPush
  <2>11. FramesMade'
    <3>1. life[g.of] # "none" /\ \A p \in OnPath(g) : life[p] # "none"
      BY <1>2, <2>7 DEF Live
    <3>. QED BY <3>1, <1>1, <2>2, <2>6, <2>7, FramesMadeOn DEF LoaderInv
  <2>. QED BY <2>1, <2>6, <2>8, <2>9, <2>10, <2>11 DEF LoaderInv
<1>. QED BY <1>3, <1>4, <1>5 DEF Evaluate

(* A record that the call of a frame uses has its call counted. *)
LEMMA InUse ==
  ASSUME LoaderTypes, Counted, NEW i \in 1..Len(frames), NEW m \in Modules, Uses(frames[i], m)
  PROVE  active_calls[m] # 0
<1>1. Len(frames) \in Nat /\ Using(m) \in SUBSET (1..Len(frames)) /\ i \in Using(m)
  BY DEF LoaderTypes, Using
<1>2. Cardinality(Using(m)) # 0
  BY <1>1, Places
<1>. QED BY <1>2 DEF Counted

(* The call of the frame on top ends with it. *)
LEMMA PopKeeps ==
  ASSUME LoaderInv, frames # <<>>, TopFrame.at # "script", EndCall(TopFrame.of), CutTo(Len(frames) - 1),
         frames' \in Seq(LoaderFrames), StackInv', status' \in [Modules -> Statuses],
         instantiations' = instantiations - One(TopFrame.at = "link"), steps_running' = steps_running,
         UNCHANGED <<engine, synthetic, requests, edges, aborted>>
  PROVE  LoaderInv'
<1>1. LoaderTypes /\ StackInv /\ Counted
  BY DEF LoaderInv
<1>2. PICK f, m : f = TopFrame /\ m = f.of
  OBVIOUS
<1>3. /\ f = frames[Len(frames)] /\ f \in LoaderFrames /\ Len(frames) \in 1..Len(frames)
      /\ m \in Modules
  BY <1>1, <1>2, TopFacts, FrameParts
<1>4. engine = "quickjs" => active_calls[m] # 0
  <2>1. engine = "quickjs" => Uses(f, m)
    BY <1>2 DEF Uses
  <2>. QED BY <2>1, <1>1, <1>3, InUse
<1>5. /\ RecordTypes' /\ active_calls' \in [Modules -> Nat]
      /\ \A x \in Modules : active_calls'[x] = active_calls[x] - One(x = m /\ engine = "quickjs")
      /\ RecordsKept' /\ LinksMade' /\ RequestsLinked'
      /\ \A x \in Modules : life'[x] = "none" <=> life[x] = "none"
  BY <1>1, <1>2, <1>3, <1>4, RecordCallEnds DEF LoaderInv
<1>6. Counted' /\ instantiations' \in Nat
  <2>1. Len(frames') = Len(frames) - 1 /\ KindsUpTo(Len(frames) - 1)
    BY DEF CutTo, SameUpTo, KindsUpTo
  <2>2. One(StepsIn(f)) = 0
    BY <1>2 DEF One, StepsIn
  <2>3. \A x \in Modules : One(Uses(f, x)) = One(x = m /\ engine = "quickjs")
    BY <1>2 DEF One, Uses
  <2>4. steps_running' = steps_running - One(StepsIn(f))
    BY <2>2, <1>1 DEF LoaderTypes
  <2>5. instantiations' = instantiations - One(f.at = "link")
    BY <1>2
  <2>6. \A x \in Modules : active_calls'[x] = active_calls[x] - One(Uses(f, x))
    BY <2>3, <1>5
  <2>. QED BY <2>1, <2>4, <2>5, <2>6, <1>1, <1>3, CountedPop
<1>7. LoaderTypes'
  BY <1>1, <1>5, <1>6 DEF LoaderTypes, RecordTypes
<1>8. FramesMade'
  BY <1>1, <1>5, FramesMadeTo DEF LoaderInv
<1>. QED BY <1>5, <1>6, <1>7, <1>8 DEF LoaderInv

(* The error of a failed link is made. *)
LEMMA LinkFailedKeeps ==
  ASSUME LoaderInv, LinkFailed
  PROVE  LoaderInv'
<1>1. LoaderTypes /\ StackInv /\ Counted
  BY DEF LoaderInv
<1>2. StackInv' /\ frames' \in Seq(LoaderFrames) /\ CutTo(Len(frames) - 1)
  BY <1>1, LinkFailedStack
<1>3. status' \in [Modules -> Statuses]
  BY <1>1 DEF LinkFailed, LoaderTypes, Statuses
<1>4. One(TopFrame.at = "link") = 1
  BY DEF LinkFailed, One
<1>. QED BY <1>2, <1>3, <1>4, PopKeeps DEF LinkFailed

(* The frame on top is replaced by one of the same call. *)
LEMMA ReplaceKeeps ==
  ASSUME LoaderInv, EvaluationOnTop, NEW g \in LoaderFrames, PutOn(Len(frames) - 1, g),
         g.at = "eval", g.of = TopFrame.of, \A p \in OnPath(g) : life[p] # "none",
         frames' \in Seq(LoaderFrames), StackInv', status' \in [Modules -> Statuses],
         UNCHANGED <<engine, recordVars, edges, instantiations, steps_running, active_calls,
                     severed, aborted>>
  PROVE  LoaderInv'
<1>1. LoaderTypes /\ StackInv /\ Counted
  BY DEF LoaderInv
<1>2. TopFrame = frames[Len(frames)] /\ TopFrame.at = "eval" /\ Len(frames) \in 1..Len(frames) /\ Len(frames) \in Nat
  BY <1>1, TopFacts DEF EvaluationOnTop
<1>3. life' = life /\ links' = links /\ requests' = requests /\ synthetic' = synthetic
  BY DEF recordVars
<1>4. LoaderTypes'
  BY <1>1, <1>3 DEF LoaderTypes
<1>5. Counted'
  <2>1. PICK n : n = Len(frames)
    OBVIOUS
  <2>2. /\ Len(frames') = n - 1 + 1 /\ frames'[n - 1 + 1] = g /\ n \in Nat
        /\ \A i \in 1..n - 1 : frames'[i] = frames[i]
    BY <2>1, <1>2 DEF PutOn, SameUpTo
  <2>3. n - 1 + 1 = n /\ \A i \in 1..n : i = n \/ i \in 1..n - 1
    BY <2>2
  <2>4. KindsUpTo(n)
    BY <2>1, <2>2, <2>3, <1>2 DEF KindsUpTo
  <2>. QED BY <2>1, <2>2, <2>3, <2>4, <1>1, <1>3, CountedSame
<1>6. FramesMade'
  <2>1. life[g.of] # "none"
    BY <1>2 DEF LoaderInv, FramesMade
  <2>. QED BY <2>1, <1>1, <1>3, FramesMadeOn DEF LoaderInv
<1>7. RecordsKept' /\ LinksMade' /\ RequestsLinked'
  BY <1>3 DEF LoaderInv, RecordsKept, LinksMade, RequestsLinked, Known
<1>. QED BY <1>4, <1>5, <1>6, <1>7 DEF LoaderInv

(* The engine goes on with the module it is at. *)
LEMMA GoOnFrame ==
  ASSUME LoaderInv, EvaluationOnTop, NEW v \in Visits, v.mod = Here.mod, GoOn(<<v>>)
  PROVE  \E g \in LoaderFrames :
           /\ PutOn(Len(frames) - 1, g) /\ frames' \in Seq(LoaderFrames)
           /\ g.at = "eval" /\ g.of = TopFrame.of /\ g.mods = TopFrame.mods
           /\ Len(g.path) = Len(TopFrame.path)
           /\ \A j \in 1..Len(g.path) : g.path[j].mod = TopFrame.path[j].mod
<1>1. LoaderTypes /\ StackInv
  BY DEF LoaderInv
<1>2. PICK f, k, q, g : /\ f = TopFrame /\ k = Len(frames) - 1 /\ q = Front(f.path) \o <<v>>
                        /\ g = EvalFrame(f.of, q, f.mods)
  OBVIOUS
<1>3. /\ k \in Nat /\ Len(frames) = k + 1 /\ frames[k + 1] = f /\ f \in LoaderFrames
      /\ f.at = "eval" /\ frames # <<>>
  BY <1>1, <1>2, TopFacts
<1>4. f.path # <<>> /\ f.path \in Seq(Visits) /\ Here = f.path[Len(f.path)] /\ Len(f.path) \in Nat \ {0}
  BY <1>1, <1>2, TopFacts
<1>5. q \in Seq(Visits) /\ Len(q) = Len(f.path) /\ q[Len(f.path)] = v
      /\ \A n \in 1..Len(f.path) - 1 : q[n] = f.path[n]
  <2>1. f.path \in Seq(Visits)
    BY <1>4
  <2>2. f.path # <<>>
    BY <1>4
  <2>3. Onward(q, f.path, v)
    BY <1>2 DEF Onward
  <2>. QED BY <2>1, <2>2, <2>3, PathGoesOn
<1>6. \A j \in 1..Len(q) : q[j].mod = f.path[j].mod
  <2>1. \A j \in 1..Len(q) : j = Len(f.path) \/ j \in 1..Len(f.path) - 1
    BY <1>4, <1>5
  <2>. QED BY <2>1, <1>4, <1>5
<1>7. g.at = "eval" /\ g.of = f.of /\ g.mods = f.mods /\ g.path = q
  BY <1>2 DEF EvalFrame
<1>8. g \in LoaderFrames
  <2>1. f.of \in Modules /\ f.mods \in SUBSET Modules
    BY <1>3, FrameParts
  <2>. QED BY <2>1, <1>2, <1>5 DEF EvalFrame, LoaderFrames
<1>9. frames' = Append(Front(frames), g)
  BY <1>2 DEF GoOn
<1>10. PutOn(k, g) /\ frames' \in Seq(LoaderFrames)
  BY <1>1, <1>2, <1>3, <1>8, <1>9, FrameReplaced DEF LoaderTypes
<1>11. Len(g.path) = Len(f.path) /\ \A j \in 1..Len(g.path) : g.path[j].mod = f.path[j].mod
  BY <1>5, <1>6, <1>7
<1>12. PutOn(Len(frames) - 1, g) /\ f = TopFrame
  BY <1>2, <1>10
<1>. QED BY <1>7, <1>8, <1>10, <1>11, <1>12

(* The same for the invariant. *)
LEMMA GoOnKeeps ==
  ASSUME LoaderInv, EvaluationOnTop, NEW v \in Visits, v.mod = Here.mod, GoOn(<<v>>),
         UNCHANGED <<engine, recordVars, edges, status, instantiations, steps_running,
                     active_calls, severed, aborted>>
  PROVE  LoaderInv'
<1>1. LoaderTypes /\ StackInv
  BY DEF LoaderInv
<1>2. PICK g \in LoaderFrames :
        /\ PutOn(Len(frames) - 1, g) /\ frames' \in Seq(LoaderFrames)
        /\ g.at = "eval" /\ g.of = TopFrame.of /\ g.mods = TopFrame.mods
        /\ Len(g.path) = Len(TopFrame.path)
        /\ \A j \in 1..Len(g.path) : g.path[j].mod = TopFrame.path[j].mod
  BY GoOnFrame
<1>3. PICK f, k : f = TopFrame /\ k = Len(frames) - 1
  OBVIOUS
<1>4. /\ k \in Nat /\ Len(frames) = k + 1 /\ frames[k + 1] = f /\ f \in LoaderFrames
      /\ f.at = "eval" /\ frames # <<>>
  BY <1>1, <1>3, TopFacts
<1>5. PutOn(k, g)
  BY <1>2, <1>3
<1>6. StackInv'
  <2>1. k + 1 <= Len(frames) /\ \A i \in 1..Len(frames) : ~(i > k + 1)
    BY <1>4
  <2>2. /\ Len(g.path) = Len(f.path) /\ \A j \in 1..Len(g.path) : g.path[j].mod = f.path[j].mod
        /\ g.mods = f.mods
    BY <1>2, <1>3
  <2>. QED BY <2>1, <2>2, <1>1, <1>2, <1>4, <1>5, VisitStack
<1>7. \A p \in OnPath(g) : life[p] # "none"
  <2>1. \A p \in OnPath(g) : p \in OnPath(f)
    BY <1>2, <1>3 DEF OnPath
  <2>2. k + 1 \in 1..Len(frames)
    BY <1>4
  <2>. QED BY <2>1, <2>2, <1>4 DEF LoaderInv, FramesMade
<1>8. status' \in [Modules -> Statuses]
  BY <1>1 DEF LoaderTypes
<1>. QED BY <1>2, <1>6, <1>7, <1>8, ReplaceKeeps

(* The import the engine is at. *)
LEMMA AtImport ==
  ASSUME LoaderInv, EvaluationOnTop, Here.next \in 1..AllImports
  PROVE  /\ Here.mod \in Modules /\ Here.next \in Nat
         /\ edges[Here.mod][Here.next] \in Modules
         /\ edges[Here.mod][Here.next] \in Range(edges[Here.mod])
<1>1. LoaderTypes /\ StackInv
  BY DEF LoaderInv
<1>2. Here.mod \in OnPath(TopFrame) /\ TopFrame \in LoaderFrames /\ Here \in Visits
  BY <1>1, TopFacts
<1>3. Here.mod \in Modules /\ Here.next \in Nat
  BY <1>2, FrameParts DEF Visits
<1>4. edges[Here.mod] \in Seq(Modules)
  BY <1>1, <1>3 DEF LoaderTypes
<1>. QED BY <1>3, <1>4 DEF AllImports, Range

(* The engine goes into an import. *)
LEMMA ImportFrame ==
  ASSUME LoaderInv, EvaluationOnTop, Here.next \in 1..AllImports, edges' = edges,
         NEW d, d = edges[Here.mod][Here.next], NEW v, v = Visit(Here.mod, Here.next + 1),
         status[d] = "linked", status' = [status EXCEPT ![d] = "evaluating"],
         GoOn(<<v, Visit(d, 1)>>)
  PROVE  \E g \in LoaderFrames :
           /\ StackInv' /\ frames' \in Seq(LoaderFrames) /\ PutOn(Len(frames) - 1, g)
           /\ OnPath(g) = OnPath(TopFrame) \cup {d} /\ g.at = "eval" /\ g.of = TopFrame.of
<1>1. LoaderTypes /\ StackInv
  BY DEF LoaderInv
<1>2. d \in Modules /\ d \in Range(edges[Here.mod]) /\ Here.mod \in Modules /\ Here.next \in Nat
  BY AtImport
<1>3. v \in Visits /\ v.mod = Here.mod
  BY <1>2 DEF Visit, Visits
<1>4. PICK f, q, g : /\ f = TopFrame /\ q = Front(f.path) \o <<v, Visit(d, 1)>>
                     /\ g = EvalFrame(f.of, q, f.mods)
  OBVIOUS
<1>5. f \in LoaderFrames /\ f.path # <<>> /\ f.path \in Seq(Visits) /\ Here = f.path[Len(f.path)]
      /\ Len(f.path) \in Nat \ {0} /\ f = frames[Len(frames)] /\ Len(frames) \in 1..Len(frames)
  BY <1>1, <1>4, TopFacts
<1>6. Visit(d, 1) \in Visits /\ Visit(d, 1).mod = d
  BY <1>2 DEF Visit, Visits
<1>7. q \in Seq(Visits) /\ Len(q) = Len(f.path) + 1 /\ q[Len(f.path)] = v
      /\ q[Len(f.path) + 1] = Visit(d, 1) /\ \A n \in 1..Len(f.path) - 1 : q[n] = f.path[n]
  <2>1. f.path \in Seq(Visits)
    BY <1>5
  <2>2. f.path # <<>>
    BY <1>5
  <2>3. Onto(q, f.path, v, Visit(d, 1))
    BY <1>4 DEF Onto
  <2>4. v \in Visits /\ Visit(d, 1) \in Visits
    BY <1>3, <1>6
  <2>. QED BY <2>1, <2>2, <2>3, <2>4, PathGrows
<1>8. \A j \in 1..Len(f.path) : q[j].mod = f.path[j].mod
  <2>1. \A j \in 1..Len(f.path) : j = Len(f.path) \/ j \in 1..Len(f.path) - 1
    BY <1>5, UpToLast, Zenon
  <2>. QED BY <2>1, <1>5, <1>7, <1>3
<1>9. frames' = Append(Front(frames), g) /\ g = EvalFrame(TopFrame.of, q, TopFrame.mods)
  BY <1>4 DEF GoOn
<1>10. Len(q) = Len(TopFrame.path) + 1 /\ q[Len(TopFrame.path) + 1].mod = d
      /\ \A j \in 1..Len(TopFrame.path) : q[j].mod = TopFrame.path[j].mod
  BY <1>4, <1>6, <1>7, <1>8
<1>11. /\ StackInv' /\ frames' \in Seq(LoaderFrames)
      /\ PutOn(Len(frames) - 1, g) /\ OnPath(g) = OnPath(TopFrame) \cup {d}
  <2>1. status[d] = "linked" /\ status' = [status EXCEPT ![d] = "evaluating"] /\ edges' = edges
    OBVIOUS
  <2>2. q \in Seq(Visits)
    BY <1>7
  <2>. QED BY <1>1, <1>2, <1>9, <1>10, <2>1, <2>2, ImportStack
<1>12. g.at = "eval" /\ g.of = TopFrame.of
  BY <1>9 DEF EvalFrame
<1>13. g \in LoaderFrames
  <2>1. f.of \in Modules /\ f.mods \in SUBSET Modules
    BY <1>5, FrameParts
  <2>. QED BY <2>1, <1>4, <1>7 DEF EvalFrame, LoaderFrames
<1>. QED BY <1>11, <1>12, <1>13

(* An import is evaluated, passed over, or fails. *)
LEMMA ImportKeeps ==
  ASSUME LoaderInv, Import
  PROVE  LoaderInv'
<1>1. LoaderTypes /\ StackInv
  BY DEF LoaderInv
<1>2. EvaluationOnTop /\ Here.next \in 1..AllImports
      /\ UNCHANGED <<engine, recordVars, edges, instantiations, steps_running, active_calls, severed>>
  BY DEF Import
<1>3. PICK d, v : d = edges[Here.mod][Here.next] /\ v = Visit(Here.mod, Here.next + 1)
  OBVIOUS
<1>4. d \in Modules /\ d \in Range(edges[Here.mod]) /\ Here.mod \in Modules /\ Here.next \in Nat
  BY <1>2, <1>3, AtImport
<1>5. v \in Visits /\ v.mod = Here.mod
  BY <1>3, <1>4 DEF Visit, Visits
<1>6. CASE status[d] = "linked" /\ status' = [status EXCEPT ![d] = "evaluating"]
           /\ GoOn(<<v, Visit(d, 1)>>) /\ UNCHANGED aborted
  <2>1. PICK g \in LoaderFrames :
           /\ StackInv' /\ frames' \in Seq(LoaderFrames) /\ PutOn(Len(frames) - 1, g)
           /\ OnPath(g) = OnPath(TopFrame) \cup {d} /\ g.at = "eval" /\ g.of = TopFrame.of
    BY <1>2, <1>3, <1>6, ImportFrame
  <2>2. \A p \in OnPath(g) : life[p] # "none"
    <3>1. TopFrame = frames[Len(frames)] /\ Len(frames) \in 1..Len(frames)
      BY <1>1, <1>2, TopFacts
    <3>2. \A p \in OnPath(TopFrame) : life[p] # "none"
      BY <3>1 DEF LoaderInv, FramesMade
    <3>3. life[d] # "none"
      BY <1>4 DEF LoaderInv, LinksMade
    <3>. QED BY <3>2, <3>3, <2>1
  <2>3. status' \in [Modules -> Statuses]
    BY <1>1, <1>6 DEF LoaderTypes, Statuses
  <2>. QED BY <1>2, <1>6, <2>1, <2>2, <2>3, ReplaceKeeps
<1>7. CASE GoOn(<<v>>) /\ UNCHANGED <<status, aborted>>
  BY <1>2, <1>5, <1>7, GoOnKeeps
<1>8. CASE GoOn(<<Visit(Here.mod, Threw)>>) /\ UNCHANGED <<status, aborted>>
  <2>1. Visit(Here.mod, Threw) \in Visits /\ Visit(Here.mod, Threw).mod = Here.mod
    BY <1>4 DEF Visit, Visits, Threw
  <2>. QED BY <2>1, <1>2, <1>8, GoOnKeeps
<1>9. CASE aborted' = TRUE /\ UNCHANGED <<status, frames>>
  BY <1>2, <1>9, AbortKeeps
<1>. QED BY <1>3, <1>6, <1>7, <1>8, <1>9 DEF Import

(* A module's body, or its steps, start. *)
LEMMA ScriptKeeps ==
  ASSUME LoaderInv, EvaluationOnTop, NEW m, m = Here.mod, HasScript(m),
         frames' = Append(frames, ScriptFrame(m)),
         steps_running' = steps_running + SyntheticSteps(m),
         IF m \in synthetic THEN StartCall(m) ELSE UNCHANGED active_calls,
         UNCHANGED <<engine, recordVars, edges, status, instantiations, aborted, severed>>
  PROVE  LoaderInv'
<1>1. LoaderTypes /\ StackInv /\ Counted
  BY DEF LoaderInv
<1>2. life' = life /\ links' = links /\ requests' = requests /\ synthetic' = synthetic
  BY DEF recordVars
<1>3. m \in Modules /\ m \in OnPath(TopFrame)
  BY <1>1, TopFacts, FrameParts
<1>4. PICK g : g = ScriptFrame(m)
  OBVIOUS
<1>5. StackInv' /\ frames' \in Seq(LoaderFrames) /\ PutOn(Len(frames), g)
  BY <1>1, <1>4, ScriptStack
<1>6. g.at = "script" /\ g.of = m /\ g.path = <<>> /\ g \in LoaderFrames
  BY <1>3, <1>4 DEF ScriptFrame, LoaderFrames
<1>7. /\ active_calls' \in [Modules -> Nat] /\ RecordsKept'
      /\ \A x \in Modules :
           active_calls'[x] = active_calls[x] + One(x = m /\ engine = "quickjs" /\ m \in synthetic)
  <2>1. CASE m \in synthetic
    <3>1. m \in Known
      BY <2>1 DEF HasScript
    <3>2. StartCall(m)
      BY <2>1
    <3>3. \A x \in Modules : One(x = m /\ engine = "quickjs" /\ m \in synthetic)
                               = One(x = m /\ engine = "quickjs")
      BY <2>1 DEF One
    <3>. QED BY <3>1, <3>2, <3>3, <1>1, <1>2, CallStarts DEF LoaderInv
  <2>2. CASE m \notin synthetic
    <3>1. active_calls' = active_calls
      BY <2>2
    <3>2. active_calls \in [Modules -> Nat] /\ RecordsKept
      BY DEF LoaderInv, LoaderTypes
    <3>3. \A x \in Modules : One(x = m /\ engine = "quickjs" /\ m \in synthetic) = 0
      BY <2>2 DEF One
    <3>4. RecordsKept'
      BY <3>1, <3>2, <1>2 DEF RecordsKept, Known
    <3>. QED BY <3>1, <3>2, <3>3, <3>4
  <2>. QED BY <2>1, <2>2
<1>8. SyntheticSteps(m) = One(StepsIn(g)) /\ One(g.at = "link") = 0
  BY <1>6 DEF SyntheticSteps, One, StepsIn
<1>9. LoaderTypes'
  <2>1. steps_running' \in Nat
    BY <1>1 DEF LoaderTypes, SyntheticSteps
  <2>. QED BY <2>1, <1>1, <1>2, <1>5, <1>7 DEF LoaderTypes
<1>10. Counted'
  <2>1. Len(frames') = Len(frames) + 1 /\ KindsUpTo(Len(frames)) /\ frames'[Len(frames) + 1] = g
    BY <1>5 DEF PutOn, SameUpTo, KindsUpTo
  <2>2. \A x \in Modules : One(Uses(g, x)) = One(x = m /\ engine = "quickjs" /\ m \in synthetic)
    BY <1>6 DEF One, Uses
  <2>3. steps_running' = steps_running + One(StepsIn(g))
    BY <1>8
  <2>4. instantiations' = instantiations + One(g.at = "link") /\ instantiations' <= 1
    BY <1>8, <1>1 DEF LoaderTypes, Counted
  <2>5. \A x \in Modules : active_calls'[x] = active_calls[x] + One(Uses(g, x))
    BY <2>2, <1>7
  <2>. QED BY <2>1, <2>3, <2>4, <2>5, <1>1, <1>2, CountedPush
<1>11. FramesMade'
  <2>1. life[m] # "none"
    <3>1. TopFrame = frames[Len(frames)] /\ Len(frames) \in 1..Len(frames)
      BY <1>1, TopFacts
    <3>. QED BY <3>1, <1>3 DEF LoaderInv, FramesMade
  <2>2. \A p \in OnPath(g) : life[p] # "none"
    BY <1>6 DEF OnPath
  <2>. QED BY <2>1, <2>2, <1>1, <1>2, <1>5, <1>6, FramesMadeOn DEF LoaderInv
<1>12. LinksMade' /\ RequestsLinked'
  BY <1>2 DEF LoaderInv, LinksMade, RequestsLinked, Known
<1>. QED BY <1>5, <1>7, <1>9, <1>10, <1>11, <1>12 DEF LoaderInv

(* A body runs, or steps that are gone are passed over. *)
LEMMA RunBodyKeeps ==
  ASSUME LoaderInv, RunBody
  PROVE  LoaderInv'
<1>1. EvaluationOnTop /\ UNCHANGED <<engine, recordVars, edges, status, instantiations, aborted, severed>>
  BY DEF RunBody
<1>2. PICK m : m = Here.mod
  OBVIOUS
<1>3. CASE /\ HasScript(m)
           /\ frames' = Append(frames, ScriptFrame(m))
           /\ steps_running' = steps_running + SyntheticSteps(m)
           /\ IF m \in synthetic THEN StartCall(m) ELSE UNCHANGED active_calls
  BY <1>1, <1>2, <1>3, ScriptKeeps
<1>4. CASE /\ ~HasScript(m)
           /\ GoOn(<<Visit(m, Ended)>>)
           /\ UNCHANGED <<steps_running, active_calls>>
  <2>1. PICK v : v = Visit(m, Ended)
    OBVIOUS
  <2>2. m \in Modules
    BY <1>1, <1>2, TopFacts, FrameParts DEF LoaderInv
  <2>3. Ended \in Nat
    <3>1. edges[m] \in Seq(Modules)
      BY <2>2 DEF LoaderInv, LoaderTypes
    <3>. QED BY <3>1, <1>2 DEF Ended, AllImports
  <2>4. v \in Visits /\ v.mod = Here.mod
    BY <1>2, <2>1, <2>2, <2>3 DEF Visit, Visits
  <2>. QED BY <1>1, <1>4, <2>1, <2>4, GoOnKeeps
<1>. QED BY <1>2, <1>3, <1>4 DEF RunBody

(* A script ends, and its evaluation goes on. *)
LEMMA ScriptEndsFrames ==
  ASSUME LoaderInv, NEW threw \in BOOLEAN, ScriptEnds(threw)
  PROVE  \E k \in Nat, g \in LoaderFrames :
           /\ Len(frames) = k + 2 /\ frames[k + 2] = TopFrame /\ TopFrame.at = "script"
           /\ TopFrame \in LoaderFrames
           /\ frames[k + 1] \in LoaderFrames
           /\ frames[k + 1].at = "eval" /\ TopFrame.of = Last(frames[k + 1].path).mod
           /\ PutOn(k, g) /\ frames' \in Seq(LoaderFrames)
           /\ g.at = "eval" /\ g.of = frames[k + 1].of /\ g.mods = frames[k + 1].mods
           /\ Len(g.path) = Len(frames[k + 1].path)
           /\ \A j \in 1..Len(g.path) : g.path[j].mod = frames[k + 1].path[j].mod
<1>1. LoaderTypes /\ StackInv /\ FramesNest
  BY DEF LoaderInv, StackInv
<1>2. PICK n, f, m, next : /\ n = Len(frames) /\ f = frames[Len(frames) - 1] /\ m = TopFrame.of
                           /\ next = IF threw THEN Threw ELSE Len(edges[m]) + 2
  OBVIOUS
<1>3. frames # <<>> /\ TopFrame.at = "script"
  BY DEF ScriptEnds
<1>4. TopFrame = frames[n] /\ n \in 1..n /\ TopFrame \in LoaderFrames /\ n \in Nat
  BY <1>1, <1>2, <1>3, TopFacts
<1>5. n > 1 /\ frames[n - 1].at = "eval" /\ Last(frames[n - 1].path).mod = m
      /\ frames[n - 1].path # <<>>
  BY <1>1, <1>2, <1>3, <1>4 DEF FramesNest
<1>6. n - 1 \in 1..n /\ f = frames[n - 1] /\ f \in LoaderFrames /\ m \in Modules
  <2>1. n - 1 \in 1..n
    BY <1>4, <1>5
  <2>. QED BY <2>1, <1>1, <1>2, <1>4, FrameParts DEF LoaderTypes
<1>7. f.path \in Seq(Visits) /\ f.path # <<>> /\ f.of \in Modules /\ f.mods \in SUBSET Modules
  BY <1>5, <1>6, FrameParts
<1>8. next \in Nat
  <2>1. edges[m] \in Seq(Modules)
    BY <1>1, <1>6 DEF LoaderTypes
  <2>. QED BY <2>1, <1>2 DEF Threw
<1>9. PICK v : v = Visit(m, next)
  OBVIOUS
<1>10. v \in Visits /\ v.mod = m
  BY <1>6, <1>8, <1>9 DEF Visit, Visits
<1>11. PICK q, g : q = Append(Front(f.path), v) /\ g = EvalFrame(f.of, q, f.mods)
  OBVIOUS
<1>12. q \in Seq(Visits) /\ Len(q) = Len(f.path) /\ q[Len(f.path)] = v
       /\ \A i \in 1..Len(f.path) - 1 : q[i] = f.path[i]
  <2>1. Front(f.path) \in Seq(Visits)
    BY <1>7, FrontOf
  <2>2. Onward(q, f.path, v)
    BY <2>1, <1>10, <1>11 DEF Onward
  <2>. QED BY <2>2, <1>7, <1>10, PathGoesOn
<1>13. Len(f.path) \in Nat \ {0} /\ f.path[Len(f.path)].mod = m
  BY <1>5, <1>6, <1>7, FrontOf DEF Last
<1>14. \A j \in 1..Len(q) : q[j].mod = f.path[j].mod
  <2>1. \A j \in 1..Len(q) : j = Len(f.path) \/ j \in 1..Len(f.path) - 1
    BY <1>12, <1>13
  <2>. QED BY <2>1, <1>10, <1>12, <1>13
<1>15. g.at = "eval" /\ g.of = f.of /\ g.mods = f.mods /\ g.path = q
  BY <1>11 DEF EvalFrame
<1>16. g \in LoaderFrames
  BY <1>7, <1>11, <1>12 DEF EvalFrame, LoaderFrames
<1>17. frames' = Append(SubSeq(frames, 1, Len(frames) - 2), g)
  BY <1>2, <1>9, <1>11 DEF ScriptEnds
<1>18. PutOn(n - 2, g) /\ frames' \in Seq(LoaderFrames)
  BY <1>1, <1>2, <1>5, <1>16, <1>17, TwoReplaced DEF LoaderTypes
<1>19. PICK k \in Nat : n = k + 2 /\ n - 2 = k /\ n - 1 = k + 1
  <2>1. n - 2 \in Nat /\ n = n - 2 + 2 /\ n - 1 = n - 2 + 1
    BY <1>4, <1>5
  <2>. QED BY <2>1
<1>20. /\ Len(frames) = k + 2 /\ frames[k + 2] = TopFrame /\ f = frames[k + 1]
       /\ PutOn(k, g) /\ frames' \in Seq(LoaderFrames)
  BY <1>2, <1>4, <1>6, <1>18, <1>19
<1>21. TopFrame.of = Last(f.path).mod /\ f.at = "eval"
  BY <1>2, <1>5, <1>6
<1>22. Len(g.path) = Len(f.path) /\ \A j \in 1..Len(g.path) : g.path[j].mod = f.path[j].mod
  BY <1>12, <1>14, <1>15
<1>23. /\ frames[k + 1] \in LoaderFrames
       /\ frames[k + 1].at = "eval" /\ TopFrame.of = Last(frames[k + 1].path).mod
       /\ g.of = frames[k + 1].of /\ g.mods = frames[k + 1].mods
       /\ Len(g.path) = Len(frames[k + 1].path)
       /\ \A j \in 1..Len(g.path) : g.path[j].mod = frames[k + 1].path[j].mod
  BY Zenon, <1>6, <1>15, <1>20, <1>21, <1>22
<1>24. k \in Nat
  BY <1>19
<1>. WITNESS k \in Nat, g \in LoaderFrames
<1>. QED BY Zenon, <1>3, <1>4, <1>15, <1>20, <1>23

(* The same for the invariant. *)
LEMMA ScriptEndsKeeps ==
  ASSUME LoaderInv, NEW threw \in BOOLEAN, ScriptEnds(threw)
  PROVE  LoaderInv'
<1>1. LoaderTypes /\ StackInv /\ Counted
  BY DEF LoaderInv
<1>2. PICK k \in Nat, g \in LoaderFrames :
           /\ Len(frames) = k + 2 /\ frames[k + 2] = TopFrame /\ TopFrame.at = "script"
           /\ TopFrame \in LoaderFrames
           /\ frames[k + 1] \in LoaderFrames
           /\ frames[k + 1].at = "eval" /\ TopFrame.of = Last(frames[k + 1].path).mod
           /\ PutOn(k, g) /\ frames' \in Seq(LoaderFrames)
           /\ g.at = "eval" /\ g.of = frames[k + 1].of /\ g.mods = frames[k + 1].mods
           /\ Len(g.path) = Len(frames[k + 1].path)
           /\ \A j \in 1..Len(g.path) : g.path[j].mod = frames[k + 1].path[j].mod
  BY ScriptEndsFrames
<1>3. UNCHANGED <<engine, synthetic, requests, edges, status, instantiations, aborted>>
  BY DEF ScriptEnds
<1>4. PICK f, m : f = TopFrame /\ m = f.of
  OBVIOUS
<1>5. /\ f \in LoaderFrames /\ f.at = "script" /\ m \in Modules
      /\ f = frames[Len(frames)] /\ Len(frames) \in 1..Len(frames) /\ frames # <<>>
  <2>1. f \in LoaderFrames /\ f.at = "script" /\ f = frames[Len(frames)]
    BY <1>2, <1>4
  <2>2. Len(frames) \in 1..Len(frames) /\ frames # <<>>
    BY <1>1, <1>2 DEF LoaderTypes
  <2>. QED BY <2>1, <2>2, <1>4, FrameParts
<1>6. StackInv'
  <2>1. k + 1 <= Len(frames) /\ \A i \in 1..Len(frames) : i > k + 1 => frames[i].at = "script"
    <3>1. \A i \in 1..Len(frames) : i > k + 1 => i = k + 2
      BY <1>2
    <3>2. k + 1 <= Len(frames)
      BY <1>2
    <3>. QED BY <3>1, <3>2, <1>2
  <2>. QED BY <2>1, <1>1, <1>2, <1>3, VisitStack
<1>7. /\ steps_running' = steps_running - SyntheticSteps(m)
      /\ m \in synthetic => EndCall(m)
      /\ m \notin synthetic => UNCHANGED <<active_calls, life, links, severed>>
  BY <1>4 DEF ScriptEnds
<1>8. /\ RecordTypes' /\ active_calls' \in [Modules -> Nat]
      /\ \A x \in Modules :
           active_calls'[x] = active_calls[x] - One(x = m /\ engine = "quickjs" /\ m \in synthetic)
      /\ RecordsKept' /\ LinksMade' /\ RequestsLinked'
      /\ \A x \in Modules : life'[x] = "none" <=> life[x] = "none"
  <2>1. CASE m \in synthetic
    <3>1. engine = "quickjs" => active_calls[m] # 0
      <4>1. engine = "quickjs" => Uses(f, m)
        BY <2>1, <1>4 DEF Uses
      <4>. QED BY <4>1, <1>1, <1>5, InUse
    <3>2. \A x \in Modules : One(x = m /\ engine = "quickjs" /\ m \in synthetic)
                               = One(x = m /\ engine = "quickjs")
      BY <2>1 DEF One
    <3>3. EndCall(m) /\ edges' = edges /\ requests' = requests /\ synthetic' = synthetic
      BY <2>1, <1>3, <1>7
    <3>. QED BY <3>1, <3>2, <3>3, <1>1, <1>5, RecordCallEnds DEF LoaderInv
  <2>2. CASE m \notin synthetic
    <3>1. life' = life /\ links' = links /\ requests' = requests /\ synthetic' = synthetic
          /\ active_calls' = active_calls /\ severed' = severed /\ edges' = edges
      BY <2>2, <1>3, <1>7
    <3>2. RecordTypes'
      BY <3>1, <1>1 DEF RecordTypes, LoaderTypes
    <3>3. active_calls \in [Modules -> Nat] /\ RecordsKept /\ LinksMade /\ RequestsLinked
      BY DEF LoaderInv, LoaderTypes
    <3>4. \A x \in Modules : One(x = m /\ engine = "quickjs" /\ m \in synthetic) = 0
      BY <2>2 DEF One
    <3>5. RecordsKept' /\ LinksMade' /\ RequestsLinked'
      BY <3>1, <3>3 DEF RecordsKept, LinksMade, RequestsLinked, Known
    <3>. QED BY <3>1, <3>2, <3>3, <3>4, <3>5
  <2>. QED BY <2>1, <2>2
<1>9. Counted' /\ steps_running' \in Nat
  <2>1. /\ Len(frames') = k + 1 /\ frames'[k + 1] = g
        /\ \A i \in 1..k : frames'[i] = frames[i]
    BY <1>2 DEF PutOn, SameUpTo
  <2>2. Len(frames) - 1 = k + 1 /\ \A i \in 1..k + 1 : i = k + 1 \/ i \in 1..k
    BY <1>2
  <2>3. KindsUpTo(Len(frames) - 1)
    BY <2>1, <2>2, <1>2 DEF KindsUpTo
  <2>4. Len(frames') = Len(frames) - 1
    BY <2>1, <2>2
  <2>5. SyntheticSteps(m) = One(StepsIn(f)) /\ One(f.at = "link") = 0
    BY <1>4, <1>5 DEF SyntheticSteps, One, StepsIn
  <2>6. steps_running' = steps_running - One(StepsIn(f))
    BY <2>5, <1>7
  <2>7. instantiations' = instantiations - One(f.at = "link")
    BY <2>5, <1>1, <1>3 DEF LoaderTypes
  <2>8. \A x \in Modules : One(Uses(f, x)) = One(x = m /\ engine = "quickjs" /\ m \in synthetic)
    BY <1>4, <1>5 DEF One, Uses
  <2>9. \A x \in Modules : active_calls'[x] = active_calls[x] - One(Uses(f, x))
    BY <2>8, <1>8
  <2>. QED BY <2>3, <2>4, <2>6, <2>7, <2>9, <1>1, <1>3, <1>5, CountedPop
<1>10. LoaderTypes'
  BY <1>1, <1>2, <1>3, <1>8, <1>9 DEF LoaderTypes, RecordTypes
<1>11. FramesMade'
  <2>1. k + 1 \in 1..Len(frames)
    BY <1>2
  <2>2. OnPath(g) \subseteq OnPath(frames[k + 1])
    BY <1>2 DEF OnPath
  <2>3. life[g.of] # "none" /\ \A p \in OnPath(g) : life[p] # "none"
    BY <2>1, <2>2, <1>2 DEF LoaderInv, FramesMade
  <2>. QED BY <2>3, <1>1, <1>2, <1>8, FramesMadeOn DEF LoaderInv
<1>. QED BY <1>6, <1>8, <1>9, <1>10, <1>11 DEF LoaderInv

(* The evaluation ends, or is done with the module it is at. *)
LEMMA FinishFrame ==
  ASSUME LoaderInv, Finish
  PROVE  \/ /\ StackInv' /\ frames' \in Seq(LoaderFrames) /\ CutTo(Len(frames) - 1)
            /\ EndCall(TopFrame.of)
         \/ \E g \in LoaderFrames :
              /\ StackInv' /\ frames' \in Seq(LoaderFrames) /\ PutOn(Len(frames) - 1, g)
              /\ OnPath(g) \subseteq OnPath(TopFrame) /\ g.at = "eval" /\ g.of = TopFrame.of
              /\ UNCHANGED <<active_calls, life, links, severed>>
<1>1. LoaderTypes /\ StackInv
  BY DEF LoaderInv
<1>2. EvaluationOnTop /\ UNCHANGED <<engine, synthetic, requests, edges, instantiations, steps_running, aborted>>
  BY DEF Finish
<1>3. PICK m, p, around, done :
        /\ m = Here.mod /\ p = Front(TopFrame.path)
        /\ around = Reached(m, edges, InStatus({"evaluating"}))
        /\ done = IF \E i \in DOMAIN p : p[i].mod \in around THEN {}
                  ELSE {m} \cup (TopFrame.mods \cap around)
  OBVIOUS
<1>4. status' = [x \in Modules |-> IF x \in done THEN "evaluated" ELSE status[x]]
  BY <1>3 DEF Finish
<1>5. status' \in [Modules -> Statuses]
  BY <1>1, <1>4 DEF LoaderTypes, Statuses
<1>6. frames # <<>> /\ TopFrame.at = "eval" /\ TopFrame.path # <<>> /\ TopFrame.path \in Seq(Visits)
      /\ TopFrame = frames[Len(frames)] /\ Len(frames) \in 1..Len(frames) /\ TopFrame \in LoaderFrames
  BY <1>1, <1>2, TopFacts DEF EvaluationOnTop
<1>7. p \in Seq(Visits) /\ DOMAIN p = 1..Len(p)
  BY <1>3, <1>6, FrontOf
<1>8. CASE p = <<>>
  <2>1. frames' = Front(frames) /\ EndCall(TopFrame.of)
    BY <1>3, <1>8 DEF Finish
  <2>2. done = InHand(TopFrame)
    <3>1. DOMAIN p = {}
      BY <1>7, <1>8
    <3>2. done = {m} \cup (TopFrame.mods \cap around)
      BY <3>1, <1>3
    <3>3. {m} \cup (TopFrame.mods \cap around) = InHand(TopFrame)
      BY <1>1, <1>2, <1>3, <1>8, FirstDone
    <3>. QED BY <3>2, <3>3
  <2>3. \A x \in Modules : status'[x] = IF x \in InHand(TopFrame) THEN "evaluated" ELSE status[x]
    BY <2>2, <1>4
  <2>4. StackInv' /\ frames' \in Seq(LoaderFrames) /\ CutTo(Len(frames) - 1)
    BY <2>1, <2>3, <1>1, <1>2, PopEvalStack
  <2>. QED BY <2>1, <2>4
<1>9. CASE p # <<>>
  <2>1. PICK g : g = EvalFrame(TopFrame.of, p, (TopFrame.mods \cup {m}) \ done)
    OBVIOUS
  <2>2. frames' = Append(Front(frames), g) /\ UNCHANGED <<active_calls, life, links, severed>>
    BY <1>3, <1>9, <2>1 DEF Finish
  <2>3. Completes(TopFrame, p, m, done)
    <3>1. CASE \E i \in DOMAIN p : p[i].mod \in around
      <4>1. done = {} /\ \E i \in 1..Len(p) : p[i].mod \in around
        BY <3>1, <1>3, <1>7
      <4>. QED BY <4>1, <1>3 DEF Completes
    <3>2. CASE ~\E i \in DOMAIN p : p[i].mod \in around
      <4>1. done = {m} \cup (TopFrame.mods \cap around)
        BY <3>2, <1>3
      <4>2. \A i \in 1..Len(p) : p[i].mod \notin around
        BY <3>2, <1>7
      <4>. QED BY <4>1, <4>2, <1>3 DEF Completes
    <3>. QED BY <3>1, <3>2
  <2>4. StackInv' /\ frames' \in Seq(LoaderFrames) /\ PutOn(Len(frames) - 1, g)
        /\ OnPath(g) \subseteq OnPath(TopFrame)
    BY <1>1, <1>2, <1>3, <1>4, <1>9, <2>1, <2>2, <2>3, FinishStack
  <2>5. g.at = "eval" /\ g.of = TopFrame.of
    BY <2>1 DEF EvalFrame
  <2>6. g \in LoaderFrames
    <3>1. TopFrame.of \in Modules /\ TopFrame.mods \subseteq Modules /\ m \in Modules
      BY <1>1, <1>2, <1>3, <1>6, TopFacts, FrameParts
    <3>2. (TopFrame.mods \cup {m}) \ done \in SUBSET Modules
      BY <3>1
    <3>. QED BY <3>1, <3>2, <1>7, <2>1 DEF EvalFrame, LoaderFrames
  <2>. QED BY <2>2, <2>4, <2>5, <2>6
<1>. QED BY <1>8, <1>9

(* The same for the invariant. *)
LEMMA FinishKeeps ==
  ASSUME LoaderInv, Finish
  PROVE  LoaderInv'
<1>1. LoaderTypes /\ StackInv
  BY DEF LoaderInv
<1>2. EvaluationOnTop /\ UNCHANGED <<engine, synthetic, requests, edges, instantiations, steps_running, aborted>>
  BY DEF Finish
<1>3. status' \in [Modules -> Statuses]
  BY <1>1 DEF Finish, LoaderTypes, Statuses
<1>4. frames # <<>> /\ TopFrame.at = "eval" /\ TopFrame = frames[Len(frames)] /\ Len(frames) \in 1..Len(frames)
  BY <1>1, <1>2, TopFacts DEF EvaluationOnTop
<1>5. CASE /\ StackInv' /\ frames' \in Seq(LoaderFrames) /\ CutTo(Len(frames) - 1)
           /\ EndCall(TopFrame.of)
  <2>1. instantiations' = instantiations - One(TopFrame.at = "link")
    <3>1. One(TopFrame.at = "link") = 0
      BY <1>4 DEF One
    <3>. QED BY <3>1, <1>1, <1>2 DEF LoaderTypes
  <2>. QED BY <2>1, <1>2, <1>3, <1>4, <1>5, PopKeeps
<1>6. ASSUME NEW g \in LoaderFrames,
             StackInv', frames' \in Seq(LoaderFrames), PutOn(Len(frames) - 1, g),
             OnPath(g) \subseteq OnPath(TopFrame), g.at = "eval", g.of = TopFrame.of,
             UNCHANGED <<active_calls, life, links, severed>>
      PROVE  LoaderInv'
  <2>1. \A x \in OnPath(g) : life[x] # "none"
    BY <1>4, <1>6 DEF LoaderInv, FramesMade
  <2>2. UNCHANGED <<engine, recordVars, edges, instantiations, steps_running, active_calls,
                    severed, aborted>>
    BY <1>2, <1>6 DEF recordVars
  <2>. QED BY <2>1, <2>2, <1>2, <1>3, <1>6, ReplaceKeeps
<1>. QED BY <1>5, <1>6, FinishFrame

(* An evaluation fails. *)
LEMMA FailKeeps ==
  ASSUME LoaderInv, Fail
  PROVE  LoaderInv'
<1>1. LoaderTypes /\ StackInv
  BY DEF LoaderInv
<1>2. EvaluationOnTop /\ UNCHANGED <<engine, synthetic, requests, edges, instantiations, steps_running, aborted>>
      /\ frames' = Front(frames) /\ EndCall(TopFrame.of)
  BY DEF Fail
<1>3. frames # <<>> /\ TopFrame.at = "eval" /\ TopFrame.path \in Seq(Visits)
  BY <1>1, <1>2, TopFacts DEF EvaluationOnTop
<1>4. TopFrame.mods \cup {TopFrame.path[i].mod : i \in DOMAIN TopFrame.path} = InHand(TopFrame)
  <2>1. DOMAIN TopFrame.path = 1..Len(TopFrame.path)
    BY <1>3
  <2>. QED BY <2>1 DEF InHand, OnPath
<1>5. status' = [x \in Modules |-> IF x \in InHand(TopFrame) THEN "errored" ELSE status[x]]
  BY <1>4 DEF Fail
<1>6. status' \in [Modules -> Statuses]
  BY <1>1, <1>5 DEF LoaderTypes, Statuses
<1>7. StackInv' /\ frames' \in Seq(LoaderFrames) /\ CutTo(Len(frames) - 1)
  BY <1>1, <1>2, <1>5, PopEvalStack
<1>8. instantiations' = instantiations - One(TopFrame.at = "link")
  <2>1. One(TopFrame.at = "link") = 0
    BY <1>3 DEF One
  <2>. QED BY <2>1, <1>1, <1>2 DEF LoaderTypes
<1>. QED BY <1>2, <1>3, <1>6, <1>7, <1>8, PopKeeps

(* With no call on the stack nothing is counted. *)
LEMMA NothingCounted ==
  ASSUME LoaderTypes, Counted, frames = <<>>
  PROVE  instantiations = 0 /\ steps_running = 0 /\ \A m \in Modules : active_calls[m] = 0
<1>1. Len(frames) = 0 /\ 1..Len(frames) = {}
  OBVIOUS
<1>2. Linking = {} /\ Stepping = {} /\ \A m \in Modules : Using(m) = {}
  BY <1>1 DEF Linking, Stepping, Using
<1>3. Cardinality({}) = 0
  BY FS_EmptySet
<1>. QED BY <1>2, <1>3 DEF Counted

(* The env frees every record. *)
LEMMA TeardownKeeps ==
  ASSUME LoaderInv, Teardown
  PROVE  LoaderInv'
<1>1. LoaderTypes /\ StackInv /\ Counted
  BY DEF LoaderInv
<1>2. /\ frames = <<>>
      /\ life' = [m \in Modules |-> "gone"] /\ links' = [m \in Modules |-> <<>>]
      /\ UNCHANGED <<engine, synthetic, requests, edges, status, instantiations,
                     steps_running, active_calls, frames, aborted, severed>>
  BY DEF Teardown
<1>3. LoaderTypes'
  <2>1. life' \in [Modules -> {"none", "live", "dying", "gone"}]
    BY <1>2
  <2>2. links' \in [Modules -> Seq(Modules \cup {NoModule})]
    BY <1>2
  <2>. QED BY <2>1, <2>2, <1>1, <1>2 DEF LoaderTypes
<1>4. StackInv'
  <2>1. EdgesKept /\ OwnedKept
    BY <1>2 DEF EdgesKept, OwnedKept
  <2>. QED BY <2>1, <1>1, <1>2, StackSame
<1>5. Counted'
  BY <1>1, <1>2, Stays, CountedSame
<1>6. RecordsKept' /\ FramesMade'
  <2>1. \A m \in Modules : active_calls'[m] = 0 /\ life'[m] = "gone"
    BY <1>1, <1>2, NothingCounted
  <2>2. 1..Len(frames') = {}
    BY <1>2
  <2>. QED BY <2>1, <2>2 DEF RecordsKept, FramesMade
<1>7. LinksMade' /\ RequestsLinked'
  <2>1. \A m \in Modules : links'[m] = <<>> /\ life'[m] = "gone" /\ Range(links'[m]) = {}
    BY <1>2 DEF Range
  <2>. QED BY <2>1, <1>2 DEF LoaderInv, LinksMade, RequestsLinked, LoaderTypes
<1>. QED BY <1>3, <1>4, <1>5, <1>6, <1>7 DEF LoaderInv

(* No record, no call at first. *)
LEMMA LoaderStarts ==
  ASSUME LoaderInit
  PROVE  LoaderInv
<1>1. frames = <<>> /\ 1..Len(frames) = {}
  BY DEF LoaderInit
<1>2. LoaderTypes
  <2>1. links \in [Modules -> Seq(Modules \cup {NoModule})] /\ edges \in [Modules -> Seq(Modules)]
    BY DEF LoaderInit
  <2>2. frames \in Seq(LoaderFrames)
    BY <1>1
  <2>3. requests \in [Modules -> 0..MaxRequests]
    <3>1. 0 \in 0..MaxRequests
      BY BoundsAssumption
    <3>. QED BY <3>1 DEF LoaderInit
  <2>. QED BY <2>1, <2>2, <2>3, ModulesAssumption, BoundsAssumption
              DEF LoaderInit, LoaderTypes, Statuses
<1>3. StackInv
  <2>1. FramesNest /\ Apart /\ EvaluationsConnected
    BY <1>1 DEF FramesNest, Apart, EvaluationsConnected
  <2>2. StatusOwned
    BY <1>1 DEF StatusOwned, LoaderInit
  <2>. QED BY <2>1, <2>2 DEF StackInv
<1>4. Counted
  <2>1. Linking = {} /\ Stepping = {} /\ \A m \in Modules : Using(m) = {}
    BY <1>1 DEF Linking, Stepping, Using
  <2>2. Cardinality({}) = 0
    BY FS_EmptySet
  <2>3. instantiations = 0 /\ steps_running = 0 /\ \A m \in Modules : active_calls[m] = 0
    BY DEF LoaderInit
  <2>4. /\ Cardinality(Linking) = 0 /\ Cardinality(Stepping) = 0
        /\ \A m \in Modules : Cardinality(Using(m)) = 0
    BY <2>1, <2>2
  <2>. QED BY <2>3, <2>4 DEF Counted
<1>5. RecordsKept /\ FramesMade
  BY <1>1 DEF RecordsKept, FramesMade, LoaderInit
<1>6. LinksMade /\ RequestsLinked
  <2>1. \A m \in Modules : links[m] = <<>> /\ edges[m] = <<>> /\ Range(links[m]) = {}
                           /\ Range(edges[m]) = {}
    BY DEF Range, LoaderInit
  <2>. QED BY <2>1 DEF LinksMade, RequestsLinked, LoaderInit
<1>. QED BY <1>2, <1>3, <1>4, <1>5, <1>6 DEF LoaderInv

(* Nothing happens. *)
LEMMA LoaderStutters ==
  ASSUME LoaderInv, UNCHANGED loaderVars
  PROVE  LoaderInv'
BY AbortKeeps DEF loaderVars, LoaderInv, LoaderTypes

(* Every step keeps the invariant. *)
LEMMA LoaderKeeps ==
  ASSUME LoaderInv, [LoaderNext]_loaderVars
  PROVE  LoaderInv'
<1>1. ASSUME NEW m \in Modules, NEW n \in 0..MaxRequests, CreateSourceTextModule(m, n)
      PROVE  LoaderInv'
  BY <1>1, NewRecordKeeps DEF CreateSourceTextModule
<1>2. ASSUME NEW m \in Modules, CreateSyntheticModule(m)
      PROVE  LoaderInv'
  <2>1. 0 \in 0..MaxRequests
    BY DEF LoaderInv, LoaderTypes
  <2>. QED BY <1>2, <2>1, NewRecordKeeps DEF CreateSyntheticModule
<1>3. ASSUME NEW m \in Modules, NEW to, Link(m, to)
      PROVE  LoaderInv'
  BY <1>3, LinkKeeps
<1>4. ASSUME NEW m \in Modules, Instantiate(m) \/ Evaluate(m) \/ CreateRequiredModuleFacade(m)
      PROVE  LoaderInv'
  BY <1>4, InstantiateKeeps, EvaluateKeeps DEF CreateRequiredModuleFacade
<1>5. ASSUME NEW m \in Modules, Destroy(m)
      PROVE  LoaderInv'
  BY <1>5, DestroyKeeps
<1>6. ASSUME NEW threw \in BOOLEAN, ScriptEnds(threw)
      PROVE  LoaderInv'
  BY <1>6, ScriptEndsKeeps
<1>7. CASE LinkFailed \/ Import \/ RunBody \/ Finish \/ Fail \/ Teardown
  BY <1>7, LinkFailedKeeps, ImportKeeps, RunBodyKeeps, FinishKeeps, FailKeeps, TeardownKeeps
<1>8. CASE UNCHANGED loaderVars
  BY <1>8, LoaderStutters
<1>. QED BY <1>1, <1>2, <1>3, <1>4, <1>5, <1>6, <1>7, <1>8 DEF LoaderNext

(* The invariant of the loader holds in every state: how the frames nest, which
   frame has which module in hand, what the counters count, which records are there. *)
THEOREM LoaderInvariant ==
  LoaderSpec => []LoaderInv
<1>1. LoaderInit => LoaderInv
  BY LoaderStarts
<1>2. LoaderInv /\ [LoaderNext]_loaderVars => LoaderInv'
  BY LoaderKeeps
<1>. QED BY <1>1, <1>2, PTL DEF LoaderSpec

(* The variables of the loader hold values of their types, and no two
   instantiations are ever counted at once (InstantiationScope, links_running_). *)
THEOREM LoaderTypeCorrect ==
  LoaderSpec => []LoaderTypeOK
<1>1. LoaderInv => LoaderTypeOK
  <2>. SUFFICES ASSUME LoaderInv PROVE LoaderTypeOK
    OBVIOUS
  <2>1. LoaderTypes /\ Counted
    BY DEF LoaderInv
  <2>2. \A m \in Modules : /\ Range(links[m]) \subseteq Modules \cup {NoModule}
                           /\ Range(edges[m]) \subseteq Modules \cup {NoModule}
    BY <2>1 DEF LoaderTypes, Range
  <2>3. instantiations \in 0..1
    BY <2>1 DEF LoaderTypes, Counted
  <2>. QED BY <2>1, <2>2, <2>3 DEF LoaderTypeOK, LoaderTypes, Statuses
<1>. QED BY <1>1, LoaderInvariant, PTL

(* CallsLeaveNothing, for any number of modules and nested scripts: record_scope
   keeps the record of every call on QuickJS's stack, and when the last call is
   gone no guard is left shut, no module half done and no record left to free. *)
THEOREM CallsGone ==
  LoaderSpec => []CallsLeaveNothing
<1>1. LoaderInv => CallsLeaveNothing
  <2>. SUFFICES ASSUME LoaderInv PROVE CallsLeaveNothing
    OBVIOUS
  <2>1. LoaderTypes /\ StackInv /\ Counted /\ RecordsKept
    BY DEF LoaderInv
  <2>2. ASSUME NEW i \in DOMAIN frames,
               engine = "quickjs", frames[i].at # "script" \/ frames[i].of \in synthetic
        PROVE  frames[i].of \in Known
    <3>1. i \in 1..Len(frames) /\ frames[i] \in LoaderFrames
      BY <2>1 DEF LoaderTypes
    <3>2. PICK m : m = frames[i].of
      OBVIOUS
    <3>3. m \in Modules /\ Uses(frames[i], m)
      BY <2>2, <3>1, <3>2, FrameParts DEF Uses
    <3>4. active_calls[m] # 0
      BY <2>1, <3>1, <3>3, InUse
    <3>. QED BY <2>1, <3>2, <3>3, <3>4 DEF RecordsKept
  <2>3. ASSUME frames = <<>>
        PROVE  /\ instantiations = 0 /\ steps_running = 0
               /\ InStatus({"linking", "evaluating"}) = {}
               /\ \A m \in Modules : active_calls[m] = 0 /\ life[m] # "dying"
    <3>1. instantiations = 0 /\ steps_running = 0 /\ \A m \in Modules : active_calls[m] = 0
      BY <2>1, <2>3, NothingCounted
    <3>2. 1..Len(frames) = {}
      BY <2>3
    <3>3. \A m \in Modules : status[m] # "linking" /\ status[m] # "evaluating"
      BY <2>1, <3>2 DEF StackInv, StatusOwned
    <3>4. InStatus({"linking", "evaluating"}) = {}
      BY <3>3 DEF InStatus
    <3>. QED BY <2>1, <3>1, <3>4 DEF RecordsKept
  <2>. QED BY <2>2, <2>3 DEF CallsLeaveNothing
<1>. QED BY <1>1, LoaderInvariant, PTL

(* What a step may make of a module's status. *)
Forward == \A m \in Modules : \/ Rank(status'[m]) >= Rank(status[m])
                              \/ status[m] = "linking" /\ status'[m] = "unlinked"

(* The order of the statuses. *)
LEMMA Ranks ==
  /\ Rank("unlinked") = 0 /\ Rank("linking") = 1 /\ Rank("linked") = 2
  /\ Rank("evaluating") = 3 /\ Rank("evaluated") = 4 /\ Rank("errored") = 4
  /\ \A s \in Statuses : Rank(s) \in 0..4
BY DEF Rank, Statuses

(* Moves that go forward, or take a failed link back. *)
LEMMA StatusMoves ==
  ASSUME LoaderTypes, status' \in [Modules -> Statuses],
         \A m \in Modules :
           \/ status'[m] = status[m]
           \/ status[m] = "unlinked"
           \/ status[m] = "linking" /\ status'[m] # "unlinked"
           \/ status[m] = "linking" /\ status'[m] = "unlinked"
           \/ status[m] = "linked" /\ status'[m] \in {"linked", "evaluating", "evaluated", "errored"}
           \/ status[m] = "evaluating" /\ status'[m] \in {"evaluated", "errored"}
  PROVE  Forward
<1>. SUFFICES ASSUME NEW m \in Modules
              PROVE  \/ Rank(status'[m]) >= Rank(status[m])
                     \/ status[m] = "linking" /\ status'[m] = "unlinked"
  BY DEF Forward
<1>1. PICK s, t : s = status[m] /\ t = status'[m]
  OBVIOUS
<1>2. s \in Statuses /\ t \in Statuses
  BY <1>1 DEF LoaderTypes
<1>3. Rank(s) \in 0..4 /\ Rank(t) \in 0..4
  BY <1>2, Ranks
<1>4. \/ t = s
      \/ s = "unlinked"
      \/ s = "linking" /\ t # "unlinked"
      \/ s = "linking" /\ t = "unlinked"
      \/ s = "linked" /\ t \in {"linked", "evaluating", "evaluated", "errored"}
      \/ s = "evaluating" /\ t \in {"evaluated", "errored"}
  BY <1>1
<1>5. PICK a, b : a = Rank(s) /\ b = Rank(t)
  OBVIOUS
<1>6. CASE t = s \/ s = "unlinked"
  <2>1. a = b \/ a = 0
    BY <1>5, <1>6, Ranks
  <2>2. a \in 0..4 /\ b \in 0..4
    BY <1>3, <1>5
  <2>3. b >= a
    BY <2>1, <2>2
  <2>. QED BY <2>3, <1>1, <1>5
<1>7. CASE s = "linking" /\ t # "unlinked"
  <2>1. a = 1 /\ b \in {1, 2, 3, 4}
    BY <1>2, <1>5, <1>7, Ranks DEF Statuses
  <2>2. b >= a
    BY <2>1
  <2>. QED BY <2>2, <1>1, <1>5
<1>8. CASE \/ s = "linked" /\ t \in {"linked", "evaluating", "evaluated", "errored"}
           \/ s = "evaluating" /\ t \in {"evaluated", "errored"}
  <2>1. \/ a = 2 /\ b \in {2, 3, 4}
        \/ a = 3 /\ b = 4
    BY <1>5, <1>8, Ranks
  <2>2. b >= a
    BY <2>1
  <2>. QED BY <2>2, <1>1, <1>5
<1>. QED BY <1>1, <1>4, <1>6, <1>7, <1>8

(* What the steps on the stack make of the modules' statuses. *)
LEMMA LinkFailedMoves ==
  ASSUME LoaderInv, LinkFailed
  PROVE  \A x \in Modules : \/ status'[x] = status[x]
                            \/ status[x] = "linking" /\ status'[x] = "unlinked"
<1>1. LoaderTypes /\ StackInv
  BY DEF LoaderInv
<1>2. frames # <<>> /\ TopFrame.at = "link"
      /\ status' = [x \in Modules |-> IF x \in TopFrame.mods THEN "unlinked" ELSE status[x]]
  BY DEF LinkFailed
<1>3. TopFrame = frames[Len(frames)] /\ Len(frames) \in 1..Len(frames)
  BY <1>1, <1>2, TopFacts
<1>4. \A x \in TopFrame.mods : status[x] = "linking"
  BY <1>1, <1>2, <1>3 DEF StackInv, StatusOwned
<1>. QED BY <1>2, <1>4

(* An import starts on a linked module. *)
LEMMA ImportMoves ==
  ASSUME LoaderInv, Import
  PROVE  \A x \in Modules : \/ status'[x] = status[x]
                            \/ status[x] = "linked" /\ status'[x] = "evaluating"
<1>1. PICK d : d = edges[Here.mod][Here.next]
  OBVIOUS
<1>2. CASE status[d] = "linked" /\ status' = [status EXCEPT ![d] = "evaluating"]
  <2>1. \A x \in Modules : status'[x] = IF x = d THEN "evaluating" ELSE status[x]
    BY <1>2 DEF LoaderInv, LoaderTypes
  <2>. QED BY <1>2, <2>1
<1>. QED BY <1>1, <1>2 DEF Import

(* What an evaluation leaves was being evaluated. *)
LEMMA FinishMoves ==
  ASSUME LoaderInv, Finish \/ Fail
  PROVE  \A x \in Modules : \/ status'[x] = status[x]
                            \/ status[x] = "evaluating" /\ status'[x] \in {"evaluated", "errored"}
<1>1. LoaderTypes /\ StackInv /\ EvaluationOnTop
  BY DEF LoaderInv, Finish, Fail
<1>2. TopFrame = frames[Len(frames)] /\ Len(frames) \in 1..Len(frames) /\ TopFrame.at = "eval"
      /\ Here.mod \in OnPath(TopFrame) /\ TopFrame.path \in Seq(Visits)
  BY <1>1, TopFacts DEF EvaluationOnTop
<1>3. \A x \in InHand(TopFrame) : status[x] = "evaluating"
  BY <1>1, <1>2 DEF StackInv, StatusOwned
<1>4. CASE Finish
  <2>. DEFINE around == Reached(Here.mod, edges, InStatus({"evaluating"}))
              done == IF \E i \in DOMAIN Front(TopFrame.path) : Front(TopFrame.path)[i].mod \in around
                      THEN {} ELSE {Here.mod} \cup (TopFrame.mods \cap around)
  <2>1. status' = [x \in Modules |-> IF x \in done THEN "evaluated" ELSE status[x]]
    BY <1>4 DEF Finish
  <2>2. done \subseteq TopFrame.mods \cup {Here.mod}
    OBVIOUS
  <2>. HIDE DEF done
  <2>3. \A x \in done : status[x] = "evaluating"
    BY <1>2, <1>3, <2>2 DEF InHand
  <2>. QED BY <2>1, <2>3
<1>5. CASE Fail
  <2>1. TopFrame.mods \cup {TopFrame.path[i].mod : i \in DOMAIN TopFrame.path} = InHand(TopFrame)
    <3>1. DOMAIN TopFrame.path = 1..Len(TopFrame.path)
      BY <1>2
    <3>. QED BY <3>1 DEF InHand, OnPath
  <2>2. status' = [x \in Modules |-> IF x \in InHand(TopFrame) THEN "errored" ELSE status[x]]
    BY <1>5, <2>1 DEF Fail
  <2>. QED BY <1>3, <2>2
<1>. QED BY <1>4, <1>5

(* NeverBack, for any number of modules: whatever script runs inside a link or an
   evaluation, only a link that fails takes a module back. *)
THEOREM NoModuleGoesBack ==
  LoaderSpec => NeverBack
<1>1. ASSUME LoaderInv, [LoaderNext]_loaderVars
      PROVE  Forward
  <2>1. LoaderTypes /\ StackInv /\ LoaderTypes'
    BY <1>1, LoaderKeeps DEF LoaderInv
  <2>2. status' \in [Modules -> Statuses]
    BY <2>1 DEF LoaderTypes
  <2>3. CASE status' = status
    BY <2>1, <2>2, <2>3, StatusMoves
  <2>4. ASSUME NEW m \in Modules, Instantiate(m) \/ Evaluate(m) \/ CreateRequiredModuleFacade(m),
               status' # status
        PROVE  Forward
    <3>1. \A x \in ToLink(m) : status[x] = "unlinked"
      BY ToLinkFacts
    <3>2. CASE status' = [x \in Modules |-> IF x \in ToLink(m) THEN "linking" ELSE status[x]]
      BY <2>1, <2>2, <3>1, <3>2, StatusMoves
    <3>3. CASE status' = [x \in Modules |-> IF x \in ToLink(m) THEN "linked" ELSE status[x]]
      BY <2>1, <2>2, <3>1, <3>3, StatusMoves
    <3>4. CASE /\ status' = [x \in Modules |-> IF x = m THEN "evaluating"
                                ELSE IF x \in ToLink(m) THEN "linked" ELSE status[x]]
               /\ status[m] \in {"unlinked", "linking", "linked"}
      BY <2>1, <2>2, <3>1, <3>4, StatusMoves
    <3>. QED BY <2>4, <3>2, <3>3, <3>4
             DEF Instantiate, Evaluate, CreateRequiredModuleFacade, LinkFails, Abort
  <2>5. CASE LinkFailed
    BY <1>1, <2>1, <2>2, <2>5, LinkFailedMoves, StatusMoves
  <2>6. CASE Import
    BY <1>1, <2>1, <2>2, <2>6, ImportMoves, StatusMoves
  <2>7. CASE Finish \/ Fail
    BY <1>1, <2>1, <2>2, <2>7, FinishMoves, StatusMoves
  <2>8. CASE RunBody \/ Teardown \/ (\E threw \in BOOLEAN : ScriptEnds(threw))
    BY <2>3, <2>8 DEF RunBody, Teardown, ScriptEnds
  <2>9. CASE \E m \in Modules : \/ \E n \in 0..MaxRequests : CreateSourceTextModule(m, n)
                                \/ CreateSyntheticModule(m) \/ Destroy(m)
                                \/ \E to : Link(m, to)
    BY <2>3, <2>9 DEF CreateSourceTextModule, CreateSyntheticModule,
       NewRecord, Destroy, Link
  <2>. QED BY <1>1, <2>3, <2>4, <2>5, <2>6, <2>7, <2>8, <2>9 DEF LoaderNext, loaderVars
<1>2. LoaderInv /\ [LoaderNext]_loaderVars => [Forward]_loaderVars
  BY <1>1
<1>. QED BY <1>2, LoaderInvariant, PTL DEF LoaderSpec, NeverBack, Forward

-----------------------------------------------------------------------------
\* The engines' checks

(* A step that makes no module instantiated and resolves nothing. *)
SameGraph ==
  /\ edges' = edges
  /\ \A x \in Modules : status'[x] \in Instantiated <=> status[x] \in Instantiated

(* The imports stay instantiated. *)
LEMMA ImportsStay ==
  ASSUME ImportsInstantiated, SameGraph
  PROVE  ImportsInstantiated'
BY DEF ImportsInstantiated, SameGraph

(* What is linked with m: its imports are instantiated, or linked with it. *)
LEMMA ImportsLinked ==
  ASSUME LoaderInv, ImportsInstantiated, NEW m \in Modules, ~Unresolved(m), edges' = EdgesLinked(m),
         UNCHANGED <<engine, recordVars>>, instantiations = 0 \/ status[m] = "linked",
         \A x \in Modules : status'[x] \in Instantiated <=>
                              x \in ToLink(m) \/ status[x] \in Instantiated
  PROVE  ImportsInstantiated'
<1>1. LoaderTypes /\ StackInv /\ Counted
  BY DEF LoaderInv
<1>2. /\ edges' \in [Modules -> Seq(Modules)]
      /\ \A x \in Modules : x \notin ToLink(m) => edges'[x] = edges[x]
      /\ \A x \in ToLink(m) : edges'[x] = Resolved[x]
  BY LinkedEdges
<1>3. ASSUME NEW x \in Modules, NEW d \in Modules, d \in Range(edges'[x]),
             status'[x] \in Instantiated
      PROVE  status'[d] \in Instantiated
  <2>1. CASE x \in ToLink(m)
    <3>1. x \in Reached(m, Resolved, InStatus({"unlinked"})) /\ x \in InStatus({"unlinked"})
      BY <2>1 DEF ToLink
    <3>2. d \in Range(Resolved[x])
      BY <1>2, <1>3, <2>1
    <3>3. d \in Reached(m, Resolved, InStatus({"unlinked"}))
      BY <3>1, <3>2, ReachedStep
    <3>4. status[d] = "unlinked" => d \in ToLink(m)
      BY <3>3 DEF ToLink, InStatus
    <3>5. status[d] # "linking"
      <4>1. ToLink(m) # {} => status[m] = "unlinked"
        BY ToLinkFacts
      <4>2. instantiations = 0
        BY <4>1, <2>1
      <4>. QED BY <4>2, <1>1, NoneLinking
    <3>6. status[d] \in Statuses
      BY <1>1 DEF LoaderTypes
    <3>. QED BY <3>4, <3>5, <3>6 DEF Statuses, Instantiated
  <2>2. CASE x \notin ToLink(m)
    BY <1>2, <1>3, <2>2 DEF ImportsInstantiated
  <2>. QED BY <2>1, <2>2
<1>. QED BY <1>3 DEF ImportsInstantiated

(* What links lead to is known, and so is all a known module leads to. *)
LEMMA ReachedKnown ==
  ASSUME LinksMade, NEW m \in Known, NEW S
  PROVE  Reached(m, links, S) \subseteq Known
<1>1. m \in Modules /\ Known \in SUBSET Modules
  BY DEF Known
<1>2. Closed(Known, links, S)
  BY <1>1 DEF Closed, LinksMade
<1>. QED BY <1>1, <1>2, ReachedLeast

(* A step that frees at most one record. *)
RecordsEnd ==
  \/ UNCHANGED <<links, severed>> /\ \A x \in Modules : Gone(x)' <=> Gone(x)
  \/ \E m \in Modules : FreeRecord(m)

(* What is left still shows what the engine has. *)
LEMMA RecordsShow ==
  ASSUME LoaderInv, RecordsShowEdges, RecordsEnd, engine' = engine, edges' = edges,
         engine = "quickjs" \/ SameGraph
  PROVE  RecordsShowEdges'
<1>1. CASE UNCHANGED <<links, severed>> /\ \A x \in Modules : Gone(x)' <=> Gone(x)
  <2>1. ASSUME ~severed, NEW x \in Modules, ~Gone(x)
        PROVE  /\ (engine' = "quickjs" \/ status'[x] \in Instantiated) => links'[x] = edges'[x]
               /\ \A d \in Range(edges'[x]) : ~Gone(d)'
    <3>1. /\ (engine = "quickjs" \/ status[x] \in Instantiated) => links[x] = edges[x]
          /\ \A d \in Range(edges[x]) : ~Gone(d)
      BY <2>1 DEF RecordsShowEdges
    <3>2. Range(edges[x]) \subseteq Modules
      BY DEF LoaderInv, LoaderTypes, Range
    <3>3. (engine' = "quickjs" \/ status'[x] \in Instantiated)
            => engine = "quickjs" \/ status[x] \in Instantiated
      BY DEF SameGraph
    <3>. QED BY <1>1, <3>1, <3>2, <3>3
  <2>. QED BY <1>1, <2>1 DEF RecordsShowEdges
<1>2. ASSUME NEW m \in Modules, FreeRecord(m)
      PROVE  RecordsShowEdges'
  <2>1. LoaderTypes
    BY DEF LoaderInv
  <2>2. /\ \A x \in Modules : life'[x] = IF x = m THEN "gone" ELSE life[x]
        /\ \A x \in Modules : x # m /\ m \notin Range(links[x]) => links'[x] = links[x]
        /\ severed => severed'
        /\ ~severed' => \A x \in Modules \ {m} : m \notin Range(edges[x])
    BY <1>2, <2>1, Freed
  <2>3. ASSUME ~severed', NEW x \in Modules, ~Gone(x)'
        PROVE  /\ (engine' = "quickjs" \/ status'[x] \in Instantiated) => links'[x] = edges'[x]
               /\ \A d \in Range(edges'[x]) : ~Gone(d)'
    <3>1. x # m /\ ~Gone(x) /\ ~severed /\ m \notin Range(edges[x])
      BY <2>2, <2>3 DEF Gone
    <3>2. /\ (engine = "quickjs" \/ status[x] \in Instantiated) => links[x] = edges[x]
          /\ \A d \in Range(edges[x]) : ~Gone(d)
      BY <3>1 DEF RecordsShowEdges
    <3>3. Range(edges[x]) \subseteq Modules
      BY <2>1 DEF LoaderTypes, Range
    <3>4. \A d \in Range(edges'[x]) : ~Gone(d)'
      BY <2>2, <3>1, <3>2, <3>3 DEF Gone
    <3>5. (engine' = "quickjs" \/ status'[x] \in Instantiated)
            => engine = "quickjs" \/ status[x] \in Instantiated
      BY DEF SameGraph
    <3>. QED BY <2>2, <3>1, <3>2, <3>4, <3>5
  <2>. QED BY <2>3 DEF RecordsShowEdges
<1>. QED BY <1>1, <1>2 DEF RecordsEnd

(* What is linked shows what the engine resolved. *)
LEMMA RecordsLinked ==
  ASSUME LoaderInv, RecordsShowEdges, NEW m \in Modules, ~Unresolved(m), edges' = EdgesLinked(m),
         UNCHANGED <<engine, recordVars, severed>>,
         \A x \in Modules : status'[x] \in Instantiated <=>
                              x \in ToLink(m) \/ status[x] \in Instantiated
  PROVE  RecordsShowEdges'
<1>1. LoaderTypes /\ LinksMade
  BY DEF LoaderInv
<1>2. /\ \A x \in Modules : x \notin ToLink(m) => edges'[x] = edges[x]
      /\ \A x \in ToLink(m) : edges'[x] = Resolved[x]
  BY LinkedEdges
<1>3. life' = life /\ links' = links /\ engine' = engine /\ severed' = severed
  BY DEF recordVars
<1>4. CASE engine = "quickjs"
  BY <1>3, <1>4 DEF RecordsShowEdges, Gone, EdgesLinked
<1>5. CASE engine # "quickjs"
  <2>1. engine = "v8"
    BY <1>1, <1>5 DEF LoaderTypes
  <2>2. ASSUME ~severed, NEW x \in Modules, ~Gone(x)
        PROVE  /\ status'[x] \in Instantiated => links[x] = edges'[x]
               /\ \A d \in Range(edges'[x]) : ~Gone(d)
    <3>1. CASE x \in ToLink(m)
      <4>1. edges'[x] = links[x]
        BY <1>2, <2>1, <3>1 DEF Resolved
      <4>2. ToLink(m) \subseteq Modules /\ edges' \in [Modules -> Seq(Modules)]
        BY ToLinkFacts, LinkedEdges
      <4>3. Range(edges'[x]) \subseteq Modules
        BY <4>2 DEF Range
      <4>. QED BY <1>1, <4>1, <4>3 DEF LinksMade, Known, Gone
    <3>2. CASE x \notin ToLink(m)
      BY <1>2, <2>2, <3>2 DEF RecordsShowEdges
    <3>. QED BY <3>1, <3>2
  <2>. QED BY <1>3, <1>5, <2>2 DEF RecordsShowEdges, Gone
<1>. QED BY <1>4, <1>5

(* A step that resolves nothing anew and links nothing again that is
   instantiated takes nothing into what an evaluation still meets. *)
GraphFixed ==
  /\ \A x \in Modules : status[x] \in Instantiated => edges'[x] = edges[x]
  /\ \A x \in Modules : status'[x] = "linked" /\ status[x] \in Instantiated => status[x] = "linked"

(* Nothing comes into what an evaluation still meets. *)
LEMMA AheadKept ==
  ASSUME ImportsInstantiated, GraphFixed, NEW p \in Modules, status[p] \in Instantiated
  PROVE  Ahead(p)' \subseteq Ahead(p)
<1>1. PICK S, A, S2 : /\ S = {p} \cup InStatus({"linked"}) /\ A = Reached(p, edges, S)
                      /\ S2 = {p} \cup InStatus({"linked"})'
  OBVIOUS
<1>2. p \in A /\ A \subseteq Modules /\ Closed(A, edges, S)
  BY <1>1, ReachedLeast
<1>3. PICK I : I = {x \in A : status[x] \in Instantiated}
  OBVIOUS
<1>4. I \in SUBSET Modules /\ p \in I
  BY <1>2, <1>3
<1>5. Closed(I, edges, S)
  <2>1. ASSUME NEW x \in I \cap S, NEW d \in Range(edges[x]) \cap Modules
        PROVE  d \in I
    <3>1. x \in A \cap S /\ status[x] \in Instantiated /\ x \in Modules
      BY <1>3, <1>4
    <3>2. d \in A
      BY <1>2, <3>1 DEF Closed
    <3>3. status[d] \in Instantiated
      BY <3>1 DEF ImportsInstantiated
    <3>. QED BY <1>3, <3>2, <3>3
  <2>. QED BY <2>1 DEF Closed
<1>6. A \subseteq I
  BY <1>1, <1>4, <1>5, ReachedLeast
<1>7. Closed(A, edges', S2)
  <2>1. ASSUME NEW x \in A \cap S2
        PROVE  Range(edges'[x]) \cap Modules \subseteq A
    <3>1. x \in Modules /\ status[x] \in Instantiated
      BY <1>2, <1>3, <1>6
    <3>2. x \in S
      <4>1. CASE x = p
        BY <1>1, <4>1
      <4>2. CASE x \in InStatus({"linked"})'
        <5>1. status'[x] = "linked"
          BY <4>2 DEF InStatus
        <5>2. status[x] = "linked"
          BY <5>1, <3>1 DEF GraphFixed
        <5>. QED BY <5>2, <3>1, <1>1 DEF InStatus
      <4>. QED BY <4>1, <4>2, <1>1
    <3>3. edges'[x] = edges[x]
      BY <3>1 DEF GraphFixed
    <3>. QED BY <1>2, <3>2, <3>3 DEF Closed
  <2>. QED BY <2>1 DEF Closed
<1>8. Reached(p, edges', S2) \subseteq A
  BY <1>2, <1>7, ReachedLeast
<1>9. Ahead(p) = A
  BY <1>1 DEF Ahead
<1>10. Ahead(p)' = Reached(p, edges', S2)
  BY <1>1 DEF Ahead, Reached, Closed
<1>. QED BY <1>8, <1>9, <1>10

(* The steps that run below the frames stay out of what these meet. *)
NoneMet(k, p) ==
  engine = "v8" /\ ~severed =>
    \A j \in 1..k : frames[j].at = "script" /\ frames[j].of \in synthetic
                      => frames[j].of \notin Ahead(p)

(* The lower frames' part. *)
LEMMA StepsKept ==
  ASSUME LoaderInv, ImportsInstantiated, StepsNotAhead, GraphFixed, engine' = engine,
         severed => severed', NEW k, SameUpTo(k),
         \A i \in 1..Len(frames) : frames[i].of \in synthetic' <=> frames[i].of \in synthetic,
         NEW i \in 1..Len(frames), frames[i].at = "eval", NEW p \in OnPath(frames[i]),
         engine' = "v8", ~severed',
         NEW j \in 1..k, j < i, frames'[j].at = "script", frames'[j].of \in synthetic'
  PROVE  frames'[j].of \notin Ahead(p)'
<1>1. LoaderTypes /\ StackInv
  BY DEF LoaderInv
<1>2. j \in 1..Len(frames) /\ frames'[j] = frames[j]
  BY <1>1 DEF SameUpTo, LoaderTypes
<1>3. frames[j].of \notin Ahead(p)
  BY <1>2 DEF StepsNotAhead
<1>4. p \in Modules /\ status[p] = "evaluating"
  <2>1. p \in InHand(frames[i])
    BY DEF InHand
  <2>2. InHand(frames[i]) \subseteq Modules
    BY <1>1, Hands DEF StackInv
  <2>3. status[p] = "evaluating"
    BY <2>1, <1>1 DEF StackInv, StatusOwned
  <2>. QED BY <2>1, <2>2, <2>3
<1>5. Ahead(p)' \subseteq Ahead(p)
  BY <1>4, AheadKept DEF Instantiated
<1>. QED BY <1>2, <1>3, <1>5

(* Frames go. *)
LEMMA StepsTo ==
  ASSUME LoaderInv, ImportsInstantiated, StepsNotAhead, GraphFixed, engine' = engine,
         severed => severed', NEW k, CutTo(k),
         \A i \in 1..Len(frames) : frames[i].of \in synthetic' <=> frames[i].of \in synthetic
  PROVE  StepsNotAhead'
<1>1. SameUpTo(k) /\ Len(frames') = k /\ k \in Nat /\ k <= Len(frames)
  BY DEF CutTo, SameUpTo
<1>2. Len(frames) \in Nat
  BY DEF LoaderInv, LoaderTypes
<1>3. ASSUME engine' = "v8", ~severed',
             NEW i \in 1..Len(frames'), NEW j \in 1..Len(frames'), j < i,
             frames'[j].at = "script", frames'[j].of \in synthetic', frames'[i].at = "eval",
             NEW p \in OnPath(frames'[i])
      PROVE  frames'[j].of \notin Ahead(p)'
  <2>1. i \in 1..Len(frames) /\ j \in 1..k /\ frames'[i] = frames[i]
    BY <1>1, <1>2 DEF SameUpTo
  <2>2. frames[i].at = "eval" /\ p \in OnPath(frames[i])
    BY <1>3, <2>1
  <2>. QED BY <1>1, <1>3, <2>1, <2>2, StepsKept
<1>. QED BY <1>3 DEF StepsNotAhead

(* A frame comes that meets no steps below it. *)
LEMMA StepsOn ==
  ASSUME LoaderInv, ImportsInstantiated, StepsNotAhead, GraphFixed, engine' = engine,
         severed => severed', NEW k, NEW g, PutOn(k, g), synthetic' = synthetic,
         g.at = "eval" =>
           \A p \in OnPath(g) :
             \/ k + 1 <= Len(frames) /\ frames[k + 1].at = "eval" /\ p \in OnPath(frames[k + 1])
             \/ NoneMet(k, p)'
  PROVE  StepsNotAhead'
<1>1. SameUpTo(k) /\ Len(frames') = k + 1 /\ frames'[k + 1] = g /\ k \in Nat /\ k <= Len(frames)
  BY DEF PutOn, SameUpTo
<1>2. Len(frames) \in Nat
  BY DEF LoaderInv, LoaderTypes
<1>3. \A i \in 1..Len(frames) : frames[i].of \in synthetic' <=> frames[i].of \in synthetic
  OBVIOUS
<1>4. ASSUME engine' = "v8", ~severed',
             NEW i \in 1..Len(frames'), NEW j \in 1..Len(frames'), j < i,
             frames'[j].at = "script", frames'[j].of \in synthetic', frames'[i].at = "eval",
             NEW p \in OnPath(frames'[i])
      PROVE  frames'[j].of \notin Ahead(p)'
  <2>1. j \in 1..k
    BY <1>1, <1>4
  <2>2. CASE i \in 1..k
    <3>1. i \in 1..Len(frames) /\ frames'[i] = frames[i]
      BY <1>1, <1>2, <2>2 DEF SameUpTo
    <3>2. frames[i].at = "eval" /\ p \in OnPath(frames[i])
      BY <1>4, <3>1
    <3>. QED BY <1>1, <1>3, <1>4, <2>1, <3>1, <3>2, StepsKept
  <2>3. CASE i = k + 1
    <3>1. g.at = "eval" /\ p \in OnPath(g)
      BY <1>1, <1>4, <2>3
    <3>2. CASE k + 1 <= Len(frames) /\ frames[k + 1].at = "eval" /\ p \in OnPath(frames[k + 1])
      <4>1. k + 1 \in 1..Len(frames) /\ j < k + 1
        BY <1>1, <1>2, <2>1, <3>2
      <4>. QED BY <1>1, <1>3, <1>4, <2>1, <3>2, <4>1, StepsKept
    <3>3. CASE NoneMet(k, p)'
      BY <1>4, <2>1, <3>3 DEF NoneMet
    <3>. QED BY <3>1, <3>2, <3>3
  <2>4. i \in 1..k \/ i = k + 1
    BY <1>1
  <2>. QED BY <2>2, <2>3, <2>4
<1>. QED BY <1>4 DEF StepsNotAhead

(* The graph's part of the invariant. *)
GraphKept == ImportsInstantiated /\ RecordsShowEdges /\ StepsNotAhead

(* A step in which a module moves, if at all, among the statuses before it is
   instantiated, or on from linked. *)
Moves ==
  \A x \in Modules :
    \/ status'[x] = status[x]
    \/ status[x] \notin Instantiated /\ status'[x] \notin Instantiated
    \/ status[x] \in Instantiated /\ status'[x] \in Instantiated \ {"linked"}

(* Such a step leaves the graph as it is. *)
LEMMA MovesSame ==
  ASSUME Moves, edges' = edges
  PROVE  SameGraph /\ GraphFixed
BY DEF Moves, SameGraph, GraphFixed, Instantiated

(* No step on the stack: the records' operations. *)
LEMMA CallGraph ==
  ASSUME LoaderInv, GraphKept, frames' = frames, status' = status, edges' = edges,
         engine' = engine, severed => severed', RecordsShowEdges',
         \A i \in 1..Len(frames) : frames[i].of \in synthetic' <=> frames[i].of \in synthetic
  PROVE  GraphKept'
<1>1. LoaderTypes
  BY DEF LoaderInv
<1>2. SameGraph /\ GraphFixed
  BY DEF SameGraph, GraphFixed
<1>3. ImportsInstantiated'
  BY <1>2, ImportsStay DEF GraphKept
<1>4. CutTo(Len(frames))
  BY <1>1, Stays
<1>5. StepsNotAhead'
  BY <1>2, <1>4, StepsTo DEF GraphKept
<1>. QED BY <1>3, <1>5 DEF GraphKept

(* A frame goes. *)
LEMMA PopGraph ==
  ASSUME LoaderInv, GraphKept, NEW k, CutTo(k), Moves, edges' = edges, engine' = engine,
         synthetic' = synthetic, RecordsEnd
  PROVE  GraphKept'
<1>1. SameGraph /\ GraphFixed
  BY MovesSame
<1>2. severed => severed'
  BY Freed DEF RecordsEnd, LoaderInv
<1>3. ImportsInstantiated'
  BY <1>1, ImportsStay DEF GraphKept
<1>4. RecordsShowEdges'
  BY <1>1, RecordsShow DEF GraphKept
<1>5. StepsNotAhead'
  BY <1>1, <1>2, StepsTo DEF GraphKept
<1>. QED BY <1>3, <1>4, <1>5 DEF GraphKept

(* A frame comes, or changes. *)
LEMMA PushGraph ==
  ASSUME LoaderInv, GraphKept, NEW k, NEW g, PutOn(k, g), Moves, edges' = edges,
         engine' = engine, synthetic' = synthetic, RecordsEnd,
         g.at = "eval" =>
           \A p \in OnPath(g) :
             \/ k + 1 <= Len(frames) /\ frames[k + 1].at = "eval" /\ p \in OnPath(frames[k + 1])
             \/ NoneMet(k, p)'
  PROVE  GraphKept'
<1>1. SameGraph /\ GraphFixed
  BY MovesSame
<1>2. severed => severed'
  BY Freed DEF RecordsEnd, LoaderInv
<1>3. ImportsInstantiated'
  BY <1>1, ImportsStay DEF GraphKept
<1>4. RecordsShowEdges'
  BY <1>1, RecordsShow DEF GraphKept
<1>5. StepsNotAhead'
  BY <1>1, <1>2, StepsOn DEF GraphKept
<1>. QED BY <1>3, <1>4, <1>5 DEF GraphKept

(* The end of a call frees at most its record. *)
LEMMA EndCallFrees ==
  ASSUME NEW m \in Modules, EndCall(m)
  PROVE  RecordsEnd
BY DEF EndCall, KeepRecords, RecordsEnd, Gone

(* A record is made. *)
LEMMA NewRecordGraph ==
  ASSUME LoaderInv, GraphKept, NEW m \in Modules, NEW n, NewRecord(m, n),
         synthetic' = synthetic \/ synthetic' = synthetic \cup {m}
  PROVE  GraphKept'
<1>1. LoaderTypes /\ FramesMade
  BY DEF LoaderInv
<1>2. /\ life[m] = "none" /\ life' = [life EXCEPT ![m] = "live"]
      /\ UNCHANGED <<engine, links, edges, status, frames, severed>>
  BY DEF NewRecord
<1>3. \A x \in Modules : Gone(x)' <=> Gone(x)
  BY <1>1, <1>2 DEF Gone, LoaderTypes
<1>4. RecordsEnd /\ SameGraph
  BY <1>2, <1>3 DEF RecordsEnd, SameGraph
<1>5. RecordsShowEdges'
  BY <1>2, <1>4, RecordsShow DEF GraphKept
<1>6. \A i \in 1..Len(frames) : frames[i].of \in synthetic' <=> frames[i].of \in synthetic
  BY <1>1, <1>2 DEF FramesMade
<1>. QED BY <1>2, <1>5, <1>6, CallGraph

(* A record is destroyed, or marked for it. *)
LEMMA DestroyGraph ==
  ASSUME LoaderInv, GraphKept, NEW m \in Modules, Destroy(m)
  PROVE  GraphKept'
<1>1. LoaderTypes
  BY DEF LoaderInv
<1>2. /\ m \in Live
      /\ UNCHANGED <<engine, synthetic, requests, edges, status, frames>>
  BY DEF Destroy
<1>3. RecordsEnd
  <2>1. CASE life' = [life EXCEPT ![m] = "dying"] /\ UNCHANGED <<links, severed>>
    BY <1>1, <1>2, <2>1 DEF RecordsEnd, Gone, LoaderTypes, Live
  <2>2. CASE FreeRecord(m)
    BY <2>2 DEF RecordsEnd
  <2>. QED BY <2>1, <2>2 DEF Destroy
<1>4. severed => severed'
  BY <1>1, <1>3, Freed DEF RecordsEnd
<1>5. SameGraph
  BY <1>2 DEF SameGraph
<1>6. RecordsShowEdges'
  BY <1>2, <1>3, <1>5, RecordsShow DEF GraphKept
<1>. QED BY <1>2, <1>4, <1>6, CallGraph

(* No record is left. *)
LEMMA TeardownGraph ==
  ASSUME LoaderInv, GraphKept, Teardown
  PROVE  GraphKept'
<1>1. UNCHANGED <<engine, synthetic, edges, status, frames, severed>>
      /\ life' = [m \in Modules |-> "gone"]
  BY DEF Teardown
<1>2. \A m \in Modules : Gone(m)'
  BY <1>1 DEF Gone
<1>3. RecordsShowEdges'
  BY <1>2 DEF RecordsShowEdges
<1>. QED BY <1>1, <1>3, CallGraph

(* A module that is linked again is not instantiated. *)
LEMMA LinkGraph ==
  ASSUME LoaderInv, GraphKept, NEW m \in Modules, NEW to, Link(m, to)
  PROVE  GraphKept'
<1>1. LoaderTypes
  BY DEF LoaderInv
<1>2. /\ UNCHANGED <<engine, life, synthetic, status, frames, severed>>
      /\ links' = [links EXCEPT ![m] = to]
      /\ edges' = IF engine = "quickjs" THEN [edges EXCEPT ![m] = to] ELSE edges
      /\ to \in [1..requests[m] -> Live]
  BY DEF Link
<1>3. status[m] \notin Instantiated
  BY DEF Link, NotInstantiated, Instantiated
<1>4. \A x \in Modules : x # m => links'[x] = links[x] /\ edges'[x] = edges[x]
  BY <1>1, <1>2 DEF LoaderTypes
<1>5. links'[m] = to /\ (engine = "quickjs" => edges'[m] = to) /\ (engine # "quickjs" => edges' = edges)
  BY <1>1, <1>2 DEF LoaderTypes
<1>6. Range(to) \subseteq Live
  BY <1>2 DEF Range
<1>7. ImportsInstantiated'
  BY <1>2, <1>3, <1>4 DEF GraphKept, ImportsInstantiated
<1>8. RecordsShowEdges'
  <2>1. ASSUME ~severed, NEW x \in Modules, ~Gone(x)
        PROVE  /\ (engine = "quickjs" \/ status[x] \in Instantiated) => links'[x] = edges'[x]
               /\ \A d \in Range(edges'[x]) : ~Gone(d)
    <3>1. /\ (engine = "quickjs" \/ status[x] \in Instantiated) => links[x] = edges[x]
          /\ \A d \in Range(edges[x]) : ~Gone(d)
      BY <2>1 DEF GraphKept, RecordsShowEdges
    <3>2. CASE x # m
      BY <1>4, <3>1, <3>2
    <3>3. CASE x = m /\ engine = "quickjs"
      BY <1>5, <1>6, <3>3 DEF Live, Gone
    <3>4. CASE x = m /\ engine # "quickjs"
      BY <1>3, <1>5, <3>1, <3>4
    <3>. QED BY <3>2, <3>3, <3>4
  <2>. QED BY <1>2, <2>1 DEF RecordsShowEdges, Gone
<1>9. GraphFixed
  BY <1>2, <1>3, <1>4 DEF GraphFixed
<1>10. CutTo(Len(frames))
  BY <1>1, <1>2, Stays
<1>11. StepsNotAhead'
  BY <1>2, <1>9, <1>10, StepsTo DEF GraphKept
<1>. QED BY <1>7, <1>8, <1>11 DEF GraphKept

(* The stack's steps. *)
LEMMA LinkFailsGraph ==
  ASSUME LoaderInv, GraphKept, MayCall, NEW m \in Modules, LinkFails(m),
         UNCHANGED <<engine, recordVars, severed>>
  PROVE  GraphKept'
<1>1. PICK g : g = LinkFrame(m, ToLink(m))
  OBVIOUS
<1>2. PutOn(Len(frames), g) /\ g.at # "eval"
  BY <1>1, LinkFailsStack DEF LoaderInv, LinkFrame
<1>3. Moves
  <2>1. \A x \in ToLink(m) : status[x] = "unlinked"
    BY ToLinkFacts
  <2>2. \A x \in Modules : status'[x] = IF x \in ToLink(m) THEN "linking" ELSE status[x]
    BY DEF LinkFails
  <2>. QED BY <2>1, <2>2 DEF Moves, Instantiated
<1>4. RecordsEnd /\ synthetic' = synthetic
  BY DEF RecordsEnd, recordVars, Gone
<1>5. edges' = edges
  BY DEF LinkFails
<1>. QED BY <1>2, <1>3, <1>4, <1>5, PushGraph

(* The error of a failed link is made. *)
LEMMA LinkFailedGraph ==
  ASSUME LoaderInv, GraphKept, LinkFailed
  PROVE  GraphKept'
<1>1. LoaderTypes /\ StackInv
  BY DEF LoaderInv
<1>2. CutTo(Len(frames) - 1)
  BY LinkFailedStack DEF LoaderInv
<1>3. Moves
  BY LinkFailedMoves DEF Moves, Instantiated
<1>4. TopFrame.of \in Modules
  <2>1. TopFrame \in LoaderFrames
    BY <1>1, TopFacts DEF LinkFailed
  <2>. QED BY <2>1, FrameParts
<1>5. RecordsEnd
  BY <1>4, EndCallFrees DEF LinkFailed
<1>. QED BY <1>2, <1>3, <1>5, PopGraph DEF LinkFailed

(* The running evaluation's frame changes, or has a script put on. *)
LEMMA TopGraph ==
  ASSUME LoaderInv, GraphKept, EvaluationOnTop, NEW g, PutOn(Len(frames) - 1, g),
         OnPath(g) \subseteq OnPath(TopFrame), Moves, edges' = edges,
         engine' = engine, synthetic' = synthetic, RecordsEnd
  PROVE  GraphKept'
<1>1. LoaderTypes /\ StackInv
  BY DEF LoaderInv
<1>2. Len(frames) \in 1..Len(frames) /\ TopFrame = frames[Len(frames)] /\ TopFrame.at = "eval"
  BY <1>1, TopFacts DEF EvaluationOnTop
<1>3. PICK k : k = Len(frames) - 1
  OBVIOUS
<1>4. PutOn(k, g) /\ k + 1 <= Len(frames) /\ frames[k + 1] = TopFrame
  BY <1>2, <1>3
<1>5. \A p \in OnPath(g) :
        k + 1 <= Len(frames) /\ frames[k + 1].at = "eval" /\ p \in OnPath(frames[k + 1])
  BY <1>2, <1>4
<1>. QED BY <1>4, <1>5, PushGraph

(* The engine goes on with the module it is at. *)
LEMMA GoOnGraph ==
  ASSUME LoaderInv, GraphKept, EvaluationOnTop, NEW v \in Visits, v.mod = Here.mod, GoOn(<<v>>),
         UNCHANGED <<engine, recordVars, edges, status, severed>>
  PROVE  GraphKept'
<1>1. PICK g \in LoaderFrames :
        /\ PutOn(Len(frames) - 1, g)
        /\ Len(g.path) = Len(TopFrame.path)
        /\ \A j \in 1..Len(g.path) : g.path[j].mod = TopFrame.path[j].mod
  BY GoOnFrame
<1>2. OnPath(g) \subseteq OnPath(TopFrame)
  BY <1>1 DEF OnPath
<1>3. Moves /\ RecordsEnd /\ synthetic' = synthetic
  BY DEF Moves, RecordsEnd, recordVars, Gone
<1>. QED BY <1>1, <1>2, <1>3, TopGraph

(* The engine is done with the module it is at. *)
LEMMA FinishGraph ==
  ASSUME LoaderInv, GraphKept, Finish
  PROVE  GraphKept'
<1>1. LoaderTypes /\ StackInv /\ EvaluationOnTop
  BY DEF LoaderInv, Finish
<1>2. UNCHANGED <<engine, synthetic, edges>>
  BY DEF Finish
<1>3. Moves
  BY FinishMoves DEF Moves, Instantiated
<1>4. TopFrame.of \in Modules
  <2>1. TopFrame \in LoaderFrames
    BY <1>1, TopFacts
  <2>. QED BY <2>1, FrameParts
<1>5. CASE CutTo(Len(frames) - 1) /\ EndCall(TopFrame.of)
  BY <1>2, <1>3, <1>4, <1>5, EndCallFrees, PopGraph
<1>6. ASSUME NEW g \in LoaderFrames, PutOn(Len(frames) - 1, g), OnPath(g) \subseteq OnPath(TopFrame),
             UNCHANGED <<active_calls, life, links, severed>>
      PROVE  GraphKept'
  <2>1. RecordsEnd
    BY <1>6 DEF RecordsEnd, Gone
  <2>. QED BY <2>1, <1>1, <1>2, <1>3, <1>6, TopGraph
<1>. QED BY <1>5, <1>6, FinishFrame

(* An evaluation fails. *)
LEMMA FailGraph ==
  ASSUME LoaderInv, GraphKept, Fail
  PROVE  GraphKept'
<1>1. LoaderTypes /\ StackInv /\ EvaluationOnTop
  BY DEF LoaderInv, Fail
<1>2. UNCHANGED <<engine, synthetic, edges>> /\ EndCall(TopFrame.of) /\ frames' = Front(frames)
  BY DEF Fail
<1>3. Moves
  BY FinishMoves DEF Moves, Instantiated
<1>4. TopFrame.of \in Modules /\ frames # <<>>
  <2>1. TopFrame \in LoaderFrames /\ frames # <<>>
    BY <1>1, TopFacts
  <2>. QED BY <2>1, FrameParts
<1>5. CutTo(Len(frames) - 1)
  BY <1>1, <1>2, <1>4, FramePopped DEF LoaderTypes
<1>6. RecordsEnd
  BY <1>2, <1>4, EndCallFrees
<1>. QED BY <1>2, <1>3, <1>5, <1>6, PopGraph

(* A body runs. *)
LEMMA RunBodyGraph ==
  ASSUME LoaderInv, GraphKept, RunBody
  PROVE  GraphKept'
<1>1. LoaderTypes /\ StackInv
  BY DEF LoaderInv
<1>2. EvaluationOnTop /\ UNCHANGED <<engine, recordVars, edges, status, severed>>
  BY DEF RunBody
<1>3. PICK m : m = Here.mod
  OBVIOUS
<1>4. m \in Modules
  BY <1>1, <1>2, <1>3, TopFacts, FrameParts
<1>5. CASE frames' = Append(frames, ScriptFrame(m))
  <2>1. PutOn(Len(frames), ScriptFrame(m))
    BY <1>1, <1>2, <1>3, <1>5, ScriptStack
  <2>2. ScriptFrame(m).at # "eval"
    BY DEF ScriptFrame
  <2>3. Moves /\ RecordsEnd /\ synthetic' = synthetic
    BY <1>2 DEF Moves, RecordsEnd, recordVars, Gone
  <2>. QED BY <2>1, <2>2, <2>3, <1>2, PushGraph
<1>6. CASE GoOn(<<Visit(m, Ended)>>)
  <2>1. Ended \in Nat
    <3>1. edges[m] \in Seq(Modules)
      BY <1>1, <1>4 DEF LoaderTypes
    <3>. QED BY <3>1, <1>3 DEF Ended, AllImports
  <2>2. Visit(m, Ended) \in Visits /\ Visit(m, Ended).mod = Here.mod
    BY <1>3, <1>4, <2>1 DEF Visit, Visits
  <2>. QED BY <1>2, <1>6, <2>2, GoOnGraph
<1>. QED BY <1>3, <1>5, <1>6 DEF RunBody

(* A script ends. *)
LEMMA ScriptEndsGraph ==
  ASSUME LoaderInv, GraphKept, NEW threw \in BOOLEAN, ScriptEnds(threw)
  PROVE  GraphKept'
<1>1. LoaderTypes /\ StackInv
  BY DEF LoaderInv
<1>2. UNCHANGED <<engine, synthetic, edges, status>>
  BY DEF ScriptEnds
<1>3. PICK k \in Nat, g \in LoaderFrames :
           /\ Len(frames) = k + 2 /\ TopFrame \in LoaderFrames /\ frames[k + 1].at = "eval"
           /\ PutOn(k, g) /\ Len(g.path) = Len(frames[k + 1].path)
           /\ \A j \in 1..Len(g.path) : g.path[j].mod = frames[k + 1].path[j].mod
  BY ScriptEndsFrames
<1>4. k + 1 <= Len(frames) /\ OnPath(g) \subseteq OnPath(frames[k + 1])
  BY SMTT(30), <1>3 DEF OnPath
<1>5. TopFrame.of \in Modules
  BY <1>3, FrameParts
<1>6. RecordsEnd
  <2>1. CASE TopFrame.of \in synthetic
    BY <1>5, <2>1, EndCallFrees DEF ScriptEnds
  <2>2. CASE TopFrame.of \notin synthetic
    <3>1. UNCHANGED <<life, links, severed>>
      BY <2>2 DEF ScriptEnds
    <3>. QED BY <3>1 DEF RecordsEnd, Gone
  <2>. QED BY <2>1, <2>2
<1>7. Moves
  BY <1>2 DEF Moves
<1>8. \A p \in OnPath(g) :
        k + 1 <= Len(frames) /\ frames[k + 1].at = "eval" /\ p \in OnPath(frames[k + 1])
  BY <1>3, <1>4
<1>. QED BY <1>2, <1>3, <1>6, <1>7, <1>8, PushGraph

(* What the import of h leads to, h led to. *)
LEMMA AheadOf ==
  ASSUME LoaderTypes, NEW h \in Modules, NEW d \in Modules, d \in Range(edges[h])
  PROVE  d \in Ahead(h)
<1>1. PICK S : S = {h} \cup InStatus({"linked"})
  OBVIOUS
<1>2. h \in Reached(h, edges, S) /\ h \in S
  BY <1>1, ReachedLeast
<1>3. d \in Reached(h, edges, S)
  BY <1>2, ReachedStep
<1>. QED BY <1>1, <1>3 DEF Ahead

(* What an import meets, its importer would have met. *)
LEMMA AheadImport ==
  ASSUME LoaderTypes, NEW h \in Modules, NEW d \in Modules, d \in Range(edges[h]),
         status[d] = "linked", status' = [status EXCEPT ![d] = "evaluating"], edges' = edges
  PROVE  Ahead(d)' \subseteq Ahead(h)
<1>1. PICK S, A, S2 : /\ S = {h} \cup InStatus({"linked"}) /\ A = Reached(h, edges, S)
                      /\ S2 = {d} \cup InStatus({"linked"})'
  OBVIOUS
<1>2. Ahead(h) = A /\ d \in A
  BY <1>1, AheadOf DEF Ahead
<1>3. A \in SUBSET Modules /\ Closed(A, edges, S)
  BY <1>1, ReachedLeast
<1>4. S2 \subseteq S
  <2>1. \A x \in Modules : status'[x] = "linked" => status[x] = "linked"
    BY DEF LoaderTypes
  <2>. QED BY <1>1, <2>1 DEF InStatus
<1>5. Closed(A, edges, S2)
  BY <1>3, <1>4 DEF Closed
<1>6. Reached(d, edges, S2) \subseteq A
  BY <1>2, <1>3, <1>5, ReachedLeast
<1>7. Ahead(d)' = Reached(d, edges', S2)
  BY <1>1 DEF Ahead, Reached, Closed
<1>. QED BY <1>2, <1>6, <1>7

(* An import is evaluated, passed over, or fails. *)
LEMMA ImportGraph ==
  ASSUME LoaderInv, GraphKept, Import
  PROVE  GraphKept'
<1>1. LoaderTypes /\ StackInv
  BY DEF LoaderInv
<1>2. EvaluationOnTop /\ Here.next \in 1..AllImports /\ UNCHANGED <<engine, recordVars, edges, severed>>
  BY DEF Import
<1>3. PICK d, v, h : d = edges[Here.mod][Here.next] /\ v = Visit(Here.mod, Here.next + 1)
                     /\ h = Here.mod
  OBVIOUS
<1>4. d \in Modules /\ d \in Range(edges[h]) /\ h \in Modules /\ Here.next \in Nat
  BY <1>2, <1>3, AtImport
<1>5. v \in Visits /\ v.mod = Here.mod
  BY <1>3, <1>4 DEF Visit, Visits
<1>6. CASE status[d] = "linked" /\ status' = [status EXCEPT ![d] = "evaluating"]
           /\ GoOn(<<v, Visit(d, 1)>>)
  <2>1. PICK g \in LoaderFrames : PutOn(Len(frames) - 1, g) /\ OnPath(g) = OnPath(TopFrame) \cup {d}
    BY <1>2, <1>3, <1>6, ImportFrame
  <2>2. Moves
    BY ImportMoves DEF Moves, Instantiated
  <2>3. RecordsEnd /\ synthetic' = synthetic /\ edges' = edges /\ engine' = engine
    BY <1>2 DEF RecordsEnd, recordVars, Gone
  <2>4. Len(frames) \in 1..Len(frames) /\ TopFrame = frames[Len(frames)] /\ TopFrame.at = "eval"
        /\ h \in OnPath(TopFrame)
    BY <1>1, <1>2, <1>3, TopFacts DEF EvaluationOnTop
  <2>5. PICK k : k = Len(frames) - 1
    OBVIOUS
  <2>6. PutOn(k, g) /\ k + 1 <= Len(frames) /\ frames[k + 1] = TopFrame /\ k \in Nat
    BY <2>1, <2>4, <2>5
  <2>7. NoneMet(k, d)'
    <3>1. Ahead(d)' \subseteq Ahead(h)
      BY <1>1, <1>4, <1>6, <2>3, AheadImport
    <3>2. ASSUME engine = "v8", ~severed, NEW j \in 1..k,
                 frames[j].at = "script", frames[j].of \in synthetic
          PROVE  frames[j].of \notin Ahead(h)
      <4>1. j \in 1..Len(frames) /\ j < Len(frames)
        BY <2>4, <2>5
      <4>. QED BY <2>4, <3>2, <4>1 DEF GraphKept, StepsNotAhead
    <3>3. \A j \in 1..k : frames'[j] = frames[j]
      BY <2>6 DEF PutOn, SameUpTo
    <3>4. severed' = severed
      BY <1>2
    <3>. QED BY <2>3, <3>1, <3>2, <3>3, <3>4 DEF NoneMet
  <2>8. \A p \in OnPath(g) :
          \/ k + 1 <= Len(frames) /\ frames[k + 1].at = "eval" /\ p \in OnPath(frames[k + 1])
          \/ NoneMet(k, p)'
    <3>1. \A p \in OnPath(g) : p \in OnPath(TopFrame) \/ p = d
      BY <2>1
    <3>2. ASSUME NEW p \in OnPath(g), p = d PROVE NoneMet(k, p)'
      BY <2>7, <3>2
    <3>. QED BY <2>4, <2>6, <3>1, <3>2
  <2>. QED BY <2>2, <2>3, <2>6, <2>8, PushGraph
<1>7. CASE GoOn(<<v>>) /\ UNCHANGED status
  BY <1>2, <1>5, <1>7, GoOnGraph
<1>8. CASE GoOn(<<Visit(Here.mod, Threw)>>) /\ UNCHANGED status
  <2>1. Visit(Here.mod, Threw) \in Visits /\ Visit(Here.mod, Threw).mod = Here.mod
    BY <1>3, <1>4 DEF Visit, Visits, Threw
  <2>. QED BY <2>1, <1>2, <1>8, GoOnGraph
<1>9. CASE UNCHANGED <<status, frames>>
  <2>1. RecordsShowEdges'
    BY <1>2, <1>9 DEF GraphKept, RecordsShowEdges, recordVars, Gone
  <2>2. synthetic' = synthetic
    BY <1>2 DEF recordVars
  <2>. QED BY <1>2, <1>9, <2>1, <2>2, CallGraph
<1>. QED BY <1>3, <1>6, <1>7, <1>8, <1>9 DEF Import

(* The engine aborts at an import only when a record was severed. *)
LEMMA ImportMayAbort ==
  ASSUME LoaderInv, GraphKept, Import, ~aborted, aborted'
  PROVE  severed
<1>. SUFFICES ASSUME ~severed PROVE FALSE
  OBVIOUS
<1>1. LoaderTypes /\ StackInv
  BY DEF LoaderInv
<1>2. EvaluationOnTop /\ Here.next \in 1..AllImports
  BY DEF Import
<1>3. PICK d, h, n : d = edges[Here.mod][Here.next] /\ h = Here.mod /\ n = Len(frames)
  OBVIOUS
<1>4. d \in Modules /\ d \in Range(edges[h]) /\ h \in Modules
  BY <1>2, <1>3, AtImport
<1>5. n \in 1..n /\ n \in Nat /\ TopFrame = frames[n] /\ TopFrame.at = "eval" /\ h \in OnPath(TopFrame)
      /\ TopFrame \in LoaderFrames
  BY <1>1, <1>2, <1>3, TopFacts DEF EvaluationOnTop
<1>6. status[h] = "evaluating"
  BY <1>1, <1>3, <1>5 DEF StackInv, StatusOwned, InHand
<1>7. status[d] \in Instantiated
  BY <1>4, <1>6 DEF GraphKept, ImportsInstantiated, Instantiated
<1>8. status[d] = "evaluating" /\ engine = "v8" /\ d \in synthetic
  BY <1>3, <1>7 DEF Import, Instantiated
<1>9. edges[d] = <<>> /\ Range(edges[d]) = {}
  <2>1. edges[d] = <<>>
    BY <1>4, <1>8 DEF LoaderInv, RequestsLinked
  <2>. QED BY <2>1 DEF Range
<1>10. h # d
  BY <1>4, <1>9
<1>11. PICK i \in 1..n : frames[i].at = "eval" /\ d \in InHand(frames[i])
  BY <1>1, <1>3, <1>4, <1>8 DEF StackInv, StatusOwned
<1>12. PICK f, H : f = frames[i] /\ H = HeldUpTo(i)
  OBVIOUS
<1>13. f \in LoaderFrames /\ f.at = "eval"
  BY <1>1, <1>3, <1>11, <1>12 DEF LoaderTypes
<1>14. f.path \in Seq(Visits) /\ f.path # <<>> /\ Len(f.path) \in Nat
       /\ (\A j \in 1..Len(f.path) : f.path[j].mod \in Modules) /\ OnPath(f) \subseteq Modules
  BY <1>1, <1>3, <1>11, <1>12, <1>13, FrameParts DEF StackInv, FramesNest
<1>15. Reached(d, edges, H) = {d}
  BY <1>4, <1>9, ReachedStays
<1>16. OnceIn(f) /\ PathReaches(i) /\ WaitersCycle(i)
  BY <1>1, <1>3, <1>11, <1>12 DEF StackInv, Apart, EvaluationsConnected
<1>17. d \in OnPath(f)
  <2>1. CASE d \in f.mods
    <3>1. PICK p \in OnPath(f) : p \in Reached(d, edges, H)
      BY <1>12, <1>16, <2>1 DEF WaitersCycle
    <3>. QED BY <1>15, <3>1
  <2>. QED BY <1>11, <1>12, <2>1 DEF InHand
<1>18. PICK l \in 1..Len(f.path) : f.path[l].mod = d
  BY <1>17 DEF OnPath
<1>19. l = Len(f.path)
  <2>1. CASE l < Len(f.path)
    <3>1. l + 1 \in 1..Len(f.path) /\ l <= l + 1 /\ l + 1 # l
      BY <1>14, <2>1
    <3>2. f.path[l + 1].mod \in Reached(d, edges, H)
      BY <1>12, <1>16, <1>18, <3>1 DEF PathReaches
    <3>3. f.path[l + 1].mod = f.path[l].mod
      BY <1>15, <1>18, <3>2
    <3>. QED BY <1>16, <3>1, <3>3 DEF OnceIn
  <2>. QED BY <1>14, <2>1
<1>20. Last(f.path).mod = d
  BY <1>14, <1>18, <1>19, FrontOf
<1>21. i # n
  BY <1>3, <1>5, <1>10, <1>12, <1>20 DEF Here
<1>22. i + 1 \in 1..n /\ i + 1 > 1 /\ i + 1 - 1 = i /\ i < n
  BY <1>5, <1>21
<1>23. frames[i + 1].at = "script" /\ frames[i + 1].of = d
  BY <1>1, <1>3, <1>11, <1>12, <1>20, <1>22 DEF StackInv, FramesNest
<1>24. i + 1 # n /\ i + 1 < n
  BY <1>5, <1>22, <1>23
<1>25. d \notin Ahead(h)
  BY <1>3, <1>5, <1>8, <1>22, <1>23, <1>24 DEF GraphKept, StepsNotAhead
<1>. QED BY <1>1, <1>4, <1>25, AheadOf

(* What a link makes of the modules, with the one it may start to evaluate. *)
LEMMA LinkedGraph ==
  ASSUME LoaderInv, GraphKept, NEW m \in Modules, ~Unresolved(m), edges' = EdgesLinked(m),
         UNCHANGED <<engine, recordVars, severed>>, instantiations = 0 \/ status[m] = "linked",
         \A x \in Modules : \/ x = m /\ status[m] \in {"unlinked", "linked"}
                               /\ status'[x] \in {"linked", "evaluating"}
                            \/ x \in ToLink(m) /\ status'[x] = "linked"
                            \/ x \notin ToLink(m) /\ status'[x] = status[x],
         status[m] = "linked" => status'[m] # "unlinked"
  PROVE  ImportsInstantiated' /\ RecordsShowEdges' /\ GraphFixed
<1>1. LoaderTypes
  BY DEF LoaderInv
<1>2. \A x \in ToLink(m) : status[x] = "unlinked"
  BY ToLinkFacts
<1>3. status[m] = "unlinked" => m \in ToLink(m)
  BY ToLinkFacts
<1>4. \A x \in Modules : status'[x] \in Instantiated <=>
                           x \in ToLink(m) \/ status[x] \in Instantiated
  BY <1>2, <1>3 DEF Instantiated
<1>5. ImportsInstantiated' /\ RecordsShowEdges'
  BY <1>4, ImportsLinked, RecordsLinked DEF GraphKept
<1>6. \A x \in Modules : x \notin ToLink(m) => edges'[x] = edges[x]
  BY LinkedEdges
<1>7. GraphFixed
  <2>1. \A x \in Modules : status[x] \in Instantiated => x \notin ToLink(m)
    BY <1>2 DEF Instantiated
  <2>2. \A x \in Modules : status'[x] = "linked" /\ status[x] \in Instantiated => status[x] = "linked"
    BY <2>1 DEF Instantiated
  <2>. QED BY <1>6, <2>1, <2>2 DEF GraphFixed
<1>. QED BY <1>5, <1>7

(* The process ends. *)
LEMMA AbortGraph ==
  ASSUME LoaderInv, GraphKept, Abort, UNCHANGED <<engine, recordVars, severed>>
  PROVE  GraphKept'
<1>1. RecordsShowEdges'
  BY DEF Abort, GraphKept, RecordsShowEdges, recordVars, Gone
<1>2. synthetic' = synthetic
  BY DEF recordVars
<1>. QED BY <1>1, <1>2, CallGraph DEF Abort

(* module_wrap_instantiate. *)
LEMMA InstantiateGraph ==
  ASSUME LoaderInv, GraphKept, NEW m \in Modules, Instantiate(m)
  PROVE  GraphKept'
<1>1. LoaderTypes
  BY DEF LoaderInv
<1>2. MayCall /\ UNCHANGED <<engine, recordVars, severed>> /\ instantiations = 0
  <2>1. instantiations \in Nat
    BY <1>1 DEF LoaderTypes
  <2>. QED BY <2>1 DEF Instantiate, LinkRefused
<1>3. CASE Abort
  BY <1>2, <1>3, AbortGraph
<1>4. CASE LinkFails(m)
  BY <1>2, <1>4, LinkFailsGraph
<1>5. CASE /\ ~Unresolved(m)
           /\ status' = [x \in Modules |-> IF x \in ToLink(m) THEN "linked" ELSE status[x]]
           /\ edges' = EdgesLinked(m)
           /\ UNCHANGED frames
  <2>1. ImportsInstantiated' /\ RecordsShowEdges' /\ GraphFixed
    <3>1. \A x \in Modules : \/ x \in ToLink(m) /\ status'[x] = "linked"
                             \/ x \notin ToLink(m) /\ status'[x] = status[x]
      BY <1>5
    <3>2. status[m] = "linked" => status'[m] # "unlinked"
      BY <1>5
    <3>. QED BY <3>1, <3>2, <1>2, <1>5, LinkedGraph
  <2>2. CutTo(Len(frames))
    BY <1>1, <1>5, Stays
  <2>3. synthetic' = synthetic
    BY <1>2 DEF recordVars
  <2>4. StepsNotAhead'
    BY <1>2, <2>1, <2>2, <2>3, StepsTo DEF GraphKept
  <2>. QED BY <2>1, <2>4 DEF GraphKept
<1>. QED BY <1>3, <1>4, <1>5 DEF Instantiate

(* What the walk before an evaluation met has all the evaluation will meet. *)
LEMMA WalkAhead ==
  ASSUME LoaderInv, GraphKept, NEW m \in Modules, m \in Live, engine = "v8", ~severed,
         ~Unresolved(m), edges' = EdgesLinked(m), UNCHANGED <<engine, recordVars>>,
         status[m] \in {"unlinked", "linked"},
         status' = [x \in Modules |-> IF x = m THEN "evaluating"
                                      ELSE IF x \in ToLink(m) THEN "linked" ELSE status[x]]
  PROVE  Ahead(m)' \subseteq
           Reached(m, links, (InStatus({"linked"}) \cup ToLink(m)) \ synthetic)
<1>1. LoaderTypes /\ LinksMade /\ RequestsLinked
  BY DEF LoaderInv
<1>2. PICK S, R, S2 : /\ S = (InStatus({"linked"}) \cup ToLink(m)) \ synthetic
                      /\ R = Reached(m, links, S)
                      /\ S2 = {m} \cup InStatus({"linked"})'
  OBVIOUS
<1>3. m \in R /\ R \in SUBSET Modules /\ Closed(R, links, S)
  BY <1>2, ReachedLeast
<1>4. R \subseteq Known
  <2>1. m \in Known
    BY DEF Live, Known
  <2>. QED BY <2>1, <1>1, <1>2, ReachedKnown
<1>5. S2 \subseteq InStatus({"linked"}) \cup ToLink(m)
  <2>1. status[m] = "unlinked" => m \in ToLink(m)
    BY ToLinkFacts
  <2>2. \A x \in Modules : status'[x] = "linked" => status[x] = "linked" \/ x \in ToLink(m)
    OBVIOUS
  <2>. QED BY <1>2, <2>1, <2>2 DEF InStatus
<1>6. /\ \A x \in Modules : x \notin ToLink(m) => edges'[x] = edges[x]
      /\ \A x \in ToLink(m) : edges'[x] = links[x]
  BY LinkedEdges DEF Resolved
<1>7. Closed(R, edges', S2)
  <2>1. ASSUME NEW x \in R \cap S2
        PROVE  Range(edges'[x]) \cap Modules \subseteq R
    <3>1. x \in Modules /\ x \in Known /\ x \in InStatus({"linked"}) \cup ToLink(m)
      BY <1>3, <1>4, <1>5
    <3>2. edges'[x] = links[x]
      <4>1. CASE x \in ToLink(m)
        BY <1>6, <4>1
      <4>2. CASE x \notin ToLink(m)
        <5>1. ~Gone(x) /\ status[x] \in Instantiated
          BY <3>1, <4>2 DEF Known, Gone, InStatus, Instantiated
        <5>2. links[x] = edges[x]
          BY <3>1, <5>1 DEF GraphKept, RecordsShowEdges
        <5>. QED BY <1>6, <3>1, <4>2, <5>2
      <4>. QED BY <4>1, <4>2
    <3>3. CASE x \in synthetic
      <4>1. links[x] = <<>>
        BY <1>1, <3>1, <3>3 DEF RequestsLinked
      <4>. QED BY <3>2, <4>1 DEF Range
    <3>4. CASE x \notin synthetic
      <4>1. x \in R \cap S
        BY <1>2, <3>1, <3>4
      <4>. QED BY <1>3, <3>2, <4>1 DEF Closed
    <3>. QED BY <3>3, <3>4
  <2>. QED BY <2>1 DEF Closed
<1>8. Reached(m, edges', S2) \subseteq R
  BY <1>3, <1>7, ReachedLeast
<1>9. Ahead(m)' = Reached(m, edges', S2)
  BY <1>2 DEF Ahead, Reached, Closed
<1>. QED BY <1>2, <1>8, <1>9

(* module_wrap_evaluate: the walk before it kept the steps below out of its way. *)
LEMMA EvaluateGraph ==
  ASSUME LoaderInv, GraphKept, NEW m \in Modules, Evaluate(m)
  PROVE  GraphKept'
<1>1. LoaderTypes /\ StackInv /\ Counted
  BY DEF LoaderInv
<1>2. MayCall /\ m \in Live /\ UNCHANGED <<engine, recordVars, severed>>
      /\ (status[m] = "linked" \/ instantiations = 0) /\ ~EvaluateRefused(m)
  <2>1. instantiations \in Nat
    BY <1>1 DEF LoaderTypes
  <2>. QED BY <2>1 DEF Evaluate, LinkRefused
<1>3. CASE Abort
  BY <1>2, <1>3, AbortGraph
<1>4. CASE LinkFails(m)
  BY <1>2, <1>4, LinkFailsGraph
<1>5. CASE /\ ~Unresolved(m)
           /\ status' = [x \in Modules |-> IF x = m THEN "evaluating"
                                           ELSE IF x \in ToLink(m) THEN "linked" ELSE status[x]]
           /\ edges' = EdgesLinked(m)
           /\ frames' = Append(frames, EvalFrame(m, <<Visit(m, 1)>>, {}))
  <2>1. status[m] \in {"unlinked", "linked"}
    <3>1. status[m] \in {"unlinked", "linking", "linked"}
      BY DEF Evaluate
    <3>. QED BY <3>1, <1>1, <1>2, NoneLinking
  <2>2. ImportsInstantiated' /\ RecordsShowEdges' /\ GraphFixed
    <3>1. \A x \in Modules : \/ x = m /\ status[m] \in {"unlinked", "linked"}
                                /\ status'[x] \in {"linked", "evaluating"}
                             \/ x \in ToLink(m) /\ status'[x] = "linked"
                             \/ x \notin ToLink(m) /\ status'[x] = status[x]
      BY <1>5, <2>1
    <3>2. status[m] = "linked" => status'[m] # "unlinked"
      BY <1>5
    <3>. QED BY <3>1, <3>2, <1>2, <1>5, LinkedGraph
  <2>3. PICK g, n : g = EvalFrame(m, <<Visit(m, 1)>>, {}) /\ n = Len(frames)
    OBVIOUS
  <2>4. PutOn(n, g) /\ n \in Nat /\ synthetic' = synthetic
    <3>1. EdgesKept
      BY <1>2, <1>5, LinkedEdges
    <3>2. PutOn(n, g)
      BY <1>1, <1>2, <1>5, <2>1, <2>3, <3>1, EvaluateStack
    <3>. QED BY <1>1, <1>2, <2>3, <3>2 DEF LoaderTypes, recordVars
  <2>5. \A p \in OnPath(g) : p = m
    <3>1. g.path = <<Visit(m, 1)>>
      BY <2>3 DEF EvalFrame
    <3>2. \A j \in 1..Len(g.path) : g.path[j].mod = m
      BY <3>1 DEF Visit
    <3>. QED BY <3>2 DEF OnPath
  <2>6. NoneMet(n, m)'
    <3>1. ASSUME engine = "v8", ~severed, NEW j \in 1..n,
                 frames[j].at = "script", frames[j].of \in synthetic
          PROVE  frames[j].of \notin Ahead(m)'
      <4>1. PICK s, R : /\ s = frames[j].of
                        /\ R = Reached(m, links, (InStatus({"linked"}) \cup ToLink(m)) \ synthetic)
        OBVIOUS
      <4>2. Ahead(m)' \subseteq R
        BY <1>2, <1>5, <2>1, <3>1, <4>1, WalkAhead
      <4>3. steps_running > 0
        <5>1. Stepping \in SUBSET (1..n) /\ j \in Stepping
          BY <2>3, <3>1 DEF Stepping
        <5>2. Cardinality(Stepping) \in Nat /\ Cardinality(Stepping) # 0
          BY <2>4, <5>1, Places
        <5>. QED BY <1>1, <5>2 DEF Counted
      <4>4. s \in synthetic /\ status[s] = "evaluating" /\ s \in Modules
        <5>1. j \in 1..Len(frames)
          BY <2>3
        <5>2. j > 1 /\ frames[j - 1].at = "eval" /\ Last(frames[j - 1].path).mod = s
              /\ j - 1 \in 1..Len(frames)
          <6>1. j > 1 /\ frames[j - 1].at = "eval" /\ Last(frames[j - 1].path).mod = s
            BY <1>1, <3>1, <4>1, <5>1 DEF StackInv, FramesNest
          <6>2. n \in Nat /\ j \in 1..n /\ n = Len(frames)
            BY <2>3, <2>4
          <6>3. j - 1 \in 1..n
            BY <6>1, <6>2
          <6>. QED BY <6>1, <6>2, <6>3
        <5>3. frames[j - 1] \in LoaderFrames /\ frames[j - 1].path # <<>>
          BY <1>1, <5>2 DEF LoaderTypes, StackInv, FramesNest
        <5>4. s \in OnPath(frames[j - 1])
          <6>1. PICK q : q = frames[j - 1].path
            OBVIOUS
          <6>2. q \in Seq(Visits) /\ q # <<>>
            BY <5>3, <6>1, FrameParts
          <6>3. Len(q) \in 1..Len(q) /\ Last(q) = q[Len(q)]
            <7>1. Len(q) \in Nat \ {0} /\ Last(q) = q[Len(q)]
              BY <6>2, FrontOf
            <7>2. \A l \in Nat \ {0} : l \in 1..l
              OBVIOUS
            <7>. QED BY <7>1, <7>2
          <6>. QED BY <5>2, <6>1, <6>3 DEF OnPath
        <5>5. status[s] = "evaluating"
          BY <1>1, <5>2, <5>4 DEF StackInv, StatusOwned, InHand
        <5>. QED BY <3>1, <4>1, <5>3, <5>4, <5>5, FrameParts
      <4>5. R \cap synthetic \cap InStatus({"evaluating"}) = {}
        BY <1>2, <3>1, <4>1, <4>3 DEF EvaluateRefused
      <4>. QED BY <4>1, <4>2, <4>4, <4>5 DEF InStatus
    <3>2. \A j \in 1..n : frames'[j] = frames[j]
      BY <2>4 DEF PutOn, SameUpTo
    <3>3. engine' = engine /\ severed' = severed
      BY <1>2
    <3>. QED BY <2>4, <3>1, <3>2, <3>3 DEF NoneMet
  <2>7. \A p \in OnPath(g) : NoneMet(n, p)'
    <3>1. ASSUME NEW p \in OnPath(g) PROVE NoneMet(n, p)'
      BY <2>5, <2>6
    <3>. QED BY <3>1
  <2>8. StepsNotAhead'
    BY <1>2, <2>2, <2>4, <2>7, StepsOn DEF GraphKept
  <2>. QED BY <2>2, <2>8 DEF GraphKept
<1>. QED BY <1>3, <1>4, <1>5 DEF Evaluate

(* QuickJS's linker meets no module being evaluated, that the walk did not. *)
LEMMA LinkerMayAbort ==
  ASSUME LoaderInv, GraphKept, NEW m \in Modules, m \in Live, LinkerAborts(m),
         status[m] = "linked" \/ ~LinkRefused(m)
  PROVE  severed
<1>. SUFFICES ASSUME ~severed PROVE FALSE
  OBVIOUS
<1>1. LoaderTypes /\ LinksMade
  BY DEF LoaderInv
<1>2. engine = "quickjs"
  BY DEF LinkerAborts
<1>3. PICK S : S = InStatus({"unlinked"})
  OBVIOUS
<1>4. PICK x \in ToLink(m) : Range(edges[x]) \cap InStatus({"evaluating"}) # {}
  BY DEF LinkerAborts
<1>5. PICK y \in Range(edges[x]) : y \in InStatus({"evaluating"})
  BY <1>4
<1>6. x \in Reached(m, edges, S) /\ x \in S /\ y \in Modules
  BY <1>2, <1>3, <1>4, <1>5 DEF ToLink, Resolved, InStatus
<1>7. y \in Reached(m, edges, S)
  BY <1>5, <1>6, ReachedStep
<1>8. PICK R : R = Reached(m, links, S)
  OBVIOUS
<1>9. m \in R /\ R \in SUBSET Modules /\ Closed(R, links, S)
  BY <1>8, ReachedLeast
<1>10. R \subseteq Known
  <2>1. m \in Known
    BY DEF Live, Known
  <2>. QED BY <2>1, <1>1, <1>8, ReachedKnown
<1>11. Closed(R, edges, S)
  <2>1. \A z \in R : edges[z] = links[z]
    BY <1>2, <1>9, <1>10 DEF Known, GraphKept, RecordsShowEdges, Gone
  <2>. QED BY <1>9, <2>1 DEF Closed
<1>12. y \in R
  BY <1>7, <1>9, <1>11, ReachedLeast
<1>13. ~LinkRefused(m)
  BY <1>4, ToLinkFacts
<1>. QED BY <1>2, <1>3, <1>5, <1>8, <1>12, <1>13 DEF LinkRefused

(* No module imports another at first. *)
LEMMA GraphStarts ==
  ASSUME LoaderInit
  PROVE  GraphKept /\ EngineContract
<1>1. \A m \in Modules : Range(edges[m]) = {} /\ links[m] = edges[m]
  BY DEF LoaderInit, Range
<1>2. 1..Len(frames) = {}
  BY DEF LoaderInit
<1>. QED BY <1>1, <1>2
         DEF GraphKept, ImportsInstantiated, RecordsShowEdges, StepsNotAhead, EngineContract, LoaderInit

(* Every step keeps the graph's part. *)
LEMMA GraphSteps ==
  ASSUME LoaderInv, GraphKept, [LoaderNext]_loaderVars
  PROVE  GraphKept'
<1>1. ASSUME NEW m \in Modules, NEW n \in 0..MaxRequests, CreateSourceTextModule(m, n)
      PROVE  GraphKept'
  BY <1>1, NewRecordGraph DEF CreateSourceTextModule
<1>2. ASSUME NEW m \in Modules, CreateSyntheticModule(m)
      PROVE  GraphKept'
  BY <1>2, NewRecordGraph DEF CreateSyntheticModule
<1>3. ASSUME NEW m \in Modules, NEW to, Link(m, to)
      PROVE  GraphKept'
  BY <1>3, LinkGraph
<1>4. ASSUME NEW m \in Modules, Instantiate(m) \/ Evaluate(m) \/ CreateRequiredModuleFacade(m)
      PROVE  GraphKept'
  BY <1>4, InstantiateGraph, EvaluateGraph DEF CreateRequiredModuleFacade
<1>5. ASSUME NEW m \in Modules, Destroy(m)
      PROVE  GraphKept'
  BY <1>5, DestroyGraph
<1>6. ASSUME NEW threw \in BOOLEAN, ScriptEnds(threw)
      PROVE  GraphKept'
  BY <1>6, ScriptEndsGraph
<1>7. CASE LinkFailed \/ Import \/ RunBody \/ Finish \/ Fail \/ Teardown
  BY <1>7, LinkFailedGraph, ImportGraph, RunBodyGraph, FinishGraph, FailGraph, TeardownGraph
<1>8. CASE UNCHANGED loaderVars
  <2>1. UNCHANGED <<engine, links, edges, status, frames, severed, synthetic>>
        /\ \A x \in Modules : Gone(x)' <=> Gone(x)
    BY <1>8 DEF loaderVars, recordVars, Gone
  <2>2. RecordsEnd /\ SameGraph
    BY <2>1 DEF RecordsEnd, SameGraph
  <2>3. RecordsShowEdges'
    BY <2>1, <2>2, RecordsShow DEF GraphKept
  <2>. QED BY <2>1, <2>3, CallGraph
<1>. QED BY <1>1, <1>2, <1>3, <1>4, <1>5, <1>6, <1>7, <1>8 DEF LoaderNext

(* Only an import and a link end the process. *)
LEMMA ContractSteps ==
  ASSUME LoaderInv, GraphKept, EngineContract, [LoaderNext]_loaderVars
  PROVE  EngineContract'
<1>1. LoaderTypes
  BY DEF LoaderInv
<1>2. severed => severed'
  <2>1. ASSUME NEW m \in Modules, EndCall(m) PROVE severed => severed'
    BY <1>1, <2>1, Freed DEF EndCall, KeepRecords
  <2>2. ASSUME NEW m \in Modules, Destroy(m) PROVE severed => severed'
    BY <1>1, <2>2, Freed DEF Destroy
  <2>3. frames # <<>> => TopFrame.of \in Modules
    BY <1>1, TopFacts, FrameParts DEF LoaderInv
  <2>4. CASE LinkFailed \/ Finish \/ Fail \/ \E threw \in BOOLEAN : ScriptEnds(threw)
    BY <2>1, <2>3, <2>4 DEF LinkFailed, Finish, Fail,
       ScriptEnds, EvaluationOnTop
  <2>5. CASE Import \/ RunBody \/ Teardown \/ UNCHANGED loaderVars
    BY <2>5 DEF Import, RunBody, Teardown, loaderVars
  <2>6. ASSUME NEW m \in Modules, NEW n, NEW to,
               \/ CreateSourceTextModule(m, n) \/ CreateSyntheticModule(m) \/ Link(m, to)
               \/ Instantiate(m) \/ Evaluate(m) \/ CreateRequiredModuleFacade(m)
        PROVE  severed => severed'
    BY <2>6 DEF CreateSourceTextModule, CreateSyntheticModule,
       NewRecord, Link,
                Instantiate, Evaluate, CreateRequiredModuleFacade
  <2>. QED BY <2>2, <2>4, <2>5, <2>6 DEF LoaderNext
<1>3. ASSUME ~aborted, aborted', NEW m \in Modules,
             Instantiate(m) \/ Evaluate(m) \/ CreateRequiredModuleFacade(m)
      PROVE  severed
  <2>1. m \in Live /\ LinkerAborts(m) /\ (status[m] = "linked" \/ ~LinkRefused(m))
    BY <1>3 DEF Instantiate, Evaluate, CreateRequiredModuleFacade,
       LinkFails
  <2>. QED BY <2>1, LinkerMayAbort
<1>4. ASSUME ~aborted, aborted', Import
      PROVE  severed
  BY <1>4, ImportMayAbort
<1>5. ASSUME \/ LinkFailed \/ RunBody \/ Finish \/ Fail \/ Teardown \/ UNCHANGED loaderVars
             \/ \E threw \in BOOLEAN : ScriptEnds(threw)
      PROVE  aborted' = aborted
  BY <1>5 DEF LinkFailed, RunBody, Finish, Fail,
     Teardown, ScriptEnds, loaderVars
<1>6. ASSUME NEW m \in Modules, NEW n, NEW to,
             \/ CreateSourceTextModule(m, n) \/ CreateSyntheticModule(m) \/ Link(m, to)
             \/ Destroy(m)
      PROVE  aborted' = aborted
  BY <1>6 DEF CreateSourceTextModule, CreateSyntheticModule,
     NewRecord, Link, Destroy
<1>7. aborted' => aborted \/ severed
  BY <1>3, <1>4, <1>5, <1>6 DEF LoaderNext
<1>. QED BY <1>2, <1>7 DEF EngineContract

(* EngineContract, for any number of modules in any graph: unless a record was
   destroyed that the engine still links to, the walks of ThrowIfEvaluating,
   ThrowIfImportingAnEvaluatingSyntheticModule and link_module refuse every call
   that would get to a check V8 or QuickJS ends the process for. *)
THEOREM EnginesKeepTheirContract ==
  LoaderSpec => []EngineContract
<1>1. LoaderInit => LoaderInv /\ GraphKept /\ EngineContract
  BY LoaderStarts, GraphStarts
<1>2. LoaderInv /\ GraphKept /\ EngineContract /\ [LoaderNext]_loaderVars
        => (LoaderInv /\ GraphKept /\ EngineContract)'
  BY LoaderKeeps, GraphSteps, ContractSteps
<1>. QED BY <1>1, <1>2, PTL DEF LoaderSpec
=============================================================================
