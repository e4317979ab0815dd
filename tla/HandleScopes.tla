---------------------------- MODULE HandleScopes ----------------------------
(***************************************************************************)
(* The guest's value ids (src/src/napi_bridge_init.cc): the slot table     *)
(* with generation tags, the stack of scope frames that own the slots, and *)
(* the engine's own stack of handle scopes that keep the Locals alive.     *)
(* Everything runs on the agent's thread; what makes it hard is that       *)
(* callbacks, finalizers and interrupts nest, that the guest may leave     *)
(* scopes open or close them out of order, and that the release of the env *)
(* empties the tables while finalizers still run.                          *)
(*                                                                         *)
(* A Local is a serial number.  Which free slot is reused is left open     *)
(* (the code takes the one freed last).                                    *)
(***************************************************************************)
EXTENDS Naturals, Sequences, FiniteSets

CONSTANTS
    GenMod,      \* 1 << kValueIdGenBits: generations of a slot
    MaxSlots,    \* kValueIdMaxSlots
    ValueLimit,  \* SnapiAgentState.value_limit (0: none)
    MaxLocals,   \* bound of the model: Locals ever created
    MaxScopes    \* bound of the model: handle scopes ever opened

ASSUME ConstantsAssumption ==
    /\ {ValueLimit, MaxLocals, MaxScopes} \subseteq Nat
    /\ {GenMod, MaxSlots} \subseteq Nat \ {0}

Slots  == 1..MaxSlots
Null   == 0                    \* no value; also the id the guest sees as null
Locals == 1..MaxLocals

VARIABLES
    (* SnapiAgentState *)
    size,        \* value_slots.size()
    gen, val,    \* ValueSlot.generation and .value (Null: not in use)
    free,        \* value_free_slots
    count,       \* live_value_count
    frames,      \* scope_frames, innermost last
    reset,       \* the release has emptied the tables
    (* the engine *)
    scopes,      \* its handle scopes, innermost last
    locals,      \* number of Locals created
    opened,      \* number of scopes opened: names them
    (* the stack of guest calls, and what the last call answered *)
    calls, answer,
    (* auxiliary *)
    uses,        \* how often a slot was given out since the tables were reset
    handed       \* the ids given to the guest

table == <<size, gen, val, free, count, uses, handed>>
vars  == <<table, frames, reset, scopes, locals, opened, calls, answer>>

(* tok names the engine scope of a frame (0: the env-wide one of the root  *)
(* frame); id is what the guest may name it by (0: implicit).              *)
Frame(id, tok, esc) == [id |-> id, tok |-> tok, esc |-> esc, owned |-> {}]
Scope(tok) == [tok |-> tok, escaped |-> FALSE, alive |-> {}]
Trampoline == MaxScopes + 1     \* the scope V8 opens around a callback

TypeOK ==
    /\ size \in 0..MaxSlots
    /\ gen \in [Slots -> 0..GenMod - 1]
    /\ val \in [Slots -> Locals \cup {Null}]
    /\ free \subseteq Slots
    /\ count \in Nat
    /\ frames \in Seq([id : 0..MaxScopes, tok : 0..MaxScopes, esc : BOOLEAN,
                       owned : SUBSET Slots])
    /\ scopes \in Seq([tok : 0..Trampoline, escaped : BOOLEAN,
                       alive : SUBSET Locals])
    /\ calls \in Seq([kind : {"callback", "finalizer"}, tok : 1..MaxScopes,
                      depth : Nat, below : Seq(0..MaxScopes)])
    /\ locals \in 0..MaxLocals /\ opened \in 0..MaxScopes
    /\ answer \in [ok : BOOLEAN, value : BOOLEAN]
    /\ reset \in BOOLEAN
    /\ uses \in [Slots -> Nat]
    /\ handed \subseteq [slot : Slots, gen : 0..GenMod - 1, local : Locals,
                         use : Nat, reset : BOOLEAN]

Init ==
    /\ size = 0 /\ count = 0 /\ free = {}
    /\ gen = [i \in Slots |-> 0] /\ val = [i \in Slots |-> Null]
    /\ frames = <<>> /\ reset = FALSE
    /\ scopes = <<Scope(0)>> /\ locals = 0 /\ opened = 0
    /\ calls = <<>> /\ answer = [ok |-> TRUE, value |-> TRUE]
    /\ uses = [i \in Slots |-> 0] /\ handed = {}

-----------------------------------------------------------------------------
(* The slot table *)

(* CurrentFrame: the root frame is made on first use. *)
WithRoot == IF frames = <<>> THEN <<Frame(0, 0, FALSE)>> ELSE frames

(* StoreValueInFrame for the new Local locals + 1, owned by frame d of fs.  *)
(* At the limit it answers id 0; its callers still return napi_ok.         *)
AtLimit == ValueLimit # 0 /\ count >= ValueLimit

StoreValueInFrame(fs, d) ==
    \/ /\ AtLimit \/ (free = {} /\ size = MaxSlots)
       /\ frames' = fs
       /\ answer' = [ok |-> TRUE, value |-> FALSE]
       /\ UNCHANGED table
    \/ /\ ~AtLimit
       /\ \E i \in IF free # {} THEN free ELSE {size + 1} \cap Slots :
             /\ free' = free \ {i}
             /\ size' = IF free # {} THEN size ELSE i
             /\ val' = [val EXCEPT ![i] = locals + 1]
             /\ count' = count + 1
             /\ frames' = [fs EXCEPT ![d].owned = @ \cup {i}]
             /\ uses' = [uses EXCEPT ![i] = @ + 1]
             /\ handed' = handed \cup
                   {[slot |-> i, gen |-> gen[i], local |-> locals + 1,
                     use |-> uses[i] + 1, reset |-> reset]}
       /\ answer' = [ok |-> TRUE, value |-> TRUE]
       /\ UNCHANGED gen

(* LoadValue of the id of slot i and generation g. *)
LoadValue(i, g) == IF i <= size /\ gen[i] = g THEN val[i] ELSE Null

(* Slip: the generation is not masked. *)
FreeValueSlotsUnmasked(owned) ==
    LET freed == {i \in owned : val[i] # Null} IN
    /\ val' = [i \in Slots |-> IF i \in freed THEN Null ELSE val[i]]
    /\ gen' = [i \in Slots |-> IF i \in freed THEN gen[i] + 1 ELSE gen[i]]
    /\ free' = free \cup freed
    /\ count' = count - Cardinality(freed)
    /\ UNCHANGED <<size, uses, handed>>

(* Slip: live_value_count is not decremented. *)
FreeValueSlotsUncounted(owned) ==
    LET freed == {i \in owned : val[i] # Null} IN
    /\ val' = [i \in Slots |-> IF i \in freed THEN Null ELSE val[i]]
    /\ gen' = [i \in Slots |-> IF i \in freed THEN (gen[i] + 1) % GenMod ELSE gen[i]]
    /\ free' = free \cup freed
    /\ UNCHANGED <<size, count, uses, handed>>

(* Slip: the generation is not bumped. *)
FreeValueSlotsSameGeneration(owned) ==
    LET freed == {i \in owned : val[i] # Null} IN
    /\ val' = [i \in Slots |-> IF i \in freed THEN Null ELSE val[i]]
    /\ free' = free \cup freed
    /\ count' = count - Cardinality(freed)
    /\ UNCHANGED <<size, gen, uses, handed>>

(* FreeValueSlot on every slot of a set. *)
FreeValueSlots(owned) ==
    LET freed == {i \in owned : val[i] # Null} IN
    /\ val' = [i \in Slots |-> IF i \in freed THEN Null ELSE val[i]]
    /\ gen' = [i \in Slots |-> IF i \in freed THEN (gen[i] + 1) % GenMod ELSE gen[i]]
    /\ free' = free \cup freed
    /\ count' = count - Cardinality(freed)
    /\ UNCHANGED <<size, uses, handed>>

-----------------------------------------------------------------------------
(* Engine scopes *)

Position(tok) == CHOOSE p \in DOMAIN scopes : scopes[p].tok = tok

(* A new Local lives in the innermost scope of ss. *)
AddLocal(ss, p) ==
    /\ locals < MaxLocals
    /\ locals' = locals + 1
    /\ scopes' = [ss EXCEPT ![p].alive = @ \cup {locals + 1}]

-----------------------------------------------------------------------------
(* Frames *)

(* Any N-API call that returns a new value. *)
MintValue ==
    /\ AddLocal(scopes, Len(scopes))
    /\ StoreValueInFrame(WithRoot, Len(WithRoot))
    /\ UNCHANGED <<reset, opened, calls>>

(* open_handle_scope and open_escapable_handle_scope. *)
OpenScope ==
    /\ opened < MaxScopes
    /\ opened' = opened + 1
    /\ \E esc \in BOOLEAN :
          frames' = Append(WithRoot, Frame(opened + 1, opened + 1, esc))
    /\ scopes' = Append(scopes, Scope(opened + 1))
    /\ answer' = [ok |-> TRUE, value |-> TRUE]
    /\ UNCHANGED <<table, reset, locals, calls>>

Above(d) == {i \in DOMAIN frames : i > d}

(* PopCurrentFrame for every frame above depth d: their slots are freed... *)
PopFrames(d) ==
    /\ frames' = SubSeq(frames, 1, d)
    /\ FreeValueSlots(UNION {frames[i].owned : i \in Above(d)})

(* ... and their engine scopes closed, with whatever is open above them.   *)
ScopesBelow(d) ==
    LET toks == {frames[i].tok : i \in Above(d)} \ {0}
        kept == {p \in DOMAIN scopes : \A q \in 1..p : scopes[q].tok \notin toks}
    IN  SubSeq(scopes, 1, Cardinality(kept))

(* Slip: a frame may be closed below open ones. *)
CloseScopeAnyOrder ==
    /\ \E i \in DOMAIN frames :
          /\ frames[i].id # 0
          /\ frames' = SubSeq(frames, 1, i - 1) \o SubSeq(frames, i + 1, Len(frames))
          /\ FreeValueSlots(frames[i].owned)
          /\ scopes' = SubSeq(scopes, 1, Position(frames[i].tok) - 1)
    /\ answer' = [ok |-> TRUE, value |-> TRUE]
    /\ UNCHANGED <<reset, locals, opened, calls>>

(* Slip: an implicit frame may be closed by the guest. *)
CloseScopeImplicit ==
    /\ Len(frames) > 1
    /\ PopFrames(Len(frames) - 1)
    /\ scopes' = ScopesBelow(Len(frames) - 1)
    /\ answer' = [ok |-> TRUE, value |-> TRUE]
    /\ UNCHANGED <<reset, locals, opened, calls>>

(* close_handle_scope and close_escapable_handle_scope: only the innermost *)
(* frame, and only one the guest opened; otherwise the call fails.         *)
CloseScope ==
    /\ \E i \in DOMAIN frames :
          /\ frames[i].id # 0
          /\ \/ /\ i = Len(frames)
                /\ PopFrames(i - 1)
                /\ scopes' = ScopesBelow(i - 1)
                /\ answer' = [ok |-> TRUE, value |-> TRUE]
             \/ /\ i # Len(frames)              \* napi_handle_scope_mismatch
                /\ answer' = [ok |-> FALSE, value |-> FALSE]
                /\ UNCHANGED <<table, frames, scopes>>
    /\ UNCHANGED <<reset, locals, opened, calls>>

(* escape_handle: the value goes to the scope around the escapable one,    *)
(* once, and its id to the frame below.                                    *)
Escape ==
    /\ \E i \in DOMAIN frames :
          /\ i > 1 /\ frames[i].id # 0 /\ frames[i].esc
          /\ \E h \in handed : LoadValue(h.slot, h.gen) # Null
          /\ LET p == Position(frames[i].tok) IN
             \/ /\ ~scopes[p].escaped
                /\ AddLocal([scopes EXCEPT ![p].escaped = TRUE], p - 1)
                /\ StoreValueInFrame(frames, i - 1)
             \/ /\ scopes[p].escaped            \* napi_escape_called_twice
                /\ answer' = [ok |-> FALSE, value |-> FALSE]
                /\ UNCHANGED <<table, frames, scopes, locals>>
    /\ UNCHANGED <<reset, opened, calls>>

-----------------------------------------------------------------------------
(* Guest calls *)

(* generic_wasm_callback, GuestFinalizerTrampoline or (as a finalizer)     *)
(* WasmInterruptCallback: V8's scope, the bridge's scope, an implicit      *)
(* frame.  Once the tables are reset only finalizers reach the guest.      *)
EnterGuest(kind) ==
    /\ kind = "callback" => ~reset
    /\ opened < MaxScopes
    /\ opened' = opened + 1
    /\ frames' = Append(WithRoot, Frame(0, opened + 1, kind = "callback"))
    /\ scopes' = scopes \o <<Scope(Trampoline), Scope(opened + 1)>>
    /\ calls' = Append(calls, [kind |-> kind, tok |-> opened + 1,
                               depth |-> Len(scopes),
                               below |-> [i \in DOMAIN WithRoot |-> WithRoot[i].tok]])
    /\ UNCHANGED <<table, reset, locals, answer>>

(* How far the frames are popped when the call with the implicit frame c   *)
(* returns: below its frame, wherever the guest left the stack.            *)
ReturnDepth(c) ==
    LET at == {i \in DOMAIN frames : frames[i].tok = c.tok} IN
    IF at # {} THEN (CHOOSE i \in at : TRUE) - 1
    ELSE IF c.kind = "callback" \/ frames = <<>> THEN Len(frames) ELSE 1

LeaveGuest ==
    /\ calls # <<>>
    /\ LET c == calls[Len(calls)] IN
       /\ PopFrames(ReturnDepth(c))
       /\ scopes' = SubSeq(scopes, 1, IF Len(scopes) < c.depth THEN Len(scopes)
                                                             ELSE c.depth)
    /\ calls' = SubSeq(calls, 1, Len(calls) - 1)
    /\ UNCHANGED <<reset, locals, opened, answer>>

(* DisposeBridgeState, from outside any guest call: the frames are drained *)
(* and the tables start again; finalizers run afterwards.                  *)
Release ==
    /\ calls = <<>> /\ ~reset
    /\ reset' = TRUE
    /\ frames' = <<>> /\ scopes' = ScopesBelow(0)
    /\ size' = 0 /\ free' = {} /\ count' = 0
    /\ gen' = [i \in Slots |-> 0] /\ val' = [i \in Slots |-> Null]
    /\ uses' = [i \in Slots |-> 0]
    /\ UNCHANGED <<handed, locals, opened, calls, answer>>

Next ==
    \/ MintValue \/ OpenScope \/ CloseScope \/ Escape
    \/ EnterGuest("callback") \/ EnterGuest("finalizer") \/ LeaveGuest
    \/ Release

Spec == Init /\ [][Next]_vars
-----------------------------------------------------------------------------
Owners(i) == {d \in DOMAIN frames : i \in frames[d].owned}
InUse == {i \in Slots : val[i] # Null}

(* A slot is in use exactly while one open frame owns it, the free list    *)
(* holds the other slots, and live_value_count counts the ones in use and  *)
(* respects the limit: closing a frame frees each of its ids once.         *)
SlotsOwned ==
    /\ \A i \in Slots : Cardinality(Owners(i)) = IF i \in InUse THEN 1 ELSE 0
    /\ free = (1..size) \ InUse /\ InUse \subseteq 1..size
    /\ count = Cardinality(InUse)
    /\ ValueLimit # 0 => count <= ValueLimit

(* An id that resolves resolves to a Local that is alive, kept by the      *)
(* engine scope of the very frame that owns the id: no order of opening,   *)
(* escaping, leaving scopes open and returning makes an id outlive it.     *)
ValuesAlive ==
    \A d \in DOMAIN frames : \A i \in frames[d].owned :
       \E p \in DOMAIN scopes :
          scopes[p].tok = frames[d].tok /\ val[i] \in scopes[p].alive

(* While guest code services a callback, finalizer or interrupt, the       *)
(* frames of its callers are all still open and in place.                  *)
CallerFramesKept ==
    \A k \in DOMAIN calls :
       LET c == calls[k]
           n == Len(c.below) IN
       /\ Len(frames) > n
       /\ \A i \in 1..n : frames[i].tok = c.below[i]
       /\ frames[n + 1].tok = c.tok

(* An id the guest kept past its scope resolves to null, until its slot    *)
(* has been given out GenMod more times or the env is being released.      *)
StaleIdsNull ==
    \A h \in handed :
       \/ LoadValue(h.slot, h.gen) \in {Null, h.local}
       \/ uses[h.slot] >= h.use + GenMod
       \/ h.reset # reset

(* Ids are sound: a slot has one owner, and a stale id names no other value. *)
IdsSound == SlotsOwned /\ StaleIdsNull
=============================================================================
