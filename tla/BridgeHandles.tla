--------------------------- MODULE BridgeHandles ---------------------------
(***************************************************************************)
(* The bridge's handle tables: the guest's 32-bit ids for what the         *)
(* provider made for it (references, deferreds, modules, bytecode,         *)
(* profiles, buffer leases), for the callbacks it registered, and for the  *)
(* messages, which any env of the process may take.  The owner thread runs *)
(* the imports of BridgeImports, nested where guest code runs inside one,  *)
(* and the release; a second thread, with an env of its own, uses the      *)
(* messages too.                                                           *)
(***************************************************************************)
EXTENDS Integers, FiniteSets, FiniteSetsExt, Sequences, SequencesExt, BridgeImports

CONSTANTS N,           \* how many resources are made
          MaxNesting   \* how deep guest code nests in imports

ASSUME NAssumption == N \in Nat \ {0}
ASSUME MaxNestingAssumption == MaxNesting \in Nat

Resources == 1..N
Nothing == 0
Threads == {"owner", "other"}
\* The tables the agent holds; the registry is its env's.
Owned == {"ref", "deferred", "module", "bytecode", "profile", "lease"}
Tables == Owned \cup {"registry", "message"}

VARIABLES
  phase,      \* "open", "closing" (the provider's release runs) or "closed"
  made,       \* resources made so far, 1..made
  kind,       \* per resource, the table it is for
  alive,      \* resources the provider (the registry) still holds
  late,       \* resources made while closing
  table,      \* the entries [of, id, res] of all tables
  next_id,    \* per table
  given,      \* every entry the guest was ever given: it may use any id again
  bindings,   \* CallbackBindings: entries of the registry a JS function keeps
  armed,      \* GuestFinalizerRecords that wait for their value to go
  calls,      \* the imports guest code runs inside of, and finalizers
  holds       \* per thread, the message between its table and the provider

handles == <<made, kind, alive, late, table, next_id, given>>
vars == <<phase, handles, bindings, armed, calls, holds>>

Entry(t, id, r) == [of |-> t, id |-> id, res |-> r]
Load(t, id) == IF \E e \in table : e.of = t /\ e.id = id
               THEN (CHOOSE e \in table : e.of = t /\ e.id = id).res ELSE Nothing

\* Guest code runs on the owner thread: its own, or under an import or the
\* release.
GuestRuns == /\ holds["owner"].res = Nothing
             /\ \/ phase = "open"
                \/ phase = "closing" /\ calls # <<>>

-----------------------------------------------------------------------------
\* Tables

\* The provider makes a resource for table t.
Made(t) ==
  /\ made < N
  /\ made' = made + 1
  /\ kind' = [kind EXCEPT ![made + 1] = t]
  /\ late' = IF phase = "closing" THEN late \cup {made + 1} ELSE late

\* (Mutant: an id that was freed is handed out again.)
StoreReusing(t, r) ==
  LET id == Min({i \in 1..N + 1 : Load(t, i) = Nothing})
  IN /\ table' = table \cup {Entry(t, id, r)}
     /\ given' = given \cup {Entry(t, id, r)}
     /\ next_id' = next_id

Store(t, r) ==
  /\ table' = table \cup {Entry(t, next_id[t], r)}
  /\ given' = given \cup {Entry(t, next_id[t], r)}
  /\ next_id' = [next_id EXCEPT ![t] = @ + 1]

Without(t, id) == {e \in table : ~(e.of = t /\ e.id = id)}

-----------------------------------------------------------------------------
\* Imports

\* The ways a provider call ends.
Outcomes == {"ok", "failed", "refused"}

\* Whether V8's provider has ended a resource of a call that ends it this way.
EndsResource(how, outcome) ==
  \/ how = "always"
  \/ how = "ok" /\ outcome = "ok"
  \/ how = "unless refused" /\ outcome # "refused"

\* (Mutant: the entry stays when the call fails.)
RemovesEntryWhenOk(how, outcome) == how # "none" /\ outcome = "ok"

\* The bridge's rule for its entry: delete_reference, resolve_deferred and
\* module_wrap_destroy on napi_ok, profile_stop unless napi_cannot_run_js or
\* napi_invalid_arg, bytecode_release and release_buffer_lease always.
RemovesEntry(how, outcome) ==
  \/ how = "always"
  \/ how = "ok" /\ outcome = "ok"
  \/ how = "unless refused" /\ outcome # "refused"

\* An import that runs no guest code, or whose guest code is over: the
\* provider's status is known.
Complete(s, id, outcome) ==
  LET r == Load(s.load, id)
      ends == IF s.load # "none" /\ EndsResource(s.end, outcome) THEN {r} ELSE {}
      kept == IF s.load # "none" /\ RemovesEntry(s.end, outcome) THEN Without(s.load, id) ELSE table
  IN IF outcome = "ok" /\ s.make # "none"
     THEN /\ Made(s.make)
          /\ alive' = alive \cup {made + 1}
          /\ Store(s.make, made + 1)
     ELSE /\ alive' = alive \ ends
          /\ table' = kept
          /\ UNCHANGED <<made, kind, late, next_id, given>>

\* Ids the guest holds: for the tables of a closed or reset agent too.
Ids(t) == {e.id : e \in {g \in given : g.of = t}}

\* A record is made before the call; a failed call deletes it.
Armed(s, outcome) ==
  armed' = IF s.hook /\ outcome = "ok" THEN armed + 1 ELSE armed

\* Binds a JS function to the registration id it was given.
Bound(s, id, outcome) ==
  bindings' = IF s.load = "registry" /\ outcome = "ok"
              THEN bindings \cup {Entry("registry", id, r) : r \in {Load("registry", id)} \ {Nothing}}
              ELSE bindings

Import(s, id, outcome) ==
  /\ GuestRuns
  /\ ~s.guest
  /\ s.load = "none" => id = 1
  /\ s.load # "none" => id \in Ids(s.load) /\ Load(s.load, id) # Nothing
  /\ Complete(s, id, outcome)
  /\ s.hook => armed < N
  /\ Armed(s, outcome)
  /\ Bound(s, id, outcome)
  /\ UNCHANGED <<phase, calls, holds>>

\* The guest runs inside the import; the handle it loaded is the provider's
\* already.
Enter(s, id) ==
  /\ GuestRuns
  /\ s.guest
  /\ Len(calls) < MaxNesting
  /\ s.load = "none" => id = 1
  /\ s.load # "none" => id \in Ids(s.load) /\ Load(s.load, id) # Nothing
  /\ calls' = Append(calls, "import")
  /\ UNCHANGED <<phase, handles, bindings, armed, holds>>

\* A value with a guest finalizer is collected (the drain of a checkpoint,
\* or the release): its record fires.
Fire ==
  /\ holds["owner"].res = Nothing
  /\ armed > 0
  /\ Len(calls) < MaxNesting
  /\ phase = "closing" \/ calls # <<>>
  /\ armed' = armed - 1
  /\ calls' = Append(calls, "finalizer")
  /\ UNCHANGED <<phase, handles, bindings, holds>>

\* The guest code returns to the bridge.
Leave ==
  /\ holds["owner"].res = Nothing
  /\ calls # <<>>
  /\ calls' = Front(calls)
  /\ UNCHANGED <<phase, handles, bindings, armed, holds>>

-----------------------------------------------------------------------------
\* Messages: process-wide, their table under g_mu.

\* Only the owner thread's env can be closed here.
EnvUsable(t) == t = "other" \/ GuestRuns

\* unofficial_message_create: the provider's message, not yet in the table.
CreateMessage(t) ==
  /\ EnvUsable(t)
  /\ holds[t] = [res |-> Nothing, new |-> FALSE]
  /\ Made("message")
  /\ alive' = alive \cup {made + 1}
  /\ holds' = [holds EXCEPT ![t] = [res |-> made + 1, new |-> TRUE]]
  /\ UNCHANGED <<phase, table, next_id, given, bindings, armed, calls>>

StoreMessage(t) ==
  /\ holds[t].new
  /\ Store("message", holds[t].res)
  /\ holds' = [holds EXCEPT ![t] = [res |-> Nothing, new |-> FALSE]]
  /\ UNCHANGED <<phase, made, kind, alive, late, bindings, armed, calls>>

\* unofficial_message_take and message_drop: Take under the lock.
TakeMessage(t, id) ==
  /\ EnvUsable(t)
  /\ holds[t] = [res |-> Nothing, new |-> FALSE]
  /\ id \in Ids("message")
  /\ Load("message", id) # Nothing
  /\ holds' = [holds EXCEPT ![t] = [res |-> Load("message", id), new |-> FALSE]]
  /\ table' = Without("message", id)
  /\ UNCHANGED <<phase, made, kind, alive, late, next_id, given, bindings, armed, calls>>

\* The provider consumes it, also when the take fails or no value id is left.
UseMessage(t) ==
  /\ holds[t].res # Nothing /\ ~holds[t].new
  /\ alive' = alive \ {holds[t].res}
  /\ holds' = [holds EXCEPT ![t] = [res |-> Nothing, new |-> FALSE]]
  /\ UNCHANGED <<phase, made, kind, late, table, next_id, given, bindings, armed, calls>>

-----------------------------------------------------------------------------
\* Release (DisposeBridgeState)

OfKind(S) == {r \in Resources : kind[r] \in S}

\* (Mutant: the tables are emptied, bytecode stays the guest's to release.)
DisposeForgets ==
  /\ phase = "open"
  /\ calls = <<>>
  /\ holds["owner"].res = Nothing
  /\ phase' = "closing"
  /\ alive' = alive \ {r \in OfKind({"lease", "registry"}) : \E e \in table : e.res = r}
  /\ table' = {e \in table : e.of = "message"}
  /\ next_id' = [t \in Tables |-> IF t = "message" THEN next_id[t] ELSE 1]
  /\ UNCHANGED <<made, kind, late, given, bindings, armed, calls, holds>>

\* Refused while guest code runs under a callback of the agent.  Leases and
\* bytecode are released, every table emptied and its ids started again.
Dispose ==
  /\ phase = "open"
  /\ calls = <<>>
  /\ holds["owner"].res = Nothing
  /\ phase' = "closing"
  /\ alive' = alive \ {r \in OfKind({"lease", "bytecode", "registry"}) :
                         \E e \in table : e.res = r}
  /\ table' = {e \in table : e.of = "message"}
  /\ next_id' = [t \in Tables |-> IF t = "message" THEN next_id[t] ELSE 1]
  /\ UNCHANGED <<made, kind, late, given, bindings, armed, calls, holds>>

\* The provider's release has run the finalizers and freed what its env held;
\* bindings and registrations go with the env.
Disposed ==
  /\ phase = "closing"
  /\ calls = <<>>
  /\ armed = 0
  /\ holds["owner"].res = Nothing
  /\ phase' = "closed"
  /\ alive' = alive \ OfKind({"ref", "deferred", "module", "profile", "registry"})
  /\ table' = {e \in table : e.of = "message"}
  /\ bindings' = {}
  /\ UNCHANGED <<made, kind, late, next_id, given, armed, calls, holds>>

-----------------------------------------------------------------------------
Init ==
  /\ phase = "open"
  /\ made = 0
  /\ kind = [r \in Resources |-> "none"]
  /\ alive = {}
  /\ late = {}
  /\ table = {}
  /\ next_id = [t \in Tables |-> 1]
  /\ given = {}
  /\ bindings = {}
  /\ armed = 0
  /\ calls = <<>>
  /\ holds = [t \in Threads |-> [res |-> Nothing, new |-> FALSE]]

Next ==
  \/ \E s \in Shapes, id \in 1..N : \/ \E outcome \in Outcomes : Import(s, id, outcome)
                                    \/ Enter(s, id)
  \/ Fire
  \/ Leave
  \/ \E t \in Threads : \/ CreateMessage(t)
                        \/ StoreMessage(t)
                        \/ \E id \in 1..N : TakeMessage(t, id)
                        \/ UseMessage(t)
  \/ Dispose
  \/ Disposed

Spec == Init /\ [][Next]_vars

-----------------------------------------------------------------------------
\* The state variables hold values of their types.
TypeOK ==
  /\ phase \in {"open", "closing", "closed"}
  /\ made \in 0..N
  /\ kind \in [Resources -> Tables \cup {"none"}]
  /\ alive \subseteq 1..made /\ late \subseteq 1..made
  /\ \A e \in table \cup given \cup bindings :
       e.of \in Tables /\ e.id \in Nat \ {0} /\ e.res \in 1..made
  /\ next_id \in [Tables -> Nat \ {0}]
  /\ armed \in 0..N
  /\ Len(calls) \in 0..MaxNesting
  /\ \A t \in Threads : holds[t].res \in 0..made

Owners(r) == Cardinality({e \in table : e.res = r})
             + Cardinality({t \in Threads : holds[t].res = r})

\* Whatever statuses the provider's calls end with and whatever guest code
\* does inside an import, an id never leads to a resource that is gone, no
\* resource has two ids, none is left without one while its env is open, and
\* two threads never take the same message: a message is in the table or in
\* one thread's hands until it is consumed.
OneOwner ==
  /\ \A r \in Resources : Owners(r) <= IF r \in alive THEN 1 ELSE 0
  /\ \A r \in alive : (phase = "open" \/ kind[r] = "message") => Owners(r) = 1

\* The guest keeps ids as long as it likes, a JS function the id of its
\* registration: while the env is open an id leads to what it was given for,
\* or nowhere; a message's also when the envs that used it are gone.
IdsNameOne ==
  \A e \in given \cup bindings :
    (phase = "open" \/ e.of = "message") => Load(e.of, e.id) \in {e.res, Nothing}

\* Nothing the guest made before the release outlives it, but messages, which
\* are no env's.
ReleaseReclaims ==
  phase = "closed" => \A r \in alive : kind[r] = "message" \/ r \in late
=============================================================================
