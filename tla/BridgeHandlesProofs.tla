------------------------ MODULE BridgeHandlesProofs ------------------------
(***************************************************************************)
(* The bridge's handle tables are sound for every number of resources and  *)
(* every depth of nesting: a resource has one owner, an id names one       *)
(* resource, and the release reclaims what was made before it.  The        *)
(* inductive invariant says what an entry is (TableInv), what a thread     *)
(* holds (HoldInv), what an id given out may still lead to (GivenInv),     *)
(* that nothing alive is without an owner (OwnedInv), and what the release *)
(* has left (LateInv).                                                     *)
(***************************************************************************)
EXTENDS BridgeHandles, FiniteSetTheorems, TLAPS

Entries == [of : Tables, id : Nat \ {0}, res : Nat \ {0}]

Types ==
  /\ phase \in {"open", "closing", "closed"}
  /\ made \in 0..N
  /\ kind \in [Resources -> Tables \cup {"none"}]
  /\ alive \subseteq 1..made
  /\ next_id \in [Tables -> Nat \ {0}]
  /\ given \subseteq Entries /\ table \subseteq given /\ bindings \subseteq given
  /\ holds \in [Threads -> [res : Nat, new : BOOLEAN]]

\* An entry leads to a resource of its table that is alive, and is the only
\* one that does; its id is its own.
TableInv ==
  /\ \A e \in table : e.res \in alive /\ kind[e.res] = e.of /\ e.id < next_id[e.of]
  /\ \A e, f \in table : e.res = f.res => e = f
  /\ \A e, f \in table : e.of = f.of /\ e.id = f.id => e = f

\* A message in a thread's hands is no other thread's and not in the table.
HoldInv ==
  \A t \in Threads :
    /\ holds[t].new => holds[t].res # Nothing
    /\ holds[t].res # Nothing =>
         /\ holds[t].res \in alive /\ kind[holds[t].res] = "message"
         /\ \A e \in table : e.res # holds[t].res
         /\ \A u \in Threads : holds[u].res = holds[t].res => u = t

\* An id that was given out is not given out again, while its table is not
\* started again.
GivenInv ==
  \A e \in given : phase = "open" \/ e.of = "message" =>
    /\ e.id < next_id[e.of]
    /\ \A f \in table : f.of = e.of /\ f.id = e.id => f.res = e.res

\* While its env is open, and a message always, what is alive has an owner.
OwnedInv ==
  \A r \in alive :
    /\ kind[r] \in Tables
    /\ phase = "open" \/ kind[r] = "message" =>
         (\E e \in table : e.res = r) \/ (\E t \in Threads : holds[t].res = r)

\* The release has released leases and bytecode, and then the rest.
LateInv ==
  /\ phase = "closing" => \A r \in alive : kind[r] \in {"lease", "bytecode"} => r \in late
  /\ phase = "closed" => \A r \in alive : kind[r] = "message" \/ r \in late

Inv == Types /\ TableInv /\ HoldInv /\ GivenInv /\ OwnedInv /\ LateInv

-----------------------------------------------------------------------------
(* The imports.                                                            *)

(* What an import makes is for one of the tables. *)
LEMMA ShapesTabled == \A s \in Shapes : s.make \in Tables \cup {"none"}
<1>. DEFINE Tabled(F) == \A i \in F : i.shape.make \in Tables \cup {"none"}
<1>1. \A t \in Owned \cup {"registry", "none"} :
        /\ t \in Tables \cup {"none"}
        /\ \A names : Tabled(All(names, Makes(t))) /\ Tabled(All(names, Hooks(t)))
  BY DEF All, OneOf, Makes, Hooks, Shape, Tables
<1>2. /\ \A names : Tabled(All(names, Values)) /\ Tabled(All(names, ValuesEnter))
      /\ \A names, t : Tabled(All(names, Uses(t))) /\ Tabled(All(names, UsesEnter(t)))
      /\ \A names, t, how : Tabled(All(names, Ends(t, how)))
  BY DEF All, OneOf, Values, ValuesEnter, Uses, UsesEnter, Ends, Shape
<1>3. ASSUME NEW names, NEW shapes, \A s \in shapes : s.make \in Tables \cup {"none"}
      PROVE  Tabled(OneOf(names, shapes))
  BY <1>3 DEF OneOf
<1>4. /\ Tabled(CreateValues) /\ Tabled(ReadValues) /\ Tabled(TestValues) /\ Tabled(CoerceValues)
      /\ Tabled(Properties) /\ Tabled(Elements) /\ Tabled(Errors) /\ Tabled(SymbolsAndNumbers)
      /\ Tabled(Promises) /\ Tabled(ExternalBuffersFinalized) /\ Tabled(ExternalBuffers) /\ Tabled(BufferViews)
      /\ Tabled(DataViewsAndExternals) /\ Tabled(References) /\ Tabled(TagsAndCalls) /\ Tabled(StringsAndInstanceData)
      /\ Tabled(BuffersAndLeases) /\ Tabled(Functions) /\ Tabled(EnvCalls) /\ Tabled(Details)
      /\ Tabled(Scripting) /\ Tabled(ErrorsAndStatistics) /\ Tabled(Profiles) /\ Tabled(SerdesAndRealms)
      /\ Tabled(Bytecode) /\ Tabled(ModuleCalls) /\ Tabled(ModuleData)
  BY <1>1, <1>2 DEF Owned, CreateValues, ReadValues, TestValues, CoerceValues, Properties, Elements, Errors,
         SymbolsAndNumbers, Promises, ExternalBuffersFinalized, ExternalBuffers, BufferViews,
         DataViewsAndExternals, References, TagsAndCalls, StringsAndInstanceData, BuffersAndLeases,
         Functions, EnvCalls, Details, Scripting, ErrorsAndStatistics, Profiles, SerdesAndRealms, Bytecode,
         ModuleCalls, ModuleData
<1>5. /\ Tabled(Wraps) /\ Tabled(InstancesAndProperties) /\ Tabled(RunsAndCompiles) /\ Tabled(ModuleCreation)
  BY <1>1, <1>2, <1>3 DEF Wraps, InstancesAndProperties, RunsAndCompiles, ModuleCreation, Values,
         ValuesEnter, Makes, Hooks, Uses, UsesEnter, Ends, Shape, Tables, Owned
<1>6. Tabled(Imports)
  BY <1>4, <1>5 DEF Imports
<1>. QED BY <1>6 DEF Shapes

-----------------------------------------------------------------------------
(* Ids.                                                                    *)

(* What an id leads to: the resource of its entry, or nothing. *)
LEMMA LoadIs ==
  ASSUME Inv, NEW t, NEW id
  PROVE  /\ \A e \in table : e.of = t /\ e.id = id => Load(t, id) = e.res /\ Load(t, id) # Nothing
         /\ Load(t, id) # Nothing => \E e \in table : e.of = t /\ e.id = id /\ e.res = Load(t, id)
         /\ (\A e \in table : ~ (e.of = t /\ e.id = id)) => Load(t, id) = Nothing
<1>. DEFINE P(e) == e.of = t /\ e.id = id
<1>1. \A e, f \in table : P(e) /\ P(f) => e = f
  BY DEF Inv, TableInv
<1>2. \A e \in table : e.res # Nothing
  BY DEF Inv, Types, Entries, Nothing
<1>3. CASE \E e \in table : P(e)
  <2>1. PICK e \in table : P(e)
    BY <1>3
  <2>2. (CHOOSE f \in table : P(f)) \in table /\ P(CHOOSE f \in table : P(f))
    BY <1>3
  <2>3. (CHOOSE f \in table : P(f)) = e
    BY <1>1, <2>1, <2>2
  <2>4. Load(t, id) = e.res
    BY <1>3, <2>3 DEF Load
  <2>. QED BY <1>1, <1>2, <2>1, <2>4
<1>4. CASE ~ \E e \in table : P(e)
  BY <1>4 DEF Load
<1>. QED BY <1>3, <1>4

(* An entry is known by its table, its id and its resource. *)
LEMMA EntryParts ==
  /\ \A t, id, r : Entry(t, id, r).of = t /\ Entry(t, id, r).id = id /\ Entry(t, id, r).res = r
  /\ \A t \in Tables, id \in Nat \ {0}, r \in Nat \ {0} : Entry(t, id, r) \in Entries
  /\ \A e \in Entries : e = Entry(e.of, e.id, e.res)
  BY DEF Entry, Entries

(* A function is bound to an id that was given. *)
LEMMA BoundGiven ==
  ASSUME Inv, NEW s, NEW id, NEW outcome, Bound(s, id, outcome)
  PROVE  bindings' \subseteq given
<1>1. \A r \in {Load("registry", id)} \ {Nothing} : Entry("registry", id, r) \in given
  <2>. SUFFICES ASSUME Load("registry", id) # Nothing
                PROVE  Entry("registry", id, Load("registry", id)) \in given
    OBVIOUS
  <2>1. PICK e \in table : e.of = "registry" /\ e.id = id /\ e.res = Load("registry", id)
    BY LoadIs
  <2>2. e \in given /\ e \in Entries
    BY DEF Inv, Types
  <2>. QED BY <2>1, <2>2, EntryParts
<1>2. bindings \subseteq given
  BY DEF Inv, Types
<1>. QED BY <1>1, <1>2 DEF Bound

-----------------------------------------------------------------------------
(* The steps.                                                              *)

\* The next resource is made for table t.
Fresh(t) ==
  /\ made + 1 \in Resources /\ made' = made + 1 /\ alive' = alive \cup {made + 1}
  /\ kind' \in [Resources -> Tables \cup {"none"}] /\ kind'[made + 1] = t
  /\ \A r \in Resources : r # made + 1 => kind'[r] = kind[r]
  /\ made + 1 \notin alive /\ alive' \subseteq 1..made' /\ alive \subseteq Resources
  /\ late \subseteq late' /\ (phase = "closing" => made + 1 \in late')

(* What Made does. *)
LEMMA MadeFresh ==
  ASSUME Inv, NEW t \in Tables, Made(t), alive' = alive \cup {made + 1}
  PROVE  Fresh(t)
<1>1. made \in 0..N /\ alive \subseteq 1..made /\ made < N /\ N \in Nat /\ made' = made + 1
      /\ kind \in [Resources -> Tables \cup {"none"}] /\ kind' = [kind EXCEPT ![made + 1] = t]
  BY NAssumption DEF Inv, Types, Made
<1>2. made + 1 \in Resources /\ made + 1 \notin alive /\ alive \subseteq Resources
  BY <1>1 DEF Resources
<1>3. alive' \subseteq 1..made'
  BY <1>1
<1>4. late \subseteq late' /\ (phase = "closing" => made + 1 \in late')
  BY DEF Made
<1>. QED BY <1>1, <1>2, <1>3, <1>4 DEF Fresh

\* Resource r, of table t, is alive and has no entry; no thread holds it
\* after the step.  It is the one resource the step may have made.
Storable(t, r) ==
  /\ made' \in 0..N /\ alive' \subseteq 1..made' /\ alive' = alive \cup {r}
  /\ r \in Resources /\ kind' \in [Resources -> Tables \cup {"none"}] /\ kind'[r] = t
  /\ \A x \in alive : x \in Resources /\ kind'[x] = kind[x]
  /\ \A f \in table : f.res # r
  /\ holds' \in [Threads -> [res : Nat, new : BOOLEAN]]
  /\ \A u \in Threads : \/ holds'[u] = holds[u] /\ holds[u].res # r
                        \/ holds[u].res = r /\ holds'[u] = [res |-> Nothing, new |-> FALSE]
  /\ late \subseteq late' /\ (phase = "open" \/ kind'[r] = "message" \/ (phase = "closing" /\ r \in late'))

(* A resource gets an id in its table. *)
LEMMA StoredKeeps ==
  ASSUME Inv, NEW t \in Tables, NEW r, Storable(t, r), Store(t, r),
         phase' = phase, bindings' \subseteq given
  PROVE  Inv'
<1>. PICK e : e = Entry(t, next_id[t], r)
  OBVIOUS
<1>1. /\ next_id[t] \in Nat \ {0} /\ r \in Nat \ {0} /\ made' \in 0..N
      /\ given \subseteq Entries /\ table \subseteq given /\ next_id \in [Tables -> Nat \ {0}]
  BY NAssumption DEF Inv, Types, Storable, Resources
<1>2. e \in Entries /\ e.of = t /\ e.id = next_id[t] /\ e.res = r
  BY <1>1, EntryParts
<1>3. table' = table \cup {e} /\ given' = given \cup {e} /\ next_id' = [next_id EXCEPT ![t] = @ + 1]
  BY DEF Store
<1>4. /\ next_id' \in [Tables -> Nat \ {0}] /\ next_id'[t] = next_id[t] + 1
      /\ \A u \in Tables : u # t => next_id'[u] = next_id[u]
  BY <1>1, <1>3
<1>5. Types'
  BY <1>1, <1>2, <1>3, <1>4 DEF Inv, Types, Storable
<1>6. /\ \A f \in table : f \in Entries /\ f.res \in alive /\ f.res \in Resources /\ f.res # r /\ f.of \in Tables
      /\ \A f \in given : f \in Entries /\ f.of \in Tables /\ f.id \in Nat
  BY <1>1 DEF Inv, TableInv, Storable, Entries
<1>7. \A u \in Tables : next_id[u] \in Nat /\ (\A n \in Nat : n < next_id[u] => n < next_id'[u])
  BY <1>1, <1>4
<1>8. TableInv'
  <2>1. ASSUME NEW f \in table' PROVE f.res \in alive' /\ kind'[f.res] = f.of /\ f.id < next_id'[f.of]
    <3>1. CASE f = e
      BY <1>1, <1>2, <1>4, <3>1 DEF Storable
    <3>2. CASE f \in table
      BY <1>1, <1>6, <1>7, <3>2 DEF Inv, TableInv, Storable
    <3>. QED BY <1>3, <3>1, <3>2
  <2>2. ASSUME NEW f \in table', NEW g \in table', f.res = g.res PROVE f = g
    BY <1>2, <1>3, <1>6, <2>2 DEF Inv, TableInv
  <2>3. ASSUME NEW f \in table', NEW g \in table', f.of = g.of, f.id = g.id PROVE f = g
    <3>1. \A h \in table : h.of = t => h.id # next_id[t]
      BY <1>1, <1>6 DEF Inv, TableInv
    <3>. QED BY <1>2, <1>3, <2>3, <3>1 DEF Inv, TableInv
  <2>. QED BY <2>1, <2>2, <2>3 DEF TableInv
<1>9. HoldInv'
  <2>. SUFFICES ASSUME NEW u \in Threads
                PROVE  /\ holds'[u].new => holds'[u].res # Nothing
                       /\ holds'[u].res # Nothing =>
                            /\ holds'[u].res \in alive' /\ kind'[holds'[u].res] = "message"
                            /\ \A f \in table' : f.res # holds'[u].res
                            /\ \A v \in Threads : holds'[v].res = holds'[u].res => v = u
    BY DEF HoldInv
  <2>1. CASE holds'[u] = [res |-> Nothing, new |-> FALSE]
    BY <2>1
  <2>2. CASE holds'[u] = holds[u] /\ holds[u].res # r
    <3>1. \A v \in Threads : holds'[v].res # Nothing => holds'[v] = holds[v]
      BY DEF Storable
    <3>. QED BY <1>2, <1>3, <2>2, <3>1 DEF Inv, HoldInv, Storable
  <2>. QED BY <2>1, <2>2 DEF Storable
<1>10. GivenInv'
  <2>. SUFFICES ASSUME NEW f \in given', phase = "open" \/ f.of = "message"
                PROVE  /\ f.id < next_id'[f.of]
                       /\ \A g \in table' : g.of = f.of /\ g.id = f.id => g.res = f.res
    BY DEF GivenInv
  <2>1. CASE f = e
    <3>1. f.id < next_id'[f.of]
      BY <1>1, <1>2, <1>4, <2>1
    <3>2. \A g \in table : g.of = t => g.id # next_id[t]
      BY <1>1, <1>6 DEF Inv, TableInv
    <3>. QED BY <1>2, <1>3, <2>1, <3>1, <3>2
  <2>2. CASE f \in given
    <3>1. f.id < next_id[f.of] /\ \A g \in table : g.of = f.of /\ g.id = f.id => g.res = f.res
      BY <2>2 DEF Inv, GivenInv
    <3>2. f.id < next_id'[f.of]
      BY <1>6, <1>7, <2>2, <3>1
    <3>3. ~ (e.of = f.of /\ e.id = f.id)
      BY <1>1, <1>2, <1>6, <2>2, <3>1
    <3>. QED BY <1>3, <3>1, <3>2, <3>3
  <2>. QED BY <1>3, <2>1, <2>2
<1>11. OwnedInv'
  <2>1. \A x \in alive' : kind'[x] \in Tables
    BY DEF Inv, OwnedInv, Storable
  <2>. SUFFICES ASSUME NEW x \in alive', phase = "open" \/ kind'[x] = "message"
                PROVE  (\E f \in table' : f.res = x) \/ (\E u \in Threads : holds'[u].res = x)
    BY <2>1 DEF OwnedInv
  <2>2. CASE x = r
    BY <1>2, <1>3, <2>2
  <2>3. CASE x # r
    <3>1. x \in alive /\ kind'[x] = kind[x]
      BY <2>3 DEF Storable
    <3>2. CASE \E f \in table : f.res = x
      BY <1>3, <3>2
    <3>3. CASE \E u \in Threads : holds[u].res = x
      BY <2>3, <3>3 DEF Storable
    <3>. QED BY <3>1, <3>2, <3>3 DEF Inv, OwnedInv
  <2>. QED BY <2>2, <2>3
<1>12. LateInv'
  BY DEF Inv, LateInv, Storable
<1>. QED BY <1>5, <1>8, <1>9, <1>10, <1>11, <1>12 DEF Inv

(* Entries go, with their resources and no others; no thread holds one. *)
LEMMA RemovedKeeps ==
  ASSUME Inv, table' \subseteq table, alive' \subseteq alive, bindings' \subseteq given,
         UNCHANGED <<phase, made, kind, late, next_id, given, holds>>,
         \A e \in table : e \in table' <=> e.res \in alive',
         \A r \in alive \ alive' : \A t \in Threads : holds[t].res # r
  PROVE  Inv'
<1>1. Types'
  BY DEF Inv, Types
<1>2. TableInv'
  BY DEF Inv, TableInv
<1>3. HoldInv'
  BY DEF Inv, HoldInv
<1>4. GivenInv'
  BY DEF Inv, GivenInv
<1>5. OwnedInv'
  BY DEF Inv, OwnedInv
<1>6. LateInv'
  BY DEF Inv, LateInv
<1>. QED BY <1>1, <1>2, <1>3, <1>4, <1>5, <1>6 DEF Inv

(* Guest code runs while the env is not closed. *)
LEMMA GuestRunsOpen ==
  ASSUME GuestRuns
  PROVE  phase # "closed"
  BY DEF GuestRuns

(* An import makes a resource, ends one or does neither. *)
LEMMA ImportKeeps ==
  ASSUME Inv, NEW s \in Shapes, NEW id \in 1..N, NEW outcome \in Outcomes, Import(s, id, outcome)
  PROVE  Inv'
<1>1. bindings' \subseteq given /\ phase' = phase /\ holds' = holds
  BY BoundGiven DEF Import
<1>2. CASE outcome = "ok" /\ s.make # "none"
  <2>1. s.make \in Tables
    BY <1>2, ShapesTabled
  <2>2. PICK t \in Tables : t = s.make
    BY <2>1
  <2>3. Made(t) /\ alive' = alive \cup {made + 1} /\ Store(t, made + 1) /\ GuestRuns
    BY <1>2, <2>2 DEF Import, Complete
  <2>4. Fresh(t) /\ phase # "closed"
    BY <2>3, MadeFresh, GuestRunsOpen
  <2>5. Storable(t, made + 1)
    <3>1. /\ made' \in 0..N /\ phase \in {"open", "closing", "closed"}
          /\ holds' \in [Threads -> [res : Nat, new : BOOLEAN]]
      BY <1>1, <2>4, NAssumption DEF Inv, Types, Fresh, Resources
    <3>2. \A f \in table : f.res # made + 1
      BY <2>4 DEF Inv, TableInv, Fresh
    <3>3. \A u \in Threads : holds'[u] = holds[u] /\ holds[u].res # made + 1
      <4>1. made + 1 # Nothing
        BY <2>4, NAssumption DEF Fresh, Resources, Nothing
      <4>. QED BY <1>1, <2>4, <4>1 DEF Inv, HoldInv, Fresh
    <3>. QED BY <2>4, <3>1, <3>2, <3>3 DEF Fresh, Storable
  <2>. QED BY <1>1, <2>3, <2>5, StoredKeeps
<1>3. CASE ~ (outcome = "ok" /\ s.make # "none")
  <2>1. UNCHANGED <<made, kind, late, next_id, given>>
    BY <1>3 DEF Import, Complete
  <2>2. CASE s.load # "none" /\ EndsResource(s.end, outcome)
    <3>1. PICK r : r = Load(s.load, id)
      OBVIOUS
    <3>2. table' = Without(s.load, id) /\ alive' = alive \ {r} /\ r # Nothing
      BY <1>3, <2>2, <3>1 DEF Import, Complete, RemovesEntry, EndsResource
    <3>3. PICK e \in table : e.of = s.load /\ e.id = id /\ e.res = r
      BY <3>1, <3>2, LoadIs
    <3>4. \A f \in table : f \in table' <=> f # e
      BY <3>2, <3>3 DEF Inv, TableInv, Without
    <3>5. \A f \in table : f # e <=> f.res \in alive'
      BY <3>2, <3>3 DEF Inv, TableInv
    <3>6. \A t \in Threads : holds[t].res # r
      BY <3>2, <3>3 DEF Inv, HoldInv
    <3>7. table' \subseteq table /\ alive' \subseteq alive /\ alive \ alive' \subseteq {r}
      BY <3>2 DEF Without
    <3>. QED BY <1>1, <2>1, <3>4, <3>5, <3>6, <3>7, RemovedKeeps
  <2>3. CASE ~ (s.load # "none" /\ EndsResource(s.end, outcome))
    <3>1. table' = table /\ alive' = alive
      BY <1>3, <2>3 DEF Import, Complete, RemovesEntry, EndsResource
    <3>2. \A e \in table : e.res \in alive
      BY DEF Inv, TableInv
    <3>. QED BY <1>1, <2>1, <3>1, <3>2, RemovedKeeps
  <2>. QED BY <2>2, <2>3
<1>. QED BY <1>2, <1>3

(* A step that leaves the tables alone. *)
LEMMA SameKeeps ==
  ASSUME Inv, UNCHANGED <<phase, handles, bindings, holds>>
  PROVE  Inv'
<1>1. \A e \in table : e.res \in alive
  BY DEF Inv, TableInv
<1>2. bindings' \subseteq given
  BY DEF Inv, Types
<1>. QED BY <1>1, <1>2, RemovedKeeps DEF handles

(* A message is made for a thread that holds none. *)
LEMMA CreateMessageKeeps ==
  ASSUME Inv, NEW t \in Threads, CreateMessage(t)
  PROVE  Inv'
<1>1. Fresh("message")
  BY MadeFresh DEF CreateMessage, Tables
<1>2. PICK r : r = made + 1
  OBVIOUS
<1>3. r \in Nat \ {0} /\ made' \in 0..N /\ r # Nothing
  BY <1>1, <1>2, NAssumption DEF Inv, Types, Fresh, Resources, Nothing
<1>4. /\ holds' = [holds EXCEPT ![t] = [res |-> r, new |-> TRUE]]
      /\ holds \in [Threads -> [res : Nat, new : BOOLEAN]]
      /\ UNCHANGED <<phase, table, next_id, given, bindings>>
      /\ holds[t].res = Nothing
  BY <1>2 DEF CreateMessage, Inv, Types
<1>5. /\ holds' \in [Threads -> [res : Nat, new : BOOLEAN]]
      /\ holds'[t].res = r
      /\ \A u \in Threads : u # t => holds'[u] = holds[u]
  BY <1>3, <1>4
<1>6. Types'
  BY <1>1, <1>3, <1>4, <1>5 DEF Inv, Types, Fresh
<1>7. \A f \in table : f.res \in alive /\ f.res \in Resources /\ f.res # r
  BY <1>1, <1>2 DEF Inv, TableInv, Fresh
<1>8. TableInv'
  BY <1>1, <1>2, <1>4, <1>7 DEF Inv, TableInv, Fresh
<1>9. HoldInv'
  <2>1. \A u \in Threads : holds[u].res # Nothing => holds[u].res \in alive /\ holds[u].res \in Resources /\ holds[u].res # r
    BY <1>1, <1>2 DEF Inv, HoldInv, Fresh
  <2>2. \A u \in Threads : holds[u].res # r
    BY <1>3, <2>1
  <2>. SUFFICES ASSUME NEW u \in Threads
                PROVE  /\ holds'[u].new => holds'[u].res # Nothing
                       /\ holds'[u].res # Nothing =>
                            /\ holds'[u].res \in alive' /\ kind'[holds'[u].res] = "message"
                            /\ \A f \in table' : f.res # holds'[u].res
                            /\ \A v \in Threads : holds'[v].res = holds'[u].res => v = u
    BY DEF HoldInv
  <2>3. CASE u = t
    BY <1>1, <1>2, <1>3, <1>4, <1>5, <1>7, <2>2, <2>3 DEF Fresh
  <2>4. CASE u # t
    <3>1. holds'[u] = holds[u]
      BY <1>5, <2>4
    <3>2. holds'[u].res # Nothing => holds'[u].res \in alive' /\ kind'[holds'[u].res] = "message"
      BY <1>1, <1>2, <2>1, <3>1 DEF Fresh, Inv, HoldInv
    <3>. QED BY <1>4, <1>5, <2>2, <3>1, <3>2 DEF Inv, HoldInv
  <2>. QED BY <2>3, <2>4
<1>10. GivenInv'
  BY <1>4 DEF Inv, GivenInv
<1>11. OwnedInv'
  <2>1. \A u \in Threads : holds[u].res # Nothing => holds'[u] = holds[u]
    BY <1>4, <1>5
  <2>2. \A x \in alive : x \in Resources /\ x # r /\ kind'[x] = kind[x] /\ x # Nothing
    BY <1>1, <1>2, NAssumption DEF Fresh, Resources, Nothing
  <2>3. \A x \in alive' : kind'[x] \in Tables
    BY <1>1, <1>2, <2>2 DEF Inv, OwnedInv, Fresh, Tables
  <2>. SUFFICES ASSUME NEW x \in alive', phase = "open" \/ kind'[x] = "message"
                PROVE  (\E f \in table : f.res = x) \/ (\E u \in Threads : holds'[u].res = x)
    BY <1>4, <2>3 DEF OwnedInv
  <2>4. CASE x = r
    BY <1>5, <2>4
  <2>5. CASE x \in alive
    BY <2>1, <2>2, <2>5 DEF Inv, OwnedInv
  <2>. QED BY <1>1, <1>2, <2>4, <2>5 DEF Fresh
<1>12. LateInv'
  BY <1>1, <1>2, <1>4 DEF Inv, LateInv, Fresh
<1>. QED BY <1>6, <1>8, <1>9, <1>10, <1>11, <1>12 DEF Inv

(* A thread puts the message it made in the table. *)
LEMMA StoreMessageKeeps ==
  ASSUME Inv, NEW t \in Threads, StoreMessage(t)
  PROVE  Inv'
<1>1. PICK r : r = holds[t].res
  OBVIOUS
<1>2. /\ Store("message", r) /\ UNCHANGED <<phase, made, kind, alive, late, bindings>>
      /\ holds' = [holds EXCEPT ![t] = [res |-> Nothing, new |-> FALSE]] /\ holds[t].new
  BY <1>1 DEF StoreMessage
<1>3. /\ r # Nothing /\ r \in alive /\ kind[r] = "message" /\ \A f \in table : f.res # r
      /\ \A u \in Threads : u # t => holds[u].res # r
  BY <1>1, <1>2 DEF Inv, HoldInv
<1>4. alive \subseteq Resources /\ bindings \subseteq given
  BY NAssumption DEF Inv, Types, Resources
<1>5. holds' \in [Threads -> [res : Nat, new : BOOLEAN]]
  BY <1>2 DEF Inv, Types, Nothing
<1>6. \A u \in Threads : \/ holds'[u] = holds[u] /\ holds[u].res # r
                         \/ holds[u].res = r /\ holds'[u] = [res |-> Nothing, new |-> FALSE]
  BY <1>1, <1>2, <1>3 DEF Inv, Types
<1>7. Storable("message", r)
  BY <1>2, <1>3, <1>4, <1>5, <1>6 DEF Inv, Types, Storable
<1>. QED BY <1>2, <1>4, <1>7, StoredKeeps DEF Tables

(* One thread takes a message out of the table. *)
LEMMA TakeMessageKeeps ==
  ASSUME Inv, NEW t \in Threads, NEW id \in 1..N, TakeMessage(t, id)
  PROVE  Inv'
<1>1. PICK r : r = Load("message", id)
  OBVIOUS
<1>2. /\ r # Nothing /\ holds[t].res = Nothing
      /\ holds' = [holds EXCEPT ![t] = [res |-> r, new |-> FALSE]]
      /\ table' = Without("message", id)
      /\ UNCHANGED <<phase, made, kind, alive, late, next_id, given, bindings>>
  BY <1>1 DEF TakeMessage
<1>3. PICK e \in table : e.of = "message" /\ e.id = id /\ e.res = r
  BY <1>1, <1>2, LoadIs
<1>4. \A f \in table : f \in table' <=> f # e
  BY <1>2, <1>3 DEF Inv, TableInv, Without
<1>5. table' \subseteq table
  BY <1>2 DEF Without
<1>6. /\ r \in Nat /\ r \in alive /\ kind[r] = "message" /\ \A f \in table : f.res = r => f = e
      /\ \A u \in Threads : holds[u].res # r
  BY <1>2, <1>3 DEF Inv, Types, Entries, TableInv, HoldInv
<1>7. /\ holds' \in [Threads -> [res : Nat, new : BOOLEAN]]
      /\ holds'[t].res = r /\ ~ holds'[t].new
      /\ \A u \in Threads : u # t => holds'[u] = holds[u]
  BY <1>2, <1>6 DEF Inv, Types
<1>8. Types'
  BY <1>2, <1>5, <1>7 DEF Inv, Types
<1>9. TableInv'
  BY <1>2, <1>5 DEF Inv, TableInv
<1>10. HoldInv'
  <2>. SUFFICES ASSUME NEW u \in Threads
                PROVE  /\ holds'[u].new => holds'[u].res # Nothing
                       /\ holds'[u].res # Nothing =>
                            /\ holds'[u].res \in alive /\ kind[holds'[u].res] = "message"
                            /\ \A f \in table' : f.res # holds'[u].res
                            /\ \A v \in Threads : holds'[v].res = holds'[u].res => v = u
    BY <1>2 DEF HoldInv
  <2>1. CASE u = t
    BY <1>4, <1>5, <1>6, <1>7, <2>1
  <2>2. CASE u # t
    BY <1>5, <1>6, <1>7, <2>2 DEF Inv, HoldInv
  <2>. QED BY <2>1, <2>2
<1>11. GivenInv'
  BY <1>2, <1>5 DEF Inv, GivenInv
<1>12. OwnedInv'
  <2>. SUFFICES ASSUME NEW x \in alive, phase = "open" \/ kind[x] = "message"
                PROVE  (\E f \in table' : f.res = x) \/ (\E u \in Threads : holds'[u].res = x)
    BY <1>2 DEF Inv, OwnedInv
  <2>1. x # Nothing
    BY DEF Inv, Types, Nothing
  <2>2. CASE x = r
    BY <1>7, <2>2
  <2>3. CASE x # r
    <3>1. \A f \in table : f.res = x => f \in table'
      BY <1>3, <1>4, <2>3
    <3>2. \A u \in Threads : holds[u].res = x => holds'[u].res = x
      BY <1>2, <1>7, <2>1
    <3>. QED BY <3>1, <3>2 DEF Inv, OwnedInv
  <2>. QED BY <2>2, <2>3
<1>13. LateInv'
  BY <1>2 DEF Inv, LateInv
<1>. QED BY <1>8, <1>9, <1>10, <1>11, <1>12, <1>13 DEF Inv

(* The provider consumes the message a thread holds. *)
LEMMA UseMessageKeeps ==
  ASSUME Inv, NEW t \in Threads, UseMessage(t)
  PROVE  Inv'
<1>1. PICK r : r = holds[t].res
  OBVIOUS
<1>2. /\ r # Nothing /\ alive' = alive \ {r}
      /\ holds' = [holds EXCEPT ![t] = [res |-> Nothing, new |-> FALSE]]
      /\ UNCHANGED <<phase, made, kind, late, table, next_id, given, bindings>>
  BY <1>1 DEF UseMessage
<1>3. /\ \A f \in table : f.res # r
      /\ \A u \in Threads : u # t => holds[u].res # r
  BY <1>1, <1>2 DEF Inv, HoldInv
<1>4. /\ holds' \in [Threads -> [res : Nat, new : BOOLEAN]]
      /\ holds'[t].res = Nothing /\ ~ holds'[t].new
      /\ \A u \in Threads : u # t => holds'[u] = holds[u]
  BY <1>2 DEF Inv, Types, Nothing
<1>5. Types'
  BY <1>2, <1>4 DEF Inv, Types
<1>6. TableInv'
  BY <1>2, <1>3 DEF Inv, TableInv
<1>7. HoldInv'
  <2>. SUFFICES ASSUME NEW u \in Threads, u # t
                PROVE  /\ holds[u].new => holds[u].res # Nothing
                       /\ holds[u].res # Nothing =>
                            /\ holds[u].res \in alive' /\ kind[holds[u].res] = "message"
                            /\ \A f \in table : f.res # holds[u].res
                            /\ \A v \in Threads : holds'[v].res = holds[u].res => v = u
    BY <1>2, <1>4 DEF HoldInv
  <2>. QED BY <1>2, <1>3, <1>4 DEF Inv, HoldInv
<1>8. GivenInv'
  BY <1>2 DEF Inv, GivenInv
<1>9. OwnedInv'
  <2>. SUFFICES ASSUME NEW x \in alive, x # r, phase = "open" \/ kind[x] = "message"
                PROVE  (\E f \in table : f.res = x) \/ (\E u \in Threads : holds'[u].res = x)
    BY <1>2 DEF Inv, OwnedInv
  <2>1. \A u \in Threads : holds[u].res = x => holds'[u].res = x
    BY <1>1, <1>4
  <2>. QED BY <2>1 DEF Inv, OwnedInv
<1>10. LateInv'
  BY <1>2 DEF Inv, LateInv
<1>. QED BY <1>5, <1>6, <1>7, <1>8, <1>9, <1>10 DEF Inv

(* The release leaves the messages in their table. *)
LEMMA MessagesKept ==
  ASSUME Inv, alive' \subseteq alive, table' = {e \in table : e.of = "message"},
         bindings' \subseteq given, UNCHANGED <<made, kind, late, given, holds>>,
         phase' \in {"closing", "closed"},
         \A r \in alive : kind[r] = "message" => r \in alive',
         next_id' \in [Tables -> Nat \ {0}], next_id'["message"] = next_id["message"]
  PROVE  Types' /\ TableInv' /\ HoldInv' /\ GivenInv' /\ OwnedInv'
<1>1. Types'
  BY DEF Inv, Types
<1>2. TableInv'
  BY DEF Inv, TableInv
<1>3. HoldInv'
  BY DEF Inv, HoldInv
<1>4. GivenInv'
  BY DEF Inv, GivenInv
<1>5. OwnedInv'
  <2>. SUFFICES ASSUME NEW x \in alive, kind[x] = "message"
                PROVE  (\E e \in table' : e.res = x) \/ (\E t \in Threads : holds[t].res = x)
    BY DEF Inv, OwnedInv
  <2>1. \A e \in table : e.res = x => e \in table'
    BY DEF Inv, TableInv
  <2>. QED BY <2>1 DEF Inv, OwnedInv
<1>. QED BY <1>1, <1>2, <1>3, <1>4, <1>5

(* What has an entry when the release starts and is the bridge's to free is
   freed; no lease and no bytecode had none. *)
LEMMA DisposeKeeps ==
  ASSUME Inv, Dispose
  PROVE  Inv'
<1>. DEFINE Freed == {r \in OfKind({"lease", "bytecode", "registry"}) : \E e \in table : e.res = r}
<1>1. /\ phase = "open" /\ phase' = "closing" /\ alive' = alive \ Freed
      /\ table' = {e \in table : e.of = "message"}
      /\ UNCHANGED <<made, kind, late, given, bindings, holds>>
      /\ next_id' = [t \in Tables |-> IF t = "message" THEN next_id[t] ELSE 1]
  BY DEF Dispose
<1>2. next_id' \in [Tables -> Nat \ {0}] /\ next_id'["message"] = next_id["message"]
  BY <1>1 DEF Inv, Types, Tables
<1>3. \A r \in alive : kind[r] = "message" => r \in alive'
  BY <1>1 DEF OfKind
<1>4. bindings \subseteq given /\ alive \subseteq Resources
  BY NAssumption DEF Inv, Types, Resources
<1>5. Types' /\ TableInv' /\ HoldInv' /\ GivenInv' /\ OwnedInv'
  BY <1>1, <1>2, <1>3, <1>4, MessagesKept
<1>6. \A r \in alive : kind[r] \in {"lease", "bytecode"} => r \in Freed
  <2>. SUFFICES ASSUME NEW r \in alive, kind[r] \in {"lease", "bytecode"}
                PROVE  r \in Freed
    OBVIOUS
  <2>1. r # Nothing
    BY DEF Inv, Types, Nothing
  <2>2. \A t \in Threads : holds[t].res # r
    BY <2>1 DEF Inv, HoldInv
  <2>3. \E e \in table : e.res = r
    BY <1>1, <2>2 DEF Inv, OwnedInv
  <2>4. r \in Resources /\ kind[r] \in {"lease", "bytecode", "registry"}
    BY <1>4
  <2>. QED BY <2>3, <2>4 DEF OfKind
<1>7. LateInv'
  BY <1>1, <1>6 DEF LateInv
<1>. QED BY <1>5, <1>7 DEF Inv

(* The provider frees what its env held: what is left of the env was made
   during the release. *)
LEMMA DisposedKeeps ==
  ASSUME Inv, Disposed
  PROVE  Inv'
<1>. DEFINE Freed == OfKind({"ref", "deferred", "module", "profile", "registry"})
<1>1. /\ phase = "closing" /\ phase' = "closed" /\ alive' = alive \ Freed
      /\ table' = {e \in table : e.of = "message"} /\ bindings' = {}
      /\ UNCHANGED <<made, kind, late, given, holds, next_id>>
  BY DEF Disposed
<1>2. next_id' \in [Tables -> Nat \ {0}] /\ next_id'["message"] = next_id["message"]
  BY <1>1 DEF Inv, Types
<1>3. \A r \in alive : kind[r] = "message" => r \in alive'
  BY <1>1 DEF OfKind
<1>4. alive \subseteq Resources
  BY NAssumption DEF Inv, Types, Resources
<1>5. Types' /\ TableInv' /\ HoldInv' /\ GivenInv' /\ OwnedInv'
  BY <1>1, <1>2, <1>3, MessagesKept
<1>6. \A r \in alive' : kind[r] = "message" \/ r \in late
  <2>. SUFFICES ASSUME NEW r \in alive, r \notin Freed
                PROVE  kind[r] = "message" \/ r \in late
    BY <1>1
  <2>1. kind[r] \in Tables /\ kind[r] \notin {"ref", "deferred", "module", "profile", "registry"}
    BY <1>4 DEF Inv, OwnedInv, OfKind
  <2>2. kind[r] \in {"lease", "bytecode", "message"}
    BY <2>1 DEF Tables, Owned
  <2>. QED BY <1>1, <2>2 DEF Inv, LateInv
<1>7. LateInv'
  BY <1>1, <1>6 DEF LateInv
<1>. QED BY <1>5, <1>7 DEF Inv

(* The invariant holds at the start. *)
LEMMA InitInv == Init => Inv
<1>. SUFFICES ASSUME Init PROVE Inv
  OBVIOUS
<1>1. Types
  BY NAssumption DEF Init, Types, Nothing
<1>2. TableInv /\ HoldInv /\ GivenInv /\ OwnedInv /\ LateInv
  BY DEF Init, TableInv, HoldInv, GivenInv, OwnedInv, LateInv
<1>. QED BY <1>1, <1>2 DEF Inv

(* Every step keeps it. *)
LEMMA NextInv == Inv /\ [Next]_vars => Inv'
<1>. SUFFICES ASSUME Inv, [Next]_vars PROVE Inv'
  OBVIOUS
<1>1. ASSUME NEW s \in Shapes, NEW id \in 1..N, NEW outcome \in Outcomes, Import(s, id, outcome) PROVE Inv'
  BY <1>1, ImportKeeps
<1>2. ASSUME NEW s \in Shapes, NEW id \in 1..N, Enter(s, id) PROVE Inv'
  BY <1>2, SameKeeps DEF Enter
<1>3. CASE Fire \/ Leave
  BY <1>3, SameKeeps DEF Fire, Leave
<1>4. ASSUME NEW t \in Threads, CreateMessage(t) PROVE Inv'
  BY <1>4, CreateMessageKeeps
<1>5. ASSUME NEW t \in Threads, StoreMessage(t) PROVE Inv'
  BY <1>5, StoreMessageKeeps
<1>6. ASSUME NEW t \in Threads, NEW id \in 1..N, TakeMessage(t, id) PROVE Inv'
  BY <1>6, TakeMessageKeeps
<1>7. ASSUME NEW t \in Threads, UseMessage(t) PROVE Inv'
  BY <1>7, UseMessageKeeps
<1>8. CASE Dispose
  BY <1>8, DisposeKeeps
<1>9. CASE Disposed
  BY <1>9, DisposedKeeps
<1>10. CASE UNCHANGED vars
  BY <1>10, SameKeeps DEF vars
<1>. QED BY <1>1, <1>2, <1>3, <1>4, <1>5, <1>6, <1>7, <1>8, <1>9, <1>10 DEF Next

(* The handle tables keep their invariant, for every number of resources,
   whatever statuses the provider's calls end with and however the two
   threads' steps interleave. *)
THEOREM HandlesInvariant == Spec => []Inv
  BY InitInv, NextInv, PTL DEF Spec

-----------------------------------------------------------------------------
(* What the invariant gives.                                               *)

(* The entries and the threads that own a resource are none or one. *)
LEMMA OwnersAre ==
  ASSUME Inv, NEW r \in Resources
  PROVE  /\ Owners(r) \in {0, 1}
         /\ Owners(r) = 1 <=> (\E e \in table : e.res = r) \/ (\E t \in Threads : holds[t].res = r)
<1>. DEFINE E == {e \in table : e.res = r}
            H == {t \in Threads : holds[t].res = r}
<1>1. r # Nothing
  BY NAssumption DEF Resources, Nothing
<1>2. E = {} \/ \E e : E = {e}
  BY DEF Inv, TableInv
<1>3. H = {} \/ \E t : H = {t}
  BY <1>1 DEF Inv, HoldInv
<1>4. E = {} \/ H = {}
  BY <1>1 DEF Inv, HoldInv
<1>5. /\ E = {} => Cardinality(E) = 0
      /\ H = {} => Cardinality(H) = 0
      /\ E # {} => Cardinality(E) = 1
      /\ H # {} => Cardinality(H) = 1
  BY <1>2, <1>3, FS_EmptySet, FS_Singleton
<1>6. Owners(r) = Cardinality(E) + Cardinality(H)
  BY DEF Owners
<1>7. CASE E = {} /\ H = {}
  <2>1. Owners(r) = 0
    BY <1>5, <1>6, <1>7
  <2>. QED BY <1>7, <2>1
<1>8. CASE E # {} \/ H # {}
  <2>1. Owners(r) = 1
    BY <1>4, <1>5, <1>6, <1>8
  <2>. QED BY <1>8, <2>1
<1>. QED BY <1>7, <1>8

(* No id leads to a resource that is gone, no resource has two ids, none is
   left without one while its env is open, and a message is in the table or
   in one thread's hands until it is consumed. *)
THEOREM ResourcesOwnedOnce == Spec => []OneOwner
<1>1. Inv => OneOwner
  <2>. SUFFICES ASSUME Inv PROVE OneOwner
    OBVIOUS
  <2>1. ASSUME NEW r \in Resources PROVE Owners(r) <= IF r \in alive THEN 1 ELSE 0
    <3>1. CASE r \in alive
      BY <3>1, OwnersAre
    <3>2. CASE r \notin alive
      <4>1. r # Nothing
        BY NAssumption DEF Resources, Nothing
      <4>2. ~ ((\E e \in table : e.res = r) \/ (\E t \in Threads : holds[t].res = r))
        BY <3>2, <4>1 DEF Inv, TableInv, HoldInv
      <4>3. Owners(r) = 0
        BY <4>2, OwnersAre
      <4>. QED BY <3>2, <4>3
    <3>. QED BY <3>1, <3>2
  <2>2. ASSUME NEW r \in alive, phase = "open" \/ kind[r] = "message" PROVE Owners(r) = 1
    <3>1. r \in Resources
      BY NAssumption DEF Inv, Types, Resources
    <3>. QED BY <2>2, <3>1, OwnersAre DEF Inv, OwnedInv
  <2>. QED BY <2>1, <2>2 DEF OneOwner
<1>. QED BY <1>1, HandlesInvariant, PTL

(* An id the guest or a JS function keeps leads to what it was given for, or
   nowhere: while the env is open, and a message's id always. *)
THEOREM IdsAreNotReused == Spec => []IdsNameOne
<1>1. Inv => IdsNameOne
  <2>. SUFFICES ASSUME Inv, NEW e \in given \cup bindings, phase = "open" \/ e.of = "message",
                       Load(e.of, e.id) # Nothing
                PROVE  Load(e.of, e.id) = e.res
    BY DEF IdsNameOne
  <2>1. e \in given
    BY DEF Inv, Types
  <2>2. PICK f \in table : f.of = e.of /\ f.id = e.id /\ f.res = Load(e.of, e.id)
    BY LoadIs
  <2>. QED BY <2>1, <2>2 DEF Inv, GivenInv
<1>. QED BY <1>1, HandlesInvariant, PTL

(* When the release is over, of what the guest had made before it only
   messages are left. *)
THEOREM NothingOutlivesRelease == Spec => []ReleaseReclaims
<1>1. Inv => ReleaseReclaims
  BY DEF Inv, LateInv, ReleaseReclaims
<1>. QED BY <1>1, HandlesInvariant, PTL
=============================================================================
