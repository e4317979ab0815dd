---------------------------- MODULE ModuleLoader ----------------------------
(***************************************************************************)
(* The vm module calls (module_wrap_create, link, instantiate, evaluate,   *)
(* evaluate_sync, create_required_module_facade, destroy) of both          *)
(* providers.  A module is a record of the provider over a module of the   *)
(* engine.  Script reaches these calls again from a module's body, from a  *)
(* synthetic module's steps and, while a link fails, from what runs when   *)
(* the error is made; the engines abort the process for a module in the    *)
(* wrong status, so the providers refuse a call that would get there.      *)
(*                                                                         *)
(* One thread, a stack of frames, the running one last:                    *)
(*   link     an instantiation that fails, while its error is made (script)*)
(*   eval     the engine's depth first evaluation                          *)
(*   script   a module's body or a synthetic module's steps                *)
(* One realm; a request is its place in the module's request list.  An     *)
(* evaluation that awaits counts as ended: its module has left the status  *)
(* "evaluating", the one the guards are about.  ReentryProofs extends this *)
(* module beside NapiCalls, hence LoaderInit, LoaderNext, LoaderSpec.      *)
(***************************************************************************)
EXTENDS Integers, FiniteSets, Sequences, SequencesExt

CONSTANTS Modules,       \* the records made
          NoModule,      \* a link whose record was destroyed (null)
          MaxRequests,   \* the most requests of a module
          MaxScripts     \* how deep script may nest

ASSUME ModulesAssumption == IsFiniteSet(Modules) /\ NoModule \notin Modules
ASSUME BoundsAssumption == MaxRequests \in Nat /\ MaxScripts \in Nat

VARIABLES
  engine,         \* "v8" or "quickjs"
  life,           \* a record: "none", "live", "dying" (destroy_requested) or "gone"
  synthetic,      \* the synthetic modules
  requests,       \* how many modules each requests
  links,          \* linked_requests, linked_records; empty when never linked
  edges,          \* what the engine resolved the requests to
  status,         \* the engine's: unlinked, linking, linked, evaluating,
                  \* evaluated or errored
  instantiations, \* instantiations, links_running_
  steps_running,  \* synthetic_steps_running
  active_calls,   \* per record, QuickJS only
  frames,
  aborted,        \* an engine's check failed and ended the process
  severed         \* records destroyed that the engine still linked to

recordVars == <<life, synthetic, requests, links>>
loaderVars == <<engine, recordVars, edges, status, instantiations, steps_running,
                active_calls, frames, aborted, severed>>

Live == {m \in Modules : life[m] = "live"}
Known == {m \in Modules : life[m] \in {"live", "dying"}}   \* in the records list
InStatus(S) == {m \in Modules : status[m] \in S}

\* The modules reached from m along `along`, going on through those in S: the
\* least set that has m and what its modules in S lead to.
Closed(T, along, S) == \A x \in T \cap S : Range(along[x]) \cap Modules \subseteq T
Reached(m, along, S) ==
  {x \in Modules : \A T \in SUBSET Modules : m \in T /\ Closed(T, along, S) => x \in T}

TopFrame == Last(frames)
\* Native code runs: the host's own, or under script.
MayCall == /\ ~aborted
           /\ frames # <<>> => TopFrame.at \in {"script", "link"}
Scripts == Len(SelectSeq(frames, LAMBDA f : f.at \in {"script", "link"}))

LinkFrame(m, S) == [at |-> "link", of |-> m, mods |-> S, path |-> <<>>]
ScriptFrame(m) == [at |-> "script", of |-> m, mods |-> {}, path |-> <<>>]
\* mods: modules done that wait for the first module of their cycle.
EvalFrame(m, path, waiting) == [at |-> "eval", of |-> m, mods |-> waiting, path |-> path]

Visit(m, next) == [mod |-> m, next |-> next]

-----------------------------------------------------------------------------
\* Records

\* m's record is freed; no link keeps its address.
FreeRecord(m) ==
  /\ life' = [life EXCEPT ![m] = "gone"]
  /\ links' = [x \in Modules |->
       IF x = m THEN <<>> ELSE [i \in DOMAIN links[x] |->
         IF links[x][i] = m THEN NoModule ELSE links[x][i]]]
  /\ severed' = (severed \/ \E x \in Modules \ {m} : m \in Range(edges[x]))

KeepRecords == UNCHANGED <<life, links, severed>>

\* ~record_scope: the last call of a record destroyed meanwhile frees it.
EndCall(m) ==
  /\ active_calls' = [active_calls EXCEPT ![m] = IF engine = "quickjs" THEN @ - 1 ELSE @]
  /\ IF life[m] = "dying" /\ active_calls'[m] = 0 THEN FreeRecord(m) ELSE KeepRecords

StartCall(m) ==
  active_calls' = [active_calls EXCEPT ![m] = IF engine = "quickjs" THEN @ + 1 ELSE @]

NewRecord(m, n) ==
  /\ MayCall
  /\ life[m] = "none"
  /\ life' = [life EXCEPT ![m] = "live"]
  /\ requests' = [requests EXCEPT ![m] = n]
  /\ UNCHANGED <<engine, links, edges, status, instantiations, steps_running,
                 active_calls, frames, aborted, severed>>

CreateSourceTextModule(m, n) == NewRecord(m, n) /\ UNCHANGED synthetic

\* A synthetic module requests none.
CreateSyntheticModule(m) == NewRecord(m, 0) /\ synthetic' = synthetic \cup {m}

\* (Mutant: a record in use is freed at once.)
DestroyAtOnce(m) ==
  /\ MayCall
  /\ m \in Live
  /\ FreeRecord(m)
  /\ UNCHANGED <<engine, synthetic, requests, edges, status, instantiations,
                 steps_running, active_calls, frames, aborted>>

Destroy(m) ==
  /\ MayCall
  /\ m \in Live
  /\ IF active_calls[m] # 0
     THEN /\ life' = [life EXCEPT ![m] = "dying"]
          /\ UNCHANGED <<links, severed>>
     ELSE FreeRecord(m)
  /\ UNCHANGED <<engine, synthetic, requests, edges, status, instantiations,
                 steps_running, active_calls, frames, aborted>>

\* V8 shows a module it prepares to link as one not instantiated.
NotInstantiated(m) == status[m] = "unlinked" \/ (engine = "v8" /\ status[m] = "linking")

\* module_wrap_link: QuickJS hands the links to the engine at once, V8 asks
\* for them when it instantiates.
Link(m, to) ==
  /\ MayCall
  /\ m \in Live
  /\ NotInstantiated(m)
  /\ requests[m] > 0
  /\ to \in [1..requests[m] -> Live]
  /\ links' = [links EXCEPT ![m] = to]
  /\ edges' = IF engine = "quickjs" THEN [edges EXCEPT ![m] = to] ELSE edges
  /\ UNCHANGED <<engine, life, synthetic, requests, status, instantiations,
                 steps_running, active_calls, frames, aborted, severed>>

-----------------------------------------------------------------------------
\* Instantiation

\* What the engine resolves requests with while it links.
Resolved == IF engine = "v8" THEN links ELSE edges

\* (Mutant: the linker takes the modules it meets as its own.)
ToLinkAll(m) == Reached(m, Resolved, InStatus({"unlinked"}))

ToLink(m) == Reached(m, Resolved, InStatus({"unlinked"})) \cap InStatus({"unlinked"})

Unresolved(m) ==
  \E x \in ToLink(m) : requests[x] > 0
    /\ \/ Resolved[x] = <<>>
       \/ engine = "v8" /\ (x \notin Known \/ NoModule \in Range(Resolved[x]))

\* QuickJS's linker asserts that it meets no module being evaluated.
LinkerAborts(m) ==
  engine = "quickjs"
    /\ \E x \in ToLink(m) : Range(edges[x]) \cap InStatus({"evaluating"}) # {}

\* InstantiationScope::ThrowIfRunning; throw_if_linking and the walk of
\* link_module.
LinkRefused(m) ==
  \/ instantiations > 0
  \/ /\ engine = "quickjs"
     /\ Reached(m, links, InStatus({"unlinked"})) \cap InStatus({"evaluating"}) # {}

\* Script runs while the error of a link is made.
LinkFails(m) ==
  /\ Scripts < MaxScripts
  /\ status' = [x \in Modules |-> IF x \in ToLink(m) THEN "linking" ELSE status[x]]
  /\ instantiations' = instantiations + 1
  /\ StartCall(m)
  /\ frames' = Append(frames, LinkFrame(m, ToLink(m)))
  /\ UNCHANGED <<edges, steps_running, aborted>>

\* The error is made: the engine takes back what it had half linked.
LinkFailed ==
  /\ ~aborted
  /\ frames # <<>> /\ TopFrame.at = "link"
  /\ status' = [x \in Modules |-> IF x \in TopFrame.mods THEN "unlinked" ELSE status[x]]
  /\ instantiations' = instantiations - 1
  /\ frames' = Front(frames)
  /\ EndCall(TopFrame.of)
  /\ UNCHANGED <<engine, synthetic, requests, edges, steps_running, aborted>>

EdgesLinked(m) ==
  IF engine = "quickjs" THEN edges
  ELSE [x \in Modules |-> IF x \in ToLink(m) THEN links[x] ELSE edges[x]]

Abort ==
  /\ aborted' = TRUE
  /\ UNCHANGED <<edges, status, instantiations, steps_running, active_calls, frames>>

\* module_wrap_instantiate.  A refused call changes nothing.
Instantiate(m) ==
  /\ MayCall
  /\ m \in Live
  /\ engine = "quickjs" => status[m] \in {"unlinked", "linking"}
  /\ ~LinkRefused(m)
  /\ \/ /\ LinkerAborts(m)
        /\ Abort
     \/ /\ ~LinkerAborts(m)
        /\ LinkFails(m)
     \/ /\ ~LinkerAborts(m) /\ ~Unresolved(m)
        /\ status' = [x \in Modules |-> IF x \in ToLink(m) THEN "linked" ELSE status[x]]
        /\ edges' = EdgesLinked(m)
        /\ UNCHANGED <<instantiations, steps_running, active_calls, frames, aborted>>
  /\ UNCHANGED <<engine, recordVars, severed>>

-----------------------------------------------------------------------------
\* Evaluation

\* (Mutant: the synthetic modules it imports are not looked at.)
EvaluateRefusedWhenEvaluating(m) == status[m] = "evaluating"

\* ThrowIfEvaluating and ThrowIfImportingAnEvaluatingSyntheticModule: V8 walks
\* after the module is instantiated, QuickJS before it is linked.
EvaluateRefused(m) ==
  \/ status[m] = "evaluating"
  \/ /\ steps_running > 0
     /\ LET Through == IF engine = "v8" THEN InStatus({"linked"}) \cup ToLink(m)
                       ELSE InStatus({"unlinked", "linked"})
        IN Reached(m, links, Through \ synthetic)
             \cap synthetic \cap InStatus({"evaluating"}) # {}

\* module_wrap_evaluate and evaluate_sync.  The engine starts on m; one already
\* evaluated only answers its promise again.
Evaluate(m) ==
  /\ MayCall
  /\ m \in Live
  /\ Scripts < MaxScripts
  /\ ~EvaluateRefused(m)
  /\ status[m] \in {"unlinked", "linking", "linked"}
  /\ status[m] = "linked" \/ ~LinkRefused(m)
  /\ \/ /\ LinkerAborts(m)
        /\ Abort
     \/ /\ status[m] # "linked" /\ ~LinkerAborts(m)
        /\ LinkFails(m)
     \/ /\ ~LinkerAborts(m) /\ ~Unresolved(m)
        /\ status' = [x \in Modules |-> IF x = m THEN "evaluating"
                                        ELSE IF x \in ToLink(m) THEN "linked" ELSE status[x]]
        /\ edges' = EdgesLinked(m)
        /\ StartCall(m)
        /\ frames' = Append(frames, EvalFrame(m, <<Visit(m, 1)>>, {}))
        /\ UNCHANGED <<instantiations, steps_running, aborted>>
  /\ UNCHANGED <<engine, recordVars, severed>>

\* The facade is evaluated with the module it wraps, and is refused while an
\* instantiation runs also when that module is linked.
CreateRequiredModuleFacade(m) == instantiations = 0 /\ Evaluate(m)

EvaluationOnTop ==
  /\ ~aborted
  /\ frames # <<>>
  /\ TopFrame.at = "eval"

Here == Last(TopFrame.path)     \* the module the engine is at
AllImports == Len(edges[Here.mod])
BodyDue == AllImports + 1
Ended == AllImports + 2
Threw == 0

\* The engine goes on in its frame, at `visits` instead of the last visit.
GoOn(visits) ==
  frames' = Append(Front(frames), EvalFrame(TopFrame.of, Front(TopFrame.path) \o visits,
                                             TopFrame.mods))

\* Evaluates the next import, when that is still to do.  A failed one fails
\* its importer; a cycle back to a source module is passed over.
Import ==
  /\ EvaluationOnTop
  /\ Here.next \in 1..AllImports
  /\ LET d == edges[Here.mod][Here.next]
         passed == Visit(Here.mod, Here.next + 1)
     IN \/ /\ status[d] = "linked"
           /\ status' = [status EXCEPT ![d] = "evaluating"]
           /\ GoOn(<<passed, Visit(d, 1)>>)
           /\ UNCHANGED aborted
        \/ /\ \/ status[d] = "evaluated"
              \/ status[d] = "evaluating" /\ (engine = "quickjs" \/ d \notin synthetic)
           /\ GoOn(<<passed>>)
           /\ UNCHANGED <<status, aborted>>
        \/ /\ status[d] = "errored"
           /\ GoOn(<<Visit(Here.mod, Threw)>>)
           /\ UNCHANGED <<status, aborted>>
        \/ /\ \/ status[d] \in {"unlinked", "linking"}
              \/ status[d] = "evaluating" /\ engine = "v8" /\ d \in synthetic
           /\ aborted' = TRUE
           /\ UNCHANGED <<status, frames>>
  /\ UNCHANGED <<engine, recordVars, edges, instantiations, steps_running,
                 active_calls, severed>>

\* A synthetic module whose record is gone has no steps.
HasScript(m) == m \notin synthetic \/ m \in Known
SyntheticSteps(m) == IF m \in synthetic THEN 1 ELSE 0

RunBody ==
  /\ EvaluationOnTop
  /\ Here.next = BodyDue
  /\ LET m == Here.mod
     IN \/ /\ HasScript(m)
           /\ frames' = Append(frames, ScriptFrame(m))
           /\ steps_running' = steps_running + SyntheticSteps(m)
           /\ IF m \in synthetic THEN StartCall(m) ELSE UNCHANGED active_calls
        \/ /\ ~HasScript(m)
           /\ GoOn(<<Visit(m, Ended)>>)
           /\ UNCHANGED <<steps_running, active_calls>>
  /\ UNCHANGED <<engine, recordVars, edges, status, instantiations, aborted, severed>>

ScriptEnds(threw) ==
  /\ ~aborted
  /\ frames # <<>> /\ TopFrame.at = "script"
  /\ LET m == TopFrame.of
         f == frames[Len(frames) - 1]
         next == IF threw THEN Threw ELSE Len(edges[m]) + 2
     IN /\ frames' = Append(SubSeq(frames, 1, Len(frames) - 2),
                            EvalFrame(f.of, Append(Front(f.path), Visit(m, next)), f.mods))
        /\ steps_running' = steps_running - SyntheticSteps(m)
        /\ IF m \in synthetic THEN EndCall(m) ELSE UNCHANGED <<active_calls, life, links, severed>>
  /\ UNCHANGED <<engine, synthetic, requests, edges, status, instantiations, aborted>>

\* The engine is done with the module it is at.  A module of a cycle waits
\* for the cycle's first one; that one makes them all evaluated.
Finish ==
  /\ EvaluationOnTop
  /\ Here.next = Ended
  /\ LET m == Here.mod
         path == Front(TopFrame.path)
         around == Reached(m, edges, InStatus({"evaluating"}))
         waits == \E i \in DOMAIN path : path[i].mod \in around
         done == IF waits THEN {} ELSE {m} \cup (TopFrame.mods \cap around)
     IN /\ status' = [x \in Modules |-> IF x \in done THEN "evaluated" ELSE status[x]]
        /\ IF path = <<>>
           THEN /\ frames' = Front(frames)
                /\ EndCall(TopFrame.of)
           ELSE /\ frames' = Append(Front(frames),
                                    EvalFrame(TopFrame.of, path, (TopFrame.mods \cup {m}) \ done))
                /\ UNCHANGED <<active_calls, life, links, severed>>
  /\ UNCHANGED <<engine, synthetic, requests, edges, instantiations, steps_running, aborted>>

\* The evaluation fails, and with it every module it had not made evaluated.
Fail ==
  /\ EvaluationOnTop
  /\ Here.next = Threw
  /\ LET all == TopFrame.mods \cup {TopFrame.path[i].mod : i \in DOMAIN TopFrame.path}
     IN status' = [x \in Modules |-> IF x \in all THEN "errored" ELSE status[x]]
  /\ frames' = Front(frames)
  /\ EndCall(TopFrame.of)
  /\ UNCHANGED <<engine, synthetic, requests, edges, instantiations, steps_running, aborted>>

\* The env's release frees every record; no call runs then.
Teardown ==
  /\ ~aborted
  /\ frames = <<>>
  /\ Known # {}
  /\ life' = [m \in Modules |-> "gone"]
  /\ links' = [m \in Modules |-> <<>>]
  /\ UNCHANGED <<engine, synthetic, requests, edges, status, instantiations,
                 steps_running, active_calls, frames, aborted, severed>>

-----------------------------------------------------------------------------
LoaderInit ==
  /\ engine \in {"v8", "quickjs"}
  /\ life = [m \in Modules |-> "none"]
  /\ synthetic = {}
  /\ requests = [m \in Modules |-> 0]
  /\ links = [m \in Modules |-> <<>>]
  /\ edges = [m \in Modules |-> <<>>]
  /\ status = [m \in Modules |-> "unlinked"]
  /\ instantiations = 0
  /\ steps_running = 0
  /\ active_calls = [m \in Modules |-> 0]
  /\ frames = <<>>
  /\ aborted = FALSE
  /\ severed = FALSE

LoaderNext ==
  \/ \E m \in Modules :
       \/ \E n \in 0..MaxRequests : CreateSourceTextModule(m, n)
       \/ CreateSyntheticModule(m)
       \/ \E to \in UNION {[1..n -> Modules] : n \in 1..MaxRequests} : Link(m, to)
       \/ Instantiate(m)
       \/ Evaluate(m)
       \/ CreateRequiredModuleFacade(m)
       \/ Destroy(m)
  \/ LinkFailed
  \/ Import
  \/ RunBody
  \/ \E threw \in BOOLEAN : ScriptEnds(threw)
  \/ Finish
  \/ Fail
  \/ Teardown

LoaderSpec == LoaderInit /\ [][LoaderNext]_loaderVars

-----------------------------------------------------------------------------
\* The state variables hold values of their types.
LoaderTypeOK ==
  /\ engine \in {"v8", "quickjs"}
  /\ life \in [Modules -> {"none", "live", "dying", "gone"}]
  /\ synthetic \subseteq Modules
  /\ requests \in [Modules -> 0..MaxRequests]
  /\ \A m \in Modules : /\ Range(links[m]) \subseteq Modules \cup {NoModule}
                        /\ Range(edges[m]) \subseteq Modules \cup {NoModule}
  /\ status \in [Modules -> {"unlinked", "linking", "linked", "evaluating",
                             "evaluated", "errored"}]
  /\ instantiations \in 0..1
  /\ steps_running \in Nat
  /\ active_calls \in [Modules -> Nat]
  /\ aborted \in BOOLEAN /\ severed \in BOOLEAN

\* However script re-enters the loader, neither engine meets a module in a
\* status it ends the process for (V8's checks in Module::Evaluate, QuickJS's
\* asserts in its linker), as long as no record was destroyed that the engine
\* still links another module to: the guards walk the records.
EngineContract == aborted => severed

\* The same with nothing excepted, as the comment on
\* ThrowIfImportingAnEvaluatingSyntheticModule states it: what the evaluation
\* would reach imports no synthetic module being evaluated.
NeverAborts == ~aborted

\* A record that a call on the stack goes on to use is not freed under it
\* (QuickJS: record_scope), and what the calls counted and half did is undone
\* when they are gone: no module is left linking or evaluating, no record
\* left to free, no guard left shut.
CallsLeaveNothing ==
  /\ \A i \in DOMAIN frames :
       (engine = "quickjs" /\ (frames[i].at # "script" \/ frames[i].of \in synthetic))
         => frames[i].of \in Known
  /\ frames = <<>> =>
       /\ instantiations = 0 /\ steps_running = 0
       /\ InStatus({"linking", "evaluating"}) = {}
       /\ \A m \in Modules : active_calls[m] = 0 /\ life[m] # "dying"

Rank(s) == CASE s = "unlinked" -> 0 [] s = "linking" -> 1 [] s = "linked" -> 2
             [] s = "evaluating" -> 3 [] OTHER -> 4

\* A module never goes back: not from linked, nor from an evaluation under
\* way, whatever script runs meanwhile; only a link that fails is undone.
NeverBack ==
  [][\A m \in Modules : \/ Rank(status'[m]) >= Rank(status[m])
                        \/ status[m] = "linking" /\ status'[m] = "unlinked"]_loaderVars
=============================================================================
