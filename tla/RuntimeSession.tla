--------------------------- MODULE RuntimeSession ---------------------------
(***************************************************************************)
(* FRuntimeSession: builds a Lua VM out of the modules of the packages,    *)
(* takes them through the lifecycle phases, serves, and takes them down    *)
(* again.  Each session object is used by one thread; objects of several   *)
(* threads share GLiveVmCount only.  An object outlives its VMs: the host  *)
(* starts it again and again with a new generation.                        *)
(*                                                                         *)
(* Every Lua call may fail.  A module that does not export a hook passes   *)
(* the phase like one whose hook returns.                                  *)
(***************************************************************************)
EXTENDS ModuleGraph

CONSTANTS
    Sessions,      \* FRuntimeSession objects, each on a thread of its own
    Graphs,        \* the declarations a start may find in its sources
    Sections,      \* canonical sections a save may hold at an older version
    Registries,    \* number of entries of DESCRIPTOR
    MaxStarts,     \* bound: starts of one session object
    MaxEffects,    \* bound: effects published by all of them
    NoModule       \* neither a module nor a session

ASSUME RuntimeSessionAssumption ==
    /\ NoModule \notin Modules \cup Sessions
    /\ IsFiniteSet(Sessions)
    /\ Graphs \subseteq Seq(Declaration)
    /\ {Registries, MaxStarts, MaxEffects} \subseteq Nat

VARIABLES
    liveVmCount,   \* GLiveVmCount
    pc,            \* where the session's thread is
    seen,          \* CurrentVmCount, what its ++GLiveVmCount returned
    start,         \* the start under way or served: its form, graph and number
    reason,        \* the reason of the Stop under way
    order,         \* the LoadOrder of the start
    hookOrder,     \* LoadedModulesOrder: whose stop and unregister will run
    pos,           \* the loop over the order
    initializing,  \* CurrentModuleRegistryKey: require is open to this module
    passed,        \* per phase: the modules that went through it
    sealed,        \* registries frozen so far
    pending,       \* pending_section_migrations nobody has handled
    state,         \* game.state
    luaEffects,    \* outbound.lua: effects of committed commands, in the VM
    effects,       \* PendingEffects, in the session object
    nextSequence,  \* NextEffectSequence
    handed         \* what the last TakePendingEffects of this VM returned

vmVariables == <<liveVmCount, seen>>
loadVars == <<order, hookOrder, initializing>>
stateVars == <<sealed, pending, state>>
effectVars == <<luaEffects, effects, nextSequence, handed>>
vars == <<vmVariables, pc, start, reason, pos, passed, loadVars, stateVars, effectVars>>

BuildPhases == {"execute", "register", "compose", "decode", "migrate_state",
                "restore_instances", "validate_state", "start"}
Teardown == {"stop", "unregister"}
Phases == {"execute", "register", "migrate_state", "restore_instances",
           "validate_state", "start"} \cup Teardown

\* After these phases the host hears of the progress and may cancel.
CallbackPoints == {"registered", "built", "restored", "started"}

PcSet == {"absent", "requested", "counted", "opening", "graph", "seal", "verify",
          "tree", "assign", "running", "close"}
         \cup BuildPhases \cup Teardown \cup CallbackPoints

\* A VM exists from luaL_newstate to lua_close.
HasVm(s) == pc[s] \notin {"absent", "requested", "counted"}

NoEffects == <<>>
NobodyPassed == [p \in Phases |-> {}]

Forms == {"new", "load", "check"}
NoStart == [form |-> "none", graph |-> <<>>, number |-> 0]

Goto(s, place) == pc' = [pc EXCEPT ![s] = place]

BeginStop(s, why) ==
    /\ Goto(s, "stop")
    /\ reason' = [reason EXCEPT ![s] = why]
    /\ pos' = [pos EXCEPT ![s] = Len(hookOrder[s])]

----------------------------------------------------------------------------
(* The limit of one VM in the process.                                     *)

\* StartSessionPhases, StartFromSaveBytes and CheckScripts: a session that
\* runs is stopped first.
RequestStart(s) ==
    /\ start[s].number < MaxStarts
    /\ \/ pc[s] = "absent" /\ Goto(s, "requested") /\ UNCHANGED <<reason, pos>>
       \/ pc[s] = "running" /\ BeginStop(s, "restart")
    /\ UNCHANGED <<vmVariables, start, passed, loadVars, stateVars, effectVars>>

\* No repository, no sources, a bad generation, or a seed that does not belong.
RefuseInputs(s) ==
    /\ pc[s] = "requested"
    /\ Goto(s, "absent")
    /\ UNCHANGED <<vmVariables, start, reason, pos, passed, loadVars, stateVars, effectVars>>

\* const CurrentVmCount = ++GLiveVmCount
CountVm(s) ==
    /\ pc[s] = "requested"
    /\ liveVmCount' = liveVmCount + 1
    /\ seen' = [seen EXCEPT ![s] = liveVmCount + 1]
    /\ Goto(s, "counted")
    /\ UNCHANGED <<start, reason, pos, passed, loadVars, stateVars, effectVars>>

\* A bug: a refused start does not take its count back.
GiveUpCounted(s) ==
    /\ pc[s] = "counted"
    /\ Goto(s, "absent")
    /\ UNCHANGED <<vmVariables, start, reason, pos, passed, loadVars, stateVars, effectVars>>

\* LuaVmExceededLimit, or luaL_newstate returned nothing
GiveUpVm(s) ==
    /\ pc[s] = "counted"
    /\ liveVmCount' = liveVmCount - 1
    /\ Goto(s, "absent")
    /\ UNCHANGED <<seen, start, reason, pos, passed, loadVars, stateVars, effectVars>>

\* A bug: the count is taken but not looked at.
CreateUnchecked(s) ==
    /\ pc[s] = "counted"
    /\ \E form \in Forms, graph \in Graphs :
         start' = [start EXCEPT ![s] =
                     [form |-> form, graph |-> graph, number |-> @.number + 1]]
    /\ Goto(s, "opening")
    /\ UNCHANGED <<vmVariables, reason, pos, passed, loadVars, stateVars, effectVars>>

CreateVm(s) ==
    /\ pc[s] = "counted"
    /\ seen[s] <= 1
    /\ \E form \in Forms, graph \in Graphs :
         start' = [start EXCEPT ![s] =
                     [form |-> form, graph |-> graph, number |-> @.number + 1]]
    /\ Goto(s, "opening")
    /\ UNCHANGED <<vmVariables, reason, pos, passed, loadVars, stateVars, effectVars>>

----------------------------------------------------------------------------
(* The phases of a start.                                                  *)

\* The start returns a fault: Stop(nullptr, "error").
Fail(s) == BeginStop(s, "error")

Proceed(s, place) ==
    /\ Goto(s, place)
    /\ pos' = [pos EXCEPT ![s] = 0]
    /\ UNCHANGED reason

\* OpenEnvironment, and the run of the manifests
Open(s) ==
    /\ pc[s] = "opening"
    /\ Proceed(s, "graph") \/ Fail(s)
    /\ UNCHANGED <<vmVariables, start, passed, loadVars, stateVars, effectVars>>

\* A check of the scripts does not set LoadedModulesOrder.
LoadGraph(s) ==
    /\ pc[s] = "graph"
    /\ IF GraphLoads(start[s].graph)
       THEN /\ order' = [order EXCEPT ![s] = LoadOrder(start[s].graph)]
            /\ hookOrder' = [hookOrder EXCEPT ![s] =
                               IF start[s].form = "check" THEN <<>> ELSE order'[s]]
            /\ Proceed(s, "execute")
       ELSE Fail(s) /\ UNCHANGED <<order, hookOrder>>
    /\ UNCHANGED <<vmVariables, start, passed, initializing, stateVars, effectVars>>

\* A bug: the registries are not frozen after the register hooks.
AfterUnsealed(s) ==
    CASE pc[s] = "execute"           -> IF start[s].form = "check" THEN "stop" ELSE "register"
      [] pc[s] = "register"          -> "registered"
      [] pc[s] = "migrate_state"     -> "verify"
      [] pc[s] = "restore_instances" -> "validate_state"
      [] pc[s] = "validate_state"    -> "restored"
      [] pc[s] = "start"             -> "started"

\* The place after a loop over all modules has ended.
After(s) ==
    CASE pc[s] = "execute"           -> IF start[s].form = "check" THEN "stop" ELSE "register"
      [] pc[s] = "register"          -> "seal"
      [] pc[s] = "migrate_state"     -> "verify"
      [] pc[s] = "restore_instances" -> "validate_state"
      [] pc[s] = "validate_state"    -> "restored"
      [] pc[s] = "start"             -> "started"

Pass(s, m) == passed' = [passed EXCEPT ![s][pc[s]] = @ \cup {m}]

\* One round of a loop over the load order, which ends it if it is the last.
NextModule(s) ==
    IF pos[s] + 1 = Len(order[s])
    THEN Proceed(s, After(s))
    ELSE pos' = [pos EXCEPT ![s] = @ + 1] /\ UNCHANGED <<pc, reason>>

\* ExecuteModule: all providers of a module, the last one's export is stored.
\* A failure leaves the registry keys of require behind.
Execute(s) ==
    /\ pc[s] = "execute"
    /\ LET m == order[s][pos[s] + 1]
       IN  \/ /\ Pass(s, m)
              /\ NextModule(s)
              /\ UNCHANGED initializing
           \/ /\ Fail(s)
              /\ initializing' = [initializing EXCEPT ![s] = m]
              /\ UNCHANGED passed
    /\ UNCHANGED <<vmVariables, start, order, hookOrder, stateVars, effectVars>>

\* RunLifecyclePhase and RunOptionalTreeLifecyclePhase for one module.  A
\* migrate_state hook may handle sections.
RunHook(s) ==
    /\ pc[s] \in {"register", "migrate_state", "restore_instances", "validate_state", "start"}
    /\ \/ /\ Pass(s, order[s][pos[s] + 1])
          /\ NextModule(s)
          /\ \E left \in SUBSET pending[s] :
               /\ pc[s] # "migrate_state" => left = pending[s]
               /\ pending' = [pending EXCEPT ![s] = left]
       \/ Fail(s) /\ UNCHANGED <<passed, pending>>
    /\ UNCHANGED <<vmVariables, start, loadVars, sealed, state, effectVars>>

\* SealRegistries: the descriptor in order, up to the first entry that fails.
Seal(s) ==
    /\ pc[s] = "seal"
    /\ \E n \in 0..Registries :
         /\ sealed' = [sealed EXCEPT ![s] = n]
         /\ IF n = Registries THEN Proceed(s, "registered") ELSE Fail(s)
    /\ UNCHANGED <<vmVariables, start, passed, loadVars, pending, state, effectVars>>

\* ComposeDefaultCanonicalStateTree: the contributions of all modules.
Compose(s) ==
    /\ pc[s] = "compose"
    /\ Proceed(s, "tree") \/ Fail(s)
    /\ UNCHANGED <<vmVariables, start, passed, loadVars, stateVars, effectVars>>

\* decode_and_prepare: the tree of the save, and the sections that are older.
Decode(s) ==
    /\ pc[s] = "decode"
    /\ \/ /\ Proceed(s, "migrate_state")
          /\ \E older \in SUBSET Sections : pending' = [pending EXCEPT ![s] = older]
       \/ Fail(s) /\ UNCHANGED pending
    /\ UNCHANGED <<vmVariables, start, passed, loadVars, sealed, state, effectVars>>

\* verify_complete
Verify(s) ==
    /\ pc[s] = "verify"
    /\ \/ pending[s] = {} /\ Proceed(s, "tree")
       \/ Fail(s)
    /\ UNCHANGED <<vmVariables, start, passed, loadVars, stateVars, effectVars>>

\* ValidateCanonicalStateTree
CheckTree(s) ==
    /\ pc[s] = "tree"
    /\ Proceed(s, "built") \/ Fail(s)
    /\ UNCHANGED <<vmVariables, start, passed, loadVars, stateVars, effectVars>>

\* game.state = guard_state(tree)
AssignState(s) ==
    /\ pc[s] = "assign"
    /\ state' = [state EXCEPT ![s] = start[s].form]
    /\ Proceed(s, "start")
    /\ UNCHANGED <<vmVariables, start, passed, loadVars, sealed, pending, effectVars>>

\* A bug: a loaded state is taken for a new one, with nothing to restore.
CallbackWithoutRestore(s) ==
    /\ pc[s] \in CallbackPoints
    /\ \/ Fail(s)
       \/ Proceed(s,
            CASE pc[s] = "registered" -> IF start[s].form = "load" THEN "decode" ELSE "compose"
              [] pc[s] = "built" -> "validate_state"
              [] pc[s] = "restored" -> "assign"
              [] pc[s] = "started" -> "running")
    /\ UNCHANGED <<vmVariables, start, passed, loadVars, stateVars, effectVars>>

\* The phase callback: the host may have been asked to cancel.
Callback(s) ==
    /\ pc[s] \in CallbackPoints
    /\ \/ Fail(s)
       \/ Proceed(s,
            CASE pc[s] = "registered" -> IF start[s].form = "load" THEN "decode" ELSE "compose"
              [] pc[s] = "built" ->
                   IF start[s].form = "load" THEN "restore_instances" ELSE "validate_state"
              [] pc[s] = "restored" -> "assign"
              [] pc[s] = "started" -> "running")
    /\ UNCHANGED <<vmVariables, start, passed, loadVars, stateVars, effectVars>>

----------------------------------------------------------------------------
(* Stop.                                                                   *)

Stop(s) ==
    /\ pc[s] = "running"
    /\ BeginStop(s, "stop")
    /\ UNCHANGED <<vmVariables, start, passed, loadVars, stateVars, effectVars>>

\* A bug: the two loops of the teardown follow each other for ever.
TeardownAgain(s) ==
    /\ Goto(s, IF pc[s] = "stop" THEN "unregister" ELSE "stop")
    /\ pos' = [pos EXCEPT ![s] = Len(hookOrder[s])]

\* RunUnregisterHooks begins again at the last module, whatever stop did.
LeaveTeardown(s) ==
    IF pc[s] = "stop"
    THEN Goto(s, "unregister") /\ pos' = [pos EXCEPT ![s] = Len(hookOrder[s])]
    ELSE Goto(s, "close") /\ pos' = [pos EXCEPT ![s] = 0]

\* A bug: a module without an export is skipped instead of ending the loop.
SkipMissingExport(s) ==
    /\ pc[s] \in Teardown
    /\ pos[s] > 0
    /\ LET m == hookOrder[s][pos[s]]
       IN  \/ /\ IF m \in passed[s]["execute"] THEN Pass(s, m) ELSE UNCHANGED passed
              /\ pos' = [pos EXCEPT ![s] = @ - 1]
              /\ UNCHANGED pc
           \/ LeaveTeardown(s) /\ UNCHANGED passed
    /\ UNCHANGED <<vmVariables, start, reason, loadVars, stateVars, effectVars>>

\* One module of RunStopHooks or RunUnregisterHooks, from the last to the
\* first.  A module without an export, or whose hook fails, ends the loop.
RunTeardownHook(s) ==
    /\ pc[s] \in Teardown
    /\ pos[s] > 0
    /\ LET m == hookOrder[s][pos[s]]
       IN  \/ /\ m \in passed[s]["execute"]
              /\ Pass(s, m)
              /\ pos' = [pos EXCEPT ![s] = @ - 1]
              /\ UNCHANGED pc
           \/ LeaveTeardown(s) /\ UNCHANGED passed
    /\ UNCHANGED <<vmVariables, start, reason, loadVars, stateVars, effectVars>>

EndTeardown(s) ==
    /\ pc[s] \in Teardown
    /\ pos[s] = 0
    /\ LeaveTeardown(s)
    /\ UNCHANGED <<vmVariables, start, reason, passed, loadVars, stateVars, effectVars>>

\* lua_close and the reset of the object, PendingEffects and the sequence
\* excepted; what the VM held is gone with it.
Close(s) ==
    /\ pc[s] = "close"
    /\ liveVmCount' = liveVmCount - 1
    /\ Goto(s, IF reason[s] = "restart" THEN "requested" ELSE "absent")
    /\ reason' = [reason EXCEPT ![s] = "stop"]
    /\ order' = [order EXCEPT ![s] = <<>>]
    /\ hookOrder' = [hookOrder EXCEPT ![s] = <<>>]
    /\ initializing' = [initializing EXCEPT ![s] = NoModule]
    /\ passed' = [passed EXCEPT ![s] = NobodyPassed]
    /\ sealed' = [sealed EXCEPT ![s] = 0]
    /\ pending' = [pending EXCEPT ![s] = {}]
    /\ state' = [state EXCEPT ![s] = "none"]
    /\ luaEffects' = [luaEffects EXCEPT ![s] = NoEffects]
    /\ handed' = [handed EXCEPT ![s] = <<>>]
    /\ UNCHANGED <<seen, start, pos, effects, nextSequence>>

----------------------------------------------------------------------------
(* Presentation effects.                                                   *)

Published == MapThenSumSet(LAMBDA s : nextSequence[s] - 1 + Len(luaEffects[s]), Sessions)

\* An effect of a committed command: it may name a target, and it may be
\* malformed, which only the pull finds out.
PublishFromLua(s) ==
    /\ pc[s] = "running"
    /\ Published < MaxEffects
    /\ \E targeted, valid \in BOOLEAN :
         luaEffects' = [luaEffects EXCEPT ![s] =
                          Append(@, [targeted |-> targeted, valid |-> valid])]
    /\ UNCHANGED <<vmVariables, pc, start, reason, pos, passed, loadVars, stateVars,
                   effects, nextSequence, handed>>

\* StampAndEnqueueEffect.  A target carries the generation it was stamped in;
\* "of" is the same for every effect, and nothing the code knows.
Stamp(s, sequence, targeted) ==
    [sequence |-> sequence, targeted |-> targeted, of |-> start[s].number]

PublishHostLocalEffect(s) ==
    /\ pc[s] = "running"
    /\ Published < MaxEffects
    /\ \E targeted \in BOOLEAN :
         effects' = [effects EXCEPT ![s] = Append(@, Stamp(s, nextSequence[s], targeted))]
    /\ nextSequence' = [nextSequence EXCEPT ![s] = @ + 1]
    /\ UNCHANGED <<vmVariables, pc, start, reason, pos, passed, loadVars, stateVars,
                   luaEffects, handed>>

\* The effects of the pull before the first malformed one.
ValidPrefix(queue) ==
    SelectInSeq(Append(queue, [targeted |-> FALSE, valid |-> FALSE]),
                LAMBDA e : ~e.valid) - 1

\* A bug: the queue is copied out and not emptied.
TakeCopyOfEffects(s) ==
    /\ pc[s] = "running"
    /\ LET pulled == luaEffects[s]
           n == ValidPrefix(pulled)
           stamped == effects[s] \o [i \in 1..n |->
                        Stamp(s, nextSequence[s] + i - 1, pulled[i].targeted)]
       IN  /\ nextSequence' = [nextSequence EXCEPT ![s] = @ + n]
           /\ handed' = [handed EXCEPT ![s] = IF n = Len(pulled) THEN stamped ELSE <<>>]
           /\ effects' = [effects EXCEPT ![s] = stamped]
    /\ luaEffects' = [luaEffects EXCEPT ![s] = NoEffects]
    /\ UNCHANGED <<vmVariables, pc, start, reason, pos, passed, loadVars, stateVars>>

\* CallTakePendingEffects.  The Lua queue is emptied by the call; the effects
\* are stamped one by one, and a malformed one ends the call with a fault.
TakePendingEffects(s) ==
    /\ pc[s] = "running"
    /\ LET pulled == luaEffects[s]
           n == ValidPrefix(pulled)
           stamped == effects[s] \o [i \in 1..n |->
                        Stamp(s, nextSequence[s] + i - 1, pulled[i].targeted)]
       IN  /\ nextSequence' = [nextSequence EXCEPT ![s] = @ + n]
           /\ IF n = Len(pulled)
              THEN /\ handed' = [handed EXCEPT ![s] = stamped]
                   /\ effects' = [effects EXCEPT ![s] = <<>>]
              ELSE /\ handed' = [handed EXCEPT ![s] = <<>>]
                   /\ effects' = [effects EXCEPT ![s] = stamped]
    /\ luaEffects' = [luaEffects EXCEPT ![s] = NoEffects]
    /\ UNCHANGED <<vmVariables, pc, start, reason, pos, passed, loadVars, stateVars>>

\* ResolveEffectTarget: the sink acts on what is current or has no target.
Resolves(s, e) == e.targeted => e.of = start[s].number

----------------------------------------------------------------------------
Init ==
    /\ liveVmCount = 0
    /\ pc = [s \in Sessions |-> "absent"]
    /\ seen = [s \in Sessions |-> 0]
    /\ start = [s \in Sessions |-> NoStart]
    /\ reason = [s \in Sessions |-> "stop"]
    /\ order = [s \in Sessions |-> <<>>]
    /\ hookOrder = [s \in Sessions |-> <<>>]
    /\ pos = [s \in Sessions |-> 0]
    /\ initializing = [s \in Sessions |-> NoModule]
    /\ passed = [s \in Sessions |-> NobodyPassed]
    /\ sealed = [s \in Sessions |-> 0]
    /\ pending = [s \in Sessions |-> {}]
    /\ state = [s \in Sessions |-> "none"]
    /\ luaEffects = [s \in Sessions |-> NoEffects]
    /\ effects = [s \in Sessions |-> NoEffects]
    /\ nextSequence = [s \in Sessions |-> 1]
    /\ handed = [s \in Sessions |-> <<>>]

\* What the session's thread does once it has been called.
Work(s) ==
    \/ RefuseInputs(s) \/ CountVm(s) \/ GiveUpVm(s) \/ CreateVm(s)
    \/ Open(s) \/ LoadGraph(s) \/ Execute(s) \/ RunHook(s) \/ Seal(s)
    \/ Compose(s) \/ Decode(s) \/ Verify(s) \/ CheckTree(s) \/ AssignState(s)
    \/ Callback(s) \/ RunTeardownHook(s) \/ EndTeardown(s) \/ Close(s)

\* What the host and the commands it dispatches may do between two calls.
Call(s) ==
    \/ RequestStart(s) \/ Stop(s)
    \/ PublishFromLua(s) \/ PublishHostLocalEffect(s) \/ TakePendingEffects(s)

Next == \E s \in Sessions : Work(s) \/ Call(s)

Fairness == \A s \in Sessions : WF_vars(Work(s))

Spec == Init /\ [][Next]_vars /\ Fairness

----------------------------------------------------------------------------
Effect == [sequence : Nat \ {0}, targeted : BOOLEAN, of : Nat]

\* Every variable holds a value the code could store in it.
TypeOK ==
    /\ liveVmCount \in Nat
    /\ pc \in [Sessions -> PcSet]
    /\ seen \in [Sessions -> Nat]
    /\ start \in [Sessions -> [form : Forms \cup {"none"}, graph : Graphs \cup {<<>>},
                               number : Nat]]
    /\ reason \in [Sessions -> {"stop", "restart", "error"}]
    /\ order \in [Sessions -> Seq(Modules)]
    /\ hookOrder \in [Sessions -> Seq(Modules)]
    /\ pos \in [Sessions -> Nat]
    /\ initializing \in [Sessions -> Modules \cup {NoModule}]
    /\ passed \in [Sessions -> [Phases -> SUBSET Modules]]
    /\ sealed \in [Sessions -> 0..Registries]
    /\ pending \in [Sessions -> SUBSET Sections]
    /\ state \in [Sessions -> Forms \cup {"none"}]
    /\ luaEffects \in [Sessions -> Seq([targeted : BOOLEAN, valid : BOOLEAN])]
    /\ effects \in [Sessions -> Seq(Effect)]
    /\ nextSequence \in [Sessions -> Nat \ {0}]
    /\ handed \in [Sessions -> Seq(Effect)]

\* The counter stands for the threads that hold a VM or are about to learn
\* that they may not: no way out of a start or a stop leaves it too high, which
\* would refuse every later start, or too low.
CountIsExact ==
    liveVmCount = Cardinality({s \in Sessions : pc[s] = "counted" \/ HasVm(s)})

\* LoadModuleGraph accepts exactly the declarations in which nothing is
\* missing, circular or out of reach, and orders them so that every module
\* comes after all that any of its providers needs.
GraphLoadsWhenSound ==
    \A s \in Sessions : pc[s] = "graph" =>
        LET g == start[s].graph
        IN  /\ GraphLoads(g) <=> Sound(g)
            /\ GraphLoads(g) => RightOrder(g, LoadOrder(g))

\* In every phase of a start a module goes after what it needs; in a teardown
\* before what it needs, and only if the whole graph was executed: no stop or
\* unregister hook meets a module that is missing, already stopped, or still
\* being initialized.
DependencyOrder ==
    \A s \in Sessions :
        LET needs == [m \in Modules |-> NeededBy(start[s].graph, m)]
        IN  \A p \in Phases : \A m \in passed[s][p] :
              IF p \in Teardown
              THEN /\ passed[s]["execute"] = Declared(start[s].graph)
                   /\ initializing[s] = NoModule
                   /\ \A n \in passed[s]["execute"] : m \in needs[n] => n \in passed[s][p]
              ELSE needs[m] \subseteq passed[s][p]

\* A session that serves went through every phase of its form with all of its
\* modules, has frozen every registry before, plays on the state it was asked
\* for and left no section of a save at an old version.
RunningIsWhole ==
    \A s \in Sessions : pc[s] = "running" =>
        LET all == Declared(start[s].graph)
            loaded == IF start[s].form = "load" THEN all ELSE {}
        IN  /\ start[s].form \in {"new", "load"}
            /\ state[s] = start[s].form
            /\ sealed[s] = Registries
            /\ pending[s] = {}
            /\ \A p \in {"execute", "register", "validate_state", "start"} :
                  passed[s][p] = all
            /\ \A p \in {"migrate_state", "restore_instances"} : passed[s][p] = loaded
            /\ \A p \in Teardown : passed[s][p] = {}

\* A phase begins when the one before it has ended for every module, and the
\* state is not built before the registries are frozen.
PhasesAreBarriers ==
    \A s \in Sessions :
        LET all == Declared(start[s].graph)
            Began(p) == passed[s][p] # {}
            Ended(p) == passed[s][p] = all
        IN  /\ Began("register") => Ended("execute")
            /\ (Began("validate_state") \/ Began("migrate_state") \/ state[s] # "none") =>
                  Ended("register") /\ sealed[s] = Registries
            /\ Began("restore_instances") => Ended("migrate_state") /\ pending[s] = {}
            /\ state[s] # "none" => Ended("validate_state")
            /\ Began("start") => state[s] # "none"

\* The effects that wait carry the last numbers that were given out, without
\* a gap and in order: none is lost, none is handed over twice.
EffectsInOrder ==
    \A s \in Sessions :
        /\ \A i \in DOMAIN effects[s] :
              effects[s][i].sequence = nextSequence[s] - Len(effects[s]) + i - 1
        /\ \A i \in DOMAIN effects[s], j \in DOMAIN handed[s] :
              handed[s][j].sequence < effects[s][i].sequence

\* What the host is handed, if it resolves, was published in the session that
\* runs: effects are session memory, and the teardown of a session ends them
\* (Docs/Architecture/BootstrapAndSessionLifecycle.md, "Teardown order").
EffectsOfThisSession ==
    \A s \in Sessions : \A i \in DOMAIN handed[s] :
        Resolves(s, handed[s][i]) => handed[s][i].of = start[s].number

\* Whatever fails, a call to start or to stop comes to its end.
StartReturns ==
    \A s \in Sessions : pc[s] = "requested" ~> pc[s] \in {"absent", "running"}

\* At most one VM in the process, built, used and taken down by one session.
Owner == IF \E s \in Sessions : HasVm(s)
         THEN CHOOSE s \in Sessions : HasVm(s) ELSE NoModule
Stage == IF Owner = NoModule THEN "none"
         ELSE IF pc[Owner] = "running" THEN "serving"
         ELSE IF pc[Owner] \in Teardown \cup {"close"} THEN "closing"
         ELSE "building"
Vm == INSTANCE SingleVm WITH Nobody <- NoModule, owner <- Owner, stage <- Stage
ImplementsSingleVm == Vm!VmSpec
=============================================================================
