# GV2 in TLA+

GV2 is a game framework: a C++/Unreal Engine 5 host that owns sessions, content
and user interface, and a Lua runtime that owns the game. This directory holds
TLA+ modules of the parts whose correctness is a matter of order, interleaving
and failure, the TLC configurations that check them on small instances, and
proofs, checked by TLAPS, of what must hold on every instance.

Paths below are relative to the repository; `PROJECT.json` gives, for every
definition, the source lines it stands for.

## 1. The system

| Component | Keeps | Operations | Hard part | Correct when |
|---|---|---|---|---|
| Lifecycle oracle and transition policy (`Source/GV2/Private/Application/GV2SessionTransition.*`) | pending and active operation, set of operations in progress, bounded table of outcomes | enqueue, shut down, cancel, dequeue, record, query | joining, supersession and eviction while operations finish out of order | every issued id is in exactly one place; a status only moves forward |
| Session coordinator (`GV2SessionCoordinator.*`) | session and application state, generation, VM, pinned content, pending start, pending saves | RequestSession/Load/Save, Cancel, EndSession, SubmitInteraction, PumpIngress | sinks run widget code that calls back in the middle of a transition; every phase can fail | a Ready session is whole; what is Completed really happened; every operation gets an outcome |
| Binding registry, ingress queue (`Bridge/GV2UiBindingRegistry.cpp`, `GV2RuntimeIngressQueue.cpp`) | generation and revision of bindings, queued interactions | begin/end generation, commit bindings, enqueue, dequeue | handles and inputs that outlive their session | nothing of an old session reaches a new one |
| Runtime subsystem (`Runtime/GV2RuntimeSubsystem.cpp`) | widgets, the coordinator | installs the sinks, forwards the public API | the sinks | – |
| Session content snapshot, repository publisher | immutable published repositories | publish, pin | – | a session sees one repository |
| Portable runtime session (`GV2RuntimeCore/Private/GV2RuntimeSession.cpp`) | the Lua VM, the order of the modules, what was frozen and composed, effects that wait; one counter of VMs for the process | start, load, check of the scripts, stop, dispatch, take effects | any Lua call of any phase may fail; two threads ask for a VM; a failed start runs the hooks of a teardown over modules that never ran | one VM at most; every module after what it needs; a running session is whole; every start returns |
| Run manifest, digest, replay | recorded inputs | record, replay, compare | determinism | – |
| Save slot storage (`GV2SaveSlotStorage.cpp`) | generation files, a head per slot, a lock | open, read, write, sweep | crashes and failing calls between any two steps, a second process, migration of the old format | a slot is an atomic register with one previous value |
| Lua bootstrap, registry lifecycle (`Scripts/bootstrap`) | registries and their sealing | register, freeze, hooks | a seal that stops half way | no state is built before the registries are frozen |
| Lua command runtime (`Scripts/runtime/command_dispatcher.lua`, `mutation_window.lua`, `event_bus.lua`, `mode_store.lua`, `session_controls.lua`, `Scripts/boundary/outbound.lua`) | guarded state tree and journal, event queue, deferred commands, staged requests, modes | dispatch, drain_queue, enqueue, modes, save | user code runs in four places of a dispatch, calls back and may throw in any | a command happens at one instant or not at all |
| Lua state, save, load, migration | canonical state, envelopes | save, load, migrate | partial load | loads are all or nothing |
| Lua authoring, presentation API (`Scripts/authoring`, `Scripts/presentation/screen_requests.lua`) | declarations, the pending document | show_screen, builders | a document is pending at once, the command that shows it may still be refused | the host shows the state it is in |
| Layered UI reconciler (`GV2/Private/UI/GV2LayeredUiReconciler.cpp`), presentation apply (`GV2PresentationApply`) | the widgets in the layers, the active screens, popovers, committed snapshots | prepare, commit, roll back, recover, open and close popovers | a failure at any mutation of any widget, in the roll-back too; popovers share a layer with the document | the screen is one accepted document; the books agree with it |
| Package discovery (`GV2ContentHostSupport/Private/PackageDiscovery.cpp`, `ModsLock.cpp`), content core (`GV2ContentCore`) | manifests, a lock, the order, the candidate | discover, order, verify the lock, build, publish | references, redirects and overrides across packages; files are edited while they are read; three hosts that resolve in three ways | one container gives one order; what is published is closed |
| Content authoring service (`GV2ContentAuthoring/Private/AuthoringService.cpp`, `Json5AstRewriter.cpp`) | the source files of a package, the journal of a rename | create, edit, duplicate, delete, rename | reading, building and writing are not one step, and several processes do it; a rename writes many files; writes fail and processes die between them | an operation nobody crosses happens in all files or in none, and what it writes builds; what it leaves otherwise is bounded |
| Content editor (`GV2ContentEditor/Private/GV2EditorAdapter.cpp`), content tool (`Tools/Content`), headless host | the open definition, its edits, an index | edit, save, navigate; commands | the files change under an open form; edits are kept in three forms | a save overwrites nothing but what was written during the save; no edit is forgotten |

How they interact. Of the host, everything runs on the game thread. Widgets call the
subsystem, which forwards to the coordinator. The coordinator calls the VM
(start, dispatch, save) and, between its own steps, *sinks* the subsystem
installed: tear down or publish the projection, apply a document, play effects,
report an interaction. A sink runs widget code, which may call the coordinator
again; applying a document is a call of the reconciler, whose widgets may open
and close popovers while it works. In the VM, `dispatch` calls validators, a
handler, the subscribers of the facts it announced and the presentation source;
each may call the runtime. A command reaches the host only through requests it
leaves in the outbound queue, which the host takes when the dispatch has
returned. The save goes through the slot storage, which shares its directory
with other processes. A test or tool may keep sessions on several threads, which
share the counter of VMs only. The editor and the content tool are processes of
their own that meet in the files of a package.

## 2. Modules

### 2.1 Operations of a session

* `LifecycleOracle` – the two tables of allowed transitions (session and
  application), as sets of edges, and `Try…` which leaves the state alone where
  an edge is missing. Constant-level; used by everything below.
* `OperationLedger` – the abstract promise to a client: ids are handed out once,
  the status of an id moves Unknown → InProgress → one outcome → Evicted, may
  skip a stage, and never moves back.
* `TransitionPolicy` – `FGV2SessionTransitionPolicy` as a record `policy` and
  one operator per method; as a specification of its own (`PolicySpec`) a client
  calls the methods in any order. It implements `OperationLedger`.
* `SessionCoordinator` – extends `TransitionPolicy`. As re-entrancy is the
  point, the call stack is a variable: a frame is a call of
  `ProcessNextTransition`, `PumpIngress` or `EndSession` that has not returned,
  its `pc` the place it is at. Only the top frame moves; an API call comes from
  outside or from the sink the top frame waits for. `SinkCalls` says which calls
  a sink may make, `Faults` what may fail.

The sinks in production (`GV2RuntimeSubsystem.cpp` 143-190) run arbitrary widget
code, so every pair of a sink and a call is possible. `SafeCalls` in
`SessionCoordinator` holds the pairs the invariants are stated for
(`CallsAreSafe`). Of the others, found by running `coordinator` with one pair added
at a time:

| Sink | Call | What breaks |
|---|---|---|
| Replace-, Publish-, EffectSink | RequestSave | `AtRestNothingRuns`: the save finds no pump that would execute it |
| Replace-, Document-, Publish-, EffectSink | EndSession | `RunningStartIsActive` |
| PublishSink, EffectSink | Submit | `CompletedMeansReady` |
| EndSink | RequestSession, EndSession | `RunningStartIsActive` |
| ReplaceSink | Cancel | no property, but a start reported Cancelled has already destroyed the prior session (the commit mark is set after `BeginReplace`, line 677) |
| Replace-, Document-, EndSink | RequestLoad, Submit | nothing: the session is not Ready there and both are refused |

Left out on purpose: `EndSession` dequeues the only Shutdown it issues in the
same step, so the Shutdown branch of `ProcessNextTransition` (526-531) and
`ExecuteShutdown` are unreachable and are not modelled; the first cancellation
checkpoint is merged into `AbortPreflight` (nothing happens in between); at most
one control request per dispatched input; a document that cannot be prepared is
the same as none.

### 2.2 Save slots

* `SaveSlot` – what a reader may expect: `current` and `previous`, replaced in
  one step by a write that becomes `(new, old current)`, or not at all.
* `SaveSlotStorage` – one slot on disk; a step is one file-system call. Any call
  may fail, a file may be half written (`Torn`), a process may die between two
  calls, another may then take the lock, the head may be damaged by somebody
  else. Includes the migration of the format without heads.

`Docs/ADR/0045-atomic-save-slot-generation-publication.md` (D1–D5) is the
intent. Power loss and `fsync` are outside of it (D5) and of the model. Slot ids
have the form `[a-z][a-z0-9_]*`, so two slots share no file but the lock, and
one slot is enough.

### 2.3 Commands

* `MutationWindow` – the guarded tables as cells and the journal of first
  values; `Restored` is the tree with the open transaction taken back.
* `EventBus` – facts wait in the command's context, then in the queue of the
  pump, and are then published.
* `OutboundQueue` – requests are staged, then handed over. Control requests and
  presentation effects, two queues run by the same calls, are one here.
* `AtomicCommands` – the abstract promise: a command commits with its facts in
  one step or is turned down without a trace, does not overlap the delivery of
  another's facts, and what is saved is a state between commands.
* `CommandDispatcher` – composes the three. `pc` is the place of the innermost
  dispatch; user code is not known, so each call it makes into the runtime
  (write, emit, defer, start or end a mode, publish an effect, save, show a
  document) is a step it may take, up to `MaxSteps`, and it may return, refuse or
  throw at any point. `UserRequests` and `UserShows` are the calls that reach the
  host: a validator may request (it runs before the staging begins, so the
  request goes to the committed queue at once) but not show; a document that is
  shown is pending at once, whatever becomes of the command. `root` is the command a caller waits for; deferred commands run in the
  loop of its dispatch. `Callers` distinguishes the host, which fails the
  session when a dispatch raises, from Lua code that catches the error;
  `SourceShows`, a presentation source that shows a screen after every commit,
  from a session that has none, or one that shows nothing.

A handler is checked by its effect, not by its text: refusing by `fail()` and by
returning `{ok = false}` are one action, an unknown command ends like one a
validator refuses, and the subscribers of one fact are one piece of user code.

### 2.4 The runtime session

* `Sequencing` – the two loops over a container that this module, `PackageOrder`
  and `UiReconciler` share: a value taken through every element (`Through`) and
  the elements at some of the places (`Selected`). Both are written as functions,
  not as `RECURSIVE` operators, because theorems are about what they compute.
* `ModuleGraph` – which declarations of modules may be loaded and in which order:
  chains of providers of several packages, the depth-first visit of
  `LoadModuleGraph` as a function whose depth is bounded by the number of modules,
  and the definitions it is compared with (`Sound`, `RightOrder`).
* `SingleVm` – the abstract promise: one owner at a time builds, serves and
  takes down.
* `RuntimeSession` – `FRuntimeSession`: the count of VMs, the phases of the
  three forms of a start (new, load, check of the scripts) with a fault possible
  in each, the seal that may stop half way, the callbacks at which the host may
  cancel, both loops of the teardown, and the queue of effects. `pc[s]` is the
  place of the thread of a session object. It implements `SingleVm`.

A module that does not export a hook passes the phase like one whose hook
returns. The host publishes effects only while the session runs. Code of a
module is known by its outcome; `passed` records per phase which modules went
through it.

### 2.5 The user interface

* `ShownDocument` – the abstract promise: what is shown is one accepted
  document, replaced in one step or not at all, unless the screen is reported as
  failed. Layers in `lost` may show less, until the next document is accepted;
  accepting one may cost only the layers in `Exposed`.
* `UiReconciler` – `FGV2LayeredUiReconciler`: preparation, the two commit steps,
  the replay of inverse plans within a screen and across layers, the recovery
  when that fails, popovers, publication and teardown of the shell. A call is
  split wherever a mutation, a replay or an `AddChild` may fail. Clearing a panel
  destructs its rich text, which closes popovers one after the other, each with a
  rebuild of the overlay layer: `CloseAll` is that loop.

At three places the code goes on without what it has lost, and the model does the
same. A popover of a modal closes while the modal layer is rebuilt, and with it
go the overlay screens of the new document (`op.dropped`). A screen whose host
is gone in the middle of its commit returns without rolling back the hosts before
it (`HostInvalidated`). A child that `ReconcilePrepared` cannot put back is
missing (`PutBack`). The variable `lost` is history: no action reads it, and the
properties use it to say of which layers less is promised. One assumption is
left, `OverlayLayer \notin PopoverLayers`: popovers opened from a screen of the
overlay layer itself, or from another popover, are left out.

### 2.6 Content on disk

* `Documents` – the data of a definition and one edit of it. Three fields stand
  for a schema: a reference, an object, and a number in it whose pointer goes
  through the object.
* `PackageRules` – a package as its files, what `BuildRepository` demands of it
  (`Builds`), and what each operation makes of it (`Renamed`, ...).
* `ContentPackage` – the abstract promise to clients that share a package: an
  operation no other crosses replaces the package at one instant by one that
  builds, or changes nothing and says so, or is a torn rename, each file of which
  is old or renamed. An operation is crossed when another writes a file it has
  read; while operations cross nothing is promised.
* `AuthoringService` – the operations on the files. Each reads and compares the
  stamp it was given (`Begin`), has the candidate built (`ValidateCandidate`) and
  then writes file by file (`CommitFile`); a rename takes back what it has
  written when a write fails (`RollBackFile`). Any of these steps of two processes
  may interleave, and a process may die between them (`Die`). `Visible`, the files
  a rename under way has found, is what implements `ContentPackage`.
* `EditorAdapter` – extends it by the editing session and by the content tool. A
  form edit changes the candidate, the operations a save applies and the dirty
  fields each in its own way, as the code does. The editor waits for each of its
  calls, so between the call and its end (`EditorReturns`) only the tool moves.

The journal of a rename is left out: it is written, but nothing reads it
(`RecoverPendingJournal` has no caller outside the tests). A file is its parsed
contents, a stamp is equality of contents; all definitions are of one kind and of
one package. Reading a package and comparing the stamp is one step, which leaves
the window from the comparison to the rename of the file.

### 2.7 Sets of packages

* `PackageOrder` – what `ValidatePackageDescriptors` demands of an order, what a
  lock file fixes, and the breadth-first order the content tool makes when it is
  given one package.
* `RepositoryBuild` – what `BuildRepository` demands of a set of packages in an
  order (ownership of namespaces, overrides, redirects to their end, references
  of what wins), and the snapshot it makes.
* `PackageHosts` – extends both: the game and the headless host scan the
  container, the tool starts from one package, all may be given a list of roots
  (`host`). One manifest, or the sources of one package, is read per step, in the
  order of the directory or of the list, and an author may edit a manifest, the
  sources or the lock in between. The loop of `OrderPackagesByDependencies` is
  one step per package.

A package is in the directory of its name; its sources are read at one instant
and are of one kind and one schema; the two breadth-first looks of the tool at
the manifests are one step; versions and compatibility are part of whether a
manifest is malformed (`Broken`). The headless host resolves twice, first the
container and then the list it got from it, and an edit may fall between.

## 3. Runs

Passing:

| Run | Instance | Distinct states, time | Shows |
|---|---|---|---|
| `coordinator` | 2 repositories × {menu, load}, 4 operations, table of 2 outcomes, 3 inputs, queue of 2, 3 nested calls, every fault, `SafeCalls` | 815 092, 2 min | five invariants and two action properties of the coordinator; the partition of the ids, commits that are not cancelled and the refinement of `OperationLedger`, whoever calls |
| `coordinator_liveness` | 1 repository, 3 operations, 2 inputs, queue of 1, faults of starts | 21 071, 12 s | every operation gets an outcome |
| `save_slot` | 2 payloads, 2 processes, 3 writes; failing calls, failing sweeps, crashes | 333 462, 29 s | the head names whole generations, generations are immutable, refinement of `SaveSlot` |
| `save_slot_cleanup` | the same with a head that may be damaged and sweeps that work | 148 031, 9 s | a storage at rest holds nothing its head does not name |
| `commands` | 1 canonical cell and the mode, 2 commands, 2 calls per piece of user code, pump limit 2, deferred queue and requests of 1, host and Lua callers, a source that may show nothing | 3 581 000, 1 min 30 s | clean between commands, modes and facts agree, what handlers, subscribers and sources request is of committed commands only, refinement of `AtomicCommands` |
| `commands_host` | the same, host only, a source that shows each time | 363 000, 40 s | ready and nothing owed between calls, the document shows the state or is of a refused command, every call returns |
| `ui` | 5 documents over 3 layers, 2 hosts × 2 mutations per screen, 2 popovers of the location or the modal layer, 3 failures of 6 kinds | 2 823 700, 2 min 15 s | the books agree with the screen, only the topmost modal takes input, refinement of `ShownDocument` |
| `session` | 1 session, 1 start, every declaration of 4 modules by 3 packages in `MCGraphs`, 2 registries, 1 section | 290 000, 20 s | load order against its definition, order of hooks, a running session is whole, phases are barriers |
| `session_restarts` | 2 sessions on 2 threads, 2 starts each, 2 effects, one graph that loads (those that do not are in `session`) | 627 000, 2 min 40 s | the count of VMs, order of effects, refinement of `SingleVm`, every start returns |
| `packages` | core and 3 mods, 2 to 4 manifests and 1 to 3 contents each, 4 ids, 2 lists of roots, with or without a lock, 1 edit at any place | 2 031 700, 1 min | a published repository is closed, owners introduce their ids, one container one order, what can be ordered is |
| `editor` | 2 sources and a manifest without redirects, 3 ids, 2 numbers, 2 clients, 3 edits or operations, 2 faults of {write, rollback, crash} | 801 100, 1 min 50 s | refinement of `ContentPackage`, a save overwrites only what was written during it, a clean form shows what was read |

Why the bounds are enough. *Coordinator*: four operations give one active, one pending, one
that finishes out of order, and, with a table of two outcomes, an eviction around
an older operation that is still in progress; two repositories distinguish the old session's
content from the new one's; the queue of two fills; with `SafeCalls` at most two
calls are open (an `EndSession` inside a sink of the pump), so the depth of three
cuts nothing off. *Save slot*: three writes give a
current, a previous and an obsolete generation, two processes the owner and its
successor; payloads and processes are symmetric (`SYMMETRY`). *Commands*: two
commands give one that runs and one it defers, or one that leaves something
behind and one that must not notice it, with a whole pump in each; two calls per
piece of user code are enough to write a cell twice, to write and announce, to
start a mode and throw, or to request in a validator and in the handler after
it; the pump limit of two is exceeded. A
bound on the number of commands also bounds a chain of commands that defer one
another: `DispatchReturns` says nothing of code that defers for ever, for which
the source has no limit either (`command_dispatcher.lua:261`). *UI*: two hosts of
two mutations make a commit fail before, between and after others of its screen,
three documents with modals make a layer fail after another was rebuilt, a
popover of a modal closes after the overlay layer of a document with an overlay
screen was rebuilt, and three failures let a roll-back fail within a roll-back. *Session*: four modules
give a cycle, a module nobody reaches, one that two packages provide and one
that needs what only a later provider needs; two threads and two starts give a
start that is refused while another one counts. *Editor*: a rename touches the
definition, a reference to it in another source and, with a redirect, the
manifest, which is all the files there are; two faults are a write that fails and
a roll-back that fails after it, or a process that dies, in either order; three
steps are an edit, a save and an operation of the tool that crosses it, or an
edit, its return to the old value and a navigation. *Packages*: of three
mods, one may become free that is less than one that was free before, and two may
override what core brings; one edit between any two reads is what makes the
resolution stale, a second would only make it so again.

Fairness. `WF(InternalStep)` in `coordinator_liveness` and `commands_host`, and
`WF(Work(s))` for the thread of each session in `session_restarts`: once a call
has begun, its next step is taken until it returns. There is no scheduler in
between but that of the operating system, so the only assumption is that the
machine and the user code go on. Calls from outside are never fair: nobody has
to press a button.

`CHECK_DEADLOCK FALSE` is set for the commands (used up by their bound, and the
session stops when the host has failed it), for the runtime sessions, the hosts
of packages and the editor, where the bounds on starts, steps and faults leave nothing to do.

### Disagreements with the documents

One run is expected to end with a violation; it states what the repository says
and TLC shows the code do otherwise. `effects_of_session`: the stop of effects is
a step of every teardown, and no object of a session outlives it
(`BootstrapAndSessionLifecycle.md`, "Teardown order"). `Stop` resets the session
object but for the effects that wait and their counter, and the next session of
the same object hands them out, unless they name a target.

Met while modelling, and without a run of their own:

* *Coordinator.* An early return of `PumpIngress` (1338 and its siblings) skips
  `ProcessNextTransition`, and a requested operation stays InProgress until the
  next call. `EndSession` from the document sink tears down, the start then goes
  on and publishes Ready. A save requested while a session is published is
  executed on the one that replaced it. The rest is in the table in 2.1.
  `bIsReady` is still set while `BeginReplace` tears the old session down; a
  failed session stays Failed and is never moved on to Destroyed.
* *Commands.* `Docs/Architecture/CommandsAndEvents.md:100` forbids observable
  side effects in a validator, and ADR-0050 (line 47) rests on it: a refusal by
  a validator rolls nothing back, as its side effects are rejected by
  `guard_validator_side_effect`. Emitting, deferring and showing call that guard;
  `request_save` and `publish_effect` do not (`Scripts/boundary/outbound.lua:30`,
  89), and as the staging has not begun, the request is committed at once and
  served although the validator then refuses. Line 59 says that a failed result
  has discarded its effects, and the comment at `outbound.lua:15` that an effect
  does not survive a rollback of its command. A handler's `show_screen` makes the
  document pending at once (`Scripts/presentation/screen_requests.lua:64`), and no
  exit of the command takes it back: two tests say that no document is pending
  after a refusal (`Tests/Lua/authoring/simplified_surface.lua:546`,
  `Tests/Lua/presentation/dynamic_menu.lua:94`), with handlers that show none.
  Both are steps of the model (`UserRequests`, `UserShows`); `RequestsOfCommitted`
  and `DocumentShowsState` name them as their exceptions. A deferred command may start a mode after a save was accepted and
  before the host takes it, against ADR-0051 D6. The command a refused handler
  deferred is executed, against `CommandsAndEvents.md:59`. `descriptor:run`
  returns `last_command_result`, which after deferred commands is another
  command's (`Scripts/authoring/commands.lua:48`). After an error of the
  presentation source the phase stays `pumping_events`
  (`command_dispatcher.lua:240`) and after one of a deferred command
  `is_processing_queue` stays set (267), which only a Lua caller that catches the
  error notices, the host ends the session (`ReadyWhenQuiet`).
  `CommandsAndEvents.md:183` says that a fault after a mutation is not rolled
  back, the code (as ADR-0050 decides) rolls it back.
* *Runtime session.* A failure of `guard_state` is dropped, and the bare tree
  becomes `game.state` (`GV2RuntimeSession.cpp:2037`). The unregister hooks begin
  again at the last module when a stop hook has failed. Two saved ids that
  redirect to the same id overwrite one another in the order of `pairs`
  (`Scripts/runtime/load.lua:153`).
* *User interface.* Clearing the modal layer destructs rich text, which closes
  its popover and re-enters the reconciler for the overlay layer while
  `ActiveScreens` is still the old one (`GV2LayeredUiReconciler.cpp:568`): a screen
  the new document has put there is lost, and the document is reported as
  accepted. It rests on UMG destructing the widgets of a cleared panel at once.
  When a host is gone, `CommitScreenFields` returns before it rolls back the hosts
  of the same screen it has committed, and reports no failed roll-back
  (`GV2ScreenWidgetBase.cpp:313`): the document is refused with one screen half
  new. `ReconcilePrepared` puts old children back and ignores whether that worked
  (`PreparedKeyedCollection.h:183`): the document is refused with a child missing.
  Against "what makes the whole document commit atomic"
  (`GV2LayeredUiReconciler.cpp:422`); all three are steps of the model, and `lost`
  says where they have struck.
* *Authoring.* ADR-0037, 2.2, says that a rename is a single atomic transaction
  and that after an error at any step the file on disk is untouched. After the
  death of a process in the middle it stays half done, since `RecoverPendingJournal`
  has no caller but a test, and the next rename overwrites the journal it finds;
  and the journal is removed although a file could not be taken back
  (`AuthoringService.cpp:2014`). 2.3 says that the stamp prevents the loss of
  changes from outside: between its comparison (1016) and the rename of the file
  (1095, 1176) a whole repository is built, and a change in between is
  overwritten. `ImplementsPackage` and `SaveLosesOnlyItsWindow` say what is left of
  both promises. Two operations that cross may also leave a package that does
  not build, although each was validated. With
  `bCreateRedirect` no redirect is written when `package.json5` has a
  `redirects` object already, since `SetFieldValue` adds no key (1914–1927).
* *Editor.* A save may write something else than the form shows
  (`GV2EditorAdapter.cpp:545`): remove an object and set another field, and the
  operations made anew from the dirty fields write a null where the form shows
  nothing; remove an object, add it again and set a field in it to the value it
  had, and that field is not dirty and is saved without it. A create or a
  duplicate into the file of the open definition makes the editor's own session
  stale: its save is then refused as "modified externally". Renaming the open
  definition drops its edits without asking (979).

* *Packages.* Given one package, the tool orders its dependencies breadth first,
  which is not the order of the game: it may reject A before B although the game
  places B first, or build another repository of the same files, against "one
  corpus gives one content hash" (`Docs/Architecture/BuildAndTooling.md`). `Modding.md:72`
  calls `load_after` a hint for the editor (and so does 81), `ValidatePackageDescriptors` rejects
  an order that ignores it. When core declares a dependency, the container is
  reported as a dependency cycle that does not exist. `main.cpp:1715` says that
  the set is resolved once, but `LoadContentRoots` has resolved it before. The
  lock holds the fingerprint of the manifest only, so the contents of a locked
  package may change. A package that is not in the lock stops a locked start
  when its manifest cannot be read.
* *Policy.* An outcome may be gone before the caller's next call: one call of the
  coordinator may finish more operations than the table (18 in production)
  holds, when that many saves wait for a session that fails.

## 4. Proofs

`SessionCoordinator_proofs`, the policy – for any set of descriptors, any bound on
ids and any positive capacity of the table: `PolicyTypeCorrect`,
`PolicyAlwaysConsistent` and `PolicyRefinesLedger`. The inductive invariant `Good`
is the types together with the partition: every issued id is pending, active,
otherwise in progress, retained or evicted, and only one of these, and the evicted
ones are below the bound the policy keeps. `Record` is the delicate operation: it
evicts the smallest retained id, which may be younger than one that is still in
progress, so "evicted" cannot be an interval of ids, and the partition has to say
so. Refinement follows from `Forward`: no operation moves an id back.

`SessionCoordinator_proofs`, the coordinator – in two halves, for any contents,
descriptors, faults, bounds and depth of calls. The first holds *whatever the sinks call
back*: `CoordinatorTypeCorrect`, `PendingAlwaysHasItsContext`,
`CoordinatorKeepsPolicy`, `CoordinatorRefinesLedger` and
`CommittedNeverCancelled`. Its invariant
`ClientInv` adds to the policy's `Good` whose operation is whose: the starts on
the stack and the deferred saves are in progress, are not the pending one, and
no id is held twice (`StartsInProgress`, `SavesInProgress`). Every method is then
a `PolicyMove`, which says what may complete by it, and moves compose
(`MoveTransitive`), so that a failure of the session is a fold of moves over the
saves. For the last of the five, an operation leaves the active slot as it is or clears it
(`Stays`), or else fills or marks it, and never marks as cancelled what has
committed (`KeepsVerdict`).
The second half is about the session and assumes `CallsAreSafe`, which section 2.1
shows to be needed: `ReadySessionIsWhole`, `QueueAlwaysBelongsToSession`,
`NothingRunsAtRest`, `RunningStartAlwaysActive`, `CompletedStartIsReady` and
`SaveAlwaysOfItsSession`. `CallInv` says that the
stack is in one of five situations: empty (`AtRest`), one start (`InStart`), one
pump (`InPump`), one teardown (`InEnd`) or a teardown in a sink of a pump
(`InEndOfPump`); and what holds in each, `Settled` (a Ready session is whole,
without one all is down) being what a sink relies on and what a start breaks
between its commit and its publication. The last two theorems need both halves:
`CompletedByStep` turns an outcome that became Completed into the place the step
was taken at.

`SaveSlotStorage_proofs` – for any payloads, processes, number of writes and
faults: `StorageTypeCorrect` (no generation is ever torn), `StorageHeadIsWhole`,
`StorageGenerationsImmutable` and, when nothing else damages the head
(`"damage" \notin Faults`), `StorageRefinesSlot`. `HeadIsWhole` is not inductive:
that a write does not overwrite what the head names needs that its tag is new,
and that the sweep does not remove it that the list it works through was made
when the head was read. So
`IInv = TypeOK /\ OneOwner /\ Fresh /\ HeadIsWhole /\ \A p : CallOK(p)`: only the
holder of the lock is not closed; a tag not yet taken has no files and the head
names only older ones; and for the call in progress, what it has prepared and
written exists, and what it is about to remove the head does not name. The
proofs go action by action, each with one lemma. `StorageIdleIsClean`, when the
clean-up does not fail (`"sweep" \notin Faults`), needs to know what else is on
disk in the middle of a call: `Tidy` says it is what the write has made so far
or what is listed for removal (`Rest`).

`CommandDispatcher_proofs` – for any state tree, any numbers of commands, calls
and pump iterations, any capacities and whoever calls: `CommandsTypeCorrect`,
`CommandsLeaveNothing`, `CommandsRequestWhenCommitted` and
`CommandsRefineAtomic`. The invariant is
`IInv = TypeOK /\ Control /\ Decided /\ Owned /\ RequestsOfCommitted`. `Control`
ties the flags of the four modules to the place of the dispatch, and
`CleanBetweenCommands` is read off it. `Decided` says that a command that waits
or has just begun has no outcome and that no two share an id: without it a
request could become one of a refused command after it was handed over. `Owned`
says whose facts a context holds, which the abstract commit needs. Types are
proved once per module, since every step of the dispatcher is a step of the
window, of the bus and of the queue (`WindowStep`, `BusStep`, `OutboundStep`) or
leaves it alone. For the refinement the abstract state is `Restored`, the tree
with the open journal undone: a write does not change it
(`WriteKeepsRestored`), a rollback neither, and a commit, which empties the
journal, moves it in one step.
`RequestsOfCommitted` speaks of the user code a request comes from, which each
request carries (`from`): those of validators and of idle Lua code bypass the
staging, and the proof has to show that no other does.
Three more theorems rest on them. `ModeFactsAlwaysMatch`: what tells the mode is
the last mode fact of three queues, so `ModesTold` says of a handler that the
facts already published name the mode its tree would be restored to.
`HostFindsItReady` and `HostShowsState` assume that only the host calls
(`Callers = {"host"}`, as in `commands_host`): `HostControl` says that the command
the host waits for is neither deferred nor left behind when the call returns, and
`HostShows` that the document is that of the tree without the open journal, or
was shown by a command that is still running or was refused; a commit ends with
the document of the source (`SourceShows`; without it the statement is empty).

`EditorAdapter_proofs`, the service – for any clients, ids, values, number of
sources, tombstones and faults: `ServiceTypeCorrect` and
`ServiceImplementsPackage`, without a hypothesis on what fails. The abstract
package is `Visible`, and the invariant says, as long as no operation is crossed,
how far the files are from it: what a client means to write is what its
operation makes of what it has read (`Meant`), which is still there for every file it has
not written; only one of them has written anything; the files of `done` hold
the new contents (while a rename is taken back, those that could not be taken
back do as well), and the others the old ones (`FilesAsWritten`). A write of one file in the middle
is then invisible; the last one, the end of a roll-back and a death are the steps
that show. Crossing is judged by `stale`, the files somebody else has written
since they were read: a first write that crosses another operation makes
`crossed` true in the same step, and ContentPackage promises nothing from there
until all calls have ended.

`EditorAdapter_proofs`, the editor – `EditorUsesService` and
`EditorImplementsPackage`: every step of the editor and the content tool is one
of the service or changes no file. `EditorSaveLosesOnlyItsWindow` needs what the
editor's own waiting brings: the call of a save is of the session that is open,
what it writes elsewhere in the file is what the session has read, and if the
file is another by now it is in `stale`. `EditorCleanMeansUnchanged` needs
`CandidateFollowsDirty`: the
reference of the candidate is the one that was read unless it is dirty, and the
object unless the object *or* the field in it is dirty, since removing either
changes the other; and an object that reads null was null, because an edit
never makes one null.

`RuntimeSession_proofs` – for any finite set of sessions and any number of
starts. `CountIsExactAlways` and `RuntimeImplementsSingleVm` rest on what a
thread saw when it counted itself: of any two threads that are counted, the
later one saw at least two (`LaterSawEarlier`), and whoever has a VM saw at most
one. `EachStep` shows that every step counts, gives back or moves within the
stages of a VM (`VmMove`); the invariant and the refinement both follow from
these three cases. `EffectsInOrderAlways` needs that a pull keeps a prefix of
what it took (`ValidPrefixBounds`, from the least element of a set of numbers)
and that effects stamped behind a queue without gaps leave none
(`StampedBehind`). `PhasesAreBarriersAlways`, `RunningIsWholeAlways` and
`DependencyOrderAlways` rest on the load order of every graph that loads: it
names each module once, and what a module needs before it. Their invariant
`PhaseOk` says, place by place, which modules went
through which phase (`WentThrough`), and for the teardown that each phase holds a
prefix of the order and each loop of hooks a suffix (`InOrder`, `TornDown`). A
teardown hook then meets an executed module only if the last one was executed,
so all were: the argument of `TeardownGoesOn`.
`GraphLoadsWhenSoundAlways` is about the search itself, for any declarations: it
succeeds exactly when nothing is missing, circular or out of reach, and then its
order is right. `RightVisitor` says what a visit of depth `n` does to a search
that is under way (`GoodVisit`), and goes from `n` to `n + 1`: it keeps the order
right and what is visited closed under needs (`Closed`); it adds only what can
be reached (`Reached`); and it reports a cycle only if there is one, for every
module being visited then leads to the one met (`PathTo`). `RoomFor` is why the
bound on the depth changes nothing: a search that deep would be visiting more
modules than there are.

`Sequencing_proofs` – the lemmas the proofs of `ModuleGraph`, `PackageHosts` and
`UiReconciler` share. The library's induction theorems cannot be used (see below),
but a least number at which a *set* is left can: `Induction` says of a set of
numbers that contains 0 and goes from `i - 1` to `i` that it contains all up to
`N`. With it the results on the way of `Through` are shown to exist as a function
(`StepwiseExists`, `ThroughSteps`), and `ThroughKeeps` is the rule for a loop:
what holds before the first element and is kept by each holds after the last.
`NthFacts` and `SelectedFacts` say that a selection keeps the order and loses
nothing.

`UiReconciler_proofs` – for any layers, documents, hosts, mutations, widgets,
popovers, any layers they are opened from but their own, and any number of
failures of every kind: `OnlyTopModalTakesInputAlways`,
`AccountsMatchScreenAlways`, `UiTypeCorrect` and `ImplementsShownDocumentAlways`.
Between two calls the properties are nearly inductive; in the middle of a call
nothing on the screen is as they say, and the
invariant `IInv` has to tell what is done, what can be taken back, and to where:

* `Typed` and `PlanOK` – the plan is one of the document being applied, or of the
  last one in a recovery (`Target`), with a widget of its own for each entry,
  taken from the slot of that entry or from nobody.
* `Books`, `Panels` – `ActiveScreens` names no widget twice and knows the panels
  as they were before the call, `Old`: those of `Rebuilt` layers are remembered
  in `op.previous`, the others untouched. A rebuilt panel holds the plan's
  screens, but for the overlay screens a closing popover has dropped
  (`op.dropped`). For a layer that lost something (`lost`), and once something
  could not be restored (`op.marker`), only inclusion is left, which is all the
  recovery needs.
* `Owners`, `Popovers` – whoever has a popover hangs in a panel, so that clearing
  its layer closes it; registered popovers hang in the overlay layer, in the old
  one, unless it lost something, and in the rebuilt one. As long as nothing has
  failed, no other does.
* `Fields` – the widgets of the plan show the new value if they are `Written`, and
  what their inverse plan goes back to if not (`Resting`); all others are whole.
  Layers in `lost` are excepted.
* `Input`, `Before` – who takes input, and the picture of before the call, speak
  of `Old` and `Resting`, so they hold unchanged until the call ends.

Each action has a lemma `...Keeps`. That clearing a panel leaves the overlay layer
sound (`SoundOverlay`) is `ThroughKeeps` over the popovers that close; that it
takes no screen from the overlay layer but those `op.dropped` tells of holds for
layers rebuilt before and after it. Types add `Bounds` and `NoneTwice`, since
a panel that loses or repeats a child would satisfy everything said in sets. For
the refinement each action has a lemma `...Maps`: only the ends of a call show.
`FinishCommit` accepts or, in a recovery, rebuilds; `ReturnRefused` refuses, and
`Before` with nothing left in `Written` or `Rebuilt` says that the screen is what
it was; a recovery that fails loses the screen, `Teardown` resets it.

`PackageHosts_proofs` – for any packages, manifests, contents, lists of roots and
any number of edits. `PublishedAlwaysClosed`: whatever is published was built,
and a build that succeeds has refused every reference and every redirect that
leads to nothing active (`BuiltIsClosed`).
`OneOrderAlways` and `SoundSetsAlwaysResolve` need what the counters of the
sorting stand for (`Sorting`): each is the number of the dependencies not placed
yet, the ready ones are, but for core, those without any, and each package
placed was the least of them at its turn (`LeastFirst`); all of it only while no
package is placed twice, which a core with dependencies would be, and is
then rejected for. When nothing is ready, an acyclic rest would contain a package
whose dependencies are all placed, hence a ready one: so there is no rest
(`SoundIsPlaced`). The headless host reads the manifests twice, hence `DiskFixes` and `ReadFromDisk`: what it
ordered is what the disk fixes as long as nobody edits in between.
`OwnerAlwaysIntroduces` carries along that a published repository is the snapshot
of a candidate that builds (`OrderInv`): the order of any host, the queue the
content tool computes included (`QueueIsSeq`), is a sequence of packages, and
the build has refused repetitions and an id nobody before has provided unless its
owner does. So the least of the providers is the owner, and positions in the
order can be compared.

Assumptions are the named `ASSUME`s of the modules: kinds of constants that must
differ and bounds that are natural numbers. TLC evaluates them in every run.

Only model-checked: the three liveness properties, `OperationsResolve`,
`DispatchReturns` and `StartReturns`, since liveness under fairness and `ENABLED`
are out of this prover's reach. Every other property of a passing run is a
theorem. Out of reach is also induction over data by the library's theorems, which
take an operator as a parameter: hence the functions of `Sequencing`. The type
invariants of the storage, the dispatcher, the policy and the reconciler are
proved and not repeated by a run.

Hypotheses of theorems that are not about the constants' kinds: `CallsAreSafe`
(what sinks may call, section 2.1), the two kinds of faults of the storage named
above and `Callers = {"host"}`. The runs satisfy each. The theorems of the
authoring service, the editor and the reconciler have none.

## 5. Plan

Ordered by what hurts most when it is wrong. Done: operations of a session,
coordinator, save slots, command runtime, runtime session, user interface,
authoring and editor, sets of packages. Left:

1. User interface: popovers opened from a screen of the overlay layer. To prove:
   which containers the content tool orders as the game does.
2. Command runtime: the run of a mode and its random streams, load requests,
   aliases of raw tables.
3. Load: the content of a save, redirects of ids, migrations section by section.
4. Packages: several sources of a package read at several instants, kinds and
   schemas.
5. Editor: edits of arrays, drafts, the index of references.

## 6. Not modelled

The pure parts (formatting, parsing, schema validation, hashing, marshalling)
beyond what the modules above need of them; rendering and widgets; the build;
vendored code. Determinism of replays is a property of the Lua code as a whole,
not of a protocol. Concurrency inside the engine does not reach these
components: they check that they are on the game thread. `PROJECT.json` gives
the status of every component and lists, as hazards with a note, what is known
to be hard and has no property yet.

Of the lines of the repository most are of these kinds: the conformance and unit
tests (a third of the C++), the vendored Lua interpreter, the widgets of editor
and game, parsers and formatters. The lines the modules map are those whose
order and failures matter; the bodies between them that only compute a value are
abstracted to the value.
