-------------------------- MODULE CommandDispatcher --------------------------
(***************************************************************************)
(* Scripts/runtime/command_dispatcher.lua with the mutation window, the    *)
(* event bus and the outbound queue it drives, the mode store, the save    *)
(* command, and the host that calls it.                                    *)
(*                                                                         *)
(* One Lua thread runs everything, but a dispatch calls user code four     *)
(* times (validators, a handler, subscribers, the presentation source),    *)
(* any of which may throw, and what user code does is not known: its calls *)
(* into the runtime are the steps of this module.                          *)
(***************************************************************************)
EXTENDS MutationWindow, EventBus, OutboundQueue

CONSTANTS
    ModeCell,          \* active_raw.mode_id of mode_store
    MaxCommands,       \* bound: commands dispatched or deferred
    MaxSteps,          \* bound: calls one piece of user code makes
    PumpLimit,         \* pump_limit
    DeferredCapacity,  \* MAX_COMMAND_QUEUE_SIZE
    Callers,           \* "host": the coordinator, which ends a session whose
                       \* dispatch raised; "lua": code that catches the error
    SourceShows,       \* a presentation source is registered and returns a
                       \* screen each time; otherwise there may be none
    NoSave

Ids == 1 .. MaxCommands
Kinds == {"play", "save"}  \* gameplay, and core:command.session.save
Commands == [id : 0 .. MaxCommands, kind : Kinds, by : 0 .. MaxCommands]
NoCommand == [id |-> 0, kind |-> "play", by |-> 0]
ModeFacts == [by : Ids, mode : Contents]     \* core:event.mode.started, .finished
PlainFacts == [by : 0 .. MaxCommands, text : {"fact"}]
UserCode == {"validate", "handle", "subscribe", "resolve"}
Wants == {"save", "effect"}
\* A request names the command and the user code it comes from; "idle" is Lua
\* code that no command runs.
OutboundRequests ==
    [by : Ids, wants : Wants, from : UserCode]
        \cup [by : {0}, wants : Wants, from : {"idle"}]
Documents == [state : [Cells -> Contents], by : 0 .. MaxCommands]

ASSUME DispatcherAssumption ==
    /\ ModeCell \in Cells \ Canonical
    /\ MaxCommands \in Nat /\ MaxSteps \in Nat
    /\ PumpLimit \in Nat \ {0} /\ DeferredCapacity \in Nat /\ MaxRequests \in Nat
    /\ Callers \subseteq {"host", "lua"}
    /\ Facts = ModeFacts \cup PlainFacts
    /\ Requests = OutboundRequests
    /\ SourceShows \in BOOLEAN
    /\ NoSave \notin [Cells -> Contents]

VARIABLES
    phase,          \* game.runtime.phase
    isDispatching, isProcessing,  \* is_dispatching, is_processing_queue
    deferred,       \* deferred_command_queue
    pc,             \* where the innermost dispatch is; "idle": in no dispatch
    current,        \* the request of the innermost dispatch
    root, caller,   \* the command a caller waits for, and who that is
    steps,          \* calls the present user code has made
    iterations,     \* of the pump
    alive,          \* the host has not failed the session
    document,       \* the state the pending UI document was built from, and
                    \* the command that showed it (0: the source did)
    saved,          \* the last tree saved
    outcome,        \* of each command
    issued          \* commands made so far

dispatchVars == <<phase, isDispatching, isProcessing>>
callVars == <<pc, current, root, caller, steps, iterations>>
hostVars == <<alive, document, saved>>
ghostVars == <<outcome, issued>>
vars == <<windowVars, busVars, outboundVars, dispatchVars, deferred, callVars,
          hostVars, ghostVars>>

Init ==
    /\ WindowInit /\ BusInit /\ OutboundInit
    /\ phase = "idle" /\ isDispatching = FALSE /\ isProcessing = FALSE
    /\ deferred = <<>>
    /\ pc = "idle" /\ current = NoCommand /\ root = 0 /\ caller = "none"
    /\ steps = 0 /\ iterations = 0
    /\ alive = TRUE /\ document = [state |-> cells, by |-> 0] /\ saved = NoSave
    /\ outcome = [id \in Ids |-> "none"] /\ issued = 0

-----------------------------------------------------------------------------
(***************************************************************************)
(* Entering and leaving dispatch.                                          *)
(***************************************************************************)

\* The checks at the head of dispatch.
MayDispatch == phase = "idle" /\ ~isDispatching

Enter(cmd) ==
    /\ isDispatching' = TRUE
    /\ phase' = "executing_command"
    /\ pc' = "validate"
    /\ current' = cmd /\ steps' = 0
    /\ UNCHANGED <<isProcessing, iterations>>

NewCommand(kind, by) == [id |-> issued + 1, kind |-> kind, by |-> by]

\* The dispatch of the caller's command is over.
ReturnTo(who) == IF who = "host" THEN "returned" ELSE "idle"

Return ==
    /\ pc' = ReturnTo(caller)
    /\ root' = 0

\* A dispatch ends without an error.  The outermost one goes on with the
\* deferred commands; one of theirs goes back to the loop it came from.
Finish ==
    /\ isDispatching' = FALSE
    /\ phase' = "idle"
    /\ isProcessing' = (isProcessing \/ deferred # <<>>)
    /\ IF (~isProcessing /\ deferred # <<>>) \/ current.id # root
       THEN pc' = "drain" /\ UNCHANGED root
       ELSE Return
    /\ UNCHANGED <<current, caller, steps, iterations, deferred>>

\* A dispatch raises, and so does the one whose loop it came from.
Raise(nextPhase) ==
    /\ DiscardContext
    /\ DropStaged
    /\ isDispatching' = FALSE
    /\ phase' = nextPhase
    /\ pc' = "idle" /\ root' = 0
    /\ alive' = (caller # "host")
    /\ UNCHANGED <<isProcessing, deferred, current, caller, steps,
                   iterations, document, saved>>

Decide(verdict) == outcome' = [outcome EXCEPT ![current.id] = verdict] /\ UNCHANGED issued

\* The host dispatches an input, or Lua code (a start hook, descriptor:run)
\* a command of its own.
Call(who, kind) ==
    /\ pc = "idle" /\ alive /\ issued < MaxCommands
    /\ MayDispatch
    /\ Enter(NewCommand(kind, 0))
    /\ root' = issued + 1 /\ caller' = who
    /\ issued' = issued + 1
    /\ UNCHANGED <<windowVars, busVars, outboundVars, deferred, hostVars, outcome>>

\* The checks refuse: an error, before anything has changed.
CallRefused(who) ==
    /\ pc = "idle" /\ alive
    /\ ~MayDispatch
    /\ alive' = (who # "host")
    /\ UNCHANGED <<windowVars, busVars, outboundVars, dispatchVars, deferred, pc, current,
                   root, caller, steps, iterations, document, saved, ghostVars>>

\* game.commands.enqueue, descriptor:later
Defer(kind, by) ==
    /\ Len(deferred) < DeferredCapacity /\ issued < MaxCommands
    /\ deferred' = Append(deferred, NewCommand(kind, by))
    /\ issued' = issued + 1
    /\ UNCHANGED outcome

\* ... called while no command is dispatched
DeferOutside(kind) ==
    /\ pc = "idle" /\ alive /\ "lua" \in Callers
    /\ Defer(kind, 0)
    /\ UNCHANGED <<windowVars, busVars, outboundVars, dispatchVars, callVars, hostVars>>

\* One turn of game.commands.drain_queue, which takes the command off the
\* queue before it is known whether it may be dispatched.
DrainQueue ==
    /\ pc = "idle" /\ alive /\ "lua" \in Callers
    /\ deferred # <<>>
    /\ MayDispatch
    /\ Enter(Head(deferred))
    /\ deferred' = Tail(deferred)
    /\ root' = Head(deferred).id /\ caller' = "lua"
    /\ UNCHANGED <<windowVars, busVars, outboundVars, hostVars, ghostVars>>

DrainQueueRefused ==
    /\ pc = "idle" /\ alive /\ "lua" \in Callers
    /\ deferred # <<>>
    /\ ~MayDispatch
    /\ deferred' = Tail(deferred)
    /\ UNCHANGED <<windowVars, busVars, outboundVars, dispatchVars, pc, current, root,
                   caller, steps, iterations, hostVars, ghostVars>>

\* Mutant: the command stays in the queue while it runs.
DrainWithoutTaking ==
    /\ pc = "drain" /\ deferred # <<>>
    /\ MayDispatch
    /\ Enter(Head(deferred))
    /\ UNCHANGED deferred
    /\ UNCHANGED <<windowVars, busVars, outboundVars, root, caller, hostVars,
                   ghostVars>>

DrainNext ==
    /\ pc = "drain" /\ deferred # <<>>
    /\ MayDispatch
    /\ Enter(Head(deferred))
    /\ deferred' = Tail(deferred)
    /\ UNCHANGED <<windowVars, busVars, outboundVars, root, caller, hostVars,
                   ghostVars>>

\* Mutant: is_processing_queue is not reset.
DrainStaysOn ==
    /\ pc = "drain" /\ deferred = <<>>
    /\ Return
    /\ UNCHANGED <<windowVars, busVars, outboundVars, dispatchVars, deferred, current,
                   caller, steps, iterations, hostVars, ghostVars>>

DrainDone ==
    /\ pc = "drain" /\ deferred = <<>>
    /\ isProcessing' = FALSE
    /\ Return
    /\ UNCHANGED <<windowVars, busVars, outboundVars, phase, isDispatching, deferred, current, caller, steps, iterations, hostVars, ghostVars>>

-----------------------------------------------------------------------------
(***************************************************************************)
(* What any user code may call: a validator, a handler, a subscriber or    *)
(* the source of a dispatch, or, in no dispatch, a start hook.             *)
(***************************************************************************)

Step == steps < MaxSteps /\ steps' = steps + 1

CallingCommand == IF pc = "idle" THEN 0 ELSE current.id

UserCall ==
    /\ \/ pc \in UserCode /\ Step
       \/ pc = "idle" /\ alive /\ "lua" \in Callers /\ UNCHANGED steps
    /\ pc = "handle" => current.kind = "play"
    /\ UNCHANGED <<windowVars, busVars, dispatchVars, deferred, pc, current, root, caller,
                   iterations, alive, saved, ghostVars>>

\* game.ui.publish_effect, game.bridge.request_save.  A validator may: it
\* runs before the staging begins, and nothing guards these two.
UserRequests(wants) ==
    /\ UserCall
    /\ Request([by |-> CallingCommand, wants |-> wants, from |-> pc])
    /\ UNCHANGED document

\* show_screen: the document is pending at once, and no exit of the command
\* takes it back.  A validator may not (guard_validator_side_effect).
UserShows ==
    /\ UserCall
    /\ pc # "validate"
    /\ document' = [state |-> cells, by |-> CallingCommand]
    /\ UNCHANGED outboundVars

-----------------------------------------------------------------------------
(***************************************************************************)
(* Validators.  An unknown command ends like one a validator refuses.      *)
(***************************************************************************)

ValidatorsAllow ==
    /\ pc = "validate"
    /\ BeginContext(current.id) /\ BeginStaging /\ BeginTransaction
    /\ pc' = "handle" /\ steps' = 0
    /\ UNCHANGED <<dispatchVars, deferred, current, root, caller, iterations, hostVars, ghostVars>>

ValidatorRefuses ==
    /\ pc = "validate"
    /\ Decide("refused")
    /\ Finish
    /\ UNCHANGED <<windowVars, busVars, outboundVars, hostVars>>

ValidatorThrows ==
    /\ pc = "validate"
    /\ Decide("faulted")
    /\ Raise("idle")
    /\ UNCHANGED windowVars

-----------------------------------------------------------------------------
(***************************************************************************)
(* The handler.                                                            *)
(***************************************************************************)

HandlerCall(kind) ==
    /\ pc = "handle" /\ current.kind = kind
    /\ Step
    /\ UNCHANGED <<dispatchVars, pc, current, root, caller, iterations, hostVars>>

HandlerWrites(c, v) ==
    /\ HandlerCall("play")
    /\ Write(c, v)
    /\ UNCHANGED <<busVars, outboundVars, deferred, ghostVars>>

HandlerEmits ==
    /\ HandlerCall("play")
    /\ Enqueue([by |-> current.id, text |-> "fact"])
    /\ UNCHANGED <<windowVars, outboundVars, deferred, ghostVars>>

HandlerDefers(kind) ==
    /\ HandlerCall("play")
    /\ Defer(kind, current.id)
    /\ UNCHANGED <<windowVars, busVars, outboundVars>>

SetMode(mode) ==
    /\ HandlerCall("play")
    /\ Write(ModeCell, mode)
    /\ Enqueue([by |-> current.id, mode |-> mode])
    /\ UNCHANGED <<outboundVars, deferred, ghostVars>>

\* mode_store.begin; refused while a mode is active
StartMode(mode) == cells[ModeCell] = Absent /\ SetMode(mode)

\* mode_store.end_mode; refused while none is
EndMode == cells[ModeCell] # Absent /\ SetMode(Absent)

\* handle_save of session_controls: refused while a mode is active
SaveHandlerRequests ==
    /\ steps = 0
    /\ cells[ModeCell] = Absent
    /\ HandlerCall("save")
    /\ Request([by |-> current.id, wants |-> "save", from |-> "handle"])
    /\ UNCHANGED <<windowVars, busVars, deferred, ghostVars>>

\* The handler returns a success: the transaction is committed, and the
\* pump begins.
HandlerSucceeds ==
    /\ pc = "handle"
    /\ current.kind = "save" => staged # <<>>
    /\ CommitTransaction
    /\ CommitContext
    /\ phase' = "pumping_events"
    /\ pc' = "pump" /\ iterations' = 0
    /\ Decide("committed")
    /\ UNCHANGED <<outboundVars, isDispatching, isProcessing, deferred, current,
                   root, caller, steps, hostVars>>

\* The handler returns { ok = false }, or calls fail(), which is an error
\* once it has written to a canonical cell.
HandlerRefuses ==
    /\ pc = "handle"
    /\ current.kind = "save" => staged = <<>>
    /\ RollbackTransaction
    /\ RollbackContext
    /\ DropStaged
    /\ Decide("refused")
    /\ Finish
    /\ UNCHANGED hostVars

HandlerThrows ==
    /\ pc = "handle" /\ current.kind = "play"
    /\ RollbackTransaction
    /\ Decide("faulted")
    /\ Raise("idle")

-----------------------------------------------------------------------------
(***************************************************************************)
(* The pump, and the subscribers of one event as one piece of user code.   *)
(***************************************************************************)

PumpNext ==
    /\ pc = "pump"
    /\ iterations < PumpLimit
    /\ DeliverFact
    /\ iterations' = iterations + 1
    /\ pc' = "subscribe" /\ steps' = 0
    /\ UNCHANGED <<windowVars, outboundVars, dispatchVars, deferred, current, root, caller,
                   hostVars, ghostVars>>

PumpLimitExceeded ==
    /\ pc = "pump" /\ eventQueue # <<>>
    /\ iterations = PumpLimit
    /\ Raise("failed")
    /\ UNCHANGED <<windowVars, ghostVars>>

SubscriberCall ==
    /\ pc = "subscribe"
    /\ Step
    /\ UNCHANGED <<windowVars, outboundVars, dispatchVars, pc, current, root, caller,
                   iterations, hostVars>>

SubscriberEmits ==
    /\ SubscriberCall
    /\ Enqueue([by |-> 0, text |-> "fact"])
    /\ UNCHANGED <<deferred, ghostVars>>

SubscriberDefers(kind) ==
    /\ SubscriberCall
    /\ Defer(kind, current.id)
    /\ UNCHANGED busVars

SubscribersReturn ==
    /\ pc = "subscribe"
    /\ pc' = "pump"
    /\ UNCHANGED <<windowVars, busVars, outboundVars, dispatchVars, deferred, current, root,
                   caller, steps, iterations, hostVars, ghostVars>>

SubscriberThrows ==
    /\ pc = "subscribe"
    /\ Raise("failed")
    /\ UNCHANGED <<windowVars, ghostVars>>

\* The queue is empty.  The phase stays what it is until dispatch returns.
PumpDone ==
    /\ pc = "pump"
    /\ EndPump
    /\ CommitStaged
    /\ pc' = "resolve" /\ steps' = 0
    /\ UNCHANGED <<windowVars, dispatchVars, deferred, current, root, caller,
                   iterations, hostVars, ghostVars>>

-----------------------------------------------------------------------------
(***************************************************************************)
(* The presentation source, and the host.                                  *)
(***************************************************************************)

Resolve ==
    /\ pc = "resolve"
    /\ \/ document' = [state |-> cells, by |-> 0]
       \/ ~SourceShows /\ UNCHANGED document
    /\ Finish
    /\ UNCHANGED <<windowVars, busVars, outboundVars, alive, saved, ghostVars>>

ResolveThrows ==
    /\ pc = "resolve"
    /\ Raise(phase)
    /\ UNCHANGED <<windowVars, ghostVars>>

\* is_safe_point of save.lua
IsSafePoint == phase = "idle" /\ deferred = <<>> /\ eventQueue = <<>>

\* PumpIngress after a dispatch: takes the requests and serves them before
\* it dispatches anything else.
HostServesRequests ==
    /\ pc = "returned"
    /\ TakeRequests
    /\ saved' = IF IsSafePoint /\ \E i \in DOMAIN committed : committed[i].wants = "save"
                THEN cells ELSE saved
    /\ pc' = "idle"
    /\ UNCHANGED <<windowVars, busVars, dispatchVars, deferred, current, root, caller, steps,
                   iterations, alive, document, ghostVars>>

-----------------------------------------------------------------------------

\* What happens inside a dispatch once it has begun.
InternalStep ==
    \/ ValidatorsAllow \/ ValidatorRefuses \/ ValidatorThrows
    \/ \E c \in Canonical, v \in Contents : HandlerWrites(c, v)
    \/ \E kind \in Kinds : HandlerDefers(kind) \/ SubscriberDefers(kind)
    \/ \E mode \in Values : StartMode(mode)
    \/ HandlerEmits \/ EndMode \/ SaveHandlerRequests
    \/ HandlerSucceeds \/ HandlerRefuses \/ HandlerThrows
    \/ PumpNext \/ PumpLimitExceeded \/ PumpDone
    \/ SubscriberEmits \/ SubscribersReturn \/ SubscriberThrows
    \/ Resolve \/ ResolveThrows
    \/ DrainNext \/ DrainDone
    \/ HostServesRequests

Next ==
    \/ \E who \in Callers, kind \in Kinds : Call(who, kind)
    \/ \E who \in Callers : CallRefused(who)
    \/ \E kind \in Kinds : DeferOutside(kind)
    \/ DrainQueue \/ DrainQueueRefused
    \/ \E wants \in Wants : UserRequests(wants)
    \/ UserShows
    \/ InternalStep

Spec == Init /\ [][Next]_vars

\* A call into Lua runs until it returns.
FairSpec == Spec /\ WF_vars(InternalStep)

-----------------------------------------------------------------------------
(***************************************************************************)
(* Properties.                                                             *)
(***************************************************************************)

DispatchType ==
    /\ phase \in {"idle", "executing_command", "pumping_events", "failed"}
    /\ isDispatching \in BOOLEAN /\ isProcessing \in BOOLEAN
    /\ deferred \in Seq(Commands) /\ Len(deferred) <= DeferredCapacity
    /\ pc \in UserCode \cup {"idle", "pump", "drain", "returned"}
    /\ current \in Commands
    /\ root \in 0 .. MaxCommands /\ caller \in {"none", "host", "lua"}
    /\ steps \in 0 .. MaxSteps /\ iterations \in 0 .. PumpLimit
    /\ alive \in BOOLEAN
    /\ document \in Documents
    /\ saved \in [Cells -> Contents] \cup {NoSave}
    /\ outcome \in [Ids -> {"none", "refused", "faulted", "committed"}]
    /\ issued \in 0 .. MaxCommands

\* Every variable has its type.
TypeOK == WindowType /\ BusType /\ OutboundType /\ DispatchType

\* No command leaves anything of itself behind, however it ended: where no
\* handler and no pump is running, the window is closed, the journal, the
\* context and the queues of the bus are empty and nothing is staged.  And
\* while user code runs, the runtime refuses a second dispatch.
CleanBetweenCommands ==
    /\ pc \in {"idle", "returned", "drain", "validate"} =>
          /\ ~windowOpen /\ journal = EmptyJournal
          /\ contextOf = 0 /\ pending = <<>>
          /\ eventQueue = <<>> /\ ~isPumping
          /\ ~staging /\ staged = <<>>
    /\ pc \in {"idle", "returned", "drain"} => ~isDispatching
    /\ pc \in UserCode \cup {"pump"} => ~MayDispatch

\* The last of the facts that is about a mode names this one.
LastModeIs(facts, mode) ==
    LET ofModes == {i \in DOMAIN facts : "mode" \in DOMAIN facts[i]}
    IN  /\ ofModes = {} => mode = Absent
        /\ \A last \in ofModes :
              (\A i \in ofModes : i <= last) => facts[last].mode = mode

\* What subscribers have been told, or are about to be, about the modes is
\* what the state says, through rollbacks, faults and deferred commands,
\* unless the session has failed and the rest of the facts is lost.
ModeFactsMatchState ==
    phase # "failed" =>
        LastModeIs(published \o eventQueue \o pending, cells[ModeCell])

\* What the handler, the subscribers or the source of a command requested is
\* handed to the host if the command has been committed, and what is staged
\* belongs to the command being dispatched.  What its validators requested is
\* the exception: the host gets it at once, and keeps it when they refuse.
RequestsOfCommitted ==
    /\ \A i \in DOMAIN committed :
          committed[i].from \in {"handle", "subscribe", "resolve"} =>
              outcome[committed[i].by] = "committed"
    /\ \A i \in DOMAIN staged :
          staged[i].by = current.id /\ staged[i].from \in {"handle", "subscribe"}

\* Where only the host dispatches: when its call has returned and the
\* session lives, the runtime is ready for the next one and no deferred
\* command has been left behind.
ReadyWhenQuiet ==
    pc \in {"idle", "returned"} /\ alive =>
        /\ phase = "idle" /\ ~isProcessing
        /\ deferred = <<>>

\* Where only the host dispatches, and a source answers every commit: between
\* the host's calls the UI document was built from the state there is, whatever
\* the handlers showed while they ran and whichever commands were rolled back,
\* except for the document that a command showed before it was refused: it
\* stays until the next commit.
DocumentShowsState ==
    SourceShows /\ pc \in {"idle", "returned"} /\ alive =>
        \/ document.state = cells
        \/ document.by # 0 /\ outcome[document.by] = "refused"

\* The runtime implements AtomicCommands: a reader who takes the open
\* transaction back sees every command happen at one instant or not at all.
Atomic == INSTANCE AtomicCommands WITH
    state <- Restored, facts <- eventQueue, delivered <- published,
    verdict <- outcome, stored <- saved

CommandsAreAtomic == Atomic!AtomicSpec

\* A call into the runtime returns, provided the user code it calls does and
\* does not defer commands for ever (MaxCommands).
DispatchReturns == root # 0 ~> root = 0
=============================================================================
