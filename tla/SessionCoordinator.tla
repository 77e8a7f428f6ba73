------------------------- MODULE SessionCoordinator -------------------------
(***************************************************************************)
(* FGV2SessionCoordinator: the owner of the one active session.  It        *)
(* replaces a session by another (ExecuteSessionStart), ends it            *)
(* (EndSession), pumps the interactions of its user interface              *)
(* (PumpIngress), and saves it, all on the game thread.                    *)
(*                                                                         *)
(* Nothing here is concurrent, yet much of it interleaves: the coordinator *)
(* calls out to sinks (tear down or publish the projection, apply a        *)
(* document, play effects, observe an interaction), a sink runs widget     *)
(* code, and widget code may call the coordinator's API again.  So the     *)
(* call stack is a variable.  A frame is a call of ProcessNextTransition,  *)
(* PumpIngress or EndSession that has not returned; its pc says where it   *)
(* is.  Only the top frame moves, and an API call comes from outside (the  *)
(* stack is empty) or from a sink the top frame is waiting for.            *)
(*                                                                         *)
(* The module extends TransitionPolicy: "policy" is the coordinator's      *)
(* TransitionPolicy member and its methods are the operators there.        *)
(***************************************************************************)
EXTENDS TransitionPolicy, Sequences, SequencesExt

CONSTANTS
    Contents,        \* published repositories, with their package sets
    NoContent,       \* an invalid handle, an unset optional, version 0
    SinkCalls,       \* pairs <<sink, call>>: what the sinks may call back
    Faults,          \* operations of the runtime that may fail
    DocRevisions,    \* revisions Lua may give a document; the host renumbers
    MaxInputs,       \* bound: interactions accepted per session
    QueueCapacity,   \* FGV2RuntimeIngressQueue's capacity (256 in production)
    MaxDepth         \* bound: nested calls

ASSUME CoordinatorAssumption ==
    /\ NoContent \notin Contents
    /\ \A d \in Descriptors : d.key \in Contents
    /\ \A c \in Contents : [mode |-> "LoadSave", key |-> c] \in Descriptors
    /\ DocRevisions \subseteq Nat \ {0}
    /\ MaxInputs \in Nat /\ QueueCapacity \in Nat
    /\ MaxDepth \in Nat \ {0}

VARIABLES
    \* FGV2SessionStatus
    app, session, ready, generation, repoVersion,
    \* the portable runtime session: generation of the live VM, 0 for none
    vm,
    \* UI binding registry [gen, rev], ingress queue, UiRevision,
    \* NextInputSequence
    registry, queue, uiRevision, nextSequence,
    \* PinnedRepository, ContentSnapshot, ActivePackageSet
    pinned, snapshot, activePackages,
    \* PendingSaveRequests, PendingStartContext, CurrentTransitionKind
    pendingSaves, startContext, transitionKind,
    \* the calls in progress
    stack

status == <<app, session, ready, generation, repoVersion>>
ui == <<registry, queue, uiRevision, nextSequence>>
contents == <<pinned, snapshot, activePackages>>
requests == <<policy, pendingSaves, startContext>>
vars == <<status, vm, ui, contents, requests, transitionKind, stack>>

-----------------------------------------------------------------------------
(***************************************************************************)
(* The call stack.                                                         *)
(***************************************************************************)

Sinks ==
    {"ReplaceSink",      \* ProjectionTeardownSink, from BeginReplace
     "DocumentSink",     \* DocumentSink, from ExecuteSessionStart
     "PublishSink",      \* ProjectionPublishSink, from PublishReady
     "EffectSink",       \* EffectSink, from ExecuteSessionStart
     "EndSink",          \* ProjectionTeardownSink, from EndSession
     "PumpDocumentSink", \* DocumentSink, from PumpIngress
     "InteractionSink",  \* InteractionSink, from PumpIngress
     "PumpEffectSink"}   \* EffectSink, from PumpIngress

Calls == {"RequestSession", "RequestLoad", "RequestSave", "Cancel", "Submit",
          "EndSession"}

NoContext ==
    [repo |-> NoContent, version |-> NoContent, packages |-> NoContent]

\* Locals of a call: the operation, its kind and its context, whether a Ready
\* session was there before, and the revision of the document being applied.
Frame(proc, pc) ==
    [proc |-> proc, pc |-> pc, op |-> 0, kind |-> "NewGame",
     context |-> NoContext, hadPrior |-> FALSE, rev |-> 0]

Top == stack[Len(stack)]
Push(frame) == Append(stack, frame)
Pop == SubSeq(stack, 1, Len(stack) - 1)
Goto(pc) == [stack EXCEPT ![Len(stack)].pc = pc]
At(proc, pc) == stack # <<>> /\ Top.proc = proc /\ Top.pc = pc

InProgress(proc) == \E i \in 1 .. Len(stack) : stack[i].proc = proc

\* bProcessingTransition and bPumpingIngress: the guards are set for exactly
\* as long as the frame is on the stack.  bExecutingRuntime is only set while
\* Lua runs, and Lua never calls the API.
Processing == InProgress("Process")
Pumping == InProgress("Pump")
Busy == Processing \/ Pumping

\* The API may be called by the host between calls, or by a sink.
MayCall(call) ==
    stack # <<>> =>
        /\ Top.pc \in Sinks
        /\ <<Top.pc, call>> \in SinkCalls
        /\ Len(stack) < MaxDepth

-----------------------------------------------------------------------------
(***************************************************************************)
(* What several handlers share.                                            *)
(***************************************************************************)

NoRegistry == [gen |-> 0, rev |-> 0]

\* Mutant: the ingress queue is not reset.
CloseBindings == registry' = NoRegistry /\ UNCHANGED queue

\* BindingRegistry.EndSession() and IngressQueue.Reset(): every handle becomes
\* stale and every interaction that waits is dropped.
CloseInput == registry' = NoRegistry /\ queue' = <<>>

\* FGV2UiBindingRegistry: a session begins without bindings, publishes those of
\* a document all at once, and resolves the handles of the current ones only.
BeginBindings(gen) == [gen |-> gen, rev |-> 0]
CommitBindings(rev) == [registry EXCEPT !.rev = rev]
HandlesResolve == registry.gen # 0 /\ registry.rev # 0

\* FGV2RuntimeIngressQueue::TryEnqueue, which refuses when the queue is full.
Enqueue(item) == Len(queue) < QueueCapacity /\ queue' = Append(queue, item)

\* RuntimeSession.Stop, on the game thread and never from inside Lua, so that
\* it always succeeds.
StopVm == vm' = 0

\* Record the same outcome for a sequence of pending saves, in their order.
RecordSaves(p, saves, outcome) ==
    LET after[i \in 0 .. Len(saves)] ==
            IF i = 0 THEN p ELSE Record(after[i - 1], saves[i].id, outcome)
    IN  after[Len(saves)]

(***************************************************************************)
(* FailRuntime: fail the waiting saves, close the session, stop the VM,    *)
(* and go to Failed.  It leaves generation, ActivePackageSet and           *)
(* PendingStartContext alone.  "recorded" is the policy it leaves: the     *)
(* saves failed, and what the caller records after that.                   *)
(***************************************************************************)
SavesFailed == RecordSaves(policy, pendingSaves, "Failed")

FailRuntime(recorded) ==
    /\ policy' = recorded
    /\ pendingSaves' = <<>>
    /\ ready' = FALSE
    /\ CloseInput
    /\ session' =
          LET stopped == IF vm # 0 THEN TrySession(session, "Stopping", transitionKind)
                         ELSE session
          IN  TrySession(stopped, "Failed", transitionKind)
    /\ StopVm
    /\ app' = TryApp(app, "Failed")
    /\ pinned' = NoContent
    /\ snapshot' = NoContent
    /\ repoVersion' = NoContent
    /\ nextSequence' = 1
    /\ uiRevision' = 0
    /\ UNCHANGED <<generation, activePackages, startContext,
                   transitionKind>>

(***************************************************************************)
(* The body of RequestSession, on a policy p: join, or take the slot and   *)
(* replace the context the next start will use.                            *)
(***************************************************************************)
CanRequest(p, d) == JoinsRequest(p, d) \/ CanAllocate(p)

\* Mutant: a context that is already kept is not replaced.
EnqueueStartKeepsContext(d, context) ==
    /\ CanRequest(policy, d)
    /\ policy' = EnqueueRequest(policy, d)
    /\ startContext' = IF JoinsRequest(policy, d) \/ startContext # NoContext
                       THEN startContext ELSE context

EnqueueStart(d, context) ==
    /\ CanRequest(policy, d)
    /\ policy' = EnqueueRequest(policy, d)
    /\ startContext' = IF JoinsRequest(policy, d) THEN startContext ELSE context

(***************************************************************************)
(* RequestLoad picks the repository and packages of the active session, or *)
(* those of the start that waits; with neither, the operation fails.       *)
(***************************************************************************)
LoadContext ==
    IF activePackages # NoContent /\ pinned # NoContent
    THEN [repo |-> pinned, version |-> repoVersion, packages |-> activePackages]
    ELSE startContext

EnqueueLoad ==
    \/ /\ LoadContext # NoContext
       /\ EnqueueStart([mode |-> "LoadSave", key |-> LoadContext.repo], LoadContext)
    \/ /\ LoadContext = NoContext
       /\ CanAllocate(policy)
       /\ policy' = Record(AllocateOperationId(policy), policy.next, "Failed")
       /\ UNCHANGED startContext

\* SaveToSlot runs in the live VM; without one it fails.
SaveOutcomes ==
    (IF vm # 0 THEN {"Completed"} ELSE {})
    \cup (IF vm = 0 \/ "save" \in Faults THEN {"Failed"} ELSE {})

\* ExecuteSaveOperation, on a policy p.
ExecuteSave(p, id) ==
    IF ~ready THEN {Record(p, id, "Failed")}
    ELSE {Record(p, id, o) : o \in SaveOutcomes}

\* Mutant: readiness is only checked when the save is executed.
MalformedSlot(validSlot) == ~validSlot

SaveRefused(validSlot) == ~ready \/ ~validSlot

(***************************************************************************)
(* RequestSave: an id of its own, an error when no session is Ready (or    *)
(* the slot id is malformed), deferred while the coordinator is busy and   *)
(* executed on the spot otherwise.                                         *)
(***************************************************************************)
EnqueueSave(validSlot) ==
    LET allocated == AllocateOperationId(policy)
        id == policy.next
    IN  /\ CanAllocate(policy)
        /\ IF SaveRefused(validSlot)
           THEN /\ policy' = Record(allocated, id, "Failed")
                /\ UNCHANGED pendingSaves
           ELSE IF Busy
           THEN /\ policy' = allocated
                /\ pendingSaves' = Append(pendingSaves, [id |-> id, gen |-> generation])
           ELSE /\ policy' \in ExecuteSave(allocated, id)
                /\ UNCHANGED pendingSaves

-----------------------------------------------------------------------------
(***************************************************************************)
(* The API.                                                                *)
(***************************************************************************)

\* ProcessNextTransition is entered at once unless a call already runs it or
\* will run it when it is done.
StartProcessing == stack' = IF Busy THEN stack ELSE Push(Frame("Process", "Next"))

RequestSession(d) ==
    /\ MayCall("RequestSession")
    /\ ~JoinsRequest(policy, d)
    /\ EnqueueStart(d, [repo |-> d.key, version |-> d.key, packages |-> d.key])
    /\ StartProcessing
    /\ UNCHANGED <<status, vm, ui, contents, pendingSaves, transitionKind>>

\* The subsystem only passes a load on to the coordinator when a session is
\* Ready; before that it asks for a session that starts from the save.
RequestLoad ==
    /\ MayCall("RequestLoad")
    /\ ready /\ vm # 0
    /\ EnqueueLoad
    /\ IF policy'.pending # policy.pending THEN StartProcessing ELSE UNCHANGED stack
    /\ UNCHANGED <<status, vm, ui, contents, pendingSaves, transitionKind>>

RequestSave(validSlot) ==
    /\ MayCall("RequestSave")
    /\ EnqueueSave(validSlot)
    /\ UNCHANGED <<status, vm, ui, contents, startContext, transitionKind, stack>>

(***************************************************************************)
(* CancelSessionRequest: a deferred save is simply dropped; otherwise the  *)
(* policy decides.  PendingStartContext is only reset when some other      *)
(* operation is active.                                                    *)
(***************************************************************************)
CancelSessionRequest(id) ==
    LET cancelled == CancelRequest(policy, id)
    IN  /\ MayCall("Cancel")
        /\ \/ \E i \in 1 .. Len(pendingSaves) :
                 /\ pendingSaves[i].id = id
                 /\ pendingSaves' = RemoveAt(pendingSaves, i)
                 /\ policy' = Record(policy, id, "Cancelled")
                 /\ UNCHANGED startContext
           \/ /\ \A i \in 1 .. Len(pendingSaves) : pendingSaves[i].id # id
              /\ policy' = cancelled
              /\ startContext' =
                    IF /\ CancelResult(policy, id) = "Accepted"
                       /\ cancelled.active # NoOp
                       /\ cancelled.active.id # id
                    THEN NoContext ELSE startContext
              /\ UNCHANGED pendingSaves
        /\ UNCHANGED <<status, vm, ui, contents, transitionKind, stack>>

(***************************************************************************)
(* SubmitUiInteraction with a handle of the current document: a snapshot   *)
(* of the binding is queued and the queue is pumped.  A handle that does   *)
(* not resolve, an input that does not validate and a full queue are       *)
(* refused without effect.                                                 *)
(***************************************************************************)
SubmitUiInteraction ==
    /\ MayCall("Submit")
    /\ ready /\ session = "Ready"
    /\ HandlesResolve
    /\ nextSequence <= MaxInputs
    /\ Enqueue([gen |-> registry.gen, rev |-> registry.rev, seq |-> nextSequence])
    /\ nextSequence' = nextSequence + 1
    /\ stack' = IF Pumping THEN stack ELSE Push(Frame("Pump", "Loop"))
    /\ UNCHANGED <<status, vm, registry, uiRevision, contents, requests,
                   transitionKind>>

(***************************************************************************)
(* EndSession up to the teardown of the projection.  Unless a shutdown is  *)
(* already active, it takes the slot and the active operation over.        *)
(***************************************************************************)
EndingShutdown == policy.active # NoOp /\ policy.active.kind = "Shutdown"

EndSession ==
    /\ MayCall("EndSession")
    /\ EndingShutdown \/ JoinsShutdown(policy) \/ CanAllocate(policy)
    /\ policy' = IF EndingShutdown THEN policy
                 ELSE DequeuePendingOperation(EnqueueShutdown(policy))
    /\ transitionKind' = "Shutdown"
    /\ ready' = FALSE
    /\ CloseInput
    /\ session' = IF vm # 0 THEN TrySession(session, "Stopping", "Shutdown") ELSE session
    /\ app' = IF vm # 0 THEN TryApp(app, "ShuttingDown") ELSE app
    /\ StopVm
    /\ pinned' = NoContent
    /\ snapshot' = NoContent
    /\ activePackages' = NoContent
    /\ stack' = Push(Frame("End", "EndSink"))
    /\ UNCHANGED <<generation, repoVersion, uiRevision, nextSequence,
                   pendingSaves, startContext>>

\* The rest of EndSession, when the teardown sink has returned.
FinishEndSession ==
    /\ At("End", "EndSink")
    /\ app' = TryApp(app, "Uninitialized")
    /\ session' = TrySession(session, "Destroyed", "Shutdown")
    /\ repoVersion' = NoContent
    /\ nextSequence' = 1
    /\ uiRevision' = 0
    /\ pendingSaves' = <<>>
    /\ policy' = IF SavesFailed.active # NoOp /\ SavesFailed.active.kind = "Shutdown"
                 THEN Record(SavesFailed, SavesFailed.active.id, "Completed")
                 ELSE SavesFailed
    /\ stack' = Pop
    /\ UNCHANGED <<ready, generation, vm, registry, queue, contents,
                   startContext, transitionKind>>

(***************************************************************************)
(* FailBootstrap: the subsystem found no published repository to start a   *)
(* session with.  The coordinator asserts that none is Ready.              *)
(***************************************************************************)
FailBootstrap ==
    /\ stack = <<>>
    /\ ~ready
    /\ FailRuntime(SavesFailed)
    /\ UNCHANGED stack

-----------------------------------------------------------------------------
(***************************************************************************)
(* ProcessNextTransition and ExecuteSessionStart.  Only EndSession issues  *)
(* a Shutdown, and it takes it out of the slot in the same call, so what   *)
(* the loop dequeues is a start.                                           *)
(***************************************************************************)

ProcessDone ==
    /\ At("Process", "Next")
    /\ policy.pending = NoOp
    /\ stack' = Pop
    /\ UNCHANGED <<status, vm, ui, contents, requests, transitionKind>>

DequeueStart ==
    /\ At("Process", "Next")
    /\ policy.pending # NoOp
    /\ LET op == policy.pending
           taken == DequeuePendingOperation(policy)
       IN  IF startContext # NoContext
           THEN /\ policy' = taken
                /\ transitionKind' = op.kind
                /\ stack' = [stack EXCEPT ![Len(stack)] =
                      [Frame("Process", "Preflight") EXCEPT
                          !.op = op.id, !.kind = op.kind,
                          !.context = startContext, !.hadPrior = ready]]
           ELSE /\ policy' = Record(taken, op.id, "Failed")
                /\ UNCHANGED <<transitionKind, stack>>
    /\ startContext' = NoContext
    /\ UNCHANGED <<status, vm, ui, contents, pendingSaves>>

\* GetActiveOperation()->bCancellationRequested
CancelRequested == policy.active.cancelRequested

(***************************************************************************)
(* Any check before BeginReplace (descriptor, sources, candidate contents, *)
(* cancellation, save slot, preflight in the live VM, repository identity) *)
(* ends the attempt: FailReplacementAttempt, which touches nothing when a  *)
(* session was Ready, then the outcome.                                    *)
(***************************************************************************)
AbortPreflight ==
    /\ At("Process", "Preflight")
    /\ \/ "preflight" \in Faults
       \/ CancelRequested
       \/ Top.context.version = NoContent
    /\ policy' = Record(policy, Top.op,
                        IF CancelRequested THEN "Cancelled" ELSE "Failed")
    /\ IF Top.hadPrior
       THEN UNCHANGED <<ready, app, session>>
       ELSE /\ ready' = FALSE
            /\ app' = TryApp(app, "Failed")
            /\ session' = TrySession(session, "Failed", transitionKind)
    /\ stack' = Goto("Next")
    /\ UNCHANGED <<generation, repoVersion, vm, ui, contents, pendingSaves,
                   startContext, transitionKind>>

\* BeginReplace up to the teardown of the old projection.
BeginReplace ==
    /\ At("Process", "Preflight")
    /\ ~CancelRequested
    /\ Top.context.version # NoContent
    /\ CloseInput
    /\ snapshot' = NoContent
    /\ StopVm
    /\ stack' = Goto("ReplaceSink")
    /\ UNCHANGED <<status, uiRevision, nextSequence, pinned,
                   activePackages, requests, transitionKind>>

\* The rest of BeginReplace, the commit mark, and the creation of the new VM.
FinishReplace ==
    /\ At("Process", "ReplaceSink")
    /\ generation' = generation + 1
    /\ app' = TryApp(app, "Bootstrapping")
    /\ session' = TrySession(session, "Creating", Top.kind)
    /\ ready' = FALSE
    /\ repoVersion' = Top.context.version
    /\ nextSequence' = 1
    /\ uiRevision' = 0
    /\ pinned' = Top.context.repo
    /\ registry' = BeginBindings(generation + 1)
    /\ policy' = CommitActive(policy)
    /\ vm' = generation + 1
    /\ stack' = Goto("Phases")
    /\ UNCHANGED <<queue, snapshot, activePackages, pendingSaves, startContext,
                   transitionKind>>

NextPhase == [Creating |-> "Registering", Registering |-> "BuildingState",
              BuildingState |-> "RestoringInstances",
              RestoringInstances |-> "Starting"]

\* The callback of a phase that has completed.
CompletePhase ==
    /\ At("Process", "Phases")
    /\ session \in DOMAIN NextPhase
    /\ ~CancelRequested
    /\ session' = TrySession(session, NextPhase[session], Top.kind)
    /\ UNCHANGED <<app, ready, generation, repoVersion, vm, ui, contents,
                   requests, transitionKind, stack>>

\* Mutant: the VM of the failed candidate is not stopped.
AbandonStartLeaksVm(outcome) ==
    /\ session' = TrySession(TrySession(session, "Stopping", Top.kind), "Failed", Top.kind)
    /\ app' = TryApp(app, "Failed")
    /\ policy' = Record(policy, Top.op, outcome)
    /\ stack' = Goto("Next")
    /\ UNCHANGED <<ready, generation, repoVersion, vm, ui, contents,
                   pendingSaves, startContext, transitionKind>>

\* The start failed after the old session is gone: the shared tail of every
\* error return between BeginReplace and PublishReady.
AbandonStart(outcome) ==
    /\ session' = TrySession(TrySession(session, "Stopping", Top.kind), "Failed", Top.kind)
    /\ StopVm
    /\ app' = TryApp(app, "Failed")
    /\ policy' = Record(policy, Top.op, outcome)
    /\ stack' = Goto("Next")
    /\ UNCHANGED <<ready, generation, repoVersion, ui, contents,
                   pendingSaves, startContext, transitionKind>>

AbortPhases ==
    /\ At("Process", "Phases")
    /\ "phase" \in Faults \/ CancelRequested
    /\ AbandonStart(IF CancelRequested THEN "Cancelled" ELSE "Failed")

\* The revision PrepareDocumentRequest gives a document that carries one.
CandidateRevision(revision) ==
    IF revision > uiRevision THEN revision ELSE uiRevision + 1

\* All phases done: the initial document is taken, prepared against the
\* candidate contents, and handed to the sink.
PrepareInitialDocument(revision) ==
    /\ At("Process", "Phases")
    /\ session = "Starting"
    /\ session' = TrySession(session, "PreparingPresentation", Top.kind)
    /\ stack' = [Goto("DocumentSink")
                    EXCEPT ![Len(stack)].rev = CandidateRevision(revision)]
    /\ UNCHANGED <<app, ready, generation, repoVersion, vm, ui, contents, requests,
                   transitionKind>>

\* No initial document, one that cannot be prepared (both before the sink), or
\* one the sink refuses to apply.
AbortPresentation ==
    /\ At("Process", "DocumentSink")
    /\ "document" \in Faults
    /\ AbandonStart("Failed")

\* The sink applied the document: CommitPreparedBindings, and PublishReady up
\* to its sink.
PublishReady ==
    /\ At("Process", "DocumentSink")
    /\ registry' = CommitBindings(Top.rev)
    /\ snapshot' = Top.context.repo
    /\ uiRevision' = Top.rev
    /\ app' = TryApp(app, IF Top.kind = "Menu" THEN "MenuActive" ELSE "GameActive")
    /\ session' = TrySession(session, "Ready", Top.kind)
    /\ ready' = TRUE
    /\ stack' = Goto("PublishSink")
    /\ UNCHANGED <<generation, repoVersion, vm, queue, nextSequence, pinned,
                   activePackages, requests, transitionKind>>

\* DrainPresentationEffects found effects to play.
PlayStartEffects ==
    /\ At("Process", "PublishSink")
    /\ vm # 0
    /\ stack' = Goto("EffectSink")
    /\ UNCHANGED <<status, vm, ui, contents, requests, transitionKind>>

\* Mutant: the result of the drain is not looked at.
AbortStartEffectsUnseen ==
    /\ At("Process", "PublishSink")
    /\ vm # 0
    /\ "effects" \in Faults
    /\ FailRuntime(Record(SavesFailed, Top.op, "Completed"))
    /\ stack' = Goto("Next")

\* DrainPresentationEffects failed: FailRuntime, and the operation with it.
AbortStartEffects ==
    /\ At("Process", "PublishSink")
    /\ vm # 0
    /\ "effects" \in Faults
    /\ FailRuntime(Record(SavesFailed, Top.op, "Failed"))
    /\ stack' = Goto("Next")

\* The effects, if any, are played; the start is complete.
CompleteStart ==
    /\ At("Process", "PublishSink") \/ At("Process", "EffectSink")
    /\ activePackages' = Top.context.packages
    /\ policy' = Record(policy, Top.op, "Completed")
    /\ stack' = Goto("Next")
    /\ UNCHANGED <<status, vm, ui, pinned, snapshot, pendingSaves, startContext,
                   transitionKind>>

-----------------------------------------------------------------------------
(***************************************************************************)
(* PumpIngress.  One item at a time: Lua runs the command, may ask for a   *)
(* save or a load and may publish a document; the sinks see the result;    *)
(* the deferred saves run last.                                            *)
(***************************************************************************)

\* DispatchSemanticInput refuses an interaction of another session.
StaleInput == Head(queue).gen # vm

\* DispatchSemanticInput or TakePendingDocument failed.
DispatchFails ==
    /\ At("Pump", "Loop")
    /\ ready /\ queue # <<>>
    /\ "dispatch" \in Faults \/ StaleInput
    /\ FailRuntime(SavesFailed)
    /\ stack' = Pop

\* What Lua asks of its host while it runs a command (at most one request per
\* command, a bound of the model), and the document it publishes, if any (one
\* that cannot be prepared counts as none).
ControlRequests == {"none", "save", "load"}
NoDocument == 0

Dispatch(request, document) ==
    /\ At("Pump", "Loop")
    /\ ready /\ queue # <<>>
    /\ ~StaleInput
    /\ queue' = Tail(queue)
    /\ CASE request = "none" -> UNCHANGED requests
         [] request = "save" -> EnqueueSave(TRUE) /\ UNCHANGED startContext
         [] request = "load" -> EnqueueLoad /\ UNCHANGED pendingSaves
    /\ stack' = IF document # NoDocument /\ snapshot # NoContent
                THEN [Goto("PumpDocumentSink")
                        EXCEPT ![Len(stack)].rev = CandidateRevision(document)]
                ELSE Goto("InteractionSink")
    /\ UNCHANGED <<status, vm, registry, uiRevision, nextSequence, contents,
                   transitionKind>>

\* The document sink has returned; a document that could not be prepared or
\* applied changes nothing.
ApplyDocument(applied) ==
    /\ At("Pump", "PumpDocumentSink")
    /\ applied \/ "document" \in Faults
    /\ IF applied
       THEN /\ registry' = CommitBindings(Top.rev)
            /\ uiRevision' = Top.rev
       ELSE UNCHANGED <<registry, uiRevision>>
    /\ stack' = Goto("InteractionSink")
    /\ UNCHANGED <<status, vm, queue, nextSequence, contents, requests,
                   transitionKind>>

\* DrainPresentationEffects, after the interaction sink.
PlayEffects ==
    /\ At("Pump", "InteractionSink")
    /\ vm # 0
    /\ stack' = Goto("PumpEffectSink")
    /\ UNCHANGED <<status, vm, ui, contents, requests, transitionKind>>

NoEffects ==
    /\ At("Pump", "InteractionSink") \/ At("Pump", "PumpEffectSink")
    /\ stack' = Goto("Saves")
    /\ UNCHANGED <<status, vm, ui, contents, requests, transitionKind>>

EffectsFail ==
    /\ At("Pump", "InteractionSink")
    /\ vm # 0
    /\ "effects" \in Faults
    /\ FailRuntime(SavesFailed)
    /\ stack' = Pop

\* DrainPendingSaveRequests, one save per step.
DrainSave ==
    /\ At("Pump", "Saves")
    /\ pendingSaves # <<>>
    /\ policy' \in ExecuteSave(policy, Head(pendingSaves).id)
    /\ pendingSaves' = Tail(pendingSaves)
    /\ UNCHANGED <<status, vm, ui, contents, startContext, transitionKind, stack>>

SavesDrained ==
    /\ At("Pump", "Saves")
    /\ pendingSaves = <<>>
    /\ stack' = Goto("Loop")
    /\ UNCHANGED <<status, vm, ui, contents, requests, transitionKind>>

\* Mutant: the pump forgets the transition that was requested meanwhile.
PumpDoneForgets ==
    /\ At("Pump", "Loop")
    /\ ~ready \/ queue = <<>>
    /\ stack' = Pop
    /\ UNCHANGED <<status, vm, ui, contents, requests, transitionKind>>

\* The pump is done, and runs the transition that was requested meanwhile
\* unless a call below it on the stack is already doing so.
PumpDone ==
    /\ At("Pump", "Loop")
    /\ ~ready \/ queue = <<>>
    /\ stack' = IF policy.pending # NoOp /\ ~Processing
                THEN Append(Pop, Frame("Process", "Next"))
                ELSE Pop
    /\ UNCHANGED <<status, vm, ui, contents, requests, transitionKind>>

-----------------------------------------------------------------------------

Init ==
    /\ PolicyInit
    /\ app = "Uninitialized" /\ session = "None" /\ ready = FALSE
    /\ generation = 0 /\ repoVersion = NoContent
    /\ vm = 0
    /\ registry = NoRegistry /\ queue = <<>> /\ uiRevision = 0 /\ nextSequence = 1
    /\ pinned = NoContent /\ snapshot = NoContent /\ activePackages = NoContent
    /\ pendingSaves = <<>> /\ startContext = NoContext
    /\ transitionKind = "NewGame"
    /\ stack = <<>>

\* The steps of the calls in progress.
StartStep ==
    \/ ProcessDone \/ DequeueStart
    \/ AbortPreflight \/ BeginReplace \/ FinishReplace
    \/ CompletePhase \/ AbortPhases
    \/ \E revision \in DocRevisions : PrepareInitialDocument(revision)
    \/ AbortPresentation \/ PublishReady
    \/ PlayStartEffects \/ AbortStartEffects \/ CompleteStart

PumpStep ==
    \/ DispatchFails
    \/ \E request \in ControlRequests, document \in DocRevisions \cup {NoDocument} :
          Dispatch(request, document)
    \/ \E applied \in BOOLEAN : ApplyDocument(applied)
    \/ PlayEffects \/ NoEffects \/ EffectsFail
    \/ DrainSave \/ SavesDrained \/ PumpDone

InternalStep == StartStep \/ PumpStep \/ FinishEndSession

ApiStep ==
    \/ \E d \in Descriptors : RequestSession(d)
    \/ RequestLoad
    \/ \E validSlot \in BOOLEAN : RequestSave(validSlot)
    \/ \E id \in Ids : CancelSessionRequest(id)
    \/ SubmitUiInteraction
    \/ EndSession
    \/ FailBootstrap

Next == InternalStep \/ ApiStep

Spec == Init /\ [][Next]_vars

\* A call on the game thread runs to its return.
FairSpec == Spec /\ WF_vars(InternalStep)

-----------------------------------------------------------------------------

(***************************************************************************)
(* The calls under which the coordinator keeps its invariants: everything  *)
(* from the sinks of the pump, and from the sinks of a start and of a      *)
(* teardown the calls that only ask for something later.                   *)
(***************************************************************************)
SafeCalls ==
    ({"PumpDocumentSink", "InteractionSink", "PumpEffectSink"} \X Calls)
    \cup ({"PublishSink", "EffectSink"} \X {"RequestSession", "RequestLoad", "Cancel"})
    \cup ({"DocumentSink"} \X {"RequestSession", "RequestSave", "Cancel"})
    \cup ({"EndSink"} \X {"RequestSave", "Cancel"})
    \cup {<<"ReplaceSink", "RequestSession">>}

CallsAreSafe == SinkCalls \subseteq SafeCalls

Contexts ==
    [repo : Contents \cup {NoContent}, version : Contents \cup {NoContent},
     packages : Contents \cup {NoContent}]

Frames ==
    [proc : {"Process", "Pump", "End"},
     pc : Sinks \cup {"Next", "Preflight", "Phases", "Loop", "Saves"},
     op : 0 .. MaxOps, kind : StartKinds, context : Contexts,
     hadPrior : BOOLEAN, rev : Nat]

\* Every member has its type, and the call stack is a stack of frames.
TypeOK ==
    /\ PolicyTypeOK
    /\ app \in AppStates /\ session \in SessionStates /\ ready \in BOOLEAN
    /\ generation \in Nat /\ repoVersion \in Contents \cup {NoContent}
    /\ vm \in Nat
    /\ registry \in [gen : Nat, rev : Nat]
    /\ queue \in Seq([gen : Nat, rev : Nat, seq : Nat])
    /\ uiRevision \in Nat /\ nextSequence \in Nat
    /\ {pinned, snapshot, activePackages} \subseteq Contents \cup {NoContent}
    /\ pendingSaves \in Seq([id : Ids, gen : Nat])
    /\ startContext \in Contexts
    /\ transitionKind \in Kinds
    /\ stack \in Seq(Frames)

(***************************************************************************)
(* A session that is Ready is whole: its VM lives and is of the current    *)
(* generation, its snapshot and pinned repository are the same contents,   *)
(* its bindings are published, and the application shows it.  The one      *)
(* exception is the teardown sink of a replacement, which runs while the   *)
(* old readiness still stands (BeginReplace).  And the application is in   *)
(* MenuActive or GameActive only while a session is Ready.                 *)
(***************************************************************************)
Whole ==
    /\ session = "Ready" /\ app \in ActiveAppStates
    /\ vm # 0 /\ vm = generation
    /\ registry.gen = vm /\ registry.rev # 0
    /\ snapshot # NoContent /\ pinned = snapshot /\ repoVersion = snapshot

TearingDownOld == \E i \in 1 .. Len(stack) : stack[i].pc = "ReplaceSink"

ReadyIsWhole ==
    /\ ready => Whole \/ TearingDownOld
    /\ app \in ActiveAppStates => ready /\ session = "Ready"

(***************************************************************************)
(* What waits in the ingress queue belongs to the live session and is      *)
(* dispatched in the order it was accepted: no interaction survives the    *)
(* session it was made in (BeginReplace, EndSession, FailRuntime reset the *)
(* queue; the sequence numbers restart with it).                           *)
(***************************************************************************)
QueueBelongsToSession ==
    /\ \A i \in 1 .. Len(queue) :
          /\ queue[i].gen = vm /\ queue[i].gen = registry.gen
          /\ queue[i].rev <= registry.rev
          /\ queue[i].seq < nextSequence
    /\ \A i, j \in 1 .. Len(queue) : i < j => queue[i].seq < queue[j].seq

(***************************************************************************)
(* When no call is running, nothing is left behind: a VM lives only for a  *)
(* Ready session, no operation is still marked active, and neither a       *)
(* deferred save nor an interaction waits for a call that may never come.  *)
(***************************************************************************)
AtRestNothingRuns ==
    stack = <<>> =>
        /\ (vm # 0) = ready /\ (session = "Ready") = ready
        /\ policy.active = NoOp
        /\ pendingSaves = <<>> /\ queue = <<>>

(***************************************************************************)
(* The operation in the slot and the context kept beside it belong         *)
(* together: the start that runs next starts from the repository it was    *)
(* requested with, however requests, joins and cancellations interleave    *)
(* with the start in progress.                                             *)
(***************************************************************************)
PendingHasItsContext ==
    policy.pending # NoOp =>
        /\ policy.pending.kind \in StartKinds
        /\ startContext # NoContext
        /\ startContext.repo = policy.pending.descriptor.key

(***************************************************************************)
(* At most one transition (a start or a shutdown) is being executed, and   *)
(* the start being executed is the policy's active operation, so that a    *)
(* cancellation addressed to it reaches it, with the commit mark that says *)
(* whether BeginReplace has been crossed.                                  *)
(***************************************************************************)
RunningStartIsActive ==
    LET transitions == {i \in 1 .. Len(stack) :
                          \/ stack[i].proc = "End"
                          \/ stack[i].proc = "Process" /\ stack[i].pc # "Next"}
    IN  /\ Cardinality(transitions) <= 1
        /\ \A i \in transitions : stack[i].proc = "Process" =>
              /\ policy.active.id = stack[i].op
              /\ policy.active.committed
                    <=> stack[i].pc \notin {"Preflight", "ReplaceSink"}

(***************************************************************************)
(* A start is reported Completed only when its session is the Ready one.   *)
(***************************************************************************)
RunningStarts ==
    {stack[i].op : i \in {j \in 1 .. Len(stack) :
        stack[j].proc = "Process" /\ stack[j].pc # "Next"}}

CompletedMeansReady ==
    [][\A id \in RunningStarts :
        QueryOutcome(policy, id) = "InProgress" /\ QueryOutcome(policy', id) = "Completed"
            => ready' /\ session' = "Ready" /\ vm' # 0]_vars

(***************************************************************************)
(* A deferred save that completes has saved the session it was requested   *)
(* in.                                                                     *)
(***************************************************************************)
SaveIsOfItsSession ==
    [][\A i \in 1 .. Len(pendingSaves) :
        LET save == pendingSaves[i]
        IN  QueryOutcome(policy, save.id) = "InProgress"
                /\ QueryOutcome(policy', save.id) = "Completed"
            => save.gen = vm]_vars

(***************************************************************************)
(* Every operation gets an outcome.                                        *)
(***************************************************************************)
OperationsResolve ==
    \A id \in Ids :
        QueryOutcome(policy, id) = "InProgress"
            ~> QueryOutcome(policy, id) # "InProgress"
=============================================================================
