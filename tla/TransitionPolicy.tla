-------------------------- MODULE TransitionPolicy --------------------------
(***************************************************************************)
(* FGV2SessionTransitionPolicy of GV2SessionTransition.{h,cpp}: the single *)
(* pending slot, the active operation, and the bounded table of outcomes.  *)
(* The policy is a value, a record, and each method is an operator on it,  *)
(* so that SessionCoordinator calls the same definitions the               *)
(* specification at the end of this module exercises on its own.           *)
(***************************************************************************)
EXTENDS Integers, FiniteSets, LifecycleOracle

CONSTANTS
    Descriptors,          \* start descriptors up to IsEquivalentTo: records
                          \* [mode, key]
    MaxOps,               \* bound on the operation ids allocated
    MaxRetainedOutcomes   \* the table's capacity (18 in production)

ASSUME PolicyAssumption ==
    /\ MaxOps \in Nat
    /\ MaxRetainedOutcomes \in Nat \ {0}
    /\ \A d \in Descriptors : d.mode \in StartKinds

Ids == 1 .. MaxOps
Outcomes == {"Completed", "Failed", "Cancelled", "Superseded"}
NoOutcome == "none"

\* A default-constructed descriptor: what a Shutdown operation carries.
DefaultDescriptor == [mode |-> "NewGame", key |-> "default"]

Operation(id, descriptor, kind) ==
    [id |-> id, descriptor |-> descriptor, kind |-> kind,
     cancelRequested |-> FALSE, committed |-> FALSE]

\* An unset TOptional is the default-constructed record, with id 0.
NoOp == Operation(0, DefaultDescriptor, "NewGame")

InitialPolicy ==
    [next |-> 1, active |-> NoOp, pending |-> NoOp, inProgress |-> {},
     outcomes |-> [id \in Ids |-> NoOutcome], highestEvicted |-> 0]

-----------------------------------------------------------------------------

RetainedIds(p) == {id \in Ids : p.outcomes[id] # NoOutcome}

Known(p, id) == id > 0 /\ id < p.next

QueryOutcome(p, id) ==
    IF ~Known(p, id) THEN "Unknown"
    ELSE IF p.outcomes[id] # NoOutcome THEN p.outcomes[id]
    ELSE IF id \in p.inProgress THEN "InProgress"
    ELSE "Evicted"

EarliestRetained(p) ==
    CHOOSE id \in RetainedIds(p) : \A other \in RetainedIds(p) : id <= other

\* The room a new outcome needs: the smallest retained id is dropped.
EvictEarliest(p) ==
    LET earliest == EarliestRetained(p)
    IN  [p EXCEPT !.outcomes[earliest] = NoOutcome,
                  !.highestEvicted = IF @ < earliest THEN earliest ELSE @]

\* Mutant: the capacity is compared with > instead of >=.
RecordOverCapacity(p, id, outcome) ==
    LET full == /\ id \notin RetainedIds(p)
                /\ Cardinality(RetainedIds(p)) > MaxRetainedOutcomes
        room == IF full THEN EvictEarliest(p) ELSE p
    IN  [room EXCEPT !.inProgress = @ \ {id}, !.outcomes[id] = outcome]

RecordResultInternal(p, id, outcome) ==
    LET full == /\ id \notin RetainedIds(p)
                /\ Cardinality(RetainedIds(p)) >= MaxRetainedOutcomes
        room == IF full THEN EvictEarliest(p) ELSE p
    IN  [room EXCEPT !.inProgress = @ \ {id}, !.outcomes[id] = outcome]

\* RecordOutcome, RecordFailure and RecordRuntimeFailure differ only in the
\* payload; all three clear the active operation when it is the one recorded.
Record(p, id, outcome) ==
    [RecordResultInternal(p, id, outcome)
        EXCEPT !.active = IF @.id = id THEN NoOp ELSE @]

CanAllocate(p) == p.next <= MaxOps

AllocateOperationId(p) ==
    [p EXCEPT !.next = @ + 1, !.inProgress = @ \cup {p.next}]

\* What EnqueueRequest and EnqueueShutdown do to the slot before they use it.
SupersedePending(p) ==
    IF p.pending = NoOp THEN p
    ELSE Record([p EXCEPT !.pending = NoOp], p.pending.id, "Superseded")

PutPending(p, descriptor, kind) ==
    [AllocateOperationId(p)
        EXCEPT !.pending = Operation(p.next, descriptor, kind)]

IsJoinable(op, descriptor) == op # NoOp /\ op.descriptor = descriptor

JoinsRequest(p, descriptor) ==
    IsJoinable(p.active, descriptor) \/ IsJoinable(p.pending, descriptor)

EnqueueRequest(p, descriptor) ==
    IF JoinsRequest(p, descriptor) THEN p
    ELSE PutPending(SupersedePending(p), descriptor, descriptor.mode)

JoinsShutdown(p) == p.pending # NoOp /\ p.pending.kind = "Shutdown"

EnqueueShutdown(p) ==
    IF JoinsShutdown(p) THEN p
    ELSE LET q == SupersedePending(p)
             flagged == [q EXCEPT !.active.cancelRequested =
                            @ \/ (q.active # NoOp /\ ~q.active.committed)]
         IN  PutPending(flagged, DefaultDescriptor, "Shutdown")

CancelResult(p, id) ==
    IF p.pending # NoOp /\ p.pending.id = id THEN "Accepted"
    ELSE IF p.active # NoOp /\ p.active.id = id
         THEN IF p.active.committed THEN "TooLate" ELSE "Accepted"
         ELSE "Stale"

\* Mutant: a committed operation is not told apart.
CancelCommitted(p, id) ==
    IF p.pending # NoOp /\ p.pending.id = id
    THEN Record([p EXCEPT !.pending = NoOp], id, "Cancelled")
    ELSE IF p.active # NoOp /\ p.active.id = id
         THEN [p EXCEPT !.active.cancelRequested = TRUE]
         ELSE p

\* Mutant: cancelling the pending operation leaves it in the slot.
CancelKeepsSlot(p, id) ==
    IF p.pending # NoOp /\ p.pending.id = id
    THEN Record(p, id, "Cancelled")
    ELSE IF CancelResult(p, id) = "Accepted"
         THEN [p EXCEPT !.active.cancelRequested = TRUE]
         ELSE p

CancelRequest(p, id) ==
    IF p.pending # NoOp /\ p.pending.id = id
    THEN Record([p EXCEPT !.pending = NoOp], id, "Cancelled")
    ELSE IF CancelResult(p, id) = "Accepted"
         THEN [p EXCEPT !.active.cancelRequested = TRUE]
         ELSE p

DequeuePendingOperation(p) ==
    IF p.pending = NoOp THEN p
    ELSE [p EXCEPT !.active = p.pending, !.pending = NoOp]

\* Mutant: the operation is not marked.
CommitNothing(p) == p

\* GetActiveOperation()->bCommitted = true, after BeginReplace.
CommitActive(p) ==
    IF p.active = NoOp THEN p ELSE [p EXCEPT !.active.committed = TRUE]

-----------------------------------------------------------------------------
(***************************************************************************)
(* The policy on its own, driven by any client that uses it as the         *)
(* coordinator does: it records only operations that are in progress and   *)
(* no longer wait in the slot.                                             *)
(***************************************************************************)
VARIABLE policy

PolicyInit == policy = InitialPolicy

Request(d) ==
    /\ JoinsRequest(policy, d) \/ CanAllocate(policy)
    /\ policy' = EnqueueRequest(policy, d)

Shutdown ==
    /\ JoinsShutdown(policy) \/ CanAllocate(policy)
    /\ policy' = EnqueueShutdown(policy)

\* RequestSave takes an id that never enters the slot.
Allocate ==
    /\ CanAllocate(policy)
    /\ policy' = AllocateOperationId(policy)

Cancel(id) == policy' = CancelRequest(policy, id)

Dequeue ==
    /\ policy.pending # NoOp
    /\ policy' = DequeuePendingOperation(policy)

Commit ==
    /\ policy.active # NoOp
    /\ policy' = CommitActive(policy)

Finish(id, outcome) ==
    /\ id \in policy.inProgress
    /\ id # policy.pending.id
    /\ policy' = Record(policy, id, outcome)

PolicyNext ==
    \/ \E d \in Descriptors : Request(d)
    \/ Shutdown
    \/ Allocate
    \/ \E id \in Ids : Cancel(id)
    \/ Dequeue
    \/ Commit
    \/ \E id \in Ids, o \in {"Completed", "Failed", "Cancelled"} : Finish(id, o)

PolicySpec == PolicyInit /\ [][PolicyNext]_policy

-----------------------------------------------------------------------------

Operations ==
    [id : 0 .. MaxOps, descriptor : Descriptors \cup {DefaultDescriptor},
     kind : Kinds, cancelRequested : BOOLEAN, committed : BOOLEAN]

Policies ==
    [next : 1 .. MaxOps + 1, active : Operations, pending : Operations,
     inProgress : SUBSET Ids, outcomes : [Ids -> Outcomes \cup {NoOutcome}],
     highestEvicted : 0 .. MaxOps]

\* The policy is a well-formed value (GV2SessionTransition.h's members).
PolicyTypeOK == policy \in Policies

(***************************************************************************)
(* Every id the policy has issued is in exactly one place: in progress,    *)
(* retained or evicted; the table never outgrows its capacity; the pending *)
(* and the active operation are two different operations, both still in    *)
(* progress, so neither can have an outcome or be forgotten while the      *)
(* coordinator still works on it; and the evicted ids are bounded by       *)
(* HighestEvictedOperationId.                                              *)
(***************************************************************************)
LedgerPartition(p) ==
    /\ p.inProgress \cup RetainedIds(p) \subseteq 1 .. p.next - 1
    /\ p.inProgress \cap RetainedIds(p) = {}
    /\ Cardinality(RetainedIds(p)) <= MaxRetainedOutcomes

SlotsInProgress(p) ==
    /\ p.pending # NoOp => p.pending.id \in p.inProgress
    /\ p.active # NoOp => p.active.id \in p.inProgress
    /\ p.pending.id = p.active.id => p.pending = NoOp /\ p.active = NoOp

EvictedBounded(p) ==
    \A id \in 1 .. p.next - 1 :
        QueryOutcome(p, id) = "Evicted" => id <= p.highestEvicted

Consistent(p) ==
    /\ LedgerPartition(p)
    /\ SlotsInProgress(p)
    /\ EvictedBounded(p)

PolicyConsistent == Consistent(policy)

(***************************************************************************)
(* A cancellation is never requested of an operation that has committed:   *)
(* a start past commit-to-replace answers TooLate, and a shutdown lets it  *)
(* finish (CancelRequest, EnqueueShutdown).                                *)
(***************************************************************************)
CommittedNotCancelled ==
    [][policy.active.committed /\ policy'.active.id = policy.active.id
            => policy'.active.cancelRequested = policy.active.cancelRequested]_policy

(***************************************************************************)
(* The policy implements the ledger: what QueryOutcome answers about an id *)
(* only ever moves forward.                                                *)
(***************************************************************************)
Ledger == INSTANCE OperationLedger
    WITH MaxRetained <- MaxRetainedOutcomes,
         status <- [id \in Ids |-> QueryOutcome(policy, id)]

LedgerRefined == Ledger!LedgerSpec
=============================================================================
