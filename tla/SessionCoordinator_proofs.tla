---------------------- MODULE SessionCoordinator_proofs ----------------------
(***************************************************************************)
(* TransitionPolicy for every capacity of the outcome table and every      *)
(* number of operations, and SessionCoordinator for any contents,          *)
(* descriptors, faults, bounds and depth of nested calls.  The first part  *)
(* is about the policy's methods as operators on one policy value, which   *)
(* is what the coordinator calls.  The second holds whatever the sinks     *)
(* call back: how requests, saves and cancellations use the policy.  The   *)
(* third is about the session and assumes CallsAreSafe.                    *)
(***************************************************************************)
EXTENDS SessionCoordinator, SequenceTheorems, FiniteSetTheorems, WellFoundedInduction, TLAPS

-----------------------------------------------------------------------------
(* The policy. *)

\* A policy value that is well formed and consistent.
Good(p) == p \in Policies /\ Consistent(p)

(***************************************************************************)
(* The ids are a finite set, and so is the set of retained ones.           *)
(***************************************************************************)
LEMMA RetainedFinite ==
    ASSUME NEW p
    PROVE  /\ IsFiniteSet(RetainedIds(p))
           /\ RetainedIds(p) \subseteq Ids
           /\ Cardinality(RetainedIds(p)) \in Nat
<1>1. IsFiniteSet(Ids)
  BY PolicyAssumption, FS_Interval DEF Ids
<1>2. RetainedIds(p) \subseteq Ids
  BY DEF RetainedIds
<1> QED
  BY <1>1, <1>2, FS_Subset, FS_CardinalityType

(***************************************************************************)
(* Every non-empty set of naturals has a smallest member.                  *)
(***************************************************************************)
LEMMA SmallestMember ==
    ASSUME NEW S, S \subseteq Nat, S # {}
    PROVE  \E n \in S : \A m \in S : n <= m
<1> DEFINE Below == {pair \in Nat \X Nat : pair[1] < pair[2]}
<1>1. IsWellFoundedOn(Below, Nat)
  BY NatLessThanWellFounded DEF OpToRel
<1>2. \A m, n \in Nat : m < n => <<m, n>> \in Below
  OBVIOUS
<1> HIDE DEF Below
<1>3. PICK n \in S : \A m \in S : ~(<<m, n>> \in Below)
  BY <1>1, WFMin
<1>4. ASSUME NEW m \in S PROVE n <= m
  <2>1. n \in Nat /\ m \in Nat
    OBVIOUS
  <2>2. ~(m < n)
    BY <1>2, <1>3, <2>1
  <2> QED
    BY <2>1, <2>2
<1> QED
  BY <1>4

(***************************************************************************)
(* What EvictEarliest drops is a retained id, below every other.           *)
(***************************************************************************)
LEMMA EarliestExists ==
    ASSUME NEW p, RetainedIds(p) # {}
    PROVE  /\ EarliestRetained(p) \in RetainedIds(p)
           /\ \A other \in RetainedIds(p) : EarliestRetained(p) <= other
<1>1. RetainedIds(p) \subseteq Nat
  BY RetainedFinite, PolicyAssumption DEF Ids
<1>2. \E n \in RetainedIds(p) : \A other \in RetainedIds(p) : n <= other
  BY <1>1, SmallestMember
<1> QED
  BY <1>2 DEF EarliestRetained

(***************************************************************************)
(* EvictEarliest frees exactly one place and loses no bookkeeping: the     *)
(* evicted id is covered by HighestEvictedOperationId.                     *)
(***************************************************************************)
LEMMA EvictKeeps ==
    ASSUME NEW p, Good(p), RetainedIds(p) # {}
    PROVE  LET q == EvictEarliest(p)
           IN  /\ Good(q)
               /\ Cardinality(RetainedIds(q)) < Cardinality(RetainedIds(p))
               /\ RetainedIds(q) \subseteq RetainedIds(p)
               /\ q = [p EXCEPT !.outcomes = q.outcomes,
                                !.highestEvicted = q.highestEvicted]
<1> DEFINE e == EarliestRetained(p)
           q == EvictEarliest(p)
<1>1. e \in RetainedIds(p) /\ e \in Ids /\ e \in 1 .. p.next - 1
  BY EarliestExists, RetainedFinite DEF Good, Consistent, LedgerPartition
<1>2. q \in Policies
  <2>1. [p.outcomes EXCEPT ![e] = NoOutcome] \in [Ids -> Outcomes \cup {NoOutcome}]
    BY DEF Good, Policies
  <2>2. (IF p.highestEvicted < e THEN e ELSE p.highestEvicted) \in 0 .. MaxOps
    BY <1>1, PolicyAssumption DEF Good, Policies, Ids
  <2> QED
    BY <2>1, <2>2 DEF Good, EvictEarliest, Policies
<1>3. RetainedIds(q) = RetainedIds(p) \ {e}
  BY <1>1 DEF Good, EvictEarliest, Policies, RetainedIds
<1>4. Cardinality(RetainedIds(q)) = Cardinality(RetainedIds(p)) - 1
  BY <1>1, <1>3, RetainedFinite, FS_RemoveElement
<1>5. LedgerPartition(q)
  BY <1>3, <1>4, RetainedFinite, PolicyAssumption
  DEF Good, Consistent, LedgerPartition, EvictEarliest, Policies
<1>6. SlotsInProgress(q)
  BY DEF Good, Consistent, SlotsInProgress, EvictEarliest, Policies
<1>7. EvictedBounded(q)
  BY <1>1, PolicyAssumption
  DEF Good, Consistent, EvictedBounded, EvictEarliest, Policies,
      QueryOutcome, Known, Ids, Outcomes, NoOutcome
<1>8. Cardinality(RetainedIds(q)) < Cardinality(RetainedIds(p))
  BY <1>4, RetainedFinite
<1> QED
  BY <1>2, <1>3, <1>5, <1>6, <1>7, <1>8
  DEF Good, Consistent, EvictEarliest, Policies

(***************************************************************************)
(* Recording an outcome for an operation that is in progress and has left  *)
(* the slot keeps the policy consistent, whatever the capacity, and makes  *)
(* the outcome queryable at once.                                          *)
(***************************************************************************)
LEMMA RecordKeeps ==
    ASSUME NEW p, Good(p),
           NEW id \in p.inProgress, id # p.pending.id,
           NEW outcome \in Outcomes
    PROVE  LET r == Record(p, id, outcome)
           IN  /\ Good(r)
               /\ r.next = p.next
               /\ r.pending = p.pending
               /\ r.inProgress = p.inProgress \ {id}
               /\ r.outcomes[id] = outcome
               /\ r.active = IF p.active.id = id THEN NoOp ELSE p.active
               /\ \A i \in Ids \ {id} : r.outcomes[i] \in {p.outcomes[i], NoOutcome}
<1> DEFINE full == /\ id \notin RetainedIds(p)
                   /\ Cardinality(RetainedIds(p)) >= MaxRetainedOutcomes
           room == IF full THEN EvictEarliest(p) ELSE p
           r == Record(p, id, outcome)
<1>1. id \in Ids /\ id \notin RetainedIds(p) /\ id \in 1 .. p.next - 1
  BY DEF Good, Consistent, LedgerPartition, Policies
<1>2. room \in Policies /\ Consistent(room)
  <2>1. CASE full
    <3>1. Cardinality(RetainedIds(p)) # 0
      BY <2>1, RetainedFinite, PolicyAssumption
    <3>2. RetainedIds(p) # {}
      BY <3>1, FS_EmptySet
    <3>3. Good(EvictEarliest(p))
      BY <3>2, EvictKeeps
    <3> QED
      BY <2>1, <3>3 DEF Good
  <2>2. CASE ~full
    BY <2>2 DEF Good
  <2> QED
    BY <2>1, <2>2
<1>3. Cardinality(RetainedIds(room)) < MaxRetainedOutcomes
  <2>1. Cardinality(RetainedIds(p)) \in Nat /\ MaxRetainedOutcomes \in Nat \ {0}
    BY RetainedFinite, PolicyAssumption
  <2>2. CASE full
    <3>1. RetainedIds(p) # {}
      BY <2>1, <2>2, FS_EmptySet
    <3>2. Cardinality(RetainedIds(room)) < Cardinality(RetainedIds(p))
      BY <2>2, <3>1, EvictKeeps
    <3>3. Cardinality(RetainedIds(p)) <= MaxRetainedOutcomes
      BY DEF Good, Consistent, LedgerPartition
    <3> QED
      BY <2>1, <3>2, <3>3, RetainedFinite
  <2>3. CASE ~full
    BY <1>1, <2>1, <2>3
  <2> QED
    BY <2>2, <2>3
<1>4. /\ room.next = p.next
      /\ room.active = p.active
      /\ room.pending = p.pending
      /\ room.inProgress = p.inProgress
      /\ \A i \in Ids : room.outcomes[i] \in {p.outcomes[i], NoOutcome}
  <2>1. CASE full
    BY <2>1 DEF EvictEarliest, Good, Policies
  <2>2. CASE ~full
    BY <2>2
  <2> QED
    BY <2>1, <2>2
<1>5. /\ r.next = p.next
      /\ r.pending = p.pending
      /\ r.inProgress = p.inProgress \ {id}
      /\ r.active = IF p.active.id = id THEN NoOp ELSE p.active
      /\ r.highestEvicted = room.highestEvicted
      /\ r.outcomes = [room.outcomes EXCEPT ![id] = outcome]
  BY <1>2, <1>4 DEF Record, RecordResultInternal, Policies
<1>6. NoOp \in Operations
  BY PolicyAssumption
  DEF NoOp, Operation, Operations, DefaultDescriptor, Kinds, StartKinds
<1>7. r \in Policies
  <2>1. r.outcomes \in [Ids -> Outcomes \cup {NoOutcome}]
    BY <1>2, <1>5 DEF Policies
  <2>2. r.active \in Operations
    BY <1>5, <1>6 DEF Good, Policies
  <2> QED
    BY <1>2, <2>1, <2>2 DEF Record, RecordResultInternal, Policies
<1>8. RetainedIds(r) = RetainedIds(room) \cup {id}
  BY <1>1, <1>2, <1>5 DEF RetainedIds, Policies, Outcomes, NoOutcome
<1>9. RetainedIds(room) \subseteq RetainedIds(p)
  BY <1>4 DEF RetainedIds
<1> HIDE DEF r, room, full
<1>10. LedgerPartition(r)
  <2>1. IsFiniteSet(RetainedIds(room)) /\ Cardinality(RetainedIds(room)) \in Nat
    BY RetainedFinite
  <2>2. Cardinality(RetainedIds(room) \cup {id})
            = IF id \in RetainedIds(room) THEN Cardinality(RetainedIds(room))
              ELSE Cardinality(RetainedIds(room)) + 1
    BY <2>1, FS_AddElement, Zenon
  <2>3. Cardinality(RetainedIds(r)) <= MaxRetainedOutcomes
    BY <1>3, <1>8, <2>1, <2>2, PolicyAssumption
  <2> QED
    BY <1>1, <1>5, <1>8, <1>9, <2>3 DEF Good, Consistent, LedgerPartition
<1>11. SlotsInProgress(r)
  <2>1. NoOp.id = 0
    BY DEF NoOp, Operation
  <2>2. /\ p.pending # NoOp => p.pending.id \in Ids
        /\ p.active # NoOp => p.active.id \in Ids
    BY DEF Good, Consistent, SlotsInProgress, Policies
  <2>3. r.pending.id = r.active.id => r.pending = NoOp /\ r.active = NoOp
    BY <1>1, <1>5, <2>1, <2>2 DEF Good, Consistent, SlotsInProgress, Ids
  <2> QED
    BY <1>5, <2>3 DEF Good, Consistent, SlotsInProgress
<1>12. EvictedBounded(r)
  <2> SUFFICES ASSUME NEW i \in 1 .. r.next - 1, QueryOutcome(r, i) = "Evicted"
               PROVE  i <= r.highestEvicted
    BY DEF EvictedBounded
  <2>1. i \in Ids
    BY <1>7, PolicyAssumption DEF Policies, Ids
  <2>2. i # id
    BY <1>1, <1>2, <1>5 DEF QueryOutcome, Known, Outcomes, NoOutcome, Policies
  <2>3. QueryOutcome(room, i) = "Evicted"
    BY <1>2, <1>4, <1>5, <2>1, <2>2
    DEF QueryOutcome, Known, Outcomes, NoOutcome, Policies
  <2> QED
    BY <1>2, <1>4, <1>5, <2>3 DEF Consistent, EvictedBounded
<1> QED
  <2>1. r.outcomes[id] = outcome
    BY <1>1, <1>2, <1>5 DEF Policies
  <2>2. \A i \in Ids \ {id} : r.outcomes[i] \in {p.outcomes[i], NoOutcome}
    BY <1>2, <1>4, <1>5 DEF Policies
  <2> QED
    BY <1>5, <1>7, <1>10, <1>11, <1>12, <2>1, <2>2 DEF Good, Consistent, r

(***************************************************************************)
(* What a call may do to the answers of QueryOutcome: move each id forward *)
(* or leave it.                                                            *)
(***************************************************************************)
Forward(p, q) ==
    \A id \in Ids :
        Ledger!MayBecome(QueryOutcome(p, id), QueryOutcome(q, id))

LEMMA ForwardTransitive ==
    ASSUME NEW p, NEW q, NEW r, Good(p), Good(q), Good(r),
           Forward(p, q), Forward(q, r)
    PROVE  Forward(p, r)
<1>1. \A x, id : Good(x) /\ id \in Ids => QueryOutcome(x, id) \in Ledger!Statuses
  BY DEF Good, Policies, QueryOutcome, Ledger!Statuses, Ledger!Outcomes,
         Outcomes, NoOutcome
<1>2. \A a, b, c \in Ledger!Statuses :
        Ledger!MayBecome(a, b) /\ Ledger!MayBecome(b, c) => Ledger!MayBecome(a, c)
  BY DEF Ledger!MayBecome, Ledger!Stage, Ledger!Statuses, Ledger!Outcomes
<1> QED
  BY <1>1, <1>2 DEF Forward

(***************************************************************************)
(* Recording moves the recorded id from InProgress to its outcome, and at  *)
(* most one other id from its outcome to Evicted.                          *)
(***************************************************************************)
LEMMA RecordForward ==
    ASSUME NEW p, Good(p),
           NEW id \in p.inProgress, id # p.pending.id,
           NEW outcome \in Outcomes
    PROVE  Forward(p, Record(p, id, outcome))
<1> DEFINE r == Record(p, id, outcome)
<1>1. /\ Good(r)
      /\ r.next = p.next
      /\ r.inProgress = p.inProgress \ {id}
      /\ r.outcomes[id] = outcome
      /\ \A i \in Ids \ {id} : r.outcomes[i] \in {p.outcomes[i], NoOutcome}
  BY RecordKeeps
<1>2. /\ p.inProgress \cup RetainedIds(p) \subseteq 1 .. p.next - 1
      /\ p.inProgress \cap RetainedIds(p) = {}
      /\ p \in Policies
  BY DEF Good, Consistent, LedgerPartition
<1> HIDE DEF r
<1> SUFFICES ASSUME NEW i \in Ids
             PROVE  Ledger!MayBecome(QueryOutcome(p, i), QueryOutcome(r, i))
  BY DEF Forward, r
<1>3. CASE i = id
  <2>1. QueryOutcome(p, i) = "InProgress" /\ QueryOutcome(r, i) = outcome
    BY <1>1, <1>2, <1>3
    DEF QueryOutcome, Known, RetainedIds, Outcomes, NoOutcome, Policies
  <2> QED
    BY <2>1 DEF Ledger!MayBecome, Ledger!Stage, Ledger!Outcomes, Outcomes
<1>4. CASE i # id
  <2>1. CASE r.outcomes[i] = p.outcomes[i]
    <3>1. QueryOutcome(p, i) = QueryOutcome(r, i)
      BY <1>1, <1>4, <2>1 DEF QueryOutcome, Known
    <3> QED
      BY <3>1 DEF Ledger!MayBecome
  <2>2. CASE r.outcomes[i] # p.outcomes[i]
    <3>1. /\ r.outcomes[i] = NoOutcome
          /\ i \in RetainedIds(p)
          /\ p.outcomes[i] \in Outcomes
      BY <1>1, <1>2, <1>4, <2>2 DEF RetainedIds, Policies
    <3>2. QueryOutcome(p, i) \in Outcomes /\ QueryOutcome(r, i) = "Evicted"
      BY <1>1, <1>2, <3>1 DEF QueryOutcome, Known, NoOutcome, RetainedIds, Policies
    <3> QED
      BY <3>2 DEF Ledger!MayBecome, Ledger!Stage, Ledger!Outcomes, Outcomes
  <2> QED
    BY <2>1, <2>2
<1> QED
  BY <1>3, <1>4

(***************************************************************************)
(* Allocating an id moves that id, and no other, from Unknown to           *)
(* InProgress.                                                             *)
(***************************************************************************)
LEMMA AllocateKeeps ==
    ASSUME NEW p, Good(p), CanAllocate(p)
    PROVE  Good(AllocateOperationId(p)) /\ Forward(p, AllocateOperationId(p))
<1> DEFINE q == AllocateOperationId(p)
<1>1. /\ p.next \in Ids
      /\ p.next \notin p.inProgress \cup RetainedIds(p)
  BY PolicyAssumption
  DEF Good, Consistent, LedgerPartition, CanAllocate, Policies, Ids
<1>2. q \in Policies
  <2>1. p.next + 1 \in 1 .. MaxOps + 1
    BY <1>1, PolicyAssumption DEF Ids
  <2>2. p.inProgress \cup {p.next} \in SUBSET Ids
    BY <1>1 DEF Good, Policies
  <2> QED
    BY <2>1, <2>2 DEF Good, AllocateOperationId, Policies
<1>3. /\ q.next = p.next + 1
      /\ q.inProgress = p.inProgress \cup {p.next}
      /\ q.outcomes = p.outcomes
      /\ q.active = p.active
      /\ q.pending = p.pending
      /\ q.highestEvicted = p.highestEvicted
  BY DEF Good, AllocateOperationId, Policies
<1>4. RetainedIds(q) = RetainedIds(p)
  BY <1>3 DEF RetainedIds
<1> HIDE DEF q
<1>5. LedgerPartition(q)
  BY <1>1, <1>3, <1>4 DEF Good, Consistent, LedgerPartition, Policies
<1>6. SlotsInProgress(q)
  BY <1>3 DEF Good, Consistent, SlotsInProgress
<1>7. \A i \in Ids \ {p.next} : QueryOutcome(q, i) = QueryOutcome(p, i)
  BY <1>3 DEF QueryOutcome, Known, Ids, Good, Policies
<1>8. QueryOutcome(p, p.next) = "Unknown" /\ QueryOutcome(q, p.next) = "InProgress"
  BY <1>1, <1>3 DEF QueryOutcome, Known, RetainedIds, Good, Policies
<1>9. EvictedBounded(q)
  <2> SUFFICES ASSUME NEW i \in 1 .. q.next - 1, QueryOutcome(q, i) = "Evicted"
               PROVE  i <= q.highestEvicted
    BY DEF EvictedBounded
  <2>1. i # p.next
    BY <1>8
  <2>2. i \in 1 .. p.next - 1 /\ i \in Ids
    BY <1>1, <1>3, <2>1, PolicyAssumption DEF Ids
  <2> QED
    BY <1>3, <1>7, <2>1, <2>2 DEF Good, Consistent, EvictedBounded
<1>10. Forward(p, q)
  BY <1>7, <1>8 DEF Forward, Ledger!MayBecome, Ledger!Stage, Ledger!Outcomes
<1> QED
  BY <1>2, <1>5, <1>6, <1>9, <1>10 DEF Good, Consistent, q

(***************************************************************************)
(* Changing only the slot and the active operation, to operations that are *)
(* in progress, changes no answer and breaks nothing.                      *)
(***************************************************************************)
LEMMA SlotsKeep ==
    ASSUME NEW p, Good(p), NEW a \in Operations, NEW w \in Operations,
           a = NoOp \/ a.id \in p.inProgress,
           w = NoOp \/ w.id \in p.inProgress,
           a.id = w.id => a = NoOp /\ w = NoOp
    PROVE  LET q == [p EXCEPT !.active = a, !.pending = w]
           IN  Good(q) /\ Forward(p, q)
<1> DEFINE q == [p EXCEPT !.active = a, !.pending = w]
<1>1. /\ q \in Policies
      /\ q.next = p.next
      /\ q.inProgress = p.inProgress
      /\ q.outcomes = p.outcomes
      /\ q.active = a
      /\ q.pending = w
      /\ q.highestEvicted = p.highestEvicted
  BY DEF Good, Policies
<1>2. RetainedIds(q) = RetainedIds(p)
  BY <1>1 DEF RetainedIds
<1> HIDE DEF q
<1>3. \A i : QueryOutcome(q, i) = QueryOutcome(p, i)
  BY <1>1 DEF QueryOutcome, Known
<1>4. LedgerPartition(q)
  BY <1>1, <1>2 DEF Good, Consistent, LedgerPartition
<1>5. SlotsInProgress(q)
  BY <1>1 DEF SlotsInProgress
<1>6. EvictedBounded(q)
  BY <1>1, <1>3 DEF Good, Consistent, EvictedBounded
<1>7. Forward(p, q)
  BY <1>3 DEF Forward, Ledger!MayBecome
<1> QED
  BY <1>1, <1>4, <1>5, <1>6, <1>7 DEF Good, Consistent, q

(***************************************************************************)
(* Facts about NoOp and the operations in the slots, used by every lemma   *)
(* below.                                                                  *)
(***************************************************************************)
LEMMA SlotFacts ==
    ASSUME NEW p, Good(p)
    PROVE  /\ NoOp \in Operations /\ NoOp.id = 0
           /\ p.active \in Operations /\ p.pending \in Operations
           /\ p.inProgress \subseteq Ids
           /\ p.pending # NoOp => p.pending.id \in p.inProgress
           /\ p.active # NoOp => p.active.id \in p.inProgress
           /\ p.pending.id = p.active.id => p.pending = NoOp /\ p.active = NoOp
           /\ p.pending.id = 0 => p.pending = NoOp
           /\ p.active.id = 0 => p.active = NoOp
<1>1. NoOp \in Operations /\ NoOp.id = 0
  BY PolicyAssumption
  DEF NoOp, Operation, Operations, DefaultDescriptor, Kinds, StartKinds
<1> QED
  BY <1>1 DEF Good, Consistent, SlotsInProgress, Policies, Ids

(***************************************************************************)
(* Taking the pending operation out of the slot and giving it an outcome:  *)
(* superseding it, or cancelling it.                                       *)
(***************************************************************************)
LEMMA DropPendingKeeps ==
    ASSUME NEW p, Good(p), p.pending # NoOp, NEW outcome \in Outcomes
    PROVE  LET q == Record([p EXCEPT !.pending = NoOp], p.pending.id, outcome)
           IN  /\ Good(q) /\ Forward(p, q)
               /\ q.pending = NoOp /\ q.active = p.active /\ q.next = p.next
               /\ q.inProgress = p.inProgress \ {p.pending.id}
<1> DEFINE s == [p EXCEPT !.pending = NoOp]
           q == Record(s, p.pending.id, outcome)
<1>1. s = [p EXCEPT !.active = p.active, !.pending = NoOp]
  BY DEF Good, Policies
<1>2. Good(s) /\ Forward(p, s)
  BY <1>1, SlotsKeep, SlotFacts
<1>3. /\ s.pending = NoOp /\ s.active = p.active /\ s.next = p.next
      /\ s.inProgress = p.inProgress
  BY DEF Good, Policies
<1> HIDE DEF s
<1>4. p.pending.id \in s.inProgress /\ p.pending.id # s.pending.id
  BY <1>3, SlotFacts DEF Ids
<1>5. /\ Good(q) /\ Forward(s, q)
      /\ q.pending = NoOp /\ q.next = p.next
      /\ q.inProgress = p.inProgress \ {p.pending.id}
      /\ q.active = IF s.active.id = p.pending.id THEN NoOp ELSE s.active
  BY <1>2, <1>3, <1>4, RecordKeeps, RecordForward
<1>6. q.active = p.active
  BY <1>3, <1>5, SlotFacts
<1>7. Forward(p, q)
  BY <1>2, <1>5, ForwardTransitive
<1> QED
  BY <1>5, <1>6, <1>7 DEF s

(***************************************************************************)
(* The methods of the policy, each from any good policy.                   *)
(***************************************************************************)
LEMMA PutPendingKeeps ==
    ASSUME NEW p, Good(p), CanAllocate(p), p.pending = NoOp,
           NEW d \in Descriptors \cup {DefaultDescriptor}, NEW kind \in Kinds
    PROVE  Good(PutPending(p, d, kind)) /\ Forward(p, PutPending(p, d, kind))
<1> DEFINE s == AllocateOperationId(p)
           w == Operation(p.next, d, kind)
<1>1. Good(s) /\ Forward(p, s)
  BY AllocateKeeps
<1>2. /\ s.active = p.active
      /\ s.inProgress = p.inProgress \cup {p.next}
      /\ p.next \in Ids \ p.inProgress
  BY PolicyAssumption
  DEF Good, AllocateOperationId, Policies, Consistent, LedgerPartition,
      CanAllocate, Ids
<1>3. w \in Operations /\ w.id = p.next
  BY <1>2, PolicyAssumption DEF Operation, Operations, Ids
<1>4. PutPending(p, d, kind) = [s EXCEPT !.active = s.active, !.pending = w]
  BY <1>1 DEF PutPending, Good, Policies
<1> HIDE DEF s, w
<1>5. s.active \in Operations /\ (s.active = NoOp \/ s.active.id \in p.inProgress)
  BY <1>2, SlotFacts
<1>6. s.active.id # w.id
  <2>1. p.next # 0 /\ p.next \notin p.inProgress
    BY <1>2, PolicyAssumption DEF Ids
  <2> QED
    BY <1>2, <1>3, <2>1, SlotFacts
<1>7. /\ s.active = NoOp \/ s.active.id \in s.inProgress
      /\ w.id \in s.inProgress
  BY <1>2, <1>3, <1>5
<1>8. LET q == [s EXCEPT !.active = s.active, !.pending = w]
      IN  Good(q) /\ Forward(s, q)
  BY <1>1, <1>3, <1>5, <1>6, <1>7, SlotsKeep
<1>9. Good(PutPending(p, d, kind)) /\ Forward(s, PutPending(p, d, kind))
  BY <1>4, <1>8
<1> QED
  BY <1>1, <1>9, ForwardTransitive

LEMMA SupersedeKeeps ==
    ASSUME NEW p, Good(p)
    PROVE  LET q == SupersedePending(p)
           IN  /\ Good(q) /\ Forward(p, q)
               /\ q.pending = NoOp /\ q.active = p.active /\ q.next = p.next
<1>1. CASE p.pending = NoOp
  BY <1>1 DEF SupersedePending, Forward, Ledger!MayBecome
<1>2. CASE p.pending # NoOp
  BY <1>2, DropPendingKeeps DEF SupersedePending, Outcomes
<1> QED
  BY <1>1, <1>2

LEMMA EnqueueRequestKeeps ==
    ASSUME NEW p, Good(p), NEW d \in Descriptors,
           JoinsRequest(p, d) \/ CanAllocate(p)
    PROVE  Good(EnqueueRequest(p, d)) /\ Forward(p, EnqueueRequest(p, d))
<1>1. CASE JoinsRequest(p, d)
  BY <1>1 DEF EnqueueRequest, Forward, Ledger!MayBecome
<1>2. CASE ~JoinsRequest(p, d)
  <2> DEFINE q == SupersedePending(p)
  <2>1. /\ Good(q) /\ Forward(p, q) /\ q.pending = NoOp
        /\ CanAllocate(q)
    BY <1>2, SupersedeKeeps DEF CanAllocate
  <2>2. d.mode \in Kinds
    BY PolicyAssumption DEF Kinds
  <2> HIDE DEF q
  <2>3. Good(PutPending(q, d, d.mode)) /\ Forward(q, PutPending(q, d, d.mode))
    BY <2>1, <2>2, PutPendingKeeps
  <2> QED
    BY <1>2, <2>1, <2>3, ForwardTransitive DEF EnqueueRequest, q
<1> QED
  BY <1>1, <1>2

LEMMA EnqueueShutdownKeeps ==
    ASSUME NEW p, Good(p), JoinsShutdown(p) \/ CanAllocate(p)
    PROVE  Good(EnqueueShutdown(p)) /\ Forward(p, EnqueueShutdown(p))
<1>1. CASE JoinsShutdown(p)
  BY <1>1 DEF EnqueueShutdown, Forward, Ledger!MayBecome
<1>2. CASE ~JoinsShutdown(p)
  <2> DEFINE q == SupersedePending(p)
             a == [q.active EXCEPT !.cancelRequested =
                     @ \/ (q.active # NoOp /\ ~q.active.committed)]
             f == [q EXCEPT !.active = a, !.pending = NoOp]
  <2>1. /\ Good(q) /\ Forward(p, q) /\ q.pending = NoOp
        /\ CanAllocate(q)
    BY <1>2, SupersedeKeeps DEF CanAllocate
  <2> HIDE DEF q
  <2>2. a \in Operations /\ a.id = q.active.id /\ (q.active = NoOp => a = NoOp)
    BY <2>1, SlotFacts DEF Operations, NoOp, Operation
  <2>3. f = [q EXCEPT !.active.cancelRequested =
               @ \/ (q.active # NoOp /\ ~q.active.committed)]
    BY <2>1 DEF Good, Policies
  <2> HIDE DEF a
  <2>4. Good(f) /\ Forward(q, f)
    BY <2>1, <2>2, SlotFacts, SlotsKeep
  <2>5. f.pending = NoOp /\ CanAllocate(f)
    BY <2>1 DEF CanAllocate, Good, Policies
  <2>6. EnqueueShutdown(p) = PutPending(f, DefaultDescriptor, "Shutdown")
    BY <1>2, <2>3 DEF EnqueueShutdown, q
  <2> HIDE DEF f
  <2>7. /\ Good(PutPending(f, DefaultDescriptor, "Shutdown"))
        /\ Forward(f, PutPending(f, DefaultDescriptor, "Shutdown"))
    BY <2>4, <2>5, PutPendingKeeps DEF Kinds
  <2>8. Forward(p, f)
    BY <2>1, <2>4, ForwardTransitive
  <2> QED
    BY <2>4, <2>6, <2>7, <2>8, ForwardTransitive
<1> QED
  BY <1>1, <1>2

LEMMA CancelKeeps ==
    ASSUME NEW p, Good(p), NEW id \in Ids
    PROVE  Good(CancelRequest(p, id)) /\ Forward(p, CancelRequest(p, id))
<1>1. CASE p.pending # NoOp /\ p.pending.id = id
  BY <1>1, DropPendingKeeps DEF CancelRequest, Outcomes
<1>2. CASE /\ ~(p.pending # NoOp /\ p.pending.id = id)
           /\ CancelResult(p, id) = "Accepted"
  <2> DEFINE a == [p.active EXCEPT !.cancelRequested = TRUE]
  <2>1. p.active # NoOp
    BY <1>2 DEF CancelResult
  <2>2. a \in Operations /\ a.id = p.active.id
    BY SlotFacts DEF Operations
  <2>3. CancelRequest(p, id) = [p EXCEPT !.active = a, !.pending = p.pending]
    BY <1>2 DEF CancelRequest, Good, Policies
  <2> HIDE DEF a
  <2>4. a.id \in p.inProgress /\ a.id # p.pending.id
    BY <2>1, <2>2, SlotFacts
  <2>5. LET q == [p EXCEPT !.active = a, !.pending = p.pending]
        IN  Good(q) /\ Forward(p, q)
    BY <2>2, <2>4, SlotFacts, SlotsKeep
  <2> QED
    BY <2>3, <2>5
<1>3. CASE /\ ~(p.pending # NoOp /\ p.pending.id = id)
           /\ CancelResult(p, id) # "Accepted"
  BY <1>3 DEF CancelRequest, Forward, Ledger!MayBecome
<1> QED
  BY <1>1, <1>2, <1>3

LEMMA DequeueKeeps ==
    ASSUME NEW p, Good(p)
    PROVE  /\ Good(DequeuePendingOperation(p))
           /\ Forward(p, DequeuePendingOperation(p))
<1>1. CASE p.pending = NoOp
  BY <1>1 DEF DequeuePendingOperation, Forward, Ledger!MayBecome
<1>2. CASE p.pending # NoOp
  <2>1. DequeuePendingOperation(p) = [p EXCEPT !.active = p.pending, !.pending = NoOp]
    BY <1>2 DEF DequeuePendingOperation
  <2>2. p.pending.id \in p.inProgress /\ p.pending.id # NoOp.id
    BY <1>2, SlotFacts
  <2>3. LET q == [p EXCEPT !.active = p.pending, !.pending = NoOp]
        IN  Good(q) /\ Forward(p, q)
    BY <2>2, SlotFacts, SlotsKeep
  <2> QED
    BY <2>1, <2>3
<1> QED
  BY <1>1, <1>2

LEMMA CommitKeeps ==
    ASSUME NEW p, Good(p)
    PROVE  Good(CommitActive(p)) /\ Forward(p, CommitActive(p))
<1>1. CASE p.active = NoOp
  BY <1>1 DEF CommitActive, Forward, Ledger!MayBecome
<1>2. CASE p.active # NoOp
  <2> DEFINE a == [p.active EXCEPT !.committed = TRUE]
  <2>1. a \in Operations /\ a.id = p.active.id
    BY SlotFacts DEF Operations
  <2>2. CommitActive(p) = [p EXCEPT !.active = a, !.pending = p.pending]
    BY <1>2 DEF CommitActive, Good, Policies
  <2> HIDE DEF a
  <2>3. a.id \in p.inProgress /\ a.id # p.pending.id
    BY <1>2, <2>1, SlotFacts
  <2>4. LET q == [p EXCEPT !.active = a, !.pending = p.pending]
        IN  Good(q) /\ Forward(p, q)
    BY <2>1, <2>3, SlotFacts, SlotsKeep
  <2> QED
    BY <2>2, <2>4
<1> QED
  BY <1>1, <1>2

-----------------------------------------------------------------------------

LEMMA InitialGood == Good(InitialPolicy)
<1> DEFINE p == InitialPolicy
<1>1. NoOp \in Operations /\ NoOp.id = 0
  BY PolicyAssumption
  DEF NoOp, Operation, Operations, DefaultDescriptor, Kinds, StartKinds
<1>2. p \in Policies
  BY <1>1, PolicyAssumption DEF InitialPolicy, Policies
<1>3. RetainedIds(p) = {}
  BY DEF InitialPolicy, RetainedIds
<1>4. Cardinality(RetainedIds(p)) = 0
  BY <1>3, FS_EmptySet
<1>5. LedgerPartition(p)
  BY <1>3, <1>4, PolicyAssumption DEF LedgerPartition, InitialPolicy
<1>6. SlotsInProgress(p)
  BY <1>1 DEF SlotsInProgress, InitialPolicy
<1>7. EvictedBounded(p)
  BY DEF EvictedBounded, InitialPolicy
<1> QED
  BY <1>2, <1>5, <1>6, <1>7 DEF Good, Consistent

(***************************************************************************)
(* Every step of the policy keeps it consistent and moves each id forward. *)
(***************************************************************************)
LEMMA StepKeeps ==
    ASSUME Good(policy), [PolicyNext]_policy
    PROVE  Good(policy') /\ Forward(policy, policy')
<1>1. ASSUME NEW d \in Descriptors, Request(d)
      PROVE  Good(policy') /\ Forward(policy, policy')
  BY <1>1, EnqueueRequestKeeps DEF Request
<1>2. CASE Shutdown
  BY <1>2, EnqueueShutdownKeeps DEF Shutdown
<1>3. CASE Allocate
  BY <1>3, AllocateKeeps DEF Allocate
<1>4. ASSUME NEW id \in Ids, Cancel(id)
      PROVE  Good(policy') /\ Forward(policy, policy')
  BY <1>4, CancelKeeps DEF Cancel
<1>5. CASE Dequeue
  BY <1>5, DequeueKeeps DEF Dequeue
<1>6. CASE Commit
  BY <1>6, CommitKeeps DEF Commit
<1>7. ASSUME NEW id \in Ids, NEW o \in {"Completed", "Failed", "Cancelled"},
             Finish(id, o)
      PROVE  Good(policy') /\ Forward(policy, policy')
  BY <1>7, RecordKeeps, RecordForward DEF Finish, Outcomes
<1>8. CASE UNCHANGED policy
  BY <1>8 DEF Forward, Ledger!MayBecome
<1> QED
  BY <1>1, <1>2, <1>3, <1>4, <1>5, <1>6, <1>7, <1>8 DEF PolicyNext

(***************************************************************************)
(* For every capacity and every number of operations the policy is well    *)
(* formed, and its ledger is consistent.                                   *)
(***************************************************************************)
THEOREM PolicyTypeCorrect == PolicySpec => []PolicyTypeOK
<1>1. PolicyInit => Good(policy)
  BY InitialGood DEF PolicyInit
<1>2. Good(policy) /\ [PolicyNext]_policy => Good(policy)'
  BY StepKeeps
<1>3. Good(policy) => PolicyTypeOK
  BY DEF Good, PolicyTypeOK
<1> QED
  BY <1>1, <1>2, <1>3, PTL DEF PolicySpec

THEOREM PolicyAlwaysConsistent == PolicySpec => []PolicyConsistent
<1>1. PolicyInit => Good(policy)
  BY InitialGood DEF PolicyInit
<1>2. Good(policy) /\ [PolicyNext]_policy => Good(policy)'
  BY StepKeeps
<1>3. Good(policy) => PolicyConsistent
  BY DEF Good, PolicyConsistent
<1> QED
  BY <1>1, <1>2, <1>3, PTL DEF PolicySpec

(***************************************************************************)
(* A good policy answers queries as a ledger does: in its statuses, ids    *)
(* issued in order, and no more outcomes than the table holds.             *)
(***************************************************************************)
LEMMA GoodLedger ==
    ASSUME NEW p, Good(p)
    PROVE  LET st == [id \in Ids |-> QueryOutcome(p, id)]
           IN  /\ st \in [Ledger!Ids -> Ledger!Statuses]
               /\ Ledger!IssuedInOrder(st)
               /\ Cardinality(Ledger!Retained(st)) <= MaxRetainedOutcomes
<1> DEFINE st == [id \in Ids |-> QueryOutcome(p, id)]
<1>1. Ledger!Ids = Ids /\ Ledger!Outcomes = Outcomes
  BY DEF Ledger!Ids, Ids, Ledger!Outcomes, Outcomes
<1>2. \A id \in Ids : QueryOutcome(p, id) \in Ledger!Statuses
  BY DEF Good, Policies, QueryOutcome, Ledger!Statuses, Ledger!Outcomes,
         Outcomes, NoOutcome
<1>3. \A i, j \in Ids :
        i < j /\ QueryOutcome(p, j) # "Unknown" => QueryOutcome(p, i) # "Unknown"
  <2>1. \A id \in Ids : QueryOutcome(p, id) = "Unknown" <=> ~Known(p, id)
    BY DEF Good, Policies, QueryOutcome, Outcomes, NoOutcome
  <2>2. \A i, j \in Ids : i < j /\ Known(p, j) => Known(p, i)
    BY PolicyAssumption DEF Good, Policies, Known, Ids
  <2> QED
    BY <2>1, <2>2
<1>4. Ledger!Retained(st) = RetainedIds(p)
  <2>1. ASSUME NEW id \in Ids
        PROVE  QueryOutcome(p, id) \in Outcomes <=> p.outcomes[id] # NoOutcome
    <3>1. p.outcomes[id] \in Outcomes \cup {NoOutcome} /\ NoOutcome \notin Outcomes
      BY DEF Good, Policies, Outcomes, NoOutcome
    <3>2. p.outcomes[id] # NoOutcome => Known(p, id)
      BY DEF Good, Consistent, LedgerPartition, Policies, RetainedIds, Known
    <3>3. "Unknown" \notin Outcomes /\ "InProgress" \notin Outcomes
          /\ "Evicted" \notin Outcomes
      BY DEF Outcomes
    <3> QED
      BY <3>1, <3>2, <3>3 DEF QueryOutcome
  <2> QED
    BY <1>1, <2>1 DEF Ledger!Retained, RetainedIds
<1>5. Cardinality(RetainedIds(p)) <= MaxRetainedOutcomes
  BY DEF Good, Consistent, LedgerPartition
<1> QED
  BY <1>1, <1>2, <1>3, <1>4, <1>5 DEF Ledger!IssuedInOrder

(***************************************************************************)
(* The policy implements the ledger: an id has at most one outcome, ever,  *)
(* and only moves from Unknown through InProgress to it and to Evicted.    *)
(***************************************************************************)
THEOREM PolicyRefinesLedger == PolicySpec => LedgerRefined
<1> DEFINE st == [id \in Ids |-> QueryOutcome(policy, id)]
<1>1. PolicyInit => Good(policy)
  BY InitialGood DEF PolicyInit
<1>2. Good(policy) /\ [PolicyNext]_policy => Good(policy)'
  BY StepKeeps
<1>3. PolicyInit => Ledger!LedgerInit
  BY PolicyAssumption
  DEF PolicyInit, Ledger!LedgerInit, Ledger!Ids, Ids, InitialPolicy,
      QueryOutcome, Known
<1>4. Good(policy) /\ [PolicyNext]_policy => [Ledger!LedgerNext]_st
  <2> SUFFICES ASSUME Good(policy), [PolicyNext]_policy
               PROVE  Ledger!LedgerNext
    OBVIOUS
  <2>1. Good(policy') /\ Forward(policy, policy')
    BY StepKeeps
  <2>2. /\ st' \in [Ledger!Ids -> Ledger!Statuses]
        /\ Ledger!IssuedInOrder(st')
        /\ Cardinality(Ledger!Retained(st')) <= MaxRetainedOutcomes
    BY <2>1, GoodLedger
  <2>3. \A id \in Ledger!Ids : Ledger!MayBecome(st[id], st'[id])
    BY <2>1 DEF Forward, Ledger!Ids, Ids
  <2> QED
    BY <2>2, <2>3
    DEF Ledger!LedgerNext, Ledger!Cardinality, Cardinality,
        Ledger!IsFiniteSet, IsFiniteSet
<1> QED
  BY <1>1, <1>2, <1>3, <1>4, PTL DEF PolicySpec, LedgerRefined, Ledger!LedgerSpec

-----------------------------------------------------------------------------
(* The coordinator. *)

(***************************************************************************)
(* What a method of the policy may do: keep it good, move ids forward, and *)
(* complete no operations but those of a set.                              *)
(***************************************************************************)
CompletesOnly(p, q, ids) ==
    \A id \in Ids :
        p.outcomes[id] # "Completed" /\ q.outcomes[id] = "Completed" => id \in ids

PolicyMove(p, q, ids) == Good(q) /\ Forward(p, q) /\ CompletesOnly(p, q, ids)

LEMMA StayMove ==
    ASSUME NEW p, Good(p)
    PROVE  PolicyMove(p, p, {})
BY DEF PolicyMove, Forward, CompletesOnly, Ledger!MayBecome

LEMMA MoveTransitive ==
    ASSUME NEW p, NEW q, NEW r, NEW S, NEW T, Good(p),
           PolicyMove(p, q, S), PolicyMove(q, r, T)
    PROVE  PolicyMove(p, r, S \cup T)
<1>1. Good(q) /\ Good(r) /\ Forward(p, r)
  BY ForwardTransitive DEF PolicyMove
<1>2. CompletesOnly(p, r, S \cup T)
  BY DEF PolicyMove, CompletesOnly
<1> QED
  BY <1>1, <1>2 DEF PolicyMove

LEMMA RecordMove ==
    ASSUME NEW p, Good(p),
           NEW id \in p.inProgress, id # p.pending.id,
           NEW outcome \in Outcomes,
           NEW S, outcome = "Completed" => id \in S
    PROVE  LET r == Record(p, id, outcome)
           IN  /\ PolicyMove(p, r, S)
               /\ r.pending = p.pending
               /\ r.inProgress = p.inProgress \ {id}
               /\ r.active = IF p.active.id = id THEN NoOp ELSE p.active
<1> DEFINE r == Record(p, id, outcome)
<1>1. /\ Good(r)
      /\ r.pending = p.pending
      /\ r.inProgress = p.inProgress \ {id}
      /\ r.outcomes[id] = outcome
      /\ r.active = IF p.active.id = id THEN NoOp ELSE p.active
      /\ \A i \in Ids \ {id} : r.outcomes[i] \in {p.outcomes[i], NoOutcome}
  BY RecordKeeps
<1>2. Forward(p, r)
  BY RecordForward
<1> HIDE DEF r
<1>3. CompletesOnly(p, r, S)
  BY <1>1 DEF CompletesOnly, NoOutcome
<1> QED
  BY <1>1, <1>2, <1>3 DEF PolicyMove, r

LEMMA AllocateMove ==
    ASSUME NEW p, Good(p), CanAllocate(p)
    PROVE  LET q == AllocateOperationId(p)
           IN  /\ PolicyMove(p, q, {})
               /\ q.pending = p.pending /\ q.active = p.active
               /\ q.inProgress = p.inProgress \cup {p.next}
               /\ p.next \in Ids
               /\ p.next \notin p.inProgress \cup {p.pending.id, p.active.id}
<1> DEFINE q == AllocateOperationId(p)
<1>1. Good(q) /\ Forward(p, q)
  BY AllocateKeeps
<1>2. /\ q.pending = p.pending /\ q.active = p.active
      /\ q.inProgress = p.inProgress \cup {p.next}
      /\ q.outcomes = p.outcomes
  BY DEF AllocateOperationId, Good, Policies
<1>3. p.next \in Ids /\ p.next \notin p.inProgress
  BY PolicyAssumption
  DEF Good, CanAllocate, Policies, Consistent, LedgerPartition, Ids
<1>4. p.next \notin {p.pending.id, p.active.id}
  <2>1. p.next # 0
    BY <1>3 DEF Ids
  <2> QED
    BY <1>3, <2>1, SlotFacts
<1> QED
  BY <1>1, <1>2, <1>3, <1>4 DEF PolicyMove, CompletesOnly

LEMMA DropPendingMove ==
    ASSUME NEW p, Good(p), p.pending # NoOp, NEW outcome \in Outcomes \ {"Completed"}
    PROVE  LET q == Record([p EXCEPT !.pending = NoOp], p.pending.id, outcome)
           IN  /\ PolicyMove(p, q, {})
               /\ q.pending = NoOp /\ q.active = p.active /\ q.next = p.next
               /\ q.inProgress = p.inProgress \ {p.pending.id}
<1> DEFINE s == [p EXCEPT !.pending = NoOp]
           q == Record(s, p.pending.id, outcome)
<1>1. /\ Good(q) /\ Forward(p, q)
      /\ q.pending = NoOp /\ q.active = p.active /\ q.next = p.next
      /\ q.inProgress = p.inProgress \ {p.pending.id}
  BY DropPendingKeeps
<1>2. s = [p EXCEPT !.active = p.active, !.pending = NoOp]
  BY DEF Good, Policies
<1>3. Good(s)
  BY <1>2, SlotFacts, SlotsKeep
<1>4. /\ s.outcomes = p.outcomes
      /\ p.pending.id \in s.inProgress
      /\ p.pending.id # s.pending.id
  BY SlotFacts DEF Good, Policies
<1>5. PolicyMove(s, q, {})
  BY <1>3, <1>4, RecordMove
<1>6. CompletesOnly(p, q, {})
  BY <1>4, <1>5 DEF PolicyMove, CompletesOnly
<1> QED
  BY <1>1, <1>6 DEF PolicyMove

LEMMA SupersedeMove ==
    ASSUME NEW p, Good(p)
    PROVE  LET q == SupersedePending(p)
           IN  /\ PolicyMove(p, q, {})
               /\ q.pending = NoOp /\ q.active = p.active /\ q.next = p.next
               /\ q.inProgress = p.inProgress \ {p.pending.id}
<1>1. CASE p.pending = NoOp
  <2>1. p.pending.id \notin p.inProgress
    BY <1>1, SlotFacts DEF Ids
  <2> QED
    BY <1>1, <2>1, StayMove DEF SupersedePending
<1>2. CASE p.pending # NoOp
  BY <1>2, DropPendingMove DEF SupersedePending, Outcomes
<1> QED
  BY <1>1, <1>2

LEMMA PutPendingMove ==
    ASSUME NEW p, Good(p), CanAllocate(p), p.pending = NoOp,
           NEW d \in Descriptors \cup {DefaultDescriptor}, NEW kind \in Kinds
    PROVE  LET q == PutPending(p, d, kind)
           IN  /\ PolicyMove(p, q, {})
               /\ q.pending = Operation(p.next, d, kind)
               /\ q.active = p.active
               /\ q.inProgress = p.inProgress \cup {p.next}
<1> DEFINE q == PutPending(p, d, kind)
<1>1. Good(q) /\ Forward(p, q)
  BY PutPendingKeeps
<1>2. /\ q.pending = Operation(p.next, d, kind)
      /\ q.active = p.active
      /\ q.inProgress = p.inProgress \cup {p.next}
      /\ q.outcomes = p.outcomes
  BY DEF PutPending, AllocateOperationId, Good, Policies
<1> QED
  BY <1>1, <1>2 DEF PolicyMove, CompletesOnly

LEMMA EnqueueRequestMove ==
    ASSUME NEW p, Good(p), NEW d \in Descriptors, ~JoinsRequest(p, d), CanAllocate(p)
    PROVE  LET q == EnqueueRequest(p, d)
           IN  /\ PolicyMove(p, q, {})
               /\ q.pending = Operation(p.next, d, d.mode)
               /\ q.active = p.active
               /\ q.inProgress = (p.inProgress \ {p.pending.id}) \cup {p.next}
<1> DEFINE s == SupersedePending(p)
<1>1. /\ PolicyMove(p, s, {})
      /\ s.pending = NoOp /\ s.active = p.active /\ s.next = p.next
      /\ s.inProgress = p.inProgress \ {p.pending.id}
  BY SupersedeMove
<1>2. Good(s) /\ CanAllocate(s)
  BY <1>1 DEF PolicyMove, CanAllocate
<1>3. d.mode \in Kinds
  BY PolicyAssumption DEF Kinds
<1>4. EnqueueRequest(p, d) = PutPending(s, d, d.mode)
  BY DEF EnqueueRequest
<1> HIDE DEF s
<1>5. LET q == PutPending(s, d, d.mode)
      IN  /\ PolicyMove(s, q, {})
          /\ q.pending = Operation(s.next, d, d.mode)
          /\ q.active = s.active
          /\ q.inProgress = s.inProgress \cup {s.next}
  BY <1>1, <1>2, <1>3, PutPendingMove
<1>6. PolicyMove(p, PutPending(s, d, d.mode), {} \cup {})
  BY <1>1, <1>5, MoveTransitive
<1> QED
  BY <1>1, <1>4, <1>5, <1>6

LEMMA CancelMove ==
    ASSUME NEW p, Good(p), NEW id \in Ids
    PROVE  LET q == CancelRequest(p, id)
           IN  /\ PolicyMove(p, q, {})
               /\ q.pending = IF p.pending.id = id THEN NoOp ELSE p.pending
               /\ q.inProgress = IF p.pending.id = id THEN p.inProgress \ {id}
                                 ELSE p.inProgress
               /\ q.active.id = p.active.id
               /\ q.active.kind = p.active.kind
               /\ q.active.committed = p.active.committed
               /\ (q.active = NoOp) = (p.active = NoOp)
<1> DEFINE q == CancelRequest(p, id)
<1>1. Good(q) /\ Forward(p, q)
  BY CancelKeeps
<1>2. CASE p.pending # NoOp /\ p.pending.id = id
  BY <1>2, DropPendingMove DEF CancelRequest, Outcomes
<1>3. CASE ~(p.pending # NoOp /\ p.pending.id = id) /\ CancelResult(p, id) = "Accepted"
  <2>1. p.pending.id # id
    BY <1>3, SlotFacts DEF Ids
  <2>2. p.active # NoOp /\ p.active.id # NoOp.id
    BY <1>3, SlotFacts DEF CancelResult
  <2>3. q = [p EXCEPT !.active.cancelRequested = TRUE]
    BY <1>3 DEF CancelRequest
  <2>4. p.active \in Operations
    BY SlotFacts
  <2>5. /\ q.pending = p.pending /\ q.inProgress = p.inProgress
        /\ q.outcomes = p.outcomes
        /\ q.active = [p.active EXCEPT !.cancelRequested = TRUE]
    BY <2>3 DEF Good, Policies
  <2>6. /\ q.active.id = p.active.id /\ q.active.kind = p.active.kind
        /\ q.active.committed = p.active.committed
    BY <2>4, <2>5 DEF Operations
  <2> QED
    BY <1>1, <2>1, <2>2, <2>5, <2>6 DEF PolicyMove, CompletesOnly
<1>4. CASE ~(p.pending # NoOp /\ p.pending.id = id) /\ CancelResult(p, id) # "Accepted"
  <2>1. p.pending.id # id
    BY <1>4, SlotFacts DEF Ids
  <2>2. q = p
    BY <1>4 DEF CancelRequest
  <2> QED
    BY <2>1, <2>2, StayMove
<1> QED
  BY <1>2, <1>3, <1>4

LEMMA DequeueMove ==
    ASSUME NEW p, Good(p), p.pending # NoOp
    PROVE  LET q == DequeuePendingOperation(p)
           IN  /\ PolicyMove(p, q, {})
               /\ q.active = p.pending /\ q.pending = NoOp
               /\ q.inProgress = p.inProgress
<1> DEFINE q == DequeuePendingOperation(p)
<1>1. Good(q) /\ Forward(p, q)
  BY DequeueKeeps
<1>2. /\ q.active = p.pending /\ q.pending = NoOp
      /\ q.inProgress = p.inProgress /\ q.outcomes = p.outcomes
  BY DEF DequeuePendingOperation, Good, Policies
<1> QED
  BY <1>1, <1>2 DEF PolicyMove, CompletesOnly

LEMMA CommitMove ==
    ASSUME NEW p, Good(p)
    PROVE  LET q == CommitActive(p)
           IN  /\ PolicyMove(p, q, {})
               /\ q.pending = p.pending /\ q.inProgress = p.inProgress
               /\ q.active.id = p.active.id /\ q.active.kind = p.active.kind
               /\ (q.active = NoOp) = (p.active = NoOp)
               /\ p.active # NoOp => q.active.committed
<1> DEFINE q == CommitActive(p)
<1>1. Good(q) /\ Forward(p, q)
  BY CommitKeeps
<1>2. CASE p.active = NoOp
  BY <1>2, StayMove DEF CommitActive
<1>3. CASE p.active # NoOp
  <2>1. p.active \in Operations /\ p.active.id # NoOp.id
    BY <1>3, SlotFacts
  <2>2. /\ q.pending = p.pending /\ q.inProgress = p.inProgress
        /\ q.outcomes = p.outcomes
        /\ q.active = [p.active EXCEPT !.committed = TRUE]
    BY <1>3 DEF CommitActive, Good, Policies
  <2>3. q.active.id = p.active.id /\ q.active.kind = p.active.kind /\ q.active.committed
    BY <2>1, <2>2 DEF Operations
  <2> QED
    BY <1>1, <1>3, <2>1, <2>2, <2>3 DEF PolicyMove, CompletesOnly
<1> QED
  BY <1>2, <1>3

(***************************************************************************)
(* EndSession's shutdown takes the slot and the active operation over.     *)
(***************************************************************************)
LEMMA ShutdownMove ==
    ASSUME NEW p, Good(p), ~JoinsShutdown(p), CanAllocate(p)
    PROVE  LET q == DequeuePendingOperation(EnqueueShutdown(p))
           IN  /\ PolicyMove(p, q, {})
               /\ q.active = Operation(p.next, DefaultDescriptor, "Shutdown")
               /\ q.pending = NoOp
               /\ q.inProgress = (p.inProgress \ {p.pending.id}) \cup {p.next}
<1> DEFINE s == SupersedePending(p)
           f == [s EXCEPT !.active.cancelRequested =
                    @ \/ (s.active # NoOp /\ ~s.active.committed)]
           w == PutPending(f, DefaultDescriptor, "Shutdown")
<1>1. /\ PolicyMove(p, s, {})
      /\ s.pending = NoOp /\ s.active = p.active /\ s.next = p.next
      /\ s.inProgress = p.inProgress \ {p.pending.id}
  BY SupersedeMove
<1>2. EnqueueShutdown(p) = w
  BY DEF EnqueueShutdown
<1>3. Good(s)
  BY <1>1 DEF PolicyMove
<1>4. Good(w) /\ Forward(p, w)
  BY <1>2, EnqueueShutdownKeeps
<1>5. /\ f.pending = NoOp /\ f.next = s.next
      /\ f.inProgress = s.inProgress /\ f.outcomes = s.outcomes
      /\ DOMAIN f = DOMAIN s
  BY <1>1, <1>3 DEF Good, Policies
<1>6. /\ w.pending = Operation(f.next, DefaultDescriptor, "Shutdown")
      /\ w.inProgress = f.inProgress \cup {f.next}
      /\ w.outcomes = f.outcomes
  <2>1. {"pending", "inProgress", "outcomes", "next"} \subseteq DOMAIN s
    BY <1>3 DEF Good, Policies
  <2> HIDE DEF f, s
  <2> QED
    BY <1>5, <2>1 DEF w, PutPending, AllocateOperationId
<1>7. CompletesOnly(p, w, {})
  BY <1>1, <1>5, <1>6 DEF PolicyMove, CompletesOnly
<1>8. PolicyMove(p, w, {})
  BY <1>4, <1>7 DEF PolicyMove
<1> HIDE DEF w
<1>9. w.pending # NoOp
  BY <1>6 DEF Operation, NoOp
<1>10. LET q == DequeuePendingOperation(w)
       IN  /\ PolicyMove(w, q, {})
           /\ q.active = w.pending /\ q.pending = NoOp
           /\ q.inProgress = w.inProgress
  BY <1>4, <1>9, DequeueMove
<1>11. PolicyMove(p, DequeuePendingOperation(w), {} \cup {})
  BY <1>8, <1>10, MoveTransitive
<1> QED
  BY <1>1, <1>2, <1>5, <1>6, <1>10, <1>11

(***************************************************************************)
(* FailRuntime's loop over the deferred saves.  RecordSaves is a recursive *)
(* function; that there is one, and what each of its values is, follows    *)
(* from the smallest index that has none.                                  *)
(***************************************************************************)
LEMMA RecordSavesUnfold ==
    ASSUME NEW p, NEW saves, Len(saves) \in Nat, NEW outcome
    PROVE  \E after :
              /\ after[0] = p
              /\ \A i \in 1 .. Len(saves) :
                    after[i] = Record(after[i - 1], saves[i].id, outcome)
              /\ RecordSaves(p, saves, outcome) = after[Len(saves)]
<1> DEFINE Step(g, i) == IF i = 0 THEN p ELSE Record(g[i - 1], saves[i].id, outcome)
           Prefix(g, n) == g = [i \in 0 .. n |-> Step(g, i)]
           Bad == {n \in Nat : ~ \E g : Prefix(g, n)}
<1>1. ASSUME NEW n \in Nat, NEW g, Prefix(g, n)
      PROVE  Prefix([i \in 0 .. n + 1 |->
                        IF i = n + 1 THEN Record(g[n], saves[n + 1].id, outcome)
                        ELSE g[i]], n + 1)
  <2> DEFINE h == [i \in 0 .. n + 1 |->
                      IF i = n + 1 THEN Record(g[n], saves[n + 1].id, outcome)
                      ELSE g[i]]
  <2>1. \A i \in 0 .. n : g[i] = Step(g, i)
    BY <1>1
  <2> HIDE DEF Prefix
  <2>2. ASSUME NEW i \in 0 .. n + 1
        PROVE  h[i] = Step(h, i)
    <3>1. CASE i = n + 1
      <4>1. n + 1 # 0 /\ (n + 1) - 1 = n /\ n # n + 1 /\ n \in 0 .. n + 1
        OBVIOUS
      <4>2. h[n] = g[n]
        BY <4>1
      <4>3. h[n + 1] = Record(g[n], saves[n + 1].id, outcome)
        OBVIOUS
      <4> HIDE DEF h
      <4> QED
        BY <3>1, <4>1, <4>2, <4>3
    <3>2. CASE i = 0
      <4>1. 0 # n + 1 /\ 0 \in 0 .. n
        OBVIOUS
      <4> QED
        BY <3>2, <4>1, <2>1
    <3>3. CASE i # n + 1 /\ i # 0
      <4>1. i \in 0 .. n /\ i - 1 \in 0 .. n + 1 /\ i - 1 # n + 1
        BY <3>3
      <4>2. h[i] = g[i] /\ h[i - 1] = g[i - 1]
        BY <3>3, <4>1
      <4> HIDE DEF h
      <4> QED
        BY <3>3, <4>1, <4>2, <2>1
    <3> QED
      BY <3>1, <3>2, <3>3
  <2>3. h = [i \in 0 .. n + 1 |-> h[i]]
    OBVIOUS
  <2> HIDE DEF h, Step
  <2>4. h = [i \in 0 .. n + 1 |-> Step(h, i)]
    BY <2>2, <2>3
  <2> QED
    BY <2>4 DEF Prefix, h
<1>2. Prefix([i \in 0 .. 0 |-> p], 0)
  <2>1. \A i \in 0 .. 0 : i = 0
    OBVIOUS
  <2> QED
    BY <2>1
<1> HIDE DEF Prefix
<1>3. Bad = {}
  <2> SUFFICES ASSUME Bad # {} PROVE FALSE
    OBVIOUS
  <2>1. Bad \subseteq Nat
    OBVIOUS
  <2>2. PICK n \in Bad : \A m \in Bad : n <= m
    BY <2>1, SmallestMember
  <2>3. n \in Nat /\ n # 0
    BY <1>2
  <2>4. n - 1 \in Nat /\ (n - 1) + 1 = n /\ ~(n <= n - 1)
    BY <2>3
  <2>5. n - 1 \notin Bad
    BY <2>2, <2>4
  <2>6. PICK g : Prefix(g, n - 1)
    BY <2>4, <2>5
  <2>7. \E h : Prefix(h, (n - 1) + 1)
    BY <1>1, <2>4, <2>6
  <2> QED
    BY <2>4, <2>7
<1>4. \E g : Prefix(g, Len(saves))
  BY <1>3
<1>5. \E after : after = [i \in 0 .. Len(saves) |->
                            IF i = 0 THEN p
                            ELSE Record(after[i - 1], saves[i].id, outcome)]
  BY <1>4 DEF Prefix
<1>6. PICK after :
        /\ after = [i \in 0 .. Len(saves) |->
                      IF i = 0 THEN p
                      ELSE Record(after[i - 1], saves[i].id, outcome)]
        /\ RecordSaves(p, saves, outcome) = after[Len(saves)]
  BY <1>5 DEF RecordSaves
<1>7. 0 \in 0 .. Len(saves) /\ \A i \in 1 .. Len(saves) : i \in 0 .. Len(saves) /\ i # 0
  OBVIOUS
<1>8. after[0] = p /\ \A i \in 1 .. Len(saves) :
        after[i] = Record(after[i - 1], saves[i].id, outcome)
  BY <1>6, <1>7
<1> QED
  BY <1>6, <1>8

LEMMA RecordSavesMove ==
    ASSUME NEW p, Good(p), NEW saves, Len(saves) \in Nat,
           \A k \in 1 .. Len(saves) :
              saves[k].id \in p.inProgress \ {p.pending.id, p.active.id},
           \A k, l \in 1 .. Len(saves) : saves[k].id = saves[l].id => k = l
    PROVE  LET r == RecordSaves(p, saves, "Failed")
           IN  /\ PolicyMove(p, r, {})
               /\ r.pending = p.pending /\ r.active = p.active
               /\ r.inProgress =
                     p.inProgress \ {saves[k].id : k \in 1 .. Len(saves)}
<1> DEFINE n == Len(saves)
           ids(i) == {saves[k].id : k \in 1 .. i}
<1>1. PICK after :
        /\ after[0] = p
        /\ \A i \in 1 .. n : after[i] = Record(after[i - 1], saves[i].id, "Failed")
        /\ RecordSaves(p, saves, "Failed") = after[n]
  BY RecordSavesUnfold
<1> DEFINE Kept(i) == /\ PolicyMove(p, after[i], {})
                      /\ after[i].pending = p.pending
                      /\ after[i].active = p.active
                      /\ after[i].inProgress = p.inProgress \ ids(i)
           Bad == {i \in 0 .. n : ~Kept(i)}
<1>2. Kept(0)
  <2>1. ids(0) = {}
    OBVIOUS
  <2> HIDE DEF ids
  <2> QED
    BY <1>1, <2>1, StayMove
<1>4. ASSUME NEW i \in 1 .. n, Kept(i - 1)
      PROVE  Kept(i)
  <2> DEFINE q == after[i - 1]
             r == after[i]
  <2>1. /\ PolicyMove(p, q, {})
        /\ q.pending = p.pending /\ q.active = p.active
        /\ q.inProgress = p.inProgress \ ids(i - 1)
    BY <1>4
  <2>2. saves[i].id \notin ids(i - 1)
    <3>1. \A k \in 1 .. i - 1 : k \in 1 .. n /\ k # i
      OBVIOUS
    <3> QED
      BY <3>1
  <2>3. ids(i) = ids(i - 1) \cup {saves[i].id}
    <3>1. 1 .. i = (1 .. i - 1) \cup {i}
      OBVIOUS
    <3> QED
      BY <3>1
  <2>4. r = Record(q, saves[i].id, "Failed")
    BY <1>1
  <2>5. /\ Good(q)
        /\ saves[i].id \in q.inProgress
        /\ saves[i].id # q.pending.id /\ q.active.id # saves[i].id
    BY <2>1, <2>2 DEF PolicyMove
  <2> HIDE DEF q, r, ids
  <2>6. /\ PolicyMove(q, r, {})
        /\ r.pending = q.pending
        /\ r.inProgress = q.inProgress \ {saves[i].id}
        /\ r.active = q.active
    <3>1. "Failed" \in Outcomes /\ "Failed" # "Completed"
      BY DEF Outcomes
    <3> QED
      BY <2>4, <2>5, <3>1, RecordMove
  <2>7. PolicyMove(p, r, {} \cup {})
    BY <2>1, <2>6, MoveTransitive
  <2> QED
    BY <2>1, <2>3, <2>6, <2>7 DEF r
<1> HIDE DEF Kept
<1>5. Bad = {}
  <2> SUFFICES ASSUME Bad # {} PROVE FALSE
    OBVIOUS
  <2>1. Bad \subseteq Nat
    OBVIOUS
  <2>2. PICK i \in Bad : \A m \in Bad : i <= m
    BY <2>1, SmallestMember
  <2>3. i \in 1 .. n
    BY <1>2
  <2>4. i - 1 \in 0 .. n /\ ~(i <= i - 1)
    BY <2>3
  <2>5. Kept(i - 1)
    BY <2>2, <2>4
  <2> QED
    BY <1>4, <2>3, <2>5
<1>6. Kept(n)
  <2>1. n \in 0 .. n
    OBVIOUS
  <2> QED
    BY <1>5, <2>1
<1> QED
  BY <1>1, <1>6 DEF Kept

-----------------------------------------------------------------------------
(***************************************************************************)
(* The call stack.  At most one frame is ProcessNextTransition, and the    *)
(* steps of a call leave RunningStarts, the operations being started, as   *)
(* they are or drop one; only DequeueStart adds one.                       *)
(***************************************************************************)
OneProcess ==
    \A i, j \in 1 .. Len(stack) :
        stack[i].proc = "Process" /\ stack[j].proc = "Process" => i = j

StackOK == stack \in Seq(Frames) /\ OneProcess

Procs == {"Process", "Pump", "End"}
Pcs == Sinks \cup {"Next", "Preflight", "Phases", "Loop", "Saves"}

LEMMA FrameTyped ==
    ASSUME NEW proc \in Procs, NEW pc \in Pcs
    PROVE  /\ Frame(proc, pc) \in Frames
           /\ Frame(proc, pc).proc = proc /\ Frame(proc, pc).pc = pc
<1>1. NoContext \in Contexts
  BY DEF NoContext, Contexts
<1>2. 0 \in 0 .. MaxOps /\ "NewGame" \in StartKinds
  BY PolicyAssumption DEF StartKinds
<1> QED
  BY <1>1, <1>2 DEF Frame, Frames, Procs, Pcs

LEMMA TopTyped ==
    ASSUME StackOK, stack # <<>>
    PROVE  /\ Len(stack) \in Nat \ {0}
           /\ Len(stack) \in 1 .. Len(stack)
           /\ Top \in Frames
BY DEF StackOK, Top

\* Replacing the top frame.
LEMMA SetTop ==
    ASSUME StackOK, stack # <<>>, NEW frame \in Frames,
           stack' = [stack EXCEPT ![Len(stack)] = frame],
           frame.proc = Top.proc
    PROVE  /\ StackOK'
           /\ Len(stack') = Len(stack) /\ Top' = frame
           /\ \A i \in 1 .. Len(stack) - 1 : stack'[i] = stack[i]
           /\ \A op \in RunningStarts' :
                 \/ op \in RunningStarts
                 \/ frame.proc = "Process" /\ frame.pc # "Next" /\ op = frame.op
           /\ frame.proc = "Process" /\ frame.pc = "Next" => RunningStarts' = {}
<1>1. /\ Len(stack) \in Nat \ {0}
      /\ Len(stack) \in 1 .. Len(stack)
      /\ \A i \in 1 .. Len(stack) : stack[i] \in Frames
  BY DEF StackOK
<1>2. /\ stack' \in Seq(Frames) /\ Len(stack') = Len(stack)
      /\ stack'[Len(stack)] = frame
      /\ \A i \in 1 .. Len(stack) : i # Len(stack) => stack'[i] = stack[i]
  BY <1>1 DEF StackOK
<1>3. \A i \in 1 .. Len(stack) : stack'[i].proc = stack[i].proc
  BY <1>1, <1>2 DEF Top
<1>4. OneProcess'
  BY <1>2, <1>3 DEF StackOK, OneProcess
<1>5. \A i \in 1 .. Len(stack) - 1 : i # Len(stack) /\ i \in 1 .. Len(stack)
  BY <1>1
<1>6. ASSUME NEW op \in RunningStarts'
      PROVE  \/ op \in RunningStarts
             \/ frame.proc = "Process" /\ frame.pc # "Next" /\ op = frame.op
  <2>1. PICK i \in 1 .. Len(stack) :
           stack'[i].proc = "Process" /\ stack'[i].pc # "Next" /\ op = stack'[i].op
    BY <1>2, <1>6 DEF RunningStarts
  <2>2. CASE i = Len(stack)
    BY <1>2, <2>1, <2>2
  <2>3. CASE i # Len(stack)
    BY <1>2, <2>1, <2>3 DEF RunningStarts
  <2> QED
    BY <2>2, <2>3
<1>7. ASSUME frame.proc = "Process", frame.pc = "Next", NEW op \in RunningStarts'
      PROVE  FALSE
  <2>1. PICK i \in 1 .. Len(stack) :
           stack'[i].proc = "Process" /\ stack'[i].pc # "Next"
    BY <1>2, <1>7 DEF RunningStarts
  <2>2. i = Len(stack)
    BY <1>1, <1>2, <1>4, <1>7, <2>1 DEF OneProcess
  <2> QED
    BY <1>2, <1>7, <2>1, <2>2
<1> QED
  BY <1>2, <1>4, <1>5, <1>6, <1>7 DEF StackOK, Top

LEMMA GotoTyped ==
    ASSUME StackOK, stack # <<>>, NEW pc \in Pcs, stack' = Goto(pc),
           Top.proc = "Process" => Top.pc # "Next"
    PROVE  /\ StackOK'
           /\ Len(stack') = Len(stack) /\ Top' = [Top EXCEPT !.pc = pc]
           /\ \A i \in 1 .. Len(stack) - 1 : stack'[i] = stack[i]
           /\ RunningStarts' \subseteq RunningStarts
           /\ Top.proc = "Process" /\ pc = "Next" => RunningStarts' = {}
<1> DEFINE frame == [Top EXCEPT !.pc = pc]
<1>1. Top \in Frames /\ Len(stack) \in 1 .. Len(stack)
  BY TopTyped
<1>2. /\ frame \in Frames
      /\ frame.proc = Top.proc /\ frame.op = Top.op /\ frame.pc = pc
  BY <1>1 DEF Frames, Pcs
<1>3. stack' = [stack EXCEPT ![Len(stack)] = frame]
  BY DEF Goto, Top
<1> HIDE DEF frame
<1>4. /\ StackOK'
      /\ Len(stack') = Len(stack) /\ Top' = frame
      /\ \A i \in 1 .. Len(stack) - 1 : stack'[i] = stack[i]
      /\ \A op \in RunningStarts' :
            \/ op \in RunningStarts
            \/ frame.proc = "Process" /\ frame.pc # "Next" /\ op = frame.op
      /\ frame.proc = "Process" /\ frame.pc = "Next" => RunningStarts' = {}
  BY <1>2, <1>3, SetTop
<1>5. Top.proc = "Process" => Top.op \in RunningStarts
  BY <1>1 DEF RunningStarts, Top
<1> QED
  BY <1>2, <1>4, <1>5 DEF frame

\* The two steps that also write the revision of the frame.
LEMMA GotoRevTyped ==
    ASSUME StackOK, stack # <<>>, NEW pc \in Pcs, NEW rev \in Nat,
           stack' = [Goto(pc) EXCEPT ![Len(stack)].rev = rev],
           Top.proc = "Process" => Top.pc # "Next" /\ pc # "Next"
    PROVE  /\ StackOK'
           /\ Len(stack') = Len(stack)
           /\ Top' = [Top EXCEPT !.pc = pc, !.rev = rev]
           /\ \A i \in 1 .. Len(stack) - 1 : stack'[i] = stack[i]
           /\ RunningStarts' \subseteq RunningStarts
<1> DEFINE frame == [Top EXCEPT !.pc = pc, !.rev = rev]
<1>1. Top \in Frames /\ Len(stack) \in 1 .. Len(stack)
  BY TopTyped
<1>2. /\ frame \in Frames
      /\ frame.proc = Top.proc /\ frame.op = Top.op /\ frame.pc = pc
  BY <1>1 DEF Frames, Pcs
<1>3. stack' = [stack EXCEPT ![Len(stack)] = frame]
  <2>1. stack \in Seq(Frames)
    BY DEF StackOK
  <2> QED
    BY <1>1, <2>1 DEF Goto, Top
<1> HIDE DEF frame
<1>4. /\ StackOK'
      /\ Len(stack') = Len(stack) /\ Top' = frame
      /\ \A i \in 1 .. Len(stack) - 1 : stack'[i] = stack[i]
      /\ \A op \in RunningStarts' :
            \/ op \in RunningStarts
            \/ frame.proc = "Process" /\ frame.pc # "Next" /\ op = frame.op
  BY <1>2, <1>3, SetTop
<1>5. Top.proc = "Process" => Top.op \in RunningStarts
  BY <1>1 DEF RunningStarts, Top
<1> QED
  BY <1>2, <1>4, <1>5 DEF frame

LEMMA PushTyped ==
    ASSUME StackOK, NEW frame \in Frames, stack' = Push(frame),
           frame.proc = "Process" => frame.pc = "Next" /\ ~Processing
    PROVE  /\ StackOK'
           /\ Len(stack') = Len(stack) + 1 /\ Top' = frame
           /\ \A i \in 1 .. Len(stack) : stack'[i] = stack[i]
           /\ RunningStarts' \subseteq RunningStarts
<1>1. Len(stack) \in Nat /\ \A i \in 1 .. Len(stack) : stack[i] \in Frames
  BY DEF StackOK
<1>2. /\ stack' \in Seq(Frames) /\ Len(stack') = Len(stack) + 1
      /\ stack'[Len(stack) + 1] = frame
      /\ \A i \in 1 .. Len(stack) : stack'[i] = stack[i]
  BY DEF StackOK, Push
<1>3. \A i \in 1 .. Len(stack') : i \in 1 .. Len(stack) \/ i = Len(stack) + 1
  BY <1>1, <1>2
<1>4. OneProcess'
  <2> SUFFICES ASSUME NEW i \in 1 .. Len(stack'), NEW j \in 1 .. Len(stack'),
                      stack'[i].proc = "Process", stack'[j].proc = "Process"
               PROVE  i = j
    BY DEF OneProcess
  <2>1. CASE i \in 1 .. Len(stack) /\ j \in 1 .. Len(stack)
    BY <1>2, <2>1 DEF StackOK, OneProcess
  <2>2. CASE i = Len(stack) + 1 /\ j \in 1 .. Len(stack)
    BY <1>2, <2>2 DEF Processing, InProgress
  <2>3. CASE j = Len(stack) + 1 /\ i \in 1 .. Len(stack)
    BY <1>2, <2>3 DEF Processing, InProgress
  <2> QED
    BY <1>3, <2>1, <2>2, <2>3
<1>5. ASSUME NEW op \in RunningStarts'
      PROVE  op \in RunningStarts
  <2>1. PICK i \in 1 .. Len(stack') :
           stack'[i].proc = "Process" /\ stack'[i].pc # "Next" /\ op = stack'[i].op
    BY <1>5 DEF RunningStarts
  <2>2. i \in 1 .. Len(stack)
    BY <1>2, <1>3, <2>1
  <2> QED
    BY <1>2, <2>1, <2>2 DEF RunningStarts
<1> QED
  BY <1>2, <1>4, <1>5 DEF StackOK, Top

LEMMA PopTyped ==
    ASSUME StackOK, stack # <<>>
    PROVE  /\ Pop \in Seq(Frames) /\ Len(Pop) = Len(stack) - 1
           /\ \A i \in 1 .. Len(Pop) : Pop[i] = stack[i] /\ i \in 1 .. Len(stack)
<1> DEFINE n == Len(stack) - 1
<1>1. /\ n \in Nat /\ 1 \in Int /\ n \in Int
      /\ \A i \in 1 .. n : stack[i] \in Frames /\ i \in 1 .. Len(stack)
  BY TopTyped DEF StackOK
<1> HIDE DEF n
<1>2. /\ SubSeq(stack, 1, n) \in Seq(Frames)
      /\ Len(SubSeq(stack, 1, n)) = IF 1 <= n THEN n - 1 + 1 ELSE 0
      /\ \A i \in 1 .. n - 1 + 1 : SubSeq(stack, 1, n)[i] = stack[1 + i - 1]
  BY <1>1, SubSeqProperties
<1>3. Len(SubSeq(stack, 1, n)) = n /\ \A i \in 1 .. n : SubSeq(stack, 1, n)[i] = stack[i]
  BY <1>1, <1>2
<1> QED
  BY <1>1, <1>2, <1>3 DEF Pop, n

LEMMA PopKeeps ==
    ASSUME StackOK, stack # <<>>, stack' = Pop
    PROVE  /\ StackOK'
           /\ RunningStarts' \subseteq RunningStarts
<1>1. /\ Pop \in Seq(Frames)
      /\ \A i \in 1 .. Len(Pop) : Pop[i] = stack[i] /\ i \in 1 .. Len(stack)
  BY PopTyped
<1>2. OneProcess'
  BY <1>1 DEF OneProcess, StackOK
<1>3. RunningStarts' \subseteq RunningStarts
  BY <1>1 DEF RunningStarts
<1> QED
  BY <1>1, <1>2, <1>3 DEF StackOK

\* The end of the pump, when it goes on with the transition.
LEMMA PopPushKeeps ==
    ASSUME StackOK, stack # <<>>, ~Processing,
           stack' = Append(Pop, Frame("Process", "Next"))
    PROVE  /\ StackOK'
           /\ Len(stack') = Len(stack) /\ Top' = Frame("Process", "Next")
           /\ RunningStarts' \subseteq RunningStarts
<1> DEFINE frame == Frame("Process", "Next")
<1>1. frame \in Frames /\ frame.pc = "Next"
  BY FrameTyped DEF Procs, Pcs
<1> HIDE DEF frame
<1>2. /\ Pop \in Seq(Frames) /\ Len(Pop) = Len(stack) - 1
      /\ \A i \in 1 .. Len(Pop) : Pop[i] = stack[i] /\ i \in 1 .. Len(stack)
  BY PopTyped
<1>3. Len(stack) \in Nat \ {0}
  BY TopTyped
<1>4. /\ stack' \in Seq(Frames) /\ Len(stack') = Len(stack)
      /\ stack'[Len(stack)] = frame
      /\ \A i \in 1 .. Len(stack) - 1 : stack'[i] = stack[i] /\ i \in 1 .. Len(stack)
  <2>1. stack' = Append(Pop, frame)
    BY DEF frame
  <2> HIDE DEF Pop
  <2> QED
    BY <1>1, <1>2, <1>3, <2>1
<1>5. \A i \in 1 .. Len(stack) : i \in 1 .. Len(stack) - 1 \/ i = Len(stack)
  BY <1>3
<1>6. \A i \in 1 .. Len(stack) : stack'[i].proc = "Process" => i = Len(stack)
  BY <1>4, <1>5 DEF Processing, InProgress
<1>7. OneProcess'
  BY <1>4, <1>6 DEF OneProcess
<1>8. RunningStarts' = {}
  BY <1>1, <1>4, <1>6 DEF RunningStarts
<1> QED
  BY <1>4, <1>7, <1>8 DEF StackOK, Top, frame

-----------------------------------------------------------------------------
(***************************************************************************)
(* What the coordinator keeps of its requests, whatever the sinks call:    *)
(* the policy is used as it is meant to be, so that it stays good; the     *)
(* starts being executed and the deferred saves are operations in progress *)
(* that nobody else ends; the pending start has its context.               *)
(***************************************************************************)
SaveIds == {pendingSaves[k].id : k \in 1 .. Len(pendingSaves)}

RequestsTyped ==
    /\ pendingSaves \in Seq([id : Ids, gen : Nat])
    /\ startContext \in Contexts

StartsInProgress ==
    \A op \in RunningStarts :
        /\ op \in policy.inProgress \ {policy.pending.id}
        /\ op = policy.active.id => policy.active.kind # "Shutdown"

SavesInProgress ==
    /\ \A id \in SaveIds :
          /\ id \in policy.inProgress \ {policy.pending.id, policy.active.id}
          /\ id \notin RunningStarts
    /\ \A k, l \in 1 .. Len(pendingSaves) :
          pendingSaves[k].id = pendingSaves[l].id => k = l

ContextHasContent == startContext # NoContext => startContext.repo \in Contents

RequestsOK ==
    /\ Good(policy)
    /\ RequestsTyped
    /\ StartsInProgress
    /\ SavesInProgress
    /\ PendingHasItsContext
    /\ ContextHasContent

LEMMA SameRequests ==
    ASSUME RequestsOK, UNCHANGED requests, RunningStarts' \subseteq RunningStarts
    PROVE  RequestsOK' /\ PolicyMove(policy, policy', {})
<1>1. policy' = policy /\ pendingSaves' = pendingSaves /\ startContext' = startContext
  BY DEF requests
<1>2. SaveIds' = SaveIds
  BY <1>1 DEF SaveIds
<1>3. StartsInProgress'
  BY <1>1 DEF RequestsOK, StartsInProgress
<1>4. SavesInProgress'
  BY <1>1, <1>2 DEF RequestsOK, SavesInProgress
<1>5. RequestsTyped' /\ PendingHasItsContext' /\ ContextHasContent'
  BY <1>1 DEF RequestsOK, RequestsTyped, PendingHasItsContext, ContextHasContent
<1>6. PolicyMove(policy, policy', {})
  BY <1>1, StayMove DEF RequestsOK
<1> QED
  BY <1>1, <1>3, <1>4, <1>5, <1>6 DEF RequestsOK

(***************************************************************************)
(* A start ends with an outcome.                                           *)
(***************************************************************************)
LEMMA StartEnds ==
    ASSUME RequestsOK, NEW op \in RunningStarts, NEW outcome \in Outcomes,
           policy' = Record(policy, op, outcome), RunningStarts' = {},
           UNCHANGED <<pendingSaves, startContext>>
    PROVE  /\ RequestsOK'
           /\ PolicyMove(policy, policy', {op})
           /\ outcome # "Completed" => PolicyMove(policy, policy', {})
           /\ policy'.pending = policy.pending
           /\ policy'.active = IF policy.active.id = op THEN NoOp ELSE policy.active
<1>1. Good(policy) /\ op \in policy.inProgress /\ op # policy.pending.id
  BY DEF RequestsOK, StartsInProgress
<1>2. /\ PolicyMove(policy, policy', {op})
      /\ policy'.pending = policy.pending
      /\ policy'.inProgress = policy.inProgress \ {op}
      /\ policy'.active = IF policy.active.id = op THEN NoOp ELSE policy.active
  BY <1>1, RecordMove
<1>3. outcome # "Completed" => PolicyMove(policy, policy', {})
  BY <1>1, RecordMove
<1>4. StartsInProgress'
  BY DEF StartsInProgress
<1>5. SavesInProgress'
  <2>1. SaveIds' = SaveIds
    BY DEF SaveIds
  <2>2. \A id \in SaveIds : id # policy'.active.id
    <3>1. \A id \in SaveIds : id # 0 /\ id # policy.active.id
      BY SlotFacts DEF RequestsOK, SavesInProgress, Ids
    <3>2. NoOp.id = 0
      BY DEF NoOp, Operation
    <3> QED
      BY <1>2, <3>1, <3>2
  <2> QED
    BY <1>2, <2>1, <2>2 DEF RequestsOK, SavesInProgress
<1>6. RequestsTyped' /\ PendingHasItsContext' /\ ContextHasContent'
  BY <1>2 DEF RequestsOK, RequestsTyped, PendingHasItsContext, ContextHasContent
<1> QED
  BY <1>2, <1>3, <1>4, <1>5, <1>6 DEF RequestsOK, PolicyMove

LEMMA SavesFailedMove ==
    ASSUME RequestsOK
    PROVE  /\ PolicyMove(policy, SavesFailed, {})
           /\ SavesFailed.pending = policy.pending
           /\ SavesFailed.active = policy.active
           /\ SavesFailed.inProgress = policy.inProgress \ SaveIds
<1>1. Good(policy) /\ Len(pendingSaves) \in Nat
  BY DEF RequestsOK, RequestsTyped
<1>2. \A k \in 1 .. Len(pendingSaves) :
        pendingSaves[k].id \in policy.inProgress \ {policy.pending.id, policy.active.id}
  BY DEF RequestsOK, SavesInProgress, SaveIds
<1>3. \A k, l \in 1 .. Len(pendingSaves) :
        pendingSaves[k].id = pendingSaves[l].id => k = l
  BY DEF RequestsOK, SavesInProgress
<1> QED
  BY <1>1, <1>2, <1>3, RecordSavesMove DEF SavesFailed, SaveIds

\* The saves are gone and the policy moved: what is left to show.
LEMMA NoSavesLeft ==
    ASSUME RequestsOK, Good(policy'),
           policy'.pending = policy.pending,
           \A op \in RunningStarts' :
              /\ op \in RunningStarts
              /\ op \in policy'.inProgress
              /\ op = policy'.active.id => policy'.active.kind # "Shutdown",
           pendingSaves' = <<>>, UNCHANGED startContext
    PROVE  RequestsOK'
<1>1. StartsInProgress'
  BY DEF RequestsOK, StartsInProgress
<1>2. SavesInProgress' /\ RequestsTyped'
  <2>1. Len(pendingSaves') = 0
    OBVIOUS
  <2> QED
    BY <2>1 DEF RequestsOK, SavesInProgress, SaveIds, RequestsTyped
<1>3. PendingHasItsContext' /\ ContextHasContent'
  BY DEF RequestsOK, PendingHasItsContext, ContextHasContent
<1> QED
  BY <1>1, <1>2, <1>3 DEF RequestsOK

LEMMA FailKeepsRequests ==
    ASSUME RequestsOK, FailRuntime(SavesFailed), RunningStarts' \subseteq RunningStarts
    PROVE  /\ RequestsOK' /\ PolicyMove(policy, policy', {})
           /\ policy'.pending = policy.pending /\ policy'.active = policy.active
<1>1. /\ PolicyMove(policy, policy', {})
      /\ policy'.pending = policy.pending
      /\ policy'.active = policy.active
      /\ policy'.inProgress = policy.inProgress \ SaveIds
  BY SavesFailedMove DEF FailRuntime
<1>2. pendingSaves' = <<>> /\ UNCHANGED startContext
  BY DEF FailRuntime
<1>3. \A op \in RunningStarts' :
        /\ op \in RunningStarts
        /\ op \in policy'.inProgress
        /\ op = policy'.active.id => policy'.active.kind # "Shutdown"
  BY <1>1 DEF RequestsOK, StartsInProgress, SavesInProgress
<1>4. Good(policy')
  BY <1>1 DEF PolicyMove
<1> QED
  BY <1>1, <1>2, <1>3, <1>4, NoSavesLeft

LEMMA FailStartKeepsRequests ==
    ASSUME RequestsOK, NEW op \in RunningStarts, RunningStarts' = {},
           FailRuntime(Record(SavesFailed, op, "Failed"))
    PROVE  /\ RequestsOK' /\ PolicyMove(policy, policy', {})
           /\ policy'.pending = policy.pending
           /\ policy'.active = IF policy.active.id = op THEN NoOp ELSE policy.active
<1>1. /\ PolicyMove(policy, SavesFailed, {})
      /\ SavesFailed.pending = policy.pending
      /\ SavesFailed.active = policy.active
      /\ SavesFailed.inProgress = policy.inProgress \ SaveIds
  BY SavesFailedMove
<1>2. /\ policy' = Record(SavesFailed, op, "Failed")
      /\ pendingSaves' = <<>> /\ UNCHANGED startContext
  BY DEF FailRuntime
<1>3. /\ Good(SavesFailed) /\ op \in SavesFailed.inProgress
      /\ op # SavesFailed.pending.id
  BY <1>1 DEF RequestsOK, StartsInProgress, SavesInProgress, PolicyMove
<1>4. "Failed" \in Outcomes /\ "Failed" # "Completed"
  BY DEF Outcomes
<1> HIDE DEF SavesFailed
<1>5. /\ PolicyMove(SavesFailed, policy', {})
      /\ policy'.pending = SavesFailed.pending
      /\ policy'.active = IF SavesFailed.active.id = op THEN NoOp
                          ELSE SavesFailed.active
  BY <1>2, <1>3, <1>4, RecordMove
<1>6. PolicyMove(policy, policy', {} \cup {})
  BY <1>1, <1>5, MoveTransitive DEF RequestsOK
<1>7. Good(policy')
  BY <1>5 DEF PolicyMove
<1> QED
  BY <1>1, <1>2, <1>5, <1>6, <1>7, NoSavesLeft

(***************************************************************************)
(* A request takes the slot, and its context the place beside it.          *)
(***************************************************************************)
LEMMA EnqueueStartKeeps ==
    ASSUME RequestsOK, NEW d \in Descriptors, NEW context \in Contexts,
           context.repo = d.key,
           EnqueueStart(d, context),
           UNCHANGED pendingSaves, RunningStarts' \subseteq RunningStarts
    PROVE  /\ RequestsOK' /\ PolicyMove(policy, policy', {})
           /\ policy'.active = policy.active
           /\ policy'.pending.committed => policy.pending.committed
           /\ startContext' \in {startContext, context}
<1>1. SaveIds' = SaveIds
  BY DEF SaveIds
<1>2. CASE JoinsRequest(policy, d)
  <2>1. UNCHANGED requests
    BY <1>2 DEF EnqueueStart, EnqueueRequest, requests
  <2> QED
    BY <2>1, SameRequests DEF requests
<1>3. CASE ~JoinsRequest(policy, d)
  <2>1. Good(policy) /\ CanAllocate(policy)
    BY <1>3 DEF EnqueueStart, CanRequest, RequestsOK
  <2>2. /\ PolicyMove(policy, policy', {})
        /\ policy'.pending = Operation(policy.next, d, d.mode)
        /\ policy'.active = policy.active
        /\ policy'.inProgress = (policy.inProgress \ {policy.pending.id}) \cup {policy.next}
        /\ startContext' = context
    BY <1>3, <2>1, EnqueueRequestMove DEF EnqueueStart
  <2>3. policy.next \notin policy.inProgress
    BY <2>1, AllocateMove
  <2>4. /\ policy'.pending.id = policy.next
        /\ policy'.pending.kind = d.mode
        /\ policy'.pending.descriptor = d
        /\ policy'.pending.committed = FALSE
    BY <2>2 DEF Operation
  <2>5. StartsInProgress'
    BY <2>2, <2>3, <2>4 DEF RequestsOK, StartsInProgress
  <2>6. SavesInProgress'
    BY <1>1, <2>2, <2>3, <2>4 DEF RequestsOK, SavesInProgress
  <2>7. d.key \in Contents /\ d.mode \in StartKinds /\ d.key # NoContent
    BY PolicyAssumption, CoordinatorAssumption
  <2>8. context # NoContext
    BY <2>7 DEF NoContext
  <2>9. RequestsTyped' /\ PendingHasItsContext' /\ ContextHasContent'
    BY <2>2, <2>4, <2>7, <2>8
    DEF RequestsOK, RequestsTyped, PendingHasItsContext, ContextHasContent
  <2>10. Good(policy')
    BY <2>2 DEF PolicyMove
  <2> QED
    BY <2>2, <2>4, <2>5, <2>6, <2>9, <2>10 DEF RequestsOK
<1> QED
  BY <1>2, <1>3

(***************************************************************************)
(* An id is taken and recorded at once: a load without a context, a save   *)
(* that is refused or executed on the spot.                                *)
(***************************************************************************)
LEMMA AllocateAndEnd ==
    ASSUME RequestsOK, CanAllocate(policy), NEW outcome \in Outcomes,
           policy' = Record(AllocateOperationId(policy), policy.next, outcome),
           UNCHANGED <<pendingSaves, startContext>>, RunningStarts' \subseteq RunningStarts
    PROVE  /\ RequestsOK' /\ PolicyMove(policy, policy', {policy.next})
           /\ policy'.active = policy.active /\ policy'.pending = policy.pending
<1> DEFINE q == AllocateOperationId(policy)
<1>1. /\ PolicyMove(policy, q, {})
      /\ q.pending = policy.pending /\ q.active = policy.active
      /\ q.inProgress = policy.inProgress \cup {policy.next}
      /\ policy.next \notin policy.inProgress \cup {policy.pending.id, policy.active.id}
  BY AllocateMove DEF RequestsOK
<1>2. Good(q) /\ policy.next \in q.inProgress /\ policy.next # q.pending.id
  BY <1>1 DEF PolicyMove
<1> HIDE DEF q
<1>3. /\ PolicyMove(q, policy', {policy.next})
      /\ policy'.pending = q.pending
      /\ policy'.inProgress = q.inProgress \ {policy.next}
      /\ policy'.active = IF q.active.id = policy.next THEN NoOp ELSE q.active
  BY <1>2, RecordMove DEF q
<1>4. PolicyMove(policy, policy', {} \cup {policy.next})
  BY <1>1, <1>3, MoveTransitive DEF RequestsOK
<1>5. {} \cup {policy.next} = {policy.next}
  OBVIOUS
<1>6. /\ policy'.pending = policy.pending /\ policy'.active = policy.active
      /\ policy'.inProgress = policy.inProgress
  BY <1>1, <1>3
<1>7. SaveIds' = SaveIds
  BY DEF SaveIds
<1>8. StartsInProgress' /\ SavesInProgress'
  BY <1>6, <1>7 DEF RequestsOK, StartsInProgress, SavesInProgress
<1>9. RequestsTyped' /\ PendingHasItsContext' /\ ContextHasContent'
  BY <1>6 DEF RequestsOK, RequestsTyped, PendingHasItsContext, ContextHasContent
<1>10. Good(policy')
  BY <1>3 DEF PolicyMove
<1> QED
  BY <1>4, <1>5, <1>6, <1>8, <1>9, <1>10 DEF RequestsOK

\* ExecuteSave records an outcome, Completed only in a live VM.
LEMMA SaveOutcome ==
    ASSUME NEW p, NEW id, NEW q \in ExecuteSave(p, id)
    PROVE  \E outcome \in {"Completed", "Failed"} :
              /\ q = Record(p, id, outcome)
              /\ outcome = "Completed" => ready /\ vm # 0
BY DEF ExecuteSave, SaveOutcomes

LEMMA EnqueueSaveKeeps ==
    ASSUME RequestsOK, generation \in Nat, NEW validSlot \in BOOLEAN,
           EnqueueSave(validSlot), UNCHANGED startContext,
           RunningStarts' \subseteq RunningStarts
    PROVE  /\ RequestsOK' /\ PolicyMove(policy, policy', {policy.next})
           /\ policy.next \notin policy.inProgress
           /\ policy'.active = policy.active /\ policy'.pending = policy.pending
           /\ \/ UNCHANGED pendingSaves
              \/ /\ ready /\ Busy
                 /\ pendingSaves' =
                       Append(pendingSaves, [id |-> policy.next, gen |-> generation])
<1>1. CanAllocate(policy) /\ "Failed" \in Outcomes /\ "Completed" \in Outcomes
  BY DEF EnqueueSave, Outcomes
<1>2. policy.next \notin policy.inProgress
  BY <1>1, AllocateMove DEF RequestsOK
<1>3. CASE SaveRefused(validSlot)
  BY <1>1, <1>2, <1>3, AllocateAndEnd DEF EnqueueSave
<1>4. CASE ~SaveRefused(validSlot) /\ ~Busy
  <2>1. policy' \in ExecuteSave(AllocateOperationId(policy), policy.next)
        /\ UNCHANGED pendingSaves
    BY <1>4 DEF EnqueueSave
  <2>2. PICK outcome \in {"Completed", "Failed"} :
           policy' = Record(AllocateOperationId(policy), policy.next, outcome)
    BY <2>1, SaveOutcome
  <2>3. outcome \in Outcomes
    BY <1>1
  <2> QED
    BY <1>1, <1>2, <2>1, <2>2, <2>3, AllocateAndEnd
<1>5. CASE ~SaveRefused(validSlot) /\ Busy
  <2> DEFINE save == [id |-> policy.next, gen |-> generation]
  <2>1. /\ policy' = AllocateOperationId(policy)
        /\ pendingSaves' = Append(pendingSaves, save)
        /\ ready
    BY <1>5 DEF EnqueueSave, SaveRefused
  <2>2. /\ PolicyMove(policy, policy', {})
        /\ policy'.pending = policy.pending /\ policy'.active = policy.active
        /\ policy'.inProgress = policy.inProgress \cup {policy.next}
        /\ policy.next \in Ids
        /\ policy.next \notin policy.inProgress \cup {policy.pending.id, policy.active.id}
    BY <1>1, <2>1, AllocateMove DEF RequestsOK
  <2>3. save \in [id : Ids, gen : Nat] /\ save.id = policy.next
    BY <2>2
  <2> HIDE DEF save
  <2>4. /\ pendingSaves' \in Seq([id : Ids, gen : Nat])
        /\ Len(pendingSaves') = Len(pendingSaves) + 1
        /\ Len(pendingSaves) \in Nat
        /\ \A k \in 1 .. Len(pendingSaves) : pendingSaves'[k] = pendingSaves[k]
        /\ pendingSaves'[Len(pendingSaves) + 1] = save
    BY <2>1, <2>3 DEF RequestsOK, RequestsTyped
  <2>5. \A k \in 1 .. Len(pendingSaves') :
           k \in 1 .. Len(pendingSaves) \/ k = Len(pendingSaves) + 1
    BY <2>4
  <2>6. \A id \in SaveIds' : id \in SaveIds \/ id = policy.next
    BY <2>3, <2>4, <2>5 DEF SaveIds
  <2>7. \A id \in SaveIds : id \in policy.inProgress
    BY DEF RequestsOK, SavesInProgress
  <2>8. StartsInProgress'
    BY <2>2 DEF RequestsOK, StartsInProgress
  <2>9. policy.next \notin RunningStarts
    BY <2>2 DEF RequestsOK, StartsInProgress
  <2>10. \A k, l \in 1 .. Len(pendingSaves') :
           pendingSaves'[k].id = pendingSaves'[l].id => k = l
    <3>1. \A k \in 1 .. Len(pendingSaves) : pendingSaves'[k].id # policy.next
      BY <2>2, <2>4, <2>7 DEF SaveIds
    <3> QED
      BY <2>3, <2>4, <2>5, <3>1 DEF RequestsOK, SavesInProgress
  <2>11. SavesInProgress'
    BY <2>2, <2>6, <2>9, <2>10 DEF RequestsOK, SavesInProgress
  <2>12. RequestsTyped' /\ PendingHasItsContext' /\ ContextHasContent'
    BY <2>2, <2>4 DEF RequestsOK, RequestsTyped, PendingHasItsContext, ContextHasContent
  <2>13. PolicyMove(policy, policy', {policy.next})
    BY <2>2 DEF PolicyMove, CompletesOnly
  <2> QED
    BY <1>5, <2>1, <2>2, <2>8, <2>11, <2>12, <2>13 DEF RequestsOK, PolicyMove, save
<1> QED
  BY <1>3, <1>4, <1>5

LEMMA RemoveAtTyped ==
    ASSUME NEW S, NEW s \in Seq(S), NEW i \in 1 .. Len(s)
    PROVE  /\ RemoveAt(s, i) \in Seq(S)
           /\ Len(RemoveAt(s, i)) = Len(s) - 1
           /\ \A j \in 1 .. Len(RemoveAt(s, i)) :
                 /\ j < i => RemoveAt(s, i)[j] = s[j] /\ j \in 1 .. Len(s)
                 /\ j >= i => RemoveAt(s, i)[j] = s[j + 1] /\ j + 1 \in 1 .. Len(s)
<1> DEFINE a == SubSeq(s, 1, i - 1)
           b == SubSeq(s, i + 1, Len(s))
<1>1. /\ Len(s) \in Nat /\ i \in Nat /\ 1 \in Int /\ i - 1 \in Int /\ i + 1 \in Int
      /\ \A j \in 1 .. i - 1 : s[j] \in S
      /\ \A j \in i + 1 .. Len(s) : s[j] \in S
  OBVIOUS
<1>2. /\ a \in Seq(S)
      /\ Len(a) = IF 1 <= i - 1 THEN (i - 1) - 1 + 1 ELSE 0
      /\ \A j \in 1 .. (i - 1) - 1 + 1 : a[j] = s[1 + j - 1]
  BY <1>1, SubSeqProperties
<1>3. /\ b \in Seq(S)
      /\ Len(b) = IF i + 1 <= Len(s) THEN Len(s) - (i + 1) + 1 ELSE 0
      /\ \A j \in 1 .. Len(s) - (i + 1) + 1 : b[j] = s[(i + 1) + j - 1]
  BY <1>1, SubSeqProperties
<1> HIDE DEF a, b
<1>4. Len(a) = i - 1 /\ Len(b) = Len(s) - i
  BY <1>1, <1>2, <1>3
<1>5. /\ a \o b \in Seq(S)
      /\ Len(a \o b) = Len(s) - 1
      /\ \A j \in 1 .. Len(s) - 1 :
            (a \o b)[j] = IF j <= i - 1 THEN a[j] ELSE b[j - (i - 1)]
  <2>1. /\ a \o b \in Seq(S)
        /\ Len(a \o b) = Len(a) + Len(b)
        /\ \A j \in 1 .. Len(a) + Len(b) :
              (a \o b)[j] = IF j <= Len(a) THEN a[j] ELSE b[j - Len(a)]
    BY <1>2, <1>3, ConcatProperties
  <2>2. Len(a) + Len(b) = Len(s) - 1
    BY <1>1, <1>4
  <2> QED
    BY <1>4, <2>1, <2>2
<1>6. RemoveAt(s, i) = a \o b
  BY DEF RemoveAt, a, b
<1>7. ASSUME NEW j \in 1 .. Len(s) - 1
      PROVE  /\ j < i => (a \o b)[j] = s[j] /\ j \in 1 .. Len(s)
             /\ j >= i => (a \o b)[j] = s[j + 1] /\ j + 1 \in 1 .. Len(s)
  <2>1. CASE j < i
    <3>1. j <= i - 1 /\ j \in 1 .. (i - 1) - 1 + 1 /\ j \in 1 .. Len(s) /\ 1 + j - 1 = j
      BY <1>1, <2>1
    <3>2. ~(j >= i)
      BY <1>1, <2>1
    <3> QED
      BY <1>2, <1>5, <3>1, <3>2
  <2>2. CASE j >= i
    <3>1. /\ ~(j <= i - 1) /\ j - (i - 1) \in 1 .. Len(s) - (i + 1) + 1
          /\ (i + 1) + (j - (i - 1)) - 1 = j + 1 /\ j + 1 \in 1 .. Len(s)
      BY <1>1, <2>2
    <3>2. ~(j < i)
      BY <1>1, <2>2
    <3> QED
      BY <1>3, <1>5, <3>1, <3>2
  <2> QED
    BY <1>1, <2>1, <2>2
<1> QED
  BY <1>5, <1>6, <1>7

(***************************************************************************)
(* A cancellation removes a deferred save, clears the slot together with   *)
(* its context, or marks the active operation.                             *)
(***************************************************************************)
CancelEffect(id) ==
    \/ \E i \in 1 .. Len(pendingSaves) :
          /\ pendingSaves[i].id = id
          /\ pendingSaves' = RemoveAt(pendingSaves, i)
          /\ policy' = Record(policy, id, "Cancelled")
          /\ UNCHANGED startContext
    \/ /\ \A i \in 1 .. Len(pendingSaves) : pendingSaves[i].id # id
       /\ policy' = CancelRequest(policy, id)
       /\ startContext' =
             IF /\ CancelResult(policy, id) = "Accepted"
                /\ policy'.active # NoOp
                /\ policy'.active.id # id
             THEN NoContext ELSE startContext
       /\ UNCHANGED pendingSaves

LEMMA CancelKeepsRequests ==
    ASSUME RequestsOK, NEW id \in Ids, CancelEffect(id),
           RunningStarts' \subseteq RunningStarts
    PROVE  /\ RequestsOK' /\ PolicyMove(policy, policy', {})
           /\ policy'.pending \in {policy.pending, NoOp}
           /\ policy'.active.id = policy.active.id
           /\ policy'.active.kind = policy.active.kind
           /\ policy'.active.committed = policy.active.committed
           /\ (policy'.active = NoOp) = (policy.active = NoOp)
           /\ startContext' \in {startContext, NoContext}
           /\ \/ UNCHANGED pendingSaves
              \/ \E i \in 1 .. Len(pendingSaves) : pendingSaves' = RemoveAt(pendingSaves, i)
<1>1. ASSUME NEW i \in 1 .. Len(pendingSaves),
             pendingSaves[i].id = id,
             pendingSaves' = RemoveAt(pendingSaves, i),
             policy' = Record(policy, id, "Cancelled"),
             UNCHANGED startContext
      PROVE  /\ RequestsOK' /\ PolicyMove(policy, policy', {})
             /\ policy'.pending = policy.pending /\ policy'.active = policy.active
  <2>1. id \in SaveIds
    BY <1>1 DEF SaveIds
  <2>2. /\ Good(policy) /\ id \in policy.inProgress /\ id # policy.pending.id
        /\ id # policy.active.id
        /\ "Cancelled" \in Outcomes /\ "Cancelled" # "Completed"
    BY <2>1 DEF RequestsOK, SavesInProgress, Outcomes
  <2>3. /\ PolicyMove(policy, policy', {})
        /\ policy'.pending = policy.pending /\ policy'.active = policy.active
        /\ policy'.inProgress = policy.inProgress \ {id}
    BY <1>1, <2>2, RecordMove
  <2>4. /\ Len(pendingSaves) \in Nat
        /\ pendingSaves' \in Seq([id : Ids, gen : Nat])
        /\ Len(pendingSaves') = Len(pendingSaves) - 1
        /\ \A j \in 1 .. Len(pendingSaves') :
              /\ j < i => pendingSaves'[j] = pendingSaves[j] /\ j \in 1 .. Len(pendingSaves)
              /\ j >= i => /\ pendingSaves'[j] = pendingSaves[j + 1]
                           /\ j + 1 \in 1 .. Len(pendingSaves)
    <3> DEFINE Saves == [id : Ids, gen : Nat]
               rest == RemoveAt(pendingSaves, i)
    <3>1. pendingSaves \in Seq(Saves) /\ Len(pendingSaves) \in Nat
      BY DEF RequestsOK, RequestsTyped
    <3> HIDE DEF Saves
    <3>2. /\ rest \in Seq(Saves)
          /\ Len(rest) = Len(pendingSaves) - 1
          /\ \A j \in 1 .. Len(rest) :
                /\ j < i => rest[j] = pendingSaves[j] /\ j \in 1 .. Len(pendingSaves)
                /\ j >= i => /\ rest[j] = pendingSaves[j + 1]
                             /\ j + 1 \in 1 .. Len(pendingSaves)
      BY <3>1, RemoveAtTyped
    <3> QED
      BY <1>1, <3>1, <3>2 DEF Saves
  <2>5. \A k, l \in 1 .. Len(pendingSaves) :
           pendingSaves[k].id = pendingSaves[l].id => k = l
    BY DEF RequestsOK, SavesInProgress
  <2>6. ASSUME NEW j \in 1 .. Len(pendingSaves')
        PROVE  pendingSaves'[j].id \in SaveIds /\ pendingSaves'[j].id # id
    <3>1. CASE j < i
      <4>1. j # i /\ pendingSaves'[j] = pendingSaves[j] /\ j \in 1 .. Len(pendingSaves)
        BY <2>4, <3>1
      <4> QED
        BY <1>1, <2>5, <4>1 DEF SaveIds
    <3>2. CASE j >= i
      <4>1. j + 1 # i /\ pendingSaves'[j] = pendingSaves[j + 1]
            /\ j + 1 \in 1 .. Len(pendingSaves)
        BY <2>4, <3>2
      <4> QED
        BY <1>1, <2>5, <4>1 DEF SaveIds
    <3> QED
      BY <2>4, <3>1, <3>2
  <2>7. \A other \in SaveIds' : other \in SaveIds /\ other # id
    BY <2>6 DEF SaveIds
  <2>8. ASSUME NEW k \in 1 .. Len(pendingSaves'), NEW l \in 1 .. Len(pendingSaves'),
               pendingSaves'[k].id = pendingSaves'[l].id
        PROVE  k = l
    <3>1. CASE k < i /\ l < i
      <4>1. /\ pendingSaves'[k] = pendingSaves[k] /\ k \in 1 .. Len(pendingSaves)
            /\ pendingSaves'[l] = pendingSaves[l] /\ l \in 1 .. Len(pendingSaves)
        BY <2>4, <3>1
      <4> QED
        BY <2>5, <2>8, <4>1
    <3>2. CASE k < i /\ l >= i
      <4>1. /\ pendingSaves'[k] = pendingSaves[k] /\ k \in 1 .. Len(pendingSaves)
            /\ pendingSaves'[l] = pendingSaves[l + 1] /\ l + 1 \in 1 .. Len(pendingSaves)
        BY <2>4, <3>2
      <4>2. k = l + 1
        BY <2>5, <2>8, <4>1
      <4> QED
        BY <2>4, <3>2, <4>2
    <3>3. CASE k >= i /\ l < i
      <4>1. /\ pendingSaves'[k] = pendingSaves[k + 1] /\ k + 1 \in 1 .. Len(pendingSaves)
            /\ pendingSaves'[l] = pendingSaves[l] /\ l \in 1 .. Len(pendingSaves)
        BY <2>4, <3>3
      <4>2. k + 1 = l
        BY <2>5, <2>8, <4>1
      <4> QED
        BY <2>4, <3>3, <4>2
    <3>4. CASE k >= i /\ l >= i
      <4>1. /\ pendingSaves'[k] = pendingSaves[k + 1] /\ k + 1 \in 1 .. Len(pendingSaves)
            /\ pendingSaves'[l] = pendingSaves[l + 1] /\ l + 1 \in 1 .. Len(pendingSaves)
        BY <2>4, <3>4
      <4>2. k + 1 = l + 1
        BY <2>5, <2>8, <4>1
      <4> QED
        BY <2>4, <4>2
    <3> QED
      BY <2>4, <3>1, <3>2, <3>3, <3>4
  <2>9. id \notin RunningStarts
    BY <2>1 DEF RequestsOK, SavesInProgress
  <2>10. StartsInProgress'
    BY <2>3, <2>9 DEF RequestsOK, StartsInProgress
  <2>11. SavesInProgress'
    BY <2>3, <2>7, <2>8 DEF RequestsOK, SavesInProgress
  <2>12. RequestsTyped' /\ PendingHasItsContext' /\ ContextHasContent'
    BY <1>1, <2>3, <2>4
    DEF RequestsOK, RequestsTyped, PendingHasItsContext, ContextHasContent
  <2> QED
    BY <2>3, <2>10, <2>11, <2>12 DEF RequestsOK, PolicyMove
<1>2. ASSUME \A i \in 1 .. Len(pendingSaves) : pendingSaves[i].id # id,
             policy' = CancelRequest(policy, id),
             startContext' =
                IF /\ CancelResult(policy, id) = "Accepted"
                   /\ policy'.active # NoOp
                   /\ policy'.active.id # id
                THEN NoContext ELSE startContext,
             UNCHANGED pendingSaves
      PROVE  /\ RequestsOK' /\ PolicyMove(policy, policy', {})
             /\ policy'.pending \in {policy.pending, NoOp}
             /\ policy'.active.id = policy.active.id
             /\ policy'.active.kind = policy.active.kind
             /\ policy'.active.committed = policy.active.committed
             /\ (policy'.active = NoOp) = (policy.active = NoOp)
  <2>1. /\ PolicyMove(policy, policy', {})
        /\ policy'.pending = IF policy.pending.id = id THEN NoOp ELSE policy.pending
        /\ policy'.inProgress = IF policy.pending.id = id THEN policy.inProgress \ {id}
                                ELSE policy.inProgress
        /\ policy'.active.id = policy.active.id
        /\ policy'.active.kind = policy.active.kind
        /\ policy'.active.committed = policy.active.committed
        /\ (policy'.active = NoOp) = (policy.active = NoOp)
    BY <1>2, CancelMove DEF RequestsOK
  <2>2. NoOp.id = 0 /\ 0 \notin Ids
    BY DEF NoOp, Operation, Ids
  <2>3. policy.inProgress \subseteq Ids
    BY SlotFacts DEF RequestsOK
  <2>4. SaveIds' = SaveIds /\ id \notin SaveIds
    BY <1>2 DEF SaveIds
  <2>5. StartsInProgress'
    BY <2>1, <2>2, <2>3 DEF RequestsOK, StartsInProgress
  <2>6. SavesInProgress'
    BY <1>2, <2>1, <2>2, <2>3, <2>4 DEF RequestsOK, SavesInProgress
  <2>7. PendingHasItsContext'
    <3>1. CASE policy.pending.id = id
      BY <2>1, <3>1 DEF PendingHasItsContext
    <3>2. CASE policy.pending.id # id
      <4>1. CancelResult(policy, id) = "Accepted" => policy.active.id = id
        BY <3>2 DEF CancelResult
      <4>2. startContext' = startContext /\ policy'.pending = policy.pending
        BY <1>2, <2>1, <3>2, <4>1
      <4> QED
        BY <4>2 DEF RequestsOK, PendingHasItsContext
    <3> QED
      BY <3>1, <3>2
  <2>8. NoContext \in Contexts
    BY DEF NoContext, Contexts
  <2>9. RequestsTyped' /\ ContextHasContent'
    BY <1>2, <2>8 DEF RequestsOK, RequestsTyped, ContextHasContent
  <2> QED
    BY <2>1, <2>5, <2>6, <2>7, <2>9 DEF RequestsOK, PolicyMove
<1> QED
  BY <1>1, <1>2 DEF CancelEffect

(***************************************************************************)
(* EndSession: the shutdown becomes the active operation.  It never finds  *)
(* one in the slot, where PendingHasItsContext only lets starts wait.      *)
(***************************************************************************)
LEMMA ShutdownKeepsRequests ==
    ASSUME RequestsOK,
           EndingShutdown \/ JoinsShutdown(policy) \/ CanAllocate(policy),
           policy' = IF EndingShutdown THEN policy
                     ELSE DequeuePendingOperation(EnqueueShutdown(policy)),
           UNCHANGED <<pendingSaves, startContext>>, RunningStarts' \subseteq RunningStarts
    PROVE  /\ RequestsOK' /\ PolicyMove(policy, policy', {})
           /\ policy'.pending \in {policy.pending, NoOp}
           /\ policy'.active.kind = "Shutdown"
<1>1. CASE EndingShutdown
  <2>1. UNCHANGED requests
    BY <1>1 DEF requests
  <2> QED
    BY <1>1, <2>1, SameRequests DEF EndingShutdown
<1>2. CASE ~EndingShutdown
  <2>1. ~JoinsShutdown(policy)
    BY DEF RequestsOK, PendingHasItsContext, JoinsShutdown, StartKinds
  <2>2. Good(policy) /\ CanAllocate(policy)
    BY <1>2, <2>1 DEF RequestsOK
  <2>3. /\ PolicyMove(policy, policy', {})
        /\ policy'.active = Operation(policy.next, DefaultDescriptor, "Shutdown")
        /\ policy'.pending = NoOp
        /\ policy'.inProgress = (policy.inProgress \ {policy.pending.id}) \cup {policy.next}
    BY <1>2, <2>1, <2>2, ShutdownMove
  <2>4. /\ policy.next \notin policy.inProgress
        /\ policy.inProgress \subseteq Ids
    BY <2>2, AllocateMove, SlotFacts
  <2>5. /\ policy'.active.id = policy.next /\ policy'.active.kind = "Shutdown"
        /\ policy'.pending.id = 0 /\ 0 \notin Ids
    BY <2>3 DEF Operation, NoOp, Ids
  <2>6. StartsInProgress'
    BY <2>3, <2>4, <2>5 DEF RequestsOK, StartsInProgress
  <2>7. SaveIds' = SaveIds
    BY DEF SaveIds
  <2>8. SavesInProgress'
    BY <2>3, <2>4, <2>5, <2>7 DEF RequestsOK, SavesInProgress
  <2>9. RequestsTyped' /\ PendingHasItsContext' /\ ContextHasContent'
    BY <2>3 DEF RequestsOK, RequestsTyped, PendingHasItsContext, ContextHasContent
  <2> QED
    BY <2>3, <2>5, <2>6, <2>8, <2>9 DEF RequestsOK, PolicyMove
<1> QED
  BY <1>1, <1>2

LEMMA ShutdownEnds ==
    ASSUME RequestsOK,
           policy' = IF SavesFailed.active # NoOp /\ SavesFailed.active.kind = "Shutdown"
                     THEN Record(SavesFailed, SavesFailed.active.id, "Completed")
                     ELSE SavesFailed,
           pendingSaves' = <<>>, UNCHANGED startContext,
           RunningStarts' \subseteq RunningStarts
    PROVE  /\ RequestsOK'
           /\ PolicyMove(policy, policy',
                 {id \in {policy.active.id} : policy.active.kind = "Shutdown"})
           /\ policy'.pending = policy.pending
           /\ policy.active.kind = "Shutdown" => policy'.active = NoOp
<1> DEFINE q == SavesFailed
           done == {id \in {policy.active.id} : policy.active.kind = "Shutdown"}
<1>1. /\ PolicyMove(policy, q, {})
      /\ q.pending = policy.pending
      /\ q.active = policy.active
      /\ q.inProgress = policy.inProgress \ SaveIds
  BY SavesFailedMove
<1> HIDE DEF q
<1>2. \A op \in RunningStarts :
        /\ op \in q.inProgress
        /\ op = policy.active.id => policy.active.kind # "Shutdown"
  BY <1>1 DEF RequestsOK, StartsInProgress, SavesInProgress
<1>3. CASE q.active # NoOp /\ q.active.kind = "Shutdown"
  <2>1. policy' = Record(q, q.active.id, "Completed")
    BY <1>3 DEF q
  <2>2. /\ Good(q) /\ q.active.id \in q.inProgress /\ q.active.id # q.pending.id
        /\ "Completed" \in Outcomes /\ q.active.id \in done
    BY <1>1, <1>3, SlotFacts DEF PolicyMove, Outcomes
  <2> HIDE DEF done
  <2>3. /\ PolicyMove(q, policy', done)
        /\ policy'.pending = q.pending
        /\ policy'.inProgress = q.inProgress \ {q.active.id}
        /\ policy'.active = NoOp
    BY <2>1, <2>2, RecordMove
  <2>4. PolicyMove(policy, policy', {} \cup done)
    BY <1>1, <2>3, MoveTransitive DEF RequestsOK
  <2>5. {} \cup done = done
    OBVIOUS
  <2>6. \A op \in RunningStarts' :
           /\ op \in RunningStarts
           /\ op \in policy'.inProgress
           /\ op = policy'.active.id => policy'.active.kind # "Shutdown"
    BY <1>1, <1>2, <1>3, <2>3 DEF NoOp, Operation
  <2>7. Good(policy') /\ policy'.pending = policy.pending
    BY <1>1, <2>3 DEF PolicyMove
  <2>8. RequestsOK'
    BY <2>6, <2>7, NoSavesLeft
  <2> QED
    BY <2>3, <2>4, <2>5, <2>7, <2>8 DEF done
<1>4. CASE ~(q.active # NoOp /\ q.active.kind = "Shutdown")
  <2>1. policy' = q
    BY <1>4 DEF q
  <2>2. policy.active.kind # "Shutdown"
    BY <1>1, <1>4 DEF NoOp, Operation
  <2>3. \A op \in RunningStarts' :
           /\ op \in RunningStarts
           /\ op \in policy'.inProgress
           /\ op = policy'.active.id => policy'.active.kind # "Shutdown"
    BY <1>1, <1>2, <2>1
  <2>4. Good(policy') /\ policy'.pending = policy.pending
    BY <1>1, <2>1 DEF PolicyMove
  <2>5. RequestsOK'
    BY <2>3, <2>4, NoSavesLeft
  <2>6. PolicyMove(policy, policy', done)
    BY <1>1, <2>1 DEF PolicyMove, CompletesOnly
  <2> QED
    BY <2>2, <2>4, <2>5, <2>6
<1> QED
  BY <1>3, <1>4

LEMMA DequeueKeepsRequests ==
    ASSUME RequestsOK, policy.pending # NoOp,
           policy' = DequeuePendingOperation(policy),
           UNCHANGED pendingSaves, startContext' = NoContext,
           \A op \in RunningStarts' : op = policy.pending.id
    PROVE  /\ RequestsOK' /\ PolicyMove(policy, policy', {})
           /\ policy'.active = policy.pending /\ policy'.pending = NoOp
<1>1. /\ PolicyMove(policy, policy', {})
      /\ policy'.active = policy.pending /\ policy'.pending = NoOp
      /\ policy'.inProgress = policy.inProgress
  BY DequeueMove DEF RequestsOK
<1>2. /\ policy.pending.id \in policy.inProgress /\ policy.inProgress \subseteq Ids
      /\ NoOp.id = 0 /\ 0 \notin Ids
  BY SlotFacts DEF RequestsOK, Ids
<1>3. policy.pending.kind # "Shutdown"
  BY DEF RequestsOK, PendingHasItsContext, StartKinds
<1>4. StartsInProgress'
  BY <1>1, <1>2, <1>3 DEF StartsInProgress
<1>5. SaveIds' = SaveIds
  BY DEF SaveIds
<1>6. SavesInProgress'
  BY <1>1, <1>2, <1>5 DEF RequestsOK, SavesInProgress
<1>7. NoContext \in Contexts
  BY DEF NoContext, Contexts
<1>8. RequestsTyped' /\ PendingHasItsContext' /\ ContextHasContent'
  BY <1>1, <1>7 DEF RequestsOK, RequestsTyped, PendingHasItsContext, ContextHasContent
<1> QED
  BY <1>1, <1>4, <1>6, <1>8 DEF RequestsOK, PolicyMove

LEMMA CommitKeepsRequests ==
    ASSUME RequestsOK, policy' = CommitActive(policy),
           UNCHANGED <<pendingSaves, startContext>>, RunningStarts' \subseteq RunningStarts
    PROVE  /\ RequestsOK' /\ PolicyMove(policy, policy', {})
           /\ policy'.pending = policy.pending
           /\ policy'.active.id = policy.active.id
           /\ (policy'.active = NoOp) = (policy.active = NoOp)
           /\ policy.active # NoOp => policy'.active.committed
<1>1. /\ PolicyMove(policy, policy', {})
      /\ policy'.pending = policy.pending /\ policy'.inProgress = policy.inProgress
      /\ policy'.active.id = policy.active.id /\ policy'.active.kind = policy.active.kind
      /\ (policy'.active = NoOp) = (policy.active = NoOp)
      /\ policy.active # NoOp => policy'.active.committed
  BY CommitMove DEF RequestsOK
<1>2. SaveIds' = SaveIds
  BY DEF SaveIds
<1>3. StartsInProgress' /\ SavesInProgress'
  BY <1>1, <1>2 DEF RequestsOK, StartsInProgress, SavesInProgress
<1>4. RequestsTyped' /\ PendingHasItsContext' /\ ContextHasContent'
  BY <1>1 DEF RequestsOK, RequestsTyped, PendingHasItsContext, ContextHasContent
<1> QED
  BY <1>1, <1>3, <1>4 DEF RequestsOK, PolicyMove

\* One deferred save is taken out and executed.
LEMMA DrainKeepsRequests ==
    ASSUME RequestsOK, pendingSaves # <<>>,
           policy' \in ExecuteSave(policy, Head(pendingSaves).id),
           pendingSaves' = Tail(pendingSaves),
           UNCHANGED startContext, RunningStarts' \subseteq RunningStarts
    PROVE  /\ RequestsOK'
           /\ PolicyMove(policy, policy',
                 {id \in {Head(pendingSaves).id} : ready /\ vm # 0})
           /\ policy'.active = policy.active /\ policy'.pending = policy.pending
<1> DEFINE id == Head(pendingSaves).id
           done == {i \in {id} : ready /\ vm # 0}
<1>1. PICK outcome \in {"Completed", "Failed"} :
         /\ policy' = Record(policy, id, outcome)
         /\ outcome = "Completed" => ready /\ vm # 0
  BY SaveOutcome
<1>2. /\ pendingSaves \in Seq([id : Ids, gen : Nat])
      /\ Len(pendingSaves) \in Nat \ {0}
      /\ id = pendingSaves[1].id /\ 1 \in 1 .. Len(pendingSaves)
      /\ pendingSaves' \in Seq([id : Ids, gen : Nat])
      /\ Len(pendingSaves') = Len(pendingSaves) - 1
      /\ \A k \in 1 .. Len(pendingSaves') :
            pendingSaves'[k] = pendingSaves[k + 1] /\ k + 1 \in 1 .. Len(pendingSaves)
  BY DEF RequestsOK, RequestsTyped
<1>3. id \in SaveIds
  BY <1>2 DEF SaveIds
<1>4. /\ Good(policy) /\ id \in policy.inProgress
      /\ id # policy.pending.id /\ id # policy.active.id /\ id \notin RunningStarts
      /\ outcome \in Outcomes
      /\ outcome = "Completed" => id \in done
  BY <1>1, <1>3 DEF RequestsOK, SavesInProgress, Outcomes
<1> HIDE DEF id, done
<1>5. /\ PolicyMove(policy, policy', done)
      /\ policy'.pending = policy.pending /\ policy'.active = policy.active
      /\ policy'.inProgress = policy.inProgress \ {id}
  BY <1>1, <1>4, RecordMove
<1>6. \A k, l \in 1 .. Len(pendingSaves) :
         pendingSaves[k].id = pendingSaves[l].id => k = l
  BY DEF RequestsOK, SavesInProgress
<1>7. ASSUME NEW k \in 1 .. Len(pendingSaves')
      PROVE  pendingSaves'[k].id \in SaveIds \ {id}
  <2>1. k + 1 # 1 /\ k + 1 \in 1 .. Len(pendingSaves) /\ pendingSaves'[k] = pendingSaves[k + 1]
    BY <1>2
  <2> QED
    BY <1>2, <1>6, <2>1 DEF SaveIds
<1>8. ASSUME NEW k \in 1 .. Len(pendingSaves'), NEW l \in 1 .. Len(pendingSaves'),
             pendingSaves'[k].id = pendingSaves'[l].id
      PROVE  k = l
  <2>1. k + 1 = l + 1
    BY <1>2, <1>6, <1>8
  <2> QED
    BY <1>2, <2>1
<1>9. StartsInProgress'
  BY <1>4, <1>5 DEF RequestsOK, StartsInProgress
<1>10. SavesInProgress'
  <2>1. \A i \in SaveIds' : i \in SaveIds \ {id}
    BY <1>7 DEF SaveIds
  <2> QED
    BY <1>5, <1>8, <2>1 DEF RequestsOK, SavesInProgress
<1>11. RequestsTyped' /\ PendingHasItsContext' /\ ContextHasContent'
  BY <1>2, <1>5 DEF RequestsOK, RequestsTyped, PendingHasItsContext, ContextHasContent
<1> QED
  BY <1>5, <1>9, <1>10, <1>11 DEF RequestsOK, PolicyMove, id, done

-----------------------------------------------------------------------------
(***************************************************************************)
(* The types of the session's state.                                       *)
(***************************************************************************)
StateTyped ==
    /\ app \in AppStates /\ session \in SessionStates /\ ready \in BOOLEAN
    /\ generation \in Nat /\ repoVersion \in Contents \cup {NoContent}
    /\ vm \in Nat
    /\ registry \in [gen : Nat, rev : Nat]
    /\ queue \in Seq([gen : Nat, rev : Nat, seq : Nat])
    /\ uiRevision \in Nat /\ nextSequence \in Nat
    /\ {pinned, snapshot, activePackages} \subseteq Contents \cup {NoContent}
    /\ transitionKind \in Kinds

LEMMA EnqueueLoadKeeps ==
    ASSUME RequestsOK, StateTyped, EnqueueLoad, UNCHANGED pendingSaves,
           RunningStarts' \subseteq RunningStarts
    PROVE  /\ RequestsOK' /\ PolicyMove(policy, policy', {})
           /\ policy'.active = policy.active
           /\ policy'.pending.committed => policy.pending.committed
           /\ startContext' \in {startContext, LoadContext}
<1>1. CASE LoadContext # NoContext
  <2> DEFINE d == [mode |-> "LoadSave", key |-> LoadContext.repo]
  <2>1. EnqueueStart(d, LoadContext)
    BY <1>1 DEF EnqueueLoad
  <2>2. LoadContext \in Contexts /\ LoadContext.repo \in Contents
    BY <1>1
    DEF LoadContext, StateTyped, Contexts, RequestsOK, RequestsTyped, ContextHasContent
  <2>3. d \in Descriptors /\ LoadContext.repo = d.key
    BY <2>2, CoordinatorAssumption
  <2> HIDE DEF d
  <2> QED
    BY <2>1, <2>2, <2>3, EnqueueStartKeeps
<1>2. CASE LoadContext = NoContext
  <2>1. /\ CanAllocate(policy)
        /\ policy' = Record(AllocateOperationId(policy), policy.next, "Failed")
        /\ UNCHANGED startContext
    BY <1>2 DEF EnqueueLoad
  <2>2. "Failed" \in Outcomes
    BY DEF Outcomes
  <2>3. /\ RequestsOK' /\ PolicyMove(policy, policy', {policy.next})
        /\ policy'.active = policy.active /\ policy'.pending = policy.pending
    BY <2>1, <2>2, AllocateAndEnd
  <2>4. PolicyMove(policy, policy', {})
    <3> DEFINE q == AllocateOperationId(policy)
    <3>1. /\ PolicyMove(policy, q, {})
          /\ q.pending = policy.pending
          /\ q.inProgress = policy.inProgress \cup {policy.next}
          /\ policy.next \notin policy.inProgress \cup {policy.pending.id, policy.active.id}
      BY <2>1, AllocateMove DEF RequestsOK
    <3>2. /\ Good(q) /\ policy.next \in q.inProgress /\ policy.next # q.pending.id
          /\ "Failed" # "Completed"
      BY <3>1 DEF PolicyMove
    <3> HIDE DEF q
    <3>3. PolicyMove(q, policy', {})
      BY <2>1, <2>2, <3>2, RecordMove DEF q
    <3>4. PolicyMove(policy, policy', {} \cup {})
      BY <3>1, <3>3, MoveTransitive DEF RequestsOK
    <3> QED
      BY <3>4
  <2> QED
    BY <2>1, <2>3, <2>4
<1> QED
  BY <1>1, <1>2

-----------------------------------------------------------------------------
(***************************************************************************)
(* Every step keeps the requests in order.  A step may complete a new      *)
(* operation, the save it runs in a live Ready session, the shutdown, or   *)
(* the start whose effects were played; nothing else.                      *)
(***************************************************************************)
ClientInv == StackOK /\ StateTyped /\ RequestsOK

StartCompletes ==
    /\ At("Process", "PublishSink") \/ At("Process", "EffectSink")
    /\ UNCHANGED <<status, vm>>

MayComplete(id) ==
    \/ id \notin policy.inProgress
    \/ id \notin RunningStarts /\ (id \in SaveIds => ready /\ vm # 0)
    \/ StartCompletes /\ id \notin SaveIds

ClientStep ==
    /\ ClientInv'
    /\ \E S : PolicyMove(policy, policy', S) /\ \A id \in S : MayComplete(id)

LEMMA TryTyped ==
    ASSUME NEW s \in SessionStates, NEW t \in SessionStates, NEW kind,
           NEW a \in AppStates, NEW b \in AppStates
    PROVE  TrySession(s, t, kind) \in SessionStates /\ TryApp(a, b) \in AppStates
BY DEF TrySession, TryApp

\* What closing the input leaves is well typed, and so is what it does not touch.
LEMMA ClosedTyped ==
    /\ NoRegistry \in [gen : Nat, rev : Nat]
    /\ <<>> \in Seq([gen : Nat, rev : Nat, seq : Nat])
<1>1. NoRegistry \in [gen : Nat, rev : Nat]
  BY DEF NoRegistry
<1>2. <<>> \in Seq([gen : Nat, rev : Nat, seq : Nat])
  OBVIOUS
<1> QED
  BY <1>1, <1>2

LEMMA FailTyped ==
    ASSUME StateTyped, NEW recorded, FailRuntime(recorded)
    PROVE  StateTyped'
<1>1. {"Stopping", "Failed"} \subseteq SessionStates /\ "Failed" \in AppStates
  BY DEF SessionStates, AppStates
<1>2. session \in SessionStates /\ app \in AppStates
  BY DEF StateTyped
<1> DEFINE stopped == IF vm # 0 THEN TrySession(session, "Stopping", transitionKind)
                      ELSE session
<1>3. stopped \in SessionStates
  BY <1>1, <1>2, TryTyped
<1>4. session' = TrySession(stopped, "Failed", transitionKind)
  BY DEF FailRuntime
<1> HIDE DEF stopped
<1>5. session' \in SessionStates /\ app' \in AppStates
  BY <1>1, <1>2, <1>3, <1>4, TryTyped DEF FailRuntime
<1>6. registry' = NoRegistry /\ queue' = <<>> /\ vm' = 0
  BY DEF FailRuntime, CloseInput, StopVm
<1>7. /\ ready' = FALSE /\ pinned' = NoContent /\ snapshot' = NoContent
      /\ repoVersion' = NoContent /\ nextSequence' = 1 /\ uiRevision' = 0
      /\ UNCHANGED <<generation, activePackages, transitionKind>>
  BY DEF FailRuntime
<1>8. /\ registry' \in [gen : Nat, rev : Nat]
      /\ queue' \in Seq([gen : Nat, rev : Nat, seq : Nat])
  BY <1>6, ClosedTyped
<1>9. /\ ready' \in BOOLEAN /\ generation' \in Nat /\ vm' \in Nat
      /\ uiRevision' \in Nat /\ nextSequence' \in Nat /\ transitionKind' \in Kinds
  BY <1>6, <1>7 DEF StateTyped
<1>10. /\ repoVersion' \in Contents \cup {NoContent}
       /\ {pinned', snapshot', activePackages'} \subseteq Contents \cup {NoContent}
  BY <1>7 DEF StateTyped
<1> QED
  BY <1>5, <1>8, <1>9, <1>10 DEF StateTyped

\* The start at the top of the stack is one of the running starts.
LEMMA RunningTop ==
    ASSUME StackOK, stack # <<>>, Top.proc = "Process", Top.pc # "Next"
    PROVE  Top.op \in RunningStarts
BY TopTyped DEF RunningStarts, Top

\* Between two transitions ProcessNextTransition runs no start.
LEMMA NoneRunning ==
    ASSUME StackOK, At("Process", "Next")
    PROVE  RunningStarts = {}
<1>1. Len(stack) \in 1 .. Len(stack)
  BY TopTyped DEF At
<1> SUFFICES ASSUME NEW i \in 1 .. Len(stack),
                    stack[i].proc = "Process", stack[i].pc # "Next"
             PROVE  FALSE
  BY DEF RunningStarts
<1>2. i = Len(stack)
  BY <1>1 DEF StackOK, OneProcess, At, Top
<1> QED
  BY <1>2 DEF At, Top

LEMMA SinksArePcs ==
    /\ Sinks \subseteq Pcs
    /\ {"Next", "Preflight", "Phases", "Loop", "Saves"} \subseteq Pcs
    /\ "Next" \notin Sinks /\ "Loop" \notin Sinks
    /\ {"ReplaceSink", "DocumentSink", "PublishSink", "EffectSink", "EndSink",
        "PumpDocumentSink", "InteractionSink", "PumpEffectSink"} = Sinks
BY DEF Sinks, Pcs

\* A step that leaves the requests alone.
LEMMA PlainStep ==
    ASSUME ClientInv, StateTyped', StackOK', UNCHANGED requests,
           RunningStarts' \subseteq RunningStarts
    PROVE  ClientStep
<1>1. RequestsOK' /\ PolicyMove(policy, policy', {})
  BY SameRequests DEF ClientInv
<1> QED
  BY <1>1 DEF ClientInv, ClientStep

LEMMA NothingTyped ==
    ASSUME StateTyped, UNCHANGED <<status, vm, ui, contents, transitionKind>>
    PROVE  StateTyped'
BY DEF StateTyped, status, ui, contents

LEMMA StutterStep ==
    ASSUME ClientInv, UNCHANGED vars
    PROVE  ClientStep
<1>1. /\ UNCHANGED <<status, vm, ui, contents, transitionKind>>
      /\ UNCHANGED requests /\ UNCHANGED stack
  BY DEF vars
<1>2. StateTyped' /\ StackOK' /\ RunningStarts' = RunningStarts
  BY <1>1, NothingTyped DEF ClientInv, StackOK, OneProcess, RunningStarts
<1> QED
  BY <1>1, <1>2, PlainStep

(***************************************************************************)
(* The steps of the pump.                                                  *)
(***************************************************************************)
LEMMA PumpPlainSteps ==
    ASSUME ClientInv, PlayEffects \/ NoEffects \/ SavesDrained
    PROVE  ClientStep
<1>1. /\ UNCHANGED <<status, vm, ui, contents, requests, transitionKind>>
      /\ stack # <<>> /\ Top.proc = "Pump"
      /\ \E pc \in {"PumpEffectSink", "Saves", "Loop"} : stack' = Goto(pc)
  BY DEF PlayEffects, NoEffects, SavesDrained, At
<1>2. PICK pc \in Pcs : stack' = Goto(pc)
  BY <1>1, SinksArePcs
<1>3. Top.proc = "Process" => Top.pc # "Next"
  BY <1>1
<1>4. StackOK' /\ RunningStarts' \subseteq RunningStarts
  BY <1>1, <1>2, <1>3, GotoTyped DEF ClientInv
<1>5. StateTyped'
  BY <1>1, NothingTyped DEF ClientInv
<1> QED
  BY <1>1, <1>4, <1>5, PlainStep

LEMMA PumpDoneStep ==
    ASSUME ClientInv, PumpDone
    PROVE  ClientStep
<1>1. /\ UNCHANGED <<status, vm, ui, contents, requests, transitionKind>>
      /\ stack # <<>>
      /\ \/ stack' = Pop
         \/ ~Processing /\ stack' = Append(Pop, Frame("Process", "Next"))
  BY DEF PumpDone, At
<1>2. StackOK' /\ RunningStarts' \subseteq RunningStarts
  BY <1>1, PopKeeps, PopPushKeeps DEF ClientInv
<1>3. StateTyped'
  BY <1>1, NothingTyped DEF ClientInv
<1> QED
  BY <1>1, <1>2, <1>3, PlainStep

LEMMA PumpFailSteps ==
    ASSUME ClientInv, DispatchFails \/ EffectsFail
    PROVE  ClientStep
<1>1. FailRuntime(SavesFailed) /\ stack # <<>> /\ stack' = Pop
  BY DEF DispatchFails, EffectsFail, At
<1>2. StackOK' /\ RunningStarts' \subseteq RunningStarts
  BY <1>1, PopKeeps DEF ClientInv
<1>3. RequestsOK' /\ PolicyMove(policy, policy', {})
  BY <1>1, <1>2, FailKeepsRequests DEF ClientInv
<1>4. StateTyped'
  BY <1>1, FailTyped DEF ClientInv
<1> QED
  BY <1>2, <1>3, <1>4 DEF ClientInv, ClientStep

\* PrepareDocumentRequest only ever raises the revision.
LEMMA CandidateRises ==
    ASSUME uiRevision \in Nat, NEW revision \in Nat
    PROVE  /\ CandidateRevision(revision) \in Nat
           /\ CandidateRevision(revision) > uiRevision
BY DEF CandidateRevision

LEMMA DispatchStep ==
    ASSUME ClientInv, NEW request \in ControlRequests,
           NEW document \in DocRevisions \cup {NoDocument}, Dispatch(request, document)
    PROVE  ClientStep
<1>1. /\ stack # <<>> /\ Top.proc = "Pump"
      /\ queue # <<>> /\ queue' = Tail(queue)
      /\ UNCHANGED <<status, vm, registry, uiRevision, nextSequence, contents,
                     transitionKind>>
  BY DEF Dispatch, At
<1>2. StateTyped'
  <2>1. queue' \in Seq([gen : Nat, rev : Nat, seq : Nat])
    BY <1>1 DEF ClientInv, StateTyped
  <2> QED
    BY <1>1, <2>1 DEF ClientInv, StateTyped, status, contents
<1>3. StackOK' /\ RunningStarts' \subseteq RunningStarts
  <2>1. document \in Nat /\ uiRevision \in Nat
    BY CoordinatorAssumption DEF NoDocument, ClientInv, StateTyped
  <2>2. CandidateRevision(document) \in Nat
    BY <2>1, CandidateRises
  <2>3. "PumpDocumentSink" \in Pcs /\ "InteractionSink" \in Pcs
    BY SinksArePcs
  <2>4. CASE stack' = Goto("InteractionSink")
    BY <1>1, <2>3, <2>4, GotoTyped DEF ClientInv
  <2>5. CASE stack' = [Goto("PumpDocumentSink")
                         EXCEPT ![Len(stack)].rev = CandidateRevision(document)]
    BY <1>1, <2>2, <2>3, <2>5, GotoRevTyped DEF ClientInv
  <2> QED
    BY <2>4, <2>5 DEF Dispatch
<1>4. CASE request = "none"
  <2>1. UNCHANGED requests
    BY <1>4 DEF Dispatch
  <2> QED
    BY <1>2, <1>3, <2>1, PlainStep
<1>5. CASE request = "save"
  <2>1. EnqueueSave(TRUE) /\ UNCHANGED startContext /\ generation \in Nat
    BY <1>5 DEF Dispatch, ClientInv, StateTyped
  <2>2. /\ RequestsOK' /\ PolicyMove(policy, policy', {policy.next})
        /\ policy.next \notin policy.inProgress
    BY <1>3, <2>1, EnqueueSaveKeeps DEF ClientInv
  <2> QED
    BY <1>2, <1>3, <2>2 DEF ClientInv, ClientStep, MayComplete
<1>6. CASE request = "load"
  <2>1. EnqueueLoad /\ UNCHANGED pendingSaves
    BY <1>6 DEF Dispatch
  <2>2. RequestsOK' /\ PolicyMove(policy, policy', {})
    BY <1>3, <2>1, EnqueueLoadKeeps DEF ClientInv
  <2> QED
    BY <1>2, <1>3, <2>2 DEF ClientInv, ClientStep
<1> QED
  BY <1>4, <1>5, <1>6 DEF ControlRequests

LEMMA ApplyDocumentStep ==
    ASSUME ClientInv, NEW applied \in BOOLEAN, ApplyDocument(applied)
    PROVE  ClientStep
<1>1. /\ stack # <<>> /\ Top.proc = "Pump" /\ stack' = Goto("InteractionSink")
      /\ UNCHANGED <<status, vm, queue, nextSequence, contents, requests,
                     transitionKind>>
      /\ \/ registry' = CommitBindings(Top.rev) /\ uiRevision' = Top.rev
         \/ UNCHANGED <<registry, uiRevision>>
  BY DEF ApplyDocument, At
<1>2. Top.rev \in Nat
  BY <1>1, TopTyped DEF ClientInv, Frames
<1>3. "InteractionSink" \in Pcs
  BY SinksArePcs
<1>4. StackOK' /\ RunningStarts' \subseteq RunningStarts
  BY <1>1, <1>3, GotoTyped DEF ClientInv
<1>5. registry' \in [gen : Nat, rev : Nat] /\ uiRevision' \in Nat
  BY <1>1, <1>2 DEF ClientInv, StateTyped, CommitBindings
<1>6. StateTyped'
  BY <1>1, <1>5 DEF ClientInv, StateTyped, status, contents
<1> QED
  BY <1>1, <1>4, <1>6, PlainStep

LEMMA DrainSaveStep ==
    ASSUME ClientInv, DrainSave
    PROVE  ClientStep
<1>1. /\ pendingSaves # <<>>
      /\ policy' \in ExecuteSave(policy, Head(pendingSaves).id)
      /\ pendingSaves' = Tail(pendingSaves)
      /\ UNCHANGED <<status, vm, ui, contents, startContext, transitionKind, stack>>
  BY DEF DrainSave
<1>2. StateTyped' /\ StackOK' /\ RunningStarts' = RunningStarts
  BY <1>1, NothingTyped DEF ClientInv, StackOK, OneProcess, RunningStarts
<1>3. /\ RequestsOK'
      /\ PolicyMove(policy, policy', {id \in {Head(pendingSaves).id} : ready /\ vm # 0})
  BY <1>1, <1>2, DrainKeepsRequests DEF ClientInv
<1>4. Head(pendingSaves).id \in SaveIds
  <2>1. pendingSaves \in Seq([id : Ids, gen : Nat])
    BY DEF ClientInv, RequestsOK, RequestsTyped
  <2>2. 1 \in 1 .. Len(pendingSaves) /\ Head(pendingSaves) = pendingSaves[1]
    BY <1>1, <2>1
  <2> QED
    BY <2>2 DEF SaveIds
<1>5. Head(pendingSaves).id \notin RunningStarts
  BY <1>4 DEF ClientInv, RequestsOK, SavesInProgress
<1>6. \A id \in {i \in {Head(pendingSaves).id} : ready /\ vm # 0} : MayComplete(id)
  BY <1>5 DEF MayComplete
<1> QED
  BY <1>2, <1>3, <1>6 DEF ClientInv, ClientStep

LEMMA PumpKeeps ==
    ASSUME ClientInv, PumpStep
    PROVE  ClientStep
BY PumpPlainSteps, PumpDoneStep, PumpFailSteps, DispatchStep, ApplyDocumentStep,
   DrainSaveStep
DEF PumpStep

(***************************************************************************)
(* The steps of a start.                                                   *)
(***************************************************************************)
LEMMA ProcessDoneStep ==
    ASSUME ClientInv, ProcessDone
    PROVE  ClientStep
<1>1. /\ UNCHANGED <<status, vm, ui, contents, requests, transitionKind>>
      /\ stack # <<>> /\ stack' = Pop
  BY DEF ProcessDone, At
<1>2. StackOK' /\ RunningStarts' \subseteq RunningStarts
  BY <1>1, PopKeeps DEF ClientInv
<1>3. StateTyped'
  BY <1>1, NothingTyped DEF ClientInv
<1> QED
  BY <1>1, <1>2, <1>3, PlainStep

\* The frame of the start that is taken out of the slot.
TakenFrame ==
    [Frame("Process", "Preflight") EXCEPT
        !.op = policy.pending.id, !.kind = policy.pending.kind,
        !.context = startContext, !.hadPrior = ready]

LEMMA DequeueEffect ==
    ASSUME ClientInv, DequeueStart
    PROVE  /\ stack # <<>> /\ policy.pending # NoOp
           /\ startContext # NoContext /\ startContext' = NoContext
           /\ policy' = DequeuePendingOperation(policy)
           /\ transitionKind' = policy.pending.kind
           /\ stack' = [stack EXCEPT ![Len(stack)] = TakenFrame]
           /\ StackOK' /\ Len(stack') = Len(stack) /\ Top' = TakenFrame
           /\ \A i \in 1 .. Len(stack) - 1 : stack'[i] = stack[i]
           /\ \A op \in RunningStarts' : op = policy.pending.id
           /\ UNCHANGED <<status, vm, ui, contents, pendingSaves>>
<1>1. /\ At("Process", "Next") /\ policy.pending # NoOp /\ startContext' = NoContext
      /\ UNCHANGED <<status, vm, ui, contents, pendingSaves>>
  BY DEF DequeueStart
<1>2. startContext # NoContext /\ policy.pending.kind \in StartKinds
  BY <1>1 DEF ClientInv, RequestsOK, PendingHasItsContext
<1>3. /\ policy' = DequeuePendingOperation(policy)
      /\ transitionKind' = policy.pending.kind
      /\ stack' = [stack EXCEPT ![Len(stack)] = TakenFrame]
  BY <1>2 DEF DequeueStart, TakenFrame
<1>4. /\ TakenFrame \in Frames
      /\ TakenFrame.proc = "Process" /\ TakenFrame.op = policy.pending.id
  <2>1. policy.pending.id \in 0 .. MaxOps
    BY SlotFacts DEF ClientInv, RequestsOK, Operations
  <2>2. startContext \in Contexts /\ ready \in BOOLEAN
    BY DEF ClientInv, RequestsOK, RequestsTyped, StateTyped
  <2>3. Frame("Process", "Preflight") \in Frames
        /\ Frame("Process", "Preflight").proc = "Process"
    BY FrameTyped, SinksArePcs DEF Procs
  <2> QED
    BY <1>2, <2>1, <2>2, <2>3 DEF TakenFrame, Frames
<1>5. stack # <<>> /\ Top.proc = "Process"
  BY <1>1 DEF At
<1>6. RunningStarts = {}
  BY <1>1, NoneRunning DEF ClientInv
<1>7. /\ StackOK' /\ Len(stack') = Len(stack) /\ Top' = TakenFrame
      /\ \A i \in 1 .. Len(stack) - 1 : stack'[i] = stack[i]
      /\ \A op \in RunningStarts' : op \in RunningStarts \/ op = TakenFrame.op
  BY <1>3, <1>4, <1>5, SetTop DEF ClientInv
<1> QED
  BY <1>1, <1>2, <1>3, <1>4, <1>5, <1>6, <1>7

LEMMA DequeueStartStep ==
    ASSUME ClientInv, DequeueStart
    PROVE  ClientStep
<1>1. /\ policy.pending # NoOp
      /\ policy' = DequeuePendingOperation(policy)
      /\ UNCHANGED pendingSaves /\ startContext' = NoContext
      /\ \A op \in RunningStarts' : op = policy.pending.id
      /\ StackOK'
      /\ transitionKind' = policy.pending.kind
      /\ UNCHANGED <<status, vm, ui, contents>>
  BY DequeueEffect
<1>2. RequestsOK' /\ PolicyMove(policy, policy', {})
  BY <1>1, DequeueKeepsRequests DEF ClientInv
<1>3. policy.pending.kind \in Kinds
  BY SlotFacts DEF ClientInv, RequestsOK, Operations
<1>4. StateTyped'
  BY <1>1, <1>3 DEF ClientInv, StateTyped, status, ui, contents
<1> QED
  BY <1>1, <1>2, <1>4 DEF ClientInv, ClientStep

\* A start ends with an outcome other than Completed.
LEMMA StartFails ==
    ASSUME ClientInv, stack # <<>>, Top.proc = "Process", Top.pc # "Next",
           NEW outcome \in Outcomes \ {"Completed"},
           policy' = Record(policy, Top.op, outcome), stack' = Goto("Next"),
           UNCHANGED <<pendingSaves, startContext>>, StateTyped'
    PROVE  ClientStep
<1>1. Top.op \in RunningStarts
  BY RunningTop DEF ClientInv
<1>2. "Next" \in Pcs
  BY SinksArePcs
<1>3. StackOK' /\ RunningStarts' = {}
  BY <1>2, GotoTyped DEF ClientInv
<1>4. RequestsOK' /\ PolicyMove(policy, policy', {})
  BY <1>1, <1>3, StartEnds DEF ClientInv
<1> QED
  BY <1>3, <1>4 DEF ClientInv, ClientStep

LEMMA AbortPreflightStep ==
    ASSUME ClientInv, AbortPreflight
    PROVE  ClientStep
<1>1. /\ stack # <<>> /\ Top.proc = "Process" /\ Top.pc # "Next"
      /\ stack' = Goto("Next")
      /\ UNCHANGED <<generation, repoVersion, vm, ui, contents, pendingSaves,
                     startContext, transitionKind>>
  BY DEF AbortPreflight, At
<1>2. PICK outcome \in {"Cancelled", "Failed"} : policy' = Record(policy, Top.op, outcome)
  BY DEF AbortPreflight
<1>3. outcome \in Outcomes \ {"Completed"}
  BY DEF Outcomes
<1>4. StateTyped'
  <2>1. session \in SessionStates /\ app \in AppStates /\ ready \in BOOLEAN
    BY DEF ClientInv, StateTyped
  <2>2. "Failed" \in SessionStates /\ "Failed" \in AppStates
    BY DEF SessionStates, AppStates
  <2>3. /\ TrySession(session, "Failed", transitionKind) \in SessionStates
        /\ TryApp(app, "Failed") \in AppStates
    BY <2>1, <2>2, TryTyped
  <2>4. session' \in SessionStates /\ app' \in AppStates /\ ready' \in BOOLEAN
    BY <2>1, <2>3 DEF AbortPreflight
  <2> QED
    BY <1>1, <2>4 DEF ClientInv, StateTyped, ui, contents
<1> QED
  BY <1>1, <1>2, <1>3, <1>4, StartFails

LEMMA AbandonStartStep ==
    ASSUME ClientInv, stack # <<>>, Top.proc = "Process", Top.pc # "Next",
           NEW outcome \in Outcomes \ {"Completed"}, AbandonStart(outcome)
    PROVE  ClientStep
<1>1. /\ policy' = Record(policy, Top.op, outcome) /\ stack' = Goto("Next")
      /\ vm' = 0
      /\ UNCHANGED <<ready, generation, repoVersion, ui, contents,
                     pendingSaves, startContext, transitionKind>>
  BY DEF AbandonStart, StopVm
<1>2. session' \in SessionStates /\ app' \in AppStates
  <2>1. session \in SessionStates /\ app \in AppStates
    BY DEF ClientInv, StateTyped
  <2>2. /\ {"Stopping", "Failed"} \subseteq SessionStates /\ "Failed" \in AppStates
    BY DEF SessionStates, AppStates
  <2> DEFINE stopped == TrySession(session, "Stopping", Top.kind)
  <2>3. stopped \in SessionStates
    BY <2>1, <2>2, TryTyped
  <2>4. session' = TrySession(stopped, "Failed", Top.kind) /\ app' = TryApp(app, "Failed")
    BY DEF AbandonStart
  <2> HIDE DEF stopped
  <2> QED
    BY <2>1, <2>2, <2>3, <2>4, TryTyped
<1>3. StateTyped'
  BY <1>1, <1>2 DEF ClientInv, StateTyped, ui, contents
<1> QED
  BY <1>1, <1>3, StartFails

LEMMA AbandonSteps ==
    ASSUME ClientInv, AbortPhases \/ AbortPresentation
    PROVE  ClientStep
<1>1. /\ stack # <<>> /\ Top.proc = "Process" /\ Top.pc # "Next"
      /\ \E outcome \in {"Cancelled", "Failed"} : AbandonStart(outcome)
  BY DEF AbortPhases, AbortPresentation, At
<1>2. {"Cancelled", "Failed"} \subseteq Outcomes \ {"Completed"}
  BY DEF Outcomes
<1> QED
  BY <1>1, <1>2, AbandonStartStep

LEMMA BeginReplaceStep ==
    ASSUME ClientInv, BeginReplace
    PROVE  ClientStep
<1>1. /\ stack # <<>> /\ Top.proc = "Process" /\ Top.pc # "Next"
      /\ stack' = Goto("ReplaceSink")
      /\ registry' = NoRegistry /\ queue' = <<>> /\ snapshot' = NoContent /\ vm' = 0
      /\ UNCHANGED <<status, uiRevision, nextSequence, pinned,
                     activePackages, requests, transitionKind>>
  BY DEF BeginReplace, At, CloseInput, StopVm
<1>2. "ReplaceSink" \in Pcs
  BY SinksArePcs
<1>3. StackOK' /\ RunningStarts' \subseteq RunningStarts
  BY <1>1, <1>2, GotoTyped DEF ClientInv
<1>4. StateTyped'
  BY <1>1 DEF ClientInv, StateTyped, NoRegistry, status
<1> QED
  BY <1>1, <1>3, <1>4, PlainStep

LEMMA FinishReplaceStep ==
    ASSUME ClientInv, FinishReplace
    PROVE  ClientStep
<1>1. /\ stack # <<>> /\ Top.proc = "Process" /\ Top.pc # "Next"
      /\ stack' = Goto("Phases")
      /\ generation' = generation + 1 /\ vm' = generation + 1
      /\ app' = TryApp(app, "Bootstrapping")
      /\ session' = TrySession(session, "Creating", Top.kind)
      /\ ready' = FALSE /\ nextSequence' = 1 /\ uiRevision' = 0
      /\ repoVersion' = Top.context.version /\ pinned' = Top.context.repo
      /\ registry' = BeginBindings(generation + 1)
      /\ policy' = CommitActive(policy)
      /\ UNCHANGED <<queue, snapshot, activePackages, pendingSaves, startContext,
                     transitionKind>>
  BY DEF FinishReplace, At
<1>2. Top.context \in Contexts
  BY <1>1, TopTyped DEF ClientInv, Frames
<1>3. session' \in SessionStates /\ app' \in AppStates
  <2>1. session \in SessionStates /\ app \in AppStates
    BY DEF ClientInv, StateTyped
  <2>2. "Creating" \in SessionStates /\ "Bootstrapping" \in AppStates
    BY DEF SessionStates, AppStates
  <2> QED
    BY <1>1, <2>1, <2>2, TryTyped
<1>4. /\ repoVersion' \in Contents \cup {NoContent}
      /\ {pinned', snapshot', activePackages'} \subseteq Contents \cup {NoContent}
  BY <1>1, <1>2 DEF Contexts, ClientInv, StateTyped
<1>5. StateTyped'
  <2>1. generation' \in Nat /\ vm' \in Nat
    BY <1>1 DEF ClientInv, StateTyped
  <2>2. registry' \in [gen : Nat, rev : Nat]
    BY <1>1, <2>1 DEF BeginBindings
  <2> QED
    BY <1>1, <1>3, <1>4, <2>1, <2>2 DEF ClientInv, StateTyped
<1>6. "Phases" \in Pcs
  BY SinksArePcs
<1>7. StackOK' /\ RunningStarts' \subseteq RunningStarts
  BY <1>1, <1>6, GotoTyped DEF ClientInv
<1>8. RequestsOK' /\ PolicyMove(policy, policy', {})
  BY <1>1, <1>7, CommitKeepsRequests DEF ClientInv
<1> QED
  BY <1>5, <1>7, <1>8 DEF ClientInv, ClientStep

LEMMA CompletePhaseStep ==
    ASSUME ClientInv, CompletePhase
    PROVE  ClientStep
<1>1. /\ session \in DOMAIN NextPhase
      /\ session' = TrySession(session, NextPhase[session], Top.kind)
      /\ UNCHANGED <<app, ready, generation, repoVersion, vm, ui, contents,
                     requests, transitionKind, stack>>
  BY DEF CompletePhase
<1>2. session' \in SessionStates
  <2>1. NextPhase[session] \in SessionStates
    BY <1>1 DEF NextPhase, SessionStates
  <2>2. session \in SessionStates /\ app \in AppStates
    BY DEF ClientInv, StateTyped
  <2> QED
    BY <1>1, <2>1, <2>2, TryTyped
<1>3. StateTyped'
  BY <1>1, <1>2 DEF ClientInv, StateTyped, ui, contents
<1>4. StackOK' /\ RunningStarts' = RunningStarts
  BY <1>1 DEF ClientInv, StackOK, OneProcess, RunningStarts
<1> QED
  BY <1>1, <1>3, <1>4, PlainStep

LEMMA PrepareInitialDocumentStep ==
    ASSUME ClientInv, NEW revision \in DocRevisions, PrepareInitialDocument(revision)
    PROVE  ClientStep
<1>1. /\ stack # <<>> /\ Top.proc = "Process" /\ Top.pc # "Next"
      /\ session' = TrySession(session, "PreparingPresentation", Top.kind)
      /\ stack' = [Goto("DocumentSink")
                      EXCEPT ![Len(stack)].rev = CandidateRevision(revision)]
      /\ UNCHANGED <<app, ready, generation, repoVersion, vm, ui, contents, requests,
                     transitionKind>>
  BY DEF PrepareInitialDocument, At
<1>2. session' \in SessionStates
  <2>1. session \in SessionStates /\ app \in AppStates
    BY DEF ClientInv, StateTyped
  <2>2. "PreparingPresentation" \in SessionStates
    BY DEF SessionStates
  <2> QED
    BY <1>1, <2>1, <2>2, TryTyped
<1>3. StateTyped'
  BY <1>1, <1>2 DEF ClientInv, StateTyped, ui, contents
<1>4. CandidateRevision(revision) \in Nat
  <2>1. revision \in Nat /\ uiRevision \in Nat
    BY CoordinatorAssumption DEF ClientInv, StateTyped
  <2> QED
    BY <2>1, CandidateRises
<1>5. "DocumentSink" \in Pcs
  BY SinksArePcs
<1>6. StackOK' /\ RunningStarts' \subseteq RunningStarts
  BY <1>1, <1>4, <1>5, GotoRevTyped DEF ClientInv
<1> QED
  BY <1>1, <1>3, <1>6, PlainStep

LEMMA PublishReadyStep ==
    ASSUME ClientInv, PublishReady
    PROVE  ClientStep
<1>1. /\ stack # <<>> /\ Top.proc = "Process" /\ Top.pc # "Next"
      /\ stack' = Goto("PublishSink")
      /\ registry' = CommitBindings(Top.rev) /\ uiRevision' = Top.rev
      /\ snapshot' = Top.context.repo
      /\ app' \in {TryApp(app, "MenuActive"), TryApp(app, "GameActive")}
      /\ session' = TrySession(session, "Ready", Top.kind) /\ ready' = TRUE
      /\ UNCHANGED <<generation, repoVersion, vm, queue, nextSequence, pinned,
                     activePackages, requests, transitionKind>>
  BY DEF PublishReady, At
<1>2. Top.context \in Contexts /\ Top.rev \in Nat
  BY <1>1, TopTyped DEF ClientInv, Frames
<1>3. session' \in SessionStates /\ app' \in AppStates
  <2>1. session \in SessionStates /\ app \in AppStates
    BY DEF ClientInv, StateTyped
  <2>2. "Ready" \in SessionStates /\ {"MenuActive", "GameActive"} \subseteq AppStates
    BY DEF SessionStates, AppStates
  <2> QED
    BY <1>1, <2>1, <2>2, TryTyped
<1>4. registry' \in [gen : Nat, rev : Nat] /\ uiRevision' \in Nat
  BY <1>1, <1>2 DEF ClientInv, StateTyped, CommitBindings
<1>5. {pinned', snapshot', activePackages'} \subseteq Contents \cup {NoContent}
  BY <1>1, <1>2 DEF Contexts, ClientInv, StateTyped
<1>6. StateTyped'
  BY <1>1, <1>3, <1>4, <1>5 DEF ClientInv, StateTyped
<1>7. "PublishSink" \in Pcs
  BY SinksArePcs
<1>8. StackOK' /\ RunningStarts' \subseteq RunningStarts
  BY <1>1, <1>7, GotoTyped DEF ClientInv
<1> QED
  BY <1>1, <1>6, <1>8, PlainStep

LEMMA PlayStartEffectsStep ==
    ASSUME ClientInv, PlayStartEffects
    PROVE  ClientStep
<1>1. /\ stack # <<>> /\ Top.proc = "Process" /\ Top.pc # "Next"
      /\ stack' = Goto("EffectSink")
      /\ UNCHANGED <<status, vm, ui, contents, requests, transitionKind>>
  BY DEF PlayStartEffects, At
<1>2. "EffectSink" \in Pcs
  BY SinksArePcs
<1>3. StackOK' /\ RunningStarts' \subseteq RunningStarts
  BY <1>1, <1>2, GotoTyped DEF ClientInv
<1>4. StateTyped'
  BY <1>1, NothingTyped DEF ClientInv
<1> QED
  BY <1>1, <1>3, <1>4, PlainStep

LEMMA AbortStartEffectsStep ==
    ASSUME ClientInv, AbortStartEffects
    PROVE  ClientStep
<1>1. /\ stack # <<>> /\ Top.proc = "Process" /\ Top.pc # "Next"
      /\ stack' = Goto("Next")
      /\ FailRuntime(Record(SavesFailed, Top.op, "Failed"))
  BY DEF AbortStartEffects, At
<1>2. Top.op \in RunningStarts /\ "Next" \in Pcs
  BY <1>1, RunningTop, SinksArePcs DEF ClientInv
<1>3. StackOK' /\ RunningStarts' = {}
  BY <1>1, <1>2, GotoTyped DEF ClientInv
<1>4. RequestsOK' /\ PolicyMove(policy, policy', {})
  BY <1>1, <1>2, <1>3, FailStartKeepsRequests DEF ClientInv
<1>5. StateTyped'
  BY <1>1, FailTyped DEF ClientInv
<1> QED
  BY <1>3, <1>4, <1>5 DEF ClientInv, ClientStep

LEMMA CompleteStartStep ==
    ASSUME ClientInv, CompleteStart
    PROVE  ClientStep
<1>1. /\ stack # <<>> /\ Top.proc = "Process" /\ Top.pc # "Next"
      /\ stack' = Goto("Next")
      /\ policy' = Record(policy, Top.op, "Completed")
      /\ activePackages' = Top.context.packages
      /\ UNCHANGED <<status, vm, ui, pinned, snapshot, pendingSaves, startContext,
                     transitionKind>>
  BY DEF CompleteStart, At
<1>2. Top.op \in RunningStarts /\ "Next" \in Pcs /\ "Completed" \in Outcomes
  BY <1>1, RunningTop, SinksArePcs DEF ClientInv, Outcomes
<1>3. StackOK' /\ RunningStarts' = {}
  BY <1>1, <1>2, GotoTyped DEF ClientInv
<1>4. RequestsOK' /\ PolicyMove(policy, policy', {Top.op})
  BY <1>1, <1>2, <1>3, StartEnds DEF ClientInv
<1>5. Top.op \notin SaveIds
  BY <1>2 DEF ClientInv, RequestsOK, SavesInProgress
<1>6. StartCompletes
  BY <1>1 DEF CompleteStart, StartCompletes
<1>7. Top.context \in Contexts
  BY <1>1, TopTyped DEF ClientInv, Frames
<1>8. StateTyped'
  BY <1>1, <1>7 DEF Contexts, ClientInv, StateTyped, status, ui
<1> QED
  BY <1>3, <1>4, <1>5, <1>6, <1>8 DEF ClientInv, ClientStep, MayComplete

LEMMA StartKeeps ==
    ASSUME ClientInv, StartStep
    PROVE  ClientStep
BY ProcessDoneStep, DequeueStartStep, AbortPreflightStep, BeginReplaceStep,
   FinishReplaceStep, CompletePhaseStep, AbandonSteps, PrepareInitialDocumentStep,
   PublishReadyStep, PlayStartEffectsStep, AbortStartEffectsStep, CompleteStartStep
DEF StartStep

(***************************************************************************)
(* The end of a session, and the API.                                      *)
(***************************************************************************)
LEMMA FinishEndSessionStep ==
    ASSUME ClientInv, FinishEndSession
    PROVE  ClientStep
<1>1. /\ stack # <<>> /\ stack' = Pop /\ pendingSaves' = <<>>
      /\ app' = TryApp(app, "Uninitialized")
      /\ session' = TrySession(session, "Destroyed", "Shutdown")
      /\ repoVersion' = NoContent /\ nextSequence' = 1 /\ uiRevision' = 0
      /\ UNCHANGED <<ready, generation, vm, registry, queue, contents,
                     startContext, transitionKind>>
      /\ policy' = IF SavesFailed.active # NoOp /\ SavesFailed.active.kind = "Shutdown"
                   THEN Record(SavesFailed, SavesFailed.active.id, "Completed")
                   ELSE SavesFailed
  BY DEF FinishEndSession, At
<1>2. StackOK' /\ RunningStarts' \subseteq RunningStarts
  BY <1>1, PopKeeps DEF ClientInv
<1>3. /\ RequestsOK'
      /\ PolicyMove(policy, policy',
            {id \in {policy.active.id} : policy.active.kind = "Shutdown"})
  BY <1>1, <1>2, ShutdownEnds DEF ClientInv
<1>4. \A id \in {i \in {policy.active.id} : policy.active.kind = "Shutdown"} :
          MayComplete(id)
  BY DEF ClientInv, RequestsOK, StartsInProgress, SavesInProgress, MayComplete
<1>5. session' \in SessionStates /\ app' \in AppStates
  <2>1. session \in SessionStates /\ app \in AppStates
    BY DEF ClientInv, StateTyped
  <2>2. "Destroyed" \in SessionStates /\ "Uninitialized" \in AppStates
    BY DEF SessionStates, AppStates
  <2> QED
    BY <1>1, <2>1, <2>2, TryTyped
<1>6. StateTyped'
  BY <1>1, <1>5 DEF ClientInv, StateTyped, contents
<1> QED
  BY <1>2, <1>3, <1>4, <1>6 DEF ClientInv, ClientStep

LEMMA StartProcessingKeeps ==
    ASSUME StackOK, StartProcessing \/ UNCHANGED stack
    PROVE  StackOK' /\ RunningStarts' \subseteq RunningStarts
<1>1. CASE UNCHANGED stack
  BY <1>1 DEF StackOK, OneProcess, RunningStarts
<1>2. CASE stack' = Push(Frame("Process", "Next")) /\ ~Processing
  <2>1. /\ Frame("Process", "Next") \in Frames
        /\ Frame("Process", "Next").pc = "Next"
    BY FrameTyped, SinksArePcs DEF Procs
  <2> QED
    BY <1>2, <2>1, PushTyped
<1> QED
  BY <1>1, <1>2 DEF StartProcessing, Busy

LEMMA RequestSessionStep ==
    ASSUME ClientInv, NEW d \in Descriptors, RequestSession(d)
    PROVE  ClientStep
<1> DEFINE context == [repo |-> d.key, version |-> d.key, packages |-> d.key]
<1>1. /\ EnqueueStart(d, context) /\ StartProcessing
      /\ UNCHANGED <<status, vm, ui, contents, transitionKind>>
      /\ UNCHANGED pendingSaves
  BY DEF RequestSession
<1>2. context \in Contexts /\ context.repo = d.key
  BY CoordinatorAssumption DEF Contexts
<1> HIDE DEF context
<1>3. StackOK' /\ RunningStarts' \subseteq RunningStarts
  BY <1>1, StartProcessingKeeps DEF ClientInv
<1>4. RequestsOK' /\ PolicyMove(policy, policy', {})
  BY <1>1, <1>2, <1>3, EnqueueStartKeeps DEF ClientInv
<1>5. StateTyped'
  BY <1>1, NothingTyped DEF ClientInv
<1> QED
  BY <1>3, <1>4, <1>5 DEF ClientInv, ClientStep

LEMMA RequestLoadStep ==
    ASSUME ClientInv, RequestLoad
    PROVE  ClientStep
<1>1. /\ EnqueueLoad /\ UNCHANGED pendingSaves
      /\ StartProcessing \/ UNCHANGED stack
      /\ UNCHANGED <<status, vm, ui, contents, transitionKind>>
  BY DEF RequestLoad
<1>2. StackOK' /\ RunningStarts' \subseteq RunningStarts
  BY <1>1, StartProcessingKeeps DEF ClientInv
<1>3. RequestsOK' /\ PolicyMove(policy, policy', {})
  BY <1>1, <1>2, EnqueueLoadKeeps DEF ClientInv
<1>4. StateTyped'
  BY <1>1, NothingTyped DEF ClientInv
<1> QED
  BY <1>2, <1>3, <1>4 DEF ClientInv, ClientStep

LEMMA RequestSaveStep ==
    ASSUME ClientInv, NEW validSlot \in BOOLEAN, RequestSave(validSlot)
    PROVE  ClientStep
<1>1. /\ EnqueueSave(validSlot) /\ UNCHANGED startContext
      /\ UNCHANGED <<status, vm, ui, contents, transitionKind>>
      /\ UNCHANGED stack
  BY DEF RequestSave
<1>2. StackOK' /\ RunningStarts' \subseteq RunningStarts
  BY <1>1, StartProcessingKeeps DEF ClientInv
<1>3. generation \in Nat
  BY DEF ClientInv, StateTyped
<1>4. /\ RequestsOK' /\ PolicyMove(policy, policy', {policy.next})
      /\ policy.next \notin policy.inProgress
  BY <1>1, <1>2, <1>3, EnqueueSaveKeeps DEF ClientInv
<1>5. StateTyped'
  BY <1>1, NothingTyped DEF ClientInv
<1> QED
  BY <1>2, <1>4, <1>5 DEF ClientInv, ClientStep, MayComplete

LEMMA CancelEffects ==
    ASSUME NEW id \in Ids, CancelSessionRequest(id)
    PROVE  /\ CancelEffect(id)
           /\ UNCHANGED <<status, vm, ui, contents, transitionKind>>
           /\ UNCHANGED stack
<1>1. /\ UNCHANGED <<status, vm, ui, contents, transitionKind>>
      /\ UNCHANGED stack
  BY DEF CancelSessionRequest
<1>2. CancelEffect(id)
  BY DEF CancelSessionRequest, CancelEffect
<1> QED
  BY <1>1, <1>2

LEMMA CancelStep ==
    ASSUME ClientInv, NEW id \in Ids, CancelSessionRequest(id)
    PROVE  ClientStep
<1>1. /\ CancelEffect(id)
      /\ UNCHANGED <<status, vm, ui, contents, transitionKind>>
      /\ UNCHANGED stack
  BY CancelEffects
<1>2. StackOK' /\ RunningStarts' \subseteq RunningStarts
  BY <1>1, StartProcessingKeeps DEF ClientInv
<1>3. RequestsOK' /\ PolicyMove(policy, policy', {})
  BY <1>1, <1>2, CancelKeepsRequests DEF ClientInv
<1>4. StateTyped'
  BY <1>1, NothingTyped DEF ClientInv
<1> QED
  BY <1>2, <1>3, <1>4 DEF ClientInv, ClientStep

\* The interaction that is queued, and the stack it is pumped on.
LEMMA SubmitEffect ==
    ASSUME ClientInv, SubmitUiInteraction
    PROVE  /\ StackOK' /\ RunningStarts' \subseteq RunningStarts
           /\ \/ Pumping /\ UNCHANGED stack
              \/ /\ ~Pumping /\ Len(stack') = Len(stack) + 1
                 /\ Top' = Frame("Pump", "Loop")
                 /\ \A i \in 1 .. Len(stack) : stack'[i] = stack[i]
           /\ queue' = Append(queue, [gen |-> registry.gen, rev |-> registry.rev,
                                      seq |-> nextSequence])
           /\ nextSequence' = nextSequence + 1
           /\ UNCHANGED <<status, vm, registry, uiRevision, contents, requests,
                          transitionKind>>
<1>1. /\ \/ Pumping /\ UNCHANGED stack
         \/ ~Pumping /\ stack' = Push(Frame("Pump", "Loop"))
      /\ queue' = Append(queue, [gen |-> registry.gen, rev |-> registry.rev,
                                 seq |-> nextSequence])
      /\ nextSequence' = nextSequence + 1
      /\ UNCHANGED <<status, vm, registry, uiRevision, contents, requests,
                     transitionKind>>
  BY DEF SubmitUiInteraction, Enqueue
<1>2. CASE Pumping /\ UNCHANGED stack
  BY <1>1, <1>2, StartProcessingKeeps DEF ClientInv
<1>3. CASE ~Pumping /\ stack' = Push(Frame("Pump", "Loop"))
  <2>1. /\ Frame("Pump", "Loop") \in Frames
        /\ Frame("Pump", "Loop").proc # "Process"
    BY FrameTyped, SinksArePcs DEF Procs
  <2> QED
    BY <1>1, <1>3, <2>1, PushTyped DEF ClientInv
<1> QED
  BY <1>1, <1>2, <1>3

LEMMA SubmitStep ==
    ASSUME ClientInv, SubmitUiInteraction
    PROVE  ClientStep
<1> DEFINE item == [gen |-> registry.gen, rev |-> registry.rev, seq |-> nextSequence]
<1>1. /\ StackOK' /\ RunningStarts' \subseteq RunningStarts
      /\ queue' = Append(queue, item) /\ nextSequence' = nextSequence + 1
      /\ UNCHANGED <<status, vm, registry, uiRevision, contents, transitionKind>>
      /\ UNCHANGED requests
  BY SubmitEffect
<1>2. queue' \in Seq([gen : Nat, rev : Nat, seq : Nat]) /\ nextSequence' \in Nat
  <2>1. item \in [gen : Nat, rev : Nat, seq : Nat]
    BY DEF ClientInv, StateTyped
  <2>2. queue \in Seq([gen : Nat, rev : Nat, seq : Nat]) /\ nextSequence \in Nat
    BY DEF ClientInv, StateTyped
  <2> HIDE DEF item
  <2> QED
    BY <1>1, <2>1, <2>2
<1>3. StateTyped'
  BY <1>1, <1>2 DEF ClientInv, StateTyped, status, contents
<1> QED
  BY <1>1, <1>3, PlainStep

LEMMA EndSessionStep ==
    ASSUME ClientInv, EndSession
    PROVE  ClientStep
<1>1. /\ EndingShutdown \/ JoinsShutdown(policy) \/ CanAllocate(policy)
      /\ policy' = IF EndingShutdown THEN policy
                   ELSE DequeuePendingOperation(EnqueueShutdown(policy))
      /\ transitionKind' = "Shutdown" /\ ready' = FALSE
      /\ registry' = NoRegistry /\ queue' = <<>> /\ vm' = 0
      /\ session' \in {TrySession(session, "Stopping", "Shutdown"), session}
      /\ app' \in {TryApp(app, "ShuttingDown"), app}
      /\ pinned' = NoContent /\ snapshot' = NoContent /\ activePackages' = NoContent
      /\ stack' = Push(Frame("End", "EndSink"))
      /\ UNCHANGED <<generation, repoVersion, uiRevision, nextSequence,
                     pendingSaves, startContext>>
  BY DEF EndSession, CloseInput, StopVm
<1>2. StackOK' /\ RunningStarts' \subseteq RunningStarts
  <2>1. /\ Frame("End", "EndSink") \in Frames
        /\ Frame("End", "EndSink").proc # "Process"
    BY FrameTyped, SinksArePcs DEF Procs
  <2> QED
    BY <1>1, <2>1, PushTyped DEF ClientInv
<1>3. RequestsOK' /\ PolicyMove(policy, policy', {})
  BY <1>1, <1>2, ShutdownKeepsRequests DEF ClientInv
<1>4. session' \in SessionStates /\ app' \in AppStates
  <2>1. session \in SessionStates /\ app \in AppStates
    BY DEF ClientInv, StateTyped
  <2>2. "Stopping" \in SessionStates /\ "ShuttingDown" \in AppStates
    BY DEF SessionStates, AppStates
  <2> QED
    BY <1>1, <2>1, <2>2, TryTyped
<1>5. StateTyped'
  <2>1. /\ registry' \in [gen : Nat, rev : Nat]
        /\ queue' \in Seq([gen : Nat, rev : Nat, seq : Nat])
    BY <1>1, ClosedTyped
  <2>2. /\ ready' \in BOOLEAN /\ generation' \in Nat /\ vm' \in Nat
        /\ uiRevision' \in Nat /\ nextSequence' \in Nat
    BY <1>1 DEF ClientInv, StateTyped
  <2>3. transitionKind' \in Kinds
    BY <1>1 DEF Kinds
  <2>4. /\ repoVersion' \in Contents \cup {NoContent}
        /\ {pinned', snapshot', activePackages'} \subseteq Contents \cup {NoContent}
    BY <1>1 DEF ClientInv, StateTyped
  <2> QED
    BY <1>4, <2>1, <2>2, <2>3, <2>4 DEF StateTyped
<1> QED
  BY <1>2, <1>3, <1>5 DEF ClientInv, ClientStep

LEMMA FailBootstrapStep ==
    ASSUME ClientInv, FailBootstrap
    PROVE  ClientStep
<1>1. FailRuntime(SavesFailed) /\ UNCHANGED stack
  BY DEF FailBootstrap
<1>2. StackOK' /\ RunningStarts' \subseteq RunningStarts
  BY <1>1, StartProcessingKeeps DEF ClientInv
<1>3. RequestsOK' /\ PolicyMove(policy, policy', {})
  BY <1>1, <1>2, FailKeepsRequests DEF ClientInv
<1>4. StateTyped'
  BY <1>1, FailTyped DEF ClientInv
<1> QED
  BY <1>2, <1>3, <1>4 DEF ClientInv, ClientStep

LEMMA ApiKeeps ==
    ASSUME ClientInv, ApiStep
    PROVE  ClientStep
BY RequestSessionStep, RequestLoadStep, RequestSaveStep, CancelStep, SubmitStep,
   EndSessionStep, FailBootstrapStep
DEF ApiStep

LEMMA ClientKeeps ==
    ASSUME ClientInv, [Next]_vars
    PROVE  ClientStep
BY StutterStep, StartKeeps, PumpKeeps, FinishEndSessionStep, ApiKeeps
DEF Next, InternalStep

LEMMA ClientStarts == Init => ClientInv
<1> SUFFICES ASSUME Init PROVE ClientInv
  OBVIOUS
<1>1. Len(stack) = 0 /\ Len(pendingSaves) = 0
  BY DEF Init
<1>2. RunningStarts = {} /\ SaveIds = {} /\ StackOK
  BY <1>1 DEF Init, RunningStarts, SaveIds, StackOK, OneProcess
<1>3. StateTyped
  <2>1. /\ registry \in [gen : Nat, rev : Nat]
        /\ queue \in Seq([gen : Nat, rev : Nat, seq : Nat])
    BY ClosedTyped DEF Init
  <2>2. app \in AppStates /\ session \in SessionStates
    BY DEF Init, AppStates, SessionStates
  <2>3. transitionKind \in Kinds
    BY DEF Init, Kinds, StartKinds
  <2>4. /\ ready \in BOOLEAN /\ generation \in Nat /\ vm \in Nat
        /\ uiRevision \in Nat /\ nextSequence \in Nat
    BY DEF Init
  <2>5. /\ repoVersion \in Contents \cup {NoContent}
        /\ {pinned, snapshot, activePackages} \subseteq Contents \cup {NoContent}
    BY DEF Init
  <2> QED
    BY <2>1, <2>2, <2>3, <2>4, <2>5 DEF StateTyped
<1>4. Good(policy) /\ policy.pending = NoOp
  BY InitialGood DEF Init, PolicyInit, InitialPolicy
<1>5. RequestsOK
  BY <1>1, <1>2, <1>4
  DEF Init, RequestsOK, RequestsTyped, StartsInProgress, SavesInProgress,
      PendingHasItsContext, ContextHasContent, Contexts, NoContext
<1> QED
  BY <1>2, <1>3, <1>5 DEF ClientInv

(***************************************************************************)
(* Whatever the sinks call back, to any depth: every member has its type   *)
(* and the call stack is a stack of frames.                                *)
(***************************************************************************)
THEOREM CoordinatorTypeCorrect == Spec => []TypeOK
<1>1. ClientInv /\ [Next]_vars => ClientInv'
  BY ClientKeeps DEF ClientStep
<1>2. ClientInv => TypeOK
  BY DEF ClientInv, StackOK, StateTyped, RequestsOK, RequestsTyped, Good,
         PolicyTypeOK, TypeOK
<1> QED
  BY <1>1, <1>2, ClientStarts, PTL DEF Spec

(***************************************************************************)
(* The operation in the slot and the context beside it belong together,    *)
(* however requests, joins, loads and cancellations interleave with the    *)
(* start in progress (RequestSession, RequestLoad, CancelSessionRequest).  *)
(***************************************************************************)
THEOREM PendingAlwaysHasItsContext == Spec => []PendingHasItsContext
<1>1. ClientInv /\ [Next]_vars => ClientInv'
  BY ClientKeeps DEF ClientStep
<1>2. ClientInv => PendingHasItsContext
  BY DEF ClientInv, RequestsOK
<1> QED
  BY <1>1, <1>2, ClientStarts, PTL DEF Spec

(***************************************************************************)
(* The coordinator never misuses the policy: called from nested sinks and  *)
(* failing half way, it leaves the policy consistent.                      *)
(***************************************************************************)
THEOREM CoordinatorKeepsPolicy == Spec => []PolicyConsistent
<1>1. ClientInv /\ [Next]_vars => ClientInv'
  BY ClientKeeps DEF ClientStep
<1>2. ClientInv => PolicyConsistent
  BY DEF ClientInv, RequestsOK, Good, PolicyConsistent
<1> QED
  BY <1>1, <1>2, ClientStarts, PTL DEF Spec

(***************************************************************************)
(* The coordinator, not only the policy on its own, implements the ledger  *)
(* of operations: one of its steps may fail several saves and a start at   *)
(* once, and still no operation gets a second outcome.                     *)
(***************************************************************************)
THEOREM CoordinatorRefinesLedger == Spec => LedgerRefined
<1> DEFINE st == [id \in Ids |-> QueryOutcome(policy, id)]
<1>1. ClientInv /\ [Next]_vars => ClientInv'
  BY ClientKeeps DEF ClientStep
<1>2. Init => Ledger!LedgerInit
  BY PolicyAssumption
  DEF Init, PolicyInit, Ledger!LedgerInit, Ledger!Ids, Ids, InitialPolicy,
      QueryOutcome, Known
<1>3. ClientInv /\ [Next]_vars => [Ledger!LedgerNext]_st
  <2> SUFFICES ASSUME ClientInv, [Next]_vars
               PROVE  Ledger!LedgerNext
    OBVIOUS
  <2>1. Good(policy') /\ Forward(policy, policy')
    BY ClientKeeps DEF ClientStep, PolicyMove
  <2>2. /\ st' \in [Ledger!Ids -> Ledger!Statuses]
        /\ Ledger!IssuedInOrder(st')
        /\ Cardinality(Ledger!Retained(st')) <= MaxRetainedOutcomes
    BY <2>1, GoodLedger
  <2>3. \A id \in Ledger!Ids : Ledger!MayBecome(st[id], st'[id])
    BY <2>1 DEF Forward, Ledger!Ids, Ids
  <2> QED
    BY <2>2, <2>3
    DEF Ledger!LedgerNext, Ledger!Cardinality, Cardinality,
        Ledger!IsFiniteSet, IsFiniteSet
<1> QED
  BY <1>1, <1>2, <1>3, ClientStarts, PTL DEF Spec, LedgerRefined, Ledger!LedgerSpec

-----------------------------------------------------------------------------
(***************************************************************************)
(* What a step may do to the active operation: leave it, clear it, mark    *)
(* it, or put another one in its place.  Only the mark of a cancellation   *)
(* is judged.                                                              *)
(***************************************************************************)
KeepsVerdict(p, q) ==
    p.active.committed /\ q.active.id = p.active.id
        => q.active.cancelRequested = p.active.cancelRequested

Stays(p, q) == q.active \in {p.active, NoOp}

LEMMA StaysKeepsVerdict ==
    ASSUME NEW p, Good(p), NEW q, Stays(p, q)
    PROVE  KeepsVerdict(p, q)
<1>1. NoOp.id = 0 /\ ~NoOp.committed
  BY DEF NoOp, Operation
<1>2. p.active # NoOp => p.active.id # 0
  BY SlotFacts DEF Ids
<1> QED
  BY <1>1, <1>2 DEF Stays, KeepsVerdict

LEMMA RecordStays ==
    ASSUME NEW p, Good(p), NEW id, NEW outcome
    PROVE  Stays(p, Record(p, id, outcome))
<1> DEFINE r == RecordResultInternal(p, id, outcome)
<1>1. "active" \in DOMAIN r /\ r.active = p.active
  BY DEF Good, Policies, RecordResultInternal, EvictEarliest
<1> HIDE DEF r
<1>2. Record(p, id, outcome).active = IF r.active.id = id THEN NoOp ELSE r.active
  BY <1>1 DEF Record, r
<1> QED
  BY <1>1, <1>2 DEF Stays

LEMMA AllocatedStays ==
    ASSUME NEW p, Good(p), CanAllocate(p), NEW id, NEW outcome
    PROVE  /\ Stays(p, AllocateOperationId(p))
           /\ Stays(p, Record(AllocateOperationId(p), id, outcome))
<1> DEFINE q == AllocateOperationId(p)
<1>1. Good(q) /\ q.active = p.active
  BY AllocateMove DEF PolicyMove
<1> HIDE DEF q
<1>2. Stays(q, Record(q, id, outcome))
  BY <1>1, RecordStays
<1> QED
  BY <1>1, <1>2 DEF Stays, q

LEMMA RequestStays ==
    ASSUME NEW p, Good(p), NEW d \in Descriptors, CanRequest(p, d)
    PROVE  Stays(p, EnqueueRequest(p, d))
<1>1. CASE JoinsRequest(p, d)
  BY <1>1 DEF EnqueueRequest, Stays
<1>2. CASE ~JoinsRequest(p, d)
  BY <1>2, EnqueueRequestMove DEF CanRequest, Stays
<1> QED
  BY <1>1, <1>2

LEMMA CancelKeepsVerdict ==
    ASSUME NEW p, Good(p), NEW id \in Ids
    PROVE  KeepsVerdict(p, CancelRequest(p, id))
<1>1. CASE p.pending # NoOp /\ p.pending.id = id
  <2>1. CancelRequest(p, id).active = p.active
    BY <1>1, DropPendingMove DEF CancelRequest, Outcomes
  <2> QED
    BY <2>1 DEF KeepsVerdict
<1>2. CASE ~(p.pending # NoOp /\ p.pending.id = id) /\ CancelResult(p, id) = "Accepted"
  <2>1. ~p.active.committed
    BY <1>2 DEF CancelResult
  <2> QED
    BY <2>1 DEF KeepsVerdict
<1>3. CASE ~(p.pending # NoOp /\ p.pending.id = id) /\ CancelResult(p, id) # "Accepted"
  <2>1. CancelRequest(p, id) = p
    BY <1>3 DEF CancelRequest
  <2> QED
    BY <2>1 DEF KeepsVerdict
<1> QED
  BY <1>1, <1>2, <1>3

LEMMA DequeueKeepsVerdict ==
    ASSUME NEW p, Good(p), p.pending # NoOp
    PROVE  KeepsVerdict(p, DequeuePendingOperation(p))
<1>1. DequeuePendingOperation(p).active = p.pending
  BY DequeueMove
<1>2. p.pending.id # p.active.id
  BY DEF Good, Consistent, SlotsInProgress
<1> QED
  BY <1>1, <1>2 DEF KeepsVerdict

LEMMA ShutdownKeepsVerdict ==
    ASSUME NEW p, Good(p), JoinsShutdown(p) \/ CanAllocate(p)
    PROVE  KeepsVerdict(p, DequeuePendingOperation(EnqueueShutdown(p)))
<1>1. CASE JoinsShutdown(p)
  <2>1. EnqueueShutdown(p) = p /\ p.pending # NoOp
    BY <1>1 DEF EnqueueShutdown, JoinsShutdown
  <2> QED
    BY <2>1, DequeueKeepsVerdict
<1>2. CASE ~JoinsShutdown(p)
  <2> DEFINE q == DequeuePendingOperation(EnqueueShutdown(p))
  <2>1. q.active = Operation(p.next, DefaultDescriptor, "Shutdown")
    BY <1>2, ShutdownMove
  <2>2. p.next # p.active.id
    BY <1>2, AllocateMove
  <2> HIDE DEF q
  <2>3. q.active.id = p.next
    BY <2>1 DEF Operation
  <2> QED
    BY <2>2, <2>3 DEF KeepsVerdict, q
<1> QED
  BY <1>1, <1>2

LEMMA CommitKeepsVerdict ==
    ASSUME NEW p, Good(p)
    PROVE  KeepsVerdict(p, CommitActive(p))
<1>1. CASE p.active = NoOp
  BY <1>1 DEF CommitActive, KeepsVerdict
<1>2. CASE p.active # NoOp
  <2>1. CommitActive(p).active = [p.active EXCEPT !.committed = TRUE]
    BY <1>2 DEF CommitActive, Good, Policies
  <2>2. CommitActive(p).active.cancelRequested = p.active.cancelRequested
    BY <2>1 DEF Good, Policies, Operations
  <2> QED
    BY <2>2 DEF KeepsVerdict
<1> QED
  BY <1>1, <1>2

-----------------------------------------------------------------------------
LEMMA RequestsKeepVerdict ==
    ASSUME ClientInv
    PROVE  /\ \A d \in Descriptors : \A c : EnqueueStart(d, c) => Stays(policy, policy')
           /\ EnqueueLoad => Stays(policy, policy')
           /\ \A valid : EnqueueSave(valid) => Stays(policy, policy')
<1>1. Good(policy)
  BY DEF ClientInv, RequestsOK
<1>2. ASSUME NEW d \in Descriptors, NEW c, EnqueueStart(d, c)
      PROVE  Stays(policy, policy')
  BY <1>1, <1>2, RequestStays DEF EnqueueStart
<1>3. ASSUME EnqueueLoad PROVE Stays(policy, policy')
  <2>1. CASE LoadContext # NoContext /\ EnqueueStart([mode |-> "LoadSave", key |-> LoadContext.repo], LoadContext)
    <3>1. [mode |-> "LoadSave", key |-> LoadContext.repo] \in Descriptors
      <4>1. LoadContext.repo \in Contents
        BY <2>1
        DEF ClientInv, LoadContext, StateTyped, Contexts, RequestsOK, RequestsTyped,
            ContextHasContent
      <4> QED
        BY <4>1, CoordinatorAssumption
    <3> QED
      BY <1>2, <2>1, <3>1
  <2>2. CASE CanAllocate(policy) /\ policy' = Record(AllocateOperationId(policy), policy.next, "Failed")
    BY <1>1, <2>2, AllocatedStays
  <2> QED
    BY <1>3, <2>1, <2>2 DEF EnqueueLoad
<1>4. ASSUME NEW valid, EnqueueSave(valid) PROVE Stays(policy, policy')
  <2>1. /\ CanAllocate(policy)
        /\ \/ policy' = AllocateOperationId(policy)
           \/ \E id, o : policy' = Record(AllocateOperationId(policy), id, o)
    BY <1>4 DEF EnqueueSave, ExecuteSave
  <2> QED
    BY <1>1, <2>1, AllocatedStays
<1> QED
  BY <1>2, <1>3, <1>4

LEMMA FailKeepsVerdict ==
    ASSUME ClientInv
    PROVE  /\ Stays(policy, SavesFailed)
           /\ \A id, o : Stays(policy, Record(SavesFailed, id, o))
<1>1. Good(SavesFailed) /\ SavesFailed.active = policy.active
  BY SavesFailedMove DEF ClientInv, PolicyMove
<1> HIDE DEF SavesFailed
<1>2. \A id, o : Stays(SavesFailed, Record(SavesFailed, id, o))
  BY <1>1, RecordStays
<1> QED
  BY <1>1, <1>2 DEF Stays

LEMMA StartKeepsVerdict ==
    ASSUME ClientInv, StartStep
    PROVE  KeepsVerdict(policy, policy')
<1>1. Good(policy)
  BY DEF ClientInv, RequestsOK
<1>2. CASE \/ ProcessDone \/ BeginReplace \/ CompletePhase \/ PublishReady \/ PlayStartEffects
           \/ \E revision \in DocRevisions : PrepareInitialDocument(revision)
  <2>1. policy' = policy
    BY <1>2 DEF ProcessDone, BeginReplace, CompletePhase, PublishReady, PlayStartEffects,
                PrepareInitialDocument, requests
  <2> QED
    BY <2>1 DEF KeepsVerdict
<1>3. CASE AbortPreflight \/ AbortPhases \/ AbortPresentation \/ CompleteStart
  <2>1. \E o : policy' = Record(policy, Top.op, o)
    BY <1>3 DEF AbortPreflight, AbortPhases, AbortPresentation, CompleteStart, AbandonStart
  <2> QED
    BY <1>1, <2>1, RecordStays, StaysKeepsVerdict
<1>4. CASE FinishReplace
  BY <1>1, <1>4, CommitKeepsVerdict DEF FinishReplace
<1>5. CASE AbortStartEffects
  <2>1. policy' = Record(SavesFailed, Top.op, "Failed")
    BY <1>5 DEF AbortStartEffects, FailRuntime
  <2> QED
    BY <1>1, <2>1, FailKeepsVerdict, StaysKeepsVerdict
<1>6. CASE DequeueStart
  <2> DEFINE taken == DequeuePendingOperation(policy)
  <2>1. /\ policy.pending # NoOp
        /\ policy' = taken \/ policy' = Record(taken, policy.pending.id, "Failed")
    BY <1>6 DEF DequeueStart
  <2>2. Good(taken) /\ KeepsVerdict(policy, taken) /\ taken.active = policy.pending
    BY <1>1, <2>1, DequeueMove, DequeueKeepsVerdict DEF PolicyMove
  <2> HIDE DEF taken
  <2>3. CASE policy' = Record(taken, policy.pending.id, "Failed")
    <3>1. Stays(taken, policy')
      BY <2>2, <2>3, RecordStays
    <3>2. policy.pending.id # policy.active.id
      BY <1>1, <2>1 DEF Good, Consistent, SlotsInProgress
    <3>3. policy'.active = policy.pending \/ policy'.active = NoOp
      BY <2>2, <3>1 DEF Stays
    <3>4. CASE policy'.active = NoOp
      BY <1>1, <3>4, StaysKeepsVerdict DEF Stays
    <3> QED
      BY <3>2, <3>3, <3>4 DEF KeepsVerdict
  <2> QED
    BY <2>1, <2>2, <2>3
<1> QED
  BY <1>2, <1>3, <1>4, <1>5, <1>6 DEF StartStep

LEMMA PumpKeepsVerdict ==
    ASSUME ClientInv, PumpStep
    PROVE  KeepsVerdict(policy, policy')
<1>1. Good(policy)
  BY DEF ClientInv, RequestsOK
<1>2. CASE DispatchFails \/ EffectsFail
  <2>1. policy' = SavesFailed
    BY <1>2 DEF DispatchFails, EffectsFail, FailRuntime
  <2> QED
    BY <1>1, <2>1, FailKeepsVerdict, StaysKeepsVerdict
<1>3. ASSUME NEW request \in ControlRequests, NEW document \in DocRevisions \cup {NoDocument},
             Dispatch(request, document)
      PROVE  KeepsVerdict(policy, policy')
  <2>1. policy' = policy \/ EnqueueSave(TRUE) \/ EnqueueLoad
    BY <1>3 DEF Dispatch, ControlRequests, requests
  <2>2. Stays(policy, policy')
    BY <2>1, RequestsKeepVerdict DEF Stays
  <2> QED
    BY <1>1, <2>2, StaysKeepsVerdict
<1>4. CASE DrainSave
  <2>1. \E o : policy' = Record(policy, Head(pendingSaves).id, o)
    BY <1>4 DEF DrainSave, ExecuteSave
  <2> QED
    BY <1>1, <2>1, RecordStays, StaysKeepsVerdict
<1>5. CASE \/ \E applied \in BOOLEAN : ApplyDocument(applied)
           \/ PlayEffects \/ NoEffects \/ SavesDrained \/ PumpDone
  <2>1. policy' = policy
    BY <1>5 DEF ApplyDocument, PlayEffects, NoEffects, SavesDrained, PumpDone, requests
  <2> QED
    BY <2>1 DEF KeepsVerdict
<1> QED
  BY <1>2, <1>3, <1>4, <1>5 DEF PumpStep

LEMMA ApiKeepsVerdict ==
    ASSUME ClientInv, ApiStep
    PROVE  KeepsVerdict(policy, policy')
<1>1. Good(policy)
  BY DEF ClientInv, RequestsOK
<1>2. CASE \/ \E d \in Descriptors : RequestSession(d)
           \/ RequestLoad
           \/ \E validSlot \in BOOLEAN : RequestSave(validSlot)
  <2>1. Stays(policy, policy')
    BY <1>2, RequestsKeepVerdict DEF RequestSession, RequestLoad, RequestSave
  <2> QED
    BY <1>1, <2>1, StaysKeepsVerdict
<1>3. ASSUME NEW id \in Ids, CancelSessionRequest(id)
      PROVE  KeepsVerdict(policy, policy')
  <2>1. policy' = Record(policy, id, "Cancelled") \/ policy' = CancelRequest(policy, id)
    BY <1>3 DEF CancelSessionRequest
  <2> QED
    BY <1>1, <2>1, RecordStays, StaysKeepsVerdict, CancelKeepsVerdict
<1>4. CASE SubmitUiInteraction
  <2>1. policy' = policy
    BY <1>4 DEF SubmitUiInteraction, requests
  <2> QED
    BY <2>1 DEF KeepsVerdict
<1>5. CASE EndSession
  <2>1. CASE EndingShutdown
    BY <1>5, <2>1 DEF EndSession, KeepsVerdict
  <2>2. CASE ~EndingShutdown
    BY <1>1, <1>5, <2>2, ShutdownKeepsVerdict DEF EndSession
  <2> QED
    BY <2>1, <2>2
<1>6. CASE FailBootstrap
  <2>1. policy' = SavesFailed
    BY <1>6 DEF FailBootstrap, FailRuntime
  <2> QED
    BY <1>1, <2>1, FailKeepsVerdict, StaysKeepsVerdict
<1> QED
  BY <1>2, <1>3, <1>4, <1>5, <1>6 DEF ApiStep

(***************************************************************************)
(* Whatever the sinks call back: once a start has crossed commit-to-       *)
(* replace, nothing marks it as cancelled, neither a cancellation nor the  *)
(* shutdown that takes its place (CancelRequest, EnqueueShutdown).         *)
(***************************************************************************)
THEOREM CommittedNeverCancelled == Spec => CommittedNotCancelled
<1>1. ClientInv /\ [Next]_vars => ClientInv'
  BY ClientKeeps DEF ClientStep
<1>2. ClientInv /\ [Next]_vars => KeepsVerdict(policy, policy')
  <2> SUFFICES ASSUME ClientInv, [Next]_vars PROVE KeepsVerdict(policy, policy')
    OBVIOUS
  <2>1. CASE FinishEndSession
    <3>1. Good(policy)
      BY DEF ClientInv, RequestsOK
    <3>2. policy' = SavesFailed \/ \E id : policy' = Record(SavesFailed, id, "Completed")
      BY <2>1 DEF FinishEndSession
    <3> QED
      BY <3>1, <3>2, FailKeepsVerdict, StaysKeepsVerdict
  <2>2. CASE UNCHANGED vars
    BY <2>2 DEF vars, requests, KeepsVerdict
  <2> QED
    BY <2>1, <2>2, StartKeepsVerdict, PumpKeepsVerdict, ApiKeepsVerdict DEF Next, InternalStep
<1>3. KeepsVerdict(policy, policy')
         => [policy.active.committed /\ policy'.active.id = policy.active.id
                => policy'.active.cancelRequested = policy.active.cancelRequested]_policy
  BY DEF KeepsVerdict
<1> QED
  BY <1>1, <1>2, <1>3, ClientStarts, PTL DEF Spec, CommittedNotCancelled

-----------------------------------------------------------------------------
(***************************************************************************)
(* The session, when the sinks only make safe calls.  Then the stack is    *)
(* empty, one transition, one pump, one teardown, or a teardown inside a   *)
(* sink of a pump; and for each of these the invariant says where the      *)
(* session stands at every line of the call.                               *)
(***************************************************************************)
GoneApp == {"Uninitialized", "Failed"}
GoneSession == {"None", "Failed", "Destroyed"}

Down == vm = 0 /\ session \in GoneSession /\ app \in GoneApp

Settled ==
    /\ ready => Whole /\ registry.rev <= uiRevision
    /\ ~ready => Down /\ queue = <<>>

Quiet == queue = <<>> /\ pendingSaves = <<>>

CanonicalContext(c) == c.version = c.repo /\ c.repo # NoContent

StartOf(frame) ==
    /\ policy.active.id = frame.op
    /\ policy.active # NoOp
    /\ policy.active.committed <=> frame.pc \notin {"Preflight", "ReplaceSink"}
    /\ CanonicalContext(frame.context)

ProcessAt(frame) ==
    /\ frame.pc \in {"Next", "Preflight", "ReplaceSink", "Phases", "DocumentSink",
                     "PublishSink", "EffectSink"}
    /\ frame.pc = "Next" => policy.active = NoOp
    /\ frame.pc # "Next" => StartOf(frame)
    /\ frame.pc \in {"Next", "Preflight", "PublishSink", "EffectSink"} => Settled
    /\ frame.pc = "Preflight" => frame.hadPrior = ready
    /\ frame.pc = "ReplaceSink" =>
          /\ vm = 0
          /\ ready => session = "Ready" /\ app \in ActiveAppStates
          /\ ~ready => Down
    /\ frame.pc \in {"Phases", "DocumentSink"} =>
          /\ ~ready /\ app = "Bootstrapping"
          /\ vm # 0 /\ vm = generation /\ registry = BeginBindings(vm)
          /\ pinned = frame.context.repo /\ repoVersion = frame.context.repo
    /\ frame.pc = "Phases" => session \in DOMAIN NextPhase \cup {"Starting"}
    /\ frame.pc = "DocumentSink" => session = "PreparingPresentation" /\ frame.rev # 0
    /\ frame.pc \in {"PublishSink", "EffectSink"} => ready

PumpSinks == {"PumpDocumentSink", "InteractionSink", "PumpEffectSink"}

PumpAt(frame) ==
    /\ frame.pc \in PumpSinks \cup {"Loop", "Saves"}
    /\ frame.pc = "Loop" => pendingSaves = <<>>
    /\ ready /\ frame.pc = "PumpDocumentSink" => uiRevision < frame.rev

Ended ==
    /\ ~ready /\ vm = 0 /\ queue = <<>>
    /\ session \in GoneSession \cup {"Stopping"}
    /\ app \in GoneApp \cup {"ShuttingDown"}
    /\ policy.active.kind = "Shutdown"

AtRest == stack = <<>> /\ Settled /\ Quiet /\ policy.active = NoOp

InStart == Len(stack) = 1 /\ Top.proc = "Process" /\ ProcessAt(Top) /\ Quiet

InPump ==
    /\ Len(stack) = 1 /\ Top.proc = "Pump" /\ PumpAt(Top)
    /\ Settled /\ policy.active = NoOp

InEnd ==
    /\ Len(stack) = 1 /\ Top.proc = "End" /\ Top.pc = "EndSink"
    /\ Ended /\ pendingSaves = <<>>

InEndOfPump ==
    /\ Len(stack) = 2 /\ Top.proc = "End" /\ Top.pc = "EndSink"
    /\ stack[1].proc = "Pump" /\ stack[1].pc \in PumpSinks
    /\ Ended

Situation == AtRest \/ InStart \/ InPump \/ InEnd \/ InEndOfPump

SavesOfGeneration == \A k \in 1 .. Len(pendingSaves) : pendingSaves[k].gen = generation

ContextIsCanonical == startContext = NoContext \/ CanonicalContext(startContext)

CallInv ==
    /\ Situation
    /\ QueueBelongsToSession
    /\ SavesOfGeneration
    /\ ContextIsCanonical
    /\ ~policy.pending.committed

\* Who is on top of the stack tells the situation.
LEMMA SituationByTop ==
    ASSUME StackOK, Situation, stack # <<>>
    PROVE  /\ Top.proc = "Process" => InStart
           /\ Top.proc = "Pump" => InPump
           /\ Top.proc = "End" => InEnd \/ InEndOfPump
           /\ Len(stack) \in {1, 2}
BY TopTyped DEF Situation, AtRest, InStart, InPump, InEnd, InEndOfPump

LEMMA EmptyStack ==
    ASSUME StackOK
    PROVE  /\ (stack = <<>>) = (Len(stack) = 0)
           /\ stack = <<>> => ~Busy /\ ~Processing /\ ~Pumping
<1>1. stack \in Seq(Frames)
  BY DEF StackOK
<1>2. (stack = <<>>) = (Len(stack) = 0)
  BY <1>1
<1> QED
  BY <1>2 DEF Busy, Processing, Pumping, InProgress

\* With an empty queue nothing in it can be of another session.
LEMMA EmptyQueue ==
    ASSUME queue = <<>>
    PROVE  QueueBelongsToSession
BY DEF QueueBelongsToSession

LEMMA NoSaves ==
    ASSUME pendingSaves = <<>>
    PROVE  SavesOfGeneration
BY DEF SavesOfGeneration

(***************************************************************************)
(* A step that only touches the requests.                                  *)
(***************************************************************************)
LEMMA OnlyRequests ==
    ASSUME ClientInv, CallInv, UNCHANGED <<status, vm, ui, contents, transitionKind>>,
           UNCHANGED stack,
           policy'.active.id = policy.active.id,
           policy'.active.kind = policy.active.kind,
           policy'.active.committed = policy.active.committed,
           (policy'.active = NoOp) = (policy.active = NoOp),
           pendingSaves = <<>> /\ pendingSaves' # <<>> => InPump /\ Top.pc # "Loop",
           SavesOfGeneration', ContextIsCanonical', ~policy'.pending.committed
    PROVE  CallInv'
<1>1. /\ UNCHANGED <<app, session, ready, generation, repoVersion, vm, registry, queue,
                     uiRevision, pinned, snapshot>>
      /\ nextSequence' = nextSequence
  BY DEF status, ui, contents
<1>2. Settled' = Settled /\ (Ended' = Ended) /\ Top' = Top
  BY <1>1 DEF Settled, Whole, Down, Ended, Top
<1>3. QueueBelongsToSession'
  BY <1>1 DEF CallInv, QueueBelongsToSession
<1>4. AtRest => AtRest'
  BY <1>1, <1>2, EmptyStack DEF AtRest, Quiet, InPump, ClientInv
<1>5. InStart => InStart'
  <2> SUFFICES ASSUME InStart PROVE InStart'
    OBVIOUS
  <2>1. ~InPump
    BY DEF InStart, InPump
  <2>2. StartOf(Top)' = StartOf(Top)
    BY <1>2 DEF StartOf, CanonicalContext
  <2>3. ProcessAt(Top)'
    BY <1>1, <1>2, <2>2 DEF InStart, ProcessAt, Down, BeginBindings
  <2> QED
    BY <1>1, <1>2, <2>1, <2>3 DEF InStart, Quiet
<1>6. InPump => InPump'
  <2> SUFFICES ASSUME InPump PROVE InPump'
    OBVIOUS
  <2>1. PumpAt(Top)'
    BY <1>1, <1>2 DEF InPump, PumpAt
  <2> QED
    BY <1>1, <1>2, <2>1 DEF InPump
<1>7. InEnd => InEnd'
  BY <1>1, <1>2 DEF InEnd, InPump
<1>8. InEndOfPump => InEndOfPump'
  BY <1>1, <1>2 DEF InEndOfPump
<1> QED
  BY <1>3, <1>4, <1>5, <1>6, <1>7, <1>8 DEF CallInv, Situation

(***************************************************************************)
(* The edges of the oracle the coordinator relies on: written through the  *)
(* guarded assignments, these transitions are never refused.               *)
(***************************************************************************)
LEMMA CommonEdgesTaken ==
    ASSUME NEW kind
    PROVE  /\ \A s \in {"Creating", "Registering", "BuildingState", "RestoringInstances",
                        "Starting", "PreparingPresentation", "Ready"} :
                 TrySession(s, "Stopping", kind) = "Stopping"
           /\ TrySession("Stopping", "Failed", kind) = "Failed"
           /\ TrySession("Stopping", "Destroyed", kind) = "Destroyed"
           /\ \A s \in GoneSession : TrySession(s, "Failed", kind) \in GoneSession
           /\ \A s \in GoneSession : TrySession(s, "Destroyed", kind) \in GoneSession
BY DEF TrySession, CanTransitionSession, CommonEdges, GoneSession

LEMMA StartEdgesTaken ==
    ASSUME NEW kind \in StartKinds
    PROVE  /\ \A s \in {"None", "Ready", "Failed", "Destroyed"} :
                 TrySession(s, "Creating", kind) = "Creating"
           /\ \A s \in DOMAIN NextPhase : TrySession(s, NextPhase[s], kind) = NextPhase[s]
           /\ TrySession("Starting", "PreparingPresentation", kind) = "PreparingPresentation"
           /\ TrySession("PreparingPresentation", "Ready", kind) = "Ready"
BY DEF TrySession, CanTransitionSession, StartEdges, NextPhase

LEMMA AppEdgesTaken ==
    /\ \A a \in GoneApp \cup ActiveAppStates : TryApp(a, "Bootstrapping") = "Bootstrapping"
    /\ TryApp("Bootstrapping", "MenuActive") = "MenuActive"
    /\ TryApp("Bootstrapping", "GameActive") = "GameActive"
    /\ \A a \in GoneApp \cup ActiveAppStates \cup {"Bootstrapping"} :
          TryApp(a, "Failed") = "Failed"
    /\ \A a \in ActiveAppStates : TryApp(a, "ShuttingDown") = "ShuttingDown"
    /\ \A a \in GoneApp \cup {"ShuttingDown"} : TryApp(a, "Uninitialized") = "Uninitialized"
BY DEF TryApp, CanTransitionApp, AppEdges, GoneApp, ActiveAppStates

\* FailRuntime leaves nothing of a session that was whole.
LEMMA FailLeavesDown ==
    ASSUME Settled, NEW recorded, FailRuntime(recorded)
    PROVE  Settled' /\ Quiet' /\ ~ready' /\ QueueBelongsToSession' /\ SavesOfGeneration'
<1>1. /\ ready' = FALSE /\ vm' = 0 /\ queue' = <<>> /\ pendingSaves' = <<>>
      /\ app' = TryApp(app, "Failed")
      /\ session' =
            LET stopped == IF vm # 0 THEN TrySession(session, "Stopping", transitionKind)
                           ELSE session
            IN  TrySession(stopped, "Failed", transitionKind)
  BY DEF FailRuntime, CloseInput, StopVm
<1>2. Down'
  <2>1. CASE ready
    <3>1. session = "Ready" /\ vm # 0 /\ app \in ActiveAppStates
      BY <2>1 DEF Settled, Whole
    <3>2. session' = "Failed"
      BY <1>1, <3>1, CommonEdgesTaken
    <3>3. app' = "Failed"
      BY <1>1, <3>1, AppEdgesTaken
    <3> QED
      BY <1>1, <3>2, <3>3 DEF Down, GoneSession, GoneApp
  <2>2. CASE ~ready
    <3>1. vm = 0 /\ session \in GoneSession /\ app \in GoneApp
      BY <2>2 DEF Settled, Down
    <3>2. session' \in GoneSession
      BY <1>1, <3>1, CommonEdgesTaken
    <3>3. app' = "Failed"
      BY <1>1, <3>1, AppEdgesTaken
    <3> QED
      BY <1>1, <3>2, <3>3 DEF Down, GoneApp
  <2> QED
    BY <2>1, <2>2
<1>3. queue' = <<>> => QueueBelongsToSession'
  BY DEF QueueBelongsToSession
<1>4. pendingSaves' = <<>> => SavesOfGeneration'
  BY DEF SavesOfGeneration
<1> QED
  BY <1>1, <1>2, <1>3, <1>4 DEF Settled, Quiet

\* The context RequestLoad picks is canonical.
LEMMA LoadContextCanonical ==
    ASSUME Settled, ready, ContextIsCanonical
    PROVE  LoadContext = NoContext \/ CanonicalContext(LoadContext)
BY DEF Settled, Whole, ContextIsCanonical, LoadContext, CanonicalContext

\* What the sinks may call, by the call.
LEMMA SafeSinks ==
    ASSUME CallsAreSafe, NEW call, MayCall(call), stack # <<>>
    PROVE  /\ <<Top.pc, call>> \in SafeCalls
           /\ Top.pc \in PumpSinks \cup {"PublishSink", "EffectSink", "DocumentSink",
                                         "EndSink", "ReplaceSink"}
           /\ call = "RequestLoad" =>
                 Top.pc \in PumpSinks \cup {"PublishSink", "EffectSink"}
           /\ call = "RequestSave" =>
                 Top.pc \in PumpSinks \cup {"DocumentSink", "EndSink"}
           /\ call = "RequestSession" => Top.pc # "EndSink"
           /\ call = "Cancel" => Top.pc # "ReplaceSink"
           /\ call \in {"Submit", "EndSession"} => Top.pc \in PumpSinks
<1>1. <<Top.pc, call>> \in SafeCalls
  BY DEF CallsAreSafe, MayCall
<1> QED
  BY <1>1 DEF SafeCalls, PumpSinks, Calls

\* The transition that is started at once on an empty stack.
LEMMA StartFromRest ==
    ASSUME ClientInv, CallInv, stack = <<>>, stack' = Push(Frame("Process", "Next")),
           UNCHANGED <<status, vm, ui, contents, transitionKind>>,
           UNCHANGED pendingSaves,
           policy'.active = policy.active,
           ContextIsCanonical', ~policy'.pending.committed
    PROVE  CallInv'
<1>1. UNCHANGED <<app, session, ready, generation, repoVersion, vm, registry, queue,
                  uiRevision, nextSequence, pinned, snapshot>>
  BY DEF status, ui, contents
<1>2. AtRest
  <2>1. Len(stack) = 0
    BY EmptyStack DEF ClientInv
  <2> QED
    BY <2>1 DEF CallInv, Situation, InStart, InPump, InEnd, InEndOfPump
<1>3. Len(stack') = 1 /\ Top' = Frame("Process", "Next")
  <2>1. /\ Frame("Process", "Next") \in Frames
        /\ Frame("Process", "Next").pc = "Next"
    BY FrameTyped, SinksArePcs DEF Procs
  <2>2. ~Processing /\ Len(stack) = 0
    BY EmptyStack DEF ClientInv
  <2> QED
    BY <2>1, <2>2, PushTyped DEF ClientInv
<1>4. Settled' /\ Quiet'
  BY <1>1, <1>2 DEF AtRest, Settled, Whole, Down, Quiet
<1>5. ProcessAt(Top)'
  BY <1>2, <1>3, <1>4 DEF ProcessAt, AtRest, Frame
<1>6. InStart'
  BY <1>3, <1>4, <1>5 DEF InStart, Frame
<1>7. QueueBelongsToSession' /\ SavesOfGeneration'
  BY <1>1 DEF CallInv, QueueBelongsToSession, SavesOfGeneration
<1> QED
  BY <1>6, <1>7 DEF CallInv, Situation

(***************************************************************************)
(* The API keeps the invariant.                                            *)
(***************************************************************************)
LEMMA BusyAbove ==
    ASSUME StackOK, stack # <<>>
    PROVE  /\ Top.proc = "Process" => Processing /\ Busy
           /\ Top.proc = "Pump" => Pumping /\ Busy
BY TopTyped DEF Busy, Processing, Pumping, InProgress, Top

LEMMA RequestSessionInv ==
    ASSUME ClientInv, CallInv, CallsAreSafe, NEW d \in Descriptors, RequestSession(d)
    PROVE  CallInv'
<1> DEFINE context == [repo |-> d.key, version |-> d.key, packages |-> d.key]
<1>1. /\ EnqueueStart(d, context) /\ StartProcessing /\ MayCall("RequestSession")
      /\ UNCHANGED <<status, vm, ui, contents, transitionKind>>
      /\ UNCHANGED pendingSaves
  BY DEF RequestSession
<1>2. context \in Contexts /\ context.repo = d.key /\ CanonicalContext(context)
  BY CoordinatorAssumption DEF Contexts, CanonicalContext
<1> HIDE DEF context
<1>3. StackOK' /\ RunningStarts' \subseteq RunningStarts
  BY <1>1, StartProcessingKeeps DEF ClientInv
<1>4. /\ policy'.active = policy.active
      /\ policy'.pending.committed => policy.pending.committed
      /\ startContext' \in {startContext, context}
  BY <1>1, <1>2, <1>3, EnqueueStartKeeps DEF ClientInv
<1>5. ContextIsCanonical' /\ ~policy'.pending.committed
  BY <1>2, <1>4 DEF CallInv, ContextIsCanonical, CanonicalContext
<1>6. CASE stack = <<>>
  <2>1. stack' = Push(Frame("Process", "Next"))
    BY <1>1, <1>6, EmptyStack DEF StartProcessing, ClientInv
  <2> QED
    BY <1>1, <1>4, <1>5, <1>6, <2>1, StartFromRest
<1>7. CASE stack # <<>>
  <2>1. Top.pc # "EndSink"
    BY <1>1, <1>7, SafeSinks
  <2>2. Top.proc \in {"Process", "Pump"}
    <3>1. Top.proc \in Procs
      BY <1>7, TopTyped DEF ClientInv, Frames, Procs
    <3>2. Top.proc # "End"
      BY <1>7, <2>1, SituationByTop DEF ClientInv, CallInv, InEnd, InEndOfPump
    <3> QED
      BY <3>1, <3>2 DEF Procs
  <2>3. UNCHANGED stack
    BY <1>1, <1>7, <2>2, BusyAbove DEF StartProcessing, ClientInv
  <2>4. SavesOfGeneration'
    BY <1>1 DEF CallInv, SavesOfGeneration, status
  <2> QED
    BY <1>1, <1>4, <1>5, <2>3, <2>4, OnlyRequests
<1> QED
  BY <1>6, <1>7

LEMMA ReadyCallIsSettled ==
    ASSUME ClientInv, CallInv, ready,
           stack = <<>> \/ Top.pc \in PumpSinks \cup {"PublishSink", "EffectSink", "Loop"}
    PROVE  Settled
<1>1. CASE stack = <<>>
  <2>1. Len(stack) = 0
    BY <1>1, EmptyStack DEF ClientInv
  <2> QED
    BY <2>1 DEF CallInv, Situation, AtRest, InStart, InPump, InEnd, InEndOfPump
<1>2. CASE stack # <<>>
  <2>1. Top.pc \in PumpSinks \cup {"PublishSink", "EffectSink", "Loop"}
    BY <1>2
  <2> QED
    BY <1>2, <2>1
    DEF CallInv, Situation, AtRest, InStart, InPump, InEnd, InEndOfPump, ProcessAt,
        PumpSinks
<1> QED
  BY <1>1, <1>2

LEMMA RequestLoadInv ==
    ASSUME ClientInv, CallInv, CallsAreSafe, RequestLoad
    PROVE  CallInv'
<1>1. /\ EnqueueLoad /\ UNCHANGED pendingSaves
      /\ StartProcessing \/ UNCHANGED stack
      /\ ready /\ MayCall("RequestLoad")
      /\ UNCHANGED <<status, vm, ui, contents, transitionKind>>
  BY DEF RequestLoad
<1>2. StackOK' /\ RunningStarts' \subseteq RunningStarts
  BY <1>1, StartProcessingKeeps DEF ClientInv
<1>3. /\ policy'.active = policy.active
      /\ policy'.pending.committed => policy.pending.committed
      /\ startContext' \in {startContext, LoadContext}
  BY <1>1, <1>2, EnqueueLoadKeeps DEF ClientInv
<1>4. stack # <<>> => Top.pc \in PumpSinks \cup {"PublishSink", "EffectSink"}
  BY <1>1, SafeSinks
<1>5. LoadContext = NoContext \/ CanonicalContext(LoadContext)
  BY <1>1, <1>4, ReadyCallIsSettled, LoadContextCanonical DEF CallInv
<1>6. ContextIsCanonical' /\ ~policy'.pending.committed
  BY <1>3, <1>5 DEF CallInv, ContextIsCanonical, CanonicalContext
<1>7. SavesOfGeneration'
  BY <1>1 DEF CallInv, SavesOfGeneration, status
<1>8. CASE UNCHANGED stack
  BY <1>1, <1>3, <1>6, <1>7, <1>8, OnlyRequests
<1>9. CASE StartProcessing /\ stack = <<>>
  <2>1. stack' = Push(Frame("Process", "Next"))
    BY <1>9, EmptyStack DEF StartProcessing, ClientInv
  <2> QED
    BY <1>1, <1>3, <1>6, <1>9, <2>1, StartFromRest
<1>10. CASE StartProcessing /\ stack # <<>>
  <2>1. Top.proc # "End"
    BY <1>4, <1>10, SituationByTop DEF ClientInv, CallInv, InEnd, InEndOfPump, PumpSinks
  <2>2. Top.proc \in Procs
    BY <1>10, TopTyped DEF ClientInv, Frames, Procs
  <2>3. UNCHANGED stack
    BY <1>10, <2>1, <2>2, BusyAbove DEF StartProcessing, ClientInv, Procs
  <2> QED
    BY <1>8, <2>3
<1> QED
  BY <1>1, <1>8, <1>9, <1>10

\* A save is deferred only from a sink of the pump.
LEMMA RequestSaveInv ==
    ASSUME ClientInv, CallInv, CallsAreSafe, NEW validSlot \in BOOLEAN,
           RequestSave(validSlot)
    PROVE  CallInv'
<1>1. /\ EnqueueSave(validSlot) /\ UNCHANGED startContext /\ MayCall("RequestSave")
      /\ UNCHANGED <<status, vm, ui, contents, transitionKind>>
      /\ UNCHANGED stack
  BY DEF RequestSave
<1>2. RunningStarts' \subseteq RunningStarts /\ generation \in Nat
  BY <1>1, StartProcessingKeeps DEF ClientInv, StateTyped
<1>3. /\ policy'.active = policy.active /\ policy'.pending = policy.pending
      /\ \/ UNCHANGED pendingSaves
         \/ /\ ready /\ Busy
            /\ pendingSaves' =
                  Append(pendingSaves, [id |-> policy.next, gen |-> generation])
  BY <1>1, <1>2, EnqueueSaveKeeps DEF ClientInv
<1>4. ContextIsCanonical' /\ ~policy'.pending.committed /\ generation' = generation
  BY <1>1, <1>3 DEF CallInv, ContextIsCanonical, status
<1>5. CASE UNCHANGED pendingSaves
  <2>1. SavesOfGeneration'
    BY <1>4, <1>5 DEF CallInv, SavesOfGeneration
  <2> QED
    BY <1>1, <1>3, <1>4, <1>5, <2>1, OnlyRequests
<1>6. CASE /\ ready /\ Busy
           /\ pendingSaves' =
                 Append(pendingSaves, [id |-> policy.next, gen |-> generation])
  <2>1. stack # <<>>
    BY <1>6, EmptyStack DEF ClientInv
  <2>2. Top.pc \in PumpSinks \cup {"DocumentSink", "EndSink"}
    BY <1>1, <2>1, SafeSinks
  <2>3. InPump /\ Top.pc # "Loop"
    BY <1>6, <2>1, <2>2
    DEF CallInv, Situation, AtRest, InStart, InPump, InEnd, InEndOfPump, ProcessAt,
        Ended, PumpSinks
  <2>4. SavesOfGeneration'
    <3>1. pendingSaves \in Seq([id : Ids, gen : Nat])
      BY DEF ClientInv, RequestsOK, RequestsTyped
    <3> DEFINE save == [id |-> policy.next, gen |-> generation]
    <3>2. save.gen = generation
      OBVIOUS
    <3>3. pendingSaves' = Append(pendingSaves, save)
      BY <1>6
    <3> HIDE DEF save
    <3>4. \A k \in 1 .. Len(pendingSaves') :
             \/ k \in 1 .. Len(pendingSaves) /\ pendingSaves'[k] = pendingSaves[k]
             \/ pendingSaves'[k] = save
      BY <3>1, <3>3
    <3> QED
      BY <1>4, <3>2, <3>4 DEF CallInv, SavesOfGeneration
  <2> QED
    BY <1>1, <1>3, <1>4, <2>3, <2>4, OnlyRequests
<1> QED
  BY <1>3, <1>5, <1>6

LEMMA CancelInv ==
    ASSUME ClientInv, CallInv, NEW id \in Ids, CancelSessionRequest(id)
    PROVE  CallInv'
<1>1. /\ CancelEffect(id)
      /\ UNCHANGED <<status, vm, ui, contents, transitionKind>>
      /\ UNCHANGED stack
  BY CancelEffects
<1>2. RunningStarts' \subseteq RunningStarts
  BY <1>1, StartProcessingKeeps DEF ClientInv
<1>3. /\ policy'.pending \in {policy.pending, NoOp}
      /\ policy'.active.id = policy.active.id
      /\ policy'.active.kind = policy.active.kind
      /\ policy'.active.committed = policy.active.committed
      /\ (policy'.active = NoOp) = (policy.active = NoOp)
      /\ startContext' \in {startContext, NoContext}
      /\ \/ UNCHANGED pendingSaves
         \/ \E i \in 1 .. Len(pendingSaves) : pendingSaves' = RemoveAt(pendingSaves, i)
  BY <1>1, <1>2, CancelKeepsRequests DEF ClientInv
<1>4. ContextIsCanonical' /\ ~policy'.pending.committed /\ generation' = generation
  BY <1>1, <1>3
  DEF CallInv, ContextIsCanonical, CanonicalContext, status, NoOp, Operation
<1> DEFINE Saves == [id : Ids, gen : Nat]
<1>5. pendingSaves \in Seq(Saves)
  BY DEF ClientInv, RequestsOK, RequestsTyped
<1> HIDE DEF Saves
<1>6. SavesOfGeneration' /\ (pendingSaves = <<>> => pendingSaves' = <<>>)
  <2>1. CASE UNCHANGED pendingSaves
    BY <1>4, <2>1 DEF CallInv, SavesOfGeneration
  <2>2. CASE \E i \in 1 .. Len(pendingSaves) : pendingSaves' = RemoveAt(pendingSaves, i)
    <3>1. PICK i \in 1 .. Len(pendingSaves) : pendingSaves' = RemoveAt(pendingSaves, i)
      BY <2>2
    <3>2. \A k \in 1 .. Len(pendingSaves') :
             \E l \in 1 .. Len(pendingSaves) : pendingSaves'[k] = pendingSaves[l]
      <4>1. i \in Int /\ \A k \in 1 .. Len(pendingSaves') : k \in Int
        BY <1>5, <3>1
      <4>2. \A k \in 1 .. Len(pendingSaves') :
              /\ k < i => pendingSaves'[k] = pendingSaves[k]
                          /\ k \in 1 .. Len(pendingSaves)
              /\ k >= i => pendingSaves'[k] = pendingSaves[k + 1]
                           /\ k + 1 \in 1 .. Len(pendingSaves)
        BY <1>5, <3>1, RemoveAtTyped
      <4> QED
        BY <4>1, <4>2
    <3>3. pendingSaves # <<>>
      BY <1>5, <3>1
    <3> QED
      BY <1>4, <3>2, <3>3 DEF CallInv, SavesOfGeneration
  <2> QED
    BY <1>3, <2>1, <2>2
<1> QED
  BY <1>1, <1>3, <1>4, <1>6, OnlyRequests

\* The next interaction is accepted in the order of its sequence number.
LEMMA QueueGrows ==
    ASSUME StateTyped, QueueBelongsToSession, Settled, ready,
           queue' = Append(queue, [gen |-> registry.gen, rev |-> registry.rev,
                                   seq |-> nextSequence]),
           nextSequence' = nextSequence + 1, UNCHANGED <<vm, registry>>
    PROVE  QueueBelongsToSession'
<1> DEFINE item == [gen |-> registry.gen, rev |-> registry.rev, seq |-> nextSequence]
           Items == [gen : Nat, rev : Nat, seq : Nat]
<1>1. /\ item \in Items /\ item.gen = registry.gen /\ item.rev = registry.rev
      /\ item.seq = nextSequence
      /\ queue \in Seq(Items) /\ nextSequence \in Nat /\ registry.rev \in Nat
  BY DEF StateTyped
<1>2. registry.gen = vm
  BY DEF Settled, Whole
<1>3. queue' = Append(queue, item)
  OBVIOUS
<1> HIDE DEF item
<1>4. /\ Len(queue') = Len(queue) + 1 /\ Len(queue) \in Nat
      /\ \A i \in 1 .. Len(queue) : queue'[i] = queue[i]
      /\ queue'[Len(queue) + 1] = item
  BY <1>1, <1>3
<1>5. \A i \in 1 .. Len(queue) : queue[i].seq \in Nat
  <2> HIDE DEF Items
  <2>1. \A i \in 1 .. Len(queue) : queue[i] \in Items
    BY <1>1
  <2> QED
    BY <2>1 DEF Items
<1>6. \A i \in 1 .. Len(queue') :
         \/ i \in 1 .. Len(queue) /\ queue'[i] = queue[i]
         \/ i = Len(queue) + 1 /\ queue'[i] = item
  BY <1>4
<1>7. \A i \in 1 .. Len(queue') :
          /\ queue'[i].gen = vm' /\ queue'[i].gen = registry'.gen
          /\ queue'[i].rev <= registry'.rev
          /\ queue'[i].seq < nextSequence'
  <2> TAKE i \in 1 .. Len(queue')
  <2>1. CASE i \in 1 .. Len(queue) /\ queue'[i] = queue[i]
    <3>1. /\ queue[i].gen = vm /\ queue[i].gen = registry.gen
          /\ queue[i].rev <= registry.rev /\ queue[i].seq < nextSequence
      BY <2>1 DEF QueueBelongsToSession
    <3>2. queue[i].seq < nextSequence + 1
      BY <1>1, <1>5, <2>1, <3>1
    <3> QED
      BY <2>1, <3>1, <3>2
  <2>2. CASE queue'[i] = item
    BY <1>1, <1>2, <2>2
  <2> QED
    BY <1>6, <2>1, <2>2
<1>8. \A i, j \in 1 .. Len(queue') : i < j => queue'[i].seq < queue'[j].seq
  <2> TAKE i, j \in 1 .. Len(queue')
  <2> HAVE i < j
  <2>1. i \in 1 .. Len(queue) /\ queue'[i] = queue[i]
    BY <1>4, <1>6
  <2>2. CASE j \in 1 .. Len(queue) /\ queue'[j] = queue[j]
    BY <2>1, <2>2 DEF QueueBelongsToSession
  <2>3. CASE queue'[j] = item
    BY <1>1, <2>1, <2>3 DEF QueueBelongsToSession
  <2> QED
    BY <1>6, <2>2, <2>3
<1> QED
  BY <1>7, <1>8 DEF QueueBelongsToSession

LEMMA SubmitInv ==
    ASSUME ClientInv, CallInv, CallsAreSafe, SubmitUiInteraction
    PROVE  CallInv'
<1>1. /\ \/ Pumping /\ UNCHANGED stack
         \/ /\ ~Pumping /\ Len(stack') = Len(stack) + 1
            /\ Top' = Frame("Pump", "Loop")
            /\ \A i \in 1 .. Len(stack) : stack'[i] = stack[i]
      /\ queue' = Append(queue, [gen |-> registry.gen, rev |-> registry.rev,
                                 seq |-> nextSequence])
      /\ nextSequence' = nextSequence + 1
      /\ UNCHANGED <<status, vm, registry, uiRevision, contents, requests,
                     transitionKind>>
  BY SubmitEffect
<1>2. MayCall("Submit") /\ ready
  BY DEF SubmitUiInteraction
<1>3. stack # <<>> => Top.pc \in PumpSinks
  BY <1>2, SafeSinks
<1>4. Settled
  BY <1>2, <1>3, ReadyCallIsSettled
<1>5. QueueBelongsToSession'
  BY <1>1, <1>2, <1>4, QueueGrows DEF ClientInv, CallInv
<1>6. /\ UNCHANGED <<app, session, ready, generation, repoVersion, pinned, snapshot>>
      /\ UNCHANGED <<policy, pendingSaves, startContext>>
  BY <1>1 DEF status, contents, requests
<1>7. Settled'
  BY <1>1, <1>2, <1>4, <1>6 DEF Settled, Whole
<1>8. InPump'
  <2>1. CASE stack = <<>>
    <3>1. Len(stack) = 0 /\ ~Pumping
      BY <2>1, EmptyStack DEF ClientInv
    <3>2. Quiet /\ policy.active = NoOp
      BY <3>1 DEF CallInv, Situation, AtRest, InStart, InPump, InEnd, InEndOfPump
    <3>3. Len(stack') = 1 /\ Top' = Frame("Pump", "Loop")
      BY <1>1, <3>1
    <3>4. PumpAt(Top)'
      BY <1>6, <3>2, <3>3 DEF PumpAt, Frame, Quiet
    <3> QED
      BY <1>6, <1>7, <3>2, <3>3, <3>4 DEF InPump, Frame
  <2>2. CASE stack # <<>>
    <3>1. InPump
      BY <1>2, <1>3, <2>2
      DEF CallInv, Situation, AtRest, InStart, InPump, InEnd, InEndOfPump, ProcessAt,
          Ended, PumpSinks
    <3>2. Pumping
      BY <2>2, <3>1, BusyAbove DEF ClientInv, InPump
    <3>3. stack' = stack /\ Top' = Top
      BY <1>1, <3>2 DEF Top
    <3>4. PumpAt(Top)'
      BY <1>1, <1>6, <3>1, <3>3 DEF InPump, PumpAt
    <3> QED
      BY <1>6, <1>7, <3>1, <3>3, <3>4 DEF InPump
  <2> QED
    BY <2>1, <2>2
<1> QED
  BY <1>5, <1>6, <1>8
  DEF CallInv, Situation, SavesOfGeneration, ContextIsCanonical, CanonicalContext

\* A settled session is taken down to where the teardown sink may see it.  A
\* start cannot be at a sink that may call EndSession.
LEMMA EndSessionInv ==
    ASSUME ClientInv, CallInv, CallsAreSafe, EndSession
    PROVE  CallInv'
<1>1. /\ EndingShutdown \/ JoinsShutdown(policy) \/ CanAllocate(policy)
      /\ policy' = IF EndingShutdown THEN policy
                   ELSE DequeuePendingOperation(EnqueueShutdown(policy))
      /\ ready' = FALSE /\ queue' = <<>> /\ vm' = 0
      /\ session' = IF vm # 0 THEN TrySession(session, "Stopping", "Shutdown") ELSE session
      /\ app' = IF vm # 0 THEN TryApp(app, "ShuttingDown") ELSE app
      /\ stack' = Push(Frame("End", "EndSink"))
      /\ UNCHANGED <<generation, pendingSaves, startContext>>
      /\ MayCall("EndSession")
  BY DEF EndSession, CloseInput, StopVm
<1>2. stack # <<>> => Top.pc \in PumpSinks
  BY <1>1, SafeSinks
<1>3. \/ stack = <<>> /\ AtRest
      \/ stack # <<>> /\ InPump
  <2>1. (stack = <<>>) = (Len(stack) = 0)
    BY EmptyStack DEF ClientInv
  <2> QED
    BY <1>2, <2>1
    DEF CallInv, Situation, AtRest, InStart, InPump, InEnd, InEndOfPump, ProcessAt,
        PumpSinks, Settled
<1>4. Settled
  BY <1>3 DEF AtRest, InPump
<1>5. /\ session' \in GoneSession \cup {"Stopping"}
      /\ app' \in GoneApp \cup {"ShuttingDown"}
  <2>1. CASE ready
    <3>1. session = "Ready" /\ app \in ActiveAppStates /\ vm # 0
      BY <1>4, <2>1 DEF Settled, Whole
    <3> QED
      BY <1>1, <3>1, CommonEdgesTaken, AppEdgesTaken
  <2>2. CASE ~ready
    BY <1>1, <1>4, <2>2 DEF Settled, Down
  <2> QED
    BY <2>1, <2>2
<1>6. /\ StackOK' /\ RunningStarts' \subseteq RunningStarts
      /\ Len(stack') = Len(stack) + 1 /\ Top' = Frame("End", "EndSink")
      /\ \A i \in 1 .. Len(stack) : stack'[i] = stack[i]
  <2>1. /\ Frame("End", "EndSink") \in Frames
        /\ Frame("End", "EndSink").proc # "Process"
    BY FrameTyped, SinksArePcs DEF Procs
  <2> QED
    BY <1>1, <2>1, PushTyped DEF ClientInv
<1>7. /\ policy'.pending \in {policy.pending, NoOp}
      /\ policy'.active.kind = "Shutdown"
  BY <1>1, <1>6, ShutdownKeepsRequests DEF ClientInv
<1>8. Ended'
  BY <1>1, <1>5, <1>7 DEF Ended
<1>9. Situation'
  <2>1. CASE AtRest
    <3>1. Len(stack) = 0
      BY <2>1 DEF AtRest
    <3> QED
      BY <1>1, <1>6, <1>8, <2>1, <3>1 DEF Situation, InEnd, AtRest, Quiet, Frame
  <2>2. CASE InPump /\ stack # <<>>
    <3>1. Len(stack) = 1 /\ Top = stack[1]
      BY <2>2 DEF InPump, Top
    <3>2. stack'[1] = stack[1] /\ Len(stack') = 2
      BY <1>6, <3>1
    <3>3. stack'[1].proc = "Pump" /\ stack'[1].pc \in PumpSinks
      BY <1>2, <2>2, <3>1, <3>2 DEF InPump
    <3> QED
      BY <1>6, <1>8, <3>2, <3>3 DEF Situation, InEndOfPump, Frame
  <2> QED
    BY <1>3, <2>1, <2>2
<1>10. QueueBelongsToSession'
  BY <1>1 DEF QueueBelongsToSession
<1>11. SavesOfGeneration' /\ ContextIsCanonical' /\ ~policy'.pending.committed
  BY <1>1, <1>7
  DEF CallInv, SavesOfGeneration, ContextIsCanonical, CanonicalContext, NoOp, Operation
<1> QED
  BY <1>9, <1>10, <1>11 DEF CallInv

LEMMA FailBootstrapInv ==
    ASSUME ClientInv, CallInv, FailBootstrap
    PROVE  CallInv'
<1>1. FailRuntime(SavesFailed) /\ UNCHANGED stack /\ stack = <<>>
  BY DEF FailBootstrap
<1>2. AtRest
  <2>1. Len(stack) = 0
    BY <1>1, EmptyStack DEF ClientInv
  <2> QED
    BY <2>1 DEF CallInv, Situation, InStart, InPump, InEnd, InEndOfPump
<1>3. Settled' /\ Quiet' /\ QueueBelongsToSession' /\ SavesOfGeneration'
  BY <1>1, <1>2, FailLeavesDown DEF AtRest
<1>4. policy'.active = policy.active /\ policy'.pending = policy.pending
  <2>1. RunningStarts' \subseteq RunningStarts
    BY <1>1, StartProcessingKeeps DEF ClientInv
  <2> QED
    BY <1>1, <2>1, FailKeepsRequests DEF ClientInv
<1>5. UNCHANGED startContext
  BY <1>1 DEF FailRuntime
<1> QED
  BY <1>1, <1>2, <1>3, <1>4, <1>5
  DEF CallInv, Situation, AtRest, ContextIsCanonical, CanonicalContext

\* EndSession returns to the host, or into the sink of the pump it was called from.
LEMMA FinishEndSessionInv ==
    ASSUME ClientInv, CallInv, FinishEndSession
    PROVE  CallInv'
<1>1. /\ stack # <<>> /\ Top.proc = "End" /\ stack' = Pop /\ pendingSaves' = <<>>
      /\ app' = TryApp(app, "Uninitialized")
      /\ session' = TrySession(session, "Destroyed", "Shutdown")
      /\ UNCHANGED <<ready, vm, queue, startContext>>
      /\ policy' = IF SavesFailed.active # NoOp /\ SavesFailed.active.kind = "Shutdown"
                   THEN Record(SavesFailed, SavesFailed.active.id, "Completed")
                   ELSE SavesFailed
  BY DEF FinishEndSession, At
<1>2. InEnd \/ InEndOfPump
  BY <1>1, SituationByTop DEF ClientInv, CallInv
<1>3. Ended
  BY <1>2 DEF InEnd, InEndOfPump
<1>4. StackOK' /\ RunningStarts' \subseteq RunningStarts
  BY <1>1, PopKeeps DEF ClientInv
<1>5. /\ policy'.pending = policy.pending /\ policy'.active = NoOp
  BY <1>1, <1>3, <1>4, ShutdownEnds DEF ClientInv, Ended
<1>6. Down'
  <2>1. session' \in GoneSession
    <3>1. CASE session = "Stopping"
      BY <1>1, <3>1, CommonEdgesTaken DEF GoneSession
    <3>2. CASE session \in GoneSession
      BY <1>1, <3>2 DEF TrySession, GoneSession
    <3> QED
      BY <1>3, <3>1, <3>2 DEF Ended
  <2>2. app' \in GoneApp
    BY <1>1, <1>3, AppEdgesTaken DEF Ended, GoneApp
  <2> QED
    BY <1>1, <1>3, <2>1, <2>2 DEF Down, Ended
<1>7. Settled' /\ Quiet'
  BY <1>1, <1>3, <1>6 DEF Settled, Quiet, Ended
<1>8. /\ Len(stack') = Len(stack) - 1
      /\ \A i \in 1 .. Len(stack') : stack'[i] = stack[i]
  BY <1>1, PopTyped DEF ClientInv
<1>9. Situation'
  <2>1. CASE InEnd
    <3>1. stack' = <<>>
      BY <1>4, <1>8, <2>1, EmptyStack DEF InEnd, StackOK
    <3> QED
      BY <1>5, <1>7, <3>1 DEF Situation, AtRest
  <2>2. CASE InEndOfPump
    <3>1. Len(stack') = 1 /\ stack'[1] = stack[1]
      BY <1>8, <2>2 DEF InEndOfPump
    <3>2. Top' = stack[1]
      BY <3>1 DEF Top
    <3>3. Top'.proc = "Pump" /\ PumpAt(Top)'
      BY <1>1, <1>3, <2>2, <3>2 DEF InEndOfPump, PumpAt, Ended, PumpSinks
    <3> QED
      BY <1>5, <1>7, <3>1, <3>3 DEF Situation, InPump
  <2> QED
    BY <1>2, <2>1, <2>2
<1>10. QueueBelongsToSession' /\ SavesOfGeneration'
  BY <1>1, <1>3 DEF Ended, QueueBelongsToSession, SavesOfGeneration
<1> QED
  BY <1>1, <1>5, <1>9, <1>10 DEF CallInv, ContextIsCanonical, CanonicalContext

(***************************************************************************)
(* The steps of the pump keep the invariant.                               *)
(***************************************************************************)
LEMMA PumpOnTop ==
    ASSUME ClientInv, CallInv, stack # <<>>, Top.proc = "Pump"
    PROVE  InPump /\ Len(stack) = 1
BY SituationByTop DEF ClientInv, CallInv, InPump

\* The queue keeps its order without its head.
LEMMA QueueShrinks ==
    ASSUME StateTyped, QueueBelongsToSession, queue # <<>>, queue' = Tail(queue),
           UNCHANGED <<vm, registry, nextSequence>>
    PROVE  QueueBelongsToSession'
<1>1. queue \in Seq([gen : Nat, rev : Nat, seq : Nat])
  BY DEF StateTyped
<1>2. /\ Len(queue') = Len(queue) - 1 /\ Len(queue) \in Nat
      /\ \A i \in 1 .. Len(queue') :
            i + 1 \in 1 .. Len(queue) /\ queue'[i] = queue[i + 1]
  BY <1>1
<1>3. \A i, j \in 1 .. Len(queue') : i < j => i + 1 < j + 1
  OBVIOUS
<1> QED
  BY <1>2, <1>3 DEF QueueBelongsToSession

\* The pump moves on and nothing else changes.
LEMMA PumpMovesInv ==
    ASSUME ClientInv, CallInv, stack # <<>>, Top.proc = "Pump",
           NEW pc \in {"InteractionSink", "PumpEffectSink", "Saves", "Loop"},
           stack' = Goto(pc), pc = "Loop" => pendingSaves = <<>>,
           UNCHANGED <<status, vm, ui, contents, requests, transitionKind>>
    PROVE  CallInv'
<1>1. InPump /\ Len(stack) = 1
  BY PumpOnTop
<1>2. pc \in Pcs
  BY SinksArePcs
<1>3. Len(stack') = 1 /\ Top' = [Top EXCEPT !.pc = pc]
  BY <1>1, <1>2, GotoTyped DEF ClientInv
<1>4. Top'.proc = "Pump" /\ Top'.pc = pc
  BY <1>3, TopTyped DEF ClientInv, Frames
<1>5. /\ UNCHANGED <<app, session, ready, generation, repoVersion, vm, registry, queue,
                     uiRevision, nextSequence, pinned, snapshot>>
      /\ UNCHANGED <<policy, pendingSaves, startContext>>
  BY DEF status, ui, contents, requests
<1>6. Settled'
  BY <1>1, <1>5 DEF InPump, Settled, Whole, Down
<1>7. PumpAt(Top)'
  BY <1>4, <1>5 DEF PumpAt, PumpSinks
<1>8. InPump'
  BY <1>1, <1>3, <1>4, <1>5, <1>6, <1>7 DEF InPump
<1> QED
  BY <1>5, <1>8
  DEF CallInv, Situation, QueueBelongsToSession, SavesOfGeneration,
      ContextIsCanonical, CanonicalContext

LEMMA PumpPlainInv ==
    ASSUME ClientInv, CallInv, PlayEffects \/ NoEffects \/ SavesDrained
    PROVE  CallInv'
<1>1. /\ UNCHANGED <<status, vm, ui, contents, requests, transitionKind>>
      /\ stack # <<>> /\ Top.proc = "Pump"
      /\ \E pc \in {"PumpEffectSink", "Saves", "Loop"} :
            stack' = Goto(pc) /\ (pc = "Loop" => pendingSaves = <<>>)
  BY DEF PlayEffects, NoEffects, SavesDrained, At
<1> QED
  BY <1>1, PumpMovesInv

LEMMA PumpDoneInv ==
    ASSUME ClientInv, CallInv, PumpDone
    PROVE  CallInv'
<1>1. /\ UNCHANGED <<status, vm, ui, contents, requests, transitionKind>>
      /\ stack # <<>> /\ Top.proc = "Pump" /\ Top.pc = "Loop"
      /\ ~ready \/ queue = <<>>
      /\ \/ stack' = Pop
         \/ ~Processing /\ stack' = Append(Pop, Frame("Process", "Next"))
  BY DEF PumpDone, At
<1>2. InPump /\ Len(stack) = 1
  BY <1>1, PumpOnTop
<1>3. UNCHANGED <<app, session, ready, generation, repoVersion, vm, registry, queue,
                  uiRevision, nextSequence, pinned, snapshot, policy, pendingSaves,
                  startContext>>
  BY <1>1 DEF status, ui, contents, requests
<1>4. Settled' /\ Quiet' /\ policy'.active = NoOp
  BY <1>1, <1>2, <1>3 DEF InPump, PumpAt, Settled, Whole, Down, Quiet
<1>5. CASE stack' = Pop
  <2>1. StackOK' /\ Len(stack') = 0
    BY <1>1, <1>2, <1>5, PopKeeps, PopTyped DEF ClientInv
  <2>2. AtRest'
    BY <1>4, <2>1, EmptyStack DEF AtRest, StackOK
  <2> QED
    BY <1>3, <2>2
    DEF CallInv, Situation, QueueBelongsToSession, SavesOfGeneration,
        ContextIsCanonical, CanonicalContext
<1>6. CASE ~Processing /\ stack' = Append(Pop, Frame("Process", "Next"))
  <2>1. Len(stack') = 1 /\ Top' = Frame("Process", "Next")
    BY <1>1, <1>2, <1>6, PopPushKeeps DEF ClientInv
  <2>2. ProcessAt(Top)'
    BY <1>4, <2>1 DEF ProcessAt, Frame
  <2>3. InStart'
    BY <1>4, <2>1, <2>2 DEF InStart, Frame
  <2> QED
    BY <1>3, <2>3
    DEF CallInv, Situation, QueueBelongsToSession, SavesOfGeneration,
        ContextIsCanonical, CanonicalContext
<1> QED
  BY <1>1, <1>5, <1>6

LEMMA PumpFailInv ==
    ASSUME ClientInv, CallInv, DispatchFails \/ EffectsFail
    PROVE  CallInv'
<1>1. FailRuntime(SavesFailed) /\ stack # <<>> /\ stack' = Pop /\ Top.proc = "Pump"
  BY DEF DispatchFails, EffectsFail, At
<1>2. InPump /\ Len(stack) = 1
  BY <1>1, PumpOnTop
<1>3. Settled' /\ Quiet' /\ QueueBelongsToSession' /\ SavesOfGeneration'
  BY <1>1, <1>2, FailLeavesDown DEF InPump
<1>4. StackOK' /\ RunningStarts' \subseteq RunningStarts /\ Len(stack') = 0
  BY <1>1, <1>2, PopKeeps, PopTyped DEF ClientInv
<1>5. policy'.active = policy.active /\ policy'.pending = policy.pending
  BY <1>1, <1>4, FailKeepsRequests DEF ClientInv
<1>6. UNCHANGED startContext
  BY <1>1 DEF FailRuntime
<1>7. AtRest'
  BY <1>2, <1>3, <1>4, <1>5, EmptyStack DEF AtRest, StackOK, InPump
<1> QED
  BY <1>3, <1>5, <1>6, <1>7 DEF CallInv, Situation, ContextIsCanonical, CanonicalContext

LEMMA ApplyDocumentInv ==
    ASSUME ClientInv, CallInv, NEW applied \in BOOLEAN, ApplyDocument(applied)
    PROVE  CallInv'
<1>1. /\ stack # <<>> /\ Top.proc = "Pump" /\ Top.pc = "PumpDocumentSink"
      /\ stack' = Goto("InteractionSink")
      /\ UNCHANGED <<status, vm, queue, nextSequence, contents, requests,
                     transitionKind>>
      /\ \/ registry' = CommitBindings(Top.rev) /\ uiRevision' = Top.rev
         \/ UNCHANGED <<registry, uiRevision>>
  BY DEF ApplyDocument, At
<1>2. InPump /\ Len(stack) = 1
  BY <1>1, PumpOnTop
<1>3. CASE UNCHANGED <<registry, uiRevision>>
  <2>1. UNCHANGED <<status, vm, ui, contents, requests, transitionKind>>
    BY <1>1, <1>3 DEF ui
  <2> QED
    BY <1>1, <2>1, PumpMovesInv
<1>4. CASE registry' = CommitBindings(Top.rev) /\ uiRevision' = Top.rev
  <2>1. /\ UNCHANGED <<app, session, ready, generation, repoVersion, vm, queue,
                       nextSequence, pinned, snapshot>>
        /\ UNCHANGED <<policy, pendingSaves, startContext>>
    BY <1>1 DEF status, contents, requests
  <2>2. /\ registry \in [gen : Nat, rev : Nat] /\ uiRevision \in Nat
        /\ queue \in Seq([gen : Nat, rev : Nat, seq : Nat])
    BY DEF ClientInv, StateTyped
  <2>3. Top.rev \in Nat
    BY <1>1, TopTyped DEF ClientInv, Frames
  <2>4. registry'.gen = registry.gen /\ registry'.rev = Top.rev
    BY <1>4, <2>2 DEF CommitBindings
  <2>5. ready => registry.rev <= uiRevision /\ uiRevision < Top.rev
    BY <1>1, <1>2 DEF InPump, PumpAt, Settled
  <2>6. ready => Top.rev # 0 /\ registry.rev <= Top.rev
    BY <2>2, <2>3, <2>5
  <2>7. Settled'
    BY <1>2, <1>4, <2>1, <2>3, <2>4, <2>6 DEF InPump, Settled, Whole, Down
  <2>8. QueueBelongsToSession'
    <3>1. CASE queue = <<>>
      BY <2>1, <3>1 DEF QueueBelongsToSession
    <3>2. CASE queue # <<>>
      <4>1. registry.rev <= Top.rev /\ registry.rev \in Nat
        BY <1>2, <2>2, <2>6, <3>2 DEF InPump, Settled
      <4>2. \A i \in 1 .. Len(queue) : queue[i].rev \in Nat
        <5> DEFINE Items == [gen : Nat, rev : Nat, seq : Nat]
        <5>1. queue \in Seq(Items)
          BY <2>2
        <5> HIDE DEF Items
        <5>2. \A i \in 1 .. Len(queue) : queue[i] \in Items
          BY <5>1
        <5> QED
          BY <5>2 DEF Items
      <4>3. \A i \in 1 .. Len(queue) : queue[i].rev <= registry.rev
        BY DEF CallInv, QueueBelongsToSession
      <4>4. \A i \in 1 .. Len(queue) : queue[i].rev <= Top.rev
        BY <2>3, <4>1, <4>2, <4>3
      <4> QED
        BY <2>1, <2>4, <4>4 DEF CallInv, QueueBelongsToSession
    <3> QED
      BY <3>1, <3>2
  <2>9. Len(stack') = 1 /\ Top' = [Top EXCEPT !.pc = "InteractionSink"]
    <3>1. "InteractionSink" \in Pcs
      BY SinksArePcs
    <3> QED
      BY <1>1, <1>2, <3>1, GotoTyped DEF ClientInv
  <2>10. Top'.proc = "Pump" /\ Top'.pc = "InteractionSink"
    BY <1>1, <2>9, TopTyped DEF ClientInv, Frames
  <2>11. InPump'
    BY <1>2, <2>1, <2>7, <2>9, <2>10 DEF InPump, PumpAt, PumpSinks
  <2> QED
    BY <2>1, <2>8, <2>11
    DEF CallInv, Situation, SavesOfGeneration, ContextIsCanonical, CanonicalContext
<1> QED
  BY <1>1, <1>3, <1>4

LEMMA DrainSaveInv ==
    ASSUME ClientInv, CallInv, DrainSave
    PROVE  CallInv'
<1>1. /\ stack # <<>> /\ Top.proc = "Pump" /\ Top.pc = "Saves"
      /\ pendingSaves # <<>>
      /\ policy' \in ExecuteSave(policy, Head(pendingSaves).id)
      /\ pendingSaves' = Tail(pendingSaves)
      /\ UNCHANGED <<status, vm, ui, contents, transitionKind>>
      /\ UNCHANGED startContext /\ UNCHANGED stack
  BY DEF DrainSave, At
<1>2. InPump /\ Top.pc # "Loop"
  BY <1>1, PumpOnTop
<1>3. RunningStarts' \subseteq RunningStarts
  BY <1>1, StartProcessingKeeps DEF ClientInv
<1>4. policy'.active = policy.active /\ policy'.pending = policy.pending
  BY <1>1, <1>3, DrainKeepsRequests DEF ClientInv
<1>5. SavesOfGeneration'
  <2>1. pendingSaves \in Seq([id : Ids, gen : Nat])
    BY DEF ClientInv, RequestsOK, RequestsTyped
  <2>2. \A k \in 1 .. Len(pendingSaves') :
           k + 1 \in 1 .. Len(pendingSaves) /\ pendingSaves'[k] = pendingSaves[k + 1]
    BY <1>1, <2>1
  <2>3. generation' = generation
    BY <1>1 DEF status
  <2> QED
    BY <2>2, <2>3 DEF CallInv, SavesOfGeneration
<1>6. ContextIsCanonical' /\ ~policy'.pending.committed
  BY <1>1, <1>4 DEF CallInv, ContextIsCanonical, CanonicalContext
<1> QED
  BY <1>1, <1>2, <1>4, <1>5, <1>6, OnlyRequests

\* The requests a command may make of its host.
RequestsOf(request) ==
    /\ request = "none" => UNCHANGED requests
    /\ request = "save" => EnqueueSave(TRUE) /\ UNCHANGED startContext
    /\ request = "load" => EnqueueLoad /\ UNCHANGED pendingSaves

LEMMA DispatchRequests ==
    ASSUME ClientInv, CallInv, Settled, ready, NEW request \in ControlRequests,
           generation' = generation, RunningStarts' \subseteq RunningStarts,
           RequestsOf(request)
    PROVE  /\ policy'.active = policy.active /\ ~policy'.pending.committed
           /\ SavesOfGeneration' /\ ContextIsCanonical'
<1>1. CASE request = "none"
  <2>1. UNCHANGED <<policy, pendingSaves, startContext>>
    BY <1>1 DEF RequestsOf, requests
  <2> QED
    BY <2>1 DEF CallInv, SavesOfGeneration, ContextIsCanonical, CanonicalContext
<1>2. CASE request = "save"
  <2>1. EnqueueSave(TRUE) /\ UNCHANGED startContext /\ generation \in Nat
    BY <1>2 DEF RequestsOf, ClientInv, StateTyped
  <2>2. /\ policy'.active = policy.active /\ policy'.pending = policy.pending
        /\ \/ UNCHANGED pendingSaves
           \/ pendingSaves' =
                 Append(pendingSaves, [id |-> policy.next, gen |-> generation])
    BY <2>1, EnqueueSaveKeeps DEF ClientInv
  <2>3. SavesOfGeneration'
    <3>1. pendingSaves \in Seq([id : Ids, gen : Nat])
      BY DEF ClientInv, RequestsOK, RequestsTyped
    <3> DEFINE save == [id |-> policy.next, gen |-> generation]
    <3>2. save.gen = generation
      OBVIOUS
    <3>3. pendingSaves' = pendingSaves \/ pendingSaves' = Append(pendingSaves, save)
      BY <2>2
    <3> HIDE DEF save
    <3>4. \A k \in 1 .. Len(pendingSaves') :
             \/ k \in 1 .. Len(pendingSaves) /\ pendingSaves'[k] = pendingSaves[k]
             \/ pendingSaves'[k] = save
      BY <3>1, <3>3
    <3> QED
      BY <3>2, <3>4 DEF CallInv, SavesOfGeneration
  <2> QED
    BY <2>1, <2>2, <2>3 DEF CallInv, ContextIsCanonical, CanonicalContext
<1>3. CASE request = "load"
  <2>1. EnqueueLoad /\ UNCHANGED pendingSaves
    BY <1>3 DEF RequestsOf
  <2>2. /\ policy'.active = policy.active
        /\ policy'.pending.committed => policy.pending.committed
        /\ startContext' \in {startContext, LoadContext}
    BY <2>1, EnqueueLoadKeeps DEF ClientInv
  <2>3. LoadContext = NoContext \/ CanonicalContext(LoadContext)
    BY LoadContextCanonical DEF CallInv
  <2> QED
    BY <2>1, <2>2, <2>3
    DEF CallInv, SavesOfGeneration, ContextIsCanonical, CanonicalContext
<1> QED
  BY <1>1, <1>2, <1>3 DEF ControlRequests

LEMMA DispatchInv ==
    ASSUME ClientInv, CallInv, NEW request \in ControlRequests,
           NEW document \in DocRevisions \cup {NoDocument}, Dispatch(request, document)
    PROVE  CallInv'
<1>1. /\ stack # <<>> /\ Top.proc = "Pump" /\ Top.pc = "Loop"
      /\ ready /\ queue # <<>> /\ queue' = Tail(queue)
      /\ UNCHANGED <<status, vm, registry, uiRevision, nextSequence, contents,
                     transitionKind>>
  BY DEF Dispatch, At
<1>2. InPump /\ Len(stack) = 1 /\ Settled
  BY <1>1, PumpOnTop DEF InPump
<1>3. UNCHANGED <<app, session, ready, generation, repoVersion, vm, registry,
                  uiRevision, nextSequence, pinned, snapshot>>
  BY <1>1 DEF status, contents
<1>4. document \in Nat /\ uiRevision \in Nat
  BY CoordinatorAssumption DEF NoDocument, ClientInv, StateTyped
<1>5. CandidateRevision(document) \in Nat /\ CandidateRevision(document) > uiRevision
  BY <1>4, CandidateRises
<1>6. /\ RunningStarts' \subseteq RunningStarts
      /\ Len(stack') = 1 /\ Top'.proc = "Pump"
      /\ \/ Top'.pc = "InteractionSink"
         \/ Top'.pc = "PumpDocumentSink" /\ Top'.rev = CandidateRevision(document)
  <2>1. "PumpDocumentSink" \in Pcs /\ "InteractionSink" \in Pcs
    BY SinksArePcs
  <2>2. Top \in Frames
    BY <1>1, TopTyped DEF ClientInv
  <2>3. CASE stack' = Goto("InteractionSink")
    <3>1. /\ RunningStarts' \subseteq RunningStarts
          /\ Len(stack') = 1 /\ Top' = [Top EXCEPT !.pc = "InteractionSink"]
      BY <1>1, <1>2, <2>1, <2>3, GotoTyped DEF ClientInv
    <3> QED
      BY <1>1, <2>2, <3>1 DEF Frames
  <2>4. CASE stack' = [Goto("PumpDocumentSink")
                         EXCEPT ![Len(stack)].rev = CandidateRevision(document)]
    <3> DEFINE rev == CandidateRevision(document)
    <3>1. rev \in Nat /\ stack' = [Goto("PumpDocumentSink") EXCEPT ![Len(stack)].rev = rev]
      BY <1>5, <2>4
    <3> HIDE DEF rev
    <3>2. /\ RunningStarts' \subseteq RunningStarts
          /\ Len(stack') = 1
          /\ Top' = [Top EXCEPT !.pc = "PumpDocumentSink", !.rev = rev]
      BY <1>1, <1>2, <2>1, <3>1, GotoRevTyped DEF ClientInv
    <3> QED
      BY <1>1, <2>2, <3>2 DEF Frames, rev
  <2> QED
    BY <2>3, <2>4 DEF Dispatch
<1>7. /\ policy'.active = policy.active /\ ~policy'.pending.committed
      /\ SavesOfGeneration' /\ ContextIsCanonical'
  <2>1. RequestsOf(request)
    BY DEF Dispatch, RequestsOf
  <2> QED
    BY <1>1, <1>2, <1>3, <1>6, <2>1, DispatchRequests
<1>8. QueueBelongsToSession'
  BY <1>1, QueueShrinks DEF ClientInv, CallInv
<1>9. Settled'
  BY <1>1, <1>2, <1>3 DEF Settled, Whole
<1>10. PumpAt(Top)'
  BY <1>3, <1>4, <1>5, <1>6 DEF PumpAt, PumpSinks
<1>11. InPump'
  BY <1>2, <1>6, <1>7, <1>9, <1>10 DEF InPump
<1> QED
  BY <1>7, <1>8, <1>11 DEF CallInv, Situation

LEMMA PumpInv ==
    ASSUME ClientInv, CallInv, PumpStep
    PROVE  CallInv'
BY PumpPlainInv, PumpDoneInv, PumpFailInv, DispatchInv, ApplyDocumentInv, DrainSaveInv
DEF PumpStep

(***************************************************************************)
(* The steps of a start keep the invariant.                                *)
(***************************************************************************)
LEMMA StartOnTop ==
    ASSUME ClientInv, CallInv, stack # <<>>, Top.proc = "Process"
    PROVE  InStart /\ Len(stack) = 1 /\ Top \in Frames
BY SituationByTop, TopTyped DEF ClientInv, CallInv, InStart

\* Quiet again and with a context as it was: what is left is where the start is.
LEMMA StartMoves ==
    ASSUME CallInv, Quiet', Len(stack') = 1, Top'.proc = "Process", ProcessAt(Top)',
           startContext' \in {startContext, NoContext},
           ~policy'.pending.committed
    PROVE  CallInv'
<1>1. QueueBelongsToSession' /\ SavesOfGeneration'
  BY DEF Quiet, QueueBelongsToSession, SavesOfGeneration
<1>2. ContextIsCanonical'
  BY DEF CallInv, ContextIsCanonical, CanonicalContext
<1>3. InStart'
  BY DEF InStart
<1> QED
  BY <1>1, <1>2, <1>3 DEF CallInv, Situation

\* Where a step of the start leaves its frame.
LEMMA StartGoes ==
    ASSUME ClientInv, CallInv, stack # <<>>, Top.proc = "Process", Top.pc # "Next",
           NEW pc \in Pcs, stack' = Goto(pc)
    PROVE  /\ Len(stack') = 1 /\ Top' = [Top EXCEPT !.pc = pc]
           /\ Top'.proc = "Process" /\ Top'.pc = pc /\ Top'.op = Top.op
           /\ Top'.context = Top.context /\ Top'.rev = Top.rev
           /\ Top'.hadPrior = Top.hadPrior
           /\ pc = "Next" => RunningStarts' = {}
           /\ RunningStarts' \subseteq RunningStarts
           /\ Top.op \in RunningStarts
           /\ policy.active.id = Top.op
<1>1. InStart /\ Len(stack) = 1 /\ Top \in Frames
  BY StartOnTop
<1>2. /\ Len(stack') = 1 /\ Top' = [Top EXCEPT !.pc = pc]
      /\ pc = "Next" => RunningStarts' = {}
      /\ RunningStarts' \subseteq RunningStarts
  BY <1>1, GotoTyped DEF ClientInv
<1>3. Top.op \in RunningStarts
  BY RunningTop DEF ClientInv
<1>4. policy.active.id = Top.op
  BY <1>1 DEF InStart, ProcessAt, StartOf
<1> QED
  BY <1>1, <1>2, <1>3, <1>4 DEF Frames

LEMMA ProcessDoneInv ==
    ASSUME ClientInv, CallInv, ProcessDone
    PROVE  CallInv'
<1>1. /\ UNCHANGED <<status, vm, ui, contents, requests, transitionKind>>
      /\ stack # <<>> /\ Top.proc = "Process" /\ Top.pc = "Next" /\ stack' = Pop
  BY DEF ProcessDone, At
<1>2. InStart /\ Len(stack) = 1
  BY <1>1, StartOnTop
<1>3. UNCHANGED <<app, session, ready, generation, repoVersion, vm, registry, queue,
                  uiRevision, nextSequence, pinned, snapshot, policy, pendingSaves,
                  startContext>>
  BY <1>1 DEF status, ui, contents, requests
<1>4. Settled' /\ Quiet' /\ policy'.active = NoOp
  BY <1>1, <1>2, <1>3 DEF InStart, ProcessAt, Settled, Whole, Down, Quiet
<1>5. StackOK' /\ Len(stack') = 0
  BY <1>1, <1>2, PopKeeps, PopTyped DEF ClientInv
<1>6. AtRest'
  BY <1>4, <1>5, EmptyStack DEF AtRest, StackOK
<1> QED
  BY <1>3, <1>6
  DEF CallInv, Situation, QueueBelongsToSession, SavesOfGeneration,
      ContextIsCanonical, CanonicalContext

LEMMA DequeueStartInv ==
    ASSUME ClientInv, CallInv, DequeueStart
    PROVE  CallInv'
<1>1. /\ stack # <<>> /\ policy.pending # NoOp
      /\ startContext # NoContext /\ startContext' = NoContext
      /\ policy' = DequeuePendingOperation(policy)
      /\ Len(stack') = Len(stack) /\ Top' = TakenFrame
      /\ \A op \in RunningStarts' : op = policy.pending.id
      /\ UNCHANGED <<status, vm, ui, contents, pendingSaves>>
  BY DequeueEffect
<1>2. InStart /\ Len(stack) = 1 /\ Top.pc = "Next"
  BY <1>1, StartOnTop DEF DequeueStart, At
<1>3. policy'.active = policy.pending /\ policy'.pending = NoOp
  BY <1>1, DequeueKeepsRequests DEF ClientInv
<1>4. UNCHANGED <<app, session, ready, generation, repoVersion, vm, registry, queue,
                  uiRevision, nextSequence, pinned, snapshot>>
  BY <1>1 DEF status, ui, contents
<1>5. Settled' /\ Quiet'
  BY <1>1, <1>2, <1>4 DEF InStart, ProcessAt, Settled, Whole, Down, Quiet
<1>6. /\ TakenFrame.proc = "Process" /\ TakenFrame.pc = "Preflight"
      /\ TakenFrame.op = policy.pending.id /\ TakenFrame.context = startContext
      /\ TakenFrame.hadPrior = ready
  BY DEF TakenFrame, Frame
<1>7. CanonicalContext(startContext) /\ ~policy.pending.committed
  BY <1>1 DEF CallInv, ContextIsCanonical
<1>8. ProcessAt(Top)'
  <2>1. StartOf(Top)'
    BY <1>1, <1>3, <1>6, <1>7 DEF StartOf, CanonicalContext
  <2> QED
    BY <1>1, <1>4, <1>5, <1>6, <2>1 DEF ProcessAt
<1>9. ~policy'.pending.committed
  BY <1>3 DEF NoOp, Operation
<1> QED
  BY <1>1, <1>2, <1>5, <1>6, <1>8, <1>9, StartMoves

\* A start that has ended leaves a session that is settled and no active operation.
LEMMA StartEndsInv ==
    ASSUME ClientInv, CallInv, stack # <<>>, Top.proc = "Process", Top.pc # "Next",
           NEW outcome \in Outcomes,
           policy' = Record(policy, Top.op, outcome), stack' = Goto("Next"),
           UNCHANGED <<pendingSaves, startContext>>,
           Settled', Quiet'
    PROVE  CallInv'
<1>1. "Next" \in Pcs
  BY SinksArePcs
<1>2. /\ Len(stack') = 1 /\ Top'.proc = "Process" /\ Top'.pc = "Next"
      /\ RunningStarts' = {} /\ Top.op \in RunningStarts
      /\ policy.active.id = Top.op
  BY <1>1, StartGoes
<1>3. policy'.pending = policy.pending /\ policy'.active = NoOp
  BY <1>2, StartEnds DEF ClientInv
<1>4. ProcessAt(Top)'
  BY <1>2, <1>3 DEF ProcessAt
<1>5. ~policy'.pending.committed
  BY <1>3 DEF CallInv
<1> QED
  BY <1>2, <1>4, <1>5, StartMoves

LEMMA AbortPreflightInv ==
    ASSUME ClientInv, CallInv, AbortPreflight
    PROVE  CallInv'
<1>1. /\ stack # <<>> /\ Top.proc = "Process" /\ Top.pc = "Preflight"
      /\ stack' = Goto("Next")
      /\ UNCHANGED <<generation, repoVersion, vm, ui, contents, pendingSaves,
                     startContext, transitionKind>>
      /\ IF Top.hadPrior
         THEN UNCHANGED <<ready, app, session>>
         ELSE /\ ready' = FALSE
              /\ app' = TryApp(app, "Failed")
              /\ session' = TrySession(session, "Failed", transitionKind)
  BY DEF AbortPreflight, At
<1>2. PICK outcome \in {"Cancelled", "Failed"} : policy' = Record(policy, Top.op, outcome)
  BY DEF AbortPreflight
<1>3. InStart /\ Settled /\ Quiet /\ Top.hadPrior = ready
  BY <1>1, StartOnTop DEF InStart, ProcessAt
<1>4. UNCHANGED <<registry, queue, uiRevision, pinned, snapshot>>
  BY <1>1 DEF ui, contents
<1>5. Settled'
  <2>1. CASE ready
    BY <1>1, <1>3, <1>4, <2>1 DEF Settled, Whole
  <2>2. CASE ~ready
    <3>1. session' \in GoneSession
      BY <1>1, <1>3, <2>2, CommonEdgesTaken DEF Settled, Down
    <3>2. app' \in GoneApp
      BY <1>1, <1>3, <2>2, AppEdgesTaken DEF Settled, Down, GoneApp
    <3> QED
      BY <1>1, <1>3, <1>4, <2>2, <3>1, <3>2 DEF Settled, Down
  <2> QED
    BY <2>1, <2>2
<1>6. Quiet'
  BY <1>1, <1>3, <1>4 DEF Quiet
<1>7. outcome \in Outcomes
  BY DEF Outcomes
<1> QED
  BY <1>1, <1>2, <1>5, <1>6, <1>7, StartEndsInv

LEMMA AbandonInv ==
    ASSUME ClientInv, CallInv, AbortPhases \/ AbortPresentation
    PROVE  CallInv'
<1>1. /\ stack # <<>> /\ Top.proc = "Process" /\ Top.pc \in {"Phases", "DocumentSink"}
      /\ \E outcome \in {"Cancelled", "Failed"} : AbandonStart(outcome)
  BY DEF AbortPhases, AbortPresentation, At
<1>2. PICK outcome \in {"Cancelled", "Failed"} : AbandonStart(outcome)
  BY <1>1
<1>3. /\ policy' = Record(policy, Top.op, outcome) /\ stack' = Goto("Next")
      /\ vm' = 0
      /\ app' = TryApp(app, "Failed")
      /\ session' = TrySession(TrySession(session, "Stopping", Top.kind), "Failed", Top.kind)
      /\ UNCHANGED <<ready, generation, repoVersion, ui, contents,
                     pendingSaves, startContext, transitionKind>>
  BY <1>2 DEF AbandonStart, StopVm
<1>4. /\ InStart /\ Quiet /\ ~ready /\ app = "Bootstrapping"
      /\ session \in DOMAIN NextPhase \cup {"Starting", "PreparingPresentation"}
  BY <1>1, StartOnTop DEF InStart, ProcessAt
<1>5. session' = "Failed"
  BY <1>3, <1>4, CommonEdgesTaken DEF NextPhase
<1>6. app' = "Failed"
  BY <1>3, <1>4, AppEdgesTaken
<1>7. Settled' /\ Quiet'
  BY <1>3, <1>4, <1>5, <1>6 DEF Settled, Down, GoneApp, GoneSession, Quiet, ui
<1>8. outcome \in Outcomes
  BY DEF Outcomes
<1> QED
  BY <1>1, <1>3, <1>7, <1>8, StartEndsInv

LEMMA BeginReplaceInv ==
    ASSUME ClientInv, CallInv, BeginReplace
    PROVE  CallInv'
<1>1. /\ stack # <<>> /\ Top.proc = "Process" /\ Top.pc = "Preflight"
      /\ stack' = Goto("ReplaceSink")
      /\ queue' = <<>> /\ vm' = 0
      /\ UNCHANGED <<status, requests>>
  BY DEF BeginReplace, At, CloseInput, StopVm
<1>2. InStart /\ Settled /\ Quiet /\ StartOf(Top)
  BY <1>1, StartOnTop DEF InStart, ProcessAt
<1>3. UNCHANGED <<app, session, ready, policy, pendingSaves, startContext>>
  BY <1>1 DEF status, requests
<1>4. "ReplaceSink" \in Pcs
  BY SinksArePcs
<1>5. /\ Len(stack') = 1 /\ Top'.proc = "Process" /\ Top'.pc = "ReplaceSink"
      /\ Top'.op = Top.op /\ Top'.context = Top.context
  BY <1>1, <1>4, StartGoes
<1>6. StartOf(Top)'
  BY <1>1, <1>2, <1>3, <1>5 DEF StartOf, CanonicalContext
<1>7. /\ ready' => session' = "Ready" /\ app' \in ActiveAppStates
      /\ ~ready' => Down'
  BY <1>1, <1>2, <1>3 DEF Settled, Whole, Down
<1>8. ProcessAt(Top)'
  BY <1>1, <1>5, <1>6, <1>7 DEF ProcessAt
<1>9. Quiet' /\ ~policy'.pending.committed
  BY <1>1, <1>2, <1>3 DEF Quiet, CallInv
<1> QED
  BY <1>3, <1>5, <1>8, <1>9, StartMoves

LEMMA FinishReplaceInv ==
    ASSUME ClientInv, CallInv, FinishReplace
    PROVE  CallInv'
<1>1. /\ stack # <<>> /\ Top.proc = "Process" /\ Top.pc = "ReplaceSink"
      /\ stack' = Goto("Phases")
      /\ generation' = generation + 1 /\ vm' = generation + 1
      /\ app' = TryApp(app, "Bootstrapping")
      /\ session' = TrySession(session, "Creating", Top.kind)
      /\ ready' = FALSE
      /\ repoVersion' = Top.context.version /\ pinned' = Top.context.repo
      /\ registry' = BeginBindings(generation + 1)
      /\ policy' = CommitActive(policy)
      /\ UNCHANGED <<queue, pendingSaves, startContext>>
  BY DEF FinishReplace, At
<1>2. InStart /\ Quiet /\ StartOf(Top) /\ Top \in Frames
  BY <1>1, StartOnTop DEF InStart, ProcessAt
<1>3. /\ ready => session = "Ready" /\ app \in ActiveAppStates
      /\ ~ready => Down
  BY <1>1, <1>2 DEF InStart, ProcessAt
<1>4. session' = "Creating" /\ app' = "Bootstrapping"
  <2>1. session \in {"None", "Ready", "Failed", "Destroyed"}
    BY <1>3 DEF Down, GoneSession
  <2>2. app \in GoneApp \cup ActiveAppStates
    BY <1>3 DEF Down
  <2>3. Top.kind \in StartKinds
    BY <1>2 DEF Frames
  <2> QED
    BY <1>1, <2>1, <2>2, <2>3, StartEdgesTaken, AppEdgesTaken
<1>5. "Phases" \in Pcs
  BY SinksArePcs
<1>6. /\ Len(stack') = 1 /\ Top'.proc = "Process" /\ Top'.pc = "Phases"
      /\ Top'.op = Top.op /\ Top'.context = Top.context
      /\ RunningStarts' \subseteq RunningStarts
  BY <1>1, <1>5, StartGoes
<1>7. /\ policy'.pending = policy.pending
      /\ policy'.active.id = policy.active.id
      /\ policy'.active # NoOp /\ policy'.active.committed
  BY <1>1, <1>2, <1>6, CommitKeepsRequests DEF ClientInv, StartOf
<1>8. StartOf(Top)'
  BY <1>2, <1>6, <1>7 DEF StartOf, CanonicalContext
<1>9. vm' # 0 /\ vm' = generation' /\ registry' = BeginBindings(vm)'
  <2>1. generation \in Nat
    BY DEF ClientInv, StateTyped
  <2> QED
    BY <1>1, <2>1 DEF BeginBindings
<1>10. pinned' = Top'.context.repo /\ repoVersion' = Top'.context.repo
  BY <1>1, <1>2, <1>6 DEF StartOf, CanonicalContext
<1>11. session' \in DOMAIN NextPhase \cup {"Starting"}
  BY <1>4 DEF NextPhase
<1>12. ProcessAt(Top)'
  BY <1>1, <1>4, <1>6, <1>8, <1>9, <1>10, <1>11 DEF ProcessAt
<1>13. Quiet' /\ ~policy'.pending.committed
  BY <1>1, <1>2, <1>7 DEF Quiet, CallInv
<1> QED
  BY <1>1, <1>6, <1>12, <1>13, StartMoves

LEMMA CompletePhaseInv ==
    ASSUME ClientInv, CallInv, CompletePhase
    PROVE  CallInv'
<1>1. /\ stack # <<>> /\ Top.proc = "Process" /\ Top.pc = "Phases"
      /\ session \in DOMAIN NextPhase
      /\ session' = TrySession(session, NextPhase[session], Top.kind)
      /\ UNCHANGED <<app, ready, generation, repoVersion, vm, ui, contents,
                     requests, stack>>
  BY DEF CompletePhase, At
<1>2. InStart /\ Quiet /\ Top \in Frames /\ Len(stack) = 1
  BY <1>1, StartOnTop DEF InStart
<1>3. UNCHANGED <<registry, queue, pinned, policy, pendingSaves, startContext>>
  BY <1>1 DEF ui, contents, requests
<1>4. Top' = Top
  BY <1>1 DEF Top
<1>5. session' \in DOMAIN NextPhase \cup {"Starting"}
  <2>1. Top.kind \in StartKinds
    BY <1>2 DEF Frames
  <2>2. session' = NextPhase[session]
    BY <1>1, <2>1, StartEdgesTaken
  <2> QED
    BY <1>1, <2>2 DEF NextPhase
<1>6. StartOf(Top)'
  BY <1>1, <1>2, <1>3, <1>4 DEF InStart, ProcessAt, StartOf, CanonicalContext
<1>7. ProcessAt(Top)'
  BY <1>1, <1>2, <1>3, <1>4, <1>5, <1>6 DEF InStart, ProcessAt, BeginBindings
<1> QED
  BY <1>1, <1>2, <1>3, <1>4, <1>7, StartMoves DEF Quiet, CallInv

LEMMA PrepareInitialDocumentInv ==
    ASSUME ClientInv, CallInv, NEW revision \in DocRevisions,
           PrepareInitialDocument(revision)
    PROVE  CallInv'
<1> DEFINE rev == CandidateRevision(revision)
<1>1. /\ stack # <<>> /\ Top.proc = "Process" /\ Top.pc = "Phases"
      /\ session = "Starting"
      /\ session' = TrySession(session, "PreparingPresentation", Top.kind)
      /\ stack' = [Goto("DocumentSink") EXCEPT ![Len(stack)].rev = rev]
      /\ UNCHANGED <<app, ready, generation, repoVersion, vm, ui, contents, requests>>
  BY DEF PrepareInitialDocument, At
<1>2. rev \in Nat /\ rev # 0
  <2>1. revision \in Nat /\ uiRevision \in Nat
    BY CoordinatorAssumption DEF ClientInv, StateTyped
  <2>2. rev \in Nat /\ rev > uiRevision
    BY <2>1, CandidateRises
  <2> HIDE DEF rev
  <2> QED
    BY <2>1, <2>2
<1> HIDE DEF rev
<1>3. InStart /\ Quiet /\ Top \in Frames /\ Len(stack) = 1
  BY <1>1, StartOnTop DEF InStart
<1>4. UNCHANGED <<registry, queue, pinned, policy, pendingSaves, startContext>>
  BY <1>1 DEF ui, contents, requests
<1>5. session' = "PreparingPresentation"
  <2>1. Top.kind \in StartKinds
    BY <1>3 DEF Frames
  <2> QED
    BY <1>1, <2>1, StartEdgesTaken
<1>6. /\ Len(stack') = 1 /\ Top' = [Top EXCEPT !.pc = "DocumentSink", !.rev = rev]
  <2>1. "DocumentSink" \in Pcs
    BY SinksArePcs
  <2> QED
    BY <1>1, <1>2, <1>3, <2>1, GotoRevTyped DEF ClientInv
<1>7. /\ Top'.proc = "Process" /\ Top'.pc = "DocumentSink" /\ Top'.rev = rev
      /\ Top'.op = Top.op /\ Top'.context = Top.context
  BY <1>1, <1>3, <1>6 DEF Frames
<1>8. StartOf(Top)'
  BY <1>1, <1>3, <1>4, <1>7 DEF InStart, ProcessAt, StartOf, CanonicalContext
<1>9. ProcessAt(Top)'
  BY <1>1, <1>2, <1>3, <1>4, <1>5, <1>7, <1>8 DEF InStart, ProcessAt, BeginBindings
<1> QED
  BY <1>3, <1>4, <1>6, <1>7, <1>9, StartMoves DEF Quiet, CallInv

LEMMA PublishReadyInv ==
    ASSUME ClientInv, CallInv, PublishReady
    PROVE  CallInv'
<1>1. /\ stack # <<>> /\ Top.proc = "Process" /\ Top.pc = "DocumentSink"
      /\ stack' = Goto("PublishSink")
      /\ registry' = CommitBindings(Top.rev) /\ uiRevision' = Top.rev
      /\ snapshot' = Top.context.repo
      /\ app' \in {TryApp(app, "MenuActive"), TryApp(app, "GameActive")}
      /\ session' = TrySession(session, "Ready", Top.kind) /\ ready' = TRUE
      /\ UNCHANGED <<generation, repoVersion, vm, queue, pinned, requests>>
  BY DEF PublishReady, At
<1>2. InStart /\ Quiet /\ Top \in Frames /\ Len(stack) = 1 /\ StartOf(Top)
  BY <1>1, StartOnTop DEF InStart, ProcessAt
<1>3. /\ app = "Bootstrapping" /\ session = "PreparingPresentation"
      /\ vm # 0 /\ vm = generation /\ registry = BeginBindings(vm) /\ Top.rev # 0
      /\ pinned = Top.context.repo /\ repoVersion = Top.context.repo
  BY <1>1, <1>2 DEF InStart, ProcessAt
<1>4. UNCHANGED <<policy, pendingSaves, startContext>>
  BY <1>1 DEF requests
<1>5. session' = "Ready" /\ app' \in ActiveAppStates
  <2>1. Top.kind \in StartKinds
    BY <1>2 DEF Frames
  <2> QED
    BY <1>1, <1>3, <2>1, StartEdgesTaken, AppEdgesTaken DEF ActiveAppStates
<1>6. registry'.gen = vm /\ registry'.rev = Top.rev
  BY <1>1, <1>3 DEF CommitBindings, BeginBindings
<1>7. Settled'
  <2>1. Top.rev \in Nat
    BY <1>2 DEF Frames
  <2>2. Top.context.repo # NoContent
    BY <1>2 DEF StartOf, CanonicalContext
  <2> QED
    BY <1>1, <1>3, <1>5, <1>6, <2>1, <2>2 DEF Settled, Whole
<1>8. "PublishSink" \in Pcs
  BY SinksArePcs
<1>9. /\ Len(stack') = 1 /\ Top'.proc = "Process" /\ Top'.pc = "PublishSink"
      /\ Top'.op = Top.op /\ Top'.context = Top.context
  BY <1>1, <1>8, StartGoes
<1>10. StartOf(Top)'
  BY <1>1, <1>2, <1>4, <1>9 DEF StartOf, CanonicalContext
<1>11. ProcessAt(Top)'
  BY <1>1, <1>7, <1>9, <1>10 DEF ProcessAt
<1> QED
  BY <1>1, <1>2, <1>4, <1>9, <1>11, StartMoves DEF Quiet, CallInv

LEMMA PlayStartEffectsInv ==
    ASSUME ClientInv, CallInv, PlayStartEffects
    PROVE  CallInv'
<1>1. /\ stack # <<>> /\ Top.proc = "Process" /\ Top.pc = "PublishSink"
      /\ stack' = Goto("EffectSink")
      /\ UNCHANGED <<status, vm, ui, contents, requests, transitionKind>>
  BY DEF PlayStartEffects, At
<1>2. InStart /\ Quiet /\ Settled /\ ready /\ StartOf(Top)
  BY <1>1, StartOnTop DEF InStart, ProcessAt
<1>3. UNCHANGED <<app, session, ready, generation, repoVersion, vm, registry, queue,
                  uiRevision, pinned, snapshot, policy, pendingSaves, startContext>>
  BY <1>1 DEF status, ui, contents, requests
<1>4. Settled' /\ ready' /\ Quiet'
  BY <1>2, <1>3 DEF Settled, Whole, Down, Quiet
<1>5. "EffectSink" \in Pcs
  BY SinksArePcs
<1>6. /\ Len(stack') = 1 /\ Top'.proc = "Process" /\ Top'.pc = "EffectSink"
      /\ Top'.op = Top.op /\ Top'.context = Top.context
  BY <1>1, <1>5, StartGoes
<1>7. StartOf(Top)'
  BY <1>1, <1>2, <1>3, <1>6 DEF StartOf, CanonicalContext
<1>8. ProcessAt(Top)'
  BY <1>4, <1>6, <1>7 DEF ProcessAt
<1> QED
  BY <1>3, <1>4, <1>6, <1>8, StartMoves DEF CallInv

LEMMA AbortStartEffectsInv ==
    ASSUME ClientInv, CallInv, AbortStartEffects
    PROVE  CallInv'
<1>1. /\ stack # <<>> /\ Top.proc = "Process" /\ Top.pc = "PublishSink"
      /\ stack' = Goto("Next")
      /\ FailRuntime(Record(SavesFailed, Top.op, "Failed"))
  BY DEF AbortStartEffects, At
<1>2. InStart /\ Settled
  BY <1>1, StartOnTop DEF InStart, ProcessAt
<1>3. Settled' /\ Quiet'
  BY <1>1, <1>2, FailLeavesDown
<1>4. "Next" \in Pcs
  BY SinksArePcs
<1>5. /\ Len(stack') = 1 /\ Top'.proc = "Process" /\ Top'.pc = "Next"
      /\ RunningStarts' = {} /\ Top.op \in RunningStarts
      /\ policy.active.id = Top.op
  BY <1>1, <1>4, StartGoes
<1>6. policy'.pending = policy.pending /\ policy'.active = NoOp
  BY <1>1, <1>5, FailStartKeepsRequests DEF ClientInv
<1>7. ProcessAt(Top)'
  BY <1>3, <1>5, <1>6 DEF ProcessAt
<1>8. UNCHANGED startContext
  BY <1>1 DEF FailRuntime
<1> QED
  BY <1>3, <1>5, <1>6, <1>7, <1>8, StartMoves DEF CallInv

LEMMA CompleteStartInv ==
    ASSUME ClientInv, CallInv, CompleteStart
    PROVE  CallInv'
<1>1. /\ stack # <<>> /\ Top.proc = "Process" /\ Top.pc \in {"PublishSink", "EffectSink"}
      /\ stack' = Goto("Next")
      /\ policy' = Record(policy, Top.op, "Completed")
      /\ UNCHANGED <<status, vm, ui, pinned, snapshot, pendingSaves, startContext>>
  BY DEF CompleteStart, At
<1>2. InStart /\ Quiet /\ Settled
  BY <1>1, StartOnTop DEF InStart, ProcessAt
<1>3. UNCHANGED <<app, session, ready, generation, repoVersion, registry, queue,
                  uiRevision>>
  BY <1>1 DEF status, ui
<1>4. Settled' /\ Quiet'
  BY <1>1, <1>2, <1>3 DEF Settled, Whole, Down, Quiet
<1>5. "Completed" \in Outcomes
  BY DEF Outcomes
<1> QED
  BY <1>1, <1>4, <1>5, StartEndsInv

LEMMA StartInv ==
    ASSUME ClientInv, CallInv, StartStep
    PROVE  CallInv'
BY ProcessDoneInv, DequeueStartInv, AbortPreflightInv, BeginReplaceInv,
   FinishReplaceInv, CompletePhaseInv, AbandonInv, PrepareInitialDocumentInv,
   PublishReadyInv, PlayStartEffectsInv, AbortStartEffectsInv, CompleteStartInv
DEF StartStep

LEMMA ApiInv ==
    ASSUME ClientInv, CallInv, CallsAreSafe, ApiStep
    PROVE  CallInv'
BY RequestSessionInv, RequestLoadInv, RequestSaveInv, CancelInv, SubmitInv,
   EndSessionInv, FailBootstrapInv
DEF ApiStep

LEMMA StutterInv ==
    ASSUME ClientInv, CallInv, UNCHANGED vars
    PROVE  CallInv'
<1>1. /\ UNCHANGED <<status, vm, ui, contents, transitionKind>>
      /\ UNCHANGED <<policy, pendingSaves, startContext>>
      /\ UNCHANGED stack
  BY DEF vars, requests
<1>2. SavesOfGeneration' /\ ContextIsCanonical' /\ ~policy'.pending.committed
  BY <1>1 DEF CallInv, SavesOfGeneration, ContextIsCanonical, CanonicalContext, status
<1> QED
  BY <1>1, <1>2, OnlyRequests

LEMMA CallKeeps ==
    ASSUME CallsAreSafe, ClientInv, CallInv, [Next]_vars
    PROVE  CallInv'
BY StutterInv, StartInv, PumpInv, FinishEndSessionInv, ApiInv
DEF Next, InternalStep

LEMMA CallStarts == Init => CallInv
<1> SUFFICES ASSUME Init PROVE CallInv
  OBVIOUS
<1>1. policy.active = NoOp /\ policy.pending = NoOp
  BY DEF Init, PolicyInit, InitialPolicy
<1>2. AtRest
  BY <1>1 DEF Init, AtRest, Settled, Down, Quiet, GoneApp, GoneSession
<1>3. QueueBelongsToSession /\ SavesOfGeneration
  BY EmptyQueue, NoSaves DEF Init
<1> QED
  BY <1>1, <1>2, <1>3 DEF Init, CallInv, Situation, ContextIsCanonical, NoOp, Operation

-----------------------------------------------------------------------------
(***************************************************************************)
(* The invariant of the two halves together.                               *)
(***************************************************************************)
CoordinatorInv == ClientInv /\ CallInv

LEMMA CoordinatorStarts == Init => CoordinatorInv
BY ClientStarts, CallStarts DEF CoordinatorInv

LEMMA CoordinatorKeeps ==
    ASSUME CallsAreSafe
    PROVE  CoordinatorInv /\ [Next]_vars => CoordinatorInv'
BY ClientKeeps, CallKeeps DEF CoordinatorInv, ClientStep

LEMMA WholeWhenReady ==
    ASSUME CoordinatorInv
    PROVE  ReadyIsWhole
<1>1. CASE AtRest \/ InPump
  <2>1. Settled
    BY <1>1 DEF AtRest, InPump
  <2> QED
    BY <2>1 DEF Settled, Whole, Down, GoneApp, ActiveAppStates, ReadyIsWhole
<1>2. CASE InStart
  <2>1. Len(stack) = 1 /\ ProcessAt(Top) /\ Top = stack[1]
    BY <1>2 DEF InStart, Top
  <2>2. CASE Top.pc \in {"Next", "Preflight", "PublishSink", "EffectSink"}
    <3>1. Settled
      BY <2>1, <2>2 DEF ProcessAt
    <3> QED
      BY <3>1 DEF Settled, Whole, Down, GoneApp, ActiveAppStates, ReadyIsWhole
  <2>3. CASE Top.pc = "ReplaceSink"
    <3>1. TearingDownOld
      BY <2>1, <2>3 DEF TearingDownOld
    <3>2. app \in ActiveAppStates => ready /\ session = "Ready"
      BY <2>1, <2>3 DEF ProcessAt, Down, GoneApp, ActiveAppStates
    <3> QED
      BY <3>1, <3>2 DEF ReadyIsWhole
  <2>4. CASE Top.pc \in {"Phases", "DocumentSink"}
    BY <2>1, <2>4 DEF ProcessAt, ActiveAppStates, ReadyIsWhole
  <2> QED
    BY <2>1, <2>2, <2>3, <2>4 DEF ProcessAt
<1>3. CASE InEnd \/ InEndOfPump
  BY <1>3 DEF InEnd, InEndOfPump, Ended, GoneApp, ActiveAppStates, ReadyIsWhole
<1> QED
  BY <1>1, <1>2, <1>3 DEF CoordinatorInv, CallInv, Situation

(***************************************************************************)
(* A Ready session is whole, for any contents and faults, as long as the   *)
(* sinks only make safe calls (PublishReady sets readiness last, FailRuntime*)
(* and EndSession clear it first).                                         *)
(***************************************************************************)
THEOREM ReadySessionIsWhole ==
    ASSUME CallsAreSafe
    PROVE  Spec => []ReadyIsWhole
<1>1. CoordinatorInv /\ [Next]_vars => CoordinatorInv'
  BY CoordinatorKeeps
<1>2. CoordinatorInv => ReadyIsWhole
  BY WholeWhenReady
<1> QED
  BY <1>1, <1>2, CoordinatorStarts, PTL DEF Spec

(***************************************************************************)
(* No interaction outlives the session it was made in, and interactions    *)
(* are dispatched in the order they were accepted.                         *)
(***************************************************************************)
THEOREM QueueAlwaysBelongsToSession ==
    ASSUME CallsAreSafe
    PROVE  Spec => []QueueBelongsToSession
<1>1. CoordinatorInv /\ [Next]_vars => CoordinatorInv'
  BY CoordinatorKeeps
<1>2. CoordinatorInv => QueueBelongsToSession
  BY DEF CoordinatorInv, CallInv
<1> QED
  BY <1>1, <1>2, CoordinatorStarts, PTL DEF Spec

(***************************************************************************)
(* When every call has returned nothing is left behind: no VM without a    *)
(* Ready session, no active operation, no deferred save, no interaction.   *)
(***************************************************************************)
THEOREM NothingRunsAtRest ==
    ASSUME CallsAreSafe
    PROVE  Spec => []AtRestNothingRuns
<1>1. CoordinatorInv /\ [Next]_vars => CoordinatorInv'
  BY CoordinatorKeeps
<1>2. CoordinatorInv => AtRestNothingRuns
  <2> SUFFICES ASSUME CoordinatorInv, stack = <<>>
               PROVE  /\ (vm # 0) = ready /\ (session = "Ready") = ready
                      /\ policy.active = NoOp
                      /\ pendingSaves = <<>> /\ queue = <<>>
    BY DEF AtRestNothingRuns
  <2>1. Len(stack) = 0
    BY EmptyStack DEF CoordinatorInv, ClientInv
  <2>2. AtRest
    BY <2>1
    DEF CoordinatorInv, CallInv, Situation, InStart, InPump, InEnd, InEndOfPump
  <2>3. ready \in BOOLEAN
    BY DEF CoordinatorInv, ClientInv, StateTyped
  <2> QED
    BY <2>2, <2>3 DEF AtRest, Settled, Whole, Down, GoneSession, Quiet
<1> QED
  BY <1>1, <1>2, CoordinatorStarts, PTL DEF Spec

LEMMA OneTransition ==
    ASSUME CoordinatorInv
    PROVE  RunningStartIsActive
<1> DEFINE transitions == {i \in 1 .. Len(stack) :
                              \/ stack[i].proc = "End"
                              \/ stack[i].proc = "Process" /\ stack[i].pc # "Next"}
<1>1. \E n \in Nat : transitions \subseteq {n}
  <2>1. CASE AtRest
    <3>1. Len(stack) = 0
      BY <2>1 DEF AtRest
    <3> QED
      BY <3>1
  <2>2. CASE InStart \/ InPump \/ InEnd
    <3>1. Len(stack) = 1
      BY <2>2 DEF InStart, InPump, InEnd
    <3> QED
      BY <3>1
  <2>3. CASE InEndOfPump
    <3>1. Len(stack) = 2 /\ 1 \notin transitions
      BY <2>3 DEF InEndOfPump
    <3>2. \A i \in transitions : i = 2
      BY <3>1
    <3> QED
      BY <3>2
  <2> QED
    BY <2>1, <2>2, <2>3 DEF CoordinatorInv, CallInv, Situation
<1>2. ASSUME NEW i \in transitions, stack[i].proc = "Process"
      PROVE  /\ policy.active.id = stack[i].op
             /\ policy.active.committed
                   <=> stack[i].pc \notin {"Preflight", "ReplaceSink"}
  <2>1. stack[i].pc # "Next" /\ i \in 1 .. Len(stack)
    BY <1>2
  <2>2. CASE AtRest
    <3>1. Len(stack) = 0
      BY <2>2 DEF AtRest
    <3> QED
      BY <2>1, <3>1
  <2>3. CASE InStart
    <3>1. i = 1 /\ Top = stack[1]
      BY <2>1, <2>3 DEF InStart, Top
    <3> QED
      BY <2>1, <2>3, <3>1 DEF InStart, ProcessAt, StartOf
  <2>4. CASE InPump \/ InEnd \/ InEndOfPump
    <3>1. \A k \in 1 .. Len(stack) : stack[k].proc # "Process"
      BY <2>4 DEF InPump, InEnd, InEndOfPump, Top
    <3> QED
      BY <1>2, <2>1, <3>1
  <2> QED
    BY <2>2, <2>3, <2>4 DEF CoordinatorInv, CallInv, Situation
<1>3. Cardinality(transitions) <= 1
  <2> HIDE DEF transitions
  <2>1. PICK n \in Nat : transitions \subseteq {n}
    BY <1>1
  <2>2. transitions = {} \/ transitions = {n}
    BY <2>1
  <2>3. Cardinality({}) = 0 /\ Cardinality({n}) = 1
    BY FS_EmptySet, FS_Singleton
  <2> QED
    BY <2>2, <2>3
<1> QED
  BY <1>2, <1>3 DEF RunningStartIsActive

(***************************************************************************)
(* At most one transition is executed at a time, and it is the policy's    *)
(* active operation, with the commit mark that tells whether the old       *)
(* session is already gone.                                                *)
(***************************************************************************)
THEOREM RunningStartAlwaysActive ==
    ASSUME CallsAreSafe
    PROVE  Spec => []RunningStartIsActive
<1>1. CoordinatorInv /\ [Next]_vars => CoordinatorInv'
  BY CoordinatorKeeps
<1>2. CoordinatorInv => RunningStartIsActive
  BY OneTransition
<1> QED
  BY <1>1, <1>2, CoordinatorStarts, PTL DEF Spec

\* An operation that is completed by a step is one the step may complete.
LEMMA CompletedByStep ==
    ASSUME CoordinatorInv, [Next]_vars, NEW id \in Ids,
           QueryOutcome(policy, id) = "InProgress",
           QueryOutcome(policy', id) = "Completed"
    PROVE  MayComplete(id) /\ id \in policy.inProgress
<1>1. PICK S : PolicyMove(policy, policy', S) /\ \A i \in S : MayComplete(i)
  BY ClientKeeps DEF CoordinatorInv, ClientStep
<1>2. policy \in Policies /\ policy' \in Policies
  BY <1>1 DEF PolicyMove, Good, CoordinatorInv, ClientInv, RequestsOK
<1>3. policy.outcomes[id] # "Completed" /\ id \in policy.inProgress
  BY <1>2 DEF QueryOutcome, Policies, Outcomes, NoOutcome
<1>4. policy'.outcomes[id] = "Completed"
  BY <1>2 DEF QueryOutcome, Policies, Outcomes, NoOutcome
<1> QED
  BY <1>1, <1>3, <1>4 DEF PolicyMove, CompletesOnly

(***************************************************************************)
(* A start is reported Completed only when its session is the Ready one.   *)
(***************************************************************************)
THEOREM CompletedStartIsReady ==
    ASSUME CallsAreSafe
    PROVE  Spec => CompletedMeansReady
<1>1. CoordinatorInv /\ [Next]_vars => CoordinatorInv'
  BY CoordinatorKeeps
<1>2. ASSUME CoordinatorInv, [Next]_vars
      PROVE  \A id \in RunningStarts :
                QueryOutcome(policy, id) = "InProgress"
                    /\ QueryOutcome(policy', id) = "Completed"
                => ready' /\ session' = "Ready" /\ vm' # 0
  <2> TAKE id \in RunningStarts
  <2> HAVE /\ QueryOutcome(policy, id) = "InProgress"
           /\ QueryOutcome(policy', id) = "Completed"
  <2>1. id \in Ids
    <3>1. RunningStarts \subseteq policy.inProgress /\ policy \in Policies
      BY <1>2 DEF CoordinatorInv, ClientInv, RequestsOK, StartsInProgress, Good
    <3>2. policy.inProgress \subseteq Ids
      BY <3>1 DEF Policies
    <3> QED
      BY <3>1, <3>2
  <2>2. MayComplete(id) /\ id \in policy.inProgress
    BY <1>2, <2>1, CompletedByStep
  <2>3. StartCompletes
    BY <2>2 DEF MayComplete
  <2>4. stack # <<>> /\ Top.proc = "Process" /\ Top.pc \in {"PublishSink", "EffectSink"}
    BY <2>3 DEF StartCompletes, At
  <2>5. ready /\ Settled
    BY <1>2, <2>4, StartOnTop DEF CoordinatorInv, InStart, ProcessAt
  <2>6. UNCHANGED <<ready, session, vm>>
    BY <2>3 DEF StartCompletes, status
  <2> QED
    BY <2>5, <2>6 DEF Settled, Whole
<1> QED
  BY <1>1, <1>2, CoordinatorStarts, PTL DEF Spec, CompletedMeansReady

(***************************************************************************)
(* A deferred save that completes has saved the session it was requested   *)
(* in: no replacement or end of the session comes between the two without  *)
(* failing the save.                                                       *)
(***************************************************************************)
THEOREM SaveAlwaysOfItsSession ==
    ASSUME CallsAreSafe
    PROVE  Spec => SaveIsOfItsSession
<1>1. CoordinatorInv /\ [Next]_vars => CoordinatorInv'
  BY CoordinatorKeeps
<1>2. ASSUME CoordinatorInv, [Next]_vars
      PROVE  \A i \in 1 .. Len(pendingSaves) :
                LET save == pendingSaves[i]
                IN  QueryOutcome(policy, save.id) = "InProgress"
                        /\ QueryOutcome(policy', save.id) = "Completed"
                    => save.gen = vm
  <2> SUFFICES ASSUME NEW i \in 1 .. Len(pendingSaves),
                      QueryOutcome(policy, pendingSaves[i].id) = "InProgress",
                      QueryOutcome(policy', pendingSaves[i].id) = "Completed"
               PROVE  pendingSaves[i].gen = vm
    OBVIOUS
  <2> DEFINE id == pendingSaves[i].id
  <2>1. id \in SaveIds /\ id \in Ids
    <3>1. id \in SaveIds
      BY DEF SaveIds
    <3>2. SaveIds \subseteq policy.inProgress /\ policy \in Policies
      BY <1>2 DEF CoordinatorInv, ClientInv, RequestsOK, SavesInProgress, Good
    <3>3. policy.inProgress \subseteq Ids
      BY <3>2 DEF Policies
    <3> QED
      BY <3>1, <3>2, <3>3
  <2>2. MayComplete(id) /\ id \in policy.inProgress
    BY <1>2, <2>1, CompletedByStep
  <2>3. ready /\ vm # 0
    BY <2>1, <2>2 DEF MayComplete
  <2>4. pendingSaves[i].gen = generation
    BY <1>2 DEF CoordinatorInv, CallInv, SavesOfGeneration
  <2>5. pendingSaves # <<>>
    BY <1>2 DEF CoordinatorInv, ClientInv, RequestsOK, RequestsTyped
  <2>6. Settled
    BY <1>2, <2>3, <2>5
    DEF CoordinatorInv, CallInv, Situation, AtRest, InStart, InPump, InEnd,
        InEndOfPump, Quiet, Ended
  <2> QED
    BY <2>3, <2>4, <2>6 DEF Settled, Whole
<1> QED
  BY <1>1, <1>2, CoordinatorStarts, PTL DEF Spec, SaveIsOfItsSession
==============================================================================
