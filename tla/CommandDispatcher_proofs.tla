------------------------ MODULE CommandDispatcher_proofs ------------------------
(***************************************************************************)
(* Proofs about CommandDispatcher, for every state tree, every number of   *)
(* commands and calls, every capacity and whoever the callers are.         *)
(*                                                                         *)
(* The inductive invariant IInv says which flags are set at which place of *)
(* a dispatch (Control), which commands have an outcome (Decided), and     *)
(* whose facts and requests wait where (Owned).                            *)
(***************************************************************************)
EXTENDS CommandDispatcher, SequenceTheorems, TLAPS

Deciding == {"validate", "handle"}
Committed == {"pump", "subscribe", "resolve"}

\* The flags of the four modules tell the place of the dispatch.
Control ==
    /\ windowOpen <=> pc = "handle"
    /\ ~windowOpen => journal = EmptyJournal
    /\ contextOf = IF pc = "handle" THEN current.id ELSE 0
    /\ pc # "handle" => pending = <<>>
    /\ isPumping <=> pc \in {"pump", "subscribe"}
    /\ ~isPumping => eventQueue = <<>>
    /\ staging <=> pc \in {"handle", "pump", "subscribe"}
    /\ ~staging => staged = <<>>
    /\ isDispatching <=> pc \in Deciding \cup Committed
    /\ isDispatching => phase # "idle"
    /\ pc \in Deciding \cup Committed => current.id \in 1 .. issued

\* A command that waits or has just begun has no outcome, and no two share
\* an id; one whose facts are delivered is committed.
Decided ==
    /\ \A i \in DOMAIN deferred :
          /\ deferred[i].id \in 1 .. issued
          /\ outcome[deferred[i].id] = "none"
          /\ pc \in Deciding => deferred[i].id # current.id
    /\ \A i, j \in DOMAIN deferred : i # j => deferred[i].id # deferred[j].id
    /\ \A id \in Ids : id > issued => outcome[id] = "none"
    /\ pc \in Deciding => outcome[current.id] = "none"
    /\ pc \in Committed => outcome[current.id] = "committed"

\* The facts of an open context are its command's.
Owned == \A i \in DOMAIN pending : pending[i].by = current.id

IInv == TypeOK /\ Control /\ Decided /\ Owned /\ RequestsOfCommitted

-----------------------------------------------------------------------------
(***************************************************************************)
(* Every step of the dispatcher is a step of each of the three modules.    *)
(***************************************************************************)

WindowStep ==
    \/ UNCHANGED windowVars
    \/ BeginTransaction
    \/ CommitTransaction
    \/ RollbackTransaction
    \/ \E c \in Cells, v \in Contents : Write(c, v)

BusStep ==
    \/ UNCHANGED busVars
    \/ BeginContext(current.id)
    \/ \E fact \in Facts : Enqueue(fact)
    \/ CommitContext
    \/ DeliverFact
    \/ EndPump
    \/ RollbackContext
    \/ DiscardContext

OutboundStep ==
    \/ UNCHANGED outboundVars
    \/ BeginStaging
    \/ \E req \in Requests : Request(req)
    \/ CommitStaged
    \/ DropStaged
    \/ TakeRequests

\* The journal of a transaction has the type of the cells it undoes.
LEMMA WindowKeepsType == ASSUME WindowType, WindowStep PROVE WindowType'
<1>1. CASE UNCHANGED windowVars
     BY <1>1 DEF WindowType, windowVars
<1>2. CASE BeginTransaction \/ CommitTransaction
     BY <1>2 DEF WindowType, BeginTransaction, CommitTransaction, EmptyJournal
<1>3. CASE RollbackTransaction
     BY <1>3 DEF WindowType, RollbackTransaction, Restored, EmptyJournal, Contents
<1>4. ASSUME NEW c \in Cells, NEW v \in Contents, Write(c, v) PROVE WindowType'
     BY <1>4 DEF WindowType, Write, Recorded
<1> QED
  BY <1>1, <1>2, <1>3, <1>4 DEF WindowStep

\* Queues of facts hold facts.
LEMMA BusKeepsType == ASSUME BusType, DispatchType, BusStep PROVE BusType'
<1>1. <<>> \in Seq(Facts)
  BY EmptySeq
<1>2. \A s, t \in Seq(Facts) : s \o t \in Seq(Facts)
  BY ConcatProperties
<1>3. \A s \in Seq(Facts), fact \in Facts : Append(s, fact) \in Seq(Facts)
  BY AppendProperties
<1>4. \A s \in Seq(Facts) : s # <<>> => Head(s) \in Facts /\ Tail(s) \in Seq(Facts)
  BY HeadTailProperties
<1>5. CASE UNCHANGED busVars
     BY <1>5 DEF BusType, busVars
<1>6. CASE BeginContext(current.id)
  <2>1. current.id \in Nat
    BY DispatcherAssumption DEF DispatchType, Commands
  <2> QED
    BY <1>1, <1>6, <2>1 DEF BusType, BeginContext
<1>7. ASSUME NEW fact \in Facts, Enqueue(fact) PROVE BusType'
     BY <1>3, <1>7 DEF BusType, Enqueue
<1>8. CASE CommitContext
     BY <1>1, <1>2, <1>8 DEF BusType, CommitContext
<1>9. CASE DeliverFact
     BY <1>3, <1>4, <1>9 DEF BusType, DeliverFact
<1>10. CASE EndPump
     BY <1>10 DEF BusType, EndPump
<1>11. CASE RollbackContext
     BY <1>1, <1>11 DEF BusType, RollbackContext
<1>12. CASE DiscardContext
     BY <1>1, <1>12 DEF BusType, DiscardContext
<1> QED
  BY <1>5, <1>6, <1>7, <1>8, <1>9, <1>10, <1>11, <1>12 DEF BusStep

\* A prefix of a queue of requests is one.
LEMMA PrefixOfRequests ==
    ASSUME NEW s \in Seq(Requests), NEW n \in Nat, n <= Len(s)
    PROVE  SubSeq(s, 1, n) \in Seq(Requests)
<1>1. \A i \in 1 .. n : s[i] \in Requests
  BY ElementOfSeq, LenProperties
<1> QED
  BY <1>1, SubSeqProperties

\* Queues of requests hold requests.
LEMMA OutboundKeepsType == ASSUME OutboundType, OutboundStep PROVE OutboundType'
<1>1. <<>> \in Seq(Requests)
  BY EmptySeq
<1>2. CASE UNCHANGED outboundVars
     BY <1>2 DEF OutboundType, outboundVars
<1>3. CASE BeginStaging \/ DropStaged \/ TakeRequests
     BY <1>1, <1>3 DEF OutboundType, BeginStaging, DropStaged, TakeRequests
<1>4. ASSUME NEW req \in Requests, Request(req) PROVE OutboundType'
  <2>1. \A s \in Seq(Requests) : Append(s, req) \in Seq(Requests)
    BY AppendProperties
  <2> QED
    BY <1>4, <2>1 DEF OutboundType, Request
<1>5. CASE CommitStaged
  <2> DEFINE all == committed \o staged
             n == IF Len(all) < MaxRequests THEN Len(all) ELSE MaxRequests
  <2>1. all \in Seq(Requests) /\ Len(all) \in Nat
    BY ConcatProperties, LenProperties DEF OutboundType
  <2>2. n \in Nat /\ n <= Len(all)
    BY <2>1, DispatcherAssumption
  <2> HIDE DEF all, n
  <2>3. SubSeq(all, 1, n) \in Seq(Requests)
    BY <2>1, <2>2, PrefixOfRequests
  <2> USE DEF all, n
  <2> QED
    BY <1>1, <1>5, <2>3 DEF OutboundType, CommitStaged
<1> QED
  BY <1>2, <1>3, <1>4, <1>5 DEF OutboundStep

\* A step of the dispatcher is one of the window, or leaves it alone.
LEMMA StepsOfWindow == ASSUME IInv, Next PROVE WindowStep
<1>1. ASSUME NEW who \in Callers, NEW kind \in Kinds, Call(who, kind) PROVE WindowStep
     BY <1>1 DEF Call, WindowStep
<1>2. ASSUME NEW who \in Callers, CallRefused(who) PROVE WindowStep
     BY <1>2 DEF CallRefused, WindowStep
<1>3. ASSUME NEW kind \in Kinds, DeferOutside(kind) PROVE WindowStep
     BY <1>3 DEF DeferOutside, WindowStep
<1>4. CASE DrainQueue
     BY <1>4 DEF DrainQueue, WindowStep
<1>5. CASE DrainQueueRefused
     BY <1>5 DEF DrainQueueRefused, WindowStep
<1>6. CASE DrainNext
     BY <1>6 DEF DrainNext, WindowStep
<1>7. CASE DrainDone
     BY <1>7 DEF DrainDone, WindowStep
<1>8. CASE ValidatorsAllow
     BY <1>8 DEF ValidatorsAllow, WindowStep
<1>9. CASE ValidatorRefuses
     BY <1>9 DEF ValidatorRefuses, WindowStep
<1>10. CASE ValidatorThrows
     BY <1>10 DEF ValidatorThrows, WindowStep
<1>11. ASSUME NEW c \in Canonical, NEW v \in Contents, HandlerWrites(c, v) PROVE WindowStep
     BY <1>11, WindowAssumption DEF HandlerWrites, WindowStep
<1>12. CASE HandlerEmits
     BY <1>12 DEF HandlerEmits, HandlerCall, WindowStep
<1>13. ASSUME NEW kind \in Kinds, HandlerDefers(kind) PROVE WindowStep
     BY <1>13 DEF HandlerDefers, HandlerCall, WindowStep
<1>14. ASSUME NEW mode \in Contents, SetMode(mode) PROVE WindowStep
     BY <1>14, DispatcherAssumption DEF SetMode, WindowStep
<1>15. ASSUME NEW wants \in Wants, UserRequests(wants) PROVE WindowStep
     BY <1>15 DEF UserRequests, UserCall, WindowStep
<1>16. CASE SaveHandlerRequests
     BY <1>16 DEF SaveHandlerRequests, HandlerCall, WindowStep
<1>17. CASE HandlerSucceeds
     BY <1>17 DEF HandlerSucceeds, WindowStep
<1>18. CASE HandlerRefuses
     BY <1>18 DEF HandlerRefuses, WindowStep
<1>19. CASE HandlerThrows
     BY <1>19 DEF HandlerThrows, Raise, WindowStep
<1>20. CASE PumpNext
     BY <1>20 DEF PumpNext, WindowStep
<1>21. CASE PumpLimitExceeded
     BY <1>21 DEF PumpLimitExceeded, WindowStep
<1>22. CASE SubscriberEmits
     BY <1>22 DEF SubscriberEmits, SubscriberCall, WindowStep
<1>23. ASSUME NEW kind \in Kinds, SubscriberDefers(kind) PROVE WindowStep
     BY <1>23 DEF SubscriberDefers, SubscriberCall, WindowStep
<1>24. CASE SubscribersReturn
     BY <1>24 DEF SubscribersReturn, WindowStep
<1>25. CASE SubscriberThrows
     BY <1>25 DEF SubscriberThrows, WindowStep
<1>26. CASE PumpDone
     BY <1>26 DEF PumpDone, WindowStep
<1>27. CASE Resolve
     BY <1>27 DEF Resolve, WindowStep
<1>28. CASE ResolveThrows
     BY <1>28 DEF ResolveThrows, WindowStep
<1>29. CASE HostServesRequests
     BY <1>29 DEF HostServesRequests, WindowStep
<1>30. CASE UserShows
     BY <1>30 DEF UserShows, UserCall, WindowStep
<1> QED
  BY <1>1, <1>2, <1>3, <1>4, <1>5, <1>6, <1>7, <1>8, <1>9, <1>10, <1>11,
     <1>12, <1>13, <1>14, <1>15, <1>16, <1>17, <1>18, <1>19, <1>20, <1>21,
     <1>22, <1>23, <1>24, <1>25, <1>26, <1>27, <1>28, <1>29, <1>30
     DEF Next, InternalStep, StartMode, EndMode, Contents

\* A step of the dispatcher is one of the bus, or leaves it alone.
LEMMA StepsOfBus == ASSUME IInv, Next PROVE BusStep
<1>1. ASSUME NEW who \in Callers, NEW kind \in Kinds, Call(who, kind) PROVE BusStep
     BY <1>1 DEF Call, BusStep
<1>2. ASSUME NEW who \in Callers, CallRefused(who) PROVE BusStep
     BY <1>2 DEF CallRefused, BusStep
<1>3. ASSUME NEW kind \in Kinds, DeferOutside(kind) PROVE BusStep
     BY <1>3 DEF DeferOutside, BusStep
<1>4. CASE DrainQueue
     BY <1>4 DEF DrainQueue, BusStep
<1>5. CASE DrainQueueRefused
     BY <1>5 DEF DrainQueueRefused, BusStep
<1>6. CASE DrainNext
     BY <1>6 DEF DrainNext, BusStep
<1>7. CASE DrainDone
     BY <1>7 DEF DrainDone, BusStep
<1>8. CASE ValidatorsAllow
     BY <1>8 DEF ValidatorsAllow, BusStep
<1>9. CASE ValidatorRefuses
     BY <1>9 DEF ValidatorRefuses, BusStep
<1>10. CASE ValidatorThrows
     BY <1>10 DEF ValidatorThrows, Raise, BusStep
<1>11. ASSUME NEW c \in Canonical, NEW v \in Contents, HandlerWrites(c, v) PROVE BusStep
     BY <1>11 DEF HandlerWrites, HandlerCall, BusStep
<1>12. CASE HandlerEmits
     BY <1>12, DispatcherAssumption DEF HandlerEmits, HandlerCall, PlainFacts,
            IInv, Control, Deciding, Ids, TypeOK, DispatchType, BusStep
<1>13. ASSUME NEW kind \in Kinds, HandlerDefers(kind) PROVE BusStep
     BY <1>13 DEF HandlerDefers, HandlerCall, BusStep
<1>14. ASSUME NEW mode \in Contents, SetMode(mode) PROVE BusStep
     BY <1>14, DispatcherAssumption DEF SetMode, HandlerCall, ModeFacts, IInv,
            Control, Deciding, Ids, TypeOK, DispatchType, BusStep
<1>15. ASSUME NEW wants \in Wants, UserRequests(wants) PROVE BusStep
     BY <1>15 DEF UserRequests, UserCall, BusStep
<1>16. CASE SaveHandlerRequests
     BY <1>16 DEF SaveHandlerRequests, HandlerCall, BusStep
<1>17. CASE HandlerSucceeds
     BY <1>17 DEF HandlerSucceeds, BusStep
<1>18. CASE HandlerRefuses
     BY <1>18 DEF HandlerRefuses, BusStep
<1>19. CASE HandlerThrows
     BY <1>19 DEF HandlerThrows, Raise, BusStep
<1>20. CASE PumpNext
     BY <1>20 DEF PumpNext, BusStep
<1>21. CASE PumpLimitExceeded
     BY <1>21 DEF PumpLimitExceeded, Raise, BusStep
<1>22. CASE SubscriberEmits
     BY <1>22, DispatcherAssumption DEF SubscriberEmits, PlainFacts, BusStep
<1>23. ASSUME NEW kind \in Kinds, SubscriberDefers(kind) PROVE BusStep
     BY <1>23 DEF SubscriberDefers, SubscriberCall, BusStep
<1>24. CASE SubscribersReturn
     BY <1>24 DEF SubscribersReturn, BusStep
<1>25. CASE SubscriberThrows
     BY <1>25 DEF SubscriberThrows, Raise, BusStep
<1>26. CASE PumpDone
     BY <1>26 DEF PumpDone, BusStep
<1>27. CASE Resolve
     BY <1>27 DEF Resolve, BusStep
<1>28. CASE ResolveThrows
     BY <1>28 DEF ResolveThrows, Raise, BusStep
<1>29. CASE HostServesRequests
     BY <1>29 DEF HostServesRequests, BusStep
<1>30. CASE UserShows
     BY <1>30 DEF UserShows, UserCall, BusStep
<1> QED
  BY <1>1, <1>2, <1>3, <1>4, <1>5, <1>6, <1>7, <1>8, <1>9, <1>10, <1>11,
     <1>12, <1>13, <1>14, <1>15, <1>16, <1>17, <1>18, <1>19, <1>20, <1>21,
     <1>22, <1>23, <1>24, <1>25, <1>26, <1>27, <1>28, <1>29, <1>30
     DEF Next, InternalStep, StartMode, EndMode, Contents

\* A request of user code names the code and the command it runs for.
LEMMA RequestIsTyped ==
    ASSUME IInv, NEW wants \in Wants, UserRequests(wants)
    PROVE  /\ pc \in UserCode \cup {"idle"}
           /\ [by |-> CallingCommand, wants |-> wants, from |-> pc] \in Requests
<1>1. pc \in UserCode \cup {"idle"}
  BY DEF UserRequests, UserCall
<1>2. CASE pc = "idle"
  BY <1>2, DispatcherAssumption DEF CallingCommand, OutboundRequests
<1>3. CASE pc \in UserCode
  <2>1. current.id \in Ids /\ CallingCommand = current.id
    BY <1>3, DispatcherAssumption
       DEF IInv, TypeOK, DispatchType, Control, Deciding, Committed, UserCode, Ids,
           CallingCommand
  <2> QED
    BY <1>3, <2>1, DispatcherAssumption DEF OutboundRequests
<1> QED
  BY <1>1, <1>2, <1>3

\* A step of the dispatcher is one of the outbound queue, or leaves it alone.
LEMMA StepsOfOutbound == ASSUME IInv, Next PROVE OutboundStep
<1>1. ASSUME NEW who \in Callers, NEW kind \in Kinds, Call(who, kind) PROVE OutboundStep
     BY <1>1 DEF Call, OutboundStep
<1>2. ASSUME NEW who \in Callers, CallRefused(who) PROVE OutboundStep
     BY <1>2 DEF CallRefused, OutboundStep
<1>3. ASSUME NEW kind \in Kinds, DeferOutside(kind) PROVE OutboundStep
     BY <1>3 DEF DeferOutside, OutboundStep
<1>4. CASE DrainQueue
     BY <1>4 DEF DrainQueue, OutboundStep
<1>5. CASE DrainQueueRefused
     BY <1>5 DEF DrainQueueRefused, OutboundStep
<1>6. CASE DrainNext
     BY <1>6 DEF DrainNext, OutboundStep
<1>7. CASE DrainDone
     BY <1>7 DEF DrainDone, OutboundStep
<1>8. CASE ValidatorsAllow
     BY <1>8 DEF ValidatorsAllow, OutboundStep
<1>9. CASE ValidatorRefuses
     BY <1>9 DEF ValidatorRefuses, OutboundStep
<1>10. CASE ValidatorThrows
     BY <1>10 DEF ValidatorThrows, Raise, OutboundStep
<1>11. ASSUME NEW c \in Canonical, NEW v \in Contents, HandlerWrites(c, v) PROVE OutboundStep
     BY <1>11 DEF HandlerWrites, HandlerCall, OutboundStep
<1>12. CASE HandlerEmits
     BY <1>12 DEF HandlerEmits, HandlerCall, OutboundStep
<1>13. ASSUME NEW kind \in Kinds, HandlerDefers(kind) PROVE OutboundStep
     BY <1>13 DEF HandlerDefers, HandlerCall, OutboundStep
<1>14. ASSUME NEW mode \in Contents, SetMode(mode) PROVE OutboundStep
     BY <1>14 DEF SetMode, HandlerCall, OutboundStep
<1>15. ASSUME NEW wants \in Wants, UserRequests(wants) PROVE OutboundStep
     BY <1>15, RequestIsTyped DEF UserRequests, OutboundStep
<1>16. CASE SaveHandlerRequests
     BY <1>16, DispatcherAssumption DEF SaveHandlerRequests, HandlerCall,
            OutboundRequests, Wants, UserCode, IInv, Control, Deciding, Ids,
            TypeOK, DispatchType, OutboundStep
<1>17. CASE HandlerSucceeds
     BY <1>17 DEF HandlerSucceeds, OutboundStep
<1>18. CASE HandlerRefuses
     BY <1>18 DEF HandlerRefuses, OutboundStep
<1>19. CASE HandlerThrows
     BY <1>19 DEF HandlerThrows, Raise, OutboundStep
<1>20. CASE PumpNext
     BY <1>20 DEF PumpNext, OutboundStep
<1>21. CASE PumpLimitExceeded
     BY <1>21 DEF PumpLimitExceeded, Raise, OutboundStep
<1>22. CASE SubscriberEmits
     BY <1>22 DEF SubscriberEmits, SubscriberCall, OutboundStep
<1>23. ASSUME NEW kind \in Kinds, SubscriberDefers(kind) PROVE OutboundStep
     BY <1>23 DEF SubscriberDefers, SubscriberCall, OutboundStep
<1>24. CASE SubscribersReturn
     BY <1>24 DEF SubscribersReturn, OutboundStep
<1>25. CASE SubscriberThrows
     BY <1>25 DEF SubscriberThrows, Raise, OutboundStep
<1>26. CASE PumpDone
     BY <1>26 DEF PumpDone, OutboundStep
<1>27. CASE Resolve
     BY <1>27 DEF Resolve, OutboundStep
<1>28. CASE ResolveThrows
     BY <1>28 DEF ResolveThrows, Raise, OutboundStep
<1>29. CASE HostServesRequests
     BY <1>29 DEF HostServesRequests, OutboundStep
<1>30. CASE UserShows
     BY <1>30 DEF UserShows, OutboundStep
<1> QED
  BY <1>1, <1>2, <1>3, <1>4, <1>5, <1>6, <1>7, <1>8, <1>9, <1>10, <1>11,
     <1>12, <1>13, <1>14, <1>15, <1>16, <1>17, <1>18, <1>19, <1>20, <1>21,
     <1>22, <1>23, <1>24, <1>25, <1>26, <1>27, <1>28, <1>29, <1>30
     DEF Next, InternalStep, StartMode, EndMode, Contents

-----------------------------------------------------------------------------
(***************************************************************************)
(* The parts of the invariant.                                             *)
(***************************************************************************)

\* The head of the deferred queue is its first command, the tail the others.
LEMMA TailOfDeferred ==
    ASSUME deferred \in Seq(Commands), deferred # <<>>
    PROVE  /\ 1 \in DOMAIN deferred /\ Head(deferred) = deferred[1]
           /\ \A i \in DOMAIN Tail(deferred) :
                 /\ i # 0 /\ i + 1 # 1 /\ i + 1 \in DOMAIN deferred
                 /\ Tail(deferred)[i] = deferred[i + 1]
           /\ \A i, j \in DOMAIN Tail(deferred) : i # j => i + 1 # j + 1
<1>1. Len(deferred) \in Nat \ {0} /\ DOMAIN deferred = 1 .. Len(deferred)
  BY EmptySeq, LenProperties
<1>2. /\ Len(Tail(deferred)) = Len(deferred) - 1
      /\ DOMAIN Tail(deferred) = 1 .. Len(Tail(deferred))
      /\ \A i \in 1 .. Len(Tail(deferred)) : Tail(deferred)[i] = deferred[i + 1]
  BY HeadTailProperties, LenProperties
<1>3. Head(deferred) = deferred[1]
  OBVIOUS
<1> QED
  BY <1>1, <1>2, <1>3

\* What a queue holds after an element was added.
LEMMA ElementsOfAppend ==
    ASSUME NEW S, NEW s \in Seq(S), NEW e \in S
    PROVE  /\ DOMAIN Append(s, e) = DOMAIN s \cup {Len(s) + 1}
           /\ Len(s) + 1 \notin DOMAIN s
           /\ Append(s, e)[Len(s) + 1] = e
           /\ \A i \in DOMAIN s : Append(s, e)[i] = s[i]
<1>1. Len(s) \in Nat /\ DOMAIN s = 1 .. Len(s)
  BY LenProperties
<1>2. /\ DOMAIN Append(s, e) = 1 .. Len(s) + 1
      /\ Append(s, e)[Len(s) + 1] = e
      /\ \A i \in 1 .. Len(s) : Append(s, e)[i] = s[i]
  BY AppendProperties, LenProperties
<1> QED
  BY <1>1, <1>2

\* What was committed stays so when another command gets its outcome.
LEMMA DecideKeepsCommitted ==
    ASSUME TypeOK, RequestsOfCommitted, NEW v, Decide(v), current.id \in Ids,
           outcome[current.id] = "none"
    PROVE  \A i \in DOMAIN committed :
              committed[i].from \in {"handle", "subscribe", "resolve"} =>
                  outcome'[committed[i].by] = "committed"
<1>1. ASSUME NEW i \in DOMAIN committed,
             committed[i].from \in {"handle", "subscribe", "resolve"}
      PROVE  outcome'[committed[i].by] = "committed"
  <2>1. outcome[committed[i].by] = "committed" /\ committed[i].by # current.id
    BY <1>1 DEF RequestsOfCommitted
  <2>2. committed[i] \in Requests
    BY ElementOfSeq, LenProperties DEF TypeOK, OutboundType
  <2>3. committed[i].by \in Ids
    BY <1>1, <2>2, DispatcherAssumption DEF OutboundRequests
  <2> QED
    BY <2>1, <2>3 DEF Decide, TypeOK, DispatchType
<1> QED
  BY <1>1

\* Types after an error.
LEMMA RaiseKeepsType ==
    ASSUME DispatchType, NEW next \in {"idle", "executing_command", "pumping_events", "failed"},
           Raise(next), UNCHANGED issued,
           outcome' \in [Ids -> {"none", "refused", "faulted", "committed"}]
    PROVE  DispatchType'
<1>1. /\ isDispatching' \in BOOLEAN /\ alive' \in BOOLEAN
      /\ phase' = next /\ pc' = "idle" /\ root' = 0
      /\ UNCHANGED <<isProcessing, deferred, current, caller, steps, iterations,
                     document, saved>>
  BY DEF Raise
<1> QED
  BY <1>1, DispatcherAssumption DEF DispatchType

\* Types after a dispatch without one.
LEMMA FinishKeepsType ==
    ASSUME DispatchType, Finish, UNCHANGED <<issued, alive, saved>>,
           document' \in Documents,
           outcome' \in [Ids -> {"none", "refused", "faulted", "committed"}]
    PROVE  DispatchType'
<1>1. /\ isDispatching' \in BOOLEAN /\ isProcessing' \in BOOLEAN
      /\ phase' = "idle" /\ pc' \in {"idle", "drain", "returned"}
      /\ root' \in {0, root}
      /\ UNCHANGED <<deferred, current, caller, steps, iterations>>
  BY DEF Finish, Return, ReturnTo
<1> QED
  BY <1>1, DispatcherAssumption DEF DispatchType

\* The variables of the dispatcher and of the host keep their types.
LEMMA DispatchTypeKept == ASSUME IInv, Next PROVE DispatchType'
<1>1. ASSUME NEW who \in Callers, NEW kind \in Kinds, Call(who, kind) PROVE DispatchType'
     BY <1>1, DispatcherAssumption DEF Call, Enter, NewCommand, windowVars,
            busVars, outboundVars, hostVars, IInv, TypeOK, DispatchType,
            WindowType, Commands, Kinds, Ids, UserCode, Control, Deciding,
            Committed
<1>2. ASSUME NEW who \in Callers, CallRefused(who) PROVE DispatchType'
     BY <1>2, DispatcherAssumption DEF CallRefused, windowVars, busVars,
            outboundVars, dispatchVars, ghostVars, IInv, TypeOK, DispatchType,
            WindowType, Commands, Kinds, Ids, UserCode, Control, Deciding,
            Committed
<1>3. ASSUME NEW kind \in Kinds, DeferOutside(kind) PROVE DispatchType'
     BY <1>3, DispatcherAssumption DEF DeferOutside, Defer, NewCommand,
            windowVars, busVars, outboundVars, dispatchVars, callVars,
            hostVars, IInv, TypeOK, DispatchType, WindowType, Commands, Kinds,
            Ids, UserCode, Control, Deciding, Committed
<1>4. CASE DrainQueue
  <2>1. /\ Head(deferred) \in Commands
        /\ Tail(deferred) \in Seq(Commands)
        /\ Len(Tail(deferred)) = Len(deferred) - 1
    BY <1>4, HeadTailProperties DEF DrainQueue, IInv, TypeOK, DispatchType
  <2>2. Head(deferred).id \in 0 .. MaxCommands
    BY <2>1 DEF Commands
  <2> QED
    BY <1>4, <2>1, <2>2, DispatcherAssumption DEF DrainQueue, Enter,
           windowVars, busVars, outboundVars, hostVars, ghostVars, IInv,
           TypeOK, DispatchType, UserCode
<1>5. CASE DrainQueueRefused
  <2>1. /\ Head(deferred) \in Commands
        /\ Tail(deferred) \in Seq(Commands)
        /\ Len(Tail(deferred)) = Len(deferred) - 1
    BY <1>5, HeadTailProperties DEF DrainQueueRefused, IInv, TypeOK, DispatchType
  <2>2. Head(deferred).id \in 0 .. MaxCommands
    BY <2>1 DEF Commands
  <2> QED
    BY <1>5, <2>1, <2>2, DispatcherAssumption DEF DrainQueueRefused,
           windowVars, busVars, outboundVars, dispatchVars, hostVars,
           ghostVars, IInv, TypeOK, DispatchType, UserCode
<1>6. CASE DrainNext
  <2>1. /\ Head(deferred) \in Commands
        /\ Tail(deferred) \in Seq(Commands)
        /\ Len(Tail(deferred)) = Len(deferred) - 1
    BY <1>6, HeadTailProperties DEF DrainNext, IInv, TypeOK, DispatchType
  <2>2. Head(deferred).id \in 0 .. MaxCommands
    BY <2>1 DEF Commands
  <2> QED
    BY <1>6, <2>1, <2>2, DispatcherAssumption DEF DrainNext, Enter,
           windowVars, busVars, outboundVars, hostVars, ghostVars, IInv,
           TypeOK, DispatchType, UserCode
<1>7. CASE DrainDone
  <2>1. /\ isProcessing' = FALSE /\ root' = 0
        /\ pc' \in {"returned", "idle"}
    BY <1>7 DEF DrainDone, Return, ReturnTo
  <2>2. UNCHANGED <<phase, isDispatching, deferred, current, caller, steps,
                   iterations, hostVars, ghostVars>>
    BY <1>7 DEF DrainDone
  <2>3. root' \in 0 .. MaxCommands
    BY <2>1, DispatcherAssumption
  <2> QED
    BY <2>1, <2>2, <2>3
       DEF IInv, TypeOK, DispatchType, hostVars, ghostVars, UserCode
<1>8. CASE ValidatorsAllow
     BY <1>8, DispatcherAssumption DEF ValidatorsAllow, BeginContext,
            BeginStaging, BeginTransaction, dispatchVars, hostVars, ghostVars,
            IInv, TypeOK, DispatchType, WindowType, Commands, Kinds, Ids,
            UserCode, Control, Deciding, Committed
<1>9. CASE ValidatorRefuses
  <2>1. /\ outcome' \in [Ids -> {"none", "refused", "faulted", "committed"}]
        /\ document' \in Documents
        /\ UNCHANGED <<issued, alive, saved>>
    BY <1>9 DEF ValidatorRefuses, Decide, hostVars, IInv, TypeOK, DispatchType
  <2> QED
    BY <1>9, <2>1, FinishKeepsType DEF ValidatorRefuses, IInv, TypeOK
<1>10. CASE ValidatorThrows
  <2>1. outcome' \in [Ids -> {"none", "refused", "faulted", "committed"}] /\ UNCHANGED issued
    BY <1>10 DEF ValidatorThrows, Decide, IInv, TypeOK, DispatchType
  <2> QED
    BY <1>10, <2>1, RaiseKeepsType DEF ValidatorThrows, IInv, TypeOK
<1>11. ASSUME NEW c \in Canonical, NEW v \in Contents, HandlerWrites(c, v) PROVE DispatchType'
     BY <1>11, DispatcherAssumption DEF HandlerWrites, HandlerCall, Step,
            Write, Recorded, busVars, outboundVars, dispatchVars, hostVars,
            ghostVars, IInv, TypeOK, DispatchType, WindowType, Commands,
            Kinds, Ids, UserCode, Control, Deciding, Committed
<1>12. CASE HandlerEmits
     BY <1>12, DispatcherAssumption DEF HandlerEmits, HandlerCall, Step,
            Enqueue, windowVars, outboundVars, dispatchVars, hostVars,
            ghostVars, IInv, TypeOK, DispatchType, WindowType, Commands,
            Kinds, Ids, UserCode, Control, Deciding, Committed
<1>13. ASSUME NEW kind \in Kinds, HandlerDefers(kind) PROVE DispatchType'
     BY <1>13, DispatcherAssumption DEF HandlerDefers, HandlerCall, Step,
            Defer, NewCommand, windowVars, busVars, outboundVars,
            dispatchVars, hostVars, IInv, TypeOK, DispatchType, WindowType,
            Commands, Kinds, Ids, UserCode, Control, Deciding, Committed
<1>14. ASSUME NEW mode \in Contents, SetMode(mode) PROVE DispatchType'
     BY <1>14, DispatcherAssumption DEF SetMode, HandlerCall, Step, Write,
            Recorded, Enqueue, outboundVars, dispatchVars, hostVars,
            ghostVars, IInv, TypeOK, DispatchType, WindowType, Commands,
            Kinds, Ids, UserCode, Control, Deciding, Committed
<1>15. ASSUME NEW wants \in Wants, UserRequests(wants) PROVE DispatchType'
     BY <1>15, DispatcherAssumption DEF UserRequests, UserCall, Step,
            Request, HasRoom, windowVars, busVars, dispatchVars,
            ghostVars, IInv, TypeOK, DispatchType, WindowType, Commands,
            Kinds, Ids, UserCode, Control, Deciding, Committed
<1>16. CASE SaveHandlerRequests
     BY <1>16, DispatcherAssumption DEF SaveHandlerRequests, HandlerCall,
            Step, Request, HasRoom, windowVars, busVars, dispatchVars,
            hostVars, ghostVars, IInv, TypeOK, DispatchType, WindowType,
            Commands, Kinds, Ids, UserCode, Control, Deciding, Committed
<1>17. CASE HandlerSucceeds
     BY <1>17, DispatcherAssumption DEF HandlerSucceeds, CommitTransaction,
            CommitContext, Decide, outboundVars, hostVars, IInv, TypeOK,
            DispatchType, WindowType, Commands, Kinds, Ids, UserCode, Control,
            Deciding, Committed
<1>18. CASE HandlerRefuses
  <2>1. /\ outcome' \in [Ids -> {"none", "refused", "faulted", "committed"}]
        /\ document' \in Documents
        /\ UNCHANGED <<issued, alive, saved>>
    BY <1>18 DEF HandlerRefuses, Decide, hostVars, IInv, TypeOK, DispatchType
  <2> QED
    BY <1>18, <2>1, FinishKeepsType DEF HandlerRefuses, IInv, TypeOK
<1>19. CASE HandlerThrows
  <2>1. outcome' \in [Ids -> {"none", "refused", "faulted", "committed"}] /\ UNCHANGED issued
    BY <1>19 DEF HandlerThrows, Decide, IInv, TypeOK, DispatchType
  <2> QED
    BY <1>19, <2>1, RaiseKeepsType DEF HandlerThrows, IInv, TypeOK
<1>20. CASE PumpNext
     BY <1>20, DispatcherAssumption DEF PumpNext, DeliverFact, windowVars,
            outboundVars, dispatchVars, hostVars, ghostVars, IInv, TypeOK,
            DispatchType, WindowType, Commands, Kinds, Ids, UserCode, Control,
            Deciding, Committed
<1>21. CASE PumpLimitExceeded
  <2>1. outcome' \in [Ids -> {"none", "refused", "faulted", "committed"}] /\ UNCHANGED issued
    BY <1>21 DEF PumpLimitExceeded, ghostVars, IInv, TypeOK, DispatchType
  <2> QED
    BY <1>21, <2>1, RaiseKeepsType DEF PumpLimitExceeded, IInv, TypeOK, DispatchType
<1>22. CASE SubscriberEmits
     BY <1>22, DispatcherAssumption DEF SubscriberEmits, SubscriberCall, Step,
            Enqueue, windowVars, outboundVars, dispatchVars, hostVars,
            ghostVars, IInv, TypeOK, DispatchType, WindowType, Commands,
            Kinds, Ids, UserCode, Control, Deciding, Committed
<1>23. ASSUME NEW kind \in Kinds, SubscriberDefers(kind) PROVE DispatchType'
     BY <1>23, DispatcherAssumption DEF SubscriberDefers, SubscriberCall,
            Step, Defer, NewCommand, windowVars, busVars, outboundVars,
            dispatchVars, hostVars, IInv, TypeOK, DispatchType, WindowType,
            Commands, Kinds, Ids, UserCode, Control, Deciding, Committed
<1>24. CASE SubscribersReturn
     BY <1>24, DispatcherAssumption DEF SubscribersReturn, windowVars,
            busVars, outboundVars, dispatchVars, hostVars, ghostVars, IInv,
            TypeOK, DispatchType, WindowType, Commands, Kinds, Ids, UserCode,
            Control, Deciding, Committed
<1>25. CASE SubscriberThrows
  <2>1. outcome' \in [Ids -> {"none", "refused", "faulted", "committed"}] /\ UNCHANGED issued
    BY <1>25 DEF SubscriberThrows, ghostVars, IInv, TypeOK, DispatchType
  <2> QED
    BY <1>25, <2>1, RaiseKeepsType DEF SubscriberThrows, IInv, TypeOK, DispatchType
<1>26. CASE PumpDone
     BY <1>26, DispatcherAssumption DEF PumpDone, EndPump, CommitStaged,
            windowVars, dispatchVars, hostVars, ghostVars, IInv, TypeOK,
            DispatchType, WindowType, Commands, Kinds, Ids, UserCode, Control,
            Deciding, Committed
<1>27. CASE Resolve
  <2>1. /\ outcome' \in [Ids -> {"none", "refused", "faulted", "committed"}]
        /\ document' \in Documents
        /\ UNCHANGED <<issued, alive, saved>>
    BY <1>27, DispatcherAssumption
       DEF Resolve, WindowType, Documents, ghostVars, IInv, TypeOK, DispatchType
  <2> QED
    BY <1>27, <2>1, FinishKeepsType DEF Resolve, IInv, TypeOK
<1>28. CASE ResolveThrows
  <2>1. outcome' \in [Ids -> {"none", "refused", "faulted", "committed"}] /\ UNCHANGED issued
    BY <1>28 DEF ResolveThrows, ghostVars, IInv, TypeOK, DispatchType
  <2> QED
    BY <1>28, <2>1, RaiseKeepsType DEF ResolveThrows, IInv, TypeOK, DispatchType
<1>29. CASE HostServesRequests
     BY <1>29, DispatcherAssumption DEF HostServesRequests, TakeRequests,
            windowVars, busVars, dispatchVars, ghostVars, IInv, TypeOK,
            DispatchType, WindowType, Commands, Kinds, Ids, UserCode, Control,
            Deciding, Committed
<1>30. CASE UserShows
  <2>1. CallingCommand \in 0 .. MaxCommands
    BY DispatcherAssumption
       DEF CallingCommand, IInv, TypeOK, DispatchType, Commands
  <2>2. document' \in Documents
    BY <1>30, <2>1 DEF UserShows, Documents, IInv, TypeOK, WindowType
  <2>3. steps' \in 0 .. MaxSteps
    BY <1>30, DispatcherAssumption DEF UserShows, UserCall, Step, IInv, TypeOK, DispatchType
  <2> QED
    BY <1>30, <2>2, <2>3
       DEF UserShows, UserCall, dispatchVars, ghostVars, IInv, TypeOK, DispatchType
<1> QED
  BY <1>1, <1>2, <1>3, <1>4, <1>5, <1>6, <1>7, <1>8, <1>9, <1>10, <1>11,
     <1>12, <1>13, <1>14, <1>15, <1>16, <1>17, <1>18, <1>19, <1>20, <1>21,
     <1>22, <1>23, <1>24, <1>25, <1>26, <1>27, <1>28, <1>29, <1>30
     DEF Next, InternalStep, StartMode, EndMode, Contents

\* Flags and place move together.
LEMMA ControlKept == ASSUME IInv, Next PROVE Control'
<1>1. ASSUME NEW who \in Callers, NEW kind \in Kinds, Call(who, kind) PROVE Control'
     BY <1>1, DispatcherAssumption DEF Call, Enter, NewCommand, windowVars,
            busVars, outboundVars, hostVars, IInv, TypeOK, DispatchType,
            Control, Decided, Deciding, Committed, MayDispatch, EmptyJournal,
            Ids
<1>2. ASSUME NEW who \in Callers, CallRefused(who) PROVE Control'
     BY <1>2, DispatcherAssumption DEF CallRefused, windowVars, busVars,
            outboundVars, dispatchVars, ghostVars, IInv, TypeOK, DispatchType,
            Control, Decided, Deciding, Committed, MayDispatch, EmptyJournal,
            Ids
<1>3. ASSUME NEW kind \in Kinds, DeferOutside(kind) PROVE Control'
     BY <1>3, DispatcherAssumption DEF DeferOutside, Defer, NewCommand,
            windowVars, busVars, outboundVars, dispatchVars, callVars,
            hostVars, IInv, TypeOK, DispatchType, Control, Decided, Deciding,
            Committed, MayDispatch, EmptyJournal, Ids
<1>4. CASE DrainQueue
     BY <1>4, DispatcherAssumption DEF DrainQueue, Enter, windowVars, busVars,
            outboundVars, hostVars, ghostVars, IInv, TypeOK, DispatchType,
            Control, Decided, Deciding, Committed, MayDispatch, EmptyJournal,
            Ids
<1>5. CASE DrainQueueRefused
     BY <1>5, DispatcherAssumption DEF DrainQueueRefused, windowVars, busVars,
            outboundVars, dispatchVars, hostVars, ghostVars, IInv, TypeOK,
            DispatchType, Control, Decided, Deciding, Committed, MayDispatch,
            EmptyJournal, Ids
<1>6. CASE DrainNext
     BY <1>6, DispatcherAssumption DEF DrainNext, Enter, windowVars, busVars,
            outboundVars, hostVars, ghostVars, IInv, TypeOK, DispatchType,
            Control, Decided, Deciding, Committed, MayDispatch, EmptyJournal,
            Ids
<1>7. CASE DrainDone
     BY <1>7, DispatcherAssumption DEF DrainDone, Return, ReturnTo,
            windowVars, busVars, outboundVars, hostVars, ghostVars, IInv,
            TypeOK, DispatchType, Control, Decided, Deciding, Committed,
            MayDispatch, EmptyJournal, Ids
<1>8. CASE ValidatorsAllow
     BY <1>8, DispatcherAssumption DEF ValidatorsAllow, BeginContext,
            BeginStaging, BeginTransaction, dispatchVars, hostVars, ghostVars,
            IInv, TypeOK, DispatchType, Control, Decided, Deciding, Committed,
            MayDispatch, EmptyJournal, Ids
<1>9. CASE ValidatorRefuses
     BY <1>9, DispatcherAssumption DEF ValidatorRefuses, Decide, Finish,
            Return, ReturnTo, windowVars, busVars, outboundVars, hostVars,
            IInv, TypeOK, DispatchType, Control, Decided, Deciding, Committed,
            MayDispatch, EmptyJournal, Ids
<1>10. CASE ValidatorThrows
     BY <1>10, DispatcherAssumption DEF ValidatorThrows, Decide, Raise,
            DiscardContext, DropStaged, windowVars, IInv, TypeOK,
            DispatchType, Control, Decided, Deciding, Committed, MayDispatch,
            EmptyJournal, Ids
<1>11. ASSUME NEW c \in Canonical, NEW v \in Contents, HandlerWrites(c, v) PROVE Control'
     BY <1>11, DispatcherAssumption DEF HandlerWrites, HandlerCall, Step,
            Write, Recorded, busVars, outboundVars, dispatchVars, hostVars,
            ghostVars, IInv, TypeOK, DispatchType, Control, Decided, Deciding,
            Committed, MayDispatch, EmptyJournal, Ids
<1>12. CASE HandlerEmits
     BY <1>12, DispatcherAssumption DEF HandlerEmits, HandlerCall, Step,
            Enqueue, windowVars, outboundVars, dispatchVars, hostVars,
            ghostVars, IInv, TypeOK, DispatchType, Control, Decided, Deciding,
            Committed, MayDispatch, EmptyJournal, Ids
<1>13. ASSUME NEW kind \in Kinds, HandlerDefers(kind) PROVE Control'
     BY <1>13, DispatcherAssumption DEF HandlerDefers, HandlerCall, Step,
            Defer, NewCommand, windowVars, busVars, outboundVars,
            dispatchVars, hostVars, IInv, TypeOK, DispatchType, Control,
            Decided, Deciding, Committed, MayDispatch, EmptyJournal, Ids
<1>14. ASSUME NEW mode \in Contents, SetMode(mode) PROVE Control'
     BY <1>14, DispatcherAssumption DEF SetMode, HandlerCall, Step, Write,
            Recorded, Enqueue, outboundVars, dispatchVars, hostVars,
            ghostVars, IInv, TypeOK, DispatchType, Control, Decided, Deciding,
            Committed, MayDispatch, EmptyJournal, Ids
<1>15. ASSUME NEW wants \in Wants, UserRequests(wants) PROVE Control'
     BY <1>15, DispatcherAssumption DEF UserRequests, UserCall, Step,
            Request, HasRoom, windowVars, busVars, dispatchVars,
            ghostVars, IInv, TypeOK, DispatchType, Control, Decided, Deciding,
            Committed, MayDispatch, EmptyJournal, Ids
<1>16. CASE SaveHandlerRequests
     BY <1>16, DispatcherAssumption DEF SaveHandlerRequests, HandlerCall,
            Step, Request, HasRoom, windowVars, busVars, dispatchVars,
            hostVars, ghostVars, IInv, TypeOK, DispatchType, Control, Decided,
            Deciding, Committed, MayDispatch, EmptyJournal, Ids
<1>17. CASE HandlerSucceeds
     BY <1>17, DispatcherAssumption DEF HandlerSucceeds, CommitTransaction,
            CommitContext, Decide, outboundVars, hostVars, IInv, TypeOK,
            DispatchType, Control, Decided, Deciding, Committed, MayDispatch,
            EmptyJournal, Ids
<1>18. CASE HandlerRefuses
     BY <1>18, DispatcherAssumption DEF HandlerRefuses, RollbackTransaction,
            RollbackContext, DropStaged, Decide, Finish, Return, ReturnTo,
            hostVars, IInv, TypeOK, DispatchType, Control, Decided, Deciding,
            Committed, MayDispatch, EmptyJournal, Ids
<1>19. CASE HandlerThrows
     BY <1>19, DispatcherAssumption DEF HandlerThrows, RollbackTransaction,
            Decide, Raise, DiscardContext, DropStaged, IInv, TypeOK,
            DispatchType, Control, Decided, Deciding, Committed, MayDispatch,
            EmptyJournal, Ids
<1>20. CASE PumpNext
     BY <1>20, DispatcherAssumption DEF PumpNext, DeliverFact, windowVars,
            outboundVars, dispatchVars, hostVars, ghostVars, IInv, TypeOK,
            DispatchType, Control, Decided, Deciding, Committed, MayDispatch,
            EmptyJournal, Ids
<1>21. CASE PumpLimitExceeded
     BY <1>21, DispatcherAssumption DEF PumpLimitExceeded, Raise,
            DiscardContext, DropStaged, windowVars, ghostVars, IInv, TypeOK,
            DispatchType, Control, Decided, Deciding, Committed, MayDispatch,
            EmptyJournal, Ids
<1>22. CASE SubscriberEmits
     BY <1>22, DispatcherAssumption DEF SubscriberEmits, SubscriberCall, Step,
            Enqueue, windowVars, outboundVars, dispatchVars, hostVars,
            ghostVars, IInv, TypeOK, DispatchType, Control, Decided, Deciding,
            Committed, MayDispatch, EmptyJournal, Ids
<1>23. ASSUME NEW kind \in Kinds, SubscriberDefers(kind) PROVE Control'
     BY <1>23, DispatcherAssumption DEF SubscriberDefers, SubscriberCall,
            Step, Defer, NewCommand, windowVars, busVars, outboundVars,
            dispatchVars, hostVars, IInv, TypeOK, DispatchType, Control,
            Decided, Deciding, Committed, MayDispatch, EmptyJournal, Ids
<1>24. CASE SubscribersReturn
     BY <1>24, DispatcherAssumption DEF SubscribersReturn, windowVars,
            busVars, outboundVars, dispatchVars, hostVars, ghostVars, IInv,
            TypeOK, DispatchType, Control, Decided, Deciding, Committed,
            MayDispatch, EmptyJournal, Ids
<1>25. CASE SubscriberThrows
     BY <1>25, DispatcherAssumption DEF SubscriberThrows, Raise,
            DiscardContext, DropStaged, windowVars, ghostVars, IInv, TypeOK,
            DispatchType, Control, Decided, Deciding, Committed, MayDispatch,
            EmptyJournal, Ids
<1>26. CASE PumpDone
     BY <1>26, DispatcherAssumption DEF PumpDone, EndPump, CommitStaged,
            windowVars, dispatchVars, hostVars, ghostVars, IInv, TypeOK,
            DispatchType, Control, Decided, Deciding, Committed, MayDispatch,
            EmptyJournal, Ids
<1>27. CASE Resolve
     BY <1>27, DispatcherAssumption DEF Resolve, Finish, Return, ReturnTo,
            windowVars, busVars, outboundVars, ghostVars, IInv, TypeOK,
            DispatchType, Control, Decided, Deciding, Committed, MayDispatch,
            EmptyJournal, Ids
<1>28. CASE ResolveThrows
     BY <1>28, DispatcherAssumption DEF ResolveThrows, Raise, DiscardContext,
            DropStaged, windowVars, ghostVars, IInv, TypeOK, DispatchType,
            Control, Decided, Deciding, Committed, MayDispatch, EmptyJournal,
            Ids
<1>29. CASE HostServesRequests
     BY <1>29, DispatcherAssumption DEF HostServesRequests, TakeRequests,
            windowVars, busVars, dispatchVars, ghostVars, IInv, TypeOK,
            DispatchType, Control, Decided, Deciding, Committed, MayDispatch,
            EmptyJournal, Ids
<1>30. CASE UserShows
     BY <1>30, DispatcherAssumption DEF UserShows, UserCall, Step,
            outboundVars, windowVars, busVars, dispatchVars,
            ghostVars, IInv, TypeOK, DispatchType, Control, Decided, Deciding,
            Committed, MayDispatch, EmptyJournal, Ids
<1> QED
  BY <1>1, <1>2, <1>3, <1>4, <1>5, <1>6, <1>7, <1>8, <1>9, <1>10, <1>11,
     <1>12, <1>13, <1>14, <1>15, <1>16, <1>17, <1>18, <1>19, <1>20, <1>21,
     <1>22, <1>23, <1>24, <1>25, <1>26, <1>27, <1>28, <1>29, <1>30
     DEF Next, InternalStep, StartMode, EndMode, Contents

\* A command gets its outcome once.
LEMMA DecidedKept == ASSUME IInv, Next PROVE Decided'
<1>1. ASSUME NEW who \in Callers, NEW kind \in Kinds, Call(who, kind) PROVE Decided'
     BY <1>1, DispatcherAssumption DEF Call, Enter, NewCommand, windowVars,
            busVars, outboundVars, hostVars, IInv, TypeOK, DispatchType,
            Commands, Decided, Control, Deciding, Committed, Ids
<1>2. ASSUME NEW who \in Callers, CallRefused(who) PROVE Decided'
     BY <1>2, DispatcherAssumption DEF CallRefused, windowVars, busVars,
            outboundVars, dispatchVars, ghostVars, IInv, TypeOK, DispatchType,
            Commands, Decided, Control, Deciding, Committed, Ids
<1>3. ASSUME NEW kind \in Kinds, DeferOutside(kind) PROVE Decided'
  <2> DEFINE cmd == NewCommand(kind, 0)
  <2>1. deferred \in Seq(Commands) /\ cmd \in Commands
    BY <1>3, DispatcherAssumption
       DEF DeferOutside, Defer, NewCommand, Commands, Ids, IInv, TypeOK, DispatchType
  <2>2. /\ DOMAIN deferred' = DOMAIN deferred \cup {Len(deferred) + 1}
        /\ Len(deferred) + 1 \notin DOMAIN deferred
        /\ deferred'[Len(deferred) + 1] = cmd
        /\ \A i \in DOMAIN deferred : deferred'[i] = deferred[i]
    BY <1>3, <2>1, ElementsOfAppend DEF DeferOutside, Defer
  <2>3. cmd.id = issued + 1 /\ issued' = issued + 1 /\ issued' \in Ids /\ issued \in Nat
    BY <1>3, DispatcherAssumption
       DEF DeferOutside, Defer, NewCommand, Ids, IInv, TypeOK, DispatchType
  <2>4. UNCHANGED <<outcome, pc, current>>
    BY <1>3 DEF DeferOutside, Defer, callVars
  <2> HIDE DEF cmd
  <2> QED
    BY <2>2, <2>3, <2>4 DEF IInv, Decided, Control, Deciding, Committed, Ids
<1>4. CASE DrainQueue
  <2>1. deferred \in Seq(Commands) /\ deferred # <<>>
    BY <1>4 DEF DrainQueue, IInv, TypeOK, DispatchType
  <2> QED
    BY <1>4, <2>1, TailOfDeferred DEF DrainQueue, Enter, windowVars, busVars,
           outboundVars, hostVars, ghostVars, IInv, Decided, Deciding,
           Committed
<1>5. CASE DrainQueueRefused
  <2>1. deferred \in Seq(Commands) /\ deferred # <<>>
    BY <1>5 DEF DrainQueueRefused, IInv, TypeOK, DispatchType
  <2> QED
    BY <1>5, <2>1, TailOfDeferred DEF DrainQueueRefused, windowVars, busVars,
           outboundVars, dispatchVars, hostVars, ghostVars, IInv, Decided,
           Deciding, Committed
<1>6. CASE DrainNext
  <2>1. deferred \in Seq(Commands) /\ deferred # <<>>
    BY <1>6 DEF DrainNext, IInv, TypeOK, DispatchType
  <2> QED
    BY <1>6, <2>1, TailOfDeferred DEF DrainNext, Enter, windowVars, busVars,
           outboundVars, hostVars, ghostVars, IInv, Decided, Deciding,
           Committed
<1>7. CASE DrainDone
     BY <1>7, DispatcherAssumption DEF DrainDone, Return, ReturnTo,
            windowVars, busVars, outboundVars, hostVars, ghostVars, IInv,
            TypeOK, DispatchType, Commands, Decided, Control, Deciding,
            Committed, Ids
<1>8. CASE ValidatorsAllow
     BY <1>8, DispatcherAssumption DEF ValidatorsAllow, BeginContext,
            BeginStaging, BeginTransaction, dispatchVars, hostVars, ghostVars,
            IInv, TypeOK, DispatchType, Commands, Decided, Control, Deciding,
            Committed, Ids
<1>9. CASE ValidatorRefuses
     BY <1>9, DispatcherAssumption DEF ValidatorRefuses, Decide, Finish,
            Return, ReturnTo, windowVars, busVars, outboundVars, hostVars,
            IInv, TypeOK, DispatchType, Commands, Decided, Control, Deciding,
            Committed, Ids
<1>10. CASE ValidatorThrows
     BY <1>10, DispatcherAssumption DEF ValidatorThrows, Decide, Raise,
            DiscardContext, DropStaged, windowVars, IInv, TypeOK,
            DispatchType, Commands, Decided, Control, Deciding, Committed, Ids
<1>11. ASSUME NEW c \in Canonical, NEW v \in Contents, HandlerWrites(c, v) PROVE Decided'
     BY <1>11, DispatcherAssumption DEF HandlerWrites, HandlerCall, Step,
            Write, Recorded, busVars, outboundVars, dispatchVars, hostVars,
            ghostVars, IInv, TypeOK, DispatchType, Commands, Decided, Control,
            Deciding, Committed, Ids
<1>12. CASE HandlerEmits
     BY <1>12, DispatcherAssumption DEF HandlerEmits, HandlerCall, Step,
            Enqueue, windowVars, outboundVars, dispatchVars, hostVars,
            ghostVars, IInv, TypeOK, DispatchType, Commands, Decided, Control,
            Deciding, Committed, Ids
<1>13. ASSUME NEW kind \in Kinds, HandlerDefers(kind) PROVE Decided'
  <2> DEFINE cmd == NewCommand(kind, current.id)
  <2>1. deferred \in Seq(Commands) /\ cmd \in Commands
    BY <1>13, DispatcherAssumption
       DEF HandlerDefers, HandlerCall, Defer, NewCommand, Commands, Ids, IInv, TypeOK, DispatchType
  <2>2. /\ DOMAIN deferred' = DOMAIN deferred \cup {Len(deferred) + 1}
        /\ Len(deferred) + 1 \notin DOMAIN deferred
        /\ deferred'[Len(deferred) + 1] = cmd
        /\ \A i \in DOMAIN deferred : deferred'[i] = deferred[i]
    BY <1>13, <2>1, ElementsOfAppend DEF HandlerDefers, Defer
  <2>3. cmd.id = issued + 1 /\ issued' = issued + 1 /\ issued' \in Ids /\ issued \in Nat
    BY <1>13, DispatcherAssumption
       DEF HandlerDefers, Defer, NewCommand, Ids, IInv, TypeOK, DispatchType
  <2>4. UNCHANGED <<outcome, pc, current>>
    BY <1>13 DEF HandlerDefers, HandlerCall, Defer, callVars
  <2> HIDE DEF cmd
  <2> QED
    BY <2>2, <2>3, <2>4 DEF IInv, Decided, Control, Deciding, Committed, Ids
<1>14. ASSUME NEW mode \in Contents, SetMode(mode) PROVE Decided'
     BY <1>14, DispatcherAssumption DEF SetMode, HandlerCall, Step, Write,
            Recorded, Enqueue, outboundVars, dispatchVars, hostVars,
            ghostVars, IInv, TypeOK, DispatchType, Commands, Decided, Control,
            Deciding, Committed, Ids
<1>15. ASSUME NEW wants \in Wants, UserRequests(wants) PROVE Decided'
     BY <1>15, DispatcherAssumption DEF UserRequests, UserCall, Step,
            Request, HasRoom, windowVars, busVars, dispatchVars,
            ghostVars, IInv, TypeOK, DispatchType, Commands, Decided, Control,
            Deciding, Committed, Ids
<1>16. CASE SaveHandlerRequests
     BY <1>16, DispatcherAssumption DEF SaveHandlerRequests, HandlerCall,
            Step, Request, HasRoom, windowVars, busVars, dispatchVars,
            hostVars, ghostVars, IInv, TypeOK, DispatchType, Commands,
            Decided, Control, Deciding, Committed, Ids
<1>17. CASE HandlerSucceeds
     BY <1>17, DispatcherAssumption DEF HandlerSucceeds, CommitTransaction,
            CommitContext, Decide, outboundVars, hostVars, IInv, TypeOK,
            DispatchType, Commands, Decided, Control, Deciding, Committed, Ids
<1>18. CASE HandlerRefuses
     BY <1>18, DispatcherAssumption DEF HandlerRefuses, RollbackTransaction,
            RollbackContext, DropStaged, Decide, Finish, Return, ReturnTo,
            hostVars, IInv, TypeOK, DispatchType, Commands, Decided, Control,
            Deciding, Committed, Ids
<1>19. CASE HandlerThrows
     BY <1>19, DispatcherAssumption DEF HandlerThrows, RollbackTransaction,
            Decide, Raise, DiscardContext, DropStaged, IInv, TypeOK,
            DispatchType, Commands, Decided, Control, Deciding, Committed, Ids
<1>20. CASE PumpNext
     BY <1>20, DispatcherAssumption DEF PumpNext, DeliverFact, windowVars,
            outboundVars, dispatchVars, hostVars, ghostVars, IInv, TypeOK,
            DispatchType, Commands, Decided, Control, Deciding, Committed, Ids
<1>21. CASE PumpLimitExceeded
     BY <1>21, DispatcherAssumption DEF PumpLimitExceeded, Raise,
            DiscardContext, DropStaged, windowVars, ghostVars, IInv, TypeOK,
            DispatchType, Commands, Decided, Control, Deciding, Committed, Ids
<1>22. CASE SubscriberEmits
     BY <1>22, DispatcherAssumption DEF SubscriberEmits, SubscriberCall, Step,
            Enqueue, windowVars, outboundVars, dispatchVars, hostVars,
            ghostVars, IInv, TypeOK, DispatchType, Commands, Decided, Control,
            Deciding, Committed, Ids
<1>23. ASSUME NEW kind \in Kinds, SubscriberDefers(kind) PROVE Decided'
  <2> DEFINE cmd == NewCommand(kind, current.id)
  <2>1. deferred \in Seq(Commands) /\ cmd \in Commands
    BY <1>23, DispatcherAssumption
       DEF SubscriberDefers, SubscriberCall, Defer, NewCommand, Commands, Ids, IInv,
           TypeOK, DispatchType
  <2>2. /\ DOMAIN deferred' = DOMAIN deferred \cup {Len(deferred) + 1}
        /\ Len(deferred) + 1 \notin DOMAIN deferred
        /\ deferred'[Len(deferred) + 1] = cmd
        /\ \A i \in DOMAIN deferred : deferred'[i] = deferred[i]
    BY <1>23, <2>1, ElementsOfAppend DEF SubscriberDefers, Defer
  <2>3. cmd.id = issued + 1 /\ issued' = issued + 1 /\ issued' \in Ids /\ issued \in Nat
    BY <1>23, DispatcherAssumption
       DEF SubscriberDefers, Defer, NewCommand, Ids, IInv, TypeOK, DispatchType
  <2>4. UNCHANGED <<outcome, pc, current>>
    BY <1>23 DEF SubscriberDefers, SubscriberCall, Defer, callVars
  <2> HIDE DEF cmd
  <2> QED
    BY <2>2, <2>3, <2>4 DEF IInv, Decided, Control, Deciding, Committed, Ids
<1>24. CASE SubscribersReturn
     BY <1>24, DispatcherAssumption DEF SubscribersReturn, windowVars,
            busVars, outboundVars, dispatchVars, hostVars, ghostVars, IInv,
            TypeOK, DispatchType, Commands, Decided, Control, Deciding,
            Committed, Ids
<1>25. CASE SubscriberThrows
     BY <1>25, DispatcherAssumption DEF SubscriberThrows, Raise,
            DiscardContext, DropStaged, windowVars, ghostVars, IInv, TypeOK,
            DispatchType, Commands, Decided, Control, Deciding, Committed, Ids
<1>26. CASE PumpDone
     BY <1>26, DispatcherAssumption DEF PumpDone, EndPump, CommitStaged,
            windowVars, dispatchVars, hostVars, ghostVars, IInv, TypeOK,
            DispatchType, Commands, Decided, Control, Deciding, Committed, Ids
<1>27. CASE Resolve
     BY <1>27, DispatcherAssumption DEF Resolve, Finish, Return, ReturnTo,
            windowVars, busVars, outboundVars, ghostVars, IInv, TypeOK,
            DispatchType, Commands, Decided, Control, Deciding, Committed, Ids
<1>28. CASE ResolveThrows
     BY <1>28, DispatcherAssumption DEF ResolveThrows, Raise, DiscardContext,
            DropStaged, windowVars, ghostVars, IInv, TypeOK, DispatchType,
            Commands, Decided, Control, Deciding, Committed, Ids
<1>29. CASE HostServesRequests
     BY <1>29, DispatcherAssumption DEF HostServesRequests, TakeRequests,
            windowVars, busVars, dispatchVars, ghostVars, IInv, TypeOK,
            DispatchType, Commands, Decided, Control, Deciding, Committed, Ids
<1>30. CASE UserShows
     BY <1>30, DispatcherAssumption DEF UserShows, UserCall, Step,
            outboundVars, windowVars, busVars, dispatchVars,
            ghostVars, IInv, TypeOK, DispatchType, Commands, Decided, Control,
            Deciding, Committed, Ids
<1> QED
  BY <1>1, <1>2, <1>3, <1>4, <1>5, <1>6, <1>7, <1>8, <1>9, <1>10, <1>11,
     <1>12, <1>13, <1>14, <1>15, <1>16, <1>17, <1>18, <1>19, <1>20, <1>21,
     <1>22, <1>23, <1>24, <1>25, <1>26, <1>27, <1>28, <1>29, <1>30
     DEF Next, InternalStep, StartMode, EndMode, Contents

\* Only the command of a context adds facts to it.
LEMMA OwnedKept == ASSUME IInv, Next PROVE Owned'
<1>1. ASSUME NEW who \in Callers, NEW kind \in Kinds, Call(who, kind) PROVE Owned'
     BY <1>1 DEF Call, Enter, NewCommand, windowVars, busVars, outboundVars,
            hostVars, IInv, TypeOK, BusType, Control, Owned
<1>2. ASSUME NEW who \in Callers, CallRefused(who) PROVE Owned'
     BY <1>2 DEF CallRefused, windowVars, busVars, outboundVars, dispatchVars,
            ghostVars, IInv, TypeOK, BusType, Control, Owned
<1>3. ASSUME NEW kind \in Kinds, DeferOutside(kind) PROVE Owned'
     BY <1>3 DEF DeferOutside, Defer, NewCommand, windowVars, busVars,
            outboundVars, dispatchVars, callVars, hostVars, IInv, TypeOK,
            BusType, Control, Owned
<1>4. CASE DrainQueue
     BY <1>4 DEF DrainQueue, Enter, windowVars, busVars, outboundVars,
            hostVars, ghostVars, IInv, TypeOK, BusType, Control, Owned
<1>5. CASE DrainQueueRefused
     BY <1>5 DEF DrainQueueRefused, windowVars, busVars, outboundVars,
            dispatchVars, hostVars, ghostVars, IInv, TypeOK, BusType, Control,
            Owned
<1>6. CASE DrainNext
     BY <1>6 DEF DrainNext, Enter, windowVars, busVars, outboundVars,
            hostVars, ghostVars, IInv, TypeOK, BusType, Control, Owned
<1>7. CASE DrainDone
     BY <1>7 DEF DrainDone, Return, ReturnTo, windowVars, busVars,
            outboundVars, hostVars, ghostVars, IInv, TypeOK, BusType, Control,
            Owned
<1>8. CASE ValidatorsAllow
     BY <1>8 DEF ValidatorsAllow, BeginContext, BeginStaging,
            BeginTransaction, dispatchVars, hostVars, ghostVars, IInv, TypeOK,
            BusType, Control, Owned
<1>9. CASE ValidatorRefuses
     BY <1>9 DEF ValidatorRefuses, Decide, Finish, Return, ReturnTo,
            windowVars, busVars, outboundVars, hostVars, IInv, TypeOK,
            BusType, Control, Owned
<1>10. CASE ValidatorThrows
     BY <1>10 DEF ValidatorThrows, Decide, Raise, DiscardContext, DropStaged,
            windowVars, IInv, TypeOK, BusType, Control, Owned
<1>11. ASSUME NEW c \in Canonical, NEW v \in Contents, HandlerWrites(c, v) PROVE Owned'
     BY <1>11 DEF HandlerWrites, HandlerCall, Step, Write, Recorded, busVars,
            outboundVars, dispatchVars, hostVars, ghostVars, IInv, TypeOK,
            BusType, Control, Owned
<1>12. CASE HandlerEmits
  <2> DEFINE fact == [by |-> current.id, text |-> "fact"]
  <2>1. pending \in Seq(Facts) /\ fact \in Facts
    BY <1>12, DispatcherAssumption
       DEF HandlerEmits, HandlerCall, IInv, TypeOK, BusType, DispatchType, Control,
           Deciding, Ids, PlainFacts, ModeFacts
  <2>2. pending' = Append(pending, fact) /\ UNCHANGED current
    BY <1>12 DEF HandlerEmits, HandlerCall, Enqueue, IInv, TypeOK, DispatchType, Commands,
                Control, Deciding, Ids
  <2> QED
    BY <2>1, <2>2, ElementsOfAppend DEF IInv, Owned
<1>13. ASSUME NEW kind \in Kinds, HandlerDefers(kind) PROVE Owned'
     BY <1>13 DEF HandlerDefers, HandlerCall, Step, Defer, NewCommand,
            windowVars, busVars, outboundVars, dispatchVars, hostVars, IInv,
            TypeOK, BusType, Control, Owned
<1>14. ASSUME NEW mode \in Contents, SetMode(mode) PROVE Owned'
  <2> DEFINE fact == [by |-> current.id, mode |-> mode]
  <2>1. pending \in Seq(Facts) /\ fact \in Facts
    BY <1>14, DispatcherAssumption
       DEF SetMode, HandlerCall, IInv, TypeOK, BusType, DispatchType, Control,
           Deciding, Ids, PlainFacts, ModeFacts
  <2>2. pending' = Append(pending, fact) /\ UNCHANGED current
    BY <1>14 DEF SetMode, HandlerCall, Enqueue, IInv, TypeOK, DispatchType, Commands,
                Control, Deciding, Ids
  <2> QED
    BY <2>1, <2>2, ElementsOfAppend DEF IInv, Owned
<1>15. ASSUME NEW wants \in Wants, UserRequests(wants) PROVE Owned'
     BY <1>15 DEF UserRequests, UserCall, Step, Request, HasRoom,
            windowVars, busVars, dispatchVars,  ghostVars, IInv,
            TypeOK, BusType, Control, Owned
<1>16. CASE SaveHandlerRequests
     BY <1>16 DEF SaveHandlerRequests, HandlerCall, Step, Request, HasRoom,
            windowVars, busVars, dispatchVars, hostVars, ghostVars, IInv,
            TypeOK, BusType, Control, Owned
<1>17. CASE HandlerSucceeds
     BY <1>17 DEF HandlerSucceeds, CommitTransaction, CommitContext, Decide,
            outboundVars, hostVars, IInv, TypeOK, BusType, Control, Owned
<1>18. CASE HandlerRefuses
     BY <1>18 DEF HandlerRefuses, RollbackTransaction, RollbackContext,
            DropStaged, Decide, Finish, Return, ReturnTo, hostVars, IInv,
            TypeOK, BusType, Control, Owned
<1>19. CASE HandlerThrows
     BY <1>19 DEF HandlerThrows, RollbackTransaction, Decide, Raise,
            DiscardContext, DropStaged, IInv, TypeOK, BusType, Control, Owned
<1>20. CASE PumpNext
     BY <1>20 DEF PumpNext, DeliverFact, windowVars, outboundVars,
            dispatchVars, hostVars, ghostVars, IInv, TypeOK, BusType, Control,
            Owned
<1>21. CASE PumpLimitExceeded
     BY <1>21 DEF PumpLimitExceeded, Raise, DiscardContext, DropStaged,
            windowVars, ghostVars, IInv, TypeOK, BusType, Control, Owned
<1>22. CASE SubscriberEmits
     BY <1>22 DEF SubscriberEmits, SubscriberCall, Step, Enqueue, windowVars,
            outboundVars, dispatchVars, hostVars, ghostVars, IInv, TypeOK,
            BusType, Control, Owned
<1>23. ASSUME NEW kind \in Kinds, SubscriberDefers(kind) PROVE Owned'
     BY <1>23 DEF SubscriberDefers, SubscriberCall, Step, Defer, NewCommand,
            windowVars, busVars, outboundVars, dispatchVars, hostVars, IInv,
            TypeOK, BusType, Control, Owned
<1>24. CASE SubscribersReturn
     BY <1>24 DEF SubscribersReturn, windowVars, busVars, outboundVars,
            dispatchVars, hostVars, ghostVars, IInv, TypeOK, BusType, Control,
            Owned
<1>25. CASE SubscriberThrows
     BY <1>25 DEF SubscriberThrows, Raise, DiscardContext, DropStaged,
            windowVars, ghostVars, IInv, TypeOK, BusType, Control, Owned
<1>26. CASE PumpDone
     BY <1>26 DEF PumpDone, EndPump, CommitStaged, windowVars, dispatchVars,
            hostVars, ghostVars, IInv, TypeOK, BusType, Control, Owned
<1>27. CASE Resolve
     BY <1>27 DEF Resolve, Finish, Return, ReturnTo, windowVars, busVars,
            outboundVars, ghostVars, IInv, TypeOK, BusType, Control, Owned
<1>28. CASE ResolveThrows
     BY <1>28 DEF ResolveThrows, Raise, DiscardContext, DropStaged,
            windowVars, ghostVars, IInv, TypeOK, BusType, Control, Owned
<1>29. CASE HostServesRequests
     BY <1>29 DEF HostServesRequests, TakeRequests, windowVars, busVars,
            dispatchVars, ghostVars, IInv, TypeOK, BusType, Control, Owned
<1>30. CASE UserShows
     BY <1>30 DEF UserShows, UserCall, Step, outboundVars,
            windowVars, busVars, dispatchVars,  ghostVars, IInv,
            TypeOK, BusType, Control, Owned
<1> QED
  BY <1>1, <1>2, <1>3, <1>4, <1>5, <1>6, <1>7, <1>8, <1>9, <1>10, <1>11,
     <1>12, <1>13, <1>14, <1>15, <1>16, <1>17, <1>18, <1>19, <1>20, <1>21,
     <1>22, <1>23, <1>24, <1>25, <1>26, <1>27, <1>28, <1>29, <1>30
     DEF Next, InternalStep, StartMode, EndMode, Contents

\* Requests are handed over when their command has been committed.
LEMMA RequestsKept == ASSUME IInv, Next PROVE RequestsOfCommitted'
<1>1. ASSUME NEW who \in Callers, NEW kind \in Kinds, Call(who, kind) PROVE RequestsOfCommitted'
     BY <1>1, DispatcherAssumption DEF Call, Enter, NewCommand, windowVars,
            busVars, outboundVars, hostVars, IInv, TypeOK, OutboundType,
            DispatchType, RequestsOfCommitted, Decided, Control, Deciding,
            Committed, OutboundRequests, Ids
<1>2. ASSUME NEW who \in Callers, CallRefused(who) PROVE RequestsOfCommitted'
     BY <1>2, DispatcherAssumption DEF CallRefused, windowVars, busVars,
            outboundVars, dispatchVars, ghostVars, IInv, TypeOK, OutboundType,
            DispatchType, RequestsOfCommitted, Decided, Control, Deciding,
            Committed, OutboundRequests, Ids
<1>3. ASSUME NEW kind \in Kinds, DeferOutside(kind) PROVE RequestsOfCommitted'
     BY <1>3, DispatcherAssumption DEF DeferOutside, Defer, NewCommand,
            windowVars, busVars, outboundVars, dispatchVars, callVars,
            hostVars, IInv, TypeOK, OutboundType, DispatchType,
            RequestsOfCommitted, Decided, Control, Deciding, Committed,
            OutboundRequests, Ids
<1>4. CASE DrainQueue
     BY <1>4, DispatcherAssumption DEF DrainQueue, Enter, windowVars, busVars,
            outboundVars, hostVars, ghostVars, IInv, TypeOK, OutboundType,
            DispatchType, RequestsOfCommitted, Decided, Control, Deciding,
            Committed, OutboundRequests, Ids
<1>5. CASE DrainQueueRefused
     BY <1>5, DispatcherAssumption DEF DrainQueueRefused, windowVars, busVars,
            outboundVars, dispatchVars, hostVars, ghostVars, IInv, TypeOK,
            OutboundType, DispatchType, RequestsOfCommitted, Decided, Control,
            Deciding, Committed, OutboundRequests, Ids
<1>6. CASE DrainNext
     BY <1>6, DispatcherAssumption DEF DrainNext, Enter, windowVars, busVars,
            outboundVars, hostVars, ghostVars, IInv, TypeOK, OutboundType,
            DispatchType, RequestsOfCommitted, Decided, Control, Deciding,
            Committed, OutboundRequests, Ids
<1>7. CASE DrainDone
     BY <1>7, DispatcherAssumption DEF DrainDone, Return, ReturnTo,
            windowVars, busVars, outboundVars, hostVars, ghostVars, IInv,
            TypeOK, OutboundType, DispatchType, RequestsOfCommitted, Decided,
            Control, Deciding, Committed, OutboundRequests, Ids
<1>8. CASE ValidatorsAllow
     BY <1>8, DispatcherAssumption DEF ValidatorsAllow, BeginContext,
            BeginStaging, BeginTransaction, dispatchVars, hostVars, ghostVars,
            IInv, TypeOK, OutboundType, DispatchType, RequestsOfCommitted,
            Decided, Control, Deciding, Committed, OutboundRequests, Ids
<1>9. CASE ValidatorRefuses
  <2>1. current.id \in Ids /\ outcome[current.id] = "none"
    BY <1>9, DispatcherAssumption
       DEF ValidatorRefuses, IInv, TypeOK, DispatchType, Control, Decided, Deciding, Committed, Ids
  <2>2. /\ Decide("refused") /\ UNCHANGED current
        /\ UNCHANGED <<committed, staged>>
    BY <1>9 DEF ValidatorRefuses, Finish, DropStaged, outboundVars
  <2> QED
    BY <2>1, <2>2, DecideKeepsCommitted DEF IInv, RequestsOfCommitted
<1>10. CASE ValidatorThrows
     BY <1>10, DispatcherAssumption DEF ValidatorThrows, Decide, Raise,
            DiscardContext, DropStaged, windowVars, IInv, TypeOK,
            OutboundType, DispatchType, RequestsOfCommitted, Decided, Control,
            Deciding, Committed, OutboundRequests, Ids
<1>11. ASSUME NEW c \in Canonical, NEW v \in Contents, HandlerWrites(c, v) PROVE RequestsOfCommitted'
     BY <1>11, DispatcherAssumption DEF HandlerWrites, HandlerCall, Step,
            Write, Recorded, busVars, outboundVars, dispatchVars, hostVars,
            ghostVars, IInv, TypeOK, OutboundType, DispatchType,
            RequestsOfCommitted, Decided, Control, Deciding, Committed,
            OutboundRequests, Ids
<1>12. CASE HandlerEmits
     BY <1>12, DispatcherAssumption DEF HandlerEmits, HandlerCall, Step,
            Enqueue, windowVars, outboundVars, dispatchVars, hostVars,
            ghostVars, IInv, TypeOK, OutboundType, DispatchType,
            RequestsOfCommitted, Decided, Control, Deciding, Committed,
            OutboundRequests, Ids
<1>13. ASSUME NEW kind \in Kinds, HandlerDefers(kind) PROVE RequestsOfCommitted'
     BY <1>13, DispatcherAssumption DEF HandlerDefers, HandlerCall, Step,
            Defer, NewCommand, windowVars, busVars, outboundVars,
            dispatchVars, hostVars, IInv, TypeOK, OutboundType, DispatchType,
            RequestsOfCommitted, Decided, Control, Deciding, Committed,
            OutboundRequests, Ids
<1>14. ASSUME NEW mode \in Contents, SetMode(mode) PROVE RequestsOfCommitted'
     BY <1>14, DispatcherAssumption DEF SetMode, HandlerCall, Step, Write,
            Recorded, Enqueue, outboundVars, dispatchVars, hostVars,
            ghostVars, IInv, TypeOK, OutboundType, DispatchType,
            RequestsOfCommitted, Decided, Control, Deciding, Committed,
            OutboundRequests, Ids
<1>15. ASSUME NEW wants \in Wants, UserRequests(wants) PROVE RequestsOfCommitted'
  <2> DEFINE req == [by |-> CallingCommand, wants |-> wants, from |-> pc]
  <2>1. /\ staged \in Seq(Requests) /\ committed \in Seq(Requests) /\ req \in Requests
        /\ req.by = CallingCommand /\ req.from = pc /\ pc \in UserCode \cup {"idle"}
    BY <1>15, RequestIsTyped DEF IInv, TypeOK, OutboundType
  <2>2. UNCHANGED <<current, outcome>>
    BY <1>15 DEF UserRequests, UserCall, ghostVars
  <2>3. CASE staging
    <3>1. staged' = Append(staged, req) /\ UNCHANGED committed
      BY <1>15, <2>3 DEF UserRequests, Request
    <3>2. req.by = current.id /\ pc \in {"handle", "subscribe"}
      BY <2>1, <2>3 DEF IInv, Control, CallingCommand, UserCode
    <3> QED
      BY <2>1, <2>2, <3>1, <3>2, ElementsOfAppend DEF IInv, RequestsOfCommitted
  <2>4. CASE ~staging
    <3>1. committed' = Append(committed, req) /\ UNCHANGED staged
      BY <1>15, <2>4 DEF UserRequests, Request
    <3>2. pc \in {"idle", "validate", "resolve"}
      BY <2>1, <2>4 DEF IInv, Control, UserCode
    <3>3. pc = "resolve" => outcome[req.by] = "committed"
      BY <2>1, <3>2 DEF IInv, Decided, Committed, CallingCommand
    <3> HIDE DEF req
    <3> QED
      BY <2>1, <2>2, <3>1, <3>2, <3>3, ElementsOfAppend DEF IInv, RequestsOfCommitted
  <2> QED
    BY <2>3, <2>4
<1>16. CASE SaveHandlerRequests
  <2> DEFINE req == [by |-> current.id, wants |-> "save", from |-> "handle"]
  <2>1. staged \in Seq(Requests) /\ req \in Requests
    BY <1>16, DispatcherAssumption
       DEF SaveHandlerRequests, HandlerCall, IInv, TypeOK, OutboundType, DispatchType, Control,
           Deciding, Ids, OutboundRequests, Wants, UserCode
  <2>2. staged' = Append(staged, req) /\ UNCHANGED <<committed, current, outcome>>
    BY <1>16 DEF SaveHandlerRequests, HandlerCall, Request, ghostVars, IInv, Control
  <2> QED
    BY <2>1, <2>2, ElementsOfAppend DEF IInv, RequestsOfCommitted
<1>17. CASE HandlerSucceeds
     BY <1>17, DispatcherAssumption DEF HandlerSucceeds, CommitTransaction,
            CommitContext, Decide, outboundVars, hostVars, IInv, TypeOK,
            OutboundType, DispatchType, RequestsOfCommitted, Decided, Control,
            Deciding, Committed, OutboundRequests, Ids
<1>18. CASE HandlerRefuses
  <2>1. current.id \in Ids /\ outcome[current.id] = "none"
    BY <1>18, DispatcherAssumption
       DEF HandlerRefuses, IInv, TypeOK, DispatchType, Control, Decided, Deciding, Committed, Ids
  <2>2. /\ Decide("refused") /\ UNCHANGED current
        /\ committed' = committed /\ staged' = <<>>
    BY <1>18 DEF HandlerRefuses, Finish, DropStaged, outboundVars
  <2> QED
    BY <2>1, <2>2, DecideKeepsCommitted DEF IInv, RequestsOfCommitted
<1>19. CASE HandlerThrows
     BY <1>19, DispatcherAssumption DEF HandlerThrows, RollbackTransaction,
            Decide, Raise, DiscardContext, DropStaged, IInv, TypeOK,
            OutboundType, DispatchType, RequestsOfCommitted, Decided, Control,
            Deciding, Committed, OutboundRequests, Ids
<1>20. CASE PumpNext
     BY <1>20, DispatcherAssumption DEF PumpNext, DeliverFact, windowVars,
            outboundVars, dispatchVars, hostVars, ghostVars, IInv, TypeOK,
            OutboundType, DispatchType, RequestsOfCommitted, Decided, Control,
            Deciding, Committed, OutboundRequests, Ids
<1>21. CASE PumpLimitExceeded
     BY <1>21, DispatcherAssumption DEF PumpLimitExceeded, Raise,
            DiscardContext, DropStaged, windowVars, ghostVars, IInv, TypeOK,
            OutboundType, DispatchType, RequestsOfCommitted, Decided, Control,
            Deciding, Committed, OutboundRequests, Ids
<1>22. CASE SubscriberEmits
     BY <1>22, DispatcherAssumption DEF SubscriberEmits, SubscriberCall, Step,
            Enqueue, windowVars, outboundVars, dispatchVars, hostVars,
            ghostVars, IInv, TypeOK, OutboundType, DispatchType,
            RequestsOfCommitted, Decided, Control, Deciding, Committed,
            OutboundRequests, Ids
<1>23. ASSUME NEW kind \in Kinds, SubscriberDefers(kind) PROVE RequestsOfCommitted'
     BY <1>23, DispatcherAssumption DEF SubscriberDefers, SubscriberCall,
            Step, Defer, NewCommand, windowVars, busVars, outboundVars,
            dispatchVars, hostVars, IInv, TypeOK, OutboundType, DispatchType,
            RequestsOfCommitted, Decided, Control, Deciding, Committed,
            OutboundRequests, Ids
<1>24. CASE SubscribersReturn
     BY <1>24, DispatcherAssumption DEF SubscribersReturn, windowVars,
            busVars, outboundVars, dispatchVars, hostVars, ghostVars, IInv,
            TypeOK, OutboundType, DispatchType, RequestsOfCommitted, Decided,
            Control, Deciding, Committed, OutboundRequests, Ids
<1>25. CASE SubscriberThrows
     BY <1>25, DispatcherAssumption DEF SubscriberThrows, Raise,
            DiscardContext, DropStaged, windowVars, ghostVars, IInv, TypeOK,
            OutboundType, DispatchType, RequestsOfCommitted, Decided, Control,
            Deciding, Committed, OutboundRequests, Ids
<1>26. CASE PumpDone
  <2> DEFINE all == committed \o staged
             n == IF Len(all) < MaxRequests THEN Len(all) ELSE MaxRequests
  <2>1. committed \in Seq(Requests) /\ staged \in Seq(Requests)
    BY DEF IInv, TypeOK, OutboundType
  <2>2. all \in Seq(Requests) /\ Len(all) \in Nat /\ DOMAIN all = 1 .. Len(all)
    BY <2>1, ConcatProperties, LenProperties
  <2>3. outcome[current.id] = "committed"
    BY <1>26 DEF PumpDone, IInv, Decided, Committed
  <2>4. \A i \in DOMAIN all : all[i].from \in {"handle", "subscribe", "resolve"} =>
                                  outcome[all[i].by] = "committed"
    BY <2>1, <2>2, <2>3, ConcatProperties, LenProperties DEF IInv, RequestsOfCommitted
  <2>5. n \in Nat /\ n <= Len(all)
    BY <2>2, DispatcherAssumption
  <2>6. committed' = SubSeq(all, 1, n) /\ staged' = <<>> /\ UNCHANGED outcome
    BY <1>26 DEF PumpDone, CommitStaged, ghostVars
  <2> HIDE DEF all, n
  <2>7. \A i \in DOMAIN SubSeq(all, 1, n) :
           i \in DOMAIN all /\ SubSeq(all, 1, n)[i] = all[i]
    BY <2>2, <2>5
  <2>8. DOMAIN staged' = {}
    BY <2>6
  <2>9. \A i \in DOMAIN committed' :
           committed'[i].from \in {"handle", "subscribe", "resolve"} =>
               outcome'[committed'[i].by] = "committed"
    BY <2>4, <2>6, <2>7
  <2> QED
    BY <2>8, <2>9 DEF RequestsOfCommitted
<1>27. CASE Resolve
     BY <1>27, DispatcherAssumption DEF Resolve, Finish, Return, ReturnTo,
            windowVars, busVars, outboundVars, ghostVars, IInv, TypeOK,
            OutboundType, DispatchType, RequestsOfCommitted, Decided, Control,
            Deciding, Committed, OutboundRequests, Ids
<1>28. CASE ResolveThrows
     BY <1>28, DispatcherAssumption DEF ResolveThrows, Raise, DiscardContext,
            DropStaged, windowVars, ghostVars, IInv, TypeOK, OutboundType,
            DispatchType, RequestsOfCommitted, Decided, Control, Deciding,
            Committed, OutboundRequests, Ids
<1>29. CASE HostServesRequests
     BY <1>29, DispatcherAssumption DEF HostServesRequests, TakeRequests,
            windowVars, busVars, dispatchVars, ghostVars, IInv, TypeOK,
            OutboundType, DispatchType, RequestsOfCommitted, Decided, Control,
            Deciding, Committed, OutboundRequests, Ids
<1>30. CASE UserShows
     BY <1>30, DispatcherAssumption DEF UserShows, UserCall, windowVars,
            busVars, outboundVars, dispatchVars, ghostVars, IInv, TypeOK,
            OutboundType, RequestsOfCommitted, Decided, Control, Deciding,
            Committed, OutboundRequests, Ids
<1> QED
  BY <1>1, <1>2, <1>3, <1>4, <1>5, <1>6, <1>7, <1>8, <1>9, <1>10, <1>11,
     <1>12, <1>13, <1>14, <1>15, <1>16, <1>17, <1>18, <1>19, <1>20, <1>21,
     <1>22, <1>23, <1>24, <1>25, <1>26, <1>27, <1>28, <1>29, <1>30
     DEF Next, InternalStep, StartMode, EndMode, Contents

-----------------------------------------------------------------------------
(***************************************************************************)
(* The invariant holds in every reachable state.                           *)
(***************************************************************************)

\* It holds at the start.
LEMMA InitHasIInv == ASSUME Init PROVE IInv
<1>1. TypeOK
  <2>1. WindowType
    BY DEF Init, WindowInit, WindowType, EmptyJournal, Contents
  <2>2. BusType
    BY EmptySeq DEF Init, BusInit, BusType
  <2>3. OutboundType
    BY EmptySeq DEF Init, OutboundInit, OutboundType
  <2>4. deferred \in Seq(Commands) /\ Len(deferred) = 0
    BY EmptySeq DEF Init
  <2>5. current \in Commands
    BY DispatcherAssumption DEF Init, NoCommand, Commands, Kinds
  <2>6. Len(deferred) <= DeferredCapacity
    BY <2>4, DispatcherAssumption
  <2>7. document \in Documents
    BY <2>1, DispatcherAssumption DEF Init, WindowType, Documents
  <2>8. outcome \in [Ids -> {"none", "refused", "faulted", "committed"}]
    BY DEF Init
  <2>9. /\ root \in 0 .. MaxCommands /\ issued \in 0 .. MaxCommands
        /\ steps \in 0 .. MaxSteps /\ iterations \in 0 .. PumpLimit
    BY DispatcherAssumption DEF Init
  <2>10. DispatchType
    BY <2>4, <2>5, <2>6, <2>7, <2>8, <2>9 DEF Init, DispatchType
  <2> QED
    BY <2>1, <2>2, <2>3, <2>10 DEF TypeOK
<1>2. Control
  BY DEF Init, WindowInit, BusInit, OutboundInit, Control, Deciding, Committed
<1>3. Decided
  BY DEF Init, Decided, Deciding, Committed
<1>4. Owned /\ RequestsOfCommitted
  BY DEF Init, BusInit, OutboundInit, Owned, RequestsOfCommitted
<1> QED
  BY <1>1, <1>2, <1>3, <1>4 DEF IInv

\* Every step preserves it: the lemmas above, put together.
LEMMA StepKeepsIInv == ASSUME IInv, [Next]_vars PROVE IInv'
<1>1. CASE Next
  <2>1. TypeOK'
    BY <1>1, StepsOfWindow, StepsOfBus, StepsOfOutbound, WindowKeepsType, BusKeepsType,
       OutboundKeepsType, DispatchTypeKept DEF IInv, TypeOK
  <2> QED
    BY <1>1, <2>1, ControlKept, DecidedKept, OwnedKept, RequestsKept DEF IInv
<1>2. CASE UNCHANGED vars
  <2> USE <1>2 DEF vars, windowVars, busVars, outboundVars, dispatchVars, callVars,
                   hostVars, ghostVars
  <2>1. TypeOK'
    BY DEF IInv, TypeOK, WindowType, BusType, OutboundType, DispatchType
  <2>2. Control' /\ Owned' /\ RequestsOfCommitted'
    BY DEF IInv, Control, Owned, RequestsOfCommitted
  <2>3. Decided'
    BY DEF IInv, Decided
  <2> QED
    BY <2>1, <2>2, <2>3 DEF IInv
<1> QED
  BY <1>1, <1>2

\* So it holds in every reachable state.
LEMMA AlwaysIInv == Spec => []IInv
<1> QED
  BY InitHasIInv, StepKeepsIInv, PTL DEF Spec

\* The variables keep their types; in particular the deferred commands keep
\* to their capacity and every request bears the id of a command.
THEOREM CommandsTypeCorrect == Spec => []TypeOK
<1>1. IInv => TypeOK
  BY DEF IInv
<1> QED
  BY <1>1, AlwaysIInv, PTL

\* However a command ends, nothing of it is left in the window, the bus or
\* the staging queue, and user code cannot dispatch.
THEOREM CommandsLeaveNothing == Spec => []CleanBetweenCommands
<1>1. IInv => CleanBetweenCommands
  BY DEF IInv, Control, CleanBetweenCommands, MayDispatch, UserCode, Deciding, Committed
<1> QED
  BY <1>1, AlwaysIInv, PTL

\* What a handler, subscriber or source requested reaches the host if its
\* command was committed; a validator's requests are the exception.
THEOREM CommandsRequestWhenCommitted == Spec => []RequestsOfCommitted
<1>1. IInv => RequestsOfCommitted
  BY DEF IInv
<1> QED
  BY <1>1, AlwaysIInv, PTL

-----------------------------------------------------------------------------
(***************************************************************************)
(* Refinement of AtomicCommands.                                           *)
(***************************************************************************)

\* A write does not change what a rollback would restore.
LEMMA WriteKeepsRestored ==
    ASSUME WindowType, NEW c \in Cells, NEW v, Write(c, v)
    PROVE  Restored' = Restored
<1>1. DOMAIN journal' = DOMAIN journal \cup {c}
  BY DEF Write, Recorded
<1>2. \A d \in DOMAIN journal' : journal'[d] = IF d \in DOMAIN journal THEN journal[d] ELSE cells[d]
  BY DEF Write, Recorded
<1>3. \A d \in Cells : d # c => cells'[d] = cells[d]
  BY DEF Write, WindowType
<1> QED
  BY <1>1, <1>2, <1>3 DEF Restored

\* With an empty journal there is nothing to restore.
LEMMA RestoredWhenEmpty ==
    ASSUME WindowType
    PROVE  journal = EmptyJournal => Restored = cells
BY DEF WindowType, Restored, EmptyJournal

\* The tree to be restored is one of cells.
LEMMA RestoredType == ASSUME WindowType PROVE Restored \in [Cells -> Contents]
BY DEF WindowType, Restored, Contents

\* A rollback does not change it either.
LEMMA RollbackKeepsRestored ==
    ASSUME WindowType, WindowType', RollbackTransaction PROVE Restored' = Restored
<1>1. journal' = EmptyJournal /\ cells' = Restored
  BY DEF RollbackTransaction
<1>2. journal' = EmptyJournal => Restored' = cells'
  BY RestoredType DEF WindowType, Restored, EmptyJournal
<1> QED
  BY <1>1, <1>2

\* What the outside cannot tell apart: nothing but places and flags change.
LEMMA SameForOthers ==
    ASSUME UNCHANGED <<cells, journal, eventQueue, published, outcome, saved>>
    PROVE  UNCHANGED Atomic!atomicVars
<1>1. Restored' = Restored
  BY DEF Restored
<1> QED
  BY <1>1 DEF Atomic!atomicVars

\* A dispatch that raises takes the rest of its facts with it.
LEMMA RaisingAbandons ==
    ASSUME NEW next, Raise(next), UNCHANGED windowVars, UNCHANGED ghostVars
    PROVE  Atomic!AtomicNext
<1>1. Restored' = Restored
  BY DEF windowVars, Restored
<1>2. Atomic!Abandon
  BY <1>1 DEF Raise, DiscardContext, ghostVars, Atomic!Abandon
<1> QED
  BY <1>2 DEF Atomic!AtomicNext

\* A command that fails has changed nothing anybody sees.
LEMMA FailingTurnsDown ==
    ASSUME IInv, pc \in Deciding, NEW verdict \in {"refused", "faulted"}, Decide(verdict),
           Restored' = Restored, UNCHANGED <<eventQueue, published, saved>>
    PROVE  Atomic!AtomicNext
<1>1. current.id \in Ids
  BY DispatcherAssumption DEF IInv, TypeOK, DispatchType, Control, Ids
<1>2. outcome[current.id] = "none"
  BY DEF IInv, Decided
<1>3. Atomic!TurnDown(current.id)
  BY <1>2 DEF Decide, Atomic!TurnDown
<1> QED
  BY <1>1, <1>3 DEF Atomic!AtomicNext

\* Each step of the runtime is a step of AtomicCommands or shows nothing.
LEMMA StepIsAtomic == ASSUME IInv, Next PROVE [Atomic!AtomicNext]_(Atomic!atomicVars)
<1>1. ASSUME NEW who \in Callers, NEW kind \in Kinds, Call(who, kind)
      PROVE  [Atomic!AtomicNext]_(Atomic!atomicVars)
  BY <1>1, SameForOthers
     DEF Call, windowVars, busVars, hostVars, ghostVars
<1>2. ASSUME NEW who \in Callers, CallRefused(who)
      PROVE  [Atomic!AtomicNext]_(Atomic!atomicVars)
  BY <1>2, SameForOthers
     DEF CallRefused, windowVars, busVars, hostVars, ghostVars
<1>3. ASSUME NEW kind \in Kinds, DeferOutside(kind)
      PROVE  [Atomic!AtomicNext]_(Atomic!atomicVars)
  BY <1>3, SameForOthers
     DEF DeferOutside, Defer, windowVars, busVars, hostVars, ghostVars
<1>4. CASE DrainQueue
  BY <1>4, SameForOthers
     DEF DrainQueue, windowVars, busVars, hostVars, ghostVars
<1>5. CASE DrainQueueRefused
  BY <1>5, SameForOthers
     DEF DrainQueueRefused, windowVars, busVars, hostVars, ghostVars
<1>6. CASE DrainNext
  BY <1>6, SameForOthers
     DEF DrainNext, windowVars, busVars, hostVars, ghostVars
<1>7. CASE DrainDone
  BY <1>7, SameForOthers
     DEF DrainDone, windowVars, busVars, hostVars, ghostVars
<1>8. ASSUME NEW kind \in Kinds, HandlerDefers(kind)
      PROVE  [Atomic!AtomicNext]_(Atomic!atomicVars)
  BY <1>8, SameForOthers
     DEF HandlerDefers, HandlerCall, Defer, windowVars, busVars, hostVars, ghostVars
<1>9. CASE UserShows \/ \E wants \in Wants : UserRequests(wants)
  BY <1>9, SameForOthers
     DEF UserShows, UserRequests, UserCall, windowVars, busVars, ghostVars
<1>10. CASE SaveHandlerRequests
  BY <1>10, SameForOthers
     DEF SaveHandlerRequests, HandlerCall, windowVars, busVars, hostVars, ghostVars
<1>11. ASSUME NEW kind \in Kinds, SubscriberDefers(kind)
       PROVE  [Atomic!AtomicNext]_(Atomic!atomicVars)
  BY <1>11, SameForOthers
     DEF SubscriberDefers, SubscriberCall, Defer, windowVars, busVars, hostVars, ghostVars
<1>12. CASE SubscribersReturn
  BY <1>12, SameForOthers
     DEF SubscribersReturn, windowVars, busVars, hostVars, ghostVars
<1>13. CASE PumpDone
  BY <1>13, SameForOthers
     DEF PumpDone, EndPump, windowVars, busVars, hostVars, ghostVars
<1>14. CASE Resolve
  BY <1>14, SameForOthers
     DEF Resolve, windowVars, busVars, hostVars, ghostVars
<1>15. CASE ValidatorsAllow
  <2>1. journal' = journal
    BY <1>15 DEF ValidatorsAllow, BeginTransaction, IInv, Control
  <2> QED
    BY <1>15, <2>1, SameForOthers
       DEF ValidatorsAllow, BeginTransaction, BeginContext, hostVars, ghostVars
<1>16. ASSUME NEW c \in Canonical, NEW v \in Contents, HandlerWrites(c, v)
       PROVE  [Atomic!AtomicNext]_(Atomic!atomicVars)
  <2>1. Restored' = Restored
    BY <1>16, WindowAssumption, WriteKeepsRestored DEF HandlerWrites, IInv, TypeOK
  <2> QED
    BY <1>16, <2>1 DEF HandlerWrites, HandlerCall, busVars, hostVars, ghostVars, Atomic!atomicVars
<1>17. ASSUME NEW value \in Contents, SetMode(value)
       PROVE  [Atomic!AtomicNext]_(Atomic!atomicVars)
  <2>1. Restored' = Restored
    BY <1>17, DispatcherAssumption, WriteKeepsRestored DEF SetMode, IInv, TypeOK
  <2>2. contextOf # 0
    BY <1>17, DispatcherAssumption DEF SetMode, HandlerCall, Enqueue, IInv, Control, Deciding
  <2>3. UNCHANGED <<eventQueue, published>>
    BY <1>17, <2>2 DEF SetMode, Enqueue
  <2> QED
    BY <1>17, <2>1, <2>3 DEF SetMode, HandlerCall, hostVars, ghostVars, Atomic!atomicVars
<1>18. CASE HandlerEmits
  <2>1. contextOf # 0
    BY <1>18, DispatcherAssumption DEF HandlerEmits, HandlerCall, IInv, Control, Deciding
  <2>2. UNCHANGED <<eventQueue, published>>
    BY <1>18, <2>1 DEF HandlerEmits, Enqueue
  <2> QED
    BY <1>18, <2>2, SameForOthers DEF HandlerEmits, HandlerCall, windowVars, hostVars, ghostVars
<1>19. CASE ValidatorRefuses
  <2>1. Restored' = Restored
    BY <1>19 DEF ValidatorRefuses, windowVars, Restored
  <2> QED
    BY <1>19, <2>1, FailingTurnsDown DEF ValidatorRefuses, Deciding, busVars, hostVars
<1>20. CASE ValidatorThrows
  <2>1. Restored' = Restored
    BY <1>20 DEF ValidatorThrows, windowVars, Restored
  <2>2. eventQueue = <<>>
    BY <1>20 DEF ValidatorThrows, IInv, Control
  <2> QED
    BY <1>20, <2>1, <2>2, FailingTurnsDown DEF ValidatorThrows, Raise, DiscardContext, Deciding
<1>21. CASE HandlerRefuses
  <2>1. Restored' = Restored
    BY <1>21, RollbackKeepsRestored, WindowKeepsType
       DEF HandlerRefuses, WindowStep, IInv, TypeOK
  <2> QED
    BY <1>21, <2>1, FailingTurnsDown DEF HandlerRefuses, RollbackContext, Deciding, hostVars
<1>22. CASE HandlerThrows
  <2>1. Restored' = Restored
    BY <1>22, RollbackKeepsRestored, WindowKeepsType
       DEF HandlerThrows, WindowStep, IInv, TypeOK
  <2>2. eventQueue = <<>>
    BY <1>22 DEF HandlerThrows, IInv, Control
  <2> QED
    BY <1>22, <2>1, <2>2, FailingTurnsDown DEF HandlerThrows, Raise, DiscardContext, Deciding
<1>23. CASE HandlerSucceeds
  <2>1. current.id \in Ids /\ outcome[current.id] = "none"
    BY <1>23, DispatcherAssumption
       DEF HandlerSucceeds, IInv, TypeOK, DispatchType, Control, Decided, Deciding, Ids
  <2>2. WindowType'
    BY <1>23, WindowKeepsType DEF HandlerSucceeds, WindowStep, IInv, TypeOK
  <2>3. Restored' \in [Cells -> Contents]
    BY <2>2 DEF WindowType, Restored, Contents
  <2>4. eventQueue = <<>> /\ pending \in Seq(Facts)
    BY <1>23 DEF HandlerSucceeds, IInv, TypeOK, BusType, Control
  <2>5. eventQueue' = pending
    BY <1>23, <2>4 DEF HandlerSucceeds, CommitContext
  <2>6. \A i \in DOMAIN eventQueue' : eventQueue'[i].by = current.id
    BY <2>5 DEF IInv, Owned
  <2>7. UNCHANGED <<published, saved>>
    BY <1>23 DEF HandlerSucceeds, CommitContext, hostVars
  <2>8. Atomic!Commit(current.id)
    BY <1>23, <2>1, <2>3, <2>4, <2>5, <2>6, <2>7
       DEF HandlerSucceeds, Decide, Atomic!Commit, Contents
  <2> QED
    BY <2>1, <2>8 DEF Atomic!AtomicNext
<1>24. CASE PumpNext
  <2>1. Restored' = Restored
    BY <1>24 DEF PumpNext, windowVars, Restored
  <2>2. Atomic!Deliver
    BY <1>24, <2>1 DEF PumpNext, DeliverFact, hostVars, ghostVars, Atomic!Deliver
  <2> QED
    BY <2>2 DEF Atomic!AtomicNext
<1>25. CASE SubscriberEmits
  <2> DEFINE fact == [by |-> 0, text |-> "fact"]
  <2>1. fact \in Facts /\ fact.by = 0
    BY DispatcherAssumption DEF PlainFacts
  <2>2. contextOf = 0
    BY <1>25 DEF SubscriberEmits, SubscriberCall, IInv, Control
  <2>3. Restored' = Restored
    BY <1>25 DEF SubscriberEmits, SubscriberCall, windowVars, Restored
  <2>4. Atomic!Announce(fact)
    BY <1>25, <2>2, <2>3 DEF SubscriberEmits, SubscriberCall, Enqueue, hostVars, ghostVars,
                            Atomic!Announce
  <2> QED
    BY <2>1, <2>4 DEF Atomic!AtomicNext
<1>26. CASE PumpLimitExceeded
  BY <1>26, RaisingAbandons DEF PumpLimitExceeded
<1>27. CASE SubscriberThrows
  BY <1>27, RaisingAbandons DEF SubscriberThrows
<1>28. CASE ResolveThrows
  BY <1>28, RaisingAbandons DEF ResolveThrows
<1>29. CASE HostServesRequests
  <2>1. journal = EmptyJournal /\ eventQueue = <<>>
    BY <1>29 DEF HostServesRequests, IInv, Control
  <2>2. Restored = cells /\ Restored' = Restored
    BY <1>29, <2>1, RestoredWhenEmpty
       DEF HostServesRequests, windowVars, IInv, TypeOK, Restored
  <2>3. UNCHANGED <<eventQueue, published, outcome>>
    BY <1>29 DEF HostServesRequests, busVars, ghostVars
  <2>4. CASE saved' = cells
    <3>1. Atomic!Save
      BY <2>1, <2>2, <2>3, <2>4 DEF Atomic!Save
    <3> QED
      BY <3>1 DEF Atomic!AtomicNext
  <2>5. CASE saved' = saved
    BY <2>2, <2>3, <2>5 DEF Atomic!atomicVars
  <2> QED
    BY <1>29, <2>4, <2>5 DEF HostServesRequests
<1> QED
  BY <1>1, <1>2, <1>3, <1>4, <1>5, <1>6, <1>7, <1>8, <1>9, <1>10, <1>11,
     <1>12, <1>13, <1>14, <1>15, <1>16, <1>17, <1>18, <1>19, <1>20, <1>21,
     <1>22, <1>23, <1>24, <1>25, <1>26, <1>27, <1>28, <1>29
     DEF Next, InternalStep, StartMode, EndMode, Contents

\* A command happens at one instant or not at all, commands do not overlap,
\* facts are delivered in the order of their announcement, and what is
\* saved is the state between two commands.
THEOREM CommandsRefineAtomic == Spec => CommandsAreAtomic
<1>1. Init => Atomic!AtomicInit
  <2> SUFFICES ASSUME Init PROVE Atomic!AtomicInit
    OBVIOUS
  <2>1. Restored \in [Cells -> Contents]
    BY InitHasIInv, RestoredType DEF IInv, TypeOK
  <2> QED
    BY <2>1 DEF Init, BusInit, Atomic!AtomicInit
<1>2. ASSUME IInv, [Next]_vars PROVE [Atomic!AtomicNext]_(Atomic!atomicVars)
  <2>1. CASE UNCHANGED vars
    BY <2>1, SameForOthers DEF vars, windowVars, busVars, hostVars, ghostVars
  <2> QED
    BY <1>2, <2>1, StepIsAtomic
<1> QED
  BY <1>1, <1>2, AlwaysIInv, PTL DEF Spec, CommandsAreAtomic, Atomic!AtomicSpec

-----------------------------------------------------------------------------
(***************************************************************************)
(* Where only the host dispatches.  HostControl tells the command a caller *)
(* waits for from the deferred ones: its dispatch is the outermost, which  *)
(* does not return before the queue is empty.  HostShows says what the     *)
(* document was built from at every place that can end without a new one.  *)
(***************************************************************************)
HostControl ==
    /\ root \in 0 .. issued
    /\ \A i \in DOMAIN deferred : deferred[i].id # root
    /\ pc # "idle" => caller = "host"
    /\ isProcessing /\ pc \in Deciding \cup Committed => current.id # root
    /\ pc = "drain" => phase = "idle"
    /\ ReadyWhenQuiet

\* The document of a command that was refused after it had shown it.
Excused == document.by # 0 /\ outcome[document.by] = "refused"

HostShows ==
    SourceShows =>
        /\ pc \in {"validate", "drain"} => document.state = cells \/ Excused
        /\ pc = "handle" =>
              document.state = Restored \/ Excused \/ document.by = current.id
        /\ DocumentShowsState

\* Steps within a dispatch, which leave the commands as they are but for one
\* that is deferred.
Within ==
    /\ pc \in Deciding \cup Committed /\ pc' \in Deciding \cup Committed
    /\ UNCHANGED <<root, caller, current, isProcessing>>
    /\ \/ UNCHANGED <<deferred, issued>>
       \/ \E kind \in Kinds, by \in 0 .. MaxCommands : Defer(kind, by)

LEMMA WithinKeepsHost ==
    ASSUME IInv, HostControl, Within
    PROVE  HostControl'
<1>1. /\ pc' \in Deciding \cup Committed /\ pc' \notin {"idle", "returned", "drain"}
      /\ pc # "idle" /\ UNCHANGED <<root, caller, current, isProcessing>>
  BY DEF Within, Deciding, Committed
<1>2. CASE UNCHANGED <<deferred, issued>>
  BY <1>1, <1>2 DEF Within, HostControl, ReadyWhenQuiet
<1>3. ASSUME NEW kind \in Kinds, NEW by \in 0 .. MaxCommands, Defer(kind, by)
      PROVE  HostControl'
  <2> DEFINE cmd == NewCommand(kind, by)
  <2>1. deferred' = Append(deferred, cmd) /\ issued' = issued + 1 /\ issued < MaxCommands
    BY <1>3 DEF Defer
  <2>2. cmd \in Commands /\ cmd.id = issued + 1 /\ issued \in Nat
    BY <2>1, DispatcherAssumption DEF NewCommand, Commands, IInv, TypeOK, DispatchType
  <2>3. deferred \in Seq(Commands)
    BY DEF IInv, TypeOK, DispatchType
  <2> HIDE DEF cmd
  <2>4. \A i \in DOMAIN deferred' : deferred'[i].id # root
    BY <2>1, <2>2, <2>3, ElementsOfAppend DEF HostControl
  <2>5. root' \in 0 .. issued'
    BY <1>1, <2>1, <2>2 DEF HostControl
  <2>6. \A i \in DOMAIN deferred' : deferred'[i].id # root'
    BY <1>1, <2>4
  <2>7. ReadyWhenQuiet'
    BY <1>1 DEF ReadyWhenQuiet
  <2>8. isProcessing' /\ pc' \in Deciding \cup Committed => current'.id # root'
    BY <1>1 DEF Within, HostControl
  <2>9. caller' = "host"
    BY <1>1 DEF HostControl
  <2>10. pc' # "drain"
    BY <1>1
  <2> QED
    BY <2>5, <2>6, <2>7, <2>8, <2>9, <2>10 DEF HostControl
<1> QED
  BY <1>2, <1>3 DEF Within

LEMMA FinishKeepsHost ==
    ASSUME IInv, HostControl, pc \in Deciding \cup Committed, Finish,
           UNCHANGED <<alive, issued>>
    PROVE  HostControl'
<1>1. /\ phase' = "idle" /\ UNCHANGED <<current, caller, deferred>> /\ caller = "host"
      /\ isProcessing' = (isProcessing \/ deferred # <<>>)
  BY DEF Finish, HostControl, Deciding, Committed
<1>2. CASE (~isProcessing /\ deferred # <<>>) \/ current.id # root
  <2>1. pc' = "drain" /\ root' = root
    BY <1>2 DEF Finish
  <2>2. phase' = "idle" /\ caller' = "host" /\ UNCHANGED <<deferred, issued>>
    BY <1>1
  <2>3. pc' \notin Deciding \cup Committed /\ pc' \notin {"idle", "returned"}
    BY <2>1 DEF Deciding, Committed
  <2> QED
    BY <2>1, <2>2, <2>3 DEF HostControl, ReadyWhenQuiet
<1>3. CASE ~((~isProcessing /\ deferred # <<>>) \/ current.id # root)
  <2>1. pc' = "returned" /\ root' = 0
    BY <1>1, <1>3 DEF Finish, Return, ReturnTo
  <2>2. isProcessing' = FALSE /\ deferred = <<>>
    BY <1>1, <1>3 DEF HostControl, IInv, TypeOK, DispatchType
  <2>3. issued \in Nat
    BY DispatcherAssumption DEF IInv, TypeOK, DispatchType
  <2> QED
    BY <1>1, <2>1, <2>2, <2>3 DEF HostControl, ReadyWhenQuiet, Deciding, Committed
<1> QED
  BY <1>2, <1>3

\* A raise ends the session.
LEMMA RaiseKeepsHost ==
    ASSUME IInv, HostControl, pc # "idle", NEW p, Raise(p), UNCHANGED issued
    PROVE  HostControl' /\ pc' = "idle" /\ ~alive'
<1>1. /\ pc' = "idle" /\ root' = 0 /\ alive' = FALSE /\ deferred' = deferred
  BY DEF Raise, HostControl
<1>2. \A i \in DOMAIN deferred : deferred[i].id # 0
  BY DispatcherAssumption DEF IInv, Decided, TypeOK, DispatchType
<1>3. issued \in Nat
  BY DispatcherAssumption DEF IInv, TypeOK, DispatchType
<1> QED
  BY <1>1, <1>2, <1>3 DEF HostControl, ReadyWhenQuiet, Deciding, Committed

LEMMA HostControlKept ==
    ASSUME Callers = {"host"}, IInv, HostControl, Next
    PROVE  HostControl'
<1>0. /\ issued \in Nat /\ deferred \in Seq(Commands)
      /\ \A i \in DOMAIN deferred : deferred[i].id \in 1 .. issued
  BY DispatcherAssumption DEF IInv, Decided, TypeOK, DispatchType
<1>1. ASSUME NEW who \in Callers, NEW kind \in Kinds, Call(who, kind) PROVE HostControl'
  <2>1. /\ root' = issued + 1 /\ issued' = issued + 1 /\ caller' = "host"
        /\ pc' = "validate" /\ UNCHANGED <<deferred, isProcessing>> /\ ~isProcessing
    BY <1>1 DEF Call, Enter, HostControl, ReadyWhenQuiet
  <2> QED
    BY <1>0, <2>1 DEF HostControl, ReadyWhenQuiet
<1>2. ASSUME NEW who \in Callers, CallRefused(who) PROVE HostControl'
  BY <1>2 DEF CallRefused, dispatchVars, ghostVars, HostControl, ReadyWhenQuiet, Deciding,
              Committed
<1>3. CASE (\E kind \in Kinds : DeferOutside(kind)) \/ DrainQueue \/ DrainQueueRefused
  BY <1>3 DEF DeferOutside, DrainQueue, DrainQueueRefused
<1>4. CASE DrainNext
  <2>1. /\ pc = "drain" /\ deferred # <<>> /\ pc' = "validate" /\ current' = Head(deferred)
        /\ deferred' = Tail(deferred) /\ UNCHANGED <<root, caller, issued>>
    BY <1>4 DEF DrainNext, Enter, ghostVars
  <2>2. /\ Head(deferred).id # root
        /\ \A i \in DOMAIN Tail(deferred) : Tail(deferred)[i].id # root
    BY <1>0, <2>1, TailOfDeferred DEF HostControl
  <2> QED
    BY <2>1, <2>2 DEF HostControl, ReadyWhenQuiet
<1>5. CASE DrainDone
  <2>1. /\ pc = "drain" /\ deferred = <<>> /\ isProcessing' = FALSE /\ pc' = "returned"
        /\ root' = 0 /\ UNCHANGED <<phase, deferred, caller, issued>>
    BY <1>5 DEF DrainDone, Return, ReturnTo, HostControl, ghostVars
  <2> QED
    BY <1>0, <2>1 DEF HostControl, ReadyWhenQuiet
<1>6. CASE HostServesRequests
  BY <1>6 DEF HostServesRequests, dispatchVars, ghostVars, HostControl, ReadyWhenQuiet,
              Deciding, Committed
<1>7. CASE ValidatorRefuses \/ HandlerRefuses \/ Resolve
  BY <1>7, FinishKeepsHost DEF ValidatorRefuses, HandlerRefuses, Resolve, Decide, hostVars,
     ghostVars, Deciding, Committed
<1>8. CASE ValidatorThrows \/ HandlerThrows \/ PumpLimitExceeded \/ SubscriberThrows
           \/ ResolveThrows
  BY <1>8, RaiseKeepsHost DEF ValidatorThrows, HandlerThrows, PumpLimitExceeded,
     SubscriberThrows, ResolveThrows, Decide, ghostVars
<1>9. CASE ValidatorsAllow \/ PumpNext \/ SubscribersReturn \/ PumpDone \/ HandlerSucceeds
  <2>1. Within
    BY <1>9 DEF ValidatorsAllow, PumpNext, SubscribersReturn, PumpDone, HandlerSucceeds,
       Decide, dispatchVars, ghostVars, Within, Deciding, Committed
  <2> QED
    BY <2>1, WithinKeepsHost
<1>10. ASSUME NEW kind \in Kinds, HandlerCall(kind),
              UNCHANGED <<deferred, issued>> \/ \E k \in Kinds : Defer(k, current.id)
       PROVE  HostControl'
  <2>1. current.id \in 0 .. MaxCommands
    BY DEF IInv, TypeOK, DispatchType, Commands
  <2>2. Within
    BY <1>10, <2>1 DEF HandlerCall, dispatchVars, Within, Deciding
  <2> QED
    BY <2>2, WithinKeepsHost
<1>11. CASE \/ \E c \in Canonical, v \in Contents : HandlerWrites(c, v)
            \/ \E mode \in Values : StartMode(mode)
            \/ HandlerEmits \/ EndMode \/ SaveHandlerRequests
            \/ \E kind \in Kinds : HandlerDefers(kind)
  BY <1>10, <1>11 DEF HandlerWrites, StartMode, SetMode, HandlerEmits,
     EndMode, SaveHandlerRequests, HandlerDefers, ghostVars, Kinds
<1>12. CASE SubscriberEmits \/ \E kind \in Kinds : SubscriberDefers(kind)
  <2>1. current.id \in 0 .. MaxCommands
    BY DEF IInv, TypeOK, DispatchType, Commands
  <2>2. Within
    BY <1>12, <2>1 DEF SubscriberEmits, SubscriberDefers, SubscriberCall, dispatchVars,
       ghostVars, Within, Committed
  <2> QED
    BY <2>2, WithinKeepsHost
<1>13. CASE UserShows \/ \E wants \in Wants : UserRequests(wants)
  <2>1. Within
    BY <1>13 DEF UserShows, UserRequests, UserCall, UserCode, dispatchVars, ghostVars,
       Within, Deciding, Committed
  <2> QED
    BY <2>1, WithinKeepsHost
<1> QED
  BY <1>1, <1>2, <1>3, <1>4, <1>5, <1>6, <1>7, <1>8, <1>9, <1>11, <1>12, <1>13
     DEF Next, InternalStep

\* What is refused stays refused.
LEMMA ExcusedKept ==
    ASSUME IInv, Excused, UNCHANGED document, NEW v,
           \/ UNCHANGED outcome
           \/ pc \in Deciding /\ Decide(v)
    PROVE  Excused'
<1>1. document.by \in Ids /\ outcome[document.by] = "refused"
  BY DispatcherAssumption DEF Excused, IInv, TypeOK, DispatchType, Documents, Ids
<1>2. CASE pc \in Deciding /\ Decide(v)
  <2>1. outcome[current.id] = "none" /\ outcome \in [Ids -> {"none", "refused", "faulted", "committed"}]
    BY <1>2 DEF IInv, Decided, TypeOK, DispatchType
  <2> QED
    BY <1>1, <1>2, <2>1 DEF Decide, Excused
<1> QED
  BY <1>2 DEF Excused

\* The document through the steps: nothing is written outside of a handler,
\* whose writes a rollback takes back, and what a commit leaves is resolved.
LEMMA HostShowsKept ==
    ASSUME Callers = {"host"}, IInv, HostControl, HostShows, Next, SourceShows
    PROVE  HostShows'
<1>0. /\ WindowType /\ WindowType'
      /\ journal = EmptyJournal => Restored = cells
      /\ pc # "handle" => journal = EmptyJournal
  BY StepKeepsIInv, RestoredWhenEmpty DEF IInv, TypeOK, Control
<1>1. ASSUME NEW who \in Callers, NEW kind \in Kinds, Call(who, kind) PROVE HostShows'
  BY <1>1 DEF Call, Enter, windowVars, hostVars, HostShows, Excused, DocumentShowsState
<1>2. ASSUME NEW who \in Callers, CallRefused(who) PROVE HostShows'
  BY <1>2 DEF CallRefused, windowVars, ghostVars, HostShows, Excused, DocumentShowsState
<1>3. CASE (\E kind \in Kinds : DeferOutside(kind)) \/ DrainQueue \/ DrainQueueRefused
  BY <1>3 DEF DeferOutside, DrainQueue, DrainQueueRefused
<1>4. CASE DrainNext
  BY <1>4 DEF DrainNext, Enter, windowVars, hostVars, ghostVars, HostShows, Excused,
              DocumentShowsState
<1>5. CASE DrainDone
  BY <1>5 DEF DrainDone, Return, ReturnTo, HostControl, windowVars, hostVars, ghostVars,
              HostShows, Excused, DocumentShowsState
<1>6. CASE HostServesRequests
  BY <1>6 DEF HostServesRequests, windowVars, ghostVars, HostShows, Excused,
              DocumentShowsState
<1>7. CASE ValidatorRefuses
  <2>1. /\ pc = "validate" /\ Decide("refused") /\ UNCHANGED <<cells, document>>
        /\ pc' \in {"drain", "returned", "idle"}
    BY <1>7 DEF ValidatorRefuses, Finish, Return, ReturnTo, windowVars, hostVars
  <2>2. document'.state = cells' \/ Excused'
    BY <2>1, ExcusedKept DEF HostShows, Deciding
  <2> QED
    BY <2>1, <2>2 DEF HostShows, Excused, DocumentShowsState
<1>8. CASE HandlerRefuses
  <2>1. /\ pc = "handle" /\ Decide("refused") /\ cells' = Restored /\ UNCHANGED document
        /\ pc' \in {"drain", "returned", "idle"}
    BY <1>8 DEF HandlerRefuses, RollbackTransaction, Finish, Return, ReturnTo, hostVars
  <2>2. ASSUME document.by = current.id PROVE Excused'
    <3>1. current.id \in Ids /\ current.id # 0
      BY <2>1, DispatcherAssumption DEF IInv, Control, Deciding, TypeOK, DispatchType, Ids
    <3>2. outcome'[current.id] = "refused"
      BY <2>1, <3>1 DEF Decide, IInv, TypeOK, DispatchType
    <3> QED
      BY <2>1, <2>2, <3>1, <3>2 DEF Excused
  <2>3. document'.state = cells' \/ Excused'
    BY <2>1, <2>2, ExcusedKept DEF HostShows, Deciding
  <2> QED
    BY <2>1, <2>3 DEF HostShows, Excused, DocumentShowsState
<1>9. CASE Resolve
  <2>1. document'.state = cells' /\ pc' \in {"drain", "returned", "idle"}
    BY <1>9 DEF Resolve, Finish, Return, ReturnTo, windowVars
  <2> QED
    BY <2>1 DEF HostShows, DocumentShowsState
<1>10. CASE ValidatorThrows \/ HandlerThrows \/ PumpLimitExceeded \/ SubscriberThrows
            \/ ResolveThrows
  <2>1. pc' = "idle" /\ ~alive'
    BY <1>10, RaiseKeepsHost DEF ValidatorThrows, HandlerThrows, PumpLimitExceeded,
       SubscriberThrows, ResolveThrows, Decide, ghostVars
  <2> QED
    BY <2>1 DEF HostShows, DocumentShowsState
<1>11. CASE ValidatorsAllow
  <2>1. /\ pc = "validate" /\ pc' = "handle" /\ journal' = EmptyJournal
        /\ UNCHANGED <<cells, document, outcome>>
    BY <1>11 DEF ValidatorsAllow, BeginTransaction, hostVars, ghostVars
  <2>2. Restored' = cells'
    BY <1>0, <2>1 DEF WindowType, Restored, EmptyJournal
  <2> QED
    BY <2>1, <2>2 DEF HostShows, Excused, DocumentShowsState
<1>12. CASE PumpNext \/ SubscribersReturn \/ PumpDone \/ HandlerSucceeds
  <2>1. pc' \in {"pump", "subscribe", "resolve"}
    BY <1>12 DEF PumpNext, SubscribersReturn, PumpDone, HandlerSucceeds
  <2> QED
    BY <2>1 DEF HostShows, DocumentShowsState
<1>13. ASSUME NEW kind \in Kinds, HandlerCall(kind), Restored' = Restored,
              UNCHANGED outcome
       PROVE  HostShows'
  <2>1. pc = "handle" /\ pc' = "handle" /\ UNCHANGED <<document, current>>
    BY <1>13 DEF HandlerCall, hostVars
  <2> QED
    BY <1>13, <2>1 DEF HostShows, Excused, DocumentShowsState
<1>14. ASSUME NEW c \in Cells, NEW v, Write(c, v) PROVE Restored' = Restored
  BY <1>0, <1>14, WriteKeepsRestored
<1>15. CASE (\E c \in Canonical, v \in Contents : HandlerWrites(c, v))
            \/ (\E mode \in Values : StartMode(mode)) \/ EndMode
  BY <1>13, <1>14, <1>15, WindowAssumption, DispatcherAssumption
     DEF HandlerWrites, StartMode, EndMode, SetMode, Kinds, ghostVars
<1>16. CASE HandlerEmits \/ SaveHandlerRequests \/ \E kind \in Kinds : HandlerDefers(kind)
  <2>1. Restored' = Restored /\ outcome' = outcome
    BY <1>16 DEF HandlerEmits, SaveHandlerRequests, HandlerDefers, Defer, windowVars,
                 ghostVars, Restored
  <2> QED
    BY <1>13, <1>16, <2>1 DEF HandlerEmits, SaveHandlerRequests, HandlerDefers, Kinds
<1>17. CASE SubscriberEmits \/ \E kind \in Kinds : SubscriberDefers(kind)
  BY <1>17 DEF SubscriberEmits, SubscriberDefers, SubscriberCall, HostShows,
               DocumentShowsState
<1>18. CASE \E wants \in Wants : UserRequests(wants)
  <2>1. /\ pc \in UserCode /\ UNCHANGED <<pc, document, current, outcome, cells, journal>>
    BY <1>18 DEF UserRequests, UserCall, windowVars, ghostVars
  <2>2. Restored' = Restored
    BY <2>1 DEF Restored
  <2> QED
    BY <2>1, <2>2 DEF HostShows, Excused, DocumentShowsState, UserCode
<1>19. CASE UserShows
  <2>1. /\ pc \in UserCode \ {"validate"} /\ UNCHANGED <<pc, current>>
        /\ document'.by = current.id
    BY <1>19 DEF UserShows, UserCall, CallingCommand, UserCode
  <2> QED
    BY <2>1 DEF HostShows, DocumentShowsState, UserCode
<1> QED
  BY <1>1, <1>2, <1>3, <1>4, <1>5, <1>6, <1>7, <1>8, <1>9, <1>10, <1>11, <1>12, <1>15,
     <1>16, <1>17, <1>18, <1>19 DEF Next, InternalStep

LEMMA HostInvariant == ASSUME Callers = {"host"} PROVE Spec => [](HostControl /\ HostShows)
<1>1. Init => HostControl /\ HostShows
  BY DispatcherAssumption DEF Init, HostControl, HostShows, ReadyWhenQuiet,
     DocumentShowsState, Deciding, Committed
<1>2. IInv /\ HostControl /\ HostShows /\ [Next]_vars => (HostControl /\ HostShows)'
  <2> SUFFICES ASSUME IInv, HostControl, HostShows, UNCHANGED vars
               PROVE  (HostControl /\ HostShows)'
    BY HostControlKept, HostShowsKept, DispatcherAssumption DEF HostShows
  <2>1. Restored' = Restored
    BY DEF vars, windowVars, Restored
  <2> QED
    BY <2>1 DEF vars, windowVars, dispatchVars, callVars, hostVars, ghostVars, HostControl,
       HostShows, Excused, ReadyWhenQuiet, DocumentShowsState
<1> QED
  BY <1>1, <1>2, AlwaysIInv, PTL DEF Spec

\* Where only the host dispatches, a call that has returned leaves a runtime
\* that is ready for the next one, with no deferred command left behind.
THEOREM HostFindsItReady == ASSUME Callers = {"host"} PROVE Spec => []ReadyWhenQuiet
<1>1. HostControl => ReadyWhenQuiet
  BY DEF HostControl
<1> QED
  BY <1>1, HostInvariant, PTL

\* Where only the host dispatches and a source answers every commit, the
\* document shows the state there is between the host's calls, whichever
\* commands were rolled back, or is what a command showed before it was refused.
THEOREM HostShowsState == ASSUME Callers = {"host"} PROVE Spec => []DocumentShowsState
<1>1. HostShows => DocumentShowsState
  BY DEF HostShows, DocumentShowsState
<1> QED
  BY <1>1, HostInvariant, PTL

-----------------------------------------------------------------------------
(***************************************************************************)
(* Whoever calls: the last fact of a mode that was published or waits      *)
(* names the mode there is.  A handler's facts are dropped together with   *)
(* its writes, so in a handler the published ones must name the mode of    *)
(* the tree to be restored.                                                *)
(***************************************************************************)
Told == published \o eventQueue \o pending

ModesTold ==
    /\ phase = "failed" => pc = "idle"
    /\ ModeFactsMatchState
    /\ pc = "handle" => LastModeIs(published, Restored[ModeCell])

LEMMA ModeFactTells ==
    ASSUME NEW s \in Seq(Facts), NEW f \in Facts, "mode" \in DOMAIN f
    PROVE  LastModeIs(Append(s, f), f.mode)
<1> DEFINE t == Append(s, f)
<1>1. /\ DOMAIN t = DOMAIN s \cup {Len(s) + 1} /\ t[Len(s) + 1] = f
      /\ DOMAIN s = 1 .. Len(s) /\ Len(s) \in Nat
  BY ElementsOfAppend, LenProperties
<1> HIDE DEF t
<1>2. ASSUME NEW last \in DOMAIN t, last >= Len(s) + 1
      PROVE  t[last].mode = f.mode
  BY <1>1, <1>2
<1>3. Len(s) + 1 \in {i \in DOMAIN t : "mode" \in DOMAIN t[i]}
  BY <1>1
<1>4. LastModeIs(t, f.mode)
  BY <1>2, <1>3 DEF LastModeIs
<1> QED
  BY <1>4 DEF t

LEMMA PlainFactTellsNothing ==
    ASSUME NEW s \in Seq(Facts), NEW f \in Facts, "mode" \notin DOMAIN f, NEW mode,
           LastModeIs(s, mode)
    PROVE  LastModeIs(Append(s, f), mode)
<1> DEFINE t == Append(s, f)
<1>1. /\ DOMAIN t = DOMAIN s \cup {Len(s) + 1} /\ t[Len(s) + 1] = f
      /\ \A i \in DOMAIN s : t[i] = s[i]
  BY ElementsOfAppend
<1> HIDE DEF t
<1>2. {i \in DOMAIN t : "mode" \in DOMAIN t[i]} = {i \in DOMAIN s : "mode" \in DOMAIN s[i]}
  BY <1>1
<1>3. LastModeIs(t, mode)
  BY <1>1, <1>2 DEF LastModeIs
<1> QED
  BY <1>3 DEF t

\* What is delivered moves from the head of one queue to the end of another.
LEMMA HeadMoves ==
    ASSUME NEW S, NEW p \in Seq(S), NEW q \in Seq(S), q # <<>>
    PROVE  Append(p, Head(q)) \o Tail(q) = p \o q
<1> DEFINE a == Append(p, Head(q)) \o Tail(q)
           b == p \o q
<1>1. /\ Head(q) \in S /\ Head(q) = q[1] /\ Tail(q) \in Seq(S) /\ Len(Tail(q)) = Len(q) - 1
      /\ \A i \in 1 .. Len(Tail(q)) : Tail(q)[i] = q[i + 1]
      /\ Len(p) \in Nat /\ Len(q) \in Nat
  BY HeadTailProperties, LenProperties
<1>2. /\ Append(p, Head(q)) \in Seq(S) /\ Len(Append(p, Head(q))) = Len(p) + 1
      /\ Append(p, Head(q))[Len(p) + 1] = Head(q)
      /\ \A i \in 1 .. Len(p) : Append(p, Head(q))[i] = p[i]
  BY <1>1, AppendProperties
<1>3. /\ a \in Seq(S) /\ Len(a) = Len(p) + Len(q)
      /\ \A i \in 1 .. Len(a) : a[i] = IF i <= Len(p) + 1 THEN Append(p, Head(q))[i] ELSE Tail(q)[i - (Len(p) + 1)]
  BY <1>1, <1>2, ConcatProperties
<1>4. /\ b \in Seq(S) /\ Len(b) = Len(p) + Len(q)
      /\ \A i \in 1 .. Len(b) : b[i] = IF i <= Len(p) THEN p[i] ELSE q[i - Len(p)]
  BY <1>1, ConcatProperties
<1> HIDE DEF a, b
<1>5. ASSUME NEW i \in 1 .. Len(a) PROVE a[i] = b[i]
  <2>1. i \in Int /\ i >= 1 /\ i <= Len(p) + Len(q) /\ i \in 1 .. Len(b)
    BY <1>1, <1>3, <1>4
  <2>2. CASE i <= Len(p)
    BY <1>1, <1>2, <1>3, <1>4, <2>1, <2>2
  <2>3. CASE i = Len(p) + 1
    <3>1. a[i] = Head(q)
      BY <1>1, <1>2, <1>3, <2>1, <2>3
    <3>2. b[i] = q[1]
      BY <1>1, <1>4, <2>1, <2>3
    <3> QED
      BY <1>1, <3>1, <3>2
  <2>4. CASE i > Len(p) + 1
    <3>1. a[i] = Tail(q)[i - (Len(p) + 1)] /\ i - (Len(p) + 1) \in 1 .. Len(Tail(q))
      BY <1>1, <1>3, <2>1, <2>4
    <3>2. b[i] = q[i - Len(p)] /\ (i - (Len(p) + 1)) + 1 = i - Len(p)
      BY <1>1, <1>4, <2>1, <2>4
    <3> QED
      BY <1>1, <3>1, <3>2
  <2> QED
    BY <1>1, <2>1, <2>2, <2>3, <2>4
<1>6. a = b
  BY <1>3, <1>4, <1>5, SeqEqual
<1> QED
  BY <1>6 DEF a, b

\* The facts that are told, through the moves between the queues.
LEMMA ToldMoves ==
    ASSUME NEW p \in Seq(Facts), NEW q \in Seq(Facts), NEW r \in Seq(Facts)
    PROVE  /\ p \o q \in Seq(Facts) /\ p \o q \o r \in Seq(Facts)
           /\ p \o (q \o r) \o <<>> = p \o q \o r
           /\ p \o <<>> \o <<>> = p
           /\ \A f \in Facts : p \o q \o Append(r, f) = Append(p \o q \o r, f)
           /\ \A f \in Facts : p \o Append(q, f) \o <<>> = Append(p \o q \o <<>>, f)
           /\ q # <<>> => Append(p, Head(q)) \o Tail(q) \o r = p \o q \o r
<1>1. p \o q \in Seq(Facts) /\ p \o q \o r \in Seq(Facts) /\ q \o r \in Seq(Facts)
  BY ConcatProperties
<1>2. p \o (q \o r) \o <<>> = p \o q \o r /\ p \o <<>> \o <<>> = p
  BY <1>1, ConcatAssociative, ConcatEmptySeq, ConcatProperties
<1>3. ASSUME NEW s \in Seq(Facts), NEW t \in Seq(Facts), NEW f \in Facts
      PROVE  s \o Append(t, f) = Append(s \o t, f)
  BY AppendIsConcat, ConcatAssociative, ConcatProperties
<1>4. \A f \in Facts : p \o q \o Append(r, f) = Append(p \o q \o r, f)
  BY <1>1, <1>3
<1>5. ASSUME NEW f \in Facts
      PROVE  p \o Append(q, f) \o <<>> = Append(p \o q \o <<>>, f)
  <2>1. Append(q, f) \in Seq(Facts) /\ p \o Append(q, f) \in Seq(Facts)
    BY AppendProperties, ConcatProperties
  <2> QED
    BY <1>1, <1>3, <2>1, ConcatEmptySeq
<1>6. q # <<>> => Append(p, Head(q)) \o Tail(q) \o r = p \o q \o r
  BY HeadMoves
<1> QED
  BY <1>1, <1>2, <1>4, <1>5, <1>6

\* Steps that tell nothing and change no mode.
LEMMA SameTold ==
    ASSUME ModesTold, Told' = Told, cells'[ModeCell] = cells[ModeCell],
           phase' = "failed" => phase = "failed" /\ pc' = "idle",
           phase = "failed" => phase' = "failed",
           pc' = "handle" => LastModeIs(published', Restored'[ModeCell])
    PROVE  ModesTold'
  BY DEF ModesTold, ModeFactsMatchState, Told

LEMMA ModesToldKept == ASSUME IInv, ModesTold, Next PROVE ModesTold'
<1>0. /\ published \in Seq(Facts) /\ eventQueue \in Seq(Facts) /\ pending \in Seq(Facts)
      /\ WindowType /\ WindowType' /\ cells \in [Cells -> Contents] /\ ModeCell \in Cells
  BY StepKeepsIInv, DispatcherAssumption DEF IInv, TypeOK, BusType, WindowType
<1>1. /\ pc \notin {"pump", "subscribe"} => eventQueue = <<>>
      /\ pc # "handle" => pending = <<>> /\ journal = EmptyJournal
      /\ pc = "handle" => /\ contextOf = current.id /\ current.id # 0
                         /\ phase # "failed"
      /\ pc # "handle" => contextOf = 0
      /\ pc \in Deciding \cup Committed => pc # "idle" /\ phase # "failed"
  BY DispatcherAssumption DEF IInv, Control, ModesTold, TypeOK, DispatchType, Deciding, Committed
<1>2. CASE \/ \E who \in Callers, kind \in Kinds : Call(who, kind)
           \/ DrainQueue \/ DrainNext
  <2>1. /\ phase = "idle" /\ phase' = "executing_command" /\ pc' = "validate"
        /\ UNCHANGED <<windowVars, busVars>>
    BY <1>2 DEF Call, DrainQueue, DrainNext, Enter, MayDispatch
  <2> QED
    BY <2>1, SameTold DEF windowVars, busVars, Told
<1>3. CASE \/ \E who \in Callers : CallRefused(who)
           \/ \E kind \in Kinds : DeferOutside(kind)
           \/ DrainQueueRefused
  <2>1. pc' = pc /\ phase' = phase /\ pc = "idle" /\ UNCHANGED <<windowVars, busVars>>
    BY <1>3 DEF CallRefused, DeferOutside, DrainQueueRefused, dispatchVars, callVars
  <2> QED
    BY <2>1, SameTold DEF windowVars, busVars, Told
<1>4. CASE DrainDone \/ HostServesRequests
  <2>1. /\ pc \in {"drain", "returned"} /\ pc' \in {"returned", "idle"} /\ phase' = phase
        /\ UNCHANGED <<windowVars, busVars>>
    BY <1>4 DEF DrainDone, Return, ReturnTo, HostServesRequests, dispatchVars
  <2> QED
    BY <2>1, SameTold DEF windowVars, busVars, Told, ModesTold
<1>5. CASE ValidatorRefuses \/ Resolve
  <2>1. /\ pc \in Deciding \cup Committed /\ pc' \in {"drain", "returned", "idle"}
        /\ phase' = "idle" /\ UNCHANGED <<windowVars, busVars>>
    BY <1>5 DEF ValidatorRefuses, Resolve, Finish, Return, ReturnTo, Deciding, Committed
  <2> QED
    BY <1>1, <2>1, SameTold DEF windowVars, busVars, Told
<1>6. CASE ValidatorThrows \/ ResolveThrows
  <2>1. /\ pc \in {"validate", "resolve"} /\ pc' = "idle" /\ phase' \in {"idle", phase}
        /\ UNCHANGED windowVars /\ DiscardContext
    BY <1>6 DEF ValidatorThrows, ResolveThrows, Raise
  <2>2. Told' = Told
    BY <1>1, <2>1 DEF DiscardContext, Told
  <2>3. phase # "failed" /\ phase' # "failed"
    BY <1>1, <2>1 DEF Deciding, Committed
  <2> QED
    BY <2>1, <2>2, <2>3, SameTold DEF windowVars
<1>7. CASE PumpLimitExceeded \/ SubscriberThrows
  <2>1. phase' = "failed" /\ pc' = "idle"
    BY <1>7 DEF PumpLimitExceeded, SubscriberThrows, Raise
  <2> QED
    BY <2>1 DEF ModesTold, ModeFactsMatchState
<1>8. CASE ValidatorsAllow
  <2>1. /\ pc = "validate" /\ pc' = "handle" /\ phase' = phase /\ cells' = cells
        /\ journal' = EmptyJournal
        /\ pending' = <<>> /\ UNCHANGED <<eventQueue, published>>
    BY <1>8 DEF ValidatorsAllow, BeginContext, BeginTransaction, dispatchVars
  <2>2. Told' = Told /\ Told = published /\ phase # "failed"
    BY <1>0, <1>1, <2>1, ToldMoves DEF Told, Deciding
  <2>3. Restored' = cells'
    BY <1>0, <2>1 DEF WindowType, Restored, EmptyJournal
  <2>4. LastModeIs(published', Restored'[ModeCell])
    BY <2>1, <2>2, <2>3 DEF ModesTold, ModeFactsMatchState, Told
  <2> QED
    BY <2>1, <2>2, <2>4, SameTold
<1>9. ASSUME NEW kind \in Kinds, HandlerCall(kind), UNCHANGED <<eventQueue, published>>,
             Restored'[ModeCell] = Restored[ModeCell],
             LastModeIs(Told', cells'[ModeCell])
      PROVE  ModesTold'
  <2>1. pc = "handle" /\ pc' = "handle" /\ phase' = phase
    BY <1>9 DEF HandlerCall, dispatchVars
  <2>2. phase' # "failed"
    BY <1>1, <2>1
  <2> QED
    BY <1>9, <2>1, <2>2 DEF ModesTold, ModeFactsMatchState, Told
<1>10. ASSUME NEW kind \in Kinds, HandlerCall(kind)
       PROVE  LastModeIs(Told, cells[ModeCell]) /\ pc = "handle"
  BY <1>1, <1>10 DEF HandlerCall, ModesTold, ModeFactsMatchState, Told
<1>11. ASSUME NEW c \in Canonical, NEW v \in Contents, HandlerWrites(c, v) PROVE ModesTold'
  <2>1. HandlerCall("play") /\ UNCHANGED busVars /\ Write(c, v) /\ "play" \in Kinds
    BY <1>11 DEF HandlerWrites, Kinds
  <2>2. Restored' = Restored
    BY <1>0, <2>1, WriteKeepsRestored, WindowAssumption
  <2>3. cells'[ModeCell] = cells[ModeCell]
    BY <1>0, <2>1, DispatcherAssumption DEF Write
  <2> QED
    BY <1>9, <1>10, <2>1, <2>2, <2>3 DEF busVars, Told
<1>12. CASE SaveHandlerRequests \/ \E kind \in Kinds : HandlerDefers(kind)
  <2>1. PICK kind \in Kinds : HandlerCall(kind)
    BY <1>12 DEF SaveHandlerRequests, HandlerDefers, Kinds
  <2>2. UNCHANGED <<windowVars, busVars>>
    BY <1>12 DEF SaveHandlerRequests, HandlerDefers
  <2>3. Restored' = Restored
    BY <2>2 DEF windowVars, Restored
  <2> QED
    BY <1>9, <1>10, <2>1, <2>2, <2>3 DEF windowVars, busVars, Told
<1>13. Told \in Seq(Facts)
  BY <1>0, ToldMoves DEF Told
<1>14. ASSUME NEW fact \in Facts, HandlerCall("play"), Enqueue(fact)
       PROVE  Told' = Append(Told, fact) /\ UNCHANGED <<eventQueue, published>>
  <2>1. /\ pending' = Append(pending, fact) /\ UNCHANGED <<eventQueue, published>>
    BY <1>1, <1>14 DEF HandlerCall, Enqueue
  <2> QED
    BY <1>0, <2>1, ToldMoves DEF Told
<1>15. CASE HandlerEmits
  <2> DEFINE fact == [by |-> current.id, text |-> "fact"]
  <2>1. /\ HandlerCall("play") /\ "play" \in Kinds /\ Enqueue(fact) /\ UNCHANGED windowVars
    BY <1>15 DEF HandlerEmits, Kinds
  <2>2. fact \in Facts /\ "mode" \notin DOMAIN fact
    BY DispatcherAssumption DEF PlainFacts, IInv, TypeOK, DispatchType, Commands
  <2>3. Restored' = Restored /\ cells' = cells
    BY <2>1 DEF windowVars, Restored
  <2> HIDE DEF fact
  <2>4. LastModeIs(Told', cells'[ModeCell])
    <3>1. Told' = Append(Told, fact) /\ LastModeIs(Told, cells[ModeCell])
      BY <1>10, <1>14, <2>1, <2>2
    <3> QED
      BY <1>13, <2>2, <2>3, <3>1, PlainFactTellsNothing
  <2> QED
    BY <1>9, <1>14, <2>1, <2>2, <2>3, <2>4
<1>16. ASSUME NEW mode \in Contents, SetMode(mode) PROVE ModesTold'
  <2> DEFINE fact == [by |-> current.id, mode |-> mode]
  <2>1. /\ HandlerCall("play") /\ "play" \in Kinds /\ Enqueue(fact) /\ Write(ModeCell, mode)
    BY <1>16 DEF SetMode, Kinds
  <2>2. current.id \in Ids
    BY <1>1, <2>1, DispatcherAssumption
       DEF HandlerCall, IInv, TypeOK, DispatchType, Commands, Ids
  <2>3. fact \in Facts /\ "mode" \in DOMAIN fact /\ fact.mode = mode
    BY <2>2, DispatcherAssumption DEF ModeFacts
  <2>4. Restored' = Restored /\ cells'[ModeCell] = mode
    BY <1>0, <2>1, WriteKeepsRestored DEF Write
  <2> HIDE DEF fact
  <2>5. LastModeIs(Told', cells'[ModeCell])
    <3>1. Told' = Append(Told, fact)
      BY <1>14, <2>1, <2>3
    <3> QED
      BY <1>13, <2>3, <2>4, <3>1, ModeFactTells
  <2> QED
    BY <1>9, <1>14, <2>1, <2>3, <2>4, <2>5
<1>17. CASE HandlerSucceeds
  <2>1. /\ pc = "handle" /\ pc' = "pump" /\ phase' = "pumping_events" /\ cells' = cells
        /\ eventQueue' = eventQueue \o pending /\ pending' = <<>> /\ published' = published
    BY <1>17 DEF HandlerSucceeds, CommitTransaction, CommitContext
  <2>2. Told' = Told
    BY <1>0, <2>1, ToldMoves DEF Told
  <2> QED
    BY <1>1, <2>1, <2>2, SameTold
<1>18. CASE HandlerRefuses \/ HandlerThrows
  <2>1. /\ pc = "handle" /\ pc' # "handle" /\ phase' = "idle" /\ cells' = Restored
        /\ pending' = <<>> /\ published' = published
        /\ eventQueue' \in {eventQueue, <<>>}
    BY <1>18 DEF HandlerRefuses, HandlerThrows, RollbackTransaction, RollbackContext, Finish,
       Return, ReturnTo, Raise, DiscardContext
  <2>2. Told' = published
    BY <1>0, <1>1, <2>1, ToldMoves DEF Told
  <2> QED
    BY <2>1, <2>2 DEF ModesTold, ModeFactsMatchState, Told
<1>19. CASE PumpNext
  <2>1. /\ pc = "pump" /\ pc' = "subscribe" /\ phase' = phase /\ UNCHANGED cells
        /\ eventQueue # <<>> /\ published' = Append(published, Head(eventQueue))
        /\ eventQueue' = Tail(eventQueue) /\ pending' = pending
    BY <1>19 DEF PumpNext, DeliverFact, windowVars, dispatchVars
  <2>2. Told' = Told
    BY <1>0, <2>1, ToldMoves DEF Told
  <2> QED
    BY <1>1, <2>1, <2>2, SameTold DEF Committed
<1>20. CASE SubscriberEmits
  <2> DEFINE fact == [by |-> 0, text |-> "fact"]
  <2>1. /\ pc = "subscribe" /\ pc' = "subscribe" /\ phase' = phase /\ UNCHANGED cells
        /\ Enqueue(fact)
    BY <1>20 DEF SubscriberEmits, SubscriberCall, windowVars, dispatchVars
  <2>2. fact \in Facts /\ "mode" \notin DOMAIN fact
    BY DispatcherAssumption DEF PlainFacts
  <2> HIDE DEF fact
  <2>3. /\ eventQueue' = Append(eventQueue, fact) /\ pending' = <<>> /\ pending = <<>>
        /\ published' = published
    BY <1>1, <2>1 DEF Enqueue
  <2>4. Told' = Append(Told, fact)
    BY <1>0, <2>2, <2>3, ToldMoves DEF Told
  <2>5. LastModeIs(Told', cells'[ModeCell])
    <3>1. LastModeIs(Told, cells[ModeCell])
      BY <1>1, <2>1 DEF ModesTold, ModeFactsMatchState, Told, Committed
    <3> QED
      BY <1>13, <2>1, <2>2, <2>4, <3>1, PlainFactTellsNothing
  <2> QED
    BY <1>1, <2>1, <2>5 DEF ModesTold, ModeFactsMatchState, Told, Committed
<1>21. CASE SubscribersReturn \/ PumpDone \/ \E kind \in Kinds : SubscriberDefers(kind)
  <2>1. /\ pc \in {"pump", "subscribe"} /\ pc' \in {"pump", "subscribe", "resolve"}
        /\ phase' = phase /\ UNCHANGED <<cells, eventQueue, pending, published>>
    BY <1>21 DEF SubscribersReturn, PumpDone, EndPump, SubscriberDefers, SubscriberCall,
       windowVars, busVars, dispatchVars
  <2> QED
    BY <1>1, <2>1, SameTold DEF Told, Committed
<1>22. CASE UserShows \/ \E wants \in Wants : UserRequests(wants)
  <2>1. pc' = pc /\ phase' = phase /\ UNCHANGED <<windowVars, busVars>>
    BY <1>22 DEF UserShows, UserRequests, UserCall, dispatchVars
  <2>2. Restored' = Restored
    BY <2>1 DEF windowVars, Restored
  <2> QED
    BY <2>1, <2>2 DEF windowVars, busVars, Told, ModesTold, ModeFactsMatchState
<1> QED
  BY <1>2, <1>3, <1>4, <1>5, <1>6, <1>7, <1>8, <1>11, <1>12, <1>15, <1>16, <1>17, <1>18,
     <1>19, <1>20, <1>21, <1>22 DEF Next, InternalStep, StartMode, EndMode, Contents

\* What subscribers are told about the modes is what the state says.
THEOREM ModeFactsAlwaysMatch == Spec => []ModeFactsMatchState
<1>1. Init => ModesTold
  <2> SUFFICES ASSUME Init PROVE ModesTold
    OBVIOUS
  <2>1. Told = <<>> /\ cells[ModeCell] = Absent /\ phase = "idle" /\ pc = "idle"
    BY DispatcherAssumption, EmptySeq, ConcatEmptySeq
       DEF Init, WindowInit, BusInit, Told
  <2>2. DOMAIN <<>> = {}
    BY EmptySeq, LenProperties
  <2>3. LastModeIs(<<>>, Absent)
    BY <2>2 DEF LastModeIs
  <2> QED
    BY <2>1, <2>3 DEF ModesTold, ModeFactsMatchState, Told
<1>2. IInv /\ ModesTold /\ [Next]_vars => ModesTold'
  <2> SUFFICES ASSUME IInv, ModesTold, UNCHANGED vars PROVE ModesTold'
    BY ModesToldKept
  <2>1. Restored' = Restored
    BY DEF vars, windowVars, Restored
  <2> QED
    BY <2>1 DEF vars, windowVars, busVars, dispatchVars, callVars, ModesTold,
       ModeFactsMatchState
<1>3. ModesTold => ModeFactsMatchState
  BY DEF ModesTold
<1> QED
  BY <1>1, <1>2, <1>3, AlwaysIInv, PTL DEF Spec
=============================================================================
