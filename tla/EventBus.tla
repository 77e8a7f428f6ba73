------------------------------ MODULE EventBus ------------------------------
(***************************************************************************)
(* Scripts/runtime/event_bus.lua: the facts of a command wait in its       *)
(* context until the command is committed, then are delivered first in,    *)
(* first out, together with those the subscribers add.                     *)
(***************************************************************************)
EXTENDS Integers, Sequences

CONSTANT Facts  \* records with a field "by": the command, or 0 for a subscriber

VARIABLES
    contextOf,   \* current_context.command_id; 0: there is no context
    pending,     \* current_context.pending_events
    eventQueue,
    isPumping,
    published    \* published_events

busVars == <<contextOf, pending, eventQueue, isPumping, published>>

BusInit ==
    /\ contextOf = 0
    /\ pending = <<>>
    /\ eventQueue = <<>>
    /\ isPumping = FALSE
    /\ published = <<>>

BeginContext(id) ==
    /\ contextOf = 0
    /\ contextOf' = id
    /\ pending' = <<>>
    /\ UNCHANGED <<eventQueue, isPumping, published>>

\* Mutant: facts do not wait for the commit.
EnqueueAtOnce(fact) ==
    /\ contextOf # 0 \/ isPumping
    /\ eventQueue' = Append(eventQueue, fact)
    /\ UNCHANGED <<contextOf, pending, isPumping, published>>

\* enqueue, refused outside of a context and of a pump
Enqueue(fact) ==
    /\ contextOf # 0 \/ isPumping
    /\ IF contextOf # 0
       THEN pending' = Append(pending, fact) /\ UNCHANGED eventQueue
       ELSE eventQueue' = Append(eventQueue, fact) /\ UNCHANGED pending
    /\ UNCHANGED <<contextOf, isPumping, published>>

\* commit_command_context up to its loop, which DeliverFact and EndPump are
CommitContext ==
    /\ eventQueue' = eventQueue \o pending
    /\ contextOf' = 0
    /\ pending' = <<>>
    /\ isPumping' = TRUE
    /\ UNCHANGED published

DeliverFact ==
    /\ eventQueue # <<>>
    /\ published' = Append(published, Head(eventQueue))
    /\ eventQueue' = Tail(eventQueue)
    /\ UNCHANGED <<contextOf, pending, isPumping>>

EndPump ==
    /\ eventQueue = <<>>
    /\ isPumping' = FALSE
    /\ UNCHANGED <<contextOf, pending, eventQueue, published>>

RollbackContext ==
    /\ contextOf' = 0
    /\ pending' = <<>>
    /\ UNCHANGED <<eventQueue, isPumping, published>>

\* Mutant: an interrupted pump keeps its queue.
DiscardPendingOnly ==
    /\ contextOf' = 0
    /\ pending' = <<>>
    /\ isPumping' = FALSE
    /\ UNCHANGED <<eventQueue, published>>

DiscardContext ==
    /\ contextOf' = 0
    /\ pending' = <<>>
    /\ eventQueue' = <<>>
    /\ isPumping' = FALSE
    /\ UNCHANGED published

BusType ==
    /\ contextOf \in Nat
    /\ pending \in Seq(Facts)
    /\ eventQueue \in Seq(Facts)
    /\ isPumping \in BOOLEAN
    /\ published \in Seq(Facts)
=============================================================================
