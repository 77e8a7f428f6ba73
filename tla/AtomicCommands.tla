--------------------------- MODULE AtomicCommands ---------------------------
(***************************************************************************)
(* What commands and events promise to gameplay code (CommandsAndEvents.md,*)
(* INV-003, INV-004): a command is one indivisible step that either        *)
(* changes the state and announces its facts, or does neither; commands    *)
(* never overlap, not even with the delivery of another one's facts; facts *)
(* are delivered in the order they were announced; and what is saved is    *)
(* the state between two commands.  CommandDispatcher implements it.       *)
(***************************************************************************)
EXTENDS Integers, Sequences

CONSTANTS
    Cells, Contents,
    Facts,
    Ids,     \* of commands
    NoSave   \* nothing has been saved yet

VARIABLES
    state,
    facts,      \* announced and not yet delivered
    delivered,
    verdict,    \* of each command
    stored      \* the last state saved

atomicVars == <<state, facts, delivered, verdict, stored>>

AtomicInit ==
    /\ state \in [Cells -> Contents]
    /\ facts = <<>> /\ delivered = <<>>
    /\ verdict = [id \in Ids |-> "none"]
    /\ stored = NoSave

Commit(id) ==
    /\ verdict[id] = "none"
    /\ facts = <<>>
    /\ verdict' = [verdict EXCEPT ![id] = "committed"]
    /\ state' \in [Cells -> Contents]
    /\ facts' \in Seq(Facts)
    /\ \A i \in DOMAIN facts' : facts'[i].by = id
    /\ UNCHANGED <<delivered, stored>>

TurnDown(id) ==
    /\ verdict[id] = "none"
    /\ \E v \in {"refused", "faulted"} : verdict' = [verdict EXCEPT ![id] = v]
    /\ UNCHANGED <<state, facts, delivered, stored>>

Deliver ==
    /\ facts # <<>>
    /\ delivered' = Append(delivered, Head(facts))
    /\ facts' = Tail(facts)
    /\ UNCHANGED <<state, verdict, stored>>

\* A subscriber announces a fact of its own.
Announce(f) ==
    /\ facts' = Append(facts, f)
    /\ UNCHANGED <<state, delivered, verdict, stored>>

\* A subscriber fails: what is left is not delivered.
Abandon ==
    /\ facts' = <<>>
    /\ UNCHANGED <<state, delivered, verdict, stored>>

Save ==
    /\ facts = <<>>
    /\ stored' = state
    /\ UNCHANGED <<state, facts, delivered, verdict>>

AtomicNext ==
    \/ \E id \in Ids : Commit(id) \/ TurnDown(id)
    \/ Deliver
    \/ \E f \in Facts : f.by = 0 /\ Announce(f)
    \/ Abandon
    \/ Save

AtomicSpec == AtomicInit /\ [][AtomicNext]_atomicVars
=============================================================================
