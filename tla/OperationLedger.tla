--------------------------- MODULE OperationLedger ---------------------------
(***************************************************************************)
(* What the host promises about the operation ids it hands out (session    *)
(* start, load, save, shutdown), whoever queries them and whenever: an id  *)
(* is Unknown until it is issued, then InProgress, then has one outcome    *)
(* that never changes, and after that may only be forgotten (Evicted).     *)
(* TransitionPolicy and SessionCoordinator implement it.                   *)
(***************************************************************************)
EXTENDS Integers, FiniteSets

CONSTANTS
    MaxOps,      \* bound on the ids issued
    MaxRetained  \* outcomes kept for querying

VARIABLE status

Ids == 1 .. MaxOps
Outcomes == {"Completed", "Failed", "Cancelled", "Superseded"}
Statuses == {"Unknown", "InProgress", "Evicted"} \cup Outcomes

\* The four stages of an id, in the only order it may pass through them.
Stage(s) == CASE s = "Unknown" -> 0
              [] s = "InProgress" -> 1
              [] s \in Outcomes -> 2
              [] s = "Evicted" -> 3

\* An id keeps its status or moves on; it never swaps one outcome for another.
MayBecome(old, new) == old = new \/ Stage(old) < Stage(new)

Retained(st) == {id \in Ids : st[id] \in Outcomes}

\* Ids are issued in order, so the known ones are a prefix.
IssuedInOrder(st) ==
    \A i, j \in Ids : i < j /\ st[j] # "Unknown" => st[i] # "Unknown"

LedgerInit == status = [id \in Ids |-> "Unknown"]

\* One call may issue an id, finish others and forget the ones that no
\* longer fit: every id moves on its own.
LedgerNext ==
    /\ status' \in [Ids -> Statuses]
    /\ \A id \in Ids : MayBecome(status[id], status'[id])
    /\ IssuedInOrder(status')
    /\ Cardinality(Retained(status')) <= MaxRetained

LedgerSpec == LedgerInit /\ [][LedgerNext]_status
=============================================================================
