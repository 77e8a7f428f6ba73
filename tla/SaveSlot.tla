------------------------------ MODULE SaveSlot ------------------------------
(***************************************************************************)
(* What ISaveSlotStorage promises of one slot (GV2HostServices.h, ADR      *)
(* 0045): it holds a current revision and the one committed just before;   *)
(* a write replaces both at one instant, answers Ok exactly when that      *)
(* instant has passed, and whatever else happens to it (an error, a crash) *)
(* leaves the slot as it was.  SaveSlotStorage implements it.              *)
(***************************************************************************)

CONSTANTS
    Payloads,  \* the bytes a save may consist of
    Absent     \* no revision

VARIABLES
    current, previous,  \* what a reader gets for each revision
    call,               \* the write in progress: "none", "writing", "committed"
    bytes,              \* what it writes
    reply               \* the answer to the last write of the present owner

vars == <<current, previous, call, bytes, reply>>

Init ==
    /\ current \in Payloads \cup {Absent} /\ previous = Absent
    /\ call = "none" /\ bytes = Absent /\ reply = "none"

Begin(b) ==
    /\ call = "none"
    /\ call' = "writing" /\ bytes' = b /\ reply' = "none"
    /\ UNCHANGED <<current, previous>>

\* A write that is refused at once.
Refuse ==
    /\ call = "none"
    /\ reply' = "Failure"
    /\ UNCHANGED <<current, previous, call, bytes>>

Commit ==
    /\ call = "writing"
    /\ call' = "committed"
    /\ current' = bytes /\ previous' = current
    /\ UNCHANGED <<bytes, reply>>

Return ==
    /\ call # "none"
    /\ reply' = IF call = "committed" THEN "Ok" ELSE "Failure"
    /\ call' = "none" /\ bytes' = Absent
    /\ UNCHANGED <<current, previous>>

\* The owner closes the storage or its process dies.
Leave ==
    /\ call' = "none" /\ bytes' = Absent /\ reply' = "none"
    /\ UNCHANGED <<current, previous>>

Next == (\E b \in Payloads : Begin(b)) \/ Refuse \/ Commit \/ Return \/ Leave

Spec == Init /\ [][Next]_vars
=============================================================================
