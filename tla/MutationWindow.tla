--------------------------- MODULE MutationWindow ---------------------------
(***************************************************************************)
(* Scripts/runtime/mutation_window.lua: the guarded state tree and the     *)
(* journal that undoes one command's writes (ADR-0050).  A cell is one key *)
(* of one table of the tree; a key that is not there holds Absent.  The    *)
(* canonical cells are saved and hashed, the others are transient.         *)
(*                                                                         *)
(* The actions speak of this module's variables only; CommandDispatcher    *)
(* composes them.                                                          *)
(***************************************************************************)
CONSTANTS
    Cells,      \* (table, key) pairs of the guarded trees
    Canonical,  \* the cells of game.state
    Values,
    Absent      \* no value under this key

ASSUME WindowAssumption == Canonical \subseteq Cells /\ Absent \notin Values

VARIABLES
    cells,       \* the raw tables
    windowOpen,  \* window_open, and current_txn is there
    journal      \* current_txn.journal: a cell's value before its first write

windowVars == <<cells, windowOpen, journal>>

Contents == Values \cup {Absent}
EmptyJournal == [c \in {} |-> Absent]

WindowInit ==
    /\ cells = [c \in Cells |-> Absent]
    /\ windowOpen = FALSE
    /\ journal = EmptyJournal

\* The tree as it was when the transaction began.  No cell is recorded
\* twice, so the order in which the journal is undone does not matter.
Restored == [c \in Cells |-> IF c \in DOMAIN journal THEN journal[c] ELSE cells[c]]

\* Mutant: every write is recorded, not the first.
RecordedEveryTime(c) ==
    [d \in DOMAIN journal \cup {c} |-> IF d = c THEN cells[d] ELSE journal[d]]

\* record_journal_entry
Recorded(c) ==
    [d \in DOMAIN journal \cup {c} |->
        IF d \in DOMAIN journal THEN journal[d] ELSE cells[d]]

BeginTransaction ==
    /\ ~windowOpen
    /\ windowOpen' = TRUE
    /\ journal' = EmptyJournal
    /\ UNCHANGED cells

\* __newindex of the guarded proxy
Write(c, v) ==
    /\ windowOpen
    /\ journal' = Recorded(c)
    /\ cells' = [cells EXCEPT ![c] = v]
    /\ UNCHANGED windowOpen

CommitTransaction ==
    /\ windowOpen
    /\ windowOpen' = FALSE
    /\ journal' = EmptyJournal
    /\ UNCHANGED cells

\* Mutant: the journal is thrown away, not undone.
CloseWithoutUndo ==
    /\ windowOpen
    /\ windowOpen' = FALSE
    /\ journal' = EmptyJournal
    /\ UNCHANGED cells

RollbackTransaction ==
    /\ windowOpen
    /\ cells' = Restored
    /\ windowOpen' = FALSE
    /\ journal' = EmptyJournal

WindowType ==
    /\ cells \in [Cells -> Contents]
    /\ windowOpen \in BOOLEAN
    /\ DOMAIN journal \subseteq Cells
    /\ journal \in [DOMAIN journal -> Contents]
=============================================================================
