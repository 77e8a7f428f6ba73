--------------------------- MODULE SaveSlotStorage ---------------------------
(***************************************************************************)
(* FFilesystemSaveSlotStorage (GV2SaveSlotStorage.cpp): one save slot kept *)
(* in a directory as immutable generation files and a small head that      *)
(* names the current and the previous one.                                 *)
(*                                                                         *)
(* A step is one call of the file system, because a process may die        *)
(* between any two of them and any of them may fail.  Calls on one storage *)
(* are serialised by its mutex, and a storage holds an exclusive lock on   *)
(* the directory, so at most one process is anywhere but "closed".  Slots  *)
(* share nothing but the directory, and every file name begins with the    *)
(* slot's id; one slot is modelled.                                        *)
(***************************************************************************)
EXTENDS Integers

CONSTANTS
    Payloads,    \* opaque bytes of a save
    Processes,   \* processes that may open the directory
    MaxTag,      \* bound: writes that get as far as choosing a tag
    Faults,      \* "io": reads, writes and renames may fail; "sweep": so may
                 \* the clean-up; "crash": a process may die; "damage": the
                 \* head may be overwritten by something else
    Absent,      \* no such file
    Torn,        \* a file that was only partly written
    Unreadable,  \* a head that does not parse
    NoName,      \* an empty generation name
    NoProcess    \* the lock is free

ASSUME StorageAssumption ==
    /\ MaxTag \in Nat
    /\ Absent \notin Payloads /\ Torn \notin Payloads /\ Unreadable \notin Payloads
    /\ Absent # Torn
    /\ NoProcess \notin Processes

Tags == 1 .. MaxTag

\* The kinds of files a write makes, each with the write's unique tag.
GenKinds == {"gen", "gen_leg"}
TmpKinds == {"tmp_new", "tmp_leg", "head_tmp"}
Generations == GenKinds \X Tags
Names == (GenKinds \cup TmpKinds) \X Tags

\* FSlotHead
HeadDocs == [cur : Generations, prev : Generations \cup {NoName}]

ASSUME NamesAssumption ==
    /\ NoName \notin Names
    /\ Absent \notin HeadDocs /\ Unreadable \notin HeadDocs /\ Torn \notin HeadDocs
    /\ Absent # Unreadable

VARIABLES
    files,    \* generations and temporary files
    head,     \* <slot>.head
    legacy,   \* <slot>.save, the format before heads
    holder,   \* the process that holds .storage.lock
    nextTag,  \* MakeUniqueTag
    pc, op,   \* what each process is doing, and the locals of its write
    reply     \* the answer to the last write of the present holder

disk == <<files, head, legacy>>
vars == <<disk, holder, nextTag, pc, op, reply>>

NoOp == [tag |-> 0, bytes |-> Absent, old |-> NoName, migrate |-> FALSE, todo |-> {}]

-----------------------------------------------------------------------------
(***************************************************************************)
(* Reading.                                                                *)
(***************************************************************************)

Present == {n \in Names : files[n] # Absent}

Referenced == IF head \in HeadDocs THEN {head.cur, head.prev} ELSE {}

ReadGeneration(n) == IF files[n] = Absent THEN Unreadable ELSE files[n]

\* ReadSlot: the bytes of a revision; Absent stands for NotFound.
ReadSlot(revision) ==
    IF head = Absent THEN IF revision = "Current" THEN legacy ELSE Absent
    ELSE IF head = Unreadable THEN Unreadable
    ELSE IF revision = "Current" THEN ReadGeneration(head.cur)
    ELSE IF head.prev = NoName THEN Absent ELSE ReadGeneration(head.prev)

-----------------------------------------------------------------------------
(***************************************************************************)
(* Opening and closing the storage.                                        *)
(***************************************************************************)

\* Mutant: the lock is not looked at.
AnyLock == TRUE

Unlocked == holder = NoProcess

\* StartupCleanup: what no readable head refers to.
Unreferenced == IF head \in HeadDocs THEN Present \ Referenced ELSE {}

Open(p) ==
    /\ pc[p] = "closed"
    /\ Unlocked
    /\ holder' = p
    /\ pc' = [pc EXCEPT ![p] = "startup"]
    /\ \E todo \in {Unreferenced} \cup (IF "sweep" \in Faults THEN {{}} ELSE {}) :
          op' = [op EXCEPT ![p] = [NoOp EXCEPT !.todo = todo]]
    /\ reply' = "none"
    /\ UNCHANGED <<disk, nextTag>>

Close(p) ==
    /\ pc[p] = "idle"
    /\ holder' = NoProcess
    /\ pc' = [pc EXCEPT ![p] = "closed"]
    /\ reply' = "none"
    /\ UNCHANGED <<disk, nextTag, op>>

-----------------------------------------------------------------------------
(***************************************************************************)
(* WriteSlot.                                                              *)
(***************************************************************************)

\* The files of the write of process p.
File(p, kind) == <<kind, op[p].tag>>

Step(p, at, next) == pc[p] = at /\ pc' = [pc EXCEPT ![p] = next]

\* The error returns: remove what the write has made so far, then Failure.
Undo(p, at, kinds) ==
    /\ Step(p, at, "undo")
    /\ op' = [op EXCEPT ![p].todo = {File(p, kind) : kind \in kinds}]

Migrated(p) == IF op[p].migrate THEN {"gen_leg"} ELSE {}

\* WriteFile into a new file; a failure may leave a part of it behind.
Write(p, at, kind, content, next, undo) ==
    \/ /\ Step(p, at, next)
       /\ files' = [files EXCEPT ![File(p, kind)] = content]
       /\ UNCHANGED <<head, legacy, holder, nextTag, op, reply>>
    \/ /\ "io" \in Faults
       /\ Undo(p, at, undo)
       /\ \E left \in {Absent, Torn} :
             files' = [files EXCEPT ![File(p, kind)] = left]
       /\ UNCHANGED <<head, legacy, holder, nextTag, reply>>

Rename(p, at, from, to, next, undo) ==
    \/ /\ Step(p, at, next)
       /\ files' = [files EXCEPT ![File(p, to)] = files[File(p, from)],
                                 ![File(p, from)] = Absent]
       /\ UNCHANGED <<head, legacy, holder, nextTag, op, reply>>
    \/ /\ "io" \in Faults
       /\ Undo(p, at, undo)
       /\ UNCHANGED <<disk, holder, nextTag, reply>>

\* Mutant: a legacy slot is not looked for.
NoMigration == FALSE

\* No head, but a slot in the old format.
MustMigrate == head = Absent /\ legacy # Absent

\* Mutant: two writes get the same tag.
SameTag == nextTag' = nextTag

\* MakeUniqueTag: clock, counter and process id.
TakeTag == nextTag' = nextTag + 1

\* The slot is read first; a head that cannot be read refuses the write.
BeginWrite(p, bytes) ==
    /\ pc[p] = "idle"
    /\ head # Unreadable
    /\ nextTag \in Tags
    /\ TakeTag
    /\ pc' = [pc EXCEPT ![p] = IF MustMigrate THEN "write_legacy" ELSE "write_new"]
    /\ op' = [op EXCEPT ![p] =
          [tag |-> nextTag, bytes |-> bytes,
           old |-> IF MustMigrate THEN <<"gen_leg", nextTag>>
                   ELSE IF head = Absent THEN NoName ELSE head.cur,
           migrate |-> MustMigrate, todo |-> {}]]
    /\ reply' = "none"
    /\ UNCHANGED <<disk, holder>>

RefuseWrite(p) ==
    /\ pc[p] = "idle"
    /\ head = Unreadable \/ "io" \in Faults
    /\ reply' = "Failure"
    /\ UNCHANGED <<disk, holder, nextTag, pc, op>>

WriteLegacy(p) ==
    Write(p, "write_legacy", "tmp_leg", legacy, "rename_legacy", {"tmp_leg"})

RenameLegacy(p) ==
    Rename(p, "rename_legacy", "tmp_leg", "gen_leg", "write_new", {"tmp_leg"})

WriteNew(p) ==
    Write(p, "write_new", "tmp_new", op[p].bytes, "rename_new",
          {"tmp_new"} \cup Migrated(p))

RenameNew(p) ==
    Rename(p, "rename_new", "tmp_new", "gen", "write_head",
           {"tmp_new"} \cup Migrated(p))

NewHead(p) == [cur |-> File(p, "gen"), prev |-> op[p].old]

WriteHead(p) ==
    Write(p, "write_head", "head_tmp", NewHead(p), "commit",
          {"head_tmp", "gen"} \cup Migrated(p))

\* The commit point: the new head replaces the old one.
CommitHead(p) ==
    \/ /\ Step(p, "commit", "committed")
       /\ head' = files[File(p, "head_tmp")]
       /\ files' = [files EXCEPT ![File(p, "head_tmp")] = Absent]
       /\ UNCHANGED <<legacy, holder, nextTag, op, reply>>
    \/ /\ "io" \in Faults
       /\ Undo(p, "commit", {"head_tmp", "gen"} \cup Migrated(p))
       /\ UNCHANGED <<disk, holder, nextTag, reply>>

\* The clean-up after the commit: the migrated file, then whatever is neither
\* the new nor the old generation.
RemoveLegacy(p) ==
    /\ Step(p, "committed", "list")
    /\ \/ legacy' = IF op[p].migrate THEN Absent ELSE legacy
       \/ "sweep" \in Faults /\ UNCHANGED legacy
    /\ UNCHANGED <<files, head, holder, nextTag, op, reply>>

\* Mutant: temporary files are not swept.
ObsoleteGenerations(p) == (Present \cap Generations) \ {File(p, "gen"), op[p].old}

Obsolete(p) == Present \ {File(p, "gen"), op[p].old}

ListRoot(p) ==
    /\ Step(p, "list", "sweep")
    /\ \E todo \in {Obsolete(p)} \cup (IF "sweep" \in Faults THEN {{}} ELSE {}) :
          op' = [op EXCEPT ![p].todo = todo]
    /\ UNCHANGED <<disk, holder, nextTag, reply>>

\* Remove, whose result nobody looks at.
RemoveOne(p) ==
    /\ pc[p] \in {"startup", "undo", "sweep"}
    /\ \E n \in op[p].todo :
          /\ op' = [op EXCEPT ![p].todo = @ \ {n}]
          /\ \/ files' = [files EXCEPT ![n] = Absent]
             \/ "sweep" \in Faults /\ UNCHANGED files
    /\ UNCHANGED <<head, legacy, holder, nextTag, pc, reply>>

\* The call returns when it has nothing left to remove.
Return(p) ==
    /\ pc[p] \in {"startup", "undo", "sweep"}
    /\ op[p].todo = {}
    /\ pc' = [pc EXCEPT ![p] = "idle"]
    /\ op' = [op EXCEPT ![p] = NoOp]
    /\ reply' = CASE pc[p] = "startup" -> "none"
                  [] pc[p] = "undo" -> "Failure"
                  [] pc[p] = "sweep" -> "Ok"
    /\ UNCHANGED <<disk, holder, nextTag>>

-----------------------------------------------------------------------------

\* The file a process is in the middle of writing.
Writing(p) == CASE pc[p] = "write_legacy" -> {File(p, "tmp_leg")}
                [] pc[p] = "write_new" -> {File(p, "tmp_new")}
                [] pc[p] = "write_head" -> {File(p, "head_tmp")}
                [] OTHER -> {}

\* A process dies, perhaps in the middle of a write; its lock goes with it.
Crash(p) ==
    /\ "crash" \in Faults
    /\ pc[p] # "closed"
    /\ \E torn \in SUBSET Writing(p) :
          files' = [n \in Names |-> IF n \in torn THEN Torn ELSE files[n]]
    /\ holder' = NoProcess
    /\ pc' = [pc EXCEPT ![p] = "closed"]
    /\ op' = [op EXCEPT ![p] = NoOp]
    /\ reply' = "none"
    /\ UNCHANGED <<head, legacy, nextTag>>

\* Something other than the storage overwrites the head.
DamageHead ==
    /\ "damage" \in Faults
    /\ holder = NoProcess
    /\ head \in HeadDocs
    /\ head' = Unreadable
    /\ UNCHANGED <<files, legacy, holder, nextTag, pc, op, reply>>

-----------------------------------------------------------------------------

\* A directory that is empty or holds a slot in the old format.
Init ==
    /\ files = [n \in Names |-> Absent]
    /\ head = Absent
    /\ legacy \in Payloads \cup {Absent}
    /\ holder = NoProcess
    /\ nextTag = 1
    /\ pc = [p \in Processes |-> "closed"]
    /\ op = [p \in Processes |-> NoOp]
    /\ reply = "none"

ProcessNext(p) ==
    \/ Open(p) \/ Close(p)
    \/ \E bytes \in Payloads : BeginWrite(p, bytes)
    \/ RefuseWrite(p)
    \/ WriteLegacy(p) \/ RenameLegacy(p)
    \/ WriteNew(p) \/ RenameNew(p)
    \/ WriteHead(p) \/ CommitHead(p)
    \/ RemoveLegacy(p) \/ ListRoot(p)
    \/ RemoveOne(p) \/ Return(p)
    \/ Crash(p)

Next == (\E p \in Processes : ProcessNext(p)) \/ DamageHead

Spec == Init /\ [][Next]_vars

-----------------------------------------------------------------------------

WritePcs == {"write_legacy", "rename_legacy", "write_new", "rename_new",
             "write_head", "commit"}
CommittedPcs == {"committed", "list", "sweep"}
Pcs == {"closed", "startup", "idle", "undo"} \cup WritePcs \cup CommittedPcs

Ops == [tag : 0 .. MaxTag, bytes : Payloads \cup {Absent},
        old : Generations \cup {NoName}, migrate : BOOLEAN, todo : SUBSET Names]

\* A generation is complete from the moment it exists; only temporary files may
\* be torn.
Contents(n) ==
    CASE n[1] \in GenKinds -> Payloads \cup {Absent}
      [] n[1] = "head_tmp" -> HeadDocs \cup {Absent, Torn}
      [] OTHER -> Payloads \cup {Absent, Torn}

\* Every variable has its type, and no generation is torn.
TypeOK ==
    /\ DOMAIN files = Names /\ \A n \in Names : files[n] \in Contents(n)
    /\ head \in HeadDocs \cup {Absent, Unreadable}
    /\ legacy \in Payloads \cup {Absent}
    /\ holder \in Processes \cup {NoProcess}
    /\ nextTag \in 1 .. MaxTag + 1
    /\ pc \in [Processes -> Pcs] /\ op \in [Processes -> Ops]
    /\ reply \in {"none", "Ok", "Failure"}

(***************************************************************************)
(* What the head names exists and is complete, at every step of every      *)
(* write, clean-up and crash, whoever owns the directory.                  *)
(***************************************************************************)
HeadIsWhole ==
    head \in HeadDocs =>
        /\ files[head.cur] \in Payloads
        /\ head.prev # NoName => files[head.prev] \in Payloads

(***************************************************************************)
(* A generation never changes: it appears, complete, and may be removed    *)
(* (ADR 0045, D1).                                                         *)
(***************************************************************************)
GenerationsImmutable ==
    [][\A n \in Generations :
        files[n] # Absent => files'[n] \in {files[n], Absent}]_vars

(***************************************************************************)
(* Between calls the directory holds nothing but what a readable head      *)
(* refers to, whatever crashed before (when the clean-up itself does not   *)
(* fail).                                                                  *)
(***************************************************************************)
IdleIsClean ==
    \A p \in Processes :
        pc[p] = "idle" /\ head \in HeadDocs => Present \subseteq Referenced

(***************************************************************************)
(* The storage implements the slot: what ReadSlot returns changes only at  *)
(* the commit point, where the current revision becomes the previous one,  *)
(* and WriteSlot answers Ok exactly when that point has been passed.       *)
(***************************************************************************)
Owner == {p \in Processes : pc[p] # "closed"}

CallState ==
    IF \E p \in Owner : pc[p] \in WritePcs \/ pc[p] = "undo" THEN "writing"
    ELSE IF \E p \in Owner : pc[p] \in CommittedPcs THEN "committed"
    ELSE "none"

CallBytes ==
    IF CallState = "none" THEN Absent
    ELSE op[CHOOSE p \in Owner : TRUE].bytes

Slot == INSTANCE SaveSlot
    WITH current <- ReadSlot("Current"), previous <- ReadSlot("Previous"),
         call <- CallState, bytes <- CallBytes

SlotRefined == Slot!Spec
=============================================================================
