-------------------------- MODULE AuthoringService --------------------------
(***************************************************************************)
(* FAuthoringService (AuthoringService.cpp) on the files of one package,   *)
(* which several processes change, each with one operation at a time.  An  *)
(* operation reads the package, compares the stamp it was given, computes  *)
(* the new contents of its files, has BuildRepository validate them with   *)
(* the other files as they are by then, and writes file by file, with      *)
(* AtomicWriteFile, what it computed from what it read: nothing keeps      *)
(* other processes out in between.  All but the rename write one file; a   *)
(* rename takes back what it has written when a write fails.               *)
(*                                                                         *)
(* The journal of a rename is left out.  It is written (a write that may   *)
(* fail, as the first one here) and removed, but nothing reads it outside  *)
(* the tests: RecoverPendingJournal has no caller.  Reading and comparing  *)
(* the stamp is one step.                                                  *)
(***************************************************************************)
EXTENDS PackageRules, Functions

CONSTANTS
    Clients,   \* the processes that call the service
    Faults,    \* of "write", "rollback", "crash"
    MaxFaults  \* bound on their number

ASSUME ServiceAssumption ==
    Faults \subseteq {"write", "rollback", "crash"} /\ MaxFaults \in Nat

VARIABLES
    disk,   \* the contents of the files
    call,   \* the operation of each client
    faults  \* how many there were

serviceVars == <<disk, call, faults>>

Underway == {"building", "committing", "rollingBack"}
Results == {"done", "undone", "torn", "died"}

\* What is written to each file and what was read from it (FilesToUpdate); the
\* files written; is every roll-back so far a success (bRollbackSucceeded)?
\* And, of the history, the files another client wrote since they were read.
NoFiles == [f \in {} |-> Absent]
Call(phase, updates, originals) ==
    [phase |-> phase, updates |-> updates, originals |-> originals,
     done |-> {}, intact |-> TRUE, stale |-> {}]
Ended(result) == Call(result, NoFiles, NoFiles)
Idle == Ended("idle")

Over(p, files) == [f \in Files |-> IF f \in DOMAIN files THEN files[f] ELSE p[f]]

Contents == UNION {[S -> SourceContents \cup ManifestContents] : S \in SUBSET Files}

Calls ==
    [phase : {"idle"} \cup Underway \cup Results, updates : Contents, originals : Contents,
     done : SUBSET Files, intact : BOOLEAN, stale : SUBSET Files]

CallOK(o) ==
    /\ DOMAIN o.originals = DOMAIN o.updates /\ o.done \subseteq DOMAIN o.updates
    /\ \A f \in DOMAIN o.updates : {o.updates[f], o.originals[f]} \subseteq ContentsOf(f)

TypeOK ==
    /\ disk \in Packages
    /\ call \in [Clients -> Calls] /\ \A c \in Clients : CallOK(call[c])
    /\ faults \in 0..MaxFaults

ServiceInit ==
    Builds(disk) /\ call = [c \in Clients |-> Idle] /\ faults = 0

-----------------------------------------------------------------------------
(* What an operation reads and means to write.                             *)

Free(c) == call[c] = Idle

Begin(c, files, p) ==
    /\ Free(c)
    /\ call' = [call EXCEPT ![c] =
                    Call("building", Restrict(p, files), Restrict(disk, files))]
    /\ UNCHANGED <<disk, faults>>

CreateDefinition(c, id, d) ==
    CanCreate(disk, id) /\ Begin(c, {1}, Created(disk, id, d))

ApplyOperations(c, s, id, d) ==
    s \in FirstSource(disk, id) /\ Begin(c, {s}, Edited(disk, s, id, d))

\* A field that is there.
SetField(c, s, id, p, v) ==
    /\ s \in FirstSource(disk, id) /\ ValueAt(disk[s][id], p) # Absent
    /\ ApplyOperations(c, s, id, Applied(disk[s][id], Op(p, v)))

DuplicateDefinition(c, s, from, to) ==
    /\ s \in LastSource(disk, from) /\ CanDuplicate(disk, from, to)
    /\ Begin(c, {s}, Duplicated(disk, s, from, to))

DeleteDefinition(c, s, id) == ApplyOperations(c, s, id, Absent)

RenameDefinition(c, old, new, redirect) ==
    LET p == Renamed(disk, old, new, redirect)
    IN  CanRename(disk, old, new) /\ Begin(c, {f \in Files : p[f] # disk[f]}, p)

-----------------------------------------------------------------------------
(* The build and the writes.                                               *)

Fails(kind) == kind \in Faults /\ faults < MaxFaults

\* The answers a write may give, and the fault that a failure counts as.
Written(kind) == IF Fails(kind) THEN BOOLEAN ELSE {TRUE}
Count(written) == faults' = IF written THEN faults ELSE faults + 1

Turn(c, o) == call' = [call EXCEPT ![c] = o]

\* A file is replaced: what the others have read of it is no longer there.
Replace(c, f, contents, o) ==
    /\ disk' = [disk EXCEPT ![f] = contents]
    /\ call' = [x \in Clients |->
                 IF x = c THEN o
                 ELSE IF call[x].phase \in Underway
                      THEN [call[x] EXCEPT !.stale = @ \cup {f}]
                 ELSE call[x]]

ValidateCandidate(c) ==
    /\ call[c].phase = "building"
    /\ Turn(c, IF Builds(Over(disk, call[c].updates))
               THEN [call[c] EXCEPT !.phase = "committing"] ELSE Ended("undone"))
    /\ UNCHANGED <<disk, faults>>

\* Files are written in the order in which the operation met them.
CommitFile(c) ==
    /\ call[c].phase = "committing"
    /\ \E f \in Lowest(DOMAIN call[c].updates \ call[c].done), written \in Written("write") :
          LET done == call[c].done \cup {f}
          IN  /\ Count(written)
              /\ IF written
                 THEN Replace(c, f, call[c].updates[f],
                              IF done = DOMAIN call[c].updates THEN Ended("done")
                              ELSE [call[c] EXCEPT !.done = done])
                 ELSE /\ Turn(c, IF call[c].done = {} THEN Ended("undone")
                                 ELSE [call[c] EXCEPT !.phase = "rollingBack"])
                      /\ UNCHANGED disk

\* Mutant: what is written back is the new contents.
WrittenAgain(c, f) == call[c].updates[f]

Original(c, f) == call[c].originals[f]

\* The files already written are taken back, the last one first.  One that
\* cannot be taken back is left as it is.
RollBackFile(c) ==
    /\ call[c].phase = "rollingBack"
    /\ \E f \in Highest(call[c].done), written \in Written("rollback") :
          LET o == [call[c] EXCEPT !.done = @ \ {f}, !.intact = @ /\ written]
              next == IF o.done # {} THEN o
                      ELSE Ended(IF o.intact THEN "undone" ELSE "torn")
          IN  /\ Count(written)
              /\ IF written THEN Replace(c, f, Original(c, f), next)
                 ELSE Turn(c, next) /\ UNCHANGED disk

Die(c) ==
    /\ call[c].phase \in Underway /\ Fails("crash")
    /\ faults' = faults + 1
    /\ Turn(c, Ended("died")) /\ UNCHANGED disk

Return(c) ==
    /\ call[c].phase \in Results
    /\ Turn(c, Idle) /\ UNCHANGED <<disk, faults>>

-----------------------------------------------------------------------------
ServiceNext ==
    \E c \in Clients :
        \/ \E id \in Ids, d \in Docs : CreateDefinition(c, id, d)
        \/ \E id \in Ids, s \in Sources, d \in Docs : ApplyOperations(c, s, id, d)
        \/ \E from, to \in Ids, s \in Sources : DuplicateDefinition(c, s, from, to)
        \/ \E id \in Ids, s \in Sources : DeleteDefinition(c, s, id)
        \/ \E old, new \in Ids, redirect \in BOOLEAN : RenameDefinition(c, old, new, redirect)
        \/ ValidateCandidate(c) \/ CommitFile(c) \/ RollBackFile(c)
        \/ Die(c) \/ Return(c)

ServiceSpec == ServiceInit /\ [][ServiceNext]_serviceVars

-----------------------------------------------------------------------------
(* What the clients may take the package for: while a rename is writing,   *)
(* its files are those it found.                                           *)
Writing(c) == call[c].done # {}
Visible ==
    IF \E c \in Clients : Writing(c)
    THEN Over(disk, call[CHOOSE c \in Clients : Writing(c)].originals)
    ELSE disk

Told ==
    [c \in Clients |->
        CASE call[c].phase \in {"done", "undone"} -> call[c].phase
          [] call[c].phase \in {"torn", "died"} -> "torn"
          [] OTHER -> "none"]

Crossed == \E c \in Clients : call[c].stale # {}

Package == INSTANCE ContentPackage WITH pkg <- Visible, told <- Told, crossed <- Crossed

\* An operation that is not crossed by a write of another process and that
\* succeeds has replaced the package at one instant by one that builds; one that
\* fails has changed nothing; and a rename that dies or cannot take its files
\* back leaves each file either as it was or renamed (RenameDefinition,
\* AtomicWriteFile, ValidateCandidateRepository).
ImplementsPackage == Package!Spec
=============================================================================
