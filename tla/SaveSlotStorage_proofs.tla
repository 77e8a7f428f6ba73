----------------------- MODULE SaveSlotStorage_proofs -----------------------
(***************************************************************************)
(* Proofs about SaveSlotStorage, for every set of payloads and processes,  *)
(* every bound on the tags and every set of faults: its types, the head    *)
(* that always names complete generations, generations that never change,  *)
(* a storage at rest that is clean and, unless something else damages the  *)
(* head, the implementation of SaveSlot.                                   *)
(***************************************************************************)
EXTENDS SaveSlotStorage, TLAPS

(***************************************************************************)
(* The inductive invariant.  Only the holder of the lock is anywhere but   *)
(* "closed"; files of tags not yet taken do not exist; and the write in    *)
(* progress has left on disk exactly what its pc says, none of which the   *)
(* head refers to before the commit.                                       *)
(***************************************************************************)
OneOwner == \A p \in Processes : pc[p] # "closed" => holder = p

Fresh ==
    /\ \A n \in Names : n[2] >= nextTag => files[n] = Absent
    /\ head \in HeadDocs => \A n \in Referenced \cap Generations : n[2] < nextTag

\* What WriteSlot has found out before it writes anything.
Prepared(p) ==
    /\ op[p].tag \in Tags /\ op[p].tag < nextTag
    /\ op[p].bytes \in Payloads
    /\ \A n \in Referenced \cap Generations : n[2] # op[p].tag
    /\ \/ op[p].migrate /\ head = Absent /\ legacy \in Payloads
          /\ op[p].old = File(p, "gen_leg")
       \/ ~op[p].migrate /\ head = Absent /\ legacy = Absent /\ op[p].old = NoName
       \/ ~op[p].migrate /\ head \in HeadDocs /\ op[p].old = head.cur

\* What it has written, step by step.
Written(p) ==
    /\ pc[p] \in {"write_legacy", "rename_legacy"} =>
          op[p].migrate /\ files[File(p, "gen_leg")] = Absent
    /\ pc[p] = "rename_legacy" => files[File(p, "tmp_leg")] = legacy
    /\ pc[p] \in {"write_new", "rename_new", "write_head", "commit"} /\ op[p].migrate =>
          files[File(p, "gen_leg")] = legacy
    /\ pc[p] \in WritePcs \ {"write_head", "commit"} => files[File(p, "gen")] = Absent
    /\ pc[p] = "rename_new" => files[File(p, "tmp_new")] = op[p].bytes
    /\ pc[p] \in {"write_head", "commit"} => files[File(p, "gen")] = op[p].bytes
    /\ pc[p] = "commit" => files[File(p, "head_tmp")] = NewHead(p)

CallOK(p) ==
    /\ pc[p] \in WritePcs => Prepared(p) /\ Written(p)
    /\ pc[p] \in CommittedPcs => op[p].tag \in Tags /\ head = NewHead(p)
    /\ pc[p] \in {"startup", "undo", "sweep"} => op[p].todo \cap Referenced = {}

IInv ==
    /\ TypeOK
    /\ OneOwner
    /\ Fresh
    /\ HeadIsWhole
    /\ \A p \in Processes : CallOK(p)

-----------------------------------------------------------------------------
(***************************************************************************)
(* File names.                                                             *)
(***************************************************************************)

LEMMA NameFacts ==
    ASSUME NEW n \in Names
    PROVE  /\ n[1] \in GenKinds \cup TmpKinds /\ n[2] \in Tags
           /\ n = <<n[1], n[2]>>
           /\ n # NoName
           /\ n \in Generations <=> n[1] \in GenKinds
BY NamesAssumption DEF Names, Generations, GenKinds, TmpKinds, Tags

LEMMA GenerationIsName == Generations \subseteq Names
BY DEF Names, Generations

LEMMA FileFacts ==
    ASSUME NEW p \in Processes, op[p].tag \in Tags,
           NEW kind \in GenKinds \cup TmpKinds
    PROVE  /\ File(p, kind) \in Names
           /\ File(p, kind)[1] = kind /\ File(p, kind)[2] = op[p].tag
           /\ kind \in GenKinds => File(p, kind) \in Generations
BY DEF Names, Generations, File

\* What the head refers to are generations.
LEMMA ReferencedFacts ==
    ASSUME TypeOK, head \in HeadDocs
    PROVE  /\ Referenced = {head.cur, head.prev}
           /\ head.cur \in Generations
           /\ head.prev # NoName => head.prev \in Generations
BY DEF TypeOK, HeadDocs, Referenced

(***************************************************************************)
(* A step that only touches files of a tag the head does not refer to, or  *)
(* only removes files the head does not refer to, keeps the head whole.    *)
(***************************************************************************)
LEMMA KeepsReferenced ==
    ASSUME TypeOK, HeadIsWhole, UNCHANGED head,
           \A n \in Referenced \cap Generations : files'[n] = files[n]
    PROVE  HeadIsWhole'
<1>1. CASE head \in HeadDocs
  <2>1. head.cur \in Referenced \cap Generations
    BY <1>1, ReferencedFacts
  <2>2. head.prev # NoName => head.prev \in Referenced \cap Generations
    BY <1>1, ReferencedFacts
  <2> QED BY <1>1, <2>1, <2>2 DEF HeadIsWhole
<1>2. CASE head \notin HeadDocs
  BY <1>2 DEF HeadIsWhole
<1> QED BY <1>1, <1>2

LEMMA KeepsFresh ==
    ASSUME Fresh, UNCHANGED <<head, nextTag>>,
           \A n \in Names : n[2] >= nextTag => files'[n] = Absent
    PROVE  Fresh'
BY DEF Fresh, Referenced

\* Only one process does anything, so the others' calls are out of the way.
LEMMA OthersClosed ==
    ASSUME OneOwner, NEW p \in Processes, pc[p] # "closed",
           NEW q \in Processes, q # p
    PROVE  pc[q] = "closed"
BY DEF OneOwner

LEMMA ClosedCallOK ==
    ASSUME NEW q \in Processes, pc[q] = "closed"
    PROVE  CallOK(q)
BY DEF CallOK, WritePcs, CommittedPcs

-----------------------------------------------------------------------------
(***************************************************************************)
(* Steps of a write before its commit.                                     *)
(***************************************************************************)

LEMMA AttemptUnreferenced ==
    ASSUME IInv, NEW p \in Processes, pc[p] \in WritePcs,
           NEW n \in Names, n[2] = op[p].tag
    PROVE  n \notin Referenced
<1>1. Prepared(p)
  BY DEF IInv, CallOK
<1>2. CASE head \in HeadDocs
  <2>1. \A m \in Referenced : m \in Generations \/ m = NoName
    BY <1>2, ReferencedFacts DEF IInv
  <2> QED BY <1>1, <2>1, NameFacts DEF Prepared
<1>3. CASE head \notin HeadDocs
  BY <1>3 DEF Referenced
<1> QED BY <1>2, <1>3

LEMMA AttemptStep ==
    ASSUME IInv, NEW p \in Processes, pc[p] \in WritePcs,
           DOMAIN files' = Names,
           \A n \in Names : files'[n] \in Contents(n),
           \A n \in Names : n[2] # op[p].tag => files'[n] = files[n],
           NEW next \in Pcs, pc' = [pc EXCEPT ![p] = next],
           op' \in [Processes -> Ops],
           UNCHANGED <<head, legacy, holder, nextTag, reply>>,
           CallOK(p)'
    PROVE  IInv'
<1>1. TypeOK'
  BY DEF IInv, TypeOK
<1>2. Prepared(p) /\ holder = p /\ pc[p] # "closed"
  BY DEF IInv, CallOK, OneOwner, WritePcs
<1>3. OneOwner' /\ \A q \in Processes : q # p => CallOK(q)'
  <2>1. \A q \in Processes : q # p => pc'[q] = "closed"
    BY <1>2, OthersClosed DEF IInv
  <2>2. \A q \in Processes : pc'[q] = "closed" => CallOK(q)'
    BY DEF CallOK, WritePcs, CommittedPcs
  <2> QED BY <1>2, <2>1, <2>2 DEF OneOwner
<1>4. Fresh'
  <2>1. \A n \in Names : n[2] >= nextTag => n[2] # op[p].tag
    BY <1>2, NameFacts DEF Prepared, Tags, IInv, TypeOK
  <2> QED BY <2>1, KeepsFresh DEF IInv, Fresh
<1>5. HeadIsWhole'
  <2>1. \A n \in Referenced \cap Generations : n \in Names /\ n[2] # op[p].tag
    BY <1>2, GenerationIsName DEF Prepared
  <2> QED BY <2>1, KeepsReferenced DEF IInv
<1> QED BY <1>1, <1>3, <1>4, <1>5 DEF IInv

\* The error return of any step of a write.
LEMMA UndoStep ==
    ASSUME IInv, NEW p \in Processes, NEW at \in WritePcs,
           NEW kinds \in SUBSET (GenKinds \cup TmpKinds),
           Undo(p, at, kinds),
           DOMAIN files' = Names,
           \A n \in Names : files'[n] \in Contents(n),
           \A n \in Names : n[2] # op[p].tag => files'[n] = files[n],
           UNCHANGED <<head, legacy, holder, nextTag, reply>>
    PROVE  IInv'
<1>1. pc[p] \in WritePcs /\ pc' = [pc EXCEPT ![p] = "undo"]
  BY DEF Undo, Step
<1>2. op[p].tag \in Tags
  BY <1>1 DEF IInv, CallOK, Prepared
<1> DEFINE todo == {File(p, kind) : kind \in kinds}
<1>3. todo \subseteq Names /\ \A n \in todo : n[2] = op[p].tag
  BY <1>2, FileFacts
<1>4. op' = [op EXCEPT ![p].todo = todo]
  BY DEF Undo
<1>5. op' \in [Processes -> Ops] /\ op'[p].todo = todo
  BY <1>3, <1>4 DEF IInv, TypeOK, Ops
<1>6. todo \cap Referenced = {}
  BY <1>1, <1>3, AttemptUnreferenced
<1>7. pc'[p] = "undo"
  BY <1>1 DEF IInv, TypeOK
<1>8. CallOK(p)'
  BY <1>5, <1>6, <1>7 DEF CallOK, WritePcs, CommittedPcs, Referenced
<1> QED BY <1>1, <1>5, <1>8, AttemptStep DEF Pcs

LEMMA WriteStep ==
    ASSUME IInv, NEW p \in Processes, NEW at \in WritePcs, NEW kind \in TmpKinds,
           NEW content, content \in Contents(File(p, kind)), NEW next \in Pcs,
           NEW undo \in SUBSET (GenKinds \cup TmpKinds),
           Write(p, at, kind, content, next, undo),
           /\ pc' = [pc EXCEPT ![p] = next]
           /\ files' = [files EXCEPT ![File(p, kind)] = content]
           /\ UNCHANGED <<head, legacy, nextTag, op>>
           => CallOK(p)'
    PROVE  IInv'
<1>1. pc[p] \in WritePcs
  BY DEF Write, Undo, Step
<1>2. op[p].tag \in Tags
  BY <1>1 DEF IInv, CallOK, Prepared
<1>3. /\ File(p, kind) \in Names
      /\ File(p, kind)[1] = kind /\ File(p, kind)[2] = op[p].tag
  BY <1>2, FileFacts
<1>4. ASSUME NEW c \in Contents(File(p, kind)),
             files' = [files EXCEPT ![File(p, kind)] = c]
      PROVE  /\ DOMAIN files' = Names
             /\ \A n \in Names : files'[n] \in Contents(n)
             /\ \A n \in Names : n[2] # op[p].tag => files'[n] = files[n]
  BY <1>3, <1>4 DEF IInv, TypeOK
<1>5. CASE /\ Step(p, at, next)
           /\ files' = [files EXCEPT ![File(p, kind)] = content]
           /\ UNCHANGED <<head, legacy, holder, nextTag, op, reply>>
  BY <1>1, <1>4, <1>5, AttemptStep DEF Step, IInv, TypeOK
<1>6. CASE /\ Undo(p, at, undo)
           /\ \E left \in {Absent, Torn} :
                 files' = [files EXCEPT ![File(p, kind)] = left]
           /\ UNCHANGED <<head, legacy, holder, nextTag, reply>>
  <2>1. {Absent, Torn} \subseteq Contents(File(p, kind))
    BY <1>3 DEF Contents, GenKinds, TmpKinds
  <2> QED BY <1>4, <1>6, <2>1, UndoStep
<1> QED BY <1>5, <1>6 DEF Write

LEMMA RenameStep ==
    ASSUME IInv, NEW p \in Processes, NEW at \in WritePcs,
           NEW from \in {"tmp_new", "tmp_leg"}, NEW to \in GenKinds,
           files[File(p, from)] \in Payloads, NEW next \in Pcs,
           NEW undo \in SUBSET (GenKinds \cup TmpKinds),
           Rename(p, at, from, to, next, undo),
           /\ pc' = [pc EXCEPT ![p] = next]
           /\ files' = [files EXCEPT ![File(p, to)] = files[File(p, from)],
                                     ![File(p, from)] = Absent]
           /\ UNCHANGED <<head, legacy, nextTag, op>>
           => CallOK(p)'
    PROVE  IInv'
<1>1. pc[p] \in WritePcs
  BY DEF Rename, Undo, Step
<1>2. op[p].tag \in Tags
  BY <1>1 DEF IInv, CallOK, Prepared
<1>3. /\ File(p, from) \in Names /\ File(p, to) \in Names
      /\ File(p, from)[1] = from /\ File(p, to)[1] = to
      /\ File(p, from)[2] = op[p].tag /\ File(p, to)[2] = op[p].tag
  BY <1>2, FileFacts DEF TmpKinds
<1>4. CASE /\ Step(p, at, next)
           /\ files' = [files EXCEPT ![File(p, to)] = files[File(p, from)],
                                     ![File(p, from)] = Absent]
           /\ UNCHANGED <<head, legacy, holder, nextTag, op, reply>>
  <2>1. files[File(p, from)] \in Contents(File(p, to)) /\ Absent \in Contents(File(p, from))
    BY <1>3 DEF Contents, GenKinds
  <2>2. /\ DOMAIN files' = Names
        /\ \A n \in Names : files'[n] \in Contents(n)
        /\ \A n \in Names : n[2] # op[p].tag => files'[n] = files[n]
    BY <1>3, <1>4, <2>1 DEF IInv, TypeOK
  <2> QED BY <1>1, <1>4, <2>2, AttemptStep DEF Step, IInv, TypeOK
<1>5. CASE Undo(p, at, undo) /\ UNCHANGED <<disk, holder, nextTag, reply>>
  BY <1>5, UndoStep DEF disk, IInv, TypeOK
<1> QED BY <1>4, <1>5 DEF Rename

LEMMA PreparedKept ==
    ASSUME NEW p \in Processes, Prepared(p), UNCHANGED <<head, legacy, nextTag, op>>
    PROVE  Prepared(p)'
BY DEF Prepared, Referenced, File

LEMMA WriteLegacyIInv ==
    ASSUME IInv, NEW p \in Processes, WriteLegacy(p)
    PROVE  IInv'
<1>1. pc[p] = "write_legacy" /\ Prepared(p) /\ Written(p)
  BY DEF WriteLegacy, Write, Undo, Step, IInv, CallOK, WritePcs
<1>2. legacy \in Payloads
  BY <1>1 DEF Written, Prepared
<1>3. legacy \in Contents(File(p, "tmp_leg"))
  BY <1>1, <1>2, FileFacts DEF Prepared, Contents, GenKinds, TmpKinds
<1>4. ASSUME pc' = [pc EXCEPT ![p] = "rename_legacy"],
             files' = [files EXCEPT ![File(p, "tmp_leg")] = legacy],
             UNCHANGED <<head, legacy, nextTag, op>>
      PROVE  CallOK(p)'
  <2>1. pc'[p] = "rename_legacy" /\ op'[p] = op[p] /\ legacy' = legacy
    BY <1>4 DEF IInv, TypeOK
  <2>2. Prepared(p)'
    BY <1>1, <1>4, PreparedKept
  <2>3. /\ files'[File(p, "tmp_leg")] = legacy
        /\ files'[File(p, "gen")] = files[File(p, "gen")]
        /\ files'[File(p, "gen_leg")] = files[File(p, "gen_leg")]
    BY <1>1, <1>4 DEF Prepared, GenKinds, TmpKinds, IInv, TypeOK, File, Names
  <2>4. Written(p)'
    BY <1>1, <1>4, <2>1, <2>3 DEF Written, Prepared, NewHead, WritePcs, File
  <2> QED BY <2>1, <2>2, <2>4 DEF CallOK, WritePcs, CommittedPcs
<1> QED BY <1>3, <1>4, WriteStep DEF WriteLegacy, WritePcs, Pcs, TmpKinds

LEMMA RenameLegacyIInv ==
    ASSUME IInv, NEW p \in Processes, RenameLegacy(p)
    PROVE  IInv'
<1>1. pc[p] = "rename_legacy" /\ Prepared(p) /\ Written(p)
  BY DEF RenameLegacy, Rename, Undo, Step, IInv, CallOK, WritePcs
<1>2. files[File(p, "tmp_leg")] \in Payloads
  BY <1>1 DEF Written, Prepared
<1>3. ASSUME pc' = [pc EXCEPT ![p] = "write_new"],
             files' = [files EXCEPT ![File(p, "gen_leg")] = files[File(p, "tmp_leg")],
                                    ![File(p, "tmp_leg")] = Absent],
             UNCHANGED <<head, legacy, nextTag, op>>
      PROVE  CallOK(p)'
  <2>1. pc'[p] = "write_new" /\ op'[p] = op[p] /\ legacy' = legacy
    BY <1>3 DEF IInv, TypeOK
  <2>2. Prepared(p)'
    BY <1>1, <1>3, PreparedKept
  <2>3. /\ files'[File(p, "gen_leg")] = files[File(p, "tmp_leg")]
        /\ files'[File(p, "gen")] = files[File(p, "gen")]
    BY <1>1, <1>3 DEF Prepared, GenKinds, TmpKinds, IInv, TypeOK, File, Names
  <2>4. Written(p)'
    BY <1>1, <1>3, <2>1, <2>3 DEF Written, Prepared, NewHead, WritePcs, File
  <2> QED BY <2>1, <2>2, <2>4 DEF CallOK, WritePcs, CommittedPcs
<1> QED BY <1>2, <1>3, RenameStep DEF RenameLegacy, WritePcs, Pcs, TmpKinds, GenKinds

LEMMA WriteNewIInv ==
    ASSUME IInv, NEW p \in Processes, WriteNew(p)
    PROVE  IInv'
<1>1. pc[p] = "write_new" /\ Prepared(p) /\ Written(p)
  BY DEF WriteNew, Write, Undo, Step, IInv, CallOK, WritePcs
<1>2. op[p].bytes \in Contents(File(p, "tmp_new"))
  BY <1>1, FileFacts DEF Prepared, Contents, GenKinds, TmpKinds
<1>3. ASSUME pc' = [pc EXCEPT ![p] = "rename_new"],
             files' = [files EXCEPT ![File(p, "tmp_new")] = op[p].bytes],
             UNCHANGED <<head, legacy, nextTag, op>>
      PROVE  CallOK(p)'
  <2>1. pc'[p] = "rename_new" /\ op'[p] = op[p] /\ legacy' = legacy
    BY <1>3 DEF IInv, TypeOK
  <2>2. Prepared(p)'
    BY <1>1, <1>3, PreparedKept
  <2>3. /\ files'[File(p, "tmp_new")] = op[p].bytes
        /\ files'[File(p, "gen")] = files[File(p, "gen")]
        /\ files'[File(p, "gen_leg")] = files[File(p, "gen_leg")]
    BY <1>1, <1>3 DEF Prepared, GenKinds, TmpKinds, IInv, TypeOK, File, Names
  <2>4. Written(p)'
    BY <1>1, <1>3, <2>1, <2>3 DEF Written, Prepared, NewHead, WritePcs, File
  <2> QED BY <2>1, <2>2, <2>4 DEF CallOK, WritePcs, CommittedPcs
<1>4. {"tmp_new"} \cup Migrated(p) \subseteq GenKinds \cup TmpKinds
  BY DEF Migrated, GenKinds, TmpKinds
<1> QED BY <1>2, <1>3, <1>4, WriteStep DEF WriteNew, WritePcs, Pcs, TmpKinds

LEMMA RenameNewIInv ==
    ASSUME IInv, NEW p \in Processes, RenameNew(p)
    PROVE  IInv'
<1>1. pc[p] = "rename_new" /\ Prepared(p) /\ Written(p)
  BY DEF RenameNew, Rename, Undo, Step, IInv, CallOK, WritePcs
<1>2. files[File(p, "tmp_new")] \in Payloads
  BY <1>1 DEF Written, Prepared
<1>3. ASSUME pc' = [pc EXCEPT ![p] = "write_head"],
             files' = [files EXCEPT ![File(p, "gen")] = files[File(p, "tmp_new")],
                                    ![File(p, "tmp_new")] = Absent],
             UNCHANGED <<head, legacy, nextTag, op>>
      PROVE  CallOK(p)'
  <2>1. pc'[p] = "write_head" /\ op'[p] = op[p] /\ legacy' = legacy
    BY <1>3 DEF IInv, TypeOK
  <2>2. Prepared(p)'
    BY <1>1, <1>3, PreparedKept
  <2>3. /\ files'[File(p, "gen")] = files[File(p, "tmp_new")]
        /\ files'[File(p, "gen_leg")] = files[File(p, "gen_leg")]
    BY <1>1, <1>3 DEF Prepared, GenKinds, TmpKinds, IInv, TypeOK, File, Names
  <2>4. Written(p)'
    BY <1>1, <1>3, <2>1, <2>3 DEF Written, Prepared, NewHead, WritePcs, File
  <2> QED BY <2>1, <2>2, <2>4 DEF CallOK, WritePcs, CommittedPcs
<1>4. {"tmp_new"} \cup Migrated(p) \subseteq GenKinds \cup TmpKinds
  BY DEF Migrated, GenKinds, TmpKinds
<1> QED BY <1>2, <1>3, <1>4, RenameStep DEF RenameNew, WritePcs, Pcs, GenKinds

LEMMA WriteHeadIInv ==
    ASSUME IInv, NEW p \in Processes, WriteHead(p)
    PROVE  IInv'
<1>1. pc[p] = "write_head" /\ Prepared(p) /\ Written(p)
  BY DEF WriteHead, Write, Undo, Step, IInv, CallOK, WritePcs
<1>2. op[p].tag \in Tags
  BY <1>1 DEF Prepared
<1>3. NewHead(p) \in HeadDocs
  BY <1>1, <1>2, FileFacts DEF NewHead, HeadDocs, GenKinds, IInv, TypeOK, Ops
<1>4. NewHead(p) \in Contents(File(p, "head_tmp"))
  BY <1>2, <1>3, FileFacts DEF Contents, GenKinds, TmpKinds
<1>5. ASSUME pc' = [pc EXCEPT ![p] = "commit"],
             files' = [files EXCEPT ![File(p, "head_tmp")] = NewHead(p)],
             UNCHANGED <<head, legacy, nextTag, op>>
      PROVE  CallOK(p)'
  <2>1. pc'[p] = "commit" /\ op'[p] = op[p] /\ legacy' = legacy
    BY <1>5 DEF IInv, TypeOK
  <2>2. Prepared(p)'
    BY <1>1, <1>5, PreparedKept
  <2>3. /\ files'[File(p, "head_tmp")] = NewHead(p)
        /\ files'[File(p, "gen")] = files[File(p, "gen")]
        /\ files'[File(p, "gen_leg")] = files[File(p, "gen_leg")]
    BY <1>1, <1>5 DEF Prepared, GenKinds, TmpKinds, IInv, TypeOK, File, Names
  <2>4. Written(p)'
    BY <1>1, <1>5, <2>1, <2>3 DEF Written, Prepared, NewHead, WritePcs, File
  <2> QED BY <2>1, <2>2, <2>4 DEF CallOK, WritePcs, CommittedPcs
<1>6. {"head_tmp", "gen"} \cup Migrated(p) \subseteq GenKinds \cup TmpKinds
  BY DEF Migrated, GenKinds, TmpKinds
<1> QED BY <1>4, <1>5, <1>6, WriteStep DEF WriteHead, WritePcs, Pcs, TmpKinds

-----------------------------------------------------------------------------
(***************************************************************************)
(* The steps outside a write's attempt.                                    *)
(***************************************************************************)

LEMMA OthersOK ==
    ASSUME IInv, NEW p \in Processes, pc[p] # "closed" \/ holder = NoProcess,
           \A q \in Processes : q # p => pc'[q] = pc[q]
    PROVE  \A q \in Processes : q # p => pc'[q] = "closed" /\ CallOK(q)'
<1>1. \A q \in Processes : q # p => pc'[q] = "closed"
  BY StorageAssumption DEF IInv, OneOwner
<1>2. \A q \in Processes : pc'[q] = "closed" => CallOK(q)'
  BY DEF CallOK, WritePcs, CommittedPcs
<1> QED BY <1>1, <1>2

LEMMA SameDisk ==
    ASSUME Fresh, HeadIsWhole, UNCHANGED <<files, head, nextTag>>
    PROVE  Fresh' /\ HeadIsWhole'
BY DEF Fresh, HeadIsWhole, Referenced

LEMMA NoOpType == NoOp \in Ops
BY StorageAssumption DEF NoOp, Ops

LEMMA InitIInv == Init => IInv
<1> SUFFICES ASSUME Init PROVE IInv
  OBVIOUS
<1>1. TypeOK
  BY NoOpType, StorageAssumption
     DEF Init, TypeOK, Contents, Pcs
<1>2. OneOwner /\ \A p \in Processes : CallOK(p)
  BY DEF Init, OneOwner, CallOK, WritePcs, CommittedPcs
<1>3. Fresh /\ HeadIsWhole
  BY NamesAssumption DEF Init, Fresh, HeadIsWhole
<1> QED BY <1>1, <1>2, <1>3 DEF IInv

LEMMA OpenIInv ==
    ASSUME IInv, NEW p \in Processes, Open(p)
    PROVE  IInv'
<1>1. PICK todo \in SUBSET Names :
         /\ todo \cap Referenced = {}
         /\ op' = [op EXCEPT ![p] = [NoOp EXCEPT !.todo = todo]]
  BY DEF Open, Unreferenced, Present
<1>2. [NoOp EXCEPT !.todo = todo] \in Ops
  BY NoOpType DEF Ops
<1>3. op' \in [Processes -> Ops] /\ op'[p].todo = todo
  BY <1>1, <1>2, NoOpType DEF IInv, TypeOK, Ops
<1>4. pc' \in [Processes -> Pcs] /\ pc'[p] = "startup"
  BY DEF Open, IInv, TypeOK, Pcs
<1>5. TypeOK'
  BY <1>3, <1>4 DEF Open, disk, IInv, TypeOK
<1>6. \A q \in Processes : q # p => pc'[q] = "closed" /\ CallOK(q)'
  BY OthersOK DEF Open, Unlocked, IInv, TypeOK
<1>7. CallOK(p)'
  BY <1>1, <1>3, <1>4 DEF CallOK, WritePcs, CommittedPcs, Referenced, Open, disk
<1>8. OneOwner'
  BY <1>6 DEF Open, OneOwner
<1>9. Fresh' /\ HeadIsWhole'
  BY SameDisk DEF Open, disk, IInv
<1> QED BY <1>5, <1>6, <1>7, <1>8, <1>9 DEF IInv

\* Close, RefuseWrite and Return: the disk stays, the process ends up in no call.
LEMMA CallEnds ==
    ASSUME IInv, NEW p \in Processes, pc[p] # "closed",
           NEW next \in {"idle", "closed"}, pc' = [pc EXCEPT ![p] = next],
           op' \in [Processes -> Ops], reply' \in {"none", "Ok", "Failure"},
           UNCHANGED <<disk, nextTag>>,
           holder' = IF next = "closed" THEN NoProcess ELSE holder
    PROVE  IInv'
<1>1. pc' \in [Processes -> Pcs] /\ pc'[p] = next
  BY DEF IInv, TypeOK, Pcs
<1>2. TypeOK'
  BY <1>1 DEF disk, IInv, TypeOK
<1>3. \A q \in Processes : q # p => pc'[q] = "closed" /\ CallOK(q)'
  BY OthersOK DEF IInv, TypeOK
<1>4. CallOK(p)'
  BY <1>1 DEF CallOK, WritePcs, CommittedPcs
<1>5. OneOwner'
  BY <1>1, <1>3 DEF IInv, OneOwner
<1>6. Fresh' /\ HeadIsWhole'
  BY SameDisk DEF disk, IInv
<1> QED BY <1>2, <1>3, <1>4, <1>5, <1>6 DEF IInv

LEMMA CloseIInv ==
    ASSUME IInv, NEW p \in Processes, Close(p)
    PROVE  IInv'
BY CallEnds DEF Close, IInv, TypeOK

LEMMA RefuseWriteIInv ==
    ASSUME IInv, NEW p \in Processes, RefuseWrite(p)
    PROVE  IInv'
<1>1. pc' = [pc EXCEPT ![p] = "idle"]
  BY DEF RefuseWrite, IInv, TypeOK
<1> QED BY <1>1, CallEnds DEF RefuseWrite, IInv, TypeOK

LEMMA ReturnIInv ==
    ASSUME IInv, NEW p \in Processes, Return(p)
    PROVE  IInv'
<1>1. op' \in [Processes -> Ops]
  BY NoOpType DEF Return, IInv, TypeOK
<1>2. reply' \in {"none", "Ok", "Failure"}
  BY DEF Return
<1> QED BY <1>1, <1>2, CallEnds DEF Return

LEMMA BeginWriteIInv ==
    ASSUME IInv, NEW p \in Processes, NEW bytes \in Payloads, BeginWrite(p, bytes)
    PROVE  IInv'
<1> DEFINE next == IF MustMigrate THEN "write_legacy" ELSE "write_new"
<1> DEFINE old == IF MustMigrate THEN <<"gen_leg", nextTag>>
                  ELSE IF head = Absent THEN NoName ELSE head.cur
<1> DEFINE new == [tag |-> nextTag, bytes |-> bytes, old |-> old,
                   migrate |-> MustMigrate, todo |-> {}]
<1>1. pc' = [pc EXCEPT ![p] = next] /\ op' = [op EXCEPT ![p] = new]
  BY DEF BeginWrite
<1>2. nextTag \in Tags /\ nextTag' = nextTag + 1
  BY DEF BeginWrite, TakeTag
<1>3. UNCHANGED <<files, head, legacy, holder>> /\ reply' = "none"
  BY DEF BeginWrite, disk
<1>4. head = Absent \/ head \in HeadDocs
  BY DEF BeginWrite, IInv, TypeOK
<1>5. old \in Generations \cup {NoName}
  BY <1>2, <1>4, ReferencedFacts DEF Generations, GenKinds, IInv
<1>6. new \in Ops
  BY <1>2, <1>5 DEF Ops, MustMigrate, Tags
<1> HIDE DEF old
<1>7. op' \in [Processes -> Ops] /\ op'[p] = new
  BY <1>1, <1>6 DEF IInv, TypeOK
<1>8. pc' \in [Processes -> Pcs] /\ pc'[p] = next
  BY <1>1 DEF IInv, TypeOK, Pcs, WritePcs
<1>9. TypeOK'
  <2>1. nextTag' \in 1 .. MaxTag + 1
    BY <1>2, StorageAssumption DEF Tags
  <2> QED BY <1>3, <1>7, <1>8, <2>1 DEF IInv, TypeOK, Contents
<1>10. \A q \in Processes : q # p => pc'[q] = "closed" /\ CallOK(q)'
  BY <1>1, OthersOK DEF BeginWrite, IInv, TypeOK
<1>11. OneOwner' /\ HeadIsWhole'
  BY <1>3, <1>10 DEF BeginWrite, IInv, OneOwner, HeadIsWhole
<1>12. Fresh'
  BY <1>2, <1>3, NameFacts, GenerationIsName DEF IInv, Fresh, Referenced, Tags
<1>13. Prepared(p)'
  <2>1. \A n \in Referenced \cap Generations : n[2] # nextTag
    <3>1. CASE head \in HeadDocs
      BY <1>2, <3>1, NameFacts, GenerationIsName DEF IInv, Fresh, Tags
    <3>2. CASE head \notin HeadDocs
      BY <3>2 DEF Referenced
    <3> QED BY <3>1, <3>2
  <2>2. (\A n \in Referenced \cap Generations : n[2] # op[p].tag)'
    BY <1>3, <1>7, <2>1 DEF Referenced
  <2>3. op'[p].tag \in Tags /\ op'[p].tag < nextTag' /\ op'[p].bytes \in Payloads
    BY <1>2, <1>7 DEF Tags
  <2>4. \/ op'[p].migrate /\ head' = Absent /\ legacy' \in Payloads
           /\ op'[p].old = File(p, "gen_leg")'
        \/ ~op'[p].migrate /\ head' = Absent /\ legacy' = Absent /\ op'[p].old = NoName
        \/ ~op'[p].migrate /\ head' \in HeadDocs /\ op'[p].old = head'.cur
    <3>1. CASE MustMigrate
      <4>1. op'[p].migrate /\ op'[p].old = File(p, "gen_leg")'
        BY <1>7, <3>1 DEF old, File
      <4>2. head' = Absent /\ legacy' \in Payloads
        BY <1>3, <3>1 DEF MustMigrate, IInv, TypeOK
      <4> QED BY <4>1, <4>2
    <3>2. CASE ~MustMigrate
      <4>1. ~op'[p].migrate /\ op'[p].old = IF head = Absent THEN NoName ELSE head.cur
        BY <1>7, <3>2 DEF old
      <4> QED BY <1>3, <1>4, <3>2, <4>1 DEF MustMigrate
    <3> QED BY <3>1, <3>2
  <2> QED BY <2>2, <2>3, <2>4 DEF Prepared
<1>14. Written(p)'
  <2>1. <<"gen", nextTag>> \in Names /\ <<"gen_leg", nextTag>> \in Names
    BY <1>2 DEF Names, GenKinds
  <2>2. files[<<"gen", nextTag>>] = Absent /\ files[<<"gen_leg", nextTag>>] = Absent
    BY <1>2, <2>1 DEF IInv, Fresh, Tags
  <2>3. files'[File(p, "gen")'] = Absent /\ files'[File(p, "gen_leg")'] = Absent
    BY <1>3, <1>7, <2>2 DEF File
  <2>4. \/ op'[p].migrate /\ pc'[p] = "write_legacy"
        \/ ~op'[p].migrate /\ pc'[p] = "write_new"
    BY <1>7, <1>8
  <2> QED BY <2>3, <2>4 DEF Written
<1>15. CallOK(p)'
  BY <1>8, <1>13, <1>14 DEF CallOK, WritePcs, CommittedPcs
<1> QED BY <1>9, <1>10, <1>11, <1>12, <1>15 DEF IInv

(***************************************************************************)
(* The commit point.  The new generation and the old one are complete when *)
(* the head that names them appears.                                       *)
(***************************************************************************)
LEMMA CommitFacts ==
    ASSUME IInv, NEW p \in Processes, pc[p] = "commit"
    PROVE  /\ Prepared(p) /\ Written(p)
           /\ files[File(p, "head_tmp")] = NewHead(p) /\ NewHead(p) \in HeadDocs
           /\ File(p, "gen") \in Generations /\ files[File(p, "gen")] = op[p].bytes
           /\ op[p].old # NoName =>
                 /\ op[p].old \in Generations /\ files[op[p].old] \in Payloads
                 /\ op[p].old[2] < nextTag
<1>1. Prepared(p) /\ Written(p)
  BY DEF IInv, CallOK, WritePcs
<1>2. File(p, "gen") \in Generations /\ File(p, "gen_leg") \in Generations
  BY <1>1, FileFacts DEF Prepared, GenKinds
<1>3. op[p].old \in Generations \cup {NoName}
  BY DEF IInv, TypeOK, Ops
<1>4. NewHead(p) \in HeadDocs
  BY <1>2, <1>3 DEF NewHead, HeadDocs
<1>5. ASSUME op[p].old # NoName
      PROVE  files[op[p].old] \in Payloads /\ op[p].old[2] < nextTag
  <2>1. CASE op[p].old = File(p, "gen_leg") /\ op[p].migrate /\ legacy \in Payloads
    <3>1. File(p, "gen_leg")[2] = op[p].tag
      BY <1>1, FileFacts DEF Prepared, GenKinds
    <3> QED BY <1>1, <2>1, <3>1 DEF Prepared, Written
  <2>2. CASE op[p].old = head.cur /\ head \in HeadDocs
    BY <2>2, ReferencedFacts DEF IInv, HeadIsWhole, Fresh
  <2> QED BY <1>1, <1>5, <2>1, <2>2 DEF Prepared
<1> QED BY <1>1, <1>2, <1>3, <1>4, <1>5 DEF Written

LEMMA CommitHeadIInv ==
    ASSUME IInv, NEW p \in Processes, CommitHead(p)
    PROVE  IInv'
<1>1. pc[p] = "commit"
  BY DEF CommitHead, Step, Undo
<1>2. /\ Prepared(p) /\ Written(p)
      /\ files[File(p, "head_tmp")] = NewHead(p) /\ NewHead(p) \in HeadDocs
      /\ File(p, "gen") \in Generations /\ files[File(p, "gen")] = op[p].bytes
      /\ op[p].old # NoName =>
            /\ op[p].old \in Generations /\ files[op[p].old] \in Payloads
            /\ op[p].old[2] < nextTag
  BY <1>1, CommitFacts
<1>3. CASE /\ Step(p, "commit", "committed")
           /\ head' = files[File(p, "head_tmp")]
           /\ files' = [files EXCEPT ![File(p, "head_tmp")] = Absent]
           /\ UNCHANGED <<legacy, holder, nextTag, op, reply>>
  <2>1. File(p, "head_tmp") \in Names /\ File(p, "head_tmp") \notin Generations
        /\ File(p, "head_tmp")[1] = "head_tmp" /\ File(p, "gen")[2] = op[p].tag
    BY <1>2, FileFacts, NameFacts DEF Prepared, GenKinds, TmpKinds
  <2>2. head' = NewHead(p) /\ head'.cur = File(p, "gen") /\ head'.prev = op[p].old
    BY <1>2, <1>3 DEF NewHead
  <2>3. \A n \in Generations : files'[n] = files[n]
    BY <1>3, <2>1, GenerationIsName DEF IInv, TypeOK
  <2>4. \A n \in Names : files'[n] \in {files[n], Absent} /\ files'[n] \in Contents(n)
    <3>1. Absent \in Contents(File(p, "head_tmp"))
      BY <2>1 DEF Contents
    <3> QED BY <1>3, <2>1, <3>1 DEF IInv, TypeOK
  <2>5. pc' \in [Processes -> Pcs] /\ pc'[p] = "committed"
    BY <1>3 DEF Step, IInv, TypeOK, Pcs, CommittedPcs
  <2>6. TypeOK'
    BY <1>2, <1>3, <2>2, <2>4, <2>5 DEF IInv, TypeOK
  <2>7. \A q \in Processes : q # p => pc'[q] = "closed" /\ CallOK(q)'
    BY <1>1, <1>3, OthersOK DEF Step, IInv, TypeOK
  <2>8. CallOK(p)'
    <3>1. head' = NewHead(p)' /\ op'[p].tag \in Tags
      BY <1>2, <1>3, <2>2 DEF NewHead, File, Prepared
    <3> QED BY <2>5, <3>1 DEF CallOK, WritePcs, CommittedPcs
  <2>9. OneOwner'
    BY <1>1, <1>3, <2>7 DEF IInv, OneOwner
  <2>10. HeadIsWhole'
    BY <1>2, <2>2, <2>3 DEF HeadIsWhole, Prepared
  <2>11. Fresh'
    <3>1. \A n \in Referenced' \cap Generations : n[2] < nextTag
      BY <1>2, <2>1, <2>2, NamesAssumption, GenerationIsName DEF Referenced, Prepared
    <3>2. \A n \in Names : n[2] >= nextTag => files'[n] = Absent
      BY <2>4 DEF IInv, Fresh
    <3> QED BY <1>3, <3>1, <3>2 DEF Fresh
  <2> QED BY <2>6, <2>7, <2>8, <2>9, <2>10, <2>11 DEF IInv
<1>4. CASE /\ Undo(p, "commit", {"head_tmp", "gen"} \cup Migrated(p))
           /\ UNCHANGED <<disk, holder, nextTag, reply>>
  <2>1. {"head_tmp", "gen"} \cup Migrated(p) \subseteq GenKinds \cup TmpKinds
    BY DEF Migrated, GenKinds, TmpKinds
  <2> QED BY <1>4, <2>1, UndoStep DEF disk, IInv, TypeOK, WritePcs
<1> QED BY <1>3, <1>4 DEF CommitHead

LEMMA CommittedFacts ==
    ASSUME IInv, NEW p \in Processes, pc[p] \in CommittedPcs
    PROVE  /\ op[p].tag \in Tags /\ head = NewHead(p) /\ head \in HeadDocs
           /\ Referenced = {File(p, "gen"), op[p].old}
<1>1. op[p].tag \in Tags /\ head = NewHead(p)
  BY DEF IInv, CallOK
<1>2. op[p].old \in Generations \cup {NoName}
  BY DEF IInv, TypeOK, Ops
<1>3. File(p, "gen") \in Generations
  BY <1>1, FileFacts DEF GenKinds
<1>4. head \in HeadDocs
  BY <1>1, <1>2, <1>3 DEF NewHead, HeadDocs
<1> QED BY <1>1, <1>4 DEF NewHead, Referenced

LEMMA RemoveLegacyIInv ==
    ASSUME IInv, NEW p \in Processes, RemoveLegacy(p)
    PROVE  IInv'
<1>1. pc[p] = "committed" /\ pc' = [pc EXCEPT ![p] = "list"]
  BY DEF RemoveLegacy, Step
<1>2. pc' \in [Processes -> Pcs] /\ pc'[p] = "list"
  BY <1>1 DEF IInv, TypeOK, Pcs, CommittedPcs
<1>3. legacy' \in Payloads \cup {Absent} /\ UNCHANGED <<files, head, holder, nextTag, op, reply>>
  BY DEF RemoveLegacy, IInv, TypeOK
<1>4. TypeOK'
  BY <1>2, <1>3 DEF IInv, TypeOK, Contents
<1>5. \A q \in Processes : q # p => pc'[q] = "closed" /\ CallOK(q)'
  BY <1>1, OthersOK DEF IInv, TypeOK
<1>6. CallOK(p)'
  <2>1. op[p].tag \in Tags /\ head = NewHead(p)
    BY <1>1, CommittedFacts DEF CommittedPcs
  <2> QED BY <1>2, <1>3, <2>1 DEF CallOK, WritePcs, CommittedPcs, NewHead, File
<1>7. OneOwner' /\ Fresh' /\ HeadIsWhole'
  BY <1>1, <1>3, <1>5, SameDisk DEF IInv, OneOwner
<1> QED BY <1>4, <1>5, <1>6, <1>7 DEF IInv

LEMMA ListRootIInv ==
    ASSUME IInv, NEW p \in Processes, ListRoot(p)
    PROVE  IInv'
<1>1. pc[p] = "list" /\ pc' = [pc EXCEPT ![p] = "sweep"]
  BY DEF ListRoot, Step
<1>2. pc' \in [Processes -> Pcs] /\ pc'[p] = "sweep"
  BY <1>1 DEF IInv, TypeOK, Pcs, CommittedPcs
<1>3. /\ op[p].tag \in Tags /\ head = NewHead(p)
      /\ Referenced = {File(p, "gen"), op[p].old}
  BY <1>1, CommittedFacts DEF CommittedPcs
<1>4. PICK todo \in SUBSET Names :
         /\ todo \cap {File(p, "gen"), op[p].old} = {}
         /\ op' = [op EXCEPT ![p].todo = todo]
  BY DEF ListRoot, Obsolete, Present
<1>5. /\ op' \in [Processes -> Ops] /\ op'[p].todo = todo
      /\ op'[p].tag = op[p].tag /\ op'[p].old = op[p].old
  BY <1>4 DEF IInv, TypeOK, Ops
<1>6. UNCHANGED <<disk, holder, nextTag, reply>>
  BY DEF ListRoot
<1>7. TypeOK'
  BY <1>2, <1>5, <1>6 DEF disk, IInv, TypeOK, Contents
<1>8. \A q \in Processes : q # p => pc'[q] = "closed" /\ CallOK(q)'
  BY <1>1, OthersOK DEF IInv, TypeOK
<1>9. CallOK(p)'
  <2>1. op'[p].tag \in Tags /\ head' = NewHead(p)'
    BY <1>3, <1>5, <1>6 DEF disk, NewHead, File
  <2>2. op'[p].todo \cap Referenced' = {}
    BY <1>3, <1>4, <1>5, <1>6 DEF disk, Referenced
  <2> QED BY <1>2, <2>1, <2>2 DEF CallOK, WritePcs, CommittedPcs
<1>10. OneOwner' /\ Fresh' /\ HeadIsWhole'
  BY <1>1, <1>6, <1>8, SameDisk DEF disk, IInv, OneOwner
<1> QED BY <1>7, <1>8, <1>9, <1>10 DEF IInv

LEMMA RemoveOneIInv ==
    ASSUME IInv, NEW p \in Processes, RemoveOne(p)
    PROVE  IInv'
<1>1. pc[p] \in {"startup", "undo", "sweep"}
  BY DEF RemoveOne
<1>2. PICK n \in op[p].todo :
         /\ op' = [op EXCEPT ![p].todo = @ \ {n}]
         /\ files' = [files EXCEPT ![n] = Absent] \/ UNCHANGED files
  BY DEF RemoveOne
<1>3. UNCHANGED <<head, legacy, holder, nextTag, pc, reply>>
  BY DEF RemoveOne
<1>4. op[p].todo \cap Referenced = {} /\ op[p].todo \subseteq Names
  BY <1>1 DEF IInv, CallOK, TypeOK, Ops
<1>5. /\ op' \in [Processes -> Ops] /\ op'[p].todo = op[p].todo \ {n}
      /\ op'[p].tag = op[p].tag /\ op'[p].old = op[p].old
  BY <1>2 DEF IInv, TypeOK, Ops
<1>6. /\ DOMAIN files' = Names
      /\ \A m \in Names : files'[m] \in Contents(m) /\ files'[m] \in {files[m], Absent}
      /\ \A m \in Names : m \in Referenced => files'[m] = files[m]
  <2>1. \A m \in Names : Absent \in Contents(m)
    BY DEF Contents
  <2> QED BY <1>2, <1>4, <2>1 DEF IInv, TypeOK
<1>7. TypeOK'
  BY <1>3, <1>5, <1>6 DEF IInv, TypeOK
<1>8. \A q \in Processes : q # p => pc'[q] = "closed" /\ CallOK(q)'
  BY <1>1, <1>3, OthersOK
<1>9. CallOK(p)'
  <2>1. op'[p].todo \cap Referenced' = {}
    BY <1>3, <1>4, <1>5 DEF Referenced
  <2>2. pc[p] = "sweep" => op'[p].tag \in Tags /\ head' = NewHead(p)'
    BY <1>3, <1>5, CommittedFacts DEF CommittedPcs, NewHead, File
  <2> QED BY <1>1, <1>3, <2>1, <2>2 DEF CallOK, WritePcs, CommittedPcs
<1>10. Fresh'
  BY <1>3, <1>6 DEF IInv, Fresh, Referenced
<1>11. HeadIsWhole'
  BY <1>3, <1>6, GenerationIsName, KeepsReferenced DEF IInv
<1> QED BY <1>3, <1>7, <1>8, <1>9, <1>10, <1>11 DEF IInv, OneOwner

LEMMA CrashFiles ==
    ASSUME IInv, NEW p \in Processes, Crash(p)
    PROVE  /\ DOMAIN files' = Names
           /\ \A n \in Names : files'[n] \in Contents(n)
           /\ \A n \in Generations : files'[n] = files[n]
           /\ \A n \in Names : n[2] >= nextTag => files'[n] = files[n]
<1>1. PICK torn \in SUBSET Writing(p) :
         files' = [n \in Names |-> IF n \in torn THEN Torn ELSE files[n]]
  BY DEF Crash
<1>2. \A n \in torn : /\ n \in Names /\ n[1] \in TmpKinds /\ n[2] < nextTag
                      /\ n \notin Generations
  <2>1. CASE pc[p] \in WritePcs
    <3>1. op[p].tag \in Tags /\ op[p].tag < nextTag
      BY <2>1 DEF IInv, CallOK, Prepared
    <3>2. \A n \in Writing(p) : \E kind \in TmpKinds : n = File(p, kind)
      BY DEF Writing, TmpKinds
    <3>3. \A kind \in TmpKinds :
             /\ File(p, kind) \in Names /\ File(p, kind)[1] = kind
             /\ File(p, kind)[2] = op[p].tag
      BY <3>1, FileFacts
    <3>4. \A n \in torn : n \in Names /\ n[1] \in TmpKinds /\ n[2] < nextTag
      BY <3>1, <3>2, <3>3
    <3> QED BY <3>4, NameFacts DEF GenKinds, TmpKinds
  <2>2. CASE pc[p] \notin WritePcs
    BY <2>2 DEF Writing, WritePcs
  <2> QED BY <2>1, <2>2
<1>3. \A n \in torn : Torn \in Contents(n)
  BY <1>2 DEF Contents, GenKinds, TmpKinds
<1>4. \A n \in Names : n[2] >= nextTag => n \notin torn
  BY <1>2, NameFacts DEF IInv, TypeOK, Tags
<1> QED BY <1>1, <1>2, <1>3, <1>4, GenerationIsName DEF IInv, TypeOK

LEMMA CrashIInv ==
    ASSUME IInv, NEW p \in Processes, Crash(p)
    PROVE  IInv'
<1>1. pc[p] # "closed" /\ pc' = [pc EXCEPT ![p] = "closed"] /\ holder' = NoProcess
      /\ reply' = "none" /\ op' = [op EXCEPT ![p] = NoOp]
      /\ UNCHANGED <<head, legacy, nextTag>>
  BY DEF Crash
<1>2. pc' \in [Processes -> Pcs] /\ pc'[p] = "closed" /\ op' \in [Processes -> Ops]
  BY <1>1, NoOpType DEF IInv, TypeOK, Pcs
<1>3. TypeOK'
  BY <1>1, <1>2, CrashFiles DEF IInv, TypeOK
<1>4. \A q \in Processes : q # p => pc'[q] = "closed" /\ CallOK(q)'
  BY <1>1, OthersOK DEF IInv, TypeOK
<1>5. CallOK(p)' /\ OneOwner'
  BY <1>2, <1>4 DEF CallOK, WritePcs, CommittedPcs, OneOwner
<1>6. Fresh'
  BY <1>1, CrashFiles DEF IInv, Fresh, Referenced
<1>7. HeadIsWhole'
  BY <1>1, CrashFiles, KeepsReferenced DEF IInv
<1> QED BY <1>3, <1>4, <1>5, <1>6, <1>7 DEF IInv

LEMMA DamageHeadIInv ==
    ASSUME IInv, DamageHead
    PROVE  IInv'
<1>1. /\ head' = Unreadable /\ holder = NoProcess
      /\ UNCHANGED <<files, legacy, holder, nextTag, pc, op, reply>>
  BY DEF DamageHead
<1>2. \A p \in Processes : pc'[p] = "closed"
  BY <1>1, StorageAssumption DEF IInv, OneOwner
<1>3. \A p \in Processes : CallOK(p)'
  BY <1>2 DEF CallOK, WritePcs, CommittedPcs
<1>4. Fresh' /\ HeadIsWhole' /\ OneOwner'
  BY <1>1, <1>2, NamesAssumption DEF IInv, Fresh, HeadIsWhole, OneOwner
<1>5. TypeOK'
  BY <1>1 DEF IInv, TypeOK, Contents
<1> QED BY <1>3, <1>4, <1>5 DEF IInv

-----------------------------------------------------------------------------

LEMMA StutterIInv ==
    ASSUME IInv, UNCHANGED vars
    PROVE  IInv'
<1>1. UNCHANGED <<files, head, legacy, holder, nextTag, pc, op, reply>>
  BY DEF vars, disk
<1>2. TypeOK' /\ OneOwner' /\ Fresh' /\ HeadIsWhole'
  BY <1>1, SameDisk DEF IInv, TypeOK, Contents, OneOwner
<1>3. ASSUME NEW p \in Processes
      PROVE  CallOK(p)'
  <2>1. Prepared(p) => Prepared(p)'
    BY <1>1, PreparedKept
  <2>2. Written(p) => Written(p)'
    BY <1>1 DEF Written, NewHead, File
  <2>3. (head = NewHead(p) => head' = NewHead(p)') /\ Referenced' = Referenced
    BY <1>1 DEF NewHead, File, Referenced
  <2> QED BY <1>1, <2>1, <2>2, <2>3 DEF IInv, CallOK
<1> QED BY <1>2, <1>3 DEF IInv

LEMMA NextIInv == IInv /\ [Next]_vars => IInv'
<1> SUFFICES ASSUME IInv, [Next]_vars PROVE IInv'
  OBVIOUS
<1>1. ASSUME NEW p \in Processes, ProcessNext(p)
      PROVE  IInv'
  BY <1>1, OpenIInv, CloseIInv, BeginWriteIInv, RefuseWriteIInv, WriteLegacyIInv,
     RenameLegacyIInv, WriteNewIInv, RenameNewIInv, WriteHeadIInv, CommitHeadIInv,
     RemoveLegacyIInv, ListRootIInv, RemoveOneIInv, ReturnIInv, CrashIInv
     DEF ProcessNext
<1> QED BY <1>1, DamageHeadIInv, StutterIInv DEF Next

THEOREM StorageInvariant == Spec => []IInv
BY InitIInv, NextIInv, PTL DEF Spec

(***************************************************************************)
(* Every variable keeps its type; in particular no generation is ever      *)
(* torn, whatever fails or crashes.                                        *)
(***************************************************************************)
THEOREM StorageTypeCorrect == Spec => []TypeOK
<1>1. IInv => TypeOK
  BY DEF IInv
<1> QED BY <1>1, StorageInvariant, PTL

(***************************************************************************)
(* A readable head names complete generations at every file-system call of *)
(* every write, clean-up and crash.                                        *)
(***************************************************************************)
THEOREM StorageHeadIsWhole == Spec => []HeadIsWhole
<1>1. IInv => HeadIsWhole
  BY DEF IInv
<1> QED BY <1>1, StorageInvariant, PTL

-----------------------------------------------------------------------------
(***************************************************************************)
(* Generations.                                                            *)
(***************************************************************************)

LEMMA WriteKeeps ==
    ASSUME IInv, NEW p \in Processes, NEW at \in WritePcs, NEW kind \in TmpKinds,
           NEW content, NEW next, NEW undo,
           Write(p, at, kind, content, next, undo)
    PROVE  \A n \in Generations : files'[n] = files[n]
<1>1. pc[p] \in WritePcs
  BY DEF Write, Undo, Step
<1>2. op[p].tag \in Tags
  BY <1>1 DEF IInv, CallOK, Prepared
<1>3. File(p, kind) \notin Generations
  BY <1>2, FileFacts, NameFacts DEF GenKinds, TmpKinds
<1>4. \E x : files' = [files EXCEPT ![File(p, kind)] = x]
  BY DEF Write
<1> QED BY <1>3, <1>4, GenerationIsName DEF IInv, TypeOK

LEMMA RenameKeeps ==
    ASSUME IInv, NEW p \in Processes, NEW at \in WritePcs,
           NEW from \in TmpKinds, NEW to \in GenKinds, NEW next, NEW undo,
           pc[p] = at => files[File(p, to)] = Absent,
           Rename(p, at, from, to, next, undo)
    PROVE  \A n \in Generations : files[n] # Absent => files'[n] = files[n]
<1>1. pc[p] = at
  BY DEF Rename, Undo, Step
<1>2. op[p].tag \in Tags
  BY <1>1 DEF IInv, CallOK, Prepared
<1>3. File(p, from) \notin Generations
  BY <1>2, FileFacts, NameFacts DEF GenKinds, TmpKinds
<1>4. \/ UNCHANGED files
      \/ files' = [files EXCEPT ![File(p, to)] = files[File(p, from)],
                                ![File(p, from)] = Absent]
  BY DEF Rename, disk
<1> QED BY <1>1, <1>3, <1>4, GenerationIsName DEF IInv, TypeOK

LEMMA StepKeepsGenerations ==
    ASSUME IInv, [Next]_vars
    PROVE  \A n \in Generations : files[n] # Absent => files'[n] \in {files[n], Absent}
<1>1. CASE UNCHANGED files
  BY <1>1
<1>2. CASE DamageHead \/ UNCHANGED vars
  BY <1>2 DEF DamageHead, vars, disk
<1>3. ASSUME NEW p \in Processes, ProcessNext(p), ~UNCHANGED files
      PROVE  \A n \in Generations : files[n] # Absent => files'[n] \in {files[n], Absent}
  <2>1. CASE WriteLegacy(p)
    BY <2>1, WriteKeeps DEF WriteLegacy, WritePcs, TmpKinds
  <2>2. CASE WriteNew(p)
    BY <2>2, WriteKeeps DEF WriteNew, WritePcs, TmpKinds
  <2>3. CASE WriteHead(p)
    BY <2>3, WriteKeeps DEF WriteHead, WritePcs, TmpKinds
  <2>4. CASE RenameLegacy(p)
    <3>1. pc[p] = "rename_legacy" => files[File(p, "gen_leg")] = Absent
      BY DEF IInv, CallOK, Written, WritePcs
    <3> QED BY <2>4, <3>1, RenameKeeps DEF RenameLegacy, WritePcs, TmpKinds, GenKinds
  <2>5. CASE RenameNew(p)
    <3>1. pc[p] = "rename_new" => files[File(p, "gen")] = Absent
      BY DEF IInv, CallOK, Written, WritePcs
    <3> QED BY <2>5, <3>1, RenameKeeps DEF RenameNew, WritePcs, TmpKinds, GenKinds
  <2>6. CASE CommitHead(p)
    <3>1. files' = [files EXCEPT ![File(p, "head_tmp")] = Absent]
      BY <1>3, <2>6 DEF CommitHead, disk
    <3> QED BY <3>1, GenerationIsName DEF IInv, TypeOK
  <2>7. CASE RemoveOne(p)
    <3>1. PICK m : files' = [files EXCEPT ![m] = Absent]
      BY <1>3, <2>7 DEF RemoveOne
    <3> QED BY <3>1, GenerationIsName DEF IInv, TypeOK
  <2>8. CASE Crash(p)
    BY <2>8, CrashFiles
  <2>9. CASE \/ Open(p) \/ Close(p) \/ (\E bytes \in Payloads : BeginWrite(p, bytes))
             \/ RefuseWrite(p) \/ RemoveLegacy(p) \/ ListRoot(p) \/ Return(p)
    BY <1>3, <2>9 DEF Open, Close, BeginWrite, RefuseWrite, RemoveLegacy, ListRoot,
                      Return, disk
  <2> QED BY <1>3, <2>1, <2>2, <2>3, <2>4, <2>5, <2>6, <2>7, <2>8, <2>9
          DEF ProcessNext
<1> QED BY <1>1, <1>2, <1>3 DEF Next

(***************************************************************************)
(* A generation that exists keeps its bytes until it is removed.           *)
(***************************************************************************)
THEOREM StorageGenerationsImmutable == Spec => GenerationsImmutable
<1>1. IInv /\ [Next]_vars =>
         [\A n \in Generations :
             files[n] # Absent => files'[n] \in {files[n], Absent}]_vars
  BY StepKeepsGenerations
<1> QED BY <1>1, StorageInvariant, PTL DEF Spec, GenerationsImmutable

-----------------------------------------------------------------------------
(***************************************************************************)
(* The clean storage: what is on disk beyond what the head names is what   *)
(* the call in progress has made and not yet committed, or is about to     *)
(* remove.  Nothing is said of a committed write before it lists.          *)
(***************************************************************************)
Rest(p) ==
    CASE pc[p] \in {"idle", "write_new"} -> {}
      [] pc[p] \in {"startup", "undo", "sweep"} -> op[p].todo
      [] pc[p] = "rename_new" -> {File(p, "tmp_new")}
      [] pc[p] = "write_head" -> {File(p, "gen")}
      [] pc[p] = "commit" -> {File(p, "gen"), File(p, "head_tmp")}
      [] OTHER -> Names

Tidy(p) == head \in HeadDocs => Present \subseteq Referenced \cup Rest(p)

AllTidy == \A p \in Processes : Tidy(p)

\* A file that is there after a step was there or belongs to what is left.
LEMMA StaysTidy ==
    ASSUME NEW p \in Processes, Tidy(p), UNCHANGED head,
           \A n \in Names : files'[n] # Absent =>
               n \in Rest(p)' \/ (files[n] # Absent /\ n \notin Rest(p))
    PROVE  Tidy(p)'
BY DEF Tidy, Present, Referenced

\* The process that takes the step is the only one there is something to say of.
LEMMA OwnerTidies ==
    ASSUME IInv, NEW p \in Processes, pc[p] # "closed" \/ holder = NoProcess,
           \A q \in Processes : q # p => pc'[q] = pc[q],
           Tidy(p)'
    PROVE  AllTidy'
<1>1. \A q \in Processes : q # p => pc'[q] = "closed"
  BY OthersOK
<1>2. \A q \in Processes : pc'[q] = "closed" => Tidy(q)'
  BY DEF Tidy, Rest, Present
<1> QED BY <1>1, <1>2 DEF AllTidy

\* The step of a write that makes its files, when there was a head.
LEMMA NoMigrationWithHead ==
    ASSUME IInv, NEW p \in Processes, pc[p] \in WritePcs, head \in HeadDocs
    PROVE  /\ Migrated(p) = {} /\ op[p].tag \in Tags
           /\ pc[p] \notin {"write_legacy", "rename_legacy"}
BY NamesAssumption DEF IInv, CallOK, Prepared, Written, Migrated

\* The error return lists what the write has made.
LEMMA UndoTidies ==
    ASSUME IInv, NEW p \in Processes, NEW at \in WritePcs, NEW kinds,
           Undo(p, at, kinds), Tidy(p), UNCHANGED head,
           \A n \in Names : files'[n] # Absent =>
               (files[n] # Absent /\ n \notin Rest(p)) \/ n \in {File(p, k) : k \in kinds}
    PROVE  Tidy(p)'
<1>1. pc'[p] = "undo" /\ op'[p].todo = {File(p, k) : k \in kinds}
  BY DEF Undo, Step, IInv, TypeOK, Ops
<1>2. Rest(p)' = {File(p, k) : k \in kinds}
  BY <1>1 DEF Rest
<1> QED BY <1>2, StaysTidy

LEMMA WriteTidies ==
    ASSUME IInv, AllTidy, NEW p \in Processes,
           WriteLegacy(p) \/ WriteNew(p) \/ WriteHead(p)
    PROVE  Tidy(p)'
<1>1. /\ pc[p] \in {"write_legacy", "write_new", "write_head"} /\ UNCHANGED head
      /\ Tidy(p)
  BY DEF WriteLegacy, WriteNew, WriteHead, Write, Undo, Step, AllTidy
<1> SUFFICES ASSUME head \in HeadDocs PROVE Tidy(p)'
  BY <1>1 DEF Tidy
<1>2. /\ Migrated(p) = {} /\ op[p].tag \in Tags
      /\ pc[p] \notin {"write_legacy", "rename_legacy"}
  BY <1>1, NoMigrationWithHead DEF WritePcs
<1>3. CASE WriteNew(p)
  <2>1. pc[p] = "write_new" /\ Rest(p) = {}
    BY <1>3 DEF WriteNew, Write, Undo, Step, Rest
  <2>2. \A n \in Names : files'[n] # Absent => files[n] # Absent \/ n = File(p, "tmp_new")
    BY <1>3 DEF WriteNew, Write, IInv, TypeOK
  <2>3. CASE Step(p, "write_new", "rename_new") /\ UNCHANGED op
    <3>1. Rest(p)' = {File(p, "tmp_new")}
      BY <2>3 DEF Rest, Step, File, IInv, TypeOK
    <3> QED BY <1>1, <2>1, <2>2, <3>1, StaysTidy
  <2>4. CASE Undo(p, "write_new", {"tmp_new"})
    BY <1>1, <2>1, <2>2, <2>4, UndoTidies DEF WritePcs
  <2> QED BY <1>2, <1>3, <2>3, <2>4 DEF WriteNew, Write
<1>4. CASE WriteHead(p)
  <2>1. pc[p] = "write_head" /\ Rest(p) = {File(p, "gen")}
    BY <1>4 DEF WriteHead, Write, Undo, Step, Rest
  <2>2. \A n \in Names : files'[n] # Absent => files[n] # Absent \/ n = File(p, "head_tmp")
    BY <1>4 DEF WriteHead, Write, IInv, TypeOK
  <2>3. CASE Step(p, "write_head", "commit") /\ UNCHANGED op
    <3>1. Rest(p)' = {File(p, "gen"), File(p, "head_tmp")}
      BY <2>3 DEF Rest, Step, File, IInv, TypeOK
    <3> QED BY <1>1, <2>1, <2>2, <3>1, StaysTidy
  <2>4. CASE Undo(p, "write_head", {"head_tmp", "gen"})
    BY <1>1, <2>1, <2>2, <2>4, UndoTidies DEF WritePcs
  <2> QED BY <1>2, <1>4, <2>3, <2>4 DEF WriteHead, Write
<1> QED BY <1>2, <1>3, <1>4 DEF WriteLegacy, Write, Undo, Step

LEMMA RenameTidies ==
    ASSUME IInv, AllTidy, NEW p \in Processes, RenameLegacy(p) \/ RenameNew(p)
    PROVE  Tidy(p)'
<1>1. /\ pc[p] \in {"rename_legacy", "rename_new"} /\ UNCHANGED head /\ Tidy(p)
  BY DEF RenameLegacy, RenameNew, Rename, Undo, Step, disk, AllTidy
<1> SUFFICES ASSUME head \in HeadDocs PROVE Tidy(p)'
  BY <1>1 DEF Tidy
<1>2. /\ Migrated(p) = {} /\ op[p].tag \in Tags /\ pc[p] = "rename_new"
  BY <1>1, NoMigrationWithHead DEF WritePcs
<1>3. /\ Rest(p) = {File(p, "tmp_new")}
      /\ File(p, "tmp_new") \in Names /\ File(p, "gen") \in Names
  BY <1>2, FileFacts DEF Rest, GenKinds, TmpKinds
<1>4. RenameNew(p)
  BY <1>2 DEF RenameLegacy, Rename, Undo, Step
<1>5. CASE /\ Step(p, "rename_new", "write_head") /\ UNCHANGED op
           /\ files' = [files EXCEPT ![File(p, "gen")] = files[File(p, "tmp_new")],
                                     ![File(p, "tmp_new")] = Absent]
  <2>1. Rest(p)' = {File(p, "gen")}
    BY <1>5 DEF Rest, Step, File, IInv, TypeOK
  <2>2. \A n \in Names : files'[n] # Absent =>
            n = File(p, "gen") \/ (files[n] # Absent /\ n # File(p, "tmp_new"))
    BY <1>3, <1>5 DEF IInv, TypeOK
  <2> QED BY <1>1, <1>3, <2>1, <2>2, StaysTidy
<1>6. CASE Undo(p, "rename_new", {"tmp_new"}) /\ UNCHANGED files
  BY <1>1, <1>3, <1>6, UndoTidies DEF WritePcs
<1> QED BY <1>2, <1>4, <1>5, <1>6 DEF RenameNew, Rename, disk

LEMMA CommitTidies ==
    ASSUME IInv, AllTidy, NEW p \in Processes, CommitHead(p)
    PROVE  Tidy(p)'
<1>1. CASE Step(p, "commit", "committed")
  <2>1. pc'[p] = "committed"
    BY <1>1 DEF Step, IInv, TypeOK
  <2> QED BY <2>1 DEF Tidy, Rest, Present
<1>2. CASE Undo(p, "commit", {"head_tmp", "gen"} \cup Migrated(p)) /\ UNCHANGED disk
  <2> SUFFICES ASSUME head \in HeadDocs PROVE Tidy(p)'
    BY <1>2 DEF Tidy, disk
  <2>1. pc[p] = "commit" /\ Migrated(p) = {} /\ Tidy(p)
    BY <1>2, NoMigrationWithHead DEF Undo, Step, WritePcs, AllTidy
  <2>2. Undo(p, "commit", {"head_tmp", "gen"})
    BY <1>2, <2>1
  <2>3. Rest(p) = {File(p, k) : k \in {"head_tmp", "gen"}}
    BY <2>1 DEF Rest
  <2> QED BY <1>2, <2>1, <2>2, <2>3, UndoTidies DEF disk, WritePcs
<1> QED BY <1>1, <1>2 DEF CommitHead, disk

\* What is listed is all there is beyond the head, if listing does not fail.
LEMMA ListTidies ==
    ASSUME IInv, NEW p \in Processes, Open(p) \/ ListRoot(p), "sweep" \notin Faults
    PROVE  Tidy(p)'
<1>1. CASE Open(p)
  <2>1. pc'[p] = "startup" /\ op'[p].todo = Unreferenced /\ UNCHANGED disk
    BY <1>1 DEF Open, NoOp, IInv, TypeOK
  <2> QED BY <2>1 DEF Tidy, Rest, Present, Referenced, Unreferenced, disk
<1>2. CASE ListRoot(p)
  <2>1. pc[p] = "list" /\ pc'[p] = "sweep" /\ op'[p].todo = Obsolete(p) /\ UNCHANGED disk
    BY <1>2 DEF ListRoot, Step, IInv, TypeOK, Ops
  <2>2. Referenced = {File(p, "gen"), op[p].old}
    BY <2>1, CommittedFacts DEF CommittedPcs
  <2> QED BY <2>1, <2>2 DEF Tidy, Rest, Present, Referenced, Obsolete, disk
<1> QED BY <1>1, <1>2

LEMMA RemoveTidies ==
    ASSUME IInv, AllTidy, NEW p \in Processes, RemoveOne(p), "sweep" \notin Faults
    PROVE  Tidy(p)'
<1>1. /\ pc[p] \in {"startup", "undo", "sweep"} /\ UNCHANGED <<head, pc>> /\ Tidy(p)
  BY DEF RemoveOne, AllTidy
<1>2. PICK n \in op[p].todo : /\ op' = [op EXCEPT ![p].todo = @ \ {n}]
                              /\ files' = [files EXCEPT ![n] = Absent]
  BY DEF RemoveOne
<1>3. op'[p].todo = op[p].todo \ {n} /\ n \in Names
  BY <1>2 DEF IInv, TypeOK, Ops
<1>4. Rest(p) = op[p].todo /\ Rest(p)' = op[p].todo \ {n}
  BY <1>1, <1>3 DEF Rest
<1> QED BY <1>1, <1>2, <1>3, <1>4 DEF Tidy, Present, Referenced, IInv, TypeOK

LEMMA CallTidies ==
    ASSUME IInv, AllTidy, NEW p \in Processes,
           \/ \E bytes \in Payloads : BeginWrite(p, bytes)
           \/ RefuseWrite(p) \/ Return(p)
    PROVE  Tidy(p)'
<1>1. UNCHANGED <<files, head>> /\ Rest(p) = {} /\ Tidy(p)
  BY DEF BeginWrite, RefuseWrite, Return, disk, Rest, AllTidy
<1> QED BY <1>1 DEF Tidy, Present, Referenced

\* The process that leaves, or removes the old file, has nothing to answer for.
LEMMA GoneTidies ==
    ASSUME IInv, NEW p \in Processes, Close(p) \/ Crash(p) \/ RemoveLegacy(p)
    PROVE  Tidy(p)'
<1>1. pc'[p] \in {"closed", "list"}
  BY DEF Close, Crash, RemoveLegacy, Step, IInv, TypeOK
<1> QED BY <1>1 DEF Tidy, Rest, Present

LEMMA StepTidies ==
    ASSUME IInv, AllTidy, [Next]_vars, "sweep" \notin Faults
    PROVE  AllTidy'
<1>1. ASSUME NEW p \in Processes, ProcessNext(p) PROVE AllTidy'
  <2>1. Tidy(p)'
    BY <1>1, WriteTidies, RenameTidies, CommitTidies, ListTidies, RemoveTidies,
       CallTidies, GoneTidies DEF ProcessNext
  <2>2. pc[p] # "closed" \/ holder = NoProcess
    BY <1>1 DEF ProcessNext, Open, Unlocked, Close, BeginWrite, RefuseWrite,
       WriteLegacy, RenameLegacy, WriteNew, RenameNew, WriteHead, CommitHead, Write,
       Rename, Undo, RemoveLegacy, ListRoot, RemoveOne, Return, Crash, Step
  <2>3. \A q \in Processes : q # p => pc'[q] = pc[q]
    BY <1>1 DEF ProcessNext, Open, Close, BeginWrite, RefuseWrite,
       WriteLegacy, RenameLegacy, WriteNew, RenameNew, WriteHead, CommitHead, Write,
       Rename, Undo, RemoveLegacy, ListRoot, RemoveOne, Return, Crash, Step, IInv, TypeOK
  <2> QED BY <2>1, <2>2, <2>3, OwnerTidies
<1>2. CASE DamageHead
  <2>1. head' \notin HeadDocs
    BY <1>2, NamesAssumption DEF DamageHead, HeadDocs
  <2> QED BY <2>1 DEF AllTidy, Tidy
<1>3. CASE UNCHANGED vars
  BY <1>3 DEF vars, disk, AllTidy, Tidy, Rest, Present, Referenced, File
<1> QED BY <1>1, <1>2, <1>3 DEF Next

(***************************************************************************)
(* A storage at rest holds nothing but what its head refers to, whoever    *)
(* died in the middle of what, unless the clean-up itself fails.           *)
(***************************************************************************)
THEOREM StorageIdleIsClean ==
    ASSUME "sweep" \notin Faults
    PROVE  Spec => []IdleIsClean
<1>1. Init => AllTidy
  BY DEF Init, AllTidy, Tidy, Present
<1>2. IInv /\ AllTidy /\ [Next]_vars => AllTidy'
  BY StepTidies
<1>3. AllTidy => IdleIsClean
  BY DEF AllTidy, Tidy, Rest, IdleIsClean
<1> QED BY <1>1, <1>2, <1>3, StorageInvariant, PTL DEF Spec

-----------------------------------------------------------------------------
(***************************************************************************)
(* The implementation of SaveSlot.                                         *)
(***************************************************************************)

\* What a reader gets depends on the head and on the files it names, and on the
\* legacy file only while there is no head.
LEMMA ReadSame ==
    ASSUME IInv, UNCHANGED head, head \in HeadDocs \/ UNCHANGED legacy,
           \A n \in Referenced \cap Generations : files'[n] = files[n],
           NEW r \in {"Current", "Previous"}
    PROVE  ReadSlot(r)' = ReadSlot(r)
<1>1. CASE head \in HeadDocs
  <2>1. head # Absent /\ head # Unreadable
    BY <1>1, NamesAssumption
  <2>2. head.cur \in Referenced \cap Generations
        /\ (head.prev # NoName => head.prev \in Referenced \cap Generations)
    BY <1>1, ReferencedFacts DEF IInv
  <2> QED BY <2>1, <2>2 DEF ReadSlot, ReadGeneration
<1>2. CASE head = Absent /\ UNCHANGED legacy
  BY <1>2 DEF ReadSlot
<1>3. CASE head = Unreadable
  BY <1>3, NamesAssumption DEF ReadSlot
<1> QED BY <1>1, <1>2, <1>3 DEF IInv, TypeOK

\* The call of the only process that may have one.
PcState(c) == IF c \in WritePcs \cup {"undo"} THEN "writing"
              ELSE IF c \in CommittedPcs THEN "committed" ELSE "none"

LEMMA CallOfOwner ==
    ASSUME NEW p \in Processes, \A q \in Processes : q # p => pc[q] = "closed"
    PROVE  /\ CallState = PcState(pc[p])
           /\ CallBytes = IF PcState(pc[p]) = "none" THEN Absent ELSE op[p].bytes
<1>1. Owner = IF pc[p] = "closed" THEN {} ELSE {p}
  BY DEF Owner
<1>2. CallState = PcState(pc[p])
  BY <1>1 DEF CallState, PcState, WritePcs, CommittedPcs
<1>3. PcState(pc[p]) # "none" => Owner = {p} /\ (CHOOSE q \in Owner : TRUE) = p
  BY <1>1 DEF PcState, WritePcs, CommittedPcs
<1> QED BY <1>2, <1>3 DEF CallBytes

LEMMA CallNow ==
    ASSUME IInv, NEW p \in Processes, pc[p] # "closed" \/ holder = NoProcess,
           \A q \in Processes : q # p => pc'[q] = pc[q]
    PROVE  /\ CallState = PcState(pc[p])
           /\ CallBytes = IF PcState(pc[p]) = "none" THEN Absent ELSE op[p].bytes
           /\ CallState' = PcState(pc'[p])
           /\ CallBytes' = IF PcState(pc'[p]) = "none" THEN Absent ELSE op'[p].bytes
<1>1. \A q \in Processes : q # p => pc[q] = "closed" /\ pc'[q] = "closed"
  BY OthersOK
<1>2. /\ CallState = PcState(pc[p])
      /\ CallBytes = IF PcState(pc[p]) = "none" THEN Absent ELSE op[p].bytes
  BY <1>1, CallOfOwner
<1>3. Owner' = IF pc'[p] = "closed" THEN {} ELSE {p}
  BY <1>1 DEF Owner
<1>4. CallState' = PcState(pc'[p])
  BY <1>3 DEF CallState, PcState, WritePcs, CommittedPcs
<1>5. PcState(pc'[p]) # "none" => Owner' = {p} /\ (CHOOSE q \in Owner' : TRUE) = p
  BY <1>3 DEF PcState, WritePcs, CommittedPcs
<1>6. CallBytes' = IF PcState(pc'[p]) = "none" THEN Absent ELSE op'[p].bytes
  BY <1>4, <1>5 DEF CallBytes
<1> QED BY <1>2, <1>4, <1>6

\* A step inside a call that a reader does not notice.
LEMMA InnerStep ==
    ASSUME IInv, NEW p \in Processes, pc[p] # "closed",
           \A q \in Processes : q # p => pc'[q] = pc[q],
           PcState(pc'[p]) = PcState(pc[p]), op'[p].bytes = op[p].bytes,
           UNCHANGED <<head, reply>>, head \in HeadDocs \/ UNCHANGED legacy,
           \A n \in Referenced \cap Generations : files'[n] = files[n]
    PROVE  UNCHANGED Slot!vars
<1>1. CallState' = CallState /\ CallBytes' = CallBytes
  BY CallNow
<1>2. \A r \in {"Current", "Previous"} : ReadSlot(r)' = ReadSlot(r)
  BY ReadSame
<1> QED BY <1>1, <1>2 DEF Slot!vars

\* A step of a write before its commit, or the error return from one.
LEMMA AttemptInner ==
    ASSUME IInv, NEW p \in Processes, pc[p] \in WritePcs,
           NEW next \in WritePcs \cup {"undo"}, pc' = [pc EXCEPT ![p] = next],
           op'[p].bytes = op[p].bytes, UNCHANGED <<head, legacy, reply>>,
           \A n \in Names : n[2] # op[p].tag => files'[n] = files[n]
    PROVE  UNCHANGED Slot!vars
<1>1. Prepared(p) /\ pc[p] # "closed"
  BY DEF IInv, CallOK, WritePcs
<1>2. \A n \in Referenced \cap Generations : files'[n] = files[n]
  BY <1>1, GenerationIsName DEF Prepared
<1>3. PcState(pc'[p]) = PcState(pc[p]) /\ \A q \in Processes : q # p => pc'[q] = pc[q]
  BY DEF PcState, IInv, TypeOK
<1> QED BY <1>1, <1>2, <1>3, InnerStep

LEMMA WriteInner ==
    ASSUME IInv, NEW p \in Processes, NEW at \in WritePcs, NEW kind \in TmpKinds,
           NEW content, NEW next \in WritePcs, NEW undo,
           Write(p, at, kind, content, next, undo)
    PROVE  UNCHANGED Slot!vars
<1>1. pc[p] \in WritePcs
  BY DEF Write, Undo, Step
<1>2. op[p].tag \in Tags
  BY <1>1 DEF IInv, CallOK, Prepared
<1>3. File(p, kind) \in Names /\ File(p, kind)[2] = op[p].tag
  BY <1>2, FileFacts
<1>4. \E x : files' = [files EXCEPT ![File(p, kind)] = x]
  BY DEF Write
<1>5. \A n \in Names : n[2] # op[p].tag => files'[n] = files[n]
  BY <1>3, <1>4 DEF IInv, TypeOK
<1>6. op'[p].bytes = op[p].bytes
  BY DEF Write, Undo, IInv, TypeOK, Ops
<1>7. \E c \in WritePcs \cup {"undo"} : pc' = [pc EXCEPT ![p] = c]
  BY DEF Write, Undo, Step
<1>8. UNCHANGED <<head, legacy, reply>>
  BY DEF Write
<1> QED BY <1>1, <1>5, <1>6, <1>7, <1>8, AttemptInner

LEMMA RenameInner ==
    ASSUME IInv, NEW p \in Processes, NEW at \in WritePcs,
           NEW from \in TmpKinds, NEW to \in GenKinds, NEW next \in WritePcs, NEW undo,
           Rename(p, at, from, to, next, undo)
    PROVE  UNCHANGED Slot!vars
<1>1. pc[p] \in WritePcs
  BY DEF Rename, Undo, Step
<1>2. op[p].tag \in Tags
  BY <1>1 DEF IInv, CallOK, Prepared
<1>3. /\ File(p, from) \in Names /\ File(p, from)[2] = op[p].tag
      /\ File(p, to) \in Names /\ File(p, to)[2] = op[p].tag
  BY <1>2, FileFacts
<1>4. \/ UNCHANGED files
      \/ files' = [files EXCEPT ![File(p, to)] = files[File(p, from)],
                                ![File(p, from)] = Absent]
  BY DEF Rename, disk
<1>5. \A n \in Names : n[2] # op[p].tag => files'[n] = files[n]
  BY <1>3, <1>4 DEF IInv, TypeOK
<1>6. op'[p].bytes = op[p].bytes
  BY DEF Rename, Undo, IInv, TypeOK, Ops
<1>7. \E c \in WritePcs \cup {"undo"} : pc' = [pc EXCEPT ![p] = c]
  BY DEF Rename, Undo, Step
<1>8. UNCHANGED <<head, legacy, reply>>
  BY DEF Rename, disk
<1> QED BY <1>1, <1>5, <1>6, <1>7, <1>8, AttemptInner

LEMMA CommitHeadStep ==
    ASSUME IInv, NEW p \in Processes, CommitHead(p)
    PROVE  Slot!Commit \/ UNCHANGED Slot!vars
<1>1. pc[p] = "commit"
  BY DEF CommitHead, Step, Undo
<1>2. /\ Prepared(p) /\ Written(p)
      /\ files[File(p, "head_tmp")] = NewHead(p) /\ NewHead(p) \in HeadDocs
      /\ File(p, "gen") \in Generations /\ files[File(p, "gen")] = op[p].bytes
      /\ op[p].old # NoName =>
            /\ op[p].old \in Generations /\ files[op[p].old] \in Payloads
            /\ op[p].old[2] < nextTag
  BY <1>1, CommitFacts
<1>3. CASE /\ Step(p, "commit", "committed")
           /\ head' = files[File(p, "head_tmp")]
           /\ files' = [files EXCEPT ![File(p, "head_tmp")] = Absent]
           /\ UNCHANGED <<legacy, holder, nextTag, op, reply>>
  <2>1. pc'[p] = "committed" /\ \A q \in Processes : q # p => pc'[q] = pc[q]
    BY <1>3 DEF Step, IInv, TypeOK
  <2>2. /\ CallState = "writing" /\ CallState' = "committed"
        /\ CallBytes = op[p].bytes /\ CallBytes' = op[p].bytes
    BY <1>1, <1>3, <2>1, CallNow DEF PcState, WritePcs, CommittedPcs
  <2>3. File(p, "head_tmp") \notin Generations
    BY <1>2, FileFacts, NameFacts DEF Prepared, GenKinds, TmpKinds
  <2>4. \A n \in Generations : files'[n] = files[n]
    BY <1>3, <2>3, GenerationIsName DEF IInv, TypeOK
  <2>5. head' \in HeadDocs /\ head'.cur = File(p, "gen") /\ head'.prev = op[p].old
        /\ head' # Absent /\ head' # Unreadable
    BY <1>2, <1>3, NamesAssumption DEF NewHead
  <2>6. ReadSlot("Current")' = op[p].bytes
    BY <1>2, <2>4, <2>5, StorageAssumption DEF ReadSlot, ReadGeneration, Prepared
  <2>7. ReadSlot("Previous")' = IF op[p].old = NoName THEN Absent ELSE files[op[p].old]
    BY <1>2, <2>4, <2>5, StorageAssumption DEF ReadSlot, ReadGeneration
  <2>8. ReadSlot("Current") = IF op[p].old = NoName THEN Absent ELSE files[op[p].old]
    <3>1. CASE op[p].migrate /\ head = Absent /\ op[p].old = File(p, "gen_leg")
      <4>1. files[op[p].old] = legacy
        BY <1>1, <1>2, <3>1 DEF Written
      <4>2. op[p].old # NoName
        BY <1>2, <3>1, FileFacts, NameFacts DEF Prepared, GenKinds
      <4> QED BY <3>1, <4>1, <4>2 DEF ReadSlot
    <3>2. CASE head = Absent /\ legacy = Absent /\ op[p].old = NoName
      BY <3>2 DEF ReadSlot
    <3>3. CASE head \in HeadDocs /\ op[p].old = head.cur
      <4>1. head.cur # NoName /\ head # Absent /\ head # Unreadable
        BY <3>3, ReferencedFacts, GenerationIsName, NameFacts, NamesAssumption DEF IInv
      <4>2. files[head.cur] # Absent
        BY <3>3, StorageAssumption DEF IInv, HeadIsWhole
      <4> QED BY <3>3, <4>1, <4>2 DEF ReadSlot, ReadGeneration
    <3> QED BY <1>2, <3>1, <3>2, <3>3 DEF Prepared
  <2> QED BY <1>3, <2>2, <2>6, <2>7, <2>8 DEF Slot!Commit
<1>4. CASE /\ Undo(p, "commit", {"head_tmp", "gen"} \cup Migrated(p))
           /\ UNCHANGED <<disk, holder, nextTag, reply>>
  <2>1. op'[p].bytes = op[p].bytes /\ pc' = [pc EXCEPT ![p] = "undo"]
    BY <1>4 DEF Undo, Step, IInv, TypeOK, Ops
  <2> QED BY <1>1, <1>4, <2>1, AttemptInner DEF disk, WritePcs
<1> QED BY <1>3, <1>4 DEF CommitHead

\* The owner comes or goes.
LEMMA LeaveStep ==
    ASSUME IInv, NEW p \in Processes, Open(p) \/ Close(p) \/ Crash(p)
    PROVE  Slot!Leave
<1>1. /\ pc[p] # "closed" \/ holder = NoProcess
      /\ \A q \in Processes : q # p => pc'[q] = pc[q]
      /\ pc'[p] \in {"closed", "startup"} /\ reply' = "none"
      /\ UNCHANGED <<head, legacy>>
  BY DEF Open, Unlocked, Close, Crash, disk, IInv, TypeOK
<1>2. CallState' = "none" /\ CallBytes' = Absent
  BY <1>1, CallNow DEF PcState, WritePcs, CommittedPcs
<1>3. \A n \in Generations : files'[n] = files[n]
  BY CrashFiles DEF Open, Close, disk
<1>4. \A r \in {"Current", "Previous"} : ReadSlot(r)' = ReadSlot(r)
  BY <1>1, <1>3, ReadSame
<1> QED BY <1>1, <1>2, <1>4 DEF Slot!Leave

LEMMA BeginWriteStep ==
    ASSUME IInv, NEW p \in Processes, NEW bytes \in Payloads, BeginWrite(p, bytes)
    PROVE  Slot!Begin(bytes)
<1>1. /\ pc[p] = "idle" /\ \A q \in Processes : q # p => pc'[q] = pc[q]
      /\ pc'[p] \in WritePcs /\ op'[p].bytes = bytes /\ reply' = "none"
      /\ UNCHANGED <<files, head, legacy>>
  BY DEF BeginWrite, disk, WritePcs, IInv, TypeOK
<1>2. CallState = "none" /\ CallState' = "writing" /\ CallBytes' = bytes
  BY <1>1, CallNow DEF PcState, WritePcs, CommittedPcs
<1>3. \A r \in {"Current", "Previous"} : ReadSlot(r)' = ReadSlot(r)
  BY <1>1, ReadSame
<1> QED BY <1>1, <1>2, <1>3 DEF Slot!Begin

LEMMA RefuseWriteStep ==
    ASSUME IInv, NEW p \in Processes, RefuseWrite(p)
    PROVE  Slot!Refuse
<1>1. /\ pc[p] = "idle" /\ reply' = "Failure"
      /\ UNCHANGED <<files, head, legacy, pc, op>>
  BY DEF RefuseWrite, disk
<1>2. CallState = "none" /\ CallState' = CallState /\ CallBytes' = CallBytes
  BY <1>1, CallNow DEF PcState, WritePcs, CommittedPcs
<1>3. \A r \in {"Current", "Previous"} : ReadSlot(r)' = ReadSlot(r)
  BY <1>1, ReadSame
<1> QED BY <1>1, <1>2, <1>3 DEF Slot!Refuse

LEMMA ReturnStep ==
    ASSUME IInv, NEW p \in Processes, Return(p)
    PROVE  Slot!Return \/ Slot!Leave
<1>1. /\ pc[p] \in {"startup", "undo", "sweep"} /\ pc'[p] = "idle"
      /\ \A q \in Processes : q # p => pc'[q] = pc[q]
      /\ UNCHANGED <<files, head, legacy>>
  BY DEF Return, disk, IInv, TypeOK
<1>2. /\ reply' = CASE pc[p] = "startup" -> "none"
                    [] pc[p] = "undo" -> "Failure"
                    [] pc[p] = "sweep" -> "Ok"
  BY DEF Return
<1>3. /\ CallState = PcState(pc[p]) /\ CallState' = "none" /\ CallBytes' = Absent
  BY <1>1, CallNow DEF PcState, WritePcs, CommittedPcs
<1>4. \A r \in {"Current", "Previous"} : ReadSlot(r)' = ReadSlot(r)
  BY <1>1, ReadSame
<1> QED BY <1>1, <1>2, <1>3, <1>4
        DEF Slot!Return, Slot!Leave, PcState, WritePcs, CommittedPcs

LEMMA CleanUpStep ==
    ASSUME IInv, NEW p \in Processes, RemoveLegacy(p) \/ ListRoot(p) \/ RemoveOne(p)
    PROVE  UNCHANGED Slot!vars
<1>1. CASE RemoveLegacy(p) \/ ListRoot(p)
  <2>1. /\ pc[p] \in CommittedPcs /\ pc'[p] \in CommittedPcs
        /\ \A q \in Processes : q # p => pc'[q] = pc[q]
        /\ op'[p].bytes = op[p].bytes /\ UNCHANGED <<files, head, reply>>
    BY <1>1 DEF RemoveLegacy, ListRoot, Step, disk, CommittedPcs, IInv, TypeOK, Ops
  <2>2. PcState(pc'[p]) = PcState(pc[p]) /\ pc[p] # "closed" /\ head \in HeadDocs
    BY <2>1, CommittedFacts DEF PcState, WritePcs, CommittedPcs
  <2> QED BY <2>1, <2>2, InnerStep
<1>2. CASE RemoveOne(p)
  <2>1. /\ pc[p] \in {"startup", "undo", "sweep"}
        /\ UNCHANGED <<head, legacy, pc, reply>>
    BY <1>2 DEF RemoveOne
  <2>2. PICK n \in op[p].todo :
           /\ op' = [op EXCEPT ![p].todo = @ \ {n}]
           /\ files' = [files EXCEPT ![n] = Absent] \/ UNCHANGED files
    BY <1>2 DEF RemoveOne
  <2>3. op[p].todo \cap Referenced = {} /\ op'[p].bytes = op[p].bytes
    BY <2>1, <2>2 DEF IInv, CallOK, TypeOK, Ops
  <2>4. \A m \in Referenced \cap Generations : files'[m] = files[m]
    BY <2>2, <2>3, GenerationIsName DEF IInv, TypeOK
  <2> QED BY <2>1, <2>3, <2>4, InnerStep
<1> QED BY <1>1, <1>2

LEMMA StepRefines ==
    ASSUME IInv, [Next]_vars, "damage" \notin Faults
    PROVE  [Slot!Next]_Slot!vars
<1>1. ASSUME NEW p \in Processes, ProcessNext(p)
      PROVE  [Slot!Next]_Slot!vars
  <2>1. CASE Open(p) \/ Close(p) \/ Crash(p)
    BY <2>1, LeaveStep DEF Slot!Next
  <2>2. CASE \E bytes \in Payloads : BeginWrite(p, bytes)
    BY <2>2, BeginWriteStep DEF Slot!Next
  <2>3. CASE RefuseWrite(p)
    BY <2>3, RefuseWriteStep DEF Slot!Next
  <2>4. CASE WriteLegacy(p) \/ WriteNew(p) \/ WriteHead(p)
    BY <2>4, WriteInner DEF WriteLegacy, WriteNew, WriteHead, WritePcs, TmpKinds
  <2>5. CASE RenameLegacy(p) \/ RenameNew(p)
    BY <2>5, RenameInner DEF RenameLegacy, RenameNew, WritePcs, TmpKinds, GenKinds
  <2>6. CASE CommitHead(p)
    BY <2>6, CommitHeadStep DEF Slot!Next
  <2>7. CASE RemoveLegacy(p) \/ ListRoot(p) \/ RemoveOne(p)
    BY <2>7, CleanUpStep
  <2>8. CASE Return(p)
    BY <2>8, ReturnStep DEF Slot!Next
  <2> QED BY <1>1, <2>1, <2>2, <2>3, <2>4, <2>5, <2>6, <2>7, <2>8 DEF ProcessNext
<1>2. CASE UNCHANGED vars
  <2>1. UNCHANGED <<files, head, legacy, pc, op, reply>>
    BY <1>2 DEF vars, disk
  <2>2. \A r \in {"Current", "Previous"} : ReadSlot(r)' = ReadSlot(r)
    BY <2>1, ReadSame
  <2>3. CallState' = CallState /\ CallBytes' = CallBytes
    BY <2>1 DEF CallState, CallBytes, Owner
  <2> QED BY <2>1, <2>2, <2>3 DEF Slot!vars
<1> QED BY <1>1, <1>2 DEF Next, DamageHead

LEMMA InitRefines == Init => Slot!Init
<1> SUFFICES ASSUME Init PROVE Slot!Init
  OBVIOUS
<1>1. Owner = {}
  BY DEF Init, Owner
<1>2. CallState = "none" /\ CallBytes = Absent
  BY <1>1 DEF CallState, CallBytes
<1>3. ReadSlot("Current") = legacy /\ ReadSlot("Previous") = Absent
  BY DEF Init, ReadSlot
<1> QED BY <1>2, <1>3 DEF Init, Slot!Init

(***************************************************************************)
(* The storage implements the slot, whatever calls fail and whoever dies   *)
(* when, as long as nothing else damages the head.                         *)
(***************************************************************************)
THEOREM StorageRefinesSlot ==
    ASSUME "damage" \notin Faults
    PROVE  Spec => SlotRefined
<1>1. IInv /\ [Next]_vars => [Slot!Next]_Slot!vars
  BY StepRefines
<1> QED BY <1>1, InitRefines, StorageInvariant, PTL DEF Spec, SlotRefined, Slot!Spec
=============================================================================
