----------------------------- MODULE Documents -----------------------------
(***************************************************************************)
(* The data of a content definition and how one edit changes it            *)
(* (Json5AstRewriter.cpp, GV2EditorAdapter.cpp).  Three fields stand for   *)
(* what a schema declares: "ref" refers to another definition, "stats" is  *)
(* an object, and "hp" is a number inside it, whose pointer /data/stats/hp *)
(* goes through the pointer of "stats".                                    *)
(***************************************************************************)
EXTENDS Naturals, Sequences

CONSTANTS
    Ids,       \* the definition ids of a package
    Numbers,   \* values of "hp"
    Nullable,  \* the fields whose schema admits a null
    Absent,    \* a field that is not there
    Null       \* the value null

\* In the order in which std::map walks their pointers.
PointerOrder == <<"ref", "stats", "hp">>
Pointers == {"ref", "stats", "hp"}

Objects == [hp : Numbers \cup {Absent, Null}]
Docs == [ref : Ids \cup {Absent, Null}, stats : Objects \cup {Absent, Null}]

ASSUME NoDataAssumption ==
    /\ Absent # Null /\ {Absent, Null} \cap (Ids \cup Numbers \cup Objects) = {}
    /\ Absent \notin Docs /\ Ids \cap Numbers = {} /\ Nullable \subseteq Pointers

ValueAt(d, p) ==
    IF p # "hp" THEN d[p]
    ELSE IF d.stats \in Objects THEN d.stats.hp ELSE Absent

\* What ValidateFieldValue accepts: a null only where the schema says so.
ValidDocs == {d \in Docs : \A p \in Pointers : ValueAt(d, p) = Null => p \in Nullable}

\* The ids that the typed references of a definition name.
RefsOf(d) == {d.ref} \cap Ids

\* SetFieldValue at every typed reference to old (CollectTypedReferencePointers).
Retargeted(d, old, new) == [d EXCEPT !.ref = IF @ = old THEN new ELSE @]

-----------------------------------------------------------------------------
\* One FFieldOp: set a field, or remove it, which is to set it to Absent.
Op(p, v) == [at |-> p, value |-> v]

\* A null in the way of the pointer cannot be traversed.
CanApply(d, p) == p = "hp" => d.stats # Null

\* Absent objects on the way are created, by a removal too.
Applied(d, op) ==
    IF op.at = "hp" THEN [d EXCEPT !.stats = [hp |-> op.value]]
    ELSE [d EXCEPT ![op.at] = op.value]
=============================================================================
