--------------------------- MODULE EditorAdapter ---------------------------
(***************************************************************************)
(* FGV2EditorAdapter (GV2EditorAdapter.cpp): the editing session of the    *)
(* content editor, over the files of AuthoringService, which the command   *)
(* line tool changes as well, from a process of its own.  The adapter has  *)
(* one definition open, as it read it from its source, and keeps the edits *)
(* of the form three times: the candidate that the form shows, the         *)
(* operations that a save applies, and the dirty fields that everything    *)
(* else asks about.  It waits for the end of each call of the service.     *)
(***************************************************************************)
EXTENDS AuthoringService, SequencesExt

CONSTANTS
    MaxSteps  \* bound on the edits in the form and the changes to the files

ASSUME EditorAssumption == Clients = {"editor", "cli"} /\ MaxSteps \in Nat

VARIABLES
    index,    \* AuthoringIndex: the source of each definition, as last read
    session,  \* the open definition, or NoSession
    goal,     \* what becomes of the session when the call on its way succeeds
    steps     \* the edits and the operations there were

vars == <<serviceVars, index, session, goal, steps>>

\* Of two sources with the same id the last one wins (FAuthoringIndex::Finalize).
Placement(p) ==
    [id \in Ids |-> IF id \in Active(p) THEN CHOOSE s \in Sources : s \in LastSource(p, id)
                    ELSE Absent]

NoEdits == [p \in {} |-> Absent]
NoSession ==
    [id |-> Absent, source |-> Absent, seen |-> Absent,
     candidate |-> Absent, pending |-> <<>>, dirty |-> NoEdits]

IsOpen == session # NoSession
IsDirty == session.dirty # NoEdits
Baseline == session.seen[session.id]

\* LoadDefinition(Locator): what was open is gone whether or not this works.
Loaded(p, id, s) ==
    IF s \in Sources /\ Provides(p, s, id)
    THEN [id |-> id, source |-> s, seen |-> p[s],
          candidate |-> p[s][id], pending |-> <<>>, dirty |-> NoEdits]
    ELSE NoSession

\* Mutant: the stamp is not compared.
AnyStamp(s) == TRUE

\* The stamp of the session is the hash of the file it read; the service is
\* given it for an operation on the open definition only.
Matches(s) == disk[s] = session.seen
StampAdmits(s, id) == session.id = id => Matches(s)

Goal(what, id, s) == [what |-> what, id |-> id, source |-> s]
Keep == Goal("keep", Absent, Absent)
Close == Goal("close", Absent, Absent)
Open(id, s) == Goal("open", id, s)

\* A save knows the source to read again; a renamed definition is looked up.
Saving == goal.what = "open" /\ goal.source # Absent

Reached ==
    CASE goal.what = "keep" -> session
      [] goal.what = "close" -> NoSession
      [] Saving -> Loaded(disk, goal.id, goal.source)
      [] OTHER -> Loaded(disk, goal.id, Placement(disk)[goal.id])

EditorInit ==
    /\ ServiceInit
    /\ index = Placement(disk) /\ session = NoSession
    /\ goal = Keep /\ steps = 0

-----------------------------------------------------------------------------
(* Edits of the form.                                                      *)

\* What a field of a definition may be set to: an object that is not there is
\* added, empty (AddCurrentOptionalProperty).
FieldValues(d, p) ==
    CASE p = "ref" -> Ids
      [] p = "hp" -> Numbers
      [] p = "stats" -> IF d.stats = Absent THEN {[hp |-> Absent]} ELSE {}

Shown(op) ==
    IF CanApply(session.candidate, op.at) THEN Applied(session.candidate, op)
    ELSE session.candidate

\* The operations are made anew from the dirty fields, in their order.
SetsOf(dirty) ==
    LET ps == SelectSeq(PointerOrder, LAMBDA p : p \in DOMAIN dirty)
    IN  [i \in DOMAIN ps |-> Op(ps[i], dirty[ps[i]])]

Counted == steps < MaxSteps /\ steps' = steps + 1

Edit(candidate, pending, dirty) ==
    /\ Counted
    /\ session' = [session EXCEPT !.candidate = candidate, !.pending = pending,
                                  !.dirty = dirty]
    /\ UNCHANGED <<serviceVars, index, goal>>

Marked(p, v) ==
    [q \in DOMAIN session.dirty \cup {p} |-> IF q = p THEN v ELSE session.dirty[q]]

\* Mutant: a field that is back at its value takes the other edits with it.
DirtiedOrClean(p, v) == IF ValueAt(Baseline, p) = v THEN NoEdits ELSE Marked(p, v)

\* A field that is back at its value is not dirty.
Dirtied(p, v) ==
    IF ValueAt(Baseline, p) # v THEN Marked(p, v)
    ELSE [q \in DOMAIN session.dirty \ {p} |-> session.dirty[q]]

SetCurrentFieldValue(p, v) == Edit(Shown(Op(p, v)), SetsOf(Dirtied(p, v)), Dirtied(p, v))

\* Also ResetCurrentFieldToDefault.  The dirty field holds a null.
RemoveCurrentProperty(p) ==
    Edit(Shown(Op(p, Absent)), Append(session.pending, Op(p, Absent)), Marked(p, Null))

DiscardAndReload ==
    /\ IsOpen
    /\ session' = Loaded(disk, session.id, session.source)
    /\ UNCHANGED <<serviceVars, index, goal, steps>>

-----------------------------------------------------------------------------
(* Saving and navigation.                                                  *)

\* The pending operations one after the other; Absent when one of them fails.
Result(d, ops) ==
    FoldLeft(LAMBDA r, o : IF r = Absent THEN Absent
                            ELSE IF CanApply(r, o.at) THEN Applied(r, o) ELSE Absent,
             d, ops)

\* CheckFileState asks for the file that was read, ApplyOperations for the one
\* it is going to write, and refuses what does not make a document.
SaveAndOpen(id, s) ==
    /\ IsOpen /\ IsDirty /\ Matches(session.source)
    /\ \E t \in Sources :
          LET saved == Result(disk[t][session.id], session.pending)
          IN  /\ ApplyOperations("editor", t, session.id, saved)
              /\ saved \in Docs /\ Matches(t)
    /\ Counted
    /\ goal' = Open(id, s) /\ UNCHANGED <<index, session>>

SaveCurrentDefinition == SaveAndOpen(session.id, session.source)

\* RequestNavigateTo.  What is dirty is saved or discarded, by the caller's
\* choice; a navigation that is cancelled, or whose save fails, changes nothing.
Elsewhere(id) == index[id] # Absent /\ <<id, index[id]>> # <<session.id, session.source>>

NavigateSaving(id) == Elsewhere(id) /\ SaveAndOpen(id, index[id])

NavigateTo(id) ==
    /\ Elsewhere(id)
    /\ session' = Loaded(disk, id, index[id])
    /\ UNCHANGED <<serviceVars, index, goal, steps>>

-----------------------------------------------------------------------------
(* The other operations of the adapter, and the end of a call: a success    *)
(* re-reads the index.                                                     *)

Placeholder == [ref |-> Absent, stats |-> Absent]

Called(g) == Counted /\ goal' = g /\ UNCHANGED <<index, session>>

EditorCreate(id) == CreateDefinition("editor", id, Placeholder) /\ Called(Keep)

EditorDuplicate(from, to) ==
    \E s \in Sources :
        DuplicateDefinition("editor", s, from, to) /\ StampAdmits(s, from) /\ Called(Keep)

EditorDelete(id) ==
    \E s \in Sources :
        /\ DeleteDefinition("editor", s, id) /\ StampAdmits(s, id)
        /\ Called(IF session.id = id THEN Close ELSE Keep)

\* The file compared is the last one with the old id.
EditorRename(old, new, redirect) ==
    /\ RenameDefinition("editor", old, new, redirect)
    /\ \A s \in LastSource(disk, old) : StampAdmits(s, old)
    /\ Called(IF session.id = old THEN Open(new, Absent) ELSE Keep)

EditorReturns ==
    /\ call["editor"].phase # "died" /\ Return("editor")
    /\ IF call["editor"].phase = "done"
       THEN index' = Placement(disk) /\ session' = Reached
       ELSE UNCHANGED <<index, session>>
    /\ goal' = Keep /\ UNCHANGED steps

EditorRestarts ==
    /\ call["editor"].phase = "died" /\ Return("editor")
    /\ index' = Placement(disk) /\ session' = NoSession /\ goal' = Keep
    /\ UNCHANGED steps

-----------------------------------------------------------------------------
(* The command line tool, which gives no stamps, and the service.           *)

\* A value given on the command line is a scalar, which may be null.
CliValues(p) ==
    {Null} \cup (CASE p = "ref" -> Ids [] p = "hp" -> Numbers [] p = "stats" -> {})

CliOperation ==
    \/ \E id \in Ids, s \in Sources, p \in Pointers : \E v \in CliValues(p) :
          SetField("cli", s, id, p, v)
    \/ \E id \in Ids : CreateDefinition("cli", id, Placeholder)
    \/ \E id \in Ids, s \in Sources : DeleteDefinition("cli", s, id)
    \/ \E from, to \in Ids, s \in Sources : DuplicateDefinition("cli", s, from, to)
    \/ \E old, new \in Ids : RenameDefinition("cli", old, new, FALSE)

Cli == Free("cli") /\ CliOperation /\ Counted /\ UNCHANGED <<index, session, goal>>

CliEnds == Return("cli") /\ UNCHANGED <<index, session, goal, steps>>

ServiceGoesOn ==
    /\ \E c \in Clients : ValidateCandidate(c) \/ CommitFile(c) \/ RollBackFile(c) \/ Die(c)
    /\ UNCHANGED <<index, session, goal, steps>>

-----------------------------------------------------------------------------
EditorActs ==
    \/ IsOpen /\ \E p \in Pointers : \E v \in FieldValues(session.candidate, p) :
          SetCurrentFieldValue(p, v)
    \/ IsOpen /\ \E p \in Pointers : RemoveCurrentProperty(p)
    \/ DiscardAndReload
    \/ SaveCurrentDefinition
    \/ \E id \in Ids : NavigateSaving(id) \/ NavigateTo(id)
    \/ \E id \in Ids : EditorCreate(id) \/ EditorDelete(id)
    \/ \E from, to \in Ids : EditorDuplicate(from, to)
    \/ \E old, new \in Ids, redirect \in BOOLEAN : EditorRename(old, new, redirect)

EditorNext ==
    \/ Free("editor") /\ EditorActs
    \/ EditorReturns \/ EditorRestarts
    \/ Cli \/ CliEnds \/ ServiceGoesOn

EditorSpec == EditorInit /\ [][EditorNext]_vars

-----------------------------------------------------------------------------
\* When no field is dirty, the form shows the definition as it was read: the
\* navigation gate and the save, which only ask for dirty fields, miss no edit
\* (SetCurrentFieldValue forgets a field that is back at its value).
CleanMeansUnchanged == IsOpen /\ ~IsDirty => session.candidate = Baseline

\* What a save overwrites without having read it was written to the same file
\* between the comparison of the stamp and the rename of that very save: an
\* earlier change by the command line tool, or by another operation of the
\* editor, refuses the save, and no other definition of the file is ever changed
\* by it from what the session has read (SaveCurrentDefinition, CheckFileState,
\* ExpectedStamp).
SaveLosesOnlyItsWindow ==
    [][\A s \in DOMAIN call["editor"].updates :
          Saving /\ call["editor"].phase = "committing" /\ call'["editor"].phase = "done" =>
             /\ \A id \in Ids \ {session.id} : disk'[s][id] = session.seen[id]
             /\ disk[s] # session.seen => s \in call["editor"].stale]_vars
=============================================================================
