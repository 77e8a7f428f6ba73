---------------------------- MODULE UiReconciler ----------------------------
(***************************************************************************)
(* FGV2LayeredUiReconciler: applies a whole UI document to the layers of   *)
(* the game shell, or puts everything back.  A document is a sequence of   *)
(* screen instances, each in a slot (layer, key).  A screen widget has     *)
(* field hosts, a host has mutations (its properties), and a host          *)
(* remembers the value it last committed.  One Reconcile call is           *)
(* synchronous; it is split here at every point where a commit, a replayed *)
(* inverse or an AddChild can fail, since those failures are what the code *)
(* is about.                                                               *)
(*                                                                         *)
(* Popovers (host-local screens) share the overlay layer with the document *)
(* and are opened and closed by rich text in a document's screen.  UMG     *)
(* destroys the Slate widget of a child the moment its panel is cleared,   *)
(* and the rich text closes its popover from NativeDestruct: a rebuild of  *)
(* one layer re-enters the reconciler for the overlay layer.               *)
(*                                                                         *)
(* At three places the code goes on without what it has just lost: a child *)
(* that is not taken back, a screen left half committed, and the screens   *)
(* of the overlay layer when the layer of a popover's owner is rebuilt     *)
(* after it.  `lost` names the layers this has happened to; it is history, *)
(* and no action looks at it.                                              *)
(***************************************************************************)
EXTENDS Naturals, Sequences, FiniteSets, SequencesExt, Sequencing

CONSTANTS
    LayerOrder,      \* GetApprovedLayers, bottom to top
    OverlayLayer,    \* overlay_stack: the layer of the popovers
    ModalLayer,      \* modal_stack
    Documents,       \* the documents the session may publish
    Values,          \* field values
    Blank,           \* the value of a property nobody has set
    NoDocument,      \* no document committed in this session
    HostCount,       \* field hosts of a screen
    MutationCount,   \* mutations of a host
    WidgetCount,     \* screen widgets alive at once
    PopoverLayers,   \* layers whose screens hold rich text with popovers
    MaxPopovers,     \* bound: popovers opened in one session
    FaultKinds,      \* which of "prepare", "commit", "invalidate", "restore",
                     \* "attach", "readd" can fail
    MaxFaults        \* bound: failures in one behaviour

ASSUME UiReconcilerAssumption ==
    /\ {HostCount, MutationCount, WidgetCount, MaxPopovers, MaxFaults} \subseteq Nat
    /\ LayerOrder \in Seq(ToSet(LayerOrder)) /\ IsInjective(LayerOrder)
    /\ {OverlayLayer, ModalLayer} \cup PopoverLayers \subseteq ToSet(LayerOrder)
    /\ OverlayLayer \notin PopoverLayers
    /\ Blank \notin Values
    /\ NoDocument \notin Documents

\* The layer of an instance is looked at before anything else.  There are
\* widgets enough for the screens shown and those of one more document.
ASSUME DocumentAssumption ==
    \A d \in Documents :
        /\ d \in Seq(ToSet(d))
        /\ \A i \in DOMAIN d : d[i].layer \in ToSet(LayerOrder) /\ d[i].value \in Values
        /\ 2 * Len(d) <= WidgetCount

VARIABLES
    shell,       \* "none", "pending" (not yet published) or "active"
    panel,       \* per layer: the children of its host panel, bottom to top
    active,      \* ActiveScreens: slot -> widget, or NoWidget
    screenOf,    \* the screen_id a widget was created for
    host,        \* per widget and host: what it shows and what it committed
    layerOn,     \* per layer: its host panel is enabled
    widgetOn,    \* per widget: it is enabled
    hostLocal,   \* HostLocalScreens in creation order, with the owner of each
    nextKey,     \* NextHostLocalCreationOrder
    lastDoc,     \* LastCommittedDocument
    health,      \* EGV2PresentationHealth
    lost,        \* layers that may lack a screen, or show half of one
    pc, op,      \* the Reconcile call under way
    faults       \* failures so far (bound)

vars == <<shell, panel, active, screenOf, host, layerOn, widgetOn, hostLocal,
          nextKey, lastDoc, health, lost, pc, op, faults>>

NoWidget == 0
Widgets == 1..WidgetCount
Hosts == 1..HostCount
Mutations == 1..MutationCount
Layers == ToSet(LayerOrder)
Instances == UNION {ToSet(d) : d \in Documents}
Slot(inst) == <<inst.layer, inst.key>>
Slots == {Slot(inst) : inst \in Instances}
Screens == {inst.screen : inst \in Instances}

Screen(w) == [kind |-> "screen", id |-> w]      \* a document screen in a panel
Popover(k) == [kind |-> "popover", id |-> k]    \* a host-local screen in a panel
IsScreen(c) == c.kind = "screen"
WidgetsIn(children) == {c.id : c \in {x \in ToSet(children) : IsScreen(x)}}
Documented(children) ==
    Selected(children, {n \in DOMAIN children : IsScreen(children[n])})

Filled(v) == [h \in Hosts |-> [shown |-> [m \in Mutations |-> v], snap |-> v]]
NoOp == [doc |-> NoDocument, plan |-> <<>>, i |-> 0, previous |-> [l \in Layers |-> <<>>],
         marker |-> FALSE, recovering |-> FALSE, dropped |-> FALSE,
         before |-> [l \in Layers |-> <<>>]]

-----------------------------------------------------------------------------
(* What is on the screen, per layer and without the popovers. *)

Look(w, hosts) == [screen |-> screenOf[w], fields |-> [h \in Hosts |-> hosts[w][h].shown]]

Shown == [l \in Layers |->
            LET docs == Documented(panel[l])
            IN  [n \in DOMAIN docs |-> Look(docs[n].id, host)]]

PictureOf ==
    [d \in Documents |-> [l \in Layers |->
        LET mine == Selected(d, {i \in DOMAIN d : d[i].layer = l})
        IN  [n \in DOMAIN mine |->
                [screen |-> mine[n].screen,
                 fields |-> [h \in Hosts |-> [m \in Mutations |-> mine[n].value]]]]]]

EmptyPicture == [l \in Layers |-> <<>>]

ASSUME PictureAssumption == \A d \in Documents : PictureOf[d] # NoDocument

-----------------------------------------------------------------------------
(* Failures, counted. *)

Fails(kind, n) == /\ n > 0 => kind \in FaultKinds
                  /\ faults + n <= MaxFaults
Spend(n) == faults' = faults + n

-----------------------------------------------------------------------------
(* Prepare: which widget each instance gets, and the value its hosts go    *)
(* back to.  A widget is reused only for the same slot and screen.         *)

HasDuplicateSlot(d) == \E i, j \in DOMAIN d : i # j /\ Slot(d[i]) = Slot(d[j])

\* Mutant: the widget of a slot is reused whatever screen it was made for.
ReusesSlot(inst, act) == act[Slot(inst)] # NoWidget

Reuses(inst, act) == /\ act[Slot(inst)] # NoWidget
                     /\ screenOf[act[Slot(inst)]] = inst.screen

FreeWidgets(act, children) ==
    Widgets \ ({act[s] : s \in Slots} \cup UNION {WidgetsIn(children[l]) : l \in Layers})

PlanFor(d, act, free) ==
    [i \in DOMAIN d |->
        LET fresh == {j \in 1..i : ~Reuses(d[j], act)}
            w == IF Reuses(d[i], act) THEN act[Slot(d[i])]
                 ELSE Nth(free, Cardinality(fresh))
        IN  [inst |-> d[i], widget |-> w, fresh |-> ~Reuses(d[i], act),
             prior |-> [h \in Hosts |-> IF Reuses(d[i], act) THEN host[w][h].snap
                                        ELSE Blank]]]

Created(plan) == {plan[i].widget : i \in {j \in DOMAIN plan : plan[j].fresh}}

(* The screen factory makes the candidates the plan needs. *)
CreateCandidates(plan) ==
    /\ host' = [w \in Widgets |-> IF w \in Created(plan) THEN Filled(Blank) ELSE host[w]]
    /\ screenOf' = [w \in Widgets |->
                       IF w \in Created(plan)
                       THEN plan[CHOOSE i \in DOMAIN plan : plan[i].widget = w].inst.screen
                       ELSE screenOf[w]]
    /\ widgetOn' = [w \in Widgets |-> widgetOn[w] \/ w \in Created(plan)]

-----------------------------------------------------------------------------
(* One host: its mutations committed, and its inverse plan replayed.  The  *)
(* replay stops at the first mutation that fails, and the committed        *)
(* snapshot comes back only when the whole host is restored.               *)

Committed(p) == Filled(p.inst.value)

\* Mutant: the committed snapshot is not restored with the host.
RestoredWithoutSnap(hostState, prior, n) ==
    [hostState EXCEPT !.shown = [m \in Mutations |-> IF m <= n THEN prior ELSE @[m]]]

Restored(hostState, prior, n) ==
    [shown |-> [m \in Mutations |-> IF m <= n THEN prior ELSE hostState.shown[m]],
     snap |-> IF n = MutationCount THEN prior ELSE hostState.snap]

(* RollbackFieldPlans of the hosts of a screen, each up to its stop. *)
RollbackFieldPlans(w, prior, stop) ==
    [h \in Hosts |-> IF h \in DOMAIN stop THEN Restored(host[w][h], prior[h], stop[h])
                     ELSE host[w][h]]

Stops(hosts) == [hosts -> 0..MutationCount]
Broken(stop) == Cardinality({h \in DOMAIN stop : stop[h] < MutationCount})

-----------------------------------------------------------------------------
(* One layer: its participants, and the popovers that close when it is     *)
(* cleared.                                                                *)

Participants(l, docChildren, locals) ==
    docChildren \o (IF l = OverlayLayer
                    THEN [n \in DOMAIN locals |-> Popover(locals[n].key)] ELSE <<>>)

Planned(plan, l) == Selected(plan, {i \in DOMAIN plan : plan[i].inst.layer = l})

PlanChildren(plan, l) ==
    LET mine == Planned(plan, l)
    IN  [n \in DOMAIN mine |-> Screen(mine[n].widget)]

(* Without a plan the document's participants are the children that        *)
(* ActiveScreens knows.                                                    *)
KnownChildren(children, act) ==
    Selected(children, {n \in DOMAIN children :
        /\ IsScreen(children[n])
        /\ \E s \in Slots : s[1] = OverlayLayer /\ act[s] = children[n].id})

(* DetachHostLocalScreen: the registry entry goes first; when the rebuild  *)
(* fails the panel keeps what it had.                                      *)
Detached(st, key, act, ok) ==
    LET rest == Selected(st.locals, {n \in DOMAIN st.locals : st.locals[n].key # key})
        parts == Participants(OverlayLayer, KnownChildren(st.children, act), rest)
    IN  [locals |-> rest,
         children |-> IF ok \/ parts = <<>> THEN parts ELSE st.children]

(* The rich text of the cleared screens closes its popovers; those in      *)
(* failing could not be taken out of the panel.                            *)
PopoversOf(owners) ==
    LET mine == Selected(hostLocal, {n \in DOMAIN hostLocal : hostLocal[n].owner \in owners})
    IN  [n \in DOMAIN mine |-> mine[n].key]

Locals == [key : 1..MaxPopovers, owner : Widgets]
Children == [kind : {"screen"}, id : Widgets] \cup [kind : {"popover"}, id : 1..MaxPopovers]
OverlayStates == [locals : Seq(Locals), children : Seq(Children)]

Close(failing) ==
    [key \in 1..MaxPopovers |-> [st \in OverlayStates |->
        Detached(st, key, active, key \notin failing)]]

CloseAll(st, owners, failing) == Through(Close(failing), PopoversOf(owners), st)

Overlay == [locals |-> hostLocal, children |-> panel[OverlayLayer]]

(* What clearing the panel of layer l does to the popovers. *)
AfterClearing(l, failing) == CloseAll(Overlay, WidgetsIn(panel[l]), failing)

MayFail(keys) == SUBSET ToSet(keys)

Without(children, n) == Selected(children, DOMAIN children \ {n})

(* The children after an AddChild fails: what was there before, or, when a *)
(* child is not taken back either, all but that one.                       *)
PutBack(children) ==
    {[children |-> children, cost |-> 0]}
        \cup (IF "readd" \in FaultKinds
              THEN {[children |-> Without(children, n), cost |-> 1] : n \in DOMAIN children}
              ELSE {})

(* A widget nobody holds any more is gone; nothing reads it again. *)
Collect(children, act) ==
    LET free == FreeWidgets(act, children)
    IN  /\ host' = [w \in Widgets |-> IF w \in free THEN Filled(Blank) ELSE host[w]]
        /\ screenOf' = [w \in Widgets |-> IF w \in free THEN Blank ELSE screenOf[w]]
        /\ widgetOn' = [w \in Widgets |-> w \in free \/ widgetOn[w]]

-----------------------------------------------------------------------------
Init ==
    /\ shell = "none"
    /\ panel = EmptyPicture
    /\ active = [s \in Slots |-> NoWidget]
    /\ screenOf = [w \in Widgets |-> Blank]
    /\ host = [w \in Widgets |-> Filled(Blank)]
    /\ layerOn = [l \in Layers |-> TRUE]
    /\ widgetOn = [w \in Widgets |-> TRUE]
    /\ hostLocal = <<>>
    /\ nextKey = 1
    /\ lastDoc = NoDocument
    /\ health = "nominal"
    /\ lost = {}
    /\ pc = "idle"
    /\ op = NoOp
    /\ faults = 0

(* HandleDocumentRequested: the shell is created when there is none, and   *)
(* stays when the document is refused.                                     *)
Reconcile(d) ==
    /\ pc = "idle"
    /\ shell' = IF shell = "none" THEN "pending" ELSE shell
    /\ \/ /\ HasDuplicateSlot(d)
          /\ UNCHANGED <<host, screenOf, widgetOn, pc, op, faults>>
       \/ /\ ~HasDuplicateSlot(d)
          /\ Fails("prepare", 1)
          /\ Spend(1)
          /\ UNCHANGED <<host, screenOf, widgetOn, pc, op>>
       \/ /\ ~HasDuplicateSlot(d)
          /\ LET plan == PlanFor(d, active, FreeWidgets(active, panel))
             IN  /\ CreateCandidates(plan)
                 /\ op' = [NoOp EXCEPT !.doc = d, !.plan = plan, !.i = 1, !.before = Shown]
          /\ pc' = "commit"
          /\ UNCHANGED faults
    /\ UNCHANGED <<panel, active, layerOn, hostLocal, nextKey, lastDoc, health, lost>>

(* CommitReconcile, step 1: the fields of the next screen. *)
CommitScreenFields ==
    /\ pc = "commit"
    /\ op.i <= Len(op.plan)
    /\ LET p == op.plan[op.i]
       IN  host' = [host EXCEPT ![p.widget] = Committed(p)]
    /\ op' = [op EXCEPT !.i = @ + 1]
    /\ UNCHANGED <<shell, panel, active, screenOf, layerOn, widgetOn, hostLocal,
                   nextKey, lastDoc, health, lost, pc, faults>>

(* Mutation m of host h fails.  The host replays the inverse of what it had *)
(* committed, all of it but `unhealed`; the hosts before it are rolled back *)
(* up to their stops.                                                      *)
HalfCommitted(p, h, m, unhealed, stop) ==
    LET was == host[p.widget]
        replayed(g) == [n \in Mutations |-> IF n \in unhealed THEN p.inst.value
                                            ELSE IF n < m THEN p.prior[g]
                                            ELSE was[g].shown[n]]
        committed(g) == [shown |-> Committed(p)[g].shown, snap |-> was[g].snap]
    IN  [g \in Hosts |-> IF g < h THEN Restored(committed(g), p.prior[g], stop[g])
                         ELSE IF g = h THEN [shown |-> replayed(g), snap |-> was[g].snap]
                         ELSE was[g]]

CommitScreenFieldsFails ==
    /\ pc = "commit"
    /\ op.i <= Len(op.plan)
    /\ "commit" \in FaultKinds
    /\ LET p == op.plan[op.i]
       IN  \E h \in Hosts, m \in Mutations, unhealed \in SUBSET (1..(MutationCount - 1)) :
           \E stop \in Stops(1..(h - 1)) :
             LET broken == Broken(stop) + Cardinality(unhealed)
             IN  /\ unhealed \subseteq 1..(m - 1)
                 /\ Fails("restore", broken)
                 /\ faults + broken + 1 <= MaxFaults
                 /\ Spend(broken + 1)
                 /\ host' = [host EXCEPT ![p.widget] =
                               HalfCommitted(p, h, m, unhealed, stop)]
                 /\ op' = [op EXCEPT !.i = @ - 1, !.marker = @ \/ broken > 0]
    /\ pc' = "undoScreens"
    /\ UNCHANGED <<shell, panel, active, screenOf, layerOn, widgetOn, hostLocal, nextKey,
                   lastDoc, health, lost>>

(* Host h of the screen is no longer there.  The hosts before it show the   *)
(* new values and are left so, without a marker: their snapshots are old.   *)
HostInvalidated ==
    /\ pc = "commit"
    /\ op.i <= Len(op.plan)
    /\ Fails("invalidate", 1)
    /\ Spend(1)
    /\ LET p == op.plan[op.i]
           was == host[p.widget]
       IN  \E h \in Hosts :
             /\ host' = [host EXCEPT ![p.widget] =
                   [g \in Hosts |-> IF g < h THEN [was[g] EXCEPT !.shown = Committed(p)[g].shown]
                                    ELSE was[g]]]
             /\ lost' = IF h > 1 /\ p.widget \in WidgetsIn(panel[p.inst.layer])
                        THEN lost \cup {p.inst.layer} ELSE lost
    /\ pc' = "undoScreens"
    /\ op' = [op EXCEPT !.i = @ - 1]
    /\ UNCHANGED <<shell, panel, active, screenOf, layerOn, widgetOn, hostLocal, nextKey,
                   lastDoc, health>>

(* The fields are committed but the central style cannot be applied: this  *)
(* screen is rolled back like the ones before it.                          *)
CentralStyleFails ==
    /\ pc = "commit"
    /\ op.i <= Len(op.plan)
    /\ Fails("commit", 1)
    /\ Spend(1)
    /\ LET p == op.plan[op.i]
       IN  host' = [host EXCEPT ![p.widget] = Committed(p)]
    /\ pc' = "undoScreens"
    /\ UNCHANGED <<shell, panel, active, screenOf, layerOn, widgetOn, hostLocal,
                   nextKey, lastDoc, health, lost, op>>

(* RollbackFieldPlans of one screen of the plan.  The two failure paths of *)
(* the code visit the screens in opposite orders; they are different       *)
(* widgets, so nothing tells the orders apart.                             *)
UndoScreen ==
    /\ pc = "undoScreens"
    /\ IF op.i = 0
       THEN /\ pc' = "refused"
            /\ UNCHANGED <<host, op, faults>>
       ELSE /\ LET p == op.plan[op.i]
               IN  \E stop \in Stops(Hosts) :
                     /\ Fails("restore", Broken(stop))
                     /\ Spend(Broken(stop))
                     /\ host' = [host EXCEPT ![p.widget] =
                                   RollbackFieldPlans(p.widget, p.prior, stop)]
                     /\ op' = [op EXCEPT !.i = @ - 1, !.marker = @ \/ Broken(stop) > 0]
            /\ UNCHANGED pc
    /\ UNCHANGED <<shell, panel, active, screenOf, layerOn, widgetOn, hostLocal,
                   nextKey, lastDoc, health, lost>>

(* Step 1 is done: the layers are rebuilt, bottom to top. *)
StartLayers ==
    /\ pc = "commit"
    /\ op.i > Len(op.plan)
    /\ pc' = "layers"
    /\ op' = [op EXCEPT !.i = 1]
    /\ UNCHANGED <<shell, panel, active, screenOf, host, layerOn, widgetOn, hostLocal,
                   nextKey, lastDoc, health, lost, faults>>

(* Step 2, CommitLayerParticipants and ReconcilePrepared for one layer: the *)
(* participants are fixed and the old order noted before the panel is      *)
(* cleared; clearing it closes the popovers its rich text had opened.  By   *)
(* then the overlay layer may hold the new document's screens, and those    *)
(* that ActiveScreens does not know yet are dropped from it.                *)
CommitLayer ==
    /\ pc = "layers"
    /\ op.i <= Len(LayerOrder)
    /\ LET l == LayerOrder[op.i]
           parts == Participants(l, PlanChildren(op.plan, l), hostLocal)
       IN  \E failing \in MayFail(PopoversOf(WidgetsIn(panel[l]))) :
             LET st == AfterClearing(l, failing)
             IN  /\ Fails("attach", Cardinality(failing))
                 /\ Spend(Cardinality(failing))
                 /\ hostLocal' = st.locals
                 /\ panel' = [panel EXCEPT ![OverlayLayer] = st.children, ![l] = parts]
                 /\ op' = [op EXCEPT !.i = @ + 1, !.previous[l] = panel[l],
                                     !.dropped = @ \/ Documented(st.children) #
                                                      Documented(panel[OverlayLayer])]
    /\ UNCHANGED <<shell, active, screenOf, host, layerOn, widgetOn, nextKey, lastDoc,
                   health, lost, pc>>

(* An AddChild fails.  ReconcilePrepared puts the old children back and     *)
(* does not look whether it could.                                         *)
CommitLayerFails ==
    /\ pc = "layers"
    /\ op.i <= Len(LayerOrder)
    /\ LET l == LayerOrder[op.i]
           parts == Participants(l, PlanChildren(op.plan, l), hostLocal)
           st == AfterClearing(l, {})
       IN  /\ parts # <<>>
           /\ \E back \in PutBack(panel[l]) :
                /\ Fails("attach", 1 + back.cost)
                /\ Spend(1 + back.cost)
                /\ hostLocal' = st.locals
                /\ panel' = [panel EXCEPT ![OverlayLayer] = st.children, ![l] = back.children]
                /\ lost' = IF back.cost = 0 THEN lost ELSE lost \cup {l}
    /\ pc' = "undoLayers"
    /\ op' = [op EXCEPT !.i = @ - 1]
    /\ UNCHANGED <<shell, active, screenOf, host, layerOn, widgetOn, nextKey, lastDoc, health>>

(* RestoreOrder of a layer already rebuilt; here its result is looked at.  *)
(* The code goes through the layers bottom to top, this goes back down:    *)
(* nothing tells the orders apart, since the popovers of a rebuilt layer   *)
(* closed when it was rebuilt, so that clearing it again closes none.      *)
RestoreLayer ==
    /\ pc = "undoLayers"
    /\ IF op.i = 0
       THEN /\ pc' = "undoScreens"
            /\ op' = [op EXCEPT !.i = Len(op.plan)]
            /\ UNCHANGED <<panel, hostLocal, faults>>
       ELSE LET l == LayerOrder[op.i]
                st == AfterClearing(l, {})
                old == op.previous[l]
            IN  /\ \/ /\ panel' = [panel EXCEPT ![OverlayLayer] = st.children, ![l] = old]
                      /\ op' = [op EXCEPT !.i = @ - 1]
                      /\ UNCHANGED faults
                   \/ \E n \in DOMAIN old :
                        /\ Fails("restore", 1)
                        /\ Spend(1)
                        /\ panel' = [panel EXCEPT ![OverlayLayer] = st.children,
                                                  ![l] = Without(old, n)]
                        /\ op' = [op EXCEPT !.i = @ - 1, !.marker = TRUE]
                /\ hostLocal' = st.locals
                /\ UNCHANGED pc
    /\ UNCHANGED <<shell, active, screenOf, host, layerOn, widgetOn, nextKey, lastDoc,
                   health, lost>>

(* Steps 3 and 4: ActiveScreens, then who may be clicked: with modals only *)
(* the modal layer, and in it only the document's topmost modal.  What was  *)
(* lost before is whole again.                                              *)
PlannedScreens(plan) ==
    [s \in Slots |-> IF \E i \in DOMAIN plan : Slot(plan[i].inst) = s
                     THEN plan[CHOOSE i \in DOMAIN plan : Slot(plan[i].inst) = s].widget
                     ELSE NoWidget]

Modals(plan) == LET mine == Planned(plan, ModalLayer)
                IN  [n \in DOMAIN mine |-> mine[n].widget]

LayerInteractive(plan) == [l \in Layers |-> Modals(plan) = <<>> \/ l = ModalLayer]

\* Mutant: the modals keep the input they had.
ModalsKeepInput(plan, w) == widgetOn[w]

TopModalInteractive(plan, w) ==
    IF w \in ToSet(Modals(plan)) THEN w = Last(Modals(plan)) ELSE widgetOn[w]

FinishCommit ==
    /\ pc = "layers"
    /\ op.i > Len(LayerOrder)
    /\ active' = PlannedScreens(op.plan)
    /\ layerOn' = LayerInteractive(op.plan)
    /\ LET free == FreeWidgets(active', panel)
       IN  /\ host' = [w \in Widgets |-> IF w \in free THEN Filled(Blank) ELSE host[w]]
           /\ screenOf' = [w \in Widgets |-> IF w \in free THEN Blank ELSE screenOf[w]]
           /\ widgetOn' = [w \in Widgets |-> w \in free \/ TopModalInteractive(op.plan, w)]
    /\ IF op.recovering
       THEN health' = "recovered" /\ UNCHANGED lastDoc
       ELSE health' = "nominal" /\ lastDoc' = op.doc
    /\ lost' = IF op.dropped THEN {OverlayLayer} ELSE {}
    /\ pc' = "idle"
    /\ op' = NoOp
    /\ UNCHANGED <<shell, panel, hostLocal, nextKey, faults>>

(* The document is refused, and everything it had touched is restored. *)
ReturnRefused ==
    /\ pc = "refused"
    /\ ~op.recovering
    /\ ~op.marker
    /\ Collect(panel, active)
    /\ pc' = "idle"
    /\ op' = NoOp
    /\ UNCHANGED <<shell, panel, active, layerOn, hostLocal, nextKey, lastDoc,
                   health, lost, faults>>

(* PerformCatastrophicRecovery: something could not be restored.  The       *)
(* layers are emptied, bottom to top, and the last document is applied     *)
(* from nothing.  Popovers stay registered.                                *)
ClearLayer(failing) ==
    [l \in Layers |-> [st \in OverlayStates |->
        CloseAll(IF l = OverlayLayer THEN [st EXCEPT !.children = <<>>] ELSE st,
                 WidgetsIn(panel[l]), failing)]]

ClearAllLayers(failing) == Through(ClearLayer(failing), LayerOrder, Overlay)

Recover ==
    /\ pc = "refused"
    /\ ~op.recovering
    /\ op.marker
    /\ LET st == ClearAllLayers({})
           cleared == [EmptyPicture EXCEPT ![OverlayLayer] = st.children]
           nothing == [s \in Slots |-> NoWidget]
           plan == PlanFor(lastDoc, nothing, FreeWidgets(nothing, cleared))
       IN  /\ panel' = cleared
           /\ hostLocal' = st.locals
           /\ active' = nothing
           /\ \/ /\ lastDoc = NoDocument \/ Fails("prepare", 1)
                 /\ faults' = IF lastDoc = NoDocument THEN faults ELSE faults + 1
                 /\ health' = "failed"
                 /\ lost' = {}
                 /\ Collect(cleared, nothing)
                 /\ pc' = "idle"
                 /\ op' = NoOp
              \/ /\ lastDoc # NoDocument
                 /\ CreateCandidates(plan)
                 /\ pc' = "commit"
                 /\ op' = [op EXCEPT !.plan = plan, !.i = 1, !.marker = FALSE,
                                     !.recovering = TRUE, !.dropped = FALSE]
                 /\ UNCHANGED <<health, lost, faults>>
    /\ UNCHANGED <<shell, layerOn, nextKey, lastDoc>>

RecoveryFails ==
    /\ pc = "refused"
    /\ op.recovering
    /\ health' = "failed"
    /\ lost' = {}
    /\ Collect(panel, active)
    /\ pc' = "idle"
    /\ op' = NoOp
    /\ UNCHANGED <<shell, panel, active, layerOn, hostLocal, nextKey, lastDoc, faults>>

(* OpenHoverOverlay: a rich text in screen w opens a popover.  The entry is *)
(* taken back when the overlay layer cannot be rebuilt.                    *)
AttachHostLocalScreen(w) ==
    /\ pc = "idle"
    /\ shell = "active"
    /\ nextKey <= MaxPopovers
    /\ \E l \in PopoverLayers : w \in WidgetsIn(panel[l])
    /\ \A n \in DOMAIN hostLocal : hostLocal[n].owner # w
    /\ LET locals == Append(hostLocal, [key |-> nextKey, owner |-> w])
           parts == Participants(OverlayLayer, KnownChildren(panel[OverlayLayer], active), locals)
       IN  \/ /\ hostLocal' = locals
             /\ panel' = [panel EXCEPT ![OverlayLayer] = parts]
             /\ UNCHANGED <<lost, faults>>
          \/ \E back \in PutBack(panel[OverlayLayer]) :
                /\ Fails("attach", 1 + back.cost)
                /\ Spend(1 + back.cost)
                /\ panel' = [panel EXCEPT ![OverlayLayer] = back.children]
                /\ lost' = IF back.cost = 0 THEN lost ELSE lost \cup {OverlayLayer}
                /\ UNCHANGED hostLocal
    /\ nextKey' = nextKey + 1
    /\ UNCHANGED <<shell, active, screenOf, host, layerOn, widgetOn, lastDoc, health, pc, op>>

(* CloseHoverOverlay, when the fade has run out. *)
DetachHostLocalScreen(key) ==
    /\ pc = "idle"
    /\ \E n \in DOMAIN hostLocal : hostLocal[n].key = key
    /\ \/ LET st == Detached(Overlay, key, active, TRUE)
          IN  /\ hostLocal' = st.locals
              /\ panel' = [panel EXCEPT ![OverlayLayer] = st.children]
              /\ UNCHANGED <<lost, faults>>
       \/ LET st == Detached(Overlay, key, active, FALSE)
          IN  \E back \in PutBack(st.children) :
                /\ Fails("attach", 1 + back.cost)
                /\ Spend(1 + back.cost)
                /\ hostLocal' = st.locals
                /\ panel' = [panel EXCEPT ![OverlayLayer] = back.children]
                /\ lost' = IF back.cost = 0 THEN lost ELSE lost \cup {OverlayLayer}
    /\ UNCHANGED <<shell, active, screenOf, host, layerOn, widgetOn, nextKey, lastDoc,
                   health, pc, op>>

(* PublishActiveProjection. *)
Publish ==
    /\ pc = "idle"
    /\ shell = "pending"
    /\ shell' = "active"
    /\ UNCHANGED <<panel, active, screenOf, host, layerOn, widgetOn, hostLocal, nextKey,
                   lastDoc, health, lost, pc, op, faults>>

(* TeardownActiveProjection and Reset: the session boundary. *)
Teardown ==
    /\ pc = "idle"
    /\ shell # "none"
    /\ shell' = "none"
    /\ panel' = EmptyPicture
    /\ active' = [s \in Slots |-> NoWidget]
    /\ screenOf' = [w \in Widgets |-> Blank]
    /\ host' = [w \in Widgets |-> Filled(Blank)]
    /\ layerOn' = [l \in Layers |-> TRUE]
    /\ widgetOn' = [w \in Widgets |-> TRUE]
    /\ hostLocal' = <<>>
    /\ nextKey' = 1
    /\ lastDoc' = NoDocument
    /\ health' = "nominal"
    /\ lost' = {}
    /\ UNCHANGED <<pc, op, faults>>

Commit == \/ CommitScreenFields \/ CommitScreenFieldsFails \/ HostInvalidated
          \/ CentralStyleFails
          \/ StartLayers \/ CommitLayer \/ CommitLayerFails \/ FinishCommit

Undo == \/ UndoScreen \/ RestoreLayer \/ ReturnRefused \/ Recover \/ RecoveryFails

Next ==
    \/ \E d \in Documents : Reconcile(d)
    \/ Commit
    \/ Undo
    \/ \E w \in Widgets : AttachHostLocalScreen(w)
    \/ \E key \in 1..MaxPopovers : DetachHostLocalScreen(key)
    \/ Publish
    \/ Teardown

Spec == Init /\ [][Next]_vars

-----------------------------------------------------------------------------
HostStates == [shown : [Mutations -> Values \cup {Blank}], snap : Values \cup {Blank}]

(* Every variable keeps its type, and a panel never holds a child twice. *)
TypeOK ==
    /\ shell \in {"none", "pending", "active"}
    /\ DOMAIN panel = Layers
    /\ \A l \in Layers :
         /\ \A c \in ToSet(panel[l]) : \/ IsScreen(c) /\ c.id \in Widgets
                                       \/ c.kind = "popover" /\ c.id \in 1..MaxPopovers
         /\ Cardinality(ToSet(panel[l])) = Len(panel[l])
    /\ active \in [Slots -> Widgets \cup {NoWidget}]
    /\ screenOf \in [Widgets -> Screens \cup {Blank}]
    /\ host \in [Widgets -> [Hosts -> HostStates]]
    /\ layerOn \in [Layers -> BOOLEAN]
    /\ widgetOn \in [Widgets -> BOOLEAN]
    /\ \A e \in ToSet(hostLocal) : e.key < nextKey /\ e.owner \in Widgets
    /\ nextKey \in 1..(MaxPopovers + 1)
    /\ lastDoc \in Documents \cup {NoDocument}
    /\ health \in {"nominal", "recovered", "failed"}
    /\ lost \subseteq Layers
    /\ pc \in {"idle", "commit", "layers", "undoScreens", "undoLayers", "refused"}
    /\ faults \in 0..MaxFaults

(* The screen is one accepted document, whatever failed on the way: the    *)
(* reconciler implements ShownDocument, with the layers in `lost` the only *)
(* ones that may show less, and the overlay layer the only one of them in  *)
(* a document that was accepted.  While a call is under way the picture is *)
(* the one it started from (op.before, kept for this mapping).             *)
SD == INSTANCE ShownDocument WITH
        Pictures <- {PictureOf[d] : d \in Documents},
        Empty <- EmptyPicture,
        Nobody <- NoDocument,
        Exposed <- {OverlayLayer},
        shown <- IF pc = "idle" THEN Shown ELSE op.before,
        accepted <- IF lastDoc = NoDocument THEN NoDocument ELSE PictureOf[lastDoc],
        asked <- IF pc = "idle" THEN NoDocument ELSE PictureOf[op.doc],
        health <- health,
        lost <- lost

ImplementsShownDocument == SD!Spec

ScreensAccounted ==
    \A l \in Layers :
      LET named == {active[s] : s \in {x \in Slots : x[1] = l}} \ {NoWidget}
      IN  /\ WidgetsIn(panel[l]) \subseteq named
          /\ l \notin lost =>
               /\ WidgetsIn(panel[l]) = named
               /\ \A w \in named, h \in Hosts, m \in Mutations :
                    host[w][h].shown[m] = host[w][h].snap

PopoversAccounted ==
    LET children == panel[OverlayLayer]
        up == {c.id : c \in {x \in ToSet(children) : ~IsScreen(x)}}
        registered == {hostLocal[n].key : n \in DOMAIN hostLocal}
    IN  /\ \A i, j \in DOMAIN children : i < j =>
             \/ IsScreen(children[i])
             \/ ~IsScreen(children[j]) /\ children[i].id < children[j].id
        /\ health # "failed" /\ OverlayLayer \notin lost => registered \subseteq up
        /\ faults = 0 => up \subseteq registered

(* Between two calls the accounts agree with the screen.  Every screen in a *)
(* panel is named by ActiveScreens for that layer; unless a screen was lost *)
(* from the layer, ActiveScreens names no other, and every host shows the   *)
(* value its committed snapshot holds, which is what the next inverse plan  *)
(* would go back to.  Popovers hang above the document in the order they    *)
(* were opened; every registered one does, unless something was lost from   *)
(* their layer or the whole screen is, and if nothing failed no other.      *)
AccountsMatchScreen == pc = "idle" => ScreensAccounted /\ PopoversAccounted

(* A modal blocks everything below it, refused documents included: while   *)
(* the screen shows modals only their layer takes input, and of them only  *)
(* the topmost, unless one was lost from the panel.                        *)
OnlyTopModalTakesInput ==
    (pc = "idle" /\ health # "failed" /\ ModalLayer \notin lost) =>
        LET modals == Documented(panel[ModalLayer])
        IN  /\ \A l \in Layers : layerOn[l] = (modals = <<>> \/ l = ModalLayer)
            /\ \A n \in DOMAIN modals : widgetOn[modals[n].id] = (n = Len(modals))
=============================================================================
