----------------------- MODULE RuntimeSession_proofs -----------------------
(***************************************************************************)
(* Proofs about RuntimeSession, for any finite set of sessions on threads  *)
(* of their own, any graphs and any number of starts: the count of the VMs *)
(* and that there is at most one, the numbers of the effects, the search   *)
(* for the load order of the modules, and the order of the phases of a     *)
(* start and of the teardown.                                              *)
(***************************************************************************)
EXTENDS RuntimeSession, Sequencing_proofs, FiniteSetTheorems, TLAPS

\* The threads the counter stands for.
Holders == {s \in Sessions : pc[s] = "counted" \/ HasVm(s)}

VmTypeOK ==
    /\ pc \in [Sessions -> PcSet]
    /\ seen \in [Sessions -> Nat]
    /\ liveVmCount = Cardinality(Holders)

(***************************************************************************)
(* What a thread saw when it counted itself stays true of the threads that *)
(* are counted with it: of any two, the later one saw the earlier.         *)
(***************************************************************************)
LaterSawEarlier ==
    /\ \A s \in Holders : seen[s] >= 1
    /\ \A s, t \in Holders : s # t => seen[s] >= 2 \/ seen[t] >= 2

VmSawNobody == \A s \in Sessions : HasVm(s) => seen[s] <= 1

VmInv == VmTypeOK /\ LaterSawEarlier /\ VmSawNobody

(***************************************************************************)
(* The places of a thread that holds a VM: it is built, it serves, or it   *)
(* is taken down.  Within them every step is one of these moves.           *)
(***************************************************************************)
Closing == Teardown \cup {"close"}
Building == BuildPhases \cup CallbackPoints \cup
              {"opening", "graph", "seal", "verify", "tree", "assign"}
VmPlaces == Building \cup Closing \cup {"running"}

VmMove(p, q) ==
    \/ p \in VmPlaces /\ q = p
    \/ p \in Building /\ q \in Building \cup {"running", "stop"}
    \/ p = "running" /\ q = "stop"
    \/ p \in Closing /\ q \in Closing

\* A step of a thread that changes nothing about the counter.
KeepsCount(s) ==
    /\ UNCHANGED <<liveVmCount, seen>>
    /\ \E p \in PcSet :
         /\ pc' = [pc EXCEPT ![s] = p]
         /\ \/ VmMove(pc[s], p)
            \/ {pc[s], p} \subseteq {"absent", "requested"}
            \/ pc[s] = "counted" /\ p = "opening" /\ seen[s] <= 1

\* GiveUpVm and Close
GivesBack(s) ==
    /\ pc[s] \in {"counted", "close"}
    /\ \E p \in {"absent", "requested"} : pc' = [pc EXCEPT ![s] = p]
    /\ liveVmCount' = liveVmCount - 1
    /\ UNCHANGED seen

-----------------------------------------------------------------------------
LEMMA HoldersFinite ==
    IsFiniteSet(Holders) /\ Cardinality(Holders) \in Nat
<1>1. IsFiniteSet(Sessions)
  BY RuntimeSessionAssumption
<1>2. Holders \in SUBSET Sessions
  BY DEF Holders
<1>3. IsFiniteSet(Holders)
  BY <1>1, <1>2, FS_Subset
<1> QED BY <1>3, FS_CardinalityType

LEMMA InitVm == Init => VmInv
<1> SUFFICES ASSUME Init PROVE VmInv
  OBVIOUS
<1>1. pc = [s \in Sessions |-> "absent"] /\ seen = [s \in Sessions |-> 0] /\ liveVmCount = 0
  BY DEF Init
<1>2. Holders = {}
  BY <1>1 DEF Holders, HasVm
<1>3. VmTypeOK
  BY <1>1, <1>2, FS_EmptySet DEF VmTypeOK, PcSet
<1>4. LaterSawEarlier
  BY <1>2 DEF LaterSawEarlier
<1>5. VmSawNobody
  BY <1>1 DEF VmSawNobody, HasVm
<1> QED BY <1>3, <1>4, <1>5 DEF VmInv

LEMMA Places ==
    /\ PcSet = VmPlaces \cup {"absent", "requested", "counted"}
    /\ VmPlaces \cap {"absent", "requested", "counted"} = {}
    /\ Building \cap Closing = {}
    /\ "running" \notin Building \cup Closing
<1> QED BY DEF PcSet, VmPlaces, Building, Closing, BuildPhases, Teardown, CallbackPoints

LEMMA HasVmIsPlace ==
    ASSUME NEW s \in Sessions, pc[s] \in PcSet
    PROVE  HasVm(s) <=> pc[s] \in VmPlaces
<1> QED BY Places DEF HasVm

LEMMA KeepsCountKeepsInv ==
    ASSUME NEW s \in Sessions, VmInv, KeepsCount(s)
    PROVE  VmInv'
<1> USE DEF VmInv, VmTypeOK
<1>1. PICK p \in PcSet :
         /\ pc' = [pc EXCEPT ![s] = p]
         /\ \/ VmMove(pc[s], p)
            \/ {pc[s], p} \subseteq {"absent", "requested"}
            \/ pc[s] = "counted" /\ p = "opening" /\ seen[s] <= 1
  BY DEF KeepsCount
<1>2. liveVmCount' = liveVmCount /\ seen' = seen
  BY DEF KeepsCount
<1>3. pc' \in [Sessions -> PcSet] /\ \A t \in Sessions : pc'[t] = IF t = s THEN p ELSE pc[t]
  BY <1>1
<1>4. \A t \in Sessions : HasVm(t) <=> pc[t] \in VmPlaces
  BY HasVmIsPlace
<1>5. \A t \in Sessions : HasVm(t)' <=> pc'[t] \in VmPlaces
  BY <1>3, Places DEF HasVm
<1>6. VmMove(pc[s], p) => pc[s] \in VmPlaces /\ p \in VmPlaces
  BY DEF VmMove, VmPlaces, Closing, Teardown
<1>7. "opening" \in VmPlaces
  BY DEF VmPlaces, Building
<1>8. Holders' = Holders
  BY <1>1, <1>3, <1>4, <1>5, <1>6, <1>7, Places DEF Holders
<1>9. VmTypeOK'
  BY <1>2, <1>3, <1>8
<1>10. LaterSawEarlier'
  BY <1>2, <1>8 DEF LaterSawEarlier
<1>11. VmSawNobody'
  BY <1>1, <1>2, <1>3, <1>4, <1>5, <1>6, Places DEF VmSawNobody
<1> QED BY <1>9, <1>10, <1>11

LEMMA CountVmKeepsInv ==
    ASSUME NEW s \in Sessions, VmInv, CountVm(s)
    PROVE  VmInv'
<1> USE DEF VmInv, VmTypeOK
<1>1. /\ pc[s] = "requested"
      /\ pc' = [pc EXCEPT ![s] = "counted"]
      /\ liveVmCount' = liveVmCount + 1
      /\ seen' = [seen EXCEPT ![s] = liveVmCount + 1]
  BY DEF CountVm, Goto
<1>2. liveVmCount \in Nat /\ IsFiniteSet(Holders)
  BY HoldersFinite
<1>3. \A t \in Sessions : pc'[t] = IF t = s THEN "counted" ELSE pc[t]
  BY <1>1
<1>4. pc' \in [Sessions -> PcSet] /\ seen' \in [Sessions -> Nat]
  BY <1>1, <1>2 DEF PcSet
<1>5. s \notin Holders /\ Holders' = Holders \cup {s}
  BY <1>1, <1>3 DEF Holders, HasVm
<1>6. Cardinality(Holders') = liveVmCount + 1
  BY <1>2, <1>5, FS_AddElement
<1>7. VmTypeOK'
  BY <1>1, <1>4, <1>6
<1>8. \A t \in Holders : t \in Sessions /\ t # s /\ seen'[t] = seen[t]
  BY <1>1, <1>5 DEF Holders
<1>9. seen'[s] = liveVmCount + 1
  BY <1>1
<1>10. Holders # {} => liveVmCount >= 1
  BY <1>2, FS_EmptySet
<1>11. LaterSawEarlier'
  BY <1>2, <1>5, <1>8, <1>9, <1>10 DEF LaterSawEarlier
<1>12. VmSawNobody'
  <2> SUFFICES ASSUME NEW t \in Sessions, HasVm(t)' PROVE seen'[t] <= 1
    BY DEF VmSawNobody
  <2>1. t # s /\ HasVm(t)
    BY <1>3 DEF HasVm
  <2> QED BY <1>1, <2>1 DEF VmSawNobody
<1> QED BY <1>7, <1>11, <1>12

LEMMA GivesBackKeepsInv ==
    ASSUME NEW s \in Sessions, VmInv, GivesBack(s)
    PROVE  VmInv'
<1> USE DEF VmInv, VmTypeOK
<1>1. PICK p \in {"absent", "requested"} : pc' = [pc EXCEPT ![s] = p]
  BY DEF GivesBack
<1>2. liveVmCount' = liveVmCount - 1 /\ seen' = seen
  BY DEF GivesBack
<1>3. \A t \in Sessions : pc'[t] = IF t = s THEN p ELSE pc[t]
  BY <1>1
<1>4. s \in Holders /\ Holders' = Holders \ {s}
  BY <1>3 DEF Holders, HasVm, GivesBack
<1>5. VmTypeOK'
  BY <1>1, <1>2, <1>4, HoldersFinite, FS_RemoveElement DEF PcSet
<1>6. LaterSawEarlier'
  BY <1>2, <1>4 DEF LaterSawEarlier
<1>7. VmSawNobody'
  BY <1>2, <1>3 DEF VmSawNobody, HasVm
<1> QED BY <1>5, <1>6, <1>7

-----------------------------------------------------------------------------
(***************************************************************************)
(* Every step of a thread counts, gives back, or keeps the count.          *)
(***************************************************************************)
LEMMA StopKeepsCount ==
    ASSUME NEW s \in Sessions, NEW why, pc[s] \in Building \cup {"running"},
           BeginStop(s, why), UNCHANGED vmVariables
    PROVE  KeepsCount(s)
<1>1. pc' = [pc EXCEPT ![s] = "stop"]
  BY DEF BeginStop, Goto
<1>2. "stop" \in PcSet
  BY DEF PcSet, Teardown
<1>3. VmMove(pc[s], "stop")
  BY DEF VmMove
<1> QED BY <1>1, <1>2, <1>3 DEF KeepsCount, vmVariables

LEMMA ProceedKeepsCount ==
    ASSUME NEW s \in Sessions, pc[s] \in Building,
           NEW q \in Building \cup {"running", "stop"}, Proceed(s, q), UNCHANGED vmVariables
    PROVE  KeepsCount(s)
<1>1. pc' = [pc EXCEPT ![s] = q]
  BY DEF Proceed, Goto
<1>2. q \in PcSet
  BY DEF PcSet, Building, Teardown
<1>3. VmMove(pc[s], q)
  BY DEF VmMove
<1> QED BY <1>1, <1>2, <1>3 DEF KeepsCount, vmVariables

LEMMA IdleKeepsCount ==
    ASSUME NEW s \in Sessions, pc \in [Sessions -> PcSet], pc[s] \in VmPlaces,
           UNCHANGED pc, UNCHANGED vmVariables
    PROVE  KeepsCount(s)
<1>1. pc' = [pc EXCEPT ![s] = pc[s]]
  OBVIOUS
<1>2. VmMove(pc[s], pc[s])
  BY DEF VmMove
<1> QED BY <1>1, <1>2 DEF KeepsCount, vmVariables

LEMMA NextModuleKeepsCount ==
    ASSUME NEW s \in Sessions, pc \in [Sessions -> PcSet], NextModule(s), UNCHANGED vmVariables,
           pc[s] \in {"execute", "register", "migrate_state", "restore_instances",
                      "validate_state", "start"}
    PROVE  KeepsCount(s)
<1>1. pc[s] \in Building /\ pc[s] \in VmPlaces
  BY DEF Building, BuildPhases, VmPlaces
<1>2. CASE Proceed(s, After(s))
  <2>1. After(s) \in Building \cup {"running", "stop"}
    BY DEF After, Building, BuildPhases, CallbackPoints
  <2> QED BY <1>1, <1>2, <2>1, ProceedKeepsCount
<1>3. CASE UNCHANGED pc
  BY <1>1, <1>3, IdleKeepsCount
<1> QED BY <1>2, <1>3 DEF NextModule

LEMMA EachStep ==
    ASSUME NEW s \in Sessions, pc \in [Sessions -> PcSet], Work(s) \/ Call(s)
    PROVE  KeepsCount(s) \/ CountVm(s) \/ GivesBack(s)
<1> USE DEF Fail
<1>1. CASE RequestStart(s)
  <2>1. CASE pc[s] = "absent" /\ Goto(s, "requested")
    BY <1>1, <2>1 DEF RequestStart, Goto, KeepsCount, PcSet, vmVariables
  <2>2. CASE pc[s] = "running" /\ BeginStop(s, "restart")
    BY <1>1, <2>2, StopKeepsCount DEF RequestStart
  <2> QED BY <1>1, <2>1, <2>2 DEF RequestStart
<1>2. CASE RefuseInputs(s)
  BY <1>2 DEF RefuseInputs, Goto, KeepsCount, PcSet, vmVariables
<1>3. CASE CountVm(s)
  BY <1>3
<1>4. CASE GiveUpVm(s)
  BY <1>4 DEF GiveUpVm, Goto, GivesBack
<1>5. CASE CreateVm(s)
  BY <1>5 DEF CreateVm, Goto, KeepsCount, PcSet, vmVariables
<1>6. CASE Open(s)
  <2>1. pc[s] \in Building /\ "graph" \in Building
    BY <1>6 DEF Open, Building
  <2> QED BY <1>6, <2>1, StopKeepsCount, ProceedKeepsCount DEF Open
<1>7. CASE LoadGraph(s)
  <2>1. pc[s] \in Building /\ "execute" \in Building
    BY <1>7 DEF LoadGraph, Building, BuildPhases
  <2>2. UNCHANGED vmVariables /\ (Proceed(s, "execute") \/ Fail(s))
    BY <1>7 DEF LoadGraph
  <2> QED BY <2>1, <2>2, StopKeepsCount, ProceedKeepsCount
<1>8. CASE Execute(s)
  <2>1. pc[s] = "execute" /\ UNCHANGED vmVariables /\ (NextModule(s) \/ Fail(s))
    BY <1>8 DEF Execute
  <2>2. pc[s] \in Building
    BY <2>1 DEF Building, BuildPhases
  <2> QED BY <2>1, <2>2, StopKeepsCount, NextModuleKeepsCount
<1>9. CASE RunHook(s)
  <2>1. /\ pc[s] \in {"register", "migrate_state", "restore_instances", "validate_state",
                      "start"}
        /\ UNCHANGED vmVariables /\ (NextModule(s) \/ Fail(s))
    BY <1>9 DEF RunHook
  <2>2. pc[s] \in Building
    BY <2>1 DEF Building, BuildPhases
  <2> QED BY <2>1, <2>2, StopKeepsCount, NextModuleKeepsCount
<1>10. CASE Seal(s)
  <2>1. pc[s] \in Building /\ "registered" \in Building
    BY <1>10 DEF Seal, Building, CallbackPoints
  <2>2. UNCHANGED vmVariables /\ (Proceed(s, "registered") \/ Fail(s))
    BY <1>10 DEF Seal
  <2> QED BY <2>1, <2>2, StopKeepsCount, ProceedKeepsCount
<1>11. CASE Compose(s)
  <2>1. pc[s] \in Building /\ "tree" \in Building
    BY <1>11 DEF Compose, Building, BuildPhases
  <2> QED BY <1>11, <2>1, StopKeepsCount, ProceedKeepsCount DEF Compose
<1>12. CASE Decode(s)
  <2>1. pc[s] \in Building /\ "migrate_state" \in Building
    BY <1>12 DEF Decode, Building, BuildPhases
  <2> QED BY <1>12, <2>1, StopKeepsCount, ProceedKeepsCount DEF Decode
<1>13. CASE Verify(s)
  <2>1. pc[s] \in Building /\ "tree" \in Building
    BY <1>13 DEF Verify, Building
  <2> QED BY <1>13, <2>1, StopKeepsCount, ProceedKeepsCount DEF Verify
<1>14. CASE CheckTree(s)
  <2>1. pc[s] \in Building /\ "built" \in Building
    BY <1>14 DEF CheckTree, Building, CallbackPoints
  <2> QED BY <1>14, <2>1, StopKeepsCount, ProceedKeepsCount DEF CheckTree
<1>15. CASE AssignState(s)
  <2>1. pc[s] \in Building /\ "start" \in Building
    BY <1>15 DEF AssignState, Building, BuildPhases
  <2> QED BY <1>15, <2>1, ProceedKeepsCount DEF AssignState
<1>16. CASE Callback(s)
  <2> DEFINE next == CASE pc[s] = "registered" ->
                            IF start[s].form = "load" THEN "decode" ELSE "compose"
                       [] pc[s] = "built" ->
                            IF start[s].form = "load" THEN "restore_instances"
                            ELSE "validate_state"
                       [] pc[s] = "restored" -> "assign"
                       [] pc[s] = "started" -> "running"
  <2>1. pc[s] \in Building
    BY <1>16 DEF Callback, Building
  <2>2. next \in Building \cup {"running", "stop"}
    BY <1>16 DEF Callback, CallbackPoints, Building, BuildPhases
  <2>3. UNCHANGED vmVariables /\ (Proceed(s, next) \/ Fail(s))
    BY <1>16 DEF Callback
  <2> HIDE DEF next
  <2> QED BY <2>1, <2>2, <2>3, StopKeepsCount, ProceedKeepsCount
<1>17. CASE Stop(s)
  BY <1>17, StopKeepsCount DEF Stop
<1>18. CASE RunTeardownHook(s) \/ EndTeardown(s)
  <2>1. pc[s] \in Teardown /\ UNCHANGED vmVariables
    BY <1>18 DEF RunTeardownHook, EndTeardown
  <2>2. UNCHANGED pc \/ LeaveTeardown(s)
    BY <1>18 DEF RunTeardownHook, EndTeardown
  <2>3. CASE UNCHANGED pc
    BY <2>1, <2>3, IdleKeepsCount DEF VmPlaces, Closing
  <2>4. CASE LeaveTeardown(s)
    <3>1. \E q \in {"unregister", "close"} : pc' = [pc EXCEPT ![s] = q]
      BY <2>4 DEF LeaveTeardown, Goto
    <3> QED BY <2>1, <3>1 DEF KeepsCount, VmMove, Closing, Teardown, PcSet, vmVariables
  <2> QED BY <2>2, <2>3, <2>4
<1>19. CASE Close(s)
  BY <1>19 DEF Close, Goto, GivesBack
<1>20. CASE PublishFromLua(s) \/ PublishHostLocalEffect(s) \/ TakePendingEffects(s)
  <2>1. pc[s] = "running" /\ UNCHANGED pc /\ UNCHANGED vmVariables
    BY <1>20 DEF PublishFromLua, PublishHostLocalEffect, TakePendingEffects
  <2> QED BY <2>1, IdleKeepsCount DEF VmPlaces
<1> QED BY <1>1, <1>2, <1>3, <1>4, <1>5, <1>6, <1>7, <1>8, <1>9, <1>10, <1>11, <1>12, <1>13,
           <1>14, <1>15, <1>16, <1>17, <1>18, <1>19, <1>20 DEF Work, Call

LEMMA NextKeepsVmInv == VmInv /\ [Next]_vars => VmInv'
<1> SUFFICES ASSUME VmInv, [Next]_vars PROVE VmInv'
  OBVIOUS
<1>1. CASE Next
  <2>1. PICK s \in Sessions : Work(s) \/ Call(s)
    BY <1>1 DEF Next
  <2>2. KeepsCount(s) \/ CountVm(s) \/ GivesBack(s)
    BY <2>1, EachStep DEF VmInv, VmTypeOK
  <2> QED BY <2>2, KeepsCountKeepsInv, CountVmKeepsInv, GivesBackKeepsInv
<1>2. CASE UNCHANGED vars
  <2>1. UNCHANGED <<liveVmCount, seen, pc>>
    BY <1>2 DEF vars, vmVariables
  <2>2. Holders' = Holders
    BY <2>1 DEF Holders, HasVm
  <2> QED BY <2>1, <2>2 DEF VmInv, VmTypeOK, LaterSawEarlier, VmSawNobody, HasVm
<1> QED BY <1>1, <1>2

(***************************************************************************)
(* GLiveVmCount is the number of threads that hold a VM or have yet to     *)
(* look at what they counted, in every interleaving of any finite number   *)
(* of sessions: a fault or a stop, wherever it comes, gives back exactly   *)
(* what its start took (the decrements of the start and of Stop).          *)
(***************************************************************************)
THEOREM CountIsExactAlways == Spec => []CountIsExact
<1>1. VmInv => CountIsExact
  BY DEF VmInv, VmTypeOK, CountIsExact, Holders
<1> QED BY <1>1, InitVm, NextKeepsVmInv, PTL DEF Spec

-----------------------------------------------------------------------------
(***************************************************************************)
(* At most one VM, and what the refinement makes of it.                    *)
(***************************************************************************)
OneVm == \A s, t \in Sessions : HasVm(s) /\ HasVm(t) => s = t

OwnerRight ==
    \A s \in Sessions : HasVm(s) =>
        /\ Owner = s /\ Owner # NoModule
        /\ pc[s] \in Building => Stage = "building"
        /\ pc[s] = "running" => Stage = "serving"
        /\ pc[s] \in Closing => Stage = "closing"

LEMMA VmInvMakesOne == VmInv => OneVm
<1> SUFFICES ASSUME VmInv, NEW s \in Sessions, NEW t \in Sessions, HasVm(s), HasVm(t)
             PROVE  s = t
  BY DEF OneVm
<1>1. s \in Holders /\ t \in Holders
  BY DEF Holders
<1>2. seen[s] \in Nat /\ seen[t] \in Nat /\ seen[s] <= 1 /\ seen[t] <= 1
  BY DEF VmInv, VmTypeOK, VmSawNobody
<1> QED BY <1>1, <1>2 DEF VmInv, LaterSawEarlier

LEMMA OneVmHasOwner == OneVm => OwnerRight
<1> SUFFICES ASSUME OneVm, NEW s \in Sessions, HasVm(s)
             PROVE  /\ Owner = s /\ Owner # NoModule
                    /\ pc[s] \in Building => Stage = "building"
                    /\ pc[s] = "running" => Stage = "serving"
                    /\ pc[s] \in Closing => Stage = "closing"
  BY DEF OwnerRight
<1>1. PICK t \in Sessions : t = Owner /\ HasVm(t)
  BY DEF Owner
<1>2. t = s
  BY <1>1 DEF OneVm
<1>3. Owner = s /\ Owner # NoModule
  BY <1>1, <1>2, RuntimeSessionAssumption
<1> QED BY <1>3, Places DEF Stage, Closing

LEMMA VmInvOwner == VmInv => OneVm /\ OwnerRight
<1> QED BY VmInvMakesOne, OneVmHasOwner

LEMMA VmInvOwnerNext == VmInv' => OneVm' /\ OwnerRight'
<1> QED BY VmInvOwner, PTL

LEMMA NobodyHasVm ==
    ASSUME \A s \in Sessions : ~HasVm(s)
    PROVE  Owner = NoModule /\ Stage = "none"
<1> QED BY DEF Owner, Stage

\* A step that leaves every thread with a VM where it is, and lets no thread
\* get or lose one, is not seen by the abstract specification.
LEMMA VmsStay ==
    ASSUME VmInv, VmInv',
           \A t \in Sessions : (HasVm(t)' <=> HasVm(t)) /\ (HasVm(t) => pc'[t] = pc[t])
    PROVE  Owner' = Owner /\ Stage' = Stage
<1>1. CASE \E t \in Sessions : HasVm(t)
  <2>1. PICK t \in Sessions : HasVm(t)
    BY <1>1
  <2>2. Owner = t /\ Owner # NoModule
    BY <2>1, VmInvOwner DEF OwnerRight
  <2>3. (Owner = t /\ Owner # NoModule)'
    BY <2>1, VmInvOwnerNext DEF OwnerRight
  <2> QED BY <2>1, <2>2, <2>3 DEF Stage
<1>2. CASE \A t \in Sessions : ~HasVm(t)
  <2>1. Owner = NoModule /\ Stage = "none"
    BY <1>2, NobodyHasVm
  <2>2. (Owner = NoModule /\ Stage = "none")'
    BY <1>2 DEF Owner, Stage
  <2> QED BY <2>1, <2>2
<1> QED BY <1>1, <1>2

LEMMA KeepsCountIsAbstract ==
    ASSUME VmInv, VmInv', NEW s \in Sessions, KeepsCount(s)
    PROVE  [Vm!VmNext]_<<Owner, Stage>>
<1> USE DEF Vm!VmNext, Vm!Create, Vm!Serve, Vm!TakeDown, Vm!Destroy
<1>1. PICK p \in PcSet :
         /\ pc' = [pc EXCEPT ![s] = p]
         /\ \/ VmMove(pc[s], p)
            \/ {pc[s], p} \subseteq {"absent", "requested"}
            \/ pc[s] = "counted" /\ p = "opening" /\ seen[s] <= 1
  BY DEF KeepsCount
<1>2. \A t \in Sessions : pc'[t] = IF t = s THEN p ELSE pc[t]
  BY <1>1 DEF VmInv, VmTypeOK
<1>3. CASE VmMove(pc[s], p)
  <2>1. pc[s] \in VmPlaces /\ p \in VmPlaces
    BY <1>3 DEF VmMove, VmPlaces, Closing, Teardown
  <2>2. HasVm(s) /\ HasVm(s)'
    BY <1>2, <2>1, Places DEF HasVm
  <2>3. Owner = s /\ Owner' = s
    BY <2>2, VmInvOwner, VmInvOwnerNext DEF OwnerRight
  <2>4. /\ pc[s] \in Building => Stage = "building"
        /\ pc[s] = "running" => Stage = "serving"
        /\ pc[s] \in Closing => Stage = "closing"
    BY <2>2, VmInvOwner DEF OwnerRight
  <2>5. (/\ pc[s] \in Building => Stage = "building"
         /\ pc[s] = "running" => Stage = "serving"
         /\ pc[s] \in Closing => Stage = "closing")'
    BY <2>2, VmInvOwnerNext DEF OwnerRight
  <2>6. /\ p \in Building => Stage' = "building"
        /\ p = "running" => Stage' = "serving"
        /\ p \in Closing => Stage' = "closing"
    BY <1>2, <2>5 DEF Building, Closing, Teardown, BuildPhases, CallbackPoints
  <2>7. "stop" \in Closing
    BY DEF Closing, Teardown
  <2>8. CASE p = pc[s]
    BY <2>1, <2>3, <2>4, <2>6, <2>8 DEF VmPlaces
  <2>9. CASE pc[s] \in Building /\ p \in Building \cup {"running", "stop"}
    BY <2>3, <2>4, <2>6, <2>7, <2>9
  <2>10. CASE pc[s] = "running" /\ p = "stop"
    BY <2>3, <2>4, <2>6, <2>7, <2>10
  <2>11. CASE pc[s] \in Closing /\ p \in Closing
    BY <2>3, <2>4, <2>6, <2>11
  <2> QED BY <1>3, <2>8, <2>9, <2>10, <2>11 DEF VmMove
<1>4. CASE {pc[s], p} \subseteq {"absent", "requested"}
  <2>1. \A t \in Sessions : (HasVm(t)' <=> HasVm(t)) /\ (HasVm(t) => pc'[t] = pc[t])
    BY <1>2, <1>4 DEF HasVm
  <2> QED BY <2>1, VmsStay
<1>5. CASE pc[s] = "counted" /\ p = "opening" /\ seen[s] <= 1
  <2>1. ~HasVm(s) /\ HasVm(s)' /\ pc'[s] \in Building
    BY <1>2, <1>5 DEF HasVm, Building
  <2>2. ASSUME NEW t \in Sessions, HasVm(t) PROVE FALSE
    <3>1. t # s /\ HasVm(t)'
      BY <1>2, <2>1, <2>2 DEF HasVm
    <3> QED BY <2>1, <3>1, VmInvOwnerNext DEF OneVm
  <2>3. Owner = NoModule
    BY <2>2, NobodyHasVm
  <2>4. (Owner = s)'
    BY <2>1, VmInvOwnerNext DEF OwnerRight
  <2>5. (/\ pc[s] \in Building => Stage = "building"
         /\ pc[s] = "running" => Stage = "serving"
         /\ pc[s] \in Closing => Stage = "closing")'
    BY <2>1, VmInvOwnerNext DEF OwnerRight
  <2> QED BY <2>1, <2>3, <2>4, <2>5
<1> QED BY <1>1, <1>3, <1>4, <1>5

LEMMA GivesBackIsAbstract ==
    ASSUME VmInv, VmInv', NEW s \in Sessions, GivesBack(s)
    PROVE  [Vm!VmNext]_<<Owner, Stage>>
<1> USE DEF Vm!VmNext, Vm!Create, Vm!Serve, Vm!TakeDown, Vm!Destroy
<1>1. \A t \in Sessions : t # s => pc'[t] = pc[t]
  BY DEF GivesBack, VmInv, VmTypeOK
<1>2. ~HasVm(s)'
  BY DEF GivesBack, HasVm, VmInv, VmTypeOK
<1>3. CASE pc[s] = "counted"
  <2>1. \A t \in Sessions : (HasVm(t)' <=> HasVm(t)) /\ (HasVm(t) => pc'[t] = pc[t])
    BY <1>1, <1>2, <1>3 DEF HasVm
  <2> QED BY <2>1, VmsStay
<1>4. CASE pc[s] = "close"
  <2>1. HasVm(s) /\ pc[s] \in Closing
    BY <1>4 DEF HasVm, Closing
  <2>2. Stage = "closing"
    BY <2>1, VmInvOwner DEF OwnerRight
  <2>3. \A t \in Sessions : ~HasVm(t)'
    BY <1>1, <1>2, <2>1, VmInvOwner DEF HasVm, OneVm
  <2>4. (Owner = NoModule /\ Stage = "none")'
    BY <2>3 DEF Owner, Stage
  <2> QED BY <2>2, <2>4
<1> QED BY <1>3, <1>4 DEF GivesBack

LEMMA CountVmIsAbstract ==
    ASSUME VmInv, VmInv', NEW s \in Sessions, CountVm(s)
    PROVE  UNCHANGED <<Owner, Stage>>
<1>1. pc[s] = "requested" /\ pc' = [pc EXCEPT ![s] = "counted"]
  BY DEF CountVm, Goto
<1>2. \A t \in Sessions : (HasVm(t)' <=> HasVm(t)) /\ (HasVm(t) => pc'[t] = pc[t])
  BY <1>1 DEF HasVm, VmInv, VmTypeOK
<1> QED BY <1>2, VmsStay

(***************************************************************************)
(* However the sessions of several threads interleave, the process has at  *)
(* most one VM; the session that built it takes it down before another is  *)
(* built (INV-010, the check of CurrentVmCount in InitializeVm).           *)
(***************************************************************************)
THEOREM RuntimeImplementsSingleVm == Spec => ImplementsSingleVm
<1>1. Init => Vm!VmInit
  <2> SUFFICES ASSUME Init PROVE Vm!VmInit
    OBVIOUS
  <2>1. \A s \in Sessions : ~HasVm(s)
    BY DEF Init, HasVm
  <2> QED BY <2>1, NobodyHasVm DEF Vm!VmInit
<1>2. VmInv /\ VmInv' /\ [Next]_vars => [Vm!VmNext]_<<Owner, Stage>>
  <2> SUFFICES ASSUME VmInv, VmInv', [Next]_vars PROVE [Vm!VmNext]_<<Owner, Stage>>
    OBVIOUS
  <2>1. CASE Next
    <3>1. PICK s \in Sessions : Work(s) \/ Call(s)
      BY <2>1 DEF Next
    <3>2. KeepsCount(s) \/ CountVm(s) \/ GivesBack(s)
      BY <3>1, EachStep DEF VmInv, VmTypeOK
    <3> QED BY <3>2, KeepsCountIsAbstract, CountVmIsAbstract, GivesBackIsAbstract
  <2>2. CASE UNCHANGED vars
    <3>1. UNCHANGED pc
      BY <2>2 DEF vars
    <3>2. \A t \in Sessions : (HasVm(t)' <=> HasVm(t)) /\ (HasVm(t) => pc'[t] = pc[t])
      BY <3>1 DEF HasVm
    <3> QED BY <3>2, VmsStay
  <2> QED BY <2>1, <2>2
<1>3. <<Owner, Stage>> = Vm!vmVars
  BY DEF Vm!vmVars
<1> QED BY <1>1, <1>2, <1>3, InitVm, NextKeepsVmInv, PTL
        DEF Spec, ImplementsSingleVm, Vm!VmSpec, Vm!vmVars

-----------------------------------------------------------------------------
(***************************************************************************)
(* The effects and their numbers.                                          *)
(***************************************************************************)
Queues ==
    /\ start \in [Sessions -> [form : Forms \cup {"none"}, graph : Graphs \cup {<<>>},
                               number : Nat]]
    /\ luaEffects \in [Sessions -> Seq([targeted : BOOLEAN, valid : BOOLEAN])]
    /\ effects \in [Sessions -> Seq(Effect)]
    /\ handed \in [Sessions -> Seq(Effect)]
    /\ nextSequence \in [Sessions -> Nat \ {0}]

\* What waits ends with the last number given out, without a gap.
Numbered(queue, next) ==
    \A i \in DOMAIN queue : queue[i].sequence = next - Len(queue) + i - 1

\* What was handed over came before what waits or is yet to come.
HandedBefore(given, queue, next) ==
    \A j \in DOMAIN given : given[j].sequence < next - Len(queue)

EffectInv ==
    /\ Queues
    /\ \A s \in Sessions :
         /\ Numbered(effects[s], nextSequence[s])
         /\ HandedBefore(handed[s], effects[s], nextSequence[s])

LEMMA MemberOfSeq ==
    ASSUME NEW T, NEW q \in Seq(T), NEW i \in 1..Len(q)
    PROVE  q[i] \in T
<1> QED OBVIOUS

LEMMA LeastOfNats ==
    ASSUME NEW S, S \subseteq Nat, S # {}
    PROVE  Min(S) \in S /\ \A y \in S : Min(S) <= y
  BY SomeFirst DEF Min

\* Effects stamped one after the other, put behind those that wait.
LEMMA StampedBehind ==
    ASSUME NEW old \in Seq(Effect), NEW new \in Seq(Effect), NEW next \in Nat \ {0},
           Numbered(old, next), \A i \in 1..Len(new) : new[i].sequence = next + i - 1
    PROVE  /\ Len(old \o new) = Len(old) + Len(new)
           /\ Numbered(old \o new, next + Len(new))
           /\ HandedBefore(old \o new, <<>>, next + Len(new))
<1> DEFINE all == old \o new
<1>1. all \in Seq(Effect) /\ Len(all) = Len(old) + Len(new)
  OBVIOUS
<1>2. \A i \in 1..Len(old) : all[i] = old[i] /\ old[i].sequence = next - Len(old) + i - 1
  BY DEF Numbered
<1>3. \A i \in Len(old) + 1..Len(old) + Len(new) : all[i] = new[i - Len(old)]
  OBVIOUS
<1> HIDE DEF all
<1>4. ASSUME NEW i \in 1..Len(all) PROVE all[i].sequence = next - Len(old) + i - 1
  <2>1. CASE i <= Len(old)
    <3>1. i \in 1..Len(old)
      BY <1>1, <2>1
    <3> QED BY <1>2, <3>1
  <2>2. CASE i > Len(old)
    <3>1. i \in Len(old) + 1..Len(old) + Len(new) /\ i - Len(old) \in 1..Len(new)
      BY <1>1, <2>2
    <3>2. all[i] = new[i - Len(old)] /\ new[i - Len(old)].sequence = next + (i - Len(old)) - 1
      BY <1>3, <3>1
    <3> QED BY <3>1, <3>2
  <2> QED BY <1>1, <2>1, <2>2
<1>5. Numbered(all, next + Len(new))
  BY <1>1, <1>4 DEF Numbered
<1>6. HandedBefore(all, <<>>, next + Len(new))
  <2>1. ASSUME NEW i \in 1..Len(all) PROVE all[i].sequence < next + Len(new) - 0
    BY <1>1, <1>4
  <2> QED BY <1>1, <2>1 DEF HandedBefore
<1> QED BY <1>1, <1>5, <1>6 DEF all

LEMMA OneBehind ==
    ASSUME NEW old \in Seq(Effect), NEW e \in Effect, NEW next \in Nat \ {0},
           NEW given \in Seq(Effect),
           Numbered(old, next), HandedBefore(given, old, next), e.sequence = next
    PROVE  Numbered(Append(old, e), next + 1) /\ HandedBefore(given, Append(old, e), next + 1)
<1>1. Append(old, e) = old \o <<e>> /\ <<e>> \in Seq(Effect) /\ Len(<<e>>) = 1
  OBVIOUS
<1>2. \A i \in 1..Len(<<e>>) : <<e>>[i].sequence = next + i - 1
  OBVIOUS
<1>3. Numbered(old \o <<e>>, next + Len(<<e>>))
  BY <1>1, <1>2, StampedBehind
<1>4. (next + 1) - Len(Append(old, e)) = next - Len(old)
  OBVIOUS
<1> QED BY <1>1, <1>3, <1>4 DEF HandedBefore

\* A pull keeps a prefix of what it took out of the VM.
LEMMA ValidPrefixBounds ==
    ASSUME NEW queue \in Seq([targeted : BOOLEAN, valid : BOOLEAN])
    PROVE  ValidPrefix(queue) \in 0..Len(queue)
<1> DEFINE q == Append(queue, [targeted |-> FALSE, valid |-> FALSE])
           I == {i \in 1..Len(q) : ~q[i].valid}
<1>1. q \in Seq([targeted : BOOLEAN, valid : BOOLEAN]) /\ Len(q) = Len(queue) + 1
  OBVIOUS
<1>2. q[Len(q)] = [targeted |-> FALSE, valid |-> FALSE]
  BY <1>1
<1>3. Len(q) \in I
  BY <1>1, <1>2
<1>4. I \subseteq Nat /\ I # {}
  BY <1>3
<1>5. Min(I) \in 1..Len(q)
  BY <1>4, LeastOfNats
<1>6. ValidPrefix(queue) = Min(I) - 1
  BY <1>3 DEF ValidPrefix, SelectInSeq
<1> HIDE DEF q, I
<1> QED BY <1>1, <1>5, <1>6

LEMMA StampIsEffect ==
    ASSUME NEW s \in Sessions, Queues, NEW n \in Nat \ {0}, NEW targeted \in BOOLEAN
    PROVE  Stamp(s, n, targeted) \in Effect /\ Stamp(s, n, targeted).sequence = n
<1> QED BY DEF Queues, Stamp, Effect

LEMMA PublishHostLocalKeepsEffectInv ==
    ASSUME NEW s \in Sessions, EffectInv, PublishHostLocalEffect(s)
    PROVE  EffectInv'
<1> USE DEF EffectInv
<1>1. PICK targeted \in BOOLEAN :
         effects' = [effects EXCEPT ![s] = Append(@, Stamp(s, nextSequence[s], targeted))]
  BY DEF PublishHostLocalEffect
<1>2. /\ nextSequence' = [nextSequence EXCEPT ![s] = @ + 1]
      /\ UNCHANGED <<start, luaEffects, handed>>
  BY DEF PublishHostLocalEffect
<1> DEFINE e == Stamp(s, nextSequence[s], targeted)
<1>3. e \in Effect /\ e.sequence = nextSequence[s]
  BY StampIsEffect DEF Queues
<1> HIDE DEF e
<1>4. effects[s] \in Seq(Effect) /\ nextSequence[s] \in Nat \ {0}
  BY DEF Queues
<1>5. Append(effects[s], e) \in Seq(Effect)
  BY <1>3, <1>4
<1>6. Queues'
  BY <1>1, <1>2, <1>4, <1>5 DEF Queues, e
<1>7. handed[s] \in Seq(Effect)
  BY DEF Queues
<1>8. /\ Numbered(Append(effects[s], e), nextSequence[s] + 1)
      /\ HandedBefore(handed[s], Append(effects[s], e), nextSequence[s] + 1)
  BY <1>3, <1>4, <1>7, OneBehind
<1>9. \A t \in Sessions :
        /\ effects'[t] = IF t = s THEN Append(effects[s], e) ELSE effects[t]
        /\ nextSequence'[t] = IF t = s THEN nextSequence[s] + 1 ELSE nextSequence[t]
  BY <1>1, <1>2 DEF Queues, e
<1>10. ASSUME NEW t \in Sessions
       PROVE  /\ Numbered(effects'[t], nextSequence'[t])
              /\ HandedBefore(handed'[t], effects'[t], nextSequence'[t])
  BY <1>2, <1>8, <1>9
<1> QED BY <1>6, <1>10

LEMMA TakeKeepsEffectInv ==
    ASSUME NEW s \in Sessions, EffectInv, TakePendingEffects(s)
    PROVE  EffectInv'
<1> USE DEF EffectInv
<1> DEFINE pulled == luaEffects[s]
           n == ValidPrefix(pulled)
           old == effects[s]
           next == nextSequence[s]
           new == [i \in 1..n |-> Stamp(s, next + i - 1, pulled[i].targeted)]
           stamped == old \o new
<1>1. /\ nextSequence' = [nextSequence EXCEPT ![s] = @ + n]
      /\ IF n = Len(pulled)
         THEN /\ handed' = [handed EXCEPT ![s] = stamped]
              /\ effects' = [effects EXCEPT ![s] = <<>>]
         ELSE /\ handed' = [handed EXCEPT ![s] = <<>>]
              /\ effects' = [effects EXCEPT ![s] = stamped]
      /\ luaEffects' = [luaEffects EXCEPT ![s] = NoEffects]
      /\ UNCHANGED start
  BY DEF TakePendingEffects
<1>2. pulled \in Seq([targeted : BOOLEAN, valid : BOOLEAN]) /\ n \in 0..Len(pulled)
  BY ValidPrefixBounds DEF Queues
<1>3. old \in Seq(Effect) /\ next \in Nat \ {0} /\ n \in Nat
  BY <1>2 DEF Queues
<1> HIDE DEF n, pulled, old, next
<1>4. ASSUME NEW i \in 1..n
      PROVE  new[i] \in Effect /\ new[i].sequence = next + i - 1
  <2>1. pulled[i] \in [targeted : BOOLEAN, valid : BOOLEAN]
    <3>1. Len(pulled) \in Nat /\ i \in 1..Len(pulled)
      BY <1>2
    <3> QED BY <1>2, <3>1, MemberOfSeq
  <2>2. pulled[i].targeted \in BOOLEAN
    BY <2>1
  <2>3. next + i - 1 \in Nat \ {0}
    BY <1>3
  <2>4. new[i] = Stamp(s, next + i - 1, pulled[i].targeted)
    OBVIOUS
  <2> QED BY <2>2, <2>3, <2>4, StampIsEffect
<1>5. new \in Seq(Effect) /\ Len(new) = n
  <2>1. new \in [1..n -> Effect]
    BY <1>4
  <2> HIDE DEF new
  <2> QED BY <1>3, <2>1
<1> HIDE DEF new
<1>6. stamped \in Seq(Effect)
  BY <1>3, <1>5
<1>7. Numbered(old, next)
  BY DEF old, next
<1>8. Numbered(stamped, next + n) /\ HandedBefore(stamped, <<>>, next + n)
  BY <1>3, <1>4, <1>5, <1>7, StampedBehind
<1> HIDE DEF stamped
<1>9. Numbered(<<>>, next + n) /\ HandedBefore(<<>>, stamped, next + n)
  BY DEF Numbered, HandedBefore
<1>10. Queues'
  <2>1. nextSequence' \in [Sessions -> Nat \ {0}]
    BY <1>1, <1>3 DEF Queues, next
  <2>2. effects' \in [Sessions -> Seq(Effect)] /\ handed' \in [Sessions -> Seq(Effect)]
    <3>1. <<>> \in Seq(Effect)
      OBVIOUS
    <3>2. effects \in [Sessions -> Seq(Effect)] /\ handed \in [Sessions -> Seq(Effect)]
      BY DEF Queues
    <3>3. CASE n = Len(pulled)
      BY <1>1, <1>6, <3>1, <3>2, <3>3
    <3>4. CASE n # Len(pulled)
      BY <1>1, <1>6, <3>1, <3>2, <3>4
    <3> QED BY <3>3, <3>4
  <2>3. luaEffects' \in [Sessions -> Seq([targeted : BOOLEAN, valid : BOOLEAN])]
    BY <1>1 DEF Queues, NoEffects
  <2> QED BY <1>1, <2>1, <2>2, <2>3 DEF Queues
<1>11. ASSUME NEW t \in Sessions
       PROVE  /\ Numbered(effects'[t], nextSequence'[t])
              /\ HandedBefore(handed'[t], effects'[t], nextSequence'[t])
  <2>1. CASE t = s
    <3>1. nextSequence'[s] = next + n
      BY <1>1 DEF Queues, next
    <3>2. \/ handed'[s] = stamped /\ effects'[s] = <<>>
          \/ handed'[s] = <<>> /\ effects'[s] = stamped
      BY <1>1 DEF Queues
    <3> QED BY <1>8, <1>9, <2>1, <3>1, <3>2
  <2>2. CASE t # s
    <3>1. effects'[t] = effects[t] /\ handed'[t] = handed[t] /\ nextSequence'[t] = nextSequence[t]
      BY <1>1, <2>2 DEF Queues
    <3> QED BY <3>1
  <2> QED BY <2>1, <2>2
<1> QED BY <1>10, <1>11

LEMMA CloseKeepsEffectInv ==
    ASSUME NEW s \in Sessions, EffectInv, Close(s)
    PROVE  EffectInv'
<1> USE DEF EffectInv
<1>1. /\ luaEffects' = [luaEffects EXCEPT ![s] = NoEffects]
      /\ handed' = [handed EXCEPT ![s] = <<>>]
      /\ UNCHANGED <<start, effects, nextSequence>>
  BY DEF Close
<1>2. Queues'
  BY <1>1 DEF Queues, NoEffects
<1>3. ASSUME NEW t \in Sessions
      PROVE  /\ Numbered(effects'[t], nextSequence'[t])
             /\ HandedBefore(handed'[t], effects'[t], nextSequence'[t])
  <2>1. handed'[t] \in {handed[t], <<>>} /\ HandedBefore(<<>>, effects[t], nextSequence[t])
    BY <1>1 DEF Queues, HandedBefore
  <2> QED BY <1>1, <2>1
<1> QED BY <1>2, <1>3

\* The steps that leave the queues of the session object alone.
LEMMA OthersKeepEffectInv ==
    ASSUME EffectInv, Queues', UNCHANGED <<effects, handed, nextSequence>>
    PROVE  EffectInv'
<1> QED BY DEF EffectInv

LEMMA NextKeepsEffectInv == EffectInv /\ [Next]_vars => EffectInv'
<1> SUFFICES ASSUME EffectInv, [Next]_vars PROVE EffectInv'
  OBVIOUS
<1> USE DEF EffectInv
<1>1. CASE UNCHANGED <<start, effectVars>>
  BY <1>1, OthersKeepEffectInv DEF effectVars, Queues
<1>2. CASE Next
  <2>1. PICK s \in Sessions : Work(s) \/ Call(s)
    BY <1>2 DEF Next
  <2>2. CASE RequestStart(s)
    BY <1>1, <2>2 DEF RequestStart
  <2>3. CASE RefuseInputs(s)
    BY <1>1, <2>3 DEF RefuseInputs
  <2>4. CASE CountVm(s)
    BY <1>1, <2>4 DEF CountVm
  <2>5. CASE GiveUpVm(s)
    BY <1>1, <2>5 DEF GiveUpVm
  <2>6. CASE CreateVm(s)
    <3>1. PICK form \in Forms, graph \in Graphs :
            start' = [start EXCEPT ![s] =
                        [form |-> form, graph |-> graph, number |-> @.number + 1]]
      BY <2>6 DEF CreateVm
    <3>2. UNCHANGED effectVars
      BY <2>6 DEF CreateVm
    <3>3. Queues'
      BY <3>1, <3>2 DEF Queues, effectVars
    <3> QED BY <3>2, <3>3, OthersKeepEffectInv DEF effectVars
  <2>7. CASE Open(s)
    BY <1>1, <2>7 DEF Open
  <2>8. CASE LoadGraph(s)
    BY <1>1, <2>8 DEF LoadGraph
  <2>9. CASE Execute(s)
    BY <1>1, <2>9 DEF Execute
  <2>10. CASE RunHook(s)
    BY <1>1, <2>10 DEF RunHook
  <2>11. CASE Seal(s)
    BY <1>1, <2>11 DEF Seal
  <2>12. CASE Compose(s)
    BY <1>1, <2>12 DEF Compose
  <2>13. CASE Decode(s)
    BY <1>1, <2>13 DEF Decode
  <2>14. CASE Verify(s)
    BY <1>1, <2>14 DEF Verify
  <2>15. CASE CheckTree(s)
    BY <1>1, <2>15 DEF CheckTree
  <2>16. CASE AssignState(s)
    BY <1>1, <2>16 DEF AssignState
  <2>17. CASE Callback(s)
    BY <1>1, <2>17 DEF Callback
  <2>18. CASE RunTeardownHook(s)
    BY <1>1, <2>18 DEF RunTeardownHook
  <2>19. CASE EndTeardown(s)
    BY <1>1, <2>19 DEF EndTeardown
  <2>20. CASE Close(s)
    BY <2>20, CloseKeepsEffectInv
  <2>21. CASE Stop(s)
    BY <1>1, <2>21 DEF Stop
  <2>22. CASE PublishFromLua(s)
    <3>1. PICK targeted \in BOOLEAN, valid \in BOOLEAN :
            luaEffects' = [luaEffects EXCEPT ![s] =
                             Append(@, [targeted |-> targeted, valid |-> valid])]
      BY <2>22 DEF PublishFromLua
    <3>2. UNCHANGED <<start, effects, handed, nextSequence>>
      BY <2>22 DEF PublishFromLua
    <3>3. Append(luaEffects[s], [targeted |-> targeted, valid |-> valid])
            \in Seq([targeted : BOOLEAN, valid : BOOLEAN])
      BY DEF Queues
    <3>4. Queues'
      BY <3>1, <3>2, <3>3 DEF Queues
    <3> QED BY <3>2, <3>4, OthersKeepEffectInv
  <2>23. CASE PublishHostLocalEffect(s)
    BY <2>23, PublishHostLocalKeepsEffectInv
  <2>24. CASE TakePendingEffects(s)
    BY <2>24, TakeKeepsEffectInv
  <2> QED BY <2>1, <2>2, <2>3, <2>4, <2>5, <2>6, <2>7, <2>8, <2>9, <2>10, <2>11, <2>12,
             <2>13, <2>14, <2>15, <2>16, <2>17, <2>18, <2>19, <2>20, <2>21, <2>22, <2>23,
             <2>24 DEF Work, Call
<1>3. CASE UNCHANGED vars
  BY <1>1, <1>3 DEF vars
<1> QED BY <1>2, <1>3

(***************************************************************************)
(* No effect is lost, numbered twice or handed over after a later one,     *)
(* whether it comes from the VM or from the host, and although a pull with *)
(* a malformed effect keeps what it stamped for the next one               *)
(* (StampAndEnqueueEffect, CallTakePendingEffects).                        *)
(***************************************************************************)
THEOREM EffectsInOrderAlways == Spec => []EffectsInOrder
<1>1. Init => EffectInv
  <2> SUFFICES ASSUME Init PROVE EffectInv
    OBVIOUS
  <2>1. Queues
    BY DEF Init, Queues, NoStart, NoEffects
  <2>2. \A s \in Sessions : effects[s] = <<>> /\ handed[s] = <<>>
    BY DEF Init, NoEffects
  <2> QED BY <2>1, <2>2 DEF EffectInv, Numbered, HandedBefore
<1>2. EffectInv => EffectsInOrder
  <2> SUFFICES ASSUME EffectInv, NEW s \in Sessions
               PROVE  /\ Numbered(effects[s], nextSequence[s])
                      /\ \A i \in DOMAIN effects[s], j \in DOMAIN handed[s] :
                            handed[s][j].sequence < effects[s][i].sequence
    BY DEF EffectsInOrder, Numbered
  <2>1. Numbered(effects[s], nextSequence[s])
    BY DEF EffectInv
  <2>2. ASSUME NEW i \in DOMAIN effects[s], NEW j \in DOMAIN handed[s]
        PROVE  handed[s][j].sequence < effects[s][i].sequence
    <3>1. /\ effects[s] \in Seq(Effect) /\ handed[s] \in Seq(Effect)
          /\ nextSequence[s] \in Nat
      BY DEF EffectInv, Queues
    <3>2. effects[s][i].sequence = nextSequence[s] - Len(effects[s]) + i - 1
      BY <2>1 DEF Numbered
    <3>3. handed[s][j].sequence < nextSequence[s] - Len(effects[s])
      BY DEF EffectInv, HandedBefore
    <3>4. handed[s][j] \in Effect /\ i \in 1..Len(effects[s])
      BY <3>1
    <3>5. handed[s][j].sequence \in Nat
      BY <3>4 DEF Effect
    <3>6. nextSequence[s] - Len(effects[s]) \in Int
      BY <3>1
    <3> QED BY <3>2, <3>3, <3>4, <3>5, <3>6
  <2> QED BY <2>1, <2>2
<1> QED BY <1>1, <1>2, NextKeepsEffectInv, PTL DEF Spec

-----------------------------------------------------------------------------
(***************************************************************************)
(* The search of LoadModuleGraph: what a module needs.                     *)
(***************************************************************************)
LEMMA AddNeedType ==
    AddNeed \in [Modules -> [Seq(Modules) -> Seq(Modules)]]
<1>1. ASSUME NEW n \in Modules, NEW all \in Seq(Modules)
      PROVE  (IF n \in ToSet(all) THEN all ELSE Append(all, n)) \in Seq(Modules)
  BY ToSetOfAppend
<1> QED BY <1>1 DEF AddNeed

Firsts(seq, i) == {seq[j] : j \in 1 .. i}

LEMMA AllAdded ==
    ASSUME NEW needs \in Seq(Modules), NEW all \in Seq(Modules)
    PROVE  /\ Through(AddNeed, needs, all) \in Seq(Modules)
           /\ ToSet(Through(AddNeed, needs, all)) = ToSet(all) \cup ToSet(needs)
<1> DEFINE N == Len(needs)
           P == [i \in 0 .. N |->
                   {v \in Seq(Modules) : ToSet(v) = ToSet(all) \cup Firsts(needs, i)}]
<1>1. N \in Nat /\ ToSet(needs) = Firsts(needs, N)
  BY DEF ToSet, Firsts
<1>2. all \in P[0]
  BY <1>1 DEF Firsts
<1>3. ASSUME NEW i \in 1 .. N, NEW v \in Seq(Modules), v \in P[i - 1]
      PROVE  AddNeed[needs[i]][v] \in P[i]
  <2>1. needs[i] \in Modules /\ i - 1 \in 0 .. N /\ i \in 0 .. N
    BY <1>1
  <2>2. AddNeed[needs[i]][v] = IF needs[i] \in ToSet(v) THEN v ELSE Append(v, needs[i])
    BY <2>1 DEF AddNeed
  <2>3. Firsts(needs, i) = Firsts(needs, i - 1) \cup {needs[i]}
    BY <1>1 DEF Firsts
  <2>4. ToSet(v) = ToSet(all) \cup Firsts(needs, i - 1)
    BY <1>3, <2>1
  <2>5. AddNeed[needs[i]][v] \in Seq(Modules)
        /\ ToSet(AddNeed[needs[i]][v]) = ToSet(v) \cup {needs[i]}
    BY <2>1, <2>2, ToSetOfAppend
  <2> QED BY <2>1, <2>3, <2>4, <2>5
<1>4. Through(AddNeed, needs, all) \in Seq(Modules) \cap P[N]
  <2>1. \A i \in 1 .. N : \A v \in Seq(Modules) :
            v \in P[i - 1] => AddNeed[needs[i]][v] \in P[i]
    BY <1>3
  <2> HIDE DEF P
  <2> QED BY <1>1, <1>2, <2>1, AddNeedType, ThroughKeeps
<1>5. N \in 0 .. N
  BY <1>1
<1> QED BY <1>1, <1>4, <1>5

\* What the first i declarations need for m.
NeededByFirst(declared, m, i) ==
    UNION {ToSet(declared[j].needs) : j \in {k \in 1 .. i : declared[k].module = m}}

LEMMA NeedsFacts ==
    ASSUME NEW declared \in Seq(Declaration), NEW m \in Modules
    PROVE  /\ Needs(declared, m) \in Seq(Modules)
           /\ ToSet(Needs(declared, m)) = NeededBy(declared, m)
<1> DEFINE N == Len(declared)
           P == [i \in 0 .. N |->
                   {v \in Seq(Modules) : ToSet(v) = NeededByFirst(declared, m, i)}]
           step == AddNeedsOf(m)
<1>1. N \in Nat /\ \A i \in 1 .. N : declared[i] \in Declaration
  OBVIOUS
<1>2. \A i \in 1 .. N : declared[i].module \in Modules /\ declared[i].needs \in Seq(Modules)
  BY <1>1 DEF Declaration
<1>3. step \in [Declaration -> [Seq(Modules) -> Seq(Modules)]]
  <2>1. ASSUME NEW d \in Declaration, NEW all \in Seq(Modules)
        PROVE  (IF d.module = m THEN Through(AddNeed, d.needs, all) ELSE all) \in Seq(Modules)
    BY AllAdded DEF Declaration
  <2> QED BY <2>1 DEF AddNeedsOf
<1>4. <<>> \in P[0]
  BY <1>1 DEF NeededByFirst, ToSet
<1>5. ASSUME NEW i \in 1 .. N, NEW v \in Seq(Modules), v \in P[i - 1]
      PROVE  step[declared[i]][v] \in P[i]
  <2>1. declared[i] \in Declaration /\ i - 1 \in 0 .. N /\ i \in 0 .. N /\ i \in Nat
    BY <1>1
  <2>2. step[declared[i]][v] =
          IF declared[i].module = m THEN Through(AddNeed, declared[i].needs, v) ELSE v
    BY <2>1 DEF AddNeedsOf
  <2>3. ToSet(v) = NeededByFirst(declared, m, i - 1)
    BY <1>5, <2>1
  <2>4. NeededByFirst(declared, m, i) =
          NeededByFirst(declared, m, i - 1) \cup
            (IF declared[i].module = m THEN ToSet(declared[i].needs) ELSE {})
    BY <2>1 DEF NeededByFirst
  <2>5. /\ step[declared[i]][v] \in Seq(Modules)
        /\ ToSet(step[declared[i]][v]) = ToSet(v) \cup
            (IF declared[i].module = m THEN ToSet(declared[i].needs) ELSE {})
    BY <1>2, <2>2, AllAdded
  <2> QED BY <2>1, <2>3, <2>4, <2>5
<1>6. Needs(declared, m) \in Seq(Modules) \cap P[N]
  <2>1. \A i \in 1 .. N : \A v \in Seq(Modules) :
            v \in P[i - 1] => step[declared[i]][v] \in P[i]
    BY <1>5
  <2>2. <<>> \in Seq(Modules)
    OBVIOUS
  <2> HIDE DEF P, step
  <2>3. Through(step, declared, <<>>) \in Seq(Modules) \cap P[N]
    BY <1>1, <1>3, <1>4, <2>1, <2>2, ThroughKeeps
  <2> QED BY <2>3 DEF Needs, step
<1>7. NeededByFirst(declared, m, N) = NeededBy(declared, m)
  <2>1. ToSet(declared) = {declared[j] : j \in 1 .. N}
    BY DEF ToSet
  <2> QED BY <1>1, <2>1 DEF NeededByFirst, NeededBy
<1> QED BY <1>1, <1>6, <1>7

(***************************************************************************)
(* The visit of a module, to every depth.                                  *)
(***************************************************************************)
Visitors == [Modules -> [VisitState -> VisitState]]

LEMMA MarkedAndAppended ==
    ASSUME NEW A, NEW B, NEW v \in [mark : A, order : B, cycle : BOOLEAN],
           NEW m, NEW x, NEW y, [v.mark EXCEPT ![m] = x] \in A,
           [v.mark EXCEPT ![m] = y] \in A, Append(v.order, m) \in B
    PROVE  /\ [v EXCEPT !.cycle = TRUE] \in [mark : A, order : B, cycle : BOOLEAN]
           /\ [v EXCEPT !.mark[m] = x] \in [mark : A, order : B, cycle : BOOLEAN]
           /\ [v EXCEPT !.mark[m] = y, !.order = Append(@, m)]
                \in [mark : A, order : B, cycle : BOOLEAN]
  OBVIOUS

LEMMA VisitByType ==
    ASSUME NEW declared \in Seq(Declaration), NEW F, F \in Visitors
    PROVE  VisitBy(declared, F) \in Visitors
<1>1. ASSUME NEW m \in Modules, NEW v \in VisitState
      PROVE  /\ [v EXCEPT !.cycle = TRUE] \in VisitState
             /\ [v EXCEPT !.mark[m] = Visiting] \in VisitState
             /\ [v EXCEPT !.mark[m] = Visited, !.order = Append(@, m)] \in VisitState
  <2>1. [v.mark EXCEPT ![m] = Visiting] \in [Modules -> {Unvisited, Visiting, Visited}]
        /\ [v.mark EXCEPT ![m] = Visited] \in [Modules -> {Unvisited, Visiting, Visited}]
        /\ Append(v.order, m) \in Seq(Modules)
    BY DEF VisitState
  <2> QED BY <2>1, MarkedAndAppended DEF VisitState
<1>2. ASSUME NEW m \in Modules, NEW v \in VisitState
      PROVE  Through(F, Needs(declared, m), v) \in VisitState
  <2> DEFINE P == [i \in 0 .. Len(Needs(declared, m)) |-> VisitState]
             seq == Needs(declared, m)
  <2>1. seq \in Seq(Modules) /\ Len(seq) \in Nat
    BY NeedsFacts
  <2>2. \A i \in 1 .. Len(seq) : seq[i] \in Modules /\ i - 1 \in 0 .. Len(seq) /\ i \in 0 .. Len(seq)
    BY <2>1
  <2>3. \A i \in 0 .. Len(seq) : P[i] = VisitState
    OBVIOUS
  <2> HIDE DEF seq, P
  <2>4. \A i \in 1 .. Len(seq) : \A w \in VisitState :
            w \in P[i - 1] => F[seq[i]][w] \in P[i]
    BY <2>1, <2>2, <2>3 DEF Visitors
  <2>5. v \in P[0]
    BY <2>1, <2>3
  <2>6. F \in [Modules -> [VisitState -> VisitState]]
    BY DEF Visitors
  <2>7. Through(F, seq, v) \in VisitState \cap P[Len(seq)]
    BY <2>1, <2>4, <2>5, <2>6, ThroughKeeps
  <2> QED BY <2>7 DEF seq
<1> DEFINE result(m, v) ==
        IF v.cycle \/ v.mark[m] = Visited THEN v
        ELSE IF v.mark[m] = Visiting THEN [v EXCEPT !.cycle = TRUE]
        ELSE LET after == Through(F, Needs(declared, m), [v EXCEPT !.mark[m] = Visiting])
             IN  IF after.cycle THEN after
                 ELSE [after EXCEPT !.mark[m] = Visited, !.order = Append(@, m)]
<1>3. ASSUME NEW m \in Modules, NEW v \in VisitState
      PROVE  result(m, v) \in VisitState
  <2> DEFINE after == Through(F, Needs(declared, m), [v EXCEPT !.mark[m] = Visiting])
  <2>1. after \in VisitState
    BY <1>1, <1>2
  <2>2. [v EXCEPT !.cycle = TRUE] \in VisitState
        /\ [after EXCEPT !.mark[m] = Visited, !.order = Append(@, m)] \in VisitState
    <3> HIDE DEF after
    <3> QED BY <1>1, <2>1
  <2> HIDE DEF after
  <2>3. result(m, v) = IF v.cycle \/ v.mark[m] = Visited THEN v
        ELSE IF v.mark[m] = Visiting THEN [v EXCEPT !.cycle = TRUE]
        ELSE IF after.cycle THEN after
                 ELSE [after EXCEPT !.mark[m] = Visited, !.order = Append(@, m)]
    BY DEF after
  <2> QED BY <2>1, <2>2, <2>3
<1>4. VisitBy(declared, F) = [m \in Modules |-> [v \in VisitState |-> result(m, v)]]
  BY DEF VisitBy
<1> HIDE DEF result
<1> QED BY <1>3, <1>4 DEF Visitors

LEMMA VisitsSteps ==
    ASSUME NEW declared \in Seq(Declaration)
    PROVE  /\ MaxDepth \in Nat
           /\ Visits(declared)[0] = [m \in Modules |-> [v \in VisitState |-> v]]
           /\ \A n \in 0 .. MaxDepth : Visits(declared)[n] \in Visitors
           /\ \A n \in 1 .. MaxDepth :
                  Visits(declared)[n] = VisitBy(declared, Visits(declared)[n - 1])
<1> DEFINE N == MaxDepth
           a == [m \in Modules |-> [v \in VisitState |-> v]]
           g == [i \in 1 .. N |-> [F \in Visitors |-> VisitBy(declared, F)]]
           right(f) == f = [n \in 0 .. N |-> IF n = 0 THEN a ELSE VisitBy(declared, f[n - 1])]
           all == CHOOSE f : right(f)
<1>1. N \in Nat
  BY ModuleGraphAssumption, FS_CardinalityType DEF MaxDepth
<1>2. a \in Visitors
  BY DEF Visitors
<1>3. g \in [1 .. N -> [Visitors -> Visitors]]
  BY VisitByType
<1>4. ASSUME NEW F \in Visitors, NEW i \in 1 .. N PROVE g[i][F] = VisitBy(declared, F)
  OBVIOUS
<1>5. Visits(declared) = all
  BY DEF Visits
<1>6. ASSUME NEW f, Steps(f, Visitors, N, a, g) PROVE right(f)
  <2>1. /\ f \in [0 .. N -> Visitors] /\ f[0] = a
        /\ \A i \in 1 .. N : f[i] = g[i][f[i - 1]]
    BY <1>6 DEF Steps
  <2> HIDE DEF a, g
  <2>2. \A i \in 1 .. N : f[i] = VisitBy(declared, f[i - 1])
    BY <1>1, <1>4, <2>1
  <2> QED BY <1>1, <2>1, <2>2
<1>7. \E f : right(f)
  <2> HIDE DEF N, a, g, right
  <2>1. PICK f : Steps(f, Visitors, N, a, g)
    BY <1>1, <1>2, <1>3, StepByStep
  <2> QED BY <1>6, <2>1
<1>8. right(all)
  <2> HIDE DEF right
  <2> QED BY <1>7
<1>9. all[0] = a /\ \A n \in 1 .. N : all[n] = VisitBy(declared, all[n - 1])
  <2> HIDE DEF all
  <2> QED BY <1>1, <1>8
<1> DEFINE S == {n \in 0 .. N : all[n] \in Visitors}
<1>10. \A i \in 0 .. N : i \in S
  <2> HIDE DEF all, a, g
  <2>1. 0 \in S
    BY <1>1, <1>2, <1>9
  <2>2. \A i \in 1 .. N : i - 1 \in S => i \in S
    BY <1>1, <1>9, VisitByType
  <2> HIDE DEF S
  <2> QED BY <1>1, <2>1, <2>2, Induction
<1> QED BY <1>1, <1>5, <1>9, <1>10

(***************************************************************************)
(* What a visit leaves behind.                                             *)
(***************************************************************************)
Marked(v, x) == {m \in Modules : v.mark[m] = x}

\* Every module in the order was visited, is there once, what it needs before it.
WellOrdered(declared, q) ==
    /\ \A i, j \in DOMAIN q : q[i] = q[j] => i = j
    /\ \A i \in DOMAIN q : \A m \in NeededBy(declared, q[i]) :
          \E j \in DOMAIN q : j < i /\ q[j] = m

GoodVisit(declared, v) ==
    ToSet(v.order) = Marked(v, Visited) /\ WellOrdered(declared, v.order)

\* The modules being visited lead to m: each needs another of them, or m.
PathTo(declared, v, m) ==
    /\ Marked(v, Visiting) \subseteq Declared(declared)
    /\ \A x \in Marked(v, Visiting) :
          NeededBy(declared, x) \cap (Marked(v, Visiting) \cup {m}) # {}

\* With n more on the path, it is longer than there are modules.
RoomFor(v, n) == Cardinality(Marked(v, Visiting)) + n > Cardinality(Modules)

Closed(declared, S) == \A m \in S : NeededBy(declared, m) \subseteq S

\* From v the search came to w: it found a cycle, or it visited done and
\* nothing that is not reached from the modules in from.
Reached(declared, v, w, done, from) ==
    IF w.cycle THEN ~Acyclic(declared)
    ELSE /\ GoodVisit(declared, w)
         /\ Marked(w, Visiting) = Marked(v, Visiting)
         /\ Marked(v, Visited) \cup done \subseteq Marked(w, Visited)
         /\ \A S \in SUBSET Modules :
                Closed(declared, S) /\ from \subseteq S
                    => Marked(w, Visited) \subseteq Marked(v, Visited) \cup S

\* F is right for every visit that has n more modules to go before the path is
\* longer than there are modules.
RightVisitor(declared, F, n) ==
    /\ \A m \in Modules : \A v \in VisitState : v.cycle => F[m][v] = v
    /\ \A m \in Declared(declared) : \A v \in VisitState :
          (~v.cycle /\ GoodVisit(declared, v) /\ PathTo(declared, v, m) /\ RoomFor(v, n))
              => Reached(declared, v, F[m][v], {m}, {m})

NeedsDeclared(declared) ==
    \A m \in Declared(declared) : NeededBy(declared, m) \subseteq Declared(declared)

LEMMA DeclaredAreModules ==
    ASSUME NEW declared \in Seq(Declaration)
    PROVE  /\ Declared(declared) \subseteq Modules
           /\ \A m : NeededBy(declared, m) \subseteq Modules
<1>1. \A d \in ToSet(declared) : d \in Declaration
  BY DEF ToSet
<1>2. \A d \in ToSet(declared) : d.module \in Modules /\ ToSet(d.needs) \subseteq Modules
  BY <1>1 DEF Declaration, ToSet
<1> QED BY <1>2 DEF Declared, NeededBy

LEMMA ReachedTogether ==
    ASSUME NEW declared, NEW v, NEW u, NEW w, NEW done, NEW more, NEW from, NEW next,
           Reached(declared, v, u, done, from), ~u.cycle,
           Reached(declared, u, w, more, next),
           \A S \in SUBSET Modules : Closed(declared, S) /\ from \subseteq S => next \subseteq S
    PROVE  Reached(declared, v, w, done \cup more, from)
<1>1. CASE w.cycle
  BY <1>1 DEF Reached
<1>2. CASE ~w.cycle
  <2>1. /\ GoodVisit(declared, w)
        /\ Marked(w, Visiting) = Marked(v, Visiting)
        /\ Marked(v, Visited) \cup (done \cup more) \subseteq Marked(w, Visited)
    BY <1>2 DEF Reached
  <2>2. ASSUME NEW S \in SUBSET Modules, Closed(declared, S), from \subseteq S
        PROVE  Marked(w, Visited) \subseteq Marked(v, Visited) \cup S
    BY <1>2, <2>2 DEF Reached
  <2> QED BY <1>2, <2>1, <2>2 DEF Reached
<1> QED BY <1>1, <1>2

\* Nothing done yet.
LEMMA ReachedAtOnce ==
    ASSUME NEW declared, NEW v, NEW from, ~v.cycle, GoodVisit(declared, v)
    PROVE  Reached(declared, v, v, {}, from)
  BY DEF Reached

\* A path that has come back to one of its modules is a cycle.
LEMMA PathIsCycle ==
    ASSUME NEW declared \in Seq(Declaration), NEW m \in Declared(declared),
           NEW v \in VisitState, v.mark[m] = Visiting, PathTo(declared, v, m)
    PROVE  ~Acyclic(declared)
<1>1. m \in Marked(v, Visiting)
  BY DeclaredAreModules DEF Marked
<1>2. Marked(v, Visiting) \in SUBSET Declared(declared) /\ Marked(v, Visiting) # {}
  BY <1>1 DEF PathTo
<1>3. Marked(v, Visiting) \cup {m} = Marked(v, Visiting)
  BY <1>1
<1>4. \A x \in Marked(v, Visiting) : NeededBy(declared, x) \cap Marked(v, Visiting) # {}
  BY <1>3 DEF PathTo
<1> QED BY <1>2, <1>4 DEF Acyclic

\* The module that is about to be visited is put on the path.
LEMMA OnThePath ==
    ASSUME NEW declared \in Seq(Declaration), NEW m \in Declared(declared),
           NEW v \in VisitState, ~v.cycle, v.mark[m] = Unvisited,
           GoodVisit(declared, v), PathTo(declared, v, m),
           NEW n \in Nat, RoomFor(v, n + 1),
           NEW u, u = [v EXCEPT !.mark[m] = Visiting]
    PROVE  /\ u \in VisitState /\ ~u.cycle
           /\ Marked(u, Visiting) = Marked(v, Visiting) \cup {m}
           /\ m \notin Marked(v, Visiting)
           /\ Marked(u, Visited) = Marked(v, Visited)
           /\ GoodVisit(declared, u)
           /\ \A x \in NeededBy(declared, m) : PathTo(declared, u, x)
           /\ RoomFor(u, n)
<1>1. m \in Modules
  BY DeclaredAreModules
<1>2. u \in VisitState
  <2>1. [v.mark EXCEPT ![m] = Visiting] \in [Modules -> {Unvisited, Visiting, Visited}]
        /\ Append(v.order, m) \in Seq(Modules)
    BY <1>1 DEF VisitState
  <2> QED BY <2>1, MarkedAndAppended DEF VisitState
<1>3. u.order = v.order /\ u.cycle = v.cycle /\ u.mark = [v.mark EXCEPT ![m] = Visiting]
  BY DEF VisitState
<1>4. v.mark \in [Modules -> {Unvisited, Visiting, Visited}]
  BY DEF VisitState
<1>5. \A x \in Modules : u.mark[x] = IF x = m THEN Visiting ELSE v.mark[x]
  BY <1>3, <1>4
<1>6. /\ Marked(u, Visiting) = Marked(v, Visiting) \cup {m}
      /\ m \notin Marked(v, Visiting)
      /\ Marked(u, Visited) = Marked(v, Visited)
  BY <1>1, <1>5 DEF Marked, Visiting, Visited, Unvisited
<1>7. GoodVisit(declared, u)
  BY <1>3, <1>6 DEF GoodVisit
<1>8. ASSUME NEW x \in NeededBy(declared, m) PROVE PathTo(declared, u, x)
  BY <1>6 DEF PathTo
<1>9. RoomFor(u, n)
  <2>1. IsFiniteSet(Marked(v, Visiting))
    <3>1. Marked(v, Visiting) \subseteq Modules
      BY DEF Marked
    <3> QED BY <3>1, ModuleGraphAssumption, FS_Subset
  <2>2. Cardinality(Marked(u, Visiting)) = Cardinality(Marked(v, Visiting)) + 1
    BY <1>6, <2>1, FS_AddElement
  <2>3. Cardinality(Marked(v, Visiting)) \in Nat /\ Cardinality(Modules) \in Nat
    BY <2>1, ModuleGraphAssumption, FS_CardinalityType
  <2> QED BY <2>2, <2>3 DEF RoomFor
<1> QED BY <1>2, <1>3, <1>6, <1>7, <1>8, <1>9

\* What the module needs is visited, one after the other.
LEMMA NeedsVisited ==
    ASSUME NEW declared \in Seq(Declaration), NeedsDeclared(declared),
           NEW m \in Declared(declared), NEW F, F \in Visitors, NEW n \in Nat,
           RightVisitor(declared, F, n),
           NEW u \in VisitState, ~u.cycle, GoodVisit(declared, u), RoomFor(u, n),
           \A x \in NeededBy(declared, m) : PathTo(declared, u, x),
           NEW w, w = Through(F, Needs(declared, m), u)
    PROVE  w \in VisitState /\ Reached(declared, u, w, NeededBy(declared, m), {m})
<1> DEFINE seq == Needs(declared, m)
           N == Len(seq)
           P == [i \in 0 .. N |->
                   {v \in VisitState : Reached(declared, u, v, Firsts(seq, i), {m})}]
<1>1. /\ seq \in Seq(Modules) /\ N \in Nat /\ m \in Modules
      /\ Firsts(seq, N) = NeededBy(declared, m)
  BY NeedsFacts, DeclaredAreModules DEF ToSet, Firsts
<1>2. u \in P[0]
  <2>1. Firsts(seq, 0) = {}
    BY DEF Firsts
  <2>2. Reached(declared, u, u, Firsts(seq, 0), {m})
    BY <2>1, ReachedAtOnce
  <2>3. 0 \in 0 .. N
    BY <1>1
  <2> QED BY <2>2, <2>3
<1>3. ASSUME NEW i \in 1 .. N, NEW v \in VisitState, v \in P[i - 1]
      PROVE  F[seq[i]][v] \in P[i]
  <2>1. i - 1 \in 0 .. N /\ i \in 0 .. N /\ seq[i] \in NeededBy(declared, m)
    BY <1>1 DEF Firsts
  <2>2. Reached(declared, u, v, Firsts(seq, i - 1), {m})
    BY <1>3, <2>1
  <2>3. seq[i] \in Declared(declared) /\ seq[i] \in Modules
    BY <2>1, DeclaredAreModules DEF NeedsDeclared
  <2>4. F[seq[i]][v] \in VisitState
    BY <2>3 DEF Visitors
  <2>5. Firsts(seq, i) = Firsts(seq, i - 1) \cup {seq[i]}
    BY <1>1 DEF Firsts
  <2>6. CASE v.cycle
    <3>1. F[seq[i]][v] = v
      BY <2>3, <2>6 DEF RightVisitor
    <3>2. Reached(declared, u, v, Firsts(seq, i), {m})
      BY <2>2, <2>6 DEF Reached
    <3> QED BY <2>1, <3>1, <3>2
  <2>7. CASE ~v.cycle
    <3>1. GoodVisit(declared, v) /\ Marked(v, Visiting) = Marked(u, Visiting)
      BY <2>2, <2>7 DEF Reached
    <3>2. PathTo(declared, v, seq[i]) /\ RoomFor(v, n)
      BY <2>1, <3>1 DEF PathTo, RoomFor
    <3>3. Reached(declared, v, F[seq[i]][v], {seq[i]}, {seq[i]})
      BY <2>3, <2>7, <3>1, <3>2 DEF RightVisitor
    <3>4. \A S \in SUBSET Modules : Closed(declared, S) /\ {m} \subseteq S => {seq[i]} \subseteq S
      BY <2>1 DEF Closed
    <3>5. Reached(declared, u, F[seq[i]][v], Firsts(seq, i - 1) \cup {seq[i]}, {m})
      BY <2>2, <2>7, <3>3, <3>4, ReachedTogether
    <3> QED BY <2>1, <2>4, <2>5, <3>5
  <2> QED BY <2>6, <2>7
<1>4. w \in VisitState \cap P[N]
  <2>1. \A i \in 1 .. N : \A v \in VisitState :
            v \in P[i - 1] => F[seq[i]][v] \in P[i]
    BY <1>3
  <2>2. F \in [Modules -> [VisitState -> VisitState]]
    BY DEF Visitors
  <2> HIDE DEF P
  <2> QED BY <1>1, <1>2, <2>1, <2>2, ThroughKeeps
<1> QED BY <1>1, <1>4

\* The module is taken from the path and put at the end of the order.
LEMMA OffThePath ==
    ASSUME NEW declared \in Seq(Declaration), NEW m \in Declared(declared),
           NEW v \in VisitState, NEW u \in VisitState, NEW w \in VisitState,
           Marked(u, Visiting) = Marked(v, Visiting) \cup {m},
           m \notin Marked(v, Visiting),
           Marked(u, Visited) = Marked(v, Visited),
           ~w.cycle, Reached(declared, u, w, NeededBy(declared, m), {m}),
           NEW r, r = [w EXCEPT !.mark[m] = Visited, !.order = Append(@, m)]
    PROVE  Reached(declared, v, r, {m}, {m})
<1>1. m \in Modules
  BY DeclaredAreModules
<1>2. /\ w.mark \in [Modules -> {Unvisited, Visiting, Visited}]
      /\ w.order \in Seq(Modules)
  BY DEF VisitState
<1>3. /\ r.order = Append(w.order, m) /\ r.cycle = w.cycle
      /\ \A x \in Modules : r.mark[x] = IF x = m THEN Visited ELSE w.mark[x]
  <2>1. r.mark = [w.mark EXCEPT ![m] = Visited] /\ r.order = Append(w.order, m) /\ r.cycle = w.cycle
    BY DEF VisitState
  <2> QED BY <1>2, <2>1
<1>4. /\ GoodVisit(declared, w)
      /\ Marked(w, Visiting) = Marked(v, Visiting) \cup {m}
      /\ Marked(v, Visited) \subseteq Marked(w, Visited)
      /\ NeededBy(declared, m) \subseteq Marked(w, Visited)
      /\ \A S \in SUBSET Modules : Closed(declared, S) /\ m \in S
            => Marked(w, Visited) \subseteq Marked(v, Visited) \cup S
  BY DEF Reached
<1>5. m \notin Marked(w, Visited)
  BY <1>4 DEF Marked, Visiting, Visited
<1>6. /\ Marked(r, Visiting) = Marked(v, Visiting)
      /\ Marked(r, Visited) = Marked(w, Visited) \cup {m}
  <2>1. Marked(r, Visiting) = Marked(w, Visiting) \ {m}
    BY <1>1, <1>3 DEF Marked, Visiting, Visited
  <2>2. Marked(r, Visited) = Marked(w, Visited) \cup {m}
    BY <1>1, <1>3 DEF Marked
  <2>3. (Marked(v, Visiting) \cup {m}) \ {m} = Marked(v, Visiting)
    OBVIOUS
  <2>4. Marked(w, Visiting) \ {m} = Marked(v, Visiting)
    BY <1>4, <2>3
  <2> QED BY <2>1, <2>2, <2>4
<1>7. ToSet(r.order) = Marked(r, Visited)
  <2>1. ToSet(Append(w.order, m)) = ToSet(w.order) \cup {m}
    BY <1>1, <1>2, ToSetOfAppend
  <2>2. ToSet(w.order) = Marked(w, Visited)
    BY <1>4 DEF GoodVisit
  <2> QED BY <1>3, <1>6, <2>1, <2>2
<1>8. WellOrdered(declared, r.order)
  <2> DEFINE L == Len(w.order)
             o == w.order
             t == Append(w.order, m)
  <2>1. /\ L \in Nat /\ DOMAIN o = 1 .. L /\ DOMAIN t = 1 .. L + 1
        /\ t[L + 1] = m /\ \A i \in 1 .. L : t[i] = o[i]
    BY <1>1, <1>2
  <2>2. ToSet(o) = Marked(w, Visited) /\ WellOrdered(declared, o)
    BY <1>4 DEF GoodVisit
  <2> HIDE DEF L, o, t
  <2>3. \A i \in 1 .. L : o[i] # m
    BY <1>5, <2>1, <2>2 DEF ToSet
  <2>4. \A i, j \in 1 .. L + 1 : t[i] = t[j] => i = j
    <3>1. \A i, j \in 1 .. L : o[i] = o[j] => i = j
      BY <2>1, <2>2 DEF WellOrdered
    <3>2. \A i \in 1 .. L + 1 : i \in 1 .. L \/ i = L + 1
      BY <2>1
    <3> QED BY <2>1, <2>3, <3>1, <3>2
  <2>5. ASSUME NEW i \in 1 .. L + 1, NEW x \in NeededBy(declared, t[i])
        PROVE  \E j \in 1 .. L + 1 : j < i /\ t[j] = x
    <3>1. CASE i \in 1 .. L
      <4>1. x \in NeededBy(declared, o[i])
        BY <2>1, <2>5, <3>1
      <4>2. PICK j \in 1 .. L : j < i /\ o[j] = x
        BY <2>1, <2>2, <3>1, <4>1 DEF WellOrdered
      <4> QED BY <2>1, <4>2
    <3>2. CASE i = L + 1
      <4>1. x \in ToSet(o)
        BY <1>4, <2>1, <2>2, <2>5, <3>2
      <4>2. PICK j \in 1 .. L : o[j] = x
        BY <2>1, <4>1 DEF ToSet
      <4> QED BY <2>1, <3>2, <4>2
    <3> QED BY <2>1, <3>1, <3>2
  <2>6. r.order = t
    BY <1>3 DEF t
  <2> QED BY <2>1, <2>4, <2>5, <2>6 DEF WellOrdered
<1>9. \A S \in SUBSET Modules : Closed(declared, S) /\ {m} \subseteq S
          => Marked(r, Visited) \subseteq Marked(v, Visited) \cup S
  BY <1>4, <1>6
<1>10. Marked(v, Visited) \cup {m} \subseteq Marked(r, Visited)
  BY <1>4, <1>6
<1>11. ~r.cycle
  BY <1>3
<1> QED BY <1>6, <1>7, <1>8, <1>9, <1>10, <1>11 DEF Reached, GoodVisit

LEMMA VisitByIsRight ==
    ASSUME NEW declared \in Seq(Declaration), NeedsDeclared(declared),
           NEW F, F \in Visitors, NEW n \in Nat, RightVisitor(declared, F, n)
    PROVE  RightVisitor(declared, VisitBy(declared, F), n + 1)
<1> DEFINE entered(m, v) == [v EXCEPT !.mark[m] = Visiting]
           after(m, v) == Through(F, Needs(declared, m), entered(m, v))
           left(m, v) == [after(m, v) EXCEPT !.mark[m] = Visited, !.order = Append(@, m)]
<1>1. ASSUME NEW m \in Modules, NEW v \in VisitState
      PROVE  VisitBy(declared, F)[m][v] =
               IF v.cycle \/ v.mark[m] = Visited THEN v
               ELSE IF v.mark[m] = Visiting THEN [v EXCEPT !.cycle = TRUE]
               ELSE IF after(m, v).cycle THEN after(m, v) ELSE left(m, v)
  BY DEF VisitBy
<1> HIDE DEF entered, after, left
<1>2. ASSUME NEW m \in Modules, NEW v \in VisitState, v.cycle
      PROVE  VisitBy(declared, F)[m][v] = v
  BY <1>1, <1>2
<1>3. ASSUME NEW m \in Declared(declared), NEW v \in VisitState,
             ~v.cycle, GoodVisit(declared, v), PathTo(declared, v, m), RoomFor(v, n + 1)
      PROVE  Reached(declared, v, VisitBy(declared, F)[m][v], {m}, {m})
  <2>1. m \in Modules
    BY DeclaredAreModules
  <2>2. CASE v.mark[m] = Visited
    <3>1. VisitBy(declared, F)[m][v] = v
      BY <1>1, <2>1, <2>2
    <3>2. m \in Marked(v, Visited)
      BY <2>1, <2>2 DEF Marked
    <3> QED BY <1>3, <3>1, <3>2 DEF Reached
  <2>3. CASE v.mark[m] = Visiting
    <3>0. ~(v.cycle \/ v.mark[m] = Visited)
      BY <1>3, <2>3 DEF Visiting, Visited
    <3>1. VisitBy(declared, F)[m][v] = [v EXCEPT !.cycle = TRUE]
      BY <1>1, <2>1, <2>3, <3>0
    <3>2. VisitBy(declared, F)[m][v].cycle
      BY <3>1 DEF VisitState
    <3>3. ~Acyclic(declared)
      BY <1>3, <2>3, PathIsCycle
    <3> QED BY <3>2, <3>3 DEF Reached
  <2>4. CASE v.mark[m] = Unvisited
    <3> DEFINE u == entered(m, v)
               w == after(m, v)
               r == left(m, v)
    <3>0. ~(v.cycle \/ v.mark[m] = Visited) /\ v.mark[m] # Visiting
      BY <1>3, <2>4 DEF Visiting, Visited, Unvisited
    <3>1. VisitBy(declared, F)[m][v] = IF w.cycle THEN w ELSE r
      BY <1>1, <2>1, <3>0
    <3> HIDE DEF r, w, u
    <3>2. /\ u \in VisitState /\ ~u.cycle
          /\ Marked(u, Visiting) = Marked(v, Visiting) \cup {m}
          /\ m \notin Marked(v, Visiting)
          /\ Marked(u, Visited) = Marked(v, Visited)
          /\ GoodVisit(declared, u)
          /\ \A x \in NeededBy(declared, m) : PathTo(declared, u, x)
          /\ RoomFor(u, n)
      BY <1>3, <2>4, OnThePath DEF u, entered
    <3>3. w \in VisitState /\ Reached(declared, u, w, NeededBy(declared, m), {m})
      BY <3>2, NeedsVisited DEF w, u, after
    <3>4. CASE w.cycle
      BY <3>1, <3>3, <3>4 DEF Reached
    <3>5. CASE ~w.cycle
      <4>1. Reached(declared, v, r, {m}, {m})
        BY <3>2, <3>3, <3>5, OffThePath DEF r, w, left
      <4> QED BY <3>1, <3>5, <4>1
    <3> QED BY <3>4, <3>5
  <2>5. v.mark[m] \in {Unvisited, Visiting, Visited}
    BY <2>1 DEF VisitState
  <2> QED BY <2>2, <2>3, <2>4, <2>5
<1> QED BY <1>2, <1>3 DEF RightVisitor

LEMMA VisitsAreRight ==
    ASSUME NEW declared \in Seq(Declaration), NeedsDeclared(declared)
    PROVE  /\ VisitFrom(declared) \in Visitors
           /\ RightVisitor(declared, VisitFrom(declared), MaxDepth)
<1> DEFINE S == {n \in 0 .. MaxDepth : RightVisitor(declared, Visits(declared)[n], n)}
<1>1. MaxDepth \in Nat
  BY VisitsSteps
<1>2. 0 \in S
  <2>1. Visits(declared)[0] = [m \in Modules |-> [v \in VisitState |-> v]]
    BY VisitsSteps
  <2>2. \A v \in VisitState : ~RoomFor(v, 0)
    <3>1. ASSUME NEW v \in VisitState PROVE ~RoomFor(v, 0)
      <4>1. Marked(v, Visiting) \subseteq Modules
        BY DEF Marked
      <4>2. /\ Cardinality(Marked(v, Visiting)) <= Cardinality(Modules)
            /\ Cardinality(Marked(v, Visiting)) \in Nat /\ Cardinality(Modules) \in Nat
        BY <4>1, ModuleGraphAssumption, FS_Subset, FS_CardinalityType
      <4> QED BY <4>2 DEF RoomFor
    <3> QED BY <3>1
  <2>3. RightVisitor(declared, Visits(declared)[0], 0)
    BY <2>1, <2>2 DEF RightVisitor
  <2> QED BY <1>1, <2>3
<1>3. ASSUME NEW n \in 1 .. MaxDepth, n - 1 \in S PROVE n \in S
  <2>1. /\ n - 1 \in 0 .. MaxDepth /\ n - 1 \in Nat /\ (n - 1) + 1 = n /\ n \in 0 .. MaxDepth
        /\ RightVisitor(declared, Visits(declared)[n - 1], n - 1)
    BY <1>1, <1>3
  <2>2. /\ Visits(declared)[n - 1] \in Visitors
        /\ Visits(declared)[n] = VisitBy(declared, Visits(declared)[n - 1])
    BY <2>1, VisitsSteps
  <2>3. RightVisitor(declared, VisitBy(declared, Visits(declared)[n - 1]), (n - 1) + 1)
    BY <2>1, <2>2, VisitByIsRight
  <2> QED BY <2>1, <2>2, <2>3
<1>4. \A n \in 0 .. MaxDepth : n \in S
  <2>1. \A n \in 1 .. MaxDepth : n - 1 \in S => n \in S
    BY <1>3
  <2> HIDE DEF S
  <2> QED BY <1>1, <1>2, <2>1, Induction
<1>5. MaxDepth \in 0 .. MaxDepth
  BY <1>1
<1> QED BY <1>4, <1>5, VisitsSteps DEF VisitFrom

(***************************************************************************)
(* The whole search.                                                       *)
(***************************************************************************)
\* The modules of mods among the first i declarations.
NotByCore(declared, seq, i) ==
    {seq[j].module : j \in {k \in 1 .. i : ~ProvidedByCore(declared, seq[k].module)}}

LEMMA RootsOf ==
    ASSUME NEW declared \in Seq(Declaration)
    PROVE  Roots(declared) = {Entry} \cup NotByCore(declared, declared, Len(declared))
<1>1. Declared(declared) = {declared[j].module : j \in 1 .. Len(declared)}
  BY DEF Declared, ToSet
<1> QED BY <1>1 DEF Roots, NotByCore

LEMMA FromARoot ==
    ASSUME NEW declared \in Seq(Declaration), NeedsDeclared(declared),
           NEW m \in Declared(declared), m \in Roots(declared), NEW done,
           NEW v \in VisitState, ~v.cycle,
           Reached(declared, NothingVisited, v, done, Roots(declared)),
           NEW w, w = VisitFrom(declared)[m][v]
    PROVE  Reached(declared, NothingVisited, w, done \cup {m}, Roots(declared))
<1>1. Marked(NothingVisited, Visiting) = {}
  BY DEF Marked, NothingVisited, Visiting, Unvisited
<1>2. GoodVisit(declared, v) /\ Marked(v, Visiting) = {}
  BY <1>1 DEF Reached
<1>3. PathTo(declared, v, m)
  BY <1>2 DEF PathTo
<1>4. RoomFor(v, MaxDepth)
  <2>1. Cardinality({}) = 0 /\ Cardinality(Modules) \in Nat
    BY FS_EmptySet, ModuleGraphAssumption, FS_CardinalityType
  <2> QED BY <1>2, <2>1 DEF RoomFor, MaxDepth
<1>5. Reached(declared, v, w, {m}, {m})
  BY <1>2, <1>3, <1>4, VisitsAreRight DEF RightVisitor
<1>6. \A S \in SUBSET Modules : Closed(declared, S) /\ Roots(declared) \subseteq S => {m} \subseteq S
  OBVIOUS
<1> QED BY <1>5, <1>6, ReachedTogether

LEMMA VisitAllReaches ==
    ASSUME NEW declared \in Seq(Declaration), NeedsDeclared(declared),
           Entry \in Declared(declared)
    PROVE  /\ VisitAll(declared) \in VisitState
           /\ Reached(declared, NothingVisited, VisitAll(declared),
                      Roots(declared), Roots(declared))
<1> DEFINE N == Len(declared)
           first == VisitFrom(declared)[Entry][NothingVisited]
           R == Roots(declared)
           done(i) == {Entry} \cup NotByCore(declared, declared, i)
           P == [i \in 0 .. N |->
                   {v \in VisitState : Reached(declared, NothingVisited, v, done(i), R)}]
           step == VisitDeclared(declared)
<1>1. N \in Nat /\ Entry \in R /\ Entry \in Modules
  BY ModuleGraphAssumption DEF Roots
<1>2. NothingVisited \in VisitState /\ ~NothingVisited.cycle
  BY DEF NothingVisited, VisitState, Unvisited
<1>3. GoodVisit(declared, NothingVisited)
  BY DEF GoodVisit, WellOrdered, NothingVisited, Marked, Visited, Unvisited, ToSet
<1>4. first \in VisitState
  BY <1>1, <1>2, VisitsAreRight DEF Visitors
<1>5. Reached(declared, NothingVisited, first, {Entry}, R)
  <2>1. Reached(declared, NothingVisited, NothingVisited, {}, R)
    BY <1>2, <1>3, ReachedAtOnce
  <2>2. Reached(declared, NothingVisited, first, {} \cup {Entry}, R)
    BY <1>1, <1>2, <2>1, FromARoot
  <2>3. {} \cup {Entry} = {Entry}
    OBVIOUS
  <2> QED BY <2>2, <2>3
<1>6. first \in P[0]
  <2>1. done(0) = {Entry}
    BY DEF NotByCore
  <2>2. 0 \in 0 .. N
    BY <1>1
  <2> QED BY <1>4, <1>5, <2>1, <2>2
<1>7. step \in [Declaration -> [VisitState -> VisitState]]
  <2>1. ASSUME NEW d \in Declaration, NEW v \in VisitState
        PROVE  (IF ProvidedByCore(declared, d.module) THEN v
                ELSE VisitFrom(declared)[d.module][v]) \in VisitState
    <3>1. d.module \in Modules
      BY DEF Declaration
    <3> QED BY <3>1, VisitsAreRight DEF Visitors
  <2> QED BY <2>1 DEF VisitDeclared
<1>8. ASSUME NEW i \in 1 .. N, NEW v \in VisitState, v \in P[i - 1]
      PROVE  step[declared[i]][v] \in P[i]
  <2> DEFINE d == declared[i]
             w == step[d][v]
  <2>1. /\ i - 1 \in 0 .. N /\ i \in 0 .. N /\ d \in Declaration
        /\ d.module \in Modules /\ d.module \in Declared(declared)
    <3>1. i - 1 \in 0 .. N /\ i \in 0 .. N /\ d \in Declaration
      BY <1>1
    <3>2. d.module \in Modules
      BY <3>1 DEF Declaration
    <3>3. d.module \in Declared(declared)
      BY DEF Declared, ToSet
    <3> QED BY <3>1, <3>2, <3>3
  <2>2. Reached(declared, NothingVisited, v, done(i - 1), R)
    BY <1>8, <2>1
  <2>3. w = IF ProvidedByCore(declared, d.module) THEN v
            ELSE VisitFrom(declared)[d.module][v]
    BY <2>1 DEF VisitDeclared
  <2>4. w \in VisitState
    BY <1>7, <2>1
  <2>5. CASE ProvidedByCore(declared, d.module)
    <3>1. done(i) = done(i - 1)
      BY <1>1, <2>5 DEF NotByCore
    <3> HIDE DEF w
    <3> QED BY <2>1, <2>2, <2>3, <2>4, <2>5, <3>1 DEF w
  <2>6. CASE ~ProvidedByCore(declared, d.module)
    <3>1. done(i) = done(i - 1) \cup {d.module}
      BY <1>1, <2>6 DEF NotByCore
    <3>2. Reached(declared, NothingVisited, w, done(i), R)
      <4>1. CASE v.cycle
        <5>1. w = v
          BY <2>1, <2>3, <2>6, <4>1, VisitsAreRight DEF RightVisitor
        <5> QED BY <2>2, <4>1, <5>1 DEF Reached
      <4>2. CASE ~v.cycle
        <5>1. d.module \in R
          BY <2>1, <2>6 DEF Roots
        <5>2. w = VisitFrom(declared)[d.module][v]
          BY <2>3, <2>6
        <5> HIDE DEF w, d
        <5>3. Reached(declared, NothingVisited, w, done(i - 1) \cup {d.module}, R)
          BY <2>1, <2>2, <4>2, <5>1, <5>2, FromARoot
        <5> QED BY <3>1, <5>3 DEF d
      <4> QED BY <4>1, <4>2
    <3> QED BY <2>1, <2>4, <3>2
  <2> QED BY <2>5, <2>6
<1>9. VisitAll(declared) \in VisitState \cap P[N]
  <2>1. \A i \in 1 .. N : \A v \in VisitState :
            v \in P[i - 1] => step[declared[i]][v] \in P[i]
    BY <1>8
  <2> HIDE DEF P, step, first
  <2>2. Through(step, declared, first) \in VisitState \cap P[N]
    BY <1>1, <1>4, <1>6, <1>7, <2>1, ThroughKeeps
  <2> QED BY <2>2 DEF VisitAll, step, first
<1>10. done(N) = R
  BY RootsOf
<1>11. N \in 0 .. N
  BY <1>1
<1> QED BY <1>9, <1>10, <1>11

\* A sequence without repetition is as long as it has elements.
LEMMA LengthOfDistinct ==
    ASSUME NEW T, NEW seq \in Seq(T),
           \A i, j \in DOMAIN seq : seq[i] = seq[j] => i = j
    PROVE  IsFiniteSet(ToSet(seq)) /\ Cardinality(ToSet(seq)) = Len(seq)
<1>1. Len(seq) \in Nat /\ DOMAIN seq = 1 .. Len(seq)
  OBVIOUS
<1>2. seq \in Bijection(1 .. Len(seq), ToSet(seq))
  BY <1>1 DEF Bijection, Injection, Surjection, IsInjective, ToSet
<1>3. IsFiniteSet(1 .. Len(seq)) /\ Cardinality(1 .. Len(seq)) = Len(seq)
  BY <1>1, FS_Interval
<1>4. ExistsBijection(1 .. Len(seq), ToSet(seq))
  BY <1>2 DEF ExistsBijection
<1> QED BY <1>3, <1>4, FS_Bijection

\* What the search has found out, when it found no cycle.
LEMMA NoCycle ==
    ASSUME NEW declared \in Seq(Declaration), WellDeclared(declared),
           NEW w, w = VisitAll(declared), ~w.cycle
    PROVE  /\ w.order \in Seq(Modules) /\ WellOrdered(declared, w.order)
           /\ ToSet(w.order) \subseteq Declared(declared)
           /\ Len(w.order) = Cardinality(Declared(declared))
                <=> ToSet(w.order) = Declared(declared)
           /\ AllReachable(declared) <=> ToSet(w.order) = Declared(declared)
           /\ ToSet(w.order) = Declared(declared) => Acyclic(declared)
<1>1. NeedsDeclared(declared) /\ Entry \in Declared(declared)
  BY DEF WellDeclared, NeedsDeclared, NeededBy, Declared
<1>2. w \in VisitState /\ Reached(declared, NothingVisited, w, Roots(declared), Roots(declared))
  BY <1>1, VisitAllReaches
<1> DEFINE A == ToSet(w.order)
<1>3. w.order \in Seq(Modules) /\ A = Marked(w, Visited) /\ WellOrdered(declared, w.order)
  BY <1>2 DEF VisitState, Reached, GoodVisit
<1>earlier. \A i \in DOMAIN w.order : \A x \in NeededBy(declared, w.order[i]) :
               \E j \in DOMAIN w.order : j < i /\ w.order[j] = x
  BY <1>3 DEF WellOrdered
<1>4. Marked(NothingVisited, Visited) = {}
  BY DEF Marked, NothingVisited, Visited, Unvisited
<1>5. /\ Roots(declared) \subseteq A
      /\ \A S \in SUBSET Modules : Closed(declared, S) /\ Roots(declared) \subseteq S => A \subseteq S
  BY <1>2, <1>3, <1>4 DEF Reached
<1> HIDE DEF A
<1>6. Roots(declared) \subseteq Declared(declared) /\ Closed(declared, Declared(declared))
  BY <1>1 DEF Roots, NeedsDeclared, Closed
<1>7. A \subseteq Declared(declared)
  BY <1>5, <1>6, DeclaredAreModules
<1>8. Closed(declared, A)
  <2>1. ASSUME NEW m \in A, NEW x \in NeededBy(declared, m) PROVE x \in A
    <3>1. PICK i \in DOMAIN w.order : w.order[i] = m
      BY <1>3 DEF A, ToSet
    <3>2. PICK j \in DOMAIN w.order : j < i /\ w.order[j] = x
      <4>1. x \in NeededBy(declared, w.order[i])
        BY <2>1, <3>1
      <4> QED BY <1>earlier, <4>1
    <3> QED BY <3>2 DEF A, ToSet
  <2> QED BY <2>1 DEF Closed
<1>9. AllReachable(declared) <=> A = Declared(declared)
  <2>1. ASSUME AllReachable(declared) PROVE A = Declared(declared)
    BY <1>5, <1>7, <1>8, <2>1 DEF AllReachable, Closed
  <2>2. ASSUME A = Declared(declared) PROVE AllReachable(declared)
    <3>1. ASSUME NEW S \in SUBSET Declared(declared), Roots(declared) \subseteq S,
                 \A m \in S : NeededBy(declared, m) \subseteq S
          PROVE  S = Declared(declared)
      <4>1. Closed(declared, S) /\ S \in SUBSET Modules
        BY <3>1, DeclaredAreModules DEF Closed
      <4> QED BY <1>5, <2>2, <3>1, <4>1
    <3> QED BY <3>1 DEF AllReachable
  <2> QED BY <2>1, <2>2
<1>10. Len(w.order) = Cardinality(Declared(declared)) <=> A = Declared(declared)
  <2>1. Cardinality(A) = Len(w.order)
    BY <1>3, LengthOfDistinct DEF WellOrdered, A
  <2>2. IsFiniteSet(Declared(declared))
    BY DeclaredAreModules, ModuleGraphAssumption, FS_Subset
  <2>3. Cardinality(A) = Cardinality(Declared(declared)) => A = Declared(declared)
    BY <1>7, <2>2, FS_Subset
  <2> QED BY <2>1, <2>3
<1>11. ASSUME A = Declared(declared) PROVE Acyclic(declared)
  <2>1. ASSUME NEW S \in SUBSET Declared(declared), S # {}
        PROVE  \E m \in S : NeededBy(declared, m) \cap S = {}
    <3> DEFINE I == {i \in DOMAIN w.order : w.order[i] \in S}
    <3>1. I \subseteq Nat /\ I # {}
      BY <1>3, <1>11, <2>1 DEF A, ToSet
    <3>2. PICK k \in I : \A i \in I : k <= i
      <4> HIDE DEF I
      <4> QED BY <3>1, LeastOfNats
    <3>3. ASSUME NEW x \in NeededBy(declared, w.order[k]) PROVE x \notin S
      <4>1. PICK j \in DOMAIN w.order : j < k /\ w.order[j] = x
        BY <1>earlier, <3>2, <3>3
      <4>2. j \in Nat /\ k \in Nat
        BY <1>3, <3>2
      <4> QED BY <3>2, <4>1, <4>2
    <3> QED BY <3>2, <3>3
  <2> QED BY <2>1 DEF Acyclic
<1> QED BY <1>3, <1>7, <1>9, <1>10, <1>11 DEF A

\* LoadModuleGraph answers as it should, and its order is right.
LEMMA GraphLoadsIffSound ==
    ASSUME NEW declared \in Seq(Declaration)
    PROVE  GraphLoads(declared) <=> Sound(declared)
<1> DEFINE w == VisitAll(declared)
<1>1. CASE ~WellDeclared(declared)
  BY <1>1 DEF GraphLoads, Sound
<1>2. CASE WellDeclared(declared) /\ w.cycle
  <2>1. NeedsDeclared(declared) /\ Entry \in Declared(declared)
    BY <1>2 DEF WellDeclared, NeedsDeclared, NeededBy, Declared
  <2>2. ~Acyclic(declared)
    BY <1>2, <2>1, VisitAllReaches DEF Reached
  <2> QED BY <1>2, <2>2 DEF GraphLoads, Sound
<1>3. CASE WellDeclared(declared) /\ ~w.cycle
  <2>1. /\ Len(w.order) = Cardinality(Declared(declared))
                <=> ToSet(w.order) = Declared(declared)
        /\ AllReachable(declared) <=> ToSet(w.order) = Declared(declared)
        /\ ToSet(w.order) = Declared(declared) => Acyclic(declared)
    BY <1>3, NoCycle
  <2> QED BY <1>3, <2>1 DEF GraphLoads, Sound
<1> QED BY <1>1, <1>2, <1>3

LEMMA LoadOrderIsRight ==
    ASSUME NEW declared \in Seq(Declaration), GraphLoads(declared)
    PROVE  /\ LoadOrder(declared) \in Seq(Modules)
           /\ RightOrder(declared, LoadOrder(declared))
<1> DEFINE o == LoadOrder(declared)
<1>1. /\ o \in Seq(Modules) /\ WellOrdered(declared, o) /\ ToSet(o) = Declared(declared)
  BY NoCycle DEF GraphLoads, LoadOrder
<1> HIDE DEF o
<1>2. DOMAIN o = 1 .. Len(o) /\ Len(o) \in Nat
  BY <1>1
<1>3. ASSUME NEW i \in DOMAIN o
      PROVE  NeededBy(declared, o[i]) \subseteq ToSet(SubSeq(o, 1, i - 1))
  <2>1. ASSUME NEW x \in NeededBy(declared, o[i]) PROVE x \in ToSet(SubSeq(o, 1, i - 1))
    <3>1. PICK j \in DOMAIN o : j < i /\ o[j] = x
      BY <1>1, <2>1 DEF WellOrdered
    <3>2. j \in 1 .. i - 1 /\ SubSeq(o, 1, i - 1) = [k \in 1 .. i - 1 |-> o[k]]
      BY <1>1, <1>2, <3>1
    <3>3. j \in DOMAIN SubSeq(o, 1, i - 1) /\ SubSeq(o, 1, i - 1)[j] = x
      BY <3>1, <3>2
    <3> QED BY <3>3 DEF ToSet
  <2> QED BY <2>1
<1> QED BY <1>1, <1>3 DEF RightOrder, WellOrdered, o

LEMMA GraphsAreDeclarations ==
    Graphs \subseteq Seq(Declaration)
  BY RuntimeSessionAssumption

-----------------------------------------------------------------------------
(***************************************************************************)
(* The phases.                                                             *)
(***************************************************************************)
Upto(q, n) == {q[i] : i \in 1..n}
From(q, n) == {q[i] : i \in n + 1..Len(q)}

HookPhases == {"execute", "register", "migrate_state", "restore_instances",
               "validate_state", "start"}

Early == {"absent", "requested", "counted", "opening", "graph"}

\* Where a session is once the loop of a phase has ended.
AfterStart == {"started", "running"}
AfterAssign == AfterStart \cup {"start"}
AfterValidate == AfterAssign \cup {"restored", "assign"}
AfterRestore == AfterValidate \cup {"validate_state"}
AfterVerify == AfterRestore \cup {"tree", "built", "restore_instances"}
AfterMigrate == AfterVerify \cup {"verify"}
AfterSeal == AfterMigrate \cup {"registered", "compose", "decode", "migrate_state"}
AfterRegister == AfterSeal \cup {"seal"}
AfterExecute == AfterRegister \cup {"register"}

All(s) == Declared(start[s].graph)
AllOfLoad(s) == IF start[s].form = "load" THEN All(s) ELSE {}

Fresh(s) ==
    /\ order[s] = <<>> /\ hookOrder[s] = <<>> /\ initializing[s] = NoModule
    /\ passed[s] = NobodyPassed
    /\ sealed[s] = 0 /\ pending[s] = {} /\ state[s] = "none"

OrderIsRight(s) ==
    /\ order[s] \in Seq(Modules)
    /\ order[s] # <<>>
    /\ RightOrder(start[s].graph, order[s])

\* The modules that went through phase p, by the place of the thread.
Went(s, p, later, who) ==
    passed[s][p] = IF pc[s] = p THEN Upto(order[s], pos[s])
                   ELSE IF pc[s] \in later THEN who ELSE {}

WentThrough(s) ==
    /\ Went(s, "execute", AfterExecute, All(s))
    /\ Went(s, "register", AfterRegister, All(s))
    /\ Went(s, "migrate_state", AfterMigrate, AllOfLoad(s))
    /\ Went(s, "restore_instances", AfterRestore, AllOfLoad(s))
    /\ Went(s, "validate_state", AfterValidate, All(s))
    /\ Went(s, "start", AfterStart, All(s))
    /\ passed[s]["stop"] = {} /\ passed[s]["unregister"] = {}

\* The places a start of each form takes.
WayOfForm(s) ==
    /\ start[s].form \in Forms
    /\ start[s].form = "check" => pc[s] = "execute"
    /\ start[s].form = "load" => pc[s] # "compose"
    /\ start[s].form = "new" =>
         pc[s] \notin {"decode", "migrate_state", "verify", "restore_instances"}

BuildState(s) ==
    /\ OrderIsRight(s)
    /\ hookOrder[s] = IF start[s].form = "check" THEN <<>> ELSE order[s]
    /\ initializing[s] = NoModule
    /\ pc[s] \in HookPhases => pos[s] \in 0..Len(order[s]) - 1
    /\ WayOfForm(s)
    /\ WentThrough(s)
    /\ sealed[s] = IF pc[s] \in AfterSeal THEN Registries ELSE 0
    /\ pc[s] \notin {"migrate_state", "verify"} => pending[s] = {}
    /\ state[s] = IF pc[s] \in AfterAssign THEN start[s].form ELSE "none"

Barriers(s) ==
    LET all == Declared(start[s].graph)
        Began(p) == passed[s][p] # {}
        Ended(p) == passed[s][p] = all
    IN  /\ Began("register") => Ended("execute")
        /\ (Began("validate_state") \/ Began("migrate_state") \/ state[s] # "none") =>
              Ended("register") /\ sealed[s] = Registries
        /\ Began("restore_instances") => Ended("migrate_state") /\ pending[s] = {}
        /\ state[s] # "none" => Ended("validate_state")
        /\ Began("start") => state[s] # "none"

\* Every phase of the start got to some place of the order.
InOrder(s) ==
    \A p \in HookPhases : \E n \in 0..Len(order[s]) : passed[s][p] = Upto(order[s], n)

\* Every loop of the teardown went from the end of the order to some place.
TornDown(s, p) ==
    IF pc[s] = p
    THEN passed[s][p] = From(hookOrder[s], pos[s])
    ELSE \E n \in 0..Len(hookOrder[s]) : passed[s][p] = From(hookOrder[s], n)

CloseState(s) ==
    /\ order[s] = <<>> \/ OrderIsRight(s)
    /\ hookOrder[s] = <<>> \/ hookOrder[s] = order[s]
    /\ Barriers(s)
    /\ InOrder(s)
    /\ pc[s] \in Teardown => pos[s] \in 0..Len(hookOrder[s])
    /\ TornDown(s, "stop") /\ TornDown(s, "unregister")
    /\ pc[s] = "stop" => passed[s]["unregister"] = {}
    /\ initializing[s] # NoModule => passed[s]["execute"] # All(s)
    /\ \A p \in Teardown : passed[s][p] # {} => passed[s]["execute"] = All(s)

PhaseOk(s) ==
    /\ pc[s] \in Early => Fresh(s)
    /\ pc[s] \in {"opening", "graph"} => start[s].form \in Forms /\ start[s].graph \in Graphs
    /\ pc[s] \in AfterExecute \cup {"execute"} => BuildState(s)
    /\ pc[s] \in Closing => CloseState(s)

PhaseTypeOK ==
    /\ pc \in [Sessions -> PcSet]
    /\ start \in [Sessions -> [form : Forms \cup {"none"}, graph : Graphs \cup {<<>>},
                               number : Nat]]
    /\ pos \in [Sessions -> Nat]
    /\ order \in [Sessions -> Seq(Modules)]
    /\ hookOrder \in [Sessions -> Seq(Modules)]
    /\ initializing \in [Sessions -> Modules \cup {NoModule}]
    /\ passed \in [Sessions -> [Phases -> SUBSET Modules]]
    /\ sealed \in [Sessions -> 0..Registries]
    /\ pending \in [Sessions -> SUBSET Sections]
    /\ state \in [Sessions -> Forms \cup {"none"}]

PhaseInv == PhaseTypeOK /\ \A s \in Sessions : PhaseOk(s)

-----------------------------------------------------------------------------
LEMMA LoopFacts ==
    ASSUME NEW q \in Seq(Modules)
    PROVE  /\ Upto(q, 0) = {}
           /\ From(q, Len(q)) = {}
           /\ Upto(q, Len(q)) = ToSet(q)
           /\ \A n \in 0..Len(q) - 1 :
                /\ Upto(q, n) \cup {q[n + 1]} = Upto(q, n + 1)
                /\ From(q, n + 1) \cup {q[n + 1]} = From(q, n)
                /\ q[n + 1] \in Modules
<1>1. Upto(q, 0) = {} /\ From(q, Len(q)) = {} /\ Upto(q, Len(q)) = ToSet(q)
  BY DEF Upto, From, ToSet
<1>2. ASSUME NEW n \in 0..Len(q) - 1
      PROVE  /\ Upto(q, n) \cup {q[n + 1]} = Upto(q, n + 1)
             /\ From(q, n + 1) \cup {q[n + 1]} = From(q, n)
             /\ q[n + 1] \in Modules
  <2>1. Len(q) \in Nat /\ n \in Nat /\ n + 1 \in 1..Len(q)
    OBVIOUS
  <2>2. \A i \in 1..n + 1 : i \in 1..n \/ i = n + 1
    BY <2>1
  <2>3. \A i \in n + 1..Len(q) : i \in n + 2..Len(q) \/ i = n + 1
    BY <2>1
  <2>4. Upto(q, n) \cup {q[n + 1]} = Upto(q, n + 1)
    BY <2>1, <2>2 DEF Upto
  <2>5. From(q, n + 1) \cup {q[n + 1]} = From(q, n)
    BY <2>1, <2>3 DEF From
  <2> QED BY <2>1, <2>4, <2>5
<1> QED BY <1>1, <1>2

LEMMA AllInOrder ==
    ASSUME NEW s \in Sessions, OrderIsRight(s)
    PROVE  Upto(order[s], Len(order[s])) = All(s) /\ Len(order[s]) \in Nat \ {0}
<1> QED BY LoopFacts DEF OrderIsRight, RightOrder, All

\* A prefix of the order that holds its n-th module has all modules up to it.
LEMMA NotYetThere ==
    ASSUME NEW s \in Sessions, OrderIsRight(s),
           NEW k \in 0..Len(order[s]), NEW n \in 1..Len(order[s]),
           order[s][n] \in Upto(order[s], k)
    PROVE  n <= k
<1> QED BY DEF OrderIsRight, RightOrder, Upto

LEMMA BuildBarriers ==
    ASSUME NEW s \in Sessions, BuildState(s), pc[s] \in AfterExecute \cup {"execute"}
    PROVE  Barriers(s)
<1> USE DEF BuildState, WentThrough, Went, WayOfForm, AfterStart, AfterAssign, AfterValidate,
            AfterRestore, AfterVerify, AfterMigrate, AfterSeal, AfterRegister, AfterExecute
<1>1. passed[s]["register"] # {} => passed[s]["execute"] = All(s)
  OBVIOUS
<1>2. \/ passed[s]["validate_state"] # {}
      \/ passed[s]["migrate_state"] # {}
      \/ state[s] # "none"
      => passed[s]["register"] = All(s) /\ sealed[s] = Registries
  BY DEF AllOfLoad
<1>3. passed[s]["restore_instances"] # {} =>
        passed[s]["migrate_state"] = All(s) /\ pending[s] = {}
  BY DEF AllOfLoad, Forms
<1>4. state[s] # "none" => passed[s]["validate_state"] = All(s)
  OBVIOUS
<1>5. passed[s]["start"] # {} => state[s] # "none"
  BY DEF Forms
<1> QED BY <1>1, <1>2, <1>3, <1>4, <1>5 DEF Barriers, All

LEMMA BuildInOrder ==
    ASSUME NEW s \in Sessions, BuildState(s), pos[s] \in Nat
    PROVE  InOrder(s)
<1> SUFFICES ASSUME NEW p \in HookPhases
             PROVE  \E n \in 0..Len(order[s]) : passed[s][p] = Upto(order[s], n)
  BY DEF InOrder
<1>1. /\ Upto(order[s], 0) = {}
      /\ Upto(order[s], Len(order[s])) = All(s)
      /\ Len(order[s]) \in Nat
  BY AllInOrder, LoopFacts DEF BuildState, OrderIsRight
<1>2. CASE pc[s] = p
  <2>1. passed[s][p] = Upto(order[s], pos[s])
    BY <1>2 DEF BuildState, WentThrough, Went, HookPhases
  <2>2. pos[s] \in 0..Len(order[s])
    BY <1>1, <1>2 DEF BuildState
  <2> QED BY <2>1, <2>2
<1>3. CASE pc[s] # p
  <2>1. passed[s][p] \in {{}, All(s)}
    BY <1>3 DEF BuildState, WentThrough, Went, HookPhases, AllOfLoad
  <2>2. 0 \in 0..Len(order[s]) /\ Len(order[s]) \in 0..Len(order[s])
    BY <1>1
  <2>3. CASE passed[s][p] = {}
    BY <1>1, <2>2, <2>3
  <2>4. CASE passed[s][p] = All(s)
    BY <1>1, <2>2, <2>4
  <2> QED BY <2>1, <2>3, <2>4
<1> QED BY <1>2, <1>3

-----------------------------------------------------------------------------
\* What a session does is no business of the others.
Same(t) ==
    /\ pc'[t] = pc[t] /\ start'[t] = start[t] /\ pos'[t] = pos[t]
    /\ order'[t] = order[t] /\ hookOrder'[t] = hookOrder[t]
    /\ initializing'[t] = initializing[t] /\ passed'[t] = passed[t]
    /\ sealed'[t] = sealed[t] /\ pending'[t] = pending[t] /\ state'[t] = state[t]

LEMMA SameKeepsPhaseOk ==
    ASSUME NEW t \in Sessions, PhaseOk(t), Same(t)
    PROVE  PhaseOk(t)'
<1> USE DEF Same
<1>1. Fresh(t) => Fresh(t)'
  BY DEF Fresh
<1>2. BuildState(t) => BuildState(t)'
  BY DEF BuildState, OrderIsRight, WayOfForm, WentThrough, Went, All, AllOfLoad
<1>3. CloseState(t) => CloseState(t)'
  BY DEF CloseState, OrderIsRight, Barriers, InOrder, TornDown, All
<1> QED BY <1>1, <1>2, <1>3 DEF PhaseOk

LEMMA OneMoves ==
    ASSUME NEW s \in Sessions, PhaseInv, PhaseTypeOK', PhaseOk(s)',
           \A t \in Sessions \ {s} : Same(t)
    PROVE  PhaseInv'
<1> QED BY SameKeepsPhaseOk DEF PhaseInv

LEMMA PassTyped ==
    ASSUME NEW s \in Sessions, PhaseInv, NEW m \in Modules, pc[s] \in Phases, Pass(s, m)
    PROVE  /\ passed' \in [Sessions -> [Phases -> SUBSET Modules]]
           /\ \A t \in Sessions \ {s} : passed'[t] = passed[t]
<1> DEFINE new == [passed[s] EXCEPT ![pc[s]] = @ \cup {m}]
<1>1. passed \in [Sessions -> [Phases -> SUBSET Modules]]
  BY DEF PhaseInv, PhaseTypeOK
<1>2. passed' = [passed EXCEPT ![s] = new]
  BY <1>1 DEF Pass
<1>3. passed[s] \in [Phases -> SUBSET Modules] /\ passed[s][pc[s]] \cup {m} \in SUBSET Modules
  BY <1>1
<1>4. new \in [Phases -> SUBSET Modules]
  BY <1>3
<1> HIDE DEF new
<1> QED BY <1>1, <1>2, <1>4

LEMMA NobodyMoves ==
    ASSUME PhaseInv,
           UNCHANGED <<pc, start, pos, order, hookOrder, initializing, passed, sealed,
                       pending, state>>
    PROVE  PhaseInv'
<1>1. PhaseTypeOK'
  BY DEF PhaseInv, PhaseTypeOK
<1>2. \A t \in Sessions : Same(t)
  BY DEF Same
<1> QED BY <1>1, <1>2, SameKeepsPhaseOk DEF PhaseInv

(***************************************************************************)
(* A start that fails or a session that is stopped: what went through the  *)
(* phases stays as it is for the teardown.                                 *)
(***************************************************************************)
LEMMA CloseStateFrom ==
    ASSUME NEW s \in Sessions, PhaseInv, PhaseTypeOK',
           pc[s] \in Early \cup AfterExecute \cup {"execute"},
           pc'[s] = "stop", pos'[s] = Len(hookOrder[s]),
           order'[s] = order[s], hookOrder'[s] = hookOrder[s],
           start'[s] = start[s], passed'[s] = passed[s],
           initializing'[s] # NoModule => passed[s]["execute"] # All(s),
           Barriers(s)',
           \A t \in Sessions \ {s} : Same(t)
    PROVE  PhaseInv'
<1> USE DEF PhaseInv
<1>1. hookOrder[s] \in Seq(Modules) /\ order[s] \in Seq(Modules) /\ pos[s] \in Nat
  BY DEF PhaseTypeOK
<1>2. Fresh(s) \/ BuildState(s)
  BY DEF PhaseOk
<1>3. order[s] = <<>> \/ OrderIsRight(s)
  BY <1>2 DEF Fresh, BuildState
<1>4. hookOrder[s] = <<>> \/ hookOrder[s] = order[s]
  BY <1>2 DEF Fresh, BuildState
<1>5. InOrder(s)
  <2>1. CASE Fresh(s)
    <3>1. Upto(order[s], 0) = {}
      BY <1>1, LoopFacts
    <3>2. 0 \in 0..Len(order[s])
      BY <1>1
    <3>3. \A p \in HookPhases : passed[s][p] = {}
      BY <2>1 DEF Fresh, NobodyPassed, Phases, HookPhases
    <3> QED BY <3>1, <3>2, <3>3 DEF InOrder
  <2>2. CASE BuildState(s)
    BY <1>1, <2>2, BuildInOrder
  <2> QED BY <1>2, <2>1, <2>2
<1>6. \A p \in Teardown : passed[s][p] = {}
  BY <1>2 DEF Fresh, NobodyPassed, Phases, Teardown, BuildState, WentThrough
<1>7. From(hookOrder[s], Len(hookOrder[s])) = {} /\ Len(hookOrder[s]) \in 0..Len(hookOrder[s])
  BY <1>1, LoopFacts
<1>8. (TornDown(s, "stop") /\ TornDown(s, "unregister"))'
  BY <1>6, <1>7 DEF TornDown, Teardown
<1>9. (order[s] = <<>> \/ OrderIsRight(s))' /\ InOrder(s)'
  BY <1>3, <1>5 DEF OrderIsRight, InOrder
<1>10. CloseState(s)'
  BY <1>4, <1>6, <1>7, <1>8, <1>9 DEF CloseState, All, Teardown
<1>11. PhaseOk(s)'
  BY <1>10 DEF PhaseOk, Early, AfterExecute, AfterRegister, AfterSeal, AfterMigrate, AfterVerify,
               AfterRestore, AfterValidate, AfterAssign, AfterStart
<1> QED BY <1>11, OneMoves

LEMMA EarlyOrBuildBarriers ==
    ASSUME NEW s \in Sessions, PhaseOk(s), pc[s] \in Early \cup AfterExecute \cup {"execute"}
    PROVE  Barriers(s)
<1>1. CASE pc[s] \in Early
  <2>1. Fresh(s)
    BY <1>1 DEF PhaseOk
  <2> QED BY <2>1 DEF Fresh, Barriers, NobodyPassed, Phases
<1>2. CASE pc[s] \in AfterExecute \cup {"execute"}
  BY <1>2, BuildBarriers DEF PhaseOk
<1> QED BY <1>1, <1>2

\* All the stops that change nothing but the place.
LEMMA StopKeepsPhaseInv ==
    ASSUME NEW s \in Sessions, PhaseInv, NEW why, BeginStop(s, why),
           pc[s] \in Early \cup AfterExecute \cup {"execute"},
           UNCHANGED <<start, order, hookOrder, initializing, passed, sealed, pending, state>>
    PROVE  PhaseInv'
<1> USE DEF PhaseInv
<1>1. pc' = [pc EXCEPT ![s] = "stop"] /\ pos' = [pos EXCEPT ![s] = Len(hookOrder[s])]
  BY DEF BeginStop, Goto
<1>2. PhaseTypeOK'
  BY <1>1 DEF PhaseTypeOK, PcSet, Teardown
<1>3. \A t \in Sessions \ {s} : Same(t)
  BY <1>1 DEF Same, PhaseTypeOK
<1>4. pc'[s] = "stop" /\ pos'[s] = Len(hookOrder[s])
  BY <1>1 DEF PhaseTypeOK
<1>5. Barriers(s)'
  BY EarlyOrBuildBarriers DEF Barriers
<1>6. initializing[s] = NoModule
  BY DEF PhaseOk, Fresh, BuildState
<1> QED BY <1>2, <1>3, <1>4, <1>5, <1>6, CloseStateFrom

(***************************************************************************)
(* Before the graph is loaded.                                             *)
(***************************************************************************)
LEMMA EarlyKeepsPhaseInv ==
    ASSUME NEW s \in Sessions, PhaseInv, PhaseTypeOK', pc[s] \in Early, pc'[s] \in Early,
           pc'[s] \in {"opening", "graph"} => start'[s].form \in Forms /\ start'[s].graph \in Graphs,
           UNCHANGED <<order, hookOrder, initializing, passed, sealed, pending, state>>,
           \A t \in Sessions \ {s} : Same(t)
    PROVE  PhaseInv'
<1>1. Fresh(s)
  BY DEF PhaseInv, PhaseOk
<1>2. Fresh(s)'
  BY <1>1 DEF Fresh
<1>3. PhaseOk(s)'
  BY <1>2 DEF PhaseOk, Early, AfterExecute, AfterRegister, AfterSeal, AfterMigrate, AfterVerify,
              AfterRestore, AfterValidate, AfterAssign, AfterStart, Closing, Teardown
<1> QED BY <1>3, OneMoves

(***************************************************************************)
(* The steps of a start between the loops.                                 *)
(***************************************************************************)
NextPlace(p, q, form) ==
    \/ p = "seal" /\ q = "registered"
    \/ p = "registered" /\ q = IF form = "load" THEN "decode" ELSE "compose"
    \/ p = "compose" /\ q = "tree"
    \/ p = "decode" /\ q = "migrate_state"
    \/ p = "verify" /\ q = "tree"
    \/ p = "tree" /\ q = "built"
    \/ p = "built" /\ q = IF form = "load" THEN "restore_instances" ELSE "validate_state"
    \/ p = "restored" /\ q = "assign"
    \/ p = "assign" /\ q = "start"
    \/ p = "started" /\ q = "running"

LEMMA BuildGoesOn ==
    ASSUME NEW s \in Sessions, PhaseInv, PhaseTypeOK',
           NextPlace(pc[s], pc'[s], start[s].form), pos'[s] = 0,
           UNCHANGED <<start, order, hookOrder, initializing, passed>>,
           sealed'[s] = IF pc[s] = "seal" THEN Registries ELSE sealed[s],
           pc[s] = "decode" \/ pending'[s] = pending[s],
           pc[s] = "verify" => pending[s] = {},
           state'[s] = IF pc[s] = "assign" THEN start[s].form ELSE state[s],
           \A t \in Sessions \ {s} : Same(t)
    PROVE  PhaseInv'
<1> USE DEF AfterStart, AfterAssign, AfterValidate, AfterRestore, AfterVerify, AfterMigrate,
            AfterSeal, AfterRegister, AfterExecute
<1>1. BuildState(s)
  BY DEF PhaseInv, PhaseOk, NextPlace
<1>2. Len(order[s]) \in Nat \ {0} /\ Upto(order[s], 0) = {}
  BY <1>1, AllInOrder, LoopFacts DEF BuildState, OrderIsRight
<1>3. OrderIsRight(s)' /\ (hookOrder[s] = IF start[s].form = "check" THEN <<>> ELSE order[s])'
  BY <1>1 DEF BuildState, OrderIsRight
<1>4. initializing'[s] = NoModule
  BY <1>1 DEF BuildState
<1>5. pc'[s] \in HookPhases => pos'[s] \in 0..Len(order'[s]) - 1
  BY <1>2
<1>6. WayOfForm(s)'
  BY <1>1 DEF BuildState, WayOfForm, NextPlace, Forms
<1>7. WentThrough(s)'
  <2>1. WentThrough(s) /\ WayOfForm(s)
    BY <1>1 DEF BuildState
  <2>2. Went(s, "execute", AfterExecute, All(s))' /\ Went(s, "register", AfterRegister, All(s))'
    BY <1>2, <2>1 DEF WentThrough, Went, All, NextPlace
  <2>3. Went(s, "migrate_state", AfterMigrate, AllOfLoad(s))'
    BY <1>2, <2>1 DEF WentThrough, Went, All, AllOfLoad, NextPlace, WayOfForm
  <2>4. Went(s, "restore_instances", AfterRestore, AllOfLoad(s))'
    BY <1>2, <2>1 DEF WentThrough, Went, All, AllOfLoad, NextPlace, WayOfForm
  <2>5. Went(s, "validate_state", AfterValidate, All(s))' /\ Went(s, "start", AfterStart, All(s))'
    BY <1>2, <2>1 DEF WentThrough, Went, All, NextPlace
  <2>6. (passed[s]["stop"] = {} /\ passed[s]["unregister"] = {})'
    BY <2>1 DEF WentThrough
  <2> QED BY <2>2, <2>3, <2>4, <2>5, <2>6 DEF WentThrough
<1>8. sealed'[s] = IF pc'[s] \in AfterSeal THEN Registries ELSE 0
  BY <1>1 DEF BuildState, NextPlace
<1>9. pc'[s] \notin {"migrate_state", "verify"} => pending'[s] = {}
  BY <1>1 DEF BuildState, NextPlace
<1>10. state'[s] = IF pc'[s] \in AfterAssign THEN start'[s].form ELSE "none"
  BY <1>1 DEF BuildState, NextPlace
<1>11. BuildState(s)'
  BY <1>3, <1>4, <1>5, <1>6, <1>7, <1>8, <1>9, <1>10 DEF BuildState
<1>12. PhaseOk(s)'
  BY <1>11 DEF PhaseOk, NextPlace, Early, Closing, Teardown
<1> QED BY <1>12, OneMoves

(***************************************************************************)
(* One module of a loop over the load order.                               *)
(***************************************************************************)
LEMMA HookGoesOn ==
    ASSUME NEW s \in Sessions, PhaseInv, PhaseTypeOK', pc[s] \in HookPhases, NextModule(s),
           Pass(s, order[s][pos[s] + 1]),
           UNCHANGED <<start, order, hookOrder, initializing, sealed, state>>,
           pc[s] = "migrate_state" \/ pending'[s] = pending[s],
           \A t \in Sessions \ {s} : Same(t)
    PROVE  PhaseInv'
<1> USE DEF AfterStart, AfterAssign, AfterValidate, AfterRestore, AfterVerify, AfterMigrate,
            AfterSeal, AfterRegister, AfterExecute, HookPhases
<1> DEFINE p == pc[s]
           n == pos[s]
           q == order[s]
<1>1. BuildState(s)
  BY DEF PhaseInv, PhaseOk
<1>2. /\ Len(q) \in Nat \ {0} /\ Upto(q, 0) = {} /\ Upto(q, Len(q)) = All(s)
      /\ n \in 0..Len(q) - 1
      /\ Upto(q, n) \cup {q[n + 1]} = Upto(q, n + 1)
  BY <1>1, AllInOrder, LoopFacts DEF BuildState, OrderIsRight
<1>3. passed[s][p] = Upto(q, n)
  BY <1>1 DEF BuildState, WentThrough, Went
<1>4. passed'[s] = [passed[s] EXCEPT ![p] = Upto(q, n + 1)]
  <2>1. passed' = [passed EXCEPT ![s][p] = @ \cup {q[n + 1]}]
    BY DEF Pass
  <2> QED BY <1>2, <1>3, <2>1 DEF PhaseInv, PhaseTypeOK
<1>5. \A r \in Phases : passed'[s][r] = IF r = p THEN Upto(q, n + 1) ELSE passed[s][r]
  BY <1>4 DEF PhaseInv, PhaseTypeOK
<1>6. OrderIsRight(s)' /\ (hookOrder[s] = IF start[s].form = "check" THEN <<>> ELSE order[s])'
  BY <1>1 DEF BuildState, OrderIsRight
<1>7. WentThrough(s) /\ WayOfForm(s) /\ initializing'[s] = NoModule
  BY <1>1 DEF BuildState
<1> HIDE DEF p, n, q
<1>8. CASE n + 1 = Len(q)
  <2>1. pc' = [pc EXCEPT ![s] = After(s)] /\ pos' = [pos EXCEPT ![s] = 0]
    BY <1>8 DEF NextModule, Proceed, Goto, n, q
  <2>2. pc'[s] = After(s) /\ pos'[s] = 0
    BY <2>1 DEF PhaseInv, PhaseTypeOK
  <2>3. \A r \in Phases : passed'[s][r] = IF r = p THEN All(s) ELSE passed[s][r]
    BY <1>2, <1>5, <1>8
  <2>4. CASE start[s].form = "check"
    <3>1. pc[s] = "execute" /\ pc'[s] = "stop" /\ hookOrder[s] = <<>>
      BY <1>1, <2>2, <2>4 DEF BuildState, WayOfForm, After
    <3>2. (\A r \in Phases \ {"execute"} : passed[s][r] = {})'
      BY <1>7, <2>3, <3>1 DEF WentThrough, Went, Phases, Teardown, p
    <3>3. passed'[s]["execute"] = All(s)
      BY <2>3, <3>1 DEF Phases, p
    <3>4. InOrder(s)'
      <4> SUFFICES ASSUME NEW r \in HookPhases
                   PROVE  \E k \in 0..Len(q) : passed'[s][r] = Upto(q, k)
        BY DEF InOrder, q
      <4>1. 0 \in 0..Len(q) /\ Len(q) \in 0..Len(q)
        BY <1>2
      <4>2. CASE r = "execute"
        BY <1>2, <3>3, <4>1, <4>2
      <4>3. CASE r # "execute"
        BY <1>2, <3>2, <4>1, <4>3 DEF Phases
      <4> QED BY <4>2, <4>3
    <3>5. Barriers(s)'
      BY <1>1, <2>4, <3>1, <3>2 DEF Barriers, BuildState, Phases
    <3>6. From(<<>>, 0) = {} /\ 0 \in 0..Len(<<>>)
      BY DEF From
    <3>7. (TornDown(s, "stop") /\ TornDown(s, "unregister"))'
      BY <2>2, <3>1, <3>2, <3>6 DEF TornDown, Phases, Teardown
    <3>8. CloseState(s)'
      BY <1>6, <1>7, <2>2, <3>1, <3>2, <3>4, <3>5, <3>6, <3>7
         DEF CloseState, Phases, Teardown, q
    <3>9. PhaseOk(s)'
      BY <3>1, <3>8 DEF PhaseOk, Early
    <3> QED BY <3>9, OneMoves
  <2>5. CASE start[s].form # "check"
    <3>1. \/ p = "execute" /\ pc'[s] = "register"
          \/ p = "register" /\ pc'[s] = "seal"
          \/ p = "migrate_state" /\ pc'[s] = "verify"
          \/ p = "restore_instances" /\ pc'[s] = "validate_state"
          \/ p = "validate_state" /\ pc'[s] = "restored"
          \/ p = "start" /\ pc'[s] = "started"
      BY <2>2, <2>5 DEF After, p
    <3>2. pc'[s] \in HookPhases => pos'[s] \in 0..Len(order'[s]) - 1
      BY <1>2, <2>2 DEF q
    <3>3. WayOfForm(s)'
      BY <1>7, <2>5, <3>1 DEF WayOfForm, Forms, p
    <3>4. Went(s, "execute", AfterExecute, All(s))' /\ Went(s, "register", AfterRegister, All(s))'
      BY <1>2, <1>7, <2>2, <2>3, <3>1 DEF WentThrough, Went, All, Phases, p, q
    <3>5. Went(s, "migrate_state", AfterMigrate, AllOfLoad(s))'
      BY <1>2, <1>7, <2>2, <2>3, <3>1
         DEF WentThrough, Went, All, AllOfLoad, WayOfForm, Forms, Phases, p, q
    <3>6. Went(s, "restore_instances", AfterRestore, AllOfLoad(s))'
      BY <1>2, <1>7, <2>2, <2>3, <3>1
         DEF WentThrough, Went, All, AllOfLoad, WayOfForm, Forms, Phases, p, q
    <3>7. Went(s, "validate_state", AfterValidate, All(s))' /\ Went(s, "start", AfterStart, All(s))'
      BY <1>2, <1>7, <2>2, <2>3, <3>1 DEF WentThrough, Went, All, Phases, p, q
    <3>8. (passed[s]["stop"] = {} /\ passed[s]["unregister"] = {})'
      BY <1>7, <2>3, <3>1 DEF WentThrough, Phases, Teardown
    <3>9. WentThrough(s)'
      BY <3>4, <3>5, <3>6, <3>7, <3>8 DEF WentThrough
    <3>10. /\ sealed'[s] = IF pc'[s] \in AfterSeal THEN Registries ELSE 0
           /\ pc'[s] \notin {"migrate_state", "verify"} => pending'[s] = {}
           /\ state'[s] = IF pc'[s] \in AfterAssign THEN start'[s].form ELSE "none"
      BY <1>1, <3>1 DEF BuildState, p
    <3>11. BuildState(s)'
      BY <1>6, <1>7, <3>2, <3>3, <3>9, <3>10 DEF BuildState
    <3>12. PhaseOk(s)'
      BY <3>1, <3>11 DEF PhaseOk, Early, Closing, Teardown
    <3> QED BY <3>12, OneMoves
  <2> QED BY <2>4, <2>5
<1>9. CASE n + 1 # Len(q)
  <2>1. pos' = [pos EXCEPT ![s] = @ + 1] /\ UNCHANGED pc
    BY <1>9 DEF NextModule, n, q
  <2>2. pos'[s] = n + 1 /\ pc'[s] = p
    BY <2>1 DEF PhaseInv, PhaseTypeOK, n, p
  <2>3. pc'[s] \in HookPhases => pos'[s] \in 0..Len(order'[s]) - 1
    BY <1>2, <1>9, <2>2 DEF q
  <2>4. WayOfForm(s)'
    BY <1>7, <2>2 DEF WayOfForm, p
  <2>5. WentThrough(s)'
    BY <1>5, <1>7, <2>2
       DEF WentThrough, Went, All, AllOfLoad, Phases, Teardown, p, q
  <2>6. /\ sealed'[s] = IF pc'[s] \in AfterSeal THEN Registries ELSE 0
        /\ pc'[s] \notin {"migrate_state", "verify"} => pending'[s] = {}
        /\ state'[s] = IF pc'[s] \in AfterAssign THEN start'[s].form ELSE "none"
    BY <1>1, <2>2 DEF BuildState, p
  <2>7. BuildState(s)'
    BY <1>6, <1>7, <2>3, <2>4, <2>5, <2>6 DEF BuildState
  <2>8. PhaseOk(s)'
    BY <2>2, <2>7 DEF PhaseOk, Early, Closing, Teardown, p
  <2> QED BY <2>8, OneMoves
<1> QED BY <1>8, <1>9

(***************************************************************************)
(* The graph is loaded.                                                    *)
(***************************************************************************)
LEMMA LoadGraphKeepsPhaseInv ==
    ASSUME NEW s \in Sessions, PhaseInv, LoadGraph(s)
    PROVE  PhaseInv'
<1> USE DEF PhaseInv
<1> DEFINE g == start[s].graph
           q == LoadOrder(g)
<1>1. /\ pc[s] = "graph"
      /\ UNCHANGED <<start, initializing, passed, sealed, pending, state>>
  BY DEF LoadGraph, stateVars
<1>2. Fresh(s) /\ start[s].form \in Forms /\ g \in Graphs
  BY <1>1 DEF PhaseOk, Early
<1>3. CASE GraphLoads(g)
  <2>1. /\ order' = [order EXCEPT ![s] = q]
        /\ hookOrder' = [hookOrder EXCEPT ![s] =
                           IF start[s].form = "check" THEN <<>> ELSE order'[s]]
        /\ pc' = [pc EXCEPT ![s] = "execute"]
        /\ pos' = [pos EXCEPT ![s] = 0]
    BY <1>3 DEF LoadGraph, Proceed, Goto
  <2>2. q \in Seq(Modules) /\ RightOrder(g, q)
    BY <1>2, <1>3, GraphsAreDeclarations, LoadOrderIsRight
  <2>3. q # <<>>
    <3>1. Entry \in Declared(g)
      BY <1>3 DEF GraphLoads, WellDeclared
    <3>2. Entry \in ToSet(q)
      BY <2>2, <3>1 DEF RightOrder
    <3> QED BY <3>2 DEF ToSet
  <2> HIDE DEF q
  <2>4. order'[s] = q /\ pc'[s] = "execute" /\ pos'[s] = 0
    BY <2>1 DEF PhaseTypeOK
  <2>5. hookOrder'[s] = IF start[s].form = "check" THEN <<>> ELSE q
    BY <2>1, <2>4 DEF PhaseTypeOK
  <2>6. hookOrder'[s] \in Seq(Modules)
    BY <2>2, <2>5
  <2>7. hookOrder' \in [Sessions -> Seq(Modules)]
    <3>1. hookOrder' = [hookOrder EXCEPT ![s] = hookOrder'[s]]
      BY <2>1 DEF PhaseTypeOK
    <3> QED BY <2>6, <3>1 DEF PhaseTypeOK
  <2>8. PhaseTypeOK'
    BY <1>1, <2>1, <2>2, <2>7 DEF PhaseTypeOK, PcSet, BuildPhases
  <2>9. \A t \in Sessions \ {s} : Same(t)
    BY <1>1, <2>1 DEF Same, PhaseTypeOK
  <2>10. Upto(q, 0) = {} /\ Len(q) \in Nat \ {0}
    BY <2>2, <2>3, LoopFacts
  <2>11. OrderIsRight(s)'
    BY <1>1, <2>2, <2>3, <2>4 DEF OrderIsRight
  <2>12. WentThrough(s)'
    BY <1>1, <1>2, <2>4, <2>10
       DEF WentThrough, Went, Fresh, NobodyPassed, Phases, Teardown, AfterStart, AfterAssign,
           AfterValidate, AfterRestore, AfterVerify, AfterMigrate, AfterSeal, AfterRegister,
           AfterExecute
  <2>13. WayOfForm(s)'
    BY <1>1, <1>2, <2>4 DEF WayOfForm
  <2>14. pc'[s] \notin AfterSeal \cup AfterAssign
    BY <2>4 DEF AfterStart, AfterAssign, AfterValidate, AfterRestore, AfterVerify,
                AfterMigrate, AfterSeal
  <2>15. pos'[s] \in 0..Len(order'[s]) - 1
    BY <2>4, <2>10
  <2>16. BuildState(s)'
    BY <1>1, <1>2, <2>4, <2>5, <2>11, <2>12, <2>13, <2>14, <2>15 DEF BuildState, Fresh
  <2>17. PhaseOk(s)'
    BY <2>4, <2>16 DEF PhaseOk, Early, Closing, Teardown
  <2> QED BY <2>8, <2>9, <2>17, OneMoves
<1>4. CASE ~GraphLoads(g)
  <2>1. BeginStop(s, "error") /\ UNCHANGED <<order, hookOrder>>
    BY <1>4 DEF LoadGraph, Fail
  <2> QED BY <1>1, <2>1, StopKeepsPhaseInv DEF Early
<1> QED BY <1>3, <1>4

(***************************************************************************)
(* The teardown.                                                           *)
(***************************************************************************)
LEMMA LeaveTeardownKeepsPhaseInv ==
    ASSUME NEW s \in Sessions, PhaseInv, pc[s] \in Teardown, LeaveTeardown(s),
           UNCHANGED <<start, order, hookOrder, initializing, passed, sealed, pending, state>>
    PROVE  PhaseInv'
<1> USE DEF PhaseInv, Teardown
<1>1. CloseState(s)
  BY DEF PhaseOk, Closing
<1>2. \/ /\ pc[s] = "stop"
         /\ pc' = [pc EXCEPT ![s] = "unregister"]
         /\ pos' = [pos EXCEPT ![s] = Len(hookOrder[s])]
      \/ /\ pc[s] = "unregister"
         /\ pc' = [pc EXCEPT ![s] = "close"]
         /\ pos' = [pos EXCEPT ![s] = 0]
  BY DEF LeaveTeardown, Goto
<1>3. /\ hookOrder[s] \in Seq(Modules) /\ Len(hookOrder[s]) \in Nat
      /\ From(hookOrder[s], Len(hookOrder[s])) = {}
  BY LoopFacts DEF PhaseTypeOK
<1>4. PhaseTypeOK'
  <2>1. pc' \in [Sessions -> PcSet]
    BY <1>2 DEF PhaseTypeOK, PcSet
  <2>2. PICK k \in Nat : pos' = [pos EXCEPT ![s] = k]
    BY <1>2, <1>3
  <2>3. pos' \in [Sessions -> Nat]
    BY <2>2 DEF PhaseTypeOK
  <2> QED BY <2>1, <2>3 DEF PhaseTypeOK
<1>5. \A t \in Sessions \ {s} : Same(t)
  BY <1>2 DEF Same, PhaseTypeOK
<1>6. \/ pc[s] = "stop" /\ pc'[s] = "unregister" /\ pos'[s] = Len(hookOrder[s])
      \/ pc[s] = "unregister" /\ pc'[s] = "close" /\ pos'[s] = 0
  BY <1>2 DEF PhaseTypeOK
<1>7. (/\ order[s] = <<>> \/ OrderIsRight(s)
       /\ hookOrder[s] = <<>> \/ hookOrder[s] = order[s]
       /\ Barriers(s)
       /\ InOrder(s)
       /\ initializing[s] # NoModule => passed[s]["execute"] # All(s)
       /\ \A p \in Teardown : passed[s][p] # {} => passed[s]["execute"] = All(s))'
  BY <1>1 DEF CloseState, OrderIsRight, Barriers, InOrder, All
<1>8. pc'[s] \in Teardown => pos'[s] \in 0..Len(hookOrder'[s])
  BY <1>3, <1>6
<1>9. pos[s] \in 0..Len(hookOrder[s])
  BY <1>1 DEF CloseState
<1>10. TornDown(s, "stop")'
  BY <1>1, <1>6, <1>9 DEF CloseState, TornDown
<1>11. TornDown(s, "unregister")'
  BY <1>1, <1>3, <1>6, <1>9 DEF CloseState, TornDown
<1>12. CloseState(s)'
  BY <1>6, <1>7, <1>8, <1>10, <1>11 DEF CloseState
<1>13. PhaseOk(s)'
  BY <1>6, <1>12 DEF PhaseOk, Early, AfterExecute, AfterRegister, AfterSeal, AfterMigrate,
         AfterVerify, AfterRestore, AfterValidate, AfterAssign, AfterStart
<1> QED BY <1>4, <1>5, <1>13, OneMoves

LEMMA TeardownGoesOn ==
    ASSUME NEW s \in Sessions, PhaseInv, pc[s] \in Teardown, pos[s] > 0,
           hookOrder[s][pos[s]] \in passed[s]["execute"], Pass(s, hookOrder[s][pos[s]]),
           pos' = [pos EXCEPT ![s] = @ - 1],
           UNCHANGED <<pc, start, order, hookOrder, initializing, sealed, pending, state>>
    PROVE  PhaseInv'
<1> USE DEF PhaseInv
<1> DEFINE p == pc[s]
           n == pos[s]
           h == hookOrder[s]
<1>1. CloseState(s)
  BY DEF PhaseOk, Closing
<1>2. /\ h \in Seq(Modules) /\ Len(h) \in Nat /\ n \in 1..Len(h)
  BY <1>1 DEF CloseState, PhaseTypeOK
<1>3. h # <<>> /\ h = order[s] /\ OrderIsRight(s)
  <2>1. h # <<>>
    BY <1>2
  <2> QED BY <1>1, <2>1 DEF CloseState
<1>4. /\ From(h, n) \cup {h[n]} = From(h, n - 1) /\ h[n] \in Modules
      /\ From(h, Len(h)) = {}
  <2>1. n - 1 \in 0..Len(h) - 1 /\ (n - 1) + 1 = n
    BY <1>2
  <2> QED BY <1>2, <2>1, LoopFacts
<1>5. passed[s][p] = From(h, n)
  BY <1>1 DEF CloseState, TornDown, Teardown
<1> HIDE DEF n, h
<1>6. passed'[s] = [passed[s] EXCEPT ![p] = From(h, n - 1)]
  <2>1. passed' = [passed EXCEPT ![s][p] = @ \cup {h[n]}]
    BY DEF Pass, h, n
  <2> QED BY <1>4, <1>5, <2>1 DEF PhaseTypeOK
<1>7. \A r \in Phases : passed'[s][r] = IF r = p THEN From(h, n - 1) ELSE passed[s][r]
  BY <1>6 DEF PhaseTypeOK
<1>8. pos'[s] = n - 1 /\ n - 1 \in 0..Len(h)
  BY <1>2 DEF PhaseTypeOK, n
<1>9. PhaseTypeOK'
  <2>1. passed' \in [Sessions -> [Phases -> SUBSET Modules]]
    BY <1>4, PassTyped DEF h, n, Teardown, Phases
  <2>2. pos' = [pos EXCEPT ![s] = n - 1] /\ n - 1 \in Nat
    BY <1>2 DEF n
  <2>3. pos' \in [Sessions -> Nat]
    BY <2>2 DEF PhaseTypeOK
  <2> QED BY <2>1, <2>3 DEF PhaseTypeOK
<1>10. \A t \in Sessions \ {s} : Same(t)
  BY DEF Same, PhaseTypeOK, Pass
<1>11. passed[s]["execute"] = All(s)
  <2>1. CASE n = Len(h)
    <3>1. PICK k \in 0..Len(h) : passed[s]["execute"] = Upto(h, k)
      BY <1>1, <1>3 DEF CloseState, InOrder, HookPhases
    <3>2. h[n] \in Upto(h, k)
      BY <3>1 DEF h, n
    <3>3. n <= k
      BY <1>2, <1>3, <3>2, NotYetThere
    <3>4. k = Len(h)
      BY <1>2, <2>1, <3>3
    <3> QED BY <1>3, <3>1, <3>4, AllInOrder
  <2>2. CASE n # Len(h)
    <3>1. h[n + 1] \in From(h, n)
      BY <1>2, <2>2 DEF From
    <3> QED BY <1>1, <1>5, <3>1 DEF CloseState
  <2> QED BY <2>1, <2>2
<1>12. p \in Teardown /\ p \notin HookPhases /\ Teardown \cup HookPhases \subseteq Phases
  BY DEF p, Teardown, HookPhases, Phases
<1> HIDE DEF p
<1>13. \A r \in HookPhases : passed'[s][r] = passed[s][r]
  BY <1>7, <1>12
<1>14. Barriers(s)' /\ InOrder(s)'
  <2>1. Barriers(s)'
    BY <1>1, <1>13 DEF CloseState, Barriers, HookPhases
  <2>2. InOrder(s)'
    BY <1>1, <1>13 DEF CloseState, InOrder
  <2> QED BY <2>1, <2>2
<1>15. (TornDown(s, "stop") /\ TornDown(s, "unregister"))'
  <2>1. ASSUME NEW r \in Teardown PROVE TornDown(s, r)'
    <3>1. TornDown(s, r)
      BY <1>1 DEF CloseState, Teardown
    <3>2. CASE r = p
      BY <1>7, <1>8, <1>12, <3>2 DEF TornDown, h, p
    <3>3. CASE r # p
      BY <1>7, <1>12, <3>1, <3>3 DEF TornDown, h, p
    <3> QED BY <3>2, <3>3
  <2> QED BY <2>1 DEF Teardown
<1>16. passed'[s]["execute"] = All(s)' /\ initializing'[s] = NoModule
  BY <1>1, <1>11, <1>13 DEF CloseState, All, HookPhases
<1>17. (pc[s] = "stop" => passed[s]["unregister"] = {})'
  BY <1>1, <1>7 DEF CloseState, Phases, Teardown, p
<1>18. CloseState(s)'
  BY <1>1, <1>3, <1>8, <1>14, <1>15, <1>16, <1>17 DEF CloseState, OrderIsRight, h
<1>19. PhaseOk(s)'
  BY <1>18 DEF PhaseOk, Teardown, Early, AfterExecute, AfterRegister, AfterSeal, AfterMigrate,
         AfterVerify, AfterRestore, AfterValidate, AfterAssign, AfterStart
<1> QED BY <1>9, <1>10, <1>19, OneMoves

LEMMA CloseKeepsPhaseInv ==
    ASSUME NEW s \in Sessions, PhaseInv, Close(s)
    PROVE  PhaseInv'
<1> USE DEF PhaseInv
<1>1. /\ order' = [order EXCEPT ![s] = <<>>]
      /\ hookOrder' = [hookOrder EXCEPT ![s] = <<>>]
      /\ initializing' = [initializing EXCEPT ![s] = NoModule]
      /\ passed' = [passed EXCEPT ![s] = NobodyPassed]
      /\ sealed' = [sealed EXCEPT ![s] = 0]
      /\ pending' = [pending EXCEPT ![s] = {}]
      /\ state' = [state EXCEPT ![s] = "none"]
      /\ UNCHANGED <<start, pos>>
  BY DEF Close
<1>2. PICK p \in {"absent", "requested"} : pc' = [pc EXCEPT ![s] = p]
  BY DEF Close, Goto
<1>3. NobodyPassed \in [Phases -> SUBSET Modules] /\ 0 \in 0..Registries
  BY RuntimeSessionAssumption DEF NobodyPassed
<1>4. PhaseTypeOK'
  BY <1>1, <1>2, <1>3 DEF PhaseTypeOK, PcSet
<1>5. \A t \in Sessions \ {s} : Same(t)
  BY <1>1, <1>2 DEF Same, PhaseTypeOK
<1>6. Fresh(s)' /\ pc'[s] = p
  BY <1>1, <1>2 DEF Fresh, PhaseTypeOK
<1>7. PhaseOk(s)'
  BY <1>6 DEF PhaseOk, Closing, Teardown, AfterExecute, AfterRegister, AfterSeal, AfterMigrate,
         AfterVerify, AfterRestore, AfterValidate, AfterAssign, AfterStart
<1> QED BY <1>4, <1>5, <1>7, OneMoves

-----------------------------------------------------------------------------
LEMMA InitPhases == Init => PhaseInv
<1> SUFFICES ASSUME Init PROVE PhaseInv
  OBVIOUS
<1>1. PhaseTypeOK
  <2>1. pc \in [Sessions -> PcSet] /\ pos \in [Sessions -> Nat]
    BY DEF Init, PcSet
  <2>2. start \in [Sessions -> [form : Forms \cup {"none"}, graph : Graphs \cup {<<>>},
                                number : Nat]]
    BY DEF Init, NoStart
  <2>3. order \in [Sessions -> Seq(Modules)] /\ hookOrder \in [Sessions -> Seq(Modules)]
    BY DEF Init
  <2>4. /\ initializing \in [Sessions -> Modules \cup {NoModule}]
        /\ pending \in [Sessions -> SUBSET Sections]
        /\ state \in [Sessions -> Forms \cup {"none"}]
    BY DEF Init
  <2>5. passed \in [Sessions -> [Phases -> SUBSET Modules]]
    BY DEF Init, NobodyPassed
  <2>6. sealed \in [Sessions -> 0..Registries]
    BY RuntimeSessionAssumption DEF Init
  <2> QED BY <2>1, <2>2, <2>3, <2>4, <2>5, <2>6 DEF PhaseTypeOK
<1>2. ASSUME NEW s \in Sessions PROVE PhaseOk(s)
  <2>1. Fresh(s) /\ pc[s] = "absent"
    BY DEF Init, Fresh
  <2> QED BY <2>1 DEF PhaseOk, Closing, Teardown, AfterExecute, AfterRegister, AfterSeal,
         AfterMigrate, AfterVerify, AfterRestore, AfterValidate, AfterAssign, AfterStart
<1> QED BY <1>1, <1>2 DEF PhaseInv

LEMMA ProceedTyped ==
    ASSUME NEW s \in Sessions, PhaseInv, NEW q \in PcSet, Proceed(s, q)
    PROVE  /\ pc' \in [Sessions -> PcSet] /\ pos' \in [Sessions -> Nat]
           /\ pc'[s] = q /\ pos'[s] = 0
           /\ \A t \in Sessions \ {s} : pc'[t] = pc[t] /\ pos'[t] = pos[t]
<1> QED BY DEF PhaseInv, PhaseTypeOK, Proceed, Goto

\* A step between two loops that changes but the place.
LEMMA ProceedKeepsPhaseInv ==
    ASSUME NEW s \in Sessions, PhaseInv, NEW q \in PcSet, Proceed(s, q),
           NextPlace(pc[s], q, start[s].form), pc[s] \notin {"seal", "decode", "assign"},
           pc[s] = "verify" => pending[s] = {},
           UNCHANGED <<start, order, hookOrder, initializing, passed, sealed, pending, state>>
    PROVE  PhaseInv'
<1>1. /\ pc' \in [Sessions -> PcSet] /\ pos' \in [Sessions -> Nat]
      /\ pc'[s] = q /\ pos'[s] = 0
      /\ \A t \in Sessions \ {s} : pc'[t] = pc[t] /\ pos'[t] = pos[t]
  BY ProceedTyped
<1>2. PhaseTypeOK'
  BY <1>1 DEF PhaseInv, PhaseTypeOK
<1>3. \A t \in Sessions \ {s} : Same(t)
  BY <1>1 DEF Same
<1> QED BY <1>1, <1>2, <1>3, BuildGoesOn

LEMMA BuildPlaces ==
    /\ {"seal", "registered", "compose", "decode", "verify", "tree", "built", "restored",
        "assign", "started", "running"} \cup HookPhases
         \subseteq AfterExecute \cup {"execute"}
    /\ {"registered", "decode", "compose", "tree", "migrate_state", "built", "restore_instances",
        "validate_state", "assign", "start", "running", "graph"} \subseteq PcSet
<1> QED BY DEF AfterExecute, AfterRegister, AfterSeal, AfterMigrate, AfterVerify, AfterRestore,
         AfterValidate, AfterAssign, AfterStart, HookPhases, PcSet, BuildPhases, CallbackPoints

LEMMA ExecuteKeepsPhaseInv ==
    ASSUME NEW s \in Sessions, PhaseInv, Execute(s)
    PROVE  PhaseInv'
<1> DEFINE q == order[s]
           m == q[pos[s] + 1]
<1>1. /\ pc[s] = "execute"
      /\ UNCHANGED <<start, order, hookOrder, sealed, pending, state>>
  BY DEF Execute, stateVars
<1>2. BuildState(s) /\ PhaseTypeOK
  BY <1>1 DEF PhaseInv, PhaseOk
<1>3. /\ pos[s] \in 0..Len(q) - 1 /\ m \in Modules /\ Len(q) \in Nat
      /\ passed[s]["execute"] = Upto(q, pos[s])
  BY <1>1, <1>2, LoopFacts DEF BuildState, OrderIsRight, HookPhases, WentThrough, Went
<1> HIDE DEF m, q
<1>4. CASE Pass(s, m) /\ NextModule(s) /\ UNCHANGED initializing
  <2>1. /\ passed' \in [Sessions -> [Phases -> SUBSET Modules]]
        /\ \A t \in Sessions \ {s} : passed'[t] = passed[t]
    BY <1>1, <1>3, <1>4, PassTyped DEF Phases
  <2>2. /\ pc' \in [Sessions -> PcSet] /\ pos' \in [Sessions -> Nat]
        /\ \A t \in Sessions \ {s} : pc'[t] = pc[t] /\ pos'[t] = pos[t]
    <3>1. CASE Proceed(s, After(s))
      <4>1. After(s) \in PcSet
        BY <1>1 DEF After, PcSet, Teardown, BuildPhases
      <4> QED BY <3>1, <4>1, ProceedTyped
    <3>2. CASE pos' = [pos EXCEPT ![s] = @ + 1] /\ UNCHANGED pc
      BY <1>2, <3>2 DEF PhaseTypeOK
    <3> QED BY <1>4, <3>1, <3>2 DEF NextModule
  <2>3. PhaseTypeOK'
    BY <1>1, <1>2, <1>4, <2>1, <2>2 DEF PhaseTypeOK
  <2>4. \A t \in Sessions \ {s} : Same(t)
    BY <1>1, <1>4, <2>1, <2>2 DEF Same
  <2> QED BY <1>1, <1>4, <2>3, <2>4, HookGoesOn DEF HookPhases, m, q
<1>5. CASE Fail(s) /\ initializing' = [initializing EXCEPT ![s] = m] /\ UNCHANGED passed
  <2>1. pc' = [pc EXCEPT ![s] = "stop"] /\ pos' = [pos EXCEPT ![s] = Len(hookOrder[s])]
    BY <1>5 DEF Fail, BeginStop, Goto
  <2>2. Len(hookOrder[s]) \in Nat
    BY <1>2 DEF PhaseTypeOK
  <2>3. /\ pc' \in [Sessions -> PcSet] /\ pos' \in [Sessions -> Nat]
        /\ initializing' \in [Sessions -> Modules \cup {NoModule}]
    BY <1>2, <1>3, <1>5, <2>1, <2>2 DEF PhaseTypeOK, PcSet, Teardown
  <2>4. PhaseTypeOK'
    BY <1>1, <1>2, <1>5, <2>3 DEF PhaseTypeOK
  <2>5. \A t \in Sessions \ {s} : Same(t)
    BY <1>1, <1>2, <1>5, <2>1 DEF Same, PhaseTypeOK
  <2>6. pc'[s] = "stop" /\ pos'[s] = Len(hookOrder[s])
    BY <1>2, <2>1 DEF PhaseTypeOK
  <2>7. m \in All(s)
    BY <1>2, <1>3, AllInOrder DEF m, q, BuildState, Upto
  <2>8. m \notin passed[s]["execute"]
    <3>1. pos[s] \in 0..Len(q) /\ pos[s] + 1 \in 1..Len(q) /\ ~(pos[s] + 1 <= pos[s])
      BY <1>3
    <3> QED BY <1>2, <1>3, <3>1, NotYetThere DEF m, q, BuildState
  <2>9. Barriers(s)
    BY <1>1, <1>2, BuildBarriers
  <2>10. Barriers(s)'
    BY <1>1, <1>5, <2>9 DEF Barriers
  <2> QED BY <1>1, <1>5, <2>4, <2>5, <2>6, <2>7, <2>8, <2>10, CloseStateFrom
<1> QED BY <1>4, <1>5 DEF Execute, m, q

LEMMA RunHookKeepsPhaseInv ==
    ASSUME NEW s \in Sessions, PhaseInv, RunHook(s)
    PROVE  PhaseInv'
<1> DEFINE q == order[s]
           m == q[pos[s] + 1]
<1>1. /\ pc[s] \in HookPhases
      /\ UNCHANGED <<start, order, hookOrder, initializing, sealed, state>>
  BY DEF RunHook, HookPhases, loadVars
<1>2. BuildState(s) /\ PhaseTypeOK
  BY <1>1, BuildPlaces DEF PhaseInv, PhaseOk
<1>3. pos[s] \in 0..Len(q) - 1 /\ m \in Modules
  BY <1>1, <1>2, LoopFacts DEF BuildState, OrderIsRight
<1> HIDE DEF m, q
<1>4. CASE /\ Pass(s, m) /\ NextModule(s)
           /\ \E left \in SUBSET pending[s] :
                /\ pc[s] # "migrate_state" => left = pending[s]
                /\ pending' = [pending EXCEPT ![s] = left]
  <2>1. /\ passed' \in [Sessions -> [Phases -> SUBSET Modules]]
        /\ \A t \in Sessions \ {s} : passed'[t] = passed[t]
    BY <1>1, <1>3, <1>4, PassTyped DEF Phases, HookPhases
  <2>2. /\ pc' \in [Sessions -> PcSet] /\ pos' \in [Sessions -> Nat]
        /\ \A t \in Sessions \ {s} : pc'[t] = pc[t] /\ pos'[t] = pos[t]
    <3>1. CASE Proceed(s, After(s))
      <4>1. After(s) \in PcSet
        BY <1>1 DEF After, PcSet, Teardown, BuildPhases, CallbackPoints, HookPhases
      <4> QED BY <3>1, <4>1, ProceedTyped
    <3>2. CASE pos' = [pos EXCEPT ![s] = @ + 1] /\ UNCHANGED pc
      BY <1>2, <3>2 DEF PhaseTypeOK
    <3> QED BY <1>4, <3>1, <3>2 DEF NextModule
  <2>3. PICK left \in SUBSET pending[s] :
          /\ pc[s] # "migrate_state" => left = pending[s]
          /\ pending' = [pending EXCEPT ![s] = left]
    BY <1>4
  <2>4. /\ pending' \in [Sessions -> SUBSET Sections] /\ pending'[s] = left
        /\ \A t \in Sessions \ {s} : pending'[t] = pending[t]
    BY <1>2, <2>3 DEF PhaseTypeOK
  <2>5. PhaseTypeOK'
    BY <1>1, <1>2, <2>1, <2>2, <2>4 DEF PhaseTypeOK
  <2>6. \A t \in Sessions \ {s} : Same(t)
    BY <1>1, <2>1, <2>2, <2>4 DEF Same
  <2> QED BY <1>1, <1>4, <2>3, <2>4, <2>5, <2>6, HookGoesOn DEF m, q
<1>5. CASE Fail(s) /\ UNCHANGED <<passed, pending>>
  BY <1>1, <1>5, BuildPlaces, StopKeepsPhaseInv DEF Fail
<1> QED BY <1>4, <1>5 DEF RunHook, m, q

LEMMA SealKeepsPhaseInv ==
    ASSUME NEW s \in Sessions, PhaseInv, Seal(s)
    PROVE  PhaseInv'
<1>1. /\ pc[s] = "seal" /\ UNCHANGED <<start, order, hookOrder, initializing, passed, pending, state>>
  BY DEF Seal, loadVars
<1>2. BuildState(s) /\ PhaseTypeOK
  BY <1>1, BuildPlaces DEF PhaseInv, PhaseOk
<1>3. PICK n \in 0..Registries :
         /\ sealed' = [sealed EXCEPT ![s] = n]
         /\ IF n = Registries THEN Proceed(s, "registered") ELSE Fail(s)
  BY DEF Seal
<1>4. /\ sealed' \in [Sessions -> 0..Registries] /\ sealed'[s] = n
      /\ \A t \in Sessions \ {s} : sealed'[t] = sealed[t]
  BY <1>2, <1>3 DEF PhaseTypeOK
<1>5. CASE n = Registries
  <2>1. /\ pc' \in [Sessions -> PcSet] /\ pos' \in [Sessions -> Nat]
        /\ pc'[s] = "registered" /\ pos'[s] = 0
        /\ \A t \in Sessions \ {s} : pc'[t] = pc[t] /\ pos'[t] = pos[t]
    BY <1>3, <1>5, BuildPlaces, ProceedTyped
  <2>2. PhaseTypeOK'
    BY <1>1, <1>2, <1>4, <2>1 DEF PhaseTypeOK
  <2>3. \A t \in Sessions \ {s} : Same(t)
    BY <1>1, <1>4, <2>1 DEF Same
  <2>4. NextPlace(pc[s], pc'[s], start[s].form)
    BY <1>1, <2>1 DEF NextPlace
  <2> QED BY <1>1, <1>4, <1>5, <2>1, <2>2, <2>3, <2>4, BuildGoesOn
<1>6. CASE n # Registries
  <2>1. pc' = [pc EXCEPT ![s] = "stop"] /\ pos' = [pos EXCEPT ![s] = Len(hookOrder[s])]
    BY <1>3, <1>6 DEF Fail, BeginStop, Goto
  <2>2. Len(hookOrder[s]) \in Nat
    BY <1>2 DEF PhaseTypeOK
  <2>3. /\ pc' \in [Sessions -> PcSet] /\ pos' \in [Sessions -> Nat]
        /\ pc'[s] = "stop" /\ pos'[s] = Len(hookOrder[s])
    BY <1>2, <2>1, <2>2 DEF PhaseTypeOK, PcSet, Teardown
  <2>4. PhaseTypeOK'
    BY <1>1, <1>2, <1>4, <2>3 DEF PhaseTypeOK
  <2>5. \A t \in Sessions \ {s} : Same(t)
    BY <1>1, <1>2, <1>4, <2>1 DEF Same, PhaseTypeOK
  <2>6. /\ \A p \in {"migrate_state", "restore_instances", "validate_state", "start"} :
              passed[s][p] = {}
        /\ state[s] = "none" /\ initializing[s] = NoModule
        /\ passed[s]["execute"] = All(s)
    BY <1>1, <1>2
       DEF BuildState, WentThrough, Went, AfterStart, AfterAssign, AfterValidate, AfterRestore,
           AfterVerify, AfterMigrate, AfterSeal, AfterRegister, AfterExecute
  <2>7. Barriers(s)'
    BY <1>1, <2>6 DEF Barriers, All
  <2> QED BY <1>1, <2>3, <2>4, <2>5, <2>6, <2>7, BuildPlaces, CloseStateFrom
<1> QED BY <1>5, <1>6

LEMMA DecodeKeepsPhaseInv ==
    ASSUME NEW s \in Sessions, PhaseInv, Decode(s)
    PROVE  PhaseInv'
<1>1. /\ pc[s] = "decode"
      /\ UNCHANGED <<start, order, hookOrder, initializing, passed, sealed, state>>
  BY DEF Decode, loadVars
<1>2. BuildState(s) /\ PhaseTypeOK
  BY <1>1, BuildPlaces DEF PhaseInv, PhaseOk
<1>3. CASE Proceed(s, "migrate_state") /\
           \E older \in SUBSET Sections : pending' = [pending EXCEPT ![s] = older]
  <2>1. /\ pc' \in [Sessions -> PcSet] /\ pos' \in [Sessions -> Nat]
        /\ pc'[s] = "migrate_state" /\ pos'[s] = 0
        /\ \A t \in Sessions \ {s} : pc'[t] = pc[t] /\ pos'[t] = pos[t]
    BY <1>3, BuildPlaces, ProceedTyped
  <2>2. /\ pending' \in [Sessions -> SUBSET Sections]
        /\ \A t \in Sessions \ {s} : pending'[t] = pending[t]
    BY <1>2, <1>3 DEF PhaseTypeOK
  <2>3. PhaseTypeOK'
    BY <1>1, <1>2, <2>1, <2>2 DEF PhaseTypeOK
  <2>4. \A t \in Sessions \ {s} : Same(t)
    BY <1>1, <2>1, <2>2 DEF Same
  <2>5. NextPlace(pc[s], pc'[s], start[s].form)
    BY <1>1, <2>1 DEF NextPlace
  <2> QED BY <1>1, <2>1, <2>3, <2>4, <2>5, BuildGoesOn
<1>4. CASE Fail(s) /\ UNCHANGED pending
  BY <1>1, <1>4, BuildPlaces, StopKeepsPhaseInv DEF Fail
<1> QED BY <1>3, <1>4 DEF Decode

LEMMA AssignStateKeepsPhaseInv ==
    ASSUME NEW s \in Sessions, PhaseInv, AssignState(s)
    PROVE  PhaseInv'
<1>1. /\ pc[s] = "assign" /\ Proceed(s, "start")
      /\ state' = [state EXCEPT ![s] = start[s].form]
      /\ UNCHANGED <<start, order, hookOrder, initializing, passed, sealed, pending>>
  BY DEF AssignState, loadVars
<1>2. BuildState(s) /\ PhaseTypeOK
  BY <1>1, BuildPlaces DEF PhaseInv, PhaseOk
<1>3. /\ pc' \in [Sessions -> PcSet] /\ pos' \in [Sessions -> Nat]
      /\ pc'[s] = "start" /\ pos'[s] = 0
      /\ \A t \in Sessions \ {s} : pc'[t] = pc[t] /\ pos'[t] = pos[t]
  BY <1>1, BuildPlaces, ProceedTyped
<1>4. start[s].form \in Forms
  BY <1>2 DEF BuildState, WayOfForm
<1>5. /\ state' \in [Sessions -> Forms \cup {"none"}] /\ state'[s] = start[s].form
      /\ \A t \in Sessions \ {s} : state'[t] = state[t]
  BY <1>1, <1>2, <1>4 DEF PhaseTypeOK
<1>6. PhaseTypeOK'
  BY <1>1, <1>2, <1>3, <1>5 DEF PhaseTypeOK
<1>7. \A t \in Sessions \ {s} : Same(t)
  BY <1>1, <1>3, <1>5 DEF Same
<1>8. NextPlace(pc[s], pc'[s], start[s].form)
  BY <1>1, <1>3 DEF NextPlace
<1> QED BY <1>1, <1>3, <1>5, <1>6, <1>7, <1>8, BuildGoesOn

LEMMA BeforeGraphKeepsPhaseInv ==
    ASSUME NEW s \in Sessions, PhaseInv,
           RefuseInputs(s) \/ CountVm(s) \/ GiveUpVm(s) \/ CreateVm(s)
             \/ (Open(s) /\ Proceed(s, "graph"))
             \/ (RequestStart(s) /\ Goto(s, "requested"))
    PROVE  PhaseInv'
<1>1. UNCHANGED <<order, hookOrder, initializing, passed, sealed, pending, state>>
  BY DEF RefuseInputs, CountVm, GiveUpVm, CreateVm, Open, RequestStart, loadVars, stateVars
<1>2. PhaseTypeOK
  BY DEF PhaseInv
<1>3. CASE CreateVm(s)
  <2>1. PICK form \in Forms, graph \in Graphs :
          start' = [start EXCEPT ![s] =
                      [form |-> form, graph |-> graph, number |-> @.number + 1]]
    BY <1>3 DEF CreateVm
  <2>2. pc[s] = "counted" /\ pc' = [pc EXCEPT ![s] = "opening"] /\ UNCHANGED pos
    BY <1>3 DEF CreateVm, Goto
  <2>3. /\ start' \in [Sessions -> [form : Forms \cup {"none"}, graph : Graphs \cup {<<>>},
                                    number : Nat]]
        /\ start'[s].form = form /\ start'[s].graph = graph
        /\ \A t \in Sessions \ {s} : start'[t] = start[t]
    BY <1>2, <2>1 DEF PhaseTypeOK
  <2>4. /\ pc' \in [Sessions -> PcSet] /\ pc'[s] = "opening"
        /\ \A t \in Sessions \ {s} : pc'[t] = pc[t]
    BY <1>2, <2>2 DEF PhaseTypeOK, PcSet
  <2>5. PhaseTypeOK'
    BY <1>1, <1>2, <2>2, <2>3, <2>4 DEF PhaseTypeOK
  <2>6. \A t \in Sessions \ {s} : Same(t)
    BY <1>1, <2>2, <2>3, <2>4 DEF Same
  <2> QED BY <1>1, <2>2, <2>3, <2>4, <2>5, <2>6, EarlyKeepsPhaseInv DEF Early
<1>4. CASE Open(s) /\ Proceed(s, "graph")
  <2>1. /\ pc' \in [Sessions -> PcSet] /\ pos' \in [Sessions -> Nat]
        /\ pc'[s] = "graph" /\ pos'[s] = 0
        /\ \A t \in Sessions \ {s} : pc'[t] = pc[t] /\ pos'[t] = pos[t]
    BY <1>4, BuildPlaces, ProceedTyped
  <2>2. pc[s] = "opening" /\ UNCHANGED start
    BY <1>4 DEF Open
  <2>3. PhaseTypeOK'
    BY <1>1, <1>2, <2>1, <2>2 DEF PhaseTypeOK
  <2>4. \A t \in Sessions \ {s} : Same(t)
    BY <1>1, <2>1, <2>2 DEF Same
  <2>5. start'[s].form \in Forms /\ start'[s].graph \in Graphs
    BY <2>2 DEF PhaseInv, PhaseOk
  <2> QED BY <1>1, <2>1, <2>2, <2>3, <2>4, <2>5, EarlyKeepsPhaseInv DEF Early
<1>5. CASE RefuseInputs(s) \/ CountVm(s) \/ GiveUpVm(s)
           \/ (RequestStart(s) /\ Goto(s, "requested"))
  <2>1. /\ pc[s] \in {"absent", "requested", "counted"} /\ UNCHANGED <<start, pos>>
        /\ \E p \in {"absent", "requested", "counted"} : pc' = [pc EXCEPT ![s] = p]
    <3>1. CASE RequestStart(s) /\ Goto(s, "requested")
      <4>1. pc' = [pc EXCEPT ![s] = "requested"]
        BY <3>1 DEF Goto
      <4>2. pc'[s] # "stop"
        BY <1>2, <4>1 DEF PhaseTypeOK
      <4>3. ~BeginStop(s, "restart")
        BY <1>2, <4>2 DEF BeginStop, Goto, PhaseTypeOK
      <4> QED BY <3>1, <4>1, <4>3 DEF RequestStart
    <3>2. CASE RefuseInputs(s) \/ CountVm(s) \/ GiveUpVm(s)
      BY <3>2 DEF RefuseInputs, CountVm, GiveUpVm, Goto
    <3> QED BY <1>5, <3>1, <3>2
  <2>2. PICK p \in {"absent", "requested", "counted"} : pc' = [pc EXCEPT ![s] = p]
    BY <2>1
  <2>3. /\ pc' \in [Sessions -> PcSet] /\ pc'[s] = p
        /\ \A t \in Sessions \ {s} : pc'[t] = pc[t]
    BY <1>2, <2>2 DEF PhaseTypeOK, PcSet
  <2>4. PhaseTypeOK'
    BY <1>1, <1>2, <2>1, <2>3 DEF PhaseTypeOK
  <2>5. \A t \in Sessions \ {s} : Same(t)
    BY <1>1, <2>1, <2>3 DEF Same
  <2> QED BY <1>1, <2>1, <2>3, <2>4, <2>5, EarlyKeepsPhaseInv DEF Early
<1> QED BY <1>3, <1>4, <1>5

LEMMA NextKeepsPhaseInv ==
    ASSUME PhaseInv, [Next]_vars
    PROVE  PhaseInv'
<1> USE DEF Fail, loadVars, stateVars
<1>1. CASE Next
  <2>1. PICK s \in Sessions : Work(s) \/ Call(s)
    BY <1>1 DEF Next
  <2>2. CASE RequestStart(s)
    <3>1. CASE Goto(s, "requested")
      BY <2>2, <3>1, BeforeGraphKeepsPhaseInv
    <3>2. CASE pc[s] = "running" /\ BeginStop(s, "restart")
      BY <2>2, <3>2, BuildPlaces, StopKeepsPhaseInv DEF RequestStart
    <3> QED BY <2>2, <3>1, <3>2 DEF RequestStart
  <2>3. CASE RefuseInputs(s) \/ CountVm(s) \/ GiveUpVm(s) \/ CreateVm(s)
    BY <2>3, BeforeGraphKeepsPhaseInv
  <2>4. CASE Open(s)
    <3>1. CASE Proceed(s, "graph")
      BY <2>4, <3>1, BeforeGraphKeepsPhaseInv
    <3>2. CASE BeginStop(s, "error")
      BY <2>4, <3>2, StopKeepsPhaseInv DEF Open, Early
    <3> QED BY <2>4, <3>1, <3>2 DEF Open
  <2>5. CASE LoadGraph(s)
    BY <2>5, LoadGraphKeepsPhaseInv
  <2>6. CASE Execute(s)
    BY <2>6, ExecuteKeepsPhaseInv
  <2>7. CASE RunHook(s)
    BY <2>7, RunHookKeepsPhaseInv
  <2>8. CASE Seal(s)
    BY <2>8, SealKeepsPhaseInv
  <2>9. CASE Compose(s)
    <3>1. pc[s] = "compose" /\ NextPlace(pc[s], "tree", start[s].form)
      BY <2>9 DEF Compose, NextPlace
    <3>2. Proceed(s, "tree") \/ BeginStop(s, "error")
      BY <2>9 DEF Compose
    <3> QED BY <2>9, <3>1, <3>2, BuildPlaces, StopKeepsPhaseInv, ProceedKeepsPhaseInv DEF Compose
  <2>10. CASE Decode(s)
    BY <2>10, DecodeKeepsPhaseInv
  <2>11. CASE Verify(s)
    <3>1. pc[s] = "verify" /\ NextPlace(pc[s], "tree", start[s].form)
      BY <2>11 DEF Verify, NextPlace
    <3>2. (pending[s] = {} /\ Proceed(s, "tree")) \/ BeginStop(s, "error")
      BY <2>11 DEF Verify
    <3> QED BY <2>11, <3>1, <3>2, BuildPlaces, StopKeepsPhaseInv, ProceedKeepsPhaseInv DEF Verify
  <2>12. CASE CheckTree(s)
    <3>1. pc[s] = "tree" /\ NextPlace(pc[s], "built", start[s].form)
      BY <2>12 DEF CheckTree, NextPlace
    <3>2. Proceed(s, "built") \/ BeginStop(s, "error")
      BY <2>12 DEF CheckTree
    <3> QED BY <2>12, <3>1, <3>2, BuildPlaces, StopKeepsPhaseInv, ProceedKeepsPhaseInv
            DEF CheckTree
  <2>13. CASE AssignState(s)
    BY <2>13, AssignStateKeepsPhaseInv
  <2>14. CASE Callback(s)
    <3> DEFINE next == CASE pc[s] = "registered" ->
                              IF start[s].form = "load" THEN "decode" ELSE "compose"
                         [] pc[s] = "built" ->
                              IF start[s].form = "load" THEN "restore_instances"
                              ELSE "validate_state"
                         [] pc[s] = "restored" -> "assign"
                         [] pc[s] = "started" -> "running"
    <3>1. pc[s] \in {"registered", "built", "restored", "started"}
      BY <2>14 DEF Callback, CallbackPoints
    <3>2. next \in PcSet /\ NextPlace(pc[s], next, start[s].form)
      BY <3>1, BuildPlaces DEF NextPlace
    <3>3. Proceed(s, next) \/ BeginStop(s, "error")
      BY <2>14 DEF Callback
    <3>4. UNCHANGED <<start, order, hookOrder, initializing, passed, sealed, pending, state>>
      BY <2>14 DEF Callback
    <3>5. pc[s] \in AfterExecute \cup {"execute"}
      BY <3>1, BuildPlaces
    <3> HIDE DEF next
    <3>6. CASE Proceed(s, next)
      BY <3>1, <3>2, <3>4, <3>6, ProceedKeepsPhaseInv
    <3>7. CASE BeginStop(s, "error")
      BY <3>4, <3>5, <3>7, StopKeepsPhaseInv
    <3> QED BY <3>3, <3>6, <3>7
  <2>15. CASE Stop(s)
    BY <2>15, BuildPlaces, StopKeepsPhaseInv DEF Stop
  <2>16. CASE RunTeardownHook(s)
    BY <2>16, TeardownGoesOn, LeaveTeardownKeepsPhaseInv DEF RunTeardownHook
  <2>17. CASE EndTeardown(s)
    BY <2>17, LeaveTeardownKeepsPhaseInv DEF EndTeardown
  <2>18. CASE Close(s)
    BY <2>18, CloseKeepsPhaseInv
  <2>19. CASE PublishFromLua(s) \/ PublishHostLocalEffect(s) \/ TakePendingEffects(s)
    <3>1. UNCHANGED <<pc, start, pos, order, hookOrder, initializing, passed, sealed,
                      pending, state>>
      BY <2>19 DEF PublishFromLua, PublishHostLocalEffect, TakePendingEffects
    <3> QED BY <3>1, NobodyMoves
  <2> QED BY <2>1, <2>2, <2>3, <2>4, <2>5, <2>6, <2>7, <2>8, <2>9, <2>10, <2>11, <2>12, <2>13,
             <2>14, <2>15, <2>16, <2>17, <2>18, <2>19 DEF Work, Call
<1>2. CASE UNCHANGED vars
  BY <1>2, NobodyMoves DEF vars
<1> QED BY <1>1, <1>2

LEMMA PhaseInvAlways ==
    Spec => []PhaseInv
<1>1. PhaseInv /\ [Next]_vars => PhaseInv'
  BY NextKeepsPhaseInv
<1> QED BY <1>1, InitPhases, PTL DEF Spec

LEMMA EveryPlace ==
    PcSet = Early \cup AfterExecute \cup {"execute"} \cup Closing
<1> QED BY DEF PcSet, BuildPhases, Teardown, CallbackPoints, Early, Closing, AfterExecute,
         AfterRegister, AfterSeal, AfterMigrate, AfterVerify, AfterRestore, AfterValidate,
         AfterAssign, AfterStart

(***************************************************************************)
(* For any packages, sections of a save and registries: no phase begins    *)
(* for one module before the phase before it has ended for all, and the    *)
(* state is built on frozen registries (RunLifecyclePhases).               *)
(***************************************************************************)
THEOREM PhasesAreBarriersAlways ==
    Spec => []PhasesAreBarriers
<1>1. PhaseInv => PhasesAreBarriers
  <2> SUFFICES ASSUME PhaseInv, NEW s \in Sessions PROVE Barriers(s)
    BY DEF PhasesAreBarriers, Barriers
  <2>1. pc[s] \in PcSet /\ PhaseOk(s)
    BY DEF PhaseInv, PhaseTypeOK
  <2>2. CASE pc[s] \in Closing
    BY <2>1, <2>2 DEF PhaseOk, CloseState
  <2>3. CASE pc[s] \in Early \cup AfterExecute \cup {"execute"}
    BY <2>1, <2>3, EarlyOrBuildBarriers
  <2> QED BY <2>1, <2>2, <2>3, EveryPlace
<1> QED BY <1>1, PhaseInvAlways, PTL

(***************************************************************************)
(* Whatever failed before and however often the object was started: a      *)
(* session that serves went through every phase of its form, plays on the  *)
(* state it was asked for and left no section of the save unmigrated.      *)
(***************************************************************************)
THEOREM RunningIsWholeAlways ==
    Spec => []RunningIsWhole
<1>1. PhaseInv => RunningIsWhole
  <2> SUFFICES ASSUME PhaseInv, NEW s \in Sessions, pc[s] = "running"
               PROVE  /\ start[s].form \in {"new", "load"}
                      /\ state[s] = start[s].form
                      /\ sealed[s] = Registries
                      /\ pending[s] = {}
                      /\ \A p \in {"execute", "register", "validate_state", "start"} :
                            passed[s][p] = All(s)
                      /\ \A p \in {"migrate_state", "restore_instances"} :
                            passed[s][p] = AllOfLoad(s)
                      /\ \A p \in Teardown : passed[s][p] = {}
    BY DEF RunningIsWhole, All, AllOfLoad
  <2>1. BuildState(s)
    BY BuildPlaces DEF PhaseInv, PhaseOk
  <2> USE DEF AfterStart, AfterAssign, AfterValidate, AfterRestore, AfterVerify, AfterMigrate,
              AfterSeal, AfterRegister, AfterExecute
  <2>2. start[s].form \in {"new", "load"} /\ state[s] = start[s].form
    BY <2>1 DEF BuildState, WayOfForm, Forms
  <2>3. sealed[s] = Registries /\ pending[s] = {}
    BY <2>1 DEF BuildState
  <2>4. /\ \A p \in {"execute", "register", "validate_state", "start"} : passed[s][p] = All(s)
        /\ \A p \in {"migrate_state", "restore_instances"} : passed[s][p] = AllOfLoad(s)
        /\ \A p \in Teardown : passed[s][p] = {}
    BY <2>1 DEF BuildState, WentThrough, Went, Teardown
  <2> QED BY <2>2, <2>3, <2>4
<1> QED BY <1>1, PhaseInvAlways, PTL

\* In a right order the modules up to any place need only each other, and
\* those from any place on are needed only by each other.
LEMMA PrefixIsClosed ==
    ASSUME NEW s \in Sessions, OrderIsRight(s), NEW n \in 0..Len(order[s]),
           NEW m \in Upto(order[s], n)
    PROVE  NeededBy(start[s].graph, m) \subseteq Upto(order[s], n)
<1> DEFINE q == order[s]
<1>1. PICK i \in 1..n : m = q[i]
  BY DEF Upto
<1>2. q \in Seq(Modules) /\ i \in 1..Len(q) /\ i - 1 \in 0..Len(q) /\ i <= n
  BY DEF OrderIsRight
<1>3. NeededBy(start[s].graph, q[i]) \subseteq ToSet(SubSeq(q, 1, i - 1))
  BY <1>2 DEF OrderIsRight, RightOrder
<1>4. ToSet(SubSeq(q, 1, i - 1)) \subseteq Upto(q, n)
  <2>1. \A j \in 1..i - 1 : SubSeq(q, 1, i - 1)[j] = q[j] /\ j \in 1..n
    BY <1>2
  <2>2. DOMAIN SubSeq(q, 1, i - 1) = 1..i - 1
    BY <1>2
  <2> QED BY <2>1, <2>2 DEF ToSet, Upto
<1> QED BY <1>1, <1>3, <1>4

LEMMA SuffixIsClosed ==
    ASSUME NEW s \in Sessions, OrderIsRight(s), NEW n \in 0..Len(order[s]),
           NEW m \in From(order[s], n), NEW k \in All(s),
           m \in NeededBy(start[s].graph, k)
    PROVE  k \in From(order[s], n)
<1> DEFINE q == order[s]
<1>1. q \in Seq(Modules) /\ Len(q) \in Nat /\ n \in Nat /\ n <= Len(q)
  BY DEF OrderIsRight
<1>2. PICK j \in 1..Len(q) : k = q[j]
  BY AllInOrder DEF Upto
<1>3. k \in Upto(q, j) /\ k = q[j] /\ j \in 0..Len(q)
  BY <1>1, <1>2 DEF Upto
<1>4. m \in Upto(q, j)
  BY <1>3, PrefixIsClosed
<1>5. PICK i \in n + 1..Len(q) : m = q[i]
  BY DEF From
<1>6. i <= j
  BY <1>1, <1>3, <1>4, <1>5, NotYetThere
<1>7. j \in n + 1..Len(q)
  BY <1>1, <1>5, <1>6
<1> QED BY <1>2, <1>7 DEF From

(***************************************************************************)
(* Every phase of a start goes through the modules after what they need;   *)
(* the stop and unregister hooks run the other way round, and only over a  *)
(* graph that was executed whole: the hooks of a start that failed half    *)
(* way are not run on modules that are not there (RunStopHooks,            *)
(* RunUnregisterHooks).                                                    *)
(***************************************************************************)
THEOREM DependencyOrderAlways ==
    Spec => []DependencyOrder
<1>1. PhaseInv => DependencyOrder
  <2> SUFFICES ASSUME PhaseInv, NEW s \in Sessions, NEW p \in Phases, NEW m \in passed[s][p]
               PROVE  IF p \in Teardown
                      THEN /\ passed[s]["execute"] = All(s)
                           /\ initializing[s] = NoModule
                           /\ \A n \in passed[s]["execute"] :
                                m \in NeededBy(start[s].graph, n) => n \in passed[s][p]
                      ELSE NeededBy(start[s].graph, m) \subseteq passed[s][p]
    <3>1. PhaseInv => \A s \in Sessions, q \in Phases : passed[s][q] \subseteq Modules
      BY DEF PhaseInv, PhaseTypeOK
    <3>2. "execute" \in Phases
      BY DEF Phases
    <3> QED BY <3>1, <3>2 DEF DependencyOrder, All
  <2>1. pc[s] \in PcSet /\ PhaseOk(s) /\ pos[s] \in Nat
    BY DEF PhaseInv, PhaseTypeOK
  <2>2. passed[s] # NobodyPassed
    BY DEF NobodyPassed
  <2>3. BuildState(s) \/ CloseState(s)
    BY <2>1, <2>2, EveryPlace DEF PhaseOk, Fresh
  <2>4. InOrder(s)
    BY <2>1, <2>3, BuildInOrder DEF CloseState
  <2>5. Phases = HookPhases \cup Teardown /\ HookPhases \cap Teardown = {}
    BY DEF Phases, HookPhases, Teardown
  <2>6. CASE p \in HookPhases
    <3>1. PICK n \in 0..Len(order[s]) : passed[s][p] = Upto(order[s], n)
      BY <2>4, <2>6 DEF InOrder
    <3>2. OrderIsRight(s)
      <4>1. order[s] # <<>>
        BY <3>1 DEF Upto
      <4> QED BY <2>3, <4>1 DEF BuildState, CloseState
    <3> QED BY <2>5, <2>6, <3>1, <3>2, PrefixIsClosed
  <2>7. CASE p \in Teardown
    <3>1. CloseState(s)
      BY <2>3, <2>7 DEF BuildState, WentThrough, Teardown
    <3>2. passed[s]["execute"] = All(s) /\ initializing[s] = NoModule
      BY <2>7, <3>1 DEF CloseState
    <3>3. PICK n \in 0..Len(hookOrder[s]) : passed[s][p] = From(hookOrder[s], n)
      BY <2>7, <3>1 DEF CloseState, TornDown, Teardown
    <3>4. hookOrder[s] # <<>>
      BY <3>3 DEF From
    <3>5. hookOrder[s] = order[s] /\ OrderIsRight(s)
      BY <3>1, <3>4 DEF CloseState
    <3> QED BY <2>7, <3>2, <3>3, <3>5, SuffixIsClosed
  <2> QED BY <2>5, <2>6, <2>7
<1> QED BY <1>1, PhaseInvAlways, PTL

(***************************************************************************)
(* For any declarations: LoadModuleGraph accepts exactly those in which    *)
(* nothing is missing, circular or out of reach, and orders the modules so *)
(* that each comes after what any of its providers needs.                  *)
(***************************************************************************)
THEOREM GraphLoadsWhenSoundAlways ==
    Spec => []GraphLoadsWhenSound
<1>1. PhaseInv => GraphLoadsWhenSound
  <2> SUFFICES ASSUME PhaseInv, NEW s \in Sessions, pc[s] = "graph"
               PROVE  LET g == start[s].graph
                      IN  /\ GraphLoads(g) <=> Sound(g)
                          /\ GraphLoads(g) => RightOrder(g, LoadOrder(g))
    BY DEF GraphLoadsWhenSound
  <2>1. start[s].graph \in Seq(Declaration)
    BY GraphsAreDeclarations DEF PhaseInv, PhaseOk
  <2> QED BY <2>1, GraphLoadsIffSound, LoadOrderIsRight
<1> QED BY <1>1, PhaseInvAlways, PTL
=============================================================================
