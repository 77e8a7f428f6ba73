--------------------------- MODULE LifecycleOracle ---------------------------
(***************************************************************************)
(* The transition oracle of Source/GV2/Private/Application/                *)
(* GV2SessionTransition.cpp: which session and application states may      *)
(* follow which, for each kind of transition, and the two guarded          *)
(* assignments every other component writes those states through.          *)
(***************************************************************************)

\* ESessionTransitionKind: the three start modes and Shutdown.
StartKinds == {"Menu", "NewGame", "LoadSave"}
Kinds == StartKinds \cup {"Shutdown"}

\* The phases StartSessionPhases walks through, in order, then the
\* presentation handshake.
BuildPhases ==
    <<"Creating", "Registering", "BuildingState", "RestoringInstances",
      "Starting", "PreparingPresentation">>

SessionStates ==
    {"None", "Creating", "Registering", "BuildingState", "RestoringInstances",
     "Starting", "PreparingPresentation", "Ready", "Stopping", "Failed",
     "Destroyed"}

AppStates ==
    {"Uninitialized", "Bootstrapping", "MenuActive", "GameActive",
     "Transitioning", "ShuttingDown", "Failed", "Terminated"}

ActiveAppStates == {"MenuActive", "GameActive"}

-----------------------------------------------------------------------------

\* Edges only a start (Menu, NewGame, LoadSave) may take.
StartEdges ==
    {<<"None", "Creating">>, <<"Ready", "Creating">>, <<"Failed", "Creating">>,
     <<"Destroyed", "Creating">>, <<"Creating", "Registering">>,
     <<"Registering", "BuildingState">>,
     <<"BuildingState", "RestoringInstances">>,
     <<"RestoringInstances", "Starting">>,
     <<"Starting", "PreparingPresentation">>,
     <<"PreparingPresentation", "Ready">>}

\* Edges every kind may take.
CommonEdges ==
    ({"Creating", "Registering", "BuildingState", "RestoringInstances",
      "Starting", "PreparingPresentation", "Ready"} \X {"Stopping"})
    \cup ({"Stopping"} \X {"None", "Failed", "Destroyed"})
    \cup {<<"None", "Failed">>, <<"Failed", "None">>,
          <<"Failed", "Destroyed">>, <<"Destroyed", "None">>}

\* Mutant: the switch has no case for the last edge of a start.
NeverReady(cur, target, kind) ==
    \/ <<cur, target>> \in CommonEdges
    \/ kind \in StartKinds /\ <<cur, target>> \in StartEdges /\ target # "Ready"
    \/ kind = "Shutdown" /\ cur = "None" /\ target = "Destroyed"

CanTransitionSession(cur, target, kind) ==
    \/ <<cur, target>> \in CommonEdges
    \/ kind \in StartKinds /\ <<cur, target>> \in StartEdges
    \/ kind = "Shutdown" /\ cur = "None" /\ target = "Destroyed"

AppEdges ==
    ({"Uninitialized"}
        \X {"Bootstrapping", "MenuActive", "GameActive", "Failed", "Terminated"})
    \cup ({"Bootstrapping"}
        \X {"MenuActive", "GameActive", "Transitioning", "Failed",
            "ShuttingDown", "Uninitialized"})
    \cup ({"MenuActive"}
        \X {"Bootstrapping", "GameActive", "Transitioning", "ShuttingDown",
            "Failed", "Uninitialized"})
    \cup ({"GameActive"}
        \X {"Bootstrapping", "MenuActive", "Transitioning", "ShuttingDown",
            "Failed", "Uninitialized"})
    \cup ({"Transitioning"}
        \X {"MenuActive", "GameActive", "ShuttingDown", "Failed",
            "Uninitialized"})
    \cup ({"ShuttingDown"} \X {"Terminated", "Uninitialized"})
    \cup ({"Failed"}
        \X {"Bootstrapping", "MenuActive", "ShuttingDown", "Uninitialized"})
    \cup ({"Terminated"} \X {"Uninitialized"})

CanTransitionApp(cur, target) == <<cur, target>> \in AppEdges

-----------------------------------------------------------------------------

(***************************************************************************)
(* The guarded assignments.  A refused transition is logged and leaves the *)
(* state as it was; the callers ignore the result, so what matters is the  *)
(* state that comes out.                                                   *)
(***************************************************************************)
TrySession(cur, target, kind) ==
    IF CanTransitionSession(cur, target, kind) THEN target ELSE cur

TryApp(cur, target) ==
    IF CanTransitionApp(cur, target) THEN target ELSE cur
=============================================================================
