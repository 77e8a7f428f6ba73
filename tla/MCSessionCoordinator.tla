------------------------ MODULE MCSessionCoordinator ------------------------
(***************************************************************************)
(* SessionCoordinator for TLC: starts of a menu and loads of a save from   *)
(* one or two repositories, and the faults of the two runs.                *)
(***************************************************************************)
EXTENDS SessionCoordinator

\* Two modes are enough to tell MenuActive from GameActive and a start that
\* RequestSession asked for from one that RequestLoad did.
MCDescriptors == [mode : {"Menu", "LoadSave"}, key : Contents]

\* Every fault, and those that do not cut a pump short.
AllFaults == {"preflight", "phase", "document", "effects", "dispatch", "save"}
StartFaults == {"preflight", "phase", "document", "save"}
=============================================================================
