------------------------- MODULE MCSaveSlotStorage -------------------------
(***************************************************************************)
(* SaveSlotStorage for TLC: two processes that compete for one directory.  *)
(* Payloads and processes are interchangeable, and the model treats them   *)
(* alike.                                                                  *)
(***************************************************************************)
EXTENDS SaveSlotStorage, TLC

Symmetry == Permutations(Payloads) \cup Permutations(Processes)
=============================================================================
