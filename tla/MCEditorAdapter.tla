-------------------------- MODULE MCEditorAdapter --------------------------
(* Two sources: "a" in the first refers to "b" in the second, and the       *)
(* manifest declares no redirects; "c" is free.  A rename of "b" with a     *)
(* redirect writes all three files.                                         *)
EXTENDS EditorAdapter

CONSTANTS a, b, c, n1, n2

Def(ref, stats) == [ref |-> ref, stats |-> stats]

MCPackage ==
    LET none == [id \in Ids |-> Absent]
    IN  <<[none EXCEPT ![a] = Def(b, [hp |-> n1])],
          [none EXCEPT ![b] = Def(Absent, Absent)],
          Absent>>

MCInit == disk = MCPackage /\ EditorInit
MCSpec == MCInit /\ [][EditorNext]_vars
=============================================================================
