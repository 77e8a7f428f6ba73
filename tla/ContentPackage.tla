--------------------------- MODULE ContentPackage ---------------------------
(***************************************************************************)
(* What the authoring service keeps of its promises (ADR 0037) to clients  *)
(* that share a package.  An operation that no other crosses replaces the  *)
(* whole package at one instant by one that builds, or leaves it as it was *)
(* and says so; only a rename that its process does not survive, or whose  *)
(* files cannot be taken back, stays where it was.  While operations cross *)
(* nothing is promised, and everything again once they have ended.         *)
(***************************************************************************)
EXTENDS PackageRules

CONSTANT Clients

VARIABLES
    pkg,     \* the contents of its files
    told,    \* what each client has been told of its operation
    crossed  \* has a file been written while another operation was under way?

vars == <<pkg, told, crossed>>

Answers == {"none", "done", "undone", "torn"}

Init == Builds(pkg) /\ told = [c \in Clients |-> "none"] /\ crossed = FALSE

\* The data becomes any other, or the definition goes.
Edit ==
    \E id \in Ids : \E s \in FirstSource(pkg, id) : pkg' = Edited(pkg, s, id, pkg'[s][id])

Create == \E id \in Ids : CanCreate(pkg, id) /\ pkg' = Created(pkg, id, pkg'[1][id])

Duplicate ==
    \E from, to \in Ids : \E s \in LastSource(pkg, from) :
        CanDuplicate(pkg, from, to) /\ pkg' = Duplicated(pkg, s, from, to)

Rename ==
    \E old, new \in Ids, redirect \in BOOLEAN :
        CanRename(pkg, old, new) /\ pkg' = Renamed(pkg, old, new, redirect)

\* Some files are renamed and some are not.
HalfRename ==
    \E old, new \in Ids, redirect \in BOOLEAN :
        LET p == Renamed(pkg, old, new, redirect)
        IN  /\ CanRename(pkg, old, new) /\ Builds(p) /\ pkg' \in Packages
            /\ \A f \in Files : pkg'[f] \in {pkg[f], p[f]}

Tell(c, answer) == told' = [told EXCEPT ![c] = answer]

Operation(c) ==
    \/ Tell(c, "done") /\ (Edit \/ Create \/ Duplicate \/ Rename) /\ Builds(pkg')
    \/ Tell(c, "undone") /\ pkg' = pkg
    \/ Tell(c, "torn") /\ (HalfRename \/ pkg' = pkg)
    \/ Tell(c, "none") /\ pkg' = pkg

Crossing == (crossed \/ crossed') /\ pkg' \in Packages /\ told' \in [Clients -> Answers]

Next == (~crossed /\ ~crossed' /\ \E c \in Clients : Operation(c)) \/ Crossing

Spec == Init /\ [][Next]_vars
=============================================================================
