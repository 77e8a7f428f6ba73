---------------------------- MODULE PackageRules ----------------------------
(***************************************************************************)
(* A content package as its files: numbered definition sources in the      *)
(* order of the descriptor and, after them, package.json5 with the         *)
(* redirects.  What BuildRepository demands of a package (of one package,  *)
(* with definitions of one kind) and what the operations of                *)
(* FAuthoringService make of it.                                           *)
(***************************************************************************)
EXTENDS Documents

CONSTANTS
    NumSources,  \* how many definition sources the package has
    Tombstones   \* ids the manifest retires for good

ASSUME PackageAssumption == NumSources \in Nat \ {0} /\ Tombstones \subseteq Ids

Sources == 1..NumSources
Manifest == NumSources + 1
Files == Sources \cup {Manifest}

\* A source gives each id its data or nothing; the manifest has no redirects
\* object at all, or one that gives each id its target or nothing.
SourceContents == [Ids -> Docs \cup {Absent}]
ManifestContents == [Ids -> Ids \cup {Absent}] \cup {Absent}
ContentsOf(f) == IF f = Manifest THEN ManifestContents ELSE SourceContents
Packages ==
    {p \in [Files -> SourceContents \cup ManifestContents] :
        \A f \in Files : p[f] \in ContentsOf(f)}

-----------------------------------------------------------------------------
Provides(p, s, id) == p[s][id] # Absent
Providers(p, id) == {s \in Sources : Provides(p, s, id)}
Active(p) == {id \in Ids : Providers(p, id) # {}}
SourceOf(p, id) == CHOOSE s \in Sources : Provides(p, s, id)
DataOf(p, id) == p[SourceOf(p, id)][id]

Target(p, id) == IF p[Manifest] = Absent THEN Absent ELSE p[Manifest][id]
Redirected(p) == {id \in Ids : Target(p, id) # Absent}

\* Every chain of redirects ends, and in an active definition.
RedirectsResolve(p) ==
    /\ \A id \in Redirected(p) : Target(p, id) \in Active(p) \cup Redirected(p)
    /\ \A C \in SUBSET Redirected(p) : C # {} => \E id \in C : Target(p, id) \notin C

\* BuildRepository reports no diagnostic.
Builds(p) ==
    /\ p \in Packages
    /\ \A id \in Ids, s, t \in Sources : Provides(p, s, id) /\ Provides(p, t, id) => s = t
    /\ \A id \in Active(p) : DataOf(p, id) \in ValidDocs
    /\ Active(p) \cap (Redirected(p) \cup Tombstones) = {}
    /\ RedirectsResolve(p)
    /\ \A id \in Active(p) : \A r \in RefsOf(DataOf(p, id)) :
          r \in (Active(p) \cup Redirected(p)) \ Tombstones

-----------------------------------------------------------------------------
Lowest(S) == {f \in S : \A g \in S : f <= g}
Highest(S) == {f \in S : \A g \in S : f >= g}

\* An edit takes the first source that has the id, a duplication the last one:
\* in a package that builds there is only one.
FirstSource(p, id) == Lowest(Providers(p, id))
LastSource(p, id) == Highest(Providers(p, id))

Edited(p, s, id, d) == [p EXCEPT ![s][id] = d]

\* A new definition goes to the first source of its type.
CanCreate(p, id) == id \notin Active(p)
Created(p, id, d) == [p EXCEPT ![1][id] = d]

CanDuplicate(p, from, to) == from \in Active(p) /\ to \notin Active(p)
Duplicated(p, s, from, to) == [p EXCEPT ![s][to] = p[s][from]]

CanRename(p, old, new) ==
    /\ old \in Active(p) /\ new \notin Active(p) /\ old # new
    /\ new \notin Redirected(p) \cup Tombstones
    /\ \A id \in Redirected(p) : Target(p, id) # new

RenamedSource(c, old, new) ==
    LET moved(id) == IF id = new THEN c[old] ELSE IF id = old THEN Absent ELSE c[id]
    IN  [id \in Ids |-> IF moved(id) = Absent THEN Absent ELSE Retargeted(moved(id), old, new)]

\* Redirects to the old id follow it.  The redirect from it that the caller may
\* ask for is written only where there was no redirects object: SetFieldValue
\* adds no key to the one that is there.
RenamedManifest(m, old, new, redirect) ==
    IF m # Absent THEN [id \in Ids |-> IF m[id] = old THEN new ELSE m[id]]
    ELSE IF redirect THEN [id \in Ids |-> IF id = old THEN new ELSE Absent]
    ELSE Absent

Renamed(p, old, new, redirect) ==
    [f \in Files |-> IF f = Manifest THEN RenamedManifest(p[f], old, new, redirect)
                     ELSE RenamedSource(p[f], old, new)]
=============================================================================
