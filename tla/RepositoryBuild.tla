-------------------------- MODULE RepositoryBuild --------------------------
(***************************************************************************)
(* BuildRepository: what it demands of a set of packages in an order, and  *)
(* the snapshot it makes.  The sources of a package are one: they give     *)
(* each id its data or nothing; a definition's data is the set of ids it   *)
(* refers to.  All ids are of one kind and of one schema.                  *)
(***************************************************************************)
EXTENDS PackageOrder

CONSTANT Unparsable \* sources that do not parse, or do not fit the schema

SourceContents == [Ids -> SUBSET Ids \cup {Absent}]

-----------------------------------------------------------------------------
\* A repository before it is a snapshot: the order, manifests and sources.
Provides(c, i, id) == c.sources[c.order[i]][id] # Absent
Providers(c, id) == {i \in 1 .. Len(c.order) : Provides(c, i, id)}
ActiveIds(c) == {id \in Ids : Providers(c, id) # {}}

\* Mutant: ids of any package of the set may be overridden.
OwnersAreInTheSet(c) == \A id \in ActiveIds(c) : NamespaceOf[id] \in Range(c.order)

\* A package brings new ids of its own namespace only; others it overrides, and
\* only when a package before it in the order provides them.
OwnsNewIds(c) ==
    \A i \in 1 .. Len(c.order), id \in Ids :
        Provides(c, i, id) =>
            \/ NamespaceOf[id] = c.order[i]
            \/ \E j \in 1 .. i - 1 : Provides(c, j, id)

\* The last provider wins.
Winner(c, id) == CHOOSE i \in Providers(c, id) : \A j \in Providers(c, id) : j <= i
DataOf(c, id) == c.sources[c.order[Winner(c, id)]][id]

-----------------------------------------------------------------------------
(***************************************************************************)
(* Redirects and tombstones of all packages together.  A chain is followed *)
(* to an id that is not redirected; one that is still on a redirect after  *)
(* as many steps as there are ids is a cycle.                              *)
(***************************************************************************)
Declared(c) == UNION {DOMAIN c.man[p].redirects : p \in Range(c.order)}
Tombstones(c) == UNION {c.man[p].tombstones : p \in Range(c.order)}

\* Only the package whose namespace an id is in can redirect it.
TargetOf(c, id) == c.man[NamespaceOf[id]].redirects[id]

FollowRedirects(c, id) ==
    LET At[n \in Nat] ==
            IF n = 0 THEN id
            ELSE IF At[n - 1] \in Declared(c) THEN TargetOf(c, At[n - 1]) ELSE At[n - 1]
    IN  At[Cardinality(Ids)]

RedirectsResolve(c) ==
    \A id \in Declared(c) :
        FollowRedirects(c, id) \in ActiveIds(c) \ (Declared(c) \cup Tombstones(c))

Canonical(c, id) == IF id \in Declared(c) THEN FollowRedirects(c, id) ELSE id

\* Mutant: references are checked in what the owner wrote, before overrides.
OwnersReferencesResolve(c) ==
    \A id \in ActiveIds(c) : \A r \in c.sources[NamespaceOf[id]][id] :
        r \notin Tombstones(c) /\ Canonical(c, r) \in ActiveIds(c)

\* Only what wins is looked at: a definition that is overridden may refer to
\* anything.
ReferencesResolve(c) ==
    \A id \in ActiveIds(c) : \A r \in DataOf(c, id) :
        r \notin Tombstones(c) /\ Canonical(c, r) \in ActiveIds(c)

Builds(c) ==
    /\ Valid(c.order, c.man)
    /\ \A p \in Range(c.order) : c.sources[p] # Unparsable
    /\ OwnsNewIds(c)
    /\ ActiveIds(c) \cap (Declared(c) \cup Tombstones(c)) = {}
    /\ RedirectsResolve(c)
    /\ ReferencesResolve(c)

-----------------------------------------------------------------------------
(***************************************************************************)
(* FRepositorySnapshot: the definitions that win with their references     *)
(* made canonical, the package each comes from and those it shadows, and   *)
(* the redirects, each to its end.                                         *)
(***************************************************************************)
Snapshot(c) ==
    [order |-> c.order,
     data |-> [id \in ActiveIds(c) |-> {Canonical(c, r) : r \in DataOf(c, id)}],
     winner |-> [id \in ActiveIds(c) |-> c.order[Winner(c, id)]],
     shadowed |-> [id \in ActiveIds(c) |->
                      {c.order[i] : i \in Providers(c, id) \ {Winner(c, id)}}],
     redirects |-> [id \in Declared(c) |-> FollowRedirects(c, id)],
     tombstones |-> Tombstones(c)]
=============================================================================
