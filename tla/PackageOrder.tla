---------------------------- MODULE PackageOrder ----------------------------
(***************************************************************************)
(* The order of a set of content packages: what ValidatePackageDescriptors *)
(* demands of an order, what a lock file fixes, and the order the content  *)
(* tool makes when it is given one package.  A package is in the directory *)
(* of its name.  `man' gives every package its manifest.                   *)
(***************************************************************************)
EXTENDS Integers, FiniteSets, SequencesExt, Sequencing

CONSTANTS
    Alphabet,    \* the package ids, in the order std::string compares them
    Core,        \* the package of the engine
    Ids,         \* ids of definitions
    NamespaceOf, \* the package whose namespace an id is in
    Absent       \* no manifest, no lock, no definition

Packages == Range(Alphabet)

ASSUME PackageAssumption ==
    /\ Alphabet \in Seq(Packages) /\ IsInjective(Alphabet)
    /\ Core \in Packages
    /\ NamespaceOf \in [Ids -> Packages]

\* A manifest: the dependencies as listed, each once, redirects and tombstones.
Dependencies == [to : Packages, after : BOOLEAN]
IsManifest(m) ==
    /\ m.deps \in Seq(Dependencies)
    /\ \A i, j \in 1 .. Len(m.deps) : m.deps[i].to = m.deps[j].to => i = j
    /\ DOMAIN m.redirects \subseteq Ids /\ Range(m.redirects) \subseteq Ids
    /\ m.tombstones \subseteq Ids

DepsOf(m) == {m.deps[i].to : i \in 1 .. Len(m.deps)}
LoadAfter(m) == {m.deps[i].to : i \in {k \in 1 .. Len(m.deps) : m.deps[k].after}}

\* std::set and std::map are walked in the order of the ids.
Least(S) == Alphabet[CHOOSE i \in 1 .. Len(Alphabet) :
                /\ Alphabet[i] \in S
                /\ \A j \in 1 .. i - 1 : Alphabet[j] \notin S]

-----------------------------------------------------------------------------
(***************************************************************************)
(* ValidatePackageDescriptors.                                             *)
(***************************************************************************)

\* A dependency counts for a cycle whether or not it asks for load_after.
Acyclic(S, man) ==
    \A C \in SUBSET S : C # {} => \E p \in C : DepsOf(man[p]) \cap C = {}

OrderAllows(order, man) ==
    \A i, j \in 1 .. Len(order) : order[j] \in LoadAfter(man[order[i]]) => j <= i

RetiresItsOwn(p, m) ==
    /\ \A id \in DOMAIN m.redirects \cup m.tombstones : NamespaceOf[id] = p
    /\ DOMAIN m.redirects \cap m.tombstones = {}

Valid(order, man) ==
    /\ order # <<>> /\ order[1] = Core
    /\ IsInjective(order)
    /\ \A p \in Range(order) :
          DepsOf(man[p]) \subseteq Range(order) /\ RetiresItsOwn(p, man[p])
    /\ OrderAllows(order, man)
    /\ Acyclic(Range(order), man)

-----------------------------------------------------------------------------
(***************************************************************************)
(* mods.lock.json5: an entry names a package, its place and the            *)
(* fingerprint of its manifest; what the package holds is not in it.       *)
(***************************************************************************)
Entry(p, index, m) == [id |-> p, index |-> index, print |-> <<m, index>>]

GenerateLock(order, man) ==
    [i \in 1 .. Len(order) |-> Entry(order[i], i, man[order[i]])]

\* The entries are sorted by their index before the packages get their places.
LockOrder(l) ==
    LET indexes == {e.index : e \in Range(l)}
        At(n) == CHOOSE e \in Range(l) : e.index = Nth(indexes, n)
    IN  [n \in 1 .. Len(l) |-> At(n).id]

VerifyLock(l, order, man) ==
    /\ Len(l) = Len(order)
    /\ \A i \in DOMAIN order : l[i] = Entry(order[i], i, man[order[i]])

-----------------------------------------------------------------------------
(***************************************************************************)
(* DiscoverPackageSet on one package root: its dependencies, breadth first *)
(* and only those that are there, after core and before the package.       *)
(***************************************************************************)
Listed(m) == [i \in 1 .. Len(m.deps) |-> m.deps[i].to]

DependencyQueue(target, man) ==
    LET looks == 1 .. Cardinality(Packages)
        With(q, listed) == q \o Selected(listed, {i \in DOMAIN listed : listed[i] \notin Range(q)})
        look == [k \in looks |-> [q \in Seq(Packages) |->
                    IF k <= Len(q) /\ q[k] \in DOMAIN man
                    THEN With(q, Listed(man[q[k]])) ELSE q]]
    IN  Through(look, [k \in looks |-> k], Listed(man[target]))

SingleRootOrder(target, man) ==
    IF target = Core THEN <<Core>>
    ELSE LET queue == DependencyQueue(target, man)
             between == Selected(queue, {i \in DOMAIN queue :
                                           queue[i] \in DOMAIN man \ {Core, target}})
         IN  (IF Core \in DOMAIN man THEN <<Core>> ELSE <<>>) \o between \o <<target>>
=============================================================================
