---------------------------- MODULE ModuleGraph ----------------------------
(***************************************************************************)
(* FRuntimeSession::FImpl::LoadModuleGraph as a function of its input: the *)
(* module declarations of all manifests, core first, the other packages in *)
(* the order of their sources.  A module may be declared again by a later  *)
(* package if its last provider is replaceable; the providers then form a  *)
(* chain that is executed as one module and needs what any of them needs.  *)
(***************************************************************************)
EXTENDS Naturals, Sequences, FiniteSets, SequencesExt, Sequencing

CONSTANTS
    Modules,      \* Stable IDs of kind "module"
    Packages,     \* package ids, Core among them
    Core,         \* the package "core"
    Entry,        \* entry_module_id of the core manifest
    NamespaceOf   \* Modules -> Packages: the namespace of a module id

ASSUME ModuleGraphAssumption ==
    /\ Core \in Packages
    /\ Entry \in Modules
    /\ NamespaceOf \in [Modules -> Packages]
    /\ IsFiniteSet(Modules)

Declaration == [package : Packages, module : Modules,
                needs : Seq(Modules), replaceable : BOOLEAN]

Chain(declared, m) == SelectSeq(declared, LAMBDA d : d.module = m)

Declared(declared) == {d.module : d \in ToSet(declared)}

\* The checks of one descriptor against the ones read before it.
MayDeclare(earlier, d) ==
    /\ d.module \notin ToSet(d.needs)
    /\ \A i, j \in DOMAIN d.needs : d.needs[i] = d.needs[j] => i = j
    /\ LET chain == Chain(earlier, d.module)
       IN  IF chain = <<>>
           THEN NamespaceOf[d.module] = d.package
           ELSE /\ Last(chain).replaceable
                /\ \A i \in DOMAIN chain : chain[i].package # d.package

\* A bug: only what the last provider of the chain needs.
NeedsOfLast(declared, m) == Last(Chain(declared, m)).needs

\* EffectiveDependencies: what the providers need, without repetition, in order.
AddNeed ==
    [n \in Modules |-> [all \in Seq(Modules) |->
        IF n \in ToSet(all) THEN all ELSE Append(all, n)]]

AddNeedsOf(m) ==
    [d \in Declaration |-> [all \in Seq(Modules) |->
        IF d.module = m THEN Through(AddNeed, d.needs, all) ELSE all]]

Needs(declared, m) == Through(AddNeedsOf(m), declared, <<>>)

Unvisited == 0
Visiting  == 1
Visited   == 2

VisitState == [mark : [Modules -> {Unvisited, Visiting, Visited}],
               order : Seq(Modules), cycle : BOOLEAN]

NothingVisited ==
    [mark |-> [m \in Modules |-> Unvisited], order |-> <<>>, cycle |-> FALSE]

(***************************************************************************)
(* The depth-first Visit of a module, given that of a module it needs.     *)
(***************************************************************************)
VisitBy(declared, visit) ==
    [m \in Modules |-> [v \in VisitState |->
        IF v.cycle \/ v.mark[m] = Visited THEN v
        ELSE IF v.mark[m] = Visiting THEN [v EXCEPT !.cycle = TRUE]
        ELSE LET after == Through(visit, Needs(declared, m),
                                  [v EXCEPT !.mark[m] = Visiting])
             IN  IF after.cycle THEN after
                 ELSE [after EXCEPT !.mark[m] = Visited,
                                    !.order = Append(@, m)]]]

(***************************************************************************)
(* The depth n of the recursion is bounded: a path longer than the number  *)
(* of modules meets a module that is being visited.                        *)
(***************************************************************************)
MaxDepth == Cardinality(Modules) + 1

Visits(declared) ==
    LET visit[n \in 0 .. MaxDepth] ==
            IF n = 0 THEN [m \in Modules |-> [v \in VisitState |-> v]]
            ELSE VisitBy(declared, visit[n - 1])
    IN  visit

VisitFrom(declared) == Visits(declared)[MaxDepth]

ProvidedByCore(declared, m) ==
    \E i \in DOMAIN Chain(declared, m) : Chain(declared, m)[i].package = Core

\* From the entry module first, then from every other module of a mod that is
\* still unvisited, in the order of declaration.
VisitDeclared(declared) ==
    [d \in Declaration |-> [v \in VisitState |->
        IF ProvidedByCore(declared, d.module) THEN v
        ELSE VisitFrom(declared)[d.module][v]]]

VisitAll(declared) ==
    Through(VisitDeclared(declared), declared,
            VisitFrom(declared)[Entry][NothingVisited])

\* The names in the manifests are right; what is left to find out is the order.
WellDeclared(declared) ==
    /\ \A i \in DOMAIN declared : MayDeclare(SubSeq(declared, 1, i - 1), declared[i])
    /\ Entry \in Declared(declared)
    /\ \A d \in ToSet(declared) : ToSet(d.needs) \subseteq Declared(declared)

\* LoadModuleGraph succeeds: no cycle, and every declared module was reached.
GraphLoads(declared) ==
    /\ WellDeclared(declared)
    /\ ~VisitAll(declared).cycle
    /\ Len(VisitAll(declared).order) = Cardinality(Declared(declared))

LoadOrder(declared) == VisitAll(declared).order

----------------------------------------------------------------------------
\* What LoadModuleGraph promises, said without an algorithm.

NeededBy(declared, m) ==
    UNION {ToSet(d.needs) : d \in {d \in ToSet(declared) : d.module = m}}

\* No set of modules in which each needs another of the set.
Acyclic(declared) ==
    \A S \in SUBSET Declared(declared) :
        S # {} => \E m \in S : NeededBy(declared, m) \cap S = {}

Roots(declared) ==
    {Entry} \cup {m \in Declared(declared) : ~ProvidedByCore(declared, m)}

AllReachable(declared) ==
    \A S \in SUBSET Declared(declared) :
        (/\ Roots(declared) \subseteq S
         /\ \A m \in S : NeededBy(declared, m) \subseteq S)
        => S = Declared(declared)

Sound(declared) ==
    WellDeclared(declared) /\ Acyclic(declared) /\ AllReachable(declared)

\* An order that names every module once, what it needs before it.
RightOrder(declared, order) ==
    /\ ToSet(order) = Declared(declared)
    /\ \A i, j \in DOMAIN order : order[i] = order[j] => i = j
    /\ \A i \in DOMAIN order :
          NeededBy(declared, order[i]) \subseteq ToSet(SubSeq(order, 1, i - 1))
=============================================================================
