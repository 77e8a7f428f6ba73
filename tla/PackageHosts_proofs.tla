------------------------ MODULE PackageHosts_proofs ------------------------
(***************************************************************************)
(* PackageHosts for any packages, manifests, contents, lists of roots and  *)
(* any number of edits: a published repository is closed and every id in   *)
(* it was introduced by its owner, one container gives one order, and what *)
(* can be ordered is resolved.                                             *)
(***************************************************************************)
EXTENDS PackageHosts, Sequencing_proofs, FiniteSetTheorems, TLAPS

-----------------------------------------------------------------------------
(***************************************************************************)
(* The packages are finitely many, and a set of them has a least one.      *)
(***************************************************************************)
LEMMA PackagesFinite == IsFiniteSet(Packages)
<1>1. Alphabet \in Seq(Packages)
  BY PackageAssumption
<1>2. \A p \in Packages : \E n \in 1 .. Len(Alphabet) : Alphabet[n] = p
  BY <1>1 DEF Packages, Range
<1> QED
  BY <1>1, <1>2 DEF IsFiniteSet

\* The place in the alphabet at which a set begins.
Begins(S, i) ==
    /\ i \in 1 .. Len(Alphabet)
    /\ Alphabet[i] \in S
    /\ \A j \in 1 .. i - 1 : Alphabet[j] \notin S

LEMMA LeastBegins ==
    ASSUME NEW S, S \subseteq Packages, S # {}
    PROVE  \E i : Begins(S, i) /\ Least(S) = Alphabet[i]
<1> DEFINE places == {i \in 1 .. Len(Alphabet) : Alphabet[i] \in S}
<1>1. Alphabet \in Seq(Packages) /\ Len(Alphabet) \in Nat
  BY PackageAssumption
<1>2. places \subseteq Nat /\ places # {}
  BY <1>1 DEF Packages, Range
<1>3. PICK i \in places : \A j \in places : i <= j
  BY <1>2, SomeFirst
<1>4. Begins(S, i)
  BY <1>1, <1>3 DEF Begins
<1> QED
  BY <1>4 DEF Begins, Least

LEMMA BeginsOnce ==
    ASSUME NEW S, NEW i, NEW k, Begins(S, i), Begins(S, k)
    PROVE  i = k
  BY PackageAssumption DEF Begins

LEMMA LeastIsIn ==
    ASSUME NEW S, S \subseteq Packages, S # {}
    PROVE  Least(S) \in S
  BY LeastBegins DEF Begins

\* What is not the least one makes no difference to which is.
LEMMA LeastWithout ==
    ASSUME NEW S, S \subseteq Packages, S # {}, NEW q, Least(S) # q
    PROVE  Least(S \ {q}) = Least(S)
<1>1. PICK i : Begins(S, i) /\ Least(S) = Alphabet[i]
  BY LeastBegins
<1>2. Begins(S \ {q}, i)
  BY <1>1 DEF Begins
<1>3. PICK k : Begins(S \ {q}, k) /\ Least(S \ {q}) = Alphabet[k]
  <2>1. S \ {q} \subseteq Packages /\ S \ {q} # {}
    BY <1>2 DEF Begins
  <2> QED
    BY <2>1, LeastBegins
<1> QED
  BY <1>1, <1>2, <1>3, BeginsOnce

-----------------------------------------------------------------------------
(***************************************************************************)
(* What is published was built, and what builds is closed.                 *)
(***************************************************************************)
PublishedBuilds == repo # NoRepository => \E c : Builds(c) /\ repo = Snapshot(c)

LEMMA BuiltIsClosed == PublishedBuilds => PublishedIsClosed
<1> SUFFICES ASSUME PublishedBuilds, repo # NoRepository
             PROVE  PublishedIsClosed
  BY DEF PublishedIsClosed
<1>1. PICK c : Builds(c) /\ repo = Snapshot(c)
  BY DEF PublishedBuilds
<1>2. /\ DOMAIN repo.data = ActiveIds(c)
      /\ \A id \in ActiveIds(c) :
            repo.data[id] = {Canonical(c, r) : r \in DataOf(c, id)}
      /\ DOMAIN repo.redirects = Declared(c)
      /\ \A id \in Declared(c) : repo.redirects[id] = FollowRedirects(c, id)
      /\ repo.tombstones = Tombstones(c)
  BY <1>1 DEF Snapshot
<1>3. \A id \in ActiveIds(c) : repo.data[id] \subseteq ActiveIds(c)
  BY <1>1, <1>2 DEF Builds, ReferencesResolve
<1>4. Range(repo.redirects) \subseteq ActiveIds(c)
  BY <1>1, <1>2 DEF Builds, RedirectsResolve, Range
<1>5. ActiveIds(c) \cap (Declared(c) \cup Tombstones(c)) = {}
  BY <1>1 DEF Builds
<1> QED
  BY <1>2, <1>3, <1>4, <1>5 DEF PublishedIsClosed

LEMMA StepPublishesBuilt ==
    ASSUME PublishedBuilds, [Next]_vars
    PROVE  PublishedBuilds'
<1>1. CASE UNCHANGED repo
  BY <1>1 DEF PublishedBuilds
<1>2. CASE repo' = NoRepository
  BY <1>2 DEF PublishedBuilds
<1>3. CASE BuildRepository
  BY <1>1, <1>3 DEF BuildRepository, PublishedBuilds
<1>4. UNCHANGED repo \/ repo' = NoRepository \/ BuildRepository
  <2>1. CASE AuthorStep
    BY <2>1 DEF AuthorStep, Edit, EditManifest, EditSources, WriteLock, RemoveLock
  <2>2. CASE Start
    BY <2>2 DEF Start, StartOnContainer, StartOnRoots, StartOnPackage, HostStarts
  <2>3. CASE HostStep
    BY <2>3 DEF HostStep, ReadManifest, ReadRoot, FollowLock, BeginOrder, Place,
                EndOfOrder, RejectContainer, CheckRoots, ReadSources, Scanned
  <2> QED
    BY <2>1, <2>2, <2>3 DEF Next, vars
<1> QED
  BY <1>1, <1>2, <1>3, <1>4

(***************************************************************************)
(* Whatever is edited while it is built, a published repository is closed. *)
(***************************************************************************)
THEOREM PublishedAlwaysClosed == Spec => []PublishedIsClosed
<1>1. Init => PublishedBuilds
  BY DEF Init, PublishedBuilds
<1>2. PublishedBuilds /\ [Next]_vars => PublishedBuilds'
  BY StepPublishesBuilt
<1> QED
  BY <1>1, <1>2, BuiltIsClosed, PTL DEF Spec

-----------------------------------------------------------------------------
(***************************************************************************)
(* The loop that orders a container.  Of an order that has core twice, or  *)
(* any package, nothing is said: it will be rejected.                      *)
(***************************************************************************)
Placed == Range(order)

CountsRight ==
    /\ \A q \in Found : missing[q] = Cardinality(DepsOf(man[q]) \ Placed)
    /\ ready \ {Core} = Free(Found, man, Placed)
    /\ Len(order) = Cardinality(Placed)

DependenciesFirst ==
    \A i \in 2 .. Len(order) : DepsOf(man[order[i]]) \subseteq Before(order, i)

PlacedRight == LeastFirst(order, Found, man) /\ DependenciesFirst

Sorting ==
    /\ Found \subseteq Packages /\ Orderable
    /\ order \in Seq(Found) /\ order # <<>> /\ order[1] = Core
    /\ ready \subseteq Found
    /\ IsInjective(order) => CountsRight /\ PlacedRight
    /\ DepsOf(man[Core]) = {} => Core \notin ready /\ IsInjective(order)

LEMMA CountIsZero ==
    ASSUME Found \subseteq Packages, NEW S, S \subseteq Found
    PROVE  /\ IsFiniteSet(S) /\ Cardinality(S) \in Nat
           /\ Cardinality(S) = 0 <=> S = {}
  BY PackagesFinite, FS_Subset, FS_CardinalityType, FS_EmptySet

LEMMA BeginSorts ==
    ASSUME Found \subseteq Packages, BeginOrder
    PROVE  Sorting'
<1>1. /\ order' = <<Core>> /\ man' = man /\ Orderable
      /\ missing' = [p \in Found |-> Cardinality(WaitsFor(p))]
      /\ ready' = {p \in Found : /\ missing'[p] = 0
                                 /\ p = Core => Core \in DepsOf(man[Core])}
  BY DEF BeginOrder
<1>2. /\ order' \in Seq(Found) /\ order' # <<>> /\ order'[1] = Core
      /\ Len(order') = 1 /\ DOMAIN order' = {1}
  BY <1>1 DEF Orderable
<1>3. Placed' = {Core} /\ IsInjective(order')
  BY <1>1, <1>2 DEF Placed, Range, IsInjective
<1>4. \A q \in Found : /\ WaitsFor(q) \subseteq Found
                       /\ missing'[q] = Cardinality(WaitsFor(q))
                       /\ WaitsFor(q) = DepsOf(man[q]) \ {Core}
  BY <1>1 DEF Orderable, WaitsFor
<1>5. \A q \in Found : missing'[q] = 0 <=> DepsOf(man[q]) \subseteq {Core}
  BY <1>4, CountIsZero
<1>6. CountsRight'
  <2>1. \A q \in Found : missing'[q] = Cardinality(DepsOf(man[q]) \ {Core})
    BY <1>4
  <2>2. ready' \ {Core} = {p \in Found \ {Core} : DepsOf(man[p]) \subseteq {Core}}
    BY <1>1, <1>5
  <2>3. Len(order') = Cardinality({Core})
    BY <1>2, FS_Singleton
  <2> QED
    BY <1>1, <1>3, <2>1, <2>2, <2>3 DEF CountsRight, Free, Found
<1>7. PlacedRight'
  BY <1>2 DEF PlacedRight, LeastFirst, DependenciesFirst
<1>8. DepsOf(man[Core]) = {} => Core \notin ready'
  BY <1>1
<1> QED
  BY <1>1, <1>2, <1>3, <1>6, <1>7, <1>8 DEF Sorting, Found, Orderable

LEMMA PlaceSorts ==
    ASSUME Sorting, Place
    PROVE  Sorting'
<1> DEFINE p == Least(ready)
           waiting == {q \in Found : p \in DepsOf(man[q])}
<1>1. /\ ready # {} /\ order' = Append(order, p) /\ man' = man
      /\ missing' = [q \in Found |-> IF q \in waiting THEN missing[q] - 1 ELSE missing[q]]
      /\ ready' = (ready \ {p}) \cup {q \in waiting : missing'[q] = 0}
  BY DEF Place
<1>2. /\ Found \subseteq Packages /\ Orderable /\ order \in Seq(Found)
      /\ Len(order) \in Nat /\ Len(order) >= 1
      /\ order[1] = Core /\ ready \subseteq Found
  BY DEF Sorting
<1>3. p \in ready /\ p \in Found
  BY <1>1, <1>2, LeastIsIn
<1> HIDE DEF p
<1>4. /\ order' \in Seq(Found) /\ Len(order') = Len(order) + 1
      /\ order'[Len(order) + 1] = p
      /\ \A i \in 1 .. Len(order) : order'[i] = order[i]
  BY <1>1, <1>2, <1>3
<1>5. order' # <<>> /\ order'[1] = Core /\ ready' \subseteq Found
  BY <1>1, <1>2, <1>4
<1>6. Placed' = Placed \cup {p}
  <2>1. DOMAIN order = 1 .. Len(order) /\ DOMAIN order' = 1 .. Len(order) + 1
    BY <1>2, <1>4
  <2>2. \A x : x \in Placed' => x \in Placed \cup {p}
    BY <1>2, <1>4, <2>1 DEF Placed, Range
  <2>3. \A x : x \in Placed \cup {p} => x \in Placed'
    BY <1>2, <1>4, <2>1 DEF Placed, Range
  <2> QED
    BY <2>2, <2>3
<1>7. IsInjective(order') => IsInjective(order) /\ p \notin Placed
  BY <1>2, <1>4 DEF IsInjective, Placed, Range
<1>8. IsInjective(order) /\ p \notin Placed => IsInjective(order')
  BY <1>2, <1>4 DEF IsInjective, Placed, Range
<1>9. Placed \subseteq Found /\ Core \in Placed
  BY <1>2 DEF Placed, Range
<1>10. ASSUME IsInjective(order')
       PROVE  CountsRight' /\ PlacedRight'
  <2>1. CountsRight /\ PlacedRight /\ p \notin Placed /\ p # Core
    BY <1>7, <1>9, <1>10 DEF Sorting
  <2>2. ready \ {Core} = Free(Found, man, Placed) /\ DepsOf(man[p]) \subseteq Placed
    BY <1>3, <2>1 DEF CountsRight, Free
  <2>3. ASSUME NEW q \in Found
        PROVE  missing'[q] = Cardinality(DepsOf(man[q]) \ Placed')
    <3> DEFINE S == DepsOf(man[q]) \ Placed
    <3>1. S \subseteq Found /\ IsFiniteSet(S) /\ missing[q] = Cardinality(S)
      BY <1>2, <2>1, CountIsZero DEF Orderable, CountsRight
    <3>2. DepsOf(man[q]) \ Placed' = S \ {p} /\ (p \in S <=> q \in waiting)
      BY <1>6, <2>1
    <3>3. missing'[q] = IF q \in waiting THEN missing[q] - 1 ELSE missing[q]
      BY <1>1
    <3> HIDE DEF S, waiting
    <3>4. Cardinality(S \ {p}) = IF p \in S THEN Cardinality(S) - 1 ELSE Cardinality(S)
      BY <3>1, FS_RemoveElement
    <3> QED
      BY <3>1, <3>2, <3>3, <3>4
  <2>4. \A q \in Found : missing'[q] = 0 <=> DepsOf(man[q]) \subseteq Placed'
    BY <1>2, <2>3, CountIsZero DEF Orderable
  <2>5. \A q \in Placed \ {Core} : DepsOf(man[q]) \subseteq Placed
    <3> SUFFICES ASSUME NEW q \in Placed \ {Core}
                 PROVE  DepsOf(man[q]) \subseteq Placed
      OBVIOUS
    <3>1. PICK i \in 1 .. Len(order) : order[i] = q
      BY <1>2 DEF Placed, Range
    <3>2. i \in 2 .. Len(order)
      BY <1>2, <3>1
    <3>3. Before(order, i) \subseteq Placed
      BY <1>2 DEF Before, Placed, Range
    <3> QED
      BY <2>1, <3>1, <3>2, <3>3 DEF PlacedRight, DependenciesFirst
  <2>6. ready' \ {Core} = {q \in Found \ Placed' : DepsOf(man[q]) \subseteq Placed'}
    <3>1. ASSUME NEW q \in ready' \ {Core}
          PROVE  q \in Found /\ q \notin Placed' /\ DepsOf(man[q]) \subseteq Placed'
      <4>1. CASE q \in ready \ {p}
        BY <1>6, <2>2, <3>1, <4>1 DEF Free
      <4>2. CASE q \in waiting /\ missing'[q] = 0
        <5>1. q \notin Placed /\ q # p
          BY <2>1, <2>2, <2>5, <3>1, <4>2
        <5> QED
          BY <1>6, <2>4, <4>2, <5>1
      <4> QED
        BY <1>1, <4>1, <4>2
    <3>2. ASSUME NEW q \in Found \ Placed', DepsOf(man[q]) \subseteq Placed'
          PROVE  q \in ready' \ {Core}
      <4>1. q # Core /\ q # p /\ q \notin Placed /\ missing'[q] = 0
        BY <1>6, <1>9, <2>4, <3>2
      <4>2. CASE q \in waiting
        BY <1>1, <4>1, <4>2
      <4>3. CASE q \notin waiting
        <5>1. q \in Free(Found, man, Placed)
          BY <1>6, <3>2, <4>1, <4>3 DEF Free
        <5> QED
          BY <1>1, <2>2, <4>1, <5>1
      <4> QED
        BY <4>2, <4>3
    <3> QED
      BY <3>1, <3>2
  <2>7. Len(order') = Cardinality(Placed')
    BY <1>2, <1>4, <1>6, <1>9, <2>1, CountIsZero, FS_AddElement DEF CountsRight
  <2>8. CountsRight'
    BY <1>1, <2>3, <2>6, <2>7 DEF CountsRight, Free, Found
  <2>9. ASSUME NEW i \in 2 .. Len(order')
        PROVE  /\ order'[i] = Least(Free(Found, man, Before(order', i)))
               /\ DepsOf(man[order'[i]]) \subseteq Before(order', i)
    <3>1. Before(order', i) = Before(order, i)
      BY <1>2, <1>4 DEF Before
    <3>2. CASE i <= Len(order)
      <4>1. i \in 2 .. Len(order) /\ order'[i] = order[i]
        BY <1>2, <1>4, <3>2
      <4> QED
        BY <2>1, <3>1, <4>1 DEF PlacedRight, LeastFirst, DependenciesFirst
    <3>3. CASE i = Len(order) + 1
      <4>1. Before(order, i) = Placed
        BY <1>2, <3>3 DEF Before, Placed, Range
      <4>2. order'[i] = p
        BY <1>4, <3>3
      <4>3. p = Least(ready \ {Core})
        <5>1. ready \subseteq Packages /\ ready # {} /\ Least(ready) # Core
          BY <1>1, <1>2, <2>1 DEF p
        <5> QED
          BY <5>1, LeastWithout DEF p
      <4> QED
        BY <2>2, <3>1, <4>1, <4>2, <4>3
    <3> QED
      BY <1>2, <1>4, <3>2, <3>3
  <2>10. PlacedRight'
    BY <1>1, <2>9 DEF PlacedRight, LeastFirst, DependenciesFirst, Found
  <2> QED
    BY <2>8, <2>10
<1>11. ASSUME DepsOf(man[Core]) = {}
       PROVE  Core \notin ready' /\ IsInjective(order')
  <2>1. Core \notin ready /\ IsInjective(order) /\ CountsRight
    BY <1>11 DEF Sorting
  <2>2. p \notin Placed
    BY <1>3, <2>1 DEF CountsRight, Free
  <2>3. Core \notin waiting
    BY <1>11
  <2> QED
    BY <1>1, <1>8, <2>1, <2>2, <2>3
<1>12. Found' = Found /\ Orderable'
  BY <1>1, <1>2 DEF Found, Orderable
<1> QED
  BY <1>1, <1>2, <1>4, <1>5, <1>10, <1>11, <1>12 DEF Sorting

(***************************************************************************)
(* When nothing is ready any more: what was ordered is the least first     *)
(* order of the container, and a sound container was ordered to its end.   *)
(***************************************************************************)
LEMMA AllPlacedIsFixed ==
    ASSUME Sorting, AllPlaced
    PROVE  Range(order) = Found /\ FixedByManifests(order, man)
<1>1. IsInjective(order) /\ Len(order) = Cardinality(Found)
  BY DEF AllPlaced, Valid
<1>2. /\ Found \subseteq Packages /\ order \in Seq(Found) /\ order[1] = Core
      /\ CountsRight /\ PlacedRight
  BY <1>1 DEF Sorting
<1>3. Placed \subseteq Found /\ IsFiniteSet(Found)
  BY <1>2, CountIsZero DEF Placed, Range
<1>4. Placed = Found
  BY <1>1, <1>2, <1>3, FS_Subset DEF CountsRight
<1> QED
  BY <1>2, <1>4 DEF FixedByManifests, PlacedRight, Placed

LEMMA SoundIsPlaced ==
    ASSUME Sorting, Sound, ready = {}
    PROVE  AllPlaced
<1>1. /\ Found \subseteq Packages /\ order \in Seq(Found) /\ order # <<>>
      /\ order[1] = Core /\ IsInjective(order) /\ CountsRight /\ PlacedRight
      /\ DepsOf(man[Core]) = {} /\ Acyclic(Found, man) /\ Orderable
      /\ \A p \in Found : RetiresItsOwn(p, man[p])
  BY DEF Sorting, Sound
<1>2. Placed \subseteq Found
  BY <1>1 DEF Placed, Range
<1>3. Placed = Found
  <2> DEFINE left == Found \ Placed
  <2>1. ASSUME left # {} PROVE FALSE
    <3>1. PICK p \in left : DepsOf(man[p]) \cap left = {}
      BY <1>1, <2>1 DEF Acyclic
    <3>2. p \in Free(Found, man, Placed)
      BY <1>1, <3>1 DEF Free, Orderable
    <3> QED
      BY <1>1, <3>2 DEF CountsRight
  <2> QED
    BY <1>2, <2>1
<1>4. OrderAllows(order, man)
  <2> SUFFICES ASSUME NEW i \in 1 .. Len(order), NEW j \in 1 .. Len(order),
                      order[j] \in LoadAfter(man[order[i]])
               PROVE  j <= i
    BY DEF OrderAllows
  <2>1. order[j] \in DepsOf(man[order[i]])
    BY DEF LoadAfter, DepsOf
  <2>2. i \in 2 .. Len(order)
    BY <1>1, <2>1
  <2>3. PICK k \in 1 .. i - 1 : order[k] = order[j]
    BY <1>1, <2>1, <2>2 DEF PlacedRight, DependenciesFirst, Before
  <2>4. k = j
    BY <1>1, <2>2, <2>3 DEF IsInjective
  <2> QED
    BY <1>1, <2>3, <2>4
<1>5. Valid(order, man)
  BY <1>1, <1>3, <1>4 DEF Valid, Placed, Orderable
<1> QED
  BY <1>1, <1>3, <1>5 DEF AllPlaced, CountsRight

-----------------------------------------------------------------------------
(***************************************************************************)
(* What a host holds while it resolves.  The headless host forgets the     *)
(* manifests and reads them again: as long as nobody has edited, the order *)
(* it goes by is right for what is on the disk.                            *)
(***************************************************************************)
DiskFixes ==
    IF locked = Absent THEN FixedByManifests(order, disk) ELSE FixedByLock(order, disk)

ReadFromDisk == \A p \in Found : man[p] = disk[p]

HostInv ==
    /\ edits \in Nat
    /\ pc \in {"Scanning", "Ordering"} =>
          host \in {"game", "headless"} /\ locked = Absent /\ Found \subseteq Packages
    /\ pc = "Roots" => host # "game"
    /\ pc = "Ordering" => Sorting
    /\ host = "headless" /\ edits = 0 =>
          /\ pc \in {"Scanning", "Ordering", "Roots"} => ReadFromDisk
          /\ pc = "Roots" => DiskFixes /\ Placed = Found \cup unread

IInv == HostInv /\ OneOrder /\ SoundSetsResolve

\* A repository is made of what was read, so the last steps keep the order.
Kept == UNCHANGED <<host, man, locked, order>>

LEMMA KeptOrder ==
    ASSUME OneOrder, Kept, edits \in Nat, edits' \in Nat, edits' = 0 => edits = 0,
           pc' \in {"Reading", "NotBuilt", "Ready"} => pc \in {"Reading", "NotBuilt", "Ready"}
    PROVE  OneOrder'
  BY DEF OneOrder, Kept, FixedByLock, Found

LEMMA KeptSound ==
    ASSUME SoundSetsResolve, Kept, pc' = "Unresolved" => pc = "Unresolved"
    PROVE  SoundSetsResolve'
  BY DEF SoundSetsResolve, Kept, WholeContainer, Sound, Orderable, Found

LEMMA KeptSorting ==
    ASSUME Sorting, Kept, UNCHANGED sorting
    PROVE  Sorting'
  BY DEF Sorting, Kept, sorting, Orderable, Found, CountsRight, PlacedRight,
         DependenciesFirst, Placed

LEMMA AuthorKeeps ==
    ASSUME IInv, AuthorStep
    PROVE  IInv'
<1>1. /\ Kept /\ UNCHANGED <<pc, unread, sorting>> /\ edits' = edits + 1
  BY DEF AuthorStep, Edit, EditManifest, EditSources, WriteLock, RemoveLock, Kept, sorting
<1>2. edits \in Nat /\ edits' \in Nat /\ edits' # 0
  BY <1>1 DEF IInv, HostInv
<1>3. OneOrder' /\ SoundSetsResolve'
  BY <1>1, <1>2, KeptOrder, KeptSound DEF IInv
<1>4. pc = "Ordering" => Sorting'
  BY <1>1, KeptSorting DEF IInv, HostInv
<1>5. HostInv'
  BY <1>1, <1>2, <1>4 DEF IInv, HostInv, Kept, Found
<1> QED
  BY <1>3, <1>5 DEF IInv

LEMMA StartKeeps ==
    ASSUME IInv, Start
    PROVE  IInv'
<1>0. edits' = edits /\ edits \in Nat
  BY DEF Start, StartOnContainer, StartOnRoots, StartOnPackage, HostStarts, IInv, HostInv
<1>1. ASSUME NEW h \in {"game", "headless"}, StartOnContainer(h) PROVE IInv'
  <2>1. host' = h /\ pc' = "Scanning" /\ man' = <<>> /\ locked' = Absent
    BY <1>1 DEF StartOnContainer, HostStarts
  <2>2. Found' = {}
    BY <2>1 DEF Found
  <2> QED
    BY <1>0, <2>1, <2>2 DEF IInv, HostInv, OneOrder, SoundSetsResolve, ReadFromDisk
<1>2. ASSUME host' \in {"list", "tool"}, pc' \in {"Roots", "Unresolved"} PROVE IInv'
  BY <1>0, <1>2 DEF IInv, HostInv, OneOrder, SoundSetsResolve
<1>3. ASSUME NEW roots \in RootLists, StartOnRoots(roots) PROVE IInv'
  BY <1>2, <1>3 DEF StartOnRoots, HostStarts, ReadRoots
<1>4. ASSUME NEW target \in Packages, StartOnPackage(target) PROVE IInv'
  BY <1>2, <1>4 DEF StartOnPackage, HostStarts, ReadRoots
<1> QED
  BY <1>1, <1>3, <1>4 DEF Start

LEMMA SameManifests ==
    ASSUME NEW roots, NEW m, NEW n, \A p \in Range(roots) : m[p] = n[p]
    PROVE  /\ FixedByManifests(roots, m) => FixedByManifests(roots, n)
           /\ FixedByLock(roots, m) => FixedByLock(roots, n)
<1>1. ASSUME NEW placed
      PROVE  Free(Range(roots), m, placed) = Free(Range(roots), n, placed)
  BY DEF Free
<1>2. FixedByManifests(roots, m) => FixedByManifests(roots, n)
  BY <1>1 DEF FixedByManifests, LeastFirst
<1>3. \A i \in DOMAIN roots : m[roots[i]] = n[roots[i]]
  BY DEF Range
<1> QED
  BY <1>2, <1>3 DEF FixedByLock, Entry

\* The game goes on with what it has resolved, the headless host with the list.
LEMMA ResolvedKeeps ==
    ASSUME IInv, pc \in {"Scanning", "Ordering"}, NEW roots, Resolved(roots),
           UNCHANGED <<disk, host, edits>>,
           Range(roots) \subseteq Found,
           IF locked' = Absent THEN Range(roots) = Found /\ FixedByManifests(roots, man)
                               ELSE /\ Len(roots) = Len(locked')
                                    /\ \A i \in DOMAIN roots :
                                          locked'[i] = Entry(roots[i], i, man[roots[i]])
    PROVE  IInv'
<1>1. host \in {"game", "headless"} /\ order' = roots
  BY DEF IInv, HostInv, Resolved, ReadRoots
<1>2. CASE host = "game"
  <2>1. pc' = "Reading" /\ man' = man
    BY <1>2 DEF Resolved
  <2>2. OneOrder'
    BY <1>1, <2>1 DEF OneOrder, Found, FixedByLock
  <2> QED
    BY <1>2, <2>1, <2>2 DEF IInv, HostInv, SoundSetsResolve
<1>3. CASE host = "headless"
  <2>1. pc' = "Roots" /\ man' = <<>> /\ unread' = Range(roots)
    BY <1>3 DEF Resolved, ReadRoots
  <2>2. Found' = {} /\ Placed' = unread'
    BY <1>1, <2>1 DEF Found, Placed
  <2>3. ASSUME edits = 0
        PROVE  DiskFixes'
    <3>1. \A p \in Range(roots) : man[p] = disk[p]
      BY <1>3, <2>3 DEF IInv, HostInv, ReadFromDisk
    <3>2. CASE locked' = Absent
      BY <1>1, <3>1, <3>2, SameManifests DEF DiskFixes
    <3>3. CASE locked' # Absent
      <4>1. \A i \in DOMAIN roots : man[roots[i]] = disk[roots[i]]
        BY <3>1 DEF Range
      <4> QED
        BY <1>1, <3>3, <4>1 DEF DiskFixes, FixedByLock
    <3> QED
      BY <3>2, <3>3
  <2> QED
    BY <1>3, <2>1, <2>2, <2>3 DEF IInv, HostInv, OneOrder, SoundSetsResolve, ReadFromDisk
<1> QED
  BY <1>1, <1>2, <1>3

LEMMA ReadManifestKeeps ==
    ASSUME IInv, NEW p \in Packages, ReadManifest(p)
    PROVE  IInv'
<1>1. /\ pc = "Scanning" /\ UNCHANGED <<disk, host, pc, locked, edits>>
      /\ man' = IF disk[p] = Absent THEN man ELSE WithManifest(p)
  BY DEF ReadManifest, container
<1>2. /\ Found' \subseteq Found \cup {p}
      /\ ReadFromDisk => ReadFromDisk'
  BY <1>1 DEF WithManifest, Found, ReadFromDisk
<1> QED
  BY <1>1, <1>2 DEF IInv, HostInv, OneOrder, SoundSetsResolve

LEMMA ReadRootKeeps ==
    ASSUME IInv, NEW p \in Packages, ReadRoot(p)
    PROVE  IInv'
<1>1. /\ pc = "Roots" /\ p \in unread /\ UNCHANGED <<disk, host, locked, order, edits>>
      /\ \/ pc' = "Unresolved"
         \/ /\ pc' = pc /\ man' = WithManifest(p) /\ unread' = unread \ {p}
  BY DEF ReadRoot, container, Unresolved
<1>2. CASE pc' = "Unresolved"
  BY <1>1, <1>2 DEF IInv, HostInv, OneOrder, SoundSetsResolve
<1>3. CASE pc' = pc
  <2>1. /\ Found' = Found \cup {p} /\ unread' = unread \ {p}
        /\ ReadFromDisk => ReadFromDisk'
    BY <1>1, <1>3 DEF WithManifest, Found, ReadFromDisk
  <2>2. DiskFixes' = DiskFixes /\ Placed' = Placed
    BY <1>1 DEF DiskFixes, FixedByLock, Placed
  <2> QED
    BY <1>1, <1>3, <2>1, <2>2 DEF IInv, HostInv, OneOrder, SoundSetsResolve
<1> QED
  BY <1>1, <1>2, <1>3

LEMMA CheckRootsKeeps ==
    ASSUME IInv, CheckRoots
    PROVE  IInv'
<1>1. /\ pc = "Roots" /\ unread = {} /\ UNCHANGED <<host, man, locked, order, edits>>
      /\ pc' \in {"Reading", "Unresolved"} /\ host # "game"
  BY DEF CheckRoots, IInv, HostInv
<1>2. ASSUME host = "headless", edits = 0
      PROVE  IF locked = Absent THEN Range(order) = Found /\ FixedByManifests(order, man)
                                ELSE FixedByLock(order, man)
  <2>1. ReadFromDisk /\ DiskFixes /\ Range(order) = Found
    BY <1>1, <1>2 DEF IInv, HostInv, Placed
  <2> QED
    BY <2>1, SameManifests DEF ReadFromDisk, DiskFixes
<1>3. OneOrder'
  BY <1>1, <1>2 DEF OneOrder, Found, FixedByLock
<1> QED
  BY <1>1, <1>3 DEF IInv, HostInv, SoundSetsResolve

LEMMA BuildKeeps ==
    ASSUME IInv, ReadSources \/ BuildRepository
    PROVE  IInv'
<1>1. /\ Kept /\ UNCHANGED edits /\ pc = "Reading"
      /\ pc' \in {"Reading", "NotBuilt", "Ready"}
  BY DEF ReadSources, BuildRepository, Kept
<1>2. OneOrder' /\ SoundSetsResolve'
  BY <1>1, KeptOrder, KeptSound DEF IInv, HostInv
<1> QED
  BY <1>1, <1>2 DEF IInv, HostInv

LEMMA ScanKeeps ==
    ASSUME IInv, FollowLock \/ BeginOrder \/ RejectContainer
    PROVE  IInv'
<1>1. pc = "Scanning" /\ UNCHANGED <<disk, lock, host, edits>>
  BY DEF FollowLock, BeginOrder, RejectContainer, Scanned, container
<1>2. CASE FollowLock
  <2>1. locked' = lock /\ lock # Absent
    BY <1>2 DEF FollowLock
  <2>2. CASE pc' = "Unresolved"
    BY <1>1, <2>1, <2>2 DEF IInv, HostInv, OneOrder, SoundSetsResolve
  <2>3. CASE /\ Range(LockOrder(lock)) \subseteq Found
             /\ LockAccepts(LockOrder(lock)) /\ Resolved(LockOrder(lock))
    BY <1>1, <2>1, <2>3, ResolvedKeeps DEF LockAccepts, VerifyLock
  <2> QED
    BY <1>2, <2>2, <2>3 DEF FollowLock, Unresolved
<1>3. CASE BeginOrder
  <2>1. pc' = "Ordering" /\ UNCHANGED <<man, locked>>
    BY <1>3 DEF BeginOrder
  <2>2. Sorting'
    BY <1>1, <1>3, BeginSorts DEF IInv, HostInv
  <2> QED
    BY <1>1, <2>1, <2>2 DEF IInv, HostInv, OneOrder, SoundSetsResolve, Found, ReadFromDisk
<1>4. CASE RejectContainer
  <2>1. /\ pc' = "Unresolved" /\ UNCHANGED <<man, locked>>
        /\ WholeContainer => ~Orderable
    BY <1>4 DEF RejectContainer, Unresolved
  <2>2. ~(WholeContainer /\ Sound)'
    BY <2>1 DEF WholeContainer, Sound, Orderable, Found
  <2> QED
    BY <1>1, <2>1, <2>2 DEF IInv, HostInv, OneOrder, SoundSetsResolve
<1> QED
  BY <1>2, <1>3, <1>4

LEMMA OrderingKeeps ==
    ASSUME IInv, Place \/ EndOfOrder
    PROVE  IInv'
<1>1. /\ pc = "Ordering" /\ UNCHANGED <<disk, host, locked, edits>>
      /\ Sorting /\ locked = Absent
  BY DEF Place, EndOfOrder, container, IInv, HostInv
<1>2. CASE Place
  <2>1. pc' = pc /\ man' = man
    BY <1>2 DEF Place
  <2>2. Sorting'
    BY <1>1, <1>2, PlaceSorts
  <2> QED
    BY <1>1, <2>1, <2>2 DEF IInv, HostInv, OneOrder, SoundSetsResolve, Found, ReadFromDisk
<1>3. CASE EndOfOrder /\ AllPlaced
  <2>1. Resolved(order) /\ Range(order) = Found /\ FixedByManifests(order, man)
    BY <1>1, <1>3, AllPlacedIsFixed DEF EndOfOrder
  <2> QED
    BY <1>1, <2>1, ResolvedKeeps
<1>4. CASE EndOfOrder /\ ~AllPlaced
  <2>1. pc' = "Unresolved" /\ man' = man /\ ready = {}
    BY <1>4 DEF EndOfOrder, Unresolved
  <2>2. ~Sound
    BY <1>1, <1>4, <2>1, SoundIsPlaced
  <2>3. ~Sound'
    BY <2>1, <2>2 DEF Sound, Orderable, Found
  <2> QED
    BY <1>1, <2>1, <2>3 DEF IInv, HostInv, OneOrder, SoundSetsResolve
<1> QED
  BY <1>2, <1>3, <1>4

LEMMA StepKeeps ==
    ASSUME IInv, [Next]_vars
    PROVE  IInv'
<1>1. CASE AuthorStep
  BY <1>1, AuthorKeeps
<1>2. CASE Start
  BY <1>2, StartKeeps
<1>3. CASE HostStep
  BY <1>3, ReadManifestKeeps, ReadRootKeeps, ScanKeeps, OrderingKeeps, CheckRootsKeeps,
     BuildKeeps DEF HostStep
<1>4. CASE UNCHANGED vars
  <2>1. Kept /\ UNCHANGED <<disk, pc, unread, sorting, edits>>
    BY <1>4 DEF vars, container, Kept
  <2>2. OneOrder' /\ SoundSetsResolve'
    BY <2>1, KeptOrder, KeptSound DEF IInv, HostInv
  <2>3. pc = "Ordering" => Sorting'
    BY <2>1, KeptSorting DEF IInv, HostInv
  <2>4. Found' = Found /\ ReadFromDisk' = ReadFromDisk /\ DiskFixes' = DiskFixes
        /\ Placed' = Placed
    BY <2>1 DEF Kept, Found, ReadFromDisk, DiskFixes, FixedByLock, Placed
  <2> QED
    BY <2>1, <2>2, <2>3, <2>4 DEF IInv, HostInv, Kept
<1> QED
  BY <1>1, <1>2, <1>3, <1>4 DEF Next

LEMMA InitHolds == Init => IInv
  BY HostAssumption DEF Init, IInv, HostInv, OneOrder, SoundSetsResolve

LEMMA InvariantHolds == Spec => []IInv
<1>1. IInv /\ [Next]_vars => IInv'
  BY StepKeeps
<1> QED
  BY <1>1, InitHolds, PTL DEF Spec

(***************************************************************************)
(* One container gives one order, the one its lock or its manifests fix.   *)
(***************************************************************************)
THEOREM OneOrderAlways == Spec => []OneOrder
<1>1. IInv => OneOrder
  BY DEF IInv
<1> QED
  BY <1>1, InvariantHolds, PTL

(***************************************************************************)
(* A container that can be ordered is resolved.                            *)
(***************************************************************************)
THEOREM SoundSetsAlwaysResolve == Spec => []SoundSetsResolve
<1>1. IInv => SoundSetsResolve
  BY DEF IInv
<1> QED
  BY <1>1, InvariantHolds, PTL

-----------------------------------------------------------------------------
(***************************************************************************)
(* Whoever made it, an order is a sequence of packages: that of the tool   *)
(* is computed step by step from the manifests it finds.                   *)
(***************************************************************************)
LEMMA ListedIsSeq ==
    ASSUME NEW m, m.deps \in Seq(Dependencies)
    PROVE  Listed(m) \in Seq(Packages)
<1>1. Len(m.deps) \in Nat /\ \A i \in 1 .. Len(m.deps) : m.deps[i] \in Dependencies
  OBVIOUS
<1>2. \A i \in 1 .. Len(m.deps) : m.deps[i].to \in Packages
  BY <1>1 DEF Dependencies
<1> QED
  BY <1>1, <1>2 DEF Listed

Readable(m) ==
    DOMAIN m \subseteq Packages /\ \A p \in DOMAIN m : m[p].deps \in Seq(Dependencies)

LEMMA QueueIsSeq ==
    ASSUME NEW m, Readable(m), NEW target \in DOMAIN m
    PROVE  DependencyQueue(target, m) \in Seq(Packages)
<1> DEFINE looks == 1 .. Cardinality(Packages)
           With(q, listed) == q \o Selected(listed, {i \in DOMAIN listed : listed[i] \notin Range(q)})
           look == [k \in looks |-> [q \in Seq(Packages) |->
                       IF k <= Len(q) /\ q[k] \in DOMAIN m
                       THEN With(q, Listed(m[q[k]])) ELSE q]]
           order0 == [k \in looks |-> k]
           begin == Listed(m[target])
           P == [i \in 0 .. Len(order0) |-> Seq(Packages)]
<1>1. Cardinality(Packages) \in Nat
  BY PackagesFinite, FS_CardinalityType
<1>2. ASSUME NEW q \in Seq(Packages), NEW listed \in Seq(Packages)
      PROVE  With(q, listed) \in Seq(Packages)
  <2> DEFINE places == {i \in DOMAIN listed : listed[i] \notin Range(q)}
  <2>1. Selected(listed, places) \in Seq(Packages)
    <3>1. places \subseteq DOMAIN listed
      OBVIOUS
    <3> HIDE DEF places
    <3> QED
      BY <3>1, SelectedFacts
  <2> HIDE DEF places
  <2>2. q \o Selected(listed, places) \in Seq(Packages)
    BY <2>1
  <2> QED
    BY <2>2 DEF places
<1>3. begin \in Seq(Packages) /\ \A p \in DOMAIN m : Listed(m[p]) \in Seq(Packages)
  BY ListedIsSeq DEF Readable
<1>4. look \in [looks -> [Seq(Packages) -> Seq(Packages)]]
  <2>1. ASSUME NEW k \in looks, NEW q \in Seq(Packages)
        PROVE  (IF k <= Len(q) /\ q[k] \in DOMAIN m
                THEN With(q, Listed(m[q[k]])) ELSE q) \in Seq(Packages)
    <3> HIDE DEF With
    <3> QED
      BY <1>2, <1>3
  <2> HIDE DEF With, looks
  <2> QED
    BY <2>1
<1>5. order0 \in Seq(looks) /\ Len(order0) \in Nat
  BY <1>1
<1>6. DependencyQueue(target, m) = Through(look, order0, begin)
  BY DEF DependencyQueue
<1> HIDE DEF look, order0, begin, looks
<1>7. \A i \in 1 .. Len(order0) : order0[i] \in looks /\ i - 1 \in 0 .. Len(order0)
                                /\ i \in 0 .. Len(order0)
  BY <1>5
<1>8. \A i \in 0 .. Len(order0) : P[i] = Seq(Packages)
  OBVIOUS
<1> HIDE DEF P
<1>9. begin \in P[0]
  BY <1>3, <1>5, <1>8
<1>10. \A i \in 1 .. Len(order0) : \A q \in Seq(Packages) :
           q \in P[i - 1] => look[order0[i]][q] \in P[i]
  BY <1>4, <1>7, <1>8
<1>11. Through(look, order0, begin) \in Seq(Packages) \cap P[Len(order0)]
  <2>1. begin \in Seq(Packages)
    BY <1>3
  <2> QED
    BY <1>4, <1>5, <1>9, <1>10, <2>1, ThroughKeeps
<1> QED
  BY <1>6, <1>11

LEMMA SingleRootOrderIsSeq ==
    ASSUME NEW m, Readable(m), NEW target \in DOMAIN m
    PROVE  SingleRootOrder(target, m) \in Seq(Packages)
<1> DEFINE queue == DependencyQueue(target, m)
           places == {i \in DOMAIN queue : queue[i] \in DOMAIN m \ {Core, target}}
           front == IF Core \in DOMAIN m THEN <<Core>> ELSE <<>>
<1>1. target \in Packages /\ Core \in Packages
  BY PackageAssumption DEF Readable
<1>2. Selected(queue, places) \in Seq(Packages)
  <2>1. queue \in Seq(Packages)
    BY QueueIsSeq
  <2>2. places \subseteq DOMAIN queue
    OBVIOUS
  <2> HIDE DEF queue, places
  <2> QED
    BY <2>1, <2>2, SelectedFacts
<1>3. front \in Seq(Packages) /\ <<target>> \in Seq(Packages) /\ <<Core>> \in Seq(Packages)
  BY <1>1
<1>4. SingleRootOrder(target, m) =
        IF target = Core THEN <<Core>> ELSE front \o Selected(queue, places) \o <<target>>
  BY DEF SingleRootOrder
<1> HIDE DEF queue, places, front
<1> QED
  BY <1>2, <1>3, <1>4

(***************************************************************************)
(* What a repository is made of.                                           *)
(***************************************************************************)
IsCandidate(c) == Builds(c) /\ c.order \in Seq(Packages)

ContainerOK ==
    /\ disk \in [Packages -> (UNION {ManifestsOf[p] : p \in Packages}) \cup {Absent, Broken}]
    /\ \A p \in Packages : disk[p] \in ManifestsOf[p] \cup {Absent, Broken}
    /\ lock = Absent \/ (Len(lock) \in Nat /\ DOMAIN lock = 1 .. Len(lock))

OrderInv ==
    /\ ContainerOK
    /\ order \in Seq(Packages)
    /\ repo # NoRepository => \E c : IsCandidate(c) /\ repo = Snapshot(c)

LEMMA LocksAreSeqs ==
    ASSUME NEW d, NEW l \in LocksOf(d)
    PROVE  Len(l) \in Nat /\ DOMAIN l = 1 .. Len(l)
<1>1. PICK roots \in Seq(Packages) : l = GenerateLock(roots, d)
  BY HostAssumption DEF LocksOf
<1> QED
  BY <1>1 DEF GenerateLock

LEMMA AuthorKeepsContainer ==
    ASSUME ContainerOK, AuthorStep
    PROVE  ContainerOK'
<1>1. ASSUME NEW p \in Packages, EditManifest(p) PROVE ContainerOK'
  <2>1. PICK m \in ManifestsOf[p] \cup {Absent, Broken} : disk' = [disk EXCEPT ![p] = m]
    BY <1>1 DEF EditManifest
  <2>2. lock' = lock
    BY <1>1 DEF EditManifest
  <2>3. \A q \in Packages : disk'[q] = IF q = p THEN m ELSE disk[q]
    BY <2>1 DEF ContainerOK
  <2>4. disk' \in [Packages -> (UNION {ManifestsOf[q] : q \in Packages}) \cup {Absent, Broken}]
    BY <2>1 DEF ContainerOK
  <2> QED
    BY <2>2, <2>3, <2>4 DEF ContainerOK
<1>2. ASSUME NEW p \in Packages, EditSources(p) PROVE ContainerOK'
  BY <1>2 DEF EditSources, ContainerOK
<1>3. CASE WriteLock
  <2>1. lock' \in LocksOf(disk) /\ disk' = disk
    BY <1>3 DEF WriteLock
  <2> QED
    BY <2>1, LocksAreSeqs DEF ContainerOK
<1>4. CASE RemoveLock
  BY <1>4 DEF RemoveLock, ContainerOK
<1> QED
  BY <1>1, <1>2, <1>3, <1>4 DEF AuthorStep

LEMMA SiblingsAreReadable ==
    ASSUME ContainerOK
    PROVE  Readable(Siblings) /\ \A p \in Packages : disk[p] # Absent => p \in DOMAIN Siblings
<1>1. ASSUME NEW p \in DOMAIN Siblings PROVE Siblings[p].deps \in Seq(Dependencies)
  <2>1. p \in Packages /\ disk[p] # Absent
        /\ Siblings[p] = IF disk[p] = Broken THEN [deps |-> <<>>] ELSE disk[p]
    BY <1>1 DEF Siblings
  <2>2. CASE disk[p] = Broken
    BY <2>1, <2>2
  <2>3. CASE disk[p] # Broken
    <3>1. disk[p] \in ManifestsOf[p]
      BY <2>1, <2>3 DEF ContainerOK
    <3>2. IsManifest(disk[p])
      BY <2>1, <3>1, HostAssumption
    <3> QED
      BY <2>1, <2>3, <3>2 DEF IsManifest
  <2> QED
    BY <2>2, <2>3
<1> QED
  BY <1>1 DEF Readable, Siblings

LEMMA StartMakesSeq ==
    ASSUME OrderInv, Start
    PROVE  OrderInv'
<1>1. UNCHANGED <<disk, lock>> /\ repo' = NoRepository
  BY DEF Start, StartOnContainer, StartOnRoots, StartOnPackage, HostStarts, container
<1>2. ContainerOK'
  BY <1>1 DEF OrderInv, ContainerOK
<1>3. order' \in Seq(Packages)
  <2>1. ASSUME NEW roots \in RootLists, StartOnRoots(roots) PROVE order' \in Seq(Packages)
    BY <2>1, HostAssumption DEF StartOnRoots, ReadRoots
  <2>2. ASSUME NEW target \in Packages, StartOnPackage(target)
        PROVE  order' \in Seq(Packages)
    <3>1. CASE disk[target] \in {Absent, Broken}
      BY <2>2, <3>1 DEF StartOnPackage
    <3>2. CASE disk[target] \notin {Absent, Broken}
      <4>1. order' = SingleRootOrder(target, Siblings)
        BY <2>2, <3>2 DEF StartOnPackage, ReadRoots
      <4>2. Readable(Siblings) /\ target \in DOMAIN Siblings
        BY <3>2, SiblingsAreReadable DEF OrderInv
      <4> QED
        BY <4>1, <4>2, SingleRootOrderIsSeq
    <3> QED
      BY <3>1, <3>2
  <2>3. ASSUME NEW h, StartOnContainer(h) PROVE order' \in Seq(Packages)
    BY <2>3 DEF StartOnContainer
  <2> QED
    BY <2>1, <2>2, <2>3 DEF Start
<1> QED
  BY <1>1, <1>2, <1>3 DEF OrderInv

LEMMA LockOrderIsSeq ==
    ASSUME ContainerOK, lock # Absent, Range(LockOrder(lock)) \subseteq Found,
           Found \subseteq Packages
    PROVE  LockOrder(lock) \in Seq(Packages)
<1> DEFINE q == LockOrder(lock)
<1>1. Len(lock) \in Nat
  BY DEF ContainerOK
<1>2. DOMAIN q = 1 .. Len(lock) /\ q = [n \in 1 .. Len(lock) |-> q[n]]
  BY DEF LockOrder
<1> HIDE DEF q
<1>3. \A n \in 1 .. Len(lock) : q[n] \in Packages
  BY <1>2 DEF Range, q
<1> QED
  BY <1>1, <1>2, <1>3 DEF q

LEMMA HostMakesSeq ==
    ASSUME OrderInv, IInv, HostStep
    PROVE  OrderInv'
<1>1. UNCHANGED <<disk, lock>>
  BY DEF HostStep, ReadManifest, ReadRoot, FollowLock, BeginOrder, Place, EndOfOrder,
         RejectContainer, CheckRoots, ReadSources, BuildRepository, Scanned, container
<1>2. ContainerOK'
  BY <1>1 DEF OrderInv, ContainerOK
<1>3. order' \in Seq(Packages)
  <2>1. CASE FollowLock
    <3>1. Found \subseteq Packages
      BY <2>1 DEF FollowLock, Scanned, IInv, HostInv
    <3>2. CASE order' = order
      BY <3>2 DEF OrderInv
    <3>3. CASE order' # order
      <4>1. /\ lock # Absent /\ Range(LockOrder(lock)) \subseteq Found
            /\ order' = LockOrder(lock)
        BY <2>1, <3>3 DEF FollowLock, Resolved, Unresolved, ReadRoots
      <4> QED
        BY <3>1, <4>1, LockOrderIsSeq DEF OrderInv
    <3> QED
      BY <3>2, <3>3
  <2>2. CASE BeginOrder
    BY <2>2, PackageAssumption DEF BeginOrder
  <2>3. CASE Place
    <3>1. Sorting /\ order' = Append(order, Least(ready)) /\ ready # {}
      BY <2>3 DEF Place, IInv, HostInv
    <3>2. Least(ready) \in Packages
      BY <3>1, LeastIsIn DEF Sorting
    <3> QED
      BY <3>1, <3>2 DEF OrderInv
  <2>4. CASE EndOfOrder
    BY <2>4 DEF EndOfOrder, Resolved, Unresolved, ReadRoots, OrderInv
  <2>5. ASSUME UNCHANGED order PROVE order' \in Seq(Packages)
    BY <2>5 DEF OrderInv
  <2> QED
    BY <2>1, <2>2, <2>3, <2>4, <2>5
       DEF HostStep, ReadManifest, ReadRoot, RejectContainer, CheckRoots, ReadSources,
           BuildRepository, Unresolved
<1>4. repo' # NoRepository => \E c : IsCandidate(c) /\ repo' = Snapshot(c)
  <2>1. CASE UNCHANGED repo
    BY <2>1 DEF OrderInv
  <2>2. CASE ~UNCHANGED repo
    <3>1. Builds(Candidate) /\ repo' = Snapshot(Candidate)
      BY <2>2 DEF HostStep, ReadManifest, ReadRoot, FollowLock, BeginOrder, Place, EndOfOrder,
                  RejectContainer, CheckRoots, ReadSources, BuildRepository, Scanned
    <3>2. Candidate.order \in Seq(Packages)
      BY DEF Candidate, OrderInv
    <3> QED
      BY <3>1, <3>2 DEF IsCandidate
  <2> QED
    BY <2>1, <2>2
<1> QED
  BY <1>2, <1>3, <1>4 DEF OrderInv

LEMMA OrderInvHolds == Spec => []OrderInv
<1>1. Init => OrderInv
  <2> SUFFICES ASSUME Init PROVE OrderInv
    OBVIOUS
  <2>1. lock = Absent \/ lock \in LocksOf(disk)
    BY DEF Init
  <2>2. lock = Absent \/ (Len(lock) \in Nat /\ DOMAIN lock = 1 .. Len(lock))
    BY <2>1, LocksAreSeqs
  <2> QED
    BY <2>2 DEF Init, OrderInv, ContainerOK
<1>2. OrderInv /\ IInv /\ [Next]_vars => OrderInv'
  <2> SUFFICES ASSUME OrderInv, IInv, [Next]_vars PROVE OrderInv'
    OBVIOUS
  <2>1. CASE AuthorStep
    <3>1. UNCHANGED <<order, repo>>
      BY <2>1 DEF AuthorStep, EditManifest, EditSources, WriteLock, RemoveLock, Edit
    <3> QED
      BY <2>1, <3>1, AuthorKeepsContainer DEF OrderInv
  <2>2. CASE UNCHANGED vars
    BY <2>2 DEF vars, container, OrderInv, ContainerOK
  <2> QED
    BY <2>1, <2>2, StartMakesSeq, HostMakesSeq DEF Next
<1> QED
  BY <1>1, <1>2, InvariantHolds, PTL DEF Spec

-----------------------------------------------------------------------------
LEMMA ProvidersFacts ==
    ASSUME NEW c, IsCandidate(c), NEW id \in ActiveIds(c)
    PROVE  /\ Winner(c, id) \in Providers(c, id)
           /\ \A i \in Providers(c, id) : i <= Winner(c, id)
           /\ \E i \in Providers(c, id) :
                 /\ NamespaceOf[id] = c.order[i]
                 /\ \A j \in Providers(c, id) : i <= j
<1> DEFINE S == Providers(c, id)
           N == Len(c.order)
<1>1. N \in Nat /\ S \subseteq 1 .. N /\ S # {} /\ id \in Ids
  BY DEF IsCandidate, Providers, ActiveIds
<1>2. \E i \in S : \A j \in S : j <= i
  <2> DEFINE fromEnd == {N - i : i \in S}
  <2>1. fromEnd \subseteq Nat /\ fromEnd # {}
    BY <1>1
  <2>2. PICK k \in fromEnd : \A m \in fromEnd : k <= m
    <3> HIDE DEF fromEnd
    <3> QED
      BY <2>1, SomeFirst
  <2>3. PICK i \in S : k = N - i
    OBVIOUS
  <2>4. \A j \in S : N - i <= N - j
    BY <2>2, <2>3
  <2> HIDE DEF S, N
  <2>5. \A j \in S : j \in Nat
    BY <1>1
  <2> QED
    BY <1>1, <2>4, <2>5
<1>3. Winner(c, id) \in S /\ \A i \in S : i <= Winner(c, id)
  BY <1>2 DEF Winner
<1>4. PICK i \in S : \A j \in S : i <= j
  <2> HIDE DEF S
  <2>1. S \subseteq Nat
    BY <1>1
  <2> QED
    BY <1>1, <2>1, SomeFirst
<1>5. NamespaceOf[id] = c.order[i]
  <2>1. i \in 1 .. N /\ Provides(c, i, id)
    BY DEF Providers
  <2>2. \/ NamespaceOf[id] = c.order[i]
        \/ \E j \in 1 .. i - 1 : Provides(c, j, id)
    BY <1>1, <2>1 DEF IsCandidate, Builds, OwnsNewIds
  <2>3. ASSUME NEW j \in 1 .. i - 1, Provides(c, j, id) PROVE FALSE
    <3>1. j \in S
      BY <1>1, <2>1, <2>3 DEF Providers
    <3>2. i <= j
      BY <1>4, <3>1
    <3> QED
      BY <1>1, <2>1, <3>2
  <2> QED
    BY <2>2, <2>3
<1> QED
  BY <1>3, <1>4, <1>5

(***************************************************************************)
(* Whatever is edited and whoever builds: nobody provides an id before the *)
(* package in whose namespace it is, and the last one to provide it wins.  *)
(***************************************************************************)
THEOREM OwnerAlwaysIntroduces == Spec => []OwnerIntroduces
<1>1. OrderInv => OwnerIntroduces
  <2> SUFFICES ASSUME OrderInv, repo # NoRepository, NEW id \in DOMAIN repo.data
               PROVE  LET providers == repo.shadowed[id] \cup {repo.winner[id]}
                      IN  /\ NamespaceOf[id] \in providers
                          /\ \A p \in providers :
                                /\ Position(NamespaceOf[id]) <= Position(p)
                                /\ Position(p) <= Position(repo.winner[id])
    BY DEF OwnerIntroduces
  <2>1. PICK c : IsCandidate(c) /\ repo = Snapshot(c)
    BY DEF OrderInv
  <2>2. /\ id \in ActiveIds(c) /\ repo.order = c.order
        /\ repo.winner[id] = c.order[Winner(c, id)]
        /\ repo.shadowed[id] = {c.order[i] : i \in Providers(c, id) \ {Winner(c, id)}}
    BY <2>1 DEF Snapshot
  <2>3. PICK first \in Providers(c, id) :
            /\ NamespaceOf[id] = c.order[first]
            /\ \A j \in Providers(c, id) : first <= j
    BY <2>1, <2>2, ProvidersFacts
  <2>4. /\ Winner(c, id) \in Providers(c, id)
        /\ \A i \in Providers(c, id) : i <= Winner(c, id)
    BY <2>1, <2>2, ProvidersFacts
  <2>5. repo.shadowed[id] \cup {repo.winner[id]} = {c.order[i] : i \in Providers(c, id)}
    BY <2>2, <2>4
  <2>6. ASSUME NEW i \in Providers(c, id) PROVE Position(c.order[i]) = i
    <3>1. /\ c.order \in Seq(Packages) /\ IsInjective(c.order)
          /\ i \in 1 .. Len(c.order)
      BY <2>1 DEF IsCandidate, Builds, Valid, Providers
    <3>2. \A j \in 1 .. Len(c.order) : c.order[j] = c.order[i] => j = i
      BY <3>1 DEF IsInjective
    <3> QED
      BY <2>2, <3>1, <3>2 DEF Position
  <2> QED
    BY <2>2, <2>3, <2>4, <2>5, <2>6
<1> QED
  BY <1>1, OrderInvHolds, PTL
=============================================================================
