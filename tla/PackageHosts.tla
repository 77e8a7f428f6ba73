---------------------------- MODULE PackageHosts ----------------------------
(***************************************************************************)
(* The hosts that make a repository of the packages of a container: the    *)
(* game (UGV2RuntimeSubsystem), the headless host and the content tool,    *)
(* while an author edits the files.  A host reads one manifest or the      *)
(* sources of one package per step, so that an edit may fall between any   *)
(* two; what it computes from what it has read is not interrupted, except  *)
(* that the loop that orders the packages is one step per package.         *)
(***************************************************************************)
EXTENDS RepositoryBuild

CONSTANTS
    ManifestsOf, \* the manifests an author may give a package
    SourcesOf,   \* the sources an author may give a package
    Broken,      \* a manifest that does not parse or is malformed
    RootLists,   \* the lists of roots a host may be given
    NoRepository,
    MaxEdits     \* bound: edits while a host is at work

ASSUME HostAssumption ==
    /\ \A p \in Packages : \A m \in ManifestsOf[p] : IsManifest(m)
    /\ \A p \in Packages : SourcesOf[p] \subseteq SourceContents
    /\ RootLists \subseteq Seq(Packages)
    /\ Broken \notin UNION {ManifestsOf[p] : p \in Packages} /\ Broken # Absent
    /\ MaxEdits \in Nat

VARIABLES
    disk,    \* the manifest of each package in the container
    files,   \* the sources of each package
    lock,    \* mods.lock.json5
    host,    \* "game", "headless", "tool" or "list": how it was started
    pc,
    unread,  \* the packages whose manifest the host has still to read
    man,     \* the manifests it has read
    locked,  \* the lock it goes by
    order,   \* the packages in order, as far as it has got
    missing, \* InDegree: how many dependencies of a package are not yet placed
    ready,   \* those that wait to be placed
    sources, \* the sources it has read
    repo,    \* what it has published
    edits

container == <<disk, files, lock>>
sorting == <<missing, ready>>
vars == <<container, host, pc, unread, man, locked, order, sorting, sources, repo, edits>>

Ended == {"Off", "Unresolved", "NotBuilt", "Ready"}

\* A lock is generated from a list of roots that resolves.
LocksOf(d) ==
    {GenerateLock(roots, d) :
        roots \in {r \in RootLists : (\A p \in Range(r) : d[p] \notin {Absent, Broken})
                                     /\ Valid(r, d)}}

Init ==
    /\ disk \in {d \in [Packages -> UNION {ManifestsOf[p] : p \in Packages}] :
                    \A p \in Packages : d[p] \in ManifestsOf[p]}
    /\ files \in {f \in [Packages -> UNION {SourcesOf[p] : p \in Packages}] :
                    \A p \in Packages : f[p] \in SourcesOf[p]}
    /\ lock \in {Absent} \cup LocksOf(disk)
    /\ host = "game" /\ pc = "Off"
    /\ unread = {} /\ man = <<>> /\ locked = Absent
    /\ order = <<>> /\ missing = <<>> /\ ready = {} /\ sources = <<>>
    /\ repo = NoRepository
    /\ edits = 0

-----------------------------------------------------------------------------
(***************************************************************************)
(* The author, while a host is at work: what was edited before is in Init, *)
(* and what is edited after has no effect on it.                           *)
(***************************************************************************)
Edit ==
    /\ pc \notin Ended /\ edits < MaxEdits
    /\ edits' = edits + 1
    /\ UNCHANGED <<host, pc, unread, man, locked, order, sorting, sources, repo>>

EditManifest(p) ==
    /\ Edit
    /\ \E m \in ManifestsOf[p] \cup {Absent, Broken} :
          m # disk[p] /\ disk' = [disk EXCEPT ![p] = m]
    /\ UNCHANGED <<files, lock>>

EditSources(p) ==
    /\ Edit
    /\ \E s \in SourcesOf[p] \cup {Unparsable} :
          s # files[p] /\ files' = [files EXCEPT ![p] = s]
    /\ UNCHANGED <<disk, lock>>

WriteLock ==
    /\ Edit
    /\ \E l \in LocksOf(disk) : l # lock /\ lock' = l
    /\ UNCHANGED <<disk, files>>

RemoveLock ==
    /\ Edit
    /\ lock # Absent /\ lock' = Absent
    /\ UNCHANGED <<disk, files>>

AuthorStep ==
    \/ \E p \in Packages : EditManifest(p) \/ EditSources(p)
    \/ WriteLock
    \/ RemoveLock

-----------------------------------------------------------------------------
(***************************************************************************)
(* A host starts.  The game and the headless host scan the container; the  *)
(* tool is given one package, any of them may be given a list of roots.    *)
(***************************************************************************)
HostStarts(h) ==
    /\ pc = "Off"
    /\ host' = h
    /\ man' = <<>> /\ locked' = Absent /\ missing' = <<>> /\ ready' = {}
    /\ sources' = <<>> /\ repo' = NoRepository
    /\ UNCHANGED <<container, edits>>

StartOnContainer(h) ==
    /\ HostStarts(h)
    /\ order' = <<>> /\ unread' = Packages /\ pc' = "Scanning"

ReadRoots(roots) == order' = roots /\ unread' = Range(roots) /\ pc' = "Roots"

StartOnRoots(roots) == HostStarts("list") /\ ReadRoots(roots)

\* The tool looks at the manifests twice: for the roots, and again as a list.
Siblings ==
    [p \in {q \in Packages : disk[q] # Absent} |->
        IF disk[p] = Broken THEN [deps |-> <<>>] ELSE disk[p]]

StartOnPackage(target) ==
    /\ HostStarts("tool")
    /\ IF disk[target] \in {Absent, Broken}
       THEN pc' = "Unresolved" /\ order' = <<>> /\ unread' = {}
       ELSE ReadRoots(SingleRootOrder(target, Siblings))

Start ==
    \/ \E h \in {"game", "headless"} : StartOnContainer(h)
    \/ \E roots \in RootLists : StartOnRoots(roots)
    \/ \E target \in Packages : StartOnPackage(target)

-----------------------------------------------------------------------------
(***************************************************************************)
(* DiscoverPackageArtifactsFromContainer.  Every directory with a          *)
(* package.json5 is read, in any order.                                    *)
(***************************************************************************)
Found == DOMAIN man

\* What has been read, and the manifest of p as it is now.
WithManifest(p) == [q \in Found \cup {p} |-> IF q = p THEN disk[p] ELSE man[q]]

ReadManifest(p) ==
    /\ pc = "Scanning" /\ p \in unread
    /\ unread' = unread \ {p}
    /\ man' = IF disk[p] = Absent THEN man ELSE WithManifest(p)
    /\ UNCHANGED <<container, host, pc, locked, order, sorting, sources, repo,
                   edits>>

Unresolved == pc' = "Unresolved" /\ UNCHANGED <<unread, man, order>>

\* The game builds from the set it has resolved.  The headless host only keeps
\* the roots and resolves them once more, as a list.
Resolved(roots) ==
    IF host = "game"
    THEN order' = roots /\ pc' = "Reading" /\ UNCHANGED <<unread, man>>
    ELSE ReadRoots(roots) /\ man' = <<>>

Scanned ==
    /\ pc = "Scanning" /\ unread = {}
    /\ UNCHANGED <<container, host, sources, repo, edits>>

WholeContainer == Found # {} /\ Broken \notin Range(man)

\* Mutant: the lock gives the order, but nothing is compared with it.
LockNotVerified(roots) == Valid(roots, man)

LockAccepts(roots) == Valid(roots, man) /\ VerifyLock(lock, roots, man)

\* The packages and their order are the lock's.  Packages that are not in it
\* are passed over, unless their manifest cannot be read.
FollowLock ==
    /\ Scanned
    /\ WholeContainer /\ lock # Absent
    /\ locked' = lock
    /\ LET roots == LockOrder(lock)
       IN  IF Range(roots) \subseteq Found /\ LockAccepts(roots)
           THEN Resolved(roots)
           ELSE Unresolved
    /\ UNCHANGED sorting

Orderable == Core \in Found /\ \A p \in Found : DepsOf(man[p]) \subseteq Found

\* Core is placed before anything is counted down; mutant: it is counted.
CountsAll(p) == DepsOf(man[p])
WaitsFor(p) == DepsOf(man[p]) \ {Core}

\* Without a lock: core is placed, whatever it depends on, ...
BeginOrder ==
    /\ Scanned
    /\ WholeContainer /\ lock = Absent /\ Orderable
    /\ order' = <<Core>>
    /\ missing' = [p \in Found |-> Cardinality(WaitsFor(p))]
    /\ ready' = {p \in Found : /\ missing'[p] = 0
                               /\ p = Core => Core \in DepsOf(man[Core])}
    /\ pc' = "Ordering"
    /\ UNCHANGED <<unread, man, locked>>

\* ... then always the least of the packages that wait for nothing any more.
Place ==
    /\ pc = "Ordering" /\ ready # {}
    /\ LET p == Least(ready)
           dependants == {q \in Found : p \in DepsOf(man[q])}
       IN  /\ order' = Append(order, p)
           /\ missing' = [q \in Found |-> IF q \in dependants THEN missing[q] - 1
                                                             ELSE missing[q]]
           /\ ready' = (ready \ {p}) \cup {q \in dependants : missing'[q] = 0}
    /\ UNCHANGED <<container, host, pc, unread, man, locked, sources, repo, edits>>

AllPlaced == Len(order) = Cardinality(Found) /\ Valid(order, man)

EndOfOrder ==
    /\ pc = "Ordering" /\ ready = {}
    /\ IF AllPlaced THEN Resolved(order) ELSE Unresolved
    /\ UNCHANGED <<container, host, locked, sorting, sources, repo, edits>>

RejectContainer ==
    /\ Scanned
    /\ WholeContainer => lock = Absent /\ ~Orderable
    /\ Unresolved
    /\ UNCHANGED <<locked, sorting>>

-----------------------------------------------------------------------------
(***************************************************************************)
(* DiscoverPackageArtifactsFromDirectories: the roots in the order given.  *)
(***************************************************************************)
ReadRoot(p) ==
    /\ pc = "Roots" /\ p \in unread
    /\ IF disk[p] \in {Absent, Broken}
       THEN Unresolved
       ELSE man' = WithManifest(p) /\ unread' = unread \ {p} /\ UNCHANGED <<order, pc>>
    /\ UNCHANGED <<container, host, locked, sorting, sources, repo, edits>>

CheckRoots ==
    /\ pc = "Roots" /\ unread = {}
    /\ pc' = IF Valid(order, man) THEN "Reading" ELSE "Unresolved"
    /\ UNCHANGED <<container, host, unread, man, locked, order, sorting, sources, repo,
                   edits>>

-----------------------------------------------------------------------------
(***************************************************************************)
(* BuildRepository and PublishCandidate.  The manifests are those of the   *)
(* resolution, the sources are read now.                                   *)
(***************************************************************************)
NextToRead == order[Cardinality(DOMAIN sources) + 1]

ReadSources ==
    /\ pc = "Reading" /\ DOMAIN sources # Range(order)
    /\ sources' = sources @@ (NextToRead :> IF disk[NextToRead] = Absent THEN Unparsable
                                            ELSE files[NextToRead])
    /\ UNCHANGED <<container, host, pc, unread, man, locked, order, sorting, repo,
                   edits>>

Candidate == [order |-> order, man |-> man, sources |-> sources]

BuildRepository ==
    /\ pc = "Reading" /\ DOMAIN sources = Range(order)
    /\ IF Builds(Candidate)
       THEN pc' = "Ready" /\ repo' = Snapshot(Candidate)
       ELSE pc' = "NotBuilt" /\ UNCHANGED repo
    /\ UNCHANGED <<container, host, unread, man, locked, order, sorting, sources,
                   edits>>

HostStep ==
    \/ \E p \in Packages : ReadManifest(p) \/ ReadRoot(p)
    \/ FollowLock
    \/ BeginOrder
    \/ Place
    \/ EndOfOrder
    \/ RejectContainer
    \/ CheckRoots
    \/ ReadSources
    \/ BuildRepository

Next == AuthorStep \/ Start \/ HostStep

Spec == Init /\ [][Next]_vars

-----------------------------------------------------------------------------
(***************************************************************************)
(* Whatever is edited while it is built, a published repository is closed: *)
(* a reference names an active definition and nothing that is redirected   *)
(* or retired, a redirect ends in an active definition, and no id is       *)
(* active and retired.                                                     *)
(***************************************************************************)
PublishedIsClosed ==
    repo # NoRepository =>
        LET active == DOMAIN repo.data
        IN  /\ \A id \in active : repo.data[id] \subseteq active
            /\ Range(repo.redirects) \subseteq active
            /\ active \cap (DOMAIN repo.redirects \cup repo.tombstones) = {}

(***************************************************************************)
(* Nobody takes an id in another package's namespace before that package   *)
(* has introduced it: the owner of an active id is the first to provide    *)
(* it, whether it wins or is shadowed, and the one that wins comes last.   *)
(***************************************************************************)
Position(p) == CHOOSE i \in 1 .. Len(repo.order) : repo.order[i] = p

OwnerIntroduces ==
    repo # NoRepository =>
        \A id \in DOMAIN repo.data :
            LET providers == repo.shadowed[id] \cup {repo.winner[id]}
            IN  /\ NamespaceOf[id] \in providers
                /\ \A p \in providers :
                      /\ Position(NamespaceOf[id]) <= Position(p)
                      /\ Position(p) <= Position(repo.winner[id])

(***************************************************************************)
(* One container, one order: the game always, and the headless host if     *)
(* nobody edits meanwhile, builds the packages, places and manifests that  *)
(* the lock fixed; or, without a lock, all packages of the container, core *)
(* first and then always the least one whose dependencies are all placed,  *)
(* with or without load_after, whatever the order of the directory is.     *)
(***************************************************************************)
FixedByLock(roots, m) ==
    /\ Len(roots) = Len(locked)
    /\ \A i \in DOMAIN roots : locked[i] = Entry(roots[i], i, m[roots[i]])

Before(roots, i) == {roots[j] : j \in 1 .. i - 1}
Free(found, m, placed) == {p \in found \ placed : DepsOf(m[p]) \subseteq placed}

LeastFirst(roots, found, m) ==
    \A i \in 2 .. Len(roots) : roots[i] = Least(Free(found, m, Before(roots, i)))

FixedByManifests(roots, m) ==
    roots[1] = Core /\ LeastFirst(roots, Range(roots), m)

OneOrder ==
    /\ host = "game" \/ (host = "headless" /\ edits = 0)
    /\ pc \in {"Reading", "NotBuilt", "Ready"}
    => IF locked = Absent THEN Range(order) = Found /\ FixedByManifests(order, man)
                          ELSE FixedByLock(order, man)

(***************************************************************************)
(* The loop that orders a container gets stuck on nothing else than what   *)
(* cannot be ordered: a set that has core, core without dependencies,      *)
(* every dependency, and no cycle, is resolved.                            *)
(***************************************************************************)
Sound ==
    /\ Orderable /\ DepsOf(man[Core]) = {}
    /\ Acyclic(Found, man)
    /\ \A p \in Found : RetiresItsOwn(p, man[p])

SoundSetsResolve ==
    host = "game" /\ locked = Absent /\ pc = "Unresolved" =>
        ~(WholeContainer /\ Sound)
=============================================================================
