------------------------ MODULE EditorAdapter_proofs ------------------------
(***************************************************************************)
(* Proofs about AuthoringService and EditorAdapter, for every set of ids   *)
(* and values, every package, number of sources, of clients and of steps   *)
(* and every set of faults and bound on their number.                      *)
(***************************************************************************)
EXTENDS EditorAdapter, TLAPS

(***************************************************************************)
(* AuthoringService: its types, and that it implements ContentPackage.     *)
(*                                                                         *)
(* What an operation found and what it makes of it: the files that it      *)
(* writes with the contents it read and with those it writes.              *)
(***************************************************************************)
Before(c) == Over(disk, call[c].originals)
After(c) == Over(disk, call[c].updates)

EditOf(p, q) == \E id \in Ids : \E s \in FirstSource(p, id) : q = Edited(p, s, id, q[s][id])
CreateOf(p, q) == \E id \in Ids : CanCreate(p, id) /\ q = Created(p, id, q[1][id])
DuplicateOf(p, q) ==
    \E from, to \in Ids : \E s \in LastSource(p, from) :
        CanDuplicate(p, from, to) /\ q = Duplicated(p, s, from, to)
RenameOf(p, q) ==
    \E old, new \in Ids, redirect \in BOOLEAN :
        CanRename(p, old, new) /\ q = Renamed(p, old, new, redirect)
OneFileOf(p, q) == EditOf(p, q) \/ CreateOf(p, q) \/ DuplicateOf(p, q)

(***************************************************************************)
(* As long as nobody else has written, the files of an operation hold the  *)
(* new contents or those it read, by done, and after a failed write those  *)
(* of a roll-back that failed too; the new ones make one of the operations *)
(* of what was found, and once they are validated they build.              *)
(***************************************************************************)
FilesAsWritten(c) ==
    \A f \in DOMAIN call[c].updates :
        /\ f \in call[c].done => disk[f] = call[c].updates[f]
        /\ f \notin call[c].done /\ (call[c].phase # "rollingBack" \/ call[c].intact) =>
              disk[f] = call[c].originals[f]
        /\ disk[f] \in {call[c].updates[f], call[c].originals[f]}

Meant(c) ==
    \/ (\E f \in Files : DOMAIN call[c].updates = {f}) /\ OneFileOf(Before(c), After(c))
    \/ RenameOf(Before(c), After(c))

Alone(c) ==
    /\ FilesAsWritten(c) /\ Meant(c)
    /\ call[c].phase # "building" => Builds(After(c))
    /\ call[c].done # {} => RenameOf(Before(c), After(c))

PhaseOK(o) ==
    /\ o.phase \notin Underway => o = Ended(o.phase)
    /\ o.phase = "building" => o.done = {}
    /\ o.phase = "rollingBack" => o.done # {}
    /\ o.phase # "rollingBack" => o.intact

IInv ==
    /\ TypeOK
    /\ \A c \in Clients :
          /\ PhaseOK(call[c])
          /\ call[c].phase \in Underway /\ call[c].stale = {} => Alone(c)
    /\ \A c, d \in Clients :
          c # d /\ Writing(c) /\ Writing(d) => call[c].stale # {} \/ call[d].stale # {}

-----------------------------------------------------------------------------
(***************************************************************************)
(* The package of the abstract specification is the same one.              *)
(***************************************************************************)
LEMMA SameData ==
    /\ Package!Docs = Docs
    /\ Package!ValidDocs = ValidDocs
    /\ \A d : Package!RefsOf(d) = RefsOf(d)
    /\ \A d, old, new : Package!Retargeted(d, old, new) = Retargeted(d, old, new)
<1>1. Package!Docs = Docs
  BY DEF Package!Docs, Docs, Package!Objects, Objects
<1>2. Package!Pointers = Pointers /\ \A d, p : Package!ValueAt(d, p) = ValueAt(d, p)
  BY DEF Package!Pointers, Pointers, Package!ValueAt, ValueAt, Package!Objects, Objects
<1>3. Package!ValidDocs = ValidDocs
  BY <1>1, <1>2 DEF Package!ValidDocs, ValidDocs
<1>4. \A d : Package!RefsOf(d) = RefsOf(d)
  BY DEF Package!RefsOf, RefsOf
<1>5. \A d, old, new : Package!Retargeted(d, old, new) = Retargeted(d, old, new)
  BY DEF Package!Retargeted, Retargeted
<1> QED BY <1>1, <1>3, <1>4, <1>5

LEMMA SameFiles ==
    /\ Package!Sources = Sources /\ Package!Manifest = Manifest /\ Package!Files = Files
    /\ Package!Packages = Packages
<1>1. Package!Sources = Sources /\ Package!Manifest = Manifest
  BY DEF Package!Sources, Sources, Package!Manifest, Manifest
<1>2. Package!Files = Files
  BY <1>1 DEF Package!Files, Files
<1>3. /\ Package!SourceContents = SourceContents
      /\ Package!ManifestContents = ManifestContents
  BY SameData DEF Package!SourceContents, SourceContents,
       Package!ManifestContents, ManifestContents
<1>4. \A f : Package!ContentsOf(f) = ContentsOf(f)
  BY <1>1, <1>3 DEF Package!ContentsOf, ContentsOf
<1>5. Package!Packages = Packages
  BY <1>2, <1>3, <1>4 DEF Package!Packages, Packages
<1> QED BY <1>1, <1>2, <1>5

LEMMA SameContents ==
    ASSUME NEW p
    PROVE  /\ Package!Active(p) = Active(p)
           /\ Package!Redirected(p) = Redirected(p)
           /\ \A id : /\ Package!Providers(p, id) = Providers(p, id)
                      /\ Package!SourceOf(p, id) = SourceOf(p, id)
                      /\ Package!DataOf(p, id) = DataOf(p, id)
                      /\ Package!Target(p, id) = Target(p, id)
                      /\ \A s : Package!Provides(p, s, id) = Provides(p, s, id)
<1>1. \A s, id : Package!Provides(p, s, id) = Provides(p, s, id)
  BY DEF Package!Provides, Provides
<1>7. \A id : Package!Providers(p, id) = Providers(p, id)
  BY <1>1, SameFiles DEF Package!Providers, Providers
<1>2. Package!Active(p) = Active(p)
  BY <1>7 DEF Package!Active, Active
<1>3. \A id : Package!SourceOf(p, id) = SourceOf(p, id)
  BY <1>1, SameFiles DEF Package!SourceOf, SourceOf
<1>4. \A id : Package!DataOf(p, id) = DataOf(p, id)
  BY <1>3 DEF Package!DataOf, DataOf
<1>5. \A id : Package!Target(p, id) = Target(p, id)
  BY SameFiles DEF Package!Target, Target
<1>6. Package!Redirected(p) = Redirected(p)
  BY <1>5 DEF Package!Redirected, Redirected
<1> QED BY <1>1, <1>2, <1>3, <1>4, <1>5, <1>6, <1>7

LEMMA SameBuilds ==
    ASSUME NEW p
    PROVE  Package!Builds(p) = Builds(p)
<1>1. Package!RedirectsResolve(p) = RedirectsResolve(p)
  BY SameContents DEF Package!RedirectsResolve, RedirectsResolve
<1>2. p \in Package!Packages <=> p \in Packages
  BY SameFiles
<1>3. (\A id \in Ids, s, t \in Package!Sources :
          Package!Provides(p, s, id) /\ Package!Provides(p, t, id) => s = t)
      <=> (\A id \in Ids, s, t \in Sources : Provides(p, s, id) /\ Provides(p, t, id) => s = t)
  BY SameFiles DEF Package!Provides, Provides
<1>4. (\A id \in Package!Active(p) : Package!DataOf(p, id) \in Package!ValidDocs)
      <=> (\A id \in Active(p) : DataOf(p, id) \in ValidDocs)
  BY SameContents, SameData
<1>5. (Package!Active(p) \cap (Package!Redirected(p) \cup Tombstones) = {})
      <=> (Active(p) \cap (Redirected(p) \cup Tombstones) = {})
  BY SameContents
<1>6. (\A id \in Package!Active(p) : \A r \in Package!RefsOf(Package!DataOf(p, id)) :
          r \in (Package!Active(p) \cup Package!Redirected(p)) \ Tombstones)
      <=> (\A id \in Active(p) : \A r \in RefsOf(DataOf(p, id)) :
              r \in (Active(p) \cup Redirected(p)) \ Tombstones)
  BY SameContents, SameData
<1>7. Package!Builds(p) <=> Builds(p)
  BY <1>1, <1>2, <1>3, <1>4, <1>5, <1>6, Zenon DEF Package!Builds, Builds
<1> QED BY <1>7 DEF Package!Builds, Builds

LEMMA SameResults ==
    ASSUME NEW p
    PROVE  /\ \A s, id, d : Package!Edited(p, s, id, d) = Edited(p, s, id, d)
           /\ \A id, d : Package!Created(p, id, d) = Created(p, id, d)
           /\ \A id : /\ Package!CanCreate(p, id) = CanCreate(p, id)
                      /\ Package!FirstSource(p, id) = FirstSource(p, id)
                      /\ Package!LastSource(p, id) = LastSource(p, id)
           /\ \A from, to :
                 /\ Package!CanDuplicate(p, from, to) = CanDuplicate(p, from, to)
                 /\ \A s : Package!Duplicated(p, s, from, to) = Duplicated(p, s, from, to)
                 /\ Package!CanRename(p, from, to) = CanRename(p, from, to)
                 /\ \A redirect :
                       Package!Renamed(p, from, to, redirect) = Renamed(p, from, to, redirect)
<1>1. /\ \A s, id, d : Package!Edited(p, s, id, d) = Edited(p, s, id, d)
      /\ \A id, d : Package!Created(p, id, d) = Created(p, id, d)
  BY DEF Package!Edited, Edited, Package!Created, Created
<1>2. \A id : Package!CanCreate(p, id) = CanCreate(p, id)
  BY SameContents DEF Package!CanCreate, CanCreate
<1>3. \A id : /\ Package!FirstSource(p, id) = FirstSource(p, id)
              /\ Package!LastSource(p, id) = LastSource(p, id)
  <2>1. \A S : Package!Lowest(S) = Lowest(S) /\ Package!Highest(S) = Highest(S)
    BY DEF Package!Lowest, Lowest, Package!Highest, Highest
  <2> QED BY <2>1, SameContents DEF Package!FirstSource, FirstSource, Package!LastSource, LastSource
<1>4. \A from, to :
         /\ Package!CanDuplicate(p, from, to) = CanDuplicate(p, from, to)
         /\ \A s : Package!Duplicated(p, s, from, to) = Duplicated(p, s, from, to)
         /\ Package!CanRename(p, from, to) = CanRename(p, from, to)
  BY SameContents DEF Package!CanDuplicate, CanDuplicate, Package!Duplicated, Duplicated,
       Package!CanRename, CanRename
<1>5. ASSUME NEW from, NEW to, NEW redirect
      PROVE  Package!Renamed(p, from, to, redirect) = Renamed(p, from, to, redirect)
  <2>1. \A c : Package!RenamedSource(c, from, to) = RenamedSource(c, from, to)
    BY SameData DEF Package!RenamedSource, RenamedSource
  <2>2. \A m : Package!RenamedManifest(m, from, to, redirect)
                = RenamedManifest(m, from, to, redirect)
    BY DEF Package!RenamedManifest, RenamedManifest
  <2> QED BY <2>1, <2>2, SameFiles DEF Package!Renamed, Renamed
<1> QED BY <1>1, <1>2, <1>3, <1>4, <1>5

-----------------------------------------------------------------------------
(***************************************************************************)
(* Files, and what the operations make of them.                            *)
(***************************************************************************)
LEMMA FileFacts ==
    /\ Sources \subseteq Files /\ 1 \in Sources
    /\ \A s \in Sources : s # Manifest /\ ContentsOf(s) = SourceContents
BY PackageAssumption DEF Sources, Files, Manifest, ContentsOf

LEMMA PackageFacts ==
    ASSUME NEW p \in Packages
    PROVE  /\ p = [f \in Files |-> p[f]] /\ DOMAIN p = Files
           /\ \A f \in Files : p[f] \in ContentsOf(f)
           /\ \A s \in Sources : p[s] = [id \in Ids |-> p[s][id]] /\ DOMAIN p[s] = Ids
<1>1. p \in [Files -> SourceContents \cup ManifestContents]
  BY DEF Packages
<1>2. \A f \in Files : p[f] \in ContentsOf(f)
  BY DEF Packages
<1>3. \A s \in Sources : p[s] \in [Ids -> Docs \cup {Absent}]
  BY <1>2, FileFacts DEF SourceContents
<1> QED BY <1>1, <1>2, <1>3

LEMMA PackageIs ==
    ASSUME NEW p, p = [f \in Files |-> p[f]], \A f \in Files : p[f] \in ContentsOf(f)
    PROVE  p \in Packages
<1>1. \A f \in Files : p[f] \in SourceContents \cup ManifestContents
  BY DEF ContentsOf
<1> QED BY <1>1 DEF Packages

LEMMA OneFileWritten ==
    ASSUME NEW p \in Packages, NEW f \in Files, NEW c \in ContentsOf(f)
    PROVE  /\ [p EXCEPT ![f] = c] \in Packages
           /\ \A g \in Files : [p EXCEPT ![f] = c][g] = IF g = f THEN c ELSE p[g]
<1> DEFINE q == [p EXCEPT ![f] = c]
<1>1. p = [g \in Files |-> p[g]] /\ \A g \in Files : p[g] \in ContentsOf(g)
  BY PackageFacts
<1>2. \A g \in Files : q[g] = IF g = f THEN c ELSE p[g]
  BY <1>1
<1>3. q = [g \in Files |-> q[g]]
  BY <1>1
<1> HIDE DEF q
<1>4. q \in Packages
  BY <1>1, <1>2, <1>3, PackageIs
<1> QED BY <1>2, <1>4 DEF q

\* An entry of a source is set or removed.
LEMMA EntryWritten ==
    ASSUME NEW p \in Packages, NEW s \in Sources, NEW id \in Ids,
           NEW d \in Docs \cup {Absent}
    PROVE  /\ [p EXCEPT ![s][id] = d] \in Packages
           /\ [p EXCEPT ![s][id] = d][s][id] = d
           /\ \A i \in Ids \ {id} : [p EXCEPT ![s][id] = d][s][i] = p[s][i]
           /\ \A g \in Files \ {s} : [p EXCEPT ![s][id] = d][g] = p[g]
<1>1. p[s] \in [Ids -> Docs \cup {Absent}] /\ s \in Files /\ ContentsOf(s) = SourceContents
  BY PackageFacts, FileFacts DEF SourceContents
<1> DEFINE c == [p[s] EXCEPT ![id] = d]
<1>2. c \in ContentsOf(s) /\ c[id] = d /\ \A i \in Ids \ {id} : c[i] = p[s][i]
  BY <1>1 DEF SourceContents
<1>3. [p EXCEPT ![s][id] = d] = [p EXCEPT ![s] = c]
  BY PackageFacts
<1> HIDE DEF c
<1> QED BY <1>1, <1>2, <1>3, OneFileWritten

LEMMA RenamedIsPackage ==
    ASSUME NEW p \in Packages, NEW old \in Ids, NEW new \in Ids, NEW redirect \in BOOLEAN
    PROVE  Renamed(p, old, new, redirect) \in Packages
<1>1. ASSUME NEW c \in SourceContents
      PROVE  RenamedSource(c, old, new) \in SourceContents
  <2> DEFINE moved(id) == IF id = new THEN c[old] ELSE IF id = old THEN Absent ELSE c[id]
  <2>1. \A id \in Ids : moved(id) \in Docs \cup {Absent}
    BY DEF SourceContents
  <2>2. \A d \in Docs : Retargeted(d, old, new) \in Docs
    BY DEF Docs, Retargeted
  <2>3. RenamedSource(c, old, new) =
           [id \in Ids |-> IF moved(id) = Absent THEN Absent
                           ELSE Retargeted(moved(id), old, new)]
    BY DEF RenamedSource
  <2> HIDE DEF moved
  <2> QED BY <2>1, <2>2, <2>3 DEF SourceContents
<1>2. ASSUME NEW m \in ManifestContents
      PROVE  RenamedManifest(m, old, new, redirect) \in ManifestContents
  BY DEF ManifestContents, RenamedManifest
<1> DEFINE q == Renamed(p, old, new, redirect)
<1>3. q = [f \in Files |-> q[f]]
  BY DEF Renamed
<1>4. ASSUME NEW f \in Files
      PROVE  q[f] \in ContentsOf(f)
  <2>1. p[f] \in ContentsOf(f)
    BY PackageFacts
  <2>2. CASE f = Manifest
    BY <1>2, <2>1, <2>2 DEF Renamed, ContentsOf
  <2>3. CASE f # Manifest
    BY <1>1, <2>1, <2>3 DEF Renamed, ContentsOf
  <2> QED BY <2>2, <2>3
<1> HIDE DEF q
<1> QED BY <1>3, <1>4, PackageIs DEF q

\* Files of a package put over another one.
LEMMA OverFacts ==
    ASSUME NEW p \in Packages, NEW u, DOMAIN u \subseteq Files,
           \A f \in DOMAIN u : u[f] \in ContentsOf(f)
    PROVE  /\ Over(p, u) \in Packages
           /\ \A f \in Files : Over(p, u)[f] = IF f \in DOMAIN u THEN u[f] ELSE p[f]
<1> DEFINE q == Over(p, u)
<1>1. q = [f \in Files |-> q[f]]
  BY DEF Over
<1>2. \A f \in Files : q[f] = IF f \in DOMAIN u THEN u[f] ELSE p[f]
  BY DEF Over
<1>3. \A f \in Files : q[f] \in ContentsOf(f)
  BY <1>2, PackageFacts
<1> HIDE DEF q
<1> QED BY <1>1, <1>2, <1>3, PackageIs DEF q

LEMMA SamePackage ==
    ASSUME NEW p \in Packages, NEW q \in Packages, \A f \in Files : p[f] = q[f]
    PROVE  p = q
<1>1. p = [f \in Files |-> p[f]] /\ q = [f \in Files |-> q[f]]
  BY PackageFacts
<1> QED BY <1>1

-----------------------------------------------------------------------------
(***************************************************************************)
(* Types.                                                                  *)
(***************************************************************************)
LEMMA RestrictFacts ==
    ASSUME NEW p \in Packages, NEW S \in SUBSET Files
    PROVE  /\ Restrict(p, S) \in Contents /\ DOMAIN Restrict(p, S) = S
           /\ \A f \in S : Restrict(p, S)[f] = p[f] /\ p[f] \in ContentsOf(f)
<1>1. p \in [Files -> SourceContents \cup ManifestContents]
  BY DEF Packages
<1>2. Restrict(p, S) \in [S -> SourceContents \cup ManifestContents]
  BY <1>1 DEF Restrict
<1>3. Restrict(p, S) \in Contents
  BY <1>2 DEF Contents
<1> QED BY <1>3, PackageFacts DEF Restrict

LEMMA CallFacts ==
    ASSUME NEW o \in Calls
    PROVE  /\ DOMAIN o.updates \subseteq Files /\ DOMAIN o.originals \subseteq Files
           /\ o = [phase |-> o.phase, updates |-> o.updates, originals |-> o.originals,
                   done |-> o.done, intact |-> o.intact, stale |-> o.stale]
<1>1. o.updates \in Contents /\ o.originals \in Contents
  BY DEF Calls
<1>2. \A u \in Contents : DOMAIN u \subseteq Files
  BY DEF Contents
<1> QED BY <1>1, <1>2 DEF Calls

LEMMA EndedTypes ==
    ASSUME NEW result \in {"idle"} \cup Results
    PROVE  Ended(result) \in Calls /\ CallOK(Ended(result))
<1>2. NoFiles \in [{} -> SourceContents \cup ManifestContents]
  BY DEF NoFiles
<1>3. NoFiles \in Contents /\ DOMAIN NoFiles = {}
  BY <1>2 DEF Contents
<1> QED BY <1>3 DEF Calls, CallOK, Ended, Call

LEMMA CountedFaults ==
    ASSUME TypeOK, NEW kind, NEW written \in Written(kind), Count(written)
    PROVE  written \in BOOLEAN /\ faults' \in 0..MaxFaults
<1>1. written \in BOOLEAN /\ (~written => faults < MaxFaults)
  BY Zenon DEF Written, Fails
<1>2. faults' = faults \/ (faults < MaxFaults /\ faults' = faults + 1)
  BY <1>1, Zenon DEF Count
<1>3. faults \in 0..MaxFaults /\ MaxFaults \in Nat
  BY ServiceAssumption DEF TypeOK
<1> QED BY <1>1, <1>2, <1>3

LEMMA TurnTypes ==
    ASSUME TypeOK, NEW c \in Clients, NEW o \in Calls, CallOK(o), Turn(c, o),
           disk' = disk, faults' \in 0..MaxFaults
    PROVE  TypeOK' /\ call'[c] = o /\ \A d \in Clients \ {c} : call'[d] = call[d]
<1>1. call' = [call EXCEPT ![c] = o] /\ call \in [Clients -> Calls]
  BY DEF Turn, TypeOK
<1>2. call' \in [Clients -> Calls] /\ call'[c] = o /\ \A d \in Clients \ {c} : call'[d] = call[d]
  BY <1>1
<1> QED BY <1>2 DEF TypeOK

LEMMA ReplaceTypes ==
    ASSUME TypeOK, NEW c \in Clients, NEW f \in Files, NEW contents \in ContentsOf(f),
           NEW o \in Calls, CallOK(o), Replace(c, f, contents, o), faults' \in 0..MaxFaults
    PROVE  /\ TypeOK' /\ call'[c] = o
           /\ \A g \in Files : disk'[g] = IF g = f THEN contents ELSE disk[g]
           /\ \A d \in Clients \ {c} :
                 /\ call[d].phase \in Underway =>
                       call'[d] = [call[d] EXCEPT !.stale = @ \cup {f}]
                 /\ call[d].phase \notin Underway => call'[d] = call[d]
<1>1. /\ disk' = [disk EXCEPT ![f] = contents]
      /\ call' = [x \in Clients |->
                     IF x = c THEN o
                     ELSE IF call[x].phase \in Underway
                          THEN [call[x] EXCEPT !.stale = @ \cup {f}]
                     ELSE call[x]]
  BY DEF Replace
<1>2. disk' \in Packages /\ \A g \in Files : disk'[g] = IF g = f THEN contents ELSE disk[g]
  <2>1. disk \in Packages
    BY DEF TypeOK
  <2>2. LET p == [disk EXCEPT ![f] = contents]
        IN  p \in Packages /\ \A g \in Files : p[g] = IF g = f THEN contents ELSE disk[g]
    BY <2>1, OneFileWritten
  <2> QED BY <1>1, <2>2
<1>3. \A d \in Clients : call[d] \in Calls /\ CallOK(call[d])
  BY DEF TypeOK
<1>4. /\ call'[c] = o
      /\ \A d \in Clients \ {c} :
            /\ call[d].phase \in Underway =>
                  call'[d] = [call[d] EXCEPT !.stale = @ \cup {f}]
            /\ call[d].phase \notin Underway => call'[d] = call[d]
  BY <1>1
<1>5. ASSUME NEW d \in Clients
      PROVE  call'[d] \in Calls /\ CallOK(call'[d])
  <2>1. CASE d = c
    BY <2>1, <1>4
  <2>2. CASE d # c /\ call[d].phase \notin Underway
    BY <2>2, <1>3, <1>4
  <2>3. CASE d # c /\ call[d].phase \in Underway
    <3>1. [call[d] EXCEPT !.stale = @ \cup {f}] \in Calls
      BY <1>3 DEF Calls
    <3>2. CallOK([call[d] EXCEPT !.stale = @ \cup {f}])
      BY <1>3 DEF Calls, CallOK
    <3> QED BY <2>3, <1>4, <3>1, <3>2
  <2> QED BY <2>1, <2>2, <2>3
<1>6. call' \in [Clients -> Calls]
  BY <1>1, <1>5
<1> QED BY <1>2, <1>4, <1>5, <1>6 DEF TypeOK

-----------------------------------------------------------------------------
(***************************************************************************)
(* The invariant is kept.                                                  *)
(*                                                                         *)
(* How an operation begins: with files of a package that is one of the     *)
(* operations away, and that does not differ from what is read elsewhere.  *)
(***************************************************************************)
Begins(c) ==
    \/ \E id \in Ids, d \in Docs : CreateDefinition(c, id, d)
    \/ \E id \in Ids, s \in Sources, d \in Docs : ApplyOperations(c, s, id, d)
    \/ \E from, to \in Ids, s \in Sources : DuplicateDefinition(c, s, from, to)
    \/ \E id \in Ids, s \in Sources : DeleteDefinition(c, s, id)
    \/ \E old, new \in Ids, redirect \in BOOLEAN : RenameDefinition(c, old, new, redirect)

Begun(c, S, p) ==
    /\ Begin(c, S, p) /\ p \in Packages
    /\ \A f \in Files \ S : p[f] = disk[f]
    /\ ((\E f \in Files : S = {f}) /\ OneFileOf(disk, p)) \/ RenameOf(disk, p)

LEMMA EditBegins ==
    ASSUME TypeOK, NEW c \in Clients, NEW s \in Sources, NEW id \in Ids,
           NEW d \in Docs \cup {Absent}, ApplyOperations(c, s, id, d)
    PROVE  \E S \in SUBSET Files, p \in Packages : Begun(c, S, p)
<1> DEFINE q == Edited(disk, s, id, d)
<1>1. s \in FirstSource(disk, id) /\ Begin(c, {s}, q)
  BY DEF ApplyOperations
<1>2. disk \in Packages /\ s \in Files
  BY FileFacts DEF TypeOK
<1>3. /\ q \in Packages /\ q[s][id] = d
      /\ \A f \in Files \ {s} : q[f] = disk[f]
  BY <1>2, EntryWritten DEF Edited
<1>4. q = Edited(disk, s, id, q[s][id])
  BY <1>3
<1> HIDE DEF q
<1>5. EditOf(disk, q)
  BY <1>1, <1>4 DEF EditOf
<1>6. Begun(c, {s}, q)
  BY <1>1, <1>2, <1>3, <1>5 DEF Begun, OneFileOf
<1> QED BY <1>2, <1>3, <1>6

LEMMA CreateBegins ==
    ASSUME TypeOK, NEW c \in Clients, NEW id \in Ids, NEW d \in Docs,
           CreateDefinition(c, id, d)
    PROVE  \E S \in SUBSET Files, p \in Packages : Begun(c, S, p)
<1> DEFINE q == Created(disk, id, d)
<1>1. CanCreate(disk, id) /\ Begin(c, {1}, q)
  BY DEF CreateDefinition
<1>2. disk \in Packages /\ 1 \in Files
  BY FileFacts DEF TypeOK
<1>3. /\ q \in Packages /\ q[1][id] = d
      /\ \A f \in Files \ {1} : q[f] = disk[f]
  BY <1>2, EntryWritten, FileFacts DEF Created
<1>4. q = Created(disk, id, q[1][id])
  BY <1>3
<1> HIDE DEF q
<1>5. CreateOf(disk, q)
  BY <1>1, <1>4 DEF CreateOf
<1>6. Begun(c, {1}, q)
  BY <1>1, <1>2, <1>3, <1>5 DEF Begun, OneFileOf
<1> QED BY <1>2, <1>3, <1>6

LEMMA DuplicateBegins ==
    ASSUME TypeOK, NEW c \in Clients, NEW from \in Ids, NEW to \in Ids, NEW s \in Sources,
           DuplicateDefinition(c, s, from, to)
    PROVE  \E S \in SUBSET Files, p \in Packages : Begun(c, S, p)
<1> DEFINE q == Duplicated(disk, s, from, to)
<1>1. /\ s \in LastSource(disk, from) /\ CanDuplicate(disk, from, to)
      /\ Begin(c, {s}, q)
  BY DEF DuplicateDefinition
<1>2. disk \in Packages /\ s \in Files
  BY FileFacts DEF TypeOK
<1>3. disk[s][from] \in Docs \cup {Absent}
  <2>1. disk[s] \in SourceContents
    BY <1>2, PackageFacts, FileFacts
  <2> QED BY <2>1 DEF SourceContents
<1>4. /\ q \in Packages
      /\ \A f \in Files \ {s} : q[f] = disk[f]
  BY <1>2, <1>3, EntryWritten DEF Duplicated
<1>5. q = Duplicated(disk, s, from, to)
  OBVIOUS
<1> HIDE DEF q
<1>6. DuplicateOf(disk, q)
  BY <1>1, <1>5 DEF DuplicateOf
<1>7. Begun(c, {s}, q)
  BY <1>1, <1>2, <1>4, <1>6 DEF Begun, OneFileOf
<1> QED BY <1>2, <1>4, <1>7

LEMMA RenameBegins ==
    ASSUME TypeOK, NEW c \in Clients, NEW old \in Ids, NEW new \in Ids,
           NEW redirect \in BOOLEAN, RenameDefinition(c, old, new, redirect)
    PROVE  \E S \in SUBSET Files, p \in Packages : Begun(c, S, p)
<1> DEFINE q == Renamed(disk, old, new, redirect)
           S == {f \in Files : q[f] # disk[f]}
<1>1. CanRename(disk, old, new) /\ Begin(c, S, q)
  BY DEF RenameDefinition
<1>2. q \in Packages
  BY RenamedIsPackage DEF TypeOK
<1>3. q = Renamed(disk, old, new, redirect)
  OBVIOUS
<1>4. \A f \in Files \ S : q[f] = disk[f]
  OBVIOUS
<1>5. S \in SUBSET Files
  OBVIOUS
<1> HIDE DEF q, S
<1>6. RenameOf(disk, q)
  BY <1>1, <1>3 DEF RenameOf
<1>7. Begun(c, S, q)
  BY <1>1, <1>2, <1>4, <1>6 DEF Begun
<1> QED BY <1>2, <1>5, <1>7

LEMMA BeginsAs ==
    ASSUME TypeOK, NEW c \in Clients, Begins(c)
    PROVE  \E S \in SUBSET Files, p \in Packages : Begun(c, S, p)
<1>1. CASE \E id \in Ids, d \in Docs : CreateDefinition(c, id, d)
  BY <1>1, CreateBegins
<1>2. CASE \E id \in Ids, s \in Sources, d \in Docs : ApplyOperations(c, s, id, d)
  BY <1>2, EditBegins
<1>3. CASE \E from, to \in Ids, s \in Sources : DuplicateDefinition(c, s, from, to)
  BY <1>3, DuplicateBegins
<1>4. CASE \E id \in Ids, s \in Sources : DeleteDefinition(c, s, id)
  BY <1>4, EditBegins DEF DeleteDefinition
<1>5. CASE \E old, new \in Ids, redirect \in BOOLEAN : RenameDefinition(c, old, new, redirect)
  BY <1>5, RenameBegins
<1> QED BY <1>1, <1>2, <1>3, <1>4, <1>5 DEF Begins

LEMMA StaleFacts ==
    ASSUME NEW o \in Calls, NEW f
    PROVE  LET n == [o EXCEPT !.stale = @ \cup {f}]
           IN  /\ n.phase = o.phase /\ n.done = o.done /\ n.intact = o.intact
               /\ n.updates = o.updates /\ n.originals = o.originals
               /\ n.stale = o.stale \cup {f}
BY DEF Calls

(***************************************************************************)
(* Steps that write no file, and those that do.                            *)
(***************************************************************************)
LEMMA TurnKeeps ==
    ASSUME IInv, NEW c \in Clients, NEW o \in Calls, CallOK(o), Turn(c, o), disk' = disk,
           faults' \in 0..MaxFaults, PhaseOK(o),
           o.phase \in Underway /\ o.stale = {} => Alone(c)',
           o.done # {} => call[c].done # {} /\ o.stale = call[c].stale
    PROVE  IInv'
<1>1. TypeOK' /\ call'[c] = o /\ \A d \in Clients \ {c} : call'[d] = call[d]
  BY TurnTypes DEF IInv
<1>2. ASSUME NEW d \in Clients
      PROVE  /\ PhaseOK(call'[d])
             /\ call'[d].phase \in Underway /\ call'[d].stale = {} => Alone(d)'
  <2>1. CASE d = c
    BY <1>1, <2>1
  <2>2. CASE d # c
    <3>1. call'[d] = call[d] /\ PhaseOK(call[d])
      BY <1>1, <2>2 DEF IInv
    <3>2. Alone(d) => Alone(d)'
      BY <3>1 DEF Alone, FilesAsWritten, Meant, Before, After
    <3>3. call[d].phase \in Underway /\ call[d].stale = {} => Alone(d)
      BY DEF IInv
    <3> QED BY <3>1, <3>2, <3>3
  <2> QED BY <2>1, <2>2
<1>3. ASSUME NEW d \in Clients
      PROVE  /\ call'[d].done # {} => call[d].done # {}
             /\ call'[d].done # {} => call'[d].stale = call[d].stale
  BY <1>1
<1>4. \A d, e \in Clients :
          d # e /\ call'[d].done # {} /\ call'[e].done # {} =>
             call'[d].stale # {} \/ call'[e].stale # {}
  BY <1>3 DEF IInv, Writing
<1>5. \A d \in Clients : Writing(d)' <=> call'[d].done # {}
  BY DEF Writing
<1> QED BY <1>1, <1>2, <1>4, <1>5 DEF IInv, PhaseOK

LEMMA ReplaceKeeps ==
    ASSUME IInv, NEW c \in Clients, NEW f \in Files, NEW contents \in ContentsOf(f),
           NEW o \in Calls, CallOK(o), Replace(c, f, contents, o), faults' \in 0..MaxFaults,
           PhaseOK(o), o.phase \in Underway /\ o.stale = {} => Alone(c)'
    PROVE  IInv'
<1>1. /\ TypeOK' /\ call'[c] = o
      /\ \A d \in Clients \ {c} :
            /\ call[d].phase \in Underway =>
                  call'[d] = [call[d] EXCEPT !.stale = @ \cup {f}]
            /\ call[d].phase \notin Underway => call'[d] = call[d]
  BY ReplaceTypes DEF IInv
<1>2. ASSUME NEW d \in Clients \ {c}
      PROVE  /\ PhaseOK(call'[d])
             /\ call'[d].phase \in Underway \/ call'[d].done # {} => call'[d].stale # {}
  <2>1. CASE call[d].phase \in Underway
    <3>1. call[d] \in Calls /\ PhaseOK(call[d])
      BY DEF IInv, TypeOK
    <3>2. /\ call'[d].phase = call[d].phase /\ call'[d].done = call[d].done
          /\ call'[d].intact = call[d].intact /\ f \in call'[d].stale
      <4>1. call'[d] = [call[d] EXCEPT !.stale = @ \cup {f}]
        BY <1>1, <2>1
      <4> QED BY <3>1, <4>1, StaleFacts
    <3> QED BY <2>1, <3>1, <3>2 DEF PhaseOK
  <2>2. CASE call[d].phase \notin Underway
    <3>1. PhaseOK(call[d]) /\ call'[d] = call[d]
      BY <1>1, <2>2 DEF IInv
    <3>2. call[d].done = {}
      BY <2>2, <3>1 DEF PhaseOK, Ended, Call
    <3> QED BY <2>2, <3>1, <3>2
  <2> QED BY <2>1, <2>2
<1>3. \A d, e \in Clients :
          d # e /\ call'[d].done # {} /\ call'[e].done # {} =>
             call'[d].stale # {} \/ call'[e].stale # {}
  BY <1>2
<1>4. \A d \in Clients : Writing(d)' <=> call'[d].done # {}
  BY DEF Writing
<1>5. \A d \in Clients :
          /\ PhaseOK(call'[d])
          /\ call'[d].phase \in Underway /\ call'[d].stale = {} => Alone(d)'
  BY <1>1, <1>2
<1> QED BY <1>1, <1>3, <1>4, <1>5 DEF IInv, PhaseOK

LEMMA SameOver ==
    ASSUME NEW p, NEW q, NEW u, \A f \in Files \ DOMAIN u : q[f] = p[f]
    PROVE  Over(q, u) = Over(p, u)
BY DEF Over

(***************************************************************************)
(* One operation after the other.                                          *)
(***************************************************************************)
LEMMA CountUnchanged ==
    ASSUME TypeOK, faults' = faults
    PROVE  faults' \in 0..MaxFaults
BY DEF TypeOK

LEMMA EndedKeeps ==
    ASSUME IInv, NEW c \in Clients, NEW result \in {"idle"} \cup Results,
           Turn(c, Ended(result)), disk' = disk, faults' \in 0..MaxFaults
    PROVE  IInv'
<1> DEFINE o == Ended(result)
<1>1. o \in Calls /\ CallOK(o)
  BY EndedTypes
<1>2. o.phase = result /\ o.done = {} /\ o.intact = TRUE
  BY DEF Ended, Call
<1>3. result \notin Underway
  BY DEF Results, Underway
<1>4. PhaseOK(o)
  BY <1>2, <1>3 DEF PhaseOK, Underway
<1> HIDE DEF o
<1>5. Turn(c, o)
  BY DEF o
<1> QED BY <1>1, <1>2, <1>3, <1>4, <1>5, TurnKeeps

LEMMA OverRestricted ==
    ASSUME NEW p \in Packages, NEW q \in Packages, NEW S \in SUBSET Files,
           \A f \in Files \ S : q[f] = p[f]
    PROVE  Over(p, Restrict(q, S)) = q
<1>1. DOMAIN Restrict(q, S) = S /\ \A f \in S : Restrict(q, S)[f] = q[f]
  BY RestrictFacts
<1>2. \A f \in Files : (IF f \in DOMAIN Restrict(q, S) THEN Restrict(q, S)[f] ELSE p[f]) = q[f]
  BY <1>1
<1>3. Over(p, Restrict(q, S)) = [f \in Files |-> q[f]]
  BY <1>2 DEF Over
<1> QED BY <1>3, PackageFacts

FirstCall(o, c, S, p) ==
    /\ CallOK(o) /\ Turn(c, o) /\ call[c] = Idle
    /\ disk' = disk /\ faults' \in 0..MaxFaults
    /\ o.phase = "building" /\ o.done = {} /\ o.intact /\ o.stale = {}
    /\ o.updates = Restrict(p, S) /\ o.originals = Restrict(disk, S)
    /\ DOMAIN o.updates = S
    /\ Over(disk, o.updates) = p /\ Over(disk, o.originals) = disk
    /\ \A f \in S : o.originals[f] = disk[f]

LEMMA BeginFacts ==
    ASSUME TypeOK, NEW c \in Clients, NEW S \in SUBSET Files, NEW p \in Packages,
           Begun(c, S, p)
    PROVE  \E o \in Calls : FirstCall(o, c, S, p)
<1> DEFINE o == [phase |-> "building", updates |-> Restrict(p, S),
                 originals |-> Restrict(disk, S), done |-> {}, intact |-> TRUE, stale |-> {}]
<1>1. /\ o.phase = "building" /\ o.done = {} /\ o.intact = TRUE /\ o.stale = {}
      /\ o.updates = Restrict(p, S) /\ o.originals = Restrict(disk, S)
  OBVIOUS
<1>2. disk \in Packages
  BY DEF TypeOK
<1>3. /\ Restrict(p, S) \in Contents /\ Restrict(disk, S) \in Contents
      /\ DOMAIN Restrict(p, S) = S /\ DOMAIN Restrict(disk, S) = S
      /\ \A f \in S : /\ Restrict(p, S)[f] \in ContentsOf(f)
                      /\ Restrict(disk, S)[f] \in ContentsOf(f)
                      /\ Restrict(disk, S)[f] = disk[f]
  BY <1>2, RestrictFacts
<1>4. o \in Calls
  BY <1>3 DEF Calls, Underway
<1>5. CallOK(o)
  BY <1>1, <1>3 DEF CallOK
<1>6. Begin(c, S, p) /\ \A f \in Files \ S : p[f] = disk[f]
  BY DEF Begun
<1>7. Call("building", Restrict(p, S), Restrict(disk, S)) = o
  BY DEF Call
<1>8. Turn(c, o) /\ call[c] = Idle /\ disk' = disk /\ faults' = faults
  BY <1>6, <1>7 DEF Begin, Turn, Free
<1>9. Over(disk, Restrict(p, S)) = p /\ Over(disk, Restrict(disk, S)) = disk
  BY <1>2, <1>6, OverRestricted
<1> HIDE DEF o
<1> QED BY <1>1, <1>3, <1>4, <1>5, <1>8, <1>9, CountUnchanged DEF FirstCall

LEMMA BeginKeeps ==
    ASSUME IInv, NEW c \in Clients, NEW S \in SUBSET Files, NEW p \in Packages,
           Begun(c, S, p)
    PROVE  IInv'
<1>1. TypeOK
  BY DEF IInv
<1>2. PICK o \in Calls : FirstCall(o, c, S, p)
  BY <1>1, BeginFacts
<1>9. /\ CallOK(o) /\ Turn(c, o) /\ disk' = disk /\ faults' \in 0..MaxFaults
      /\ o.phase = "building" /\ o.done = {} /\ o.intact /\ o.stale = {}
      /\ DOMAIN o.updates = S
      /\ Over(disk, o.updates) = p /\ Over(disk, o.originals) = disk
      /\ \A f \in S : o.originals[f] = disk[f]
  BY <1>2 DEF FirstCall
<1>3. call'[c] = o
  BY <1>1, <1>9, TurnTypes
<1>4. Before(c)' = disk /\ After(c)' = p
  BY <1>9, <1>3 DEF Before, After
<1>5. FilesAsWritten(c)'
  BY <1>9, <1>3 DEF FilesAsWritten
<1>6. Meant(c)'
  BY <1>9, <1>3, <1>4 DEF Meant, Begun
<1>7. Alone(c)'
  BY <1>9, <1>3, <1>5, <1>6 DEF Alone
<1>8. PhaseOK(o)
  BY <1>9 DEF PhaseOK, Underway
<1> QED BY <1>9, <1>7, <1>8, TurnKeeps

LEMMA ValidateKeeps ==
    ASSUME IInv, NEW c \in Clients, ValidateCandidate(c)
    PROVE  IInv'
<1>1. TypeOK /\ call[c] \in Calls /\ CallOK(call[c]) /\ PhaseOK(call[c])
  BY DEF IInv, TypeOK
<1>2. call[c].phase = "building" /\ disk' = disk /\ faults' \in 0..MaxFaults
  BY <1>1, CountUnchanged DEF ValidateCandidate
<1>3. CASE Builds(Over(disk, call[c].updates))
  <2> DEFINE o == [call[c] EXCEPT !.phase = "committing"]
  <2>1. Turn(c, o)
    BY <1>3 DEF ValidateCandidate
  <2>2. o \in Calls /\ CallOK(o)
    BY <1>1 DEF Calls, CallOK, Underway
  <2>3. /\ o.phase = "committing" /\ o.updates = call[c].updates
        /\ o.originals = call[c].originals /\ o.done = {} /\ o.intact = call[c].intact
        /\ o.stale = call[c].stale /\ call[c].done = {} /\ call[c].intact
    BY <1>1, <1>2 DEF Calls, PhaseOK
  <2> HIDE DEF o
  <2>4. call'[c] = o
    BY <1>1, <1>2, <2>1, <2>2, TurnTypes
  <2>5. PhaseOK(o)
    BY <2>3 DEF PhaseOK, Underway
  <2>6. ASSUME o.stale = {}
        PROVE  Alone(c)'
    <3>1. FilesAsWritten(c) /\ Meant(c)
      BY <1>2, <2>3, <2>6 DEF IInv, Underway, Alone
    <3>2. FilesAsWritten(c)'
      BY <1>2, <2>3, <2>4, <3>1 DEF FilesAsWritten
    <3>3. Before(c)' = Before(c) /\ After(c)' = After(c)
      BY <1>2, <2>3, <2>4 DEF Before, After
    <3>4. Meant(c)'
      BY <2>3, <2>4, <3>1, <3>3 DEF Meant
    <3>5. Builds(After(c))
      BY <1>3 DEF After
    <3> QED BY <2>3, <2>4, <3>2, <3>3, <3>4, <3>5 DEF Alone
  <2> QED BY <1>2, <2>1, <2>2, <2>3, <2>5, <2>6, TurnKeeps
<1>4. CASE ~Builds(Over(disk, call[c].updates))
  <2>1. Turn(c, Ended("undone"))
    BY <1>4 DEF ValidateCandidate
  <2> QED BY <1>2, <2>1, EndedKeeps DEF Results
<1> QED BY <1>3, <1>4

\* What a write of a file of the operation leaves of what it found and means.
LEMMA SameMeaning ==
    ASSUME NEW c, DOMAIN call[c].originals = DOMAIN call[c].updates,
           call'[c].updates = call[c].updates, call'[c].originals = call[c].originals,
           \A f \in Files \ DOMAIN call[c].updates : disk'[f] = disk[f]
    PROVE  Before(c)' = Before(c) /\ After(c)' = After(c)
<1>1. Over(disk', call[c].originals) = Over(disk, call[c].originals)
  BY SameOver
<1>2. Over(disk', call[c].updates) = Over(disk, call[c].updates)
  BY SameOver
<1> QED BY <1>1, <1>2 DEF Before, After

LEMMA CommittingFacts ==
    ASSUME IInv, NEW c \in Clients, call[c].phase \in {"committing", "rollingBack"}
    PROVE  /\ TypeOK /\ call[c] \in Calls /\ CallOK(call[c]) /\ PhaseOK(call[c])
           /\ disk \in Packages /\ call[c].phase \in Underway
           /\ DOMAIN call[c].updates \subseteq Files
           /\ \A f \in DOMAIN call[c].updates :
                 {call[c].updates[f], call[c].originals[f]} \subseteq ContentsOf(f)
           /\ call[c].stale = {} => Alone(c) /\ Builds(After(c))
<1>1. TypeOK /\ call[c] \in Calls /\ CallOK(call[c]) /\ PhaseOK(call[c]) /\ disk \in Packages
  BY DEF IInv, TypeOK
<1>2. call[c].phase \in Underway /\ call[c].phase # "building"
  BY DEF Underway
<1>3. call[c].stale = {} => Alone(c) /\ Builds(After(c))
  BY <1>2 DEF IInv, Alone
<1> QED BY <1>1, <1>2, <1>3, CallFacts DEF CallOK

LEMMA CommitKeeps ==
    ASSUME IInv, NEW c \in Clients, CommitFile(c)
    PROVE  IInv'
<1>1. call[c].phase = "committing"
  BY DEF CommitFile
<1>2. /\ TypeOK /\ call[c] \in Calls /\ CallOK(call[c]) /\ PhaseOK(call[c])
      /\ disk \in Packages /\ call[c].phase \in Underway
      /\ DOMAIN call[c].updates \subseteq Files
      /\ \A f \in DOMAIN call[c].updates :
            {call[c].updates[f], call[c].originals[f]} \subseteq ContentsOf(f)
      /\ call[c].stale = {} => Alone(c) /\ Builds(After(c))
  BY <1>1, CommittingFacts
<1>3. PICK f \in Lowest(DOMAIN call[c].updates \ call[c].done), written \in Written("write") :
         LET done == call[c].done \cup {f}
         IN  /\ Count(written)
             /\ IF written
                THEN Replace(c, f, call[c].updates[f],
                             IF done = DOMAIN call[c].updates THEN Ended("done")
                             ELSE [call[c] EXCEPT !.done = done])
                ELSE /\ Turn(c, IF call[c].done = {} THEN Ended("undone")
                                ELSE [call[c] EXCEPT !.phase = "rollingBack"])
                     /\ UNCHANGED disk
  BY DEF CommitFile
<1>4. f \in DOMAIN call[c].updates \ call[c].done /\ f \in Files
  BY <1>2 DEF Lowest
<1>5. written \in BOOLEAN /\ faults' \in 0..MaxFaults
  BY <1>2, <1>3, CountedFaults
<1> DEFINE done == call[c].done \cup {f}
<1>6. CASE written /\ done = DOMAIN call[c].updates
  <2>1. Replace(c, f, call[c].updates[f], Ended("done"))
    BY <1>3, <1>6
  <2>2. Ended("done") \in Calls /\ CallOK(Ended("done"))
    BY EndedTypes DEF Results
  <2>3. PhaseOK(Ended("done")) /\ Ended("done").phase = "done"
    BY DEF PhaseOK, Ended, Call, Underway
  <2>4. "done" \notin Underway
    BY DEF Underway
  <2> QED BY <1>2, <1>4, <1>5, <2>1, <2>2, <2>3, <2>4, ReplaceKeeps
<1>7. CASE written /\ done # DOMAIN call[c].updates
  <2> DEFINE o == [call[c] EXCEPT !.done = done]
  <2>1. Replace(c, f, call[c].updates[f], o)
    BY <1>3, <1>7
  <2>2. o \in Calls /\ CallOK(o)
    BY <1>2, <1>4 DEF Calls, CallOK
  <2>3. /\ o.phase = "committing" /\ o.updates = call[c].updates
        /\ o.originals = call[c].originals /\ o.done = done /\ o.intact = call[c].intact
        /\ o.stale = call[c].stale
    BY <1>1, <1>2 DEF Calls
  <2> HIDE DEF o
  <2>4. call'[c] = o /\ \A g \in Files : disk'[g] = IF g = f THEN call[c].updates[f] ELSE disk[g]
    BY <1>2, <1>4, <1>5, <2>1, <2>2, ReplaceTypes
  <2>5. PhaseOK(o)
    BY <1>1, <1>2, <2>3 DEF PhaseOK, Underway
  <2>6. ASSUME o.stale = {}
        PROVE  Alone(c)'
    <3>1. Alone(c) /\ Builds(After(c))
      BY <1>2, <2>3, <2>6
    <3>2. FilesAsWritten(c)'
      BY <1>1, <1>2, <1>4, <2>3, <2>4, <3>1 DEF Alone, FilesAsWritten
    <3>3. Before(c)' = Before(c) /\ After(c)' = After(c)
      BY <1>2, <1>4, <2>3, <2>4, SameMeaning DEF CallOK
    <3>4. ~\E g \in Files : DOMAIN call[c].updates = {g}
      BY <1>2, <1>4, <1>7 DEF CallOK
    <3>5. RenameOf(Before(c), After(c))
      BY <3>1, <3>4 DEF Alone, Meant
    <3> QED BY <3>1, <3>2, <3>3, <3>5 DEF Alone, Meant
  <2> QED BY <1>2, <1>4, <1>5, <2>1, <2>2, <2>5, <2>6, ReplaceKeeps
<1>8. CASE ~written /\ call[c].done = {}
  <2>1. Turn(c, Ended("undone")) /\ disk' = disk
    BY <1>3, <1>8
  <2> QED BY <1>5, <2>1, EndedKeeps DEF Results
<1>9. CASE ~written /\ call[c].done # {}
  <2> DEFINE o == [call[c] EXCEPT !.phase = "rollingBack"]
  <2>1. Turn(c, o) /\ disk' = disk
    BY <1>3, <1>9
  <2>2. o \in Calls /\ CallOK(o)
    BY <1>2 DEF Calls, CallOK, Underway
  <2>3. /\ o.phase = "rollingBack" /\ o.updates = call[c].updates
        /\ o.originals = call[c].originals /\ o.done = call[c].done
        /\ o.intact = call[c].intact /\ o.stale = call[c].stale
    BY <1>2 DEF Calls
  <2> HIDE DEF o
  <2>4. call'[c] = o
    BY <1>2, <1>5, <2>1, <2>2, TurnTypes
  <2>5. PhaseOK(o)
    BY <1>9, <2>3 DEF PhaseOK, Underway
  <2>6. ASSUME o.stale = {}
        PROVE  Alone(c)'
    <3>1. Alone(c) /\ Builds(After(c)) /\ RenameOf(Before(c), After(c))
      BY <1>2, <1>9, <2>3, <2>6 DEF Alone
    <3>2. FilesAsWritten(c)'
      BY <1>1, <2>1, <2>3, <2>4, <3>1 DEF Alone, FilesAsWritten
    <3>3. Before(c)' = Before(c) /\ After(c)' = After(c)
      BY <2>1, <2>3, <2>4 DEF Before, After
    <3> QED BY <3>1, <3>2, <3>3 DEF Alone, Meant
  <2> QED BY <1>5, <1>9, <2>1, <2>2, <2>3, <2>5, <2>6, TurnKeeps
<1> QED BY <1>5, <1>6, <1>7, <1>8, <1>9

LEMMA RollBackKeeps ==
    ASSUME IInv, NEW c \in Clients, RollBackFile(c)
    PROVE  IInv'
<1>1. call[c].phase = "rollingBack"
  BY DEF RollBackFile
<1>2. /\ TypeOK /\ call[c] \in Calls /\ CallOK(call[c]) /\ PhaseOK(call[c])
      /\ disk \in Packages /\ call[c].phase \in Underway
      /\ DOMAIN call[c].updates \subseteq Files
      /\ \A f \in DOMAIN call[c].updates :
            {call[c].updates[f], call[c].originals[f]} \subseteq ContentsOf(f)
      /\ call[c].stale = {} => Alone(c) /\ Builds(After(c))
  BY <1>1, CommittingFacts
<1>3. PICK f \in Highest(call[c].done), written \in Written("rollback") :
         LET o == [call[c] EXCEPT !.done = @ \ {f}, !.intact = @ /\ written]
             next == IF o.done # {} THEN o
                     ELSE Ended(IF o.intact THEN "undone" ELSE "torn")
         IN  /\ Count(written)
             /\ IF written THEN Replace(c, f, Original(c, f), next)
                ELSE Turn(c, next) /\ UNCHANGED disk
  BY DEF RollBackFile
<1>4. f \in call[c].done /\ f \in DOMAIN call[c].updates /\ f \in Files
  BY <1>2 DEF Highest, CallOK
<1>5. written \in BOOLEAN /\ faults' \in 0..MaxFaults
  BY <1>2, <1>3, CountedFaults
<1> DEFINE o == [call[c] EXCEPT !.done = @ \ {f}, !.intact = @ /\ written]
           next == IF o.done # {} THEN o ELSE Ended(IF o.intact THEN "undone" ELSE "torn")
<1>6. /\ written => Replace(c, f, call[c].originals[f], next)
      /\ ~written => Turn(c, next) /\ disk' = disk
  BY <1>3 DEF Original
<1>7. o \in Calls /\ CallOK(o)
  BY <1>2, <1>5 DEF Calls, CallOK
<1>8. /\ o.phase = "rollingBack" /\ o.updates = call[c].updates
      /\ o.originals = call[c].originals /\ o.done = call[c].done \ {f}
      /\ o.intact = (call[c].intact /\ written) /\ o.stale = call[c].stale
  BY <1>1, <1>2 DEF Calls
<1> HIDE DEF o
<1>9. CASE o.done # {}
  <2>1. next = o
    BY <1>9
  <2> HIDE DEF next
  <2>2. PhaseOK(o)
    BY <1>8, <1>9 DEF PhaseOK, Underway
  <2>3. ASSUME call'[c] = o, o.stale = {},
               \A g \in Files : disk'[g] = disk[g]
                                \/ (written /\ g = f /\ disk'[g] = call[c].originals[f]),
               written => disk'[f] = call[c].originals[f]
        PROVE  Alone(c)'
    <3>1. Alone(c) /\ Builds(After(c)) /\ RenameOf(Before(c), After(c))
      BY <1>2, <1>4, <1>8, <2>3 DEF Alone
    <3>2. FilesAsWritten(c)'
      <4>1. ASSUME NEW g \in DOMAIN call[c].updates
            PROVE  /\ g \in o.done => disk'[g] = call[c].updates[g]
                   /\ g \notin o.done /\ o.intact => disk'[g] = call[c].originals[g]
                   /\ disk'[g] \in {call[c].updates[g], call[c].originals[g]}
        <5>1. /\ g \in call[c].done => disk[g] = call[c].updates[g]
              /\ g \notin call[c].done /\ call[c].intact => disk[g] = call[c].originals[g]
              /\ disk[g] \in {call[c].updates[g], call[c].originals[g]}
          BY <3>1 DEF Alone, FilesAsWritten
        <5>2. g # f => disk'[g] = disk[g]
          BY <1>2, <2>3
        <5>3. CASE g = f
          BY <1>5, <1>8, <2>3, <5>1, <5>3, <1>2
        <5>4. CASE g # f
          BY <1>5, <1>8, <5>1, <5>2, <5>4
        <5> QED BY <5>3, <5>4
      <4> QED BY <4>1, <1>8, <2>3 DEF FilesAsWritten
    <3>3. \A g \in Files \ DOMAIN call[c].updates : disk'[g] = disk[g]
      BY <1>4, <2>3
    <3>4. Before(c)' = Before(c) /\ After(c)' = After(c)
      BY <1>2, <1>8, <2>3, <3>3, SameMeaning DEF CallOK
    <3> QED BY <3>1, <3>2, <3>4 DEF Alone, Meant
  <2>4. CASE written
    <3>1. Replace(c, f, call[c].originals[f], o)
      BY <1>6, <2>1, <2>4
    <3>2. call[c].originals[f] \in ContentsOf(f)
      BY <1>2, <1>4
    <3>3. call'[c] = o /\ \A g \in Files : disk'[g] = IF g = f THEN call[c].originals[f] ELSE disk[g]
      BY <1>2, <1>4, <1>5, <1>7, <3>1, <3>2, ReplaceTypes
    <3>4. o.stale = {} => Alone(c)'
      BY <1>4, <2>3, <2>4, <3>3
    <3> QED BY <1>4, <1>5, <1>7, <2>2, <3>1, <3>2, <3>4, ReplaceKeeps
  <2>5. CASE ~written
    <3>1. Turn(c, o) /\ disk' = disk
      BY <1>6, <2>1, <2>5
    <3>2. call'[c] = o
      BY <1>2, <1>5, <1>7, <3>1, TurnTypes
    <3>3. o.stale = {} => Alone(c)'
      BY <2>3, <2>5, <3>1, <3>2
    <3> QED BY <1>4, <1>5, <1>7, <1>8, <2>2, <3>1, <3>3, TurnKeeps
  <2> QED BY <1>5, <2>4, <2>5
<1>10. CASE o.done = {}
  <2>1. PICK result \in {"undone", "torn"} : next = Ended(result)
    BY <1>10
  <2> HIDE DEF next
  <2>2. Ended(result) \in Calls /\ CallOK(Ended(result))
    BY EndedTypes DEF Results
  <2>3. PhaseOK(Ended(result)) /\ Ended(result).phase \notin Underway
    BY DEF PhaseOK, Ended, Call, Underway
  <2>4. CASE written
    <3>1. Replace(c, f, call[c].originals[f], Ended(result))
      BY <1>6, <2>1, <2>4
    <3>2. call[c].originals[f] \in ContentsOf(f)
      BY <1>2, <1>4
    <3> QED BY <1>4, <1>5, <2>2, <2>3, <3>1, <3>2, ReplaceKeeps
  <2>5. CASE ~written
    <3>1. Turn(c, Ended(result)) /\ disk' = disk
      BY <1>6, <2>1, <2>5
    <3> QED BY <1>5, <3>1, EndedKeeps DEF Results
  <2> QED BY <1>5, <2>4, <2>5
<1> QED BY <1>9, <1>10

LEMMA DieKeeps ==
    ASSUME IInv, NEW c \in Clients, Die(c)
    PROVE  IInv'
<1>1. faults < MaxFaults /\ faults' = faults + 1 /\ Turn(c, Ended("died")) /\ disk' = disk
  BY DEF Die, Fails
<1>2. faults' \in 0..MaxFaults
  BY <1>1, ServiceAssumption DEF IInv, TypeOK
<1> QED BY <1>1, <1>2, EndedKeeps DEF Results

LEMMA ReturnKeeps ==
    ASSUME IInv, NEW c \in Clients, Return(c)
    PROVE  IInv'
<1>1. Turn(c, Ended("idle")) /\ disk' = disk /\ faults' = faults
  BY DEF Return, Idle
<1>2. faults' \in 0..MaxFaults
  BY <1>1, CountUnchanged DEF IInv
<1> QED BY <1>1, <1>2, EndedKeeps

LEMMA ServiceSteps ==
    ASSUME ServiceNext
    PROVE  \E c \in Clients : \/ Begins(c) \/ ValidateCandidate(c) \/ CommitFile(c)
                              \/ RollBackFile(c) \/ Die(c) \/ Return(c)
BY DEF ServiceNext, Begins

LEMMA ServiceKeeps ==
    ASSUME IInv, [ServiceNext]_serviceVars
    PROVE  IInv'
<1>1. CASE ServiceNext
  <2>1. PICK c \in Clients : \/ Begins(c) \/ ValidateCandidate(c) \/ CommitFile(c)
                             \/ RollBackFile(c) \/ Die(c) \/ Return(c)
    BY <1>1, ServiceSteps
  <2>2. CASE Begins(c)
    BY <2>2, BeginsAs, BeginKeeps DEF IInv
  <2> QED BY <2>1, <2>2, ValidateKeeps, CommitKeeps, RollBackKeeps, DieKeeps, ReturnKeeps
<1>2. CASE UNCHANGED serviceVars
  BY <1>2 DEF serviceVars, IInv, TypeOK, Alone, FilesAsWritten, Meant, Before, After, Writing
<1> QED BY <1>1, <1>2

LEMMA ServiceInitOK == ServiceInit => IInv
<1> SUFFICES ASSUME ServiceInit PROVE IInv
  OBVIOUS
<1>1. call = [c \in Clients |-> Idle] /\ Idle = Ended("idle")
  BY DEF ServiceInit, Idle
<1>2. Idle \in Calls /\ CallOK(Idle)
  BY <1>1, EndedTypes
<1>3. Idle.phase = "idle" /\ Idle.done = {} /\ Idle.intact = TRUE
  BY DEF Idle, Ended, Call
<1>4. "idle" \notin Underway
  BY DEF Underway
<1>5. PhaseOK(Idle)
  BY <1>1, <1>3 DEF PhaseOK
<1> HIDE DEF Idle
<1>6. TypeOK
  BY <1>1, <1>2, ServiceAssumption DEF ServiceInit, TypeOK, Builds
<1>7. \A c \in Clients : call[c] = Idle
  BY <1>1
<1> QED BY <1>3, <1>4, <1>5, <1>6, <1>7 DEF IInv, Writing

THEOREM ServiceInvariant == ServiceSpec => []IInv
<1>1. IInv /\ [ServiceNext]_serviceVars => IInv'
  BY ServiceKeeps
<1> QED BY <1>1, ServiceInitOK, PTL DEF ServiceSpec

(***************************************************************************)
(* At every moment the files hold what a package may hold, and each        *)
(* operation what it read and means to write of the same files.            *)
(***************************************************************************)
THEOREM ServiceTypeCorrect == ServiceSpec => []TypeOK
<1>1. IInv => TypeOK
  BY DEF IInv
<1> QED BY <1>1, ServiceInvariant, PTL

-----------------------------------------------------------------------------
(***************************************************************************)
(* AuthoringService implements ContentPackage.                             *)
(*                                                                         *)
(* What the clients see, while nothing crosses: of the operation that is   *)
(* writing, what it found.                                                 *)
(***************************************************************************)
Seen ==
    /\ Visible \in Packages /\ Told \in [Clients -> Package!Answers]
    /\ (\A c \in Clients : call[c].done = {}) => Visible = disk
    /\ \A c \in Clients : ~Crossed /\ call[c].done # {} => Visible = Before(c)

LEMMA ToldIs ==
    \A c \in Clients :
       Told[c] = CASE call[c].phase \in {"done", "undone"} -> call[c].phase
                   [] call[c].phase \in {"torn", "died"} -> "torn"
                   [] OTHER -> "none"
BY DEF Told

LEMMA BeforeIsPackage ==
    ASSUME TypeOK, NEW c \in Clients
    PROVE  Before(c) \in Packages /\ After(c) \in Packages
<1>1. disk \in Packages /\ call[c] \in Calls /\ CallOK(call[c])
  BY DEF TypeOK
<1>2. /\ DOMAIN call[c].updates \subseteq Files /\ DOMAIN call[c].originals \subseteq Files
      /\ \A f \in DOMAIN call[c].updates : call[c].updates[f] \in ContentsOf(f)
      /\ \A f \in DOMAIN call[c].originals : call[c].originals[f] \in ContentsOf(f)
  BY <1>1, CallFacts DEF CallOK
<1> QED BY <1>1, <1>2, OverFacts DEF Before, After

LEMMA SeenOK == IInv => Seen
<1> SUFFICES ASSUME IInv PROVE Seen
  OBVIOUS
<1>1. TypeOK /\ disk \in Packages
  BY DEF IInv, TypeOK
<1>2. Told \in [Clients -> Package!Answers]
  <2>1. \A c \in Clients :
           Told[c] \in {"none", "done", "undone", "torn"}
    BY ToldIs
  <2>2. Told = [c \in Clients |-> Told[c]]
    BY DEF Told
  <2> QED BY <2>1, <2>2 DEF Package!Answers
<1>3. CASE \A c \in Clients : call[c].done = {}
  <2>1. Visible = disk
    BY <1>3, Zenon DEF Visible, Writing
  <2> QED BY <1>1, <1>2, <1>3, <2>1 DEF Seen
<1>4. CASE \E c \in Clients : call[c].done # {}
  <2> DEFINE w == CHOOSE c \in Clients : Writing(c)
  <2>1. w \in Clients /\ call[w].done # {} /\ Visible = Over(disk, call[w].originals)
    BY <1>4, Zenon DEF Visible, Writing
  <2> HIDE DEF w
  <2>2. Visible \in Packages
    BY <1>1, <2>1, BeforeIsPackage DEF Before
  <2>3. ASSUME ~Crossed, NEW c \in Clients, call[c].done # {}
        PROVE  Visible = Before(c)
    <3>1. c = w
      BY <2>1, <2>3 DEF IInv, Writing, Crossed
    <3> QED BY <2>1, <3>1 DEF Before
  <2> QED BY <1>2, <1>4, <2>2, <2>3 DEF Seen
<1> QED BY <1>3, <1>4

\* One client is told of its operation.
LEMMA OneTold ==
    ASSUME NEW c \in Clients, \A d \in Clients \ {c} : call'[d].phase = call[d].phase
    PROVE  Told' = [Told EXCEPT ![c] = Told'[c]]
<1>1. \A d \in Clients :
         Told'[d] = CASE call'[d].phase \in {"done", "undone"} -> call'[d].phase
                      [] call'[d].phase \in {"torn", "died"} -> "torn"
                      [] OTHER -> "none"
  BY DEF Told
<1>2. \A d \in Clients \ {c} : Told'[d] = Told[d]
  BY <1>1, ToldIs
<1>3. Told' = [d \in Clients |-> Told'[d]] /\ Told = [d \in Clients |-> Told[d]]
  BY DEF Told
<1> HIDE DEF Told
<1> QED BY <1>2, <1>3

\* The steps of the abstract specification.
LEMMA StepIs ==
    ASSUME NEW c \in Clients, NEW answer, ~Crossed, ~Crossed',
           Told' = [Told EXCEPT ![c] = answer],
           \/ /\ answer = "done" /\ Builds(Visible')
              /\ OneFileOf(Visible, Visible') \/ RenameOf(Visible, Visible')
           \/ answer \in {"undone", "none"} /\ Visible' = Visible
           \/ /\ answer = "torn" /\ Visible' \in Packages
              /\ \/ Visible' = Visible
                 \/ \E p : /\ RenameOf(Visible, p) /\ Builds(p)
                           /\ \A f \in Files : Visible'[f] \in {Visible[f], p[f]}
    PROVE  Package!Next
<1> DEFINE v == Visible
           w == Visible'
<1>1. Package!Tell(c, answer)
  BY DEF Package!Tell
<1>2. Package!Operation(c) => Package!Next
  BY DEF Package!Next
<1>3. CASE answer = "done" /\ Builds(w) /\ (OneFileOf(v, w) \/ RenameOf(v, w))
  <2>1. Package!Builds(w)
    BY <1>3, SameBuilds
  <2>2. CASE EditOf(v, w)
    <3>1. PICK id \in Ids : \E s \in FirstSource(v, id) : w = Edited(v, s, id, w[s][id])
      BY <2>2 DEF EditOf
    <3>2. \E s \in Package!FirstSource(v, id) : w = Package!Edited(v, s, id, w[s][id])
      BY <3>1, SameResults
    <3>3. Package!Edit
      BY <3>2 DEF Package!Edit
    <3> QED BY <1>1, <1>2, <1>3, <2>1, <3>3 DEF Package!Operation
  <2>3. CASE CreateOf(v, w)
    <3>1. PICK id \in Ids : CanCreate(v, id) /\ w = Created(v, id, w[1][id])
      BY <2>3 DEF CreateOf
    <3>2. Package!CanCreate(v, id) /\ w = Package!Created(v, id, w[1][id])
      BY <3>1, SameResults
    <3>3. Package!Create
      BY <3>2 DEF Package!Create
    <3> QED BY <1>1, <1>2, <1>3, <2>1, <3>3 DEF Package!Operation
  <2>4. CASE DuplicateOf(v, w)
    <3>1. PICK from \in Ids, to \in Ids : \E s \in LastSource(v, from) :
             CanDuplicate(v, from, to) /\ w = Duplicated(v, s, from, to)
      BY <2>4 DEF DuplicateOf
    <3>2. \E s \in Package!LastSource(v, from) :
             Package!CanDuplicate(v, from, to) /\ w = Package!Duplicated(v, s, from, to)
      BY <3>1, SameResults
    <3>3. Package!Duplicate
      BY <3>2 DEF Package!Duplicate
    <3> QED BY <1>1, <1>2, <1>3, <2>1, <3>3 DEF Package!Operation
  <2>5. CASE RenameOf(v, w)
    <3>1. PICK old \in Ids, new \in Ids, redirect \in BOOLEAN :
             CanRename(v, old, new) /\ w = Renamed(v, old, new, redirect)
      BY <2>5 DEF RenameOf
    <3>2. Package!CanRename(v, old, new) /\ w = Package!Renamed(v, old, new, redirect)
      BY <3>1, SameResults
    <3>3. Package!Rename
      BY <3>2 DEF Package!Rename
    <3> QED BY <1>1, <1>2, <1>3, <2>1, <3>3 DEF Package!Operation
  <2> QED BY <1>3, <2>2, <2>3, <2>4, <2>5 DEF OneFileOf
<1>4. CASE answer \in {"undone", "none"} /\ w = v
  BY <1>1, <1>2, <1>4 DEF Package!Operation
<1>5. CASE answer = "torn" /\ w \in Packages
  <2>1. CASE w = v
    BY <1>1, <1>2, <1>5, <2>1 DEF Package!Operation
  <2>2. ASSUME NEW p, RenameOf(v, p), Builds(p), \A f \in Files : w[f] \in {v[f], p[f]}
        PROVE  Package!Next
    <3>1. PICK old \in Ids, new \in Ids, redirect \in BOOLEAN :
             CanRename(v, old, new) /\ p = Renamed(v, old, new, redirect)
      BY <2>2 DEF RenameOf
    <3>2. Package!CanRename(v, old, new) /\ p = Package!Renamed(v, old, new, redirect)
      BY <3>1, SameResults
    <3>3. /\ Package!Builds(p) /\ w \in Package!Packages
          /\ \A f \in Package!Files : w[f] \in {v[f], p[f]}
      BY <1>5, <2>2, SameBuilds, SameFiles
    <3>4. Package!HalfRename
      BY <3>2, <3>3, Zenon DEF Package!HalfRename
    <3> QED BY <1>1, <1>2, <1>5, <3>4 DEF Package!Operation
  <2>3. \/ w = v
        \/ \E p : RenameOf(v, p) /\ Builds(p) /\ \A f \in Files : w[f] \in {v[f], p[f]}
    BY <1>5
  <2> QED BY <2>1, <2>2, <2>3
<1> QED BY <1>3, <1>4, <1>5

(***************************************************************************)
(* What the steps of an operation that no other crosses show.              *)
(***************************************************************************)
LEMMA WriterAlone ==
    ASSUME IInv, ~Crossed, NEW c \in Clients, call[c].done # {}
    PROVE  \A d \in Clients \ {c} : call[d].done = {}
BY DEF IInv, Writing, Crossed

LEMMA WorkerFacts ==
    ASSUME IInv, ~Crossed, NEW c \in Clients, call[c].phase \in Underway
    PROVE  /\ Alone(c) /\ call[c] \in Calls /\ CallOK(call[c]) /\ PhaseOK(call[c])
           /\ TypeOK /\ disk \in Packages /\ DOMAIN call[c].updates \subseteq Files
           /\ DOMAIN call[c].originals = DOMAIN call[c].updates
           /\ call[c].done \subseteq DOMAIN call[c].updates
           /\ Before(c) \in Packages /\ After(c) \in Packages
           /\ \A f \in Files : Before(c)[f] = IF f \in DOMAIN call[c].updates
                                              THEN call[c].originals[f] ELSE disk[f]
           /\ \A f \in Files : After(c)[f] = IF f \in DOMAIN call[c].updates
                                             THEN call[c].updates[f] ELSE disk[f]
<1>1. call[c].stale = {}
  BY DEF Crossed
<1>2. /\ Alone(c) /\ call[c] \in Calls /\ CallOK(call[c]) /\ PhaseOK(call[c])
      /\ TypeOK /\ disk \in Packages
  BY <1>1 DEF IInv, TypeOK
<1>3. /\ DOMAIN call[c].originals = DOMAIN call[c].updates
      /\ call[c].done \subseteq DOMAIN call[c].updates
  BY <1>2 DEF CallOK
<1>4. /\ \A f \in Files : Before(c)[f] = IF f \in DOMAIN call[c].updates
                                         THEN call[c].originals[f] ELSE disk[f]
      /\ \A f \in Files : After(c)[f] = IF f \in DOMAIN call[c].updates
                                        THEN call[c].updates[f] ELSE disk[f]
  BY <1>3 DEF Before, After, Over
<1> QED BY <1>2, <1>3, <1>4, CallFacts, BeforeIsPackage

LEMMA ShowsWhatItFound ==
    ASSUME IInv, Seen, ~Crossed, NEW c \in Clients, call[c].phase \in Underway,
           \A d \in Clients \ {c} : call[d].done = {}
    PROVE  Visible = Before(c)
<1>1. CASE call[c].done # {}
  BY <1>1 DEF Seen
<1>2. CASE call[c].done = {}
  <2>1. Visible = disk
    BY <1>2 DEF Seen
  <2>2. Alone(c) /\ PhaseOK(call[c]) /\ disk \in Packages /\ Before(c) \in Packages
    BY WorkerFacts
  <2>3. \A f \in DOMAIN call[c].updates : disk[f] = call[c].originals[f]
    BY <1>2, <2>2 DEF PhaseOK, Alone, FilesAsWritten
  <2>4. \A f \in Files : Before(c)[f] = disk[f]
    BY <2>3, WorkerFacts
  <2> QED BY <2>1, <2>2, <2>4, SamePackage
<1> QED BY <1>1, <1>2

LEMMA TurnShows ==
    ASSUME IInv, Seen, Seen', ~Crossed, ~Crossed', NEW c \in Clients, NEW o \in Calls,
           CallOK(o), Turn(c, o), disk' = disk, faults' \in 0..MaxFaults,
           o.done = call[c].done, o.done # {} => o.originals = call[c].originals
    PROVE  Visible' = Visible
<1>1. call'[c] = o /\ \A d \in Clients \ {c} : call'[d] = call[d]
  BY TurnTypes DEF IInv
<1>2. ASSUME NEW d \in Clients, call[d].done # {}
      PROVE  Visible' = Visible
  <2>1. call'[d].done # {} /\ call'[d].originals = call[d].originals
    BY <1>1, <1>2
  <2>2. Before(d)' = Before(d)
    BY <2>1 DEF Before
  <2> QED BY <1>2, <2>1, <2>2 DEF Seen
<1>3. CASE \A d \in Clients : call[d].done = {}
  <2>1. \A d \in Clients : call'[d].done = {}
    BY <1>1, <1>3
  <2> QED BY <1>3, <2>1 DEF Seen
<1> QED BY <1>2, <1>3

LEMMA ReplaceShows ==
    ASSUME IInv, ~Crossed', NEW c \in Clients, NEW f \in Files,
           NEW contents \in ContentsOf(f), NEW o \in Calls, CallOK(o),
           Replace(c, f, contents, o), faults' \in 0..MaxFaults
    PROVE  /\ call'[c] = o
           /\ \A d \in Clients \ {c} : call'[d] = call[d] /\ call[d].done = {}
           /\ \A g \in Files : disk'[g] = IF g = f THEN contents ELSE disk[g]
           /\ disk' \in Packages
<1>1. /\ TypeOK' /\ call'[c] = o
      /\ \A g \in Files : disk'[g] = IF g = f THEN contents ELSE disk[g]
      /\ \A d \in Clients \ {c} :
            /\ call[d].phase \in Underway =>
                  call'[d] = [call[d] EXCEPT !.stale = @ \cup {f}]
            /\ call[d].phase \notin Underway => call'[d] = call[d]
  BY ReplaceTypes DEF IInv
<1>2. ASSUME NEW d \in Clients \ {c}
      PROVE  call[d].phase \notin Underway
  <2>1. call[d] \in Calls
    BY DEF IInv, TypeOK
  <2>2. SUFFICES ASSUME call[d].phase \in Underway PROVE FALSE
    OBVIOUS
  <2>3. call'[d] = [call[d] EXCEPT !.stale = @ \cup {f}]
    BY <1>1, <2>2
  <2>4. f \in call'[d].stale
    BY <2>1, <2>3, StaleFacts
  <2> QED BY <2>4 DEF Crossed
<1>4. ASSUME NEW d \in Clients \ {c}
      PROVE  call[d].done = {}
  <2>1. call[d] = Ended(call[d].phase)
    BY <1>2 DEF IInv, PhaseOK
  <2> QED BY <2>1 DEF Ended, Call
<1> QED BY <1>1, <1>2, <1>4 DEF TypeOK

\* The operation is over, and the client is told.
LEMMA EndTold ==
    ASSUME NEW c \in Clients, NEW result \in {"idle"} \cup Results,
           call'[c] = Ended(result), \A d \in Clients \ {c} : call'[d] = call[d]
    PROVE  /\ Told' = [Told EXCEPT ![c] =
                          IF result = "idle" THEN "none"
                          ELSE IF result = "died" THEN "torn" ELSE result]
           /\ (\A d \in Clients \ {c} : call[d].done = {}) =>
                 \A d \in Clients : call'[d].done = {}
<1>1. call'[c].phase = result /\ call'[c].done = {}
  BY DEF Ended, Call
<1>2. Told'[c] = IF result = "idle" THEN "none"
                 ELSE IF result = "died" THEN "torn" ELSE result
  BY <1>1 DEF Told, Results
<1>3. Told' = [Told EXCEPT ![c] = Told'[c]]
  BY OneTold
<1> QED BY <1>1, <1>2, <1>3

LEMMA GoesOnTold ==
    ASSUME NEW c \in Clients, call'[c].phase \in Underway,
           \A d \in Clients \ {c} : call'[d] = call[d]
    PROVE  Told' = [Told EXCEPT ![c] = "none"]
<1>1. Told'[c] = "none"
  BY DEF Told, Underway
<1> QED BY <1>1, OneTold

\* Nothing has been written, or nothing is.
LEMMA QuietStep ==
    ASSUME IInv, Seen, Seen', ~Crossed, ~Crossed', NEW c \in Clients,
           NEW o \in Calls, CallOK(o), Turn(c, o), disk' = disk, faults' \in 0..MaxFaults,
           o.done = call[c].done, o.done # {} => o.originals = call[c].originals,
           \/ o.phase \in Underway
           \/ \E result \in {"idle", "undone", "died"} : o = Ended(result)
    PROVE  Package!Next
<1>1. Visible' = Visible
  BY TurnShows
<1>2. call'[c] = o /\ \A d \in Clients \ {c} : call'[d] = call[d]
  BY TurnTypes DEF IInv
<1>3. CASE o.phase \in Underway
  <2>1. Told' = [Told EXCEPT ![c] = "none"]
    BY <1>2, <1>3, GoesOnTold
  <2> QED BY <1>1, <2>1, StepIs
<1>4. ASSUME NEW result \in {"idle", "undone", "died"}, o = Ended(result)
      PROVE  Package!Next
  <2>1. result \in {"idle"} \cup Results
    BY DEF Results
  <2>2. Told' = [Told EXCEPT ![c] = IF result = "idle" THEN "none"
                                    ELSE IF result = "died" THEN "torn" ELSE result]
    BY <1>2, <1>4, <2>1, EndTold
  <2>3. PICK answer \in {"none", "undone", "torn"} : Told' = [Told EXCEPT ![c] = answer]
    BY <2>2
  <2>4. Visible' \in Packages
    BY DEF Seen
  <2> QED BY <1>1, <2>3, <2>4, StepIs
<1> QED BY <1>3, <1>4

\* A rename stops in the middle.
LEMMA TornStep ==
    ASSUME IInv, Seen, Seen', ~Crossed, ~Crossed', NEW c \in Clients,
           call[c].phase \in Underway, call[c].done # {}, call[c].phase # "building",
           NEW result \in {"torn", "died"}, call'[c] = Ended(result),
           \A d \in Clients \ {c} : call'[d] = call[d],
           \A f \in Files : \/ disk'[f] = disk[f]
                            \/ f \in DOMAIN call[c].updates /\ disk'[f] = call[c].originals[f]
    PROVE  Package!Next
<1>1. \A d \in Clients \ {c} : call[d].done = {}
  BY WriterAlone
<1>2. Visible = Before(c)
  BY <1>1, ShowsWhatItFound
<1>3. result \in {"idle"} \cup Results /\ result \notin {"idle", "undone", "done"}
  BY DEF Results
<1>4. \A d \in Clients : call'[d].done = {}
  BY <1>1, <1>3, EndTold
<1>5. Told' = [Told EXCEPT ![c] = "torn"]
  BY <1>3, EndTold
<1>6. Visible' = disk' /\ Visible' \in Packages
  BY <1>4 DEF Seen
<1>7. Alone(c)
  BY WorkerFacts
<1>8. RenameOf(Before(c), After(c)) /\ Builds(After(c))
  BY <1>7 DEF Alone
<1>9. \A f \in Files : disk'[f] \in {Before(c)[f], After(c)[f]}
  BY <1>7, WorkerFacts DEF Alone, FilesAsWritten
<1> QED BY <1>2, <1>5, <1>6, <1>8, <1>9, StepIs

LEMMA EndsQuietly ==
    ASSUME IInv, Seen, Seen', ~Crossed, ~Crossed', NEW c \in Clients, call[c].done = {},
           NEW result \in {"idle", "undone", "died"}, Turn(c, Ended(result)),
           disk' = disk, faults' \in 0..MaxFaults
    PROVE  Package!Next
<1> DEFINE o == Ended(result)
<1>1. o \in Calls /\ CallOK(o)
  BY EndedTypes DEF Results
<1>2. o.done = {}
  BY DEF Ended, Call
<1>3. Turn(c, o) /\ \E r \in {"idle", "undone", "died"} : o = Ended(r)
  OBVIOUS
<1> HIDE DEF o
<1> QED BY <1>1, <1>2, <1>3, QuietStep

LEMMA BeginImplements ==
    ASSUME IInv, Seen, Seen', ~Crossed, ~Crossed', NEW c \in Clients, Begins(c)
    PROVE  Package!Next
<1>1. TypeOK
  BY DEF IInv
<1>2. PICK S \in SUBSET Files, p \in Packages : Begun(c, S, p)
  BY <1>1, BeginsAs
<1>3. PICK o \in Calls : FirstCall(o, c, S, p)
  BY <1>1, <1>2, BeginFacts
<1>4. /\ CallOK(o) /\ Turn(c, o) /\ disk' = disk /\ faults' \in 0..MaxFaults
      /\ o.phase \in Underway /\ o.done = {} /\ call[c] = Idle
  BY <1>3 DEF FirstCall, Underway
<1>5. call[c].done = {}
  BY <1>4 DEF Idle, Ended, Call
<1> QED BY <1>4, <1>5, QuietStep

LEMMA ValidateImplements ==
    ASSUME IInv, Seen, Seen', ~Crossed, ~Crossed', NEW c \in Clients, ValidateCandidate(c)
    PROVE  Package!Next
<1>1. TypeOK /\ call[c] \in Calls /\ CallOK(call[c]) /\ PhaseOK(call[c])
  BY DEF IInv, TypeOK
<1>2. /\ call[c].phase = "building" /\ call[c].done = {}
      /\ disk' = disk /\ faults' \in 0..MaxFaults
  BY <1>1, CountUnchanged DEF ValidateCandidate, PhaseOK
<1>3. CASE Builds(Over(disk, call[c].updates))
  <2> DEFINE o == [call[c] EXCEPT !.phase = "committing"]
  <2>1. Turn(c, o)
    BY <1>3 DEF ValidateCandidate
  <2>2. o \in Calls /\ CallOK(o)
    BY <1>1 DEF Calls, CallOK, Underway
  <2>3. o.phase \in Underway /\ o.done = {}
    BY <1>1, <1>2 DEF Calls, Underway
  <2> HIDE DEF o
  <2> QED BY <1>2, <2>1, <2>2, <2>3, QuietStep
<1>4. CASE ~Builds(Over(disk, call[c].updates))
  <2>1. Turn(c, Ended("undone"))
    BY <1>4 DEF ValidateCandidate
  <2> QED BY <1>2, <2>1, EndsQuietly
<1> QED BY <1>3, <1>4

LEMMA CommitImplements ==
    ASSUME IInv, Seen, Seen', ~Crossed, ~Crossed', NEW c \in Clients, CommitFile(c)
    PROVE  Package!Next
<1>1. call[c].phase = "committing" /\ call[c].phase \in Underway
  BY DEF CommitFile, Underway
<1>2. /\ Alone(c) /\ call[c] \in Calls /\ CallOK(call[c]) /\ TypeOK
      /\ DOMAIN call[c].updates \subseteq Files
      /\ After(c) \in Packages
  BY <1>1, WorkerFacts
<1>3. PICK f \in Lowest(DOMAIN call[c].updates \ call[c].done), written \in Written("write") :
         LET done == call[c].done \cup {f}
         IN  /\ Count(written)
             /\ IF written
                THEN Replace(c, f, call[c].updates[f],
                             IF done = DOMAIN call[c].updates THEN Ended("done")
                             ELSE [call[c] EXCEPT !.done = done])
                ELSE /\ Turn(c, IF call[c].done = {} THEN Ended("undone")
                                ELSE [call[c] EXCEPT !.phase = "rollingBack"])
                     /\ UNCHANGED disk
  BY DEF CommitFile
<1>4. /\ f \in DOMAIN call[c].updates \ call[c].done /\ f \in Files
      /\ call[c].updates[f] \in ContentsOf(f)
  BY <1>2 DEF Lowest, CallOK
<1>5. written \in BOOLEAN /\ faults' \in 0..MaxFaults
  BY <1>2, <1>3, CountedFaults
<1> DEFINE done == call[c].done \cup {f}
<1>6. CASE written /\ done = DOMAIN call[c].updates
  <2>1. Replace(c, f, call[c].updates[f], Ended("done"))
    BY <1>3, <1>6
  <2>2. Ended("done") \in Calls /\ CallOK(Ended("done"))
    BY EndedTypes DEF Results
  <2>3. /\ call'[c] = Ended("done") /\ disk' \in Packages
        /\ \A d \in Clients \ {c} : call'[d] = call[d] /\ call[d].done = {}
        /\ \A g \in Files : disk'[g] = IF g = f THEN call[c].updates[f] ELSE disk[g]
    BY <1>4, <1>5, <2>1, <2>2, ReplaceShows
  <2>4. Visible = Before(c)
    BY <1>1, <2>3, ShowsWhatItFound
  <2>5. /\ Told' = [Told EXCEPT ![c] = "done"]
        /\ \A d \in Clients : call'[d].done = {}
    BY <2>3, EndTold DEF Results
  <2>6. Visible' = disk'
    BY <2>5 DEF Seen
  <2>7. \A g \in call[c].done : disk[g] = call[c].updates[g]
    BY <1>2, <1>4 DEF Alone, FilesAsWritten, CallOK
  <2>8. \A g \in Files : disk'[g] = After(c)[g]
    <3>1. \A g \in Files : After(c)[g] = IF g \in DOMAIN call[c].updates
                                         THEN call[c].updates[g] ELSE disk[g]
      BY <1>1, WorkerFacts
    <3> QED BY <1>4, <1>6, <2>3, <2>7, <3>1
  <2>9. disk' = After(c)
    BY <1>2, <2>3, <2>8, SamePackage
  <2>10. Builds(After(c)) /\ (OneFileOf(Before(c), After(c)) \/ RenameOf(Before(c), After(c)))
    BY <1>1, <1>2 DEF Alone, Meant
  <2> QED BY <2>4, <2>5, <2>6, <2>9, <2>10, StepIs
<1>7. CASE written /\ done # DOMAIN call[c].updates
  <2> DEFINE o == [call[c] EXCEPT !.done = done]
  <2>1. Replace(c, f, call[c].updates[f], o)
    BY <1>3, <1>7
  <2>2. o \in Calls /\ CallOK(o)
    BY <1>2, <1>4 DEF Calls, CallOK
  <2>3. /\ o.phase \in Underway /\ o.originals = call[c].originals /\ o.done = done
        /\ o.updates = call[c].updates
    BY <1>1, <1>2 DEF Calls
  <2> HIDE DEF o
  <2>4. /\ call'[c] = o
        /\ \A d \in Clients \ {c} : call'[d] = call[d] /\ call[d].done = {}
        /\ \A g \in Files : disk'[g] = IF g = f THEN call[c].updates[f] ELSE disk[g]
    BY <1>4, <1>5, <2>1, <2>2, ReplaceShows
  <2>5. Visible = Before(c)
    BY <1>1, <2>4, ShowsWhatItFound
  <2>6. Visible' = Before(c)'
    BY <2>3, <2>4 DEF Seen
  <2>7. Before(c)' = Before(c)
    BY <1>2, <1>4, <2>3, <2>4, SameMeaning DEF CallOK
  <2>8. Told' = [Told EXCEPT ![c] = "none"]
    BY <2>3, <2>4, GoesOnTold
  <2> QED BY <2>5, <2>6, <2>7, <2>8, StepIs
<1>8. CASE ~written /\ call[c].done = {}
  <2>1. Turn(c, Ended("undone")) /\ disk' = disk
    BY <1>3, <1>8
  <2> QED BY <1>5, <1>8, <2>1, EndsQuietly
<1>9. CASE ~written /\ call[c].done # {}
  <2> DEFINE o == [call[c] EXCEPT !.phase = "rollingBack"]
  <2>1. Turn(c, o) /\ disk' = disk
    BY <1>3, <1>9
  <2>2. o \in Calls /\ CallOK(o)
    BY <1>2 DEF Calls, CallOK, Underway
  <2>3. /\ o.phase \in Underway /\ o.originals = call[c].originals
        /\ o.done = call[c].done
    BY <1>2 DEF Calls, Underway
  <2> HIDE DEF o
  <2> QED BY <1>5, <2>1, <2>2, <2>3, QuietStep
<1> QED BY <1>5, <1>6, <1>7, <1>8, <1>9

LEMMA RollBackImplements ==
    ASSUME IInv, Seen, Seen', ~Crossed, ~Crossed', NEW c \in Clients, RollBackFile(c)
    PROVE  Package!Next
<1>1. /\ call[c].phase = "rollingBack" /\ call[c].phase \in Underway
      /\ call[c].phase # "building"
  BY DEF RollBackFile, Underway
<1>2. /\ Alone(c) /\ call[c] \in Calls /\ CallOK(call[c]) /\ TypeOK /\ PhaseOK(call[c])
      /\ DOMAIN call[c].updates \subseteq Files
      /\ Before(c) \in Packages
  BY <1>1, WorkerFacts
<1>3. PICK f \in Highest(call[c].done), written \in Written("rollback") :
         LET o == [call[c] EXCEPT !.done = @ \ {f}, !.intact = @ /\ written]
             next == IF o.done # {} THEN o
                     ELSE Ended(IF o.intact THEN "undone" ELSE "torn")
         IN  /\ Count(written)
             /\ IF written THEN Replace(c, f, Original(c, f), next)
                ELSE Turn(c, next) /\ UNCHANGED disk
  BY DEF RollBackFile
<1>4. /\ f \in call[c].done /\ f \in DOMAIN call[c].updates /\ f \in Files
      /\ call[c].originals[f] \in ContentsOf(f)
  BY <1>2 DEF Highest, CallOK
<1>5. written \in BOOLEAN /\ faults' \in 0..MaxFaults
  BY <1>2, <1>3, CountedFaults
<1> DEFINE o == [call[c] EXCEPT !.done = @ \ {f}, !.intact = @ /\ written]
           next == IF o.done # {} THEN o ELSE Ended(IF o.intact THEN "undone" ELSE "torn")
<1>6. /\ written => Replace(c, f, call[c].originals[f], next)
      /\ ~written => Turn(c, next) /\ disk' = disk
  BY <1>3 DEF Original
<1>7. o \in Calls /\ CallOK(o)
  BY <1>2, <1>5 DEF Calls, CallOK
<1>8. /\ o.phase = "rollingBack" /\ o.updates = call[c].updates
      /\ o.originals = call[c].originals /\ o.done = call[c].done \ {f}
      /\ o.intact = (call[c].intact /\ written)
  BY <1>1, <1>2 DEF Calls
<1> HIDE DEF o
<1>9. next \in Calls /\ CallOK(next)
  BY <1>7, EndedTypes DEF Results
<1>10. /\ call'[c] = next /\ \A d \in Clients \ {c} : call'[d] = call[d]
       /\ \A d \in Clients \ {c} : call[d].done = {}
       /\ \A g \in Files : disk'[g] = IF g = f /\ written THEN call[c].originals[f] ELSE disk[g]
  <2>1. \A d \in Clients \ {c} : call[d].done = {}
    BY <1>4, WriterAlone
  <2> HIDE DEF next
  <2>2. CASE written
    <3>1. Replace(c, f, call[c].originals[f], next)
      BY <1>6, <2>2
    <3> QED BY <1>4, <1>5, <1>9, <2>1, <2>2, <3>1, ReplaceShows
  <2>3. CASE ~written
    <3>1. Turn(c, next) /\ disk' = disk
      BY <1>6, <2>3
    <3> QED BY <1>2, <1>5, <1>9, <2>1, <2>3, <3>1, TurnTypes
  <2> QED BY <1>5, <2>2, <2>3
<1>11. Visible = Before(c)
  BY <1>1, <1>10, ShowsWhatItFound
<1>12. CASE o.done # {}
  <2>1. call'[c] = o
    BY <1>10, <1>12
  <2>2. Visible' = Before(c)'
    BY <1>12, <2>1 DEF Seen
  <2>3. \A g \in Files \ DOMAIN call[c].updates : disk'[g] = disk[g]
    BY <1>4, <1>10
  <2>4. Before(c)' = Before(c)
    BY <1>2, <1>8, <2>1, <2>3, SameMeaning DEF CallOK
  <2>5. Told' = [Told EXCEPT ![c] = "none"]
    BY <1>1, <1>8, <1>10, <2>1, GoesOnTold
  <2> QED BY <1>11, <2>2, <2>4, <2>5, StepIs
<1>13. CASE o.done = {} /\ o.intact
  <2>1. call'[c] = Ended("undone")
    BY <1>10, <1>13
  <2>2. /\ Told' = [Told EXCEPT ![c] = "undone"]
        /\ \A d \in Clients : call'[d].done = {}
    BY <1>10, <2>1, EndTold DEF Results
  <2>3. Visible' = disk' /\ Visible' \in Packages
    BY <2>2 DEF Seen
  <2>4. call[c].done = {f} /\ call[c].intact /\ written
    BY <1>4, <1>5, <1>8, <1>13
  <2>5. \A g \in DOMAIN call[c].updates : disk'[g] = call[c].originals[g]
    BY <1>2, <1>10, <2>4 DEF Alone, FilesAsWritten
  <2>6. \A g \in Files : disk'[g] = Before(c)[g]
    BY <1>1, <1>4, <1>10, <2>5, WorkerFacts
  <2>7. disk' = Before(c)
    BY <1>2, <2>3, <2>6, SamePackage
  <2> QED BY <1>11, <2>2, <2>3, <2>7, StepIs
<1>14. CASE o.done = {} /\ ~o.intact
  <2>1. call'[c] = Ended("torn")
    BY <1>10, <1>14
  <2>2. \A g \in Files : \/ disk'[g] = disk[g]
                         \/ g \in DOMAIN call[c].updates /\ disk'[g] = call[c].originals[g]
    BY <1>4, <1>10
  <2> QED BY <1>1, <1>4, <1>10, <2>1, <2>2, TornStep
<1> QED BY <1>12, <1>13, <1>14

LEMMA DieImplements ==
    ASSUME IInv, Seen, Seen', ~Crossed, ~Crossed', NEW c \in Clients, Die(c)
    PROVE  Package!Next
<1>1. /\ call[c].phase \in Underway /\ faults < MaxFaults /\ faults' = faults + 1
      /\ Turn(c, Ended("died")) /\ disk' = disk
  BY DEF Die, Fails
<1>2. TypeOK /\ PhaseOK(call[c]) /\ faults' \in 0..MaxFaults
  BY <1>1, ServiceAssumption DEF IInv, TypeOK
<1>3. CASE call[c].done = {}
  BY <1>1, <1>2, <1>3, EndsQuietly
<1>4. CASE call[c].done # {}
  <2>1. call[c].phase # "building"
    BY <1>2, <1>4 DEF PhaseOK
  <2>2. Ended("died") \in Calls /\ CallOK(Ended("died"))
    BY EndedTypes DEF Results
  <2>3. call'[c] = Ended("died") /\ \A d \in Clients \ {c} : call'[d] = call[d]
    BY <1>1, <1>2, <2>2, TurnTypes
  <2> QED BY <1>1, <1>4, <2>1, <2>3, TornStep
<1> QED BY <1>3, <1>4

LEMMA ReturnImplements ==
    ASSUME IInv, Seen, Seen', ~Crossed, ~Crossed', NEW c \in Clients, Return(c)
    PROVE  Package!Next
<1>1. /\ Turn(c, Ended("idle")) /\ disk' = disk /\ faults' = faults
      /\ call[c].phase \in Results
  BY DEF Return, Idle
<1>2. faults' \in 0..MaxFaults
  BY <1>1, CountUnchanged DEF IInv
<1>3. call[c] = Ended(call[c].phase)
  BY <1>1 DEF IInv, PhaseOK, Results, Underway
<1>4. call[c].done = {}
  BY <1>3 DEF Ended, Call
<1> QED BY <1>1, <1>2, <1>4, EndsQuietly

LEMMA StepImplements ==
    ASSUME IInv, Seen, Seen', [ServiceNext]_serviceVars
    PROVE  [Package!Next]_<<Visible, Told, Crossed>>
<1>1. CASE Crossed \/ Crossed'
  <2>1. Visible' \in Package!Packages /\ Told' \in [Clients -> Package!Answers]
    BY SameFiles DEF Seen
  <2>2. Package!Crossing
    BY <1>1, <2>1 DEF Package!Crossing
  <2> QED BY <2>2 DEF Package!Next
<1>2. CASE ServiceNext /\ ~Crossed /\ ~Crossed'
  <2>1. PICK c \in Clients : \/ Begins(c) \/ ValidateCandidate(c) \/ CommitFile(c)
                             \/ RollBackFile(c) \/ Die(c) \/ Return(c)
    BY <1>2, ServiceSteps
  <2> QED BY <1>2, <2>1, BeginImplements, ValidateImplements, CommitImplements,
             RollBackImplements, DieImplements, ReturnImplements
<1>3. CASE UNCHANGED serviceVars
  BY <1>3 DEF serviceVars, Visible, Writing, Told, Crossed
<1> QED BY <1>1, <1>2, <1>3

LEMMA InitImplements == ServiceInit => Package!Init
<1> SUFFICES ASSUME ServiceInit PROVE Package!Init
  OBVIOUS
<1>1. \A c \in Clients : call[c].phase = "idle" /\ call[c].done = {} /\ call[c].stale = {}
  BY DEF ServiceInit, Idle, Ended, Call
<1>2. Visible = disk /\ ~Crossed
  BY <1>1, Zenon DEF Visible, Writing, Crossed
<1>3. \A c \in Clients : Told[c] = "none"
  BY <1>1 DEF Told
<1>4. Told = [c \in Clients |-> "none"]
  BY <1>3 DEF Told
<1>5. Package!Builds(Visible)
  BY <1>2, SameBuilds DEF ServiceInit
<1>6. Crossed = FALSE
  BY <1>2 DEF Crossed
<1> QED BY <1>4, <1>5, <1>6 DEF Package!Init

(***************************************************************************)
(* An operation that no write of another process crosses replaces the      *)
(* package at one instant, or leaves it as it was and says so; a rename    *)
(* that its process does not survive, or whose files cannot be taken back, *)
(* leaves each file either as it was or renamed.                           *)
(***************************************************************************)
THEOREM ServiceImplementsPackage == ServiceSpec => ImplementsPackage
<1>1. IInv => Seen
  BY SeenOK
<1>2. IInv /\ Seen /\ Seen' /\ [ServiceNext]_serviceVars =>
         [Package!Next]_<<Visible, Told, Crossed>>
  BY StepImplements
<1>3. ServiceSpec => Package!Init /\ [][Package!Next]_<<Visible, Told, Crossed>>
  BY <1>1, <1>2, ServiceInvariant, InitImplements, PTL DEF ServiceSpec
<1> QED BY <1>3 DEF ImplementsPackage, Package!Spec, Package!vars

-----------------------------------------------------------------------------
(***************************************************************************)
(* EditorAdapter: it does nothing to the files that the authoring service  *)
(* does not do; a session without dirty fields shows the definition as it  *)
(* was read; and a save overwrites only what is written in its window.     *)
(***************************************************************************)

(***************************************************************************)
(* The candidate differs from what was read only where a field is dirty;   *)
(* the pointers of an object and of what is in it stand for one another.   *)
(***************************************************************************)
CandidateFollowsDirty ==
    /\ "ref" \notin DOMAIN session.dirty => session.candidate.ref = Baseline.ref
    /\ {"stats", "hp"} \cap DOMAIN session.dirty = {} =>
          session.candidate.stats = Baseline.stats
    /\ session.candidate.stats = Null => Baseline.stats = Null

SessionOK ==
    IsOpen =>
       /\ DOMAIN session = {"id", "source", "seen", "candidate", "pending", "dirty"}
       /\ session.id \in Ids /\ session.source \in Sources
       /\ session.seen \in SourceContents
       /\ session.candidate \in Docs /\ Baseline \in Docs
       /\ DOMAIN session.dirty \subseteq Pointers
       /\ CandidateFollowsDirty

GoalOK ==
    goal.what \in {"keep", "close", "open"} /\ (goal.what = "open" => goal.id \in Ids)

(***************************************************************************)
(* A save on its way writes one file, from what the session has read of    *)
(* it, which is what is there unless somebody has written it since.        *)
(***************************************************************************)
SaveInWindow ==
    call["editor"].phase \in Underway /\ Saving =>
       /\ IsOpen /\ call["editor"].done = {}
       /\ \E t \in Sources :
             /\ DOMAIN call["editor"].updates = {t}
             /\ t \in call["editor"].stale \/ disk[t] = session.seen
             /\ \A id \in Ids \ {session.id} :
                   call["editor"].updates[t][id] = session.seen[id]

EditorInv == IInv /\ SessionOK /\ GoalOK /\ SaveInWindow

-----------------------------------------------------------------------------
(***************************************************************************)
(* Every step of the editor and of the command line tool is one of the     *)
(* service, or changes no file.                                            *)
(***************************************************************************)
LEMMA BeginsIsService ==
    ASSUME NEW c \in Clients, Begins(c)
    PROVE  ServiceNext
BY DEF Begins, ServiceNext

LEMMA PlaceholderIsDoc == Placeholder \in Docs
BY DEF Placeholder, Docs

LEMMA SetFieldBegins ==
    ASSUME TypeOK, NEW c \in Clients, NEW id \in Ids, NEW s \in Sources, NEW p \in Pointers,
           NEW v \in CliValues(p), SetField(c, s, id, p, v)
    PROVE  Begins(c)
<1> DEFINE d == disk[s][id]
<1>1. d # Absent /\ ApplyOperations(c, s, id, Applied(d, Op(p, v)))
  BY DEF SetField, FirstSource, Lowest, Providers, Provides
<1>2. d \in Docs
  <2>1. disk \in Packages /\ s \in Files /\ ContentsOf(s) = SourceContents
    BY FileFacts DEF TypeOK
  <2>2. disk[s] \in SourceContents
    BY <2>1, PackageFacts
  <2> QED BY <1>1, <2>2 DEF SourceContents
<1>3. /\ p = "ref" => v \in Ids \cup {Absent, Null}
      /\ p = "stats" => v \in {Null}
      /\ p = "hp" => v \in Numbers \cup {Absent, Null}
  BY DEF CliValues, Pointers
<1>4. Op(p, v).at = p /\ Op(p, v).value = v
  BY DEF Op
<1> HIDE DEF d
<1>5. Applied(d, Op(p, v)) \in Docs
  <2>1. CASE p = "hp"
    <3>1. [hp |-> v] \in Objects
      BY <1>3, <2>1 DEF Objects
    <3>2. Applied(d, Op(p, v)) = [d EXCEPT !.stats = [hp |-> v]]
      BY <1>4, <2>1 DEF Applied
    <3> QED BY <1>2, <3>1, <3>2 DEF Docs
  <2>2. CASE p = "ref"
    <3>1. Applied(d, Op(p, v)) = [d EXCEPT !.ref = v]
      BY <1>2, <1>4, <2>2 DEF Applied, Docs
    <3> QED BY <1>2, <1>3, <2>2, <3>1 DEF Docs
  <2>3. CASE p = "stats"
    <3>1. Applied(d, Op(p, v)) = [d EXCEPT !.stats = v]
      BY <1>2, <1>4, <2>3 DEF Applied, Docs
    <3> QED BY <1>2, <1>3, <2>3, <3>1 DEF Docs
  <2> QED BY <2>1, <2>2, <2>3 DEF Pointers
<1> QED BY <1>1, <1>5 DEF Begins

LEMMA CliBegins ==
    ASSUME TypeOK, CliOperation
    PROVE  "cli" \in Clients /\ Begins("cli")
<1>1. "cli" \in Clients
  BY EditorAssumption
<1>2. CASE \E id \in Ids, s \in Sources, p \in Pointers : \E v \in CliValues(p) :
              SetField("cli", s, id, p, v)
  BY <1>1, <1>2, SetFieldBegins
<1>3. CASE \E id \in Ids : CreateDefinition("cli", id, Placeholder)
  BY <1>1, <1>3, PlaceholderIsDoc DEF Begins
<1>4. CASE \/ \E id \in Ids, s \in Sources : DeleteDefinition("cli", s, id)
           \/ \E from, to \in Ids, s \in Sources : DuplicateDefinition("cli", s, from, to)
           \/ \E old, new \in Ids : RenameDefinition("cli", old, new, FALSE)
  BY <1>1, <1>4 DEF Begins
<1> QED BY <1>1, <1>2, <1>3, <1>4 DEF CliOperation

\* What the editor asks of the service that is not a save.
EditorAsks ==
    \/ \E id \in Ids : EditorCreate(id) \/ EditorDelete(id)
    \/ \E from, to \in Ids : EditorDuplicate(from, to)
    \/ \E old, new \in Ids, redirect \in BOOLEAN : EditorRename(old, new, redirect)

LEMMA AskFacts ==
    ASSUME TypeOK, EditorAsks
    PROVE  /\ "editor" \in Clients /\ Begins("editor")
           /\ session' = session /\ goal'.what \in {"keep", "close", "open"}
           /\ goal'.what = "open" => goal'.id \in Ids /\ goal'.source = Absent
<1>1. "editor" \in Clients
  BY EditorAssumption
<1>2. /\ Keep.what = "keep" /\ Close.what = "close"
      /\ \A id, s : Open(id, s).what = "open" /\ Open(id, s).id = id /\ Open(id, s).source = s
  BY DEF Keep, Close, Open, Goal
<1>3. CASE \E id \in Ids : EditorCreate(id)
  BY <1>1, <1>2, <1>3, PlaceholderIsDoc DEF EditorCreate, Begins, Called
<1>4. CASE \E id \in Ids : EditorDelete(id)
  BY <1>1, <1>2, <1>4 DEF EditorDelete, Begins, Called
<1>5. CASE \E from, to \in Ids : EditorDuplicate(from, to)
  BY <1>1, <1>2, <1>5 DEF EditorDuplicate, Begins, Called
<1>6. CASE \E old, new \in Ids, redirect \in BOOLEAN : EditorRename(old, new, redirect)
  BY <1>1, <1>2, <1>6 DEF EditorRename, Begins, Called
<1> QED BY <1>3, <1>4, <1>5, <1>6 DEF EditorAsks

LEMMA SaveFacts ==
    ASSUME TypeOK, NEW id \in Ids, NEW s, SaveAndOpen(id, s), session.id \in Ids
    PROVE  /\ "editor" \in Clients /\ Begins("editor") /\ IsOpen
           /\ session' = session /\ goal' = Open(id, s) /\ disk' = disk
           /\ \E t \in Sources :
                 /\ DOMAIN call'["editor"].updates = {t} /\ call'["editor"].done = {}
                 /\ disk[t] = session.seen
                 /\ \A i \in Ids \ {session.id} :
                       call'["editor"].updates[t][i] = session.seen[i]
<1>1. "editor" \in Clients
  BY EditorAssumption
<1>2. PICK t \in Sources :
         LET saved == Result(disk[t][session.id], session.pending)
         IN  /\ ApplyOperations("editor", t, session.id, saved)
             /\ saved \in Docs /\ Matches(t)
  BY DEF SaveAndOpen
<1> DEFINE saved == Result(disk[t][session.id], session.pending)
           q == Edited(disk, t, session.id, saved)
<1>3. ApplyOperations("editor", t, session.id, saved) /\ saved \in Docs /\ disk[t] = session.seen
  BY <1>2 DEF Matches
<1> HIDE DEF saved
<1>4. Begin("editor", {t}, q)
  BY <1>3 DEF ApplyOperations
<1>5. disk \in Packages /\ t \in Files
  BY FileFacts DEF TypeOK
<1>6. q \in Packages /\ \A i \in Ids \ {session.id} : q[t][i] = disk[t][i]
  BY <1>3, <1>5, EntryWritten DEF Edited
<1> HIDE DEF q
<1>7. call'["editor"] = Call("building", Restrict(q, {t}), Restrict(disk, {t})) /\ disk' = disk
  BY <1>1, <1>4 DEF Begin, TypeOK
<1>8. call'["editor"].updates = Restrict(q, {t}) /\ call'["editor"].done = {}
  BY <1>7 DEF Call
<1>9. DOMAIN Restrict(q, {t}) = {t} /\ Restrict(q, {t})[t] = q[t]
  BY <1>5, <1>6, RestrictFacts
<1>10. Begins("editor")
  BY <1>3 DEF Begins
<1>11. IsOpen /\ session' = session /\ goal' = Open(id, s)
  BY DEF SaveAndOpen
<1>12. /\ DOMAIN call'["editor"].updates = {t} /\ disk[t] = session.seen
       /\ \A i \in Ids \ {session.id} : call'["editor"].updates[t][i] = session.seen[i]
  BY <1>3, <1>6, <1>8, <1>9
<1> QED BY <1>1, <1>7, <1>8, <1>10, <1>11, <1>12

\* The edits and navigations that change no file.
EditorEdits ==
    \/ IsOpen /\ \E p \in Pointers : \E v \in FieldValues(session.candidate, p) :
          SetCurrentFieldValue(p, v)
    \/ IsOpen /\ \E p \in Pointers : RemoveCurrentProperty(p)
    \/ DiscardAndReload
    \/ \E id \in Ids : NavigateTo(id)

LEMMA EditorActsAs ==
    ASSUME EditorActs, SessionOK
    PROVE  \/ EditorEdits \/ EditorAsks
           \/ \E id \in Ids, s \in Sources \cup {index[x] : x \in Ids} :
                 SaveAndOpen(id, s) /\ session.id \in Ids /\ Free("editor")
<1>1. CASE SaveCurrentDefinition
  <2>1. IsOpen /\ SaveAndOpen(session.id, session.source)
    BY <1>1 DEF SaveCurrentDefinition, SaveAndOpen
  <2>2. Free("editor")
    BY <2>1 DEF SaveAndOpen, ApplyOperations, Begin
  <2> QED BY <2>1, <2>2 DEF SessionOK
<1>2. CASE \E id \in Ids : NavigateSaving(id)
  <2>1. PICK id \in Ids : SaveAndOpen(id, index[id])
    BY <1>2 DEF NavigateSaving
  <2>2. IsOpen /\ Free("editor")
    BY <2>1 DEF SaveAndOpen, ApplyOperations, Begin
  <2> QED BY <2>1, <2>2 DEF SessionOK
<1> QED BY <1>1, <1>2 DEF EditorActs, EditorEdits, EditorAsks

-----------------------------------------------------------------------------
(***************************************************************************)
(* The session.                                                            *)
(***************************************************************************)
LEMMA NoSessionOK ==
    ASSUME session' = NoSession
    PROVE  SessionOK'
BY DEF SessionOK, IsOpen

LEMMA LoadedOK ==
    ASSUME NEW p \in Packages, NEW id \in Ids, NEW s, session' = Loaded(p, id, s)
    PROVE  SessionOK'
<1>1. CASE ~(s \in Sources /\ Provides(p, s, id))
  BY <1>1, NoSessionOK DEF Loaded
<1>2. CASE s \in Sources /\ Provides(p, s, id)
  <2>1. session' = [id |-> id, source |-> s, seen |-> p[s],
                    candidate |-> p[s][id], pending |-> <<>>, dirty |-> NoEdits]
    BY <1>2 DEF Loaded
  <2>2. p[s] \in SourceContents
    BY <1>2, FileFacts, PackageFacts
  <2>3. p[s][id] \in Docs
    BY <1>2, <2>2 DEF Provides, SourceContents
  <2> QED BY <1>2, <2>1, <2>2, <2>3
          DEF SessionOK, Baseline, CandidateFollowsDirty, NoEdits, Pointers
<1> QED BY <1>1, <1>2

LEMMA SameSessionOK ==
    ASSUME SessionOK, session' = session
    PROVE  SessionOK'
BY DEF SessionOK, IsOpen, Baseline, CandidateFollowsDirty

LEMMA EditedOK ==
    ASSUME SessionOK, IsOpen, NEW candidate \in Docs, NEW pending, NEW dirty,
           Edit(candidate, pending, dirty), DOMAIN dirty \subseteq Pointers,
           "ref" \notin DOMAIN dirty => candidate.ref = Baseline.ref,
           {"stats", "hp"} \cap DOMAIN dirty = {} => candidate.stats = Baseline.stats,
           candidate.stats = Null => Baseline.stats = Null
    PROVE  SessionOK'
<1>1. session' = [session EXCEPT !.candidate = candidate, !.pending = pending,
                                 !.dirty = dirty]
  BY DEF Edit
<1>2. /\ session'.id = session.id /\ session'.source = session.source
      /\ session'.seen = session.seen /\ session'.candidate = candidate
      /\ session'.dirty = dirty /\ DOMAIN session' = DOMAIN session
  BY <1>1 DEF SessionOK
<1> QED BY <1>2 DEF SessionOK, Baseline, CandidateFollowsDirty

-----------------------------------------------------------------------------
(***************************************************************************)
(* The edits.                                                              *)
(***************************************************************************)
LEMMA ShownIs ==
    ASSUME SessionOK, IsOpen, NEW p \in Pointers, NEW v,
           p = "ref" => v \in Ids \cup {Absent},
           p = "stats" => v \in Objects \cup {Absent},
           p = "hp" => v \in Numbers \cup {Absent}
    PROVE  /\ Shown(Op(p, v)) \in Docs
           /\ p # "ref" => Shown(Op(p, v)).ref = session.candidate.ref
           /\ p = "ref" => Shown(Op(p, v)) = [session.candidate EXCEPT !.ref = v]
           /\ p = "stats" => Shown(Op(p, v)) = [session.candidate EXCEPT !.stats = v]
           /\ p = "hp" => \/ Shown(Op(p, v)).stats = [hp |-> v]
                          \/ session.candidate.stats = Null /\ Shown(Op(p, v)) = session.candidate
<1> DEFINE d == session.candidate
<1>1. d \in Docs /\ Op(p, v).at = p /\ Op(p, v).value = v
  BY DEF SessionOK, Op
<1>2. CASE p = "ref"
  <2>1. Shown(Op(p, v)) = [d EXCEPT !.ref = v]
    BY <1>1, <1>2 DEF Shown, CanApply, Applied
  <2> QED BY <1>1, <1>2, <2>1 DEF Docs
<1>3. CASE p = "stats"
  <2>1. Shown(Op(p, v)) = [d EXCEPT !.stats = v]
    BY <1>1, <1>3 DEF Shown, CanApply, Applied
  <2> QED BY <1>1, <1>3, <2>1 DEF Docs
<1>4. CASE p = "hp"
  <2>1. CASE d.stats = Null
    BY <1>1, <1>4, <2>1 DEF Shown, CanApply
  <2>2. CASE d.stats # Null
    <3>1. Shown(Op(p, v)) = [d EXCEPT !.stats = [hp |-> v]]
      BY <1>1, <1>4, <2>2 DEF Shown, CanApply, Applied
    <3>2. [hp |-> v] \in Objects
      BY <1>4 DEF Objects
    <3> QED BY <1>1, <1>4, <3>1, <3>2 DEF Docs
  <2> QED BY <2>1, <2>2
<1> QED BY <1>2, <1>3, <1>4 DEF Pointers

LEMMA RemoveOK ==
    ASSUME SessionOK, IsOpen, NEW p \in Pointers, RemoveCurrentProperty(p)
    PROVE  SessionOK'
<1> DEFINE c == Shown(Op(p, Absent))
           d == Marked(p, Null)
<1>1. Edit(c, Append(session.pending, Op(p, Absent)), d)
  BY DEF RemoveCurrentProperty
<1>2. DOMAIN d = DOMAIN session.dirty \cup {p} /\ DOMAIN d \subseteq Pointers
  BY DEF Marked, SessionOK
<1>3. /\ c \in Docs
      /\ p # "ref" => c.ref = session.candidate.ref
      /\ p = "ref" => c = [session.candidate EXCEPT !.ref = Absent]
      /\ p = "stats" => c = [session.candidate EXCEPT !.stats = Absent]
      /\ p = "hp" => \/ c.stats = [hp |-> Absent]
                     \/ session.candidate.stats = Null /\ c = session.candidate
  BY ShownIs
<1>4. session.candidate \in Docs /\ CandidateFollowsDirty
  BY DEF SessionOK
<1>5. "ref" \notin DOMAIN d => c.ref = Baseline.ref
  BY <1>2, <1>3, <1>4 DEF CandidateFollowsDirty
<1>6. {"stats", "hp"} \cap DOMAIN d = {} => c.stats = Baseline.stats
  BY <1>2, <1>3, <1>4 DEF CandidateFollowsDirty, Pointers, Docs
<1>7. c.stats = Null => Baseline.stats = Null
  <2>1. [hp |-> Absent] # Null /\ Absent # Null
    BY NoDataAssumption DEF Objects
  <2> QED BY <1>3, <1>4, <2>1 DEF CandidateFollowsDirty, Pointers, Docs
<1> HIDE DEF c, d
<1> QED BY <1>1, <1>2, <1>3, <1>5, <1>6, <1>7, EditedOK

LEMMA SetOK ==
    ASSUME SessionOK, IsOpen, NEW p \in Pointers,
           NEW v \in FieldValues(session.candidate, p), SetCurrentFieldValue(p, v)
    PROVE  SessionOK'
<1> DEFINE c == Shown(Op(p, v))
           d == Dirtied(p, v)
<1>1. Edit(c, SetsOf(d), d)
  BY DEF SetCurrentFieldValue
<1>2. /\ p = "ref" => v \in Ids
      /\ p = "stats" => v = [hp |-> Absent] /\ session.candidate.stats = Absent
      /\ p = "hp" => v \in Numbers
  BY DEF FieldValues, Pointers
<1>3. [hp |-> Absent] \in Objects /\ [hp |-> Absent] # Null
  BY NoDataAssumption DEF Objects
<1>4. /\ c \in Docs
      /\ p # "ref" => c.ref = session.candidate.ref
      /\ p = "ref" => c = [session.candidate EXCEPT !.ref = v]
      /\ p = "stats" => c = [session.candidate EXCEPT !.stats = v]
      /\ p = "hp" => \/ c.stats = [hp |-> v]
                     \/ session.candidate.stats = Null /\ c = session.candidate
  BY <1>2, <1>3, ShownIs
<1>5. session.candidate \in Docs /\ Baseline \in Docs /\ CandidateFollowsDirty
  BY DEF SessionOK
<1>6. \/ ValueAt(Baseline, p) # v /\ DOMAIN d = DOMAIN session.dirty \cup {p}
      \/ ValueAt(Baseline, p) = v /\ DOMAIN d = DOMAIN session.dirty \ {p}
  BY DEF Dirtied, Marked
<1>7. DOMAIN d \subseteq Pointers
  BY <1>6 DEF SessionOK
<1> HIDE DEF c, d
<1>8. "ref" \notin DOMAIN d => c.ref = Baseline.ref
  <2>1. CASE p = "ref"
    BY <2>1, <1>4, <1>5, <1>6 DEF ValueAt, Docs
  <2>2. CASE p # "ref"
    BY <2>2, <1>4, <1>5, <1>6 DEF CandidateFollowsDirty
  <2> QED BY <2>1, <2>2
<1>9. {"stats", "hp"} \cap DOMAIN d = {} => c.stats = Baseline.stats
  <2>1. CASE p = "ref"
    BY <2>1, <1>4, <1>5, <1>6 DEF CandidateFollowsDirty, Docs
  <2>2. CASE p = "stats"
    BY <2>2, <1>4, <1>5, <1>6 DEF ValueAt, Docs
  <2>3. CASE p = "hp"
    <3> SUFFICES ASSUME {"stats", "hp"} \cap DOMAIN d = {}
                 PROVE  c.stats = Baseline.stats
      OBVIOUS
    <3>1. ValueAt(Baseline, "hp") = v /\ v # Absent
      BY <2>3, <1>2, <1>6, NoDataAssumption
    <3>2. Baseline.stats \in Objects /\ Baseline.stats.hp = v
      BY <3>1 DEF ValueAt
    <3>3. Baseline.stats = [hp |-> v]
      BY <3>2 DEF Objects
    <3> QED BY <2>3, <3>3, <1>4, <1>5 DEF CandidateFollowsDirty
  <2> QED BY <2>1, <2>2, <2>3 DEF Pointers
<1>10. c.stats = Null => Baseline.stats = Null
  <2>1. p = "hp" => [hp |-> v] # Null
    BY <1>2, NoDataAssumption DEF Objects
  <2> QED BY <2>1, <1>2, <1>3, <1>4, <1>5 DEF CandidateFollowsDirty, Pointers, Docs
<1> QED BY <1>1, <1>4, <1>7, <1>8, <1>9, <1>10, EditedOK

-----------------------------------------------------------------------------
(***************************************************************************)
(* The invariant.                                                          *)
(***************************************************************************)
LEMMA InitEditorInv == EditorInit => EditorInv
<1> SUFFICES ASSUME EditorInit PROVE EditorInv
  OBVIOUS
<1>1. IInv /\ session = NoSession
  BY ServiceInitOK DEF EditorInit
<1>2. goal.what = "keep"
  BY DEF EditorInit, Keep, Goal
<1> QED BY <1>1, <1>2 DEF EditorInv, SessionOK, IsOpen, GoalOK, SaveInWindow, Saving

\* What one client does leaves the other's operation as it was, or without the
\* contents of one of its files.
Undisturbed(d) ==
    \/ disk' = disk /\ call'[d] = call[d]
    \/ \E f : /\ \A g \in Files \ {f} : disk'[g] = disk[g]
              /\ call'[d] = IF call[d].phase \in Underway
                            THEN [call[d] EXCEPT !.stale = @ \cup {f}] ELSE call[d]

LEMMA OthersMove ==
    ASSUME TypeOK, NEW c \in Clients, NEW d \in Clients \ {c},
           \/ Begins(c) \/ ValidateCandidate(c) \/ CommitFile(c) \/ RollBackFile(c)
           \/ Die(c) \/ Return(c)
    PROVE  Undisturbed(d)
<1>1. \A o : Turn(c, o) /\ disk' = disk => Undisturbed(d)
  BY DEF Turn, TypeOK, Undisturbed
<1>2. ASSUME NEW f, NEW contents, NEW o, Replace(c, f, contents, o)
      PROVE  Undisturbed(d)
  <2>1. DOMAIN disk = Files
    BY PackageFacts DEF TypeOK
  <2>2. /\ \A g \in Files \ {f} : disk'[g] = disk[g]
        /\ call'[d] = IF call[d].phase \in Underway
                      THEN [call[d] EXCEPT !.stale = @ \cup {f}] ELSE call[d]
    BY <1>2, <2>1 DEF Replace, TypeOK
  <2> QED BY <2>2 DEF Undisturbed
<1>3. CASE Begins(c)
  <2>1. PICK S \in SUBSET Files, p \in Packages : Begun(c, S, p)
    BY <1>3, BeginsAs
  <2>2. PICK o \in Calls : FirstCall(o, c, S, p)
    BY <2>1, BeginFacts
  <2> QED BY <1>1, <2>2 DEF FirstCall
<1>4. CASE ValidateCandidate(c)
  BY <1>1, <1>4 DEF ValidateCandidate
<1>5. CASE CommitFile(c)
  BY <1>1, <1>2, <1>5 DEF CommitFile
<1>6. CASE RollBackFile(c)
  BY <1>1, <1>2, <1>6 DEF RollBackFile
<1>7. CASE Die(c) \/ Return(c)
  BY <1>1, <1>7 DEF Die, Return
<1> QED BY <1>3, <1>4, <1>5, <1>6, <1>7

\* The editor's own save goes on, or is over.
LEMMA SaveGoesOn ==
    ASSUME IInv, SaveInWindow, Saving, "editor" \in Clients,
           ValidateCandidate("editor") \/ CommitFile("editor") \/ RollBackFile("editor")
              \/ Die("editor")
    PROVE  \/ call'["editor"].phase \notin Underway
           \/ /\ disk' = disk /\ call["editor"].phase \in Underway
              /\ call'["editor"] = [call["editor"] EXCEPT !.phase = "committing"]
<1> DEFINE e == "editor"
<1>1. TypeOK /\ call \in [Clients -> Calls] /\ call[e] \in Calls /\ PhaseOK(call[e])
  BY DEF IInv, TypeOK
<1>2. \A r \in Results : Ended(r).phase \notin Underway
  BY DEF Ended, Call, Underway, Results
<1>3. \A o : Turn(e, o) => call'[e] = o
  BY <1>1 DEF Turn
<1>4. \A f, contents, o : Replace(e, f, contents, o) => call'[e] = o
  BY DEF Replace
<1>5. CASE ValidateCandidate(e)
  BY <1>2, <1>3, <1>5 DEF ValidateCandidate, Results, Underway
<1>6. CASE CommitFile(e)
  <2>1. call[e].phase = "committing" /\ call[e].phase \in Underway
    BY <1>6 DEF CommitFile, Underway
  <2>2. PICK t \in Sources : DOMAIN call[e].updates = {t}
    BY <2>1 DEF SaveInWindow
  <2>3. call[e].done = {}
    BY <2>1 DEF SaveInWindow
  <2>4. \A f \in Lowest(DOMAIN call[e].updates \ call[e].done) :
           call[e].done \cup {f} = DOMAIN call[e].updates
    BY <2>2, <2>3 DEF Lowest
  <2>5. (\E f, contents : Replace(e, f, contents, Ended("done"))) \/ Turn(e, Ended("undone"))
    BY <1>6, <2>3, <2>4, Zenon DEF CommitFile
  <2> QED BY <1>2, <1>3, <1>4, <2>5 DEF Results
<1>7. CASE RollBackFile(e)
  BY <1>1, <1>7 DEF RollBackFile, PhaseOK, SaveInWindow, Underway
<1>8. CASE Die(e)
  BY <1>2, <1>3, <1>8 DEF Die, Results
<1> QED BY <1>5, <1>6, <1>7, <1>8

\* While the session stays, so does the window of its save.
LEMMA WindowStays ==
    ASSUME IInv, SaveInWindow, "editor" \in Clients, session' = session, goal' = goal,
           \/ Undisturbed("editor")
           \/ /\ disk' = disk /\ call["editor"].phase \in Underway
              /\ call'["editor"] = [call["editor"] EXCEPT !.phase = "committing"]
    PROVE  SaveInWindow'
<1> DEFINE e == "editor"
<1>1. call[e] \in Calls /\ disk \in Packages
  BY DEF IInv, TypeOK
<1> DEFINE Kept(f) ==
              /\ \A g \in Files : g # f \/ disk' = disk => disk'[g] = disk[g]
              /\ call'[e].phase \in Underway => call[e].phase \in Underway
              /\ call'[e].updates = call[e].updates /\ call'[e].done = call[e].done
              /\ call[e].stale \subseteq call'[e].stale
              /\ call'[e].phase \in Underway => f \in call'[e].stale \/ disk' = disk
<1>2. PICK f : Kept(f)
  <2>1. CASE disk' = disk /\ call'[e] = call[e]
    BY <2>1
  <2>2. ASSUME NEW f, \A g \in Files \ {f} : disk'[g] = disk[g],
               call'[e] = IF call[e].phase \in Underway
                          THEN [call[e] EXCEPT !.stale = @ \cup {f}] ELSE call[e]
        PROVE  Kept(f)
    <3>1. CASE call[e].phase \in Underway
      <4>1. /\ call'[e].updates = call[e].updates /\ call'[e].done = call[e].done
            /\ call'[e].stale = call[e].stale \cup {f}
        BY <1>1, <2>2, <3>1, StaleFacts
      <4> QED BY <2>2, <3>1, <4>1
    <3>2. CASE call[e].phase \notin Underway
      BY <2>2, <3>2
    <3> QED BY <3>1, <3>2
  <2>3. CASE /\ disk' = disk /\ call[e].phase \in Underway
             /\ call'[e] = [call[e] EXCEPT !.phase = "committing"]
    BY <1>1, <2>3 DEF Calls
  <2> QED BY <2>1, <2>2, <2>3 DEF Undisturbed
<1> SUFFICES ASSUME call'[e].phase \in Underway, Saving'
             PROVE  /\ IsOpen' /\ call'[e].done = {}
                    /\ \E t \in Sources :
                          /\ DOMAIN call'[e].updates = {t}
                          /\ t \in call'[e].stale \/ disk'[t] = session'.seen
                          /\ \A id \in Ids \ {session'.id} :
                                call'[e].updates[t][id] = session'.seen[id]
  BY DEF SaveInWindow
<1>3. Saving /\ call[e].phase \in Underway
  BY <1>2 DEF Saving
<1>4. IsOpen' /\ call'[e].done = {}
  BY <1>2, <1>3 DEF SaveInWindow, IsOpen
<1>5. PICK t \in Sources :
         /\ DOMAIN call[e].updates = {t}
         /\ t \in call[e].stale \/ disk[t] = session.seen
         /\ \A id \in Ids \ {session.id} : call[e].updates[t][id] = session.seen[id]
  BY <1>3 DEF SaveInWindow
<1>6. t \in call'[e].stale \/ disk'[t] = session'.seen
  BY <1>2, <1>5, FileFacts
<1> QED BY <1>2, <1>4, <1>5, <1>6

\* What the steps of the editor and of the command line tool come down to.
LEMMA StepsAre ==
    ASSUME EditorInv, EditorNext
    PROVE  \/ /\ EditorEdits /\ call["editor"] = Idle /\ UNCHANGED serviceVars
              /\ goal' = goal
           \/ EditorAsks
           \/ \E s : \E id \in Ids : SaveAndOpen(id, s) /\ session.id \in Ids
           \/ EditorReturns \/ EditorRestarts
           \/ /\ session' = session /\ goal' = goal
              /\ "cli" \in Clients /\ (Begins("cli") \/ Return("cli"))
           \/ /\ session' = session /\ goal' = goal
              /\ \E c \in Clients :
                    ValidateCandidate(c) \/ CommitFile(c) \/ RollBackFile(c) \/ Die(c)
<1>1. CASE Free("editor") /\ EditorActs
  <2>1. EditorEdits => UNCHANGED serviceVars /\ goal' = goal
    BY DEF EditorEdits, SetCurrentFieldValue, RemoveCurrentProperty, Edit, DiscardAndReload,
         NavigateTo
  <2> QED BY <1>1, <2>1, EditorActsAs DEF EditorInv, Free
<1>2. CASE Cli
  BY <1>2, CliBegins DEF Cli, EditorInv, IInv
<1>3. CASE CliEnds
  BY <1>3, EditorAssumption DEF CliEnds
<1>4. CASE ServiceGoesOn
  BY <1>4 DEF ServiceGoesOn
<1> QED BY <1>1, <1>2, <1>3, <1>4 DEF EditorNext

LEMMA StepIsService ==
    ASSUME EditorInv, [EditorNext]_vars
    PROVE  [ServiceNext]_serviceVars
<1>1. TypeOK /\ "editor" \in Clients
  BY EditorAssumption DEF EditorInv, IInv
<1>2. CASE EditorAsks
  BY <1>1, <1>2, AskFacts, BeginsIsService
<1>3. CASE \E s : \E id \in Ids : SaveAndOpen(id, s) /\ session.id \in Ids
  BY <1>1, <1>3, SaveFacts, BeginsIsService
<1>4. CASE EditorReturns \/ EditorRestarts
  BY <1>1, <1>4 DEF EditorReturns, EditorRestarts, ServiceNext
<1>5. CASE "cli" \in Clients /\ (Begins("cli") \/ Return("cli"))
  BY <1>5, BeginsIsService DEF ServiceNext
<1>6. CASE \E c \in Clients :
              ValidateCandidate(c) \/ CommitFile(c) \/ RollBackFile(c) \/ Die(c)
  BY <1>6 DEF ServiceNext
<1>7. CASE UNCHANGED vars
  BY <1>7 DEF vars
<1> QED BY <1>2, <1>3, <1>4, <1>5, <1>6, <1>7, StepsAre

LEMMA ReachedOK ==
    ASSUME EditorInv, session' = Reached
    PROVE  SessionOK'
<1>1. disk \in Packages /\ SessionOK /\ goal.what \in {"keep", "close", "open"}
      /\ (goal.what = "open" => goal.id \in Ids)
  BY DEF EditorInv, IInv, TypeOK, GoalOK
<1>2. CASE goal.what = "keep"
  <2>1. session' = session
    BY <1>2 DEF Reached, Saving
  <2> QED BY <1>1, <2>1, SameSessionOK
<1>3. CASE goal.what = "close"
  <2>1. session' = NoSession
    BY <1>3 DEF Reached, Saving
  <2> QED BY <2>1, NoSessionOK
<1>4. CASE goal.what = "open"
  <2>1. \E s : session' = Loaded(disk, goal.id, s)
    <3>1. CASE Saving
      BY <1>4, <3>1 DEF Reached
    <3>2. CASE ~Saving
      BY <1>4, <3>2 DEF Reached
    <3> QED BY <3>1, <3>2
  <2> QED BY <1>1, <1>4, <2>1, LoadedOK
<1> QED BY <1>1, <1>2, <1>3, <1>4

LEMMA SessionStep ==
    ASSUME EditorInv, [EditorNext]_vars
    PROVE  SessionOK'
<1>1. disk \in Packages /\ SessionOK /\ TypeOK
  BY DEF TypeOK, EditorInv, IInv
<1>2. CASE EditorEdits
  <2>1. CASE IsOpen /\ \E p \in Pointers : \E v \in FieldValues(session.candidate, p) :
                SetCurrentFieldValue(p, v)
    BY <1>1, <2>1, SetOK
  <2>2. CASE IsOpen /\ \E p \in Pointers : RemoveCurrentProperty(p)
    BY <1>1, <2>2, RemoveOK
  <2>3. CASE DiscardAndReload
    <3>1. session.id \in Ids /\ session' = Loaded(disk, session.id, session.source)
      BY <1>1, <2>3 DEF DiscardAndReload, SessionOK
    <3> QED BY <1>1, <3>1, LoadedOK
  <2>4. CASE \E id \in Ids : NavigateTo(id)
    BY <1>1, <2>4, LoadedOK DEF NavigateTo
  <2> QED BY <1>2, <2>1, <2>2, <2>3, <2>4 DEF EditorEdits
<1>3. CASE session' = session
  BY <1>1, <1>3, SameSessionOK
<1>4. CASE EditorAsks
  BY <1>1, <1>3, <1>4, AskFacts
<1>5. CASE \E s : \E id \in Ids : SaveAndOpen(id, s) /\ session.id \in Ids
  BY <1>1, <1>3, <1>5, SaveFacts
<1>6. CASE EditorReturns
  BY <1>3, <1>6, ReachedOK DEF EditorReturns
<1>7. CASE EditorRestarts
  BY <1>7, NoSessionOK DEF EditorRestarts
<1> QED BY <1>2, <1>3, <1>4, <1>5, <1>6, <1>7, StepsAre DEF vars

LEMMA WindowStep ==
    ASSUME EditorInv, [EditorNext]_vars
    PROVE  SaveInWindow' /\ GoalOK'
<1>1. IInv /\ TypeOK /\ SaveInWindow /\ GoalOK /\ "editor" \in Clients
  BY EditorAssumption DEF EditorInv, IInv
<1>2. Idle.phase \notin Underway
  BY DEF Idle, Ended, Call, Underway
<1>3. Keep.what = "keep"
      /\ \A id, s : Open(id, s).what = "open" /\ Open(id, s).id = id /\ Open(id, s).source = s
  BY DEF Keep, Open, Goal
<1>4. CASE EditorEdits /\ call["editor"] = Idle /\ UNCHANGED serviceVars /\ goal' = goal
  BY <1>1, <1>2, <1>4 DEF serviceVars, SaveInWindow, GoalOK
<1>5. CASE EditorAsks
  <2>1. /\ goal'.what \in {"keep", "close", "open"}
        /\ goal'.what = "open" => goal'.id \in Ids /\ goal'.source = Absent
    BY <1>1, <1>5, AskFacts
  <2> QED BY <2>1 DEF SaveInWindow, GoalOK, Saving
<1>6. CASE \E s : \E id \in Ids : SaveAndOpen(id, s) /\ session.id \in Ids
  <2>1. PICK s : \E id \in Ids : SaveAndOpen(id, s) /\ session.id \in Ids
    BY <1>6
  <2>5. PICK id \in Ids : SaveAndOpen(id, s) /\ session.id \in Ids
    BY <2>1
  <2>2. /\ IsOpen /\ session' = session /\ goal' = Open(id, s) /\ disk' = disk
        /\ \E t \in Sources :
              /\ DOMAIN call'["editor"].updates = {t} /\ call'["editor"].done = {}
              /\ disk[t] = session.seen
              /\ \A i \in Ids \ {session.id} :
                    call'["editor"].updates[t][i] = session.seen[i]
    BY <1>1, <2>5, SaveFacts
  <2>3. IsOpen'
    BY <2>2 DEF IsOpen
  <2>4. GoalOK'
    BY <1>3, <2>5, <2>2 DEF GoalOK
  <2> QED BY <2>2, <2>3, <2>4 DEF SaveInWindow
<1>7. CASE EditorReturns \/ EditorRestarts
  <2>1. goal' = Keep
    BY <1>7 DEF EditorReturns, EditorRestarts
  <2> QED BY <1>3, <2>1 DEF SaveInWindow, GoalOK, Saving
<1>8. CASE /\ session' = session /\ goal' = goal
           /\ "cli" \in Clients /\ (Begins("cli") \/ Return("cli"))
  <2>1. Undisturbed("editor")
    BY <1>1, <1>8, OthersMove
  <2>2. SaveInWindow'
    BY <1>1, <1>8, <2>1, WindowStays
  <2> QED BY <1>1, <1>8, <2>2 DEF GoalOK
<1>9. CASE /\ session' = session /\ goal' = goal
           /\ \E c \in Clients :
                 ValidateCandidate(c) \/ CommitFile(c) \/ RollBackFile(c) \/ Die(c)
  <2>1. PICK c \in Clients :
           ValidateCandidate(c) \/ CommitFile(c) \/ RollBackFile(c) \/ Die(c)
    BY <1>9
  <2>2. CASE c # "editor"
    <3>1. Undisturbed("editor")
      BY <1>1, <2>1, <2>2, OthersMove
    <3> QED BY <1>1, <1>9, <3>1, WindowStays DEF GoalOK
  <2>3. CASE c = "editor" /\ Saving
    <3>1. \/ call'["editor"].phase \notin Underway
          \/ /\ disk' = disk /\ call["editor"].phase \in Underway
             /\ call'["editor"] = [call["editor"] EXCEPT !.phase = "committing"]
      BY <1>1, <2>1, <2>3, SaveGoesOn
    <3>2. CASE call'["editor"].phase \notin Underway
      BY <1>1, <1>9, <3>2 DEF SaveInWindow, GoalOK
    <3> QED BY <1>1, <1>9, <3>1, <3>2, WindowStays DEF GoalOK
  <2>4. CASE ~Saving
    BY <1>1, <1>9, <2>4 DEF SaveInWindow, Saving, GoalOK
  <2> QED BY <2>2, <2>3, <2>4
<1>10. CASE UNCHANGED vars
  BY <1>1, <1>10 DEF vars, serviceVars, SaveInWindow, Saving, GoalOK, IsOpen
<1> QED BY <1>4, <1>5, <1>6, <1>7, <1>8, <1>9, <1>10, StepsAre

LEMMA EditorStep == EditorInv /\ [EditorNext]_vars => EditorInv' /\ [ServiceNext]_serviceVars
<1> SUFFICES ASSUME EditorInv, [EditorNext]_vars
             PROVE  EditorInv' /\ [ServiceNext]_serviceVars
  OBVIOUS
<1>1. [ServiceNext]_serviceVars
  BY StepIsService
<1>2. IInv'
  BY <1>1, ServiceKeeps DEF EditorInv
<1> QED BY <1>1, <1>2, SessionStep, WindowStep DEF EditorInv

(***************************************************************************)
(* Whatever the editor and the command line tool do to the files is a step *)
(* of the service: neither writes a file around it.                        *)
(***************************************************************************)
THEOREM EditorUsesService == EditorSpec => ServiceSpec
<1>1. EditorInit => ServiceInit
  BY DEF EditorInit
<1> QED BY <1>1, InitEditorInv, EditorStep, PTL DEF EditorSpec, ServiceSpec

(***************************************************************************)
(* Hence the package is for both what the abstract specification says: as  *)
(* long as neither writes into an operation of the other, it changes whole *)
(* and to one that builds, or not at all; a rename that cannot finish and  *)
(* cannot be taken back leaves each file as it was or renamed.             *)
(***************************************************************************)
THEOREM EditorImplementsPackage == EditorSpec => ImplementsPackage
BY EditorUsesService, ServiceImplementsPackage, PTL

(***************************************************************************)
(* A session without dirty fields shows the definition as it was read.     *)
(***************************************************************************)
THEOREM EditorCleanMeansUnchanged == EditorSpec => []CleanMeansUnchanged
<1>1. ASSUME EditorInv
      PROVE  CleanMeansUnchanged
  <2> SUFFICES ASSUME IsOpen, ~IsDirty
               PROVE  session.candidate = Baseline
    BY DEF CleanMeansUnchanged
  <2>1. DOMAIN session.dirty = {}
    BY DEF IsDirty, NoEdits
  <2>2. /\ session.candidate \in Docs /\ Baseline \in Docs
        /\ session.candidate.ref = Baseline.ref /\ session.candidate.stats = Baseline.stats
    BY <1>1, <2>1 DEF EditorInv, SessionOK, CandidateFollowsDirty
  <2> QED BY <2>2 DEF Docs
<1> QED BY <1>1, InitEditorInv, EditorStep, PTL DEF EditorSpec

-----------------------------------------------------------------------------
(***************************************************************************)
(* What a save overwrites unseen was written in its window, and it changes *)
(* nothing else of its file from what the session has read.                *)
(***************************************************************************)
\* The step that ends a save with success is the write of its file.
LEMMA SaveEnds ==
    ASSUME EditorInv, [EditorNext]_vars, call["editor"].phase = "committing",
           call'["editor"].phase = "done"
    PROVE  CommitFile("editor")
<1>1. IInv /\ TypeOK /\ "editor" \in Clients
  BY EditorAssumption DEF EditorInv, IInv
<1>2. call["editor"] \in Calls /\ call["editor"] # Idle
  BY <1>1 DEF TypeOK, Idle, Ended, Call
<1>3. ~Undisturbed("editor")
  <2>1. \A f : [call["editor"] EXCEPT !.stale = @ \cup {f}].phase = "committing"
    BY <1>2, StaleFacts
  <2> QED BY <2>1 DEF Undisturbed
<1>4. ~EditorAsks
  BY <1>1, <1>2 DEF EditorAsks, EditorCreate, EditorDuplicate, EditorDelete, EditorRename,
       CreateDefinition, DuplicateDefinition, DeleteDefinition, ApplyOperations,
       RenameDefinition, Begin, Free
<1>5. \A id, s : ~SaveAndOpen(id, s)
  BY <1>2 DEF SaveAndOpen, ApplyOperations, Begin, Free
<1>6. ~EditorReturns /\ ~EditorRestarts
  BY DEF EditorReturns, EditorRestarts, Return, Results
<1>7. ~(Begins("cli") /\ "cli" \in Clients) /\ ~(Return("cli") /\ "cli" \in Clients)
  BY <1>1, <1>3, OthersMove
<1>8. ~UNCHANGED vars
  BY DEF vars, serviceVars
<1>9. PICK c \in Clients : ValidateCandidate(c) \/ CommitFile(c) \/ RollBackFile(c) \/ Die(c)
  BY <1>2, <1>4, <1>5, <1>6, <1>7, <1>8, StepsAre
<1>10. c = "editor"
  BY <1>1, <1>3, <1>9, OthersMove
<1>11. ~Die("editor") /\ ~ValidateCandidate("editor") /\ ~RollBackFile("editor")
  <2>1. ~Die("editor")
    <3>1. Ended("died").phase # "done"
      BY DEF Ended, Call
    <3> QED BY <1>1, <3>1 DEF Die, Turn, TypeOK
  <2> QED BY <2>1 DEF ValidateCandidate, RollBackFile
<1> QED BY <1>9, <1>10, <1>11

LEMMA SaveStep ==
    ASSUME EditorInv, [EditorNext]_vars, Saving, call["editor"].phase = "committing",
           call'["editor"].phase = "done", NEW s \in DOMAIN call["editor"].updates
    PROVE  /\ \A id \in Ids \ {session.id} : disk'[s][id] = session.seen[id]
           /\ disk[s] # session.seen => s \in call["editor"].stale
<1> DEFINE e == "editor"
<1>1. IInv /\ TypeOK /\ e \in Clients /\ CommitFile(e)
  BY EditorAssumption, SaveEnds DEF EditorInv, IInv
<1>2. call[e].phase \in Underway
  BY DEF Underway
<1>3. PICK t \in Sources :
         /\ DOMAIN call[e].updates = {t}
         /\ t \in call[e].stale \/ disk[t] = session.seen
         /\ \A id \in Ids \ {session.id} : call[e].updates[t][id] = session.seen[id]
  BY <1>2 DEF EditorInv, SaveInWindow
<1>4. s = t /\ t \in Files
  BY <1>3, FileFacts
<1>5. DOMAIN disk = Files
  BY <1>1, PackageFacts DEF TypeOK
<1>6. disk'[t] = call[e].updates[t]
  <2>1. \A o : Turn(e, o) => call'[e] = o
    BY <1>1 DEF Turn, TypeOK
  <2>2. Ended("undone").phase # "done"
    BY DEF Ended, Call
  <2>3. [call[e] EXCEPT !.phase = "rollingBack"].phase # "done"
    BY <1>1 DEF TypeOK, Calls
  <2>4. PICK f \in Lowest(DOMAIN call[e].updates \ call[e].done) :
           \/ \E o : Replace(e, f, call[e].updates[f], o)
           \/ Turn(e, Ended("undone"))
           \/ Turn(e, [call[e] EXCEPT !.phase = "rollingBack"])
    BY <1>1 DEF CommitFile
  <2>5. PICK o : Replace(e, f, call[e].updates[f], o)
    BY <2>1, <2>2, <2>3, <2>4
  <2>6. f = t
    BY <1>3, <2>4 DEF Lowest
  <2> QED BY <1>4, <1>5, <2>5, <2>6 DEF Replace
<1> QED BY <1>3, <1>4, <1>6

THEOREM EditorSaveLosesOnlyItsWindow == EditorSpec => SaveLosesOnlyItsWindow
<1> DEFINE Kept ==
       \A s \in DOMAIN call["editor"].updates :
          Saving /\ call["editor"].phase = "committing" /\ call'["editor"].phase = "done" =>
             /\ \A id \in Ids \ {session.id} : disk'[s][id] = session.seen[id]
             /\ disk[s] # session.seen => s \in call["editor"].stale
<1>1. EditorInv /\ [EditorNext]_vars => [Kept]_vars
  BY SaveStep
<1> HIDE DEF Kept
<1>2. EditorSpec => [][Kept]_vars
  BY <1>1, InitEditorInv, EditorStep, PTL DEF EditorSpec
<1> QED BY <1>2 DEF SaveLosesOnlyItsWindow, Kept
=============================================================================
